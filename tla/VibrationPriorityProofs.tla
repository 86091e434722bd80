------------------------ MODULE VibrationPriorityProofs ------------------------
(***************************************************************************)
(* What the decision of VibrationPriorityManager guarantees, for every set *)
(* of applications and every history of the settings.                      *)
(***************************************************************************)
EXTENDS MCVibrationPriority, TLAPS

\* With every switch at its loud side the settings refuse nothing.
LEMMA OpenRefusesNothing ==
  ASSUME NEW a
  PROVE  SettingsVerdict(a, Open) = "VIBRATION"
BY DEF SettingsVerdict, Open, IgnoreAppVibrations, IgnoredByRinger,
       IgnoredWhenRing, IgnoredByFeedback

\* A vibration that the settings allow is refused on a busy motor only if it
\* does not repeat itself, and then in favour of an alarm, of a vibration that
\* repeats, or of a known use over an unknown one.
LEMMA RefusedOnBusyMotor ==
  ASSUME NEW a, NEW b, ShouldIgnoreVibrate(a, Open, TRUE, b)
  PROVE  /\ ~IsLoopVibrate(a)
         /\ \/ b.usage = "alarm"
            \/ IsLoopVibrate(b)
            \/ a.usage = "unknown" /\ b.usage # "unknown"
BY OpenRefusesNothing DEF ShouldIgnoreVibrate, Verdict, CurrentVerdict

\* Two vibrations that want each other's motor never both lose, unless both are
\* alarms: OneOfTwoWins of what ShouldIgnoreVibrate decides.
THEOREM OneWins == Spec => []OneOfTwoWins
<1>1. OneOfTwoWins
  BY RefusedOnBusyMotor DEF OneOfTwoWins
<1> QED
  BY <1>1, PTL DEF Spec

(***************************************************************************)
(* Each rule of the settings is monotone: what it refuses, it refuses      *)
(* after a switch was turned to its silent side.                           *)
(***************************************************************************)

\* Does some rule of the settings refuse the vibration?
Refused(info, s) ==
  \/ s.mute /\ info.usage \in AudioUsages
  \/ /\ ~info.exempt
     /\ \/ IgnoreAppVibrations(info, s)
        \/ IgnoredByRinger(info, s)
        \/ IgnoredWhenRing(info, s)
        \/ IgnoredByFeedback(info, s)

\* The chain of early returns in ShouldIgnoreVibrate refuses exactly what one
\* of its rules refuses.
LEMMA VerdictIsRefused ==
  ASSUME NEW info, NEW s, info.exempt \in BOOLEAN
  PROVE  (SettingsVerdict(info, s) # "VIBRATION") <=> Refused(info, s)
BY DEF SettingsVerdict, Refused

\* Settings t are at least as strict as s.
AsStrict(s, t) ==
  /\ s.mute => t.mute
  /\ s.doNotDisturb => t.doNotDisturb
  /\ t.whiteList \subseteq s.whiteList
  /\ t.ringer # s.ringer => t.ringer = "silent"
  /\ t.whenRing => s.whenRing
  /\ t.feedback => s.feedback
  /\ t.sceneBoard = s.sceneBoard
  /\ t.inputMethods \subseteq s.inputMethods

\* A stricter state of the switches refuses all that was refused, although the
\* rule that refuses it may be another one (a silent ringer instead of the
\* switch for vibrating while ringing).
LEMMA StricterRefuses ==
  ASSUME NEW info, NEW s, NEW t, AsStrict(s, t), Refused(info, s)
  PROVE  Refused(info, t)
<1>1. ASSUME IgnoredWhenRing(info, s)
      PROVE  IgnoredWhenRing(info, t) \/ IgnoredByRinger(info, t)
  BY <1>1 DEF IgnoredWhenRing, IgnoredByRinger, AsStrict, AudioUsages
<1>2. ASSUME IgnoredByFeedback(info, s) PROVE IgnoredByFeedback(info, t)
  BY <1>2 DEF IgnoredByFeedback, ShouldIgnoreInputMethod, AsStrict
<1>3. ASSUME IgnoreAppVibrations(info, s) PROVE IgnoreAppVibrations(info, t)
  BY <1>3 DEF IgnoreAppVibrations, AsStrict
<1>4. ASSUME IgnoredByRinger(info, s) PROVE IgnoredByRinger(info, t)
  BY <1>4 DEF IgnoredByRinger, AsStrict
<1> QED
  BY <1>1, <1>2, <1>3, <1>4 DEF Refused, AsStrict

\* Every change of one switch leads to a stricter state of the settings.
LEMMA StricterSettings ==
  ASSUME settings \in Settings(Apps), Stricter
  PROVE  settings' \in Settings(Apps) /\ AsStrict(settings, settings')
<1> USE DEF Settings, AsStrict
<1>1. CASE settings' = [settings EXCEPT !.mute = TRUE]
  BY <1>1
<1>2. CASE settings' = [settings EXCEPT !.doNotDisturb = TRUE]
  BY <1>2
<1>3. CASE \E S \in SUBSET settings.whiteList : settings' = [settings EXCEPT !.whiteList = S]
  BY <1>3
<1>4. CASE settings' = [settings EXCEPT !.ringer = "silent"]
  BY <1>4
<1>5. CASE settings' = [settings EXCEPT !.whenRing = FALSE]
  BY <1>5
<1>6. CASE settings' = [settings EXCEPT !.feedback = FALSE]
  BY <1>6
<1>7. CASE \E S \in SUBSET settings.inputMethods :
             settings' = [settings EXCEPT !.inputMethods = S]
  BY <1>7
<1> QED
  BY <1>1, <1>2, <1>3, <1>4, <1>5, <1>6, <1>7 DEF Stricter

SettingsTypes == settings \in Settings(Apps) /\ request.exempt \in BOOLEAN

\* The settings and the request stay well-typed.
LEMMA SettingsTyped == Spec => []SettingsTypes
<1>1. Init => SettingsTypes
  <2> SUFFICES ASSUME Init PROVE SettingsTypes
    OBVIOUS
  <2>1. request.exempt \in BOOLEAN
    BY DEF Init, Vibrations
  <2>2. Open \in Settings(Apps)
    BY DEF Open, Settings
  <2> QED
    BY <2>1, <2>2 DEF Init, SettingsTypes
<1>2. SettingsTypes /\ [Next]_vars => SettingsTypes'
  BY StricterSettings DEF SettingsTypes, Next, vars
<1> QED
  BY <1>1, <1>2, PTL DEF Spec

\* Turning a switch to its silent side never lets through a vibration that was
\* ignored: SilencingNeverAdmits of the whole chain of rules.
THEOREM NeverAdmits == Spec => SilencingNeverAdmits
<1>1. SettingsTypes /\ [Next]_vars => [Ignored => Ignored']_vars
  <2> SUFFICES ASSUME SettingsTypes, Next, Ignored PROVE Ignored'
    BY DEF Ignored
  <2>1. AsStrict(settings, settings') /\ UNCHANGED <<request, vibrating, current>>
    BY StricterSettings DEF Next, SettingsTypes
  <2>2. Refused(request, settings) => Refused(request, settings')
    BY <2>1, StricterRefuses
  <2>3. request.exempt \in BOOLEAN /\ request' = request
    BY <2>1 DEF SettingsTypes
  <2>4. CASE SettingsVerdict(request, settings) # "VIBRATION"
    <3>1. Refused(request, settings')
      BY <2>2, <2>3, <2>4, VerdictIsRefused
    <3>2. SettingsVerdict(request, settings') # "VIBRATION"
      BY <2>3, <3>1, VerdictIsRefused
    <3> QED
      BY <2>3, <3>2 DEF Ignored, ShouldIgnoreVibrate, Verdict
  <2>5. CASE SettingsVerdict(request, settings) = "VIBRATION"
    BY <2>1, <2>5 DEF Ignored, ShouldIgnoreVibrate, Verdict
  <2> QED
    BY <2>4, <2>5
<1> QED
  BY <1>1, SettingsTyped, PTL DEF Spec, SilencingNeverAdmits
================================================================================
