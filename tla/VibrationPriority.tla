--------------------------- MODULE VibrationPriority ---------------------------
(***************************************************************************)
(* The decision of VibrationPriorityManager: may a requested vibration     *)
(* start on a motor, given the settings of the device and what the motor   *)
(* is doing?  A pure function of its arguments; MiscdeviceService calls it *)
(* with its locks held.                                                    *)
(*                                                                         *)
(* A request is a record                                                   *)
(*   pid     the calling process                                           *)
(*   app     the calling package (packageName and uid)                     *)
(*   exempt  the caller is a system one and asked for systemUsage          *)
(*   usage   what the vibration is for                                     *)
(*   mode    how it is produced                                            *)
(*   count   how often a preset effect is repeated                         *)
(*   index   the event indices a custom vibration names                    *)
(* and the settings are a record of the values the manager has cached.     *)
(***************************************************************************)
EXTENDS Naturals

AudioUsages == {"alarm", "ring", "notification", "communication"}

FeedbackUsages ==
  {"touch", "media", "unknown", "physicalFeedback", "simulateReality"}

Usages == AudioUsages \cup FeedbackUsages

Settings(Apps) ==
  [mute          : BOOLEAN,
   doNotDisturb  : BOOLEAN,
   whiteList     : SUBSET Apps,
   ringer        : {"silent", "vibrate", "normal"},
   whenRing      : BOOLEAN,
   feedback      : BOOLEAN,
   sceneBoard    : SUBSET Apps,
   inputMethods  : SUBSET Apps]

IsLoopVibrate(info) == info.mode = "preset" /\ info.count > 1

IgnoreAppVibrations(info, s) ==
  /\ info.usage \in {"notification", "ring"}
  /\ s.doNotDisturb
  /\ info.app \notin s.whiteList

\* TRUE when the feedback switch does not apply to this package.
ShouldIgnoreInputMethod(info, s) ==
  /\ info.app \notin s.sceneBoard
  /\ info.app \in s.inputMethods

IgnoredByRinger(info, s) ==
  info.usage \in AudioUsages /\ s.ringer = "silent"

IgnoredWhenRing(info, s) ==
  /\ info.usage \in {"ring", "communication"}
  /\ s.ringer = "normal"
  /\ ~s.whenRing

\* Mutant: the input methods are the packages the switch is for.
IgnoredByFeedbackInverted(info, s) ==
  info.usage \in FeedbackUsages /\ ~s.feedback /\ ShouldIgnoreInputMethod(info, s)

IgnoredByFeedback(info, s) ==
  /\ info.usage \in FeedbackUsages
  /\ ~s.feedback
  /\ ~ShouldIgnoreInputMethod(info, s)

\* The verdict of the device's settings alone; the first rule that applies
\* names the reason.  Mute is the one rule a system caller cannot avoid.
SettingsVerdict(info, s) ==
  IF s.mute /\ info.usage \in AudioUsages THEN "IGNORE_VIBRATOR_MUTE"
  ELSE IF info.exempt                      THEN "VIBRATION"
  ELSE IF IgnoreAppVibrations(info, s)     THEN "IGNORE_GLOBAL_SETTINGS"
  ELSE IF IgnoredByRinger(info, s)         THEN "IGNORE_RINGER_MODE"
  ELSE IF IgnoredWhenRing(info, s)         THEN "IGNORE_RINGER_VIBRATE_WHEN_RING"
  ELSE IF IgnoredByFeedback(info, s)       THEN "IGNORE_FEEDBACK"
  ELSE "VIBRATION"

\* Mutant: the alarm rule is dropped.
CurrentVerdictNoAlarm(info, current) ==
  IF IsLoopVibrate(current)        THEN "IGNORE_REPEAT"
  ELSE IF info.usage = "unknown" /\ current.usage # "unknown"
                                   THEN "IGNORE_UNKNOWN"
  ELSE "VIBRATION"

\* Mutant: any use is ignored in favour of another that plays.
CurrentVerdictOtherUse(info, current) ==
  IF current.usage = "alarm"       THEN "IGNORE_ALARM"
  ELSE IF IsLoopVibrate(current)   THEN "IGNORE_REPEAT"
  ELSE IF info.usage # current.usage THEN "IGNORE_UNKNOWN"
  ELSE "VIBRATION"

\* The verdict of what the motor is playing: the record `current' is the one
\* the motor's VibratorThread holds.
CurrentVerdict(info, current) ==
  IF current.usage = "alarm"       THEN "IGNORE_ALARM"
  ELSE IF IsLoopVibrate(current)   THEN "IGNORE_REPEAT"
  ELSE IF info.usage = "unknown" /\ current.usage # "unknown"
                                   THEN "IGNORE_UNKNOWN"
  ELSE "VIBRATION"

\* `vibrating' is IsCurrentVibrate: the motor's thread or its device is busy.
Verdict(info, s, vibrating, current) ==
  IF SettingsVerdict(info, s) # "VIBRATION" THEN SettingsVerdict(info, s)
  ELSE IF ~vibrating \/ IsLoopVibrate(info) THEN "VIBRATION"
  ELSE CurrentVerdict(info, current)

ShouldIgnoreVibrate(info, s, vibrating, current) ==
  Verdict(info, s, vibrating, current) # "VIBRATION"
================================================================================
