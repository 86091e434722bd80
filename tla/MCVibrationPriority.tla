-------------------------- MODULE MCVibrationPriority --------------------------
(***************************************************************************)
(* Every request against every state of a motor and of the settings: the   *)
(* verdicts of module VibrationPriority, and what a change of one setting  *)
(* does to them.                                                           *)
(***************************************************************************)
EXTENDS VibrationPriority

CONSTANTS Apps

VARIABLES
  request,    \* the vibration asked for
  settings,   \* the values the manager has cached
  vibrating,  \* does the motor vibrate?
  current     \* the record of what it plays

vars == <<request, settings, vibrating, current>>

Vibrations == [app : Apps, exempt : BOOLEAN, usage : Usages,
               mode : {"time", "preset"}, count : 1 .. 2]

Open == [mute |-> FALSE, doNotDisturb |-> FALSE, whiteList |-> Apps,
         ringer |-> "vibrate", whenRing |-> TRUE, feedback |-> TRUE,
         sceneBoard |-> {}, inputMethods |-> {}]

\* A busy motor is looked at only when the settings let a request through.
Init ==
  /\ request \in Vibrations
  /\ \/ /\ settings \in Settings(Apps)
        /\ vibrating = FALSE
        /\ current = request
     \/ /\ settings = Open
        /\ vibrating = TRUE
        /\ current \in Vibrations

\* Stricter settings: a switch is turned to its more silent side.
Stricter ==
  \/ settings' = [settings EXCEPT !.mute = TRUE]
  \/ settings' = [settings EXCEPT !.doNotDisturb = TRUE]
  \/ \E S \in SUBSET settings.whiteList : settings' = [settings EXCEPT !.whiteList = S]
  \/ settings' = [settings EXCEPT !.ringer = "silent"]
  \/ settings' = [settings EXCEPT !.whenRing = FALSE]
  \/ settings' = [settings EXCEPT !.feedback = FALSE]
  \/ \E S \in SUBSET settings.inputMethods :
       settings' = [settings EXCEPT !.inputMethods = S]

Next == Stricter /\ UNCHANGED <<request, vibrating, current>>

Spec == Init /\ [][Next]_vars

Ignored == ShouldIgnoreVibrate(request, settings, vibrating, current)

--------------------------------------------------------------------------------
\* Turning a switch to its more silent side never lets a vibration through
\* that was ignored before, whichever rule it was that ignored it.
SilencingNeverAdmits == [][Ignored => Ignored']_vars

\* Of two vibrations that the settings allow and that each want the other's
\* motor one is let through, unless both are alarms: there is no pair of uses that shut each other out.
OneOfTwoWins ==
  vibrating =>
    LET refusedBy(a, b) == ShouldIgnoreVibrate(a, Open, TRUE, b)
    IN  (refusedBy(request, current) /\ refusedBy(current, request))
          => request.usage = "alarm" /\ current.usage = "alarm"

\* Vibrations of the same use may interrupt each other (docs/constraints.md).
SameUsageInterrupts ==
  (vibrating /\ request.usage = current.usage /\ ~IsLoopVibrate(current))
    => ~Ignored
================================================================================
