-------------------------- MODULE MCMiscdeviceService --------------------------
(***************************************************************************)
(* Small instances of MiscdeviceService for TLC: the values of the         *)
(* constants that the .cfg files choose from.                              *)
(***************************************************************************)
EXTENDS ServiceInvariant, TLC

CONSTANTS c1, c2, c3, p1, p2, app

Req(p, u, md, n, ix) ==
  [pid |-> p, app |-> app, exempt |-> FALSE, usage |-> u,
   mode |-> md, count |-> n, index |-> ix]

\* One device with one motor.
OneDevice   == [m \in {1} |-> 1]
OneMapping  == [d \in {1} |-> "mapping"]

\* Two devices with a motor each.
TwoDevices  == [m \in {1, 2} |-> m]
DelayAndHd  == [d \in {1, 2} |-> IF d = 1 THEN "delay" ELSE "hd"]

\* Settings that let everything through, and a silenced device.
Permissive == [mute |-> FALSE, doNotDisturb |-> FALSE, whiteList |-> {},
               ringer |-> "normal", whenRing |-> TRUE, feedback |-> TRUE,
               sceneBoard |-> {}, inputMethods |-> {}]
Silenced == [Permissive EXCEPT !.ringer = "silent"]
OnlyPermissive == {Permissive}
SomeSettings == {Permissive, Silenced}

\* Identifiers: the default one, and the second device's vibrator.
OnlyAny == {AnyTarget}
AnyAndSecond == {AnyTarget, [device |-> 2, vibrator |-> 2]}

\* An alarm, a repeated touch effect, and a pattern of unknown use.
PriorityRequests ==
  {Req(p1, "alarm", "time", 1, {}), Req(p2, "touch", "preset", 2, {}),
   Req(p2, "unknown", "custom", 2, {})}

\* The same, with a ring tone.
ContentionRequests == PriorityRequests \cup {Req(p1, "ring", "preset", 1, {})}

\* A pattern, which the service plays on the HD device and the thread on the
\* other, and a custom vibration for the motor of the HD device only.
PlugRequests ==
  {Req(p2, "ring", "pattern", 1, {}), Req(p2, "touch", "custom", 1, {2})}

CallerSymmetry == Permutations(Callers)
================================================================================
