----------------------------- MODULE VibratorThread ----------------------------
(***************************************************************************)
(* One VibratorThread per motor, and the motor's device behind the HDI.    *)
(*                                                                         *)
(* A VibratorThread is started for one vibration, plays it, and ends.  All *)
(* its Play functions hold vibrateMutex_ while they call the device and    *)
(* give it up only inside cv_.wait_for, whose predicate is exitFlag_.  The *)
(* service ends a thread early through NotifyExit and NotifyExitSync, of   *)
(* which the halves that belong to this module are operators below.        *)
(*                                                                         *)
(* A vibration is the VibrateInfo record of module VibrationPriority; its  *)
(* count is the number of device calls it consists of: repetitions of a    *)
(* preset effect, patterns of a HD package, parts of a composite one.      *)
(***************************************************************************)
EXTENDS VibrationPriority

CONSTANTS
  Motors,       \* the vibrators, numbered in the order the service visits them
  Pids, Apps,   \* the client processes and their packages
  MaxCount,     \* bound on the device calls of one vibration
  NoPid, NoApp, \* the values ResetVibrateInfo leaves behind
  Overrun       \* may a device still play when the wait for it times out?

ASSUME ThreadAssumption ==
  /\ Motors \subseteq Nat
  /\ MaxCount \in Nat
  /\ NoPid \notin Pids
  /\ NoApp \notin Apps
  /\ Overrun \in BOOLEAN

Composite == {"custom.effect", "custom.time"}
PlayModes == {"time", "preset", "custom.hd"} \cup Composite

\* "custom" and "pattern" are what a client asks for, before the service looks
\* up the device's capacity.  VIBRATE_BUTT is "butt" for a pattern that the
\* service itself sends to a HD device and "none" for one no device mode fits;
\* "" is the mode of a default record.
Modes == PlayModes \cup {"custom", "pattern", "butt", "none", ""}

Infos == [pid    : Pids,
          app    : Apps,
          exempt : BOOLEAN,
          usage  : Usages,
          mode   : Modes,
          count  : 0 .. MaxCount,
          index  : SUBSET Nat]

\* A default VibrateInfo, which is also what ResetVibrateInfo restores.
NoInfo == [pid    |-> NoPid,
           app    |-> NoApp,
           exempt |-> FALSE,
           usage  |-> "unknown",
           mode   |-> "",
           count  |-> 0,
           index  |-> {}]

Idle == NoInfo

VARIABLES
  running,    \* the Thread base class's running_
  tpc,        \* where Run is
  exitFlag,   \* exitFlag_
  current,    \* currentVibration_
  local,      \* the copy of it that Run took
  step,       \* device calls made so far
  hdi,        \* what the device plays, Idle when nothing
  attached    \* the motors physically present

threadVars == <<running, tpc, exitFlag, current, local, step>>
deviceVars == <<hdi, attached>>

ThreadPcs == {"none", "start", "play", "quiet", "wait", "done"}

ThreadTypeOK ==
  /\ running \in [Motors -> BOOLEAN]
  /\ tpc \in [Motors -> ThreadPcs]
  /\ exitFlag \in [Motors -> BOOLEAN]
  /\ current \in [Motors -> Infos \cup {NoInfo}]
  /\ local \in [Motors -> Infos \cup {NoInfo}]
  /\ step \in [Motors -> 0 .. MaxCount]
  /\ hdi \in [Motors -> Infos \cup {NoInfo}]
  /\ attached \subseteq Motors

ThreadInit ==
  /\ running = [m \in Motors |-> FALSE]
  /\ tpc = [m \in Motors |-> "none"]
  /\ exitFlag = [m \in Motors |-> FALSE]
  /\ current = [m \in Motors |-> NoInfo]
  /\ local = [m \in Motors |-> NoInfo]
  /\ step = [m \in Motors |-> 0]
  /\ hdi = [m \in Motors |-> Idle]
  /\ attached = Motors

--------------------------------------------------------------------------------
(***************************************************************************)
(* The device.  Stop names the kind of vibration it ends; a vibration of   *)
(* another kind goes on.                                                   *)
(***************************************************************************)
IsVibratorRunning(m) == hdi[m] # Idle

HdiModeOf(mode) ==
  CASE mode = "time" -> "once"
    [] mode \in {"preset", "custom.effect", "custom.time"} -> "preset"
    [] OTHER -> "hdhaptic"

AfterStop(m, kinds) ==
  IF HdiModeOf(hdi[m].mode) \in kinds THEN Idle ELSE hdi[m]

DeviceStop(m, kinds) == hdi' = [hdi EXCEPT ![m] = AfterStop(m, kinds)]

\* The vibration the device was given comes to its end.
DeviceEnds(m) ==
  /\ hdi[m] # Idle
  /\ hdi' = [hdi EXCEPT ![m] = Idle]
  /\ UNCHANGED <<threadVars, attached>>

--------------------------------------------------------------------------------
(***************************************************************************)
(* Run.                                                                    *)
(***************************************************************************)
Goto(m, pc) == tpc' = [tpc EXCEPT ![m] = pc]

\* Run copies the vibration and enters the Play function of its mode, which
\* takes vibrateMutex_.  PlayCustomByHdHptic first waits for its first
\* pattern's start time.  A composite one may fail to be transformed.
RunBegin(m) ==
  /\ tpc[m] = "start"
  /\ local' = [local EXCEPT ![m] = current[m]]
  /\ \/ /\ current[m].mode \in PlayModes
        /\ current[m].count > 0
        /\ Goto(m, IF current[m].mode = "custom.hd" THEN "wait" ELSE "play")
     \/ /\ \/ current[m].mode \notin PlayModes
           \/ current[m].count = 0
           \/ current[m].mode \in Composite
        /\ Goto(m, "done")
  /\ UNCHANGED <<running, exitFlag, current, step, deviceVars>>

\* One device call: StartOnce, StartByIntensity, PlayPattern or
\* EnableCompositeEffect.  After the last HD pattern there is nothing to wait
\* for: PlayCustomByHdHptic returns.
PlayDevice(m) ==
  /\ tpc[m] = "play"
  /\ m \in attached
  /\ hdi' = [hdi EXCEPT ![m] = local[m]]
  /\ step' = [step EXCEPT ![m] = @ + 1]
  /\ Goto(m, IF local[m].mode = "custom.hd" /\ step[m] + 1 >= local[m].count
             THEN "done" ELSE "wait")
  /\ UNCHANGED <<running, exitFlag, current, local, attached>>

\* The device refuses, or is gone: the Play function returns ERROR.
PlayFails(m) ==
  /\ tpc[m] = "play"
  /\ Goto(m, "done")
  /\ UNCHANGED <<running, exitFlag, current, local, step, deviceVars>>

\* Mutant: whatever plays, only a preset effect is stopped.
ExitSeenPresetOnly(m) ==
  /\ \/ tpc[m] = "wait"
     \/ tpc[m] = "play" /\ step[m] = 0 /\ local[m].mode \in Composite
  /\ exitFlag[m]
  /\ DeviceStop(m, {"preset"})
  /\ Goto(m, "done")
  /\ UNCHANGED <<running, exitFlag, current, local, step, attached>>

\* exitFlag_ is set: cv_.wait_for returns.  PlayCompositeEffect also looks at
\* the flag after every effect it only collects, before its first device call.
ExitSeen(m) ==
  /\ \/ tpc[m] = "wait"
     \/ tpc[m] = "play" /\ step[m] = 0 /\ local[m].mode \in Composite
  /\ exitFlag[m]
  /\ DeviceStop(m, {HdiModeOf(local[m].mode)})
  /\ Goto(m, "done")
  /\ UNCHANGED <<running, exitFlag, current, local, step, attached>>

\* Mutant: one repetition too many.
AfterTimeoutOnceMore(info, n) ==
  CASE info.mode = "custom.hd"                    -> "quiet"
    [] info.mode = "preset" /\ n <= info.count    -> "quiet"
    [] info.mode \in Composite /\ n < info.count  -> "play"
    [] OTHER                                      -> "done"

\* cv_.wait_for times out.  PlayOnce waits, from after StartOnce returned, for
\* the duration it gave StartOnce: the device has then finished.  The wait for
\* a preset or composite effect is of its nominal duration, which a device may
\* overrun; that between two HD patterns is of the time between their starts.
AfterTimeout(info, n) ==
  CASE info.mode = "custom.hd"                    -> "quiet"
    [] info.mode = "preset" /\ n < info.count     -> "quiet"
    [] info.mode \in Composite /\ n < info.count  -> "play"
    [] OTHER                                      -> "done"

WaitTimeout(m) ==
  /\ tpc[m] = "wait"
  /\ ~exitFlag[m]
  /\ \/ hdi[m] # local[m]
     \/ local[m].mode = "custom.hd"
     \/ Overrun /\ local[m].mode # "time"
  /\ Goto(m, AfterTimeout(local[m], step[m]))
  /\ UNCHANGED <<running, exitFlag, current, local, step, deviceVars>>

HandleMultipleVibrations(m) ==
  /\ tpc[m] = "quiet"
  /\ IF IsVibratorRunning(m)
     THEN DeviceStop(m, {"preset", "hdhaptic"})
     ELSE UNCHANGED hdi
  /\ Goto(m, "play")
  /\ UNCHANGED <<running, exitFlag, current, local, step, attached>>

\* Run has returned false and the Thread base class ends the thread.
RunEnd(m) ==
  /\ tpc[m] = "done"
  /\ running' = [running EXCEPT ![m] = FALSE]
  /\ Goto(m, "none")
  /\ local' = [local EXCEPT ![m] = NoInfo]
  /\ step' = [step EXCEPT ![m] = 0]
  /\ UNCHANGED <<exitFlag, current, deviceVars>>

ThreadStep(m) ==
  \/ RunBegin(m) \/ PlayDevice(m) \/ PlayFails(m) \/ ExitSeen(m)
  \/ WaitTimeout(m) \/ HandleMultipleVibrations(m) \/ RunEnd(m)

--------------------------------------------------------------------------------
(***************************************************************************)
(* What the service does to a thread.  These change threadVars only.       *)
(***************************************************************************)
VibrateMutexHeld(m) == tpc[m] \in {"play", "quiet"}

\* Mutant: the condition variable is notified, its predicate not set.
NotifyExitFlagUnset(m) ==
  /\ ~VibrateMutexHeld(m)
  /\ UNCHANGED <<running, tpc, exitFlag, current, local, step>>

NotifyExit(m) ==
  /\ ~VibrateMutexHeld(m)
  /\ exitFlag' = [exitFlag EXCEPT ![m] = TRUE]
  /\ UNCHANGED <<running, tpc, current, local, step>>

\* Mutant: SetExitStatus(false) is left out.
ExitSyncedFlagUp(m) ==
  /\ ~running[m]
  /\ current' = [current EXCEPT ![m] = NoInfo]
  /\ UNCHANGED <<running, tpc, exitFlag, local, step>>

\* Mutant: NotifyExitSync does not wait.
ExitSyncedAtOnce(m) ==
  /\ exitFlag' = [exitFlag EXCEPT ![m] = FALSE]
  /\ current' = [current EXCEPT ![m] = NoInfo]
  /\ UNCHANGED <<running, tpc, local, step>>

\* NotifyExitSync returns once the thread has ended; then SetExitStatus(false)
\* and ResetVibrateInfo.
ExitSynced(m) ==
  /\ ~running[m]
  /\ exitFlag' = [exitFlag EXCEPT ![m] = FALSE]
  /\ current' = [current EXCEPT ![m] = NoInfo]
  /\ UNCHANGED <<running, tpc, local, step>>

\* UpdateVibratorEffect and Thread::Start, which does nothing on a thread that
\* still runs.
StartThread(m, info) ==
  /\ current' = [current EXCEPT ![m] = info]
  /\ running' = [running EXCEPT ![m] = TRUE]
  /\ tpc' = IF running[m] THEN tpc ELSE [tpc EXCEPT ![m] = "start"]
  /\ UNCHANGED <<exitFlag, local, step>>
================================================================================
