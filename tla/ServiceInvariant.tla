---------------------------- MODULE ServiceInvariant ----------------------------
(***************************************************************************)
(* The inductive invariant of MiscdeviceService behind the theorems of     *)
(* module MiscdeviceServiceProofs: which locks a handler holds where, what *)
(* it still has to visit, and what a motor's thread may be doing then.     *)
(* Below it, what that module's second part adds about the devices.        *)
(***************************************************************************)
EXTENDS MiscdeviceService

StartPcs == {"admitThread", "start", "notify", "sync", "quiet", "launch"}
StopPcs  == {"stopThread", "stopScan", "stopLoop", "stopCheck"}
JoinPcs  == {"notify", "sync"}

\* Where a handler holds vibratorThreadMutex_.
ThreadPcsHeld == {"start", "quiet", "launch", "notify", "sync", "stopScan",
                  "stopLoop", "stopCheck", "mode", "modeQuiet"}

\* Where a handler of any kind holds devicesManageMutex_ ...
ManagePcsHeld == {"admitThread", "start", "quiet", "launch", "modeThread", "mode",
                  "modeQuiet", "session", "plug", "plugErase", "plugInsert",
                  "plugNotify", "death"}

\* ... and the mute callback alone does not.
HoldsManage(c) ==
  pc[c] \in ManagePcsHeld \/ (pc[c] \in StopPcs \cup JoinPcs /\ Kind(c) # "mute")

LockInv ==
  \A c \in Callers :
    /\ pc[c] \in ThreadPcsHeld => threadLock = c
    /\ HoldsManage(c) => manageLock = c

\* The kinds of call that get to a place.
KindAt(c) ==
  /\ pc[c] \in {"capacity", "admit", "admitThread", "start", "quiet", "launch",
                "direct"} => Kind(c) = "start"
  /\ pc[c] \in {"modeManage", "modeThread", "mode", "modeQuiet"} => Kind(c) = "mode"
  /\ pc[c] \in {"plugManage", "plugInsert", "plugNotify"}
       => Kind(c) \in {"plugIn", "plugOut"}
  /\ pc[c] \in {"plug", "plugErase"} => Kind(c) = "plugOut"
  /\ pc[c] \in {"deathManage", "death"} => Kind(c) = "death"
  /\ pc[c] = "stopManage" => Kind(c) = "stop"
  /\ pc[c] \in StopPcs => Kind(c) \in StopKinds
  /\ pc[c] \in JoinPcs => Kind(c) \in StopKinds \cup {"start", "mode"}
  /\ Kind(c) = "start" => op[c].info \in Infos
  /\ Kind(c) \in {"plugIn", "plugOut"} => op[c].device \in Devices

KindInv == \A c \in Callers : KindAt(c)

\* What a handler has still to visit exists, where it is about to visit it.
TodoInv ==
  \A c \in Callers :
    /\ pc[c] \in {"quiet", "launch", "notify", "sync", "stopCheck", "modeQuiet"}
         => todo[c] # {}
    /\ pc[c] \in StartPcs /\ Kind(c) = "start" => todo[c] \subseteq MotorsOf(plugged)

\* An exit flag is up only while the handler that raised it waits.
ExitInv ==
  \A m \in Motors : exitFlag[m] =>
    \E c \in Callers : At(c, "sync") /\ First(todo[c]) = m

\* A thread that has been joined stays ended.
QuietInv ==
  \A c \in Callers :
    pc[c] \in {"quiet", "launch", "modeQuiet"} => ~running[First(todo[c])]

\* What a motor's thread may be doing.
ThreadInv ==
  \A m \in Motors :
    /\ tpc[m] = "none" <=> ~running[m]
    /\ tpc[m] \in {"none", "start"} => step[m] = 0
    /\ tpc[m] \notin {"none", "start"} => local[m] = current[m]
    /\ tpc[m] \in {"play", "quiet"} => step[m] < local[m].count
    /\ tpc[m] = "wait" /\ local[m].mode = "custom.hd" => step[m] < local[m].count

\* What a plug-out has done so far.  The stop of the motor it is at covers that
\* motor.
UnplugPcs == {"plug", "plugErase"} \cup StopPcs \cup JoinPcs

PlugInv ==
  /\ \A m \in Motors : DeviceOf[m] \notin plugged => ~running[m]
  /\ \A c \in Callers : (Kind(c) = "plugOut" /\ pc[c] \in UnplugPcs) =>
       /\ op[c].device \in plugged
       /\ \A m \in MotorsOf({op[c].device}) \ outer[c] : ~running[m]
       /\ outer[c] \subseteq MotorsOf({op[c].device})
       /\ pc[c] = "plugErase" => outer[c] = {}
       /\ pc[c] \in StopPcs \cup JoinPcs => outer[c] # {}
       /\ pc[c] \in {"stopLoop", "stopCheck", "notify", "sync"} =>
            First(outer[c]) \in todo[c] \/ ~running[First(outer[c])]

\* A death handler is at a motor of its client, or at one that was reset.
DeathInv ==
  \A c \in Callers : (Kind(c) = "death" /\ pc[c] \in StopPcs \cup JoinPcs) =>
    /\ outer[c] # {}
    /\ current[First(outer[c])].pid \in {op[c].pid, NoPid}

IInv ==
  /\ TypeOK
  /\ LockInv
  /\ KindInv
  /\ TodoInv
  /\ ExitInv
  /\ QuietInv
  /\ ThreadInv
  /\ PlugInv
  /\ DeathInv

--------------------------------------------------------------------------------
\* No device with HD haptics, to which PlayPattern sends patterns itself, and none
\* that plays on when the wait for it is over.
Nominal ==
  /\ Overrun = FALSE
  /\ \A d \in Devices : Capability[d] \in {"mapping", "delay", "none"}

\* clientPidMap_ has room for every process there is.
Room == IsFiniteSet(Pids) /\ Cardinality(Pids) <= MaxClients

\* A motor may take part in a vibration: the event indices do not exclude it.
Suits(info, m) ==
  info.mode \in Composite \cup {"custom.hd"}
    => info.index \cap {0, PositionOf[m]} # {} \/ info.index = {}

\* Only what suits a motor gets to its record, its thread and its device.
PlaceInv ==
  /\ \A m \in Motors : Suits(hdi[m], m) /\ Suits(local[m], m) /\ Suits(current[m], m)
  /\ \A c \in Callers :
       /\ TakesOver(c) => Suits(op[c].info, First(todo[c]))
       /\ At(c, "direct") => op[c].info.mode = "butt"

\* A motor's thread waits until a vibration has ended, but for a pattern for a
\* device with HD haptics, and for what a device plays on when the time of the
\* wait is over.
HdModes == {"custom.hd", "butt"}

Waited(info) == info.mode = "time" \/ (~Overrun /\ info.mode \notin HdModes)

Heard(m) == IF Waited(hdi[m]) THEN hdi[m] ELSE Idle

WaitedInv ==
  \A m \in Motors : Heard(m) # Idle => tpc[m] = "wait" /\ hdi[m] = local[m]

\* Without HD haptics nothing is played in its modes ...
PlainInv ==
  /\ \A m \in Motors : /\ local[m].mode \notin HdModes /\ current[m].mode \notin HdModes
                       /\ hdi[m].mode \notin HdModes
  /\ \A c \in Callers : Kind(c) = "start" => op[c].info.mode \notin HdModes

\* ... and, if it does not overrun, a device plays only while the thread waits.
DeviceInv ==
  \A m \in Motors : hdi[m] # Idle => tpc[m] = "wait" /\ hdi[m] = local[m]

\* A stop has ended the threads of the motors it is done with.
StopInv ==
  \A c \in Callers :
    (Kind(c) \in StopKinds /\ pc[c] \in {"stopLoop", "stopCheck", "notify", "sync"})
      => \A m \in CheckDeviceIdIsValid(StopTarget(c), plugged) \ todo[c] : ~running[m]

\* What the decision has seen of a motor stays true until the motor is taken.
AlarmInv ==
  \A c \in Callers :
    (TakesOver(c) /\ ~IsLoopVibrate(op[c].info) /\ First(todo[c]) \in Local)
      => ~running[First(todo[c])] \/ current[First(todo[c])].usage # "alarm"

ModeInv ==
  \A c \in Callers :
    (Kind(c) = "mode" /\ At(c, "notify") /\ running[First(todo[c])])
      => current[First(todo[c])].mode = op[c].mode

CallInv ==
  \A c \in Callers :
    /\ At(c, "idle") => op[c] = NoCall
    /\ pc[c] \in {"sessionManage", "session"} => Kind(c) = "session"

\* With the switch on, and its callback done, nothing for sound runs, and
\* nothing for sound has been admitted.
MuteInv ==
  /\ \A c \in Callers : Kind(c) = "mute" => op[c].target = AnyTarget
  /\ muted /\ ~InProgress({"mute"}) =>
       /\ \A m \in Local : running[m] => current[m].usage \notin AudioUsages
       /\ \A c \in Callers : TakesOver(c) /\ First(todo[c]) \in Local
                             => op[c].info.usage \notin AudioUsages

\* Who lives is in the registry, and who died is in it until the handler of
\* its death is done.
ClientInv ==
  /\ connected \subseteq clients
  /\ \A c \in Callers : Kind(c) = "death" =>
       /\ op[c].pid \in clients \ connected
       /\ \A d \in Callers : Kind(d) = "death" /\ op[d].pid = op[c].pid => c = d

\* The motors a death handler is done with run nothing of the dead client.
CleanInv ==
  \A c \in Callers : (Kind(c) = "death" /\ pc[c] \in {"death"} \cup StopPcs \cup JoinPcs) =>
    \A m \in MotorsOf(plugged) \ outer[c] : running[m] => current[m].pid # op[c].pid

-------------------------------------------------------------------------------
(***************************************************************************)
(* What the properties of MiscdeviceService say of the vibrations whose    *)
(* threads wait for them to end.  This holds with HD haptics and with      *)
(* devices that overrun, too.                                              *)
(***************************************************************************)

\* What plays is the record of a thread that runs.
WaitedIsRecorded ==
  \A m \in Motors : Heard(m) # Idle => running[m] /\ Heard(m) = current[m]

\* As StopIsEffective.
StopEndsWaited ==
  \A c \in Callers :
    (Kind(c) \in StopKinds /\ pc[c] \in {"stopLoop", "stopCheck", "notify", "sync"})
      => \A m \in CheckDeviceIdIsValid(StopTarget(c), plugged) \ todo[c] :
           ~running[m] /\ Heard(m) = Idle

\* As AlarmShielded.
WaitedAlarmShielded ==
  \A c \in Callers :
    (TakesOver(c) /\ ~IsLoopVibrate(op[c].info) /\ First(todo[c]) \in Local)
      => Heard(First(todo[c])).usage # "alarm"

\* As ModeIsSelective.
ModeSparesWaited ==
  \A c \in Callers :
    (Kind(c) = "mode" /\ pc[c] \in {"notify", "modeQuiet"})
      => Heard(First(todo[c])).mode \in {op[c].mode, ""}

\* As MutedAudioSilent.
MutedWaitedSilent ==
  (muted /\ ~InProgress({"mute"})) =>
    \A m \in Local : Heard(m).usage \notin AudioUsages

\* As DeathCleansUp.
DeathEndsWaited ==
  \A c \in Callers : At(c, "death") =>
    \A m \in MotorsOf(plugged) \ outer[c] :
      /\ Heard(m).pid # op[c].pid
      /\ running[m] => current[m].pid # op[c].pid
================================================================================
