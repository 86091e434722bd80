---------------------------- MODULE MiscdeviceService --------------------------
(***************************************************************************)
(* The vibrator half of MiscdeviceService: the calls that start and stop   *)
(* vibrations, the device-mute callback, the plug events of the HDI and    *)
(* the death of clients, interleaved on the threads that serve them, down  *)
(* to the motor threads of module VibratorThread.                          *)
(*                                                                         *)
(* Every serving thread (a Caller) runs one handler at a time.  pc says    *)
(* where the handler is; each step up to the next lock, device call or     *)
(* thread hand-shake is one action.  The build is the default one:         *)
(* VIBRATOR_CUSTOM and VIBRATOR_INPUT_METHOD on, hence VIBRATOR_PRESET_INFO *)
(* (FastVibratorEffect) off.                                               *)
(***************************************************************************)
EXTENDS VibratorThread, FiniteSets

CONSTANTS
  Callers,          \* the threads that serve calls and callbacks
  Devices,          \* the devices, in the order of devicesManageMap_
  DeviceOf,         \* the device a motor belongs to
  VibratorOf,       \* its vibratorId
  PositionOf,       \* its position
  Local,            \* the motors with isLocalVibrator
  Capability,       \* per device: "hd", "mapping", "delay" or "none"
  Requests,         \* the VibrateInfos clients ask for
  Targets,          \* the identifiers they name
  SettingsChoices,  \* the values the settings may have when they are read
  MaxClients,       \* MAX_SUPPORT_CLIENT_NUM, 1024 in the code
  Kinds,            \* the handlers this instance exercises
  AnyId, NoOwner

AllKinds == {"start", "stop", "mode", "session", "mute", "unmute",
             "plugIn", "plugOut", "death", "disable"}

ASSUME ServiceAssumption ==
  /\ DeviceOf \in [Motors -> Devices]
  /\ Local \subseteq Motors
  /\ Requests \subseteq Infos
  /\ NoOwner \notin Callers
  /\ AnyId \notin Devices
  /\ MaxClients \in Nat
  /\ Kinds \subseteq AllKinds

VARIABLES
  manageLock,   \* the owner of devicesManageMutex_
  threadLock,   \* the owner of vibratorThreadMutex_
  plugged,      \* the keys of devicesManageMap_
  disabled,     \* disablePids_
  clients,      \* the pids in clientPidMap_
  connected,    \* the living processes that handed over their remote object
  muted,        \* deviceMute_ and isVibratorMute_
  pc,           \* where each caller's handler is
  op,           \* the call it serves
  todo,         \* the motors its inner loop has still to visit
  outer,        \* the motors the loop around StopVibratorService has left
  allIgnored    \* ignoreVibrateNum counts every motor visited so far

clientVars  == <<disabled, clients, connected, muted>>
serviceVars == <<manageLock, threadLock, plugged, clientVars>>
callVars    == <<pc, op, todo, outer, allIgnored>>
vars        == <<threadVars, deviceVars, serviceVars, callVars>>

AnyTarget == [device |-> AnyId, vibrator |-> AnyId]

\* A call: what a handler is given.  Fields a kind does not use keep these.
NoCall == [kind   |-> "none",
           target |-> AnyTarget,
           info   |-> NoInfo,
           device |-> AnyId,
           pid    |-> NoPid,
           mode   |-> ""]

CallRecords == [kind   : AllKinds \cup {"none"},
                target : Targets \cup {AnyTarget},
                info   : Infos \cup {NoInfo},
                device : Devices \cup {AnyId},
                pid    : Pids \cup {NoPid},
                mode   : Modes]

StartCall(t, i) == [NoCall EXCEPT !.kind = "start", !.target = t, !.info = i]
ModeCall(t, md) == [NoCall EXCEPT !.kind = "mode", !.target = t, !.mode = md]
PlugCall(k, d)  == [NoCall EXCEPT !.kind = k, !.device = d]

StartsOf(R) == {StartCall(t, i) : t \in Targets, i \in R}

\* The calls that start a vibration differ in the mode of the VibrateInfo they
\* make.  PlayPackageBySessionId makes the same one as PlayPattern, and
\* PlayPrimitiveEffect the same one as PlayVibratorEffect.
VibrateCalls            == StartsOf({i \in Requests : i.mode = "time"})
PlayVibratorEffectCalls == StartsOf({i \in Requests : i.mode = "preset"})
PlayVibratorCustomCalls == StartsOf({i \in Requests : i.mode = "custom"})
PlayPatternCalls        == StartsOf({i \in Requests : i.mode = "pattern"})

StartCalls   == VibrateCalls \cup PlayVibratorEffectCalls
                  \cup PlayVibratorCustomCalls \cup PlayPatternCalls
StopCalls    == {[NoCall EXCEPT !.kind = "stop", !.target = t] : t \in Targets}
ModeCalls    == {ModeCall(t, md) : t \in Targets, md \in {"time", "preset"}}
SessionCalls == {[NoCall EXCEPT !.kind = "session", !.target = t] : t \in Targets}
MuteCalls    == {[NoCall EXCEPT !.kind = k] : k \in {"mute", "unmute"}}
PlugCalls    == {PlugCall(k, d) : k \in {"plugIn", "plugOut"}, d \in Devices}
DeathCalls   == {[NoCall EXCEPT !.kind = "death", !.pid = p] : p \in Pids}

Calls == {call \in StartCalls \cup StopCalls \cup ModeCalls \cup SessionCalls
                   \cup MuteCalls \cup PlugCalls \cup DeathCalls
            : call.kind \in Kinds}

\* Where a handler can be; "notify" and "sync" are StopVibrateThread.
Pcs == {"idle", "capacity", "admit", "admitThread", "start", "quiet", "launch",
        "direct", "stopManage", "stopThread", "stopScan", "stopLoop",
        "stopCheck", "modeManage", "modeThread", "mode", "modeQuiet",
        "sessionManage", "session", "plugManage", "plug", "plugErase",
        "plugInsert", "plugNotify", "deathManage", "death", "notify", "sync"}

TypeOK ==
  /\ ThreadTypeOK
  /\ manageLock \in Callers \cup {NoOwner}
  /\ threadLock \in Callers \cup {NoOwner}
  /\ plugged \subseteq Devices
  /\ disabled \subseteq Pids
  /\ clients \subseteq Pids
  /\ connected \subseteq Pids
  /\ muted \in BOOLEAN
  /\ pc \in [Callers -> Pcs]
  /\ todo \in [Callers -> SUBSET Motors]
  /\ outer \in [Callers -> SUBSET Motors]
  /\ allIgnored \in [Callers -> BOOLEAN]
  /\ op \in [Callers -> CallRecords]

Init ==
  /\ ThreadInit
  /\ manageLock = NoOwner
  /\ threadLock = NoOwner
  /\ plugged = Devices
  /\ disabled = {}
  /\ clients = {}
  /\ connected = {}
  /\ muted = FALSE
  /\ pc = [c \in Callers |-> "idle"]
  /\ op = [c \in Callers |-> NoCall]
  /\ todo = [c \in Callers |-> {}]
  /\ outer = [c \in Callers |-> {}]
  /\ allIgnored = [c \in Callers |-> TRUE]

--------------------------------------------------------------------------------
(***************************************************************************)
(* Helpers.                                                                *)
(***************************************************************************)
First(S) == CHOOSE m \in S : \A n \in S : m <= n

Kind(c) == op[c].kind

At(c, where) == pc[c] = where

MotorsOf(D) == {m \in Motors : DeviceOf[m] \in D}

\* The motors of device d that an identifier without a device selects: when d
\* has no vibrator of that id, all its motors, local or not.
SelectedOn(d, vibrator) ==
  LET M == MotorsOf({d})
      named == {m \in M : VibratorOf[m] = vibrator}
  IN  IF vibrator = AnyId THEN M \cap Local
      ELSE IF named = {} THEN M
      ELSE named \cap Local

CheckDeviceIdIsValid(target, D) ==
  IF target.device = AnyId
  THEN UNION {SelectedOn(d, target.vibrator) : d \in D}
  ELSE {m \in MotorsOf(D) : /\ DeviceOf[m] = target.device
                            /\ \/ target.vibrator = AnyId
                               \/ VibratorOf[m] = target.vibrator}

\* GetHapticCapacityInfo: of the device named, or of the first with a local
\* vibrator; the default capacity when there is none.
CapacityOf(target) ==
  LET M == IF target.device = AnyId THEN MotorsOf(plugged) \cap Local
           ELSE MotorsOf(plugged \cap {target.device})
  IN  IF M = {} THEN "none" ELSE Capability[DeviceOf[First(M)]]

\* The mode PlayVibratorCustom ("custom") and PlayPattern or
\* PlayPackageBySessionId ("pattern") settle on.
ResolvedMode(asked, capacity) ==
  CASE capacity = "hd"      -> IF asked = "custom" THEN "custom.hd" ELSE "butt"
    [] capacity = "mapping" -> "custom.effect"
    [] capacity = "delay"   -> "custom.time"
    [] OTHER                -> IF asked = "custom" THEN "" ELSE "none"

\* Mutant: the time series are forgotten.
SpecialModesNoTime == {"custom.hd", "custom.effect", "none"}

\* specialModes.  A HD pattern is one too, but its info carries no events.
SpecialModes == {"custom.hd", "custom.effect", "custom.time", "none"}

\* The event indices decide which motors a custom vibration concerns.
ShouldProcess(info, m) ==
  LET uniqueIndices == IF info.mode \in SpecialModes THEN info.index ELSE {}
  IN  uniqueIndices = {} \/ 0 \in uniqueIndices \/ PositionOf[m] \in uniqueIndices

IsCurrentVibrate(m) == running[m] \/ IsVibratorRunning(m)

Move(c, where) == pc' = [pc EXCEPT ![c] = where]

Visited(c) == todo' = [todo EXCEPT ![c] = @ \ {First(todo[c])}]

\* The handler returns; op is forgotten.
Return(c) ==
  /\ Move(c, "idle")
  /\ op' = [op EXCEPT ![c] = NoCall]
  /\ todo' = [todo EXCEPT ![c] = {}]
  /\ outer' = [outer EXCEPT ![c] = {}]
  /\ allIgnored' = [allIgnored EXCEPT ![c] = TRUE]

\* Where StopVibrateThread is entered for motor m, or passed by when the
\* thread does not run.
StopThreadOr(c, m, otherwise) ==
  IF running[m] THEN Move(c, "notify") ELSE Move(c, otherwise)

--------------------------------------------------------------------------------
(***************************************************************************)
(* Calls and events arriving.                                              *)
(***************************************************************************)
InProgress(kinds) == \E c \in Callers : Kind(c) \in kinds

FirstPc(call) ==
  CASE call.kind = "start" /\ call.info.mode \in {"custom", "pattern"} -> "capacity"
    [] call.kind = "start"                 -> "admit"
    [] call.kind = "stop"                  -> "stopManage"
    [] call.kind = "mode"                  -> "modeManage"
    [] call.kind = "session"               -> "sessionManage"
    [] call.kind = "mute"                  -> "stopThread"
    [] call.kind \in {"plugIn", "plugOut"} -> "plugManage"
    [] OTHER                               -> "deathManage"

Receive(c, call) ==
  /\ At(c, "idle")
  /\ Move(c, FirstPc(call))
  /\ op' = [op EXCEPT ![c] = call]
  /\ UNCHANGED <<todo, outer, allIgnored>>

\* A client calls the service; it has handed over its remote object before.
ClientCall(c, call) ==
  /\ Receive(c, call)
  /\ call.kind \in {"start", "stop", "mode", "session"}
  /\ call.kind = "start" => call.info.pid \in connected
  /\ UNCHANGED <<threadVars, deviceVars, serviceVars>>

\* ParameterCallback stores the switch first; it stops the vibrations of all
\* local motors when the switch is on.
MuteCallback(c, call) ==
  /\ Receive(c, call)
  /\ call.kind = "mute"
  /\ ~InProgress({"mute"})
  /\ muted' = TRUE
  /\ UNCHANGED <<threadVars, deviceVars, manageLock, threadLock, plugged,
                 disabled, clients, connected>>

UnmuteCallback(call) ==
  /\ call.kind = "unmute"
  /\ ~InProgress({"mute"})
  /\ muted' = FALSE
  /\ UNCHANGED <<threadVars, deviceVars, manageLock, threadLock, plugged,
                 disabled, clients, connected, callVars>>

\* A device comes or goes, and the HDI reports it; one report at a time.
PlugEvent(c, call) ==
  /\ Receive(c, call)
  /\ ~InProgress({"plugIn", "plugOut"})
  /\ LET M == MotorsOf({call.device}) IN
     \/ /\ call.kind = "plugOut"
        /\ M \subseteq attached
        /\ attached' = attached \ M
        /\ hdi' = [m \in Motors |-> IF m \in M THEN Idle ELSE hdi[m]]
     \/ /\ call.kind = "plugIn"
        /\ M \cap attached = {}
        /\ attached' = attached \cup M
        /\ UNCHANGED hdi
  /\ UNCHANGED <<threadVars, serviceVars>>

\* Binder reports that a connected process died.
DeathNotice(c, call) ==
  /\ Receive(c, call)
  /\ call.kind = "death"
  /\ call.pid \in connected
  /\ connected' = connected \ {call.pid}
  /\ UNCHANGED <<threadVars, deviceVars, manageLock, threadLock, plugged,
                 disabled, clients, muted>>

\* TransferClientRemoteObject, by a process that lives: its death will be
\* reported, and its pid found in clientPidMap_ then unless the map is full now.
TransferClientRemoteObject(p) ==
  /\ p \notin connected
  /\ \A d \in Callers : Kind(d) = "death" => op[d].pid # p
  /\ connected' = connected \cup {p}
  /\ clients' = IF Cardinality(clients) >= MaxClients THEN clients
                                                     ELSE clients \cup {p}
  /\ UNCHANGED <<threadVars, deviceVars, manageLock, threadLock, plugged,
                 disabled, muted, callVars>>

\* DisableVibratorByPid and EnableVibratorByPid hold pidMutex_ alone.
DisableOrEnableVibratorByPid(p) ==
  /\ "disable" \in Kinds
  /\ disabled' = IF p \in disabled THEN disabled \ {p} ELSE disabled \cup {p}
  /\ UNCHANGED <<threadVars, deviceVars, manageLock, threadLock, plugged,
                 clients, connected, muted, callVars>>

Arrival ==
  \/ \E c \in Callers, call \in Calls :
       \/ ClientCall(c, call) \/ MuteCallback(c, call)
       \/ PlugEvent(c, call) \/ DeathNotice(c, call)
  \/ \E call \in Calls : UnmuteCallback(call)
  \/ \E p \in Pids : TransferClientRemoteObject(p) \/ DisableOrEnableVibratorByPid(p)

--------------------------------------------------------------------------------
(***************************************************************************)
(* StartVibrateThreadControl and what leads to it.                         *)
(***************************************************************************)
QueryCapacity(c) ==
  /\ At(c, "capacity")
  /\ manageLock = NoOwner
  /\ op' = [op EXCEPT ![c].info.mode =
              ResolvedMode(@, CapacityOf(op[c].target))]
  /\ Move(c, "admit")
  /\ UNCHANGED <<threadVars, deviceVars, serviceVars, todo, outer, allIgnored>>

\* With devicesManageMutex_ held: the motors concerned, and the pid's right to
\* vibrate.  No motor, or a disabled pid, and the call returns ERROR.
Admit(c) ==
  /\ At(c, "admit")
  /\ manageLock = NoOwner
  /\ LET result == CheckDeviceIdIsValid(op[c].target, plugged) IN
     IF result = {} \/ op[c].info.pid \in disabled
     THEN Return(c) /\ UNCHANGED manageLock
     ELSE /\ manageLock' = c
          /\ todo' = [todo EXCEPT ![c] = result]
          /\ Move(c, "admitThread")
          /\ UNCHANGED <<op, outer, allIgnored>>
  /\ UNCHANGED <<threadVars, deviceVars, threadLock, plugged, clientVars>>

TakeThreadLock(c, from, where) ==
  /\ At(c, from)
  /\ threadLock = NoOwner
  /\ threadLock' = c
  /\ Move(c, where)
  /\ UNCHANGED <<threadVars, deviceVars, manageLock, plugged, clientVars, op, todo, outer, allIgnored>>

\* The settings are read, and the motor's state, for each motor in turn.
Decide(c) ==
  /\ At(c, "start")
  /\ todo[c] # {}
  /\ LET m == First(todo[c])
         info == op[c].info
         processed == ShouldProcess(info, m)
         refused == \E s \in SettingsChoices :
                      ShouldIgnoreVibrate(info, [s EXCEPT !.mute = muted],
                                          IsCurrentVibrate(m), current[m])
         accepted == \E s \in SettingsChoices :
                      ~ShouldIgnoreVibrate(info, [s EXCEPT !.mute = muted],
                                           IsCurrentVibrate(m), current[m])
     IN  \/ /\ processed
            /\ m \in Local /\ refused
            /\ Visited(c)
            /\ UNCHANGED <<pc, allIgnored>>
         \/ /\ processed
            /\ m \notin Local \/ accepted
            /\ allIgnored' = [allIgnored EXCEPT ![c] = FALSE]
            /\ StopThreadOr(c, m, "quiet")
            /\ UNCHANGED todo
         \/ /\ ~processed
            /\ allIgnored' = [allIgnored EXCEPT ![c] = FALSE]
            /\ Visited(c)
            /\ UNCHANGED pc
  /\ UNCHANGED <<threadVars, deviceVars, serviceVars, op, outer>>

\* StartVibrateThread, after its StopVibrateThread: quiet the device ...
QuietDevice(c) ==
  /\ At(c, "quiet")
  /\ LET m == First(todo[c]) IN
     IF IsVibratorRunning(m) THEN DeviceStop(m, {"preset", "hdhaptic"})
                             ELSE UNCHANGED hdi
  /\ Move(c, "launch")
  /\ UNCHANGED <<threadVars, attached, serviceVars, op, todo, outer, allIgnored>>

\* ... and let the motor's thread play the new vibration.
Launch(c) ==
  /\ At(c, "launch")
  /\ StartThread(First(todo[c]), op[c].info)
  /\ Visited(c)
  /\ Move(c, "start")
  /\ UNCHANGED <<deviceVars, serviceVars, op, outer, allIgnored>>

\* Both locks are given up.  An admitted pattern for a HD device goes on to
\* send the pattern itself.
StartDone(c) ==
  /\ At(c, "start")
  /\ todo[c] = {}
  /\ manageLock' = NoOwner
  /\ threadLock' = NoOwner
  /\ IF /\ op[c].info.mode = "butt"
        /\ ~allIgnored[c]
     THEN Move(c, "direct") /\ UNCHANGED <<op, todo, outer, allIgnored>>
     ELSE Return(c)
  /\ UNCHANGED <<threadVars, deviceVars, plugged, clientVars>>

\* PlayPattern and PlayPackageBySessionId on a HD device: the device call, made
\* with no lock held, to the motors the identifier stands for.
DirectPlay(c) ==
  /\ At(c, "direct")
  /\ \/ LET M == CheckDeviceIdIsValid(op[c].target, Devices) \cap attached IN
        hdi' = [m \in Motors |-> IF m \in M THEN op[c].info ELSE hdi[m]]
     \/ UNCHANGED hdi
  /\ Return(c)
  /\ UNCHANGED <<threadVars, attached, serviceVars>>

StartStep(c) ==
  \/ QueryCapacity(c) \/ Admit(c) \/ TakeThreadLock(c, "admitThread", "start")
  \/ Decide(c) \/ QuietDevice(c) \/ Launch(c) \/ StartDone(c) \/ DirectPlay(c)

--------------------------------------------------------------------------------
(***************************************************************************)
(* StopVibrateThread: both locks of its caller stay held throughout.       *)
(***************************************************************************)
NotifyThread(c) ==
  /\ At(c, "notify")
  /\ NotifyExit(First(todo[c]))
  /\ Move(c, "sync")
  /\ UNCHANGED <<deviceVars, serviceVars, op, todo, outer, allIgnored>>

SyncThread(c) ==
  /\ At(c, "sync")
  /\ ExitSynced(First(todo[c]))
  /\ CASE Kind(c) = "start" -> Move(c, "quiet") /\ UNCHANGED todo
       [] Kind(c) = "mode"  -> Move(c, "modeQuiet") /\ UNCHANGED todo
       [] OTHER             -> Move(c, "stopLoop") /\ Visited(c)
  /\ UNCHANGED <<deviceVars, serviceVars, op, outer, allIgnored>>

--------------------------------------------------------------------------------
(***************************************************************************)
(* StopVibrator and StopVibratorService.  The latter is also called by the *)
(* plug and death handlers, once per motor in outer, and by the mute       *)
(* callback, which holds no devicesManageMutex_.                           *)
(***************************************************************************)
TakeManageLock(c, from, where) ==
  /\ At(c, from)
  /\ manageLock = NoOwner
  /\ manageLock' = c
  /\ Move(c, where)
  /\ UNCHANGED <<threadVars, deviceVars, threadLock, plugged, clientVars, op, todo, outer, allIgnored>>

OuterKinds == {"plugOut", "death"}

StopTarget(c) ==
  IF Kind(c) \in OuterKinds
  THEN [device   |-> DeviceOf[First(outer[c])],
        vibrator |-> VibratorOf[First(outer[c])]]
  ELSE op[c].target

\* The walk over devicesManageMap_.
StopScan(c) ==
  /\ At(c, "stopScan")
  /\ todo' = [todo EXCEPT ![c] = CheckDeviceIdIsValid(StopTarget(c), plugged)]
  /\ Move(c, "stopLoop")
  /\ UNCHANGED <<threadVars, deviceVars, serviceVars, op, outer, allIgnored>>

\* Mutant: a motor whose device is quiet is passed over.
StopDeviceQuietIsIdle(c) ==
  /\ At(c, "stopLoop")
  /\ todo[c] # {}
  /\ LET m == First(todo[c]) IN
     IF DeviceOf[m] \notin plugged \/ ~IsVibratorRunning(m)
     THEN Visited(c) /\ UNCHANGED <<pc, hdi>>
     ELSE /\ DeviceStop(m, {"preset", "hdhaptic"})
          /\ Move(c, "stopCheck")
          /\ UNCHANGED todo
  /\ UNCHANGED <<threadVars, attached, serviceVars, op, outer, allIgnored>>

\* The device is stopped first.  GetVibratorThread finds nothing for a motor
\* that left the map meanwhile.
StopDevice(c) ==
  /\ At(c, "stopLoop")
  /\ todo[c] # {}
  /\ LET m == First(todo[c]) IN
     IF DeviceOf[m] \notin plugged \/ ~IsCurrentVibrate(m)
     THEN Visited(c) /\ UNCHANGED <<pc, hdi>>
     ELSE /\ IF IsVibratorRunning(m)
             THEN DeviceStop(m, {"preset", "hdhaptic"})
             ELSE UNCHANGED hdi
          /\ Move(c, "stopCheck")
          /\ UNCHANGED todo
  /\ UNCHANGED <<threadVars, attached, serviceVars, op, outer, allIgnored>>

\* Mutant: the device is stopped, the thread left to itself.
StopCheckDeviceOnly(c) ==
  /\ At(c, "stopCheck")
  /\ Move(c, "stopLoop")
  /\ Visited(c)
  /\ UNCHANGED <<threadVars, deviceVars, serviceVars, op, outer, allIgnored>>

\* Then the thread, if it still runs.
StopCheck(c) ==
  /\ At(c, "stopCheck")
  /\ StopThreadOr(c, First(todo[c]), "stopLoop")
  /\ IF running[First(todo[c])] THEN UNCHANGED todo ELSE Visited(c)
  /\ UNCHANGED <<threadVars, deviceVars, serviceVars, op, outer, allIgnored>>

\* StopVibratorService gives vibratorThreadMutex_ up and returns.
StopDone(c) ==
  /\ At(c, "stopLoop")
  /\ todo[c] = {}
  /\ threadLock' = NoOwner
  /\ IF Kind(c) \in OuterKinds
     THEN /\ outer' = [outer EXCEPT ![c] = @ \ {First(outer[c])}]
          /\ Move(c, IF Kind(c) = "death" THEN "death" ELSE "plug")
          /\ UNCHANGED <<manageLock, op, todo, allIgnored>>
     ELSE /\ manageLock' = IF Kind(c) = "stop" THEN NoOwner ELSE manageLock
          /\ Return(c)
  /\ UNCHANGED <<threadVars, deviceVars, plugged, clientVars>>

StopStep(c) ==
  \/ TakeManageLock(c, "stopManage", "stopThread")
  \/ TakeThreadLock(c, "stopThread", "stopScan")
  \/ StopScan(c) \/ StopDevice(c) \/ StopCheck(c) \/ StopDone(c)

--------------------------------------------------------------------------------
(***************************************************************************)
(* StopVibratorByMode: only motors whose record has the mode, the thread   *)
(* first and then the device, of which it stops preset effects only.       *)
(***************************************************************************)
ModeLock(c) ==
  /\ At(c, "modeManage")
  /\ manageLock = NoOwner
  /\ LET result == CheckDeviceIdIsValid(op[c].target, plugged) IN
     IF result = {}
     THEN Return(c) /\ UNCHANGED manageLock
     ELSE /\ manageLock' = c
          /\ todo' = [todo EXCEPT ![c] = result]
          /\ Move(c, "modeThread")
          /\ UNCHANGED <<op, outer, allIgnored>>
  /\ UNCHANGED <<threadVars, deviceVars, threadLock, plugged, clientVars>>

\* Mutant: the mode is not compared.
ModeNextAnyMode(c) ==
  /\ At(c, "mode")
  /\ todo[c] # {}
  /\ LET m == First(todo[c]) IN
     IF IsCurrentVibrate(m)
     THEN StopThreadOr(c, m, "modeQuiet") /\ UNCHANGED todo
     ELSE Visited(c) /\ UNCHANGED pc
  /\ UNCHANGED <<threadVars, deviceVars, serviceVars, op, outer, allIgnored>>

ModeNext(c) ==
  /\ At(c, "mode")
  /\ todo[c] # {}
  /\ LET m == First(todo[c]) IN
     IF IsCurrentVibrate(m) /\ current[m].mode = op[c].mode
     THEN StopThreadOr(c, m, "modeQuiet") /\ UNCHANGED todo
     ELSE Visited(c) /\ UNCHANGED pc
  /\ UNCHANGED <<threadVars, deviceVars, serviceVars, op, outer, allIgnored>>

ModeQuiet(c) ==
  /\ At(c, "modeQuiet")
  /\ LET m == First(todo[c]) IN
     IF IsVibratorRunning(m) THEN DeviceStop(m, {"preset"}) ELSE UNCHANGED hdi
  /\ Visited(c)
  /\ Move(c, "mode")
  /\ UNCHANGED <<threadVars, attached, serviceVars, op, outer, allIgnored>>

ModeDone(c) ==
  /\ At(c, "mode")
  /\ todo[c] = {}
  /\ manageLock' = NoOwner
  /\ threadLock' = NoOwner
  /\ Return(c)
  /\ UNCHANGED <<threadVars, deviceVars, plugged, clientVars>>

ModeStep(c) ==
  \/ ModeLock(c) \/ TakeThreadLock(c, "modeThread", "mode")
  \/ ModeNext(c) \/ ModeQuiet(c) \/ ModeDone(c)

--------------------------------------------------------------------------------
(***************************************************************************)
(* StopVibrateBySessionId: devicesManageMutex_ only, and the device only.  *)
(* A session is a pattern or package sent to a HD device.                  *)
(***************************************************************************)
SessionLock(c) ==
  /\ At(c, "sessionManage")
  /\ manageLock = NoOwner
  /\ manageLock' = c
  /\ todo' = [todo EXCEPT ![c] = CheckDeviceIdIsValid(op[c].target, plugged)]
  /\ Move(c, "session")
  /\ UNCHANGED <<threadVars, deviceVars, threadLock, plugged, clientVars, op, outer, allIgnored>>

SessionNext(c) ==
  /\ At(c, "session")
  /\ todo[c] # {}
  /\ LET m == First(todo[c]) IN
     IF hdi[m].mode = "butt" THEN hdi' = [hdi EXCEPT ![m] = Idle]
                             ELSE UNCHANGED hdi
  /\ Visited(c)
  /\ UNCHANGED <<threadVars, attached, serviceVars, pc, op, outer, allIgnored>>

SessionDone(c) ==
  /\ At(c, "session")
  /\ todo[c] = {}
  /\ manageLock' = NoOwner
  /\ Return(c)
  /\ UNCHANGED <<threadVars, deviceVars, threadLock, plugged, clientVars>>

SessionStep(c) == SessionLock(c) \/ SessionNext(c) \/ SessionDone(c)

--------------------------------------------------------------------------------
(***************************************************************************)
(* SendMsgToClient, the handler of the HDI's plug reports.                 *)
(***************************************************************************)
\* Mutant: the entry is erased with its motors still vibrating.
PlugLockNoStop(c) ==
  /\ At(c, "plugManage")
  /\ manageLock = NoOwner
  /\ manageLock' = c
  /\ Move(c, IF Kind(c) = "plugIn" THEN "plugInsert" ELSE "plugErase")
  /\ UNCHANGED <<threadVars, deviceVars, threadLock, plugged, clientVars, op, todo, outer, allIgnored>>

PlugLock(c) ==
  /\ At(c, "plugManage")
  /\ manageLock = NoOwner
  /\ manageLock' = c
  /\ LET d == op[c].device IN
     IF Kind(c) = "plugOut" /\ d \in plugged
     THEN /\ outer' = [outer EXCEPT ![c] = MotorsOf({d})]
          /\ Move(c, "plug")
     ELSE /\ Move(c, IF Kind(c) = "plugIn" THEN "plugInsert" ELSE "plugNotify")
          /\ UNCHANGED outer
  /\ UNCHANGED <<threadVars, deviceVars, threadLock, plugged, clientVars, op, todo, allIgnored>>

PlugNext(c) ==
  /\ At(c, "plug")
  /\ Move(c, IF outer[c] = {} THEN "plugErase" ELSE "stopThread")
  /\ UNCHANGED <<threadVars, deviceVars, serviceVars, op, todo, outer, allIgnored>>

\* Records of VibratorThread objects that a device's entry in the map owns.
FreshRecords(d) ==
  current' = [m \in Motors |-> IF DeviceOf[m] = d THEN NoInfo ELSE current[m]]

\* The entry goes, and with it the VibratorThread objects of its motors.
PlugErase(c) ==
  /\ At(c, "plugErase")
  /\ plugged' = plugged \ {op[c].device}
  /\ FreshRecords(op[c].device)
  /\ Move(c, "plugNotify")
  /\ UNCHANGED <<running, tpc, exitFlag, local, step, deviceVars, manageLock,
                 threadLock, clientVars, op, todo, outer, allIgnored>>

\* InsertVibratorInfo: a device already known, or gone again, adds nothing.
PlugInsert(c) ==
  /\ At(c, "plugInsert")
  /\ LET d == op[c].device IN
     IF d \notin plugged /\ MotorsOf({d}) \subseteq attached
     THEN plugged' = plugged \cup {d} /\ FreshRecords(d)
     ELSE UNCHANGED <<plugged, current>>
  /\ Move(c, "plugNotify")
  /\ UNCHANGED <<running, tpc, exitFlag, local, step, deviceVars, manageLock,
                 threadLock, clientVars, op, todo, outer, allIgnored>>

\* ProcessPlugEvent on every client, then the lock is released.
PlugNotify(c) ==
  /\ At(c, "plugNotify")
  /\ manageLock' = NoOwner
  /\ Return(c)
  /\ UNCHANGED <<threadVars, deviceVars, threadLock, plugged, clientVars>>

PlugStep(c) ==
  PlugLock(c) \/ PlugNext(c) \/ PlugErase(c) \/ PlugInsert(c) \/ PlugNotify(c)

--------------------------------------------------------------------------------
(***************************************************************************)
(* ProcessDeathObserver: stop every motor whose record has the pid of the  *)
(* dead client, then forget the client.                                    *)
(***************************************************************************)
\* Mutant: devicesManageMutex_ is not taken.
DeathLockUnlocked(c) ==
  /\ At(c, "deathManage")
  /\ outer' = [outer EXCEPT ![c] = MotorsOf(plugged)]
  /\ Move(c, "death")
  /\ UNCHANGED <<threadVars, deviceVars, serviceVars, op, todo, allIgnored>>

DeathLock(c) ==
  /\ At(c, "deathManage")
  /\ manageLock = NoOwner
  /\ manageLock' = c
  /\ outer' = [outer EXCEPT ![c] = MotorsOf(plugged)]
  /\ Move(c, "death")
  /\ UNCHANGED <<threadVars, deviceVars, threadLock, plugged, clientVars, op, todo, allIgnored>>

\* Mutant: what the device plays is compared, not the thread's record.
DeathNextByDevice(c) ==
  /\ At(c, "death")
  /\ outer[c] # {}
  /\ threadLock = NoOwner
  /\ IF op[c].pid \in clients /\ hdi[First(outer[c])].pid = op[c].pid
     THEN Move(c, "stopThread") /\ UNCHANGED outer
     ELSE /\ outer' = [outer EXCEPT ![c] = @ \ {First(outer[c])}]
          /\ UNCHANGED pc
  /\ UNCHANGED <<threadVars, deviceVars, serviceVars, op, todo, allIgnored>>

\* The record is read under vibratorThreadMutex_, which is released before
\* StopVibratorService takes it again.
DeathNext(c) ==
  /\ At(c, "death")
  /\ outer[c] # {}
  /\ threadLock = NoOwner
  /\ IF op[c].pid \in clients /\ current[First(outer[c])].pid = op[c].pid
     THEN Move(c, "stopThread") /\ UNCHANGED outer
     ELSE /\ outer' = [outer EXCEPT ![c] = @ \ {First(outer[c])}]
          /\ UNCHANGED pc
  /\ UNCHANGED <<threadVars, deviceVars, serviceVars, op, todo, allIgnored>>

DeathDone(c) ==
  /\ At(c, "death")
  /\ outer[c] = {}
  /\ clients' = clients \ {op[c].pid}
  /\ manageLock' = NoOwner
  /\ Return(c)
  /\ UNCHANGED <<threadVars, deviceVars, threadLock, plugged, disabled, connected,
                 muted>>

DeathStep(c) == DeathLock(c) \/ DeathNext(c) \/ DeathDone(c)

--------------------------------------------------------------------------------
CallerStep(c) ==
  \/ StartStep(c) \/ NotifyThread(c) \/ SyncThread(c) \/ StopStep(c)
  \/ ModeStep(c) \/ SessionStep(c) \/ PlugStep(c) \/ DeathStep(c)

MotorStep(m) ==
  ThreadStep(m) /\ UNCHANGED <<serviceVars, callVars>>

DeviceStep(m) ==
  DeviceEnds(m) /\ UNCHANGED <<serviceVars, callVars>>

Next ==
  \/ Arrival
  \/ \E c \in Callers : CallerStep(c)
  \/ \E m \in Motors : MotorStep(m) \/ DeviceStep(m)

Spec == Init /\ [][Next]_vars

--------------------------------------------------------------------------------
(***************************************************************************)
(* Properties.                                                             *)
(***************************************************************************)
StopKinds == {"stop", "mute", "plugOut", "death"}

\* The handler is taking a motor over for the request it serves.
TakesOver(c) == Kind(c) = "start" /\ pc[c] \in {"notify", "sync", "quiet", "launch"}

\* StartVibrateThread starts a thread that has ended and whose exit flag is
\* down: otherwise Thread::Start would silently do nothing, or the new
\* vibration would stop itself in its first wait.
LaunchIsClean ==
  \A c \in Callers : At(c, "launch") =>
    ~running[First(todo[c])] /\ ~exitFlag[First(todo[c])]

\* While a thread plays, the record that the priority decision, the stop by
\* mode and the death handler consult is the vibration it plays.
ThreadPlaysRecord ==
  \A m \in Motors :
    tpc[m] \notin {"none", "start"} => local[m] = current[m]

\* Whenever nobody is starting or stopping vibrations, what a device plays is
\* what the motor's record says.
RecordDescribesDevice ==
  threadLock = NoOwner =>
    \A m \in Motors : hdi[m] # Idle => hdi[m] = current[m]

\* StopVibratorService leaves behind neither a thread nor a playing device:
\* a motor it is done with stays quiet until it gives its lock up.
StopIsEffective ==
  \A c \in Callers :
    (Kind(c) \in StopKinds /\ pc[c] \in {"stopLoop", "stopCheck", "notify", "sync"})
      => \A m \in CheckDeviceIdIsValid(StopTarget(c), plugged) \ todo[c] :
           ~running[m] /\ hdi[m] = Idle

\* A request takes a local motor over from an alarm only when it is a
\* repeated preset effect.
AlarmShielded ==
  \A c \in Callers :
    (TakesOver(c) /\ ~IsLoopVibrate(op[c].info) /\ First(todo[c]) \in Local)
      => hdi[First(todo[c])].usage # "alarm"

\* Once the mute callback has returned, no local motor plays a vibration for
\* sound, whatever was being admitted while the switch was set.
MutedAudioSilent ==
  (muted /\ ~InProgress({"mute"})) =>
    \A m \in Local : hdi[m].usage \notin AudioUsages

\* No thread runs for a device that has left the map, whose VibratorThread
\* objects are destroyed.
UnpluggedMotorQuiet ==
  \A m \in Motors : DeviceOf[m] \notin plugged =>
    ~running[m] /\ tpc[m] = "none"

\* The death of one client never stops the vibration of another, although the
\* handler compares the pid and stops the motor in two critical sections.
DeathStopsOnlyItsOwn ==
  \A c \in Callers :
    (Kind(c) = "death" /\ pc[c] \in {"stopThread", "stopScan", "stopLoop",
                                     "stopCheck", "notify", "sync"})
      => current[First(outer[c])].pid \in {op[c].pid, NoPid}

\* The motors a death handler is done with play nothing for the dead client.
DeathCleansUp ==
  \A c \in Callers : At(c, "death") =>
    \A m \in MotorsOf(plugged) \ outer[c] :
      /\ hdi[m].pid # op[c].pid
      /\ running[m] => current[m].pid # op[c].pid

\* StopVibratorByMode touches vibrations of its mode only.
ModeIsSelective ==
  \A c \in Callers :
    (Kind(c) = "mode" /\ pc[c] \in {"notify", "modeQuiet"})
      => hdi[First(todo[c])].mode \in {op[c].mode, ""}

\* A custom vibration with event indices plays on the motors at those
\* positions only, and leaves the vibration of the others alone.
PlaysWhereAsked ==
  \A m \in Motors :
    hdi[m].mode \in Composite \cup {"custom.hd"} =>
      \/ hdi[m].index \cap {0, PositionOf[m]} # {}
      \/ hdi[m].index = {}

\* devicesManageMap_ is not changed while another thread walks it.
ReadsMap(c) == At(c, "stopScan") \/ (At(c, "stopLoop") /\ todo[c] # {})
WritesMap(c) == pc[c] \in {"plugErase", "plugInsert"}
MapAccessExclusive ==
  \A c, d \in Callers : ~(c # d /\ ReadsMap(c) /\ WritesMap(d))

\* A pattern that PlayPattern sends to a HD device itself takes no motor from a
\* vibration that was admitted after it and plays already: the later request
\* interrupts the earlier one.
LaterInterruptsEarlier ==
  [][\A c \in Callers, m \in Motors :
       (DirectPlay(c) /\ hdi[m] = current[m] /\ current[m] \notin {op[c].info, NoInfo})
         => hdi'[m] = hdi[m]]_vars

\* vibratorThreadMutex_, which every start and stop needs, is always given up
\* again, although its holder waits for motor threads to end.
ThreadLockReleased ==
  \A c \in Callers : threadLock = c ~> threadLock # c

\* The motor threads and the handlers are scheduled.  Arrivals owe nothing, and
\* weak fairness gives no handler a lock that others keep taking.
Fairness ==
  /\ \A m \in Motors : WF_vars(MotorStep(m))
  /\ \A c \in Callers : WF_vars(CallerStep(c))

FairSpec == Spec /\ Fairness

\* The promise of module MotorPlayback.
Playback == INSTANCE MotorPlayback
  WITH playing <- hdi, admitted <- current, None <- NoInfo
PlaybackSpec == Playback!PlaybackSpec
================================================================================
