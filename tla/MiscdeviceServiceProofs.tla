------------------------ MODULE MiscdeviceServiceProofs ------------------------
(***************************************************************************)
(* Theorems about MiscdeviceService, for every number of callers, clients, *)
(* devices and motors: the invariant of module ServiceInvariant, what      *)
(* follows from it, and what the motors' devices play, which follows from  *)
(* it and the parts that ServiceInvariant adds to it.                      *)
(***************************************************************************)
EXTENDS ServiceInvariant, TLAPS, WellFoundedInduction, FiniteSetTheorems

USE DEF At, Kind, Move

\* A non-empty set of motors has a first one.
LEMMA FirstIsIn ==
  ASSUME NEW S \in SUBSET Nat, S # {}
  PROVE  First(S) \in S
<1> DEFINE Less == {ss \in Nat \X Nat : ss[1] < ss[2]}
<1>1. OpToRel(<, Nat) = Less
  BY Zenon DEF OpToRel
<1>2. IsWellFoundedOn(Less, Nat)
  BY <1>1, NatLessThanWellFounded, Zenon
<1>3. \E m \in S : \A n \in S : <<n, m>> \notin Less
  <2> HIDE DEF Less
  <2> QED
    BY <1>2, WFMin, Zenon
<1>4. PICK m \in S : \A n \in S : <<n, m>> \notin Less
  BY <1>3
<1>5. ASSUME NEW n \in S
      PROVE  m <= n
  <2>1. <<n, m>> \in Nat \X Nat
    OBVIOUS
  <2>2. ~(n < m)
    BY <1>4, <2>1, Zenon
  <2> QED
    BY <2>2
<1> QED
  BY <1>5 DEF First

\* A handler that has motors left to visit has a next one.
LEMMA FirstMotor ==
  ASSUME NEW S \in SUBSET Motors, S # {}
  PROVE  First(S) \in S
BY FirstIsIn, ThreadAssumption DEF ThreadAssumption

\* CheckDeviceIdIsValid chooses among the motors of the devices in the map.
LEMMA ChosenMotors ==
  ASSUME NEW target, NEW D
  PROVE  CheckDeviceIdIsValid(target, D) \subseteq MotorsOf(D)
BY DEF CheckDeviceIdIsValid, SelectedOn, MotorsOf

\* Every call a handler may be given is a call record, with the fields its
\* kind uses filled in.
LEMMA CallTypes ==
  /\ NoCall \in CallRecords /\ NoCall.kind = "none"
  /\ Calls \subseteq CallRecords
  /\ \A call \in Calls :
       /\ call.kind \in AllKinds \ {"disable"}
       /\ call.kind = "start" => call.info \in Infos
       /\ call.kind \in {"plugIn", "plugOut"} => call.device \in Devices
<1>1. NoCall \in CallRecords /\ NoCall.kind = "none"
  BY DEF NoCall, AnyTarget, CallRecords, Modes
<1>2. ASSUME NEW R \in SUBSET Requests, NEW call \in StartsOf(R)
      PROVE  call \in CallRecords /\ call.kind = "start" /\ call.info \in Infos
  <2>1. PICK t \in Targets, i \in R : call = StartCall(t, i)
    BY DEF StartsOf
  <2>2. i \in Infos
    BY ServiceAssumption DEF ServiceAssumption
  <2> QED
    BY <1>1, <2>1, <2>2 DEF StartCall, CallRecords, AllKinds
<1>3. ASSUME NEW call \in StartCalls
      PROVE  call \in CallRecords /\ call.kind = "start" /\ call.info \in Infos
  BY <1>2 DEF StartCalls, VibrateCalls, PlayVibratorEffectCalls,
              PlayVibratorCustomCalls, PlayPatternCalls
<1>4. ASSUME NEW call \in StopCalls \cup SessionCalls \cup MuteCalls \cup DeathCalls
      PROVE  call \in CallRecords /\ call.kind \in {"stop", "session", "mute", "unmute", "death"}
  <2>1. CASE call \in StopCalls \cup SessionCalls
    BY <1>1, <2>1 DEF StopCalls, SessionCalls, CallRecords, AllKinds
  <2>2. CASE call \in MuteCalls \cup DeathCalls
    BY <1>1, <2>2 DEF MuteCalls, DeathCalls, CallRecords, AllKinds
  <2> QED
    BY <2>1, <2>2
<1>5. ASSUME NEW call \in ModeCalls
      PROVE  call \in CallRecords /\ call.kind = "mode"
  <2>1. PICK t \in Targets, md \in {"time", "preset"} : call = ModeCall(t, md)
    BY DEF ModeCalls
  <2> QED
    BY <1>1, <2>1 DEF ModeCall, CallRecords, AllKinds, Modes, PlayModes
<1>6. ASSUME NEW call \in PlugCalls
      PROVE  call \in CallRecords /\ call.kind \in {"plugIn", "plugOut"} /\ call.device \in Devices
  <2>1. PICK k \in {"plugIn", "plugOut"}, d \in Devices : call = PlugCall(k, d)
    BY DEF PlugCalls
  <2> QED
    BY <1>1, <2>1 DEF PlugCall, CallRecords, AllKinds
<1> QED
  BY <1>1, <1>3, <1>4, <1>5, <1>6 DEF Calls, AllKinds

\* An idle handler's call is a call record.
LEMMA NoCallType == NoCall \in CallRecords
BY CallTypes

\* The record ResetVibrateInfo restores is told from every client's by its pid.
LEMMA InfoFields ==
  /\ NoInfo.mode = "" /\ NoInfo.count = 0 /\ NoInfo.pid = NoPid
  /\ \A info \in Infos : info.pid # NoPid /\ info.mode \in Modes /\ info.count \in 0 .. MaxCount
  /\ NoInfo \notin Infos
BY ThreadAssumption DEF ThreadAssumption, NoInfo, Infos

\* The device calls of any record are within the bound.
LEMMA InfoCount ==
  ASSUME NEW info \in Infos \cup {NoInfo}
  PROVE  info.count \in 0 .. MaxCount /\ info.mode \in Modes
<1>1. CASE info \in Infos
  BY <1>1, InfoFields
<1>2. CASE info = NoInfo
  <2>1. 0 \in 0 .. MaxCount
    BY ThreadAssumption DEF ThreadAssumption
  <2> QED
    BY <1>2, <2>1, InfoFields DEF Modes
<1> QED
  BY <1>1, <1>2

\* A request stays one when its mode is resolved for the device's capacity.
LEMMA ResolvedInfo ==
  ASSUME NEW info \in Infos, NEW asked, NEW capacity
  PROVE  [info EXCEPT !.mode = ResolvedMode(asked, capacity)] \in Infos
BY DEF Infos, ResolvedMode, Modes, PlayModes, Composite

\* The service starts, as OnStart leaves it, in a state of the invariant.
THEOREM InitIInv == Init => IInv
<1> SUFFICES ASSUME Init PROVE IInv
  OBVIOUS
<1> USE DEF Init, ThreadInit
<1>1. TypeOK
  <2>1. 0 \in 0 .. MaxCount
    BY ThreadAssumption DEF ThreadAssumption
  <2>2. running \in [Motors -> BOOLEAN] /\ exitFlag \in [Motors -> BOOLEAN]
    BY Zenon
  <2>3. ThreadTypeOK
    BY <2>1, <2>2 DEF ThreadTypeOK, ThreadPcs, Idle
  <2> QED
    BY <2>3, NoCallType DEF TypeOK, Pcs
<1>2. LockInv /\ KindInv /\ TodoInv /\ QuietInv /\ DeathInv
  BY DEF LockInv, KindInv, KindAt, TodoInv, QuietInv, DeathInv, HoldsManage, ManagePcsHeld,
     ThreadPcsHeld, StopPcs, JoinPcs, StartPcs, NoCall
<1>3. ExitInv /\ ThreadInv
  BY DEF ExitInv, ThreadInv
<1>4. PlugInv
  BY DEF PlugInv, NoCall, MotorsOf
<1> QED
  BY <1>1, <1>2, <1>3, <1>4 DEF IInv

\* Stopping a device leaves it playing what it played or nothing.
LEMMA DeviceTypes ==
  ASSUME hdi \in [Motors -> Infos \cup {NoInfo}]
  PROVE  \A m, kinds : DeviceStop(m, kinds) => hdi' \in [Motors -> Infos \cup {NoInfo}]
BY DEF DeviceStop, AfterStop, Idle

\* A call or an event that arrives keeps the types.
LEMMA TypeArrival ==
  ASSUME TypeOK, Arrival
  PROVE  TypeOK'
<1>1. ASSUME NEW c \in Callers, NEW call \in Calls, Receive(c, call)
      PROVE  /\ pc' \in [Callers -> Pcs]
             /\ op' \in [Callers -> CallRecords]
             /\ UNCHANGED <<todo, outer, allIgnored>>
  BY <1>1, CallTypes DEF Receive, TypeOK, Pcs, FirstPc
<1>2. ASSUME NEW c \in Callers, NEW call \in Calls,
             ClientCall(c, call) \/ MuteCallback(c, call) \/ DeathNotice(c, call)
      PROVE  TypeOK'
  BY <1>1, <1>2 DEF ClientCall, MuteCallback, DeathNotice, TypeOK, ThreadTypeOK,
                    threadVars, deviceVars, serviceVars, clientVars
<1>3. ASSUME NEW c \in Callers, NEW call \in Calls, PlugEvent(c, call)
      PROVE  TypeOK'
  BY <1>1, <1>3 DEF PlugEvent, TypeOK, ThreadTypeOK, MotorsOf, Idle,
                    threadVars, serviceVars, clientVars
<1>4. ASSUME NEW call \in Calls, UnmuteCallback(call)
      PROVE  TypeOK'
  BY <1>4 DEF UnmuteCallback, TypeOK, ThreadTypeOK, threadVars, deviceVars, callVars
<1>5. ASSUME NEW p \in Pids, TransferClientRemoteObject(p) \/ DisableOrEnableVibratorByPid(p)
      PROVE  TypeOK'
  BY <1>5 DEF TransferClientRemoteObject, DisableOrEnableVibratorByPid, TypeOK,
              ThreadTypeOK, threadVars, deviceVars, callVars
<1> QED
  BY <1>2, <1>3, <1>4, <1>5 DEF Arrival

\* A step of a motor's thread keeps the types; the count of its device calls
\* stays within the bound because it plays only while calls are left.
LEMMA TypeMotor ==
  ASSUME TypeOK, ThreadInv, NEW m \in Motors, MotorStep(m) \/ DeviceStep(m)
  PROVE  TypeOK'
<1> USE DEF TypeOK, ThreadTypeOK
<1>1. CASE DeviceStep(m)
  BY <1>1 DEF DeviceStep, DeviceEnds, Idle, threadVars, serviceVars, clientVars, callVars
<1>2. CASE MotorStep(m)
  <2>1. UNCHANGED <<serviceVars, callVars>>
    BY <1>2 DEF MotorStep
  <2>2. ThreadTypeOK'
    <3>1. CASE RunBegin(m) \/ PlayFails(m) \/ WaitTimeout(m)
      BY <3>1 DEF RunBegin, PlayFails, WaitTimeout, Goto, ThreadPcs, AfterTimeout, deviceVars
    <3>2. CASE PlayDevice(m)
      <4>1. step[m] + 1 \in 0 .. MaxCount
        <5>1. step[m] < local[m].count
          BY <3>2 DEF PlayDevice, ThreadInv
        <5>2. local[m].count \in 0 .. MaxCount
          BY InfoCount
        <5>3. step[m] \in 0 .. MaxCount /\ MaxCount \in Nat
          BY ThreadAssumption DEF ThreadAssumption
        <5> HIDE DEF TypeOK, ThreadTypeOK
        <5> QED
          BY <5>1, <5>2, <5>3
      <4> QED
        BY <3>2, <4>1 DEF PlayDevice, Goto, ThreadPcs
    <3>3. CASE ExitSeen(m) \/ HandleMultipleVibrations(m)
      BY <3>3, DeviceTypes DEF ExitSeen, HandleMultipleVibrations, Goto, ThreadPcs
    <3>4. CASE RunEnd(m)
      BY <3>4, ThreadAssumption DEF RunEnd, Goto, ThreadPcs, deviceVars, ThreadAssumption
    <3> QED
      BY <1>2, <3>1, <3>2, <3>3, <3>4 DEF MotorStep, ThreadStep
  <2> QED
    BY <2>1, <2>2 DEF serviceVars, clientVars, callVars
<1> QED
  BY <1>1, <1>2

\* A step of a handler keeps the types.
LEMMA TypeCaller ==
  ASSUME TypeOK, KindInv, NEW c \in Callers, CallerStep(c)
  PROVE  TypeOK'
<1> USE DEF TypeOK, ThreadTypeOK
<1>0. Return(c) => /\ pc' \in [Callers -> Pcs] /\ op' \in [Callers -> CallRecords]
                   /\ todo' \in [Callers -> SUBSET Motors]
                   /\ outer' \in [Callers -> SUBSET Motors]
                   /\ allIgnored' \in [Callers -> BOOLEAN]
  BY NoCallType DEF Return, Pcs
<1>1. CASE StartStep(c)
  <2>1. CASE QueryCapacity(c)
    <3>1. op[c] \in CallRecords /\ op[c].info \in Infos
      BY <2>1 DEF QueryCapacity, KindInv, KindAt
    <3>2. [op[c] EXCEPT !.info.mode = ResolvedMode(@, CapacityOf(op[c].target))] \in CallRecords
      BY <3>1, ResolvedInfo DEF CallRecords
    <3> QED
      BY <2>1, <3>2 DEF QueryCapacity, Pcs, threadVars, deviceVars, serviceVars, clientVars
  <2>2. CASE Admit(c)
    BY <2>2, <1>0, ChosenMotors DEF Admit, Pcs, MotorsOf, threadVars, deviceVars, clientVars
  <2>3. CASE TakeThreadLock(c, "admitThread", "start")
    BY <2>3 DEF TakeThreadLock, Pcs, threadVars, deviceVars, clientVars
  <2>4. CASE Decide(c)
    <3>1. allIgnored' \in [Callers -> BOOLEAN]
      BY <2>4 DEF Decide
    <3>2. pc' \in [Callers -> Pcs] /\ todo' \in [Callers -> SUBSET Motors]
      BY <2>4 DEF Decide, Visited, StopThreadOr, Pcs
    <3> QED
      BY <2>4, <3>1, <3>2 DEF Decide, threadVars, deviceVars, serviceVars, clientVars
  <2>5. CASE QuietDevice(c)
    BY <2>5, DeviceTypes DEF QuietDevice, Pcs, threadVars, serviceVars, clientVars
  <2>6. CASE Launch(c)
    BY <2>6 DEF Launch, StartThread, Visited, Pcs, ThreadPcs, KindInv, KindAt, deviceVars,
       serviceVars, clientVars
  <2>7. CASE StartDone(c)
    BY <2>7, <1>0 DEF StartDone, Pcs, threadVars, deviceVars, clientVars
  <2>8. CASE DirectPlay(c)
    BY <2>8, <1>0 DEF DirectPlay, Pcs, KindInv, KindAt, threadVars, serviceVars, clientVars
  <2> QED
    BY <1>1, <2>1, <2>2, <2>3, <2>4, <2>5, <2>6, <2>7, <2>8 DEF StartStep
<1>2. CASE NotifyThread(c) \/ SyncThread(c)
  <2>1. exitFlag' \in [Motors -> BOOLEAN]
    BY <1>2 DEF NotifyThread, SyncThread, NotifyExit, ExitSynced
  <2>2. current' \in [Motors -> Infos \cup {NoInfo}] /\ UNCHANGED <<running, tpc, local, step>>
    BY <1>2 DEF NotifyThread, SyncThread, NotifyExit, ExitSynced
  <2>3. pc' \in [Callers -> Pcs] /\ todo' \in [Callers -> SUBSET Motors]
    BY <1>2 DEF NotifyThread, SyncThread, Visited, Pcs
  <2> QED
    BY <1>2, <2>1, <2>2, <2>3 DEF NotifyThread, SyncThread, deviceVars, serviceVars, clientVars
<1>3. CASE StopStep(c)
  <2>1. CASE StopScan(c)
    BY <2>1, ChosenMotors DEF StopScan, Pcs, MotorsOf, threadVars, deviceVars, serviceVars,
       clientVars
  <2>2. CASE StopDevice(c)
    BY <2>2, DeviceTypes DEF StopDevice, Visited, Pcs, threadVars, serviceVars, clientVars
  <2>3. CASE StopCheck(c)
    BY <2>3 DEF StopCheck, StopThreadOr, Visited, Pcs, threadVars, deviceVars, serviceVars,
       clientVars
  <2>4. CASE StopDone(c)
    BY <2>4, <1>0 DEF StopDone, Pcs, threadVars, deviceVars, clientVars
  <2>5. CASE \/ TakeManageLock(c, "stopManage", "stopThread")
             \/ TakeThreadLock(c, "stopThread", "stopScan")
    BY <2>5 DEF TakeManageLock, TakeThreadLock, Pcs, threadVars, deviceVars, clientVars
  <2> QED
    BY <1>3, <2>1, <2>2, <2>3, <2>4, <2>5 DEF StopStep
<1>4. CASE ModeStep(c)
  <2>1. CASE ModeLock(c)
    BY <2>1, <1>0, ChosenMotors DEF ModeLock, Pcs, MotorsOf, threadVars, deviceVars, clientVars
  <2>2. CASE TakeThreadLock(c, "modeThread", "mode")
    BY <2>2 DEF TakeThreadLock, Pcs, threadVars, deviceVars, clientVars
  <2>3. CASE ModeNext(c)
    BY <2>3 DEF ModeNext, StopThreadOr, Visited, Pcs, threadVars, deviceVars, serviceVars,
       clientVars
  <2>4. CASE ModeQuiet(c)
    BY <2>4, DeviceTypes DEF ModeQuiet, Visited, Pcs, threadVars, serviceVars, clientVars
  <2>5. CASE ModeDone(c)
    BY <2>5, <1>0 DEF ModeDone, Pcs, threadVars, deviceVars, clientVars
  <2> QED
    BY <1>4, <2>1, <2>2, <2>3, <2>4, <2>5 DEF ModeStep
<1>5. CASE SessionStep(c)
  <2>1. CASE SessionLock(c)
    BY <2>1, ChosenMotors DEF SessionLock, Pcs, MotorsOf, threadVars, deviceVars, clientVars
  <2>2. CASE SessionNext(c)
    BY <2>2 DEF SessionNext, Visited, Idle, threadVars, serviceVars, clientVars
  <2>3. CASE SessionDone(c)
    BY <2>3, <1>0 DEF SessionDone, Pcs, threadVars, deviceVars, clientVars
  <2> QED
    BY <1>5, <2>1, <2>2, <2>3 DEF SessionStep
<1>6. CASE PlugStep(c)
  <2>1. CASE PlugLock(c) \/ PlugNext(c)
    BY <2>1 DEF PlugLock, PlugNext, Pcs, MotorsOf, threadVars, deviceVars, serviceVars, clientVars
  <2>2. CASE PlugErase(c) \/ PlugInsert(c)
    BY <2>2 DEF PlugErase, PlugInsert, FreshRecords, Pcs, KindInv, KindAt, deviceVars, clientVars
  <2>3. CASE PlugNotify(c)
    BY <2>3, <1>0 DEF PlugNotify, Pcs, threadVars, deviceVars, clientVars
  <2> QED
    BY <1>6, <2>1, <2>2, <2>3 DEF PlugStep
<1>7. CASE DeathStep(c)
  <2>1. CASE DeathLock(c) \/ DeathNext(c)
    BY <2>1 DEF DeathLock, DeathNext, Pcs, MotorsOf, threadVars, deviceVars, serviceVars, clientVars
  <2>2. CASE DeathDone(c)
    BY <2>2, <1>0 DEF DeathDone, Pcs, threadVars, deviceVars
  <2> QED
    BY <1>7, <2>1, <2>2 DEF DeathStep
<1> QED
  BY <1>1, <1>2, <1>3, <1>4, <1>5, <1>6, <1>7 DEF CallerStep

\* Every step keeps the types.
LEMMA TypeStep ==
  ASSUME IInv, [Next]_vars
  PROVE  TypeOK'
<1> USE DEF IInv
<1>1. CASE UNCHANGED vars
  BY <1>1 DEF TypeOK, ThreadTypeOK, vars, threadVars, deviceVars, serviceVars, clientVars, callVars
<1>2. CASE Arrival
  BY <1>2, TypeArrival
<1>3. ASSUME NEW c \in Callers, CallerStep(c)
      PROVE  TypeOK'
  BY <1>3, TypeCaller
<1>4. ASSUME NEW m \in Motors, MotorStep(m) \/ DeviceStep(m)
      PROVE  TypeOK'
  BY <1>4, TypeMotor
<1> QED
  BY <1>1, <1>2, <1>3, <1>4 DEF Next

\* A step of one handler leaves the others where they are.
LEMMA OtherCallers ==
  ASSUME TypeOK, NEW c \in Callers, CallerStep(c), NEW d \in Callers, d # c
  PROVE  pc'[d] = pc[d] /\ op'[d] = op[d] /\ todo'[d] = todo[d] /\ outer'[d] = outer[d]
<1> USE DEF TypeOK
<1>0. Return(c) => pc'[d] = pc[d] /\ op'[d] = op[d] /\ todo'[d] = todo[d] /\ outer'[d] = outer[d]
  BY DEF Return
<1>1. CASE StartStep(c)
  BY <1>0, <1>1 DEF StartStep, QueryCapacity, Admit, TakeThreadLock, Decide, StopThreadOr,
     Visited, QuietDevice, Launch, StartDone, DirectPlay
<1>2. CASE NotifyThread(c) \/ SyncThread(c)
  BY <1>2 DEF NotifyThread, SyncThread, Visited
<1>3. CASE StopStep(c)
  BY <1>0, <1>3 DEF StopStep, TakeManageLock, TakeThreadLock, StopScan, StopDevice, StopCheck,
     StopDone, StopThreadOr, Visited
<1>4. CASE ModeStep(c) \/ SessionStep(c)
  BY <1>0, <1>4 DEF ModeStep, ModeLock, TakeThreadLock, ModeNext, ModeQuiet, ModeDone,
     StopThreadOr, Visited, SessionStep, SessionLock, SessionNext, SessionDone
<1>5. CASE PlugStep(c) \/ DeathStep(c)
  BY <1>0, <1>5 DEF PlugStep, PlugLock, PlugNext, PlugErase, PlugInsert, PlugNotify,
     DeathStep, DeathLock, DeathNext, DeathDone
<1> QED
  BY <1>1, <1>2, <1>3, <1>4, <1>5 DEF CallerStep

\* What a new call leaves alone, and where its handler begins.
LEMMA Arrivals ==
  ASSUME TypeOK, Arrival
  PROVE  /\ UNCHANGED <<threadVars, manageLock, threadLock, plugged, todo, outer>>
         /\ \A d \in Callers :
              \/ pc'[d] = pc[d] /\ op'[d] = op[d]
              \/ /\ pc[d] = "idle"
                 /\ op'[d] \in Calls
                 /\ pc'[d] = FirstPc(op'[d])
                 /\ op'[d].kind # "unmute"
<1> USE DEF TypeOK
<1>1. ASSUME NEW c \in Callers, NEW call \in Calls, Receive(c, call)
      PROVE  /\ UNCHANGED <<todo, outer>>
             /\ \A d \in Callers :
                  \/ pc'[d] = pc[d] /\ op'[d] = op[d]
                  \/ pc[d] = "idle" /\ op'[d] = call /\ pc'[d] = FirstPc(call)
  BY <1>1 DEF Receive
<1>2. ASSUME NEW c \in Callers, NEW call \in Calls,
             \/ ClientCall(c, call) \/ MuteCallback(c, call)
             \/ PlugEvent(c, call) \/ DeathNotice(c, call)
      PROVE  /\ Receive(c, call) /\ call.kind # "unmute"
             /\ UNCHANGED <<threadVars, manageLock, threadLock, plugged>>
  BY <1>2 DEF ClientCall, MuteCallback, PlugEvent, DeathNotice, serviceVars
<1>3. ASSUME NEW call \in Calls, UnmuteCallback(call)
      PROVE  UNCHANGED <<threadVars, manageLock, threadLock, plugged, pc, op, todo, outer>>
  BY <1>3 DEF UnmuteCallback, callVars
<1>4. ASSUME NEW p \in Pids, TransferClientRemoteObject(p) \/ DisableOrEnableVibratorByPid(p)
      PROVE  UNCHANGED <<threadVars, manageLock, threadLock, plugged, pc, op, todo, outer>>
  BY <1>4 DEF TransferClientRemoteObject, DisableOrEnableVibratorByPid, callVars
<1>5. CASE \E c \in Callers, call \in Calls :
             \/ ClientCall(c, call) \/ MuteCallback(c, call)
             \/ PlugEvent(c, call) \/ DeathNotice(c, call)
  BY <1>1, <1>2, <1>5
<1>6. CASE UNCHANGED <<threadVars, manageLock, threadLock, plugged, pc, op, todo, outer>>
  BY <1>6
<1> QED
  BY <1>3, <1>4, <1>5, <1>6 DEF Arrival

\* The first place of every kind of call.
LEMMA FirstPlaces ==
  ASSUME NEW call \in Calls, call.kind # "unmute"
  PROVE  \/ call.kind = "start" /\ FirstPc(call) \in {"capacity", "admit"}
         \/ call.kind = "stop" /\ FirstPc(call) = "stopManage"
         \/ call.kind = "mode" /\ FirstPc(call) = "modeManage"
         \/ call.kind = "session" /\ FirstPc(call) = "sessionManage"
         \/ call.kind = "mute" /\ FirstPc(call) = "stopThread"
         \/ call.kind \in {"plugIn", "plugOut"} /\ FirstPc(call) = "plugManage"
         \/ call.kind = "death" /\ FirstPc(call) = "deathManage"
<1>1. call.kind \in AllKinds \ {"disable"}
  BY CallTypes
<1> QED
  BY <1>1 DEF FirstPc, AllKinds

\* The places where a handler holds a lock stay places where it holds it.
LEMMA LockStep ==
  ASSUME IInv, [Next]_vars
  PROVE  LockInv'
<1> USE DEF IInv, LockInv, HoldsManage, ThreadPcsHeld, ManagePcsHeld, StopPcs, JoinPcs, StopKinds
<1>0. pc \in [Callers -> Pcs] /\ op \in [Callers -> CallRecords] /\ NoOwner \notin Callers
  BY ServiceAssumption DEF TypeOK, ServiceAssumption
<1>1. CASE UNCHANGED vars
  BY <1>1 DEF vars, serviceVars, callVars
<1>2. CASE Arrival
  BY <1>2, Arrivals, FirstPlaces
<1>3. ASSUME NEW c \in Callers, CallerStep(c)
      PROVE  LockInv'
  <2>1. CASE StartStep(c)
    BY <1>0, <2>1 DEF StartStep, QueryCapacity, serviceVars, CallRecords, Admit, Return,
       TakeThreadLock, KindInv, KindAt, Decide, StopThreadOr, QuietDevice, Launch,
       StartDone, DirectPlay
  <2>2. CASE StopStep(c)
    BY <1>0, <2>2 DEF StopStep, TakeManageLock, TakeThreadLock, serviceVars, StopScan,
       StopDevice, StopCheck, StopDone, OuterKinds, StopThreadOr, KindInv, KindAt, Return
  <2>3. CASE ModeStep(c)
    BY <1>0, <2>3 DEF ModeStep, TakeThreadLock, serviceVars, ModeLock, ModeNext, ModeQuiet,
       ModeDone, StopThreadOr, KindInv, KindAt, Return
  <2>4. CASE SessionStep(c) \/ PlugStep(c) \/ DeathStep(c)
    BY <1>0, <2>4 DEF SessionStep, SessionLock, SessionNext, SessionDone, PlugStep,
       PlugLock, PlugNext, PlugErase, PlugInsert, PlugNotify, DeathStep, DeathLock,
       DeathNext, DeathDone, serviceVars, KindInv, KindAt, Return
  <2>5. CASE NotifyThread(c) \/ SyncThread(c)
    BY <1>0, <2>5 DEF NotifyThread, SyncThread, serviceVars, KindInv, KindAt
  <2> QED
    BY <1>3, <2>1, <2>2, <2>3, <2>4, <2>5 DEF CallerStep
<1>4. ASSUME NEW m \in Motors, MotorStep(m) \/ DeviceStep(m)
      PROVE  LockInv'
  BY <1>4 DEF MotorStep, DeviceStep, serviceVars, callVars
<1> QED
  BY <1>1, <1>2, <1>3, <1>4 DEF Next

\* A call of one kind never gets into the code of another.
LEMMA KindStep ==
  ASSUME IInv, [Next]_vars
  PROVE  KindInv'
<1> USE DEF IInv, KindInv, KindAt, StopPcs, JoinPcs, StopKinds
<1>0. pc \in [Callers -> Pcs] /\ op \in [Callers -> CallRecords]
  BY DEF TypeOK
<1>1. CASE UNCHANGED vars
  BY <1>1 DEF vars, callVars
<1>2. CASE Arrival
  BY <1>2, Arrivals, FirstPlaces, CallTypes
<1>3. ASSUME NEW c \in Callers, CallerStep(c)
      PROVE  KindInv'
  <2> USE <1>0
  <2>0. Return(c) => pc'[c] = "idle" /\ op'[c].kind = "none"
    BY CallTypes DEF Return
  <2>1. ASSUME NEW d \in Callers, d # c
        PROVE  KindAt(d)'
    BY <1>3, <2>1, OtherCallers
  <2>2. CASE QueryCapacity(c)
    <3>1. op'[c].kind = op[c].kind /\ op'[c].info \in Infos /\ pc'[c] = "admit"
      BY <2>2, ResolvedInfo DEF QueryCapacity, CallRecords
    <3> QED
      BY <2>1, <2>2, <3>1 DEF QueryCapacity
  <2>3. CASE StartStep(c) /\ ~QueryCapacity(c)
    <3>1. KindAt(c)'
      BY <2>0, <2>3 DEF StartStep, Admit, TakeThreadLock, Decide,
         StopThreadOr, QuietDevice, Launch, StartDone, DirectPlay
    <3> QED
      BY <2>1, <3>1
  <2>4. CASE StopStep(c)
    <3>1. KindAt(c)'
      BY <2>0, <2>4 DEF StopStep, TakeManageLock, TakeThreadLock, StopScan,
         StopDevice, StopCheck, StopDone, OuterKinds, StopThreadOr
    <3> QED
      BY <2>1, <3>1
  <2>5. CASE ModeStep(c) \/ SessionStep(c)
    <3>1. KindAt(c)'
      BY <2>0, <2>5 DEF ModeStep, TakeThreadLock, ModeLock, ModeNext, ModeQuiet, ModeDone,
         StopThreadOr, SessionStep, SessionLock, SessionNext, SessionDone
    <3> QED
      BY <2>1, <3>1
  <2>6. CASE PlugStep(c) \/ DeathStep(c)
    <3>1. KindAt(c)'
      BY <2>0, <2>6 DEF PlugStep, PlugLock, PlugNext, PlugErase, PlugInsert, PlugNotify,
         DeathStep, DeathLock, DeathNext, DeathDone
    <3> QED
      BY <2>1, <3>1
  <2>7. CASE NotifyThread(c) \/ SyncThread(c)
    <3>1. KindAt(c)'
      BY <2>7 DEF NotifyThread, SyncThread
    <3> QED
      BY <2>1, <3>1
  <2> QED
    BY <1>3, <2>2, <2>3, <2>4, <2>5, <2>6, <2>7 DEF CallerStep
<1>4. ASSUME NEW m \in Motors, MotorStep(m) \/ DeviceStep(m)
      PROVE  KindInv'
  BY <1>4 DEF MotorStep, DeviceStep, callVars
<1> QED
  BY <1>1, <1>2, <1>3, <1>4 DEF Next

\* The steps of a handler that change the motors' threads or the map.
LEMMA ThreadEffects ==
  ASSUME TypeOK, NEW c \in Callers, CallerStep(c)
  PROVE  \/ UNCHANGED <<threadVars, plugged>>
         \/ NotifyThread(c) \/ SyncThread(c) \/ Launch(c)
         \/ PlugErase(c) \/ PlugInsert(c)
<1> USE DEF serviceVars
<1>1. CASE StartStep(c)
  BY <1>1 DEF StartStep, QueryCapacity, Admit, TakeThreadLock, Decide, QuietDevice,
     StartDone, DirectPlay
<1>2. CASE StopStep(c)
  BY <1>2 DEF StopStep, TakeManageLock, TakeThreadLock, StopScan, StopDevice, StopCheck, StopDone
<1>3. CASE ModeStep(c) \/ SessionStep(c)
  BY <1>3 DEF ModeStep, ModeLock, TakeThreadLock, ModeNext, ModeQuiet, ModeDone,
     SessionStep, SessionLock, SessionNext, SessionDone
<1>4. CASE PlugStep(c) \/ DeathStep(c)
  BY <1>4 DEF PlugStep, PlugLock, PlugNext, PlugNotify, DeathStep, DeathLock, DeathNext, DeathDone
<1> QED
  BY <1>1, <1>2, <1>3, <1>4 DEF CallerStep

\* A handler has a motor to visit where it visits one, and the motors a start
\* visits stay in the map while it holds devicesManageMutex_.
LEMMA TodoStep ==
  ASSUME IInv, [Next]_vars
  PROVE  TodoInv'
<1> USE DEF IInv, TodoInv, StartPcs
<1>0. pc \in [Callers -> Pcs] /\ op \in [Callers -> CallRecords]
      /\ todo \in [Callers -> SUBSET Motors]
  BY DEF TypeOK
<1>1. CASE UNCHANGED vars
  BY <1>1 DEF vars, serviceVars, callVars, MotorsOf
<1>2. CASE Arrival
  BY <1>2, Arrivals, FirstPlaces DEF MotorsOf
<1>3. ASSUME NEW c \in Callers, CallerStep(c)
      PROVE  TodoInv'
  <2> DEFINE TodoAt(d) ==
        /\ pc[d] \in {"quiet", "launch", "notify", "sync", "stopCheck", "modeQuiet"}
             => todo[d] # {}
        /\ pc[d] \in StartPcs /\ Kind(d) = "start" => todo[d] \subseteq MotorsOf(plugged)
  <2> USE <1>0
  <2>0. Return(c) => pc'[c] = "idle"
    BY DEF Return
  <2>1. ASSUME NEW d \in Callers, d # c
        PROVE  TodoAt(d)'
    <3>1. pc'[d] = pc[d] /\ op'[d] = op[d] /\ todo'[d] = todo[d]
      BY <1>3, <2>1, OtherCallers
    <3>2. CASE PlugErase(c)
      BY <2>1, <3>1, <3>2 DEF PlugErase, LockInv, HoldsManage, ManagePcsHeld, JoinPcs, MotorsOf
    <3>3. CASE ~PlugErase(c)
      <4>1. plugged \subseteq plugged'
        BY <1>3, <3>3, ThreadEffects DEF NotifyThread, SyncThread, Launch, PlugInsert, serviceVars
      <4> QED
        BY <3>1, <4>1 DEF MotorsOf
    <3> QED
      BY <3>2, <3>3
  <2>2. CASE StartStep(c)
    <3>1. TodoAt(c)'
      BY <2>0, <2>2, ChosenMotors DEF StartStep, QueryCapacity, Admit, TakeThreadLock, Decide,
         StopThreadOr, Visited, QuietDevice, Launch, StartDone, DirectPlay, serviceVars,
         KindInv, KindAt, MotorsOf
    <3> QED
      BY <2>1, <3>1
  <2>3. CASE StopStep(c)
    <3>1. TodoAt(c)'
      BY <2>0, <2>3 DEF StopStep, TakeManageLock, TakeThreadLock, StopScan, StopDevice,
         StopCheck, StopDone, OuterKinds, StopThreadOr, StopPcs, StopKinds, KindInv, KindAt
    <3> QED
      BY <2>1, <3>1
  <2>4. CASE ModeStep(c) \/ SessionStep(c)
    <3>1. TodoAt(c)'
      BY <2>0, <2>4 DEF ModeStep, TakeThreadLock, ModeLock, ModeNext, ModeQuiet, ModeDone,
         StopThreadOr, SessionStep, SessionLock, SessionNext, SessionDone, KindInv, KindAt
    <3> QED
      BY <2>1, <3>1
  <2>5. CASE PlugStep(c) \/ DeathStep(c)
    <3>1. TodoAt(c)'
      BY <2>0, <2>5 DEF PlugStep, PlugLock, PlugNext, PlugErase, PlugInsert, PlugNotify,
         DeathStep, DeathLock, DeathNext, DeathDone
    <3> QED
      BY <2>1, <3>1
  <2>6. CASE NotifyThread(c) \/ SyncThread(c)
    <3>1. TodoAt(c)'
      BY <2>6 DEF NotifyThread, SyncThread, serviceVars, MotorsOf
    <3> QED
      BY <2>1, <3>1
  <2> QED
    BY <1>3, <2>2, <2>3, <2>4, <2>5, <2>6 DEF CallerStep
<1>4. ASSUME NEW m \in Motors, MotorStep(m) \/ DeviceStep(m)
      PROVE  TodoInv'
  BY <1>4 DEF MotorStep, DeviceStep, serviceVars, callVars, MotorsOf
<1> QED
  BY <1>1, <1>2, <1>3, <1>4 DEF Next

\* An exit flag is lowered by the handler that raised it, before it goes on.
LEMMA ExitStep ==
  ASSUME IInv, [Next]_vars
  PROVE  ExitInv'
<1> USE DEF IInv, ExitInv
<1>0. pc \in [Callers -> Pcs] /\ exitFlag \in [Motors -> BOOLEAN]
  BY DEF TypeOK, ThreadTypeOK
<1>1. CASE UNCHANGED vars
  BY <1>1 DEF vars, threadVars, callVars
<1>2. CASE Arrival
  BY <1>2, Arrivals DEF threadVars
<1>3. ASSUME NEW c \in Callers, CallerStep(c)
      PROVE  ExitInv'
  <2>1. CASE NotifyThread(c)
    <3>1. ASSUME NEW m \in Motors, exitFlag'[m], m # First(todo[c])
          PROVE  exitFlag[m]
      BY <1>0, <2>1, <3>1 DEF NotifyThread, NotifyExit
    <3>2. pc'[c] = "sync" /\ todo' = todo
      BY <1>0, <2>1 DEF NotifyThread
    <3>3. \A d \in Callers : pc[d] = "sync" => pc'[d] = "sync"
      BY <1>0, <2>1 DEF NotifyThread
    <3> QED
      BY <3>1, <3>2, <3>3
  <2>2. CASE SyncThread(c)
    <3>1. ASSUME NEW m \in Motors, exitFlag'[m]
          PROVE  exitFlag[m] /\ m # First(todo[c])
      BY <1>0, <2>2, <3>1 DEF SyncThread, ExitSynced
    <3>2. \A d \in Callers : d # c => pc'[d] = pc[d] /\ todo'[d] = todo[d]
      BY <1>3, OtherCallers
    <3> QED
      BY <3>1, <3>2
  <2>3. CASE ~NotifyThread(c) /\ ~SyncThread(c)
    <3>1. UNCHANGED exitFlag
      BY <1>3, <2>3, ThreadEffects DEF threadVars, Launch, StartThread, PlugErase, PlugInsert
    <3>2. pc[c] # "sync"
      BY <1>3, <2>3 DEF CallerStep, StartStep, QueryCapacity, Admit, TakeThreadLock, Decide,
         QuietDevice, Launch, StartDone, DirectPlay, StopStep, TakeManageLock, StopScan, StopDevice,
         StopCheck, StopDone, ModeStep, ModeLock, ModeNext, ModeQuiet, ModeDone, SessionStep,
         SessionLock, SessionNext, SessionDone, PlugStep, PlugLock, PlugNext, PlugErase, PlugInsert,
         PlugNotify, DeathStep, DeathLock, DeathNext, DeathDone
    <3> QED
      BY <1>3, <3>1, <3>2, OtherCallers
  <2> QED
    BY <2>1, <2>2, <2>3
<1>4. ASSUME NEW m \in Motors, MotorStep(m) \/ DeviceStep(m)
      PROVE  ExitInv'
  <2>1. UNCHANGED <<exitFlag, pc, todo>>
    BY <1>4 DEF MotorStep, DeviceStep, DeviceEnds, ThreadStep, RunBegin, PlayDevice, PlayFails,
       ExitSeen, WaitTimeout, HandleMultipleVibrations, RunEnd, threadVars, callVars
  <2> QED
    BY <2>1
<1> QED
  BY <1>1, <1>2, <1>3, <1>4 DEF Next

\* Only Launch makes a thread run.
LEMMA RunningOnlyByLaunch ==
  ASSUME IInv, [Next]_vars, NEW m \in Motors, ~running[m], running'[m]
  PROVE  \E c \in Callers : Launch(c) /\ First(todo[c]) = m
<1> USE DEF IInv
<1>0. running \in [Motors -> BOOLEAN]
  BY DEF TypeOK, ThreadTypeOK
<1>1. CASE UNCHANGED vars \/ Arrival
  BY <1>1, Arrivals DEF vars, threadVars
<1>2. ASSUME NEW c \in Callers, CallerStep(c)
      PROVE  Launch(c) /\ First(todo[c]) = m
  <2>1. Launch(c)
    BY <1>2, ThreadEffects DEF threadVars, NotifyThread, NotifyExit, SyncThread, ExitSynced,
       PlugErase, PlugInsert
  <2> QED
    BY <1>0, <2>1 DEF Launch, StartThread
<1>3. ASSUME NEW n \in Motors, MotorStep(n) \/ DeviceStep(n)
      PROVE  FALSE
  BY <1>0, <1>3 DEF MotorStep, DeviceStep, DeviceEnds, ThreadStep, RunBegin, PlayDevice, PlayFails,
     ExitSeen, WaitTimeout, HandleMultipleVibrations, RunEnd, threadVars
<1> QED
  BY <1>1, <1>2, <1>3 DEF Next

\* While a handler that stays where it is holds either lock, no thread starts.
LEMMA NoLaunch ==
  ASSUME IInv, [Next]_vars, NEW d \in Callers, pc'[d] = pc[d],
         pc[d] \in ThreadPcsHeld \/ HoldsManage(d),
         NEW m \in Motors, ~running[m]
  PROVE  ~running'[m]
<1> USE DEF IInv
<1>1. pc \in [Callers -> Pcs]
  BY DEF TypeOK
<1>2. SUFFICES ASSUME NEW c \in Callers, Launch(c)
               PROVE  FALSE
  BY RunningOnlyByLaunch
<1>3. pc[c] = "launch" /\ pc'[c] = "start"
  BY <1>1, <1>2 DEF Launch
<1>4. c = d
  BY <1>3 DEF LockInv, ThreadPcsHeld, HoldsManage, ManagePcsHeld
<1> QED
  BY <1>3, <1>4

\* A thread that has been joined is not started again before its handler has
\* given vibratorThreadMutex_ up.
LEMMA QuietStep ==
  ASSUME IInv, [Next]_vars
  PROVE  QuietInv'
<1> DEFINE QuietPcs == {"quiet", "launch", "modeQuiet"}
           QuietAt(d) == pc[d] \in QuietPcs => ~running[First(todo[d])]
<1> USE DEF IInv, QuietInv
<1>0. /\ pc \in [Callers -> Pcs] /\ todo \in [Callers -> SUBSET Motors]
      /\ running \in [Motors -> BOOLEAN]
  BY DEF TypeOK, ThreadTypeOK
<1>1. ASSUME NEW d \in Callers, pc'[d] = pc[d], todo'[d] = todo[d]
      PROVE  QuietAt(d)'
  <2>1. SUFFICES ASSUME pc[d] \in QuietPcs
                 PROVE  ~running'[First(todo[d])]
    BY <1>1
  <2>2. First(todo[d]) \in Motors /\ ~running[First(todo[d])]
    BY <1>0, <2>1, FirstMotor DEF TodoInv
  <2> QED
    BY <1>1, <2>1, <2>2, NoLaunch DEF ThreadPcsHeld
<1>2. CASE UNCHANGED vars
  BY <1>1, <1>2 DEF vars, callVars
<1>3. CASE Arrival
  <2>1. ASSUME NEW d \in Callers
        PROVE  QuietAt(d)'
    BY <1>1, <1>3, Arrivals, FirstPlaces
  <2> QED
    BY <2>1
<1>4. ASSUME NEW c \in Callers, CallerStep(c)
      PROVE  QuietInv'
  <2>1. \A d \in Callers : d # c => QuietAt(d)'
    BY <1>1, <1>4, OtherCallers
  <2>2. QuietAt(c)'
    <3>1. CASE SyncThread(c)
      BY <1>0, <3>1 DEF SyncThread, ExitSynced
    <3>2. CASE Decide(c) \/ ModeNext(c) \/ QuietDevice(c)
      BY <1>0, <3>2 DEF Decide, ModeNext, QuietDevice, StopThreadOr, threadVars
    <3>3. CASE ~SyncThread(c) /\ ~Decide(c) /\ ~ModeNext(c) /\ ~QuietDevice(c)
      BY <1>0, <1>4, <3>3 DEF CallerStep, StartStep, QueryCapacity, Admit, TakeThreadLock,
         Launch, StartDone, DirectPlay, Return, NotifyThread, StopStep, TakeManageLock, StopScan,
         StopDevice, StopCheck, StopThreadOr, StopDone, ModeStep, ModeLock, ModeQuiet, ModeDone,
         SessionStep, SessionLock, SessionNext, SessionDone, PlugStep, PlugLock, PlugNext, PlugErase,
         PlugInsert, PlugNotify, DeathStep, DeathLock, DeathNext, DeathDone
    <3> QED
      BY <3>1, <3>2, <3>3
  <2> QED
    BY <2>1, <2>2
<1>5. ASSUME NEW m \in Motors, MotorStep(m) \/ DeviceStep(m)
      PROVE  QuietInv'
  BY <1>1, <1>5 DEF MotorStep, DeviceStep, callVars
<1> QED
  BY <1>2, <1>3, <1>4, <1>5 DEF Next

\* The steps of a motor's own thread keep what is said of it.
LEMMA ThreadMotor ==
  ASSUME TypeOK, ThreadInv, NEW n \in Motors, ThreadStep(n)
  PROVE  ThreadInv'
<1> DEFINE ThreadAt(m) ==
      /\ tpc[m] = "none" <=> ~running[m]
      /\ tpc[m] \in {"none", "start"} => step[m] = 0
      /\ tpc[m] \notin {"none", "start"} => local[m] = current[m]
      /\ tpc[m] \in {"play", "quiet"} => step[m] < local[m].count
      /\ tpc[m] = "wait" /\ local[m].mode = "custom.hd" => step[m] < local[m].count
<1> USE DEF TypeOK, ThreadTypeOK, ThreadInv
<1>0. step[n] \in Nat /\ current[n].count \in Nat /\ local[n].count \in Nat
  BY InfoCount, ThreadAssumption DEF ThreadAssumption
<1>1. ASSUME NEW m \in Motors, m # n
      PROVE  ThreadAt(m)'
  <2>1. /\ running'[m] = running[m] /\ tpc'[m] = tpc[m] /\ step'[m] = step[m]
        /\ local'[m] = local[m] /\ current'[m] = current[m]
    BY <1>1 DEF ThreadStep, RunBegin, PlayDevice, PlayFails, ExitSeen, WaitTimeout,
       HandleMultipleVibrations, RunEnd, Goto
  <2> QED
    BY <2>1
<1>2. ThreadAt(n)'
  <2>1. CASE RunBegin(n)
    BY <1>0, <2>1 DEF RunBegin, Goto
  <2>2. CASE PlayDevice(n)
    BY <1>0, <2>2 DEF PlayDevice, Goto
  <2>3. CASE PlayFails(n) \/ ExitSeen(n) \/ HandleMultipleVibrations(n)
    BY <2>3 DEF PlayFails, ExitSeen, HandleMultipleVibrations, Goto, Composite
  <2>4. CASE WaitTimeout(n)
    BY <2>4 DEF WaitTimeout, AfterTimeout, Goto
  <2>5. CASE RunEnd(n)
    BY <2>5 DEF RunEnd, Goto
  <2> QED
    BY <2>1, <2>2, <2>3, <2>4, <2>5 DEF ThreadStep
<1> QED
  BY <1>1, <1>2

\* A thread is launched when it has ended, and a record replaced when its thread
\* has: by SyncThread after the join, by a plug event before the map changes.
LEMMA ThreadCaller ==
  ASSUME IInv, NEW c \in Callers, CallerStep(c)
  PROVE  ThreadInv'
<1> USE DEF IInv
<1>0. /\ running \in [Motors -> BOOLEAN] /\ tpc \in [Motors -> ThreadPcs]
      /\ current \in [Motors -> Infos \cup {NoInfo}]
      /\ todo \in [Callers -> SUBSET Motors]
  BY DEF TypeOK, ThreadTypeOK
<1>1. CASE UNCHANGED threadVars
  BY <1>1 DEF ThreadInv, threadVars
<1>2. CASE NotifyThread(c)
  BY <1>2 DEF ThreadInv, NotifyThread, NotifyExit
<1>3. ASSUME UNCHANGED <<running, tpc, local, step>>,
             \A m \in Motors : running[m] => current'[m] = current[m]
      PROVE  ThreadInv'
  BY <1>3 DEF ThreadInv
<1>4. CASE SyncThread(c)
  BY <1>0, <1>3, <1>4 DEF SyncThread, ExitSynced
<1>5. CASE PlugErase(c)
  <2>1. \A m \in Motors : DeviceOf[m] = op[c].device => ~running[m]
    BY <1>5 DEF PlugErase, PlugInv, KindInv, KindAt, UnplugPcs, MotorsOf
  <2> QED
    BY <1>3, <1>5, <2>1 DEF PlugErase, FreshRecords
<1>6. CASE PlugInsert(c)
  BY <1>3, <1>6 DEF PlugInsert, FreshRecords, PlugInv
<1>7. CASE Launch(c)
  <2>1. PICK m \in Motors : m = First(todo[c]) /\ ~running[m]
    BY <1>0, <1>7, FirstMotor DEF Launch, QuietInv, TodoInv
  <2>2. running' = [running EXCEPT ![m] = TRUE] /\ tpc' = [tpc EXCEPT ![m] = "start"]
        /\ current' = [current EXCEPT ![m] = op[c].info] /\ UNCHANGED <<local, step>>
    BY <1>7, <2>1 DEF Launch, StartThread
  <2>3. ASSUME NEW n \in Motors, n # m
        PROVE  running'[n] = running[n] /\ tpc'[n] = tpc[n] /\ current'[n] = current[n]
    BY <1>0, <2>2, <2>3
  <2>4. running'[m] /\ tpc'[m] = "start" /\ step'[m] = 0
    BY <1>0, <2>1, <2>2 DEF ThreadInv
  <2> QED
    BY <2>2, <2>3, <2>4 DEF ThreadInv
<1> QED
  BY <1>1, <1>2, <1>4, <1>5, <1>6, <1>7, ThreadEffects

\* Every step keeps what is said of the motors' threads.
LEMMA ThreadInvStep ==
  ASSUME IInv, [Next]_vars
  PROVE  ThreadInv'
<1> USE DEF IInv
<1>1. CASE UNCHANGED vars \/ Arrival
  BY <1>1, Arrivals DEF ThreadInv, vars, threadVars
<1>2. ASSUME NEW m \in Motors, DeviceStep(m)
      PROVE  ThreadInv'
  BY <1>2 DEF DeviceStep, DeviceEnds, ThreadInv, threadVars
<1> QED
  BY <1>1, <1>2, ThreadMotor, ThreadCaller DEF Next, MotorStep

\* A thread is launched for a device in the map only, and a device leaves the
\* map with its threads ended.
LEMMA UnpluggedStep ==
  ASSUME IInv, [Next]_vars, NEW m \in Motors, DeviceOf[m] \notin plugged'
  PROVE  ~running'[m]
<1> USE DEF IInv
<1>0. todo \in [Callers -> SUBSET Motors] /\ pc \in [Callers -> Pcs]
  BY DEF TypeOK
<1>1. CASE DeviceOf[m] \notin plugged
  <2>1. SUFFICES ASSUME NEW c \in Callers, Launch(c), First(todo[c]) = m
                 PROVE  FALSE
    BY <1>1, RunningOnlyByLaunch DEF PlugInv
  <2> QED
    BY <1>0, <1>1, <2>1, FirstMotor
       DEF Launch, TodoInv, KindInv, KindAt, StartPcs, MotorsOf
<1>2. CASE DeviceOf[m] \in plugged
  <2>1. PICK c \in Callers : PlugErase(c)
    <3>1. CASE UNCHANGED vars \/ Arrival
      BY <1>2, <3>1, Arrivals DEF vars, serviceVars
    <3>2. ASSUME NEW c \in Callers, CallerStep(c)
          PROVE  PlugErase(c)
      BY <1>2, <3>2, ThreadEffects DEF NotifyThread, SyncThread, Launch, PlugInsert, serviceVars
    <3>3. ASSUME NEW n \in Motors, MotorStep(n) \/ DeviceStep(n)
          PROVE  FALSE
      BY <1>2, <3>3 DEF MotorStep, DeviceStep, serviceVars
    <3> QED
      BY <3>1, <3>2, <3>3 DEF Next
  <2> QED
    BY <1>2, <2>1 DEF PlugErase, PlugInv, KindInv, KindAt, UnplugPcs, MotorsOf
<1> QED
  BY <1>1, <1>2

\* The motor a plug-out is about to stop is among those its scan finds.
LEMMA ScanFindsOuter ==
  ASSUME IInv, NEW c \in Callers, Kind(c) \in OuterKinds,
         NEW m \in Motors, m = First(outer[c]), DeviceOf[m] \in plugged
  PROVE  m \in CheckDeviceIdIsValid(StopTarget(c), plugged)
<1>1. StopTarget(c) = [device |-> DeviceOf[m], vibrator |-> VibratorOf[m]]
  BY DEF StopTarget
<1>2. DeviceOf[m] # AnyId
  BY ServiceAssumption DEF ServiceAssumption
<1> QED
  BY <1>1, <1>2 DEF CheckDeviceIdIsValid, MotorsOf

\* A plug-out, motor by motor, ends every thread of its device, and no other
\* handler starts one of them again.
LEMMA PlugInvStep ==
  ASSUME IInv, [Next]_vars
  PROVE  PlugInv'
<1> DEFINE UnplugAt(c) == (Kind(c) = "plugOut" /\ pc[c] \in UnplugPcs) =>
             /\ op[c].device \in plugged
             /\ \A m \in MotorsOf({op[c].device}) \ outer[c] : ~running[m]
             /\ outer[c] \subseteq MotorsOf({op[c].device})
             /\ pc[c] = "plugErase" => outer[c] = {}
             /\ pc[c] \in StopPcs \cup JoinPcs => outer[c] # {}
             /\ pc[c] \in {"stopLoop", "stopCheck", "notify", "sync"} =>
                  First(outer[c]) \in todo[c] \/ ~running[First(outer[c])]
<1> USE DEF IInv
<1>0. /\ pc \in [Callers -> Pcs] /\ op \in [Callers -> CallRecords]
      /\ todo \in [Callers -> SUBSET Motors] /\ outer \in [Callers -> SUBSET Motors]
      /\ running \in [Motors -> BOOLEAN]
  BY DEF TypeOK, ThreadTypeOK
<1>1. \A m \in Motors : DeviceOf[m] \notin plugged' => ~running'[m]
  BY UnpluggedStep
<1>2. ASSUME NEW d \in Callers, pc'[d] = pc[d], op'[d] = op[d], todo'[d] = todo[d],
             outer'[d] = outer[d], ~PlugErase(d)
      PROVE  UnplugAt(d)'
  <2>1. SUFFICES ASSUME Kind(d) = "plugOut", pc[d] \in UnplugPcs
                 PROVE  UnplugAt(d)'
    BY <1>2
  <2>2. HoldsManage(d)
    BY <2>1 DEF UnplugPcs, HoldsManage, ManagePcsHeld
  <2>3. \A m \in Motors : ~running[m] => ~running'[m]
    BY <1>2, <2>2, NoLaunch
  <2>4. pc[d] \in StopPcs \cup JoinPcs => First(outer[d]) \in Motors
    BY <1>0, <2>1, FirstMotor DEF PlugInv
  <2>5. plugged \subseteq plugged'
    <3>1. ASSUME NEW c \in Callers, CallerStep(c), PlugErase(c)
          PROVE  FALSE
      BY <1>0, <1>2, <2>2, <3>1 DEF PlugErase, LockInv, HoldsManage, ManagePcsHeld
    <3> QED
      BY <3>1, Arrivals, ThreadEffects DEF Next, vars, serviceVars, NotifyThread, SyncThread,
         Launch, PlugInsert, MotorStep, DeviceStep
  <2> QED
    BY <1>2, <2>1, <2>3, <2>4, <2>5 DEF PlugInv, MotorsOf, StopPcs, JoinPcs
<1>3. CASE UNCHANGED vars
  BY <1>1, <1>3 DEF PlugInv, vars, threadVars, serviceVars, callVars, MotorsOf
<1>4. CASE Arrival
  <2>1. ASSUME NEW d \in Callers
        PROVE  UnplugAt(d)'
    <3>1. UNCHANGED <<running, plugged, todo, outer>>
      BY <1>4, Arrivals DEF threadVars
    <3> QED
      BY <1>4, <3>1, Arrivals, FirstPlaces
         DEF PlugInv, UnplugPcs, StopPcs, JoinPcs, MotorsOf
  <2> QED
    BY <1>1, <2>1 DEF PlugInv
<1>5. ASSUME NEW c \in Callers, CallerStep(c)
      PROVE  PlugInv'
  <2>1. ASSUME NEW d \in Callers, d # c
        PROVE  UnplugAt(d)'
    <3>1. ~PlugErase(d)
      BY <1>0, <1>5, <2>1, OtherCallers DEF PlugErase
    <3> QED
      BY <1>2, <1>5, <2>1, <3>1, OtherCallers
  <2>2. UnplugAt(c)'
    <3>1. CASE PlugLock(c)
      BY <1>0, <3>1 DEF PlugLock, UnplugPcs, StopPcs, JoinPcs, MotorsOf
    <3>2. CASE PlugNext(c)
      <4>1. UNCHANGED <<op, outer, running, plugged>>
        BY <3>2 DEF PlugNext, threadVars, serviceVars
      <4> QED
        BY <1>0, <3>2, <4>1 DEF PlugNext, PlugInv, UnplugPcs, StopPcs, JoinPcs, MotorsOf
    <3>3. CASE TakeThreadLock(c, "stopThread", "stopScan")
      BY <1>0, <3>3 DEF TakeThreadLock, PlugInv, UnplugPcs, StopPcs, JoinPcs, MotorsOf, threadVars
    <3>4. CASE StopScan(c)
      <4>1. UNCHANGED <<op, outer, running, plugged>> /\ pc[c] = "stopScan" /\ pc'[c] = "stopLoop"
            /\ todo'[c] = CheckDeviceIdIsValid(StopTarget(c), plugged)
        BY <1>0, <3>4 DEF StopScan, threadVars, serviceVars
      <4>2. Kind(c) = "plugOut" => First(outer[c]) \in Motors /\ DeviceOf[First(outer[c])] \in plugged
        BY <1>0, <4>1, FirstMotor DEF PlugInv, UnplugPcs, StopPcs, MotorsOf
      <4> QED
        BY <4>1, <4>2, ScanFindsOuter DEF PlugInv, UnplugPcs, StopPcs, JoinPcs, MotorsOf, OuterKinds
    <3>5. CASE StopDevice(c) \/ StopCheck(c) \/ NotifyThread(c) \/ SyncThread(c)
      <4>1. UNCHANGED <<op, outer, running, plugged>>
        BY <3>5 DEF StopDevice, StopCheck, NotifyThread, NotifyExit, SyncThread, ExitSynced,
           threadVars, serviceVars
      <4>2. Kind(c) = "plugOut" =>
              /\ pc[c] \in {"stopLoop", "stopCheck", "notify", "sync"}
              /\ pc'[c] \in {"stopLoop", "stopCheck", "notify", "sync"}
              /\ todo'[c] = todo[c] \/ (todo'[c] = todo[c] \ {First(todo[c])} /\ ~running[First(todo[c])])
        <5>1. CASE StopDevice(c)
          <6>1. todo[c] # {} /\ First(todo[c]) \in Motors
            BY <1>0, <5>1, FirstMotor DEF StopDevice
          <6> QED
            BY <1>0, <5>1, <6>1 DEF StopDevice, Visited, IsCurrentVibrate, PlugInv
        <5>2. CASE StopCheck(c) \/ NotifyThread(c) \/ SyncThread(c)
          BY <1>0, <5>2 DEF StopCheck, StopThreadOr, NotifyThread, SyncThread, ExitSynced, Visited
        <5> QED
          BY <3>5, <5>1, <5>2
      <4> QED
        BY <4>1, <4>2 DEF PlugInv, UnplugPcs, StopPcs, JoinPcs, MotorsOf
    <3>6. CASE StopDone(c)
      BY <1>0, <3>6 DEF StopDone, PlugInv, UnplugPcs, StopPcs, JoinPcs, MotorsOf, OuterKinds,
         Return, threadVars
    <3>7. CASE ~ \/ PlugLock(c) \/ PlugNext(c) \/ TakeThreadLock(c, "stopThread", "stopScan")
                 \/ StopScan(c) \/ StopDevice(c) \/ StopCheck(c) \/ NotifyThread(c)
                 \/ SyncThread(c) \/ StopDone(c)
      <4>1. pc'[c] \notin UnplugPcs \/ Kind(c)' # "plugOut"
        BY <1>0, <1>5, <3>7 DEF CallerStep, StartStep, QueryCapacity, Admit, TakeThreadLock, Decide,
           QuietDevice, Launch, StartDone, DirectPlay, Return, StopStep, TakeManageLock, StopThreadOr,
           ModeStep, ModeLock, ModeNext, ModeQuiet, ModeDone, SessionStep, SessionLock, SessionNext,
           SessionDone, PlugStep, PlugErase, PlugInsert, PlugNotify, DeathStep, DeathLock, DeathNext,
           DeathDone, UnplugPcs, StopPcs, JoinPcs, KindInv, KindAt
      <4> QED
        BY <4>1
    <3> QED
      BY <3>1, <3>2, <3>3, <3>4, <3>5, <3>6, <3>7
  <2> QED
    BY <1>1, <2>1, <2>2 DEF PlugInv
<1>6. ASSUME NEW n \in Motors, MotorStep(n) \/ DeviceStep(n)
      PROVE  PlugInv'
  <2>1. ASSUME NEW d \in Callers
        PROVE  UnplugAt(d)'
    <3>1. ~PlugErase(d) /\ UNCHANGED <<pc, op, todo, outer>>
      BY <1>0, <1>6 DEF MotorStep, DeviceStep, callVars, PlugErase
    <3> QED
      BY <1>2, <3>1
  <2> QED
    BY <1>1, <2>1 DEF PlugInv
<1> QED
  BY <1>3, <1>4, <1>5, <1>6 DEF Next

\* While a death handler stops a motor nobody gives that motor a new record.
LEMMA DeathInvStep ==
  ASSUME IInv, [Next]_vars
  PROVE  DeathInv'
<1> DEFINE DeathAt(c) == (Kind(c) = "death" /\ pc[c] \in StopPcs \cup JoinPcs) =>
             /\ outer[c] # {}
             /\ current[First(outer[c])].pid \in {op[c].pid, NoPid}
<1> USE DEF IInv
<1>0. /\ pc \in [Callers -> Pcs] /\ op \in [Callers -> CallRecords]
      /\ todo \in [Callers -> SUBSET Motors] /\ outer \in [Callers -> SUBSET Motors]
      /\ current \in [Motors -> Infos \cup {NoInfo}]
  BY DEF TypeOK, ThreadTypeOK
<1>1. ASSUME NEW d \in Callers, pc'[d] = pc[d], pc[d] \in StopPcs \cup JoinPcs, Kind(d) = "death",
             NEW m \in Motors
      PROVE  current'[m] = current[m] \/ current'[m] = NoInfo
  <2>1. HoldsManage(d)
    BY <1>1 DEF HoldsManage
  <2>2. ASSUME NEW c \in Callers, Launch(c)
        PROVE  FALSE
    BY <1>0, <1>1, <2>1, <2>2 DEF Launch, LockInv, HoldsManage, ManagePcsHeld
  <2>3. ASSUME NEW c \in Callers, CallerStep(c)
        PROVE  current'[m] = current[m] \/ current'[m] = NoInfo
    <3>1. CASE NotifyThread(c) \/ SyncThread(c)
      BY <1>0, <3>1 DEF NotifyThread, NotifyExit, SyncThread, ExitSynced
    <3>2. CASE PlugErase(c) \/ PlugInsert(c)
      BY <1>0, <3>2 DEF PlugErase, PlugInsert, FreshRecords
    <3> QED
      BY <2>2, <2>3, <3>1, <3>2, ThreadEffects DEF threadVars
  <2>4. ASSUME NEW n \in Motors, MotorStep(n) \/ DeviceStep(n)
        PROVE  UNCHANGED current
    BY <2>4 DEF MotorStep, DeviceStep, DeviceEnds, ThreadStep, RunBegin, PlayDevice, PlayFails,
       ExitSeen, WaitTimeout, HandleMultipleVibrations, RunEnd, threadVars
  <2> QED
    BY <2>3, <2>4, Arrivals DEF Next, vars, threadVars
<1>2. ASSUME NEW d \in Callers, pc'[d] = pc[d], op'[d] = op[d], outer'[d] = outer[d]
      PROVE  DeathAt(d)'
  <2>1. SUFFICES ASSUME Kind(d) = "death", pc[d] \in StopPcs \cup JoinPcs
                 PROVE  DeathAt(d)'
    BY <1>2
  <2>2. outer[d] # {} /\ First(outer[d]) \in Motors
    BY <1>0, <2>1, FirstMotor DEF DeathInv
  <2> QED
    BY <1>1, <1>2, <2>1, <2>2, InfoFields DEF DeathInv
<1>3. CASE UNCHANGED vars
  BY <1>2, <1>3 DEF vars, callVars, DeathInv
<1>4. CASE Arrival
  <2>1. ASSUME NEW d \in Callers
        PROVE  DeathAt(d)'
    BY <1>2, <1>4, Arrivals, FirstPlaces DEF StopPcs, JoinPcs
  <2> QED
    BY <2>1 DEF DeathInv
<1>5. ASSUME NEW c \in Callers, CallerStep(c)
      PROVE  DeathInv'
  <2>1. ASSUME NEW d \in Callers, d # c
        PROVE  DeathAt(d)'
    BY <1>2, <1>5, <2>1, OtherCallers
  <2>2. DeathAt(c)'
    <3>1. CASE DeathNext(c)
      BY <1>0, <3>1 DEF DeathNext, StopPcs, JoinPcs, threadVars
    <3>2. CASE \/ TakeThreadLock(c, "stopThread", "stopScan") \/ StopScan(c) \/ StopDevice(c)
               \/ StopCheck(c) \/ NotifyThread(c)
      <4>1. UNCHANGED <<op, outer, current>> /\ (Kind(c) = "death" => pc[c] \in StopPcs \cup JoinPcs)
        BY <1>0, <3>2 DEF TakeThreadLock, StopScan, StopDevice, StopCheck, NotifyThread, NotifyExit,
           threadVars, serviceVars, StopPcs, JoinPcs
      <4> QED
        BY <4>1 DEF DeathInv
    <3>3. CASE SyncThread(c)
      <4>1. UNCHANGED <<op, outer>> /\ pc[c] = "sync"
        BY <3>3 DEF SyncThread, serviceVars
      <4>2. Kind(c) = "death" => outer[c] # {} /\ First(outer[c]) \in Motors
        BY <1>0, <4>1, FirstMotor DEF DeathInv, JoinPcs
      <4>3. \A m \in Motors : current'[m] = current[m] \/ current'[m] = NoInfo
        BY <1>0, <3>3 DEF SyncThread, ExitSynced
      <4> QED
        BY <4>1, <4>2, <4>3, InfoFields DEF DeathInv, JoinPcs
    <3>4. CASE ~ \/ DeathNext(c) \/ TakeThreadLock(c, "stopThread", "stopScan") \/ StopScan(c)
                 \/ StopDevice(c) \/ StopCheck(c) \/ NotifyThread(c) \/ SyncThread(c)
      <4>1. pc'[c] \notin StopPcs \cup JoinPcs \/ Kind(c)' # "death"
        BY <1>0, <1>5, <3>4 DEF CallerStep, StartStep, QueryCapacity, Admit, TakeThreadLock, Decide,
           QuietDevice, Launch, StartDone, DirectPlay, Return, StopStep, TakeManageLock, StopThreadOr,
           StopDone, OuterKinds, ModeStep, ModeLock, ModeNext, ModeQuiet, ModeDone, SessionStep,
           SessionLock, SessionNext, SessionDone, PlugStep, PlugLock, PlugNext, PlugErase, PlugInsert,
           PlugNotify, DeathStep, DeathLock, DeathDone, StopPcs, JoinPcs, KindInv, KindAt
      <4> QED
        BY <4>1
    <3> QED
      BY <3>1, <3>2, <3>3, <3>4
  <2> QED
    BY <2>1, <2>2 DEF DeathInv
<1>6. ASSUME NEW n \in Motors, MotorStep(n) \/ DeviceStep(n)
      PROVE  DeathInv'
  BY <1>2, <1>6 DEF MotorStep, DeviceStep, callVars, DeathInv
<1> QED
  BY <1>3, <1>4, <1>5, <1>6 DEF Next

\* The invariant is inductive: every step of the service keeps it.
THEOREM StepIInv == IInv /\ [Next]_vars => IInv'
<1> SUFFICES ASSUME IInv, [Next]_vars
             PROVE  IInv'
  OBVIOUS
<1>1. TypeOK' /\ LockInv' /\ KindInv' /\ TodoInv' /\ ExitInv'
  BY TypeStep, LockStep, KindStep, TodoStep, ExitStep
<1>2. QuietInv' /\ ThreadInv' /\ PlugInv' /\ DeathInv'
  BY QuietStep, ThreadInvStep, PlugInvStep, DeathInvStep
<1> QED
  BY <1>1, <1>2 DEF IInv

\* Every state the service gets to satisfies the invariant.
THEOREM ServiceInv == Spec => []IInv
<1> QED
  BY InitIInv, StepIInv, PTL DEF Spec

\* Every variable keeps its type: a motor's thread never counts more device calls
\* than its vibration has, and a handler only ever visits motors that exist.
THEOREM TypeCorrect == Spec => []TypeOK
<1>1. IInv => TypeOK
  BY DEF IInv
<1> QED
  BY <1>1, ServiceInv, PTL

\* StartVibrateThread (miscdevice_service.cpp) only ever starts a thread that has
\* ended, with its exit flag down: Thread::Start is not lost on a thread that
\* still runs, and the new vibration does not end itself in its first wait.
THEOREM CleanLaunch == Spec => []LaunchIsClean
<1>1. IInv => LaunchIsClean
  <2>1. SUFFICES ASSUME IInv, NEW c \in Callers, pc[c] = "launch"
                 PROVE  ~running[First(todo[c])] /\ ~exitFlag[First(todo[c])]
    BY DEF LaunchIsClean
  <2>2. ~running[First(todo[c])]
    BY <2>1 DEF IInv, QuietInv
  <2>3. First(todo[c]) \in Motors
    BY <2>1, FirstMotor DEF IInv, TypeOK, TodoInv
  <2>4. \A d \in Callers : pc[d] # "sync"
    BY <2>1 DEF IInv, LockInv, ThreadPcsHeld
  <2> QED
    BY <2>1, <2>2, <2>3, <2>4 DEF IInv, ExitInv
<1> QED
  BY <1>1, ServiceInv, PTL

\* While a motor's thread plays, the record the service consults for the priority
\* decision, the stop by mode and the death of a client is the one it plays.
THEOREM RecordIsPlayed == Spec => []ThreadPlaysRecord
<1>1. IInv => ThreadPlaysRecord
  BY DEF IInv, ThreadInv, ThreadPlaysRecord
<1> QED
  BY <1>1, ServiceInv, PTL

\* SendMsgToClient erases a device only when every thread of its motors has
\* ended, and none is started for a device that left devicesManageMap_.
THEOREM UnpluggedIsQuiet == Spec => []UnpluggedMotorQuiet
<1>1. IInv => UnpluggedMotorQuiet
  BY DEF IInv, ThreadInv, PlugInv, UnpluggedMotorQuiet
<1> QED
  BY <1>1, ServiceInv, PTL

\* ProcessDeathObserver compares the pid and stops the motor in two critical
\* sections of vibratorThreadMutex_; still it never stops another client.
THEOREM DeathIsSelective == Spec => []DeathStopsOnlyItsOwn
<1>1. IInv => DeathStopsOnlyItsOwn
  BY DEF IInv, DeathInv, DeathStopsOnlyItsOwn, StopPcs, JoinPcs
<1> QED
  BY <1>1, ServiceInv, PTL

--------------------------------------------------------------------------------
(* What the motors' devices play.                                           *)

\* A handler stays where it is, takes a step of its own, or begins.
LEMMA WhoMoves ==
  ASSUME IInv, [Next]_vars, NEW d \in Callers
  PROVE  \/ pc'[d] = pc[d] /\ op'[d] = op[d] /\ todo'[d] = todo[d] /\ outer'[d] = outer[d]
         \/ CallerStep(d)
         \/ /\ Arrival
            /\ pc[d] = "idle" /\ op'[d] \in Calls /\ op'[d].kind # "unmute"
            /\ pc'[d] = FirstPc(op'[d])
            /\ UNCHANGED <<threadVars, manageLock, threadLock, plugged, todo, outer>>
<1>1. CASE UNCHANGED vars
  BY <1>1 DEF vars, callVars
<1>2. CASE Arrival
  BY <1>2, Arrivals DEF IInv
<1>3. CASE \E c \in Callers : CallerStep(c)
  BY <1>3, OtherCallers DEF IInv
<1>4. CASE \E m \in Motors : MotorStep(m) \/ DeviceStep(m)
  BY <1>4 DEF MotorStep, DeviceStep, callVars
<1> QED
  BY <1>1, <1>2, <1>3, <1>4 DEF Next

\* The record of a thread that runs on is not replaced; a thread that starts has
\* the record of the request that starts it.
LEMMA RecordsKept ==
  ASSUME IInv, [Next]_vars, NEW m \in Motors, running'[m]
  PROVE  \/ running[m] /\ current'[m] = current[m]
         \/ \E c \in Callers : /\ Launch(c) /\ First(todo[c]) = m
                               /\ current'[m] = op[c].info /\ ~running[m]
<1> USE DEF IInv
<1>0. /\ running \in [Motors -> BOOLEAN] /\ current \in [Motors -> Infos \cup {NoInfo}]
      /\ todo \in [Callers -> SUBSET Motors]
  BY DEF TypeOK, ThreadTypeOK
<1>1. CASE UNCHANGED vars \/ Arrival
  BY <1>1, Arrivals DEF vars, threadVars
<1>2. ASSUME NEW n \in Motors, MotorStep(n) \/ DeviceStep(n)
      PROVE  running[m] /\ current'[m] = current[m]
  BY <1>0, <1>2 DEF MotorStep, DeviceStep, DeviceEnds, ThreadStep, RunBegin, PlayDevice, PlayFails,
     ExitSeen, WaitTimeout, HandleMultipleVibrations, RunEnd, threadVars
<1>3. ASSUME NEW c \in Callers, CallerStep(c), ~Launch(c)
      PROVE  running[m] /\ current'[m] = current[m]
  <2>1. CASE UNCHANGED threadVars \/ NotifyThread(c)
    BY <2>1 DEF threadVars, NotifyThread, NotifyExit
  <2>2. CASE SyncThread(c)
    BY <1>0, <2>2 DEF SyncThread, ExitSynced
  <2>3. CASE PlugErase(c)
    <3>1. DeviceOf[m] # op[c].device
      BY <2>3 DEF PlugErase, PlugInv, KindInv, KindAt, UnplugPcs, MotorsOf
    <3> QED
      BY <1>0, <2>3, <3>1 DEF PlugErase, FreshRecords
  <2>4. CASE PlugInsert(c)
    BY <1>0, <2>4 DEF PlugInsert, FreshRecords, PlugInv
  <2> QED
    BY <1>3, <2>1, <2>2, <2>3, <2>4, ThreadEffects
<1>4. ASSUME NEW c \in Callers, Launch(c)
      PROVE  \/ running[m] /\ current'[m] = current[m]
             \/ First(todo[c]) = m /\ current'[m] = op[c].info /\ ~running[m]
  BY <1>0, <1>4 DEF Launch, StartThread, QuietInv
<1> QED
  BY <1>1, <1>2, <1>3, <1>4 DEF Next

\* While a handler that stays where it is holds either lock, no thread starts and
\* no record of one that runs is replaced.
LEMMA HeldRecords ==
  ASSUME IInv, [Next]_vars, NEW d \in Callers, pc'[d] = pc[d],
         pc[d] \in ThreadPcsHeld \/ HoldsManage(d),
         NEW m \in Motors, running'[m]
  PROVE  running[m] /\ current'[m] = current[m]
<1>1. running[m]
  BY NoLaunch
<1> QED
  BY <1>1, RecordsKept

\* The same where the handler takes a step of its own.
LEMMA OwnRecords ==
  ASSUME IInv, [Next]_vars, NEW c \in Callers, CallerStep(c), ~Launch(c),
         NEW m \in Motors, running'[m]
  PROVE  running[m] /\ current'[m] = current[m]
<1> USE DEF IInv
<1>1. \A d \in Callers : ~Launch(d)
  <2>1. SUFFICES ASSUME NEW d \in Callers, Launch(d), d # c
                 PROVE  FALSE
    OBVIOUS
  <2>2. pc'[d] = pc[d]
    BY <2>1, OtherCallers
  <2> QED
    BY <2>1, <2>2 DEF Launch, TypeOK
<1> QED
  BY <1>1, RecordsKept

\* The map changes in a plug event only, under devicesManageMutex_.
LEMMA MapKept ==
  ASSUME IInv, [Next]_vars, NEW d \in Callers, pc'[d] = pc[d], HoldsManage(d)
  PROVE  plugged' = plugged
<1> USE DEF IInv
<1>1. CASE UNCHANGED vars \/ Arrival
  BY <1>1, Arrivals DEF vars, serviceVars
<1>2. CASE \E m \in Motors : MotorStep(m) \/ DeviceStep(m)
  BY <1>2 DEF MotorStep, DeviceStep, serviceVars
<1>3. ASSUME NEW c \in Callers, CallerStep(c)
      PROVE  plugged' = plugged
  <2>1. CASE PlugErase(c) \/ PlugInsert(c)
    <3>1. HoldsManage(c) /\ pc[c] # pc'[c]
      BY <2>1 DEF PlugErase, PlugInsert, HoldsManage, ManagePcsHeld, TypeOK
    <3> QED
      BY <3>1 DEF LockInv
  <2>2. CASE NotifyThread(c) \/ SyncThread(c) \/ Launch(c)
    BY <2>2 DEF NotifyThread, SyncThread, Launch, serviceVars
  <2> QED
    BY <1>3, <2>1, <2>2, ThreadEffects
<1> QED
  BY <1>1, <1>2, <1>3 DEF Next

\* What a handler does to the devices: nothing, or it stops some, or it sends a
\* pattern itself.
LEMMA DeviceEffects ==
  ASSUME IInv, NEW c \in Callers, CallerStep(c), ~DirectPlay(c)
  PROVE  hdi' \in [Motors -> Infos \cup {NoInfo}] /\ \A m \in Motors : hdi'[m] \in {hdi[m], Idle}
<1> USE DEF deviceVars
<1>0. hdi \in [Motors -> Infos \cup {NoInfo}]
  BY DEF IInv, TypeOK, ThreadTypeOK
<1>1. ASSUME NEW m, NEW kinds, DeviceStop(m, kinds)
      PROVE  hdi' \in [Motors -> Infos \cup {NoInfo}] /\ \A n \in Motors : hdi'[n] \in {hdi[n], Idle}
  BY <1>0, <1>1 DEF DeviceStop, AfterStop, Idle
<1>2. CASE StartStep(c) \/ NotifyThread(c) \/ SyncThread(c)
  BY <1>0, <1>1, <1>2 DEF StartStep, QueryCapacity, Admit, TakeThreadLock, Decide,
     QuietDevice, Launch,
     StartDone, NotifyThread, SyncThread
<1>3. CASE StopStep(c)
  BY <1>0, <1>1, <1>3 DEF StopStep, TakeManageLock, TakeThreadLock, StopScan, StopDevice,
     StopCheck, StopDone
<1>4. CASE ModeStep(c)
  BY <1>0, <1>1, <1>4 DEF ModeStep, ModeLock, TakeThreadLock, ModeNext, ModeQuiet, ModeDone
<1>5. CASE SessionStep(c)
  BY <1>0, <1>5 DEF SessionStep, SessionLock, SessionNext, SessionDone, Idle
<1>6. CASE PlugStep(c) \/ DeathStep(c)
  BY <1>0, <1>6 DEF PlugStep, PlugLock, PlugNext, PlugErase, PlugInsert, PlugNotify, DeathStep,
     DeathLock, DeathNext, DeathDone
<1> QED
  BY <1>2, <1>3, <1>4, <1>5, <1>6 DEF CallerStep

-------------------------------------------------------------------------------
\* A default record suits every motor.
LEMMA NothingSuits == \A m : Suits(NoInfo, m)
BY DEF Suits, NoInfo, Composite

\* What ShouldProcess lets through suits the motor.
LEMMA ProcessedSuits ==
  ASSUME NEW info, NEW m, ShouldProcess(info, m)
  PROVE  Suits(info, m)
BY DEF ShouldProcess, Suits, SpecialModes, Composite

\* A record that is new to a motor is nobody's, or that of the request whose
\* thread is launched.
LEMMA NewRecords ==
  ASSUME IInv, [Next]_vars, NEW m \in Motors
  PROVE  \/ current'[m] \in {current[m], NoInfo}
         \/ \E c \in Callers : /\ Launch(c) /\ First(todo[c]) = m
                               /\ current'[m] = op[c].info
<1> USE DEF IInv
<1>0. /\ current \in [Motors -> Infos \cup {NoInfo}] /\ todo \in [Callers -> SUBSET Motors]
  BY DEF TypeOK, ThreadTypeOK
<1>1. CASE UNCHANGED vars \/ Arrival
  BY <1>1, Arrivals DEF vars, threadVars
<1>2. CASE \E n \in Motors : MotorStep(n) \/ DeviceStep(n)
  BY <1>2 DEF MotorStep, DeviceStep, DeviceEnds, ThreadStep, RunBegin, PlayDevice, PlayFails,
     ExitSeen, WaitTimeout, HandleMultipleVibrations, RunEnd, threadVars
<1>3. ASSUME NEW c \in Callers, CallerStep(c)
      PROVE  \/ current'[m] \in {current[m], NoInfo}
             \/ Launch(c) /\ First(todo[c]) = m /\ current'[m] = op[c].info
  <2>1. CASE SyncThread(c) \/ NotifyThread(c) \/ PlugErase(c) \/ PlugInsert(c)
    BY <1>0, <2>1 DEF SyncThread, ExitSynced, NotifyThread, NotifyExit, PlugErase,
       PlugInsert, FreshRecords
  <2>2. CASE Launch(c)
    BY <1>0, <2>2 DEF Launch, StartThread
  <2> QED
    BY <1>3, <2>1, <2>2, ThreadEffects DEF threadVars
<1> QED
  BY <1>1, <1>2, <1>3 DEF Next

\* What a motor's thread copies, and what it sends to the device.
LEMMA MotorEffects ==
  ASSUME IInv, [Next]_vars, NEW m \in Motors
  PROVE  /\ local'[m] \in {local[m], current[m], NoInfo}
         /\ \/ hdi'[m] \in {hdi[m], Idle, local[m]}
            \/ \E c \in Callers : DirectPlay(c) /\ hdi'[m] = op[c].info
<1> USE DEF IInv
<1>0. /\ local \in [Motors -> Infos \cup {NoInfo}] /\ hdi \in [Motors -> Infos \cup {NoInfo}]
  BY DEF TypeOK, ThreadTypeOK
<1>1. CASE UNCHANGED vars
  BY <1>1 DEF vars, threadVars, deviceVars
<1>2. CASE Arrival
  <2>1. local' = local
    BY <1>2, Arrivals DEF threadVars
  <2>2. hdi'[m] \in {hdi[m], Idle}
    BY <1>0, <1>2 DEF Arrival, ClientCall, MuteCallback, PlugEvent, DeathNotice, UnmuteCallback,
       TransferClientRemoteObject, DisableOrEnableVibratorByPid, deviceVars, Idle
  <2> QED
    BY <2>1, <2>2
<1>3. ASSUME NEW n \in Motors, MotorStep(n) \/ DeviceStep(n)
      PROVE  local'[m] \in {local[m], current[m], NoInfo} /\ hdi'[m] \in {hdi[m], Idle, local[m]}
  <2>1. CASE DeviceStep(n)
    BY <1>0, <2>1 DEF DeviceStep, DeviceEnds, threadVars
  <2>2. CASE RunBegin(n) \/ PlayFails(n) \/ WaitTimeout(n) \/ RunEnd(n)
    BY <1>0, <2>2 DEF RunBegin, PlayFails, WaitTimeout, RunEnd, deviceVars
  <2>3. CASE PlayDevice(n)
    BY <1>0, <2>3 DEF PlayDevice
  <2>4. CASE ExitSeen(n) \/ HandleMultipleVibrations(n)
    BY <1>0, <2>4 DEF ExitSeen, HandleMultipleVibrations, DeviceStop, AfterStop
  <2> QED
    BY <1>3, <2>1, <2>2, <2>3, <2>4 DEF MotorStep, ThreadStep
<1>4. ASSUME NEW c \in Callers, CallerStep(c)
      PROVE  /\ local' = local
             /\ \/ hdi'[m] \in {hdi[m], Idle}
                \/ DirectPlay(c) /\ hdi'[m] = op[c].info
  <2>1. local' = local
    BY <1>4, ThreadEffects DEF threadVars, NotifyThread, NotifyExit, SyncThread, ExitSynced,
       Launch, StartThread, PlugErase, PlugInsert
  <2>2. CASE DirectPlay(c)
    BY <2>1, <2>2 DEF DirectPlay
  <2> QED
    BY <1>4, <2>1, <2>2, DeviceEffects
<1> QED
  BY <1>1, <1>2, <1>3, <1>4 DEF Next

\* A start processes a motor its event indices select, and PlayPattern sends a
\* pattern without indices.
LEMMA PlaceStep ==
  ASSUME IInv, PlaceInv, [Next]_vars
  PROVE  PlaceInv'
<1> USE DEF IInv
<1>0. /\ pc \in [Callers -> Pcs] /\ op \in [Callers -> CallRecords]
      /\ todo \in [Callers -> SUBSET Motors] /\ allIgnored \in [Callers -> BOOLEAN]
  BY DEF TypeOK
<1>1. ASSUME NEW m \in Motors
      PROVE  Suits(current'[m], m)
  BY NewRecords, NothingSuits DEF PlaceInv, TakesOver, Launch, KindInv, KindAt
<1>2. ASSUME NEW m \in Motors
      PROVE  Suits(local'[m], m) /\ Suits(hdi'[m], m)
  <2>1. Suits(local'[m], m)
    BY MotorEffects, NothingSuits DEF PlaceInv
  <2>2. ASSUME NEW c \in Callers, DirectPlay(c), hdi'[m] = op[c].info
        PROVE  Suits(hdi'[m], m)
    BY <2>2 DEF DirectPlay, PlaceInv, Suits, Composite
  <2> QED
    BY <2>1, <2>2, MotorEffects, NothingSuits DEF PlaceInv, Idle
<1>3. ASSUME NEW d \in Callers
      PROVE  /\ TakesOver(d)' => Suits(op'[d].info, First(todo'[d]))
             /\ pc'[d] = "direct" => op'[d].info.mode = "butt"
  <2>1. CASE pc'[d] = pc[d] /\ op'[d] = op[d] /\ todo'[d] = todo[d]
    BY <2>1 DEF PlaceInv, TakesOver
  <2>2. CASE CallerStep(d)
    <3>1. CASE Decide(d)
      BY <1>0, <3>1, ProcessedSuits DEF Decide, TakesOver, StopThreadOr
    <3>2. CASE QuietDevice(d) \/ NotifyThread(d) \/ SyncThread(d)
      BY <1>0, <3>2 DEF QuietDevice, NotifyThread, SyncThread, PlaceInv, TakesOver, KindInv, KindAt
    <3>3. CASE QueryCapacity(d) \/ Admit(d) \/ TakeThreadLock(d, "admitThread", "start") \/ Launch(d)
               \/ StartDone(d) \/ DirectPlay(d)
      BY <1>0, <3>3 DEF QueryCapacity, Admit, TakeThreadLock, Launch, StartDone, DirectPlay,
         Return, TakesOver
    <3>4. CASE StopStep(d) \/ ModeStep(d)
      BY <1>0, <3>4 DEF StopStep, TakeManageLock, TakeThreadLock, StopScan, StopDevice, StopCheck,
         StopDone, StopThreadOr, Return, ModeStep, ModeLock, ModeNext, ModeQuiet, ModeDone,
         TakesOver, KindInv, KindAt, StopKinds, StopPcs
    <3>5. CASE SessionStep(d) \/ PlugStep(d) \/ DeathStep(d)
      BY <1>0, <3>5 DEF SessionStep, SessionLock, SessionNext, SessionDone, PlugStep,
         PlugLock, PlugNext,
         PlugErase, PlugInsert, PlugNotify, DeathStep, DeathLock, DeathNext, DeathDone, Return, TakesOver
    <3> QED
      BY <2>2, <3>1, <3>2, <3>3, <3>4, <3>5 DEF CallerStep, StartStep
  <2>3. CASE op'[d] \in Calls /\ op'[d].kind # "unmute" /\ pc'[d] = FirstPc(op'[d])
    BY <2>3, FirstPlaces DEF TakesOver
  <2> QED
    BY <2>1, <2>2, <2>3, WhoMoves
<1> QED
  BY <1>1, <1>2, <1>3 DEF PlaceInv

\* StartVibrateThreadControl asks ShouldProcess for every motor before it stops
\* or starts anything on it: a vibration with event indices never plays, and
\* never ends another, on a motor that it does not name.
THEOREM PlayedInPlace == Spec => []PlaysWhereAsked
<1>1. Init => PlaceInv
  <2> SUFFICES ASSUME Init
               PROVE  PlaceInv
    OBVIOUS
  <2>1. \A m \in Motors : hdi[m] = NoInfo /\ local[m] = NoInfo /\ current[m] = NoInfo
    BY DEF Init, ThreadInit, Idle
  <2>2. \A c \in Callers : pc[c] = "idle"
    BY DEF Init
  <2> QED
    BY <2>1, <2>2, NothingSuits DEF PlaceInv, TakesOver
<1>2. PlaceInv => PlaysWhereAsked
  BY DEF PlaceInv, PlaysWhereAsked, Suits
<1> QED
  BY <1>1, <1>2, PlaceStep, ServiceInv, PTL DEF Spec

-------------------------------------------------------------------------------
\* Without HD haptics no mode is one that is played otherwise.
LEMMA PlainModes ==
  ASSUME Nominal, NEW asked, NEW target
  PROVE  ResolvedMode(asked, CapacityOf(target)) \notin HdModes
<1> DEFINE M == IF target.device = AnyId THEN MotorsOf(plugged) \cap Local
                ELSE MotorsOf(plugged \cap {target.device})
<1>1. CapacityOf(target) \in {"mapping", "delay", "none"}
  <2>1. CASE M = {}
    BY <2>1 DEF CapacityOf
  <2>2. CASE M # {}
    <3>1. First(M) \in Motors
      BY <2>2, FirstMotor DEF MotorsOf
    <3> QED
      BY <2>2, <3>1, ServiceAssumption DEF CapacityOf, Nominal, ServiceAssumption
  <2> QED
    BY <2>1, <2>2
<1> QED
  BY <1>1 DEF ResolvedMode, HdModes

\* Nor is it in a call as it arrives.
LEMMA PlainCalls ==
  ASSUME NEW call \in Calls, call.kind = "start"
  PROVE  call.info.mode \notin HdModes
<1>1. ASSUME NEW R, NEW x \in StartsOf(R)
      PROVE  x.info \in R
  <2>1. PICK t \in Targets, i \in R : x = StartCall(t, i)
    BY <1>1 DEF StartsOf
  <2> QED
    BY <2>1 DEF StartCall, NoCall
<1>2. CASE call \in StartCalls
  BY <1>1, <1>2 DEF StartCalls, VibrateCalls, PlayVibratorEffectCalls, PlayVibratorCustomCalls,
     PlayPatternCalls, HdModes
<1>3. CASE call \in StopCalls \cup SessionCalls
  BY <1>3 DEF StopCalls, SessionCalls, NoCall
<1>4. CASE call \in MuteCalls \cup DeathCalls
  BY <1>4 DEF MuteCalls, DeathCalls, NoCall
<1>5. CASE call \in ModeCalls
  <2>1. PICK t \in Targets, md \in {"time", "preset"} : call = ModeCall(t, md)
    BY <1>5 DEF ModeCalls
  <2> QED
    BY <2>1 DEF ModeCall, NoCall
<1>6. CASE call \in PlugCalls
  <2>1. PICK k \in {"plugIn", "plugOut"}, d \in Devices : call = PlugCall(k, d)
    BY <1>6 DEF PlugCalls
  <2> QED
    BY <2>1 DEF PlugCall, NoCall
<1> QED
  BY <1>2, <1>3, <1>4, <1>5, <1>6 DEF Calls

\* The empty record is no HD vibration.
LEMMA NothingPlain == NoInfo.mode \notin HdModes
BY DEF NoInfo, HdModes

\* Every step keeps PlainInv.
LEMMA PlainStep ==
  ASSUME Nominal, IInv, PlaceInv, PlainInv, [Next]_vars
  PROVE  PlainInv'
<1> USE DEF IInv
<1>0. op \in [Callers -> CallRecords]
  BY DEF TypeOK
<1>1. ASSUME NEW m \in Motors
      PROVE  current'[m].mode \notin HdModes
  <2>1. ASSUME NEW c \in Callers, Launch(c), current'[m] = op[c].info
        PROVE  current'[m].mode \notin HdModes
    BY <2>1 DEF PlainInv, Launch, KindInv, KindAt
  <2> QED
    BY <2>1, NewRecords, NothingPlain DEF PlainInv
<1>2. ASSUME NEW m \in Motors
      PROVE  local'[m].mode \notin HdModes /\ hdi'[m].mode \notin HdModes
  <2>1. \A c \in Callers : ~DirectPlay(c)
    BY DEF DirectPlay, PlainInv, PlaceInv, KindInv, KindAt, HdModes
  <2> QED
    BY <2>1, MotorEffects, NothingPlain DEF PlainInv, Idle
<1>3. ASSUME NEW d \in Callers, op'[d].kind = "start"
      PROVE  op'[d].info.mode \notin HdModes
  <2>1. CASE op'[d] = op[d]
    BY <1>3, <2>1 DEF PlainInv
  <2>2. CASE CallerStep(d) /\ op'[d] # op[d]
    <3>1. CASE QueryCapacity(d)
      <4>1. op'[d].info.mode = ResolvedMode(op[d].info.mode, CapacityOf(op[d].target))
        BY <1>0, <3>1 DEF QueryCapacity, KindInv, KindAt, CallRecords, Infos
      <4> QED
        BY <4>1, PlainModes
    <3>2. Return(d) => op'[d].kind # "start"
      BY <1>0, CallTypes DEF Return
    <3>3. CASE StartStep(d) /\ ~QueryCapacity(d)
      BY <1>3, <2>2, <3>2, <3>3 DEF StartStep, Admit, TakeThreadLock, Decide, QuietDevice, Launch,
         StartDone, DirectPlay
    <3>4. CASE NotifyThread(d) \/ SyncThread(d) \/ StopStep(d)
      BY <1>3, <2>2, <3>2, <3>4 DEF NotifyThread, SyncThread, StopStep, TakeManageLock,
         TakeThreadLock,
         StopScan, StopDevice, StopCheck, StopDone
    <3>5. CASE ModeStep(d) \/ SessionStep(d)
      BY <1>3, <2>2, <3>2, <3>5 DEF ModeStep, ModeLock, TakeThreadLock, ModeNext, ModeQuiet,
         ModeDone,
         SessionStep, SessionLock, SessionNext, SessionDone
    <3>6. CASE PlugStep(d) \/ DeathStep(d)
      BY <1>3, <2>2, <3>2, <3>6 DEF PlugStep, PlugLock, PlugNext, PlugErase, PlugInsert, PlugNotify,
         DeathStep, DeathLock, DeathNext, DeathDone
    <3> QED
      BY <2>2, <3>1, <3>3, <3>4, <3>5, <3>6 DEF CallerStep
  <2>3. CASE op'[d] \in Calls
    BY <1>3, <2>3, PlainCalls
  <2> QED
    BY <2>1, <2>2, <2>3, WhoMoves
<1> QED
  BY <1>1, <1>2, <1>3 DEF PlainInv

\* A device plays from the call of PlayDevice to the end of the wait, whether it
\* ends the vibration itself or is stopped; a pattern that PlayPattern sends it
\* takes the place of what it plays.
LEMMA WaitedStep ==
  ASSUME IInv, PlaceInv, WaitedInv, [Next]_vars
  PROVE  WaitedInv'
<1> USE DEF IInv
<1>0. /\ hdi \in [Motors -> Infos \cup {NoInfo}] /\ local \in [Motors -> Infos \cup {NoInfo}]
      /\ tpc \in [Motors -> ThreadPcs]
  BY DEF TypeOK, ThreadTypeOK
<1>a. \A m \in Motors : hdi[m] # Idle /\ Waited(hdi[m]) => tpc[m] = "wait" /\ hdi[m] = local[m]
  BY DEF WaitedInv, Heard
<1>b. SUFFICES \A m \in Motors :
                 hdi'[m] # Idle /\ Waited(hdi'[m]) => tpc'[m] = "wait" /\ hdi'[m] = local'[m]
  BY DEF WaitedInv, Heard
<1>1. ASSUME NEW m \in Motors,
             hdi'[m] \in {hdi[m], Idle} \/ ~Waited(hdi'[m]),
             tpc[m] = "wait" => tpc'[m] = tpc[m] /\ local'[m] = local[m]
      PROVE  hdi'[m] # Idle /\ Waited(hdi'[m]) => tpc'[m] = "wait" /\ hdi'[m] = local'[m]
  BY <1>a, <1>1
<1>2. CASE UNCHANGED vars
  BY <1>1, <1>2 DEF vars, threadVars, deviceVars
<1>3. CASE Arrival
  <2>1. UNCHANGED <<tpc, local>>
    BY <1>3, Arrivals DEF threadVars
  <2>2. \A m \in Motors : hdi'[m] \in {hdi[m], Idle}
    BY <1>0, <1>3 DEF Arrival, ClientCall, MuteCallback, PlugEvent, DeathNotice, UnmuteCallback,
       TransferClientRemoteObject, DisableOrEnableVibratorByPid, deviceVars, Idle
  <2> QED
    BY <1>1, <2>1, <2>2
<1>4. ASSUME NEW c \in Callers, CallerStep(c), NEW m \in Motors
      PROVE  hdi'[m] # Idle /\ Waited(hdi'[m]) => tpc'[m] = "wait" /\ hdi'[m] = local'[m]
  <2>1. local' = local
    BY <1>4, ThreadEffects DEF threadVars, NotifyThread, NotifyExit, SyncThread, ExitSynced,
       Launch, StartThread, PlugErase, PlugInsert
  <2>2. tpc[m] = "wait" => tpc'[m] = tpc[m]
    BY <1>0, <1>4, ThreadEffects DEF threadVars, NotifyThread, NotifyExit, SyncThread, ExitSynced,
       Launch, StartThread, PlugErase, PlugInsert, QuietInv, ThreadInv
  <2>3. CASE DirectPlay(c)
    <3>1. op[c].info.mode = "butt" /\ ~Waited(op[c].info)
      BY <2>3 DEF DirectPlay, PlaceInv, Waited, HdModes
    <3>2. hdi'[m] = hdi[m] \/ ~Waited(hdi'[m])
      BY <2>3, <3>1 DEF DirectPlay
    <3> QED
      BY <1>1, <2>1, <2>2, <3>2
  <2>4. CASE ~DirectPlay(c)
    BY <1>1, <1>4, <2>1, <2>2, <2>4, DeviceEffects
  <2> QED
    BY <2>3, <2>4
<1>5. ASSUME NEW n \in Motors, MotorStep(n) \/ DeviceStep(n), NEW m \in Motors
      PROVE  hdi'[m] # Idle /\ Waited(hdi'[m]) => tpc'[m] = "wait" /\ hdi'[m] = local'[m]
  <2>1. CASE DeviceStep(n)
    <3>1. hdi'[m] \in {hdi[m], Idle} /\ UNCHANGED <<tpc, local>>
      BY <1>0, <2>1 DEF DeviceStep, DeviceEnds, threadVars
    <3> QED
      BY <1>1, <3>1
  <2>2. CASE m # n /\ MotorStep(n)
    <3>1. hdi'[m] = hdi[m] /\ tpc'[m] = tpc[m] /\ local'[m] = local[m]
      BY <1>0, <2>2 DEF MotorStep, ThreadStep, RunBegin, PlayDevice, PlayFails, ExitSeen,
         DeviceStop,
         WaitTimeout, HandleMultipleVibrations, RunEnd, Goto, deviceVars
    <3> QED
      BY <1>1, <3>1
  <2>3. CASE m = n /\ (RunBegin(n) \/ PlayFails(n) \/ RunEnd(n))
    <3>1. tpc[m] # "wait" /\ hdi'[m] = hdi[m]
      BY <2>3 DEF RunBegin, PlayFails, RunEnd, deviceVars
    <3> QED
      BY <1>1, <3>1
  <2>4. CASE m = n /\ PlayDevice(n)
    <3>1. /\ hdi'[m] = local[m] /\ local'[m] = local[m]
          /\ tpc'[m] = "wait" \/ local[m].mode = "custom.hd"
      BY <1>0, <2>4 DEF PlayDevice, Goto
    <3>2. local[m].mode = "custom.hd" => ~Waited(local[m])
      BY DEF Waited, HdModes
    <3> QED
      BY <3>1, <3>2
  <2>5. CASE m = n /\ ExitSeen(n)
    <3>1. hdi'[m] = AfterStop(m, {HdiModeOf(local[m].mode)}) /\ tpc[m] \in {"wait", "play"}
      BY <1>0, <2>5 DEF ExitSeen, DeviceStop
    <3>2. hdi[m] = local[m] => hdi'[m] = Idle
      BY <3>1 DEF AfterStop
    <3>3. hdi'[m] \in {hdi[m], Idle}
      BY <3>1 DEF AfterStop
    <3> QED
      BY <1>a, <3>2, <3>3
  <2>6. CASE m = n /\ WaitTimeout(n)
    <3>1. /\ hdi'[m] = hdi[m]
          /\ \/ hdi[m] # local[m]
             \/ local[m].mode = "custom.hd"
             \/ Overrun /\ local[m].mode # "time"
      BY <2>6 DEF WaitTimeout, deviceVars
    <3>2. hdi[m] # local[m] \/ ~Waited(hdi[m])
      BY <3>1 DEF Waited, HdModes
    <3> QED
      BY <1>a, <3>1, <3>2
  <2>7. CASE m = n /\ HandleMultipleVibrations(n)
    <3>1. tpc[m] = "quiet" /\ hdi'[m] \in {hdi[m], Idle}
      BY <1>0, <2>7 DEF HandleMultipleVibrations, DeviceStop, AfterStop
    <3> QED
      BY <1>1, <3>1
  <2> QED
    BY <1>5, <2>1, <2>2, <2>3, <2>4, <2>5, <2>6, <2>7 DEF MotorStep, ThreadStep
<1> QED
  BY <1>2, <1>3, <1>4, <1>5 DEF Next

\* Without HD haptics and devices that overrun, every vibration is waited for.
LEMMA AllWaited ==
  ASSUME Nominal, PlainInv
  PROVE  /\ \A m \in Motors : Heard(m) = hdi[m]
         /\ WaitedInv => DeviceInv
<1>1. \A m \in Motors : Waited(hdi[m])
  BY DEF Nominal, PlainInv, Waited
<1> QED
  BY <1>1 DEF Heard, WaitedInv, DeviceInv

-------------------------------------------------------------------------------
\* A motor is chosen, or not, whatever other devices are in the map.
LEMMA ChosenByDevice ==
  ASSUME NEW target, NEW D, NEW E, NEW m \in CheckDeviceIdIsValid(target, D), DeviceOf[m] \in E
  PROVE  m \in CheckDeviceIdIsValid(target, E)
<1>1. CASE target.device = AnyId
  <2>1. PICK d \in D : m \in SelectedOn(d, target.vibrator)
    BY <1>1 DEF CheckDeviceIdIsValid
  <2>2. d = DeviceOf[m]
    BY <2>1 DEF SelectedOn, MotorsOf
  <2> QED
    BY <1>1, <2>1, <2>2 DEF CheckDeviceIdIsValid
<1>2. CASE target.device # AnyId
  BY <1>2 DEF CheckDeviceIdIsValid, MotorsOf
<1> QED
  BY <1>1, <1>2

\* StopVibratorService leaves a motor alone that is quiet, or joins its thread;
\* its vibratorThreadMutex_ keeps others from starting one.
LEMMA StopStepped ==
  ASSUME IInv, StopInv, [Next]_vars
  PROVE  StopInv'
<1> DEFINE Stopping == {"stopLoop", "stopCheck", "notify", "sync"}
           Chosen(d) == CheckDeviceIdIsValid(StopTarget(d), plugged)
<1> USE DEF IInv
<1>0. /\ pc \in [Callers -> Pcs] /\ op \in [Callers -> CallRecords]
      /\ todo \in [Callers -> SUBSET Motors] /\ outer \in [Callers -> SUBSET Motors]
      /\ running \in [Motors -> BOOLEAN]
  BY DEF TypeOK, ThreadTypeOK
<1> SUFFICES ASSUME NEW d \in Callers, op'[d].kind \in StopKinds, pc'[d] \in Stopping,
                    NEW m \in Motors, m \in Chosen(d)', m \notin todo'[d]
             PROVE  ~running'[m]
  BY ChosenMotors DEF StopInv, MotorsOf
<1>1. CASE DeviceOf[m] \notin plugged'
  BY <1>1, UnpluggedStep
<1>2. CASE DeviceOf[m] \notin plugged /\ DeviceOf[m] \in plugged'
  <2>1. ~running[m]
    BY <1>2 DEF PlugInv
  <2>2. PICK c \in Callers : PlugInsert(c)
    <3>1. CASE UNCHANGED vars \/ Arrival
      BY <1>2, <3>1, Arrivals DEF vars, serviceVars
    <3>2. CASE \E n \in Motors : MotorStep(n) \/ DeviceStep(n)
      BY <1>2, <3>2 DEF MotorStep, DeviceStep, serviceVars
    <3>3. ASSUME NEW c \in Callers, CallerStep(c)
          PROVE  PlugInsert(c)
      BY <1>2, <3>3, ThreadEffects DEF NotifyThread, SyncThread, Launch, PlugErase, serviceVars
    <3> QED
      BY <3>1, <3>2, <3>3 DEF Next
  <2> QED
    BY <2>1, <2>2 DEF PlugInsert
<1>3. CASE DeviceOf[m] \in plugged
  <2>1. CASE pc'[d] = pc[d] /\ op'[d] = op[d] /\ todo'[d] = todo[d] /\ outer'[d] = outer[d]
    <3>1. Chosen(d)' = CheckDeviceIdIsValid(StopTarget(d), plugged')
      BY <2>1 DEF StopTarget, CheckDeviceIdIsValid, SelectedOn, MotorsOf
    <3>2. m \in Chosen(d)
      BY <1>3, <3>1, ChosenByDevice
    <3>3. ~running[m]
      BY <2>1, <3>2 DEF StopInv
    <3> QED
      BY <2>1, <3>3, NoLaunch DEF ThreadPcsHeld
  <2>2. CASE CallerStep(d)
    <3>1. CASE StopScan(d)
      <4>1. Chosen(d)' = Chosen(d)
        BY <3>1 DEF StopScan, StopTarget, serviceVars, CheckDeviceIdIsValid, SelectedOn, MotorsOf
      <4> QED
        BY <1>0, <3>1, <4>1 DEF StopScan
    <3>2. ASSUME pc[d] \in Stopping, UNCHANGED <<op, outer, plugged>>, running' = running,
                 \/ todo'[d] = todo[d]
                 \/ todo'[d] = todo[d] \ {First(todo[d])} /\ ~running[First(todo[d])]
          PROVE  ~running'[m]
      <4>1. Chosen(d)' = Chosen(d)
        BY <3>2 DEF StopTarget, CheckDeviceIdIsValid, SelectedOn, MotorsOf
      <4> QED
        BY <3>2, <4>1 DEF StopInv
    <3>3. CASE StopDevice(d)
      <4>1. DeviceOf[First(todo[d])] \notin plugged => ~running[First(todo[d])]
        BY <1>0, <3>3, FirstMotor DEF StopDevice, PlugInv
      <4> QED
        BY <1>0, <3>2, <3>3, <4>1 DEF StopDevice, Visited, IsCurrentVibrate, threadVars, serviceVars
    <3>4. CASE StopCheck(d)
      BY <1>0, <3>2, <3>4 DEF StopCheck, StopThreadOr, Visited, threadVars, serviceVars
    <3>5. CASE NotifyThread(d)
      BY <1>0, <3>2, <3>5 DEF NotifyThread, NotifyExit, serviceVars
    <3>6. CASE SyncThread(d)
      BY <1>0, <3>2, <3>6 DEF SyncThread, ExitSynced, Visited, serviceVars, StopKinds
    <3>7. CASE StartStep(d)
      BY <1>0, <3>7 DEF StartStep, QueryCapacity, Admit, TakeThreadLock, Decide,
         StopThreadOr, QuietDevice,
         Launch, StartDone, DirectPlay, Return, KindInv, KindAt, StopKinds, NoCall
    <3>8. CASE \/ TakeManageLock(d, "stopManage", "stopThread")
               \/ TakeThreadLock(d, "stopThread", "stopScan") \/ StopDone(d)
      BY <1>0, <3>8 DEF TakeManageLock, TakeThreadLock, StopDone, Return
    <3>9. CASE ModeStep(d)
      BY <1>0, <3>9 DEF ModeStep, ModeLock, TakeThreadLock, ModeNext, StopThreadOr,
         ModeQuiet, ModeDone,
         Return, KindInv, KindAt, StopKinds
    <3>10. CASE SessionStep(d) \/ PlugStep(d) \/ DeathStep(d)
      BY <1>0, <3>10 DEF SessionStep, SessionLock, SessionNext, SessionDone, PlugStep,
         PlugLock, PlugNext,
         PlugErase, PlugInsert, PlugNotify, DeathStep, DeathLock, DeathNext, DeathDone, Return
    <3> QED
      BY <2>2, <3>1, <3>3, <3>4, <3>5, <3>6, <3>7, <3>8, <3>9, <3>10 DEF CallerStep, StopStep
  <2>3. CASE op'[d] \in Calls /\ op'[d].kind # "unmute" /\ pc'[d] = FirstPc(op'[d])
    BY <2>3, FirstPlaces
  <2> QED
    BY <2>1, <2>2, <2>3, WhoMoves
<1> QED
  BY <1>1, <1>2, <1>3

-------------------------------------------------------------------------------
\* What the decision saw is still so when the motor is taken over: the handler
\* has held vibratorThreadMutex_ since.
LEMMA AlarmStep ==
  ASSUME IInv, AlarmInv, [Next]_vars
  PROVE  AlarmInv'
<1> USE DEF IInv
<1>0. /\ pc \in [Callers -> Pcs] /\ op \in [Callers -> CallRecords]
      /\ todo \in [Callers -> SUBSET Motors] /\ running \in [Motors -> BOOLEAN]
  BY DEF TypeOK, ThreadTypeOK
<1> SUFFICES ASSUME NEW d \in Callers, TakesOver(d)', ~IsLoopVibrate(op'[d].info),
                    First(todo'[d]) \in Local, running'[First(todo'[d])]
             PROVE  current'[First(todo'[d])].usage # "alarm"
  BY DEF AlarmInv
<1>1. CASE pc'[d] = pc[d] /\ op'[d] = op[d] /\ todo'[d] = todo[d] /\ outer'[d] = outer[d]
  <2>1. TakesOver(d) /\ pc[d] \in ThreadPcsHeld /\ First(todo[d]) \in Motors
    BY <1>0, <1>1, FirstMotor DEF TakesOver, ThreadPcsHeld, TodoInv
  <2>2. running[First(todo[d])] /\ current'[First(todo[d])] = current[First(todo[d])]
    BY <1>1, <2>1, HeldRecords
  <2> QED
    BY <1>1, <2>1, <2>2 DEF AlarmInv
<1>2. CASE CallerStep(d)
  <2>1. CASE Decide(d)
    <3>1. op'[d] = op[d] /\ todo'[d] = todo[d] /\ running' = running /\ current' = current
      BY <1>0, <2>1 DEF Decide, TakesOver, threadVars
    <3>2. PICK s \in SettingsChoices :
            ~ShouldIgnoreVibrate(op[d].info, [s EXCEPT !.mute = muted],
                                 IsCurrentVibrate(First(todo[d])), current[First(todo[d])])
      BY <1>0, <2>1, <3>1 DEF Decide, TakesOver
    <3>3. IsCurrentVibrate(First(todo[d]))
      BY <3>1 DEF IsCurrentVibrate
    <3>4. CurrentVerdict(op[d].info, current[First(todo[d])]) = "VIBRATION"
      BY <3>1, <3>2, <3>3 DEF ShouldIgnoreVibrate, Verdict
    <3> QED
      BY <3>1, <3>4 DEF CurrentVerdict
  <2>2. CASE NotifyThread(d)
    BY <1>0, <2>2 DEF NotifyThread, NotifyExit, AlarmInv, TakesOver
  <2>3. CASE SyncThread(d)
    BY <1>0, <2>3 DEF SyncThread, ExitSynced, TakesOver, StopKinds, KindInv, KindAt
  <2>4. CASE QuietDevice(d)
    BY <1>0, <2>4 DEF QuietDevice, QuietInv, threadVars
  <2>5. CASE QueryCapacity(d) \/ Admit(d) \/ TakeThreadLock(d, "admitThread", "start") \/ Launch(d)
             \/ StartDone(d) \/ DirectPlay(d)
    BY <1>0, <2>5 DEF QueryCapacity, Admit, TakeThreadLock, Launch, StartDone, DirectPlay,
       Return, TakesOver
  <2>6. CASE StopStep(d) \/ ModeStep(d)
    BY <1>0, <2>6 DEF StopStep, TakeManageLock, TakeThreadLock, StopScan, StopDevice, StopCheck,
       StopDone, StopThreadOr, Return, ModeStep, ModeLock, ModeNext, ModeQuiet, ModeDone,
       TakesOver, KindInv, KindAt, StopKinds, StopPcs
  <2>7. CASE SessionStep(d) \/ PlugStep(d) \/ DeathStep(d)
    BY <1>0, <2>7 DEF SessionStep, SessionLock, SessionNext, SessionDone, PlugStep,
       PlugLock, PlugNext,
       PlugErase, PlugInsert, PlugNotify, DeathStep, DeathLock, DeathNext, DeathDone, Return, TakesOver
  <2> QED
    BY <1>2, <2>1, <2>2, <2>3, <2>4, <2>5, <2>6, <2>7 DEF CallerStep, StartStep
<1>3. CASE op'[d] \in Calls /\ op'[d].kind # "unmute" /\ pc'[d] = FirstPc(op'[d])
  BY <1>3, FirstPlaces DEF TakesOver
<1> QED
  BY <1>1, <1>2, <1>3, WhoMoves

\* The same for the stop by mode.
LEMMA ModeStepped ==
  ASSUME IInv, ModeInv, [Next]_vars
  PROVE  ModeInv'
<1> USE DEF IInv
<1>0. /\ pc \in [Callers -> Pcs] /\ op \in [Callers -> CallRecords]
      /\ todo \in [Callers -> SUBSET Motors] /\ running \in [Motors -> BOOLEAN]
  BY DEF TypeOK, ThreadTypeOK
<1> SUFFICES ASSUME NEW d \in Callers, op'[d].kind = "mode", pc'[d] = "notify", running'[First(todo'[d])]
             PROVE  current'[First(todo'[d])].mode = op'[d].mode
  BY DEF ModeInv
<1>1. CASE pc'[d] = pc[d] /\ op'[d] = op[d] /\ todo'[d] = todo[d] /\ outer'[d] = outer[d]
  <2>1. pc[d] \in ThreadPcsHeld /\ First(todo[d]) \in Motors
    BY <1>0, <1>1, FirstMotor DEF ThreadPcsHeld, TodoInv
  <2>2. running[First(todo[d])] /\ current'[First(todo[d])] = current[First(todo[d])]
    BY <1>1, <2>1, HeldRecords
  <2> QED
    BY <1>1, <2>2 DEF ModeInv
<1>2. CASE CallerStep(d)
  <2>1. CASE ModeNext(d)
    BY <1>0, <2>1 DEF ModeNext, StopThreadOr, threadVars
  <2>2. CASE StartStep(d) \/ NotifyThread(d) \/ SyncThread(d)
    BY <1>0, <2>2 DEF StartStep, QueryCapacity, Admit, TakeThreadLock, Decide, StopThreadOr,
       QuietDevice,
       Launch, StartDone, DirectPlay, NotifyThread, SyncThread, Return, KindInv, KindAt
  <2>3. CASE StopStep(d) \/ (ModeStep(d) /\ ~ModeNext(d))
    BY <1>0, <2>3 DEF StopStep, TakeManageLock, TakeThreadLock, StopScan, StopDevice, StopCheck,
       StopDone, StopThreadOr, Return, ModeStep, ModeLock, ModeQuiet, ModeDone,
       KindInv, KindAt, StopKinds, StopPcs
  <2>4. CASE SessionStep(d) \/ PlugStep(d) \/ DeathStep(d)
    BY <1>0, <2>4 DEF SessionStep, SessionLock, SessionNext, SessionDone, PlugStep,
       PlugLock, PlugNext,
       PlugErase, PlugInsert, PlugNotify, DeathStep, DeathLock, DeathNext, DeathDone, Return
  <2> QED
    BY <1>2, <2>1, <2>2, <2>3, <2>4 DEF CallerStep
<1>3. CASE op'[d] \in Calls /\ op'[d].kind # "unmute" /\ pc'[d] = FirstPc(op'[d])
  BY <1>3, FirstPlaces
<1> QED
  BY <1>1, <1>2, <1>3, WhoMoves

-------------------------------------------------------------------------------
\* What becomes of a handler's call: it is kept, but for the mode that a start
\* settles on, until the handler returns.
LEMMA CallsKept ==
  ASSUME IInv, NEW d \in Callers, CallerStep(d)
  PROVE  \/ op'[d] = NoCall /\ pc'[d] = "idle"
         \/ op'[d] = op[d] /\ pc'[d] # "idle"
         \/ Kind(d) = "start" /\ op'[d].kind = "start" /\ pc'[d] = "admit"
<1> USE DEF IInv
<1>0. pc \in [Callers -> Pcs] /\ op \in [Callers -> CallRecords]
  BY DEF TypeOK
<1>1. Return(d) => op'[d] = NoCall /\ pc'[d] = "idle"
  BY <1>0 DEF Return
<1>2. CASE QueryCapacity(d)
  <2>1. Kind(d) = "start" /\ op'[d].kind = op[d].kind
    BY <1>0, <1>2 DEF QueryCapacity, KindInv, KindAt, CallRecords
  <2> QED
    BY <1>0, <1>2, <2>1 DEF QueryCapacity
<1>3. CASE StartStep(d) /\ ~QueryCapacity(d)
  BY <1>0, <1>1, <1>3 DEF StartStep, Admit, TakeThreadLock, Decide, StopThreadOr,
     QuietDevice, Launch,
     StartDone, DirectPlay
<1>4. CASE NotifyThread(d) \/ SyncThread(d) \/ StopStep(d)
  BY <1>0, <1>1, <1>4 DEF NotifyThread, SyncThread, StopStep, TakeManageLock, TakeThreadLock,
     StopScan, StopDevice, StopCheck, StopThreadOr, StopDone
<1>5. CASE ModeStep(d) \/ SessionStep(d)
  BY <1>0, <1>1, <1>5 DEF ModeStep, ModeLock, TakeThreadLock, ModeNext, ModeQuiet, ModeDone,
     StopThreadOr,
     SessionStep, SessionLock, SessionNext, SessionDone
<1>6. CASE PlugStep(d) \/ DeathStep(d)
  BY <1>0, <1>1, <1>6 DEF PlugStep, PlugLock, PlugNext, PlugErase, PlugInsert, PlugNotify,
     DeathStep, DeathLock, DeathNext, DeathDone
<1> QED
  BY <1>2, <1>3, <1>4, <1>5, <1>6 DEF CallerStep

\* Every step keeps CallInv.
LEMMA CallStep ==
  ASSUME IInv, CallInv, [Next]_vars
  PROVE  CallInv'
<1> USE DEF IInv
<1>0. pc \in [Callers -> Pcs] /\ op \in [Callers -> CallRecords]
  BY DEF TypeOK
<1>1. SUFFICES ASSUME NEW d \in Callers
               PROVE  /\ pc'[d] = "idle" => op'[d] = NoCall
                      /\ pc'[d] \in {"sessionManage", "session"} => op'[d].kind = "session"
  BY DEF CallInv
<1>2. CASE pc'[d] = pc[d] /\ op'[d] = op[d]
  BY <1>2 DEF CallInv
<1>3. CASE CallerStep(d)
  <2>1. pc'[d] \in {"sessionManage", "session"} => pc[d] \in {"sessionManage", "session"}
    BY <1>0, <1>3 DEF CallerStep, StartStep, QueryCapacity, Admit, TakeThreadLock, Decide,
       StopThreadOr,
       QuietDevice, Launch, StartDone, DirectPlay, Return, NotifyThread, SyncThread, StopStep,
       TakeManageLock, StopScan, StopDevice, StopCheck, StopDone, ModeStep, ModeLock, ModeNext,
       ModeQuiet, ModeDone, SessionStep, SessionLock, SessionNext, SessionDone, PlugStep, PlugLock,
       PlugNext, PlugErase, PlugInsert, PlugNotify, DeathStep, DeathLock, DeathNext, DeathDone
  <2> QED
    BY <1>3, <2>1, CallsKept DEF CallInv
<1>4. CASE op'[d] \in Calls /\ op'[d].kind # "unmute" /\ pc'[d] = FirstPc(op'[d])
  BY <1>4, FirstPlaces
<1> QED
  BY <1>2, <1>3, <1>4, WhoMoves

\* Only StopVibratorService returns from the mute callback.
LEMMA MuteReturns ==
  ASSUME IInv, CallInv, NEW c \in Callers, CallerStep(c), Kind(c) = "mute", op'[c].kind # "mute"
  PROVE  StopDone(c)
<1> USE DEF IInv
<1>0. pc \in [Callers -> Pcs] /\ op \in [Callers -> CallRecords]
  BY DEF TypeOK
<1>1. CASE StartStep(c) \/ ModeStep(c)
  BY <1>0, <1>1 DEF StartStep, QueryCapacity, Admit, TakeThreadLock, Decide, QuietDevice, Launch,
     StartDone, DirectPlay, ModeStep, ModeLock, ModeNext, ModeQuiet, ModeDone, KindInv, KindAt
<1>2. CASE NotifyThread(c) \/ SyncThread(c) \/ StopStep(c)
  BY <1>0, <1>2 DEF NotifyThread, SyncThread, StopStep, TakeManageLock, TakeThreadLock, StopScan,
     StopDevice, StopCheck
<1>3. CASE SessionStep(c) \/ PlugStep(c) \/ DeathStep(c)
  BY <1>0, <1>3 DEF SessionStep, SessionLock, SessionNext, SessionDone, PlugStep, PlugLock,
     PlugNext,
     PlugErase, PlugInsert, PlugNotify, DeathStep, DeathLock, DeathNext, DeathDone,
     KindInv, KindAt, CallInv
<1> QED
  BY <1>1, <1>2, <1>3 DEF CallerStep

\* The mute callback stops the motors that an identifier without any names.
LEMMA MuteTarget ==
  ASSUME NEW call \in Calls, call.kind = "mute"
  PROVE  call.target = AnyTarget
<1>1. CASE call \in StartCalls
  <2>1. ASSUME NEW R, NEW x \in StartsOf(R)
        PROVE  x.kind = "start"
    <3>1. PICK t \in Targets, r \in R : x = StartCall(t, r)
      BY <2>1 DEF StartsOf
    <3> QED
      BY <3>1 DEF StartCall, NoCall
  <2> QED
    BY <1>1, <2>1 DEF StartCalls, VibrateCalls, PlayVibratorEffectCalls, PlayVibratorCustomCalls,
       PlayPatternCalls
<1>2. CASE call \in StopCalls \cup SessionCalls
  BY <1>2 DEF StopCalls, SessionCalls, NoCall
<1>3. CASE call \in MuteCalls \cup DeathCalls
  BY <1>3 DEF MuteCalls, DeathCalls, NoCall
<1>4. CASE call \in ModeCalls
  <2>1. PICK t \in Targets, md \in {"time", "preset"} : call = ModeCall(t, md)
    BY <1>4 DEF ModeCalls
  <2> QED
    BY <2>1 DEF ModeCall, NoCall
<1>5. CASE call \in PlugCalls
  <2>1. PICK k \in {"plugIn", "plugOut"}, e \in Devices : call = PlugCall(k, e)
    BY <1>5 DEF PlugCalls
  <2> QED
    BY <2>1 DEF PlugCall, NoCall
<1> QED
  BY <1>1, <1>2, <1>3, <1>4, <1>5 DEF Calls

\* The switch is set by its callback and by nothing else.
LEMMA WhoMutes ==
  ASSUME IInv, [Next]_vars, muted'
  PROVE  muted \/ InProgress({"mute"})'
<1> USE DEF IInv
<1>0. pc \in [Callers -> Pcs] /\ op \in [Callers -> CallRecords]
  BY DEF TypeOK
<1>1. CASE UNCHANGED vars
  BY <1>1 DEF vars, serviceVars, clientVars
<1>2. CASE Arrival
  <2>1. ASSUME NEW c \in Callers, NEW call \in Calls, MuteCallback(c, call)
        PROVE  InProgress({"mute"})'
    BY <1>0, <2>1 DEF MuteCallback, Receive, InProgress
  <2> QED
    BY <1>2, <2>1 DEF Arrival, ClientCall, PlugEvent, DeathNotice, UnmuteCallback,
       TransferClientRemoteObject, DisableOrEnableVibratorByPid, serviceVars, clientVars
<1>3. CASE \E m \in Motors : MotorStep(m) \/ DeviceStep(m)
  BY <1>3 DEF MotorStep, DeviceStep, serviceVars, clientVars
<1>4. ASSUME NEW c \in Callers, CallerStep(c)
      PROVE  muted' = muted
  BY <1>4 DEF CallerStep, StartStep, QueryCapacity, Admit, TakeThreadLock, Decide,
     QuietDevice, Launch, StartDone, DirectPlay, NotifyThread, SyncThread, StopStep,
     TakeManageLock, StopScan, StopDevice, StopCheck, StopDone, ModeStep, ModeLock, ModeNext,
     ModeQuiet, ModeDone, SessionStep, SessionLock, SessionNext, SessionDone, PlugStep, PlugLock,
     PlugNext, PlugErase, PlugInsert, PlugNotify, DeathStep, DeathLock, DeathNext, DeathDone,
     serviceVars, clientVars
<1> QED
  BY <1>1, <1>2, <1>3, <1>4 DEF Next

\* The mute callback stops every local motor after the switch is set; whoever
\* decides afterwards sees the switch, and whoever decided before has launched.
LEMMA MuteStep ==
  ASSUME IInv, CallInv, StopInv, MuteInv, [Next]_vars
  PROVE  MuteInv'
<1> USE DEF IInv
<1>0. /\ pc \in [Callers -> Pcs] /\ op \in [Callers -> CallRecords]
      /\ todo \in [Callers -> SUBSET Motors] /\ running \in [Motors -> BOOLEAN]
      /\ muted \in BOOLEAN /\ Local \subseteq Motors
  BY ServiceAssumption DEF TypeOK, ThreadTypeOK, ServiceAssumption
<1>1. ASSUME NEW d \in Callers, op'[d].kind = "mute"
      PROVE  op'[d].target = AnyTarget
  <2>1. CASE op'[d] \in Calls
    BY <1>1, <2>1, MuteTarget
  <2>2. CASE op'[d] = op[d]
    BY <1>1, <2>2 DEF MuteInv
  <2> QED
    BY <1>1, <2>1, <2>2, WhoMoves, CallsKept, CallTypes
<1>2. ASSUME muted', InProgress({"mute"}), ~InProgress({"mute"})'
      PROVE  /\ \A m \in Local : ~running'[m]
             /\ \A d \in Callers : ~TakesOver(d)'
  <2>1. PICK c \in Callers : Kind(c) = "mute" /\ op'[c].kind # "mute"
    BY <1>2 DEF InProgress
  <2>2. CallerStep(c)
    <3>1. pc[c] # "idle"
      BY <2>1, CallTypes DEF CallInv
    <3> QED
      BY <2>1, <3>1, WhoMoves
  <2>3. StopDone(c)
    BY <2>1, <2>2, MuteReturns
  <2>4. ASSUME NEW m \in Local, running'[m]
        PROVE  FALSE
    <3>1. running[m] /\ m \in Motors
      BY <1>0, <2>3, <2>4 DEF StopDone, threadVars
    <3>2. DeviceOf[m] \in plugged
      BY <3>1 DEF PlugInv
    <3>3. StopTarget(c) = AnyTarget
      BY <2>1 DEF StopTarget, OuterKinds, MuteInv
    <3>4. m \in CheckDeviceIdIsValid(StopTarget(c), plugged)
      BY <3>1, <3>2, <3>3 DEF CheckDeviceIdIsValid, AnyTarget, SelectedOn, MotorsOf
    <3> QED
      BY <2>1, <2>3, <3>1, <3>4 DEF StopDone, StopInv, StopKinds
  <2>5. ASSUME NEW d \in Callers, TakesOver(d)'
        PROVE  FALSE
    <3>1. d # c
      BY <1>0, <2>1, <2>3, <2>5 DEF StopDone, Return, TakesOver, OuterKinds
    <3>2. pc'[d] = pc[d]
      BY <2>2, <3>1, OtherCallers
    <3>3. pc[d] \in ThreadPcsHeld /\ pc[c] \in ThreadPcsHeld
      BY <2>3, <2>5, <3>2 DEF TakesOver, ThreadPcsHeld, StopDone
    <3> QED
      BY <3>1, <3>3 DEF LockInv
  <2> QED
    BY <2>4, <2>5
<1>3. ASSUME muted', ~InProgress({"mute"}), ~InProgress({"mute"})'
      PROVE  /\ \A m \in Local : running'[m] => current'[m].usage \notin AudioUsages
             /\ \A d \in Callers : TakesOver(d)' /\ First(todo'[d]) \in Local
                                   => op'[d].info.usage \notin AudioUsages
  <2>1. muted
    BY <1>3, WhoMutes
  <2>2. ASSUME NEW m \in Local, running'[m]
        PROVE  current'[m].usage \notin AudioUsages
    <3>1. ASSUME NEW c \in Callers, Launch(c), First(todo[c]) = m, current'[m] = op[c].info
          PROVE  current'[m].usage \notin AudioUsages
      BY <1>3, <2>1, <3>1 DEF Launch, MuteInv, TakesOver, KindInv, KindAt
    <3> QED
      BY <1>0, <1>3, <2>1, <2>2, <3>1, RecordsKept DEF MuteInv
  <2>3. ASSUME NEW d \in Callers, TakesOver(d)', First(todo'[d]) \in Local
        PROVE  op'[d].info.usage \notin AudioUsages
    <3>1. CASE pc'[d] = pc[d] /\ op'[d] = op[d] /\ todo'[d] = todo[d]
      BY <1>3, <2>1, <2>3, <3>1 DEF MuteInv, TakesOver
    <3>2. CASE CallerStep(d)
      <4>1. CASE Decide(d)
        <5>1. op'[d] = op[d] /\ todo'[d] = todo[d]
          BY <1>0, <2>3, <4>1 DEF Decide, TakesOver
        <5>2. PICK s \in SettingsChoices :
                ~ShouldIgnoreVibrate(op[d].info, [s EXCEPT !.mute = muted],
                                     IsCurrentVibrate(First(todo[d])), current[First(todo[d])])
          BY <1>0, <2>3, <4>1, <5>1 DEF Decide, TakesOver
        <5>3. SettingsVerdict(op[d].info, [s EXCEPT !.mute = muted]) = "VIBRATION"
          BY <5>2 DEF ShouldIgnoreVibrate, Verdict
        <5>4. [s EXCEPT !.mute = muted].mute
          BY <2>1
        <5> QED
          BY <5>1, <5>3, <5>4 DEF SettingsVerdict
      <4>2. CASE QuietDevice(d) \/ NotifyThread(d) \/ SyncThread(d)
        BY <1>0, <1>3, <2>1, <2>3, <4>2 DEF QuietDevice, NotifyThread, SyncThread, MuteInv,
           TakesOver
      <4>3. CASE QueryCapacity(d) \/ Admit(d) \/ TakeThreadLock(d, "admitThread", "start") \/ Launch(d)
                 \/ StartDone(d) \/ DirectPlay(d)
        BY <1>0, <2>3, <4>3 DEF QueryCapacity, Admit, TakeThreadLock, Launch, StartDone, DirectPlay,
           Return, TakesOver
      <4>4. CASE StopStep(d) \/ ModeStep(d)
        BY <1>0, <2>3, <4>4 DEF StopStep, TakeManageLock, TakeThreadLock, StopScan,
           StopDevice, StopCheck,
           StopDone, StopThreadOr, Return, ModeStep, ModeLock, ModeNext, ModeQuiet, ModeDone,
           TakesOver, KindInv, KindAt, StopKinds, StopPcs
      <4>5. CASE SessionStep(d) \/ PlugStep(d) \/ DeathStep(d)
        BY <1>0, <2>3, <4>5 DEF SessionStep, SessionLock, SessionNext, SessionDone,
           PlugStep, PlugLock,
           PlugNext, PlugErase, PlugInsert, PlugNotify, DeathStep, DeathLock, DeathNext, DeathDone,
           Return, TakesOver
      <4> QED
        BY <3>2, <4>1, <4>2, <4>3, <4>4, <4>5 DEF CallerStep, StartStep
    <3>3. CASE op'[d] \in Calls /\ op'[d].kind # "unmute" /\ pc'[d] = FirstPc(op'[d])
      BY <2>3, <3>3, FirstPlaces DEF TakesOver
    <3> QED
      BY <3>1, <3>2, <3>3, WhoMoves
  <2> QED
    BY <2>2, <2>3
<1>4. ASSUME muted', ~InProgress({"mute"})'
      PROVE  /\ \A m \in Local : running'[m] => current'[m].usage \notin AudioUsages
             /\ \A d \in Callers : TakesOver(d)' /\ First(todo'[d]) \in Local
                                   => op'[d].info.usage \notin AudioUsages
  BY <1>2, <1>3, <1>4
<1> QED
  BY <1>1, <1>4 DEF MuteInv

-------------------------------------------------------------------------------
\* A registry with room for every process that is full has every process.
LEMMA RegistryHasAll ==
  ASSUME Room, TypeOK, Cardinality(clients) >= MaxClients
  PROVE  clients = Pids
<1>1. clients \subseteq Pids /\ IsFiniteSet(Pids) /\ MaxClients \in Nat
  BY ServiceAssumption DEF Room, TypeOK, ServiceAssumption
<1>2. Cardinality(Pids) \in Nat /\ Cardinality(clients) \in Nat /\ Cardinality(clients) <= Cardinality(Pids)
  BY <1>1, FS_Subset, FS_CardinalityType
<1>3. Cardinality(clients) = Cardinality(Pids)
  BY <1>1, <1>2 DEF Room
<1> QED
  BY <1>1, <1>3, FS_Subset

\* TransferClientRemoteObject registers whoever lives; the handler of a death
\* forgets who died, when it is done.
LEMMA ClientStep ==
  ASSUME Room, IInv, ClientInv, [Next]_vars
  PROVE  ClientInv'
<1> USE DEF IInv
<1>0. pc \in [Callers -> Pcs] /\ op \in [Callers -> CallRecords]
  BY DEF TypeOK
<1>1. ASSUME UNCHANGED <<connected, clients>>,
             \A d \in Callers : op'[d].kind = "death" => op'[d] = op[d]
      PROVE  ClientInv'
  BY <1>1 DEF ClientInv
<1>2. CASE UNCHANGED vars
  BY <1>1, <1>2 DEF vars, serviceVars, clientVars, callVars
<1>3. CASE \E m \in Motors : MotorStep(m) \/ DeviceStep(m)
  BY <1>1, <1>3 DEF MotorStep, DeviceStep, serviceVars, clientVars, callVars
<1>4. ASSUME NEW c \in Callers, NEW call \in Calls, ClientCall(c, call) \/ MuteCallback(c, call) \/ PlugEvent(c, call)
      PROVE  ClientInv'
  <2>1. call.kind # "death" /\ op' = [op EXCEPT ![c] = call] /\ UNCHANGED <<connected, clients>>
    BY <1>4 DEF ClientCall, MuteCallback, PlugEvent, Receive, serviceVars, clientVars
  <2> QED
    BY <1>0, <1>1, <2>1
<1>5. ASSUME NEW c \in Callers, NEW call \in Calls, DeathNotice(c, call)
      PROVE  ClientInv'
  <2>1. /\ call.pid \in connected /\ connected' = connected \ {call.pid} /\ clients' = clients
        /\ op' = [op EXCEPT ![c] = call]
    BY <1>5 DEF DeathNotice, Receive
  <2>2. \A d \in Callers : d # c => op'[d] = op[d]
    BY <1>0, <2>1
  <2>3. op'[c].pid = call.pid
    BY <1>0, <2>1
  <2> QED
    BY <2>1, <2>2, <2>3 DEF ClientInv
<1>6. CASE \E call \in Calls : UnmuteCallback(call)
  BY <1>1, <1>6 DEF UnmuteCallback, callVars
<1>7. CASE \E p \in Pids : DisableOrEnableVibratorByPid(p)
  BY <1>1, <1>7 DEF DisableOrEnableVibratorByPid, callVars
<1>8. ASSUME NEW p \in Pids, TransferClientRemoteObject(p)
      PROVE  ClientInv'
  <2>1. /\ connected' = connected \cup {p} /\ UNCHANGED op
        /\ \A d \in Callers : Kind(d) = "death" => op[d].pid # p
    BY <1>8 DEF TransferClientRemoteObject, callVars
  <2>2. clients' = clients \cup {p}
    BY <1>8, RegistryHasAll DEF TransferClientRemoteObject
  <2> QED
    BY <2>1, <2>2 DEF ClientInv
<1>9. ASSUME NEW c \in Callers, CallerStep(c)
      PROVE  ClientInv'
  <2>1. CASE DeathDone(c)
    <3>1. connected' = connected /\ clients' = clients \ {op[c].pid} /\ Kind(c) = "death"
      BY <2>1 DEF DeathDone, KindInv, KindAt
    <3>2. op'[c].kind # "death"
      BY <1>0, <2>1, CallTypes DEF DeathDone, Return
    <3>3. \A d \in Callers : d # c => op'[d] = op[d]
      BY <1>9, OtherCallers
    <3> QED
      BY <3>1, <3>2, <3>3 DEF ClientInv
  <2>2. CASE ~DeathDone(c)
    <3>1. UNCHANGED <<connected, clients>>
      BY <1>9, <2>2 DEF CallerStep, StartStep, QueryCapacity, Admit, TakeThreadLock, Decide,
         QuietDevice, Launch, StartDone, DirectPlay, NotifyThread, SyncThread, StopStep,
         TakeManageLock, StopScan, StopDevice, StopCheck, StopDone, ModeStep, ModeLock, ModeNext,
         ModeQuiet, ModeDone, SessionStep, SessionLock, SessionNext, SessionDone, PlugStep, PlugLock,
         PlugNext, PlugErase, PlugInsert, PlugNotify, DeathStep, DeathLock, DeathNext,
         serviceVars, clientVars
    <3>2. \A d \in Callers : op'[d].kind = "death" => op'[d] = op[d]
      BY <1>9, OtherCallers, CallsKept, CallTypes
    <3> QED
      BY <1>1, <3>1, <3>2
  <2> QED
    BY <2>1, <2>2
<1> QED
  BY <1>2, <1>3, <1>4, <1>5, <1>6, <1>7, <1>8, <1>9 DEF Next, Arrival

\* The death handler skips a motor whose record is another client's, and stops
\* the others; devicesManageMutex_ keeps every start away meanwhile.
LEMMA CleanStep ==
  ASSUME IInv, StopInv, ClientInv, CleanInv, [Next]_vars
  PROVE  CleanInv'
<1> USE DEF IInv
<1>0. /\ pc \in [Callers -> Pcs] /\ op \in [Callers -> CallRecords]
      /\ todo \in [Callers -> SUBSET Motors] /\ outer \in [Callers -> SUBSET Motors]
  BY DEF TypeOK
<1> SUFFICES ASSUME NEW d \in Callers, op'[d].kind = "death",
                    pc'[d] \in {"death"} \cup StopPcs \cup JoinPcs,
                    NEW m \in Motors, DeviceOf[m] \in plugged', m \notin outer'[d], running'[m]
             PROVE  current'[m].pid # op'[d].pid
  BY DEF CleanInv, MotorsOf
<1>1. CASE pc'[d] = pc[d] /\ op'[d] = op[d] /\ outer'[d] = outer[d]
  <2>1. HoldsManage(d)
    BY <1>1 DEF HoldsManage, ManagePcsHeld
  <2>2. running[m] /\ current'[m] = current[m] /\ plugged' = plugged
    BY <1>1, <2>1, HeldRecords, MapKept
  <2> QED
    BY <1>1, <2>2 DEF CleanInv, MotorsOf
<1>2. CASE CallerStep(d)
  <2>1. Kind(d) = "death" /\ op'[d] = op[d]
    BY <1>2, CallsKept, CallTypes
  <2>2. ~StartStep(d) /\ ~ModeStep(d) /\ ~PlugStep(d)
    BY <2>1 DEF StartStep, QueryCapacity, Admit, TakeThreadLock, Decide, QuietDevice,
       Launch, StartDone,
       DirectPlay, ModeStep, ModeLock, ModeNext, ModeQuiet, ModeDone, PlugStep, PlugLock, PlugNext,
       PlugErase, PlugInsert, PlugNotify, KindInv, KindAt
  <2>3. running[m] /\ current'[m] = current[m]
    <3>1. ~Launch(d)
      BY <2>2 DEF StartStep
    <3> QED
      BY <1>2, <3>1, OwnRecords
  <2>4. plugged' = plugged
    BY <1>2, <2>2, ThreadEffects DEF NotifyThread, SyncThread, StartStep, PlugStep, serviceVars
  <2>5. ASSUME outer'[d] = outer[d], pc[d] \in {"death"} \cup StopPcs \cup JoinPcs
        PROVE  current'[m].pid # op'[d].pid
    BY <2>1, <2>3, <2>4, <2>5 DEF CleanInv, MotorsOf
  <2>6. CASE StopDone(d)
    <3>1. outer'[d] = outer[d] \ {First(outer[d])} /\ pc[d] = "stopLoop" /\ todo[d] = {}
      BY <1>0, <2>1, <2>6 DEF StopDone, OuterKinds
    <3>2. CASE m = First(outer[d])
      <4>1. m \in CheckDeviceIdIsValid(StopTarget(d), plugged)
        BY <2>1, <2>4, <3>2, ScanFindsOuter DEF OuterKinds
      <4> QED
        BY <2>1, <2>3, <3>1, <4>1 DEF StopInv, StopKinds
    <3>3. CASE m # First(outer[d])
      BY <2>1, <2>3, <2>4, <3>1, <3>3 DEF CleanInv, MotorsOf, StopPcs
    <3> QED
      BY <3>2, <3>3
  <2>7. CASE NotifyThread(d) \/ SyncThread(d) \/ (StopStep(d) /\ ~StopDone(d))
    <3>1. outer'[d] = outer[d] /\ pc[d] \in StopPcs \cup JoinPcs \cup {"stopManage"}
      BY <2>7 DEF NotifyThread, SyncThread, StopStep, TakeManageLock, TakeThreadLock,
         StopScan, StopDevice,
         StopCheck, StopPcs, JoinPcs
    <3>2. pc[d] # "stopManage"
      BY <2>1 DEF KindInv, KindAt
    <3> QED
      BY <2>5, <3>1, <3>2
  <2>8. CASE DeathStep(d)
    <3>1. CASE DeathLock(d)
      BY <1>0, <2>4, <3>1 DEF DeathLock, MotorsOf
    <3>2. CASE DeathNext(d)
      <4>1. CASE outer'[d] = outer[d]
        BY <2>5, <3>2, <4>1 DEF DeathNext
      <4>2. CASE outer'[d] # outer[d]
        <5>1. outer'[d] = outer[d] \ {First(outer[d])} /\ pc[d] = "death"
              /\ current[First(outer[d])].pid # op[d].pid
          BY <1>0, <2>1, <3>2, <4>2 DEF DeathNext, ClientInv
        <5> QED
          BY <2>1, <2>3, <2>4, <5>1 DEF CleanInv, MotorsOf
      <4> QED
        BY <4>1, <4>2
    <3>3. CASE DeathDone(d)
      BY <1>0, <3>3 DEF DeathDone, Return, StopPcs, JoinPcs
    <3> QED
      BY <2>8, <3>1, <3>2, <3>3 DEF DeathStep
  <2>9. CASE SessionStep(d)
    BY <1>0, <2>9 DEF SessionStep, SessionLock, SessionNext, SessionDone, Return, StopPcs, JoinPcs
  <2> QED
    BY <1>2, <2>2, <2>6, <2>7, <2>8, <2>9 DEF CallerStep
<1>3. CASE op'[d] \in Calls /\ op'[d].kind # "unmute" /\ pc'[d] = FirstPc(op'[d])
  BY <1>3, FirstPlaces DEF StopPcs, JoinPcs
<1> QED
  BY <1>1, <1>2, <1>3, WhoMoves

-------------------------------------------------------------------------------
\* Nothing runs, plays or is being served at first.
LEMMA AtFirst ==
  ASSUME Init
  PROVE  /\ \A m \in Motors : /\ hdi[m] = NoInfo /\ local[m] = NoInfo /\ current[m] = NoInfo
                              /\ ~running[m]
         /\ \A c \in Callers : pc[c] = "idle" /\ op[c] = NoCall
         /\ clients = {} /\ connected = {} /\ ~muted
BY DEF Init, ThreadInit, Idle

\* What a motor's thread waits for, its device plays.
LEMMA WaitedFollow == Spec => [](IInv /\ PlaceInv /\ WaitedInv)
<1>1. Init => PlaceInv /\ WaitedInv
  <2> SUFFICES ASSUME Init
               PROVE  PlaceInv /\ WaitedInv
    OBVIOUS
  <2>1. PlaceInv
    BY AtFirst, NothingSuits DEF PlaceInv, TakesOver
  <2>2. WaitedInv
    BY AtFirst DEF WaitedInv, Heard, Idle
  <2> QED
    BY <2>1, <2>2
<1> QED
  BY <1>1, PlaceStep, WaitedStep, ServiceInv, PTL DEF Spec

\* Without HD haptics, and with no device that plays on when the wait for it is
\* over: what a device plays is what its motor's thread waits for.
LEMMA DevicesFollow ==
  ASSUME Nominal
  PROVE  Spec => [](IInv /\ PlaceInv /\ PlainInv /\ DeviceInv)
<1>1. Init => PlainInv
  BY AtFirst, NothingPlain, CallTypes DEF PlainInv
<1>2. IInv /\ PlaceInv /\ PlainInv /\ [Next]_vars => PlainInv'
  BY Nominal, PlainStep
<1>3. PlainInv /\ WaitedInv => DeviceInv
  BY Nominal, AllWaited
<1> QED
  BY <1>1, <1>2, <1>3, WaitedFollow, PTL DEF Spec

\* So all is heard of what they play.
LEMMA AllIsHeard ==
  ASSUME Nominal
  PROVE  Spec => [](\A m \in Motors : Heard(m) = hdi[m])
<1>1. PlainInv => \A m \in Motors : Heard(m) = hdi[m]
  BY Nominal, AllWaited
<1> QED
  BY <1>1, Nominal, DevicesFollow, PTL

\* What is heard is the record of a thread that runs.
LEMMA HeardIsRecorded ==
  ASSUME IInv, WaitedInv, NEW m \in Motors, Heard(m) # Idle
  PROVE  running[m] /\ Heard(m) = current[m]
BY DEF IInv, ThreadInv, WaitedInv, Heard

\* What a device plays is the record of a thread that runs.
LEMMA PlayingIsRecorded ==
  ASSUME IInv, DeviceInv, NEW m \in Motors, hdi[m] # Idle
  PROVE  running[m] /\ hdi[m] = current[m]
BY DEF IInv, ThreadInv, DeviceInv

\* A vibration that its motor's thread waits for is the one in the record, and
\* the thread has not been joined, with HD haptics and devices that overrun too.
THEOREM WaitedRecorded == Spec => []WaitedIsRecorded
<1>1. IInv /\ WaitedInv => WaitedIsRecorded
  BY HeardIsRecorded DEF WaitedIsRecorded
<1> QED
  BY <1>1, WaitedFollow, PTL

\* The service keeps the record of a motor (currentVibration_) until the thread
\* that plays it has been joined, and replaces it only then: whatever a device
\* plays, the priority decision is made against it.
THEOREM RecordTrue ==
  ASSUME Nominal
  PROVE  Spec => []RecordDescribesDevice
<1>1. WaitedIsRecorded /\ (\A m \in Motors : Heard(m) = hdi[m]) => RecordDescribesDevice
  BY DEF WaitedIsRecorded, RecordDescribesDevice
<1> QED
  BY <1>1, Nominal, WaitedRecorded, AllIsHeard, PTL

\* StopVibratorService stops the device, and then the thread that could have
\* started it again in between: of a motor it is done with neither the thread nor
\* anything that a thread waits for is left, whatever the devices are.
THEOREM StopEndsWhatIsWaited == Spec => []StopEndsWaited
<1>1. Init => StopInv
  BY AtFirst DEF StopInv
<1>2. IInv /\ StopInv /\ [Next]_vars => StopInv'
  BY StopStepped
<1>3. IInv /\ WaitedInv /\ StopInv => StopEndsWaited
  <2> SUFFICES ASSUME IInv, WaitedInv, StopInv, NEW c \in Callers,
                      Kind(c) \in StopKinds, pc[c] \in {"stopLoop", "stopCheck", "notify", "sync"},
                      NEW m \in CheckDeviceIdIsValid(StopTarget(c), plugged) \ todo[c]
               PROVE  ~running[m] /\ Heard(m) = Idle
    BY DEF StopEndsWaited
  <2>1. m \in Motors
    BY ChosenMotors DEF MotorsOf
  <2>2. ~running[m]
    BY DEF StopInv
  <2> QED
    BY <2>1, <2>2, HeardIsRecorded
<1> QED
  BY <1>1, <1>2, <1>3, WaitedFollow, PTL DEF Spec

\* Without HD haptics and overrun, nothing at all is left of a motor that
\* StopVibratorService is done with.
THEOREM StopEffective ==
  ASSUME Nominal
  PROVE  Spec => []StopIsEffective
<1>1. StopEndsWaited /\ (\A m \in Motors : Heard(m) = hdi[m]) => StopIsEffective
  BY ChosenMotors DEF StopEndsWaited, StopIsEffective, MotorsOf
<1> QED
  BY <1>1, Nominal, StopEndsWhatIsWaited, AllIsHeard, PTL

\* ShouldIgnoreVibrate refuses what would end an alarm, and the handler keeps
\* vibratorThreadMutex_ from that decision until it has taken the motor over: no
\* alarm that a thread waits for is cut off, whatever the devices are.
THEOREM WaitedAlarmKept == Spec => []WaitedAlarmShielded
<1>1. Init => AlarmInv
  BY AtFirst DEF AlarmInv, TakesOver
<1>2. IInv /\ AlarmInv /\ [Next]_vars => AlarmInv'
  BY AlarmStep
<1>3. IInv /\ WaitedInv /\ AlarmInv => WaitedAlarmShielded
  <2> SUFFICES ASSUME IInv, WaitedInv, AlarmInv, NEW c \in Callers, TakesOver(c),
                      ~IsLoopVibrate(op[c].info), First(todo[c]) \in Local
               PROVE  Heard(First(todo[c])).usage # "alarm"
    BY DEF WaitedAlarmShielded
  <2>1. First(todo[c]) \in Motors
    BY ServiceAssumption DEF ServiceAssumption
  <2>2. Idle.usage # "alarm"
    BY DEF Idle, NoInfo
  <2> QED
    BY <2>1, <2>2, HeardIsRecorded DEF AlarmInv
<1> QED
  BY <1>1, <1>2, <1>3, WaitedFollow, PTL DEF Spec

\* Without HD haptics and overrun, no alarm is cut off that ShouldIgnoreVibrate
\* protects.
THEOREM AlarmKept ==
  ASSUME Nominal
  PROVE  Spec => []AlarmShielded
<1>1. WaitedAlarmShielded /\ (\A m \in Motors : Heard(m) = hdi[m]) => AlarmShielded
  BY ServiceAssumption DEF ServiceAssumption, WaitedAlarmShielded, AlarmShielded
<1> QED
  BY <1>1, Nominal, WaitedAlarmKept, AllIsHeard, PTL

\* StopVibratorByMode compares the mode of the record and joins the thread in
\* one critical section: it never ends a vibration of another mode that a thread
\* waits for, whatever the devices are.
THEOREM ModeSparesWhatIsWaited == Spec => []ModeSparesWaited
<1>1. Init => ModeInv
  BY AtFirst DEF ModeInv
<1>2. IInv /\ ModeInv /\ [Next]_vars => ModeInv'
  BY ModeStepped
<1>3. IInv /\ WaitedInv /\ ModeInv => ModeSparesWaited
  <2> SUFFICES ASSUME IInv, WaitedInv, ModeInv, NEW c \in Callers, Kind(c) = "mode",
                      pc[c] \in {"notify", "modeQuiet"}, Heard(First(todo[c])) # Idle
               PROVE  Heard(First(todo[c])).mode = op[c].mode
    <3>1. Idle.mode = ""
      BY DEF Idle, NoInfo
    <3> QED
      BY <3>1 DEF ModeSparesWaited
  <2>1. First(todo[c]) \in Motors
    BY FirstMotor DEF IInv, TypeOK, TodoInv
  <2>2. running[First(todo[c])] /\ Heard(First(todo[c])) = current[First(todo[c])]
    BY <2>1, HeardIsRecorded
  <2>3. pc[c] = "notify"
    BY <2>2 DEF IInv, QuietInv
  <2> QED
    BY <2>2, <2>3 DEF ModeInv
<1> QED
  BY <1>1, <1>2, <1>3, WaitedFollow, PTL DEF Spec

\* Without HD haptics and overrun, StopVibratorByMode ends vibrations of its mode
\* only.
THEOREM ModeSelective ==
  ASSUME Nominal
  PROVE  Spec => []ModeIsSelective
<1>1. IInv /\ ModeSparesWaited /\ (\A m \in Motors : Heard(m) = hdi[m]) => ModeIsSelective
  BY FirstMotor DEF IInv, TypeOK, TodoInv, ModeSparesWaited, ModeIsSelective
<1> QED
  BY <1>1, Nominal, ModeSparesWhatIsWaited, AllIsHeard, ServiceInv, PTL

\* The mute callback stores the switch before it stops the motors, and a request
\* is decided on under the mutex of that stop: no ring tone or notification that
\* was being admitted meanwhile goes on when the callback is done, if a thread
\* waits for it.
THEOREM MutedWhatIsWaited == Spec => []MutedWaitedSilent
<1>1. Init => CallInv /\ StopInv /\ MuteInv
  <2> SUFFICES ASSUME Init
               PROVE  CallInv /\ StopInv /\ MuteInv
    OBVIOUS
  <2> QED
    BY AtFirst, CallTypes DEF CallInv, StopInv, MuteInv
<1>2. IInv /\ CallInv /\ StopInv /\ MuteInv /\ [Next]_vars => CallInv' /\ StopInv' /\ MuteInv'
  BY CallStep, StopStepped, MuteStep
<1>3. IInv /\ WaitedInv /\ MuteInv => MutedWaitedSilent
  <2> SUFFICES ASSUME IInv, WaitedInv, MuteInv, muted, ~InProgress({"mute"}), NEW m \in Local
               PROVE  Heard(m).usage \notin AudioUsages
    BY DEF MutedWaitedSilent
  <2>1. m \in Motors
    BY ServiceAssumption DEF ServiceAssumption
  <2>2. Idle.usage \notin AudioUsages
    BY DEF Idle, NoInfo, AudioUsages
  <2> QED
    BY <2>1, <2>2, HeardIsRecorded DEF MuteInv
<1> QED
  BY <1>1, <1>2, <1>3, WaitedFollow, PTL DEF Spec

\* Without HD haptics and overrun, nothing for sound is left when the mute
\* callback is done.
THEOREM MutedSilent ==
  ASSUME Nominal
  PROVE  Spec => []MutedAudioSilent
<1>1. MutedWaitedSilent /\ (\A m \in Motors : Heard(m) = hdi[m]) => MutedAudioSilent
  BY ServiceAssumption DEF ServiceAssumption, MutedWaitedSilent, MutedAudioSilent
<1> QED
  BY <1>1, Nominal, MutedWhatIsWaited, AllIsHeard, PTL

\* ProcessDeathObserver finds its client in clientPidMap_, if that has room for
\* all, and devicesManageMutex_ keeps the motors it is done with from others:
\* when it is done, no thread plays for the dead client and nothing is left of
\* what a thread waited for.
THEOREM DeathEndsWhatIsWaited ==
  ASSUME Room
  PROVE  Spec => []DeathEndsWaited
<1>1. Init => StopInv /\ ClientInv /\ CleanInv
  <2> SUFFICES ASSUME Init
               PROVE  StopInv /\ ClientInv /\ CleanInv
    OBVIOUS
  <2> QED
    BY AtFirst, CallTypes DEF StopInv, ClientInv, CleanInv
<1>2. IInv /\ StopInv /\ ClientInv /\ CleanInv /\ [Next]_vars => StopInv' /\ ClientInv' /\ CleanInv'
  BY Room, StopStepped, ClientStep, CleanStep
<1>3. IInv /\ WaitedInv /\ ClientInv /\ CleanInv => DeathEndsWaited
  <2> SUFFICES ASSUME IInv, WaitedInv, ClientInv, CleanInv, NEW c \in Callers, pc[c] = "death",
                      NEW m \in MotorsOf(plugged) \ outer[c]
               PROVE  /\ Heard(m).pid # op[c].pid
                      /\ running[m] => current[m].pid # op[c].pid
    BY DEF DeathEndsWaited
  <2>1. Kind(c) = "death" /\ m \in Motors
    BY DEF IInv, KindInv, KindAt, MotorsOf
  <2>2. running[m] => current[m].pid # op[c].pid
    BY <2>1 DEF CleanInv
  <2>3. Idle.pid # op[c].pid
    BY <2>1, ThreadAssumption DEF ClientInv, IInv, TypeOK, Idle, NoInfo, ThreadAssumption
  <2> QED
    BY <2>1, <2>2, <2>3, HeardIsRecorded
<1> QED
  BY <1>1, <1>2, <1>3, Room, WaitedFollow, PTL DEF Spec

\* Without HD haptics and overrun, nothing vibrates for a dead client when its
\* handler is done.
THEOREM DeathCleans ==
  ASSUME Nominal, Room
  PROVE  Spec => []DeathCleansUp
<1>1. DeathEndsWaited /\ (\A m \in Motors : Heard(m) = hdi[m]) => DeathCleansUp
  BY DEF DeathEndsWaited, DeathCleansUp, MotorsOf
<1> QED
  BY <1>1, Nominal, Room, DeathEndsWhatIsWaited, AllIsHeard, PTL

-------------------------------------------------------------------------------
\* What motors forget is nothing they play.
LEMMA Forgotten ==
  ASSUME IInv, DeviceInv, NEW M \in SUBSET Motors, \A m \in M : ~running[m],
         hdi' = hdi, current' = [m \in Motors |-> IF m \in M THEN NoInfo ELSE current[m]]
  PROVE  Playback!PlaybackNext
<1>1. \A m \in M : hdi[m] = NoInfo
  BY PlayingIsRecorded DEF Idle
<1>2. Playback!Forget(M)
  BY <1>1 DEF Playback!Forget
<1> QED
  BY <1>2 DEF Playback!PlaybackNext

\* A device that stops is a motor that falls silent.
LEMMA Silenced ==
  ASSUME IInv, \A m \in Motors : hdi'[m] \in {hdi[m], Idle}, hdi' \in [Motors -> Infos \cup {NoInfo}],
         current' = current
  PROVE  Playback!PlaybackNext
<1> DEFINE M == {m \in Motors : hdi'[m] = NoInfo}
<1>1. hdi' = [m \in Motors |-> IF m \in M THEN NoInfo ELSE hdi[m]]
  BY DEF Idle
<1>2. Playback!FallSilent(M)
  BY <1>1 DEF Playback!FallSilent
<1> QED
  BY <1>2 DEF Playback!PlaybackNext

\* Every step of the service is a step of MotorPlayback, or none.
LEMMA PlaybackStep ==
  ASSUME Nominal, IInv, PlaceInv, PlainInv, DeviceInv, [Next]_vars
  PROVE  Playback!PlaybackNext \/ UNCHANGED <<hdi, current>>
<1> USE DEF IInv
<1>0. /\ hdi \in [Motors -> Infos \cup {NoInfo}] /\ local \in [Motors -> Infos \cup {NoInfo}]
      /\ current \in [Motors -> Infos \cup {NoInfo}]
      /\ pc \in [Callers -> Pcs] /\ todo \in [Callers -> SUBSET Motors]
  BY DEF TypeOK, ThreadTypeOK
<1>1. CASE UNCHANGED vars
  BY <1>1 DEF vars, threadVars, deviceVars
<1>2. CASE Arrival
  <2>1. current' = current
    BY <1>2, Arrivals DEF threadVars
  <2>2. /\ hdi' \in [Motors -> Infos \cup {NoInfo}]
        /\ \A m \in Motors : hdi'[m] \in {hdi[m], Idle}
    BY <1>0, <1>2 DEF Arrival, ClientCall, MuteCallback, PlugEvent, DeathNotice, UnmuteCallback,
       TransferClientRemoteObject, DisableOrEnableVibratorByPid, deviceVars, Idle
  <2> QED
    BY <2>1, <2>2, Silenced
<1>3. ASSUME NEW m \in Motors, MotorStep(m) \/ DeviceStep(m)
      PROVE  Playback!PlaybackNext \/ UNCHANGED <<hdi, current>>
  <2>1. CASE RunBegin(m) \/ PlayFails(m) \/ WaitTimeout(m) \/ RunEnd(m)
    BY <2>1 DEF RunBegin, PlayFails, WaitTimeout, RunEnd, deviceVars
  <2>2. CASE PlayDevice(m)
    <3>1. local[m] = current[m] /\ current[m] # NoInfo
      <4>1. local[m] = current[m] /\ step[m] < local[m].count /\ step[m] \in 0 .. MaxCount
        BY <2>2 DEF PlayDevice, ThreadInv, TypeOK, ThreadTypeOK
      <4>2. MaxCount \in Nat /\ NoInfo.count = 0
        BY ThreadAssumption DEF ThreadAssumption, NoInfo
      <4> QED
        BY <4>1, <4>2
    <3>2. Playback!PlayAdmitted(m)
      BY <2>2, <3>1 DEF PlayDevice, Playback!PlayAdmitted
    <3> QED
      BY <3>2 DEF Playback!PlaybackNext
  <2>3. CASE ExitSeen(m) \/ HandleMultipleVibrations(m) \/ DeviceStep(m)
    <3>1. current' = current
      BY <2>3 DEF ExitSeen, HandleMultipleVibrations, DeviceStep, DeviceEnds, threadVars
    <3>2. /\ hdi' \in [Motors -> Infos \cup {NoInfo}]
          /\ \A n \in Motors : hdi'[n] \in {hdi[n], Idle}
      BY <1>0, <2>3 DEF ExitSeen, HandleMultipleVibrations, DeviceStep, DeviceEnds, DeviceStop,
         AfterStop, Idle
    <3> QED
      BY <3>1, <3>2, Silenced
  <2> QED
    BY <1>3, <2>1, <2>2, <2>3 DEF MotorStep, ThreadStep
<1>4. ASSUME NEW c \in Callers, CallerStep(c)
      PROVE  Playback!PlaybackNext \/ UNCHANGED <<hdi, current>>
  <2>1. CASE Launch(c)
    <3>1. First(todo[c]) \in Motors
      BY <1>0, <2>1, FirstMotor DEF Launch, TodoInv
    <3>2. hdi[First(todo[c])] = NoInfo /\ op[c].info \in Infos
      BY <2>1, <3>1, PlayingIsRecorded DEF Launch, QuietInv, KindInv, KindAt, Idle
    <3>3. Playback!AdmitTo(First(todo[c]))
      BY <1>0, <2>1, <3>1, <3>2 DEF Launch, StartThread, deviceVars, Playback!AdmitTo
    <3> QED
      BY <3>1, <3>3 DEF Playback!PlaybackNext
  <2>2. CASE SyncThread(c)
    <3>1. First(todo[c]) \in Motors
      BY <1>0, <2>2, FirstMotor DEF SyncThread, TodoInv
    <3>2. current' = [m \in Motors |-> IF m \in {First(todo[c])} THEN NoInfo ELSE current[m]]
      BY <1>0, <2>2, <3>1 DEF SyncThread, ExitSynced
    <3> QED
      BY <2>2, <3>1, <3>2, Forgotten DEF SyncThread, ExitSynced, deviceVars
  <2>3. CASE PlugErase(c) \/ PlugInsert(c)
    <3> DEFINE M == MotorsOf({op[c].device})
    <3>1. CASE current' = current
      BY <2>3, <3>1 DEF PlugErase, PlugInsert, deviceVars
    <3>2. CASE current' # current
      <4>1. FreshRecords(op[c].device) /\ hdi' = hdi
        BY <2>3, <3>2 DEF PlugErase, PlugInsert, deviceVars
      <4>2. ASSUME NEW m \in Motors, DeviceOf[m] = op[c].device
            PROVE  ~running[m]
        <5>1. CASE PlugErase(c)
          <6>1. Kind(c) = "plugOut" /\ pc[c] \in UnplugPcs /\ pc[c] = "plugErase"
            BY <5>1 DEF PlugErase, KindInv, KindAt, UnplugPcs
          <6>2. m \in MotorsOf({op[c].device}) \ outer[c]
            BY <4>2, <6>1 DEF PlugInv, MotorsOf
          <6> QED
            BY <6>1, <6>2 DEF PlugInv
        <5>2. CASE PlugInsert(c)
          BY <3>2, <4>2, <5>2 DEF PlugInsert, PlugInv
        <5> QED
          BY <2>3, <5>1, <5>2
      <4>3. current' = [m \in Motors |-> IF m \in M THEN NoInfo ELSE current[m]]
        BY <4>1 DEF FreshRecords, MotorsOf
      <4>4. M \in SUBSET Motors /\ \A m \in M : ~running[m]
        BY <4>2 DEF MotorsOf
      <4> QED
        BY <4>1, <4>3, <4>4, Forgotten
    <3> QED
      BY <3>1, <3>2
  <2>4. CASE ~(Launch(c) \/ SyncThread(c) \/ PlugErase(c) \/ PlugInsert(c))
    <3>1. current' = current
      BY <1>4, <2>4, ThreadEffects DEF threadVars, NotifyThread, NotifyExit
    <3>2. ~DirectPlay(c)
      BY DEF DirectPlay, PlainInv, PlaceInv, KindInv, KindAt, HdModes
    <3> QED
      BY <1>4, <3>1, <3>2, DeviceEffects, Silenced
  <2> QED
    BY <2>1, <2>2, <2>3, <2>4
<1> QED
  BY <1>1, <1>2, <1>3, <1>4 DEF Next

\* The service implements MotorPlayback: a motor plays nothing but the request
\* admitted to it last, a request is admitted to a quiet motor only, and what
\* plays is never without its record, however calls, plug events, deaths and
\* the mute callback interleave with the motors' threads.
THEOREM ImplementsPlayback ==
  ASSUME Nominal
  PROVE  Spec => PlaybackSpec
<1>1. Init => Playback!PlaybackInit
  BY DEF Playback!PlaybackInit, Init, ThreadInit, Idle
<1>2. IInv /\ PlaceInv /\ PlainInv /\ DeviceInv /\ [Next]_vars
        => [Playback!PlaybackNext]_(Playback!playbackVars)
  BY Nominal, PlaybackStep DEF Playback!playbackVars
<1> QED
  BY <1>1, <1>2, Nominal, DevicesFollow, PTL DEF Spec, PlaybackSpec, Playback!PlaybackSpec

================================================================================
