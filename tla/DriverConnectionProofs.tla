------------------------- MODULE DriverConnectionProofs ------------------------
(***************************************************************************)
(* The connection to the driver, for any number of threads, tries and      *)
(* lives of the driver: IInv of DriverConnection is inductive, and the     *)
(* safety properties follow from it.                                       *)
(***************************************************************************)
EXTENDS DriverConnection, TLAPS

\* A step is one of these, with the thread that takes it.
LEMMA StepCases ==
  ASSUME [Next]_vars
  PROVE  \/ OnStart \/ OnStop \/ PlugCheck \/ RegisterVibratorPlugCallback
         \/ DestroyHdiConnection \/ UnregisterHdiDeathRecipient
         \/ \E t \in Connectors : GetInterface(t)
         \/ \E t \in Connectors : GetInterfaceFails(t)
         \/ \E t \in Connectors : RegisterHdiDeathRecipient(t)
         \/ \E t \in Observers : ProcessDeathObserver(t)
         \/ \E t \in Users : DeviceCheck(t)
         \/ \E t \in Users : DeviceUse(t)
         \/ \E t \in Threads : Crash(t)
         \/ DriverDies \/ DriverStarts \/ UNCHANGED vars
  BY DEF Next, MainStep, ConnectStep, Connectors

\* OnStart and OnStop, connecting and calling keep the types: the counter of
\* tries stays within its bound.
LEMMA StepTypes ==
  ASSUME TypeOK, [Next]_vars
  PROVE  TypeOK'
<1> USE DriverAssumption DEF TypeOK, Threads, Connectors, Goto, AfterConnect
<1>1. CASE OnStart
  BY <1>1 DEF OnStart, driverVars, hdiVars
<1>2. CASE OnStop
  BY <1>2 DEF OnStop, driverVars, hdiVars
<1>3. CASE PlugCheck \/ RegisterVibratorPlugCallback
  <2>1. CASE PlugCheck
    BY <2>1 DEF PlugCheck, driverVars, hdiVars
  <2>2. CASE RegisterVibratorPlugCallback
    BY <2>2 DEF RegisterVibratorPlugCallback, driverVars, Alive
  <2> QED
    BY <1>3, <2>1, <2>2
<1>4. CASE DestroyHdiConnection \/ UnregisterHdiDeathRecipient
  BY <1>4 DEF DestroyHdiConnection, UnregisterHdiDeathRecipient, driverVars, Alive
<1>5. ASSUME NEW t \in Connectors, GetInterface(t)
      PROVE  TypeOK'
  BY <1>5 DEF GetInterface, driverVars
<1>6. ASSUME NEW t \in Connectors, GetInterfaceFails(t)
      PROVE  TypeOK'
  BY <1>6 DEF GetInterfaceFails, driverVars
<1>7. ASSUME NEW t \in Connectors, RegisterHdiDeathRecipient(t)
      PROVE  TypeOK'
  BY <1>7 DEF RegisterHdiDeathRecipient, driverVars
<1>8. ASSUME NEW t \in Observers, ProcessDeathObserver(t)
      PROVE  TypeOK'
  BY <1>8 DEF ProcessDeathObserver, driverVars
<1>9. ASSUME NEW t \in Users, DeviceCheck(t) \/ DeviceUse(t)
      PROVE  TypeOK'
  BY <1>9 DEF DeviceCheck, DeviceUse, driverVars, hdiVars
<1>10. ASSUME NEW t \in Threads, Crash(t)
       PROVE  TypeOK'
  BY <1>10 DEF Crash, driverVars, hdiVars
<1>11. CASE DriverDies \/ DriverStarts
  <2>1. CASE DriverDies
    BY <2>1 DEF DriverDies, hdiVars
  <2>2. CASE DriverStarts
    <3>1. life \in Nat /\ life' = life + 1 /\ life' \in 0 .. MaxLives
      BY <2>2 DEF DriverStarts
    <3>2. 0 .. life \subseteq 0 .. life' /\ 1 .. life \subseteq 1 .. life'
      BY <3>1
    <3> QED
      BY <2>2, <3>1, <3>2 DEF DriverStarts, hdiVars
  <2> QED
    BY <1>11, <2>1, <2>2
<1>12. CASE UNCHANGED vars
  BY <1>12 DEF vars, driverVars, hdiVars
<1> QED
  BY <1>1, <1>2, <1>3, <1>4, <1>5, <1>6, <1>7, <1>8, <1>9, <1>10, <1>11, <1>12,
     StepCases

\* No observer connects before OnStart has, and OnStop undoes what OnStart did.
LEMMA StepStage ==
  ASSUME IInv, [Next]_vars
  PROVE  StageInv'
<1> USE DriverAssumption DEF IInv, TypeOK, StageInv, Connecting, Threads, Connectors,
                             Goto, AfterConnect
<1>1. CASE OnStart
  BY <1>1 DEF OnStart, driverVars, hdiVars
<1>2. CASE OnStop
  BY <1>2 DEF OnStop, driverVars, hdiVars
<1>3. CASE PlugCheck \/ RegisterVibratorPlugCallback
  <2>1. CASE PlugCheck
    BY <2>1 DEF PlugCheck, hdiVars
  <2>2. CASE RegisterVibratorPlugCallback
    BY <2>2 DEF RegisterVibratorPlugCallback
  <2> QED
    BY <1>3, <2>1, <2>2
<1>4. CASE DestroyHdiConnection \/ UnregisterHdiDeathRecipient
  BY <1>4 DEF DestroyHdiConnection, UnregisterHdiDeathRecipient
<1>5. ASSUME NEW t \in Connectors, GetInterface(t)
      PROVE  StageInv'
  BY <1>5 DEF GetInterface
<1>6. ASSUME NEW t \in Connectors, GetInterfaceFails(t)
      PROVE  StageInv'
  BY <1>6 DEF GetInterfaceFails
<1>7. ASSUME NEW t \in Connectors, RegisterHdiDeathRecipient(t)
      PROVE  StageInv'
  BY <1>7 DEF RegisterHdiDeathRecipient
<1>8. ASSUME NEW t \in Observers, ProcessDeathObserver(t)
      PROVE  StageInv'
  <2>1. ~(stage = "new" /\ pc[Main] = "idle")
    BY <1>8 DEF ProcessDeathObserver, RecipientInv, OneConnection
  <2> QED
    BY <1>8, <2>1 DEF ProcessDeathObserver
<1>9. ASSUME NEW t \in Users, DeviceCheck(t) \/ DeviceUse(t)
      PROVE  StageInv'
  BY <1>9 DEF DeviceCheck, DeviceUse, hdiVars
<1>10. ASSUME NEW t \in Threads, Crash(t)
       PROVE  StageInv'
  BY <1>10 DEF Crash, hdiVars
<1>11. CASE DriverDies \/ DriverStarts
  BY <1>11 DEF DriverDies, DriverStarts, hdiVars
<1>12. CASE UNCHANGED vars
  BY <1>12 DEF vars, hdiVars
<1> QED
  BY <1>1, <1>2, <1>3, <1>4, <1>5, <1>6, <1>7, <1>8, <1>9, <1>10, <1>11, <1>12,
     StepCases

\* One thread connects at a time, and gives what it gets a death recipient.
LEMMA StepRecipient ==
  ASSUME IInv, [Next]_vars
  PROVE  RecipientInv'
<1> USE DriverAssumption DEF IInv, TypeOK, RecipientInv, OneConnection, Connecting,
                             Threads, Connectors, Goto, AfterConnect
<1>1. CASE OnStart
  BY <1>1 DEF OnStart, driverVars, hdiVars, StageInv
<1>2. CASE OnStop
  BY <1>2 DEF OnStop, driverVars, hdiVars
<1>3. CASE PlugCheck \/ RegisterVibratorPlugCallback
  BY <1>3 DEF PlugCheck, RegisterVibratorPlugCallback, driverVars, hdiVars, StageInv
<1>4. CASE DestroyHdiConnection \/ UnregisterHdiDeathRecipient
  <2>1. stage = "stopped" /\ stage' = stage /\ vibratorInterface' = vibratorInterface
    BY <1>4 DEF DestroyHdiConnection, UnregisterHdiDeathRecipient, StageInv
  <2>2. deathLinks' \subseteq deathLinks
    BY <1>4 DEF DestroyHdiConnection, UnregisterHdiDeathRecipient
  <2>3. \A t \in Connectors : Connecting(t)' => Connecting(t)
    BY <1>4 DEF DestroyHdiConnection, UnregisterHdiDeathRecipient
  <2> QED
    BY <2>1, <2>2, <2>3
<1>5. ASSUME NEW t \in Connectors, GetInterface(t)
      PROVE  RecipientInv'
  BY <1>5 DEF GetInterface
<1>6. ASSUME NEW t \in Connectors, GetInterfaceFails(t)
      PROVE  RecipientInv'
  BY <1>6 DEF GetInterfaceFails
<1>7. ASSUME NEW t \in Connectors, RegisterHdiDeathRecipient(t)
      PROVE  RecipientInv'
  BY <1>7 DEF RegisterHdiDeathRecipient
<1>8. ASSUME NEW t \in Observers, ProcessDeathObserver(t)
      PROVE  RecipientInv'
  BY <1>8 DEF ProcessDeathObserver
<1>9. ASSUME NEW t \in Users, DeviceCheck(t) \/ DeviceUse(t)
      PROVE  RecipientInv'
  BY <1>9 DEF DeviceCheck, DeviceUse, hdiVars
<1>10. ASSUME NEW t \in Threads, Crash(t)
       PROVE  RecipientInv'
  BY <1>10 DEF Crash, hdiVars
<1>11. CASE DriverDies \/ DriverStarts
  BY <1>11 DEF DriverDies, DriverStarts, hdiVars
<1>12. CASE UNCHANGED vars
  BY <1>12 DEF vars, hdiVars
<1> QED
  BY <1>1, <1>2, <1>3, <1>4, <1>5, <1>6, <1>7, <1>8, <1>9, <1>10, <1>11, <1>12,
     StepCases

\* The invariant of the connection holds in every reachable state.
THEOREM ConnectionInv == Spec => []IInv
<1>1. Init => IInv
  <2> SUFFICES ASSUME Init
               PROVE  IInv
    OBVIOUS
  <2>1. TypeOK
    <3>1. life \in {0, 1} /\ life \in 0 .. MaxLives
      BY DriverAssumption DEF Init
    <3>2. \A t \in Threads : pc[t] = "connect" <=> retry[t] < MaxTries
      BY DriverAssumption DEF Init
    <3>3. pc \in [Threads -> {"idle"}] /\ retry \in [Threads -> 0 .. MaxTries]
      BY DriverAssumption DEF Init
    <3>4. up \in BOOLEAN /\ eventCallback \in BOOLEAN /\ stage = "new"
      BY DEF Init
    <3>5. vibratorInterface \in 0 .. life /\ deathLinks = {} /\ plugCallback = {}
      BY <3>1 DEF Init
    <3> QED
      BY <3>1, <3>2, <3>3, <3>4, <3>5 DEF TypeOK
  <2>2. RecipientInv /\ StageInv
    BY DriverAssumption
       DEF Init, RecipientInv, StageInv, OneConnection, Connecting, Threads, Connectors
  <2> QED
    BY <2>1, <2>2 DEF IInv
<1>2. IInv /\ [Next]_vars => IInv'
  BY StepTypes, StepStage, StepRecipient DEF IInv
<1> QED
  BY <1>1, <1>2, PTL DEF Spec

\* Types: a thread in ConnectHdi's loop has a try left.
THEOREM TypeCorrect == Spec => []TypeOK
<1>1. IInv => TypeOK
  BY DEF IInv
<1> QED
  BY <1>1, ConnectionInv, PTL

\* ConnectHdi runs on one thread at a time.
THEOREM ConnectsAlone == Spec => []OneConnection
<1>1. IInv => OneConnection
  BY DEF IInv, RecipientInv
<1> QED
  BY <1>1, ConnectionInv, PTL

\* The interface of a dead driver is always going to be replaced.
THEOREM StaleIsNoticed == Spec => []StaleInterfaceIsNoticed
<1>1. IInv => StaleInterfaceIsNoticed
  BY DEF IInv, RecipientInv, StaleInterfaceIsNoticed
<1> QED
  BY <1>1, ConnectionInv, PTL
================================================================================
