--------------------------- MODULE LightClientProofs ---------------------------
(***************************************************************************)
(* The lights, for any number of threads, lights, tries, and lives of the  *)
(* service and of the driver: the safety properties of LightClient follow  *)
(* from the inductive invariant IInv.                                      *)
(***************************************************************************)
EXTENDS LightClient, TLAPS

\* The types that the steps below read.  turnOnLights is left to TLC.
LightTypes ==
  /\ driverUp \in BOOLEAN /\ driverLife \in Nat
  /\ stage \in {"down", "starting", "up"} /\ life \in Nat
  /\ kind \in {"none", "hdi", "mock"}
  /\ lightInterface \in Nat /\ hdiLinks \subseteq Nat
  /\ connector \in [Connectors -> {"idle", "connect", "recipient", "read"}]
  /\ retry \in [Connectors -> 0 .. MaxTries]
  /\ \A t \in Connectors : connector[t] = "connect" <=> retry[t] < MaxTries
  /\ proxy \in Nat /\ proxy <= life
  /\ owner \in Threads \cup {NoOwner}
  /\ pc \in [Threads -> {"idle", "init", "fill", "check", "send", "use", "show",
                         "forget"}]
  /\ op \in [Threads -> {"none", "TurnOn", "TurnOff", "GetLightList", "death"}]
  /\ light \in [Threads -> Lights \cup {NoLight}]

\* The thread of OnStart is busy as long as the service starts, and nobody is
\* connected to it, or has been told its lights, before it is up.
StageInv ==
  /\ stage = "starting" <=> connector[Boot] # "idle"
  /\ stage = "starting" => proxy < life
  /\ stage # "up" => lightInfos = {}
  /\ lightInfos \subseteq lightInfoList

\* An interface has its death recipient or a thread that connects, and a proxy
\* has its recipient or a thread that is about to forget it, dead or alive.
RecipientInv ==
  /\ kind = "hdi" /\ lightInterface # 0
       => lightInterface \in hdiLinks \/ \E t \in Connectors : Connecting(t)
  /\ proxy # 0
       => proxy \in deathLinks \/ \E t \in Observers : pc[t] = "forget"

\* A thread that has a call in the service holds clientMutex_, and a thread that
\* is busy knows with which call.
OwnerInv ==
  \A t \in Threads : /\ pc[t] \in {"fill", "use"} <=> owner = t
                     /\ pc[t] # "idle" => op[t] # "none"

\* What the client knows of a living service it has been told by it.
KnownInv ==
  /\ \A t \in Threads : pc[t] = "fill" => known = {}
  /\ Alive(proxy) => known \subseteq lightInfos
  /\ \A t \in Threads : pc[t] = "use" /\ Alive(proxy) => light[t] \in lightInfoList

IInv == LightTypes /\ StageInv /\ RecipientInv /\ OwnerInv /\ KnownInv

-------------------------------------------------------------------------------
\* A step is one of these, with the thread that takes it.
Elsewhere == UNCHANGED <<clientVars, threadVars>>

\* Every step is one of a list, and says which variables it leaves alone.
LEMMA StepCases ==
  ASSUME [Next]_vars
  PROVE  \/ Elsewhere /\ ServiceStarts
         \/ Elsewhere /\ ServiceDies
         \/ Elsewhere /\ (DriverDies \/ DriverStarts)
         \/ \E t \in Connectors : Elsewhere /\ GetLightInterface(t)
         \/ \E t \in Connectors : Elsewhere /\ GetLightInterfaceFails(t)
         \/ \E t \in Connectors : Elsewhere /\ RegisterHdiDeathRecipient(t)
         \/ Elsewhere /\ ReadLights
         \/ Elsewhere /\ ReadFails
         \/ \E t \in DriverObservers : Elsewhere /\ ProcessDriverDeath(t)
         \/ \E t \in DriverObservers : Elsewhere /\ ProcessDeathDestroyed(t)
         \/ \E t \in Apps : Call(t)
         \/ \E t \in Threads : InitFound(t) \/ InitFails(t)
         \/ \E t \in Threads : InitLightClient(t)
         \/ \E t \in Threads : Fill(t)
         \/ \E t \in Threads : Check(t) \/ Show(t)
         \/ \E t \in Threads : Send(t)
         \/ \E t \in Threads : Use(t)
         \/ \E t \in Threads : Crash(t)
         \/ \E t \in Observers : DeathNotice(t)
         \/ \E t \in Observers : ProcessDeathObserver(t)
         \/ UNCHANGED vars
  BY DEF Next, ThreadStep, ObserverStep, ServiceSide, Processes, ServiceStep,
         Connectors, Threads, Elsewhere

\* Where a call goes on when the client is connected.
LEMMA GoesOn ==
  ASSUME LightTypes, NEW t \in Threads, op[t] # "none", GoOnAfterInit(t)
  PROVE  /\ pc' \in {[pc EXCEPT ![t] = place] : place \in {"check", "show", "idle"}}
         /\ op' \in {op, [op EXCEPT ![t] = "none"]}
         /\ pc'[t] # "idle" => op' = op
         /\ light' \in {light, [light EXCEPT ![t] = NoLight]}
<1>1. op[t] \in {"TurnOn", "TurnOff", "GetLightList", "death"}
  BY DEF LightTypes
<1>2. CASE op[t] \in {"TurnOn", "TurnOff"}
  BY <1>2 DEF GoOnAfterInit, Goto
<1>3. CASE op[t] = "GetLightList"
  BY <1>3 DEF GoOnAfterInit, Goto
<1>4. CASE op[t] = "death"
  BY <1>4 DEF GoOnAfterInit, Return, LightTypes
<1> QED
  BY <1>1, <1>2, <1>3, <1>4

\* The mock in place of the driver.
LEMMA FallBackTypes ==
  ASSUME LightTypes, Elsewhere, FallBack(hdiLinks)
  PROVE  LightTypes'
<1>1. UNCHANGED <<driverVars, life, clientVars, threadVars>>
  BY DEF FallBack, Elsewhere
<1>2. kind' = "mock" /\ stage' = "up" /\ lightInterface' = 0 /\ hdiLinks' \subseteq Nat
  BY DEF FallBack, LightTypes
<1>3. /\ connector' = [u \in Connectors |-> "idle"]
      /\ retry' = [u \in Connectors |-> MaxTries]
  BY DEF FallBack
<1> QED
  BY <1>1, <1>2, <1>3, LightDriverAssumption
     DEF LightTypes, driverVars, clientVars, threadVars

\* Every step keeps the types.
LEMMA StepTypes ==
  ASSUME LightTypes, OwnerInv, [Next]_vars
  PROVE  LightTypes'
<1> USE LightDriverAssumption, ClientAssumption
        DEF LightTypes, Threads, Connectors, Lights, GoOn, Goto, Return,
            Elsewhere, clientVars, threadVars, driverVars, serviceVars, hdiVars, connVars
<1>1. CASE Elsewhere /\ ServiceStarts
  BY <1>1 DEF ServiceStarts
<1>2. CASE Elsewhere /\ ServiceDies
  BY <1>2 DEF ServiceDies, Gone
<1>3. CASE Elsewhere /\ (DriverDies \/ DriverStarts)
  <2>1. CASE DriverDies
    BY <2>1, <1>3 DEF DriverDies
  <2>2. CASE DriverStarts
    BY <2>2, <1>3 DEF DriverStarts
  <2> QED
    BY <1>3, <2>1, <2>2
<1>4. ASSUME NEW t \in Connectors, Elsewhere /\ GetLightInterface(t)
      PROVE  LightTypes'
  BY <1>4 DEF GetLightInterface
<1>5. ASSUME NEW t \in Connectors, Elsewhere /\ GetLightInterfaceFails(t)
      PROVE  LightTypes'
  <2>1. CASE t = Boot /\ retry[t] + 1 = MaxTries
    BY <2>1, <1>5, FallBackTypes DEF GetLightInterfaceFails
  <2>2. CASE ~(t = Boot /\ retry[t] + 1 = MaxTries)
    <3>1. /\ MaxTries \in Nat /\ retry[t] \in 0 .. MaxTries /\ retry[t] < MaxTries
          /\ lightInterface' = 0 /\ retry' = [retry EXCEPT ![t] = @ + 1]
          /\ connector' = [connector EXCEPT
                              ![t] = IF retry[t] + 1 < MaxTries THEN "connect" ELSE "idle"]
      BY <2>2, <1>5 DEF GetLightInterfaceFails
    <3>2. UNCHANGED <<driverVars, stage, life, kind, hdiLinks, clientVars, threadVars>>
      BY <2>2, <1>5 DEF GetLightInterfaceFails
    <3>3. retry' \in [Connectors -> 0 .. MaxTries]
      BY <3>1
    <3>4. \A u \in Connectors : connector'[u] = "connect" <=> retry'[u] < MaxTries
      BY <3>1
    <3> QED
      BY <3>1, <3>2, <3>3, <3>4
  <2> QED
    BY <2>1, <2>2
<1>6. ASSUME NEW t \in Connectors, Elsewhere /\ RegisterHdiDeathRecipient(t)
      PROVE  LightTypes'
  BY <1>6 DEF RegisterHdiDeathRecipient
<1>7. CASE Elsewhere /\ ReadLights
  BY <1>7 DEF ReadLights
<1>8. CASE Elsewhere /\ ReadFails
  <2>1. CASE FallBack(hdiLinks)
    BY <2>1, <1>8, FallBackTypes
  <2>2. CASE Gone /\ UNCHANGED driverVars
    BY <2>2, <1>8 DEF Gone
  <2> QED
    BY <1>8, <2>1, <2>2 DEF ReadFails
<1>9. ASSUME NEW t \in DriverObservers, Elsewhere /\ ProcessDriverDeath(t)
      PROVE  LightTypes'
  BY <1>9 DEF ProcessDriverDeath
<1>10. ASSUME NEW t \in DriverObservers, Elsewhere /\ ProcessDeathDestroyed(t)
      PROVE  LightTypes'
  BY <1>10 DEF ProcessDeathDestroyed, Gone
<1>11. ASSUME NEW t \in Apps, Call(t)
      PROVE  LightTypes'
  BY <1>11 DEF Call
<1>12. ASSUME NEW t \in Threads, InitFound(t) \/ InitFails(t)
      PROVE  LightTypes'
  <2>1. CASE InitFound(t)
    BY <2>1, GoesOn DEF InitFound, OwnerInv
  <2>2. CASE InitFails(t)
    BY <2>2 DEF InitFails
  <2> QED
    BY <1>12, <2>1, <2>2
<1>13. ASSUME NEW t \in Threads, InitLightClient(t)
      PROVE  LightTypes'
  BY <1>13 DEF InitLightClient
<1>14. ASSUME NEW t \in Threads, Fill(t)
      PROVE  LightTypes'
  <2>1. /\ owner' = NoOwner
        /\ UNCHANGED <<driverVars, proxy, stage, life, hdiVars, connVars>>
    BY <1>14 DEF Fill, GetLightList
  <2>2. GoOnAfterInit(t) /\ op[t] # "none"
    BY <1>14 DEF Fill, OwnerInv
  <2>3. /\ pc' \in [Threads -> {"idle", "init", "fill", "check", "send", "use", "show",
                              "forget"}]
        /\ op' \in [Threads -> {"none", "TurnOn", "TurnOff", "GetLightList", "death"}]
        /\ light' \in [Threads -> Lights \cup {NoLight}]
    BY <2>2, GoesOn
  <2> QED
    BY <2>1, <2>3
<1>15. ASSUME NEW t \in Threads, Check(t) \/ Show(t)
      PROVE  LightTypes'
  BY <1>15 DEF Check, Show, ConvertLightInfos
<1>16. ASSUME NEW t \in Threads, Send(t)
      PROVE  LightTypes'
  BY <1>16 DEF Send, IsValid
<1>17. ASSUME NEW t \in Threads, Use(t)
      PROVE  LightTypes'
  BY <1>17 DEF Use
<1>18. ASSUME NEW t \in Threads, Crash(t)
      PROVE  LightTypes'
  BY <1>18 DEF Crash, Gone
<1>19. ASSUME NEW t \in Observers, DeathNotice(t)
      PROVE  LightTypes'
  BY <1>19 DEF DeathNotice
<1>20. ASSUME NEW t \in Observers, ProcessDeathObserver(t)
      PROVE  LightTypes'
  BY <1>20 DEF ProcessDeathObserver
<1>21. CASE UNCHANGED vars
  BY <1>21 DEF vars
<1> QED
  BY <1>1, <1>2, <1>3, <1>4, <1>5, <1>6, <1>7, <1>8, <1>9, <1>10, <1>11, <1>12,
     <1>13, <1>14, <1>15, <1>16, <1>17, <1>18, <1>19, <1>20, <1>21, StepCases

\* Only the thread of OnStart starts a service, and only a service that is up
\* tells its lights.
LEMMA StepStage ==
  ASSUME LightTypes, StageInv, OwnerInv, [Next]_vars
  PROVE  StageInv'
<1> USE LightDriverAssumption, ClientAssumption
        DEF LightTypes, StageInv, Threads, Connectors, GoOn,
            Elsewhere, clientVars, threadVars, driverVars, serviceVars, hdiVars, connVars
<1>1. CASE Elsewhere /\ ServiceStarts
  BY <1>1 DEF ServiceStarts
<1>2. CASE Elsewhere /\ ServiceDies
  BY <1>2 DEF ServiceDies, Gone
<1>3. CASE Elsewhere /\ (DriverDies \/ DriverStarts)
  BY <1>3 DEF DriverDies, DriverStarts
<1>4. ASSUME NEW t \in Connectors, Elsewhere /\ GetLightInterface(t)
      PROVE  StageInv'
  BY <1>4 DEF GetLightInterface, Connecting
<1>5. ASSUME NEW t \in Connectors, Elsewhere /\ GetLightInterfaceFails(t)
      PROVE  StageInv'
  <2>1. CASE t = Boot /\ retry[t] + 1 = MaxTries
    BY <2>1, <1>5 DEF GetLightInterfaceFails, FallBack
  <2>2. CASE ~(t = Boot /\ retry[t] + 1 = MaxTries)
    BY <2>2, <1>5 DEF GetLightInterfaceFails
  <2> QED
    BY <2>1, <2>2
<1>6. ASSUME NEW t \in Connectors, Elsewhere /\ RegisterHdiDeathRecipient(t)
      PROVE  StageInv'
  BY <1>6 DEF RegisterHdiDeathRecipient
<1>7. CASE Elsewhere /\ ReadLights
  BY <1>7 DEF ReadLights
<1>8. CASE Elsewhere /\ ReadFails
  BY <1>8 DEF ReadFails, FallBack, Gone
<1>9. ASSUME NEW t \in DriverObservers, Elsewhere /\ ProcessDriverDeath(t)
      PROVE  StageInv'
  BY <1>9 DEF ProcessDriverDeath
<1>10. ASSUME NEW t \in DriverObservers, Elsewhere /\ ProcessDeathDestroyed(t)
      PROVE  StageInv'
  BY <1>10 DEF ProcessDeathDestroyed, Gone
<1>11. ASSUME NEW t \in Apps, Call(t)
      PROVE  StageInv'
  BY <1>11 DEF Call
<1>12. ASSUME NEW t \in Threads, InitFound(t) \/ InitFails(t)
      PROVE  StageInv'
  BY <1>12 DEF InitFound, InitFails
<1>13. ASSUME NEW t \in Threads, InitLightClient(t)
      PROVE  StageInv'
  BY <1>13 DEF InitLightClient
<1>14. ASSUME NEW t \in Threads, Fill(t)
      PROVE  StageInv'
  BY <1>14 DEF Fill, GetLightList, Alive
<1>15. ASSUME NEW t \in Threads, Check(t) \/ Show(t)
      PROVE  StageInv'
  BY <1>15 DEF Check, Show, ConvertLightInfos
<1>16. ASSUME NEW t \in Threads, Send(t)
      PROVE  StageInv'
  BY <1>16 DEF Send, IsValid
<1>17. ASSUME NEW t \in Threads, Use(t)
      PROVE  StageInv'
  BY <1>17 DEF Use
<1>18. ASSUME NEW t \in Threads, Crash(t)
      PROVE  StageInv'
  BY <1>18 DEF Crash, Gone
<1>19. ASSUME NEW t \in Observers, DeathNotice(t)
      PROVE  StageInv'
  BY <1>19 DEF DeathNotice
<1>20. ASSUME NEW t \in Observers, ProcessDeathObserver(t)
      PROVE  StageInv'
  BY <1>20 DEF ProcessDeathObserver
<1>21. CASE UNCHANGED vars
  BY <1>21 DEF vars
<1> QED
  BY <1>1, <1>2, <1>3, <1>4, <1>5, <1>6, <1>7, <1>8, <1>9, <1>10, <1>11, <1>12,
     <1>13, <1>14, <1>15, <1>16, <1>17, <1>18, <1>19, <1>20, <1>21, StepCases

\* A recipient that is used up leaves a thread that connects, or forgets.
LEMMA StepRecipient ==
  ASSUME LightTypes, RecipientInv, OwnerInv, [Next]_vars
  PROVE  RecipientInv'
<1> USE LightDriverAssumption, ClientAssumption
        DEF LightTypes, RecipientInv, Connecting, Threads, Connectors, GoOn, Goto,
            Return, Elsewhere, clientVars, threadVars, driverVars, serviceVars, hdiVars, connVars
<1>1. CASE Elsewhere /\ ServiceStarts
  BY <1>1 DEF ServiceStarts
<1>2. CASE Elsewhere /\ ServiceDies
  BY <1>2 DEF ServiceDies, Gone
<1>3. CASE Elsewhere /\ (DriverDies \/ DriverStarts)
  BY <1>3 DEF DriverDies, DriverStarts
<1>4. ASSUME NEW t \in Connectors, Elsewhere /\ GetLightInterface(t)
      PROVE  RecipientInv'
  BY <1>4 DEF GetLightInterface
<1>5. ASSUME NEW t \in Connectors, Elsewhere /\ GetLightInterfaceFails(t)
      PROVE  RecipientInv'
  BY <1>5 DEF GetLightInterfaceFails, FallBack
<1>6. ASSUME NEW t \in Connectors, Elsewhere /\ RegisterHdiDeathRecipient(t)
      PROVE  RecipientInv'
  BY <1>6 DEF RegisterHdiDeathRecipient
<1>7. CASE Elsewhere /\ ReadLights
  BY <1>7 DEF ReadLights
<1>8. CASE Elsewhere /\ ReadFails
  BY <1>8 DEF ReadFails, FallBack, Gone
<1>9. ASSUME NEW t \in DriverObservers, Elsewhere /\ ProcessDriverDeath(t)
      PROVE  RecipientInv'
  BY <1>9 DEF ProcessDriverDeath
<1>10. ASSUME NEW t \in DriverObservers, Elsewhere /\ ProcessDeathDestroyed(t)
      PROVE  RecipientInv'
  BY <1>10 DEF ProcessDeathDestroyed, Gone
<1>11. ASSUME NEW t \in Apps, Call(t)
      PROVE  RecipientInv'
  BY <1>11 DEF Call
<1>12. ASSUME NEW t \in Threads, InitFound(t) \/ InitFails(t)
      PROVE  RecipientInv'
  <2>1. CASE InitFound(t)
    BY <2>1, GoesOn DEF InitFound, OwnerInv
  <2>2. CASE InitFails(t)
    BY <2>2 DEF InitFails
  <2> QED
    BY <1>12, <2>1, <2>2
<1>13. ASSUME NEW t \in Threads, InitLightClient(t)
      PROVE  RecipientInv'
  BY <1>13 DEF InitLightClient
<1>14. ASSUME NEW t \in Threads, Fill(t)
      PROVE  RecipientInv'
  <2>1. GoOnAfterInit(t) /\ op[t] # "none"
    BY <1>14 DEF Fill, OwnerInv
  <2> QED
    BY <1>14, <2>1, GoesOn DEF Fill, GetLightList
<1>15. ASSUME NEW t \in Threads, Check(t) \/ Show(t)
      PROVE  RecipientInv'
  BY <1>15 DEF Check, Show, ConvertLightInfos
<1>16. ASSUME NEW t \in Threads, Send(t)
      PROVE  RecipientInv'
  BY <1>16 DEF Send, IsValid
<1>17. ASSUME NEW t \in Threads, Use(t)
      PROVE  RecipientInv'
  BY <1>17 DEF Use
<1>18. ASSUME NEW t \in Threads, Crash(t)
      PROVE  RecipientInv'
  BY <1>18 DEF Crash, Gone
<1>19. ASSUME NEW t \in Observers, DeathNotice(t)
      PROVE  RecipientInv'
  BY <1>19 DEF DeathNotice
<1>20. ASSUME NEW t \in Observers, ProcessDeathObserver(t)
      PROVE  RecipientInv'
  BY <1>20 DEF ProcessDeathObserver
<1>21. CASE UNCHANGED vars
  BY <1>21 DEF vars
<1> QED
  BY <1>1, <1>2, <1>3, <1>4, <1>5, <1>6, <1>7, <1>8, <1>9, <1>10, <1>11, <1>12,
     <1>13, <1>14, <1>15, <1>16, <1>17, <1>18, <1>19, <1>20, <1>21, StepCases

\* clientMutex_ goes to one thread at a time.
LEMMA StepOwner ==
  ASSUME LightTypes, OwnerInv, [Next]_vars
  PROVE  OwnerInv'
<1> USE LightDriverAssumption, ClientAssumption
        DEF LightTypes, OwnerInv, Threads, Goto, Return,
            Elsewhere, clientVars, threadVars, driverVars, serviceVars, hdiVars, connVars
<1>1. CASE Elsewhere /\ ServiceStarts
  BY <1>1 DEF ServiceStarts
<1>2. CASE Elsewhere /\ ServiceDies
  BY <1>2 DEF ServiceDies, Gone
<1>3. CASE Elsewhere /\ (DriverDies \/ DriverStarts)
  BY <1>3 DEF DriverDies, DriverStarts
<1>4. ASSUME NEW t \in Connectors, Elsewhere /\ GetLightInterface(t)
      PROVE  OwnerInv'
  BY <1>4 DEF GetLightInterface
<1>5. ASSUME NEW t \in Connectors, Elsewhere /\ GetLightInterfaceFails(t)
      PROVE  OwnerInv'
  BY <1>5 DEF GetLightInterfaceFails, FallBack
<1>6. ASSUME NEW t \in Connectors, Elsewhere /\ RegisterHdiDeathRecipient(t)
      PROVE  OwnerInv'
  BY <1>6 DEF RegisterHdiDeathRecipient
<1>7. CASE Elsewhere /\ ReadLights
  BY <1>7 DEF ReadLights
<1>8. CASE Elsewhere /\ ReadFails
  BY <1>8 DEF ReadFails, FallBack, Gone
<1>9. ASSUME NEW t \in DriverObservers, Elsewhere /\ ProcessDriverDeath(t)
      PROVE  OwnerInv'
  BY <1>9 DEF ProcessDriverDeath
<1>10. ASSUME NEW t \in DriverObservers, Elsewhere /\ ProcessDeathDestroyed(t)
      PROVE  OwnerInv'
  BY <1>10 DEF ProcessDeathDestroyed, Gone
<1>11. ASSUME NEW t \in Apps, Call(t)
      PROVE  OwnerInv'
  BY <1>11 DEF Call
<1>12. ASSUME NEW t \in Threads, InitFound(t) \/ InitFails(t)
      PROVE  OwnerInv'
  <2>1. CASE InitFound(t)
    BY <2>1, GoesOn DEF InitFound, OwnerInv
  <2>2. CASE InitFails(t)
    BY <2>2 DEF InitFails
  <2> QED
    BY <1>12, <2>1, <2>2
<1>13. ASSUME NEW t \in Threads, InitLightClient(t)
      PROVE  OwnerInv'
  BY <1>13 DEF InitLightClient
<1>14. ASSUME NEW t \in Threads, Fill(t)
      PROVE  OwnerInv'
  <2>1. GoOnAfterInit(t) /\ op[t] # "none"
    BY <1>14 DEF Fill, OwnerInv
  <2> QED
    BY <1>14, <2>1, GoesOn DEF Fill, GetLightList
<1>15. ASSUME NEW t \in Threads, Check(t) \/ Show(t)
      PROVE  OwnerInv'
  BY <1>15 DEF Check, Show, ConvertLightInfos
<1>16. ASSUME NEW t \in Threads, Send(t)
      PROVE  OwnerInv'
  BY <1>16 DEF Send, IsValid
<1>17. ASSUME NEW t \in Threads, Use(t)
      PROVE  OwnerInv'
  BY <1>17 DEF Use
<1>18. ASSUME NEW t \in Threads, Crash(t)
      PROVE  OwnerInv'
  BY <1>18 DEF Crash, Gone
<1>19. ASSUME NEW t \in Observers, DeathNotice(t)
      PROVE  OwnerInv'
  BY <1>19 DEF DeathNotice
<1>20. ASSUME NEW t \in Observers, ProcessDeathObserver(t)
      PROVE  OwnerInv'
  BY <1>20 DEF ProcessDeathObserver
<1>21. CASE UNCHANGED vars
  BY <1>21 DEF vars
<1> QED
  BY <1>1, <1>2, <1>3, <1>4, <1>5, <1>6, <1>7, <1>8, <1>9, <1>10, <1>11, <1>12,
     <1>13, <1>14, <1>15, <1>16, <1>17, <1>18, <1>19, <1>20, <1>21, StepCases

\* Nothing is known of a service before it is asked, and what it told stays true
\* while it lives.
LEMMA StepKnown ==
  ASSUME LightTypes, StageInv, OwnerInv, KnownInv, [Next]_vars
  PROVE  KnownInv'
<1> USE LightDriverAssumption, ClientAssumption
        DEF LightTypes, StageInv, OwnerInv, KnownInv, Alive, Threads, GoOn, Goto, Return,
            Elsewhere, clientVars, threadVars, driverVars, serviceVars, hdiVars, connVars
<1>1. CASE Elsewhere /\ ServiceStarts
  BY <1>1 DEF ServiceStarts
<1>2. CASE Elsewhere /\ ServiceDies
  BY <1>2 DEF ServiceDies, Gone
<1>3. CASE Elsewhere /\ (DriverDies \/ DriverStarts)
  BY <1>3 DEF DriverDies, DriverStarts
<1>4. ASSUME NEW t \in Connectors, Elsewhere /\ GetLightInterface(t)
      PROVE  KnownInv'
  BY <1>4 DEF GetLightInterface
<1>5. ASSUME NEW t \in Connectors, Elsewhere /\ GetLightInterfaceFails(t)
      PROVE  KnownInv'
  BY <1>5 DEF GetLightInterfaceFails, FallBack
<1>6. ASSUME NEW t \in Connectors, Elsewhere /\ RegisterHdiDeathRecipient(t)
      PROVE  KnownInv'
  BY <1>6 DEF RegisterHdiDeathRecipient
<1>7. CASE Elsewhere /\ ReadLights
  BY <1>7 DEF ReadLights
<1>8. CASE Elsewhere /\ ReadFails
  BY <1>8 DEF ReadFails, FallBack, Gone
<1>9. ASSUME NEW t \in DriverObservers, Elsewhere /\ ProcessDriverDeath(t)
      PROVE  KnownInv'
  BY <1>9 DEF ProcessDriverDeath
<1>10. ASSUME NEW t \in DriverObservers, Elsewhere /\ ProcessDeathDestroyed(t)
      PROVE  KnownInv'
  BY <1>10 DEF ProcessDeathDestroyed, Gone
<1>11. ASSUME NEW t \in Apps, Call(t)
      PROVE  KnownInv'
  BY <1>11 DEF Call
<1>12. ASSUME NEW t \in Threads, InitFound(t) \/ InitFails(t)
      PROVE  KnownInv'
  <2>1. CASE InitFound(t)
    BY <2>1, GoesOn DEF InitFound, OwnerInv
  <2>2. CASE InitFails(t)
    BY <2>2 DEF InitFails
  <2> QED
    BY <1>12, <2>1, <2>2
<1>13. ASSUME NEW t \in Threads, InitLightClient(t)
      PROVE  KnownInv'
  BY <1>13 DEF InitLightClient
<1>14. ASSUME NEW t \in Threads, Fill(t)
      PROVE  KnownInv'
  <2>1. GoOnAfterInit(t) /\ op[t] # "none"
    BY <1>14 DEF Fill, OwnerInv
  <2> QED
    BY <1>14, <2>1, GoesOn DEF Fill, GetLightList
<1>15. ASSUME NEW t \in Threads, Check(t) \/ Show(t)
      PROVE  KnownInv'
  BY <1>15 DEF Check, Show, ConvertLightInfos
<1>16. ASSUME NEW t \in Threads, Send(t)
      PROVE  KnownInv'
  BY <1>16 DEF Send, IsValid
<1>17. ASSUME NEW t \in Threads, Use(t)
      PROVE  KnownInv'
  BY <1>17 DEF Use
<1>18. ASSUME NEW t \in Threads, Crash(t)
      PROVE  KnownInv'
  BY <1>18 DEF Crash, Gone
<1>19. ASSUME NEW t \in Observers, DeathNotice(t)
      PROVE  KnownInv'
  BY <1>19 DEF DeathNotice
<1>20. ASSUME NEW t \in Observers, ProcessDeathObserver(t)
      PROVE  KnownInv'
  BY <1>20 DEF ProcessDeathObserver
<1>21. CASE UNCHANGED vars
  BY <1>21 DEF vars
<1> QED
  BY <1>1, <1>2, <1>3, <1>4, <1>5, <1>6, <1>7, <1>8, <1>9, <1>10, <1>11, <1>12,
     <1>13, <1>14, <1>15, <1>16, <1>17, <1>18, <1>19, <1>20, <1>21, StepCases

\* The invariant of the lights holds in every reachable state.
THEOREM LightsInv == Spec => []IInv
<1>1. Init => IInv
  BY LightDriverAssumption, ClientAssumption
     DEF Init, ServiceInit, IInv, LightTypes, StageInv, RecipientInv, OwnerInv, KnownInv,
         Connecting, Threads, Connectors, Alive
<1>2. IInv /\ [Next]_vars => IInv'
  BY StepTypes, StepStage, StepRecipient, StepOwner, StepKnown DEF IInv
<1> QED
  BY <1>1, <1>2, PTL DEF Spec

\* What the client lets through the service would take, and no light reaches the
\* driver or the mock that the living service did not tell of.
THEOREM LightsAreTheirs == Spec => []OnlyTheirLights
<1>1. IInv => OnlyTheirLights
  BY DEF IInv, KnownInv, OnlyTheirLights
<1> QED
  BY <1>1, LightsInv, PTL

\* The proxy of a dead service and the interface of a dead driver are going to
\* be replaced, however often either dies.
THEOREM LightsStaleIsNoticed == Spec => []StaleIsNoticed
<1>1. IInv => StaleIsNoticed
  BY DEF IInv, RecipientInv, StaleIsNoticed, StaleInterfaceIsNoticed
<1> QED
  BY <1>1, LightsInv, PTL
================================================================================
