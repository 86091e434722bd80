--------------------------- MODULE LightHdiConnection ---------------------------
(***************************************************************************)
(* The lights as the service sees them: LightHdiConnection connects to the *)
(* light driver when the service starts and reads its lights once.         *)
(* HdiLightConnection connects again when the driver dies, on the thread   *)
(* of the notice.  If there is no driver, or it does not tell its lights,  *)
(* a mock, CompatibleLightConnection, takes its place for as long as the   *)
(* service lives.                                                          *)
(*                                                                         *)
(* The driver and the service are processes with lives.  What a driver     *)
(* shows is not kept: a light is on or off between the driver and its user.*)
(***************************************************************************)
EXTENDS Naturals, Sequences, SequencesExt

CONSTANTS
  DriverLights,    \* the lights the driver tells of
  MockLights,      \* supportLights of CompatibleLightConnection
  Boot,            \* the service's thread of OnStart
  DriverObservers, \* the threads on which the driver's death is announced
  MaxTries,        \* GET_HDI_SERVICE_COUNT
  MaxLives,        \* how often the service is started
  MaxDriverLives   \* how often the driver is started

Connectors == DriverObservers \cup {Boot}
Lights     == DriverLights \cup MockLights

ASSUME LightDriverAssumption ==
  /\ DriverLights # {} /\ MockLights # {}
  /\ Boot \notin DriverObservers
  /\ {MaxTries, MaxLives, MaxDriverLives} \subseteq Nat \ {0}

VARIABLES
  driverUp, driverLife, \* whether the driver runs, and in which life
  stage, life,          \* how far the service has come, and in which life
  kind,                 \* what iLightHdiConnection_ is
  lightInterface,       \* lightInterface_: the life it is for, 0 if null
  hdiLinks,             \* the driver's lives with a death recipient
  lightInfoList,        \* lightInfoList_ of LightHdiConnection
  lightInfos,           \* lightInfos_ of MiscdeviceService
  turnOnLights,         \* turnOnLights_ of the mock
  connector, retry      \* where the service's own threads are; retry of ConnectHdi

driverVars == <<driverUp, driverLife>>
hdiVars    == <<kind, lightInterface, hdiLinks, lightInfoList, turnOnLights>>
connVars   == <<connector, retry>>
serviceVars == <<stage, life, hdiVars, lightInfos, connVars>>

DriverAlive(n) == driverUp /\ n = driverLife
Connecting(t)  == connector[t] \in {"connect", "recipient"}

ServiceTypeOK ==
  /\ driverUp \in BOOLEAN /\ driverLife \in 0 .. MaxDriverLives
  /\ stage \in {"down", "starting", "up"} /\ life \in 0 .. MaxLives
  /\ kind \in {"none", "hdi", "mock"}
  /\ lightInterface \in 0 .. driverLife
  /\ hdiLinks \subseteq 1 .. driverLife
  /\ lightInfoList \subseteq Lights /\ lightInfos \subseteq lightInfoList
  /\ turnOnLights \in Seq(MockLights) /\ IsInjective(turnOnLights)
  /\ connector \in [Connectors -> {"idle", "connect", "recipient", "read"}]
  /\ retry \in [Connectors -> 0 .. MaxTries]
  /\ \A t \in Connectors : connector[t] = "connect" <=> retry[t] < MaxTries

\* A service that is not there.
Gone ==
  /\ stage' = "down"
  /\ kind' = "none" /\ lightInterface' = 0 /\ hdiLinks' = {}
  /\ lightInfoList' = {} /\ lightInfos' = {} /\ turnOnLights' = <<>>
  /\ connector' = [t \in Connectors |-> "idle"]
  /\ retry' = [t \in Connectors |-> MaxTries]
  /\ UNCHANGED life

ServiceInit ==
  /\ driverUp \in BOOLEAN /\ driverLife = (IF driverUp THEN 1 ELSE 0)
  /\ stage = "down" /\ life = 0
  /\ kind = "none" /\ lightInterface = 0 /\ hdiLinks = {}
  /\ lightInfoList = {} /\ lightInfos = {} /\ turnOnLights = <<>>
  /\ connector = [t \in Connectors |-> "idle"]
  /\ retry = [t \in Connectors |-> MaxTries]

GoOn(t, place) == connector' = [connector EXCEPT ![t] = place]

-------------------------------------------------------------------------------
\* InitLightInterface, called by OnStart before the service is published:
\* LightHdiConnection::ConnectHdi makes a HdiLightConnection.
ServiceStarts ==
  /\ stage = "down" /\ life < MaxLives
  /\ stage' = "starting" /\ life' = life + 1
  /\ kind' = "hdi"
  /\ retry' = [retry EXCEPT ![Boot] = 0]
  /\ GoOn(Boot, "connect")
  /\ UNCHANGED <<driverVars, lightInterface, hdiLinks, lightInfoList,
                 lightInfos, turnOnLights>>

\* The loop of HdiLightConnection::ConnectHdi; it waits before it tries again.
GetLightInterface(t) ==
  /\ connector[t] = "connect" /\ driverUp
  /\ lightInterface' = driverLife
  /\ retry' = [retry EXCEPT ![t] = MaxTries]
  /\ GoOn(t, "recipient")
  /\ UNCHANGED <<driverVars, stage, life, kind, hdiLinks, lightInfoList,
                 lightInfos, turnOnLights>>

\* The mock takes the place of the HdiLightConnection, which is destroyed with
\* its lightInterface_.  Its death recipient may outlive it, registered with the
\* driver.
FallBack(links) ==
  /\ kind' = "mock" /\ lightInterface' = 0
  /\ hdiLinks' \in {{}, links}
  /\ lightInfoList' = MockLights
  /\ stage' = "up"
  /\ connector' = [t \in Connectors |-> "idle"]
  /\ retry' = [t \in Connectors |-> MaxTries]
  /\ UNCHANGED <<driverVars, life, lightInfos, turnOnLights>>

GetLightInterfaceFails(t) ==
  /\ connector[t] = "connect" /\ ~driverUp
  /\ IF t = Boot /\ retry[t] + 1 = MaxTries
     THEN FallBack(hdiLinks)
     ELSE /\ lightInterface' = 0
          /\ retry' = [retry EXCEPT ![t] = @ + 1]
          /\ GoOn(t, IF retry[t] + 1 < MaxTries THEN "connect" ELSE "idle")
          /\ UNCHANGED <<driverVars, stage, life, kind, hdiLinks, lightInfoList,
                         lightInfos, turnOnLights>>

\* Mutant: connecting again leaves the recipient to the first connection.
RegisterRecipientAtBoot(t) ==
  /\ connector[t] = "recipient"
  /\ hdiLinks' = IF lightInterface # 0 /\ t = Boot
                 THEN hdiLinks \cup {lightInterface}
                 ELSE hdiLinks
  /\ GoOn(t, IF t = Boot THEN "read" ELSE "idle")
  /\ UNCHANGED <<driverVars, stage, life, kind, lightInterface, lightInfoList,
                 lightInfos, turnOnLights, retry>>

\* The observer is made once and registered with every interface.
RegisterHdiDeathRecipient(t) ==
  /\ connector[t] = "recipient"
  /\ hdiLinks' = IF lightInterface # 0 THEN hdiLinks \cup {lightInterface}
                                       ELSE hdiLinks
  /\ GoOn(t, IF t = Boot THEN "read" ELSE "idle")
  /\ UNCHANGED <<driverVars, stage, life, kind, lightInterface, lightInfoList,
                 lightInfos, turnOnLights, retry>>

\* ConnectHdiService reads the lights, and OnStart publishes the service.
ReadLights ==
  /\ connector[Boot] = "read" /\ lightInterface # 0 /\ DriverAlive(lightInterface)
  /\ lightInfoList' = DriverLights
  /\ stage' = "up"
  /\ GoOn(Boot, "idle")
  /\ UNCHANGED <<driverVars, life, kind, lightInterface, hdiLinks, lightInfos,
                 turnOnLights, retry>>

\* The driver refuses or is dead.  A thread that is connecting again meanwhile
\* goes on with a destroyed object, which ends the process or goes unnoticed.
ReadFails ==
  /\ connector[Boot] = "read"
  /\ \/ FallBack(hdiLinks)
     \/ /\ \E t \in DriverObservers : Connecting(t)
        /\ Gone /\ UNCHANGED driverVars

-------------------------------------------------------------------------------
\* ProcessDeathObserver and Reconnect, up to the loop of ConnectHdi.
ProcessDriverDeath(t) ==
  /\ connector[t] = "idle" /\ kind = "hdi"
  /\ \E n \in hdiLinks : ~DriverAlive(n) /\ hdiLinks' = hdiLinks \ {n}
  /\ retry' = [retry EXCEPT ![t] = 0]
  /\ GoOn(t, "connect")
  /\ UNCHANGED <<driverVars, stage, life, kind, lightInterface, lightInfoList,
                 lightInfos, turnOnLights>>

\* The notice reaches a recipient whose HdiLightConnection was destroyed.
ProcessDeathDestroyed(t) ==
  /\ connector[t] = "idle" /\ kind = "mock"
  /\ \E n \in hdiLinks : ~DriverAlive(n)
  /\ UNCHANGED driverVars
  /\ \/ Gone
     \/ /\ hdiLinks' = {}
        /\ UNCHANGED <<stage, life, kind, lightInterface, lightInfoList,
                       lightInfos, turnOnLights, connVars>>

ServiceDies ==
  /\ stage # "down"
  /\ Gone
  /\ UNCHANGED driverVars

DriverDies ==
  /\ driverUp
  /\ driverUp' = FALSE
  /\ UNCHANGED <<driverLife, serviceVars>>

DriverStarts ==
  /\ ~driverUp /\ driverLife < MaxDriverLives
  /\ driverUp' = TRUE /\ driverLife' = driverLife + 1
  /\ UNCHANGED serviceVars

\* What a thread of the service does next.
ServiceStep(t) ==
  \/ GetLightInterface(t) \/ GetLightInterfaceFails(t)
  \/ RegisterHdiDeathRecipient(t)
  \/ t = Boot /\ (ReadLights \/ ReadFails)
  \/ t # Boot /\ (ProcessDriverDeath(t) \/ ProcessDeathDestroyed(t))

Processes == ServiceStarts \/ ServiceDies \/ DriverDies \/ DriverStarts

-------------------------------------------------------------------------------
\* The answers of the service's calls.  Nothing here waits.

\* GetLightList takes over lightInfoList_ and answers with it.
GetLightList ==
  /\ lightInfos' = lightInfoList
  /\ UNCHANGED <<stage, life, hdiVars, connVars>>

\* Mutant: the client has checked the light already.
IsValidForAnyService(l) == l \in Lights

\* TurnOn and TurnOff up to the check of the interface: IsValid, and CHKPR in
\* HdiLightConnection.
IsValid(l) == l \in lightInfos

CanReach == kind = "mock" \/ lightInterface # 0

\* CompatibleLightConnection: what it keeps after a call it takes.
MockTurnOn(l) ==
  turnOnLights' = IF l \in Range(turnOnLights) \/ l \notin MockLights
                  THEN turnOnLights ELSE Append(turnOnLights, l)

MockTurnOff(l) == turnOnLights' = RemoveFirst(turnOnLights, l)

-------------------------------------------------------------------------------
\* Properties.

\* The interface of a driver that has died is going to be replaced: its death is
\* still to be announced, or a thread is connecting (RegisterHdiDeathRecipient
\* after every Get).
StaleInterfaceIsNoticed ==
  kind = "hdi" /\ lightInterface # 0 /\ ~DriverAlive(lightInterface)
    => lightInterface \in hdiLinks \/ \E t \in Connectors : Connecting(t)
================================================================================
