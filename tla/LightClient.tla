------------------------------ MODULE LightClient -------------------------------
(***************************************************************************)
(* A process that uses the lights: LightClient, its connection to the      *)
(* service, and the calls of its threads, composed with the service and    *)
(* its driver (LightHdiConnection).  clientMutex_ guards the proxy and is  *)
(* held during a call of the service; it does not guard lightInfoList_,    *)
(* which the calls read while another thread may be filling it.            *)
(*                                                                         *)
(* A call over binder is synchronous: a thread of the client goes on       *)
(* inside the service.                                                     *)
(***************************************************************************)
EXTENDS LightHdiConnection

CONSTANTS
  Apps,       \* the application's threads
  Observers,  \* the threads on which the client learns of the service's death
  NoOwner, NoLight,
  MaxFaults   \* how often a call of GetLightList or its answer is lost

Threads == Apps \cup Observers

ASSUME ClientAssumption ==
  /\ Apps \cap Observers = {} /\ NoOwner \notin Threads
  /\ NoLight \notin Lights
  /\ MaxFaults \in Nat

VARIABLES
  proxy,         \* miscdeviceProxy_: the life of the service it is for, 0 if null
  deathLinks,    \* the lives whose end the client is still to be told of
  known,         \* lightInfoList_ of LightClient
  shown,         \* lightInfos_, what the application is given; empty if null
  owner,         \* who holds clientMutex_
  pc, op, light, \* where a thread is, in which call, for which light
  faults, missed \* lost calls and answers, and the life whose lights the last one was to get

clientVars == <<proxy, deathLinks, known, shown, owner, faults, missed>>
threadVars == <<pc, op, light>>
vars == <<driverVars, serviceVars, clientVars, threadVars>>

Alive(n) == stage = "up" /\ n = life

TypeOK ==
  /\ ServiceTypeOK
  /\ proxy \in 0 .. life /\ deathLinks \subseteq 1 .. life
  /\ known \subseteq Lights /\ shown \subseteq Lights
  /\ owner \in Threads \cup {NoOwner}
  /\ pc \in [Threads -> {"idle", "init", "fill", "check", "send", "use", "show",
                         "forget"}]
  /\ \A t \in Threads : pc[t] \in {"fill", "use"} <=> owner = t
  /\ op \in [Threads -> {"none", "TurnOn", "TurnOff", "GetLightList", "death"}]
  /\ light \in [Threads -> Lights \cup {NoLight}]
  /\ faults \in 0 .. MaxFaults /\ missed \in 0 .. life

Init ==
  /\ ServiceInit
  /\ proxy = 0 /\ deathLinks = {} /\ known = {} /\ shown = {}
  /\ owner = NoOwner /\ faults = 0 /\ missed = 0
  /\ pc = [t \in Threads |-> "idle"]
  /\ op = [t \in Threads |-> "none"]
  /\ light = [t \in Threads |-> NoLight]

Goto(t, place) == pc' = [pc EXCEPT ![t] = place] /\ UNCHANGED <<op, light>>

Return(t) ==
  /\ pc' = [pc EXCEPT ![t] = "idle"]
  /\ op' = [op EXCEPT ![t] = "none"]
  /\ light' = [light EXCEPT ![t] = NoLight]

\* What a call does once InitLightClient has succeeded.
GoOnAfterInit(t) ==
  CASE op[t] \in {"TurnOn", "TurnOff"} -> Goto(t, "check")
    [] op[t] = "GetLightList"          -> Goto(t, "show")
    [] op[t] = "death"                 -> Return(t)

-------------------------------------------------------------------------------
\* A call of the agent; a negative light is refused there.
Call(t) ==
  /\ pc[t] = "idle"
  /\ \E o \in {"TurnOn", "TurnOff", "GetLightList"}, l \in Lights :
       /\ op' = [op EXCEPT ![t] = o]
       /\ light' = [light EXCEPT ![t] = IF o = "GetLightList" THEN NoLight ELSE l]
  /\ pc' = [pc EXCEPT ![t] = "init"]
  /\ UNCHANGED <<driverVars, serviceVars, clientVars>>

InitFound(t) ==
  /\ pc[t] = "init" /\ owner = NoOwner /\ proxy # 0
  /\ GoOnAfterInit(t)
  /\ UNCHANGED <<driverVars, serviceVars, clientVars>>

\* Mutant: what was known of the service before stays.
InitLightClientKeepsKnown(t) ==
  /\ pc[t] = "init" /\ owner = NoOwner /\ proxy = 0 /\ stage = "up"
  /\ proxy' = life
  /\ deathLinks' = deathLinks \cup {life}
  /\ known' = known
  /\ owner' = t
  /\ Goto(t, "fill")
  /\ UNCHANGED <<driverVars, serviceVars, shown, faults, missed>>

\* Mutant: the death recipient is registered with the first service only.
InitLightClientOneRecipient(t) ==
  /\ pc[t] = "init" /\ owner = NoOwner /\ proxy = 0 /\ stage = "up"
  /\ proxy' = life
  /\ deathLinks' = deathLinks \cup (IF known = {} THEN {life} ELSE {})
  /\ known' = {}
  /\ owner' = t
  /\ Goto(t, "fill")
  /\ UNCHANGED <<driverVars, serviceVars, shown, faults, missed>>

\* InitLightClient gets the service, asks for its death and forgets what it knew.
InitLightClient(t) ==
  /\ pc[t] = "init" /\ owner = NoOwner /\ proxy = 0 /\ stage = "up"
  /\ proxy' = life
  /\ deathLinks' = deathLinks \cup {life}
  /\ known' = {}
  /\ owner' = t
  /\ Goto(t, "fill")
  /\ UNCHANGED <<driverVars, serviceVars, shown, faults, missed>>

InitFails(t) ==
  /\ pc[t] = "init" /\ owner = NoOwner /\ proxy = 0 /\ stage # "up"
  /\ Return(t)
  /\ UNCHANGED <<driverVars, serviceVars, clientVars>>

\* The call of GetLightList it ends with.  The call or its answer may be lost, and
\* the result is not looked at: a client that was not answered knows no light.
Fill(t) ==
  /\ pc[t] = "fill"
  /\ owner' = NoOwner
  /\ GoOnAfterInit(t)
  /\ \/ /\ Alive(proxy)
        /\ GetLightList
        /\ known' = lightInfoList
        /\ UNCHANGED <<faults, missed>>
     \/ /\ ~Alive(proxy) \/ faults < MaxFaults
        /\ faults' = IF Alive(proxy) THEN faults + 1 ELSE faults
        /\ missed' = proxy
        /\ UNCHANGED serviceVars \/ (Alive(proxy) /\ GetLightList)
        /\ UNCHANGED known
  /\ UNCHANGED <<driverVars, proxy, deathLinks, shown>>

\* What a thread may find in lightInfoList_, for which it takes no mutex.
SeenKnown(t) ==
  IF \E u \in Threads \ {t} : pc[u] = "fill" THEN (SUBSET lightInfoList) \cup {known}
                                             ELSE {known}

\* IsLightIdValid and IsLightAnimationValid.
Check(t) ==
  /\ pc[t] = "check"
  /\ \/ /\ \E s \in SeenKnown(t) : light[t] \in s
        /\ Goto(t, "send")
     \/ /\ op[t] = "TurnOn" \/ \E s \in SeenKnown(t) : light[t] \notin s
        /\ Return(t)
  /\ UNCHANGED <<driverVars, serviceVars, clientVars>>

\* TurnOn and TurnOff under the mutex, up to where the service uses its
\* interface.  The service checks the light again; it may deny permission.
Send(t) ==
  /\ pc[t] = "send" /\ owner = NoOwner
  /\ \/ /\ Alive(proxy) /\ IsValid(light[t]) /\ CanReach
        /\ owner' = t
        /\ Goto(t, "use")
     \/ Return(t) /\ UNCHANGED owner
  /\ UNCHANGED <<driverVars, serviceVars, proxy, deathLinks, known, shown,
                 faults, missed>>

\* The driver or the mock is called, and the call returns; or the service is
\* gone by then.  The mock refuses an animation without times.
Use(t) ==
  /\ pc[t] = "use" /\ (Alive(proxy) => CanReach)
  /\ IF Alive(proxy) /\ kind = "mock"
     THEN \/ op[t] = "TurnOn" /\ MockTurnOn(light[t])
          \/ op[t] = "TurnOff" /\ MockTurnOff(light[t])
          \/ op[t] = "TurnOn" /\ UNCHANGED turnOnLights
     ELSE UNCHANGED turnOnLights
  /\ owner' = NoOwner
  /\ Return(t)
  /\ UNCHANGED <<driverVars, stage, life, kind, lightInterface, hdiLinks,
                 lightInfoList, lightInfos, connVars, proxy, deathLinks, known,
                 shown, faults, missed>>

\* Using an interface that has become null since the check ends the service.
Crash(t) ==
  /\ pc[t] = "use" /\ Alive(proxy) /\ ~CanReach
  /\ Gone
  /\ UNCHANGED <<driverVars, clientVars, threadVars>>

\* It makes nothing of an empty list.
ConvertLightInfos(t) == shown' \in SeenKnown(t)

\* GetLightList gives the application what was converted the first time, and is
\* an error until then.
Show(t) ==
  /\ pc[t] = "show"
  /\ IF shown = {} THEN ConvertLightInfos(t) ELSE UNCHANGED shown
  /\ Return(t)
  /\ UNCHANGED <<driverVars, serviceVars, proxy, deathLinks, known, owner,
                 faults, missed>>

-------------------------------------------------------------------------------
\* The death of the service is announced.
DeathNotice(t) ==
  /\ pc[t] = "idle"
  /\ \E n \in deathLinks : ~Alive(n) /\ deathLinks' = deathLinks \ {n}
  /\ op' = [op EXCEPT ![t] = "death"]
  /\ pc' = [pc EXCEPT ![t] = "forget"]
  /\ UNCHANGED <<driverVars, serviceVars, proxy, known, shown, owner, faults,
                 missed, light>>

\* Mutant: InitLightClient is called with the old proxy in place.
ProcessDeathObserverKeepsProxy(t) ==
  /\ pc[t] = "forget" /\ owner = NoOwner
  /\ proxy' = proxy
  /\ Goto(t, "init")
  /\ UNCHANGED <<driverVars, serviceVars, deathLinks, known, shown, owner,
                 faults, missed>>

\* ProcessDeathObserver, up to its InitLightClient.
ProcessDeathObserver(t) ==
  /\ pc[t] = "forget" /\ owner = NoOwner
  /\ proxy' = 0
  /\ Goto(t, "init")
  /\ UNCHANGED <<driverVars, serviceVars, deathLinks, known, shown, owner,
                 faults, missed>>

ThreadStep(t) ==
  \/ InitFound(t) \/ InitLightClient(t) \/ InitFails(t) \/ Fill(t)
  \/ Check(t) \/ Send(t) \/ Use(t) \/ Crash(t) \/ Show(t)

ObserverStep(t) == DeathNotice(t) \/ ProcessDeathObserver(t) \/ ThreadStep(t)

ServiceSide == Processes \/ \E t \in Connectors : ServiceStep(t)

Next ==
  \/ \E t \in Apps : Call(t) \/ ThreadStep(t)
  \/ \E t \in Observers : ObserverStep(t)
  \/ ServiceSide /\ UNCHANGED <<clientVars, threadVars>>

Spec == Init /\ [][Next]_vars

\* Threads are scheduled and deaths are announced.  Nobody has to call, and a
\* service or a driver that died may stay away.
FairSpec ==
  /\ Spec
  /\ \A t \in Apps : WF_vars(ThreadStep(t))
  /\ \A t \in Observers : WF_vars(ObserverStep(t))
  /\ \A t \in Connectors :
       WF_vars(ServiceStep(t) /\ UNCHANGED <<clientVars, threadVars>>)

-------------------------------------------------------------------------------
\* Properties.

\* Nothing is left of the lights of a service before, the driver's or the
\* mock's.  What the client lets through the service it is connected to would
\* take; and no light reaches the driver or the mock that this service did not
\* tell of, although the client checks its list without the mutex and the
\* service may be another one when the call goes out (InitLightClient,
\* GetLightList, TurnOn, IsValid).
OnlyTheirLights ==
  /\ Alive(proxy) => known \subseteq lightInfos
  /\ \A t \in Threads : pc[t] = "use" /\ Alive(proxy) => light[t] \in lightInfoList

\* A proxy of a service that has died is going to be replaced, and so is the
\* interface of a driver that has: the death is still to be announced, or a
\* thread has been told and is about to forget the proxy, or is connecting
\* (ProcessDeathObserver of both, RegisterHdiDeathRecipient after every Get).
StaleIsNoticed ==
  /\ StaleInterfaceIsNoticed
  /\ proxy # 0 /\ ~Alive(proxy)
       => proxy \in deathLinks \/ \E t \in Observers : pc[t] = "forget"

\* While the service stays and the application goes on calling, the client comes
\* to be connected to it, and to know its lights unless the one call that gets
\* them was lost (ProcessDeathObserver, InitLightClient).
ServedAgain ==
  <>[](stage = "up") /\ []<>(\E t \in Apps : pc[t] = "init")
    => <>[](proxy = life /\ (known = lightInfoList \/ missed = life))
================================================================================
