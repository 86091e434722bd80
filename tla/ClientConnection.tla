---------------------------- MODULE ClientConnection ---------------------------
(***************************************************************************)
(* How client processes and the service hold on to each other: the         *)
(* connection VibratorServiceClient makes and makes again when the service *)
(* dies, the registry of clients in MiscdeviceService, and the plug events *)
(* that the service hands to every client while it holds two mutexes.      *)
(*                                                                         *)
(* A call over binder is synchronous, so a Thread here is a logical one: a *)
(* client's thread goes on inside the service while it waits for the       *)
(* reply, and the thread that reports a plug event goes on inside the      *)
(* clients.  owner says which thread holds which mutex of which process.   *)
(* What the service does to the motors meanwhile is in MiscdeviceService.  *)
(***************************************************************************)
EXTENDS Naturals, FiniteSets

CONSTANTS
  Clients,     \* processes that use the client library
  AppThreads,  \* their own threads; each has one VibratorUser to subscribe
  Observers,   \* the threads on which they learn of the service's death
  Reporters,   \* the threads on which the driver reports plug events
  Reapers,     \* the threads on which the service learns of a client's death
  Home,        \* the client an AppThread or Observer runs in, a Reaper is for
  Service,     \* the service's process
  NoOwner,
  Mortal,      \* the clients that may die
  Ops,         \* the calls this instance exercises
  MaxLives,    \* how often the service is started
  MaxEvents,   \* how many plug events are reported
  MaxClients,  \* MAX_SUPPORT_CLIENT_NUM
  CallbackVibrates,     \* a subscriber's callback may call Vibrate
  DieWhileRegistering   \* a client may die while the service registers it

Threads == AppThreads \cup Observers \cup Reporters \cup Reapers
AllOps  == {"vibrate", "list", "subscribe", "unsubscribe"}

ASSUME ConnectionAssumption ==
  /\ Home \in [AppThreads \cup Observers \cup Reapers -> Clients]
  /\ Reporters \cap (AppThreads \cup Observers \cup Reapers) = {}
  /\ Reapers \cap (AppThreads \cup Observers) = {}
  /\ NoOwner \notin Threads
  /\ Service \notin Clients
  /\ Mortal \subseteq Clients
  /\ Ops \subseteq AllOps
  /\ MaxLives \in Nat /\ MaxEvents \in Nat /\ MaxClients \in Nat
  /\ CallbackVibrates \in BOOLEAN /\ DieWhileRegistering \in BOOLEAN

VARIABLES
  proxy,         \* miscdeviceProxy_: the life of the service it is for, 0 if null
  deathLinks,    \* the lives whose end the client is still to be told of
  subscribeSet,  \* subscribeSet_: the users, by their threads
  told,          \* the last plug event a client's HandleVibratorData took
  up, life,      \* whether the service runs, and how often it was started
  clientPidMap,  \* clientPidMap_
  watched,       \* the clients with a death recipient of the service
  events,        \* the plug events the service has taken
  alive,         \* the living clients
  notices,       \* deaths of clients the service is still to be told of
  owner,         \* who holds each mutex
  pc, op,        \* where a thread is, in which call
  client,        \* the client the thread is concerned with
  todo,          \* a Reporter's clients still to notify
  event          \* a Reporter's event

clientVars  == <<proxy, deathLinks, subscribeSet, told>>
serviceVars == <<up, life, clientPidMap, watched, events>>
deathVars   == <<alive, notices>>
threadVars  == <<op, client, todo, event>>
vars == <<clientVars, serviceVars, deathVars, owner, pc, threadVars>>

\* The mutexes.
Manage        == <<"devicesManageMutex_", Service>>
PidMap        == <<"clientPidMapMutex_", Service>>
DeathObserver == <<"clientDeathObserverMutex_", Service>>
Connection(c)   == <<"clientMutex_", c>>
Subscription(c) == <<"subscribeMutex_", c>>

ServiceLocks   == {Manage, PidMap, DeathObserver}
LocksOf(c)     == {Connection(c), Subscription(c)}
Locks          == ServiceLocks \cup UNION {LocksOf(c) : c \in Clients}

InClient  == {"init", "transfer", "subscribe", "unsubscribe", "call", "ipc",
              "check", "use", "renew", "handle", "callback", "called"}
InService == {"save", "plugManage", "plugMap", "notify", "find", "reap",
              "unregister", "eraseObserver", "erase"}

\* Types; and a client's mutex is held only by a thread that is inside that
\* client, or whose registration the service is serving.
TypeOK ==
  /\ proxy \in [Clients -> 0 .. MaxLives]
  /\ deathLinks \in [Clients -> SUBSET (1 .. MaxLives)]
  /\ subscribeSet \subseteq AppThreads
  /\ told \in [Clients -> 0 .. MaxEvents]
  /\ up \in BOOLEAN /\ life \in 0 .. MaxLives
  /\ clientPidMap \subseteq Clients /\ watched \subseteq Clients
  /\ events \in 0 .. MaxEvents
  /\ alive \subseteq Clients /\ notices \subseteq Clients
  /\ owner \in [Locks -> Threads \cup {NoOwner}]
  /\ \A c \in Clients : \A t \in {owner[l] : l \in LocksOf(c)} \ {NoOwner} :
       client[t] = c /\ pc[t] \in InClient \cup {"save"}
  /\ pc \in [Threads -> InClient \cup InService \cup {"idle"}]
  /\ op \in [Threads -> AllOps \cup {"none", "renew", "plug", "death"}]
  /\ client \in [Threads -> Clients]
  /\ todo \in [Threads -> SUBSET Clients]
  /\ event \in [Threads -> 0 .. MaxEvents]

Init ==
  /\ proxy = [c \in Clients |-> 0]
  /\ deathLinks = [c \in Clients |-> {}]
  /\ subscribeSet = {}
  /\ told = [c \in Clients |-> 0]
  /\ up = TRUE /\ life = 1
  /\ clientPidMap = {} /\ watched = {} /\ events = 0
  /\ alive = Clients /\ notices = {}
  /\ owner = [l \in Locks |-> NoOwner]
  /\ pc = [t \in Threads |-> "idle"]
  /\ op = [t \in Threads |-> "none"]
  /\ client \in {f \in [Threads -> Clients] :
                   \A t \in Threads \ Reporters : f[t] = Home[t]}
  /\ todo = [t \in Threads |-> {}]
  /\ event = [t \in Threads |-> 0]

-------------------------------------------------------------------------------
\* The mutex a thread needs for its next step, if any.  subscribeMutex_ is
\* recursive; no thread gets to a place that needs it with it held.
Reachable(t) == up /\ proxy[client[t]] = life

Needs(t) ==
  CASE pc[t] \in {"init", "call", "renew"}              -> {Connection(client[t])}
    [] pc[t] \in {"subscribe", "unsubscribe", "handle"} -> {Subscription(client[t])}
    [] pc[t] = "transfer" /\ Reachable(t)               -> {DeathObserver}
    [] pc[t] = "ipc" /\ op[t] # "subscribe" /\ Reachable(t) -> {Manage}
    [] pc[t] \in {"plugManage", "reap"}                 -> {Manage}
    [] pc[t] = "eraseObserver"                          -> {DeathObserver}
    [] pc[t] \in {"save", "plugMap", "find", "unregister", "erase"} -> {PidMap}
    [] OTHER                                            -> {}

At(t, place) == pc[t] = place /\ \A l \in Needs(t) : owner[l] = NoOwner
Goto(t, place) == pc' = [pc EXCEPT ![t] = place]

Take(t, L)    == owner' = [l \in Locks |-> IF l \in L THEN t ELSE owner[l]]
Release(t, L) == owner' = [l \in Locks |-> IF l \in L /\ owner[l] = t
                                           THEN NoOwner ELSE owner[l]]

\* Where a call of the library returns to: the application, or the plug
\* callback that made it.
Caller(t) == IF t \in Reporters THEN "called" ELSE "idle"

\* What comes after InitServiceClient has succeeded.
AfterInit(t) ==
  CASE op[t] \in {"vibrate", "plug"} -> "call"
    [] op[t] = "subscribe"           -> "subscribe"
    [] op[t] = "list"                -> "check"
    [] OTHER                         -> Caller(t)

-------------------------------------------------------------------------------
\* The client library.

\* An application calls: Vibrate stands for every call that holds clientMutex_
\* while the service serves it, "list" for GetVibratorList, GetEffectInfo,
\* DisableVibratorByPid and EnableVibratorByPid, which do not take it.
AppCall(t) ==
  /\ pc[t] = "idle" /\ Home[t] \in alive
  /\ \E o \in Ops :
       /\ op' = [op EXCEPT ![t] = o]
       /\ Goto(t, IF o = "unsubscribe" THEN o ELSE "init")
  /\ UNCHANGED <<clientVars, serviceVars, deathVars, owner, client, todo, event>>

\* InitServiceClient finds a proxy.
InitFound(t) ==
  /\ At(t, "init") /\ proxy[client[t]] # 0
  /\ Goto(t, AfterInit(t))
  /\ UNCHANGED <<clientVars, serviceVars, deathVars, owner, threadVars>>

\* Mutant: clientMutex_ is not held while the remote object is handed over.
InitConnectUnlocked(t) ==
  /\ At(t, "init") /\ proxy[client[t]] = 0 /\ up
  /\ proxy' = [proxy EXCEPT ![client[t]] = life]
  /\ deathLinks' = [deathLinks EXCEPT ![client[t]] = @ \cup {life}]
  /\ Goto(t, "transfer")
  /\ UNCHANGED <<subscribeSet, told, serviceVars, deathVars, owner, threadVars>>

\* Mutant: the death recipient is added when it is made, not for a new proxy.
InitConnectObservedOnce(t) ==
  /\ At(t, "init") /\ proxy[client[t]] = 0 /\ up
  /\ proxy' = [proxy EXCEPT ![client[t]] = life]
  /\ deathLinks' = [deathLinks EXCEPT ![client[t]] = IF life = 1 THEN {1} ELSE @]
  /\ Take(t, {Connection(client[t])})
  /\ Goto(t, "transfer")
  /\ UNCHANGED <<subscribeSet, told, serviceVars, deathVars, threadVars>>

\* InitServiceClient gets a proxy and asks to be told of the service's death.
InitConnect(t) ==
  /\ At(t, "init") /\ proxy[client[t]] = 0 /\ up
  /\ proxy' = [proxy EXCEPT ![client[t]] = life]
  /\ deathLinks' = [deathLinks EXCEPT ![client[t]] = @ \cup {life}]
  /\ Take(t, {Connection(client[t])})
  /\ Goto(t, "transfer")
  /\ UNCHANGED <<subscribeSet, told, serviceVars, deathVars, threadVars>>

\* GetSystemAbility finds no service.
InitFails(t) ==
  /\ At(t, "init") /\ proxy[client[t]] = 0 /\ ~up
  /\ Goto(t, Caller(t))
  /\ UNCHANGED <<clientVars, serviceVars, deathVars, owner, threadVars>>

\* Mutant: the recipient is added to the client for which it is made only.
RegisterFirstDeathRecipient(t) ==
  /\ At(t, "transfer") /\ Reachable(t)
  /\ watched' = IF watched = {} THEN {client[t]} ELSE watched
  /\ Take(t, {DeathObserver})
  /\ Goto(t, "save")
  /\ UNCHANGED <<clientVars, up, life, clientPidMap, events, deathVars, threadVars>>

\* TransferClientRemoteObject arrives in RegisterClientDeathRecipient, which
\* adds the death recipient and then saves the pid.
RegisterClientDeathRecipient(t) ==
  /\ At(t, "transfer") /\ Reachable(t)
  /\ watched' = watched \cup {client[t]}
  /\ Take(t, {DeathObserver})
  /\ Goto(t, "save")
  /\ UNCHANGED <<clientVars, up, life, clientPidMap, events, deathVars, threadVars>>

SaveClientPid(t) ==
  /\ At(t, "save")
  /\ clientPidMap' = IF Cardinality(clientPidMap) < MaxClients
                     THEN clientPidMap \cup {client[t]} ELSE clientPidMap
  /\ Release(t, {DeathObserver, Connection(client[t])})
  /\ Goto(t, IF client[t] \in alive THEN AfterInit(t) ELSE Caller(t))
  /\ UNCHANGED <<clientVars, up, life, watched, events, deathVars, threadVars>>

\* The service is gone: InitServiceClient fails and leaves the proxy there.
TransferFails(t) ==
  /\ At(t, "transfer") /\ ~Reachable(t)
  /\ Release(t, {Connection(client[t])})
  /\ Goto(t, Caller(t))
  /\ UNCHANGED <<clientVars, serviceVars, deathVars, threadVars>>

\* A call takes clientMutex_ again and looks whether there is a proxy; a
\* subscription gives up with its user inserted.
CallLock(t) ==
  /\ At(t, "call")
  /\ IF proxy[client[t]] # 0
     THEN Take(t, {Connection(client[t])}) /\ Goto(t, "ipc")
     ELSE /\ Release(t, IF op[t] = "subscribe" THEN {Subscription(client[t])} ELSE {})
          /\ Goto(t, Caller(t))
  /\ UNCHANGED <<clientVars, serviceVars, deathVars, threadVars>>

\* The call returns: the service has served it, or is gone.  Only Vibrate
\* needs a mutex of the service, and none when it returns.
CallReturns(t) ==
  /\ At(t, "ipc")
  /\ Release(t, {Connection(client[t])}
                  \cup IF op[t] = "subscribe" THEN {Subscription(client[t])} ELSE {})
  /\ Goto(t, Caller(t))
  /\ UNCHANGED <<clientVars, serviceVars, deathVars, threadVars>>

SubscribeVibratorPlugInfo(t) ==
  /\ At(t, "subscribe")
  /\ subscribeSet' = subscribeSet \cup {t}
  /\ IF t \in subscribeSet
     THEN UNCHANGED owner /\ Goto(t, "idle")
     ELSE Take(t, {Subscription(client[t])}) /\ Goto(t, "call")
  /\ UNCHANGED <<proxy, deathLinks, told, serviceVars, deathVars, threadVars>>

UnsubscribeVibratorPlugInfo(t) ==
  /\ At(t, "unsubscribe")
  /\ subscribeSet' = subscribeSet \ {t}
  /\ Goto(t, "idle")
  /\ UNCHANGED <<proxy, deathLinks, told, serviceVars, deathVars, owner, threadVars>>

\* GetVibratorList looks at the proxy and then uses it, with no mutex held.
ListCheck(t) ==
  /\ At(t, "check")
  /\ Goto(t, IF proxy[client[t]] = 0 THEN "idle" ELSE "use")
  /\ UNCHANGED <<clientVars, serviceVars, deathVars, owner, threadVars>>

ListUse(t) ==
  /\ At(t, "use") /\ proxy[client[t]] # 0
  /\ Goto(t, "idle")
  /\ UNCHANGED <<clientVars, serviceVars, deathVars, owner, threadVars>>

\* The client is told that the service has died: ProcessDeathObserver.
DeathNotice(t) ==
  /\ pc[t] = "idle" /\ Home[t] \in alive
  /\ \E n \in deathLinks[Home[t]] :
       /\ ~(up /\ n = life)
       /\ deathLinks' = [deathLinks EXCEPT ![Home[t]] = @ \ {n}]
  /\ op' = [op EXCEPT ![t] = "renew"]
  /\ Goto(t, "renew")
  /\ UNCHANGED <<proxy, subscribeSet, told, serviceVars, deathVars, owner, client,
                 todo, event>>

ForgetProxy(t) ==
  /\ At(t, "renew")
  /\ proxy' = [proxy EXCEPT ![client[t]] = 0]
  /\ Goto(t, "init")
  /\ UNCHANGED <<deathLinks, subscribeSet, told, serviceVars, deathVars, owner,
                 threadVars>>

LibraryStep(t) ==
  \/ InitFound(t) \/ InitConnect(t) \/ InitFails(t)
  \/ RegisterClientDeathRecipient(t) \/ SaveClientPid(t) \/ TransferFails(t)
  \/ CallLock(t) \/ CallReturns(t)

-------------------------------------------------------------------------------
\* Plug events: SendMsgToClient and, in the client, HandleVibratorData.

PlugEvent(t) ==
  /\ pc[t] = "idle" /\ up
  /\ events + Cardinality({r \in Reporters : pc[r] = "plugManage"}) < MaxEvents
  /\ op' = [op EXCEPT ![t] = "plug"]
  /\ Goto(t, "plugManage")
  /\ UNCHANGED <<clientVars, serviceVars, deathVars, owner, client, todo, event>>

\* The motors are stopped and the map of devices changed under this mutex.
PlugLock(t) ==
  /\ At(t, "plugManage")
  /\ events' = events + 1
  /\ event' = [event EXCEPT ![t] = events + 1]
  /\ Take(t, {Manage})
  /\ Goto(t, "plugMap")
  /\ UNCHANGED <<clientVars, up, life, clientPidMap, watched, deathVars, op, client,
                 todo>>

\* Mutant: the clients are copied and then called with no mutex held.
PlugCopyClients(t) ==
  /\ At(t, "plugMap")
  /\ todo' = [todo EXCEPT ![t] = clientPidMap]
  /\ Release(t, {Manage})
  /\ Goto(t, "notify")
  /\ UNCHANGED <<clientVars, serviceVars, deathVars, op, client, event>>

PlugReadClients(t) ==
  /\ At(t, "plugMap")
  /\ todo' = [todo EXCEPT ![t] = clientPidMap]
  /\ Take(t, {PidMap})
  /\ Goto(t, "notify")
  /\ UNCHANGED <<clientVars, serviceVars, deathVars, op, client, event>>

\* Mutant: the first call that fails ends the loop.
ProcessPlugEventUntilFailure(t) ==
  /\ pc[t] = "notify"
  /\ \E c \in todo[t] :
       /\ todo' = [todo EXCEPT ![t] = IF c \in alive THEN @ \ {c} ELSE {}]
       /\ IF c \in alive
          THEN client' = [client EXCEPT ![t] = c] /\ Goto(t, "handle")
          ELSE UNCHANGED <<client, pc>>
  /\ UNCHANGED <<clientVars, serviceVars, deathVars, owner, op, event>>

\* ProcessPlugEvent of one client; the call to a dead one fails.
ProcessPlugEvent(t) ==
  /\ pc[t] = "notify"
  /\ \E c \in todo[t] :
       /\ todo' = [todo EXCEPT ![t] = @ \ {c}]
       /\ IF c \in alive
          THEN client' = [client EXCEPT ![t] = c] /\ Goto(t, "handle")
          ELSE UNCHANGED <<client, pc>>
  /\ UNCHANGED <<clientVars, serviceVars, deathVars, owner, op, event>>

PlugDone(t) ==
  /\ pc[t] = "notify" /\ todo[t] = {}
  /\ Release(t, {Manage, PidMap})
  /\ Goto(t, "idle")
  /\ UNCHANGED <<clientVars, serviceVars, deathVars, threadVars>>

HandleVibratorData(t) ==
  /\ At(t, "handle")
  /\ told' = [told EXCEPT ![client[t]] = event[t]]
  /\ Take(t, {Subscription(client[t])})
  /\ Goto(t, "callback")
  /\ UNCHANGED <<proxy, deathLinks, subscribeSet, serviceVars, deathVars, threadVars>>

\* A subscriber's callback vibrates.
CallbackCalls(t) ==
  /\ pc[t] = "callback" /\ CallbackVibrates
  /\ \E s \in subscribeSet : Home[s] = client[t]
  /\ Goto(t, "init")
  /\ UNCHANGED <<clientVars, serviceVars, deathVars, owner, threadVars>>

CallbackReturns(t) ==
  /\ pc[t] \in {"callback", "called"}
  /\ Release(t, {Subscription(client[t])})
  /\ Goto(t, "notify")
  /\ UNCHANGED <<clientVars, serviceVars, deathVars, threadVars>>

-------------------------------------------------------------------------------
\* A client dies and the service is told: ProcessDeathObserver, whose loop over
\* the motors is in MiscdeviceService.

ReapNotice(t) ==
  /\ pc[t] = "idle" /\ up /\ Home[t] \in notices
  /\ notices' = notices \ {Home[t]}
  /\ op' = [op EXCEPT ![t] = "death"]
  /\ Goto(t, "find")
  /\ UNCHANGED <<clientVars, serviceVars, alive, owner, client, todo, event>>

FindClientPid(t) ==
  /\ At(t, "find")
  /\ Goto(t, "reap")
  /\ UNCHANGED <<clientVars, serviceVars, deathVars, owner, threadVars>>

ReapLock(t) ==
  /\ At(t, "reap")
  /\ Take(t, {Manage})
  /\ Goto(t, "unregister")
  /\ UNCHANGED <<clientVars, serviceVars, deathVars, threadVars>>

\* Mutant: the pid is looked up under a lock that is kept.
UnregisterWithPidMapHeld(t) ==
  /\ At(t, "unregister")
  /\ IF client[t] \in clientPidMap
     THEN Take(t, {PidMap}) /\ Goto(t, "eraseObserver")
     ELSE Release(t, {Manage}) /\ Goto(t, "idle")
  /\ UNCHANGED <<clientVars, serviceVars, deathVars, threadVars>>

\* UnregisterClientDeathRecipient returns early when the client is not known.
UnregisterClientDeathRecipient(t) ==
  /\ At(t, "unregister")
  /\ IF client[t] \in clientPidMap
     THEN UNCHANGED owner /\ Goto(t, "eraseObserver")
     ELSE Release(t, {Manage}) /\ Goto(t, "idle")
  /\ UNCHANGED <<clientVars, serviceVars, deathVars, threadVars>>

RemoveDeathRecipient(t) ==
  /\ At(t, "eraseObserver")
  /\ watched' = watched \ {client[t]}
  /\ Take(t, {DeathObserver})
  /\ Goto(t, "erase")
  /\ UNCHANGED <<clientVars, up, life, clientPidMap, events, deathVars, threadVars>>

DestroyClientPid(t) ==
  /\ At(t, "erase")
  /\ clientPidMap' = clientPidMap \ {client[t]}
  /\ Release(t, {DeathObserver, Manage})
  /\ Goto(t, "idle")
  /\ UNCHANGED <<clientVars, up, life, watched, events, deathVars, threadVars>>

-------------------------------------------------------------------------------
\* Processes die.

\* A dying process takes its threads and mutexes with it; a call into it fails.
Die(c) ==
  /\ alive' = alive \ {c}
  /\ notices' = notices \cup ({c} \cap watched)
  /\ pc' = [t \in Threads |->
              IF client[t] = c /\ pc[t] \in InClient
              THEN IF t \in Reporters THEN "notify" ELSE "idle"
              ELSE pc[t]]
  /\ owner' = [l \in Locks |-> IF l \in LocksOf(c) THEN NoOwner ELSE owner[l]]
  /\ UNCHANGED <<clientVars, serviceVars, threadVars>>

\* A registration under way goes on in the service when its caller dies.
ClientDies(c) ==
  /\ c \in Mortal \cap alive
  /\ \A t \in Threads : client[t] = c /\ pc[t] = "save"
                          => DieWhileRegistering /\ t \notin Reporters
  /\ Die(c)

\* ListUse with a proxy that has become null.
NullDereference(t) ==
  /\ At(t, "use") /\ proxy[client[t]] = 0
  /\ Die(client[t])

\* Its threads vanish, and calls into it fail; a client it was notifying goes on.
ServiceDies ==
  /\ up /\ life < MaxLives
  /\ up' = FALSE
  /\ clientPidMap' = {} /\ watched' = {} /\ notices' = {}
  /\ owner' = [l \in Locks |-> IF l \in ServiceLocks THEN NoOwner ELSE owner[l]]
  /\ pc' = [t \in Threads |-> CASE pc[t] = "save"        -> "transfer"
                                [] pc[t] \in InService \ {"save"} -> "idle"
                                [] OTHER                 -> pc[t]]
  /\ todo' = [t \in Threads |-> {}]
  /\ UNCHANGED <<clientVars, life, events, alive, op, client, event>>

ServiceStarts ==
  /\ ~up
  /\ up' = TRUE /\ life' = life + 1
  /\ UNCHANGED <<clientVars, clientPidMap, watched, events, deathVars, owner, pc,
                 threadVars>>

-------------------------------------------------------------------------------
AppStep(t) ==
  \/ LibraryStep(t) \/ SubscribeVibratorPlugInfo(t) \/ UnsubscribeVibratorPlugInfo(t)
  \/ ListCheck(t) \/ ListUse(t) \/ NullDereference(t)

ObserverStep(t) == DeathNotice(t) \/ ForgetProxy(t) \/ LibraryStep(t)

ReporterStep(t) ==
  \/ PlugLock(t) \/ PlugReadClients(t) \/ ProcessPlugEvent(t) \/ PlugDone(t)
  \/ HandleVibratorData(t) \/ CallbackReturns(t) \/ LibraryStep(t)

ReaperStep(t) ==
  \/ ReapNotice(t) \/ FindClientPid(t) \/ ReapLock(t)
  \/ UnregisterClientDeathRecipient(t) \/ RemoveDeathRecipient(t) \/ DestroyClientPid(t)

Next ==
  \/ \E t \in AppThreads : AppCall(t) \/ AppStep(t)
  \/ \E t \in Observers  : ObserverStep(t)
  \/ \E t \in Reporters  : PlugEvent(t) \/ CallbackCalls(t) \/ ReporterStep(t)
  \/ \E t \in Reapers    : ReaperStep(t)
  \/ \E c \in Clients    : ClientDies(c)
  \/ ServiceDies \/ ServiceStarts

Spec == Init /\ [][Next]_vars

\* Threads are scheduled, deaths are announced, and a dead service is started
\* again (run-on-create).  Nobody has to call, to plug anything in or to die.
FairSpec ==
  /\ Spec
  /\ \A t \in AppThreads : WF_vars(AppStep(t))
  /\ \A t \in Observers  : WF_vars(ObserverStep(t))
  /\ \A t \in Reporters  : WF_vars(ReporterStep(t))
  /\ \A t \in Reapers    : WF_vars(ReaperStep(t))
  /\ WF_vars(ServiceStarts)
-------------------------------------------------------------------------------
\* Properties.

\* No threads wait for each other: in every set of threads there is one that
\* needs no mutex held by one of them.  Calls over binder have no timeout, so a
\* set of threads that do wait for each other never moves again, and with
\* devicesManageMutex_ among the mutexes nobody vibrates any more.
NoMutualWait ==
  \A S \in (SUBSET Threads) \ {{}} :
    \E t \in S : \A l \in Needs(t) : owner[l] \notin S

\* A client takes plug events in the order in which the service took them: the
\* one it took last says whether the device is there.
PlugOrder == [][\A c \in Clients : told'[c] >= told[c]]_vars

\* When SendMsgToClient is done, every living client of the registry has taken
\* the event, also when calls to others failed.
AllTold ==
  \A t \in Reporters :
    owner[PidMap] = t /\ pc[t] = "notify" /\ todo[t] = {}
      => \A c \in clientPidMap \cap alive : told[c] = event[t]

\* A dead client in the registry has a handler that will take it out.
DeadAreReaped ==
  \A c \in clientPidMap \ alive :
    c \in notices \/ \E t \in Reapers : Home[t] = c /\ pc[t] # "idle"

\* A call that the service serves comes from a client it has in its registry:
\* only then does the client's death stop what it plays.
ServedIsRegistered ==
  \A t \in Threads : pc[t] = "ipc" /\ Reachable(t) => client[t] \in clientPidMap

\* A client that holds the proxy of a dead service is going to be told, so it
\* does not fail for ever.
StaleProxyIsNoticed ==
  \A c \in alive :
    proxy[c] # 0 /\ ~(up /\ proxy[c] = life)
      => \/ proxy[c] \in deathLinks[c]
         \/ \E t \in Observers : Home[t] = c /\ pc[t] = "renew"

\* Code that has looked at the proxy finds it there when it uses it.
ProxyStaysForUse ==
  \A t \in AppThreads : pc[t] = "use" => proxy[Home[t]] # 0

\* A client that was connected gets connected again.
ReconnectsAfterDeath ==
  \A c \in Clients :
    deathLinks[c] # {} ~> c \notin alive \/ (up /\ c \in clientPidMap)
================================================================================
