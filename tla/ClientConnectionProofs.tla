------------------------- MODULE ClientConnectionProofs -------------------------
(***************************************************************************)
(* The connections between clients and the service, for any number of      *)
(* clients, threads, lives of the service and plug events.  The invariant  *)
(* CoreInv is inductive, and from it and RegisteredInv it follows that a   *)
(* stale proxy is noticed and whoever is served is in the registry.  The   *)
(* second half is about the locks and the walks over the registry: who     *)
(* holds a mutex is where it is taken (LockInv), so no threads wait for    *)
(* each other in a circle while a client makes one call at a time; the     *)
(* dead leave the registry, every client that stays registered is told of  *)
(* a plug event, and it hears the events of one life of the service in the *)
(* order in which that took them.                                          *)
(***************************************************************************)
EXTENDS ClientConnection, FiniteSetTheorems, TLAPS

\* The types that the steps below read, and where threads are at home.
ConnectionTypes ==
  /\ proxy \in [Clients -> Nat] /\ deathLinks \in [Clients -> SUBSET Nat]
  /\ up \in BOOLEAN /\ life \in Nat
  /\ \A c \in Clients : proxy[c] <= life
  /\ clientPidMap \subseteq Clients /\ alive \subseteq Clients
  /\ owner \in [Locks -> Threads \cup {NoOwner}]
  /\ pc \in [Threads -> InClient \cup InService \cup {"idle"}]
  /\ client \in [Threads -> Clients]
  /\ \A t \in Threads \ Reporters : client[t] = Home[t]
  /\ todo \in [Threads -> SUBSET Clients]

\* The places where clientMutex_ is held.
Holding == {"transfer", "save", "ipc"}

\* A thread inside a client is inside a living one, but for a registration that
\* its dead client can no longer finish; and only the dead are reaped.
LifeInv ==
  /\ \A t \in Threads : pc[t] \in InClient \ {"transfer", "called"} => client[t] \in alive
  /\ notices \cap alive = {}
  /\ \A t \in Reapers : pc[t] # "idle" => Home[t] \notin alive

HolderInv ==
  \A t \in Threads :
    pc[t] \in Holding /\ client[t] \in alive => owner[Connection(client[t])] = t

\* A client with the proxy of the living service is in its registry, or a thread
\* of it is on the way there.
RegisteredInv ==
  \A c \in alive :
    up /\ proxy[c] = life
      => \/ c \in clientPidMap
         \/ \E t \in Threads : client[t] = c /\ pc[t] \in {"transfer", "save"}

\* A proxy, stale or not, has its death recipient or a thread that forgets it.
NoticedInv ==
  \A c \in alive :
    proxy[c] # 0 => \/ proxy[c] \in deathLinks[c]
                    \/ \E t \in Observers : Home[t] = c /\ pc[t] = "renew"

-------------------------------------------------------------------------------
\* The mutexes of different processes, and of different names, are different.
LEMMA LockNames ==
  ASSUME NEW c \in Clients
  PROVE  /\ Connection(c) \in Locks
         /\ Connection(c) \notin ServiceLocks
         /\ \A d \in Clients : /\ Connection(c) # Subscription(d)
                               /\ Connection(c) = Connection(d) <=> c = d
                               /\ Connection(c) \in LocksOf(d) <=> c = d
  BY ConnectionAssumption
     DEF Locks, ServiceLocks, LocksOf, Connection, Subscription, Manage, PidMap,
         DeathObserver

\* Who owns a client's connection mutex after a thread took some mutexes.
LEMMA TakeConnection ==
  ASSUME NEW t, NEW L, Take(t, L)
  PROVE  \A c \in Clients : owner'[Connection(c)] =
           IF Connection(c) \in L THEN t ELSE owner[Connection(c)]
  BY LockNames DEF Take

\* The same after a thread gave some back.
LEMMA ReleaseConnection ==
  ASSUME NEW t, NEW L, Release(t, L)
  PROVE  \A c \in Clients : owner'[Connection(c)] =
           IF Connection(c) \in L /\ owner[Connection(c)] = t THEN NoOwner
           ELSE owner[Connection(c)]
  BY LockNames DEF Release

\* Taking and giving back leave each mutex to a thread or to nobody.
LEMMA OwnerTypes ==
  ASSUME ConnectionTypes, NEW t \in Threads, NEW L,
         Take(t, L) \/ Release(t, L) \/ UNCHANGED owner
  PROVE  owner' \in [Locks -> Threads \cup {NoOwner}]
  BY DEF ConnectionTypes, Take, Release

\* A mutex of the service, or of a subscription, is not a client's clientMutex_.
LEMMA OtherLocks ==
  ASSUME NEW t, NEW L, Take(t, L) \/ Release(t, L) \/ UNCHANGED owner,
         L \subseteq ServiceLocks \/ \E d \in Clients : L \subseteq {Subscription(d)}
  PROVE  \A c \in Clients : owner'[Connection(c)] = owner[Connection(c)]
<1>1. \A c \in Clients : Connection(c) \notin L
  BY LockNames
<1> QED
  BY <1>1, TakeConnection, ReleaseConnection

-------------------------------------------------------------------------------
\* The steps that change nothing the invariant is about: a thread moves between
\* places where no clientMutex_ is held.
Harmless == (InClient \cup InService \cup {"idle"}) \ (Holding \cup {"renew"})

Quiet(t) ==
  /\ UNCHANGED <<proxy, deathLinks, up, life, clientPidMap, alive, notices>>
  /\ \A c \in Clients : owner'[Connection(c)] = owner[Connection(c)]
  /\ owner' \in [Locks -> Threads \cup {NoOwner}]
  /\ pc[t] \in Harmless
  /\ \E place \in Harmless : Goto(t, place)
  /\ pc'[t] \in InClient \ {"called"} => client'[t] \in alive
  /\ client' \in [Threads -> Clients]
  /\ \A u \in Threads : u # t \/ u \notin Reporters => client'[u] = client[u]
  /\ todo' \in [Threads -> SUBSET Clients]
  /\ t \in Reapers /\ pc[t] = "idle" => pc'[t] = "idle"

QuietLibrary(t) ==
  InitFound(t) \/ InitFails(t)

QuietApp(t) ==
  \/ AppCall(t) \/ SubscribeVibratorPlugInfo(t) \/ UnsubscribeVibratorPlugInfo(t)
  \/ ListCheck(t) \/ ListUse(t)

QuietReporter(t) ==
  \/ PlugEvent(t) \/ PlugLock(t) \/ PlugReadClients(t) \/ ProcessPlugEvent(t)
  \/ PlugDone(t) \/ HandleVibratorData(t) \/ CallbackCalls(t) \/ CallbackReturns(t)

QuietReaper(t) ==
  \/ FindClientPid(t) \/ ReapLock(t) \/ UnregisterClientDeathRecipient(t)
  \/ RemoveDeathRecipient(t)

\* The library's quiet steps, before and after connecting.
LEMMA LibraryIsQuiet ==
  ASSUME ConnectionTypes, LifeInv, NEW t \in Threads \ Reapers, QuietLibrary(t)
  PROVE  Quiet(t)
<1>1. AfterInit(t) \in {"call", "subscribe", "check", "called", "idle"}
  BY DEF AfterInit, Caller
<1>2. Caller(t) \in {"called", "idle"}
  BY DEF Caller
<1> USE DEF ConnectionTypes, LifeInv, Quiet, Harmless, Holding, InClient, InService,
            At, Goto, clientVars, serviceVars, deathVars, threadVars
<1>3. CASE InitFound(t)
  BY <1>1, <1>3 DEF InitFound
<1>4. CASE InitFails(t)
  BY <1>2, <1>4 DEF InitFails
<1> QED
  BY <1>3, <1>4 DEF QuietLibrary

\* Those of a thread of the application.
LEMMA AppIsQuiet ==
  ASSUME ConnectionTypes, LifeInv, NEW t \in AppThreads, QuietApp(t)
  PROVE  Quiet(t)
<1>1. t \in Threads /\ t \notin Reporters /\ t \notin Reapers /\ client[t] = Home[t]
  BY ConnectionAssumption DEF Threads, ConnectionTypes
<1> USE <1>1 DEF ConnectionTypes, LifeInv, Quiet, Harmless, Holding, InClient, InService,
                 At, Goto, clientVars, serviceVars, deathVars, threadVars
<1>2. CASE AppCall(t)
  BY <1>2 DEF AppCall
<1>3. CASE SubscribeVibratorPlugInfo(t)
  <2>1. Take(t, {Subscription(client[t])}) \/ UNCHANGED owner
    BY <1>3 DEF SubscribeVibratorPlugInfo
  <2>2. \A c \in Clients : owner'[Connection(c)] = owner[Connection(c)]
    BY <2>1, OtherLocks
  <2>3. owner' \in [Locks -> Threads \cup {NoOwner}]
    BY <2>1, OwnerTypes
  <2> QED
    BY <1>3, <2>2, <2>3 DEF SubscribeVibratorPlugInfo
<1>4. CASE UnsubscribeVibratorPlugInfo(t)
  BY <1>4 DEF UnsubscribeVibratorPlugInfo
<1>5. CASE ListCheck(t)
  BY <1>5 DEF ListCheck
<1>6. CASE ListUse(t)
  BY <1>6 DEF ListUse
<1> QED
  BY <1>2, <1>3, <1>4, <1>5, <1>6 DEF QuietApp

\* Those of a thread that reports plug events.
LEMMA ReporterIsQuiet ==
  ASSUME ConnectionTypes, LifeInv, NEW t \in Reporters, QuietReporter(t)
  PROVE  Quiet(t)
<1>1. t \in Threads /\ t \notin Reapers
  BY ConnectionAssumption DEF Threads
<1> USE <1>1 DEF ConnectionTypes, LifeInv, Quiet, Harmless, Holding, InClient, InService,
                 At, Goto, clientVars, serviceVars, deathVars, threadVars
<1>2. CASE PlugEvent(t)
  BY <1>2 DEF PlugEvent
<1>3. CASE PlugLock(t)
  <2>1. Take(t, {Manage}) /\ {Manage} \subseteq ServiceLocks
    BY <1>3 DEF PlugLock, ServiceLocks
  <2>2. \A c \in Clients : owner'[Connection(c)] = owner[Connection(c)]
    BY <2>1, OtherLocks
  <2>3. owner' \in [Locks -> Threads \cup {NoOwner}]
    BY <2>1, OwnerTypes
  <2> QED
    BY <1>3, <2>2, <2>3 DEF PlugLock
<1>4. CASE PlugReadClients(t)
  <2>1. Take(t, {PidMap}) /\ {PidMap} \subseteq ServiceLocks
    BY <1>4 DEF PlugReadClients, ServiceLocks
  <2>2. \A c \in Clients : owner'[Connection(c)] = owner[Connection(c)]
    BY <2>1, OtherLocks
  <2>3. owner' \in [Locks -> Threads \cup {NoOwner}]
    BY <2>1, OwnerTypes
  <2> QED
    BY <1>4, <2>2, <2>3 DEF PlugReadClients
<1>5. CASE ProcessPlugEvent(t)
  BY <1>5 DEF ProcessPlugEvent
<1>6. CASE PlugDone(t)
  <2>1. Release(t, {Manage, PidMap}) /\ {Manage, PidMap} \subseteq ServiceLocks
    BY <1>6 DEF PlugDone, ServiceLocks
  <2>2. \A c \in Clients : owner'[Connection(c)] = owner[Connection(c)]
    BY <2>1, OtherLocks
  <2>3. owner' \in [Locks -> Threads \cup {NoOwner}]
    BY <2>1, OwnerTypes
  <2> QED
    BY <1>6, <2>2, <2>3 DEF PlugDone
<1>7. CASE HandleVibratorData(t)
  <2>1. Take(t, {Subscription(client[t])})
    BY <1>7 DEF HandleVibratorData
  <2>2. \A c \in Clients : owner'[Connection(c)] = owner[Connection(c)]
    BY <2>1, OtherLocks
  <2>3. owner' \in [Locks -> Threads \cup {NoOwner}]
    BY <2>1, OwnerTypes
  <2> QED
    BY <1>7, <2>2, <2>3 DEF HandleVibratorData
<1>8. CASE CallbackCalls(t)
  BY <1>8 DEF CallbackCalls
<1>9. CASE CallbackReturns(t)
  <2>1. Release(t, {Subscription(client[t])})
    BY <1>9 DEF CallbackReturns
  <2>2. \A c \in Clients : owner'[Connection(c)] = owner[Connection(c)]
    BY <2>1, OtherLocks
  <2>3. owner' \in [Locks -> Threads \cup {NoOwner}]
    BY <2>1, OwnerTypes
  <2> QED
    BY <1>9, <2>2, <2>3 DEF CallbackReturns
<1> QED
  BY <1>2, <1>3, <1>4, <1>5, <1>6, <1>7, <1>8, <1>9 DEF QuietReporter

\* Those of a thread that deals with a client's death.
LEMMA ReaperIsQuiet ==
  ASSUME ConnectionTypes, LifeInv, NEW t \in Reapers, QuietReaper(t)
  PROVE  Quiet(t)
<1>1. t \in Threads /\ t \notin Reporters
  BY ConnectionAssumption DEF Threads
<1> USE <1>1 DEF ConnectionTypes, LifeInv, Quiet, Harmless, Holding, InClient, InService,
                 At, Goto, clientVars, serviceVars, deathVars, threadVars
<1>2. CASE FindClientPid(t)
  BY <1>2 DEF FindClientPid
<1>3. CASE ReapLock(t)
  <2>1. Take(t, {Manage}) /\ {Manage} \subseteq ServiceLocks
    BY <1>3 DEF ReapLock, ServiceLocks
  <2>2. \A c \in Clients : owner'[Connection(c)] = owner[Connection(c)]
    BY <2>1, OtherLocks
  <2>3. owner' \in [Locks -> Threads \cup {NoOwner}]
    BY <2>1, OwnerTypes
  <2> QED
    BY <1>3, <2>2, <2>3 DEF ReapLock
<1>4. CASE UnregisterClientDeathRecipient(t)
  <2>1. /\ Release(t, {Manage}) \/ UNCHANGED owner
        /\ {Manage} \subseteq ServiceLocks
    BY <1>4 DEF UnregisterClientDeathRecipient, ServiceLocks
  <2>2. \A c \in Clients : owner'[Connection(c)] = owner[Connection(c)]
    BY <2>1, OtherLocks
  <2>3. owner' \in [Locks -> Threads \cup {NoOwner}]
    BY <2>1, OwnerTypes
  <2> QED
    BY <1>4, <2>2, <2>3 DEF UnregisterClientDeathRecipient
<1>5. CASE RemoveDeathRecipient(t)
  <2>1. Take(t, {DeathObserver}) /\ {DeathObserver} \subseteq ServiceLocks
    BY <1>5 DEF RemoveDeathRecipient, ServiceLocks
  <2>2. \A c \in Clients : owner'[Connection(c)] = owner[Connection(c)]
    BY <2>1, OtherLocks
  <2>3. owner' \in [Locks -> Threads \cup {NoOwner}]
    BY <2>1, OwnerTypes
  <2> QED
    BY <1>5, <2>2, <2>3 DEF RemoveDeathRecipient
<1> QED
  BY <1>2, <1>3, <1>4, <1>5 DEF QuietReaper

-------------------------------------------------------------------------------
\* A step is one of these, with the thread or the client it is about.
LEMMA StepCases ==
  ASSUME ConnectionTypes, LifeInv, [Next]_vars
  PROVE  \/ \E t \in Threads : Quiet(t)
         \/ \E t \in Threads \ Reapers : InitConnect(t)
         \/ \E t \in Threads \ Reapers : RegisterClientDeathRecipient(t)
         \/ \E t \in Threads \ Reapers : SaveClientPid(t)
         \/ \E t \in Threads \ Reapers : TransferFails(t)
         \/ \E t \in Threads \ Reapers : CallLock(t)
         \/ \E t \in Threads \ Reapers : CallReturns(t)
         \/ \E t \in Observers : DeathNotice(t)
         \/ \E t \in Observers : ForgetProxy(t)
         \/ \E t \in Reapers : ReapNotice(t)
         \/ \E t \in Reapers : DestroyClientPid(t)
         \/ \E c \in Clients : Die(c)
         \/ ServiceDies
         \/ ServiceStarts
         \/ UNCHANGED vars
<1>1. AppThreads \cup Observers \cup Reporters \subseteq Threads \ Reapers
  BY ConnectionAssumption DEF Threads
<1>2. Reapers \subseteq Threads
  BY DEF Threads
<1>3. ASSUME NEW t \in Threads \ Reapers, LibraryStep(t)
      PROVE  \/ Quiet(t) \/ InitConnect(t) \/ RegisterClientDeathRecipient(t)
             \/ SaveClientPid(t) \/ TransferFails(t) \/ CallLock(t) \/ CallReturns(t)
  BY <1>3, LibraryIsQuiet DEF LibraryStep, QuietLibrary
<1>4. ASSUME NEW t \in AppThreads, AppCall(t) \/ AppStep(t)
      PROVE  Quiet(t) \/ LibraryStep(t) \/ \E c \in Clients : Die(c)
  <2>1. CASE NullDereference(t)
    <3>1. client[t] \in Clients
      BY <1>1 DEF ConnectionTypes
    <3> QED
      BY <2>1, <3>1 DEF NullDereference
  <2> QED
    BY <1>4, <2>1, AppIsQuiet DEF AppStep, QuietApp
<1>5. ASSUME NEW t \in Reporters, PlugEvent(t) \/ CallbackCalls(t) \/ ReporterStep(t)
      PROVE  Quiet(t) \/ LibraryStep(t)
  BY <1>5, ReporterIsQuiet DEF ReporterStep, QuietReporter
<1>6. ASSUME NEW t \in Reapers, ReaperStep(t)
      PROVE  Quiet(t) \/ ReapNotice(t) \/ DestroyClientPid(t)
  BY <1>6, ReaperIsQuiet DEF ReaperStep, QuietReaper
<1>7. ASSUME NEW c \in Clients, ClientDies(c)
      PROVE  Die(c)
  BY <1>7 DEF ClientDies
<1>8. CASE Next
  <2>1. CASE \E t \in AppThreads : AppCall(t) \/ AppStep(t)
    BY <2>1, <1>1, <1>3, <1>4
  <2>2. CASE \E t \in Observers : ObserverStep(t)
    BY <2>2, <1>1, <1>3 DEF ObserverStep
  <2>3. CASE \E t \in Reporters : PlugEvent(t) \/ CallbackCalls(t) \/ ReporterStep(t)
    BY <2>3, <1>1, <1>3, <1>5
  <2>4. CASE \E t \in Reapers : ReaperStep(t)
    BY <2>4, <1>2, <1>6
  <2>5. CASE \E c \in Clients : ClientDies(c)
    BY <2>5, <1>7
  <2> QED
    BY <1>8, <2>1, <2>2, <2>3, <2>4, <2>5 DEF Next
<1> QED
  BY <1>8

\* Where the library returns to, and what comes after InitServiceClient: places
\* where no clientMutex_ is held.
LEMMA Returns ==
  ASSUME NEW t
  PROVE  /\ Caller(t) \in {"called", "idle"}
         /\ AfterInit(t) \in {"call", "subscribe", "check", "called", "idle"}
<1>1. Caller(t) \in {"called", "idle"}
  BY DEF Caller
<1> QED
  BY <1>1 DEF AfterInit

\* A thread that enters one of these places finds its clientMutex_ free.
LEMMA FreeConnection ==
  ASSUME NEW t, At(t, "init") \/ At(t, "call")
  PROVE  owner[Connection(client[t])] = NoOwner
<1>1. Connection(client[t]) \in Needs(t)
  BY DEF At, Needs
<1> QED
  BY <1>1 DEF At

\* Every step keeps the types.
LEMMA StepTypes ==
  ASSUME ConnectionTypes, LifeInv, [Next]_vars
  PROVE  ConnectionTypes'
<1> USE ConnectionAssumption
        DEF ConnectionTypes, InClient, InService, Goto, clientVars, serviceVars,
            deathVars, threadVars
<1>1. ASSUME NEW t \in Threads, Quiet(t)
      PROVE  ConnectionTypes'
  <2>1. UNCHANGED <<proxy, deathLinks, up, life, clientPidMap, alive>>
    BY <1>1 DEF Quiet
  <2>2. /\ owner' \in [Locks -> Threads \cup {NoOwner}]
        /\ client' \in [Threads -> Clients] /\ todo' \in [Threads -> SUBSET Clients]
        /\ \A u \in Threads \ Reporters : client'[u] = client[u]
    BY <1>1 DEF Quiet
  <2>3. pc' \in [Threads -> InClient \cup InService \cup {"idle"}]
    BY <1>1 DEF Quiet, Harmless
  <2> QED
    BY <2>1, <2>2, <2>3
<1>2. ASSUME NEW t \in Threads \ Reapers, InitConnect(t)
      PROVE  ConnectionTypes'
  <2>1. owner' \in [Locks -> Threads \cup {NoOwner}]
    BY <1>2, OwnerTypes DEF InitConnect
  <2> QED
    BY <1>2, <2>1 DEF InitConnect, At
<1>3. ASSUME NEW t \in Threads \ Reapers, RegisterClientDeathRecipient(t)
      PROVE  ConnectionTypes'
  <2>1. owner' \in [Locks -> Threads \cup {NoOwner}]
    BY <1>3, OwnerTypes DEF RegisterClientDeathRecipient
  <2> QED
    BY <1>3, <2>1 DEF RegisterClientDeathRecipient, At
<1>4. ASSUME NEW t \in Threads \ Reapers, SaveClientPid(t)
      PROVE  ConnectionTypes'
  <2>1. owner' \in [Locks -> Threads \cup {NoOwner}]
    BY <1>4, OwnerTypes DEF SaveClientPid
  <2> QED
    BY <1>4, <2>1, Returns DEF SaveClientPid, At
<1>5. ASSUME NEW t \in Threads \ Reapers, TransferFails(t)
      PROVE  ConnectionTypes'
  <2>1. owner' \in [Locks -> Threads \cup {NoOwner}]
    BY <1>5, OwnerTypes DEF TransferFails
  <2> QED
    BY <1>5, <2>1, Returns DEF TransferFails, At
<1>6. ASSUME NEW t \in Threads \ Reapers, CallLock(t)
      PROVE  ConnectionTypes'
  <2>1. owner' \in [Locks -> Threads \cup {NoOwner}]
    BY <1>6, OwnerTypes DEF CallLock
  <2> QED
    BY <1>6, <2>1, Returns DEF CallLock, At
<1>7. ASSUME NEW t \in Threads \ Reapers, CallReturns(t)
      PROVE  ConnectionTypes'
  <2>1. owner' \in [Locks -> Threads \cup {NoOwner}]
    BY <1>7, OwnerTypes DEF CallReturns
  <2> QED
    BY <1>7, <2>1, Returns DEF CallReturns, At
<1>8. ASSUME NEW t \in Observers, DeathNotice(t)
      PROVE  ConnectionTypes'
  <2>1. t \in Threads /\ t \notin Reporters /\ Home[t] \in Clients
    BY DEF Threads
  <2> QED
    BY <1>8, <2>1 DEF DeathNotice, At
<1>9. ASSUME NEW t \in Observers, ForgetProxy(t)
      PROVE  ConnectionTypes'
  <2>1. t \in Threads /\ client[t] \in Clients
    BY DEF Threads
  <2> QED
    BY <1>9, <2>1 DEF ForgetProxy, At
<1>10. ASSUME NEW t \in Reapers, ReapNotice(t)
      PROVE  ConnectionTypes'
  BY <1>10 DEF ReapNotice, At
<1>11. ASSUME NEW t \in Reapers, DestroyClientPid(t)
      PROVE  ConnectionTypes'
  <2>1. owner' \in [Locks -> Threads \cup {NoOwner}]
    BY <1>11, OwnerTypes DEF DestroyClientPid, Threads
  <2> QED
    BY <1>11, <2>1 DEF DestroyClientPid, At, Threads
<1>12. ASSUME NEW c \in Clients, Die(c)
      PROVE  ConnectionTypes'
  BY <1>12 DEF Die
<1>13. CASE ServiceDies
  BY <1>13 DEF ServiceDies
<1>14. CASE ServiceStarts
  BY <1>14 DEF ServiceStarts
<1>15. CASE UNCHANGED vars
  BY <1>15 DEF vars, clientVars, serviceVars, deathVars, threadVars
<1> QED
  BY <1>1, <1>2, <1>3, <1>4, <1>5, <1>6, <1>7, <1>8, <1>9, <1>10, <1>11, <1>12,
     <1>13, <1>14, <1>15, StepCases

\* A client that has died is left, and nobody goes back into it.
LEMMA StepLife ==
  ASSUME ConnectionTypes, LifeInv, [Next]_vars
  PROVE  LifeInv'
<1> USE ConnectionAssumption
        DEF ConnectionTypes, LifeInv, InClient, Threads, Goto, clientVars, serviceVars,
            deathVars, threadVars
<1>1. ASSUME NEW t \in Threads, Quiet(t)
      PROVE  LifeInv'
  BY <1>1 DEF Quiet, Harmless, Holding, InService, InClient
<1>2. ASSUME NEW t \in Threads \ Reapers, InitConnect(t)
      PROVE  LifeInv'
  BY <1>2 DEF InitConnect, At
<1>3. ASSUME NEW t \in Threads \ Reapers, RegisterClientDeathRecipient(t)
      PROVE  LifeInv'
  BY <1>3 DEF RegisterClientDeathRecipient, At
<1>4. ASSUME NEW t \in Threads \ Reapers, SaveClientPid(t)
      PROVE  LifeInv'
  BY <1>4, Returns DEF SaveClientPid, At
<1>5. ASSUME NEW t \in Threads \ Reapers, TransferFails(t)
      PROVE  LifeInv'
  BY <1>5, Returns DEF TransferFails, At
<1>6. ASSUME NEW t \in Threads \ Reapers, CallLock(t)
      PROVE  LifeInv'
  BY <1>6, Returns DEF CallLock, At
<1>7. ASSUME NEW t \in Threads \ Reapers, CallReturns(t)
      PROVE  LifeInv'
  BY <1>7, Returns DEF CallReturns, At
<1>8. ASSUME NEW t \in Observers, DeathNotice(t)
      PROVE  LifeInv'
  BY <1>8 DEF DeathNotice, At
<1>9. ASSUME NEW t \in Observers, ForgetProxy(t)
      PROVE  LifeInv'
  BY <1>9 DEF ForgetProxy, At
<1>10. ASSUME NEW t \in Reapers, ReapNotice(t)
      PROVE  LifeInv'
  BY <1>10 DEF ReapNotice, At
<1>11. ASSUME NEW t \in Reapers, DestroyClientPid(t)
      PROVE  LifeInv'
  BY <1>11 DEF DestroyClientPid, At
<1>12. ASSUME NEW c \in Clients, Die(c)
      PROVE  LifeInv'
  BY <1>12 DEF Die
<1>13. CASE ServiceDies
  BY <1>13 DEF ServiceDies
<1>14. CASE ServiceStarts
  BY <1>14 DEF ServiceStarts
<1>15. CASE UNCHANGED vars
  BY <1>15 DEF vars, clientVars, serviceVars, deathVars, threadVars
<1> QED
  BY <1>1, <1>2, <1>3, <1>4, <1>5, <1>6, <1>7, <1>8, <1>9, <1>10, <1>11, <1>12,
     <1>13, <1>14, <1>15, StepCases

\* Who connects or calls keeps its clientMutex_ until it is done.
LEMMA StepHolder ==
  ASSUME ConnectionTypes, LifeInv, HolderInv, [Next]_vars
  PROVE  HolderInv'
<1> USE ConnectionAssumption
        DEF ConnectionTypes, HolderInv, Holding, Goto, clientVars, serviceVars,
            deathVars, threadVars
<1>1. ASSUME NEW t \in Threads, Quiet(t)
      PROVE  HolderInv'
  BY <1>1 DEF Quiet, Harmless, Holding, InService, InClient
<1>2. ASSUME NEW t \in Threads \ Reapers, InitConnect(t)
      PROVE  HolderInv'
  <2>1. t \in Threads /\ client[t] \in Clients
    BY DEF Threads
  <2>2. \A c \in Clients : owner'[Connection(c)] =
          IF c = client[t] THEN t ELSE owner[Connection(c)]
    BY <1>2, <2>1, TakeConnection, LockNames DEF InitConnect
  <2> QED
    BY <1>2, <2>1, <2>2, FreeConnection DEF InitConnect, At, Threads, LifeInv, InClient
<1>3. ASSUME NEW t \in Threads \ Reapers, RegisterClientDeathRecipient(t)
      PROVE  HolderInv'
  <2>1. t \in Threads /\ client[t] \in Clients
    BY DEF Threads
  <2>2. \A c \in Clients : owner'[Connection(c)] =
          owner[Connection(c)]
    BY <1>3, <2>1, TakeConnection, OtherLocks, LockNames
       DEF RegisterClientDeathRecipient, ServiceLocks
  <2> QED
    BY <1>3, <2>1, <2>2 DEF RegisterClientDeathRecipient, At, Threads, LifeInv, InClient
<1>4. ASSUME NEW t \in Threads \ Reapers, SaveClientPid(t)
      PROVE  HolderInv'
  <2>1. t \in Threads /\ client[t] \in Clients
    BY DEF Threads
  <2>2. \A c \in Clients : owner'[Connection(c)] =
          IF c = client[t] /\ owner[Connection(c)] = t THEN NoOwner
          ELSE owner[Connection(c)]
    BY <1>4, <2>1, ReleaseConnection, LockNames DEF SaveClientPid, ServiceLocks
  <2> QED
    BY <1>4, <2>1, <2>2, Returns DEF SaveClientPid, At, Threads, LifeInv, InClient
<1>5. ASSUME NEW t \in Threads \ Reapers, TransferFails(t)
      PROVE  HolderInv'
  <2>1. t \in Threads /\ client[t] \in Clients
    BY DEF Threads
  <2>2. \A c \in Clients : owner'[Connection(c)] =
          IF c = client[t] /\ owner[Connection(c)] = t THEN NoOwner
          ELSE owner[Connection(c)]
    BY <1>5, <2>1, ReleaseConnection, LockNames DEF TransferFails
  <2> QED
    BY <1>5, <2>1, <2>2, Returns DEF TransferFails, At, Threads, LifeInv, InClient
<1>6. ASSUME NEW t \in Threads \ Reapers, CallLock(t)
      PROVE  HolderInv'
  <2>1. t \in Threads /\ client[t] \in Clients
    BY DEF Threads
  <2>2. CASE proxy[client[t]] # 0
    <3>1. \A c \in Clients : owner'[Connection(c)] =
            IF c = client[t] THEN t ELSE owner[Connection(c)]
      BY <1>6, <2>1, <2>2, TakeConnection, LockNames DEF CallLock
    <3> QED
      BY <1>6, <2>1, <2>2, <3>1, FreeConnection DEF CallLock, At
  <2>3. CASE proxy[client[t]] = 0
    <3>1. \A c \in Clients : owner'[Connection(c)] = owner[Connection(c)]
      BY <1>6, <2>1, <2>3, ReleaseConnection, LockNames DEF CallLock
    <3> QED
      BY <1>6, <2>1, <2>3, <3>1, Returns DEF CallLock, At
  <2> QED
    BY <2>2, <2>3
<1>7. ASSUME NEW t \in Threads \ Reapers, CallReturns(t)
      PROVE  HolderInv'
  <2>1. t \in Threads /\ client[t] \in Clients
    BY DEF Threads
  <2>2. \A c \in Clients : owner'[Connection(c)] =
          IF c = client[t] /\ owner[Connection(c)] = t THEN NoOwner
          ELSE owner[Connection(c)]
    BY <1>7, <2>1, ReleaseConnection, LockNames DEF CallReturns
  <2> QED
    BY <1>7, <2>1, <2>2, Returns DEF CallReturns, At, Threads, LifeInv, InClient
<1>8. ASSUME NEW t \in Observers, DeathNotice(t)
      PROVE  HolderInv'
  BY <1>8 DEF DeathNotice, At
<1>9. ASSUME NEW t \in Observers, ForgetProxy(t)
      PROVE  HolderInv'
  BY <1>9 DEF ForgetProxy, At
<1>10. ASSUME NEW t \in Reapers, ReapNotice(t)
      PROVE  HolderInv'
  BY <1>10 DEF ReapNotice, At
<1>11. ASSUME NEW t \in Reapers, DestroyClientPid(t)
      PROVE  HolderInv'
  <2>1. t \in Threads /\ \A c \in Clients : owner'[Connection(c)] = owner[Connection(c)]
    BY <1>11, OtherLocks DEF DestroyClientPid, ServiceLocks, Threads
  <2> QED
    BY <1>11, <2>1 DEF DestroyClientPid, At
<1>12. ASSUME NEW c \in Clients, Die(c)
      PROVE  HolderInv'
  <2>1. \A d \in Clients \ {c} : owner'[Connection(d)] = owner[Connection(d)]
    BY <1>12, LockNames DEF Die
  <2> QED
    BY <1>12, <2>1 DEF Die
<1>13. CASE ServiceDies
  <2>1. \A d \in Clients : owner'[Connection(d)] = owner[Connection(d)]
    BY <1>13, LockNames DEF ServiceDies
  <2>2. \A t \in Threads : pc'[t] \in Holding => pc[t] \in Holding
    BY <1>13 DEF ServiceDies, InService
  <2> QED
    BY <1>13, <2>1, <2>2 DEF ServiceDies
<1>14. CASE ServiceStarts
  BY <1>14 DEF ServiceStarts
<1>15. CASE UNCHANGED vars
  BY <1>15 DEF vars, clientVars, serviceVars, deathVars, threadVars
<1> QED
  BY <1>1, <1>2, <1>3, <1>4, <1>5, <1>6, <1>7, <1>8, <1>9, <1>10, <1>11, <1>12,
     <1>13, <1>14, <1>15, StepCases

\* Each proxy gets its death recipient, which goes only to tell its client.
LEMMA StepNoticed ==
  ASSUME ConnectionTypes, NoticedInv, LifeInv, [Next]_vars
  PROVE  NoticedInv'
<1> USE ConnectionAssumption
        DEF ConnectionTypes, NoticedInv, Threads, Goto, clientVars, serviceVars,
            deathVars, threadVars
<1>1. ASSUME NEW t \in Threads, Quiet(t)
      PROVE  NoticedInv'
  BY <1>1 DEF Quiet, Harmless, Holding, InService, InClient
<1>2. ASSUME NEW t \in Threads \ Reapers, InitConnect(t)
      PROVE  NoticedInv'
  BY <1>2 DEF InitConnect, At
<1>3. ASSUME NEW t \in Threads \ Reapers, RegisterClientDeathRecipient(t)
      PROVE  NoticedInv'
  BY <1>3 DEF RegisterClientDeathRecipient, At
<1>4. ASSUME NEW t \in Threads \ Reapers, SaveClientPid(t)
      PROVE  NoticedInv'
  BY <1>4, Returns DEF SaveClientPid, At
<1>5. ASSUME NEW t \in Threads \ Reapers, TransferFails(t)
      PROVE  NoticedInv'
  BY <1>5, Returns DEF TransferFails, At
<1>6. ASSUME NEW t \in Threads \ Reapers, CallLock(t)
      PROVE  NoticedInv'
  BY <1>6, Returns DEF CallLock, At
<1>7. ASSUME NEW t \in Threads \ Reapers, CallReturns(t)
      PROVE  NoticedInv'
  BY <1>7, Returns DEF CallReturns, At
<1>8. ASSUME NEW t \in Observers, DeathNotice(t)
      PROVE  NoticedInv'
  BY <1>8 DEF DeathNotice, At
<1>9. ASSUME NEW t \in Observers, ForgetProxy(t)
      PROVE  NoticedInv'
  BY <1>9 DEF ForgetProxy, At
<1>10. ASSUME NEW t \in Reapers, ReapNotice(t)
      PROVE  NoticedInv'
  BY <1>10 DEF ReapNotice, At
<1>11. ASSUME NEW t \in Reapers, DestroyClientPid(t)
      PROVE  NoticedInv'
  BY <1>11 DEF DestroyClientPid, At
<1>12. ASSUME NEW c \in Clients, Die(c)
      PROVE  NoticedInv'
  <2>1. \A t \in Observers : t \in Threads /\ t \notin Reporters /\ client[t] = Home[t]
    BY DEF Threads
  <2> QED
    BY <1>12, <2>1 DEF Die
<1>13. CASE ServiceDies
  <2>1. \A t \in Threads : pc[t] = "renew" => pc'[t] = "renew"
    BY <1>13 DEF ServiceDies, InService
  <2> QED
    BY <1>13, <2>1 DEF ServiceDies
<1>14. CASE ServiceStarts
  BY <1>14 DEF ServiceStarts
<1>15. CASE UNCHANGED vars
  BY <1>15 DEF vars, clientVars, serviceVars, deathVars, threadVars
<1> QED
  BY <1>1, <1>2, <1>3, <1>4, <1>5, <1>6, <1>7, <1>8, <1>9, <1>10, <1>11, <1>12,
     <1>13, <1>14, <1>15, StepCases

\* MAX_SUPPORT_CLIENT_NUM is not reached.
Room == IsFiniteSet(Clients) /\ Cardinality(Clients) <= MaxClients

\* A client that is not in the registry finds room in it.
LEMMA RoomForEach ==
  ASSUME Room, ConnectionTypes, NEW c \in Clients, c \notin clientPidMap
  PROVE  Cardinality(clientPidMap) < MaxClients
<1>1. clientPidMap \subseteq Clients /\ clientPidMap # Clients
  BY DEF ConnectionTypes
<1>2. /\ IsFiniteSet(clientPidMap)
      /\ Cardinality(clientPidMap) <= Cardinality(Clients)
      /\ Cardinality(clientPidMap) # Cardinality(Clients)
  BY <1>1, FS_Subset DEF Room
<1>3. Cardinality(clientPidMap) \in Nat /\ Cardinality(Clients) \in Nat
  BY <1>2, FS_CardinalityType DEF Room
<1> QED
  BY <1>2, <1>3, ConnectionAssumption DEF Room

\* A registration ends in the registry, which only the dead leave; and a service
\* that is started has been connected to by nobody.
LEMMA StepRegistered ==
  ASSUME Room, ConnectionTypes, LifeInv, RegisteredInv, [Next]_vars
  PROVE  RegisteredInv'
<1> USE ConnectionAssumption
        DEF ConnectionTypes, RegisteredInv, Goto, clientVars, serviceVars, deathVars,
            threadVars
<1>1. ASSUME NEW t \in Threads, Quiet(t)
      PROVE  RegisteredInv'
  BY <1>1 DEF Quiet, Harmless, Holding
<1>2. ASSUME NEW t \in Threads \ Reapers, InitConnect(t)
      PROVE  RegisteredInv'
  BY <1>2 DEF InitConnect, At
<1>3. ASSUME NEW t \in Threads \ Reapers, RegisterClientDeathRecipient(t)
      PROVE  RegisteredInv'
  <2>1. \A u \in Threads :
          /\ client'[u] = client[u]
          /\ pc[u] \in {"transfer", "save"} => pc'[u] \in {"transfer", "save"}
    BY <1>3 DEF RegisterClientDeathRecipient, At
  <2> QED
    BY <1>3, <2>1 DEF RegisterClientDeathRecipient
<1>4. ASSUME NEW t \in Threads \ Reapers, SaveClientPid(t)
      PROVE  RegisteredInv'
  <2>1. clientPidMap \cup {client[t]} \subseteq clientPidMap'
    BY <1>4, RoomForEach DEF SaveClientPid
  <2>2. ASSUME NEW c \in alive', up', proxy'[c] = life', c # client[t]
        PROVE  \/ c \in clientPidMap'
               \/ \E u \in Threads : client'[u] = c /\ pc'[u] \in {"transfer", "save"}
    BY <1>4, <2>1, <2>2 DEF SaveClientPid
  <2> QED
    BY <2>1, <2>2
<1>5. ASSUME NEW t \in Threads \ Reapers, TransferFails(t)
      PROVE  RegisteredInv'
  <2>1. ~(up /\ proxy[client[t]] = life)
    BY <1>5 DEF TransferFails, Reachable
  <2> QED
    BY <1>5, <2>1 DEF TransferFails
<1>6. ASSUME NEW t \in Threads \ Reapers, CallLock(t)
      PROVE  RegisteredInv'
  BY <1>6 DEF CallLock, At
<1>7. ASSUME NEW t \in Threads \ Reapers, CallReturns(t)
      PROVE  RegisteredInv'
  BY <1>7 DEF CallReturns, At
<1>8. ASSUME NEW t \in Observers, DeathNotice(t)
      PROVE  RegisteredInv'
  BY <1>8 DEF DeathNotice, At, Threads
<1>9. ASSUME NEW t \in Observers, ForgetProxy(t)
      PROVE  RegisteredInv'
  BY <1>9 DEF ForgetProxy, At, Threads
<1>10. ASSUME NEW t \in Reapers, ReapNotice(t)
      PROVE  RegisteredInv'
  BY <1>10 DEF ReapNotice, At
<1>11. ASSUME NEW t \in Reapers, DestroyClientPid(t)
      PROVE  RegisteredInv'
  <2>1. client[t] \notin alive
    BY <1>11 DEF DestroyClientPid, At, LifeInv, Threads
  <2> QED
    BY <1>11, <2>1 DEF DestroyClientPid, At
<1>12. ASSUME NEW c \in Clients, Die(c)
      PROVE  RegisteredInv'
  <2>1. \A u \in Threads : client[u] # c => pc'[u] = pc[u]
    BY <1>12 DEF Die
  <2> QED
    BY <1>12, <2>1 DEF Die
<1>13. CASE ServiceDies
  BY <1>13 DEF ServiceDies
<1>14. CASE ServiceStarts
  BY <1>14 DEF ServiceStarts
<1>15. CASE UNCHANGED vars
  BY <1>15 DEF vars
<1> QED
  BY <1>1, <1>2, <1>3, <1>4, <1>5, <1>6, <1>7, <1>8, <1>9, <1>10, <1>11, <1>12,
     <1>13, <1>14, <1>15, StepCases

-------------------------------------------------------------------------------
\* The invariant of the connections, as far as it needs no room in the registry.
CoreInv == ConnectionTypes /\ LifeInv /\ HolderInv /\ NoticedInv

\* The invariants hold at first.
LEMMA Initially ==
  ASSUME Init
  PROVE  CoreInv /\ RegisteredInv
<1>1. ConnectionTypes
  BY ConnectionAssumption DEF Init, ConnectionTypes, InClient, InService
<1> QED
  BY <1>1 DEF Init, CoreInv, LifeInv, HolderInv, NoticedInv, RegisteredInv, InClient,
              Holding, Threads, ConnectionTypes

\* The types, the places of threads and who is noticed hold in every reachable
\* state of InitServiceClient, the calls, the deaths and the restarts.
THEOREM ConnectionsInv == Spec => []CoreInv
<1>1. Init => CoreInv
  BY Initially
<1>2. CoreInv /\ [Next]_vars => CoreInv'
  BY StepTypes, StepLife, StepHolder, StepNoticed DEF CoreInv
<1> QED
  BY <1>1, <1>2, PTL DEF Spec

\* A client that holds the proxy of a dead service is going to be told, however
\* often the service dies and however many threads connect.
THEOREM StaleProxyNoticed == Spec => []StaleProxyIsNoticed
<1>1. CoreInv => StaleProxyIsNoticed
  BY DEF CoreInv, NoticedInv, StaleProxyIsNoticed
<1> QED
  BY <1>1, ConnectionsInv, PTL

\* A call that the service serves comes from a client in its registry, if the
\* registry has room for all clients.
THEOREM ServedRegistered ==
  ASSUME Room
  PROVE  Spec => []ServedIsRegistered
<1>1. Init => RegisteredInv
  BY Initially
<1>2. CoreInv /\ RegisteredInv /\ [Next]_vars => RegisteredInv'
  BY Room, StepRegistered DEF CoreInv
<1>3. CoreInv /\ RegisteredInv => ServedIsRegistered
  <2> SUFFICES ASSUME CoreInv, RegisteredInv, NEW t \in Threads, pc[t] = "ipc", Reachable(t)
               PROVE  client[t] \in clientPidMap
    BY DEF ServedIsRegistered
  <2>1. client[t] \in alive
    BY DEF CoreInv, LifeInv, InClient
  <2>2. \A u \in Threads : client[u] = client[t] /\ pc[u] \in {"transfer", "save"} => u = t
    BY <2>1 DEF CoreInv, HolderInv, Holding
  <2> QED
    BY <2>1, <2>2 DEF RegisteredInv, Reachable
<1> QED
  BY <1>1, <1>2, <1>3, ConnectionsInv, PTL DEF Spec

-------------------------------------------------------------------------------
(***************************************************************************)
(* Who owns which mutex, and from where: for the service's three mutexes   *)
(* and the two of each client.                                             *)
(***************************************************************************)

\* The further types that the steps below read.
CallTypes ==
  /\ told \in [Clients -> Nat]
  /\ watched \subseteq Clients
  /\ events \in Nat
  /\ op \in [Threads -> AllOps \cup {"none", "renew", "plug", "death"}]
  /\ event \in [Threads -> Nat]

InLibrary == {"init", "transfer", "save", "call", "ipc"}
Reporting == {"notify", "save"} \cup InClient

\* A mutex has an owner only while the owner is where the code holds it.
OwnedBy(t) ==
  /\ owner[DeathObserver] = t => pc[t] \in {"save", "erase"}
  /\ owner[Manage] = t =>
       \/ t \in Reapers /\ pc[t] \in {"unregister", "eraseObserver", "erase"}
       \/ t \in Reporters /\ pc[t] \in {"plugMap"} \cup Reporting
  /\ owner[PidMap] = t => t \in Reporters /\ pc[t] \in Reporting
  /\ \A c \in Clients :
       /\ owner[Connection(c)] = t => client[t] = c /\ pc[t] \in Holding
       /\ owner[Subscription(c)] = t =>
            /\ client[t] = c
            /\ \/ t \in Reporters /\ pc[t] \in {"callback", "called"} \cup InLibrary
               \/ t \in AppThreads /\ op[t] = "subscribe" /\ pc[t] \in {"call", "ipc"}

\* Where the threads of each kind can be, and in which calls.
Placed(t) ==
  /\ pc[t] = "subscribe" => op[t] = "subscribe"
  /\ op[t] = "subscribe" => t \in AppThreads /\ "subscribe" \in Ops
  /\ t \in Reporters =>
       /\ pc[t] \in {"idle", "plugManage", "plugMap", "notify", "handle", "callback",
                     "called"} \cup InLibrary
       /\ pc[t] # "idle" => op[t] = "plug"
       /\ ~CallbackVibrates => pc[t] \notin {"called"} \cup InLibrary
  /\ t \in Reapers =>
       pc[t] \in {"idle", "find", "reap", "unregister", "eraseObserver", "erase"}

OwnedInv == \A t \in Threads : OwnedBy(t) /\ Placed(t)

\* A step of t leaves the places of the other threads alone, takes only mutexes
\* that are free and gives back only its own.
StepOf(t) ==
  /\ \A u \in Threads \ {t} :
       /\ pc'[u] = pc[u] /\ op'[u] = op[u] /\ client'[u] = client[u]
       /\ todo'[u] = todo[u] /\ event'[u] = event[u]
  /\ \/ UNCHANGED owner
     \/ \E L \in SUBSET Locks : Release(t, L)
     \/ \E L \in SUBSET Locks : Take(t, L) /\ \A l \in L : owner[l] = NoOwner

\* The mutexes have names that differ.
LEMMA LocksDiffer ==
  /\ Manage \in Locks /\ PidMap \in Locks /\ DeathObserver \in Locks
  /\ Manage # PidMap /\ Manage # DeathObserver /\ PidMap # DeathObserver
  /\ \A c \in Clients :
       /\ Connection(c) \in Locks /\ Subscription(c) \in Locks
       /\ Connection(c) \notin ServiceLocks /\ Subscription(c) \notin ServiceLocks
       /\ \A d \in Clients : /\ Connection(c) # Subscription(d)
                             /\ Connection(c) = Connection(d) <=> c = d
                             /\ Subscription(c) = Subscription(d) <=> c = d
                             /\ Connection(c) \in LocksOf(d) <=> c = d
                             /\ Subscription(c) \in LocksOf(d) <=> c = d
  BY ConnectionAssumption
     DEF Locks, ServiceLocks, LocksOf, Connection, Subscription, Manage, PidMap,
         DeathObserver

\* No other thread gets or loses a mutex.
LEMMA OthersOwnTheSame ==
  ASSUME ConnectionTypes, NEW t \in Threads, StepOf(t), NEW u \in Threads \ {t},
         NEW l \in Locks
  PROVE  owner'[l] = u <=> owner[l] = u
<1>1. u # t /\ u # NoOwner
  BY ConnectionAssumption
<1> QED
  BY <1>1 DEF StepOf, Take, Release

\* A step of one thread leaves what another owns, and where it is.
LEMMA OthersStay ==
  ASSUME ConnectionTypes, OwnedInv, NEW t \in Threads, StepOf(t), NEW u \in Threads \ {t}
  PROVE  OwnedBy(u)' /\ Placed(u)'
<1>1. OwnedBy(u) /\ Placed(u)
  BY DEF OwnedInv
<1>2. pc'[u] = pc[u] /\ op'[u] = op[u] /\ client'[u] = client[u]
  BY DEF StepOf
<1>3. Placed(u)'
  BY <1>1, <1>2 DEF Placed
<1>4. \A l \in Locks : owner'[l] = u => owner[l] = u
  BY OthersOwnTheSame
<1>5. OwnedBy(u)'
  BY <1>1, <1>2, <1>4, LocksDiffer DEF OwnedBy
<1> QED
  BY <1>3, <1>5

\* What a thread owns after it took or gave back some mutexes.
LEMMA OwnAfterTake ==
  ASSUME NEW t, NEW L, Take(t, L), NEW l \in Locks
  PROVE  owner'[l] = t <=> owner[l] = t \/ l \in L
BY DEF Take

\* The same after it gave some back.
LEMMA OwnAfterRelease ==
  ASSUME NEW t \in Threads, NEW L, Release(t, L), NEW l \in Locks
  PROVE  owner'[l] = t <=> owner[l] = t /\ l \notin L
BY ConnectionAssumption DEF Release

\* A thread is done in the library with no mutex of its client.
LEMMA AfterCalls ==
  ASSUME NEW t \in Threads, Placed(t)
  PROVE  /\ Caller(t) = IF t \in Reporters THEN "called" ELSE "idle"
         /\ AfterInit(t) \in {"call", "subscribe", "check", "called", "idle"}
         /\ AfterInit(t) = "subscribe" => op[t] = "subscribe"
         /\ t \in Reporters /\ pc[t] # "idle" => AfterInit(t) = "call"
         /\ AfterInit(t) = "called" => t \in Reporters
<1>1. Caller(t) = IF t \in Reporters THEN "called" ELSE "idle"
  BY DEF Caller
<1>2. t \in Reporters /\ pc[t] # "idle" => op[t] = "plug"
  BY DEF Placed
<1> QED
  BY <1>1, <1>2 DEF AfterInit

\* Steps of the client library.
LEMMA LibraryOwns ==
  ASSUME ConnectionTypes, CallTypes, OwnedInv, NEW t \in Threads \ Reapers, LibraryStep(t)
  PROVE  StepOf(t) /\ OwnedBy(t)' /\ Placed(t)'
<1>1. OwnedBy(t) /\ Placed(t) /\ client[t] \in Clients
  BY DEF OwnedInv, ConnectionTypes
<1>2. /\ Caller(t) = IF t \in Reporters THEN "called" ELSE "idle"
      /\ AfterInit(t) \in {"call", "subscribe", "check", "called", "idle"}
      /\ AfterInit(t) = "subscribe" => op[t] = "subscribe"
      /\ t \in Reporters /\ pc[t] # "idle" => AfterInit(t) = "call"
      /\ AfterInit(t) = "called" => t \in Reporters
  BY <1>1, AfterCalls
<1> USE <1>1, <1>2, LocksDiffer
        DEF ConnectionTypes, CallTypes, At, Goto, clientVars, serviceVars, deathVars,
            threadVars
<1>3. CASE InitFound(t)
  <2>1. StepOf(t)
    BY <1>3 DEF InitFound, StepOf
  <2>2. OwnedBy(t)' /\ Placed(t)'
    BY <1>3 DEF InitFound, OwnedBy, Placed, InClient, InLibrary, Reporting, Holding
  <2> QED
    BY <2>1, <2>2
<1>4. CASE InitFails(t)
  <2>1. StepOf(t)
    BY <1>4 DEF InitFails, StepOf
  <2>2. OwnedBy(t)' /\ Placed(t)'
    BY <1>4 DEF InitFails, OwnedBy, Placed, InClient, InLibrary, Reporting, Holding
  <2> QED
    BY <2>1, <2>2
<1>5. CASE InitConnect(t)
  <2>1. Take(t, {Connection(client[t])}) /\ owner[Connection(client[t])] = NoOwner
    BY <1>5 DEF InitConnect, Needs
  <2>2. StepOf(t)
    BY <1>5, <2>1 DEF InitConnect, StepOf
  <2>3. \A l \in Locks : owner'[l] = t <=> owner[l] = t \/ l = Connection(client[t])
    BY <2>1, OwnAfterTake
  <2>4. OwnedBy(t)' /\ Placed(t)'
    BY <1>5, <2>3 DEF InitConnect, OwnedBy, Placed, InClient, InLibrary, Reporting,
                      Holding, ServiceLocks
  <2> QED
    BY <2>2, <2>4
<1>6. CASE RegisterClientDeathRecipient(t)
  <2>1. Take(t, {DeathObserver}) /\ owner[DeathObserver] = NoOwner
    BY <1>6 DEF RegisterClientDeathRecipient, Needs
  <2>2. StepOf(t)
    BY <1>6, <2>1 DEF RegisterClientDeathRecipient, StepOf
  <2>3. \A l \in Locks : owner'[l] = t <=> owner[l] = t \/ l = DeathObserver
    BY <2>1, OwnAfterTake
  <2>4. OwnedBy(t)' /\ Placed(t)'
    BY <1>6, <2>3 DEF RegisterClientDeathRecipient, OwnedBy, Placed, InClient,
                      InLibrary, Reporting, Holding, ServiceLocks
  <2> QED
    BY <2>2, <2>4
<1>7. CASE SaveClientPid(t)
  <2>1. Release(t, {DeathObserver, Connection(client[t])})
    BY <1>7 DEF SaveClientPid
  <2>2. StepOf(t)
    BY <1>7, <2>1 DEF SaveClientPid, StepOf
  <2>3. \A l \in Locks : owner'[l] = t
          <=> owner[l] = t /\ l \notin {DeathObserver, Connection(client[t])}
    BY <2>1, OwnAfterRelease
  <2>4. OwnedBy(t)' /\ Placed(t)'
    BY <1>7, <2>3 DEF SaveClientPid, OwnedBy, Placed, InClient, InLibrary, Reporting,
                      Holding, ServiceLocks
  <2> QED
    BY <2>2, <2>4
<1>8. CASE TransferFails(t)
  <2>1. Release(t, {Connection(client[t])})
    BY <1>8 DEF TransferFails
  <2>2. StepOf(t)
    BY <1>8, <2>1 DEF TransferFails, StepOf
  <2>3. \A l \in Locks : owner'[l] = t <=> owner[l] = t /\ l # Connection(client[t])
    BY <2>1, OwnAfterRelease
  <2>4. OwnedBy(t)' /\ Placed(t)'
    BY <1>8, <2>3 DEF TransferFails, OwnedBy, Placed, InClient, InLibrary, Reporting,
                      Holding, ServiceLocks
  <2> QED
    BY <2>2, <2>4
<1>9. CASE CallLock(t)
  <2>1. CASE proxy[client[t]] # 0
    <3>1. Take(t, {Connection(client[t])}) /\ owner[Connection(client[t])] = NoOwner /\ Goto(t, "ipc")
      BY <1>9, <2>1 DEF CallLock, Needs
    <3>2. StepOf(t)
      BY <1>9, <3>1 DEF CallLock, StepOf
    <3>3. \A l \in Locks : owner'[l] = t <=> owner[l] = t \/ l = Connection(client[t])
      BY <3>1, OwnAfterTake
    <3>4. OwnedBy(t)' /\ Placed(t)'
      BY <1>9, <3>1, <3>3 DEF CallLock, OwnedBy, Placed, InClient, InLibrary, Reporting,
                              Holding, ServiceLocks
    <3> QED
      BY <3>2, <3>4
  <2>2. CASE proxy[client[t]] = 0
    <3> DEFINE L == IF op[t] = "subscribe" THEN {Subscription(client[t])} ELSE {}
    <3>1. Release(t, L) /\ L \in SUBSET Locks /\ Goto(t, Caller(t))
      BY <1>9, <2>2 DEF CallLock
    <3>2. StepOf(t)
      BY <1>9, <3>1 DEF CallLock, StepOf
    <3>3. \A l \in Locks : owner'[l] = t <=> owner[l] = t /\ l \notin L
      BY <3>1, OwnAfterRelease
    <3>4. OwnedBy(t)' /\ Placed(t)'
      BY <1>9, <3>1, <3>3 DEF CallLock, OwnedBy, Placed, InClient, InLibrary, Reporting,
                              Holding, ServiceLocks
    <3> QED
      BY <3>2, <3>4
  <2> QED
    BY <2>1, <2>2
<1>10. CASE CallReturns(t)
  <2> DEFINE L == {Connection(client[t])}
                    \cup IF op[t] = "subscribe" THEN {Subscription(client[t])} ELSE {}
  <2>1. Release(t, L) /\ L \in SUBSET Locks
    BY <1>10 DEF CallReturns
  <2>2. StepOf(t)
    BY <1>10, <2>1 DEF CallReturns, StepOf
  <2>3. \A l \in Locks : owner'[l] = t <=> owner[l] = t /\ l \notin L
    BY <2>1, OwnAfterRelease
  <2>4. OwnedBy(t)' /\ Placed(t)'
    BY <1>10, <2>3 DEF CallReturns, OwnedBy, Placed, InClient, InLibrary, Reporting,
                       Holding, ServiceLocks
  <2> QED
    BY <2>2, <2>4
<1> QED
  BY <1>3, <1>4, <1>5, <1>6, <1>7, <1>8, <1>9, <1>10 DEF LibraryStep

\* Steps of an application's own thread.
LEMMA AppOwns ==
  ASSUME ConnectionTypes, CallTypes, OwnedInv, NEW t \in AppThreads, QuietApp(t)
  PROVE  StepOf(t) /\ OwnedBy(t)' /\ Placed(t)'
<1>1. /\ t \in Threads /\ t \notin Reporters /\ t \notin Reapers
      /\ OwnedBy(t) /\ Placed(t) /\ client[t] \in Clients
  BY ConnectionAssumption DEF OwnedInv, ConnectionTypes, Threads
<1> USE <1>1, LocksDiffer
        DEF ConnectionTypes, CallTypes, At, Goto, clientVars, serviceVars, deathVars,
            threadVars
<1>2. CASE AppCall(t)
  <2>1. StepOf(t)
    BY <1>2 DEF AppCall, StepOf
  <2>2. OwnedBy(t)' /\ Placed(t)'
    BY <1>2, ConnectionAssumption
       DEF AppCall, OwnedBy, Placed, InClient, InLibrary, Reporting, Holding
  <2> QED
    BY <2>1, <2>2
<1>3. CASE SubscribeVibratorPlugInfo(t)
  <2>1. CASE t \in subscribeSet
    <3>1. StepOf(t)
      BY <1>3, <2>1 DEF SubscribeVibratorPlugInfo, StepOf
    <3>2. OwnedBy(t)' /\ Placed(t)'
      BY <1>3, <2>1 DEF SubscribeVibratorPlugInfo, OwnedBy, Placed, InClient, InLibrary,
                        Reporting, Holding
    <3> QED
      BY <3>1, <3>2
  <2>2. CASE t \notin subscribeSet
    <3>1. Take(t, {Subscription(client[t])}) /\ owner[Subscription(client[t])] = NoOwner /\ Goto(t, "call")
      BY <1>3, <2>2 DEF SubscribeVibratorPlugInfo, Needs
    <3>2. StepOf(t)
      BY <1>3, <3>1 DEF SubscribeVibratorPlugInfo, StepOf
    <3>3. \A l \in Locks : owner'[l] = t <=> owner[l] = t \/ l = Subscription(client[t])
      BY <3>1, OwnAfterTake
    <3>4. OwnedBy(t)' /\ Placed(t)'
      BY <1>3, <3>1, <3>3 DEF SubscribeVibratorPlugInfo, OwnedBy, Placed, InClient,
                              InLibrary, Reporting, Holding, ServiceLocks
    <3> QED
      BY <3>2, <3>4
  <2> QED
    BY <2>1, <2>2
<1>4. CASE UnsubscribeVibratorPlugInfo(t)
  <2>1. StepOf(t)
    BY <1>4 DEF UnsubscribeVibratorPlugInfo, StepOf
  <2>2. OwnedBy(t)' /\ Placed(t)'
    BY <1>4 DEF UnsubscribeVibratorPlugInfo, OwnedBy, Placed, InClient, InLibrary,
                Reporting, Holding
  <2> QED
    BY <2>1, <2>2
<1>5. CASE ListCheck(t)
  <2>1. StepOf(t)
    BY <1>5 DEF ListCheck, StepOf
  <2>2. OwnedBy(t)' /\ Placed(t)'
    BY <1>5 DEF ListCheck, OwnedBy, Placed, InClient, InLibrary, Reporting, Holding
  <2> QED
    BY <2>1, <2>2
<1>6. CASE ListUse(t)
  <2>1. StepOf(t)
    BY <1>6 DEF ListUse, StepOf
  <2>2. OwnedBy(t)' /\ Placed(t)'
    BY <1>6 DEF ListUse, OwnedBy, Placed, InClient, InLibrary, Reporting, Holding
  <2> QED
    BY <2>1, <2>2
<1> QED
  BY <1>2, <1>3, <1>4, <1>5, <1>6 DEF QuietApp

\* The thread on which a client learns of the service's death.
LEMMA ObserverOwns ==
  ASSUME ConnectionTypes, CallTypes, OwnedInv, NEW t \in Observers,
         DeathNotice(t) \/ ForgetProxy(t)
  PROVE  StepOf(t) /\ OwnedBy(t)' /\ Placed(t)'
<1>1. /\ t \in Threads /\ t \notin Reporters /\ t \notin Reapers
      /\ OwnedBy(t) /\ Placed(t) /\ client[t] \in Clients
  BY ConnectionAssumption DEF OwnedInv, ConnectionTypes, Threads
<1> USE <1>1
        DEF ConnectionTypes, CallTypes, At, Goto, clientVars, serviceVars, deathVars,
            threadVars
<1>2. CASE DeathNotice(t)
  <2>1. StepOf(t)
    BY <1>2 DEF DeathNotice, StepOf
  <2>2. OwnedBy(t)' /\ Placed(t)'
    BY <1>2 DEF DeathNotice, OwnedBy, Placed, InClient, InLibrary, Reporting, Holding
  <2> QED
    BY <2>1, <2>2
<1>3. CASE ForgetProxy(t)
  <2>1. StepOf(t)
    BY <1>3 DEF ForgetProxy, StepOf
  <2>2. OwnedBy(t)' /\ Placed(t)'
    BY <1>3 DEF ForgetProxy, OwnedBy, Placed, InClient, InLibrary, Reporting, Holding
  <2> QED
    BY <2>1, <2>2
<1> QED
  BY <1>2, <1>3

\* The thread that reports a plug event.
LEMMA ReporterOwns ==
  ASSUME ConnectionTypes, CallTypes, OwnedInv, NEW t \in Reporters, QuietReporter(t)
  PROVE  StepOf(t) /\ OwnedBy(t)' /\ Placed(t)'
<1>1. /\ t \in Threads /\ t \notin Reapers /\ t \notin AppThreads
      /\ OwnedBy(t) /\ Placed(t) /\ client[t] \in Clients
  BY ConnectionAssumption DEF OwnedInv, ConnectionTypes, Threads
<1> USE <1>1, LocksDiffer
        DEF ConnectionTypes, CallTypes, At, Goto, clientVars, serviceVars, deathVars,
            threadVars
<1>2. CASE PlugEvent(t)
  <2>1. StepOf(t)
    BY <1>2 DEF PlugEvent, StepOf
  <2>2. OwnedBy(t)' /\ Placed(t)'
    BY <1>2 DEF PlugEvent, OwnedBy, Placed, InClient, InLibrary, Reporting, Holding
  <2> QED
    BY <2>1, <2>2
<1>3. CASE PlugLock(t)
  <2>1. Take(t, {Manage}) /\ owner[Manage] = NoOwner
    BY <1>3 DEF PlugLock, Needs
  <2>2. StepOf(t)
    BY <1>3, <2>1 DEF PlugLock, StepOf
  <2>3. \A l \in Locks : owner'[l] = t <=> owner[l] = t \/ l = Manage
    BY <2>1, OwnAfterTake
  <2>4. OwnedBy(t)' /\ Placed(t)'
    BY <1>3, <2>3 DEF PlugLock, OwnedBy, Placed, InClient, InLibrary, Reporting, Holding,
                      ServiceLocks
  <2> QED
    BY <2>2, <2>4
<1>4. CASE PlugReadClients(t)
  <2>1. Take(t, {PidMap}) /\ owner[PidMap] = NoOwner
    BY <1>4 DEF PlugReadClients, Needs
  <2>2. StepOf(t)
    BY <1>4, <2>1 DEF PlugReadClients, StepOf
  <2>3. \A l \in Locks : owner'[l] = t <=> owner[l] = t \/ l = PidMap
    BY <2>1, OwnAfterTake
  <2>4. OwnedBy(t)' /\ Placed(t)'
    BY <1>4, <2>3 DEF PlugReadClients, OwnedBy, Placed, InClient, InLibrary, Reporting,
                      Holding, ServiceLocks
  <2> QED
    BY <2>2, <2>4
<1>5. CASE ProcessPlugEvent(t)
  <2>1. /\ pc[t] = "notify" /\ UNCHANGED <<owner, op, event>>
        /\ \/ UNCHANGED <<client, pc>>
           \/ \E c \in Clients : client' = [client EXCEPT ![t] = c] /\ Goto(t, "handle")
    BY <1>5 DEF ProcessPlugEvent
  <2>2. StepOf(t)
    BY <1>5 DEF ProcessPlugEvent, StepOf
  <2>3. OwnedBy(t)' /\ Placed(t)'
    BY <2>1 DEF OwnedBy, Placed, InClient, InLibrary, Reporting, Holding
  <2> QED
    BY <2>2, <2>3
<1>6. CASE PlugDone(t)
  <2>1. Release(t, {Manage, PidMap})
    BY <1>6 DEF PlugDone
  <2>2. StepOf(t)
    BY <1>6, <2>1 DEF PlugDone, StepOf
  <2>3. \A l \in Locks : owner'[l] = t <=> owner[l] = t /\ l \notin {Manage, PidMap}
    BY <2>1, OwnAfterRelease
  <2>4. OwnedBy(t)' /\ Placed(t)'
    BY <1>6, <2>3 DEF PlugDone, OwnedBy, Placed, InClient, InLibrary, Reporting, Holding,
                      ServiceLocks
  <2> QED
    BY <2>2, <2>4
<1>7. CASE HandleVibratorData(t)
  <2>1. Take(t, {Subscription(client[t])}) /\ owner[Subscription(client[t])] = NoOwner
    BY <1>7 DEF HandleVibratorData, Needs
  <2>2. StepOf(t)
    BY <1>7, <2>1 DEF HandleVibratorData, StepOf
  <2>3. \A l \in Locks : owner'[l] = t <=> owner[l] = t \/ l = Subscription(client[t])
    BY <2>1, OwnAfterTake
  <2>4. OwnedBy(t)' /\ Placed(t)'
    BY <1>7, <2>3 DEF HandleVibratorData, OwnedBy, Placed, InClient, InLibrary,
                      Reporting, Holding, ServiceLocks
  <2> QED
    BY <2>2, <2>4
<1>8. CASE CallbackCalls(t)
  <2>1. StepOf(t)
    BY <1>8 DEF CallbackCalls, StepOf
  <2>2. OwnedBy(t)' /\ Placed(t)'
    BY <1>8 DEF CallbackCalls, OwnedBy, Placed, InClient, InLibrary, Reporting, Holding
  <2> QED
    BY <2>1, <2>2
<1>9. CASE CallbackReturns(t)
  <2>1. Release(t, {Subscription(client[t])})
    BY <1>9 DEF CallbackReturns
  <2>2. StepOf(t)
    BY <1>9, <2>1 DEF CallbackReturns, StepOf
  <2>3. \A l \in Locks : owner'[l] = t <=> owner[l] = t /\ l # Subscription(client[t])
    BY <2>1, OwnAfterRelease
  <2>4. OwnedBy(t)' /\ Placed(t)'
    BY <1>9, <2>3 DEF CallbackReturns, OwnedBy, Placed, InClient, InLibrary, Reporting,
                      Holding, ServiceLocks
  <2> QED
    BY <2>2, <2>4
<1> QED
  BY <1>2, <1>3, <1>4, <1>5, <1>6, <1>7, <1>8, <1>9 DEF QuietReporter

\* The thread on which the service learns of a client's death.
LEMMA ReaperOwns ==
  ASSUME ConnectionTypes, CallTypes, OwnedInv, NEW t \in Reapers, ReaperStep(t)
  PROVE  StepOf(t) /\ OwnedBy(t)' /\ Placed(t)'
<1>1. /\ t \in Threads /\ t \notin Reporters /\ t \notin AppThreads
      /\ OwnedBy(t) /\ Placed(t) /\ client[t] \in Clients
  BY ConnectionAssumption DEF OwnedInv, ConnectionTypes, Threads
<1> USE <1>1, LocksDiffer
        DEF ConnectionTypes, CallTypes, At, Goto, clientVars, serviceVars, deathVars,
            threadVars
<1>2. CASE ReapNotice(t)
  <2>1. StepOf(t)
    BY <1>2 DEF ReapNotice, StepOf
  <2>2. OwnedBy(t)' /\ Placed(t)'
    BY <1>2 DEF ReapNotice, OwnedBy, Placed, InClient, InLibrary, Reporting, Holding
  <2> QED
    BY <2>1, <2>2
<1>3. CASE FindClientPid(t)
  <2>1. StepOf(t)
    BY <1>3 DEF FindClientPid, StepOf
  <2>2. OwnedBy(t)' /\ Placed(t)'
    BY <1>3 DEF FindClientPid, OwnedBy, Placed, InClient, InLibrary, Reporting, Holding
  <2> QED
    BY <2>1, <2>2
<1>4. CASE ReapLock(t)
  <2>1. Take(t, {Manage}) /\ owner[Manage] = NoOwner
    BY <1>4 DEF ReapLock, Needs
  <2>2. StepOf(t)
    BY <1>4, <2>1 DEF ReapLock, StepOf
  <2>3. \A l \in Locks : owner'[l] = t <=> owner[l] = t \/ l = Manage
    BY <2>1, OwnAfterTake
  <2>4. OwnedBy(t)' /\ Placed(t)'
    BY <1>4, <2>3 DEF ReapLock, OwnedBy, Placed, InClient, InLibrary, Reporting, Holding,
                      ServiceLocks
  <2> QED
    BY <2>2, <2>4
<1>5. CASE UnregisterClientDeathRecipient(t)
  <2>1. CASE client[t] \in clientPidMap
    <3>1. StepOf(t)
      BY <1>5, <2>1 DEF UnregisterClientDeathRecipient, StepOf
    <3>2. OwnedBy(t)' /\ Placed(t)'
      BY <1>5, <2>1 DEF UnregisterClientDeathRecipient, OwnedBy, Placed, InClient,
                        InLibrary, Reporting, Holding
    <3> QED
      BY <3>1, <3>2
  <2>2. CASE client[t] \notin clientPidMap
    <3>1. Release(t, {Manage}) /\ Goto(t, "idle")
      BY <1>5, <2>2 DEF UnregisterClientDeathRecipient
    <3>2. StepOf(t)
      BY <1>5, <3>1 DEF UnregisterClientDeathRecipient, StepOf
    <3>3. \A l \in Locks : owner'[l] = t <=> owner[l] = t /\ l # Manage
      BY <3>1, OwnAfterRelease
    <3>4. OwnedBy(t)' /\ Placed(t)'
      BY <1>5, <3>1, <3>3 DEF UnregisterClientDeathRecipient, OwnedBy, Placed, InClient,
                              InLibrary, Reporting, Holding, ServiceLocks
    <3> QED
      BY <3>2, <3>4
  <2> QED
    BY <2>1, <2>2
<1>6. CASE RemoveDeathRecipient(t)
  <2>1. Take(t, {DeathObserver}) /\ owner[DeathObserver] = NoOwner
    BY <1>6 DEF RemoveDeathRecipient, Needs
  <2>2. StepOf(t)
    BY <1>6, <2>1 DEF RemoveDeathRecipient, StepOf
  <2>3. \A l \in Locks : owner'[l] = t <=> owner[l] = t \/ l = DeathObserver
    BY <2>1, OwnAfterTake
  <2>4. OwnedBy(t)' /\ Placed(t)'
    BY <1>6, <2>3 DEF RemoveDeathRecipient, OwnedBy, Placed, InClient, InLibrary,
                      Reporting, Holding, ServiceLocks
  <2> QED
    BY <2>2, <2>4
<1>7. CASE DestroyClientPid(t)
  <2>1. Release(t, {DeathObserver, Manage})
    BY <1>7 DEF DestroyClientPid
  <2>2. StepOf(t)
    BY <1>7, <2>1 DEF DestroyClientPid, StepOf
  <2>3. \A l \in Locks : owner'[l] = t <=> owner[l] = t /\ l \notin {DeathObserver, Manage}
    BY <2>1, OwnAfterRelease
  <2>4. OwnedBy(t)' /\ Placed(t)'
    BY <1>7, <2>3 DEF DestroyClientPid, OwnedBy, Placed, InClient, InLibrary, Reporting,
                      Holding, ServiceLocks
  <2> QED
    BY <2>2, <2>4
<1> QED
  BY <1>2, <1>3, <1>4, <1>5, <1>6, <1>7 DEF ReaperStep

-------------------------------------------------------------------------------
\* The steps by whose threads they are.
LEMMA StepsOfThreads ==
  ASSUME [Next]_vars
  PROVE  \/ \E t \in Threads \ Reapers : LibraryStep(t)
         \/ \E t \in AppThreads : QuietApp(t) \/ NullDereference(t)
         \/ \E t \in Observers : DeathNotice(t) \/ ForgetProxy(t)
         \/ \E t \in Reporters : QuietReporter(t)
         \/ \E t \in Reapers : ReaperStep(t)
         \/ \E c \in Clients : ClientDies(c)
         \/ ServiceDies
         \/ ServiceStarts
         \/ UNCHANGED vars
<1>1. AppThreads \cup Observers \cup Reporters \subseteq Threads \ Reapers
  BY ConnectionAssumption DEF Threads
<1>2. ASSUME NEW t \in AppThreads, AppCall(t) \/ AppStep(t)
      PROVE  QuietApp(t) \/ LibraryStep(t) \/ NullDereference(t)
  BY <1>2 DEF AppStep, QuietApp
<1>3. ASSUME NEW t \in Observers, ObserverStep(t)
      PROVE  DeathNotice(t) \/ ForgetProxy(t) \/ LibraryStep(t)
  BY <1>3 DEF ObserverStep
<1>4. ASSUME NEW t \in Reporters, PlugEvent(t) \/ CallbackCalls(t) \/ ReporterStep(t)
      PROVE  QuietReporter(t) \/ LibraryStep(t)
  BY <1>4 DEF ReporterStep, QuietReporter
<1>5. CASE Next
  <2>1. CASE \E t \in AppThreads : AppCall(t) \/ AppStep(t)
    BY <2>1, <1>1, <1>2
  <2>2. CASE \E t \in Observers : ObserverStep(t)
    BY <2>2, <1>1, <1>3
  <2>3. CASE \E t \in Reporters : PlugEvent(t) \/ CallbackCalls(t) \/ ReporterStep(t)
    BY <2>3, <1>1, <1>4
  <2> QED
    BY <1>5, <2>1, <2>2, <2>3 DEF Next
<1> QED
  BY <1>5

\* The mutexes of a process die with it, and so do its threads.
LEMMA DeathOwns ==
  ASSUME ConnectionTypes, OwnedInv, NEW c \in Clients, Die(c)
  PROVE  OwnedInv'
<1> SUFFICES ASSUME NEW t \in Threads PROVE OwnedBy(t)' /\ Placed(t)'
  BY DEF OwnedInv
<1>1. OwnedBy(t) /\ Placed(t) /\ client[t] \in Clients /\ t # NoOwner
  BY ConnectionAssumption DEF OwnedInv, ConnectionTypes
<1>2. \A l \in Locks : owner'[l] = t => owner[l] = t /\ l \notin LocksOf(c)
  BY <1>1 DEF Die
<1>3. /\ op'[t] = op[t] /\ client'[t] = client[t]
      /\ \/ pc'[t] = pc[t]
         \/ /\ client[t] = c /\ pc[t] \in InClient
            /\ pc'[t] = IF t \in Reporters THEN "notify" ELSE "idle"
  BY DEF Die, threadVars
<1>4. Placed(t)'
  BY <1>1, <1>3 DEF Placed, InClient, InLibrary
<1>5. OwnedBy(t)'
  <2>1. CASE pc'[t] = pc[t]
    BY <1>1, <1>2, <1>3, <2>1, LocksDiffer DEF OwnedBy
  <2>2. CASE /\ client[t] = c /\ pc[t] \in InClient
             /\ pc'[t] = IF t \in Reporters THEN "notify" ELSE "idle"
    BY <1>1, <1>2, <1>3, <2>2, LocksDiffer DEF OwnedBy, InClient, Reporting
  <2> QED
    BY <1>3, <2>1, <2>2
<1> QED
  BY <1>4, <1>5

\* With the service its three mutexes are gone.
LEMMA ServiceDeathOwns ==
  ASSUME ConnectionTypes, OwnedInv, ServiceDies
  PROVE  OwnedInv'
<1> SUFFICES ASSUME NEW t \in Threads PROVE OwnedBy(t)' /\ Placed(t)'
  BY DEF OwnedInv
<1>1. OwnedBy(t) /\ Placed(t) /\ client[t] \in Clients /\ t # NoOwner
  BY ConnectionAssumption DEF OwnedInv, ConnectionTypes
<1>2. \A l \in Locks : owner'[l] = t => owner[l] = t /\ l \notin ServiceLocks
  BY <1>1 DEF ServiceDies
<1>3. /\ op'[t] = op[t] /\ client'[t] = client[t]
      /\ pc'[t] = CASE pc[t] = "save"                 -> "transfer"
                    [] pc[t] \in InService \ {"save"} -> "idle"
                    [] OTHER                          -> pc[t]
  BY DEF ServiceDies
<1>4. Placed(t)'
  BY <1>1, <1>3 DEF Placed, InService, InLibrary
<1>5. OwnedBy(t)'
  BY <1>1, <1>2, <1>3, LocksDiffer
     DEF OwnedBy, ServiceLocks, InService, InClient, InLibrary, Holding
<1> QED
  BY <1>4, <1>5

\* Every step keeps OwnedInv.
LEMMA StepOwned ==
  ASSUME ConnectionTypes, CallTypes, OwnedInv, [Next]_vars
  PROVE  OwnedInv'
<1>1. ASSUME NEW t \in Threads, StepOf(t), OwnedBy(t)', Placed(t)'
      PROVE  OwnedInv'
  <2>1. \A u \in Threads \ {t} : OwnedBy(u)' /\ Placed(u)'
    BY <1>1, OthersStay
  <2> QED
    BY <1>1, <2>1 DEF OwnedInv
<1>2. CASE \E t \in Threads \ Reapers : LibraryStep(t)
  BY <1>1, <1>2, LibraryOwns
<1>3. ASSUME NEW t \in AppThreads, QuietApp(t)
      PROVE  OwnedInv'
  BY <1>1, <1>3, AppOwns DEF Threads
<1>4. ASSUME NEW t \in AppThreads, NullDereference(t)
      PROVE  OwnedInv'
  BY <1>4, DeathOwns DEF NullDereference, ConnectionTypes, Threads
<1>5. CASE \E t \in Observers : DeathNotice(t) \/ ForgetProxy(t)
  BY <1>1, <1>5, ObserverOwns DEF Threads
<1>6. CASE \E t \in Reporters : QuietReporter(t)
  BY <1>1, <1>6, ReporterOwns DEF Threads
<1>7. CASE \E t \in Reapers : ReaperStep(t)
  BY <1>1, <1>7, ReaperOwns DEF Threads
<1>8. CASE \E c \in Clients : ClientDies(c)
  BY <1>8, DeathOwns DEF ClientDies
<1>9. CASE ServiceDies
  BY <1>9, ServiceDeathOwns
<1>10. CASE ServiceStarts \/ UNCHANGED vars
  BY <1>10 DEF ServiceStarts, OwnedInv, OwnedBy, Placed, vars, threadVars
<1> QED
  BY <1>2, <1>3, <1>4, <1>5, <1>6, <1>7, <1>8, <1>9, <1>10, StepsOfThreads

\* Every step keeps CallTypes.
LEMMA StepCallTypes ==
  ASSUME ConnectionTypes, CallTypes, [Next]_vars
  PROVE  CallTypes'
<1> USE ConnectionAssumption
        DEF ConnectionTypes, CallTypes, Threads, At, Goto, AllOps, clientVars,
            serviceVars, deathVars, threadVars
<1>1. ASSUME NEW t \in Threads \ Reapers, LibraryStep(t)
      PROVE  CallTypes'
  BY <1>1 DEF LibraryStep, InitFound, InitConnect, InitFails,
              RegisterClientDeathRecipient, SaveClientPid, TransferFails, CallLock,
              CallReturns
<1>2. ASSUME NEW t \in AppThreads, QuietApp(t)
      PROVE  CallTypes'
  BY <1>2 DEF QuietApp, AppCall, SubscribeVibratorPlugInfo, UnsubscribeVibratorPlugInfo,
              ListCheck, ListUse
<1>3. ASSUME NEW t \in AppThreads, NullDereference(t)
      PROVE  CallTypes'
  BY <1>3 DEF NullDereference, Die
<1>4. ASSUME NEW t \in Observers, DeathNotice(t) \/ ForgetProxy(t)
      PROVE  CallTypes'
  BY <1>4 DEF DeathNotice, ForgetProxy
<1>5. ASSUME NEW t \in Reporters, QuietReporter(t)
      PROVE  CallTypes'
  BY <1>5 DEF QuietReporter, PlugEvent, PlugLock, PlugReadClients, ProcessPlugEvent,
              PlugDone, HandleVibratorData, CallbackCalls, CallbackReturns
<1>6. ASSUME NEW t \in Reapers, ReaperStep(t)
      PROVE  CallTypes'
  BY <1>6 DEF ReaperStep, ReapNotice, FindClientPid, ReapLock,
              UnregisterClientDeathRecipient, RemoveDeathRecipient, DestroyClientPid
<1>7. ASSUME NEW c \in Clients, ClientDies(c)
      PROVE  CallTypes'
  BY <1>7 DEF ClientDies, Die
<1>8. CASE ServiceDies
  BY <1>8 DEF ServiceDies
<1>9. CASE ServiceStarts \/ UNCHANGED vars
  BY <1>9 DEF ServiceStarts, vars
<1> QED
  BY <1>1, <1>2, <1>3, <1>4, <1>5, <1>6, <1>7, <1>8, <1>9, StepsOfThreads

\* Every mutex is owned from a place where the code holds it, in every
\* reachable state.
LockInv == CoreInv /\ CallTypes /\ OwnedInv

\* The mutexes of SendMsgToClient, of the handlers of deaths and of the client
\* library are held from where the code takes them to where it gives them back.
THEOREM LocksInv == Spec => []LockInv
<1>1. Init => CallTypes /\ OwnedInv
  BY ConnectionAssumption, LocksDiffer
     DEF Init, CallTypes, OwnedInv, OwnedBy, Placed, InLibrary
<1>2. CoreInv /\ CallTypes /\ OwnedInv /\ [Next]_vars => (CallTypes /\ OwnedInv)'
  BY StepOwned, StepCallTypes DEF CoreInv
<1> QED
  BY <1>1, <1>2, ConnectionsInv, PTL DEF Spec, LockInv

-------------------------------------------------------------------------------
\* Threads do not wait for each other.

\* While the service lives on, nobody is told of its death.
OneLife == MaxLives = 1

OneLifeInv ==
  up /\ life = 1 /\ \A t \in Observers \ AppThreads : pc[t] = "idle"

\* Every step keeps OneLifeInv.
LEMMA StepOneLife ==
  ASSUME OneLife, ConnectionTypes, CallTypes, OwnedInv, OneLifeInv,
         \A c \in Clients : deathLinks[c] \subseteq 1 .. life, [Next]_vars
  PROVE  OneLifeInv' /\ \A c \in Clients : deathLinks'[c] \subseteq 1 .. life'
<1> USE ConnectionAssumption
        DEF ConnectionTypes, OneLifeInv, OneLife, Threads, At, Goto, clientVars,
            serviceVars, deathVars, threadVars
<1>1. ASSUME NEW t \in Threads \ Reapers, LibraryStep(t)
      PROVE  OneLifeInv' /\ \A c \in Clients : deathLinks'[c] \subseteq 1 .. life'
  <2>1. pc[t] # "idle" /\ UNCHANGED <<up, life>>
    BY <1>1 DEF LibraryStep, InitFound, InitConnect, InitFails,
                RegisterClientDeathRecipient, SaveClientPid, TransferFails, CallLock,
                CallReturns
  <2>2. \A u \in Threads \ {t} : pc'[u] = pc[u]
    BY <1>1, LibraryOwns DEF StepOf
  <2>3. OneLifeInv'
    BY <2>1, <2>2
  <2>4. \/ UNCHANGED deathLinks
        \/ deathLinks' = [deathLinks EXCEPT ![client[t]] = @ \cup {life}]
    BY <1>1 DEF LibraryStep, InitFound, InitConnect, InitFails,
                RegisterClientDeathRecipient, SaveClientPid, TransferFails, CallLock,
                CallReturns
  <2>5. \A c \in Clients : deathLinks'[c] \subseteq deathLinks[c] \cup {life}
    BY <2>4
  <2> QED
    BY <2>1, <2>3, <2>5
<1>2. ASSUME NEW t \in AppThreads, QuietApp(t)
      PROVE  OneLifeInv' /\ \A c \in Clients : deathLinks'[c] \subseteq 1 .. life'
  <2>1. UNCHANGED <<up, life, deathLinks>>
    BY <1>2 DEF QuietApp, AppCall, SubscribeVibratorPlugInfo, UnsubscribeVibratorPlugInfo,
                ListCheck, ListUse
  <2>2. \A u \in Threads \ {t} : pc'[u] = pc[u]
    BY <1>2, AppOwns DEF StepOf
  <2> QED
    BY <2>1, <2>2
<1>3. ASSUME NEW c \in Clients, Die(c)
      PROVE  OneLifeInv' /\ \A d \in Clients : deathLinks'[d] \subseteq 1 .. life'
  BY <1>3 DEF Die, InClient
<1>4. ASSUME NEW t \in Observers, DeathNotice(t) \/ ForgetProxy(t)
      PROVE  OneLifeInv' /\ \A c \in Clients : deathLinks'[c] \subseteq 1 .. life'
  <2>1. CASE DeathNotice(t)
    <3>1. PICK n \in deathLinks[Home[t]] : ~(up /\ n = life)
      BY <2>1 DEF DeathNotice
    <3>2. n \in 1 .. life /\ n # life
      BY <3>1
    <3> QED
      BY <3>2
  <2>2. CASE ForgetProxy(t)
    <3>1. UNCHANGED <<up, life, deathLinks>> /\ pc[t] # "idle"
      BY <2>2 DEF ForgetProxy
    <3>2. \A u \in Threads \ {t} : pc'[u] = pc[u]
      BY <1>4, ObserverOwns DEF StepOf
    <3> QED
      BY <3>1, <3>2
  <2> QED
    BY <1>4, <2>1, <2>2
<1>5. ASSUME NEW t \in Reporters, QuietReporter(t)
      PROVE  OneLifeInv' /\ \A c \in Clients : deathLinks'[c] \subseteq 1 .. life'
  <2>1. UNCHANGED <<up, life, deathLinks>>
    BY <1>5 DEF QuietReporter, PlugEvent, PlugLock, PlugReadClients, ProcessPlugEvent,
                PlugDone, HandleVibratorData, CallbackCalls, CallbackReturns
  <2>2. \A u \in Threads \ {t} : pc'[u] = pc[u]
    BY <1>5, ReporterOwns DEF StepOf
  <2> QED
    BY <2>1, <2>2
<1>6. ASSUME NEW t \in Reapers, ReaperStep(t)
      PROVE  OneLifeInv' /\ \A c \in Clients : deathLinks'[c] \subseteq 1 .. life'
  <2>1. UNCHANGED <<up, life, deathLinks>>
    BY <1>6 DEF ReaperStep, ReapNotice, FindClientPid, ReapLock,
                UnregisterClientDeathRecipient, RemoveDeathRecipient, DestroyClientPid
  <2>2. \A u \in Threads \ {t} : pc'[u] = pc[u]
    BY <1>6, ReaperOwns DEF StepOf
  <2> QED
    BY <2>1, <2>2
<1>7. ~ServiceDies /\ ~ServiceStarts
  BY DEF ServiceDies, ServiceStarts
<1>8. CASE UNCHANGED vars
  BY <1>8 DEF vars
<1>9. ASSUME NEW t \in AppThreads, NullDereference(t)
      PROVE  \E c \in Clients : Die(c)
  BY <1>9 DEF NullDereference
<1> QED
  BY <1>1, <1>2, <1>3, <1>4, <1>5, <1>6, <1>7, <1>8, <1>9, StepsOfThreads DEF ClientDies

\* A service that is never restarted makes no ProcessDeathObserver of a client
\* run.
THEOREM OneLifeHolds ==
  ASSUME OneLife
  PROVE  Spec => []OneLifeInv
<1> DEFINE Links == \A c \in Clients : deathLinks[c] \subseteq 1 .. life
<1>1. Init => OneLifeInv /\ Links
  BY DEF Init, OneLifeInv, Threads
<1>2. LockInv /\ OneLifeInv /\ Links /\ [Next]_vars => (OneLifeInv /\ Links)'
  BY OneLife, StepOneLife DEF LockInv, CoreInv
<1> HIDE DEF Links
<1> QED
  BY <1>1, <1>2, LocksInv, PTL DEF Spec

\* What LockCycle needs is excluded: plug callbacks that call back, and two
\* threads of one client of which one subscribes.
OneCallAtATime ==
  /\ ~CallbackVibrates
  /\ \/ "subscribe" \notin Ops
     \/ /\ MaxLives = 1
        /\ \A t, u \in AppThreads : Home[t] = Home[u] => t = u


\* The mutexes a thread may need, and where.
LEMMA NeedsOf ==
  ASSUME NEW t, NEW l \in Needs(t)
  PROVE  \/ l = Connection(client[t]) /\ pc[t] \in {"init", "call", "renew"}
         \/ l = Subscription(client[t]) /\ pc[t] \in {"subscribe", "unsubscribe", "handle"}
         \/ l = DeathObserver /\ pc[t] \in {"transfer", "eraseObserver"}
         \/ /\ l = Manage
            /\ \/ pc[t] \in {"plugManage", "reap"}
               \/ pc[t] = "ipc" /\ op[t] # "subscribe"
         \/ l = PidMap /\ pc[t] \in {"save", "plugMap", "find", "unregister", "erase"}
BY DEF Needs

\* Whoever holds the subscriptions of a client does not wait.
LEMMA SubscriberGoesOn ==
  ASSUME OneCallAtATime, ConnectionTypes, OwnedInv, MaxLives = 1 => OneLifeInv,
         NEW c \in Clients, NEW t \in Threads, owner[Subscription(c)] = t,
         NEW l \in Needs(t)
  PROVE  owner[l] \notin Threads
<1>1. client[t] = c /\ OwnedBy(t) /\ Placed(t)
  BY DEF OwnedInv, OwnedBy
<1>2. CASE t \in Reporters
  <2>1. pc[t] = "callback"
    BY <1>1, <1>2, ConnectionAssumption DEF OwnedBy, Placed, OneCallAtATime
  <2> QED
    BY <2>1, NeedsOf
<1>3. CASE t \in AppThreads /\ op[t] = "subscribe" /\ pc[t] \in {"call", "ipc"}
  <2>1. MaxLives = 1 /\ OneLifeInv /\ \A v, u \in AppThreads : Home[v] = Home[u] => v = u
    BY <1>1, <1>3 DEF OneCallAtATime, Placed
  <2>2. pc[t] = "call" /\ l = Connection(c)
    BY <1>1, <1>3, NeedsOf
  <2> SUFFICES ASSUME NEW u \in Threads, owner[Connection(c)] = u
               PROVE  FALSE
    BY <2>2
  <2>3. client[u] = c /\ pc[u] \in Holding /\ Placed(u)
    BY DEF OwnedInv, OwnedBy
  <2>4. u \in AppThreads
    BY <2>1, <2>3 DEF Placed, OneCallAtATime, OneLifeInv, Threads, Holding, InLibrary
  <2>5. Home[u] = c /\ Home[t] = c
    BY <1>1, <1>3, <2>3, <2>4, ConnectionAssumption DEF ConnectionTypes
  <2>6. u = t
    BY <1>3, <2>1, <2>4, <2>5
  <2> QED
    BY <2>2, <2>3, <2>6 DEF Holding
<1> QED
  BY <1>1, <1>2, <1>3 DEF OwnedBy

\* The order in which the mutexes are taken: who holds one waits at most for one
\* that comes before it, clientMutex_ being the last and the subscriptions of a
\* client the first.
LEMMA NobodyWaits ==
  ASSUME OneCallAtATime, ConnectionTypes, OwnedInv, MaxLives = 1 => OneLifeInv,
         NEW S \in SUBSET Threads,
         \A t \in S : \E l \in Needs(t) : owner[l] \in S
  PROVE  S = {}
<1> SUFFICES ASSUME NEW t \in S PROVE FALSE
  OBVIOUS
<1>1. \A u \in S : OwnedBy(u) /\ Placed(u) /\ client[u] \in Clients
  BY DEF OwnedInv, ConnectionTypes
<1>2. \A u \in S, c \in Clients : owner[Subscription(c)] # u
  BY SubscriberGoesOn
<1>3. \A u \in S : owner[PidMap] # u
  <2> SUFFICES ASSUME NEW u \in S, owner[PidMap] = u PROVE FALSE
    OBVIOUS
  <2>1. u \in Reporters /\ pc[u] \in {"notify", "handle", "callback"}
    BY <1>1 DEF OwnedBy, Placed, OneCallAtATime, Reporting, InClient, InLibrary
  <2>2. PICK l \in Needs(u) : owner[l] \in S
    OBVIOUS
  <2>3. l = Subscription(client[u])
    BY <2>1, NeedsOf
  <2> QED
    BY <1>1, <1>2, <2>2, <2>3
<1>4. \A u \in S : owner[DeathObserver] # u
  <2> SUFFICES ASSUME NEW u \in S, owner[DeathObserver] = u PROVE FALSE
    OBVIOUS
  <2>1. pc[u] \in {"save", "erase"}
    BY <1>1 DEF OwnedBy
  <2>2. PICK l \in Needs(u) : owner[l] \in S
    OBVIOUS
  <2> QED
    BY <1>3, <2>1, <2>2, NeedsOf
<1>5. \A u \in S : owner[Manage] # u
  <2> SUFFICES ASSUME NEW u \in S, owner[Manage] = u PROVE FALSE
    OBVIOUS
  <2>1. pc[u] \in {"unregister", "eraseObserver", "erase", "plugMap", "notify", "handle",
                   "callback"}
    BY <1>1 DEF OwnedBy, Placed, OneCallAtATime, Reporting, InClient, InLibrary
  <2>2. PICK l \in Needs(u) : owner[l] \in S
    OBVIOUS
  <2>3. \/ l = PidMap \/ l = DeathObserver \/ l = Subscription(client[u])
    BY <2>1, NeedsOf
  <2> QED
    BY <1>1, <1>2, <1>3, <1>4, <2>2, <2>3
<1>6. \A u \in S, c \in Clients : owner[Connection(c)] # u
  <2> SUFFICES ASSUME NEW u \in S, NEW c \in Clients, owner[Connection(c)] = u PROVE FALSE
    OBVIOUS
  <2>1. pc[u] \in {"transfer", "save", "ipc"}
    BY <1>1 DEF OwnedBy, Holding
  <2>2. PICK l \in Needs(u) : owner[l] \in S
    OBVIOUS
  <2>3. l = PidMap \/ l = DeathObserver \/ l = Manage
    BY <2>1, NeedsOf
  <2> QED
    BY <1>3, <1>4, <1>5, <2>2, <2>3
<1>7. PICK l \in Needs(t) : owner[l] \in S
  OBVIOUS
<1>8. \/ l = Connection(client[t]) \/ l = Subscription(client[t])
      \/ l = DeathObserver \/ l = Manage \/ l = PidMap
  BY <1>7, NeedsOf
<1> QED
  BY <1>1, <1>2, <1>3, <1>4, <1>5, <1>6, <1>7, <1>8

\* Calls over binder, plug notifications and the handlers of deaths never close
\* a circle of waiting threads, in any number of clients, unless plug callbacks
\* call back or a client subscribes on one thread while another calls.
THEOREM NobodyWaitsForEver ==
  ASSUME OneCallAtATime
  PROVE  Spec => []NoMutualWait
<1>1. LockInv /\ (MaxLives = 1 => OneLifeInv) => NoMutualWait
  <2> SUFFICES ASSUME LockInv, MaxLives = 1 => OneLifeInv,
                      NEW S \in (SUBSET Threads) \ {{}},
                      \A t \in S : \E l \in Needs(t) : owner[l] \in S
               PROVE  FALSE
    BY DEF NoMutualWait
  <2> QED
    BY OneCallAtATime, NobodyWaits DEF LockInv, CoreInv
<1>2. CASE MaxLives = 1
  <2>1. OneLife
    BY <1>2 DEF OneLife
  <2>2. Spec => []OneLifeInv
    BY <2>1, OneLifeHolds
  <2>3. LockInv /\ OneLifeInv => NoMutualWait
    BY <1>1
  <2> QED
    BY <2>2, <2>3, LocksInv, PTL
<1>3. CASE MaxLives # 1
  <2>1. LockInv => NoMutualWait
    BY <1>1, <1>3
  <2> QED
    BY <2>1, LocksInv, PTL
<1> QED
  BY <1>2, <1>3

-------------------------------------------------------------------------------
(***************************************************************************)
(* The dead leave the registry.  RegisterClientDeathRecipient adds the     *)
(* death recipient before it saves the pid, so a living client of the      *)
(* registry has one; a registering client has its proxy, and keeps it      *)
(* since forgetting it takes the mutex that the registration holds.        *)
(***************************************************************************)

RegisteringInv ==
  /\ life # 0
  /\ \A t \in Threads :
       /\ pc[t] = "save" => client[t] \in watched
       /\ pc[t] \in {"transfer", "save"} => client[t] \in alive /\ proxy[client[t]] # 0

ReapInv ==
  /\ RegisteringInv
  /\ clientPidMap \cap alive \subseteq watched
  /\ DeadAreReaped

\* The steps that change neither the registry nor who is alive.
LEMMA KeepsReaped ==
  ASSUME ConnectionTypes, ReapInv, NEW t \in Threads, StepOf(t),
         UNCHANGED <<proxy, life, watched, clientPidMap, alive, notices>>,
         pc'[t] \notin {"transfer", "save"},
         t \in Reapers /\ pc'[t] = "idle" => pc[t] = "idle" \/ Home[t] \notin clientPidMap
  PROVE  ReapInv'
<1>1. \A u \in Threads \ {t} : pc'[u] = pc[u] /\ client'[u] = client[u]
  BY DEF StepOf
<1>2. RegisteringInv'
  BY <1>1 DEF ReapInv, RegisteringInv
<1>3. ASSUME NEW c \in clientPidMap \ alive
      PROVE  c \in notices \/ \E u \in Reapers : Home[u] = c /\ pc'[u] # "idle"
  <2>1. c \in notices \/ \E u \in Reapers : Home[u] = c /\ pc[u] # "idle"
    BY <1>3 DEF ReapInv, DeadAreReaped
  <2> QED
    BY <1>1, <2>1 DEF Threads
<1>4. DeadAreReaped'
  BY <1>3 DEF DeadAreReaped
<1> QED
  BY <1>2, <1>4 DEF ReapInv

\* The library's steps keep ReapInv.
LEMMA LibraryReaps ==
  ASSUME ConnectionTypes, CallTypes, LifeInv, OwnedInv, ReapInv,
         NEW t \in Threads \ Reapers, LibraryStep(t)
  PROVE  ReapInv'
<1>1. StepOf(t) /\ client[t] \in Clients
  BY LibraryOwns DEF ConnectionTypes
<1>2. /\ Caller(t) \in {"called", "idle"}
      /\ AfterInit(t) \in {"call", "subscribe", "check", "called", "idle"}
  BY Returns
<1>3. \A u \in Threads \ {t} : pc'[u] = pc[u] /\ client'[u] = client[u]
  BY <1>1 DEF StepOf
<1>4. /\ \A u \in Reapers : u # t /\ u \in Threads
      /\ \A c \in clientPidMap \ alive :
           c \in notices \/ \E u \in Reapers : Home[u] = c /\ pc[u] # "idle"
  BY DEF ReapInv, DeadAreReaped, Threads
<1> USE DEF At, Goto, clientVars, serviceVars, deathVars, threadVars, ConnectionTypes
<1>5. CASE InitFound(t) \/ InitFails(t) \/ TransferFails(t) \/ CallLock(t) \/ CallReturns(t)
  <2>1. /\ UNCHANGED <<proxy, life, watched, clientPidMap, alive, notices>>
        /\ pc'[t] \notin {"transfer", "save"}
    BY <1>2, <1>5 DEF InitFound, InitFails, TransferFails, CallLock, CallReturns
  <2> QED
    BY <1>1, <2>1, KeepsReaped
<1>6. CASE InitConnect(t)
  <2>1. client[t] \in alive
    BY <1>6 DEF InitConnect, LifeInv, InClient
  <2>2. RegisteringInv'
    BY <1>3, <1>6, <2>1 DEF InitConnect, ReapInv, RegisteringInv
  <2>3. DeadAreReaped'
    BY <1>3, <1>4, <1>6 DEF InitConnect, DeadAreReaped
  <2> QED
    BY <1>6, <2>2, <2>3 DEF InitConnect, ReapInv
<1>7. CASE RegisterClientDeathRecipient(t)
  <2>1. RegisteringInv'
    BY <1>3, <1>7 DEF RegisterClientDeathRecipient, ReapInv, RegisteringInv
  <2>2. DeadAreReaped'
    BY <1>3, <1>4, <1>7 DEF RegisterClientDeathRecipient, DeadAreReaped
  <2> QED
    BY <1>7, <2>1, <2>2 DEF RegisterClientDeathRecipient, ReapInv
<1>8. CASE SaveClientPid(t)
  <2>1. client[t] \in alive /\ client[t] \in watched
    BY <1>8 DEF SaveClientPid, ReapInv, RegisteringInv
  <2>2. clientPidMap' \subseteq clientPidMap \cup {client[t]}
    BY <1>8 DEF SaveClientPid
  <2>3. RegisteringInv'
    BY <1>2, <1>3, <1>8, <2>1 DEF SaveClientPid, ReapInv, RegisteringInv
  <2>4. DeadAreReaped'
    BY <1>3, <1>4, <1>8, <2>1, <2>2 DEF SaveClientPid, DeadAreReaped
  <2> QED
    BY <1>8, <2>1, <2>2, <2>3, <2>4 DEF SaveClientPid, ReapInv
<1> QED
  BY <1>5, <1>6, <1>7, <1>8 DEF LibraryStep

\* A client that dies is in nobody's registration, so it is watched if known.
LEMMA DeathReaps ==
  ASSUME ConnectionTypes, OwnedInv, ReapInv, NEW c \in Clients, Die(c),
         \A t \in Threads : client[t] = c => pc[t] # "save"
  PROVE  ReapInv'
<1>1. \A t \in Threads :
        /\ client'[t] = client[t]
        /\ client[t] # c => pc'[t] = pc[t]
        /\ client[t] = c => pc'[t] \notin {"transfer", "save"}
        /\ t \in Reapers /\ pc[t] # "idle" => pc'[t] # "idle"
  BY DEF Die, threadVars, InClient, OwnedInv, Placed
<1>2. /\ alive' = alive \ {c} /\ notices' = notices \cup ({c} \cap watched)
      /\ UNCHANGED <<proxy, life, watched, clientPidMap>>
  BY DEF Die, clientVars, serviceVars
<1>3. RegisteringInv'
  BY <1>1, <1>2 DEF ReapInv, RegisteringInv
<1>4. ASSUME NEW d \in clientPidMap \ alive'
      PROVE  d \in notices' \/ d \in clientPidMap \ alive
  BY <1>2, <1>4 DEF ReapInv
<1> QED
  BY <1>1, <1>2, <1>3, <1>4 DEF ReapInv, DeadAreReaped, Threads

\* Every step keeps ReapInv, unless a client dies while it is registered.
LEMMA StepReaps ==
  ASSUME ~DieWhileRegistering, CoreInv, CallTypes, OwnedInv, ReapInv, [Next]_vars
  PROVE  ReapInv'
<1> USE DEF CoreInv, At, Goto, clientVars, serviceVars, deathVars, threadVars
<1>1. CASE \E t \in Threads \ Reapers : LibraryStep(t)
  BY <1>1, LibraryReaps
<1>2. ASSUME NEW t \in AppThreads, QuietApp(t)
      PROVE  ReapInv'
  <2>1. t \in Threads /\ t \notin Reapers /\ StepOf(t)
    BY <1>2, AppOwns, ConnectionAssumption DEF Threads
  <2>2. /\ UNCHANGED <<proxy, life, watched, clientPidMap, alive, notices>>
        /\ pc'[t] \notin {"transfer", "save"}
    BY <1>2, <2>1 DEF QuietApp, AppCall, SubscribeVibratorPlugInfo,
                      UnsubscribeVibratorPlugInfo, ListCheck, ListUse, ConnectionTypes
  <2> QED
    BY <2>1, <2>2, KeepsReaped
<1>3. ASSUME NEW t \in AppThreads, NullDereference(t)
      PROVE  ReapInv'
  <2>1. t \in Threads /\ client[t] \in Clients /\ proxy[client[t]] = 0 /\ Die(client[t])
    BY <1>3 DEF NullDereference, ConnectionTypes, Threads
  <2>2. \A u \in Threads : client[u] = client[t] => pc[u] # "save"
    BY <2>1 DEF ReapInv, RegisteringInv
  <2> QED
    BY <2>1, <2>2, DeathReaps
<1>4. ASSUME NEW t \in Observers, DeathNotice(t)
      PROVE  ReapInv'
  <2>1. t \in Threads /\ t \notin Reapers /\ StepOf(t)
    BY <1>4, ObserverOwns, ConnectionAssumption DEF Threads
  <2>2. /\ UNCHANGED <<proxy, life, watched, clientPidMap, alive, notices>>
        /\ pc'[t] \notin {"transfer", "save"}
    BY <1>4, <2>1 DEF DeathNotice, ConnectionTypes
  <2> QED
    BY <2>1, <2>2, KeepsReaped
<1>5. ASSUME NEW t \in Observers, ForgetProxy(t)
      PROVE  ReapInv'
  <2>1. t \in Threads /\ t \notin Reapers /\ StepOf(t) /\ client[t] \in Clients
    BY <1>5, ObserverOwns, ConnectionAssumption DEF Threads, ConnectionTypes
  <2>2. owner[Connection(client[t])] = NoOwner
    BY <1>5 DEF ForgetProxy, Needs
  <2>3. \A u \in Threads : pc[u] \in {"transfer", "save"} => client[u] # client[t]
    BY <2>2, ConnectionAssumption DEF HolderInv, Holding, ReapInv, RegisteringInv
  <2>4. \A u \in Threads \ {t} : pc'[u] = pc[u] /\ client'[u] = client[u]
    BY <2>1 DEF StepOf
  <2>5. /\ proxy' = [proxy EXCEPT ![client[t]] = 0] /\ pc'[t] = "init"
        /\ UNCHANGED <<life, watched, clientPidMap, alive, notices>>
    BY <1>5, <2>1 DEF ForgetProxy, ConnectionTypes
  <2>6. RegisteringInv'
    BY <2>1, <2>3, <2>4, <2>5 DEF ReapInv, RegisteringInv, ConnectionTypes
  <2>7. \A u \in Reapers : pc'[u] = pc[u]
    BY <2>1, <2>4 DEF Threads
  <2>8. DeadAreReaped'
    BY <2>5, <2>7 DEF ReapInv, DeadAreReaped
  <2> QED
    BY <2>5, <2>6, <2>8 DEF ReapInv
<1>6. ASSUME NEW t \in Reporters, QuietReporter(t)
      PROVE  ReapInv'
  <2>1. t \in Threads /\ t \notin Reapers /\ StepOf(t)
    BY <1>6, ReporterOwns, ConnectionAssumption DEF Threads
  <2>2. UNCHANGED <<proxy, life, watched, clientPidMap, alive, notices>>
    BY <1>6 DEF QuietReporter, PlugEvent, PlugLock, PlugReadClients, ProcessPlugEvent,
                PlugDone, HandleVibratorData, CallbackCalls, CallbackReturns
  <2>3. pc'[t] \notin {"transfer", "save"}
    BY <1>6, <2>1 DEF QuietReporter, PlugEvent, PlugLock, PlugReadClients,
                      ProcessPlugEvent, PlugDone, HandleVibratorData, CallbackCalls,
                      CallbackReturns, ConnectionTypes
  <2> QED
    BY <2>1, <2>2, <2>3, KeepsReaped
<1>7. ASSUME NEW t \in Reapers, ReaperStep(t)
      PROVE  ReapInv'
  <2>1. /\ t \in Threads /\ StepOf(t) /\ client[t] = Home[t] /\ client[t] \in Clients
        /\ \A u \in Threads \ {t} : pc'[u] = pc[u] /\ client'[u] = client[u]
    BY <1>7, ReaperOwns, ConnectionAssumption DEF Threads, ConnectionTypes, StepOf
  <2> USE <2>1 DEF ConnectionTypes
  <2>2. CASE ReapNotice(t)
    <3>1. /\ UNCHANGED <<proxy, life, watched, clientPidMap, alive, client>>
          /\ notices' = notices \ {Home[t]} /\ pc'[t] = "find"
      BY <2>2 DEF ReapNotice
    <3>2. RegisteringInv'
      BY <3>1 DEF ReapInv, RegisteringInv
    <3>3. \A u \in Reapers : u \in Threads
      BY DEF Threads
    <3>4. DeadAreReaped'
      BY <3>1, <3>3 DEF ReapInv, DeadAreReaped
    <3> QED
      BY <3>1, <3>2, <3>4 DEF ReapInv
  <2>3. CASE FindClientPid(t) \/ ReapLock(t) \/ UnregisterClientDeathRecipient(t)
    <3>1. /\ UNCHANGED <<proxy, life, watched, clientPidMap, alive, notices>>
          /\ pc'[t] \notin {"transfer", "save"}
          /\ pc'[t] = "idle" => Home[t] \notin clientPidMap
      BY <2>3 DEF FindClientPid, ReapLock, UnregisterClientDeathRecipient
    <3> QED
      BY <3>1, KeepsReaped
  <2>4. CASE RemoveDeathRecipient(t)
    <3>1. /\ UNCHANGED <<proxy, life, clientPidMap, alive, notices, client>>
          /\ watched' = watched \ {client[t]} /\ pc'[t] = "erase"
      BY <2>4 DEF RemoveDeathRecipient
    <3>2. client[t] \notin alive
      BY <2>4 DEF RemoveDeathRecipient, LifeInv
    <3>3. RegisteringInv'
      BY <3>1, <3>2 DEF ReapInv, RegisteringInv
    <3>4. \A u \in Reapers : pc[u] # "idle" => pc'[u] # "idle"
      BY <3>1 DEF Threads
    <3>5. DeadAreReaped'
      BY <3>1, <3>4 DEF ReapInv, DeadAreReaped
    <3> QED
      BY <3>1, <3>2, <3>3, <3>5 DEF ReapInv
  <2>5. CASE DestroyClientPid(t)
    <3>1. /\ UNCHANGED <<proxy, life, watched, alive, notices, client>>
          /\ clientPidMap' = clientPidMap \ {Home[t]} /\ pc'[t] = "idle"
      BY <2>5 DEF DestroyClientPid
    <3>2. RegisteringInv'
      BY <3>1 DEF ReapInv, RegisteringInv
    <3>3. \A u \in Reapers : Home[u] # Home[t] => pc'[u] = pc[u]
      BY DEF Threads
    <3>4. DeadAreReaped'
      BY <3>1, <3>3 DEF ReapInv, DeadAreReaped
    <3> QED
      BY <3>1, <3>2, <3>4 DEF ReapInv
  <2> QED
    BY <1>7, <2>2, <2>3, <2>4, <2>5 DEF ReaperStep
<1>8. ASSUME NEW c \in Clients, ClientDies(c)
      PROVE  ReapInv'
  BY <1>8, DeathReaps DEF ClientDies
<1>9. CASE ServiceDies
  BY <1>9 DEF ServiceDies, InService, ReapInv, RegisteringInv, DeadAreReaped
<1>10. CASE ServiceStarts
  <2>1. life' # 0
    BY <1>10 DEF ServiceStarts, ReapInv, RegisteringInv, ConnectionTypes
  <2> QED
    BY <1>10, <2>1 DEF ServiceStarts, ReapInv, RegisteringInv, DeadAreReaped
<1>11. CASE UNCHANGED vars
  BY <1>11 DEF vars, ReapInv, RegisteringInv, DeadAreReaped
<1> QED
  BY <1>1, <1>2, <1>3, <1>4, <1>5, <1>6, <1>7, <1>8, <1>9, <1>10, <1>11, StepsOfThreads

\* A dead client of the registry has a handler under way that takes it out, so
\* what it plays is stopped and its entry is not kept for ever, if no client
\* dies while the service registers it.
THEOREM TheDeadAreReaped ==
  ASSUME ~DieWhileRegistering
  PROVE  Spec => []DeadAreReaped
<1>1. Init => ReapInv
  BY DEF Init, ReapInv, RegisteringInv, DeadAreReaped
<1>2. LockInv /\ ReapInv /\ [Next]_vars => ReapInv'
  BY ~DieWhileRegistering, StepReaps DEF LockInv
<1>3. ReapInv => DeadAreReaped
  BY DEF ReapInv
<1> QED
  BY <1>1, <1>2, <1>3, LocksInv, PTL DEF Spec

-------------------------------------------------------------------------------
(***************************************************************************)
(* Plug events.  SendMsgToClient keeps devicesManageMutex_ and             *)
(* clientPidMapMutex_ until every client was called: only one event is     *)
(* under way, it is the last one the service took, and nobody enters the   *)
(* registry meanwhile.                                                     *)
(***************************************************************************)

EventInv ==
  /\ \A t \in Reporters :
       /\ pc[t] \in {"plugMap"} \cup Reporting => owner[Manage] = t /\ event[t] = events
       /\ pc[t] \in Reporting => owner[PidMap] = t
  /\ \A c \in Clients : told[c] <= events

\* Every living client of the registry is still to be called, has taken the
\* event or is being called.
ToldInv ==
  \A t \in Reporters :
    pc[t] \in Reporting =>
      \A c \in clientPidMap \cap alive :
        \/ c \in todo[t]
        \/ told[c] = event[t]
        \/ client[t] = c /\ pc[t] = "handle"

\* The steps that tell nobody anything: t is no reporter, or goes on inside a
\* client, or has nothing under way.
LEMMA KeepsTold ==
  ASSUME ConnectionTypes, EventInv, ToldInv, NEW t \in Threads, StepOf(t),
         UNCHANGED <<told, events, alive>>,
         clientPidMap' \subseteq clientPidMap
           \/ \A u \in Reporters : pc'[u] \notin Reporting,
         \/ t \notin Reporters
         \/ pc'[t] \notin {"plugMap"} \cup Reporting
         \/ /\ pc[t] \in Reporting /\ pc[t] # "handle" /\ pc'[t] \in Reporting
            /\ owner'[Manage] = t /\ owner'[PidMap] = t
            /\ event'[t] = event[t] /\ todo'[t] = todo[t]
  PROVE  EventInv' /\ ToldInv'
<1>1. ASSUME NEW u \in Reporters, u # t
      PROVE  /\ pc'[u] = pc[u] /\ client'[u] = client[u] /\ todo'[u] = todo[u]
             /\ event'[u] = event[u]
             /\ owner'[Manage] = u <=> owner[Manage] = u
             /\ owner'[PidMap] = u <=> owner[PidMap] = u
  <2>1. u \in Threads \ {t}
    BY <1>1 DEF Threads
  <2> QED
    BY <2>1, OthersOwnTheSame, LocksDiffer DEF StepOf
<1>2. "plugMap" \notin Reporting
  BY DEF Reporting, InClient
<1>3. EventInv'
  BY <1>1, <1>2 DEF EventInv
<1>4. ToldInv'
  BY <1>1 DEF ToldInv
<1> QED
  BY <1>3, <1>4

\* At most one plug event is under way.
LEMMA OneEvent ==
  ASSUME EventInv, NEW t \in Reporters, NEW u \in Reporters,
         pc[t] \in {"plugMap"} \cup Reporting, pc[u] \in {"plugMap"} \cup Reporting
  PROVE  t = u
BY DEF EventInv

\* A free clientPidMapMutex_: nobody is notifying clients.
LEMMA NobodyNotifies ==
  ASSUME EventInv, owner[PidMap] \notin Threads
  PROVE  \A t \in Reporters : pc[t] \notin Reporting
BY DEF EventInv, Threads

\* A reporter's quiet steps keep the invariants, and forget no event told.
LEMMA ReporterTells ==
  ASSUME ConnectionTypes, CallTypes, OwnedInv, EventInv, ToldInv,
         NEW t \in Reporters, QuietReporter(t)
  PROVE  EventInv' /\ ToldInv' /\ \A c \in Clients : told'[c] >= told[c]
<1>1. /\ t \in Threads /\ StepOf(t) /\ client[t] \in Clients
      /\ OwnedBy(t) /\ Placed(t) /\ OwnedBy(t)' /\ Placed(t)'
  BY ReporterOwns DEF Threads, ConnectionTypes, OwnedInv
<1>2. \A u \in Reporters \ {t} :
        /\ pc'[u] = pc[u] /\ client'[u] = client[u] /\ todo'[u] = todo[u]
        /\ event'[u] = event[u]
        /\ owner'[Manage] = u <=> owner[Manage] = u
        /\ owner'[PidMap] = u <=> owner[PidMap] = u
  <2> SUFFICES ASSUME NEW u \in Reporters \ {t}
               PROVE  /\ pc'[u] = pc[u] /\ client'[u] = client[u] /\ todo'[u] = todo[u]
                      /\ event'[u] = event[u]
                      /\ owner'[Manage] = u <=> owner[Manage] = u
                      /\ owner'[PidMap] = u <=> owner[PidMap] = u
    OBVIOUS
  <2>1. u \in Threads \ {t}
    BY DEF Threads
  <2> QED
    BY <1>1, <2>1, OthersOwnTheSame, LocksDiffer DEF StepOf
<1>3. "plugMap" \notin Reporting /\ "notify" \in Reporting /\ "handle" \in Reporting
      /\ "callback" \in Reporting /\ "called" \in Reporting /\ "init" \in Reporting
      /\ "idle" \notin Reporting /\ "plugManage" \notin Reporting
  BY DEF Reporting, InClient
<1> USE <1>1, LocksDiffer
        DEF ConnectionTypes, CallTypes, At, Goto, clientVars, serviceVars, deathVars,
            threadVars
<1>4. CASE PlugEvent(t)
  <2>1. /\ UNCHANGED <<told, events, alive, clientPidMap>> /\ pc'[t] = "plugManage"
    BY <1>4 DEF PlugEvent
  <2> QED
    BY <1>3, <2>1, KeepsTold
<1>5. CASE PlugLock(t)
  <2>1. /\ UNCHANGED <<told, alive, clientPidMap>> /\ pc'[t] = "plugMap"
        /\ events' = events + 1 /\ event'[t] = events + 1 /\ owner'[Manage] = t
        /\ owner[Manage] = NoOwner
    BY <1>5 DEF PlugLock, Take, Needs
  <2>2. \A u \in Reporters : pc[u] \notin {"plugMap"} \cup Reporting
    BY <2>1, ConnectionAssumption DEF EventInv, Threads
  <2>3. EventInv'
    BY <1>2, <1>3, <2>1, <2>2 DEF EventInv
  <2>4. ToldInv'
    BY <1>2, <1>3, <2>1, <2>2 DEF ToldInv
  <2> QED
    BY <2>1, <2>3, <2>4
<1>6. CASE PlugReadClients(t)
  <2>1. /\ UNCHANGED <<told, events, alive, clientPidMap>>
        /\ pc[t] = "plugMap" /\ pc'[t] = "notify"
        /\ todo'[t] = clientPidMap /\ event'[t] = event[t] /\ owner'[PidMap] = t
        /\ owner'[Manage] = owner[Manage]
    BY <1>6 DEF PlugReadClients, Take
  <2>2. EventInv'
    BY <1>2, <1>3, <2>1 DEF EventInv
  <2>3. ToldInv'
    BY <1>2, <2>1 DEF ToldInv
  <2> QED
    BY <2>1, <2>2, <2>3
<1>7. CASE ProcessPlugEvent(t)
  <2>1. /\ UNCHANGED <<told, events, event, owner, alive, clientPidMap>> /\ pc[t] = "notify"
    BY <1>7 DEF ProcessPlugEvent
  <2>2. PICK c \in todo[t] :
          /\ todo' = [todo EXCEPT ![t] = @ \ {c}]
          /\ IF c \in alive
             THEN client' = [client EXCEPT ![t] = c] /\ pc' = [pc EXCEPT ![t] = "handle"]
             ELSE UNCHANGED <<client, pc>>
    BY <1>7 DEF ProcessPlugEvent
  <2>3. /\ pc[t] \in Reporting /\ pc'[t] \in Reporting /\ todo'[t] = todo[t] \ {c}
        /\ c \in alive => client'[t] = c /\ pc'[t] = "handle"
    BY <1>3, <2>1, <2>2
  <2>4. EventInv'
    BY <1>2, <1>3, <2>1, <2>3 DEF EventInv
  <2>5. \A d \in clientPidMap \cap alive : d \in todo[t] \/ told[d] = event[t]
    BY <2>1, <2>3 DEF ToldInv
  <2>6. \A d \in clientPidMap \cap alive :
          d \in todo'[t] \/ told[d] = event[t] \/ (client'[t] = d /\ pc'[t] = "handle")
    BY <2>3, <2>5
  <2>7. ToldInv'
    <3> SUFFICES ASSUME NEW u \in Reporters, pc'[u] \in Reporting,
                        NEW d \in clientPidMap' \cap alive'
                 PROVE  \/ d \in todo'[u] \/ told'[d] = event'[u]
                        \/ client'[u] = d /\ pc'[u] = "handle"
      BY DEF ToldInv
    <3>1. CASE u = t
      BY <2>1, <2>6, <3>1
    <3>2. CASE u # t
      BY <1>2, <2>1, <3>2 DEF ToldInv
    <3> QED
      BY <3>1, <3>2
  <2> QED
    BY <2>1, <2>4, <2>7
<1>8. CASE PlugDone(t)
  <2>1. UNCHANGED <<told, events, alive, clientPidMap>> /\ pc'[t] = "idle"
    BY <1>8 DEF PlugDone
  <2> QED
    BY <1>3, <2>1, KeepsTold
<1>9. CASE HandleVibratorData(t)
  <2>1. /\ UNCHANGED <<events, alive, clientPidMap, event, todo, client>>
        /\ told' = [told EXCEPT ![client[t]] = event[t]]
        /\ pc[t] = "handle" /\ pc'[t] = "callback"
        /\ owner'[Manage] = owner[Manage] /\ owner'[PidMap] = owner[PidMap]
    BY <1>9 DEF HandleVibratorData, Take, ServiceLocks
  <2>2. event[t] = events /\ \A u \in Reporters \ {t} : pc[u] \notin {"plugMap"} \cup Reporting
    BY <1>3, <2>1, OneEvent DEF EventInv
  <2>3. EventInv'
    BY <1>2, <1>3, <2>1, <2>2 DEF EventInv
  <2>4. \A d \in clientPidMap \cap alive : d \in todo[t] \/ told'[d] = event[t]
    BY <1>3, <2>1 DEF ToldInv
  <2>5. ToldInv'
    BY <1>2, <2>1, <2>2, <2>4 DEF ToldInv
  <2> QED
    BY <2>1, <2>2, <2>3, <2>5 DEF EventInv
<1>10. CASE CallbackCalls(t)
  <2>1. /\ UNCHANGED <<told, events, alive, clientPidMap, event, todo, owner>>
        /\ pc[t] = "callback" /\ pc'[t] = "init"
    BY <1>10 DEF CallbackCalls
  <2> QED
    BY <1>3, <2>1, KeepsTold DEF EventInv
<1>11. CASE CallbackReturns(t)
  <2>1. /\ UNCHANGED <<told, events, alive, clientPidMap, event, todo>>
        /\ pc[t] \in {"callback", "called"} /\ pc'[t] = "notify"
        /\ owner'[Manage] = owner[Manage] /\ owner'[PidMap] = owner[PidMap]
    BY <1>11 DEF CallbackReturns, Release, ServiceLocks
  <2> QED
    BY <1>3, <2>1, KeepsTold DEF EventInv
<1> QED
  BY <1>4, <1>5, <1>6, <1>7, <1>8, <1>9, <1>10, <1>11 DEF QuietReporter

\* A plug callback that calls back stays a notification under way.
LEMMA LibraryTells ==
  ASSUME ConnectionTypes, CallTypes, OwnedInv, EventInv, ToldInv,
         NEW t \in Threads \ Reapers, LibraryStep(t)
  PROVE  EventInv' /\ ToldInv' /\ UNCHANGED told
<1>1. /\ StepOf(t) /\ client[t] \in Clients
      /\ OwnedBy(t) /\ Placed(t) /\ OwnedBy(t)' /\ Placed(t)'
  BY LibraryOwns DEF ConnectionTypes, OwnedInv
<1>2. UNCHANGED <<told, events, alive, event, todo>>
  BY DEF LibraryStep, InitFound, InitConnect, InitFails, RegisterClientDeathRecipient,
         SaveClientPid, TransferFails, CallLock, CallReturns, clientVars, serviceVars,
         deathVars, threadVars
<1>3. \/ clientPidMap' \subseteq clientPidMap
      \/ \A u \in Reporters : pc'[u] \notin Reporting
  <2>1. CASE SaveClientPid(t)
    <3>1. owner[PidMap] = NoOwner
      BY <2>1 DEF SaveClientPid, At, Needs
    <3>2. \A u \in Reporters : pc[u] \notin Reporting
      BY <3>1, NobodyNotifies, ConnectionAssumption
    <3>3. t \notin Reporters
      BY <2>1, <3>2 DEF SaveClientPid, At, Reporting
    <3> QED
      BY <1>1, <3>2, <3>3 DEF StepOf, Threads
  <2>2. CASE ~SaveClientPid(t)
    BY <2>2 DEF LibraryStep, InitFound, InitConnect, InitFails,
                RegisterClientDeathRecipient, TransferFails, CallLock, CallReturns,
                serviceVars
  <2> QED
    BY <2>1, <2>2
<1>4. ASSUME t \in Reporters
      PROVE  /\ pc[t] \in Reporting /\ pc[t] # "handle" /\ pc'[t] \in Reporting
             /\ owner'[Manage] = owner[Manage] /\ owner'[PidMap] = owner[PidMap]
  <2>1. pc[t] \in InLibrary
    BY DEF LibraryStep, InitFound, InitConnect, InitFails, RegisterClientDeathRecipient,
           SaveClientPid, TransferFails, CallLock, CallReturns, At, InLibrary
  <2>2. Caller(t) = "called" /\ AfterInit(t) = "call"
    BY <1>1, <1>4, <2>1, AfterCalls DEF InLibrary
  <2>3. pc'[t] \in Reporting
    BY <2>2 DEF LibraryStep, InitFound, InitConnect, InitFails,
                RegisterClientDeathRecipient, SaveClientPid, TransferFails, CallLock,
                CallReturns, Goto, ConnectionTypes, Reporting, InClient
  <2>4. owner'[Manage] = owner[Manage] /\ owner'[PidMap] = owner[PidMap]
    BY <1>1, LocksDiffer
       DEF LibraryStep, InitFound, InitConnect, InitFails, RegisterClientDeathRecipient,
           SaveClientPid, TransferFails, CallLock, CallReturns, Take, Release,
           ServiceLocks
  <2> QED
    BY <2>1, <2>3, <2>4 DEF InLibrary, Reporting, InClient
<1>5. EventInv' /\ ToldInv'
  BY <1>1, <1>2, <1>3, <1>4, KeepsTold DEF EventInv
<1> QED
  BY <1>2, <1>5

\* A client that dies while it is called is left, and needs no telling.
LEMMA DeathTells ==
  ASSUME ConnectionTypes, EventInv, ToldInv, NEW c \in Clients, Die(c)
  PROVE  EventInv' /\ ToldInv' /\ UNCHANGED told
<1>1. /\ UNCHANGED <<told, events, event, todo, client, clientPidMap>>
      /\ alive' = alive \ {c}
      /\ owner'[Manage] = owner[Manage] /\ owner'[PidMap] = owner[PidMap]
  BY LocksDiffer DEF Die, clientVars, serviceVars, threadVars, ServiceLocks, LocksOf
<1>2. \A t \in Reporters :
        \/ pc'[t] = pc[t]
        \/ client[t] = c /\ pc[t] \in Reporting /\ pc'[t] = "notify"
  BY DEF Die, Reporting, Threads
<1>3. "notify" \in Reporting
  BY DEF Reporting
<1>4. EventInv'
  BY <1>1, <1>2, <1>3 DEF EventInv
<1>5. ToldInv'
  BY <1>1, <1>2, <1>3 DEF ToldInv
<1> QED
  BY <1>1, <1>4, <1>5

\* Every step does.
LEMMA StepTold ==
  ASSUME LockInv, OneLifeInv, OneLife, EventInv, ToldInv, [Next]_vars
  PROVE  EventInv' /\ ToldInv' /\ \A c \in Clients : told'[c] >= told[c]
<1> USE DEF LockInv, CoreInv
<1>1. \A c \in Clients : told[c] \in Nat /\ told[c] >= told[c]
  BY DEF CallTypes
<1>2. CASE \E t \in Threads \ Reapers : LibraryStep(t)
  BY <1>1, <1>2, LibraryTells
<1>3. ASSUME NEW t \in AppThreads, QuietApp(t)
      PROVE  EventInv' /\ ToldInv' /\ UNCHANGED told
  <2>1. t \in Threads /\ t \notin Reporters /\ StepOf(t)
    BY <1>3, AppOwns, ConnectionAssumption DEF Threads
  <2>2. UNCHANGED <<told, events, alive, clientPidMap>>
    BY <1>3 DEF QuietApp, AppCall, SubscribeVibratorPlugInfo, UnsubscribeVibratorPlugInfo,
                ListCheck, ListUse, clientVars, serviceVars, deathVars
  <2> QED
    BY <2>1, <2>2, KeepsTold
<1>4. ASSUME NEW t \in AppThreads, NullDereference(t)
      PROVE  EventInv' /\ ToldInv' /\ UNCHANGED told
  BY <1>4, DeathTells DEF NullDereference, ConnectionTypes, Threads
<1>5. ASSUME NEW t \in Observers, DeathNotice(t) \/ ForgetProxy(t)
      PROVE  EventInv' /\ ToldInv' /\ UNCHANGED told
  <2>1. t \in Threads /\ t \notin Reporters /\ StepOf(t)
    BY <1>5, ObserverOwns, ConnectionAssumption DEF Threads
  <2>2. UNCHANGED <<told, events, alive, clientPidMap>>
    BY <1>5 DEF DeathNotice, ForgetProxy, serviceVars, deathVars
  <2> QED
    BY <2>1, <2>2, KeepsTold
<1>6. CASE \E t \in Reporters : QuietReporter(t)
  BY <1>6, ReporterTells
<1>7. ASSUME NEW t \in Reapers, ReaperStep(t)
      PROVE  EventInv' /\ ToldInv' /\ UNCHANGED told
  <2>1. t \in Threads /\ t \notin Reporters /\ StepOf(t)
    BY <1>7, ReaperOwns, ConnectionAssumption DEF Threads
  <2>2. UNCHANGED <<told, events, alive>> /\ clientPidMap' \subseteq clientPidMap
    BY <1>7 DEF ReaperStep, ReapNotice, FindClientPid, ReapLock,
                UnregisterClientDeathRecipient, RemoveDeathRecipient, DestroyClientPid,
                clientVars, serviceVars, deathVars
  <2> QED
    BY <2>1, <2>2, KeepsTold
<1>8. ASSUME NEW c \in Clients, ClientDies(c)
      PROVE  EventInv' /\ ToldInv' /\ UNCHANGED told
  BY <1>8, DeathTells DEF ClientDies
<1>9. ~ServiceDies /\ ~ServiceStarts
  BY ConnectionAssumption DEF ServiceDies, ServiceStarts, OneLife, OneLifeInv
<1>10. CASE UNCHANGED vars
  BY <1>1, <1>10 DEF vars, clientVars, serviceVars, deathVars, threadVars, EventInv,
                     ToldInv
<1> QED
  BY <1>1, <1>2, <1>3, <1>4, <1>5, <1>6, <1>7, <1>8, <1>9, <1>10, StepsOfThreads

\* They hold at first.
LEMMA ToldFromStart ==
  ASSUME Init
  PROVE  EventInv /\ ToldInv
BY DEF Init, EventInv, ToldInv, Reporting, InClient, Threads

\* When SendMsgToClient is done, every living client of the registry has taken
\* the event, whichever clients died or came meanwhile, for one life of the
\* service.
THEOREM EverybodyIsTold ==
  ASSUME OneLife
  PROVE  Spec => []AllTold
<1>1. Init => EventInv /\ ToldInv
  BY ToldFromStart
<1>2. LockInv /\ OneLifeInv /\ EventInv /\ ToldInv /\ [Next]_vars => (EventInv /\ ToldInv)'
  BY OneLife, StepTold
<1>3. EventInv /\ ToldInv => AllTold
  BY DEF ToldInv, AllTold, Reporting
<1>4. Spec => []OneLifeInv
  BY OneLife, OneLifeHolds
<1> QED
  BY <1>1, <1>2, <1>3, <1>4, LocksInv, PTL DEF Spec

\* A client takes plug events in the order in which the service took them, so
\* what it hears last of a device is true, for one life of the service.
THEOREM EventsInOrder ==
  ASSUME OneLife
  PROVE  Spec => PlugOrder
<1>1. Init => EventInv /\ ToldInv
  BY ToldFromStart
<1>2. LockInv /\ OneLifeInv /\ EventInv /\ ToldInv /\ [Next]_vars => (EventInv /\ ToldInv)'
  BY OneLife, StepTold
<1>3. LockInv /\ OneLifeInv /\ EventInv /\ ToldInv /\ [Next]_vars
        => [\A c \in Clients : told'[c] >= told[c]]_vars
  BY OneLife, StepTold
<1>4. Spec => []OneLifeInv
  BY OneLife, OneLifeHolds
<1> QED
  BY <1>1, <1>2, <1>3, <1>4, LocksInv, PTL DEF Spec, PlugOrder
================================================================================
