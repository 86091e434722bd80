----------------------------- MODULE PlugListeners -----------------------------
(***************************************************************************)
(* The listeners scripts register for plug events: on and off of           *)
(* vibrator_js.cpp, the list g_onCallbackInfos under g_Mutex, the one user *)
(* that the binding subscribes with the client library for all of them,    *)
(* and the way an event takes from the thread that reports it to the       *)
(* script's thread.  The other binding keeps a list and a user of its own  *)
(* and calls its listeners on the reporting thread, under its mutex.       *)
(*                                                                         *)
(* A list of listeners is a set of them: new ones go to its end, so its    *)
(* order is the one of their numbers.  So is a loop's queue of tasks, whose *)
(* order is the one of their events and then of their listeners.           *)
(***************************************************************************)
EXTENDS Naturals

CONSTANTS
  Envs,          \* the script threads, each with its napi_env
  EtsCallers,    \* threads of the other binding
  Callbacks,     \* the functions scripts register
  MaxListenerOps, MaxEvents, MaxListeners

\* The event type of plug events, and one the service knows nothing of.
StateChange == "vibratorStateChange"
EventTypes  == {StateChange, "other"}

Listener == [num : 1 .. MaxListeners, env : Envs, callback : Callbacks]
Task     == [event : 1 .. MaxEvents, listener : Listener]

VARIABLES
  infos,       \* g_onCallbackInfos, by event type
  subscribed,  \* subscribeSet_ holds the user of vibrator_js.cpp
  doing,       \* the half of an on or off a thread has still to do
  statusEvent, \* of each listener: the event its AsyncCallbackInfo holds
  posted,      \* for each env the tasks that wait in its loop
  seen,        \* of each listener: the last event it was called with
  due,         \* of each listener: the last event there was while it was listed
  spinning,    \* the thread that never leaves RemoveCallback, if any
  etsInfos, etsSubscribed, etsSeen,  \* the other binding's
  listenerOps, events, listeners,    \* how many there were
  mixed        \* an on or off ran beside another, or named another event type

listenerVars == <<infos, subscribed, doing, statusEvent, posted, seen, due, spinning,
                  etsInfos, etsSubscribed, etsSeen, listenerOps, events, listeners, mixed>>

Nobody == "nobody"
Nothing == [op |-> "none"]
Listed == UNION {infos[type] : type \in EventTypes}

ListenerTypeOK ==
  /\ infos \in [EventTypes -> SUBSET Listener]
  /\ subscribed \in BOOLEAN /\ etsSubscribed \in BOOLEAN /\ mixed \in BOOLEAN
  /\ \A t \in Envs \cup EtsCallers : doing[t].op \in {"none", "add", "drop"}
  /\ {statusEvent, seen, due} \subseteq [1 .. MaxListeners -> 0 .. MaxEvents]
  /\ posted \in [Envs -> SUBSET Task]
  /\ \A env \in Envs : \A task \in posted[env] : task.listener.env = env
  /\ spinning \in Envs \cup {Nobody}
  /\ etsInfos \subseteq Callbacks /\ etsSeen \in [Callbacks -> 0 .. MaxEvents]

ListenerInit ==
  /\ infos = [type \in EventTypes |-> {}]
  /\ subscribed = FALSE
  /\ doing = [t \in Envs \cup EtsCallers |-> Nothing]
  /\ statusEvent = [num \in 1 .. MaxListeners |-> 0]
  /\ posted = [env \in Envs |-> {}]
  /\ seen = statusEvent /\ due = statusEvent
  /\ spinning = Nobody
  /\ etsInfos = {} /\ etsSubscribed = FALSE
  /\ etsSeen = [callback \in Callbacks |-> 0]
  /\ listenerOps = 0 /\ events = 0 /\ listeners = 0
  /\ mixed = FALSE

\* An on or off begins: it is beside another if that one is not complete.
Begins(t, type) ==
  /\ doing[t] = Nothing /\ listenerOps < MaxListenerOps
  /\ listenerOps' = listenerOps + 1
  /\ mixed' = (mixed \/ type # StateChange
                 \/ \E u \in Envs \ {t} : doing[u] # Nothing)

\* g_Mutex is free: nobody spins with it.
MutexFree == spinning = Nobody

-------------------------------------------------------------------------------
\* SubscribeVibratorPlugInfo puts the user into the set before it asks the
\* service: if the service refuses, on fails and the user stays.
On(env, type, callback) ==
  /\ Begins(env, type)
  /\ \/ /\ subscribed' = TRUE
        /\ doing' = [doing EXCEPT ![env] = [op |-> "add", type |-> type, callback |-> callback]]
     \/ subscribed' \in {subscribed, TRUE} /\ UNCHANGED doing
  /\ UNCHANGED <<infos, statusEvent, posted, seen, due, spinning, etsInfos,
                 etsSubscribed, etsSeen, events, listeners>>

IsSubscribed(env, type, callback) ==
  \E l \in infos[type] : l.env = env /\ l.callback = callback

UpdateCallbackInfos(env) ==
  LET todo == doing[env] IN
  /\ todo.op = "add" /\ env \in Envs /\ MutexFree
  /\ IF IsSubscribed(env, todo.type, todo.callback)
       THEN UNCHANGED <<infos, listeners>>
       ELSE /\ listeners < MaxListeners
            /\ listeners' = listeners + 1
            /\ infos' = [infos EXCEPT ![todo.type] = @ \cup
                           {[num |-> listeners', env |-> env, callback |-> todo.callback]}]
  /\ doing' = [doing EXCEPT ![env] = Nothing]
  /\ UNCHANGED <<subscribed, statusEvent, posted, seen, due, spinning, etsInfos,
                 etsSubscribed, etsSeen, listenerOps, events, mixed>>

\* The listeners of an event type that stay when env drops all of its own.
RemoveAllCallback(env, type) == {l \in infos[type] : l.env # env}

\* The search for one callback goes on from the first listener and does not
\* pass a listener of another env: where it stops, if anywhere.
Search(env, type, callback) ==
  LET stops == {l \in infos[type] : l.env # env \/ l.callback = callback}
  IN  {l \in stops : \A m \in stops : l.num <= m.num}

RemoveCallback(env, type, callback) == infos[type] \ Search(env, type, callback)
Spins(env, type, callback) == \E l \in Search(env, type, callback) : l.env # env

\* Mutant: an off takes the subscription from the listeners that stay.
RemovedAlways(env, type, rest) ==
  /\ infos' = [infos EXCEPT ![type] = rest]
  /\ doing' = [doing EXCEPT ![env] = [op |-> "drop"]]
  /\ UNCHANGED spinning

\* The listeners are left out first, under g_Mutex.
Removed(env, type, rest) ==
  /\ infos' = [infos EXCEPT ![type] = rest]
  /\ doing' = IF rest = {} THEN [doing EXCEPT ![env] = [op |-> "drop"]] ELSE doing
  /\ UNCHANGED spinning

Off(env, type) ==
  /\ Begins(env, type) /\ MutexFree
  /\ \/ Removed(env, type, RemoveAllCallback(env, type))
     \/ \E callback \in Callbacks :
          IF Spins(env, type, callback)
            THEN spinning' = env /\ UNCHANGED <<infos, doing>>
            ELSE Removed(env, type, RemoveCallback(env, type, callback))
  /\ UNCHANGED <<subscribed, statusEvent, posted, seen, due, etsInfos, etsSubscribed,
                 etsSeen, events, listeners>>

\* When no listener of that event type is left the binding's user goes.
UnSubscribeVibratorPlug(env) ==
  /\ env \in Envs /\ doing[env].op = "drop"
  /\ subscribed' = FALSE
  /\ doing' = [doing EXCEPT ![env] = Nothing]
  /\ UNCHANGED <<infos, statusEvent, posted, seen, due, spinning, etsInfos,
                 etsSubscribed, etsSeen, listenerOps, events, listeners, mixed>>

-------------------------------------------------------------------------------
\* The tasks of EmitUvEventLoop: each has a pointer to the listener's
\* AsyncCallbackInfo, and not the event.
EmitUvEventLoop(told, event) ==
  posted' = [env \in Envs |-> posted[env] \cup
               {[event |-> event, listener |-> l] : l \in {m \in told : m.env = env}}]

\* Mutant: an event does not take the place of one still to be delivered.
UpdatePlugInfoOnce(told, event) ==
  statusEvent' = [num \in 1 .. MaxListeners |->
                    IF \E l \in told : l.num = num /\ statusEvent[num] = seen[num] THEN event ELSE statusEvent[num]]

\* UpdatePlugInfo writes the event into each listener's AsyncCallbackInfo.
UpdatePlugInfo(told, event) ==
  statusEvent' = [num \in 1 .. MaxListeners |->
                    IF \E l \in told : l.num = num THEN event ELSE statusEvent[num]]

\* The binding's callback, run for an event by the thread that reports it.
DataCallbackImpl(event) ==
  LET told == infos[StateChange] IN
  /\ UpdatePlugInfo(told, event)
  /\ EmitUvEventLoop(told, event)
  /\ due' = [num \in 1 .. MaxListeners |->
               IF \E l \in told : l.num = num THEN event ELSE due[num]]

EtsDataCallbackImpl(event) ==
  etsSeen' = [callback \in Callbacks |->
                IF callback \in etsInfos THEN event ELSE etsSeen[callback]]

\* HandleVibratorData calls the callbacks of the users that are subscribed.
TellUsers ==
  /\ events < MaxEvents
  /\ subscribed => MutexFree
  /\ events' = events + 1
  /\ IF subscribed THEN DataCallbackImpl(events') ELSE UNCHANGED <<statusEvent, posted, due>>
  /\ IF etsSubscribed THEN EtsDataCallbackImpl(events') ELSE UNCHANGED etsSeen
  /\ UNCHANGED <<infos, subscribed, doing, seen, spinning, etsInfos, etsSubscribed,
                 listenerOps, listeners, mixed>>

Before(task, other) ==
  \/ task.event < other.event
  \/ task.event = other.event /\ task.listener.num <= other.listener.num

\* The first task runs on the script's thread: its listener is called with the
\* event that the AsyncCallbackInfo holds by now.
RunTask(env) ==
  /\ doing[env] = Nothing /\ spinning # env
  /\ \E task \in posted[env] :
       /\ \A other \in posted[env] : Before(task, other)
       /\ posted' = [posted EXCEPT ![env] = @ \ {task}]
       /\ LET num == task.listener.num IN seen' = [seen EXCEPT ![num] = statusEvent[num]]
  /\ UNCHANGED <<infos, subscribed, doing, statusEvent, due, spinning, etsInfos,
                 etsSubscribed, etsSeen, listenerOps, events, listeners, mixed>>

-------------------------------------------------------------------------------
(* The other binding. *)

onVibratorStateChange(t, callback) ==
  /\ doing[t] = Nothing /\ listenerOps < MaxListenerOps
  /\ listenerOps' = listenerOps + 1
  /\ \/ /\ etsSubscribed' = TRUE
        /\ doing' = [doing EXCEPT ![t] = [op |-> "add", callback |-> callback]]
     \/ etsSubscribed' \in {etsSubscribed, TRUE} /\ UNCHANGED doing
  /\ UNCHANGED <<infos, subscribed, statusEvent, posted, seen, due, spinning, etsInfos,
                 etsSeen, events, listeners, mixed>>

EtsUpdateCallbackInfos(t) ==
  /\ t \in EtsCallers /\ doing[t].op = "add"
  /\ etsInfos' = etsInfos \cup {doing[t].callback}
  /\ doing' = [doing EXCEPT ![t] = Nothing]
  /\ UNCHANGED <<infos, subscribed, statusEvent, posted, seen, due, spinning,
                 etsSubscribed, etsSeen, listenerOps, events, listeners, mixed>>

EtsRemoveAllCallback == {}
EtsRemoveCallback(callback) == etsInfos \ {callback}

offVibratorStateChange(t) ==
  /\ doing[t] = Nothing /\ listenerOps < MaxListenerOps
  /\ listenerOps' = listenerOps + 1
  /\ etsInfos' \in {EtsRemoveAllCallback}
                     \cup {EtsRemoveCallback(callback) : callback \in Callbacks}
  /\ doing' = IF etsInfos' = {} THEN [doing EXCEPT ![t] = [op |-> "drop"]] ELSE doing
  /\ UNCHANGED <<infos, subscribed, statusEvent, posted, seen, due, spinning,
                 etsSubscribed, etsSeen, events, listeners, mixed>>

EtsUnSubscribe(t) ==
  /\ t \in EtsCallers /\ doing[t].op = "drop"
  /\ etsSubscribed' = FALSE
  /\ doing' = [doing EXCEPT ![t] = Nothing]
  /\ UNCHANGED <<infos, subscribed, statusEvent, posted, seen, due, spinning, etsInfos,
                 etsSeen, listenerOps, events, listeners, mixed>>

ListenerStep(t) ==
  \/ /\ t \in Envs
     /\ \/ \E type \in EventTypes : Off(t, type) \/ \E callback \in Callbacks : On(t, type, callback)
        \/ UpdateCallbackInfos(t) \/ UnSubscribeVibratorPlug(t) \/ RunTask(t)
  \/ /\ t \in EtsCallers
     /\ \/ \E callback \in Callbacks : onVibratorStateChange(t, callback)
        \/ offVibratorStateChange(t) \/ EtsUpdateCallbackInfos(t) \/ EtsUnSubscribe(t)

-------------------------------------------------------------------------------
(* Properties. *)

\* A listener that is listed has seen the latest event there was for it as soon
\* as no task of its own waits: events may be delivered late, and the later one
\* in the place of the earlier, and the last one is never missed.
LatestIsSeen ==
  \A l \in infos[StateChange] :
    (\A task \in posted[l.env] : task.listener # l) => seen[l.num] = due[l.num]

\* While listeners are listed and no on or off is under way the binding is
\* subscribed, if no two of those ran beside each other and none named another
\* event type: an off leaves the subscription to the listeners that stay.
ListenersAreSubscribed ==
  (/\ infos[StateChange] # {} /\ ~mixed
   /\ \A env \in Envs : doing[env] = Nothing)
  => subscribed
===============================================================================
