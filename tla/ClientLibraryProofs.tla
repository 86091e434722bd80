-------------------------- MODULE ClientLibraryProofs --------------------------
(***************************************************************************)
(* Proofs about one application process: what its listeners of plug events *)
(* see, and what becomes of the calls that set an entry of                 *)
(* vibratorEffectMap_, play with it and set it back.                       *)
(*                                                                         *)
(* The listeners.  TogetherInv says what an on or off that is half done    *)
(* has already changed, and SeenInv that a listener's number names it, so  *)
(* that a task that runs shows its listener the event due.                 *)
(*                                                                         *)
(* The calls.  CallsInv says where a call is: with the thread that works   *)
(* on it, in the pool's queue, in its script's queue, or answered, and in  *)
(* one of these places only.  On it rest what a stop may end (StopInv),    *)
(* who keeps a promise open (PromisesAreKept), whose value an entry holds  *)
(* (OwnValues) and who is to set it back (LeftOver).                       *)
(***************************************************************************)
EXTENDS ClientLibrary, TLAPS

-------------------------------------------------------------------------------
(* The inductive invariants: the listeners. *)

Halves ==
  {Plug!Nothing} \cup [op : {"drop"}] \cup [op : {"add"}, callback : Callbacks]
    \cup [op : {"add"}, type : Plug!EventTypes, callback : Callbacks]

PlugTypes ==
  /\ infos \in [Plug!EventTypes -> SUBSET Plug!Listener]
  /\ subscribed \in BOOLEAN /\ mixed \in BOOLEAN
  /\ doing \in [Scripts \cup EtsThreads -> Halves]
  /\ \A s \in Scripts : doing[s].op = "add" => doing[s].type \in Plug!EventTypes
  /\ statusEvent \in [1 .. MaxListeners -> Nat]
  /\ seen \in [1 .. MaxListeners -> Nat]
  /\ due \in [1 .. MaxListeners -> Nat]
  /\ posted \in [Scripts -> SUBSET [event : Nat, listener : Plug!Listener]]
  /\ events \in Nat /\ listeners \in Nat

\* What the half of an on or off that is done has changed, when it is alone.
TogetherInv ==
  ~mixed =>
    /\ \A s, u \in Scripts : doing[s] # Plug!Nothing /\ doing[u] # Plug!Nothing => s = u
    /\ \A s \in Scripts :
         /\ doing[s].op = "add" => doing[s].type = Plug!StateChange /\ subscribed
         /\ doing[s].op = "drop" => infos[Plug!StateChange] = {}
    /\ infos[Plug!StateChange] # {} => subscribed

\* The listeners there are or a task still points to.
Known ==
  {l \in Plug!Listener :
     \/ \E type \in Plug!EventTypes : l \in infos[type]
     \/ \E s \in Scripts : \E task \in posted[s] : task.listener = l}

\* A number names one listener, whose AsyncCallbackInfo holds what is due.
SeenInv ==
  /\ \A l \in Known : l.num <= listeners
  /\ \A l, m \in Known : l.num = m.num => l = m
  /\ \A s \in Scripts : \A task \in posted[s] : task.listener.env = s
  /\ statusEvent = due
  /\ \A num \in 1 .. MaxListeners : num > listeners => seen[num] = due[num]
  /\ Plug!LatestIsSeen

-------------------------------------------------------------------------------
(* The inductive invariants: the calls. *)

Fields == {"usage", "loopCount", "parameter"}
FieldOf(what) == IF what = "parameter" THEN "intensity" ELSE what
Remains == {<<>>, <<"usage">>, <<"loopCount">>, <<"parameter">>, <<"usage", "loopCount">>,
            <<"loopCount", "usage">>, <<"usage", "parameter">>}
Results == {"SUCCESS", "PARAMETER_ERROR", "DEVICE_OPERATION_FAILED"}

ThreadTypes ==
  /\ pc \in [Threads -> {"idle", "set", "read", "call", "reset"}]
  /\ todo \in [Threads -> Remains]
  /\ call = [t \in Threads |-> call[t]]
  /\ arg \in [Threads -> [DOMAIN VibratorEffectParameter -> Nat]]
  /\ code \in [Threads -> Codes]

EntryTypes ==
  /\ effects \in [Identifiers -> [DOMAIN VibratorEffectParameter -> Nat]]
  /\ playing \in [Identifiers -> Nat]
  /\ calls \in Nat
  /\ left \in [Identifiers -> SUBSET Fields]

\* A call that has entered the library; the pool only plays those of scripts.
Entered(c) ==
  /\ c \in Calls /\ c.n \in 1 .. calls
  /\ c.routine.pooled => c.by \in Scripts

Pooled(c) == Entered(c) /\ c.by \in Scripts

\* What the fields of a thread are when it is where it is.
ThreadOK(t) ==
  /\ pc[t] # "idle" => Entered(call[t])
  /\ t \in Workers => pc[t] # "set" /\ (pc[t] # "idle" => call[t].by \in Scripts)
  /\ pc[t] \in {"idle", "read", "call"} => todo[t] = <<>>
  /\ pc[t] = "set" =>
       /\ todo[t] # <<>> /\ ToSet(todo[t]) \subseteq ToSet(call[t].routine.sets)
       /\ todo[t] = call[t].routine.sets \/ Len(todo[t]) < Len(call[t].routine.sets)
  /\ pc[t] = "reset" => todo[t] # <<>>
ThreadInv == \A t \in Threads : ThreadOK(t)

\* A call is in one place.
PlacesInv ==
  /\ \A c \in queued : Pooled(c)
  /\ \A x \in executed : Pooled(x.call) /\ x.result \in Results
  /\ \A a \in answered : Entered(a)
  /\ \A c, d \in queued : c.n = d.n => c = d
  /\ \A x, y \in executed : x.call.n = y.call.n => x = y
  /\ \A a, b \in answered : a.n = b.n => a = b
  /\ \A t, u \in Threads : pc[t] # "idle" /\ pc[u] # "idle" /\ call[t].n = call[u].n => t = u
  /\ \A c \in queued : \A x \in executed : c.n # x.call.n
  /\ \A c \in queued : \A a \in answered : c.n # a.n
  /\ \A x \in executed : \A a \in answered : x.call.n # a.n
  /\ \A t \in Threads : pc[t] # "idle" =>
       /\ \A c \in queued : c.n # call[t].n
       /\ \A x \in executed : x.call.n # call[t].n
       /\ \A a \in answered : a.n # call[t].n

CallsInv == ThreadTypes /\ EntryTypes /\ ThreadInv /\ PlacesInv

\* A vibrator plays a call that was for it, and none that is stopped.
StopInv ==
  /\ \A id \in Identifiers : playing[id] <= calls
  /\ halted \subseteq {a.n : a \in answered}
  /\ \A id \in Identifiers : \A a \in answered : playing[id] = a.n => a.id = id
  /\ \A id \in Identifiers : \A x \in executed : playing[id] = x.call.n => x.call.id = id
  /\ \A id \in Identifiers : \A c \in queued : playing[id] = c.n => c.id = id
  /\ \A id \in Identifiers : \A t \in Threads :
       pc[t] # "idle" /\ playing[id] = call[t].n => call[t].id = id
  /\ StopIsFinal

\* The entry holds what a call has set so far, unless another changed it; and
\* so does what a thread has read of it.
OwnOK(t) ==
  call[t].n \notin disturbed =>
    /\ pc[t] = "set" =>
         \A what \in ToSet(call[t].routine.sets) \ ToSet(todo[t]) :
           effects[call[t].id][FieldOf(what)] = call[t].n
    /\ pc[t] = "read" =>
         \A what \in ToSet(call[t].routine.sets) :
           effects[call[t].id][FieldOf(what)] = call[t].n
    /\ pc[t] = "call" =>
         \A what \in ToSet(call[t].routine.sets) : arg[t][FieldOf(what)] = call[t].n
QueuedOK(c) ==
  c.n \notin disturbed =>
    \A what \in ToSet(c.routine.sets) : effects[c.id][FieldOf(what)] = c.n
OwnValues ==
  /\ \A t \in Threads : OwnOK(t)
  /\ \A c \in queued : QueuedOK(c)

\* Thread t is to set back the field of id.
SetsBack(t, id, what) ==
  /\ pc[t] # "idle" /\ call[t].id = id
  /\ \/ pc[t] \in {"read", "call"} /\ what \in ToSet(call[t].routine.sets)
     \/ pc[t] = "set" /\ what \in ToSet(call[t].routine.sets) \ ToSet(todo[t])
     \/ pc[t] = "reset" /\ what \in ToSet(todo[t])

\* A field that is set has a call that is to set it back, or a refused call
\* left it.
LeftOver ==
  \A id \in Identifiers : \A what \in Fields :
    \/ effects[id][FieldOf(what)] = 0
    \/ what \in left[id]
    \/ \E c \in queued : c.id = id /\ what \in ToSet(c.routine.sets)
    \/ \E t \in Threads : SetsBack(t, id, what)

-------------------------------------------------------------------------------
(* The listeners. *)

\* A step of a listener, or the users told of an event, keeps the types, and
\* adds to the lists as UpdateCallbackInfos does or takes from them.
LEMMA ListenerTypes ==
  ASSUME PlugTypes, ListenerNext \/ CallUsers
  PROVE  PlugTypes'
<1> USE LibraryAssumption, AgentAssumption
<1>e. Plug!StateChange \in Plug!EventTypes BY DEF Plug!EventTypes
<1>n. Plug!Nothing \in Halves BY DEF Halves
<1> USE DEF PlugTypes
<1>1. ASSUME NEW t \in Scripts, NEW type \in Plug!EventTypes, Plug!Off(t, type)
      PROVE  PlugTypes'
  <2>1. PICK rest \in SUBSET infos[type] :
          infos' \in {infos, [infos EXCEPT ![type] = rest]}
    BY <1>1 DEF Plug!Off, Plug!Removed, Plug!RemoveAllCallback, Plug!RemoveCallback
  <2>2. doing' \in {doing, [doing EXCEPT ![t] = [op |-> "drop"]]}
    BY <1>1 DEF Plug!Off, Plug!Removed
  <2>3. [op |-> "drop"] \in Halves BY DEF Halves
  <2>4. infos' \in [Plug!EventTypes -> SUBSET Plug!Listener] BY <2>1
  <2>5. doing' \in [Scripts \cup EtsThreads -> Halves] BY <2>2, <2>3
  <2>6. \A s \in Scripts : doing'[s].op = "add" => doing'[s].type \in Plug!EventTypes
    BY <2>2
  <2>7. mixed' \in BOOLEAN BY <1>1 DEF Plug!Off, Plug!Begins
  <2> QED BY <1>1, <2>4, <2>5, <2>6, <2>7 DEF Plug!Off
<1>2. ASSUME NEW t \in Scripts, NEW type \in Plug!EventTypes, NEW callback \in Callbacks,
             Plug!On(t, type, callback)
      PROVE  PlugTypes'
  <2> DEFINE half == [op |-> "add", type |-> type, callback |-> callback]
  <2>1. half \in Halves BY DEF Halves
  <2>2. doing' \in {doing, [doing EXCEPT ![t] = half]} BY <1>2 DEF Plug!On
  <2>3. doing' \in [Scripts \cup EtsThreads -> Halves] BY <2>1, <2>2
  <2>4. \A s \in Scripts : doing'[s].op = "add" => doing'[s].type \in Plug!EventTypes
    BY <2>2
  <2>5. mixed' \in BOOLEAN /\ subscribed' \in BOOLEAN BY <1>2 DEF Plug!On, Plug!Begins
  <2> QED BY <1>2, <2>3, <2>4, <2>5 DEF Plug!On
<1>3. ASSUME NEW t \in Scripts, Plug!UpdateCallbackInfos(t)
      PROVE  PlugTypes'
  <2>1. /\ doing' = [doing EXCEPT ![t] = Plug!Nothing]
        /\ UNCHANGED <<subscribed, mixed, statusEvent, seen, due, posted, events>>
    BY <1>3 DEF Plug!UpdateCallbackInfos
  <2>2. doing' \in [Scripts \cup EtsThreads -> Halves] BY <2>1, <1>n
  <2>3. \A s \in Scripts : doing'[s].op = "add" => doing'[s].type \in Plug!EventTypes
    BY <2>1 DEF Plug!Nothing
  <2>4. infos' \in [Plug!EventTypes -> SUBSET Plug!Listener] /\ listeners' \in Nat
    <3>1. CASE UNCHANGED <<infos, listeners>> BY <3>1
    <3>2. CASE /\ listeners < MaxListeners
               /\ listeners' = listeners + 1
               /\ infos' = [infos EXCEPT ![doing[t].type] = @ \cup
                    {[num |-> listeners', env |-> t, callback |-> doing[t].callback]}]
      <4>1. doing[t].op = "add" /\ doing[t] \in Halves BY <1>3 DEF Plug!UpdateCallbackInfos
      <4>2. doing[t].type \in Plug!EventTypes BY <4>1
      <4>3. doing[t].callback \in Callbacks BY <4>1 DEF Halves, Plug!Nothing
      <4>4. [num |-> listeners', env |-> t, callback |-> doing[t].callback] \in Plug!Listener
        BY <3>2, <4>3 DEF Plug!Listener
      <4> QED BY <3>2, <4>2, <4>4
    <3> QED BY <1>3, <3>1, <3>2 DEF Plug!UpdateCallbackInfos
  <2> QED BY <2>1, <2>2, <2>3, <2>4
<1>4. ASSUME NEW t \in Scripts, Plug!UnSubscribeVibratorPlug(t)
      PROVE  PlugTypes'
  <2>1. doing' = [doing EXCEPT ![t] = Plug!Nothing] /\ subscribed' = FALSE
    BY <1>4 DEF Plug!UnSubscribeVibratorPlug
  <2>2. doing' \in [Scripts \cup EtsThreads -> Halves] BY <2>1, <1>n
  <2>3. \A s \in Scripts : doing'[s].op = "add" => doing'[s].type \in Plug!EventTypes
    BY <2>1 DEF Plug!Nothing
  <2> QED BY <1>4, <2>1, <2>2, <2>3 DEF Plug!UnSubscribeVibratorPlug
<1>5. ASSUME NEW t \in Scripts, Plug!RunTask(t)
      PROVE  PlugTypes'
  <2>1. PICK task \in posted[t] :
          /\ posted' = [posted EXCEPT ![t] = @ \ {task}]
          /\ seen' = [seen EXCEPT ![task.listener.num] = statusEvent[task.listener.num]]
    BY <1>5 DEF Plug!RunTask
  <2>2. task.listener.num \in 1 .. MaxListeners BY DEF Plug!Listener
  <2>3. seen' \in [1 .. MaxListeners -> Nat] BY <2>1, <2>2
  <2>4. posted' \in [Scripts -> SUBSET [event : Nat, listener : Plug!Listener]] BY <2>1
  <2> QED BY <1>5, <2>3, <2>4 DEF Plug!RunTask
<1>6. ASSUME NEW t \in EtsThreads,
             \/ \E callback \in Callbacks : Plug!onVibratorStateChange(t, callback)
             \/ Plug!offVibratorStateChange(t)
             \/ Plug!EtsUpdateCallbackInfos(t) \/ Plug!EtsUnSubscribe(t)
      PROVE  PlugTypes'
  <2>1. \E half \in Halves : doing' \in {doing, [doing EXCEPT ![t] = half]}
    BY <1>6, <1>n DEF Plug!onVibratorStateChange, Plug!offVibratorStateChange,
      Plug!EtsUpdateCallbackInfos, Plug!EtsUnSubscribe, Halves
  <2>2. UNCHANGED <<infos, subscribed, mixed, statusEvent, seen, due, posted, events,
                    listeners>>
    BY <1>6 DEF Plug!onVibratorStateChange, Plug!offVibratorStateChange,
      Plug!EtsUpdateCallbackInfos, Plug!EtsUnSubscribe
  <2>3. t \notin Scripts OBVIOUS
  <2> QED BY <2>1, <2>2, <2>3
<1>7. ASSUME CallUsers
      PROVE  PlugTypes'
  <2>1. UNCHANGED <<infos, subscribed, doing, seen, listeners, mixed>> /\ events' \in Nat
    BY <1>7 DEF CallUsers, Plug!TellUsers
  <2>2. CASE subscribed
    <3>1. Plug!DataCallbackImpl(events') BY <1>7, <2>2 DEF CallUsers, Plug!TellUsers
    <3>2. statusEvent' \in [1 .. MaxListeners -> Nat]
      BY <2>1, <3>1 DEF Plug!DataCallbackImpl, Plug!UpdatePlugInfo
    <3>3. due' \in [1 .. MaxListeners -> Nat] BY <2>1, <3>1 DEF Plug!DataCallbackImpl
    <3>4. infos[Plug!StateChange] \subseteq Plug!Listener BY <1>e
    <3>5. posted' \in [Scripts -> SUBSET [event : Nat, listener : Plug!Listener]]
      BY <2>1, <3>1, <3>4 DEF Plug!DataCallbackImpl, Plug!EmitUvEventLoop
    <3> QED BY <2>1, <3>2, <3>3, <3>5
  <2>3. CASE ~subscribed
    BY <1>7, <2>1, <2>3 DEF CallUsers, Plug!TellUsers
  <2> QED BY <2>2, <2>3
<1> QED BY <1>1, <1>2, <1>3, <1>4, <1>5, <1>6, <1>7 DEF ListenerNext, Plug!ListenerStep

\* An off drops the binding's user only when its own half leaves no listener,
\* and nobody else is between the halves.
LEMMA TogetherStep ==
  ASSUME PlugTypes, TogetherInv, ListenerNext \/ CallUsers
  PROVE  TogetherInv'
<1> USE LibraryAssumption, AgentAssumption
<1> USE DEF PlugTypes
<1>e. Plug!StateChange \in Plug!EventTypes BY DEF Plug!EventTypes
<1>1. ASSUME NEW t \in Scripts, NEW type \in Plug!EventTypes, Plug!Off(t, type), ~mixed'
      PROVE  TogetherInv'
  <2>1. /\ ~mixed /\ type = Plug!StateChange /\ subscribed' = subscribed
        /\ \A u \in Scripts : doing[u] = Plug!Nothing
    BY <1>1 DEF Plug!Off, Plug!Begins
  <2>2. PICK rest \in SUBSET infos[type] :
          \/ infos' = infos /\ doing' = doing
          \/ /\ infos' = [infos EXCEPT ![type] = rest]
             /\ doing' = IF rest = {} THEN [doing EXCEPT ![t] = [op |-> "drop"]] ELSE doing
    BY <1>1 DEF Plug!Off, Plug!Removed, Plug!RemoveAllCallback, Plug!RemoveCallback
  <2>3. \A u \in Scripts : doing'[u] # Plug!Nothing =>
          u = t /\ doing'[u].op = "drop" /\ infos'[Plug!StateChange] = {}
    BY <2>1, <2>2, <1>e
  <2>4. infos'[Plug!StateChange] # {} => subscribed' BY <2>1, <2>2, <1>e DEF TogetherInv
  <2>5. \A u \in Scripts : doing'[u].op \in {"add", "drop"} => doing'[u] # Plug!Nothing
    BY DEF Plug!Nothing
  <2>6. \A u \in Scripts : doing'[u].op # "add" BY <2>3, <2>5
  <2>7. \A u \in Scripts : doing'[u].op = "drop" => infos'[Plug!StateChange] = {}
    BY <2>3, <2>5
  <2> QED BY <2>3, <2>4, <2>6, <2>7 DEF TogetherInv
<1>2. ASSUME NEW t \in Scripts, NEW type \in Plug!EventTypes, NEW callback \in Callbacks,
             Plug!On(t, type, callback), ~mixed'
      PROVE  TogetherInv'
  <2>1. /\ ~mixed /\ type = Plug!StateChange /\ infos' = infos
        /\ \A u \in Scripts : doing[u] = Plug!Nothing
    BY <1>2 DEF Plug!On, Plug!Begins
  <2> DEFINE half == [op |-> "add", type |-> type, callback |-> callback]
  <2>2. \/ subscribed' = TRUE /\ doing' = [doing EXCEPT ![t] = half]
        \/ subscribed' \in {subscribed, TRUE} /\ doing' = doing
    BY <1>2 DEF Plug!On
  <2>3. \A u \in Scripts : doing'[u] # Plug!Nothing =>
          u = t /\ doing'[u] = half /\ subscribed'
    BY <2>1, <2>2
  <2>4. infos'[Plug!StateChange] # {} => subscribed' BY <2>1, <2>2 DEF TogetherInv
  <2>5. \A u \in Scripts : doing'[u].op \in {"add", "drop"} => doing'[u] # Plug!Nothing
    BY DEF Plug!Nothing
  <2>6. half.op = "add" /\ half.type = Plug!StateChange BY <2>1
  <2>7. \A u \in Scripts : doing'[u].op = "drop" => infos'[Plug!StateChange] = {}
    BY <2>3, <2>5, <2>6
  <2>8. \A u \in Scripts :
          doing'[u].op = "add" => doing'[u].type = Plug!StateChange /\ subscribed'
    BY <2>3, <2>5, <2>6
  <2> QED BY <2>3, <2>4, <2>7, <2>8 DEF TogetherInv
<1>3. ASSUME NEW t \in Scripts, Plug!UpdateCallbackInfos(t)
      PROVE  TogetherInv'
  <2>1. /\ doing' = [doing EXCEPT ![t] = Plug!Nothing] /\ doing[t].op = "add"
        /\ UNCHANGED <<subscribed, mixed>>
    BY <1>3 DEF Plug!UpdateCallbackInfos
  <2>2. doing[t] # Plug!Nothing BY <2>1 DEF Plug!Nothing
  <2> QED BY <2>1, <2>2 DEF TogetherInv, Plug!Nothing
<1>4. ASSUME NEW t \in Scripts, Plug!UnSubscribeVibratorPlug(t)
      PROVE  TogetherInv'
  <2>1. /\ doing' = [doing EXCEPT ![t] = Plug!Nothing] /\ doing[t].op = "drop"
        /\ subscribed' = FALSE /\ UNCHANGED <<infos, mixed>>
    BY <1>4 DEF Plug!UnSubscribeVibratorPlug
  <2>2. doing[t] # Plug!Nothing BY <2>1 DEF Plug!Nothing
  <2> QED BY <2>1, <2>2 DEF TogetherInv, Plug!Nothing
<1>5. ASSUME NEW t \in Scripts, Plug!RunTask(t)
      PROVE  TogetherInv'
  BY <1>5 DEF Plug!RunTask, TogetherInv
<1>6. ASSUME NEW t \in EtsThreads,
             \/ \E callback \in Callbacks : Plug!onVibratorStateChange(t, callback)
             \/ Plug!offVibratorStateChange(t)
             \/ Plug!EtsUpdateCallbackInfos(t) \/ Plug!EtsUnSubscribe(t)
      PROVE  TogetherInv'
  <2>1. \E half : doing' \in {doing, [doing EXCEPT ![t] = half]}
    BY <1>6 DEF Plug!onVibratorStateChange, Plug!offVibratorStateChange,
      Plug!EtsUpdateCallbackInfos, Plug!EtsUnSubscribe
  <2>2. UNCHANGED <<infos, subscribed, mixed>>
    BY <1>6 DEF Plug!onVibratorStateChange, Plug!offVibratorStateChange,
      Plug!EtsUpdateCallbackInfos, Plug!EtsUnSubscribe
  <2>3. \A s \in Scripts : doing'[s] = doing[s] BY <2>1
  <2> QED BY <2>2, <2>3 DEF TogetherInv
<1>7. ASSUME CallUsers
      PROVE  TogetherInv'
  BY <1>7 DEF CallUsers, Plug!TellUsers, TogetherInv
<1>8. ASSUME mixed'
      PROVE  TogetherInv'
  BY <1>8 DEF TogetherInv
<1> QED BY <1>1, <1>2, <1>3, <1>4, <1>5, <1>6, <1>7, <1>8 DEF ListenerNext, Plug!ListenerStep

\* A listener is shown the event due when its task runs, a new one has a number
\* of its own, and an event posts a task for each listener it is due to.
LEMMA SeenStep ==
  ASSUME PlugTypes, SeenInv, ListenerNext \/ CallUsers
  PROVE  SeenInv'
<1> USE LibraryAssumption, AgentAssumption
<1>e. Plug!StateChange \in Plug!EventTypes BY DEF Plug!EventTypes
<1>l. \A type \in Plug!EventTypes : infos[type] \subseteq Known BY DEF Known, PlugTypes
<1>p. \A s \in Scripts : \A task \in posted[s] : task.listener \in Known
  BY DEF Known, PlugTypes
<1>n. \A l \in Known : l.num \in 1 .. MaxListeners /\ l.env \in Scripts
  BY DEF Known, Plug!Listener
\* Lists that only shrink, and nothing else.
<1>a. ASSUME \A type \in Plug!EventTypes : infos'[type] \subseteq infos[type],
             UNCHANGED <<statusEvent, posted, seen, due, listeners>>
      PROVE  SeenInv'
  <2>1. Known' \subseteq Known BY <1>a DEF Known
  <2>2. Plug!LatestIsSeen' BY <1>a, <1>e DEF SeenInv, Plug!LatestIsSeen
  <2> QED BY <1>a, <2>1, <2>2 DEF SeenInv
<1>1. ASSUME NEW t \in Scripts, NEW type \in Plug!EventTypes, Plug!Off(t, type)
      PROVE  SeenInv'
  <2>1. PICK rest \in SUBSET infos[type] :
          infos' \in {infos, [infos EXCEPT ![type] = rest]}
    BY <1>1 DEF Plug!Off, Plug!Removed, Plug!RemoveAllCallback, Plug!RemoveCallback
  <2>2. \A other \in Plug!EventTypes : infos'[other] \subseteq infos[other]
    BY <2>1 DEF PlugTypes
  <2>3. UNCHANGED <<statusEvent, posted, seen, due, listeners>> BY <1>1 DEF Plug!Off
  <2> QED BY <2>2, <2>3, <1>a
<1>2. ASSUME NEW t \in Scripts, Plug!UpdateCallbackInfos(t)
      PROVE  SeenInv'
  <2>0. UNCHANGED <<statusEvent, posted, seen, due>> BY <1>2 DEF Plug!UpdateCallbackInfos
  <2>1. CASE UNCHANGED <<infos, listeners>> BY <2>0, <2>1, <1>a
  <2>2. CASE /\ listeners < MaxListeners
             /\ listeners' = listeners + 1
             /\ infos' = [infos EXCEPT ![doing[t].type] = @ \cup
                  {[num |-> listeners', env |-> t, callback |-> doing[t].callback]}]
    <3> DEFINE new == [num |-> listeners', env |-> t, callback |-> doing[t].callback]
    <3>1. doing[t].op = "add" BY <1>2 DEF Plug!UpdateCallbackInfos
    <3>2. \A type \in Plug!EventTypes : infos'[type] \subseteq infos[type] \cup {new}
      BY <2>2 DEF PlugTypes
    <3>3. Known' \subseteq Known \cup {new} BY <2>0, <3>2 DEF Known
    <3>4. new.num = listeners + 1 /\ listeners' = listeners + 1 /\ listeners \in Nat
      BY <2>2 DEF PlugTypes
    <3>5. new.num \in 1 .. MaxListeners BY <2>2, <3>4
    <3>6. \A l \in Known' : l.num <= listeners'
      <4> SUFFICES ASSUME NEW l \in Known' PROVE l.num <= listeners' OBVIOUS
      <4>1. l \in Known \/ l = new BY <3>3
      <4> QED BY <4>1, <3>4, <1>n DEF SeenInv
    <3>7. \A l, m \in Known' : l.num = m.num => l = m
      <4> SUFFICES ASSUME NEW l \in Known', NEW m \in Known', l.num = m.num PROVE l = m
        OBVIOUS
      <4>1. \A k \in Known : k.num # new.num BY <3>4, <1>n DEF SeenInv
      <4> QED BY <4>1, <3>3 DEF SeenInv
    <3>8. Plug!LatestIsSeen'
      <4> SUFFICES ASSUME NEW l \in infos'[Plug!StateChange],
                          \A task \in posted[l.env] : task.listener # l
                   PROVE  seen[l.num] = due[l.num]
        BY <2>0 DEF Plug!LatestIsSeen
      <4>1. l \in infos[Plug!StateChange] \/ l = new BY <3>2, <1>e
      <4>2. seen[new.num] = due[new.num] BY <3>4, <3>5 DEF SeenInv
      <4> QED BY <4>1, <4>2 DEF SeenInv, Plug!LatestIsSeen
    <3>9. \A num \in 1 .. MaxListeners : num > listeners' => seen[num] = due[num]
      BY <3>4 DEF SeenInv
    <3> QED BY <2>0, <3>6, <3>7, <3>8, <3>9 DEF SeenInv
  <2> QED BY <1>2, <2>1, <2>2 DEF Plug!UpdateCallbackInfos
<1>3. ASSUME NEW t \in Scripts, Plug!RunTask(t)
      PROVE  SeenInv'
  <2>0. UNCHANGED <<infos, statusEvent, due, listeners>> BY <1>3 DEF Plug!RunTask
  <2>1. PICK task \in posted[t] :
          /\ posted' = [posted EXCEPT ![t] = @ \ {task}]
          /\ seen' = [seen EXCEPT ![task.listener.num] = statusEvent[task.listener.num]]
    BY <1>3 DEF Plug!RunTask
  <2>2. \A s \in Scripts : posted'[s] \subseteq posted[s] BY <2>1 DEF PlugTypes
  <2>3. Known' \subseteq Known BY <2>0, <2>2 DEF Known
  <2>4. task.listener \in Known /\ task.listener.num \in 1 .. MaxListeners BY <1>p, <1>n
  <2>5. \A num \in 1 .. MaxListeners :
          seen'[num] = IF num = task.listener.num THEN due[num] ELSE seen[num]
    BY <2>1, <2>4 DEF PlugTypes, SeenInv
  <2>6. Plug!LatestIsSeen'
    <3> SUFFICES ASSUME NEW l \in infos[Plug!StateChange],
                        \A other \in posted'[l.env] : other.listener # l
                 PROVE  seen'[l.num] = due[l.num]
      BY <2>0 DEF Plug!LatestIsSeen
    <3>1. l \in Known /\ l.num \in 1 .. MaxListeners /\ l.env \in Scripts BY <1>l, <1>n, <1>e
    <3>2. CASE l = task.listener BY <2>5, <3>1, <3>2
    <3>3. CASE l # task.listener
      <4>1. l.num # task.listener.num BY <3>3, <2>4, <3>1 DEF SeenInv
      <4>2. \A other \in posted[l.env] : other.listener # l
        BY <2>1, <3>1, <3>3 DEF PlugTypes
      <4>3. seen[l.num] = due[l.num] BY <4>2 DEF SeenInv, Plug!LatestIsSeen
      <4> QED BY <2>5, <3>1, <4>1, <4>3
    <3> QED BY <3>2, <3>3
  <2>7. \A num \in 1 .. MaxListeners : num > listeners => seen'[num] = due[num]
    BY <2>5 DEF SeenInv
  <2>8. \A s \in Scripts : \A other \in posted'[s] : other.listener.env = s
    BY <2>2 DEF SeenInv
  <2> QED BY <2>0, <2>3, <2>6, <2>7, <2>8 DEF SeenInv
<1>4. ASSUME CallUsers
      PROVE  SeenInv'
  <2>0. UNCHANGED <<infos, seen, listeners>> BY <1>4 DEF CallUsers, Plug!TellUsers
  <2>1. CASE subscribed
    <3> DEFINE told == infos[Plug!StateChange]
    <3>1. /\ posted' = [env \in Scripts |-> posted[env] \cup
               {[event |-> events', listener |-> l] : l \in {m \in told : m.env = env}}]
          /\ statusEvent' = [num \in 1 .. MaxListeners |->
               IF \E l \in told : l.num = num THEN events' ELSE statusEvent[num]]
          /\ due' = [num \in 1 .. MaxListeners |->
               IF \E l \in told : l.num = num THEN events' ELSE due[num]]
      BY <1>4, <2>1, <2>0 DEF CallUsers, Plug!TellUsers, Plug!DataCallbackImpl,
        Plug!EmitUvEventLoop, Plug!UpdatePlugInfo
    <3>2. told \subseteq Known BY <1>l, <1>e
    <3>3. \A s \in Scripts : \A task \in posted'[s] :
            task \in posted[s] \/ (task.listener \in told /\ task.listener.env = s)
      BY <3>1
    <3>4. Known' \subseteq Known
      <4>1. \A s \in Scripts : \A task \in posted'[s] : task.listener \in Known
        BY <3>2, <3>3, <1>p
      <4> QED BY <2>0, <4>1, <1>l DEF Known
    <3>5. \A s \in Scripts : \A task \in posted'[s] : task.listener.env = s
      BY <3>3 DEF SeenInv
    <3>6. statusEvent' = due' BY <3>1 DEF SeenInv, PlugTypes
    <3>7. \A num \in 1 .. MaxListeners : num > listeners => due'[num] = due[num]
      <4>1. \A l \in told : l.num <= listeners BY <3>2 DEF SeenInv
      <4>2. \A num \in 1 .. MaxListeners : num > listeners => ~\E l \in told : l.num = num
        BY <4>1, <1>n, <3>2 DEF PlugTypes
      <4> QED BY <3>1, <4>2
    <3>8. Plug!LatestIsSeen'
      <4> SUFFICES ASSUME NEW l \in told, \A task \in posted'[l.env] : task.listener # l
                   PROVE  seen[l.num] = due'[l.num]
        BY <2>0 DEF Plug!LatestIsSeen
      <4>1. l.env \in Scripts BY <3>2, <1>n
      <4>2. [event |-> events', listener |-> l] \in posted'[l.env] BY <3>1, <4>1
      <4> QED BY <4>2
    <3> QED BY <2>0, <3>4, <3>5, <3>6, <3>7, <3>8 DEF SeenInv
  <2>2. CASE ~subscribed
    <3>1. UNCHANGED <<statusEvent, posted, due>> BY <1>4, <2>2 DEF CallUsers, Plug!TellUsers
    <3> QED BY <2>0, <3>1, <1>a
  <2> QED BY <2>1, <2>2 DEF PlugTypes
<1>5. ASSUME NEW t \in Scripts,
             \/ Plug!UnSubscribeVibratorPlug(t)
             \/ \E type \in Plug!EventTypes, callback \in Callbacks :
                  Plug!On(t, type, callback)
      PROVE  SeenInv'
  <2>1. UNCHANGED <<infos, statusEvent, posted, seen, due, listeners>>
    BY <1>5 DEF Plug!UnSubscribeVibratorPlug, Plug!On
  <2> QED BY <2>1, <1>a
<1>6. ASSUME NEW t \in EtsThreads,
             \/ \E callback \in Callbacks : Plug!onVibratorStateChange(t, callback)
             \/ Plug!offVibratorStateChange(t)
             \/ Plug!EtsUpdateCallbackInfos(t) \/ Plug!EtsUnSubscribe(t)
      PROVE  SeenInv'
  <2>1. UNCHANGED <<infos, statusEvent, posted, seen, due, listeners>>
    BY <1>6 DEF Plug!onVibratorStateChange, Plug!offVibratorStateChange,
      Plug!EtsUpdateCallbackInfos, Plug!EtsUnSubscribe
  <2> QED BY <2>1, <1>a
<1> QED BY <1>1, <1>2, <1>3, <1>4, <1>5, <1>6 DEF ListenerNext, Plug!ListenerStep

PlugInv == PlugTypes /\ TogetherInv /\ SeenInv

\* The lists begin empty.
LEMMA PlugBegins ==
  ASSUME Plug!ListenerInit
  PROVE  PlugInv
<1> USE LibraryAssumption
<1>1. Plug!Nothing \in Halves BY DEF Halves
<1>2. PlugTypes BY <1>1 DEF Plug!ListenerInit, PlugTypes, Plug!Nothing
<1>3. TogetherInv
  BY DEF TogetherInv, Plug!ListenerInit, Plug!Nothing, Plug!EventTypes, Plug!StateChange
<1>4. Known = {} BY DEF Known, Plug!ListenerInit
<1>5. SeenInv
  BY <1>4 DEF SeenInv, Plug!ListenerInit, Plug!LatestIsSeen, Plug!EventTypes, Plug!StateChange
<1> QED BY <1>2, <1>3, <1>5 DEF PlugInv

\* PlugInv holds in every state: calls do not touch the lists, and an on, an off
\* and an event keep it.
THEOREM ListenersInv == Spec => []PlugInv
<1>1. Init => PlugInv BY PlugBegins DEF Init
<1>2. PlugInv /\ [Next]_vars => PlugInv'
  <2> SUFFICES ASSUME PlugInv, [Next]_vars PROVE PlugInv' OBVIOUS
  <2>1. CASE ListenerNext \/ CallUsers
    BY <2>1, ListenerTypes, TogetherStep, SeenStep DEF PlugInv
  <2>2. CASE UNCHANGED plugVars
    BY <2>2 DEF PlugInv, plugVars, PlugTypes, TogetherInv, SeenInv, Known, Plug!LatestIsSeen
  <2> QED BY <2>1, <2>2 DEF Next, AgentNext, HandleVibratorData, vars
<1> QED BY <1>1, <1>2, PTL DEF Spec

\* While listeners are listed and no on or off is under way the binding of
\* vibrator_js.cpp is subscribed, whatever the script threads, the functions
\* they register and the events, if no on or off ran beside another.
THEOREM ListedAreSubscribed == Spec => []ListenersAreSubscribed
<1>1. PlugInv => ListenersAreSubscribed
  BY DEF PlugInv, TogetherInv, ListenersAreSubscribed, Plug!ListenersAreSubscribed
<1> QED BY <1>1, ListenersInv, PTL

\* A listener that is listed has seen the latest event there was for it as soon
\* as no task of its own waits in its script's loop: DataCallbackImpl may
\* overwrite an event that waits, and the task shows what it finds.
THEOREM LatestEventIsSeen == Spec => []LatestIsSeen
<1>1. PlugInv => LatestIsSeen BY DEF PlugInv, SeenInv, LatestIsSeen
<1> QED BY <1>1, ListenersInv, PTL

-------------------------------------------------------------------------------
(* The routines, and the fields of an entry. *)

\* What is to be set, or to be set back, is a list without repetition, of which
\* the first goes.
LEMMA RemainsFacts ==
  ASSUME NEW s \in Remains
  PROVE  /\ ToSet(s) \subseteq Fields /\ Len(s) \in Nat
         /\ s # <<>> => /\ Head(s) \in Fields /\ Tail(s) \in Remains
                        /\ Head(s) \notin ToSet(Tail(s))
                        /\ ToSet(s) = {Head(s)} \cup ToSet(Tail(s))
                        /\ Len(s) = Len(Tail(s)) + 1
                        /\ Len(s) > 1 <=> Tail(s) # <<>>
         /\ ToSet(<<>>) = {} /\ Len(<<>>) = 0
<1>1. CASE s = <<>> BY <1>1 DEF Remains, ToSet, Fields
<1>2. CASE s = <<"usage">> BY <1>2 DEF Remains, ToSet, Fields
<1>3. CASE s = <<"loopCount">> BY <1>3 DEF Remains, ToSet, Fields
<1>4. CASE s = <<"parameter">> BY <1>4 DEF Remains, ToSet, Fields
<1>5. CASE s = <<"usage", "loopCount">> BY <1>5 DEF Remains, ToSet, Fields
<1>6. CASE s = <<"loopCount", "usage">> BY <1>6 DEF Remains, ToSet, Fields
<1>7. CASE s = <<"usage", "parameter">> BY <1>7 DEF Remains, ToSet, Fields
<1> QED BY <1>1, <1>2, <1>3, <1>4, <1>5, <1>6, <1>7 DEF Remains

\* The flags of a function that plays, and what it sets back.
Plays(play, resets) ==
  /\ play.resets = resets
  /\ play.always \in BOOLEAN /\ play.session \in BOOLEAN /\ play.checks \in BOOLEAN

\* What a routine sets is set back by the function that plays it.
SetsBackAll(routine) ==
  /\ routine.sets \in Remains
  /\ routine.plays.resets \in Remains \ {<<>>}
  /\ ToSet(routine.sets) \subseteq ToSet(routine.plays.resets)
  /\ routine.plays.always \in BOOLEAN /\ routine.plays.session \in BOOLEAN
  /\ routine.plays.checks \in BOOLEAN
  /\ routine.pooled \in BOOLEAN /\ routine.throws \in BOOLEAN

\* Every function that plays sets back the usage, and what else it sets back is
\* what the routines that use it have set.
LEMMA RoutineFacts ==
  /\ \A routine \in AllRoutines : SetsBackAll(routine)
  /\ \A t \in Callers : RoutinesOf(t) \subseteq AllRoutines
  /\ \A routine \in startVibrationSync \cup NativeRoutines : ~routine.pooled
<1> DEFINE Once == StartVibratorOnceEnhanced
           Custom == PlayVibratorCustomEnhanced
           Pattern == PlayPatternEnhanced
           Primitive == PlayPrimitiveEffectEnhanced
           Enhanced == StartVibratorEnhanced
           BySession == PlayPatternBySessionId
           Package == PlayPackageBySessionId
           OnceOnly == [Once EXCEPT !.checks = FALSE]
           PrimitiveChecked == [Primitive EXCEPT !.checks = TRUE]
           usage == <<"usage">>
           count == <<"usage", "loopCount">>
           countFirst == <<"loopCount", "usage">>
           parameter == <<"usage", "parameter">>
<1>p. /\ Plays(Once, usage) /\ Plays(OnceOnly, usage)
      /\ Plays(Enhanced, count) /\ Plays(Primitive, count) /\ Plays(PrimitiveChecked, count)
      /\ Plays(Custom, parameter) /\ Plays(Pattern, parameter)
      /\ Plays(BySession, parameter) /\ Plays(Package, parameter)
  BY DEF Plays, StartVibratorOnceEnhanced, PlayVibratorCustomEnhanced, PlayPatternEnhanced,
    PlayPrimitiveEffectEnhanced, StartVibratorEnhanced, PlayPatternBySessionId,
    PlayPackageBySessionId
<1>s. /\ ToSet(<<>>) = {} /\ ToSet(usage) = {"usage"}
      /\ ToSet(count) = {"usage", "loopCount"} /\ ToSet(countFirst) = {"usage", "loopCount"}
      /\ ToSet(parameter) = {"usage", "parameter"}
  BY DEF ToSet
<1>m. /\ {usage, count, parameter} \subseteq Remains \ {<<>>}
      /\ {<<>>, usage, countFirst, parameter} \subseteq Remains
  BY DEF Remains
<1> HIDE DEF Once, Custom, Pattern, Primitive, Enhanced, BySession, Package, OnceOnly,
             PrimitiveChecked, usage, count, countFirst, parameter
<1>r. ASSUME NEW sets, NEW resets, NEW play, Plays(play, resets), sets \in Remains,
             resets \in Remains \ {<<>>}, ToSet(sets) \subseteq ToSet(resets)
      PROVE  /\ SetsBackAll(Routine(sets, play)) /\ ~Routine(sets, play).pooled
             /\ SetsBackAll([Routine(sets, play) EXCEPT !.throws = FALSE])
             /\ SetsBackAll([Routine(sets, play) EXCEPT !.pooled = TRUE])
  BY <1>r DEF SetsBackAll, Plays, Routine
<1>1. SetsBackAll(VibrateTime) /\ SetsBackAll(VibrateEffectId) /\ SetsBackAll(VibrateMode)
  <2>1. ASSUME NEW resets \in {usage, count}, NEW play, Plays(play, resets)
        PROVE  SetsBackAll([Routine(<<>>, play) EXCEPT !.throws = FALSE])
    BY <2>1, <1>r, <1>s, <1>m
  <2> QED BY <2>1, <1>p DEF VibrateTime, VibrateEffectId, VibrateMode, Once, Enhanced, OnceOnly
<1>2. SetsBackAll(VibrateEffect)
  <2>1. SetsBackAll([Routine(countFirst, PrimitiveChecked) EXCEPT !.pooled = TRUE])
    BY <1>p, <1>r, <1>s, <1>m
  <2> QED BY <2>1 DEF VibrateEffect, countFirst, PrimitiveChecked, Primitive
<1>3. ASSUME NEW play \in {Once, Custom, Pattern}
      PROVE  SetsBackAll(Routine(usage, play)) /\ ~Routine(usage, play).pooled
  BY <1>p, <1>r, <1>s, <1>m
<1>4. ASSUME NEW play \in {Enhanced, Primitive, PrimitiveChecked}
      PROVE  SetsBackAll(Routine(countFirst, play)) /\ ~Routine(countFirst, play).pooled
  BY <1>p, <1>r, <1>s, <1>m
<1>5. ASSUME NEW play \in {Custom, Pattern, BySession, Package}
      PROVE  SetsBackAll(Routine(parameter, play)) /\ ~Routine(parameter, play).pooled
  BY <1>p, <1>r, <1>s, <1>m
<1>6. \A routine \in StartVibrate : SetsBackAll(routine) /\ ~routine.pooled
  BY <1>3 DEF StartVibrate, usage, Once, Custom, Pattern
<1>7. \A routine \in startVibrationSync : SetsBackAll(routine) /\ ~routine.pooled
  BY <1>4, <1>6 DEF startVibrationSync, countFirst, PrimitiveChecked, Primitive
<1>8. \A routine \in NativeRoutines : SetsBackAll(routine) /\ ~routine.pooled
  BY <1>3, <1>4, <1>5 DEF NativeRoutines, usage, countFirst, parameter, Once, Custom,
    Pattern, Enhanced, Primitive, BySession, Package
<1>9. \A routine \in AllRoutines : SetsBackAll(routine)
  BY <1>1, <1>2, <1>6, <1>7, <1>8 DEF AllRoutines, ScriptRoutines
<1>10. \A t \in Callers : RoutinesOf(t) \subseteq AllRoutines
  BY DEF RoutinesOf, AllRoutines
<1> QED BY <1>7, <1>8, <1>9, <1>10

Entries == [Identifiers -> [DOMAIN VibratorEffectParameter -> Nat]]

\* SetUsage, SetLoopCount and SetParameters change the field they name, and for
\* one vibrator, also when a value is set back.
LEMMA SetFacts ==
  ASSUME ThreadTypes, EntryTypes, NEW t \in Threads, NEW c, NEW what \in Fields,
         c.id \in Identifiers, c.n \in Nat
  PROVE  /\ Set(c, what) \in Entries /\ SetBack(t, c, what) \in Entries
         /\ \A id \in Identifiers, w \in Fields :
              /\ Set(c, what)[id][FieldOf(w)] =
                   IF id = c.id /\ w = what THEN c.n ELSE effects[id][FieldOf(w)]
              /\ SetBack(t, c, what)[id][FieldOf(w)] =
                   IF id = c.id /\ w = what THEN 0 ELSE effects[id][FieldOf(w)]
<1> USE DEF Set, SetBack, SetUsage, SetLoopCount, SetParameters, ThreadTypes, EntryTypes,
            VibratorEffectParameter, Entries, FieldOf
<1>1. CASE what = "usage" BY <1>1 DEF Fields
<1>2. CASE what = "loopCount" BY <1>2 DEF Fields
<1>3. CASE what = "parameter"
  <2>1. arg[t].sessionId \in Nat OBVIOUS
  <2>2. /\ Set(c, what) = SetParameters(c.id, c.n, 0)
        /\ SetBack(t, c, what) = SetParameters(c.id, 0, arg[t].sessionId)
    BY <1>3
  <2>3. ASSUME NEW intensity \in Nat, NEW session \in Nat
        PROVE  /\ SetParameters(c.id, intensity, session) \in Entries
               /\ \A id \in Identifiers, w \in Fields :
                    SetParameters(c.id, intensity, session)[id][FieldOf(w)] =
                      IF id = c.id /\ w = what THEN intensity ELSE effects[id][FieldOf(w)]
    <3>1. effects[c.id] \in [DOMAIN VibratorEffectParameter -> Nat] OBVIOUS
    <3>2. SetParameters(c.id, intensity, session) =
            [effects EXCEPT ![c.id] =
               [effects[c.id] EXCEPT !.intensity = intensity, !.sessionId = session]]
      OBVIOUS
    <3>3. DOMAIN VibratorEffectParameter = {"usage", "loopCount", "intensity", "sessionId"}
      OBVIOUS
    <3> DEFINE new == [effects[c.id] EXCEPT !.intensity = intensity, !.sessionId = session]
    <3>4. /\ new \in [DOMAIN VibratorEffectParameter -> Nat]
          /\ new["intensity"] = intensity
          /\ new["usage"] = effects[c.id]["usage"]
          /\ new["loopCount"] = effects[c.id]["loopCount"]
      BY <3>1, <3>3
    <3> HIDE DEF new
    <3>5. SetParameters(c.id, intensity, session) = [effects EXCEPT ![c.id] = new]
      BY <3>2 DEF new
    <3> HIDE DEF SetParameters
    <3> QED BY <3>4, <3>5, <1>3 DEF Fields
  <2>4. 0 \in Nat OBVIOUS
  <2> HIDE DEF Set, SetBack, SetUsage, SetLoopCount, SetParameters, ThreadTypes, EntryTypes,
               VibratorEffectParameter, Entries, FieldOf
  <2> DEFINE Puts(value, session) ==
        /\ SetParameters(c.id, value, session) \in Entries
        /\ \A id \in Identifiers, w \in Fields :
             SetParameters(c.id, value, session)[id][FieldOf(w)] =
               IF id = c.id /\ w = what THEN value ELSE effects[id][FieldOf(w)]
  <2>p. /\ Puts(c.n, 0) /\ Puts(0, arg[t].sessionId)
    BY <2>1, <2>3, <2>4
  <2>5. /\ Set(c, what) \in Entries
        /\ \A id \in Identifiers, w \in Fields :
             Set(c, what)[id][FieldOf(w)] =
               IF id = c.id /\ w = what THEN c.n ELSE effects[id][FieldOf(w)]
    BY <2>2, <2>p
  <2>6. /\ SetBack(t, c, what) \in Entries
        /\ \A id \in Identifiers, w \in Fields :
             SetBack(t, c, what)[id][FieldOf(w)] =
               IF id = c.id /\ w = what THEN 0 ELSE effects[id][FieldOf(w)]
    BY <2>2, <2>p
  <2> QED BY <2>5, <2>6
<1> QED BY <1>1, <1>2, <1>3 DEF Fields

-------------------------------------------------------------------------------
(* Where a call goes. *)

Others(t) ==
  \A u \in Threads \ {t} : /\ pc'[u] = pc[u] /\ call'[u] = call[u]
                           /\ todo'[u] = todo[u] /\ arg'[u] = arg[u]

\* Thread t works on c.
Stays(t, c) ==
  /\ pc'[t] # "idle" /\ call'[t] = c
  /\ UNCHANGED <<queued, executed, answered, promises>>

\* It hands c to the pool, or the outcome to the script or to the caller; or it
\* has thrown.
LetsGo(t, c) ==
  /\ pc'[t] = "idle" /\ todo'[t] = <<>>
  /\ \/ /\ c.by \in Scripts /\ t \notin Workers
        /\ queued' = queued \cup {c} /\ promises' = promises \cup {c.n}
        /\ UNCHANGED <<executed, answered>>
     \/ /\ c.by \in Scripts
        /\ \E result \in Results : executed' = executed \cup {[call |-> c, result |-> result]}
        /\ promises' = promises \cup {c.n}
        /\ UNCHANGED <<queued, answered>>
     \/ /\ t \notin Workers
        /\ answered' \in {answered, answered \cup {c}}
        /\ UNCHANGED <<queued, executed, promises>>

Goes(t, c) == ThreadTypes' /\ Others(t) /\ (Stays(t, c) \/ LetsGo(t, c))

\* A thread that has done with its call, and no other, is idle.
LEMMA IdleGoes ==
  ASSUME ThreadTypes, NEW t \in Threads, Idle(t)
  PROVE  ThreadTypes' /\ Others(t) /\ pc'[t] = "idle" /\ todo'[t] = <<>>
<1>1. VibratorEffectParameter \in [DOMAIN VibratorEffectParameter -> Nat]
  BY DEF VibratorEffectParameter
<1>2. <<>> \in Remains /\ "SUCCESS" \in Codes BY DEF Remains, Codes
<1> HIDE DEF VibratorEffectParameter
<1> QED BY <1>1, <1>2 DEF ThreadTypes, Idle, Others, Becomes

\* A call that is played ends with its script's queue or its caller, or has
\* thrown on the thread that asked for it.
LEMMA FinishGoes ==
  ASSUME ThreadTypes, NEW t \in Threads, NEW c, NEW result \in Results, Finish(t, c, result),
         t \in Workers => c.by \in Scripts
  PROVE  Goes(t, c) /\ pc'[t] = "idle" /\ queued' = queued
<1>1. ThreadTypes' /\ Others(t) /\ pc'[t] = "idle" /\ todo'[t] = <<>>
  BY IdleGoes DEF Finish
<1>2. LetsGo(t, c) BY <1>1 DEF LetsGo, Finish
<1> QED BY <1>1, <1>2 DEF Goes, Finish

\* Once its fields are set a call is to be played, in the pool's queue, or refused.
LEMMA ArriveGoes ==
  ASSUME ThreadTypes, NEW t \in Callers, NEW c, Arrive(t, c),
         c.routine.pooled => c.by \in Scripts
  PROVE  /\ Goes(t, c)
         /\ c.flaw # "play" => \/ pc'[t] = "read" /\ todo'[t] = <<>>
                               \/ pc'[t] = "idle" /\ queued' = queued \cup {c}
         /\ c.flaw = "play" => pc'[t] = "idle" /\ queued' = queued
<1>0. t \in Threads /\ t \notin Workers BY AgentAssumption DEF Threads
<1>1. CASE c.flaw # "play" /\ c.routine.pooled
  <2>1. Idle(t) /\ EmitAsyncWork(c) BY <1>1 DEF Arrive
  <2>2. ThreadTypes' /\ Others(t) /\ pc'[t] = "idle" /\ todo'[t] = <<>>
    BY <1>0, <2>1, IdleGoes
  <2> QED BY <1>0, <1>1, <2>1, <2>2 DEF Goes, LetsGo, EmitAsyncWork
<1>2. CASE c.flaw # "play" /\ ~c.routine.pooled
  <2>1. <<>> \in Remains BY DEF Remains
  <2>2. /\ pc' = [pc EXCEPT ![t] = "read"] /\ call' = [call EXCEPT ![t] = c]
        /\ todo' = [todo EXCEPT ![t] = <<>>]
        /\ UNCHANGED <<arg, code, queued, executed, promises, answered>>
    BY <1>2 DEF Arrive, Becomes
  <2>3. ThreadTypes' BY <1>0, <2>1, <2>2 DEF ThreadTypes
  <2>4. Others(t) /\ pc'[t] = "read" /\ call'[t] = c /\ todo'[t] = <<>>
    BY <1>0, <2>2 DEF ThreadTypes, Others
  <2> QED BY <1>2, <2>2, <2>3, <2>4 DEF Goes, Stays
<1>3. CASE c.flaw = "play" /\ c.routine.pooled
  <2>1. Idle(t) /\ UNCHANGED <<queued, executed, promises, answered>> BY <1>3 DEF Arrive
  <2>2. ThreadTypes' /\ Others(t) /\ pc'[t] = "idle" /\ todo'[t] = <<>>
    BY <1>0, <2>1, IdleGoes
  <2> QED BY <1>0, <1>3, <2>1, <2>2 DEF Goes, LetsGo
<1>4. CASE c.flaw = "play" /\ ~c.routine.pooled
  <2>1. Finish(t, c, "PARAMETER_ERROR") BY <1>4 DEF Arrive
  <2>2. "PARAMETER_ERROR" \in Results BY DEF Results
  <2> QED BY <1>0, <1>4, <2>1, <2>2, FinishGoes
<1> QED BY <1>1, <1>2, <1>3, <1>4

\* Call c is new, and thread t begins to set what it has to set.
AskedAs(t, c) ==
  /\ t \in Callers /\ c \in Calls /\ c.n = calls + 1
  /\ c.routine.pooled => c.by \in Scripts
  /\ \/ pc'[t] = "set" /\ todo'[t] = c.routine.sets /\ c.routine.sets # <<>>
     \/ pc'[t] = "read" /\ todo'[t] = <<>> /\ c.routine.sets = <<>>
     \/ pc'[t] = "idle" /\ c.routine.sets = <<>>

\* Ask takes the next number.
LEMMA AskGoes ==
  ASSUME CallsInv, NEW t \in Threads, Ask(t)
  PROVE  \E c : Goes(t, c) /\ AskedAs(t, c)
<1> USE AgentAssumption
<1>1. PICK id \in IdentifiersOf(t), routine \in RoutinesOf(t) : \E flaw \in Flaws(routine) :
        LET c == [n |-> calls', by |-> t, id |-> id, routine |-> routine, flaw |-> flaw]
        IN  IF routine.sets = <<>>
              THEN Arrive(t, c)
              ELSE /\ Becomes(t, "set")
                   /\ call' = [call EXCEPT ![t] = c]
                   /\ todo' = [todo EXCEPT ![t] = routine.sets]
                   /\ UNCHANGED <<arg, code, queued, executed, promises, answered>>
  BY DEF Ask
<1>2. PICK flaw \in Flaws(routine) :
        LET c == [n |-> calls', by |-> t, id |-> id, routine |-> routine, flaw |-> flaw]
        IN  IF routine.sets = <<>>
              THEN Arrive(t, c)
              ELSE /\ Becomes(t, "set")
                   /\ call' = [call EXCEPT ![t] = c]
                   /\ todo' = [todo EXCEPT ![t] = routine.sets]
                   /\ UNCHANGED <<arg, code, queued, executed, promises, answered>>
  BY <1>1
<1> DEFINE c == [n |-> calls', by |-> t, id |-> id, routine |-> routine, flaw |-> flaw]
<1>3. t \in Callers /\ calls' = calls + 1 /\ calls < MaxCalls /\ calls \in Nat
  BY DEF Ask, CallsInv, EntryTypes
<1>4. id \in Identifiers BY DEF IdentifiersOf
<1>5. routine \in AllRoutines /\ SetsBackAll(routine) BY <1>3, RoutineFacts
<1>6. flaw \in {"none", "loopCount", "usage", "play"} BY DEF Flaws
<1>7. calls' \in Numbers BY <1>3 DEF Numbers
<1>8. c \in Calls BY <1>3, <1>4, <1>5, <1>6, <1>7 DEF Calls
<1>9. routine.pooled => t \in Scripts
  <2>1. t \notin Scripts => routine \in startVibrationSync \cup NativeRoutines
    BY DEF RoutinesOf
  <2> QED BY <2>1, RoutineFacts
<1>10. c.n = calls + 1 /\ c.routine = routine /\ c.by = t BY <1>3
<1>11. ThreadTypes BY DEF CallsInv
<1>12. CASE routine.sets = <<>>
  <2>1. Arrive(t, c) BY <1>2, <1>12
  <2> HIDE DEF c
  <2>2. Goes(t, c) /\ (\/ pc'[t] = "read" /\ todo'[t] = <<>>
                       \/ pc'[t] = "idle")
    BY <1>3, <1>9, <1>10, <1>11, <2>1, ArriveGoes
  <2> QED BY <1>3, <1>8, <1>9, <1>10, <1>12, <2>2 DEF AskedAs
<1>13. CASE routine.sets # <<>>
  <2>1. /\ pc' = [pc EXCEPT ![t] = "set"] /\ call' = [call EXCEPT ![t] = c]
        /\ todo' = [todo EXCEPT ![t] = routine.sets]
        /\ UNCHANGED <<arg, code, queued, executed, promises, answered>>
    BY <1>2, <1>13 DEF Becomes
  <2>2. routine.sets \in Remains BY <1>5 DEF SetsBackAll
  <2> HIDE DEF c
  <2>3. ThreadTypes' BY <1>11, <2>1, <2>2 DEF ThreadTypes
  <2>4. Others(t) /\ pc'[t] = "set" /\ call'[t] = c /\ todo'[t] = routine.sets
    BY <1>11, <2>1 DEF ThreadTypes, Others
  <2> QED BY <1>3, <1>8, <1>9, <1>10, <1>13, <2>1, <2>3, <2>4 DEF AskedAs, Goes, Stays
<1> QED BY <1>12, <1>13

\* What a step that sets a field makes of the call, the entry and what is left.
SetAs(t, c, what) ==
  \/ /\ pc'[t] = "idle" /\ UNCHANGED <<effects, disturbed, queued>>
     /\ left' = [left EXCEPT ![c.id] = @ \cup (ToSet(c.routine.sets) \ ToSet(todo[t]))]
  \/ /\ effects' = Set(c, what) /\ Disturbs(t, c.id)
     /\ \/ /\ pc'[t] = "set" /\ todo'[t] = Tail(todo[t]) /\ Tail(todo[t]) # <<>>
           /\ left' = left
        \/ /\ Tail(todo[t]) = <<>> /\ left' = left
           /\ \/ pc'[t] = "read" /\ todo'[t] = <<>>
              \/ pc'[t] = "idle" /\ queued' = queued \cup {c}
        \/ /\ Tail(todo[t]) = <<>> /\ pc'[t] = "idle" /\ queued' = queued
           /\ left' = [left EXCEPT ![c.id] =
                         @ \cup ((ToSet(c.routine.sets) \ ToSet(todo[t])) \cup {what})]

\* SetOne refuses the call, sets one field, or sets the last one and plays.
LEMMA SetGoes ==
  ASSUME CallsInv, NEW t \in Threads, SetOne(t)
  PROVE  /\ Goes(t, call[t]) /\ SetAs(t, call[t], Head(todo[t]))
         /\ t \in Callers /\ Head(todo[t]) \in Fields /\ todo[t] \in Remains \ {<<>>}
<1> DEFINE what == Head(todo[t])
           done == {w \in ToSet(call[t].routine.sets) : w \notin ToSet(todo[t])}
<1>0. ThreadTypes /\ ThreadOK(t) /\ pc[t] = "set" BY DEF CallsInv, ThreadInv, SetOne
<1>1. t \in Callers /\ t \notin Workers BY <1>0 DEF ThreadOK, Threads
<1>2. todo[t] \in Remains \ {<<>>} BY <1>0 DEF ThreadTypes, ThreadOK
<1>3. /\ what \in Fields /\ Tail(todo[t]) \in Remains
      /\ Len(todo[t]) > 1 <=> Tail(todo[t]) # <<>>
  BY <1>2, RemainsFacts
<1>4. done = ToSet(call[t].routine.sets) \ ToSet(todo[t]) OBVIOUS
<1>5. CASE what = call[t].flaw
  <2>1. /\ Idle(t) /\ UNCHANGED <<queued, executed, promises, answered>>
        /\ left' = [left EXCEPT ![call[t].id] = @ \cup done]
        /\ UNCHANGED <<effects, disturbed>>
    BY <1>5 DEF SetOne, Refuse, Leave
  <2>2. Goes(t, call[t]) /\ pc'[t] = "idle"
    BY <1>0, <1>1, <2>1, IdleGoes DEF Goes, LetsGo
  <2> QED BY <1>1, <1>2, <1>3, <1>4, <2>1, <2>2 DEF SetAs
<1>6. CASE what # call[t].flaw /\ Len(todo[t]) > 1
  <2>1. /\ effects' = Set(call[t], what) /\ Disturbs(t, call[t].id)
        /\ todo' = [todo EXCEPT ![t] = Tail(@)]
        /\ UNCHANGED <<pc, call, arg, code, queued, executed, promises, answered, left>>
    BY <1>6 DEF SetOne
  <2>2. ThreadTypes' BY <1>0, <1>3, <2>1 DEF ThreadTypes
  <2>3. Others(t) /\ pc'[t] = "set" /\ todo'[t] = Tail(todo[t])
    BY <1>0, <2>1 DEF ThreadTypes, Others
  <2> QED BY <1>0, <1>1, <1>2, <1>3, <1>6, <2>1, <2>2, <2>3 DEF SetAs, Goes, Stays
<1>7. CASE what # call[t].flaw /\ ~(Len(todo[t]) > 1)
  <2>1. /\ effects' = Set(call[t], what) /\ Disturbs(t, call[t].id) /\ Arrive(t, call[t])
        /\ IF call[t].flaw = "play"
             THEN left' = [left EXCEPT ![call[t].id] = @ \cup (done \cup {what})]
             ELSE left' = left
    BY <1>7 DEF SetOne, Leave
  <2>2. call[t].routine.pooled => call[t].by \in Scripts BY <1>0 DEF ThreadOK, Entered
  <2>3. /\ Goes(t, call[t])
        /\ call[t].flaw # "play" => \/ pc'[t] = "read" /\ todo'[t] = <<>>
                                    \/ pc'[t] = "idle" /\ queued' = queued \cup {call[t]}
        /\ call[t].flaw = "play" => pc'[t] = "idle" /\ queued' = queued
    BY <1>0, <1>1, <2>1, <2>2, ArriveGoes
  <2>4. Tail(todo[t]) = <<>> BY <1>3, <1>7
  <2> QED BY <1>1, <1>2, <1>3, <1>4, <2>1, <2>3, <2>4 DEF SetAs
<1> QED BY <1>5, <1>6, <1>7

\* ReadEntry copies the entry, but for the session of a call that has its own.
LEMMA ReadGoes ==
  ASSUME CallsInv, NEW t \in Threads, ReadEntry(t)
  PROVE  /\ Goes(t, call[t]) /\ pc'[t] = "call" /\ todo'[t] = <<>>
         /\ \A what \in Fields :
              arg'[t][FieldOf(what)] = effects[call[t].id][FieldOf(what)]
<1>0. ThreadTypes /\ EntryTypes /\ ThreadOK(t) /\ pc[t] = "read"
  BY DEF CallsInv, ThreadInv, ReadEntry
<1>1. call[t].id \in Identifiers /\ call[t].n \in Nat
  BY <1>0 DEF ThreadOK, Entered, Calls, Numbers
<1> DEFINE entry == effects[call[t].id]
           copy  == IF call[t].routine.plays.session
                      THEN [entry EXCEPT !.sessionId = call[t].n] ELSE entry
<1>2. entry \in [DOMAIN VibratorEffectParameter -> Nat] BY <1>0, <1>1 DEF EntryTypes
<1>3. copy \in [DOMAIN VibratorEffectParameter -> Nat] BY <1>1, <1>2
<1>4. \A what \in Fields : copy[FieldOf(what)] = entry[FieldOf(what)]
  BY <1>2 DEF VibratorEffectParameter, Fields, FieldOf
<1>5. /\ arg' = [arg EXCEPT ![t] = copy] /\ pc' = [pc EXCEPT ![t] = "call"]
      /\ UNCHANGED <<todo, call, code, queued, executed, promises, answered>>
  BY DEF ReadEntry, GetVibratorEffectParameter, Becomes
<1> HIDE DEF copy
<1>6. ThreadTypes' BY <1>0, <1>3, <1>5 DEF ThreadTypes
<1>7. Others(t) /\ pc'[t] = "call" /\ arg'[t] = copy BY <1>0, <1>5 DEF ThreadTypes, Others
<1>8. todo'[t] = <<>> BY <1>0, <1>5 DEF ThreadOK
<1> QED BY <1>4, <1>5, <1>6, <1>7, <1>8 DEF Goes, Stays

\* What the service's answer makes of a call.
PlayedAs(t, c) ==
  /\ playing' \in {playing, [playing EXCEPT ![c.id] = c.n]}
  /\ queued' = queued
  /\ \/ pc'[t] = "reset" /\ todo'[t] = c.routine.plays.resets /\ left' = left
     \/ pc'[t] = "idle" /\ left' = [left EXCEPT ![c.id] = @ \cup ToSet(c.routine.sets)]

\* The codes NormalizeErrCode answers with are the ones that have a message.
LEMMA NormalizeFacts ==
  ASSUME NEW ret \in Codes
  PROVE  NormalizeErrCode(ret) \in Results /\ Results = ERROR_MESSAGES \cup {"SUCCESS"}
BY DEF Codes, NormalizeErrCode, Results, ERROR_MESSAGES

\* A call the service has answered sets back, or is over.
LEMMA CallGoes ==
  ASSUME CallsInv, NEW t \in Threads, CallService(t)
  PROVE  /\ pc[t] = "call" /\ Goes(t, call[t]) /\ PlayedAs(t, call[t])
         /\ SetsBackAll(call[t].routine)
<1>0. ThreadTypes /\ ThreadOK(t) /\ pc[t] = "call" BY DEF CallsInv, ThreadInv, CallService
<1>1. SetsBackAll(call[t].routine)
  BY <1>0, RoutineFacts DEF ThreadOK, Entered, Calls
<1>2. PICK ret \in Codes :
        /\ playing' = IF ret = "SUCCESS" THEN [playing EXCEPT ![call[t].id] = call[t].n]
                                         ELSE playing
        /\ IF ret = "SUCCESS" \/ call[t].routine.plays.always
             THEN /\ pc' = [pc EXCEPT ![t] = "reset"]
                  /\ todo' = [todo EXCEPT ![t] = call[t].routine.plays.resets]
                  /\ code' = [code EXCEPT ![t] = ret]
                  /\ UNCHANGED <<call, arg, queued, executed, promises, answered, left>>
             ELSE /\ Finish(t, call[t], NormalizeErrCode(ret))
                  /\ left' = [left EXCEPT ![call[t].id] = @ \cup ToSet(call[t].routine.sets)]
  BY DEF CallService, Becomes, Leave
<1>3. CASE ret = "SUCCESS" \/ call[t].routine.plays.always
  <2>1. call[t].routine.plays.resets \in Remains BY <1>1 DEF SetsBackAll
  <2>2. ThreadTypes' BY <1>0, <1>2, <1>3, <2>1 DEF ThreadTypes
  <2>3. /\ Others(t) /\ pc'[t] = "reset" /\ todo'[t] = call[t].routine.plays.resets
    BY <1>0, <1>2, <1>3 DEF ThreadTypes, Others
  <2> QED BY <1>0, <1>1, <1>2, <1>3, <2>2, <2>3 DEF Goes, Stays, PlayedAs
<1>4. CASE ~(ret = "SUCCESS" \/ call[t].routine.plays.always)
  <2>1. NormalizeErrCode(ret) \in Results BY NormalizeFacts
  <2>2. t \in Workers => call[t].by \in Scripts BY <1>0 DEF ThreadOK
  <2>3. Goes(t, call[t]) /\ pc'[t] = "idle" /\ queued' = queued
    BY <1>0, <1>2, <1>4, <2>1, <2>2, FinishGoes
  <2> QED BY <1>0, <1>1, <1>2, <1>4, <2>3 DEF PlayedAs
<1> QED BY <1>3, <1>4

\* What a step that sets a field back makes of the call.
ResetAs(t) ==
  /\ queued' = queued
  /\ \/ pc'[t] = "reset" /\ todo'[t] = Tail(todo[t]) /\ Tail(todo[t]) # <<>>
     \/ pc'[t] = "idle" /\ Tail(todo[t]) = <<>>

\* ResetOne sets back one field, and the call is over with the last one.
LEMMA ResetGoes ==
  ASSUME CallsInv, NEW t \in Threads, ResetOne(t)
  PROVE  /\ Goes(t, call[t]) /\ ResetAs(t)
         /\ Head(todo[t]) \in Fields /\ todo[t] \in Remains \ {<<>>}
<1>0. ThreadTypes /\ ThreadOK(t) /\ pc[t] = "reset" BY DEF CallsInv, ThreadInv, ResetOne
<1>1. todo[t] \in Remains \ {<<>>} BY <1>0 DEF ThreadTypes, ThreadOK
<1>2. /\ Head(todo[t]) \in Fields /\ Tail(todo[t]) \in Remains
      /\ Len(todo[t]) > 1 <=> Tail(todo[t]) # <<>>
  BY <1>1, RemainsFacts
<1>3. CASE Len(todo[t]) > 1
  <2>1. /\ todo' = [todo EXCEPT ![t] = Tail(@)]
        /\ UNCHANGED <<pc, call, arg, code, queued, executed, promises, answered>>
    BY <1>3 DEF ResetOne
  <2>2. ThreadTypes' BY <1>0, <1>2, <2>1 DEF ThreadTypes
  <2>3. Others(t) /\ pc'[t] = "reset" /\ todo'[t] = Tail(todo[t])
    BY <1>0, <2>1 DEF ThreadTypes, Others
  <2> QED BY <1>0, <1>1, <1>2, <1>3, <2>1, <2>2, <2>3 DEF ResetAs, Goes, Stays
<1>4. CASE ~(Len(todo[t]) > 1)
  <2>1. Finish(t, call[t], NormalizeErrCode(code[t])) BY <1>4 DEF ResetOne
  <2>2. NormalizeErrCode(code[t]) \in Results BY <1>0, NormalizeFacts DEF ThreadTypes
  <2>3. t \in Workers => call[t].by \in Scripts BY <1>0 DEF ThreadOK
  <2>4. Goes(t, call[t]) /\ pc'[t] = "idle" /\ queued' = queued
    BY <1>0, <2>1, <2>2, <2>3, FinishGoes
  <2> QED BY <1>1, <1>2, <1>4, <2>4 DEF ResetAs
<1> QED BY <1>3, <1>4

-------------------------------------------------------------------------------
(* CallsInv is kept. *)

\* The number n is not the one of a call somewhere else than with thread t.
Apart(n, t) ==
  /\ \A d \in queued : d.n # n
  /\ \A x \in executed : x.call.n # n
  /\ \A a \in answered : a.n # n
  /\ \A u \in Threads \ {t} : pc[u] # "idle" => call[u].n # n

\* A busy thread's call, and the next one, is nowhere else.
LEMMA ApartFacts ==
  ASSUME CallsInv, NEW t \in Threads
  PROVE  /\ pc[t] # "idle" => Apart(call[t].n, t) /\ Entered(call[t])
         /\ Apart(calls + 1, t)
<1> USE DEF CallsInv
<1>1. pc[t] # "idle" => Apart(call[t].n, t) BY DEF PlacesInv, Apart
<1>2. calls \in Nat BY DEF EntryTypes
<1>3. \A c : Entered(c) => c.n # calls + 1 BY <1>2 DEF Entered
<1>4. Apart(calls + 1, t) BY <1>3 DEF PlacesInv, Apart, Pooled, ThreadInv, ThreadOK
<1> QED BY <1>1, <1>4 DEF ThreadInv, ThreadOK

\* A call that goes stays in one place.
LEMMA GoingKeepsPlaces ==
  ASSUME CallsInv, NEW t \in Threads, NEW c, Goes(t, c), Apart(c.n, t), Entered(c)',
         calls' \in Nat, calls' >= calls
  PROVE  PlacesInv'
<1> USE DEF CallsInv
<1>0. \A d : Entered(d) => Entered(d)' BY DEF Entered, EntryTypes
<1>1. CASE Stays(t, c)
  <2>1. /\ UNCHANGED <<queued, executed, answered>>
        /\ call'[t] = c /\ \A u \in Threads \ {t} : pc'[u] = pc[u] /\ call'[u] = call[u]
    BY <1>1 DEF Stays, Goes, Others
  <2> QED BY <1>0, <2>1 DEF PlacesInv, Apart, Pooled
<1>2. CASE LetsGo(t, c)
  <2>0. pc'[t] = "idle" /\ \A u \in Threads \ {t} : pc'[u] = pc[u] /\ call'[u] = call[u]
    BY <1>2 DEF LetsGo, Goes, Others
  <2>1. CASE /\ c.by \in Scripts /\ queued' = queued \cup {c}
             /\ UNCHANGED <<executed, answered>>
    BY <1>0, <2>0, <2>1 DEF PlacesInv, Apart, Pooled
  <2>2. CASE /\ c.by \in Scripts /\ UNCHANGED <<queued, answered>>
             /\ \E result \in Results :
                  executed' = executed \cup {[call |-> c, result |-> result]}
    <3>1. PICK result \in Results :
            executed' = executed \cup {[call |-> c, result |-> result]}
      BY <2>2
    <3>2. \A x \in executed' :
            x \in executed \/ (x.call = c /\ x = [call |-> c, result |-> result]
                                 /\ x.result \in Results)
      BY <3>1
    <3> QED BY <1>0, <2>0, <2>2, <3>2 DEF PlacesInv, Apart, Pooled
  <2>3. CASE answered' \in {answered, answered \cup {c}} /\ UNCHANGED <<queued, executed>>
    BY <1>0, <2>0, <2>3 DEF PlacesInv, Apart, Pooled
  <2> QED BY <1>2, <2>1, <2>2, <2>3 DEF LetsGo
<1> QED BY <1>1, <1>2 DEF Goes

\* The other threads' fields stay in order.
LEMMA OthersKeepOrder ==
  ASSUME CallsInv, NEW t \in Threads, Others(t), ThreadOK(t)', calls' \in Nat, calls' >= calls
  PROVE  ThreadInv'
<1>1. \A d : Entered(d) => Entered(d)' BY DEF Entered, CallsInv, EntryTypes
<1> QED BY <1>1 DEF CallsInv, ThreadInv, ThreadOK, Others

\* Whatever a thread does, a call of the library is in one place, and a thread
\* that plays has the call it plays for and what it still has to do.
LEMMA AgentKeepsCalls ==
  ASSUME CallsInv, NEW t \in Threads, AgentStep(t)
  PROVE  CallsInv'
<1> USE AgentAssumption
<1>0. ThreadTypes /\ EntryTypes /\ ThreadOK(t) /\ PlacesInv /\ calls \in Nat
  BY DEF CallsInv, ThreadInv, EntryTypes
<1>n. Threads = Callers \cup Workers /\ NoCall.n = 0 BY DEF Threads, NoCall
<1>1. CASE Ask(t)
  <2>1. PICK c : Goes(t, c) /\ AskedAs(t, c) BY <1>1, AskGoes
  <2>2. calls' = calls + 1 /\ UNCHANGED <<effects, playing, left>> BY <1>1 DEF Ask
  <2>3. EntryTypes' BY <1>0, <2>2 DEF EntryTypes
  <2>4. Entered(c)' BY <1>0, <2>1, <2>2 DEF Entered, AskedAs
  <2>5. PlacesInv' BY <1>0, <2>1, <2>2, <2>4, ApartFacts, GoingKeepsPlaces DEF AskedAs
  <2>6. ThreadOK(t)'
    <3>1. pc'[t] # "idle" => call'[t] = c BY <2>1 DEF Goes, Stays, LetsGo
    <3>2. pc'[t] = "idle" => todo'[t] = <<>> BY <2>1 DEF Goes, Stays, LetsGo
    <3>3. t \notin Workers BY <2>1 DEF AskedAs
    <3> QED BY <2>1, <2>4, <3>1, <3>2, <3>3 DEF AskedAs, ThreadOK
  <2>7. ThreadInv' BY <1>0, <2>1, <2>2, <2>6, OthersKeepOrder DEF Goes
  <2> QED BY <2>1, <2>3, <2>5, <2>7 DEF CallsInv, Goes
<1>2. CASE SetOne(t)
  <2>0. PICK c : c = call[t] OBVIOUS
  <2>1. /\ Goes(t, c) /\ SetAs(t, c, Head(todo[t])) /\ t \in Callers
        /\ Head(todo[t]) \in Fields /\ todo[t] \in Remains \ {<<>>}
    BY <1>2, <2>0, SetGoes
  <2>2. pc[t] = "set" /\ UNCHANGED <<calls, playing>>
    BY <1>2, <2>1 DEF SetOne, Refuse
  <2>3. Entered(c) /\ Apart(c.n, t) BY <2>2, <2>0, ApartFacts
  <2>4. c.id \in Identifiers /\ c.n \in Nat BY <2>3 DEF Entered, Calls, Numbers
  <2>5. Entered(c)' BY <2>2, <2>3 DEF Entered
  <2>6. PlacesInv' BY <1>0, <2>1, <2>2, <2>3, <2>5, GoingKeepsPlaces
  <2>7. /\ ToSet(todo[t]) \subseteq ToSet(c.routine.sets)
        /\ todo[t] = c.routine.sets \/ Len(todo[t]) < Len(c.routine.sets)
        /\ ToSet(c.routine.sets) \subseteq Fields /\ Len(c.routine.sets) \in Nat
    <3>1. SetsBackAll(c.routine) BY <2>3, RoutineFacts DEF Entered, Calls
    <3> QED BY <1>0, <2>0, <2>2, <3>1, RemainsFacts DEF ThreadOK, SetsBackAll
  <2>8. EntryTypes'
    <3>1. effects' \in Entries BY <1>0, <2>1, <2>4, SetFacts DEF SetAs, EntryTypes, Entries
    <3>2. left' \in [Identifiers -> SUBSET Fields]
      <4> DEFINE set == ToSet(c.routine.sets)
      <4>1. \E what \in SUBSET Fields :
              left' \in {left, [left EXCEPT ![c.id] = @ \cup what]}
        <5>1. {set \ ToSet(todo[t]), (set \ ToSet(todo[t])) \cup {Head(todo[t])}}
                \subseteq SUBSET Fields
          BY <2>1, <2>7
        <5> QED BY <2>1, <5>1 DEF SetAs
      <4> QED BY <1>0, <2>4, <4>1 DEF EntryTypes
    <3> QED BY <1>0, <2>2, <3>1, <3>2 DEF EntryTypes, Entries
  <2>9. ThreadOK(t)'
    <3>1. pc'[t] # "idle" => call'[t] = c BY <2>1 DEF Goes, Stays, LetsGo
    <3>2. pc'[t] = "idle" => todo'[t] = <<>> BY <2>1 DEF Goes, Stays, LetsGo
    <3>3. t \notin Workers BY <2>1
    <3>4. CASE pc'[t] = "set"
      <4>1. todo'[t] = Tail(todo[t]) /\ Tail(todo[t]) # <<>> BY <2>1, <3>4 DEF SetAs
      <4>2. /\ ToSet(Tail(todo[t])) \subseteq ToSet(todo[t])
            /\ Len(todo[t]) \in Nat /\ Len(Tail(todo[t])) \in Nat
            /\ Len(todo[t]) = Len(Tail(todo[t])) + 1
        BY <2>1, RemainsFacts
      <4> QED BY <2>5, <2>7, <3>1, <3>3, <3>4, <4>1, <4>2 DEF ThreadOK
    <3>5. CASE pc'[t] # "set"
      BY <2>1, <2>5, <3>1, <3>2, <3>3, <3>5 DEF SetAs, ThreadOK
    <3> QED BY <3>4, <3>5
  <2>10. ThreadInv' BY <1>0, <2>1, <2>2, <2>9, OthersKeepOrder DEF Goes
  <2> QED BY <2>1, <2>6, <2>8, <2>10 DEF CallsInv, Goes
<1>3. CASE ReadEntry(t)
  <2>0. PICK c : c = call[t] OBVIOUS
  <2>1. Goes(t, c) /\ pc'[t] = "call" /\ todo'[t] = <<>> BY <1>3, <2>0, ReadGoes
  <2>2. pc[t] = "read" /\ UNCHANGED <<calls, playing, effects, left>> BY <1>3 DEF ReadEntry
  <2>3. Entered(c) /\ Apart(c.n, t) BY <2>2, <2>0, ApartFacts
  <2>4. Entered(c)' BY <2>2, <2>3 DEF Entered
  <2>5. PlacesInv' BY <1>0, <2>1, <2>2, <2>3, <2>4, GoingKeepsPlaces
  <2>6. call'[t] = c BY <2>1 DEF Goes, Stays, LetsGo
  <2>7. ThreadOK(t)' BY <2>0, <1>0, <2>1, <2>2, <2>4, <2>6 DEF ThreadOK
  <2>8. ThreadInv' BY <1>0, <2>1, <2>2, <2>7, OthersKeepOrder DEF Goes
  <2>9. EntryTypes' BY <1>0, <2>2 DEF EntryTypes
  <2> QED BY <2>1, <2>5, <2>8, <2>9 DEF CallsInv, Goes
<1>4. CASE CallService(t)
  <2>0. PICK c : c = call[t] OBVIOUS
  <2>1. pc[t] = "call" /\ Goes(t, c) /\ PlayedAs(t, c) /\ SetsBackAll(c.routine)
    BY <1>4, <2>0, CallGoes
  <2>2. UNCHANGED <<calls, effects>> BY <1>4 DEF CallService
  <2>3. Entered(c) /\ Apart(c.n, t) BY <2>1, <2>0, ApartFacts
  <2>4. Entered(c)' BY <2>2, <2>3 DEF Entered
  <2>5. PlacesInv' BY <1>0, <2>1, <2>2, <2>3, <2>4, GoingKeepsPlaces
  <2>6. c.id \in Identifiers /\ c.n \in Nat BY <2>3 DEF Entered, Calls, Numbers
  <2>7. ToSet(c.routine.sets) \subseteq Fields BY <2>1, RemainsFacts DEF SetsBackAll
  <2>8. EntryTypes' BY <1>0, <2>1, <2>2, <2>6, <2>7 DEF EntryTypes, PlayedAs
  <2>9. pc'[t] # "idle" => call'[t] = c BY <2>1 DEF Goes, Stays, LetsGo
  <2>10. pc'[t] = "idle" => todo'[t] = <<>> BY <2>1 DEF Goes, Stays, LetsGo
  <2>11. ThreadOK(t)'
    BY <2>0, <1>0, <2>1, <2>4, <2>9, <2>10 DEF ThreadOK, PlayedAs, SetsBackAll
  <2>12. ThreadInv' BY <1>0, <2>1, <2>2, <2>11, OthersKeepOrder DEF Goes
  <2> QED BY <2>1, <2>5, <2>8, <2>12 DEF CallsInv, Goes
<1>5. CASE ResetOne(t)
  <2>0. PICK c : c = call[t] OBVIOUS
  <2>1. Goes(t, c) /\ ResetAs(t) /\ Head(todo[t]) \in Fields BY <1>5, <2>0, ResetGoes
  <2>2. /\ pc[t] = "reset" /\ UNCHANGED <<calls, playing>>
        /\ effects' = SetBack(t, c, Head(todo[t]))
        /\ left' = [left EXCEPT ![c.id] = @ \ {Head(todo[t])}]
    BY <1>5, <2>0 DEF ResetOne
  <2>3. Entered(c) /\ Apart(c.n, t) BY <2>2, <2>0, ApartFacts
  <2>4. Entered(c)' BY <2>2, <2>3 DEF Entered
  <2>5. PlacesInv' BY <1>0, <2>1, <2>2, <2>3, <2>4, GoingKeepsPlaces
  <2>6. c.id \in Identifiers /\ c.n \in Nat BY <2>3 DEF Entered, Calls, Numbers
  <2>7. effects' \in Entries BY <1>0, <2>1, <2>2, <2>6, SetFacts
  <2>8. EntryTypes' BY <1>0, <2>2, <2>7 DEF EntryTypes, Entries
  <2>9. pc'[t] # "idle" => call'[t] = c BY <2>1 DEF Goes, Stays, LetsGo
  <2>10. pc'[t] = "idle" => todo'[t] = <<>> BY <2>1 DEF Goes, Stays, LetsGo
  <2>11. ThreadOK(t)' BY <2>0, <1>0, <2>1, <2>2, <2>4, <2>9, <2>10 DEF ThreadOK, ResetAs
  <2>12. ThreadInv' BY <1>0, <2>1, <2>2, <2>11, OthersKeepOrder DEF Goes
  <2> QED BY <2>1, <2>5, <2>8, <2>12 DEF CallsInv, Goes
<1>6. CASE ExecuteCallBack(t)
  <2>1. PICK c \in queued :
          queued' = queued \ {c} /\ call' = [call EXCEPT ![t] = c]
    BY <1>6 DEF ExecuteCallBack
  <2>2. /\ t \in Workers /\ pc[t] = "idle" /\ pc' = [pc EXCEPT ![t] = "read"]
        /\ UNCHANGED <<todo, arg, code, executed, answered, effects, playing, calls, left>>
    BY <1>6 DEF ExecuteCallBack, Becomes
  <2>3. ThreadTypes' BY <1>0, <2>1, <2>2 DEF ThreadTypes
  <2>4. EntryTypes' BY <1>0, <2>2 DEF EntryTypes
  <2>5. Others(t) /\ pc'[t] = "read" /\ call'[t] = c /\ todo'[t] = todo[t]
    BY <1>0, <2>1, <2>2 DEF ThreadTypes, Others
  <2>6. Pooled(c) BY <1>0, <2>1 DEF PlacesInv
  <2>7. Entered(c)' BY <2>2, <2>6 DEF Entered, Pooled
  <2>8. ThreadOK(t)' BY <1>0, <2>2, <2>5, <2>6, <2>7 DEF ThreadOK, Pooled
  <2>9. ThreadInv' BY <1>0, <2>2, <2>5, <2>8, OthersKeepOrder
  <2>10. PlacesInv'
    <3>1. \A d : Entered(d) => Entered(d)' BY <2>2 DEF Entered
    <3> QED BY <1>0, <2>1, <2>2, <2>5, <3>1 DEF PlacesInv, Others, Pooled
  <2> QED BY <2>3, <2>4, <2>9, <2>10 DEF CallsInv
<1>7. CASE CompleteCallback(t)
  <2>1. PICK x \in executed :
          executed' = executed \ {x} /\ answered' \in {answered, answered \cup {x.call}}
    BY <1>7 DEF CompleteCallback
  <2>2. UNCHANGED <<effects, pc, todo, call, arg, code, queued, playing, calls, left>>
    BY <1>7 DEF CompleteCallback
  <2>3. PlacesInv' BY <1>0, <2>1, <2>2 DEF PlacesInv, Entered, Pooled
  <2> QED BY <2>2, <2>3 DEF CallsInv, ThreadTypes, EntryTypes, ThreadInv, ThreadOK, Entered
<1>8. CASE \E id \in Identifiers : Stop(t, id)
  <2>1. UNCHANGED <<effects, pc, todo, call, arg, code, queued, executed, calls, left,
                    answered>>
    BY <1>8 DEF Stop
  <2>2. playing' \in [Identifiers -> Nat] BY <1>0, <1>8 DEF Stop, EntryTypes
  <2> QED BY <2>1, <2>2
        DEF CallsInv, ThreadTypes, EntryTypes, ThreadInv, ThreadOK, Entered, PlacesInv, Pooled
<1> QED BY <1>1, <1>2, <1>3, <1>4, <1>5, <1>6, <1>7, <1>8 DEF AgentStep

\* So it does when the entries of a vibrator that is gone are erased.
LEMMA EraseKeepsCalls ==
  ASSUME CallsInv, NEW ids, EraseEntries(ids)
  PROVE  CallsInv'
<1>1. /\ UNCHANGED <<pc, todo, call, arg, code, queued, executed, playing, calls, answered>>
  BY DEF EraseEntries
<1>2. VibratorEffectParameter \in [DOMAIN VibratorEffectParameter -> Nat]
  BY DEF VibratorEffectParameter
<1>3. EntryTypes' BY <1>1, <1>2 DEF CallsInv, EntryTypes, EraseEntries
<1> QED BY <1>1, <1>3
      DEF CallsInv, ThreadTypes, ThreadInv, ThreadOK, Entered, PlacesInv, Pooled

-------------------------------------------------------------------------------
(* What a stop may end. *)

\* A call that goes may be played as it goes, for its own vibrator.
LEMMA GoingKeepsStops ==
  ASSUME CallsInv, StopInv, NEW t \in Threads, NEW c, Goes(t, c), Apart(c.n, t),
         c.id \in Identifiers, c.n \in Nat \ {0}, calls' \in Nat, c.n <= calls',
         calls' >= calls, halted' = halted,
         playing' \in {playing, [playing EXCEPT ![c.id] = c.n]},
         \A id \in Identifiers : playing[id] = c.n => c.id = id
  PROVE  StopInv'
<1>0. calls \in Nat /\ playing \in [Identifiers -> Nat] BY DEF CallsInv, EntryTypes
<1>1. \A id \in Identifiers :
        playing'[id] = playing[id] \/ (id = c.id /\ playing'[id] = c.n)
  BY <1>0
<1>2. \A id \in Identifiers : playing'[id] = c.n => c.id = id BY <1>1
<1>3. \A id \in Identifiers : playing'[id] <= calls' BY <1>0, <1>1 DEF StopInv
<1>4. /\ answered \subseteq answered' /\ answered' \subseteq answered \cup {c}
      /\ queued' \subseteq queued \cup {c}
      /\ \A x \in executed' : x \in executed \/ x.call = c
  BY DEF Goes, Stays, LetsGo
<1>5. halted' \subseteq {a.n : a \in answered'} BY <1>4 DEF StopInv
<1>6. \A id \in Identifiers : \A a \in answered' : playing'[id] = a.n => a.id = id
  BY <1>1, <1>2, <1>4 DEF StopInv, Apart
<1>7. \A id \in Identifiers : \A x \in executed' : playing'[id] = x.call.n => x.call.id = id
  BY <1>1, <1>2, <1>4 DEF StopInv, Apart
<1>8. \A id \in Identifiers : \A d \in queued' : playing'[id] = d.n => d.id = id
  BY <1>1, <1>2, <1>4 DEF StopInv, Apart
<1>9. \A u \in Threads : pc'[u] # "idle" =>
        call'[u] = c \/ (u # t /\ pc[u] # "idle" /\ call'[u] = call[u])
  BY DEF Goes, Others, Stays, LetsGo
<1>10. \A id \in Identifiers : \A u \in Threads :
         pc'[u] # "idle" /\ playing'[id] = call'[u].n => call'[u].id = id
  BY <1>1, <1>2, <1>9 DEF StopInv, Apart
<1>11. StopIsFinal'
  <2>1. c.n \notin halted BY DEF StopInv, Apart
  <2> QED BY <1>1, <2>1 DEF StopInv, StopIsFinal
<1> QED BY <1>3, <1>5, <1>6, <1>7, <1>8, <1>10, <1>11 DEF StopInv

\* A stop halts the calls that are answered, and only a call that is not yet
\* answered can make a vibrator play.
LEMMA AgentKeepsStops ==
  ASSUME CallsInv, StopInv, NEW t \in Threads, AgentStep(t)
  PROVE  StopInv'
<1>0. /\ EntryTypes /\ ThreadOK(t) /\ PlacesInv /\ calls \in Nat
      /\ playing \in [Identifiers -> Nat]
  BY DEF CallsInv, EntryTypes, ThreadInv
<1>p. pc[t] # "idle" => /\ \A id \in Identifiers : playing[id] = call[t].n => call[t].id = id
                        /\ Apart(call[t].n, t) /\ call[t].id \in Identifiers
                        /\ call[t].n \in Nat \ {0} /\ call[t].n <= calls
  BY <1>0, ApartFacts DEF StopInv, Entered, Calls
<1>1. CASE Ask(t)
  <2>1. PICK c : Goes(t, c) /\ AskedAs(t, c) BY <1>1, AskGoes
  <2>2. calls' = calls + 1 /\ UNCHANGED <<playing, halted>> BY <1>1 DEF Ask
  <2>3. Apart(c.n, t) /\ c.n = calls + 1 /\ c.id \in Identifiers
    BY <2>1, ApartFacts DEF AskedAs, Calls
  <2>4. \A id \in Identifiers : playing[id] # c.n BY <1>0, <2>3 DEF StopInv
  <2> QED BY <1>0, <2>1, <2>2, <2>3, <2>4, GoingKeepsStops
<1>2. CASE SetOne(t) \/ ReadEntry(t) \/ ResetOne(t)
  <2>1. pc[t] # "idle" /\ Goes(t, call[t])
    BY <1>2, SetGoes, ReadGoes, ResetGoes DEF SetOne, ReadEntry, ResetOne
  <2>2. UNCHANGED <<calls, playing, halted>>
    BY <1>2 DEF SetOne, Refuse, ReadEntry, ResetOne
  <2> QED BY <1>0, <1>p, <2>1, <2>2, GoingKeepsStops
<1>3. CASE CallService(t)
  <2>1. pc[t] # "idle" /\ Goes(t, call[t]) /\ PlayedAs(t, call[t]) BY <1>3, CallGoes
  <2>2. UNCHANGED <<calls, halted>> BY <1>3 DEF CallService
  <2> QED BY <1>0, <1>p, <2>1, <2>2, GoingKeepsStops DEF PlayedAs
<1>4. CASE ExecuteCallBack(t)
  <2>1. PICK c \in queued :
          queued' = queued \ {c} /\ call' = [call EXCEPT ![t] = c]
    BY <1>4 DEF ExecuteCallBack
  <2>2. /\ pc' = [pc EXCEPT ![t] = "read"]
        /\ UNCHANGED <<executed, answered, playing, calls, halted>>
    BY <1>4 DEF ExecuteCallBack, Becomes
  <2>3. \A u \in Threads : pc'[u] # "idle" =>
          call'[u] = c \/ (pc[u] # "idle" /\ call'[u] = call[u])
    BY <2>1, <2>2 DEF CallsInv, ThreadTypes
  <2> QED BY <2>1, <2>2, <2>3 DEF StopInv, StopIsFinal
<1>5. CASE CompleteCallback(t)
  <2>1. PICK x \in executed :
          executed' = executed \ {x} /\ answered' \in {answered, answered \cup {x.call}}
    BY <1>5 DEF CompleteCallback
  <2>2. UNCHANGED <<pc, call, queued, playing, calls, halted>>
    BY <1>5 DEF CompleteCallback
  <2> QED BY <2>1, <2>2 DEF StopInv, StopIsFinal
<1>6. ASSUME NEW id \in Identifiers, Stop(t, id)
      PROVE  StopInv'
  <2>1. /\ UNCHANGED <<pc, call, queued, executed, calls, answered>>
        /\ playing' = [playing EXCEPT ![id] = 0]
        /\ halted' = halted \cup {c.n : c \in {a \in answered : a.by = t /\ a.id = id}}
    BY <1>6 DEF Stop
  <2>2. \A other \in Identifiers :
          playing'[other] = IF other = id THEN 0 ELSE playing[other]
    BY <1>0, <2>1
  <2>3. /\ \A c \in queued : c.n # 0 /\ \A a \in answered : a.n # 0
        /\ \A x \in executed : x.call.n # 0
    BY <1>0 DEF PlacesInv, Pooled, Entered
  <2>4. \A a \in answered : a.n # 0 BY <1>0 DEF PlacesInv, Entered
  <2>5. \A u \in Threads : pc[u] # "idle" => call[u].n # 0
    BY DEF CallsInv, ThreadInv, ThreadOK, Entered
  <2>6. \A n \in halted' : n \in halted \/ \E a \in answered : a.id = id /\ n = a.n
    BY <2>1
  <2>7. halted' \subseteq {a.n : a \in answered'} BY <2>1, <2>6 DEF StopInv
  <2>8. StopIsFinal'
    <3>1. 0 \notin halted' BY <2>1, <2>4, <2>7
    <3>2. ASSUME NEW other \in Identifiers \ {id} PROVE playing[other] \notin halted'
      BY <2>6 DEF StopInv, StopIsFinal
    <3> QED BY <2>2, <3>1, <3>2 DEF StopIsFinal
  <2>9. \A other \in Identifiers : playing'[other] <= calls'
    BY <1>0, <2>1, <2>2 DEF StopInv
  <2> QED BY <2>1, <2>2, <2>3, <2>4, <2>5, <2>7, <2>8, <2>9 DEF StopInv
<1> QED BY <1>1, <1>2, <1>3, <1>4, <1>5, <1>6 DEF AgentStep

-------------------------------------------------------------------------------
(* Who keeps a promise open. *)

\* A promise is opened when a call is handed to the pool or answered on the
\* thread that asked for it, moves with the call, and is kept when the script's
\* thread takes the answer: NormalizeErrCode leaves no code without a message.
LEMMA AgentKeepsPromises ==
  ASSUME CallsInv, PromisesAreKept, NEW t \in Threads, AgentStep(t)
  PROVE  PromisesAreKept'
<1> USE AgentAssumption
<1>0. ThreadTypes /\ ThreadOK(t) /\ PlacesInv /\ Workers \subseteq Threads
  BY DEF CallsInv, ThreadInv, Threads
<1> DEFINE atWork == {v \in Workers : pc[v] # "idle"}
<1>x. ASSUME NEW c, NEW result,
             executed' = executed \cup {[call |-> c, result |-> result]}
      PROVE  \A n : (\E x \in executed' : x.call.n = n) <=>
                    (\E x \in executed : x.call.n = n) \/ c.n = n
  <2> DEFINE new == [call |-> c, result |-> result]
  <2>1. new.call = c OBVIOUS
  <2>2. executed' = executed \cup {new} BY <1>x
  <2> HIDE DEF new
  <2>3. new \in executed' /\ \A x \in executed' : x \in executed \/ x = new BY <2>2
  <2>4. executed \subseteq executed' BY <2>2
  <2>5. ASSUME NEW n, NEW x \in executed', x.call.n = n
        PROVE  (\E y \in executed : y.call.n = n) \/ c.n = n
    BY <2>1, <2>3, <2>5
  <2>6. ASSUME NEW n, (\E y \in executed : y.call.n = n) \/ c.n = n
        PROVE  \E x \in executed' : x.call.n = n
    BY <2>1, <2>3, <2>4, <2>6
  <2> QED BY <2>5, <2>6
<1>g. ASSUME NEW c, Goes(t, c), t \in Workers => pc[t] # "idle" /\ call[t].n = c.n
      PROVE  PromisesAreKept'
  <2>1. \A u \in Workers \ {t} : pc'[u] = pc[u] /\ call'[u] = call[u]
    BY <1>0, <1>g DEF Goes, Others
  <2>2. CASE Stays(t, c)
    <3>1. {call'[w].n : w \in {v \in Workers : pc'[v] # "idle"}} = {call[w].n : w \in atWork}
      BY <2>1, <2>2, <1>g DEF Stays
    <3> QED BY <2>2, <3>1 DEF PromisesAreKept, Stays
  <2>3. CASE LetsGo(t, c) /\ t \notin Workers
    <3>1. {call'[w].n : w \in {v \in Workers : pc'[v] # "idle"}} = {call[w].n : w \in atWork}
      BY <2>1, <2>3
    <3>2. \A n : n \in promises <=>
            \/ \E d \in queued : d.n = n
            \/ \E x \in executed : x.call.n = n
            \/ n \in {call[w].n : w \in atWork}
      BY DEF PromisesAreKept
    <3>3. \A n : n \in promises' <=>
            \/ \E d \in queued' : d.n = n
            \/ \E x \in executed' : x.call.n = n
            \/ n \in {call[w].n : w \in atWork}
      <4>1. CASE UNCHANGED <<queued, executed, promises>> BY <3>2, <4>1
      <4>2. CASE queued' = queued \cup {c} /\ promises' = promises \cup {c.n}
                   /\ UNCHANGED executed
        BY <3>2, <4>2
      <4>3. CASE \E result \in Results :
                   /\ executed' = executed \cup {[call |-> c, result |-> result]}
                   /\ promises' = promises \cup {c.n} /\ UNCHANGED queued
        <5>1. PICK result \in Results :
                executed' = executed \cup {[call |-> c, result |-> result]}
          BY <4>3
        <5>2. \A n : (\E x \in executed' : x.call.n = n) <=>
                     (\E x \in executed : x.call.n = n) \/ c.n = n
          BY <5>1, <1>x
        <5> QED BY <3>2, <4>3, <5>2
      <4> QED BY <2>3, <4>1, <4>2, <4>3 DEF LetsGo
    <3> QED BY <3>1, <3>3 DEF PromisesAreKept
  <2>4. CASE LetsGo(t, c) /\ t \in Workers
    <3>1. PICK result \in Results :
            /\ executed' = executed \cup {[call |-> c, result |-> result]}
            /\ promises' = promises \cup {c.n} /\ UNCHANGED queued
      BY <2>4 DEF LetsGo
    <3>2. \A n : n \in promises <=>
            \/ \E d \in queued : d.n = n
            \/ \E x \in executed : x.call.n = n
            \/ \E w \in Workers : pc[w] # "idle" /\ call[w].n = n
      BY DEF PromisesAreKept
    <3>3. pc'[t] = "idle" BY <2>4 DEF LetsGo
    <3>4. \A n : n \in promises' <=>
            \/ \E d \in queued' : d.n = n
            \/ \E x \in executed' : x.call.n = n
            \/ \E w \in Workers : pc'[w] # "idle" /\ call'[w].n = n
      <4>1. \A n : (\E x \in executed' : x.call.n = n) <=>
                   (\E x \in executed : x.call.n = n) \/ c.n = n
        BY <3>1, <1>x
      <4>2. \A n : (\E w \in Workers : pc[w] # "idle" /\ call[w].n = n) <=>
                   (\E w \in Workers : pc'[w] # "idle" /\ call'[w].n = n) \/ c.n = n
        BY <2>1, <2>4, <3>3, <1>g
      <4> QED BY <3>1, <3>2, <4>1, <4>2
    <3> QED BY <3>4 DEF PromisesAreKept
  <2> QED BY <1>g, <2>2, <2>3, <2>4 DEF Goes
<1>1. CASE Ask(t)
  <2>1. PICK c : Goes(t, c) /\ AskedAs(t, c) BY <1>1, AskGoes
  <2>2. t \notin Workers BY <2>1 DEF AskedAs
  <2> QED BY <1>g, <2>1, <2>2
<1>2. CASE SetOne(t) \/ ReadEntry(t) \/ CallService(t) \/ ResetOne(t)
  <2>1. pc[t] # "idle" /\ Goes(t, call[t])
    BY <1>2, SetGoes, ReadGoes, CallGoes, ResetGoes DEF SetOne, ReadEntry, ResetOne
  <2> QED BY <1>g, <2>1
<1>3. CASE ExecuteCallBack(t)
  <2>1. PICK c \in queued :
          queued' = queued \ {c} /\ call' = [call EXCEPT ![t] = c]
    BY <1>3 DEF ExecuteCallBack
  <2>2. /\ pc' = [pc EXCEPT ![t] = "read"] /\ pc[t] = "idle" /\ t \in Workers
        /\ UNCHANGED <<executed, promises>>
    BY <1>3 DEF ExecuteCallBack, Becomes
  <2>3. \A u \in Threads : /\ pc'[u] = IF u = t THEN "read" ELSE pc[u]
                           /\ call'[u] = IF u = t THEN c ELSE call[u]
    BY <1>0, <2>1, <2>2 DEF ThreadTypes
  <2>4. \A n : n \in promises <=>
          \/ \E d \in queued : d.n = n
          \/ \E x \in executed : x.call.n = n
          \/ \E w \in Workers : pc[w] # "idle" /\ call[w].n = n
    BY DEF PromisesAreKept
  <2>5. \A n : n \in promises' <=>
          \/ \E d \in queued' : d.n = n
          \/ \E x \in executed' : x.call.n = n
          \/ \E w \in Workers : pc'[w] # "idle" /\ call'[w].n = n
    BY <1>0, <2>1, <2>2, <2>3, <2>4
  <2> QED BY <2>5 DEF PromisesAreKept
<1>4. CASE CompleteCallback(t)
  <2>1. PICK x \in executed :
          /\ executed' = executed \ {x}
          /\ IF x.result \in ERROR_MESSAGES \cup {"SUCCESS"}
               THEN /\ promises' = promises \ {x.call.n}
                    /\ answered' = answered \cup {x.call}
               ELSE UNCHANGED <<promises, answered>>
    BY <1>4 DEF CompleteCallback
  <2>2. UNCHANGED <<pc, call, queued>> BY <1>4 DEF CompleteCallback
  <2>3. x.result \in ERROR_MESSAGES \cup {"SUCCESS"}
    BY <1>0 DEF PlacesInv, Results, ERROR_MESSAGES
  <2>4. \A n : n \in promises <=>
          \/ \E d \in queued : d.n = n
          \/ \E y \in executed : y.call.n = n
          \/ \E w \in Workers : pc[w] # "idle" /\ call[w].n = n
    BY DEF PromisesAreKept
  <2>5. /\ \A d \in queued : d.n # x.call.n
        /\ \A y \in executed \ {x} : y.call.n # x.call.n
        /\ \A w \in Workers : pc[w] # "idle" => call[w].n # x.call.n
    BY <1>0 DEF PlacesInv
  <2>6. \A n : n \in promises' <=>
          \/ \E d \in queued' : d.n = n
          \/ \E y \in executed' : y.call.n = n
          \/ \E w \in Workers : pc'[w] # "idle" /\ call'[w].n = n
    BY <2>1, <2>2, <2>3, <2>4, <2>5
  <2> QED BY <2>6 DEF PromisesAreKept
<1>5. CASE \E id \in Identifiers : Stop(t, id)
  BY <1>5 DEF Stop, PromisesAreKept
<1> QED BY <1>1, <1>2, <1>3, <1>4, <1>5 DEF AgentStep

-------------------------------------------------------------------------------
(* Whose value an entry holds. *)

\* The calls that are exposed are the ones of which an entry may hold a value.
LEMMA ExposedFacts ==
  ASSUME CallsInv, NEW id
  PROVE  /\ \A c \in queued : c.id = id => c \in Exposed(id)
         /\ \A u \in Threads : call[u].id = id =>
              /\ pc[u] = "read" /\ ToSet(call[u].routine.sets) # {} => call[u] \in Exposed(id)
              /\ pc[u] = "set" /\ ToSet(call[u].routine.sets) \ ToSet(todo[u]) # {}
                   => call[u] \in Exposed(id)
<1>1. \A c \in queued : c.id = id => c \in Exposed(id) BY DEF Exposed
<1>2. ASSUME NEW u \in Threads, pc[u] \in {"set", "read"}, call[u].id = id,
             Len(todo[u]) < Len(call[u].routine.sets)
      PROVE  call[u] \in Exposed(id)
  BY <1>2 DEF Exposed
<1>3. ASSUME NEW u \in Threads, pc[u] = "read", ToSet(call[u].routine.sets) # {}
      PROVE  Len(todo[u]) < Len(call[u].routine.sets)
  <2> DEFINE sets == call[u].routine.sets
  <2>1. todo[u] = <<>> /\ Entered(call[u]) BY <1>3 DEF CallsInv, ThreadInv, ThreadOK
  <2>2. sets \in Remains BY <2>1, RoutineFacts DEF Entered, Calls, SetsBackAll
  <2>3. sets # <<>> BY <1>3, <2>2, RemainsFacts
  <2> HIDE DEF sets
  <2>4. Tail(sets) \in Remains /\ Len(sets) = Len(Tail(sets)) + 1 BY <2>2, <2>3, RemainsFacts
  <2>5. Len(Tail(sets)) \in Nat /\ Len(<<>>) = 0 BY <2>4, RemainsFacts
  <2>6. Len(todo[u]) < Len(sets) BY <2>1, <2>4, <2>5
  <2> QED BY <2>6 DEF sets
<1>4. ASSUME NEW u \in Threads, pc[u] = "set",
             ToSet(call[u].routine.sets) \ ToSet(todo[u]) # {}
      PROVE  Len(todo[u]) < Len(call[u].routine.sets)
  <2>1. todo[u] # call[u].routine.sets BY <1>4
  <2> QED BY <1>4, <2>1 DEF CallsInv, ThreadInv, ThreadOK
<1> QED BY <1>1, <1>2, <1>3, <1>4

\* A call has fields to set of an entry, and they are fields.
LEMMA SetsAreFields ==
  ASSUME NEW c, Entered(c)
  PROVE  ToSet(c.routine.sets) \subseteq Fields /\ c.id \in Identifiers /\ c.n \in Nat
<1>1. c.routine.sets \in Remains BY RoutineFacts DEF Entered, Calls, SetsBackAll
<1>2. ToSet(c.routine.sets) \subseteq Fields BY <1>1, RemainsFacts
<1>3. c.id \in Identifiers BY DEF Entered, Calls
<1>4. c.n \in Nat BY DEF Entered
<1> QED BY <1>2, <1>3, <1>4

\* Thread t changes the entry of id, and disturbs the calls that are exposed.
LEMMA OthersKeepValues ==
  ASSUME CallsInv, OwnValues, NEW t, Others(t), NEW id, NEW n, disturbed \subseteq disturbed',
         \A c \in Exposed(id) : c.n \in disturbed' \/ c.n = n,
         \A other \in Identifiers, what \in Fields :
           other # id => effects'[other][FieldOf(what)] = effects[other][FieldOf(what)]
  PROVE  /\ \A u \in Threads \ {t} : (pc[u] # "idle" => call[u].n # n) => OwnOK(u)'
         /\ \A c \in queued : c.n # n => QueuedOK(c)'
<1>1. ASSUME NEW u \in Threads \ {t}, pc[u] # "idle" => call[u].n # n
      PROVE  OwnOK(u)'
  <2>1. pc'[u] = pc[u] /\ call'[u] = call[u] /\ todo'[u] = todo[u] /\ arg'[u] = arg[u]
    BY DEF Others
  <2>2. OwnOK(u) /\ (call[u].n \in disturbed => call[u].n \in disturbed') BY DEF OwnValues
  <2>3. pc[u] # "idle" => Entered(call[u]) BY DEF CallsInv, ThreadInv, ThreadOK
  <2> SUFFICES ASSUME call[u].n \notin disturbed', pc[u] # "idle" PROVE OwnOK(u)'
    BY <2>1 DEF OwnOK
  <2>4. ToSet(call[u].routine.sets) \subseteq Fields /\ call[u].id \in Identifiers
    BY <2>3, SetsAreFields
  <2>5. call[u].id # id => \A what \in Fields :
          effects'[call[u].id][FieldOf(what)] = effects[call[u].id][FieldOf(what)]
    BY <2>4
  <2>6. call[u] \notin Exposed(id) BY <1>1
  <2>7. CASE pc[u] = "set"
    <3>1. call[u].id = id => ToSet(call[u].routine.sets) \ ToSet(todo[u]) = {}
      BY <2>6, <2>7, ExposedFacts
    <3> QED BY <2>1, <2>2, <2>4, <2>5, <2>7, <3>1 DEF OwnOK
  <2>8. CASE pc[u] = "read"
    <3>1. call[u].id = id => ToSet(call[u].routine.sets) = {}
      BY <2>6, <2>8, ExposedFacts
    <3> QED BY <2>1, <2>2, <2>4, <2>5, <2>8, <3>1 DEF OwnOK
  <2>9. CASE pc[u] \notin {"set", "read"}
    BY <2>1, <2>2, <2>9 DEF OwnOK
  <2> QED BY <2>7, <2>8, <2>9
<1>2. ASSUME NEW c \in queued, c.n # n
      PROVE  QueuedOK(c)'
  <2> SUFFICES ASSUME c.n \notin disturbed', NEW what \in ToSet(c.routine.sets)
               PROVE  effects'[c.id][FieldOf(what)] = c.n
    BY DEF QueuedOK
  <2>1. Entered(c) BY DEF CallsInv, PlacesInv, Pooled
  <2>2. what \in Fields /\ c.id \in Identifiers BY <2>1, SetsAreFields
  <2>3. c.id # id BY <1>2, ExposedFacts
  <2>4. QueuedOK(c) BY DEF OwnValues
  <2> QED BY <2>2, <2>3, <2>4 DEF QueuedOK
<1> QED BY <1>1, <1>2

\* The entry of a vibrator holds what a call has set there until the call has
\* read it, or the call is disturbed.
LEMMA AgentKeepsValues ==
  ASSUME CallsInv, OwnValues, NEW t \in Threads, AgentStep(t)
  PROVE  OwnValues'
<1>0. ThreadTypes /\ EntryTypes /\ ThreadOK(t) /\ OwnOK(t)
  BY DEF CallsInv, ThreadInv, OwnValues
<1>p. pc[t] # "idle" => Apart(call[t].n, t) /\ Entered(call[t]) BY ApartFacts
<1>e. \A id : \A d \in Exposed(id) : d.n \in Nat
  <2>1. \A d \in queued : Entered(d) BY DEF CallsInv, PlacesInv, Pooled
  <2>2. \A u \in Threads : pc[u] # "idle" => Entered(call[u])
    BY DEF CallsInv, ThreadInv, ThreadOK
  <2>3. \A d : Entered(d) => d.n \in Nat BY DEF Entered
  <2> QED BY <2>1, <2>2, <2>3 DEF Exposed
\* Nothing changes in the entries.
<1>s. ASSUME Others(t), UNCHANGED <<effects, disturbed>>, OwnOK(t)',
             \A d \in queued' : d \in queued \/ QueuedOK(d)'
      PROVE  OwnValues'
  BY <1>s DEF OwnValues, OwnOK, Others, QueuedOK
\* The entry of the call of t changes.
<1>d. ASSUME pc[t] # "idle", Others(t), Disturbs(t, call[t].id), OwnOK(t)',
             \A d \in queued' : d \in queued \/ QueuedOK(d)',
             \A id \in Identifiers, what \in Fields : id # call[t].id =>
               effects'[id][FieldOf(what)] = effects[id][FieldOf(what)]
      PROVE  OwnValues'
  <2>1. /\ disturbed \subseteq disturbed'
        /\ \A d \in Exposed(call[t].id) : d.n \in disturbed' \/ d.n = call[t].n
    BY <1>d DEF Disturbs
  <2>2. /\ \A u \in Threads \ {t} : (pc[u] # "idle" => call[u].n # call[t].n) => OwnOK(u)'
        /\ \A d \in queued : d.n # call[t].n => QueuedOK(d)'
    BY <1>d, <2>1, OthersKeepValues
  <2> QED BY <1>d, <1>p, <2>2 DEF OwnValues, Apart
<1>1. CASE Ask(t)
  <2>1. PICK c : Goes(t, c) /\ AskedAs(t, c) BY <1>1, AskGoes
  <2>2. UNCHANGED <<effects, disturbed>> BY <1>1 DEF Ask
  <2>3. pc'[t] # "idle" => call'[t] = c BY <2>1 DEF Goes, Stays, LetsGo
  <2>4. ToSet(<<>>) = {} BY RemainsFacts DEF Remains
  <2>5. OwnOK(t)' BY <2>1, <2>3, <2>4 DEF OwnOK, AskedAs
  <2>6. \A d \in queued' : d \in queued \/ d = c BY <2>1 DEF Goes, Stays, LetsGo
  <2>7. queued' # queued => QueuedOK(c)'
    <3>1. queued' # queued => c.routine.sets = <<>>
      BY <2>1 DEF Goes, Stays, LetsGo, AskedAs
    <3> QED BY <2>4, <3>1 DEF QueuedOK
  <2> QED BY <1>s, <2>1, <2>2, <2>5, <2>6, <2>7 DEF Goes
<1>2. CASE SetOne(t)
  <2>0. PICK c : c = call[t] OBVIOUS
  <2> DEFINE what == Head(todo[t])
  <2>1. /\ Goes(t, c) /\ SetAs(t, c, what) /\ what \in Fields /\ todo[t] \in Remains \ {<<>>}
    BY <1>2, <2>0, SetGoes
  <2>2. pc[t] = "set" BY <1>2 DEF SetOne
  <2>3. Entered(c) BY <1>p, <2>0, <2>2
  <2>4. ToSet(c.routine.sets) \subseteq Fields /\ c.id \in Identifiers /\ c.n \in Nat
    BY <2>3, SetsAreFields
  <2>5. /\ ToSet(todo[t]) = {what} \cup ToSet(Tail(todo[t])) /\ ToSet(<<>>) = {}
        /\ ToSet(todo[t]) \subseteq ToSet(c.routine.sets)
    BY <1>0, <2>0, <2>1, <2>2, RemainsFacts DEF ThreadOK
  <2>6. pc'[t] # "idle" => call'[t] = c BY <2>1 DEF Goes, Stays, LetsGo
  <2>7. \A d \in queued' : d \in queued \/ d = c BY <2>1 DEF Goes, Stays, LetsGo
  <2>8. CASE pc'[t] = "idle" /\ UNCHANGED <<effects, disturbed, queued>>
    <3>1. OwnOK(t)' BY <2>8 DEF OwnOK
    <3> QED BY <1>s, <2>1, <2>8, <3>1 DEF Goes
  <2>9. CASE effects' = Set(c, what) /\ Disturbs(t, c.id)
    <3>1. \A id \in Identifiers, w \in Fields :
            effects'[id][FieldOf(w)] =
              IF id = c.id /\ w = what THEN c.n ELSE effects[id][FieldOf(w)]
      BY <1>0, <2>1, <2>4, <2>9, SetFacts
    <3>2. disturbed \subseteq disturbed' BY <2>9 DEF Disturbs
    <3>3. c.n \notin disturbed' =>
            \A w \in (ToSet(c.routine.sets) \ ToSet(todo[t])) \cup {what} :
              effects'[c.id][FieldOf(w)] = c.n
      <4>1. c.n \notin disturbed' =>
              \A w \in ToSet(c.routine.sets) \ ToSet(todo[t]) :
                effects[c.id][FieldOf(w)] = c.n
        BY <1>0, <2>0, <2>2, <3>2 DEF OwnOK
      <4> QED BY <2>1, <2>4, <3>1, <4>1
    <3>4. ToSet(c.routine.sets) \ ToSet(Tail(todo[t]))
            \subseteq (ToSet(c.routine.sets) \ ToSet(todo[t])) \cup {what}
      BY <2>5
    <3>5. Tail(todo[t]) = <<>> => QueuedOK(c)' BY <2>5, <3>3, <3>4 DEF QueuedOK
    <3>6. OwnOK(t)'
      <4>1. CASE pc'[t] = "set"
        <5>1. todo'[t] = Tail(todo[t]) \/ Tail(todo[t]) = <<>> BY <2>1, <2>9, <4>1 DEF SetAs
        <5>2. pc'[t] = "set" => todo'[t] = Tail(todo[t])
          BY <2>1, <2>2, <4>1 DEF SetAs
        <5> QED BY <2>6, <3>3, <3>4, <4>1, <5>2 DEF OwnOK
      <4>2. CASE pc'[t] = "read"
        <5>1. Tail(todo[t]) = <<>> BY <2>1, <4>2 DEF SetAs
        <5> QED BY <2>6, <3>5, <4>2, <5>1 DEF OwnOK, QueuedOK
      <4>3. CASE pc'[t] \notin {"set", "read"}
        <5>1. pc'[t] = "idle" BY <2>1, <4>3 DEF SetAs
        <5> QED BY <5>1 DEF OwnOK
      <4> QED BY <4>1, <4>2, <4>3
    <3>7. queued' # queued => Tail(todo[t]) = <<>>
      BY <2>1 DEF SetAs, Goes, Stays, LetsGo
    <3>8. \A d \in queued' : d \in queued \/ QueuedOK(d)' BY <2>7, <3>5, <3>7
    <3> QED BY <1>d, <2>0, <2>1, <2>2, <2>9, <3>1, <3>6, <3>8 DEF Goes
  <2> QED BY <2>1, <2>8, <2>9 DEF SetAs
<1>3. CASE ReadEntry(t)
  <2>1. /\ Goes(t, call[t]) /\ pc'[t] = "call"
        /\ \A what \in Fields : arg'[t][FieldOf(what)] = effects[call[t].id][FieldOf(what)]
    BY <1>3, ReadGoes
  <2>2. pc[t] = "read" /\ UNCHANGED <<effects, disturbed, queued>> BY <1>3 DEF ReadEntry
  <2>3. call'[t] = call[t] BY <2>1 DEF Goes, Stays, LetsGo
  <2>4. ToSet(call[t].routine.sets) \subseteq Fields BY <1>p, <2>2, SetsAreFields
  <2>5. OwnOK(t)' BY <1>0, <2>1, <2>2, <2>3, <2>4 DEF OwnOK
  <2> QED BY <1>s, <2>1, <2>2, <2>5 DEF Goes
<1>4. CASE CallService(t)
  <2>1. Goes(t, call[t]) /\ PlayedAs(t, call[t]) BY <1>4, CallGoes
  <2>2. UNCHANGED <<effects, disturbed>> BY <1>4 DEF CallService
  <2>3. OwnOK(t)' BY <2>1 DEF OwnOK, PlayedAs
  <2> QED BY <1>s, <2>1, <2>2, <2>3 DEF Goes, PlayedAs
<1>5. CASE ResetOne(t)
  <2>1. Goes(t, call[t]) /\ ResetAs(t) /\ Head(todo[t]) \in Fields BY <1>5, ResetGoes
  <2>2. /\ pc[t] = "reset" /\ Disturbs(t, call[t].id)
        /\ effects' = SetBack(t, call[t], Head(todo[t]))
    BY <1>5 DEF ResetOne
  <2>3. call[t].id \in Identifiers /\ call[t].n \in Nat BY <1>p, <2>2, SetsAreFields
  <2>4. \A id \in Identifiers, w \in Fields :
          id # call[t].id => effects'[id][FieldOf(w)] = effects[id][FieldOf(w)]
    BY <1>0, <2>1, <2>2, <2>3, SetFacts
  <2>5. OwnOK(t)' BY <2>1 DEF OwnOK, ResetAs
  <2> QED BY <1>d, <2>1, <2>2, <2>4, <2>5 DEF Goes, ResetAs
<1>6. CASE ExecuteCallBack(t)
  <2>1. PICK c \in queued :
          queued' = queued \ {c} /\ call' = [call EXCEPT ![t] = c]
    BY <1>6 DEF ExecuteCallBack
  <2>2. /\ pc' = [pc EXCEPT ![t] = "read"] /\ UNCHANGED <<todo, arg, effects, disturbed>>
    BY <1>6 DEF ExecuteCallBack, Becomes
  <2>3. Others(t) /\ pc'[t] = "read" /\ call'[t] = c
    BY <1>0, <2>1, <2>2 DEF ThreadTypes, Others
  <2>4. QueuedOK(c) BY DEF OwnValues
  <2>5. OwnOK(t)' BY <2>2, <2>3, <2>4 DEF OwnOK, QueuedOK
  <2> QED BY <1>s, <2>1, <2>2, <2>3, <2>5
<1>7. CASE CompleteCallback(t) \/ \E id \in Identifiers : Stop(t, id)
  <2>1. UNCHANGED <<pc, call, todo, arg, effects, disturbed, queued>>
    BY <1>7 DEF CompleteCallback, Stop
  <2> QED BY <2>1 DEF OwnValues, OwnOK, QueuedOK
<1> QED BY <1>1, <1>2, <1>3, <1>4, <1>5, <1>6, <1>7 DEF AgentStep

\* A plug-out disturbs the calls that have set something for the vibrator.
LEMMA EraseKeepsValues ==
  ASSUME CallsInv, OwnValues, NEW ids \in SUBSET Identifiers, EraseEntries(ids)
  PROVE  OwnValues'
<1>1. /\ UNCHANGED <<pc, call, todo, arg, queued>>
      /\ \A id \in Identifiers \ ids : effects'[id] = effects[id]
      /\ disturbed \subseteq disturbed'
      /\ \A id \in ids : \A c \in Exposed(id) : c.n \in disturbed'
  BY DEF EraseEntries
<1>2. ASSUME NEW u \in Threads PROVE OwnOK(u)'
  <2>1. OwnOK(u) BY DEF OwnValues
  <2>2. pc[u] # "idle" => Entered(call[u]) BY DEF CallsInv, ThreadInv, ThreadOK
  <2>3. pc[u] # "idle" => call[u].id \in Identifiers BY <2>2, SetsAreFields
  <2>4. CASE call[u].id \in Identifiers \ ids
    BY <1>1, <2>1, <2>4 DEF OwnOK
  <2>5. CASE call[u].id \in ids
    <3>1. call[u] \in Exposed(call[u].id) => call[u].n \in disturbed' BY <1>1, <2>5
    <3>2. pc[u] = "set" /\ call[u].n \notin disturbed' =>
            ToSet(call[u].routine.sets) \ ToSet(todo[u]) = {}
      BY <3>1, ExposedFacts
    <3>3. pc[u] = "read" /\ call[u].n \notin disturbed' => ToSet(call[u].routine.sets) = {}
      BY <3>1, ExposedFacts
    <3> QED BY <1>1, <2>1, <3>2, <3>3 DEF OwnOK
  <2> QED BY <1>1, <2>3, <2>4, <2>5 DEF OwnOK
<1>3. ASSUME NEW c \in queued PROVE QueuedOK(c)'
  <2>1. QueuedOK(c) BY DEF OwnValues
  <2>2. c.id \in Identifiers
    BY SetsAreFields DEF CallsInv, PlacesInv, Pooled
  <2>3. c.id \in ids => c.n \in disturbed' BY <1>1, ExposedFacts
  <2> QED BY <1>1, <2>1, <2>2, <2>3 DEF QueuedOK
<1> QED BY <1>1, <1>2, <1>3 DEF OwnValues

-------------------------------------------------------------------------------
(* Who is to set a field back. *)

\* A field that was accounted for stays so when thread t and its call go on, if
\* t still answers for its own.
LEMMA GoingKeepsLeft ==
  ASSUME CallsInv, LeftOver, NEW t \in Threads, NEW c, Goes(t, c),
         \A id \in Identifiers, what \in Fields :
           \/ effects'[id][FieldOf(what)] = 0
           \/ what \in left'[id]
           \/ SetsBack(t, id, what)'
           \/ c \in queued' /\ c.id = id /\ what \in ToSet(c.routine.sets)
           \/ /\ ~SetsBack(t, id, what)
              /\ effects'[id][FieldOf(what)] = effects[id][FieldOf(what)]
              /\ what \in left[id] => what \in left'[id]
  PROVE  LeftOver'
<1>1. queued \subseteq queued' BY DEF Goes, Stays, LetsGo
<1>2. ASSUME NEW u \in Threads \ {t}, NEW id, NEW what
      PROVE  SetsBack(u, id, what)' <=> SetsBack(u, id, what)
  BY DEF Goes, Others, SetsBack
<1> QED BY <1>1, <1>2 DEF LeftOver

\* A field that is set has a call that is to set it back, or a refused call
\* left it: the functions that play set back what was set for them, and a call
\* that is refused is recorded with what it has set.
LEMMA AgentKeepsLeft ==
  ASSUME CallsInv, LeftOver, NEW t \in Threads, AgentStep(t)
  PROVE  LeftOver'
<1>0. ThreadTypes /\ EntryTypes /\ ThreadOK(t) BY DEF CallsInv, ThreadInv
<1>p. pc[t] # "idle" => Entered(call[t]) BY <1>0 DEF ThreadOK
<1>1. CASE Ask(t)
  <2>1. PICK c : Goes(t, c) /\ AskedAs(t, c) BY <1>1, AskGoes
  <2>2. UNCHANGED <<effects, left>> /\ pc[t] = "idle" BY <1>1 DEF Ask
  <2>3. \A id, what : ~SetsBack(t, id, what) BY <2>2 DEF SetsBack
  <2> QED BY <2>1, <2>2, <2>3, GoingKeepsLeft
<1>2. CASE SetOne(t)
  <2>0. PICK c : c = call[t] OBVIOUS
  <2> DEFINE first == Head(todo[t])
             done  == ToSet(c.routine.sets) \ ToSet(todo[t])
  <2>1. /\ Goes(t, c) /\ SetAs(t, c, first) /\ first \in Fields
        /\ todo[t] \in Remains \ {<<>>}
    BY <1>2, <2>0, SetGoes
  <2>2. pc[t] = "set" BY <1>2 DEF SetOne
  <2>3. Entered(c) BY <1>p, <2>0, <2>2
  <2>4. ToSet(c.routine.sets) \subseteq Fields /\ c.id \in Identifiers /\ c.n \in Nat
    BY <2>3, SetsAreFields
  <2>5. /\ ToSet(todo[t]) = {first} \cup ToSet(Tail(todo[t])) /\ ToSet(<<>>) = {}
        /\ first \notin ToSet(Tail(todo[t]))
        /\ ToSet(todo[t]) \subseteq ToSet(c.routine.sets)
    BY <1>0, <2>0, <2>1, <2>2, RemainsFacts DEF ThreadOK
  <2>6. pc'[t] # "idle" => call'[t] = c BY <2>1 DEF Goes, Stays, LetsGo
  <2>7. \A id, what : SetsBack(t, id, what) <=> id = c.id /\ what \in done
    BY <2>0, <2>2 DEF SetsBack
  <2>8. CASE UNCHANGED effects /\ left' = [left EXCEPT ![c.id] = @ \cup done]
    <3>1. \A id \in Identifiers :
            left'[id] = IF id = c.id THEN left[id] \cup done ELSE left[id]
      BY <1>0, <2>4, <2>8 DEF EntryTypes
    <3>2. \A id \in Identifiers, what \in Fields :
            \/ what \in left'[id]
            \/ ~SetsBack(t, id, what) /\ (what \in left[id] => what \in left'[id])
      BY <2>7, <3>1
    <3> QED BY <2>1, <2>8, <3>2, GoingKeepsLeft
  <2>9. CASE /\ effects' = Set(c, first)
             /\ \/ pc'[t] = "set" /\ todo'[t] = Tail(todo[t]) /\ left' = left
                \/ pc'[t] = "read" /\ left' = left
                \/ queued' = queued \cup {c} /\ left' = left
                \/ left' = [left EXCEPT ![c.id] = @ \cup (done \cup {first})]
    <3>1. \A id \in Identifiers, w \in Fields :
            effects'[id][FieldOf(w)] =
              IF id = c.id /\ w = first THEN c.n ELSE effects[id][FieldOf(w)]
      BY <1>0, <2>1, <2>4, <2>9, SetFacts
    <3>2. ASSUME \A what \in done \cup {first} :
                   \/ what \in left'[c.id]
                   \/ SetsBack(t, c.id, what)'
                   \/ c \in queued' /\ what \in ToSet(c.routine.sets),
                 \A id \in Identifiers : left[id] \subseteq left'[id]
          PROVE  LeftOver'
      <4>1. ASSUME NEW id \in Identifiers, NEW what \in Fields
            PROVE  \/ what \in left'[id]
                   \/ SetsBack(t, id, what)'
                   \/ c \in queued' /\ c.id = id /\ what \in ToSet(c.routine.sets)
                   \/ /\ ~SetsBack(t, id, what)
                      /\ effects'[id][FieldOf(what)] = effects[id][FieldOf(what)]
                      /\ what \in left[id] => what \in left'[id]
        <5>1. CASE id = c.id /\ what \in done \cup {first} BY <3>2, <5>1
        <5>2. CASE ~(id = c.id /\ what \in done \cup {first})
          <6>1. ~SetsBack(t, id, what) BY <2>7, <5>2
          <6>2. effects'[id][FieldOf(what)] = effects[id][FieldOf(what)] BY <3>1, <5>2
          <6> QED BY <3>2, <6>1, <6>2
        <5> QED BY <5>1, <5>2
      <4> QED BY <2>1, <4>1, GoingKeepsLeft
    <3>3. done \cup {first} \subseteq ToSet(c.routine.sets) BY <2>5
    <3>4. CASE pc'[t] = "set" /\ todo'[t] = Tail(todo[t]) /\ left' = left
      <4>1. \A what \in done \cup {first} : SetsBack(t, c.id, what)'
        BY <2>5, <2>6, <3>3, <3>4 DEF SetsBack
      <4> QED BY <3>2, <3>4, <4>1
    <3>5. CASE pc'[t] = "read" /\ left' = left
      <4>1. \A what \in done \cup {first} : SetsBack(t, c.id, what)'
        BY <2>6, <3>3, <3>5 DEF SetsBack
      <4> QED BY <3>2, <3>5, <4>1
    <3>6. CASE queued' = queued \cup {c} /\ left' = left
      BY <3>2, <3>3, <3>6
    <3>7. CASE left' = [left EXCEPT ![c.id] = @ \cup (done \cup {first})]
      <4>1. \A id \in Identifiers :
              left'[id] = IF id = c.id THEN left[id] \cup (done \cup {first}) ELSE left[id]
        BY <1>0, <2>4, <3>7 DEF EntryTypes
      <4> QED BY <2>4, <3>2, <4>1
    <3> QED BY <2>9, <3>4, <3>5, <3>6, <3>7
  <2> QED BY <2>1, <2>8, <2>9 DEF SetAs
<1>3. CASE ReadEntry(t)
  <2>1. Goes(t, call[t]) /\ pc'[t] = "call" BY <1>3, ReadGoes
  <2>2. pc[t] = "read" /\ UNCHANGED <<effects, left>> BY <1>3 DEF ReadEntry
  <2>3. call'[t] = call[t] BY <2>1 DEF Goes, Stays, LetsGo
  <2>4. \A id, what : SetsBack(t, id, what) => SetsBack(t, id, what)'
    BY <2>1, <2>2, <2>3 DEF SetsBack
  <2> QED BY <2>1, <2>2, <2>4, GoingKeepsLeft
<1>4. CASE CallService(t)
  <2>0. PICK c : c = call[t] OBVIOUS
  <2>1. pc[t] = "call" /\ Goes(t, c) /\ PlayedAs(t, c) /\ SetsBackAll(c.routine)
    BY <1>4, <2>0, CallGoes
  <2>2. UNCHANGED effects BY <1>4 DEF CallService
  <2>3. c.id \in Identifiers BY <1>p, <2>0, <2>1, SetsAreFields
  <2>4. \A id, what : SetsBack(t, id, what) <=> id = c.id /\ what \in ToSet(c.routine.sets)
    BY <2>0, <2>1 DEF SetsBack
  <2>5. CASE pc'[t] = "reset" /\ todo'[t] = c.routine.plays.resets /\ left' = left
    <3>1. call'[t] = c BY <2>1, <2>5 DEF Goes, Stays, LetsGo
    <3>2. \A what \in ToSet(c.routine.sets) : SetsBack(t, c.id, what)'
      BY <2>1, <2>5, <3>1 DEF SetsBack, SetsBackAll
    <3> QED BY <2>1, <2>2, <2>4, <2>5, <3>2, GoingKeepsLeft
  <2>6. CASE left' = [left EXCEPT ![c.id] = @ \cup ToSet(c.routine.sets)]
    <3>1. \A id \in Identifiers :
            left'[id] = IF id = c.id THEN left[id] \cup ToSet(c.routine.sets) ELSE left[id]
      BY <1>0, <2>3, <2>6 DEF EntryTypes
    <3>2. \A id \in Identifiers, what \in Fields :
            \/ what \in left'[id]
            \/ ~SetsBack(t, id, what) /\ (what \in left[id] => what \in left'[id])
      BY <2>4, <3>1
    <3> QED BY <2>1, <2>2, <3>2, GoingKeepsLeft
  <2> QED BY <2>1, <2>5, <2>6 DEF PlayedAs
<1>5. CASE ResetOne(t)
  <2>0. PICK c : c = call[t] OBVIOUS
  <2> DEFINE first == Head(todo[t])
  <2>1. Goes(t, c) /\ ResetAs(t) /\ first \in Fields /\ todo[t] \in Remains \ {<<>>}
    BY <1>5, <2>0, ResetGoes
  <2>2. /\ pc[t] = "reset" /\ effects' = SetBack(t, c, first)
        /\ left' = [left EXCEPT ![c.id] = @ \ {first}]
    BY <1>5, <2>0 DEF ResetOne
  <2>3. c.id \in Identifiers /\ c.n \in Nat BY <1>p, <2>0, <2>2, SetsAreFields
  <2>4. \A id \in Identifiers, w \in Fields :
          effects'[id][FieldOf(w)] =
            IF id = c.id /\ w = first THEN 0 ELSE effects[id][FieldOf(w)]
    BY <1>0, <2>1, <2>2, <2>3, SetFacts
  <2>5. \A id \in Identifiers :
          left'[id] = IF id = c.id THEN left[id] \ {first} ELSE left[id]
    BY <1>0, <2>2, <2>3 DEF EntryTypes
  <2>6. ToSet(todo[t]) = {first} \cup ToSet(Tail(todo[t])) /\ ToSet(<<>>) = {}
    BY <2>1, RemainsFacts
  <2>7. \A id, what : SetsBack(t, id, what) <=> id = c.id /\ what \in ToSet(todo[t])
    BY <2>0, <2>2 DEF SetsBack
  <2>8. pc'[t] # "idle" => call'[t] = c BY <2>1 DEF Goes, Stays, LetsGo
  <2>9. \A what \in ToSet(todo[t]) : what = first \/ SetsBack(t, c.id, what)'
    BY <2>1, <2>6, <2>8 DEF ResetAs, SetsBack
  <2>10. ASSUME NEW id \in Identifiers, NEW what \in Fields
         PROVE  \/ effects'[id][FieldOf(what)] = 0
                \/ SetsBack(t, id, what)'
                \/ /\ ~SetsBack(t, id, what)
                   /\ effects'[id][FieldOf(what)] = effects[id][FieldOf(what)]
                   /\ what \in left[id] => what \in left'[id]
    <3>1. CASE id = c.id /\ what = first BY <2>4, <3>1
    <3>2. CASE id = c.id /\ what # first BY <2>4, <2>5, <2>7, <2>9, <3>2
    <3>3. CASE id # c.id BY <2>4, <2>5, <2>7, <3>3
    <3> QED BY <3>1, <3>2, <3>3
  <2> QED BY <2>1, <2>10, GoingKeepsLeft
<1>6. CASE ExecuteCallBack(t)
  <2>1. PICK c \in queued :
          queued' = queued \ {c} /\ call' = [call EXCEPT ![t] = c]
    BY <1>6 DEF ExecuteCallBack
  <2>2. /\ pc' = [pc EXCEPT ![t] = "read"] /\ pc[t] = "idle"
        /\ UNCHANGED <<todo, effects, left>>
    BY <1>6 DEF ExecuteCallBack, Becomes
  <2>3. /\ pc'[t] = "read" /\ call'[t] = c
        /\ \A u \in Threads \ {t} : pc'[u] = pc[u] /\ call'[u] = call[u] /\ todo'[u] = todo[u]
    BY <1>0, <2>1, <2>2 DEF ThreadTypes
  <2>4. \A u \in Threads : \A id, what : SetsBack(u, id, what) => SetsBack(u, id, what)'
    BY <2>2, <2>3 DEF SetsBack
  <2>5. \A what \in ToSet(c.routine.sets) : SetsBack(t, c.id, what)'
    BY <2>3 DEF SetsBack
  <2> QED BY <2>1, <2>2, <2>4, <2>5 DEF LeftOver
<1>7. CASE CompleteCallback(t) \/ \E id \in Identifiers : Stop(t, id)
  <2>1. UNCHANGED <<pc, call, todo, effects, left, queued>>
    BY <1>7 DEF CompleteCallback, Stop
  <2> QED BY <2>1 DEF LeftOver, SetsBack
<1> QED BY <1>1, <1>2, <1>3, <1>4, <1>5, <1>6, <1>7 DEF AgentStep

\* An entry that is erased holds nothing.
LEMMA EraseKeepsLeft ==
  ASSUME CallsInv, LeftOver, NEW ids \in SUBSET Identifiers, EraseEntries(ids)
  PROVE  LeftOver'
<1>1. UNCHANGED <<pc, call, todo, queued>> BY DEF EraseEntries
<1>2. \A id \in ids, what \in Fields : effects'[id][FieldOf(what)] = 0
  <2>1. \A what \in Fields : VibratorEffectParameter[FieldOf(what)] = 0
    BY DEF VibratorEffectParameter, Fields, FieldOf
  <2>2. \A id \in ids : effects'[id] = VibratorEffectParameter BY DEF EraseEntries
  <2> QED BY <2>1, <2>2
<1>3. \A id \in Identifiers \ ids : effects'[id] = effects[id] /\ left'[id] = left[id]
  BY DEF EraseEntries
<1> QED BY <1>1, <1>2, <1>3 DEF LeftOver, SetsBack

-------------------------------------------------------------------------------
(* The theorems about calls. *)

LibraryInv ==
  /\ CallsInv /\ StopInv /\ PromisesAreKept /\ OwnValues /\ LeftOver
  /\ scenario \in Scenarios

\* A process begins with no call.
LEMMA LibraryBegins ==
  ASSUME Init
  PROVE  LibraryInv
<1> USE AgentAssumption DEF Init
<1>1. /\ VibratorEffectParameter \in [DOMAIN VibratorEffectParameter -> Nat]
      /\ \A what \in Fields : VibratorEffectParameter[FieldOf(what)] = 0
  BY DEF VibratorEffectParameter, Fields, FieldOf
<1>2. <<>> \in Remains /\ "SUCCESS" \in Codes BY DEF Remains, Codes
<1>3. ThreadTypes BY <1>1, <1>2 DEF ThreadTypes, AgentInit
<1>4. EntryTypes BY <1>1 DEF EntryTypes, AgentInit
<1>5. ThreadInv BY DEF ThreadInv, ThreadOK, AgentInit
<1>6. PlacesInv BY DEF PlacesInv, AgentInit
<1>7. StopInv BY DEF StopInv, StopIsFinal, AgentInit
<1>8. PromisesAreKept BY DEF PromisesAreKept, AgentInit, Threads
<1>9. OwnValues BY DEF OwnValues, OwnOK, AgentInit
<1>10. LeftOver BY <1>1 DEF LeftOver, AgentInit
<1> QED BY <1>3, <1>4, <1>5, <1>6, <1>7, <1>8, <1>9, <1>10 DEF LibraryInv, CallsInv

\* The invariants of the calls hold in every state, whatever the threads, the
\* vibrators and the calls, and whatever the listeners do on the same threads.
THEOREM CallsAreInOrder == Spec => []LibraryInv
<1>1. Init => LibraryInv BY LibraryBegins
<1>2. LibraryInv /\ [Next]_vars => LibraryInv'
  <2> SUFFICES ASSUME LibraryInv, [Next]_vars PROVE LibraryInv' OBVIOUS
  <2>i. CallsInv /\ StopInv /\ PromisesAreKept /\ OwnValues /\ LeftOver BY DEF LibraryInv
  <2>1. CASE AgentNext
    <3>1. PICK t \in scenario.callers \cup Workers : AgentStep(t) BY <2>1 DEF AgentNext
    <3>0. scenario \in Scenarios /\ scenario' = scenario BY <2>1 DEF LibraryInv, AgentNext
    <3>2. t \in Threads BY <3>0, LibraryAssumption DEF Threads
    <3> QED BY <2>i, <3>0, <3>1, <3>2, AgentKeepsCalls, AgentKeepsStops, AgentKeepsPromises,
              AgentKeepsValues, AgentKeepsLeft DEF LibraryInv
  <2>2. CASE HandleVibratorData
    <3>1. PICK ids \in SUBSET Identifiers : EraseEntries(ids)
      BY <2>2, LibraryAssumption DEF HandleVibratorData
    <3>2. UNCHANGED <<pc, call, queued, executed, promises, playing, calls, answered, halted>>
      BY <3>1 DEF EraseEntries
    <3>3. StopInv' /\ PromisesAreKept'
      BY <2>i, <3>2 DEF StopInv, StopIsFinal, PromisesAreKept
    <3> QED BY <2>2, <2>i, <3>1, <3>3, EraseKeepsCalls, EraseKeepsValues, EraseKeepsLeft
            DEF LibraryInv, HandleVibratorData
  <2>3. CASE UNCHANGED <<agentVars, scenario>>
    BY <2>i, <2>3 DEF agentVars, LibraryInv, CallsInv, ThreadTypes, EntryTypes, ThreadInv,
      ThreadOK, PlacesInv, Pooled, Entered, StopInv, StopIsFinal, PromisesAreKept,
      OwnValues, OwnOK, QueuedOK, LeftOver, SetsBack
  <2> QED BY <2>1, <2>2, <2>3 DEF Next, ListenerNext, CallUsers, vars
<1> QED BY <1>1, <1>2, PTL DEF Spec

\* A vibration its caller knows to have begun does not begin again after the
\* caller has stopped it: what CallService sends belongs to a call that
\* CompleteCallback has not answered yet.
THEOREM StoppedStaysStopped == Spec => []StopIsFinal
<1>1. LibraryInv => StopIsFinal BY DEF LibraryInv, StopInv
<1> QED BY <1>1, CallsAreInOrder, PTL

\* Every promise that is open has its call in the pool's queue, with a worker or
\* in its script's queue.
THEOREM NoPromiseIsForgotten == Spec => []PromisesAreKept
<1>1. LibraryInv => PromisesAreKept BY DEF LibraryInv
<1> QED BY <1>1, CallsAreInOrder, PTL

\* A request carries the usage, the loop count and the intensity its caller set,
\* however the accesses of the threads to vibratorEffectMap_ alternate, unless
\* one of them, or a plug-out, came between its set and its read.
THEOREM PlayedAsItWasAsked == Spec => []PlayedAsAsked
<1>1. LibraryInv => PlayedAsAsked
  BY DEF LibraryInv, OwnValues, OwnOK, PlayedAsAsked, FieldOf
<1> QED BY <1>1, CallsAreInOrder, PTL

\* Once no call is under way the entries hold nothing but what a refused call
\* has left in them.
THEOREM NoValueLingers == Spec => []NothingLingers
<1>1. LibraryInv => NothingLingers
  BY DEF LibraryInv, LeftOver, SetsBack, NothingLingers, Fields, FieldOf
<1> QED BY <1>1, CallsAreInOrder, PTL

===============================================================================
