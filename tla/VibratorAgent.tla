----------------------------- MODULE VibratorAgent -----------------------------
(***************************************************************************)
(* How an application's process asks for a vibration: the C functions of   *)
(* vibrator_agent.cpp, the scripts' binding of vibrator_js.cpp and the one *)
(* of ohos.vibrator.impl.cpp.  None of them passes a usage, a loop count or *)
(* an intensity to the function that plays: they are set before, in        *)
(* vibratorEffectMap_ of the client library, one entry for each vibrator,  *)
(* read by the function that plays and set back after its call.  The map   *)
(* has a mutex for each access and none for the sequence, and a preset     *)
(* effect of a script is set on the script's thread and played by a worker. *)
(*                                                                         *)
(* A value that a call sets is named by the number of the call; 0 is the   *)
(* value of an entry nobody has set.  What the service makes of a request, *)
(* its priorities and its patterns, is in the modules about the service.   *)
(***************************************************************************)
EXTENDS Naturals, Sequences, FiniteSets, SequencesExt

CONSTANTS
  Scripts,      \* threads that run a script, each with its napi_env
  EtsThreads,   \* threads that use the other binding
  Natives,      \* threads that use the C functions
  Workers,      \* threads of the pool that runs napi's asynchronous work
  Identifiers,  \* the vibrators a call may name
  Default,      \* the identifier with deviceId and vibratorId -1
  MaxCalls, MaxStops

Callers == Scripts \cup EtsThreads \cup Natives
Threads == Callers \cup Workers

ASSUME AgentAssumption ==
  /\ Default \in Identifiers
  /\ Scripts \cap (EtsThreads \cup Natives) = {} /\ EtsThreads \cap Natives = {}
  /\ Workers \cap Callers = {}
  /\ MaxCalls \in Nat /\ MaxStops \in Nat

VARIABLES
  effects,   \* vibratorEffectMap_
  pc, todo,  \* where a thread is, and what it has still to set, or to set back
  call,      \* the call a thread is busy with
  arg,       \* what it read of the map
  code,      \* what the service answered
  queued,    \* preset calls the pool has not taken
  executed,  \* calls whose answer waits for the script's thread
  promises,  \* calls whose script waits for an answer
  playing,   \* the call each vibrator plays, 0 for none
  calls, stops,
  disturbed, \* calls whose entry another changed between its set and its read
  left,      \* what a refused call has left in an entry
  answered,  \* calls whose caller knows the outcome
  halted     \* answered calls their caller has stopped since

agentVars == <<effects, pc, todo, call, arg, code, queued, executed, promises,
               playing, calls, stops, disturbed, left, answered, halted>>

Numbers == 0 .. MaxCalls

\* VibratorEffectParameter, without the fields that go with these.
VibratorEffectParameter ==
  [usage |-> 0, loopCount |-> 0, intensity |-> 0, sessionId |-> 0]

\* Mutant: setting the usage begins a new entry.
SetUsageAnew(id, usage) == [effects EXCEPT ![id] = [VibratorEffectParameter EXCEPT !.usage = usage]]

\* The client library's accesses to the map, each under vibratorEffectMutex_.
SetUsage(id, usage) == [effects EXCEPT ![id].usage = usage]

SetLoopCount(id, count) == [effects EXCEPT ![id].loopCount = count]

SetParameters(id, intensity, session) ==
  [effects EXCEPT ![id].intensity = intensity, ![id].sessionId = session]
GetVibratorEffectParameter(id) == effects[id]

-------------------------------------------------------------------------------
(* The functions that play: what they set back after their call, in order,  *)
(* whether they refuse arguments of their own, whether they do so much when *)
(* the call fails, and whether they bring a session of their own.           *)

StartVibratorEnhanced ==
  [resets |-> <<"usage", "loopCount">>, checks |-> FALSE, always |-> TRUE, session |-> FALSE]
StartVibratorOnceEnhanced ==
  [resets |-> <<"usage">>, checks |-> TRUE, always |-> TRUE, session |-> FALSE]
PlayVibratorCustomEnhanced ==
  [resets |-> <<"usage", "parameter">>, checks |-> TRUE, always |-> TRUE, session |-> FALSE]

\* Mutant: the parameters are not set back.
PlayPatternEnhancedUsageOnly ==
  [resets |-> <<"usage">>, checks |-> FALSE, always |-> TRUE, session |-> FALSE]

PlayPatternEnhanced ==
  [resets |-> <<"usage", "parameter">>, checks |-> FALSE, always |-> TRUE, session |-> FALSE]

PlayPrimitiveEffectEnhanced ==
  [resets |-> <<"usage", "loopCount">>, checks |-> FALSE, always |-> TRUE, session |-> FALSE]
PlayPatternBySessionId ==
  [resets |-> <<"usage", "parameter">>, checks |-> TRUE, always |-> TRUE, session |-> TRUE]
PlayPackageBySessionId ==
  [resets |-> <<"usage", "parameter">>, checks |-> TRUE, always |-> FALSE, session |-> TRUE]

(* What an application calls: what is set before, in order, the function    *)
(* that plays, whether a worker plays it, and whether wrong arguments are   *)
(* thrown rather than answered.                                             *)
Routine(sets, plays) ==
  [sets |-> sets, plays |-> plays, pooled |-> FALSE, throws |-> TRUE]

VibrateTime     == [Routine(<<>>, StartVibratorOnceEnhanced) EXCEPT !.throws = FALSE]
VibrateEffectId == [Routine(<<>>, StartVibratorEnhanced) EXCEPT !.throws = FALSE]
\* The durations of a mode are constants: nothing can be refused.
VibrateMode     ==
  [Routine(<<>>, [StartVibratorOnceEnhanced EXCEPT !.checks = FALSE]) EXCEPT !.throws = FALSE]
VibrateEffect   ==
  [Routine(<<"loopCount", "usage">>, [PlayPrimitiveEffectEnhanced EXCEPT !.checks = TRUE])
     EXCEPT !.pooled = TRUE]
StartVibrate    ==
  {Routine(<<"usage">>, play) :
     play \in {StartVibratorOnceEnhanced, PlayVibratorCustomEnhanced, PlayPatternEnhanced}}
startVibrationSync ==
  {Routine(<<"loopCount", "usage">>, [PlayPrimitiveEffectEnhanced EXCEPT !.checks = TRUE])}
    \cup StartVibrate

\* An application that uses the C functions sets what it wants in this order.
NativeRoutines ==
  {Routine(<<"usage">>, StartVibratorOnceEnhanced)}
    \cup {Routine(<<"loopCount", "usage">>, play) :
            play \in {StartVibratorEnhanced, PlayPrimitiveEffectEnhanced}}
    \cup {Routine(<<"usage", "parameter">>, play) :
            play \in {PlayVibratorCustomEnhanced, PlayPatternEnhanced,
                      PlayPatternBySessionId, PlayPackageBySessionId}}

ScriptRoutines == {VibrateTime, VibrateEffectId, VibrateMode, VibrateEffect} \cup StartVibrate

RoutinesOf(t) ==
  CASE t \in Scripts    -> ScriptRoutines
    [] t \in EtsThreads -> startVibrationSync
    [] OTHER            -> NativeRoutines
AllRoutines == ScriptRoutines \cup startVibrationSync \cup NativeRoutines

\* The binding of EtsThreads does not pass the device on.
IdentifiersOf(t) == IF t \in EtsThreads THEN {Default} ELSE Identifiers

\* What may be wrong with the arguments of a call.
Flaws(routine) ==
  {"none"} \cup (ToSet(routine.sets) \cap {"loopCount", "usage"})
           \cup {flaw \in {"play"} : routine.plays.checks}

Codes == {"SUCCESS", "PARAMETER_ERROR", "ERROR"}
\* Mutant: the codes of the service are passed on.
NormalizeErrCodeKept(ret) == ret

\* Of the codes the service answers with the named ones stay: PERMISSION_DENIED
\* and IS_NOT_SUPPORTED too, which nothing here tells from PARAMETER_ERROR.
NormalizeErrCode(ret) == IF ret = "ERROR" THEN "DEVICE_OPERATION_FAILED" ELSE ret

ERROR_MESSAGES == {"DEVICE_OPERATION_FAILED", "PARAMETER_ERROR"}

Calls == [n : Numbers, by : Callers, id : Identifiers,
          routine : AllRoutines,
          flaw : {"none", "loopCount", "usage", "play"}]
NoCall == [n |-> 0]

\* Types; and a thread that plays has the call it plays for.
AgentTypeOK ==
  /\ effects \in [Identifiers -> [DOMAIN VibratorEffectParameter -> Numbers]]
  /\ pc \in [Threads -> {"idle", "set", "read", "call", "reset"}]
  /\ \A t \in Threads : /\ ToSet(todo[t]) \subseteq {"usage", "loopCount", "parameter"}
                         /\ (todo[t] = <<>>) = (pc[t] \notin {"set", "reset"})
  /\ \A t \in Threads : IF pc[t] = "idle" THEN call[t] = NoCall ELSE call[t] \in Calls
  /\ arg \in [Threads -> [DOMAIN VibratorEffectParameter -> Numbers]]
  /\ code \in [Threads -> Codes]
  /\ queued \subseteq Calls
  /\ \A x \in executed : x.call \in Calls /\ x.call.by \in Scripts
  /\ promises \subseteq Numbers
  /\ playing \in [Identifiers -> Numbers]
  /\ disturbed \subseteq Numbers
  /\ left \in [Identifiers -> SUBSET {"usage", "loopCount", "parameter"}]
  /\ answered \subseteq Calls /\ halted \subseteq Numbers

AgentInit ==
  /\ effects = [id \in Identifiers |-> VibratorEffectParameter]
  /\ pc = [t \in Threads |-> "idle"]
  /\ todo = [t \in Threads |-> <<>>]
  /\ call = [t \in Threads |-> NoCall]
  /\ arg = [t \in Threads |-> VibratorEffectParameter]
  /\ code = [t \in Threads |-> "SUCCESS"]
  /\ queued = {} /\ executed = {} /\ promises = {}
  /\ playing = [id \in Identifiers |-> 0]
  /\ calls = 0 /\ stops = 0
  /\ disturbed = {} /\ left = [id \in Identifiers |-> {}]
  /\ answered = {} /\ halted = {}

-------------------------------------------------------------------------------
\* The calls that have set something for id and not read it yet.
Exposed(id) ==
  {c \in queued : c.id = id}
    \cup {call[t] : t \in {s \in Threads :
            /\ pc[s] \in {"set", "read"} /\ call[s].id = id
            /\ Len(todo[s]) < Len(call[s].routine.sets)}}

\* Thread t changes the entry of id.
Disturbs(t, id) ==
  disturbed' = disturbed \cup ({c.n : c \in Exposed(id)} \ {call[t].n})

Becomes(t, where) == pc' = [pc EXCEPT ![t] = where]
Idle(t) ==
  /\ Becomes(t, "idle")
  /\ call' = [call EXCEPT ![t] = NoCall]
  /\ todo' = [todo EXCEPT ![t] = <<>>]
  /\ arg' = [arg EXCEPT ![t] = VibratorEffectParameter]
  /\ code' = [code EXCEPT ![t] = "SUCCESS"]

\* An exception, or false from a C function: nothing is played.
Refuse(t) == Idle(t) /\ UNCHANGED <<queued, executed, promises, playing, answered>>

\* Mutant: the script is answered when its call is handed to a worker.
EmitAsyncWorkAnswered(c) ==
  /\ queued' = queued \cup {c}
  /\ promises' = promises \cup {c.n}
  /\ answered' = answered \cup {c} /\ UNCHANGED executed

\* EmitAsyncWork: a worker is to run ExecuteCallBack and then the script's
\* thread CompleteCallback.
EmitAsyncWork(c) ==
  /\ queued' = queued \cup {c}
  /\ promises' = promises \cup {c.n}
  /\ UNCHANGED <<executed, answered>>

\* The outcome of a call played on the thread that asked for it, or by a worker.
\* For the former the asynchronous work has nothing to do but answer.
Finish(t, c, result) ==
  /\ Idle(t)
  /\ IF c.by \notin Scripts
       THEN answered' = answered \cup {c} /\ UNCHANGED <<executed, promises>>
       ELSE /\ IF result = "PARAMETER_ERROR" /\ c.routine.throws /\ t \notin Workers
                 THEN UNCHANGED <<executed, promises>>
                 ELSE /\ executed' = executed \cup {[call |-> c, result |-> result]}
                      /\ promises' = promises \cup {c.n}
            /\ UNCHANGED answered
  /\ UNCHANGED queued

\* The arguments are set: the call is played, now or by a worker, or refused.
Arrive(t, c) ==
  IF c.flaw # "play"
    THEN IF c.routine.pooled
           THEN EmitAsyncWork(c) /\ Idle(t)
           ELSE /\ Becomes(t, "read")
                /\ call' = [call EXCEPT ![t] = c]
                /\ todo' = [todo EXCEPT ![t] = <<>>]
                /\ UNCHANGED <<arg, code, queued, executed, promises, answered>>
    ELSE IF c.routine.pooled
           THEN Idle(t) /\ UNCHANGED <<queued, executed, promises, answered>>
           ELSE Finish(t, c, "PARAMETER_ERROR")

\* A call enters the library.
Ask(t) ==
  /\ t \in Callers /\ pc[t] = "idle" /\ calls < MaxCalls
  /\ calls' = calls + 1
  /\ \E id \in IdentifiersOf(t), routine \in RoutinesOf(t) : \E flaw \in Flaws(routine) :
       LET c == [n |-> calls', by |-> t, id |-> id, routine |-> routine, flaw |-> flaw]
       IN  IF routine.sets = <<>>
             THEN Arrive(t, c)
             ELSE /\ Becomes(t, "set")
                  /\ call' = [call EXCEPT ![t] = c]
                  /\ todo' = [todo EXCEPT ![t] = routine.sets]
                  /\ UNCHANGED <<arg, code, queued, executed, promises, answered>>
  /\ UNCHANGED <<effects, playing, stops, disturbed, left, halted>>

\* SetUsageEnhanced, SetLoopCountEnhanced and SetParametersEnhanced.
Set(c, what) ==
  CASE what = "usage"     -> SetUsage(c.id, c.n)
    [] what = "loopCount" -> SetLoopCount(c.id, c.n)
    [] what = "parameter" -> SetParameters(c.id, c.n, 0)

\* A refused call leaves what it has set so far.
Leave(c, what) == left' = [left EXCEPT ![c.id] = @ \cup what]

SetOne(t) ==
  LET c == call[t] what == Head(todo[t])
      done == {w \in ToSet(c.routine.sets) : w \notin ToSet(todo[t])}
  IN  /\ pc[t] = "set"
      /\ IF what = c.flaw
           THEN Refuse(t) /\ Leave(c, done) /\ UNCHANGED <<effects, disturbed>>
           ELSE /\ effects' = Set(c, what)
                /\ Disturbs(t, c.id)
                /\ IF Len(todo[t]) > 1
                     THEN /\ todo' = [todo EXCEPT ![t] = Tail(@)]
                          /\ UNCHANGED <<pc, call, arg, code, queued, executed, promises, answered>>
                          /\ UNCHANGED left
                     ELSE /\ Arrive(t, c)
                          /\ IF c.flaw = "play" THEN Leave(c, done \cup {what}) ELSE UNCHANGED left
                /\ UNCHANGED playing
      /\ UNCHANGED <<calls, stops, halted>>

\* A worker runs ExecuteCallBack for a preset effect.
ExecuteCallBack(w) ==
  /\ w \in Workers /\ pc[w] = "idle"
  /\ \E c \in queued :
       /\ queued' = queued \ {c}
       /\ call' = [call EXCEPT ![w] = c]
  /\ Becomes(w, "read")
  /\ UNCHANGED <<effects, todo, arg, code, executed, promises, playing, calls,
                 stops, disturbed, left, answered, halted>>

\* The playing function copies the entry, with its own session if it has one.
ReadEntry(t) ==
  /\ pc[t] = "read"
  /\ arg' = [arg EXCEPT ![t] =
       IF call[t].routine.plays.session
         THEN [GetVibratorEffectParameter(call[t].id) EXCEPT !.sessionId = call[t].n]
         ELSE GetVibratorEffectParameter(call[t].id)]
  /\ Becomes(t, "call")
  /\ UNCHANGED <<effects, todo, call, code, queued, executed, promises, playing,
                 calls, stops, disturbed, left, answered, halted>>

\* It calls the service, which plays or answers with an error.
CallService(t) ==
  LET c == call[t] IN
  /\ pc[t] = "call"
  /\ \E ret \in Codes :
       /\ playing' = IF ret = "SUCCESS" THEN [playing EXCEPT ![c.id] = c.n] ELSE playing
       /\ IF ret = "SUCCESS" \/ c.routine.plays.always
            THEN /\ Becomes(t, "reset")
                 /\ todo' = [todo EXCEPT ![t] = c.routine.plays.resets]
                 /\ code' = [code EXCEPT ![t] = ret]
                 /\ UNCHANGED <<call, arg, queued, executed, promises, answered, left>>
            ELSE /\ Finish(t, c, NormalizeErrCode(ret))
                 /\ Leave(c, ToSet(c.routine.sets))
  /\ UNCHANGED <<effects, calls, stops, disturbed, halted>>

SetBack(t, c, what) ==
  CASE what = "usage"     -> SetUsage(c.id, 0)
    [] what = "loopCount" -> SetLoopCount(c.id, 0)
    [] what = "parameter" -> SetParameters(c.id, 0, arg[t].sessionId)

\* It sets back one field; after the last one the call returns.
ResetOne(t) ==
  LET c == call[t] what == Head(todo[t]) IN
  /\ pc[t] = "reset"
  /\ effects' = SetBack(t, c, what)
  /\ Disturbs(t, c.id)
  /\ left' = [left EXCEPT ![c.id] = @ \ {what}]
  /\ IF Len(todo[t]) > 1
       THEN /\ todo' = [todo EXCEPT ![t] = Tail(@)]
            /\ UNCHANGED <<pc, call, arg, code, queued, executed, promises, answered>>
       ELSE Finish(t, c, NormalizeErrCode(code[t]))
  /\ UNCHANGED <<playing, calls, stops, halted>>

\* The script's thread takes an answer.  An error without a message cannot be
\* converted: the promise stays open and the callback is not called.
CompleteCallback(s) ==
  /\ s \in Scripts /\ pc[s] = "idle"
  /\ \E x \in executed :
       /\ x.call.by = s
       /\ executed' = executed \ {x}
       /\ IF x.result \in ERROR_MESSAGES \cup {"SUCCESS"}
            THEN /\ promises' = promises \ {x.call.n}
                 /\ answered' = answered \cup {x.call}
            ELSE UNCHANGED <<promises, answered>>
  /\ UNCHANGED <<effects, pc, todo, call, arg, code, queued, playing, calls, stops,
                 disturbed, left, halted>>

\* StopVibratorEnhanced and CancelEnhanced, on the thread that calls them.
Stop(t, id) ==
  /\ t \in Callers /\ pc[t] = "idle" /\ stops < MaxStops
  /\ stops' = stops + 1
  /\ playing' = [playing EXCEPT ![id] = 0]
  /\ halted' = halted \cup {c.n : c \in {a \in answered : a.by = t /\ a.id = id}}
  /\ UNCHANGED <<effects, pc, todo, call, arg, code, queued, executed, promises,
                 calls, disturbed, left, answered>>

\* HandleVibratorData erases the entries of a device that is gone.
EraseEntries(ids) ==
  /\ effects' = [id \in Identifiers |->
                   IF id \in ids THEN VibratorEffectParameter ELSE effects[id]]
  /\ left' = [id \in Identifiers |-> IF id \in ids THEN {} ELSE left[id]]
  /\ disturbed' = disturbed \cup {c.n : c \in UNION {Exposed(id) : id \in ids}}
  /\ UNCHANGED <<pc, todo, call, arg, code, queued, executed, promises, playing,
                 calls, stops, answered, halted>>

AgentStep(t) ==
  \/ Ask(t) \/ SetOne(t) \/ ReadEntry(t) \/ CallService(t) \/ ResetOne(t)
  \/ ExecuteCallBack(t) \/ CompleteCallback(t)
  \/ \E id \in Identifiers : Stop(t, id)

-------------------------------------------------------------------------------
(* Properties. *)

\* A request carries the usage, the loop count and the intensity its caller
\* asked for, unless another call or a plug-out changed the entry between.
\* Setting one field must keep the ones set before it.
PlayedAsAsked ==
  \A t \in Threads :
    (pc[t] = "call" /\ call[t].n \notin disturbed) =>
      \A what \in ToSet(call[t].routine.sets) :
        arg[t][IF what = "parameter" THEN "intensity" ELSE what] = call[t].n

\* Once no call is under way, what was set for a call is set back, whatever the
\* order in which the threads came to it, and except what a refused call set: no
\* later call is played with the usage, the loop count or the intensity of
\* another.
NothingLingers ==
  (queued = {} /\ \A t \in Threads : pc[t] = "idle") =>
    \A id \in Identifiers : \A what \in {"usage", "loopCount", "parameter"} \ left[id] :
      effects[id][IF what = "parameter" THEN "intensity" ELSE what] = 0

\* A vibration its caller knows to have begun does not begin again after the
\* caller has stopped it: the answer comes after the request has reached the
\* service, although a worker sends it.
StopIsFinal == \A id \in Identifiers : playing[id] \notin halted

\* Every promise that is open has its call waiting in the pool, with a worker or
\* for the script's thread: none is forgotten, an error of the service included.
PromisesAreKept ==
  promises = {c.n : c \in queued} \cup {x.call.n : x \in executed}
               \cup {call[w].n : w \in {v \in Workers : pc[v] # "idle"}}
===============================================================================
