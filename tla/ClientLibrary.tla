----------------------------- MODULE ClientLibrary -----------------------------
(***************************************************************************)
(* One application process: the calls of VibratorAgent and the listeners   *)
(* of PlugListeners on the same script threads, and HandleVibratorData of  *)
(* the client library, which first erases what was set for a vibrator that *)
(* is gone and then, under another mutex, calls the users that subscribed. *)
(***************************************************************************)
EXTENDS VibratorAgent

CONSTANTS
  Removable,   \* the identifiers whose device may be unplugged
  Callbacks, MaxListenerOps, MaxEvents, MaxListeners,
  Scenarios    \* which threads call, and how many calls, stops, on and off and
               \* events there are

VARIABLES
  infos, subscribed, doing, statusEvent, posted, seen, due, spinning, etsInfos,
  etsSubscribed, etsSeen, listenerOps, events, listeners, mixed,
  handling,    \* the reporting thread has erased, and is to call the users
  scenario

Plug == INSTANCE PlugListeners WITH Envs <- Scripts, EtsCallers <- EtsThreads

ASSUME LibraryAssumption ==
  /\ Removable \subseteq Identifiers \ {Default}
  /\ {MaxListenerOps, MaxEvents, MaxListeners} \subseteq Nat
  /\ MaxListeners >= MaxListenerOps
  /\ \A s \in Scenarios : /\ s.calls <= MaxCalls /\ s.stops <= MaxStops
                          /\ s.ops <= MaxListenerOps /\ s.events <= MaxEvents
                          /\ s.callers \subseteq Callers

plugVars == <<infos, subscribed, doing, statusEvent, posted, seen, due, spinning,
              etsInfos, etsSubscribed, etsSeen, listenerOps, events, listeners, mixed>>
vars == <<agentVars, plugVars, handling, scenario>>

TypeOK == AgentTypeOK /\ Plug!ListenerTypeOK /\ handling \in BOOLEAN /\ scenario \in Scenarios

Init == AgentInit /\ Plug!ListenerInit /\ handling = FALSE /\ scenario \in Scenarios

Listens(t) == t \in Scripts \cup EtsThreads /\ (Plug!Nothing # doing[t] \/ spinning = t)

AgentNext ==
  /\ \E t \in scenario.callers \cup Workers : ~Listens(t) /\ AgentStep(t)
  /\ calls' <= scenario.calls /\ stops' <= scenario.stops
  /\ UNCHANGED <<plugVars, handling, scenario>>

ListenerNext ==
  /\ \E t \in Scripts \cup EtsThreads : pc[t] = "idle" /\ Plug!ListenerStep(t)
  /\ listenerOps' <= scenario.ops
  /\ UNCHANGED <<agentVars, handling, scenario>>

\* HandleVibratorData, for a vibrator that is gone or one that is there.
HandleVibratorData ==
  /\ ~handling /\ events < scenario.events
  /\ handling' = TRUE
  /\ EraseEntries({}) \/ \E id \in Removable : EraseEntries({id})
  /\ UNCHANGED <<plugVars, scenario>>

CallUsers ==
  /\ handling /\ handling' = FALSE
  /\ Plug!TellUsers
  /\ UNCHANGED <<agentVars, scenario>>

Next == AgentNext \/ ListenerNext \/ HandleVibratorData \/ CallUsers

Spec == Init /\ [][Next]_vars

LatestIsSeen == Plug!LatestIsSeen
ListenersAreSubscribed == Plug!ListenersAreSubscribed
===============================================================================
