---------------------------- MODULE MCClientLibrary ----------------------------
(* Instances of ClientLibrary: some behaviours are about calls, some about   *)
(* listeners, and some about a plug-out among calls.                         *)
EXTENDS ClientLibrary

CONSTANTS s1, s2, ets, native, w1, default, external, f

AgentScenarios ==
  {[callers |-> {s1, native}, calls |-> 2, stops |-> 1, ops |-> 0, events |-> 0],
   [callers |-> {s1, ets}, calls |-> 2, stops |-> 0, ops |-> 0, events |-> 1],
   [callers |-> {}, calls |-> 0, stops |-> 0, ops |-> 4, events |-> 2]}
===============================================================================
