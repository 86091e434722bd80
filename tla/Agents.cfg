SPECIFICATION Spec
CHECK_DEADLOCK FALSE
CONSTANTS
  s1 = s1
  s2 = s2
  ets = ets
  native = native
  w1 = w1
  default = default
  external = external
  f = f
  Scripts = {s1, s2}
  EtsThreads = {ets}
  Natives = {native}
  Workers = {w1}
  Identifiers = {default, external}
  Default = default
  Removable = {external}
  Callbacks = {f}
  MaxCalls = 2
  MaxStops = 1
  MaxListenerOps = 4
  MaxListeners = 4
  MaxEvents = 2
  Scenarios <- AgentScenarios
INVARIANT PlayedAsAsked
INVARIANT NothingLingers
INVARIANT StopIsFinal
INVARIANT PromisesAreKept
INVARIANT LatestIsSeen
INVARIANT ListenersAreSubscribed
