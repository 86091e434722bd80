SPECIFICATION Spec
CONSTANTS
  Users = {u1, u2}
  FirstUser = u1
  Builds <- OneGroupBuilds
  MaxUpdates = 2
  MaxChanges = 1
  MaxSwitches = 1
  MaxFaults = 1
CHECK_DEADLOCK FALSE
INVARIANTS
  CopiesFollow
  SettingsAreObserved
