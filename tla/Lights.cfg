SPECIFICATION FairSpec
CONSTANTS
  DriverLights = {red}
  MockLights = {test}
  Boot = boot
  DriverObservers = {d1}
  MaxTries = 2
  MaxLives = 2
  MaxDriverLives = 2
  Apps = {a1, a2}
  Observers = {o1}
  NoOwner = NoOwner
  NoLight = NoLight
  MaxFaults = 1
CHECK_DEADLOCK FALSE
INVARIANTS
  OnlyTheirLights
  StaleIsNoticed
PROPERTIES
  ServedAgain
