SPECIFICATION Spec
CONSTANTS
  a = a
  b = b
  a1 = a1
  a2 = a2
  b1 = b1
  aObserver = aObserver
  bObserver = bObserver
  aReaper = aReaper
  bReaper = bReaper
  r1 = r1
  r2 = r2
  Service = Service
  NoOwner = NoOwner
  Clients = {a}
  AppThreads = {a1, a2}
  Observers = {aObserver}
  Reporters = {r1}
  Reapers = {aReaper}
  Home <- HomeOfThreads
  Mortal = {a}
  Ops = {"vibrate", "list", "subscribe"}
  MaxLives = 3
  MaxEvents = 2
  MaxClients = 1
  CallbackVibrates = TRUE
  DieWhileRegistering = TRUE
INVARIANTS
  ServedIsRegistered
  StaleProxyIsNoticed
CHECK_DEADLOCK FALSE
