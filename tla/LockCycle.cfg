SPECIFICATION Spec
CONSTANTS
  a = a
  b = b
  a1 = a1
  a2 = a2
  b1 = b1
  aObserver = aObserver
  bObserver = bObserver
  aReaper = aReaper
  bReaper = bReaper
  r1 = r1
  r2 = r2
  Service = Service
  NoOwner = NoOwner
  Clients = {a}
  AppThreads = {a1, a2}
  Observers = {}
  Reporters = {r1}
  Reapers = {}
  Home <- HomeOfThreads
  Mortal = {}
  Ops = {"vibrate", "subscribe"}
  MaxLives = 1
  MaxEvents = 1
  MaxClients = 1
  CallbackVibrates = FALSE
  DieWhileRegistering = FALSE
INVARIANT NoMutualWait
