SPECIFICATION Spec
CONSTANTS
  a = a
  b = b
  a1 = a1
  a2 = a2
  b1 = b1
  aObserver = aObserver
  bObserver = bObserver
  aReaper = aReaper
  bReaper = bReaper
  r1 = r1
  r2 = r2
  Service = Service
  NoOwner = NoOwner
  Clients = {a, b}
  AppThreads = {a1, b1}
  Observers = {}
  Reporters = {r1, r2}
  Reapers = {aReaper, bReaper}
  Home <- HomeOfThreads
  Mortal = {b}
  Ops = {"vibrate", "subscribe", "unsubscribe"}
  MaxLives = 1
  MaxEvents = 2
  MaxClients = 2
  CallbackVibrates = FALSE
  DieWhileRegistering = FALSE
INVARIANTS
  NoMutualWait
  AllTold
  DeadAreReaped
PROPERTY PlugOrder
