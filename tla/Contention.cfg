SPECIFICATION Spec
CONSTANTS
  c1 = c1
  c2 = c2
  c3 = c3
  p1 = p1
  p2 = p2
  app = app
  NoPid = NoPid
  NoApp = NoApp
  AnyId = AnyId
  NoOwner = NoOwner
  Pids = {p1, p2}
  Apps = {app}
  MaxCount = 2
  MaxClients = 2
  Overrun = FALSE
  Motors = {1}
  Callers = {c1, c2, c3}
  Devices = {1}
  DeviceOf <- OneDevice
  VibratorOf <- OneDevice
  PositionOf <- OneDevice
  Local = {1}
  Capability <- OneMapping
  Requests <- ContentionRequests
  Targets <- OnlyAny
  SettingsChoices <- SomeSettings
  Kinds = {"start", "stop", "mode", "mute", "unmute", "death"}
SYMMETRY CallerSymmetry
INVARIANTS
  TypeOK
  RecordDescribesDevice
  StopIsEffective
  AlarmShielded
  ModeIsSelective
  MutedAudioSilent
  DeathStopsOnlyItsOwn
  DeathCleansUp
