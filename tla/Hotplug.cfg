SPECIFICATION Spec
CONSTANTS
  c1 = c1
  c2 = c2
  c3 = c3
  p1 = p1
  p2 = p2
  app = app
  NoPid = NoPid
  NoApp = NoApp
  AnyId = AnyId
  NoOwner = NoOwner
  Pids = {p2}
  Apps = {app}
  MaxCount = 2
  MaxClients = 2
  Overrun = TRUE
  Motors = {1, 2}
  Callers = {c1, c2}
  Devices = {1, 2}
  DeviceOf <- TwoDevices
  VibratorOf <- TwoDevices
  PositionOf <- TwoDevices
  Local = {1}
  Capability <- DelayAndHd
  Requests <- PlugRequests
  Targets <- AnyAndSecond
  SettingsChoices <- OnlyPermissive
  Kinds = {"start", "stop", "session", "plugIn", "plugOut", "disable"}
SYMMETRY CallerSymmetry
INVARIANTS
  UnpluggedMotorQuiet
  LaunchIsClean
  ThreadPlaysRecord
  PlaysWhereAsked
