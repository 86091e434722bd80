SPECIFICATION FairSpec
CONSTANTS
  c1 = c1
  c2 = c2
  c3 = c3
  p1 = p1
  p2 = p2
  app = app
  NoPid = NoPid
  NoApp = NoApp
  AnyId = AnyId
  NoOwner = NoOwner
  Pids = {p1, p2}
  Apps = {app}
  MaxCount = 2
  MaxClients = 1
  Overrun = FALSE
  Motors = {1}
  Callers = {c1, c2}
  Devices = {1}
  DeviceOf <- OneDevice
  VibratorOf <- OneDevice
  PositionOf <- OneDevice
  Local = {1}
  Capability <- OneMapping
  Requests <- PriorityRequests
  Targets <- OnlyAny
  SettingsChoices <- OnlyPermissive
  Kinds = {"start", "stop", "mode", "mute", "unmute", "plugIn", "plugOut", "death"}
PROPERTIES
  PlaybackSpec
  ThreadLockReleased
