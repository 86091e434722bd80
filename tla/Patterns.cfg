SPECIFICATION PipelineSpec
CONSTANTS
  PatternCapacity = 2
  OhEventMax = 3
  HeEventMax = 2
  CurveMin = 2
  CurveMax = 3
  MaxPatternEventNum = 5
  EventNumMax = 2
  MaxEventSize = 2
  MaxPointSize = 3
  MaxPatternNum = 3
  Files <- MCFiles
  Scripts <- MCScripts
  Objects <- MCObjects
  Natives <- MCNatives
  SeekTimes = {90, 120, 210}
  Curves <- MCCurves
  Infos <- MCInfos
  Positions = {1, 2}
  Waves <- MCWaves
  MaxEdits = 2
INVARIANTS
  SplitIsLossless
  SeekKeepsRest
  ModulatedPointwise
  ArrivesUnchanged
  EffectsFollowEvents
CHECK_DEADLOCK FALSE
