CONSTANTS
  Wrap = 2
  MaxDelay = 0
  MaxGap = 1
  CountMax = 2
  Configs <- MCConfigs
  SuppressFrames = 2
  HoldTime = 3
  MinScore = 40
  MlMargin = 70
  ConfThreshold = 60
  WindowTime = 2
  Snapshots <- MCSnapshots
  Corroborations <- Switched
  ZoneLists <- Houses
  MaxDistance = 6
  ClearFrames = 3
  SmoothWindow = 6
  SmoothEnter = 4
  SmoothExit = 5
  HoldMax = 2
  HeartbeatTicks = 3
  WindowMinutes = 3
  RecoverMinutes = 2
  TicksPerMinute = 2
  MlWindow = 3
  MlEnter = 2
  MlExit = 3
  Aps = {"A", "B"}
  LearnTicks = 2
  LearnMin = 1
  CalibTicks = 1
  StuckLimit = 2
  RaiseMax = 1
  AdaptiveMin = 2
  RadarFrames <- Visitors
  Near = 2
  PetLevel = 2
  Misses = 3
  Hold = 2
  Samples = 2
  MaskTime = 2
  LoiterTime = 2
  LearnTime = 1
  LookGap = 1
SPECIFICATION MCSpec
INVARIANTS MotionEnds TrustFollowsTheLastMinutes OneApPerBaseline AbsenceIsEarned
PROPERTIES AlarmNeedsPrimaryEvidence StrongRadarAlarms DelayOnlyOnTheRightPath
  RetainedCatchesUp
