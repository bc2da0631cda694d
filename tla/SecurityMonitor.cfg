CONSTANTS
  Wrap = 3
  MaxDelay = 1
  MaxGap = 1
  CountMax = 2
  QueueSize = 2
  Configs <- Both
  MaxBlips = 1
  MaxNoise = 1
  DownLimit = 1
  LostFrames = 1
SPECIFICATION MCSpec
INVARIANTS SirenFollowsAlarm RestartKeepsGuard QueueTellsTheStory
PROPERTY RadarRecovers
\* A radar whose driver was never begun has nothing to do.
CHECK_DEADLOCK FALSE
