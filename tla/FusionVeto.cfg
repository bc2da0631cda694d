CONSTANTS
  Wrap = 2
  MaxDelay = 0
  MaxGap = 1
  CountMax = 2
  Configs <- MCConfigs
  SuppressFrames = 2
  HoldTime = 3
  MinScore = 40
  MlMargin = 70
  ConfThreshold = 60
  WindowTime = 2
  Snapshots <- MCSnapshots
  Corroborations <- On
SPECIFICATION Spec
PROPERTY StrongRadarIsNotVetoed
