CONSTANTS
  Days = 2
  Minutes = 3
  ArmAt = 2
  DisarmAt = 0
  QuietTime = 3
  GraceTicks = 1
  SoftTicks = 1
  DmsTicks = 2
  RetryTicks = 1
  EthTicks = 2
  OomTicks = 1
  MaxRestarts = 2
  Gaps = {1, 2}
  NoPacketGrace = 1
  FrozenGrace = 2
  StartupGrace = 3
  Window = 3
  MinActive = 1
  TamperCooldown = 2
  PeerTimeout = 3
  MaxPeers = 2
  Nodes = {a, b, c}
SPECIFICATION MCSpec
INVARIANTS OncePerDay RestartsAreBounded OomLoopSurfaces WhatLastsIsNoticed
PROPERTIES AutoArmWaitsIfSeen DeadLinksReboot
