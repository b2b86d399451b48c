SPECIFICATION BlockSpec
CONSTANTS
  Miners = {1, 2}
  Keys = {10}
  NoKey = 0
  WindowSize = 2
  AuthorityCount = 1
  RotationPeriod = 1
  RotationDelay = 1
  AdjustWindow = 3
  TargetBlockTime = 4
  MinDifficulty = 10
  InitialDifficulty = 20
  U256Max = 1000000
  MinimumPeriod = 2
  Gaps = {4}
  LastHeight = 4
INVARIANT VotersFollowRotation
CHECK_DEADLOCK FALSE
