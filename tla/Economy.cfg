SPECIFICATION SceneSpec
CONSTANTS
  a1 = a1  a2 = a2
  None = None
  Accounts = {a1, a2}
  MaxBlock = 4
  Parts = 10
  ExistentialDeposit = 1
  Endowment = 14
  GenesisPool = 5
  BondPerGB = 2
  GB = 2
  MinDeclaredCapacity = 2
  DeclaredCapacities = {1, 3}
  BondReleaseDelay = 1
  BurnShare = 5
  ReactionReward = 60
  GammaMax = 5
  ReactorDecayK = 1
  PayoutCap = 5
  ReactorLockMin = 1
  ReactorLockDuration = 1
  LockAmounts = {0, 2}
  MaxReactions = 1
  PostBaseCost = 2
  PostByteCost = 1
  Sizes = {1}
  Dues = {6}
  SlashRate = 8
  DefaultPostStorageShare = 5
  DefaultPostReactionShare = 2
  ShareChoices = {8}
  BaseFeeInit = 8
  BaseFeeMin = 8
  BaseFeeMax = 10
  GasTarget = 1
  InitialReward = 4
  TailEmission = 1
  HalvingPeriod = 2
  MaxHalvings = 2
  MinerShare = 5
  StorageShare = 3
  ReactionShare = 2
SYMMETRY EconomySymmetry
INVARIANTS PayoutCapHolds ReservesExplained BondTotalAgrees
PROPERTIES NoMoneyFromNothing FeeFollowsLoad
CHECK_DEADLOCK FALSE
