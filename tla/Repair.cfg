SPECIFICATION SettledSpec
CONSTANTS
  a1 = a1  a2 = a2  a3 = a3
  c1 = c1
  None = None
  Accounts = {a1, a2, a3}
  Peers = {a1, a2, a3}
  Contents = {c1}
  Capacities = {1}
  MinNodeCapacity = 1
  MaxHolders = 0
  MaxHoldings = 0
  MaxRegistrations = 1
  MaxDeclarations = 0
  ObservationPeriod = 1
  MaxBlock = 4
  ExistentialDeposit = 1
  Endowment = 12
  GenesisPool = 4
  Parts = 10
  BondPerGB = 10
  GB = 1
  MinDeclaredCapacity = 1
  DeclaredCapacities = {1}
  BondReleaseDelay = 2
  BurnShare = 5
  FragmentCount = 1
  RepairShares = {3}
  OriginalShares = 1
  ChallengeWindow = 1
  FailureLimit = 1
  ActiveAt = 2
  AtRiskAt = 1
  MaxKzgHolders = 3
  MaxChallenges = 1
  MaxDue = 2
  SlashRate = 5
  BaseReward = 2
  StoragePoolTarget = 4
  MinWithdrawal = 2
  Score = 1000
  ScoreThreshold = 100
  ScoreHysteresis = 20
  ProofGrain = 1
SYMMETRY HoldingSymmetry
INVARIANT StateFollowsHolders
PROPERTIES RewardsAccounted RepairStopsAtActive
CHECK_DEADLOCK FALSE
