SPECIFICATION HoldingSpec
CONSTANTS
  a1 = a1
  p1 = p1
  c1 = c1
  None = None
  Accounts = {a1}
  Peers = {p1}
  Contents = {c1}
  Capacities = {1}
  MinNodeCapacity = 1
  MaxHolders = 0
  MaxHoldings = 0
  MaxRegistrations = 1
  MaxDeclarations = 0
  ObservationPeriod = 1
  MaxBlock = 5
  ExistentialDeposit = 1
  Endowment = 12
  GenesisPool = 0
  Parts = 10
  BondPerGB = 10
  GB = 1
  MinDeclaredCapacity = 1
  DeclaredCapacities = {1}
  BondReleaseDelay = 1
  BurnShare = 5
  FragmentCount = 2
  RepairShares = {}
  OriginalShares = 2
  ChallengeWindow = 1
  FailureLimit = 2
  ActiveAt = 2
  AtRiskAt = 1
  MaxKzgHolders = 2
  MaxChallenges = 2
  MaxDue = 2
  SlashRate = 5
  BaseReward = 4
  StoragePoolTarget = 6
  MinWithdrawal = 100
  Score = 1000
  ScoreThreshold = 100
  ScoreHysteresis = 20
  ProofGrain = 1

INVARIANTS EveryChallengeResolves
PROPERTY SlashedOncePerContent
CHECK_DEADLOCK FALSE
