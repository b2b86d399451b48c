SPECIFICATION SceneSpec
CONSTANTS
  a1 = a1  a2 = a2
  p1 = p1  p2 = p2
  c1 = c1  c2 = c2  c3 = c3
  None = None
  Accounts = {a1, a2}
  Peers = {p1, p2}
  Contents = {c1, c2, c3}
  FirstAccount = a1
  FirstPeer = p1
  PostContents = {c1, c2}
  Capacities = {1, 2}
  MinNodeCapacity = 2
  MaxHolders = 1
  MaxHoldings = 2
  MaxRegistrations = 1
  MaxDeclarations = 2
  ObservationPeriod = 2
  MaxBlock = 5
  MaxPosts = 3
  MaxUserPosts = 2
  InitialScore = 2
  LikeWeight = 3
  DislikeWeight = 1
  LowPopularityThreshold = 2
  HysteresisMargin = 1
  GracePeriod = 1
  ScanLimit = 1
  DeleteLimit = 1
  ScanReads = 1
  MaxScore = 4
  Decay <- HalveEachBlock
  Rank <- NewestFirst
SYMMETRY SceneSymmetry
INVARIANTS HoldingsMirrored IndexesAgree
PROPERTIES BudgetCoversGain DeletedOnlyWhenDue ImplementsPostFate
CHECK_DEADLOCK FALSE
