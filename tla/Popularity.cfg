SPECIFICATION ContentSpec
CONSTANTS
  a1 = a1
  c1 = c1  c2 = c2  c3 = c3
  None = None
  Accounts = {a1}
  Peers = {}
  Contents = {c1, c2, c3}
  Capacities = {2}
  MinNodeCapacity = 2
  MaxHolders = 1
  MaxHoldings = 2
  MaxRegistrations = 1
  MaxDeclarations = 1
  ObservationPeriod = 2
  MaxBlock = 14
  MaxPosts = 3
  MaxUserPosts = 3
  InitialScore = 2
  LikeWeight = 3
  DislikeWeight = 1
  LowPopularityThreshold = 2
  HysteresisMargin = 1
  GracePeriod = 5
  ScanLimit = 1
  DeleteLimit = 1
  ScanReads = 1
  MaxScore = 20
  Decay <- HalveEachBlock
  Rank <- NewestFirst
SYMMETRY ContentSymmetry
INVARIANTS ScanKeepsUp DuePostsAreDeleted
CHECK_DEADLOCK FALSE
