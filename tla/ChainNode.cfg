SPECIFICATION SceneSpec
CONSTANTS
  b1 = b1  b2 = b2  b3 = b3  n1 = n1
  m1 = m1  m2 = m2  m3 = m3  d1 = d1  o1 = o1  o2 = o2  f1 = f1  f2 = f2  f3 = f3
  r1 = r1  s1 = s1  s2 = s2
  ChainNodes = {b1, b2, b3}
  Storers = {n1}
  HomeOf <- OneHome
  Ranges <- PublicOnly
  DevChains = {}
  Interval = 2
  MinInterval = 2
  MaxDelay = 1
  StaleAfter = 5
  MaxSkew = 4
  MaxRegistry = 1
  Streams <- Triangle
  Flapping <- OneStream
  Blank = Blank
  Servers = {s1, s2}
  Signatures = {1, 2}
  Validity = 1
  Ahead = 1
  Horizon = 2
  Never = Never
  Roots = {r1}
  Seed <- HighSeed
  Word = 8
  Total = 2
  MaxLeaves = 2
  OnChain <- SecondOnly
  Committed = {r1}
  Kinds = {"fragment", "shard"}
  Inputs <- Uploads
  Skews = {0}
  MaxSends = 2
  MaxTroubles = 1
  Miners = {1, 2, 3}
  Keys = {10, 20}
  NoKey = 0
  WindowSize = 3
  AuthorityCount = 2
  RotationPeriod = 1
  RotationDelay = 2
  AdjustWindow = 3
  TargetBlockTime = 4
  MinDifficulty = 10
  InitialDifficulty = 20
  U256Max = 1000000
  MinimumPeriod = 2
  Gaps = {2, 30}
  LastHeight = 4
  CheckEvery = 3
  LastBest = 3
  Claimants = {f1, f2, f3}
  RewardAmount = 2
  TotalCap = 5
  ChallengeValidity = 1
  BaseDifficulty = 1
  ScalingFactor = 1
  MaxDifficulty = 2
  Works = {1, 2}
  LastClaimBlock = 4
  People = {d1}
  MessageRoots = {m1, m2, m3}
  OneTimeKeys = {o1, o2}
  Whole = 10
  DmBaseCost = 1
  DmByteCost = 1
  DmBytes = {4}
  BaseFees = {0, 1}
  StoragePermill = 5
  StealthPermill = 4
  ClaimCapPpm = 6
  MaxDispatches = 2
  MaxEntries = 1
  Purse = 30
  Gifts = {2}
  LastDmBlock = 1
  MaxGifts = 1
INVARIANTS NoGhosts SteadyIsListed RunsOnce SpreadOut AckedAreReadable
           FaucetSunset MessagesIndexed StealthBooksBalance
PROPERTIES Quiesces ElectionIsFair DifficultyFollowsPace StaleWorkEnds
CHECK_DEADLOCK FALSE
