SPECIFICATION SceneSpec
CONSTANTS
  h1 = h1  c1 = c1  e1 = e1  e2 = e2  e3 = e3  k1 = k1
  w1 = w1  s1 = s1  f1 = f1  f2 = f2
  None = None
  Clients = {c1}
  HashKeys = {h1}
  PostKeys = {}
  Sizes = {100}
  Capacity = 100
  OldKeys = {h1}
  MaxFragmentSize = 200
  VerifyOnRead = FALSE
  MaxAge = 2
  GracePeriod = 2
  Endpoints = {e1, e2, e3}
  Home = e1
  Chain <- TwoChains
  FirstStandbys = {e2}
  FailureThreshold = 2
  MaxRetries = 2
  MaxCandidates = 2
  MaxStandbys = 3
  Nowhere = Nowhere
  Shares = {k1}
  Window = 1
  MaxAttempts = 2
  CleanupEvery = 2
  LastBlock = 3
  MaxIssues = 2
  NoChallenge = NoChallenge
  ChainUrls = {w1}
  StoreUrls = {s1}
  Refused = {}
  ForeignUrls = {}
  Fragments = {f1, f2}
  Ttl = 1
  MaxGossipAge = 1
  LastTick = 3
  MaxCancels = 2
  Order = 5
  Plus <- PlusModulo
  Times <- TimesModulo
  Needed = 2
  Dealt = 3
  Spares = {4}
  ByteBase = 2
  ChunkBytes = 2
  Payloads <- Contents
  SetupFile <- TestSetup
  NumG1 = 4
  MaxSpoils = 2
  Lost = Lost
INVARIANTS OneChainOnly SubmittedIsAnswered OfferedWasAlive PutsAreSound SharesVerify HybridRecovers
PROPERTIES GcWaitsForGrace ForgottenIsCollected PendingDrains
CHECK_DEADLOCK FALSE
