SPECIFICATION StoreAlone
CONSTANTS
  h1 = h1  h2 = h2  c1 = c1  c2 = c2  p1 = p1
  None = None
  Clients = {c1, c2}
  HashKeys = {h1}
  PostKeys <- OnePostKey
  Sizes = {100, 200}
  Capacity = 300
  OldKeys = {h1}
  MaxFragmentSize = 200
  VerifyOnRead = TRUE
  MaxAge = 1
  GracePeriod = 1
SYMMETRY StoreSymmetry
INVARIANT UsedExplained
PROPERTY StoresWithinQuota
