SPECIFICATION CodesSpec
CONSTANTS
  Order = 5
  Plus <- PlusModulo
  Times <- TimesModulo
  Needed = 2
  Dealt = 3
  Spares = {4}
  ByteBase = 2
  ChunkBytes = 2
  Payloads <- Contents
  SetupFile <- CeremonySetup
  NumG1 = 4
  MaxSpoils = 0
  Lost = Lost
INVARIANT SharesVerify
CHECK_DEADLOCK FALSE
