SPECIFICATION PartsSpec
CONSTANTS
  MaxPieces = 4
  MaxFrags = 3
  Contents <- MCContents
  ChunkSize = 8
  MaxTests = 3
CHECK_DEADLOCK FALSE
INVARIANTS RepairKeepsTagsIfEndsWell RepairOnce WordsSayItAll SpeakableHasWords
INVARIANTS EventsInText ChunksWhole SilentIfAsked AliveWhileUsed
PROPERTY StopReturns
