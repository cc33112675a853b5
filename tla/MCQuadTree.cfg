\* Five boxes in nodes of one, three levels deep.
CONSTANTS
  Box <- MCBox
  WorldBounds <- MCBounds
  MAX_OBJECTS = 1
  MAX_LEVELS = 2
  MaxEntries = 5
SPECIFICATION QuadSpec
INVARIANTS QuadTypeOK StoredOnce AllPairsFound SiblingsApart LoopsUndisturbed
