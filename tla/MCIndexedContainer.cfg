\* Three slots, generations 0..2, two values.
CONSTANTS
  Value = {v1, v2}
  Invalid = Invalid
  MaxSlots = 3
  MaxGeneration = 2
SPECIFICATION Spec
INVARIANTS TypeOK IssuedAreUsedOrStale
PROPERTY ImplementsHandleTable
