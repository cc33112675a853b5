\* Up to two objects and a wall, begun and ended, every slot reused.
CONSTANTS
  Place <- Line2
  Trigger = {FALSE, TRUE}
  Invalid = Invalid
  BodySlots = 3
  ColliderSlots = 3
  MaxBodyGeneration = 1
  MaxColliderGeneration = 1
  MaxReferences = 0
  InitialObjects = 1
  ObjectsCapacity = 2
  Walls = 1
SPECIFICATION SampleSpec
INVARIANTS SampleTypeOK EventsMatchOverlaps CountsMatchOverlaps ActiveWorldRestored
CHECK_DEADLOCK FALSE
