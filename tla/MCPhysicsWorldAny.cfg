\* Any use of the world, with one body, two colliders and a rollback.
CONSTANTS
  Place <- Line1
  Trigger = {FALSE}
  Invalid = Invalid
  BodySlots = 1
  ColliderSlots = 2
  MaxBodyGeneration = 1
  MaxColliderGeneration = 1
  MaxReferences = 1
SPECIFICATION Spec
INVARIANTS OverlapsLive
