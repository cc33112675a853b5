\* Every call sequence on a history of two frames, frames 0..3.
CONSTANTS
  Player = {p0, p1}
  Input = {0, 1}
  DefaultInput = 0
  MaxInputHistory = 2
  MaxFrame = 3
  SizeMod = 16
  NoCall = NoCall
SYMMETRY Symmetry
SPECIFICATION Spec
INVARIANTS TypeOK SpeculationUniform
PROPERTIES DirtyDetectsChange InputsChangeForward
