\* Two players, a window of two frames sliding over frames 0..2.
CONSTANTS
  Local = local
  Player = {local, remote}
  Input = {0, 1}
  DefaultInput = 0
  MaxInputHistory = 2
  MaxFrame = 2
  SizeMod = 16
  NoCall = NoCall
SPECIFICATION FairSpec
INVARIANTS GameTypeOK CleanMeansInSync ConfirmedInputsReal ReadsInBounds SafetyInvariant
PROPERTIES ImplementsLockstep EveryFrameConfirmed SpeculationConverges
CHECK_DEADLOCK FALSE
