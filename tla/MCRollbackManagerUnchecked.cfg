\* A refused packet still counts as received.
CONSTANTS
  Local = local
  Player = {local, remote}
  Input = {0, 1}
  DefaultInput = 0
  MaxInputHistory = 2
  MaxFrame = 3
  SizeMod = 16
  NoCall = NoCall
SPECIFICATION UncheckedSpec
INVARIANT ConfirmedInputsReal
CHECK_DEADLOCK FALSE
