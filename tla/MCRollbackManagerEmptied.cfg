\* Confirming the last stored frame loses the prediction.
CONSTANTS
  Local = local
  Player = {local, remote}
  Input = {0, 1}
  DefaultInput = 0
  MaxInputHistory = 2
  MaxFrame = 3
  SizeMod = 16
  NoCall = NoCall
SPECIFICATION GameSpec
INVARIANT PredictionIsLatestInput
CHECK_DEADLOCK FALSE
