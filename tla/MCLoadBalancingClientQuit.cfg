\* The application disconnects at any time.
CONSTANTS
  Room = {r1, r2}
  NoName = NoName
  Null = Null
SPECIFICATION ClientSpec
INVARIANTS DisconnectStops
