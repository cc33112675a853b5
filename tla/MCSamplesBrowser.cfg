\* The samples program with the SDL renderer and frames of up to two steps.
CONSTANTS
  Browser = Browser
  Closer = Closer
  Solar = Solar
  Colliders = Colliders
  Bounce = Bounce
  Null = Null
  Observer <- AllObservers
  SkipsNullDraw = FALSE
  FixedDt = 2
  MaxDt = 4
SPECIFICATION BrowserSpec
INVARIANTS BrowserTypeOK NoNullCalls CallsInOrder OneSampleInWorld
PROPERTIES ClosedStops
