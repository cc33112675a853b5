\* Two rooms, and rooms without a name.
CONSTANTS
  Room = {r1, r2}
  NoName = NoName
  Null = Null
SPECIFICATION FairClientSpec
INVARIANTS ClientTypeOK StateMatchesPeer RoomIsThere FriendsAreAwaited StrandedByIgnoredFailures
PROPERTIES RequestsAreAnswered ImplementsSession
