SPECIFICATION FairSpec
CONSTANTS
  a = a
  b = b
  r1 = r1
  r2 = r2
  Clients = {a, b}
  Rooms = {r1, r2}
  Server = Server
  NoRoom = NoRoom
  NoRow = NoRow
  MaxFailures = 2
  MaxPosts = 2
  Loads <- AllLoads
INVARIANTS OnePush NoSkip StoredOnce
PROPERTY PostsSettle
CHECK_DEADLOCK FALSE
