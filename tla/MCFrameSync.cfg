\* Two loops beside the handlers of a room, and the hub, all of them fair.
CONSTANTS
  c1 = c1  c2 = c2
  Clients = {c1, c2}
  u1 = u1  u2 = u2
  Users = {u1, u2}
  r1 = r1
  Rooms = {r1}
  NoClient = NoClient
  NoUser = NoUser
  NoRoom = NoRoom
  DefaultMaxCounts = 2
  RoomLimit = 3
  AskedMaxCounts = {}
  MatchNumbers = {}
  LateReaders = {}
  l1 = l1  l2 = l2
  Loops = {l1, l2}
  MaxFrames = 1
  MaxTicks = 1
SPECIFICATION FrameSpec
CHECK_DEADLOCK FALSE
SYMMETRY Symmetry
INVARIANTS
  FramesKept CacheReaches Driven
