\* Fair OnUserOut and a fair loop: abandoned rooms are removed, and loops end.
CONSTANTS
  c1 = c1  c2 = c2
  Clients = {c1, c2}
  u1 = u1  u2 = u2
  Users = {u1, u2}
  r1 = r1
  Rooms = {r1}
  NoClient = NoClient
  NoUser = NoUser
  NoRoom = NoRoom
  DefaultMaxCounts = 2
  RoomLimit = 3
  AskedMaxCounts = {}
  MatchNumbers = {2}
  LateReaders = {}
  l1 = l1
  Loops = {l1}
  MaxFrames = 0
  MaxTicks = 1
SPECIFICATION FairFrameSpec
CHECK_DEADLOCK FALSE
PROPERTIES
  RoomsReclaimed LoopsEnd
