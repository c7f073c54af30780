\* Violated: ListedWhilePeopled.
CONSTANTS
  c1 = c1  c2 = c2  c3 = c3
  Clients = {c1, c2, c3}
  u1 = u1  u2 = u2  u3 = u3
  Users = {u1, u2, u3}
  r1 = r1
  Rooms = {r1}
  NoClient = NoClient
  NoUser = NoUser
  NoRoom = NoRoom
  DefaultMaxCounts = 3
  RoomLimit = 3
  AskedMaxCounts = {}
  MatchNumbers = {}
  LateReaders = {}
SPECIFICATION Spec
CHECK_DEADLOCK FALSE
SYMMETRY Symmetry
PROPERTIES
  ListedWhilePeopled
