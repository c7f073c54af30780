\* The queue and a room, for groups of three.
CONSTANTS
  c1 = c1  c2 = c2  c3 = c3
  Clients = {c1, c2, c3}
  u1 = u1  u2 = u2
  Users = {u1, u2}
  r1 = r1
  Rooms = {r1}
  NoClient = NoClient
  NoUser = NoUser
  NoRoom = NoRoom
  DefaultMaxCounts = 1
  RoomLimit = 3
  AskedMaxCounts = {}
  MatchNumbers = {1, 3}
  LateReaders = {}
  NoOption = NoOption
  AnyValue = AnyValue
  MatchOptions <- ThreePlayers
  Level <- AllThree
SPECIFICATION MatchSpec
CHECK_DEADLOCK FALSE
SYMMETRY Symmetry
INVARIANTS
  QueueAgrees NoDeadQueued WaitTogether 
PROPERTIES
  CompleteIsMatched UsesRooms
