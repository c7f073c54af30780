\* One reader may handle buffered frames after its connection was closed.
CONSTANTS
  c1 = c1  c2 = c2  c3 = c3
  Clients = {c1, c2, c3}
  u1 = u1  u2 = u2
  Users = {u1, u2}
  r1 = r1  r2 = r2
  Rooms = {r1, r2}
  NoClient = NoClient
  NoUser = NoUser
  NoRoom = NoRoom
  DefaultMaxCounts = 2
  RoomLimit = 3
  AskedMaxCounts = {}
  MatchNumbers = {2}
  LateReaders = {c1}
SPECIFICATION Spec
CHECK_DEADLOCK FALSE
SYMMETRY Symmetry
INVARIANTS
  Membership RoomIdsConserved FirstIsMaster SingleSession
PROPERTIES
  LockedOut OnePlacePerUser NoGhostRoom UsesSessions
