\* The recursion of ExitClient and its closed form, in every reachable state.
CONSTANTS
  c1 = c1  c2 = c2  c3 = c3  c4 = c4
  Clients = {c1, c2, c3, c4}
  u1 = u1  u2 = u2  u3 = u3
  Users = {u1, u2, u3}
  r1 = r1
  Rooms = {r1}
  NoClient = NoClient
  NoUser = NoUser
  NoRoom = NoRoom
  DefaultMaxCounts = 3
  RoomLimit = 2
  AskedMaxCounts = {1}
  MatchNumbers <- Numbers
  LateReaders = {}
SPECIFICATION Spec
CHECK_DEADLOCK FALSE
SYMMETRY Symmetry
INVARIANTS
  TypeOK ExitIsSweep SeatsSound
PROPERTIES
  UserOutIsExit SeatsKept Succession SweepsExplained
