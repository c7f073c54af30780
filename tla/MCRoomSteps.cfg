CONSTANTS
  Clients = {c1, c2, c3, c4}
  NoClient = NoClient
  MaxCounts = 4
  MaxEvents = 2
SPECIFICATION StepsSpec
SYMMETRY Symmetry
INVARIANTS
  IdOnce
  MembershipSettles
  NoGhostAtRest
CHECK_DEADLOCK FALSE
