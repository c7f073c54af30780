\* Members that set, ask for and lose their states.
CONSTANTS
  c1 = c1  c2 = c2
  Clients = {c1, c2}
  NoClient = NoClient
  MaxEvents = 4
SPECIFICATION FairStatesSpec
CHECK_DEADLOCK FALSE
INVARIANTS
  StatesOfMembers
PROPERTIES
  LockComesFree
