\* Violated: LockReleased.
CONSTANTS
  c1 = c1  c2 = c2
  Clients = {c1, c2}
  NoClient = NoClient
  MaxEvents = 2
SPECIFICATION StatesSpec
CHECK_DEADLOCK FALSE
SYMMETRY Symmetry
INVARIANTS
  LockReleased
