CONSTANTS
  Clients = {c1, c2, c3}
  NoClient = NoClient
  MaxCounts = 3
  MaxEvents = 2
SPECIFICATION StepsSpec
SYMMETRY Symmetry
INVARIANT ServerSurvives
CHECK_DEADLOCK FALSE
