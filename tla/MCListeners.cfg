CONSTANTS
  Clients = {c1, c2, c3}
  NoClient = NoClient
  MaxMessages = 3
  MaxEvents = 3
SPECIFICATION ListenSpec
SYMMETRY Symmetry
INVARIANTS
  LatestKept
  NoticeReaches
  SubscribersListed
PROPERTIES
  HistoryInOrder
CHECK_DEADLOCK FALSE
