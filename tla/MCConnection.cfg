\* Two connections, each of which may close the other; one may read on.
CONSTANTS
  c1 = c1  c2 = c2
  Clients = {c1, c2}
  LateReaders = {c1}
SPECIFICATION FairSpec
CHECK_DEADLOCK FALSE
INVARIANTS
  NoSessionSkipped OneCleaner
PROPERTIES
  ImplementsSession ClosedIsReleased
