SPECIFICATION Spec
CONSTANTS
  Elements = {"x", "y"}
  Restored <- Order
  Unstamped = {}
  Uncertain = {"y"}
  Requests = {"r1"}
  Leaves <- Asked
  RingSize = 2
  MaxClock = 2
  MaxDrops = 1
  None = None
INVARIANT TypeOK
INVARIANT InTransit
INVARIANT ReadIsRecent
INVARIANT HistoryAnswers
PROPERTY EverythingEnds
CHECK_DEADLOCK FALSE
