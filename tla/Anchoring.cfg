SPECIFICATION FairSpec
CONSTANTS
  Events = {e1, e2}
  Requests = {p1}
  MaxWindow = 1
  MillisPerSecond = 2
  MaxTime = 3
  MaxFaults = 1
INVARIANT AnchorTxIsWinner
INVARIANT LatestIsNewest
INVARIANT RootsRecompute
INVARIANT CoveredEventsAreLeaves
PROPERTY PendingIsResolved
PROPERTY EveryEventIsAnchored
CHECK_DEADLOCK FALSE
