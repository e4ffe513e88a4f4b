SPECIFICATION FairSpec
CONSTANTS
  MaxEvents = 3
  NumSubs = 2
  Matches <- MCMatches
  BufferSize = 1
  MaxBoots = 2
INVARIANTS BusInv
PROPERTIES PendingIsServed ImplementsDelivery
CHECK_DEADLOCK FALSE
