SPECIFICATION FairSpec
CONSTANTS
  b1 = b1
  Browsers = {b1, b2, b3}
  Sockets = {b3}
  NoBrowser = NoBrowser
  MaxAsks <- MCMaxAsks
INVARIANTS TypeOK OneOwner NoMixedResponses NoneForgotten
PROPERTY DeletionEnds
CHECK_DEADLOCK FALSE
