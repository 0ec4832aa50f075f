SPECIFICATION Spec
CONSTANTS
  b1 = b1
  Browsers = {b1, b2}
  Sockets = {}
  NoBrowser = NoBrowser
  MaxAsks <- MCMaxAsks
INVARIANT HandlerFound
CHECK_DEADLOCK FALSE
