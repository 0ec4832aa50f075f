SPECIFICATION FairSpec
CONSTANTS
  MaxSignals = 2
  MaxListeners = 2
INVARIANTS TypeOK OrderlyEnd
PROPERTIES QuitEnds
CHECK_DEADLOCK FALSE
