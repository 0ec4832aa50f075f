SPECIFICATION FairSpec
CONSTANTS
  Configs <- MCConfigs
  MaxChanges = 2
  Relays = {r1}
INVARIANTS TypeOK OneServer ConfigAgrees PrivateGuarded
PROPERTIES Obeyed
CHECK_DEADLOCK FALSE
