SPECIFICATION Spec
CONSTANTS
  Configs <- MCPrivateLocal
  MaxChanges = 1
  Relays = {r1}
INVARIANTS PrivateSite
CHECK_DEADLOCK FALSE
