SPECIFICATION Spec
CONSTANTS
  Hosts = {h1}
  Users = {u1}
  Conns = {c1, c2}
  NoConn = NoConn
  NoInfo = NoInfo
  NoIdentity = NoIdentity
  MaxPings = 1
  MaxRestarts = 0
  Coalesce = FALSE
SYMMETRY ConnsSymmetry
PROPERTIES ImplementsDirectory LivingOwnerStays
