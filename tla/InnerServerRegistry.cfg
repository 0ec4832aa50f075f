SPECIFICATION Spec
CONSTANTS
  Hosts = {h1, h2}
  Users = {u1}
  Conns = {c1, c2}
  NoConn = NoConn
  NoInfo = NoInfo
  NoIdentity = NoIdentity
  MaxPings = 0
  MaxRestarts = 1
  Coalesce = TRUE
SYMMETRY ConnsSymmetry
INVARIANTS TypeOK RegistryExact AnnouncedExact ApprovedIsRegistered OwnerHadHost
