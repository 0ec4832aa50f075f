SPECIFICATION FairSpec
CONSTANTS
  Hosts = {h1}
  Users = {u1}
  Conns = {c1, c2}
  NoConn = NoConn
  NoInfo = NoInfo
  NoIdentity = NoIdentity
  MaxPings = 0
  MaxRestarts = 0
  Coalesce = FALSE
PROPERTIES HostFreed HandshakeEnds
