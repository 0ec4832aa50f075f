SPECIFICATION FairSpec
CONSTANTS
  r1 = r1
  r2 = r2
  r3 = r3
  a1 = a1
  a2 = a2
  h1 = h1
  h2 = h2
  Requests = {r1, r2, r3}
  Accounts = {a1, a2}
  Hosts = {h1, h2}
  Conns = {c1, c2}
  Account <- MCAccount
  Host <- MCHost
  NoConn = NoConn
  NoRequest = NoRequest
  Coalesce = TRUE
INVARIANTS TypeOK RightAnswers Accounted
PROPERTIES PageAnswered
CHECK_DEADLOCK FALSE
