SPECIFICATION Spec
CONSTANTS
  u1 = u1
  u2 = u2
  e1 = e1
  e2 = e2
  g1 = g1
  g2 = g2
  g3 = g3
  g4 = g4
  Users = {u1, u2}
  Requests = {r1, r2, r3}
  Hosts = {h1, h2}
  Emails = {e1, e2}
  Profiles = {g1, g2, g3, g4}
  Provider <- MCProvider
  Members <- MCMembers
  None = None
  MaxCrashes = 1
SYMMETRY MCSymmetry
INVARIANTS TypeOK OneOwner MirrorExact
CHECK_DEADLOCK FALSE
