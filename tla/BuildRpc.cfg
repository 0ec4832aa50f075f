SPECIFICATION FairSpec
CONSTANTS
  Requests = {r1, r2}
  Servers = {s1, s2}
  Unsplit = {r1}
  NoRequest = NoRequest
  MaxFailures = 1
  MaxInbox = 2
INVARIANTS TypeOK NothingForgotten AtHome
PROPERTIES FinalIsLast Answered
CHECK_DEADLOCK FALSE
