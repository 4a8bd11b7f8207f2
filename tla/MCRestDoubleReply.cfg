SPECIFICATION Spec
CONSTANTS
  r1 = r1
  r2 = r2
  r3 = r3
  r4 = r4
  start = start
  stop = stop
  NoRequest = NoRequest
  Requests = {r1, r2, r3, r4}
  Commands = {start, stop}
  CommandOf <- SharedCommands
  MaxSessions = 2
  MaxTimerId = 4
  SendFails = TRUE
INVARIANTS
  NeverRepliedTwice
CHECK_DEADLOCK FALSE
