CONSTANTS
  c1 = c1
  c2 = c2
  o1 = o1
  r1 = r1
  r2 = r2
  NoOwner = NoOwner
  NoRun = NoRun
  Runs = {r1}
  Clients = {c1}
  Owners = {o1}
  MaxEvents = 3
  MaxConnects = 2
SPECIFICATION SseFairSpec
INVARIANT ResumptionHonoured
PROPERTIES SentInOrder SseLeaseReturned SseTerminalDelivered
CHECK_DEADLOCK FALSE
