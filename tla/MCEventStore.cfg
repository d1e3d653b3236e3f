CONSTANTS
  c1 = c1
  c2 = c2
  o1 = o1
  o2 = o2
  r1 = r1
  r2 = r2
  NoOwner = NoOwner
  NoRun = NoRun
  Runs = {r1}
  Clients = {c1, c2}
  Owners = {o1, o2}
  MaxEvents = 2
  MaxConnects = 2
SPECIFICATION Spec
SYMMETRY Symmetry
INVARIANTS
    LogsSound
    NoLostWakeup
PROPERTIES
    ImplementsReplayLog
CHECK_DEADLOCK FALSE
