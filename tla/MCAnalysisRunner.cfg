CONSTANTS
  r1 = r1
  r2 = r2
  r3 = r3
  NoOutcome = NoOutcome
  NoRun = NoRun
  Runs = {r1, r2}
  Results = {"completed"}
  MaxConcurrent = 1
  MaxRuns = 2
  Attempts = 2
  MaxFaults = 3
  MaxForeign = 1
  MaxStreams = 1
SPECIFICATION Spec
SYMMETRY Symmetry
INVARIANTS
    RunsWhole
    NoSpuriousFailStop
PROPERTIES
    NothingElseTouched
    NothingAcceptedAfterStop
    ImplementsLifecycle
CHECK_DEADLOCK FALSE
