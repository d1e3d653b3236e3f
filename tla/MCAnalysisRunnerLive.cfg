CONSTANTS
  r1 = r1
  r2 = r2
  r3 = r3
  NoOutcome = NoOutcome
  NoRun = NoRun
  Runs = {r1, r2}
  Results = {"completed"}
  MaxConcurrent = 1
  MaxRuns = 1
  Attempts = 2
  MaxFaults = 1
  MaxForeign = 0
  MaxStreams = 1
SPECIFICATION FairSpec
PROPERTIES
    AcceptedRunAnnounced
    SubmissionAnswered
    ShutdownDrains
CHECK_DEADLOCK FALSE
