SPECIFICATION GraphFairSpec
CONSTANTS
    MaxActionLoops = 2
    MaxLlmCalls = 5
    MaxToolCalls = 5
    MaxExecuteCalls = 4
    MaxProfileCalls = 1
    MaxRepairs = 2
    SoftCost = 5
    HardCost = 7
    Costs <- MCCosts
    Purposes <- MCPurposes
    NoRes = NoRes
    Plans = {"simple", "attribution"}
    ToolErrors <- MCToolErrors
INVARIANTS
    LedgerSound
    ReservedForCall
    RecordsTruthful
    LoopReserved
    RoundsCounted
PROPERTIES
    NothingBegunLate
    ImplementsInvoker
    RunEnds
\* A run stops when it ends.
CHECK_DEADLOCK FALSE
