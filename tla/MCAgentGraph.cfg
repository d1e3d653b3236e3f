SPECIFICATION GraphSpec
CONSTANTS
    MaxActionLoops = 4
    MaxLlmCalls = 8
    MaxToolCalls = 12
    MaxExecuteCalls = 5
    MaxProfileCalls = 2
    MaxRepairs = 1
    SoftCost = 9
    HardCost = 11
    Costs <- MCCosts
    Purposes <- MCPurposes
    NoRes = NoRes
    Plans = {"simple", "attribution"}
    ToolErrors <- MCToolErrors
INVARIANTS
    CopiesAgree
    AnswerSound
PROPERTIES
    NothingNewAfterSoftCap
\* A run stops when it ends.
CHECK_DEADLOCK FALSE
