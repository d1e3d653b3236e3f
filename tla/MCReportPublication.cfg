CONSTANTS
    Procs = {p1, p2}
    Nobody = Nobody
    Foreign = Foreign
    Kinds = {"baseline", "week2", "week3"}
    Parts <- MCParts
    MaxForeign = 3
    MaxFaults = 2
SPECIFICATION Spec
SYMMETRY MCSymmetry
INVARIANT ForeignKept
PROPERTIES NeverOverwritten PublishedWhole FailureLeavesNothing
