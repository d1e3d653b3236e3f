CONSTANTS
    Programmes <- MCProgrammes
    Requested = Requested
    Pinned = Pinned
    Stranger = Stranger
    Bearer = Bearer
    NoScore = NoScore
    MaxDeviations = 2
SPECIFICATION Spec
INVARIANTS LostByIdentityOnly PassedIsDeserved DeservedPasses
\* A run ends published or cancelled.
CHECK_DEADLOCK FALSE
