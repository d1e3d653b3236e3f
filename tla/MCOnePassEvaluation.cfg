CONSTANTS
    Programmes <- MCProgrammes
    Requested = Requested
    Pinned = Pinned
    Stranger = Stranger
    Fixture = Fixture
    Unknown = Unknown
SPECIFICATION Spec
INVARIANTS OnePassNothingLost CompleteCostIsTrue ComparableIsDeserved VerdictsRight
\* A run ends published, unpublished or refused.
CHECK_DEADLOCK FALSE
