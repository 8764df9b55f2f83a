CONSTANTS
    TokenLists <- MCTokenLists
    Archives <- MCArchives
    Ranks = {0, 1}
    None = None
    Absent = Absent
SPECIFICATION Spec
INVARIANTS
    TypeOK
    FilterKeepsMatches
    SuccessExtractsAll
    FailureLeavesPrefix
PROPERTIES
    EventuallyTerminates
CHECK_DEADLOCK FALSE
