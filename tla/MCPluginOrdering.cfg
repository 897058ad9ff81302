\* Every set of up to three declarations of three plugins.
SPECIFICATION FairSpec
CONSTANTS
    N = 3
    Ghost = 0
    Decls <- UpToThree
    UsizeMax = 7
INVARIANTS
    AcceptedOrderHonoursAll
    RejectsOnlyTheImpossible
PROPERTIES
    SortAnswers
CHECK_DEADLOCK FALSE
