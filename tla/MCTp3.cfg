SPECIFICATION Spec
CONSTANTS
    N = 3
    Buffered = TRUE
    Repartos <- MCRepartos
INVARIANTS
    TypeOK
    MutualExclusion
    RepliesAccounted
    GrantedInOrder
    HandlersAsserts
    NobodyLeftWaiting
    TwoMessagesSuffice
PROPERTIES
    EveryProcessEnds
    ImplementsExclusion
