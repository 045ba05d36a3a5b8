SPECIFICATION TrajectorySpec
CONSTANTS
    Scopes <- AllScopes
    MaxTracked = 2
    MinRecords = 2
    MaxTurns = 2
    Whole = 10
    Tasks = {t1, t2}
    NoTask = none
    MaxVersion = 2
    MaxCalls = 2
    MaxActs = 3
SYMMETRY TaskSymmetry
INVARIANTS
    AllTypesOK
    TurnsAreSeparate CountsExact UsageConserved
    PageSound IndexedPageAgrees DetailsAgree
    ShownHoldsTogether ConsentIsFresh PollingNeverStalls LocksAreHeldByRequests
PROPERTY EndedStaysEnded
CHECK_DEADLOCK FALSE
