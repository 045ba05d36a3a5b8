SPECIFICATION Spec
CONSTANTS
    Rollouts <- ChainRollouts
    Shapes <- ChainShapes
    Sources <- ChainSources
    MaxLines <- ChainLines
    MaxDamage = 1
    ReadLimit = 9
    MaxSegments = 3
    Entries <- TimedEntries
    MaxEntries = 4
    MaxRequests = 2
    Agents = {1, 2}
    Task = 0
    Stranger = 9
    MaxLogs = 3
    MaxOdd = 1
    MaxTaskAgents = 3
    Counters = {"in", "out"}
    MaxSafe = 4
    Calls <- SmallCalls
    MaxSpent = 5
    QuotaLogs = {"a", "b"}
    Windows = {"primary", "secondary"}
    TailLines = 1
    MaxSamples = 3
    MaxRewrites = 1
    MaxUnread = 1
INVARIANTS
    TypeOK
    HistoryIsRead OutcomeIsJust
    TimingIsExact TimingsKeptHold
    FamilyIsCounted TokensAreAccounted
PROPERTY QuotaIsCurrent
CHECK_DEADLOCK FALSE
