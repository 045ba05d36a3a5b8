SPECIFICATION ScheduledSpec
CONSTANTS
    Procs = {p1, p2}
    NoProc = NoProc
    Keys = {a, b, c}
    Kinds = {"list"}
    MaxEntries = 2
    Weight <- Weights
    Envelope = 1
    MaxBytes = 6
    MaxTime = 0
    MaxChanges = 0
INVARIANTS IndexReadable
PROPERTIES RecentlyUsedKept FlushNeverBlocks
