SPECIFICATION Spec
CONSTANTS
    Scopes <- MirrorScopes
    MaxTracked = 2
    MinRecords = 2
    MaxTurns = 2
    Whole = 10
INVARIANTS OverviewCountsTurns
