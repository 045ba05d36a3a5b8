SPECIFICATION Spec
CONSTANTS
    Ids = {i1, i2, i3}
    NoId = NoId
    MaxPending = 2
    MaxMessages = 4
    PipeRoom = 1
    OsErrors = TRUE
SYMMETRY IdSymmetry
INVARIANTS IInv SettledOnce SerialExecution
PROPERTIES CancelledNeverStarts ImplementsLedger
CHECK_DEADLOCK FALSE
