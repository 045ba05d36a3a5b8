SPECIFICATION FairSpec
CONSTANTS
    Ids = {i1, i2}
    NoId = NoId
    MaxPending = 1
    MaxMessages = 3
    PipeRoom = 1
    OsErrors = TRUE
PROPERTY AcceptedSettles
CHECK_DEADLOCK FALSE
