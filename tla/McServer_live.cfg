SPECIFICATION ReadyFairSpec
CONSTANTS
    Ids = {1, 2, 3}
    NoId = 0
    MaxPending = 1
    MaxMessages = 3
    PipeRoom = 1
    OsErrors = FALSE
PROPERTIES ReaderStaysResponsive AcceptedSettles ShutdownTerminates
