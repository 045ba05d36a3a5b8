SPECIFICATION ViewerSpec
CONSTANTS
    Tasks = {1}
    NoTask = 0
    MaxVersion = 1
    MaxCalls = 2
    MaxActs = 4
INVARIANTS WithdrawalHolds
CHECK_DEADLOCK FALSE
