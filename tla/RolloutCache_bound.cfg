SPECIFICATION Spec
CONSTANTS
    MaxAppends = 3
    MaxIndexes = 1
    MaxTrajectories = 1
    Views <- TwoViews
    FullViews <- DetailViews
    Live = "latest"
    MaxFaults = 0
INVARIANTS IndexesBounded
