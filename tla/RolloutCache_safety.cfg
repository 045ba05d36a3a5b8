SPECIFICATION FairSpec
CONSTANTS
    MaxAppends = 2
    MaxIndexes = 1
    MaxTrajectories = 1
    Views <- TwoViews
    FullViews <- DetailViews
    Live = "latest"
    MaxFaults = 2
INVARIANTS PureCaches RevisionIsExact LiveNotStale IInv
PROPERTIES LiveCatchesUp
