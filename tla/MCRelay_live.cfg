SPECIFICATION FairSpec
CONSTANTS
    narrow = narrow
    wide = wide
    None = None
    Cmd <- OneCmd
    Covers <- OneCovers
    MaxTasks = 2
    MaxConcurrent = 1
    MaxSeq = 4
    MaxCrash = 1
INVARIANTS NoOrphan ScheduledOnce CancelReaches AtMostMaxRunning
PROPERTY EveryTaskSettles
CHECK_DEADLOCK FALSE
