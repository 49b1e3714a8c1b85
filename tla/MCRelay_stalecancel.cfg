SPECIFICATION Spec
CONSTANTS
    narrow = narrow
    wide = wide
    None = None
    Cmd <- OneCmd
    Covers <- OneCovers
    MaxTasks = 1
    MaxConcurrent = 1
    MaxSeq = 2
    MaxCrash = 0
INVARIANT CancelledOnRequest
CHECK_DEADLOCK FALSE
