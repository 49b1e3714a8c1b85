SPECIFICATION Spec
CONSTANTS
    narrow = narrow
    wide = wide
    None = None
    Cmd <- TwoCmds
    Covers <- PrefixCovers
    MaxTasks = 2
    MaxConcurrent = 1
    MaxSeq = 3
    MaxCrash = 1
INVARIANTS GateHolds ApprovalIsSpent
PROPERTY ImplementsLifecycle
CHECK_DEADLOCK FALSE
