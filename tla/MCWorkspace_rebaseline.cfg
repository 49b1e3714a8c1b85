SPECIFICATION Spec
CONSTANTS
    report = report
    notes = notes
    File <- OneFile
    MaxTasks = 1
    Resumable = FALSE
    MaxVersion = 2
    MaxRuns = 2
    MaxCrash = 0
PROPERTY AutoDoneIsIdle
CHECK_DEADLOCK FALSE
