SPECIFICATION Spec
CONSTANTS
    report = report
    notes = notes
    File <- OneFile
    MaxTasks = 2
    Resumable = TRUE
    MaxVersion = 3
    MaxRuns = 1
    MaxCrash = 0
INVARIANT BackupIsEarlierVersion
CHECK_DEADLOCK FALSE
