SPECIFICATION Spec
CONSTANTS
    report = report
    notes = notes
    File <- OneFile
    MaxTasks = 2
    Resumable = TRUE
    MaxVersion = 3
    MaxRuns = 2
    MaxCrash = 1
INVARIANTS ConflictsMutual EarlierVersionSaved SessionKept
CHECK_DEADLOCK FALSE
