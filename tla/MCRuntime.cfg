SPECIFICATION FairPart
CONSTANTS
    MaxConcurrent = 2
    MaxSubmit = 3
    Stream = {viewer}
    HistoryMax = 2
    QueueMax = 2
    MaxEvents = 6
    MaxRestarts = 1
    MaxProcs = 3
INVARIANTS NoLostWakeup SeamExact EndedMeansOver
PROPERTIES NothingStartsAfterStop Serves StreamsEndIfKept TreeDies ReturnsUnlessHeld
CHECK_DEADLOCK FALSE
