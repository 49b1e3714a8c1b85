SPECIFICATION FairSpec
CONSTANTS
    viewer = viewer
    Stream <- OneStream
    HistoryMax = 3
    QueueMax = 4
    MaxEvents = 4
    MaxRestarts = 1
PROPERTY StreamsEnd
CHECK_DEADLOCK FALSE
