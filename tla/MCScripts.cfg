SPECIFICATION SpecPart
CONSTANTS
    Tools = {"todo", "import", "fields", "approve", "schedule"}
    TodoFiles <- MCTodoFiles
    RecordFiles <- MCRecordFiles
    FieldFiles <- MCFieldFiles
    ScheduleFiles <- MCScheduleFiles
    Instances = {x, y}
    Groups <- MCGroups
    MaxItems = 2
    MaxFields = 2
    MaxBatch = 2
    Version = {"v1", "v2"}
    Healthy = {"v1"}
    Edit = {"e1", "e2"}
    MaxMinute = 2
    MaxInstalls = 3
    MaxPolls = 3
    Retries = 2
    Items = 3
    MaxPages = 3
    Day = 4
    MaxBusy = 2
    Rooms = {"r1"}
    RoomGroups = {"g1"}
    Scripts = {"monthly", "daily", "detail", "checkin", "vacation", "schedule", "record"}
    UserIds = {"u1", "u2", "u3", "d1"}
    RawLists <- MCRawLists
    Members <- MCMembers
    LastDay = 3
    External = {2}
    Ends = {2}
    BatchSize = 2
    SliceDays = 2
    MaxFullPages = 1
    MaxFailures = 2
    Labels = {"A", "B"}
    Sizes <- MCSizes
    MaxUpdates = 2
    MaxCharts = 2
    MaxChanges = 2
    CallIds = {0, 1, 2}
    Conversations <- MCConversations
    ToolIndex = {0, 1}
    MaxChunks = 5
    FlowNodes <- MCFlowNodes
    ViewNodes <- MCViewNodes
    FlowSpecs <- MCSpecs
    SourceViews <- MCSources
    MaxSaves = 2
INVARIANTS
    BatchesHonest
    ReportIsWhole
    TranslatesWhole
    PublishedAsGiven
    DesignKept
    ReportedIsDone
    ShownIsExact
PROPERTIES
    OnlyConfirmed
    ProvisionSafe
CHECK_DEADLOCK FALSE
