SPECIFICATION SpecPart
CONSTANTS
    Device = {d}
    Window = 2
    Skew = 1
    Handlers = {h1, h2}
    MaxRequest = 2
    MaxSecret = 2
    MaxTime = 6
    MaxRestart = 1
    User = {user}
    Owner = user
    UserOf <- OneUser
    Client = {laptop, desktop}
    Legacy = TRUE
    MaxFails = 2
    MaxToken = 2
    MaxDevice = 2
    MaxCalls = 3
    Skill = {s1}
    Server = {m1}
    Note = {n1, n2}
    Dir = {w1}
    MaxStoreCalls = 3
    Raw <- Written
    Name = {"a", "b"}
    Depth = 3
    MaxTasks = 2
    Segment <- Segments
    Conversation = {"c1"}
    Single = {"c1"}
    Sensitive = {"boss"}
    MaxSegments = 2
    Pattern <- Patterns
    Flag = {"-rf"}
    Recursive = {"-rf"}
    SafePath = {"/tmp"}
    LockSec = 3
    MaxLogins = 2
    Ttl = 3
    MaxClock = 7
    MaxSessions = 1
SYMMETRY Alike
INVARIANTS
    TokenOnce
    StoredSecretWorks
    LoadsWhatIsShared
    AnswersHold
    InFlightDisjoint
    AskedForGoodReason
    LockedAsLongAsFailuresLast
PROPERTIES
    AcceptedOnce
    OldSecretRefused
CHECK_DEADLOCK FALSE
