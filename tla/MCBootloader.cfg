SPECIFICATION FairSpec
CONSTANTS
    Sha = {"a", "b"}
    Sound = {"a","b"}
    Proc = {"timer", "manual"}
    Timer = "timer"
    Keep = 1
    MaxMoves = 2
    MaxTrouble = 1
    MaxOverlaps = 1
INVARIANTS LinkAlive
PROPERTIES Converges FailedDeployRestores
