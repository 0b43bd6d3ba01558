SPECIFICATION FairSpec
CONSTANTS
    NClients = 2
    Rows = {grid}
    Values = {blank, text}
    Blank = blank
    Modes = {"TakeOver", "Join"}
    SnapshotWeight = 2
    Backlog = 1
    HighWater = 2
    HardLimit = 3
    MaxPush = 1
    MaxDraws = 2
    MaxLines = 0
    MaxActs = 2
    Frames = FALSE
INVARIANT
    HealUnderWay
PROPERTY
    GapsHeal
