SPECIFICATION Spec
CONSTANTS
    NClients = 2
    Rows = {top, bottom}
    Values = {blank, text}
    Blank = blank
    Modes = {"TakeOver"}
    SnapshotWeight = 2
    Backlog = 0
    HighWater = 2
    HardLimit = 3
    MaxPush = 1
    MaxDraws = 2
    MaxLines = 0
    MaxActs = 3
    Frames = FALSE
SYMMETRY RowSymmetry
INVARIANTS
    TypeOK
    MirrorDrawn
    NoGap
    CleanIsCurrent
PROPERTY
    ReplaysTheProgram
