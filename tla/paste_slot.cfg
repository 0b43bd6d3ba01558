SPECIFICATION Spec
CONSTANTS
    NClients = 3
    Credit = 2
    MaxChunks = 3
    MaxPastes = 1
    MaxActs = 1
    MayDrop = {1}
    MayWatch = {2}
CHECK_DEADLOCK FALSE
INVARIANTS
    TypeOK
    NotInterleaved
    NobodyWaitsForNobody
    CreditComesBack
    WaitingIsBounded
