SPECIFICATION FairSpec
CONSTANTS
    Readers = {r1}
    Clis = {k1}
    KillEmptySession = TRUE
    OnExit = "hold-on-error"
    MaxTerminals = 2
    SessionIds = {1, 2}
    TermIds = {1, 2}
    KillIds = {1, 2}
    MaxActs = 4
INVARIANTS
    TypeOK
    EveryTerminalHasOneHome
    ReadersKnowTheirTerminals
    PickersListWhatIs
    KillIsConfirmed
PROPERTIES
    RunningIsKeptUnlessForced
    ForcedKillEnds
    ClosesAreDecided
    ExitsAreNoticed
CHECK_DEADLOCK FALSE
