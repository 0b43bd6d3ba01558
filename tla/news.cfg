CONSTANTS
    Clients = {1, 2}
    Sessions = {1, 2}
    Terms = {1, 3}
    MaxTerminals = 2
    Policy = "Fixed"
    Sizes = {1, 2}
    MaxActs = 5
SPECIFICATION Spec
INVARIANTS TypeOK ReadersAgreeOnTheDesktop SoleReaderMissesNothing
CHECK_DEADLOCK FALSE
