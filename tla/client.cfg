CONSTANTS
    Clients = {1, 2}
    MaxActs = 1
    MaxUnheard = 2
SPECIFICATION FairSpec
INVARIANTS TypeOK ShowsItsSession
PROPERTY PickerComes
CHECK_DEADLOCK FALSE
