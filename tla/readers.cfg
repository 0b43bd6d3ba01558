CONSTANTS
    Clients = {1, 2}
    MaxActs = 5
SPECIFICATION FairSpec
INVARIANTS TypeOK EverybodyKnowsWhetherIn
PROPERTY HealsEnd
CHECK_DEADLOCK FALSE
