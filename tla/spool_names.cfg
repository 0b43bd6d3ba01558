CONSTANTS
    Clients = {1}
    NTerminals = 2
    SpoolLimit = 1
    MaxDocs = 2
    MaxActs = 3
SPECIFICATION Spec
INVARIANT ANameIsOneDocuments
CHECK_DEADLOCK FALSE
