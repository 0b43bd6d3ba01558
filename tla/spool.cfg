CONSTANTS
    Clients = {1, 2}
    NTerminals = 1
    SpoolLimit = 2
    MaxDocs = 2
    MaxActs = 4
SPECIFICATION Spec
INVARIANTS TypeOK ReaderSeesWhatIsHeld SavedIsTheDocument
CHECK_DEADLOCK FALSE
