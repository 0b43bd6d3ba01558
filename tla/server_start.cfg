CONSTANTS
    Servers = {1, 2, 3}
    Clients = {1, 2}
    Descriptors = 2
SPECIFICATION FairSpec
INVARIANTS TypeOK PathIsTheServers
PROPERTY BacklogIsServed
CHECK_DEADLOCK FALSE
