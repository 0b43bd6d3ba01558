CONSTANTS
    MaxText = 9
    MaxString = 6
    MaxChunk = 8
    MaxPayload = 400
    MaxSnapshot = 600
    MaxCellText = 3
    MaxRun = 2
    MaxGrid = 20
    Budget = 440
    ReadBudget = 150
    Reads = {1, 9, 40}
    Traffic <- MCTraffic
SPECIFICATION StreamSpec
INVARIANTS DeliveredInOrder SnapshotFits
CHECK_DEADLOCK FALSE
