SPECIFICATION PipelinesSpec
CONSTANTS
    Root = {r1, r2, r3, r4}
    NoJob = NoJob
    Size = {1, 3}
    MaxBytes = 6
    RequestSlots = 1
    Downloads = 2
    MaxJobs = 3
    Headroom = TRUE
    Writers = 2
    MaxRounds = 5
    Height = {1, 2, 3, 4}
    Txs <- MCTxs
    Window = 2
    SelectLimit = 2
    BatchSize = 2
    Batches = 1
    MaxFails = 1
INVARIANTS
    RoomForDownloads
    RequestsAdmitted
    OneJobPerBlock
PROPERTIES
    EveryJobEnds
    ImportCompletes
CHECK_DEADLOCK FALSE
