SPECIFICATION ReadsSpec
CONSTANTS
    Writer = {wa, wb}
    Reader = {ra}
    Blob = {ba}
    Bytes <- MCBytes
    Nothing = Nothing
    Sizes = {1}
    MaxPending = 2
    MinFree = 1
    DiskSize = 3
    MaxFaults = 1
    MaxChunk = 2
    StrictFrom = 10
    RebaseFrom = 20
    Weave = {0, 10, 20}
    BlockSize = 5
    TxPath <- MCTxPath
    DataPath <- MCDataPath
    Key = {1, 2}
    Bundled = {2}
    Connection = {ca, cb}
    Backfill = 1
    Replay = FALSE
    MaxBreaks = 1
    Thing = {1, 2, 3, 4}
    Spots <- MCSpots
    Of <- MCOf
    PublicKey <- MCPublicKey
    Listings <- MCListings
    MaxChanges = 2
INVARIANTS
    RowsAndFiles
    IntervalProven
    FingerprintsKept
    ListingExact
PROPERTIES
    InUseKept
    FreeKept
    ReclaimEnds
CHECK_DEADLOCK FALSE
