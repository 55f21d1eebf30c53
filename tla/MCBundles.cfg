SPECIFICATION BundlesSpec
CONSTANTS
    w1 = w1
    w2 = w2
    a1 = a1
    a2 = a2
    b1 = b1
    b2 = b2
    Writer = {w1, w2}
    Root = {1, 2}
    Item = {3, 4, 5, 6}
    Nested = {3, 5}
    Matched = {4}
    Contents <- MCContents
    Txs <- MCTxs
    Forks <- MCForks
    MaxDepth = 2
    BatchSize = 2
    Fuel = 8
    Depth = 1
    Replays = 0
    MaxAborts = 1
    Worlds <- MCWorlds
    Junk = Junk
    NoBundle = NoBundle
    RootId = 0
    Plain = {80}
    Telling = {"x", "y"}
    Lies <- MCLies
    Copies <- MCCopies
    Hidden = {3}
    MaxNesting = 3
    MaxPaths = 4
    RowBatch = 1
    PageSize = 1
    Provable <- MCProvable
    ProvableOf <- MCProvableOf
    HeadersFor <- MCHeadersFor
    TxsFor <- MCTxsFor
    Texts <- MCTexts
    Chunkings <- MCChunkings
    MaxChunk = 3
    Window = 2
    DecodeBlock = 2
    MaxPoints = 2
    IoChunk = 2
    MemoryLimit = 4
    SpoolLimit = 6
    MaxOps = 4
    MaxFaults = 1
    Recorder = {w1, w2}
    Tagged = {1, 2, 3}
    Batches <- MCBatches
    LockOf <- MCLockOf
    MaxKey = 2
    OldRows <- MCOldRows
    PackBatch = 1
    Radix = 4
    HashSize = 1
    ChunkSize = 2
    Fork20 = 3
    Fork24 = 4
    Fork25 = 5
    Fork26 = 6
    Fork27 = 7
    Fork28 = 8
    Fork29 = 9
    Sources <- MCSources
    Discovered <- MCPeers
    MaxAttempts = 2
    Absent = Absent
INVARIANTS
    BundlesServed
    BundlePages
    PlacementsCanonical
    IndexExact
    ContentExact
    TagsExact
    Authentic
SYMMETRY Alike
CHECK_DEADLOCK FALSE
