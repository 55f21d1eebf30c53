SPECIFICATION ParallelSpec
CONSTANTS
    Importer = {"svc", "cli"}
    Follower = {"svc"}
    Starts = {0}
    Ends = {3}
    Block <- MCBlock
    Genesis <- MCGenesis
    NoBlock = NoBlock
    At <- MCAt
    HeightOf <- MCHeightOf
    MaxHeight = 3
    ConsensusDepth = 1
    BatchSize = 2
    MaxFails = 0
    Asker = {c1}
    Offset = {2, 3}
    RootOf <- MCRootOf
    WeaveOf <- MCWeaveOf
    MaxEntries = 1
    Caller = {n1, n2}
    Name <- MCName
    Registries <- MCRegistries
    ConfigTtl = 2
    MaxCached = 1
    MaxTime = 3
    MaxTransfers = 1
    Request = {r1, r2}
    HashOf <- MCHashOf
    Manifests <- MCManifests
    Targets <- MCTargets
    Requested <- MCRequested
    MaxPaths = 2
    MaxEdits = 1
    Public = {2, 3}
    Configured = {1}
    Bucket = {b1}
    Advertised = {{}, {2}, {2, 3, 9}}
    Claims <- MCClaims
    Whole = 1
    Times = {1, 4}
    UsualTime = 2
    Default = 4
    WeightStep = 2
    Lowest = 1
    Highest = 6
    ChunkOriginLimit = 1
    ProbeEvery = 3
    MaxPeers = 2
    Ledger <- MCLedger
    Own = {"us"}
    GatewayBatch = 2
    MaxAge = 3
    MaxEvents = 3
    Unknown = Unknown
SYMMETRY Symmetric
INVARIANTS
    ChainLinked
    NameCurrent
    BlockedHidden
PROPERTIES
    ProtectedPrefix
    ChunkCurrent
    PeersKept
CHECK_DEADLOCK FALSE
