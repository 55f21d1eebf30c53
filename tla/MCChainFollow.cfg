SPECIFICATION FairSpec
CONSTANTS
    Importer = {"svc"}
    Follower = {"svc"}
    Starts = {0}
    Ends = {3}
    Block <- MCBlock
    Genesis <- MCGenesis
    NoBlock = NoBlock
    At <- MCAt
    HeightOf <- MCHeightOf
    MaxHeight = 4
    ConsensusDepth = 2
    BatchSize = 2
    MaxFails = 1
    MaxForks = 1
INVARIANTS
    StableAnswersFinal
PROPERTIES
    LogSpec
    CatchesUp
