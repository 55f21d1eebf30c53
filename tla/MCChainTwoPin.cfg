SPECIFICATION Spec
CONSTANTS
    Importer = {"svc", "cli"}
    Follower = {"svc"}
    Starts = {0}
    Ends = {3}
    Block <- MCBlock
    Genesis <- MCGenesis
    NoBlock = NoBlock
    At <- MCAt
    HeightOf <- MCHeightOf
    MaxHeight = 3
    ConsensusDepth = 1
    BatchSize = 2
    MaxFails = 0
    MaxForks = 1
INVARIANT
    PinStored
