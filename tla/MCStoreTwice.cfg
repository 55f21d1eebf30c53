SPECIFICATION Spec
CONSTANTS
    w1 = w1
    w2 = w2
    a1 = a1
    a2 = a2
    b1 = b1
    b2 = b2
    Writer = {w1, w2}
    Root = {1, 2}
    Item = {3, 4, 5, 6}
    Nested = {3, 5}
    Matched = {4}
    Contents <- MCContents
    Txs <- MCTwice
    Forks <- MCForks
    MaxDepth = 2
    BatchSize = 2
    Fuel = 8
    Depth = 1
    Replays = 0
    MaxAborts = 0
INVARIANT
    PlacementsCanonical
CHECK_DEADLOCK FALSE
