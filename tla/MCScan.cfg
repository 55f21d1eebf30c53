SPECIFICATION FairScan
CONSTANTS
    ra = ra
    rb = rb
    Root = {ra, rb}
    Empty = Empty
    Unset = Unset
    Forks <- MCSwapForks
    Width = 1
    Start = 0
    Span = 2
    PageSize = 1
    Downloads = 1
    Depth = 1
    Bad = {ra}
    MaxFails = 1


PROPERTY
    RootsIndexed
    PassComplete
    OldestReplayed
