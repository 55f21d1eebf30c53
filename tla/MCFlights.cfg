SPECIFICATION FairSpec
CONSTANTS
    Caller = {f1, f2, b1}
    Foreground = {f1, f2}
    Outer = {o1, o2}
    Inner = i
    MaxFlights = 4

INVARIANTS
    DemandSeen
PROPERTY CallersAnswered
CHECK_DEADLOCK FALSE
