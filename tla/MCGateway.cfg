SPECIFICATION GatewaySpec
CONSTANTS
    r1 = r1
    r2 = r2
    a1 = a1
    a2 = a2
    s1 = s1
    s2 = s2
    Request = {r1, r2}
    Scan = Scan
    MaxPermits = 1
    MaxSpool = 1
    Length = 2
    Idle = 2
    Total = 3
    MaxFails = 1
    Half = 2
    MaxWrites = 3
    MaxTime = 4
    MaxFaults = 1
    Asker = {a1, a2}
    Source = {s1, s2}
    Knowing <- MCKnowing
    Depth = 1
    MaxBlocks = 2
PROPERTIES
    RetrievalSound
    StallOnly
    ServingEnds
    PublicationSound
    IndexSettles
CHECK_DEADLOCK FALSE
