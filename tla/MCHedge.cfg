SPECIFICATION FairSpec
CONSTANTS
    qa = qa
    qb = qb
    qc = qc
    sa = sa
    sb = sb
    Req = {qa, qb, qc}
    Pool <- MCPool
    Source = {sa, sb}
    Permits = 1
    OriginLimit = 1
    Hedges = 2
INVARIANTS
    AllAsked
PROPERTY
    FetchEnds
CHECK_DEADLOCK FALSE
