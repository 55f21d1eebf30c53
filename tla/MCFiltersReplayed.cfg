SPECIFICATION FilterSpec
CONSTANTS
    Key = {1, 2}
    Bundled = {2}
    Connection = {ca, cb}
    Backfill = 1
    Replay = TRUE
    MaxBreaks = 0
INVARIANT FingerprintsKept
CHECK_DEADLOCK FALSE
