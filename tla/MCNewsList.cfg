CONSTANTS
    v1 = v1
    v2 = v2
    tech = tech
    sport = sport
    VC <- MCVC
    Channels <- MCChannels
    NoChannel = NoChannel
    Outcomes = {"ok", "lastBad", "none", "fail"}
    MaxLoads = 3
    MaxFailures = 1
    MaxCrashes = 1
SPECIFICATION Spec
SYMMETRY Interchangeable
INVARIANTS
    TypeOK
    RowsMatchCategory
    NewsWereAsked
    StoredOnce
    NewestIsStored
CHECK_DEADLOCK FALSE
