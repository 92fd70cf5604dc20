CONSTANTS
    v1 = v1
    v2 = v2
    tech = tech
    sport = sport
    VC <- MCVC
    Channels <- MCChannels
    NoChannel = NoChannel
    Outcomes = {"ok"}
    MaxLoads = 3
    MaxFailures = 2
    MaxCrashes = 1
SPECIFICATION FairSpec
PROPERTIES
    LoadShowsNews
CHECK_DEADLOCK FALSE
