CONSTANTS
    ServerLists <- MCServerLists
    Outcomes = {"ok", "undecodable", "fail"}
    MaxFailures = 3
    MaxLaunches = 4
SPECIFICATION Spec
INVARIANTS
    TypeOK
    StoredIsOneList
    SetUpOnce
PROPERTIES
    ShownIsStored
    TitlesAppear
CHECK_DEADLOCK FALSE
