CONSTANTS
    ServerLists <- MCServerLists
    Outcomes = {"ok", "undecodable", "fail"}
    MaxFailures = 1
    MaxLaunches = 2
SPECIFICATION Spec
PROPERTIES
    RequestIsReported
CHECK_DEADLOCK FALSE
