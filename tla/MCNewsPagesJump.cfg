CONSTANTS
    TotalPages = 5
    Users <- MCJumpingUsers
    Outcomes = {"ok"}
    MaxGestures = 2
    MaxFailures = 0
SPECIFICATION Spec
INVARIANTS
    PageShowsItsChannel
CHECK_DEADLOCK FALSE
