CONSTANTS
    TotalPages = 4
    Users <- MCUsers
    Outcomes = {"ok"}
    MaxGestures = 8
    MaxFailures = 2
SPECIFICATION Spec
INVARIANTS
    PageShowsItsChannel
PROPERTIES
    PageEventuallyShowsNews
CHECK_DEADLOCK FALSE
