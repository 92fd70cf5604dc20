CONSTANTS
    c1 = c1
    c2 = c2
    Conn <- MCConn
    Page <- MCPage
    WriteLists <- MCWriteLists
    Slots = 2
    MaxTx = 2
    MaxKills = 0
    IdleCheckpoints = TRUE
SPECIFICATION Spec
INVARIANTS
    BackfillWithinLog
CHECK_DEADLOCK FALSE
