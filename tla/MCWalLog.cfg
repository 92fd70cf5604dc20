CONSTANTS
    c1 = c1
    c2 = c2
    Conn <- MCConn
    Page <- MCPage
    WriteLists <- MCWriteLists
    Slots = 2
    MaxTx = 2
    MaxKills = 1
    IdleCheckpoints = FALSE
SPECIFICATION Spec
SYMMETRY Symmetry
INVARIANTS
    TypeOK
    LocksExclude
    MarksAreSafe
PROPERTIES
    ImplementsStore
CHECK_DEADLOCK FALSE
