CONSTANTS
    TotalPages = 5
SPECIFICATION Spec
INVARIANTS
    TypeOK
    TitleFollowsPage
    AtMostThree
PROPERTIES
    SettleReachesDelegate
    TapIsServed
    ImplementsPool
