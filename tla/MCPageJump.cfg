CONSTANTS
    TotalPages = 5
SPECIFICATION Spec
PROPERTIES
    JumpIsHandled
