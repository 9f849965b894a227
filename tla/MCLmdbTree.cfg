SPECIFICATION MCSpec
CONSTANTS
    Key = {1, 2, 3, 4, 5, 6}
    BigKeys = {1, 3, 4, 5, 6}
    Long = {2}
    Puts <- MCPuts
    PageRoom = 5
    MaxPages = 12
    MaxDepth = 4
INVARIANTS
    TreeIsSound
PROPERTIES
    ImplementsMap
CHECK_DEADLOCK FALSE
