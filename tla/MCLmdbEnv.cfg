CONSTANTS
    Creators = {p1, p2}
    Writers = {p1, p2, p3}
    Readers = {p3}
    None = None
    Dead = Dead
    MaxOpens = 4
    MaxTxn = 2
SPECIFICATION Spec
INVARIANTS
    NothingLost
PROPERTIES
    OpensFail
    OpenEnds
CHECK_DEADLOCK FALSE
