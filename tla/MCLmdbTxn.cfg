SPECIFICATION MCSpec
CONSTANTS
    w1 = w1
    w2 = w2
    r1 = r1
    Free = Free
    Dead = Dead
    Writers = {w1, w2}
    Readers = {r1}
    Key = {1, 2}
    InitMap = 11
    GrowMargin = 4
    MaxTxn = 4
    MaxPuts = 1
    MaxOpens = 3
    MaxPgno = 14
SYMMETRY Symmetric
INVARIANTS
    NewestIsIntact
    SnapshotIntact
    BuildsOnLastCommit
CHECK_DEADLOCK FALSE
