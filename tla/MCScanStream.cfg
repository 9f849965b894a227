CONSTANTS
    Thread = {t1, t2, t3}
    Array = {a1, a2, a3}
    Matching = {a1, a2}
SPECIFICATION Spec
INVARIANTS
    EmptyMeansDone
    ReceivedOnce
PROPERTIES
    Delivered
CHECK_DEADLOCK FALSE
