CONSTANTS
    a = a
    b = b
    c = c
    File <- MCFile
    filenames <- MCfilenames
    Parts <- MCParts
    Embedded <- MCEmbedded
    MaxDepth = 1
    Worker = {w1, w2}
    max_queue_size = 2
    ReadErrors = TRUE
    MaxRuns = 2
SPECIFICATION CrashSpec
INVARIANTS
    AssertsHold
    IngestedOnce
    DescribedIsComplete
    IngestCompletes
PROPERTIES
    CommandEnds
CHECK_DEADLOCK FALSE
