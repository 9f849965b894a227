CONSTANTS
    DataSize = 4
    BufferSize = 7
    RawSize = 3
    BlockSize = 2
    MaxDepth = 2
    Increment = 6
    ZipHeader = 1
    GzipHeader = 1
    ZipMin = 2
    ZipMax = 6
    GzipMax = 6
    MaxBits = 6
    Streams <- MCStreams
    Pieces <- MCPieces
    MaxPieces = 0
    MaxEntries = 0
    BlockBytes = 32
    EntropyTable <- MCEntropyTable
    MaxWords = 8
    UmMax = 3
    Round = 4
    Small = 2
    MaxIds = 0
    Max2 = 3
    Half4 = 100000000
    Size8 = 1000000000
    SourceId = {1, 2}
    Entropy = {0, 1, 5}
    Label <- MCLabel
    MaxLabelSize = 2
    VarintBase = 2
    Hash = {1, 2}
    File = {1, 2}
    BadHash = 0
    NoData = 98
    Blank = 99
    MaxOps = 0
    MaxLines = 0
    MaxExponent = 3
    MaxShift = 12
    MaxCount = 0
SPECIFICATION Spec
INVARIANTS
    EqualBlocksAgree
CHECK_DEADLOCK FALSE
