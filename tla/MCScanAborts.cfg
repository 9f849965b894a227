CONSTANTS
    t1 = t1
    t2 = t2
    s1 = s1
    s2 = s2
    f1 = f1
    f2 = f2
    h1 = h1
    h2 = h2
    p1 = p1
    Thread <- MCThread
    File <- MCFile
    SourceId <- MCSourceId
    Hash <- MCHash
    Prefix = {p1}
    prefix <- MCprefix
    Name = {n1}
    Data = {Blank, d1}
    Blank = Blank
    SubCounts = {2}
    Max2 = 3
    Half4 = 8
    Size8 = 64
    Entropy = {0}
    Label <- MCLabel
    MaxLabelSize = 0
    VarintBase = 2
    MaxExponent = 2
    MaxShift = 2
    MaxCalls = 2
    Scanner <- MCScanner
    Modes <- AllModes
    MaxScans = 2
    MaxCrashes = 0
SPECIFICATION ScanSpec
INVARIANT
    ScanNeverAborts
CHECK_DEADLOCK FALSE
