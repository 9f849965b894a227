CONSTANTS
    Max2 = 3
    Half4 = 8
    Size8 = 64
    SourceId = {1, 2, 4}
    Entropy = {0}
    Label <- MCLabel
    MaxLabelSize = 2
    VarintBase = 2
    Hash = {h1}
    SubCount64 = {0, 1, 3, 4, 12, 63}
    MaxCalls = 5
SPECIFICATION Spec
INVARIANTS
    TypeOK
    CountFaithful
    RecordsFit
PROPERTIES
    ImplementsHashSources
CHECK_DEADLOCK FALSE
