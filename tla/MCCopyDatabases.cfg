SPECIFICATION Spec
CONSTANTS
    Hash = {1, 2}
    Source = {1, 2}
    Name = {1, 2}
    Repository <- MCRepository
    Blank = "blank"
    NoSource = "none"
    m = 2
    n = 2
    Commands <- AllCommands
    Inputs <- MCInputs
    Destinations <- MCDestinations
    MaxRuns = 2
INVARIANTS
    CopiedExactly
    SourcesDescribed
    ProgressReachesTotal
PROPERTIES
    PreexistingUntouched
