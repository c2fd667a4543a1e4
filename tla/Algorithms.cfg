CONSTANTS
    RrfK = 60
    TopN = 2
    BadIds = {"z::"}
    MaxChunks = 3
    MaxParagraphs = 4
    MaxNodes = 3
    MaxFiles = 5
    MaxMembers = 2
    MaxDepth = 2
    IgnoredNames = {9}
    NoRepo = "none"
    GuessOf <- Guesses
    MaxBomDepth = 1
SPECIFICATION InputSpec
INVARIANTS
    PagesAreComplete
    PagesAreCutCleanly
    NeighborsAreSound
    ScansAreComplete
    ReposAreSourced
    VersionsAreNearest
