CONSTANTS
    MaxMembers = 2
    MaxDepth = 2
    IgnoredNames = {9}
    NoRepo = "none"
    Cwd <- Home
    MaxWatched = 5
    MaxEdits = 3
    GuessOf <- MCGuessOf
    Layouts <- MCLayouts
    Versions <- MCVersions
    EcosystemOf <- MCEcosystemOf
    Answers <- MCAnswers
SPECIFICATION Spec
INVARIANTS
    TypeOK
    ViewIsCurrent
    WatchesWhatItKnows
PROPERTY
    ForgetsRemoved
CHECK_DEADLOCK FALSE
