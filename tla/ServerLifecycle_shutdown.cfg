CONSTANTS
    None = None
    Signals = {"SIGTERM", "SIGINT", "SIGHUP"}
    MaxSignals = 3
SPECIFICATION FairSpec
INVARIANTS
    TypeOK
    QuiescentClose
    ZeroMeansEnded
PROPERTY
    SignalEnds
CHECK_DEADLOCK FALSE
