CONSTANTS
    Threads = {t1, t2}
    Producers = {p1, p2}
    Loaders = {p2}
    Main = main
    QueueLimit = 0
    MaxCallbacks = 2
    MaxTime = 1
    Period = 1
    MockDeltas = {1}
SPECIFICATION FairSpec
INVARIANTS InOrder NeverStranded
PROPERTIES AllRun ShutdownEnds
CHECK_DEADLOCK FALSE
