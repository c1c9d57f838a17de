SPECIFICATION FairSpec
CONSTANTS
    Threads = {t1, t2}
    Depth = 2
    Reads <- ReadAll
    MaxRuns = 2
    MaxReads = 2
    NoThread = NoThread
INVARIANTS
    TypeOK
    OneBuilder
    OneOutcome
    RunsInScope
    LockOrder
PROPERTIES
    ReadsEnd
