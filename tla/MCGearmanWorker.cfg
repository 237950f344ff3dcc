\* One job of one performance data, assigned up to twice, one target whose
\* channel is loaded when it is full.
SPECIFICATION FairSpec
CONSTANTS
    j1 = j1
    Jobs = {j1}
    MaxItems = 1
    Items <- ItemsOfJobs
    Targets = {t1}
    QueueCap = 1
    MaxAssign = 2
INVARIANTS
    TypeOK
    LocksAreOwned
PROPERTIES
    KeepsPromise
    StopTerminates
