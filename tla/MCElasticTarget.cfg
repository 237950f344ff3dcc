\* Two workers, a good and a bad record, one misleading answer.
SPECIFICATION FairSpec
CONSTANTS
    Workers = {w1, w2}
    Records = {good, bad}
    Bad = {bad}
    QueueCap = 1
    BatchSize = 2
    StartTries = 1
    MaxFaults = 1
PROPERTIES
    KeepsPromise
    StopTerminates
    EventuallySettled
