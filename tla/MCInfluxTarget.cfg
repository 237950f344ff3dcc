\* Two workers of a target that pauses the collectors, a good and a bad
\* record, one fault of the database.
SPECIFICATION FairSpec
CONSTANTS
    Workers = {w1, w2}
    Records = {good, bad}
    Matching = {good, bad}
    Bad = {bad}
    QueueCap = 1
    BatchSize = 2
    CreateTries = 1
    StopReadingDataIfDown = TRUE
    CreateDatabaseIfNotExists = TRUE
    MaxFaults = 1
INVARIANTS
    BadIsolated
PROPERTIES
    KeepsPromise
    EventuallySettled
    StopTerminatesWhenHealthy
    OutagePauses
