\* Two workers probe at the moment the server comes back.
SPECIFICATION FairSpec
CONSTANTS
    Workers = {w1, w2}
    Records = {good1, good2}
    Matching = {good1, good2}
    Bad = {}
    QueueCap = 1
    BatchSize = 1
    CreateTries = 1
    StopReadingDataIfDown = TRUE
    CreateDatabaseIfNotExists = TRUE
    MaxFaults = 1
PROPERTY
    ResumesAfterOutage
