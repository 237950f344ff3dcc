\* Files of every kind, room for one record, two lives, one failing removal.
SPECIFICATION FairSpec
CONSTANTS
    f1 = f1
    f2 = f2
    Files = {f1, f2}
    NoFile = NoFile
    Empty = {f2}
    MaxRecords = 2
    Records <- RecordsOfFiles
    Targets = {t1, t2}
    QueueCap = 1
    MaxLives = 2
    MaxFailures = 1
INVARIANTS
    CopiesBounded
PROPERTIES
    KeepsPromise
    FilesAreWorkedOff
