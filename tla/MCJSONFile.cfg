\* Three records for the target and one for another; one clash, one failure.
SPECIFICATION FairFileSpec
CONSTANTS
    Printables = {r1, r2, r3, foreign}
    Matching = {r1, r2, r3}
    NoRecord = NoRecord
    FileQueueCap = 1
    Rotation = TRUE
    MaxClashes = 1
    MaxFailures = 1
INVARIANTS
    FileTypeOK
    LossNeedsCause
    CopiesBounded
PROPERTIES
    QueriesAreWritten
CHECK_DEADLOCK FALSE
