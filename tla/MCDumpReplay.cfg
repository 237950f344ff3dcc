\* Two workers, an old line and a new one that is too long for the reader,
\* two lives; the workers give up batches as often as they like.
SPECIFICATION FairSpec
CONSTANTS
    old1 = old1
    new1 = new1
    Workers = {w1, w2}
    NoWorker = NoWorker
    Lines = {old1, new1}
    OldDump <- OldLines
    LongLines = {new1}
    QueueCap = 1
    BatchSize = 2
    MaxStarts = 2
INVARIANTS
    LossNeedsCause
PROPERTIES
    ReplayEnds
