\* Two workers may read the one file at once; its name may be twice in the channel.
SPECIFICATION FairSpec
CONSTANTS
    f1 = f1
    Workers = {w1, w2}
    NoWorker = NoWorker
    Files = {f1}
    NoFile = NoFile
    MaxItems = 2
    Items <- ItemsOfFiles
    Targets = {t1}
    JobsCap = 2
    QueueCap = 1
PROPERTIES
    KeepsPromise
    QuietAfterStop
    StopTerminates
    FilesAreWorkedOff
