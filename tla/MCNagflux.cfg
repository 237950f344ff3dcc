\* An InfluxDB that pauses the collectors, an Elasticsearch and a file; one
\* outage, two lives.
SPECIFICATION FairSpec
CONSTANTS
    influx = influx
    elastic = elastic
    file = file
    TargetOrder <- InfluxThenElastic
    Influx = {influx}
    Pausing = {influx}
    FilesOf <- FilesOfCollectors
    Nothing = Nothing
    QueueCap = 1
    MaxOutages = 1
    MaxLives = 2
INVARIANTS
    LossNeedsCause
PROPERTIES
    ShutdownTerminates
    EverythingArrives
CHECK_DEADLOCK FALSE
