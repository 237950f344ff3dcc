\* A host with two downtimes that overlap, and a service without any.
SPECIFICATION FairCacheSpec
CONSTANTS
    host = host
    service = service
    d1 = d1
    d2 = d2
    Downtimes = {d1, d2}
    Keys = {host, service}
    Hosts = {host}
    KeyOf <- KeysOfDowntimes
    MaxStart = 2
    Start <- Starts
INVARIANTS
    CacheTypeOK
    SteadyBuildIsExact
PROPERTIES
    DowntimeIsNoticed
    EndIsNoticed
