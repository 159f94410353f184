SPECIFICATION Spec
CONSTANTS
    pull = pull
    backoff = backoff
    crash = crash
    Watched = {pull, backoff}
    Signals = {crash}
    DedupKey <- Failed
    Subject <- Failed
    Legacy = 1
    DedupWindow = 1
    ResyncPeriod = 1
    StartupWindow = 0
    EventLife = 1
    TTL = 1
    Retention = 1
    MaxRecords = 1
    BatchSize = 1
    MaxOcc = 3
    MaxFaults = 1
INVARIANT NoEcho
PROPERTIES
    CapKeepsNewest
    LastingEventIsRecorded
    RetentionDrains
