SPECIFICATION Spec
CONSTANTS
    LaunchRetries = 2
    SlowHelper = FALSE
    StartRetries = 2
    StopRetries = 4
    HelperFailures = 4
    MaxKeys = 2
    MaxFailedConnectionAttempts = 3
    MaxCallbacks = 2
    MaxServiceStarts = 2
    Tests = 3
    MaxPauses = 1
    MaxStarts = 2
CHECK_DEADLOCK FALSE
INVARIANTS
    TypeOK
    StopReachesProcess
    ProcessIsGuarded
    EndsClean
    RegisteredKeyIsStored
    StoredWasGranted
    TunnelIsWatched
    OneResultPerStart
PROPERTIES
    ConnectorsImplement
    StaysSettled
    DeadServiceEnds
    TestEnds
