SPECIFICATION FairSpec
CONSTANTS
    first = first
    second = second
    ad = ad
    unmatched = unmatched
    Deliveries = {first, second}
    VersionOf <- VersionOfDelivery
    Places = {ad, unmatched}
    PlaceOf <- PlaceOfVersion
    Insights = {ad}
    Modes = {"incremental", "full_reset"}
    Fallbacks = {"inline", "refuse"}
    Attempts = 2
    ReconcileAttempts = 2
    MaxStalled = 1
    Concurrency = 1
    Faults = {"redis", "database", "routing", "timeout", "workerCrash", "apiCrash"}
    MaxFaults = 1
    MaxWindow = 4
INVARIANTS
    TypeOK
    ChangeHasReconcile
    OpenLogHasWork
PROPERTIES
    RowIsCounted
CHECK_DEADLOCK FALSE
