SPECIFICATION FairSpec
CONSTANTS
    confirm = confirm
    cancel = cancel
    tags = tags
    print = print
    Requests = {confirm, cancel, tags, print}
    TargetOf <- Targets
    System = {print}
    Edits = {12}
    MaxEdits = 1
    Faults = {"redis", "database", "upstream", "rejected", "config", "timeout", "workerCrash", "apiCrash", "delivery", "invalidTag"}
    MaxFaults = 1
    Attempts = 2
    MaxStalled = 0
INVARIANTS
    TypeOK
    LeaseHasReleaser
PROPERTIES
    LostOnlyWithoutLease
    LeaseIsReleased
CHECK_DEADLOCK FALSE
