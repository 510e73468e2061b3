SPECIFICATION FairSpec
CONSTANTS
    p1 = p1
    p2 = p2
    w1 = w1
    t1 = t1
    i1 = i1
    Procs = {p1}
    InlineSlots = {}
    HostOf <- NoInline
    Workflows = {w1}
    TenantOf <- OneTenant
    MaxExecutions = 1
    Sources = {"meta", "pos"}
    Days = 1
    InlinePreferred = FALSE
    MaxCrashes = 2
    Environment = {"age", "cancel", "databaseFault", "disable", "remove"}
    MaxRefused = 1
    MaxStalled = 1
CHECK_DEADLOCK FALSE
PROPERTIES
    Settles 
INVARIANTS
    TypeOK
