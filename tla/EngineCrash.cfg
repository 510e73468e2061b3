SPECIFICATION Spec
CONSTANTS
    p1 = p1
    p2 = p2
    w1 = w1
    t1 = t1
    i1 = i1
    Procs = {p1,p2}
    InlineSlots = {i1}
    HostOf <- InlineOnP1
    Workflows = {w1}
    TenantOf <- OneTenant
    MaxExecutions = 1
    Sources = {"meta", "pos"}
    Days = 1
    InlinePreferred = FALSE
    MaxCrashes = 1
    Environment = {"age", "queueFault"}
    MaxRefused = 1
    MaxStalled = 1
CHECK_DEADLOCK FALSE
INVARIANTS
    SingleRunner
    BoundedRework
    CompletedIsComplete
