\* A self-buy request whose only receiving batch was voided.
SPECIFICATION Spec
CONSTANTS
    shirt = shirt  cap = cap
    u1 = u1  u2 = u2
    Types = {"SELF_BUY"}
    Lines = {shirt, cap}
    Requested <- Quantity
    MaxBatches = 1
    Callers = {u1}
    MaxEdits = 0
INVARIANTS ListedCanBeReceived
