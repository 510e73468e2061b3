SPECIFICATION Spec
CONSTANTS
    shirt = shirt  cap = cap
    u1 = u1  u2 = u2
    Types = {"PROCUREMENT", "SELF_BUY"}
    Lines = {shirt, cap}
    Requested <- Quantity
    MaxBatches = 2
    Callers = {u1, u2}
    MaxEdits = 1
SYMMETRY Users
INVARIANTS TypeOK LedgerIsStock VoidedWhileStaged OverReceiptIsRaced
PROPERTIES StockedByReceipt ClosedReopenedLate LedgerSpec
