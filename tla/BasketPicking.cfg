CONSTANTS
    u1 = u1  u2 = u2
    k1 = k1  k2 = k2  k3 = k3
    b1 = b1  b2 = b2
    n1 = n1  n2 = n2
    o1 = o1  o2 = o2
    r1 = r1  r2 = r2
    NONE = NONE
    Units = {k1, k2, k3}
    Bins = {n1, n2}
    Orders = {o1, o2}
    Baskets = {b1, b2}
    Users = {u1, u2}
    Supervisors = {u1, u2}
    Requests = {r1, r2}
    Qty <- QtyOneTwo
    MaxOrders = 2
    Ops = {"assign", "scan", "handoff", "queue", "pos"}
SYMMETRY Shelf
SPECIFICATION Spec
CHECK_DEADLOCK FALSE
INVARIANTS LedgerAgrees PromisedStockIsThere HandedIsComplete NothingOverpicked OneOpenBasket
PROPERTY ScannedIntoOwnBasket
