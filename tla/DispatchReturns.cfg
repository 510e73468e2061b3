SPECIFICATION Spec
CONSTANTS
    a = a  b = b  k1 = k1  k2 = k2  r1 = r1  r2 = r2
    Orders = {a, b}
    Units = {k1, k2}
    Need <- TwoAndOne
    Requests = {r1, r2}
    PosSteps <- PancakeSteps
    Dispositions = {"PUTAWAY"}
    MaxPacks = 1
    NONE = NONE
SYMMETRY Same
CONSTRAINT LateOnlyA
CHECK_DEADLOCK FALSE
INVARIANTS TypeOK DispatchedIsShipped PackedOrderKeepsUnits  DisposedIsBack
