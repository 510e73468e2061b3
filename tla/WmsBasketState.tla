---------------------------- MODULE WmsBasketState ----------------------------
(***************************************************************************)
(* The rows that basket picking and packing share (apps/api, modules        *)
(* wms-mobile and wms-fulfillment, assignment mode BASKET_DEMAND), and the  *)
(* recomputations every handler ends with.                                 *)
(*                                                                         *)
(* One tenant, store, warehouse and product variation; an order has one     *)
(* line.  A transaction is one step from its basket lock to its commit;     *)
(* what a handler reads before that lock, and still uses afterwards, is a   *)
(* step of its own that leaves the reading in a request (req).              *)
(***************************************************************************)
EXTENDS Integers, FiniteSets, FiniteSetsExt

CONSTANTS
    Units,         \* inventory units of the variation
    Bins,          \* active BIN locations
    Orders, Baskets,
    Users,         \* pickers, packers and supervisors
    Supervisors,   \* holders of the override permissions
    Requests,      \* bound on the handlers between a read and their commit
    Qty,           \* quantityRequired of each order's line
    MaxOrders,     \* wms_baskets.maxFulfillmentOrders
    Ops,           \* the operations in use
    NONE           \* the null reference

Operations == {"assign", "scan", "handoff", "void", "queue", "move", "pos",
               "waybill", "start", "packScan", "legacyScan", "complete", "packVoid"}

ASSUME BasketAssumption ==
    /\ Qty \in [Orders -> Nat \ {0}]
    /\ MaxOrders \in Nat
    /\ IsFiniteSet(Units) /\ IsFiniteSet(Bins) /\ IsFiniteSet(Orders) /\ IsFiniteSet(Baskets)
    /\ Supervisors \subseteq Users
    /\ Ops \subseteq Operations
    /\ NONE \notin Units \cup Bins \cup Orders \cup Baskets \cup Users

VARIABLES
    unit,          \* wms_inventory_units: status and currentLocationId
    row,           \* the unit's latest wms_basket_units row
    removedPacked, \* per order: REMOVED rows that kept packedAt, capped at Qty
    basket,        \* wms_baskets: status, assignedPickerId, assignedPackerId
    order,         \* wms_fulfillment_orders: status, basketId, claimedById, pickedQuantity
    pos,           \* pos_orders.status: 1 confirmed, 12 waiting for printing
    target,        \* wms_basket_pick_demand_bins.quantityTarget (0: no row)
    binPicked,     \* ... and its quantityPicked
    demandPicked,  \* wms_basket_pick_demands.quantityPicked
    req            \* handlers between a read and their commit

stock == <<unit, row, removedPacked>>
demands == <<target, binPicked, demandPicked>>
vars == <<stock, basket, order, pos, demands, req>>

-----------------------------------------------------------------------------
(* Statuses and types.                                                      *)

OrderStatus == {"READY", "PARTIAL", "RESTOCKING", "IN_PICKING", "READY_FOR_PACK",
                "PICKED", "PACKING", "PACKED", "CANCELED"}
\* ACTIVE_BASKET_ORDER_STATUSES of the mobile and the sync service ...
ActiveOrder == OrderStatus \ {"PACKED", "CANCELED"}
\* ... and of the ops service, which has the same name and four members.
OpsActiveOrder == {"IN_PICKING", "READY_FOR_PACK", "PICKED", "PACKING"}
Handed == {"READY_FOR_PACK", "PICKED"}
PickingOrder == {"READY", "PARTIAL", "RESTOCKING", "IN_PICKING"}
QueueOrder == {"READY", "PARTIAL", "RESTOCKING"}
PickBasket == {"ASSIGNED", "IN_PICKING", "FULL_HELD"}
PackBasket == {"FULL_HELD", "PACKING"}

Cells == Baskets \X Orders \X Bins
MaxQty == Max({Qty[o] : o \in Orders} \cup {0})

Request == [op : (Operations \ {"assign", "pos", "packScan", "packVoid"}) \cup {"idle", "repair"},
            user : Users \cup {NONE}, basket : Baskets \cup {NONE},
            orders : SUBSET Orders, unit : Units \cup {NONE}, bin : Bins \cup {NONE},
            seen : {"PICKED", "PACKING"}]
Idle == [op |-> "idle", user |-> NONE, basket |-> NONE, orders |-> {}, unit |-> NONE,
         bin |-> NONE, seen |-> "PICKED"]

TypeOK ==
    /\ unit \in [Units -> [status : {"PUTAWAY", "PICKED", "PACKED"}, bin : Bins \cup {NONE}]]
    /\ row \in [Units -> [status : {"none", "PICKED", "PACKED", "REMOVED"},
                          basket : Baskets \cup {NONE}, order : Orders \cup {NONE},
                          source : Bins \cup {NONE}]]
    /\ removedPacked \in [Orders -> Nat]
    /\ basket \in [Baskets -> [status : {"AVAILABLE", "ASSIGNED", "IN_PICKING", "FULL_HELD", "PACKING"},
                               picker : Users \cup {NONE}, packer : Users \cup {NONE}]]
    /\ order \in [Orders -> [status : OrderStatus, basket : Baskets \cup {NONE},
                             claimedBy : Users \cup {NONE}, picked : Nat]]
    /\ pos \in [Orders -> {"confirmed", "waiting"}]
    /\ target \in [Cells -> Nat] /\ binPicked \in [Cells -> Nat]
    /\ demandPicked \in [Baskets \X Orders -> Nat]
    /\ req \in [Requests -> Request]

\* Units lie in bins; the queue has marked READY what the stock can serve.
Init ==
    /\ \E f \in [Units -> Bins] : unit = [k \in Units |-> [status |-> "PUTAWAY", bin |-> f[k]]]
    /\ row = [k \in Units |-> [status |-> "none", basket |-> NONE, order |-> NONE, source |-> NONE]]
    /\ removedPacked = [o \in Orders |-> 0]
    /\ basket = [b \in Baskets |-> [status |-> "AVAILABLE", picker |-> NONE, packer |-> NONE]]
    /\ \E ready \in SUBSET Orders :
          /\ SumFunctionOnSet(Qty, ready) <= Cardinality(Units)
          /\ order = [o \in Orders |->
                        [status |-> IF o \in ready THEN "READY" ELSE "RESTOCKING",
                         basket |-> NONE, claimedBy |-> NONE, picked |-> 0]]
    /\ pos = [o \in Orders |-> "confirmed"]
    /\ target = [c \in Cells |-> 0] /\ binPicked = [c \in Cells |-> 0]
    /\ demandPicked = [c \in Baskets \X Orders |-> 0]
    /\ req = [r \in Requests |-> Idle]

-----------------------------------------------------------------------------
(* Basket units.                                                            *)

HasRow(k) == row[k].status \in {"PICKED", "PACKED"}
RowsIn(b) == {k \in Units : HasRow(k) /\ row[k].basket = b}
FreeIn(n) == {k \in Units : unit[k].status = "PUTAWAY" /\ unit[k].bin = n /\ ~HasRow(k)}
FreeUnits == UNION {FreeIn(n) : n \in Bins}
PackedFor(o) == {k \in Units : row[k].status = "PACKED" /\ row[k].order = o}

\* Active rows of b whose unit is back on a shelf (a stock move put it there).
OrphansIn(b) == {k \in RowsIn(b) : row[k].order = NONE /\ unit[k].status = "PUTAWAY"}

Removed(rows, S) == [k \in Units |-> IF k \in S THEN [rows[k] EXCEPT !.status = "REMOVED"] ELSE rows[k]]

\* removedPacked after the rows of S were REMOVED.
PackedRemoved(S) ==
    [o \in Orders |-> Min({Qty[o], removedPacked[o] + Cardinality(S \cap PackedFor(o))})]

\* restoreInventoryUnitToPriorStateTx: back to the bin of the PICK movement,
\* unless it is there already; anything else makes the caller throw.
CanRestore(S) ==
    \A k \in S : unit[k].status = row[k].status \/ unit[k] = [status |-> "PUTAWAY", bin |-> row[k].source]
\* Plausible bugs: only the units of one status are put back.
RestoredPackedOnly(S) ==
    [k \in Units |-> IF k \in S /\ row[k].status = "PACKED"
                     THEN [status |-> "PUTAWAY", bin |-> row[k].source] ELSE unit[k]]
RestoredPickedOnly(S) ==
    [k \in Units |-> IF k \in S /\ row[k].status = "PICKED"
                     THEN [status |-> "PUTAWAY", bin |-> row[k].source] ELSE unit[k]]
Restored(S) ==
    [k \in Units |-> IF k \in S THEN [status |-> "PUTAWAY", bin |-> row[k].source] ELSE unit[k]]

-----------------------------------------------------------------------------
(* Demand: what the bins promise to the orders of a basket.                 *)

Remaining(c) == Max({target[c] - binPicked[c], 0})
\* A plausible bug: a bin that has given all it promised is asked for one more.
WantedStill(b, o) == {n \in Bins : 0 < target[<<b, o, n>>] /\ binPicked[<<b, o, n>>] <= target[<<b, o, n>>]}
Wanted(b, o) == {n \in Bins : binPicked[<<b, o, n>>] < target[<<b, o, n>>]}
HasDemand(b, o) == \E n \in Bins : target[<<b, o, n>>] > 0

\* A plausible bug: the demand stays.
WithoutNothing(f, b, os) == f
Without(f, b, os) == [c \in DOMAIN f |-> IF c[1] = b /\ c[2] \in os THEN 0 ELSE f[c]]

\* listDemandAvailableQuantityByWarehouse of an order: free stock less what
\* other orders in hold baskets are still promised.
Available(o, free, tg) ==
    LET held == {c \in Cells : /\ c[2] # o /\ basket[c[1]].status \in PickBasket
                               /\ order[c[2]].status \in {"IN_PICKING", "READY_FOR_PACK", "PICKED"}}
    IN  Max({free - SumFunctionOnSet([c \in Cells |-> Max({tg[c] - binPicked[c], 0})], held), 0})

\* resolveFulfillmentOrderStatus for an order without basket work.
Readiness(o, available) ==
    IF available >= Qty[o] THEN "READY" ELSE IF available > 0 THEN "PARTIAL" ELSE "RESTOCKING"

\* Plausible bugs: an order is picked out one unit too early, or too late.
PickedOutEarly(o, p) == p + 1 >= Qty[o]
PickedOutLate(o, p) == p > Qty[o]
PickedOut(o, p) == p >= Qty[o]

\* refreshFulfillmentOrderState (mobile), refreshFulfillmentOrderProgressState
\* (ops): the order's picked quantity and status from its demand rows.
ProgressStatus(o, p) ==
    IF order[o].status \in {"CANCELED", "PACKED", "PACKING", "PICKED"} THEN order[o].status
    ELSE IF PickedOut(o, p) THEN "READY_FOR_PACK"
    ELSE IF order[o].status = "IN_PICKING" /\ order[o].claimedBy # NONE THEN "IN_PICKING"
    ELSE "READY"

Progressed(o, picked) ==
    LET p == Min({SumFunction([b \in Baskets |-> picked[<<b, o>>]]), Qty[o]})
    IN  [order[o] EXCEPT !.picked = p, !.status = ProgressStatus(o, p)]

-----------------------------------------------------------------------------
(* refreshBasketState, which mobile, ops and sync each have a copy of: the  *)
(* basket from its active orders.  The picker is the claimer of the one     *)
(* updated last; that order is left open.                                   *)

InBasket(b, ords, active) == {o \in Orders : ords[o].basket = b /\ ords[o].status \in active}

BasketStatus(os, ords) ==
    IF \E o \in os : ords[o].status = "PACKING" THEN "PACKING"
    ELSE IF \A o \in os : ords[o].status \in Handed THEN "FULL_HELD"
    ELSE IF \E o \in os : ords[o].picked > 0 \/ ords[o].status = "IN_PICKING" THEN "IN_PICKING"
    ELSE "ASSIGNED"

\* A plausible bug: the id of the order and not of its claimer.
HolderById(o, ords) == o
Holder(o, ords) == ords[o].claimedBy

Refreshed(b, ords, packer, active) ==
    LET os == InBasket(b, ords, active)
        st == BasketStatus(os, ords)
    IN  IF os = {} THEN {[status |-> "AVAILABLE", picker |-> NONE, packer |-> NONE]}
        ELSE {[status |-> st, picker |-> Holder(o, ords),
               packer |-> IF st \in PackBasket THEN packer ELSE NONE] : o \in os}

RefreshBasket(b, ords, packer, active) ==
    \E r \in Refreshed(b, ords, packer, active) : basket' = [basket EXCEPT ![b] = r]

-----------------------------------------------------------------------------
(* Requests.                                                                *)

Begin(r, rec) == req[r] = Idle /\ req' = [req EXCEPT ![r] = rec]
End(r) == req' = [req EXCEPT ![r] = Idle]
=============================================================================
