------------------------------ MODULE WmsPicking ------------------------------
(***************************************************************************)
(* Picking: assigning orders to a basket, scanning units into it, handing   *)
(* it to a packer, voiding it, the demand queue that makes orders READY,    *)
(* and stock moves between bins.                                            *)
(***************************************************************************)
EXTENDS WmsBasketState

-----------------------------------------------------------------------------
(* assignPickingTasksToBasket: one serializable transaction.                *)

\* A plausible bug: the plan looks at the stock and not at what is promised.
BinRoomUnheld(n, b, os, orphans) ==
    Cardinality(FreeIn(n) \cup {k \in orphans : unit[k].bin = n})

\* getDemandPickBinAvailability: free units less what active orders of active
\* pick baskets are still promised from the bin; b is one of them by now and
\* the earlier demand of os in b is gone.
BinRoom(n, b, os, orphans) ==
    LET held == {c \in Cells : /\ c[3] = n /\ order[c[2]].status \in ActiveOrder
                               /\ c[1] = b \/ basket[c[1]].status \in PickBasket
                               /\ ~(c[1] = b /\ c[2] \in os)}
        free == FreeIn(n) \cup {k \in orphans : unit[k].bin = n}
    IN  Max({Cardinality(free) - SumFunctionOnSet([c \in Cells |-> Remaining(c)], held), 0})

\* createBasketPickDemands: which bins serve which order (expiry dates and
\* sort orders decide) is left open; an order that cannot be served throws.
Plans(b, os, orphans) ==
    {f \in [os \X Bins -> 0 .. MaxQty] :
        /\ \A o \in os : SumFunction([n \in Bins |-> f[<<o, n>>]]) = Qty[o]
        /\ \A n \in Bins : SumFunction([o \in os |-> f[<<o, n>>]]) <= BinRoom(n, b, os, orphans)}

\* A plausible bug: an order that is in a basket already is taken again.
AssignableAgain(o, u) ==
    order[o].status = "READY" /\ order[o].claimedBy \in {NONE, u} /\ pos[o] = "confirmed"
Assignable(o, u) ==
    /\ order[o].status = "READY" /\ order[o].basket = NONE
    /\ order[o].claimedBy \in {NONE, u} /\ pos[o] = "confirmed"

\* A plausible bug: another picker's basket is taken.
AcceptsAny(b, u) == basket[b].status \in {"AVAILABLE", "ASSIGNED", "IN_PICKING"}
Accepts(b, u) ==
    /\ basket[b].status \in {"AVAILABLE", "ASSIGNED", "IN_PICKING"}
    /\ basket[b].picker \in {NONE, u}

Assign(u, b, os) ==
    LET orphans == OrphansIn(b) IN
    /\ "assign" \in Ops /\ os # {}
    /\ \A o \in os : Assignable(o, u)
    /\ Accepts(b, u)
    /\ Cardinality(InBasket(b, order, ActiveOrder)) + Cardinality(os) <= MaxOrders
    /\ \E f \in Plans(b, os, orphans) :
          target' = [c \in Cells |-> IF c[1] = b /\ c[2] \in os THEN f[<<c[2], c[3]>>] ELSE target[c]]
    /\ binPicked' = Without(binPicked, b, os)
    /\ demandPicked' = Without(demandPicked, b, os)
    /\ row' = Removed(row, orphans)
    /\ order' = [o \in Orders |-> IF o \in os THEN [order[o] EXCEPT !.status = "IN_PICKING",
                                                     !.basket = b, !.claimedBy = u]
                                  ELSE order[o]]
    /\ RefreshBasket(b, order', NONE, ActiveOrder)
    /\ UNCHANGED <<unit, removedPacked, pos, req>>

-----------------------------------------------------------------------------
(* scanPickingBasketUnit: reads, then a transaction under the basket lock.  *)

\* findPickingBasketForUnitScan, assertBasketActivePickOrdersPosConfirmed,
\* assertPickingBasketAssignedToUser
ScanBasket(b, u) ==
    /\ basket[b].status \in PickBasket /\ basket[b].picker = u
    /\ \A o \in InBasket(b, order, PickingOrder) : pos[o] = "confirmed"

ScanRead(r, u, b, k) ==
    /\ "scan" \in Ops
    /\ ScanBasket(b, u)
    /\ unit[k].status = "PUTAWAY"
    /\ \E o \in InBasket(b, order, ActiveOrder), c \in Baskets : unit[k].bin \in Wanted(c, o)
    /\ Begin(r, [Idle EXCEPT !.op = "scan", !.user = u, !.basket = b, !.unit = k, !.bin = unit[k].bin])
    /\ UNCHANGED <<stock, basket, order, pos, demands>>

\* A plausible bug: the update of the unit is not guarded.
TakesUnguarded(k, n) == TRUE

\* The guarded updateMany: the unit is still in the bin and no row holds it.
Takes(k, n) == ~HasRow(k) /\ unit[k] = [status |-> "PUTAWAY", bin |-> n]

\* Any demand row of the basket that wants one more from the bin gets the unit
\* (routeSequence decides which).  Neither the basket's picker and status nor
\* the order's are looked at again.  The refresh is of the order's basket.
ScanCommit(r) ==
    LET b == req[r].basket k == req[r].unit n == req[r].bin IN
    /\ req[r].op = "scan"
    /\ Takes(k, n)
    /\ \E o \in Orders :
          /\ n \in Wanted(b, o)
          /\ binPicked' = [binPicked EXCEPT ![<<b, o, n>>] = @ + 1]
          /\ demandPicked' = [demandPicked EXCEPT ![<<b, o>>] = @ + 1]
          /\ order' = [order EXCEPT ![o] = Progressed(o, demandPicked')]
          /\ IF order[o].basket = NONE THEN UNCHANGED basket
             ELSE RefreshBasket(order[o].basket, order', basket[order[o].basket].packer, ActiveOrder)
    /\ unit' = [unit EXCEPT ![k] = [status |-> "PICKED", bin |-> NONE]]
    /\ row' = [row EXCEPT ![k] = [status |-> "PICKED", basket |-> b, order |-> NONE, source |-> n]]
    /\ End(r)
    /\ UNCHANGED <<removedPacked, target, pos>>

-----------------------------------------------------------------------------
(* handoffPickingTask: its transaction takes no lock before its reads.      *)

HandoffRead(r, u, o) ==
    LET b == order[o].basket IN
    /\ "handoff" \in Ops
    /\ order[o].claimedBy = u \/ u \in Supervisors
    /\ b # NONE
    /\ \A s \in Orders : order[s].basket = b => order[s].status \in Handed
    /\ Begin(r, [Idle EXCEPT !.op = "handoff", !.basket = b])
    /\ UNCHANGED <<stock, basket, order, pos, demands>>

HandoffCommit(r, packer) ==
    LET b == req[r].basket IN
    /\ req[r].op = "handoff"
    /\ basket' = [basket EXCEPT ![b].status = "FULL_HELD", ![b].packer = packer]
    /\ order' = [o \in Orders |->
                    IF order[o].basket = b /\ order[o].status = "READY_FOR_PACK"
                    THEN [order[o] EXCEPT !.status = "PICKED"] ELSE order[o]]
    /\ End(r)
    /\ UNCHANGED <<stock, pos, demands>>

-----------------------------------------------------------------------------
(* voidPickingBasket: reads the basket, releases it in one transaction, and *)
(* repairs the orders it had read in another.                               *)

VoidRead(r, u, b) ==
    /\ "void" \in Ops /\ u \in Supervisors
    /\ basket[b].status \in {"ASSIGNED", "IN_PICKING", "FULL_HELD", "PACKING"}
    /\ InBasket(b, order, ActiveOrder) # {}
    /\ \E o \in Orders : HasDemand(b, o)
    /\ Begin(r, [Idle EXCEPT !.op = "void", !.basket = b, !.orders = InBasket(b, order, ActiveOrder)])
    /\ UNCHANGED <<stock, basket, order, pos, demands>>

\* canDetachPackedBasketUnit
CanDetach(k) ==
    LET o == row[k].order IN
    o # NONE => order[o].status \in {"PACKED", "CANCELED"} \/ pos[o] # "confirmed"

\* refreshDemandOrderAvailabilityState of the orders of os; `allowed` are the
\* POS statuses it resets an order in.
Reopened(os, allowed, ords, free, tg) ==
    [o \in Orders |->
        IF o \in os /\ pos[o] \in allowed /\ order[o].status \notin {"PACKED", "CANCELED"}
        THEN [status |-> Readiness(o, Available(o, free, tg)), basket |-> NONE,
              claimedBy |-> NONE, picked |-> 0]
        ELSE ords[o]]

\* releaseDemandBasketTx with allowPackedDetach
VoidRelease(r) ==
    LET b == req[r].basket
        rows == RowsIn(b)
        picked == {k \in rows : row[k].status = "PICKED"}
        freed == [o \in Orders |-> IF order[o].basket = b
                                   THEN [order[o] EXCEPT !.basket = NONE, !.claimedBy = NONE]
                                   ELSE order[o]]
    IN
    /\ req[r].op = "void"
    /\ \A k \in rows \ picked : CanDetach(k)
    /\ CanRestore(picked)
    /\ unit' = Restored(picked)
    /\ row' = Removed(row, rows)
    /\ removedPacked' = PackedRemoved(rows)
    /\ target' = Without(target, b, Orders)
    /\ binPicked' = Without(binPicked, b, Orders)
    /\ demandPicked' = Without(demandPicked, b, Orders)
    /\ order' = Reopened(InBasket(b, order, OpsActiveOrder), {"confirmed"}, freed,
                         Cardinality(FreeUnits \cup picked), target')
    /\ RefreshBasket(b, order', basket[b].packer, OpsActiveOrder)
    /\ req' = [req EXCEPT ![r].op = "repair", ![r].basket = NONE]
    /\ UNCHANGED pos

\* refreshDemandFulfillmentQueueTx over the orders of Q: complete orders take
\* stock first, in an order that is left open; the first of the others may
\* take the rest.
QueueOutcomes(Q, available) ==
    LET need(S) == SumFunctionOnSet(Qty, S)
        full == {R \in SUBSET Q : /\ need(R) <= available
                                  /\ \A o \in Q \ R : need(R) + Qty[o] > available}
        partial(R) == IF need(R) < available /\ Q # R THEN {{o} : o \in Q \ R} ELSE {{}}
    IN  UNION {{[o \in Q |-> IF o \in R THEN "READY" ELSE IF o \in P THEN "PARTIAL" ELSE "RESTOCKING"]
                  : P \in partial(R)} : R \in full}

\* repairReleasedDemandOrders of the orders read before the release, whatever
\* happened to them since.
VoidRepair(r) ==
    LET os == {o \in req[r].orders : order[o].status \notin {"PACKED", "CANCELED"}}
        reset == [o \in Orders |->
                    IF o \in os
                    THEN [status |-> IF pos[o] = "confirmed" THEN "RESTOCKING" ELSE "CANCELED",
                          basket |-> NONE, claimedBy |-> NONE, picked |-> 0]
                    ELSE order[o]]
        Q == {o \in Orders : /\ reset[o].status \in QueueOrder /\ reset[o].basket = NONE
                             /\ pos[o] = "confirmed"}
        \* the orders of Q hold nothing, so every one of them sees the same stock
        held == {c \in Cells : /\ basket[c[1]].status \in PickBasket
                               /\ reset[c[2]].status \in {"IN_PICKING", "READY_FOR_PACK", "PICKED"}}
        available == Max({Cardinality(FreeUnits) - SumFunctionOnSet([c \in Cells |-> Remaining(c)], held), 0})
    IN
    /\ req[r].op = "repair"
    /\ \E f \in QueueOutcomes(Q, available) :
          order' = [o \in Orders |-> IF o \in Q THEN [reset[o] EXCEPT !.status = f[o], !.picked = 0]
                                     ELSE reset[o]]
    /\ End(r)
    /\ UNCHANGED <<stock, basket, pos, demands>>

-----------------------------------------------------------------------------
(* refreshDemandFulfillmentQueue: a chunk's orders are read, then written   *)
(* one by one from that reading, keyed by id alone.                         *)

QueueRead(r, o) ==
    /\ "queue" \in Ops
    /\ order[o].status \in QueueOrder /\ order[o].basket = NONE /\ pos[o] = "confirmed"
    /\ Begin(r, [Idle EXCEPT !.op = "queue", !.orders = {o}])
    /\ UNCHANGED <<stock, basket, order, pos, demands>>

\* What orders earlier in the queue have taken virtually is left open.
QueueWrite(r) ==
    /\ req[r].op = "queue"
    /\ \E o \in req[r].orders, taken \in 0 .. Cardinality(Units) :
          LET left == Max({Available(o, Cardinality(FreeUnits), target) - taken, 0})
          IN  order' = [order EXCEPT ![o].status = Readiness(o, left), ![o].picked = 0]
    /\ End(r)
    /\ UNCHANGED <<stock, basket, pos, demands>>

-----------------------------------------------------------------------------
(* moveStockUnit between bins: the unit is read, then written by id.        *)

MoveRead(r, k) ==
    /\ "move" \in Ops
    /\ unit[k].status = "PUTAWAY"
    /\ Begin(r, [Idle EXCEPT !.op = "move", !.unit = k, !.bin = unit[k].bin])
    /\ UNCHANGED <<stock, basket, order, pos, demands>>

MoveCommit(r, n) ==
    /\ req[r].op = "move"
    /\ n # req[r].bin
    /\ unit' = [unit EXCEPT ![req[r].unit] = [status |-> "PUTAWAY", bin |-> n]]
    /\ End(r)
    /\ UNCHANGED <<row, removedPacked, basket, order, pos, demands>>
=============================================================================
