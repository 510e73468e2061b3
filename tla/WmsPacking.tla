------------------------------ MODULE WmsPacking ------------------------------
(***************************************************************************)
(* Packing a handed-off basket: verifying a waybill, scanning units for an  *)
(* order, completing it, and voiding pack work.                             *)
(***************************************************************************)
EXTENDS WmsPicking

\* assertPackingBasketUserAccess
PackAccess(u, b) == u \in Supervisors \/ basket[b].packer = u

\* assertNoOtherDemandPackOrderInProgress
MayOpen(b, o) == \A s \in InBasket(b, order, ActiveOrder) \ {o} : order[s].status # "PACKING"

-----------------------------------------------------------------------------
(* scanPackingBasketWaybill: the basket is read, then locked.               *)

WaybillRead(r, u, b, o) ==
    /\ "waybill" \in Ops
    /\ basket[b].status \in PackBasket /\ PackAccess(u, b)
    /\ order[o].basket = b /\ order[o].status \in {"PICKED", "PACKING"}
    /\ MayOpen(b, o)
    /\ Begin(r, [Idle EXCEPT !.op = "waybill", !.basket = b, !.orders = {o}, !.seen = order[o].status])
    /\ UNCHANGED <<stock, basket, order, pos, demands>>

WaybillCommit(r) ==
    LET b == req[r].basket
        orphans == OrphansIn(b)
    IN
    /\ req[r].op = "waybill"
    /\ order' = [o \in Orders |-> IF o \in req[r].orders /\ req[r].seen = "PICKED"
                                  THEN [order[o] EXCEPT !.status = "PACKING"] ELSE order[o]]
    /\ row' = Removed(row, orphans)
    /\ RefreshBasket(b, order', basket[b].packer, ActiveOrder)
    /\ End(r)
    /\ UNCHANGED <<unit, removedPacked, pos, demands>>

\* startPackingTask: no lock, and no look at the basket's other orders.
StartRead(r, u, o) ==
    LET b == order[o].basket IN
    /\ "start" \in Ops
    /\ order[o].status \in {"PICKED", "PACKING"} /\ b # NONE
    /\ basket[b].status \in PackBasket /\ PackAccess(u, b)
    /\ Begin(r, [Idle EXCEPT !.op = "start", !.basket = b, !.orders = {o}])
    /\ UNCHANGED <<stock, basket, order, pos, demands>>

StartCommit(r) ==
    /\ req[r].op = "start"
    /\ basket' = [basket EXCEPT ![req[r].basket].status = "PACKING"]
    /\ order' = [o \in Orders |-> IF o \in req[r].orders THEN [order[o] EXCEPT !.status = "PACKING"]
                                  ELSE order[o]]
    /\ End(r)
    /\ UNCHANGED <<stock, pos, demands>>

-----------------------------------------------------------------------------
(* Scanning a unit for an order.                                            *)

InProgress(b, o) ==
    order[o].basket = b /\ order[o].status = "PACKING" /\ basket[b].status = "PACKING"

\* "already has all required units packed"
LineOpen(o) == Cardinality(PackedFor(o)) < Qty[o]

Packs(k, o) ==
    /\ row' = [row EXCEPT ![k].status = "PACKED", ![k].order = o]
    /\ unit' = [unit EXCEPT ![k].status = "PACKED"]

\* scanPackingBasketOrderUnitDelta: everything is read under the basket lock.
PackScan(u, b, o, k) ==
    /\ "packScan" \in Ops
    /\ PackAccess(u, b) /\ InProgress(b, o)
    /\ k \in RowsIn(b) /\ row[k].status = "PICKED" /\ unit[k].status = "PICKED"
    /\ LineOpen(o)
    /\ Packs(k, o)
    /\ UNCHANGED <<removedPacked, basket, order, pos, demands, req>>

\* scanPackingBasketOrderUnit without the delta header: the reads come before
\* the lock; only the two updates are guarded.
LegacyScanRead(r, u, b, o, k) ==
    /\ "legacyScan" \in Ops
    /\ PackAccess(u, b) /\ InProgress(b, o)
    /\ k \in RowsIn(b) /\ row[k].status = "PICKED"
    /\ LineOpen(o)
    /\ Begin(r, [Idle EXCEPT !.op = "legacyScan", !.basket = b, !.orders = {o}, !.unit = k])
    /\ UNCHANGED <<stock, basket, order, pos, demands>>

LegacyScanCommit(r) ==
    LET b == req[r].basket k == req[r].unit IN
    /\ req[r].op = "legacyScan"
    /\ row[k].status = "PICKED" /\ row[k].basket = b /\ unit[k].status = "PICKED"
    /\ unit' = [unit EXCEPT ![k].status = "PACKED"]
    /\ \E o \in req[r].orders :
          row' = Removed([row EXCEPT ![k].status = "PACKED", ![k].order = o], OrphansIn(b))
    /\ RefreshBasket(b, order, basket[b].packer, ActiveOrder)
    /\ End(r)
    /\ UNCHANGED <<removedPacked, order, pos, demands>>

-----------------------------------------------------------------------------
(* completePackingBasketOrder.                                              *)

\* A plausible bug: an order completes with units still to be packed.
AllPackedButOne(o) == removedPacked[o] + Cardinality(PackedFor(o)) >= Qty[o] - 1

\* getPackedBasketUnitCount: rows PACKED for the order, and rows REMOVED that
\* once were.
AllPacked(o) == removedPacked[o] + Cardinality(PackedFor(o)) >= Qty[o]

CompleteRead(r, u, b, o) ==
    /\ "complete" \in Ops
    /\ PackAccess(u, b) /\ InProgress(b, o)
    /\ AllPacked(o)
    /\ Begin(r, [Idle EXCEPT !.op = "complete", !.basket = b, !.orders = {o}])
    /\ UNCHANGED <<stock, basket, order, pos, demands>>

\* with releaseCompletedDemandPackUnitsTx: the packed rows leave the basket.
CompleteCommit(r) ==
    LET b == req[r].basket
        done == {k \in Units : row[k].status = "PACKED" /\ row[k].order \in req[r].orders}
    IN
    /\ req[r].op = "complete"
    /\ order' = [o \in Orders |-> IF o \in req[r].orders
                                  THEN [order[o] EXCEPT !.status = "PACKED", !.basket = NONE]
                                  ELSE order[o]]
    /\ row' = Removed(row, done \cup OrphansIn(b))
    /\ removedPacked' = PackedRemoved(done)
    /\ RefreshBasket(b, order', basket[b].packer, ActiveOrder)
    /\ End(r)
    /\ UNCHANGED <<unit, pos, demands>>

-----------------------------------------------------------------------------
(* voidPackingBasketOrders: one transaction under the basket lock.          *)

\* computeDemandActualCountState: a demand has what is packed for it, then the
\* open units of the basket are dealt out to the demands that lack some; the
\* creation order that decides who comes first is left open.  rows: the rows
\* left in the basket; os: the orders with demand in it.
PackedIn(rows, o) == {k \in rows : row[k].status = "PACKED" /\ row[k].order = o}

DemandCounts(rows, os) ==
    LET packed == [o \in os |-> Cardinality(PackedIn(rows, o))]
        open == Max({Cardinality(rows) - SumFunction(packed), 0})
        room == [o \in os |-> Max({Qty[o] - packed[o], 0})]
        dealt == Min({open, SumFunction(room)})
    IN  {[o \in os |-> packed[o] + extra[o]] :
            extra \in {e \in [os -> 0 .. MaxQty] : /\ \A o \in os : e[o] <= room[o]
                                                   /\ SumFunction(e) = dealt}}

\* ... and the same per bin, within each demand's count and the units that
\* came from the bin: no cell could take one more.
BinCounts(b, rows, os, tg, picked) ==
    LET from(o, n) == Cardinality({k \in PackedIn(rows, o) : row[k].source = n})
        base == [c \in os \X Bins |-> IF tg[<<b, c[1], c[2]>>] > 0 THEN from(c[1], c[2]) ELSE 0]
        room(c) == Max({tg[<<b, c[1], c[2]>>] - base[c], 0})
        left(o) == Max({picked[o] - SumFunction([n \in Bins |-> base[<<o, n>>]]), 0})
        pool(n) == Max({Cardinality({k \in rows : row[k].source = n})
                          - SumFunction([o \in os |-> base[<<o, n>>]]), 0})
        ofOrder(e, o) == SumFunction([n \in Bins |-> e[<<o, n>>]])
        ofBin(e, n) == SumFunction([o \in os |-> e[<<o, n>>]])
        fits(e) == /\ \A c \in os \X Bins : e[c] <= room(c)
                   /\ \A o \in os : ofOrder(e, o) <= left(o)
                   /\ \A n \in Bins : ofBin(e, n) <= pool(n)
        full(e) == \A c \in os \X Bins :
                      \/ e[c] = room(c) \/ ofOrder(e, c[1]) = left(c[1]) \/ ofBin(e, c[2]) = pool(c[2])
    IN  {[c \in os \X Bins |-> base[c] + extra[c]] :
            extra \in {e \in [os \X Bins -> 0 .. MaxQty] : fits(e) /\ full(e)}}

\* syncDemandBasketCountsTx, when orders stay in the basket.
SyncCounts(b, rows, tg) ==
    LET os == {o \in Orders : \E n \in Bins : tg[<<b, o, n>>] > 0} IN
    \E picked \in DemandCounts(rows, os) : \E bins \in BinCounts(b, rows, os, tg, picked) :
        /\ demandPicked' = [c \in DOMAIN demandPicked |->
                              IF c[1] # b THEN demandPicked[c] ELSE IF c[2] \in os THEN picked[c[2]] ELSE 0]
        /\ binPicked' = [c \in Cells |->
                              IF c[1] # b THEN binPicked[c] ELSE IF c[2] \in os THEN bins[<<c[2], c[3]>>] ELSE 0]

PackVoid(u, b, os) ==
    LET active == InBasket(b, order, OpsActiveOrder)
        kept == active \ os
        orphans == OrphansIn(b)
        rows == RowsIn(b) \ orphans
        packed == {k \in rows : row[k].status = "PACKED" /\ row[k].order \in os}
        open == {k \in rows : row[k].status = "PICKED" /\ row[k].order = NONE}
        need == SumFunction([o \in kept |-> Max({Qty[o] - Cardinality(PackedIn(rows, o)), 0})])
        surplus == Max({Cardinality(open) - need, 0})
    IN
    /\ "packVoid" \in Ops /\ os # {}
    /\ basket[b].status \in PackBasket /\ PackAccess(u, b)
    /\ os \subseteq active /\ \A o \in os : order[o].status \in {"PICKED", "PACKING"}
    /\ \E released \in {S \in SUBSET open : Cardinality(S) = surplus} :
          LET back == packed \cup released IN
          /\ CanRestore(back)
          /\ unit' = Restored(back)
          /\ row' = Removed(row, back \cup orphans)
          /\ removedPacked' = PackedRemoved(packed)
          /\ target' = Without(target, b, os)
          /\ IF kept # {} THEN SyncCounts(b, rows \ back, target')
             ELSE /\ binPicked' = Without(binPicked, b, os)
                  /\ demandPicked' = Without(demandPicked, b, os)
          /\ LET synced == {o \in Orders : kept # {} /\ \E n \in Bins : target'[<<b, o, n>>] > 0}
                 ords == [o \in Orders |-> IF o \in synced THEN Progressed(o, demandPicked')
                                           ELSE order[o]]
             IN  order' = Reopened(os, {"confirmed", "waiting"}, ords,
                                   Cardinality(FreeUnits \cup back \cup orphans), target')
    /\ RefreshBasket(b, order', basket[b].packer, OpsActiveOrder)
    /\ UNCHANGED <<pos, req>>
=============================================================================
