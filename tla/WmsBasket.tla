------------------------------- MODULE WmsBasket -------------------------------
(***************************************************************************)
(* Basket picking and packing together: pickers, packers, supervisors and   *)
(* the demand queue at work on the same baskets.                            *)
(***************************************************************************)
EXTENDS WmsPacking

\* Pancake moves an order between confirmed and waiting for printing.
PosUpdate(o) ==
    /\ "pos" \in Ops
    /\ pos' = [pos EXCEPT ![o] = IF @ = "confirmed" THEN "waiting" ELSE "confirmed"]
    /\ UNCHANGED <<stock, basket, order, demands, req>>

\* A handler gives up between its reads and its commit: the client is gone, the
\* process died, the transaction timed out or found what it reads again changed.
Abandon(r) ==
    /\ req[r] # Idle
    /\ End(r)
    /\ UNCHANGED <<stock, basket, order, pos, demands>>

Picking ==
    \/ \E u \in Users, b \in Baskets, os \in SUBSET Orders : Assign(u, b, os)
    \/ \E r \in Requests, u \in Users, b \in Baskets, k \in Units : ScanRead(r, u, b, k)
    \/ \E r \in Requests : ScanCommit(r)
    \/ \E r \in Requests, u \in Users, o \in Orders : HandoffRead(r, u, o)
    \/ \E r \in Requests, packer \in Users : HandoffCommit(r, packer)
    \/ \E r \in Requests, u \in Users, b \in Baskets : VoidRead(r, u, b)
    \/ \E r \in Requests : VoidRelease(r)
    \/ \E r \in Requests : VoidRepair(r)

Upkeep ==
    \/ \E r \in Requests, o \in Orders : QueueRead(r, o)
    \/ \E r \in Requests : QueueWrite(r)
    \/ \E r \in Requests, k \in Units : MoveRead(r, k)
    \/ \E r \in Requests, n \in Bins : MoveCommit(r, n)
    \/ \E o \in Orders : PosUpdate(o)
    \/ \E r \in Requests : Abandon(r)

Packing ==
    \/ \E r \in Requests, u \in Users, b \in Baskets, o \in Orders : WaybillRead(r, u, b, o)
    \/ \E r \in Requests : WaybillCommit(r)
    \/ \E r \in Requests, u \in Users, o \in Orders : StartRead(r, u, o)
    \/ \E r \in Requests : StartCommit(r)
    \/ \E u \in Users, b \in Baskets, o \in Orders, k \in Units : PackScan(u, b, o, k)
    \/ \E r \in Requests, u \in Users, b \in Baskets, o \in Orders, k \in Units :
          LegacyScanRead(r, u, b, o, k)
    \/ \E r \in Requests : LegacyScanCommit(r)
    \/ \E r \in Requests, u \in Users, b \in Baskets, o \in Orders : CompleteRead(r, u, b, o)
    \/ \E r \in Requests : CompleteCommit(r)
    \/ \E u \in Users, b \in Baskets, os \in SUBSET Orders : PackVoid(u, b, os)

Next == Picking \/ Upkeep \/ Packing
Spec == Init /\ [][Next]_vars

-----------------------------------------------------------------------------
(* The ledger: rows, demands and stock, which no foreign key ties together. *)

Counted(b, os) == SumFunctionOnSet([o \in Orders |-> demandPicked[<<b, o>>]], os)
Unpacked == {o \in Orders : order[o].status # "PACKED"}

\* A basket holds exactly the units its unfinished demand counts as picked:
\* scans, hand-offs and queue writes of several workers do not drift apart.
LedgerAgrees == \A b \in Baskets : Counted(b, Unpacked) = Cardinality(RowsIn(b))

\* What the open orders of a basket count as picked really lies in it: a void,
\* its later repair and a scan that was under way leave no phantom units.
CountedUnitsAreThere ==
    \A b \in Baskets : Counted(b, InBasket(b, order, ActiveOrder)) <= Cardinality(RowsIn(b))

\* No bin promises more units than lie in it: two assignments never plan the
\* same unit, and a scan takes only what its own demand was promised.
PromisedStockIsThere ==
    \A n \in Bins :
        SumFunctionOnSet([c \in Cells |-> Remaining(c)],
                         {c \in Cells : c[3] = n /\ order[c[2]].status \in ActiveOrder})
            <= Cardinality(FreeIn(n))

\* A PICKED unit is in a basket; moves between bins never lose one.
PickedUnitHasRow == \A k \in Units : unit[k].status = "PICKED" => row[k].status = "PICKED"

\* A unit passes from one basket to another only by way of a shelf.
CustodyIsContinuous ==
    [][\A k \in Units : HasRow(k) /\ HasRow(k)' => row'[k].basket = row[k].basket]_vars

-----------------------------------------------------------------------------
(* Orders and baskets.                                                      *)

\* An order that is ready for packing, handed off or being packed sits in a
\* basket in which all its units have been picked.
HandedIsComplete ==
    \A o \in Orders : order[o].status \in {"READY_FOR_PACK", "PICKED", "PACKING"} =>
        \E b \in Baskets : order[o].basket = b /\ demandPicked[<<b, o>>] = Qty[o]

\* An order all of whose units were picked is not being picked any more: no
\* order waits for a scan that cannot come.
PickingIsShort ==
    \A o \in Orders : order[o].picked >= Qty[o] => order[o].status # "IN_PICKING"

\* scanPickingBasketUnit, "Bin ... no longer needs ...": no order has more units
\* picked for it than its line requires.
NothingOverpicked == \A b \in Baskets, o \in Orders : demandPicked[<<b, o>>] <= Qty[o]

\* An unfinished order has demand in one basket at most.
OneOpenBasket ==
    \A o \in Unpacked : Cardinality({b \in Baskets : HasDemand(b, o)}) <= 1

\* assertPickingBasketAssignedToUser: "Basket ... is assigned to another picker".
ScannedIntoOwnBasket ==
    [][\A r \in Requests : ScanCommit(r) => basket[req[r].basket].picker = req[r].user]_vars

-----------------------------------------------------------------------------
(* Packing.                                                                 *)

\* Packing verifies a line exactly: scans of two handlers never pack a unit too
\* many for an order ("already has all required ... units packed"), and no order
\* is completed with a unit missing.
PackedOrderVerified ==
    \A o \in Orders :
        /\ Cardinality(PackedFor(o)) <= Qty[o]
        /\ order[o].status = "PACKED" =>
               Cardinality({k \in Units : unit[k].status = "PACKED" /\ row[k].order = o}) >= Qty[o]

\* completePackingBasketOrder, "still has units to verify for packing": a
\* completion finds as many units packed for the order as its line requires.
CompletionIsVerified ==
    [][\A r \in Requests : req[r] = Idle /\ req'[r].op = "complete" =>
          \A o \in req'[r].orders : Cardinality(PackedFor(o)) >= Qty[o]]_vars

\* assertNoOtherDemandPackOrderInProgress, "Finish order ... before scanning the
\* next waybill": a basket has one order being packed at most.
OneOrderBeingPacked ==
    \A b \in Baskets :
        Cardinality({o \in InBasket(b, order, ActiveOrder) : order[o].status = "PACKING"}) <= 1

\* "Finish or void the active PACK work before resetting this basket": a packed
\* unit leaves its basket with its order completed or for its shelf.
PackWorkIsSettled ==
    [][\A k \in Units : row[k].status = "PACKED" /\ row'[k].status = "REMOVED" =>
          order'[row[k].order].status = "PACKED" \/ unit'[k].status = "PUTAWAY"]_vars
=============================================================================
