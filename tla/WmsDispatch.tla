----------------------------- MODULE WmsDispatch -----------------------------
(***************************************************************************)
(* Packed basket-demand orders from the packing bench to the courier and    *)
(* back: pack void, POS status changes, dispatch sync, dispatch void and    *)
(* its repair, verification and disposition of returned units.             *)
(*                                                                         *)
(* What ties a unit to an order after its basket is gone is the unit's      *)
(* wms_basket_units rows, which are never deleted: every one that is PACKED *)
(* or was (REMOVED with packedAt) tracks the unit for the order, also after *)
(* a void gave the unit back.                                               *)
(*                                                                         *)
(* Picking and the basket are reduced to what they leave behind (WmsPicking *)
(* and WmsPacking have them): one basket, one variation, bins left out.     *)
(*                                                                         *)
(* A handler that reads before it locks, or takes no lock, is a read and a  *)
(* write with a request between them; the write goes by the order's id.     *)
(***************************************************************************)
EXTENDS Integers, FiniteSets, FiniteSetsExt, Functions

CONSTANTS
    Orders, Units,
    Need,          \* totalQuantity of each order
    Requests,      \* bound on the handlers between a read and their write
    PosSteps,      \* the POS status changes Pancake may report
    Dispositions,  \* statuses a returned unit may be disposed to
    MaxPacks,      \* bound on how often a unit is packed for an order
    NONE

\* POS statuses of an order that left the house
Out == {"shipped", "returning", "returned"}

ASSUME DispatchAssumption ==
    /\ IsFiniteSet(Units)
    /\ Need \in [Orders -> Nat \ {0}]
    /\ MaxPacks \in Nat
    /\ Dispositions \subseteq {"PUTAWAY", "DAMAGED"}
    /\ NONE \notin Orders
    \* what has left the house does not become an order to be picked again
    /\ \A step \in PosSteps : step[1] \in Out => step[2] \in Out

VARIABLES
    order,      \* wms_fulfillment_orders.status
    held,       \* orders with the basketId
    pos,        \* pos_orders.status
    disposed,   \* rtsDisposedAt is set
    unit,       \* wms_inventory_units.status
    loose,      \* units with a row PICKED
    packedFor,  \* the order of a unit's row PACKED
    past,       \* per order and unit: rows REMOVED that kept packedAt
    recorded,   \* activities ORDER_RTS_DISPOSITION of each order: their units
    req,        \* handlers between a read and their write
    voided,     \* history: the orders a void or a repair has reopened
    late        \* history: the orders a packing write met changed since its read

rows == <<loose, packedFor, past>>
history == <<voided, late>>
vars == <<order, held, pos, disposed, unit, rows, recorded, req, history>>

\* READY: in the queue, being picked or READY_FOR_PACK.
OrderStatus == {"READY", "PICKED", "PACKING", "PACKED", "CANCELED"}
\* open: before dispatch (1, 12, ...); shipped: 2, 3; returning: 4;
\* returned: 5; canceled: 6.
PosStatus == {"open", "shipped", "returning", "returned", "canceled"}
\* DAMAGED: any of DEADSTOCK, DAMAGED, LOST and ARCHIVED.
UnitStatus == {"PUTAWAY", "PICKED", "PACKED", "DISPATCHED", "RTS", "DAMAGED"}
\* RETURNED_EQUIVALENT_UNIT_STATUSES
ReturnedEquivalent == {"RTS", "PUTAWAY", "DAMAGED"}

\* order and units: what a handler has read; rows: the units whose row it read
\* PACKED; to: what its write will set, a unit's status or, for a void, the
\* order's.
Request ==
    {q \in [op : {"idle", "start", "scan", "complete", "cancel", "sync", "verify",
                  "dispose", "record", "void", "repair"},
            order : Orders \cup {NONE}, units : SUBSET Units, rows : SUBSET Units,
            to : Dispositions \cup {"READY", "CANCELED", NONE}] :
        /\ q.op \notin {"idle", "sync"} => q.order # NONE
        /\ q.op = "dispose" => q.to \in Dispositions}
Having(op, o, S, to) == [op |-> op, order |-> o, units |-> S, rows |-> {}, to |-> to]
Idle == Having("idle", NONE, {}, NONE)

TypeOK ==
    /\ order \in [Orders -> OrderStatus]
    /\ held \subseteq Orders
    /\ pos \in [Orders -> PosStatus]
    /\ disposed \in [Orders -> BOOLEAN]
    /\ unit \in [Units -> UnitStatus]
    /\ loose \subseteq Units
    /\ packedFor \in [Units -> Orders \cup {NONE}]
    /\ past \in [Orders -> [Units -> 0 .. MaxPacks]]
    /\ recorded \in [Orders -> SUBSET Units]
    /\ req \in [Requests -> Request]
    /\ voided \subseteq Orders
    /\ late \subseteq Orders

Init ==
    /\ order = [o \in Orders |-> "READY"]
    /\ held = {}
    /\ pos = [o \in Orders |-> "open"]
    /\ disposed = [o \in Orders |-> FALSE]
    /\ unit = [k \in Units |-> "PUTAWAY"]
    /\ loose = {}
    /\ packedFor = [k \in Units |-> NONE]
    /\ past = [o \in Orders |-> [k \in Units |-> 0]]
    /\ recorded = [o \in Orders |-> {}]
    /\ req = [r \in Requests |-> Idle]
    /\ voided = {}
    /\ late = {}

-----------------------------------------------------------------------------
(* Rows.                                                                    *)

PackedRows(o) == {k \in Units : packedFor[k] = o}

\* isHistoricallyPackedDemandBasketUnit, as units and as a number of rows
Tracked(o) == PackedRows(o) \cup {k \in Units : past[o][k] > 0}
HistoricRows(o) == Cardinality(PackedRows(o)) + SumFunctionOnSet(past[o], Units)

\* A plausible bug: every order's count goes up.
RemoveRowsOfAll(S) ==
    /\ packedFor' = [k \in Units |-> IF k \in S THEN NONE ELSE packedFor[k]]
    /\ past' = [o \in Orders |-> [k \in Units |-> IF k \in S THEN past[o][k] + 1 ELSE past[o][k]]]

\* The PACKED rows of the units S become REMOVED and keep packedAt.
RemoveRows(S) ==
    /\ packedFor' = [k \in Units |-> IF k \in S THEN NONE ELSE packedFor[k]]
    /\ past' = [o \in Orders |-> [k \in Units |->
                  IF k \in S /\ packedFor[k] = o THEN past[o][k] + 1 ELSE past[o][k]]]

\* A plausible bug: the rows go, the units keep their status.
NotRestored(S) == unit

\* restoreInventoryUnitToPriorStateTx: a unit still in its status goes back to
\* its bin, one that lies there already is left, any other is a conflict.
CanRestore(S, from) == \A k \in S : unit[k] \in {from, "PUTAWAY"}
Restored(S) == [k \in Units |-> IF k \in S THEN "PUTAWAY" ELSE unit[k]]

Remaining(o) == Max({Need[o] - Cardinality(PackedRows(o)), 0})
Demand(os) == SumFunctionOnSet([o \in Orders |-> Remaining(o)], os)

Begin(r, q) == req[r] = Idle /\ req' = [req EXCEPT ![r] = q]
End(r) == req' = [req EXCEPT ![r] = Idle]

\* A scan whose row PICKED another handler has taken can only be refused, also
\* when its unit has been picked again: that is another row.
WithoutScansOf(S, rs) ==
    [r \in Requests |-> IF rs[r].op = "scan" /\ rs[r].units \cap S # {} THEN Idle ELSE rs[r]]

-----------------------------------------------------------------------------
(* Picking and packing.                                                     *)

\* assignDemandBasket: the order's demand goes into the basket.
Assign(o) ==
    /\ order[o] = "READY" /\ o \notin held
    /\ held' = held \cup {o}
    /\ UNCHANGED <<order, pos, disposed, unit, rows, recorded, req, history>>

\* scanBasketUnit: a unit of the shelf, without an active row, that some
\* demand of the basket still lacks.
Pick(k) ==
    /\ unit[k] = "PUTAWAY" /\ k \notin loose /\ packedFor[k] = NONE
    /\ Cardinality(loose) < Demand(held)
    /\ unit' = [unit EXCEPT ![k] = "PICKED"]
    /\ loose' = loose \cup {k}
    /\ UNCHANGED <<order, held, pos, disposed, packedFor, past, recorded, req, history>>

\* The hand-off of an order whose demand is picked.
HandOff(o) ==
    /\ order[o] = "READY" /\ o \in held
    /\ Cardinality(loose) >= Demand({p \in held : order[p] # "READY"} \cup {o})
    /\ order' = [order EXCEPT ![o] = "PICKED"]
    /\ UNCHANGED <<held, pos, disposed, unit, rows, recorded, req, history>>

\* The order was left as the handler read it, or is one of the late ones.
NotedUnless(asRead, o) == late' = IF asRead THEN late ELSE late \cup {o}

\* assertPackingTaskReadyToStart
Startable(o) == o \in held /\ order[o] \in {"PICKED", "PACKING"}

\* startPackingTask, and the waybill scan, which asks for more: the order is
\* read without the basket's lock, ...
StartRead(r, o) ==
    /\ Startable(o)
    /\ Begin(r, Having("start", o, {}, NONE))
    /\ UNCHANGED <<order, held, pos, disposed, unit, rows, recorded, history>>

\* ... then written by its id.
StartWrite(r) ==
    /\ req[r].op = "start"
    /\ order' = [order EXCEPT ![req[r].order] = "PACKING"]
    /\ NotedUnless(Startable(req[r].order), req[r].order)
    /\ End(r)
    /\ UNCHANGED <<held, pos, disposed, unit, rows, recorded, voided>>

\* assertPackingTaskInProgress
InProgress(o) == o \in held /\ order[o] = "PACKING"

\* "already has all required units packed"
LineOpen(o) == Cardinality(PackedRows(o)) < Need[o]

\* scanPackingBasketOrderUnit reads the basket before it locks it; the scan
\* with a delta response reads under the lock, which only those handlers
\* overtake that take none.
ScanRead(r, k, o) ==
    /\ InProgress(o) /\ pos[o] # "canceled"
    /\ k \in loose /\ LineOpen(o)
    /\ Begin(r, Having("scan", o, {k}, NONE))
    /\ UNCHANGED <<order, held, pos, disposed, unit, rows, recorded, history>>

\* Only the row and the unit are looked at again.
ScanWrite(r, k) ==
    LET o == req[r].order IN
    /\ req[r].op = "scan" /\ req[r].units = {k}
    /\ unit[k] = "PICKED" /\ past[o][k] < MaxPacks
    /\ unit' = [unit EXCEPT ![k] = "PACKED"]
    /\ loose' = loose \ {k}
    /\ packedFor' = [packedFor EXCEPT ![k] = o]
    /\ NotedUnless(InProgress(o) /\ LineOpen(o), o)
    /\ req' = WithoutScansOf({k}, req)
    /\ UNCHANGED <<order, held, pos, disposed, past, recorded, voided>>

\* "is no longer ready for packing"
ScanRefused(r) ==
    /\ req[r].op = "scan" /\ \E k \in req[r].units : unit[k] # "PICKED"
    /\ End(r)
    /\ UNCHANGED <<order, held, pos, disposed, unit, rows, recorded, history>>

\* A plausible bug: an order completes with a unit still to be packed.
AllPackedButOne(o) == HistoricRows(o) >= Need[o] - 1

\* getPackedBasketUnitCount
AllPacked(o) == HistoricRows(o) >= Need[o]

\* completePackingBasketOrder: basket and order are read, then locked, ...
CompleteRead(r, o) ==
    /\ InProgress(o) /\ pos[o] # "canceled" /\ AllPacked(o)
    /\ Begin(r, Having("complete", o, {}, NONE))
    /\ UNCHANGED <<order, held, pos, disposed, unit, rows, recorded, history>>

\* ... and the order is written by its id, with releaseCompletedDemandPackUnitsTx.
CompleteWrite(r) ==
    LET o == req[r].order IN
    /\ req[r].op = "complete"
    /\ order' = [order EXCEPT ![o] = "PACKED"]
    /\ held' = held \ {o}
    /\ RemoveRows(PackedRows(o))
    /\ NotedUnless(InProgress(o) \/ order[o] = "PACKED", o)
    /\ End(r)
    /\ UNCHANGED <<pos, disposed, unit, loose, recorded, voided>>

\* voidPackingBasketOrders of one order, read under the lock: its packed units
\* and the surplus of the basket go back to their bins.
PackVoid(o) ==
    LET packed == PackedRows(o)
        surplus == Max({Cardinality(loose) - Demand(held \ {o}), 0})
    IN
    /\ Startable(o) /\ pos[o] \in {"open", "canceled"}
    /\ CanRestore(packed, "PACKED")
    /\ \E released \in {S \in SUBSET loose : Cardinality(S) = surplus} :
          /\ CanRestore(released, "PICKED")
          /\ unit' = Restored(packed \cup released)
          /\ loose' = loose \ released
          /\ req' = WithoutScansOf(released, req)
    /\ RemoveRows(packed)
    /\ order' = [order EXCEPT ![o] = IF pos[o] = "canceled" THEN "CANCELED" ELSE "READY"]
    /\ held' = held \ {o}
    /\ voided' = voided \cup {o}
    /\ UNCHANGED <<pos, disposed, recorded, late>>

-----------------------------------------------------------------------------
(* What Pancake reports.                                                    *)

PosUpdate(o, s) ==
    /\ <<pos[o], s>> \in PosSteps
    /\ pos' = [pos EXCEPT ![o] = s]
    /\ UNCHANGED <<order, held, disposed, unit, rows, recorded, req, history>>

\* syncCanceledPickingOrders with releaseCanceledDemandOrderTx takes no lock.
\* Only active rows are read, so the units of a completed order stay PACKED;
\* without a basketId nothing says where a unit came from.
CancelRead(r, o) ==
    LET packed == PackedRows(o)
        known == IF o \in held THEN {k \in packed : unit[k] = "PACKED"} ELSE {}
    IN
    /\ order[o] # "CANCELED" /\ pos[o] = "canceled"
    /\ Begin(r, [Having("cancel", o, known, NONE) EXCEPT !.rows = packed])
    /\ UNCHANGED <<order, held, pos, disposed, unit, rows, recorded, history>>

\* Units and rows that have changed are left, the order is canceled by its id.
CancelWrite(r) ==
    LET o == req[r].order IN
    /\ req[r].op = "cancel"
    /\ unit' = Restored({k \in req[r].units : unit[k] = "PACKED"})
    /\ RemoveRows({k \in req[r].rows : packedFor[k] = o})
    /\ order' = [order EXCEPT ![o] = "CANCELED"]
    /\ held' = held \ {o}
    /\ End(r)
    /\ UNCHANGED <<pos, disposed, loose, recorded, history>>

\* A plausible bug: the POS status of the order is not looked at.
PackedOrder(os) == {o \in os : order[o] = "PACKED"}

\* orderScope of syncPackedUnitsToDispatchedForPosOrders
Shipped(os) == {o \in os : order[o] = "PACKED" /\ pos[o] = "shipped"}

\* syncPackedUnitsToDispatchedForPosOrders, for one order (its upsert, its
\* post-completion job) or for all (every reading of a list): the units are
\* read, ...
SyncRead(r, os) ==
    LET matched == {k \in Units : unit[k] = "PACKED" /\ \E o \in Shipped(os) : k \in Tracked(o)} IN
    /\ matched # {}
    /\ Begin(r, Having("sync", NONE, matched, NONE))
    /\ UNCHANGED <<order, held, pos, disposed, unit, rows, recorded, history>>

\* ... then dispatched, those that are still PACKED.
SyncWrite(r) ==
    /\ req[r].op = "sync"
    /\ unit' = [k \in Units |-> IF k \in req[r].units /\ unit[k] = "PACKED" THEN "DISPATCHED" ELSE unit[k]]
    /\ End(r)
    /\ UNCHANGED <<order, held, pos, disposed, rows, recorded, history>>

-----------------------------------------------------------------------------
(* Dispatch void and its repair: the order is read in the transaction, the  *)
(* baskets it names are locked after that.                                  *)

\* releaseDemandOrderForDispatchVoidTx
VoidRead(r, o) ==
    LET to == IF pos[o] = "canceled" THEN "CANCELED" ELSE "READY" IN
    /\ order[o] = "PACKED" /\ pos[o] \in {"open", "canceled"}
    /\ Tracked(o) # {} /\ \A k \in Tracked(o) : unit[k] = "PACKED"
    /\ Begin(r, [Having("void", o, Tracked(o), to) EXCEPT !.rows = PackedRows(o)])
    /\ UNCHANGED <<order, held, pos, disposed, unit, rows, recorded, history>>

\* refreshDemandOrderAvailabilityState, whatever the order's status but
\* CANCELED; it takes the order out of its basket.
Reopens(o) == order[o] # "CANCELED" /\ pos[o] = "open"

Reopen(o) ==
    /\ order' = IF Reopens(o) THEN [order EXCEPT ![o] = "READY"] ELSE order
    /\ held' = IF Reopens(o) THEN held \ {o} ELSE held

\* The units have not changed, nor the rows that were PACKED.
Voidable(q) ==
    CanRestore(q.units, "PACKED") /\ \A k \in q.rows : packedFor[k] = q.order

VoidWrite(r) ==
    LET o == req[r].order IN
    /\ req[r].op = "void" /\ Voidable(req[r])
    /\ unit' = Restored(req[r].units)
    /\ RemoveRows(req[r].rows)
    /\ \/ req[r].to = "READY" /\ Reopen(o)
       \/ /\ req[r].to = "CANCELED"
          /\ order' = [order EXCEPT ![o] = "CANCELED"]
          /\ held' = held \ {o}
    /\ voided' = voided \cup {o}
    /\ End(r)
    /\ UNCHANGED <<pos, disposed, loose, recorded, late>>

\* "changed before the dispatch void completed"
VoidRefused(r) ==
    /\ req[r].op = "void" /\ ~Voidable(req[r])
    /\ End(r)
    /\ UNCHANGED <<order, held, pos, disposed, unit, rows, recorded, history>>

\* repairDemandOrderAfterStuckDispatchVoidTx
RepairRead(r, o) ==
    /\ order[o] = "PACKED" /\ pos[o] \in {"open", "canceled"}
    /\ Tracked(o) # {} /\ PackedRows(o) = {} /\ \A k \in Tracked(o) : unit[k] # "PACKED"
    /\ Begin(r, Having("repair", o, {}, "READY"))
    /\ UNCHANGED <<order, held, pos, disposed, unit, rows, recorded, history>>

RepairWrite(r) ==
    /\ req[r].op = "repair"
    /\ Reopen(req[r].order)
    /\ voided' = voided \cup {req[r].order}
    /\ End(r)
    /\ UNCHANGED <<pos, disposed, unit, rows, recorded, late>>

-----------------------------------------------------------------------------
(* Returns.                                                                 *)

\* assertOrderReadyForRtsVerification
MayReturn(o) == order[o] \in {"PICKED", "PACKING", "PACKED"} /\ pos[o] = "returned"

\* verifyTrackingReturnUnit
VerifyRead(r, o, k) ==
    /\ MayReturn(o) /\ k \in Tracked(o) /\ unit[k] = "DISPATCHED"
    /\ Begin(r, Having("verify", o, {k}, NONE))
    /\ UNCHANGED <<order, held, pos, disposed, unit, rows, recorded, history>>

VerifyWrite(r) ==
    /\ req[r].op = "verify"
    /\ unit' = [k \in Units |-> IF k \in req[r].units THEN "RTS" ELSE unit[k]]
    /\ disposed' = [disposed EXCEPT ![req[r].order] = FALSE]
    /\ End(r)
    /\ UNCHANGED <<order, held, pos, rows, recorded, history>>

\* dispositionTrackingReturnUnit
DisposeRead(r, o, k, to) ==
    /\ MayReturn(o) /\ k \in Tracked(o) /\ unit[k] = "RTS"
    /\ Begin(r, Having("dispose", o, {k}, to))
    /\ UNCHANGED <<order, held, pos, disposed, unit, rows, recorded, history>>

\* A plausible bug: a unit waiting for its placement counts as returned.
NothingPending(o, status) ==
    \A k \in Tracked(o) : status[k] \in ReturnedEquivalent \/ k \in recorded[o]

\* resolveTrackingReturnCompletionStateTx
ReturnComplete(o, status) ==
    \A k \in Tracked(o) : /\ status[k] # "RTS"
                          /\ status[k] \in ReturnedEquivalent \/ k \in recorded[o]

\* The unit is moved by its id, whatever its status is by now, and every
\* active row of it is released.
DisposeWrite(r) ==
    LET q == req[r]
        status == [k \in Units |-> IF k \in q.units THEN q.to ELSE unit[k]]
    IN
    /\ q.op = "dispose"
    /\ unit' = status
    /\ loose' = loose \ q.units
    /\ RemoveRows(q.units)
    /\ disposed' = [disposed EXCEPT ![q.order] = ReturnComplete(q.order, status)]
    /\ req' = WithoutScansOf(q.units, [req EXCEPT ![r] = Having("record", q.order, q.units, NONE)])
    /\ UNCHANGED <<order, held, pos, recorded, history>>

\* recordStockActivity, after the commit ...
Record(r) ==
    /\ req[r].op = "record"
    /\ recorded' = [recorded EXCEPT ![req[r].order] = @ \cup req[r].units]
    /\ End(r)
    /\ UNCHANGED <<order, held, pos, disposed, unit, rows, history>>

\* ... which a failure or a crash of the API between the two skips.
RecordLost(r) ==
    /\ req[r].op = "record"
    /\ End(r)
    /\ UNCHANGED <<order, held, pos, disposed, unit, rows, recorded, history>>

-----------------------------------------------------------------------------

Next ==
    \/ \E k \in Units : Pick(k)
    \/ \E o \in Orders : Assign(o) \/ HandOff(o) \/ PackVoid(o)
    \/ \E o \in Orders, s \in PosStatus : PosUpdate(o, s)
    \/ \E r \in Requests :
          \/ \E os \in {Orders} \cup {{o} : o \in Orders} : SyncRead(r, os)
          \/ StartWrite(r) \/ ScanRefused(r) \/ CompleteWrite(r) \/ CancelWrite(r)
          \/ SyncWrite(r) \/ VoidWrite(r) \/ VoidRefused(r) \/ RepairWrite(r)
          \/ VerifyWrite(r) \/ DisposeWrite(r) \/ Record(r) \/ RecordLost(r)
          \/ \E k \in Units : ScanWrite(r, k)
          \/ \E o \in Orders :
                \/ StartRead(r, o) \/ CompleteRead(r, o) \/ CancelRead(r, o)
                \/ VoidRead(r, o) \/ RepairRead(r, o)
          \/ \E o \in Orders, k \in Units :
                \/ ScanRead(r, k, o) \/ VerifyRead(r, o, k)
                \/ \E to \in Dispositions : DisposeRead(r, o, k, to)

Spec == Init /\ [][Next]_vars

-----------------------------------------------------------------------------
(* Properties.                                                              *)

\* A void leaves a unit tracked for the order it was packed for; packed again
\* for another, it is tracked for both.
Shared(k) == \E o, p \in Orders : o # p /\ k \in Tracked(o) \cap Tracked(p)
Alone(o) == ~\E k \in Tracked(o) : Shared(k)

\* A unit is out of the house only for an order that Pancake has reported
\* shipped, whatever void, cancellation or list reading raced the sync.
DispatchedIsShipped ==
    \A k \in Units : unit[k] = "DISPATCHED" =>
        \E o \in Orders : k \in Tracked(o) /\ pos[o] \in Out

\* Where the units of a packed order may be, by what Pancake says of it.
Kept(s) == CASE s \in {"open", "canceled"} -> {"PACKED"}
             [] s \in {"shipped", "returning"} -> {"PACKED", "DISPATCHED"}
             [] s = "returned" -> UnitStatus

\* An order that no void reopened and no handler wrote over a change it had not
\* seen was completed with exactly the units it sold and keeps them, packed,
\* until the courier and then the returns take them, as long as no other order
\* tracks one of them too: the rows of an earlier packing count for the next
\* one, and a void, cancellation, sync or return of the other order takes a
\* shared unit.
PackedOrderKeepsUnits ==
    \A o \in Orders \ (voided \cup late) :
        order[o] = "PACKED" /\ Alone(o) =>
            /\ HistoricRows(o) = Need[o]
            /\ \A k \in Tracked(o) : unit[k] \in Kept(pos[o])

\* A unit packed outside any basket has an order that is packed, or canceled
\* (the cancellation sync leaves it so), or was packed twice: then a dispatch
\* void that had read the first packing has reopened the second.  Else a start
\* or a scan that read the order before it was completed has written after.
PackedUnitHasOrder ==
    \A k \in Units : unit[k] = "PACKED" /\ packedFor[k] = NONE =>
        \E o \in Orders :
            /\ k \in Tracked(o)
            /\ \/ order[o] \in {"PACKED", "CANCELED"}
               \/ HistoricRows(o) > Need[o]
               \/ o \in late

\* A return marked disposed leaves no unit of the order at the courier or at
\* the return location, unless another order tracks the unit too.
DisposedIsBack ==
    \A o \in Orders : disposed[o] =>
        \A k \in Tracked(o) : Shared(k) \/ unit[k] \notin {"DISPATCHED", "RTS"}
=============================================================================
