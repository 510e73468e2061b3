---------------------------- MODULE WmsBasketProofs ----------------------------
(***************************************************************************)
(* Custody of the inventory units, for any number of units, baskets,        *)
(* orders, users and handlers and any set of operations: a PICKED unit is   *)
(* in a basket, and changes baskets only by way of a shelf; and, where no    *)
(* basket is voided, a packed one leaves it completed or for its shelf.      *)
(* Then orders and their baskets: nobody waits for a scan that cannot come,  *)
(* demand in one basket, scans into the basket of their own user.            *)
(***************************************************************************)
EXTENDS WmsBasket, FiniteSetTheorems, TLAPS

\* Of the types, custody needs only that units and rows are records.
StockShape ==
    /\ unit = [k \in Units |-> [status |-> unit[k].status, bin |-> unit[k].bin]]
    /\ row = [k \in Units |-> [status |-> row[k].status, basket |-> row[k].basket,
                               order |-> row[k].order, source |-> row[k].source]]

CustodyInv == StockShape /\ PickedUnitHasRow

\* What a step does to a unit that is in a basket before and after it.
StaysPut == \A k \in Units : HasRow(k) /\ HasRow(k)' => row'[k].basket = row[k].basket

-----------------------------------------------------------------------------
(* The ways in which handlers change units and rows.                        *)

\* Rows of units that are not PICKED are removed.
LEMMA RemoveRows ==
  ASSUME CustodyInv, NEW S, \A k \in S \cap Units : unit[k].status # "PICKED",
         unit' = unit, row' = Removed(row, S)
  PROVE  CustodyInv' /\ StaysPut
  BY DEF CustodyInv, StockShape, PickedUnitHasRow, StaysPut, HasRow, Removed

\* Rows are removed, and the PICKED ones among their units are put back.
LEMMA RestoreRows ==
  ASSUME CustodyInv, NEW S, NEW R, S \subseteq R,
         \A k \in R \cap Units : unit[k].status = "PICKED" => k \in S,
         unit' = Restored(S), row' = Removed(row, R)
  PROVE  CustodyInv' /\ StaysPut
  BY DEF CustodyInv, StockShape, PickedUnitHasRow, StaysPut, HasRow, Removed, Restored

\* A unit on its shelf, in no basket, goes into one.
LEMMA TakeUnit ==
  ASSUME CustodyInv, NEW k, NEW n, NEW b, Takes(k, n),
         unit' = [unit EXCEPT ![k] = [status |-> "PICKED", bin |-> NONE]],
         row' = [row EXCEPT ![k] = [status |-> "PICKED", basket |-> b, order |-> NONE, source |-> n]]
  PROVE  CustodyInv' /\ StaysPut
  BY DEF CustodyInv, StockShape, PickedUnitHasRow, StaysPut, HasRow, Takes

\* A unit is put on a shelf, whatever rows it has.
LEMMA MoveUnit ==
  ASSUME CustodyInv, NEW k, NEW n,
         unit' = [unit EXCEPT ![k] = [status |-> "PUTAWAY", bin |-> n]], row' = row
  PROVE  CustodyInv' /\ StaysPut
  BY DEF CustodyInv, StockShape, PickedUnitHasRow, StaysPut, HasRow

\* What packing makes of the two tables.
LEMMA PackedTables ==
  ASSUME StockShape, NEW k, NEW o
  PROVE  /\ [unit EXCEPT ![k].status = "PACKED"]
              = [j \in Units |-> IF j = k THEN [status |-> "PACKED", bin |-> unit[k].bin] ELSE unit[j]]
         /\ [row EXCEPT ![k].status = "PACKED", ![k].order = o]
              = [j \in Units |-> IF j = k THEN [status |-> "PACKED", basket |-> row[k].basket,
                                               order |-> o, source |-> row[k].source]
                                ELSE row[j]]
<1>1. CASE k \in Units
  <2> DEFINE u == unit[k]  us == u.status  ub == u.bin
             w == row[k]  ws == w.status  wb == w.basket  wo == w.order  wn == w.source
             v == [w EXCEPT !.status = "PACKED"]
  <2>1. /\ unit = [j \in Units |-> unit[j]] /\ row = [j \in Units |-> row[j]]
        /\ u = [status |-> us, bin |-> ub]
        /\ w = [status |-> ws, basket |-> wb, order |-> wo, source |-> wn]
    BY <1>1 DEF StockShape
  <2>2. /\ [unit EXCEPT ![k].status = "PACKED"]
             = [j \in Units |-> IF j = k THEN [u EXCEPT !.status = "PACKED"] ELSE unit[j]]
        /\ [row EXCEPT ![k].status = "PACKED", ![k].order = o]
             = [j \in Units |-> IF j = k THEN [w EXCEPT !.status = "PACKED", !.order = o] ELSE row[j]]
    <3>1. [row EXCEPT ![k].status = "PACKED", ![k].order = o]
            = [row EXCEPT ![k] = [w EXCEPT !.status = "PACKED", !.order = o]]
      BY <2>1
    <3> QED BY <2>1, <3>1
  <2>3. [w EXCEPT !.status = "PACKED", !.order = o] = [v EXCEPT !.order = o]
    BY <2>1
  <2> HIDE DEF u, us, ub, w, ws, wb, wo, wn
  <2>4. /\ [u EXCEPT !.status = "PACKED"] = [status |-> "PACKED", bin |-> ub]
        /\ v = [status |-> "PACKED", basket |-> wb, order |-> wo, source |-> wn]
    BY <2>1
  <2> HIDE DEF v
  <2>5. [v EXCEPT !.order = o] = [status |-> "PACKED", basket |-> wb, order |-> o, source |-> wn]
    BY <2>4
  <2>6. /\ [unit EXCEPT ![k].status = "PACKED"]
             = [j \in Units |-> IF j = k THEN [status |-> "PACKED", bin |-> ub] ELSE unit[j]]
        /\ [row EXCEPT ![k].status = "PACKED", ![k].order = o]
             = [j \in Units |-> IF j = k THEN [status |-> "PACKED", basket |-> wb,
                                              order |-> o, source |-> wn]
                               ELSE row[j]]
    BY <2>2, <2>3, <2>4, <2>5
  <2> QED BY <2>6 DEF u, ub, w, wb, wn
<1>2. CASE k \notin Units
  <2>1. /\ unit = [j \in Units |-> unit[j]]
        /\ row = [j \in Units |-> row[j]]
    BY DEF StockShape
  <2>2. /\ [unit EXCEPT ![k].status = "PACKED"] = unit
        /\ [row EXCEPT ![k].status = "PACKED", ![k].order = o] = row
    BY <1>2, <2>1
  <2> QED BY <1>2, <2>1, <2>2
<1> QED BY <1>1, <1>2

\* What removing rows makes of any table of rows.
LEMMA RemovedTable ==
  ASSUME NEW rows, NEW S,
         rows = [k \in Units |-> [status |-> rows[k].status, basket |-> rows[k].basket,
                                  order |-> rows[k].order, source |-> rows[k].source]]
  PROVE  Removed(rows, S)
           = [k \in Units |-> [status |-> IF k \in S THEN "REMOVED" ELSE rows[k].status,
                               basket |-> rows[k].basket, order |-> rows[k].order,
                               source |-> rows[k].source]]
  BY DEF Removed

\* The same tables field by field, and the rows once those of S are removed.
PackedUnits(k) == [j \in Units |-> [status |-> IF j = k THEN "PACKED" ELSE unit[j].status,
                                    bin |-> unit[j].bin]]
PackedRows(k, o) == [j \in Units |-> [status |-> IF j = k THEN "PACKED" ELSE row[j].status,
                                      basket |-> row[j].basket,
                                      order |-> IF j = k THEN o ELSE row[j].order,
                                      source |-> row[j].source]]

PackedRowsLess(k, o, S) ==
    [j \in Units |-> [status |-> IF j \in S THEN "REMOVED" ELSE IF j = k THEN "PACKED" ELSE row[j].status,
                      basket |-> row[j].basket,
                      order |-> IF j = k THEN o ELSE row[j].order,
                      source |-> row[j].source]]

LEMMA PackedTablesFlat ==
  ASSUME StockShape, NEW k, NEW o
  PROVE  /\ [unit EXCEPT ![k].status = "PACKED"] = PackedUnits(k)
         /\ [row EXCEPT ![k].status = "PACKED", ![k].order = o] = PackedRows(k, o)
<1>1. PackedUnits(k) = [j \in Units |-> IF j = k THEN [status |-> "PACKED", bin |-> unit[k].bin] ELSE unit[j]]
  BY DEF PackedUnits, StockShape
<1>2. PackedRows(k, o) = [j \in Units |-> IF j = k THEN [status |-> "PACKED", basket |-> row[k].basket,
                                                       order |-> o, source |-> row[k].source]
                                        ELSE row[j]]
  BY DEF PackedRows, StockShape
<1>3. /\ [unit EXCEPT ![k].status = "PACKED"]
           = [j \in Units |-> IF j = k THEN [status |-> "PACKED", bin |-> unit[k].bin] ELSE unit[j]]
      /\ [row EXCEPT ![k].status = "PACKED", ![k].order = o]
           = [j \in Units |-> IF j = k THEN [status |-> "PACKED", basket |-> row[k].basket,
                                            order |-> o, source |-> row[k].source]
                             ELSE row[j]]
  BY PackedTables
<1> QED BY <1>1, <1>2, <1>3, Zenon

\* A unit of a basket is packed, and rows of units that are not PICKED are removed.
LEMMA PackedStock ==
  ASSUME CustodyInv, NEW k, NEW o, NEW S, k \notin S,
         \A j \in S \cap Units : unit[j].status # "PICKED",
         unit' = PackedUnits(k), row' = PackedRowsLess(k, o, S)
  PROVE  CustodyInv' /\ StaysPut
<1> USE DEF PackedUnits, PackedRowsLess
<1>1. StockShape'
  BY DEF StockShape
<1>2. PickedUnitHasRow'
  BY DEF CustodyInv, PickedUnitHasRow
<1>3. StaysPut
  BY DEF StaysPut
<1> QED BY <1>1, <1>2, <1>3 DEF CustodyInv

LEMMA PackUnit ==
  ASSUME CustodyInv, NEW k, NEW o, NEW S, k \notin S,
         \A j \in S \cap Units : unit[j].status # "PICKED",
         unit' = [unit EXCEPT ![k].status = "PACKED"],
         row' = Removed([row EXCEPT ![k].status = "PACKED", ![k].order = o], S)
  PROVE  CustodyInv' /\ StaysPut
<1>1. unit' = PackedUnits(k) /\ row' = Removed(PackedRows(k, o), S)
  BY PackedTablesFlat, Zenon DEF CustodyInv
<1>2. Removed(PackedRows(k, o), S) = PackedRowsLess(k, o, S)
  BY DEF Removed, PackedRows, PackedRowsLess
<1>3. row' = PackedRowsLess(k, o, S)
  BY <1>1, <1>2, Zenon
<1> QED BY <1>1, <1>3, PackedStock, Zenon

LEMMA NoStockChange ==
  ASSUME CustodyInv, UNCHANGED <<unit, row>>
  PROVE  CustodyInv' /\ StaysPut
  BY DEF CustodyInv, StockShape, PickedUnitHasRow, StaysPut, HasRow

-----------------------------------------------------------------------------
(* One lemma per group of actions.                                          *)

LEMMA OrphansAreShelved ==
  ASSUME NEW b
  PROVE  \A k \in OrphansIn(b) : unit[k].status # "PICKED"
  BY DEF OrphansIn

LEMMA CustodyPicking ==
  ASSUME CustodyInv, Picking
  PROVE  CustodyInv' /\ StaysPut
<1>1. ASSUME NEW u \in Users, NEW b \in Baskets, NEW os \in SUBSET Orders, Assign(u, b, os)
      PROVE  CustodyInv' /\ StaysPut
  <2>1. unit' = unit /\ row' = Removed(row, OrphansIn(b))
    BY <1>1 DEF Assign
  <2> QED BY <2>1, RemoveRows, OrphansAreShelved
<1>2. ASSUME NEW r \in Requests, ScanCommit(r)
      PROVE  CustodyInv' /\ StaysPut
  <2> DEFINE k == req[r].unit n == req[r].bin b == req[r].basket
  <2>1. /\ Takes(k, n)
        /\ unit' = [unit EXCEPT ![k] = [status |-> "PICKED", bin |-> NONE]]
        /\ row' = [row EXCEPT ![k] = [status |-> "PICKED", basket |-> b, order |-> NONE, source |-> n]]
    BY <1>2 DEF ScanCommit
  <2> HIDE DEF k, n, b
  <2> QED BY <2>1, TakeUnit
<1>3. ASSUME NEW r \in Requests, VoidRelease(r)
      PROVE  CustodyInv' /\ StaysPut
  <2> DEFINE rows == RowsIn(req[r].basket)
             picked == {k \in rows : row[k].status = "PICKED"}
  <2>1. unit' = Restored(picked) /\ row' = Removed(row, rows)
    BY <1>3 DEF VoidRelease
  <2>2. \A k \in rows \cap Units : unit[k].status = "PICKED" => k \in picked
    BY DEF CustodyInv, PickedUnitHasRow
  <2>3. picked \subseteq rows
    OBVIOUS
  <2> HIDE DEF rows, picked
  <2> QED BY <2>1, <2>2, <2>3, RestoreRows
<1>4. ASSUME \/ \E r \in Requests, u \in Users, b \in Baskets, k \in Units : ScanRead(r, u, b, k)
             \/ \E r \in Requests, u \in Users, o \in Orders : HandoffRead(r, u, o)
             \/ \E r \in Requests, packer \in Users : HandoffCommit(r, packer)
             \/ \E r \in Requests, u \in Users, b \in Baskets : VoidRead(r, u, b)
             \/ \E r \in Requests : VoidRepair(r)
      PROVE  CustodyInv' /\ StaysPut
  <2>1. UNCHANGED <<unit, row>>
    BY <1>4 DEF ScanRead, HandoffRead, HandoffCommit, VoidRead, VoidRepair, stock
  <2> QED BY <2>1, NoStockChange
<1> QED BY <1>1, <1>2, <1>3, <1>4 DEF Picking

LEMMA CustodyUpkeep ==
  ASSUME CustodyInv, Upkeep
  PROVE  CustodyInv' /\ StaysPut
<1>1. ASSUME NEW r \in Requests, NEW n \in Bins, MoveCommit(r, n)
      PROVE  CustodyInv' /\ StaysPut
  <2> DEFINE k == req[r].unit
  <2>1. unit' = [unit EXCEPT ![k] = [status |-> "PUTAWAY", bin |-> n]] /\ row' = row
    BY <1>1 DEF MoveCommit
  <2> HIDE DEF k
  <2> QED BY <2>1, MoveUnit
<1>2. ASSUME \/ \E r \in Requests, o \in Orders : QueueRead(r, o)
             \/ \E r \in Requests : QueueWrite(r)
             \/ \E r \in Requests, k \in Units : MoveRead(r, k)
             \/ \E o \in Orders : PosUpdate(o)
             \/ \E r \in Requests : Abandon(r)
      PROVE  CustodyInv' /\ StaysPut
  <2>1. UNCHANGED <<unit, row>>
    BY <1>2 DEF QueueRead, QueueWrite, MoveRead, PosUpdate, Abandon, stock
  <2> QED BY <2>1, NoStockChange
<1> QED BY <1>1, <1>2 DEF Upkeep

LEMMA CustodyPacking ==
  ASSUME CustodyInv, Packing
  PROVE  CustodyInv' /\ StaysPut
<1>1. ASSUME NEW r \in Requests, WaybillCommit(r)
      PROVE  CustodyInv' /\ StaysPut
  <2>1. unit' = unit /\ row' = Removed(row, OrphansIn(req[r].basket))
    BY <1>1 DEF WaybillCommit
  <2> QED BY <2>1, RemoveRows, OrphansAreShelved
<1>2. ASSUME NEW u \in Users, NEW b \in Baskets, NEW o \in Orders, NEW k \in Units, PackScan(u, b, o, k)
      PROVE  CustodyInv' /\ StaysPut
  <2>1. unit' = PackedUnits(k) /\ row' = PackedRows(k, o)
    BY <1>2, PackedTablesFlat, Zenon DEF PackScan, Packs, CustodyInv
  <2>2. PackedRows(k, o) = PackedRowsLess(k, o, {})
    BY DEF PackedRows, PackedRowsLess
  <2> QED BY <2>1, <2>2, PackedStock
<1>3. ASSUME NEW r \in Requests, LegacyScanCommit(r)
      PROVE  CustodyInv' /\ StaysPut
  <2> DEFINE k == req[r].unit
             S == OrphansIn(req[r].basket)
  <2>1. PICK o \in req[r].orders :
           row' = Removed([row EXCEPT ![k].status = "PACKED", ![k].order = o], S)
    BY <1>3 DEF LegacyScanCommit
  <2>2. unit' = [unit EXCEPT ![k].status = "PACKED"] /\ unit[k].status = "PICKED"
    BY <1>3 DEF LegacyScanCommit
  <2>3. k \notin S /\ \A j \in S \cap Units : unit[j].status # "PICKED"
    BY <2>2, OrphansAreShelved
  <2> HIDE DEF k, S
  <2> QED BY <2>1, <2>2, <2>3, PackUnit, Zenon
<1>4. ASSUME NEW r \in Requests, CompleteCommit(r)
      PROVE  CustodyInv' /\ StaysPut
  <2> DEFINE S == {k \in Units : row[k].status = "PACKED" /\ row[k].order \in req[r].orders}
                     \cup OrphansIn(req[r].basket)
  <2>1. unit' = unit /\ row' = Removed(row, S)
    BY <1>4 DEF CompleteCommit
  <2>2. \A k \in S \cap Units : unit[k].status # "PICKED"
    BY OrphansAreShelved DEF CustodyInv, PickedUnitHasRow
  <2> HIDE DEF S
  <2> QED BY <2>1, <2>2, RemoveRows
<1>5. ASSUME NEW u \in Users, NEW b \in Baskets, NEW os \in SUBSET Orders, PackVoid(u, b, os)
      PROVE  CustodyInv' /\ StaysPut
  <2>1. PICK back : unit' = Restored(back) /\ row' = Removed(row, back \cup OrphansIn(b))
    BY <1>5 DEF PackVoid
  <2>2. \A k \in (back \cup OrphansIn(b)) \cap Units : unit[k].status = "PICKED" => k \in back
    BY OrphansAreShelved
  <2> QED BY <2>1, <2>2, RestoreRows
<1>6. ASSUME \/ \E r \in Requests, u \in Users, b \in Baskets, o \in Orders : WaybillRead(r, u, b, o)
             \/ \E r \in Requests, u \in Users, o \in Orders : StartRead(r, u, o)
             \/ \E r \in Requests : StartCommit(r)
             \/ \E r \in Requests, u \in Users, b \in Baskets, o \in Orders, k \in Units :
                   LegacyScanRead(r, u, b, o, k)
             \/ \E r \in Requests, u \in Users, b \in Baskets, o \in Orders : CompleteRead(r, u, b, o)
      PROVE  CustodyInv' /\ StaysPut
  <2>1. UNCHANGED <<unit, row>>
    BY <1>6 DEF WaybillRead, StartRead, StartCommit, LegacyScanRead, CompleteRead, stock
  <2> QED BY <2>1, NoStockChange
<1> QED BY <1>1, <1>2, <1>3, <1>4, <1>5, <1>6 DEF Packing

-----------------------------------------------------------------------------
(* The invariant and the theorems.                                          *)

LEMMA CustodyInit == Init => CustodyInv
  BY DEF Init, CustodyInv, StockShape, PickedUnitHasRow

LEMMA CustodyStep ==
  ASSUME CustodyInv, [Next]_vars
  PROVE  CustodyInv' /\ StaysPut
<1>1. CASE Next
  BY <1>1, CustodyPicking, CustodyUpkeep, CustodyPacking DEF Next
<1>2. CASE UNCHANGED vars
  BY <1>2, NoStockChange DEF vars, stock
<1> QED BY <1>1, <1>2

\* Whatever scans, packing, voids, repairs and moves between bins do to a unit
\* (ScanCommit, PackScan, LegacyScanCommit, VoidRelease, PackVoid, MoveCommit),
\* while it is PICKED some basket holds it.
THEOREM PickedUnitsAreHeld == Spec => []PickedUnitHasRow
<1>1. Init => CustodyInv
  BY CustodyInit
<1>2. CustodyInv /\ [Next]_vars => CustodyInv'
  BY CustodyStep
<1>3. CustodyInv => PickedUnitHasRow
  BY DEF CustodyInv
<1> QED BY <1>1, <1>2, <1>3, PTL DEF Spec

\* No handler takes a unit out of one basket and into another in one step: the
\* scan's guarded update (ScanCommit) finds it on a shelf and in no basket.
THEOREM UnitsPassOverShelves == Spec => CustodyIsContinuous
<1>1. Init => CustodyInv
  BY CustodyInit
<1>2. CustodyInv /\ [Next]_vars
        => CustodyInv' /\ [\A k \in Units : HasRow(k) /\ HasRow(k)' => row'[k].basket = row[k].basket]_vars
  BY CustodyStep DEF StaysPut
<1> QED BY <1>1, <1>2, PTL DEF Spec, CustodyIsContinuous

-----------------------------------------------------------------------------
(* Packed units, where baskets are not voided.  VoidRelease takes packed    *)
(* units of orders that Pancake has moved on out of their basket.           *)

\* Handlers run the operations in use, on orders.
Opened(x) == x.op \in Ops \cup {"idle"} /\ x.orders \subseteq Orders
ReqInv == req = [r \in Requests |-> req[r]] /\ \A r \in Requests : Opened(req[r])

\* What a step does to a packed unit whose row it removes.
Settled == \A k \in Units : row[k].status = "PACKED" /\ row'[k].status = "REMOVED" =>
              order'[row[k].order].status = "PACKED" \/ unit'[k].status = "PUTAWAY"

LEMMA BeginReq ==
  ASSUME ReqInv, NEW r, NEW x, Opened(x), req' = [req EXCEPT ![r] = x]
  PROVE  ReqInv'
<1>1. req' = [s \in Requests |-> IF s = r THEN x ELSE req[s]]
  BY DEF ReqInv
<1>2. \A s \in Requests : req'[s] = IF s = r THEN x ELSE req[s]
  BY <1>1
<1> QED BY <1>1, <1>2 DEF ReqInv

LEMMA IdleIsOpened == Opened(Idle)
BY DEF Opened, Idle

LEMMA ReqPicking ==
  ASSUME ReqInv, Picking, "void" \notin Ops
  PROVE  ReqInv'
<1>1. ASSUME NEW r \in Requests, NEW u \in Users, NEW b \in Baskets, NEW k \in Units, ScanRead(r, u, b, k)
      PROVE  ReqInv'
  <2> DEFINE x == [Idle EXCEPT !.op = "scan", !.user = u, !.basket = b, !.unit = k, !.bin = unit[k].bin]
  <2>1. Opened(x)
    BY <1>1 DEF ScanRead, Opened, Idle
  <2>2. req' = [req EXCEPT ![r] = x]
    BY <1>1 DEF ScanRead, Begin
  <2> HIDE DEF x
  <2> QED BY <2>1, <2>2, BeginReq
<1>2. ASSUME NEW r \in Requests, NEW u \in Users, NEW o \in Orders, HandoffRead(r, u, o)
      PROVE  ReqInv'
  <2> DEFINE x == [Idle EXCEPT !.op = "handoff", !.basket = order[o].basket]
  <2>1. Opened(x)
    BY <1>2 DEF HandoffRead, Opened, Idle
  <2>2. req' = [req EXCEPT ![r] = x]
    BY <1>2 DEF HandoffRead, Begin
  <2> HIDE DEF x
  <2> QED BY <2>1, <2>2, BeginReq
<1>3. ASSUME NEW r \in Requests, VoidRelease(r)
      PROVE  FALSE
  BY <1>3 DEF VoidRelease, ReqInv, Opened
<1>4. ASSUME NEW r \in Requests, \/ ScanCommit(r) \/ VoidRepair(r)
                                \/ \E packer \in Users : HandoffCommit(r, packer)
      PROVE  ReqInv'
  <2>1. req' = [req EXCEPT ![r] = Idle]
    BY <1>4 DEF ScanCommit, VoidRepair, HandoffCommit, End
  <2> QED BY <2>1, IdleIsOpened, BeginReq
<1>5. ASSUME NEW u \in Users, NEW b \in Baskets, NEW os \in SUBSET Orders, Assign(u, b, os)
      PROVE  ReqInv'
  BY <1>5 DEF Assign, ReqInv
<1>6. ASSUME NEW r \in Requests, NEW u \in Users, NEW b \in Baskets, VoidRead(r, u, b)
      PROVE  FALSE
  BY <1>6 DEF VoidRead
<1> QED BY <1>1, <1>2, <1>3, <1>4, <1>5, <1>6 DEF Picking

LEMMA ReqUpkeep ==
  ASSUME ReqInv, Upkeep
  PROVE  ReqInv'
<1>1. ASSUME NEW r \in Requests, NEW o \in Orders, QueueRead(r, o)
      PROVE  ReqInv'
  <2> DEFINE x == [Idle EXCEPT !.op = "queue", !.orders = {o}]
  <2>1. Opened(x)
    BY <1>1 DEF QueueRead, Opened, Idle
  <2>2. req' = [req EXCEPT ![r] = x]
    BY <1>1 DEF QueueRead, Begin
  <2> HIDE DEF x
  <2> QED BY <2>1, <2>2, BeginReq
<1>2. ASSUME NEW r \in Requests, NEW k \in Units, MoveRead(r, k)
      PROVE  ReqInv'
  <2> DEFINE x == [Idle EXCEPT !.op = "move", !.unit = k, !.bin = unit[k].bin]
  <2>1. Opened(x)
    BY <1>2 DEF MoveRead, Opened, Idle
  <2>2. req' = [req EXCEPT ![r] = x]
    BY <1>2 DEF MoveRead, Begin
  <2> HIDE DEF x
  <2> QED BY <2>1, <2>2, BeginReq
<1>3. ASSUME NEW r \in Requests, QueueWrite(r) \/ Abandon(r) \/ \E n \in Bins : MoveCommit(r, n)
      PROVE  ReqInv'
  <2>1. req' = [req EXCEPT ![r] = Idle]
    BY <1>3 DEF QueueWrite, Abandon, MoveCommit, End
  <2> QED BY <2>1, IdleIsOpened, BeginReq
<1>4. ASSUME NEW o \in Orders, PosUpdate(o)
      PROVE  ReqInv'
  BY <1>4 DEF PosUpdate, ReqInv
<1> QED BY <1>1, <1>2, <1>3, <1>4 DEF Upkeep

LEMMA ReqPacking ==
  ASSUME ReqInv, Packing
  PROVE  ReqInv'
<1>1. ASSUME NEW r \in Requests, NEW u \in Users, NEW b \in Baskets, NEW o \in Orders,
             WaybillRead(r, u, b, o)
      PROVE  ReqInv'
  <2> DEFINE x == [Idle EXCEPT !.op = "waybill", !.basket = b, !.orders = {o}, !.seen = order[o].status]
  <2>1. Opened(x)
    BY <1>1 DEF WaybillRead, Opened, Idle
  <2>2. req' = [req EXCEPT ![r] = x]
    BY <1>1 DEF WaybillRead, Begin
  <2> HIDE DEF x
  <2> QED BY <2>1, <2>2, BeginReq
<1>2. ASSUME NEW r \in Requests, NEW u \in Users, NEW o \in Orders, StartRead(r, u, o)
      PROVE  ReqInv'
  <2> DEFINE x == [Idle EXCEPT !.op = "start", !.basket = order[o].basket, !.orders = {o}]
  <2>1. Opened(x)
    BY <1>2 DEF StartRead, Opened, Idle
  <2>2. req' = [req EXCEPT ![r] = x]
    BY <1>2 DEF StartRead, Begin
  <2> HIDE DEF x
  <2> QED BY <2>1, <2>2, BeginReq
<1>3. ASSUME NEW r \in Requests, NEW u \in Users, NEW b \in Baskets, NEW o \in Orders, NEW k \in Units,
             LegacyScanRead(r, u, b, o, k)
      PROVE  ReqInv'
  <2> DEFINE x == [Idle EXCEPT !.op = "legacyScan", !.basket = b, !.orders = {o}, !.unit = k]
  <2>1. Opened(x)
    BY <1>3 DEF LegacyScanRead, Opened, Idle
  <2>2. req' = [req EXCEPT ![r] = x]
    BY <1>3 DEF LegacyScanRead, Begin
  <2> HIDE DEF x
  <2> QED BY <2>1, <2>2, BeginReq
<1>4. ASSUME NEW r \in Requests, NEW u \in Users, NEW b \in Baskets, NEW o \in Orders,
             CompleteRead(r, u, b, o)
      PROVE  ReqInv'
  <2> DEFINE x == [Idle EXCEPT !.op = "complete", !.basket = b, !.orders = {o}]
  <2>1. Opened(x)
    BY <1>4 DEF CompleteRead, Opened, Idle
  <2>2. req' = [req EXCEPT ![r] = x]
    BY <1>4 DEF CompleteRead, Begin
  <2> HIDE DEF x
  <2> QED BY <2>1, <2>2, BeginReq
<1>5. ASSUME NEW r \in Requests, WaybillCommit(r) \/ StartCommit(r) \/ LegacyScanCommit(r) \/ CompleteCommit(r)
      PROVE  ReqInv'
  <2>1. req' = [req EXCEPT ![r] = Idle]
    BY <1>5 DEF WaybillCommit, StartCommit, LegacyScanCommit, CompleteCommit, End
  <2> QED BY <2>1, IdleIsOpened, BeginReq
<1>6. ASSUME \/ \E u \in Users, b \in Baskets, o \in Orders, k \in Units : PackScan(u, b, o, k)
             \/ \E u \in Users, b \in Baskets, os \in SUBSET Orders : PackVoid(u, b, os)
      PROVE  ReqInv'
  <2>1. req' = req
    BY <1>6 DEF PackScan, PackVoid
  <2> QED BY <2>1 DEF ReqInv
<1> QED BY <1>1, <1>2, <1>3, <1>4, <1>5, <1>6 DEF Packing

\* Rows of units that lie on a shelf are removed, and the units stay there.
LEMMA ShelvedRows ==
  ASSUME NEW S, \A k \in S \cap Units : unit[k].status = "PUTAWAY",
         unit' = unit, row' = Removed(row, S)
  PROVE  Settled
BY DEF Settled, Removed

LEMMA SettledAssign ==
  ASSUME NEW u, NEW b, NEW os, Assign(u, b, os)
  PROVE  Settled
BY ShelvedRows DEF Assign, OrphansIn

LEMMA SettledScan ==
  ASSUME CustodyInv, NEW r, ScanCommit(r)
  PROVE  Settled
<1> DEFINE k == req[r].unit  n == req[r].bin  b == req[r].basket
<1>1. row' = [row EXCEPT ![k] = [status |-> "PICKED", basket |-> b, order |-> NONE, source |-> n]]
  BY DEF ScanCommit
<1> HIDE DEF k, n, b
<1> QED BY <1>1 DEF Settled, CustodyInv, StockShape

LEMMA SettledWaybill ==
  ASSUME NEW r, WaybillCommit(r)
  PROVE  Settled
BY ShelvedRows DEF WaybillCommit, OrphansIn

LEMMA SettledPackScan ==
  ASSUME CustodyInv, NEW u, NEW b, NEW o, NEW k, PackScan(u, b, o, k)
  PROVE  Settled
<1>1. row' = PackedRows(k, o)
  BY PackedTablesFlat, Zenon DEF PackScan, Packs, CustodyInv
<1> QED BY <1>1 DEF Settled, PackedRows

LEMMA SettledLegacyScan ==
  ASSUME CustodyInv, NEW r, LegacyScanCommit(r)
  PROVE  Settled
<1> DEFINE k == req[r].unit
           S == OrphansIn(req[r].basket)
<1>1. PICK o : row' = Removed([row EXCEPT ![k].status = "PACKED", ![k].order = o], S)
  BY DEF LegacyScanCommit
<1>2. unit' = [unit EXCEPT ![k].status = "PACKED"] /\ row[k].status = "PICKED"
  BY DEF LegacyScanCommit
<1>3. \A j \in S : unit[j].status = "PUTAWAY"
  BY DEF OrphansIn
<1> HIDE DEF k, S
<1>4. unit' = PackedUnits(k) /\ row' = Removed(PackedRows(k, o), S)
  BY <1>1, <1>2, PackedTablesFlat, Zenon DEF CustodyInv
<1>5. Removed(PackedRows(k, o), S) = PackedRowsLess(k, o, S)
  BY DEF Removed, PackedRows, PackedRowsLess
<1>6. ASSUME NEW j \in Units, row[j].status = "PACKED", row'[j].status = "REMOVED"
      PROVE  unit'[j].status = "PUTAWAY"
  <2>1. j # k
    BY <1>2, <1>6
  <2>2. row'[j] = [status |-> IF j \in S THEN "REMOVED" ELSE row[j].status, basket |-> row[j].basket,
                   order |-> row[j].order, source |-> row[j].source]
    BY <1>4, <1>5, <2>1 DEF PackedRowsLess
  <2>3. j \in S
    BY <1>6, <2>2
  <2> QED BY <1>3, <1>4, <2>1, <2>3 DEF PackedUnits
<1> QED BY <1>6 DEF Settled

\* releaseCompletedDemandPackUnitsTx removes the rows of the order it completes.
LEMMA SettledComplete ==
  ASSUME ReqInv, NEW r \in Requests, CompleteCommit(r)
  PROVE  Settled
<1>1. ASSUME NEW k \in Units, row[k].status = "PACKED", row'[k].status = "REMOVED"
      PROVE  order'[row[k].order].status = "PACKED" \/ unit'[k].status = "PUTAWAY"
  <2>1. /\ unit' = unit
        /\ row' = Removed(row, {j \in Units : row[j].status = "PACKED" /\ row[j].order \in req[r].orders}
                                \cup OrphansIn(req[r].basket))
    BY DEF CompleteCommit
  <2>2. row[k].order \in req[r].orders \/ k \in OrphansIn(req[r].basket)
    BY <1>1, <2>1 DEF Removed
  <2>3. CASE k \in OrphansIn(req[r].basket)
    BY <2>1, <2>3 DEF OrphansIn
  <2>4. CASE row[k].order \in req[r].orders
    <3> DEFINE o == row[k].order
    <3>1. o \in Orders
      BY <2>4 DEF ReqInv, Opened
    <3>2. order'[o] = [order[o] EXCEPT !.status = "PACKED", !.basket = NONE]
      BY <2>4, <3>1 DEF CompleteCommit
    <3> QED BY <3>2
  <2> QED BY <2>2, <2>3, <2>4
<1> QED BY <1>1 DEF Settled

LEMMA SettledPackVoid ==
  ASSUME NEW u, NEW b, NEW os, PackVoid(u, b, os)
  PROVE  Settled
<1>1. PICK back : unit' = Restored(back) /\ row' = Removed(row, back \cup OrphansIn(b))
  BY DEF PackVoid
<1>2. \A k \in OrphansIn(b) : unit[k].status = "PUTAWAY"
  BY DEF OrphansIn
<1> QED BY <1>1, <1>2 DEF Settled, Restored, Removed

LEMMA SameRows == ASSUME UNCHANGED row PROVE Settled
BY DEF Settled

LEMMA SettledPicking ==
  ASSUME CustodyInv, ReqInv, Picking, "void" \notin Ops
  PROVE  Settled
<1>1. ASSUME NEW r \in Requests, VoidRelease(r)
      PROVE  FALSE
  BY <1>1 DEF VoidRelease, ReqInv, Opened
<1>2. ASSUME \/ \E r \in Requests, u \in Users, b \in Baskets, k \in Units : ScanRead(r, u, b, k)
             \/ \E r \in Requests, u \in Users, o \in Orders : HandoffRead(r, u, o)
             \/ \E r \in Requests, packer \in Users : HandoffCommit(r, packer)
             \/ \E r \in Requests, u \in Users, b \in Baskets : VoidRead(r, u, b)
             \/ \E r \in Requests : VoidRepair(r)
      PROVE  Settled
  BY <1>2, SameRows DEF ScanRead, HandoffRead, HandoffCommit, VoidRead, VoidRepair, stock
<1> QED BY <1>1, <1>2, SettledAssign, SettledScan DEF Picking

LEMMA SettledPacking ==
  ASSUME CustodyInv, ReqInv, Packing
  PROVE  Settled
<1>1. ASSUME \/ \E r \in Requests, u \in Users, b \in Baskets, o \in Orders : WaybillRead(r, u, b, o)
             \/ \E r \in Requests, u \in Users, o \in Orders : StartRead(r, u, o)
             \/ \E r \in Requests : StartCommit(r)
             \/ \E r \in Requests, u \in Users, b \in Baskets, o \in Orders, k \in Units :
                   LegacyScanRead(r, u, b, o, k)
             \/ \E r \in Requests, u \in Users, b \in Baskets, o \in Orders : CompleteRead(r, u, b, o)
      PROVE  Settled
  BY <1>1, SameRows DEF WaybillRead, StartRead, StartCommit, LegacyScanRead, CompleteRead, stock
<1> QED BY <1>1, SettledWaybill, SettledPackScan, SettledLegacyScan, SettledComplete, SettledPackVoid
     DEF Packing

LEMMA SettledStep ==
  ASSUME CustodyInv, ReqInv, [Next]_vars, "void" \notin Ops
  PROVE  Settled
<1>1. CASE Picking
  BY <1>1, SettledPicking
<1>2. CASE Upkeep
  BY <1>2, SameRows DEF Upkeep, QueueRead, QueueWrite, MoveRead, MoveCommit, PosUpdate, Abandon, stock
<1>3. CASE Packing
  BY <1>3, SettledPacking
<1>4. CASE UNCHANGED vars
  BY <1>4, SameRows DEF vars, stock
<1> QED BY <1>1, <1>2, <1>3, <1>4 DEF Next

LEMMA ReqStep ==
  ASSUME ReqInv, [Next]_vars, "void" \notin Ops
  PROVE  ReqInv'
<1>1. CASE UNCHANGED vars
  BY <1>1 DEF vars, ReqInv
<1> QED BY <1>1, ReqPicking, ReqUpkeep, ReqPacking DEF Next

\* Where baskets are not voided, a packed unit leaves its basket only with its
\* order completed or for its shelf (CompleteCommit, PackVoid, and the cleanup
\* of orphaned rows in Assign, WaybillCommit and LegacyScanCommit), whatever
\* handlers commit in between.
THEOREM PackedUnitsAreSettled ==
  ASSUME "void" \notin Ops
  PROVE  Spec => PackWorkIsSettled
<1>1. Init => CustodyInv /\ ReqInv
  BY CustodyInit, IdleIsOpened DEF Init, ReqInv
<1>2. CustodyInv /\ ReqInv /\ [Next]_vars => (CustodyInv /\ ReqInv)'
  BY CustodyStep, ReqStep
<1>3. CustodyInv /\ ReqInv /\ [Next]_vars
        => [\A k \in Units : row[k].status = "PACKED" /\ row'[k].status = "REMOVED" =>
               order'[row[k].order].status = "PACKED" \/ unit'[k].status = "PUTAWAY"]_vars
  BY SettledStep DEF Settled
<1> QED BY <1>1, <1>2, <1>3, PTL DEF Spec, PackWorkIsSettled

-----------------------------------------------------------------------------
(* Updating the fields of an order.                                         *)

\* Of an order's type, the proofs need only that it is a record.
IsOrder(x) == x = [status |-> x.status, basket |-> x.basket, claimedBy |-> x.claimedBy,
                   picked |-> x.picked]

LEMMA OneField ==
  ASSUME NEW w, IsOrder(w), NEW x
  PROVE  /\ [w EXCEPT !.status = x]
              = [status |-> x, basket |-> w.basket, claimedBy |-> w.claimedBy, picked |-> w.picked]
         /\ [w EXCEPT !.basket = x]
              = [status |-> w.status, basket |-> x, claimedBy |-> w.claimedBy, picked |-> w.picked]
         /\ [w EXCEPT !.claimedBy = x]
              = [status |-> w.status, basket |-> w.basket, claimedBy |-> x, picked |-> w.picked]
         /\ [w EXCEPT !.picked = x]
              = [status |-> w.status, basket |-> w.basket, claimedBy |-> w.claimedBy, picked |-> x]
<1> DEFINE a == w.status b == w.basket c == w.claimedBy d == w.picked
<1>1. w = [status |-> a, basket |-> b, claimedBy |-> c, picked |-> d]
  BY DEF IsOrder
<1> HIDE DEF a, b, c, d
<1>2. /\ [w EXCEPT !.status = x] = [status |-> x, basket |-> b, claimedBy |-> c, picked |-> d]
      /\ [w EXCEPT !.basket = x] = [status |-> a, basket |-> x, claimedBy |-> c, picked |-> d]
      /\ [w EXCEPT !.claimedBy = x] = [status |-> a, basket |-> b, claimedBy |-> x, picked |-> d]
      /\ [w EXCEPT !.picked = x] = [status |-> a, basket |-> b, claimedBy |-> c, picked |-> x]
  BY <1>1
<1> QED BY <1>2 DEF a, b, c, d

\* The updates that handlers make of several fields.
PickedAndStatus(w, p, st) == [w EXCEPT !.picked = p, !.status = st]
WithStatus(w, st) == [w EXCEPT !.status = st]
StatusAndPicked(w, st, p) == [w EXCEPT !.status = st, !.picked = p]
StatusAndBasket(w, st, b) == [w EXCEPT !.status = st, !.basket = b]
BasketAndUser(w, b, u) == [w EXCEPT !.basket = b, !.claimedBy = u]
StatusBasketUser(w, st, b, u) == [w EXCEPT !.status = st, !.basket = b, !.claimedBy = u]

LEMMA OrderFields ==
  ASSUME NEW w, IsOrder(w), NEW p, NEW st, NEW b, NEW u
  PROVE  /\ WithStatus(w, st)
              = [status |-> st, basket |-> w.basket, claimedBy |-> w.claimedBy, picked |-> w.picked]
         /\ PickedAndStatus(w, p, st)
              = [status |-> st, basket |-> w.basket, claimedBy |-> w.claimedBy, picked |-> p]
         /\ StatusAndPicked(w, st, p)
              = [status |-> st, basket |-> w.basket, claimedBy |-> w.claimedBy, picked |-> p]
         /\ StatusAndBasket(w, st, b)
              = [status |-> st, basket |-> b, claimedBy |-> w.claimedBy, picked |-> w.picked]
         /\ BasketAndUser(w, b, u)
              = [status |-> w.status, basket |-> b, claimedBy |-> u, picked |-> w.picked]
         /\ StatusBasketUser(w, st, b, u)
              = [status |-> st, basket |-> b, claimedBy |-> u, picked |-> w.picked]
<1>1. /\ PickedAndStatus(w, p, st) = [[w EXCEPT !.picked = p] EXCEPT !.status = st]
      /\ StatusAndPicked(w, st, p) = [[w EXCEPT !.status = st] EXCEPT !.picked = p]
      /\ StatusAndBasket(w, st, b) = [[w EXCEPT !.status = st] EXCEPT !.basket = b]
      /\ BasketAndUser(w, b, u) = [[w EXCEPT !.basket = b] EXCEPT !.claimedBy = u]
  BY DEF IsOrder, PickedAndStatus, StatusAndPicked, StatusAndBasket, BasketAndUser
<1> DEFINE wp == [w EXCEPT !.picked = p]  ws == [w EXCEPT !.status = st]
           wb == [w EXCEPT !.basket = b]  wsb == [ws EXCEPT !.basket = b]
<1>2. StatusBasketUser(w, st, b, u) = [wsb EXCEPT !.claimedBy = u]
  BY DEF IsOrder, StatusBasketUser
<1>3. /\ wp = [status |-> w.status, basket |-> w.basket, claimedBy |-> w.claimedBy, picked |-> p]
      /\ ws = [status |-> st, basket |-> w.basket, claimedBy |-> w.claimedBy, picked |-> w.picked]
      /\ wb = [status |-> w.status, basket |-> b, claimedBy |-> w.claimedBy, picked |-> w.picked]
  BY OneField
<1>9. WithStatus(w, st) = ws
  BY DEF WithStatus
<1> HIDE DEF wp, ws, wb
<1>4. IsOrder(wp) /\ IsOrder(ws) /\ IsOrder(wb)
  BY <1>3 DEF IsOrder
<1>5. /\ [wp EXCEPT !.status = st]
           = [status |-> st, basket |-> wp.basket, claimedBy |-> wp.claimedBy, picked |-> wp.picked]
      /\ [ws EXCEPT !.picked = p]
           = [status |-> ws.status, basket |-> ws.basket, claimedBy |-> ws.claimedBy, picked |-> p]
      /\ wsb = [status |-> ws.status, basket |-> b, claimedBy |-> ws.claimedBy, picked |-> ws.picked]
      /\ [wb EXCEPT !.claimedBy = u]
           = [status |-> wb.status, basket |-> wb.basket, claimedBy |-> u, picked |-> wb.picked]
  BY <1>4, OneField
<1>6. /\ wp.basket = w.basket /\ wp.claimedBy = w.claimedBy /\ wp.picked = p
      /\ ws.status = st /\ ws.basket = w.basket /\ ws.claimedBy = w.claimedBy
      /\ ws.picked = w.picked
      /\ wb.status = w.status /\ wb.basket = b /\ wb.picked = w.picked
  BY <1>3
<1> HIDE DEF wsb
<1>7. /\ IsOrder(wsb)
      /\ wsb.status = st /\ wsb.basket = b /\ wsb.picked = w.picked
  BY <1>5, <1>6 DEF IsOrder
<1>8. [wsb EXCEPT !.claimedBy = u]
        = [status |-> wsb.status, basket |-> wsb.basket, claimedBy |-> u, picked |-> wsb.picked]
  BY <1>7, OneField
<1> QED BY <1>1, <1>2, <1>5, <1>6, <1>7, <1>8, <1>9, <1>3 DEF wp, ws, wb

-----------------------------------------------------------------------------
(* An order whose units have all been picked leaves picking.                *)

ShortOf(o, x) == x.picked >= Qty[o] => x.status \notin PickingOrder

\* The invariant: it covers the statuses before IN_PICKING too, because an
\* assignment takes an order with the count it has.
Short(o, x) == IsOrder(x) /\ ShortOf(o, x)
IsTable == order = [o \in Orders |-> order[o]]
ShortInv == IsTable /\ \A o \in Orders : Short(o, order[o])

LEMMA ShortTable ==
  ASSUME NEW f, order' = [o \in Orders |-> f[o]], \A o \in Orders : Short(o, f[o])
  PROVE  ShortInv'
BY DEF ShortInv, IsTable

LEMMA ShortUpdate ==
  ASSUME ShortInv, NEW o, NEW x, o \in Orders => Short(o, x), order' = [order EXCEPT ![o] = x]
  PROVE  ShortInv'
<1>1. order' = [p \in Orders |-> IF p = o THEN x ELSE order[p]]
  BY DEF ShortInv, IsTable
<1>2. \A p \in Orders : order'[p] = IF p = o THEN x ELSE order[p]
  BY <1>1
<1> QED BY <1>1, <1>2 DEF ShortInv, IsTable

\* refreshFulfillmentOrderState: READY_FOR_PACK when nothing is missing.
LEMMA ProgressedShort ==
  ASSUME ShortInv, NEW o \in Orders, NEW picked
  PROVE  Short(o, Progressed(o, picked))
<1> DEFINE p == Min({SumFunction([b \in Baskets |-> picked[<<b, o>>]]), Qty[o]})
           st == ProgressStatus(o, p)
           x == Progressed(o, picked)
<1>1. x = PickedAndStatus(order[o], p, st)
  BY DEF Progressed, PickedAndStatus
<1>2. st \in PickingOrder => ~ (p >= Qty[o])
  BY DEF ProgressStatus, PickingOrder, PickedOut
<1>3. IsOrder(order[o])
  BY DEF ShortInv, Short
<1> HIDE DEF p, st, x
<1>4. x = [status |-> st, basket |-> order[o].basket, claimedBy |-> order[o].claimedBy,
           picked |-> p]
  BY <1>1, <1>3, OrderFields
<1>5. Short(o, x)
  BY <1>2, <1>4 DEF Short, ShortOf, IsOrder
<1> QED BY <1>5 DEF x

\* An order without picked units is short whatever its status.
LEMMA EmptyShort ==
  ASSUME NEW o \in Orders, NEW st, NEW b, NEW u
  PROVE  Short(o, [status |-> st, basket |-> b, claimedBy |-> u, picked |-> 0])
<1>1. ~ (0 >= Qty[o])
  BY BasketAssumption DEF BasketAssumption
<1> QED BY <1>1 DEF Short, ShortOf, IsOrder

\* A handler that leaves the count alone and the picking statuses, or stays in them.
LEMMA KeepsShort ==
  ASSUME NEW o, NEW w, Short(o, w), NEW st, NEW b, NEW u,
         st \in PickingOrder => w.status \in PickingOrder
  PROVE  Short(o, [status |-> st, basket |-> b, claimedBy |-> u, picked |-> w.picked])
BY DEF Short, ShortOf, IsOrder

-----------------------------------------------------------------------------
(* One lemma per handler that writes orders.                                *)

LEMMA AssignShort ==
  ASSUME ShortInv, NEW u, NEW b, NEW os, Assign(u, b, os)
  PROVE  ShortInv'
<1> DEFINE x(o) == StatusBasketUser(order[o], "IN_PICKING", b, u)
           f == [o \in Orders |-> IF o \in os THEN x(o) ELSE order[o]]
<1>1. order' = f /\ \A o \in os : order[o].status = "READY"
  BY DEF Assign, Assignable, StatusBasketUser
<1>2. ASSUME NEW o \in Orders, o \in os  PROVE Short(o, x(o))
  <2>1. Short(o, order[o]) /\ order[o].status \in PickingOrder
    BY <1>1, <1>2 DEF ShortInv, PickingOrder
  <2>2. x(o) = [status |-> "IN_PICKING", basket |-> b, claimedBy |-> u, picked |-> order[o].picked]
    BY <2>1, OrderFields DEF Short
  <2> QED BY <2>1, <2>2, KeepsShort
<1> HIDE DEF x
<1>3. \A o \in Orders : Short(o, f[o])
  BY <1>2 DEF ShortInv
<1>4. order' = [o \in Orders |-> f[o]]
  BY <1>1
<1> HIDE DEF f
<1> QED BY <1>3, <1>4, ShortTable

\* Every order as it was, or with a status that is not one of picking.
LEMMA StatusShort ==
  ASSUME ShortInv, NEW S, NEW st, st \notin PickingOrder,
         order' = [o \in Orders |-> IF o \in S THEN WithStatus(order[o], st) ELSE order[o]]
  PROVE  ShortInv'
<1> DEFINE f == [o \in Orders |-> IF o \in S THEN WithStatus(order[o], st) ELSE order[o]]
<1>1. ASSUME NEW o \in Orders  PROVE Short(o, WithStatus(order[o], st))
  <2>1. Short(o, order[o])
    BY <1>1 DEF ShortInv
  <2>2. WithStatus(order[o], st)
          = [status |-> st, basket |-> order[o].basket, claimedBy |-> order[o].claimedBy,
             picked |-> order[o].picked]
    BY <2>1, OrderFields DEF Short
  <2> QED BY <2>1, <2>2, KeepsShort
<1>2. \A o \in Orders : Short(o, f[o])
  BY <1>1 DEF ShortInv
<1>3. order' = [o \in Orders |-> f[o]]
  OBVIOUS
<1> HIDE DEF f
<1> QED BY <1>2, <1>3, ShortTable

LEMMA ScanShort ==
  ASSUME ShortInv, NEW r, ScanCommit(r)
  PROVE  ShortInv'
<1>1. PICK o \in Orders : order' = [order EXCEPT ![o] = Progressed(o, demandPicked')]
  BY DEF ScanCommit
<1> DEFINE x == Progressed(o, demandPicked')
<1>2. Short(o, x)
  BY ProgressedShort
<1> HIDE DEF x
<1>3. order' = [order EXCEPT ![o] = x]
  BY <1>1 DEF x
<1> QED BY <1>2, <1>3, ShortUpdate

LEMMA HandoffShort ==
  ASSUME ShortInv, NEW r, NEW packer, HandoffCommit(r, packer)
  PROVE  ShortInv'
<1> DEFINE S == {o \in Orders : order[o].basket = req[r].basket /\ order[o].status = "READY_FOR_PACK"}
<1>1. order' = [o \in Orders |-> IF o \in S THEN WithStatus(order[o], "PICKED") ELSE order[o]]
  BY DEF HandoffCommit, WithStatus
<1>2. "PICKED" \notin PickingOrder
  BY DEF PickingOrder
<1> HIDE DEF S
<1> QED BY <1>1, <1>2, StatusShort

LEMMA QueueShort ==
  ASSUME ShortInv, NEW r, QueueWrite(r)
  PROVE  ShortInv'
<1>1. PICK o, st : order' = [order EXCEPT ![o].status = st, ![o].picked = 0]
  BY DEF QueueWrite
<1> DEFINE x == StatusAndPicked(order[o], st, 0)
<1>2. order' = [order EXCEPT ![o] = x]
  BY <1>1 DEF ShortInv, IsTable, StatusAndPicked
<1>3. ASSUME o \in Orders  PROVE Short(o, x)
  <2>1. IsOrder(order[o])
    BY <1>3 DEF ShortInv, Short
  <2>2. x = [status |-> st, basket |-> order[o].basket, claimedBy |-> order[o].claimedBy, picked |-> 0]
    BY <2>1, OrderFields
  <2> QED BY <1>3, <2>2, EmptyShort
<1> HIDE DEF x
<1> QED BY <1>2, <1>3, ShortUpdate

LEMMA WaybillShort ==
  ASSUME ShortInv, NEW r, WaybillCommit(r)
  PROVE  ShortInv'
<1> DEFINE S == {o \in Orders : o \in req[r].orders /\ req[r].seen = "PICKED"}
<1>1. order' = [o \in Orders |-> IF o \in S THEN WithStatus(order[o], "PACKING") ELSE order[o]]
  BY DEF WaybillCommit, WithStatus
<1>2. "PACKING" \notin PickingOrder
  BY DEF PickingOrder
<1> HIDE DEF S
<1> QED BY <1>1, <1>2, StatusShort

LEMMA StartShort ==
  ASSUME ShortInv, NEW r, StartCommit(r)
  PROVE  ShortInv'
<1>1. order' = [o \in Orders |-> IF o \in req[r].orders THEN WithStatus(order[o], "PACKING")
                                ELSE order[o]]
  BY DEF StartCommit, WithStatus
<1>2. "PACKING" \notin PickingOrder
  BY DEF PickingOrder
<1> QED BY <1>1, <1>2, StatusShort

LEMMA CompleteShort ==
  ASSUME ShortInv, NEW r, CompleteCommit(r)
  PROVE  ShortInv'
<1> DEFINE x(o) == StatusAndBasket(order[o], "PACKED", NONE)
           f == [o \in Orders |-> IF o \in req[r].orders THEN x(o) ELSE order[o]]
<1>1. order' = f
  BY DEF CompleteCommit, StatusAndBasket
<1>2. ASSUME NEW o \in Orders  PROVE Short(o, x(o))
  <2>1. Short(o, order[o])
    BY <1>2 DEF ShortInv
  <2>2. x(o) = [status |-> "PACKED", basket |-> NONE, claimedBy |-> order[o].claimedBy,
                picked |-> order[o].picked]
    BY <2>1, OrderFields DEF Short
  <2>3. "PACKED" \notin PickingOrder
    BY DEF PickingOrder
  <2> QED BY <2>1, <2>2, <2>3, KeepsShort
<1> HIDE DEF x
<1>3. \A o \in Orders : Short(o, f[o])
  BY <1>2 DEF ShortInv
<1>4. order' = [o \in Orders |-> f[o]]
  BY <1>1
<1> HIDE DEF f
<1> QED BY <1>3, <1>4, ShortTable

-----------------------------------------------------------------------------
(* The voids, which reset orders and recount those that stay.               *)

LEMMA ReopenedShort ==
  ASSUME ShortInv, NEW os, NEW allowed, NEW ords, NEW free, NEW tg,
         \A o \in Orders : Short(o, ords[o]), order' = Reopened(os, allowed, ords, free, tg)
  PROVE  ShortInv'
<1> DEFINE e(o) == [status |-> Readiness(o, Available(o, free, tg)), basket |-> NONE,
                    claimedBy |-> NONE, picked |-> 0]
           S == {o \in os : pos[o] \in allowed /\ order[o].status \notin {"PACKED", "CANCELED"}}
           f == [o \in Orders |-> IF o \in S THEN e(o) ELSE ords[o]]
<1>1. order' = f
  BY DEF Reopened
<1>2. \A o \in Orders : Short(o, e(o))
  BY EmptyShort
<1> HIDE DEF e, S
<1>3. \A o \in Orders : Short(o, f[o])
  BY <1>2
<1>4. order' = [o \in Orders |-> f[o]]
  BY <1>1
<1> HIDE DEF f
<1> QED BY <1>3, <1>4, ShortTable

LEMMA VoidReleaseShort ==
  ASSUME ShortInv, NEW r, VoidRelease(r)
  PROVE  ShortInv'
<1> DEFINE x(o) == BasketAndUser(order[o], NONE, NONE)
           freed == [o \in Orders |-> IF order[o].basket = req[r].basket THEN x(o) ELSE order[o]]
<1>1. ASSUME NEW o \in Orders  PROVE Short(o, x(o))
  <2>1. Short(o, order[o])
    BY <1>1 DEF ShortInv
  <2>2. x(o) = [status |-> order[o].status, basket |-> NONE, claimedBy |-> NONE,
                picked |-> order[o].picked]
    BY <2>1, OrderFields DEF Short
  <2> QED BY <2>1, <2>2, KeepsShort
<1>2. PICK os, allowed, free, tg : order' = Reopened(os, allowed, freed, free, tg)
  BY DEF VoidRelease, BasketAndUser
<1> HIDE DEF x
<1>3. \A o \in Orders : Short(o, freed[o])
  BY <1>1 DEF ShortInv
<1> HIDE DEF freed
<1> QED BY <1>2, <1>3, ReopenedShort

\* repairReleasedDemandOrders resets what the void had read, and the queue
\* refresh that follows rewrites every waiting order.
LEMMA VoidRepairShort ==
  ASSUME ShortInv, NEW r, VoidRepair(r)
  PROVE  ShortInv'
<1> DEFINE os == {o \in req[r].orders : order[o].status \notin {"PACKED", "CANCELED"}}
           e(o) == [status |-> IF pos[o] = "confirmed" THEN "RESTOCKING" ELSE "CANCELED",
                    basket |-> NONE, claimedBy |-> NONE, picked |-> 0]
           reset == [o \in Orders |-> IF o \in os THEN e(o) ELSE order[o]]
           Q == {o \in Orders : /\ reset[o].status \in QueueOrder /\ reset[o].basket = NONE
                                /\ pos[o] = "confirmed"}
<1>1. PICK f : order' = [o \in Orders |-> IF o \in Q THEN [reset[o] EXCEPT !.status = f[o], !.picked = 0]
                                         ELSE reset[o]]
  BY DEF VoidRepair
<1>2. \A o \in Orders : Short(o, e(o))
  BY EmptyShort
<1> HIDE DEF e, os
<1>3. \A o \in Orders : Short(o, reset[o])
  BY <1>2 DEF ShortInv
<1> HIDE DEF reset
<1> DEFINE y(o) == StatusAndPicked(reset[o], f[o], 0)
           g == [o \in Orders |-> IF o \in Q THEN y(o) ELSE reset[o]]
<1>4. order' = g
  BY <1>1 DEF StatusAndPicked
<1>5. ASSUME NEW o \in Orders  PROVE Short(o, y(o))
  <2>1. IsOrder(reset[o])
    BY <1>3 DEF Short
  <2>2. y(o) = [status |-> f[o], basket |-> reset[o].basket, claimedBy |-> reset[o].claimedBy,
                picked |-> 0]
    BY <2>1, OrderFields
  <2> QED BY <2>2, EmptyShort
<1> HIDE DEF y, Q
<1>6. \A o \in Orders : Short(o, g[o])
  BY <1>3, <1>5
<1>7. order' = [o \in Orders |-> g[o]]
  BY <1>4
<1> HIDE DEF g
<1> QED BY <1>6, <1>7, ShortTable

LEMMA PackVoidShort ==
  ASSUME ShortInv, NEW u, NEW b, NEW os, PackVoid(u, b, os)
  PROVE  ShortInv'
<1> DEFINE kept == InBasket(b, order, OpsActiveOrder) \ os
           rows == RowsIn(b) \ OrphansIn(b)
           packed == {k \in rows : row[k].status = "PACKED" /\ row[k].order \in os}
           synced == {o \in Orders : kept # {} /\ \E n \in Bins : target'[<<b, o, n>>] > 0}
           allowed == {"confirmed", "waiting"}
           tg == target'
<1>1. PICK released :
        order' = Reopened(os, allowed,
                          [o \in Orders |-> IF o \in synced THEN Progressed(o, demandPicked') ELSE order[o]],
                          Cardinality(FreeUnits \cup (packed \cup released) \cup OrphansIn(b)), tg)
  BY DEF PackVoid
<1> DEFINE free == Cardinality(FreeUnits \cup (packed \cup released) \cup OrphansIn(b))
<1> HIDE DEF kept, rows, packed, synced, allowed, tg
<1> DEFINE x(o) == Progressed(o, demandPicked')
           ords == [o \in Orders |-> IF o \in synced THEN x(o) ELSE order[o]]
<1>2. order' = Reopened(os, allowed, ords, free, tg)
  BY <1>1
<1>3. \A o \in Orders : Short(o, x(o))
  BY ProgressedShort
<1> HIDE DEF x, free
<1>4. \A o \in Orders : Short(o, ords[o])
  BY <1>3 DEF ShortInv
<1> HIDE DEF ords
<1> QED BY <1>2, <1>4, ReopenedShort

-----------------------------------------------------------------------------
(* The invariant.                                                           *)

LEMMA InitShort == Init => ShortInv
<1> SUFFICES ASSUME Init PROVE ShortInv
  OBVIOUS
<1>1. PICK ready : order = [o \in Orders |-> [status |-> IF o \in ready THEN "READY" ELSE "RESTOCKING",
                                             basket |-> NONE, claimedBy |-> NONE, picked |-> 0]]
  BY DEF Init
<1>2. \A o \in Orders : Short(o, order[o])
  BY <1>1, EmptyShort
<1> QED BY <1>1, <1>2 DEF ShortInv, IsTable

LEMMA SameShort == ASSUME ShortInv, UNCHANGED order PROVE ShortInv'
BY DEF ShortInv, IsTable

LEMMA NextShort == ShortInv /\ [Next]_vars => ShortInv'
<1> SUFFICES ASSUME ShortInv, [Next]_vars PROVE ShortInv'
  OBVIOUS
<1>1. CASE Picking
  BY <1>1, AssignShort, ScanShort, HandoffShort, VoidReleaseShort, VoidRepairShort, SameShort
  DEF Picking, ScanRead, HandoffRead, VoidRead
<1>2. CASE Upkeep
  BY <1>2, QueueShort, SameShort DEF Upkeep, QueueRead, MoveRead, MoveCommit, PosUpdate, Abandon
<1>3. CASE Packing
  BY <1>3, WaybillShort, StartShort, CompleteShort, PackVoidShort, SameShort
  DEF Packing, WaybillRead, StartRead, PackScan, LegacyScanRead, LegacyScanCommit, CompleteRead
<1>4. CASE UNCHANGED vars
  BY <1>4, SameShort DEF vars
<1> QED BY <1>1, <1>2, <1>3, <1>4 DEF Next

\* No order waits for a scan that cannot come: whatever handlers assign, scan,
\* void, recount or repair between each other's reads and commits, an order all
\* of whose units were picked is not IN_PICKING.
THEOREM NobodyWaitsForScan == Spec => []PickingIsShort
<1>1. ShortInv => PickingIsShort
  BY DEF ShortInv, Short, ShortOf, PickingIsShort, PickingOrder
<1> QED BY <1>1, InitShort, NextShort, PTL DEF Spec

-----------------------------------------------------------------------------
(* Picking up to the hand-off and the start of packing: an order stays in   *)
(* the basket it was assigned to.                                           *)

PickingOnly == Ops \cap {"void", "complete", "packVoid"} = {}

\* What a step does to an order that is in a basket.
Stays(o) == /\ order'[o].basket = order[o].basket /\ order'[o].claimedBy = order[o].claimedBy
            /\ order[o].status \in ActiveOrder => order'[o].status \in ActiveOrder
AllStay == \A o \in Orders : Stays(o)

LEMMA StatusStays ==
  ASSUME ShortInv, NEW S, NEW st \in ActiveOrder,
         order' = [o \in Orders |-> IF o \in S THEN WithStatus(order[o], st) ELSE order[o]]
  PROVE  AllStay
<1>1. ASSUME NEW o \in Orders  PROVE Stays(o)
  <2>1. IsOrder(order[o])
    BY DEF ShortInv, Short
  <2>2. WithStatus(order[o], st)
          = [status |-> st, basket |-> order[o].basket, claimedBy |-> order[o].claimedBy,
             picked |-> order[o].picked]
    BY <2>1, OrderFields
  <2>3. order'[o] = WithStatus(order[o], st) \/ order'[o] = order[o]
    OBVIOUS
  <2>4. CASE order'[o] = order[o]
    BY <2>4 DEF Stays
  <2>5. CASE order'[o] = WithStatus(order[o], st)
    BY <2>2, <2>5 DEF Stays
  <2> QED BY <2>3, <2>4, <2>5
<1> QED BY <1>1 DEF AllStay

LEMMA ScanStays ==
  ASSUME ShortInv, NEW r, ScanCommit(r)
  PROVE  AllStay
<1>1. PICK o \in Orders : order' = [order EXCEPT ![o] = Progressed(o, demandPicked')]
  BY DEF ScanCommit
<1> DEFINE p == Min({SumFunction([b \in Baskets |-> demandPicked'[<<b, o>>]]), Qty[o]})
           st == ProgressStatus(o, p)
           x == Progressed(o, demandPicked')
<1>2. x = PickedAndStatus(order[o], p, st)
  BY DEF Progressed, PickedAndStatus
<1>3. order[o].status \in ActiveOrder => st \in ActiveOrder
  BY DEF ProgressStatus, ActiveOrder, OrderStatus
<1>4. IsOrder(order[o])
  BY DEF ShortInv, Short
<1>5. order' = [order EXCEPT ![o] = x]
  BY <1>1
<1> HIDE DEF p, st, x
<1>6. x = [status |-> st, basket |-> order[o].basket, claimedBy |-> order[o].claimedBy,
           picked |-> p]
  BY <1>2, <1>4, OrderFields
<1>7. /\ x.basket = order[o].basket /\ x.claimedBy = order[o].claimedBy
      /\ order[o].status \in ActiveOrder => x.status \in ActiveOrder
  BY <1>3, <1>6
<1>8. ASSUME NEW q \in Orders  PROVE order'[q] = IF q = o THEN x ELSE order[q]
  BY <1>5 DEF ShortInv, IsTable
<1> QED BY <1>7, <1>8 DEF AllStay, Stays

LEMMA QueueStays ==
  ASSUME ShortInv, NEW r, QueueWrite(r)
  PROVE  AllStay
<1>1. PICK o, left : order' = [order EXCEPT ![o].status = Readiness(o, left), ![o].picked = 0]
  BY DEF QueueWrite
<1> DEFINE st == Readiness(o, left)
           x == StatusAndPicked(order[o], st, 0)
<1>2. order' = [order EXCEPT ![o] = x]
  BY <1>1 DEF ShortInv, IsTable, StatusAndPicked
<1>3. st \in ActiveOrder
  BY DEF Readiness, ActiveOrder, OrderStatus
<1> HIDE DEF st
<1>4. ASSUME o \in Orders
      PROVE  /\ x.basket = order[o].basket /\ x.claimedBy = order[o].claimedBy
             /\ x.status \in ActiveOrder
  <2>1. IsOrder(order[o])
    BY <1>4 DEF ShortInv, Short
  <2>2. x = [status |-> st, basket |-> order[o].basket, claimedBy |-> order[o].claimedBy, picked |-> 0]
    BY <2>1, OrderFields
  <2> QED BY <1>3, <2>2
<1> HIDE DEF x
<1>5. ASSUME NEW q \in Orders  PROVE order'[q] = IF q = o THEN x ELSE order[q]
  BY <1>2 DEF ShortInv, IsTable
<1> QED BY <1>4, <1>5 DEF AllStay, Stays

LEMMA AssignMoves ==
  ASSUME ShortInv, NEW u, NEW b, NEW os, Assign(u, b, os)
  PROVE  \A o \in Orders :
            IF o \in os THEN /\ order[o].basket = NONE /\ order'[o].basket = b
                            /\ order'[o].claimedBy = u /\ order'[o].status = "IN_PICKING"
            ELSE order'[o] = order[o]
<1> DEFINE x(o) == StatusBasketUser(order[o], "IN_PICKING", b, u)
<1>1. /\ order' = [o \in Orders |-> IF o \in os THEN x(o) ELSE order[o]]
      /\ \A o \in os : order[o].basket = NONE
  BY DEF Assign, Assignable, StatusBasketUser
<1>2. ASSUME NEW o \in Orders
      PROVE  x(o).basket = b /\ x(o).claimedBy = u /\ x(o).status = "IN_PICKING"
  <2>1. IsOrder(order[o])
    BY DEF ShortInv, Short
  <2>2. x(o) = [status |-> "IN_PICKING", basket |-> b, claimedBy |-> u, picked |-> order[o].picked]
    BY <2>1, OrderFields
  <2> QED BY <2>2
<1> HIDE DEF x
<1> QED BY <1>1, <1>2

\* Apart from assignments, no step of picking moves an order.
LEMMA OthersStay ==
  ASSUME ShortInv, ReqInv, PickingOnly, [Next]_vars
  PROVE  AllStay \/ \E u \in Users, b \in Baskets, os \in SUBSET Orders : Assign(u, b, os)
<1>1. ASSUME UNCHANGED order  PROVE AllStay
  BY <1>1 DEF AllStay, Stays
<1>2. ASSUME NEW r \in Requests  PROVE req[r].op \notin {"void", "repair", "complete"}
  BY <1>2, BasketAssumption DEF ReqInv, Opened, PickingOnly, BasketAssumption, Operations
<1>3. CASE Picking
  <2>1. ASSUME NEW r \in Requests, NEW packer, HandoffCommit(r, packer)  PROVE AllStay
    <3> DEFINE S == {o \in Orders : order[o].basket = req[r].basket /\ order[o].status = "READY_FOR_PACK"}
    <3>1. order' = [o \in Orders |-> IF o \in S THEN WithStatus(order[o], "PICKED") ELSE order[o]]
      BY <2>1 DEF HandoffCommit, WithStatus
    <3>2. "PICKED" \in ActiveOrder
      BY DEF ActiveOrder, OrderStatus
    <3> HIDE DEF S
    <3> QED BY <3>1, <3>2, StatusStays
  <2>2. ASSUME NEW r \in Requests, VoidRelease(r) \/ VoidRepair(r)  PROVE FALSE
    BY <1>2, <2>2 DEF VoidRelease, VoidRepair
  <2> QED BY <1>1, <1>3, <2>1, <2>2, ScanStays DEF Picking, ScanRead, HandoffRead, VoidRead
<1>4. CASE Upkeep
  BY <1>1, <1>4, QueueStays DEF Upkeep, QueueRead, MoveRead, MoveCommit, PosUpdate, Abandon
<1>5. CASE Packing
  <2>1. "PACKING" \in ActiveOrder
    BY DEF ActiveOrder, OrderStatus
  <2>2. ASSUME NEW r \in Requests, WaybillCommit(r)  PROVE AllStay
    <3> DEFINE S == {o \in Orders : o \in req[r].orders /\ req[r].seen = "PICKED"}
    <3>1. order' = [o \in Orders |-> IF o \in S THEN WithStatus(order[o], "PACKING") ELSE order[o]]
      BY <2>2 DEF WaybillCommit, WithStatus
    <3> HIDE DEF S
    <3> QED BY <2>1, <3>1, StatusStays
  <2>3. ASSUME NEW r \in Requests, StartCommit(r)  PROVE AllStay
    <3>1. order' = [o \in Orders |-> IF o \in req[r].orders THEN WithStatus(order[o], "PACKING")
                                    ELSE order[o]]
      BY <2>3 DEF StartCommit, WithStatus
    <3> QED BY <2>1, <3>1, StatusStays
  <2>4. ASSUME NEW r \in Requests, CompleteCommit(r)  PROVE FALSE
    BY <1>2, <2>4 DEF CompleteCommit
  <2>5. ASSUME NEW u, NEW b, NEW os, PackVoid(u, b, os)  PROVE FALSE
    BY <2>5 DEF PackVoid, PickingOnly
  <2> QED BY <1>1, <1>5, <2>2, <2>3, <2>4, <2>5
       DEF Packing, WaybillRead, StartRead, PackScan, LegacyScanRead, LegacyScanCommit, CompleteRead
<1>6. CASE UNCHANGED vars
  BY <1>1, <1>6 DEF vars
<1> QED BY <1>3, <1>4, <1>5, <1>6 DEF Next

-----------------------------------------------------------------------------
(* The demand of an order lies in its basket.                               *)

DemandInv ==
    /\ target = [c \in Cells |-> target[c]]
    /\ \A b \in Baskets, o \in Orders, n \in Bins : target[<<b, o, n>>] > 0 => order[o].basket = b

LEMMA OthersKeepDemand ==
  ASSUME ReqInv, PickingOnly, [Next]_vars
  PROVE  target' = target \/ \E u \in Users, b \in Baskets, os \in SUBSET Orders : Assign(u, b, os)
<1>1. ASSUME NEW r \in Requests  PROVE ~ VoidRelease(r)
  BY BasketAssumption DEF VoidRelease, ReqInv, Opened, PickingOnly
<1>2. ASSUME NEW u, NEW b, NEW os  PROVE ~ PackVoid(u, b, os)
  BY DEF PackVoid, PickingOnly
<1>3. CASE Picking
  BY <1>1, <1>3 DEF Picking, ScanRead, ScanCommit, HandoffRead, HandoffCommit, VoidRead, VoidRepair, demands
<1>4. CASE Upkeep
  BY <1>4 DEF Upkeep, QueueRead, QueueWrite, MoveRead, MoveCommit, PosUpdate, Abandon, demands
<1>5. CASE Packing
  BY <1>2, <1>5 DEF Packing, WaybillRead, WaybillCommit, StartRead, StartCommit, PackScan,
                    LegacyScanRead, LegacyScanCommit, CompleteRead, CompleteCommit, demands
<1>6. CASE UNCHANGED vars
  BY <1>6 DEF vars, demands
<1> QED BY <1>3, <1>4, <1>5, <1>6 DEF Next

\* createBasketPickDemands replaces the demand of orders that are in no basket.
LEMMA AssignDemand ==
  ASSUME ShortInv, DemandInv, NEW u, NEW b \in Baskets, NEW os, Assign(u, b, os)
  PROVE  DemandInv'
<1>1. PICK f : target' = [c \in Cells |-> IF c[1] = b /\ c[2] \in os THEN f[<<c[2], c[3]>>] ELSE target[c]]
  BY DEF Assign
<1>2. ASSUME NEW c \in Baskets, NEW o \in Orders, NEW n \in Bins, target'[<<c, o, n>>] > 0
      PROVE  order'[o].basket = c
  <2>1. <<c, o, n>> \in Cells
    BY DEF Cells
  <2>2. CASE o \in os /\ c = b
    BY <2>2, AssignMoves
  <2>3. CASE o \in os /\ c # b
    <3>1. target[<<c, o, n>>] > 0
      BY <1>1, <1>2, <2>1, <2>3
    <3>2. order[o].basket = c /\ order[o].basket = NONE
      BY <3>1, <2>3, AssignMoves DEF DemandInv
    <3> QED BY <3>2, BasketAssumption DEF BasketAssumption
  <2>4. CASE o \notin os
    <3>1. target[<<c, o, n>>] > 0
      BY <1>1, <1>2, <2>1, <2>4
    <3> QED BY <3>1, <2>4, AssignMoves DEF DemandInv
  <2> QED BY <2>2, <2>3, <2>4
<1>3. target' = [c \in Cells |-> target'[c]]
  BY <1>1
<1> QED BY <1>2, <1>3 DEF DemandInv

LEMMA DemandStep ==
  ASSUME ShortInv, ReqInv, DemandInv, PickingOnly, [Next]_vars
  PROVE  DemandInv'
<1>1. CASE \E u \in Users, b \in Baskets, os \in SUBSET Orders : Assign(u, b, os)
  BY <1>1, AssignDemand
<1>2. CASE AllStay /\ target' = target
  BY <1>2 DEF DemandInv, AllStay, Stays
<1> QED BY <1>1, <1>2, OthersStay, OthersKeepDemand

\* Where no basket is voided and no order completed, the demand of an order is
\* in one basket at most: assignments (Assign) take only orders without a
\* basket, and the demand queue's late writes (QueueWrite) never free one.
THEOREM DemandInOneBasket ==
  ASSUME Ops \cap {"void", "complete", "packVoid"} = {}
  PROVE  Spec => []OneOpenBasket
<1>1. Init => ShortInv /\ ReqInv /\ DemandInv
  <2> SUFFICES ASSUME Init PROVE ReqInv /\ DemandInv
    BY InitShort
  <2>1. ReqInv
    BY IdleIsOpened DEF Init, ReqInv
  <2>2. target = [c \in Cells |-> 0]
    BY DEF Init
  <2>3. \A b \in Baskets, o \in Orders, n \in Bins : target[<<b, o, n>>] = 0
    BY <2>2 DEF Cells
  <2>4. target = [c \in Cells |-> target[c]]
    BY <2>2
  <2> QED BY <2>1, <2>3, <2>4 DEF DemandInv
<1>2. ShortInv /\ ReqInv /\ DemandInv /\ [Next]_vars => (ShortInv /\ ReqInv /\ DemandInv)'
  BY NextShort, ReqStep, DemandStep DEF PickingOnly
<1>3. DemandInv => OneOpenBasket
  <2>1. ASSUME DemandInv, NEW o \in Orders
        PROVE  Cardinality({b \in Baskets : HasDemand(b, o)}) <= 1
    <3> DEFINE S == {b \in Baskets : HasDemand(b, o)}
    <3>1. S \subseteq {order[o].basket}
      BY <2>1 DEF DemandInv, HasDemand
    <3>2. IsFiniteSet({order[o].basket}) /\ Cardinality({order[o].basket}) = 1
      BY FS_Singleton
    <3>3. Cardinality(S) <= Cardinality({order[o].basket})
      BY <3>1, <3>2, FS_Subset
    <3> QED BY <3>2, <3>3
  <2> QED BY <2>1 DEF OneOpenBasket, Unpacked
<1> QED BY <1>1, <1>2, <1>3, PTL DEF Spec

-----------------------------------------------------------------------------
(* The picker of a basket is the claimer of its orders.                     *)

IsBasket(x) == x = [status |-> x.status, picker |-> x.picker, packer |-> x.packer]
IsBaskets == basket = [b \in Baskets |-> basket[b]] /\ \A b \in Baskets : IsBasket(basket[b])

Held(o) == /\ order[o].status \in ActiveOrder
           /\ order[o].basket # NONE =>
                 /\ order[o].basket \in Baskets /\ order[o].claimedBy \in Users
                 /\ basket[order[o].basket].picker = order[o].claimedBy

\* A scan that has read its basket found an order of its user there.
Scans(x) == x.op = "scan" =>
               \E o \in Orders : order[o].basket = x.basket /\ order[o].claimedBy = x.user /\ x.basket # NONE

PickerInv == IsBaskets /\ (\A o \in Orders : Held(o)) /\ \A r \in Requests : Scans(req[r])

\* refreshBasketState makes the claimer of an order its picker.
LEMMA RefreshPicker ==
  ASSUME IsBaskets, NEW b, NEW packer, NEW u, RefreshBasket(b, order', packer, ActiveOrder),
         \A o \in Orders : order'[o].status \in ActiveOrder,
         \A o \in Orders : order'[o].basket = b => order'[o].claimedBy = u
  PROVE  /\ IsBaskets'
         /\ \A c \in Baskets : basket'[c].picker = IF c # b THEN basket[c].picker
                                                ELSE IF \E o \in Orders : order'[o].basket = b THEN u ELSE NONE
<1>1. PICK rec \in Refreshed(b, order', packer, ActiveOrder) : basket' = [basket EXCEPT ![b] = rec]
  BY DEF RefreshBasket
<1> DEFINE os == InBasket(b, order', ActiveOrder)
<1>2. os = {o \in Orders : order'[o].basket = b}
  BY DEF InBasket
<1>3. IsBasket(rec) /\ rec.picker = IF \E o \in Orders : order'[o].basket = b THEN u ELSE NONE
  <2>1. CASE os = {}
    <3>1. rec = [status |-> "AVAILABLE", picker |-> NONE, packer |-> NONE]
      BY <2>1 DEF Refreshed
    <3> QED BY <1>2, <2>1, <3>1 DEF IsBasket
  <2>2. CASE os # {}
    <3>1. PICK o \in os : \E st, pk : rec = [status |-> st, picker |-> Holder(o, order'), packer |-> pk]
      BY <2>2 DEF Refreshed
    <3>2. Holder(o, order') = u
      BY <1>2 DEF Holder
    <3> QED BY <1>2, <3>1, <3>2 DEF IsBasket
  <2> QED BY <2>1, <2>2
<1>4. basket' = [c \in Baskets |-> IF c = b THEN rec ELSE basket[c]]
  BY <1>1 DEF IsBaskets
<1>5. \A c \in Baskets : basket'[c] = IF c = b THEN rec ELSE basket[c]
  BY <1>4
<1> QED BY <1>3, <1>4, <1>5 DEF IsBaskets

LEMMA BasketFields ==
  ASSUME NEW w, IsBasket(w), NEW st, NEW pk
  PROVE  /\ WithStatus(w, st) = [status |-> st, picker |-> w.picker, packer |-> w.packer]
         /\ [WithStatus(w, st) EXCEPT !.packer = pk] = [status |-> st, picker |-> w.picker, packer |-> pk]
<1> DEFINE a == w.status b == w.picker c == w.packer
<1>1. w = [status |-> a, picker |-> b, packer |-> c]
  BY DEF IsBasket
<1> HIDE DEF a, b, c
<1>2. WithStatus(w, st) = [status |-> st, picker |-> b, packer |-> c]
  BY <1>1 DEF WithStatus
<1> DEFINE v == WithStatus(w, st)
<1> HIDE DEF v
<1>3. v = [status |-> st, picker |-> b, packer |-> c]
  BY <1>2 DEF v
<1>4. [v EXCEPT !.packer = pk] = [status |-> st, picker |-> b, packer |-> pk]
  BY <1>3
<1> QED BY <1>3, <1>4 DEF v, b, c

\* The hand-off and the start of packing write the other two fields of a basket.
LEMMA BasketUpdate ==
  ASSUME IsBaskets, NEW b, NEW x, basket' = [basket EXCEPT ![b] = x],
         b \in Baskets => IsBasket(x) /\ x.picker = basket[b].picker
  PROVE  IsBaskets' /\ \A c \in Baskets : basket'[c].picker = basket[c].picker
<1>1. basket' = [c \in Baskets |-> IF c = b THEN x ELSE basket[c]]
  BY DEF IsBaskets
<1>2. \A c \in Baskets : basket'[c] = IF c = b THEN x ELSE basket[c]
  BY <1>1
<1> QED BY <1>1, <1>2 DEF IsBaskets

LEMMA HandoffPicker ==
  ASSUME IsBaskets, NEW r, NEW packer, HandoffCommit(r, packer)
  PROVE  IsBaskets' /\ \A c \in Baskets : basket'[c].picker = basket[c].picker
<1> DEFINE b == req[r].basket
           v == WithStatus(basket[b], "FULL_HELD")
           x == [v EXCEPT !.packer = packer]
<1>1. basket' = [basket EXCEPT ![b].status = "FULL_HELD", ![b].packer = packer]
  BY DEF HandoffCommit
<1> HIDE DEF b
<1>2. [basket EXCEPT ![b].status = "FULL_HELD", ![b].packer = packer] = [basket EXCEPT ![b] = x]
  BY DEF IsBaskets, WithStatus
<1>3. ASSUME b \in Baskets  PROVE IsBasket(x) /\ x.picker = basket[b].picker
  <2>1. IsBasket(basket[b])
    BY <1>3 DEF IsBaskets
  <2>2. x = [status |-> "FULL_HELD", picker |-> basket[b].picker, packer |-> packer]
    BY <2>1, BasketFields
  <2> QED BY <2>2 DEF IsBasket
<1> HIDE DEF x
<1> QED BY <1>1, <1>2, <1>3, BasketUpdate

LEMMA StartPicker ==
  ASSUME IsBaskets, NEW r, StartCommit(r)
  PROVE  IsBaskets' /\ \A c \in Baskets : basket'[c].picker = basket[c].picker
<1> DEFINE b == req[r].basket
           x == WithStatus(basket[b], "PACKING")
<1>1. basket' = [basket EXCEPT ![b].status = "PACKING"]
  BY DEF StartCommit
<1> HIDE DEF b
<1>2. [basket EXCEPT ![b].status = "PACKING"] = [basket EXCEPT ![b] = x]
  BY DEF IsBaskets, WithStatus
<1>3. ASSUME b \in Baskets  PROVE IsBasket(x) /\ x.picker = basket[b].picker
  <2>1. IsBasket(basket[b])
    BY <1>3 DEF IsBaskets
  <2>2. x = [status |-> "PACKING", picker |-> basket[b].picker, packer |-> basket[b].packer]
    BY <2>1, BasketFields
  <2> QED BY <2>2 DEF IsBasket
<1> HIDE DEF x
<1> QED BY <1>1, <1>2, <1>3, BasketUpdate

-----------------------------------------------------------------------------
(* A step of picking either leaves the pickers of the baskets with orders   *)
(* alone, or is an assignment.                                              *)

Steady ==
    /\ IsBaskets'
    /\ \A c \in Baskets : (\E o \in Orders : order'[o].basket = c) => basket'[c].picker = basket[c].picker

\* A refresh after a step that moved no order.
LEMMA RefreshSteady ==
  ASSUME PickerInv, AllStay, NEW b, NEW packer, RefreshBasket(b, order', packer, ActiveOrder)
  PROVE  Steady
<1> DEFINE u == basket[b].picker
<1>1. ASSUME b \in Baskets  PROVE Steady
  <2>1. \A o \in Orders : order'[o].status \in ActiveOrder
    BY DEF AllStay, Stays, PickerInv, Held
  <2>2. \A o \in Orders : order'[o].basket = b => order'[o].claimedBy = u
    BY <1>1, BasketAssumption DEF AllStay, Stays, PickerInv, Held, BasketAssumption
  <2> HIDE DEF u
  <2>3. /\ IsBaskets'
        /\ \A c \in Baskets : basket'[c].picker = IF c # b THEN basket[c].picker
                                               ELSE IF \E o \in Orders : order'[o].basket = b THEN u ELSE NONE
    BY <2>1, <2>2, RefreshPicker DEF PickerInv
  <2> QED BY <2>3 DEF Steady, u
<1>2. ASSUME b \notin Baskets  PROVE Steady
  <2>1. basket' = basket
    BY <1>2 DEF RefreshBasket, PickerInv, IsBaskets
  <2> QED BY <2>1 DEF Steady, PickerInv, IsBaskets
<1> QED BY <1>1, <1>2

LEMMA OthersSteady ==
  ASSUME ShortInv, ReqInv, PickerInv, PickingOnly, AllStay, [Next]_vars
  PROVE  Steady \/ \E u \in Users, b \in Baskets, os \in SUBSET Orders : Assign(u, b, os)
<1>1. ASSUME UNCHANGED basket  PROVE Steady
  BY <1>1 DEF Steady, PickerInv, IsBaskets
<1>2. ASSUME NEW r \in Requests  PROVE req[r].op \notin {"void", "repair", "complete"}
  BY <1>2, BasketAssumption DEF ReqInv, Opened, PickingOnly, BasketAssumption, Operations
<1>3. CASE Picking
  <2>1. ASSUME NEW r \in Requests, ScanCommit(r)  PROVE Steady
    BY <1>1, <2>1, RefreshSteady DEF ScanCommit
  <2>2. ASSUME NEW r \in Requests, NEW packer, HandoffCommit(r, packer)  PROVE Steady
    BY <2>2, HandoffPicker DEF Steady, PickerInv
  <2>3. ASSUME NEW r \in Requests, VoidRelease(r)  PROVE FALSE
    BY <1>2, <2>3 DEF VoidRelease
  <2> QED BY <1>1, <1>3, <2>1, <2>2, <2>3 DEF Picking, ScanRead, HandoffRead, VoidRead, VoidRepair
<1>4. CASE Upkeep
  BY <1>1, <1>4 DEF Upkeep, QueueRead, QueueWrite, MoveRead, MoveCommit, PosUpdate, Abandon
<1>5. CASE Packing
  <2>1. ASSUME NEW r \in Requests, WaybillCommit(r)  PROVE Steady
    BY <2>1, RefreshSteady DEF WaybillCommit
  <2>2. ASSUME NEW r \in Requests, StartCommit(r)  PROVE Steady
    BY <2>2, StartPicker DEF Steady, PickerInv
  <2>3. ASSUME NEW r \in Requests, LegacyScanCommit(r)  PROVE Steady
    <3>1. order' = order /\ RefreshBasket(req[r].basket, order, basket[req[r].basket].packer, ActiveOrder)
      BY <2>3 DEF LegacyScanCommit
    <3>2. RefreshBasket(req[r].basket, order', basket[req[r].basket].packer, ActiveOrder)
      BY <3>1
    <3> QED BY <3>2, RefreshSteady
  <2>4. ASSUME NEW r \in Requests, CompleteCommit(r)  PROVE FALSE
    BY <1>2, <2>4 DEF CompleteCommit
  <2>5. ASSUME NEW u, NEW b, NEW os, PackVoid(u, b, os)  PROVE FALSE
    BY <2>5 DEF PackVoid, PickingOnly
  <2> QED BY <1>1, <1>5, <2>1, <2>2, <2>3, <2>4, <2>5
       DEF Packing, WaybillRead, StartRead, PackScan, LegacyScanRead, CompleteRead
<1>6. CASE UNCHANGED vars
  BY <1>1, <1>6 DEF vars
<1> QED BY <1>3, <1>4, <1>5, <1>6 DEF Next

-----------------------------------------------------------------------------
(* Scans under way.                                                         *)

ScanOpen(r) ==
    \E u \in Users, b \in Baskets, k \in Units : ScanRead(r, u, b, k) /\ req'[r].user = u /\ req'[r].basket = b

LEMMA OpenReq ==
  ASSUME ReqInv, NEW q, NEW x, req' = [req EXCEPT ![q] = x], NEW r \in Requests
  PROVE  req'[r] = IF r = q THEN x ELSE req[r]
BY DEF ReqInv

LEMMA ScansBegin ==
  ASSUME ReqInv, PickingOnly, [Next]_vars, NEW r \in Requests, req'[r].op = "scan"
  PROVE  req'[r] = req[r] \/ ScanOpen(r)
<1>1. ASSUME NEW q, req' = [req EXCEPT ![q] = Idle]  PROVE req'[r] = req[r]
  BY <1>1, OpenReq DEF Idle
<1>2. ASSUME UNCHANGED req  PROVE req'[r] = req[r]
  BY <1>2
<1>3. ASSUME NEW q, NEW x, x.op # "scan", req' = [req EXCEPT ![q] = x]  PROVE req'[r] = req[r]
  BY <1>3, OpenReq
<1>4. ASSUME NEW q \in Requests, NEW u \in Users, NEW b \in Baskets, NEW k \in Units, ScanRead(q, u, b, k)
      PROVE  req'[r] = req[r] \/ ScanOpen(r)
  <2> DEFINE x == [Idle EXCEPT !.op = "scan", !.user = u, !.basket = b, !.unit = k, !.bin = unit[k].bin]
  <2>1. x.user = u /\ x.basket = b
    BY DEF Idle
  <2>2. req' = [req EXCEPT ![q] = x]
    BY <1>4 DEF ScanRead, Begin
  <2> HIDE DEF x
  <2>3. req'[r] = IF r = q THEN x ELSE req[r]
    BY <2>2, OpenReq
  <2> QED BY <1>4, <2>1, <2>3 DEF ScanOpen
<1>5. ASSUME NEW q \in Requests, NEW u, NEW o, HandoffRead(q, u, o)  PROVE req'[r] = req[r]
  <2> DEFINE x == [Idle EXCEPT !.op = "handoff", !.basket = order[o].basket]
  <2>1. x.op # "scan" /\ req' = [req EXCEPT ![q] = x]
    BY <1>5 DEF HandoffRead, Begin, Idle
  <2> HIDE DEF x
  <2> QED BY <1>3, <2>1
<1>6. ASSUME NEW q \in Requests, NEW o, QueueRead(q, o)  PROVE req'[r] = req[r]
  <2> DEFINE x == [Idle EXCEPT !.op = "queue", !.orders = {o}]
  <2>1. x.op # "scan" /\ req' = [req EXCEPT ![q] = x]
    BY <1>6 DEF QueueRead, Begin, Idle
  <2> HIDE DEF x
  <2> QED BY <1>3, <2>1
<1>7. ASSUME NEW q \in Requests, NEW k, MoveRead(q, k)  PROVE req'[r] = req[r]
  <2> DEFINE x == [Idle EXCEPT !.op = "move", !.unit = k, !.bin = unit[k].bin]
  <2>1. x.op # "scan" /\ req' = [req EXCEPT ![q] = x]
    BY <1>7 DEF MoveRead, Begin, Idle
  <2> HIDE DEF x
  <2> QED BY <1>3, <2>1
<1>8. ASSUME NEW q \in Requests, NEW u, NEW b, NEW o, WaybillRead(q, u, b, o)  PROVE req'[r] = req[r]
  <2> DEFINE x == [Idle EXCEPT !.op = "waybill", !.basket = b, !.orders = {o}, !.seen = order[o].status]
  <2>1. x.op # "scan" /\ req' = [req EXCEPT ![q] = x]
    BY <1>8 DEF WaybillRead, Begin, Idle
  <2> HIDE DEF x
  <2> QED BY <1>3, <2>1
<1>9. ASSUME NEW q \in Requests, NEW u, NEW o, StartRead(q, u, o)  PROVE req'[r] = req[r]
  <2> DEFINE x == [Idle EXCEPT !.op = "start", !.basket = order[o].basket, !.orders = {o}]
  <2>1. x.op # "scan" /\ req' = [req EXCEPT ![q] = x]
    BY <1>9 DEF StartRead, Begin, Idle
  <2> HIDE DEF x
  <2> QED BY <1>3, <2>1
<1>10. ASSUME NEW q \in Requests, NEW u, NEW b, NEW o, NEW k, LegacyScanRead(q, u, b, o, k)
       PROVE  req'[r] = req[r]
  <2> DEFINE x == [Idle EXCEPT !.op = "legacyScan", !.basket = b, !.orders = {o}, !.unit = k]
  <2>1. x.op # "scan" /\ req' = [req EXCEPT ![q] = x]
    BY <1>10 DEF LegacyScanRead, Begin, Idle
  <2> HIDE DEF x
  <2> QED BY <1>3, <2>1
<1>11. ASSUME \/ \E q \in Requests, u \in Users, b \in Baskets : VoidRead(q, u, b)
              \/ \E q \in Requests, u \in Users, b \in Baskets, o \in Orders : CompleteRead(q, u, b, o)
              \/ \E q \in Requests : VoidRelease(q)
       PROVE  FALSE
  BY <1>11, BasketAssumption DEF VoidRead, CompleteRead, VoidRelease, PickingOnly, ReqInv, Opened, BasketAssumption
<1>12. CASE Picking
  BY <1>1, <1>2, <1>4, <1>5, <1>11, <1>12 DEF Picking, Assign, ScanCommit, HandoffCommit, VoidRepair, End
<1>13. CASE Upkeep
  BY <1>1, <1>2, <1>6, <1>7, <1>13 DEF Upkeep, QueueWrite, MoveCommit, PosUpdate, Abandon, End
<1>14. CASE Packing
  BY <1>1, <1>2, <1>8, <1>9, <1>10, <1>11, <1>14
  DEF Packing, WaybillCommit, StartCommit, PackScan, LegacyScanCommit, CompleteCommit, PackVoid, End
<1>15. CASE UNCHANGED vars
  BY <1>15 DEF vars
<1> QED BY <1>12, <1>13, <1>14, <1>15 DEF Next

-----------------------------------------------------------------------------
(* The picker invariant and its theorem.                                    *)

LEMMA SteadyStep ==
  ASSUME ReqInv, PickerInv, PickingOnly, [Next]_vars, AllStay, Steady
  PROVE  PickerInv'
<1>1. ASSUME NEW o \in Orders  PROVE Held(o)'
  <2>1. Held(o) /\ Stays(o)
    BY DEF PickerInv, AllStay
  <2>2. ASSUME order[o].basket # NONE
        PROVE  basket'[order[o].basket].picker = basket[order[o].basket].picker
    BY <2>1, <2>2 DEF Held, Stays, Steady
  <2> QED BY <2>1, <2>2 DEF Held, Stays
<1>2. ASSUME NEW r \in Requests  PROVE Scans(req[r])'
  <2>1. ASSUME req'[r].op = "scan"
        PROVE  \E o \in Orders : /\ order'[o].basket = req'[r].basket /\ order'[o].claimedBy = req'[r].user
                                 /\ req'[r].basket # NONE
    <3>1. req'[r] = req[r] \/ ScanOpen(r)
      BY <2>1, ScansBegin
    <3>2. CASE req'[r] = req[r]
      <4>1. PICK o \in Orders : /\ order[o].basket = req[r].basket /\ order[o].claimedBy = req[r].user
                                /\ req[r].basket # NONE
        BY <2>1, <3>2 DEF PickerInv, Scans
      <4> QED BY <3>2, <4>1 DEF AllStay, Stays
    <3>3. CASE ScanOpen(r)
      <4>1. PICK u \in Users, b \in Baskets :
               /\ req'[r].user = u /\ req'[r].basket = b /\ basket[b].picker = u
               /\ \E o \in InBasket(b, order, ActiveOrder) : TRUE
        BY <3>3 DEF ScanOpen, ScanRead, ScanBasket
      <4>2. PICK o \in Orders : order[o].basket = b
        BY <4>1 DEF InBasket
      <4>3. b # NONE
        BY BasketAssumption DEF BasketAssumption
      <4>4. order[o].claimedBy = u
        BY <4>1, <4>2, <4>3 DEF PickerInv, Held
      <4> QED BY <4>1, <4>2, <4>3, <4>4 DEF AllStay, Stays
    <3> QED BY <3>1, <3>2, <3>3
  <2> QED BY <2>1 DEF Scans
<1> QED BY <1>1, <1>2 DEF PickerInv, Steady

LEMMA AssignStep ==
  ASSUME ShortInv, PickerInv, NEW u \in Users, NEW b \in Baskets, NEW os \in SUBSET Orders, Assign(u, b, os)
  PROVE  PickerInv'
<1>1. /\ basket[b].picker \in {NONE, u} /\ os # {} /\ req' = req
      /\ RefreshBasket(b, order', NONE, ActiveOrder)
  BY DEF Assign, Accepts
<1>2. b # NONE /\ u # NONE
  BY BasketAssumption DEF BasketAssumption
<1>3. \A o \in Orders :
         IF o \in os THEN /\ order[o].basket = NONE /\ order'[o].basket = b
                         /\ order'[o].claimedBy = u /\ order'[o].status = "IN_PICKING"
         ELSE order'[o] = order[o]
  BY AssignMoves
<1>4. \A o \in Orders : order'[o].status \in ActiveOrder
  <2>1. "IN_PICKING" \in ActiveOrder
    BY DEF ActiveOrder, OrderStatus
  <2> QED BY <1>3, <2>1 DEF PickerInv, Held
<1>5. ASSUME NEW o \in Orders, order'[o].basket = b  PROVE order'[o].claimedBy = u
  <2>1. CASE o \in os
    BY <1>3, <2>1
  <2>2. CASE o \notin os
    <3>1. order'[o] = order[o] /\ order[o].basket = b
      BY <1>3, <1>5, <2>2
    <3>2. order[o].claimedBy \in Users /\ basket[b].picker = order[o].claimedBy
      BY <1>2, <3>1 DEF PickerInv, Held
    <3> QED BY <1>1, <3>1, <3>2, BasketAssumption DEF BasketAssumption
  <2> QED BY <2>1, <2>2
<1>6. /\ IsBaskets'
      /\ \A c \in Baskets : basket'[c].picker = IF c # b THEN basket[c].picker
                                             ELSE IF \E o \in Orders : order'[o].basket = b THEN u ELSE NONE
  BY <1>1, <1>4, <1>5, RefreshPicker DEF PickerInv
<1>7. basket'[b].picker = u
  <2>1. \E o \in Orders : order'[o].basket = b
    BY <1>1, <1>3
  <2> QED BY <1>6, <2>1
<1>8. ASSUME NEW o \in Orders  PROVE Held(o)'
  <2>1. CASE o \in os
    BY <1>3, <1>4, <1>7, <2>1 DEF Held
  <2>2. CASE o \notin os
    <3>1. order'[o] = order[o] /\ Held(o)
      BY <1>3, <2>2 DEF PickerInv
    <3>2. ASSUME order[o].basket # NONE
          PROVE  basket'[order[o].basket].picker = order[o].claimedBy
      <4>1. CASE order[o].basket = b
        BY <1>5, <1>7, <3>1, <4>1
      <4>2. CASE order[o].basket # b
        BY <1>6, <3>1, <3>2, <4>2 DEF Held
      <4> QED BY <4>1, <4>2
    <3> QED BY <3>1, <3>2 DEF Held
  <2> QED BY <2>1, <2>2
<1>9. ASSUME NEW r \in Requests  PROVE Scans(req[r])'
  <2>1. Scans(req[r])
    BY DEF PickerInv
  <2> QED BY <1>1, <1>3, <2>1 DEF Scans
<1> QED BY <1>6, <1>8, <1>9 DEF PickerInv

LEMMA PickerStep ==
  ASSUME ShortInv, ReqInv, PickerInv, PickingOnly, [Next]_vars
  PROVE  PickerInv'
BY OthersStay, OthersSteady, SteadyStep, AssignStep

LEMMA PickerInit == Init => PickerInv
<1> SUFFICES ASSUME Init PROVE PickerInv
  OBVIOUS
<1>1. IsBaskets
  BY DEF Init, IsBaskets, IsBasket
<1>2. PICK ready : order = [o \in Orders |-> [status |-> IF o \in ready THEN "READY" ELSE "RESTOCKING",
                                             basket |-> NONE, claimedBy |-> NONE, picked |-> 0]]
  BY DEF Init
<1>3. \A o \in Orders : Held(o)
  BY <1>2 DEF Held, ActiveOrder, OrderStatus
<1>4. \A r \in Requests : Scans(req[r])
  BY DEF Init, Scans, Idle
<1> QED BY <1>1, <1>3, <1>4 DEF PickerInv

\* Where no basket is voided and no order completed, a scan commits into a basket
\* that still belongs to its user, although ScanCommit does not look again:
\* assignments, hand-offs and refreshes between its reads and its commit keep the
\* picker of a basket with orders.
THEOREM ScansStayInOwnBasket ==
  ASSUME Ops \cap {"void", "complete", "packVoid"} = {}
  PROVE  Spec => ScannedIntoOwnBasket
<1>1. Init => ShortInv /\ ReqInv /\ PickerInv
  BY InitShort, PickerInit, IdleIsOpened DEF Init, ReqInv
<1>2. ShortInv /\ ReqInv /\ PickerInv /\ [Next]_vars => (ShortInv /\ ReqInv /\ PickerInv)'
  BY NextShort, ReqStep, PickerStep DEF PickingOnly
<1>3. PickerInv => \A r \in Requests : ScanCommit(r) => basket[req[r].basket].picker = req[r].user
  BY DEF PickerInv, Scans, Held, ScanCommit
<1> QED BY <1>1, <1>2, <1>3, PTL DEF Spec, ScannedIntoOwnBasket
=============================================================================
