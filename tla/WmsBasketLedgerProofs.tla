------------------------- MODULE WmsBasketLedgerProofs -------------------------
(***************************************************************************)
(* What baskets, demands and stock count, for any number of units, bins,    *)
(* baskets, orders, users and handlers.                                     *)
(***************************************************************************)
EXTENDS WmsBasketProofs, SumTheorems

-----------------------------------------------------------------------------
(* Types, whatever operations are in use.                                   *)

UnitRecord == [status : {"PUTAWAY", "PICKED", "PACKED"}, bin : Bins \cup {NONE}]
RowRecord == [status : {"none", "PICKED", "PACKED", "REMOVED"}, basket : Baskets \cup {NONE},
              order : Orders \cup {NONE}, source : Bins \cup {NONE}]
BasketRecord == [status : {"AVAILABLE", "ASSIGNED", "IN_PICKING", "FULL_HELD", "PACKING"},
                 picker : Users \cup {NONE}, packer : Users \cup {NONE}]
OrderRecord == [status : OrderStatus, basket : Baskets \cup {NONE},
                claimedBy : Users \cup {NONE}, picked : Nat]

StockType == unit \in [Units -> UnitRecord] /\ row \in [Units -> RowRecord]
                /\ removedPacked \in [Orders -> Nat]
BasketType == basket \in [Baskets -> BasketRecord]
OrderType == order \in [Orders -> OrderRecord]
PosType == pos \in [Orders -> {"confirmed", "waiting"}]
DemandType == /\ target \in [Cells -> Nat] /\ binPicked \in [Cells -> Nat]
              /\ demandPicked \in [Baskets \X Orders -> Nat]
ReqType == req \in [Requests -> Request]

\* The type invariant, table by table.
LEMMA TypeParts ==
  TypeOK <=> StockType /\ BasketType /\ OrderType /\ PosType /\ DemandType /\ ReqType
BY DEF TypeOK, StockType, BasketType, OrderType, PosType, DemandType, ReqType,
       UnitRecord, RowRecord, BasketRecord, OrderRecord

\* The lesser and the greater of two numbers.
LEMMA MinTwo ==
  ASSUME NEW a \in Int, NEW b \in Int
  PROVE  Min({a, b}) = IF a <= b THEN a ELSE b
<1> DEFINE m == IF a <= b THEN a ELSE b
<1>1. m \in {a, b} /\ \A y \in {a, b} : m <= y
  OBVIOUS
<1>2. \A x \in {a, b} : (\A y \in {a, b} : x <= y) => x = m
  OBVIOUS
<1> HIDE DEF m
<1>3. Min({a, b}) = m
  BY <1>1, <1>2 DEF Min
<1> QED BY <1>3 DEF m

LEMMA MaxTwo ==
  ASSUME NEW a \in Int, NEW b \in Int
  PROVE  Max({a, b}) = IF a >= b THEN a ELSE b
<1> DEFINE m == IF a >= b THEN a ELSE b
<1>1. m \in {a, b} /\ \A y \in {a, b} : m >= y
  OBVIOUS
<1>2. \A x \in {a, b} : (\A y \in {a, b} : x >= y) => x = m
  OBVIOUS
<1> HIDE DEF m
<1>3. Max({a, b}) = m
  BY <1>1, <1>2 DEF Max
<1> QED BY <1>3 DEF m

\* The sizes of sets of units are natural numbers.
LEMMA UnitCount ==
  ASSUME NEW S \in SUBSET Units
  PROVE  IsFiniteSet(S) /\ Cardinality(S) \in Nat
<1>1. IsFiniteSet(S)
  BY BasketAssumption, FS_Subset DEF BasketAssumption
<1> QED BY <1>1, FS_CardinalityType

-----------------------------------------------------------------------------
(* Stock.                                                                   *)

LEMMA RemovedType ==
  ASSUME NEW rows \in [Units -> RowRecord], NEW S
  PROVE  Removed(rows, S) \in [Units -> RowRecord]
BY DEF Removed, RowRecord

LEMMA RestoredType ==
  ASSUME StockType, NEW S
  PROVE  Restored(S) \in [Units -> UnitRecord]
BY DEF StockType, Restored, UnitRecord, RowRecord

LEMMA PackedRemovedType ==
  ASSUME StockType, NEW S
  PROVE  PackedRemoved(S) \in [Orders -> Nat]
<1>1. ASSUME NEW o \in Orders
      PROVE  Min({Qty[o], removedPacked[o] + Cardinality(S \cap PackedFor(o))}) \in Nat
  <2> DEFINE T == S \cap PackedFor(o)
  <2>1. T \in SUBSET Units
    BY DEF PackedFor
  <2> HIDE DEF T
  <2>2. Cardinality(T) \in Nat
    BY <2>1, UnitCount
  <2>3. Qty[o] \in Nat /\ removedPacked[o] \in Nat
    BY BasketAssumption DEF BasketAssumption, StockType
  <2> DEFINE x == removedPacked[o] + Cardinality(T)
  <2>4. x \in Nat
    BY <2>2, <2>3
  <2> HIDE DEF x
  <2>5. Min({Qty[o], x}) = IF Qty[o] <= x THEN Qty[o] ELSE x
    BY <2>3, <2>4, MinTwo
  <2>6. Min({Qty[o], x}) \in Nat
    BY <2>3, <2>4, <2>5
  <2> QED BY <2>6 DEF x, T
<1> QED BY <1>1 DEF PackedRemoved

LEMMA PackTypes ==
  ASSUME StockType, NEW k, NEW o \in Orders
  PROVE  /\ [unit EXCEPT ![k].status = "PACKED"] \in [Units -> UnitRecord]
         /\ [row EXCEPT ![k].status = "PACKED", ![k].order = o] \in [Units -> RowRecord]
<1>1. StockShape
  BY DEF StockType, StockShape, UnitRecord, RowRecord
<1>2. /\ [unit EXCEPT ![k].status = "PACKED"] = PackedUnits(k)
      /\ [row EXCEPT ![k].status = "PACKED", ![k].order = o] = PackedRows(k, o)
  BY <1>1, PackedTablesFlat
<1>3. PackedUnits(k) \in [Units -> UnitRecord] /\ PackedRows(k, o) \in [Units -> RowRecord]
  BY DEF PackedUnits, PackedRows, StockType, UnitRecord, RowRecord
<1> QED BY <1>2, <1>3, Zenon

\* Requests hold what their handlers read.
LEMMA ReqFields ==
  ASSUME ReqType, NEW r \in Requests
  PROVE  /\ req[r].user \in Users \cup {NONE} /\ req[r].basket \in Baskets \cup {NONE}
         /\ req[r].orders \in SUBSET Orders /\ req[r].unit \in Units \cup {NONE}
         /\ req[r].bin \in Bins \cup {NONE} /\ req[r].seen \in {"PICKED", "PACKING"}
BY DEF ReqType, Request

LEMMA StockStep ==
  ASSUME StockType, ReqType, Next
  PROVE  StockType'
<1>1. ASSUME NEW u \in Users, NEW b \in Baskets, NEW os \in SUBSET Orders, Assign(u, b, os)
      PROVE  StockType'
  BY <1>1, RemovedType DEF Assign, StockType
<1>2. ASSUME NEW r \in Requests, ScanCommit(r)
      PROVE  StockType'
  <2> DEFINE k == req[r].unit n == req[r].bin b == req[r].basket
  <2>1. /\ unit' = [unit EXCEPT ![k] = [status |-> "PICKED", bin |-> NONE]]
        /\ row' = [row EXCEPT ![k] = [status |-> "PICKED", basket |-> b, order |-> NONE, source |-> n]]
        /\ removedPacked' = removedPacked
    BY <1>2 DEF ScanCommit
  <2>2. b \in Baskets \cup {NONE} /\ n \in Bins \cup {NONE}
    BY ReqFields
  <2> HIDE DEF k, n, b
  <2> QED BY <2>1, <2>2 DEF StockType, UnitRecord, RowRecord
<1>3. ASSUME NEW r \in Requests, VoidRelease(r)
      PROVE  StockType'
  BY <1>3, RemovedType, RestoredType, PackedRemovedType DEF VoidRelease, StockType
<1>4. ASSUME NEW r \in Requests, NEW n \in Bins, MoveCommit(r, n)
      PROVE  StockType'
  <2> DEFINE k == req[r].unit
  <2>1. unit' = [unit EXCEPT ![k] = [status |-> "PUTAWAY", bin |-> n]]
        /\ row' = row /\ removedPacked' = removedPacked
    BY <1>4 DEF MoveCommit
  <2> HIDE DEF k
  <2> QED BY <2>1 DEF StockType, UnitRecord
<1>5. ASSUME NEW r \in Requests, WaybillCommit(r)
      PROVE  StockType'
  BY <1>5, RemovedType DEF WaybillCommit, StockType
<1>6. ASSUME NEW u \in Users, NEW b \in Baskets, NEW o \in Orders, NEW k \in Units, PackScan(u, b, o, k)
      PROVE  StockType'
  BY <1>6, PackTypes DEF PackScan, Packs, StockType
<1>7. ASSUME NEW r \in Requests, LegacyScanCommit(r)
      PROVE  StockType'
  <2> DEFINE k == req[r].unit
  <2>1. PICK o \in req[r].orders :
           row' = Removed([row EXCEPT ![k].status = "PACKED", ![k].order = o], OrphansIn(req[r].basket))
    BY <1>7 DEF LegacyScanCommit
  <2>2. unit' = [unit EXCEPT ![k].status = "PACKED"] /\ removedPacked' = removedPacked
    BY <1>7 DEF LegacyScanCommit
  <2>3. o \in Orders
    BY ReqFields
  <2> HIDE DEF k
  <2>4. unit' \in [Units -> UnitRecord] /\ row' \in [Units -> RowRecord]
    BY <2>1, <2>2, <2>3, PackTypes, RemovedType
  <2> QED BY <2>2, <2>4 DEF StockType
<1>8. ASSUME NEW r \in Requests, CompleteCommit(r)
      PROVE  StockType'
  BY <1>8, RemovedType, PackedRemovedType DEF CompleteCommit, StockType
<1>9. ASSUME NEW u \in Users, NEW b \in Baskets, NEW os \in SUBSET Orders, PackVoid(u, b, os)
      PROVE  StockType'
  <2>1. PICK back, packed : /\ unit' = Restored(back) /\ row' = Removed(row, back \cup OrphansIn(b))
                            /\ removedPacked' = PackedRemoved(packed)
    BY <1>9 DEF PackVoid
  <2> QED BY <2>1, RemovedType, RestoredType, PackedRemovedType DEF StockType
<1>10. ASSUME UNCHANGED stock  PROVE StockType'
  BY <1>10 DEF StockType, stock
<1>11. CASE Picking
  BY <1>1, <1>2, <1>3, <1>10, <1>11
  DEF Picking, ScanRead, HandoffRead, HandoffCommit, VoidRead, VoidRepair
<1>12. CASE Upkeep
  BY <1>4, <1>10, <1>12 DEF Upkeep, QueueRead, QueueWrite, MoveRead, PosUpdate, Abandon
<1>13. CASE Packing
  BY <1>5, <1>6, <1>7, <1>8, <1>9, <1>10, <1>13
  DEF Packing, WaybillRead, StartRead, StartCommit, LegacyScanRead, CompleteRead
<1> QED BY <1>11, <1>12, <1>13 DEF Next

-----------------------------------------------------------------------------
(* Requests.                                                                *)

LEMMA RequestBegins ==
  ASSUME ReqType, NEW r, NEW x \in Request, req' = [req EXCEPT ![r] = x]
  PROVE  ReqType'
BY DEF ReqType

LEMMA IdleRequest == Idle \in Request
BY DEF Idle, Request

LEMMA ReqTypeStep ==
  ASSUME StockType, OrderType, ReqType, Next
  PROVE  ReqType'
<1>1. ASSUME NEW r, req' = [req EXCEPT ![r] = Idle]  PROVE ReqType'
  BY <1>1, IdleRequest, RequestBegins
<1>2. ASSUME NEW r, NEW x, x \in Request, Begin(r, x)  PROVE ReqType'
  BY <1>2, RequestBegins DEF Begin
<1>3. ASSUME UNCHANGED req  PROVE ReqType'
  BY <1>3 DEF ReqType
<1>4. ASSUME NEW r \in Requests, NEW u \in Users, NEW b \in Baskets, NEW k \in Units, ScanRead(r, u, b, k)
      PROVE  ReqType'
  <2> DEFINE x == [Idle EXCEPT !.op = "scan", !.user = u, !.basket = b, !.unit = k, !.bin = unit[k].bin]
  <2>1. unit[k].bin \in Bins \cup {NONE}
    BY DEF StockType, UnitRecord
  <2>2. x \in Request
    BY <2>1 DEF Idle, Request, Operations
  <2>3. Begin(r, x)
    BY <1>4 DEF ScanRead
  <2> HIDE DEF x
  <2> QED BY <1>2, <2>2, <2>3
<1>5. ASSUME NEW r \in Requests, NEW u \in Users, NEW o \in Orders, HandoffRead(r, u, o)
      PROVE  ReqType'
  <2> DEFINE x == [Idle EXCEPT !.op = "handoff", !.basket = order[o].basket]
  <2>1. order[o].basket \in Baskets \cup {NONE}
    BY DEF OrderType, OrderRecord
  <2>2. x \in Request
    BY <2>1 DEF Idle, Request, Operations
  <2>3. Begin(r, x)
    BY <1>5 DEF HandoffRead
  <2> HIDE DEF x
  <2> QED BY <1>2, <2>2, <2>3
<1>6. ASSUME NEW r \in Requests, NEW u \in Users, NEW b \in Baskets, VoidRead(r, u, b)
      PROVE  ReqType'
  <2> DEFINE x == [Idle EXCEPT !.op = "void", !.basket = b, !.orders = InBasket(b, order, ActiveOrder)]
  <2>1. InBasket(b, order, ActiveOrder) \in SUBSET Orders
    BY DEF InBasket
  <2>2. x \in Request
    BY <2>1 DEF Idle, Request, Operations
  <2>3. Begin(r, x)
    BY <1>6 DEF VoidRead
  <2> HIDE DEF x
  <2> QED BY <1>2, <2>2, <2>3
<1>7. ASSUME NEW r \in Requests, VoidRelease(r)
      PROVE  ReqType'
  <2> DEFINE q == req[r]
             x == [q EXCEPT !.op = "repair", !.basket = NONE]
  <2>1. q \in Request /\ req' = [req EXCEPT ![r] = x]
    BY <1>7 DEF VoidRelease, ReqType
  <2> HIDE DEF q
  <2>2. x \in Request
    BY <2>1 DEF Request
  <2> HIDE DEF x
  <2> QED BY <2>1, <2>2, RequestBegins
<1>8. ASSUME NEW r \in Requests, NEW o \in Orders, QueueRead(r, o)
      PROVE  ReqType'
  <2> DEFINE x == [Idle EXCEPT !.op = "queue", !.orders = {o}]
  <2>1. x \in Request
    BY DEF Idle, Request, Operations
  <2>2. Begin(r, x)
    BY <1>8 DEF QueueRead
  <2> HIDE DEF x
  <2> QED BY <1>2, <2>1, <2>2
<1>9. ASSUME NEW r \in Requests, NEW k \in Units, MoveRead(r, k)
      PROVE  ReqType'
  <2> DEFINE x == [Idle EXCEPT !.op = "move", !.unit = k, !.bin = unit[k].bin]
  <2>1. unit[k].bin \in Bins \cup {NONE}
    BY DEF StockType, UnitRecord
  <2>2. x \in Request
    BY <2>1 DEF Idle, Request, Operations
  <2>3. Begin(r, x)
    BY <1>9 DEF MoveRead
  <2> HIDE DEF x
  <2> QED BY <1>2, <2>2, <2>3
<1>10. ASSUME NEW r \in Requests, NEW u \in Users, NEW b \in Baskets, NEW o \in Orders,
              WaybillRead(r, u, b, o)
       PROVE  ReqType'
  <2> DEFINE x == [Idle EXCEPT !.op = "waybill", !.basket = b, !.orders = {o}, !.seen = order[o].status]
  <2>1. order[o].status \in {"PICKED", "PACKING"} /\ Begin(r, x)
    BY <1>10 DEF WaybillRead
  <2>2. x \in Request
    BY <2>1 DEF Idle, Request, Operations
  <2> HIDE DEF x
  <2> QED BY <1>2, <2>1, <2>2
<1>11. ASSUME NEW r \in Requests, NEW u \in Users, NEW o \in Orders, StartRead(r, u, o)
       PROVE  ReqType'
  <2> DEFINE x == [Idle EXCEPT !.op = "start", !.basket = order[o].basket, !.orders = {o}]
  <2>1. order[o].basket \in Baskets \cup {NONE}
    BY DEF OrderType, OrderRecord
  <2>2. x \in Request
    BY <2>1 DEF Idle, Request, Operations
  <2>3. Begin(r, x)
    BY <1>11 DEF StartRead
  <2> HIDE DEF x
  <2> QED BY <1>2, <2>2, <2>3
<1>12. ASSUME NEW r \in Requests, NEW u \in Users, NEW b \in Baskets, NEW o \in Orders, NEW k \in Units,
              LegacyScanRead(r, u, b, o, k)
       PROVE  ReqType'
  <2> DEFINE x == [Idle EXCEPT !.op = "legacyScan", !.basket = b, !.orders = {o}, !.unit = k]
  <2>1. x \in Request
    BY DEF Idle, Request, Operations
  <2>2. Begin(r, x)
    BY <1>12 DEF LegacyScanRead
  <2> HIDE DEF x
  <2> QED BY <1>2, <2>1, <2>2
<1>13. ASSUME NEW r \in Requests, NEW u \in Users, NEW b \in Baskets, NEW o \in Orders,
              CompleteRead(r, u, b, o)
       PROVE  ReqType'
  <2> DEFINE x == [Idle EXCEPT !.op = "complete", !.basket = b, !.orders = {o}]
  <2>1. x \in Request
    BY DEF Idle, Request, Operations
  <2>2. Begin(r, x)
    BY <1>13 DEF CompleteRead
  <2> HIDE DEF x
  <2> QED BY <1>2, <2>1, <2>2
<1>14. CASE Picking
  BY <1>1, <1>3, <1>4, <1>5, <1>6, <1>7, <1>14
  DEF Picking, Assign, ScanCommit, HandoffCommit, VoidRepair, End
<1>15. CASE Upkeep
  BY <1>1, <1>3, <1>8, <1>9, <1>15 DEF Upkeep, QueueWrite, MoveCommit, PosUpdate, Abandon, End
<1>16. CASE Packing
  BY <1>1, <1>3, <1>10, <1>11, <1>12, <1>13, <1>16
  DEF Packing, WaybillCommit, StartCommit, PackScan, LegacyScanCommit, CompleteCommit, PackVoid, End
<1> QED BY <1>14, <1>15, <1>16 DEF Next

-----------------------------------------------------------------------------
(* Demands.                                                                 *)

LEMMA WithoutType ==
  ASSUME NEW b, NEW os
  PROVE  /\ \A f \in [Cells -> Nat] : Without(f, b, os) \in [Cells -> Nat]
         /\ \A f \in [Baskets \X Orders -> Nat] : Without(f, b, os) \in [Baskets \X Orders -> Nat]
BY DEF Without

\* syncDemandBasketCountsTx writes what it counted.
LEMMA SyncTypes ==
  ASSUME DemandType, NEW b, NEW rows \in SUBSET Units, NEW tg, SyncCounts(b, rows, tg)
  PROVE  binPicked' \in [Cells -> Nat] /\ demandPicked' \in [Baskets \X Orders -> Nat]
<1> DEFINE os == {o \in Orders : \E n \in Bins : tg[<<b, o, n>>] > 0}
<1>1. PICK picked \in DemandCounts(rows, os) : \E bins \in BinCounts(b, rows, os, tg, picked) :
        /\ demandPicked' = [c \in DOMAIN demandPicked |->
                              IF c[1] # b THEN demandPicked[c] ELSE IF c[2] \in os THEN picked[c[2]] ELSE 0]
        /\ binPicked' = [c \in Cells |->
                              IF c[1] # b THEN binPicked[c] ELSE IF c[2] \in os THEN bins[<<c[2], c[3]>>] ELSE 0]
  BY DEF SyncCounts
<1>2. PICK bins \in BinCounts(b, rows, os, tg, picked) :
        /\ demandPicked' = [c \in DOMAIN demandPicked |->
                              IF c[1] # b THEN demandPicked[c] ELSE IF c[2] \in os THEN picked[c[2]] ELSE 0]
        /\ binPicked' = [c \in Cells |->
                              IF c[1] # b THEN binPicked[c] ELSE IF c[2] \in os THEN bins[<<c[2], c[3]>>] ELSE 0]
  BY <1>1
<1> HIDE DEF os
<1>3. picked \in [os -> Nat]
  <2> DEFINE packed == [o \in os |-> Cardinality(PackedIn(rows, o))]
  <2>1. \A o \in os : packed[o] \in Nat
    <3>1. \A o \in os : PackedIn(rows, o) \in SUBSET Units
      BY DEF PackedIn
    <3> QED BY <3>1, UnitCount
  <2> HIDE DEF packed
  <2>2. PICK extra \in [os -> 0 .. MaxQty] : picked = [o \in os |-> packed[o] + extra[o]]
    BY DEF DemandCounts, packed
  <2> QED BY <2>1, <2>2
<1>4. bins \in [os \X Bins -> Nat]
  <2> DEFINE from(o, n) == Cardinality({k \in PackedIn(rows, o) : row[k].source = n})
             base == [c \in os \X Bins |-> IF tg[<<b, c[1], c[2]>>] > 0 THEN from(c[1], c[2]) ELSE 0]
  <2>1. ASSUME NEW o, NEW n  PROVE from(o, n) \in Nat
    <3>1. {k \in PackedIn(rows, o) : row[k].source = n} \in SUBSET Units
      BY DEF PackedIn
    <3> QED BY <3>1, UnitCount
  <2> HIDE DEF from
  <2>2. \A c \in os \X Bins : base[c] \in Nat
    BY <2>1
  <2> HIDE DEF base
  <2>3. PICK extra \in [os \X Bins -> 0 .. MaxQty] : bins = [c \in os \X Bins |-> base[c] + extra[c]]
    BY <1>2 DEF BinCounts, base, from
  <2> QED BY <2>2, <2>3
<1>5. binPicked' \in [Cells -> Nat]
  <2>1. ASSUME NEW c \in Cells, c[2] \in os  PROVE bins[<<c[2], c[3]>>] \in Nat
    BY <1>4, <2>1 DEF Cells
  <2> QED BY <1>2, <2>1 DEF DemandType
<1>6. demandPicked' \in [Baskets \X Orders -> Nat]
  BY <1>2, <1>3 DEF DemandType
<1> QED BY <1>5, <1>6

LEMMA PackVoidDemandType ==
  ASSUME DemandType, NEW u, NEW b \in Baskets, NEW os, PackVoid(u, b, os)
  PROVE  DemandType'
<1> DEFINE kept == InBasket(b, order, OpsActiveOrder) \ os
<1>1. PICK back :
        /\ target' = Without(target, b, os)
        /\ IF kept # {} THEN SyncCounts(b, (RowsIn(b) \ OrphansIn(b)) \ back, target')
           ELSE /\ binPicked' = Without(binPicked, b, os)
                /\ demandPicked' = Without(demandPicked, b, os)
  BY DEF PackVoid
<1> DEFINE rows == (RowsIn(b) \ OrphansIn(b)) \ back
           tg == target'
<1>2. rows \in SUBSET Units
  BY DEF RowsIn
<1>3. tg \in [Cells -> Nat]
  BY <1>1, WithoutType DEF DemandType
<1>4. CASE kept # {}
  <2>1. SyncCounts(b, rows, tg)
    BY <1>1, <1>4
  <2> HIDE DEF rows, tg
  <2>2. binPicked' \in [Cells -> Nat] /\ demandPicked' \in [Baskets \X Orders -> Nat]
    BY <1>2, <2>1, SyncTypes
  <2> QED BY <1>3, <2>2 DEF DemandType, tg
<1>5. CASE kept = {}
  <2>1. binPicked' = Without(binPicked, b, os) /\ demandPicked' = Without(demandPicked, b, os)
    BY <1>1, <1>5
  <2>2. binPicked' \in [Cells -> Nat] /\ demandPicked' \in [Baskets \X Orders -> Nat]
    BY <2>1, WithoutType DEF DemandType
  <2> QED BY <1>3, <2>2 DEF DemandType
<1> QED BY <1>4, <1>5

LEMMA AssignDemandType ==
  ASSUME DemandType, NEW u, NEW b \in Baskets, NEW os \in SUBSET Orders, Assign(u, b, os)
  PROVE  DemandType'
<1>1. PICK f \in Plans(b, os, OrphansIn(b)) :
        target' = [c \in Cells |-> IF c[1] = b /\ c[2] \in os THEN f[<<c[2], c[3]>>] ELSE target[c]]
  BY DEF Assign
<1>2. f \in [os \X Bins -> 0 .. MaxQty]
  BY DEF Plans
<1>3. f \in [os \X Bins -> Nat]
  BY <1>2
<1>4. ASSUME NEW c \in Cells, c[2] \in os  PROVE f[<<c[2], c[3]>>] \in Nat
  BY <1>3, <1>4 DEF Cells
<1>5. target' \in [Cells -> Nat]
  BY <1>1, <1>4 DEF DemandType
<1>6. binPicked' = Without(binPicked, b, os) /\ demandPicked' = Without(demandPicked, b, os)
  BY DEF Assign
<1>7. binPicked' \in [Cells -> Nat] /\ demandPicked' \in [Baskets \X Orders -> Nat]
  BY <1>6, WithoutType DEF DemandType
<1> QED BY <1>5, <1>7 DEF DemandType

LEMMA PlusOne ==
  ASSUME NEW S, NEW f \in [S -> Nat], NEW c
  PROVE  [f EXCEPT ![c] = @ + 1] \in [S -> Nat]
<1> DEFINE v == f[c] + 1
<1>1. c \in S => v \in Nat
  OBVIOUS
<1> HIDE DEF v
<1>2. [f EXCEPT ![c] = v] \in [S -> Nat]
  BY <1>1
<1> QED BY <1>2 DEF v

LEMMA DemandTypeStep ==
  ASSUME DemandType, ReqType, Next
  PROVE  DemandType'
<1>1. ASSUME NEW r \in Requests, ScanCommit(r)
      PROVE  DemandType'
  <2> DEFINE b == req[r].basket n == req[r].bin
  <2>1. PICK o \in Orders : /\ binPicked' = [binPicked EXCEPT ![<<b, o, n>>] = @ + 1]
                            /\ demandPicked' = [demandPicked EXCEPT ![<<b, o>>] = @ + 1]
    BY <1>1 DEF ScanCommit
  <2>2. target' = target
    BY <1>1 DEF ScanCommit
  <2>3. binPicked' \in [Cells -> Nat] /\ demandPicked' \in [Baskets \X Orders -> Nat]
    BY <2>1, PlusOne DEF DemandType
  <2> QED BY <2>2, <2>3 DEF DemandType
<1>2. ASSUME NEW r \in Requests, VoidRelease(r)
      PROVE  DemandType'
  BY <1>2, WithoutType DEF VoidRelease, DemandType
<1>3. ASSUME UNCHANGED demands  PROVE DemandType'
  BY <1>3 DEF DemandType, demands
<1>4. CASE Picking
  BY <1>1, <1>2, <1>3, <1>4, AssignDemandType
  DEF Picking, ScanRead, HandoffRead, HandoffCommit, VoidRead, VoidRepair
<1>5. CASE Upkeep
  BY <1>3, <1>5 DEF Upkeep, QueueRead, QueueWrite, MoveRead, MoveCommit, PosUpdate, Abandon
<1>6. CASE Packing
  BY <1>3, <1>6, PackVoidDemandType
  DEF Packing, WaybillRead, WaybillCommit, StartRead, StartCommit, PackScan, LegacyScanRead,
      LegacyScanCommit, CompleteRead, CompleteCommit
<1> QED BY <1>4, <1>5, <1>6 DEF Next

-----------------------------------------------------------------------------
(* Orders.                                                                  *)

LEMMA ReadinessType ==
  ASSUME NEW o, NEW available
  PROVE  Readiness(o, available) \in OrderStatus
BY DEF Readiness, OrderStatus

\* The counted quantity is a number, and the status one of an order's.
LEMMA ProgressedType ==
  ASSUME OrderType, NEW o \in Orders, NEW f \in [Baskets \X Orders -> Nat]
  PROVE  Progressed(o, f) \in OrderRecord
<1> DEFINE g == [b \in Baskets |-> f[<<b, o>>]]
           s == SumFunction(g)
           p == Min({s, Qty[o]})
           st == ProgressStatus(o, p)
<1>1. Qty[o] \in Nat /\ IsFiniteSet(Baskets)
  BY BasketAssumption DEF BasketAssumption
<1>2. s \in Nat
  <2>1. \A b \in Baskets : g[b] \in Nat
    OBVIOUS
  <2>2. s = SumFunctionOnSet(g, Baskets)
    BY DEF SumFunction
  <2> HIDE DEF g
  <2> QED BY <1>1, <2>1, <2>2, SumNat DEF NatValued
<1>3. order[o].status \in OrderStatus
  BY DEF OrderType, OrderRecord
<1> HIDE DEF s
<1>4. p \in Nat
  BY <1>1, <1>2, MinTwo
<1>5. st \in OrderStatus
  BY <1>3 DEF ProgressStatus, OrderStatus
<1>6. Progressed(o, f) = [order[o] EXCEPT !.picked = p, !.status = st]
  BY DEF Progressed, s, g
<1> HIDE DEF p, st
<1> QED BY <1>4, <1>5, <1>6 DEF OrderType, OrderRecord

LEMMA ReopenedType ==
  ASSUME NEW ords \in [Orders -> OrderRecord], NEW os, NEW allowed, NEW free, NEW tg
  PROVE  Reopened(os, allowed, ords, free, tg) \in [Orders -> OrderRecord]
<1> DEFINE e(o) == [status |-> Readiness(o, Available(o, free, tg)), basket |-> NONE,
                    claimedBy |-> NONE, picked |-> 0]
<1>1. ASSUME NEW o  PROVE e(o) \in OrderRecord
  BY ReadinessType DEF OrderRecord
<1>2. Reopened(os, allowed, ords, free, tg)
        = [o \in Orders |-> IF o \in os /\ pos[o] \in allowed /\ order[o].status \notin {"PACKED", "CANCELED"}
                            THEN e(o) ELSE ords[o]]
  BY DEF Reopened
<1> HIDE DEF e
<1> QED BY <1>1, <1>2

LEMMA RepairType ==
  ASSUME OrderType, NEW r, VoidRepair(r)
  PROVE  OrderType'
<1> DEFINE os == {o \in req[r].orders : order[o].status \notin {"PACKED", "CANCELED"}}
           e(o) == [status |-> IF pos[o] = "confirmed" THEN "RESTOCKING" ELSE "CANCELED",
                    basket |-> NONE, claimedBy |-> NONE, picked |-> 0]
           reset == [o \in Orders |-> IF o \in os THEN e(o) ELSE order[o]]
           Q == {o \in Orders : /\ reset[o].status \in QueueOrder /\ reset[o].basket = NONE
                                /\ pos[o] = "confirmed"}
<1>1. PICK available : \E f \in QueueOutcomes(Q, available) :
         order' = [o \in Orders |-> IF o \in Q THEN [reset[o] EXCEPT !.status = f[o], !.picked = 0]
                                    ELSE reset[o]]
  BY DEF VoidRepair
<1>2. PICK f \in QueueOutcomes(Q, available) :
         order' = [o \in Orders |-> IF o \in Q THEN [reset[o] EXCEPT !.status = f[o], !.picked = 0]
                                    ELSE reset[o]]
  BY <1>1
<1>3. \A o \in Orders : e(o) \in OrderRecord
  BY DEF OrderRecord, OrderStatus
<1> HIDE DEF e, os
<1>4. reset \in [Orders -> OrderRecord]
  BY <1>3 DEF OrderType
<1> HIDE DEF reset, Q
<1>5. \A o \in Q : f[o] \in OrderStatus
  <2>1. PICK S : \E R \in S : \E Ps :
           f \in {[o \in Q |-> IF o \in R THEN "READY" ELSE IF o \in P THEN "PARTIAL" ELSE "RESTOCKING"]
                   : P \in Ps}
    BY <1>2 DEF QueueOutcomes
  <2> QED BY <2>1 DEF OrderStatus
<1> QED BY <1>2, <1>4, <1>5 DEF OrderType, OrderRecord

LEMMA PackVoidOrderType ==
  ASSUME OrderType, DemandType', NEW u, NEW b, NEW os, PackVoid(u, b, os)
  PROVE  OrderType'
<1> DEFINE kept == InBasket(b, order, OpsActiveOrder) \ os
           synced == {o \in Orders : kept # {} /\ \E n \in Bins : target'[<<b, o, n>>] > 0}
           f == demandPicked'
           tg == target'
           ords == [o \in Orders |-> IF o \in synced THEN Progressed(o, f) ELSE order[o]]
<1>1. PICK allowed, free : order' = Reopened(os, allowed, ords, free, tg)
  BY DEF PackVoid
<1>2. f \in [Baskets \X Orders -> Nat]
  BY DEF DemandType
<1> HIDE DEF f, synced
<1>3. ords \in [Orders -> OrderRecord]
  BY <1>2, ProgressedType DEF OrderType
<1> HIDE DEF ords, tg
<1> QED BY <1>1, <1>3, ReopenedType DEF OrderType

LEMMA OrderTypeStep ==
  ASSUME OrderType, ReqType, DemandType', Next
  PROVE  OrderType'
<1>1. ASSUME NEW u \in Users, NEW b \in Baskets, NEW os \in SUBSET Orders, Assign(u, b, os)
      PROVE  OrderType'
  BY <1>1 DEF Assign, OrderType, OrderRecord, OrderStatus
<1>2. ASSUME NEW r \in Requests, ScanCommit(r)
      PROVE  OrderType'
  <2> DEFINE f == demandPicked'
  <2>1. PICK o \in Orders : order' = [order EXCEPT ![o] = Progressed(o, f)]
    BY <1>2 DEF ScanCommit
  <2>2. f \in [Baskets \X Orders -> Nat]
    BY DEF DemandType
  <2> HIDE DEF f
  <2> QED BY <2>1, <2>2, ProgressedType DEF OrderType
<1>3. ASSUME NEW r \in Requests, NEW packer, HandoffCommit(r, packer)
      PROVE  OrderType'
  BY <1>3 DEF HandoffCommit, OrderType, OrderRecord, OrderStatus
<1>4. ASSUME NEW r \in Requests, VoidRelease(r)
      PROVE  OrderType'
  <2> DEFINE freed == [o \in Orders |-> IF order[o].basket = req[r].basket
                                   THEN [order[o] EXCEPT !.basket = NONE, !.claimedBy = NONE]
                                   ELSE order[o]]
  <2>1. PICK os, allowed, free, tg : order' = Reopened(os, allowed, freed, free, tg)
    BY <1>4 DEF VoidRelease
  <2>2. freed \in [Orders -> OrderRecord]
    BY DEF OrderType, OrderRecord
  <2> HIDE DEF freed
  <2> QED BY <2>1, <2>2, ReopenedType DEF OrderType
<1>5. ASSUME NEW r \in Requests, QueueWrite(r)
      PROVE  OrderType'
  <2>1. PICK o, left : order' = [order EXCEPT ![o].status = Readiness(o, left), ![o].picked = 0]
    BY <1>5 DEF QueueWrite
  <2> DEFINE st == Readiness(o, left)
  <2>2. st \in OrderStatus /\ order' = [order EXCEPT ![o].status = st, ![o].picked = 0]
    BY <2>1, ReadinessType
  <2> HIDE DEF st
  <2> QED BY <2>2 DEF OrderType, OrderRecord
<1>6. ASSUME NEW r \in Requests, WaybillCommit(r) \/ StartCommit(r) \/ CompleteCommit(r)
      PROVE  OrderType'
  <2>1. CASE WaybillCommit(r)
    BY <2>1 DEF WaybillCommit, OrderType, OrderRecord, OrderStatus
  <2>2. CASE StartCommit(r)
    BY <2>2 DEF StartCommit, OrderType, OrderRecord, OrderStatus
  <2>3. CASE CompleteCommit(r)
    BY <2>3 DEF CompleteCommit, OrderType, OrderRecord, OrderStatus
  <2> QED BY <1>6, <2>1, <2>2, <2>3
<1>7. ASSUME UNCHANGED order  PROVE OrderType'
  BY <1>7 DEF OrderType
<1>8. CASE Picking
  BY <1>1, <1>2, <1>3, <1>4, <1>7, <1>8, RepairType
  DEF Picking, ScanRead, HandoffRead, VoidRead
<1>9. CASE Upkeep
  BY <1>5, <1>7, <1>9 DEF Upkeep, QueueRead, MoveRead, MoveCommit, PosUpdate, Abandon
<1>10. CASE Packing
  BY <1>6, <1>7, <1>10, PackVoidOrderType
  DEF Packing, WaybillRead, StartRead, PackScan, LegacyScanRead, LegacyScanCommit, CompleteRead
<1> QED BY <1>8, <1>9, <1>10 DEF Next

-----------------------------------------------------------------------------
(* Baskets.                                                                 *)

\* refreshBasketState writes a status, a claimer and the packer it is given.
LEMMA RefreshType ==
  ASSUME BasketType, OrderType', NEW b, NEW packer, NEW active,
         b \in Baskets => packer \in Users \cup {NONE}, RefreshBasket(b, order', packer, active)
  PROVE  BasketType'
<1> DEFINE ords == order'
           os == InBasket(b, ords, active)
           st == BasketStatus(os, ords)
<1>1. PICK rec \in Refreshed(b, ords, packer, active) : basket' = [basket EXCEPT ![b] = rec]
  BY DEF RefreshBasket
<1>2. ords \in [Orders -> OrderRecord]
  BY DEF OrderType
<1>3. CASE b \notin Baskets
  BY <1>1, <1>3 DEF BasketType
<1>4. CASE b \in Baskets
  <2>1. CASE os = {}
    <3>1. rec = [status |-> "AVAILABLE", picker |-> NONE, packer |-> NONE]
      BY <1>1, <2>1 DEF Refreshed
    <3>2. rec \in BasketRecord
      BY <3>1 DEF BasketRecord
    <3> QED BY <1>1, <3>2 DEF BasketType
  <2>2. CASE os # {}
    <3>1. PICK o \in os : rec = [status |-> st, picker |-> Holder(o, ords),
                                 packer |-> IF st \in PackBasket THEN packer ELSE NONE]
      BY <1>1, <2>2 DEF Refreshed
    <3>2. st \in {"ASSIGNED", "IN_PICKING", "FULL_HELD", "PACKING"}
      BY DEF BasketStatus
    <3>3. Holder(o, ords) \in Users \cup {NONE}
      BY <1>2 DEF Holder, InBasket, OrderRecord
    <3> HIDE DEF st, ords
    <3>4. rec \in BasketRecord
      BY <1>4, <3>1, <3>2, <3>3 DEF BasketRecord
    <3> QED BY <1>1, <3>4 DEF BasketType
  <2> QED BY <2>1, <2>2
<1> QED BY <1>3, <1>4

LEMMA PackerType ==
  ASSUME BasketType
  PROVE  \A b \in Baskets : basket[b].packer \in Users \cup {NONE}
BY DEF BasketType, BasketRecord

LEMMA BasketTypeStep ==
  ASSUME BasketType, OrderType, OrderType', ReqType, Next
  PROVE  BasketType'
<1>1. ASSUME NEW u \in Users, NEW b \in Baskets, NEW os \in SUBSET Orders, Assign(u, b, os)
      PROVE  BasketType'
  BY <1>1, RefreshType DEF Assign
<1>2. ASSUME NEW r \in Requests, ScanCommit(r)
      PROVE  BasketType'
  <2>1. PICK o \in Orders :
          IF order[o].basket = NONE THEN UNCHANGED basket
          ELSE RefreshBasket(order[o].basket, order', basket[order[o].basket].packer, ActiveOrder)
    BY <1>2 DEF ScanCommit
  <2>2. CASE order[o].basket = NONE
    BY <2>1, <2>2 DEF BasketType
  <2>3. CASE order[o].basket # NONE
    BY <2>1, <2>3, PackerType, RefreshType
  <2> QED BY <2>2, <2>3
<1>3. ASSUME NEW r \in Requests, NEW packer \in Users, HandoffCommit(r, packer)
      PROVE  BasketType'
  <2> DEFINE b == req[r].basket
  <2>1. basket' = [basket EXCEPT ![b].status = "FULL_HELD", ![b].packer = packer]
    BY <1>3 DEF HandoffCommit
  <2> HIDE DEF b
  <2> QED BY <2>1 DEF BasketType, BasketRecord
<1>4. ASSUME NEW r \in Requests, StartCommit(r)
      PROVE  BasketType'
  <2> DEFINE b == req[r].basket
  <2>1. basket' = [basket EXCEPT ![b].status = "PACKING"]
    BY <1>4 DEF StartCommit
  <2> HIDE DEF b
  <2> QED BY <2>1 DEF BasketType, BasketRecord
<1>5. ASSUME NEW b, NEW active, RefreshBasket(b, order', basket[b].packer, active)
      PROVE  BasketType'
  BY <1>5, PackerType, RefreshType
<1>6. ASSUME NEW r \in Requests, VoidRelease(r) \/ WaybillCommit(r) \/ CompleteCommit(r)
      PROVE  BasketType'
  BY <1>5, <1>6 DEF VoidRelease, WaybillCommit, CompleteCommit
<1>7. ASSUME NEW r \in Requests, LegacyScanCommit(r)
      PROVE  BasketType'
  <2>1. RefreshBasket(req[r].basket, order, basket[req[r].basket].packer, ActiveOrder) /\ order' = order
    BY <1>7 DEF LegacyScanCommit
  <2>2. RefreshBasket(req[r].basket, order', basket[req[r].basket].packer, ActiveOrder)
    BY <2>1
  <2> QED BY <1>5, <2>2
<1>8. ASSUME NEW u \in Users, NEW b \in Baskets, NEW os \in SUBSET Orders, PackVoid(u, b, os)
      PROVE  BasketType'
  BY <1>5, <1>8 DEF PackVoid
<1>9. ASSUME UNCHANGED basket  PROVE BasketType'
  BY <1>9 DEF BasketType
<1>10. CASE Picking
  BY <1>1, <1>2, <1>3, <1>6, <1>9, <1>10
  DEF Picking, ScanRead, HandoffRead, VoidRead, VoidRepair
<1>11. CASE Upkeep
  BY <1>9, <1>11 DEF Upkeep, QueueRead, QueueWrite, MoveRead, MoveCommit, PosUpdate, Abandon
<1>12. CASE Packing
  BY <1>4, <1>6, <1>7, <1>8, <1>9, <1>12
  DEF Packing, WaybillRead, StartRead, PackScan, LegacyScanRead, CompleteRead
<1> QED BY <1>10, <1>11, <1>12 DEF Next

-----------------------------------------------------------------------------
(* The type invariant.                                                      *)

LEMMA PosTypeStep ==
  ASSUME PosType, Next
  PROVE  PosType'
<1>1. ASSUME NEW o, PosUpdate(o)  PROVE PosType'
  BY <1>1 DEF PosUpdate, PosType
<1>2. ASSUME UNCHANGED pos  PROVE PosType'
  BY <1>2 DEF PosType
<1>3. CASE Picking
  BY <1>2, <1>3 DEF Picking, Assign, ScanRead, ScanCommit, HandoffRead, HandoffCommit, VoidRead,
                    VoidRelease, VoidRepair
<1>4. CASE Upkeep
  BY <1>1, <1>2, <1>4 DEF Upkeep, QueueRead, QueueWrite, MoveRead, MoveCommit, Abandon
<1>5. CASE Packing
  BY <1>2, <1>5 DEF Packing, WaybillRead, WaybillCommit, StartRead, StartCommit, PackScan,
                    LegacyScanRead, LegacyScanCommit, CompleteRead, CompleteCommit, PackVoid
<1> QED BY <1>3, <1>4, <1>5 DEF Next

LEMMA TypeInit == Init => TypeOK
<1> SUFFICES ASSUME Init PROVE TypeOK
  OBVIOUS
<1>1. StockType
  BY DEF Init, StockType, UnitRecord, RowRecord
<1>2. BasketType /\ PosType /\ DemandType
  BY DEF Init, BasketType, BasketRecord, PosType, DemandType
<1>3. OrderType
  <2>1. PICK ready : order = [o \in Orders |-> [status |-> IF o \in ready THEN "READY" ELSE "RESTOCKING",
                                               basket |-> NONE, claimedBy |-> NONE, picked |-> 0]]
    BY DEF Init
  <2> QED BY <2>1 DEF OrderType, OrderRecord, OrderStatus
<1>4. ReqType
  BY IdleRequest DEF Init, ReqType
<1> QED BY <1>1, <1>2, <1>3, <1>4, TypeParts

LEMMA TypeStep == TypeOK /\ [Next]_vars => TypeOK'
<1> SUFFICES ASSUME TypeOK, [Next]_vars PROVE TypeOK'
  OBVIOUS
<1>1. StockType /\ BasketType /\ OrderType /\ PosType /\ DemandType /\ ReqType
  BY TypeParts
<1>2. CASE Next
  <2>1. StockType' /\ DemandType' /\ ReqType' /\ PosType'
    BY <1>1, <1>2, StockStep, DemandTypeStep, ReqTypeStep, PosTypeStep
  <2>2. OrderType'
    BY <1>1, <1>2, <2>1, OrderTypeStep
  <2>3. BasketType'
    BY <1>1, <1>2, <2>2, BasketTypeStep
  <2> QED BY <2>1, <2>2, <2>3 DEF TypeOK, StockType, BasketType, OrderType, PosType, DemandType,
             ReqType, UnitRecord, RowRecord, BasketRecord, OrderRecord
<1>3. CASE UNCHANGED vars
  BY <1>3 DEF vars, stock, demands, TypeOK
<1> QED BY <1>2, <1>3

\* Whatever operations are in use and however their reads and commits interleave,
\* the tables of basket picking and packing keep their types: every counted
\* quantity stays a natural number, and every reference names a row or nothing.
THEOREM BasketTypes == Spec => []TypeOK
BY TypeInit, TypeStep, PTL DEF Spec

-----------------------------------------------------------------------------
(* The ledger, where no basket is voided, no order completed and no unit    *)
(* moved between bins: picking, hand-off, waybills and pack scans.          *)

NoReturns == Ops \cap {"void", "complete", "packVoid", "move"} = {}

\* What the bins hold for an order in a basket.
BinValues(f, b, o) == [n \in Bins |-> f[<<b, o, n>>]]
OfBins(f, b, o) == SumFunctionOnSet(BinValues(f, b, o), Bins)

\* The demand of an order asks for its quantity, in its basket alone; no bin has
\* given more than it was asked for, and the demand counts what its bins gave.
PlanInv ==
    /\ \A b \in Baskets, o \in Orders : OfBins(target, b, o) = IF order[o].basket = b THEN Qty[o] ELSE 0
    /\ \A c \in Cells : binPicked[c] <= target[c]
    /\ \A b \in Baskets, o \in Orders : demandPicked[<<b, o>>] = OfBins(binPicked, b, o)

\* No unit in a basket is on a shelf.
RowsInv == \A k \in Units : HasRow(k) => unit[k].status # "PUTAWAY"

AllActive == \A o \in Orders : order[o].status \in ActiveOrder

\* All units of the order have been picked into its basket.
Complete(o) == \E b \in Baskets : order[o].basket = b /\ demandPicked[<<b, o>>] = Qty[o]
HandedStatus == {"READY_FOR_PACK", "PICKED", "PACKING"}

\* What a handler found out before its commit is still so.
StillSo(x) ==
    /\ x.op = "scan" => x.basket \in Baskets /\ x.unit \in Units
    /\ x.op \in {"waybill", "start"} => \A o \in x.orders : o \in Orders /\ Complete(o)

LedgerInv ==
    /\ PlanInv /\ RowsInv /\ AllActive /\ LedgerAgrees
    /\ \A o \in Orders : order[o].status \in HandedStatus => Complete(o)
    /\ \A r \in Requests : StillSo(req[r])

Base == TypeOK /\ ShortInv /\ ReqInv /\ DemandInv

\* The constants the sums range over.
LEMMA Finite ==
  /\ IsFiniteSet(Units) /\ IsFiniteSet(Bins) /\ IsFiniteSet(Orders) /\ IsFiniteSet(Baskets)
  /\ NONE \notin Baskets /\ \A o \in Orders : Qty[o] \in Nat /\ Qty[o] > 0
BY BasketAssumption DEF BasketAssumption

LEMMA BinNumbers ==
  ASSUME NEW f \in [Cells -> Nat], NEW b \in Baskets, NEW o \in Orders
  PROVE  NatValued(BinValues(f, b, o), Bins) /\ IntValued(BinValues(f, b, o), Bins)
BY DEF NatValued, IntValued, BinValues, Cells

\* Bins that hold the same hold the same together.
LEMMA SameBins ==
  ASSUME NEW f, NEW g, NEW b, NEW o, \A n \in Bins : f[<<b, o, n>>] = g[<<b, o, n>>]
  PROVE  OfBins(f, b, o) = OfBins(g, b, o)
<1>1. BinValues(f, b, o) = BinValues(g, b, o)
  BY DEF BinValues
<1> QED BY <1>1 DEF OfBins

\* No order has more units picked than its line requires.
LEMMA PickedAtMost ==
  ASSUME TypeOK, PlanInv, NEW b \in Baskets, NEW o \in Orders
  PROVE  /\ demandPicked[<<b, o>>] <= OfBins(target, b, o)
         /\ demandPicked[<<b, o>>] <= Qty[o]
<1> DEFINE f == BinValues(binPicked, b, o) g == BinValues(target, b, o)
<1>1. IntValued(f, Bins) /\ IntValued(g, Bins)
  BY BinNumbers DEF TypeOK
<1>2. \A n \in Bins : f[n] <= g[n]
  BY DEF PlanInv, Cells, BinValues
<1> HIDE DEF f, g
<1>3. SumFunctionOnSet(f, Bins) <= SumFunctionOnSet(g, Bins)
  BY <1>1, <1>2, Finite, SumMonotone
<1>4. demandPicked[<<b, o>>] <= OfBins(target, b, o)
  BY <1>3 DEF PlanInv, OfBins, f, g
<1>5. OfBins(target, b, o) <= Qty[o]
  BY Finite DEF PlanInv
<1>6. demandPicked[<<b, o>>] \in Nat /\ OfBins(target, b, o) \in Int /\ Qty[o] \in Nat
  BY Finite DEF TypeOK, PlanInv
<1> QED BY <1>4, <1>5, <1>6

\* An order has nothing planned or picked outside its basket.
LEMMA NothingElsewhere ==
  ASSUME Base, PlanInv, NEW b \in Baskets, NEW o \in Orders, order[o].basket # b
  PROVE  /\ \A n \in Bins : target[<<b, o, n>>] = 0 /\ binPicked[<<b, o, n>>] = 0
         /\ demandPicked[<<b, o>>] = 0
<1>1. ASSUME NEW n \in Bins  PROVE target[<<b, o, n>>] = 0 /\ binPicked[<<b, o, n>>] = 0
  <2>1. <<b, o, n>> \in Cells
    BY DEF Cells
  <2>2. target[<<b, o, n>>] \in Nat /\ binPicked[<<b, o, n>>] \in Nat
    BY <2>1 DEF Base, TypeOK
  <2>3. ~ (target[<<b, o, n>>] > 0)
    BY DEF Base, DemandInv
  <2>4. binPicked[<<b, o, n>>] <= target[<<b, o, n>>]
    BY <2>1 DEF PlanInv
  <2> QED BY <2>2, <2>3, <2>4
<1>2. demandPicked[<<b, o>>] <= 0 /\ demandPicked[<<b, o>>] \in Nat
  BY PickedAtMost DEF Base, PlanInv, TypeOK
<1> QED BY <1>1, <1>2

\* The order that a scan counts its unit for lacks one, in the basket scanned into.
LEMMA WantedIsShort ==
  ASSUME Base, PlanInv, NEW b \in Baskets, NEW o \in Orders, NEW n, n \in Wanted(b, o)
  PROVE  order[o].basket = b /\ demandPicked[<<b, o>>] < Qty[o]
<1>1. n \in Bins /\ binPicked[<<b, o, n>>] < target[<<b, o, n>>]
  BY DEF Wanted
<1>2. order[o].basket = b
  <2>1. ASSUME order[o].basket # b  PROVE FALSE
    <3>1. target[<<b, o, n>>] = 0 /\ binPicked[<<b, o, n>>] = 0
      BY <1>1, <2>1, NothingElsewhere
    <3> QED BY <1>1, <3>1
  <2> QED BY <2>1
<1> DEFINE f == BinValues(binPicked, b, o) g == BinValues(target, b, o)
<1>3. IntValued(f, Bins) /\ IntValued(g, Bins)
  BY BinNumbers DEF Base, TypeOK
<1>4. (\A m \in Bins : f[m] <= g[m]) /\ f[n] # g[n]
  <2>1. f[n] = binPicked[<<b, o, n>>] /\ g[n] = target[<<b, o, n>>]
    BY <1>1 DEF BinValues
  <2>2. f[n] \in Int /\ g[n] \in Int
    BY <1>1, <1>3 DEF IntValued
  <2>3. f[n] # g[n]
    BY <1>1, <2>1, <2>2
  <2> QED BY <2>3 DEF PlanInv, Cells, BinValues
<1> HIDE DEF f, g
<1>5. SumFunctionOnSet(f, Bins) < SumFunctionOnSet(g, Bins)
  BY <1>1, <1>3, <1>4, Finite, SumStrict
<1> QED BY <1>2, <1>5 DEF PlanInv, OfBins, f, g

-----------------------------------------------------------------------------
(* Steps that neither plan, pick nor pack.                                  *)

LEMMA NoCount ==
  ASSUME Base, LedgerInv, AllStay, UNCHANGED <<stock, demands>>,
         \A o \in Orders : order'[o].status \in HandedStatus =>
            order[o].status \in HandedStatus \/ Complete(o),
         \A r \in Requests : StillSo(req'[r])
  PROVE  LedgerInv'
<1>1. /\ unit' = unit /\ row' = row /\ target' = target /\ binPicked' = binPicked
      /\ demandPicked' = demandPicked
  BY DEF stock, demands
<1>2. \A o \in Orders : Complete(o)' = Complete(o)
  BY <1>1 DEF AllStay, Stays, Complete
<1>3. PlanInv'
  BY <1>1 DEF LedgerInv, PlanInv, OfBins, BinValues, AllStay, Stays
<1>4. RowsInv' /\ AllActive'
  BY <1>1 DEF LedgerInv, RowsInv, HasRow, AllActive, AllStay, Stays
<1>5. LedgerAgrees'
  <2>1. Unpacked = Orders /\ Unpacked' = Orders
    BY <1>4 DEF LedgerInv, AllActive, Unpacked, ActiveOrder
  <2>2. \A b : RowsIn(b)' = RowsIn(b) /\ Counted(b, Orders)' = Counted(b, Orders)
    BY <1>1 DEF RowsIn, HasRow, Counted
  <2>3. \A b \in Baskets : Counted(b, Unpacked)' = Counted(b, Orders)'
    BY <2>1
  <2> QED BY <2>1, <2>2, <2>3 DEF LedgerInv, LedgerAgrees
<1>6. \A o \in Orders : order'[o].status \in HandedStatus => Complete(o)'
  BY <1>2 DEF LedgerInv
<1>7. ASSUME NEW r \in Requests, req'[r].op \in {"waybill", "start"}, NEW o \in req'[r].orders
      PROVE  o \in Orders /\ Complete(o)'
  <2>1. o \in Orders /\ Complete(o)
    BY <1>7 DEF StillSo
  <2> QED BY <1>2, <2>1
<1>8. \A r \in Requests : StillSo(req[r])'
  BY <1>7 DEF StillSo
<1> QED BY <1>3, <1>4, <1>5, <1>6, <1>8 DEF LedgerInv

-----------------------------------------------------------------------------
(* What requests found out.                                                 *)

\* A request as it was, or one that has just read its orders.
ReadNow(x) ==
    /\ x.op \in Ops \cup {"idle", "repair"}
    /\ x.op = "scan" => x.basket \in Baskets /\ x.unit \in Units
    /\ x.op \in {"waybill", "start"} => \A o \in x.orders : o \in Orders /\ order[o].status \in HandedStatus
    /\ x.op = "complete" => \A o \in x.orders : o \in Orders /\ AllPacked(o)

LEMMA RequestsRead ==
  ASSUME ReqType, [Next]_vars, NEW r \in Requests
  PROVE  req'[r] = req[r] \/ ReadNow(req'[r])
<1>1. ASSUME NEW q, NEW x, ReadNow(x), req' = [req EXCEPT ![q] = x]
      PROVE  req'[r] = req[r] \/ ReadNow(req'[r])
  BY <1>1 DEF ReqType
<1>2. ASSUME NEW q, req' = [req EXCEPT ![q] = Idle]  PROVE req'[r] = req[r] \/ ReadNow(req'[r])
  <2>1. ReadNow(Idle)
    BY DEF ReadNow, Idle
  <2> QED BY <1>1, <1>2, <2>1
<1>3. ASSUME NEW q, NEW x, ReadNow(x), Begin(q, x)  PROVE req'[r] = req[r] \/ ReadNow(req'[r])
  BY <1>1, <1>3 DEF Begin
<1>4. ASSUME UNCHANGED req  PROVE req'[r] = req[r]
  BY <1>4
<1>5. ASSUME NEW q \in Requests, NEW u \in Users, NEW b \in Baskets, NEW k \in Units, ScanRead(q, u, b, k)
      PROVE  req'[r] = req[r] \/ ReadNow(req'[r])
  <2> DEFINE x == [Idle EXCEPT !.op = "scan", !.user = u, !.basket = b, !.unit = k, !.bin = unit[k].bin]
  <2>1. ReadNow(x)
    BY <1>5 DEF ReadNow, Idle, ScanRead
  <2>2. Begin(q, x)
    BY <1>5 DEF ScanRead
  <2> HIDE DEF x
  <2> QED BY <1>3, <2>1, <2>2
<1>6. ASSUME NEW q \in Requests, NEW u \in Users, NEW o \in Orders, HandoffRead(q, u, o)
      PROVE  req'[r] = req[r] \/ ReadNow(req'[r])
  <2> DEFINE x == [Idle EXCEPT !.op = "handoff", !.basket = order[o].basket]
  <2>1. ReadNow(x)
    BY <1>6 DEF ReadNow, Idle, HandoffRead
  <2>2. Begin(q, x)
    BY <1>6 DEF HandoffRead
  <2> HIDE DEF x
  <2> QED BY <1>3, <2>1, <2>2
<1>7. ASSUME NEW q \in Requests, NEW u \in Users, NEW b \in Baskets, VoidRead(q, u, b)
      PROVE  req'[r] = req[r] \/ ReadNow(req'[r])
  <2> DEFINE x == [Idle EXCEPT !.op = "void", !.basket = b, !.orders = InBasket(b, order, ActiveOrder)]
  <2>1. ReadNow(x)
    BY <1>7 DEF ReadNow, Idle, VoidRead
  <2>2. Begin(q, x)
    BY <1>7 DEF VoidRead
  <2> HIDE DEF x
  <2> QED BY <1>3, <2>1, <2>2
<1>8. ASSUME NEW q \in Requests, VoidRelease(q)
      PROVE  req'[r] = req[r] \/ ReadNow(req'[r])
  <2> DEFINE x == [req[q] EXCEPT !.op = "repair", !.basket = NONE]
  <2>1. req' = [req EXCEPT ![q] = x] /\ req[q].op = "void"
    BY <1>8 DEF VoidRelease, ReqType
  <2>2. x.op = "repair"
    <3>1. req[q] = [op |-> req[q].op, user |-> req[q].user, basket |-> req[q].basket, orders |-> req[q].orders,
                    unit |-> req[q].unit, bin |-> req[q].bin, seen |-> req[q].seen]
      BY <1>8 DEF ReqType, Request
    <3> QED BY <3>1
  <2> HIDE DEF x
  <2>3. ReadNow(x)
    BY <2>2 DEF ReadNow
  <2> QED BY <1>1, <2>1, <2>3
<1>9. ASSUME NEW q \in Requests, NEW o \in Orders, QueueRead(q, o)
      PROVE  req'[r] = req[r] \/ ReadNow(req'[r])
  <2> DEFINE x == [Idle EXCEPT !.op = "queue", !.orders = {o}]
  <2>1. ReadNow(x)
    BY <1>9 DEF ReadNow, Idle, QueueRead
  <2>2. Begin(q, x)
    BY <1>9 DEF QueueRead
  <2> HIDE DEF x
  <2> QED BY <1>3, <2>1, <2>2
<1>10. ASSUME NEW q \in Requests, NEW k \in Units, MoveRead(q, k)
       PROVE  req'[r] = req[r] \/ ReadNow(req'[r])
  <2> DEFINE x == [Idle EXCEPT !.op = "move", !.unit = k, !.bin = unit[k].bin]
  <2>1. ReadNow(x)
    BY <1>10 DEF ReadNow, Idle, MoveRead
  <2>2. Begin(q, x)
    BY <1>10 DEF MoveRead
  <2> HIDE DEF x
  <2> QED BY <1>3, <2>1, <2>2
<1>11. ASSUME NEW q \in Requests, NEW u \in Users, NEW b \in Baskets, NEW o \in Orders,
              WaybillRead(q, u, b, o)
       PROVE  req'[r] = req[r] \/ ReadNow(req'[r])
  <2> DEFINE x == [Idle EXCEPT !.op = "waybill", !.basket = b, !.orders = {o}, !.seen = order[o].status]
  <2>1. ReadNow(x)
    BY <1>11 DEF ReadNow, Idle, WaybillRead, HandedStatus
  <2>2. Begin(q, x)
    BY <1>11 DEF WaybillRead
  <2> HIDE DEF x
  <2> QED BY <1>3, <2>1, <2>2
<1>12. ASSUME NEW q \in Requests, NEW u \in Users, NEW o \in Orders, StartRead(q, u, o)
       PROVE  req'[r] = req[r] \/ ReadNow(req'[r])
  <2> DEFINE x == [Idle EXCEPT !.op = "start", !.basket = order[o].basket, !.orders = {o}]
  <2>1. ReadNow(x)
    BY <1>12 DEF ReadNow, Idle, StartRead, HandedStatus
  <2>2. Begin(q, x)
    BY <1>12 DEF StartRead
  <2> HIDE DEF x
  <2> QED BY <1>3, <2>1, <2>2
<1>13. ASSUME NEW q \in Requests, NEW u \in Users, NEW b \in Baskets, NEW o \in Orders, NEW k \in Units,
              LegacyScanRead(q, u, b, o, k)
       PROVE  req'[r] = req[r] \/ ReadNow(req'[r])
  <2> DEFINE x == [Idle EXCEPT !.op = "legacyScan", !.basket = b, !.orders = {o}, !.unit = k]
  <2>1. ReadNow(x)
    BY <1>13 DEF ReadNow, Idle, LegacyScanRead
  <2>2. Begin(q, x)
    BY <1>13 DEF LegacyScanRead
  <2> HIDE DEF x
  <2> QED BY <1>3, <2>1, <2>2
<1>14. ASSUME NEW q \in Requests, NEW u \in Users, NEW b \in Baskets, NEW o \in Orders,
              CompleteRead(q, u, b, o)
       PROVE  req'[r] = req[r] \/ ReadNow(req'[r])
  <2> DEFINE x == [Idle EXCEPT !.op = "complete", !.basket = b, !.orders = {o}]
  <2>1. ReadNow(x)
    BY <1>14 DEF ReadNow, Idle, CompleteRead
  <2>2. Begin(q, x)
    BY <1>14 DEF CompleteRead
  <2> HIDE DEF x
  <2> QED BY <1>3, <2>1, <2>2
<1>15. CASE Picking
  BY <1>2, <1>4, <1>5, <1>6, <1>7, <1>8, <1>15 DEF Picking, Assign, ScanCommit, HandoffCommit, VoidRepair, End
<1>16. CASE Upkeep
  BY <1>2, <1>4, <1>9, <1>10, <1>16 DEF Upkeep, QueueWrite, MoveCommit, PosUpdate, Abandon, End
<1>17. CASE Packing
  BY <1>2, <1>4, <1>11, <1>12, <1>13, <1>14, <1>17
  DEF Packing, WaybillCommit, StartCommit, PackScan, LegacyScanCommit, CompleteCommit, PackVoid, End
<1>18. CASE UNCHANGED vars
  BY <1>18 DEF vars
<1> QED BY <1>15, <1>16, <1>17, <1>18 DEF Next

\* The orders a handler has just read as handed off are complete.
LEMMA RequestsStillSo ==
  ASSUME Base, LedgerInv, [Next]_vars, NEW r \in Requests
  PROVE  StillSo(req'[r])
<1>1. CASE req'[r] = req[r]
  BY <1>1 DEF LedgerInv
<1>2. CASE ReadNow(req'[r])
  BY <1>2 DEF LedgerInv, ReadNow, StillSo
<1>3. ReqType
  BY TypeParts DEF Base
<1> QED BY <1>1, <1>2, <1>3, RequestsRead

-----------------------------------------------------------------------------
(* Assignments.                                                             *)

\* Where units in baskets are off the shelves, an assignment removes no row, and
\* what it clears was clear: only what is planned changes.
LEMMA AssignKeepsCounts ==
  ASSUME Base, LedgerInv, NEW u \in Users, NEW b \in Baskets, NEW os \in SUBSET Orders, Assign(u, b, os)
  PROVE  row' = row /\ unit' = unit /\ binPicked' = binPicked /\ demandPicked' = demandPicked
<1>1. OrphansIn(b) = {}
  BY DEF LedgerInv, RowsInv, OrphansIn, RowsIn
<1>2. row' = row
  <2>1. row' = Removed(row, {})
    BY <1>1 DEF Assign
  <2> QED BY <2>1 DEF Removed, Base, TypeOK
<1>3. \A o \in os : order[o].basket # b
  BY Finite DEF Assign, Assignable
<1>4. ASSUME NEW c \in Cells, c[1] = b, c[2] \in os  PROVE binPicked[c] = 0
  <2>1. PICK o \in Orders, n \in Bins : c = <<b, o, n>>
    BY <1>4 DEF Cells
  <2>2. order[o].basket # b
    BY <1>3, <1>4, <2>1
  <2> QED BY <2>1, <2>2, NothingElsewhere DEF LedgerInv
<1>5. ASSUME NEW c \in Baskets \X Orders, c[1] = b, c[2] \in os  PROVE demandPicked[c] = 0
  <2>1. PICK o \in Orders : c = <<b, o>>
    BY <1>5
  <2>2. order[o].basket # b
    BY <1>3, <1>5, <2>1
  <2> QED BY <2>1, <2>2, NothingElsewhere DEF LedgerInv
<1>6. binPicked' = Without(binPicked, b, os) /\ demandPicked' = Without(demandPicked, b, os) /\ unit' = unit
  BY DEF Assign
<1>7. binPicked' = binPicked
  <2>1. binPicked' = [c \in Cells |-> IF c[1] = b /\ c[2] \in os THEN 0 ELSE binPicked[c]]
    BY <1>6 DEF Without, Base, TypeOK
  <2>2. \A c \in Cells : binPicked'[c] = binPicked[c]
    BY <1>4, <2>1
  <2> QED BY <2>1, <2>2 DEF Base, TypeOK
<1>8. demandPicked' = demandPicked
  <2>1. demandPicked' = [c \in Baskets \X Orders |-> IF c[1] = b /\ c[2] \in os THEN 0 ELSE demandPicked[c]]
    BY <1>6 DEF Without, Base, TypeOK
  <2>2. \A c \in Baskets \X Orders : demandPicked'[c] = demandPicked[c]
    BY <1>5, <2>1
  <2> QED BY <2>1, <2>2 DEF Base, TypeOK
<1> QED BY <1>2, <1>6, <1>7, <1>8

\* The plan asks for the quantity of every assigned order.
LEMMA AssignPlans ==
  ASSUME Base, LedgerInv, NEW u \in Users, NEW b \in Baskets, NEW os \in SUBSET Orders, Assign(u, b, os)
  PROVE  PlanInv'
<1>1. PICK f \in Plans(b, os, OrphansIn(b)) :
        target' = [c \in Cells |-> IF c[1] = b /\ c[2] \in os THEN f[<<c[2], c[3]>>] ELSE target[c]]
  BY DEF Assign
<1>2. f \in [os \X Bins -> Nat] /\ \A o \in os : SumFunction([n \in Bins |-> f[<<o, n>>]]) = Qty[o]
  <2>1. f \in [os \X Bins -> 0 .. MaxQty]
    BY DEF Plans
  <2> QED BY <2>1 DEF Plans
<1>3. ASSUME NEW c \in Baskets, NEW o \in Orders, NEW n \in Bins
      PROVE  target'[<<c, o, n>>] = IF c = b /\ o \in os THEN f[<<o, n>>] ELSE target[<<c, o, n>>]
  <2>1. <<c, o, n>> \in Cells
    BY DEF Cells
  <2> QED BY <1>1, <2>1
<1>4. binPicked' = binPicked /\ demandPicked' = demandPicked
  BY AssignKeepsCounts
<1>5. \A o \in Orders : order'[o].basket = IF o \in os THEN b ELSE order[o].basket
  BY AssignMoves DEF Base
<1>6. \A o \in os : order[o].basket = NONE
  BY DEF Assign, Assignable
<1>7. ASSUME NEW c \in Baskets, NEW o \in Orders
      PROVE  OfBins(target', c, o) = IF order'[o].basket = c THEN Qty[o] ELSE 0
  <2>1. CASE c = b /\ o \in os
    <3>1. BinValues(target', c, o) = [n \in Bins |-> f[<<o, n>>]]
      BY <1>3, <2>1 DEF BinValues
    <3>2. OfBins(target', c, o) = SumFunction([n \in Bins |-> f[<<o, n>>]])
      BY <3>1 DEF OfBins, SumFunction
    <3> QED BY <1>2, <1>5, <2>1, <3>2
  <2>2. CASE ~ (c = b /\ o \in os)
    <3>1. OfBins(target', c, o) = OfBins(target, c, o)
      <4>1. BinValues(target', c, o) = BinValues(target, c, o)
        BY <1>3, <2>2 DEF BinValues
      <4> QED BY <4>1 DEF OfBins
    <3>2. (order'[o].basket = c) <=> (order[o].basket = c)
      BY <1>5, <1>6, <2>2, Finite
    <3> QED BY <3>1, <3>2 DEF LedgerInv, PlanInv
  <2> QED BY <2>1, <2>2
<1>8. ASSUME NEW c \in Cells  PROVE binPicked'[c] <= target'[c]
  <2>1. CASE c[1] = b /\ c[2] \in os
    <3>1. PICK o \in Orders, n \in Bins : c = <<b, o, n>>
      BY <2>1 DEF Cells
    <3>2. binPicked[c] = 0
      <4>1. order[o].basket # b
        BY <1>6, <2>1, <3>1, Finite
      <4> QED BY <3>1, <4>1, NothingElsewhere DEF LedgerInv
    <3>3. target'[c] = f[<<o, n>>] /\ f[<<o, n>>] \in Nat
      BY <1>2, <1>3, <2>1, <3>1
    <3> QED BY <1>4, <3>2, <3>3
  <2>2. CASE ~ (c[1] = b /\ c[2] \in os)
    BY <1>1, <1>4, <2>2 DEF LedgerInv, PlanInv
  <2> QED BY <2>1, <2>2
<1>9. \A c \in Baskets, o \in Orders : demandPicked'[<<c, o>>] = OfBins(binPicked', c, o)
  BY <1>4 DEF LedgerInv, PlanInv
<1> QED BY <1>7, <1>8, <1>9 DEF PlanInv, OfBins, BinValues

LEMMA AssignLedger ==
  ASSUME Base, LedgerInv, NEW u \in Users, NEW b \in Baskets, NEW os \in SUBSET Orders, Assign(u, b, os)
  PROVE  LedgerInv'
<1>1. row' = row /\ unit' = unit /\ binPicked' = binPicked /\ demandPicked' = demandPicked
  BY AssignKeepsCounts
<1>2. PlanInv'
  BY AssignPlans
<1>3. \A o \in Orders :
         IF o \in os THEN /\ order[o].basket = NONE /\ order'[o].basket = b
                         /\ order'[o].claimedBy = u /\ order'[o].status = "IN_PICKING"
         ELSE order'[o] = order[o]
  BY AssignMoves DEF Base
<1>4. RowsInv' /\ AllActive'
  BY <1>1, <1>3 DEF LedgerInv, RowsInv, HasRow, AllActive, ActiveOrder, OrderStatus
<1>5. LedgerAgrees'
  <2>1. Unpacked = Orders /\ Unpacked' = Orders
    BY <1>4 DEF LedgerInv, AllActive, Unpacked, ActiveOrder
  <2>2. \A c : RowsIn(c)' = RowsIn(c) /\ Counted(c, Orders)' = Counted(c, Orders)
    BY <1>1 DEF RowsIn, HasRow, Counted
  <2>3. \A c \in Baskets : Counted(c, Unpacked)' = Counted(c, Orders)'
    BY <2>1
  <2> QED BY <2>1, <2>2, <2>3 DEF LedgerInv, LedgerAgrees
<1>6. ASSUME NEW o \in Orders, Complete(o)  PROVE Complete(o)'
  BY <1>1, <1>3, <1>6, Finite DEF Complete
<1>7. \A o \in Orders : order'[o].status \in HandedStatus => Complete(o)'
  BY <1>3, <1>6 DEF LedgerInv, HandedStatus
<1>8. \A r \in Requests : StillSo(req[r])'
  <2>1. req' = req
    BY DEF Assign
  <2> QED BY <1>6, <2>1 DEF LedgerInv, StillSo
<1> QED BY <1>2, <1>4, <1>5, <1>7, <1>8 DEF LedgerInv

-----------------------------------------------------------------------------
(* Scans.                                                                   *)

\* A counter of a table is raised.
LEMMA Raised ==
  ASSUME NEW S, NEW f \in [S -> Nat], NEW c \in S
  PROVE  [f EXCEPT ![c] = @ + 1] = [x \in S |-> IF x = c THEN f[c] + 1 ELSE f[x]]
OBVIOUS

\* Summed up, the raised counter makes one more.
LEMMA OneMore ==
  ASSUME NEW S, IsFiniteSet(S), NEW f, NEW g, IntValued(f, S), NEW e \in S, g[e] = f[e] + 1,
         \A x \in S \ {e} : g[x] = f[x]
  PROVE  SumFunctionOnSet(g, S) = SumFunctionOnSet(f, S) + 1
<1>1. f[e] \in Int /\ g[e] \in Int
  BY DEF IntValued
<1>2. SumFunctionOnSet(g, S) = SumFunctionOnSet(f, S) - f[e] + g[e]
  BY <1>1, SumChange
<1>3. SumFunctionOnSet(f, S) \in Int
  BY SumInt
<1> QED BY <1>1, <1>2, <1>3

\* What a scan that counts its unit for o does: k goes from bin n into basket b.
Picks(b, o, n, k) ==
    /\ b \in Baskets /\ o \in Orders /\ n \in Bins /\ k \in Units
    /\ n \in Wanted(b, o) /\ Takes(k, n)
    /\ order[o].basket = b /\ demandPicked[<<b, o>>] < Qty[o]
    /\ binPicked' = [binPicked EXCEPT ![<<b, o, n>>] = @ + 1]
    /\ demandPicked' = [demandPicked EXCEPT ![<<b, o>>] = @ + 1]
    /\ order' = [order EXCEPT ![o] = Progressed(o, demandPicked')]
    /\ RefreshBasket(b, order', basket[b].packer, ActiveOrder)
    /\ unit' = [unit EXCEPT ![k] = [status |-> "PICKED", bin |-> NONE]]
    /\ row' = [row EXCEPT ![k] = [status |-> "PICKED", basket |-> b, order |-> NONE, source |-> n]]
    /\ UNCHANGED <<removedPacked, target, pos>>

LEMMA ScanPicks ==
  ASSUME Base, LedgerInv, NEW r \in Requests, ScanCommit(r)
  PROVE  \E o \in Orders : Picks(req[r].basket, o, req[r].bin, req[r].unit)
<1> DEFINE b == req[r].basket k == req[r].unit n == req[r].bin
<1>1. b \in Baskets /\ k \in Units
  BY DEF LedgerInv, StillSo, ScanCommit
<1>2. PICK o \in Orders :
          /\ n \in Wanted(b, o)
          /\ binPicked' = [binPicked EXCEPT ![<<b, o, n>>] = @ + 1]
          /\ demandPicked' = [demandPicked EXCEPT ![<<b, o>>] = @ + 1]
          /\ order' = [order EXCEPT ![o] = Progressed(o, demandPicked')]
          /\ IF order[o].basket = NONE THEN UNCHANGED basket
             ELSE RefreshBasket(order[o].basket, order', basket[order[o].basket].packer, ActiveOrder)
  BY DEF ScanCommit
<1>3. /\ Takes(k, n)
      /\ unit' = [unit EXCEPT ![k] = [status |-> "PICKED", bin |-> NONE]]
      /\ row' = [row EXCEPT ![k] = [status |-> "PICKED", basket |-> b, order |-> NONE, source |-> n]]
      /\ UNCHANGED <<removedPacked, target, pos>>
  BY DEF ScanCommit
<1> HIDE DEF b, k, n
<1>4. order[o].basket = b /\ demandPicked[<<b, o>>] < Qty[o] /\ n \in Bins
  BY <1>1, <1>2, WantedIsShort DEF LedgerInv, Wanted
<1>5. RefreshBasket(b, order', basket[b].packer, ActiveOrder)
  BY <1>1, <1>2, <1>4, Finite
<1>6. Picks(b, o, n, k)
  BY <1>1, <1>2, <1>3, <1>4, <1>5 DEF Picks
<1> QED BY <1>6 DEF b, k, n

\* The counters that a scan raises.
LEMMA PicksFromBin ==
  ASSUME Base, NEW b, NEW o, NEW n, NEW k, Picks(b, o, n, k)
  PROVE  binPicked' = [x \in Cells |-> IF x = <<b, o, n>> THEN binPicked[x] + 1 ELSE binPicked[x]]
<1> DEFINE e == <<b, o, n>>
<1>1. e \in Cells
  BY DEF Picks, Cells
<1>2. binPicked \in [Cells -> Nat] /\ binPicked' = [binPicked EXCEPT ![e] = @ + 1]
  BY DEF Base, TypeOK, Picks
<1> HIDE DEF e
<1>3. binPicked' = [x \in Cells |-> IF x = e THEN binPicked[e] + 1 ELSE binPicked[x]]
  BY <1>1, <1>2, Raised
<1>4. binPicked' = [x \in Cells |-> IF x = e THEN binPicked[x] + 1 ELSE binPicked[x]]
  BY <1>3
<1> QED BY <1>4 DEF e

LEMMA PicksDemand ==
  ASSUME Base, NEW b, NEW o, NEW n, NEW k, Picks(b, o, n, k)
  PROVE  \A c \in Baskets, p \in Orders :
            demandPicked'[<<c, p>>] = IF c = b /\ p = o THEN demandPicked[<<c, p>>] + 1
                                     ELSE demandPicked[<<c, p>>]
<1> DEFINE d == <<b, o>>
<1>1. d \in Baskets \X Orders
  BY DEF Picks
<1>2. demandPicked \in [Baskets \X Orders -> Nat] /\ demandPicked' = [demandPicked EXCEPT ![d] = @ + 1]
  BY DEF Base, TypeOK, Picks
<1> HIDE DEF d
<1>3. demandPicked' = [x \in Baskets \X Orders |-> IF x = d THEN demandPicked[d] + 1 ELSE demandPicked[x]]
  BY <1>1, <1>2, Raised
<1> QED BY <1>3 DEF d

LEMMA PicksPlan ==
  ASSUME Base, LedgerInv, AllStay, NEW b, NEW o, NEW n, NEW k, Picks(b, o, n, k)
  PROVE  PlanInv'
<1>1. /\ b \in Baskets /\ o \in Orders /\ n \in Bins /\ target' = target
      /\ binPicked[<<b, o, n>>] < target[<<b, o, n>>]
  BY DEF Picks, Wanted
<1>a. \A c \in Baskets, p \in Orders, m \in Bins :
         binPicked'[<<c, p, m>>] = IF c = b /\ p = o /\ m = n THEN binPicked[<<c, p, m>>] + 1
                                  ELSE binPicked[<<c, p, m>>]
  <2>1. binPicked' = [x \in Cells |-> IF x = <<b, o, n>> THEN binPicked[x] + 1 ELSE binPicked[x]]
    BY PicksFromBin
  <2>2. ASSUME NEW c \in Baskets, NEW p \in Orders, NEW m \in Bins
        PROVE  binPicked'[<<c, p, m>>] = IF c = b /\ p = o /\ m = n THEN binPicked[<<c, p, m>>] + 1
                                        ELSE binPicked[<<c, p, m>>]
    <3>1. <<c, p, m>> \in Cells
      BY DEF Cells
    <3> QED BY <2>1, <3>1
  <2> QED BY <2>2
<1>b. \A c \in Baskets, p \in Orders :
         demandPicked'[<<c, p>>] = IF c = b /\ p = o THEN demandPicked[<<c, p>>] + 1
                                  ELSE demandPicked[<<c, p>>]
  BY PicksDemand
<1>2. ASSUME NEW c \in Baskets, NEW p \in Orders
      PROVE  OfBins(target', c, p) = IF order'[p].basket = c THEN Qty[p] ELSE 0
  BY <1>1 DEF AllStay, Stays, LedgerInv, PlanInv
<1>3. ASSUME NEW c \in Cells  PROVE binPicked'[c] <= target'[c]
  <2>1. PICK q \in Baskets, p \in Orders, m \in Bins : c = <<q, p, m>>
    BY DEF Cells
  <2>2. binPicked[c] \in Nat /\ target[c] \in Nat /\ binPicked[c] <= target[c]
    BY DEF Base, TypeOK, LedgerInv, PlanInv
  <2>3. CASE q = b /\ p = o /\ m = n
    <3>1. binPicked'[c] = binPicked[c] + 1 /\ binPicked[c] < target[c]
      BY <1>1, <1>a, <2>1, <2>3
    <3> QED BY <1>1, <2>2, <3>1
  <2>4. CASE ~ (q = b /\ p = o /\ m = n)
    <3>1. binPicked'[c] = binPicked[c]
      BY <1>a, <2>1, <2>4
    <3> QED BY <1>1, <2>2, <3>1
  <2> QED BY <2>3, <2>4
<1>4. ASSUME NEW c \in Baskets, NEW p \in Orders
      PROVE  demandPicked'[<<c, p>>] = OfBins(binPicked', c, p)
  <2> DEFINE f == BinValues(binPicked, c, p) g == BinValues(binPicked', c, p)
  <2>1. IntValued(f, Bins)
    BY BinNumbers DEF Base, TypeOK
  <2>2. demandPicked[<<c, p>>] = SumFunctionOnSet(f, Bins)
    BY DEF LedgerInv, PlanInv, OfBins
  <2>3. \A m \in Bins : g[m] = IF c = b /\ p = o /\ m = n THEN f[m] + 1 ELSE f[m]
    BY <1>a DEF BinValues
  <2>4. CASE c = b /\ p = o
    <3>1. g[n] = f[n] + 1 /\ \A m \in Bins \ {n} : g[m] = f[m]
      BY <1>1, <2>3, <2>4
    <3> HIDE DEF f, g
    <3>2. SumFunctionOnSet(g, Bins) = SumFunctionOnSet(f, Bins) + 1
      BY <1>1, <2>1, <3>1, Finite, OneMore
    <3>3. demandPicked'[<<c, p>>] = demandPicked[<<c, p>>] + 1
      BY <1>b, <2>4
    <3> QED BY <2>2, <3>2, <3>3 DEF OfBins, g
  <2>5. CASE ~ (c = b /\ p = o)
    <3>1. g = f
      BY <2>3, <2>5 DEF BinValues
    <3>2. demandPicked'[<<c, p>>] = demandPicked[<<c, p>>]
      BY <1>b, <2>5
    <3> QED BY <2>2, <3>1, <3>2 DEF OfBins
  <2> QED BY <2>4, <2>5
<1> QED BY <1>2, <1>3, <1>4 DEF PlanInv, OfBins, BinValues

\* What an order has picked is what it has picked in its basket.
LEMMA PicksTotal ==
  ASSUME Base, LedgerInv, NEW b, NEW o, NEW n, NEW k, Picks(b, o, n, k)
  PROVE  SumFunction([c \in Baskets |-> demandPicked'[<<c, o>>]]) = demandPicked[<<b, o>>] + 1
<1> DEFINE f == [c \in Baskets |-> demandPicked'[<<c, o>>]]
<1>1. b \in Baskets /\ o \in Orders /\ order[o].basket = b
  BY DEF Picks
<1>2. \A c \in Baskets, p \in Orders :
         demandPicked'[<<c, p>>] = IF c = b /\ p = o THEN demandPicked[<<c, p>>] + 1
                                  ELSE demandPicked[<<c, p>>]
  BY PicksDemand
<1>3. demandPicked[<<b, o>>] \in Nat
  BY <1>1 DEF Base, TypeOK
<1>4. \A c \in Baskets \ {b} : demandPicked[<<c, o>>] = 0
  BY <1>1, NothingElsewhere DEF LedgerInv
<1>5. f[b] = demandPicked[<<b, o>>] + 1 /\ \A c \in Baskets \ {b} : f[c] = 0
  BY <1>1, <1>2, <1>4
<1>6. SumFunction(f) = SumFunctionOnSet(f, Baskets)
  BY DEF SumFunction
<1> HIDE DEF f
<1>7. IntValued(f, Baskets) /\ f[b] \in Int /\ {b} \subseteq Baskets
  BY <1>1, <1>3, <1>5 DEF IntValued
<1>8. SumFunctionOnSet(f, Baskets) = SumFunctionOnSet(f, {b})
  BY <1>5, <1>7, Finite, SumSupport
<1>9. SumFunctionOnSet(f, {b}) = f[b]
  BY <1>7, SumOne
<1> QED BY <1>5, <1>6, <1>8, <1>9 DEF f

\* refreshFulfillmentOrderState lets only a complete order go.
LEMMA PicksHanded ==
  ASSUME Base, LedgerInv, AllStay, NEW b, NEW o, NEW n, NEW k, Picks(b, o, n, k),
         NEW p \in Orders, order'[p].status \in HandedStatus
  PROVE  Complete(p)'
<1>1. /\ b \in Baskets /\ o \in Orders /\ order[o].basket = b /\ demandPicked[<<b, o>>] < Qty[o]
      /\ order' = [order EXCEPT ![o] = Progressed(o, demandPicked')]
  BY DEF Picks
<1>2. demandPicked[<<b, o>>] \in Nat /\ Qty[o] \in Nat
  BY <1>1, Finite DEF Base, TypeOK
<1>3. \A c \in Baskets, q \in Orders :
         demandPicked'[<<c, q>>] = IF c = b /\ q = o THEN demandPicked[<<c, q>>] + 1
                                  ELSE demandPicked[<<c, q>>]
  BY PicksDemand
<1>4. CASE p # o
  <2>1. order'[p] = order[p]
    BY <1>1, <1>4 DEF Base, ShortInv, IsTable
  <2>2. Complete(p)
    BY <2>1 DEF LedgerInv
  <2> QED BY <1>3, <1>4, <2>1, <2>2 DEF Complete
<1>5. CASE p = o
  <2> DEFINE s == SumFunction([c \in Baskets |-> demandPicked'[<<c, o>>]])
             m == Min({s, Qty[o]})
             st == ProgressStatus(o, m)
             x == Progressed(o, demandPicked')
  <2>1. s = demandPicked[<<b, o>>] + 1
    BY PicksTotal
  <2>2. order[o].status \notin HandedStatus
    <3>1. ASSUME Complete(o)  PROVE FALSE
      <4>1. PICK c \in Baskets : order[o].basket = c /\ demandPicked[<<c, o>>] = Qty[o]
        BY <3>1 DEF Complete
      <4> QED BY <1>1, <1>2, <4>1
    <3> QED BY <1>1, <3>1 DEF LedgerInv
  <2>3. x = PickedAndStatus(order[o], m, st)
    BY DEF Progressed, PickedAndStatus
  <2>4. st \in HandedStatus => PickedOut(o, m)
    BY <2>2 DEF ProgressStatus, HandedStatus
  <2>5. order'[o] = x
    BY <1>1 DEF Base, ShortInv, IsTable
  <2>6. IsOrder(order[o])
    BY <1>1 DEF Base, ShortInv, Short
  <2> HIDE DEF s, st, x
  <2>7. m = IF s <= Qty[o] THEN s ELSE Qty[o]
    BY <1>2, <2>1, MinTwo
  <2> HIDE DEF m
  <2>8. x = [status |-> st, basket |-> order[o].basket, claimedBy |-> order[o].claimedBy, picked |-> m]
    BY <2>3, <2>6, OrderFields
  <2>9. st \in HandedStatus /\ x.basket = b
    BY <1>1, <1>5, <2>5, <2>8
  <2>10. m >= Qty[o]
    BY <2>4, <2>9 DEF PickedOut
  <2>11. demandPicked[<<b, o>>] + 1 = Qty[o]
    BY <1>1, <1>2, <2>1, <2>7, <2>10
  <2>12. demandPicked'[<<b, o>>] = Qty[o]
    BY <1>1, <1>3, <2>11
  <2> QED BY <1>1, <1>5, <2>5, <2>9, <2>12 DEF Complete
<1> QED BY <1>4, <1>5

\* One unit more in the basket, and one more counted.
LEMMA PicksAgree ==
  ASSUME Base, LedgerInv, AllStay, NEW b, NEW o, NEW n, NEW k, Picks(b, o, n, k)
  PROVE  RowsInv' /\ LedgerAgrees'
<1>1. /\ b \in Baskets /\ o \in Orders /\ k \in Units /\ ~ HasRow(k)
      /\ unit' = [unit EXCEPT ![k] = [status |-> "PICKED", bin |-> NONE]]
      /\ row' = [row EXCEPT ![k] = [status |-> "PICKED", basket |-> b, order |-> NONE, source |-> n]]
  BY DEF Picks, Takes
<1>2. unit \in [Units -> UnitRecord] /\ row \in [Units -> RowRecord]
  BY TypeParts DEF Base, StockType
<1>3. \A j \in Units : IF j = k THEN unit'[j].status = "PICKED" /\ row'[j].status = "PICKED" /\ row'[j].basket = b
                      ELSE unit'[j] = unit[j] /\ row'[j] = row[j]
  BY <1>1, <1>2
<1>4. RowsInv'
  BY <1>3 DEF LedgerInv, RowsInv, HasRow
<1>5. \A c \in Baskets : RowsIn(c)' = IF c = b THEN RowsIn(c) \cup {k} ELSE RowsIn(c)
  BY <1>1, <1>3 DEF RowsIn, HasRow
<1>6. k \notin RowsIn(b)
  BY <1>1 DEF RowsIn
<1>7. \A c \in Baskets, p \in Orders :
         demandPicked'[<<c, p>>] = IF c = b /\ p = o THEN demandPicked[<<c, p>>] + 1
                                  ELSE demandPicked[<<c, p>>]
  BY PicksDemand
<1>8. Unpacked = Orders /\ Unpacked' = Orders
  BY DEF LedgerInv, AllActive, Unpacked, ActiveOrder, AllStay, Stays
<1>9. ASSUME NEW c \in Baskets  PROVE (Counted(c, Unpacked) = Cardinality(RowsIn(c)))'
  <2> DEFINE f == [p \in Orders |-> demandPicked[<<c, p>>]]
             g == [p \in Orders |-> demandPicked'[<<c, p>>]]
  <2>1. SumFunctionOnSet(f, Orders) = Cardinality(RowsIn(c))
    BY <1>8 DEF LedgerInv, LedgerAgrees, Counted
  <2>2. SumFunctionOnSet(g, Orders) = Counted(c, Unpacked)'
    BY <1>8 DEF Counted
  <2>3. \A p \in Orders : demandPicked[<<c, p>>] \in Nat
    BY DEF Base, TypeOK
  <2>4. IntValued(f, Orders)
    BY <2>3 DEF IntValued
  <2>5. \A p \in Orders : g[p] = IF c = b /\ p = o THEN f[p] + 1 ELSE f[p]
    BY <1>7
  <2>6. CASE c = b
    <3>1. g[o] = f[o] + 1 /\ \A p \in Orders \ {o} : g[p] = f[p]
      BY <1>1, <2>5, <2>6
    <3> HIDE DEF f, g
    <3>2. SumFunctionOnSet(g, Orders) = SumFunctionOnSet(f, Orders) + 1
      BY <1>1, <2>4, <3>1, Finite, OneMore
    <3>3. RowsIn(c)' = RowsIn(c) \cup {k} /\ k \notin RowsIn(c)
      BY <1>5, <1>6, <2>6
    <3>4. RowsIn(c) \in SUBSET Units
      BY DEF RowsIn
    <3>5. IsFiniteSet(RowsIn(c))
      BY <3>4, UnitCount
    <3> DEFINE R == RowsIn(c)
    <3>6. IsFiniteSet(R) /\ k \notin R
      BY <3>3, <3>5
    <3> HIDE DEF R
    <3>7. Cardinality(R \cup {k}) = Cardinality(R) + 1
      BY <3>6, FS_AddElement
    <3> QED BY <2>1, <2>2, <3>2, <3>3, <3>7 DEF R
  <2>7. CASE c # b
    <3>1. f = g /\ RowsIn(c)' = RowsIn(c)
      BY <1>5, <2>5, <2>7
    <3> QED BY <2>1, <2>2, <3>1
  <2> QED BY <2>6, <2>7
<1> QED BY <1>4, <1>9 DEF LedgerAgrees

LEMMA ScanLedger ==
  ASSUME Base, LedgerInv, [Next]_vars, NEW r \in Requests, ScanCommit(r)
  PROVE  LedgerInv'
<1>1. PICK o \in Orders : Picks(req[r].basket, o, req[r].bin, req[r].unit)
  BY ScanPicks
<1>2. AllStay
  BY ScanStays DEF Base
<1> DEFINE b == req[r].basket n == req[r].bin k == req[r].unit
<1>3. Picks(b, o, n, k)
  BY <1>1
<1> HIDE DEF b, n, k
<1>4. PlanInv' /\ RowsInv' /\ LedgerAgrees'
  BY <1>2, <1>3, PicksPlan, PicksAgree
<1>5. AllActive'
  BY <1>2 DEF LedgerInv, AllActive, AllStay, Stays
<1>6. \A p \in Orders : order'[p].status \in HandedStatus => Complete(p)'
  BY <1>2, <1>3, PicksHanded
<1>7. ASSUME NEW p \in Orders, Complete(p)  PROVE Complete(p)'
  <2>1. PICK c \in Baskets : order[p].basket = c /\ demandPicked[<<c, p>>] = Qty[p]
    BY <1>7 DEF Complete
  <2>2. demandPicked[<<b, o>>] < Qty[o] /\ demandPicked[<<b, o>>] \in Nat /\ Qty[o] \in Nat
    BY <1>3, Finite DEF Picks, Base, TypeOK
  <2>3. ~ (c = b /\ p = o)
    BY <2>1, <2>2
  <2>4. \A d \in Baskets, q \in Orders :
           demandPicked'[<<d, q>>] = IF d = b /\ q = o THEN demandPicked[<<d, q>>] + 1
                                    ELSE demandPicked[<<d, q>>]
    BY <1>3, PicksDemand
  <2>5. demandPicked'[<<c, p>>] = Qty[p]
    BY <2>1, <2>3, <2>4
  <2> QED BY <1>2, <2>1, <2>5 DEF AllStay, Stays, Complete
<1>8. \A q \in Requests : StillSo(req[q])'
  <2>1. \A q \in Requests : StillSo(req'[q])
    BY RequestsStillSo
  <2> QED BY <1>7, <2>1 DEF StillSo
<1> QED BY <1>4, <1>5, <1>6, <1>8 DEF LedgerInv

-----------------------------------------------------------------------------
(* Hand-offs, waybills and the queue.                                       *)

\* Orders get a status that only complete ones may have, or one that all may.
LEMMA StatusLedger ==
  ASSUME Base, LedgerInv, [Next]_vars, UNCHANGED <<stock, demands>>, NEW S, NEW st \in ActiveOrder,
         order' = [o \in Orders |-> IF o \in S THEN WithStatus(order[o], st) ELSE order[o]],
         \A o \in S \cap Orders : order[o].status \in HandedStatus \/ Complete(o)
  PROVE  LedgerInv'
<1>1. AllStay
  BY StatusStays DEF Base
<1>2. \A o \in Orders : order'[o].status \in HandedStatus => order[o].status \in HandedStatus \/ Complete(o)
  <2>1. ASSUME NEW o \in Orders, o \notin S  PROVE order'[o] = order[o]
    BY <2>1
  <2> QED BY <2>1
<1>3. \A r \in Requests : StillSo(req'[r])
  BY RequestsStillSo
<1> QED BY <1>1, <1>2, <1>3, NoCount

LEMMA HandoffLedger ==
  ASSUME Base, LedgerInv, [Next]_vars, NEW r \in Requests, NEW packer, HandoffCommit(r, packer)
  PROVE  LedgerInv'
<1> DEFINE S == {o \in Orders : order[o].basket = req[r].basket /\ order[o].status = "READY_FOR_PACK"}
<1>1. /\ order' = [o \in Orders |-> IF o \in S THEN WithStatus(order[o], "PICKED") ELSE order[o]]
      /\ UNCHANGED <<stock, demands>>
  BY DEF HandoffCommit, WithStatus
<1>2. "PICKED" \in ActiveOrder /\ \A o \in S \cap Orders : order[o].status \in HandedStatus
  BY DEF ActiveOrder, OrderStatus, HandedStatus
<1> HIDE DEF S
<1> QED BY <1>1, <1>2, StatusLedger

LEMMA QueueLedger ==
  ASSUME Base, LedgerInv, [Next]_vars, NEW r \in Requests, QueueWrite(r)
  PROVE  LedgerInv'
<1>1. PICK o, left : order' = [order EXCEPT ![o].status = Readiness(o, left), ![o].picked = 0]
  BY DEF QueueWrite
<1> DEFINE st == Readiness(o, left)
           x == StatusAndPicked(order[o], st, 0)
<1>2. order' = [order EXCEPT ![o] = x]
  BY <1>1 DEF Base, ShortInv, IsTable, StatusAndPicked
<1>3. st \notin HandedStatus
  BY DEF Readiness, HandedStatus
<1> HIDE DEF st
<1>4. ASSUME o \in Orders  PROVE x.status \notin HandedStatus
  <2>1. IsOrder(order[o])
    BY <1>4 DEF Base, ShortInv, Short
  <2>2. x = [status |-> st, basket |-> order[o].basket, claimedBy |-> order[o].claimedBy, picked |-> 0]
    BY <2>1, OrderFields
  <2> QED BY <1>3, <2>2
<1> HIDE DEF x
<1>5. \A p \in Orders : order'[p].status \in HandedStatus => order[p].status \in HandedStatus
  BY <1>2, <1>4 DEF Base, ShortInv, IsTable
<1>6. AllStay
  BY QueueStays DEF Base
<1>7. UNCHANGED <<stock, demands>> /\ \A q \in Requests : StillSo(req'[q])
  BY RequestsStillSo DEF QueueWrite
<1> QED BY <1>5, <1>6, <1>7, NoCount

LEMMA StartLedger ==
  ASSUME Base, LedgerInv, [Next]_vars, NEW r \in Requests, StartCommit(r)
  PROVE  LedgerInv'
<1> DEFINE S == req[r].orders
<1>1. /\ order' = [o \in Orders |-> IF o \in S THEN WithStatus(order[o], "PACKING") ELSE order[o]]
      /\ UNCHANGED <<stock, demands>>
  BY DEF StartCommit, WithStatus
<1>2. "PACKING" \in ActiveOrder /\ \A o \in S \cap Orders : Complete(o)
  BY DEF ActiveOrder, OrderStatus, LedgerInv, StillSo, StartCommit
<1> HIDE DEF S
<1> QED BY <1>1, <1>2, StatusLedger

LEMMA WaybillLedger ==
  ASSUME Base, LedgerInv, [Next]_vars, NEW r \in Requests, WaybillCommit(r)
  PROVE  LedgerInv'
<1> DEFINE S == {o \in Orders : o \in req[r].orders /\ req[r].seen = "PICKED"}
<1>1. order' = [o \in Orders |-> IF o \in S THEN WithStatus(order[o], "PACKING") ELSE order[o]]
  BY DEF WaybillCommit, WithStatus
<1>2. UNCHANGED <<stock, demands>>
  <2>1. OrphansIn(req[r].basket) = {}
    BY DEF LedgerInv, RowsInv, OrphansIn, RowsIn
  <2>2. row' = Removed(row, {}) /\ unit' = unit /\ removedPacked' = removedPacked /\ demands' = demands
    BY <2>1 DEF WaybillCommit
  <2>3. row' = row
    BY <2>2 DEF Removed, Base, TypeOK
  <2> QED BY <2>2, <2>3 DEF stock
<1>3. "PACKING" \in ActiveOrder /\ \A o \in S \cap Orders : Complete(o)
  BY DEF ActiveOrder, OrderStatus, LedgerInv, StillSo, WaybillCommit
<1> HIDE DEF S
<1> QED BY <1>1, <1>2, <1>3, StatusLedger

-----------------------------------------------------------------------------
(* Pack scans: the unit stays in its basket.                                *)

LEMMA PackLedger ==
  ASSUME Base, LedgerInv, [Next]_vars, UNCHANGED <<order, demands>>, NEW k, NEW o,
         row[k].status = "PICKED", unit' = PackedUnits(k), row' = PackedRows(k, o)
  PROVE  LedgerInv'
<1>1. target' = target /\ binPicked' = binPicked /\ demandPicked' = demandPicked
  BY DEF demands
<1>2. \A j \in Units : HasRow(j)' = HasRow(j) /\ row'[j].basket = row[j].basket
  BY DEF PackedRows, HasRow
<1>3. RowsInv'
  BY <1>2 DEF LedgerInv, RowsInv, PackedUnits
<1>4. PlanInv' /\ AllActive'
  BY <1>1 DEF LedgerInv, PlanInv, OfBins, BinValues, AllActive
<1>5. LedgerAgrees'
  <2>1. Unpacked' = Unpacked /\ \A b : RowsIn(b)' = RowsIn(b)
    BY <1>2 DEF Unpacked, RowsIn
  <2>2. \A b : Counted(b, Unpacked)' = Counted(b, Unpacked)
    BY <1>1, <2>1 DEF Counted
  <2> QED BY <2>1, <2>2 DEF LedgerInv, LedgerAgrees
<1>6. \A p : Complete(p)' = Complete(p)
  BY <1>1 DEF Complete
<1>7. \A r \in Requests : StillSo(req[r])'
  <2>1. \A r \in Requests : StillSo(req'[r])
    BY RequestsStillSo
  <2> QED BY <1>6, <2>1 DEF StillSo
<1> QED BY <1>3, <1>4, <1>5, <1>6, <1>7 DEF LedgerInv

LEMMA PackScanLedger ==
  ASSUME Base, LedgerInv, [Next]_vars, NEW u, NEW b, NEW o, NEW k, PackScan(u, b, o, k)
  PROVE  LedgerInv'
<1>1. StockShape
  BY TypeParts DEF Base, StockType, StockShape, UnitRecord, RowRecord
<1>2. unit' = PackedUnits(k) /\ row' = PackedRows(k, o)
  BY <1>1, PackedTablesFlat, Zenon DEF PackScan, Packs
<1>3. row[k].status = "PICKED" /\ UNCHANGED <<order, demands>>
  BY DEF PackScan
<1> QED BY <1>2, <1>3, PackLedger

LEMMA LegacyScanLedger ==
  ASSUME Base, LedgerInv, [Next]_vars, NEW r \in Requests, LegacyScanCommit(r)
  PROVE  LedgerInv'
<1> DEFINE k == req[r].unit
<1>1. OrphansIn(req[r].basket) = {}
  BY DEF LedgerInv, RowsInv, OrphansIn, RowsIn
<1>2. PICK o : row' = Removed([row EXCEPT ![k].status = "PACKED", ![k].order = o], {})
  BY <1>1 DEF LegacyScanCommit
<1>3. /\ unit' = [unit EXCEPT ![k].status = "PACKED"] /\ row[k].status = "PICKED"
      /\ UNCHANGED <<order, demands>>
  BY DEF LegacyScanCommit
<1> HIDE DEF k
<1>4. StockShape
  BY TypeParts DEF Base, StockType, StockShape, UnitRecord, RowRecord
<1>5. unit' = PackedUnits(k) /\ row' = Removed(PackedRows(k, o), {})
  BY <1>2, <1>3, <1>4, PackedTablesFlat, Zenon
<1>6. Removed(PackedRows(k, o), {}) = PackedRows(k, o)
  BY DEF Removed, PackedRows
<1>7. row' = PackedRows(k, o)
  BY <1>5, <1>6, Zenon
<1> QED BY <1>3, <1>5, <1>7, PackLedger

-----------------------------------------------------------------------------
(* The ledger's invariant and its theorems.                                 *)

LEMMA LedgerStep ==
  ASSUME NoReturns, Base, LedgerInv, [Next]_vars
  PROVE  LedgerInv'
<1>1. ASSUME NEW r \in Requests  PROVE req[r].op \notin {"void", "repair", "complete", "move"}
  BY <1>1, BasketAssumption DEF Base, ReqInv, Opened, NoReturns, BasketAssumption, Operations
<1>2. ASSUME UNCHANGED <<stock, order, demands>>  PROVE LedgerInv'
  <2>1. AllStay
    BY <1>2 DEF AllStay, Stays
  <2>2. \A o \in Orders : order'[o].status \in HandedStatus => order[o].status \in HandedStatus \/ Complete(o)
    BY <1>2
  <2>3. \A r \in Requests : StillSo(req'[r])
    BY RequestsStillSo
  <2> QED BY <1>2, <2>1, <2>2, <2>3, NoCount
<1>3. ASSUME NEW r \in Requests, VoidRelease(r) \/ VoidRepair(r) \/ CompleteCommit(r)
                                \/ \E n \in Bins : MoveCommit(r, n)
      PROVE  FALSE
  BY <1>1, <1>3 DEF VoidRelease, VoidRepair, CompleteCommit, MoveCommit
<1>4. ASSUME NEW u, NEW b, NEW os, PackVoid(u, b, os)  PROVE FALSE
  BY <1>4 DEF PackVoid, NoReturns
<1>5. CASE Picking
  BY <1>2, <1>3, <1>5, AssignLedger, ScanLedger, HandoffLedger DEF Picking, ScanRead, HandoffRead, VoidRead
<1>6. CASE Upkeep
  BY <1>2, <1>3, <1>6, QueueLedger DEF Upkeep, QueueRead, MoveRead, PosUpdate, Abandon
<1>7. CASE Packing
  BY <1>2, <1>3, <1>4, <1>7, WaybillLedger, StartLedger, PackScanLedger, LegacyScanLedger
  DEF Packing, WaybillRead, StartRead, LegacyScanRead, CompleteRead
<1>8. CASE UNCHANGED vars
  BY <1>2, <1>8 DEF vars
<1> QED BY <1>5, <1>6, <1>7, <1>8 DEF Next

LEMMA LedgerInit == Init => LedgerInv
<1> SUFFICES ASSUME Init PROVE LedgerInv
  OBVIOUS
<1>1. /\ target = [c \in Cells |-> 0] /\ binPicked = [c \in Cells |-> 0]
      /\ demandPicked = [c \in Baskets \X Orders |-> 0]
  BY DEF Init
<1>2. \A b \in Baskets, o \in Orders : demandPicked[<<b, o>>] = 0
  BY <1>1
<1>3. PICK ready : order = [o \in Orders |-> [status |-> IF o \in ready THEN "READY" ELSE "RESTOCKING",
                                             basket |-> NONE, claimedBy |-> NONE, picked |-> 0]]
  BY DEF Init
<1>4. PlanInv
  <2>1. ASSUME NEW b \in Baskets, NEW o \in Orders
        PROVE  OfBins(target, b, o) = 0 /\ OfBins(binPicked, b, o) = 0
    <3> DEFINE f == BinValues(target, b, o) g == BinValues(binPicked, b, o)
    <3>1. \A n \in Bins : f[n] = 0 /\ g[n] = 0
      BY <1>1 DEF BinValues, Cells
    <3> HIDE DEF f, g
    <3>2. SumFunctionOnSet(f, Bins) = 0 /\ SumFunctionOnSet(g, Bins) = 0
      BY <3>1, Finite, SumZero
    <3> QED BY <3>2 DEF OfBins, f, g
  <2>2. \A b \in Baskets, o \in Orders : order[o].basket # b
    BY <1>3, Finite
  <2> QED BY <1>1, <1>2, <2>1, <2>2 DEF PlanInv
<1>5. RowsInv
  BY DEF Init, RowsInv, HasRow
<1>6. AllActive /\ \A o \in Orders : order[o].status \notin HandedStatus
  BY <1>3 DEF AllActive, ActiveOrder, OrderStatus, HandedStatus
<1>7. LedgerAgrees
  <2>1. ASSUME NEW b \in Baskets  PROVE Counted(b, Unpacked) = Cardinality(RowsIn(b))
    <3> DEFINE f == [o \in Orders |-> demandPicked[<<b, o>>]]
    <3>1. Unpacked \subseteq Orders /\ IsFiniteSet(Unpacked)
      BY Finite, FS_Subset DEF Unpacked
    <3>2. \A o \in Unpacked : f[o] = 0
      BY <1>2, <3>1
    <3> HIDE DEF f
    <3>3. SumFunctionOnSet(f, Unpacked) = 0
      BY <3>1, <3>2, SumZero
    <3>4. RowsIn(b) = {}
      BY DEF Init, RowsIn, HasRow
    <3> QED BY <3>3, <3>4, FS_EmptySet DEF Counted, f
  <2> QED BY <2>1 DEF LedgerAgrees
<1>8. \A r \in Requests : StillSo(req[r])
  BY DEF Init, StillSo, Idle
<1> QED BY <1>4, <1>5, <1>6, <1>7, <1>8 DEF LedgerInv

LEMMA BaseInit == Init => Base
<1> SUFFICES ASSUME Init PROVE ReqInv /\ DemandInv
  BY TypeInit, InitShort DEF Base
<1>1. ReqInv
  BY IdleIsOpened DEF Init, ReqInv
<1>2. target = [c \in Cells |-> 0]
  BY DEF Init
<1>3. \A b \in Baskets, o \in Orders, n \in Bins : target[<<b, o, n>>] = 0
  BY <1>2 DEF Cells
<1> QED BY <1>1, <1>2, <1>3 DEF DemandInv

LEMMA BaseStep ==
  ASSUME NoReturns, Base, [Next]_vars
  PROVE  Base'
<1>1. PickingOnly /\ "void" \notin Ops
  BY DEF NoReturns, PickingOnly
<1> QED BY <1>1, TypeStep, NextShort, ReqStep, DemandStep DEF Base

LEMMA LedgerAlways == ASSUME NoReturns PROVE Spec => [](Base /\ LedgerInv)
<1>1. Init => Base /\ LedgerInv
  BY BaseInit, LedgerInit
<1>2. Base /\ LedgerInv /\ [Next]_vars => (Base /\ LedgerInv)'
  BY BaseStep, LedgerStep
<1> QED BY <1>1, <1>2, PTL DEF Spec

\* Where no basket is voided, no order completed and no unit moved between bins,
\* every basket holds as many units as its demands count as picked, whatever
\* assignments, scans, hand-offs, queue writes, waybills and pack scans of several
\* workers commit between each other's reads and commits.
THEOREM BasketLedgerAgrees ==
  ASSUME Ops \cap {"void", "complete", "packVoid", "move"} = {}
  PROVE  Spec => []LedgerAgrees
<1>1. Base /\ LedgerInv => LedgerAgrees
  BY DEF LedgerInv
<1> QED BY <1>1, LedgerAlways, PTL DEF NoReturns

\* There, an order that refreshFulfillmentOrderState, a hand-off, a waybill or a
\* start has let go of picking (ScanCommit, HandoffCommit, WaybillCommit,
\* StartCommit) has all its units picked in the basket it sits in, although the
\* commits do not look at the demand again.
THEOREM HandedOrdersAreComplete ==
  ASSUME Ops \cap {"void", "complete", "packVoid", "move"} = {}
  PROVE  Spec => []HandedIsComplete
<1>1. Base /\ LedgerInv => HandedIsComplete
  BY DEF LedgerInv, HandedStatus, Complete, HandedIsComplete
<1> QED BY <1>1, LedgerAlways, PTL DEF NoReturns

\* There, no order has more units picked than its line requires: scans that have
\* read the same demand do not count past what its bins were asked for
\* (ScanCommit, "Bin ... no longer needs ...").
THEOREM NoOrderIsOverpicked ==
  ASSUME Ops \cap {"void", "complete", "packVoid", "move"} = {}
  PROVE  Spec => []NothingOverpicked
<1>1. Base /\ LedgerInv => NothingOverpicked
  BY PickedAtMost DEF Base, LedgerInv, NothingOverpicked
<1> QED BY <1>1, LedgerAlways, PTL DEF NoReturns


-----------------------------------------------------------------------------
(* What the bins promise, while baskets are only filled.                    *)

\* With the operations that assign, scan, hand off and queue, and no other.
FillingOnly == Ops \subseteq {"assign", "scan", "handoff", "queue", "pos"}

StillOwed == [c \in Cells |-> target[c] - binPicked[c]]
CellsAt(n) == {c \in Cells : c[3] = n}
\* What the orders of all baskets still want from a bin.
Owed(n) == SumFunctionOnSet(StillOwed, CellsAt(n))

\* A basket with orders is one that getDemandPickBinAvailability looks at.
HoldingInv ==
    /\ \A o \in Orders : order[o].status # "PACKING"
    /\ \A o \in Orders, b \in Baskets : order[o].basket = b => basket[b].status \in PickBasket

OwedInv == \A n \in Bins : Owed(n) <= Cardinality(FreeIn(n))

LEMMA CellsFinite ==
  ASSUME NEW S \in SUBSET Cells
  PROVE  IsFiniteSet(S)
<1>1. IsFiniteSet(Orders \X Bins) /\ IsFiniteSet(Baskets \X Orders)
  BY Finite, FS_Product
<1>2. IsFiniteSet((Baskets \X Orders) \X Bins)
  BY <1>1, Finite, FS_Product
<1> DEFINE P == (Baskets \X Orders) \X Bins
           flat == [p \in P |-> <<p[1][1], p[1][2], p[2]>>]
<1>3. Cells = {flat[p] : p \in P}
  <2>1. \A p \in P : flat[p] \in Cells
    BY DEF Cells
  <2>2. ASSUME NEW c \in Cells  PROVE \E p \in P : flat[p] = c
    <3>1. PICK b \in Baskets, o \in Orders, n \in Bins : c = <<b, o, n>>
      BY DEF Cells
    <3>2. <<<<b, o>>, n>> \in P /\ flat[<<<<b, o>>, n>>] = <<b, o, n>>
      OBVIOUS
    <3> QED BY <3>1, <3>2
  <2> HIDE DEF P, flat
  <2> QED BY <2>1, <2>2
<1>4. IsFiniteSet(P)
  BY <1>2
<1>5. flat \in Surjection(P, Cells)
  <2>1. flat \in [P -> Cells]
    BY <1>3
  <2>2. \A c \in Cells : \E p \in P : flat[p] = c
    BY <1>3
  <2> HIDE DEF P, flat
  <2> QED BY <2>1, <2>2 DEF Surjection
<1>6. IsFiniteSet(Cells)
  <2> HIDE DEF P, flat
  <2> QED BY <1>4, <1>5, FS_Surjection
<1> QED BY <1>6, FS_Subset

\* Where no bin gave more than it promised, what remains is the difference.
LEMMA OwedIsRemaining ==
  ASSUME Base, PlanInv
  PROVE  /\ StillOwed \in [Cells -> Nat]
         /\ StillOwed = [c \in Cells |-> Remaining(c)]
<1>1. ASSUME NEW c \in Cells
      PROVE  target[c] - binPicked[c] \in Nat /\ Remaining(c) = target[c] - binPicked[c]
  <2>1. target[c] \in Nat /\ binPicked[c] \in Nat /\ binPicked[c] <= target[c]
    BY DEF Base, TypeOK, PlanInv
  <2>2. target[c] - binPicked[c] \in Int /\ 0 \in Int
    BY <2>1
  <2> QED BY <2>1, <2>2, MaxTwo DEF Remaining
<1> QED BY <1>1 DEF StillOwed

\* All orders are active: the property speaks of all cells of a bin.
LEMMA OwedIsPromised ==
  ASSUME Base, LedgerInv, OwedInv
  PROVE  PromisedStockIsThere
<1>1. ASSUME NEW n \in Bins
      PROVE  {c \in Cells : c[3] = n /\ order[c[2]].status \in ActiveOrder} = CellsAt(n)
  BY DEF LedgerInv, AllActive, CellsAt, Cells
<1>2. StillOwed = [c \in Cells |-> Remaining(c)]
  BY OwedIsRemaining DEF LedgerInv
<1> QED BY <1>1, <1>2 DEF OwedInv, Owed, PromisedStockIsThere

\* Steps that leave demands and stock alone.
LEMMA OwedStays ==
  ASSUME OwedInv, UNCHANGED <<stock, demands>>
  PROVE  OwedInv'
BY DEF OwedInv, Owed, StillOwed, FreeIn, HasRow, stock, demands

\* The bins of a plan: for a bin, the cells it fills and all the others.
Planned(b, os, n) == {c \in CellsAt(n) : c[1] = b /\ c[2] \in os}

\* What an assignment adds to a bin is what its plan takes from it.
LEMMA AssignAdds ==
  ASSUME Base, LedgerInv, NEW u \in Users, NEW b \in Baskets, NEW os \in SUBSET Orders, Assign(u, b, os),
         NEW n \in Bins
  PROVE  /\ SumFunctionOnSet(StillOwed', Planned(b, os, n)) <= BinRoom(n, b, os, OrphansIn(b))
         /\ \A c \in Planned(b, os, n) : StillOwed[c] = 0
<1>1. PICK f \in Plans(b, os, OrphansIn(b)) :
        target' = [c \in Cells |-> IF c[1] = b /\ c[2] \in os THEN f[<<c[2], c[3]>>] ELSE target[c]]
  BY DEF Assign
<1>2. f \in [os \X Bins -> Nat]
  <2>1. f \in [os \X Bins -> 0 .. MaxQty]
    BY DEF Plans
  <2> QED BY <2>1
<1>3. SumFunction([o \in os |-> f[<<o, n>>]]) <= BinRoom(n, b, os, OrphansIn(b))
  BY DEF Plans
<1>4. ASSUME NEW o \in os  PROVE target[<<b, o, n>>] = 0 /\ binPicked[<<b, o, n>>] = 0
  <2>1. o \in Orders /\ order[o].basket # b
    BY Finite DEF Assign, Assignable
  <2> QED BY <2>1, NothingElsewhere DEF LedgerInv
<1>5. binPicked' = binPicked
  BY AssignKeepsCounts
<1>6. ASSUME NEW o \in os
      PROVE  /\ <<b, o, n>> \in Cells /\ StillOwed[<<b, o, n>>] = 0
             /\ StillOwed'[<<b, o, n>>] = f[<<o, n>>]
  <2>1. <<b, o, n>> \in Cells
    BY DEF Cells
  <2>2. target'[<<b, o, n>>] = f[<<o, n>>]
    BY <1>1, <2>1
  <2>3. f[<<o, n>>] \in Nat
    BY <1>2
  <2> QED BY <1>4, <1>5, <2>1, <2>2, <2>3 DEF StillOwed
<1> DEFINE m == [o \in os |-> <<b, o, n>>]
           g == [o \in os |-> f[<<o, n>>]]
<1>7. Planned(b, os, n) = {m[o] : o \in os}
  BY DEF Planned, CellsAt, Cells
<1>8. \A c \in Planned(b, os, n) : StillOwed[c] = 0
  BY <1>6, <1>7
<1>9. IsFiniteSet(os) /\ IntValued(g, os) /\ \A o \in os : g[o] = StillOwed'[m[o]]
  BY <1>2, <1>6, Finite, FS_Subset DEF IntValued
<1>10. \A x, y \in os : m[x] = m[y] => x = y
  OBVIOUS
<1>11. SumFunction(g) = SumFunctionOnSet(g, os)
  BY DEF SumFunction
<1>12. SumFunctionOnSet(StillOwed', {m[o] : o \in os}) = SumFunctionOnSet(g, os)
  <2> DEFINE h == StillOwed'
  <2> HIDE DEF m, g, h
  <2>1. \A o \in os : g[o] = h[m[o]]
    BY <1>9 DEF h
  <2>2. SumFunctionOnSet(h, {m[o] : o \in os}) = SumFunctionOnSet(g, os)
    BY <1>9, <1>10, <2>1, SumReindex
  <2> QED BY <2>2 DEF h
<1>13. SumFunctionOnSet(g, os) <= BinRoom(n, b, os, OrphansIn(b))
  BY <1>3, <1>11
<1>14. SumFunctionOnSet(StillOwed', Planned(b, os, n)) = SumFunctionOnSet(g, os)
  BY <1>7, <1>12
<1> QED BY <1>8, <1>13, <1>14

\* The room that the plan sees in a bin is its free units less all that is still
\* owed from it: a basket that is left out of the count holds nothing.
LEMMA AssignRoom ==
  ASSUME Base, LedgerInv, HoldingInv, OwedInv, NEW b \in Baskets, NEW os \in SUBSET Orders, NEW n \in Bins,
         \A c \in Planned(b, os, n) : StillOwed[c] = 0
  PROVE  BinRoom(n, b, os, OrphansIn(b)) = Cardinality(FreeIn(n)) - Owed(n)
<1>1. OrphansIn(b) = {}
  BY DEF LedgerInv, RowsInv, OrphansIn, RowsIn
<1> DEFINE held == {c \in Cells : /\ c[3] = n /\ order[c[2]].status \in ActiveOrder
                                  /\ c[1] = b \/ basket[c[1]].status \in PickBasket
                                  /\ ~(c[1] = b /\ c[2] \in os)}
           free == FreeIn(n) \cup {k \in OrphansIn(b) : unit[k].bin = n}
           R == [c \in Cells |-> Remaining(c)]
<1>2. BinRoom(n, b, os, OrphansIn(b)) = Max({Cardinality(free) - SumFunctionOnSet(R, held), 0})
  BY DEF BinRoom
<1>3. free = FreeIn(n)
  BY <1>1
<1>4. R = StillOwed /\ StillOwed \in [Cells -> Nat]
  BY OwedIsRemaining DEF LedgerInv
<1>5. held \subseteq CellsAt(n) /\ CellsAt(n) \in SUBSET Cells
  BY DEF CellsAt
<1>6. ASSUME NEW c \in CellsAt(n) \ held  PROVE StillOwed[c] = 0
  <2>1. PICK a \in Baskets, o \in Orders : c = <<a, o, n>> /\ c \in Cells
    BY DEF CellsAt, Cells
  <2>2. order[o].status \in ActiveOrder
    BY DEF LedgerInv, AllActive
  <2>3. CASE a = b /\ o \in os
    BY <2>1, <2>3 DEF Planned
  <2>4. CASE a # b /\ basket[a].status \notin PickBasket
    <3>1. order[o].basket # a
      BY <2>4 DEF HoldingInv
    <3>2. target[<<a, o, n>>] = 0 /\ binPicked[<<a, o, n>>] = 0
      BY <3>1, NothingElsewhere DEF LedgerInv
    <3> QED BY <2>1, <3>2 DEF StillOwed
  <2> QED BY <2>1, <2>2, <2>3, <2>4
<1>7. IsFiniteSet(CellsAt(n)) /\ IntValued(StillOwed, CellsAt(n))
  BY <1>4, <1>5, CellsFinite DEF IntValued
<1>8. SumFunctionOnSet(StillOwed, CellsAt(n)) = SumFunctionOnSet(StillOwed, held)
  <2> HIDE DEF held
  <2> QED BY <1>5, <1>6, <1>7, SumSupport
<1>9. SumFunctionOnSet(R, held) = Owed(n)
  BY <1>4, <1>8 DEF Owed
<1>10. Owed(n) \in Int
  BY <1>7, SumInt DEF Owed
<1>11. Cardinality(FreeIn(n)) \in Nat
  <2>1. FreeIn(n) \in SUBSET Units
    BY DEF FreeIn
  <2> QED BY <2>1, UnitCount
<1>12. Owed(n) <= Cardinality(FreeIn(n))
  BY DEF OwedInv
<1>13. BinRoom(n, b, os, OrphansIn(b)) = Max({Cardinality(FreeIn(n)) - Owed(n), 0})
  <2> HIDE DEF held, R, free
  <2> QED BY <1>2, <1>3, <1>9
<1> DEFINE x == Cardinality(FreeIn(n)) - Owed(n)
<1>14. x \in Int /\ x >= 0
  BY <1>10, <1>11, <1>12
<1> HIDE DEF x
<1>15. Max({x, 0}) = x
  BY <1>14, MaxTwo
<1> QED BY <1>13, <1>15 DEF x

LEMMA AssignOwed ==
  ASSUME Base, LedgerInv, HoldingInv, OwedInv, NEW u \in Users, NEW b \in Baskets,
         NEW os \in SUBSET Orders, Assign(u, b, os), StillOwed' \in [Cells -> Nat]
  PROVE  OwedInv'
<1> SUFFICES ASSUME NEW n \in Bins PROVE Owed(n)' <= Cardinality(FreeIn(n)')
  BY DEF OwedInv
<1> DEFINE A == Planned(b, os, n)
           B == CellsAt(n) \ A
           old == StillOwed
           new == StillOwed'
<1>1. row' = row /\ unit' = unit /\ binPicked' = binPicked
  BY AssignKeepsCounts
<1>2. FreeIn(n)' = FreeIn(n)
  BY <1>1 DEF FreeIn, HasRow
<1>3. PICK f : target' = [c \in Cells |-> IF c[1] = b /\ c[2] \in os THEN f[<<c[2], c[3]>>] ELSE target[c]]
  BY DEF Assign
<1>4. A \subseteq CellsAt(n) /\ CellsAt(n) \in SUBSET Cells /\ B \in SUBSET Cells
  BY DEF Planned, CellsAt
<1>5. \A c \in B : new[c] = old[c]
  BY <1>1, <1>3 DEF StillOwed, Planned, CellsAt
<1>6. SumFunctionOnSet(new, A) <= Cardinality(FreeIn(n)) - Owed(n) /\ \A c \in A : old[c] = 0
  BY AssignAdds, AssignRoom
<1>7. old \in [Cells -> Nat]
  BY OwedIsRemaining DEF LedgerInv
<1>8. /\ IsFiniteSet(CellsAt(n)) /\ IsFiniteSet(B) /\ IsFiniteSet(A)
      /\ IntValued(old, CellsAt(n)) /\ IntValued(new, CellsAt(n)) /\ IntValued(old, B) /\ IntValued(new, A)
  <2>1. IsFiniteSet(CellsAt(n)) /\ IsFiniteSet(B) /\ IsFiniteSet(A)
    BY <1>4, CellsFinite
  <2>2. \A c \in Cells : old[c] \in Int /\ new[c] \in Int
    BY <1>7
  <2> QED BY <1>4, <2>1, <2>2 DEF IntValued
<1>9. CellsAt(n)' = CellsAt(n) /\ Owed(n)' = SumFunctionOnSet(new, CellsAt(n)) /\ Owed(n) = SumFunctionOnSet(old, CellsAt(n))
  BY DEF Owed, CellsAt, Cells
<1> HIDE DEF A, old, new
<1>10. SumFunctionOnSet(new, CellsAt(n)) = SumFunctionOnSet(new, A) + SumFunctionOnSet(new, B)
  BY <1>4, <1>8, SumSplit
<1>11. SumFunctionOnSet(old, CellsAt(n)) = SumFunctionOnSet(old, A) + SumFunctionOnSet(old, B)
  BY <1>4, <1>8, SumSplit
<1>12. SumFunctionOnSet(old, A) = 0
  BY <1>6, <1>8, SumZero
<1>13. SumFunctionOnSet(new, B) = SumFunctionOnSet(old, B)
  <2> HIDE DEF B
  <2> QED BY <1>5, <1>8, SumSame
<1>14. SumFunctionOnSet(old, B) \in Int /\ SumFunctionOnSet(new, A) \in Int
  BY <1>8, SumInt
<1>15. Cardinality(FreeIn(n)) \in Nat
  <2>1. FreeIn(n) \in SUBSET Units
    BY DEF FreeIn
  <2> QED BY <2>1, UnitCount
<1> HIDE DEF B
<1> QED BY <1>2, <1>6, <1>9, <1>10, <1>11, <1>12, <1>13, <1>14, <1>15

\* A scan takes one unit from one bin, and what is owed from it falls by one.
LEMMA PicksOwed ==
  ASSUME Base, LedgerInv, OwedInv, NEW b, NEW o, NEW n, NEW k, Picks(b, o, n, k)
  PROVE  OwedInv'
<1> SUFFICES ASSUME NEW m \in Bins PROVE Owed(m)' <= Cardinality(FreeIn(m)')
  BY DEF OwedInv
<1>1. /\ b \in Baskets /\ o \in Orders /\ n \in Bins /\ k \in Units
      /\ k \in FreeIn(n) /\ unit[k].bin = n
      /\ unit' = [unit EXCEPT ![k] = [status |-> "PICKED", bin |-> NONE]]
      /\ row' = [row EXCEPT ![k] = [status |-> "PICKED", basket |-> b, order |-> NONE, source |-> n]]
      /\ target' = target
  BY DEF Picks, Takes, FreeIn
<1>2. unit \in [Units -> UnitRecord] /\ row \in [Units -> RowRecord]
  BY TypeParts DEF Base, StockType
<1>3. \A j \in Units : IF j = k THEN unit'[j].status = "PICKED"
                      ELSE unit'[j] = unit[j] /\ row'[j] = row[j]
  BY <1>1, <1>2
<1>4. FreeIn(m)' = FreeIn(m) \ (IF m = n THEN {k} ELSE {})
  BY <1>1, <1>3 DEF FreeIn, HasRow
<1>5. FreeIn(m) \in SUBSET Units
  BY DEF FreeIn
<1>6. IsFiniteSet(FreeIn(m)) /\ Cardinality(FreeIn(m)) \in Nat
  BY <1>5, UnitCount
<1>7. binPicked' = [x \in Cells |-> IF x = <<b, o, n>> THEN binPicked[x] + 1 ELSE binPicked[x]]
  BY PicksFromBin
<1> DEFINE e == <<b, o, n>>
           old == StillOwed
           new == StillOwed'
           C == CellsAt(m)
<1>8. e \in Cells /\ (e \in C <=> m = n)
  BY <1>1 DEF Cells, CellsAt
<1>9. old \in [Cells -> Nat]
  BY OwedIsRemaining DEF LedgerInv
<1>10. \A c \in Cells : target[c] \in Nat /\ binPicked[c] \in Nat
  BY DEF Base, TypeOK
<1>11. \A c \in Cells : new[c] = IF c = e THEN old[c] - 1 ELSE old[c]
  BY <1>1, <1>7, <1>10 DEF StillOwed
<1>12. C \in SUBSET Cells /\ IsFiniteSet(C)
  BY CellsFinite DEF CellsAt
<1>13. IntValued(old, C)
  BY <1>9, <1>12 DEF IntValued
<1>14. Owed(m) = SumFunctionOnSet(old, C) /\ Owed(m)' = SumFunctionOnSet(new, C)
  BY DEF Owed, CellsAt, Cells
<1>15. SumFunctionOnSet(old, C) <= Cardinality(FreeIn(m))
  BY <1>14 DEF OwedInv
<1> HIDE DEF e, old, new, C
<1>16. SumFunctionOnSet(old, C) \in Int
  BY <1>12, <1>13, SumInt
<1>17. CASE m = n
  <2>1. k \in FreeIn(m) /\ FreeIn(m)' = FreeIn(m) \ {k}
    BY <1>1, <1>4, <1>17
  <2>2. Cardinality(FreeIn(m) \ {k}) = Cardinality(FreeIn(m)) - 1
    BY <1>6, <2>1, FS_RemoveElement
  <2>3. old[e] \in Int /\ new[e] = old[e] - 1 /\ e \in C
    BY <1>8, <1>9, <1>11, <1>17
  <2>4. \A c \in C \ {e} : new[c] = old[c]
    BY <1>11, <1>12
  <2>5. SumFunctionOnSet(new, C) = SumFunctionOnSet(old, C) - old[e] + new[e]
    BY <1>12, <1>13, <2>3, <2>4, SumChange
  <2> QED BY <1>6, <1>14, <1>15, <1>16, <2>1, <2>2, <2>3, <2>5
<1>18. CASE m # n
  <2>1. FreeIn(m)' = FreeIn(m)
    BY <1>4, <1>18
  <2>2. \A c \in C : new[c] = old[c]
    BY <1>8, <1>11, <1>12, <1>18
  <2>3. SumFunctionOnSet(old, C) = SumFunctionOnSet(new, C)
    BY <1>12, <1>13, <2>2, SumSame
  <2> QED BY <1>14, <1>15, <2>1, <2>3
<1> QED BY <1>17, <1>18

\* A refresh that meets no order in PACKING leaves a basket that has orders in a
\* pick status, and other baskets alone.
LEMMA RefreshHolds ==
  ASSUME BasketType, NEW b, NEW packer, RefreshBasket(b, order', packer, ActiveOrder),
         \A o \in Orders : order'[o].status \in ActiveOrder /\ order'[o].status # "PACKING"
  PROVE  \A c \in Baskets :
            IF c # b THEN basket'[c] = basket[c]
            ELSE (\E o \in Orders : order'[o].basket = b) => basket'[c].status \in PickBasket
<1>1. PICK rec \in Refreshed(b, order', packer, ActiveOrder) : basket' = [basket EXCEPT ![b] = rec]
  BY DEF RefreshBasket
<1>2. ASSUME NEW o \in Orders, order'[o].basket = b  PROVE rec.status \in PickBasket
  <2>1. o \in InBasket(b, order', ActiveOrder)
    BY <1>2 DEF InBasket
  <2> DEFINE os == InBasket(b, order', ActiveOrder)
             st == BasketStatus(os, order')
  <2>2. \E pk, pc : rec = [status |-> st, picker |-> pk, packer |-> pc]
    BY <1>1, <2>1 DEF Refreshed
  <2>3. \A p \in os : order'[p].status # "PACKING"
    BY DEF InBasket
  <2>4. st \in PickBasket
    BY <2>3 DEF BasketStatus, PickBasket
  <2> HIDE DEF st
  <2> QED BY <2>2, <2>4
<1> QED BY <1>1, <1>2 DEF BasketType

\* Orders that no step takes into PACKING.
NotPacking == \A o \in Orders : order'[o].status # "PACKING"

LEMMA PicksNotPacking ==
  ASSUME Base, HoldingInv, NEW b, NEW o, NEW n, NEW k, Picks(b, o, n, k)
  PROVE  NotPacking
<1> DEFINE m == Min({SumFunction([c \in Baskets |-> demandPicked'[<<c, o>>]]), Qty[o]})
           st == ProgressStatus(o, m)
<1>1. o \in Orders /\ order' = [order EXCEPT ![o] = Progressed(o, demandPicked')]
  BY DEF Picks
<1>2. Progressed(o, demandPicked') = PickedAndStatus(order[o], m, st)
  BY DEF Progressed, PickedAndStatus
<1>3. st # "PACKING"
  BY <1>1 DEF ProgressStatus, HoldingInv
<1>4. IsOrder(order[o])
  BY <1>1 DEF Base, ShortInv, Short
<1>5. order' = [order EXCEPT ![o] = PickedAndStatus(order[o], m, st)]
  BY <1>1, <1>2
<1> HIDE DEF st, m
<1>6. PickedAndStatus(order[o], m, st).status # "PACKING"
  <2>1. PickedAndStatus(order[o], m, st)
          = [status |-> st, basket |-> order[o].basket, claimedBy |-> order[o].claimedBy, picked |-> m]
    BY <1>4, OrderFields
  <2> QED BY <1>3, <2>1
<1> DEFINE x == PickedAndStatus(order[o], m, st)
<1>7. order' = [order EXCEPT ![o] = x] /\ x.status # "PACKING"
  BY <1>5, <1>6
<1> HIDE DEF x
<1>8. \A p \in Orders : order'[p] = IF p = o THEN x ELSE order[p]
  BY <1>7 DEF Base, ShortInv, IsTable
<1> QED BY <1>7, <1>8 DEF NotPacking, HoldingInv

LEMMA QueueNotPacking ==
  ASSUME Base, HoldingInv, NEW r, QueueWrite(r)
  PROVE  NotPacking
<1>1. PICK o, left : order' = [order EXCEPT ![o].status = Readiness(o, left), ![o].picked = 0]
  BY DEF QueueWrite
<1> DEFINE st == Readiness(o, left)
           x == StatusAndPicked(order[o], st, 0)
<1>2. order' = [order EXCEPT ![o] = x]
  BY <1>1 DEF Base, ShortInv, IsTable, StatusAndPicked
<1>3. st # "PACKING"
  BY DEF Readiness
<1> HIDE DEF st
<1>4. ASSUME o \in Orders  PROVE x.status # "PACKING"
  <2>1. IsOrder(order[o])
    BY <1>4 DEF Base, ShortInv, Short
  <2>2. x = [status |-> st, basket |-> order[o].basket, claimedBy |-> order[o].claimedBy, picked |-> 0]
    BY <2>1, OrderFields
  <2> QED BY <1>3, <2>2
<1> HIDE DEF x
<1>5. \A p \in Orders : order'[p] = IF p = o THEN x ELSE order[p]
  BY <1>2 DEF Base, ShortInv, IsTable
<1> QED BY <1>4, <1>5 DEF NotPacking, HoldingInv

LEMMA HandoffNotPacking ==
  ASSUME Base, HoldingInv, NEW r, NEW packer, HandoffCommit(r, packer)
  PROVE  NotPacking
<1> DEFINE S == {o \in Orders : order[o].basket = req[r].basket /\ order[o].status = "READY_FOR_PACK"}
<1>1. order' = [o \in Orders |-> IF o \in S THEN WithStatus(order[o], "PICKED") ELSE order[o]]
  BY DEF HandoffCommit, WithStatus
<1> HIDE DEF S
<1>2. ASSUME NEW o \in Orders  PROVE WithStatus(order[o], "PICKED").status = "PICKED"
  <2>1. IsOrder(order[o])
    BY DEF Base, ShortInv, Short
  <2>2. WithStatus(order[o], "PICKED")
          = [status |-> "PICKED", basket |-> order[o].basket, claimedBy |-> order[o].claimedBy,
             picked |-> order[o].picked]
    BY <2>1, OrderFields
  <2> QED BY <2>2
<1>3. \A o \in Orders : order'[o].status = "PICKED" \/ order'[o] = order[o]
  BY <1>1, <1>2
<1> QED BY <1>3 DEF NotPacking, HoldingInv

\* Baskets keep their pick status, by handler.
LEMMA RefreshHolding ==
  ASSUME Base, HoldingInv, NotPacking, AllActive', NEW b \in Baskets, NEW packer,
         RefreshBasket(b, order', packer, ActiveOrder),
         \A o \in Orders : order'[o].basket \in {order[o].basket, b}
  PROVE  HoldingInv'
<1>1. BasketType
  BY TypeParts DEF Base
<1>2. \A c \in Baskets :
         IF c # b THEN basket'[c] = basket[c]
         ELSE (\E o \in Orders : order'[o].basket = b) => basket'[c].status \in PickBasket
  BY <1>1, RefreshHolds DEF AllActive, NotPacking
<1>3. ASSUME NEW o \in Orders, NEW c \in Baskets, order'[o].basket = c
      PROVE  basket'[c].status \in PickBasket
  BY <1>2, <1>3 DEF HoldingInv
<1> QED BY <1>3 DEF HoldingInv, NotPacking

LEMMA AssignHolding ==
  ASSUME Base, LedgerInv', HoldingInv, NEW u \in Users, NEW b \in Baskets, NEW os \in SUBSET Orders,
         Assign(u, b, os)
  PROVE  HoldingInv'
<1>1. \A o \in Orders :
         IF o \in os THEN order'[o].basket = b /\ order'[o].status = "IN_PICKING"
         ELSE order'[o] = order[o]
  BY AssignMoves DEF Base
<1>2. NotPacking /\ \A o \in Orders : order'[o].basket \in {order[o].basket, b}
  BY <1>1 DEF NotPacking, HoldingInv
<1>3. RefreshBasket(b, order', NONE, ActiveOrder) /\ AllActive'
  BY DEF Assign, LedgerInv
<1> QED BY <1>2, <1>3, RefreshHolding

LEMMA ScanHolding ==
  ASSUME Base, LedgerInv, LedgerInv', HoldingInv, NEW r \in Requests, ScanCommit(r)
  PROVE  HoldingInv' /\ (OwedInv => OwedInv')
<1>1. PICK o \in Orders : Picks(req[r].basket, o, req[r].bin, req[r].unit)
  BY ScanPicks
<1> DEFINE b == req[r].basket n == req[r].bin k == req[r].unit
<1>2. Picks(b, o, n, k) /\ AllStay
  BY <1>1, ScanStays DEF Base
<1> HIDE DEF b, n, k
<1>3. NotPacking
  BY <1>2, PicksNotPacking
<1>4. b \in Baskets /\ RefreshBasket(b, order', basket[b].packer, ActiveOrder) /\ AllActive'
  BY <1>2 DEF Picks, LedgerInv
<1>5. \A p \in Orders : order'[p].basket \in {order[p].basket, b}
  BY <1>2 DEF AllStay, Stays
<1> QED BY <1>2, <1>3, <1>4, <1>5, RefreshHolding, PicksOwed

LEMMA HandoffHolding ==
  ASSUME Base, HoldingInv, NEW r \in Requests, NEW packer, HandoffCommit(r, packer), AllStay
  PROVE  HoldingInv'
<1> DEFINE b == req[r].basket
           x == [WithStatus(basket[b], "FULL_HELD") EXCEPT !.packer = packer]
<1>1. basket \in [Baskets -> BasketRecord]
  BY TypeParts DEF Base, BasketType
<1>2. basket' = [basket EXCEPT ![b] = x]
  BY <1>1 DEF HandoffCommit, WithStatus
<1>3. ASSUME b \in Baskets  PROVE x.status = "FULL_HELD"
  <2>1. IsBasket(basket[b])
    BY <1>1, <1>3 DEF IsBasket, BasketRecord
  <2>2. x = [status |-> "FULL_HELD", picker |-> basket[b].picker, packer |-> packer]
    BY <2>1, BasketFields
  <2> QED BY <2>2
<1> HIDE DEF b, x
<1>4. \A c \in Baskets : basket'[c] = IF c = b THEN x ELSE basket[c]
  BY <1>1, <1>2
<1>5. \A c \in Baskets : basket[c].status \in PickBasket => basket'[c].status \in PickBasket
  BY <1>3, <1>4 DEF PickBasket
<1>6. NotPacking
  BY HandoffNotPacking
<1> QED BY <1>5, <1>6 DEF HoldingInv, NotPacking, AllStay, Stays

LEMMA FillingStep ==
  ASSUME FillingOnly, Base, LedgerInv, HoldingInv, OwedInv, [Next]_vars, Base', LedgerInv'
  PROVE  HoldingInv' /\ OwedInv'
<1>1. ASSUME NEW r \in Requests  PROVE req[r].op \in {"assign", "scan", "handoff", "queue", "pos", "idle"}
  BY <1>1 DEF Base, ReqInv, Opened, FillingOnly
<1>2. ASSUME UNCHANGED <<stock, demands, order, basket>>  PROVE HoldingInv' /\ OwedInv'
  <2>1. HoldingInv'
    BY <1>2 DEF HoldingInv
  <2>2. OwedInv'
    BY <1>2, OwedStays
  <2> QED BY <2>1, <2>2
<1>3. ASSUME NEW u \in Users, NEW b \in Baskets, NEW os \in SUBSET Orders, Assign(u, b, os)
      PROVE  HoldingInv' /\ OwedInv'
  <2>1. HoldingInv'
    BY <1>3, AssignHolding
  <2>2. StillOwed' \in [Cells -> Nat]
    <3>1. (Base /\ PlanInv => StillOwed \in [Cells -> Nat])'
      BY OwedIsRemaining, PTL
    <3> QED BY <3>1 DEF LedgerInv
  <2>3. OwedInv'
    BY <1>3, <2>2, AssignOwed
  <2> QED BY <2>1, <2>3
<1>4. ASSUME NEW r \in Requests, NEW packer, HandoffCommit(r, packer)  PROVE HoldingInv' /\ OwedInv'
  <2>1. UNCHANGED <<stock, demands>>
    BY <1>4 DEF HandoffCommit
  <2>2. AllStay
    <3>1. PickingOnly
      BY DEF FillingOnly, PickingOnly
    <3>2. basket' = [basket EXCEPT ![req[r].basket].status = "FULL_HELD", ![req[r].basket].packer = packer]
      BY <1>4 DEF HandoffCommit
    <3> DEFINE S == {o \in Orders : order[o].basket = req[r].basket /\ order[o].status = "READY_FOR_PACK"}
    <3>3. order' = [o \in Orders |-> IF o \in S THEN WithStatus(order[o], "PICKED") ELSE order[o]]
      BY <1>4 DEF HandoffCommit, WithStatus
    <3>4. "PICKED" \in ActiveOrder /\ ShortInv
      BY DEF ActiveOrder, OrderStatus, Base
    <3> HIDE DEF S
    <3> QED BY <3>3, <3>4, StatusStays
  <2>3. HoldingInv'
    BY <1>4, <2>2, HandoffHolding
  <2> QED BY <2>1, <2>3, OwedStays
<1>5. ASSUME NEW r \in Requests, QueueWrite(r)  PROVE HoldingInv' /\ OwedInv'
  <2>1. UNCHANGED <<stock, demands>> /\ basket' = basket
    BY <1>5 DEF QueueWrite
  <2>2. NotPacking /\ AllStay
    BY <1>5, QueueNotPacking, QueueStays DEF Base
  <2>3. HoldingInv'
    BY <2>1, <2>2 DEF HoldingInv, NotPacking, AllStay, Stays
  <2> QED BY <2>1, <2>3, OwedStays
<1>6. ASSUME NEW r \in Requests, \/ VoidRelease(r) \/ VoidRepair(r) \/ CompleteCommit(r)
                                 \/ WaybillCommit(r) \/ StartCommit(r) \/ LegacyScanCommit(r)
                                 \/ \E n \in Bins : MoveCommit(r, n)
      PROVE  FALSE
  BY <1>1, <1>6 DEF VoidRelease, VoidRepair, CompleteCommit, MoveCommit, WaybillCommit, StartCommit,
                    LegacyScanCommit
<1>7. ASSUME NEW u, NEW b, NEW os, PackVoid(u, b, os)  PROVE FALSE
  BY <1>7 DEF PackVoid, FillingOnly
<1>8. ASSUME NEW u, NEW b, NEW o, NEW k, PackScan(u, b, o, k)  PROVE FALSE
  BY <1>8 DEF PackScan, FillingOnly
<1>9. CASE Picking
  BY <1>2, <1>3, <1>4, <1>6, <1>9, ScanHolding DEF Picking, ScanRead, HandoffRead, VoidRead
<1>10. CASE Upkeep
  BY <1>2, <1>5, <1>6, <1>10 DEF Upkeep, QueueRead, MoveRead, PosUpdate, Abandon
<1>11. CASE Packing
  BY <1>2, <1>6, <1>7, <1>8, <1>11 DEF Packing, WaybillRead, StartRead, LegacyScanRead, CompleteRead
<1>12. CASE UNCHANGED vars
  BY <1>2, <1>12 DEF vars
<1> QED BY <1>9, <1>10, <1>11, <1>12 DEF Next

LEMMA FillingInit ==
  ASSUME Init
  PROVE  HoldingInv /\ OwedInv
<1>1. PICK ready : order = [o \in Orders |-> [status |-> IF o \in ready THEN "READY" ELSE "RESTOCKING",
                                             basket |-> NONE, claimedBy |-> NONE, picked |-> 0]]
  BY DEF Init
<1>2. HoldingInv
  BY <1>1, Finite DEF HoldingInv
<1>3. StillOwed = [c \in Cells |-> 0]
  BY DEF Init, StillOwed
<1>4. ASSUME NEW n \in Bins  PROVE Owed(n) <= Cardinality(FreeIn(n))
  <2>1. CellsAt(n) \in SUBSET Cells
    BY DEF CellsAt
  <2>2. IsFiniteSet(CellsAt(n)) /\ \A c \in CellsAt(n) : StillOwed[c] = 0
    BY <1>3, <2>1, CellsFinite
  <2>3. Owed(n) = 0
    BY <2>2, SumZero DEF Owed
  <2>4. FreeIn(n) \in SUBSET Units
    BY DEF FreeIn
  <2>5. Cardinality(FreeIn(n)) \in Nat
    BY <2>4, UnitCount
  <2> QED BY <2>3, <2>5
<1> QED BY <1>2, <1>4 DEF OwedInv

\* Assignments never plan a unit that lies in no bin or that another order is
\* promised, and scans take only what their own demand was promised: as long as
\* baskets are only filled, handed off and queued for, no bin ever owes the
\* orders of all baskets more units than lie free in it (getDemandPickBinAvailability,
\* ScanCommit), for any number of bins, baskets, orders and handlers in flight.
THEOREM BinsKeepTheirPromises ==
  ASSUME Ops \subseteq {"assign", "scan", "handoff", "queue", "pos"}
  PROVE  Spec => []PromisedStockIsThere
<1>1. NoReturns /\ FillingOnly
  BY DEF NoReturns, FillingOnly
<1>2. Init => HoldingInv /\ OwedInv
  BY FillingInit
<1>3. HoldingInv /\ OwedInv /\ Base /\ LedgerInv /\ (Base /\ LedgerInv)' /\ [Next]_vars
         => (HoldingInv /\ OwedInv)'
  BY <1>1, FillingStep
<1>4. Base /\ LedgerInv /\ OwedInv => PromisedStockIsThere
  BY OwedIsPromised
<1>5. Spec => [](Base /\ LedgerInv)
  BY <1>1, LedgerAlways
<1> QED BY <1>2, <1>3, <1>4, <1>5, PTL DEF Spec

-----------------------------------------------------------------------------
(* Packed units, with voids and without.                                    *)

\* The units that were packed for an order, and those of them that have left
\* their basket.
DoneFor(o) == {k \in Units : unit[k].status = "PACKED" /\ row[k].order = o}
GoneFor(o) == {k \in Units : unit[k].status = "PACKED" /\ row[k].status = "REMOVED" /\ row[k].order = o}
Enough(o) == Cardinality(DoneFor(o)) >= Qty[o]

\* What is counted as packed once and REMOVED since is packed still: no handler
\* puts such a unit back on a shelf.
PackStock ==
    /\ \A k \in Units : row[k].status = "PICKED" => row[k].order = NONE
    /\ \A k \in Units : row[k].status = "PACKED" => unit[k].status = "PACKED"
    /\ \A o \in Orders : removedPacked[o] <= Cardinality(GoneFor(o))
    /\ \A o \in Orders : Cardinality(PackedFor(o)) <= Qty[o]

DoneGrows == \A o \in Orders : DoneFor(o) \subseteq DoneFor(o)'

LEMMA UnitSets ==
  ASSUME NEW S \in SUBSET Units, NEW T \in SUBSET Units
  PROVE  /\ S \subseteq T => Cardinality(S) <= Cardinality(T)
         /\ S \cap T = {} => Cardinality(S \cup T) = Cardinality(S) + Cardinality(T)
<1>1. IsFiniteSet(S) /\ IsFiniteSet(T) /\ Cardinality(S) \in Nat /\ Cardinality(T) \in Nat
  BY UnitCount
<1>2. ASSUME S \cap T = {}  PROVE Cardinality(S \cup T) = Cardinality(S) + Cardinality(T)
  <2>1. Cardinality(S \cup T) = Cardinality(S) + Cardinality(T) - Cardinality(S \cap T)
    BY <1>1, FS_Union
  <2>2. Cardinality(S \cap T) = 0
    BY <1>2, FS_EmptySet
  <2> QED BY <1>1, <2>1, <2>2
<1>3. ASSUME S \subseteq T  PROVE Cardinality(S) <= Cardinality(T)
  BY <1>1, <1>3, FS_Subset
<1> QED BY <1>2, <1>3

\* Removing rows, and counting those of S that were packed.
LEMMA RemovesPacked ==
  ASSUME StockType, PackStock, NEW R \in SUBSET Units, NEW S \in SUBSET R,
         row' = Removed(row, R),
         \A k \in Units : unit'[k] = unit[k] \/ row[k].status = "PICKED",
         removedPacked' = removedPacked \/ removedPacked' = PackedRemoved(S)
  PROVE  PackStock' /\ DoneGrows
<1>1. ASSUME NEW k \in Units
      PROVE  /\ row'[k].status = IF k \in R THEN "REMOVED" ELSE row[k].status
             /\ row'[k].order = row[k].order
  <2>1. row[k] \in RowRecord
    BY DEF StockType
  <2>2. row'[k] = IF k \in R THEN [row[k] EXCEPT !.status = "REMOVED"] ELSE row[k]
    BY DEF Removed
  <2> QED BY <2>1, <2>2 DEF RowRecord
<1>2. \A k \in Units : row'[k].status = "PICKED" => row'[k].order = NONE
  BY <1>1 DEF PackStock
<1>3. \A k \in Units : row'[k].status = "PACKED" => unit'[k].status = "PACKED"
  BY <1>1 DEF PackStock
<1>4. ASSUME NEW o \in Orders  PROVE removedPacked'[o] <= Cardinality(GoneFor(o)')
  <2> DEFINE X == S \cap PackedFor(o)
             G == GoneFor(o)
             H == GoneFor(o)'
  <2>1. G \in SUBSET Units /\ X \in SUBSET Units /\ H \in SUBSET Units /\ G \cup X \in SUBSET Units
    BY DEF GoneFor, PackedFor
  <2>2. G \cup X \subseteq H
    BY <1>1 DEF GoneFor, PackedFor, PackStock
  <2>3. G \cap X = {}
    BY DEF GoneFor, PackedFor
  <2>4. removedPacked[o] <= Cardinality(G)
    BY DEF PackStock
  <2>5. removedPacked[o] \in Nat /\ Qty[o] \in Nat
    BY Finite DEF StockType
  <2>6. removedPacked'[o] = removedPacked[o] \/ removedPacked'[o] = Min({Qty[o], removedPacked[o] + Cardinality(X)})
    BY DEF PackedRemoved
  <2> HIDE DEF X, G, H
  <2>7. Cardinality(G) \in Nat /\ Cardinality(X) \in Nat /\ Cardinality(H) \in Nat
    BY <2>1, UnitCount
  <2>8. Cardinality(G) + Cardinality(X) <= Cardinality(H)
    BY <2>1, <2>2, <2>3, UnitSets
  <2> DEFINE m == removedPacked[o] + Cardinality(X)
  <2>9. m \in Int
    BY <2>5, <2>7
  <2> HIDE DEF m
  <2>10. Min({Qty[o], m}) = IF Qty[o] <= m THEN Qty[o] ELSE m
    BY <2>5, <2>9, MinTwo
  <2>11. Min({Qty[o], m}) <= m
    BY <2>5, <2>9, <2>10
  <2>12. removedPacked'[o] <= m
    <3>1. removedPacked[o] <= m
      BY <2>5, <2>7 DEF m
    <3>2. removedPacked'[o] = removedPacked[o] \/ removedPacked'[o] = Min({Qty[o], m})
      BY <2>6 DEF m
    <3> QED BY <2>11, <3>1, <3>2
  <2>13. m <= Cardinality(H)
    BY <2>4, <2>5, <2>7, <2>8 DEF m
  <2>14. removedPacked'[o] \in Int
    <3>1. Min({Qty[o], m}) \in Int
      BY <2>5, <2>9, <2>10
    <3>2. removedPacked'[o] = removedPacked[o] \/ removedPacked'[o] = Min({Qty[o], m})
      BY <2>6 DEF m
    <3> QED BY <2>5, <3>1, <3>2
  <2>15. removedPacked'[o] <= Cardinality(H)
    BY <2>7, <2>9, <2>12, <2>13, <2>14
  <2> QED BY <2>15 DEF H
<1>5. ASSUME NEW o \in Orders  PROVE Cardinality(PackedFor(o)') <= Qty[o]
  <2> DEFINE P == PackedFor(o) Q == PackedFor(o)'
  <2>1. Q \subseteq P /\ P \in SUBSET Units /\ Q \in SUBSET Units
    BY <1>1 DEF PackedFor
  <2>2. Cardinality(P) <= Qty[o] /\ Qty[o] \in Nat
    BY Finite DEF PackStock
  <2> HIDE DEF P, Q
  <2>3. Cardinality(P) \in Nat /\ Cardinality(Q) \in Nat /\ Cardinality(Q) <= Cardinality(P)
    BY <2>1, UnitCount, UnitSets
  <2>4. Cardinality(Q) <= Qty[o]
    BY <2>2, <2>3
  <2> QED BY <2>4 DEF Q
<1>6. DoneGrows
  <2>1. ASSUME NEW o \in Orders, NEW k \in DoneFor(o)  PROVE k \in DoneFor(o)'
    <3>1. k \in Units /\ unit[k].status = "PACKED" /\ row[k].order = o /\ o # NONE
      BY BasketAssumption DEF DoneFor, BasketAssumption
    <3>2. row[k].status # "PICKED"
      BY <3>1 DEF PackStock
    <3> QED BY <1>1, <3>1, <3>2 DEF DoneFor
  <2> QED BY <2>1 DEF DoneGrows
<1> QED BY <1>2, <1>3, <1>4, <1>5, <1>6 DEF PackStock

\* Taking a unit from a shelf.
LEMMA TakesPacked ==
  ASSUME StockType, PackStock, NEW r, ScanCommit(r)
  PROVE  PackStock' /\ DoneGrows
<1> DEFINE k == req[r].unit n == req[r].bin b == req[r].basket
<1>1. /\ ~ HasRow(k) /\ unit[k] = [status |-> "PUTAWAY", bin |-> n]
      /\ unit' = [unit EXCEPT ![k] = [status |-> "PICKED", bin |-> NONE]]
      /\ row' = [row EXCEPT ![k] = [status |-> "PICKED", basket |-> b, order |-> NONE, source |-> n]]
      /\ removedPacked' = removedPacked
  BY DEF ScanCommit, Takes
<1> HIDE DEF k, n, b
<1>2. unit[k].status = "PUTAWAY"
  BY <1>1
<1>3. \A j \in Units : IF j = k THEN unit'[j].status = "PICKED" /\ row'[j].status = "PICKED" /\ row'[j].order = NONE
                      ELSE unit'[j] = unit[j] /\ row'[j] = row[j]
  BY <1>1 DEF StockType
<1>4. ASSUME NEW o \in Orders
      PROVE  GoneFor(o)' = GoneFor(o) /\ PackedFor(o)' = PackedFor(o) /\ DoneFor(o)' = DoneFor(o)
  BY <1>1, <1>2, <1>3 DEF GoneFor, PackedFor, DoneFor, HasRow
<1>5. \A j \in Units : row'[j].status = "PICKED" => row'[j].order = NONE
  BY <1>3 DEF PackStock
<1>6. \A j \in Units : row'[j].status = "PACKED" => unit'[j].status = "PACKED"
  BY <1>3 DEF PackStock
<1> QED BY <1>1, <1>4, <1>5, <1>6 DEF PackStock, DoneGrows

\* Packing a unit: scanPackingBasketOrderUnitDelta counts under the basket lock.
LEMMA PacksPacked ==
  ASSUME StockType, PackStock, NEW u, NEW b, NEW o \in Orders, NEW k \in Units, PackScan(u, b, o, k)
  PROVE  PackStock' /\ DoneGrows
<1>1. StockShape
  BY DEF StockType, StockShape, UnitRecord, RowRecord
<1>2. unit' = PackedUnits(k) /\ row' = PackedRows(k, o)
  BY <1>1, PackedTablesFlat, Zenon DEF PackScan, Packs
<1>3. row[k].status = "PICKED" /\ LineOpen(o) /\ removedPacked' = removedPacked /\ row[k].order = NONE
  BY DEF PackScan, PackStock
<1>4. \A j \in Units : /\ unit'[j].status = IF j = k THEN "PACKED" ELSE unit[j].status
                       /\ row'[j].status = IF j = k THEN "PACKED" ELSE row[j].status
                       /\ row'[j].order = IF j = k THEN o ELSE row[j].order
  BY <1>2 DEF PackedUnits, PackedRows
<1>5. ASSUME NEW p \in Orders
      PROVE  /\ GoneFor(p)' = GoneFor(p) /\ DoneFor(p) \subseteq DoneFor(p)'
             /\ PackedFor(p)' = IF p = o THEN PackedFor(p) \cup {k} ELSE PackedFor(p)
             /\ k \notin PackedFor(p)
  <2>1. p # NONE
    BY BasketAssumption DEF BasketAssumption
  <2>2. GoneFor(p)' = GoneFor(p)
    BY <1>3, <1>4, <2>1 DEF GoneFor
  <2>3. DoneFor(p) \subseteq DoneFor(p)'
    BY <1>3, <1>4, <2>1 DEF DoneFor
  <2>4. k \notin PackedFor(p)
    BY <1>3 DEF PackedFor
  <2>5. PackedFor(p)' = IF p = o THEN PackedFor(p) \cup {k} ELSE PackedFor(p)
    BY <1>3, <1>4 DEF PackedFor
  <2> QED BY <2>2, <2>3, <2>4, <2>5
<1>6. ASSUME NEW p \in Orders  PROVE Cardinality(PackedFor(p)') <= Qty[p]
  <2>1. CASE p = o
    <3> DEFINE P == PackedFor(o)
    <3>1. P \in SUBSET Units
      BY DEF PackedFor
    <3>2. Cardinality(P) < Qty[o] /\ PackedFor(o)' = P \cup {k} /\ k \notin P /\ Qty[o] \in Nat
      BY <1>3, <1>5, Finite DEF LineOpen
    <3> HIDE DEF P
    <3>3. IsFiniteSet(P) /\ Cardinality(P) \in Nat
      BY <3>1, UnitCount
    <3>4. Cardinality(P \cup {k}) = Cardinality(P) + 1
      BY <3>2, <3>3, FS_AddElement
    <3>5. Cardinality(P \cup {k}) <= Qty[o]
      BY <3>2, <3>3, <3>4
    <3> QED BY <2>1, <3>2, <3>5
  <2>2. CASE p # o
    BY <1>5, <2>2 DEF PackStock
  <2> QED BY <2>1, <2>2
<1>7. \A j \in Units : row'[j].status = "PICKED" => row'[j].order = NONE
  BY <1>4 DEF PackStock
<1>8. \A j \in Units : row'[j].status = "PACKED" => unit'[j].status = "PACKED"
  BY <1>4 DEF PackStock
<1>9. \A p \in Orders : removedPacked'[p] <= Cardinality(GoneFor(p)')
  BY <1>3, <1>5 DEF PackStock
<1> QED BY <1>5, <1>6, <1>7, <1>8, <1>9 DEF PackStock, DoneGrows

\* Orders that a step leaves or finds out of PACKED, by handler.
PackedOld == \A o \in Orders : order'[o].status = "PACKED" => order[o].status = "PACKED"

LEMMA StatusOld ==
  ASSUME ShortInv, NEW S, NEW st, st # "PACKED",
         order' = [o \in Orders |-> IF o \in S THEN WithStatus(order[o], st) ELSE order[o]]
  PROVE  PackedOld
<1>1. ASSUME NEW o \in Orders  PROVE WithStatus(order[o], st).status = st
  <2>1. IsOrder(order[o])
    BY DEF ShortInv, Short
  <2>2. WithStatus(order[o], st)
          = [status |-> st, basket |-> order[o].basket, claimedBy |-> order[o].claimedBy,
             picked |-> order[o].picked]
    BY <2>1, OrderFields
  <2> QED BY <2>2
<1>2. \A o \in Orders : order'[o].status = st \/ order'[o] = order[o]
  BY <1>1
<1> QED BY <1>2 DEF PackedOld

LEMMA ScanOld ==
  ASSUME ShortInv, NEW r, ScanCommit(r)
  PROVE  PackedOld
<1>1. PICK o \in Orders : order' = [order EXCEPT ![o] = Progressed(o, demandPicked')]
  BY DEF ScanCommit
<1> DEFINE m == Min({SumFunction([c \in Baskets |-> demandPicked'[<<c, o>>]]), Qty[o]})
           st == ProgressStatus(o, m)
           x == PickedAndStatus(order[o], m, st)
<1>2. order' = [order EXCEPT ![o] = x]
  BY <1>1 DEF Progressed, PickedAndStatus
<1>3. st = "PACKED" => order[o].status = "PACKED"
  BY DEF ProgressStatus
<1> HIDE DEF st, m
<1>4. x.status = st
  <2>1. IsOrder(order[o])
    BY DEF ShortInv, Short
  <2>2. x = [status |-> st, basket |-> order[o].basket, claimedBy |-> order[o].claimedBy, picked |-> m]
    BY <2>1, OrderFields
  <2> QED BY <2>2
<1> HIDE DEF x
<1>5. \A p \in Orders : order'[p] = IF p = o THEN x ELSE order[p]
  BY <1>2 DEF ShortInv, IsTable
<1> QED BY <1>3, <1>4, <1>5 DEF PackedOld

LEMMA QueueOld ==
  ASSUME ShortInv, NEW r, QueueWrite(r)
  PROVE  PackedOld
<1>1. PICK o, left : order' = [order EXCEPT ![o].status = Readiness(o, left), ![o].picked = 0]
  BY DEF QueueWrite
<1> DEFINE st == Readiness(o, left)
           x == StatusAndPicked(order[o], st, 0)
<1>2. order' = [order EXCEPT ![o] = x]
  BY <1>1 DEF ShortInv, IsTable, StatusAndPicked
<1>3. st # "PACKED"
  BY DEF Readiness
<1> HIDE DEF st
<1>4. ASSUME o \in Orders  PROVE x.status # "PACKED"
  <2>1. IsOrder(order[o])
    BY <1>4 DEF ShortInv, Short
  <2>2. x = [status |-> st, basket |-> order[o].basket, claimedBy |-> order[o].claimedBy, picked |-> 0]
    BY <2>1, OrderFields
  <2> QED BY <1>3, <2>2
<1> HIDE DEF x
<1>5. \A p \in Orders : order'[p] = IF p = o THEN x ELSE order[p]
  BY <1>2 DEF ShortInv, IsTable
<1> QED BY <1>4, <1>5 DEF PackedOld

LEMMA VoidReleaseOld ==
  ASSUME ShortInv, NEW r, VoidRelease(r)
  PROVE  PackedOld
<1> DEFINE x(o) == BasketAndUser(order[o], NONE, NONE)
           freed == [o \in Orders |-> IF order[o].basket = req[r].basket THEN x(o) ELSE order[o]]
<1>1. ASSUME NEW o \in Orders  PROVE x(o).status = order[o].status
  <2>1. IsOrder(order[o])
    BY DEF ShortInv, Short
  <2>2. x(o) = [status |-> order[o].status, basket |-> NONE, claimedBy |-> NONE,
                picked |-> order[o].picked]
    BY <2>1, OrderFields
  <2> QED BY <2>2
<1>2. PICK os, allowed, free, tg : order' = Reopened(os, allowed, freed, free, tg)
  BY DEF VoidRelease, BasketAndUser
<1> HIDE DEF x
<1>3. \A o \in Orders : freed[o].status = order[o].status
  BY <1>1
<1> HIDE DEF freed
<1> DEFINE ready(o) == Readiness(o, Available(o, free, tg))
           reset(o) == [status |-> ready(o), basket |-> NONE, claimedBy |-> NONE, picked |-> 0]
<1>4. \A o \in Orders : order'[o] = reset(o) \/ order'[o] = freed[o]
  BY <1>2 DEF Reopened
<1>5. \A o \in Orders : ready(o) # "PACKED"
  BY DEF Readiness
<1> HIDE DEF ready
<1>6. \A o \in Orders : reset(o).status # "PACKED"
  BY <1>5
<1> HIDE DEF reset
<1> QED BY <1>3, <1>4, <1>6 DEF PackedOld

LEMMA VoidRepairOld ==
  ASSUME ShortInv, NEW r, VoidRepair(r)
  PROVE  PackedOld
<1> DEFINE os == {o \in req[r].orders : order[o].status \notin {"PACKED", "CANCELED"}}
           e(o) == [status |-> IF pos[o] = "confirmed" THEN "RESTOCKING" ELSE "CANCELED",
                    basket |-> NONE, claimedBy |-> NONE, picked |-> 0]
           reset == [o \in Orders |-> IF o \in os THEN e(o) ELSE order[o]]
           Q == {o \in Orders : /\ reset[o].status \in QueueOrder /\ reset[o].basket = NONE
                                /\ pos[o] = "confirmed"}
<1>1. PICK available : \E f \in QueueOutcomes(Q, available) :
         order' = [o \in Orders |-> IF o \in Q THEN [reset[o] EXCEPT !.status = f[o], !.picked = 0]
                                    ELSE reset[o]]
  BY DEF VoidRepair
<1>2. PICK f \in QueueOutcomes(Q, available) :
         order' = [o \in Orders |-> IF o \in Q THEN [reset[o] EXCEPT !.status = f[o], !.picked = 0]
                                    ELSE reset[o]]
  BY <1>1
<1>3. \A o \in Orders : IsOrder(e(o)) /\ e(o).status # "PACKED"
  BY DEF IsOrder
<1> HIDE DEF e, os
<1>4. \A o \in Orders : IsOrder(reset[o]) /\ (reset[o].status = "PACKED" => order[o].status = "PACKED")
  BY <1>3 DEF ShortInv, Short
<1> HIDE DEF reset, Q
<1>5. \A o \in Q : f[o] # "PACKED"
  <2>1. PICK S : \E R \in S : \E Ps :
           f \in {[o \in Q |-> IF o \in R THEN "READY" ELSE IF o \in P THEN "PARTIAL" ELSE "RESTOCKING"]
                   : P \in Ps}
    BY <1>2 DEF QueueOutcomes
  <2> QED BY <2>1
<1> DEFINE y(o) == StatusAndPicked(reset[o], f[o], 0)
<1>6. \A o \in Orders : order'[o] = IF o \in Q THEN y(o) ELSE reset[o]
  BY <1>2 DEF StatusAndPicked
<1>7. ASSUME NEW o \in Orders, o \in Q  PROVE y(o).status # "PACKED"
  <2>1. y(o) = [status |-> f[o], basket |-> reset[o].basket, claimedBy |-> reset[o].claimedBy,
                picked |-> 0]
    BY <1>4, OrderFields
  <2> QED BY <1>5, <1>7, <2>1
<1> HIDE DEF y
<1> QED BY <1>4, <1>6, <1>7 DEF PackedOld

\* Every completed order, and every one whose completion is under way, has the
\* units its line requires packed for it.
PackedInv ==
    /\ PackStock
    /\ \A o \in Orders : order[o].status = "PACKED" => Enough(o)
    /\ \A r \in Requests : /\ req[r].op \in Ops \cup {"idle", "repair"}
                           /\ req[r].op = "complete" => \A o \in req[r].orders : o \in Orders /\ Enough(o)

LEMMA EnoughStays ==
  ASSUME DoneGrows, NEW o \in Orders, Enough(o)
  PROVE  Enough(o)'
<1> DEFINE S == DoneFor(o) T == DoneFor(o)'
<1>1. S \subseteq T /\ S \in SUBSET Units /\ T \in SUBSET Units
  BY DEF DoneGrows, DoneFor
<1>2. Cardinality(S) >= Qty[o] /\ Qty[o] \in Nat
  BY Finite DEF Enough
<1> HIDE DEF S, T
<1>3. Cardinality(S) <= Cardinality(T) /\ Cardinality(S) \in Nat /\ Cardinality(T) \in Nat
  BY <1>1, UnitSets, UnitCount
<1>4. Cardinality(T) >= Qty[o]
  BY <1>2, <1>3
<1> QED BY <1>4 DEF Enough, T

\* getPackedBasketUnitCount counts REMOVED rows that once were packed: their
\* units are packed still.
LEMMA AllPackedIsEnough ==
  ASSUME StockType, PackStock, NEW o \in Orders, AllPacked(o)
  PROVE  Enough(o)
<1> DEFINE G == GoneFor(o) P == PackedFor(o) D == DoneFor(o)
<1>1. G \in SUBSET Units /\ P \in SUBSET Units /\ D \in SUBSET Units /\ G \cup P \in SUBSET Units
  BY DEF GoneFor, PackedFor, DoneFor
<1>2. G \cap P = {} /\ G \cup P \subseteq D
  BY DEF GoneFor, PackedFor, DoneFor, PackStock
<1>3. removedPacked[o] <= Cardinality(G) /\ removedPacked[o] + Cardinality(P) >= Qty[o]
  BY DEF PackStock, AllPacked
<1>4. removedPacked[o] \in Nat /\ Qty[o] \in Nat
  BY Finite DEF StockType
<1> HIDE DEF G, P, D
<1>5. Cardinality(G) \in Nat /\ Cardinality(P) \in Nat /\ Cardinality(D) \in Nat
  BY <1>1, UnitCount
<1>6. Cardinality(G) + Cardinality(P) <= Cardinality(D)
  BY <1>1, <1>2, UnitSets
<1>7. Cardinality(D) >= Qty[o]
  BY <1>3, <1>4, <1>5, <1>6
<1> QED BY <1>7 DEF Enough, D

LEMMA PackedKeeps ==
  ASSUME TypeOK, PackedInv, [Next]_vars, PackStock', DoneGrows,
         \A o \in Orders : order'[o].status = "PACKED" => order[o].status = "PACKED" \/ Enough(o)
  PROVE  PackedInv'
<1>1. \A o \in Orders : Enough(o) => Enough(o)'
  BY EnoughStays
<1>2. \A o \in Orders : order'[o].status = "PACKED" => Enough(o)'
  BY <1>1 DEF PackedInv
<1>3. StockType /\ ReqType
  BY TypeParts
<1>4. \A o \in Orders : AllPacked(o) => Enough(o)
  BY <1>3, AllPackedIsEnough DEF PackedInv
<1>5. ASSUME NEW r \in Requests
      PROVE  /\ req'[r].op \in Ops \cup {"idle", "repair"}
             /\ req'[r].op = "complete" => \A o \in req'[r].orders : o \in Orders /\ Enough(o)
  <2>1. CASE req'[r] = req[r]
    BY <2>1 DEF PackedInv
  <2>2. CASE ReadNow(req'[r])
    BY <1>4, <2>2 DEF ReadNow
  <2> QED BY <1>3, <2>1, <2>2, RequestsRead
<1>6. ASSUME NEW r \in Requests
      PROVE  (/\ req[r].op \in Ops \cup {"idle", "repair"}
              /\ req[r].op = "complete" => \A o \in req[r].orders : o \in Orders /\ Enough(o))'
  BY <1>1, <1>5
<1> QED BY <1>2, <1>6 DEF PackedInv

LEMMA PackedStep ==
  ASSUME TypeOK, ShortInv, PackedInv, [Next]_vars, Ops \cap {"legacyScan", "packVoid", "move"} = {}
  PROVE  PackedInv'
<1> USE DEF PackedOld
<1>1. StockType /\ PackStock
  BY TypeParts DEF PackedInv
<1>2. ASSUME NEW r \in Requests  PROVE req[r].op \notin {"legacyScan", "move"}
  BY BasketAssumption DEF PackedInv, BasketAssumption
<1>3. ASSUME UNCHANGED stock, PackedOld  PROVE PackedInv'
  <2>1. PackStock' /\ DoneGrows
    BY <1>1, <1>3 DEF stock, PackStock, DoneGrows, GoneFor, PackedFor, DoneFor
  <2> QED BY <1>3, <2>1, PackedKeeps
<1>4. ASSUME NEW R \in SUBSET Units, NEW S \in SUBSET R, row' = Removed(row, R),
             \A k \in Units : unit'[k] = unit[k] \/ row[k].status = "PICKED",
             removedPacked' = removedPacked \/ removedPacked' = PackedRemoved(S),
             \A o \in Orders : order'[o].status = "PACKED" => order[o].status = "PACKED" \/ Enough(o)
      PROVE  PackedInv'
  <2>1. PackStock' /\ DoneGrows
    BY <1>1, <1>4, RemovesPacked
  <2> QED BY <1>4, <2>1, PackedKeeps
<1>5. ASSUME NEW b  PROVE OrphansIn(b) \in SUBSET Units /\ RowsIn(b) \in SUBSET Units
  BY DEF OrphansIn, RowsIn
<1>6. ASSUME NEW u \in Users, NEW b \in Baskets, NEW os \in SUBSET Orders, Assign(u, b, os)
      PROVE  PackedInv'
  <2>1. row' = Removed(row, OrphansIn(b)) /\ unit' = unit /\ removedPacked' = removedPacked
    BY <1>6 DEF Assign
  <2>2. \A o \in Orders : order'[o].status = "IN_PICKING" \/ order'[o] = order[o]
    BY <1>6, AssignMoves
  <2>3. \A o \in Orders : order'[o].status = "PACKED" => order[o].status = "PACKED"
    BY <2>2
  <2> DEFINE R == OrphansIn(b)
  <2>4. R \in SUBSET Units /\ row' = Removed(row, R)
    BY <1>5, <2>1
  <2> HIDE DEF R
  <2> QED BY <1>4, <2>1, <2>3, <2>4
<1>7. ASSUME NEW r \in Requests, ScanCommit(r)  PROVE PackedInv'
  BY <1>1, <1>7, TakesPacked, ScanOld, PackedKeeps
<1>8. ASSUME NEW r \in Requests, NEW packer, HandoffCommit(r, packer)  PROVE PackedInv'
  <2> DEFINE S == {o \in Orders : order[o].basket = req[r].basket /\ order[o].status = "READY_FOR_PACK"}
  <2>1. order' = [o \in Orders |-> IF o \in S THEN WithStatus(order[o], "PICKED") ELSE order[o]]
        /\ UNCHANGED stock
    BY <1>8 DEF HandoffCommit, WithStatus
  <2> HIDE DEF S
  <2>2. PackedOld
    BY <2>1, StatusOld
  <2> QED BY <1>3, <2>1, <2>2
<1>9. ASSUME NEW r \in Requests, VoidRelease(r)  PROVE PackedInv'
  <2> DEFINE R == RowsIn(req[r].basket)
  <2>1. /\ row' = Removed(row, R) /\ removedPacked' = PackedRemoved(R)
        /\ unit' = Restored({k \in R : row[k].status = "PICKED"})
    BY <1>9 DEF VoidRelease
  <2>2. \A k \in Units : unit'[k] = unit[k] \/ row[k].status = "PICKED"
    BY <2>1 DEF Restored
  <2>3. R \in SUBSET Units
    BY <1>5
  <2>4. \A o \in Orders : order'[o].status = "PACKED" => order[o].status = "PACKED"
    BY <1>9, VoidReleaseOld
  <2> HIDE DEF R
  <2> QED BY <1>4, <2>1, <2>2, <2>3, <2>4
<1>10. ASSUME NEW r \in Requests, VoidRepair(r)  PROVE PackedInv'
  BY <1>3, <1>10, VoidRepairOld DEF VoidRepair
<1>11. ASSUME NEW r \in Requests, QueueWrite(r)  PROVE PackedInv'
  BY <1>3, <1>11, QueueOld DEF QueueWrite
<1>12. ASSUME NEW r \in Requests, WaybillCommit(r)  PROVE PackedInv'
  <2> DEFINE R == OrphansIn(req[r].basket)
             S == {o \in Orders : o \in req[r].orders /\ req[r].seen = "PICKED"}
  <2>1. row' = Removed(row, R) /\ unit' = unit /\ removedPacked' = removedPacked
    BY <1>12 DEF WaybillCommit
  <2>2. order' = [o \in Orders |-> IF o \in S THEN WithStatus(order[o], "PACKING") ELSE order[o]]
    BY <1>12 DEF WaybillCommit, WithStatus
  <2>3. R \in SUBSET Units
    BY <1>5
  <2> HIDE DEF S, R
  <2>4. PackedOld
    BY <2>2, StatusOld
  <2> QED BY <1>4, <2>1, <2>3, <2>4
<1>13. ASSUME NEW r \in Requests, StartCommit(r)  PROVE PackedInv'
  <2> DEFINE S == req[r].orders
  <2>1. order' = [o \in Orders |-> IF o \in S THEN WithStatus(order[o], "PACKING") ELSE order[o]]
        /\ UNCHANGED stock
    BY <1>13 DEF StartCommit, WithStatus
  <2> HIDE DEF S
  <2>2. PackedOld
    BY <2>1, StatusOld
  <2> QED BY <1>3, <2>1, <2>2
<1>14. ASSUME NEW u \in Users, NEW b \in Baskets, NEW o \in Orders, NEW k \in Units, PackScan(u, b, o, k)
       PROVE  PackedInv'
  <2>1. PackStock' /\ DoneGrows
    BY <1>1, <1>14, PacksPacked
  <2>2. order' = order
    BY <1>14 DEF PackScan
  <2> QED BY <2>1, <2>2, PackedKeeps
<1>15. ASSUME NEW r \in Requests, CompleteCommit(r)  PROVE PackedInv'
  <2> DEFINE S == {k \in Units : row[k].status = "PACKED" /\ row[k].order \in req[r].orders}
             R == S \cup OrphansIn(req[r].basket)
  <2>1. row' = Removed(row, R) /\ unit' = unit /\ removedPacked' = PackedRemoved(S)
    BY <1>15 DEF CompleteCommit
  <2>2. R \in SUBSET Units /\ S \in SUBSET R
    BY <1>5
  <2>3. \A o \in Orders : o \notin req[r].orders => order'[o] = order[o]
    BY <1>15 DEF CompleteCommit
  <2>4. \A o \in req[r].orders : Enough(o)
    BY <1>15 DEF PackedInv, CompleteCommit
  <2> HIDE DEF S, R
  <2> QED BY <1>4, <2>1, <2>2, <2>3, <2>4
<1>16. ASSUME NEW r \in Requests, LegacyScanCommit(r) \/ \E n \in Bins : MoveCommit(r, n)  PROVE FALSE
  BY <1>2, <1>16 DEF LegacyScanCommit, MoveCommit
<1>17. ASSUME NEW u, NEW b, NEW os, PackVoid(u, b, os)  PROVE FALSE
  BY <1>17 DEF PackVoid
<1>18. CASE Picking
  BY <1>3, <1>6, <1>7, <1>8, <1>9, <1>10, <1>18 DEF Picking, ScanRead, HandoffRead, VoidRead
<1>19. CASE Upkeep
  BY <1>3, <1>11, <1>16, <1>19 DEF Upkeep, QueueRead, MoveRead, PosUpdate, Abandon
<1>20. CASE Packing
  BY <1>3, <1>12, <1>13, <1>14, <1>15, <1>16, <1>17, <1>20
  DEF Packing, WaybillRead, StartRead, LegacyScanRead, CompleteRead
<1>21. CASE UNCHANGED vars
  BY <1>3, <1>21 DEF vars
<1> QED BY <1>18, <1>19, <1>20, <1>21 DEF Next

LEMMA PackedInit ==
  ASSUME Init
  PROVE  PackedInv
<1>1. PICK ready : order = [o \in Orders |-> [status |-> IF o \in ready THEN "READY" ELSE "RESTOCKING",
                                             basket |-> NONE, claimedBy |-> NONE, picked |-> 0]]
  BY DEF Init
<1>2. row = [k \in Units |-> [status |-> "none", basket |-> NONE, order |-> NONE, source |-> NONE]]
      /\ removedPacked = [o \in Orders |-> 0]
  BY DEF Init
<1>3. \A k \in Units : row[k].status = "none"
  BY <1>2
<1>4. ASSUME NEW o \in Orders
      PROVE  removedPacked[o] <= Cardinality(GoneFor(o)) /\ Cardinality(PackedFor(o)) <= Qty[o]
  <2>1. GoneFor(o) = {} /\ PackedFor(o) = {}
    BY <1>3 DEF GoneFor, PackedFor
  <2> QED BY <1>2, <2>1, Finite, FS_EmptySet
<1>5. PackStock
  BY <1>3, <1>4 DEF PackStock
<1>6. \A r \in Requests : req[r].op = "idle"
  BY DEF Init, Idle
<1> QED BY <1>1, <1>5, <1>6 DEF PackedInv

\* An order is never packed with more units than its line requires, and never
\* completed with fewer, although getPackedBasketUnitCount counts rows that have
\* been REMOVED (CompleteRead) and the completion does not count again
\* (CompleteCommit): for any number of orders, baskets, packers and handlers in
\* flight, with voids, assignments and queue writes at work on the same orders.
\* The operations left out are those that break it: the scan without delta header
\* (LineOpen before its lock), the pack void (it shelves units whose rows still
\* count) and the stock move (it shelves a unit that was packed meanwhile).
THEOREM OrdersArePackedInFull ==
  ASSUME Ops \cap {"legacyScan", "packVoid", "move"} = {}
  PROVE  Spec => []PackedOrderVerified
<1>1. Init => TypeOK /\ ShortInv /\ PackedInv
  BY TypeInit, InitShort, PackedInit
<1>2. TypeOK /\ ShortInv /\ PackedInv /\ [Next]_vars => (TypeOK /\ ShortInv /\ PackedInv)'
  BY TypeStep, NextShort, PackedStep
<1>3. TypeOK /\ ShortInv /\ PackedInv => PackedOrderVerified
  BY DEF PackedInv, PackStock, Enough, DoneFor, PackedOrderVerified
<1> QED BY <1>1, <1>2, <1>3, PTL DEF Spec

-----------------------------------------------------------------------------
(* Counted units, with voids.                                               *)

\* All that the demands of a basket count as picked, whatever became of their
\* orders: a repair after a void may have taken one out of the basket.
Total(b) == Counted(b, Orders)

CountInv ==
    /\ RowsInv
    /\ \A b \in Baskets : Total(b) <= Cardinality(RowsIn(b))
    /\ \A r \in Requests : /\ req[r].op \in Ops \cup {"idle", "repair"}
                           /\ req[r].op = "scan" => req[r].basket \in Baskets /\ req[r].unit \in Units

LEMMA CountNumbers ==
  ASSUME DemandType, NEW b \in Baskets
  PROVE  /\ IsFiniteSet(Orders) /\ NatValued([o \in Orders |-> demandPicked[<<b, o>>]], Orders)
         /\ IntValued([o \in Orders |-> demandPicked[<<b, o>>]], Orders)
BY Finite DEF DemandType, NatValued, IntValued

\* A basket's count and its rows, after a step.
LEMMA CountKeeps ==
  ASSUME TypeOK, CountInv, [Next]_vars, RowsInv',
         \A b \in Baskets : Total(b)' <= Cardinality(RowsIn(b)')
  PROVE  CountInv'
<1>1. ReqType
  BY TypeParts
<1>2. ASSUME NEW r \in Requests
      PROVE  /\ req'[r].op \in Ops \cup {"idle", "repair"}
             /\ req'[r].op = "scan" => req'[r].basket \in Baskets /\ req'[r].unit \in Units
  <2>1. CASE req'[r] = req[r]
    BY <2>1 DEF CountInv
  <2>2. CASE ReadNow(req'[r])
    BY <2>2 DEF ReadNow
  <2> QED BY <1>1, <2>1, <2>2, RequestsRead
<1> QED BY <1>2 DEF CountInv

LEMMA SameCount ==
  ASSUME TypeOK, CountInv, [Next]_vars, demandPicked' = demandPicked, RowsInv',
         \A b \in Baskets : RowsIn(b)' = RowsIn(b)
  PROVE  CountInv'
<1>1. \A b \in Baskets : Total(b)' = Total(b)
  BY DEF Total, Counted
<1>2. \A b \in Baskets : Total(b)' <= Cardinality(RowsIn(b)')
  BY <1>1 DEF CountInv
<1> QED BY <1>2, CountKeeps

LEMMA AssignCount ==
  ASSUME TypeOK, CountInv, [Next]_vars, NEW u \in Users, NEW b \in Baskets, NEW os \in SUBSET Orders,
         Assign(u, b, os)
  PROVE  CountInv'
<1>1. OrphansIn(b) = {}
  BY DEF CountInv, RowsInv, OrphansIn, RowsIn
<1>2. row' = row /\ unit' = unit
  <2>1. row' = Removed(row, {}) /\ unit' = unit
    BY <1>1 DEF Assign
  <2> QED BY <2>1 DEF Removed, TypeOK
<1>3. RowsInv' /\ \A c \in Baskets : RowsIn(c)' = RowsIn(c)
  BY <1>2 DEF CountInv, RowsInv, RowsIn, HasRow
<1>4. ASSUME NEW c \in Baskets  PROVE Total(c)' <= Total(c) /\ Total(c)' \in Int /\ Total(c) \in Int
  <2> DEFINE f == [o \in Orders |-> demandPicked[<<c, o>>]]
             g == [o \in Orders |-> demandPicked'[<<c, o>>]]
  <2>1. demandPicked' = [d \in Baskets \X Orders |-> IF d[1] = b /\ d[2] \in os THEN 0 ELSE demandPicked[d]]
    BY DEF Assign, Without, TypeOK
  <2>2. \A o \in Orders : demandPicked'[<<c, o>>] = IF c = b /\ o \in os THEN 0 ELSE demandPicked[<<c, o>>]
    BY <2>1
  <2>3. \A o \in Orders : demandPicked[<<c, o>>] \in Nat
    BY DEF TypeOK
  <2>4. \A o \in Orders : f[o] \in Int /\ g[o] \in Int /\ g[o] <= f[o]
    BY <2>2, <2>3
  <2>5. Total(c) = SumFunctionOnSet(f, Orders) /\ Total(c)' = SumFunctionOnSet(g, Orders)
    BY DEF Total, Counted
  <2> HIDE DEF f, g
  <2>6. IntValued(f, Orders) /\ IntValued(g, Orders)
    BY <2>4 DEF IntValued
  <2>7. SumFunctionOnSet(g, Orders) <= SumFunctionOnSet(f, Orders)
    BY <2>4, <2>6, Finite, SumMonotone
  <2>8. SumFunctionOnSet(g, Orders) \in Int /\ SumFunctionOnSet(f, Orders) \in Int
    BY <2>6, Finite, SumInt
  <2> QED BY <2>5, <2>7, <2>8
<1>5. ASSUME NEW c \in Baskets  PROVE Total(c)' <= Cardinality(RowsIn(c)')
  <2>1. RowsIn(c) \in SUBSET Units
    BY DEF RowsIn
  <2>2. Cardinality(RowsIn(c)) \in Nat
    BY <2>1, UnitCount
  <2>3. Total(c) <= Cardinality(RowsIn(c))
    BY DEF CountInv
  <2>4. Total(c)' <= Cardinality(RowsIn(c))
    BY <1>4, <2>2, <2>3
  <2> QED BY <1>3, <2>4
<1> QED BY <1>3, <1>5, CountKeeps

LEMMA ScanCount ==
  ASSUME TypeOK, CountInv, [Next]_vars, NEW r \in Requests, ScanCommit(r)
  PROVE  CountInv'
<1> DEFINE b == req[r].basket k == req[r].unit n == req[r].bin
<1>1. b \in Baskets /\ k \in Units
  BY DEF CountInv, ScanCommit
<1>2. PICK o \in Orders : demandPicked' = [demandPicked EXCEPT ![<<b, o>>] = @ + 1]
  BY DEF ScanCommit
<1>3. /\ ~ HasRow(k)
      /\ unit' = [unit EXCEPT ![k] = [status |-> "PICKED", bin |-> NONE]]
      /\ row' = [row EXCEPT ![k] = [status |-> "PICKED", basket |-> b, order |-> NONE, source |-> n]]
  BY DEF ScanCommit, Takes
<1> HIDE DEF b, k, n
<1>4. \A j \in Units : IF j = k THEN unit'[j].status = "PICKED" /\ row'[j].status = "PICKED" /\ row'[j].basket = b
                      ELSE unit'[j] = unit[j] /\ row'[j] = row[j]
  BY <1>3 DEF TypeOK
<1>5. RowsInv'
  BY <1>4 DEF CountInv, RowsInv, HasRow
<1>6. \A c \in Baskets : RowsIn(c)' = IF c = b THEN RowsIn(c) \cup {k} ELSE RowsIn(c)
  BY <1>1, <1>3, <1>4 DEF RowsIn, HasRow
<1>7. k \notin RowsIn(b)
  BY <1>3 DEF RowsIn
<1> DEFINE d == <<b, o>>
<1>8. d \in Baskets \X Orders
  BY <1>1
<1>9. demandPicked \in [Baskets \X Orders -> Nat] /\ demandPicked' = [demandPicked EXCEPT ![d] = @ + 1]
  BY <1>2 DEF TypeOK
<1> HIDE DEF d
<1>10. demandPicked' = [x \in Baskets \X Orders |-> IF x = d THEN demandPicked[d] + 1 ELSE demandPicked[x]]
  BY <1>8, <1>9, Raised
<1>11. ASSUME NEW c \in Baskets  PROVE Total(c)' <= Cardinality(RowsIn(c)')
  <2> DEFINE f == [p \in Orders |-> demandPicked[<<c, p>>]]
             g == [p \in Orders |-> demandPicked'[<<c, p>>]]
             R == RowsIn(c)
  <2>1. \A p \in Orders : g[p] = IF c = b /\ p = o THEN f[p] + 1 ELSE f[p]
    BY <1>10 DEF d
  <2>2. Total(c) = SumFunctionOnSet(f, Orders) /\ Total(c)' = SumFunctionOnSet(g, Orders)
    BY DEF Total, Counted
  <2>3. \A p \in Orders : f[p] \in Int
    BY <1>9
  <2>4. R \in SUBSET Units /\ Total(c) <= Cardinality(R)
    BY DEF RowsIn, CountInv
  <2>5. RowsIn(c)' = IF c = b THEN R \cup {k} ELSE R
    BY <1>6
  <2>6. c = b => k \notin R
    BY <1>7
  <2> HIDE DEF f, g, R
  <2>7. IntValued(f, Orders)
    BY <2>3 DEF IntValued
  <2>8. IsFiniteSet(R) /\ Cardinality(R) \in Nat
    BY <2>4, UnitCount
  <2>9. SumFunctionOnSet(f, Orders) \in Int
    BY <2>7, Finite, SumInt
  <2>10. CASE c = b
    <3>1. g[o] = f[o] + 1 /\ \A p \in Orders \ {o} : g[p] = f[p]
      BY <2>1, <2>10
    <3>2. SumFunctionOnSet(g, Orders) = SumFunctionOnSet(f, Orders) + 1
      BY <2>7, <3>1, Finite, OneMore
    <3>3. Cardinality(R \cup {k}) = Cardinality(R) + 1
      BY <2>6, <2>8, <2>10, FS_AddElement
    <3> QED BY <2>2, <2>4, <2>5, <2>8, <2>9, <2>10, <3>2, <3>3
  <2>11. CASE c # b
    <3>1. \A p \in Orders : f[p] = g[p]
      BY <2>1, <2>11
    <3>2. SumFunctionOnSet(f, Orders) = SumFunctionOnSet(g, Orders)
      BY <2>7, <3>1, Finite, SumSame
    <3> QED BY <2>2, <2>4, <2>5, <2>11, <3>2
  <2> QED BY <2>10, <2>11
<1> QED BY <1>5, <1>11, CountKeeps

\* A void clears the counts of its basket with its rows.
LEMMA VoidCount ==
  ASSUME TypeOK, CountInv, [Next]_vars, NEW r \in Requests, VoidRelease(r)
  PROVE  CountInv'
<1> DEFINE b == req[r].basket
           rows == RowsIn(b)
           picked == {k \in rows : row[k].status = "PICKED"}
<1>1. /\ unit' = Restored(picked) /\ row' = Removed(row, rows)
      /\ demandPicked' = Without(demandPicked, b, Orders)
  BY DEF VoidRelease
<1>2. ASSUME NEW k \in Units
      PROVE  /\ row'[k].status = IF k \in rows THEN "REMOVED" ELSE row[k].status
             /\ row'[k].basket = row[k].basket
             /\ k \notin rows => unit'[k] = unit[k]
  <2>1. row[k] \in RowRecord
    BY TypeParts DEF StockType
  <2>2. row'[k] = IF k \in rows THEN [row[k] EXCEPT !.status = "REMOVED"] ELSE row[k]
    BY <1>1 DEF Removed
  <2>3. k \notin rows => unit'[k] = unit[k]
    BY <1>1 DEF Restored
  <2> HIDE DEF rows
  <2> QED BY <2>1, <2>2, <2>3 DEF RowRecord
<1>3. RowsInv'
  BY <1>2 DEF CountInv, RowsInv, HasRow, RowsIn
<1>4. \A c \in Baskets : RowsIn(c)' = IF c = b THEN {} ELSE RowsIn(c)
  BY <1>2 DEF RowsIn, HasRow
<1>5. demandPicked' = [d \in Baskets \X Orders |-> IF d[1] = b /\ d[2] \in Orders THEN 0 ELSE demandPicked[d]]
  BY <1>1 DEF Without, TypeOK
<1> HIDE DEF rows, picked, b
<1>6. ASSUME NEW c \in Baskets  PROVE Total(c)' <= Cardinality(RowsIn(c)')
  <2> DEFINE f == [p \in Orders |-> demandPicked[<<c, p>>]]
             g == [p \in Orders |-> demandPicked'[<<c, p>>]]
  <2>1. \A p \in Orders : g[p] = IF c = b THEN 0 ELSE f[p]
    BY <1>5
  <2>2. Total(c) = SumFunctionOnSet(f, Orders) /\ Total(c)' = SumFunctionOnSet(g, Orders)
    BY DEF Total, Counted
  <2>3. \A p \in Orders : demandPicked[<<c, p>>] \in Nat
    BY DEF TypeOK
  <2>4. \A p \in Orders : f[p] \in Int
    BY <2>3
  <2> HIDE DEF f, g
  <2>5. IntValued(f, Orders)
    BY <2>4 DEF IntValued
  <2>6. CASE c = b
    <3>1. SumFunctionOnSet(g, Orders) = 0
      BY <2>1, <2>6, Finite, SumZero
    <3>2. RowsIn(c)' = {}
      BY <1>4, <2>6
    <3> QED BY <2>2, <3>1, <3>2, FS_EmptySet
  <2>7. CASE c # b
    <3>1. \A p \in Orders : f[p] = g[p]
      BY <2>1, <2>7
    <3>2. SumFunctionOnSet(f, Orders) = SumFunctionOnSet(g, Orders)
      BY <2>5, <3>1, Finite, SumSame
    <3>3. RowsIn(c)' = RowsIn(c)
      BY <1>4, <2>7
    <3> QED BY <2>2, <3>2, <3>3 DEF CountInv
  <2> QED BY <2>6, <2>7
<1> QED BY <1>3, <1>6, CountKeeps

LEMMA PackCount ==
  ASSUME TypeOK, CountInv, [Next]_vars, demandPicked' = demandPicked, NEW k, NEW o,
         unit' = PackedUnits(k), row' = PackedRows(k, o), row[k].status = "PICKED"
  PROVE  CountInv'
<1>1. \A j \in Units : HasRow(j)' = HasRow(j) /\ row'[j].basket = row[j].basket
  BY DEF PackedRows, HasRow
<1>2. RowsInv'
  BY <1>1 DEF CountInv, RowsInv, PackedUnits
<1>3. \A b \in Baskets : RowsIn(b)' = RowsIn(b)
  BY <1>1 DEF RowsIn
<1> QED BY <1>2, <1>3, SameCount

LEMMA CountStep ==
  ASSUME TypeOK, CountInv, [Next]_vars, Ops \cap {"complete", "packVoid", "move"} = {}
  PROVE  CountInv'
<1>1. ASSUME UNCHANGED <<unit, row, demandPicked>>  PROVE CountInv'
  <2>1. RowsInv' /\ \A b \in Baskets : RowsIn(b)' = RowsIn(b)
    BY <1>1 DEF CountInv, RowsInv, RowsIn, HasRow
  <2> QED BY <1>1, <2>1, SameCount
<1>2. ASSUME NEW r \in Requests, CompleteCommit(r) \/ \E n \in Bins : MoveCommit(r, n)  PROVE FALSE
  <2>1. req[r].op \notin {"complete", "move"}
    BY BasketAssumption DEF CountInv, BasketAssumption
  <2> QED BY <1>2, <2>1 DEF CompleteCommit, MoveCommit
<1>3. ASSUME NEW u, NEW b, NEW os, PackVoid(u, b, os)  PROVE FALSE
  BY <1>3 DEF PackVoid
<1>4. \A b : OrphansIn(b) = {}
  BY DEF CountInv, RowsInv, OrphansIn, RowsIn
<1>5. StockShape
  BY TypeParts DEF StockType, StockShape, UnitRecord, RowRecord
<1>6. ASSUME NEW r \in Requests, WaybillCommit(r)  PROVE CountInv'
  <2>1. row' = Removed(row, {}) /\ UNCHANGED <<unit, demandPicked>>
    BY <1>4, <1>6 DEF WaybillCommit, demands
  <2>2. row' = row
    BY <2>1 DEF Removed, TypeOK
  <2> QED BY <1>1, <2>1, <2>2
<1>7. ASSUME NEW u, NEW b, NEW o, NEW k, PackScan(u, b, o, k)  PROVE CountInv'
  <2>1. unit' = PackedUnits(k) /\ row' = PackedRows(k, o)
    BY <1>5, <1>7, PackedTablesFlat, Zenon DEF PackScan, Packs
  <2>2. row[k].status = "PICKED" /\ demandPicked' = demandPicked
    BY <1>7 DEF PackScan, demands
  <2> QED BY <2>1, <2>2, PackCount
<1>8. ASSUME NEW r \in Requests, LegacyScanCommit(r)  PROVE CountInv'
  <2> DEFINE k == req[r].unit
  <2>1. PICK o : row' = Removed([row EXCEPT ![k].status = "PACKED", ![k].order = o], {})
    BY <1>4, <1>8 DEF LegacyScanCommit
  <2>2. /\ unit' = [unit EXCEPT ![k].status = "PACKED"] /\ row[k].status = "PICKED"
        /\ demandPicked' = demandPicked
    BY <1>8 DEF LegacyScanCommit, demands
  <2> HIDE DEF k
  <2>3. unit' = PackedUnits(k) /\ row' = Removed(PackedRows(k, o), {})
    BY <1>5, <2>1, <2>2, PackedTablesFlat, Zenon
  <2>4. Removed(PackedRows(k, o), {}) = PackedRows(k, o)
    BY DEF Removed, PackedRows
  <2>5. row' = PackedRows(k, o)
    BY <2>3, <2>4, Zenon
  <2> QED BY <2>2, <2>3, <2>5, PackCount
<1>9. CASE Picking
  BY <1>1, <1>9, AssignCount, ScanCount, VoidCount
  DEF Picking, ScanRead, HandoffRead, HandoffCommit, VoidRead, VoidRepair, stock, demands
<1>10. CASE Upkeep
  BY <1>1, <1>2, <1>10 DEF Upkeep, QueueRead, QueueWrite, MoveRead, PosUpdate, Abandon, stock, demands
<1>11. CASE Packing
  BY <1>1, <1>2, <1>3, <1>6, <1>7, <1>8, <1>11
  DEF Packing, WaybillRead, StartRead, StartCommit, LegacyScanRead, CompleteRead, stock, demands
<1>12. CASE UNCHANGED vars
  BY <1>1, <1>12 DEF vars, stock, demands
<1> QED BY <1>9, <1>10, <1>11, <1>12 DEF Next

LEMMA CountInit ==
  ASSUME Init
  PROVE  CountInv
<1>1. demandPicked = [c \in Baskets \X Orders |-> 0]
  BY DEF Init
<1>2. row = [k \in Units |-> [status |-> "none", basket |-> NONE, order |-> NONE, source |-> NONE]]
  BY DEF Init
<1>3. \A k \in Units : row[k].status = "none"
  BY <1>2
<1>4. ASSUME NEW b \in Baskets  PROVE Total(b) <= Cardinality(RowsIn(b))
  <2> DEFINE f == [o \in Orders |-> demandPicked[<<b, o>>]]
  <2>1. \A o \in Orders : f[o] = 0
    BY <1>1
  <2> HIDE DEF f
  <2>2. SumFunctionOnSet(f, Orders) = 0
    BY <2>1, Finite, SumZero
  <2>3. RowsIn(b) = {}
    BY <1>3 DEF RowsIn, HasRow
  <2> QED BY <2>2, <2>3, FS_EmptySet DEF Total, Counted, f
<1>5. \A r \in Requests : req[r].op = "idle"
  BY DEF Init, Idle
<1>6. RowsInv
  BY <1>3 DEF RowsInv, HasRow
<1> QED BY <1>4, <1>5, <1>6 DEF CountInv

LEMMA CountedPart ==
  ASSUME TypeOK, CountInv
  PROVE  CountedUnitsAreThere
<1>1. ASSUME NEW b \in Baskets
      PROVE  Counted(b, InBasket(b, order, ActiveOrder)) <= Cardinality(RowsIn(b))
  <2> DEFINE f == [o \in Orders |-> demandPicked[<<b, o>>]]
             S == InBasket(b, order, ActiveOrder)
             R == RowsIn(b)
  <2>1. IsFiniteSet(Orders) /\ NatValued(f, Orders) /\ IntValued(f, Orders)
    BY TypeParts, CountNumbers
  <2>2. S \subseteq Orders /\ R \in SUBSET Units
    BY DEF InBasket, RowsIn
  <2>3. Total(b) = SumFunctionOnSet(f, Orders) /\ Counted(b, S) = SumFunctionOnSet(f, S)
    BY DEF Total, Counted
  <2>4. Total(b) <= Cardinality(R)
    BY DEF CountInv
  <2> HIDE DEF f, S, R
  <2>5. SumFunctionOnSet(f, S) <= SumFunctionOnSet(f, Orders)
    BY <2>1, <2>2, SumPart
  <2>6. IntValued(f, S) /\ IsFiniteSet(S)
    BY <2>1, <2>2, FS_Subset DEF IntValued
  <2>7. SumFunctionOnSet(f, S) \in Int /\ SumFunctionOnSet(f, Orders) \in Int /\ Cardinality(R) \in Nat
    BY <2>1, <2>2, <2>6, SumInt, UnitCount
  <2>8. Counted(b, S) <= Cardinality(R)
    BY <2>3, <2>4, <2>5, <2>7
  <2> QED BY <2>8 DEF S, R
<1> QED BY <1>1 DEF CountedUnitsAreThere

\* A void, its later repair of orders that may be in another picker's basket by
\* then, and scans that were under way leave no phantom units: what the open orders
\* of a basket count as picked lies in it (VoidRelease, VoidRepair, ScanCommit), for
\* any number of orders, baskets and handlers in flight, as long as no order is
\* completed, no pack work voided and no unit moved between bins.
THEOREM NoPhantomUnits ==
  ASSUME Ops \cap {"complete", "packVoid", "move"} = {}
  PROVE  Spec => []CountedUnitsAreThere
<1>1. Init => TypeOK /\ CountInv
  BY TypeInit, CountInit
<1>2. TypeOK /\ CountInv /\ [Next]_vars => (TypeOK /\ CountInv)'
  BY TypeStep, CountStep
<1>3. TypeOK /\ CountInv => CountedUnitsAreThere
  BY CountedPart
<1> QED BY <1>1, <1>2, <1>3, PTL DEF Spec
=============================================================================
