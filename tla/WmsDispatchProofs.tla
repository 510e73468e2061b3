--------------------------- MODULE WmsDispatchProofs ---------------------------
(***************************************************************************)
(* Theorems of WmsDispatch, for any orders, units, quantities and requests. *)
(***************************************************************************)
EXTENDS WmsDispatch, SumTheorems, FiniteSetTheorems, TLAPS

\* A unit whose PACKED row may still be removed leaves room for its count.
RowBound == \A k \in Units, o \in Orders : packedFor[k] = o => past[o][k] < MaxPacks

TypeInv == TypeOK /\ RowBound

-----------------------------------------------------------------------------
(* The steps: reads and refusals, which change req alone, and the others.   *)

\* The variables but req.
others == <<order, held, pos, disposed, unit, rows, recorded, history>>

Reads(r) ==
    \/ \E os \in SUBSET Orders : SyncRead(r, os)
    \/ \E o \in Orders : \/ StartRead(r, o) \/ CompleteRead(r, o) \/ CancelRead(r, o)
                         \/ VoidRead(r, o) \/ RepairRead(r, o)
    \/ \E o \in Orders, k \in Units :
          \/ ScanRead(r, k, o) \/ VerifyRead(r, o, k)
          \/ \E to \in Dispositions : DisposeRead(r, o, k, to)
    \/ ScanRefused(r) \/ VoidRefused(r) \/ RecordLost(r)

Writes(r) ==
    \/ StartWrite(r) \/ CompleteWrite(r) \/ CancelWrite(r) \/ SyncWrite(r) \/ VoidWrite(r)
    \/ RepairWrite(r) \/ VerifyWrite(r) \/ DisposeWrite(r) \/ Record(r)
    \/ \E k \in Units : ScanWrite(r, k)

Acts ==
    \/ \E k \in Units : Pick(k)
    \/ \E o \in Orders : Assign(o) \/ HandOff(o) \/ PackVoid(o)
    \/ \E o \in Orders, s \in PosStatus : PosUpdate(o, s)
    \/ \E r \in Requests : Writes(r)

LEMMA NextCases == [Next]_vars => UNCHANGED vars \/ (\E r \in Requests : Reads(r)) \/ Acts
  <1> SUFFICES ASSUME Next PROVE (\E r \in Requests : Reads(r)) \/ Acts
    OBVIOUS
  <1>1. \A os \in {Orders} \cup {{o} : o \in Orders} : os \in SUBSET Orders
    OBVIOUS
  <1>2. ASSUME NEW r \in Requests,
               \/ \E os \in {Orders} \cup {{o} : o \in Orders} : SyncRead(r, os)
               \/ StartWrite(r) \/ ScanRefused(r) \/ CompleteWrite(r) \/ CancelWrite(r)
               \/ SyncWrite(r) \/ VoidWrite(r) \/ VoidRefused(r) \/ RepairWrite(r)
               \/ VerifyWrite(r) \/ DisposeWrite(r) \/ Record(r) \/ RecordLost(r)
               \/ \E k \in Units : ScanWrite(r, k)
               \/ \E o \in Orders :
                     \/ StartRead(r, o) \/ CompleteRead(r, o) \/ CancelRead(r, o)
                     \/ VoidRead(r, o) \/ RepairRead(r, o)
               \/ \E o \in Orders, k \in Units :
                     \/ ScanRead(r, k, o) \/ VerifyRead(r, o, k)
                     \/ \E to \in Dispositions : DisposeRead(r, o, k, to)
        PROVE  Reads(r) \/ Writes(r)
    BY <1>1, <1>2 DEF Reads, Writes
  <1> QED BY <1>2 DEF Next, Acts

LEMMA ReadsChangeReq ==
    ASSUME NEW r \in Requests, Reads(r)
    PROVE  UNCHANGED others
  BY DEF Reads, SyncRead, StartRead, CompleteRead, CancelRead, VoidRead, RepairRead, ScanRead,
         VerifyRead, DisposeRead, ScanRefused, VoidRefused, RecordLost, others

\* A step is one of Acts, or leaves all but req.
LEMMA StepOf == [Next]_vars => UNCHANGED others \/ Acts
  BY NextCases, ReadsChangeReq DEF vars, others

-----------------------------------------------------------------------------
(* Types.                                                                   *)

\* Starting and ending a handler keeps req typed.
LEMMA BeginType ==
    ASSUME req \in [Requests -> Request], NEW r \in Requests, NEW q \in Request, Begin(r, q)
    PROVE  req' \in [Requests -> Request]
  BY DEF Begin

LEMMA HavingType ==
    ASSUME NEW S \in SUBSET Units
    PROVE  /\ \A op \in {"idle", "sync"} : Having(op, NONE, S, NONE) \in Request
           /\ \A op \in {"start", "scan", "complete", "verify", "record", "repair"}, o \in Orders,
                 to \in {"READY", NONE} : Having(op, o, S, to) \in Request
           /\ \A op \in {"cancel", "void"}, o \in Orders, R \in SUBSET Units,
                 to \in {"READY", "CANCELED", NONE} :
                    [Having(op, o, S, to) EXCEPT !.rows = R] \in Request
           /\ \A o \in Orders, to \in Dispositions : Having("dispose", o, S, to) \in Request
  BY DispatchAssumption DEF Having, Request

LEMMA IdleType == Idle \in Request
  BY HavingType DEF Idle

LEMMA EndType ==
    ASSUME req \in [Requests -> Request], NEW r \in Requests, End(r)
    PROVE  req' \in [Requests -> Request]
  BY IdleType DEF End

\* The scans whose row is gone end.
LEMMA WithoutType ==
    ASSUME NEW rs \in [Requests -> Request], NEW S
    PROVE  /\ WithoutScansOf(S, rs) \in [Requests -> Request]
           /\ \A r \in Requests : /\ WithoutScansOf(S, rs)[r] \in {rs[r], Idle}
                                  /\ WithoutScansOf(S, rs)[r].op = "scan" =>
                                        WithoutScansOf(S, rs)[r] = rs[r] /\ rs[r].units \cap S = {}
  <1>1. ASSUME NEW r \in Requests
        PROVE  WithoutScansOf(S, rs)[r] =
                  IF rs[r].op = "scan" /\ rs[r].units \cap S # {} THEN Idle ELSE rs[r]
    BY DEF WithoutScansOf
  <1>2. Idle.op = "idle"
    BY DEF Idle, Having
  <1>3. \A r \in Requests : /\ WithoutScansOf(S, rs)[r] \in {rs[r], Idle}
                            /\ WithoutScansOf(S, rs)[r].op = "scan" =>
                                  WithoutScansOf(S, rs)[r] = rs[r] /\ rs[r].units \cap S = {}
    BY <1>1, <1>2
  <1>4. WithoutScansOf(S, rs) \in [Requests -> Request]
    BY IdleType DEF WithoutScansOf
  <1> QED BY <1>3, <1>4

\* Removing rows keeps the counts in their bound, and what is tracked.
LEMMA RemoveType ==
    ASSUME TypeInv, NEW S \in SUBSET Units, RemoveRows(S)
    PROVE  /\ packedFor' \in [Units -> Orders \cup {NONE}]
           /\ past' \in [Orders -> [Units -> 0 .. MaxPacks]]
           /\ RowBound'
  <1> USE DispatchAssumption
  <1>1. packedFor' \in [Units -> Orders \cup {NONE}]
    BY DEF TypeInv, TypeOK, RemoveRows
  <1>2. ASSUME NEW o \in Orders, NEW k \in Units
        PROVE  /\ past'[o][k] = IF k \in S /\ packedFor[k] = o THEN past[o][k] + 1 ELSE past[o][k]
               /\ past'[o][k] \in 0 .. MaxPacks
               /\ packedFor'[k] = o => past'[o][k] < MaxPacks
    <2>1. past[o][k] \in 0 .. MaxPacks /\ (packedFor[k] = o => past[o][k] < MaxPacks)
      BY DEF TypeInv, TypeOK, RowBound
    <2>2. past'[o][k] = IF k \in S /\ packedFor[k] = o THEN past[o][k] + 1 ELSE past[o][k]
      BY DEF RemoveRows
    <2>3. packedFor'[k] = o => k \notin S /\ packedFor[k] = o
      BY DEF RemoveRows
    <2> QED BY <2>1, <2>2, <2>3
  <1>3. past' \in [Orders -> [Units -> 0 .. MaxPacks]]
    <2>1. past' = [o \in Orders |-> [k \in Units |->
                     IF k \in S /\ packedFor[k] = o THEN past[o][k] + 1 ELSE past[o][k]]]
      BY DEF RemoveRows
    <2>2. \A o \in Orders, k \in Units :
             (IF k \in S /\ packedFor[k] = o THEN past[o][k] + 1 ELSE past[o][k]) \in 0 .. MaxPacks
      BY <1>2
    <2> QED BY <2>1, <2>2
  <1>4. RowBound'
    BY <1>2 DEF RowBound
  <1> QED BY <1>1, <1>3, <1>4

LEMMA RestoredType ==
    ASSUME TypeOK, NEW S
    PROVE  Restored(S) \in [Units -> UnitStatus]
  BY DEF TypeOK, Restored, UnitStatus

LEMMA ReopenType ==
    ASSUME TypeOK, NEW o, Reopen(o)
    PROVE  order' \in [Orders -> OrderStatus] /\ held' \subseteq Orders
  BY DEF TypeOK, Reopen, OrderStatus

\* An order's status and its basketId.
LEMMA SetType ==
    ASSUME TypeOK, NEW o, NEW s \in OrderStatus, order' = [order EXCEPT ![o] = s],
           held' = held \/ held' = held \ {o}
    PROVE  order' \in [Orders -> OrderStatus] /\ held' \subseteq Orders
  BY DEF TypeOK

LEMMA LateType ==
    ASSUME TypeOK, NEW o \in Orders, NEW b, NotedUnless(b, o)
    PROVE  late' \subseteq Orders /\ late \subseteq late'
  BY DEF TypeOK, NotedUnless

LEMMA SameOthers ==
    ASSUME TypeInv, UNCHANGED others, req' \in [Requests -> Request]
    PROVE  TypeInv'
  BY DEF TypeInv, TypeOK, RowBound, others, rows, history

LEMMA InitType == Init => TypeInv
  <1> SUFFICES ASSUME Init PROVE TypeInv
    OBVIOUS
  <1> USE DispatchAssumption
  <1>1. req \in [Requests -> Request]
    BY IdleType DEF Init
  <1>2. TypeOK
    BY <1>1 DEF Init, TypeOK, OrderStatus, PosStatus, UnitStatus
  <1>3. RowBound
    BY DEF Init, RowBound
  <1> QED BY <1>2, <1>3 DEF TypeInv

\* A write acts on an order and units of the model.
LEMMA HeldType ==
    ASSUME TypeOK, NEW r \in Requests
    PROVE  /\ req[r] \in Request /\ req[r].units \in SUBSET Units /\ req[r].rows \in SUBSET Units
           /\ req[r].op \notin {"idle", "sync"} => req[r].order \in Orders
  BY DEF TypeOK, Request

LEMMA PackingType ==
    ASSUME TypeInv,
           \/ \E k \in Units : Pick(k)
           \/ \E o \in Orders : Assign(o) \/ HandOff(o) \/ PackVoid(o)
           \/ \E o \in Orders, s \in PosStatus : PosUpdate(o, s)
    PROVE  TypeInv'
  <1> USE DispatchAssumption
  <1>0. TypeOK
    BY DEF TypeInv
  <1>1. ASSUME NEW k \in Units, Pick(k) PROVE TypeInv'
    BY <1>0, <1>1 DEF Pick, TypeInv, TypeOK, RowBound, history, UnitStatus
  <1>2. ASSUME NEW o \in Orders, Assign(o) PROVE TypeInv'
    BY <1>0, <1>2 DEF Assign, TypeInv, TypeOK, RowBound, rows, history
  <1>3. ASSUME NEW o \in Orders, HandOff(o) PROVE TypeInv'
    BY <1>0, <1>3 DEF HandOff, TypeInv, TypeOK, RowBound, rows, history, OrderStatus
  <1>4. ASSUME NEW o \in Orders, PackVoid(o) PROVE TypeInv'
    <2>1. RemoveRows(PackedRows(o)) /\ PackedRows(o) \in SUBSET Units
      BY <1>4 DEF PackVoid, PackedRows
    <2>2. /\ packedFor' \in [Units -> Orders \cup {NONE}]
          /\ past' \in [Orders -> [Units -> 0 .. MaxPacks]]
          /\ RowBound'
      BY <2>1, RemoveType
    <2>3. PICK released \in SUBSET loose :
             /\ unit' = Restored(PackedRows(o) \cup released) /\ loose' = loose \ released
             /\ req' = WithoutScansOf(released, req)
      BY <1>4 DEF PackVoid
    <2>4. unit' \in [Units -> UnitStatus] /\ loose' \subseteq Units
      BY <1>0, <2>3, RestoredType DEF TypeOK
    <2>5. req' \in [Requests -> Request]
      BY <1>0, <2>3, WithoutType DEF TypeOK
    <2>6. order' \in [Orders -> OrderStatus] /\ held' \subseteq Orders
      BY <1>0, <1>4, SetType DEF PackVoid, OrderStatus
    <2>7. UNCHANGED <<pos, disposed, recorded, late>> /\ voided' = voided \cup {o}
      BY <1>4 DEF PackVoid
    <2> QED BY <1>0, <2>2, <2>4, <2>5, <2>6, <2>7 DEF TypeInv, TypeOK
  <1>5. ASSUME NEW o \in Orders, NEW s \in PosStatus, PosUpdate(o, s) PROVE TypeInv'
    BY <1>0, <1>5 DEF PosUpdate, TypeInv, TypeOK, RowBound, rows, history
  <1> QED BY <1>1, <1>2, <1>3, <1>4, <1>5

LEMMA ReadsType ==
    ASSUME TypeInv, NEW r \in Requests, Reads(r)
    PROVE  TypeInv'
  <1>0. req \in [Requests -> Request]
    BY DEF TypeInv, TypeOK
  <1>1. UNCHANGED others
    BY ReadsChangeReq
  <1>2. (\E q \in Request : Begin(r, q)) \/ End(r)
    <2> DEFINE Goal == (\E q \in Request : Begin(r, q)) \/ End(r)
    <2> SUFFICES Goal
      OBVIOUS
    <2>1. ASSUME NEW os, SyncRead(r, os) PROVE Goal
      BY <2>1, HavingType DEF SyncRead
    <2>2. ASSUME NEW o \in Orders, VoidRead(r, o) PROVE Goal
      <3>1. Tracked(o) \in SUBSET Units /\ PackedRows(o) \in SUBSET Units
        BY DEF Tracked, PackedRows
      <3> QED BY <2>2, <3>1, HavingType DEF VoidRead
    <2>3. ASSUME NEW o \in Orders, CancelRead(r, o) PROVE Goal
      <3>1. PackedRows(o) \in SUBSET Units
        BY DEF PackedRows
      <3>2. (IF o \in held THEN {k \in PackedRows(o) : unit[k] = "PACKED"} ELSE {}) \in SUBSET Units
        BY <3>1
      <3> QED BY <2>3, <3>1, <3>2, HavingType DEF CancelRead
    <2>4. ASSUME NEW o \in Orders, StartRead(r, o) \/ CompleteRead(r, o) \/ RepairRead(r, o) PROVE Goal
      BY <2>4, HavingType DEF StartRead, CompleteRead, RepairRead
    <2>5. ASSUME NEW o \in Orders, NEW k \in Units, ScanRead(r, k, o) \/ VerifyRead(r, o, k) PROVE Goal
      <3>1. {k} \in SUBSET Units
        OBVIOUS
      <3> QED BY <2>5, <3>1, HavingType DEF ScanRead, VerifyRead
    <2>6. ASSUME NEW o \in Orders, NEW k \in Units, NEW to \in Dispositions, DisposeRead(r, o, k, to)
          PROVE  Goal
      <3>1. {k} \in SUBSET Units
        OBVIOUS
      <3> QED BY <2>6, <3>1, HavingType DEF DisposeRead
    <2>7. ASSUME ScanRefused(r) \/ VoidRefused(r) \/ RecordLost(r) PROVE Goal
      BY <2>7 DEF ScanRefused, VoidRefused, RecordLost
    <2> HIDE DEF Goal
    <2> QED BY <2>1, <2>2, <2>3, <2>4, <2>5, <2>6, <2>7 DEF Reads
  <1>3. req' \in [Requests -> Request]
    BY <1>0, <1>2, BeginType, EndType
  <1> QED BY <1>1, <1>3, SameOthers

LEMMA WritesType ==
    ASSUME TypeInv, NEW r \in Requests, Writes(r)
    PROVE  TypeInv'
  <1> USE DispatchAssumption
  <1>0. TypeOK /\ RowBound /\ req \in [Requests -> Request]
    BY DEF TypeInv, TypeOK
  <1>1. CASE SyncWrite(r)
    <2>1. req' \in [Requests -> Request]
      BY <1>0, <1>1, EndType DEF SyncWrite
    <2> QED BY <1>0, <1>1, <2>1 DEF SyncWrite, TypeInv, TypeOK, RowBound, rows, history, UnitStatus
  <1>2. CASE VoidWrite(r)
    <2>1. req' \in [Requests -> Request]
      BY <1>0, <1>2, EndType DEF VoidWrite
    <2>2. unit' \in [Units -> UnitStatus]
      BY <1>0, <1>2, RestoredType DEF VoidWrite
    <2>3. order' \in [Orders -> OrderStatus] /\ held' \subseteq Orders
      <3>1. ASSUME Reopen(req[r].order) PROVE order' \in [Orders -> OrderStatus] /\ held' \subseteq Orders
        BY <1>0, <3>1, ReopenType
      <3>2. "CANCELED" \in OrderStatus
        BY DEF OrderStatus
      <3> QED BY <1>0, <1>2, <3>1, <3>2, SetType DEF VoidWrite
    <2>4. /\ packedFor' \in [Units -> Orders \cup {NONE}]
          /\ past' \in [Orders -> [Units -> 0 .. MaxPacks]]
          /\ RowBound'
      BY <1>0, <1>2, RemoveType, HeldType DEF VoidWrite
    <2>5. UNCHANGED <<pos, disposed, loose, recorded, late>>
      BY <1>2 DEF VoidWrite
    <2>6. voided' \subseteq Orders
      BY <1>0, <1>2, HeldType DEF VoidWrite, TypeOK
    <2> QED BY <1>0, <2>1, <2>2, <2>3, <2>4, <2>5, <2>6 DEF TypeInv, TypeOK
  <1>3. CASE StartWrite(r)
    <2>1. req' \in [Requests -> Request]
      BY <1>0, <1>3, EndType DEF StartWrite
    <2>2. order' \in [Orders -> OrderStatus] /\ held' \subseteq Orders
      BY <1>0, <1>3, SetType DEF StartWrite, OrderStatus
    <2>3. late' \subseteq Orders
      BY <1>0, <1>3, HeldType, LateType DEF StartWrite
    <2>4. UNCHANGED <<pos, disposed, unit, loose, packedFor, past, recorded, voided>>
      BY <1>3 DEF StartWrite, rows
    <2> QED BY <1>0, <2>1, <2>2, <2>3, <2>4 DEF TypeInv, TypeOK, RowBound
  <1>4. CASE RepairWrite(r)
    <2>1. req' \in [Requests -> Request]
      BY <1>0, <1>4, EndType DEF RepairWrite
    <2>2. order' \in [Orders -> OrderStatus] /\ held' \subseteq Orders
      BY <1>0, <1>4, ReopenType DEF RepairWrite
    <2>3. UNCHANGED <<pos, disposed, unit, loose, packedFor, past, recorded, late>>
      BY <1>4 DEF RepairWrite, rows
    <2>4. voided' \subseteq Orders
      BY <1>0, <1>4, HeldType DEF RepairWrite, TypeOK
    <2> QED BY <1>0, <2>1, <2>2, <2>3, <2>4 DEF TypeInv, TypeOK, RowBound
  <1>5. CASE VerifyWrite(r)
    <2>1. req' \in [Requests -> Request]
      BY <1>0, <1>5, EndType DEF VerifyWrite
    <2> QED BY <1>0, <1>5, <2>1 DEF VerifyWrite, TypeInv, TypeOK, RowBound, rows, history, UnitStatus
  <1>6. CASE DisposeWrite(r)
    <2>1. req[r].units \in SUBSET Units /\ req[r].to \in UnitStatus
      BY <1>0, <1>6 DEF DisposeWrite, Request, UnitStatus
    <2>2. /\ packedFor' \in [Units -> Orders \cup {NONE}]
          /\ past' \in [Orders -> [Units -> 0 .. MaxPacks]]
          /\ RowBound'
      BY <1>6, <2>1, RemoveType DEF DisposeWrite
    <2>3. unit' \in [Units -> UnitStatus]
      BY <1>0, <1>6, <2>1 DEF DisposeWrite, TypeOK
    <2>4. loose' \subseteq Units
      BY <1>0, <1>6 DEF DisposeWrite, TypeOK
    <2>5. disposed' \in [Orders -> BOOLEAN]
      <3>1. \A o, status : ReturnComplete(o, status) \in BOOLEAN
        BY DEF ReturnComplete
      <3>2. PICK status : disposed' = [disposed EXCEPT ![req[r].order] = ReturnComplete(req[r].order, status)]
        BY <1>6 DEF DisposeWrite
      <3>3. ReturnComplete(req[r].order, status) \in BOOLEAN
        BY DEF ReturnComplete
      <3> QED BY <1>0, <3>2, <3>3 DEF TypeOK
    <2>6. req' \in [Requests -> Request]
      <3>1. Having("record", req[r].order, req[r].units, NONE) \in Request
        BY <1>0, <1>6, <2>1, HeldType, HavingType DEF DisposeWrite
      <3> DEFINE rs == [req EXCEPT ![r] = Having("record", req[r].order, req[r].units, NONE)]
      <3>2. rs \in [Requests -> Request] /\ req' = WithoutScansOf(req[r].units, rs)
        BY <1>0, <1>6, <3>1 DEF DisposeWrite
      <3> HIDE DEF rs
      <3> QED BY <3>2, WithoutType
    <2>7. UNCHANGED <<order, held, pos, recorded, voided, late>>
      BY <1>6 DEF DisposeWrite, history
    <2> QED BY <1>0, <2>2, <2>3, <2>4, <2>5, <2>6, <2>7 DEF TypeInv, TypeOK
  <1>7. CASE Record(r)
    <2>1. req' \in [Requests -> Request]
      BY <1>0, <1>7, EndType DEF Record
    <2>2. recorded' \in [Orders -> SUBSET Units]
      BY <1>0, <1>7, HeldType DEF Record, TypeOK
    <2>3. UNCHANGED <<order, held, pos, disposed, unit, loose, packedFor, past, voided, late>>
      BY <1>7 DEF Record, rows, history
    <2> QED BY <1>0, <2>1, <2>2, <2>3 DEF TypeInv, TypeOK, RowBound
  <1>8. CASE CompleteWrite(r)
    <2>1. req' \in [Requests -> Request]
      BY <1>0, <1>8, EndType DEF CompleteWrite
    <2>2. order' \in [Orders -> OrderStatus] /\ held' \subseteq Orders
      BY <1>0, <1>8, SetType DEF CompleteWrite, OrderStatus
    <2>3. late' \subseteq Orders
      BY <1>0, <1>8, HeldType, LateType DEF CompleteWrite
    <2>4. /\ packedFor' \in [Units -> Orders \cup {NONE}]
          /\ past' \in [Orders -> [Units -> 0 .. MaxPacks]]
          /\ RowBound'
      <3>1. PackedRows(req[r].order) \in SUBSET Units
        BY DEF PackedRows
      <3> QED BY <1>8, <3>1, RemoveType DEF CompleteWrite
    <2>5. UNCHANGED <<pos, disposed, unit, loose, recorded, voided>>
      BY <1>8 DEF CompleteWrite
    <2> QED BY <1>0, <2>1, <2>2, <2>3, <2>4, <2>5 DEF TypeInv, TypeOK
  <1>9. CASE CancelWrite(r)
    <2>1. req' \in [Requests -> Request]
      BY <1>0, <1>9, EndType DEF CancelWrite
    <2>2. order' \in [Orders -> OrderStatus] /\ held' \subseteq Orders
      BY <1>0, <1>9, SetType DEF CancelWrite, OrderStatus
    <2>3. unit' \in [Units -> UnitStatus]
      BY <1>0, <1>9, RestoredType DEF CancelWrite
    <2>4. /\ packedFor' \in [Units -> Orders \cup {NONE}]
          /\ past' \in [Orders -> [Units -> 0 .. MaxPacks]]
          /\ RowBound'
      <3>1. {k \in req[r].rows : packedFor[k] = req[r].order} \in SUBSET Units
        BY <1>0, HeldType
      <3> QED BY <1>9, <3>1, RemoveType DEF CancelWrite
    <2>5. UNCHANGED <<pos, disposed, loose, recorded, voided, late>>
      BY <1>9 DEF CancelWrite, history
    <2> QED BY <1>0, <2>1, <2>2, <2>3, <2>4, <2>5 DEF TypeInv, TypeOK
  <1>10. ASSUME NEW k \in Units, ScanWrite(r, k) PROVE TypeInv'
    <2>1. req[r].order \in Orders
      BY <1>0, <1>10, HeldType DEF ScanWrite
    <2>2. /\ unit' = [unit EXCEPT ![k] = "PACKED"] /\ loose' = loose \ {k}
          /\ packedFor' = [packedFor EXCEPT ![k] = req[r].order] /\ past[req[r].order][k] < MaxPacks
          /\ UNCHANGED <<order, held, pos, disposed, past, recorded, voided>>
          /\ req' = WithoutScansOf({k}, req)
      BY <1>10 DEF ScanWrite
    <2>3. req' \in [Requests -> Request]
      BY <1>0, <2>2, WithoutType
    <2>4. late' \subseteq Orders
      BY <1>0, <1>10, <2>1, LateType DEF ScanWrite
    <2>5. TypeOK'
      BY <1>0, <2>1, <2>2, <2>3, <2>4 DEF TypeOK, UnitStatus
    <2>6. RowBound'
      BY <1>0, <2>1, <2>2 DEF TypeOK, RowBound
    <2> QED BY <2>5, <2>6 DEF TypeInv
  <1> QED BY <1>1, <1>2, <1>3, <1>4, <1>5, <1>6, <1>7, <1>8, <1>9, <1>10 DEF Writes

LEMMA StepType == TypeInv /\ [Next]_vars => TypeInv'
  <1> SUFFICES ASSUME TypeInv, [Next]_vars PROVE TypeInv'
    OBVIOUS
  <1>1. CASE UNCHANGED vars
    <2>1. UNCHANGED others /\ req' = req
      BY <1>1 DEF vars, others
    <2> QED BY <2>1, SameOthers DEF TypeInv, TypeOK
  <1>2. CASE Acts
    BY <1>2, PackingType, WritesType DEF Acts
  <1> QED BY <1>1, <1>2, NextCases, ReadsType

\* Every variable keeps its type, and a row count its bound.
THEOREM TypeCorrect == Spec => []TypeOK
  <1>1. TypeInv => TypeOK
    BY DEF TypeInv
  <1> QED BY InitType, StepType, <1>1, PTL DEF Spec

-----------------------------------------------------------------------------
(* What a step does: to a unit, its rows, an order, a request.               *)

\* No unit has two active rows, and one picked is not packed yet.
OneRow == \A k \in loose : packedFor[k] = NONE /\ unit[k] # "PACKED"

\* A scan's row is still there, and the rows of a void are of its units.
ReqRows ==
    \A r \in Requests : /\ req[r].op = "scan" => req[r].units \subseteq loose
                        /\ req[r].op = "void" => req[r].rows \subseteq req[r].units

\* An order on the bench is in the basket, a packed one is not.
HeldInv ==
    \A o \in Orders : /\ order[o] = "PACKED" => o \notin held
                      /\ order[o] \in {"PICKED", "PACKING"} => o \in held \/ o \in late

RowInv == TypeInv /\ OneRow /\ ReqRows /\ HeldInv

\* The unit is packed for the order.
Packs(k, o) == \E r \in Requests : ScanWrite(r, k) /\ req[r].order = o

LEMMA PacksDoes ==
    ASSUME RowInv, NEW k \in Units, NEW o, Packs(k, o)
    PROVE  /\ o \in Orders /\ k \in loose /\ packedFor[k] = NONE /\ unit[k] = "PICKED"
           /\ unit' = [unit EXCEPT ![k] = "PACKED"] /\ loose' = loose \ {k}
           /\ packedFor' = [packedFor EXCEPT ![k] = o] /\ past' = past
           /\ order' = order /\ held' = held /\ pos' = pos /\ disposed' = disposed
           /\ recorded' = recorded /\ voided' = voided /\ req' = WithoutScansOf({k}, req)
           /\ (InProgress(o) /\ LineOpen(o)) \/ o \in late'
           /\ \E r \in Requests : req[r].op = "scan" /\ req[r].order = o /\ req[r].units = {k}
  <1>1. PICK r \in Requests : ScanWrite(r, k) /\ req[r].order = o
    BY DEF Packs
  <1>2. req[r].op = "scan" /\ req[r].units = {k}
    BY <1>1 DEF ScanWrite
  <1>3. k \in loose /\ packedFor[k] = NONE
    BY <1>2 DEF RowInv, ReqRows, OneRow
  <1>4. o \in Orders
    BY <1>1, <1>2, HeldType DEF RowInv, TypeInv
  <1>5. /\ unit[k] = "PICKED" /\ unit' = [unit EXCEPT ![k] = "PACKED"] /\ loose' = loose \ {k}
        /\ packedFor' = [packedFor EXCEPT ![k] = o]
        /\ UNCHANGED <<order, held, pos, disposed, past, recorded, voided>>
        /\ req' = WithoutScansOf({k}, req)
        /\ NotedUnless(InProgress(o) /\ LineOpen(o), o)
    BY <1>1 DEF ScanWrite
  <1>6. (InProgress(o) /\ LineOpen(o)) \/ o \in late'
    BY <1>5 DEF NotedUnless
  <1> QED BY <1>1, <1>2, <1>3, <1>4, <1>5, <1>6

\* What a handler's write does to a unit it holds.
UnitWrite(r, k) ==
    \/ SyncWrite(r) /\ unit[k] = "PACKED" /\ unit'[k] = "DISPATCHED"
    \/ CancelWrite(r) /\ unit'[k] = "PUTAWAY"
    \/ VoidWrite(r) /\ unit'[k] = "PUTAWAY"
    \/ VerifyWrite(r) /\ unit'[k] = "RTS"
    \/ DisposeWrite(r) /\ unit'[k] = req[r].to

\* How a unit changes, and by whom.
UnitMove(k) ==
    \/ unit'[k] = unit[k]
    \/ unit[k] = "PUTAWAY" /\ unit'[k] = "PICKED"
    \/ unit'[k] = "PACKED" /\ \E o \in Orders : Packs(k, o)
    \/ unit[k] \in {"PICKED", "PUTAWAY"} /\ unit'[k] = "PUTAWAY"
    \/ unit'[k] = "PUTAWAY" /\ \E o \in Orders : packedFor[k] = o /\ PackVoid(o)
    \/ \E r \in Requests : k \in req[r].units /\ UnitWrite(r, k)

LEMMA StepUnits ==
    ASSUME RowInv, [Next]_vars
    PROVE  \A k \in Units : UnitMove(k)
  <1>0. TypeOK
    BY DEF RowInv, TypeInv
  <1> DEFINE Goal == \A k \in Units : UnitMove(k)
  <1> SUFFICES Goal
    OBVIOUS
  <1>1. ASSUME UNCHANGED unit PROVE Goal
    BY <1>1 DEF UnitMove
  <1>2. ASSUME NEW k \in Units, Pick(k) PROVE Goal
    BY <1>0, <1>2 DEF Pick, UnitMove, TypeOK
  <1>3. ASSUME NEW k \in Units, NEW r \in Requests, ScanWrite(r, k) PROVE Goal
    <2>1. Packs(k, req[r].order)
      BY <1>3 DEF Packs
    <2>2. unit' = [unit EXCEPT ![k] = "PACKED"] /\ req[r].order \in Orders
      BY <2>1, PacksDoes
    <2> QED BY <1>0, <2>1, <2>2 DEF UnitMove, TypeOK
  <1>4. ASSUME NEW o \in Orders, PackVoid(o) PROVE Goal
    <2>1. PICK released \in SUBSET loose :
             CanRestore(released, "PICKED") /\ unit' = Restored(PackedRows(o) \cup released)
      BY <1>4 DEF PackVoid
    <2>2. ASSUME NEW k \in Units PROVE UnitMove(k)
      <3>1. unit'[k] = IF k \in PackedRows(o) \cup released THEN "PUTAWAY" ELSE unit[k]
        BY <2>1 DEF Restored
      <3>2. k \in released => unit[k] \in {"PICKED", "PUTAWAY"}
        BY <2>1 DEF CanRestore
      <3>3. k \in PackedRows(o) => packedFor[k] = o
        BY DEF PackedRows
      <3> QED BY <1>4, <3>1, <3>2, <3>3 DEF UnitMove
    <2> QED BY <2>2
  <1>5. ASSUME NEW r \in Requests,
               SyncWrite(r) \/ CancelWrite(r) \/ VoidWrite(r) \/ VerifyWrite(r) \/ DisposeWrite(r)
        PROVE  Goal
    <2>1. ASSUME NEW k \in Units
          PROVE  unit'[k] = unit[k] \/ (k \in req[r].units /\ UnitWrite(r, k))
      <3>1. CASE SyncWrite(r)
        BY <3>1 DEF SyncWrite, UnitWrite
      <3>2. CASE VoidWrite(r)
        BY <3>2 DEF VoidWrite, Restored, UnitWrite
      <3>3. CASE VerifyWrite(r)
        BY <3>3 DEF VerifyWrite, UnitWrite
      <3>4. CASE DisposeWrite(r)
        BY <3>4 DEF DisposeWrite, UnitWrite
      <3>5. CASE CancelWrite(r)
        BY <3>5 DEF CancelWrite, Restored, UnitWrite
      <3> QED BY <1>5, <3>1, <3>2, <3>3, <3>4, <3>5
    <2> QED BY <2>1 DEF UnitMove
  <1> HIDE DEF Goal
  <1>6. ASSUME UNCHANGED others PROVE Goal
    BY <1>1, <1>6 DEF others
  <1>7. ASSUME NEW o \in Orders, Assign(o) \/ HandOff(o) PROVE Goal
    BY <1>1, <1>7 DEF Assign, HandOff
  <1>8. ASSUME NEW o \in Orders, NEW s \in PosStatus, PosUpdate(o, s) PROVE Goal
    BY <1>1, <1>8 DEF PosUpdate
  <1>9. ASSUME NEW r \in Requests, StartWrite(r) \/ CompleteWrite(r) \/ RepairWrite(r) \/ Record(r) PROVE Goal
    BY <1>1, <1>9 DEF StartWrite, CompleteWrite, RepairWrite, Record
  <1> QED BY <1>2, <1>3, <1>4, <1>5, <1>6, <1>7, <1>8, <1>9, StepOf DEF Acts, Writes

\* How the PACKED row of a unit changes: a unit that stays PACKED without it
\* belongs to an order that completes, or that is canceled.
RowMove(k) ==
    \/ packedFor'[k] = packedFor[k]
    \/ packedFor[k] = NONE /\ \E o \in Orders : Packs(k, o) /\ packedFor'[k] = o
    \/ packedFor'[k] = NONE /\ \E r \in Requests : /\ packedFor[k] = req[r].order
                                                   /\ CompleteWrite(r) \/ CancelWrite(r)
    \/ packedFor'[k] = NONE /\ unit'[k] # "PACKED"

\* What a REMOVED row may come from.
PastMove(o, k) ==
    \/ past'[o][k] = past[o][k]
    \/ packedFor[k] = o /\ PackVoid(o)
    \/ /\ packedFor[k] = o
       /\ \E r \in Requests : req[r].order = o /\ (CompleteWrite(r) \/ CancelWrite(r) \/ VoidWrite(r))
    \/ packedFor[k] = o /\ \E r \in Requests : DisposeWrite(r) /\ k \in req[r].units

LEMMA StepRows ==
    ASSUME RowInv, [Next]_vars
    PROVE  /\ \A k \in Units : RowMove(k)
           /\ \A o \in Orders, k \in Units : PastMove(o, k)
  <1> USE DispatchAssumption
  <1>0. TypeOK /\ OneRow /\ ReqRows
    BY DEF RowInv, TypeInv
  <1> DEFINE Goal == /\ \A k \in Units : RowMove(k)
                     /\ \A o \in Orders, k \in Units : PastMove(o, k)
  <1> SUFFICES Goal
    OBVIOUS
  <1>1. ASSUME UNCHANGED <<packedFor, past>> PROVE Goal
    BY <1>1 DEF RowMove, PastMove
  <1>2. ASSUME NEW k \in Units, NEW r \in Requests, ScanWrite(r, k) PROVE Goal
    <2>1. Packs(k, req[r].order)
      BY <1>2 DEF Packs
    <2>2. /\ packedFor' = [packedFor EXCEPT ![k] = req[r].order] /\ past' = past
          /\ packedFor[k] = NONE /\ req[r].order \in Orders
      BY <2>1, PacksDoes
    <2> QED BY <1>0, <2>1, <2>2 DEF RowMove, PastMove, TypeOK
  <1>3. ASSUME NEW p \in Orders, PackVoid(p) PROVE Goal
    <2>1. RemoveRows(PackedRows(p))
      BY <1>3 DEF PackVoid
    <2>2. ASSUME NEW k \in Units PROVE RowMove(k)
      <3>1. packedFor'[k] = IF packedFor[k] = p THEN NONE ELSE packedFor[k]
        BY <2>1 DEF RemoveRows, PackedRows
      <3>2. packedFor[k] = p => unit'[k] # "PACKED"
        BY <1>3 DEF PackVoid, Restored, PackedRows
      <3> QED BY <3>1, <3>2 DEF RowMove
    <2>3. ASSUME NEW o \in Orders, NEW k \in Units PROVE PastMove(o, k)
      <3>1. past'[o][k] = IF packedFor[k] = p /\ packedFor[k] = o THEN past[o][k] + 1 ELSE past[o][k]
        BY <2>1 DEF RemoveRows, PackedRows
      <3> QED BY <1>3, <3>1 DEF PastMove
    <2> QED BY <2>2, <2>3
  <1>4. ASSUME NEW r \in Requests, DisposeWrite(r) PROVE Goal
    <2>1. /\ RemoveRows(req[r].units)
          /\ unit' = [k \in Units |-> IF k \in req[r].units THEN req[r].to ELSE unit[k]]
          /\ req[r].op = "dispose"
      BY <1>4 DEF DisposeWrite
    <2>2. req[r].to # "PACKED"
      BY <1>0, <2>1 DEF TypeOK, Request
    <2>3. ASSUME NEW k \in Units PROVE RowMove(k)
      <3>1. packedFor'[k] = IF k \in req[r].units THEN NONE ELSE packedFor[k]
        BY <2>1 DEF RemoveRows
      <3>2. k \in req[r].units => unit'[k] # "PACKED"
        BY <2>1, <2>2
      <3> QED BY <3>1, <3>2 DEF RowMove
    <2>4. ASSUME NEW o \in Orders, NEW k \in Units PROVE PastMove(o, k)
      <3>1. past'[o][k] = IF k \in req[r].units /\ packedFor[k] = o THEN past[o][k] + 1 ELSE past[o][k]
        BY <2>1 DEF RemoveRows
      <3> QED BY <1>4, <3>1 DEF PastMove
    <2> QED BY <2>3, <2>4
  \* The others remove rows of the order of their request.
  <1>5. ASSUME NEW r \in Requests, CompleteWrite(r) \/ CancelWrite(r) \/ VoidWrite(r) PROVE Goal
    <2>1. PICK S : /\ RemoveRows(S) /\ \A k \in S \cap Units : packedFor[k] = req[r].order
                   /\ VoidWrite(r) => S = req[r].rows
      <3>1. ASSUME CompleteWrite(r)
            PROVE  RemoveRows(PackedRows(req[r].order)) /\ ~VoidWrite(r)
        BY <3>1 DEF CompleteWrite, VoidWrite
      <3>2. ASSUME CancelWrite(r)
            PROVE  RemoveRows({k \in req[r].rows : packedFor[k] = req[r].order}) /\ ~VoidWrite(r)
        BY <3>2 DEF CancelWrite, VoidWrite
      <3>3. ASSUME VoidWrite(r)
            PROVE  RemoveRows(req[r].rows) /\ \A k \in req[r].rows : packedFor[k] = req[r].order
        BY <3>3 DEF VoidWrite, Voidable
      <3>4. \A k \in PackedRows(req[r].order) : packedFor[k] = req[r].order
        BY DEF PackedRows
      <3> QED BY <1>5, <3>1, <3>2, <3>3, <3>4
    <2>2. ASSUME NEW k \in Units PROVE RowMove(k)
      <3>1. packedFor'[k] = IF k \in S THEN NONE ELSE packedFor[k]
        BY <2>1 DEF RemoveRows
      <3>2. VoidWrite(r) /\ k \in S => unit'[k] # "PACKED"
        <4>1. VoidWrite(r) => S \subseteq req[r].units
          BY <1>0, <2>1 DEF VoidWrite, ReqRows
        <4> QED BY <4>1 DEF VoidWrite, Restored
      <3> QED BY <1>5, <2>1, <3>1, <3>2 DEF RowMove
    <2>3. ASSUME NEW o \in Orders, NEW k \in Units PROVE PastMove(o, k)
      <3>1. past'[o][k] = IF k \in S /\ packedFor[k] = o THEN past[o][k] + 1 ELSE past[o][k]
        BY <2>1 DEF RemoveRows
      <3> QED BY <1>5, <2>1, <3>1 DEF PastMove
    <2> QED BY <2>2, <2>3
  <1> HIDE DEF Goal
  <1>6. ASSUME UNCHANGED rows PROVE Goal
    BY <1>1, <1>6 DEF rows
  <1>7. ASSUME UNCHANGED others PROVE Goal
    BY <1>6, <1>7 DEF others
  <1>8. ASSUME NEW k \in Units, Pick(k) PROVE Goal
    BY <1>1, <1>8 DEF Pick
  <1>9. ASSUME NEW o \in Orders, Assign(o) \/ HandOff(o) \/ \E s \in PosStatus : PosUpdate(o, s) PROVE Goal
    BY <1>6, <1>9 DEF Assign, HandOff, PosUpdate
  <1>10. ASSUME NEW r \in Requests,
                StartWrite(r) \/ SyncWrite(r) \/ RepairWrite(r) \/ VerifyWrite(r) \/ Record(r)
         PROVE  Goal
    BY <1>6, <1>10 DEF StartWrite, SyncWrite, RepairWrite, VerifyWrite, Record
  <1> QED BY <1>2, <1>3, <1>4, <1>5, <1>7, <1>8, <1>9, <1>10, StepOf DEF Acts, Writes

\* How the status of an order changes.
OrderMove(o) ==
    \/ order'[o] = order[o]
    \/ order[o] = "READY" /\ order'[o] = "PICKED" /\ o \in held
    \/ order'[o] = "PACKING" /\ (Startable(o) \/ o \in late')
    \/ /\ order'[o] = "PACKED" /\ \E r \in Requests : req[r].order = o /\ CompleteWrite(r)
       /\ InProgress(o) \/ order[o] = "PACKED" \/ o \in late'
    \/ order'[o] = "CANCELED"
    \/ Startable(o) /\ order'[o] = "READY" /\ o \in voided'
    \/ /\ pos[o] = "open" /\ order[o] # "CANCELED" /\ order'[o] = "READY" /\ o \in voided'
       /\ \E r \in Requests : req[r].order = o /\ (VoidWrite(r) \/ RepairWrite(r))

\* How it comes into the basket and out of it.
HeldMove(o) ==
    /\ o \in held' => o \in held \/ (order[o] = "READY" /\ order'[o] = "READY")
    /\ o \in held /\ o \notin held' => order'[o] \in {"READY", "PACKED", "CANCELED"}
    /\ order'[o] = "PACKED" => o \notin held' \/ order[o] = "PACKED"

LEMMA StepOrders ==
    ASSUME TypeOK, [Next]_vars
    PROVE  /\ voided \subseteq voided' /\ late \subseteq late'
           /\ \A o \in Orders : OrderMove(o) /\ HeldMove(o)
  <1> USE DispatchAssumption
  <1> DEFINE Goal == /\ voided \subseteq voided' /\ late \subseteq late'
                     /\ \A o \in Orders : OrderMove(o) /\ HeldMove(o)
  <1> SUFFICES Goal
    OBVIOUS
  <1>1. ASSUME UNCHANGED <<order, held>>, voided \subseteq voided', late \subseteq late' PROVE Goal
    BY <1>1 DEF OrderMove, HeldMove
  <1>2. ASSUME NEW p \in Orders, HandOff(p) PROVE Goal
    BY <1>2 DEF HandOff, OrderMove, HeldMove, TypeOK, history
  <1>3. ASSUME NEW p \in Orders, Assign(p) PROVE Goal
    BY <1>3 DEF Assign, OrderMove, HeldMove, TypeOK, history
  <1>4. ASSUME NEW p \in Orders, PackVoid(p) PROVE Goal
    <2>1. /\ Startable(p) /\ held' = held \ {p}
          /\ order' = [order EXCEPT ![p] = IF pos[p] = "canceled" THEN "CANCELED" ELSE "READY"]
          /\ voided' = voided \cup {p} /\ late' = late
      BY <1>4 DEF PackVoid
    <2> QED BY <2>1 DEF OrderMove, HeldMove, TypeOK
  <1>5. ASSUME NEW r \in Requests, CancelWrite(r) PROVE Goal
    BY <1>5 DEF CancelWrite, OrderMove, HeldMove, TypeOK, history
  <1>6. ASSUME NEW r \in Requests, VoidWrite(r) \/ RepairWrite(r) PROVE Goal
    <2> DEFINE p == req[r].order
    <2>1. /\ \/ order' = [order EXCEPT ![p] = "CANCELED"] /\ held' = held \ {p}
             \/ Reopen(p)
          /\ voided' = voided \cup {p} /\ late' = late
      BY <1>6 DEF VoidWrite, RepairWrite
    <2> HIDE DEF p
    <2>2. ASSUME NEW o \in Orders PROVE OrderMove(o) /\ HeldMove(o)
      <3>1. \/ order'[o] = order[o] /\ (o \in held' <=> o \in held)
            \/ order'[o] = "CANCELED" /\ o \notin held'
            \/ /\ o = p /\ order[o] # "CANCELED" /\ order'[o] = "READY" /\ pos[o] = "open"
               /\ o \notin held'
        <4>1. CASE Reopen(p) /\ Reopens(p)
          <5>1. order' = [order EXCEPT ![p] = "READY"] /\ held' = held \ {p}
            BY <4>1 DEF Reopen
          <5> QED BY <4>1, <5>1 DEF Reopens, TypeOK
        <4>2. CASE Reopen(p) /\ ~Reopens(p)
          BY <4>2 DEF Reopen
        <4>3. CASE order' = [order EXCEPT ![p] = "CANCELED"] /\ held' = held \ {p}
          BY <4>3 DEF TypeOK
        <4> QED BY <2>1, <4>1, <4>2, <4>3
      <3> QED BY <1>6, <2>1, <3>1 DEF OrderMove, HeldMove, p
    <2> QED BY <2>1, <2>2
  <1>7. ASSUME NEW r \in Requests, StartWrite(r) PROVE Goal
    <2> DEFINE p == req[r].order
    <2>1. /\ order' = [order EXCEPT ![p] = "PACKING"] /\ held' = held /\ voided' = voided
          /\ NotedUnless(Startable(p), p)
      BY <1>7 DEF StartWrite
    <2>2. late \subseteq late' /\ (Startable(p) \/ p \in late')
      BY <2>1 DEF NotedUnless
    <2> QED BY <2>1, <2>2 DEF OrderMove, HeldMove, TypeOK
  <1>8. ASSUME NEW r \in Requests, CompleteWrite(r) PROVE Goal
    <2> DEFINE p == req[r].order
    <2>1. /\ order' = [order EXCEPT ![p] = "PACKED"] /\ held' = held \ {p} /\ voided' = voided
          /\ NotedUnless(InProgress(p) \/ order[p] = "PACKED", p)
      BY <1>8 DEF CompleteWrite
    <2>2. late \subseteq late' /\ (InProgress(p) \/ order[p] = "PACKED" \/ p \in late')
      BY <2>1 DEF NotedUnless
    <2> HIDE DEF p
    <2>3. ASSUME NEW o \in Orders PROVE OrderMove(o) /\ HeldMove(o)
      <3>1. CASE o = p
        <4>1. order'[o] = "PACKED" /\ o \notin held'
          BY <2>1, <3>1 DEF TypeOK
        <4>2. OrderMove(o)
          BY <1>8, <2>2, <3>1, <4>1 DEF OrderMove, p
        <4> QED BY <4>1, <4>2 DEF HeldMove
      <3>2. CASE o # p
        <4>1. order'[o] = order[o] /\ (o \in held' <=> o \in held)
          BY <2>1, <3>2
        <4> QED BY <4>1 DEF OrderMove, HeldMove
      <3> QED BY <3>1, <3>2
    <2> QED BY <2>1, <2>2, <2>3
  <1>9. ASSUME NEW r \in Requests, NEW k \in Units, ScanWrite(r, k) PROVE Goal
    <2>1. UNCHANGED <<order, held>> /\ voided' = voided /\ late \subseteq late'
      BY <1>9 DEF ScanWrite, NotedUnless
    <2> QED BY <1>1, <2>1
  <1> HIDE DEF Goal
  <1>10. ASSUME UNCHANGED <<order, held, history>> PROVE Goal
    BY <1>1, <1>10 DEF history
  <1>11. ASSUME UNCHANGED others PROVE Goal
    BY <1>10, <1>11 DEF others
  <1>12. ASSUME NEW k \in Units, Pick(k) PROVE Goal
    BY <1>10, <1>12 DEF Pick
  <1>13. ASSUME NEW o \in Orders, NEW s \in PosStatus, PosUpdate(o, s) PROVE Goal
    BY <1>10, <1>13 DEF PosUpdate
  <1>14. ASSUME NEW r \in Requests, SyncWrite(r) \/ VerifyWrite(r) \/ DisposeWrite(r) \/ Record(r)
         PROVE  Goal
    BY <1>10, <1>14 DEF SyncWrite, VerifyWrite, DisposeWrite, Record
  <1> QED BY <1>2, <1>3, <1>4, <1>5, <1>6, <1>7, <1>8, <1>9, <1>11, <1>12, <1>13, <1>14, StepOf
          DEF Acts, Writes

\* What a read has found when it begins: q is the request it leaves behind.
ReadFound(q) ==
    \/ q.op = "start" /\ q.units = {}
    \/ q.op = "scan" /\ InProgress(q.order) /\ q.units \subseteq loose
    \/ q.op = "complete" /\ AllPacked(q.order) /\ q.units = {}
    \/ q.op = "cancel" /\ q.units \subseteq Tracked(q.order)
    \/ q.op = "sync" /\ \A k \in q.units :
          unit[k] = "PACKED" /\ \E o \in Orders : k \in Tracked(o) /\ order[o] = "PACKED" /\ pos[o] = "shipped"
    \/ q.op = "void" /\ order[q.order] = "PACKED" /\ q.units = Tracked(q.order) /\ q.rows \subseteq q.units
    \/ q.op = "repair" /\ order[q.order] = "PACKED" /\ q.units = {}
          /\ \A k \in Tracked(q.order) : unit[k] # "PACKED"
    \/ q.op = "verify" /\ MayReturn(q.order) /\ q.units \subseteq Tracked(q.order)
          /\ \A k \in q.units : unit[k] = "DISPATCHED"
    \/ q.op = "dispose" /\ MayReturn(q.order) /\ q.units \subseteq Tracked(q.order)
          /\ \A k \in q.units : unit[k] = "RTS"

LEMMA ReadsFind ==
    ASSUME TypeOK, NEW s \in Requests, Reads(s)
    PROVE  End(s) \/ \E q : Begin(s, q) /\ ReadFound(q)
  <1> DEFINE Goal == End(s) \/ \E q : Begin(s, q) /\ ReadFound(q)
  <1> SUFFICES Goal
    OBVIOUS
  <1>1. ASSUME NEW os \in SUBSET Orders, SyncRead(s, os) PROVE Goal
    <2> DEFINE q == Having("sync", NONE,
                 {k \in Units : unit[k] = "PACKED" /\ \E o \in Shipped(os) : k \in Tracked(o)}, NONE)
    <2>1. Begin(s, q)
      BY <1>1 DEF SyncRead
    <2>2. ReadFound(q)
      BY DEF ReadFound, Shipped, Having
    <2> HIDE DEF q
    <2> QED BY <2>1, <2>2
  <1>2. ASSUME NEW o \in Orders, VoidRead(s, o) PROVE Goal
    <2> DEFINE to == IF pos[o] = "canceled" THEN "CANCELED" ELSE "READY"
               q == [Having("void", o, Tracked(o), to) EXCEPT !.rows = PackedRows(o)]
    <2>1. Begin(s, q) /\ order[o] = "PACKED"
      BY <1>2 DEF VoidRead
    <2>2. q.op = "void" /\ q.order = o /\ q.units = Tracked(o) /\ q.rows = PackedRows(o)
      BY DEF Having
    <2> HIDE DEF q
    <2>3. ReadFound(q)
      BY <2>1, <2>2 DEF ReadFound, Tracked
    <2> QED BY <2>1, <2>3
  <1>3. ASSUME NEW o \in Orders, CancelRead(s, o) PROVE Goal
    <2> DEFINE known == IF o \in held THEN {k \in PackedRows(o) : unit[k] = "PACKED"} ELSE {}
               q == [Having("cancel", o, known, NONE) EXCEPT !.rows = PackedRows(o)]
    <2>1. Begin(s, q)
      BY <1>3 DEF CancelRead
    <2>2. q.op = "cancel" /\ q.order = o /\ q.units = known
      BY DEF Having
    <2>3. known \subseteq Tracked(o)
      BY DEF Tracked
    <2> HIDE DEF q, known
    <2>4. ReadFound(q)
      BY <2>1, <2>2, <2>3 DEF ReadFound
    <2> QED BY <2>1, <2>4
  <1>4. ASSUME NEW o \in Orders, RepairRead(s, o) PROVE Goal
    <2> DEFINE q == Having("repair", o, {}, "READY")
    <2>1. Begin(s, q) /\ order[o] = "PACKED" /\ \A k \in Tracked(o) : unit[k] # "PACKED"
      BY <1>4 DEF RepairRead
    <2>2. q.op = "repair" /\ q.order = o /\ q.units = {}
      BY DEF Having
    <2> HIDE DEF q
    <2>3. ReadFound(q)
      BY <2>1, <2>2 DEF ReadFound
    <2> QED BY <2>1, <2>3
  <1>5. ASSUME NEW o \in Orders, StartRead(s, o) PROVE Goal
    <2> DEFINE q == Having("start", o, {}, NONE)
    <2>1. Begin(s, q) /\ ReadFound(q)
      BY <1>5 DEF StartRead, ReadFound, Having
    <2> HIDE DEF q
    <2> QED BY <2>1
  <1>6. ASSUME NEW o \in Orders, CompleteRead(s, o) PROVE Goal
    <2> DEFINE q == Having("complete", o, {}, NONE)
    <2>1. Begin(s, q) /\ AllPacked(o)
      BY <1>6 DEF CompleteRead
    <2>2. q.op = "complete" /\ q.order = o /\ q.units = {}
      BY DEF Having
    <2> HIDE DEF q
    <2>3. ReadFound(q)
      BY <2>1, <2>2 DEF ReadFound
    <2> QED BY <2>1, <2>3
  <1>7. ASSUME NEW o \in Orders, NEW k \in Units, ScanRead(s, k, o) PROVE Goal
    <2> DEFINE q == Having("scan", o, {k}, NONE)
    <2>1. Begin(s, q) /\ InProgress(o) /\ k \in loose
      BY <1>7 DEF ScanRead
    <2>2. q.op = "scan" /\ q.order = o /\ q.units = {k}
      BY DEF Having
    <2> HIDE DEF q
    <2>3. ReadFound(q)
      BY <2>1, <2>2 DEF ReadFound
    <2> QED BY <2>1, <2>3
  <1>8. ASSUME NEW o \in Orders, NEW k \in Units, VerifyRead(s, o, k) PROVE Goal
    <2> DEFINE q == Having("verify", o, {k}, NONE)
    <2>1. Begin(s, q) /\ MayReturn(o) /\ k \in Tracked(o) /\ unit[k] = "DISPATCHED"
      BY <1>8 DEF VerifyRead
    <2>2. q.op = "verify" /\ q.order = o /\ q.units = {k}
      BY DEF Having
    <2> HIDE DEF q
    <2>3. ReadFound(q)
      BY <2>1, <2>2 DEF ReadFound
    <2> QED BY <2>1, <2>3
  <1>9. ASSUME NEW o \in Orders, NEW k \in Units, NEW to \in Dispositions, DisposeRead(s, o, k, to)
        PROVE  Goal
    <2> DEFINE q == Having("dispose", o, {k}, to)
    <2>1. Begin(s, q) /\ MayReturn(o) /\ k \in Tracked(o) /\ unit[k] = "RTS"
      BY <1>9 DEF DisposeRead
    <2>2. q.op = "dispose" /\ q.order = o /\ q.units = {k}
      BY DEF Having
    <2> HIDE DEF q
    <2>3. ReadFound(q)
      BY <2>1, <2>2 DEF ReadFound
    <2> QED BY <2>1, <2>3
  <1>10. ASSUME ScanRefused(s) \/ VoidRefused(s) \/ RecordLost(s) PROVE Goal
    BY <1>10 DEF ScanRefused, VoidRefused, RecordLost
  <1> HIDE DEF Goal
  <1> QED BY <1>1, <1>2, <1>3, <1>4, <1>5, <1>6, <1>7, <1>8, <1>9, <1>10 DEF Reads

\* How a request changes: it ends, a disposition goes on to its record, or a
\* read begins, which changes nothing else.
RequestMove(r) ==
    \/ req'[r] = req[r]
    \/ req'[r] = Idle
    \/ /\ DisposeWrite(r) /\ req[r].op = "dispose" /\ req'[r].op = "record"
       /\ req'[r].order = req[r].order /\ req'[r].units = req[r].units
    \/ UNCHANGED others /\ ReadFound(req'[r])

LEMMA StepRequests ==
    ASSUME TypeOK, [Next]_vars
    PROVE  \A r \in Requests : RequestMove(r)
  <1> USE DispatchAssumption
  <1>0. req \in [Requests -> Request]
    BY DEF TypeOK
  <1> DEFINE Goal == \A r \in Requests : RequestMove(r)
  <1> SUFFICES Goal
    OBVIOUS
  <1>1. ASSUME UNCHANGED req PROVE Goal
    BY <1>1 DEF RequestMove
  <1>2. ASSUME NEW s \in Requests, End(s) PROVE Goal
    <2>1. \A r \in Requests : req'[r] = req[r] \/ req'[r] = Idle
      BY <1>2 DEF End, TypeOK
    <2> QED BY <2>1 DEF RequestMove
  <1>3. ASSUME NEW S, req' = WithoutScansOf(S, req) PROVE Goal
    BY <1>0, <1>3, WithoutType DEF RequestMove
  <1>4. ASSUME NEW s \in Requests, Reads(s) PROVE Goal
    <2>1. CASE End(s)
      BY <1>2, <2>1
    <2>2. ASSUME NEW q, Begin(s, q), ReadFound(q) PROVE Goal
      <3>1. \A r \in Requests : req'[r] = req[r] \/ req'[r] = q
        BY <2>2 DEF Begin, TypeOK
      <3>2. UNCHANGED others
        BY <1>4, ReadsChangeReq
      <3>3. ASSUME NEW r \in Requests, req'[r] = q PROVE RequestMove(r)
        <4>1. ReadFound(req'[r])
          BY <2>2, <3>3
        <4> QED BY <3>2, <4>1 DEF RequestMove
      <3>4. ASSUME NEW r \in Requests, req'[r] = req[r] PROVE RequestMove(r)
        BY <3>4 DEF RequestMove
      <3> QED BY <3>1, <3>3, <3>4
    <2> HIDE DEF Goal
    <2> QED BY <1>4, <2>1, <2>2, ReadsFind
  <1>5. ASSUME NEW s \in Requests, DisposeWrite(s) PROVE Goal
    <2> DEFINE q == Having("record", req[s].order, req[s].units, NONE)
               rs == [req EXCEPT ![s] = q]
    <2>1. q.op = "record" /\ q.order = req[s].order /\ q.units = req[s].units
      BY DEF Having
    <2>2. req' = WithoutScansOf(req[s].units, rs) /\ req[s].op = "dispose"
      BY <1>5 DEF DisposeWrite
    <2>3. rs \in [Requests -> Request]
      <3>1. q \in Request
        BY <2>2, HeldType, HavingType
      <3> QED BY <1>0, <3>1
    <2>4. \A r \in Requests : rs[r] = req[r] \/ (r = s /\ rs[r] = q)
      BY <1>0
    <2> HIDE DEF q, rs
    <2>5. \A r \in Requests : req'[r] \in {rs[r], Idle}
      BY <2>2, <2>3, WithoutType
    <2> QED BY <1>5, <2>1, <2>2, <2>4, <2>5 DEF RequestMove
  <1> HIDE DEF Goal
  <1>6. CASE UNCHANGED vars
    BY <1>1, <1>6 DEF vars
  <1>7. CASE Acts
    <2>1. ASSUME NEW k \in Units, Pick(k) PROVE Goal
      BY <1>1, <2>1 DEF Pick
    <2>2. ASSUME NEW o \in Orders, Assign(o) \/ HandOff(o) PROVE Goal
      BY <1>1, <2>2 DEF Assign, HandOff
    <2>3. ASSUME NEW o \in Orders, PackVoid(o) PROVE Goal
      BY <1>3, <2>3 DEF PackVoid
    <2>4. ASSUME NEW o \in Orders, NEW s \in PosStatus, PosUpdate(o, s) PROVE Goal
      BY <1>1, <2>4 DEF PosUpdate
    <2>5. ASSUME NEW r \in Requests,
                 \/ StartWrite(r) \/ CompleteWrite(r) \/ CancelWrite(r) \/ SyncWrite(r)
                 \/ VoidWrite(r) \/ RepairWrite(r) \/ VerifyWrite(r) \/ Record(r)
          PROVE  Goal
      BY <1>2, <2>5 DEF StartWrite, CompleteWrite, CancelWrite, SyncWrite, VoidWrite, RepairWrite,
                        VerifyWrite, Record
    <2>6. ASSUME NEW r \in Requests, NEW k \in Units, ScanWrite(r, k) PROVE Goal
      BY <1>3, <2>6 DEF ScanWrite
    <2> QED BY <1>5, <1>7, <2>1, <2>2, <2>3, <2>4, <2>5, <2>6 DEF Acts, Writes
  <1> QED BY <1>4, <1>6, <1>7, NextCases

\* Picked units: only Pick adds one, and a scan's unit leaves with the scan.
LEMMA StepLoose ==
    ASSUME RowInv, [Next]_vars
    PROVE  /\ \A k \in loose' : \/ k \in loose /\ \A o : ~Packs(k, o)
                                \/ packedFor'[k] = NONE /\ unit'[k] = "PICKED"
           /\ \A r \in Requests : req'[r].op = "scan" /\ req'[r] = req[r] => req[r].units \subseteq loose'
  <1>0. TypeOK /\ req \in [Requests -> Request]
    BY DEF RowInv, TypeInv, TypeOK
  <1> DEFINE Goal == /\ \A k \in loose' : \/ k \in loose /\ \A o : ~Packs(k, o)
                                          \/ packedFor'[k] = NONE /\ unit'[k] = "PICKED"
                     /\ \A r \in Requests : req'[r].op = "scan" /\ req'[r] = req[r] =>
                           req[r].units \subseteq loose'
  <1> SUFFICES Goal
    OBVIOUS
  <1>1. \A r \in Requests : req[r].op = "scan" => req[r].units \subseteq loose
    BY DEF RowInv, ReqRows
  <1>2. ASSUME NEW k \in Units, NEW o, Packs(k, o) PROVE k \notin loose'
    BY <1>2, PacksDoes
  <1>3. loose' \subseteq loose => \A k \in loose' : k \in loose /\ \A o : ~Packs(k, o)
    BY <1>0, <1>2 DEF TypeOK
  <1>4. ASSUME UNCHANGED loose PROVE Goal
    BY <1>1, <1>3, <1>4
  <1>5. ASSUME NEW S, NEW rs \in [Requests -> Request], loose' = loose \ S, req' = WithoutScansOf(S, rs)
        PROVE  Goal
    BY <1>1, <1>3, <1>5, WithoutType
  <1>6. ASSUME NEW k \in Units, Pick(k) PROVE Goal
    <2>1. /\ packedFor' = packedFor /\ packedFor[k] = NONE /\ loose' = loose \cup {k}
          /\ unit' = [unit EXCEPT ![k] = "PICKED"] /\ req' = req
      BY <1>6 DEF Pick
    <2>2. \A j \in loose : j \in loose' /\ j \in Units
      BY <1>0, <2>1 DEF TypeOK
    <2>3. \A j \in loose : \A o : ~Packs(j, o)
      BY <1>2, <2>2
    <2> QED BY <1>0, <1>1, <2>1, <2>3 DEF TypeOK
  <1>7. ASSUME NEW o \in Orders, PackVoid(o) PROVE Goal
    <2>1. PICK S : loose' = loose \ S /\ req' = WithoutScansOf(S, req)
      BY <1>7 DEF PackVoid
    <2> HIDE DEF Goal
    <2> QED BY <1>0, <1>5, <2>1
  <1>8. ASSUME NEW s \in Requests, DisposeWrite(s) PROVE Goal
    <2> DEFINE q == Having("record", req[s].order, req[s].units, NONE)
    <2>1. q \in Request
      BY <1>0, <1>8, HeldType, HavingType DEF DisposeWrite
    <2>2. loose' = loose \ req[s].units /\ req' = WithoutScansOf(req[s].units, [req EXCEPT ![s] = q])
      BY <1>8 DEF DisposeWrite
    <2>3. [req EXCEPT ![s] = q] \in [Requests -> Request]
      BY <1>0, <2>1
    <2> HIDE DEF Goal, q
    <2> QED BY <1>5, <2>2, <2>3
  <1> HIDE DEF Goal
  <1>9. ASSUME NEW r \in Requests, NEW k \in Units, ScanWrite(r, k) PROVE Goal
    BY <1>0, <1>5, <1>9 DEF ScanWrite
  <1>10. ASSUME UNCHANGED rows PROVE Goal
    BY <1>4, <1>10 DEF rows
  <1>11. ASSUME UNCHANGED others PROVE Goal
    BY <1>10, <1>11 DEF others
  <1>12. ASSUME NEW o \in Orders, Assign(o) \/ HandOff(o) \/ \E s \in PosStatus : PosUpdate(o, s)
         PROVE Goal
    BY <1>10, <1>12 DEF Assign, HandOff, PosUpdate
  <1>13. ASSUME NEW r \in Requests,
                \/ StartWrite(r) \/ CompleteWrite(r) \/ CancelWrite(r) \/ SyncWrite(r)
                \/ VoidWrite(r) \/ RepairWrite(r) \/ VerifyWrite(r) \/ Record(r)
         PROVE  Goal
    BY <1>4, <1>10, <1>13 DEF StartWrite, CompleteWrite, CancelWrite, SyncWrite, VoidWrite, RepairWrite,
                              VerifyWrite, Record
  <1> QED BY <1>6, <1>7, <1>8, <1>9, <1>11, <1>12, <1>13, StepOf DEF Acts, Writes

\* Only PosUpdate changes what Pancake says.
LEMMA StepPos ==
    ASSUME TypeOK, [Next]_vars, NEW o \in Orders
    PROVE  pos'[o] = pos[o] \/ <<pos[o], pos'[o]>> \in PosSteps
  <1> DEFINE Goal == pos'[o] = pos[o] \/ <<pos[o], pos'[o]>> \in PosSteps
  <1> SUFFICES Goal
    OBVIOUS
  <1>1. ASSUME UNCHANGED pos PROVE Goal
    BY <1>1
  <1>2. ASSUME NEW p \in Orders, NEW s \in PosStatus, PosUpdate(p, s) PROVE Goal
    BY <1>2 DEF PosUpdate, TypeOK
  <1> HIDE DEF Goal
  <1>3. ASSUME UNCHANGED others PROVE Goal
    BY <1>1, <1>3 DEF others
  <1>4. ASSUME NEW k \in Units, Pick(k) PROVE Goal
    BY <1>1, <1>4 DEF Pick
  <1>5. ASSUME NEW p \in Orders, Assign(p) \/ HandOff(p) \/ PackVoid(p) PROVE Goal
    BY <1>1, <1>5 DEF Assign, HandOff, PackVoid
  <1>6. ASSUME NEW r \in Requests, Writes(r) PROVE Goal
    BY <1>1, <1>6 DEF Writes, StartWrite, ScanWrite, CompleteWrite, CancelWrite, SyncWrite, VoidWrite,
                      RepairWrite, VerifyWrite, DisposeWrite, Record
  <1> QED BY <1>2, <1>3, <1>4, <1>5, <1>6, StepOf DEF Acts

-----------------------------------------------------------------------------
(* What is tracked stays tracked.                                           *)

LEMMA RemoveTracked ==
    ASSUME TypeInv, NEW S, RemoveRows(S), NEW o \in Orders
    PROVE  Tracked(o)' = Tracked(o)
  <1> USE DispatchAssumption
  <1>1. ASSUME NEW k \in Units
        PROVE  /\ packedFor'[k] = IF k \in S THEN NONE ELSE packedFor[k]
               /\ past'[o][k] = IF k \in S /\ packedFor[k] = o THEN past[o][k] + 1 ELSE past[o][k]
               /\ past[o][k] \in Nat
    BY DEF RemoveRows, TypeInv, TypeOK
  <1>2. \A k \in Units : (packedFor'[k] = o \/ past'[o][k] > 0) <=> (packedFor[k] = o \/ past[o][k] > 0)
    BY <1>1
  <1> QED BY <1>2 DEF Tracked, PackedRows

LEMMA StepTracked ==
    ASSUME RowInv, [Next]_vars
    PROVE  \A o \in Orders : Tracked(o) \subseteq Tracked(o)'
  <1> USE DispatchAssumption
  <1>0. TypeInv /\ TypeOK
    BY DEF RowInv, TypeInv
  <1> DEFINE Goal == \A o \in Orders : Tracked(o) \subseteq Tracked(o)'
  <1>1. ASSUME UNCHANGED <<packedFor, past>> PROVE Goal
    BY <1>1 DEF Tracked, PackedRows
  <1>2. ASSUME NEW S, RemoveRows(S) PROVE Goal
    BY <1>0, <1>2, RemoveTracked
  <1>3. ASSUME NEW k \in Units, NEW r \in Requests, ScanWrite(r, k) PROVE Goal
    <2>1. Packs(k, req[r].order)
      BY <1>3 DEF Packs
    <2>2. packedFor[k] = NONE /\ packedFor' = [packedFor EXCEPT ![k] = req[r].order] /\ past' = past
      BY <2>1, PacksDoes
    <2> QED BY <1>0, <2>2 DEF Tracked, PackedRows, TypeOK
  <1> SUFFICES Goal
    OBVIOUS
  <1> HIDE DEF Goal
  <1>4. ASSUME UNCHANGED rows PROVE Goal
    BY <1>1, <1>4 DEF rows
  <1>5. ASSUME UNCHANGED others PROVE Goal
    BY <1>4, <1>5 DEF others
  <1>6. ASSUME NEW k \in Units, Pick(k) PROVE Goal
    BY <1>1, <1>6 DEF Pick
  <1>7. ASSUME NEW o \in Orders, Assign(o) \/ HandOff(o) \/ \E s \in PosStatus : PosUpdate(o, s)
        PROVE Goal
    BY <1>4, <1>7 DEF Assign, HandOff, PosUpdate
  <1>8. ASSUME NEW o \in Orders, PackVoid(o) PROVE Goal
    BY <1>2, <1>8 DEF PackVoid
  <1>9. ASSUME NEW r \in Requests,
               CompleteWrite(r) \/ CancelWrite(r) \/ VoidWrite(r) \/ DisposeWrite(r)
        PROVE  Goal
    BY <1>2, <1>9 DEF CompleteWrite, CancelWrite, VoidWrite, DisposeWrite
  <1>10. ASSUME NEW r \in Requests,
               StartWrite(r) \/ SyncWrite(r) \/ RepairWrite(r) \/ VerifyWrite(r) \/ Record(r)
        PROVE  Goal
    BY <1>4, <1>10 DEF StartWrite, SyncWrite, RepairWrite, VerifyWrite, Record
  <1> QED BY <1>3, <1>5, <1>6, <1>7, <1>8, <1>9, <1>10, StepOf DEF Acts, Writes

LEMMA StepRow == RowInv /\ [Next]_vars => RowInv'
  <1> SUFFICES ASSUME RowInv, [Next]_vars PROVE RowInv'
    OBVIOUS
  <1>0. TypeInv /\ TypeOK /\ OneRow /\ ReqRows /\ HeldInv
    BY DEF RowInv, TypeInv
  <1>1. TypeInv'
    BY <1>0, StepType
  <1>2. OneRow'
    <2> SUFFICES ASSUME NEW k \in loose' PROVE packedFor'[k] = NONE /\ unit'[k] # "PACKED"
      BY DEF OneRow
    <2>1. k \in Units
      BY <1>1 DEF TypeInv, TypeOK
    <2>2. CASE k \in loose /\ \A o : ~Packs(k, o)
      <3>1. packedFor[k] = NONE /\ unit[k] # "PACKED"
        BY <1>0, <2>2 DEF OneRow
      <3>2. RowMove(k) /\ UnitMove(k)
        BY <2>1, StepRows, StepUnits
      <3>3. \A r \in Requests : DisposeWrite(r) => req[r].to # "PACKED"
        BY <1>0, DispatchAssumption DEF DisposeWrite, TypeOK, Request
      <3> QED BY <2>2, <3>1, <3>2, <3>3 DEF RowMove, UnitMove, UnitWrite
    <2> QED BY <2>2, StepLoose
  <1>3. ReqRows'
    <2> SUFFICES ASSUME NEW r \in Requests
                 PROVE  /\ req'[r].op = "scan" => req'[r].units \subseteq loose'
                        /\ req'[r].op = "void" => req'[r].rows \subseteq req'[r].units
      BY DEF ReqRows
    <2>1. RequestMove(r)
      BY <1>0, StepRequests
    <2>2. CASE req'[r] = req[r]
      BY <1>0, <2>2, StepLoose DEF ReqRows
    <2>3. CASE UNCHANGED others /\ ReadFound(req'[r])
      BY <2>3 DEF ReadFound, others, rows
    <2> QED BY <2>1, <2>2, <2>3 DEF RequestMove, Idle, Having
  <1>4. HeldInv'
    <2> SUFFICES ASSUME NEW o \in Orders
                 PROVE  /\ order'[o] = "PACKED" => o \notin held'
                        /\ order'[o] \in {"PICKED", "PACKING"} => o \in held' \/ o \in late'
      BY DEF HeldInv
    <2>1. OrderMove(o) /\ HeldMove(o) /\ late \subseteq late'
      BY <1>0, StepOrders
    <2>2. /\ order[o] = "PACKED" => o \notin held
          /\ order[o] \in {"PICKED", "PACKING"} => o \in held \/ o \in late
      BY <1>0 DEF HeldInv
    <2> QED BY <2>1, <2>2 DEF OrderMove, HeldMove, Startable
  <1> QED BY <1>1, <1>2, <1>3, <1>4 DEF RowInv

LEMMA InitRow == Init => RowInv
  BY InitType DEF RowInv, OneRow, ReqRows, HeldInv, Init, Idle, Having

-----------------------------------------------------------------------------
(* Only what Pancake has reported shipped is dispatched.                    *)

\* What Pancake says does not reopen an order.
LEMMA PosKeeps ==
    ASSUME TypeOK, [Next]_vars, NEW o \in Orders, pos[o] \in Out
    PROVE  pos'[o] \in Out
  BY StepPos, DispatchAssumption

\* The units a sync has read were packed for orders reported shipped.
SyncSeen ==
    \A r \in Requests : req[r].op = "sync" =>
        \A k \in req[r].units : \E o \in Orders : k \in Tracked(o) /\ pos[o] \in Out

ShipInv == RowInv /\ SyncSeen /\ DispatchedIsShipped

LEMMA StepShip ==
    ASSUME ShipInv, [Next]_vars
    PROVE  ShipInv'
  <1>1. RowInv /\ TypeOK
    BY DEF ShipInv, RowInv, TypeInv
  <1>2. RowInv'
    BY <1>1, StepRow
  <1>3. ASSUME NEW k, \E o \in Orders : k \in Tracked(o) /\ pos[o] \in Out
        PROVE  \E o \in Orders : k \in Tracked(o)' /\ pos'[o] \in Out
    <2>1. PICK o \in Orders : k \in Tracked(o) /\ pos[o] \in Out
      BY <1>3
    <2>2. Tracked(o) \subseteq Tracked(o)'
      BY <1>1, StepTracked
    <2>3. pos'[o] \in Out
      BY <1>1, <2>1, PosKeeps
    <2> QED BY <2>1, <2>2, <2>3
  <1>4. SyncSeen'
    <2> SUFFICES ASSUME NEW r \in Requests, req'[r].op = "sync", NEW k \in req'[r].units
                 PROVE  \E o \in Orders : k \in Tracked(o)' /\ pos'[o] \in Out
      BY DEF SyncSeen
    <2>1. RequestMove(r)
      BY <1>1, StepRequests
    <2>2. \E o \in Orders : k \in Tracked(o) /\ pos[o] \in Out
      BY <2>1 DEF RequestMove, ReadFound, Idle, Having, Out, ShipInv, SyncSeen
    <2> QED BY <1>3, <2>2
  <1>5. DispatchedIsShipped'
    <2> SUFFICES ASSUME NEW k \in Units, unit'[k] = "DISPATCHED"
                 PROVE  \E o \in Orders : k \in Tracked(o)' /\ pos'[o] \in Out
      BY DEF DispatchedIsShipped
    <2>1. UnitMove(k)
      BY <1>1, StepUnits
    <2>2. \A r \in Requests : DisposeWrite(r) => req[r].to # "DISPATCHED"
      BY <1>1, DispatchAssumption DEF DisposeWrite, TypeOK, Request
    <2>3. \/ unit[k] = "DISPATCHED"
          \/ \E r \in Requests : req[r].op = "sync" /\ k \in req[r].units
      BY <2>1, <2>2 DEF UnitMove, UnitWrite, SyncWrite
    <2>4. \E o \in Orders : k \in Tracked(o) /\ pos[o] \in Out
      BY <2>3 DEF ShipInv, SyncSeen, DispatchedIsShipped
    <2> QED BY <1>3, <2>4
  <1> QED BY <1>2, <1>4, <1>5 DEF ShipInv

\* Whatever void, cancellation or reading of a list races the sync, only units
\* tracked for an order that was reported shipped are DISPATCHED.
THEOREM DispatchedOnlyShipped == Spec => []DispatchedIsShipped
  <1>1. Init => ShipInv
    <2> SUFFICES ASSUME Init PROVE SyncSeen /\ DispatchedIsShipped
      BY InitRow DEF ShipInv
    <2>1. SyncSeen
      BY DEF Init, SyncSeen, Idle, Having
    <2>2. DispatchedIsShipped
      BY DEF Init, DispatchedIsShipped
    <2> QED BY <2>1, <2>2
  <1>2. ShipInv /\ [Next]_vars => ShipInv'
    BY StepShip
  <1>3. ShipInv => DispatchedIsShipped
    BY DEF ShipInv
  <1> QED BY <1>1, <1>2, <1>3, PTL DEF Spec

-----------------------------------------------------------------------------
(* What has left the house.                                                 *)

\* An order that left the house is not picked or packed from the basket again.
Left(o) == pos[o] \in Out /\ o \notin held /\ order[o] # "READY"

\* The unit was packed for an order that left.
Gone(k) == \E o \in Orders : k \in Tracked(o) /\ Left(o)

LEMMA StepLeft ==
    ASSUME TypeOK, [Next]_vars, NEW o \in Orders, Left(o)
    PROVE  Left(o)'
  <1>1. pos'[o] \in Out
    BY PosKeeps DEF Left
  <1>2. OrderMove(o) /\ HeldMove(o)
    BY StepOrders
  <1>3. order'[o] # "READY" /\ o \notin held'
    BY <1>2 DEF OrderMove, HeldMove, Left, Out, Startable
  <1> QED BY <1>1, <1>3 DEF Left

LEMMA StepGone ==
    ASSUME RowInv, [Next]_vars, NEW k, Gone(k)
    PROVE  Gone(k)'
  <1>0. TypeOK
    BY DEF RowInv, TypeInv
  <1>1. PICK o \in Orders : k \in Tracked(o) /\ Left(o)
    BY DEF Gone
  <1>2. Tracked(o) \subseteq Tracked(o)'
    BY StepTracked
  <1>3. Left(o)'
    BY <1>0, <1>1, StepLeft
  <1> QED BY <1>1, <1>2, <1>3 DEF Gone

\* The units a handler that returns or dispatches them holds were packed for
\* orders that left; those of a return, a void or a cancellation belong to its
\* order.
Holding(q) ==
    /\ q.op \in {"void", "cancel", "verify", "dispose", "record"} =>
          \A o \in Orders : q.order = o => q.units \subseteq Tracked(o)
    /\ q.op \in {"sync", "verify", "dispose", "record"} => \A k \in q.units : Gone(k)

\* So were those at the courier and at the return location.  One that a sync has
\* read, and a scan for another order since, had left for that other order.
GoneInv ==
    /\ \A r \in Requests : Holding(req[r])
    /\ \A k \in Units : unit[k] \in {"DISPATCHED", "RTS"} => Gone(k)
    /\ \A r, s \in Requests : req[r].op = "scan" /\ req[s].op = "sync" =>
          \A k \in req[r].units \cap req[s].units :
             \E p \in Orders : p # req[r].order /\ k \in Tracked(p) /\ Left(p)

LEMMA GoneStep ==
    ASSUME RowInv, GoneInv, [Next]_vars
    PROVE  GoneInv'
  <1>0. TypeOK
    BY DEF RowInv, TypeInv
  <1>1. \A k : Gone(k) => Gone(k)'
    BY StepGone
  <1>2. \A o \in Orders : Tracked(o) \subseteq Tracked(o)'
    BY StepTracked
  <1>3. ASSUME NEW r \in Requests
        PROVE  /\ req'[r].op \in {"void", "cancel", "verify", "dispose", "record"} =>
                     \A o \in Orders : req'[r].order = o => req'[r].units \subseteq Tracked(o)'
               /\ req'[r].op \in {"sync", "verify", "dispose", "record"} =>
                     \A k \in req'[r].units : Gone(k)'
    <2>1. RequestMove(r)
      BY <1>0, StepRequests
    <2>2. Holding(req[r])
      BY DEF GoneInv
    <2>3. req'[r] \in Request
      BY StepType DEF RowInv, TypeInv, TypeOK
    <2>4. req'[r].units \subseteq Units
      BY <2>3 DEF Request
    <2>5. CASE ReadFound(req'[r])
      <3>1. ASSUME NEW k \in req'[r].units, req'[r].op \in {"sync", "verify", "dispose"}
            PROVE  Gone(k)
        <4>1. CASE req'[r].op = "sync"
          <5>1. PICK o \in Orders : k \in Tracked(o) /\ order[o] = "PACKED" /\ pos[o] = "shipped"
            BY <2>5, <3>1, <4>1 DEF ReadFound
          <5>2. Left(o)
            BY <5>1 DEF RowInv, HeldInv, Left, Out
          <5> QED BY <5>1, <5>2 DEF Gone
        <4>2. CASE req'[r].op \in {"verify", "dispose"}
          <5>1. unit[k] \in {"DISPATCHED", "RTS"}
            BY <2>5, <3>1, <4>2 DEF ReadFound
          <5> QED BY <2>4, <5>1 DEF GoneInv
        <4> QED BY <3>1, <4>1, <4>2
      <3>2. req'[r].op \in {"void", "cancel", "verify", "dispose"} =>
               \A o \in Orders : req'[r].order = o => req'[r].units \subseteq Tracked(o)
        BY <2>5 DEF ReadFound
      <3>3. req'[r].op # "record"
        BY <2>5 DEF ReadFound
      <3> QED BY <1>1, <1>2, <3>1, <3>2, <3>3
    <2>6. CASE req'[r] = req[r]
      BY <1>1, <1>2, <2>2, <2>6 DEF Holding
    <2>7. CASE /\ req[r].op = "dispose" /\ req'[r].op = "record"
               /\ req'[r].order = req[r].order /\ req'[r].units = req[r].units
      BY <1>1, <1>2, <2>2, <2>7 DEF Holding
    <2>8. CASE req'[r] = Idle
      BY <2>8 DEF Idle, Having
    <2> QED BY <2>1, <2>5, <2>6, <2>7, <2>8 DEF RequestMove
  <1>4. ASSUME NEW k \in Units, unit'[k] \in {"DISPATCHED", "RTS"}
        PROVE  Gone(k)'
    <2>1. UnitMove(k)
      BY StepUnits
    <2>2. CASE unit'[k] = unit[k]
      BY <1>1, <1>4, <2>2 DEF GoneInv
    <2>3. ASSUME NEW r \in Requests, k \in req[r].units, UnitWrite(r, k)
          PROVE  Gone(k)'
      <3>1. Holding(req[r])
        BY DEF GoneInv
      <3>2. DisposeWrite(r) => req[r].to \notin {"DISPATCHED", "RTS"}
        BY <1>0, DispatchAssumption DEF DisposeWrite, TypeOK, Request
      <3>3. req[r].op \in {"sync", "verify"}
        BY <1>4, <2>3, <3>2 DEF UnitWrite, SyncWrite, VoidWrite, VerifyWrite
      <3> QED BY <1>1, <2>3, <3>1, <3>3 DEF Holding
    <2> QED BY <1>4, <2>1, <2>2, <2>3 DEF UnitMove
  <1>5. ASSUME NEW r \in Requests, NEW s \in Requests, req'[r].op = "scan", req'[s].op = "sync",
               NEW k \in req'[r].units \cap req'[s].units
        PROVE  \E p \in Orders : p # req'[r].order /\ k \in Tracked(p)' /\ Left(p)'
    <2>1. RequestMove(r) /\ RequestMove(s)
      BY <1>0, StepRequests
    <2>2. req'[r] = req[r] \/ ReadFound(req'[r])
      BY <1>5, <2>1 DEF RequestMove, Idle, Having
    <2>3. req'[s] = req[s] \/ ReadFound(req'[s])
      BY <1>5, <2>1 DEF RequestMove, Idle, Having
    <2>4. k \in loose /\ unit[k] # "PACKED"
      BY <1>5, <2>2 DEF ReadFound, RowInv, ReqRows, OneRow
    <2>5. req'[s] = req[s]
      BY <1>5, <2>3, <2>4 DEF ReadFound
    <2>6. \E p \in Orders : p # req'[r].order /\ k \in Tracked(p) /\ Left(p)
      <3>1. CASE req'[r] = req[r]
        BY <1>5, <2>5, <3>1 DEF GoneInv
      <3>2. CASE ReadFound(req'[r])
        <4>1. InProgress(req'[r].order)
          BY <1>5, <3>2 DEF ReadFound
        <4>2. Gone(k)
          BY <1>5, <2>5 DEF GoneInv, Holding
        <4>3. PICK p \in Orders : k \in Tracked(p) /\ Left(p)
          BY <4>2 DEF Gone
        <4> QED BY <4>1, <4>3 DEF InProgress, Left
      <3> QED BY <2>2, <3>1, <3>2
    <2> QED BY <1>0, <1>2, <2>6, StepLeft
  <1>6. \A r \in Requests : Holding(req[r])'
    BY <1>3 DEF Holding
  <1> QED BY <1>4, <1>5, <1>6 DEF GoneInv

LEMMA GoneInit == Init => GoneInv
  BY DEF Init, GoneInv, Holding, Idle, Having

-----------------------------------------------------------------------------
(* What an order was packed with.                                           *)

LEMMA RowsCounted ==
    ASSUME TypeOK, NEW o \in Orders
    PROVE  /\ IsFiniteSet(PackedRows(o)) /\ Cardinality(PackedRows(o)) \in Nat
           /\ NatValued(past[o], Units) /\ SumFunctionOnSet(past[o], Units) \in Nat
           /\ HistoricRows(o) \in Nat
  <1>1. IsFiniteSet(PackedRows(o))
    BY FS_Subset, DispatchAssumption DEF PackedRows
  <1>2. Cardinality(PackedRows(o)) \in Nat
    BY <1>1, FS_CardinalityType
  <1>3. NatValued(past[o], Units)
    BY DispatchAssumption DEF TypeOK, NatValued
  <1>4. SumFunctionOnSet(past[o], Units) \in Nat
    BY <1>3, SumNat, DispatchAssumption
  <1> QED BY <1>1, <1>2, <1>3, <1>4 DEF HistoricRows

\* Every element of a set counts once.
LEMMA SumOfMembers ==
    ASSUME NEW S, IsFiniteSet(S), NEW A \in SUBSET S, NEW f,
           \A x \in S : f[x] = IF x \in A THEN 1 ELSE 0
    PROVE  SumFunctionOnSet(f, S) = Cardinality(A)
  <1> DEFINE class == [x \in A |-> x]
  <1>1. IsFiniteSet(A)
    BY FS_Subset
  <1>2. ASSUME NEW x \in S PROVE f[x] = Cardinality({k \in A : class[k] = x})
    <2>1. CASE x \in A
      <3>1. {k \in A : class[k] = x} = {x}
        BY <2>1
      <3> QED BY <2>1, <3>1, FS_Singleton
    <2>2. CASE x \notin A
      <3>1. {k \in A : class[k] = x} = {}
        BY <2>2
      <3> QED BY <2>2, <3>1, FS_EmptySet
    <2> QED BY <2>1, <2>2
  <1>3. {k \in A : class[k] \in S} = A
    OBVIOUS
  <1> HIDE DEF class
  <1>4. SumFunctionOnSet(f, S) = Cardinality({k \in A : class[k] \in S})
    BY <1>1, <1>2, SumOfClasses
  <1> QED BY <1>3, <1>4

\* A removed row counts as an earlier packing from then on.
LEMMA RemoveHistoric ==
    ASSUME TypeOK, NEW S, RemoveRows(S), NEW o \in Orders
    PROVE  HistoricRows(o)' = HistoricRows(o)
  <1> DEFINE A == PackedRows(o) \cap S
             g == [k \in Units |-> IF k \in A THEN 1 ELSE 0]
             h == past'[o]
  <1>1. PackedRows(o) \subseteq Units /\ A \subseteq Units
    BY DEF PackedRows
  <1>2. /\ IsFiniteSet(PackedRows(o)) /\ Cardinality(PackedRows(o)) \in Nat
        /\ NatValued(past[o], Units) /\ SumFunctionOnSet(past[o], Units) \in Nat
    BY RowsCounted
  <1>3. PackedRows(o)' = PackedRows(o) \ A
    <2>1. \A k \in Units : packedFor'[k] = IF k \in S THEN NONE ELSE packedFor[k]
      BY DEF RemoveRows
    <2> QED BY <2>1, DispatchAssumption DEF PackedRows
  <1>4. Cardinality(PackedRows(o)') = Cardinality(PackedRows(o)) - Cardinality(A) /\ Cardinality(A) \in Nat
    <2>1. PackedRows(o) \cap A = A
      OBVIOUS
    <2>2. Cardinality(PackedRows(o) \ A) = Cardinality(PackedRows(o)) - Cardinality(PackedRows(o) \cap A)
      BY <1>2, FS_Difference
    <2>3. Cardinality(A) \in Nat
      BY <1>2, FS_Subset, FS_CardinalityType
    <2> QED BY <1>3, <2>1, <2>2, <2>3
  <1>5. SumFunctionOnSet(g, Units) = Cardinality(A)
    <2>1. \A x \in Units : g[x] = IF x \in A THEN 1 ELSE 0
      OBVIOUS
    <2> HIDE DEF g, A
    <2> QED BY <1>1, <2>1, SumOfMembers, DispatchAssumption
  <1>6. SumFunctionOnSet(h, Units) = SumFunctionOnSet(past[o], Units) + SumFunctionOnSet(g, Units)
    <2>1. \A k \in Units : h[k] = past[o][k] + g[k]
      <3> SUFFICES ASSUME NEW k \in Units PROVE h[k] = past[o][k] + g[k]
        OBVIOUS
      <3>1. h[k] = IF k \in S /\ packedFor[k] = o THEN past[o][k] + 1 ELSE past[o][k]
        BY DEF RemoveRows
      <3>2. k \in A <=> k \in S /\ packedFor[k] = o
        BY DEF PackedRows
      <3>3. past[o][k] \in Nat
        BY <1>2 DEF NatValued
      <3> QED BY <3>1, <3>2, <3>3
    <2>2. IntValued(past[o], Units) /\ IntValued(g, Units)
      BY <1>2 DEF NatValued, IntValued
    <2> HIDE DEF g, h
    <2> QED BY <2>1, <2>2, SumPlus, DispatchAssumption
  <1>7. HistoricRows(o)' = Cardinality(PackedRows(o)') + SumFunctionOnSet(h, Units)
    BY DEF HistoricRows
  <1>8. HistoricRows(o) = Cardinality(PackedRows(o)) + SumFunctionOnSet(past[o], Units)
    BY DEF HistoricRows
  <1> HIDE DEF h, g, A
  <1> QED BY <1>2, <1>4, <1>5, <1>6, <1>7, <1>8

\* A pack scan adds one to what its order was packed with.
\* A scan adds one to what its order was packed with.
LEMMA PackHistoric ==
    ASSUME RowInv, NEW k \in Units, NEW o, Packs(k, o)
    PROVE  /\ PackedRows(o)' = PackedRows(o) \cup {k}
           /\ Cardinality(PackedRows(o)') = Cardinality(PackedRows(o)) + 1
           /\ HistoricRows(o)' = HistoricRows(o) + 1
           /\ \A p \in Orders \ {o} : PackedRows(p)' = PackedRows(p) /\ HistoricRows(p)' = HistoricRows(p)
  <1>0. TypeOK
    BY DEF RowInv, TypeInv
  <1>1. /\ packedFor' = [packedFor EXCEPT ![k] = o] /\ past' = past /\ packedFor[k] = NONE
        /\ o \in Orders
    BY PacksDoes
  <1>2. PackedRows(o)' = PackedRows(o) \cup {k} /\ k \notin PackedRows(o)
    BY <1>0, <1>1, DispatchAssumption DEF PackedRows, TypeOK
  <1>3. Cardinality(PackedRows(o) \cup {k}) = Cardinality(PackedRows(o)) + 1
    BY <1>0, <1>1, <1>2, RowsCounted, FS_AddElement
  <1>4. Cardinality(PackedRows(o)') = Cardinality(PackedRows(o)) + 1
    BY <1>2, <1>3
  <1>5. HistoricRows(o)' = HistoricRows(o) + 1
    <2>1. HistoricRows(o)' = Cardinality(PackedRows(o)') + SumFunctionOnSet(past[o], Units)
      BY <1>1 DEF HistoricRows
    <2> QED BY <1>0, <1>1, <1>4, <2>1, RowsCounted DEF HistoricRows
  <1>6. ASSUME NEW p \in Orders \ {o}
        PROVE  PackedRows(p)' = PackedRows(p) /\ HistoricRows(p)' = HistoricRows(p)
    <2>1. PackedRows(p)' = PackedRows(p)
      BY <1>0, <1>1, DispatchAssumption DEF PackedRows, TypeOK
    <2> QED BY <1>1, <2>1 DEF HistoricRows
  <1> QED BY <1>2, <1>4, <1>5, <1>6

\* What an order was packed with is never forgotten, and grows with a scan only.
LEMMA StepHistoric ==
    ASSUME RowInv, [Next]_vars, NEW o \in Orders
    PROVE  /\ HistoricRows(o)' >= HistoricRows(o) /\ HistoricRows(o) \in Nat /\ HistoricRows(o)' \in Nat
           /\ HistoricRows(o)' = HistoricRows(o) \/ \E k \in Units : Packs(k, o)
  <1>0. TypeOK
    BY DEF RowInv, TypeInv
  <1> DEFINE Goal == \/ HistoricRows(o)' = HistoricRows(o)
                     \/ HistoricRows(o)' = HistoricRows(o) + 1 /\ \E k \in Units : Packs(k, o)
  <1>1. HistoricRows(o) \in Nat
    BY <1>0, RowsCounted
  <1> SUFFICES Goal
    BY <1>1
  <1>2. ASSUME UNCHANGED <<packedFor, past>> PROVE Goal
    BY <1>2 DEF HistoricRows, PackedRows
  <1>3. ASSUME NEW S, RemoveRows(S) PROVE Goal
    BY <1>0, <1>3, RemoveHistoric
  <1>4. ASSUME NEW r \in Requests, NEW k \in Units, ScanWrite(r, k) PROVE Goal
    <2>1. Packs(k, req[r].order)
      BY <1>4 DEF Packs
    <2>2. CASE req[r].order = o
      <3>1. Packs(k, o)
        BY <2>1, <2>2
      <3> QED BY <3>1, PackHistoric
    <2>3. CASE req[r].order # o
      BY <2>1, <2>3, PackHistoric
    <2> QED BY <2>2, <2>3
  <1> HIDE DEF Goal
  <1>5. ASSUME UNCHANGED rows PROVE Goal
    BY <1>2, <1>5 DEF rows
  <1>6. ASSUME UNCHANGED others PROVE Goal
    BY <1>5, <1>6 DEF others
  <1>7. ASSUME NEW k \in Units, Pick(k) PROVE Goal
    BY <1>2, <1>7 DEF Pick
  <1>8. ASSUME NEW p \in Orders, Assign(p) \/ HandOff(p) \/ \E s \in PosStatus : PosUpdate(p, s)
        PROVE Goal
    BY <1>5, <1>8 DEF Assign, HandOff, PosUpdate
  <1>9. ASSUME NEW p \in Orders, PackVoid(p) PROVE Goal
    BY <1>3, <1>9 DEF PackVoid
  <1>10. ASSUME NEW r \in Requests,
                CompleteWrite(r) \/ CancelWrite(r) \/ VoidWrite(r) \/ DisposeWrite(r)
         PROVE  Goal
    BY <1>3, <1>10 DEF CompleteWrite, CancelWrite, VoidWrite, DisposeWrite
  <1>11. ASSUME NEW r \in Requests,
                StartWrite(r) \/ SyncWrite(r) \/ RepairWrite(r) \/ VerifyWrite(r) \/ Record(r)
         PROVE  Goal
    BY <1>5, <1>11 DEF StartWrite, SyncWrite, RepairWrite, VerifyWrite, Record
  <1> QED BY <1>4, <1>6, <1>7, <1>8, <1>9, <1>10, <1>11, StepOf DEF Acts, Writes

-----------------------------------------------------------------------------
(* Packed units have an order.                                              *)

\* A dispatch void or a repair has read the order and not written it.
Reopening(o) == \E r \in Requests : req[r].op \in {"void", "repair"} /\ req[r].order = o

\* A completion has.
Completing(o) == \E r \in Requests : req[r].op = "complete" /\ req[r].order = o

\* An order is packed, and read by those, when it has all its units.  Unless it
\* was written late, none is in the basket then; one it gets there before they
\* write is one too many.
FullInv ==
    \A o \in Orders :
        /\ order[o] = "PACKED" \/ Reopening(o) \/ Completing(o) => HistoricRows(o) >= Need[o]
        /\ o \notin late /\ order[o] = "PACKED" => \A k \in Units : packedFor[k] # o
        /\ o \notin late /\ Reopening(o) =>
              \A k \in Units : packedFor[k] = o => HistoricRows(o) > Need[o]

\* A new reader has found the order packed, a new completion all its units.
LEMMA StepReopening ==
    ASSUME TypeOK, [Next]_vars, NEW o \in Orders
    PROVE  /\ Reopening(o)' => Reopening(o) \/ (order[o] = "PACKED" /\ UNCHANGED others)
           /\ Completing(o)' => Completing(o) \/ AllPacked(o)
  <1>1. ASSUME NEW r \in Requests, req'[r].op \in {"void", "repair"}, req'[r].order = o
        PROVE  Reopening(o) \/ (order[o] = "PACKED" /\ UNCHANGED others)
    <2>1. RequestMove(r)
      BY StepRequests
    <2> QED BY <1>1, <2>1 DEF RequestMove, ReadFound, Reopening, Idle, Having
  <1>2. ASSUME NEW r \in Requests, req'[r].op = "complete", req'[r].order = o
        PROVE  Completing(o) \/ AllPacked(o)
    <2>1. RequestMove(r)
      BY StepRequests
    <2> QED BY <1>2, <2>1 DEF RequestMove, ReadFound, Completing, Idle, Having
  <1> QED BY <1>1, <1>2 DEF Reopening, Completing

LEMMA FullStep ==
    ASSUME RowInv, FullInv, [Next]_vars
    PROVE  FullInv'
  <1> USE DispatchAssumption
  <1>0. TypeOK
    BY DEF RowInv, TypeInv
  <1> SUFFICES ASSUME NEW o \in Orders
               PROVE  /\ order'[o] = "PACKED" \/ Reopening(o)' \/ Completing(o)' =>
                            HistoricRows(o)' >= Need[o]
                      /\ o \notin late' /\ order'[o] = "PACKED" => \A k \in Units : packedFor'[k] # o
                      /\ o \notin late' /\ Reopening(o)' =>
                            \A k \in Units : packedFor'[k] = o => HistoricRows(o)' > Need[o]
    BY DEF FullInv
  <1>1. /\ order[o] = "PACKED" \/ Reopening(o) \/ Completing(o) => HistoricRows(o) >= Need[o]
        /\ o \notin late /\ order[o] = "PACKED" => \A k \in Units : packedFor[k] # o
        /\ o \notin late /\ Reopening(o) =>
              \A k \in Units : packedFor[k] = o => HistoricRows(o) > Need[o]
    BY DEF FullInv
  <1>2. HistoricRows(o)' >= HistoricRows(o) /\ HistoricRows(o) \in Nat /\ HistoricRows(o)' \in Nat
        /\ Need[o] \in Nat
    BY StepHistoric
  <1>3. OrderMove(o) /\ late \subseteq late'
    BY <1>0, StepOrders
  <1>4. /\ Reopening(o)' => Reopening(o) \/ (order[o] = "PACKED" /\ UNCHANGED others)
        /\ Completing(o)' => Completing(o) \/ AllPacked(o)
    BY <1>0, StepReopening
  <1>5. ASSUME o \notin late', NEW k \in Units, packedFor'[k] = o, packedFor[k] # o
        PROVE  order[o] = "PACKING" /\ order'[o] = "PACKING" /\ HistoricRows(o)' = HistoricRows(o) + 1
    <2>1. RowMove(k)
      BY StepRows
    <2>2. Packs(k, o)
      BY <1>5, <2>1 DEF RowMove
    <2>3. InProgress(o) /\ order' = order
      BY <1>5, <2>2, PacksDoes
    <2> QED BY <2>2, <2>3, PackHistoric DEF InProgress
  <1>6. ASSUME o \notin late', order'[o] = "PACKED", NEW k \in Units PROVE packedFor'[k] # o
    <2>1. ASSUME NEW r \in Requests, CompleteWrite(r), req[r].order = o PROVE packedFor'[k] # o
      BY <2>1 DEF CompleteWrite, RemoveRows, PackedRows
    <2>2. CASE order[o] = "PACKED"
      BY <1>1, <1>3, <1>5, <1>6, <2>2
    <2> QED BY <1>3, <1>6, <2>1, <2>2 DEF OrderMove
  <1>7. ASSUME order'[o] = "PACKED" \/ Reopening(o)' \/ Completing(o)' PROVE HistoricRows(o)' >= Need[o]
    <2>1. order'[o] = "PACKED" => order[o] = "PACKED" \/ Completing(o)
      BY <1>3 DEF OrderMove, CompleteWrite, Completing
    <2>2. HistoricRows(o) >= Need[o]
      BY <1>1, <1>4, <1>7, <2>1 DEF AllPacked
    <2> QED BY <1>2, <2>2
  <1>8. ASSUME o \notin late', Reopening(o)', NEW k \in Units, packedFor'[k] = o
        PROVE  HistoricRows(o)' > Need[o]
    <2>1. CASE packedFor[k] = o
      <3>1. Reopening(o)
        BY <1>1, <1>3, <1>4, <1>8, <2>1
      <3>2. HistoricRows(o) > Need[o]
        BY <1>1, <1>3, <1>8, <2>1, <3>1
      <3> QED BY <1>2, <3>2
    <2>2. CASE packedFor[k] # o
      <3>1. order[o] = "PACKING" /\ HistoricRows(o)' = HistoricRows(o) + 1
        BY <1>5, <1>8, <2>2
      <3>2. HistoricRows(o) >= Need[o]
        BY <1>1, <1>4, <1>8, <3>1
      <3> QED BY <1>2, <3>1, <3>2
    <2> QED BY <2>1, <2>2
  <1> QED BY <1>6, <1>7, <1>8

\* The order a packed unit is settled in: nobody who read it before the unit was
\* packed will reopen it without the unit, or somebody has already written it late.
Settled(k, o) ==
    /\ k \in Tracked(o)
    /\ \/ o \in late
       \/ HistoricRows(o) > Need[o]
       \/ order[o] = "CANCELED"
       \/ /\ order[o] = "PACKED"
          /\ \A r \in Requests : req[r].order = o =>
                req[r].op # "repair" /\ (req[r].op = "void" => k \in req[r].units)

SettledInv ==
    \A k \in Units : unit[k] = "PACKED" /\ packedFor[k] = NONE => \E o \in Orders : Settled(k, o)

LEMMA SettledStays ==
    ASSUME RowInv, [Next]_vars, NEW k \in Units, NEW o \in Orders, Settled(k, o),
           unit[k] = "PACKED", unit'[k] = "PACKED"
    PROVE  Settled(k, o)'
  <1> USE DispatchAssumption
  <1>0. TypeOK
    BY DEF RowInv, TypeInv
  <1>1. k \in Tracked(o)'
    BY StepTracked DEF Settled
  <1>2. OrderMove(o) /\ late \subseteq late'
    BY <1>0, StepOrders
  <1>3. CASE o \in late'
    BY <1>1, <1>3 DEF Settled
  <1>4. CASE HistoricRows(o) > Need[o]
    <2>1. HistoricRows(o)' > Need[o]
      BY <1>4, StepHistoric
    <2> QED BY <1>1, <2>1 DEF Settled
  <1>5. CASE order[o] = "CANCELED" /\ o \notin late'
    <2>1. order'[o] = "CANCELED"
      BY <1>2, <1>5 DEF OrderMove, Startable, InProgress
    <2> QED BY <1>1, <2>1 DEF Settled
  <1>6. CASE /\ order[o] = "PACKED" /\ o \notin late'
             /\ \A r \in Requests : req[r].order = o =>
                   req[r].op # "repair" /\ (req[r].op = "void" => k \in req[r].units)
    <2>1. ASSUME NEW r \in Requests, req[r].order = o, VoidWrite(r) \/ RepairWrite(r) PROVE FALSE
      <3>1. VoidWrite(r)
        BY <1>6, <2>1 DEF RepairWrite
      <3>2. k \in req[r].units
        BY <1>6, <2>1, <3>1 DEF VoidWrite
      <3>3. unit'[k] = "PUTAWAY"
        BY <3>1, <3>2 DEF VoidWrite, Restored
      <3> QED BY <3>3
    <2>2. order'[o] \in {"PACKED", "CANCELED"}
      BY <1>2, <1>6, <2>1 DEF OrderMove, Startable
    <2>3. ASSUME NEW r \in Requests, req'[r].order = o
          PROVE  req'[r].op # "repair" /\ (req'[r].op = "void" => k \in req'[r].units)
      <3>1. RequestMove(r)
        BY <1>0, StepRequests
      <3>2. k \in Tracked(o)
        BY DEF Settled
      <3>3. CASE ReadFound(req'[r])
        BY <2>3, <3>2, <3>3 DEF ReadFound
      <3> QED BY <1>6, <2>3, <3>1, <3>3 DEF RequestMove, Idle, Having
    <2> QED BY <1>1, <2>2, <2>3 DEF Settled
  <1> QED BY <1>2, <1>3, <1>4, <1>5, <1>6 DEF Settled

LEMMA SettledStep ==
    ASSUME RowInv, FullInv, SettledInv, [Next]_vars
    PROVE  SettledInv'
  <1> USE DispatchAssumption
  <1>0. TypeOK
    BY DEF RowInv, TypeInv
  <1> SUFFICES ASSUME NEW k \in Units, unit'[k] = "PACKED", packedFor'[k] = NONE
               PROVE  \E o \in Orders : Settled(k, o)'
    BY DEF SettledInv
  <1>1. RowMove(k) /\ UnitMove(k)
    BY StepRows, StepUnits
  <1>2. CASE packedFor[k] = NONE
    <2>1. ASSUME NEW o \in Orders, Packs(k, o) PROVE FALSE
      <3>1. packedFor' = [packedFor EXCEPT ![k] = o]
        BY <2>1, PacksDoes
      <3> QED BY <1>0, <3>1 DEF TypeOK
    <2>2. ASSUME NEW r \in Requests, UnitWrite(r, k) PROVE FALSE
      <3>1. DisposeWrite(r) => req[r].to # "PACKED"
        BY <1>0 DEF DisposeWrite, TypeOK, Request
      <3> QED BY <2>2, <3>1 DEF UnitWrite
    <2>3. unit[k] = "PACKED"
      BY <1>1, <2>1, <2>2 DEF UnitMove
    <2>4. PICK o \in Orders : Settled(k, o)
      BY <1>2, <2>3 DEF SettledInv
    <2> QED BY <2>3, <2>4, SettledStays
  <1>3. CASE packedFor[k] # NONE
    <2>1. PICK r \in Requests : packedFor[k] = req[r].order /\ (CompleteWrite(r) \/ CancelWrite(r))
      BY <1>1, <1>3 DEF RowMove
    <2>2. PICK o \in Orders : req[r].order = o
      BY <1>0, <2>1, HeldType DEF CompleteWrite, CancelWrite
    <2>3. k \in Tracked(o)'
      <3>1. k \in Tracked(o)
        BY <2>1, <2>2 DEF Tracked, PackedRows
      <3> QED BY <3>1, StepTracked
    <2>4. CASE CancelWrite(r)
      <3>1. order'[o] = "CANCELED"
        BY <1>0, <2>2, <2>4 DEF CancelWrite, TypeOK
      <3> QED BY <2>2, <2>3, <3>1 DEF Settled
    <2>5. CASE CompleteWrite(r) /\ o \in late'
      BY <2>2, <2>3, <2>5 DEF Settled
    <2>6. CASE CompleteWrite(r) /\ o \notin late' /\ Reopening(o)
      <3>1. o \notin late
        BY <1>0, <2>6, StepOrders
      <3>2. HistoricRows(o) > Need[o]
        BY <2>1, <2>2, <2>6, <3>1 DEF FullInv
      <3>3. HistoricRows(o)' > Need[o]
        BY <2>2, <3>2, StepHistoric
      <3> QED BY <2>2, <2>3, <3>3 DEF Settled
    <2>7. CASE CompleteWrite(r) /\ ~Reopening(o)
      <3>1. order'[o] = "PACKED" /\ End(r)
        BY <1>0, <2>2, <2>7 DEF CompleteWrite, TypeOK
      <3>2. ASSUME NEW s \in Requests, req'[s].order = o PROVE req'[s].op \notin {"void", "repair"}
        <4>1. req'[s] = req[s] \/ req'[s] = Idle
          BY <1>0, <3>1 DEF End, TypeOK
        <4> QED BY <2>7, <3>2, <4>1 DEF Reopening, Idle, Having
      <3> QED BY <2>2, <2>3, <3>1, <3>2 DEF Settled
    <2> QED BY <2>1, <2>4, <2>5, <2>6, <2>7
  <1> QED BY <1>2, <1>3

\* A unit packed outside any basket has an order that is packed, or that the
\* cancellation sync canceled (CancelWrite), or that was packed more than once, or
\* that a start, a scan or a completion wrote without seeing what had come between
\* its reading and its write: releaseDemandOrderForDispatchVoidTx, its repair and
\* an unlocked cancellation, which go by what they read as well, leave none of an
\* order's units packed for nobody.
THEOREM NoOrphanedUnits == Spec => []PackedUnitHasOrder
  <1>1. Init => RowInv /\ FullInv /\ SettledInv
    <2>1. Init => FullInv /\ SettledInv
      BY DispatchAssumption DEF Init, FullInv, SettledInv, Reopening, Completing, Idle, Having
    <2> QED BY <2>1, InitRow
  <1>2. RowInv /\ FullInv /\ SettledInv /\ [Next]_vars => (RowInv /\ FullInv /\ SettledInv)'
    BY StepRow, FullStep, SettledStep
  <1>3. RowInv /\ FullInv /\ SettledInv => PackedUnitHasOrder
    BY DEF SettledInv, Settled, PackedUnitHasOrder
  <1> QED BY <1>1, <1>2, <1>3, PTL DEF Spec

-----------------------------------------------------------------------------
(* Returns, where Pancake takes no order back out of "returned".             *)

ReturnedIsFinal == \A step \in PosSteps : step[1] = "returned" => step[2] = "returned"

\* A verification and a disposition have found their order returned.
ReturnSeen ==
    \A r \in Requests : req[r].op \in {"verify", "dispose"} =>
        \A o \in Orders : req[r].order = o => pos[o] = "returned"

LEMMA ReturnSeenStep ==
    ASSUME ReturnedIsFinal, TypeOK, ReturnSeen, [Next]_vars
    PROVE  /\ ReturnSeen'
           /\ \A o \in Orders : pos[o] = "returned" => pos'[o] = "returned"
  <1>1. ASSUME NEW o \in Orders, pos[o] = "returned" PROVE pos'[o] = "returned"
    <2>1. pos'[o] = pos[o] \/ <<pos[o], pos'[o]>> \in PosSteps
      BY StepPos
    <2>2. <<pos[o], pos'[o]>> \in PosSteps => pos'[o] = "returned"
      BY <1>1 DEF ReturnedIsFinal
    <2> QED BY <1>1, <2>1, <2>2
  <1>2. ASSUME NEW r \in Requests, req'[r].op \in {"verify", "dispose"},
               NEW o \in Orders, req'[r].order = o
        PROVE  pos'[o] = "returned"
    <2>1. RequestMove(r)
      BY StepRequests
    <2>2. pos[o] = "returned"
      BY <1>2, <2>1 DEF RequestMove, ReadFound, MayReturn, ReturnSeen, Idle, Having
    <2> QED BY <1>1, <2>2
  <1> QED BY <1>1, <1>2 DEF ReturnSeen

\* A unit once tracked for two orders always is.
LEMMA StepShared ==
    ASSUME RowInv, [Next]_vars
    PROVE  /\ \A k : Shared(k) => Shared(k)'
           /\ \A o \in Orders : Alone(o)' => Alone(o)
  <1>1. \A o \in Orders : Tracked(o) \subseteq Tracked(o)'
    BY StepTracked
  <1>2. ASSUME NEW k, Shared(k) PROVE Shared(k)'
    BY <1>1, <1>2 DEF Shared
  <1>3. ASSUME NEW o \in Orders, Alone(o)' PROVE Alone(o)
    BY <1>1, <1>2, <1>3 DEF Alone
  <1> QED BY <1>2, <1>3

\* Only a scan makes a unit tracked for an order.
LEMMA NewlyTracked ==
    ASSUME RowInv, [Next]_vars, NEW o \in Orders, NEW k \in Tracked(o)', k \notin Tracked(o)
    PROVE  Packs(k, o)
  <1>1. k \in Units /\ (packedFor'[k] = o \/ past'[o][k] > 0)
    BY DEF Tracked, PackedRows
  <1>2. packedFor[k] # o /\ ~(past[o][k] > 0)
    BY <1>1 DEF Tracked, PackedRows
  <1>3. RowMove(k) /\ PastMove(o, k)
    BY <1>1, StepRows
  <1>4. past'[o][k] = past[o][k]
    BY <1>2, <1>3 DEF PastMove
  <1>5. packedFor'[k] = o
    BY <1>1, <1>2, <1>4
  <1> QED BY <1>2, <1>3, <1>5, DispatchAssumption DEF RowMove

\* A unit whose orders include one that left is shared, or that is its order.
LEMMA GoneOrShared ==
    ASSUME NEW o \in Orders, NEW k \in Tracked(o), Gone(k)
    PROVE  Left(o) \/ Shared(k)
  BY DEF Gone, Shared

\* Held by the void, cancellation, verification or disposition of an order, a unit
\* is its order's.
LEMMA HeldByOther ==
    ASSUME RowInv, GoneInv, NEW r \in Requests, NEW o \in Orders, NEW k \in Tracked(o),
           k \in req[r].units, req[r].op \in {"void", "cancel", "verify", "dispose", "record"},
           req[r].order # o
    PROVE  Shared(k)
  <1>1. req[r].order \in Orders
    BY HeldType DEF RowInv, TypeInv
  <1>2. k \in Tracked(req[r].order)
    BY <1>1 DEF GoneInv, Holding
  <1> QED BY <1>1, <1>2 DEF Shared

\* The unit is not at the courier, nor on its way there.
Quiet(k) ==
    /\ unit[k] # "DISPATCHED"
    /\ unit[k] = "PACKED" => \A r \in Requests : req[r].op = "sync" => k \notin req[r].units

\* A unit that is packed is quiet, or another order had it before: a sync that
\* still holds it read it packed for that one.
LEMMA PackedQuiet ==
    ASSUME RowInv, GoneInv, [Next]_vars, NEW k \in Units, NEW o, Packs(k, o)
    PROVE  unit'[k] = "PACKED" /\ (Shared(k)' \/ Quiet(k)')
  <1>0. TypeOK /\ req \in [Requests -> Request]
    BY DEF RowInv, TypeInv, TypeOK
  <1>1. /\ o \in Orders /\ unit' = [unit EXCEPT ![k] = "PACKED"]
        /\ req' = WithoutScansOf({k}, req)
    BY PacksDoes
  <1>2. PICK r \in Requests : req[r].op = "scan" /\ req[r].order = o /\ req[r].units = {k}
    BY DEF Packs, ScanWrite
  <1>3. unit'[k] = "PACKED"
    BY <1>0, <1>1 DEF TypeOK
  <1>4. ASSUME NEW s \in Requests, req'[s].op = "sync", k \in req'[s].units PROVE Shared(k)'
    <2>1. req'[s] = req[s]
      BY <1>0, <1>1, <1>4, WithoutType DEF Idle, Having
    <2>2. PICK p \in Orders : p # o /\ k \in Tracked(p)
      BY <1>2, <1>4, <2>1 DEF GoneInv
    <2>3. k \in Tracked(p)'
      BY <2>2, StepTracked
    <2>4. k \in Tracked(o)'
      BY PackHistoric DEF Tracked
    <2> QED BY <1>1, <2>2, <2>3, <2>4 DEF Shared
  <1> QED BY <1>3, <1>4 DEF Quiet

\* A returned order's unit stays quiet, unless another order has it as well.
LEMMA QuietStep ==
    ASSUME RowInv, GoneInv, [Next]_vars, NEW o \in Orders, NEW k \in Tracked(o),
           pos[o] = "returned", Quiet(k), ~Shared(k)
    PROVE  Shared(k)' \/ Quiet(k)'
  <1>0. TypeOK
    BY DEF RowInv, TypeInv
  <1>1. k \in Units
    BY DEF Tracked, PackedRows
  <1>2. UnitMove(k)
    BY <1>1, StepUnits
  <1>3. CASE unit'[k] = unit[k]
    <2>1. ASSUME NEW r \in Requests, unit'[k] = "PACKED", req'[r].op = "sync", k \in req'[r].units
          PROVE  FALSE
      <3>1. RequestMove(r)
        BY <1>0, StepRequests
      <3>2. ReadFound(req'[r])
        BY <1>3, <2>1, <3>1 DEF RequestMove, Quiet, Idle, Having
      <3>3. PICK p \in Orders : k \in Tracked(p) /\ pos[p] = "shipped"
        BY <2>1, <3>2 DEF ReadFound
      <3>4. p # o
        BY <3>3
      <3> QED BY <3>3, <3>4 DEF Shared
    <2> QED BY <1>3, <2>1 DEF Quiet
  <1>4. ASSUME NEW p \in Orders, Packs(k, p) PROVE Shared(k)' \/ Quiet(k)'
    BY <1>1, <1>4, PackedQuiet
  <1>5. ASSUME NEW r \in Requests, k \in req[r].units, UnitWrite(r, k) PROVE Quiet(k)'
    <2>1. ~SyncWrite(r) \/ unit[k] # "PACKED"
      BY <1>5 DEF SyncWrite, Quiet
    <2>2. DisposeWrite(r) => req[r].to \in {"PUTAWAY", "DAMAGED"}
      BY <1>0, DispatchAssumption DEF DisposeWrite, TypeOK, Request
    <2>3. unit'[k] \in {"PUTAWAY", "RTS", "DAMAGED"}
      BY <1>5, <2>1, <2>2 DEF UnitWrite
    <2> QED BY <2>3 DEF Quiet
  <1>6. CASE unit'[k] \in {"PICKED", "PUTAWAY"}
    BY <1>6 DEF Quiet
  <1> QED BY <1>2, <1>3, <1>4, <1>5, <1>6 DEF UnitMove

\* A unit whose disposition is recorded, or will be, for an order.
RecordHeld(o, k) ==
    \/ k \in recorded[o]
    \/ \E r \in Requests : req[r].op = "record" /\ req[r].order = o /\ k \in req[r].units

\* Such a unit is not dispatched again, unless another order has it as well.
Handled(o, k) ==
    Shared(k) \/ (pos[o] = "returned" /\ k \in Tracked(o) /\ Quiet(k))

RecordInv == \A o \in Orders, k \in Units : RecordHeld(o, k) => Handled(o, k)

\* recordStockActivity comes after the commit of the disposition it records.
LEMMA StepRecorded ==
    ASSUME TypeOK, [Next]_vars, NEW o \in Orders, NEW k, RecordHeld(o, k)'
    PROVE  \/ RecordHeld(o, k)
           \/ \E r \in Requests : DisposeWrite(r) /\ req[r].order = o /\ k \in req[r].units
  <1> DEFINE Goal == \/ RecordHeld(o, k)
                     \/ \E r \in Requests : DisposeWrite(r) /\ req[r].order = o /\ k \in req[r].units
  <1> SUFFICES Goal
    OBVIOUS
  <1>1. ASSUME NEW r \in Requests, req'[r].op = "record", req'[r].order = o, k \in req'[r].units
        PROVE  Goal
    <2>1. RequestMove(r)
      BY StepRequests
    <2> QED BY <1>1, <2>1 DEF RequestMove, ReadFound, RecordHeld, Idle, Having
  <1>2. ASSUME k \in recorded'[o], k \notin recorded[o] PROVE Goal
    <2>1. ASSUME NEW r \in Requests, Record(r) PROVE Goal
      BY <1>2, <2>1 DEF Record, TypeOK, RecordHeld
    <2> HIDE DEF Goal
    <2>2. ASSUME UNCHANGED recorded PROVE FALSE
      BY <1>2, <2>2
    <2>3. ASSUME UNCHANGED others PROVE FALSE
      BY <2>2, <2>3 DEF others
    <2>4. ASSUME NEW j \in Units, Pick(j) PROVE FALSE
      BY <2>2, <2>4 DEF Pick
    <2>5. ASSUME NEW p \in Orders, Assign(p) \/ HandOff(p) \/ PackVoid(p) PROVE FALSE
      BY <2>2, <2>5 DEF Assign, HandOff, PackVoid
    <2>6. ASSUME NEW p \in Orders, NEW s \in PosStatus, PosUpdate(p, s) PROVE FALSE
      BY <2>2, <2>6 DEF PosUpdate
    <2>7. ASSUME NEW r \in Requests,
                 \/ StartWrite(r) \/ CompleteWrite(r) \/ CancelWrite(r) \/ SyncWrite(r)
                 \/ VoidWrite(r) \/ RepairWrite(r) \/ VerifyWrite(r) \/ DisposeWrite(r)
                 \/ \E j \in Units : ScanWrite(r, j)
          PROVE  FALSE
      BY <2>2, <2>7 DEF StartWrite, ScanWrite, CompleteWrite, CancelWrite, SyncWrite, VoidWrite,
                        RepairWrite, VerifyWrite, DisposeWrite
    <2> QED BY <2>1, <2>3, <2>4, <2>5, <2>6, <2>7, StepOf DEF Acts, Writes
  <1>3. \/ k \in recorded'[o]
        \/ \E r \in Requests : req'[r].op = "record" /\ req'[r].order = o /\ k \in req'[r].units
    BY DEF RecordHeld
  <1>4. CASE k \in recorded[o]
    BY <1>4 DEF RecordHeld
  <1> QED BY <1>1, <1>2, <1>3, <1>4

LEMMA RecordStep ==
    ASSUME ReturnedIsFinal, RowInv, GoneInv, ReturnSeen, RecordInv, [Next]_vars
    PROVE  RecordInv'
  <1> USE DispatchAssumption
  <1>0. TypeOK
    BY DEF RowInv, TypeInv
  <1> SUFFICES ASSUME NEW o \in Orders, NEW k \in Units, RecordHeld(o, k)'
               PROVE  Handled(o, k)'
    BY DEF RecordInv
  <1>1. CASE Shared(k)
    BY <1>1, StepShared DEF Handled
  <1>2. ASSUME pos[o] = "returned", k \in Tracked(o) PROVE pos'[o] = "returned" /\ k \in Tracked(o)'
    BY <1>0, <1>2, ReturnSeenStep, StepTracked
  <1>3. CASE RecordHeld(o, k) /\ ~Shared(k)
    <2>1. pos[o] = "returned" /\ k \in Tracked(o) /\ Quiet(k)
      BY <1>3 DEF RecordInv, Handled
    <2>2. Shared(k)' \/ Quiet(k)'
      BY <1>3, <2>1, QuietStep
    <2> QED BY <1>2, <2>1, <2>2 DEF Handled
  <1>4. ASSUME NEW r \in Requests, DisposeWrite(r), req[r].order = o, k \in req[r].units
        PROVE  Handled(o, k)'
    <2>1. req[r].op = "dispose" /\ req[r].to \notin {"PACKED", "DISPATCHED"}
      BY <1>0, <1>4 DEF DisposeWrite, TypeOK, Request
    <2>2. k \in Tracked(o) /\ pos[o] = "returned"
      BY <1>4, <2>1 DEF GoneInv, Holding, ReturnSeen
    <2>3. unit'[k] \notin {"PACKED", "DISPATCHED"}
      BY <1>4, <2>1 DEF DisposeWrite
    <2> QED BY <1>2, <2>2, <2>3 DEF Handled, Quiet
  <1> QED BY <1>0, <1>1, <1>3, <1>4, StepRecorded

\* A unit that is neither at the courier nor at the return location, nor on its
\* way there, unless another order has it as well.
Back(k) == Shared(k) \/ (Quiet(k) /\ unit[k] # "RTS")

BackInv ==
    \A o \in Orders : disposed[o] => pos[o] = "returned" /\ \A k \in Tracked(o) : Back(k)

\* An order is marked disposed by the disposition that completes it, and the mark
\* goes with the next verification.
LEMMA StepDisposed ==
    ASSUME TypeOK, [Next]_vars, NEW o \in Orders, disposed'[o]
    PROVE  \/ disposed[o] /\ \A r \in Requests : VerifyWrite(r) => req[r].order # o
           \/ \E r \in Requests : DisposeWrite(r) /\ req[r].order = o /\ ReturnComplete(o, unit')
  <1> DEFINE Kept0 == disposed[o] /\ \A r \in Requests : VerifyWrite(r) => req[r].order # o
             Goal == \/ Kept0
                     \/ \E r \in Requests : DisposeWrite(r) /\ req[r].order = o /\ ReturnComplete(o, unit')
  <1> SUFFICES Goal
    OBVIOUS
  <1>1. ASSUME NEW r \in Requests, VerifyWrite(r) PROVE req[r].order # o
    <2>1. disposed' = [disposed EXCEPT ![req[r].order] = FALSE]
      BY <1>1 DEF VerifyWrite
    <2> QED BY <2>1 DEF TypeOK
  <1>2. ASSUME disposed[o] PROVE Goal
    BY <1>1, <1>2
  <1>3. ASSUME NEW r \in Requests, DisposeWrite(r) PROVE Goal
    <2>1. disposed' = [disposed EXCEPT ![req[r].order] = ReturnComplete(req[r].order, unit')]
      BY <1>3 DEF DisposeWrite
    <2>2. CASE req[r].order = o
      <3>1. disposed'[o] = ReturnComplete(o, unit')
        BY <2>1, <2>2 DEF TypeOK
      <3> QED BY <1>3, <2>2, <3>1
    <2>3. CASE req[r].order # o
      <3>1. disposed'[o] = disposed[o]
        BY <2>1, <2>3 DEF TypeOK
      <3> QED BY <1>2, <3>1
    <2> QED BY <2>2, <2>3
  <1> HIDE DEF Goal, Kept0
  <1>4. ASSUME UNCHANGED disposed PROVE Goal
    BY <1>2, <1>4
  <1>5. ASSUME UNCHANGED others PROVE Goal
    BY <1>4, <1>5 DEF others
  <1>6. ASSUME NEW k \in Units, Pick(k) PROVE Goal
    BY <1>4, <1>6 DEF Pick
  <1>7. ASSUME NEW p \in Orders, Assign(p) \/ HandOff(p) \/ PackVoid(p) PROVE Goal
    BY <1>4, <1>7 DEF Assign, HandOff, PackVoid
  <1>8. ASSUME NEW p \in Orders, NEW s \in PosStatus, PosUpdate(p, s) PROVE Goal
    BY <1>4, <1>8 DEF PosUpdate
  <1>9. ASSUME NEW r \in Requests,
               \/ StartWrite(r) \/ CompleteWrite(r) \/ CancelWrite(r) \/ SyncWrite(r)
               \/ VoidWrite(r) \/ RepairWrite(r) \/ Record(r) \/ \E k \in Units : ScanWrite(r, k)
        PROVE Goal
    BY <1>4, <1>9 DEF StartWrite, ScanWrite, CompleteWrite, CancelWrite, SyncWrite, VoidWrite,
                      RepairWrite, Record
  <1>10. ASSUME NEW r \in Requests, VerifyWrite(r) PROVE Goal
    <2>1. disposed'[o] = disposed[o]
      BY <1>1, <1>10 DEF VerifyWrite, TypeOK
    <2> QED BY <1>2, <2>1
  <1> QED BY <1>3, <1>5, <1>6, <1>7, <1>8, <1>9, <1>10, StepOf DEF Acts, Writes

LEMMA BackStep ==
    ASSUME ReturnedIsFinal, RowInv, GoneInv, ReturnSeen, RecordInv, BackInv, [Next]_vars
    PROVE  BackInv'
  <1> USE DispatchAssumption
  <1>0. TypeOK
    BY DEF RowInv, TypeInv
  <1>1. \A k : Shared(k) => Shared(k)'
    BY StepShared
  <1>2. ASSUME NEW r \in Requests, DisposeWrite(r)
        PROVE  req[r].op = "dispose" /\ req[r].to \in {"PUTAWAY", "DAMAGED"}
    BY <1>0, <1>2 DEF DisposeWrite, TypeOK, Request
  <1>3. ASSUME NEW o \in Orders, disposed[o],
               \A r \in Requests : VerifyWrite(r) => req[r].order # o,
               NEW k \in Tracked(o)
        PROVE  Back(k)'
    <2>0. k \in Units
      BY DEF Tracked, PackedRows
    <2>1. Back(k) /\ pos[o] = "returned"
      BY <1>3 DEF BackInv
    <2>2. CASE Shared(k)
      BY <1>1, <2>2 DEF Back
    <2>3. CASE ~Shared(k)
      <3>1. Quiet(k) /\ unit[k] # "RTS"
        BY <2>1, <2>3 DEF Back
      <3>2. Shared(k)' \/ Quiet(k)'
        BY <1>3, <2>1, <2>3, <3>1, QuietStep
      <3>3. UnitMove(k)
        BY <2>0, StepUnits
      <3>4. ASSUME NEW r \in Requests, k \in req[r].units, UnitWrite(r, k) PROVE unit'[k] # "RTS"
        <4>1. ~VerifyWrite(r)
          BY <1>3, <2>3, <3>4, HeldByOther DEF VerifyWrite
        <4> QED BY <1>2, <3>4, <4>1 DEF UnitWrite
      <3>5. unit'[k] # "RTS"
        BY <3>1, <3>3, <3>4 DEF UnitMove
      <3> QED BY <3>2, <3>5 DEF Back
    <2> QED BY <2>2, <2>3
  <1>4. ASSUME NEW o \in Orders, NEW r \in Requests, DisposeWrite(r), req[r].order = o,
               ReturnComplete(o, unit'), NEW k \in Tracked(o)
        PROVE  Back(k)'
    <2>0. k \in Units
      BY DEF Tracked, PackedRows
    <2>1. /\ unit'[k] # "RTS"
          /\ unit'[k] \in ReturnedEquivalent \/ k \in recorded[o]
      BY <1>4 DEF ReturnComplete
    <2>2. CASE unit'[k] \in ReturnedEquivalent
      BY <2>1, <2>2 DEF Back, Quiet, ReturnedEquivalent
    <2>3. CASE k \in recorded[o]
      <3>1. RecordHeld(o, k)'
        BY <1>4, <2>3 DEF DisposeWrite, RecordHeld
      <3>2. Handled(o, k)'
        BY <2>0, <3>1, RecordStep DEF RecordInv
      <3> QED BY <2>1, <3>2 DEF Handled, Back
    <2> QED BY <2>1, <2>2, <2>3
  <1> SUFFICES ASSUME NEW o \in Orders, disposed'[o]
               PROVE  pos'[o] = "returned" /\ \A k \in Tracked(o)' : Back(k)'
    BY DEF BackInv
  <1>5. \/ disposed[o] /\ \A r \in Requests : VerifyWrite(r) => req[r].order # o
        \/ \E r \in Requests : DisposeWrite(r) /\ req[r].order = o /\ ReturnComplete(o, unit')
    BY <1>0, StepDisposed
  <1>6. pos'[o] = "returned"
    <2>1. pos[o] = "returned"
      BY <1>2, <1>5 DEF BackInv, ReturnSeen
    <2> QED BY <1>0, <2>1, ReturnSeenStep
  <1>7. ASSUME NEW k \in Tracked(o)' PROVE Back(k)'
    <2>1. CASE k \in Tracked(o)
      BY <1>3, <1>4, <1>5, <2>1
    <2>2. CASE k \notin Tracked(o)
      <3>1. k \in Units
        BY DEF Tracked, PackedRows
      <3>2. Packs(k, o)
        BY <2>2, NewlyTracked
      <3>3. unit'[k] = "PACKED" /\ (Shared(k)' \/ Quiet(k)')
        BY <3>1, <3>2, PackedQuiet
      <3> QED BY <3>3 DEF Back
    <2> QED BY <2>1, <2>2
  <1> QED BY <1>6, <1>7

LEMMA ReturnInit == Init => GoneInv /\ ReturnSeen /\ RecordInv /\ BackInv
  <1> SUFFICES ASSUME Init PROVE GoneInv /\ ReturnSeen /\ RecordInv /\ BackInv
    OBVIOUS
  <1>1. \A r \in Requests : req[r].op = "idle"
    BY DEF Init, Idle, Having
  <1>2. ReturnSeen
    BY <1>1 DEF ReturnSeen
  <1>3. RecordInv
    BY <1>1 DEF RecordInv, RecordHeld, Init
  <1>4. BackInv
    BY DEF BackInv, Init
  <1> QED BY <1>2, <1>3, <1>4, GoneInit

\* A return marked disposed (resolveTrackingReturnCompletionStateTx, DisposeWrite)
\* leaves no unit of the order at the courier or at the return location, unless
\* another order has the unit too: the activities that stand in for a unit's status
\* are written after the commit, a dispatch sync or a second verification may still
\* hold the unit, and a scan may pack it by a reading that is out of date.
THEOREM DisposedReturnsAreBack ==
    ASSUME ReturnedIsFinal
    PROVE  Spec => []DisposedIsBack
  <1> DEFINE Inv == RowInv /\ GoneInv /\ ReturnSeen /\ RecordInv /\ BackInv
  <1>1. Init => Inv
    BY InitRow, ReturnInit
  <1>2. Inv /\ [Next]_vars => Inv'
    <2> SUFFICES ASSUME Inv, [Next]_vars PROVE Inv'
      OBVIOUS
    <2>1. TypeOK
      BY DEF RowInv, TypeInv
    <2> QED BY <2>1, StepRow, GoneStep, ReturnSeenStep, RecordStep, BackStep
  <1>3. Inv => DisposedIsBack
    BY DEF BackInv, Back, Quiet, DisposedIsBack
  <1> HIDE DEF Inv
  <1> QED BY <1>1, <1>2, <1>3, PTL DEF Spec

-----------------------------------------------------------------------------
(* What a packed order keeps.                                               *)

\* Before it is packed, an order that no void reopened and no handler wrote late
\* has no earlier packing, and no more packed units in the basket than it sold.
Packable(o) ==
    order[o] \in {"READY", "PICKED", "PACKING"} =>
        /\ \A k \in Units : past[o][k] = 0
        /\ Cardinality(PackedRows(o)) <= Need[o]
        /\ \A k \in PackedRows(o) : unit[k] = "PACKED"

KeepInv ==
    \A o \in Orders \ (voided \cup late) : Alone(o) =>
        /\ Packable(o)
        /\ order[o] = "PACKED" => /\ HistoricRows(o) = Need[o]
                                  /\ \A k \in Tracked(o) : unit[k] \in Kept(pos[o])

\* A void reopens its order.
LEMMA VoidsReopen ==
    ASSUME NEW o \in Orders \ voided'
    PROVE  /\ ~PackVoid(o)
           /\ \A r \in Requests : req[r].order = o => ~VoidWrite(r) /\ ~RepairWrite(r)
  BY DEF PackVoid, VoidWrite, RepairWrite

\* What no handler touches: a unit of one order that has not left, is not voided
\* or canceled, and was not read by a return.
LEMMA WriteOfOther ==
    ASSUME RowInv, GoneInv, NEW r \in Requests, NEW k \in req[r].units, UnitWrite(r, k),
           NEW o \in Orders \ voided', order'[o] # "CANCELED", k \in Tracked(o), ~Shared(k)
    PROVE  /\ Left(o)
           /\ \/ SyncWrite(r) /\ unit'[k] = "DISPATCHED"
              \/ req[r].op \in {"verify", "dispose"} /\ req[r].order = o
  <1>0. TypeOK
    BY DEF RowInv, TypeInv
  <1>1. ~VoidWrite(r)
    <2>1. VoidWrite(r) => req[r].op = "void"
      BY DEF VoidWrite
    <2>2. VoidWrite(r) => req[r].order # o
      BY VoidsReopen
    <2> QED BY <2>1, <2>2, HeldByOther
  <1>2. ~CancelWrite(r)
    <2>1. CancelWrite(r) => req[r].op = "cancel"
      BY DEF CancelWrite
    <2>2. CancelWrite(r) => req[r].order # o
      BY <1>0 DEF CancelWrite, TypeOK
    <2> QED BY <2>1, <2>2, HeldByOther
  <1>3. /\ SyncWrite(r) => req[r].op = "sync"
        /\ VerifyWrite(r) => req[r].op = "verify"
        /\ DisposeWrite(r) => req[r].op = "dispose"
    BY DEF SyncWrite, VerifyWrite, DisposeWrite
  <1>4. Gone(k)
    BY <1>1, <1>2, <1>3 DEF UnitWrite, GoneInv, Holding
  <1>5. Left(o)
    BY <1>4, GoneOrShared
  <1>6. VerifyWrite(r) \/ DisposeWrite(r) => req[r].order = o
    BY <1>3, HeldByOther
  <1> QED BY <1>1, <1>2, <1>3, <1>5, <1>6 DEF UnitWrite

LEMMA PackableStep ==
    ASSUME RowInv, GoneInv, [Next]_vars, NEW o \in Orders \ (voided' \cup late'), Alone(o), Packable(o)
    PROVE  Packable(o)'
  <1> USE DispatchAssumption
  <1>0. TypeOK /\ o \in Orders \ voided' /\ o \notin late'
    BY DEF RowInv, TypeInv
  <1> SUFFICES ASSUME order'[o] \in {"READY", "PICKED", "PACKING"}
               PROVE  /\ \A k \in Units : past'[o][k] = 0
                      /\ Cardinality(PackedRows(o)') <= Need[o]
                      /\ \A k \in PackedRows(o)' : unit'[k] = "PACKED"
    BY DEF Packable
  <1>1. order[o] \in {"READY", "PICKED", "PACKING"} /\ ~Left(o)
    <2>1. OrderMove(o) /\ o \notin late
      BY <1>0, StepOrders
    <2>2. order[o] \in {"READY", "PICKED", "PACKING"}
      BY <1>0, <2>1 DEF OrderMove, Startable
    <2> QED BY <2>1, <2>2 DEF Left, RowInv, HeldInv
  <1>2. /\ \A k \in Units : past[o][k] = 0
        /\ Cardinality(PackedRows(o)) <= Need[o]
        /\ \A k \in PackedRows(o) : unit[k] = "PACKED"
    BY <1>1 DEF Packable
  <1>3. /\ ~PackVoid(o)
        /\ \A r \in Requests : req[r].order = o => ~CompleteWrite(r) /\ ~CancelWrite(r) /\ ~VoidWrite(r)
    <2>1. ASSUME NEW r \in Requests, req[r].order = o, CompleteWrite(r) PROVE order'[o] = "PACKED"
      BY <1>0, <2>1 DEF CompleteWrite, TypeOK
    <2>2. ASSUME NEW r \in Requests, req[r].order = o, CancelWrite(r) PROVE order'[o] = "CANCELED"
      BY <1>0, <2>2 DEF CancelWrite, TypeOK
    <2> QED BY <1>0, <2>1, <2>2, VoidsReopen
  <1>4. \A k \in PackedRows(o) : k \in Tracked(o) /\ k \in Units /\ packedFor[k] = o /\ ~Shared(k)
    BY DEF Tracked, PackedRows, Alone
  <1>5. ASSUME NEW k \in Units PROVE past'[o][k] = 0
    <2>1. PastMove(o, k)
      BY StepRows
    <2>2. ASSUME packedFor[k] = o, NEW r \in Requests, DisposeWrite(r), k \in req[r].units
          PROVE  FALSE
      <3>1. Gone(k)
        BY <2>2 DEF DisposeWrite, GoneInv, Holding
      <3>2. k \in PackedRows(o)
        BY <2>2 DEF PackedRows
      <3> QED BY <1>1, <1>4, <3>1, <3>2, GoneOrShared
    <2> QED BY <1>2, <1>3, <2>1, <2>2 DEF PastMove
  <1>6. Cardinality(PackedRows(o)') <= Need[o]
    <2>1. CASE \E k \in Units : Packs(k, o)
      <3>1. PICK k \in Units : Packs(k, o)
        BY <2>1
      <3>2. Cardinality(PackedRows(o)') = Cardinality(PackedRows(o)) + 1
        BY <3>1, PackHistoric
      <3>3. LineOpen(o)
        BY <1>0, <3>1, PacksDoes
      <3>4. Cardinality(PackedRows(o)) < Need[o] /\ Cardinality(PackedRows(o)) \in Nat
        BY <1>0, <3>3, RowsCounted DEF LineOpen
      <3> QED BY <3>2, <3>4
    <2>2. CASE ~\E k \in Units : Packs(k, o)
      <3>1. ASSUME NEW k \in Units, packedFor'[k] = o PROVE packedFor[k] = o
        <4>1. RowMove(k)
          BY StepRows
        <4> QED BY <2>2, <3>1, <4>1 DEF RowMove
      <3>2. PackedRows(o)' \subseteq PackedRows(o)
        BY <3>1 DEF PackedRows
      <3>3. /\ Cardinality(PackedRows(o)') <= Cardinality(PackedRows(o))
            /\ IsFiniteSet(PackedRows(o)')
        BY <1>0, <3>2, RowsCounted, FS_Subset
      <3>4. Cardinality(PackedRows(o)') \in Nat /\ Cardinality(PackedRows(o)) \in Nat
        BY <1>0, <3>3, RowsCounted, FS_CardinalityType
      <3> QED BY <1>2, <3>3, <3>4
    <2> QED BY <2>1, <2>2
  <1>7. ASSUME NEW k \in PackedRows(o)' PROVE unit'[k] = "PACKED"
    <2>1. k \in Units /\ packedFor'[k] = o
      BY DEF PackedRows
    <2>2. RowMove(k) /\ UnitMove(k)
      BY <2>1, StepRows, StepUnits
    <2>3. CASE Packs(k, o)
      <3>1. unit' = [unit EXCEPT ![k] = "PACKED"]
        BY <2>1, <2>3, PacksDoes
      <3> QED BY <1>0, <2>1, <3>1 DEF TypeOK
    <2>4. CASE packedFor[k] = o
      <3>1. k \in PackedRows(o)
        BY <2>1, <2>4 DEF PackedRows
      <3>2. unit[k] = "PACKED" /\ k \in Tracked(o) /\ ~Shared(k)
        BY <1>2, <1>4, <3>1
      <3>3. ASSUME NEW r \in Requests, k \in req[r].units, UnitWrite(r, k) PROVE FALSE
        BY <1>0, <1>1, <3>2, <3>3, WriteOfOther
      <3> QED BY <1>3, <2>2, <2>4, <3>2, <3>3 DEF UnitMove
    <2> QED BY <2>1, <2>2, <2>3, <2>4 DEF RowMove
  <1> QED BY <1>5, <1>6, <1>7

\* A completion leaves exactly the units the order sold, all packed.
LEMMA CompleteKeeps ==
    ASSUME RowInv, FullInv, NEW o \in Orders, InProgress(o), Packable(o),
           NEW r \in Requests, req[r].order = o, CompleteWrite(r)
    PROVE  HistoricRows(o)' = Need[o] /\ \A k \in Tracked(o)' : unit'[k] = "PACKED"
  <1>0. TypeOK /\ TypeInv
    BY DEF RowInv, TypeInv
  <1>1. /\ order[o] = "PACKING" /\ HistoricRows(o) >= Need[o]
        /\ RemoveRows(PackedRows(o)) /\ unit' = unit
    BY DEF CompleteWrite, InProgress, FullInv, Completing
  <1>2. /\ \A k \in Units : past[o][k] = 0
        /\ Cardinality(PackedRows(o)) <= Need[o]
        /\ \A k \in PackedRows(o) : unit[k] = "PACKED"
    BY <1>1 DEF Packable
  <1>3. SumFunctionOnSet(past[o], Units) = 0
    BY <1>2, SumZero, DispatchAssumption
  <1>4. HistoricRows(o) = Need[o]
    BY <1>0, <1>1, <1>2, <1>3, RowsCounted, DispatchAssumption DEF HistoricRows
  <1>5. HistoricRows(o)' = HistoricRows(o)
    BY <1>0, <1>1, RemoveHistoric
  <1>6. Tracked(o)' = Tracked(o)
    <2>1. PackedRows(o) \in SUBSET Units
      BY DEF PackedRows
    <2> QED BY <1>0, <1>1, <2>1, RemoveTracked
  <1>7. Tracked(o) = PackedRows(o)
    BY <1>2 DEF Tracked
  <1> QED BY <1>1, <1>2, <1>4, <1>5, <1>6, <1>7

\* Where the units of an order may be widens as Pancake moves it on.
LEMMA KeptWidens ==
    ASSUME ReturnedIsFinal, RowInv, [Next]_vars, NEW o \in Orders
    PROVE  Kept(pos[o]) \subseteq Kept(pos'[o]) /\ "PACKED" \in Kept(pos'[o])
  <1>0. TypeOK
    BY DEF RowInv, TypeInv
  <1>1. pos[o] \in PosStatus /\ pos'[o] \in PosStatus
    BY StepType DEF RowInv, TypeInv, TypeOK
  <1>2. pos[o] \in Out => pos'[o] \in Out
    BY <1>0, PosKeeps
  <1>3. pos[o] = "returned" => pos'[o] = "returned"
    <2>1. pos'[o] = pos[o] \/ <<pos[o], pos'[o]>> \in PosSteps
      BY <1>0, StepPos
    <2>2. pos[o] = "returned" /\ <<pos[o], pos'[o]>> \in PosSteps => pos'[o] = "returned"
      BY DEF ReturnedIsFinal
    <2> QED BY <2>1, <2>2
  <1>4. /\ Kept("open") = {"PACKED"} /\ Kept("canceled") = {"PACKED"}
        /\ Kept("shipped") = {"PACKED", "DISPATCHED"} /\ Kept("returning") = {"PACKED", "DISPATCHED"}
        /\ Kept("returned") = UnitStatus
    BY DEF Kept
  <1> QED BY <1>1, <1>2, <1>3, <1>4 DEF PosStatus, Out, UnitStatus

LEMMA KeepStep ==
    ASSUME ReturnedIsFinal, RowInv, FullInv, GoneInv, ReturnSeen, KeepInv, [Next]_vars
    PROVE  KeepInv'
  <1> USE DispatchAssumption
  <1>0. TypeOK
    BY DEF RowInv, TypeInv
  <1> SUFFICES ASSUME NEW o \in Orders \ (voided' \cup late'), Alone(o)'
               PROVE  /\ Packable(o)'
                      /\ order'[o] = "PACKED" => /\ HistoricRows(o)' = Need[o]
                                                 /\ \A k \in Tracked(o)' : unit'[k] \in Kept(pos'[o])
    BY DEF KeepInv
  <1>1. /\ o \in Orders \ (voided \cup late) /\ Alone(o)
        /\ o \in Orders \ voided' /\ o \notin late'
    BY <1>0, StepOrders, StepShared
  <1>2. /\ Packable(o)
        /\ order[o] = "PACKED" => /\ HistoricRows(o) = Need[o]
                                  /\ \A k \in Tracked(o) : unit[k] \in Kept(pos[o])
    BY <1>1 DEF KeepInv
  <1>3. Packable(o)'
    BY <1>1, <1>2, PackableStep
  <1>4. Kept(pos[o]) \subseteq Kept(pos'[o]) /\ "PACKED" \in Kept(pos'[o])
    BY KeptWidens
  <1>5. ASSUME InProgress(o), NEW r \in Requests, req[r].order = o, CompleteWrite(r)
        PROVE  /\ HistoricRows(o)' = Need[o]
               /\ \A k \in Tracked(o)' : unit'[k] \in Kept(pos'[o])
    BY <1>2, <1>4, <1>5, CompleteKeeps
  <1>6. CASE order[o] = "PACKED" /\ order'[o] = "PACKED"
    <2>1. ASSUME NEW k \in Units, Packs(k, o) PROVE FALSE
      <3>1. InProgress(o)
        BY <1>1, <2>1, PacksDoes
      <3> QED BY <1>6, <3>1 DEF InProgress
    <2>2. HistoricRows(o)' = Need[o]
      BY <1>2, <1>6, <2>1, StepHistoric
    <2>3. ASSUME NEW k \in Tracked(o)' PROVE unit'[k] \in Kept(pos'[o])
      <3>1. k \in Tracked(o) /\ k \in Units
        <4>1. k \in Units
          BY DEF Tracked, PackedRows
        <4> QED BY <2>1, <4>1, NewlyTracked
      <3>2. unit[k] \in Kept(pos[o]) /\ ~Shared(k)
        BY <1>1, <1>2, <1>6, <3>1 DEF Alone
      <3>3. CASE pos[o] = "returned"
        <4>1. pos'[o] = "returned"
          BY <1>0, <3>3, ReturnSeenStep
        <4>2. unit'[k] \in UnitStatus
          BY <3>1, StepType DEF RowInv, TypeInv, TypeOK
        <4> QED BY <4>1, <4>2 DEF Kept
      <3>4. CASE pos[o] # "returned"
        <4>1. unit[k] \in {"PACKED", "DISPATCHED"}
          <5>1. pos[o] \in {"open", "canceled", "shipped", "returning"}
            BY <1>0, <3>4 DEF TypeOK, PosStatus
          <5> QED BY <3>2, <5>1 DEF Kept
        <4>2. UnitMove(k)
          BY <3>1, StepUnits
        <4>3. ASSUME NEW r \in Requests, k \in req[r].units, UnitWrite(r, k)
              PROVE  unit'[k] \in Kept(pos'[o])
          <5>1. /\ Left(o)
                /\ \/ SyncWrite(r) /\ unit'[k] = "DISPATCHED"
                   \/ req[r].op \in {"verify", "dispose"} /\ req[r].order = o
            BY <1>1, <1>6, <3>1, <3>2, <4>3, WriteOfOther
          <5>2. unit'[k] = "DISPATCHED"
            BY <3>4, <5>1 DEF ReturnSeen
          <5>3. pos[o] \in {"shipped", "returning"}
            BY <3>4, <5>1 DEF Left, Out
          <5>4. "DISPATCHED" \in Kept(pos[o])
            BY <5>3 DEF Kept
          <5> QED BY <1>4, <5>2, <5>4
        <4>4. ASSUME NEW p \in Orders, packedFor[k] = p, PackVoid(p) PROVE FALSE
          <5>1. p # o
            BY <1>1, <1>6, <3>1, <4>4 DEF FullInv
          <5>2. k \in Tracked(p)
            BY <3>1, <4>4 DEF Tracked, PackedRows
          <5> QED BY <3>1, <3>2, <5>1, <5>2 DEF Shared
        <4> QED BY <1>4, <3>2, <4>1, <4>2, <4>3, <4>4 DEF UnitMove
      <3> QED BY <3>3, <3>4
    <2> QED BY <1>3, <2>2, <2>3
  <1>7. \/ order'[o] = "PACKED" => order[o] = "PACKED"
        \/ InProgress(o) /\ \E r \in Requests : req[r].order = o /\ CompleteWrite(r)
    <2>1. OrderMove(o)
      BY <1>0, StepOrders
    <2> QED BY <1>1, <2>1 DEF OrderMove
  <1> QED BY <1>3, <1>5, <1>6, <1>7

\* An order that no void reopened, and that no start, scan or completion wrote
\* over a change it had not seen, was completed with exactly the units it sold
\* (completePackingBasketOrder counts REMOVED rows, AllPacked) and keeps them,
\* packed, until the courier and then the returns take them, as long as no other
\* order has one of them too: no void, sync, cancellation or return that read
\* another order takes a unit of this one, however many handlers are between
\* their read and their write.
THEOREM PackedOrdersKeepUnits ==
    ASSUME ReturnedIsFinal
    PROVE  Spec => []PackedOrderKeepsUnits
  <1> DEFINE Inv == RowInv /\ FullInv /\ GoneInv /\ ReturnSeen /\ KeepInv
  <1>1. Init => Inv
    <2> SUFFICES ASSUME Init PROVE Inv
      OBVIOUS
    <2>1. FullInv
      BY DispatchAssumption DEF Init, FullInv, Reopening, Completing, Idle, Having
    <2>2. ASSUME NEW o \in Orders PROVE Packable(o) /\ order[o] # "PACKED"
      <3>1. order[o] = "READY" /\ \A k \in Units : past[o][k] = 0 /\ packedFor[k] = NONE
        BY DEF Init
      <3>2. PackedRows(o) = {}
        BY <3>1, DispatchAssumption DEF PackedRows
      <3>3. Cardinality(PackedRows(o)) = 0
        BY <3>2, FS_EmptySet
      <3>4. Need[o] \in Nat
        BY DispatchAssumption
      <3>5. Cardinality(PackedRows(o)) <= Need[o]
        BY <3>3, <3>4
      <3> QED BY <3>1, <3>2, <3>5 DEF Packable
    <2>3. KeepInv
      BY <2>2 DEF KeepInv
    <2> QED BY <2>1, <2>3, InitRow, ReturnInit
  <1>2. Inv /\ [Next]_vars => Inv'
    <2> SUFFICES ASSUME Inv, [Next]_vars PROVE Inv'
      OBVIOUS
    <2>1. TypeOK
      BY DEF RowInv, TypeInv
    <2> QED BY <2>1, StepRow, FullStep, GoneStep, ReturnSeenStep, KeepStep
  <1>3. Inv => PackedOrderKeepsUnits
    BY DEF KeepInv, PackedOrderKeepsUnits
  <1> HIDE DEF Inv
  <1> QED BY <1>1, <1>2, <1>3, PTL DEF Spec
=============================================================================
