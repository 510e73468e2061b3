--------------------------- MODULE StockRequestProofs ---------------------------
(***************************************************************************)
(* StockRequest's invariants hold for every set of lines, number of batches  *)
(* and number of overlapping calls, and it implements StockLedger.           *)
(***************************************************************************)
EXTENDS StockRequest, SumTheorems, TLAPS

-----------------------------------------------------------------------------
(* What a call may rely on.                                                *)

\* What a call had checked of what it read, and what stays true of a batch it
\* is about to void.
Holds(k) ==
    /\ k.op = "receive" => \A l \in Lines : k.units[l] > 0 =>
                              k.seen.received[l] + k.units[l] <= k.seen.approved[l]
    /\ k.op = "approve" => k.seen.received[k.line] <= k.to /\ k.to <= Requested[k.line]
    /\ k.op = "correct" => k.to <= k.seen.approved[k.line]
    /\ k.op = "void" => bstatus[k.batch] # "unused" /\ k.units = units[k.batch]

CallsHold == \A c \in Callers : Holds(call[c])

Inv == TypeOK /\ CallsHold /\ VoidedWhileStaged /\ OverReceiptIsRaced

-----------------------------------------------------------------------------
(* The types of calls.                                                     *)

\* The statuses a call writes, or will read again.
LEMMA StatusCall ==
    ASSUME NEW k \in Calls, k.op \in {"status", "respond"}
    PROVE  k.to \in Statuses
BY DEF Calls, Idle

LEMMA ApproveCall ==
    ASSUME NEW k \in Calls, k.op = "approve"
    PROVE  /\ k.line \in Lines /\ k.to \in Nat /\ k.from \in Statuses
           /\ k.seen.approved \in Quantities /\ k.seen.received \in Quantities
BY DEF Calls, Idle, SeenLines

LEMMA CorrectCall ==
    ASSUME NEW k \in Calls, k.op = "correct"
    PROVE  /\ k.line \in Lines /\ k.to \in Nat
           /\ k.seen.approved \in Quantities /\ k.seen.received \in Quantities
BY DEF Calls, Idle, SeenLines

LEMMA ReceiveCall ==
    ASSUME NEW k \in Calls, k.op = "receive"
    PROVE  /\ k.units \in Quantities /\ k.units # NoUnits
           /\ k.seen.approved \in Quantities /\ k.seen.received \in Quantities
BY DEF Calls, Idle, SeenLines

LEMMA VoidCall ==
    ASSUME NEW k \in Calls, k.op \in {"void", "voiding"}
    PROVE  k.batch \in Batches /\ k.units \in Quantities
BY DEF Calls, Idle

LEMMA VoidingCall ==
    ASSUME NEW k \in Calls, k.op = "voiding"
    PROVE  k.next \in Statuses
BY DEF Calls, Idle

LEMMA QuantityTotal == ASSUME NEW q \in Quantities PROVE Total(q) \in Nat
BY RequestAssumption, SumNat DEF Total, Quantities, NatValued

\* A bound that is no number bounds nothing: a member of the interval is one.
LEMMA IntervalNat == ASSUME NEW m, NEW n \in 0..m PROVE n \in Nat
OBVIOUS

-----------------------------------------------------------------------------
(* Steps that change one call only.                                        *)

\* A call that starts, goes on or ends leaves the invariant, if what it now
\* relies on is true and it is not in the middle of a void.
LEMMA CallInv ==
    ASSUME Inv, NEW c \in Callers, NEW k \in Calls,
           Holds(k), k.op # "voiding", edits' \in 0..MaxEdits,
           call' = [call EXCEPT ![c] = k],
           UNCHANGED <<request, stock, history>>
    PROVE  Inv'
<1> USE DEF Inv, request, stock, history
<1>1. TypeOK'
  BY DEF TypeOK, Quantities
<1>2. CallsHold'
  BY DEF TypeOK, CallsHold, Holds
<1>3. VoidedWhileStaged'
  BY DEF TypeOK, VoidedWhileStaged
<1>4. OverReceiptIsRaced'
  BY DEF OverReceiptIsRaced
<1> QED BY <1>1, <1>2, <1>3, <1>4

LEMMA IdleCall == Idle \in Calls /\ Holds(Idle) /\ Idle.op # "voiding"
BY DEF Idle, Calls, Holds

LEMMA BeginInv ==
    ASSUME Inv, NEW c \in Callers, NEW k \in Calls,
           Holds(k), k.op # "voiding", Begin(c, k)
    PROVE  Inv'
BY CallInv DEF Begin, Inv, TypeOK

LEMMA RefuseInv == ASSUME Inv, NEW c \in Callers, Refuse(c) PROVE Inv'
BY CallInv, IdleCall DEF Refuse, End, Inv, TypeOK

-----------------------------------------------------------------------------
(* The actions of wms-purchasing.                                          *)

LEMMA ReadStatusInv == ASSUME Inv, NEW c \in Callers, ReadStatus(c) PROVE Inv'
<1>1. PICK to \in Statuses : Begin(c, [op |-> "status", to |-> to, seen |-> status])
  BY DEF ReadStatus
<1> DEFINE k == [op |-> "status", to |-> to, seen |-> status]
<1>2. k \in Calls /\ Holds(k) /\ k.op # "voiding"
  BY DEF Calls, Holds, Inv, TypeOK
<1> HIDE DEF k
<1> QED BY <1>1, <1>2, BeginInv DEF k

LEMMA RespondInv == ASSUME Inv, NEW c \in Callers, Respond(c) PROVE Inv'
<1>1. PICK to \in Statuses : Begin(c, [op |-> "respond", to |-> to])
  BY DEF Respond, Statuses
<1> DEFINE k == [op |-> "respond", to |-> to]
<1>2. k \in Calls /\ Holds(k) /\ k.op # "voiding"
  BY DEF Calls, Holds
<1> HIDE DEF k
<1> QED BY <1>1, <1>2, BeginInv DEF k

LEMMA ReadResponseInv == ASSUME Inv, NEW c \in Callers, ReadResponse(c) PROVE Inv'
<1> DEFINE k == [op |-> "status", to |-> call[c].to, seen |-> status]
<1>1. CASE /\ call' = [call EXCEPT ![c] = k]
           /\ UNCHANGED <<request, stock, edits, history>>
  <2>1. call[c].to \in Statuses
    BY StatusCall DEF ReadResponse, Inv, TypeOK
  <2>2. k \in Calls /\ Holds(k) /\ k.op # "voiding"
    BY <2>1 DEF Calls, Holds, Inv, TypeOK
  <2> HIDE DEF k
  <2> QED BY <1>1, <2>2, CallInv DEF Inv, TypeOK
<1>2. CASE Refuse(c)
  BY <1>2, RefuseInv
<1> QED BY <1>1, <1>2 DEF ReadResponse

LEMMA ReadProofInv == ASSUME Inv, NEW c \in Callers, ReadProof(c) PROVE Inv'
<1> DEFINE k == [op |-> "status", to |-> "PAYMENT_REVIEW", seen |-> status]
<1>1. k \in Calls /\ Holds(k) /\ k.op # "voiding"
  BY DEF Calls, Holds, Inv, TypeOK, Statuses
<1>2. Begin(c, k)
  BY DEF ReadProof
<1> HIDE DEF k
<1> QED BY <1>1, <1>2, BeginInv

LEMMA ReadShipmentInv == ASSUME Inv, NEW c \in Callers, ReadShipment(c) PROVE Inv'
<1> DEFINE k == [op |-> "status", to |-> "SHIPPED", seen |-> status]
<1>1. k \in Calls /\ Holds(k) /\ k.op # "voiding"
  BY DEF Calls, Holds, Inv, TypeOK, Statuses
<1>2. Begin(c, k)
  BY DEF ReadShipment
<1> HIDE DEF k
<1> QED BY <1>1, <1>2, BeginInv

LEMMA WriteStatusInv == ASSUME Inv, NEW c \in Callers, WriteStatus(c) PROVE Inv'
<1> USE DEF Inv, WriteStatus, End, stock, history
<1>1. call[c].to \in Statuses
  BY StatusCall DEF TypeOK
<1>2. TypeOK'
  BY <1>1, IdleCall DEF TypeOK, Quantities
<1>3. CallsHold'
  BY IdleCall DEF TypeOK, CallsHold, Holds
<1>4. VoidedWhileStaged'
  BY IdleCall DEF TypeOK, VoidedWhileStaged
<1>5. OverReceiptIsRaced'
  BY DEF OverReceiptIsRaced
<1> QED BY <1>2, <1>3, <1>4, <1>5

\* updateLine found no more received than it approves, and no more approved
\* than it corrects to.
LEMMA ReadLineInv == ASSUME Inv, NEW c \in Callers, ReadLine(c) PROVE Inv'
<1>1. PICK l \in Lines, n \in Nat :
         \/ /\ n <= Requested[l] /\ received[l] <= n
            /\ call' = [call EXCEPT ![c] = [op |-> "approve", line |-> l, to |-> n,
                                            seen |-> Lineup, from |-> status]]
         \/ /\ n <= approved[l]
            /\ call' = [call EXCEPT ![c] = [op |-> "correct", line |-> l, to |-> n,
                                            seen |-> Lineup]]
  BY IntervalNat DEF ReadLine
<1>2. edits' \in 0..MaxEdits /\ UNCHANGED <<request, stock, history>>
  BY RequestAssumption DEF ReadLine, Inv, TypeOK
<1> DEFINE a == [op |-> "approve", line |-> l, to |-> n, seen |-> Lineup, from |-> status]
           r == [op |-> "correct", line |-> l, to |-> n, seen |-> Lineup]
<1>3. CASE n <= Requested[l] /\ received[l] <= n /\ call' = [call EXCEPT ![c] = a]
  <2>1. a \in Calls
    BY DEF Calls, Inv, TypeOK, SeenLines, Lineup
  <2>2. Holds(a) /\ a.op # "voiding"
    BY <1>3 DEF Holds, Lineup
  <2> HIDE DEF a
  <2> QED BY <1>2, <1>3, <2>1, <2>2, CallInv
<1>4. CASE n <= approved[l] /\ call' = [call EXCEPT ![c] = r]
  <2>1. r \in Calls
    BY DEF Calls, Inv, TypeOK, SeenLines, Lineup
  <2>2. Holds(r) /\ r.op # "voiding"
    BY <1>4 DEF Holds, Lineup
  <2> HIDE DEF r
  <2> QED BY <1>2, <1>4, <2>1, <2>2, CallInv
<1> QED BY <1>1, <1>3, <1>4

LEMMA WriteApprovedInv == ASSUME Inv, NEW c \in Callers, WriteApproved(c) PROVE Inv'
<1> DEFINE k == call[c]
<1>1. /\ k.line \in Lines /\ k.to \in Nat /\ k.from \in Statuses
      /\ k.seen.approved \in Quantities /\ k.seen.received \in Quantities
      /\ k.seen.received[k.line] <= k.to /\ k.to <= Requested[k.line]
  BY ApproveCall DEF WriteApproved, Inv, TypeOK, CallsHold, Holds
<1>2. /\ approved' = [approved EXCEPT ![k.line] = k.to]
      /\ status' \in {"REVISION", status}
      /\ raced' = raced \cup Changed({k.line}, k.seen)
      /\ call' = [call EXCEPT ![c] = Idle]
      /\ UNCHANGED <<type, received, stock, edits, corrected, again>>
  BY DEF WriteApproved, End
<1> HIDE DEF k
<1> USE DEF Inv, stock
<1>3. TypeOK'
  <2>1. approved' \in Quantities /\ \A l \in Lines : approved'[l] <= Requested[l]
    BY <1>1, <1>2 DEF TypeOK, Quantities
  <2>2. raced' \subseteq Lines
    BY <1>1, <1>2 DEF TypeOK, Changed
  <2> QED BY <2>1, <2>2, <1>2, IdleCall DEF TypeOK, Statuses
<1>4. CallsHold'
  BY <1>2, IdleCall DEF TypeOK, CallsHold, Holds
<1>5. VoidedWhileStaged'
  BY <1>2, IdleCall DEF TypeOK, VoidedWhileStaged
<1>6. OverReceiptIsRaced'
  BY <1>1, <1>2 DEF TypeOK, OverReceiptIsRaced, Changed, Quantities
<1> QED BY <1>3, <1>4, <1>5, <1>6

LEMMA WriteReceivedInv == ASSUME Inv, NEW c \in Callers, WriteReceived(c) PROVE Inv'
<1> DEFINE k == call[c]
<1>1. /\ k.line \in Lines /\ k.to \in Nat
      /\ k.seen.approved \in Quantities /\ k.seen.received \in Quantities
      /\ k.to <= k.seen.approved[k.line]
  BY CorrectCall DEF WriteReceived, Inv, TypeOK, CallsHold, Holds
<1>2. /\ received' = [received EXCEPT ![k.line] = k.to]
      /\ corrected' = corrected \cup {k.line}
      /\ raced' = raced \cup Changed({k.line}, k.seen)
      /\ call' = [call EXCEPT ![c] = Idle]
      /\ ~ LineLocked(k.line)
      /\ UNCHANGED <<type, status, approved, stock, edits>>
  BY DEF WriteReceived, End
<1> HIDE DEF k
<1> USE DEF Inv, stock
<1>3. TypeOK'
  <2>1. received' \in Quantities
    BY <1>1, <1>2 DEF TypeOK, Quantities
  <2>2. raced' \subseteq Lines /\ corrected' \subseteq Lines /\ again' = again
    BY <1>1, <1>2 DEF TypeOK, Changed, WriteReceived
  <2> QED BY <2>1, <2>2, <1>2, IdleCall DEF TypeOK
<1>4. CallsHold'
  BY <1>2, IdleCall DEF TypeOK, CallsHold, Holds
<1>5. VoidedWhileStaged'
  <2>1. ASSUME NEW d \in Callers, call'[d].op = "voiding", NEW l \in Lines
        PROVE  call'[d].units[l] <= received'[l]
    <3>1. call'[d] = call[d]
      BY <1>2, <2>1, IdleCall DEF TypeOK
    <3>2. call[d].units \in Quantities /\ call[d].units[l] <= received[l]
      BY <2>1, <3>1, VoidCall DEF TypeOK, VoidedWhileStaged
    <3>3. l = k.line => ~ (call[d].units[l] > 0)
      BY <1>2, <2>1, <3>1 DEF LineLocked
    <3> QED BY <1>1, <1>2, <3>1, <3>2, <3>3 DEF TypeOK, Quantities
  <2> QED BY <2>1, <1>2, IdleCall DEF TypeOK, VoidedWhileStaged
<1>6. OverReceiptIsRaced'
  BY <1>1, <1>2 DEF TypeOK, OverReceiptIsRaced, Changed, Quantities
<1> QED BY <1>3, <1>4, <1>5, <1>6

-----------------------------------------------------------------------------
(* The actions of wms-receiving.                                           *)

LEMMA ReadReceiptInv == ASSUME Inv, NEW c \in Callers, ReadReceipt(c) PROVE Inv'
<1>1. PICK q \in Quantities :
        /\ q # NoUnits
        /\ \A l \in Lines : q[l] > 0 => WithinRemaining(l, q[l])
        /\ Begin(c, [op |-> "receive", units |-> q, seen |-> Lineup, from |-> status])
  BY IntervalNat DEF ReadReceipt, Quantities
<1> DEFINE k == [op |-> "receive", units |-> q, seen |-> Lineup, from |-> status]
<1>2. k \in Calls
  BY <1>1 DEF Calls, Inv, TypeOK, SeenLines, Lineup
<1>3. Holds(k) /\ k.op # "voiding"
  BY <1>1 DEF Holds, Lineup, WithinRemaining
<1>4. Begin(c, k)
  BY <1>1
<1> HIDE DEF k
<1> QED BY <1>2, <1>3, <1>4, BeginInv

\* A receipt that finds the quantities it had read receives no more than was
\* approved; it takes a batch that no call is voiding.
LEMMA WriteReceiptInv == ASSUME Inv, NEW c \in Callers, WriteReceipt(c) PROVE Inv'
<1> DEFINE k == call[c]
<1>1. /\ k.units \in Quantities
      /\ k.seen.approved \in Quantities /\ k.seen.received \in Quantities
      /\ \A l \in Lines : k.units[l] > 0 =>
                          k.seen.received[l] + k.units[l] <= k.seen.approved[l]
  BY ReceiveCall DEF WriteReceipt, Inv, TypeOK, CallsHold, Holds
<1>2. PICK b \in Batches :
        /\ bstatus[b] = "unused"
        /\ bstatus' = [bstatus EXCEPT ![b] = "STAGED"]
        /\ units' = [units EXCEPT ![b] = k.units]
  BY DEF WriteReceipt, Unused
<1>3. /\ received' = [l \in Lines |-> received[l] + k.units[l]]
      /\ status' \in {"RECEIVING", "STOCKED"}
      /\ raced' = raced \cup Changed({l \in Lines : k.units[l] > 0}, k.seen)
      /\ call' = [call EXCEPT ![c] = Idle]
      /\ UNCHANGED <<type, approved, away, edits, corrected, again>>
  BY DEF WriteReceipt, End
<1> HIDE DEF k
<1> USE DEF Inv
<1>4. TypeOK'
  <2>1. received' \in Quantities
    BY <1>1, <1>3 DEF TypeOK, Quantities
  <2>2. raced' \subseteq Lines
    BY <1>3 DEF TypeOK, Changed
  <2>3. bstatus' \in [Batches -> BatchStatuses] /\ units' \in [Batches -> Quantities]
    BY <1>1, <1>2 DEF TypeOK, BatchStatuses
  <2> QED BY <2>1, <2>2, <2>3, <1>3, IdleCall DEF TypeOK, Statuses
<1>5. CallsHold'
  <2>1. ASSUME NEW d \in Callers PROVE Holds(call[d])'
    <3>1. CASE d = c
      BY <1>3, <3>1, IdleCall DEF TypeOK, Holds, Idle
    <3>2. CASE d # c
      <4>1. call'[d] = call[d] /\ Holds(call[d])
        BY <1>3, <3>2 DEF TypeOK, CallsHold
      <4>2. call[d].op = "void" => call[d].batch \in Batches
        BY VoidCall DEF TypeOK
      <4> QED BY <4>1, <4>2, <1>2 DEF TypeOK, Holds
    <3> QED BY <3>1, <3>2
  <2> QED BY <2>1 DEF CallsHold
<1>6. VoidedWhileStaged'
  <2>1. ASSUME NEW d \in Callers, call'[d].op = "voiding"
        PROVE  /\ call'[d] = call[d]
               /\ call[d].batch \in Batches \ {b} /\ call[d].units \in Quantities
    BY <1>2, <1>3, <2>1, IdleCall, VoidCall DEF TypeOK, VoidedWhileStaged
  <2>2. ASSUME NEW d \in Callers, call'[d].op = "voiding"
        PROVE  /\ bstatus'[call[d].batch] # "unused" /\ away'[call[d].batch] = 0
               /\ call[d].units = units'[call[d].batch]
    BY <1>2, <1>3, <2>1, <2>2 DEF TypeOK, VoidedWhileStaged
  <2>3. ASSUME NEW d \in Callers, call'[d].op = "voiding", NEW l \in Lines
        PROVE  call[d].units[l] <= received'[l]
    <3>1. call[d].units[l] \in Nat /\ call[d].units[l] <= received[l]
      BY <2>1, <2>3 DEF VoidedWhileStaged, Quantities
    <3> QED BY <1>1, <1>3, <3>1 DEF TypeOK, Quantities
  <2> QED BY <2>1, <2>2, <2>3 DEF VoidedWhileStaged
<1>7. OverReceiptIsRaced'
  <2>1. ASSUME NEW l \in Lines, received'[l] > approved'[l] PROVE l \in raced'
    <3>1. CASE k.units[l] > 0
      BY <1>1, <1>3, <2>1, <3>1 DEF TypeOK, Changed, Quantities
    <3>2. CASE k.units[l] = 0
      BY <1>1, <1>3, <2>1, <3>2 DEF TypeOK, OverReceiptIsRaced, Quantities
    <3> QED BY <1>1, <3>1, <3>2 DEF Quantities
  <2> QED BY <2>1 DEF OverReceiptIsRaced
<1> QED BY <1>4, <1>5, <1>6, <1>7

LEMMA ReadVoidInv == ASSUME Inv, NEW c \in Callers, ReadVoid(c) PROVE Inv'
<1>1. PICK b \in Batches :
        /\ bstatus[b] = "STAGED"
        /\ Begin(c, [op |-> "void", batch |-> b, units |-> units[b]])
  BY DEF ReadVoid
<1> DEFINE k == [op |-> "void", batch |-> b, units |-> units[b]]
<1>2. k \in Calls
  BY DEF Calls, Inv, TypeOK
<1>3. Holds(k) /\ k.op # "voiding"
  BY <1>1 DEF Holds
<1>4. Begin(c, k)
  BY <1>1
<1> HIDE DEF k
<1> QED BY <1>2, <1>3, <1>4, BeginInv

\* The batch is locked by no other void, its units are all in staging, and the
\* lines can be decremented: that is what the rest of the void relies on.
LEMMA VoidUnitsInv == ASSUME Inv, NEW c \in Callers, VoidUnits(c) PROVE Inv'
<1>1. CASE Refuse(c)
  BY <1>1, RefuseInv
<1>2. CASE ~ Refuse(c)
  <2> DEFINE k == call[c]
             v(n) == [op |-> "voiding", batch |-> k.batch, units |-> k.units,
                      next |-> n, seen |-> Lineup]
  <2>1. /\ k \in Calls /\ k.op = "void" /\ Holds(k)
        /\ k.batch \in Batches /\ k.units \in Quantities
    BY VoidCall DEF VoidUnits, Inv, TypeOK, CallsHold
  <2>2. /\ ~ Voiding(k.batch)
        /\ \A l \in Lines : k.units[l] > 0 => ~ LineLocked(l)
    BY DEF VoidUnits
  <2>3. AllStaged(k.batch) /\ Decrementable(k.units)
    BY <1>2 DEF VoidUnits
  <2>4. PICK n \in {"RECEIVING_READY", "STOCKED", "RECEIVING"} :
          call' = [call EXCEPT ![c] = v(n)]
    BY <1>2 DEF VoidUnits
  <2>5. UNCHANGED <<request, stock, edits, history>>
    BY <1>2 DEF VoidUnits
  <2>6. v(n) \in Calls /\ Holds(v(n))
    BY <2>1, <2>4 DEF Calls, Inv, TypeOK, SeenLines, Lineup, Statuses, Holds
  <2>7. v(n).op = "voiding" /\ v(n).batch = k.batch /\ v(n).units = k.units
    OBVIOUS
  <2> HIDE DEF k, v
  <2> USE DEF Inv, request, stock, history
  <2>8. TypeOK'
    BY <2>4, <2>5, <2>6 DEF TypeOK, Quantities
  <2>9. CallsHold'
    BY <2>4, <2>5, <2>6 DEF TypeOK, CallsHold, Holds
  <2>10. VoidedWhileStaged'
    <3>1. ASSUME NEW d \in Callers, call'[d].op = "voiding"
          PROVE  /\ d = c => call'[d] = v(n)
                 /\ d # c => call'[d] = call[d]
      BY <2>4 DEF TypeOK
    <3>2. /\ bstatus'[k.batch] # "unused"
          /\ away'[k.batch] = 0 /\ k.units = units'[k.batch]
          /\ \A l \in Lines : k.units[l] <= received'[l]
      BY <2>1, <2>3, <2>5 DEF Holds, AllStaged, Decrementable
    <3>3. ASSUME NEW d \in Callers, call'[d].op = "voiding", d # c
          PROVE  /\ call'[d] = call[d]
                 /\ call[d].batch # k.batch
                 /\ \A l \in Lines : call[d].units[l] > 0 => ~ (k.units[l] > 0)
      BY <2>2, <3>1, <3>3 DEF Voiding, LineLocked
    <3>4. ASSUME NEW d \in Callers, call'[d].op = "voiding", d # c
          PROVE  /\ bstatus'[call[d].batch] # "unused"
                 /\ away'[call[d].batch] = 0
                 /\ call[d].units \in Quantities
                 /\ call[d].units = units'[call[d].batch]
                 /\ \A l \in Lines : call[d].units[l] <= received'[l]
      BY <2>5, <3>3, <3>4, VoidCall DEF TypeOK, VoidedWhileStaged
    <3>5. ASSUME NEW d \in Callers, call'[d].op = "voiding", d # c, NEW l \in Lines
          PROVE  call[d].units[l] = 0 \/ k.units[l] = 0
      BY <2>1, <3>3, <3>4, <3>5 DEF Quantities
    <3>6. ASSUME NEW d \in Callers, NEW e \in Callers \ {d}, d # c, e # c,
                 call'[d].op = "voiding", call'[e].op = "voiding"
          PROVE  /\ call[e].batch # call[d].batch
                 /\ \A l \in Lines : call[d].units[l] = 0 \/ call[e].units[l] = 0
      BY <3>3, <3>6 DEF VoidedWhileStaged
    <3>7. ASSUME NEW d \in Callers, call'[d].op = "voiding"
          PROVE  /\ bstatus'[call'[d].batch] # "unused"
                 /\ away'[call'[d].batch] = 0
                 /\ call'[d].units = units'[call'[d].batch]
                 /\ \A l \in Lines : call'[d].units[l] <= received'[l]
      BY <2>7, <3>1, <3>2, <3>3, <3>4, <3>7
    <3>8. ASSUME NEW d \in Callers, NEW e \in Callers \ {d},
                 call'[d].op = "voiding", call'[e].op = "voiding"
          PROVE  /\ call'[e].batch # call'[d].batch
                 /\ \A l \in Lines : call'[d].units[l] = 0 \/ call'[e].units[l] = 0
      BY <2>7, <3>1, <3>3, <3>5, <3>6, <3>8
    <3> QED BY <3>7, <3>8 DEF VoidedWhileStaged
  <2>11. OverReceiptIsRaced'
    BY <2>5 DEF OverReceiptIsRaced
  <2> QED BY <2>8, <2>9, <2>10, <2>11
<1> QED BY <1>1, <1>2

LEMMA WriteVoidInv == ASSUME Inv, NEW c \in Callers, WriteVoid(c) PROVE Inv'
<1> DEFINE k == call[c]
<1>1. /\ k.op = "voiding" /\ k.next \in Statuses
      /\ k.batch \in Batches /\ k.units \in Quantities
      /\ \A l \in Lines : k.units[l] <= received[l]
  BY VoidCall, VoidingCall DEF WriteVoid, Inv, TypeOK, VoidedWhileStaged
<1>2. /\ received' = [l \in Lines |-> received[l] - k.units[l]]
      /\ bstatus' = [bstatus EXCEPT ![k.batch] = "CANCELED"]
      /\ status' = k.next
      /\ call' = [call EXCEPT ![c] = Idle]
      /\ away' = [away EXCEPT ![k.batch] = Total(units[k.batch])]
      /\ again' \subseteq again \cup {k.batch}
      /\ UNCHANGED <<type, approved, units, edits, raced, corrected>>
  BY DEF WriteVoid, End, Canceled
<1>3. ASSUME NEW d \in Callers \ {c}, call[d].op = "voiding"
      PROVE  /\ call[d].batch # k.batch
             /\ \A l \in Lines : k.units[l] = 0 \/ call[d].units[l] = 0
  BY <1>1, <1>3 DEF Inv, VoidedWhileStaged
<1> HIDE DEF k
<1> USE DEF Inv, history
<1>4. TypeOK'
  <2>1. received' \in Quantities
    BY <1>1, <1>2 DEF TypeOK, Quantities
  <2>2. bstatus' \in [Batches -> BatchStatuses]
    BY <1>1, <1>2 DEF TypeOK, BatchStatuses
  <2>3. Total(units[k.batch]) \in Nat
    BY <1>1, QuantityTotal DEF TypeOK
  <2>4. away' \in [Batches -> Nat] /\ again' \subseteq Batches
    BY <1>1, <1>2, <2>3 DEF TypeOK
  <2> QED BY <2>1, <2>2, <2>4, <1>1, <1>2, IdleCall DEF TypeOK
<1>5. CallsHold'
  <2>1. ASSUME NEW d \in Callers PROVE Holds(call[d])'
    <3>1. CASE d = c
      BY <1>2, <3>1, IdleCall DEF TypeOK, Holds, Idle
    <3>2. CASE d # c
      <4>1. call'[d] = call[d] /\ Holds(call[d])
        BY <1>2, <3>2 DEF TypeOK, CallsHold
      <4>2. call[d].op = "void" => call[d].batch \in Batches
        BY VoidCall DEF TypeOK
      <4> QED BY <4>1, <4>2, <1>2 DEF TypeOK, Holds
    <3> QED BY <3>1, <3>2
  <2> QED BY <2>1 DEF CallsHold
<1>6. VoidedWhileStaged'
  <2>1. ASSUME NEW d \in Callers, call'[d].op = "voiding"
        PROVE  /\ call'[d] = call[d] /\ d # c
               /\ call[d].batch \in Batches \ {k.batch} /\ call[d].units \in Quantities
    BY <1>2, <1>3, <2>1, IdleCall, VoidCall DEF TypeOK
  <2>2. ASSUME NEW d \in Callers, call'[d].op = "voiding"
        PROVE  /\ bstatus'[call[d].batch] # "unused" /\ away'[call[d].batch] = 0
               /\ call[d].units = units'[call[d].batch]
    BY <1>2, <2>1, <2>2 DEF TypeOK, VoidedWhileStaged
  <2>3. ASSUME NEW d \in Callers, call'[d].op = "voiding", NEW l \in Lines
        PROVE  call[d].units[l] <= received'[l]
    <3>1. call[d].units[l] \in Nat /\ call[d].units[l] <= received[l]
      BY <2>1, <2>3 DEF VoidedWhileStaged, Quantities
    <3>2. k.units[l] = 0 \/ call[d].units[l] = 0
      BY <1>3, <2>1, <2>3
    <3> QED BY <1>1, <1>2, <3>1, <3>2 DEF TypeOK, Quantities
  <2> QED BY <2>1, <2>2, <2>3 DEF VoidedWhileStaged
<1>7. OverReceiptIsRaced'
  BY <1>1, <1>2 DEF TypeOK, OverReceiptIsRaced, Quantities
<1> QED BY <1>4, <1>5, <1>6, <1>7

LEMMA CarryInv == ASSUME Inv, NEW b \in Batches, Carry(b) PROVE Inv'
<1>1. PICK n \in Nat : away' = [away EXCEPT ![b] = n]
  BY IntervalNat DEF Carry
<1>2. PICK s \in BatchStatuses \ {"unused"} : bstatus' = [bstatus EXCEPT ![b] = s]
  BY DEF Carry, BatchStatuses
<1>3. /\ bstatus[b] # "unused" /\ ~ Voiding(b)
      /\ UNCHANGED <<request, units, call, edits, history>>
  BY DEF Carry
<1> USE DEF Inv, request, history
<1>4. TypeOK'
  BY <1>1, <1>2, <1>3 DEF TypeOK
<1>5. CallsHold'
  <2>1. ASSUME NEW d \in Callers PROVE Holds(call[d])'
    <3>1. call[d].op = "void" => call[d].batch \in Batches
      BY VoidCall DEF TypeOK
    <3> QED BY <3>1, <1>2, <1>3 DEF TypeOK, CallsHold, Holds
  <2> QED BY <2>1 DEF CallsHold
<1>6. VoidedWhileStaged'
  <2>1. ASSUME NEW d \in Callers, call[d].op = "voiding"
        PROVE  call[d].batch \in Batches \ {b}
    BY <1>3, <2>1, VoidCall DEF TypeOK, Voiding
  <2> QED BY <1>1, <1>2, <1>3, <2>1 DEF TypeOK, VoidedWhileStaged
<1>7. OverReceiptIsRaced'
  BY <1>3 DEF OverReceiptIsRaced
<1> QED BY <1>4, <1>5, <1>6, <1>7

-----------------------------------------------------------------------------
(* The invariants.                                                         *)

LEMMA InitInv == Init => Inv
<1> SUFFICES ASSUME Init PROVE Inv
  OBVIOUS
<1>1. TypeOK
  BY RequestAssumption, IdleCall
     DEF Init, TypeOK, Quantities, NoUnits, Statuses, BatchStatuses
<1>2. CallsHold
  BY IdleCall DEF Init, CallsHold
<1>3. VoidedWhileStaged
  BY DEF Init, VoidedWhileStaged, Idle
<1>4. OverReceiptIsRaced
  BY RequestAssumption DEF Init, OverReceiptIsRaced, NoUnits
<1> QED BY <1>1, <1>2, <1>3, <1>4 DEF Inv

LEMMA StutterInv == ASSUME Inv, UNCHANGED vars PROVE Inv'
<1> USE DEF Inv, vars, request, stock, history
<1>1. TypeOK'
  BY DEF TypeOK, Quantities
<1>2. CallsHold'
  BY DEF CallsHold, Holds
<1>3. VoidedWhileStaged'
  BY DEF VoidedWhileStaged
<1>4. OverReceiptIsRaced'
  BY DEF OverReceiptIsRaced
<1> QED BY <1>1, <1>2, <1>3, <1>4

LEMMA NextInv == Inv /\ [Next]_vars => Inv'
<1> SUFFICES ASSUME Inv, [Next]_vars PROVE Inv'
  OBVIOUS
<1>1. CASE UNCHANGED vars
  BY <1>1, StutterInv
<1>2. ASSUME NEW b \in Batches, Carry(b) PROVE Inv'
  BY <1>2, CarryInv
<1>3. ASSUME NEW c \in Callers,
             \/ ReadStatus(c) \/ Respond(c) \/ ReadResponse(c)
             \/ ReadProof(c) \/ ReadShipment(c) \/ WriteStatus(c)
             \/ ReadLine(c) \/ WriteApproved(c) \/ WriteReceived(c)
      PROVE  Inv'
  BY <1>3, ReadStatusInv, RespondInv, ReadResponseInv, ReadProofInv, ReadShipmentInv,
     WriteStatusInv, ReadLineInv, WriteApprovedInv, WriteReceivedInv
<1>4. ASSUME NEW c \in Callers,
             \/ ReadReceipt(c) \/ WriteReceipt(c)
             \/ ReadVoid(c) \/ VoidUnits(c) \/ WriteVoid(c)
      PROVE  Inv'
  BY <1>4, ReadReceiptInv, WriteReceiptInv, ReadVoidInv, VoidUnitsInv, WriteVoidInv
<1> QED BY <1>1, <1>2, <1>3, <1>4 DEF Next

\* The inductive invariant: what calls had checked, with the invariants it carries.
THEOREM InvAlways == Spec => []Inv
BY InitInv, NextInv, PTL DEF Spec

\* Received quantities stay natural numbers, and no line is approved for more
\* than it asked, however many calls of wms-purchasing and wms-receiving overlap.
THEOREM TypeCorrect == Spec => []TypeOK
<1>1. Inv => TypeOK
  BY DEF Inv
<1> QED BY <1>1, InvAlways, PTL

\* A batch that voidBatch has checked in its transaction has all its units in
\* staging until the commit, also when it is the second void of that batch, and no
\* other void holds it or one of its lines.
THEOREM VoidIsExclusive == Spec => []VoidedWhileStaged
<1>1. Inv => VoidedWhileStaged
  BY DEF Inv
<1> QED BY <1>1, InvAlways, PTL

\* createBatch and updateLine let more be received than approved only when the
\* line had changed since the call read it.
THEOREM OverReceiptNeedsRace == Spec => []OverReceiptIsRaced
<1>1. Inv => OverReceiptIsRaced
  BY DEF Inv
<1> QED BY <1>1, InvAlways, PTL

-----------------------------------------------------------------------------
(* Received quantities and units.                                          *)

Units(l) == [b \in Batches |-> units[b][l]]
OpenBatches == {b \in Batches : Open(b)}

LEMMA OpenBatchesFinite ==
    ASSUME Inv, NEW l \in Lines
    PROVE  IsFiniteSet(OpenBatches) /\ IntValued(Units(l), Batches)
<1>1. IsFiniteSet(Batches)
  BY RequestAssumption, FS_Interval DEF Batches
<1> QED
  BY <1>1, FS_Subset DEF OpenBatches, Units, IntValued, Inv, TypeOK, Quantities

\* Only a void batch was voided again, and no batch was received without units.
BatchesOK ==
    /\ \A b \in again : bstatus[b] = "CANCELED"
    /\ \A b \in Batches : bstatus[b] # "unused" => units[b] # NoUnits

\* A step that neither opens nor closes a batch, and writes no unit and no
\* received quantity but of lines it marks as corrected.
LEMMA LedgerUntouched ==
    ASSUME LedgerIsStock, corrected \subseteq corrected', UNCHANGED <<units, again>>,
           \A b \in Batches : Open(b)' <=> Open(b),
           \A l \in Lines \ corrected' : received'[l] = received[l]
    PROVE  LedgerIsStock'
<1>1. {b \in Batches : Open(b)}' = {b \in Batches : Open(b)}
  OBVIOUS
<1> QED BY <1>1 DEF LedgerIsStock

\* createBatch opens a batch and credits each line with the units it creates.
LEMMA ReceiptLedger ==
    ASSUME Inv, Inv', LedgerIsStock, BatchesOK, NEW c \in Callers, WriteReceipt(c)
    PROVE  LedgerIsStock'
<1> DEFINE k == call[c]
<1>1. k.units \in Quantities
  BY ReceiveCall DEF WriteReceipt, Inv, TypeOK
<1>2. PICK b \in Batches :
        /\ bstatus[b] = "unused"
        /\ bstatus' = [bstatus EXCEPT ![b] = "STAGED"]
        /\ units' = [units EXCEPT ![b] = k.units]
  BY DEF WriteReceipt, Unused
<1>3. /\ received' = [l \in Lines |-> received[l] + k.units[l]]
      /\ corrected' = corrected /\ again' = again
  BY DEF WriteReceipt
<1> HIDE DEF k
<1>4. SUFFICES ASSUME NEW l \in Lines \ corrected,
                      \A x \in again : units'[x][l] = 0
      PROVE  received'[l] = SumFunctionOnSet(Units(l)', OpenBatches')
  BY <1>3 DEF LedgerIsStock, Units, OpenBatches
<1>5. received[l] = SumFunctionOnSet(Units(l), OpenBatches)
  <2>1. \A x \in again : units'[x] = units[x]
    BY <1>2 DEF BatchesOK, Inv, TypeOK
  <2> QED BY <1>4, <2>1 DEF LedgerIsStock, Units, OpenBatches
<1>6. OpenBatches' = OpenBatches \cup {b} /\ b \notin OpenBatches
  BY <1>2 DEF OpenBatches, Open, Inv, TypeOK
<1>7. Units(l)'[b] = k.units[l] /\ \A x \in OpenBatches : Units(l)'[x] = Units(l)[x]
  BY <1>2, <1>6 DEF Units, OpenBatches, Inv, TypeOK
<1>8. IsFiniteSet(OpenBatches) /\ IntValued(Units(l), OpenBatches)
  BY OpenBatchesFinite DEF OpenBatches, IntValued
<1>9. IntValued(Units(l)', OpenBatches \cup {b})
  BY <1>1, <1>7, <1>8 DEF IntValued, Quantities
<1>10. SumFunctionOnSet(Units(l)', OpenBatches \cup {b})
         = Units(l)'[b] + SumFunctionOnSet(Units(l)', OpenBatches)
  BY <1>6, <1>8, <1>9, SumAdd
<1>11. SumFunctionOnSet(Units(l), OpenBatches) = SumFunctionOnSet(Units(l)', OpenBatches)
  BY <1>7, <1>8, SumSame
<1>12. received[l] \in Nat /\ k.units[l] \in Nat /\ received'[l] = received[l] + k.units[l]
  BY <1>1, <1>3 DEF Inv, TypeOK, Quantities
<1> QED BY <1>5, <1>6, <1>7, <1>10, <1>11, <1>12

\* voidBatch closes a batch that is open and debits the lines with all its units; one
\* that it had closed before excuses them.
LEMMA VoidLedger ==
    ASSUME Inv, LedgerIsStock, NEW c \in Callers, WriteVoid(c)
    PROVE  LedgerIsStock'
<1> DEFINE k == call[c]
           b == k.batch
<1>1. /\ b \in Batches /\ bstatus[b] # "unused" /\ k.units = units[b]
      /\ \A l \in Lines : k.units[l] <= received[l]
  BY VoidCall DEF WriteVoid, Inv, TypeOK, VoidedWhileStaged
<1>2. /\ received' = [l \in Lines |-> received[l] - k.units[l]]
      /\ bstatus' = [bstatus EXCEPT ![b] = "CANCELED"]
      /\ again' = again \cup {x \in {b} : bstatus[x] = "CANCELED"}
      /\ UNCHANGED <<units, corrected>>
  BY DEF WriteVoid, Canceled
<1> HIDE DEF k, b
<1>3. SUFFICES ASSUME NEW l \in Lines \ corrected,
                      \A x \in again' : units[x][l] = 0
      PROVE  received'[l] = SumFunctionOnSet(Units(l), OpenBatches')
  BY <1>2 DEF LedgerIsStock, Units, OpenBatches
<1>4. received[l] = SumFunctionOnSet(Units(l), OpenBatches)
  BY <1>2, <1>3 DEF LedgerIsStock, Units, OpenBatches
<1>5. received[l] \in Nat /\ k.units[l] \in Nat /\ received'[l] = received[l] - k.units[l]
  BY <1>1, <1>2 DEF Inv, TypeOK, Quantities
<1>6. CASE bstatus[b] = "CANCELED"
  <2>1. k.units[l] = 0
    BY <1>1, <1>2, <1>3, <1>6
  <2>2. OpenBatches' = OpenBatches
    BY <1>1, <1>2, <1>6 DEF OpenBatches, Open, Inv, TypeOK
  <2> QED BY <1>4, <1>5, <2>1, <2>2
<1>7. CASE bstatus[b] # "CANCELED"
  <2>1. OpenBatches' = OpenBatches \ {b} /\ b \in OpenBatches
    BY <1>1, <1>2, <1>7 DEF OpenBatches, Open, Inv, TypeOK
  <2>2. IsFiniteSet(OpenBatches) /\ IntValued(Units(l), OpenBatches)
    BY OpenBatchesFinite DEF OpenBatches, IntValued
  <2>3. SumFunctionOnSet(Units(l), OpenBatches)
          = Units(l)[b] + SumFunctionOnSet(Units(l), OpenBatches \ {b})
    BY <2>1, <2>2, SumRemove
  <2>4. SumFunctionOnSet(Units(l), OpenBatches \ {b}) \in Int
    BY <2>2, SumInt, FS_Subset DEF IntValued
  <2>5. Units(l)[b] = k.units[l]
    BY <1>1 DEF Units
  <2> QED BY <1>4, <1>5, <2>1, <2>3, <2>4, <2>5
<1> QED BY <1>6, <1>7

LEMMA NextBatchesOK == Inv /\ BatchesOK /\ [Next]_vars => BatchesOK'
<1> SUFFICES ASSUME Inv, BatchesOK, [Next]_vars PROVE BatchesOK'
  OBVIOUS
<1>1. ASSUME UNCHANGED <<bstatus, units, again>> PROVE BatchesOK'
  BY <1>1 DEF BatchesOK
<1>2. CASE UNCHANGED vars
  BY <1>1, <1>2 DEF vars, stock, history
<1>3. ASSUME NEW b \in Batches, Carry(b) PROVE BatchesOK'
  BY <1>3 DEF Carry, BatchesOK, history, Inv, TypeOK
<1>4. ASSUME NEW c \in Callers, WriteReceipt(c) PROVE BatchesOK'
  <2>1. call[c].units # NoUnits
    BY <1>4, ReceiveCall DEF WriteReceipt, Inv, TypeOK
  <2> QED BY <1>4, <2>1 DEF WriteReceipt, Unused, BatchesOK, Inv, TypeOK
<1>5. ASSUME NEW c \in Callers, WriteVoid(c) PROVE BatchesOK'
  <2>1. call[c].batch \in Batches
    BY <1>5, VoidCall DEF WriteVoid, Inv, TypeOK
  <2>2. /\ bstatus' = [bstatus EXCEPT ![call[c].batch] = "CANCELED"]
        /\ again' \subseteq again \cup {call[c].batch} /\ units' = units
    BY <1>5 DEF WriteVoid, Canceled
  <2>3. bstatus[call[c].batch] # "unused"
    BY <1>5 DEF WriteVoid, Inv, VoidedWhileStaged
  <2> QED BY <2>1, <2>2, <2>3 DEF BatchesOK, Inv, TypeOK
<1>6. ASSUME NEW c \in Callers,
             \/ ReadStatus(c) \/ Respond(c) \/ ReadProof(c) \/ ReadShipment(c)
             \/ ReadReceipt(c) \/ ReadVoid(c)
      PROVE  BatchesOK'
  BY <1>1, <1>6 DEF ReadStatus, Respond, ReadProof, ReadShipment, ReadReceipt, ReadVoid,
                    Begin, stock, history
<1>7. ASSUME NEW c \in Callers,
             \/ ReadResponse(c) \/ WriteStatus(c) \/ ReadLine(c)
             \/ WriteApproved(c) \/ WriteReceived(c)
      PROVE  BatchesOK'
  BY <1>1, <1>7 DEF ReadResponse, WriteStatus, ReadLine, WriteApproved, WriteReceived,
                    Refuse, stock, history
<1>8. ASSUME NEW c \in Callers, VoidUnits(c) PROVE BatchesOK'
  BY <1>1, <1>8 DEF VoidUnits, Refuse, stock, history
<1> QED BY <1>2, <1>3, <1>4, <1>5, <1>6, <1>7, <1>8 DEF Next

LEMMA BatchesAlwaysOK == Spec => []BatchesOK
<1>1. Init => BatchesOK
  BY DEF Init, BatchesOK
<1> QED BY <1>1, InvAlways, NextBatchesOK, PTL DEF Spec

LEMMA NextStock ==
    Inv /\ Inv' /\ BatchesOK /\ LedgerIsStock /\ [Next]_vars => LedgerIsStock'
<1> SUFFICES ASSUME Inv, Inv', BatchesOK, LedgerIsStock, [Next]_vars PROVE LedgerIsStock'
  OBVIOUS
<1>1. ASSUME UNCHANGED <<received, bstatus, units, corrected, again>> PROVE LedgerIsStock'
  BY <1>1, LedgerUntouched DEF Open
<1>2. CASE UNCHANGED vars
  BY <1>1, <1>2 DEF vars, request, stock, history
<1>3. ASSUME NEW b \in Batches, Carry(b) PROVE LedgerIsStock'
  <2>1. PICK s \in BatchStatuses \ {"unused"} :
          /\ bstatus' = [bstatus EXCEPT ![b] = s]
          /\ s = "CANCELED" <=> bstatus[b] = "CANCELED"
    BY <1>3 DEF Carry, BatchStatuses, Inv, TypeOK
  <2>2. bstatus[b] # "unused" /\ UNCHANGED <<units, received, corrected, again>>
    BY <1>3 DEF Carry, request, history
  <2> QED BY <2>1, <2>2, LedgerUntouched DEF Open, Inv, TypeOK
<1>4. ASSUME NEW c \in Callers, WriteReceived(c) PROVE LedgerIsStock'
  <2>1. /\ received' = [received EXCEPT ![call[c].line] = call[c].to]
        /\ corrected' = corrected \cup {call[c].line}
        /\ UNCHANGED <<bstatus, units, again>>
    BY <1>4 DEF WriteReceived, stock
  <2> QED BY <2>1, LedgerUntouched DEF Open, Inv, TypeOK, Quantities
<1>5. ASSUME NEW c \in Callers,
             \/ ReadStatus(c) \/ Respond(c) \/ ReadProof(c) \/ ReadShipment(c)
             \/ ReadReceipt(c) \/ ReadVoid(c)
      PROVE  LedgerIsStock'
  BY <1>1, <1>5 DEF ReadStatus, Respond, ReadProof, ReadShipment, ReadReceipt, ReadVoid,
                    Begin, request, stock, history
<1>6. ASSUME NEW c \in Callers,
             ReadResponse(c) \/ WriteStatus(c) \/ ReadLine(c) \/ WriteApproved(c)
      PROVE  LedgerIsStock'
  BY <1>1, <1>6 DEF ReadResponse, WriteStatus, ReadLine, WriteApproved, Refuse,
                    request, stock, history
<1>7. ASSUME NEW c \in Callers, VoidUnits(c) PROVE LedgerIsStock'
  BY <1>1, <1>7 DEF VoidUnits, Refuse, request, stock, history
<1> QED BY <1>2, <1>3, <1>4, <1>5, <1>6, <1>7, ReceiptLedger, VoidLedger DEF Next

\* For every set of lines and number of batches and callers: a line's received
\* quantity is the number of units created for it by createBatch in the batches
\* that voidBatch has not canceled, unless updateLine overwrote it or a second void
\* of one batch took its units twice.
THEOREM ReceivedIsStock == Spec => []LedgerIsStock
<1>1. Init => LedgerIsStock
  <2> SUFFICES ASSUME Init, NEW l \in Lines
               PROVE  received[l] = SumFunctionOnSet([b \in Batches |-> units[b][l]],
                                                     {b \in Batches : Open(b)})
    BY DEF LedgerIsStock
  <2>1. {b \in Batches : Open(b)} = {} /\ received[l] = 0
    BY DEF Init, Open, NoUnits
  <2> QED BY <2>1, SumEmpty
<1> QED BY <1>1, InvAlways, BatchesAlwaysOK, NextStock, PTL DEF Spec

-----------------------------------------------------------------------------
(* Closed requests.                                                        *)

Closed == {"STOCKED", "REJECTED", "CANCELED"}

\* What a call writes follows from the status it had read: a status call that
\* read a closed request repeats its status, and none is received for.
Follows(k) ==
    /\ k.op = "status" /\ k.seen \in Closed => k.to = k.seen
    /\ k.op = "receive" => k.from \notin Closed

CallsFollow == \A c \in Callers : Follows(call[c])

\* No transition leads out of a closed request, of either type.
LEMMA ClosedIsFinal ==
    ASSUME NEW to, status \in Closed \cap Statuses, MayMove(to, FALSE) \/ MayMove(to, TRUE)
    PROVE  to = status
<1>1. Transitions[status] = {}
  <2>1. CASE type = "PROCUREMENT"
    BY <2>1 DEF Transitions, Closed, Statuses
  <2>2. CASE type # "PROCUREMENT"
    BY <2>2 DEF Transitions, Closed, Statuses
  <2> QED BY <2>1, <2>2
<1> QED BY <1>1 DEF MayMove

\* A step that changes one caller's call to one that follows from what it read.
LEMMA FollowOn ==
    ASSUME Inv, CallsFollow, NEW c \in Callers, NEW k, Follows(k),
           call' = [call EXCEPT ![c] = k]
    PROVE  CallsFollow'
BY DEF Inv, TypeOK, CallsFollow, Follows

LEMMA IdleFollows == Follows(Idle)
BY DEF Follows, Idle

LEMMA StatusFollows ==
    ASSUME Inv, CallsFollow, NEW c \in Callers,
           \/ ReadStatus(c) \/ Respond(c) \/ ReadResponse(c)
           \/ ReadProof(c) \/ ReadShipment(c)
    PROVE  CallsFollow'
<1>0. status \in Statuses
  BY DEF Inv, TypeOK
<1> DEFINE s(to) == [op |-> "status", to |-> to, seen |-> status]
<1>1. CASE ReadStatus(c)
  <2>1. PICK to \in Statuses : MayMove(to, FALSE) /\ call' = [call EXCEPT ![c] = s(to)]
    BY <1>1 DEF ReadStatus, Begin
  <2>2. Follows(s(to))
    BY <1>0, <2>1, ClosedIsFinal DEF Follows
  <2> HIDE DEF s
  <2> QED BY <2>1, <2>2, FollowOn
<1>2. CASE Respond(c)
  <2>1. PICK to : call' = [call EXCEPT ![c] = [op |-> "respond", to |-> to]]
    BY <1>2 DEF Respond, Begin
  <2> DEFINE k == [op |-> "respond", to |-> to]
  <2>2. Follows(k)
    BY DEF Follows
  <2>3. call' = [call EXCEPT ![c] = k]
    BY <2>1
  <2> HIDE DEF k
  <2> QED BY <2>2, <2>3, FollowOn
<1>3. CASE ReadResponse(c)
  <2>1. CASE MayMove(call[c].to, TRUE) /\ call' = [call EXCEPT ![c] = s(call[c].to)]
    <3>1. Follows(s(call[c].to))
      BY <1>0, <2>1, ClosedIsFinal DEF Follows
    <3> HIDE DEF s
    <3> QED BY <2>1, <3>1, FollowOn
  <2>2. CASE Refuse(c)
    BY <2>2, FollowOn, IdleFollows DEF Refuse, End
  <2> QED BY <1>3, <2>1, <2>2 DEF ReadResponse
<1>4. CASE ReadProof(c) \/ ReadShipment(c)
  <2>1. PICK to : status \notin Closed /\ call' = [call EXCEPT ![c] = s(to)]
    BY <1>4 DEF ReadProof, ReadShipment, Begin, Closed
  <2>2. Follows(s(to))
    BY <2>1 DEF Follows
  <2> HIDE DEF s
  <2> QED BY <2>1, <2>2, FollowOn
<1> QED BY <1>1, <1>2, <1>3, <1>4

LEMMA LineFollows ==
    ASSUME Inv, CallsFollow, NEW c \in Callers, ReadLine(c)
    PROVE  CallsFollow'
<1>1. PICK l \in Lines, n \in 0..Max({Requested[j] : j \in Lines}) :
         \/ call' = [call EXCEPT ![c] = [op |-> "approve", line |-> l, to |-> n,
                                         seen |-> Lineup, from |-> status]]
         \/ call' = [call EXCEPT ![c] = [op |-> "correct", line |-> l, to |-> n,
                                         seen |-> Lineup]]
  BY DEF ReadLine
<1> DEFINE a == [op |-> "approve", line |-> l, to |-> n, seen |-> Lineup, from |-> status]
           r == [op |-> "correct", line |-> l, to |-> n, seen |-> Lineup]
<1>2. Follows(a) /\ Follows(r)
  BY DEF Follows
<1>3. call' = [call EXCEPT ![c] = a] \/ call' = [call EXCEPT ![c] = r]
  BY <1>1
<1> HIDE DEF a, r
<1> QED BY <1>2, <1>3, FollowOn

\* createBatch reads only requests that can be received.
LEMMA ReceivingFollows ==
    ASSUME Inv, CallsFollow, NEW c \in Callers,
           ReadReceipt(c) \/ ReadVoid(c) \/ VoidUnits(c)
    PROVE  CallsFollow'
<1>1. CASE ReadReceipt(c)
  <2>1. PICK q : call' = [call EXCEPT ![c] =
                   [op |-> "receive", units |-> q, seen |-> Lineup, from |-> status]]
    BY <1>1 DEF ReadReceipt, Begin
  <2> DEFINE k == [op |-> "receive", units |-> q, seen |-> Lineup, from |-> status]
  <2>2. Follows(k)
    BY <1>1 DEF Follows, ReadReceipt, Receivable, Closed
  <2>3. call' = [call EXCEPT ![c] = k]
    BY <2>1
  <2> HIDE DEF k
  <2> QED BY <2>2, <2>3, FollowOn
<1>2. CASE ReadVoid(c)
  <2>1. PICK b \in Batches :
          call' = [call EXCEPT ![c] = [op |-> "void", batch |-> b, units |-> units[b]]]
    BY <1>2 DEF ReadVoid, Begin
  <2> DEFINE k == [op |-> "void", batch |-> b, units |-> units[b]]
  <2>2. Follows(k)
    BY DEF Follows
  <2>3. call' = [call EXCEPT ![c] = k]
    BY <2>1
  <2> HIDE DEF k
  <2> QED BY <2>2, <2>3, FollowOn
<1>3. CASE VoidUnits(c)
  <2>1. CASE Refuse(c)
    BY <2>1, FollowOn, IdleFollows DEF Refuse, End
  <2>2. CASE ~ Refuse(c)
    <3>1. PICK n : call' = [call EXCEPT ![c] =
                     [op |-> "voiding", batch |-> call[c].batch,
                      units |-> call[c].units, next |-> n, seen |-> Lineup]]
      BY <1>3, <2>2 DEF VoidUnits
    <3> DEFINE k == [op |-> "voiding", batch |-> call[c].batch,
                     units |-> call[c].units, next |-> n, seen |-> Lineup]
    <3>2. Follows(k)
      BY DEF Follows
    <3>3. call' = [call EXCEPT ![c] = k]
      BY <3>1
    <3> HIDE DEF k
    <3> QED BY <3>2, <3>3, FollowOn
  <2> QED BY <2>1, <2>2
<1> QED BY <1>1, <1>2, <1>3

\* The writes end their calls.
LEMMA WritesFollow ==
    ASSUME Inv, CallsFollow, NEW c \in Callers,
           \/ WriteStatus(c) \/ WriteApproved(c) \/ WriteReceived(c)
           \/ WriteReceipt(c) \/ WriteVoid(c)
    PROVE  CallsFollow'
<1>1. call' = [call EXCEPT ![c] = Idle]
  BY DEF WriteStatus, WriteApproved, WriteReceived, WriteReceipt, WriteVoid, End
<1> QED BY <1>1, FollowOn, IdleFollows

LEMMA NextFollows == Inv /\ CallsFollow /\ [Next]_vars => CallsFollow'
<1> SUFFICES ASSUME Inv, CallsFollow, [Next]_vars PROVE CallsFollow'
  OBVIOUS
<1>1. ASSUME UNCHANGED call PROVE CallsFollow'
  BY <1>1 DEF CallsFollow, Follows
<1>2. CASE UNCHANGED vars
  BY <1>1, <1>2 DEF vars
<1>3. CASE \E b \in Batches : Carry(b)
  BY <1>1, <1>3 DEF Carry
<1> QED BY <1>2, <1>3, StatusFollows, LineFollows, ReceivingFollows, WritesFollow DEF Next

\* Only four writes change a status; of a closed request, they do it late.
LEMMA ReopenedLate ==
    ASSUME Inv, CallsFollow, NEW c \in Callers, status \in Closed, status' # status,
           WriteStatus(c) \/ WriteApproved(c) \/ WriteReceipt(c) \/ WriteVoid(c)
    PROVE  /\ call[c] # Idle /\ call'[c] = Idle
           /\ call[c].op = "voiding" \/ StatusRead(call[c]) # status
<1>1. call' = [call EXCEPT ![c] = Idle] /\ Follows(call[c])
  BY DEF WriteStatus, WriteApproved, WriteReceipt, WriteVoid, End, CallsFollow
<1>2. call'[c] = Idle
  BY <1>1 DEF Inv, TypeOK
<1>3. CASE WriteStatus(c)
  BY <1>1, <1>2, <1>3 DEF WriteStatus, Idle, Follows, StatusRead
<1>4. CASE WriteApproved(c)
  BY <1>2, <1>4 DEF WriteApproved, Idle, StatusRead, Closed
<1>5. CASE WriteReceipt(c)
  BY <1>1, <1>2, <1>5 DEF WriteReceipt, Idle, Follows, StatusRead
<1>6. CASE WriteVoid(c)
  BY <1>2, <1>6 DEF WriteVoid, Idle
<1> QED BY <1>3, <1>4, <1>5, <1>6

\* Every other step leaves the status alone.
LEMMA OthersKeepStatus ==
    ASSUME NEW c \in Callers,
           \/ ReadStatus(c) \/ Respond(c) \/ ReadResponse(c)
           \/ ReadProof(c) \/ ReadShipment(c) \/ ReadLine(c) \/ WriteReceived(c)
           \/ ReadReceipt(c) \/ ReadVoid(c) \/ VoidUnits(c)
    PROVE  status' = status
<1>1. CASE ReadStatus(c) \/ Respond(c) \/ ReadProof(c) \/ ReadShipment(c)
  BY <1>1 DEF ReadStatus, Respond, ReadProof, ReadShipment, Begin, request
<1>2. CASE ReadResponse(c) \/ ReadLine(c) \/ WriteReceived(c)
  BY <1>2 DEF ReadResponse, ReadLine, WriteReceived, Refuse, request
<1>3. CASE ReadReceipt(c) \/ ReadVoid(c) \/ VoidUnits(c)
  BY <1>3 DEF ReadReceipt, ReadVoid, VoidUnits, Begin, Refuse, request
<1> QED BY <1>1, <1>2, <1>3

LEMMA NextReopens ==
    ASSUME Inv, CallsFollow, [Next]_vars, status \in Closed, status' # status
    PROVE  \E c \in Callers :
             /\ call[c] # Idle /\ call'[c] = Idle
             /\ call[c].op = "voiding" \/ StatusRead(call[c]) # status
<1>1. ~ UNCHANGED vars
  BY DEF vars, request
<1>2. ~ \E b \in Batches : Carry(b)
  BY DEF Carry, request
<1> QED BY <1>1, <1>2, ReopenedLate, OthersKeepStatus DEF Next

\* However many calls overlap, a STOCKED, REJECTED or CANCELED request gets
\* another status only from voidBatch or from a call that had read the request
\* before it was closed: no call that reads it closed reopens it.
THEOREM ClosedStaysClosed == Spec => ClosedReopenedLate
<1>1. Init => CallsFollow
  BY IdleFollows DEF Init, CallsFollow
<1>2. Inv /\ CallsFollow /\ [Next]_vars =>
        [ (status \in {"STOCKED", "REJECTED", "CANCELED"} /\ status' # status) =>
            \E c \in Callers :
               /\ call[c] # Idle /\ call'[c] = Idle
               /\ (call[c].op = "voiding" \/ StatusRead(call[c]) # status) ]_vars
  BY NextReopens DEF Closed
<1> QED BY <1>1, <1>2, InvAlways, NextFollows, PTL DEF Spec, ClosedReopenedLate

-----------------------------------------------------------------------------
(* Stocked requests.                                                       *)

\* What is left of received when q is taken out.
Rest(q, lineup) == [l \in Lines |-> lineup.received[l] - q[l]]

\* A void that found the request STOCKED had added the lines up to that.
VoidsAdd ==
    \A c \in Callers : call[c].op = "voiding" /\ call[c].next = "STOCKED" =>
        Total(Rest(call[c].units, call[c].seen)) >= Total(call[c].seen.approved)

LEMMA VoidAdds ==
    ASSUME Inv, VoidsAdd, NEW c \in Callers, VoidUnits(c)
    PROVE  VoidsAdd'
<1> DEFINE k == call[c]
           next == IF Total(Rest(k.units, Lineup)) = 0 THEN "RECEIVING_READY"
                   ELSE IF Total(Rest(k.units, Lineup)) >= Total(approved) THEN "STOCKED"
                   ELSE "RECEIVING"
           v == [op |-> "voiding", batch |-> k.batch, units |-> k.units,
                 next |-> next, seen |-> Lineup]
<1>1. next = "STOCKED" => Total(Rest(k.units, Lineup)) >= Total(approved)
  OBVIOUS
<1>2. CASE call' = [call EXCEPT ![c] = v]
  <2>1. v.units = k.units /\ v.seen = Lineup /\ v.next = next /\ Lineup.approved = approved
    BY DEF Lineup
  <2> HIDE DEF v, k, next
  <2> QED BY <1>1, <1>2, <2>1 DEF VoidsAdd, Inv, TypeOK
<1>3. CASE Refuse(c)
  BY <1>3, IdleCall DEF Refuse, End, VoidsAdd, Inv, TypeOK
<1>4. Rest(k.units, Lineup) = [l \in Lines |-> received[l] - k.units[l]]
  BY DEF Rest, Lineup
<1>5. VoidUnits(c) => Refuse(c) \/ call' = [call EXCEPT ![c] = v]
  BY <1>4 DEF VoidUnits
<1> QED BY <1>2, <1>3, <1>5

LEMMA NextVoidsAdd == Inv /\ VoidsAdd /\ [Next]_vars => VoidsAdd'
<1> SUFFICES ASSUME Inv, VoidsAdd, [Next]_vars PROVE VoidsAdd'
  OBVIOUS
<1>1. ASSUME UNCHANGED call PROVE VoidsAdd'
  BY <1>1 DEF VoidsAdd
<1>2. CASE UNCHANGED vars
  BY <1>1, <1>2 DEF vars
<1>3. CASE \E b \in Batches : Carry(b)
  BY <1>1, <1>3 DEF Carry
<1>4. ASSUME NEW c \in Callers, NEW k, k.op # "voiding", call' = [call EXCEPT ![c] = k]
      PROVE  VoidsAdd'
  BY <1>4 DEF VoidsAdd, Inv, TypeOK
<1>5. ASSUME NEW c \in Callers,
             \/ WriteStatus(c) \/ WriteApproved(c) \/ WriteReceived(c)
             \/ WriteReceipt(c) \/ WriteVoid(c)
      PROVE  VoidsAdd'
  <2>1. call' = [call EXCEPT ![c] = Idle]
    BY <1>5 DEF WriteStatus, WriteApproved, WriteReceived, WriteReceipt, WriteVoid, End
  <2> QED BY <1>4, <2>1, IdleCall
<1>6. ASSUME NEW c \in Callers,
             \/ ReadStatus(c) \/ Respond(c) \/ ReadResponse(c)
             \/ ReadProof(c) \/ ReadShipment(c)
      PROVE  VoidsAdd'
  <2>1. \E k : k.op # "voiding" /\ call' = [call EXCEPT ![c] = k]
    BY <1>6, IdleCall
       DEF ReadStatus, Respond, ReadResponse, ReadProof, ReadShipment, Begin, Refuse, End
  <2> QED BY <1>4, <2>1
<1>7. ASSUME NEW c \in Callers, ReadLine(c) \/ ReadReceipt(c) \/ ReadVoid(c)
      PROVE  VoidsAdd'
  <2>1. \E k : k.op # "voiding" /\ call' = [call EXCEPT ![c] = k]
    BY <1>7 DEF ReadLine, ReadReceipt, ReadVoid, Begin
  <2> QED BY <1>4, <2>1
<1> QED BY <1>2, <1>3, <1>5, <1>6, <1>7, VoidAdds DEF Next

\* Quantities that add up to no less are no less on every line, or greater on one.
LEMMA AddedUp ==
    ASSUME NEW p \in Quantities, NEW q \in Quantities, Total(p) >= Total(q)
    PROVE  (\A l \in Lines : p[l] >= q[l]) \/ (\E l \in Lines : p[l] > q[l])
<1>1. SUFFICES ASSUME \A l \in Lines : p[l] <= q[l], NEW e \in Lines, p[e] < q[e]
               PROVE  FALSE
  BY DEF Quantities
<1>2. IsFiniteSet(Lines) /\ IntValued(p, Lines) /\ IntValued(q, Lines)
  BY RequestAssumption DEF IntValued, Quantities
<1>3. p[e] # q[e]
  BY <1>1 DEF Quantities
<1>4. Total(p) < Total(q) /\ Total(p) \in Int /\ Total(q) \in Int
  BY <1>1, <1>2, <1>3, SumStrict, SumInt DEF Total
<1> QED BY <1>4

StockedEnough ==
    \/ \A l \in Lines : received'[l] >= approved'[l]
    \/ \E l \in Lines : received'[l] > approved'[l]
    \/ \E c \in Callers :
         /\ call[c] # Idle /\ call'[c] = Idle
         /\ (call[c].op = "status" \/ call[c].seen # Lineup)

LEMMA ReceiptStocks ==
    ASSUME Inv, NEW c \in Callers, WriteReceipt(c), status' = "STOCKED"
    PROVE  StockedEnough
<1> DEFINE k == call[c]
<1>1. /\ k.op = "receive" /\ k.units \in Quantities
      /\ ~ HasRemaining(k.units, k.seen)
      /\ received' = [l \in Lines |-> received[l] + k.units[l]] /\ approved' = approved
      /\ call' = [call EXCEPT ![c] = Idle]
  BY ReceiveCall DEF WriteReceipt, End, Inv, TypeOK
<1>2. k # Idle /\ call'[c] = Idle
  BY <1>1 DEF Idle, Inv, TypeOK
<1>3. CASE k.seen = Lineup
  <2>1. \A l \in Lines : received'[l] >= approved'[l]
    <3> HIDE DEF k
    <3>1. k.seen.received = received /\ k.seen.approved = approved
      BY <1>3 DEF Lineup
    <3> QED BY <1>1, <3>1 DEF HasRemaining, Inv, TypeOK, Quantities
  <2> QED BY <2>1 DEF StockedEnough
<1> QED BY <1>2, <1>3 DEF StockedEnough

LEMMA VoidStocks ==
    ASSUME Inv, Inv', VoidsAdd, NEW c \in Callers, WriteVoid(c), status' = "STOCKED"
    PROVE  StockedEnough
<1> DEFINE k == call[c]
<1>1. /\ k.op = "voiding" /\ k.next = "STOCKED"
      /\ received' = [l \in Lines |-> received[l] - k.units[l]] /\ approved' = approved
      /\ call' = [call EXCEPT ![c] = Idle]
  BY DEF WriteVoid, End
<1>2. k # Idle /\ call'[c] = Idle
  BY <1>1 DEF Idle, Inv, TypeOK
<1>3. CASE k.seen = Lineup
  <2>1. Rest(k.units, k.seen) = received' /\ k.seen.approved = approved'
    BY <1>1, <1>3 DEF Rest, Lineup
  <2>2. Total(received') >= Total(approved')
    BY <1>1, <2>1 DEF VoidsAdd
  <2>3. received' \in Quantities /\ approved' \in Quantities
    BY DEF Inv, TypeOK
  <2> QED BY <2>2, <2>3, AddedUp DEF StockedEnough
<1> QED BY <1>2, <1>3 DEF StockedEnough

LEMMA NextStocks ==
    ASSUME Inv, Inv', VoidsAdd, [Next]_vars, status # "STOCKED", status' = "STOCKED"
    PROVE  StockedEnough
<1>1. ~ UNCHANGED vars
  BY DEF vars, request
<1>2. ~ \E b \in Batches : Carry(b)
  BY DEF Carry, request
<1>3. ASSUME NEW c \in Callers, WriteStatus(c) PROVE StockedEnough
  <2>1. call[c].op = "status" /\ call' = [call EXCEPT ![c] = Idle]
    BY <1>3 DEF WriteStatus, End
  <2> QED BY <2>1 DEF StockedEnough, Idle, Inv, TypeOK
<1>4. ASSUME NEW c \in Callers PROVE ~ WriteApproved(c)
  BY DEF WriteApproved
<1> QED BY <1>1, <1>2, <1>3, <1>4, OthersKeepStatus, ReceiptStocks, VoidStocks DEF Next

\* createBatch and voidBatch make a request STOCKED only when every line has been
\* received in full, or the surplus of one line makes up for another, or the
\* quantities they added up had changed by their commit.
THEOREM StockedWhenReceived == Spec => StockedByReceipt
<1>1. Init => VoidsAdd
  BY IdleCall DEF Init, VoidsAdd
<1>2. Inv /\ Inv' /\ VoidsAdd /\ [Next]_vars =>
        [ status # "STOCKED" /\ status' = "STOCKED" =>
            \/ \A l \in Lines : received'[l] >= approved'[l]
            \/ \E l \in Lines : received'[l] > approved'[l]
            \/ \E c \in Callers :
                 /\ call[c] # Idle /\ call'[c] = Idle
                 /\ (call[c].op = "status" \/ call[c].seen # Lineup) ]_vars
  BY NextStocks DEF StockedEnough
<1> QED BY <1>1, <1>2, InvAlways, NextVoidsAdd, PTL DEF Spec, StockedByReceipt

-----------------------------------------------------------------------------
(* The ledger.                                                             *)

Steps(S) == [b \in Batches |-> IF S[b] = "unused" THEN "unused"
                               ELSE IF S[b] = "CANCELED" THEN "void" ELSE "open"]

\* createBatch credits its lines with the units it creates.
LEMMA ReceiptCredits ==
    ASSUME Inv, NEW c \in Callers, WriteReceipt(c)
    PROVE  \E b \in Batches : Ledger!Credit(b)
<1> DEFINE k == call[c]
<1>1. k.units \in Quantities /\ k.units # NoUnits
  BY ReceiveCall DEF WriteReceipt, Inv, TypeOK
<1>2. PICK b \in Batches :
        /\ bstatus[b] = "unused"
        /\ bstatus' = [bstatus EXCEPT ![b] = "STAGED"]
        /\ units' = [units EXCEPT ![b] = k.units]
  BY DEF WriteReceipt, Unused
<1>3. received' = [l \in Lines |-> received[l] + k.units[l]] /\ away' = away
  BY DEF WriteReceipt
<1> HIDE DEF k
<1>4. units'[b] = k.units
  BY <1>2 DEF Inv, TypeOK
<1>5. Steps(bstatus') = [Steps(bstatus) EXCEPT ![b] = "open"]
  BY <1>2 DEF Steps, Inv, TypeOK
<1> QED
  BY <1>1, <1>2, <1>3, <1>4, <1>5
     DEF Ledger!Credit, Ledger!NoUnits, Steps, Quantities, NoUnits

\* voidBatch takes them back, all of them, while they are in staging.
LEMMA VoidDebits ==
    ASSUME Inv, BatchesOK, NEW c \in Callers, WriteVoid(c)
    PROVE  \E b \in Batches : Ledger!Debit(b)
<1> DEFINE k == call[c]
<1>1. /\ k.batch \in Batches /\ bstatus[k.batch] # "unused" /\ away[k.batch] = 0
      /\ k.units = units[k.batch]
      /\ \A l \in Lines : k.units[l] <= received[l]
  BY VoidCall DEF WriteVoid, Inv, TypeOK, VoidedWhileStaged
<1>2. /\ received' = [l \in Lines |-> received[l] - k.units[l]]
      /\ bstatus' = [bstatus EXCEPT ![k.batch] = "CANCELED"]
      /\ away' = [away EXCEPT ![k.batch] = Total(units[k.batch])]
      /\ UNCHANGED units
  BY DEF WriteVoid, Canceled
<1> HIDE DEF k
<1>3. Steps(bstatus') = [Steps(bstatus) EXCEPT ![k.batch] = "void"]
  BY <1>1, <1>2 DEF Steps, Inv, TypeOK
<1>4. Total(units[k.batch]) \in Nat \ {0}
  <2>1. PICK l \in Lines : units[k.batch][l] # 0
    BY <1>1 DEF BatchesOK, NoUnits, Inv, TypeOK, Quantities
  <2>2. units[k.batch][l] \in Nat /\ Total(units[k.batch]) \in Nat
    BY <1>1, QuantityTotal DEF Inv, TypeOK, Quantities
  <2>3. units[k.batch][l] <= Total(units[k.batch])
    BY <1>1, SumElement, RequestAssumption DEF Total, NatValued, Inv, TypeOK, Quantities
  <2> QED BY <2>1, <2>2, <2>3
<1> HIDE DEF Total
<1>5. away'[k.batch] = Total(units[k.batch])
  BY <1>1, <1>2 DEF Inv, TypeOK
<1> QED
  BY <1>1, <1>2, <1>3, <1>4, <1>5 DEF Ledger!Debit, Steps

LEMMA CarryCarries ==
    ASSUME Inv, NEW b \in Batches, Carry(b)
    PROVE  Ledger!Carry(b)
<1>1. PICK n \in Nat : away' = [away EXCEPT ![b] = n]
  BY IntervalNat DEF Carry
<1>2. PICK s \in BatchStatuses \ {"unused"} :
        /\ bstatus' = [bstatus EXCEPT ![b] = s]
        /\ s = "CANCELED" <=> bstatus[b] = "CANCELED"
  BY DEF Carry, BatchStatuses, Inv, TypeOK
<1>3. bstatus[b] # "unused" /\ UNCHANGED <<units, received>>
  BY DEF Carry, request
<1>4. Steps(bstatus') = Steps(bstatus)
  BY <1>2, <1>3 DEF Steps, Inv, TypeOK
<1>5. away'[b] = n
  BY <1>1 DEF Inv, TypeOK
<1> QED
  BY <1>1, <1>3, <1>4, <1>5 DEF Ledger!Carry, Steps

LEMMA CorrectionCorrects ==
    ASSUME Inv, NEW c \in Callers, WriteReceived(c)
    PROVE  \E l \in Lines : Ledger!Correct(l)
<1> DEFINE k == call[c]
<1>1. k.line \in Lines /\ k.to \in Nat
  BY CorrectCall DEF WriteReceived, Inv, TypeOK
<1>2. received' = [received EXCEPT ![k.line] = k.to] /\ UNCHANGED stock
  BY DEF WriteReceived
<1> HIDE DEF k
<1>3. received'[k.line] = k.to
  BY <1>1, <1>2 DEF Inv, TypeOK, Quantities
<1> QED
  BY <1>1, <1>2, <1>3 DEF Ledger!Correct, stock

\* Every other step leaves the ledger alone.
LEMMA OthersStutter ==
    ASSUME NEW c \in Callers,
           \/ ReadStatus(c) \/ Respond(c) \/ ReadResponse(c)
           \/ ReadProof(c) \/ ReadShipment(c) \/ WriteStatus(c)
           \/ ReadLine(c) \/ WriteApproved(c)
           \/ ReadReceipt(c) \/ ReadVoid(c) \/ VoidUnits(c)
    PROVE  UNCHANGED <<received, stock>>
<1>1. CASE ReadStatus(c) \/ Respond(c) \/ ReadProof(c) \/ ReadShipment(c)
  BY <1>1 DEF ReadStatus, Respond, ReadProof, ReadShipment, Begin, request
<1>2. CASE ReadResponse(c) \/ WriteStatus(c) \/ ReadLine(c) \/ WriteApproved(c)
  BY <1>2 DEF ReadResponse, WriteStatus, ReadLine, WriteApproved, Refuse, request
<1>3. CASE ReadReceipt(c) \/ ReadVoid(c) \/ VoidUnits(c)
  BY <1>3 DEF ReadReceipt, ReadVoid, VoidUnits, Begin, Refuse, request
<1> QED BY <1>1, <1>2, <1>3

LEMMA NextLedger == Inv /\ BatchesOK /\ [Next]_vars => [Ledger!Next]_(Ledger!ledger)
<1> SUFFICES ASSUME Inv, BatchesOK, [Next]_vars PROVE [Ledger!Next]_(Ledger!ledger)
  OBVIOUS
<1>1. ASSUME UNCHANGED <<received, stock>> PROVE UNCHANGED Ledger!ledger
  BY <1>1 DEF Ledger!ledger, stock
<1>2. CASE UNCHANGED vars
  BY <1>1, <1>2 DEF vars, request
<1>3. ASSUME NEW b \in Batches, Carry(b) PROVE Ledger!Next
  BY <1>3, CarryCarries DEF Ledger!Next
<1>4. ASSUME NEW c \in Callers, WriteReceipt(c) PROVE Ledger!Next
  BY <1>4, ReceiptCredits DEF Ledger!Next
<1>5. ASSUME NEW c \in Callers, WriteVoid(c) PROVE Ledger!Next
  BY <1>5, VoidDebits DEF Ledger!Next
<1>6. ASSUME NEW c \in Callers, WriteReceived(c) PROVE Ledger!Next
  BY <1>6, CorrectionCorrects DEF Ledger!Next
<1> QED BY <1>1, <1>2, <1>3, <1>4, <1>5, <1>6, OthersStutter DEF Next

\* Receiving implements the ledger: each batch is credited to its lines once, and
\* debited all of it while all its units are staged, which takes them out of staging.
THEOREM ReceivingKeepsLedger == Spec => LedgerSpec
<1>1. Init => Ledger!Init
  BY DEF Init, Ledger!Init, Ledger!NoUnits, NoUnits
<1> QED BY <1>1, InvAlways, BatchesAlwaysOK, NextLedger, PTL DEF Spec, LedgerSpec, Ledger!Spec
=============================================================================
