------------------------------ MODULE StockRequest ------------------------------
(***************************************************************************)
(* One stock request and the receiving batches made for it                   *)
(* (apps/api/src/modules/wms-purchasing and wms-receiving).                  *)
(*                                                                         *)
(* A call first reads, checks what it read, and then writes in a transaction  *)
(* of its own; between the two any other call may run.  `call` holds what a   *)
(* call read and still relies on.  Writes are by id: only voidBatch looks     *)
(* again at what it changes.  Its transaction reads the lines after it has    *)
(* changed some of them, so it has a step more; until it commits it holds the *)
(* row locks of its units and of the lines it changed.                       *)
(***************************************************************************)
EXTENDS Naturals, FiniteSets, FiniteSetsExt

CONSTANTS
    Types,       \* the request types: a subset of RequestTypes
    Lines,       \* lines of the request
    Requested,   \* the quantity a line asks for
    MaxBatches,  \* bound on the receiving batches
    Callers,     \* concurrent users
    MaxEdits     \* bound on the calls of updateLine

RequestTypes == {"PROCUREMENT", "SELF_BUY"}
Batches == 1..MaxBatches

ASSUME RequestAssumption ==
    /\ Types \subseteq RequestTypes
    /\ IsFiniteSet(Lines)
    /\ Requested \in [Lines -> Nat]
    /\ MaxBatches \in Nat /\ MaxEdits \in Nat

Statuses == {"UNDER_REVIEW", "REVISION", "AWAITING_PRODUCTS", "SHIPPED",
             "RECEIVING_EXCEPTION", "PENDING_PAYMENT", "PAYMENT_REVIEW",
             "RECEIVING_READY", "RECEIVING", "STOCKED", "REJECTED", "CANCELED"}
BatchStatuses == {"unused", "STAGED", "PUTAWAY_PENDING", "COMPLETED", "CANCELED"}

VARIABLES
    type, status,   \* wms_purchasing_batches: requestType, status
    approved,       \* approvedQuantity of each line; Requested until one is set
    received,       \* receivedQuantity of each line
    bstatus,        \* status of each receiving batch
    units,          \* the units created for it, of each line
    away,           \* how many of them are not STAGED: put away, sold, archived
    call,           \* what each caller is doing
    edits,          \* calls of updateLine so far
    raced,          \* history: lines changed by a call that had read them stale
    corrected,      \* history: lines whose received quantity a user overwrote
    again           \* history: batches that were voided a second time

request == <<type, status, approved, received>>
stock == <<bstatus, units, away>>
history == <<raced, corrected, again>>
vars == <<request, stock, call, edits, history>>

NoUnits == [l \in Lines |-> 0]
Idle == [op |-> "idle"]
Total(q) == SumFunctionOnSet(q, Lines)

Init ==
    /\ type \in Types
    /\ status = "UNDER_REVIEW"
    /\ approved = Requested
    /\ received = NoUnits
    /\ bstatus = [b \in Batches |-> "unused"]
    /\ units = [b \in Batches |-> NoUnits]
    /\ away = [b \in Batches |-> 0]
    /\ call = [c \in Callers |-> Idle]
    /\ edits = 0 /\ raced = {} /\ corrected = {} /\ again = {}

-----------------------------------------------------------------------------
(* Row locks and calls *)

Voiding(b) == \E c \in Callers : call[c].op = "voiding" /\ call[c].batch = b

LineLocked(l) ==
    \E c \in Callers : call[c].op = "voiding" /\ call[c].units[l] > 0

Begin(c, what) ==
    /\ call[c] = Idle
    /\ call' = [call EXCEPT ![c] = what]
    /\ UNCHANGED <<request, stock, edits, history>>

End(c) == call' = [call EXCEPT ![c] = Idle]

\* The call is refused, or its transaction rolls back.
Refuse(c) == End(c) /\ UNCHANGED <<request, stock, edits, history>>

\* Of lines about to be written, those that changed since `seen` was read.
Changed(ls, seen) ==
    {l \in ls : seen.approved[l] # approved[l] \/ seen.received[l] # received[l]}

Lineup == [approved |-> approved, received |-> received]

-----------------------------------------------------------------------------
(* The request: wms-purchasing *)

Transitions ==
    IF type = "PROCUREMENT"
    THEN [s \in Statuses |->
           CASE s = "UNDER_REVIEW" -> {"PENDING_PAYMENT", "CANCELED"}
             [] s = "REVISION" -> {"PENDING_PAYMENT", "REJECTED", "CANCELED"}
             [] s = "PAYMENT_REVIEW" ->
                  {"PENDING_PAYMENT", "RECEIVING_READY", "REJECTED", "CANCELED"}
             [] s = "RECEIVING" -> {"STOCKED", "CANCELED"}
             [] OTHER -> {}]
    ELSE [s \in Statuses |->
           CASE s = "UNDER_REVIEW" -> {"AWAITING_PRODUCTS", "CANCELED"}
             [] s = "REVISION" -> {"AWAITING_PRODUCTS", "REJECTED", "CANCELED"}
             [] s = "SHIPPED" -> {"RECEIVING_EXCEPTION", "CANCELED"}
             [] s = "RECEIVING_EXCEPTION" -> {"AWAITING_PRODUCTS", "CANCELED"}
             [] s = "RECEIVING" -> {"STOCKED", "RECEIVING_EXCEPTION", "CANCELED"}
             [] OTHER -> {}]

\* A line's terms differ from those the request was made with.
Revised == approved # Requested

\* validateReadyForReceiving; invoice, payment and product profiles are in order.
NeedsReadiness(to) ==
    \/ type = "PROCUREMENT" /\ to = "RECEIVING_READY"
    \/ type = "SELF_BUY" /\ to = "AWAITING_PRODUCTS"

MayMove(to, partner) ==
    /\ to = status \/ to \in Transitions[status]
    /\ ~ (to = "PENDING_PAYMENT" /\ status = "UNDER_REVIEW" /\ Revised)
    /\ ~ (/\ to = "PENDING_PAYMENT" /\ status = "REVISION"
          /\ type = "PROCUREMENT" /\ ~ partner)
    /\ NeedsReadiness(to) => \A l \in Lines : approved[l] > 0

\* updateStatus; a call that only edits notes or payment details repeats the
\* status it read.
ReadStatus(c) ==
    \E to \in Statuses :
       /\ MayMove(to, FALSE)
       /\ Begin(c, [op |-> "status", to |-> to, seen |-> status])

\* respondToRevision reads the status and calls updateStatus, which reads it again.
Respond(c) ==
    /\ status = "REVISION"
    /\ \E accept \in BOOLEAN :
         Begin(c, [op |-> "respond", to |->
                     IF ~ accept THEN "REJECTED"
                     ELSE IF type = "SELF_BUY" THEN "AWAITING_PRODUCTS"
                     ELSE "PENDING_PAYMENT"])

ReadResponse(c) ==
    /\ call[c].op = "respond"
    /\ \/ /\ MayMove(call[c].to, TRUE)
          /\ call' = [call EXCEPT ![c] =
                        [op |-> "status", to |-> call[c].to, seen |-> status]]
          /\ UNCHANGED <<request, stock, edits, history>>
       \/ ~ MayMove(call[c].to, TRUE) /\ Refuse(c)

\* submitPartnerPaymentProof
ReadProof(c) ==
    /\ type = "PROCUREMENT" /\ status = "PENDING_PAYMENT"
    /\ Begin(c, [op |-> "status", to |-> "PAYMENT_REVIEW", seen |-> status])

\* markSelfBuyShipment
ReadShipment(c) ==
    /\ type = "SELF_BUY"
    /\ status \in {"AWAITING_PRODUCTS", "RECEIVING_EXCEPTION"}
    /\ Begin(c, [op |-> "status", to |-> "SHIPPED", seen |-> status])

WriteStatus(c) ==
    /\ call[c].op = "status"
    /\ status' = call[c].to
    /\ End(c)
    /\ UNCHANGED <<type, approved, received, stock, edits, history>>

\* updateLine: a user gives the approved or the received quantity; it may not
\* leave more received than approved.
ReadLine(c) ==
    /\ edits < MaxEdits /\ edits' = edits + 1
    /\ call[c] = Idle
    /\ \E l \in Lines, n \in 0..Max({Requested[k] : k \in Lines}) :
         \/ /\ n <= Requested[l] /\ received[l] <= n
            /\ call' = [call EXCEPT ![c] =
                 [op |-> "approve", line |-> l, to |-> n, seen |-> Lineup,
                  from |-> status]]
         \/ /\ n <= approved[l]
            /\ call' = [call EXCEPT ![c] =
                 [op |-> "correct", line |-> l, to |-> n, seen |-> Lineup]]
    /\ UNCHANGED <<request, stock, history>>

\* Other terms than before send a request under review back to the partner.
WriteApproved(c) ==
    LET k == call[c] IN
    /\ k.op = "approve" /\ ~ LineLocked(k.line)
    /\ approved' = [approved EXCEPT ![k.line] = k.to]
    /\ status' = IF k.from = "UNDER_REVIEW" /\ k.to # k.seen.approved[k.line]
                 THEN "REVISION" ELSE status
    /\ raced' = raced \cup Changed({k.line}, k.seen)
    /\ End(c)
    /\ UNCHANGED <<type, received, stock, edits, corrected, again>>

WriteReceived(c) ==
    LET k == call[c] IN
    /\ k.op = "correct" /\ ~ LineLocked(k.line)
    /\ received' = [received EXCEPT ![k.line] = k.to]
    /\ corrected' = corrected \cup {k.line}
    /\ raced' = raced \cup Changed({k.line}, k.seen)
    /\ End(c)
    /\ UNCHANGED <<type, status, approved, stock, edits, again>>

-----------------------------------------------------------------------------
(* Receiving batches: wms-receiving *)

ReceivableUnlessCanceled == status # "CANCELED"

Receivable ==
    IF type = "SELF_BUY" THEN status \in {"SHIPPED", "RECEIVING"}
                         ELSE status \in {"RECEIVING_READY", "RECEIVING"}

\* The statuses getOverview lists as receivable.
Listed == status \in {"RECEIVING_READY", "SHIPPED", "RECEIVING"}

Unused == {b \in Batches : bstatus[b] = "unused"}

\* A mutant compares with the expected quantity.
WithinExpected(l, n) == n <= approved[l]

WithinRemaining(l, n) == received[l] + n <= approved[l]

\* createBatch, for quantities within what is left of each line.
ReadReceipt(c) ==
    /\ Receivable
    /\ Cardinality({d \in Callers : call[d].op = "receive"}) < Cardinality(Unused)
    /\ \E q \in [Lines -> 0..Max({Requested[l] : l \in Lines})] :
         /\ q # NoUnits
         /\ \A l \in Lines : q[l] > 0 => WithinRemaining(l, q[l])
         /\ Begin(c, [op |-> "receive", units |-> q, seen |-> Lineup,
                      from |-> status])

\* A mutant forgets the lines of which nothing is received.
RemainingOfSelected(q, seen) ==
    \E l \in Lines : q[l] > 0 /\ seen.received[l] + q[l] < seen.approved[l]

HasRemaining(q, seen) ==
    \E l \in Lines : seen.received[l] + q[l] < seen.approved[l]

\* The units are STAGED; the lines' quantities are incremented, and the
\* request's status follows from the quantities the call had read.
WriteReceipt(c) ==
    LET k == call[c] IN
    /\ k.op = "receive"
    /\ \A l \in Lines : k.units[l] > 0 => ~ LineLocked(l)
    /\ \E b \in Unused :
         /\ \A a \in Unused : b <= a
         /\ bstatus' = [bstatus EXCEPT ![b] = "STAGED"]
         /\ units' = [units EXCEPT ![b] = k.units]
    /\ received' = [l \in Lines |-> received[l] + k.units[l]]
    /\ status' = IF HasRemaining(k.units, k.seen) THEN "RECEIVING" ELSE "STOCKED"
    /\ raced' = raced \cup Changed({l \in Lines : k.units[l] > 0}, k.seen)
    /\ End(c)
    /\ UNCHANGED <<type, approved, away, edits, corrected, again>>

\* voidBatch: only a batch all of whose units are staged.
ReadVoid(c) ==
    \E b \in Batches :
       /\ bstatus[b] = "STAGED" /\ away[b] = 0
       /\ Begin(c, [op |-> "void", batch |-> b, units |-> units[b]])

\* Mutants drop the comparison of counts and the guard of the decrement.
NotCounted(b) == TRUE
NotGuarded(q) == TRUE

AllStaged(b) == away[b] = 0
Decrementable(q) == \A l \in Lines : q[l] <= received[l]

\* Its transaction archives the units that are still STAGED and rolls back if
\* they are fewer, whatever the batch's status is by now; it decrements the lines, or rolls back, and adds them all up.
VoidUnits(c) ==
    LET k == call[c]
        rest == [l \in Lines |-> received[l] - k.units[l]]
        next == IF Total(rest) = 0 THEN "RECEIVING_READY"
                ELSE IF Total(rest) >= Total(approved) THEN "STOCKED"
                ELSE "RECEIVING"
    IN
    /\ k.op = "void" /\ ~ Voiding(k.batch)
    /\ \A l \in Lines : k.units[l] > 0 => ~ LineLocked(l)
    /\ \/ /\ AllStaged(k.batch) /\ Decrementable(k.units)
          /\ call' = [call EXCEPT ![c] =
                        [op |-> "voiding", batch |-> k.batch, units |-> k.units,
                         next |-> next, seen |-> Lineup]]
          /\ UNCHANGED <<request, stock, edits, history>>
       \/ /\ ~ (AllStaged(k.batch) /\ Decrementable(k.units))
          /\ Refuse(c)

\* A mutant leaves the batch as it was.
NotCanceled(b) == bstatus

Canceled(b) == [bstatus EXCEPT ![b] = "CANCELED"]

WriteVoid(c) ==
    LET k == call[c] IN
    /\ k.op = "voiding"
    /\ received' = [l \in Lines |-> received[l] - k.units[l]]
    /\ bstatus' = Canceled(k.batch)
    /\ away' = [away EXCEPT ![k.batch] = Total(units[k.batch])]
    /\ status' = k.next
    /\ again' = again \cup {b \in {k.batch} : bstatus[b] = "CANCELED"}
    /\ End(c)
    /\ UNCHANGED <<type, approved, units, edits, raced, corrected>>

\* assignPutaway, resetPutawayToStage and the later life of the batch's units,
\* with the status that follows for the batch.  Neither looks at the batch's
\* status or asks whether a unit was archived: a voided unit can be put away, and
\* from its bin be returned to staging.
Carry(b) ==
    /\ bstatus[b] # "unused" /\ ~ Voiding(b)
    /\ \E n \in 0..Total(units[b]) :
         /\ n # away[b]
         /\ away' = [away EXCEPT ![b] = n]
         /\ bstatus' = [bstatus EXCEPT ![b] =
              IF @ = "CANCELED" THEN @
              ELSE IF n = Total(units[b]) THEN "COMPLETED"
              ELSE IF n = 0 THEN "STAGED" ELSE "PUTAWAY_PENDING"]
    /\ UNCHANGED <<request, units, call, edits, history>>

Next ==
    \/ \E c \in Callers :
         \/ ReadStatus(c) \/ Respond(c) \/ ReadResponse(c)
         \/ ReadProof(c) \/ ReadShipment(c) \/ WriteStatus(c)
         \/ ReadLine(c) \/ WriteApproved(c) \/ WriteReceived(c)
         \/ ReadReceipt(c) \/ WriteReceipt(c)
         \/ ReadVoid(c) \/ VoidUnits(c) \/ WriteVoid(c)
    \/ \E b \in Batches : Carry(b)

Spec == Init /\ [][Next]_vars
-----------------------------------------------------------------------------
(* Properties *)

Open(b) == bstatus[b] \notin {"unused", "CANCELED"}

Quantities == [Lines -> Nat]
SeenLines == [approved : Quantities, received : Quantities]
Calls ==
    {Idle}
    \cup [op : {"status"}, to : Statuses, seen : Statuses]
    \cup [op : {"respond"}, to : Statuses]
    \cup [op : {"approve"}, line : Lines, to : Nat, seen : SeenLines, from : Statuses]
    \cup [op : {"correct"}, line : Lines, to : Nat, seen : SeenLines]
    \cup [op : {"receive"}, units : Quantities \ {NoUnits}, seen : SeenLines,
          from : Statuses]
    \cup [op : {"void"}, batch : Batches, units : Quantities]
    \cup [op : {"voiding"}, batch : Batches, units : Quantities,
          next : Statuses, seen : SeenLines]

\* Every column holds a value of its type: received quantities never go below
\* zero, and no line is approved for more than it asked.
TypeOK ==
    /\ type \in Types /\ status \in Statuses
    /\ approved \in Quantities /\ received \in Quantities
    /\ \A l \in Lines : approved[l] <= Requested[l]
    /\ bstatus \in [Batches -> BatchStatuses]
    /\ units \in [Batches -> Quantities]
    /\ away \in [Batches -> Nat]
    /\ call \in [Callers -> Calls]
    /\ edits \in 0..MaxEdits
    /\ raced \subseteq Lines /\ corrected \subseteq Lines /\ again \subseteq Batches

\* The received quantity of a line is the number of units created for it by the
\* receiving batches that were not voided (createBatch, voidBatch), however
\* receipts and voids overlap, unless a user overwrote it (updateLine) or a batch of
\* such units was voided twice, which the second void's transaction does not see.
LedgerIsStock ==
    \A l \in Lines \ corrected :
       (\A b \in again : units[b][l] = 0) =>
         received[l] = SumFunctionOnSet([b \in Batches |-> units[b][l]],
                                        {b \in Batches : Open(b)})

\* A void that has passed the checks of its transaction has the whole batch in
\* staging until it commits, and its lines to itself: a put-away or a void that
\* committed after voidBatch's reading makes it roll back, and a second void of a
\* batch gets here only if every unit that the first one archived was put away and
\* returned to staging since.
VoidedWhileStaged ==
    \A c \in Callers : call[c].op = "voiding" =>
       /\ bstatus[call[c].batch] # "unused" /\ away[call[c].batch] = 0
       /\ call[c].units = units[call[c].batch]
       /\ \A l \in Lines : call[c].units[l] <= received[l]
       /\ \A d \in Callers \ {c} : call[d].op = "voiding" =>
            /\ call[d].batch # call[c].batch
            /\ \A l \in Lines : call[c].units[l] = 0 \/ call[d].units[l] = 0

\* More is received than was approved only of a line that some call wrote after
\* it had changed since the call read it: createBatch and updateLine check
\* quantities they do not lock.
OverReceiptIsRaced ==
    \A l \in Lines : received[l] > approved[l] => l \in raced

\* A receipt or a void makes the request STOCKED only when every line has been
\* received, unless the quantities it added up are not those of its commit, or
\* one line's surplus hides another's shortage.
StockedByReceipt ==
    [][ status # "STOCKED" /\ status' = "STOCKED" =>
          \/ \A l \in Lines : received'[l] >= approved'[l]
          \/ \E l \in Lines : received'[l] > approved'[l]
          \/ \E c \in Callers :
               /\ call[c] # Idle /\ call'[c] = Idle
               /\ (call[c].op = "status" \/ call[c].seen # Lineup) ]_vars

\* The status a call had read, which the one it writes follows from.
StatusRead(k) == IF k.op = "status" THEN k.seen
                 ELSE IF k.op \in {"receive", "approve"} THEN k.from ELSE status

\* A closed request is opened again only by the void of one of its receiving
\* batches (voidBatch does not look at the request's status) or by a call that
\* had read it before it was closed.
ClosedReopenedLate ==
    [][ (status \in {"STOCKED", "REJECTED", "CANCELED"} /\ status' # status) =>
          \E c \in Callers :
             /\ call[c] # Idle /\ call'[c] = Idle
             /\ (call[c].op = "voiding" \/ StatusRead(call[c]) # status) ]_vars

\* The lines' received quantities are a ledger of the receiving batches: each is
\* credited once, and debited all of it and only while all of it is staged
\* (StockLedger), so at most once unless its units come back.
Ledger == INSTANCE StockLedger WITH
    batch <- [b \in Batches |-> IF bstatus[b] = "unused" THEN "unused"
                                ELSE IF bstatus[b] = "CANCELED" THEN "void"
                                ELSE "open"]
LedgerSpec == Ledger!Spec

\* What the receiving screen lists as receivable can be received
\* (getOverview's list, createBatch's check).
ListedCanBeReceived == Listed => Receivable
=============================================================================
