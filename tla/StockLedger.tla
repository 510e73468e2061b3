------------------------------ MODULE StockLedger ------------------------------
(***************************************************************************)
(* What receiving promises about a stock request's lines                     *)
(* (apps/api/src/modules/wms-receiving): a receiving batch adds its units to  *)
(* the received quantity once, and a void takes the same units back, and out  *)
(* of the staging area, only while all of them are there: before it can do so *)
(* again somebody has to put them back.  StockRequest, where these are the    *)
(* last statements of calls that overlap, implements it.                     *)
(***************************************************************************)
EXTENDS Naturals

CONSTANTS Lines, Batches

VARIABLES
    batch,     \* of a receiving batch: "unused", "open" or "void"
    units,     \* the units created for it, of each line
    away,      \* how many of its units are not in the staging area
    received   \* received quantity of each line of the request

ledger == <<batch, units, away, received>>

NoUnits == [l \in Lines |-> 0]

Init ==
    /\ batch = [b \in Batches |-> "unused"]
    /\ units = [b \in Batches |-> NoUnits]
    /\ away = [b \in Batches |-> 0]
    /\ received = NoUnits

\* Receiving a batch credits each line with the units created for it.
Credit(b) ==
    /\ batch[b] = "unused"
    /\ batch' = [batch EXCEPT ![b] = "open"]
    /\ units'[b] \in [Lines -> Nat] \ {NoUnits}
    /\ units' = [units EXCEPT ![b] = units'[b]]
    /\ received' = [l \in Lines |-> received[l] + units'[b][l]]
    /\ UNCHANGED away

\* Voiding it takes them back, off the lines and out of staging.
Debit(b) ==
    /\ batch[b] # "unused"
    /\ away[b] = 0
    /\ \A l \in Lines : units[b][l] <= received[l]
    /\ batch' = [batch EXCEPT ![b] = "void"]
    /\ received' = [l \in Lines |-> received[l] - units[b][l]]
    /\ away'[b] \in Nat \ {0}
    /\ away' = [away EXCEPT ![b] = away'[b]]
    /\ UNCHANGED units

\* Units are put away and returned to staging, those of a void batch too.
Carry(b) ==
    /\ batch[b] # "unused"
    /\ away'[b] \in Nat
    /\ away' = [away EXCEPT ![b] = away'[b]]
    /\ UNCHANGED <<batch, units, received>>

\* A user overwrites the received quantity of a line.
Correct(l) ==
    /\ received'[l] \in Nat
    /\ received' = [received EXCEPT ![l] = received'[l]]
    /\ UNCHANGED <<batch, units, away>>

Next ==
    \/ \E b \in Batches : Credit(b) \/ Debit(b) \/ Carry(b)
    \/ \E l \in Lines : Correct(l)

Spec == Init /\ [][Next]_ledger
=============================================================================
