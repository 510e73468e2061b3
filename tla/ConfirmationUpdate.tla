--------------------------- MODULE ConfirmationUpdate ---------------------------
(***************************************************************************)
(* One row of pos_orders while users and the WMS ask for updates of it       *)
(* (apps/api/src/modules/orders): the in-flight lease kept in                *)
(* confirmationUpdateRequestedAt / confirmationUpdateTargetStatus, the Bull   *)
(* job that sends the update to Pancake, and Pancake's webhook, which         *)
(* overwrites the row and releases the lease, unless it is lost on the way or *)
(* deletes the row.                                                          *)
(*                                                                         *)
(* Every action is one statement, one queue call or one call of Pancake;      *)
(* between two of them any other call may run.  What a call has read and      *)
(* still relies on is its place (`pc`): it has passed the checks before it.   *)
(***************************************************************************)
EXTENDS Naturals, FiniteSets

CONSTANTS
    Requests,     \* calls of the update endpoints; each is made once
    TargetOf,     \* the status a call asks for; NoStatus: tags, items, notes only
    System,       \* calls of enqueueSystemPosOrderStatusUpdate (by the WMS)
    Edits,        \* statuses the order may get in Pancake itself
    MaxEdits,     \* bound on those edits
    Faults,       \* what may fail: a subset of FaultKinds
    MaxFaults,    \* bound on the faults other than those of Pancake
    Attempts,     \* attempts of a job
    MaxStalled    \* Bull's maxStalledCount

FaultKinds == {"redis", "database", "upstream", "rejected", "config", "timeout",
               "workerCrash", "apiCrash", "delivery", "invalidTag"}
NewOrder == 0
CONFIRMED == 1
CANCELED == 6
WAITING_FOR_PRINTING == 12
Absent == 98      \* no row
NoStatus == 99
NoLease == "none"
NoJob == [by |-> NoLease, state |-> "none", made |-> 0, stalls |-> 0]

ASSUME RequestAssumption ==
    /\ Attempts \in Nat \ {0} /\ MaxStalled \in Nat
    /\ MaxFaults \in Nat /\ MaxEdits \in Nat
    /\ Faults \subseteq FaultKinds /\ System \subseteq Requests
    /\ Edits \subseteq Nat \ {Absent}
    /\ TargetOf \in [Requests -> Nat \ {Absent}]
    /\ \A r \in System : TargetOf[r] # NoStatus
    /\ NoLease \notin Requests

VARIABLES
    status,    \* pos_orders.status, or Absent
    lease,     \* the call whose lease the row holds, or NoLease
    fresh,     \* the lease's timestamp is not older than the cutoff
    gone,      \* the calls that know the id of a row which was deleted
    pc,        \* where each call is
    job,       \* the Bull job under the order's jobId
    runs,      \* executions of the job's handler and of its failure listener
    remote,    \* the order's status in Pancake
    hooks,     \* statuses in webhook deliveries not yet applied
    faults, edits,
    orphan,    \* history: whoever had to clear the present lease is gone
    ended      \* history: calls whose lease was cleared, or expired

row == <<status, lease, fresh, gone>>
history == <<orphan, ended>>
vars == <<row, pc, job, runs, remote, hooks, faults, edits, history>>

-----------------------------------------------------------------------------
(* Types.                                                                   *)

JobRecord == [by : Requests \cup {NoLease}, state : {"none", "waiting", "active", "failed"},
              made : 0 .. Attempts, stalls : 0 .. MaxStalled + 1]
Run == [by : Requests, made : 0 .. Attempts,
        pc : {"read", "put", "clear", "settle", "onFailed"}]

TypeOK ==
    /\ status \in Nat /\ remote \in Nat /\ hooks \in SUBSET Nat
    /\ lease \in Requests \cup {NoLease} /\ fresh \in BOOLEAN /\ gone \in SUBSET Requests
    /\ pc \in [Requests -> {"new", "lock", "reread", "add", "unlock", "skip", "done"}]
    /\ job \in JobRecord
    /\ runs \in SUBSET Run
    /\ faults \in Nat /\ edits \in Nat
    /\ orphan \in BOOLEAN /\ ended \in SUBSET Requests

\* A fault the environment allows; Pancake's are bounded by the attempts.
Fault(f) ==
    /\ f \in Faults
    /\ IF f \in {"upstream", "rejected"}
       THEN UNCHANGED faults
       ELSE faults < MaxFaults /\ faults' = faults + 1

HasStatus(r) == TargetOf[r] # NoStatus
Allowed(r) == IF r \in System THEN {CONFIRMED} ELSE {NewOrder}

Init ==
    /\ status \in {NewOrder, CONFIRMED} /\ remote = status
    /\ lease = NoLease /\ fresh = FALSE /\ gone = {}
    /\ pc = [r \in Requests |-> "new"]
    /\ job = NoJob /\ runs = {} /\ hooks = {}
    /\ faults = 0 /\ edits = 0
    /\ orphan = FALSE /\ ended = {}

-----------------------------------------------------------------------------
(* The lease.                                                               *)

\* clearConfirmationUpdateInFlight: by row id, whoever holds the lease.
Clear ==
    /\ lease' = NoLease /\ fresh' = FALSE /\ orphan' = FALSE
    /\ ended' = ended \cup ({lease} \ {NoLease})

\* ... .catch(() => undefined): call r goes on when the statement fails, or when
\* the row it knows has been deleted.
ClearOrNot(r) ==
    \/ r \notin gone /\ Clear /\ UNCHANGED <<status, gone, faults>>
    \/ r \in gone /\ UNCHANGED <<row, faults, history>>
    \/ /\ r \notin gone /\ Fault("database")
       /\ orphan' = (lease # NoLease)
       /\ UNCHANGED <<row, ended>>

\* The lease is older than CONFIRMATION_UPDATE_PROCESSING_TTL_SECONDS.
Expire ==
    /\ lease # NoLease /\ fresh
    /\ fresh' = FALSE
    /\ ended' = ended \cup {lease}
    /\ UNCHANGED <<status, lease, gone, pc, job, runs, remote, hooks, faults, edits, orphan>>

-----------------------------------------------------------------------------
(* updateConfirmationOrderStatus and enqueueSystemPosOrderStatusUpdate.      *)

Goto(r, l) == pc' = [pc EXCEPT ![r] = l]

\* The first read of the row and the refusals that rest on it.  A call that
\* asks for no status takes no lease and goes straight to the queue.
Ask(r) ==
    /\ pc[r] = "new"
    /\ CASE r \in System /\ status = TargetOf[r] -> Goto(r, "skip")
         [] status \notin Allowed(r) -> Goto(r, "done")
         [] ~HasStatus(r) -> Goto(r, IF lease # NoLease /\ fresh THEN "done" ELSE "add")
         [] OTHER -> Goto(r, "lock")
    /\ UNCHANGED <<row, job, runs, remote, hooks, faults, edits, history>>

\* Mutant: the update is not guarded by the lease it may replace.
LockOverLease(r) ==
    /\ pc[r] = "lock"
    /\ lease' = r /\ fresh' = TRUE /\ orphan' = FALSE
    /\ Goto(r, "add")
    /\ UNCHANGED <<status, gone, job, runs, remote, hooks, faults, edits, ended>>

\* The guarded updateMany.
Lock(r) ==
    /\ pc[r] = "lock"
    /\ IF r \notin gone /\ status \in Allowed(r) /\ (lease = NoLease \/ ~fresh)
       THEN /\ lease' = r /\ fresh' = TRUE /\ orphan' = FALSE
            /\ Goto(r, "add")
       ELSE /\ UNCHANGED <<lease, fresh, orphan>>
            /\ Goto(r, "reread")
    /\ UNCHANGED <<status, gone, job, runs, remote, hooks, faults, edits, ended>>

\* The second read only words the refusal; a WMS call that finds its target
\* reached also clears the lease.
Reread(r) ==
    /\ pc[r] = "reread"
    /\ Goto(r, IF r \in System \ gone /\ status = TargetOf[r] THEN "skip" ELSE "done")
    /\ UNCHANGED <<row, job, runs, remote, hooks, faults, edits, history>>

Skip(r) ==
    /\ pc[r] = "skip"
    /\ ClearOrNot(r)
    /\ Goto(r, "done")
    /\ UNCHANGED <<job, runs, remote, hooks, edits>>

\* enqueueConfirmationStatusUpdate: Bull returns the job it already has under
\* the jobId, whatever its state, and stores nothing.
Add(r) ==
    /\ pc[r] = "add"
    /\ \/ /\ job = NoJob
          /\ job' = [by |-> r, state |-> "waiting", made |-> 0, stalls |-> 0]
          /\ Goto(r, "done")
          /\ UNCHANGED <<faults, orphan>>
       \/ /\ job # NoJob
          /\ Goto(r, "done")
          /\ orphan' = (orphan \/ lease = r)
          /\ UNCHANGED <<job, faults>>
       \/ /\ Fault("redis")
          /\ Goto(r, IF HasStatus(r) THEN "unlock" ELSE "done")
          /\ UNCHANGED <<job, orphan>>
    /\ UNCHANGED <<row, runs, remote, hooks, edits, ended>>

\* Mutant: the lease stays when the queue refuses the job.
UnlockForgets(r) ==
    /\ pc[r] = "unlock"
    /\ Goto(r, "done")
    /\ UNCHANGED <<row, job, runs, remote, hooks, faults, edits, history>>

\* The queue refused the job: the lease is released and the caller sees an error.
Unlock(r) ==
    /\ pc[r] = "unlock"
    /\ ClearOrNot(r)
    /\ Goto(r, "done")
    /\ UNCHANGED <<job, runs, remote, hooks, edits>>

\* The API process stops with calls in progress.
ApiCrash ==
    /\ \E r \in Requests : pc[r] \notin {"new", "done"}
    /\ Fault("apiCrash")
    /\ pc' = [r \in Requests |-> IF pc[r] = "new" THEN "new" ELSE "done"]
    /\ orphan' = (orphan \/ \E r \in Requests : pc[r] \in {"add", "unlock"} /\ lease = r)
    /\ UNCHANGED <<row, job, runs, remote, hooks, edits, ended>>

-----------------------------------------------------------------------------
(* Bull and OrdersQueueProcessor.                                            *)

\* The execution that Bull still listens to; the others timed out.
IsLive(x) == /\ job.state = "active" /\ x.by = job.by /\ x.made = job.made
             /\ x.pc # "onFailed"

Take ==
    /\ job.state = "waiting"
    /\ job' = [job EXCEPT !.state = "active"]
    /\ runs' = runs \cup {[by |-> job.by, made |-> job.made, pc |-> "read"]}
    /\ UNCHANGED <<row, pc, remote, hooks, faults, edits, history>>

\* The handler returned: removeOnComplete forgets the job and its jobId.
Return(x) ==
    /\ runs' = runs \ {x}
    /\ job' = IF IsLive(x) THEN NoJob ELSE job

\* Mutant: one attempt more than the job's options say.
FailAttemptLate(kept) ==
    LET made == job.made + 1 IN
    IF made > Attempts
    THEN /\ job' = [job EXCEPT !.state = "failed", !.made = made]
         /\ runs' = kept \cup {[by |-> job.by, made |-> made, pc |-> "onFailed"]}
    ELSE /\ job' = [job EXCEPT !.state = "waiting", !.made = made]
         /\ runs' = kept

\* The attempt failed.  After the last one the job is kept under its jobId
\* (removeOnFail: 1000) and onFailed clears the lease; before it, Bull retries.
FailAttempt(kept) ==
    LET made == job.made + 1 IN
    IF made >= Attempts
    THEN /\ job' = [job EXCEPT !.state = "failed", !.made = made]
         /\ runs' = kept \cup {[by |-> job.by, made |-> made, pc |-> "onFailed"]}
    ELSE /\ job' = [job EXCEPT !.state = "waiting", !.made = made]
         /\ runs' = kept

Throw(x) == IF IsLive(x) THEN FailAttempt(runs \ {x})
            ELSE runs' = runs \ {x} /\ UNCHANGED job

Move(x, l) == runs' = (runs \ {x}) \cup {[x EXCEPT !.pc = l]} /\ UNCHANGED job

\* processQueuedConfirmationOrderStatusUpdate: the row is read again and a job
\* that has become pointless, or cannot be sent, only clears the lease.  A job
\* of a deleted row returns at once.
Read(x) ==
    LET pointless == (HasStatus(x.by) /\ status = TargetOf[x.by]) \/ status \notin Allowed(x.by)
    IN
    /\ x.pc = "read"
    /\ \/ x.by \in gone /\ Return(x) /\ UNCHANGED faults
       \/ x.by \notin gone /\ pointless /\ Move(x, "clear") /\ UNCHANGED faults
       \/ x.by \notin gone /\ ~pointless /\ Move(x, "put") /\ UNCHANGED faults
       \/ x.by \notin gone /\ Fault("config") /\ Move(x, "clear")   \* no store, no API key
       \/ Fault("database") /\ Throw(x)
    /\ UNCHANGED <<row, pc, remote, hooks, edits, history>>

\* The order as Pancake has it after the PUT goes out in a webhook.
PancakeUpdates(s) == remote' = s /\ hooks' = hooks \cup {s}

\* The PUT: done; refused (4xx); or failed (network, 429, 5xx), in which case
\* Pancake may or may not have carried it out.
Put(x) ==
    LET sent == IF HasStatus(x.by) THEN TargetOf[x.by] ELSE remote IN
    /\ x.pc = "put"
    /\ \/ /\ PancakeUpdates(sent)
          /\ Move(x, IF HasStatus(x.by) THEN "settle" ELSE "clear")
          /\ UNCHANGED faults
       \/ Fault("rejected") /\ Move(x, "clear") /\ UNCHANGED <<remote, hooks>>
       \/ Fault("upstream") /\ Throw(x) /\ UNCHANGED <<remote, hooks>>
       \/ Fault("upstream") /\ Throw(x) /\ PancakeUpdates(sent)
    /\ UNCHANGED <<row, pc, edits, history>>

\* The handler's return; a status update leaves the lease to the webhook.
Settle(x) ==
    /\ x.pc = "settle"
    /\ Return(x)
    /\ UNCHANGED <<row, pc, remote, hooks, faults, edits, history>>

ClearAndReturn(x) ==
    /\ x.pc = "clear"
    /\ ClearOrNot(x.by)
    /\ Return(x)
    /\ UNCHANGED <<pc, remote, hooks, edits>>

\* Mutant: the listener only logs.
OnFailedLogs(x) ==
    /\ x.pc = "onFailed"
    /\ runs' = runs \ {x}
    /\ UNCHANGED <<row, pc, job, remote, hooks, faults, edits, history>>

\* onFailed after the last attempt.
OnFailed(x) ==
    /\ x.pc = "onFailed"
    /\ ClearOrNot(x.by)
    /\ runs' = runs \ {x}
    /\ UNCHANGED <<pc, job, remote, hooks, edits>>

\* Bull's timeout: the attempt fails while its handler goes on.
Timeout(x) ==
    /\ IsLive(x)
    /\ Fault("timeout")
    /\ FailAttempt(runs)
    /\ UNCHANGED <<row, pc, remote, hooks, edits, history>>

\* The worker process stops.
WorkerCrash ==
    /\ runs # {}
    /\ Fault("workerCrash")
    /\ runs' = {}
    /\ orphan' = (orphan \/ \E x \in runs : x.pc = "onFailed" /\ lease # NoLease)
    /\ UNCHANGED <<row, pc, job, remote, hooks, edits, ended>>

\* Bull finds the job of a stopped worker: it runs again, or it fails with no
\* attempt counted, which onFailed does not take for terminal.
Stalled ==
    /\ job.state = "active" /\ ~\E x \in runs : IsLive(x)
    /\ IF job.stalls < MaxStalled
       THEN /\ job' = [job EXCEPT !.state = "waiting", !.stalls = @ + 1]
            /\ UNCHANGED orphan
       ELSE /\ job' = [job EXCEPT !.state = "failed", !.stalls = @ + 1]
            /\ orphan' = (orphan \/ lease = job.by)
    /\ UNCHANGED <<row, pc, runs, remote, hooks, faults, edits, ended>>

-----------------------------------------------------------------------------
(* Pancake.                                                                  *)

\* upsertPosOrders: the row takes the status of the delivery and the lease goes,
\* whatever order the deliveries come in.  A row that is absent is created.
ApplyWebhook(s) ==
    /\ status' = s /\ Clear
    /\ UNCHANGED <<gone, faults>>

\* The order is canceled and has an invalid tag: its row is deleted.
DeleteRow(s) ==
    /\ s = CANCELED /\ Fault("invalidTag")
    /\ status' = Absent /\ Clear
    /\ gone' = gone \cup {r \in Requests : pc[r] # "new"}

\* The delivery was accepted (200), but its processing fails for good, or skips
\* the order: a missing tenant, an excluded source, an upsert error that is not
\* transient and only becomes a warning, an ingest job out of attempts.
LoseWebhook(s) ==
    /\ Fault("delivery")
    /\ orphan' = (orphan \/ (lease # NoLease /\ hooks = {s}))
    /\ UNCHANGED <<row, ended>>

Webhook(s) ==
    /\ s \in hooks
    /\ hooks' = hooks \ {s}
    /\ ApplyWebhook(s) \/ DeleteRow(s) \/ LoseWebhook(s)
    /\ UNCHANGED <<pc, job, runs, remote, edits>>

\* Somebody changes the order in Pancake.
Edit(s) ==
    /\ edits < MaxEdits
    /\ edits' = edits + 1
    /\ PancakeUpdates(s)
    /\ UNCHANGED <<row, pc, job, runs, faults, history>>

-----------------------------------------------------------------------------
Call(r) == Ask(r) \/ Lock(r) \/ Reread(r) \/ Skip(r) \/ Add(r) \/ Unlock(r)
Step(x) == Read(x) \/ Put(x) \/ Settle(x) \/ ClearAndReturn(x) \/ OnFailed(x)

Next ==
    \/ \E r \in Requests : Call(r)
    \/ ApiCrash
    \/ Take \/ Stalled \/ WorkerCrash
    \/ \E x \in runs : Step(x) \/ Timeout(x)
    \/ \E s \in hooks : Webhook(s)
    \/ \E s \in Edits : Edit(s)
    \/ Expire

Spec == Init /\ [][Next]_vars

\* A call and a handler that run go on; Bull hands out and recovers jobs; Pancake
\* repeats a webhook until it is accepted, and then it is applied or lost.  Nothing
\* forces a fault, an edit, an expiry or a call.
Fairness ==
    /\ \A r \in Requests : WF_vars(pc[r] # "new" /\ Call(r))
    /\ WF_vars(Take) /\ WF_vars(Stalled)
    /\ WF_vars(\E x \in runs : Step(x))
    /\ WF_vars(\E s \in hooks : Webhook(s))

FairSpec == Spec /\ Fairness

-----------------------------------------------------------------------------
(* Properties.                                                               *)

\* A call of this order between its lock and its end, a job of it that Bull will
\* still run, an execution of it, or a webhook on its way.
Working(r) ==
    \/ pc[r] \in {"add", "unlock"}
    \/ job.by = r /\ job.state # "failed"
    \/ \E x \in runs : x.by = r
    \/ hooks # {}

\* A row is never left locked by accident: while a lease is fresh, either its
\* call, its job, one of the job's executions or a webhook is still there to
\* release it, or it is one of the leases known to be left to the timeout: the
\* API process stopped between lock and enqueue, the enqueue was a no-op, the job
\* stalled out, a clear failed, or the last webhook on its way was lost.
LeaseHasReleaser ==
    lease # NoLease /\ fresh => Working(lease) \/ orphan

\* A status update that was answered "queued" is dropped at the queue only because
\* the order's job id is taken by a failed job or by an update of other fields, or
\* because one of the two calls had lost its lease.  Two calls that both keep
\* their lease never meet there.
LostOnlyWithoutLease ==
    [][\A r \in Requests :
          /\ pc[r] = "add" /\ pc'[r] = "done" /\ HasStatus(r)
          /\ job # NoJob /\ job.state # "failed" /\ HasStatus(job.by)
          /\ UNCHANGED faults
          => {job.by, r} \cap ended # {}]_vars

\* Every fresh lease that is not left to the timeout is released by the code
\* itself: by a webhook that is applied, by the job's outcome or its last failure.
LeaseIsReleased == (fresh /\ ~orphan) ~> (~fresh \/ orphan)
=============================================================================
