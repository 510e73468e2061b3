----------------------- MODULE ConfirmationUpdateProofs -----------------------
(***************************************************************************)
(* The lease of ConfirmationUpdate, for any calls, targets, faults and number *)
(* of attempts: who is left to release it, and what the queue may swallow.    *)
(***************************************************************************)
EXTENDS ConfirmationUpdate, TLAPS

\* The job that Bull keeps comes from a call that has ended, and has attempts left
\* until it fails.
JobOK ==
    /\ job.state = "none" => job = NoJob
    /\ job.state # "none" => job.by \in Requests /\ pc[job.by] = "done"
    /\ job.state \in {"waiting", "active"} => job.made < Attempts /\ job.stalls <= MaxStalled

\* So do its executions; one that sent a status to Pancake left a webhook behind.
RunsOK ==
    \A x \in runs :
        /\ pc[x.by] = "done"
        /\ x.pc = "settle" /\ lease = x.by /\ fresh /\ ~orphan => hooks # {}

\* A lease is held by a call that asks for a status and knows the row, and it is
\* held until it is cleared or expires.
LeaseOK ==
    /\ lease \notin gone
    /\ lease # NoLease => HasStatus(lease)
    /\ \A r \in Requests : pc[r] = "lock" => HasStatus(r)
    /\ lease # NoLease /\ ~fresh => lease \in ended
    /\ \A r \in Requests :
          pc[r] \in {"add", "unlock"} /\ HasStatus(r) /\ r \notin ended => lease = r
    /\ job.state # "none" /\ HasStatus(job.by) /\ job.by \notin ended => lease = job.by

\* Who will release it; of the executions, only the failure listener counts.
Releaser ==
    lease # NoLease /\ fresh /\ ~orphan =>
        \/ pc[lease] \in {"add", "unlock"}
        \/ job.by = lease /\ job.state # "failed"
        \/ hooks # {}
        \/ \E x \in runs : x.by = lease /\ x.pc = "onFailed"

Inv == TypeOK /\ JobOK /\ RunsOK /\ LeaseOK /\ Releaser

-----------------------------------------------------------------------------
(* What the helpers do.                                                    *)

LEMMA FaultCounts == ASSUME NEW f, faults \in Nat, Fault(f) PROVE faults' \in Nat
BY DEF Fault

LEMMA NoJobType == NoJob \in JobRecord /\ NoJob.state = "none" /\ NoJob.by = NoLease
BY RequestAssumption DEF NoJob, JobRecord

Cleared ==
    /\ gone' \in SUBSET Requests
    /\ lease' = NoLease /\ fresh' = FALSE /\ orphan' = FALSE
    /\ ended' = ended \cup ({lease} \ {NoLease})

Kept ==
    /\ lease' = lease /\ fresh' = fresh /\ gone' = gone /\ ended' = ended
    /\ orphan' = (lease # NoLease)

\* A clear takes the lease away, or leaves it to the timeout.
LEMMA ClearEffect ==
    ASSUME TypeOK, NEW r \in Requests, r \notin gone, ClearOrNot(r)
    PROVE  status' = status /\ faults' \in Nat /\ (Cleared \/ Kept)
<1>1. CASE Clear /\ UNCHANGED <<status, gone, faults>>
  BY <1>1 DEF Clear, Cleared, TypeOK
<1>2. CASE /\ Fault("database")
           /\ orphan' = (lease # NoLease)
           /\ UNCHANGED <<row, ended>>
  BY <1>2, FaultCounts DEF Kept, TypeOK, row
<1> QED BY <1>1, <1>2 DEF ClearOrNot

\* A call whose row was deleted ends, or a job of it does: it holds no lease.
LEMMA GoneInv ==
    ASSUME Inv, NEW g \in gone,
           UNCHANGED <<row, remote, hooks, faults, edits, history>>,
           pc' = pc \/ pc' = [pc EXCEPT ![g] = "done"],
           runs' \subseteq runs, \A x \in runs : x.by # g => x \in runs',
           job' = job \/ (job' = NoJob /\ job.by = g)
    PROVE  Inv'
<1> USE NoJobType DEF Inv, row, history
<1>1. g \in Requests /\ lease # g
  BY DEF TypeOK, LeaseOK
<1>2. TypeOK'
  BY <1>1 DEF TypeOK
<1>3. JobOK'
  BY <1>1 DEF TypeOK, JobOK
<1>4. RunsOK'
  BY <1>1 DEF TypeOK, RunsOK, Run
<1>5. LeaseOK'
  BY <1>1 DEF TypeOK, LeaseOK, HasStatus
<1>6. Releaser'
  <2> SUFFICES ASSUME lease # NoLease, fresh, ~orphan
               PROVE  Releaser'
    BY DEF Releaser
  <2>1. pc[lease] \in {"add", "unlock"} => pc'[lease] \in {"add", "unlock"}
    BY <1>1 DEF TypeOK
  <2>2. job.by = lease => job' = job
    BY <1>1
  <2>3. \A x \in runs : x.by = lease => x \in runs'
    BY <1>1
  <2> QED BY <2>1, <2>2, <2>3 DEF Releaser
<1> QED BY <1>2, <1>3, <1>4, <1>5, <1>6

LEMMA ClearKeepsRuns ==
    ASSUME Inv, Cleared \/ Kept, runs' \subseteq runs, hooks' = hooks,
           \A r \in Requests : pc'[r] = pc[r] \/ pc'[r] = "done"
    PROVE  RunsOK'
<1> SUFFICES ASSUME NEW x \in runs
             PROVE  /\ pc'[x.by] = "done"
                    /\ x.pc = "settle" /\ lease' = x.by /\ fresh' /\ ~orphan' => hooks # {}
  BY DEF RunsOK
<1>1. x.by \in Requests /\ pc[x.by] = "done"
  BY DEF Inv, TypeOK, RunsOK, Run
<1>2. CASE Cleared
  BY <1>1, <1>2, RequestAssumption DEF Cleared
<1>3. CASE Kept
  BY <1>1, <1>3, RequestAssumption DEF Kept
<1> QED BY <1>2, <1>3

\* Whatever else a step does, once the lease is cleared or known to be left to the
\* timeout, only the history of leases and the state of calls matters.
LEMMA ClearKeepsLease ==
    ASSUME Inv, Cleared \/ Kept,
           \A r \in Requests : pc'[r] = pc[r] \/ pc'[r] = "done",
           job' = job \/ job' = NoJob
    PROVE  LeaseOK' /\ Releaser'
<1>1. LeaseOK'
  <2>1. CASE Cleared
    BY <2>1, NoJobType, RequestAssumption DEF Inv, TypeOK, LeaseOK, JobOK, Cleared, HasStatus
  <2>2. CASE Kept
    BY <2>2, NoJobType DEF Inv, TypeOK, LeaseOK, Kept, HasStatus
  <2> QED BY <2>1, <2>2
<1>2. Releaser'
  BY DEF Releaser, Cleared, Kept
<1> QED BY <1>1, <1>2

-----------------------------------------------------------------------------
(* Calls.                                                                  *)

LEMMA AskInv == ASSUME Inv, NEW r \in Requests, Ask(r) PROVE Inv'
<1>1. PICK l \in {"skip", "done", "add", "lock"} :
        /\ pc' = [pc EXCEPT ![r] = l]
        /\ l \in {"lock", "add"} => (HasStatus(r) <=> l = "lock")
  BY DEF Ask, Goto
<1>2. pc[r] = "new" /\ UNCHANGED <<row, job, runs, remote, hooks, faults, edits, history>>
  BY DEF Ask
<1> USE <1>1, <1>2 DEF Inv, row, history
<1>3. TypeOK'
  BY DEF TypeOK
<1>4. JobOK'
  BY DEF TypeOK, JobOK
<1>5. RunsOK'
  BY DEF TypeOK, RunsOK
<1>6. LeaseOK'
  BY DEF TypeOK, LeaseOK, HasStatus
<1>7. Releaser'
  BY DEF TypeOK, Releaser
<1> QED BY <1>3, <1>4, <1>5, <1>6, <1>7

LEMMA LockInv == ASSUME Inv, NEW r \in Requests, Lock(r) PROVE Inv'
<1>1. /\ pc[r] = "lock"
      /\ UNCHANGED <<status, gone, job, runs, remote, hooks, faults, edits, ended>>
  BY DEF Lock
<1> USE <1>1 DEF Inv
<1>2. CASE /\ lease = NoLease \/ ~fresh
           /\ r \notin gone
           /\ lease' = r /\ fresh' = TRUE /\ orphan' = FALSE
           /\ pc' = [pc EXCEPT ![r] = "add"]
  <2> USE <1>2
  <2>1. TypeOK'
    BY DEF TypeOK
  <2>2. JobOK'
    BY DEF TypeOK, JobOK
  <2>3. RunsOK'
    BY DEF TypeOK, RunsOK
  <2>4. LeaseOK'
    BY RequestAssumption DEF TypeOK, JobOK, LeaseOK, HasStatus
  <2>5. Releaser'
    BY DEF TypeOK, Releaser
  <2> QED BY <2>1, <2>2, <2>3, <2>4, <2>5
<1>3. CASE /\ UNCHANGED <<lease, fresh, orphan>>
           /\ pc' = [pc EXCEPT ![r] = "reread"]
  <2> USE <1>3
  <2>1. TypeOK'
    BY DEF TypeOK
  <2>2. JobOK'
    BY DEF TypeOK, JobOK
  <2>3. RunsOK'
    BY DEF TypeOK, RunsOK
  <2>4. LeaseOK'
    BY DEF TypeOK, LeaseOK, HasStatus
  <2>5. Releaser'
    BY DEF TypeOK, Releaser
  <2> QED BY <2>1, <2>2, <2>3, <2>4, <2>5
<1> QED BY <1>2, <1>3 DEF Lock, Goto

LEMMA RereadInv == ASSUME Inv, NEW r \in Requests, Reread(r) PROVE Inv'
<1>1. PICK l \in {"skip", "done"} : pc' = [pc EXCEPT ![r] = l]
  BY DEF Reread, Goto
<1>2. pc[r] = "reread" /\ UNCHANGED <<row, job, runs, remote, hooks, faults, edits, history>>
  BY DEF Reread
<1> USE <1>1, <1>2 DEF Inv, row, history
<1>3. TypeOK'
  BY DEF TypeOK
<1>4. JobOK'
  BY DEF TypeOK, JobOK
<1>5. RunsOK'
  BY DEF TypeOK, RunsOK
<1>6. LeaseOK'
  BY DEF TypeOK, LeaseOK, HasStatus
<1>7. Releaser'
  BY DEF TypeOK, Releaser
<1> QED BY <1>3, <1>4, <1>5, <1>6, <1>7

\* A call that releases a lease, its own or another's, and ends.
LEMMA ReleaseInv ==
    ASSUME Inv, NEW r \in Requests, Skip(r) \/ Unlock(r)
    PROVE  Inv'
<1>1. /\ pc' = [pc EXCEPT ![r] = "done"]
      /\ UNCHANGED <<job, runs, remote, hooks, edits>>
  BY DEF Skip, Unlock, Goto
<1>a. CASE r \in gone
  <2>1. UNCHANGED <<row, faults, history>>
    BY <1>a DEF Skip, Unlock, ClearOrNot
  <2> QED BY <1>1, <1>a, <2>1, GoneInv
<1>b. CASE r \notin gone
  <2>1. status' = status /\ faults' \in Nat /\ (Cleared \/ Kept)
    BY <1>b, ClearEffect DEF Skip, Unlock, Inv
  <2> USE <1>1, <2>1 DEF Inv
  <2>3. TypeOK'
    BY RequestAssumption DEF TypeOK, Cleared, Kept
  <2>4. JobOK'
    BY DEF TypeOK, JobOK
  <2>5. RunsOK'
    BY ClearKeepsRuns DEF TypeOK
  <2>6. LeaseOK' /\ Releaser'
    BY ClearKeepsLease DEF TypeOK
  <2> QED BY <2>3, <2>4, <2>5, <2>6
<1> QED BY <1>a, <1>b

\* The queue takes the job, has one already, or refuses it.
LEMMA AddInv == ASSUME Inv, NEW r \in Requests, Add(r) PROVE Inv'
<1> DEFINE new == [by |-> r, state |-> "waiting", made |-> 0, stalls |-> 0]
<1>1. pc[r] = "add" /\ UNCHANGED <<row, runs, remote, hooks, edits, ended>>
  BY DEF Add
<1>2. new \in JobRecord /\ new.by = r /\ new.state = "waiting"
      /\ new.made < Attempts /\ new.stalls <= MaxStalled
  BY RequestAssumption DEF JobRecord
<1> HIDE DEF new
<1> USE <1>1 DEF Inv, row
<1>3. CASE /\ job = NoJob /\ job' = new
           /\ pc' = [pc EXCEPT ![r] = "done"] /\ UNCHANGED <<faults, orphan>>
  <2> USE <1>2, <1>3
  <2>1. TypeOK'
    BY DEF TypeOK
  <2>2. JobOK'
    BY DEF TypeOK, JobOK
  <2>3. RunsOK'
    BY DEF TypeOK, RunsOK
  <2>4. LeaseOK'
    BY DEF TypeOK, LeaseOK, HasStatus
  <2>5. Releaser'
    BY NoJobType DEF TypeOK, Releaser
  <2> QED BY <2>1, <2>2, <2>3, <2>4, <2>5
<1>4. CASE /\ pc' = [pc EXCEPT ![r] = "done"]
           /\ orphan' = (orphan \/ lease = r) /\ UNCHANGED <<job, faults>>
  <2> USE <1>4
  <2>1. TypeOK'
    BY DEF TypeOK
  <2>2. JobOK'
    BY DEF TypeOK, JobOK
  <2>3. RunsOK'
    BY DEF TypeOK, RunsOK
  <2>4. LeaseOK'
    BY DEF TypeOK, LeaseOK, HasStatus
  <2>5. Releaser'
    BY DEF TypeOK, Releaser
  <2> QED BY <2>1, <2>2, <2>3, <2>4, <2>5
<1>5. CASE /\ Fault("redis") /\ UNCHANGED <<job, orphan>>
           /\ pc' = [pc EXCEPT ![r] = IF HasStatus(r) THEN "unlock" ELSE "done"]
  <2> USE <1>5
  <2>1. TypeOK'
    BY FaultCounts DEF TypeOK
  <2>2. JobOK'
    BY DEF TypeOK, JobOK
  <2>3. RunsOK'
    BY DEF TypeOK, RunsOK
  <2>4. LeaseOK'
    BY DEF TypeOK, LeaseOK, HasStatus
  <2>5. Releaser'
    BY DEF TypeOK, LeaseOK, Releaser
  <2> QED BY <2>1, <2>2, <2>3, <2>4, <2>5
<1> QED BY <1>3, <1>4, <1>5 DEF Add, Goto, new

LEMMA ApiCrashInv == ASSUME Inv, ApiCrash PROVE Inv'
<1>1. /\ pc' = [r \in Requests |-> IF pc[r] = "new" THEN "new" ELSE "done"]
      /\ orphan' = (orphan \/ \E r \in Requests : pc[r] \in {"add", "unlock"} /\ lease = r)
      /\ UNCHANGED <<row, job, runs, remote, hooks, edits, ended>>
  BY DEF ApiCrash
<1> USE <1>1 DEF Inv, row
<1>2. TypeOK'
  BY FaultCounts DEF TypeOK, ApiCrash
<1>3. JobOK'
  BY DEF TypeOK, JobOK
<1>4. RunsOK'
  <2>1. \A x \in runs : pc'[x.by] = "done"
    BY DEF TypeOK, RunsOK, Run
  <2> QED BY <2>1 DEF TypeOK, RunsOK
<1>5. LeaseOK'
  BY DEF TypeOK, LeaseOK, HasStatus
<1>6. Releaser'
  BY DEF TypeOK, Releaser
<1> QED BY <1>2, <1>3, <1>4, <1>5, <1>6

-----------------------------------------------------------------------------
(* Jobs and their executions.                                              *)

LEMMA TakeInv == ASSUME Inv, Take PROVE Inv'
<1> DEFINE x == [by |-> job.by, made |-> job.made, pc |-> "read"]
<1>1. /\ job.state = "waiting" /\ job' = [job EXCEPT !.state = "active"]
      /\ runs' = runs \cup {x}
      /\ UNCHANGED <<row, pc, remote, hooks, faults, edits, history>>
  BY DEF Take
<1>2. /\ job' \in JobRecord /\ job'.state = "active"
      /\ job'.by = job.by /\ job'.made = job.made /\ job'.stalls = job.stalls
  BY <1>1 DEF Inv, TypeOK, JobRecord
<1>3. x \in Run /\ x.by = job.by /\ x.pc = "read"
  BY <1>1 DEF Inv, TypeOK, JobOK, JobRecord, Run
<1> HIDE DEF x
<1> USE <1>1, <1>2, <1>3 DEF Inv, row, history
<1>4. TypeOK'
  BY DEF TypeOK
<1>5. JobOK'
  BY DEF JobOK
<1>6. RunsOK'
  BY DEF JobOK, RunsOK
<1>7. LeaseOK'
  BY DEF LeaseOK, HasStatus
<1>8. Releaser'
  BY DEF Releaser
<1> QED BY <1>4, <1>5, <1>6, <1>7, <1>8

\* An attempt fails: the job waits again, or the listener is called.
LEMMA FailAttemptInv ==
    ASSUME Inv, NEW S, S \subseteq runs, job.state = "active", FailAttempt(S),
           S = runs \/ \E x \in runs : S = runs \ {x} /\ x.pc # "onFailed",
           faults' \in Nat, remote' \in Nat, hooks' \in SUBSET Nat, hooks \subseteq hooks',
           UNCHANGED <<row, pc, edits, history>>
    PROVE  Inv'
<1> DEFINE y == [by |-> job.by, made |-> job.made + 1, pc |-> "onFailed"]
<1>1. job.made + 1 \in 0 .. Attempts /\ job.by \in Requests /\ pc[job.by] = "done"
  BY RequestAssumption DEF Inv, TypeOK, JobOK, JobRecord
<1>2. y \in Run /\ y.by = job.by /\ y.pc = "onFailed"
  BY <1>1 DEF Run
<1>3. CASE /\ job.made + 1 >= Attempts
           /\ job' = [job EXCEPT !.state = "failed", !.made = job.made + 1]
           /\ runs' = S \cup {y}
  <2>1. job' \in JobRecord /\ job'.state = "failed" /\ job'.by = job.by
    BY <1>1, <1>3 DEF Inv, TypeOK, JobRecord
  <2> HIDE DEF y
  <2> USE <1>1, <1>2, <1>3, <2>1 DEF Inv, row, history
  <2>2. TypeOK'
    BY DEF TypeOK
  <2>3. JobOK'
    BY DEF JobOK
  <2>4. RunsOK'
    BY DEF RunsOK
  <2>5. LeaseOK'
    BY DEF LeaseOK, HasStatus
  <2>6. Releaser'
    BY DEF Releaser
  <2> QED BY <2>2, <2>3, <2>4, <2>5, <2>6
<1>4. CASE /\ ~ (job.made + 1 >= Attempts)
           /\ job' = [job EXCEPT !.state = "waiting", !.made = job.made + 1]
           /\ runs' = S
  <2>a. /\ job \in JobRecord /\ job.made \in Nat
        /\ job.made + 1 \in 0..Attempts /\ job.made + 1 < Attempts
    BY <1>4, RequestAssumption DEF Inv, TypeOK, JobRecord
  <2>b. \A n \in 0..Attempts :
          LET j == [job EXCEPT !.state = "waiting", !.made = n]
          IN  /\ j \in JobRecord /\ j.state = "waiting" /\ j.by = job.by
              /\ j.made = n /\ j.stalls = job.stalls
    BY <2>a DEF JobRecord
  <2>1. /\ job' \in JobRecord /\ job'.state = "waiting" /\ job'.by = job.by
        /\ job'.made < Attempts /\ job'.stalls = job.stalls
    BY <1>4, <2>a, <2>b
  <2> HIDE DEF y
  <2> USE <1>1, <1>4, <2>1 DEF Inv, row, history
  <2>2. TypeOK'
    BY DEF TypeOK
  <2>3. JobOK'
    BY DEF JobOK
  <2>4. RunsOK'
    BY DEF RunsOK
  <2>5. LeaseOK'
    BY DEF LeaseOK, HasStatus
  <2>6. Releaser'
    BY DEF Releaser
  <2> QED BY <2>2, <2>3, <2>4, <2>5, <2>6
<1> QED BY <1>3, <1>4 DEF FailAttempt

\* An execution that is not a listener ends, throwing.
LEMMA ThrowInv ==
    ASSUME Inv, NEW x \in runs, x.pc # "onFailed", Throw(x),
           faults' \in Nat, remote' \in Nat, hooks' \in SUBSET Nat, hooks \subseteq hooks',
           UNCHANGED <<row, pc, edits, history>>
    PROVE  Inv'
<1>1. CASE IsLive(x)
  <2>1. FailAttempt(runs \ {x}) /\ job.state = "active"
    BY <1>1 DEF Throw, IsLive
  <2> QED BY <2>1, FailAttemptInv
<1>2. CASE ~ IsLive(x)
  <2> USE DEF Inv, row, history
  <2>1. runs' = runs \ {x} /\ job' = job
    BY <1>2 DEF Throw
  <2>2. TypeOK'
    BY <2>1 DEF TypeOK
  <2>3. JobOK'
    BY <2>1 DEF JobOK
  <2>4. RunsOK'
    BY <2>1 DEF RunsOK
  <2>5. LeaseOK'
    BY <2>1 DEF LeaseOK, HasStatus
  <2>6. Releaser'
    BY <2>1 DEF Releaser
  <2> QED BY <2>2, <2>3, <2>4, <2>5, <2>6
<1> QED BY <1>1, <1>2

\* It goes on to another statement; to the end only with a webhook on its way.
LEMMA MoveInv ==
    ASSUME Inv, NEW x \in runs, x.pc # "onFailed",
           NEW l \in {"put", "clear", "settle"}, Move(x, l),
           l = "settle" => hooks' # {},
           faults' \in Nat, remote' \in Nat, hooks' \in SUBSET Nat, hooks \subseteq hooks',
           UNCHANGED <<row, pc, edits, history>>
    PROVE  Inv'
<1> DEFINE y == [x EXCEPT !.pc = l]
<1>1. y \in Run /\ y.by = x.by /\ y.pc = l
  BY DEF Inv, TypeOK, Run
<1>2. runs' = (runs \ {x}) \cup {y} /\ job' = job
  BY DEF Move
<1> HIDE DEF y
<1> USE <1>1, <1>2 DEF Inv, row, history
<1>3. TypeOK'
  BY DEF TypeOK
<1>4. JobOK'
  BY DEF JobOK
<1>5. RunsOK'
  BY DEF RunsOK
<1>6. LeaseOK'
  BY DEF LeaseOK, HasStatus
<1>7. Releaser'
  BY DEF Releaser
<1> QED BY <1>3, <1>4, <1>5, <1>6, <1>7

LEMMA ReturnedInv ==
    ASSUME Inv, NEW x \in runs, x.by \in gone, Return(x),
           UNCHANGED <<row, pc, remote, hooks, faults, edits, history>>
    PROVE  Inv'
<1>1. job' = job \/ (job' = NoJob /\ job.by = x.by)
  BY DEF Return, IsLive
<1>2. runs' = runs \ {x}
  BY DEF Return
<1> QED BY <1>1, <1>2, GoneInv

LEMMA ReadInv == ASSUME Inv, NEW x \in runs, Read(x) PROVE Inv'
<1>1. /\ x.pc # "onFailed" /\ faults' \in Nat
      /\ UNCHANGED <<row, pc, remote, hooks, edits, history>>
  BY FaultCounts DEF Read, Inv, TypeOK
<1>2. CASE x.by \in gone /\ Return(x) /\ UNCHANGED faults
  BY <1>1, <1>2, ReturnedInv
<1>3. CASE Move(x, "clear") \/ Move(x, "put") \/ Throw(x)
  BY <1>1, <1>3, MoveInv, ThrowInv DEF Inv, TypeOK
<1> QED BY <1>2, <1>3 DEF Read

LEMMA PutInv == ASSUME Inv, NEW x \in runs, Put(x) PROVE Inv'
<1> DEFINE sent == IF HasStatus(x.by) THEN TargetOf[x.by] ELSE remote
<1>1. sent \in Nat
  BY RequestAssumption DEF Inv, TypeOK, Run
<1>2. /\ x.pc # "onFailed" /\ faults' \in Nat
      /\ UNCHANGED <<row, pc, edits, history>>
  BY FaultCounts DEF Put, Inv, TypeOK
<1>3. \/ PancakeUpdates(sent) /\ (Move(x, "settle") \/ Move(x, "clear") \/ Throw(x))
      \/ UNCHANGED <<remote, hooks>> /\ (Move(x, "clear") \/ Throw(x))
  BY DEF Put
<1>4. PancakeUpdates(sent) =>
        remote' \in Nat /\ hooks' \in SUBSET Nat /\ hooks \subseteq hooks' /\ hooks' # {}
  BY <1>1 DEF PancakeUpdates, Inv, TypeOK
<1>5. UNCHANGED <<remote, hooks>> =>
        remote' \in Nat /\ hooks' \in SUBSET Nat /\ hooks \subseteq hooks'
  BY DEF Inv, TypeOK
<1> HIDE DEF sent
<1> QED BY <1>2, <1>3, <1>4, <1>5, MoveInv, ThrowInv

\* The handler returns and leaves the lease to the webhook it caused.
LEMMA SettleInv == ASSUME Inv, NEW x \in runs, Settle(x) PROVE Inv'
<1>1. /\ x.pc = "settle" /\ runs' = runs \ {x}
      /\ job' = IF IsLive(x) THEN NoJob ELSE job
      /\ UNCHANGED <<row, pc, remote, hooks, faults, edits, history>>
  BY DEF Settle, Return
<1> USE <1>1, NoJobType DEF Inv, row, history
<1>2. TypeOK'
  BY DEF TypeOK
<1>3. JobOK'
  BY DEF JobOK
<1>4. RunsOK'
  BY DEF RunsOK
<1>5. LeaseOK'
  BY DEF LeaseOK, HasStatus
<1>6. Releaser'
  BY DEF Releaser, RunsOK, IsLive
<1> QED BY <1>2, <1>3, <1>4, <1>5, <1>6

LEMMA ClearAndReturnInv ==
    ASSUME Inv, NEW x \in runs, ClearAndReturn(x) \/ OnFailed(x)
    PROVE  Inv'
<1>1. /\ runs' = runs \ {x} /\ job' \in {job, NoJob}
      /\ UNCHANGED <<pc, remote, hooks, edits>>
  BY DEF ClearAndReturn, OnFailed, Return
<1>2. x.by \in Requests
  BY DEF Inv, TypeOK, Run
<1>a. CASE x.by \in gone
  <2>1. UNCHANGED <<row, faults, history>>
    BY <1>a DEF ClearAndReturn, OnFailed, ClearOrNot
  <2>2. job' = job \/ (job' = NoJob /\ job.by = x.by)
    BY DEF ClearAndReturn, OnFailed, Return, IsLive
  <2> QED BY <1>1, <1>a, <2>1, <2>2, GoneInv
<1>b. CASE x.by \notin gone
  <2>1. status' = status /\ faults' \in Nat /\ (Cleared \/ Kept)
    BY <1>2, <1>b, ClearEffect DEF ClearAndReturn, OnFailed, Inv
  <2> USE <1>1, <2>1, NoJobType DEF Inv
  <2>3. TypeOK'
    BY RequestAssumption DEF TypeOK, Cleared, Kept
  <2>4. JobOK'
    BY DEF JobOK, NoJob
  <2>5. RunsOK'
    BY ClearKeepsRuns DEF TypeOK
  <2>6. LeaseOK' /\ Releaser'
    BY ClearKeepsLease DEF TypeOK
  <2> QED BY <2>3, <2>4, <2>5, <2>6
<1> QED BY <1>a, <1>b

LEMMA TimeoutInv == ASSUME Inv, NEW x \in runs, Timeout(x) PROVE Inv'
<1>1. /\ job.state = "active" /\ FailAttempt(runs) /\ faults' \in Nat
      /\ UNCHANGED <<row, pc, remote, hooks, edits, history>>
  BY FaultCounts DEF Timeout, IsLive, Inv, TypeOK
<1> QED BY <1>1, FailAttemptInv DEF Inv, TypeOK

LEMMA WorkerCrashInv == ASSUME Inv, WorkerCrash PROVE Inv'
<1>1. /\ runs' = {} /\ faults' \in Nat
      /\ orphan' = (orphan \/ \E x \in runs : x.pc = "onFailed" /\ lease # NoLease)
      /\ UNCHANGED <<row, pc, job, remote, hooks, edits, ended>>
  BY FaultCounts DEF WorkerCrash, Inv, TypeOK
<1> USE <1>1 DEF Inv, row
<1>2. TypeOK'
  BY DEF TypeOK
<1>3. JobOK'
  BY DEF JobOK
<1>4. RunsOK'
  BY DEF RunsOK
<1>5. LeaseOK'
  BY DEF LeaseOK, HasStatus
<1>6. Releaser'
  BY DEF Releaser
<1> QED BY <1>2, <1>3, <1>4, <1>5, <1>6

LEMMA StalledInv == ASSUME Inv, Stalled PROVE Inv'
<1>1. /\ job.state = "active"
      /\ UNCHANGED <<row, pc, runs, remote, hooks, faults, edits, ended>>
  BY DEF Stalled
<1>2. PICK s \in {"waiting", "failed"} :
        /\ job' = [job EXCEPT !.state = s, !.stalls = @ + 1]
        /\ orphan' = (orphan \/ (s = "failed" /\ lease = job.by))
        /\ s = "waiting" => job.stalls < MaxStalled
  BY DEF Stalled, Inv, TypeOK
<1>a. /\ job \in JobRecord /\ job.stalls \in Nat
      /\ job.stalls + 1 \in 0..MaxStalled + 1
  BY <1>1, RequestAssumption DEF Inv, TypeOK, JobOK, JobRecord
<1>b. \A n \in 0..MaxStalled + 1 :
        LET j == [job EXCEPT !.state = s, !.stalls = n]
        IN  /\ j \in JobRecord /\ j.state = s /\ j.by = job.by
            /\ j.made = job.made /\ j.stalls = n
  BY <1>2, <1>a DEF JobRecord
<1>c. job' = [job EXCEPT !.state = s, !.stalls = job.stalls + 1]
  BY <1>2, <1>a DEF JobRecord
<1>3. /\ job' \in JobRecord /\ job'.state = s /\ job'.by = job.by
      /\ job'.made = job.made /\ job'.stalls = job.stalls + 1
      /\ job.stalls \in Nat
  BY <1>a, <1>b, <1>c
<1>4. job.stalls < MaxStalled => job.stalls + 1 <= MaxStalled
  BY <1>3, RequestAssumption
<1> USE <1>1, <1>2, <1>3, <1>4 DEF Inv, row
<1>5. TypeOK'
  BY DEF TypeOK
<1>6. JobOK'
  BY DEF JobOK
<1>7. RunsOK'
  BY DEF RunsOK
<1>8. LeaseOK'
  BY DEF LeaseOK, HasStatus
<1>9. Releaser'
  BY DEF Releaser
<1> QED BY <1>5, <1>6, <1>7, <1>8, <1>9

-----------------------------------------------------------------------------
(* Pancake, and time.                                                      *)

\* A delivery that is applied, and one that deletes the row, clear the lease.
LEMMA AppliedInv ==
    ASSUME Inv, NEW s \in hooks, hooks' = hooks \ {s},
           ApplyWebhook(s) \/ DeleteRow(s), UNCHANGED <<pc, job, runs, remote, edits>>
    PROVE  Inv'
<1>1. Cleared /\ status' \in Nat /\ faults' \in Nat
  BY FaultCounts DEF ApplyWebhook, DeleteRow, Clear, Cleared, Inv, TypeOK, Absent
<1> USE <1>1 DEF Inv
<1>2. TypeOK'
  BY RequestAssumption DEF TypeOK, Cleared
<1>3. JobOK'
  BY DEF JobOK
<1>4. RunsOK'
  BY DEF RunsOK, Cleared
<1>5. LeaseOK' /\ Releaser'
  BY ClearKeepsLease
<1> QED BY <1>2, <1>3, <1>4, <1>5

\* One that is lost leaves the row as it is; after the last one, the lease is left
\* to the timeout.
LEMMA LostInv ==
    ASSUME Inv, NEW s \in hooks, hooks' = hooks \ {s}, LoseWebhook(s),
           UNCHANGED <<pc, job, runs, remote, edits>>
    PROVE  Inv'
<1>1. /\ faults' \in Nat /\ UNCHANGED <<row, ended>>
      /\ orphan' = (orphan \/ (lease # NoLease /\ hooks = {s}))
  BY FaultCounts DEF LoseWebhook, Inv, TypeOK
<1>2. hooks' = {} => hooks = {s}
  OBVIOUS
<1> USE <1>1, <1>2 DEF Inv, row
<1>3. TypeOK'
  BY DEF TypeOK
<1>4. JobOK'
  BY DEF JobOK
<1>5. RunsOK'
  BY RequestAssumption DEF RunsOK, TypeOK, Run
<1>6. LeaseOK'
  BY DEF LeaseOK, HasStatus
<1>7. Releaser'
  BY DEF Releaser
<1> QED BY <1>3, <1>4, <1>5, <1>6, <1>7

LEMMA WebhookInv == ASSUME Inv, NEW s \in hooks, Webhook(s) PROVE Inv'
BY AppliedInv, LostInv DEF Webhook

LEMMA EditInv == ASSUME Inv, NEW s \in Edits, Edit(s) PROVE Inv'
<1>1. /\ remote' \in Nat /\ hooks' \in SUBSET Nat /\ hooks' # {} /\ edits' \in Nat
      /\ UNCHANGED <<row, pc, job, runs, faults, history>>
  BY RequestAssumption DEF Edit, PancakeUpdates, Inv, TypeOK
<1> USE <1>1 DEF Inv, row, history
<1>2. TypeOK'
  BY DEF TypeOK
<1>3. JobOK'
  BY DEF JobOK
<1>4. RunsOK'
  BY DEF RunsOK
<1>5. LeaseOK'
  BY DEF LeaseOK, HasStatus
<1>6. Releaser'
  BY DEF Releaser
<1> QED BY <1>2, <1>3, <1>4, <1>5, <1>6

LEMMA ExpireInv == ASSUME Inv, Expire PROVE Inv'
<1> USE DEF Inv, Expire
<1>1. TypeOK'
  BY DEF TypeOK
<1>2. JobOK'
  BY DEF JobOK
<1>3. RunsOK'
  BY DEF RunsOK
<1>4. LeaseOK'
  BY DEF LeaseOK, HasStatus
<1>5. Releaser'
  BY DEF Releaser
<1> QED BY <1>1, <1>2, <1>3, <1>4, <1>5

-----------------------------------------------------------------------------
(* The theorems.                                                           *)

LEMMA InitInv == Init => Inv
<1> SUFFICES ASSUME Init PROVE Inv
  OBVIOUS
<1> USE RequestAssumption, NoJobType DEF Init
<1>1. TypeOK
  <2>1. status \in Nat /\ remote \in Nat
    BY DEF NewOrder, CONFIRMED
  <2>2. pc \in [Requests -> {"new", "lock", "reread", "add", "unlock",
                             "skip", "done"}]
    OBVIOUS
  <2>3. /\ hooks \in SUBSET Nat /\ runs \in SUBSET Run /\ ended \in SUBSET Requests
        /\ lease \in Requests \cup {NoLease} /\ fresh \in BOOLEAN /\ gone \in SUBSET Requests
        /\ faults \in Nat /\ edits \in Nat /\ orphan \in BOOLEAN
        /\ job \in JobRecord
    OBVIOUS
  <2> QED BY <2>1, <2>2, <2>3 DEF TypeOK
<1>2. JobOK
  BY DEF JobOK
<1>3. RunsOK
  BY DEF RunsOK
<1>4. LeaseOK
  BY DEF LeaseOK
<1>5. Releaser
  BY DEF Releaser
<1> QED BY <1>1, <1>2, <1>3, <1>4, <1>5 DEF Inv

LEMMA StutterInv == ASSUME Inv, UNCHANGED vars PROVE Inv'
<1> USE DEF Inv, vars, row, history
<1>1. TypeOK'
  BY DEF TypeOK
<1>2. JobOK'
  BY DEF JobOK
<1>3. RunsOK'
  BY DEF RunsOK
<1>4. LeaseOK'
  BY DEF LeaseOK, HasStatus
<1>5. Releaser'
  BY DEF Releaser
<1> QED BY <1>1, <1>2, <1>3, <1>4, <1>5

LEMMA NextInv == Inv /\ [Next]_vars => Inv'
<1> SUFFICES ASSUME Inv, [Next]_vars PROVE Inv'
  OBVIOUS
<1>1. ASSUME NEW r \in Requests, Call(r) PROVE Inv'
  BY <1>1, AskInv, LockInv, RereadInv, ReleaseInv, AddInv DEF Call
<1>2. ASSUME NEW x \in runs, Step(x) \/ Timeout(x) PROVE Inv'
  BY <1>2, ReadInv, PutInv, SettleInv, ClearAndReturnInv, TimeoutInv DEF Step
<1>3. CASE ApiCrash \/ Take \/ Stalled \/ WorkerCrash
  BY <1>3, ApiCrashInv, TakeInv, StalledInv, WorkerCrashInv
<1>4. CASE Expire \/ (\E s \in hooks : Webhook(s)) \/ (\E s \in Edits : Edit(s))
  BY <1>4, ExpireInv, WebhookInv, EditInv
<1>5. CASE UNCHANGED vars
  BY <1>5, StutterInv
<1> QED BY <1>1, <1>2, <1>3, <1>4, <1>5 DEF Next

\* The inductive invariant: who holds the lease, and who is left to release it.
THEOREM InvAlways == Spec => []Inv
BY InitInv, NextInv, PTL DEF Spec

\* Every column and every job holds a value of its type; no job is attempted more
\* often than its options say.
THEOREM TypeCorrect == Spec => []TypeOK
<1>1. Inv => TypeOK
  BY DEF Inv
<1> QED BY <1>1, InvAlways, PTL

\* A fresh lease has somebody who will release it, or is one of those known to be
\* left to the timeout, a lost webhook among them (orders.service.ts,
\* orders.processor.ts, integration.service.ts).
THEOREM LeaseAlwaysHasReleaser == Spec => []LeaseHasReleaser
<1>1. Inv => LeaseHasReleaser
  <2> SUFFICES ASSUME Inv, lease # NoLease, fresh, ~orphan PROVE Working(lease)
    BY DEF LeaseHasReleaser
  <2> QED BY DEF Inv, Releaser, Working
<1> QED BY <1>1, InvAlways, PTL

\* A status update meets the queued job of another status update only when one of
\* the two calls had lost its lease (enqueueConfirmationStatusUpdate).
THEOREM LostOnlyAfterLease == Spec => LostOnlyWithoutLease
<1> DEFINE A == \A r \in Requests :
                  /\ pc[r] = "add" /\ pc'[r] = "done" /\ HasStatus(r)
                  /\ job # NoJob /\ job.state # "failed" /\ HasStatus(job.by)
                  /\ UNCHANGED faults
                  => {job.by, r} \cap ended # {}
<1>1. Inv => A
  <2> SUFFICES ASSUME Inv, NEW r \in Requests, pc[r] = "add", HasStatus(r),
                      job # NoJob, HasStatus(job.by)
               PROVE  {job.by, r} \cap ended # {}
    OBVIOUS
  <2>1. job.state # "none" /\ pc[job.by] = "done"
    BY DEF Inv, JobOK
  <2> QED BY <2>1 DEF Inv, LeaseOK
<1>2. Inv => [A]_vars
  BY <1>1
<1> QED BY <1>2, InvAlways, PTL DEF LostOnlyWithoutLease
=============================================================================
