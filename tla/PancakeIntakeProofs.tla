-------------------------- MODULE PancakeIntakeProofs --------------------------
(***************************************************************************)
(* PancakeIntake for any deliveries, versions, attempts, faults and windows:  *)
(* open logs are worked on, and a change of the row has a reconcile ahead of  *)
(* it that will count it.                                                    *)
(***************************************************************************)
EXTENDS PancakeIntake, FiniteSetTheorems, TLAPS

\* An execution that Bull waits for belongs to an active job, one to a job; a job
\* is added once; what reached the end has its reconcile queued.
JobsOK ==
    /\ \A d \in Deliveries : recv[d] \in {"new", "add"} => job[d].state = "none"
    /\ \A x \in runs : recv[x.d] # "new"
    /\ \A x \in runs : IsLive(x) => job[x.d].state = "active"
    /\ \A x, y \in runs : IsLive(x) /\ IsLive(y) /\ x.d = y.d => x = y
    /\ \A x \in runs : x.pc = "finish" => ~x.due

\* One reconcile of a window at a time, of one that has ended; one in all when the
\* concurrency is 1.
ReconcileOK ==
    /\ \A x \in rruns : IsLiveR(x) => rjob[x.w].state = "active"
    /\ \A x, y \in rruns : IsLiveR(x) /\ IsLiveR(y) /\ x.w = y.w => x = y
    /\ Concurrency = 1 => \A w, v \in Windows : rjob[w].state = "active" /\ rjob[v].state = "active" => w = v
    /\ \A w \in Windows : rjob[w].state = "active" => w <= now
    /\ ~lost => \A w \in Windows : rjob[w].state # "failed"

\* Who will settle the log of d; a receiver that only has to mark it does not count.
LogOK ==
    /\ \A d \in Deliveries : recv[d] = "new" => log[d] = "none"
    /\ \A d \in Deliveries \ stuck :
          \/ recv[d] \notin {"done", "mark"}
          \/ Settled(d)
          \/ job[d].state \in {"waiting", "active"}
          \/ \E x \in runs : x.d = d

\* x has yet to queue a reconcile of a change, and the job that may be under way is
\* not the one it will rely on.
Owed(x) == x.due /\ ~(x.pc = "reconcile" /\ rjob[x.w].state = "active")

\* A reconcile that has not begun will count what the row says.
Ahead ==
    \/ \E x \in runs : Owed(x)
    \/ \E d \in Deliveries : WillRetry(d)
    \/ \E w \in Windows : rjob[w].state = "waiting"

AtRow == \A p \in Places : agg[p] # 0 => row # 0 /\ PlaceOf[row] = p

\* Where none is ahead, the one under way has not read the row or has read it as it
\* is, and after a full reset it finds no other place taken.
Sees(x) ==
    /\ x.pc = "write" => x.saw = row
    /\ mode = "full_reset" /\ x.pc \in {"read", "write"} => AtRow

DebtOK ==
    Concurrency = 1 /\ ~lost /\ ~Ahead =>
        /\ ~Counted => \E w \in Windows : rjob[w].state = "active"
        /\ \A x \in rruns : IsLiveR(x) => Sees(x)

Inv == TypeOK /\ JobsOK /\ ReconcileOK /\ LogOK /\ DebtOK

-----------------------------------------------------------------------------
(* What the helpers do.                                                    *)

LEMMA FaultCounts == ASSUME NEW f, faults \in Nat, Fault(f) PROVE faults' \in Nat
BY DEF Fault

LEMMA VersionType ==
    /\ \A d \in Deliveries : VersionOf[d] \in Versions
    /\ 0 \notin Versions
BY IntakeAssumption DEF Versions

LEMMA FreshType ==
    /\ \A s \in JobState : Fresh(s) \in Job
    /\ \A s \in JobState \ {"done"} :
          Fresh(s) \in [state : JobState \ {"done"}, made : 0 .. ReconcileAttempts,
                        stalls : 0 .. MaxStalled + 1]
    /\ \A s : Fresh(s).state = s
BY IntakeAssumption DEF Fresh, Job

LEMMA NewRunType ==
    ASSUME TypeOK, NEW d \in Deliveries, NEW by \in {"job", "request"}, NEW l \in {"begin", "store"}
    PROVE  /\ NewRun(d, by, l) \in Run
           /\ NewRun(d, by, l).d = d /\ NewRun(d, by, l).by = by /\ NewRun(d, by, l).pc = l
           /\ NewRun(d, by, l).due <=> (by = "job" /\ Retried(d))
<1>1. job[d].made \in 0 .. Attempts /\ 0 \in Windows
  BY IntakeAssumption DEF TypeOK, Job, Windows
<1>2. (by = "job" /\ Retried(d)) \in BOOLEAN
  OBVIOUS
<1> QED BY <1>1, <1>2 DEF NewRun, Run

LEMMA FailAttemptEffect ==
    ASSUME TypeOK, NEW d \in Deliveries, FailAttempt(d)
    PROVE  /\ job' \in [Deliveries -> Job]
           /\ \A e \in Deliveries : e # d => job'[e] = job[e]
           /\ job'[d].state = IF LastAttempt(d) THEN "failed" ELSE "waiting"
           /\ ~LastAttempt(d) => job'[d].made > 0
<1>1. job[d] \in Job
  BY DEF TypeOK
<1>2. ~LastAttempt(d) => job[d].made + 1 \in 0 .. Attempts /\ job[d].made + 1 > 0
  BY <1>1, IntakeAssumption DEF Job, LastAttempt
<1>3. CASE LastAttempt(d)
  <2>1. job' = [job EXCEPT ![d] = Fresh("failed")]
    BY <1>3 DEF FailAttempt
  <2>2. "failed" \in JobState
    BY DEF JobState
  <2> QED BY <1>3, <2>1, <2>2, FreshType DEF TypeOK
<1>4. CASE ~LastAttempt(d)
  <2>1. job' = [job EXCEPT ![d] = Again(job[d])]
    BY <1>4 DEF FailAttempt
  <2>2. Again(job[d]) \in Job
    BY <1>1, <1>2, <1>4 DEF Again, Job, JobState
  <2> QED BY <1>2, <1>4, <2>1, <2>2 DEF Again, TypeOK
<1> QED BY <1>3, <1>4

\* An execution that goes on stays one of the same delivery, and Bull waits for it
\* as before.
LEMMA MoveEffect ==
    ASSUME Inv, NEW x \in runs, NEW y \in Run, y.d = x.d, y.by = x.by,
           runs' = (runs \ {x}) \cup {y}
    PROVE  /\ runs' \in SUBSET Run
           /\ \A d : (\E z \in runs' : z.d = d) <=> (\E z \in runs : z.d = d)
           /\ \A d : (\E z \in runs' : z.d = d /\ IsLive(z)) <=> (\E z \in runs : z.d = d /\ IsLive(z))
           /\ \A z \in runs' : IsLive(z) => job[z.d].state = "active"
           /\ \A z, u \in runs' : IsLive(z) /\ IsLive(u) /\ z.d = u.d => z = u
BY DEF Inv, TypeOK, JobsOK, IsLive

\* A step that leaves the row, the aggregates and the reconcile alone.
LEMMA QuietDebt ==
    ASSUME DebtOK, UNCHANGED <<mode, row, reconcile>>, lost => lost', Ahead => Ahead' \/ lost'
    PROVE  DebtOK'
<1> SUFFICES ASSUME Concurrency = 1, ~lost', ~Ahead'
             PROVE  /\ ~Counted' => \E w \in Windows : rjob'[w].state = "active"
                    /\ \A x \in rruns' : IsLiveR(x)' => Sees(x)'
  BY DEF DebtOK
<1>1. /\ ~Counted => \E w \in Windows : rjob[w].state = "active"
      /\ \A x \in rruns : IsLiveR(x) => Sees(x)
  BY DEF DebtOK
<1>2. Counted' <=> Counted
  BY DEF Counted, Rewritten, reconcile
<1>3. \A x \in rruns : Sees(x)' <=> Sees(x)
  BY DEF Sees, AtRow, reconcile
<1> QED BY <1>1, <1>2, <1>3 DEF reconcile, IsLiveR

LEMMA QuietReconcile ==
    ASSUME ReconcileOK, UNCHANGED <<now, rjob, rruns>>, lost => lost'
    PROVE  ReconcileOK'
BY DEF ReconcileOK, IsLiveR

-----------------------------------------------------------------------------
(* The receiver.                                                           *)

LEMMA ReceiveInv == ASSUME Inv, NEW d \in Deliveries, Receive(d) PROVE Inv'
<1>1. /\ recv[d] = "new" /\ recv' = [recv EXCEPT ![d] = recv'[d]] /\ recv'[d] \in {"add", "done"}
      /\ log' = [log EXCEPT ![d] = log'[d]] /\ log'[d] \in {"received", "refused"}
      /\ recv'[d] = "done" => log'[d] = "refused"
      /\ UNCHANGED <<mode, job, runs, row, now, reconcile, faults, lost, stuck>>
  BY DEF Receive, Goto, Log, Inv, TypeOK
<1> USE <1>1 DEF Inv, reconcile
<1>2. TypeOK'
  BY DEF TypeOK
<1>3. JobsOK'
  BY DEF TypeOK, JobsOK, IsLive, Run
<1>4. ReconcileOK'
  BY QuietReconcile
<1>5. LogOK'
  BY DEF TypeOK, LogOK, Settled
<1>6. DebtOK'
  BY QuietDebt DEF Ahead, Owed, WillRetry, Retried, IsLive
<1> QED BY <1>2, <1>3, <1>4, <1>5, <1>6

LEMMA QueueAddInv == ASSUME Inv, NEW d \in Deliveries, QueueAdd(d) PROVE Inv'
<1>1. /\ recv[d] = "add" /\ job[d].state = "none"
      /\ UNCHANGED <<mode, log, runs, row, now, reconcile, lost, stuck>>
  BY DEF QueueAdd, Inv, JobsOK
<1>2. \A x \in runs : IsLive(x) => x.d # d
  BY <1>1 DEF Inv, JobsOK
<1> USE <1>1 DEF Inv, reconcile
<1>3. CASE job' = [job EXCEPT ![d] = Fresh("waiting")] /\ Goto(d, "mark") /\ UNCHANGED faults
  <2>0. Fresh("waiting") \in Job /\ Fresh("waiting").state = "waiting"
    BY FreshType DEF JobState
  <2> USE <1>3, <2>0 DEF Goto
  <2>1. TypeOK'
    BY DEF TypeOK
  <2>2. JobsOK'
    BY <1>2 DEF TypeOK, JobsOK, IsLive
  <2>3. LogOK'
    BY DEF TypeOK, LogOK, Settled
  <2>4. Ahead => Ahead'
    BY DEF TypeOK, Ahead, Owed, WillRetry, Retried, IsLive
  <2> QED BY <2>1, <2>2, <2>3, <2>4, QuietReconcile, QuietDebt
<1>4. CASE Fault("redis") /\ (\E l \in Fallbacks : Goto(d, l)) /\ UNCHANGED job
  <2>0. PICK l \in {"inline", "refuse"} : recv' = [recv EXCEPT ![d] = l]
    BY <1>4, IntakeAssumption DEF Goto
  <2> USE <1>4, <2>0
  <2>1. TypeOK'
    BY FaultCounts DEF TypeOK
  <2>2. JobsOK'
    BY DEF TypeOK, JobsOK, IsLive
  <2>3. LogOK'
    BY DEF TypeOK, LogOK, Settled
  <2>4. Ahead => Ahead'
    BY DEF Ahead, Owed, WillRetry, Retried, IsLive
  <2> QED BY <2>1, <2>2, <2>3, <2>4, QuietReconcile, QuietDebt
<1> QED BY <1>3, <1>4 DEF QueueAdd

LEMMA MarkInv == ASSUME Inv, NEW d \in Deliveries, Mark(d) PROVE Inv'
<1>1. recv[d] = "mark" /\ UNCHANGED <<mode, job, runs, row, now, reconcile, lost>>
  BY DEF Mark
<1> USE <1>1 DEF Inv, reconcile
<1>2. Ahead => Ahead'
  BY DEF Ahead, Owed, WillRetry, Retried, IsLive
<1>3. CASE /\ Log(d, "queued") /\ Goto(d, "done")
           /\ stuck' = IF Settled(d) THEN stuck \cup {d} ELSE stuck
           /\ UNCHANGED faults
  <2> USE <1>3 DEF Log, Goto
  <2>1. TypeOK'
    BY DEF TypeOK
  <2>2. JobsOK'
    BY DEF TypeOK, JobsOK, IsLive
  <2>3. LogOK'
    BY DEF TypeOK, LogOK, Settled
  <2> QED BY <1>2, <2>1, <2>2, <2>3, QuietReconcile, QuietDebt
<1>4. CASE /\ Fault("database")
           /\ \E l \in Fallbacks : Goto(d, l)
           /\ UNCHANGED <<log, stuck>>
  <2>0. PICK l \in {"inline", "refuse"} : recv' = [recv EXCEPT ![d] = l]
    BY <1>4, IntakeAssumption DEF Goto
  <2> USE <1>4, <2>0
  <2>1. TypeOK'
    BY FaultCounts DEF TypeOK
  <2>2. JobsOK'
    BY DEF TypeOK, JobsOK, IsLive
  <2>3. LogOK'
    BY DEF TypeOK, LogOK, Settled
  <2> QED BY <1>2, <2>1, <2>2, <2>3, QuietReconcile, QuietDebt
<1> QED BY <1>3, <1>4 DEF Mark

LEMMA RefuseInv == ASSUME Inv, NEW d \in Deliveries, Refuse(d) PROVE Inv'
<1>1. /\ recv[d] = "refuse" /\ recv' = [recv EXCEPT ![d] = "done"]
      /\ UNCHANGED <<mode, job, runs, row, now, reconcile, lost>>
  BY DEF Refuse, Goto
<1>2. \/ log' = [log EXCEPT ![d] = "failed"] /\ UNCHANGED <<faults, stuck>>
      \/ Fault("database") /\ stuck' = stuck \cup {d} /\ UNCHANGED log
  BY DEF Refuse, Log
<1> USE <1>1, <1>2 DEF Inv, reconcile
<1>3. TypeOK'
  BY FaultCounts DEF TypeOK
<1>4. JobsOK'
  BY DEF TypeOK, JobsOK, IsLive
<1>5. LogOK'
  BY DEF TypeOK, LogOK, Settled
<1>6. Ahead => Ahead'
  BY DEF Ahead, Owed, WillRetry, Retried, IsLive
<1> QED BY <1>3, <1>4, <1>5, <1>6, QuietReconcile, QuietDebt

LEMMA InlineInv == ASSUME Inv, NEW d \in Deliveries, Inline(d) PROVE Inv'
<1>1. /\ recv[d] = "inline" /\ recv' = [recv EXCEPT ![d] = "done"]
      /\ UNCHANGED <<mode, job, row, now, reconcile, lost>>
  BY DEF Inline, Goto
<1> USE <1>1 DEF Inv, reconcile
<1>2. CASE /\ Log(d, "processing")
           /\ runs' = runs \cup {NewRun(d, "request", "store")}
           /\ UNCHANGED <<faults, stuck>>
  <2> DEFINE x == NewRun(d, "request", "store")
  <2>0. x \in Run /\ x.d = d /\ x.by = "request" /\ x.pc = "store"
    BY NewRunType
  <2> HIDE DEF x
  <2> USE <1>2, <2>0 DEF Log
  <2>a. runs' = runs \cup {x}
    BY DEF x
  <2>1. TypeOK'
    BY <2>a DEF TypeOK
  <2>2. JobsOK'
    BY <2>a DEF TypeOK, JobsOK, IsLive
  <2>3. LogOK'
    BY <2>a DEF TypeOK, LogOK, Settled
  <2>4. Ahead => Ahead'
    BY <2>a DEF Ahead, Owed, WillRetry, Retried, IsLive
  <2> QED BY <2>1, <2>2, <2>3, <2>4, QuietReconcile, QuietDebt
<1>3. CASE Fault("database") /\ stuck' = stuck \cup {d} /\ UNCHANGED <<log, runs>>
  <2> USE <1>3
  <2>1. TypeOK'
    BY FaultCounts DEF TypeOK
  <2>2. JobsOK'
    BY DEF TypeOK, JobsOK, IsLive
  <2>3. LogOK'
    BY DEF TypeOK, LogOK, Settled
  <2>4. Ahead => Ahead'
    BY DEF Ahead, Owed, WillRetry, Retried, IsLive
  <2> QED BY <2>1, <2>2, <2>3, <2>4, QuietReconcile, QuietDebt
<1> QED BY <1>2, <1>3 DEF Inline

-----------------------------------------------------------------------------
(* The ingest queue.                                                        *)

LEMMA TakeInv == ASSUME Inv, NEW d \in Deliveries, Take(d) PROVE Inv'
<1> DEFINE x == NewRun(d, "job", "begin")
<1>0. x \in Run /\ x.d = d /\ x.by = "job" /\ x.pc = "begin" /\ (Retried(d) => x.due)
  BY NewRunType DEF Inv
<1>1. /\ job[d].state = "waiting" /\ job' = [job EXCEPT ![d].state = "active"]
      /\ runs' = runs \cup {x}
      /\ UNCHANGED <<mode, recv, log, row, now, reconcile, faults, lost, stuck>>
  BY DEF Take
<1> HIDE DEF x
<1>2. \A y \in runs : IsLive(y) => y.d # d
  BY <1>1 DEF Inv, JobsOK
<1>3. job' \in [Deliveries -> Job] /\ job'[d].state = "active"
      /\ \A e \in Deliveries : e # d => job'[e] = job[e]
  <2>1. job' = [job EXCEPT ![d] = [job[d] EXCEPT !.state = "active"]]
    BY <1>1
  <2>2. [job[d] EXCEPT !.state = "active"] \in Job /\ [job[d] EXCEPT !.state = "active"].state = "active"
    BY DEF Inv, TypeOK, Job, JobState
  <2> QED BY <2>1, <2>2 DEF Inv, TypeOK
<1> USE <1>0, <1>1, <1>2, <1>3 DEF Inv, reconcile
<1>4. TypeOK'
  BY DEF TypeOK
<1>5. JobsOK'
  BY DEF TypeOK, JobsOK, IsLive, Run
<1>6. LogOK'
  BY DEF TypeOK, LogOK, Settled
<1>7. Ahead => Ahead'
  <2>1. CASE \E y \in runs : Owed(y)
    BY <2>1 DEF Ahead, Owed
  <2>2. CASE \E w \in Windows : rjob[w].state = "waiting"
    BY <2>2 DEF Ahead
  <2>3. ASSUME NEW e \in Deliveries, WillRetry(e), e # d PROVE Ahead'
    BY <2>3 DEF Ahead, WillRetry, Retried, IsLive
  <2>4. ASSUME WillRetry(d) PROVE Ahead'
    BY <2>4 DEF Ahead, WillRetry, Owed
  <2> QED BY <2>1, <2>2, <2>3, <2>4 DEF Ahead
<1> QED BY <1>4, <1>5, <1>6, <1>7, QuietReconcile, QuietDebt

LEMMA StalledInv == ASSUME Inv, NEW d \in Deliveries, Stalled(d) PROVE Inv'
<1>1. /\ job[d].state = "active" /\ ~\E x \in runs : x.d = d /\ IsLive(x)
      /\ UNCHANGED <<mode, recv, log, runs, row, now, reconcile, faults>>
  BY DEF Stalled
<1> USE <1>1 DEF Inv, reconcile
<1>2. CASE /\ job[d].stalls < MaxStalled
           /\ job' = [job EXCEPT ![d] = Resumed(job[d])] /\ UNCHANGED <<lost, stuck>>
  <2>1. Resumed(job[d]) \in Job /\ Resumed(job[d]).state = "waiting" /\ Resumed(job[d]).stalls > 0
    BY <1>2, IntakeAssumption DEF Resumed, TypeOK, Job, JobState
  <2> USE <1>2, <2>1
  <2>2. TypeOK'
    BY DEF TypeOK
  <2>3. JobsOK'
    BY DEF TypeOK, JobsOK, IsLive, Run
  <2>4. LogOK'
    BY DEF TypeOK, LogOK, Settled
  <2>5. Ahead'
    BY DEF TypeOK, Ahead, WillRetry, Retried
  <2> QED BY <2>2, <2>3, <2>4, <2>5, QuietReconcile, QuietDebt
<1>3. CASE job' = [job EXCEPT ![d] = Fresh("failed")] /\ lost' = TRUE /\ stuck' = stuck \cup {d}
  <2>1. Fresh("failed") \in Job /\ Fresh("failed").state = "failed"
    BY FreshType DEF JobState
  <2> USE <1>3, <2>1
  <2>2. TypeOK'
    BY DEF TypeOK
  <2>3. JobsOK'
    BY DEF TypeOK, JobsOK, IsLive, Run
  <2>4. LogOK'
    BY DEF TypeOK, LogOK, Settled
  <2>5. ReconcileOK' /\ DebtOK'
    BY QuietReconcile DEF DebtOK
  <2> QED BY <2>2, <2>3, <2>4, <2>5
<1> QED BY <1>1, <1>2, <1>3 DEF Stalled

\* What an attempt that throws leaves behind: its job is tried again, or nothing was
\* due, or it is lost.
LEMMA ThrowEffect ==
    ASSUME Inv, NEW x \in runs, Throw(x), UNCHANGED <<mode, recv, row, now, reconcile>>
    PROVE  /\ runs' = runs \ {x} /\ job' \in [Deliveries -> Job] /\ lost' \in BOOLEAN
           /\ lost => lost'
           /\ \A d \in Deliveries : d # x.d => job'[d] = job[d]
           /\ JobsOK' /\ ReconcileOK' /\ DebtOK'
<1> DEFINE d == x.d
<1>0. d \in Deliveries /\ x \in Run
  BY DEF Inv, TypeOK, Run
<1>1. /\ runs' = runs \ {x}
      /\ lost' = (lost \/ (x.due /\ (~IsLive(x) \/ LastAttempt(d))))
  BY DEF Throw
<1>1a. lost' \in BOOLEAN
  BY <1>0, <1>1 DEF Inv, TypeOK
<1>2. IsLive(x) => job[d].state = "active" /\ \A y \in runs' : IsLive(y) => y.d # d
  BY <1>1 DEF Inv, JobsOK
<1>3. /\ job' \in [Deliveries -> Job]
      /\ \A e \in Deliveries : e # d => job'[e] = job[e]
      /\ ~IsLive(x) => job' = job
      /\ IsLive(x) => /\ job'[d].state = IF LastAttempt(d) THEN "failed" ELSE "waiting"
                      /\ ~LastAttempt(d) => job'[d].made > 0
  BY <1>0, FailAttemptEffect DEF Throw, Inv, TypeOK
<1> HIDE DEF d
<1> USE <1>0 DEF Inv
<1>4. JobsOK'
  <2>1. \A e \in Deliveries : recv'[e] \in {"new", "add"} => job'[e].state = "none"
    BY <1>2, <1>3 DEF JobsOK
  <2>2. \A y \in runs' : IsLive(y) => job'[y.d].state = "active"
    BY <1>1, <1>2, <1>3 DEF JobsOK, TypeOK, Run
  <2> QED BY <1>1, <2>1, <2>2 DEF JobsOK, IsLive
<1>5. Ahead => Ahead' \/ lost'
  <2>1. CASE x.due
    <3>1. CASE IsLive(x) /\ ~LastAttempt(d)
      BY <1>3, <3>1 DEF Ahead, WillRetry, Retried
    <3> QED BY <1>1, <2>1, <3>1
  <2>2. ASSUME ~x.due, NEW y \in runs, Owed(y) PROVE Ahead'
    BY <1>1, <2>2 DEF Ahead, Owed, reconcile
  <2>3. ASSUME NEW e \in Deliveries, WillRetry(e) PROVE Ahead'
    <3>1. CASE e = d /\ IsLive(x)
      BY <1>2, <2>3, <3>1 DEF WillRetry, d
    <3>2. CASE e = d /\ ~IsLive(x)
      BY <1>1, <1>3, <2>3, <3>2 DEF Ahead, WillRetry, Retried, IsLive
    <3>3. CASE e # d
      BY <1>1, <1>3, <2>3, <3>3 DEF Ahead, WillRetry, Retried, IsLive
    <3> QED BY <3>1, <3>2, <3>3
  <2>4. ASSUME NEW w \in Windows, rjob[w].state = "waiting" PROVE Ahead'
    BY <2>4 DEF Ahead, reconcile
  <2> QED BY <2>1, <2>2, <2>3, <2>4 DEF Ahead
<1>6. ReconcileOK' /\ DebtOK'
  BY <1>1, <1>5, QuietReconcile, QuietDebt DEF reconcile
<1> QED BY <1>1, <1>1a, <1>3, <1>4, <1>6 DEF d

-----------------------------------------------------------------------------
(* The processing of a payload.                                             *)

LEMMA MoveJobs ==
    ASSUME Inv, NEW x \in runs, NEW y \in Run, y.d = x.d, y.by = x.by,
           y.pc = "finish" => ~y.due,
           runs' = (runs \ {x}) \cup {y}, UNCHANGED <<recv, job>>
    PROVE  JobsOK'
BY MoveEffect DEF Inv, JobsOK, IsLive

LEMMA MoveAhead ==
    ASSUME Inv, NEW x \in runs, NEW y \in Run, y.d = x.d, y.by = x.by,
           runs' = (runs \ {x}) \cup {y}, UNCHANGED <<job, rjob>>,
           Owed(x) => Owed(y), Ahead
    PROVE  Ahead'
<1>1. CASE \E z \in runs : Owed(z)
  BY <1>1 DEF Ahead, Owed
<1>2. ASSUME NEW d \in Deliveries, WillRetry(d) PROVE Ahead'
  BY <1>2, MoveEffect DEF Ahead, WillRetry, Retried, IsLive
<1>3. CASE \E w \in Windows : rjob[w].state = "waiting"
  BY <1>3 DEF Ahead
<1> QED BY <1>1, <1>2, <1>3 DEF Ahead

LEMMA BeginInv == ASSUME Inv, NEW x \in runs, Begin(x) PROVE Inv'
<1>1. /\ x.pc = "begin" /\ UNCHANGED <<mode, recv, row, now, reconcile>>
      /\ x \in Run /\ x.d \in Deliveries
  BY DEF Begin, Inv, TypeOK, Run
<1> USE <1>1 DEF Inv, reconcile
<1>2. CASE Log(x.d, "processing") /\ Move(x, "store") /\ UNCHANGED <<faults, lost, stuck>>
  <2> DEFINE y == [x EXCEPT !.pc = "store"]
  <2>0. y \in Run /\ y.d = x.d /\ y.by = x.by /\ y.pc = "store" /\ y.due = x.due
    BY DEF Run
  <2>a. runs' = (runs \ {x}) \cup {y} /\ UNCHANGED job
    BY <1>2 DEF Move
  <2> HIDE DEF y
  <2> USE <1>2, <2>0, <2>a DEF Log
  <2>b. \A d : (\E z \in runs' : z.d = d) <=> (\E z \in runs : z.d = d)
    BY MoveEffect
  <2>1. TypeOK'
    BY DEF TypeOK
  <2>2. JobsOK'
    BY MoveJobs
  <2>3. LogOK'
    <3>1. ASSUME NEW d \in Deliveries \ stuck, d # x.d
          PROVE  \/ recv'[d] \notin {"done", "mark"} \/ Settled(d)'
                 \/ job'[d].state \in {"waiting", "active"} \/ \E z \in runs' : z.d = d
      BY <2>b, <3>1 DEF TypeOK, LogOK, Settled
    <3>2. \E z \in runs' : z.d = x.d
      OBVIOUS
    <3>3. \A d \in Deliveries : recv'[d] = "new" => log'[d] = "none"
      BY DEF TypeOK, LogOK, JobsOK
    <3> QED BY <3>1, <3>2, <3>3 DEF LogOK
  <2>4. Ahead => Ahead'
    BY MoveAhead DEF Owed
  <2> QED BY <2>1, <2>2, <2>3, <2>4, QuietReconcile, QuietDebt
<1>3. CASE Fault("database") /\ Throw(x) /\ stuck' = stuck \cup {x.d} /\ UNCHANGED log
  <2>1. /\ runs' = runs \ {x} /\ job' \in [Deliveries -> Job] /\ lost' \in BOOLEAN
        /\ \A d \in Deliveries : d # x.d => job'[d] = job[d]
        /\ JobsOK' /\ ReconcileOK' /\ DebtOK'
    BY <1>3, ThrowEffect
  <2> USE <1>3, <2>1
  <2>2. TypeOK'
    BY FaultCounts DEF TypeOK
  <2>3. LogOK'
    BY DEF TypeOK, LogOK, Settled
  <2> QED BY <2>2, <2>3
<1> QED BY <1>2, <1>3 DEF Begin

LEMMA CatchInv == ASSUME Inv, NEW x \in runs, Catch(x) PROVE Inv'
<1>1. /\ UNCHANGED <<mode, recv, row, now, reconcile>>
      /\ Throw(x) /\ x \in Run /\ x.d \in Deliveries
      /\ \/ Log(x.d, "failed") /\ UNCHANGED <<faults, stuck>>
         \/ Fault("database") /\ stuck' = stuck \cup {x.d} /\ UNCHANGED log
  BY DEF Catch, Inv, TypeOK, Run
<1>2. /\ runs' = runs \ {x} /\ job' \in [Deliveries -> Job] /\ lost' \in BOOLEAN
      /\ \A d \in Deliveries : d # x.d => job'[d] = job[d]
      /\ JobsOK' /\ ReconcileOK' /\ DebtOK'
  BY <1>1, ThrowEffect
<1> USE <1>1, <1>2 DEF Inv, reconcile, Log
<1>3. TypeOK'
  BY FaultCounts DEF TypeOK
<1>4. LogOK'
  BY DEF TypeOK, LogOK, JobsOK, Settled
<1> QED BY <1>3, <1>4

LEMMA MoveLog ==
    ASSUME Inv, NEW x \in runs, NEW y \in Run, y.d = x.d, y.by = x.by,
           runs' = (runs \ {x}) \cup {y}, UNCHANGED <<recv, log, job, stuck>>
    PROVE  LogOK'
BY MoveEffect DEF Inv, LogOK, Settled

LEMMA StoreInv == ASSUME Inv, NEW x \in runs, Store(x) PROVE Inv'
<1>1. /\ x.pc = "store" /\ UNCHANGED <<mode, recv, log, job, now, reconcile, stuck>>
      /\ x \in Run /\ x.d \in Deliveries /\ x.due \in BOOLEAN
  BY DEF Store, Inv, TypeOK, Run
<1>2. 0 \in Windows
  BY IntakeAssumption DEF Windows
<1> USE <1>1, <1>2 DEF Inv, reconcile
<1>3. CASE row' = VersionOf[x.d] /\ UNCHANGED <<faults, lost>>
           /\ runs' = (runs \ {x}) \cup {At(x, "window", 0, TRUE, TRUE)}
  <2> DEFINE y == At(x, "window", 0, TRUE, TRUE)
  <2>1. y \in Run /\ y.d = x.d /\ y.by = x.by /\ y.pc = "window" /\ y.due
    BY DEF At, Run
  <2>2. runs' = (runs \ {x}) \cup {y}
    BY <1>3
  <2> HIDE DEF y
  <2>3. TypeOK'
    BY <1>3, <2>1, <2>2, VersionType DEF TypeOK
  <2>4. JobsOK' /\ LogOK' /\ ReconcileOK'
    BY <1>3, <2>1, <2>2, MoveJobs, MoveLog, QuietReconcile
  <2>5. Ahead'
    BY <2>1, <2>2 DEF Ahead, Owed
  <2> QED BY <2>3, <2>4, <2>5 DEF DebtOK
<1>4. CASE /\ Fault("routing") /\ lost' = (lost \/ x.due) /\ UNCHANGED row
           /\ runs' = (runs \ {x}) \cup {At(x, "finish", 0, FALSE, FALSE)}
  <2> DEFINE y == At(x, "finish", 0, FALSE, FALSE)
  <2>1. y \in Run /\ y.d = x.d /\ y.by = x.by /\ y.pc = "finish" /\ ~y.due
    BY DEF At, Run
  <2>2. runs' = (runs \ {x}) \cup {y}
    BY <1>4
  <2> HIDE DEF y
  <2>3. TypeOK'
    BY <1>4, <2>1, <2>2, FaultCounts DEF TypeOK
  <2>4. JobsOK' /\ LogOK' /\ ReconcileOK'
    BY <1>4, <2>1, <2>2, MoveJobs, MoveLog, QuietReconcile
  <2>5. Ahead => Ahead' \/ lost'
    BY <1>4, <2>1, <2>2, MoveAhead DEF Owed
  <2> QED BY <1>4, <2>3, <2>4, <2>5, QuietDebt
<1>5. ASSUME Fault("database"), UNCHANGED lost,
             NEW written \in BOOLEAN, NEW l \in {"window", "catch"},
             row' = IF written THEN VersionOf[x.d] ELSE row,
             runs' = (runs \ {x}) \cup {At(x, l, 0, FALSE, x.due \/ written)}
      PROVE  Inv'
  <2> DEFINE y == At(x, l, 0, FALSE, x.due \/ written)
  <2>1. y \in Run /\ y.d = x.d /\ y.by = x.by /\ y.pc = l /\ (y.due <=> (x.due \/ written))
    BY DEF At, Run
  <2>2. runs' = (runs \ {x}) \cup {y}
    BY <1>5
  <2> HIDE DEF y
  <2>3. TypeOK'
    BY <1>5, <2>1, <2>2, VersionType, FaultCounts DEF TypeOK
  <2>4. JobsOK' /\ LogOK' /\ ReconcileOK'
    BY <1>5, <2>1, <2>2, MoveJobs, MoveLog, QuietReconcile
  <2>5. CASE written
    <3>1. Ahead'
      BY <2>1, <2>2, <2>5 DEF Ahead, Owed
    <3> QED BY <2>3, <2>4, <3>1 DEF DebtOK
  <2>6. CASE ~written
    <3>1. Ahead => Ahead'
      BY <2>1, <2>2, <2>6, MoveAhead DEF Owed
    <3> QED BY <1>5, <2>3, <2>4, <2>6, <3>1, QuietDebt
  <2> QED BY <2>5, <2>6
<1> QED BY <1>3, <1>4, <1>5 DEF Store

LEMMA WindowInv == ASSUME Inv, NEW x \in runs, Window(x) PROVE Inv'
<1> DEFINE y == At(x, "reconcile", NextWindow, x.ok, x.due)
<1>1. /\ x.pc = "window" /\ NextWindow \in Windows
      /\ runs' = (runs \ {x}) \cup {y}
      /\ UNCHANGED <<mode, recv, log, job, row, now, reconcile, faults, lost, stuck>>
  BY DEF Window
<1>2. x \in Run /\ now \in Nat
  BY DEF Inv, TypeOK, Windows
<1>3. /\ y \in Run /\ y.d = x.d /\ y.by = x.by /\ y.due = x.due
      /\ y.pc = "reconcile" /\ y.w = NextWindow
  BY <1>1, <1>2 DEF At, Run
<1> HIDE DEF y
<1> USE <1>1, <1>2, <1>3 DEF Inv, reconcile
<1>4. rjob[NextWindow].state # "active"
  BY DEF ReconcileOK, NextWindow
<1>5. TypeOK'
  BY DEF TypeOK
<1>6. JobsOK'
  BY MoveJobs
<1>7. LogOK'
  BY DEF TypeOK, LogOK, Settled
<1>8. Ahead => Ahead'
  BY <1>4, MoveAhead DEF Owed
<1> QED BY <1>5, <1>6, <1>7, <1>8, QuietReconcile, QuietDebt

LEMMA EnqueueInv == ASSUME Inv, NEW x \in runs, Enqueue(x) PROVE Inv'
<1> DEFINE y == At(x, "finish", 0, x.ok, FALSE)
<1>1. /\ x.pc = "reconcile" /\ runs' = (runs \ {x}) \cup {y}
      /\ UNCHANGED <<mode, recv, log, job, row, now, rruns, agg, stuck>>
  BY DEF Enqueue
<1>2. x \in Run /\ x.w \in Windows /\ 0 \in Windows /\ x.ok \in BOOLEAN
  BY IntakeAssumption DEF Inv, TypeOK, Run, Windows
<1>3. y \in Run /\ y.d = x.d /\ y.by = x.by /\ y.pc = "finish" /\ ~y.due
  BY <1>2 DEF At, Run
<1> HIDE DEF y
<1> USE <1>1, <1>2, <1>3 DEF Inv
<1>4. JobsOK' /\ LogOK'
  BY MoveJobs, MoveLog
<1>5. CASE rjob[x.w].state = "none" /\ rjob' = [rjob EXCEPT ![x.w] = Fresh("waiting")]
           /\ UNCHANGED <<faults, lost>>
  <2>0. /\ Fresh("waiting") \in [state : JobState \ {"done"}, made : 0 .. ReconcileAttempts,
                                 stalls : 0 .. MaxStalled + 1]
        /\ Fresh("waiting").state = "waiting"
    BY FreshType DEF JobState
  <2>1. TypeOK'
    BY <1>5, <2>0 DEF TypeOK
  <2>2. ReconcileOK'
    BY <1>5, <2>0 DEF TypeOK, ReconcileOK, IsLiveR
  <2>3. Ahead'
    BY <1>5, <2>0 DEF TypeOK, Ahead
  <2> QED BY <1>4, <2>1, <2>2, <2>3 DEF DebtOK
<1>6. CASE rjob[x.w].state # "none" /\ UNCHANGED <<rjob, faults, lost>>
  <2>1. TypeOK' /\ ReconcileOK'
    BY <1>6, QuietReconcile DEF TypeOK
  <2>2. CASE rjob[x.w].state = "active"
    <3>1. Ahead => Ahead'
      BY <1>6, <2>2, MoveAhead DEF Owed
    <3> QED BY <1>4, <1>6, <2>1, <3>1, QuietDebt DEF reconcile
  <2>3. CASE rjob[x.w].state = "waiting"
    <3>1. Ahead'
      BY <1>6, <2>3 DEF Ahead
    <3> QED BY <1>4, <2>1, <3>1 DEF DebtOK
  <2>4. CASE rjob[x.w].state = "failed"
    <3>1. lost'
      BY <1>6, <2>4 DEF ReconcileOK
    <3> QED BY <1>4, <2>1, <3>1 DEF DebtOK
  <2> QED BY <1>6, <2>2, <2>3, <2>4 DEF TypeOK, JobState
<1>7. CASE Fault("redis") /\ lost' = TRUE /\ UNCHANGED rjob
  <2>1. TypeOK' /\ ReconcileOK'
    BY <1>7, QuietReconcile, FaultCounts DEF TypeOK
  <2> QED BY <1>4, <1>7, <2>1 DEF DebtOK
<1> QED BY <1>5, <1>6, <1>7 DEF Enqueue

LEMMA FinishInv == ASSUME Inv, NEW x \in runs, Finish(x) PROVE Inv'
<1>1. /\ x.pc = "finish" /\ ~x.due /\ x \in Run /\ x.d \in Deliveries
      /\ UNCHANGED <<mode, recv, row, now, reconcile, lost, stuck>>
  BY DEF Finish, Inv, TypeOK, JobsOK, Run
<1> USE <1>1 DEF Inv, reconcile
<1>2. CASE /\ Log(x.d, IF x.ok THEN "processed" ELSE "failed") /\ runs' = runs \ {x}
           /\ job' = (IF IsLive(x) THEN [job EXCEPT ![x.d] = Fresh("done")] ELSE job)
           /\ UNCHANGED faults
  <2>0. Fresh("done") \in Job /\ Fresh("done").state = "done"
    BY FreshType DEF JobState
  <2>1. /\ job' \in [Deliveries -> Job]
        /\ \A e \in Deliveries : e # x.d => job'[e] = job[e]
        /\ IsLive(x) => job[x.d].state = "active" /\ \A z \in runs' : IsLive(z) => z.d # x.d
        /\ ~IsLive(x) => job' = job
        /\ job'[x.d].state \in {"new", "add"} => FALSE
    BY <1>2, <2>0 DEF TypeOK, JobsOK, JobState, Job
  <2>2. TypeOK'
    BY <1>2, <2>1 DEF TypeOK, Log
  <2>3. JobsOK'
    <3>1. \A e \in Deliveries : recv'[e] \in {"new", "add"} => job'[e].state = "none"
      BY <1>2, <2>1 DEF JobsOK
    <3>2. \A z \in runs' : IsLive(z) => job'[z.d].state = "active"
      BY <1>2, <2>1 DEF JobsOK, TypeOK, Run
    <3> QED BY <1>2, <3>1, <3>2 DEF JobsOK, IsLive
  <2>4. LogOK'
    BY <1>2, <2>1 DEF TypeOK, JobsOK, LogOK, Settled, Log
  <2>5. Ahead => Ahead'
    <3>1. ASSUME NEW z \in runs, Owed(z) PROVE Ahead'
      BY <1>2, <3>1 DEF Ahead, Owed
    <3>2. ASSUME NEW e \in Deliveries, WillRetry(e) PROVE WillRetry(e)'
      <4>1. CASE IsLive(x)
        <5>1. e # x.d
          BY <2>1, <3>2, <4>1 DEF WillRetry
        <5> QED BY <1>2, <2>1, <3>2, <5>1 DEF WillRetry, Retried, IsLive
      <4>2. CASE ~IsLive(x)
        BY <1>2, <2>1, <3>2, <4>2 DEF WillRetry, Retried, IsLive
      <4> QED BY <4>1, <4>2
    <3> QED BY <3>1, <3>2 DEF Ahead
  <2> QED BY <2>2, <2>3, <2>4, <2>5, QuietReconcile, QuietDebt
<1>3. CASE Fault("database") /\ Move(x, "catch") /\ UNCHANGED log
  <2> DEFINE y == [x EXCEPT !.pc = "catch"]
  <2>0. y \in Run /\ y.d = x.d /\ y.by = x.by /\ y.pc = "catch" /\ y.due = x.due
    BY DEF Run
  <2>a. runs' = (runs \ {x}) \cup {y} /\ UNCHANGED job
    BY <1>3 DEF Move
  <2> HIDE DEF y
  <2>1. TypeOK'
    BY <1>3, <2>0, <2>a, FaultCounts DEF TypeOK
  <2>2. JobsOK' /\ LogOK'
    BY <1>3, <2>0, <2>a, MoveJobs, MoveLog
  <2>3. Ahead => Ahead'
    BY <2>0, <2>a, MoveAhead DEF Owed
  <2> QED BY <2>1, <2>2, <2>3, QuietReconcile, QuietDebt
<1> QED BY <1>2, <1>3 DEF Finish

LEMMA TimeoutInv == ASSUME Inv, NEW x \in runs, Timeout(x) PROVE Inv'
<1> DEFINE y == [x EXCEPT !.by = "late"]
<1>1. /\ IsLive(x) /\ Fault("timeout") /\ FailAttempt(x.d)
      /\ runs' = (runs \ {x}) \cup {y}
      /\ UNCHANGED <<mode, recv, log, row, now, reconcile, lost, stuck>>
  BY DEF Timeout
<1>2. x \in Run /\ x.d \in Deliveries
  BY DEF Inv, TypeOK, Run
<1>3. y \in Run /\ y.d = x.d /\ y.by = "late" /\ y.pc = x.pc /\ y.due = x.due /\ y.w = x.w
  BY <1>2 DEF Run
<1> HIDE DEF y
<1>4. /\ job' \in [Deliveries -> Job] /\ job[x.d].state = "active"
      /\ \A e \in Deliveries : e # x.d => job'[e] = job[e]
      /\ \A z \in runs' : IsLive(z) => z \in runs /\ z.d # x.d
  BY <1>1, <1>2, <1>3, FailAttemptEffect DEF Inv, JobsOK, IsLive
<1> USE <1>1, <1>2, <1>3, <1>4 DEF Inv, reconcile
<1>5. TypeOK'
  BY FaultCounts DEF TypeOK
<1>6. JobsOK'
  <2>1. \A e \in Deliveries : recv'[e] \in {"new", "add"} => job'[e].state = "none"
    BY DEF JobsOK
  <2>2. \A z \in runs' : IsLive(z) => job'[z.d].state = "active"
    BY DEF JobsOK, TypeOK, Run
  <2> QED BY <2>1, <2>2 DEF JobsOK, IsLive
<1>7. LogOK'
  <2>1. \E z \in runs' : z.d = x.d
    OBVIOUS
  <2> QED BY <2>1 DEF TypeOK, LogOK, Settled
<1>8. Ahead => Ahead'
  <2>1. ASSUME NEW z \in runs, Owed(z) PROVE Ahead'
    BY <2>1 DEF Ahead, Owed
  <2>2. ASSUME NEW e \in Deliveries, WillRetry(e) PROVE WillRetry(e)'
    <3>1. e # x.d
      BY <2>2 DEF WillRetry
    <3> QED BY <2>2, <3>1 DEF WillRetry, Retried, IsLive
  <2> QED BY <2>1, <2>2 DEF Ahead
<1> QED BY <1>5, <1>6, <1>7, <1>8, QuietReconcile, QuietDebt

-----------------------------------------------------------------------------
(* The reconcile queue.                                                     *)

LEMMA TickInv == ASSUME Inv, Tick PROVE Inv'
<1>1. /\ now \in Nat /\ now' = now + 1 /\ now' \in Windows
      /\ UNCHANGED <<mode, recv, log, job, runs, row, rjob, rruns, agg, faults, lost, stuck>>
  BY DEF Tick, NextWindow, Inv, TypeOK, Windows, ingest, reconcile
<1> USE <1>1 DEF Inv
<1>2. TypeOK'
  BY DEF TypeOK
<1>3. JobsOK' /\ LogOK'
  BY DEF JobsOK, LogOK, IsLive, Settled
<1>4. ReconcileOK'
  BY DEF ReconcileOK, IsLiveR, Windows
<1>5. Ahead => Ahead'
  BY DEF Ahead, Owed, WillRetry, Retried, IsLive
<1> QED BY <1>2, <1>3, <1>4, <1>5, QuietDebt DEF reconcile

\* What steps of the reconcile leave alone.
LEMMA IngestKept ==
    ASSUME Inv, UNCHANGED <<ingest, stuck>>
    PROVE  /\ JobsOK' /\ LogOK'
           /\ UNCHANGED <<recv, log, job, runs, row, stuck>>
           /\ \A d \in Deliveries : WillRetry(d)' <=> WillRetry(d)
BY DEF Inv, ingest, JobsOK, LogOK, Settled, WillRetry, Retried, IsLive

RJob == [state : JobState \ {"done"}, made : 0 .. ReconcileAttempts, stalls : 0 .. MaxStalled + 1]

\* Bull waits for one execution of a window's job, and of one window when reconciles
\* run one at a time.
LEMMA OneLive ==
    ASSUME Inv
    PROVE  /\ \A x, y \in rruns : IsLiveR(x) /\ IsLiveR(y) /\ x.w = y.w => x = y
           /\ Concurrency = 1 => \A x, y \in rruns : IsLiveR(x) /\ IsLiveR(y) => x = y
           /\ Concurrency = 1 => \A x \in rruns, w \in Windows :
                 rjob[w].state = "active" /\ IsLiveR(x) => x.w = w
<1>1. \A x \in rruns : x.w \in Windows
  BY DEF Inv, TypeOK, ReconcileRun
<1> QED BY <1>1 DEF Inv, ReconcileOK

LEMMA NoneActive ==
    ASSUME Cardinality({u \in Windows : rjob[u].state = "active"}) < 1
    PROVE  \A u \in Windows : rjob[u].state # "active"
<1> DEFINE S == {u \in Windows : rjob[u].state = "active"}
<1>1. IsFiniteSet(Windows)
  BY FS_Interval, IntakeAssumption DEF Windows
<1>2. IsFiniteSet(S)
  BY <1>1, FS_Subset
<1>3. Cardinality(S) \in Nat
  BY <1>2, FS_CardinalityType
<1>4. Cardinality(S) = 0
  BY <1>3
<1>5. S = {}
  BY <1>2, <1>4, FS_EmptySet
<1> QED BY <1>5

LEMMA TakeReconcileInv ==
    ASSUME Inv, NEW w \in Windows, TakeReconcile(w) PROVE Inv'
<1> DEFINE l == IF mode = "full_reset" THEN "reset" ELSE "read"
           n == [w |-> w, made |-> rjob[w].made, live |-> TRUE, saw |-> 0, pc |-> l]
<1>1. /\ rjob[w].state = "waiting" /\ w <= now
      /\ Cardinality({u \in Windows : rjob[u].state = "active"}) < Concurrency
      /\ rjob' = [rjob EXCEPT ![w].state = "active"]
      /\ rruns' = rruns \cup {n}
      /\ UNCHANGED <<mode, ingest, now, agg, faults, lost, stuck>>
  BY DEF TakeReconcile
<1>a. /\ n \in ReconcileRun /\ n.w = w /\ n.live
       /\ n.pc # "write" /\ (mode = "full_reset" => n.pc = "reset")
  BY DEF Inv, TypeOK, ReconcileRun
<1> HIDE DEF n
<1>2. PICK y \in ReconcileRun : /\ rruns' = rruns \cup {y} /\ y.w = w /\ y.live
                                /\ y.pc # "write" /\ (mode = "full_reset" => y.pc = "reset")
  BY <1>1, <1>a
<1>3. /\ rjob' \in [Windows -> RJob] /\ rjob'[w].state = "active"
      /\ \A u \in Windows : u # w => rjob'[u] = rjob[u]
  <2>1. rjob' = [rjob EXCEPT ![w] = [rjob[w] EXCEPT !.state = "active"]]
    BY <1>1
  <2>2. /\ [rjob[w] EXCEPT !.state = "active"] \in RJob
        /\ [rjob[w] EXCEPT !.state = "active"].state = "active"
    BY DEF Inv, TypeOK, RJob, JobState
  <2> QED BY <2>1, <2>2 DEF Inv, TypeOK, RJob
<1>b. \A x \in rruns : IsLiveR(x) => x.w # w
  BY <1>1 DEF Inv, ReconcileOK
<1>4. Concurrency = 1 => \A u \in Windows : rjob[u].state # "active"
  BY <1>1, NoneActive
<1> USE <1>1, <1>2, <1>3, <1>4, <1>b, IngestKept DEF Inv
<1>5. TypeOK'
  BY DEF TypeOK, RJob
<1>6. ReconcileOK'
  BY DEF ReconcileOK, IsLiveR
<1>7. DebtOK'
  <2> SUFFICES ASSUME Concurrency = 1 PROVE DebtOK'
    BY DEF DebtOK
  <2>1. \A x \in rruns' : IsLiveR(x)' => x = y
    BY DEF IsLiveR, TypeOK, ReconcileOK, ReconcileRun
  <2>2. Sees(y)'
    BY DEF Sees
  <2> QED BY <2>1, <2>2 DEF DebtOK
<1> QED BY <1>5, <1>6, <1>7

LEMMA StalledReconcileInv ==
    ASSUME Inv, NEW w \in Windows, StalledReconcile(w) PROVE Inv'
<1>1. /\ rjob[w].state = "active" /\ ~\E x \in rruns : x.w = w /\ IsLiveR(x)
      /\ UNCHANGED <<mode, ingest, now, rruns, agg, faults, stuck>>
  BY DEF StalledReconcile
<1>2. /\ Concurrency = 1 => \A x \in rruns : ~IsLiveR(x)
      /\ \A x \in rruns : IsLiveR(x) => x.w # w
  BY <1>1, OneLive
<1> USE <1>1, <1>2, IngestKept DEF Inv
<1>3. CASE /\ rjob[w].stalls < MaxStalled
           /\ rjob' = [rjob EXCEPT ![w] = Resumed(rjob[w])] /\ UNCHANGED lost
  <2>1. Resumed(rjob[w]) \in RJob /\ Resumed(rjob[w]).state = "waiting"
    BY <1>3, IntakeAssumption DEF Resumed, TypeOK, RJob, JobState
  <2> USE <1>3, <2>1
  <2>2. TypeOK'
    BY DEF TypeOK, RJob
  <2>3. ReconcileOK'
    BY DEF TypeOK, ReconcileOK, IsLiveR
  <2>4. Ahead'
    BY DEF TypeOK, Ahead
  <2> QED BY <2>2, <2>3, <2>4 DEF DebtOK
<1>4. CASE rjob' = [rjob EXCEPT ![w] = Fresh("failed")] /\ lost' = TRUE
  <2>1. Fresh("failed") \in RJob /\ Fresh("failed").state = "failed"
    BY FreshType DEF JobState, RJob
  <2> USE <1>4, <2>1
  <2>2. TypeOK'
    BY DEF TypeOK, RJob
  <2>3. ReconcileOK'
    BY DEF TypeOK, ReconcileOK, IsLiveR
  <2> QED BY <2>2, <2>3 DEF DebtOK
<1> QED BY <1>3, <1>4 DEF StalledReconcile

-----------------------------------------------------------------------------
(* The reconcile.                                                           *)

LEMMA EmptyType == Empty \in [Places -> Versions \cup {0}] /\ \A p \in Places : Empty[p] = 0
BY DEF Empty

\* A reconcile that goes on is one of the same job, and Bull waits for it as before.
LEMMA MoveRType ==
    ASSUME NEW x \in ReconcileRun, NEW l \in {"read", "write"}, NEW v \in Versions \cup {0},
           MoveR(x, l, v)
    PROVE  \E y \in ReconcileRun : /\ rruns' = (rruns \ {x}) \cup {y}
                                   /\ y.w = x.w /\ y.live = x.live /\ y.pc = l /\ y.saw = v
<1> DEFINE y == [w |-> x.w, made |-> x.made, live |-> x.live, pc |-> l, saw |-> v]
<1>1. y \in ReconcileRun /\ y.w = x.w /\ y.live = x.live /\ y.pc = l /\ y.saw = v
  BY DEF ReconcileRun
<1>2. rruns' = (rruns \ {x}) \cup {y}
  BY DEF MoveR
<1> HIDE DEF y
<1> QED BY <1>1, <1>2

LEMMA ResetInv == ASSUME Inv, NEW x \in rruns, Reset(x) PROVE Inv'
<1>1. /\ agg' = Empty /\ MoveR(x, "read", 0) /\ lost' = (lost \/ ~IsLiveR(x))
      /\ UNCHANGED <<mode, ingest, now, rjob, faults, stuck>>
  BY DEF Reset
<1>2. x \in ReconcileRun /\ x.w \in Windows /\ x.live \in BOOLEAN
  BY DEF Inv, TypeOK, ReconcileRun
<1>3. PICK y \in ReconcileRun : /\ rruns' = (rruns \ {x}) \cup {y}
                                /\ y.w = x.w /\ y.live = x.live /\ y.pc = "read" /\ y.saw = 0
  BY <1>1, <1>2, MoveRType
<1> USE <1>1, <1>2, <1>3, IngestKept, EmptyType DEF Inv
<1>4. TypeOK'
  BY DEF TypeOK, IsLiveR
<1>5. ReconcileOK'
  <2>1. \A z \in rruns' : IsLiveR(z) => z = y \/ (z \in rruns /\ z # x)
    BY DEF IsLiveR
  <2>2. IsLiveR(y) <=> IsLiveR(x)
    BY DEF IsLiveR
  <2>3. \A z, u \in rruns' : IsLiveR(z) /\ IsLiveR(u) /\ z.w = u.w => z = u
    BY <2>1, <2>2, OneLive
  <2> QED BY <2>1, <2>2, <2>3 DEF ReconcileOK, IsLiveR
<1>6. DebtOK'
  <2> SUFFICES ASSUME Concurrency = 1, ~lost' PROVE DebtOK'
    BY DEF DebtOK
  <2>1. IsLiveR(x) /\ rjob'[x.w].state = "active"
    BY DEF ReconcileOK
  <2>2. \A z \in rruns' : IsLiveR(z)' => z = y
    BY <2>1, OneLive DEF IsLiveR
  <2>3. Sees(y)'
    BY DEF Sees, AtRow
  <2> QED BY <2>1, <2>2, <2>3 DEF DebtOK
<1> QED BY <1>4, <1>5, <1>6

LEMMA ReadInv == ASSUME Inv, NEW x \in rruns, Read(x) PROVE Inv'
<1>1. /\ x.pc = "read" /\ MoveR(x, "write", row)
      /\ UNCHANGED <<mode, ingest, now, rjob, agg, faults, lost, stuck>>
  BY DEF Read
<1>2. x \in ReconcileRun /\ x.w \in Windows /\ x.live \in BOOLEAN /\ row \in Versions \cup {0}
  BY DEF Inv, TypeOK, ReconcileRun
<1>3. PICK y \in ReconcileRun : /\ rruns' = (rruns \ {x}) \cup {y}
                                /\ y.w = x.w /\ y.live = x.live /\ y.pc = "write" /\ y.saw = row
  BY <1>1, <1>2, MoveRType
<1> USE <1>1, <1>2, <1>3, IngestKept DEF Inv
<1>4. TypeOK'
  BY DEF TypeOK
<1>5. ReconcileOK'
  BY DEF ReconcileOK, IsLiveR
<1>6. DebtOK'
  <2> SUFFICES ASSUME Concurrency = 1, ~lost', ~Ahead'
               PROVE  /\ ~Counted' => \E w \in Windows : rjob'[w].state = "active"
                      /\ \A z \in rruns' : IsLiveR(z)' => Sees(z)'
    BY DEF DebtOK
  <2>1. ~lost /\ ~Ahead
    BY DEF Ahead, Owed
  <2>2. /\ ~Counted => \E w \in Windows : rjob[w].state = "active"
        /\ \A z \in rruns : IsLiveR(z) => Sees(z)
    BY <2>1 DEF DebtOK
  <2>3. Counted' <=> Counted
    BY DEF Counted, Rewritten
  <2>4. ASSUME NEW z \in rruns, IsLiveR(z) PROVE Sees(z)'
    BY <2>2, <2>4 DEF Sees, AtRow
  <2>5. IsLiveR(x) => Sees(y)'
    BY <2>2 DEF Sees, AtRow
  <2> QED BY <2>2, <2>3, <2>4, <2>5 DEF IsLiveR
<1> QED BY <1>4, <1>5, <1>6

LEMMA WriteInv == ASSUME Inv, NEW x \in rruns, Write(x) PROVE Inv'
<1> DEFINE new == [p \in Places |-> IF x.saw # 0 /\ PlaceOf[x.saw] = p THEN x.saw
                                   ELSE IF p \in Insights THEN 0 ELSE agg[p]]
<1>1. /\ x.pc = "write" /\ rruns' = rruns \ {x}
      /\ agg' = new
      /\ rjob' = (IF IsLiveR(x) THEN [rjob EXCEPT ![x.w] = Fresh("none")] ELSE rjob)
      /\ lost' = (lost \/ (~IsLiveR(x) /\ x.saw # row))
      /\ UNCHANGED <<mode, ingest, now, faults, stuck>>
  BY DEF Write, Recomputed
<1>2. /\ x \in ReconcileRun /\ x.w \in Windows /\ x.saw \in Versions \cup {0} /\ x.live \in BOOLEAN
      /\ row \in Versions \cup {0}
  BY DEF Inv, TypeOK, ReconcileRun
<1>3. /\ new \in [Places -> Versions \cup {0}]
      /\ \A p \in Places : new[p] = IF x.saw # 0 /\ PlaceOf[x.saw] = p THEN x.saw
                                   ELSE IF p \in Insights THEN 0 ELSE agg[p]
  BY <1>2 DEF Inv, TypeOK
<1>4. Fresh("none") \in RJob /\ Fresh("none").state = "none"
  BY FreshType DEF JobState, RJob
<1> HIDE DEF new
<1> USE <1>1, <1>2, <1>3, <1>4, IngestKept DEF Inv
<1>5. TypeOK'
  BY DEF TypeOK, RJob, IsLiveR
<1>6. ReconcileOK'
  BY DEF TypeOK, ReconcileOK, IsLiveR
<1>7. Ahead => Ahead'
  <2>1. ASSUME NEW z \in runs, Owed(z) PROVE Owed(z)'
    <3>1. z.w \in Windows
      BY DEF TypeOK, Run
    <3> QED BY <2>1, <3>1 DEF TypeOK, Owed
  <2>2. ASSUME NEW w \in Windows, rjob[w].state = "waiting" PROVE rjob'[w].state = "waiting"
    BY <2>2 DEF TypeOK, ReconcileOK
  <2> QED BY <2>1, <2>2 DEF Ahead
<1>8. ASSUME Concurrency = 1, ~lost', ~Ahead'
      PROVE  /\ ~Counted' => \E w \in Windows : rjob'[w].state = "active"
             /\ \A z \in rruns' : IsLiveR(z)' => Sees(z)'
  <2>1. /\ ~Counted => \E w \in Windows : rjob[w].state = "active"
        /\ \A z \in rruns : IsLiveR(z) => Sees(z)
    BY <1>7, <1>8 DEF DebtOK
  <2>2. x.saw = row
    BY <1>8, <2>1 DEF Sees
  <2>3. AtRow => AtRow'
    BY <2>2 DEF AtRow
  <2>4. CASE IsLiveR(x)
    <3>1. \A z \in rruns' : ~IsLiveR(z)'
      BY <1>8, <2>4, OneLive DEF IsLiveR
    <3>2. mode = "full_reset" => AtRow'
      BY <2>1, <2>3, <2>4 DEF Sees
    <3>3. Counted'
      BY <2>2, <3>2 DEF Counted, Rewritten, AtRow
    <3> QED BY <3>1, <3>3
  <2>5. CASE ~IsLiveR(x)
    <3>1. Counted => Counted'
      BY <2>2, <2>3 DEF Counted, Rewritten, AtRow
    <3>2. ASSUME NEW z \in rruns, IsLiveR(z) PROVE Sees(z)'
      BY <2>1, <2>3, <3>2 DEF Sees
    <3> QED BY <2>1, <2>5, <3>1, <3>2 DEF IsLiveR
  <2> QED BY <2>4, <2>5
<1> QED BY <1>5, <1>6, <1>8 DEF DebtOK

LEMMA FailReconcileEffect ==
    ASSUME Inv, NEW w \in Windows, FailReconcile(w)
    PROVE  /\ rjob' \in [Windows -> RJob] /\ lost' \in BOOLEAN /\ (lost => lost')
           /\ \A u \in Windows : u # w => rjob'[u] = rjob[u]
           /\ rjob'[w].state = IF LastReconcile(w) THEN "failed" ELSE "waiting"
           /\ LastReconcile(w) => lost'
<1>1. rjob[w] \in RJob /\ rjob \in [Windows -> RJob] /\ lost \in BOOLEAN
  BY DEF Inv, TypeOK, RJob
<1>2. Fresh("failed") \in RJob /\ Fresh("failed").state = "failed"
  BY FreshType DEF JobState, RJob
<1>3. ~LastReconcile(w) => Again(rjob[w]) \in RJob
  BY <1>1, IntakeAssumption DEF Again, RJob, LastReconcile, JobState
<1>4. Again(rjob[w]).state = "waiting"
  BY DEF Again
<1>5. /\ rjob' = [rjob EXCEPT ![w] = IF LastReconcile(w) THEN Fresh("failed") ELSE Again(rjob[w])]
      /\ lost' = (lost \/ LastReconcile(w))
  BY DEF FailReconcile
<1>6. lost' \in BOOLEAN /\ (lost => lost') /\ (LastReconcile(w) => lost')
  BY <1>1, <1>5 DEF LastReconcile
<1> QED BY <1>1, <1>2, <1>3, <1>4, <1>5, <1>6

\* An attempt that Bull waits for fails: the job is tried again, or the change is lost.
LEMMA FailReconcileInv ==
    ASSUME Inv, NEW x \in rruns, IsLiveR(x), FailReconcile(x.w),
           rruns' \in SUBSET ReconcileRun, \A y \in rruns' : ~y.live \/ (y \in rruns /\ y # x),
           faults' \in Nat, UNCHANGED <<mode, ingest, now, agg, stuck>>
    PROVE  Inv'
<1>1. x \in ReconcileRun /\ x.w \in Windows /\ rjob[x.w].state = "active"
  BY DEF Inv, TypeOK, ReconcileOK, ReconcileRun
<1>2. \A y \in rruns' : y.live => y \in rruns /\ y.w # x.w /\ y.w \in Windows
  BY OneLive DEF IsLiveR, ReconcileRun
<1> USE <1>1, <1>2, IngestKept, FailReconcileEffect DEF Inv
<1>3. TypeOK'
  BY DEF TypeOK, RJob
<1>4. ReconcileOK'
  BY DEF ReconcileOK, IsLiveR
<1>5. Ahead' \/ lost'
  BY DEF Ahead
<1> QED BY <1>3, <1>4, <1>5 DEF DebtOK

LEMMA ReconcileThrowsInv == ASSUME Inv, NEW x \in rruns, ReconcileThrows(x) PROVE Inv'
<1>1. /\ faults' \in Nat /\ rruns' = rruns \ {x} /\ UNCHANGED <<mode, ingest, now, agg, stuck>>
  BY FaultCounts DEF ReconcileThrows, Inv, TypeOK
<1>2. CASE IsLiveR(x)
  <2>1. FailReconcile(x.w)
    BY <1>2 DEF ReconcileThrows
  <2> QED BY <1>1, <1>2, <2>1, FailReconcileInv DEF Inv, TypeOK
<1>3. CASE ~IsLiveR(x)
  <2>1. UNCHANGED <<rjob, lost>>
    BY <1>3 DEF ReconcileThrows
  <2> USE <1>1, <2>1, IngestKept DEF Inv
  <2>2. TypeOK'
    BY DEF TypeOK
  <2>3. ReconcileOK'
    BY DEF ReconcileOK, IsLiveR
  <2>4. Ahead => Ahead'
    BY DEF Ahead, Owed
  <2>5. Counted' <=> Counted
    BY DEF Counted, Rewritten
  <2>6. \A z \in rruns' : z \in rruns /\ (Sees(z)' <=> Sees(z)) /\ (IsLiveR(z)' <=> IsLiveR(z))
    BY DEF Sees, AtRow, IsLiveR
  <2>7. DebtOK'
    BY <2>4, <2>5, <2>6 DEF DebtOK
  <2> QED BY <2>2, <2>3, <2>7
<1> QED BY <1>2, <1>3

LEMMA ReconcileTimeoutInv == ASSUME Inv, NEW x \in rruns, ReconcileTimeout(x) PROVE Inv'
<1> DEFINE y == [x EXCEPT !.live = FALSE]
<1>1. /\ IsLiveR(x) /\ FailReconcile(x.w) /\ faults' \in Nat
      /\ rruns' = (rruns \ {x}) \cup {y} /\ UNCHANGED <<mode, ingest, now, agg, stuck>>
  BY FaultCounts DEF ReconcileTimeout, Inv, TypeOK
<1>2. y \in ReconcileRun /\ ~y.live
  BY DEF Inv, TypeOK, ReconcileRun
<1> HIDE DEF y
<1> QED BY <1>1, <1>2, FailReconcileInv DEF Inv, TypeOK

-----------------------------------------------------------------------------
(* Processes that stop.                                                     *)

LEMMA ApiCrashInv == ASSUME Inv, ApiCrash PROVE Inv'
<1>1. /\ faults' \in Nat
      /\ recv' = [d \in Deliveries |-> IF recv[d] = "new" THEN "new" ELSE "done"]
      /\ runs' = {x \in runs : x.by # "request"}
      /\ lost' = (lost \/ \E x \in runs : x.by = "request" /\ x.due)
      /\ stuck' = stuck \cup {d \in Deliveries : \/ recv[d] \notin {"new", "done"}
                                                 \/ \E x \in runs : x.by = "request" /\ x.d = d}
      /\ UNCHANGED <<mode, log, job, row, now, reconcile>>
  BY FaultCounts DEF ApiCrash, Inv, TypeOK
<1>2. lost' \in BOOLEAN /\ (lost => lost')
  BY <1>1 DEF Inv, TypeOK
<1> USE <1>1, <1>2 DEF Inv, reconcile
<1>3. TypeOK'
  BY DEF TypeOK
<1>4. JobsOK'
  <2>1. \A x \in runs : x.d \in Deliveries
    BY DEF TypeOK, Run
  <2> QED BY <2>1 DEF TypeOK, JobsOK, IsLive
<1>5. LogOK'
  <2>1. \A d \in Deliveries : recv'[d] = "new" => log'[d] = "none"
    BY DEF LogOK
  <2>2. ASSUME NEW d \in Deliveries \ stuck'
        PROVE  \/ recv'[d] \notin {"done", "mark"} \/ Settled(d)'
               \/ job'[d].state \in {"waiting", "active"} \/ \E x \in runs' : x.d = d
    <3>1. d \notin stuck /\ recv[d] \in {"new", "done"} /\ ~\E x \in runs : x.by = "request" /\ x.d = d
      BY <2>2
    <3> QED BY <3>1 DEF LogOK, Settled
  <2> QED BY <2>1, <2>2 DEF LogOK
<1>6. Ahead => Ahead' \/ lost'
  <2>1. ASSUME NEW x \in runs, Owed(x) PROVE Ahead' \/ lost'
    BY <2>1 DEF Ahead, Owed
  <2>2. ASSUME NEW d \in Deliveries, WillRetry(d) PROVE Ahead'
    BY <2>2 DEF Ahead, WillRetry, Retried, IsLive
  <2> QED BY <2>1, <2>2 DEF Ahead
<1> QED BY <1>3, <1>4, <1>5, <1>6, QuietReconcile, QuietDebt

LEMMA WorkerCrashInv == ASSUME Inv, WorkerCrash PROVE Inv'
<1>1. /\ faults' \in Nat /\ rruns' = {}
      /\ runs' = {x \in runs : x.by = "request"}
      /\ lost' = (lost \/ \E x \in runs : x.by = "late" /\ x.due)
      /\ stuck' = stuck \cup {x.d : x \in {y \in runs : y.by = "late"}}
      /\ UNCHANGED <<mode, recv, log, job, row, now, rjob, agg>>
  BY FaultCounts DEF WorkerCrash, Inv, TypeOK
<1>2. lost' \in BOOLEAN /\ (lost => lost')
  BY <1>1 DEF Inv, TypeOK
<1>3. \A x \in runs : x.d \in Deliveries /\ x.by \in {"job", "late", "request"}
  BY DEF Inv, TypeOK, Run
<1> USE <1>1, <1>2, <1>3 DEF Inv
<1>4. TypeOK'
  BY DEF TypeOK
<1>5. JobsOK'
  BY DEF JobsOK, IsLive
<1>6. LogOK'
  <2>1. ASSUME NEW d \in Deliveries \ stuck'
        PROVE  \/ recv'[d] \notin {"done", "mark"} \/ Settled(d)'
               \/ job'[d].state \in {"waiting", "active"} \/ \E x \in runs' : x.d = d
    <3>1. d \notin stuck /\ \A x \in runs : x.by = "late" => x.d # d
      BY <2>1
    <3>2. ASSUME NEW x \in runs, x.d = d PROVE x \in runs' \/ job[d].state = "active"
      BY <3>1, <3>2 DEF JobsOK, IsLive
    <3> QED BY <3>1, <3>2 DEF LogOK, Settled
  <2> QED BY <2>1 DEF LogOK
<1>7. ReconcileOK'
  BY DEF ReconcileOK
<1>8. Ahead => Ahead' \/ lost'
  <2>0. \A x \in runs' : ~IsLive(x)
    BY DEF IsLive
  <2>1. ASSUME NEW x \in runs, Owed(x) PROVE Ahead' \/ lost'
    <3>1. CASE x.by = "job"
      <4>1. job[x.d].state = "active"
        BY <3>1 DEF JobsOK, IsLive
      <4>2. WillRetry(x.d)'
        BY <2>0, <4>1 DEF WillRetry, IsLive
      <4> QED BY <4>2 DEF Ahead
    <3>2. CASE x.by = "late"
      BY <2>1, <3>2 DEF Owed
    <3>3. CASE x.by = "request"
      BY <2>1, <3>3 DEF Ahead, Owed
    <3> QED BY <3>1, <3>2, <3>3
  <2>2. ASSUME NEW d \in Deliveries, WillRetry(d) PROVE Ahead'
    BY <2>0, <2>2 DEF Ahead, WillRetry, Retried, IsLive
  <2> QED BY <2>1, <2>2 DEF Ahead
<1>9. DebtOK'
  <2>1. Counted' <=> Counted
    BY DEF Counted, Rewritten
  <2> QED BY <1>8, <2>1 DEF DebtOK
<1> QED BY <1>4, <1>5, <1>6, <1>7, <1>9

-----------------------------------------------------------------------------
(* The invariant, and what follows from it.                                  *)

LEMMA InitInv == Init => Inv
<1> SUFFICES ASSUME Init PROVE Inv
  OBVIOUS
<1>0. /\ Fresh("none") \in Job /\ Fresh("none") \in RJob /\ Fresh("none").state = "none"
      /\ 0 \in Windows
  BY FreshType, IntakeAssumption DEF JobState, RJob, Windows
<1>1. /\ job = [d \in Deliveries |-> Fresh("none")] /\ rjob = [w \in Windows |-> Fresh("none")]
      /\ recv = [d \in Deliveries |-> "new"] /\ log = [d \in Deliveries |-> "none"]
      /\ mode \in Modes /\ runs = {} /\ rruns = {} /\ agg = Empty /\ row = 0 /\ now = 0
      /\ faults = 0 /\ lost = FALSE /\ stuck = {}
  BY DEF Init
<1>2. TypeOK
  BY <1>0, <1>1, EmptyType DEF TypeOK, RJob
<1>3. JobsOK /\ LogOK
  BY <1>0, <1>1 DEF JobsOK, LogOK
<1>4. ReconcileOK
  BY <1>0, <1>1 DEF ReconcileOK
<1>5. Counted
  BY <1>1, EmptyType DEF Counted, Rewritten
<1> QED BY <1>1, <1>2, <1>3, <1>4, <1>5 DEF Inv, DebtOK

LEMMA StutterInv == ASSUME Inv, UNCHANGED vars PROVE Inv'
<1>1. UNCHANGED <<mode, recv, log, job, runs, row, now, rjob, rruns, agg, faults, lost, stuck>>
  BY DEF vars, ingest, reconcile
<1> USE <1>1 DEF Inv
<1>2. TypeOK'
  BY DEF TypeOK
<1>3. JobsOK' /\ LogOK'
  BY DEF JobsOK, LogOK, IsLive, Settled
<1>4. Ahead => Ahead'
  BY DEF Ahead, Owed, WillRetry, Retried, IsLive
<1> QED BY <1>2, <1>3, <1>4, QuietReconcile, QuietDebt DEF reconcile

LEMMA NextInv == Inv /\ [Next]_vars => Inv'
<1> SUFFICES ASSUME Inv, [Next]_vars PROVE Inv'
  OBVIOUS
<1>1. ASSUME NEW d \in Deliveries, Receive(d) \/ Answer(d) \/ Take(d) \/ Stalled(d) PROVE Inv'
  BY <1>1, ReceiveInv, QueueAddInv, MarkInv, RefuseInv, InlineInv, TakeInv, StalledInv DEF Answer
<1>2. ASSUME NEW x \in runs, Process(x) \/ Timeout(x) PROVE Inv'
  BY <1>2, BeginInv, StoreInv, WindowInv, EnqueueInv, FinishInv, CatchInv, TimeoutInv DEF Process
<1>3. ASSUME NEW w \in Windows, TakeReconcile(w) \/ StalledReconcile(w) PROVE Inv'
  BY <1>3, TakeReconcileInv, StalledReconcileInv
<1>4. ASSUME NEW x \in rruns, Aggregate(x) \/ ReconcileThrows(x) \/ ReconcileTimeout(x) PROVE Inv'
  BY <1>4, ResetInv, ReadInv, WriteInv, ReconcileThrowsInv, ReconcileTimeoutInv DEF Aggregate
<1> QED BY <1>1, <1>2, <1>3, <1>4, TickInv, ApiCrashInv, WorkerCrashInv, StutterInv DEF Next, Work

LEMMA InvariantHolds == Spec => []Inv
BY InitInv, NextInv, PTL DEF Spec

\* Every variable of the intake stays in its type.
THEOREM TypeCorrect == Spec => []TypeOK
<1>1. Inv => TypeOK
  BY DEF Inv
<1> QED BY <1>1, InvariantHolds, PTL

\* However many deliveries arrive, and whichever of their steps fail, time out or
\* stop, somebody settles a log that is open, or it is one of those set aside.
THEOREM OpenLogsAreWorkedOn == Spec => []OpenLogHasWork
<1>1. Inv => OpenLogHasWork
  <2> SUFFICES ASSUME Inv, NEW d \in Deliveries \ stuck,
                      log[d] \in {"received", "queued", "processing"}, recv[d] \in {"new", "done"}
               PROVE  job[d].state \in {"waiting", "active"} \/ \E x \in runs : x.d = d
    BY DEF OpenLogHasWork
  <2> QED BY DEF Inv, LogOK, Settled
<1> QED BY <1>1, InvariantHolds, PTL

\* A change of the row that is not counted has a reconcile ahead of it or under way
\* that will count it: a payload may rely on a job it finds under the window's id.
\* It takes a worker that runs one reconcile at a time, which is the default.
THEOREM ChangesAreReconciled ==
    ASSUME Concurrency = 1 PROVE Spec => []ChangeHasReconcile
<1>1. Inv => ChangeHasReconcile
  <2> SUFFICES ASSUME Inv, ~Counted, ~lost
               PROVE  \/ \E x \in runs : x.due
                      \/ \E d \in Deliveries : WillRetry(d)
                      \/ \E w \in Windows : WillCount(w)
    BY DEF ChangeHasReconcile
  <2>1. CASE Ahead
    BY <2>1 DEF Ahead, Owed, WillCount
  <2>2. CASE ~Ahead
    <3>1. PICK w \in Windows : rjob[w].state = "active"
      BY <2>2 DEF Inv, DebtOK
    <3>2. WillCount(w)
      BY <2>2, <3>1 DEF Inv, DebtOK, WillCount, Sees
    <3> QED BY <3>2
  <2> QED BY <2>1, <2>2
<1> QED BY <1>1, InvariantHolds, PTL
=============================================================================
