----------------------------- MODULE PancakeIntake -----------------------------
(***************************************************************************)
(* Webhook deliveries for one order of one tenant on their way into           *)
(* pos_orders and from there into the aggregates of its day                  *)
(* (apps/api/src/modules/integrations): the receiver, the ingest queue, the   *)
(* processing of a payload by a worker or inline, the windowed reconcile jobs *)
(* and the reconcile itself.                                                 *)
(*                                                                         *)
(* A payload is the version of the order that it carries; a reconcile counts  *)
(* the order in the place that its version says: under its ad, as an          *)
(* unmatched order, or nowhere.                                              *)
(***************************************************************************)
EXTENDS Naturals, FiniteSets

CONSTANTS
    Deliveries,         \* HTTP requests of Pancake
    VersionOf,          \* the version of the order in each
    Places,             \* keys of reconcile_marketing
    PlaceOf,            \* where a version is counted: a place, or Nowhere
    Insights,           \* the places that are ads with Meta insights of the day
    Modes,              \* reconcile modes: "incremental", "full_reset"
    Fallbacks,          \* when the queue fails: "inline", "refuse" (a setting)
    Attempts,           \* attempts of an ingest job
    ReconcileAttempts,  \* attempts of a reconcile job
    MaxStalled,         \* Bull's maxStalledCount
    Concurrency,        \* reconciles that the worker runs at a time (a setting, 1)
    Faults, MaxFaults,  \* what may fail, and how often in all
    MaxWindow           \* bound on the reconcile windows

FaultKinds == {"redis", "database", "routing", "timeout", "workerCrash", "apiCrash"}
Nowhere == "nowhere"
Versions == {VersionOf[d] : d \in Deliveries}

ASSUME IntakeAssumption ==
    /\ VersionOf \in [Deliveries -> Nat \ {0}]
    /\ PlaceOf \in [Versions -> Places \cup {Nowhere}] /\ Insights \subseteq Places
    /\ Modes \subseteq {"incremental", "full_reset"}
    /\ Fallbacks \subseteq {"inline", "refuse"} /\ Faults \subseteq FaultKinds
    /\ Attempts \in Nat \ {0} /\ ReconcileAttempts \in Nat \ {0}
    /\ MaxStalled \in Nat /\ Concurrency \in Nat \ {0} /\ MaxFaults \in Nat /\ MaxWindow \in Nat

VARIABLES
    mode,    \* the tenant's reconcile mode
    recv,    \* where the receiver of each delivery is
    log,     \* pancake_webhook_logs.processStatus
    job,     \* the ingest job under the log's id
    runs,    \* executions of processPancakeWebhookPayload
    row,     \* the version in pos_orders, 0: no row
    now,     \* the current reconcile window
    rjob,    \* the reconcile job under each window's jobId
    rruns,   \* executions of handleReconcile
    agg,     \* the version counted in each place, 0: none
    faults,
    lost,    \* history: a change of the row was left to a later reconcile
    stuck    \* history: logs nobody was left to settle

ingest == <<recv, log, job, runs, row>>
reconcile == <<rjob, rruns, agg>>
vars == <<mode, ingest, now, reconcile, faults, lost, stuck>>

-----------------------------------------------------------------------------
Windows == 0 .. MaxWindow
JobState == {"none", "waiting", "active", "failed", "done"}
Job == [state : JobState, made : 0 .. Attempts, stalls : 0 .. MaxStalled + 1]
Run == [d : Deliveries, by : {"job", "late", "request"}, made : 0 .. Attempts,
        pc : {"begin", "store", "window", "reconcile", "finish", "catch"},
        w : Windows, ok : BOOLEAN, due : BOOLEAN]
ReconcileRun == [w : Windows, made : 0 .. ReconcileAttempts, live : BOOLEAN,
                 pc : {"reset", "read", "write"}, saw : Versions \cup {0}]

TypeOK ==
    /\ mode \in Modes
    /\ recv \in [Deliveries -> {"new", "add", "mark", "refuse", "inline", "done"}]
    /\ log \in [Deliveries -> {"none", "received", "refused", "queued", "processing",
                               "processed", "failed"}]
    /\ job \in [Deliveries -> Job]
    /\ runs \in SUBSET Run
    /\ row \in Versions \cup {0} /\ now \in Windows
    /\ rjob \in [Windows -> [state : JobState \ {"done"}, made : 0 .. ReconcileAttempts,
                             stalls : 0 .. MaxStalled + 1]]
    /\ rruns \in SUBSET ReconcileRun
    /\ agg \in [Places -> Versions \cup {0}]
    /\ faults \in Nat /\ lost \in BOOLEAN /\ stuck \in SUBSET Deliveries

Fault(f) == f \in Faults /\ faults < MaxFaults /\ faults' = faults + 1

\* A job as it is added, after an attempt that failed, and after one that stalled.
Fresh(s) == [state |-> s, made |-> 0, stalls |-> 0]
Again(j) == [state |-> "waiting", made |-> j.made + 1, stalls |-> j.stalls]
Resumed(j) == [state |-> "waiting", made |-> j.made, stalls |-> j.stalls + 1]

Empty == [p \in Places |-> 0]

Init ==
    /\ mode \in Modes
    /\ recv = [d \in Deliveries |-> "new"] /\ log = [d \in Deliveries |-> "none"]
    /\ job = [d \in Deliveries |-> Fresh("none")]
    /\ runs = {} /\ row = 0 /\ now = 0
    /\ rjob = [w \in Windows |-> Fresh("none")]
    /\ rruns = {} /\ agg = Empty
    /\ faults = 0 /\ lost = FALSE /\ stuck = {}

-----------------------------------------------------------------------------
(* receivePancakeOrderWebhook.                                              *)

Goto(d, l) == recv' = [recv EXCEPT ![d] = l]
Log(d, s) == log' = [log EXCEPT ![d] = s]

\* The log row, and the refusals: unknown tenant, webhook disabled, wrong key.
Receive(d) ==
    /\ recv[d] = "new"
    /\ \/ Goto(d, "add") /\ Log(d, "received")
       \/ Goto(d, "done") /\ Log(d, "refused")
    /\ UNCHANGED <<mode, job, runs, row, now, reconcile, faults, lost, stuck>>

\* Queue.add under the log's id.
QueueAdd(d) ==
    /\ recv[d] = "add"
    /\ \/ /\ job' = [job EXCEPT ![d] = Fresh("waiting")]
          /\ Goto(d, "mark")
          /\ UNCHANGED faults
       \/ /\ Fault("redis")
          /\ \E l \in Fallbacks : Goto(d, l)
          /\ UNCHANGED job
    /\ UNCHANGED <<mode, log, runs, row, now, reconcile, lost, stuck>>

Settled(d) == log[d] \in {"processed", "failed", "refused"}

\* The log is set to QUEUED after the add, whatever the worker has made of it.  A
\* failure here counts as a failure of the add.
Mark(d) ==
    /\ recv[d] = "mark"
    /\ \/ /\ Log(d, "queued") /\ Goto(d, "done")
          /\ stuck' = IF Settled(d) THEN stuck \cup {d} ELSE stuck
          /\ UNCHANGED faults
       \/ /\ Fault("database")
          /\ \E l \in Fallbacks : Goto(d, l)
          /\ UNCHANGED <<log, stuck>>
    /\ UNCHANGED <<mode, job, runs, row, now, reconcile, lost>>

\* Mutant: the sender is told, the log is not.
RefuseOnly(d) ==
    /\ recv[d] = "refuse"
    /\ Goto(d, "done")
    /\ UNCHANGED <<mode, log, job, runs, row, now, reconcile, faults, lost, stuck>>

\* QUEUE_UNAVAILABLE.
Refuse(d) ==
    /\ recv[d] = "refuse"
    /\ Goto(d, "done")
    /\ \/ Log(d, "failed") /\ UNCHANGED <<faults, stuck>>
       \/ Fault("database") /\ stuck' = stuck \cup {d} /\ UNCHANGED log
    /\ UNCHANGED <<mode, job, runs, row, now, reconcile, lost>>

\* An earlier attempt may have stored the order.
Retried(d) == job[d].made > 0 \/ job[d].stalls > 0

\* An execution for its job or for a request.  due: the row has changed, and
\* neither it nor an earlier attempt has queued the reconcile.
NewRun(d, by, l) == [d |-> d, by |-> by, made |-> job[d].made, pc |-> l, w |-> 0,
                     ok |-> TRUE, due |-> by = "job" /\ Retried(d)]

\* Inline processing starts; the update before the try block may throw.
Inline(d) ==
    /\ recv[d] = "inline"
    /\ Goto(d, "done")
    /\ \/ /\ Log(d, "processing")
          /\ runs' = runs \cup {NewRun(d, "request", "store")}
          /\ UNCHANGED <<faults, stuck>>
       \/ /\ Fault("database")
          /\ stuck' = stuck \cup {d}
          /\ UNCHANGED <<log, runs>>
    /\ UNCHANGED <<mode, job, row, now, reconcile, lost>>

-----------------------------------------------------------------------------
(* The ingest queue.                                                        *)

\* The execution that Bull waits for; one that timed out is late.
IsLive(x) == x.by = "job"

Take(d) ==
    /\ job[d].state = "waiting"
    /\ job' = [job EXCEPT ![d].state = "active"]
    /\ runs' = runs \cup {NewRun(d, "job", "begin")}
    /\ UNCHANGED <<mode, recv, log, row, now, reconcile, faults, lost, stuck>>

LastAttempt(d) == job[d].made + 1 >= Attempts
FailAttempt(d) ==
    job' = [job EXCEPT ![d] = IF LastAttempt(d) THEN Fresh("failed") ELSE Again(job[d])]

Move(x, l) == runs' = (runs \ {x}) \cup {[x EXCEPT !.pc = l]} /\ UNCHANGED job

\* The handler throws.  What is still due is taken up by the next attempt, if there
\* is one; the same goes for its log.
Throw(x) ==
    /\ runs' = runs \ {x}
    /\ IF IsLive(x) THEN FailAttempt(x.d) ELSE UNCHANGED job
    /\ lost' = (lost \/ (x.due /\ (~IsLive(x) \/ LastAttempt(x.d))))

-----------------------------------------------------------------------------
(* processQueuedPancakeWebhookEvent, processPancakeWebhookPayload.            *)

\* x at another point of the processing.
At(x, l, w, ok, due) == [d |-> x.d, by |-> x.by, made |-> x.made, pc |-> l, w |-> w,
                         ok |-> ok, due |-> due]

\* The first update of the log stands before the try block.
Begin(x) ==
    /\ x.pc = "begin"
    /\ \/ /\ Log(x.d, "processing")
          /\ Move(x, "store")
          /\ UNCHANGED <<faults, lost, stuck>>
       \/ /\ Fault("database")
          /\ Throw(x)
          /\ stuck' = stuck \cup {x.d}
          /\ UNCHANGED log
    /\ UNCHANGED <<mode, recv, row, now, reconcile>>

\* resolveOrderRoutes and upsertPosOrdersWithOutcomes.  A routing issue ends the
\* processing with neither an upsert nor a reconcile.  The upsert compares no
\* version; a failure, before or after the row is written, is a warning, or an
\* exception when it is transient.
Store(x) ==
    LET Goes(l, ok, due) == runs' = (runs \ {x}) \cup {At(x, l, 0, ok, due)}
        v == VersionOf[x.d]
    IN
    /\ x.pc = "store"
    /\ \/ row' = v /\ Goes("window", TRUE, TRUE) /\ UNCHANGED <<faults, lost>>
       \/ /\ Fault("routing")
          /\ Goes("finish", FALSE, FALSE)
          /\ lost' = (lost \/ x.due)
          /\ UNCHANGED row
       \/ /\ Fault("database")
          /\ \E written \in BOOLEAN, l \in {"window", "catch"} :
                /\ row' = IF written THEN v ELSE row
                /\ Goes(l, FALSE, x.due \/ written)
          /\ UNCHANGED lost
    /\ UNCHANGED <<mode, recv, log, job, now, reconcile, stuck>>

\* Mutant: the start of the current window, whose job may have begun.
ThisWindow == now

\* buildPancakeReconcileWindow: the end of the current window.
NextWindow == now + 1

Window(x) ==
    /\ x.pc = "window" /\ NextWindow \in Windows  \* MaxWindow
    /\ runs' = (runs \ {x}) \cup {At(x, "reconcile", NextWindow, x.ok, x.due)}
    /\ UNCHANGED <<mode, recv, log, job, row, now, reconcile, faults, lost, stuck>>

\* enqueueWebhookReconcileJobs: one job per window; a failure is only a warning.
Enqueue(x) ==
    /\ x.pc = "reconcile"
    /\ runs' = (runs \ {x}) \cup {At(x, "finish", 0, x.ok, FALSE)}
    /\ \/ /\ rjob' = IF rjob[x.w].state = "none"
                     THEN [rjob EXCEPT ![x.w] = Fresh("waiting")] ELSE rjob
          /\ UNCHANGED <<faults, lost>>
       \/ Fault("redis") /\ lost' = TRUE /\ UNCHANGED rjob
    /\ UNCHANGED <<mode, recv, log, job, row, now, rruns, agg, stuck>>

\* The outcomes and the final status; the job is done and keeps its id.
Finish(x) ==
    /\ x.pc = "finish"
    /\ \/ /\ Log(x.d, IF x.ok THEN "processed" ELSE "failed")
          /\ runs' = runs \ {x}
          /\ job' = IF IsLive(x) THEN [job EXCEPT ![x.d] = Fresh("done")] ELSE job
          /\ UNCHANGED faults
       \/ Fault("database") /\ Move(x, "catch") /\ UNCHANGED log
    /\ UNCHANGED <<mode, recv, row, now, reconcile, lost, stuck>>

\* The catch block writes FAILED and throws again.
Catch(x) ==
    /\ x.pc = "catch"
    /\ Throw(x)
    /\ \/ Log(x.d, "failed") /\ UNCHANGED <<faults, stuck>>
       \/ /\ Fault("database")
          /\ stuck' = stuck \cup {x.d}
          /\ UNCHANGED log
    /\ UNCHANGED <<mode, recv, row, now, reconcile>>

\* Bull's timeout: the attempt fails while its handler goes on.
Timeout(x) ==
    /\ IsLive(x)
    /\ Fault("timeout")
    /\ FailAttempt(x.d)
    /\ runs' = (runs \ {x}) \cup {[x EXCEPT !.by = "late"]}
    /\ UNCHANGED <<mode, recv, log, row, now, reconcile, lost, stuck>>

-----------------------------------------------------------------------------
(* The reconcile queue and handleReconcile.                                  *)

\* A window ends.  Only those that a job or a handler waits for are told apart.
Tick ==
    /\ NextWindow \in Windows
    /\ \/ rjob[NextWindow].state = "waiting"
       \/ \E x \in runs : x.w = NextWindow
    /\ now' = NextWindow
    /\ UNCHANGED <<mode, ingest, reconcile, faults, lost, stuck>>

IsLiveR(x) == x.live

\* As many at a time as the setting says; a timed-out one does not count.
TakeReconcile(w) ==
    /\ rjob[w].state = "waiting" /\ w <= now
    /\ Cardinality({u \in Windows : rjob[u].state = "active"}) < Concurrency
    /\ rjob' = [rjob EXCEPT ![w].state = "active"]
    /\ rruns' = rruns \cup {[w |-> w, made |-> rjob[w].made, live |-> TRUE, saw |-> 0,
                             pc |-> IF mode = "full_reset" THEN "reset" ELSE "read"]}
    /\ UNCHANGED <<mode, ingest, now, agg, faults, lost, stuck>>

MoveR(x, l, v) ==
    rruns' = (rruns \ {x}) \cup
             {[w |-> x.w, made |-> x.made, live |-> x.live, pc |-> l, saw |-> v]}

LastReconcile(w) == rjob[w].made + 1 >= ReconcileAttempts

\* Mutant: a failed attempt is not repeated.
FailReconcileForGood(w) ==
    /\ rjob' = [rjob EXCEPT ![w] = Fresh("failed")]
    /\ lost' = (lost \/ LastReconcile(w))

\* The attempts and backoff of the job's options.
FailReconcile(w) ==
    /\ rjob' = [rjob EXCEPT ![w] = IF LastReconcile(w) THEN Fresh("failed") ELSE Again(rjob[w])]
    /\ lost' = (lost \/ LastReconcile(w))

\* full_reset: the rows of the day are deleted.
Reset(x) ==
    /\ x.pc = "reset"
    /\ agg' = Empty
    /\ MoveR(x, "read", 0)
    /\ lost' = (lost \/ ~IsLiveR(x))
    /\ UNCHANGED <<mode, ingest, now, rjob, faults, stuck>>

\* reconcileDay reads the orders of the day ...
Read(x) ==
    /\ x.pc = "read"
    /\ MoveR(x, "write", row)
    /\ UNCHANGED <<mode, ingest, now, rjob, agg, faults, lost, stuck>>

\* Mutant: the counts are added to those that are there.
Added(v) ==
    [p \in Places |-> IF v # 0 /\ PlaceOf[v] = p THEN agg[p] + v
                     ELSE IF p \in Insights THEN 0 ELSE agg[p]]

\* ... and upserts the row of every ad that has insights, from what it has found for
\* it or from nothing, and a row for each order without one.
Recomputed(v) ==
    [p \in Places |-> IF v # 0 /\ PlaceOf[v] = p THEN v
                     ELSE IF p \in Insights THEN 0 ELSE agg[p]]

\* Then the job is removed.
Write(x) ==
    /\ x.pc = "write"
    /\ agg' = Recomputed(x.saw)
    /\ rruns' = rruns \ {x}
    /\ rjob' = IF IsLiveR(x) THEN [rjob EXCEPT ![x.w] = Fresh("none")] ELSE rjob
    /\ lost' = (lost \/ (~IsLiveR(x) /\ x.saw # row))
    /\ UNCHANGED <<mode, ingest, now, faults, stuck>>

ReconcileThrows(x) ==
    /\ Fault("database")
    /\ rruns' = rruns \ {x}
    /\ IF IsLiveR(x) THEN FailReconcile(x.w) ELSE UNCHANGED <<rjob, lost>>
    /\ UNCHANGED <<mode, ingest, now, agg, stuck>>

ReconcileTimeout(x) ==
    /\ IsLiveR(x)
    /\ Fault("timeout")
    /\ FailReconcile(x.w)
    /\ rruns' = (rruns \ {x}) \cup {[x EXCEPT !.live = FALSE]}
    /\ UNCHANGED <<mode, ingest, now, agg, stuck>>

-----------------------------------------------------------------------------
(* Processes that stop.                                                     *)

\* Requests in progress and inline processing are gone.
ApiCrash ==
    /\ Fault("apiCrash")
    /\ \/ \E d \in Deliveries : recv[d] \notin {"new", "done"}
       \/ \E x \in runs : x.by = "request"
    /\ recv' = [d \in Deliveries |-> IF recv[d] = "new" THEN "new" ELSE "done"]
    /\ runs' = {x \in runs : x.by # "request"}
    /\ lost' = (lost \/ \E x \in runs : x.by = "request" /\ x.due)
    /\ stuck' = stuck \cup {d \in Deliveries : \/ recv[d] \notin {"new", "done"}
                                               \/ \E x \in runs : x.by = "request" /\ x.d = d}
    /\ UNCHANGED <<mode, log, job, row, now, reconcile>>

\* The jobs of a worker are left active.
WorkerCrash ==
    /\ Fault("workerCrash")
    /\ rruns # {} \/ \E x \in runs : x.by # "request"
    /\ runs' = {x \in runs : x.by = "request"}
    /\ rruns' = {}
    /\ lost' = (lost \/ \E x \in runs : x.by = "late" /\ x.due)
    /\ stuck' = stuck \cup {x.d : x \in {y \in runs : y.by = "late"}}
    /\ UNCHANGED <<mode, recv, log, job, row, now, rjob, agg>>

\* Bull gives a stalled job back, or fails it.
Stalled(d) ==
    /\ job[d].state = "active" /\ ~\E x \in runs : x.d = d /\ IsLive(x)
    /\ IF job[d].stalls < MaxStalled
       THEN /\ job' = [job EXCEPT ![d] = Resumed(job[d])]
            /\ UNCHANGED <<lost, stuck>>
       ELSE /\ job' = [job EXCEPT ![d] = Fresh("failed")]
            /\ lost' = TRUE /\ stuck' = stuck \cup {d}
    /\ UNCHANGED <<mode, recv, log, runs, row, now, reconcile, faults>>

StalledReconcile(w) ==
    /\ rjob[w].state = "active" /\ ~\E x \in rruns : x.w = w /\ IsLiveR(x)
    /\ IF rjob[w].stalls < MaxStalled
       THEN /\ rjob' = [rjob EXCEPT ![w] = Resumed(rjob[w])]
            /\ UNCHANGED lost
       ELSE /\ rjob' = [rjob EXCEPT ![w] = Fresh("failed")]
            /\ lost' = TRUE
    /\ UNCHANGED <<mode, ingest, now, rruns, agg, faults, stuck>>

-----------------------------------------------------------------------------
Answer(d) == QueueAdd(d) \/ Mark(d) \/ Refuse(d) \/ Inline(d)
Process(x) == Begin(x) \/ Store(x) \/ Window(x) \/ Enqueue(x) \/ Finish(x) \/ Catch(x)
Aggregate(x) == Reset(x) \/ Read(x) \/ Write(x)

\* What goes on by itself: receivers and handlers that run, workers that take jobs,
\* Bull's check for stalled ones, and the end of a window that a job waits for.
Work ==
    \/ \E d \in Deliveries : Answer(d) \/ Take(d) \/ Stalled(d)
    \/ \E x \in runs : Process(x)
    \/ Tick
    \/ \E w \in Windows : TakeReconcile(w) \/ StalledReconcile(w)
    \/ \E x \in rruns : Aggregate(x)

Next ==
    \/ Work
    \/ \E d \in Deliveries : Receive(d)
    \/ \E x \in runs : Timeout(x)
    \/ \E x \in rruns : ReconcileThrows(x) \/ ReconcileTimeout(x)
    \/ ApiCrash \/ WorkerCrash

Spec == Init /\ [][Next]_vars

\* Some of it goes on as long as there is any; nothing forces a delivery, a timeout
\* or another fault.
Fairness == WF_vars(Work)

FairSpec == Spec /\ Fairness

-----------------------------------------------------------------------------
(* Properties.                                                               *)

\* The order is counted as the row says, and nowhere else: an incremental reconcile
\* leaves only the row of an order that was unmatched before.
Rewritten(p) == mode = "full_reset" \/ p \in Insights
Counted ==
    /\ row # 0 /\ PlaceOf[row] \in Places => agg[PlaceOf[row]] = row
    /\ \A p \in Places : agg[p] # 0 /\ Rewritten(p) => row # 0 /\ PlaceOf[row] = p

\* The job of d will run again, after an attempt that may have stored the order.
WillRetry(d) ==
    \/ job[d].state = "waiting" /\ Retried(d)
    \/ job[d].state = "active" /\ ~\E x \in runs : x.d = d /\ IsLive(x)

\* The reconcile job of w counts the row as it is: it has not read it, or it has
\* and the row is still the same.
WillCount(w) ==
    \/ rjob[w].state = "waiting"
    \/ /\ rjob[w].state = "active"
       /\ \A x \in rruns : x.w = w /\ IsLiveR(x) => x.pc # "write" \/ x.saw = row

\* The aggregates differ from the row only while an execution has yet to queue the
\* reconcile, a job will be tried again, or a reconcile that will count the row as
\* it is now is queued or under way: a payload that finds the job of its window
\* taken can rely on that job.  Left aside are the changes whose reconcile was
\* refused by Redis, given up after the last attempt, lost with the API process, or
\* undone by a reconcile that had timed out.  With a concurrency above 1 it fails: a
\* reconcile that has read the row earlier may write last.
ChangeHasReconcile ==
    ~Counted => \/ lost
                \/ \E x \in runs : x.due
                \/ \E d \in Deliveries : WillRetry(d)
                \/ \E w \in Windows : WillCount(w)

\* A log that is open has somebody who will settle it: its receiver, its job or an
\* execution.  Left aside are the logs whose QUEUED was written after the worker's
\* result, whose last update failed, or whose process stopped.
OpenLogHasWork ==
    \A d \in Deliveries \ stuck :
        log[d] \in {"received", "queued", "processing"} =>
            \/ recv[d] \notin {"new", "done"}
            \/ job[d].state \in {"waiting", "active"}
            \/ \E x \in runs : x.d = d

\* What the row says is counted in the end, unless a reconcile was lost in one of
\* those ways: an attempt that fails, or whose worker stops, is made again.
RowIsCounted == (~Counted /\ ~lost) ~> (Counted \/ lost)
=============================================================================
