----------------------------- MODULE WorkflowEngine -----------------------------
(***************************************************************************)
(* The workflow execution engine of apps/api/src/modules/workflows: the     *)
(* life of a row of workflow_executions while HTTP requests, cron           *)
(* callbacks, the Bull worker, its event listeners and the stale-execution  *)
(* reconciler read it, wait for the database, and write it back.            *)
(*                                                                         *)
(* Every action is one database or queue round trip; between two round      *)
(* trips of one handler any other handler may run.  What a handler has read *)
(* and still holds in a local variable is kept in its record (`seen`).      *)
(***************************************************************************)
EXTENDS Naturals, FiniteSets

CONSTANTS
    Procs,            \* processes whose role is "all" or "api"
    InlineSlots,      \* bound on the inline runs in progress; {}: none starts
    HostOf,           \* the process an inline slot belongs to
    Workflows,
    TenantOf,         \* the tenant of a workflow
    MaxExecutions,    \* bound on the rows ever created
    Sources,          \* enabled sources of the workflows: "meta", "pos"
    Days,             \* length of every execution's date range
    InlinePreferred,  \* WORKFLOW_PROCESS_INLINE / NODE_ENV = development
    Environment,      \* what may happen: a subset of Environments
    MaxStalled,       \* Bull's maxStalledCount
    MaxCrashes,       \* bound on process crashes
    MaxRefused        \* bound on the Queue.add calls refused of an execution

Executions == 1 .. MaxExecutions   \* ids in order of createdAt
Slots == Procs \cup InlineSlots    \* slot p \in Procs is p's Bull worker
NoExec == 0
Environments == {"cancel", "disable", "remove", "databaseFault", "queueFault", "age"}
NoWorkflow == "none"

ASSUME EngineAssumption ==
    /\ MaxExecutions \in Nat /\ Days \in Nat
    /\ MaxStalled \in Nat /\ MaxCrashes \in Nat /\ MaxRefused \in Nat
    /\ HostOf \in [InlineSlots -> Procs]
    /\ Sources \subseteq {"meta", "pos"}
    /\ DOMAIN TenantOf = Workflows
    /\ NoWorkflow \notin Workflows
    /\ InlinePreferred \in BOOLEAN /\ Environment \subseteq Environments
    /\ Procs \cap InlineSlots = {} /\ IsFiniteSet(InlineSlots)

VARIABLES
    wfState,   \* workflows: "enabled", "disabled", "deleted"
    status,    \* workflow_executions.status; "absent" before create
    wfOf,      \* workflow_executions.workflowId
    days,      \* workflow_executions.daysProcessed
    stale,     \* rows whose updatedAt is older than the cutoff
    job,       \* Bull job with jobId = execution id
    stalls,    \* Bull's stalled counter of the job
    run,       \* one processWorkflowExecution call per slot
    immediate, \* setImmediate callbacks that will run an execution inline
    trig,      \* one triggerManual / executeScheduledWorkflow per process
    cancel,    \* one cancelExecution per process
    hooks,     \* Bull event listeners in flight
    rec,       \* one reconcileStaleExecutions per process
    crashes,
    inlined,   \* history: the inline runs started of an execution
    refused    \* history: the Queue.add calls of an execution that were refused

rows == <<wfState, status, wfOf, days, stale>>
queue == <<job, stalls>>
history == <<inlined, refused>>
vars == <<rows, queue, run, immediate, trig, cancel, hooks, rec, crashes, history>>

-----------------------------------------------------------------------------
(* Types.                                                                   *)

Active == {"PENDING", "RUNNING"}
Terminal == {"COMPLETED", "FAILED", "CANCELLED"}
Live == Active \cup Terminal              \* the row exists
Status == Live \cup {"absent", "deleted"}

Run == [pc : {"idle", "read", "start", "day", "fetchMeta", "fetchPos", "increment", "complete",
              "fail", "nextRunning", "nextPick", "nextEnqueue", "done"},
        exec : Executions \cup {NoExec},
        origin : {"queue", "trigger", "next"},
        seen : Status, day : 0 .. Days, outcome : {"completed", "failed"},
        pick : Executions \cup {NoExec}]
Callback == [proc : Procs, exec : Executions, origin : {"trigger", "next"}]
Trig == [pc : {"idle", "checkPending", "checkRunning", "create", "enqueue"},
         wf : Workflows \cup {NoWorkflow}, tenant : {"free", "busy"},
         exec : Executions \cup {NoExec}]
Cancel == [exec : Executions \cup {NoExec}, seen : Status]
Hook == [proc : Procs, kind : {"active", "completed", "failed"},
         exec : Executions, seen : Status]
Found == [exec : Executions, seen : Status]    \* a row as findMany returned it
Rec == [pc : {"idle", "scan", "write", "nextPick", "tryRunning", "tryAdd"},
        todo : SUBSET Found,
        exec : Executions \cup {NoExec}, seen : Status,
        act : {"none", "setRunning", "setPending", "setCompleted",
               "markFailed", "failThenNext"}]

IdleRun == [pc |-> "idle", exec |-> NoExec, origin |-> "queue", seen |-> "absent",
            day |-> 0, outcome |-> "completed", pick |-> NoExec]
IdleTrig == [pc |-> "idle", wf |-> NoWorkflow, tenant |-> "free", exec |-> NoExec]
IdleCancel == [exec |-> NoExec, seen |-> "absent"]
IdleRec == [pc |-> "idle", todo |-> {}, exec |-> NoExec, seen |-> "absent", act |-> "none"]

TypeOK ==
    /\ wfState \in [Workflows -> {"enabled", "disabled", "deleted"}]
    /\ status \in [Executions -> Status]
    /\ wfOf \in [Executions -> Workflows \cup {NoWorkflow}]
    /\ days \in [Executions -> Nat]
    /\ stale \in SUBSET Executions
    /\ job \in [Executions -> {"none", "waiting", "active", "completed", "failed"}]
    /\ stalls \in [Executions -> Nat]
    /\ run \in [Slots -> Run]
    /\ immediate \in SUBSET Callback
    /\ trig \in [Procs -> Trig]
    /\ cancel \in [Procs -> Cancel]
    /\ hooks \in SUBSET Hook
    /\ rec \in [Procs -> Rec]
    /\ crashes \in Nat
    /\ inlined \in [Executions -> Nat]
    /\ refused \in [Executions -> Nat]

Init ==
    /\ wfState = [w \in Workflows |-> "enabled"]
    /\ status = [e \in Executions |-> "absent"]
    /\ wfOf = [e \in Executions |-> NoWorkflow]
    /\ days = [e \in Executions |-> 0]
    /\ stale = {}
    /\ job = [e \in Executions |-> "none"]
    /\ stalls = [e \in Executions |-> 0]
    /\ run = [s \in Slots |-> IdleRun]
    /\ immediate = {}
    /\ trig = [p \in Procs |-> IdleTrig]
    /\ cancel = [p \in Procs |-> IdleCancel]
    /\ hooks = {}
    /\ rec = [p \in Procs |-> IdleRec]
    /\ crashes = 0
    /\ inlined = [e \in Executions |-> 0]
    /\ refused = [e \in Executions |-> 0]

-----------------------------------------------------------------------------
(* Helpers.                                                                 *)

Exists(e) == status[e] \in Live
SameTenant(e, w) == wfOf[e] # NoWorkflow /\ TenantOf[wfOf[e]] = TenantOf[w]
TenantHas(w, st) == {e \in Executions : status[e] = st /\ SameTenant(e, w)}
Oldest(S) == {e \in S : \A f \in S : e <= f}   \* orderBy createdAt, first
ProcOf(s) == IF s \in Procs THEN s ELSE HostOf[s]

\* workflowExecution.update: rejects when the row is gone, bumps updatedAt.
Write(e, st) ==
    /\ status' = [status EXCEPT ![e] = st]
    /\ stale' = stale \ {e}
    /\ UNCHANGED <<wfState, wfOf, days>>

NewRun(e, origin) == [pc |-> "read", exec |-> e, origin |-> origin, seen |-> "absent",
                      day |-> 0, outcome |-> "completed", pick |-> NoExec]

\* A plausible bug: jobs added without a jobId.
AddJobWithoutId(e) == job' = [job EXCEPT ![e] = "waiting"]

\* A plausible bug: finished jobs are removed (removeOnComplete, removeOnFail).
AddJobAfterRemoval(e) ==
    job' = IF job[e] \in {"none", "completed", "failed"}
           THEN [job EXCEPT ![e] = "waiting"] ELSE job

\* Bull keeps finished jobs, so adding a jobId it knows changes nothing.
AddJob(e) ==
    job' = IF job[e] = "none" THEN [job EXCEPT ![e] = "waiting"] ELSE job

\* Redis refuses the add.
Refuse(e) ==
    /\ ~InlinePreferred /\ "queueFault" \in Environment
    /\ refused[e] < MaxRefused
    /\ refused' = [refused EXCEPT ![e] = @ + 1]

CallInline(p, e, origin) ==
    immediate' = immediate \cup {[proc |-> p, exec |-> e, origin |-> origin]}

\* Queue.add, or the inline fallback.
Launch(p, e, origin) ==
    \/ ~InlinePreferred /\ AddJob(e) /\ UNCHANGED <<immediate, refused>>
    \/ Refuse(e) /\ CallInline(p, e, origin) /\ UNCHANGED job
    \/ InlinePreferred /\ CallInline(p, e, origin) /\ UNCHANGED <<job, refused>>

-----------------------------------------------------------------------------
(* triggerManual and executeScheduledWorkflow.                              *)

\* MaxExecutions: no request begins without a row left for it to create.
RowsLeft ==
    Cardinality({q \in Procs : trig[q].pc \in {"checkPending", "checkRunning", "create"}})
        < Cardinality({e \in Executions : status[e] = "absent"})

TriggerBegin(p, w) ==
    /\ trig[p].pc = "idle"
    /\ wfState[w] = "enabled"
    /\ RowsLeft
    /\ trig' = [trig EXCEPT ![p] = [IdleTrig EXCEPT !.pc = "checkPending", !.wf = w]]
    /\ UNCHANGED <<rows, queue, run, immediate, cancel, hooks, rec, crashes, history>>

TriggerCheckPending(p) ==
    /\ trig[p].pc = "checkPending"
    /\ LET pending == {e \in Executions : status[e] = "PENDING" /\ wfOf[e] = trig[p].wf}
       IN  trig' = [trig EXCEPT ![p] = IF pending # {} THEN IdleTrig
                                       ELSE [@ EXCEPT !.pc = "checkRunning"]]
    /\ UNCHANGED <<rows, queue, run, immediate, cancel, hooks, rec, crashes, history>>

TriggerCheckRunning(p) ==
    /\ trig[p].pc = "checkRunning"
    /\ trig' = [trig EXCEPT ![p].pc = "create",
                            ![p].tenant = IF TenantHas(trig[p].wf, "RUNNING") = {}
                                          THEN "free" ELSE "busy"]
    /\ UNCHANGED <<rows, queue, run, immediate, cancel, hooks, rec, crashes, history>>

\* The insert violates its foreign key when the workflow has been removed.
TriggerCreate(p) ==
    /\ trig[p].pc = "create"
    /\ IF wfState[trig[p].wf] = "deleted"
       THEN /\ trig' = [trig EXCEPT ![p] = IdleTrig]
            /\ UNCHANGED rows
       ELSE \E e \in Executions :
              /\ status[e] = "absent"
              /\ \A f \in Executions : f < e => status[f] # "absent"
              /\ status' = [status EXCEPT ![e] = "PENDING"]
              /\ wfOf' = [wfOf EXCEPT ![e] = trig[p].wf]
              /\ trig' = [trig EXCEPT ![p] =
                            IF @.tenant = "busy" THEN IdleTrig
                            ELSE [@ EXCEPT !.pc = "enqueue", !.exec = e]]
              /\ UNCHANGED <<wfState, days, stale>>
    /\ UNCHANGED <<queue, run, immediate, cancel, hooks, rec, crashes, history>>

TriggerEnqueue(p) ==
    /\ trig[p].pc = "enqueue"
    /\ Launch(p, trig[p].exec, "trigger")
    /\ trig' = [trig EXCEPT ![p] = IdleTrig]
    /\ UNCHANGED <<rows, stalls, run, cancel, hooks, rec, crashes, inlined>>

-----------------------------------------------------------------------------
(* cancelExecution: read, check, then an update keyed by id alone.          *)

CancelRead(p, e) ==
    /\ "cancel" \in Environment
    /\ cancel[p].exec = NoExec
    /\ status[e] \in Active
    /\ cancel' = [cancel EXCEPT ![p] = [exec |-> e, seen |-> status[e]]]
    /\ UNCHANGED <<rows, queue, run, immediate, trig, hooks, rec, crashes, history>>

CancelWrite(p) ==
    LET e == cancel[p].exec IN
    /\ e # NoExec
    /\ IF Exists(e) THEN Write(e, "CANCELLED") ELSE UNCHANGED rows
    /\ cancel' = [cancel EXCEPT ![p] = IdleCancel]
    /\ UNCHANGED <<queue, run, immediate, trig, hooks, rec, crashes, history>>

-----------------------------------------------------------------------------
(* WorkflowService.enable, disable and remove; remove cascades to rows.     *)

SetEnabled(w, st) ==
    /\ "disable" \in Environment
    /\ wfState[w] \in {"enabled", "disabled"} \ {st}
    /\ wfState' = [wfState EXCEPT ![w] = st]
    /\ UNCHANGED <<status, wfOf, days, stale, queue, run, immediate, trig, cancel, hooks, rec, crashes, history>>

Remove(w) ==
    /\ "remove" \in Environment
    /\ wfState[w] # "deleted"
    /\ wfState' = [wfState EXCEPT ![w] = "deleted"]
    /\ status' = [e \in Executions |-> IF wfOf[e] = w THEN "deleted" ELSE status[e]]
    /\ UNCHANGED <<wfOf, days, stale, queue, run, immediate, trig, cancel, hooks, rec, crashes, history>>

-----------------------------------------------------------------------------
(* The Bull worker: take a job, stalled jobs, event listeners.              *)

TakeJob(p, e) ==
    /\ run[p].pc = "idle"
    /\ job[e] = "waiting"
    /\ job' = [job EXCEPT ![e] = "active"]
    /\ run' = [run EXCEPT ![p] = NewRun(e, "queue")]
    /\ hooks' = hooks \cup {[proc |-> p, kind |-> "active", exec |-> e, seen |-> "absent"]}
    /\ UNCHANGED <<rows, stalls, immediate, trig, cancel, rec, crashes, history>>

\* Only a dead process lets its lock expire: an active job no worker holds.
Abandoned(e) == job[e] = "active" /\ \A p \in Procs : run[p].pc = "idle" \/ run[p].exec # e

StallCheck(p, e) ==
    /\ Abandoned(e)
    /\ IF stalls[e] < MaxStalled
       THEN /\ job' = [job EXCEPT ![e] = "waiting"]
            /\ stalls' = [stalls EXCEPT ![e] = @ + 1]
            /\ UNCHANGED hooks
       ELSE /\ job' = [job EXCEPT ![e] = "failed"]
            /\ hooks' = hooks \cup
                 {[proc |-> p, kind |-> "failed", exec |-> e, seen |-> "absent"]}
            /\ UNCHANGED stalls
    /\ UNCHANGED <<rows, run, immediate, trig, cancel, rec, crashes, history>>

HookWants(kind, st) == IF kind = "active" THEN st = "PENDING" ELSE st \in Active
HookSets(kind) == CASE kind = "active" -> "RUNNING"
                    [] kind = "completed" -> "COMPLETED"
                    [] kind = "failed" -> "FAILED"

HookRead(h) ==
    /\ h \in hooks /\ h.seen = "absent"
    /\ hooks' = (hooks \ {h}) \cup
         (IF HookWants(h.kind, status[h.exec])
          THEN {[h EXCEPT !.seen = status[h.exec]]} ELSE {})
    /\ UNCHANGED <<rows, queue, run, immediate, trig, cancel, rec, crashes, history>>

HookWrite(h) ==
    /\ h \in hooks /\ h.seen # "absent"
    /\ IF Exists(h.exec) THEN Write(h.exec, HookSets(h.kind)) ELSE UNCHANGED rows
    /\ hooks' = hooks \ {h}
    /\ UNCHANGED <<queue, run, immediate, trig, cancel, rec, crashes, history>>

-----------------------------------------------------------------------------
(* processWorkflowExecution, in a Bull worker or inline.                    *)

RunFrame == UNCHANGED <<queue, immediate, trig, cancel, hooks, rec, crashes, history>>
Goto(s, pc) == run' = [run EXCEPT ![s].pc = pc]
GotoFail(s) == run' = [run EXCEPT ![s].pc = "fail", ![s].outcome = "failed"]

StartInline(s, c) ==
    /\ c \in immediate
    /\ HostOf[s] = c.proc /\ run[s].pc = "idle"
    /\ run' = [run EXCEPT ![s] = NewRun(c.exec, c.origin)]
    /\ immediate' = immediate \ {c}
    /\ inlined' = [inlined EXCEPT ![c.exec] = @ + 1]
    /\ UNCHANGED <<rows, queue, trig, cancel, hooks, rec, crashes, refused>>

\* A plausible bug: the CANCELLED check is dropped.
RunReadAnyStatus(s) ==
    LET e == run[s].exec IN
    /\ run[s].pc = "read"
    /\ run' = [run EXCEPT ![s].seen = status[e],
                          ![s].pc = IF Exists(e) THEN "start" ELSE "done",
                          ![s].outcome = IF Exists(e) THEN "completed" ELSE "failed"]
    /\ UNCHANGED rows /\ RunFrame

\* A missing row throws and a cancelled one returns, both before the try
\* block, so neither reaches enqueueNextPendingForTenant.
RunRead(s) ==
    LET e == run[s].exec IN
    /\ run[s].pc = "read"
    /\ run' = [run EXCEPT ![s].seen = status[e],
                          ![s].pc = IF Exists(e) /\ status[e] # "CANCELLED"
                                    THEN "start" ELSE "done",
                          ![s].outcome = IF Exists(e) THEN "completed" ELSE "failed"]
    /\ UNCHANGED rows /\ RunFrame

RunStart(s) ==
    LET e == run[s].exec IN
    /\ run[s].pc = "start"
    /\ IF Exists(e) THEN Write(e, "RUNNING") /\ Goto(s, "day")
       ELSE UNCHANGED rows /\ GotoFail(s)
    /\ RunFrame

\* Plausible bugs: the date loop stops one date early, or one date late.
RunDayStopsEarly(s) ==
    /\ run[s].pc = "day"
    /\ Goto(s, IF status[run[s].exec] = "CANCELLED" THEN "nextRunning"
               ELSE IF run[s].day + 1 < Days THEN "fetchMeta" ELSE "complete")
    /\ UNCHANGED rows /\ RunFrame
RunDayStopsLate(s) ==
    /\ run[s].pc = "day"
    /\ Goto(s, IF status[run[s].exec] = "CANCELLED" THEN "nextRunning"
               ELSE IF run[s].day <= Days THEN "fetchMeta" ELSE "complete")
    /\ UNCHANGED rows /\ RunFrame

\* checkCancellation at the top of a date, and after the last one.
RunDay(s) ==
    /\ run[s].pc = "day"
    /\ Goto(s, IF status[run[s].exec] = "CANCELLED" THEN "nextRunning"
               ELSE IF run[s].day < Days THEN "fetchMeta" ELSE "complete")
    /\ UNCHANGED rows /\ RunFrame

\* One source of the date, account by account (store by store); its errors are
\* recorded, not thrown, and a cancellation seen on the way ends the run.
Fetch(s, source, next) ==
    LET e == run[s].exec IN
    /\ IF source \in Sources /\ status[e] = "CANCELLED"
       THEN Goto(s, "nextRunning") /\ UNCHANGED rows
       ELSE /\ Goto(s, next)
            /\ stale' = IF source \in Sources THEN stale \ {e} ELSE stale
            /\ UNCHANGED <<wfState, status, wfOf, days>>
    /\ RunFrame

RunFetchMeta(s) == run[s].pc = "fetchMeta" /\ Fetch(s, "meta", "fetchPos")

RunFetchPos(s) == run[s].pc = "fetchPos" /\ Fetch(s, "pos", "increment")

\* Both reconciliations are caught; then daysProcessed is incremented.
RunIncrement(s) ==
    LET e == run[s].exec IN
    /\ run[s].pc = "increment"
    /\ IF Exists(e)
       THEN /\ days' = [days EXCEPT ![e] = @ + 1]
            /\ stale' = stale \ {e}
            /\ run' = [run EXCEPT ![s].pc = "day", ![s].day = @ + 1]
            /\ UNCHANGED <<wfState, status, wfOf>>
       ELSE UNCHANGED rows /\ GotoFail(s)
    /\ RunFrame

RunComplete(s) ==
    LET e == run[s].exec IN
    /\ run[s].pc = "complete"
    /\ IF Exists(e) THEN Write(e, "COMPLETED") /\ Goto(s, "nextRunning")
       ELSE UNCHANGED rows /\ GotoFail(s)
    /\ RunFrame

\* Any database or cache call inside the try block may throw.
RunThrow(s) ==
    /\ "databaseFault" \in Environment
    /\ run[s].pc \in {"start", "day", "fetchMeta", "fetchPos", "increment", "complete"}
    /\ GotoFail(s)
    /\ UNCHANGED rows /\ RunFrame

RunFail(s) ==
    LET e == run[s].exec IN
    /\ run[s].pc = "fail"
    /\ IF Exists(e) THEN Write(e, "FAILED") ELSE UNCHANGED rows
    /\ Goto(s, "nextRunning")
    /\ RunFrame

\* enqueueNextPendingForTenant, in the finally block.
RunNextRunning(s) ==
    /\ run[s].pc = "nextRunning"
    /\ Goto(s, IF TenantHas(wfOf[run[s].exec], "RUNNING") # {} THEN "done" ELSE "nextPick")
    /\ UNCHANGED rows /\ RunFrame

RunNextPick(s) ==
    LET pending == TenantHas(wfOf[run[s].exec], "PENDING") IN
    /\ run[s].pc = "nextPick"
    /\ \/ pending = {} /\ Goto(s, "done")
       \/ \E e \in Oldest(pending) :
            run' = [run EXCEPT ![s].pc = "nextEnqueue", ![s].pick = e]
    /\ UNCHANGED rows /\ RunFrame

RunNextEnqueue(s) ==
    /\ run[s].pc = "nextEnqueue"
    /\ Launch(ProcOf(s), run[s].pick, "next")
    /\ Goto(s, "done")
    /\ UNCHANGED <<rows, stalls, trig, cancel, hooks, rec, crashes, inlined>>

\* The handler returns: Bull settles the job and emits the event.
RunSettleJob(p) ==
    LET e == run[p].exec IN
    /\ run[p].pc = "done"
    /\ job' = [job EXCEPT ![e] = run[p].outcome]
    /\ hooks' = hooks \cup {[proc |-> p, kind |-> run[p].outcome, exec |-> e, seen |-> "absent"]}
    /\ run' = [run EXCEPT ![p] = IdleRun]
    /\ UNCHANGED <<rows, stalls, immediate, trig, cancel, rec, crashes, history>>

\* The triggers' runExecutionInline writes FAILED again when the run threw.
RunSettleInline(s) ==
    LET e == run[s].exec IN
    /\ run[s].pc = "done"
    /\ IF run[s].origin = "trigger" /\ run[s].outcome = "failed" /\ Exists(e)
       THEN Write(e, "FAILED") ELSE UNCHANGED rows
    /\ run' = [run EXCEPT ![s] = IdleRun]
    /\ RunFrame

-----------------------------------------------------------------------------
(* reconcileStaleExecutions, once a minute.                                 *)

RecFrame == UNCHANGED <<stalls, trig, cancel, hooks, crashes, inlined>>
RecGoto(p, pc) == rec' = [rec EXCEPT ![p].pc = pc]
RecNextRow(p) ==
    rec' = [rec EXCEPT ![p] = [pc |-> "scan", todo |-> rec[p].todo, exec |-> NoExec,
                               seen |-> "absent", act |-> "none"]]

\* WORKFLOW_EXECUTION_STALE_MINUTES pass without a write to the row.
Age(e) ==
    /\ "age" \in Environment
    /\ status[e] \in Active /\ e \notin stale
    /\ stale' = stale \cup {e}
    /\ UNCHANGED <<wfState, status, wfOf, days, queue, run, immediate, trig, cancel, hooks, rec, crashes, history>>

RecFind(p) ==
    LET found == {e \in stale : status[e] \in Active} IN
    /\ rec[p].pc = "idle" /\ found # {}
    /\ rec' = [rec EXCEPT ![p].pc = "scan", ![p].todo = {[exec |-> e, seen |-> status[e]] : e \in found}]
    /\ UNCHANGED <<rows, job, run, immediate, refused>> /\ RecFrame

RecEnd(p) ==
    /\ rec[p].pc = "scan" /\ rec[p].todo = {}
    /\ rec' = [rec EXCEPT ![p] = IdleRec]
    /\ UNCHANGED <<rows, job, run, immediate, refused>> /\ RecFrame

\* A plausible bug: PENDING rows without a job are left to someone else.
RecDecisionSkipsPending(e, st) ==
    CASE job[e] = "active" -> IF st # "RUNNING" THEN "setRunning" ELSE "none"
      [] job[e] = "waiting" -> IF st # "PENDING" THEN "setPending" ELSE "none"
      [] job[e] = "completed" -> "setCompleted"
      [] job[e] = "failed" -> "markFailed"
      [] job[e] = "none" -> IF st = "RUNNING" THEN "failThenNext" ELSE "none"

\* What the job's state and the status in the snapshot call for.
RecDecision(e, st) ==
    CASE job[e] = "active" -> IF st # "RUNNING" THEN "setRunning" ELSE "none"
      [] job[e] = "waiting" -> IF st # "PENDING" THEN "setPending" ELSE "none"
      [] job[e] = "completed" -> "setCompleted"
      [] job[e] = "failed" -> "markFailed"
      [] job[e] = "none" -> IF st = "RUNNING" THEN "failThenNext" ELSE "tryEnqueue"

RecLook(p) ==
    /\ rec[p].pc = "scan"
    /\ \E item \in rec[p].todo :
         LET d == RecDecision(item.exec, item.seen)
             r == [rec[p] EXCEPT !.todo = @ \ {item}]
         IN  rec' = [rec EXCEPT ![p] =
                CASE d = "none" -> r
                  [] d = "tryEnqueue" ->
                       [r EXCEPT !.pc = "tryRunning", !.exec = item.exec, !.seen = item.seen]
                  [] OTHER ->
                       [r EXCEPT !.pc = "write", !.exec = item.exec, !.seen = item.seen, !.act = d]]
    /\ UNCHANGED <<rows, job, run, immediate, refused>> /\ RecFrame

RecSets(act) == CASE act = "setRunning" -> "RUNNING"
                  [] act = "setPending" -> "PENDING"
                  [] act = "setCompleted" -> "COMPLETED"
                  [] act \in {"markFailed", "failThenNext"} -> "FAILED"

\* A missing row throws: the loop's catch goes on with the next one.
RecWrite(p) ==
    LET e == rec[p].exec IN
    /\ rec[p].pc = "write"
    /\ IF Exists(e) THEN Write(e, RecSets(rec[p].act)) ELSE UNCHANGED rows
    /\ IF Exists(e) /\ rec[p].act = "failThenNext"
       THEN RecGoto(p, "nextPick") ELSE RecNextRow(p)
    /\ UNCHANGED <<job, run, immediate, refused>> /\ RecFrame

RecNextPick(p) ==
    LET pending == TenantHas(wfOf[rec[p].exec], "PENDING") IN
    /\ rec[p].pc = "nextPick"
    /\ \/ pending = {} /\ RecNextRow(p)
       \/ \E e \in Oldest(pending) :
            rec' = [rec EXCEPT ![p].pc = "tryRunning", ![p].exec = e, ![p].seen = "PENDING"]
    /\ UNCHANGED <<rows, job, run, immediate, refused>> /\ RecFrame

RecTryRunning(p) ==
    /\ rec[p].pc = "tryRunning"
    /\ IF TenantHas(wfOf[rec[p].exec], "RUNNING") # {} THEN RecNextRow(p)
       ELSE RecGoto(p, "tryAdd")
    /\ UNCHANGED <<rows, job, run, immediate, refused>> /\ RecFrame

\* tryEnqueuePending: add and touch the row; a rejected add marks it FAILED;
\* with inline processing preferred, run it here.
RecTryAdd(p) ==
    LET e == rec[p].exec IN
    /\ rec[p].pc = "tryAdd"
    /\ \/ /\ ~InlinePreferred
          /\ AddJob(e)
          /\ stale' = stale \ {e}
          /\ UNCHANGED <<wfState, status, wfOf, days, immediate, refused>>
       \/ /\ Refuse(e)
          /\ IF Exists(e) THEN Write(e, "FAILED") ELSE UNCHANGED rows
          /\ UNCHANGED <<job, immediate>>
       \/ /\ InlinePreferred
          /\ CallInline(p, e, "next")
          /\ UNCHANGED <<rows, job, refused>>
    /\ RecNextRow(p)
    /\ UNCHANGED run
    /\ RecFrame

-----------------------------------------------------------------------------
(* A process dies: everything it held in memory is gone.                    *)

Crash(p) ==
    /\ crashes < MaxCrashes
    /\ crashes' = crashes + 1
    /\ run' = [s \in Slots |-> IF ProcOf(s) = p THEN IdleRun ELSE run[s]]
    /\ immediate' = {c \in immediate : c.proc # p}
    /\ trig' = [trig EXCEPT ![p] = IdleTrig]
    /\ cancel' = [cancel EXCEPT ![p] = IdleCancel]
    /\ hooks' = {h \in hooks : h.proc # p}
    /\ rec' = [rec EXCEPT ![p] = IdleRec]
    /\ UNCHANGED <<rows, queue, history>>

-----------------------------------------------------------------------------
Requests(p) ==
    \/ \E w \in Workflows : TriggerBegin(p, w)
    \/ \E e \in Executions : CancelRead(p, e)

Handlers(p) ==
    \/ TriggerCheckPending(p) \/ TriggerCheckRunning(p)
    \/ TriggerCreate(p) \/ TriggerEnqueue(p)
    \/ CancelWrite(p)

Inline(s) == \E c \in immediate : StartInline(s, c)

Listeners == \E h \in hooks : HookRead(h) \/ HookWrite(h)

RunStep(s) ==
    \/ RunRead(s) \/ RunStart(s) \/ RunDay(s) \/ RunFetchMeta(s) \/ RunFetchPos(s) \/ RunIncrement(s)
    \/ RunComplete(s) \/ RunFail(s)
    \/ RunNextRunning(s) \/ RunNextPick(s) \/ RunNextEnqueue(s)
    \/ s \in Procs /\ RunSettleJob(s)
    \/ s \in InlineSlots /\ RunSettleInline(s)

Reconcile(p) ==
    \/ RecFind(p) \/ RecEnd(p) \/ RecLook(p) \/ RecWrite(p)
    \/ RecNextPick(p) \/ RecTryRunning(p) \/ RecTryAdd(p)

Admin == \E w \in Workflows : SetEnabled(w, "enabled") \/ SetEnabled(w, "disabled") \/ Remove(w)

Worker(p) == \E e \in Executions : TakeJob(p, e)
Stalled == \E p \in Procs, e \in Executions : StallCheck(p, e)

Next ==
    \/ \E p \in Procs : Requests(p) \/ Handlers(p) \/ Worker(p) \/ Reconcile(p) \/ Crash(p)
    \/ \E s \in Slots : RunStep(s) \/ RunThrow(s)
    \/ \E s \in InlineSlots : Inline(s)
    \/ Listeners \/ Stalled \/ Admin
    \/ \E e \in Executions : Age(e)

Spec == Init /\ [][Next]_vars

\* Started calls finish, the worker takes jobs, Bull checks for stalled jobs,
\* the cron fires and time passes; requests, faults and crashes are free.
Fairness ==
    /\ \A p \in Procs : WF_vars(Handlers(p)) /\ WF_vars(Worker(p)) /\ WF_vars(Reconcile(p))
    /\ \A s \in Slots : WF_vars(RunStep(s))
    /\ \A s \in InlineSlots : WF_vars(Inline(s))
    /\ WF_vars(Listeners) /\ WF_vars(Stalled)
    /\ \A e \in Executions : WF_vars(Age(e))

FairSpec == Spec /\ Fairness

-----------------------------------------------------------------------------
(* What the engine guarantees.                                              *)

\* Where nothing is cancelled, COMPLETED means that every date of the range was
\* processed, whoever wrote it: the run, the completed listener or a reconciler.
CompletedIsComplete == \A e \in Executions : status[e] = "COMPLETED" => days[e] >= Days

\* Two workers never process one execution at once, although triggers,
\* finishing runs and reconcilers of every process may each enqueue it and a
\* dead worker's job is given again: the jobId of Queue.add is the execution id.
\* Only the inline run that a refused Queue.add falls back to, and that Bull
\* knows nothing of, may meet another run of its execution.
SingleRunner ==
    \A s, t \in Slots :
        s # t /\ run[s].pc # "idle" /\ run[t].pc # "idle" /\ run[s].exec = run[t].exec
            => s \in InlineSlots \/ t \in InlineSlots

\* daysProcessed counts a date again only when a stalled job was re-run or an
\* inline run was started beside the job; it is never reset, so every further
\* run adds at most the range to what the others, dead or alive, have counted.
BoundedRework == \A e \in Executions : days[e] <= Days * (1 + stalls[e] + inlined[e])

\* A row leaves COMPLETED, FAILED or CANCELLED (other than by being removed)
\* only through an actor that holds a reading of it from before it ended, or
\* through a run that read it COMPLETED or FAILED; the latter only when the
\* execution was given more than once: its job stalled, it was also run inline,
\* or an add of it was refused (which marks it FAILED) and another one was not.
\* A run never revives a row it saw CANCELLED, a first run never a row it saw
\* finished, nor any other handler a row it saw finished.
Relaunched(e) == stalls[e] > 0 \/ inlined[e] > 0 \/ refused[e] > 0
ReadBefore(e) ==
    \/ \E s \in Slots : run[s].exec = e /\ run[s].seen \in Active
    \/ \E p \in Procs : \/ cancel[p].exec = e /\ cancel[p].seen \in Active
                        \/ rec[p].exec = e /\ rec[p].seen \in Active
    \/ \E h \in hooks : h.exec = e /\ h.seen \in Active
RunAgain(e) ==
    Relaunched(e) /\ \E s \in Slots : run[s].exec = e /\ run[s].seen \in {"COMPLETED", "FAILED"}
TerminalLeftOnlyByStaleReader ==
    [][\A e \in Executions :
         status[e] \in Terminal /\ status'[e] \notin {status[e], "deleted"}
             => ReadBefore(e) \/ RunAgain(e)]_vars

\* Whatever interleaving of cancels, crashes and overlapping reconcilers,
\* every execution ends, and stays, in a terminal status or is removed: no
\* row is PENDING or RUNNING for ever, no queued run is forgotten.
Settles ==
    \A e \in Executions :
        (status[e] # "absent") ~> [](status[e] \in Terminal \cup {"deleted"})

\* The comment in cancelExecution: once CANCELLED, the processor skips it.
CancelIsFinal ==
    [][\A e \in Executions :
         status[e] = "CANCELLED" => status'[e] \in {"CANCELLED", "deleted"}]_vars
=============================================================================
