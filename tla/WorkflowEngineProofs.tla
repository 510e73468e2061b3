------------------------- MODULE WorkflowEngineProofs -------------------------
(***************************************************************************)
(* Theorems about WorkflowEngine, for any processes, workflows, tenants,    *)
(* numbers of executions, dates, crashes and stalls.                        *)
(***************************************************************************)
EXTENDS WorkflowEngine, SumTheorems, TLAPS

USE EngineAssumption DEF EngineAssumption

-----------------------------------------------------------------------------
(* The type invariant, strengthened: a local variable is only used while it *)
(* holds what its handler put there.  One part per group of variables.      *)

RunOK(r) ==
    /\ r.pc # "idle" => r.exec \in Executions
    /\ r.pc = "nextEnqueue" => r.pick \in Executions
    /\ r.pc \in {"fetchMeta", "fetchPos", "increment"} => r.day < Days
TrigOK(t) ==
    /\ t.pc # "idle" => t.wf \in Workflows
    /\ t.pc = "enqueue" => t.exec \in Executions
RecOK(r) ==
    /\ r.pc \notin {"idle", "scan"} => r.exec \in Executions
    /\ r.pc = "write" => r.act # "none"

RowsT ==
    /\ wfState \in [Workflows -> {"enabled", "disabled", "deleted"}]
    /\ status \in [Executions -> Status]
    /\ wfOf \in [Executions -> Workflows \cup {NoWorkflow}]
    /\ days \in [Executions -> Nat]
    /\ stale \in SUBSET Executions
    /\ crashes \in Nat
QueueT ==
    /\ job \in [Executions -> {"none", "waiting", "active", "completed", "failed"}]
    /\ stalls \in [Executions -> Nat]
    /\ immediate \in SUBSET Callback
    /\ inlined \in [Executions -> Nat]
    /\ refused \in [Executions -> Nat]
RunT == run \in [Slots -> Run] /\ \A s \in Slots : RunOK(run[s])
TrigT == trig \in [Procs -> Trig] /\ \A p \in Procs : TrigOK(trig[p])
CancelT == cancel \in [Procs -> Cancel]
HooksT == hooks \in SUBSET Hook
RecT == rec \in [Procs -> Rec] /\ \A p \in Procs : RecOK(rec[p])

TypeInv == RowsT /\ QueueT /\ RunT /\ TrigT /\ CancelT /\ HooksT /\ RecT

LEMMA TypeInit == Init => TypeInv
BY DEF Init, TypeInv, RowsT, QueueT, RunT, TrigT, CancelT, HooksT, RecT, RunOK, TrigOK, RecOK,
       IdleRun, IdleTrig, IdleCancel, IdleRec, Run, Trig, Cancel, Rec,
       Slots, Status, Live, Active, Terminal

-----------------------------------------------------------------------------
\* Storing a well-typed record keeps the table well-typed.
LEMMA SetRun ==
  ASSUME RunT, NEW s \in Slots, NEW r \in Run, RunOK(r), run' = [run EXCEPT ![s] = r]
  PROVE  RunT'
BY DEF RunT

LEMMA SetTrig ==
  ASSUME TrigT, NEW p \in Procs, NEW t \in Trig, TrigOK(t), trig' = [trig EXCEPT ![p] = t]
  PROVE  TrigT'
BY DEF TrigT

LEMMA SetRec ==
  ASSUME RecT, NEW p \in Procs, NEW r \in Rec, RecOK(r), rec' = [rec EXCEPT ![p] = r]
  PROVE  RecT'
BY DEF RecT

LEMMA IdleTyped == /\ IdleRun \in Run /\ RunOK(IdleRun)
                   /\ IdleTrig \in Trig /\ TrigOK(IdleTrig)
                   /\ IdleRec \in Rec /\ RecOK(IdleRec)
BY DEF IdleRun, Run, RunOK, IdleTrig, Trig, TrigOK, IdleRec, Rec, RecOK, Status, Live

LEMMA NextRowTyped == ASSUME RecT, NEW p \in Procs, RecNextRow(p) PROVE RecT'
<1> DEFINE r == [pc |-> "scan", todo |-> rec[p].todo, exec |-> NoExec,
                 seen |-> "absent", act |-> "none"]
<1>1. r \in Rec /\ RecOK(r)
  BY DEF RecT, Rec, RecOK, Status
<1> QED
  BY <1>1, SetRec DEF RecNextRow

LEMMA RecExec ==
  ASSUME RecT, NEW p \in Procs, rec[p].pc \notin {"idle", "scan"}
  PROVE  rec[p].exec \in Executions
BY DEF RecT, RecOK

-----------------------------------------------------------------------------
(* For each group, the actions that change it and that they keep its type.  *)

LEMMA TrigChanges ==
  [Next]_vars => \/ UNCHANGED <<trig>>
                 \/ \E p \in Procs, w \in Workflows : TriggerBegin(p, w)
                 \/ \E p \in Procs : TriggerCheckPending(p)
                 \/ \E p \in Procs : TriggerCheckRunning(p)
                 \/ \E p \in Procs : TriggerCreate(p)
                 \/ \E p \in Procs : TriggerEnqueue(p)
                 \/ \E p \in Procs : Crash(p)
BY DEF Next, Requests, Handlers, Worker, Reconcile, RunStep, Inline, Listeners, Stalled, Admin,
       vars, rows, queue, history, RunFrame, RecFrame, CancelRead, CancelWrite, SetEnabled, Remove,
       TakeJob, StallCheck, HookRead, HookWrite, StartInline, RunRead, RunStart, RunDay,
       RunFetchMeta, RunFetchPos, RunIncrement, RunComplete, RunThrow, RunFail, RunNextRunning,
       RunNextPick, RunNextEnqueue, RunSettleJob, RunSettleInline, Age, RecFind, RecEnd,
       RecLook, RecWrite, RecNextPick, RecTryRunning, RecTryAdd, Fetch

LEMMA TrigTyped == TypeInv /\ [Next]_vars => TrigT'
<1> SUFFICES ASSUME TypeInv, [Next]_vars PROVE TrigT'
  OBVIOUS
<1> USE DEF TypeInv
<1>1. CASE UNCHANGED <<trig>>
  BY <1>1 DEF TrigT, TrigOK, Trig
<1>2. ASSUME NEW p \in Procs, NEW w \in Workflows, TriggerBegin(p, w) PROVE TrigT'
  BY <1>2 DEF TriggerBegin, IdleTrig, TrigT, TrigOK, Trig
<1>3. ASSUME NEW p \in Procs, TriggerCheckPending(p) PROVE TrigT'
  BY <1>3 DEF TriggerCheckPending, IdleTrig, TrigT, TrigOK, Trig
<1>4. ASSUME NEW p \in Procs, TriggerCheckRunning(p) PROVE TrigT'
  <2> DEFINE t(x) == [trig[p] EXCEPT !.pc = "create", !.tenant = x]
  <2>1. \A x \in {"free", "busy"} : t(x) \in Trig /\ TrigOK(t(x))
    BY <1>4 DEF TrigT, TrigOK, Trig, TriggerCheckRunning
  <2>2. \E x \in {"free", "busy"} : trig' = [trig EXCEPT ![p] = t(x)]
    BY <1>4 DEF TriggerCheckRunning, TrigT
  <2> QED
    BY <2>1, <2>2, SetTrig
<1>5. ASSUME NEW p \in Procs, TriggerCreate(p) PROVE TrigT'
  <2> DEFINE t(e) == [trig[p] EXCEPT !.pc = "enqueue", !.exec = e]
  <2>1. trig[p] \in Trig /\ trig[p].wf \in Workflows
    BY <1>5 DEF TrigT, TrigOK, TriggerCreate
  <2>3. ASSUME NEW e \in Executions PROVE t(e) \in Trig /\ TrigOK(t(e))
    BY <2>1 DEF TrigOK, Trig
  <2>2. \/ trig' = [trig EXCEPT ![p] = IdleTrig]
        \/ \E e \in Executions : trig' = [trig EXCEPT ![p] = t(e)]
    BY <1>5 DEF TriggerCreate, TrigT
  <2> HIDE DEF t
  <2> QED
    BY <2>2, <2>3, SetTrig, IdleTyped
<1>6. ASSUME NEW p \in Procs, TriggerEnqueue(p) PROVE TrigT'
  BY <1>6 DEF TriggerEnqueue, IdleTrig, Launch, Refuse, CallInline, AddJob, TrigT, TrigOK, Trig
<1>7. ASSUME NEW p \in Procs, Crash(p) PROVE TrigT'
  BY <1>7 DEF Crash, IdleRun, IdleTrig, IdleCancel, IdleRec, TrigT, TrigOK, Trig
<1> QED
  BY <1>1, <1>2, <1>3, <1>4, <1>5, <1>6, <1>7, TrigChanges

LEMMA CancelChanges ==
  [Next]_vars => \/ UNCHANGED <<cancel>>
                 \/ \E p \in Procs, e \in Executions : CancelRead(p, e)
                 \/ \E p \in Procs : CancelWrite(p)
                 \/ \E p \in Procs : Crash(p)
BY DEF Next, Requests, Handlers, Worker, Reconcile, RunStep, Inline, Listeners, Stalled, Admin,
       vars, rows, queue, history, RunFrame, RecFrame, TriggerBegin, TriggerCheckPending,
       TriggerCheckRunning, TriggerCreate, TriggerEnqueue, SetEnabled, Remove, TakeJob,
       StallCheck, HookRead, HookWrite, StartInline, RunRead, RunStart, RunDay, RunFetchMeta,
       RunFetchPos, RunIncrement, RunComplete, RunThrow, RunFail, RunNextRunning, RunNextPick,
       RunNextEnqueue, RunSettleJob, RunSettleInline, Age, RecFind, RecEnd, RecLook, RecWrite,
       RecNextPick, RecTryRunning, RecTryAdd, Fetch

LEMMA CancelTyped == TypeInv /\ [Next]_vars => CancelT'
<1> SUFFICES ASSUME TypeInv, [Next]_vars PROVE CancelT'
  OBVIOUS
<1> USE DEF TypeInv
<1>1. CASE UNCHANGED <<cancel>>
  BY <1>1 DEF CancelT, RowsT, Cancel, Status, Live, Active, Terminal
<1>2. ASSUME NEW p \in Procs, NEW e \in Executions, CancelRead(p, e) PROVE CancelT'
  BY <1>2 DEF CancelRead, CancelT, RowsT, Cancel, Status, Live, Active, Terminal
<1>3. ASSUME NEW p \in Procs, CancelWrite(p) PROVE CancelT'
  BY <1>3 DEF CancelWrite, IdleCancel, Write, Exists, CancelT, RowsT, Cancel, Status, Live,
         Active, Terminal
<1>4. ASSUME NEW p \in Procs, Crash(p) PROVE CancelT'
  BY <1>4 DEF Crash, IdleRun, IdleTrig, IdleCancel, IdleRec, CancelT, RowsT, Cancel, Status, Live,
         Active, Terminal
<1> QED
  BY <1>1, <1>2, <1>3, <1>4, CancelChanges

LEMMA HooksChanges ==
  [Next]_vars => \/ UNCHANGED <<hooks>>
                 \/ \E p \in Procs, e \in Executions : TakeJob(p, e)
                 \/ \E p \in Procs, e \in Executions : StallCheck(p, e)
                 \/ \E h \in hooks : HookRead(h)
                 \/ \E s \in Procs : RunSettleJob(s)
                 \/ \E h \in hooks : HookWrite(h)
                 \/ \E p \in Procs : Crash(p)
BY DEF Next, Requests, Handlers, Worker, Reconcile, RunStep, Inline, Listeners, Stalled, Admin,
       vars, rows, queue, history, RunFrame, RecFrame, TriggerBegin, TriggerCheckPending,
       TriggerCheckRunning, TriggerCreate, TriggerEnqueue, CancelRead, CancelWrite, SetEnabled,
       Remove, StartInline, RunRead, RunStart, RunDay, RunFetchMeta, RunFetchPos, RunIncrement,
       RunComplete, RunThrow, RunFail, RunNextRunning, RunNextPick, RunNextEnqueue,
       RunSettleInline, Age, RecFind, RecEnd, RecLook, RecWrite, RecNextPick, RecTryRunning,
       RecTryAdd, Fetch

LEMMA HooksTyped == TypeInv /\ [Next]_vars => HooksT'
<1> SUFFICES ASSUME TypeInv, [Next]_vars PROVE HooksT'
  OBVIOUS
<1> USE DEF TypeInv
<1>1. CASE UNCHANGED <<hooks>>
  BY <1>1 DEF HooksT, RowsT, Hook, RunT, RunOK, Status, Live, Active, Terminal
<1>2. ASSUME NEW p \in Procs, NEW e \in Executions, TakeJob(p, e) PROVE HooksT'
  BY <1>2 DEF TakeJob, NewRun, Slots, HooksT, RowsT, Hook, RunT, RunOK, Status, Live, Active,
         Terminal
<1>3. ASSUME NEW p \in Procs, NEW e \in Executions, StallCheck(p, e) PROVE HooksT'
  BY <1>3 DEF StallCheck, HooksT, RowsT, Hook, RunT, RunOK, Status, Live, Active, Terminal
<1>4. ASSUME NEW h \in hooks, HookRead(h) PROVE HooksT'
  BY <1>4 DEF HookRead, HookWants, HooksT, RowsT, Hook, RunT, RunOK, Status, Live, Active,
         Terminal
<1>5. ASSUME NEW s \in Procs, RunSettleJob(s) PROVE HooksT'
  BY <1>5 DEF RunSettleJob, IdleRun, Slots, HooksT, RowsT, Hook, RunT, RunOK, Status, Live,
         Active, Terminal, Run
<1>6. ASSUME NEW h \in hooks, HookWrite(h) PROVE HooksT'
  BY <1>6 DEF HookWrite, HookSets, Write, Exists, HooksT, RowsT, Hook, RunT, RunOK, Status, Live,
         Active, Terminal
<1>7. ASSUME NEW p \in Procs, Crash(p) PROVE HooksT'
  BY <1>7 DEF Crash, IdleRun, IdleTrig, IdleCancel, IdleRec, HooksT, RowsT, Hook, RunT, RunOK,
         Status, Live, Active, Terminal
<1> QED
  BY <1>1, <1>2, <1>3, <1>4, <1>5, <1>6, <1>7, HooksChanges

LEMMA RunChanges ==
  [Next]_vars => \/ UNCHANGED <<run>>
                 \/ \E p \in Procs, e \in Executions : TakeJob(p, e)
                 \/ \E s \in InlineSlots, c \in immediate : StartInline(s, c)
                 \/ \E s \in Slots : RunRead(s)
                 \/ \E s \in Slots : RunStart(s)
                 \/ \E s \in Slots : RunDay(s)
                 \/ \E s \in Slots : RunFetchMeta(s)
                 \/ \E s \in Slots : RunFetchPos(s)
                 \/ \E s \in Slots : RunIncrement(s)
                 \/ \E s \in Slots : RunComplete(s)
                 \/ \E s \in Slots : RunThrow(s)
                 \/ \E s \in Slots : RunFail(s)
                 \/ \E s \in Slots : RunNextRunning(s)
                 \/ \E s \in Slots : RunNextPick(s)
                 \/ \E s \in Slots : RunNextEnqueue(s)
                 \/ \E s \in Procs : RunSettleJob(s)
                 \/ \E s \in InlineSlots : RunSettleInline(s)
                 \/ \E p \in Procs : Crash(p)
BY DEF Next, Requests, Handlers, Worker, Reconcile, RunStep, Inline, Listeners, Stalled, Admin,
       vars, rows, queue, history, RunFrame, RecFrame, TriggerBegin, TriggerCheckPending,
       TriggerCheckRunning, TriggerCreate, TriggerEnqueue, CancelRead, CancelWrite, SetEnabled,
       Remove, StallCheck, HookRead, HookWrite, Age, RecFind, RecEnd, RecLook, RecWrite,
       RecNextPick, RecTryRunning, RecTryAdd, Fetch

LEMMA RunTyped == TypeInv /\ [Next]_vars => RunT'
<1> SUFFICES ASSUME TypeInv, [Next]_vars PROVE RunT'
  OBVIOUS
<1> USE DEF TypeInv
<1>1. CASE UNCHANGED <<run>>
  BY <1>1 DEF RunT, RunOK, Run
<1>2. ASSUME NEW p \in Procs, NEW e \in Executions, TakeJob(p, e) PROVE RunT'
  <2>1. NewRun(e, "queue") \in Run /\ RunOK(NewRun(e, "queue"))
    BY DEF NewRun, Run, RunOK, Status, Live
  <2> QED
    BY <1>2, <2>1, SetRun DEF TakeJob, Slots
<1>3. ASSUME NEW s \in InlineSlots, NEW c \in immediate, StartInline(s, c) PROVE RunT'
  <2>1. c.exec \in Executions /\ c.origin \in {"trigger", "next"}
    BY DEF QueueT, Callback
  <2>2. NewRun(c.exec, c.origin) \in Run /\ RunOK(NewRun(c.exec, c.origin))
    BY <2>1 DEF NewRun, Run, RunOK, Status, Live
  <2> QED
    BY <1>3, <2>2, SetRun DEF StartInline, Slots
<1>4. ASSUME NEW s \in Slots, RunRead(s) PROVE RunT'
  BY <1>4 DEF RunRead, Exists, RunT, RunOK, Run, RowsT, Status, Live, Active, Terminal
<1>5. ASSUME NEW s \in Slots, RunStart(s) PROVE RunT'
  BY <1>5 DEF RunStart, Goto, GotoFail, Write, Exists, RunT, RunOK, Run
<1>6. ASSUME NEW s \in Slots, RunDay(s) PROVE RunT'
  BY <1>6 DEF RunDay, Goto, RunT, RunOK, Run
<1>7. ASSUME NEW s \in Slots, RunFetchMeta(s) PROVE RunT'
  BY <1>7 DEF RunFetchMeta, Goto, Fetch, RunT, RunOK, Run
<1>8. ASSUME NEW s \in Slots, RunFetchPos(s) PROVE RunT'
  BY <1>8 DEF RunFetchPos, Goto, Fetch, RunT, RunOK, Run
<1>9. ASSUME NEW s \in Slots, RunIncrement(s) PROVE RunT'
  BY <1>9 DEF RunIncrement, GotoFail, Exists, RunT, RunOK, Run
<1>10. ASSUME NEW s \in Slots, RunComplete(s) PROVE RunT'
  BY <1>10 DEF RunComplete, Goto, GotoFail, Write, Exists, RunT, RunOK, Run
<1>11. ASSUME NEW s \in Slots, RunThrow(s) PROVE RunT'
  <2> DEFINE r == [run[s] EXCEPT !.pc = "fail", !.outcome = "failed"]
  <2>1. r \in Run /\ RunOK(r)
    BY <1>11 DEF RunT, RunOK, Run, RunThrow
  <2>2. run' = [run EXCEPT ![s] = r]
    BY <1>11 DEF RunThrow, GotoFail, RunT
  <2> QED
    BY <2>1, <2>2, SetRun
<1>12. ASSUME NEW s \in Slots, RunFail(s) PROVE RunT'
  BY <1>12 DEF RunFail, Goto, Write, Exists, RunT, RunOK, Run
<1>13. ASSUME NEW s \in Slots, RunNextRunning(s) PROVE RunT'
  BY <1>13 DEF RunNextRunning, Goto, RunT, RunOK, Run
<1>14. ASSUME NEW s \in Slots, RunNextPick(s) PROVE RunT'
  BY <1>14 DEF RunNextPick, Goto, Oldest, TenantHas, RunT, RunOK, Run
<1>15. ASSUME NEW s \in Slots, RunNextEnqueue(s) PROVE RunT'
  BY <1>15 DEF RunNextEnqueue, Goto, Launch, Refuse, CallInline, AddJob, RunT, RunOK, Run
<1>16. ASSUME NEW s \in Procs, RunSettleJob(s) PROVE RunT'
  BY <1>16, SetRun, IdleTyped DEF RunSettleJob, Slots
<1>17. ASSUME NEW s \in InlineSlots, RunSettleInline(s) PROVE RunT'
  BY <1>17, SetRun, IdleTyped DEF RunSettleInline, Slots
<1>18. ASSUME NEW p \in Procs, Crash(p) PROVE RunT'
  BY <1>18, IdleTyped DEF Crash, RunT
<1> QED
  BY <1>1, <1>2, <1>3, <1>4, <1>5, <1>6, <1>7, <1>8, <1>9, <1>10, <1>11, <1>12, <1>13, <1>14,
     <1>15, <1>16, <1>17, <1>18, RunChanges

LEMMA RecChanges ==
  [Next]_vars => \/ UNCHANGED <<rec>>
                 \/ \E p \in Procs : RecFind(p)
                 \/ \E p \in Procs : RecEnd(p)
                 \/ \E p \in Procs : RecLook(p)
                 \/ \E p \in Procs : RecWrite(p)
                 \/ \E p \in Procs : RecNextPick(p)
                 \/ \E p \in Procs : RecTryRunning(p)
                 \/ \E p \in Procs : RecTryAdd(p)
                 \/ \E p \in Procs : Crash(p)
BY DEF Next, Requests, Handlers, Worker, Reconcile, RunStep, Inline, Listeners, Stalled, Admin,
       vars, rows, queue, history, RunFrame, RecFrame, TriggerBegin, TriggerCheckPending,
       TriggerCheckRunning, TriggerCreate, TriggerEnqueue, CancelRead, CancelWrite, SetEnabled,
       Remove, TakeJob, StallCheck, HookRead, HookWrite, StartInline, RunRead, RunStart, RunDay,
       RunFetchMeta, RunFetchPos, RunIncrement, RunComplete, RunThrow, RunFail, RunNextRunning,
       RunNextPick, RunNextEnqueue, RunSettleJob, RunSettleInline, Age, Fetch

LEMMA RecTyped == TypeInv /\ [Next]_vars => RecT'
<1> SUFFICES ASSUME TypeInv, [Next]_vars PROVE RecT'
  OBVIOUS
<1> USE DEF TypeInv
<1>1. CASE UNCHANGED <<rec>>
  BY <1>1 DEF RecT, RecOK, Rec
<1>2. ASSUME NEW p \in Procs, RecFind(p) PROVE RecT'
  <2> DEFINE todo == {[exec |-> e, seen |-> status[e]] : e \in {f \in stale : status[f] \in Active}}
             r == [rec[p] EXCEPT !.pc = "scan", !.todo = todo]
  <2>1. todo \in SUBSET Found
    BY DEF RowsT, Found
  <2>2. rec[p] \in Rec /\ rec[p].pc = "idle"
    BY <1>2 DEF RecFind, RecT
  <2>4. ASSUME NEW S \in SUBSET Found
        PROVE  LET x == [rec[p] EXCEPT !.pc = "scan", !.todo = S] IN x \in Rec /\ RecOK(x)
    BY <2>2 DEF Rec, RecOK
  <2>3. rec' = [rec EXCEPT ![p] = r]
    BY <1>2 DEF RecFind, RecT
  <2> QED
    BY <2>1, <2>3, <2>4, SetRec
<1>3. ASSUME NEW p \in Procs, RecEnd(p) PROVE RecT'
  BY <1>3, SetRec, IdleTyped DEF RecEnd
<1>4. ASSUME NEW p \in Procs, RecLook(p) PROVE RecT'
  <2>1. PICK item \in rec[p].todo : RecLook(p)!2!(item)
    BY <1>4 DEF RecLook
  <2> DEFINE d == RecDecision(item.exec, item.seen)
             kept == [rec[p] EXCEPT !.todo = @ \ {item}]
             try == [kept EXCEPT !.pc = "tryRunning", !.exec = item.exec, !.seen = item.seen]
             write == [kept EXCEPT !.pc = "write", !.exec = item.exec, !.seen = item.seen, !.act = d]
  <2>2. item \in Found /\ rec[p] \in Rec /\ RecOK(rec[p]) /\ rec[p].pc = "scan"
    BY <1>4, <2>1 DEF RecLook, RecT, Rec
  <2>3. kept \in Rec /\ kept.pc = "scan"
    BY <2>2 DEF Rec
  <2>4. RecOK(kept)
    BY <2>3 DEF RecOK
  <2>5. d \in {"none", "tryEnqueue", "setRunning", "setPending", "setCompleted", "markFailed", "failThenNext"}
    BY <2>2 DEF RecDecision, QueueT, Found
  <2> HIDE DEF kept, d
  <2>6. try \in Rec /\ RecOK(try)
    BY <2>2, <2>3 DEF Rec, RecOK, Found
  <2>7. d \notin {"none", "tryEnqueue"} => write \in Rec /\ RecOK(write)
    BY <2>2, <2>3, <2>5 DEF Rec, RecOK, Found
  <2>8. rec' = [rec EXCEPT ![p] = IF d = "none" THEN kept
                                  ELSE IF d = "tryEnqueue" THEN try ELSE write]
    BY <2>1, <2>5 DEF kept, d
  <2> HIDE DEF try, write
  <2> QED
    BY <2>3, <2>4, <2>5, <2>6, <2>7, <2>8, SetRec
<1>5. ASSUME NEW p \in Procs, RecWrite(p) PROVE RecT'
  <2> DEFINE r == [rec[p] EXCEPT !.pc = "nextPick"]
  <2>1. r \in Rec /\ RecOK(r)
    BY <1>5 DEF RecWrite, RecT, Rec, RecOK
  <2>2. CASE RecGoto(p, "nextPick")
    BY <2>1, <2>2, SetRec DEF RecGoto
  <2> QED
    BY <1>5, <2>2, NextRowTyped DEF RecWrite
<1>6. ASSUME NEW p \in Procs, RecNextPick(p) PROVE RecT'
  <2>1. CASE RecNextRow(p)
    BY <2>1, NextRowTyped
  <2>2. ASSUME NEW e \in Executions,
               rec' = [rec EXCEPT ![p].pc = "tryRunning", ![p].exec = e, ![p].seen = "PENDING"]
        PROVE  RecT'
    <3> DEFINE r == [rec[p] EXCEPT !.pc = "tryRunning", !.exec = e, !.seen = "PENDING"]
    <3>1. rec[p] \in Rec /\ "PENDING" \in Status
      BY DEF RecT, Status, Live, Active
    <3>3. r \in Rec /\ RecOK(r)
      BY <3>1 DEF Rec, RecOK
    <3>2. rec' = [rec EXCEPT ![p] = r]
      BY <2>2 DEF RecT
    <3> QED
      BY <3>2, <3>3, SetRec
  <2> QED
    BY <1>6, <2>1, <2>2 DEF RecNextPick, Oldest, TenantHas
<1>7. ASSUME NEW p \in Procs, RecTryRunning(p) PROVE RecT'
  <2> DEFINE r == [rec[p] EXCEPT !.pc = "tryAdd"]
  <2>1. r \in Rec /\ RecOK(r)
    BY <1>7 DEF RecTryRunning, RecT, Rec, RecOK
  <2>2. CASE RecGoto(p, "tryAdd")
    BY <2>1, <2>2, SetRec DEF RecGoto
  <2> QED
    BY <1>7, <2>2, NextRowTyped DEF RecTryRunning
<1>8. ASSUME NEW p \in Procs, RecTryAdd(p) PROVE RecT'
  BY <1>8, NextRowTyped DEF RecTryAdd
<1>9. ASSUME NEW p \in Procs, Crash(p) PROVE RecT'
  BY <1>9, SetRec, IdleTyped DEF Crash
<1> QED
  BY <1>1, <1>2, <1>3, <1>4, <1>5, <1>6, <1>7, <1>8, <1>9, RecChanges

LEMMA QueueChanges ==
  [Next]_vars => \/ UNCHANGED <<queue, immediate, history>>
                 \/ \E p \in Procs : TriggerEnqueue(p)
                 \/ \E p \in Procs, e \in Executions : TakeJob(p, e)
                 \/ \E p \in Procs, e \in Executions : StallCheck(p, e)
                 \/ \E s \in InlineSlots, c \in immediate : StartInline(s, c)
                 \/ \E s \in Slots : RunNextEnqueue(s)
                 \/ \E s \in Procs : RunSettleJob(s)
                 \/ \E p \in Procs : RecTryAdd(p)
                 \/ \E p \in Procs : Crash(p)
BY DEF Next, Requests, Handlers, Worker, Reconcile, RunStep, Inline, Listeners, Stalled, Admin,
       vars, rows, queue, history, RunFrame, RecFrame, TriggerBegin, TriggerCheckPending,
       TriggerCheckRunning, TriggerCreate, CancelRead, CancelWrite, SetEnabled, Remove,
       HookRead, HookWrite, RunRead, RunStart, RunDay, RunFetchMeta, RunFetchPos, RunIncrement,
       RunComplete, RunThrow, RunFail, RunNextRunning, RunNextPick, RunSettleInline, Age,
       RecFind, RecEnd, RecLook, RecWrite, RecNextPick, RecTryRunning, Fetch

LEMMA QueueTyped == TypeInv /\ [Next]_vars => QueueT'
<1> SUFFICES ASSUME TypeInv, [Next]_vars PROVE QueueT'
  OBVIOUS
<1> USE DEF TypeInv
<1>1. CASE UNCHANGED <<queue, immediate, history>>
  BY <1>1 DEF QueueT, Callback, queue, history
<1>0. ASSUME NEW p \in Procs, NEW e \in Executions, NEW o \in {"trigger", "next"},
             Launch(p, e, o), UNCHANGED <<stalls, inlined>>
      PROVE  QueueT'
  <2>1. [proc |-> p, exec |-> e, origin |-> o] \in Callback
    BY DEF Callback
  <2>2. CASE AddJob(e) /\ UNCHANGED <<immediate, refused>>
    BY <1>0, <2>2 DEF AddJob, QueueT
  <2>3. CASE Refuse(e) /\ CallInline(p, e, o) /\ UNCHANGED job
    BY <1>0, <2>1, <2>3 DEF Refuse, CallInline, QueueT
  <2>4. CASE CallInline(p, e, o) /\ UNCHANGED <<job, refused>>
    BY <1>0, <2>1, <2>4 DEF CallInline, QueueT
  <2> QED BY <1>0, <2>2, <2>3, <2>4 DEF Launch
<1>2. ASSUME NEW p \in Procs, TriggerEnqueue(p) PROVE QueueT'
  <2>1. trig[p].exec \in Executions
    BY <1>2 DEF TriggerEnqueue, TrigT, TrigOK
  <2> QED BY <1>0, <1>2, <2>1 DEF TriggerEnqueue
<1>3. ASSUME NEW p \in Procs, NEW e \in Executions, TakeJob(p, e) PROVE QueueT'
  BY <1>3 DEF TakeJob, NewRun, Slots, QueueT, Callback, queue, history
<1>4. ASSUME NEW p \in Procs, NEW e \in Executions, StallCheck(p, e) PROVE QueueT'
  BY <1>4 DEF StallCheck, QueueT, Callback, queue, history
<1>5. ASSUME NEW s \in InlineSlots, NEW c \in immediate, StartInline(s, c) PROVE QueueT'
  BY <1>5 DEF StartInline, NewRun, Slots, QueueT, Callback, queue, history
<1>6. ASSUME NEW s \in Slots, RunNextEnqueue(s) PROVE QueueT'
  <2>1. run[s].pick \in Executions /\ ProcOf(s) \in Procs
    BY <1>6 DEF RunNextEnqueue, RunT, RunOK, ProcOf, Slots
  <2> QED BY <1>0, <1>6, <2>1 DEF RunNextEnqueue
<1>7. ASSUME NEW s \in Procs, RunSettleJob(s) PROVE QueueT'
  <2>1. run[s].exec \in Executions /\ run[s].outcome \in {"completed", "failed"}
    BY <1>7 DEF RunSettleJob, RunT, RunOK, Run, Slots
  <2> QED
    BY <1>7, <2>1 DEF RunSettleJob, QueueT, history
<1>8. ASSUME NEW p \in Procs, RecTryAdd(p) PROVE QueueT'
  <2>1. rec[p].exec \in Executions
    BY <1>8, RecExec DEF RecTryAdd
  <2> QED
    BY <1>8, <2>1 DEF RecTryAdd, RecFrame, Refuse, CallInline, AddJob, QueueT, Callback
<1>9. ASSUME NEW p \in Procs, Crash(p) PROVE QueueT'
  BY <1>9 DEF Crash, IdleRun, IdleTrig, IdleCancel, IdleRec, QueueT, Callback, queue, history
<1> QED
  BY <1>1, <1>2, <1>3, <1>4, <1>5, <1>6, <1>7, <1>8, <1>9, QueueChanges

LEMMA RowsChanges ==
  [Next]_vars => \/ UNCHANGED <<rows, crashes>>
                 \/ \E p \in Procs : TriggerCreate(p)
                 \/ \E p \in Procs : CancelWrite(p)
                 \/ \E w \in Workflows, st \in {"enabled", "disabled"} : SetEnabled(w, st)
                 \/ \E w \in Workflows : Remove(w)
                 \/ \E h \in hooks : HookWrite(h)
                 \/ \E s \in Slots : RunStart(s)
                 \/ \E s \in Slots : RunFetchMeta(s)
                 \/ \E s \in Slots : RunFetchPos(s)
                 \/ \E s \in Slots : RunIncrement(s)
                 \/ \E s \in Slots : RunComplete(s)
                 \/ \E s \in Slots : RunFail(s)
                 \/ \E s \in InlineSlots : RunSettleInline(s)
                 \/ \E e \in Executions : Age(e)
                 \/ \E p \in Procs : RecWrite(p)
                 \/ \E p \in Procs : RecTryAdd(p)
                 \/ \E p \in Procs : Crash(p)
BY DEF Next, Requests, Handlers, Worker, Reconcile, RunStep, Inline, Listeners, Stalled, Admin,
       vars, rows, queue, history, RunFrame, RecFrame, TriggerBegin, TriggerCheckPending,
       TriggerCheckRunning, TriggerEnqueue, CancelRead, TakeJob, StallCheck, HookRead,
       StartInline, RunRead, RunDay, RunThrow, RunNextRunning, RunNextPick, RunNextEnqueue,
       RunSettleJob, RecFind, RecEnd, RecLook, RecNextPick, RecTryRunning, Fetch

LEMMA RowsTyped == TypeInv /\ [Next]_vars => RowsT'
<1> SUFFICES ASSUME TypeInv, [Next]_vars PROVE RowsT'
  OBVIOUS
<1> USE DEF TypeInv
<1>1. CASE UNCHANGED <<rows, crashes>>
  BY <1>1 DEF RowsT, rows, Status, Live, Active, Terminal
<1>2. ASSUME NEW p \in Procs, TriggerCreate(p) PROVE RowsT'
  BY <1>2 DEF TriggerCreate, IdleTrig, RowsT, rows, Status, Live, Active, Terminal, TrigT, TrigOK,
         Trig
<1>3. ASSUME NEW p \in Procs, CancelWrite(p) PROVE RowsT'
  BY <1>3 DEF CancelWrite, IdleCancel, Write, Exists, RowsT, rows, Status, Live, Active, Terminal,
         CancelT, Cancel
<1>4. ASSUME NEW w \in Workflows, NEW st \in {"enabled", "disabled"}, SetEnabled(w, st) PROVE RowsT'
  BY <1>4 DEF SetEnabled, RowsT, rows, Status, Live, Active, Terminal
<1>5. ASSUME NEW w \in Workflows, Remove(w) PROVE RowsT'
  BY <1>5 DEF Remove, RowsT, rows, Status, Live, Active, Terminal
<1>6. ASSUME NEW h \in hooks, HookWrite(h) PROVE RowsT'
  BY <1>6 DEF HookWrite, HookSets, Write, Exists, RowsT, rows, Status, Live, Active, Terminal,
         HooksT, Hook
<1>7. ASSUME NEW s \in Slots, RunStart(s) PROVE RowsT'
  BY <1>7 DEF RunStart, Goto, GotoFail, Write, Exists, RowsT, rows, Status, Live, Active,
         Terminal, RunT, RunOK, Run, RunFrame, Slots
<1>8. ASSUME NEW s \in Slots, RunFetchMeta(s) PROVE RowsT'
  BY <1>8 DEF RunFetchMeta, Goto, Fetch, RowsT, rows, Status, Live, Active, Terminal, RunT, RunOK,
         Run, RunFrame, Slots
<1>9. ASSUME NEW s \in Slots, RunFetchPos(s) PROVE RowsT'
  BY <1>9 DEF RunFetchPos, Goto, Fetch, RowsT, rows, Status, Live, Active, Terminal, RunT, RunOK,
         Run, RunFrame, Slots
<1>10. ASSUME NEW s \in Slots, RunIncrement(s) PROVE RowsT'
  BY <1>10 DEF RunIncrement, GotoFail, Exists, RowsT, rows, Status, Live, Active, Terminal, RunT,
         RunOK, Run, RunFrame, Slots
<1>11. ASSUME NEW s \in Slots, RunComplete(s) PROVE RowsT'
  BY <1>11 DEF RunComplete, Goto, GotoFail, Write, Exists, RowsT, rows, Status, Live, Active,
         Terminal, RunT, RunOK, Run, RunFrame, Slots
<1>12. ASSUME NEW s \in Slots, RunFail(s) PROVE RowsT'
  BY <1>12 DEF RunFail, Goto, Write, Exists, RowsT, rows, Status, Live, Active, Terminal, RunT,
         RunOK, Run, RunFrame, Slots
<1>13. ASSUME NEW s \in InlineSlots, RunSettleInline(s) PROVE RowsT'
  BY <1>13 DEF RunSettleInline, IdleRun, Write, Exists, Slots, RowsT, rows, Status, Live, Active,
         Terminal, RunT, RunOK, Run, RunFrame
<1>14. ASSUME NEW e \in Executions, Age(e) PROVE RowsT'
  BY <1>14 DEF Age, RowsT, rows, Status, Live, Active, Terminal
<1>15. ASSUME NEW p \in Procs, RecWrite(p) PROVE RowsT'
  <2>1. rec[p].exec \in Executions
    BY <1>15, RecExec DEF RecWrite
  <2>2. RecSets(rec[p].act) \in Status
    BY <1>15 DEF RecWrite, RecT, Rec, RecOK, RecSets, Status, Live, Active, Terminal
  <2> QED
    BY <1>15, <2>1, <2>2 DEF RecWrite, RecFrame, Write, RowsT, rows
<1>16. ASSUME NEW p \in Procs, RecTryAdd(p) PROVE RowsT'
  <2>1. rec[p].exec \in Executions
    BY <1>16, RecExec DEF RecTryAdd
  <2> QED
    BY <1>16, <2>1 DEF RecTryAdd, RecFrame, Write, Exists, RowsT, rows, Status, Live, Terminal
<1>17. ASSUME NEW p \in Procs, Crash(p) PROVE RowsT'
  BY <1>17 DEF Crash, IdleRun, IdleTrig, IdleCancel, IdleRec, RowsT, rows, Status, Live, Active,
         Terminal
<1> QED
  BY <1>1, <1>2, <1>3, <1>4, <1>5, <1>6, <1>7, <1>8, <1>9, <1>10, <1>11, <1>12, <1>13, <1>14,
     <1>15, <1>16, <1>17, RowsChanges

-----------------------------------------------------------------------------
LEMMA TypeStep == TypeInv /\ [Next]_vars => TypeInv'
BY RowsTyped, QueueTyped, RunTyped, TrigTyped, CancelTyped, HooksTyped, RecTyped DEF TypeInv

\* Every variable stays in its type.
THEOREM TypeCorrect == Spec => []TypeOK
<1>1. Init => TypeInv
  BY TypeInit
<1>2. TypeInv /\ [Next]_vars => TypeInv'
  BY TypeStep
<1>3. TypeInv => TypeOK
  BY DEF TypeInv, TypeOK, RowsT, QueueT, RunT, TrigT, CancelT, HooksT, RecT
<1> QED
  BY <1>1, <1>2, <1>3, PTL DEF Spec
-----------------------------------------------------------------------------
(* Bull's jobId keeps two workers off one execution, and bounds how often a *)
(* date is counted: an execution may count Days dates each time it is given *)
(* to a worker or started inline, less what a run in progress has left.     *)

\* A busy worker holds the active job of its execution.
Held == \A p \in Procs : run[p].pc # "idle" => job[run[p].exec] = "active"
Single == \A p, q \in Procs : p # q /\ run[p].pc # "idle" /\ run[q].pc # "idle"
                              => run[p].exec # run[q].exec
\* The dates the inline runs of an execution may still count.
LeftOf(r, e) == IF r.pc # "idle" /\ r.exec = e THEN Days - r.day ELSE 0
Left(e) == SumFunctionOnSet([s \in InlineSlots |-> LeftOf(run[s], e)], InlineSlots)
Given(e) == Days * (stalls[e] + inlined[e])
\* A job that waits has counted nothing since it was last given back; one that
\* is worked on has counted at most what its worker has.
Fresh == \A e \in Executions :
            job[e] \in {"none", "waiting"} => days[e] + Left(e) <= Given(e)
Counted == \A p \in Procs, e \in Executions :
              run[p].pc # "idle" /\ run[p].exec = e
                => days[e] + Left(e) <= Given(e) + run[p].day
Rework == \A e \in Executions : days[e] + Left(e) <= Given(e) + Days
QueueInv == Held /\ Single /\ Fresh /\ Counted /\ Rework

LEMMA Distribute == \A m, n \in Nat : /\ Days * (1 + m + n) = Days * (m + n) + Days
                                      /\ Days * (m + 1 + n) = Days * (m + n) + Days
                                      /\ Days * (m + (n + 1)) = Days * (m + n) + Days
                                      /\ Days * (m + n) \in Nat
OBVIOUS

LEMMA LeftTyped ==
  ASSUME RunT, NEW e \in Executions
  PROVE  /\ \A s \in InlineSlots : LeftOf(run[s], e) \in 0 .. Days
         /\ Left(e) \in Nat
<1>1. \A s \in InlineSlots : LeftOf(run[s], e) \in 0 .. Days
  <2>1. \A s \in InlineSlots : run[s].day \in 0 .. Days
    BY DEF RunT, Run, Slots
  <2> QED BY <2>1 DEF LeftOf
<1>2. NatValued([s \in InlineSlots |-> LeftOf(run[s], e)], InlineSlots)
  BY <1>1 DEF NatValued
<1> QED BY <1>1, <1>2, SumNat DEF Left

LEMMA GivenTyped ==
  ASSUME QueueT, NEW e \in Executions
  PROVE  stalls[e] \in Nat /\ inlined[e] \in Nat /\ Given(e) \in Nat
BY Distribute DEF QueueT, Given

\* The same of the next state.
LEMMA NextTyped ==
  ASSUME TypeInv', NEW e \in Executions
  PROVE  Left(e)' \in Nat /\ Given(e)' \in Nat /\ days'[e] \in Nat
<1>1. \A s \in InlineSlots : LeftOf(run'[s], e) \in Nat
  <2>1. \A s \in InlineSlots : run'[s].day \in 0 .. Days
    BY DEF TypeInv, RunT, Run, Slots
  <2> QED BY <2>1 DEF LeftOf
<1>2. NatValued([s \in InlineSlots |-> LeftOf(run'[s], e)], InlineSlots)
  BY <1>1 DEF NatValued
<1>3. Left(e)' \in Nat
  BY <1>2, SumNat DEF Left, LeftOf
<1>4. Given(e)' \in Nat
  BY Distribute DEF TypeInv, QueueT, Given
<1> QED BY <1>3, <1>4 DEF TypeInv, RowsT

LEMMA NowTyped ==
  ASSUME TypeInv, NEW e \in Executions
  PROVE  Left(e) \in Nat /\ Given(e) \in Nat /\ days[e] \in Nat
BY LeftTyped, GivenTyped DEF TypeInv, RowsT

LEMMA Balance ==
  ASSUME NEW a \in Nat, NEW b \in Nat, NEW c \in Nat, NEW d \in Nat, NEW f \in Nat,
         NEW g \in Nat, NEW k \in Nat, d + f + c <= a + b + g, a + b <= c + k
  PROVE  d + f <= g + k
OBVIOUS

\* The runs that go on with the dates they had leave the rest as it was.
LEMMA LeftSame ==
  ASSUME NEW e, \A s \in InlineSlots : LeftOf(run'[s], e) = LeftOf(run[s], e)
  PROVE  Left(e)' = Left(e)
<1>1. [s \in InlineSlots |-> LeftOf(run'[s], e)] = [s \in InlineSlots |-> LeftOf(run[s], e)]
  OBVIOUS
<1> QED BY <1>1 DEF Left, LeftOf

LEMMA LeftLess ==
  ASSUME RunT, RunT', NEW e \in Executions,
         \A s \in InlineSlots : LeftOf(run'[s], e) <= LeftOf(run[s], e)
  PROVE  Left(e)' <= Left(e)
<1> DEFINE f == [s \in InlineSlots |-> LeftOf(run[s], e)]
           g == [s \in InlineSlots |-> LeftOf(run'[s], e)]
<1>1. \A s \in InlineSlots : LeftOf(run[s], e) \in Int
  BY LeftTyped
<1>2. \A s \in InlineSlots : LeftOf(run'[s], e) \in Int
  <2>1. \A s \in InlineSlots : run'[s].day \in 0 .. Days
    BY DEF RunT, Run, Slots
  <2> QED BY <2>1 DEF LeftOf
<1>3. IntValued(f, InlineSlots) /\ IntValued(g, InlineSlots)
  BY <1>1, <1>2 DEF IntValued
<1>4. SumFunctionOnSet(g, InlineSlots) <= SumFunctionOnSet(f, InlineSlots)
  BY <1>3, SumMonotone
<1> QED BY <1>4 DEF Left, LeftOf

\* One inline run moves.
LEMMA LeftMoves ==
  ASSUME RunT, NEW e \in Executions, NEW s \in InlineSlots,
         LeftOf(run'[s], e) \in Int,
         \A q \in InlineSlots \ {s} : run'[q] = run[q]
  PROVE  Left(e)' = Left(e) - LeftOf(run[s], e) + LeftOf(run'[s], e)
<1> DEFINE f == [q \in InlineSlots |-> LeftOf(run[q], e)]
           g == [q \in InlineSlots |-> LeftOf(run'[q], e)]
<1>1. \A q \in InlineSlots : LeftOf(run[q], e) \in Int
  BY LeftTyped
<1>2. IntValued(f, InlineSlots) /\ g[s] \in Int /\ \A q \in InlineSlots \ {s} : g[q] = f[q]
  BY <1>1 DEF IntValued
<1>3. SumFunctionOnSet(g, InlineSlots) = SumFunctionOnSet(f, InlineSlots) - f[s] + g[s]
  BY <1>2, SumChange
<1> QED BY <1>3 DEF Left, LeftOf

LEMMA QueueInit == Init => QueueInv
<1> SUFFICES ASSUME Init PROVE QueueInv
  OBVIOUS
<1>1. ASSUME NEW e \in Executions PROVE Left(e) = 0 /\ Given(e) \in Nat /\ days[e] = 0
  <2>1. \A s \in InlineSlots : [q \in InlineSlots |-> LeftOf(run[q], e)][s] = 0
    BY DEF Init, LeftOf, IdleRun, Slots
  <2>2. Left(e) = 0
    BY <2>1, SumZero DEF Left
  <2> QED BY <2>2, GivenTyped, TypeInit DEF TypeInv, Init
<1> QED BY <1>1 DEF Init, QueueInv, Held, Single, Fresh, Counted, Rework, IdleRun, Slots

\* A step that gives no worker a job and takes none away, and counts no date
\* that it does not take from what an inline run has left or is given.
Calm ==
    /\ \A p \in Procs : /\ run'[p].exec = run[p].exec /\ run'[p].day = run[p].day
                        /\ run'[p].pc = "idle" <=> run[p].pc = "idle"
    /\ \A e \in Executions : job'[e] = job[e] \/ (job[e] = "none" /\ job'[e] = "waiting")
    /\ \A e \in Executions :
          days'[e] + Left(e)' + Given(e) <= days[e] + Left(e) + Given(e)'

LEMMA CalmStep ==
  ASSUME TypeInv, TypeInv', QueueInv, Calm
  PROVE  QueueInv'
<1>1. \A p \in Procs : /\ run[p].day \in Nat
                       /\ run[p].pc # "idle" => run[p].exec \in Executions
  BY DEF TypeInv, RunT, RunOK, Slots, Run
<1>2. Held'
  BY <1>1 DEF QueueInv, Calm, Held
<1>3. Single'
  BY DEF QueueInv, Calm, Single
<1>4. ASSUME NEW e \in Executions, NEW k \in Nat, days[e] + Left(e) <= Given(e) + k
      PROVE  days'[e] + Left(e)' <= Given(e)' + k
  <2>1. days'[e] + Left(e)' + Given(e) <= days[e] + Left(e) + Given(e)'
    BY DEF Calm
  <2>2. /\ Left(e) \in Nat /\ Given(e) \in Nat /\ days[e] \in Nat
        /\ Left(e)' \in Nat /\ Given(e)' \in Nat /\ days'[e] \in Nat
    BY NowTyped, NextTyped
  <2> QED BY <1>4, <2>1, <2>2, Balance
<1>5. Fresh'
  <2> SUFFICES ASSUME NEW e \in Executions, job'[e] \in {"none", "waiting"}
               PROVE  days'[e] + Left(e)' <= Given(e)'
    BY DEF Fresh
  <2>1. days[e] + Left(e) <= Given(e)
    BY DEF QueueInv, Calm, Fresh
  <2>2. days[e] + Left(e) <= Given(e) + 0
    BY <2>1, NowTyped
  <2>3. days'[e] + Left(e)' <= Given(e)' + 0
    BY <2>2, <1>4
  <2> QED BY <2>3, NextTyped
<1>6. Counted'
  <2> SUFFICES ASSUME NEW p \in Procs, NEW e \in Executions,
                      run'[p].pc # "idle", run'[p].exec = e
               PROVE  days'[e] + Left(e)' <= Given(e)' + run'[p].day
    BY DEF Counted
  <2>1. run'[p].day = run[p].day /\ run[p].day \in Nat /\ days[e] + Left(e) <= Given(e) + run[p].day
    BY <1>1 DEF Calm, QueueInv, Counted
  <2>2. \E k \in Nat : k = run[p].day
    BY <2>1
  <2>3. PICK k \in Nat : k = run[p].day
    BY <2>2
  <2> QED BY <2>1, <2>3, <1>4
<1>7. Rework'
  <2> SUFFICES ASSUME NEW e \in Executions PROVE days'[e] + Left(e)' <= Given(e)' + Days
    BY DEF Rework
  <2>1. days[e] + Left(e) <= Given(e) + Days
    BY DEF QueueInv, Rework
  <2> QED BY <2>1, <1>4
<1> QED
  BY <1>2, <1>3, <1>5, <1>6, <1>7 DEF QueueInv

\* Where no run moves and no counter does, only the jobs have to be looked at.
LEMMA StillCalm ==
  ASSUME TypeInv, UNCHANGED <<run, stalls, days, inlined>>,
         \A e \in Executions : job'[e] = job[e] \/ (job[e] = "none" /\ job'[e] = "waiting")
  PROVE  Calm
<1>1. ASSUME NEW e \in Executions
      PROVE  days'[e] + Left(e)' + Given(e) <= days[e] + Left(e) + Given(e)'
  <2>1. Left(e)' = Left(e) /\ Given(e)' = Given(e) /\ days'[e] = days[e]
    BY DEF Left, LeftOf, Given
  <2> QED BY <2>1, NowTyped
<1> QED BY <1>1 DEF Calm

\* Storing a record that keeps the execution and the date is calm.
LEMMA SetRunCalm ==
  ASSUME TypeInv, NEW s \in Slots, run[s].pc # "idle",
         NEW r, r.pc # "idle", r.exec = run[s].exec, r.day = run[s].day,
         run' = [run EXCEPT ![s] = r], UNCHANGED <<stalls, days, inlined>>,
         \A e \in Executions : job'[e] = job[e] \/ (job[e] = "none" /\ job'[e] = "waiting")
  PROVE  Calm
<1>a. run \in [Slots -> Run]
  BY DEF TypeInv, RunT
<1>1. \A q \in Slots : /\ run'[q].exec = run[q].exec /\ run'[q].day = run[q].day
                       /\ run'[q].pc = "idle" <=> run[q].pc = "idle"
  BY <1>a
<1>2. ASSUME NEW e \in Executions
      PROVE  days'[e] + Left(e)' + Given(e) <= days[e] + Left(e) + Given(e)'
  <2>1. Left(e)' = Left(e)
    BY <1>1, LeftSame DEF LeftOf, Slots
  <2>2. Given(e)' = Given(e) /\ days'[e] = days[e]
    BY DEF Given
  <2> QED BY <2>1, <2>2, NowTyped
<1> QED BY <1>1, <1>2 DEF Calm, Slots

LEMMA GotoCalm ==
  ASSUME TypeInv, NEW s \in Slots, run[s].pc # "idle", UNCHANGED <<job, stalls, days, inlined>>,
         GotoFail(s) \/ \E pc \in {"start", "day", "fetchMeta", "fetchPos", "increment",
                                  "complete", "nextRunning", "nextPick", "done"} : Goto(s, pc)
  PROVE  Calm
<1> DEFINE f == [run[s] EXCEPT !.pc = "fail", !.outcome = "failed"]
           g(pc) == [run[s] EXCEPT !.pc = pc]
<1>1. run \in [Slots -> Run]
  BY DEF TypeInv, RunT
<1>2. /\ f.pc = "fail" /\ f.exec = run[s].exec /\ f.day = run[s].day
      /\ \A pc : g(pc).pc = pc /\ g(pc).exec = run[s].exec /\ g(pc).day = run[s].day
  BY <1>1 DEF Run
<1>3. \/ run' = [run EXCEPT ![s] = f]
      \/ \E pc \in {"start", "day", "fetchMeta", "fetchPos", "increment",
                     "complete", "nextRunning", "nextPick", "done"} :
              run' = [run EXCEPT ![s] = g(pc)]
  BY <1>1 DEF GotoFail, Goto
<1> HIDE DEF f, g
<1> QED
  BY <1>2, <1>3, SetRunCalm

LEMMA AddJobCalm ==
  ASSUME TypeInv, NEW e \in Executions, AddJob(e)
  PROVE  \A f \in Executions : job'[f] = job[f] \/ (job[f] = "none" /\ job'[f] = "waiting")
BY DEF AddJob, TypeInv, QueueT

LEMMA CountChanges ==
  [Next]_vars =>
      \/ UNCHANGED <<job, stalls, days, inlined>>
      \/ \E s \in Slots : RunIncrement(s) \/ RunNextEnqueue(s)
      \/ \E s \in InlineSlots, c \in immediate : StartInline(s, c)
      \/ \E p \in Procs : \/ TriggerEnqueue(p) \/ RecTryAdd(p) \/ RunSettleJob(p)
                         \/ \E e \in Executions : TakeJob(p, e) \/ StallCheck(p, e)
BY DEF Next, Requests, Handlers, Worker, Reconcile, RunStep, Inline, Listeners, Stalled, Admin,
       vars, rows, queue, history, RunFrame, RecFrame, Write, Fetch, TriggerBegin,
       TriggerCheckPending, TriggerCheckRunning, TriggerCreate, CancelRead, CancelWrite,
       SetEnabled, Remove, HookRead, HookWrite, RunRead, RunStart, RunDay, RunFetchMeta,
       RunFetchPos, RunComplete, RunThrow, RunFail, RunNextRunning, RunNextPick,
       RunSettleInline, Age, RecFind, RecEnd, RecLook, RecWrite, RecNextPick, RecTryRunning,
       Crash

\* A worker takes a job: nothing of its execution is being counted by another.
LEMMA TakeJobStep ==
  ASSUME TypeInv, QueueInv, NEW p \in Procs, NEW e \in Executions, TakeJob(p, e)
  PROVE  QueueInv'
<1>a. /\ run \in [Slots -> Run] /\ job \in [Executions -> {"none", "waiting", "active", "completed", "failed"}]
      /\ p \in Slots /\ p \notin InlineSlots
  BY DEF TypeInv, RunT, QueueT, Slots
<1>1. /\ job[e] = "waiting" /\ job' = [job EXCEPT ![e] = "active"]
      /\ UNCHANGED <<days, stalls, inlined>> /\ run' = [run EXCEPT ![p] = NewRun(e, "queue")]
  BY DEF TakeJob, rows, history
<1>2. /\ run'[p].exec = e /\ run'[p].day = 0 /\ run'[p].pc = "read"
      /\ \A q \in Slots : q # p => run'[q] = run[q]
  BY <1>1, <1>a DEF NewRun
<1>3. \A q \in Procs : run[q].pc # "idle" => run[q].exec # e
  BY <1>1 DEF QueueInv, Held
<1>4. ASSUME NEW f \in Executions PROVE Left(f)' = Left(f) /\ Given(f)' = Given(f)
  BY <1>1, <1>2, <1>a, LeftSame DEF Given, Slots
<1>5. Held'
  <2>1. \A q \in Procs : run[q].pc # "idle" => run[q].exec \in Executions
    BY DEF TypeInv, RunT, RunOK, Slots
  <2> QED BY <1>1, <1>2, <1>3, <1>a, <2>1 DEF QueueInv, Held, Slots
<1>6. Single'
  BY <1>2, <1>3 DEF QueueInv, Single, Slots
<1>7. Fresh'
  BY <1>1, <1>4, <1>a DEF QueueInv, Fresh
<1>8. Counted'
  <2> SUFFICES ASSUME NEW q \in Procs, NEW f \in Executions,
                      run'[q].pc # "idle", run'[q].exec = f
               PROVE  days'[f] + Left(f)' <= Given(f)' + run'[q].day
    BY DEF Counted
  <2>1. CASE q = p
    <3>1. f = e /\ days[e] + Left(e) <= Given(e)
      BY <2>1, <1>1, <1>2 DEF QueueInv, Fresh
    <3> QED BY <2>1, <3>1, <1>1, <1>2, <1>4, NowTyped
  <2>2. CASE q # p
    BY <2>2, <1>1, <1>2, <1>4 DEF QueueInv, Counted, Slots
  <2> QED BY <2>1, <2>2
<1>9. Rework'
  BY <1>1, <1>4 DEF QueueInv, Rework
<1> QED BY <1>5, <1>6, <1>7, <1>8, <1>9 DEF QueueInv

\* A stalled job is given back, or fails: no worker holds it.
LEMMA StallCheckStep ==
  ASSUME TypeInv, QueueInv, NEW p \in Procs, NEW e \in Executions, StallCheck(p, e)
  PROVE  QueueInv'
<1>a. /\ job \in [Executions -> {"none", "waiting", "active", "completed", "failed"}]
      /\ stalls \in [Executions -> Nat] /\ inlined \in [Executions -> Nat]
  BY DEF TypeInv, QueueT
<1>1. /\ job[e] = "active" /\ UNCHANGED <<run, days, inlined>>
      /\ \A q \in Procs : run[q].pc # "idle" => run[q].exec # e
  BY DEF StallCheck, Abandoned, rows, history
<1>2. \/ job' = [job EXCEPT ![e] = "waiting"] /\ stalls' = [stalls EXCEPT ![e] = @ + 1]
      \/ job' = [job EXCEPT ![e] = "failed"] /\ stalls' = stalls
  BY DEF StallCheck
<1>3. /\ \A f \in Executions : f # e => job'[f] = job[f] /\ stalls'[f] = stalls[f]
      /\ \/ job'[e] = "waiting" /\ stalls'[e] = stalls[e] + 1
         \/ job'[e] = "failed" /\ stalls'[e] = stalls[e]
  BY <1>2, <1>a
<1>4. \A f \in Executions : Left(f)' = Left(f)
  BY <1>1 DEF Left, LeftOf
<1>5. \A f \in Executions : f # e => Given(f)' = Given(f)
  BY <1>1, <1>3 DEF Given
<1>6. \/ job'[e] = "waiting" /\ Given(e)' = Given(e) + Days
      \/ job'[e] = "failed" /\ Given(e)' = Given(e)
  BY <1>1, <1>3, <1>a, Distribute DEF Given
<1>7. days[e] + Left(e) <= Given(e) + Days /\ days'[e] = days[e]
  BY <1>1 DEF QueueInv, Rework
<1>8. Held' /\ Single'
  BY <1>1, <1>3, <1>a DEF QueueInv, Held, Single, TypeInv, RunT, RunOK, Slots
<1>9. Fresh'
  <2> SUFFICES ASSUME NEW f \in Executions, job'[f] \in {"none", "waiting"}
               PROVE  days'[f] + Left(f)' <= Given(f)'
    BY DEF Fresh
  <2>1. CASE f = e
    BY <2>1, <1>4, <1>6, <1>7
  <2>2. CASE f # e
    BY <2>2, <1>1, <1>3, <1>4, <1>5 DEF QueueInv, Fresh
  <2> QED BY <2>1, <2>2
<1>10. Counted'
  BY <1>1, <1>4, <1>5 DEF QueueInv, Counted
<1>11. Rework'
  <2> SUFFICES ASSUME NEW f \in Executions PROVE days'[f] + Left(f)' <= Given(f)' + Days
    BY DEF Rework
  <2>1. CASE f = e
    <3>1. Given(e) \in Nat /\ Left(e) \in Nat /\ days[e] \in Nat
      BY NowTyped
    <3>2. days[e] + Left(e) <= Given(e)' + Days
      BY <3>1, <1>6, <1>7
    <3> QED BY <2>1, <3>2, <1>4, <1>7
  <2>2. CASE f # e
    BY <2>2, <1>1, <1>4, <1>5 DEF QueueInv, Rework
  <2> QED BY <2>1, <2>2
<1> QED BY <1>8, <1>9, <1>10, <1>11 DEF QueueInv

\* Where every worker keeps its run or drops it, and what may be counted shrinks.
LEMMA DropStep ==
  ASSUME TypeInv, TypeInv', QueueInv, UNCHANGED <<days, stalls, inlined>>,
         \A s \in Slots : run'[s].pc = "idle" \/ run'[s] = run[s],
         \A e \in Executions : \/ job'[e] = job[e]
                               \/ /\ job'[e] \in {"completed", "failed"}
                                  /\ \A p \in Procs : run'[p].pc = "idle" \/ run'[p].exec # e
  PROVE  QueueInv'
<1>1. \A q \in Procs : run[q].pc # "idle" => run[q].exec \in Executions
  BY DEF TypeInv, RunT, RunOK, Slots
<1>2. ASSUME NEW e \in Executions
      PROVE  /\ Left(e)' <= Left(e) /\ Given(e)' = Given(e) /\ days'[e] = days[e]
             /\ Left(e) \in Nat /\ Left(e)' \in Nat /\ Given(e) \in Nat /\ days[e] \in Nat
  <2>1. \A s \in InlineSlots : LeftOf(run[s], e) \in Nat
    BY LeftTyped DEF TypeInv
  <2>2. \A s \in InlineSlots : LeftOf(run'[s], e) <= LeftOf(run[s], e)
    BY <2>1 DEF LeftOf, Slots
  <2>3. Left(e)' <= Left(e)
    BY <2>2, LeftLess DEF TypeInv
  <2> QED BY <2>3, NowTyped, NextTyped DEF Given
<1>3. Held' /\ Single'
  BY <1>1 DEF QueueInv, Held, Single, Slots
<1>4. Fresh'
  <2> SUFFICES ASSUME NEW e \in Executions, job'[e] \in {"none", "waiting"}
               PROVE  days'[e] + Left(e)' <= Given(e)'
    BY DEF Fresh
  <2>1. days[e] + Left(e) <= Given(e)
    BY DEF QueueInv, Fresh
  <2> QED BY <2>1, <1>2
<1>5. Counted'
  <2> SUFFICES ASSUME NEW p \in Procs, NEW e \in Executions,
                      run'[p].pc # "idle", run'[p].exec = e
               PROVE  days'[e] + Left(e)' <= Given(e)' + run'[p].day
    BY DEF Counted
  <2>1. run'[p] = run[p] /\ days[e] + Left(e) <= Given(e) + run[p].day /\ run[p].day \in Nat
    BY DEF QueueInv, Counted, Slots, TypeInv, RunT, Run
  <2> QED BY <2>1, <1>2
<1>6. Rework'
  <2> SUFFICES ASSUME NEW e \in Executions PROVE days'[e] + Left(e)' <= Given(e)' + Days
    BY DEF Rework
  <2>1. days[e] + Left(e) <= Given(e) + Days
    BY DEF QueueInv, Rework
  <2> QED BY <2>1, <1>2
<1> QED BY <1>3, <1>4, <1>5, <1>6 DEF QueueInv

\* An inline run begins with Days dates to count.
LEMMA StartInlineCalm ==
  ASSUME TypeInv, NEW s \in InlineSlots, NEW c \in immediate, StartInline(s, c)
  PROVE  Calm
<1>a. run \in [Slots -> Run] /\ inlined \in [Executions -> Nat] /\ c.exec \in Executions
      /\ s \in Slots /\ s \notin Procs
  BY DEF TypeInv, RunT, QueueT, Callback, Slots
<1>1. /\ run[s].pc = "idle" /\ run' = [run EXCEPT ![s] = NewRun(c.exec, c.origin)]
      /\ inlined' = [inlined EXCEPT ![c.exec] = @ + 1] /\ UNCHANGED <<job, days, stalls>>
  BY DEF StartInline, rows, queue
<1>2. run'[s].pc = "read" /\ run'[s].exec = c.exec /\ run'[s].day = 0
      /\ \A q \in Slots \ {s} : run'[q] = run[q]
  BY <1>1, <1>a DEF NewRun
<1>3. ASSUME NEW e \in Executions
      PROVE  days'[e] + Left(e)' + Given(e) <= days[e] + Left(e) + Given(e)'
  <2>1. LeftOf(run'[s], e) = (IF e = c.exec THEN Days ELSE 0) /\ LeftOf(run[s], e) = 0
    BY <1>1, <1>2 DEF LeftOf
  <2>2. Left(e)' = Left(e) + (IF e = c.exec THEN Days ELSE 0)
    <3>1. Left(e)' = Left(e) - LeftOf(run[s], e) + LeftOf(run'[s], e)
      BY <2>1, <1>2, LeftMoves DEF TypeInv, Slots
    <3> QED BY <2>1, <3>1, NowTyped
  <2>3. Given(e)' = Given(e) + (IF e = c.exec THEN Days ELSE 0)
    <3>1. CASE e = c.exec
      <4>1. inlined'[e] = inlined[e] + 1 /\ stalls'[e] = stalls[e]
        BY <3>1, <1>1, <1>a
      <4> QED BY <3>1, <4>1, GivenTyped, Distribute DEF TypeInv, Given
    <3>2. CASE e # c.exec
      <4>1. inlined'[e] = inlined[e] /\ stalls'[e] = stalls[e]
        BY <3>2, <1>1, <1>a
      <4> QED BY <3>2, <4>1, NowTyped DEF Given
    <3> QED BY <3>1, <3>2
  <2> QED BY <1>1, <2>2, <2>3, NowTyped
<1>4. \A p \in Procs : run'[p] = run[p]
  BY <1>2, <1>a DEF Slots
<1> QED BY <1>1, <1>3, <1>4 DEF Calm

\* A date counted inline is one less that the run has left.
LEMMA InlineCountCalm ==
  ASSUME TypeInv, NEW s \in InlineSlots, RunIncrement(s), Exists(run[s].exec)
  PROVE  Calm
<1> DEFINE r == [run[s] EXCEPT !.pc = "day", !.day = @ + 1]
<1>a. run \in [Slots -> Run] /\ days \in [Executions -> Nat] /\ s \in Slots /\ s \notin Procs
  BY DEF TypeInv, RunT, RowsT, Slots
<1>b. run[s].exec \in Executions /\ run[s].day < Days /\ run[s].day \in Nat /\ run[s].pc = "increment"
  BY <1>a DEF TypeInv, RunT, RunOK, Run, RunIncrement
<1>1. run' = [run EXCEPT ![s] = r] /\ days' = [days EXCEPT ![run[s].exec] = @ + 1]
      /\ UNCHANGED <<job, stalls, inlined>>
  BY <1>a DEF RunIncrement, RunFrame, queue, history
<1>2. r.pc = "day" /\ r.exec = run[s].exec /\ r.day = run[s].day + 1
  BY <1>a DEF Run
<1> HIDE DEF r
<1>3. run'[s] = r /\ \A q \in Slots \ {s} : run'[q] = run[q]
  BY <1>1, <1>a
<1>4. ASSUME NEW e \in Executions
      PROVE  days'[e] + Left(e)' + Given(e) <= days[e] + Left(e) + Given(e)'
  <2>1. /\ LeftOf(run[s], e) = (IF e = run[s].exec THEN Days - run[s].day ELSE 0)
        /\ LeftOf(run'[s], e) = (IF e = run[s].exec THEN Days - (run[s].day + 1) ELSE 0)
    BY <1>b, <1>2, <1>3 DEF LeftOf
  <2>2. Left(e)' = Left(e) - LeftOf(run[s], e) + LeftOf(run'[s], e)
    BY <2>1, <1>b, <1>3, LeftMoves DEF TypeInv, Slots
  <2>3. days'[e] = days[e] + (IF e = run[s].exec THEN 1 ELSE 0) /\ Given(e)' = Given(e)
    BY <1>1, <1>a, <1>b DEF Given
  <2>4. Left(e) \in Nat /\ Given(e) \in Nat /\ days[e] \in Nat
    BY NowTyped
  <2>5. CASE e = run[s].exec
    BY <2>1, <2>2, <2>3, <2>4, <2>5, <1>b
  <2>6. CASE e # run[s].exec
    BY <2>1, <2>2, <2>3, <2>4, <2>6
  <2> QED BY <2>5, <2>6
<1>5. \A p \in Procs : run'[p] = run[p]
  BY <1>3, <1>a DEF Slots
<1> QED BY <1>1, <1>4, <1>5 DEF Calm

\* A date counted by a worker was its own to count.
LEMMA QueueCountStep ==
  ASSUME TypeInv, QueueInv, NEW s \in Procs, RunIncrement(s), Exists(run[s].exec)
  PROVE  QueueInv'
<1> DEFINE r == [run[s] EXCEPT !.pc = "day", !.day = @ + 1]
<1>a. run \in [Slots -> Run] /\ days \in [Executions -> Nat] /\ s \in Slots /\ s \notin InlineSlots
  BY DEF TypeInv, RunT, RowsT, Slots
<1>b. PICK e \in Executions : e = run[s].exec
  BY <1>a DEF TypeInv, RunT, RunOK, Run, RunIncrement
<1>c. run[s].day < Days /\ run[s].day \in Nat /\ run[s].pc # "idle" /\ job[e] = "active"
  BY <1>a, <1>b DEF TypeInv, RunT, RunOK, Run, RunIncrement, QueueInv, Held
<1>1. run' = [run EXCEPT ![s] = r] /\ days' = [days EXCEPT ![e] = @ + 1]
      /\ UNCHANGED <<job, stalls, inlined>>
  BY <1>a, <1>b DEF RunIncrement, RunFrame, queue, history
<1>2. r.pc = "day" /\ r.exec = e /\ r.day = run[s].day + 1
  BY <1>a, <1>b DEF Run
<1> HIDE DEF r
<1>3. run'[s] = r /\ \A q \in Slots \ {s} : run'[q] = run[q]
  BY <1>1, <1>a
<1>4. \A f \in Executions : Left(f)' = Left(f) /\ Given(f)' = Given(f)
                            /\ Left(f) \in Nat /\ Given(f) \in Nat /\ days[f] \in Nat
  <2>1. \A q \in InlineSlots : run'[q] = run[q]
    BY <1>3, <1>a DEF Slots
  <2> QED BY <2>1, <1>1, LeftSame, NowTyped DEF Given
<1>5. days'[e] = days[e] + 1 /\ \A f \in Executions \ {e} : days'[f] = days[f]
  BY <1>1, <1>a
<1>6. days[e] + Left(e) <= Given(e) + run[s].day
  BY <1>b, <1>c DEF QueueInv, Counted
<1>7. Held' /\ Single'
  BY <1>1, <1>2, <1>3, <1>a, <1>b, <1>c DEF QueueInv, Held, Single, Slots
<1>8. Fresh'
  BY <1>1, <1>4, <1>5, <1>c DEF QueueInv, Fresh
<1>9. Counted'
  <2> SUFFICES ASSUME NEW q \in Procs, NEW f \in Executions,
                      run'[q].pc # "idle", run'[q].exec = f
               PROVE  days'[f] + Left(f)' <= Given(f)' + run'[q].day
    BY DEF Counted
  <2>1. CASE q = s
    BY <2>1, <1>2, <1>3, <1>4, <1>5, <1>6, <1>c
  <2>2. CASE q # s
    <3>1. run'[q] = run[q]
      BY <2>2, <1>3 DEF Slots
    <3>2. f # e
      BY <2>2, <3>1, <1>b, <1>c DEF QueueInv, Single
    <3> QED BY <3>1, <3>2, <1>4, <1>5 DEF QueueInv, Counted
  <2> QED BY <2>1, <2>2
<1>10. Rework'
  <2> SUFFICES ASSUME NEW f \in Executions PROVE days'[f] + Left(f)' <= Given(f)' + Days
    BY DEF Rework
  <2>1. CASE f = e
    BY <2>1, <1>4, <1>5, <1>6, <1>c
  <2>2. CASE f # e
    BY <2>2, <1>4, <1>5 DEF QueueInv, Rework
  <2> QED BY <2>1, <2>2
<1> QED BY <1>7, <1>8, <1>9, <1>10 DEF QueueInv

LEMMA QueueStep == TypeInv /\ QueueInv /\ [Next]_vars => QueueInv'
<1> SUFFICES ASSUME TypeInv, QueueInv, [Next]_vars PROVE QueueInv'
  OBVIOUS
<1> USE DEF RunFrame, RecFrame, rows, queue, history
<1>0. TypeInv'
  BY TypeStep
<1>a. run \in [Slots -> Run]
  BY DEF TypeInv, RunT
<1>1. ASSUME NEW s \in Slots, RunRead(s) PROVE QueueInv'
  <2>1. run[s] \in Run /\ run[s].pc # "idle" /\ UNCHANGED <<job, stalls, days, inlined>>
    BY <1>1, <1>a DEF RunRead
  <2>2. PICK pc \in {"start", "done"}, o \in {"completed", "failed"} :
            run' = [run EXCEPT ![s].seen = status[run[s].exec], ![s].pc = pc, ![s].outcome = o]
    BY <1>1, <1>a DEF RunRead
  <2> DEFINE r == [run[s] EXCEPT !.seen = status[run[s].exec], !.pc = pc, !.outcome = o]
  <2>3. run' = [run EXCEPT ![s] = r]
    BY <2>2, <1>a
  <2>4. r.pc = pc /\ r.exec = run[s].exec /\ r.day = run[s].day
    BY <2>1 DEF Run
  <2> HIDE DEF r
  <2>5. Calm
    BY <2>1, <2>3, <2>4, SetRunCalm
  <2> QED
    BY <1>0, <2>5, CalmStep
<1>2. ASSUME NEW s \in Slots, RunStart(s) PROVE QueueInv'
  <2>1. Calm
    BY <1>2, GotoCalm DEF RunStart, Write
  <2> QED
    BY <1>0, <2>1, CalmStep
<1>3. ASSUME NEW s \in Slots, RunDay(s) PROVE QueueInv'
  <2>1. Calm
    BY <1>3, GotoCalm DEF RunDay
  <2> QED
    BY <1>0, <2>1, CalmStep
<1>4. ASSUME NEW s \in Slots, RunFetchMeta(s) PROVE QueueInv'
  <2>1. Calm
    BY <1>4, GotoCalm DEF RunFetchMeta, Fetch
  <2> QED
    BY <1>0, <2>1, CalmStep
<1>5. ASSUME NEW s \in Slots, RunFetchPos(s) PROVE QueueInv'
  <2>1. Calm
    BY <1>5, GotoCalm DEF RunFetchPos, Fetch
  <2> QED
    BY <1>0, <2>1, CalmStep
<1>6. ASSUME NEW s \in Slots, RunComplete(s) PROVE QueueInv'
  <2>1. Calm
    BY <1>6, GotoCalm DEF RunComplete, Write
  <2> QED
    BY <1>0, <2>1, CalmStep
<1>7. ASSUME NEW s \in Slots, RunThrow(s) PROVE QueueInv'
  <2>1. Calm
    BY <1>7, GotoCalm DEF RunThrow
  <2> QED
    BY <1>0, <2>1, CalmStep
<1>8. ASSUME NEW s \in Slots, RunFail(s) PROVE QueueInv'
  <2>1. Calm
    BY <1>8, GotoCalm DEF RunFail, Write
  <2> QED
    BY <1>0, <2>1, CalmStep
<1>9. ASSUME NEW s \in Slots, RunNextRunning(s) PROVE QueueInv'
  <2>1. Calm
    BY <1>9, GotoCalm DEF RunNextRunning
  <2> QED
    BY <1>0, <2>1, CalmStep
<1>10. ASSUME NEW s \in Slots, RunNextPick(s) PROVE QueueInv'
  <2> DEFINE r(e) == [run[s] EXCEPT !.pc = "nextEnqueue", !.pick = e]
  <2>1. run[s] \in Run /\ run[s].pc # "idle" /\ UNCHANGED <<job, stalls, days, inlined>>
    BY <1>10, <1>a DEF RunNextPick
  <2>2. \A e : r(e).pc = "nextEnqueue" /\ r(e).exec = run[s].exec /\ r(e).day = run[s].day
    BY <2>1 DEF Run
  <2>3. Goto(s, "done") \/ \E e \in Executions : run' = [run EXCEPT ![s] = r(e)]
    BY <1>10, <1>a DEF RunNextPick, Oldest, TenantHas
  <2> HIDE DEF r
  <2>4. Calm
    BY <2>1, <2>2, <2>3, SetRunCalm, GotoCalm
  <2> QED
    BY <1>0, <2>4, CalmStep
<1>11. ASSUME NEW s \in Slots, RunNextEnqueue(s) PROVE QueueInv'
  <2> DEFINE r == [run[s] EXCEPT !.pc = "done"]
  <2>1. run[s].pick \in Executions
    BY <1>11 DEF RunNextEnqueue, TypeInv, RunT, RunOK
  <2>2. \A f \in Executions : job'[f] = job[f] \/ (job[f] = "none" /\ job'[f] = "waiting")
    BY <1>11, <2>1, AddJobCalm DEF RunNextEnqueue, Launch
  <2>3. run[s].pc # "idle" /\ run' = [run EXCEPT ![s] = r] /\ UNCHANGED <<stalls, days, inlined>>
    BY <1>11, <1>a DEF RunNextEnqueue, Goto
  <2>4. r.pc = "done" /\ r.exec = run[s].exec /\ r.day = run[s].day
    BY <1>a DEF Run
  <2> HIDE DEF r
  <2>5. Calm
    BY <2>2, <2>3, <2>4, SetRunCalm
  <2> QED
    BY <1>0, <2>5, CalmStep
<1>12. ASSUME NEW s \in Slots, RunIncrement(s) PROVE QueueInv'
  <2>1. CASE ~Exists(run[s].exec)
    <3>1. Calm
      BY <1>12, <2>1, GotoCalm DEF RunIncrement
    <3> QED
      BY <1>0, <3>1, CalmStep
  <2>2. CASE Exists(run[s].exec) /\ s \in Procs
    BY <1>12, <2>2, QueueCountStep
  <2>3. CASE Exists(run[s].exec) /\ s \in InlineSlots
    BY <1>0, <1>12, <2>3, InlineCountCalm, CalmStep
  <2> QED
    BY <2>1, <2>2, <2>3 DEF Slots
<1>13. ASSUME NEW p \in Procs, TriggerEnqueue(p) PROVE QueueInv'
  <2>1. trig[p].exec \in Executions
    BY <1>13 DEF TriggerEnqueue, TypeInv, TrigT, TrigOK
  <2>2. \A f \in Executions : job'[f] = job[f] \/ (job[f] = "none" /\ job'[f] = "waiting")
    BY <1>13, <2>1, AddJobCalm DEF TriggerEnqueue, Launch
  <2>3. Calm
    BY <1>13, <2>2, StillCalm DEF TriggerEnqueue
  <2> QED
    BY <1>0, <2>3, CalmStep
<1>14. ASSUME NEW p \in Procs, RecTryAdd(p) PROVE QueueInv'
  <2>1. rec[p].exec \in Executions
    BY <1>14, RecExec DEF RecTryAdd, TypeInv
  <2>2. \A f \in Executions : job'[f] = job[f] \/ (job[f] = "none" /\ job'[f] = "waiting")
    BY <1>14, <2>1, AddJobCalm DEF RecTryAdd
  <2>3. Calm
    BY <1>14, <2>2, StillCalm DEF RecTryAdd, Write
  <2> QED
    BY <1>0, <2>3, CalmStep
<1>15. ASSUME NEW p \in Procs, NEW e \in Executions, TakeJob(p, e) PROVE QueueInv'
  BY <1>15, TakeJobStep
<1>16. ASSUME NEW p \in Procs, NEW e \in Executions, StallCheck(p, e) PROVE QueueInv'
  BY <1>16, StallCheckStep
<1>17. ASSUME NEW s \in Procs, RunSettleJob(s) PROVE QueueInv'
  <2> DEFINE e == run[s].exec
  <2>1. /\ job' = [job EXCEPT ![e] = run[s].outcome] /\ UNCHANGED <<days, stalls, inlined>>
        /\ run' = [run EXCEPT ![s] = IdleRun] /\ run[s].pc # "idle" /\ e \in Executions
        /\ run[s].outcome \in {"completed", "failed"}
    BY <1>17, <1>a DEF RunSettleJob, Run, TypeInv, RunT, RunOK, Slots
  <2>2. run'[s].pc = "idle" /\ \A q \in Slots : q # s => run'[q] = run[q]
    BY <2>1, <1>a DEF IdleRun, Slots
  <2>3. \A q \in Procs : q # s /\ run[q].pc # "idle" => run[q].exec # e
    BY <2>1 DEF QueueInv, Single
  <2> HIDE DEF e
  <2>4. \A f \in Executions :
            \/ job'[f] = job[f]
            \/ /\ job'[f] \in {"completed", "failed"}
               /\ \A p \in Procs : run'[p].pc = "idle" \/ run'[p].exec # f
    BY <2>1, <2>2, <2>3 DEF TypeInv, QueueT, Slots
  <2> QED
    BY <1>0, <2>1, <2>2, <2>4, DropStep
<1>18. ASSUME NEW p \in Procs, Crash(p) PROVE QueueInv'
  <2>1. /\ UNCHANGED <<job, days, stalls, inlined>>
        /\ \A s \in Slots : run'[s].pc = "idle" \/ run'[s] = run[s]
    BY <1>18, <1>a DEF Crash, IdleRun
  <2> QED
    BY <1>0, <2>1, DropStep
<1>19. ASSUME NEW s \in InlineSlots, NEW c \in immediate, StartInline(s, c) PROVE QueueInv'
  BY <1>0, <1>19, StartInlineCalm, CalmStep
<1>20. ASSUME NEW s \in InlineSlots, RunSettleInline(s) PROVE QueueInv'
  <2>1. /\ UNCHANGED <<job, days, stalls, inlined>>
        /\ \A q \in Slots : run'[q].pc = "idle" \/ run'[q] = run[q]
    BY <1>20, <1>a DEF RunSettleInline, IdleRun, Write, Slots
  <2> QED
    BY <1>0, <2>1, DropStep
<1>21. CASE UNCHANGED <<run, job, stalls, days, inlined>>
  BY <1>0, <1>21, StillCalm, CalmStep
<1>22. CASE UNCHANGED run
  BY <1>22, CountChanges, <1>11, <1>12, <1>13, <1>14, <1>15, <1>16, <1>17, <1>19, <1>21
<1>23. CASE ~ UNCHANGED run
  BY <1>23, RunChanges, <1>1, <1>2, <1>3, <1>4, <1>5, <1>6, <1>7, <1>8, <1>9, <1>10,
     <1>11, <1>12, <1>15, <1>17, <1>18, <1>19, <1>20
<1> QED
  BY <1>22, <1>23

\* For any processes, inline runs, refused adds, crashes and stalls: two workers
\* never process one execution at once.
THEOREM QueueSingleRunner == Spec => []SingleRunner
<1>1. Init => TypeInv /\ QueueInv
  BY TypeInit, QueueInit
<1>2. (TypeInv /\ QueueInv) /\ [Next]_vars => (TypeInv /\ QueueInv)'
  BY TypeStep, QueueStep
<1>3. TypeInv /\ QueueInv => SingleRunner
  BY DEF QueueInv, Single, SingleRunner, Slots
<1> QED
  BY <1>1, <1>2, <1>3, PTL DEF Spec

\* Under the same: no date is counted more often than the execution was given to
\* a worker or started inline.
THEOREM QueueBoundedRework == Spec => []BoundedRework
<1>1. Init => TypeInv /\ QueueInv
  BY TypeInit, QueueInit
<1>2. (TypeInv /\ QueueInv) /\ [Next]_vars => (TypeInv /\ QueueInv)'
  BY TypeStep, QueueStep
<1>3. TypeInv /\ QueueInv => BoundedRework
  <2> SUFFICES ASSUME TypeInv, QueueInv, NEW e \in Executions
               PROVE  days[e] <= Days * (1 + stalls[e] + inlined[e])
    BY DEF BoundedRework
  <2>1. days[e] + Left(e) <= Given(e) + Days
    BY DEF QueueInv, Rework
  <2>2. Given(e) + Days = Days * (1 + stalls[e] + inlined[e])
    BY GivenTyped, Distribute DEF TypeInv, Given
  <2> QED BY <2>1, <2>2, NowTyped
<1> QED
  BY <1>1, <1>2, <1>3, PTL DEF Spec

-----------------------------------------------------------------------------
(* What a handler that is about to write a status has read of the row.      *)

Readable == Active \cup {"COMPLETED", "FAILED"}
Known(e) == status[e] # "absent"
Gone(e) == status[e] = "deleted"

\* A run that goes on past its reading saw the row, and not cancelled.  One that
\* a trigger started and that failed at its reading had lost its row: such a row
\* had been created, so it can only have been removed.
RunReads(r) ==
    /\ r.pc # "idle" /\ r.origin = "trigger" => Known(r.exec)
    /\ r.pc \notin {"idle", "read", "done"} => r.seen \in Readable
    /\ r.pc = "done" /\ r.origin = "trigger" /\ r.outcome = "failed" =>
         r.seen \in Readable \/ Gone(r.exec)
RecReads(r) ==
    /\ r.pc \notin {"idle", "scan"} => r.seen \in Active
    /\ \A i \in r.todo : i.seen \in Active

RunsRead == \A s \in Slots : RunReads(run[s])
TriggersKnow == \A p \in Procs : trig[p].pc = "enqueue" => Known(trig[p].exec)
CallbacksKnow == \A c \in immediate : c.origin = "trigger" => Known(c.exec)
CancelsRead == \A p \in Procs : cancel[p].exec # NoExec => cancel[p].seen \in Active
HooksRead == \A h \in hooks : h.seen # "absent" => h.seen \in Active
RecsRead == \A p \in Procs : RecReads(rec[p])

ReadInv == RunsRead /\ TriggersKnow /\ CallbacksKnow /\ CancelsRead /\ HooksRead /\ RecsRead

LEMMA ReadInit == Init => ReadInv
BY DEF Init, ReadInv, RunsRead, TriggersKnow, CallbacksKnow, CancelsRead, HooksRead, RecsRead,
       RunReads, RecReads, IdleRun, IdleTrig, IdleCancel, IdleRec

\* A status is written only of a row that exists, by one of these.
LEMMA StatusChanges ==
  ASSUME TypeInv, [Next]_vars
  PROVE  \/ status' = status
         \/ \E p \in Procs : TriggerCreate(p)
         \/ \E w \in Workflows : Remove(w)
         \/ \E p \in Procs : CancelWrite(p)
         \/ \E h \in hooks : HookWrite(h)
         \/ \E s \in Slots : RunStart(s) \/ RunComplete(s) \/ RunFail(s)
         \/ \E s \in InlineSlots : RunSettleInline(s)
         \/ \E p \in Procs : RecWrite(p) \/ RecTryAdd(p)
BY RowsChanges DEF rows, SetEnabled, RunFetchMeta, RunFetchPos, Fetch, RunIncrement, Age, Crash

\* Who writes a status, of which row.
Writes(e) == \E st \in Live : Exists(e) /\ status' = [status EXCEPT ![e] = st]

LEMMA StatusWrites ==
  ASSUME TypeInv, [Next]_vars
  PROVE  \/ status' = status
         \/ \E p \in Procs : TriggerCreate(p)
         \/ \E w \in Workflows : Remove(w)
         \/ \E p \in Procs : CancelWrite(p) /\ Writes(cancel[p].exec)
         \/ \E h \in hooks : HookWrite(h) /\ Writes(h.exec)
         \/ \E s \in Slots : /\ RunStart(s) \/ RunComplete(s) \/ RunFail(s)
                             /\ Writes(run[s].exec)
         \/ \E s \in InlineSlots : RunSettleInline(s) /\ Writes(run[s].exec)
         \/ \E p \in Procs : (RecWrite(p) \/ RecTryAdd(p)) /\ Writes(rec[p].exec)
<1> USE DEF Writes, Write, rows, Live, Active, Terminal
<1>1. ASSUME NEW p \in Procs, CancelWrite(p)
      PROVE  status' = status \/ Writes(cancel[p].exec)
  BY <1>1 DEF CancelWrite
<1>2. ASSUME NEW h \in hooks, HookWrite(h) PROVE status' = status \/ Writes(h.exec)
  <2>1. HookSets(h.kind) \in Live
    BY DEF TypeInv, HooksT, Hook, HookSets
  <2> QED BY <1>2, <2>1 DEF HookWrite
<1>3. ASSUME NEW s \in Slots, RunStart(s) \/ RunComplete(s) \/ RunFail(s)
      PROVE  status' = status \/ Writes(run[s].exec)
  BY <1>3 DEF RunStart, RunComplete, RunFail
<1>4. ASSUME NEW s \in InlineSlots, RunSettleInline(s)
      PROVE  status' = status \/ Writes(run[s].exec)
  BY <1>4 DEF RunSettleInline
<1>5. ASSUME NEW p \in Procs, RecWrite(p) PROVE status' = status \/ Writes(rec[p].exec)
  <2>1. RecSets(rec[p].act) \in Live
    BY <1>5 DEF RecWrite, TypeInv, RecT, Rec, RecOK, RecSets
  <2> QED BY <1>5, <2>1 DEF RecWrite
<1>6. ASSUME NEW p \in Procs, RecTryAdd(p) PROVE status' = status \/ Writes(rec[p].exec)
  BY <1>6 DEF RecTryAdd
<1> QED BY <1>1, <1>2, <1>3, <1>4, <1>5, <1>6, StatusChanges

\* A row that was created is never absent again, and a removed one stays removed.
LEMMA RowsStay ==
  ASSUME TypeInv, [Next]_vars, NEW e \in Executions
  PROVE  (Known(e) => Known(e)') /\ (Gone(e) => Gone(e)')
<1> USE DEF Known, Gone
<1>1. ASSUME NEW f, Writes(f) PROVE (Known(e) => Known(e)') /\ (Gone(e) => Gone(e)')
  BY <1>1 DEF Writes, Exists, Live, Active, Terminal, TypeInv, RowsT
<1>2. ASSUME NEW p \in Procs, TriggerCreate(p)
      PROVE  (Known(e) => Known(e)') /\ (Gone(e) => Gone(e)')
  BY <1>2 DEF TriggerCreate, rows, TypeInv, RowsT
<1>3. ASSUME NEW w \in Workflows, Remove(w)
      PROVE  (Known(e) => Known(e)') /\ (Gone(e) => Gone(e)')
  BY <1>3 DEF Remove
<1> QED BY <1>1, <1>2, <1>3, StatusWrites

LEMMA TriggersStep ==
  ASSUME TypeInv, ReadInv, [Next]_vars
  PROVE  TriggersKnow'
<1> USE DEF ReadInv, TriggersKnow
<1>1. ASSUME NEW p \in Procs, trig'[p] = trig[p] PROVE (trig[p].pc = "enqueue" => Known(trig[p].exec))'
  BY <1>1, RowsStay DEF TypeInv, TrigT, TrigOK
<1>2. ASSUME NEW q \in Procs, NEW t, trig' = [trig EXCEPT ![q] = t],
             t.pc = "enqueue" => Known(t.exec)'
      PROVE  TriggersKnow'
  BY <1>1, <1>2 DEF TypeInv, TrigT, Known
<1>3. CASE UNCHANGED trig
  BY <1>1, <1>3
<1>4. ASSUME NEW q \in Procs, trig' = [trig EXCEPT ![q] = IdleTrig] PROVE TriggersKnow'
  BY <1>2, <1>4 DEF IdleTrig
<1>5. ASSUME NEW q \in Procs, NEW w \in Workflows, TriggerBegin(q, w) PROVE TriggersKnow'
  <2> DEFINE t == [IdleTrig EXCEPT !.pc = "checkPending", !.wf = w]
  <2>1. t.pc # "enqueue"
    BY DEF IdleTrig
  <2>2. trig' = [trig EXCEPT ![q] = t]
    BY <1>5 DEF TriggerBegin
  <2> HIDE DEF t
  <2> QED BY <1>2, <2>1, <2>2
<1>6. ASSUME NEW q \in Procs, TriggerCheckPending(q) \/ TriggerCheckRunning(q) PROVE TriggersKnow'
  <2>1. \A p \in Procs : trig'[p] = trig[p] \/ trig'[p].pc # "enqueue"
    BY <1>6 DEF TriggerCheckPending, TriggerCheckRunning, IdleTrig, TypeInv, TrigT, Trig
  <2> QED BY <1>1, <2>1
<1>7. ASSUME NEW q \in Procs, TriggerCreate(q) PROVE TriggersKnow'
  <2>1. CASE trig' = [trig EXCEPT ![q] = IdleTrig]
    BY <1>4, <2>1
  <2>2. ASSUME NEW e \in Executions, status' = [status EXCEPT ![e] = "PENDING"],
               trig' = [trig EXCEPT ![q] = [@ EXCEPT !.pc = "enqueue", !.exec = e]]
        PROVE  TriggersKnow'
    <3> DEFINE t == [trig[q] EXCEPT !.pc = "enqueue", !.exec = e]
    <3>1. t.exec = e /\ trig' = [trig EXCEPT ![q] = t]
      BY <2>2 DEF TypeInv, TrigT, Trig
    <3>2. Known(e)'
      BY <2>2 DEF Known, TypeInv, RowsT
    <3> HIDE DEF t
    <3> QED BY <1>2, <3>1, <3>2 DEF Known
  <2> QED BY <1>7, <2>1, <2>2 DEF TriggerCreate
<1>8. ASSUME NEW q \in Procs, TriggerEnqueue(q) \/ Crash(q) PROVE TriggersKnow'
  BY <1>4, <1>8 DEF TriggerEnqueue, Crash
<1> QED BY <1>3, <1>5, <1>6, <1>7, <1>8, TrigChanges

LEMMA CallbacksStep ==
  ASSUME TypeInv, ReadInv, [Next]_vars
  PROVE  CallbacksKnow'
<1> USE DEF ReadInv, CallbacksKnow
<1>1. ASSUME NEW c \in immediate PROVE c.origin = "trigger" => Known(c.exec)'
  BY RowsStay DEF TypeInv, QueueT, Callback, Known
<1>2. CASE immediate' \subseteq immediate
  BY <1>1, <1>2 DEF Known
<1>3. ASSUME NEW p \in Procs, TriggerEnqueue(p) PROVE CallbacksKnow'
  <2>1. PICK e \in Executions : e = trig[p].exec /\ Known(e)'
    BY <1>3, RowsStay DEF TriggerEnqueue, TriggersKnow, TypeInv, TrigT, TrigOK
  <2>2. \A c \in immediate' : c \in immediate \/ c.exec = e
    BY <1>3, <2>1 DEF TriggerEnqueue, Launch, CallInline
  <2> QED BY <1>1, <2>1, <2>2 DEF Known
<1>4. ASSUME NEW c \in immediate' \ immediate,
             (\E s \in Slots : RunNextEnqueue(s)) \/ (\E p \in Procs : RecTryAdd(p))
      PROVE  c.origin = "next"
  BY <1>4 DEF RunNextEnqueue, RecTryAdd, Launch, CallInline
<1>5. CASE (\E s \in Slots : RunNextEnqueue(s)) \/ (\E p \in Procs : RecTryAdd(p))
  BY <1>1, <1>4, <1>5 DEF Known
<1>6. CASE \/ UNCHANGED <<queue, immediate, history>>
           \/ \E p \in Procs, e \in Executions : TakeJob(p, e) \/ StallCheck(p, e)
           \/ \E s \in InlineSlots, c \in immediate : StartInline(s, c)
           \/ \E s \in Procs : RunSettleJob(s)
           \/ \E p \in Procs : Crash(p)
  BY <1>2, <1>6 DEF TakeJob, StallCheck, StartInline, RunSettleJob, Crash
<1> QED BY <1>3, <1>5, <1>6, QueueChanges

LEMMA CancelsStep ==
  ASSUME TypeInv, ReadInv, [Next]_vars
  PROVE  CancelsRead'
BY CancelChanges DEF ReadInv, CancelsRead, CancelRead, CancelWrite, Crash, IdleCancel,
                     TypeInv, CancelT, Cancel

LEMMA HooksStep ==
  ASSUME TypeInv, ReadInv, [Next]_vars
  PROVE  HooksRead'
<1> USE DEF ReadInv, HooksRead
<1>1. CASE hooks' \subseteq hooks
  BY <1>1
<1>2. ASSUME NEW h \in hooks, HookRead(h) PROVE HooksRead'
  <2>1. ASSUME NEW g \in hooks', g \notin hooks PROVE g.seen \in Active
    BY <1>2, <2>1 DEF HookRead, HookWants, Active, TypeInv, HooksT, Hook
  <2> QED BY <2>1
<1>3. ASSUME NEW p \in Procs, NEW e \in Executions, TakeJob(p, e) \/ StallCheck(p, e)
      PROVE  HooksRead'
  BY <1>3 DEF TakeJob, StallCheck
<1>4. ASSUME NEW s \in Procs, RunSettleJob(s) PROVE HooksRead'
  BY <1>4 DEF RunSettleJob
<1>5. CASE (\E h \in hooks : HookWrite(h)) \/ (\E p \in Procs : Crash(p))
  BY <1>1, <1>5 DEF HookWrite, Crash
<1> QED BY <1>1, <1>2, <1>3, <1>4, <1>5, HooksChanges

\* The rows of a run stay as it needs them, whatever else happens.
LEMMA RunKept ==
  ASSUME TypeInv, ReadInv, [Next]_vars, NEW s \in Slots, run'[s] = run[s]
  PROVE  RunReads(run[s])'
<1>1. RunReads(run[s]) /\ (run[s].pc # "idle" => run[s].exec \in Executions)
  BY DEF ReadInv, RunsRead, TypeInv, RunT, RunOK
<1> QED BY <1>1, RowsStay DEF RunReads, Known, Gone

\* Of the runs, one is given another program counter, as its reading allows.
LEMMA RunMoved ==
  ASSUME TypeInv, ReadInv, [Next]_vars, NEW s \in Slots, NEW r \in Run,
         run' = [run EXCEPT ![s] = r],
         run[s].pc # "idle", r.exec = run[s].exec, r.origin = run[s].origin,
         \/ r.seen \in Readable
         \/ r.pc = "done" /\ (r.outcome = "failed" => Gone(r.exec) \/ ~ Known(r.exec))
  PROVE  RunsRead'
<1>1. ASSUME NEW t \in Slots \ {s} PROVE RunReads(run[t])'
  BY <1>1, RunKept DEF TypeInv, RunT
<1>2. run'[s] = r /\ r.exec \in Executions
  BY DEF TypeInv, RunT, RunOK
<1>3. r.origin = "trigger" => Known(r.exec)
  BY DEF ReadInv, RunsRead, RunReads
<1>4. RunReads(run[s])'
  BY <1>2, <1>3, RowsStay DEF RunReads, Known, Gone
<1> QED BY <1>1, <1>4 DEF RunsRead

\* Of the runs, one begins or is over.
LEMMA RunSet ==
  ASSUME TypeInv, ReadInv, [Next]_vars, NEW s \in Slots, NEW r,
         run' = [run EXCEPT ![s] = r], r.pc \in {"idle", "read"},
         r.pc = "read" /\ r.origin = "trigger" => Known(r.exec) /\ r.exec \in Executions
  PROVE  RunsRead'
<1>1. ASSUME NEW t \in Slots \ {s} PROVE RunReads(run[t])'
  BY <1>1, RunKept DEF TypeInv, RunT
<1>2. run'[s] = r
  BY DEF TypeInv, RunT
<1>3. RunReads(run[s])'
  BY <1>2, RowsStay DEF RunReads, Known
<1> QED BY <1>1, <1>3 DEF RunsRead

LEMMA ReadsOn ==
  ASSUME TypeInv, ReadInv, NEW s \in Slots, run[s].pc \notin {"idle", "read", "done"}
  PROVE  run[s].seen \in Readable
BY DEF ReadInv, RunsRead, RunReads

LEMMA GotoReads ==
  ASSUME TypeInv, ReadInv, [Next]_vars, NEW s \in Slots,
         run[s].pc \notin {"idle", "read", "done"},
         (\E pc : Goto(s, pc)) \/ GotoFail(s)
  PROVE  RunsRead'
<1>1. run[s] \in Run
  BY DEF TypeInv, RunT
<1>2. ASSUME NEW r, run' = [run EXCEPT ![s] = r],
             r.exec = run[s].exec, r.origin = run[s].origin, r.seen = run[s].seen
      PROVE  RunsRead'
  <2>1. r \in Run
    BY <1>2, RunTyped DEF RunT, TypeInv
  <2> QED BY <1>2, <2>1, ReadsOn, RunMoved
<1>3. ASSUME NEW pc, Goto(s, pc) PROVE RunsRead'
  <2> DEFINE r == [run[s] EXCEPT !.pc = pc]
  <2>1. r.exec = run[s].exec /\ r.origin = run[s].origin /\ r.seen = run[s].seen
    BY <1>1 DEF Run
  <2>2. run' = [run EXCEPT ![s] = r]
    BY <1>3 DEF Goto, TypeInv, RunT
  <2> HIDE DEF r
  <2> QED BY <1>2, <2>1, <2>2
<1>4. ASSUME GotoFail(s) PROVE RunsRead'
  <2> DEFINE r == [run[s] EXCEPT !.pc = "fail", !.outcome = "failed"]
  <2>1. r.exec = run[s].exec /\ r.origin = run[s].origin /\ r.seen = run[s].seen
    BY <1>1 DEF Run
  <2>2. run' = [run EXCEPT ![s] = r]
    BY <1>4 DEF GotoFail, TypeInv, RunT
  <2> HIDE DEF r
  <2> QED BY <1>2, <2>1, <2>2
<1> QED BY <1>3, <1>4

LEMMA RunsStep ==
  ASSUME TypeInv, ReadInv, [Next]_vars
  PROVE  RunsRead'
<1>1. CASE UNCHANGED run
  BY <1>1, RunKept DEF RunsRead
<1>2. ASSUME NEW p \in Procs, NEW e \in Executions, TakeJob(p, e) PROVE RunsRead'
  <2>1. run' = [run EXCEPT ![p] = NewRun(e, "queue")] /\ p \in Slots
    BY <1>2 DEF TakeJob, Slots
  <2>2. NewRun(e, "queue").pc = "read" /\ NewRun(e, "queue").origin = "queue"
    BY DEF NewRun
  <2> QED BY <2>1, <2>2, RunSet
<1>3. ASSUME NEW s \in InlineSlots, NEW c \in immediate, StartInline(s, c) PROVE RunsRead'
  <2> DEFINE r == NewRun(c.exec, c.origin)
  <2>1. run' = [run EXCEPT ![s] = r] /\ s \in Slots
    BY <1>3 DEF StartInline, Slots
  <2>2. r.pc = "read" /\ r.origin = c.origin /\ r.exec = c.exec
    BY DEF NewRun
  <2>3. c.exec \in Executions /\ (c.origin = "trigger" => Known(c.exec))
    BY DEF TypeInv, QueueT, Callback, ReadInv, CallbacksKnow
  <2> HIDE DEF r
  <2> QED BY <2>1, <2>2, <2>3, RunSet
<1>4. ASSUME NEW s \in Slots, RunRead(s) PROVE RunsRead'
  <2> DEFINE e == run[s].exec
             r == [run[s] EXCEPT !.seen = status[e],
                                 !.pc = IF Exists(e) /\ status[e] # "CANCELLED"
                                        THEN "start" ELSE "done",
                                 !.outcome = IF Exists(e) THEN "completed" ELSE "failed"]
  <2>1. run[s] \in Run /\ e \in Executions /\ status[e] \in Status
    BY <1>4 DEF RunRead, TypeInv, RunT, RunOK, RowsT
  <2>2. run' = [run EXCEPT ![s] = r]
    BY <1>4 DEF RunRead, TypeInv, RunT
  <2>3. /\ r.exec = e /\ r.origin = run[s].origin
        /\ \/ r.seen \in Readable
           \/ r.pc = "done" /\ (r.outcome = "failed" => Gone(e) \/ ~ Known(e))
    BY <2>1 DEF Run, Exists, Status, Live, Active, Terminal, Readable, Gone, Known
  <2>4. run'[s] = r
    BY <2>2 DEF TypeInv, RunT
  <2>5. r \in Run
    BY <2>4, RunTyped DEF RunT
  <2>6. run[s].pc # "idle"
    BY <1>4 DEF RunRead
  <2> HIDE DEF r
  <2> QED BY <2>2, <2>3, <2>5, <2>6, RunMoved
<1>5. ASSUME NEW s \in Slots,
             \/ RunStart(s) \/ RunDay(s) \/ RunFetchMeta(s) \/ RunFetchPos(s)
             \/ RunComplete(s) \/ RunThrow(s) \/ RunFail(s)
             \/ RunNextRunning(s) \/ RunNextEnqueue(s)
      PROVE  RunsRead'
  <2>1. /\ run[s].pc \notin {"idle", "read", "done"}
        /\ (\E pc : Goto(s, pc)) \/ GotoFail(s)
    BY <1>5 DEF RunStart, RunDay, RunFetchMeta, RunFetchPos, Fetch, RunComplete, RunThrow,
           RunFail, RunNextRunning, RunNextEnqueue
  <2> QED BY <2>1, GotoReads
<1>6. ASSUME NEW s \in Slots, RunIncrement(s) PROVE RunsRead'
  <2>1. CASE GotoFail(s)
    BY <1>6, <2>1, GotoReads DEF RunIncrement
  <2>2. CASE run' = [run EXCEPT ![s].pc = "day", ![s].day = @ + 1]
    <3> DEFINE r == [run[s] EXCEPT !.pc = "day", !.day = @ + 1]
    <3>1. run' = [run EXCEPT ![s] = r] /\ run'[s] = r
      BY <2>2 DEF TypeInv, RunT
    <3>2. r.exec = run[s].exec /\ r.origin = run[s].origin /\ r.seen = run[s].seen
      BY DEF TypeInv, RunT, Run
    <3>3. r \in Run
      BY <3>1, RunTyped DEF RunT
    <3>4. run[s].pc = "increment"
      BY <1>6 DEF RunIncrement
    <3> HIDE DEF r
    <3> QED BY <3>1, <3>2, <3>3, <3>4, ReadsOn, RunMoved
  <2> QED BY <1>6, <2>1, <2>2 DEF RunIncrement
<1>7. ASSUME NEW s \in Slots, RunNextPick(s) PROVE RunsRead'
  <2>1. CASE Goto(s, "done")
    BY <1>7, <2>1, GotoReads DEF RunNextPick
  <2>2. ASSUME NEW e, run' = [run EXCEPT ![s].pc = "nextEnqueue", ![s].pick = e]
        PROVE  RunsRead'
    <3> DEFINE r == [run[s] EXCEPT !.pc = "nextEnqueue", !.pick = e]
    <3>1. run' = [run EXCEPT ![s] = r] /\ run'[s] = r
      BY <2>2 DEF TypeInv, RunT
    <3>2. r.exec = run[s].exec /\ r.origin = run[s].origin /\ r.seen = run[s].seen
      BY DEF TypeInv, RunT, Run
    <3>3. r \in Run
      BY <3>1, RunTyped DEF RunT
    <3>4. run[s].pc = "nextPick"
      BY <1>7 DEF RunNextPick
    <3> HIDE DEF r
    <3> QED BY <3>1, <3>2, <3>3, <3>4, ReadsOn, RunMoved
  <2> QED BY <1>7, <2>1, <2>2 DEF RunNextPick
<1>8. ASSUME NEW s \in Slots, run' = [run EXCEPT ![s] = IdleRun] PROVE RunsRead'
  BY <1>8, RunSet DEF IdleRun
<1>9. ASSUME NEW p \in Procs, Crash(p) PROVE RunsRead'
  <2>1. ASSUME NEW s \in Slots PROVE RunReads(run[s])'
    <3>1. run'[s] = IdleRun \/ run'[s] = run[s]
      BY <1>9 DEF Crash
    <3>2. CASE run'[s] = IdleRun
      BY <3>2 DEF RunReads, IdleRun
    <3> QED BY <3>1, <3>2, RunKept
  <2> QED BY <2>1 DEF RunsRead
<1>10. ASSUME NEW s \in Procs, RunSettleJob(s) PROVE RunsRead'
  BY <1>8, <1>10 DEF RunSettleJob, Slots
<1>11. ASSUME NEW s \in InlineSlots, RunSettleInline(s) PROVE RunsRead'
  BY <1>8, <1>11 DEF RunSettleInline, Slots
<1> QED BY <1>1, <1>2, <1>3, <1>4, <1>5, <1>6, <1>7, <1>9, <1>10, <1>11, RunChanges

\* Of the reconcilers, one goes on with readings of unfinished rows.
LEMMA RecSet ==
  ASSUME TypeInv, ReadInv, NEW p \in Procs, NEW r, RecReads(r),
         rec' = [rec EXCEPT ![p] = r]
  PROVE  RecsRead'
BY DEF TypeInv, RecT, ReadInv, RecsRead, RecReads

LEMMA NextRowReads ==
  ASSUME TypeInv, ReadInv, NEW p \in Procs, RecNextRow(p)
  PROVE  RecsRead'
<1> DEFINE r == [pc |-> "scan", todo |-> rec[p].todo, exec |-> NoExec,
                 seen |-> "absent", act |-> "none"]
<1>1. RecReads(r)
  BY DEF ReadInv, RecsRead, RecReads
<1>2. rec' = [rec EXCEPT ![p] = r]
  BY DEF RecNextRow
<1> HIDE DEF r
<1> QED BY <1>1, <1>2, RecSet

LEMMA RecGotoReads ==
  ASSUME TypeInv, ReadInv, NEW p \in Procs, NEW pc, RecGoto(p, pc),
         rec[p].pc \notin {"idle", "scan"}
  PROVE  RecsRead'
<1> DEFINE r == [rec[p] EXCEPT !.pc = pc]
<1>1. RecReads(r)
  BY DEF TypeInv, RecT, Rec, ReadInv, RecsRead, RecReads
<1>2. rec' = [rec EXCEPT ![p] = r]
  BY DEF RecGoto, TypeInv, RecT
<1> HIDE DEF r
<1> QED BY <1>1, <1>2, RecSet

LEMMA RecsStep ==
  ASSUME TypeInv, ReadInv, [Next]_vars
  PROVE  RecsRead'
<1>1. CASE UNCHANGED rec
  BY <1>1 DEF ReadInv, RecsRead, RecReads
<1>2. ASSUME NEW p \in Procs, RecFind(p) PROVE RecsRead'
  <2> DEFINE found == {e \in stale : status[e] \in Active}
             r == [rec[p] EXCEPT !.pc = "scan",
                                 !.todo = {[exec |-> e, seen |-> status[e]] : e \in found}]
  <2>1. RecReads(r)
    BY DEF TypeInv, RecT, Rec, RecReads
  <2>2. rec' = [rec EXCEPT ![p] = r]
    BY <1>2 DEF RecFind, TypeInv, RecT
  <2> HIDE DEF r
  <2> QED BY <2>1, <2>2, RecSet
<1>3. ASSUME NEW p \in Procs, rec' = [rec EXCEPT ![p] = IdleRec] PROVE RecsRead'
  BY <1>3, RecSet DEF RecReads, IdleRec
<1>4. ASSUME NEW p \in Procs, RecLook(p) PROVE RecsRead'
  <2>1. PICK item \in rec[p].todo : RecLook(p)!2!(item)
    BY <1>4 DEF RecLook
  <2> DEFINE d == RecDecision(item.exec, item.seen)
             kept == [rec[p] EXCEPT !.todo = @ \ {item}]
             try == [kept EXCEPT !.pc = "tryRunning", !.exec = item.exec, !.seen = item.seen]
             write == [kept EXCEPT !.pc = "write", !.exec = item.exec, !.seen = item.seen, !.act = d]
  <2>2. rec[p] \in Rec /\ rec[p].pc = "scan" /\ item.seen \in Active /\ RecReads(rec[p])
    BY <1>4, <2>1 DEF RecLook, TypeInv, RecT, ReadInv, RecsRead, RecReads
  <2>3. kept \in Rec /\ kept.pc = "scan" /\ \A i \in kept.todo : i.seen \in Active
    BY <2>2 DEF Rec, RecReads
  <2>4. rec' = [rec EXCEPT ![p] = IF d = "none" THEN kept
                                  ELSE IF d = "tryEnqueue" THEN try ELSE write]
    BY <2>1
  <2> HIDE DEF kept, d
  <2>5. RecReads(kept) /\ RecReads(try) /\ RecReads(write)
    BY <2>2, <2>3 DEF Rec, RecReads
  <2> HIDE DEF try, write
  <2> QED BY <2>4, <2>5, RecSet
<1>5. ASSUME NEW p \in Procs, RecWrite(p) \/ RecTryRunning(p) \/ RecTryAdd(p) PROVE RecsRead'
  <2>1. \/ RecNextRow(p)
        \/ rec[p].pc \notin {"idle", "scan"} /\ \E pc : RecGoto(p, pc)
    BY <1>5 DEF RecWrite, RecTryRunning, RecTryAdd
  <2> QED BY <2>1, NextRowReads, RecGotoReads
<1>6. ASSUME NEW p \in Procs, RecNextPick(p) PROVE RecsRead'
  <2>1. CASE RecNextRow(p)
    BY <2>1, NextRowReads
  <2>2. ASSUME NEW e,
               rec' = [rec EXCEPT ![p].pc = "tryRunning", ![p].exec = e, ![p].seen = "PENDING"]
        PROVE  RecsRead'
    <3> DEFINE r == [rec[p] EXCEPT !.pc = "tryRunning", !.exec = e, !.seen = "PENDING"]
    <3>1. RecReads(r)
      BY DEF TypeInv, RecT, Rec, ReadInv, RecsRead, RecReads, Active
    <3>2. rec' = [rec EXCEPT ![p] = r]
      BY <2>2 DEF TypeInv, RecT
    <3> HIDE DEF r
    <3> QED BY <3>1, <3>2, RecSet
  <2> QED BY <1>6, <2>1, <2>2 DEF RecNextPick
<1> QED BY <1>1, <1>2, <1>3, <1>4, <1>5, <1>6, RecChanges DEF RecEnd, Crash

LEMMA ReadStep == TypeInv /\ ReadInv /\ [Next]_vars => ReadInv'
BY TriggersStep, CallbacksStep, CancelsStep, HooksStep, RunsStep, RecsStep DEF ReadInv

-----------------------------------------------------------------------------
(* The first run of an execution reads it unfinished, unless it was given   *)
(* more than once: until a run has read the row, nobody finishes it.        *)

Reading(e) == \E p \in Procs : run[p].exec = e /\ run[p].pc = "read"
Untaken(e) == ~Relaunched(e) /\ job[e] \in {"none", "waiting"}
Unread(e) == ~Relaunched(e) /\ (job[e] \in {"none", "waiting"} \/ Reading(e))

RowUnfinished == \A e \in Executions :
    /\ Unread(e) => status[e] \notin {"COMPLETED", "FAILED"}
    /\ Untaken(e) => status[e] # "RUNNING"
HooksUnfinished == \A e \in Executions, h \in hooks : h.exec = e =>
    /\ Unread(e) => h.kind = "active"
    /\ ~Untaken(e)
RecUnfinished(r) == \A e \in Executions :
    /\ r.pc = "write" /\ r.exec = e =>
         /\ Unread(e) => r.act \in {"setPending", "setRunning"}
         /\ Untaken(e) => r.act # "setRunning"
    /\ Untaken(e) => \A i \in r.todo : i.exec = e => i.seen # "RUNNING"
RecsUnfinished == \A p \in Procs : RecUnfinished(rec[p])
InlineCounted == \A s \in InlineSlots : run[s].pc # "idle" => inlined[run[s].exec] > 0
SeenFinished == \A s \in Slots : run[s].pc # "idle" /\ run[s].seen \in {"COMPLETED", "FAILED"}
                                   => Relaunched(run[s].exec)

FirstInv == RowUnfinished /\ HooksUnfinished /\ RecsUnfinished /\ InlineCounted /\ SeenFinished

LEMMA FirstInit == Init => FirstInv
BY DEF Init, FirstInv, RowUnfinished, HooksUnfinished, RecsUnfinished, RecUnfinished,
       InlineCounted, SeenFinished, Slots, IdleRun, IdleRec

\* An execution launched again stays so; one that is not has kept its counters.
LEMMA RelaunchedStays ==
  ASSUME TypeInv, [Next]_vars, NEW e \in Executions
  PROVE  /\ Relaunched(e) => Relaunched(e)'
         /\ stalls'[e] > 0 \/ stalls'[e] = stalls[e]
         /\ inlined'[e] > 0 \/ inlined'[e] = inlined[e]
         /\ refused'[e] > 0 \/ refused'[e] = refused[e]
<1>a. /\ stalls \in [Executions -> Nat] /\ inlined \in [Executions -> Nat]
      /\ refused \in [Executions -> Nat]
  BY DEF TypeInv, QueueT
<1>1. ASSUME NEW f, Refuse(f) PROVE \A g \in Executions : refused'[g] > 0 \/ refused'[g] = refused[g]
  BY <1>1, <1>a DEF Refuse
<1>2. refused' = refused \/ \E f : Refuse(f)
  BY QueueChanges DEF history, TriggerEnqueue, TakeJob, StallCheck, StartInline, RunNextEnqueue,
       RunSettleJob, RecTryAdd, Crash, Launch
<1>3. stalls' = stalls \/ \E f \in Executions : stalls' = [stalls EXCEPT ![f] = @ + 1]
  BY QueueChanges DEF queue, TriggerEnqueue, TakeJob, StallCheck, StartInline, RunNextEnqueue,
       RunSettleJob, RecTryAdd, RecFrame, Crash
<1>4. inlined' = inlined \/ \E f \in Executions : inlined' = [inlined EXCEPT ![f] = @ + 1]
  <2>1. ASSUME NEW s \in InlineSlots, NEW c \in immediate, StartInline(s, c)
        PROVE  \E f \in Executions : inlined' = [inlined EXCEPT ![f] = @ + 1]
    BY <2>1 DEF StartInline, TypeInv, QueueT, Callback
  <2> QED BY <2>1, QueueChanges DEF history, TriggerEnqueue, TakeJob, StallCheck,
       RunNextEnqueue, RunSettleJob, RecTryAdd, RecFrame, Crash
<1>5. refused'[e] > 0 \/ refused'[e] = refused[e]
  BY <1>1, <1>2
<1>6. stalls'[e] > 0 \/ stalls'[e] = stalls[e]
  BY <1>3, <1>a
<1>7. inlined'[e] > 0 \/ inlined'[e] = inlined[e]
  BY <1>4, <1>a
<1> QED BY <1>5, <1>6, <1>7 DEF Relaunched

LEMMA UntakenBefore ==
  ASSUME TypeInv, [Next]_vars, NEW e \in Executions, Untaken(e)'
  PROVE  Untaken(e)
<1>a. job \in [Executions -> {"none", "waiting", "active", "completed", "failed"}]
  BY DEF TypeInv, QueueT
<1>1. ~Relaunched(e)
  BY RelaunchedStays DEF Untaken
<1>2. job[e] \in {"none", "waiting"}
  <2>1. ASSUME NEW p \in Procs, NEW f \in Executions, StallCheck(p, f) PROVE job[e] \in {"none", "waiting"}
    <3>1. CASE f # e
      BY <2>1, <3>1, <1>a DEF StallCheck, Untaken
    <3>2. CASE f = e
      <4>1. job'[e] = "failed" \/ stalls'[e] > 0
        BY <2>1, <3>2, <1>a DEF StallCheck, TypeInv, QueueT
      <4> QED BY <4>1 DEF Untaken, Relaunched
    <3> QED BY <3>1, <3>2
  <2>2. ASSUME NEW f \in Executions, AddJob(f) PROVE job[e] \in {"none", "waiting"}
    BY <2>2, AddJobCalm, <1>a DEF Untaken
  <2>3. ASSUME NEW p \in Procs, TriggerEnqueue(p) PROVE job[e] \in {"none", "waiting"}
    BY <2>2, <2>3 DEF TriggerEnqueue, Launch, TypeInv, TrigT, TrigOK, Untaken
  <2>4. ASSUME NEW s \in Slots, RunNextEnqueue(s) PROVE job[e] \in {"none", "waiting"}
    BY <2>2, <2>4 DEF RunNextEnqueue, Launch, TypeInv, RunT, RunOK, Untaken
  <2>5. ASSUME NEW p \in Procs, RecTryAdd(p) PROVE job[e] \in {"none", "waiting"}
    BY <2>2, <2>5, RecExec DEF RecTryAdd, TypeInv, Untaken
  <2>6. ASSUME NEW p \in Procs, NEW f \in Executions, TakeJob(p, f) PROVE job[e] \in {"none", "waiting"}
    BY <2>6, <1>a DEF TakeJob, Untaken
  <2>7. ASSUME NEW s \in Procs, RunSettleJob(s) PROVE job[e] \in {"none", "waiting"}
    BY <2>7, <1>a DEF RunSettleJob, Untaken, TypeInv, RunT, RunOK, Run, Slots
  <2>8. job' = job => job[e] \in {"none", "waiting"}
    BY DEF Untaken
  <2> QED BY <2>1, <2>3, <2>4, <2>5, <2>6, <2>7, <2>8, QueueChanges DEF queue, StartInline, Crash
<1> QED BY <1>1, <1>2 DEF Untaken

LEMMA UnreadBefore ==
  ASSUME TypeInv, [Next]_vars, NEW e \in Executions, Unread(e)'
  PROVE  Unread(e)
<1>a. run \in [Slots -> Run]
  BY DEF TypeInv, RunT
<1>1. ~Relaunched(e)
  BY RelaunchedStays DEF Unread
<1>2. CASE job'[e] \in {"none", "waiting"}
  BY <1>2, UntakenBefore DEF Unread, Untaken
<1>3. ASSUME NEW p \in Procs, run'[p].exec = e, run'[p].pc = "read" PROVE Unread(e)
  <2>0. p \in Slots
    BY DEF Slots
  <2>1. run'[p] = run[p] \/ TakeJob(p, e) \/ run'[p].pc # "read"
    <3>1. ASSUME NEW s \in Slots, NEW pc, pc # "read", Goto(s, pc) PROVE run'[p] = run[p] \/ run'[p].pc # "read"
      BY <3>1, <2>0, <1>a DEF Goto, Run
    <3>2. ASSUME NEW s \in Slots, GotoFail(s) PROVE run'[p] = run[p] \/ run'[p].pc # "read"
      <4>1. CASE p = s
        <5> DEFINE r == [run[s] EXCEPT !.pc = "fail", !.outcome = "failed"]
        <5>1. r.pc = "fail"
          BY <1>a DEF Run
        <5>2. run'[s] = r
          BY <3>2, <1>a DEF GotoFail
        <5> QED BY <4>1, <5>1, <5>2
      <4>2. CASE p # s
        BY <3>2, <4>2, <2>0, <1>a DEF GotoFail
      <4> QED BY <4>1, <4>2
    <3>3. ASSUME NEW q \in Procs, NEW f \in Executions, TakeJob(q, f)
          PROVE  run'[p] = run[p] \/ TakeJob(p, e)
      <4>1. CASE p = q
        <5>1. run'[p].exec = f
          BY <3>3, <4>1, <2>0, <1>a DEF TakeJob, NewRun
        <5> QED BY <3>3, <4>1, <5>1, <1>3
      <4>2. CASE p # q
        BY <3>3, <4>2, <2>0, <1>a DEF TakeJob
      <4> QED BY <4>1, <4>2
    <3>4. ASSUME NEW s \in InlineSlots, NEW c \in immediate, StartInline(s, c) PROVE run'[p] = run[p]
      BY <3>4, <2>0, <1>a DEF StartInline
    <3>5. ASSUME NEW s \in Slots, RunRead(s) PROVE run'[p] = run[p] \/ run'[p].pc # "read"
      <4> DEFINE r(pc, o) == [run[s] EXCEPT !.seen = status[run[s].exec], !.pc = pc, !.outcome = o]
      <4>1. \A pc, o : r(pc, o).pc = pc
        BY <1>a DEF Run
      <4>2. \E pc \in {"start", "done"}, o \in {"completed", "failed"} : run' = [run EXCEPT ![s] = r(pc, o)]
        BY <3>5, <1>a DEF RunRead
      <4> HIDE DEF r
      <4> QED BY <4>1, <4>2, <2>0, <1>a
    <3>6. ASSUME NEW s \in Slots, RunIncrement(s) PROVE run'[p] = run[p] \/ run'[p].pc # "read"
      <4> DEFINE r == [run[s] EXCEPT !.pc = "day", !.day = @ + 1]
      <4>1. r.pc = "day"
        BY <1>a DEF Run
      <4>2. GotoFail(s) \/ run' = [run EXCEPT ![s] = r]
        BY <3>6, <1>a DEF RunIncrement
      <4> HIDE DEF r
      <4> QED BY <4>1, <4>2, <3>2, <2>0, <1>a
    <3>7. ASSUME NEW s \in Slots, RunNextPick(s) PROVE run'[p] = run[p] \/ run'[p].pc # "read"
      <4> DEFINE r(f) == [run[s] EXCEPT !.pc = "nextEnqueue", !.pick = f]
      <4>1. \A f : r(f).pc = "nextEnqueue"
        BY <1>a DEF Run
      <4>2. Goto(s, "done") \/ \E f : run' = [run EXCEPT ![s] = r(f)]
        BY <3>7, <1>a DEF RunNextPick
      <4> HIDE DEF r
      <4> QED BY <4>1, <4>2, <3>1, <2>0, <1>a
    <3>8. ASSUME NEW s \in Slots, run' = [run EXCEPT ![s] = IdleRun]
          PROVE  run'[p] = run[p] \/ run'[p].pc # "read"
      BY <3>8, <2>0, <1>a DEF IdleRun
    <3>9. ASSUME NEW q \in Procs, Crash(q) PROVE run'[p] = run[p] \/ run'[p].pc # "read"
      BY <3>9, <2>0, <1>a DEF Crash, IdleRun
    <3>10. ASSUME NEW s \in Slots,
                  \/ RunStart(s) \/ RunDay(s) \/ RunFetchMeta(s) \/ RunFetchPos(s) \/ RunComplete(s)
                  \/ RunThrow(s) \/ RunFail(s) \/ RunNextRunning(s) \/ RunNextEnqueue(s)
           PROVE  run'[p] = run[p] \/ run'[p].pc # "read"
      <4>1. \/ GotoFail(s)
            \/ \E pc \in {"day", "nextRunning", "fetchMeta", "fetchPos", "increment", "complete",
                          "nextPick", "done"} : Goto(s, pc)
        BY <3>10 DEF RunStart, RunDay, RunFetchMeta, RunFetchPos, Fetch, RunComplete, RunThrow,
             RunFail, RunNextRunning, RunNextEnqueue
      <4> QED BY <4>1, <3>1, <3>2
    <3> QED BY <3>3, <3>4, <3>5, <3>6, <3>7, <3>8, <3>9, <3>10, RunChanges
               DEF RunSettleJob, RunSettleInline, Slots
  <2>2. CASE run'[p] = run[p]
    BY <1>1, <1>3, <2>2 DEF Unread, Reading
  <2>3. CASE TakeJob(p, e)
    BY <1>1, <2>3 DEF TakeJob, Unread
  <2> QED BY <1>3, <2>1, <2>2, <2>3
<1> QED BY <1>2, <1>3 DEF Unread, Reading

\* The run that writes the row of an execution not yet read does not exist.
LEMMA UnreadHasNoWriter ==
  ASSUME TypeInv, QueueInv, FirstInv, NEW e \in Executions, Unread(e),
         NEW s \in Slots, run[s].exec = e, run[s].pc \notin {"idle", "read"}
  PROVE  FALSE
<1>1. CASE s \in InlineSlots
  BY <1>1 DEF FirstInv, InlineCounted, Unread, Relaunched
<1>2. CASE s \in Procs
  <2>1. job[e] = "active"
    BY <1>2 DEF QueueInv, Held
  <2>2. PICK p \in Procs : run[p].exec = e /\ run[p].pc = "read"
    BY <2>1 DEF Unread, Reading
  <2> QED BY <1>2, <2>2 DEF QueueInv, Single
<1> QED BY <1>1, <1>2 DEF Slots

LEMMA UntakenIsUnread == ASSUME NEW e, Untaken(e) PROVE Unread(e)
BY DEF Untaken, Unread

LEMMA RowUnfinishedStep ==
  ASSUME TypeInv, QueueInv, FirstInv, [Next]_vars
  PROVE  RowUnfinished'
<1> SUFFICES ASSUME NEW e \in Executions
             PROVE  /\ Unread(e)' => status'[e] \notin {"COMPLETED", "FAILED"}
                    /\ Untaken(e)' => status'[e] # "RUNNING"
  BY DEF RowUnfinished
<1>a. status \in [Executions -> Status]
  BY DEF TypeInv, RowsT
<1>b. /\ Unread(e)' => Unread(e) /\ status[e] \notin {"COMPLETED", "FAILED"}
      /\ Untaken(e)' => Untaken(e) /\ Unread(e)' /\ status[e] # "RUNNING"
  <2>1. Untaken(e)' => Unread(e)'
    BY DEF Untaken, Unread
  <2> QED BY <2>1, UnreadBefore, UntakenBefore DEF FirstInv, RowUnfinished
<1>1. CASE status'[e] = status[e]
  BY <1>1, <1>b
<1>2. CASE status'[e] # status[e] /\ Unread(e)'
  <2>1. ASSUME NEW f, Writes(f) PROVE f = e
    BY <1>2, <2>1, <1>a DEF Writes
  <2>2. ASSUME NEW p \in Procs, TriggerCreate(p) PROVE status'[e] \notin {"COMPLETED", "FAILED", "RUNNING"}
    BY <1>2, <2>2, <1>a DEF TriggerCreate, rows
  <2>3. ASSUME NEW w \in Workflows, Remove(w) PROVE status'[e] \notin {"COMPLETED", "FAILED", "RUNNING"}
    BY <1>2, <2>3 DEF Remove
  <2>4. ASSUME NEW p \in Procs, CancelWrite(p), Writes(cancel[p].exec)
        PROVE  status'[e] \notin {"COMPLETED", "FAILED", "RUNNING"}
    BY <1>2, <2>1, <2>4, <1>a DEF CancelWrite, Write, rows
  <2>5. ASSUME NEW h \in hooks, HookWrite(h), Writes(h.exec)
        PROVE  status'[e] \notin {"COMPLETED", "FAILED"} /\ ~Untaken(e)
    <3>1. h.exec = e /\ status'[e] = HookSets(h.kind)
      BY <1>2, <2>1, <2>5, <1>a DEF HookWrite, Write, rows
    <3>2. h.kind = "active" /\ ~Untaken(e)
      BY <1>2, <1>b, <3>1 DEF FirstInv, HooksUnfinished
    <3> QED BY <3>1, <3>2 DEF HookSets
  <2>6. ASSUME NEW s \in Slots, RunStart(s) \/ RunComplete(s) \/ RunFail(s), Writes(run[s].exec)
        PROVE  FALSE
    BY <1>2, <1>b, <2>1, <2>6, UnreadHasNoWriter DEF RunStart, RunComplete, RunFail
  <2>7. ASSUME NEW s \in InlineSlots, RunSettleInline(s), Writes(run[s].exec) PROVE FALSE
    BY <1>2, <1>b, <2>1, <2>7, UnreadHasNoWriter DEF RunSettleInline, Slots
  <2>8. ASSUME NEW p \in Procs, RecWrite(p), Writes(rec[p].exec)
        PROVE  status'[e] \notin {"COMPLETED", "FAILED"} /\ (Untaken(e) => status'[e] # "RUNNING")
    <3>1. rec[p].exec = e /\ rec[p].pc = "write" /\ status'[e] = RecSets(rec[p].act)
      BY <1>2, <2>1, <2>8, <1>a DEF RecWrite, Write, rows
    <3>2. rec[p].act \in {"setPending", "setRunning"} /\ (Untaken(e) => rec[p].act # "setRunning")
      BY <1>2, <1>b, <3>1 DEF FirstInv, RecsUnfinished, RecUnfinished
    <3> QED BY <3>1, <3>2 DEF RecSets
  <2>9. ASSUME NEW p \in Procs, RecTryAdd(p), Writes(rec[p].exec) PROVE FALSE
    <3>1. rec[p].exec = e /\ Refuse(e)
      BY <1>2, <2>1, <2>9, <1>a DEF RecTryAdd, rows
    <3>2. refused'[e] > 0
      BY <3>1 DEF Refuse, TypeInv, QueueT
    <3> QED BY <1>2, <3>2 DEF Unread, Relaunched
  <2> QED BY <1>2, <1>b, <2>2, <2>3, <2>4, <2>5, <2>6, <2>7, <2>8, <2>9, StatusWrites
<1> QED BY <1>1, <1>2, <1>b

\* The job of a settled run, or of one that stalled for good, is read by nobody.
LEMMA HooksUnfinishedStep ==
  ASSUME TypeInv, QueueInv, FirstInv, [Next]_vars
  PROVE  HooksUnfinished'
<1> SUFFICES ASSUME NEW e \in Executions, NEW h \in hooks', h.exec = e
             PROVE  (Unread(e)' => h.kind = "active") /\ ~Untaken(e)'
  BY DEF HooksUnfinished
<1>a. /\ run \in [Slots -> Run] /\ job \in [Executions -> {"none", "waiting", "active", "completed", "failed"}]
      /\ hooks \in SUBSET Hook
  BY DEF TypeInv, RunT, QueueT, HooksT
<1>1. ASSUME NEW g \in hooks, g.exec = e, g.kind = h.kind
      PROVE  (Unread(e)' => h.kind = "active") /\ ~Untaken(e)'
  BY <1>1, UnreadBefore, UntakenBefore DEF FirstInv, HooksUnfinished
<1>2. ASSUME NEW p \in Procs, NEW f \in Executions, TakeJob(p, f), h \notin hooks
      PROVE  (Unread(e)' => h.kind = "active") /\ ~Untaken(e)'
  BY <1>2, <1>a DEF TakeJob, Untaken
<1>3. ASSUME NEW p \in Procs, NEW f \in Executions, StallCheck(p, f), h \notin hooks
      PROVE  (Unread(e)' => h.kind = "active") /\ ~Untaken(e)'
  <2>1. f = e /\ job'[e] = "failed" /\ Abandoned(e) /\ run' = run
    BY <1>3, <1>a DEF StallCheck
  <2>2. ~Reading(e)'
    BY <2>1 DEF Abandoned, Reading
  <2> QED BY <2>1, <2>2 DEF Unread, Untaken
<1>4. ASSUME NEW s \in Procs, RunSettleJob(s), h \notin hooks
      PROVE  (Unread(e)' => h.kind = "active") /\ ~Untaken(e)'
  <2>0. h.exec = run[s].exec
    BY <1>4 DEF RunSettleJob
  <2>1. /\ run[s].exec = e /\ run[s].pc = "done" /\ job' = [job EXCEPT ![e] = run[s].outcome]
        /\ run' = [run EXCEPT ![s] = IdleRun]
    BY <1>4, <2>0 DEF RunSettleJob
  <2>4. run[s] \in Run
    BY <1>a DEF Slots
  <2>5. run[s].outcome \in {"completed", "failed"}
    BY <2>4 DEF Run
  <2>2. job'[e] \in {"completed", "failed"}
    BY <2>1, <2>5, <1>a
  <2>3. ~Reading(e)'
    BY <2>1, <1>a DEF Reading, QueueInv, Single, IdleRun, Slots
  <2> QED BY <2>2, <2>3 DEF Unread, Untaken
<1>5. ASSUME NEW g \in hooks, HookRead(g), h \notin hooks
      PROVE  (Unread(e)' => h.kind = "active") /\ ~Untaken(e)'
  <2>1. h.exec = g.exec /\ h.kind = g.kind
    BY <1>5, <1>a DEF HookRead, Hook
  <2> QED BY <2>1, <1>1
<1> QED BY <1>1, <1>2, <1>3, <1>4, <1>5, HooksChanges DEF HookWrite, Crash

LEMMA RecsUnfinishedStep ==
  ASSUME TypeInv, QueueInv, FirstInv, [Next]_vars
  PROVE  RecsUnfinished'
<1>a. rec \in [Procs -> Rec]
  BY DEF TypeInv, RecT
<1> DEFINE Keeps(r) == \A e \in Executions :
              /\ r.pc = "write" /\ r.exec = e =>
                   /\ Unread(e) => r.act \in {"setPending", "setRunning"}
                   /\ Untaken(e) => r.act # "setRunning"
              /\ Untaken(e) => \A i \in r.todo : i.exec = e => i.seen # "RUNNING"
\* What holds of a record before the step holds of it after.
<1>1. ASSUME NEW r, RecUnfinished(r) PROVE RecUnfinished(r)'
  <2> SUFFICES ASSUME NEW e \in Executions
               PROVE  /\ r.pc = "write" /\ r.exec = e =>
                           /\ Unread(e)' => r.act \in {"setPending", "setRunning"}
                           /\ Untaken(e)' => r.act # "setRunning"
                      /\ Untaken(e)' => \A i \in r.todo : i.exec = e => i.seen # "RUNNING"
    BY DEF RecUnfinished
  <2> QED BY <1>1, UnreadBefore, UntakenBefore DEF RecUnfinished
<1>2. ASSUME NEW p \in Procs, NEW r, RecUnfinished(r), rec' = [rec EXCEPT ![p] = r]
      PROVE  RecsUnfinished'
  <2> SUFFICES ASSUME NEW q \in Procs PROVE RecUnfinished(rec[q])'
    BY DEF RecsUnfinished
  <2>1. \E x : x = rec'[q] /\ RecUnfinished(x)
    BY <1>2, <1>a DEF FirstInv, RecsUnfinished
  <2>2. PICK x : x = rec'[q] /\ RecUnfinished(x)
    BY <2>1
  <2>3. RecUnfinished(x)'
    BY <2>2, <1>1
  <2> QED BY <2>2, <2>3 DEF RecUnfinished
<1>3. CASE UNCHANGED rec
  <2> SUFFICES ASSUME NEW q \in Procs PROVE RecUnfinished(rec[q])'
    BY DEF RecsUnfinished
  <2>1. PICK x : x = rec[q] /\ RecUnfinished(x)
    BY DEF FirstInv, RecsUnfinished
  <2>2. RecUnfinished(x)'
    BY <2>1, <1>1
  <2> QED BY <2>1, <2>2, <1>3 DEF RecUnfinished
<1>4. ASSUME NEW p \in Procs, NEW r, r.pc # "write", r.todo \subseteq rec[p].todo,
             rec' = [rec EXCEPT ![p] = r]
      PROVE  RecsUnfinished'
  <2>1. RecUnfinished(r)
    BY <1>4 DEF FirstInv, RecsUnfinished, RecUnfinished
  <2> QED BY <1>2, <1>4, <2>1
<1>5. ASSUME NEW p \in Procs, RecNextRow(p) PROVE RecsUnfinished'
  <2> DEFINE r == [pc |-> "scan", todo |-> rec[p].todo, exec |-> NoExec,
                   seen |-> "absent", act |-> "none"]
  <2>1. r.pc # "write" /\ r.todo \subseteq rec[p].todo /\ rec' = [rec EXCEPT ![p] = r]
    BY <1>5 DEF RecNextRow
  <2> HIDE DEF r
  <2> QED BY <2>1, <1>4
<1>6. ASSUME NEW p \in Procs, NEW pc, pc # "write", RecGoto(p, pc) PROVE RecsUnfinished'
  <2> DEFINE r == [rec[p] EXCEPT !.pc = pc]
  <2>1. r.pc # "write" /\ r.todo \subseteq rec[p].todo /\ rec' = [rec EXCEPT ![p] = r]
    BY <1>6, <1>a DEF RecGoto, Rec
  <2> HIDE DEF r
  <2> QED BY <2>1, <1>4
<1>7. ASSUME NEW p \in Procs, RecFind(p) PROVE RecsUnfinished'
  <2> DEFINE found == {e \in stale : status[e] \in Active}
             todo == {[exec |-> e, seen |-> status[e]] : e \in found}
             r == [rec[p] EXCEPT !.pc = "scan", !.todo = todo]
  <2>1. r.pc = "scan" /\ r.todo = todo /\ rec' = [rec EXCEPT ![p] = r]
    BY <1>7, <1>a DEF RecFind, Rec
  <2>2. ASSUME NEW e \in Executions, Untaken(e), NEW i \in todo, i.exec = e PROVE i.seen # "RUNNING"
    BY <2>2 DEF FirstInv, RowUnfinished
  <2> HIDE DEF r, todo
  <2>3. RecUnfinished(r)
    BY <2>1, <2>2 DEF RecUnfinished
  <2> QED BY <2>1, <2>3, <1>2
<1>8. ASSUME NEW p \in Procs, RecLook(p) PROVE RecsUnfinished'
  <2>1. PICK item \in rec[p].todo : RecLook(p)!2!(item)
    BY <1>8 DEF RecLook
  <2> DEFINE d == RecDecision(item.exec, item.seen)
             kept == [rec[p] EXCEPT !.todo = @ \ {item}]
             try == [kept EXCEPT !.pc = "tryRunning", !.exec = item.exec, !.seen = item.seen]
             write == [kept EXCEPT !.pc = "write", !.exec = item.exec, !.seen = item.seen, !.act = d]
  <2>2. rec[p] \in Rec /\ rec[p].pc = "scan" /\ item \in Found
    BY <1>8, <2>1, <1>a DEF RecLook, Rec
  <2>3. /\ kept \in Rec /\ kept.pc = "scan" /\ kept.todo \subseteq rec[p].todo
        /\ try.pc = "tryRunning" /\ try.todo \subseteq rec[p].todo
        /\ write.pc = "write" /\ write.todo \subseteq rec[p].todo
        /\ write.exec = item.exec /\ write.act = d
    BY <2>2 DEF Rec
  <2>4. rec' = [rec EXCEPT ![p] = IF d = "none" THEN kept
                                  ELSE IF d = "tryEnqueue" THEN try ELSE write]
    BY <2>1
  <2>5. ASSUME NEW e \in Executions, e = item.exec, Untaken(e) PROVE d # "setRunning" /\ item.seen # "RUNNING"
    <3>1. item.seen # "RUNNING"
      BY <2>5 DEF FirstInv, RecsUnfinished, RecUnfinished
    <3> QED BY <2>5, <3>1 DEF Untaken, RecDecision
  <2>6. ASSUME NEW e \in Executions, e = item.exec, Unread(e), d \notin {"none", "tryEnqueue"}
        PROVE  d \in {"setPending", "setRunning"}
    <3>1. CASE job[e] \in {"none", "waiting"}
      BY <2>5, <2>6, <3>1 DEF Unread, Untaken, RecDecision
    <3>2. CASE Reading(e)
      <4>1. job[e] = "active"
        BY <3>2 DEF Reading, QueueInv, Held
      <4> QED BY <2>6, <4>1 DEF RecDecision
    <3> QED BY <2>6, <3>1, <3>2 DEF Unread
  <2> HIDE DEF kept, try, write, d
  <2>7. d \notin {"none", "tryEnqueue"} => RecUnfinished(write)
    BY <2>3, <2>5, <2>6 DEF FirstInv, RecsUnfinished, RecUnfinished
  <2>8. CASE d = "none"
    BY <2>3, <2>4, <2>8, <1>4
  <2>9. CASE d = "tryEnqueue"
    BY <2>3, <2>4, <2>9, <1>4
  <2>10. CASE d \notin {"none", "tryEnqueue"}
    BY <2>4, <2>7, <2>10, <1>2
  <2> QED BY <2>8, <2>9, <2>10
<1>9. ASSUME NEW p \in Procs, RecNextPick(p) PROVE RecsUnfinished'
  <2>1. CASE RecNextRow(p)
    BY <2>1, <1>5
  <2>2. ASSUME NEW e,
               rec' = [rec EXCEPT ![p].pc = "tryRunning", ![p].exec = e, ![p].seen = "PENDING"]
        PROVE  RecsUnfinished'
    <3> DEFINE r == [rec[p] EXCEPT !.pc = "tryRunning", !.exec = e, !.seen = "PENDING"]
    <3>1. r.pc # "write" /\ r.todo \subseteq rec[p].todo /\ rec' = [rec EXCEPT ![p] = r]
      BY <2>2, <1>a DEF Rec
    <3> HIDE DEF r
    <3> QED BY <3>1, <1>4
  <2> QED BY <1>9, <2>1, <2>2 DEF RecNextPick
<1>10. ASSUME NEW p \in Procs, RecWrite(p) \/ RecTryRunning(p) \/ RecTryAdd(p) PROVE RecsUnfinished'
  BY <1>5, <1>6, <1>10 DEF RecWrite, RecTryRunning, RecTryAdd
<1>11. ASSUME NEW p \in Procs, rec' = [rec EXCEPT ![p] = IdleRec] PROVE RecsUnfinished'
  <2>1. RecUnfinished(IdleRec)
    BY DEF RecUnfinished, IdleRec
  <2> QED BY <1>2, <1>11, <2>1
<1> QED BY <1>3, <1>7, <1>8, <1>9, <1>10, <1>11, RecChanges DEF RecEnd, Crash

LEMMA RunsFirstStep ==
  ASSUME TypeInv, TypeInv', QueueInv, FirstInv, [Next]_vars
  PROVE  InlineCounted' /\ SeenFinished'
<1>a. /\ run \in [Slots -> Run] /\ inlined \in [Executions -> Nat]
      /\ \A s \in Slots : run[s].pc # "idle" => run[s].exec \in Executions
      /\ \A s \in Slots : run'[s].pc # "idle" => run'[s].exec \in Executions
  BY DEF TypeInv, RunT, RunOK, QueueT
<1>b. \A e \in Executions : /\ Relaunched(e) => Relaunched(e)'
                            /\ inlined'[e] > 0 \/ inlined'[e] = inlined[e]
  BY RelaunchedStays
\* A slot keeps its execution and reading, or is idle, or begins or reads a run.
<1>1. ASSUME NEW s \in Slots, run'[s].pc # "idle"
      PROVE  \/ run[s].pc # "idle" /\ run'[s].exec = run[s].exec /\ run'[s].seen = run[s].seen
             \/ s \in Procs /\ run'[s].seen = "absent"
             \/ s \in InlineSlots /\ run'[s].seen = "absent" /\ inlined'[run'[s].exec] > 0
             \/ RunRead(s) /\ run[s].pc = "read" /\ run'[s].exec = run[s].exec
                           /\ run'[s].seen = status[run[s].exec]
  <2> DEFINE Same(t) == run'[t].exec = run[t].exec /\ run'[t].seen = run[t].seen
  <2>1. ASSUME NEW t \in Slots, run[t].pc # "idle", (\E pc : Goto(t, pc)) \/ GotoFail(t)
        PROVE  run[s].pc # "idle" /\ Same(s)
    <3> DEFINE r(pc) == [run[t] EXCEPT !.pc = pc]
               f == [run[t] EXCEPT !.pc = "fail", !.outcome = "failed"]
    <3>1. /\ \A pc : r(pc).exec = run[t].exec /\ r(pc).seen = run[t].seen
          /\ f.exec = run[t].exec /\ f.seen = run[t].seen
      BY <1>a DEF Run
    <3>2. (\E pc : run' = [run EXCEPT ![t] = r(pc)]) \/ run' = [run EXCEPT ![t] = f]
      BY <2>1, <1>a DEF Goto, GotoFail
    <3> HIDE DEF r, f
    <3> QED BY <1>1, <2>1, <3>1, <3>2, <1>a
  <2>2. ASSUME NEW p \in Procs, NEW e \in Executions, TakeJob(p, e)
        PROVE  (run[s].pc # "idle" /\ Same(s)) \/ (s \in Procs /\ run'[s].seen = "absent")
    BY <1>1, <2>2, <1>a DEF TakeJob, NewRun
  <2>3. ASSUME NEW t \in InlineSlots, NEW c \in immediate, StartInline(t, c)
        PROVE  \/ run[s].pc # "idle" /\ Same(s)
               \/ s \in InlineSlots /\ run'[s].seen = "absent" /\ inlined'[run'[s].exec] > 0
    <3>1. c.exec \in Executions
      BY DEF TypeInv, QueueT, Callback
    <3>2. inlined'[c.exec] > 0
      BY <2>3, <3>1, <1>a DEF StartInline
    <3> QED BY <1>1, <2>3, <3>2, <1>a DEF StartInline, NewRun
  <2>4. ASSUME NEW t \in Slots, RunRead(t)
        PROVE  \/ run[s].pc # "idle" /\ Same(s)
               \/ RunRead(s) /\ run[s].pc = "read" /\ run'[s].exec = run[s].exec
                             /\ run'[s].seen = status[run[s].exec]
    <3> DEFINE r(pc, o) == [run[t] EXCEPT !.seen = status[run[t].exec], !.pc = pc, !.outcome = o]
    <3>1. \A pc, o : r(pc, o).exec = run[t].exec /\ r(pc, o).seen = status[run[t].exec]
      BY <1>a DEF Run
    <3>2. \E pc, o : run' = [run EXCEPT ![t] = r(pc, o)]
      BY <2>4, <1>a DEF RunRead
    <3>3. run[t].pc = "read"
      BY <2>4 DEF RunRead
    <3> HIDE DEF r
    <3> QED BY <1>1, <2>4, <3>1, <3>2, <3>3, <1>a
  <2>5. ASSUME NEW t \in Slots, RunIncrement(t) PROVE run[s].pc # "idle" /\ Same(s)
    <3> DEFINE r == [run[t] EXCEPT !.pc = "day", !.day = @ + 1]
    <3>1. r.exec = run[t].exec /\ r.seen = run[t].seen
      BY <1>a DEF Run
    <3>2. run[t].pc # "idle" /\ (GotoFail(t) \/ run' = [run EXCEPT ![t] = r])
      BY <2>5, <1>a DEF RunIncrement
    <3> HIDE DEF r
    <3> QED BY <1>1, <2>1, <3>1, <3>2, <1>a
  <2>6. ASSUME NEW t \in Slots, RunNextPick(t) PROVE run[s].pc # "idle" /\ Same(s)
    <3> DEFINE r(f) == [run[t] EXCEPT !.pc = "nextEnqueue", !.pick = f]
    <3>1. \A f : r(f).exec = run[t].exec /\ r(f).seen = run[t].seen
      BY <1>a DEF Run
    <3>2. run[t].pc # "idle" /\ (Goto(t, "done") \/ \E f : run' = [run EXCEPT ![t] = r(f)])
      BY <2>6, <1>a DEF RunNextPick
    <3> HIDE DEF r
    <3> QED BY <1>1, <2>1, <3>1, <3>2, <1>a
  <2>7. ASSUME NEW t \in Slots,
               \/ RunStart(t) \/ RunDay(t) \/ RunFetchMeta(t) \/ RunFetchPos(t) \/ RunComplete(t)
               \/ RunThrow(t) \/ RunFail(t) \/ RunNextRunning(t) \/ RunNextEnqueue(t)
        PROVE  run[s].pc # "idle" /\ Same(s)
    <3>1. run[t].pc # "idle" /\ ((\E pc : Goto(t, pc)) \/ GotoFail(t))
      BY <2>7 DEF RunStart, RunDay, RunFetchMeta, RunFetchPos, Fetch, RunComplete, RunThrow,
           RunFail, RunNextRunning, RunNextEnqueue
    <3> QED BY <2>1, <3>1
  <2>8. ASSUME NEW t \in Slots, run' = [run EXCEPT ![t] = IdleRun] PROVE run[s].pc # "idle" /\ Same(s)
    BY <1>1, <2>8, <1>a DEF IdleRun
  <2>9. ASSUME NEW p \in Procs, Crash(p) PROVE run[s].pc # "idle" /\ Same(s)
    BY <1>1, <2>9, <1>a DEF Crash, IdleRun
  <2>10. CASE UNCHANGED run
    BY <1>1, <2>10
  <2> HIDE DEF Same
  <2>11. CASE run[s].pc # "idle" /\ Same(s)
    BY <2>11 DEF Same
  <2> QED BY <2>2, <2>3, <2>4, <2>5, <2>6, <2>7, <2>8, <2>9, <2>10, <2>11, RunChanges
             DEF RunSettleJob, RunSettleInline, Slots
<1>2. InlineCounted'
  <2> SUFFICES ASSUME NEW s \in InlineSlots, run'[s].pc # "idle" PROVE inlined'[run'[s].exec] > 0
    BY DEF InlineCounted
  <2>1. s \in Slots /\ s \notin Procs
    BY DEF Slots
  <2>2. CASE run[s].pc # "idle" /\ run'[s].exec = run[s].exec
    BY <2>1, <2>2, <1>a, <1>b DEF FirstInv, InlineCounted
  <2> QED BY <2>1, <2>2, <1>1
<1>3. SeenFinished'
  <2> SUFFICES ASSUME NEW s \in Slots, NEW e \in Executions, run'[s].pc # "idle", run'[s].exec = e,
                      run'[s].seen \in {"COMPLETED", "FAILED"}
               PROVE  stalls'[e] > 0 \/ inlined'[e] > 0 \/ refused'[e] > 0
    BY <1>a DEF SeenFinished, Relaunched
  <2> SUFFICES Relaunched(e)'
    BY DEF Relaunched
  <2>1. CASE run[s].pc # "idle" /\ run[s].exec = e /\ run'[s].seen = run[s].seen
    BY <2>1, <1>b DEF FirstInv, SeenFinished
  <2>2. CASE run[s].pc = "read" /\ run[s].exec = e /\ run'[s].seen = status[e]
    <3>1. CASE s \in Procs
      <4>1. ~Unread(e)
        BY <2>2 DEF FirstInv, RowUnfinished
      <4> QED BY <2>2, <3>1, <4>1, <1>b DEF Unread, Reading
    <3>2. CASE s \in InlineSlots
      <4>1. Relaunched(e)
        BY <2>2, <3>2 DEF FirstInv, InlineCounted, Relaunched
      <4> QED BY <4>1, <1>b
    <3> QED BY <3>1, <3>2 DEF Slots
  <2> QED BY <2>1, <2>2, <1>1
<1> QED BY <1>2, <1>3

LEMMA FirstStep ==
  ASSUME TypeInv, QueueInv, FirstInv, [Next]_vars
  PROVE  FirstInv'
<1>1. TypeInv'
  BY TypeStep
<1> QED BY <1>1, RowUnfinishedStep, HooksUnfinishedStep, RecsUnfinishedStep, RunsFirstStep DEF FirstInv

\* Who writes the status of a finished row had read it unfinished, or runs it again.
LEMMA TerminalLeft ==
  ASSUME TypeInv, ReadInv, FirstInv, [Next]_vars, NEW e \in Executions,
         status[e] \in Terminal, status'[e] \notin {status[e], "deleted"}
  PROVE  ReadBefore(e) \/ RunAgain(e)
<1>1. ASSUME NEW f, Writes(f) PROVE f = e
  BY <1>1 DEF Writes, TypeInv, RowsT
<1>2. ASSUME NEW p \in Procs, TriggerCreate(p) PROVE FALSE
  BY <1>2 DEF TriggerCreate, rows, TypeInv, RowsT, Terminal
<1>3. ASSUME NEW w \in Workflows, Remove(w) PROVE FALSE
  BY <1>3 DEF Remove
<1>4. ASSUME NEW p \in Procs, CancelWrite(p), Writes(cancel[p].exec) PROVE ReadBefore(e)
  BY <1>1, <1>4 DEF CancelWrite, ReadInv, CancelsRead, ReadBefore
<1>5. ASSUME NEW h \in hooks, HookWrite(h), Writes(h.exec) PROVE ReadBefore(e)
  BY <1>1, <1>5 DEF HookWrite, ReadInv, HooksRead, ReadBefore
<1>6. ASSUME NEW s \in Slots, run[s].pc # "idle", run[s].exec = e, run[s].seen \in Readable
      PROVE  ReadBefore(e) \/ RunAgain(e)
  <2>1. run[s].seen \in {"COMPLETED", "FAILED"} => Relaunched(e)
    BY <1>6 DEF FirstInv, SeenFinished
  <2> QED BY <1>6, <2>1 DEF Readable, ReadBefore, RunAgain
<1>7. ASSUME NEW s \in Slots, RunStart(s) \/ RunComplete(s) \/ RunFail(s), Writes(run[s].exec)
      PROVE  ReadBefore(e) \/ RunAgain(e)
  BY <1>1, <1>6, <1>7, ReadsOn DEF RunStart, RunComplete, RunFail
<1>8. ASSUME NEW s \in InlineSlots, RunSettleInline(s), Writes(run[s].exec)
      PROVE  ReadBefore(e) \/ RunAgain(e)
  <2>1. run[s].exec = e /\ s \in Slots
    BY <1>1, <1>8 DEF Slots
  <2>2. run[s].pc = "done" /\ run[s].origin = "trigger" /\ run[s].outcome = "failed"
    BY <1>8 DEF RunSettleInline, rows
  <2>3. run[s].seen \in Readable
    BY <2>1, <2>2 DEF ReadInv, RunsRead, RunReads, Slots, Gone, Terminal
  <2> QED BY <2>1, <2>2, <2>3, <1>6
<1>9. ASSUME NEW p \in Procs, RecWrite(p) \/ RecTryAdd(p), Writes(rec[p].exec)
      PROVE  ReadBefore(e)
  BY <1>1, <1>9 DEF RecWrite, RecTryAdd, ReadInv, RecsRead, RecReads, ReadBefore
<1> QED BY <1>2, <1>3, <1>4, <1>5, <1>7, <1>8, <1>9, StatusWrites

\* For any processes, runs in the queue or inline, crashes and faults: a finished
\* row changes its status only by a handler that holds a reading of it from before
\* it was finished, or by a run that read it COMPLETED or FAILED of an execution
\* whose job had stalled, that was also run inline or of which an add was refused.
THEOREM TerminalIsLeftLate == Spec => TerminalLeftOnlyByStaleReader
<1>1. Init => TypeInv /\ ReadInv /\ QueueInv /\ FirstInv
  BY TypeInit, ReadInit, QueueInit, FirstInit
<1>2. TypeInv /\ ReadInv /\ QueueInv /\ FirstInv /\ [Next]_vars
        => TypeInv' /\ ReadInv' /\ QueueInv' /\ FirstInv'
  BY TypeStep, ReadStep, QueueStep, FirstStep
<1>3. TypeInv /\ ReadInv /\ FirstInv /\ [Next]_vars =>
        [ \A e \in Executions :
            status[e] \in Terminal /\ status'[e] \notin {status[e], "deleted"}
              => ReadBefore(e) \/ RunAgain(e) ]_vars
  BY TerminalLeft
<1> QED BY <1>1, <1>2, <1>3, PTL DEF Spec, TerminalLeftOnlyByStaleReader
-----------------------------------------------------------------------------
(* Without cancellations, what says that an execution is complete is true.  *)

Full(e) == days[e] >= Days

\* A run has counted the dates it went through; unless it failed, it ends full.
RunCounts(r) ==
    /\ r.pc # "idle" => r.day <= days[r.exec]
    /\ r.pc = "fail" => r.outcome = "failed"
    /\ r.pc = "complete" => Full(r.exec)
    /\ r.pc \in {"nextRunning", "nextPick", "nextEnqueue", "done"} /\ r.outcome = "completed"
         => Full(r.exec)

NothingCancelled ==
    /\ \A e \in Executions : status[e] # "CANCELLED"
    /\ \A p \in Procs : cancel[p].exec = NoExec
RunsCount == \A s \in Slots : RunCounts(run[s])
JobsFull == \A e \in Executions : job[e] = "completed" => Full(e)
HooksFull == \A h \in hooks : h.kind = "completed" => Full(h.exec)
RecsFull == \A p \in Procs : rec[p].pc = "write" /\ rec[p].act = "setCompleted"
                               => Full(rec[p].exec)

FullInv == /\ NothingCancelled /\ CompletedIsComplete
           /\ RunsCount /\ JobsFull /\ HooksFull /\ RecsFull

LEMMA FullInit == Init => FullInv
BY DEF Init, FullInv, NothingCancelled, CompletedIsComplete, RunsCount, JobsFull, HooksFull,
       RecsFull, RunCounts, IdleRun, IdleCancel, IdleRec

LEMMA DaysChanges ==
  [Next]_vars => UNCHANGED days \/ \E s \in Slots : RunIncrement(s)
BY RowsChanges DEF rows, TriggerCreate, CancelWrite, SetEnabled, Remove, HookWrite, RunStart,
     RunFetchMeta, RunFetchPos, Fetch, RunComplete, RunFail, RunSettleInline, Age, RecWrite,
     RecTryAdd, Crash, Write

\* daysProcessed never goes down.
LEMMA DaysGrow ==
  ASSUME TypeInv, [Next]_vars, NEW e \in Executions
  PROVE  days[e] <= days'[e] /\ (Full(e) => Full(e)')
<1>1. days[e] \in Nat
  BY DEF TypeInv, RowsT
<1>2. ASSUME NEW s \in Slots, RunIncrement(s) PROVE days[e] <= days'[e] /\ days'[e] \in Nat
  BY <1>1, <1>2 DEF RunIncrement, rows, TypeInv, RowsT
<1>3. days[e] <= days'[e] /\ days'[e] \in Nat
  BY <1>1, <1>2, DaysChanges
<1> QED BY <1>1, <1>3 DEF Full

\* Only cancelExecution writes CANCELLED, and only of a row it has read.
LEMMA NoCancelStep ==
  ASSUME "cancel" \notin Environment, TypeInv, FullInv, [Next]_vars
  PROVE  NothingCancelled'
<1> USE DEF FullInv, NothingCancelled
<1>1. \A p \in Procs : cancel'[p].exec = NoExec
  BY CancelChanges DEF CancelRead, CancelWrite, Crash, IdleCancel, TypeInv, CancelT
<1>2. ASSUME NEW h \in hooks, HookWrite(h) PROVE \A e \in Executions : status'[e] # "CANCELLED"
  BY <1>2 DEF HookWrite, HookSets, Write, rows, TypeInv, HooksT, Hook, RowsT
<1>3. ASSUME NEW p \in Procs, RecWrite(p) PROVE \A e \in Executions : status'[e] # "CANCELLED"
  BY <1>3 DEF RecWrite, RecSets, Write, rows, TypeInv, RecT, Rec, RecOK, RowsT
<1>4. ASSUME NEW p \in Procs, TriggerCreate(p)
      PROVE  \A e \in Executions : status'[e] # "CANCELLED"
  BY <1>4 DEF TriggerCreate, rows, TypeInv, RowsT
<1>5. ASSUME NEW w \in Workflows, Remove(w)
      PROVE  \A e \in Executions : status'[e] # "CANCELLED"
  BY <1>5 DEF Remove
<1>6. ASSUME NEW s \in Slots, RunStart(s) \/ RunComplete(s) \/ RunFail(s)
      PROVE  \A e \in Executions : status'[e] # "CANCELLED"
  BY <1>6 DEF RunStart, RunComplete, RunFail, Write, rows, TypeInv, RowsT
<1>7. ASSUME NEW s \in InlineSlots, RunSettleInline(s)
      PROVE  \A e \in Executions : status'[e] # "CANCELLED"
  BY <1>7 DEF RunSettleInline, Write, rows, TypeInv, RowsT
<1>8. ASSUME NEW p \in Procs, RecTryAdd(p)
      PROVE  \A e \in Executions : status'[e] # "CANCELLED"
  BY <1>8 DEF RecTryAdd, Write, rows, TypeInv, RowsT
<1>9. ~ \E p \in Procs : CancelWrite(p)
  BY DEF CancelWrite
<1>10. \A e \in Executions : status'[e] # "CANCELLED"
  BY <1>2, <1>3, <1>4, <1>5, <1>6, <1>7, <1>8, <1>9, StatusChanges
<1> QED BY <1>1, <1>10

\* COMPLETED is written by a run at its end, by the listener of a completed job,
\* and by a reconciler that found one.
LEMMA CompleteStep ==
  ASSUME TypeInv, FullInv, [Next]_vars
  PROVE  CompletedIsComplete'
<1> SUFFICES ASSUME NEW e \in Executions, status'[e] = "COMPLETED", status[e] # "COMPLETED"
             PROVE  Full(e)
  BY DaysGrow DEF FullInv, CompletedIsComplete, Full
<1>1. ASSUME NEW s \in Slots, RunComplete(s) PROVE Full(e)
  BY <1>1 DEF RunComplete, Write, rows, TypeInv, RowsT, FullInv, RunsCount, RunCounts
<1>2. ASSUME NEW h \in hooks, HookWrite(h) PROVE Full(e)
  BY <1>2 DEF HookWrite, HookSets, Write, rows, TypeInv, RowsT, HooksT, Hook, FullInv, HooksFull
<1>3. ASSUME NEW p \in Procs, RecWrite(p) PROVE Full(e)
  BY <1>3 DEF RecWrite, RecSets, Write, rows, TypeInv, RowsT, RecT, Rec, RecOK, FullInv, RecsFull
<1>4. CASE \/ \E p \in Procs : TriggerCreate(p) \/ CancelWrite(p) \/ RecTryAdd(p)
           \/ \E w \in Workflows : Remove(w)
           \/ \E s \in Slots : RunStart(s) \/ RunFail(s)
           \/ \E s \in InlineSlots : RunSettleInline(s)
  BY <1>4 DEF TriggerCreate, CancelWrite, RecTryAdd, Remove, RunStart, RunFail,
         RunSettleInline, Write, rows, TypeInv, RowsT
<1> QED BY <1>1, <1>2, <1>3, <1>4, StatusChanges

LEMMA HooksFullStep ==
  ASSUME TypeInv, FullInv, [Next]_vars
  PROVE  HooksFull'
<1>1. ASSUME NEW h \in hooks, h.kind = "completed" PROVE Full(h.exec)'
  BY <1>1, DaysGrow DEF FullInv, HooksFull, TypeInv, HooksT, Hook, Full
<1>2. ASSUME NEW h \in hooks', h \notin hooks, h.kind = "completed" PROVE Full(h.exec)'
  <2>1. ASSUME NEW g \in hooks, HookRead(g) PROVE h.exec = g.exec /\ g.kind = "completed"
    BY <1>2, <2>1 DEF HookRead, TypeInv, HooksT, Hook
  <2>2. ASSUME NEW s \in Procs, RunSettleJob(s)
        PROVE  h.exec \in Executions /\ Full(h.exec)
    BY <1>2, <2>2 DEF RunSettleJob, FullInv, RunsCount, RunCounts, Slots, TypeInv, RunT, RunOK
  <2>3. ~ (\E p \in Procs, e \in Executions : TakeJob(p, e) \/ StallCheck(p, e))
    BY <1>2 DEF TakeJob, StallCheck
  <2>4. ~ (hooks' \subseteq hooks)
    BY <1>2
  <2>5. (\E g \in hooks : HookRead(g)) \/ (\E s \in Procs : RunSettleJob(s))
    BY <2>3, <2>4, HooksChanges DEF HookWrite, Crash
  <2>6. CASE \E s \in Procs : RunSettleJob(s)
    BY <2>2, <2>6, DaysGrow DEF Full
  <2> QED BY <1>1, <2>1, <2>5, <2>6 DEF Full
<1> QED BY <1>1, <1>2 DEF HooksFull, Full

LEMMA JobsFullStep ==
  ASSUME TypeInv, FullInv, [Next]_vars
  PROVE  JobsFull'
<1> SUFFICES ASSUME NEW e \in Executions, job'[e] = "completed", job[e] # "completed"
             PROVE  Full(e)
  BY DaysGrow DEF FullInv, JobsFull, Full
<1>1. ASSUME NEW s \in Procs, RunSettleJob(s) PROVE Full(e)
  BY <1>1 DEF RunSettleJob, FullInv, RunsCount, RunCounts, Slots, TypeInv, QueueT
<1>2. CASE \/ UNCHANGED <<queue, immediate, history>>
           \/ \E p \in Procs : TriggerEnqueue(p)
           \/ \E p \in Procs, f \in Executions : TakeJob(p, f) \/ StallCheck(p, f)
           \/ \E s \in InlineSlots, c \in immediate : StartInline(s, c)
           \/ \E s \in Slots : RunNextEnqueue(s)
           \/ \E p \in Procs : RecTryAdd(p)
           \/ \E p \in Procs : Crash(p)
  BY <1>2 DEF queue, TriggerEnqueue, Launch, Refuse, CallInline, AddJob, TakeJob, StallCheck, StartInline,
         RunNextEnqueue, RecTryAdd, Crash, TypeInv, QueueT
<1> QED BY <1>1, <1>2, QueueChanges

LEMMA RecsFullStep ==
  ASSUME TypeInv, FullInv, [Next]_vars
  PROVE  RecsFull'
<1>1. ASSUME NEW p \in Procs, rec'[p].pc = "write", rec'[p].act = "setCompleted"
      PROVE  days'[rec'[p].exec] >= Days
  <2>1. CASE rec'[p] = rec[p]
    BY <1>1, <2>1, RecExec, DaysGrow DEF FullInv, RecsFull, TypeInv, Full
  <2>2. CASE rec'[p] # rec[p]
    <3>1. RecLook(p)
      <4>1. ASSUME NEW q \in Procs, RecLook(q) PROVE p = q
        BY <2>2, <4>1 DEF RecLook, TypeInv, RecT
      <4>2. ASSUME NEW q \in Procs, NEW pc \in {"nextPick", "tryAdd"},
                   RecGoto(q, pc) \/ RecNextRow(q)
            PROVE  rec'[p] = rec[p] \/ rec'[p].pc # "write"
        BY <4>2 DEF RecGoto, RecNextRow, TypeInv, RecT, Rec
      <4>3. ASSUME NEW q \in Procs, RecWrite(q) \/ RecTryRunning(q) \/ RecTryAdd(q) PROVE FALSE
        BY <1>1, <2>2, <4>2, <4>3 DEF RecWrite, RecTryRunning, RecTryAdd
      <4>4. ASSUME NEW q \in Procs, RecNextPick(q) PROVE FALSE
        <5>1. CASE RecNextRow(q)
          BY <1>1, <2>2, <4>2, <5>1
        <5>2. ASSUME NEW e, rec' = [rec EXCEPT ![q].pc = "tryRunning", ![q].exec = e,
                                               ![q].seen = "PENDING"]
              PROVE  FALSE
          BY <1>1, <2>2, <5>2 DEF TypeInv, RecT, Rec
        <5> QED BY <4>4, <5>1, <5>2 DEF RecNextPick
      <4>5. ASSUME NEW q \in Procs, RecFind(q) PROVE FALSE
        BY <1>1, <2>2, <4>5 DEF RecFind, TypeInv, RecT, Rec
      <4>6. ASSUME NEW q \in Procs, RecEnd(q) \/ Crash(q) PROVE FALSE
        BY <1>1, <2>2, <4>6 DEF RecEnd, Crash, IdleRec, TypeInv, RecT
      <4>7. rec' # rec
        BY <2>2
      <4> QED BY <4>1, <4>3, <4>4, <4>5, <4>6, <4>7, RecChanges
    <3>2. PICK item \in rec[p].todo : RecLook(p)!2!(item)
      BY <3>1 DEF RecLook
    <3> DEFINE d == RecDecision(item.exec, item.seen)
               kept == [rec[p] EXCEPT !.todo = @ \ {item}]
               try == [kept EXCEPT !.pc = "tryRunning", !.exec = item.exec, !.seen = item.seen]
               write == [kept EXCEPT !.pc = "write", !.exec = item.exec, !.seen = item.seen,
                                     !.act = d]
    <3>3. rec[p] \in Rec /\ rec[p].pc = "scan" /\ item.exec \in Executions
      BY <3>1, <3>2 DEF RecLook, TypeInv, RecT, Rec, Found
    <3>4. kept \in Rec /\ kept.pc = "scan"
      BY <3>3 DEF Rec
    <3>5. rec'[p] = IF d = "none" THEN kept ELSE IF d = "tryEnqueue" THEN try ELSE write
      BY <3>2 DEF TypeInv, RecT
    <3>6. d = "setCompleted" => job[item.exec] = "completed"
      BY <3>3 DEF RecDecision, TypeInv, QueueT
    <3> HIDE DEF kept, d
    <3>7. try.pc = "tryRunning" /\ write.act = d /\ write.exec = item.exec
      BY <3>4 DEF Rec
    <3> HIDE DEF try, write
    <3>8. d = "setCompleted" /\ rec'[p].exec = item.exec
      BY <1>1, <3>4, <3>5, <3>7
    <3> QED BY <3>3, <3>6, <3>8, DaysGrow DEF FullInv, JobsFull, Full
  <2> QED BY <2>1, <2>2
<1> QED BY <1>1 DEF RecsFull, Full

\* Another's steps leave what a run has counted.
LEMMA RunCountKept ==
  ASSUME TypeInv, FullInv, [Next]_vars, NEW s \in Slots, run'[s] = run[s]
  PROVE  RunCounts(run[s])'
<1>1. /\ RunCounts(run[s]) /\ run[s] \in Run
      /\ run[s].pc # "idle" => run[s].exec \in Executions
  BY DEF FullInv, RunsCount, TypeInv, RunT, RunOK
<1>2. ASSUME run[s].exec \in Executions
      PROVE  days[run[s].exec] <= days'[run[s].exec] /\ (Full(run[s].exec) => days'[run[s].exec] >= Days)
  BY <1>2, DaysGrow DEF Full
<1>3. \A e \in Executions : days[e] \in Nat /\ days'[e] \in Nat
  BY RowsTyped DEF TypeInv, RowsT
<1> QED BY <1>1, <1>2, <1>3 DEF RunCounts, Full, Run

LEMMA RunsCountStep ==
  ASSUME "cancel" \notin Environment, TypeInv, FullInv, [Next]_vars
  PROVE  RunsCount'
<1> SUFFICES ASSUME NEW t \in Slots, run'[t] # run[t] PROVE RunCounts(run[t])'
  BY RunCountKept DEF RunsCount
<1> DEFINE e == run[t].exec
<1>1. RunCounts(run[t]) /\ run[t] \in Run /\ (run[t].pc # "idle" => e \in Executions)
  BY DEF FullInv, RunsCount, TypeInv, RunT, RunOK
<1>2. run' \in [Slots -> Run]
  BY RunTyped DEF RunT
<1>3. \A f \in Executions : days[f] \in Nat /\ days'[f] \in Nat /\ days[f] <= days'[f]
  BY RowsTyped, DaysGrow DEF TypeInv, RowsT
<1>4. \A f \in Executions : status[f] # "CANCELLED"
  BY DEF FullInv, NothingCancelled
<1>5. ASSUME NEW o, NEW x \in Executions, run'[t] = NewRun(x, o) PROVE RunCounts(run[t])'
  BY <1>3, <1>5 DEF RunCounts, NewRun
<1>6. CASE run'[t] = IdleRun
  BY <1>6 DEF RunCounts, IdleRun
<1>7. ASSUME NEW p \in Procs, NEW x \in Executions, TakeJob(p, x) PROVE RunCounts(run[t])'
  BY <1>5, <1>7 DEF TakeJob, TypeInv, RunT
<1>8. ASSUME NEW s \in InlineSlots, NEW c \in immediate, StartInline(s, c)
      PROVE  RunCounts(run[t])'
  BY <1>5, <1>8 DEF StartInline, TypeInv, RunT, QueueT, Callback
<1>9. CASE \/ \E s \in Procs : RunSettleJob(s)
           \/ \E s \in InlineSlots : RunSettleInline(s)
           \/ \E p \in Procs : Crash(p)
  BY <1>6, <1>9 DEF RunSettleJob, RunSettleInline, Crash, TypeInv, RunT
<1>10. CASE RunRead(t)
  BY <1>1, <1>3, <1>4, <1>10 DEF RunRead, RunCounts, Full, Run, TypeInv, RunT
<1>11. CASE RunStart(t) \/ RunThrow(t) \/ RunFail(t) \/ RunComplete(t)
  BY <1>1, <1>3, <1>11 DEF RunStart, RunThrow, RunFail, RunComplete, Goto, GotoFail, RunCounts,
         Full, Run, TypeInv, RunT
<1>12. CASE RunDay(t)
  BY <1>1, <1>3, <1>4, <1>12 DEF RunDay, Goto, RunCounts, Full, Run, TypeInv, RunT
<1>13. CASE RunFetchMeta(t) \/ RunFetchPos(t)
  BY <1>1, <1>3, <1>4, <1>13 DEF RunFetchMeta, RunFetchPos, Fetch, Goto, RunCounts, Full, Run,
         TypeInv, RunT
<1>14. CASE RunIncrement(t)
  BY <1>1, <1>3, <1>14 DEF RunIncrement, GotoFail, RunCounts, Full, Run, TypeInv, RunT, RowsT
<1>15. CASE RunNextRunning(t) \/ RunNextPick(t) \/ RunNextEnqueue(t)
  BY <1>1, <1>3, <1>15 DEF RunNextRunning, RunNextPick, RunNextEnqueue, Goto, RunCounts, Full,
         Run, TypeInv, RunT
<1>16. ASSUME NEW s \in Slots \ {t},
              \/ RunRead(s) \/ RunStart(s) \/ RunDay(s) \/ RunFetchMeta(s) \/ RunFetchPos(s)
              \/ RunIncrement(s) \/ RunComplete(s) \/ RunThrow(s) \/ RunFail(s)
              \/ RunNextRunning(s) \/ RunNextPick(s) \/ RunNextEnqueue(s)
       PROVE  FALSE
  BY <1>16 DEF RunRead, RunStart, RunDay, RunFetchMeta, RunFetchPos, Fetch, RunIncrement,
         RunComplete, RunThrow, RunFail, RunNextRunning, RunNextPick, RunNextEnqueue, Goto,
         GotoFail, TypeInv, RunT
<1> QED BY <1>7, <1>8, <1>9, <1>10, <1>11, <1>12, <1>13, <1>14, <1>15, <1>16, RunChanges

\* Where nothing is cancelled, an execution is COMPLETED only after every date of
\* its range was counted, whoever wrote it and whatever crashed, stalled, failed
\* or ran inline meanwhile.
THEOREM CompletedMeansComplete ==
  ASSUME "cancel" \notin Environment PROVE Spec => []CompletedIsComplete
<1>1. Init => TypeInv /\ FullInv
  BY TypeInit, FullInit
<1>2. TypeInv /\ FullInv /\ [Next]_vars => TypeInv' /\ FullInv'
  BY TypeStep, NoCancelStep, CompleteStep, RunsCountStep, JobsFullStep, HooksFullStep,
     RecsFullStep DEF FullInv
<1>3. FullInv => CompletedIsComplete
  BY DEF FullInv
<1> QED BY <1>1, <1>2, <1>3, PTL DEF Spec
=============================================================================
