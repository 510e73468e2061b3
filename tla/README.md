# Formal models of the ERP and WMS back end

TLA+ models of the stateful core of this repository: a multi-tenant ERP with a
warehouse management system (WMS). The modules are translated from the
TypeScript of `apps/api`; TLC checks them on small instances, and the TLA+ proof
system proves the most important invariants for all instances.

## 1. The system

`apps/api` is a NestJS service over PostgreSQL (through Prisma) and Redis (Bull
queues). It is deployed as one or more processes whose role (`all`, `api`,
`worker`; `common/runtime/process-role.ts`) decides which queues and crons run
in them. `apps/web`, `apps/admin` and `apps/stox` (the scanner app of warehouse
staff) are its user interfaces. PostgreSQL, Redis/Bull, the Pancake POS and the
Meta API are external.

Handlers are `async` functions: every `await` of a database or queue call lets
any other handler of any process run. Some handlers wrap their writes in
`prisma.$transaction` (READ COMMITTED unless the code says Serializable), some
lock a row with `SELECT ... FOR UPDATE`, some guard an update with its expected
old value (`updateMany ... where status`), and some read, check, and then write
by id alone. Which of these a handler does is what the models keep.

| Component | State | Operations | Interacts with | What makes it correct |
|---|---|---|---|---|
| Workflow execution engine (`workflows`) | `workflow_executions`, Bull jobs, cron registry, in-memory inline runs | trigger, schedule, cancel, remove, process, listen, reconcile | Bull, orders, analytics caches | one processor per execution, every execution settles, COMPLETED means complete |
| Basket picking and packing (`wms-mobile`) | baskets, fulfillment orders and lines, basket demand and its bins, basket units, inventory units | assign, scan, complete, hand off, pack, void | inventory, fulfillment sync | a unit is in one basket, picked counts equal the units held, no bin promised twice |
| Inventory (`wms-inventory`) | units, movements, transfers | move, put away, transfer, adjust, void, dispatch sync | picking, receiving, dispatch | a unit leaves a state only from the state that was checked |
| Receiving (`wms-receiving`) | receiving batches, their units | create, put away, reset, void | purchasing, inventory | received quantities are the units received; a void takes back what its batch gave |
| Purchasing (`wms-purchasing`) | stock requests, lines | status changes, revisions, edits | receiving, partners | closed requests stay closed, nobody receives more than approved |
| Fulfillment sync (`wms-fulfillment`) | orders' queue state, reservations, priority | sync from POS, allocate demand, expire, release, dispatch void | orders, picking | a release returns every unit and leaves no order half released |
| Dispatch and returns (in `wms-mobile`, `wms-fulfillment`, `wms-inventory`) | orders after packing, their units' rows | sync, void, repair, verify, dispose | inventory, POS | a unit is out only for a shipped order and comes back once |
| Orders (`orders`) | POS orders, confirmation lease, queue | confirm, queue, process, release | Pancake, fulfillment | one update in flight per order, a lease always ends |
| Integrations (`integrations`) | integrations, stores, webhook logs, reconcile jobs | receive webhook, upsert orders, reconcile | orders, fulfillment, workflows | no accepted webhook is lost, what the order says is what is counted |
| POS shop ownership (`pos-shop-ownership.service.ts`) | shop owner per tenant | claim, transfer, assert | integrations | one owner per shop at a time |
| Analytics coordinator and cache | in-flight map, Redis cache | run once per key, invalidate | analytics | concurrent callers share one computation |
| Notification state, aging cache | read markers, cached counts | mark, compute | orders | a marker never goes back |
| Auth, roles, teams, users, tenants, master data, forecasting, KPIs, reports, media | single rows | create, read, update, delete | all | access rules (data, not protocol) |

The hard behaviours of this code are check-then-write sequences across awaits,
crashes of a process between two writes, Bull's at-least-once delivery, event
listeners that write late, reconcilers that act on snapshots, and counters that
must agree with the rows they count. `PROJECT.json` lists each at its line.

## 2. Plan

The order follows what a mistake would cost: work that runs twice or never, then
stock that is counted wrongly, then the queues between the two.

1. `WorkflowEngine` (done): every write to `workflow_executions`.
2. `WmsBasketState`, `WmsPicking`, `WmsPacking`, `WmsBasket` (done): baskets in
   `BASKET_DEMAND` mode. `WmsBasket` composes picking, packing and the upkeep
   that runs beside them.
3. `ConfirmationUpdate` (done): the confirmation update of an order, its lease,
   its job, Pancake and the webhook that ends it (`orders`).
4. `PancakeIntake` (done): webhook receipt, processing, the windowed reconcile
   (`integrations`, `workflows`).
5. `StockRequest` (done): stock requests and their receiving batches, which
   implement the abstract `StockLedger` (`wms-purchasing`, `wms-receiving`).
6. `WmsDispatch` (done): packed orders from the bench to the courier and back.
7. Proofs (done): every invariant and every action property that a run checks
   is a theorem for all instances (section 9), the sums of the ledgers included.
8. Next: the hypotheses on `Ops` that are sufficient and not known to be
   necessary (section 9); an abstract specification for packing that `WmsBasket`
   implements; `AnalyticsCoordinator` with an abstract one-computation-per-key
   specification; the `SERIAL_RESERVED` mode of picking; transfers, adjustments
   and the cron registry where they pay.

Everything that is proved about is written without `RECURSIVE` operators, with
its parameters as constants and one named assumption per module.

## 3. The workflow engine

`WorkflowEngine` follows a row of `workflow_executions` from its creation to its
last status. Everything that reads such a row, waits, and writes it back has a
record per process that holds its program counter and what it has read:

| State | In the code |
|---|---|
| `status`, `wfOf`, `days`, `stale` | the row: `status`, `workflowId`, `daysProcessed`, and whether `updatedAt` is past the reconciler's cutoff |
| `wfState` | the row of `workflows` |
| `job`, `stalls` | the Bull job whose `jobId` is the execution id, and its stalled counter |
| `run` | a call of `processWorkflowExecution`, by the Bull worker of a process or inline |
| `immediate` | `setImmediate` callbacks that will start an inline run |
| `trig`, `cancel`, `rec`, `hooks` | a trigger, a cancel, a reconciliation in progress, and Bull event listeners under way |

Every action is one database or queue round trip.

| Actions | Code |
|---|---|
| `TriggerBegin` to `TriggerEnqueue` | `triggerManual`, `executeScheduledWorkflow`: pending check, running check, insert, `Queue.add` or the inline fallback |
| `CancelRead`, `CancelWrite` | `cancelExecution` |
| `SetEnabled`, `Remove` | `enable`, `disable`, `remove` of a workflow; a removed row makes later updates of it throw (`RunThrow`, and the guards of the other handlers) |
| `TakeJob`, `StallCheck`, `RunSettleJob` | the Bull worker: at most one job per process, back to waiting when its worker died, failed past `maxStalledCount` |
| `HookRead`, `HookWrite` | the `onActive`, `onCompleted`, `onFailed` listeners, late and beside everything else |
| `RunRead`, `RunStart`, `RunDay`, `RunFetchMeta`, `RunFetchPos`, `RunIncrement`, `RunComplete`, `RunFail` | the date loop of `workflow-processor.service.ts` |
| `RunNextRunning`, `RunNextPick`, `RunNextEnqueue` | the `finally` block that wakes the oldest pending row of the tenant |
| `RecFind` to `RecTryAdd` | one pass of `workflow-execution-reconciler.service.ts` over the snapshot it took |
| `Crash` | a process dies; the database and Redis keep what they have |

`Queue.add` with a known `jobId` changes nothing, also when that job has
finished: the queue keeps finished jobs (no `removeOnComplete`, no
`removeOnFail`). Much of what the engine guarantees rests on this, as the mutants
that drop the id or remove the jobs show.

### Properties

- `SingleRunner`: no two workers process one execution at the same time. An
  inline run, the fallback of an add that Redis refuses, may meet a worker's run of
  the same execution, since an earlier add of it may have been accepted.
- `BoundedRework`: `daysProcessed` is never reset, so a run that Bull starts
  again, or an inline run, counts dates again; each does so at most once per date.
- `CompletedIsComplete`: without cancellation, COMPLETED means all dates, also
  when a listener or the reconciler wrote it.
- `TerminalLeftOnlyByStaleReader`: a finished row is revived by someone who read
  it before it finished (`ReadBefore`), or by a run that read it COMPLETED or FAILED,
  which `RunRead` does not skip, of an execution that was given more than once
  (`RunAgain`): its job stalled, it was run inline, or an add of it was refused. The
  code does not exclude the revival itself; what it does exclude is that a first run,
  a cancel, a listener or the reconciler acts on a finished status it has seen, and
  that anybody acts on CANCELLED.
- `Settles`: every execution ends, and stays ended.

### Runs

| Run | Instance | Shows |
|---|---|---|
| `EngineCrash` | 2 processes, one with an inline slot, 1 execution, 1 date, 1 crash, 1 refused add; age | `SingleRunner`, `BoundedRework`, `CompletedIsComplete` |
| `EngineLive` | 1 process, 1 workflow, 1 execution, 1 date, 2 crashes; age, cancel, disable, remove, failing database calls; `FairSpec` | `TypeOK`, `TerminalLeftOnlyByStaleReader`, `Settles` |
| `EngineLiveInline` | 1 process with one inline slot, inline processing preferred, 2 executions of one tenant, 1 crash; `FairSpec` | `Settles` where no queue remembers the work |

One date is enough to tell "before", "in" and "after" the loop apart and to count
a date twice; two executions are enough for a running and a parked one; two
processes for every race of two workers, listeners or reconcilers; one crash for
a stalled job that another process takes over, two for a job that stalls past
`maxStalledCount` = 1; one refused add puts an inline run beside the job.
`MaxExecutions`, `MaxCrashes`, `MaxRefused` and `InlineSlots` are bounds of the
model: a request begins while a row is left for it (`RowsLeft`), and a callback waits
for a free slot of its process. `inlined` and `refused` are history.

The cfgs say `CHECK_DEADLOCK FALSE`: when all executions have settled and no
process is left to crash, nothing has to happen.

### Fairness

`FairSpec` is weakly fair to what the runtime schedules: handlers that were
started, a worker with a waiting job, Bull's check for stalled jobs, event
listeners, `setImmediate` callbacks, the reconciler's cron, and the passing of
time that makes a row stale. Requests, cancellations, faults and crashes are
unconstrained; crashes are bounded by `MaxCrashes`.

### What the code does not guarantee

Found while modelling, so that no reader takes it for promised:

- The reconciler marks a row FAILED whose add was refused, while an earlier job or
  callback for it may be under way; `RunRead` skips CANCELLED rows only, so that run
  revives the row. A stalled job that had ended its work does the same.
- A trigger whose add is refused runs the execution inline, while the job that the
  reconciler added for the same row runs in a worker: every date is counted twice.
- A cancel between the processor's check and its write of RUNNING is overwritten
  and the execution runs to its end (`CancelIsFinal` fails), although the comment
  at `workflow.service.ts:1659` says the processor will skip it.
- A crash between the write of COMPLETED and Bull's acknowledgement re-runs the
  whole execution.
- "One running execution per tenant" is a check before an insert; two processes,
  or two inline runs, start two.
- A parked PENDING row is woken by the run that ends. If that run dies or finds
  another one running, the row waits for the reconciler (30 minutes).

A worker that is alive but loses its lock (a blocked event loop), and a
`Queue.add` that took effect although its reply was lost, are not modelled.
Several pending inline callbacks for one execution with the same origin in one
process count as one.

## 4. Baskets

One tenant, store, warehouse and product variation; an order has one line.
`WmsBasketState` declares the rows and the recomputations the handlers end with,
`WmsPicking` the pickers' handlers, the void, the demand queue and the stock
moves, `WmsPacking` the packers' handlers and the pack void, and `WmsBasket`
composes them with the POS and with handlers that give up.

| State | In the code |
|---|---|
| `unit` | `wms_inventory_units`: status and location |
| `row`, `removedPacked` | the unit's latest `wms_basket_units` row, and how many REMOVED rows with `packedAt` an order has left behind |
| `basket` | `wms_baskets`: status, picker, packer |
| `order` | `wms_fulfillment_orders`: status, basket, claimer, picked quantity |
| `target`, `binPicked`, `demandPicked` | `wms_basket_pick_demand_bins` and `wms_basket_pick_demands` |
| `pos` | the POS status of the order |
| `req` | a handler that has read and not yet committed |

A transaction is one step from its basket lock (`SELECT ... FOR UPDATE`) to its
commit. What a handler reads before that lock and still relies on afterwards is a
step of its own, which leaves the reading in a request; in between, all other
handlers may run, the process may die, or the transaction may be aborted
(`Abandon`, which stands for every `throw` after the read). `Assign`, the delta
pack scan and the pack void read everything they decide on under the lock, or in
a Serializable transaction, and are one step.

| Actions | Code |
|---|---|
| `Assign` | `assignPickingBasket` in demand mode: plan over the bins less what other baskets still wait for, claim the orders |
| `ScanRead`, `ScanCommit` | `scanPickingBasketUnit` |
| `HandoffRead`, `HandoffCommit` | `handoffPickingTask` |
| `VoidRead`, `VoidRelease`, `VoidRepair` | `voidPickingBasket`: release in one transaction, repair of the orders it had read in a second |
| `QueueRead`, `QueueWrite` | the demand queue of the sync service, which writes chunks it read earlier |
| `MoveRead`, `MoveCommit` | `moveStockUnit` between bins |
| `WaybillRead/Commit`, `StartRead/Commit` | `scanPackingBasketWaybill`, `startPackingTask` |
| `PackScan`, `LegacyScanRead/Commit` | `scanPackingBasketOrderUnit` with and without the delta header |
| `CompleteRead`, `CompleteCommit` | `completePackingBasketOrder` |
| `PackVoid` | `releaseDemandBasketOrdersForPackVoidTx` with its recount and refresh |

Abstractions: which bins an assignment plans over (route, priority, creation
order) is open, as is what the queue's virtual allocation leaves to an order; the
picker after a refresh is the claimer of any active order of the basket; in a
release, readiness of several orders is computed from the statuses before its
loop; `quantityPacked`, activity records, the POS fan-out, packing proofs and the
idempotent replay of a client request are left out. `completePackingTask`
counts packed reservations, of which this mode has none, so it always throws.
`completePickingTask` finds its guard true only for an order that a scan has
already made READY_FOR_PACK, and writes that status again; that such a write may
come after a void is not modelled.

### Properties

- `LedgerAgrees`: what the demand of a basket counts as picked is what lies in it.
- `PromisedStockIsThere`: no bin promises more units than it holds.
- `HandedIsComplete`, `PickingIsShort`: an order is ready for packing exactly
  when all its units are in its basket; none waits for a scan that cannot come.
- `NothingOverpicked`, `PackedOrderVerified`: neither more nor fewer units than
  the line requires.
- `OneOpenBasket`, `CountedUnitsAreThere`: baskets after assignments, voids and
  repairs.
- `PickedUnitHasRow`, `CustodyIsContinuous`: custody of a unit.
- `PackWorkIsSettled`: packed units leave their basket completed or shelved.
- `ScannedIntoOwnBasket`: a unit goes into the basket of the picker who scanned.

`OneOrderBeingPacked` and `CompletionIsVerified` state what messages of the
handlers' checks promise; the code does not keep them (below) and no run checks
them.

### Runs

| Run | Instance | Operations | Shows |
|---|---|---|---|
| `BasketPicking` | 3 units, 2 bins, 2 baskets, 2 users, 2 handlers in flight, orders of 1 and 2 units | assign, scan, hand-off, queue, POS | the ledger, the promises of the bins, completeness, one open basket, own basket |
| `BasketVoids` | 2 units, 1 bin, 1 basket, 2 users, 2 handlers | the same and basket void | `CountedUnitsAreThere`, `PickingIsShort` |
| `BasketPacking` | 3 units, 2 bins, 2 baskets, 2 handlers, orders of 1 and 2 units | assign to completion, without voids | `PackedOrderVerified` |
| `BasketPackVoids` | 2 units, 2 bins, 1 basket, 2 handlers | stock moves, start, both pack scans, pack void | `TypeOK`, `PickedUnitHasRow`, `PackWorkIsSettled` |

Two orders are enough for one that is kept and one that is released, two baskets
for competing promises, two units per line for "one short", two handlers for
every race of one reader with one writer (those that are one step run beside
them unbounded). Units, bins, baskets and requests are interchangeable in the
code, and orders are where their lines require the same; the cfgs declare that
symmetry. `CHECK_DEADLOCK FALSE`: with all orders packed nothing is left to do.

### What the code does not guarantee

Properties are checked with the operations under which the code keeps them. With
more operations:

- The repair after a void resets the orders it had read, by id alone. An order
  that another picker has taken meanwhile loses its basket while its demand
  stays, so units may lie in a basket that no open order counts, and
  `PromisedStockIsThere`, `HandedIsComplete` and `OneOpenBasket` are no longer
  kept.
- A scan that checked its basket commits after the basket was voided and
  assigned to somebody else: only the bin's counters and the unit are read again
  under the lock (`ScannedIntoOwnBasket` fails with voids).
- An order whose packing was voided is picked again and found fully packed before
  a unit is scanned, because rows of the voided work keep `packedAt`
  (`CompletionIsVerified` fails). `WmsDispatch` shows what is left: orders that no
  void reopened, and that no handler wrote over a change it had not seen, hold
  exactly their units.
- Two waybills of one basket scanned at once are both accepted
  (`OneOrderBeingPacked` fails).
- A pack void chooses surplus units by variation, not by bin; a kept order may
  then be picked one unit too many (`NothingOverpicked`).
- The pack scan without the delta header counts before it locks
  (`PackedOrderVerified`), and `startPackingTask` does not look at the other orders
  (`OneOrderBeingPacked`).
- A basket void lets a packed unit of an order in PACKING go once its POS status
  is waiting for printing (`PackWorkIsSettled`).
- A waybill or start that was under way commits after a void; a hand-off that was
  under way leaves a FULL_HELD basket without orders.
- A queue write of an old reading overwrites READY_FOR_PACK with READY, or a
  CANCELED order with a queue status.

## 5. Updates of an order

`ConfirmationUpdate` is one row of `pos_orders` with everybody who asks for a
change of it: users who confirm or cancel, a user who edits tags only, and the
WMS, which moves a confirmed order to waiting for printing.

| State | In the code |
|---|---|
| `status`, `lease`, `fresh` | the row: `status` or that there is none, `confirmationUpdateRequestedAt` with the call that set it, and whether it is newer than the cutoff |
| `gone` | calls that know the id of a row which was deleted; what they write or clear matches nothing |
| `pc` | where a call of `updateConfirmationOrderStatus` or `enqueueSystemPosOrderStatusUpdate` is |
| `job` | the Bull job under the order's `jobId`, with attempts and stalls |
| `runs` | executions of `handleUpdateStatus`, also those that timed out, and of `onFailed` |
| `remote`, `hooks` | the order in Pancake and the webhooks it has not delivered yet |
| `orphan`, `ended` | history: the present lease has lost whoever had to clear it; calls whose lease was cleared or expired |

| Actions | Code |
|---|---|
| `Ask`, `Lock`, `Reread`, `Skip`, `Add`, `Unlock` | a call: checks, guarded `updateMany`, the second read, `Queue.add`, and the clean-up when the queue refuses |
| `Expire` | `getConfirmationUpdateProcessingCutoff` passes the lease's timestamp |
| `Take`, `Read`, `Put`, `Settle`, `ClearAndReturn`, `OnFailed` | the worker: read the row again, PUT, and what clears the lease |
| `Throw`, `Timeout`, `Stalled`, `WorkerCrash`, `ApiCrash` | Bull's attempts, timeout and stalled check; processes that stop |
| `Webhook`, `Edit` | a delivery that Pancake was answered 200 for; changes made in Pancake |
| `ApplyWebhook`, `DeleteRow`, `LoseWebhook` | what becomes of it: the upsert overwrites the row and clears the lease; a canceled order with an invalid tag is deleted; or nothing is written, because the order is skipped or the upsert fails with an error that becomes a warning, or that uses up the attempts of the ingest job |

A call holds what it has read as its place only: it has passed the checks before
it. Webhooks are delivered in any order, and an accepted one may be lost. Pancake either carries a PUT out, refuses
it, or fails with or without having carried it out.

Properties: `LeaseHasReleaser` (a fresh lease has a call, job, execution or
webhook that will release it), `LeaseIsReleased` (and it is released), and
`LostOnlyWithoutLease` (an update that was answered "queued" is dropped at the
queue because another status update holds the `jobId` only if one of the two had
lost its lease). What they leave aside is named by `orphan`: a process that dies
between lock and enqueue, an enqueue that was a no-op, a job that stalled out,
a clear that failed, and the last webhook on its way when it is lost. Such a lease
ends with its timeout.

`OrderUpdates` checks them for one user confirmation, one cancellation, one edit of
tags and one call of the WMS, one change made in Pancake (to waiting for printing), two attempts per job,
`MaxStalled = 0` (the first stall is the one that fails the job), every kind of
fault and one fault per behaviour besides those of Pancake, which the attempts
bound. Four requests are each kind once: two that race for one lease, one without
a lease and one with other allowed statuses. `FairSpec` is weakly fair to calls and
handlers that have begun, to Bull's worker and stalled check, and to webhooks:
Pancake repeats a delivery until it is accepted, and then it is applied, deletes the
row or is lost, in finite time. That it is applied is not assumed; nothing forces
requests, faults, edits or expiry.

Not guaranteed by the code: the lease is cleared by row id, so a late webhook or
listener clears the lease of the next call; a job that failed for good keeps its
`jobId` (`removeOnFail: 1000`) and swallows later updates, and so does an update of
tags, which takes no lease; the upsert compares no versions. Automatic
cancellation (`integration.service.ts:963`) takes no lease at all and is, for the
row, an `Edit`.

## 6. Webhooks and the reconcile

`PancakeIntake` follows the deliveries for one order from the HTTP request to the
aggregates of its day.

| State | In the code |
|---|---|
| `mode` | the reconcile mode of the tenant |
| `recv`, `log` | where the receiver is; `pancake_webhook_logs.processStatus` |
| `job`, `runs` | the ingest job under the log's id; executions of the processing, by the worker or inline |
| `row` | the version of the order in `pos_orders` |
| `now`, `rjob`, `rruns` | the current reconcile window, the reconcile job of each window, executions of `handleReconcile` |
| `agg` | the version that `reconcile_marketing` counts in each place |
| `lost`, `stuck` | history: a reconcile that will not be made up for; logs nobody was left to settle |

| Actions | Code |
|---|---|
| `Receive`, `QueueAdd`, `Mark`, `Refuse`, `Inline` | `receivePancakeOrderWebhook` and its two fallbacks |
| `Take`, `Begin`, `Store`, `Window`, `Enqueue`, `Finish`, `Catch` | `processQueuedPancakeWebhookEvent`, `processPancakeWebhookPayload`, `enqueueWebhookReconcileJobs` |
| `Tick`, `TakeReconcile`, `Reset`, `Read`, `Write`, `ReconcileThrows` | a window ends; `handleReconcile` and `reconcileDay` |
| `Timeout`, `ReconcileTimeout`, `Stalled`, `StalledReconcile`, `ApiCrash`, `WorkerCrash` | Bull and processes that stop |

Abstractions: a payload is its version, an aggregate row is the version it
counts, and the sales aggregates that follow `reconcileDay` are recomputed in the
same way and left out. Only windows that somebody waits for are told apart.

Properties: `ChangeHasReconcile` (if the aggregates differ from the row, an
execution has yet to queue the reconcile, its job will run again, or a reconcile
that has not read an older row is queued or under way), `RowIsCounted` (and they
agree in the end), `OpenLogHasWork` (a log that is open has somebody who will
settle it). `due` marks an execution whose change has no reconcile job yet; a run
that Bull has timed out goes on as `late` and cannot be tried again. `lost` names
the ways in which the code gives a reconcile up: Redis refuses the reconcile job (a
warning), a retry meets a routing issue after an earlier attempt had stored the
order, the last attempt or the last stall fails, inline processing or a late run
dies with its process, or a reconcile that had timed out writes late.

`WebhookIntake` checks them with two deliveries, the first counted under an ad and
the second as unmatched, two attempts per job, one stall, every kind of fault and
one fault in a behaviour; the proofs of section 9 have any number of each. Two
deliveries are enough for one that finds the window's
job taken, and for a place that must be emptied. The tenant is in either mode. The
upsert of a day writes the row of every ad with insights (`Insights`), from zero
where it found no order, so that an incremental reconcile too empties the ad an
order has left; `Counted` asks for that in both modes. Fairness is one conjunct:
something of what goes on by itself (`Work`: receivers and handlers that run, both
workers, Bull's stalled checks, the end of a window that a job waits for) happens as
long as there is any. Each of these runs in a process of its own and ends, so that
the code gives more than is assumed.

`Concurrency` is `PANCAKE_RECONCILE_PROCESSOR_CONCURRENCY`, and there is one worker
process. `ChangeHasReconcile` and `RowIsCounted` are about the default of 1 and the
theorem says so: with 2, TLC finds a reconcile that read the row earlier and writes
last, with nobody left to correct it. The other theorems hold for any concurrency.

Not guaranteed: an older delivery that comes late writes the older order back; a
log can end QUEUED when the worker was faster than the receiver; a failed update
of the log after a successful add processes the payload twice; an incremental
reconcile leaves the row of its own that the order had while it matched no ad.

## 7. Stock requests and receiving

`StockRequest` is one request of either type with its lines and the receiving
batches made for it. Every call first reads and checks, then writes in a
transaction of its own, by id; `call` holds what it read.

| State | In the code |
|---|---|
| `type`, `status` | `wms_purchasing_batches` |
| `approved`, `received` | the quantities of `wms_purchasing_batch_lines` |
| `bstatus`, `units`, `away` | a receiving batch, the units created for it, and how many of them are not STAGED |
| `raced`, `corrected`, `again` | history: lines written by a call with a stale reading; lines whose received quantity a user overwrote; batches voided a second time |

| Actions | Code |
|---|---|
| `ReadStatus`, `Respond`, `ReadResponse`, `ReadProof`, `ReadShipment`, `WriteStatus` | `updateStatus` and the endpoints that end in it |
| `ReadLine`, `WriteApproved`, `WriteReceived` | `updateLine` |
| `ReadReceipt`, `WriteReceipt` | `createBatch` of receiving |
| `ReadVoid`, `VoidUnits`, `WriteVoid` | `voidBatch`; its transaction decrements lines and then adds all of them up, so other transactions fit between |
| `Carry` | `assignPutaway`, `resetPutawayToStage` and what happens to the units later |

Row locks under READ COMMITTED are modelled where they matter: from `VoidUnits` to
`WriteVoid` the void holds its units and the lines it changed (`Voiding`,
`LineLocked`). Abstractions: invoices, payments and product profiles are in order
where a transition asks for them; an edit of a price counts as one of the
quantity; a call of `updateLine` gives one quantity; batches without a request are
not modelled; a unit is away or in staging, its bin is left out.

`StockLedger` is what receiving promises: a batch credits its units once and is
debited whole, while all of it is staged, which takes it out of staging; to be
debited again it must have been brought back. `StockRequest` implements it
(`LedgerSpec`; a batch is open, void or unused). `LedgerIsStock` relates quantities
to units, `VoidedWhileStaged` says a void has its batch and lines to itself,
`StockedByReceipt`, `OverReceiptIsRaced` and `ClosedReopenedLate` say that a
request is stocked too early, receives too much or is reopened only through a
stale reading, or by a void, which does not look at the request.

| Run | Instance | Shows |
|---|---|---|
| `StockReceipts` | both types, 2 lines of 1, 2 batches, 2 users, 1 edit | all of the above and the refinement |
| `SelfBuyReady` | self-buy, 2 lines, 1 batch, 1 user | violation of `ListedCanBeReceived` |

Two lines tell a partial receipt from a whole one and the sum from its parts, two
batches give a receipt beside a void, two users every race of two calls, a second
void of one batch among them. Users are
interchangeable, and all properties are safety properties, so the symmetry is
sound. Deadlock is checked.

`SelfBuyReady` shows a disagreement of the code with itself: `voidBatch` sets
RECEIVING_READY whatever the type, `getOverview` then lists the self-buy request as
receivable, `createBatch` refuses it, and no transition leaves that status.

Not guaranteed: overlapping receipts receive more than was approved; a void
reopens a canceled or stocked request; statuses that follow from stale quantities
stay wrong; units of a voided batch can be put away, because `assignPutaway` looks
neither at the batch nor for archived units, and `resetPutawayToStage` then returns
them to staging: a second void of the batch that had read it before the first one
passes the count of staged units in its transaction, which does not ask for the
batch's status, and debits the lines again (in `StockReceipts` `again` is not always
empty); the capacity of a bin is compared with
an unlocked count.

## 8. Dispatch and returns

`WmsDispatch` takes orders from the packing bench to the courier and back. Picking
is reduced to what it leaves behind: one basket, one variation, no bins.

| State | In the code |
|---|---|
| `order`, `held`, `pos`, `disposed` | the fulfillment order, whether it has its `basketId`, its POS order, `rtsDisposedAt` |
| `unit` | `wms_inventory_units.status` |
| `loose`, `packedFor`, `past` | `wms_basket_units`: PICKED, PACKED for an order, and REMOVED with `packedAt` |
| `recorded` | ORDER_RTS_DISPOSITION activities, which the completion of a return reads |
| `req` | a handler between its reading and its write |
| `voided`, `late` | history: orders that a void or repair has reopened; orders that a start, scan or completion wrote after they had changed since it read them |

| Actions | Code |
|---|---|
| `Assign`, `Pick`, `HandOff` | an order's demand is put into the basket, picked and handed off |
| `StartRead`, `StartWrite` | `startPackingTask` and the waybill scan: no lock around the reading, the order written by its id |
| `ScanRead`, `ScanWrite`, `ScanRefused` | `scanPackingBasketOrderUnit`, which counts before it locks; the delta scan is the case in which only a cancellation comes between |
| `CompleteRead`, `CompleteWrite` | `completePackingBasketOrder`: basket and order read before the lock, the order written by its id |
| `PackVoid` | `releaseDemandBasketOrdersForPackVoidTx`, which reads under the lock |
| `PosUpdate`, `CancelRead`, `CancelWrite` | Pancake's status, and `syncCanceledPickingOrders` with `releaseCanceledDemandOrderTx`, which takes no lock |
| `SyncRead`, `SyncWrite` | `syncPackedUnitsToDispatchedForPosOrders`, for one order or all; the same at any time for the upsert, the job after a completion, the cron and the listings |
| `VoidRead`, `VoidWrite`, `VoidRefused`, `RepairRead`, `RepairWrite` | dispatch void and the repair of one that got stuck |
| `VerifyRead`, `VerifyWrite`, `DisposeRead`, `DisposeWrite`, `Record`, `RecordLost` | returns; the activity is recorded after the commit, or not at all |

Statuses that no guard tells apart are merged (see the comments at `OrderStatus`,
`PosStatus` and `UnitStatus`). Rows are never deleted: a void leaves the unit
tracked for the order it was packed for, and most of what is hard here comes from
that. Two more approximations: a row that became PACKED again for the same order
and unit is taken for the one that a pending void or cancellation has read; and
`PackVoid` is one step, because what it decides by is read under the basket's
lock, and a cancellation that commits within it leaves what one that commits after
it would.

Properties: `DispatchedIsShipped`, `PackedOrderKeepsUnits`, `PackedUnitHasOrder` and
`DisposedIsBack`. The second and third leave aside what the code does not prevent,
and name it: a completion that read its order before a cancellation committed writes
PACKED over CANCELED, with units that are back in their bins; a start or waybill that
read its order before it was completed writes PACKING over PACKED, with units
packed outside any basket; a scan without delta header packs one unit too many, or
for an order that has been completed or canceled. Each puts its order into `late`,
at the write.

`DispatchReturns` checks them with orders of two and one units, two units, two
handlers in flight, each unit packed at most once for an order and voided
(`MaxPacks`), POS statuses open, shipped, returning, returned and canceled, and
disposition to a bin (a disposition that writes units off is in the proofs, and
differs in that such a unit is not picked again). Two orders share a unit after a
void; two handlers give every race of two of them. States after a late write to
the second order are checked and not followed further (`LateOnlyA`): with them the
instance is too large, and the proofs have no such bound. Units and requests are
interchangeable. `CHECK_DEADLOCK FALSE`: orders that are all canceled or disposed
leave nothing to do.

Not guaranteed, besides the late writes: a canceled order keeps units PACKED when
it was completed before, because the cancellation sync returns the units of active
rows only, completion has removed those rows, and the dispatch void asks for a
PACKED order; an order shipped after the reading of a dispatch void is reopened
although the courier has it; a unit tracked for two orders is taken by the sync,
void or return of either; after a void and a second packing the next dispatch void
is refused for ever; an order completed after Pancake reported it returning is
never dispatched and its return never verified.

## 9. Proofs

All theorems hold for every value of the constants that the modules' assumptions
allow: any number of processes, executions, units, baskets, orders, lines, users
and handlers in flight. Where quantities are added up, the sets they range over are
assumed finite, as tables are: units, bins, orders and baskets in
`BasketAssumption`, units in `DispatchAssumption`, lines in `RequestAssumption`.

**Sums** (`SumTheorems`)

- The lemmas on `SumFunctionOnSet` that the ledgers need: what a sum becomes when a
  term changes, an element comes or goes, two functions are added, terms are
  compared, a set is split or renamed; and that the sizes of the classes of a set
  add up to its size. The operator is defined by a recursive function under a
  `CHOOSE`; that this function exists and is unique follows from the well-founded
  order of the finite subsets of a set (`SetInduction`, `SumStepwise`). The other
  lemmas follow by removing one element at a time (`RemovalInduction`). Both state
  induction over a set of subsets instead of a predicate, so they can be cited.

**Engine** (`WorkflowEngineProofs`, from `EngineAssumption`)

- `TypeCorrect` (`Spec => []TypeOK`). `TypeOK` alone is not inductive: an action
  indexes rows by a local variable of its handler. `TypeInv` adds, per handler,
  which program counters have which locals set (`RunOK`, `TrigOK`, `RecOK`). The
  proof has one lemma per group of variables that names the only actions which
  change it (`RunChanges`, `RecChanges`, ...), and one step per such action.
- `QueueSingleRunner`, `QueueBoundedRework`, with inline runs and refused adds. The
  invariant `QueueInv` says that a busy worker's job is active (`Held`), that no two
  workers have one job (`Single`), and that the dates counted so far and those its
  runs in progress still have to count are paid for by the job, the times Bull
  gave it back and the inline runs started (`Given`, `Left`, a sum over the inline
  slots). `Calm` collects the steps that touch none of this.
- `TerminalIsLeftLate` (`Spec => TerminalLeftOnlyByStaleReader`), with inline runs,
  crashes and all faults. `ReadInv` has one part per kind of reader (runs, triggers,
  callbacks, cancels, queue hooks, recovery): the status it has read and is about to
  overwrite was unfinished. `FirstInv` adds what holds of an execution that was given
  once and whose first run has not read it yet: nobody has finished its row or is
  about to, so that run cannot read COMPLETED or FAILED (`SeenFinished`).
- `CompletedMeansComplete` (`Spec => []CompletedIsComplete`), assuming
  `"cancel" \notin Environment`; a cancel that is overwritten by COMPLETED refutes
  it otherwise. `FullInv` says that nothing is cancelled, that a run has counted at
  least the dates it has passed, and that completed jobs, and hooks and
  reconcilers which are about to write COMPLETED, come from a full count.

**Baskets: units and orders** (`WmsBasketProofs`, from `BasketAssumption`)

- `PickedUnitsAreHeld` (`Spec => []PickedUnitHasRow`) and `UnitsPassOverShelves`
  (`Spec => CustodyIsContinuous`). The invariant `CustodyInv` is
  `PickedUnitHasRow` with the shapes of the stock tables. There is one lemma per
  way in which a handler changes stock (rows removed, units restored, taken,
  moved, packed, nothing), and the actions are mapped to these. The second
  theorem is not repeated by a run: it needs two baskets, two orders and a stale
  move, and holds for every step of a state that satisfies `CustodyInv`.
- `PackedUnitsAreSettled` (`Spec => PackWorkIsSettled`), assuming
  `"void" \notin Ops`: with basket voids it fails (section 4). `ReqInv` says that
  handlers in flight run operations in use, on orders; each way to remove a packed
  row is one of `ShelvedRows`, a completion or a pack void.
- `NobodyWaitsForScan` (`Spec => []PickingIsShort`), for every set of operations.
  `ShortInv` extends the property to all statuses before the hand-off, because an
  assignment keeps the count an order has. There is one lemma per handler that
  writes orders; voids and repairs reset the count, recounts decide status and count
  together (`ProgressedShort`).
- `DemandInOneBasket` (`Spec => []OneOpenBasket`) and `ScansStayInOwnBasket`
  (`Spec => ScannedIntoOwnBasket`), assuming that no basket is voided, no pack work
  voided and no order completed; section 4 says how they fail with voids. Then only `Assign` moves
  an order (`OthersStay`), so its demand lies in its basket (`DemandInv`), and the
  picker of a basket with orders is the claimer of each of them (`PickerInv`), which
  is what a scan relies on between its reads and its commit.

**Baskets: what is counted** (`WmsBasketLedgerProofs`)

Each theorem names the operations it leaves out in a hypothesis on `Ops`; the
others may all be in use at once, which is more than any one run combines.

- `BasketTypes` (`Spec => []TypeOK`), for every set of operations. The hard part is
  that the counts stay natural numbers and within `MaxQty` through the recounts
  of `SyncCounts` and the deductions of a void.
- `BasketLedgerAgrees`, `HandedOrdersAreComplete`, `NoOrderIsOverpicked`, without
  `void`, `complete`, `packVoid` and `move`. The invariant is `LedgerInv` on top of
  `ShortInv` and `DemandInv`: the demand of an order asks its bins for exactly the
  order's quantity, in its own basket alone, and counts what the bins gave, none
  more than it was asked for (`PlanInv`); no unit in a basket is on a shelf
  (`RowsInv`); orders that were handed off are complete, and so are those which a
  waybill or a start has read and will write without a second look (`StillSo`). A
  scan changes one cell, one demand and one row; that it cannot exceed the order is
  the sum over the cells. A void or completion takes the units of a basket and
  leaves the demand rows of other orders (section 4), a stale move puts a unit
  back on a shelf under its row: `LedgerAgrees` is no invariant then.
- `BinsKeepTheirPromises` (`PromisedStockIsThere`), with assignments, scans,
  hand-offs, queue writes and POS changes. `OwedInv` is the property itself, summed
  over all cells of a bin; `HoldingInv` says that no basket has gone to packing. An
  assignment plans what is free and not yet owed, a scan lowers both sides by
  one. Waybills and starts are left out: `getDemandPickBinAvailability` looks at
  baskets in picking only, so the argument needs that no basket with open
  promises is in packing, and with stale waybill, queue and start writes on one
  basket that is not an invariant. Whether the property itself fails then is open.
- `OrdersArePackedInFull` (`PackedOrderVerified`), with basket voids and all other
  operations but `legacyScan`, `packVoid` and `move`. `PackedInv` says that an
  unpacked row belongs to no order, that a packed row's unit is packed, and that as
  many units are packed for an order as rows are counted (`PackStock`); and that a
  completion which has counted still has its units. The scan without delta header
  checks the line before its lock, a pack void and a stale move put a unit on a
  shelf that is still counted as packed: each of the three breaks it.
- `NoPhantomUnits` (`CountedUnitsAreThere`), with basket voids, their late repairs
  and all races, without `complete`, `packVoid` and `move`. The property is about the
  active orders of a basket and not inductive: a repair takes an order away and a
  queue write may make it active again. `CountInv` bounds what all orders,
  whatever their status, count in a basket (`Total`).

**Updates of an order** (`ConfirmationUpdateProofs`, from `RequestAssumption`)

- `TypeCorrect`, `LeaseAlwaysHasReleaser`, `LostOnlyAfterLease`. The invariant
  adds to `TypeOK` that a job in the queue has a requester (`JobOK`), that an
  execution belongs to an attempt the job has made (`RunsOK`), and that a call
  between its lock and its end holds the lease or has lost it, and that no call whose
  row was deleted holds one (`LeaseOK`); the last is what the action property rests
  on.

**Webhooks** (`PancakeIntakeProofs`, from `IntakeAssumption`)

- `TypeCorrect`, `OpenLogsAreWorkedOn`, `ChangesAreReconciled`, for any number of
  deliveries, attempts, windows and faults and in both reconcile modes; the last
  one assumes `Concurrency = 1`. `JobsOK` and
  `ReconcileOK` say that an execution Bull waits for has an active job of its own
  and, with that concurrency, that one window's reconcile is active at a time; `LogOK` strengthens
  `OpenLogHasWork` by leaving the receiver out that only has to mark its log.
  `DebtOK` carries the third theorem: unless a reconcile is still ahead (`Ahead`),
  the one under way has not read the row or has read it as it is, and after a full
  reset has found no other place taken (`Sees`). A payload that finds its window's
  job taken is safe because it chose the window after it wrote the row, and only the
  jobs of windows that have ended run: one that is active by then began later and
  reads that row or a newer one (`Owed`).

**Stock requests** (`StockRequestProofs`, from the module's assumption)

- `TypeCorrect`, `VoidIsExclusive`, `OverReceiptNeedsRace`, `ClosedStaysClosed`
  (`Spec => ClosedReopenedLate`, by `CallsFollow`: a status update that read its
  request closed leaves it as it is, and a receipt began on an open one; a void is
  the exception the property names), and
  `ReceivingKeepsLedger`: every step of `StockRequest` is a step of `StockLedger`
  or leaves its variables alone. Credits and debits need that a batch a call is
  about to use is still unused or still staged, which is the exclusive void and the
  count of receipts in progress; that a debit takes units out of staging needs that
  every batch in use has some (`BatchesOK`).
- `ReceivedIsStock` (`Spec => []LedgerIsStock`): the sum over the open batches gains
  a term with a receipt's last write and loses it with the first void's, by as much
  as the line's quantity does, because a void is exclusive and a batch is written
  once. A second void leaves the sum alone and puts the batch among those that excuse
  its lines (`again`).
- `StockedWhenReceived` (`Spec => StockedByReceipt`): a call writes STOCKED when the
  totals it has read say so; if these are the present ones and no line has a surplus,
  every line is received, since equal sums of terms that are pairwise at most equal
  have equal terms (`SumStrict`).

**Dispatch** (`WmsDispatchProofs`, from `DispatchAssumption`)

- `TypeCorrect`, `DispatchedOnlyShipped`. `RowBound` bounds the
  REMOVED rows by the packings, `OneRow` says a unit is loose or packed and not
  both, `SyncSeen` that the units a sync has read are tracked for an order that
  was shipped when it read them. The steps are classified by what they do to a
  unit, its rows, an order and a request (`UnitMove`, `RowMove`, `PastMove`,
  `OrderMove`, `RequestMove`); all later proofs go by these classes.
  `DispatchedOnlyShipped` uses that Pancake does not turn a shipped order back
  into an open one (part of `DispatchAssumption`).
- `NoOrphanedUnits` (`Spec => []PackedUnitHasOrder`). The property is not inductive: a
  void or a repair in flight may be about to reopen the order that a unit has.
  `Settled` names an order that none of them will take away: it is canceled, or was
  packed with more than it sold, was written late, or is packed and every void that
  has read it holds the unit and no repair has read it. `FullInv` supplies the second
  case: whoever has read an order to reopen it found it packed in full, so a unit
  packed for it after that is one too many. A completion under way has counted all
  units, and rows are not deleted, so that the order it writes has them
  (`Completing`); `HeldInv` says that a packed order is in no basket, and that one
  which is being packed is in it or was written late.
- `PackedOrdersKeepUnits` (`Spec => []PackedOrderKeepsUnits`) and
  `DisposedReturnsAreBack` (`Spec => []DisposedIsBack`), assuming `ReturnedIsFinal`:
  Pancake takes no order back out of "returned", as in the run. Without it a unit
  at the return location would belong to an order that is shipped again. Both rest
  on `GoneInv`: units at the courier and the return location, and those a sync or
  return holds, were packed for an order that left, and an order that left takes
  nothing more from the bench (`Left`, `StepLeft`). The first adds `KeepInv`: before
  its completion an order that no void reopened and that was not written late has no
  earlier packing and at most the units it sold; and a write that takes a unit of a
  single order is one of that order's own handlers, or finds it gone
  (`WriteOfOther`). The
  second adds `RecordInv`, on the activities that stand in for a status, and
  `BackInv`, which strengthens the property by the syncs that still hold a unit.

Only model-checked: liveness (`Settles`, `LeaseIsReleased`, `RowIsCounted`); the
prover handles neither fairness nor `ENABLED` here. The hypotheses on `Ops` and
`ReturnedIsFinal` are part of what is proved. `CompletionIsVerified` and
`OneOrderBeingPacked` are neither proved nor in a run: the code does not keep them
(section 4).

## 10. Not modelled

`PROJECT.json` lists every component with its status. Not modelled are the user
interfaces (`apps/web`, `apps/admin`, `apps/stox`), which hold no state of record;
authentication, roles, master data, forecasting, KPIs and reports, which are
single-row writes and reads; media storage and external APIs; and the analytics
coordinator and caches. Within the modelled components: the cron registry,
workflow editing and listing; the `SERIAL_RESERVED` mode, direct packing and repair
screens of the mobile service; the operations monitor; transfers and adjustments of
stock; bins, capacities and expiry dates after receiving; the administration of
integrations and shops. Much of the code base, including most lines of the large
services, is queries, mapping and validation of requests that write nothing.

## 11. Running

From this directory, `tlc -config X.cfg M`: `Engine*` with `MCWorkflowEngine`,
`Basket*` with `MCWmsBasket`, `OrderUpdates` with `MCConfirmationUpdate`,
`WebhookIntake` with `MCPancakeIntake`, `StockReceipts` and `SelfBuyReady` with
`MCStockRequest`, `DispatchReturns` with `MCWmsDispatch`. The longest take two to
three minutes on two workers. `tlapm M.tla` for the seven modules named `*Proofs`
and for `SumTheorems` checks the proofs. Definitions named after a plausible bug (`AddJobWithoutId`,
`RunDayStopsEarly`, ...) are not used by the specifications: put in the place of
the definition that follows them, each makes a property of a run fail, as
`PROJECT.json` lists under "mutants".
