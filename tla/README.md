# Verification of the Ananta workflow control plane

TLA+ models of the parts of Ananta in which several processes change durable
state at the same time: workflow transitions and their effect ledger, the native
graph runtime, the execution of its steps by workers, the dispatch of control
commands, the budgets of model calls, the admission of storage cleanups, and the
autopilot that dispatches the Hub's tasks. The models are checked on small
instances with TLC; the invariants of the runs, and the refinement of the
abstract specification of transitions, are proved for every value of the
constants with TLAPS.

All source paths below are relative to `src/agent/services/` unless they start
with `src/`.

## 1. The system

Ananta is a Hub (Flask, SQLModel, SQLite or PostgreSQL) that plans work, and
workers, CLI backends and frontends that carry it out. A workflow that the Hub
controls has a *binding* (which runtime runs it, at which revision). A command
on that workflow (pause, resume, approve...) becomes a *command receipt*. In the
transition path it then becomes a *transition*: a durable plan of effects that
runners bring about one by one, under leases. In the direct path a thread takes
the binding's command claim and calls the *bridge*, which applies the command to
the *native run*: a graph of nodes with a checkpoint per operation and an event
log. A node is delegated as a Hub *task*, under an *ownership* with a lease and
a retry budget of the run; a worker executes it through the *gateway*, with a
side-effect *ledger* against repeated writes and with *budgets* for the model
calls it makes. Tasks that belong to no run are moved by the *autopilot*: a loop
of ticks that recover, reconcile and dispatch them in threads.

### Inventory

| Component | State | Operations | Hard behaviour | Correct if | Module |
|---|---|---|---|---|---|
| Transition outbox store (`workflow_transition_persistence.py`) | header with state, owner, generation, lease, due time; effects with state and generation | stage, claim, claim_due, heartbeat, begin_effect, finish_effect, release, yield_ready, quarantine, reject, finalize | leases that run out under a live holder, compare-and-set on four tables | ledger ordered and proven, one live transition per workflow, outcomes final | `WorkflowTransition` |
| Runner (`workflow_transition_runner.py`) | snapshot of the last heartbeat | run, drain | crash or lost lease between any two calls | acts only on what is still true, always ends | `WorkflowTransition` |
| Queue reservation (`workflow_transition_queue_reservation.py`) | append-only reservations | observe, reserve | no lease check, unknown commit outcome | one reservation per effect, adopted after any failure | `WorkflowTransition` |
| Native finalization, retry policy | none | observe, tick; authorize_attempt, next_retry | runtime behind or ahead of the binding | bounded attempts | `WorkflowTransition`, partly |
| Control binding (`workflow_control_persistence.py`) | runtime revision, markers, scheduler lease, command claim | record_status, claim_reconcilable, finish_reconciliation, claim_command, finish_command, release_command | claims that expire, fenced by the command id alone | revision frozen under a transition; status follows the run | `WorkflowTransition`, `CommandDispatch` |
| Command receipts (`workflow_control_command_receipt_persistence.py`, `workflow_control_command_receipts.py`) | state, dispatch owner, lease | stage, claim, heartbeat, release, complete, reject, drain | driven by requests and reconcilers at once | ends as its command did | `WorkflowTransition`, `CommandDispatch` |
| Bridge and request path (`native_graph_control_bridge.py`, `workflow_control_composition.py`) | none | command, recover_command, reconcile_active | infers an application from a revision | a completed receipt was applied | `CommandDispatch` |
| Native graph runtime (`native_graph_orchestration_service.py` and its services) | checkpoints, event log | start, advance, resume | one transaction per event, checkpoint saved last | no lost update, a command applied once, the run settles | `NativeRun` |
| Parallel branches and merge (`workflow_runtime/parallel.py`) | none | select_ready, merge | branches failing in any order | merges complete branches | `NativeRun` |
| Event log, checkpoint store (`workflow_runtime/sqlalchemy_event_stores.py`) | events, checkpoints | append, save | two writers of one log | checkpoint and log agree | `NativeRun` |
| Execution ownership (`workflow_runtime/sqlalchemy_ownership.py`) | ownerships, retry budget | claim, acknowledge, fail_attempt, heartbeat, reconcile_orphan, consume_retry | leases, shared budget | fenced attempts stay fenced, retries bounded | `NativeRun`, `StepExecution` |
| Side-effect ledger (`workflow_runtime/sqlalchemy_side_effects.py`), gateway, worker node runtime (`src/worker/runtime/native_graph/`) | record per operation; nonces in memory | plan, authorize, claim, complete, fail, mark_uncertain; execute | redelivery, lost answers, restarts | no write repeated blindly, ledger truthful | `StepExecution` |
| Provider budgets (`workflow_runtime/sqlalchemy_provider_budgets.py`), model invocation (`model_invocation_service.py`) | counters, reservations, attempts per profile | reserve, reconcile; the profile loop | races on missing rows, repeated requests, dying workers | counters add up, nothing spent unpaid | `ProviderCalls` |
| Storage cleanup admission (`unsloth_storage_governance_service.py`, catalog, queue, reconciler) | task rows, artifact states | execute_operation; run_once, the worker's deletion | two databases, no common transaction; a refused write that nobody notices | artifacts are queued for a task that exists | `CleanupAdmission`, the request path |
| Autopilot and task table (`src/agent/routes/tasks/autopilot*.py`, `task_queue_service.py`, task API) | task rows, leases in histories, tick guard, threads | tick_once, dispatch threads, claim_task, complete_task, create_task, interventions | snapshots written back, threads that outlive their tick | dependents wait, one thread per task, tasks settle | `TaskDispatch` |
| Dispatch intents, other transition effects, output directory lock | a table or file each | stage, claim, complete; observe, execute | as above | as above | planned |
| Condition evaluator, execution plan, control service | none of their own | validation and wiring | none | | left out |
| Workers' tools, CLI backends, frontends, voice, game, CodeCompass | | I/O around models, shells, browsers | | | left out |

The hazards this gives rise to are listed in `PROJECT.json`, each at its line
and with the property that guards it.

## 2. The modules

| Module | Content |
|---|---|
| `WorkflowTransition` | transitions: store, runner, reservation authority, observer, status recorder, stagers, crashes and time |
| `DurableTransition` | the abstract specification: what the outbox promises a workflow |
| `NativeRun` | one run of the native graph runtime |
| `StepExecution` | writing steps of a run, from the Hub's claim to the worker's effect and back |
| `CommandDispatch` | control commands on a native run without a transition |
| `ProviderCalls` | model calls of the steps of a run and the Hub's budgets |
| `CleanupAdmission` | the request for a storage cleanup between task queue and storage catalog |
| `TaskDispatch` | the Hub's task table and all that moves a task in it |
| `MC...` | constants and symmetry for TLC |
| `WorkflowTransitionProofs`, `WorkflowOutboxProofs` | transitions: type correctness, order, proof and fencing of the ledger; rows, snapshots, budgets and the refinement |
| `NativeRunProofs`, `StepExecutionProofs`, `CommandDispatchProofs`, `ProviderCallsProofs`, `TaskDispatchProofs` | the theorems about each of these modules |

How they fit together: `CommandDispatch` sees a run as its checkpoint revision
and last command; `NativeRun` is that run, and its `CommandOnce` and
`CheckpointChain` are what `CommandDispatch` assumes when a save of a stale copy
fails. `NativeRun` sees a delegated step as an ownership and a task that somehow
gets a result; `StepExecution` is how. `ProviderCalls` is what the handler of a
step does when it calls models. `WorkflowTransition` is the other way a command
may take, over the same binding row; the markers of the two paths exclude each
other in the binding, and each module has the other's columns empty.

Definitions named `Op_Fault` repeat `Op` with one fault. No specification uses
them; substituting one shows that a property notices that fault.

### WorkflowTransition

State. `transition`, `effect`, `receipt`, `binding` are the rows of the four
tables; `slot[t][e]` is the reservation of effect e, as the generation of the
claim that created it, or 0; `status` is the revision the runtime would report;
`runner[r]` is the program point of a runner and what it remembers: transition,
generation, effect, what the observer said, attempt number, observed revision,
reason. `binding.revision` is the column `runtime_revision`. One binding is
modelled, since transitions of different workflows share no row.

Actions. A store operation is one transaction, hence one action. A runner is
cut at every transaction and every adapter call:

| Action | Code |
|---|---|
| `StageReceipt`, `Stage` | receipt store `stage`, transition store `stage` |
| `Claim` | `claim`, `claim_due` (and `run`, `drain`) |
| `Loop` | start of `_run_claimed`: heartbeat, first effect not applied |
| `Observe`, `Observed` | `observe_or_adopt`; heartbeat and the decision on its answer |
| `BeginEffect`, `Begun` | `begin_effect`; heartbeat before `execute` |
| `Execute`, `Insert` | the two transactions of `reserve_transition_queue_slot` |
| `FinishEffect`, `Finished`, `YieldReady` | `finish_effect`; heartbeat; `yield_ready` |
| `FinalizeObserve`, `FinalizeObserved`, `Finalize` | observer; heartbeat and decision; `finalize` |
| `Retry` | `_retry_or_quarantine` with `release` |
| `Quarantine`, `Reject` | `quarantine`, `reject` |
| `Raise` | an exception caught by an `except Exception` of the runner |
| `Crash` | the process dies, or an exception leaves `run` |
| `RecordStatus`, `RuntimeAdvances`, `Tick` | status poll; the runtime; the clock |

Abstractions. Times are kept as what is left of them: `lease` for
`claim_expires_at`, `wait` for `available_at`; a retry delay is any number of
ticks up to `MaxDelay`. `attempt_count` is not kept apart from the generation,
because every operation writes both together. Digests, fingerprints, payloads
and tenant checks are left out: in the model nobody presents a wrong one. The
optimistic `revision` columns are left out too: they are compared and written
inside the transaction that has locked the row. The clock is read when the
transaction takes effect. Columns of the other command path
(`command_claim`, `scheduler_owner`) are those of `CommandDispatch` and are
taken as empty here, like `dispatch_intent_id`.

### DurableTransition and the refinement

The abstract specification has four variables: the phase of each transition,
the effects that have happened, the effects that are proven, and the revision.
An effect happens once, in order, after all earlier ones are proven; the
revision moves only while nothing holds the workflow or by a completion; a
rejection has had no effect. It allows an effect to happen after the transition
was put on hold, because `reserve` checks no lease: a runner that has begun the
effect and is late will still insert its reservation. `DurableEffects` states
that `WorkflowTransition` implements it, with phases mapped from header states,
`made` from `slot`, and `proven` from the ledger.

### NativeRun

State. `checkpoints` is the revisioned store, each with the run's state (status,
completed, failed, skipped and running nodes, open gates, last command) and
`event_sequence`; `log` the event log; `owner[n]`, `retries` and `task[n][a]`
the ownership store and the Hub's queue; `verdict` how the conditions of edges
evaluate; `commands` what operators have issued; `hub[h]` a thread of the Hub:
the program point of its operation, its copy of the state, and what it still has
to do.

Actions. `Start`, `Advance`, `Resume` load the latest checkpoint; `Poll`,
`CollectCompleted`, `CollectFailed` are `_collect_results`; `Skip`, `Merge`,
`Select`, `Dispatch`, `OpenGate`, `Claim`, `Submit` the rest of `_tick` and the
delegation; `CancelTask`, `Fence`, `EndRun` are cancellation; `Finish`, `Save`,
`Store` end the operation. Skips are resolved once, before the merges of a tick
(`AtMerges`). A completed node of `SideEffects` has a second event, of the
ledger's record, which `Unreconciled` refuses after the completion is in the log.
`Refuse` is a delegation without a provider, with a side effect in recovery, or
rejected by the queue: the run fails and the loop over the candidates goes on.
`Emit` appends one event: it needs the log to be as
long as the copy says, and refuses a key that is in the log, because the content
hash covers `occurred_at`. `Authorize` is the gateway's own append to that log,
`Work` the worker's result, `Expire` a lease, `Crash` a Hub that dies. Any
exception is `Raise`: the copy is lost and nothing is undone.

Abstractions. A condition is what it may evaluate to (match, miss or error). A
result is completed, completed but unfit (artifacts missing), or failed. Grants,
hashes, tenants and the contents of artifacts are left out.

### StepExecution

State. `owner`, `consumed`, `used` are the ownership rows and the run's retry
budget, `ledger[s]` the side-effect record with its revision, `task[s][a]` the
delegated task, `nonces[p]` the authorizations a worker process remembers.
`execs[s]`, which no code reads, records the executions of the handler.

Actions. The Hub: `Plan`, `Claim`, `Authorize`, `Submit`, `CollectCompleted`,
`CollectFailed`, `Cancel`, `Retry`. The worker thread: `Deliver`,
`AuthorizeExecution` with its nonce, `CheckOwner` and `ClaimEffect` (two
transactions of the gateway), `Begin` and `End` of the handler, `Finish` of the
ledger, `Report`, and `ConsumeRetry`. Faults: `Lost` answers, redelivery,
`Restart` of a process, `Expire`. `Heartbeat` and `ReconcileOrphan` are
operations of the ownership store that nothing in production calls; they are
modelled as part of its interface.

### CommandDispatch

State. `run` (revision and last command), `applied[c]` (recorded for the
properties), the `binding` row with scheduler lease, command claim and receipt,
`receipt[c]`, and `thread[t]`: request threads, reconcilers of receipts,
`reconcile_active` tickers, and one thread per command without a receipt.

Actions. `Request`, `RequestClaims`, `DrainClaims`, `ReadStatus`, `Heartbeat`,
`Complete`, `Reject`, `GiveUp` drive a receipt; `Sign`, `ClaimCommand`, `Load`,
`Save`, `Returned`, `FinishCommand`, `Release` are the bridge. Only the denial of
the policy is a rejection; a command signed for another revision than the run's
raises, and its receipt is retried; `Tick`,
`TickLoad`, `TickSave`, `TickRecord`, `TickYield` the background reconciliation.
Leases end in `Expire...`, with a bound on how often one ends under a thread that
is alive and still uses it.

### ProviderCalls

State. `budget[s]` and `rows[s]` per scope (run and step attempt), `used[n][p]`
attempts per profile, `consumed` for their idempotency, `requests` in flight at
the Hub, `worker[n]`, and `spent`, what each call really used.

Actions. A transaction of the Hub is `ReadReservations`, `ReadBudgets`, and then
`Commit`, `Refuse` or `Conflict` with a bounded number of tries. The worker
`Invoke`s, is `Served` or `Failed`, retries or falls back, stops waiting
(`GiveUp`) or dies (`Stop`); `Redeliver` is a repeated request. Row locks are
left out: a row that does not exist cannot be locked and SQLite has none, so the
comparison of revisions is what protects the counters.

Sums. What a set of reservations adds up to is `Total`, the number of its
`Units`: one unit for each token of each reservation. It is the same number as a
fold gives, and one the proofs can reason about.

### CleanupAdmission

State. `task` (status and plan of the cleanup's task), `artifact` (state and
holder), `revision` of the catalog, `bound` references, `proc` of the request
threads.

Actions. One per transaction of either database: `Request`, `PlanCleanup`,
`Reserve`, `Ingest`, `Mark`, `Activate`, `Reject` of `execute_operation`,
`Register` and `BindReference` of the catalog, and `Crash`. `Stores` is
`update_local_task_status` without force: the state machine decides, from the
status of the row or from todo if there is none, whether anything is written
(`CanTransition`). No reserved row is ever written, so the reconciler, the worker
and its result, which start from one, have nothing to do and no action here.

### TaskDispatch

State. `task` rows (status, assigned agent, hold, age, kind of last output,
reason, retry counters of `verification_status`), `lease[t]` the unexpired
claims in a task's history, `work[a]`, the `tick` under way with its snapshot,
the dispatch `thread`s of all ticks, and the `stop` event.

Actions. `Tick` is one step of `run_tick`: `StartTick`, then the recovery passes
over the snapshot (`Recover`), the dependency pass (`Reconcile`,
`ApplyVerdict`), `Queue`, `Launch`, `EndTick`, or `Abort` on the hard timeout
and the stop event. `Dispatch(th)` is one step of a thread, cut at every read
and write of the row: assignment, scope, hard guard, proposal strategies,
execution, result. A task that must go to a destination without a worker fails
(`NoWorker`, `Destined`), and so does one whose workflow assignment cannot be
bound (`BindFails`) or whose thread an exception leaves (`Escape`, `Raised`).
`OnDeclined` is what the policy does when every strategy declined. `Claim`, `Complete`, `Intervene`, `Create` are the API.
`Permits` is `can_transition_to`; a write is `Write` (guarded), `Overwrite`, or
`WriteResult`. The statuses created and todo are guarded alike everywhere and are
one here.

## 3. The runs

| Run | Instance | Checks |
|---|---|---|
| `transition_ledger` | 2 runners with one owner, 1 command, 2 effects and finalize, 2 attempts, lease 2, 2 faults; runners symmetric | type, receipt mirror, ledger order and proof, readable aggregates, fencing tokens, snapshots, the two budgets |
| `transition_binding` | 2 runners with one owner, a command and a plain transition, 1 effect, lease 1, revisions to 2, 1 fault | marker, frozen binding, confined reservation race, final outcomes, refinement |
| `transition_liveness` | 2 runners, 1 command, 1 effect, 2 faults, fairness, no symmetry | a staged transition settles |
| `late_runtime` | 1 runner | the docstring of the finalization observer; violated |
| `native_concurrent` | 2 Hub threads, 1 node of 2 attempts and every result, cancel and retry commands, expiring leases, a gateway event, 1 crash | lost updates, commands applied twice, completed runs left alone, ended ones fenced, agreement of log, checkpoint, ownership and task |
| `native_join` | checkpoint node, two gated tasks behind it, one of them behind a condition, merge; 1 Hub thread, 1 crash, 2 attempts, every result, expiring leases, a gateway event, refused delegations, a side effect; 2 commands of all six kinds; fairness | complete merges, bounded delegations; a run settles, or is wedged in one of two named ways |
| `step_workers` | 1 step of 3 attempts, 2 threads of a process, 3 deliveries, 1 restart, 1 lost answer, expiring leases | repeated writes, truthful ledger, acknowledged steps, retry budget |
| `dispatch_commands` | 2 commands with a receipt (one denied), 1 without, a request thread, a receipt reconciler, a ticker, 1 crash, 1 slow thread; fairness | commands applied once and as answered; receipts settle and the status catches up, with named exceptions |
| `provider_loop` | 2 step attempts, a plan of two profiles with 2 and 1 attempts, run budget for 3 calls, 2 invocations, 1 fault | counters, budgets, spending, planned calls |
| `cleanup_queued` | 2 cleanups, 2 artifacts, 2 request threads, 1 crash | an artifact is queued for a task that exists; violated |
| `task_tick` | a task and its dependent, 2 threads, 2 agents, every answer and operator action, 2 claims, operations, faults, stops or crashes in one history | retry counters; one thread per task; dependents wait |
| `task_settles` | a task and its dependent, 1 crash, 1 fault, 1 cancellation; fairness | every task ends |

What the properties say, for transitions:

- `ReceiptMirrors`: owner, generation, lease and state of a receipt and of its
  transition agree after every transaction, so the mirror check never locks a
  holder out.
- `OrderedLedger`, `EffectProven`: the ledger is a prefix of applied effects
  with growing generations; a reservation exists only under a recorded intent,
  an applied effect only over a reservation.
- `AggregateReadable`: no operation writes rows its own constructors refuse.
- `FencingTokenUnique`, `SnapshotStillCurrent`: generations separate runners
  that share an `owner_id`; while the lease is good, what the runner took from
  its last heartbeat is still so.
- `ReservedWithinBudget`, `ClaimsWithinBudget`: `authorize_attempt` and
  `next_retry` bound what they are meant to bound, crashes included.
- `MarkerExclusive`, `BindingFrozen`: the marker names exactly the live
  transition, quarantined ones included, and nobody moves the revision under it.
- `ReservationRaceConfined`: two runners about to insert a missing reservation
  are inserting the same one, so the `reserved_revision` constraint can only
  fire between writers of one effect, where the loser adopts.
- `SettledForGood`, `StagedSettles`: outcomes are final, and reached.
- `LateRuntimeRetried` (violated): the observer is said to retry a status that
  is not yet consistent. At exactly the expected revision it reports it as
  observed; `finalize` wants a later one, and the runner quarantines.

For native runs (`NativeRun`):

- `CheckpointChain`: the checkpoints are a chain of operations, each made from
  the one before it, although `save` reads the revision again; the expected
  event sequence is what a thread with a stale copy fails on.
- `CheckpointReplaysLog`: status and running nodes of every checkpoint are what
  the events up to its `event_sequence` say.
- `CommandOnce`: a command takes effect once, on the revision it was issued for.
- `OwnershipAgrees`: an ownership is closed by the result of its own attempt,
  and a node the log calls completed has its ownership closed.
- `CompletedIsFinal`: nothing is saved over a completed run, by no operation that
  was under way when it completed.
- `KnownDelegationsFenced`: what any checkpoint of a failed or cancelled run has
  as delegated is not waiting for a worker, whichever thread ended the run and
  whoever died or raised before. `cancel_running` cancels the delegations of the
  copy that is being saved only; the property says that no delegation is dropped
  from the copies without a result. A delegation that no checkpoint names does
  survive (section 4, `NativeOrphan`).
- `MergedBranchesComplete`, `ParallelBounded`: a merge completes over branches
  that completed or may be omitted; no checkpoint has more delegations than there
  are slots, though `select_ready` counts them once.
- `RunSettles`: a run ends or waits for an operator, or is `Wedged`: it waits for
  a result that no tick can take over (acknowledged and then refused, or its
  attempt fenced or its lease lost), or the log has events its checkpoint does
  not count. The code does wedge in both ways (section 4, `EveryRunSettles`); the
  run shows that there is no third, such as a merge that is never ready.

For steps (`StepExecution`):

- `NoRepeatWithNonces`: until a process forgets its nonces, a handler runs again
  only after runs that failed for certain. Without the condition it is violated
  (section 4).
- `LedgerTruthful`: completed only over a done write, and (no restart) free or
  failed only if no write may have happened.
- `AcknowledgedIsDone`: what the Hub takes as the result of a writing step was
  done and is recorded as done, restarts and lost answers included.
- `RetriesWithinBudget`: the retries of Hub, gateway and worker are counted once
  each and together stay within the budget of the run.

For commands (`CommandDispatch`):

- `AppliedOnce`: a command is applied at most once, and never if its client was
  told that it was refused.
- `CompletedWasApplied`: a completed receipt was applied, as long as no dispatch
  outlives its command claim (section 4).
- `ReceiptSettles`: a staged receipt is completed or rejected, unless it is
  `Overtaken`: a thread saved its checkpoint and died before it recorded it, and
  the run is past the revision the receipt was signed for.
- `StatusCatchesUp`: the Hub's status reaches the end of the run, unless a dead
  thread left a claim no receipt takes up, or an overtaken receipt keeps the
  ticks away (section 4).

For model calls (`ProviderCalls`): `ChargesAddUp` (counters equal their
reservations), `WithinBudget` (a token budget is exceeded at most by what
providers used beyond their reservations, a cost budget never),
`SpendIsCharged` (what was used, up to the reservation, is paid whatever gets
lost), `CallsWithinPlan` (no profile is called more often than its plan signs).

For cleanups (`CleanupAdmission`): `QueuedHasTask` (an artifact is queued for a
task the Hub has), which the code violates (section 4).

For tasks (`TaskDispatch`): `TypeOK`, which bounds the retry counters that passes
and threads count on from old reads; `OneThreadPerAwaitedTask` (no two threads
work on a task until a tick is given up); `DispatchedDependentsWait` (nobody
works on a task with an incomplete dependency, as long as nobody claims by hand,
intervenes or aborts a tick; a task created while the Hub runs has no dependency
in the instance); `TaskSettles` (with a crash, a fault, a cancellation and
results completed or failed).

Defined beside them, and true on the same instances when they are added to the
configuration: `TypeOK` of the other modules, `FencedForGood` (`StepExecution`)
and `OneOpenReceipt` (`CommandDispatch`). All of these are proved (section 5).

### Bounds

Bounds. Two runners are what a stale and a current holder need; the proofs cover
more. Two effects before `binding_finalize` give a first, a next and a last
stage. Two attempts separate "retry" from "exhausted". Two faults allow a crash
and a lost lease in one history, in either order, and a lease of two ticks lets
a heartbeat extend one that is half gone. `MaxRevision` 2 lets the runtime be
behind, at and ahead of the revision a second transition expects. Generations
are not bounded: retries and faults bound them. Deadlock is not checked, since
the system stops when everything is settled and no time needs to pass.

Fairness (`FairSpec`). Every runner that has claimed keeps going (weak fairness
of `Step(r)`: it is straight-line code that waits for nobody); claims keep being
offered (weak fairness of a claim by some runner: the reconcile path calls
`WorkflowTransitionDriver.tick` again and again, and a deployment that does not
has switched transitions off); time passes. Faults are bounded, otherwise a
transition may be crashed for ever; adapters may be unavailable as often as they
like, because the retry budget ends that.

For the other modules: two threads are what a stale and a current copy need.
`MaxRevision` 3 in `native_concurrent` allows a start, a command and a repeated
operation; `IdleTicks` FALSE leaves out ticks that find nothing to do, which
only save an equal checkpoint. `native_join` has one slot (`Parallel` 1), so
that branches come one after the other and a gate holds some of them back; two
commands and two attempts let a retry command and a retry of the node meet. Three attempts in
`step_workers` let two retries compete for the budget, and three deliveries let a
task be delivered twice in one attempt and once in the next. `Last` 3 in
`dispatch_commands` leaves room for a command, a tick and another command.
`MaxFaults` and `MaxEvents` bound all kinds of faults together, so that any two of
them meet and each kind alone may happen as often. Deadlock is not checked
anywhere: all of these systems stop when there is nothing left to do.

Fairness of the others. `NativeRun`: operations continue and the background
reconciliation keeps advancing an active run (`reconcile_active`); workers answer.
`CommandDispatch`: threads continue, the receipt reconciler and the tickers are
loops, leases run out. `TaskDispatch`: the loop ticks, its threads continue
(worker calls have timeouts), time passes.
Crashes are bounded.

## 4. Where the code and its documentation disagree

`late_runtime` and `cleanup_queued` are listed as runs and as findings (the
autopilot's files are in `src/agent/routes/tasks/`). The others are kept as
configurations that TLC refutes, each with the sentence it contradicts.

| Configuration | Property | Code | What is said, and what happens |
|---|---|---|---|
| `NativeCrash` | `EveryRunSettles` | `native_graph_orchestration_service.py:1014` | `src/docs/architecture/workflow-runtime.md:122-125`: "At-least-once delivery is normal. Event dedupe, monotonic sequence, checkpoint revision CAS, ownership leases/fences and a stable side-effect operation ID make recovery deterministic." After a crash between an event and the checkpoint the repeated operation is refused by its own event (another `occurred_at`), or by a log that is longer than the checkpoint says; every later operation raises. |
| `NativeGateway` | `EveryRunSettles` | `workflow_worker_gateway_service.py:1463` | The same sentence. The gateway appends `workflow.step.authorization_checked` to the log of the run; the orchestrator appends with the sequence of its checkpoint and never catches up. |
| `NativeRetries` | `EveryRunSettles` | `workflow_runtime/sqlalchemy_ownership.py:877` | The same document, 125-126: "A retry budget is shared across Temporal, Hub task, worker, tool and provider attempts." The orchestrator decides by the attempts of the node and retries; when the shared budget is used up the claim raises in every tick and the run stays running. |
| `NativeUnfit` | `EveryRunSettles` | `native_graph_orchestration_service.py:385` | The first sentence again. A result is acknowledged before its artifacts and its budget are checked; a refusal raises in every tick, and the run stays running. |
| `NativeExpired` | `EveryRunSettles` | `workflow_runtime/sqlalchemy_ownership.py:958` | The first sentence again ("ownership leases/fences"). Nothing renews or reclaims the lease of a delegated step; a result that comes after it ran out is refused in every tick. |
| `NativeOrphan` | `EndedRunIsFenced` | `native_graph_delegation_service.py:241` | Line 291: "Fence all active delegations and revoke their persisted grants." A delegation whose operation died before its checkpoint is in no checkpoint and survives the cancellation. |
| `NativeGate` | `GateHolds` | `native_graph_production_composition.py:83` | `workflow-runtime.md:116`: "pending -> running -> waiting_for_approval -> running -> completed". Opening a gate does not leave the loop over the candidates; the next delegation is refused in that status, and the run that waits is failed. |
| `StepRedelivery` | `NoBlindRepeat` | `src/worker/runtime/native_graph/node_runtime.py:87` | `workflow-runtime.md:126-127`: "Non-idempotent operations are not blindly retried; timeout after possible execution becomes `uncertain`." `already_claimed` is not refused; only the nonces in the memory of one process stop a second execution. |
| `StepProcesses` | `NoRepeatWithNonces` | `src/worker/runtime/native_graph/node_runtime.py:87` | The same sentence. A task delivered to two processes is executed by both, without any restart: neither knows the nonces of the other. |
| `DispatchAdoption` | `CompletedWasApplied` | `workflow_control_composition.py:1466` | `src/tests/test_workflow_transition_persistence.py:2581`: "test_unrelated_binding_revision_cannot_complete_the_receipt". On the direct path any newer revision completes the receipt, also one made by a command that outlived its claim. |
| `DispatchAbandoned` | `StatusRepaired` | `workflow_control_persistence.py:234` | `native_graph_control_bridge.py:116`: "Tick persisted active runs from a Hub-owned background service." A claim left by a dead thread expires for `claim_reconcilable` and not for `finish_reconciliation`; ticks advance the run and can never record it. |
| `DispatchOvertaken` | `EveryReceiptSettles` | `workflow_runtime/commands.py:186` | `native_graph_control_bridge.py:250`: "Adopt or replay one Hub-admitted command from its durable checkpoint." A tick dies after its checkpoint and before `finish_reconciliation`; the receipt staged next is signed for the revision before it. Verification raises `SignatureValidationError`, which the bridge does not turn into a rejection: the receipt is retried for ever, and keeps the ticks away from the run. |
| `ProviderFallback` | `FallbackReached` | `model_invocation_service.py:490` | `src/docs/operator/model-routing.md:147`: "Mock Gemma to return invalid JSON for a JSON-schema call. Expected: fallback decision with `trigger=invalid_json_response` and Qwen as the next attempt." The second invocation of a step retries a profile whose attempts the Hub has counted as used, is refused, and ends without the fallback. |
| `ProviderUnreported` | `SpendIsCharged` | `src/worker/runtime/provider_text_generation.py:389` | `workflow_runtime/provider_budgets.py:3-4`: "The Hub owns the shared counter, so two workers cannot each spend the full token/cost budget independently." Missing usage is reconciled as 0 and the reservation given back. |
| `CleanupQueued` | `QueuedHasTask` | `task_queue_service.py:188` | `unsloth_storage_governance_service.py:147`: "Revalidates a cleanup plan and queues it through the central Hub." The reserved row is refused by the state machine (todo to reserved) and the refusal is not looked at; the artifacts are marked for a task that does not exist, the request ends with 503, and the reconciler has no reservation to repair. |
| `TaskStop` | `OneThreadPerTask` | `autopilot_tick_engine.py:744` | `src/docs/threading-audit.md:73-74`: "jeder Task geht an höchstens einen Thread". A stopped or timed-out tick puts tasks back while their threads go on. |
| `TaskCancelled` | `CancelledStays` | `autopilot_task_dispatcher.py:188` | Line 498: "Hard guard: never re-propose terminal tasks, even inside strategy loops." Every check reads before the write it guards, and the write is permitted from cancelled. |
| `TaskReview` | `ReviewWaits` | `autopilot_tick_engine.py:403` | Lines 289-290: "Guardrail: in fully autonomous runs, stale waiting_for_review tasks must not block goal terminalization indefinitely." The pass does not ask whether the run is autonomous. |
| `TaskRecovered` | `CompletedStays` | `autopilot_tick_engine.py:194` | Line 169: "Recover stale active tasks that stopped progressing without terminal output." It decides from a snapshot and writes with force over a task completed meanwhile. |
| `TaskClaim` | `DependentsWait` | `task_queue_service.py:366` | `src/docs/architecture/workflow-gates.md:76`: `depends_on` is authoritative for "queue-side blocking". `claim_task` does not look at it. |
| `TaskCreated` | `DependentsWait` | `autopilot_tick_engine.py:431` | The same line. A dependent created between the dependency pass (418) and the queue is dispatched at once; the queue does not look at `depends_on` either. |
| `TaskStuck` | `TaskSettles` | `autopilot_tick_engine.py:158` | Lines 143-144: "Reset tasks stuck in `proposing` with no output for > 90 s back to `todo`". A task with an earlier output is skipped by that pass and in no other. |

## 5. The proofs

Each proof uses the named `ASSUME` of its module and nothing else: identifiers
of different kinds are apart, limits are natural numbers, positive where the
code needs one, a plan has no cycle. Nothing bounds the number of runners,
threads, tasks, effects, revisions or faults. A theorem that needs more states
it as a hypothesis. There are four of them, and for each a
configuration that TLC refutes shows that the property is false without it:

| Hypothesis | Theorems | Refuted without it by |
|---|---|---|
| `SingleProcess`: the worker threads share a process | `NoncesStopRepeats`, `LedgerTellsTruth` | `StepProcesses` |
| `~ClaimsExpire`: a dispatch gives its command claim back in time | `CompletionsAreTrue` | `DispatchAdoption` |
| `LateIsFree`: a task created while the Hub runs has no dependency | `DependentsAreHeld` | `TaskCreated` |
| `~UnreportedIsZero`: missing usage is told apart from none | `SpendingCharged` | `ProviderUnreported` |

| Theorem | States | Module |
|---|---|---|
| `TypeCorrect` | `TypeOK` | `WorkflowTransitionProofs` |
| `EffectsProven`, `LedgerOrdered`, `FencingTokens` | `EffectProven`, `OrderedLedger`, `FencingTokenUnique` | |
| `OneLiveTransition`, `BindingStaysFrozen`, `ReceiptFollows`, `AggregatesReadable`, `ReservationRace` | `MarkerExclusive`, `BindingFrozen`, `ReceiptMirrors`, `AggregateReadable`, `ReservationRaceConfined` | `WorkflowOutboxProofs` |
| `SettledRowsStay` | the action property `SettledForGood` | |
| `OutboxImplements` | the refinement `DurableEffects` | |
| `SnapshotsHold`, `ReservationsWithinBudget`, `ClaimsStayWithinBudget` | `SnapshotStillCurrent`, `ReservedWithinBudget`, `ClaimsWithinBudget` | |
| `NoLostUpdate`, `CommandsTakeEffectOnce` | `CheckpointChain`, `CommandOnce` | `NativeRunProofs` |
| `CompletedRunsStay` | the action property `CompletedIsFinal` | |
| `OwnershipsAgree`, `MergesSawBranches` | `OwnershipAgrees`, `MergedBranchesComplete` | |
| `CheckpointsReplay`, `DelegationsBounded`, `KnownFenced` | `CheckpointReplaysLog`, `ParallelBounded`, `KnownDelegationsFenced` | |
| `BudgetKept`, `AcknowledgedWasDone`, `NoncesStopRepeats`, `LedgerTellsTruth` | `RetriesWithinBudget`, `AcknowledgedIsDone`, `NoRepeatWithNonces`, `LedgerTruthful` | `StepExecutionProofs` |
| `AttemptsStayFenced` | the action property `FencedForGood` | |
| `CommandsTakenOnce`, `CompletionsAreTrue` | `AppliedOnce`, `CompletedWasApplied` | `CommandDispatchProofs` |
| `BudgetsAddUp`, `BudgetsHold`, `PlanHolds`, `SpendingCharged`, `TypeCorrect` | `ChargesAddUp`, `WithinBudget`, `CallsWithinPlan`, `SpendIsCharged`, `TypeOK` | `ProviderCallsProofs` |
| `DependentsAreHeld`, `OneThreadEach`, `RetriesWithinLimits` | `DispatchedDependentsWait`, `OneThreadPerAwaitedTask`, `TypeOK` | `TaskDispatchProofs` |

Every inductive invariant below was checked with TLC, on the instances of the
runs of its module, before it was proved.

### Transitions: the ledger

`TypeOK` is not inductive: `claim` takes a transition from a set, but what a
runner at work writes to is `runner[r].t`, so `RunnerBound` (a runner at work
knows its transition, and its effect is one before `binding_finalize`) is proved
with it.

`EffectsProven`, `LedgerOrdered` and `FencingTokens` come from one invariant,
`LedgerInv`. `EffectProven` needs to know, when a reservation is inserted
without any lease, that the ledger still shows the intent: this is what
`RunnersInformed` says of a runner after `begin_effect` (the effect is begun
under its generation or a later one). It holds because nothing a runner may
remember is ever taken back: generations, intents and reservations only grow
(`Grows`), and `reject`, which does reset effects, finds none begun.
`OrderedLedger` needs, at `begin_effect`, that earlier effects have smaller
generations: they are at most the header's (`LedgerBounded`) and differ from it
(the one-effect-per-claim check). `FencingTokenUnique` needs that every
generation held was handed out.

### Transitions: rows, snapshots, budgets, refinement

`OutboxInv` adds to `LedgerInv` what the four tables say of each other
(`RowsInv`): a header the constructors accept, effects that fit its state, a
binding that is held exactly by the live transition at the revision it was
planned on, and a receipt that mirrors its header. No part is inductive alone:
`finalize` compares the revision of the binding with the transition's, and every
write of a holder goes through the mirror check, so each row is kept because of
the others. `ReasonInv` and `HolderInv` are what the runners add (a reason for a
quarantine; the holder of the current generation is the owner in the header).
The row properties, `ReservationRaceConfined` and, with one more look at every
write, `SettledForGood` follow.

The refinement maps the phase of a transition from its header, the effects made
from the reservations, and the effects proven from the ledger. `OutboxImplements`
shows for every step of `Next` under `OutboxInv` which abstract step it is:
`Insert` makes an effect, `FinishEffect` proves one, `Finalize`, `Reject`,
`Quarantine`, `Stage` and `RecordStatus` are themselves, all else stutters.
`Insert` needs no lease in the code, so that this effect is the next in order
must come from `RunnersInformed` and `OrderedLedger`.

`SnapshotStillCurrent` speaks of a runner with a good lease only, and a step may
take the lease away and give it back by a heartbeat; `SnapInv` therefore says it
of every runner whose generation is still the header's, and says of a runner
that was authorized that the attempt it asked for is within the budget whatever
has happened since. Two facts keep it: an applied effect stays as it is
(`AppliedStays`), and nobody but the holder of a generation writes the ledger
under it (`LedgerFenced`, from `FencingTokenUnique`). `ReservedWithinBudget` then
holds although the insert comes three transactions after the authorization.

`ClaimsWithinBudget` counts claims against faults. A claim after a `release` has
been allowed for by `next_retry`; a claim of an `applying` row has not, and is
paid for by the crash or the lost lease that left it behind. `SpentInv` says
when the fault has been counted and the claim is still to come: the row is
applying and no runner serves it under a good lease (`Served`).

### Native runs

`save` reads the revision again before it compares, so `CheckpointChain` cannot
come from the checkpoint store. It comes from the event log, whose append
compares sequence numbers. `ChainInv` says that a thread overtaken by a
checkpoint has a smaller sequence number than that checkpoint (so it can append
no more), and that a thread whose checkpoint event is in the log is ahead of
every other thread, so that nobody has saved since it loaded the run.
`CommandOnce` and `CompletedIsFinal` follow from the chain, since a command is
only applied to the revision it names and a completed run is not worked on.

`OwnershipAgrees` needs `OwnInv`: tokens of a step are drawn one at a time and
each is submitted by the thread that drew it, and every `completed` event, in the
log or on its way there, tells what the ownership says. `MergedBranchesComplete`
is proved of the copies of all threads too, because a checkpoint is saved from one.
`RunTyped` proves `TypeOK`, with what a thread knows by itself (`BaseInv`).

`CheckpointReplaysLog` compares a checkpoint with what folding the log gives.
`TaleInv` says it of every operation under way: the copy of a thread is what the
part of the log it has seen tells, with the events it is about to append
(`StoryTold`); a node it may delegate has no delegation (`Orderly`); and its
checkpoint event is the last it has appended when it stores (`Announced`). One
lemma says what one more event does to each fold (`ToldMore`), so a step needs
only to say which event it writes. What other threads append is behind the part
of the log that a copy speaks of, and leaves its story alone.

`ParallelBounded` counts delegations in checkpoints, while `select_ready` counts
them once and delegates later. `SlotInv` counts the slots a thread has given away
(`Slots`: delegations, candidates to visit, the one in hand, also while the run
is being ended in between). Every step but the selection keeps or returns slots,
and the selection takes the free ones: below the last candidate taken there are
fewer than free (`BatchFits`).

`KnownDelegationsFenced` speaks of all checkpoints, while a thread that ends a run
cancels what its own copy has. `FenceInv` says that a copy that may still be saved
has every delegation the latest checkpoint is waiting for (`Covers`), and the
latest checkpoint those of every earlier one; that the thread has all of them in
hand when it cancels and none waits when it fences; and that an ended run has no
delegation. A submission drops and revives nothing, because its task is new
(`OwnInv`: the token was not used) and its node is free (`TaleInv`), and a save
keeps the chain of `Covers` because it was made from the latest checkpoint
(`ChainInv`). It needs no bound on threads, crashes or leases.

### Steps

`RetriesWithinBudget` is inductive with `AttemptsPaid`: every attempt after the
first has paid for itself and none has paid that was not claimed; the retries
consumed are a finite set whose cardinality is the counter. `AcknowledgedIsDone`
needs that a success is passed on unchanged by ledger, worker, task and
Hub (`SuccessPassedOn`), and that handlers of a step record different executions
(`RunsApart`). `NoRepeatWithNonces` needs more: with one process that remembers
its nonces at most one thread works on an attempt (`OneWorker`), the ledger's
attempt keeps earlier ones out (`LedgerFences`), and only the last execution can
be open (`LastRunOpen`).

### Commands

`AppliedOnce` holds although claims expire under threads that go on. The reason
is the revision: a command is applied to the revision its receipt was staged at,
while a receipt is open nobody is about to apply a command at a later one
(`Fenced`), and a refusal is final because the run has passed that revision or
will never accept the command (`Never`). `CompletedWasApplied` needs `HeldInv`
on top, where the hypothesis is used: a claim that has run out is nobody's, so
the status of the binding moves under an open receipt only for its own command.

### Model calls

`LedgerInv` says what tables, requests and workers know of each other: the
reservations of a step attempt are the run's reservations for its calls
(`StoreInv`), a call is sent once, after it was reserved and under the profile of
its reservation (`CallInv`), and the attempts of a profile are its reservations
(`AttemptsCounted`). `ChargesAddUp` and `WithinBudget` are inductive with it: a
commit writes the budgets it compared the revisions of, so what it adds to a
counter is what the set of reservations grows by. Both speak of sums, and what a
fold computes needs an induction that the provers cannot do; `Total` counts units
instead, and the cardinality of a disjoint union is a theorem of the library.
`CallsWithinPlan` follows from `AttemptsCounted` and `CallInv`. `SpendIsCharged` needs
`UsageInv` too (a reservation is reconciled with the usage of its own call), and
that is where missing usage that counts as none would break it.

### Tasks

`Awaited` says that, until a tick is given up, every dispatch thread belongs to
the tick under way and has a task of its own, an exception that has left a thread
included, until the tick has failed its task. The dependents follow a tick stage
by stage: what the dependency pass is through with is ready (`Reconciled`), all
is when the queue is built (`Drained`), and no task the tick dispatches depends
on one it may still write (`Settled`).

### Only model-checked

The liveness properties (`StagedSettles`, `RunSettles`, `ReceiptSettles`,
`StatusCatchesUp`, `TaskSettles`): fairness and `ENABLED` are outside the prover's
reach. The invariants that the refuting configurations of section 4 check are
false, and have no theorem.

## 6. Not modelled

- `NativeRun`: the `edit` command; streaming and projections of events; the
  accounting of `parallel_group` and of the `parallel_limit` of a node
  (`workflow_runtime/parallel.py:99-116`), which makes the code delegate less than
  `Batch` allows.
- `StepExecution`: `manual_resume`, `compensate`, `reconcile_uncertain`
  (operator operations).
- `CommandDispatch`: the Temporal runtime (observation-pending commands,
  dispatch intents) and `start_workflow`.
- `ProviderCalls`: calls without a signed plan, the response cache, the events
  the gateway appends about calls.
- `CleanupAdmission`: the reconciler, the worker's deletion and its result, which
  all start from a reserved row that is never stored; the operator's cancellation,
  the retry of failed cleanups and the retention clock.
- `TaskDispatch`: throttles, worker scoring, the Hub as a fallback worker, the
  model recovery gates (`autopilot_task_dispatcher.py:921-981`),
  organization gates, goal statuses, the proposal time budget, the tick guard
  that is forgotten after 300 seconds, execution without a step, and an assigned
  agent that goes offline and is never replaced.
- `WorkflowTransition`: the effects other than the queue reservation, and a
  clock sample taken before a transaction waits for its lock.
- Validation and wiring without state of its own, and pure I/O around models,
  shells and browsers. These are most of the repository by size; no protocol
  state is kept there.

## 7. Plan

1. `CommandDispatch` as the specification that `NativeRun` refines.
2. Dispatch intents; the retry policy against its closed form; the output
   directory lock.

## 8. Running

    tlc -workers 2 -config TransitionLedger.cfg MCWorkflowTransition
    tlc -workers 2 -config TransitionBinding.cfg MCWorkflowTransition
    tlc -workers 2 -config TransitionLiveness.cfg MCWorkflowTransition
    tlc -workers 2 -config LateRuntime.cfg MCWorkflowTransition
    tlc -workers 2 -config NativeConcurrent.cfg MCNativeRun
    tlc -workers 2 -config NativeJoin.cfg MCNativeRun
    tlc -workers 2 -config StepWorkers.cfg MCStepExecution
    tlc -workers 2 -config DispatchCommands.cfg MCCommandDispatch
    tlc -workers 2 -config ProviderLoop.cfg MCProviderCalls
    tlc -workers 2 -config CleanupQueued.cfg MCCleanupAdmission
    tlc -workers 2 -config TaskTick.cfg MCTaskDispatch
    tlc -workers 2 -config TaskSettles.cfg MCTaskDispatch
    tlapm WorkflowTransitionProofs.tla
    tlapm WorkflowOutboxProofs.tla
    tlapm NativeRunProofs.tla
    tlapm StepExecutionProofs.tla
    tlapm CommandDispatchProofs.tla
    tlapm ProviderCallsProofs.tla
    tlapm TaskDispatchProofs.tla

The configurations of section 4 run with the `MC` module of their component.
