---------------------------- MODULE StepExecution ----------------------------
(***************************************************************************)
(* Steps of a run that write to the outside, from the Hub's claim to the    *)
(* worker's effect and back: the execution ownership and retry budget of    *)
(* the run (sqlalchemy_ownership.py), the side-effect ledger                *)
(* (sqlalchemy_side_effects.py), the Hub's delegation                       *)
(* (native_graph_delegation_service.py), the worker gateway between them    *)
(* and the node runtime of a worker (worker/runtime/native_graph).          *)
(*                                                                          *)
(* A step is delegated as a Hub task that is delivered at least once, to    *)
(* threads of worker processes that may die at any point.  The handler of a *)
(* step is the one thing that cannot be undone, so its executions are       *)
(* recorded, for the properties, in a variable no code reads.               *)
(***************************************************************************)
EXTENDS Integers, Sequences, FiniteSets, Functions

CONSTANTS
    Steps,          \* the writing steps of the run
    Threads,        \* worker threads
    Processes,      \* worker processes
    ProcessOf,      \* ProcessOf[w]: the process of thread w
    RetryIds,       \* retries a worker may ask the gateway for
    MaxAttempts,    \* plan.budget.max_attempts
    MaxDeliveries,  \* bound: deliveries of tasks to threads
    MaxRestarts,    \* bound: worker processes that die
    MaxLost,        \* bound: gateway answers lost on the way
    LeasesExpire    \* BOOLEAN: an ownership lease may run out

ASSUME StepAssumption ==
    /\ ProcessOf \in [Threads -> Processes]
    /\ MaxAttempts \in Nat \ {0}
    /\ MaxDeliveries \in Nat
    /\ MaxRestarts \in Nat
    /\ MaxLost \in Nat
    /\ LeasesExpire \in BOOLEAN
    /\ RetryIds \cap (Steps \X Nat) = {}

VARIABLES
    owner,       \* owner[s]: the ownership row of step s
    consumed,    \* the retry consumption rows of the run
    used,        \* the retry budget row of the run: used
    ledger,      \* ledger[s]: the record of the step's operation
    task,        \* task[s][a]: the Hub task of attempt a
    hub,         \* hub[s]: what the Hub does with step s
    worker,      \* worker[w]: what thread w does
    nonces,      \* nonces[p]: authorizations process p has seen, in memory
    execs,       \* execs[s]: the executions of the step's handler
    faults       \* deliveries, restarts and lost answers so far

vars == <<owner, consumed, used, ledger, task, hub, worker, nonces, execs, faults>>

-----------------------------------------------------------------------------
(* Values.  The fencing token of an attempt stands for its id. *)

Attempts == 1 .. MaxAttempts

Resting == [pc |-> "idle", token |-> 0, rev |-> 0, eff |-> 0]

Free == [pc |-> "idle"]

NoRecord == [status |-> "none", rev |-> 0, token |-> 0, attempt |-> 0]

\* _TRANSITIONS
Transitions(status) ==
    CASE status = "planned"    -> {"authorized", "failed"}
      [] status = "authorized" -> {"started", "failed"}
      [] status = "started"    -> {"completed", "failed", "uncertain"}
      [] status = "failed"     -> {"authorized", "compensated"}
      [] status = "uncertain"  -> {"completed", "failed", "compensated"}
      [] status = "completed"  -> {"compensated"}
      [] OTHER                 -> {}

-----------------------------------------------------------------------------
(* Ownership. *)

Holds(s, a) == owner[s].token = a /\ owner[s].status = "active" /\ owner[s].live

BudgetLeft_OffByOne == used <= MaxAttempts - 1

BudgetLeft == used < MaxAttempts - 1

Consume(id) ==
    /\ used' = IF id \in consumed THEN used ELSE used + 1
    /\ consumed' = consumed \cup {id}

SetOwner(s, status) ==
    owner' = [owner EXCEPT ![s] = [token |-> @.token, status |-> status, live |-> FALSE,
                                   rev |-> @.rev + 1]]

\* claim: refused for a completed step or a live lease, and the run fails; a
\* step that has a row costs the run a retry.
Claim(s) ==
    LET o == owner[s] IN
    /\ hub[s].pc = "idle"
    /\ IF o.status = "completed" \/ (o.status = "active" /\ o.live)
       THEN /\ hub' = [hub EXCEPT ![s].pc = "stopped"]
            /\ UNCHANGED <<owner, consumed, used>>
       ELSE /\ o.token > 0 => BudgetLeft
            /\ IF o.token > 0 THEN Consume(<<s, o.token + 1>>) ELSE UNCHANGED <<consumed, used>>
            /\ owner' = [owner EXCEPT ![s] = [token |-> o.token + 1, status |-> "active",
                                              live |-> TRUE, rev |-> o.rev + 1]]
            /\ hub' = [hub EXCEPT ![s] = [pc |-> "plan", token |-> o.token + 1,
                                          rev |-> o.rev + 1, eff |-> 0]]
    /\ UNCHANGED <<ledger, task, worker, nonces, execs, faults>>

\* heartbeat: only the live owner, at the revision it knows.
Heartbeat(s) ==
    /\ hub[s].pc = "running"
    /\ Holds(s, hub[s].token)
    /\ owner[s].rev = hub[s].rev
    /\ owner[s].rev < 2 * MaxAttempts          \* bound on renewals
    /\ owner' = [owner EXCEPT ![s].rev = @ + 1]
    /\ hub' = [hub EXCEPT ![s].rev = @ + 1]
    /\ UNCHANGED <<consumed, used, ledger, task, worker, nonces, execs, faults>>

\* reconcile_orphan
ReconcileOrphan(s) ==
    /\ owner[s].status = "active"
    /\ ~ owner[s].live
    /\ SetOwner(s, "orphaned")
    /\ UNCHANGED <<consumed, used, ledger, task, hub, worker, nonces, execs, faults>>

Expire(s) ==
    /\ LeasesExpire
    /\ owner[s].live
    /\ owner' = [owner EXCEPT ![s].live = FALSE]
    /\ UNCHANGED <<consumed, used, ledger, task, hub, worker, nonces, execs, faults>>

-----------------------------------------------------------------------------
(* The ledger.  Every change needs the revision the caller knows, a fence   *)
(* that is not older, and for the worker's changes exactly its own.         *)

MayChange(s, rev, a, exact, to) ==
    /\ ledger[s].rev = rev
    /\ IF exact THEN a = ledger[s].token ELSE a >= ledger[s].token
    /\ to \in Transitions(ledger[s].status)

Change(s, a, attempt, to) ==
    ledger' = [ledger EXCEPT ![s] = [status |-> to, rev |-> @.rev + 1, token |-> a,
                                     attempt |-> attempt]]

\* plan, and what the delegation makes of the record it gets.  An outcome
\* that is not known to be a failure is never run again.
Recoverable(status) == status \in {"planned", "failed"}

Plan(s) ==
    LET l == IF ledger[s].status = "none"
             THEN [status |-> "planned", rev |-> 1, token |-> 0, attempt |-> 0]
             ELSE ledger[s]
    IN  /\ hub[s].pc = "plan"
        /\ ledger' = [ledger EXCEPT ![s] = l]
        /\ hub' = [hub EXCEPT ![s] =
                     [@ EXCEPT !.pc = IF Recoverable(l.status) THEN "authorize" ELSE "stopped",
                               !.eff = l.rev]]
        /\ UNCHANGED <<owner, consumed, used, task, worker, nonces, execs, faults>>

Authorize(s) ==
    LET h == hub[s] IN
    /\ h.pc = "authorize"
    /\ IF MayChange(s, h.eff, h.token, FALSE, "authorized")
       THEN /\ Change(s, h.token, ledger[s].attempt, "authorized")
            /\ hub' = [hub EXCEPT ![s] = [@ EXCEPT !.pc = "submit", !.eff = h.eff + 1]]
       ELSE hub' = [hub EXCEPT ![s].pc = "stopped"] /\ ledger' = ledger
    /\ UNCHANGED <<owner, consumed, used, task, worker, nonces, execs, faults>>

-----------------------------------------------------------------------------
(* The Hub task and its result. *)

Submit(s) ==
    /\ hub[s].pc = "submit"
    /\ task' = [task EXCEPT ![s][hub[s].token] = "open"]
    /\ hub' = [hub EXCEPT ![s].pc = "running"]
    /\ UNCHANGED <<owner, consumed, used, ledger, worker, nonces, execs, faults>>

\* A completed result is acknowledged by the attempt that owns the step, and
\* counts only when the ledger agrees with it.
Acknowledge(s) == Holds(s, hub[s].token) /\ owner[s].rev = hub[s].rev

CollectCompleted(s) ==
    /\ hub[s].pc = "running"
    /\ task[s][hub[s].token] = "completed"
    /\ Acknowledge(s)
    /\ SetOwner(s, "completed")
    /\ hub' = [hub EXCEPT ![s].pc = IF ledger[s].status = "completed" THEN "done" ELSE "stopped"]
    /\ UNCHANGED <<consumed, used, ledger, task, worker, nonces, execs, faults>>

\* A failed result fences its attempt, and the step is tried again while it
\* has attempts left.
CollectFailed(s) ==
    /\ hub[s].pc = "running"
    /\ task[s][hub[s].token] = "failed"
    /\ Acknowledge(s)
    /\ SetOwner(s, "failed")
    /\ hub' = [hub EXCEPT ![s].pc = IF hub[s].token < MaxAttempts THEN "idle" ELSE "stopped"]
    /\ UNCHANGED <<consumed, used, ledger, task, worker, nonces, execs, faults>>

\* cancel_running: the task is cancelled and the attempt fenced if it can be.
Cancel(s) ==
    /\ hub[s].pc = "running"
    /\ task' = [task EXCEPT ![s][hub[s].token] = IF @ = "open" THEN "cancelled" ELSE @]
    /\ IF Acknowledge(s) THEN SetOwner(s, "failed") ELSE owner' = owner
    /\ hub' = [hub EXCEPT ![s].pc = "stopped"]
    /\ UNCHANGED <<consumed, used, ledger, worker, nonces, execs, faults>>

\* A retry command lets the run dispatch the step again.
Retry(s) ==
    /\ hub[s].pc = "stopped"
    /\ hub' = [hub EXCEPT ![s].pc = "idle"]
    /\ UNCHANGED <<owner, consumed, used, ledger, task, worker, nonces, execs, faults>>

-----------------------------------------------------------------------------
(* A worker thread: NativeNodeRuntime.execute. *)

On(w, pc) == worker[w].pc = pc

Go(w, pc) == worker' = [worker EXCEPT ![w].pc = pc]

\* An open task is handed out again when its task lease has run out.
Deliver(w, s, a) ==
    /\ On(w, "idle")
    /\ task[s][a] = "open"
    /\ faults.deliveries < MaxDeliveries
    /\ faults' = [faults EXCEPT !.deliveries = @ + 1]
    /\ worker' = [worker EXCEPT ![w] = [pc |-> "authorize", step |-> s, att |-> a,
                                        rev |-> 0, exec |-> 0, result |-> "failed"]]
    /\ UNCHANGED <<owner, consumed, used, ledger, task, hub, nonces, execs>>

\* authorize: the Hub confirms that the attempt owns the step, then the nonce
\* of its envelope is consumed in the memory of the process.
Fresh_Ignored(p, n) == TRUE

Fresh(p, n) == n \notin nonces[p]

AuthorizeExecution(w) ==
    LET t == worker[w]
        p == ProcessOf[w]
        n == <<t.step, t.att>>
    IN  /\ On(w, "authorize")
        /\ IF Holds(t.step, t.att)
           THEN /\ nonces' = [nonces EXCEPT ![p] = @ \cup {n}]
                /\ Go(w, IF Fresh(p, n) THEN "claim" ELSE "report")
           ELSE Go(w, "report") /\ nonces' = nonces
        /\ UNCHANGED <<owner, consumed, used, ledger, task, hub, execs, faults>>

\* The gateway reads the ownership before it goes to the ledger.
CheckOwner(w, pc, next) ==
    /\ On(w, pc)
    /\ Go(w, IF Holds(worker[w].step, worker[w].att) THEN next ELSE "report")
    /\ UNCHANGED <<owner, consumed, used, ledger, task, hub, nonces, execs, faults>>

\* An answer of the gateway may be lost after the ledger has changed.
Lost ==
    /\ faults.lost < MaxLost
    /\ faults' = [faults EXCEPT !.lost = @ + 1]

\* ledger.claim: acquired from "authorized", or already this attempt's own;
\* the record must still carry the envelope of this attempt, whose token
\* stands for the envelope and for the revision the task carries.
Claimed(s, a) == ledger[s].status = "started" /\ ledger[s].token = a /\ ledger[s].attempt = a

ClaimEffect(w) ==
    LET t == worker[w]
        s == t.step
        free == /\ ledger[s].token = t.att
                /\ "started" \in Transitions(ledger[s].status)
    IN  /\ On(w, "claiming")
        /\ IF free THEN Change(s, t.att, t.att, "started") ELSE ledger' = ledger
        /\ \/ /\ worker' = [worker EXCEPT ![w] =
                    [@ EXCEPT !.pc = IF free \/ Claimed(s, t.att) THEN "execute" ELSE "report",
                              !.rev = ledger'[s].rev]]
              /\ faults' = faults
           \/ Lost /\ Go(w, "report")
        /\ UNCHANGED <<owner, consumed, used, task, hub, nonces, execs>>

\* The handler runs, and does or does not come to an end it can tell.
Begin(w) ==
    LET s == worker[w].step IN
    /\ On(w, "execute")
    /\ execs' = [execs EXCEPT ![s] = Append(@, "open")]
    /\ worker' = [worker EXCEPT ![w] = [@ EXCEPT !.pc = "executing", !.exec = Len(execs[s]) + 1]]
    /\ UNCHANGED <<owner, consumed, used, ledger, task, hub, nonces, faults>>

End(w) ==
    LET t == worker[w] IN
    /\ On(w, "executing")
    /\ \E outcome \in {"done", "failed", "unknown"} :
          execs' = [execs EXCEPT ![t.step][t.exec] = outcome]
    /\ Go(w, "finish")
    /\ UNCHANGED <<owner, consumed, used, ledger, task, hub, nonces, faults>>

\* While it runs, a handler may ask for a retry out of the run's budget.
ConsumeRetry(w, id) ==
    /\ On(w, "executing")
    /\ Holds(worker[w].step, worker[w].att)
    /\ id \in consumed \/ BudgetLeft
    /\ Consume(id)
    /\ UNCHANGED <<owner, ledger, task, hub, worker, nonces, execs, faults>>

\* complete, fail or mark_uncertain; the result is a success only when the
\* ledger says so and the worker hears of it.
LedgerStatus_Optimistic(e) == IF e = "done" THEN "completed" ELSE "failed"

LedgerStatus(e) ==
    CASE e = "done" -> "completed" [] e = "failed" -> "failed" [] OTHER -> "uncertain"

Finish(w) ==
    LET t == worker[w]
        s == t.step
        to == LedgerStatus(execs[s][t.exec])
        may == ledger[s].attempt = t.att /\ MayChange(s, t.rev, t.att, TRUE, to)
    IN  /\ On(w, "finishing")
        /\ IF may THEN Change(s, t.att, t.att, to) ELSE ledger' = ledger
        /\ \/ /\ worker' = [worker EXCEPT ![w] =
                    [@ EXCEPT !.pc = "report", !.result = IF may THEN to ELSE t.result]]
              /\ faults' = faults
           \/ may /\ Lost /\ Go(w, "report")
        /\ UNCHANGED <<owner, consumed, used, task, hub, nonces, execs>>

\* The result is stored with the task, unless the task has ended; anything
\* but a completed write is a failure.
TaskStatus_UncertainPasses(result) ==
    IF result \in {"completed", "uncertain"} THEN "completed" ELSE "failed"

TaskStatus(result) == IF result = "completed" THEN "completed" ELSE "failed"

Report(w) ==
    LET t == worker[w] IN
    /\ On(w, "report")
    /\ task' = [task EXCEPT ![t.step][t.att] = IF @ = "open" THEN TaskStatus(t.result) ELSE @]
    /\ worker' = [worker EXCEPT ![w] = Free]
    /\ UNCHANGED <<owner, consumed, used, ledger, hub, nonces, execs, faults>>

\* A worker process dies: its threads and its nonces are gone.
Restart(p) ==
    /\ faults.restarts < MaxRestarts
    /\ faults' = [faults EXCEPT !.restarts = @ + 1]
    /\ worker' = [w \in Threads |-> IF ProcessOf[w] = p THEN Free ELSE worker[w]]
    /\ nonces' = [nonces EXCEPT ![p] = {}]
    /\ UNCHANGED <<owner, consumed, used, ledger, task, hub, execs>>

-----------------------------------------------------------------------------
(* Specification. *)

Init ==
    /\ owner = [s \in Steps |-> [token |-> 0, status |-> "none", live |-> FALSE, rev |-> 0]]
    /\ consumed = {}
    /\ used = 0
    /\ ledger = [s \in Steps |-> NoRecord]
    /\ task = [s \in Steps |-> [a \in Attempts |-> "absent"]]
    /\ hub = [s \in Steps |-> Resting]
    /\ worker = [w \in Threads |-> Free]
    /\ nonces = [p \in Processes |-> {}]
    /\ execs = [s \in Steps |-> <<>>]
    /\ faults = [deliveries |-> 0, restarts |-> 0, lost |-> 0]

HubStep(s) ==
    \/ Claim(s)
    \/ Plan(s)
    \/ Authorize(s)
    \/ Submit(s)
    \/ CollectCompleted(s)
    \/ CollectFailed(s)

WorkerStep(w) ==
    \/ AuthorizeExecution(w)
    \/ CheckOwner(w, "claim", "claiming")
    \/ CheckOwner(w, "finish", "finishing")
    \/ ClaimEffect(w)
    \/ Begin(w)
    \/ End(w)
    \/ Finish(w)
    \/ Report(w)

Next ==
    \/ \E s \in Steps :
          \/ HubStep(s)
          \/ Heartbeat(s)
          \/ ReconcileOrphan(s)
          \/ Expire(s)
          \/ Cancel(s)
          \/ Retry(s)
    \/ \E w \in Threads :
          \/ WorkerStep(w)
          \/ \E s \in Steps, a \in Attempts : Deliver(w, s, a)
          \/ \E id \in RetryIds : ConsumeRetry(w, id)
    \/ \E p \in Processes : Restart(p)

Spec == Init /\ [][Next]_vars

-----------------------------------------------------------------------------
(* Properties. *)

OwnerRow ==
    [status : {"none", "active", "completed", "failed", "orphaned"},
     token : {0} \cup Attempts, live : BOOLEAN, rev : Nat]

LedgerRow ==
    [status : {"none", "planned", "authorized", "started", "failed", "uncertain", "completed"},
     rev : Nat, token : {0} \cup Attempts, attempt : {0} \cup Attempts]

HubState ==
    [pc : {"idle", "plan", "authorize", "submit", "running", "stopped", "done"},
     token : {0} \cup Attempts, rev : Nat, eff : Nat]

Job ==
    [pc : {"authorize", "claim", "claiming", "execute", "executing", "finish", "finishing",
           "report"},
     step : Steps, att : Attempts, rev : Nat, exec : Nat,
     result : {"completed", "failed", "uncertain"}]

\* Every row, the Hub and every worker thread stay well formed.
TypeOK ==
    /\ owner \in [Steps -> OwnerRow]
    /\ consumed \subseteq (Steps \X Attempts) \cup RetryIds
    /\ used \in Nat
    /\ ledger \in [Steps -> LedgerRow]
    /\ task \in [Steps -> [Attempts -> {"absent", "open", "completed", "failed", "cancelled"}]]
    /\ hub \in [Steps -> HubState]
    /\ worker \in [Threads -> Job \cup {Free}]
    /\ nonces \in [Processes -> SUBSET (Steps \X Attempts)]
    /\ execs \in [Steps -> Seq({"open", "done", "failed", "unknown"})]
    /\ faults \in [deliveries : Nat, restarts : Nat, lost : Nat]

\* A write is not blindly retried: a handler runs again only when every
\* earlier run of it ended in a failure it could tell.
NoBlindRepeat ==
    \A s \in Steps : \A i, j \in DOMAIN execs[s] : i < j => execs[s][i] = "failed"

\* As long as no process forgets its nonces, they keep NoBlindRepeat.
NoRepeatWithNonces == faults.restarts = 0 => NoBlindRepeat

\* The ledger tells the truth about the handler: completed only if a run of
\* it was done; and unless a restart let a write run twice, failed, or free
\* to be claimed, only if none may have been.
LedgerTruthful ==
    \A s \in Steps :
        /\ ledger[s].status = "completed" => "done" \in Range(execs[s])
        /\ faults.restarts = 0 /\ ledger[s].status \in {"failed", "planned", "authorized"} =>
              Range(execs[s]) \subseteq {"failed"}

\* A step whose result was acknowledged has its write done, and recorded.
AcknowledgedIsDone ==
    \A s \in Steps : owner[s].status = "completed" =>
        ledger[s].status = "completed" /\ "done" \in Range(execs[s])

\* The retries of all callers together stay within the one budget of the
\* run, and each is counted once.
RetriesWithinBudget ==
    /\ used = Cardinality(consumed)
    /\ used <= MaxAttempts - 1

\* An attempt that was fenced, orphaned or completed never becomes active
\* again: the step needs a new token, and pays a retry for it.
FencedForGood ==
    [][\A s \in Steps :
          owner[s].status # "active" /\ owner'[s].status = "active" =>
              owner'[s].token > owner[s].token]_vars
=============================================================================
