---------------------------- MODULE TaskDispatch ----------------------------
(***************************************************************************)
(* The Hub's task table and everything that moves a task in it: the         *)
(* autopilot tick (recovery passes over a snapshot, dependencies, the       *)
(* dispatch queue), the dispatch threads a tick starts and may leave        *)
(* behind, agents that claim and complete tasks through the API, and        *)
(* operators who cancel, pause and retry.                                   *)
(*                                                                          *)
(* One action is one locked read or write of a task row, or one answer of   *)
(* a worker.  The statuses created and todo are guarded alike everywhere    *)
(* below and are one here, todo; blocked is blocked_by_dependency, waiting  *)
(* is waiting_for_review, unverified is verification_failed.                *)
(***************************************************************************)
EXTENDS Integers, FiniteSets

CONSTANTS Tasks,
          Early,            \* the tasks that exist from the start
          DependsOn,        \* DependsOn[t]: depends_on of task t
          Threads,          \* dispatch threads, of all ticks
          Agents,           \* workers; each of them may also claim by itself
          Online,           \* the workers the autopilot may dispatch to
          NoOne,
          Destined,         \* tasks that only a worker of their destination may have
          HumanReview,      \* propose_policy.allow_human_review
          OnDeclined,       \* values of propose_policy.on_all_strategies_declined
          Concurrency,      \* effective_concurrency of a tick
          Attempts,         \* max_strategy_attempts
          ActiveRetries,    \* max_retries of a stale active task
          ReviewRetries,    \* _WAITING_REVIEW_RETRY_MAX
          RepairRounds,     \* autonomous_repair_attempts
          Results,          \* statuses a worker's execution may answer with
          Interventions,    \* what operators do
          MaxClaims, MaxOperations, MaxFaults, MaxAborts, MaxCrashes, \* bounds,
          MaxEvents         \* and the bound on all of them together

ASSUME ConstantsAssumption ==
    /\ Early \subseteq Tasks
    /\ DependsOn \in [Tasks -> SUBSET Tasks]
    /\ \A t \in Tasks : t \notin DependsOn[t]
    /\ Online \subseteq Agents
    /\ NoOne \notin Tasks \cup Agents
    /\ Destined \subseteq Tasks
    /\ HumanReview \in BOOLEAN
    /\ OnDeclined \subseteq {"needs_review", "failed", "advisory"}
    /\ {Concurrency, Attempts, ActiveRetries, ReviewRetries, RepairRounds} \subseteq Nat
    /\ {MaxClaims, MaxOperations, MaxFaults, MaxAborts, MaxCrashes, MaxEvents} \subseteq Nat
    /\ Results \subseteq {"completed", "failed", "todo", "waiting", "blocked"}
    /\ Interventions \subseteq {"cancel", "pause", "resume", "retry", "approve"}

VARIABLES
    task,    \* rows of the task table
    lease,   \* lease[t]: agents with an unexpired task_claimed event in the history of t
    work,    \* work[a]: the task agent a has claimed and not yet answered
    tick,    \* the tick that is under way
    thread,  \* the dispatch threads
    stop,    \* the stop event of the loop
    claims, operations, faults, aborts, crashes  \* how much of each bound is used

bounds == <<claims, operations, faults, aborts, crashes>>
Room == claims + operations + faults + aborts + crashes < MaxEvents
api == <<lease, work>>
vars == <<task, api, tick, thread, stop, bounds>>

Terminal == {"completed", "failed", "unverified", "cancelled"}
Active == {"todo", "assigned", "proposing", "waiting", "blocked", "paused"}

\* verification_status: retries of the recovery passes and of the dispatcher
NoTries == [active |-> 0, review |-> 0, tooling |-> 0, repair |-> 0]
Row == [status |-> "todo", agent |-> NoOne, hold |-> FALSE, age |-> 0,
        out |-> "none", why |-> "none", tries |-> NoTries]
NoRow == [Row EXCEPT !.status = "absent"]
NoSnap == [t \in Tasks |-> NoRow]
NoTick == [at |-> "idle", snap |-> NoSnap, left |-> {}, turn |-> NoOne,
           to |-> "none", mine |-> {}]
Idle == [at |-> "idle", t |-> NoOne, worker |-> NoOne, new |-> FALSE,
         tries |-> NoTries, why |-> "none", tried |-> 0, bad |-> FALSE,
         status |-> "none", out |-> "none"]

Exists(t) == task[t].status /= "absent"
Ended(t) == task[t].status \in Terminal

-----------------------------------------------------------------------------
(* The task table: update_local_task_status *)

\* can_transition_to
Permits(from, to) ==
    \/ from = to
    \/ to \in {"todo", "assigned"} /\ from /= "completed"
    \/ to \in {"cancelled", "paused", "blocked"} /\ from \in Active
    \/ to \in {"completed", "unverified"} /\ from \in {"todo", "assigned", "waiting", "proposing"}
    \/ to = "failed" /\ from \in {"todo", "assigned", "waiting", "proposing", "blocked"}
    \/ to = "waiting" /\ from \in {"assigned", "proposing"}
    \/ to = "proposing" /\ from \in {"todo", "assigned"}

\* a refused write changes nothing; every other one sets updated_at
Put(t, row, permitted) ==
    task' = IF permitted THEN [task EXCEPT ![t] = [row EXCEPT !.age = 0]] ELSE task

Write(t, row) == Put(t, row, Permits(task[t].status, row.status))
Overwrite(t, row) == Put(t, row, TRUE)

\* a write with a last_output may complete a failed task
WriteResult(t, row) ==
    Put(t, row, \/ Permits(task[t].status, row.status)
                \/ task[t].status = "failed" /\ row.status = "completed")

-----------------------------------------------------------------------------
(* The tick: execute_autopilot_tick *)

Following == [stale |-> "tooling", tooling |-> "review",
              review |-> "reconcile", reconcile |-> "queue"]

\* the rows of the snapshot a pass is about
Due(pass, snap) ==
    {t \in Tasks :
       LET s == snap[t] IN
       \/ pass = "stale" /\ s.age > 0 /\ s.status = "assigned"
       \/ pass = "stale" /\ s.age > 0 /\ s.status = "proposing" /\ s.out = "none"
       \/ pass = "tooling" /\ s.age > 0 /\ s.status = "waiting" /\ s.out = "tooling"
       \/ pass = "review" /\ s.age > 1 /\ s.status = "waiting"
       \/ pass = "reconcile" /\ s.status /= "absent"}

\* Mutant: a tick forgets the tick that is under way.
StartTick_Unguarded ==
    /\ tick' = [NoTick EXCEPT !.at = "stale", !.snap = task, !.left = Due("stale", task)]
    /\ stop' = FALSE
    /\ UNCHANGED <<task, api, thread, bounds>>

\* tick_once
StartTick ==
    /\ tick.at = "idle"
    /\ tick' = [NoTick EXCEPT !.at = "stale", !.snap = task, !.left = Due("stale", task)]
    /\ stop' = FALSE
    /\ UNCHANGED <<task, api, thread, bounds>>

\* a second tick is refused, after the stop that was requested has been forgotten
RefuseTick ==
    /\ tick.at /= "idle"
    /\ stop
    /\ stop' = FALSE
    /\ UNCHANGED <<task, api, tick, thread, bounds>>

NextPass ==
    /\ tick.at \in DOMAIN Following
    /\ tick.left = {}
    /\ tick.turn = NoOne
    /\ LET next == Following[tick.at] IN
       tick' = [tick EXCEPT !.at = next, !.left = Due(next, tick.snap),
                            !.snap = IF next \in {"reconcile", "queue"} THEN NoSnap ELSE @]
    /\ UNCHANGED <<task, api, thread, stop, bounds>>

Retried(row, s, which) ==
    [row EXCEPT !.status = "todo", !.why = s.why, !.tries = [s.tries EXCEPT ![which] = @ + 1]]

\* Mutant: one retry too many.
RetryStale_OffByOne(s) == s.tries.active <= ActiveRetries

RetryStale(s) == s.tries.active < ActiveRetries
RetryTooling(s) == s.tries.tooling < RepairRounds
RetryReview(s) == s.why = "exhausted" /\ s.tries.review < ReviewRetries

\* what a pass makes of a row, given the row as the snapshot has it
Recovered(pass, row, s) ==
    CASE pass = "stale" /\ s.status = "proposing" -> [row EXCEPT !.status = "todo"]
      [] pass = "stale" /\ s.status = "assigned" /\ RetryStale(s) -> Retried(row, s, "active")
      [] pass = "tooling" /\ HumanReview ->
           [row EXCEPT !.status = "todo", !.why = "none", !.tries = NoTries]
      [] pass = "tooling" /\ ~HumanReview /\ RetryTooling(s) -> Retried(row, s, "tooling")
      [] pass = "review" /\ RetryReview(s) -> [Retried(row, s, "review") EXCEPT !.hold = TRUE]
      [] OTHER -> [row EXCEPT !.status = "failed"]

Recover(t) ==
    /\ tick.at \in {"stale", "tooling", "review"}
    /\ t \in tick.left
    /\ Overwrite(t, Recovered(tick.at, task[t], tick.snap[t]))
    /\ tick' = [tick EXCEPT !.left = @ \ {t}]
    /\ UNCHANGED <<api, thread, stop, bounds>>

\* Mutant: a dependency that has failed counts as done.
DepsDone_Ended(t) == \A d \in DependsOn[t] : task[d].status \in Terminal

DepsDone(t) == \A d \in DependsOn[t] : task[d].status = "completed"

\* Mutant: a cancelled dependency is not a failure.
DepsFailed_NotCancelled(t) ==
    \E d \in DependsOn[t] : task[d].status \in {"failed", "unverified"}

DepsFailed(t) == \E d \in DependsOn[t] : task[d].status \in {"failed", "unverified", "cancelled"}

\* reconcile_dependencies reads the live rows of the task and of its dependencies
Verdict(t) ==
    CASE task[t].status = "blocked" /\ DepsDone(t) -> "todo"
      [] task[t].status = "blocked" /\ ~DepsDone(t) /\ DepsFailed(t) -> "failed"
      [] task[t].status \in {"todo", "assigned"} /\ ~DepsDone(t) -> "blocked"
      [] OTHER -> "none"

Reconcile(t) ==
    /\ tick.at = "reconcile"
    /\ tick.turn = NoOne
    /\ t \in tick.left
    /\ tick' = [tick EXCEPT !.left = @ \ {t},
                            !.turn = IF Verdict(t) = "none" THEN NoOne ELSE t,
                            !.to = Verdict(t)]
    /\ UNCHANGED <<task, api, thread, stop, bounds>>

ApplyVerdict ==
    /\ tick.at = "reconcile"
    /\ tick.turn /= NoOne
    /\ Write(tick.turn, [task[tick.turn] EXCEPT !.status = tick.to])
    /\ tick' = [tick EXCEPT !.turn = NoOne, !.to = "none"]
    /\ UNCHANGED <<api, thread, stop, bounds>>

\* get_scoped_dispatch_queue, cut to the concurrency of the tick
Queued == {t \in Tasks : task[t].status \in {"todo", "assigned"} /\ ~task[t].hold}

Queue ==
    /\ tick.at = "queue"
    /\ tick' \in
         IF Queued = {} \/ Online = {} THEN {NoTick}
         ELSE {[tick EXCEPT !.at = "assign", !.snap = task, !.left = chosen] :
                 chosen \in {c \in SUBSET Queued :
                               \/ Cardinality(c) = Concurrency
                               \/ c = Queued /\ Cardinality(c) < Concurrency}}
    /\ UNCHANGED <<task, api, thread, stop, bounds>>

Fault == faults < MaxFaults /\ Room /\ faults' = faults + 1

\* resolve_target_worker_for_task: an assigned worker is never replaced, and a
\* task that has no worker at its destination fails
NoWorker(t) ==
    /\ tick.at = "assign"
    /\ t \in tick.left
    /\ \/ /\ tick.snap[t].agent \in Agents \ Online
          /\ Overwrite(t, [task[t] EXCEPT !.status = "todo"])
          /\ UNCHANGED faults
       \/ /\ tick.snap[t].agent = NoOne /\ t \in Destined
          /\ Fault
          /\ Overwrite(t, [task[t] EXCEPT !.status = "failed"])
    /\ tick' = [tick EXCEPT !.left = @ \ {t}]
    /\ UNCHANGED <<api, thread, stop, claims, operations, aborts, crashes>>

Launch(t, th, a) ==
    /\ tick.at = "assign"
    /\ t \in tick.left
    /\ thread[th].at = "idle"
    /\ \A job \in tick.mine : job[1] /= th
    /\ LET s == tick.snap[t] IN
       /\ s.agent \in {a, NoOne}
       /\ thread' = [thread EXCEPT ![th] =
            [Idle EXCEPT !.at = "start", !.t = t, !.worker = a, !.new = (s.agent = NoOne),
                         !.tries = s.tries, !.why = s.why]]
    /\ tick' = [tick EXCEPT !.left = @ \ {t}, !.mine = @ \cup {<<th, t>>}]
    /\ UNCHANGED <<task, api, stop, bounds>>

Launched ==
    /\ tick.at = "assign"
    /\ tick.left = {}
    /\ tick' = [tick EXCEPT !.at = "wait", !.snap = NoSnap]
    /\ UNCHANGED <<task, api, thread, stop, bounds>>

Pending == {job \in tick.mine : thread[job[1]].at /= "idle"}

EndTick ==
    /\ \/ tick.at = "wait" /\ Pending = {}
       \/ tick.at = "abort" /\ tick.mine = {}
    /\ tick' = NoTick
    /\ UNCHANGED <<task, api, thread, stop, bounds>>

\* the wait ends with the stop event, or at the hard timeout
GiveUp ==
    /\ tick.at = "wait"
    /\ Pending /= {}
    /\ stop \/ (aborts < MaxAborts /\ Room)
    /\ aborts' = IF stop THEN aborts ELSE aborts + 1
    /\ tick' = [tick EXCEPT !.at = "abort", !.mine = Pending,
                            !.to = IF stop THEN "todo" ELSE "failed"]
    /\ UNCHANGED <<task, api, thread, stop, claims, operations, faults, crashes>>

\* the thread of an aborted task goes on
Abort(job) ==
    /\ tick.at = "abort"
    /\ job \in tick.mine
    /\ Overwrite(job[2], [task[job[2]] EXCEPT !.status = tick.to])
    /\ tick' = [tick EXCEPT !.mine = @ \ {job}]
    /\ UNCHANGED <<api, thread, stop, bounds>>

Tick ==
    \/ StartTick \/ NextPass \/ ApplyVerdict \/ Queue \/ Launched \/ EndTick
    \/ \E t \in Tasks : Recover(t) \/ Reconcile(t) \/ NoWorker(t)
    \/ \E t \in Tasks, th \in Threads, a \in Online : Launch(t, th, a)
    \/ \E job \in tick.mine : Abort(job)

-----------------------------------------------------------------------------
(* A dispatch thread: _dispatch_one_task and _execute_proposed_step *)

Goto(th, at) == thread' = [thread EXCEPT ![th].at = at]
Quit(th) == thread' = [thread EXCEPT ![th] = Idle]
QuitIfEnded(th, at) == IF Ended(thread[th].t) THEN Quit(th) ELSE Goto(th, at)

\* a worker of the queue's choice is recorded first, unless review has set in
Begin(th) ==
    LET k == thread[th] IN
    /\ k.at = "start"
    /\ IF Ended(k.t) \/ (k.new /\ task[k.t].status = "waiting") THEN Quit(th)
       ELSE Goto(th, IF k.new THEN "assign" ELSE "scope")
    /\ UNCHANGED <<task, faults>>

AssignWorker(th) ==
    LET k == thread[th] IN
    /\ k.at = "assign"
    /\ Write(k.t, [task[k.t] EXCEPT !.status = "assigned", !.agent = k.worker])
    /\ Goto(th, "scope")
    /\ UNCHANGED faults

\* bind_dispatched_workflow_task fails: the task does, whatever it has become
BindFails(th) ==
    LET k == thread[th] IN
    /\ k.at = "scope"
    /\ Fault
    /\ Overwrite(k.t, [task[k.t] EXCEPT !.status = "failed"])
    /\ Quit(th)

\* the execution scope is recorded under the status read before it
ReadScope(th) ==
    /\ thread[th].at = "scope"
    /\ thread' = [thread EXCEPT ![th].at = "scoped", ![th].status = task[thread[th].t].status]
    /\ UNCHANGED <<task, faults>>

WriteScope(th) ==
    LET k == thread[th] IN
    /\ k.at = "scoped"
    /\ Write(k.t, [task[k.t] EXCEPT !.status = k.status, !.why = k.why, !.tries = k.tries])
    /\ thread' = [thread EXCEPT ![th].at = "offer", ![th].status = "none"]
    /\ UNCHANGED faults

\* autopilot_task_propose_hard_guard: too many proposals within its window
HardGuard(th) ==
    LET k == thread[th] IN
    /\ k.at = "offer" /\ k.tried = 0
    /\ Fault
    /\ Overwrite(k.t, [task[k.t] EXCEPT !.status = "waiting", !.why = "exhausted", !.tries = k.tries])
    /\ Quit(th)

\* the next strategy; the two terminal checks around its preparation are one
Offer(th) ==
    LET k == thread[th] IN
    /\ k.at = "offer"
    /\ IF Ended(k.t) THEN Quit(th)
       ELSE IF k.tried < Attempts
            THEN thread' = [thread EXCEPT ![th].at = "propose", ![th].tried = @ + 1]
            ELSE Goto(th, "exhausted")
    /\ UNCHANGED <<task, faults>>

Propose(th) ==
    LET k == thread[th] IN
    /\ k.at = "propose"
    /\ Overwrite(k.t, [task[k.t] EXCEPT !.status = "proposing", !.agent = k.worker])
    /\ Goto(th, "asked")
    /\ UNCHANGED faults

\* the worker's proposal: a step to execute, nothing executable, or a forwarding error
Proposed(th) ==
    LET k == thread[th] IN
    /\ k.at = "asked"
    /\ \/ Goto(th, "execute") /\ UNCHANGED faults
       \/ Fault /\ \E empty \in BOOLEAN :
            thread' = [thread EXCEPT ![th].at = "offer", ![th].bad = @ \/ empty]
    /\ UNCHANGED task

\* a tool call the guardrails refuse
Refused(th) ==
    LET k == thread[th] IN
    /\ k.at = "asked"
    /\ Fault
    /\ Write(k.t, [task[k.t] EXCEPT !.status = "failed"])
    /\ Quit(th)

Exhausted(th) ==
    /\ thread[th].at = "exhausted"
    /\ QuitIfEnded(th, "retry")
    /\ UNCHANGED <<task, faults>>

Repairs(k) == k.bad /\ ~HumanReview /\ k.tries.repair < RepairRounds

\* what becomes of a task no strategy had a step for
AfterStrategies(row, k, declined) ==
    LET told == [row EXCEPT !.why = IF k.bad THEN "invalid" ELSE "exhausted",
                            !.tries = [k.tries EXCEPT !.repair = @ + IF Repairs(k) THEN 1 ELSE 0]]
        status == [needs_review |-> IF HumanReview THEN "waiting" ELSE "failed",
                   failed |-> "failed", advisory |-> "todo"][declined]
    IN  IF Repairs(k) \/ (k.bad /\ HumanReview) THEN [told EXCEPT !.status = "todo", !.hold = TRUE]
        ELSE [told EXCEPT !.status = status, !.hold = FALSE]

RetryLater(th) ==
    LET k == thread[th] IN
    /\ k.at = "retry"
    /\ \E declined \in OnDeclined : Write(k.t, AfterStrategies(task[k.t], k, declined))
    /\ Quit(th)
    /\ UNCHANGED faults

Execute(th) ==
    /\ thread[th].at = "execute"
    /\ QuitIfEnded(th, "running")
    /\ UNCHANGED <<task, faults>>

\* the worker's answer; one that is not a success counts as a fault
Answer(th) ==
    /\ thread[th].at = "running"
    /\ \E status \in Results, tooling \in BOOLEAN :
         /\ IF status = "completed" THEN UNCHANGED faults ELSE Fault
         /\ tooling => status = "waiting"
         /\ thread' = [thread EXCEPT ![th].at = "record", ![th].status = status,
                                     ![th].out = IF tooling THEN "tooling" ELSE "other"]
    /\ UNCHANGED task

\* a transient transport error puts the task back without looking at it; an
\* error of the proposal phase that no strategy catches is handled alike
Transient(th) ==
    LET k == thread[th] IN
    /\ k.at \in {"asked", "running"}
    /\ Fault
    /\ Write(k.t, [task[k.t] EXCEPT !.status = "todo", !.hold = TRUE])
    /\ Quit(th)

Broken(th) ==
    /\ thread[th].at \in {"asked", "running"}
    /\ Fault
    /\ Goto(th, "failing")
    /\ UNCHANGED task

Failing(th) ==
    /\ thread[th].at = "failing"
    /\ QuitIfEnded(th, "fail")
    /\ UNCHANGED <<task, faults>>

Fail(th) ==
    LET k == thread[th] IN
    /\ k.at = "fail"
    /\ Write(k.t, [task[k.t] EXCEPT !.status = "failed"])
    /\ Quit(th)
    /\ UNCHANGED faults

Record(th) ==
    /\ thread[th].at = "record"
    /\ QuitIfEnded(th, "write")
    /\ UNCHANGED <<task, faults>>

Finish(th) ==
    LET k == thread[th] IN
    /\ k.at = "write"
    /\ WriteResult(k.t, [task[k.t] EXCEPT !.status = k.status, !.out = k.out])
    /\ Quit(th)
    /\ UNCHANGED faults

\* an exception nothing in the thread catches reaches the tick, if that still
\* waits for the thread, and the tick fails the task
Escape(th) ==
    /\ thread[th].at \notin {"idle", "raised"}
    /\ Fault
    /\ Goto(th, "raised")
    /\ UNCHANGED task

Raised(th) ==
    LET k == thread[th]
        awaited == <<th, k.t>> \in tick.mine
    IN  /\ k.at = "raised"
        /\ awaited => tick.at /= "assign"
        /\ IF awaited /\ tick.at = "wait"
           THEN Overwrite(k.t, [task[k.t] EXCEPT !.status = "failed"])
           ELSE UNCHANGED task
        /\ Quit(th)
        /\ UNCHANGED faults

Dispatch(th) ==
    /\ \/ Begin(th) \/ AssignWorker(th) \/ ReadScope(th) \/ WriteScope(th) \/ HardGuard(th)
       \/ Offer(th) \/ Propose(th) \/ Proposed(th) \/ Refused(th) \/ Exhausted(th)
       \/ RetryLater(th) \/ Execute(th) \/ Answer(th) \/ Transient(th) \/ Broken(th)
       \/ Failing(th) \/ Fail(th) \/ Record(th) \/ Finish(th) \/ BindFails(th) \/ Escape(th)
       \/ Raised(th)
    /\ UNCHANGED <<api, tick, stop, claims, operations, aborts, crashes>>

-----------------------------------------------------------------------------
(* The API, operators, and the clock *)

\* claim_task: only another agent's unexpired lease is in the way
Free(a, t) == lease[t] \subseteq {a}

Claim(a, t) ==
    /\ claims < MaxClaims /\ Room
    /\ work[a] = NoOne
    /\ task[t].status \in {"todo", "assigned"}
    /\ Free(a, t)
    /\ task' = [task EXCEPT ![t] = [@ EXCEPT !.status = "assigned", !.agent = a, !.age = 0]]
    /\ lease' = [lease EXCEPT ![t] = @ \cup {a}]
    /\ work' = [work EXCEPT ![a] = t]
    /\ claims' = claims + 1
    /\ UNCHANGED <<tick, thread, stop, operations, faults, aborts, crashes>>

LeaseExpires(a, t) ==
    /\ a \in lease[t]
    /\ lease' = [lease EXCEPT ![t] = @ \ {a}]
    /\ UNCHANGED <<task, work, tick, thread, stop, bounds>>

\* complete_task asks for no lease
Complete(a, status) ==
    /\ work[a] /= NoOne
    /\ WriteResult(work[a], [task[work[a]] EXCEPT !.status = status, !.out = "other",
                                                  !.why = "none", !.tries = NoTries])
    /\ work' = [work EXCEPT ![a] = NoOne]
    /\ UNCHANGED <<lease, tick, thread, stop, bounds>>

\* the status an intervention leads to, from the statuses it is allowed in
Intervened(action, row) ==
    IF action \in {"resume", "retry", "approve"} /\ row.agent /= NoOne THEN "assigned"
    ELSE [cancel |-> "cancelled", pause |-> "paused", resume |-> "todo",
          retry |-> "todo", approve |-> "todo"][action]

AllowedFrom == [cancel |-> Active, pause |-> Active \ {"paused"}, resume |-> {"paused"},
                retry |-> {"failed", "cancelled", "unverified"}, approve |-> {"waiting"}]

Intervene(action, t) ==
    /\ operations < MaxOperations /\ Room
    /\ task[t].status \in AllowedFrom[action]
    /\ Write(t, [task[t] EXCEPT !.status = Intervened(action, task[t]), !.hold = TRUE])
    /\ operations' = operations + 1
    /\ UNCHANGED <<api, tick, thread, stop, claims, faults, aborts, crashes>>

Create(t) ==
    /\ ~Exists(t)
    /\ task' = [task EXCEPT ![t] = Row]
    /\ UNCHANGED <<api, tick, thread, stop, bounds>>

Stop ==
    /\ ~stop
    /\ tick.at /= "idle"
    /\ aborts < MaxAborts /\ Room
    /\ aborts' = aborts + 1
    /\ stop' = TRUE
    /\ UNCHANGED <<task, api, tick, thread, claims, operations, faults, crashes>>

\* the Hub's process dies with its tick and its threads
Crash ==
    /\ crashes < MaxCrashes /\ Room
    /\ tick.at /= "idle" \/ \E th \in Threads : thread[th].at /= "idle"
    /\ crashes' = crashes + 1
    /\ tick' = NoTick
    /\ thread' = [th \in Threads |-> Idle]
    /\ UNCHANGED <<task, api, stop, claims, operations, faults, aborts>>

\* the clock: a row grows old, a hold (manual_override_until) runs out
Aging == {"assigned", "proposing", "waiting"}

Age(t) ==
    /\ task[t].status \in Aging
    /\ task[t].age < IF task[t].status = "waiting" THEN 2 ELSE 1
    /\ task' = [task EXCEPT ![t].age = @ + 1]
    /\ UNCHANGED <<api, tick, thread, stop, bounds>>

HoldEnds(t) ==
    /\ task[t].hold
    /\ task' = [task EXCEPT ![t].hold = FALSE]
    /\ UNCHANGED <<api, tick, thread, stop, bounds>>

-----------------------------------------------------------------------------

Init ==
    /\ task = [t \in Tasks |-> IF t \in Early THEN Row ELSE NoRow]
    /\ lease = [t \in Tasks |-> {}]
    /\ work = [a \in Agents |-> NoOne]
    /\ tick = NoTick
    /\ thread = [th \in Threads |-> Idle]
    /\ stop = FALSE
    /\ claims = 0 /\ operations = 0 /\ faults = 0 /\ aborts = 0 /\ crashes = 0

Clock == \E t \in Tasks : Age(t) \/ HoldEnds(t)

Next ==
    \/ Tick \/ RefuseTick \/ GiveUp
    \/ \E th \in Threads : Dispatch(th)
    \/ \E a \in Agents, t \in Tasks : Claim(a, t) \/ LeaseExpires(a, t)
    \/ \E a \in Agents, status \in {"completed", "unverified"} : Complete(a, status)
    \/ \E action \in Interventions, t \in Tasks : Intervene(action, t)
    \/ \E t \in Tasks : Create(t)
    \/ Stop \/ Crash \/ Clock

Spec == Init /\ [][Next]_vars

\* the loop ticks for ever, workers answer or time out, and time passes
Fairness ==
    /\ WF_vars(Tick)
    /\ \A th \in Threads : WF_vars(Dispatch(th))
    /\ \A t \in Tasks : WF_vars(Age(t)) /\ WF_vars(HoldEnds(t))

FairSpec == Spec /\ Fairness

-----------------------------------------------------------------------------
(* Properties *)

TriesType == [active : 0..ActiveRetries, review : 0..ReviewRetries,
              tooling : 0..RepairRounds, repair : 0..RepairRounds]
Reasons == {"none", "exhausted", "invalid"}
Outputs == {"none", "tooling", "other"}
RowType == [status : Terminal \cup Active \cup {"absent"}, agent : Agents \cup {NoOne},
            hold : BOOLEAN, age : 0..2, out : Outputs, why : Reasons, tries : TriesType]

\* The variables have their types, and no retry counter of a task passes its limit.
TypeOK ==
    /\ task \in [Tasks -> RowType]
    /\ lease \in [Tasks -> SUBSET Agents]
    /\ work \in [Agents -> Tasks \cup {NoOne}]
    /\ tick.snap \in [Tasks -> RowType]
    /\ tick.left \subseteq Tasks
    /\ tick.turn \in Tasks \cup {NoOne}
    /\ tick.mine \subseteq Threads \X Tasks
    /\ \A th \in Threads : LET k == thread[th] IN
         /\ k.t \in Tasks \cup {NoOne} /\ k.worker \in Agents \cup {NoOne}
         /\ k.tries \in TriesType /\ k.why \in Reasons /\ k.tried \in 0..Attempts
    /\ stop \in BOOLEAN

\* reconcile_dependencies and the dispatch queue: nobody works on a task, a
\* dispatch thread or an agent that claimed it, while a dependency is not completed, ...
DependentsWait ==
    \A t \in Tasks :
      \/ \E th \in Threads : thread[th].at = "running" /\ thread[th].t = t
      \/ \E a \in Agents : work[a] = t
      => \A d \in DependsOn[t] : task[d].status = "completed"

\* ... as long as no agent claims a task by itself, no operator makes one
\* dispatchable between the dependency pass and the queue, and no thread of an
\* aborted tick writes over the dependency.  A dependent that is created
\* between the dependency pass and the queue of a tick is dispatched unchecked
\* all the same (TaskCreated.cfg): every dependent is there from the start here.
DispatchedDependentsWait == claims = 0 /\ operations = 0 /\ aborts = 0 => DependentsWait

\* tick_once and the tick's wait: no two dispatch threads work on one task, ...
OneThreadPerTask ==
    \A th1, th2 \in Threads :
      th1 /= th2 /\ thread[th1].at /= "idle" => thread[th1].t /= thread[th2].t

\* ... as long as no tick gives up waiting for them (or lasts the 300 seconds
\* after which tick_once forgets it, which is not modelled).
OneThreadPerAwaitedTask == aborts = 0 => OneThreadPerTask

\* update_local_task_status: a completed task stays completed.
CompletedStays ==
    [][\A t \in Tasks : task[t].status = "completed" => task'[t].status = "completed"]_vars

\* intervene: a task an operator has cancelled is not taken up again by the autopilot.
CancelledStays ==
    [][\A t \in Tasks : task[t].status = "cancelled" => task'[t].status = "cancelled"]_vars

\* the review pass: with human review allowed, the tick does not fail a task that
\* waits for its review.
ReviewWaits ==
    [][\A t \in Tasks : HumanReview /\ tick.at = "review" /\ task[t].status = "waiting"
                            => task'[t].status /= "failed"]_vars

\* The loop as a whole: every task reaches a terminal status in the end, although
\* its dependency is cancelled, a worker or a strategy fails it, and the Hub dies
\* once with its tick and threads.  Workers answer completed or failed only: one
\* that leaves an output and does not end the task lets a crash during the next
\* proposal strand it (TaskStuck.cfg).
TaskSettles == \A t \in Tasks : Exists(t) ~> Ended(t)
=============================================================================
