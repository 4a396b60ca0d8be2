------------------------------ MODULE NativeRun ------------------------------
(***************************************************************************)
(* One run of the Native graph runtime: the Hub operations start, advance   *)
(* and resume of native_graph_orchestration_service.py over what they       *)
(* share, each in a transaction of its own: the run's event log, its        *)
(* revisioned checkpoints, the execution ownership of its steps with the    *)
(* retry budget of the run, and the Hub tasks its nodes are delegated to.   *)
(*                                                                          *)
(* An operation loads the latest checkpoint into memory, works on that      *)
(* copy, and saves it as the next checkpoint.  In between it appends        *)
(* events, claims and fences ownerships and submits and cancels tasks, so   *)
(* everything but the copy is visible to other threads at once, and stays   *)
(* when the operation dies.  Any exception ends the operation: the copy is  *)
(* lost and nothing is undone.                                              *)
(***************************************************************************)
EXTENDS Integers, Sequences, FiniteSets, FiniteSetsExt, SequencesExt, Functions, TLC

CONSTANTS
    Hubs,           \* threads of the Hub that work on this run
    N,              \* the plan's nodes are 1 .. N, in the order of their ids
    Edges,          \* set of <<source, target>>
    Verdicts,       \* Verdicts[e]: what the condition of edge e may evaluate to
    Kind,           \* Kind[n]: "task", "merge" or "checkpoint"
    Gate,           \* Gate[n]: "none", "approval" or "resume"
    JoinAll,        \* nodes whose join_mode is "all"
    Continue,       \* nodes whose failure_policy is "continue"
    Omit,           \* merge nodes whose partial_failure is "omit"
    Required,       \* nodes whose output artifacts the plan requires
    Parallel,       \* smallest of the tenant, worker and plan limits
    MaxAttempts,    \* plan.budget.max_attempts
    NodeAttempts,   \* NodeAttempts[n]: (node.budget or plan.budget).max_attempts
    Outcomes,       \* Outcomes[n]: what the worker of node n may report
    CommandKinds,   \* the command types operators send
    MaxCommands,    \* bound: commands issued
    MaxRevision,    \* bound: checkpoints an advance may be loaded from
    MaxCrashes,     \* bound: Hub crashes
    IdleTicks,      \* BOOLEAN: also take ticks that find nothing to do
    LeasesExpire,   \* BOOLEAN: an ownership lease may run out
    Gatewayed,      \* nodes whose workers may execute through the worker gateway
    SideEffects,    \* nodes that declare a side effect
    Refusable       \* nodes whose delegation may be refused by provider or queue

Nodes == 1 .. N

Verdict == {"match", "miss", "error"}

Outcome == {"completed", "unfit", "failed"}

Commands == {"pause", "resume", "approve", "reject", "cancel", "retry"}

ASSUME PlanAssumption ==
    /\ N \in Nat \ {0}
    /\ Edges \subseteq Nodes \X Nodes
    /\ \A e \in Edges : e[1] < e[2]
    /\ Verdicts \in [Edges -> SUBSET Verdict]
    /\ \A e \in Edges : Verdicts[e] # {}
    /\ Kind \in [Nodes -> {"task", "merge", "checkpoint"}]
    /\ Gate \in [Nodes -> {"none", "approval", "resume"}]
    /\ JoinAll \subseteq Nodes
    /\ Continue \subseteq Nodes
    /\ Omit \subseteq Nodes
    /\ Required \subseteq Nodes
    /\ Gatewayed \subseteq Nodes
    /\ SideEffects \subseteq Nodes
    /\ Refusable \subseteq Nodes
    /\ Parallel \in Nat \ {0}
    /\ MaxAttempts \in Nat \ {0}
    /\ NodeAttempts \in [Nodes -> Nat \ {0}]
    /\ Outcomes \in [Nodes -> SUBSET Outcome]
    /\ CommandKinds \subseteq Commands

ASSUME BoundAssumption ==
    /\ MaxCommands \in Nat
    /\ MaxRevision \in Nat
    /\ MaxCrashes \in Nat
    /\ {IdleTicks, LeasesExpire} \subseteq BOOLEAN

VARIABLES
    log,          \* the run's events, a sequence of dedupe keys
    checkpoints,  \* the saved run states; the revision is the index
    owner,        \* owner[n]: the ownership row of step n
    retries,      \* the retry budget row of the run: used
    task,         \* task[n][a]: the Hub task of attempt a of node n
    verdict,      \* verdict[e]: how the condition of edge e evaluates
    commands,     \* the commands issued, the id is the index
    hub,          \* hub[h]: what thread h has in memory
    crashes       \* crashes so far

vars == <<log, checkpoints, owner, retries, task, verdict, commands, hub, crashes>>

-----------------------------------------------------------------------------
(* Values. *)

Attempts == 1 .. MaxAttempts        \* a step is claimed at most once per retry

Ended == {"completed", "failed", "cancelled"}     \* NATIVE_GRAPH_TERMINAL_STATUSES

TaskDone == {"completed", "unfit", "failed", "cancelled"}

\* What a checkpoint keeps of a run.  running[n] is the attempt node n is
\* delegated as, 0 if it is not; the fencing token of an attempt stands for
\* its id, which the store draws together with it.
RunState ==
    [status    : {"running", "waiting_for_approval", "paused"} \cup Ended,
     completed : SUBSET Nodes,
     skipped   : SUBSET Nodes,
     failed    : SUBSET Nodes,
     running   : [Nodes -> {0} \cup Attempts],
     approved  : SUBSET Nodes,
     open      : SUBSET Nodes,
     attempts  : [Nodes -> Nat],
     seq       : Nat,               \* event_sequence
     last      : Nat]               \* last_command_id, 0 for none

NewRun ==
    [status |-> "running", completed |-> {}, skipped |-> {}, failed |-> {},
     running |-> [n \in Nodes |-> 0], approved |-> {}, open |-> {},
     attempts |-> [n \in Nodes |-> 0], seq |-> 0, last |-> 0]

\* An event is known by its dedupe key: what happened, to which node (0 for
\* the run), and the attempt, command, revision or sequence the key names.
Event(what, n, tag) == [what |-> what, node |-> n, tag |-> tag]

Running(st) == {n \in Nodes : st.running[n] # 0}

Terminal(st) == st.completed \cup st.skipped \cup st.failed

Sources(n) == {m \in Nodes : <<m, n>> \in Edges}

Revision == Len(checkpoints)

Latest == checkpoints[Revision].state

\* The memory of a thread: where it is, its copy of the run and the revision
\* that was loaded, the command it applies, the nodes still to visit, the
\* delegation in hand, the delegations still to fence, the events still to
\* append, and why and with what continuation the run is being ended.
Idle == [pc |-> "idle", st |-> NewRun, base |-> 0, cmd |-> 0, todo |-> {},
         node |-> 0, token |-> 0, fence |-> {}, out |-> <<>>, why |-> "run_failed",
         then |-> "save"]

-----------------------------------------------------------------------------
(* Decisions of the control plane. *)

\* The conditions of the edges into n, joined as its join_mode says.
RouteOf(n) == {verdict[<<m, n>>] : m \in Sources(n)}

Matches(n) == IF n \in JoinAll THEN RouteOf(n) = {"match"} ELSE "match" \in RouteOf(n)

RouteMatches(n) ==
    \/ Sources(n) = {}
    \/ "error" \notin RouteOf(n) /\ Matches(n)

\* _resolve_conditional_skips: nodes whose every source has ended and whose
\* route is not taken, or cannot be evaluated.
Unrouted(st) ==
    {n \in Nodes \ (Terminal(st) \cup Running(st)) :
        /\ Sources(n) # {}
        /\ Sources(n) \subseteq Terminal(st)
        /\ "error" \in RouteOf(n) \/ ~ Matches(n)}

\* _execute_ready_merges: merges whose every branch has ended.
Mergeable_OnlyCompleted(st) ==
    {n \in Nodes \ (Terminal(st) \cup Running(st)) :
        /\ Kind[n] = "merge"
        /\ Sources(n) # {}
        /\ Sources(n) \subseteq st.completed}

Mergeable(st) ==
    {n \in Nodes \ (Terminal(st) \cup Running(st)) :
        /\ Kind[n] = "merge"
        /\ Sources(n) # {}
        /\ Sources(n) \subseteq Terminal(st)}

\* merge: a branch that did not complete fails the merge unless it is omitted.
Merges(n, st) == n \in Omit \/ Sources(n) \subseteq st.completed

\* select_ready: nodes whose every source has completed or been skipped, the
\* first ones in the order of their ids, as many as there are free slots.
Candidates(st) ==
    {n \in Nodes \ (Terminal(st) \cup Running(st)) :
        Sources(n) \subseteq st.completed \cup st.skipped}

Batch_IgnoresRunning(st) ==
    {n \in Candidates(st) : Cardinality({m \in Candidates(st) : m < n}) < Parallel}

Batch(st) ==
    {n \in Candidates(st) :
        Cardinality({m \in Candidates(st) : m < n}) + Cardinality(Running(st)) < Parallel}

\* A tick has something to do: a result to collect, a node to start, or the
\* run to finish.
Useful(st) ==
    \/ \E n \in Running(st) : task[n][st.running[n]] \in TaskDone
    \/ Batch(st) # {}
    \/ Running(st) = {}

-----------------------------------------------------------------------------
(* The memory of a thread. *)

Goto(h, r) == hub' = [hub EXCEPT ![h] = r]

\* The operation raised: its copy of the run is gone.
Raise(h) == hub' = [hub EXCEPT ![h] = Idle]

\* _fail_run: fence what is running, then record that the run failed.
FailRun(r, then) ==
    [r EXCEPT !.pc = "cancel", !.fence = Running(r.st), !.why = "run_failed", !.then = then]

\* What becomes of node n in the copy.
Collected(st, n) == [st EXCEPT !.running = [st.running EXCEPT ![n] = 0]]
Delegated(st, n, a) == [st EXCEPT !.running = [st.running EXCEPT ![n] = a]]
Attempted(st, n) == [st EXCEPT !.attempts = [st.attempts EXCEPT ![n] = @ + 1]]
Completes(st, n) == [st EXCEPT !.completed = @ \cup {n}]
Skips(st, n) == [st EXCEPT !.skipped = @ \cup {n}]
Fails(st, n) == [st EXCEPT !.failed = @ \cup {n}]
Opens(st, n, status) == [st EXCEPT !.open = @ \cup {n}, !.status = status]

\* The run ends: nothing is delegated any more.
Stops(st, status) == [st EXCEPT !.running = [n \in Nodes |-> 0], !.status = status]

At(h, pc) == hub[h].pc = pc /\ hub[h].out = <<>>

-----------------------------------------------------------------------------
(* Operations, up to their first transaction. *)

\* start: refused when the run has a checkpoint.
Start(h) ==
    /\ At(h, "idle")
    /\ checkpoints = <<>>
    /\ Goto(h, [Idle EXCEPT !.pc = "poll", !.out = <<Event("started", 0, 0)>>])
    /\ UNCHANGED <<log, checkpoints, owner, retries, task, verdict, commands, crashes>>

\* advance: only a run whose status is "running" is ticked.
Advance(h) ==
    /\ At(h, "idle")
    /\ Revision \in 1 .. MaxRevision
    /\ Latest.status = "running"
    /\ IdleTicks \/ Useful(Latest)
    /\ Goto(h, [Idle EXCEPT !.pc = "poll", !.st = Latest, !.base = Revision])
    /\ UNCHANGED <<log, checkpoints, owner, retries, task, verdict, commands, crashes>>

\* What _apply_command makes of a command: the state after it, the events it
\* appends and where the operation goes on.  A command that is refused is
\* not applied at all.
Applied(st, c) ==
    LET k == commands[c].kind
        n == commands[c].step
        Then(s) == IF s.status = "running" THEN "poll" ELSE "save"
        Result(s, events) == [st |-> s, out |-> events, pc |-> Then(s)]
    IN  CASE k = "resume" /\ n \notin st.open /\ st.status = "paused" ->
                {Result([st EXCEPT !.status = "running"], <<Event("resumed", n, c)>>)}
          [] k = "reject" /\ n \in st.open ->
                {[st  |-> [st EXCEPT !.open = @ \ {n}, !.failed = @ \cup {n}],
                  out |-> <<Event("rejected", n, c)>>, pc |-> "cancel"]}
          [] k = "approve" /\ n \in st.open /\ Gate[n] = "approval" ->
                {Result([st EXCEPT !.approved = @ \cup {n}, !.open = @ \ {n}, !.status = "running"],
                        <<Event("granted", n, c)>>)}
          [] k = "resume" /\ n \in st.open /\ Gate[n] = "resume" ->
                {Result([st EXCEPT !.approved = @ \cup {n}, !.open = @ \ {n}, !.status = "running"],
                        <<Event("granted", n, c), Event("resumed", n, c)>>)}
          [] k = "pause" ->
                {Result([st EXCEPT !.status = "paused"], <<Event("paused", n, c)>>)}
          [] k = "cancel" ->
                {[st |-> st, out |-> <<>>, pc |-> "cancel"]}
          [] k = "retry" /\ st.status \in {"failed", "cancelled"} ->
                {Result([st EXCEPT !.failed = IF n = 0 THEN {} ELSE @ \ {n},
                                   !.status = "running"],
                        <<Event("retried", n, c)>>)}
          [] OTHER -> {}

\* resume: a command is bound to the revision it was issued against, and one
\* the checkpoint already names is not applied again.
Admitted_AnyRevision(c) == Latest.last # c /\ Latest.status # "completed"
Admitted_Completed(c) == Latest.last # c /\ commands[c].rev = Revision

Admitted(c) ==
    /\ Latest.last # c
    /\ commands[c].rev = Revision
    /\ Latest.status # "completed"        \* HubGovernedNativeControlPolicy

Resume(h, c) ==
    /\ At(h, "idle")
    /\ Revision > 0
    /\ Admitted(c)
    /\ \E a \in Applied(Latest, c) :
          Goto(h, [Idle EXCEPT !.pc = a.pc, !.st = a.st, !.out = a.out, !.base = Revision,
                               !.cmd = c,
                               !.fence = IF a.pc = "cancel" THEN Running(a.st) ELSE {},
                               !.why = IF commands[c].kind = "cancel" THEN "run_cancelled"
                                                                      ELSE "run_failed"])
    /\ UNCHANGED <<log, checkpoints, owner, retries, task, verdict, commands, crashes>>

-----------------------------------------------------------------------------
(* Events. *)

\* append: a key the log has is answered with the stored event when the
\* content is the same.  occurred_at is part of the content and read from the
\* clock for each append, so a repeated key is refused.  A new key needs the
\* log to be as long as the thread's copy says.
Emit_AnySequence(h) ==
    LET r == hub[h]
        e == Head(r.out)
    IN  /\ r.out # <<>>
        /\ e \notin Range(log)
        /\ log' = Append(log, e)
        /\ Goto(h, [r EXCEPT !.out = Tail(@), !.st = [@ EXCEPT !.seq = Len(log) + 1]])
        /\ UNCHANGED <<checkpoints, owner, retries, task, verdict, commands, crashes>>

Emit(h) ==
    LET r == hub[h]
        e == Head(r.out)
    IN  /\ r.out # <<>>
        /\ \/ /\ e \notin Range(log)
              /\ r.st.seq = Len(log)
              /\ log' = Append(log, e)
              /\ Goto(h, [r EXCEPT !.out = Tail(@), !.st = [@ EXCEPT !.seq = Len(log) + 1]])
           \/ /\ e \notin Range(log) => r.st.seq # Len(log)
              /\ Raise(h)
              /\ log' = log
        /\ UNCHANGED <<checkpoints, owner, retries, task, verdict, commands, crashes>>

-----------------------------------------------------------------------------
(* _collect_results *)

Poll(h) ==
    LET r == hub[h] IN
    /\ At(h, "poll")
    /\ Goto(h, [r EXCEPT !.pc = "collect",
                         !.todo = {n \in Running(r.st) : task[n][r.st.running[n]] \in TaskDone}])
    /\ UNCHANGED <<log, checkpoints, owner, retries, task, verdict, commands, crashes>>

Holds(n, a) == owner[n].token = a /\ owner[n].status = "active" /\ owner[n].live

\* acknowledge_result also accepts the acknowledgement it already has.
Acknowledges_Stale(n, a) == owner[n].status \in {"active", "completed"}

Acknowledges(n, a) ==
    \/ Holds(n, a)
    \/ owner[n].token = a /\ owner[n].status = "completed"

\* A node with a side effect also has the ledger's record of it appended.
CompletionEvents(n, a) ==
    IF n \in SideEffects THEN <<Event("completed", n, a), Event("side_effect", n, a)>>
                         ELSE <<Event("completed", n, a)>>

\* A completed result whose artifacts or budget the Hub refuses is
\* acknowledged before it is refused.
CollectCompleted(h) ==
    LET r == hub[h]
        n == Min(r.todo)
        a == r.st.running[n]
    IN  /\ At(h, "collect")
        /\ r.todo # {}
        /\ task[n][a] \in {"completed", "unfit"}
        /\ IF Acknowledges(n, a)
           THEN /\ owner' = [owner EXCEPT ![n] = [@ EXCEPT !.status = "completed", !.live = FALSE]]
                /\ IF task[n][a] = "unfit"
                   THEN Raise(h)
                   ELSE Goto(h, [r EXCEPT !.todo = @ \ {n},
                                          !.st = Completes(Collected(@, n), n),
                                          !.out = CompletionEvents(n, a)])
           ELSE Raise(h) /\ owner' = owner
        /\ UNCHANGED <<log, checkpoints, retries, task, verdict, commands, crashes>>

\* _emit_side_effect_if_present: the ledger has another status than the
\* result, and the operation raises with the completion in the log.
Unreconciled(h) ==
    /\ hub[h].out # <<>>
    /\ Head(hub[h].out).what = "side_effect"
    /\ Raise(h)
    /\ UNCHANGED <<log, checkpoints, owner, retries, task, verdict, commands, crashes>>

\* A failed result fences its attempt; the node is retried while it has
\* attempts, and otherwise fails, and the run with it unless it may continue.
CollectFailed(h) ==
    LET r == hub[h]
        n == Min(r.todo)
        a == r.st.running[n]
        again == [r EXCEPT !.todo = @ \ {n}, !.st = Collected(@, n),
                           !.out = <<Event("retry", n, a)>>]
        failing == [r EXCEPT !.todo = @ \ {n}, !.st = Fails(Collected(@, n), n),
                             !.out = <<Event("failed", n, a)>>]
    IN  /\ At(h, "collect")
        /\ r.todo # {}
        /\ task[n][a] \in {"failed", "cancelled"}
        /\ IF Holds(n, a)
           THEN /\ owner' = [owner EXCEPT ![n] = [@ EXCEPT !.status = "failed", !.live = FALSE]]
                /\ Goto(h, IF r.st.attempts[n] < NodeAttempts[n]
                           THEN again
                           ELSE IF n \in Continue THEN failing ELSE FailRun(failing, "save"))
           ELSE Raise(h) /\ owner' = owner
        /\ UNCHANGED <<log, checkpoints, retries, task, verdict, commands, crashes>>

-----------------------------------------------------------------------------
(* _resolve_conditional_skips and _execute_ready_merges: memory and events. *)

Skip(h) ==
    LET r == hub[h]
        n == Min(Unrouted(r.st))
    IN  /\ At(h, "collect") /\ r.todo = {}
        /\ Unrouted(r.st) # {}
        /\ Goto(h, IF "error" \in RouteOf(n)
                   THEN FailRun(r, "save")
                   ELSE [r EXCEPT !.st = Skips(@, n),
                                  !.out = <<Event("skipped", n, 0)>>])
        /\ UNCHANGED <<log, checkpoints, owner, retries, task, verdict, commands, crashes>>

\* Routes are resolved before merges are made, and not again in the same tick.
AtMerges(h) ==
    /\ \/ At(h, "collect") /\ Unrouted(hub[h].st) = {}
       \/ At(h, "merge")
    /\ hub[h].todo = {}

Merge_IgnoresFailures(h) ==
    LET r == hub[h]
        n == Min(Mergeable(r.st))
    IN  /\ AtMerges(h)
        /\ Mergeable(r.st) # {}
        /\ Goto(h, [r EXCEPT !.pc = "merge", !.st.completed = @ \cup {n},
                             !.out = <<Event("merged", n, 0)>>])
        /\ UNCHANGED <<log, checkpoints, owner, retries, task, verdict, commands, crashes>>

Merge(h) ==
    LET r == hub[h]
        n == Min(Mergeable(r.st))
    IN  /\ AtMerges(h)
        /\ Mergeable(r.st) # {}
        /\ Goto(h, IF Merges(n, r.st)
                   THEN [r EXCEPT !.pc = "merge", !.st = Completes(@, n),
                                  !.out = <<Event("merged", n, 0)>>]
                   ELSE FailRun([r EXCEPT !.st = Fails(@, n)], "save"))
        /\ UNCHANGED <<log, checkpoints, owner, retries, task, verdict, commands, crashes>>

-----------------------------------------------------------------------------
(* _dispatch_ready *)

Select(h) ==
    LET r == hub[h] IN
    /\ AtMerges(h)
    /\ Mergeable(r.st) = {}
    /\ Goto(h, [r EXCEPT !.pc = "dispatch", !.todo = Batch(r.st)])
    /\ UNCHANGED <<log, checkpoints, owner, retries, task, verdict, commands, crashes>>

\* _open_gate: a resume gate pauses the run, any other gate waits for approval.
OpenGate(r, n) ==
    IF n \in r.st.open THEN r
    ELSE IF Gate[n] = "resume"
         THEN [r EXCEPT !.st = Opens(@, n, "paused"),
                        !.out = <<Event("requested", n, 0), Event("gate_paused", n, 0)>>]
         ELSE [r EXCEPT !.st = Opens(@, n, "waiting_for_approval"),
                        !.out = <<Event("requested", n, 0)>>]

\* One candidate: a merge or a route not taken is passed over, a gate opened,
\* a checkpoint node completed, and a task node delegated while the run is
\* running, which fails the run otherwise (authorize_delegation).
Dispatch(h) ==
    LET r == hub[h]
        n == Min(r.todo)
        rest == [r EXCEPT !.todo = @ \ {n}]
    IN  /\ At(h, "dispatch")
        /\ r.todo # {}
        /\ Goto(h, CASE Kind[n] = "merge" \/ ~ RouteMatches(n) -> rest
                     [] Gate[n] # "none" /\ n \notin r.st.approved -> OpenGate(rest, n)
                     [] Kind[n] = "checkpoint" ->
                            [r EXCEPT !.todo = @ \ {n}, !.st = Completes(@, n),
                                      !.out = <<Event("checkpoint_node", n, 0)>>]
                     [] r.st.status # "running" -> FailRun(r, "save")
                     [] OTHER -> [rest EXCEPT !.pc = "claim", !.node = n])
        /\ UNCHANGED <<log, checkpoints, owner, retries, task, verdict, commands, crashes>>

\* ownership.claim: a completed step or a live lease is refused, and the run
\* fails; a step that has a row costs a retry of the run.  The loop over the
\* candidates goes on after a refusal.
Claim(h) ==
    LET r == hub[h]
        n == r.node
        back == [r EXCEPT !.pc = "dispatch", !.node = 0]
    IN  /\ At(h, "claim")
        /\ IF owner[n].status = "completed" \/ (owner[n].status = "active" /\ owner[n].live)
           THEN /\ Goto(h, FailRun(back, "dispatch"))
                /\ UNCHANGED <<owner, retries>>
           ELSE IF owner[n].token > 0 /\ retries >= MaxAttempts - 1
           THEN Raise(h) /\ UNCHANGED <<owner, retries>>
           ELSE /\ owner' = [owner EXCEPT ![n] = [token |-> @.token + 1, status |-> "active",
                                                  live |-> TRUE]]
                /\ retries' = IF owner[n].token > 0 THEN retries + 1 ELSE retries
                /\ Goto(h, [r EXCEPT !.pc = "submit", !.token = owner[n].token + 1,
                                     !.st = Attempted(@, n)])
        /\ UNCHANGED <<log, checkpoints, task, verdict, commands, crashes>>

Submit_Unrecorded(h) ==
    LET r == hub[h]
        n == r.node
        a == r.token
    IN  /\ At(h, "submit")
        /\ task' = [task EXCEPT ![n][a] = "created"]
        /\ Goto(h, [r EXCEPT !.pc = "dispatch", !.node = 0, !.token = 0, !.st.running[n] = a])
        /\ UNCHANGED <<log, checkpoints, owner, retries, verdict, commands, crashes>>

\* queue.submit, then the delegation is entered into the copy and the log.
Submit(h) ==
    LET r == hub[h]
        n == r.node
        a == r.token
    IN  /\ At(h, "submit")
        /\ task' = [task EXCEPT ![n][a] = "created"]
        /\ Goto(h, [r EXCEPT !.pc = "dispatch", !.node = 0, !.token = 0,
                             !.st = Delegated(@, n, a),
                             !.out = <<Event("delegated", n, a)>>])
        /\ UNCHANGED <<log, checkpoints, owner, retries, verdict, commands, crashes>>

\* No provider can be selected before the claim, or after it the side effect
\* waits for recovery or the queue rejects the task: the run fails, the claim
\* stays, and the loop over the candidates goes on.
Refuse(h) ==
    LET r == hub[h] IN
    /\ At(h, "claim") \/ At(h, "submit")
    /\ r.node \in Refusable
    /\ Goto(h, FailRun([r EXCEPT !.pc = "dispatch", !.node = 0], "dispatch"))
    /\ UNCHANGED <<log, checkpoints, owner, retries, task, verdict, commands, crashes>>

-----------------------------------------------------------------------------
(* cancel_running: cancel the Hub tasks, then fence their attempts. *)

CancelTask_Skips(h) ==
    /\ At(h, "cancel")
    /\ Goto(h, [hub[h] EXCEPT !.pc = "fence"])
    /\ UNCHANGED <<log, checkpoints, owner, retries, task, verdict, commands, crashes>>

CancelTask(h) ==
    LET r == hub[h] IN
    /\ At(h, "cancel")
    /\ Goto(h, [r EXCEPT !.pc = "fence"])
    /\ task' = [n \in Nodes |-> [a \in Attempts |->
                  IF n \in r.fence /\ r.st.running[n] = a /\ task[n][a] = "created"
                  THEN "cancelled" ELSE task[n][a]]]
    /\ UNCHANGED <<log, checkpoints, owner, retries, verdict, commands, crashes>>

\* An attempt that is no longer active, or whose lease is over, is left alone.
Fence(h) ==
    LET r == hub[h]
        n == Min(r.fence)
    IN  /\ At(h, "fence")
        /\ r.fence # {}
        /\ owner' = IF Holds(n, r.st.running[n])
                    THEN [owner EXCEPT ![n] = [@ EXCEPT !.status = "failed", !.live = FALSE]]
                    ELSE owner
        /\ Goto(h, [r EXCEPT !.fence = @ \ {n}])
        /\ UNCHANGED <<log, checkpoints, retries, task, verdict, commands, crashes>>

EndRun(h) ==
    LET r == hub[h] IN
    /\ At(h, "fence")
    /\ r.fence = {}
    /\ Goto(h, [r EXCEPT !.pc = r.then,
                         !.st = Stops(@, IF r.why = "run_failed" THEN "failed" ELSE "cancelled"),
                         !.out = <<Event(r.why, 0, IF r.why = "run_failed" THEN r.st.seq + 1
                                                                           ELSE r.cmd)>>])
    /\ UNCHANGED <<log, checkpoints, owner, retries, task, verdict, commands, crashes>>

-----------------------------------------------------------------------------
(* _finish_if_terminal and the checkpoint. *)

Finish(h) ==
    LET r == hub[h]
        over == /\ r.st.status = "running"
                /\ Running(r.st) = {}
                /\ r.st.open = {}
                /\ Terminal(r.st) = Nodes
    IN  /\ At(h, "dispatch")
        /\ r.todo = {}
        /\ Goto(h, CASE ~ over -> [r EXCEPT !.pc = "save"]
                     [] over /\ ~ Required \subseteq r.st.completed -> FailRun(r, "save")
                     [] OTHER -> [r EXCEPT !.pc = "save", !.st = [@ EXCEPT !.status = "completed"],
                                           !.out = <<Event("run_completed", 0, 0)>>])
        /\ UNCHANGED <<log, checkpoints, owner, retries, task, verdict, commands, crashes>>

\* save reads the latest revision again and announces the next one.
Save(h) ==
    LET r == hub[h] IN
    /\ At(h, "save")
    /\ Goto(h, [r EXCEPT !.pc = "store", !.token = Revision + 1,
                         !.st = [@ EXCEPT !.last = IF r.cmd = 0 THEN r.st.last ELSE r.cmd],
                         !.out = <<Event("checkpoint", 0, Revision + 1)>>])
    /\ UNCHANGED <<log, checkpoints, owner, retries, task, verdict, commands, crashes>>

\* The store compares the revision; base is kept for the properties only.
Store(h) ==
    LET r == hub[h] IN
    /\ At(h, "store")
    /\ checkpoints' = IF Revision + 1 = r.token
                      THEN Append(checkpoints, [state |-> r.st, base |-> r.base])
                      ELSE checkpoints
    /\ Raise(h)
    /\ UNCHANGED <<log, owner, retries, task, verdict, commands, crashes>>

-----------------------------------------------------------------------------
(* The world around the Hub. *)

\* An operator issues a command against the revision it sees.
Issue ==
    /\ Len(commands) < MaxCommands
    /\ Revision > 0
    /\ \E k \in CommandKinds, n \in {0} \cup Nodes :
          /\ n # 0 => k \in {"approve", "reject", "resume", "retry"}
          /\ n = 0 => k \notin {"approve", "reject"}
          /\ commands' = Append(commands, [kind |-> k, step |-> n, rev |-> Revision])
    /\ UNCHANGED <<log, checkpoints, owner, retries, task, verdict, hub, crashes>>

\* The worker gateway appends to the same log before a worker executes.
Authorize(n, a) ==
    /\ n \in Gatewayed
    /\ task[n][a] = "created"
    /\ Holds(n, a)
    /\ Event("authorized", n, a) \notin Range(log)
    /\ log' = Append(log, Event("authorized", n, a))
    /\ UNCHANGED <<checkpoints, owner, retries, task, verdict, commands, hub, crashes>>

Work(n, a) ==
    /\ task[n][a] = "created"
    /\ \E o \in Outcomes[n] : task' = [task EXCEPT ![n][a] = o]
    /\ UNCHANGED <<log, checkpoints, owner, retries, verdict, commands, hub, crashes>>

Expire(n) ==
    /\ LeasesExpire
    /\ owner[n].live
    /\ owner' = [owner EXCEPT ![n] = [@ EXCEPT !.live = FALSE]]
    /\ UNCHANGED <<log, checkpoints, retries, task, verdict, commands, hub, crashes>>

Crash(h) ==
    /\ crashes < MaxCrashes
    /\ hub[h] # Idle
    /\ Raise(h)
    /\ crashes' = crashes + 1
    /\ UNCHANGED <<log, checkpoints, owner, retries, task, verdict, commands>>

-----------------------------------------------------------------------------
(* Specification. *)

Init ==
    /\ log = <<>>
    /\ checkpoints = <<>>
    /\ owner = [n \in Nodes |-> [token |-> 0, status |-> "none", live |-> FALSE]]
    /\ retries = 0
    /\ task = [n \in Nodes |-> [a \in Attempts |-> "absent"]]
    /\ verdict \in {v \in [Edges -> Verdict] : \A e \in Edges : v[e] \in Verdicts[e]}
    /\ commands = <<>>
    /\ hub = [h \in Hubs |-> Idle]
    /\ crashes = 0

\* The steps of an operation under way.
Step(h) ==
    \/ Emit(h)
    \/ Poll(h)
    \/ CollectCompleted(h)
    \/ Unreconciled(h)
    \/ CollectFailed(h)
    \/ Skip(h)
    \/ Merge(h)
    \/ Select(h)
    \/ Dispatch(h)
    \/ Claim(h)
    \/ Submit(h)
    \/ Refuse(h)
    \/ CancelTask(h)
    \/ Fence(h)
    \/ EndRun(h)
    \/ Finish(h)
    \/ Save(h)
    \/ Store(h)

Next ==
    \/ \E h \in Hubs :
          \/ Start(h)
          \/ Advance(h)
          \/ Step(h)
          \/ Crash(h)
    \/ \E h \in Hubs, c \in DOMAIN commands : Resume(h, c)
    \/ \E n \in Nodes : Expire(n)
    \/ \E n \in Nodes, a \in Attempts : Authorize(n, a) \/ Work(n, a)
    \/ Issue

Spec == Init /\ [][Next]_vars

\* The reconciler ticks active runs from a background service, a thread runs
\* on, and a worker reports on the task it has.
Fairness ==
    /\ \A h \in Hubs : WF_vars(Start(h)) /\ WF_vars(Advance(h)) /\ WF_vars(Step(h))
    /\ \A n \in Nodes, a \in Attempts : WF_vars(Work(n, a))

FairSpec == Spec /\ Fairness

-----------------------------------------------------------------------------
(* Properties. *)

EventKinds ==
    {"started", "completed", "side_effect", "retry", "failed", "skipped", "merged", "requested",
     "gate_paused", "checkpoint_node", "delegated", "resumed", "rejected", "granted", "paused",
     "retried", "run_failed", "run_cancelled", "run_completed", "checkpoint", "authorized"}

EventRow == [what : EventKinds, node : {0} \cup Nodes, tag : Nat]

CommandRow == [kind : Commands, step : {0} \cup Nodes, rev : Nat \ {0}]

CheckpointRow == [state : RunState, base : Nat]

OwnerRow == [token : {0} \cup Attempts, live : BOOLEAN,
             status : {"none", "active", "completed", "failed"}]

HubState ==
    [pc : {"idle", "poll", "collect", "merge", "dispatch", "claim", "submit", "cancel", "fence",
           "save", "store"},
     st : RunState, base : Nat, cmd : Nat, todo : SUBSET Nodes, node : {0} \cup Nodes,
     token : Nat, fence : SUBSET Nodes, out : Seq(EventRow),
     why : {"run_failed", "run_cancelled"}, then : {"save", "dispatch"}]

TypeOK ==
    /\ log \in Seq(EventRow)
    /\ checkpoints \in Seq(CheckpointRow)
    /\ owner \in [Nodes -> OwnerRow]
    /\ retries \in 0 .. MaxAttempts - 1
    /\ task \in [Nodes -> [Attempts -> {"absent", "created"} \cup TaskDone]]
    /\ commands \in Seq(CommandRow)
    /\ hub \in [Hubs -> HubState]
    /\ crashes \in 0 .. MaxCrashes

\* No update is lost: the state saved as a revision was computed from the
\* revision before it.  save() reads the latest revision again, so the
\* store's comparison does not show this; the event log's does.
CheckpointChain == \A r \in DOMAIN checkpoints : checkpoints[r].base = r - 1

\* What the first i events say of the run.
Seen(i, what) == {e \in {log[j] : j \in 1 .. i} : e.what = what}

NodesSeen(i, whats) == {e.node : e \in UNION {Seen(i, w) : w \in whats}}

Ends == {"run_failed", "run_cancelled"}

StatusEvents ==
    [what \in {"started", "resumed", "granted", "retried", "requested", "paused", "gate_paused",
               "run_failed", "run_cancelled", "run_completed"} |->
        CASE what = "requested" -> "waiting_for_approval"
          [] what \in {"paused", "gate_paused"} -> "paused"
          [] what = "run_failed" -> "failed"
          [] what = "run_cancelled" -> "cancelled"
          [] what = "run_completed" -> "completed"
          [] OTHER -> "running"]

ReplayStatus(i) ==
    StatusEvents[log[Max({j \in 1 .. i : log[j].what \in DOMAIN StatusEvents})].what]

\* Delegations since the run was last ended that no result has answered.
ReplayRunning(i) ==
    [n \in Nodes |->
        LET ended == {0} \cup {j \in 1 .. i : log[j].what \in Ends}
            begun == {j \in Max(ended) + 1 .. i : log[j].what = "delegated" /\ log[j].node = n}
            answered(j) == \E k \in j + 1 .. i :
                              /\ log[k].what \in {"completed", "retry", "failed"}
                              /\ log[k].node = n /\ log[k].tag = log[j].tag
            alive == {j \in begun : ~ answered(j)}
        IN  IF alive = {} THEN 0 ELSE log[Max(alive)].tag]

\* A checkpoint says what replaying the log up to its event_sequence says:
\* the lifecycle can be reconstructed from the events, whatever threads and
\* crashes there were.
CheckpointReplaysLog ==
    \A r \in DOMAIN checkpoints :
        LET st == checkpoints[r].state IN
        /\ st.seq <= Len(log)
        /\ log[st.seq] = Event("checkpoint", 0, r)
        /\ st.status = ReplayStatus(st.seq)
        /\ st.completed = NodesSeen(st.seq, {"completed", "merged", "checkpoint_node"})
        /\ st.skipped = NodesSeen(st.seq, {"skipped"})
        /\ st.approved = NodesSeen(st.seq, {"granted"})
        /\ st.running = ReplayRunning(st.seq)

\* A command takes effect at most once, and on the revision it was issued
\* against, however many threads deliver it.
CommandOnce ==
    \A r \in DOMAIN checkpoints :
        LET c == checkpoints[r].state.last IN
        c # 0 /\ (r = 1 \/ checkpoints[r - 1].state.last # c) => commands[c].rev = r - 1

\* An ownership is acknowledged by the result of its own attempt: a late
\* result of a superseded attempt completes nobody's step.
AckMatchesResult ==
    \A n \in Nodes : owner[n].status = "completed" =>
        task[n][owner[n].token] \in {"completed", "unfit"}

\* A node the run counts as completed is completed in the ownership store,
\* so no later claim can start it again.
CompletedIsOwned ==
    \A n \in Nodes : \A a \in Attempts :
        Event("completed", n, a) \in Range(log) =>
            owner[n].status = "completed" /\ owner[n].token = a

\* Task, ownership and event log tell one story of a step, although they are
\* written in three transactions: results acknowledge, acknowledgements complete.
OwnershipAgrees == AckMatchesResult /\ CompletedIsOwned

\* No more delegations are out than the plan, tenant and worker limits allow.
ParallelBounded ==
    \A r \in DOMAIN checkpoints : Cardinality(Running(checkpoints[r].state)) <= Parallel

\* A merge completes only over branches that completed, or that it may omit.
MergedBranchesComplete ==
    \A r \in DOMAIN checkpoints : \A n \in checkpoints[r].state.completed :
        Kind[n] = "merge" => Merges(n, checkpoints[r].state)

\* A run that was ended leaves no delegation behind: when its checkpoint is
\* failed or cancelled and no operation is under way, no Hub task of it is
\* waiting for a worker.  An operation that dies between the submission of a
\* task and its checkpoint refutes it.
EndedRunIsFenced ==
    /\ Revision > 0
    /\ Latest.status \in {"failed", "cancelled"}
    /\ \A h \in Hubs : hub[h] = Idle
    => \A n \in Nodes, a \in Attempts : task[n][a] # "created"

\* The same of the delegations that the run knows of: whichever thread ended
\* it, whoever died, raised or lost its lease before, and however often it was
\* retried, what some checkpoint of an ended run has as delegated is waiting
\* for a worker no longer.
KnownDelegationsFenced ==
    Revision > 0 /\ Latest.status \in {"failed", "cancelled"} =>
        \A r \in DOMAIN checkpoints : \A n \in Running(checkpoints[r].state) :
            task[n][checkpoints[r].state.running[n]] # "created"

\* An approval gate holds the run: between the request and the next change
\* of the run's status nobody but an operator acts.
GateHolds ==
    \A i \in DOMAIN log : \A j \in i + 1 .. Len(log) :
        /\ log[i].what = "requested" /\ Gate[log[i].node] = "approval"
        /\ log[j].what \in DOMAIN StatusEvents
        /\ \A k \in i + 1 .. j - 1 : log[k].what \notin DOMAIN StatusEvents
        => log[j].what # "run_failed"

\* Nothing is saved for a run that completed.
CompletedIsFinal ==
    [][Revision > 0 /\ Latest.status = "completed" => checkpoints' = checkpoints]_vars

\* A run is at rest: it has ended, or waits for an operator to resume it or
\* to answer a gate.
Resting == Revision > 0 /\ (Latest.status # "running" \/ Latest.open # {})

\* The checkpoint waits for a result that no tick can take over: it was
\* acknowledged before the Hub refused it, or its attempt is fenced or has
\* lost its lease.
Uncollectable ==
    \E n \in Running(Latest) :
        LET a == Latest.running[n] IN
        \/ task[n][a] = "unfit"
        \/ task[n][a] = "completed" /\ ~ Acknowledges(n, a)
        \/ task[n][a] \in {"failed", "cancelled"} /\ ~ Holds(n, a)

\* The log has events the checkpoint does not count: the operation that wrote
\* them died or raised, or a worker wrote them, and every append to come is
\* refused.
LogAhead == Len(log) > Latest.seq

Wedged ==
    /\ Revision > 0
    /\ \A h \in Hubs : hub[h] = Idle
    /\ Uncollectable \/ LogAhead

\* A run that has a checkpoint comes to rest, whatever its workers report, if
\* leases run out, retries are used up and a thread dies, or it is wedged in
\* one of the two ways above: there is no third way in which a run that the
\* reconciler keeps ticking stays "running", as it would with a merge that
\* never becomes ready or a route nobody takes.
RunSettles == (Revision > 0) ~> (Resting \/ Wedged)

\* The same without the exception: a result that is refused, an expired
\* lease, a used up retry budget, a crash and a gateway event each refute it.
EveryRunSettles == (Revision > 0) ~> Resting
=============================================================================
