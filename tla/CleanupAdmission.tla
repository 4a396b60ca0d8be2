-------------------------- MODULE CleanupAdmission --------------------------
(***************************************************************************)
(* Admission of storage cleanups.  A cleanup is a task of the Hub's queue   *)
(* and a mark on artifacts of the storage catalog, two databases that share *)
(* no transaction: execute_operation reserves the task, marks the artifacts *)
(* as queued for it and only then makes the task dispatchable.  One action  *)
(* is one transaction of either database.                                   *)
(*                                                                          *)
(* Task statuses are those of the admission: a row that is missing counts   *)
(* as "todo" for the state machine that guards every write without force.   *)
(***************************************************************************)
EXTENDS Integers

CONSTANTS Tasks,        \* one per idempotency key
          Artifacts,
          Registered,   \* the artifacts that are in the catalog from the start
          Clients,      \* request threads of the Hub
          NoOne,        \* no holder, no task
          MaxRequests,  \* bound: calls of execute_operation
          MaxCrashes    \* bound: threads that die

VARIABLES
    task,      \* rows of the task table
    revision,  \* the catalog revision
    artifact,  \* rows of unsloth_storage_artifacts
    bound,     \* artifacts with a row in unsloth_storage_references
    proc,      \* where each request is, and what it remembers
    requests, crashes  \* how much of each bound is used

vars == <<task, revision, artifact, bound, proc, requests, crashes>>
catalog == <<revision, artifact, bound>>
counters == <<requests, crashes>>

NoPlan == [rev |-> 0, items |-> {}]
Rest == [at |-> "idle", t |-> NoOne, plan |-> NoPlan, seen |-> "absent"]

-----------------------------------------------------------------------------
(* The storage catalog *)

\* what plan_cleanup delegates of a selection; the others are protected
Eligible(sel) == {a \in sel : artifact[a].state = "active" /\ a \notin bound}

Queueable(p) ==
    /\ revision = p.rev
    /\ \A a \in p.items : artifact[a].state = "active" /\ a \notin bound

IsQueued(p, t) ==
    \A a \in p.items :
        /\ artifact[a].state = "queued"
        /\ artifact[a].holder = t
        /\ a \notin bound

\* mark_cleanup_queued succeeds: by marking now, or because it was done before
Marks(p, t) ==
    \/ /\ Queueable(p)
       /\ artifact' = [a \in Artifacts |->
                        IF a \in p.items THEN [state |-> "queued", holder |-> t] ELSE artifact[a]]
       /\ revision' = revision + 1
       /\ UNCHANGED bound
    \/ /\ revision /= p.rev
       /\ IsQueued(p, t)
       /\ UNCHANGED catalog

MarkFails(p, t) ==
    /\ ~Queueable(p)
    /\ revision = p.rev \/ ~IsQueued(p, t)

Register(a) ==
    /\ artifact[a].state = "absent"
    /\ artifact' = [artifact EXCEPT ![a].state = "active"]
    /\ revision' = revision + 1
    /\ UNCHANGED <<bound, task, proc, counters>>

BindReference(a) ==
    /\ artifact[a].state \in {"active", "queued"}
    /\ a \notin bound
    /\ bound' = bound \cup {a}
    /\ revision' = revision + 1
    /\ UNCHANGED <<artifact, task, proc, counters>>

-----------------------------------------------------------------------------
(* The task table *)

\* can_transition_to between the statuses of an admission
CanTransition(from, to) ==
    \/ from = to
    \/ <<from, to>> \in {<<"reserved", "created">>, <<"todo", "created">>, <<"created", "todo">>,
                         <<"cancelled", "todo">>}
    \/ to = "cancelled" /\ from \in {"todo", "reserved", "created"}

StatusOf(t) == IF task[t].status = "absent" THEN "todo" ELSE task[t].status

\* update_local_task_status without force: a refused write saves nothing
Stores(t, row) ==
    task' = IF CanTransition(StatusOf(t), row.status) THEN [task EXCEPT ![t] = row] ELSE task

\* compare_and_set_local_task_status from reserved
Settles(t, status) ==
    task' = [task EXCEPT ![t].status = IF @ = "reserved" THEN status ELSE @]

-----------------------------------------------------------------------------
(* A request: execute_operation *)

Goto(c, at) == proc' = [proc EXCEPT ![c].at = at]
Stop(c) == proc' = [proc EXCEPT ![c] = Rest]

\* get_submission; a request that finds its task goes to _reconcile_submission,
\* which refuses one whose admission was rejected
Request(c, t) ==
    /\ requests < MaxRequests
    /\ proc[c].at = "idle"
    /\ requests' = requests + 1
    /\ \/ /\ task[t].status = "absent"
          /\ proc' = [proc EXCEPT ![c] = [Rest EXCEPT !.at = "plan", !.t = t, !.seen = "reserved"]]
       \/ /\ task[t].status \in {"reserved", "created"}
          /\ proc' = [proc EXCEPT ![c] = [at |-> "mark", t |-> t, plan |-> task[t].plan,
                                          seen |-> task[t].status]]
    /\ UNCHANGED <<task, catalog, crashes>>

\* plan_cleanup of a selection against the current revision, the one the
\* request presents, or no plan: the revision it presents is old, an artifact
\* is not in the catalog, or nothing can be deleted
PlanCleanup(c) ==
    /\ proc[c].at = "plan"
    /\ \/ \E sel \in SUBSET {a \in Artifacts : artifact[a].state /= "absent"} :
             /\ Eligible(sel) /= {}
             /\ proc' = [proc EXCEPT ![c] = [@ EXCEPT !.at = "reserve",
                                                      !.plan = [rev |-> revision, items |-> Eligible(sel)]]]
       \/ Stop(c)
    /\ UNCHANGED <<task, catalog, counters>>

\* submit looks the task up before it ingests it
Reserve(c) ==
    LET t == proc[c].t IN
    /\ proc[c].at = "reserve"
    /\ IF task[t].status = "absent" THEN Goto(c, "ingest")
       ELSE IF task[t].plan = proc[c].plan THEN Goto(c, "mark") ELSE Stop(c)
    /\ UNCHANGED <<task, catalog, counters>>

\* ingest_task stores the row as reserved; nobody looks at what it did
Ingest(c) ==
    /\ proc[c].at = "ingest"
    /\ Stores(proc[c].t, [status |-> "reserved", plan |-> proc[c].plan])
    /\ Goto(c, "mark")
    /\ UNCHANGED <<catalog, counters>>

Mark(c) ==
    LET t == proc[c].t
        p == proc[c].plan IN
    /\ proc[c].at = "mark"
    /\ \/ /\ Marks(p, t)
          /\ IF proc[c].seen = "reserved" THEN Goto(c, "activate") ELSE Stop(c)
       \/ /\ MarkFails(p, t)
          /\ IF proc[c].seen = "reserved" THEN Goto(c, "reject") ELSE Stop(c)
          /\ UNCHANGED catalog
    /\ UNCHANGED <<task, counters>>

\* without a row to activate the request ends as "fenced but not yet
\* dispatchable"
Activate(c) ==
    /\ proc[c].at = "activate"
    /\ Settles(proc[c].t, "created")
    /\ Stop(c)
    /\ UNCHANGED <<catalog, counters>>

Reject(c) ==
    /\ proc[c].at = "reject"
    /\ Settles(proc[c].t, "cancelled")
    /\ Stop(c)
    /\ UNCHANGED <<catalog, counters>>

Crash(c) ==
    /\ crashes < MaxCrashes
    /\ proc[c].at /= "idle"
    /\ crashes' = crashes + 1
    /\ Stop(c)
    /\ UNCHANGED <<task, catalog, requests>>

Init ==
    /\ task = [t \in Tasks |-> [status |-> "absent", plan |-> NoPlan]]
    /\ revision = 0
    /\ artifact = [a \in Artifacts |->
                    [state |-> IF a \in Registered THEN "active" ELSE "absent", holder |-> NoOne]]
    /\ bound = {}
    /\ proc = [c \in Clients |-> Rest]
    /\ requests = 0
    /\ crashes = 0

Next ==
    \/ \E c \in Clients :
          \/ \E t \in Tasks : Request(c, t)
          \/ PlanCleanup(c) \/ Reserve(c) \/ Ingest(c) \/ Mark(c) \/ Activate(c) \/ Reject(c)
          \/ Crash(c)
    \/ \E a \in Artifacts : Register(a) \/ BindReference(a)

Spec == Init /\ [][Next]_vars

-----------------------------------------------------------------------------
(* Properties *)

\* An artifact that is queued for a cleanup is queued for a task of the Hub's
\* queue, which a reconciler or a worker can find and finish: reserve comes
\* before mark_cleanup_queued, and the catalog is not marked for a cleanup the
\* Hub does not know of.
QueuedHasTask ==
    \A a \in Artifacts :
        artifact[a].state = "queued" => task[artifact[a].holder].status /= "absent"

=============================================================================
