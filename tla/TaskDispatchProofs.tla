------------------------- MODULE TaskDispatchProofs -------------------------
(***************************************************************************)
(* Proofs about the task table: its types and retry limits, the dispatch    *)
(* threads of a tick, and the dependencies.                                 *)
(***************************************************************************)
EXTENDS TaskDispatch, TLAPS

-----------------------------------------------------------------------------
(* The inductive invariant *)

Live == Terminal \cup Active
Statuses == Live \cup {"absent"}
LiveRow == {r \in RowType : r.status /= "absent"}
Stages == {"idle", "start", "assign", "scope", "scoped", "offer", "propose", "asked", "execute",
           "exhausted", "retry", "running", "failing", "fail", "record", "write", "raised"}
Passes == {"stale", "tooling", "review"}
TickStages == Passes \cup {"idle", "reconcile", "queue", "assign", "wait", "abort"}
Verdicts == {"none", "todo", "blocked", "failed"}

Workers == Agents \cup {NoOne}
TasksOrNone == Tasks \cup {NoOne}
Snaps == [Tasks -> RowType]

TickType == [at : TickStages, snap : Snaps, left : SUBSET Tasks, turn : TasksOrNone,
             to : Verdicts, mine : SUBSET (Threads \X Tasks)]

ThreadType == [at : Stages, t : TasksOrNone, worker : Workers, new : BOOLEAN,
               tries : TriesType, why : Reasons, tried : 0..Attempts, bad : BOOLEAN,
               status : Statuses \cup {"none"}, out : Outputs]

\* a thread that is at work has a task, an idle one has none, and a status to
\* write is one of a task that exists
Sound(k) ==
    /\ k \in ThreadType
    /\ k.at = "idle" <=> k.t = NoOne
    /\ k.at \in {"scoped", "record", "write"} => k.status \in Live

TickSound(p) ==
    /\ p \in TickType
    /\ p.turn /= NoOne => p.at = "reconcile" /\ p.to /= "none"
    /\ p.at = "abort" => p.to \in {"todo", "failed"}

Typed ==
    /\ task \in Snaps
    /\ lease \in [Tasks -> SUBSET Agents]
    /\ work \in [Agents -> TasksOrNone]
    /\ TickSound(tick)
    /\ thread \in [Threads -> ThreadType]
    /\ \A th \in Threads : Sound(thread[th])
    /\ stop \in BOOLEAN
    /\ claims \in Nat /\ operations \in Nat /\ aborts \in Nat

\* what is dispatched exists
Present ==
    /\ tick.at = "assign" => \A t \in tick.left : Exists(t)
    /\ \A th \in Threads : thread[th].at /= "idle" => Exists(thread[th].t)

\* as long as no tick was given up, every thread at work belongs to the tick
\* under way, which waits for it, and has a task of its own
Awaited ==
    aborts = 0 =>
      /\ ~stop
      /\ tick.at /= "abort"
      /\ \A th \in Threads : thread[th].at /= "idle" =>
           /\ tick.at \in {"assign", "wait"}
           /\ <<th, thread[th].t>> \in tick.mine
           /\ thread[th].t \notin tick.left
      /\ \A th1, th2 \in Threads :
           thread[th1].at /= "idle" /\ thread[th1].t = thread[th2].t => th1 = th2

\* the tasks that are there from the start stay, also in the snapshot of a tick
EarlyThere ==
    \A t \in Early : /\ task[t].status /= "absent"
                     /\ tick.at \in Passes => tick.snap[t].status /= "absent"

\* what the dispatch of a tick may still write
Busy(t) == t \in tick.left \/ \E th \in Threads : thread[th].t = t

Ready(t) == task[t].status \in {"todo", "assigned"} => DepsDone(t)

Quiet == claims = 0 /\ operations = 0 /\ aborts = 0

\* an agent that has claimed nothing works on nothing
Worked == claims = 0 => \A a \in Agents : work[a] = NoOne

\* where the dependencies of the tasks stand at each stage of a tick: those the
\* dependency pass is through with are ready, and so is its verdict; ...
Reconciled ==
    tick.at = "reconcile" =>
      /\ \A t \in Tasks : t \notin tick.left /\ t /= tick.turn => Ready(t)
      /\ tick.turn /= NoOne =>
           /\ tick.to = "todo" => task[tick.turn].status = "blocked" /\ DepsDone(tick.turn)
           /\ tick.to = "blocked" => task[tick.turn].status \in {"todo", "assigned"}
           /\ tick.to = "failed" => task[tick.turn].status = "blocked"

\* ... all are when the queue is built; ...
Drained == tick.at = "queue" => \A t \in Tasks : Ready(t)

\* ... and no task the tick dispatches depends on one it may still write.
Settled ==
    tick.at \in {"assign", "wait"} =>
      \A t \in Tasks : Busy(t) => DepsDone(t) /\ \A d \in DependsOn[t] : ~Busy(d)

Ordered == Worked /\ (Quiet => Reconciled /\ Drained /\ Settled)

\* A task that is created while the Hub runs depends on nothing.  The hub
\* dispatches any other one unchecked when it appears behind the dependency
\* pass: TaskCreated.cfg.
LateIsFree == \A t \in Tasks \ Early : DependsOn[t] = {}

Base == Typed /\ Present

-----------------------------------------------------------------------------
(* Rows of the table *)

LEMMA RowTyped ==
    ASSUME NEW row \in RowType, NEW st \in Statuses
    PROVE  /\ [row EXCEPT !.status = st] \in RowType
           /\ [row EXCEPT !.status = st].status = st
BY DEF RowType, Statuses, Live

LEMMA RowYoung ==
    ASSUME NEW row \in RowType
    PROVE  /\ [row EXCEPT !.age = 0] \in RowType
           /\ [row EXCEPT !.age = 0].status = row.status
BY DEF RowType

LEMMA FirstRows ==
    /\ NoTries \in TriesType
    /\ Row \in RowType /\ Row.status = "todo"
    /\ NoRow \in RowType
    /\ NoSnap \in Snaps
    /\ Sound(Idle)
    /\ Idle \in ThreadType
    /\ Idle.at = "idle" /\ Idle.t = NoOne
    /\ TickSound(NoTick)
    /\ NoTick \in TickType
    /\ NoTick.at = "idle" /\ NoTick.turn = NoOne
  <1>1. NoTries \in TriesType
    BY ConstantsAssumption DEF NoTries, TriesType
  <1>2. Row \in RowType /\ Row.status = "todo"
    BY <1>1 DEF Row, RowType, Terminal, Active, Reasons, Outputs
  <1>3. NoRow \in RowType
    BY <1>2, RowTyped DEF NoRow, Statuses
  <1>4. NoSnap \in Snaps
    BY <1>3 DEF NoSnap, Snaps
  <1>5. Idle \in ThreadType /\ Idle.at = "idle" /\ Idle.t = NoOne
    BY <1>1, ConstantsAssumption DEF Idle, ThreadType, Stages, TasksOrNone, Workers, Statuses, Reasons, Outputs
  <1>6. NoTick \in TickType /\ NoTick.at = "idle" /\ NoTick.turn = NoOne
    BY <1>4 DEF NoTick, TickType, TickStages, TasksOrNone, Verdicts
  <1>7. Sound(Idle)
    BY <1>5 DEF Sound
  <1>8. TickSound(NoTick)
    BY <1>6 DEF TickSound
  <1> QED
    BY <1>1, <1>2, <1>3, <1>4, <1>5, <1>6, <1>7, <1>8

\* A write that is not refused puts a row of the task with the status it names.
LEMMA PutTyped ==
    ASSUME task \in Snaps, NEW t \in Tasks, NEW row \in RowType, NEW permitted \in BOOLEAN,
           Put(t, row, permitted)
    PROVE  \/ task' = task
           \/ \E r \in RowType : /\ r.status = row.status
                                 /\ task' = [task EXCEPT ![t] = r]
  <1>1. [row EXCEPT !.age = 0] \in RowType /\ [row EXCEPT !.age = 0].status = row.status
    BY RowYoung
  <1> QED
    BY <1>1 DEF Put

\* The same for a write from one row to the next.
Puts(t, row) ==
    \/ task' = task
    \/ \E r \in RowType : r.status = row.status /\ task' = [task EXCEPT ![t] = r]

LEMMA Writes ==
    ASSUME task \in Snaps, NEW t \in Tasks, NEW row \in RowType,
           Write(t, row) \/ Overwrite(t, row) \/ WriteResult(t, row)
    PROVE  Puts(t, row)
  <1> DEFINE p == Permits(task[t].status, row.status)
             q == p \/ (task[t].status = "failed" /\ row.status = "completed")
  <1>1. p \in BOOLEAN /\ q \in BOOLEAN /\ TRUE \in BOOLEAN
    BY DEF Permits
  <1>2. Put(t, row, p) \/ Put(t, row, TRUE) \/ Put(t, row, q)
    BY DEF Write, Overwrite, WriteResult
  <1> QED
    BY <1>1, <1>2, PutTyped DEF Puts

-----------------------------------------------------------------------------
(* A step of a dispatch thread *)

\* A thread goes on with the same task, or quits.
Continues(th) ==
    \E k \in ThreadType : /\ thread' = [thread EXCEPT ![th] = k]
                          /\ Sound(k)
                          /\ k.t \in {thread[th].t, NoOne}

\* What a step of a thread that is at work may do: write the row of its task
\* as well.
ThreadStep(th) ==
    /\ thread[th].at /= "idle"
    /\ \/ task' = task
       \/ \E r \in LiveRow : task' = [task EXCEPT ![thread[th].t] = r]
    /\ Continues(th)

LEMMA QuitSteps ==
    ASSUME NEW th \in Threads, Typed, Quit(th)
    PROVE  Continues(th)
BY FirstRows DEF Quit, Continues

LEMMA GotoSteps ==
    ASSUME NEW th \in Threads, Typed, NEW at \in Stages \ {"idle"},
           at \in {"scoped", "record", "write"} => thread[th].status \in Live,
           thread[th].at /= "idle", Goto(th, at)
    PROVE  Continues(th)
  <1> DEFINE k == [thread[th] EXCEPT !.at = at]
  <1>1. thread[th] \in ThreadType /\ Sound(thread[th])
    BY DEF Typed
  <1>2. k \in ThreadType /\ k.at = at /\ k.t = thread[th].t /\ k.status = thread[th].status
    BY <1>1 DEF ThreadType
  <1>3. Sound(k)
    BY <1>1, <1>2 DEF Sound
  <1>4. thread' = [thread EXCEPT ![th] = k]
    BY DEF Goto, Typed
  <1> QED
    BY <1>2, <1>3, <1>4 DEF Continues

\* A thread whose record changes, but not its task.
LEMMA ChangeSteps ==
    ASSUME NEW th \in Threads, Typed, thread[th].at /= "idle",
           NEW k \in ThreadType, k.t = thread[th].t, k.at /= "idle",
           k.at \in {"scoped", "record", "write"} => k.status \in Live,
           thread' = [thread EXCEPT ![th] = k]
    PROVE  Continues(th)
  <1>1. Sound(thread[th])
    BY DEF Typed
  <1>2. Sound(k)
    BY <1>1 DEF Sound
  <1> QED
    BY <1>2 DEF Continues

\* A thread at work has a task, and its row is one of the table.
LEMMA AtWork ==
    ASSUME NEW th \in Threads, Typed, thread[th].at /= "idle"
    PROVE  /\ thread[th] \in ThreadType
           /\ thread[th].t \in Tasks
           /\ task \in Snaps
           /\ task[thread[th].t] \in RowType
           /\ Sound(thread[th])
  <1>1. thread[th] \in ThreadType /\ Sound(thread[th]) /\ task \in Snaps
    BY DEF Typed
  <1>2. thread[th].t \in Tasks
    BY <1>1 DEF Sound, ThreadType, TasksOrNone
  <1> QED
    BY <1>1, <1>2 DEF Snaps

LEMMA Leaves ==
    ASSUME NEW th \in Threads, Typed, Quit(th), thread[th].at /= "idle",
           NEW row \in LiveRow,
           \/ Write(thread[th].t, row) \/ Overwrite(thread[th].t, row)
           \/ WriteResult(thread[th].t, row)
    PROVE  ThreadStep(th)
  <1>0. row \in RowType
    BY DEF LiveRow
  <1>1. Puts(thread[th].t, row)
    BY <1>0, AtWork, Writes
  <1>2. Continues(th)
    BY QuitSteps
  <1> QED
    BY <1>1, <1>2 DEF ThreadStep, Puts, LiveRow

LEMMA Looks ==
    ASSUME NEW th \in Threads, Typed, thread[th].at /= "idle", UNCHANGED task,
           NEW at \in Stages \ {"idle"},
           at \in {"scoped", "record", "write"} => thread[th].status \in Live,
           Quit(th) \/ Goto(th, at)
    PROVE  ThreadStep(th)
  <1>1. Continues(th)
    BY QuitSteps, GotoSteps
  <1> QED
    BY <1>1 DEF ThreadStep

-----------------------------------------------------------------------------
(* The actions of a thread *)

LEMMA LookingSteps ==
    ASSUME NEW th \in Threads, Base,
           \/ Begin(th) \/ Exhausted(th) \/ Execute(th) \/ Failing(th) \/ Record(th) \/ Broken(th)
           \/ Escape(th)
    PROVE  ThreadStep(th)
  <1> USE DEF Base
  <1>1. CASE Begin(th)
    <2>1. thread[th].at = "start" /\ UNCHANGED task
      BY <1>1 DEF Begin
    <2>2. Quit(th) \/ Goto(th, "assign") \/ Goto(th, "scope")
      BY <1>1 DEF Begin
    <2> QED
      BY <2>1, <2>2, Looks DEF Stages
  <1>2. CASE Exhausted(th)
    BY <1>2, Looks DEF Exhausted, QuitIfEnded, Stages
  <1>3. CASE Execute(th)
    BY <1>3, Looks DEF Execute, QuitIfEnded, Stages
  <1>4. CASE Failing(th)
    BY <1>4, Looks DEF Failing, QuitIfEnded, Stages
  <1>5. CASE Record(th)
    <2>1. thread[th].at = "record" /\ UNCHANGED task /\ (Quit(th) \/ Goto(th, "write"))
      BY <1>5 DEF Record, QuitIfEnded
    <2>2. thread[th].status \in Live
      BY <2>1 DEF Typed, Sound
    <2> QED
      BY <2>1, <2>2, Looks DEF Stages
  <1>6. CASE Broken(th)
    BY <1>6, Looks DEF Broken, Stages
  <1>7. CASE Escape(th)
    BY <1>7, Looks DEF Escape, Stages
  <1> QED
    BY <1>1, <1>2, <1>3, <1>4, <1>5, <1>6, <1>7

LEMMA ThinkingSteps ==
    ASSUME NEW th \in Threads, Base,
           ReadScope(th) \/ Offer(th) \/ Proposed(th) \/ Answer(th)
    PROVE  ThreadStep(th)
  <1> USE DEF Base
  <1>0. thread[th].at /= "idle" /\ UNCHANGED task
    BY DEF ReadScope, Offer, Proposed, Answer
  <1>a. /\ thread[th] \in ThreadType /\ Sound(thread[th])
        /\ task[thread[th].t] \in RowType
    BY <1>0, AtWork
  <1>1. CASE ReadScope(th)
    <2> DEFINE k == [thread[th] EXCEPT !.at = "scoped", !.status = task[thread[th].t].status]
    <2>1. task[thread[th].t].status \in Live
      BY <1>a, <1>0 DEF RowType, Live, Present, Exists
    <2>2. k \in ThreadType /\ k.t = thread[th].t /\ k.at = "scoped" /\ k.status \in Live
      BY <1>a, <2>1 DEF ThreadType, Stages, Statuses
    <2>3. thread' = [thread EXCEPT ![th] = k]
      BY <1>1 DEF ReadScope, Typed
    <2> HIDE DEF k
    <2>4. Continues(th)
      BY <2>2, <2>3, <1>0, ChangeSteps
    <2> QED
      BY <2>4, <1>0 DEF ThreadStep
  <1>2. CASE Offer(th)
    <2>1. Quit(th) \/ Goto(th, "exhausted")
          \/ (thread[th].tried < Attempts
              /\ thread' = [thread EXCEPT ![th].at = "propose", ![th].tried = @ + 1])
      BY <1>2 DEF Offer
    <2>2. CASE Quit(th) \/ Goto(th, "exhausted")
      BY <2>2, <1>0, Looks DEF Stages
    <2>3. CASE /\ thread[th].tried < Attempts
               /\ thread' = [thread EXCEPT ![th].at = "propose", ![th].tried = @ + 1]
      <3>1. PICK n \in Nat : n = thread[th].tried + 1 /\ n \in 0..Attempts
        BY <1>a, <2>3, ConstantsAssumption DEF ThreadType
      <3> DEFINE k == [thread[th] EXCEPT !.at = "propose", !.tried = n]
      <3>2. k \in ThreadType /\ k.t = thread[th].t /\ k.at = "propose"
        BY <1>a, <3>1 DEF ThreadType, Stages
      <3>3. thread' = [thread EXCEPT ![th] = k]
        BY <2>3, <3>1 DEF Typed
      <3> HIDE DEF k
      <3>4. Continues(th)
        BY <3>2, <3>3, <1>0, ChangeSteps
      <3> QED
        BY <3>4, <1>0 DEF ThreadStep
    <2> QED
      BY <2>1, <2>2, <2>3
  <1>3. CASE Proposed(th)
    <2>1. CASE Goto(th, "execute")
      BY <2>1, <1>0, Looks DEF Stages
    <2>2. ASSUME NEW empty \in BOOLEAN,
                 thread' = [thread EXCEPT ![th].at = "offer", ![th].bad = @ \/ empty]
          PROVE  ThreadStep(th)
      <3>1. PICK b \in BOOLEAN : b = (thread[th].bad \/ empty)
        OBVIOUS
      <3> DEFINE k == [thread[th] EXCEPT !.at = "offer", !.bad = b]
      <3>2. k \in ThreadType /\ k.t = thread[th].t /\ k.at = "offer"
        BY <1>a, <3>1 DEF ThreadType, Stages
      <3>3. thread' = [thread EXCEPT ![th] = k]
        BY <2>2, <3>1 DEF Typed
      <3> HIDE DEF k
      <3>4. Continues(th)
        BY <3>2, <3>3, <1>0, ChangeSteps
      <3> QED
        BY <3>4, <1>0 DEF ThreadStep
    <2> QED
      BY <1>3, <2>1, <2>2 DEF Proposed
  <1>4. CASE Answer(th)
    <2>1. PICK st \in Results, out \in Outputs :
            thread' = [thread EXCEPT ![th].at = "record", ![th].status = st, ![th].out = out]
      BY <1>4 DEF Answer, Outputs
    <2> DEFINE k == [thread[th] EXCEPT !.at = "record", !.status = st, !.out = out]
    <2>2. st \in Live
      BY ConstantsAssumption DEF Live, Terminal, Active
    <2>3. k \in ThreadType /\ k.t = thread[th].t /\ k.at = "record" /\ k.status \in Live
      BY <1>a, <2>1, <2>2 DEF ThreadType, Stages, Statuses
    <2>4. thread' = [thread EXCEPT ![th] = k]
      BY <2>1 DEF Typed
    <2> HIDE DEF k
    <2>5. Continues(th)
      BY <2>3, <2>4, <1>0, ChangeSteps
    <2> QED
      BY <2>5, <1>0 DEF ThreadStep
  <1> QED
    BY <1>1, <1>2, <1>3, <1>4

LEMMA WritingSteps ==
    ASSUME NEW th \in Threads, Base,
           AssignWorker(th) \/ WriteScope(th) \/ Propose(th)
    PROVE  ThreadStep(th)
  <1> USE DEF Base
  <1> DEFINE k == thread[th]  row == task[thread[th].t]
  <1>0. k.at /= "idle"
    BY DEF AssignWorker, WriteScope, Propose
  <1>a. /\ k \in ThreadType /\ Sound(k) /\ k.t \in Tasks
        /\ task \in Snaps /\ row \in RowType
    BY <1>0, AtWork
  <1>b. k.worker \in Agents \cup {NoOne} /\ k.why \in Reasons /\ k.tries \in TriesType
    BY <1>a DEF ThreadType, Workers
  <1>1. CASE AssignWorker(th)
    <2> DEFINE r == [row EXCEPT !.status = "assigned", !.agent = k.worker]
    <2>1. r \in LiveRow
      BY <1>a, <1>b DEF RowType, LiveRow, Active
    <2>2. Write(k.t, r) /\ Goto(th, "scope")
      BY <1>1 DEF AssignWorker
    <2> HIDE DEF r
    <2>3. Puts(k.t, r)
      BY <2>1, <2>2, <1>a, Writes DEF LiveRow
    <2>4. Continues(th)
      BY <2>2, <1>0, GotoSteps DEF Stages
    <2> QED
      BY <2>1, <2>3, <2>4, <1>0 DEF ThreadStep, Puts, LiveRow
  <1>2. CASE WriteScope(th)
    <2> DEFINE r == [row EXCEPT !.status = k.status, !.why = k.why, !.tries = k.tries]
               k2 == [k EXCEPT !.at = "offer", !.status = "none"]
    <2>0. k.status \in Live
      BY <1>2, <1>a DEF WriteScope, Sound
    <2>1. r \in LiveRow
      BY <1>a, <1>b, <2>0 DEF RowType, LiveRow, Live, Terminal, Active
    <2>2. Write(k.t, r)
      BY <1>2 DEF WriteScope
    <2>3. thread' = [thread EXCEPT ![th] = k2]
      BY <1>2 DEF WriteScope, Typed
    <2>4. k2 \in ThreadType /\ k2.t = k.t /\ k2.at = "offer"
      BY <1>a DEF ThreadType, Stages
    <2> HIDE DEF r, k2
    <2>5. Puts(k.t, r)
      BY <2>1, <2>2, <1>a, Writes DEF LiveRow
    <2>6. Continues(th)
      BY <2>3, <2>4, <1>0, ChangeSteps
    <2> QED
      BY <2>1, <2>5, <2>6, <1>0 DEF ThreadStep, Puts, LiveRow
  <1>3. CASE Propose(th)
    <2> DEFINE r == [row EXCEPT !.status = "proposing", !.agent = k.worker]
    <2>1. r \in LiveRow
      BY <1>a, <1>b DEF RowType, LiveRow, Active
    <2>2. Overwrite(k.t, r) /\ Goto(th, "asked")
      BY <1>3 DEF Propose
    <2> HIDE DEF r
    <2>3. Puts(k.t, r)
      BY <2>1, <2>2, <1>a, Writes DEF LiveRow
    <2>4. Continues(th)
      BY <2>2, <1>0, GotoSteps DEF Stages
    <2> QED
      BY <2>1, <2>3, <2>4, <1>0 DEF ThreadStep, Puts, LiveRow
  <1> QED
    BY <1>1, <1>2, <1>3

\* A round of repair is begun only below the limit.
LEMMA StrategiesTyped ==
    ASSUME NEW row \in RowType, NEW k \in ThreadType, NEW declined \in OnDeclined
    PROVE  AfterStrategies(row, k, declined) \in LiveRow
  <1> DEFINE n == k.tries.repair + IF Repairs(k) THEN 1 ELSE 0
             tries == [k.tries EXCEPT !.repair = n]
             why == IF k.bad THEN "invalid" ELSE "exhausted"
             told == [row EXCEPT !.why = why, !.tries = tries]
             status == [needs_review |-> IF HumanReview THEN "waiting" ELSE "failed",
                        failed |-> "failed", advisory |-> "todo"][declined]
  <1>1. k.tries \in TriesType /\ k.tries.repair \in 0..RepairRounds
    BY DEF ThreadType, TriesType
  <1>2. n \in 0..RepairRounds
    BY <1>1, ConstantsAssumption DEF Repairs
  <1> HIDE DEF n
  <1>3. tries \in TriesType
    BY <1>1, <1>2 DEF TriesType
  <1> HIDE DEF tries
  <1>4. told \in RowType
    BY <1>3 DEF RowType, Reasons
  <1>5. AfterStrategies(row, k, declined) =
          IF Repairs(k) \/ (k.bad /\ HumanReview) THEN [told EXCEPT !.status = "todo", !.hold = TRUE]
          ELSE [told EXCEPT !.status = status, !.hold = FALSE]
    BY DEF AfterStrategies, tries, n
  <1>s. status \in {"todo", "waiting", "failed"}
    BY ConstantsAssumption
  <1> HIDE DEF told, status
  <1>6. \A st \in {"todo", "waiting", "failed"}, b \in BOOLEAN :
          [told EXCEPT !.status = st, !.hold = b] \in LiveRow
    BY <1>4 DEF RowType, LiveRow, Terminal, Active
  <1> QED
    BY <1>5, <1>6, <1>s

LEMMA LeavingSteps ==
    ASSUME NEW th \in Threads, Base,
           \/ HardGuard(th) \/ Refused(th) \/ RetryLater(th) \/ Transient(th)
           \/ Fail(th) \/ Finish(th) \/ BindFails(th) \/ Raised(th)
    PROVE  ThreadStep(th)
  <1> USE DEF Base
  <1> DEFINE k == thread[th]  row == task[thread[th].t]
  <1>0. k.at /= "idle" /\ Quit(th)
    BY DEF HardGuard, Refused, RetryLater, Transient, Fail, Finish, BindFails, Raised
  <1>a. k \in ThreadType /\ Sound(k) /\ row \in RowType
    BY <1>0, AtWork
  <1>b. k.tries \in TriesType /\ k.out \in Outputs
    BY <1>a DEF ThreadType
  <1>1. CASE HardGuard(th)
    <2> DEFINE r == [row EXCEPT !.status = "waiting", !.why = "exhausted", !.tries = k.tries]
    <2>1. r \in LiveRow
      BY <1>a, <1>b DEF RowType, LiveRow, Active, Reasons
    <2>2. Overwrite(k.t, r)
      BY <1>1 DEF HardGuard
    <2> HIDE DEF r
    <2> QED
      BY <2>1, <2>2, <1>0, Leaves
  <1>2. CASE Refused(th) \/ Fail(th)
    <2> DEFINE r == [row EXCEPT !.status = "failed"]
    <2>1. r \in LiveRow
      BY <1>a DEF RowType, LiveRow, Terminal
    <2>2. Write(k.t, r)
      BY <1>2 DEF Refused, Fail
    <2> HIDE DEF r
    <2> QED
      BY <2>1, <2>2, <1>0, Leaves
  <1>3. CASE RetryLater(th)
    <2>0. PICK declined \in OnDeclined : Write(k.t, AfterStrategies(row, k, declined))
      BY <1>3 DEF RetryLater
    <2>1. AfterStrategies(row, k, declined) \in LiveRow
      BY <1>a, StrategiesTyped
    <2>2. Write(k.t, AfterStrategies(row, k, declined))
      BY <2>0
    <2> QED
      BY <2>1, <2>2, <1>0, Leaves
  <1>4. CASE Transient(th)
    <2> DEFINE r == [row EXCEPT !.status = "todo", !.hold = TRUE]
    <2>1. r \in LiveRow
      BY <1>a DEF RowType, LiveRow, Active
    <2>2. Write(k.t, r)
      BY <1>4 DEF Transient
    <2> HIDE DEF r
    <2> QED
      BY <2>1, <2>2, <1>0, Leaves
  <1>5. CASE Finish(th)
    <2> DEFINE r == [row EXCEPT !.status = k.status, !.out = k.out]
    <2>0. k.status \in Live
      BY <1>5, <1>a DEF Finish, Sound
    <2>1. r \in LiveRow
      BY <1>a, <1>b, <2>0 DEF RowType, LiveRow, Live, Terminal, Active
    <2>2. WriteResult(k.t, r)
      BY <1>5 DEF Finish
    <2> HIDE DEF r
    <2> QED
      BY <2>1, <2>2, <1>0, Leaves
  <1>6. CASE BindFails(th) \/ Raised(th)
    <2> DEFINE r == [row EXCEPT !.status = "failed"]
    <2>1. r \in LiveRow
      BY <1>a DEF RowType, LiveRow, Terminal
    <2>2. Overwrite(k.t, r) \/ UNCHANGED task
      BY <1>6 DEF BindFails, Raised
    <2> HIDE DEF r
    <2>3. CASE Overwrite(k.t, r)
      BY <2>1, <2>3, <1>0, Leaves
    <2>4. CASE UNCHANGED task
      BY <2>4, <1>0, QuitSteps DEF ThreadStep
    <2> QED
      BY <2>2, <2>3, <2>4
  <1> QED
    BY <1>1, <1>2, <1>3, <1>4, <1>5, <1>6

LEMMA DispatchSteps ==
    ASSUME NEW th \in Threads, Base, Dispatch(th)
    PROVE  ThreadStep(th) /\ UNCHANGED <<lease, work, tick, stop, claims, operations, aborts>>
  <1>1. UNCHANGED <<lease, work, tick, stop, claims, operations, aborts>>
    BY DEF Dispatch, api
  <1> QED
    BY <1>1, LookingSteps, ThinkingSteps, WritingSteps, LeavingSteps DEF Dispatch

-----------------------------------------------------------------------------
(* Every step writes at most one row, and no row disappears *)

Rewrites(t) ==
    \/ task' = task
    \/ \E r \in RowType : /\ task[t].status /= "absent" => r.status /= "absent"
                          /\ task' = [task EXCEPT ![t] = r]

LEMMA LiveWrites ==
    ASSUME task \in Snaps, NEW t \in Tasks, NEW row \in LiveRow,
           Write(t, row) \/ Overwrite(t, row) \/ WriteResult(t, row)
    PROVE  Rewrites(t)
  <1>1. row \in RowType /\ row.status /= "absent"
    BY DEF LiveRow
  <1>2. Puts(t, row)
    BY <1>1, Writes
  <1> QED
    BY <1>1, <1>2 DEF Rewrites, Puts

LEMMA RetriedTyped ==
    ASSUME NEW row \in RowType, NEW s \in RowType, NEW which \in {"active", "tooling", "review"},
           which = "active" => RetryStale(s),
           which = "tooling" => RetryTooling(s),
           which = "review" => RetryReview(s)
    PROVE  Retried(row, s, which) \in LiveRow
  <1>1. s.tries \in TriesType /\ s.why \in Reasons
    BY DEF RowType
  <1>2. PICK n \in Nat : n = s.tries[which] + 1
    BY <1>1 DEF TriesType
  <1> DEFINE tries == [s.tries EXCEPT ![which] = n]
  <1>3. tries \in TriesType
    BY <1>1, <1>2, ConstantsAssumption DEF TriesType, RetryStale, RetryTooling, RetryReview
  <1>4. Retried(row, s, which) = [row EXCEPT !.status = "todo", !.why = s.why, !.tries = tries]
    BY <1>1, <1>2 DEF Retried, TriesType
  <1> HIDE DEF tries
  <1> QED
    BY <1>1, <1>3, <1>4 DEF RowType, LiveRow, Active

\* A pass puts a row back only below the limit of its retries.
LEMMA RecoveredTyped ==
    ASSUME NEW row \in RowType, NEW s \in RowType, NEW pass
    PROVE  Recovered(pass, row, s) \in LiveRow
  <1>1. \A st \in {"todo", "failed"} : [row EXCEPT !.status = st] \in LiveRow
    BY DEF RowType, LiveRow, Active, Terminal
  <1>2. [row EXCEPT !.status = "todo", !.why = "none", !.tries = NoTries] \in LiveRow
    BY FirstRows DEF RowType, LiveRow, Active, Reasons
  <1>3. RetryStale(s) => Retried(row, s, "active") \in LiveRow
    BY RetriedTyped
  <1>4. RetryTooling(s) => Retried(row, s, "tooling") \in LiveRow
    BY RetriedTyped
  <1>5. RetryReview(s) => [Retried(row, s, "review") EXCEPT !.hold = TRUE] \in LiveRow
    <2>1. SUFFICES ASSUME RetryReview(s)
                   PROVE  [Retried(row, s, "review") EXCEPT !.hold = TRUE] \in LiveRow
      OBVIOUS
    <2>2. Retried(row, s, "review") \in LiveRow
      BY <2>1, RetriedTyped
    <2> QED
      BY <2>2 DEF LiveRow, RowType
  <1> QED
    BY <1>1, <1>2, <1>3, <1>4, <1>5 DEF Recovered

LEMMA TickRewrites ==
    ASSUME Base, NEW t \in Tasks, Recover(t) \/ NoWorker(t)
    PROVE  Rewrites(t)
  <1>0. task \in Snaps /\ task[t] \in RowType
    BY DEF Base, Typed, Snaps
  <1>1. CASE Recover(t)
    <2>1. tick.snap[t] \in RowType
      BY DEF Base, Typed, TickSound, TickType, Snaps
    <2>2. Recovered(tick.at, task[t], tick.snap[t]) \in LiveRow
      BY <1>0, <2>1, RecoveredTyped
    <2> QED
      BY <1>0, <1>1, <2>2, LiveWrites DEF Recover
  <1>2. CASE NoWorker(t)
    <2>1. \A st \in {"todo", "failed"} : [task[t] EXCEPT !.status = st] \in LiveRow
      BY <1>0 DEF RowType, LiveRow, Active, Terminal
    <2>2. PICK st \in {"todo", "failed"} : Overwrite(t, [task[t] EXCEPT !.status = st])
      BY <1>2 DEF NoWorker
    <2> QED
      BY <1>0, <2>1, <2>2, LiveWrites
  <1> QED
    BY <1>1, <1>2

LEMMA VerdictRewrites ==
    ASSUME Base, ApplyVerdict
    PROVE  tick.turn \in Tasks /\ Rewrites(tick.turn)
  <1> DEFINE t == tick.turn
  <1>1. t \in Tasks /\ tick.to \in {"todo", "blocked", "failed"}
    BY DEF ApplyVerdict, Base, Typed, TickSound, TickType, TasksOrNone, Verdicts
  <1>2. task \in Snaps /\ task[t] \in RowType
    BY <1>1 DEF Base, Typed, Snaps
  <1>3. [task[t] EXCEPT !.status = tick.to] \in LiveRow
    BY <1>1, <1>2 DEF RowType, LiveRow, Active, Terminal
  <1> QED
    BY <1>1, <1>2, <1>3, LiveWrites DEF ApplyVerdict

LEMMA AbortRewrites ==
    ASSUME Base, NEW job \in tick.mine, Abort(job)
    PROVE  job[2] \in Tasks /\ Rewrites(job[2])
  <1>1. job[2] \in Tasks /\ tick.to \in {"todo", "failed"}
    BY DEF Abort, Base, Typed, TickSound, TickType
  <1>2. task \in Snaps /\ task[job[2]] \in RowType
    BY <1>1 DEF Base, Typed, Snaps
  <1>3. [task[job[2]] EXCEPT !.status = tick.to] \in LiveRow
    BY <1>1, <1>2 DEF RowType, LiveRow, Active, Terminal
  <1> QED
    BY <1>1, <1>2, <1>3, LiveWrites DEF Abort

LEMMA ApiRewrites ==
    ASSUME Base, NEW t \in Tasks,
           \/ \E a \in Agents : Claim(a, t)
           \/ \E action \in Interventions : Intervene(action, t)
           \/ Create(t) \/ Age(t) \/ HoldEnds(t)
    PROVE  Rewrites(t)
  <1>0. task \in Snaps /\ task[t] \in RowType /\ task \in [Tasks -> RowType]
    BY DEF Base, Typed, Snaps
  <1>1. ASSUME NEW a \in Agents, Claim(a, t)
        PROVE  Rewrites(t)
    <2> DEFINE r == [task[t] EXCEPT !.status = "assigned", !.agent = a]
    <2>0. r \in RowType /\ r.status = "assigned"
      BY <1>0 DEF RowType, Active
    <2>a. [task[t] EXCEPT !.status = "assigned", !.agent = a, !.age = 0] = [r EXCEPT !.age = 0]
      BY <1>0 DEF RowType
    <2>1. [task[t] EXCEPT !.status = "assigned", !.agent = a, !.age = 0] \in LiveRow
      BY <2>0, <2>a, RowYoung DEF LiveRow
    <2>2. task' = [task EXCEPT ![t] = [task[t] EXCEPT !.status = "assigned", !.agent = a, !.age = 0]]
      BY <1>0, <1>1 DEF Claim
    <2> QED
      BY <2>1, <2>2 DEF Rewrites, LiveRow
  <1>2. ASSUME NEW action \in Interventions, Intervene(action, t)
        PROVE  Rewrites(t)
    <2>1. Intervened(action, task[t]) \in {"assigned", "cancelled", "paused", "todo"}
      BY ConstantsAssumption DEF Intervened
    <2>2. [task[t] EXCEPT !.status = Intervened(action, task[t]), !.hold = TRUE] \in LiveRow
      BY <1>0, <2>1 DEF RowType, LiveRow, Active, Terminal
    <2> QED
      BY <1>0, <1>2, <2>2, LiveWrites DEF Intervene
  <1>3. CASE Create(t)
    BY <1>3, FirstRows DEF Create, Rewrites
  <1>4. CASE Age(t)
    <2>1. PICK n \in 0..2 : n = task[t].age + 1
      BY <1>0, <1>4 DEF Age, RowType
    <2>2. [task[t] EXCEPT !.age = n] \in RowType /\ [task[t] EXCEPT !.age = n].status = task[t].status
      BY <1>0, <2>1 DEF RowType
    <2>3. task' = [task EXCEPT ![t] = [task[t] EXCEPT !.age = n]]
      BY <1>0, <1>4, <2>1 DEF Age
    <2> QED
      BY <2>2, <2>3 DEF Rewrites
  <1>5. CASE HoldEnds(t)
    <2>1. /\ [task[t] EXCEPT !.hold = FALSE] \in RowType
          /\ [task[t] EXCEPT !.hold = FALSE].status = task[t].status
      BY <1>0 DEF RowType
    <2>2. task' = [task EXCEPT ![t] = [task[t] EXCEPT !.hold = FALSE]]
      BY <1>0, <1>5 DEF HoldEnds
    <2> QED
      BY <2>1, <2>2 DEF Rewrites
  <1> QED
    BY <1>1, <1>2, <1>3, <1>4, <1>5

LEMMA CompleteRewrites ==
    ASSUME Base, NEW a \in Agents, NEW status \in {"completed", "unverified"}, Complete(a, status)
    PROVE  work[a] \in Tasks /\ Rewrites(work[a])
  <1>1. work[a] \in Tasks
    BY DEF Complete, Base, Typed, TasksOrNone
  <1>2. task \in Snaps /\ task[work[a]] \in RowType
    BY <1>1 DEF Base, Typed, Snaps
  <1>3. [task[work[a]] EXCEPT !.status = status, !.out = "other",
                              !.why = "none", !.tries = NoTries] \in LiveRow
    BY <1>2, FirstRows DEF RowType, LiveRow, Terminal, Outputs, Reasons
  <1> QED
    BY <1>1, <1>2, <1>3, LiveWrites DEF Complete

LEMMA DispatchRewrites ==
    ASSUME Base, NEW th \in Threads, Dispatch(th)
    PROVE  thread[th].t \in Tasks /\ Rewrites(thread[th].t)
  <1>1. ThreadStep(th)
    BY DispatchSteps DEF Base
  <1>2. thread[th].t \in Tasks
    BY <1>1, AtWork DEF ThreadStep, Base
  <1> QED
    BY <1>1, <1>2 DEF ThreadStep, Rewrites, LiveRow

LEMMA TableStep ==
    ASSUME Base, Next
    PROVE  UNCHANGED task \/ \E t \in Tasks : Rewrites(t)
  <1>1. CASE Tick
    <2>1. CASE StartTick \/ NextPass \/ Queue \/ Launched \/ EndTick
      BY <2>1 DEF StartTick, NextPass, Queue, Launched, EndTick
    <2>2. CASE ApplyVerdict
      BY <2>2, VerdictRewrites
    <2>3. CASE \E t \in Tasks : Recover(t) \/ Reconcile(t) \/ NoWorker(t)
      BY <2>3, TickRewrites DEF Reconcile
    <2>4. CASE \E t \in Tasks, th \in Threads, a \in Online : Launch(t, th, a)
      BY <2>4 DEF Launch
    <2>5. CASE \E job \in tick.mine : Abort(job)
      BY <2>5, AbortRewrites
    <2> QED
      BY <1>1, <2>1, <2>2, <2>3, <2>4, <2>5 DEF Tick
  <1>2. CASE RefuseTick \/ GiveUp \/ Stop \/ Crash
    BY <1>2 DEF RefuseTick, GiveUp, Stop, Crash
  <1>3. CASE \E th \in Threads : Dispatch(th)
    BY <1>3, DispatchRewrites
  <1>4. CASE \E a \in Agents, t \in Tasks : Claim(a, t) \/ LeaseExpires(a, t)
    BY <1>4, ApiRewrites DEF LeaseExpires
  <1>5. CASE \E a \in Agents, status \in {"completed", "unverified"} : Complete(a, status)
    BY <1>5, CompleteRewrites
  <1>6. CASE \E action \in Interventions, t \in Tasks : Intervene(action, t)
    BY <1>6, ApiRewrites
  <1>7. CASE (\E t \in Tasks : Create(t)) \/ Clock
    BY <1>7, ApiRewrites DEF Clock
  <1> QED
    BY <1>1, <1>2, <1>3, <1>4, <1>5, <1>6, <1>7 DEF Next

LEMMA TableKept ==
    ASSUME Base, Next
    PROVE  task' \in Snaps /\ \A t \in Tasks : Exists(t) => Exists(t)'
  <1>1. task \in [Tasks -> RowType]
    BY DEF Base, Typed, Snaps
  <1>2. CASE UNCHANGED task
    BY <1>1, <1>2 DEF Snaps, Exists
  <1>3. ASSUME NEW t \in Tasks, Rewrites(t)
        PROVE  task' \in Snaps /\ \A u \in Tasks : Exists(u) => Exists(u)'
    BY <1>1, <1>2, <1>3 DEF Snaps, Exists, Rewrites
  <1> QED
    BY <1>2, <1>3, TableStep

-----------------------------------------------------------------------------
(* The tick and the threads keep their types *)

LEMMA DueTyped ==
    ASSUME NEW pass, NEW snap
    PROVE  Due(pass, snap) \subseteq Tasks
BY DEF Due

LEMMA TickTyped ==
    ASSUME Base, Tick
    PROVE  TickSound(tick')
  <1>0. TickSound(tick) /\ tick \in TickType /\ task \in Snaps
    BY DEF Base, Typed, TickSound
  <1>1. CASE StartTick
    <2>1. Due("stale", task) \in SUBSET Tasks
      BY DueTyped
    <2>2. tick' = [NoTick EXCEPT !.at = "stale", !.snap = task, !.left = Due("stale", task)]
      BY <1>1 DEF StartTick
    <2> QED
      BY <1>0, <2>1, <2>2, FirstRows DEF TickSound, TickType, TickStages, Passes
  <1>2. CASE NextPass
    <2> DEFINE next == Following[tick.at]
    <2>1. next \in {"tooling", "review", "reconcile", "queue"} /\ tick.turn = NoOne
      BY <1>2 DEF NextPass, Following
    <2>2. Due(next, tick.snap) \in SUBSET Tasks
      BY DueTyped
    <2>3. PICK snap \in Snaps : tick' = [tick EXCEPT !.at = next, !.left = Due(next, tick.snap), !.snap = snap]
      <3>1. tick.snap \in Snaps /\ NoSnap \in Snaps
        BY <1>0, FirstRows DEF TickType
      <3> QED
        BY <1>2, <3>1 DEF NextPass
    <2> HIDE DEF next
    <2> QED
      BY <1>0, <2>1, <2>2, <2>3 DEF TickSound, TickType, TickStages, Passes
  <1>3. CASE ApplyVerdict
    BY <1>0, <1>3 DEF ApplyVerdict, TickSound, TickType, TasksOrNone, Verdicts
  <1>4. CASE Queue
    <2>1. CASE tick' = NoTick
      BY <2>1, FirstRows
    <2>2. ASSUME NEW chosen \in SUBSET Tasks,
                 tick' = [tick EXCEPT !.at = "assign", !.snap = task, !.left = chosen]
          PROVE  TickSound(tick')
      <3>1. tick.turn = NoOne
        BY <1>0, <1>4 DEF Queue, TickSound
      <3> QED
        BY <1>0, <2>2, <3>1 DEF TickSound, TickType, TickStages
    <2>3. Queued \subseteq Tasks
      BY DEF Queued
    <2> QED
      BY <1>4, <2>1, <2>2, <2>3 DEF Queue
  <1>5. CASE Launched
    <2>1. tick.turn = NoOne
      BY <1>0, <1>5 DEF Launched, TickSound
    <2> QED
      BY <1>0, <1>5, <2>1, FirstRows DEF Launched, TickSound, TickType, TickStages
  <1>6. CASE EndTick
    BY <1>6, FirstRows DEF EndTick
  <1>7. ASSUME NEW t \in Tasks, Recover(t) \/ NoWorker(t)
        PROVE  TickSound(tick')
    <2>1. tick' = [tick EXCEPT !.left = tick.left \ {t}]
      BY <1>0, <1>7 DEF Recover, NoWorker, TickType
    <2> QED
      BY <1>0, <2>1 DEF TickSound, TickType
  <1>8. ASSUME NEW t \in Tasks, Reconcile(t)
        PROVE  TickSound(tick')
    <2>1. PICK v \in Verdicts : v = Verdict(t)
      BY DEF Verdict, Verdicts
    <2>2. PICK turn \in TasksOrNone : turn = IF v = "none" THEN NoOne ELSE t
      BY DEF TasksOrNone
    <2>3. tick.at = "reconcile" /\ tick' = [tick EXCEPT !.left = tick.left \ {t}, !.turn = turn, !.to = v]
      BY <1>0, <1>8, <2>1, <2>2 DEF Reconcile, TickType
    <2> QED
      BY <1>0, <2>1, <2>2, <2>3 DEF TickSound, TickType
  <1>9. ASSUME NEW t \in Tasks, NEW th \in Threads, NEW a \in Online, Launch(t, th, a)
        PROVE  TickSound(tick')
    <2>1. tick' = [tick EXCEPT !.left = tick.left \ {t}, !.mine = tick.mine \cup {<<th, t>>}]
      BY <1>0, <1>9 DEF Launch, TickType
    <2>2. tick.mine \cup {<<th, t>>} \in SUBSET (Threads \X Tasks) /\ tick.left \ {t} \in SUBSET Tasks
      BY <1>0 DEF TickType
    <2> QED
      BY <1>0, <2>1, <2>2 DEF TickSound, TickType
  <1>10. ASSUME NEW job \in tick.mine, Abort(job)
         PROVE  TickSound(tick')
    <2>1. tick' = [tick EXCEPT !.mine = tick.mine \ {job}]
      BY <1>0, <1>10 DEF Abort, TickType
    <2> QED
      BY <1>0, <2>1 DEF TickSound, TickType
  <1> QED
    BY <1>1, <1>2, <1>3, <1>4, <1>5, <1>6, <1>7, <1>8, <1>9, <1>10 DEF Tick

LEMMA TickKept ==
    ASSUME Base, Next
    PROVE  TickSound(tick')
  <1>0. TickSound(tick) /\ tick \in TickType
    BY DEF Base, Typed, TickSound
  <1>1. CASE Tick
    BY <1>1, TickTyped
  <1>2. CASE GiveUp
    <2>1. PICK to \in {"todo", "failed"} : tick' = [tick EXCEPT !.at = "abort", !.mine = Pending, !.to = to]
      BY <1>2 DEF GiveUp
    <2>2. tick.turn = NoOne /\ Pending \in SUBSET (Threads \X Tasks)
      BY <1>0, <1>2 DEF GiveUp, TickSound, TickType, Pending
    <2> QED
      BY <1>0, <2>1, <2>2 DEF TickSound, TickType, TickStages, Verdicts
  <1>3. CASE Crash
    BY <1>3, FirstRows DEF Crash
  <1>4. CASE RefuseTick \/ Stop \/ \E t \in Tasks : Create(t)
    BY <1>0, <1>4 DEF RefuseTick, Stop, Create
  <1>5. CASE \E th \in Threads : Dispatch(th)
    BY <1>0, <1>5 DEF Dispatch
  <1>6. CASE \/ \E a \in Agents, t \in Tasks : Claim(a, t) \/ LeaseExpires(a, t)
             \/ \E a \in Agents, status \in {"completed", "unverified"} : Complete(a, status)
             \/ \E action \in Interventions, t \in Tasks : Intervene(action, t)
             \/ Clock
    BY <1>0, <1>6 DEF Claim, LeaseExpires, Complete, Intervene, Clock, Age, HoldEnds
  <1> QED
    BY <1>1, <1>2, <1>3, <1>4, <1>5, <1>6 DEF Next

\* A thread that starts has the task it was launched for.
LEMMA LaunchTyped ==
    ASSUME Base, NEW t \in Tasks, NEW th \in Threads, NEW a \in Online, Launch(t, th, a)
    PROVE  \E k \in ThreadType : /\ Sound(k) /\ k.t = t /\ k.at = "start"
                                 /\ thread' = [thread EXCEPT ![th] = k]
  <1> DEFINE s == tick.snap[t]
             k == [Idle EXCEPT !.at = "start", !.t = t, !.worker = a, !.new = (s.agent = NoOne),
                               !.tries = s.tries, !.why = s.why]
  <1>1. s \in RowType
    BY DEF Base, Typed, TickSound, TickType, Snaps
  <1>2. s.tries \in TriesType /\ s.why \in Reasons
    BY <1>1 DEF RowType
  <1>3. a \in Workers /\ t \in TasksOrNone /\ t /= NoOne
    BY ConstantsAssumption DEF Workers, TasksOrNone
  <1>4. thread' = [thread EXCEPT ![th] = k]
    BY DEF Launch
  <1> HIDE DEF s
  <1>5. k \in ThreadType /\ k.t = t /\ k.at = "start"
    BY <1>2, <1>3, FirstRows DEF ThreadType, Stages
  <1> HIDE DEF k
  <1>6. Sound(k)
    BY <1>3, <1>5 DEF Sound
  <1> QED
    BY <1>4, <1>5, <1>6

\* The threads change in four ways.
LEMMA ThreadsMove ==
    ASSUME Base, Next
    PROVE  \/ UNCHANGED thread
           \/ \E th \in Threads : Continues(th) /\ thread[th].at /= "idle" /\ Dispatch(th)
           \/ \E t \in Tasks, th \in Threads, a \in Online : Launch(t, th, a)
           \/ thread' = [th \in Threads |-> Idle] /\ Crash
  <1>1. CASE \E th \in Threads : Dispatch(th)
    BY <1>1, DispatchSteps DEF ThreadStep, Base
  <1>2. CASE Tick
    BY <1>2 DEF Tick, StartTick, NextPass, ApplyVerdict, Queue, Launched, EndTick, Recover,
                Reconcile, NoWorker, Abort
  <1>3. CASE RefuseTick \/ GiveUp \/ Stop \/ Crash \/ \E t \in Tasks : Create(t)
    BY <1>3 DEF RefuseTick, GiveUp, Stop, Crash, Create
  <1>4. CASE \/ \E a \in Agents, t \in Tasks : Claim(a, t) \/ LeaseExpires(a, t)
             \/ \E a \in Agents, status \in {"completed", "unverified"} : Complete(a, status)
             \/ \E action \in Interventions, t \in Tasks : Intervene(action, t)
             \/ Clock
    BY <1>4 DEF Claim, LeaseExpires, Complete, Intervene, Clock, Age, HoldEnds
  <1> QED
    BY <1>1, <1>2, <1>3, <1>4 DEF Next

LEMMA ThreadsKept ==
    ASSUME Base, Next
    PROVE  /\ thread' \in [Threads -> ThreadType]
           /\ \A th \in Threads : Sound(thread'[th])
           /\ \A th \in Threads : thread'[th].at /= "idle" => task'[thread'[th].t].status /= "absent"
  <1>0. /\ thread \in [Threads -> ThreadType]
        /\ \A th \in Threads : Sound(thread[th])
        /\ \A th \in Threads : thread[th].at /= "idle" => thread[th].t \in Tasks /\ Exists(thread[th].t)
    BY AtWork DEF Base, Typed, Present
  <1>1. \A t \in Tasks : Exists(t) => Exists(t)'
    BY TableKept
  <1>2. CASE UNCHANGED thread
    <2>1. ASSUME NEW th \in Threads, thread[th].at /= "idle"
          PROVE  task'[thread[th].t].status /= "absent"
      BY <1>0, <1>1, <2>1 DEF Exists
    <2> QED
      BY <1>0, <1>2, <2>1 DEF Exists
  <1>3. ASSUME NEW th \in Threads, Continues(th), thread[th].at /= "idle"
        PROVE  /\ thread' \in [Threads -> ThreadType]
               /\ \A g \in Threads : Sound(thread'[g])
               /\ \A g \in Threads : thread'[g].at /= "idle" => task'[thread'[g].t].status /= "absent"
    <2>1. PICK k \in ThreadType : /\ thread' = [thread EXCEPT ![th] = k]
                                  /\ Sound(k)
                                  /\ k.t \in {thread[th].t, NoOne}
      BY <1>3 DEF Continues
    <2>2. \A g \in Threads : thread'[g] = IF g = th THEN k ELSE thread[g]
      BY <1>0, <2>1
    <2>3. k.at /= "idle" => k.t = thread[th].t
      BY <2>1 DEF Sound
    <2> QED
      BY <1>0, <1>1, <1>3, <2>1, <2>2, <2>3 DEF Exists
  <1>4. ASSUME NEW t \in Tasks, NEW th \in Threads, NEW a \in Online, Launch(t, th, a)
        PROVE  /\ thread' \in [Threads -> ThreadType]
               /\ \A g \in Threads : Sound(thread'[g])
               /\ \A g \in Threads : thread'[g].at /= "idle" => task'[thread'[g].t].status /= "absent"
    <2>1. PICK k \in ThreadType : /\ Sound(k) /\ k.t = t /\ k.at = "start"
                                  /\ thread' = [thread EXCEPT ![th] = k]
      BY <1>4, LaunchTyped
    <2>2. \A g \in Threads : thread'[g] = IF g = th THEN k ELSE thread[g]
      BY <1>0, <2>1
    <2>3. Exists(t)
      BY <1>4 DEF Launch, Base, Present
    <2> QED
      BY <1>0, <1>1, <2>1, <2>2, <2>3 DEF Exists
  <1>5. CASE thread' = [th \in Threads |-> Idle]
    BY <1>5, FirstRows
  <1> QED
    BY <1>2, <1>3, <1>4, <1>5, ThreadsMove

LEMMA LeftExists ==
    ASSUME Base, Next, tick'.at = "assign"
    PROVE  \A t \in tick'.left : Exists(t)'
  <1>0. tick \in TickType
    BY DEF Base, Typed, TickSound
  <1>1. \A t \in Tasks : Exists(t) => Exists(t)'
    BY TableKept
  <1>2. tick.at = "assign" => \A t \in tick.left : t \in Tasks /\ Exists(t)
    BY <1>0 DEF Base, Present, TickType
  <1>3. CASE tick' = tick
    BY <1>1, <1>2, <1>3
  <1>4. CASE Queue
    <2>1. PICK chosen \in SUBSET Queued : tick' = [tick EXCEPT !.at = "assign", !.snap = task, !.left = chosen]
      BY <1>4, FirstRows DEF Queue
    <2>2. \A t \in chosen : t \in Tasks /\ Exists(t)
      BY DEF Queued, Exists
    <2> QED
      BY <1>0, <1>1, <2>1, <2>2 DEF TickType
  <1>5. ASSUME NEW t \in Tasks, Recover(t) \/ NoWorker(t) \/ Reconcile(t) \/ \E th \in Threads, a \in Online : Launch(t, th, a)
        PROVE  \A u \in tick'.left : Exists(u)'
    <2>1. tick'.left \subseteq tick.left /\ tick'.at = tick.at
      BY <1>0, <1>5 DEF Recover, NoWorker, Reconcile, Launch, TickType
    <2> QED
      BY <1>1, <1>2, <2>1
  <1>6. ASSUME NEW job \in tick.mine, Abort(job)
        PROVE  FALSE
    BY <1>0, <1>6 DEF Abort, TickType
  <1>7. ASSUME StartTick \/ NextPass \/ ApplyVerdict \/ Launched \/ EndTick \/ GiveUp \/ Crash
        PROVE  FALSE
    <2>1. CASE StartTick
      BY <2>1, FirstRows DEF StartTick, TickType
    <2>2. CASE NextPass
      <3>1. Following[tick.at] /= "assign"
        BY <2>2 DEF NextPass, Following
      <3>2. tick'.at = Following[tick.at]
        BY <1>0, <2>2 DEF NextPass, TickType
      <3> QED
        BY <3>1, <3>2
    <2>3. CASE ApplyVerdict
      BY <1>0, <2>3 DEF ApplyVerdict, TickType
    <2>4. CASE Launched \/ GiveUp
      BY <1>0, <2>4 DEF Launched, GiveUp, TickType
    <2>5. CASE EndTick \/ Crash
      BY <2>5, FirstRows DEF EndTick, Crash
    <2> QED
      BY <1>7, <2>1, <2>2, <2>3, <2>4, <2>5
  <1>8. CASE \/ RefuseTick \/ Stop \/ \E t \in Tasks : Create(t)
             \/ \E th \in Threads : Dispatch(th)
             \/ \E a \in Agents, t \in Tasks : Claim(a, t) \/ LeaseExpires(a, t)
             \/ \E a \in Agents, status \in {"completed", "unverified"} : Complete(a, status)
             \/ \E action \in Interventions, t \in Tasks : Intervene(action, t)
             \/ Clock
    BY <1>3, <1>8 DEF RefuseTick, Stop, Create, Dispatch, Claim, LeaseExpires, Complete, Intervene,
                      Clock, Age, HoldEnds
  <1> QED
    BY <1>4, <1>5, <1>6, <1>7, <1>8 DEF Next, Tick

LEMMA Counters ==
    ASSUME Base, Next
    PROVE  /\ claims' \in {claims, claims + 1}
           /\ operations' \in {operations, operations + 1}
           /\ aborts' \in {aborts, aborts + 1}
           /\ stop' \in BOOLEAN
  <1>0. stop \in BOOLEAN
    BY DEF Base, Typed
  <1>1. CASE Tick
    BY <1>0, <1>1 DEF Tick, StartTick, NextPass, ApplyVerdict, Queue, Launched, EndTick, Recover,
                      Reconcile, NoWorker, Launch, Abort, bounds
  <1>2. CASE RefuseTick \/ GiveUp \/ Stop \/ Crash \/ \E t \in Tasks : Create(t)
    BY <1>0, <1>2 DEF RefuseTick, GiveUp, Stop, Crash, Create, bounds
  <1>3. CASE \E th \in Threads : Dispatch(th)
    BY <1>0, <1>3 DEF Dispatch
  <1>4. CASE \/ \E a \in Agents, t \in Tasks : Claim(a, t) \/ LeaseExpires(a, t)
             \/ \E a \in Agents, status \in {"completed", "unverified"} : Complete(a, status)
             \/ \E action \in Interventions, t \in Tasks : Intervene(action, t)
             \/ Clock
    BY <1>0, <1>4 DEF Claim, LeaseExpires, Complete, Intervene, Clock, Age, HoldEnds, bounds
  <1> QED
    BY <1>1, <1>2, <1>3, <1>4 DEF Next

\* Leases are taken by Claim and end with LeaseExpires.
LEMMA LeasesMove ==
    ASSUME Base, Next
    PROVE  \/ UNCHANGED <<lease, work>>
           \/ \E a \in Agents, t \in Tasks : Claim(a, t)
           \/ \E a \in Agents, t \in Tasks : LeaseExpires(a, t)
           \/ \E a \in Agents : UNCHANGED lease /\ work' = [work EXCEPT ![a] = NoOne]
  <1>1. CASE Tick
    BY <1>1 DEF Tick, StartTick, NextPass, ApplyVerdict, Queue, Launched, EndTick, Recover,
                Reconcile, NoWorker, Launch, Abort, api
  <1>2. CASE RefuseTick \/ GiveUp \/ Stop \/ Crash \/ \E t \in Tasks : Create(t)
    BY <1>2 DEF RefuseTick, GiveUp, Stop, Crash, Create, api
  <1>3. CASE \E th \in Threads : Dispatch(th)
    BY <1>3 DEF Dispatch, api
  <1>4. CASE \/ \E a \in Agents, t \in Tasks : Claim(a, t) \/ LeaseExpires(a, t)
             \/ \E a \in Agents, status \in {"completed", "unverified"} : Complete(a, status)
    BY <1>4 DEF Complete
  <1>5. CASE (\E action \in Interventions, t \in Tasks : Intervene(action, t)) \/ Clock
    BY <1>5 DEF Intervene, Clock, Age, HoldEnds, api
  <1> QED
    BY <1>1, <1>2, <1>3, <1>4, <1>5 DEF Next

LEMMA BaseStep ==
    ASSUME Base, Next
    PROVE  Base'
  <1>0. /\ lease \in [Tasks -> SUBSET Agents] /\ work \in [Agents -> TasksOrNone]
        /\ claims \in Nat /\ operations \in Nat /\ aborts \in Nat
    BY DEF Base, Typed
  <1>1. task' \in Snaps /\ TickSound(tick)'
    BY TableKept, TickKept DEF TickSound
  <1>2. /\ thread' \in [Threads -> ThreadType]
        /\ \A th \in Threads : Sound(thread[th])'
        /\ \A th \in Threads : thread'[th].at /= "idle" => task'[thread'[th].t].status /= "absent"
    BY ThreadsKept DEF Sound
  <1>3. claims' \in Nat /\ operations' \in Nat /\ aborts' \in Nat /\ stop' \in BOOLEAN
    BY <1>0, Counters
  <1>4. lease' \in [Tasks -> SUBSET Agents] /\ work' \in [Agents -> TasksOrNone]
    <2>1. ASSUME NEW a \in Agents, NEW t \in Tasks, Claim(a, t)
          PROVE  lease' \in [Tasks -> SUBSET Agents] /\ work' \in [Agents -> TasksOrNone]
      <3>1. lease' = [lease EXCEPT ![t] = lease[t] \cup {a}] /\ work' = [work EXCEPT ![a] = t]
        BY <1>0, <2>1 DEF Claim
      <3> QED
        BY <1>0, <3>1 DEF TasksOrNone
    <2>2. ASSUME NEW a \in Agents, NEW t \in Tasks, LeaseExpires(a, t)
          PROVE  lease' \in [Tasks -> SUBSET Agents] /\ work' \in [Agents -> TasksOrNone]
      <3>1. lease' = [lease EXCEPT ![t] = lease[t] \ {a}] /\ work' = work
        BY <1>0, <2>2 DEF LeaseExpires
      <3> QED
        BY <1>0, <3>1
    <2>3. ASSUME NEW a \in Agents, UNCHANGED lease, work' = [work EXCEPT ![a] = NoOne]
          PROVE  lease' \in [Tasks -> SUBSET Agents] /\ work' \in [Agents -> TasksOrNone]
      BY <1>0, <2>3 DEF TasksOrNone
    <2> QED
      BY <1>0, <2>1, <2>2, <2>3, LeasesMove
  <1>5. tick'.at = "assign" => \A t \in tick'.left : Exists(t)'
    BY LeftExists
  <1>6. Typed'
    BY <1>1, <1>2, <1>3, <1>4 DEF Typed
  <1>7. Present'
    BY <1>2, <1>5 DEF Present, Exists
  <1> QED
    BY <1>6, <1>7 DEF Base

LEMMA BaseInit ==
    ASSUME Init
    PROVE  Base
  <1>1. task \in Snaps
    BY FirstRows DEF Init, Snaps
  <1>2. Typed
    BY <1>1, FirstRows DEF Init, Typed, TasksOrNone
  <1>3. Present
    BY FirstRows DEF Init, Present
  <1> QED
    BY <1>2, <1>3 DEF Base

LEMMA BaseStutters ==
    ASSUME Base, UNCHANGED vars
    PROVE  Base'
BY DEF Base, Typed, Present, TickSound, Sound, Exists, vars, api, bounds

\* The types hold in every reachable state.
THEOREM TypesStay == Spec => []Base
  <1>1. Init => Base
    BY BaseInit
  <1>2. Base /\ [Next]_vars => Base'
    BY BaseStep, BaseStutters
  <1> QED
    BY <1>1, <1>2, PTL DEF Spec

\* The task table and all that moves a task in it are well-typed, and no pass of
\* the tick and no round of repair takes a retry counter past its limit,
\* whatever stale snapshot or thread it is counted from.
THEOREM RetriesWithinLimits == Spec => []TypeOK
  <1>1. Base => TypeOK
    <2> SUFFICES ASSUME Base PROVE TypeOK
      OBVIOUS
    <2>1. /\ task \in [Tasks -> RowType] /\ lease \in [Tasks -> SUBSET Agents]
          /\ work \in [Agents -> Tasks \cup {NoOne}] /\ stop \in BOOLEAN
      BY DEF Base, Typed, Snaps, TasksOrNone
    <2>2. /\ tick.snap \in [Tasks -> RowType] /\ tick.left \subseteq Tasks
          /\ tick.turn \in Tasks \cup {NoOne} /\ tick.mine \subseteq Threads \X Tasks
      BY DEF Base, Typed, TickSound, TickType, Snaps, TasksOrNone
    <2>3. \A th \in Threads :
            /\ thread[th].t \in Tasks \cup {NoOne} /\ thread[th].worker \in Agents \cup {NoOne}
            /\ thread[th].tries \in TriesType /\ thread[th].why \in Reasons
            /\ thread[th].tried \in 0..Attempts
      BY DEF Base, Typed, ThreadType, TasksOrNone, Workers
    <2> QED
      BY <2>1, <2>2, <2>3 DEF TypeOK
  <1> QED
    BY <1>1, TypesStay, PTL

-----------------------------------------------------------------------------
(* The threads of a tick *)

LEMMA AwaitedTick ==
    ASSUME Base, Awaited, aborts = 0, aborts' = 0, UNCHANGED thread, Tick \/ RefuseTick \/ GiveUp
    PROVE  Awaited'
  <1>0. tick \in TickType /\ ~stop /\ tick.at /= "abort"
    BY DEF Base, Typed, TickSound, Awaited
  <1>1. /\ \A th \in Threads : thread[th].at /= "idle" =>
             /\ tick.at \in {"assign", "wait"}
             /\ <<th, thread[th].t>> \in tick.mine
             /\ thread[th].t \notin tick.left
        /\ \A th1, th2 \in Threads :
             thread[th1].at /= "idle" /\ thread[th1].t = thread[th2].t => th1 = th2
    BY DEF Awaited
  <1>2. ~ GiveUp /\ ~ RefuseTick
    BY <1>0 DEF GiveUp, RefuseTick, Base, Typed
  <1>3. ~stop'
    BY <1>0, <1>2 DEF Tick, StartTick, NextPass, ApplyVerdict, Queue, Launched, EndTick, Recover,
                      Reconcile, NoWorker, Launch, Abort
  <1>4. SUFFICES /\ tick'.at /= "abort"
                 /\ \A th \in Threads : thread[th].at /= "idle" =>
                      /\ tick'.at \in {"assign", "wait"}
                      /\ <<th, thread[th].t>> \in tick'.mine
                      /\ thread[th].t \notin tick'.left
    BY <1>1, <1>3 DEF Awaited
  <1>5. CASE StartTick
    BY <1>0, <1>1, <1>5, FirstRows DEF StartTick, TickType
  <1>6. CASE NextPass
    <2>1. tick.at \notin {"assign", "wait"} /\ Following[tick.at] /= "abort"
      BY <1>6 DEF NextPass, Following
    <2>2. tick'.at = Following[tick.at]
      BY <1>0, <1>6 DEF NextPass, TickType
    <2> QED
      BY <1>1, <2>1, <2>2
  <1>7. CASE ApplyVerdict
    BY <1>0, <1>1, <1>7 DEF ApplyVerdict, TickType
  <1>8. CASE Queue
    <2>1. tick.at = "queue"
      BY <1>8 DEF Queue
    <2>2. tick'.at \in {"idle", "assign"}
      BY <1>0, <1>8, FirstRows DEF Queue, TickType
    <2> QED
      BY <1>1, <2>1, <2>2
  <1>9. CASE Launched
    BY <1>0, <1>1, <1>9 DEF Launched, TickType
  <1>10. CASE EndTick
    <2>1. tick' = NoTick /\ \A job \in tick.mine : thread[job[1]].at = "idle"
      BY <1>0, <1>10 DEF EndTick, Pending
    <2>2. \A th \in Threads : thread[th].at = "idle"
      BY <1>1, <2>1
    <2> QED
      BY <2>1, <2>2, FirstRows
  <1>11. ASSUME NEW t \in Tasks, Recover(t) \/ Reconcile(t) \/ NoWorker(t)
         PROVE  /\ tick'.at = tick.at /\ tick'.mine = tick.mine /\ tick'.left \subseteq tick.left
    BY <1>0, <1>11 DEF Recover, Reconcile, NoWorker, TickType
  <1>12. ASSUME NEW t \in Tasks, NEW th \in Threads, NEW a \in Online, Launch(t, th, a)
         PROVE  /\ tick'.at = tick.at /\ tick.mine \subseteq tick'.mine /\ tick'.left \subseteq tick.left
    BY <1>0, <1>12 DEF Launch, TickType
  <1>13. ASSUME NEW job \in tick.mine, Abort(job)
         PROVE  FALSE
    BY <1>0, <1>13 DEF Abort
  <1>14. Tick
    BY <1>2
  <1>15. CASE \/ \E t \in Tasks : Recover(t) \/ Reconcile(t) \/ NoWorker(t)
              \/ \E t \in Tasks, th \in Threads, a \in Online : Launch(t, th, a)
    <2>1. tick'.at = tick.at /\ tick.mine \subseteq tick'.mine /\ tick'.left \subseteq tick.left
      BY <1>11, <1>12, <1>15
    <2> QED
      BY <1>0, <1>1, <2>1
  <1> QED
    BY <1>5, <1>6, <1>7, <1>8, <1>9, <1>10, <1>13, <1>14, <1>15 DEF Tick

LEMMA AwaitedLaunch ==
    ASSUME Base, Awaited, aborts = 0, NEW t \in Tasks, NEW th \in Threads, NEW a \in Online,
           Launch(t, th, a)
    PROVE  Awaited'
  <1>0. /\ tick \in TickType /\ thread \in [Threads -> ThreadType]
        /\ \A g \in Threads : Sound(thread[g])
    BY DEF Base, Typed, TickSound
  <1>1. PICK k \in ThreadType : /\ Sound(k) /\ k.t = t /\ k.at = "start"
                                /\ thread' = [thread EXCEPT ![th] = k]
    BY LaunchTyped
  <1>2. /\ thread'[th] = k
        /\ \A g \in Threads \ {th} : thread'[g] = thread[g]
    BY <1>0, <1>1
  <1>3. /\ tick.at = "assign" /\ t \in tick.left /\ ~stop' /\ thread[th].at = "idle"
        /\ tick'.at = tick.at /\ tick'.left = tick.left \ {t}
        /\ tick'.mine = tick.mine \cup {<<th, t>>}
    BY <1>0 DEF Launch, TickType, Awaited
  <1>4. \A g \in Threads \ {th} : thread[g].t /= t
    <2>1. \A g \in Threads : thread[g].at = "idle" => thread[g].t = NoOne
      BY <1>0 DEF Sound
    <2>2. \A g \in Threads : thread[g].at /= "idle" => thread[g].t \notin tick.left
      BY DEF Awaited
    <2>3. t /= NoOne
      BY ConstantsAssumption
    <2> QED
      BY <1>3, <2>1, <2>2, <2>3
  <1>5. \A g \in Threads : thread'[g].at /= "idle" =>
             /\ tick'.at \in {"assign", "wait"}
             /\ <<g, thread'[g].t>> \in tick'.mine
             /\ thread'[g].t \notin tick'.left
    BY <1>1, <1>2, <1>3 DEF Awaited
  <1>6. \A g1, g2 \in Threads :
             thread'[g1].at /= "idle" /\ thread'[g1].t = thread'[g2].t => g1 = g2
    BY <1>1, <1>2, <1>4 DEF Awaited
  <1> QED
    BY <1>3, <1>5, <1>6 DEF Awaited

LEMMA AwaitedDispatch ==
    ASSUME Base, Awaited, aborts = 0, NEW th \in Threads, Dispatch(th)
    PROVE  Awaited'
  <1>0. /\ thread \in [Threads -> ThreadType]
        /\ \A g \in Threads : Sound(thread[g])
    BY DEF Base, Typed
  <1>1. Continues(th) /\ UNCHANGED <<tick, stop, aborts>> /\ thread[th].at /= "idle"
    BY DispatchSteps DEF ThreadStep, Base
  <1>2. PICK k \in ThreadType : /\ thread' = [thread EXCEPT ![th] = k]
                                /\ Sound(k)
                                /\ k.t \in {thread[th].t, NoOne}
    BY <1>1 DEF Continues
  <1>3. /\ thread'[th] = k
        /\ \A g \in Threads \ {th} : thread'[g] = thread[g]
    BY <1>0, <1>2
  <1>4. k.at /= "idle" => k.t = thread[th].t
    BY <1>2 DEF Sound
  <1>5. \A g \in Threads : thread'[g].at /= "idle" =>
          /\ thread[g].at /= "idle"
          /\ thread'[g].t = thread[g].t
    BY <1>1, <1>3, <1>4
  <1>6. \A g \in Threads : thread'[g].at = "idle" => thread'[g].t = NoOne
    BY <1>0, <1>2, <1>3 DEF Sound
  <1>7. \A g \in Threads : thread[g].at /= "idle" => thread[g].t /= NoOne
    BY <1>0 DEF Sound
  <1>8. \A g1, g2 \in Threads :
             thread'[g1].at /= "idle" /\ thread'[g1].t = thread'[g2].t => g1 = g2
    BY <1>5, <1>6, <1>7 DEF Awaited
  <1> QED
    BY <1>1, <1>5, <1>8 DEF Awaited

LEMMA AwaitedStep ==
    ASSUME Base, Awaited, Next
    PROVE  Awaited'
  <1>0. SUFFICES ASSUME aborts' = 0
                 PROVE  Awaited'
    BY DEF Awaited
  <1>1. aborts = 0
    BY <1>0, Counters DEF Base, Typed
  <1>2. CASE \E th \in Threads : Dispatch(th)
    BY <1>1, <1>2, AwaitedDispatch
  <1>3. CASE \E t \in Tasks, th \in Threads, a \in Online : Launch(t, th, a)
    BY <1>1, <1>3, AwaitedLaunch
  <1>4. CASE Crash
    BY <1>1, <1>4, FirstRows DEF Crash, Awaited
  <1>5. CASE Stop
    BY <1>0, <1>1, <1>5 DEF Stop
  <1>6. CASE UNCHANGED thread /\ (Tick \/ RefuseTick \/ GiveUp)
    BY <1>0, <1>1, <1>6, AwaitedTick
  <1>7. CASE \/ \E a \in Agents, t \in Tasks : Claim(a, t) \/ LeaseExpires(a, t)
             \/ \E a \in Agents, status \in {"completed", "unverified"} : Complete(a, status)
             \/ \E action \in Interventions, t \in Tasks : Intervene(action, t)
             \/ (\E t \in Tasks : Create(t)) \/ Clock
    <2>1. UNCHANGED <<tick, thread, stop, aborts>>
      BY <1>7 DEF Claim, LeaseExpires, Complete, Intervene, Create, Clock, Age, HoldEnds, bounds
    <2> QED
      BY <2>1 DEF Awaited
  <1> QED
    BY <1>2, <1>3, <1>4, <1>5, <1>6, <1>7, ThreadsMove DEF Next

Held == Base /\ Awaited

LEMMA HeldInit ==
    ASSUME Init
    PROVE  Held
  <1>1. Awaited
    BY FirstRows DEF Init, Awaited
  <1> QED
    BY <1>1, BaseInit DEF Held

LEMMA HeldStep ==
    ASSUME Held, [Next]_vars
    PROVE  Held'
  <1>1. CASE Next
    BY <1>1, BaseStep, AwaitedStep DEF Held
  <1>2. CASE UNCHANGED vars
    <2>1. Awaited'
      BY <1>2 DEF Held, Awaited, vars, bounds
    <2> QED
      BY <1>2, <2>1, BaseStutters DEF Held
  <1> QED
    BY <1>1, <1>2

\* tick_once and the wait of a tick: as long as no tick gives up waiting (and none
\* lasts the 300 seconds after which tick_once forgets it), no two dispatch
\* threads work on one task, for any number of ticks, threads and crashes of the
\* Hub.
THEOREM OneThreadEach == Spec => []OneThreadPerAwaitedTask
  <1>1. Held => OneThreadPerAwaitedTask
    <2> SUFFICES ASSUME Held, aborts = 0, NEW th1 \in Threads, NEW th2 \in Threads,
                        th1 /= th2, thread[th1].at /= "idle"
                 PROVE  thread[th1].t /= thread[th2].t
      BY DEF OneThreadPerAwaitedTask, OneThreadPerTask
    <2> QED
      BY DEF Held, Awaited
  <1> QED
    BY <1>1, HeldInit, HeldStep, PTL DEF Spec

-----------------------------------------------------------------------------
(* Dependencies *)

LEMMA EarlyStep ==
    ASSUME Base, EarlyThere, Next
    PROVE  EarlyThere'
  <1>0. tick \in TickType
    BY DEF Base, Typed, TickSound
  <1>1. \A t \in Early : task'[t].status /= "absent"
    BY TableKept, ConstantsAssumption DEF EarlyThere, Exists
  <1>2. SUFFICES ASSUME tick'.at \in Passes
                 PROVE  \A t \in Early : tick'.snap[t].status /= "absent"
    BY <1>1 DEF EarlyThere
  <1>3. CASE StartTick
    <2>1. tick'.snap = task
      BY <1>3, FirstRows DEF StartTick, TickType
    <2> QED
      BY <2>1 DEF EarlyThere
  <1>4. CASE tick'.at = tick.at /\ tick'.snap = tick.snap
    BY <1>2, <1>4 DEF EarlyThere
  <1>5. CASE NextPass
    <2>1. tick'.at = Following[tick.at] /\ tick.at \in DOMAIN Following
      BY <1>0, <1>5 DEF NextPass, TickType
    <2>2. tick.at \in Passes /\ Following[tick.at] \in {"tooling", "review"}
      BY <1>2, <2>1 DEF Following, Passes
    <2>3. tick'.snap = tick.snap
      BY <1>0, <1>5, <2>2 DEF NextPass, TickType
    <2> QED
      BY <2>2, <2>3 DEF EarlyThere
  <1>6. ASSUME Launched \/ GiveUp
        PROVE  FALSE
    BY <1>0, <1>2, <1>6 DEF Launched, GiveUp, TickType, Passes
  <1>7. ASSUME EndTick \/ Crash
        PROVE  FALSE
    BY <1>2, <1>7, FirstRows DEF EndTick, Crash, Passes
  <1>8. ASSUME Queue
        PROVE  FALSE
    <2>1. tick'.at \in {"idle", "assign"}
      BY <1>0, <1>8, FirstRows DEF Queue, TickType
    <2> QED
      BY <1>2, <2>1 DEF Passes
  <1>9. CASE ApplyVerdict
    BY <1>0, <1>4, <1>9 DEF ApplyVerdict, TickType
  <1>10. CASE \/ \E t \in Tasks : Recover(t) \/ Reconcile(t) \/ NoWorker(t)
              \/ \E t \in Tasks, th \in Threads, a \in Online : Launch(t, th, a)
              \/ \E job \in tick.mine : Abort(job)
    BY <1>0, <1>4, <1>10 DEF Recover, Reconcile, NoWorker, Launch, Abort, TickType
  <1>11. CASE tick' = tick
    BY <1>4, <1>11
  <1>12. CASE \/ RefuseTick \/ Stop \/ \E t \in Tasks : Create(t)
              \/ \E th \in Threads : Dispatch(th)
              \/ \E a \in Agents, t \in Tasks : Claim(a, t) \/ LeaseExpires(a, t)
              \/ \E a \in Agents, status \in {"completed", "unverified"} : Complete(a, status)
              \/ \E action \in Interventions, t \in Tasks : Intervene(action, t)
              \/ Clock
    BY <1>11, <1>12 DEF RefuseTick, Stop, Create, Dispatch, Claim, LeaseExpires, Complete, Intervene,
                        Clock, Age, HoldEnds
  <1> QED
    BY <1>3, <1>5, <1>6, <1>7, <1>8, <1>9, <1>10, <1>12 DEF Next, Tick

LEMMA WorkedStep ==
    ASSUME Base, Worked, Next
    PROVE  Worked'
  <1>0. work \in [Agents -> TasksOrNone] /\ claims \in Nat
    BY DEF Base, Typed
  <1>1. SUFFICES ASSUME claims' = 0
                 PROVE  \A a \in Agents : work'[a] = NoOne
    BY DEF Worked
  <1>2. claims = 0 /\ \A a \in Agents : work[a] = NoOne
    BY <1>0, <1>1, Counters DEF Worked
  <1>3. ASSUME NEW a \in Agents, NEW t \in Tasks, Claim(a, t)
        PROVE  FALSE
    BY <1>1, <1>2, <1>3 DEF Claim
  <1> QED
    BY <1>0, <1>2, <1>3, LeasesMove DEF LeaseExpires

LEMMA DoneKept ==
    ASSUME \A u \in Tasks : task[u].status = "completed" => task'[u].status = "completed"
    PROVE  \A t \in Tasks : DepsDone(t) => DepsDone(t)'
BY ConstantsAssumption DEF DepsDone

\* Nothing but time passes, or a task that depends on nothing appears.
LEMMA OrderedCalm ==
    ASSUME LateIsFree, EarlyThere, Reconciled, Drained, Settled, UNCHANGED <<tick, thread>>,
           TickSound(tick),
           \A u \in Tasks : \/ task'[u].status = task[u].status
                            \/ u \notin Early /\ task[u].status = "absent"
    PROVE  Reconciled' /\ Drained' /\ Settled'
  <1>1. \A t \in Tasks : DepsDone(t) => DepsDone(t)'
    BY DoneKept
  <1>2. \A t \in Tasks \ Early : DepsDone(t)'
    BY DEF LateIsFree, DepsDone
  <1>3. \A t \in Tasks : Ready(t) => Ready(t)'
    BY <1>1, <1>2 DEF Ready
  <1>4. tick.turn /= NoOne => tick.turn \in Tasks
    BY DEF TickSound, TickType, TasksOrNone
  <1>5. Reconciled'
    <2>1. SUFFICES ASSUME tick.at = "reconcile"
                   PROVE  /\ \A t \in Tasks : t \notin tick.left /\ t /= tick.turn => Ready(t)'
                          /\ tick.turn /= NoOne =>
                               /\ tick.to = "todo" => task'[tick.turn].status = "blocked" /\ DepsDone(tick.turn)'
                               /\ tick.to = "blocked" => task'[tick.turn].status \in {"todo", "assigned"}
                               /\ tick.to = "failed" => task'[tick.turn].status = "blocked"
      BY DEF Reconciled, DepsDone
    <2>2. \A t \in Tasks : t \notin tick.left /\ t /= tick.turn => Ready(t)'
      BY <1>3, <2>1 DEF Reconciled
    <2>3. ASSUME tick.turn /= NoOne
          PROVE  /\ tick.to = "todo" => task'[tick.turn].status = "blocked"
                 /\ tick.to = "blocked" => task'[tick.turn].status \in {"todo", "assigned"}
                 /\ tick.to = "failed" => task'[tick.turn].status = "blocked"
      BY <1>4, <2>1, <2>3 DEF Reconciled
    <2>4. ASSUME tick.turn /= NoOne, tick.to = "todo"
          PROVE  DepsDone(tick.turn)'
      <3>1. DepsDone(tick.turn)
        BY <2>1, <2>4 DEF Reconciled
      <3> QED
        BY <1>1, <1>4, <2>4, <3>1 DEF DepsDone
    <2> QED
      BY <2>2, <2>3, <2>4
  <1>6. Drained'
    BY <1>3 DEF Drained
  <1>7. \A t \in Tasks : Busy(t)' <=> Busy(t)
    BY DEF Busy
  <1>8. Settled'
    BY <1>1, <1>7, ConstantsAssumption DEF Settled
  <1> QED
    BY <1>5, <1>6, <1>8

\* The tick dispatches: only rows that are being dispatched are written.
LEMMA OrderedDispatching ==
    ASSUME Settled, tick.at \in {"assign", "wait"}, tick'.at \in {"assign", "wait"},
           \A u \in Tasks : Busy(u)' => Busy(u),
           \A u \in Tasks : Busy(u) \/ task'[u] = task[u]
    PROVE  Reconciled' /\ Drained' /\ Settled'
  <1>1. Reconciled' /\ Drained'
    BY DEF Reconciled, Drained
  <1>2. ASSUME NEW t \in Tasks, Busy(t)'
        PROVE  DepsDone(t)' /\ \A d \in DependsOn[t] : ~Busy(d)'
    <2>1. DepsDone(t) /\ \A d \in DependsOn[t] : d \in Tasks /\ ~Busy(d)
      BY <1>2, ConstantsAssumption DEF Settled
    <2> QED
      BY <2>1 DEF DepsDone
  <1> QED
    BY <1>1, <1>2 DEF Settled

LEMMA OrderedElsewhere ==
    ASSUME tick'.at \in Passes \cup {"idle", "abort"}
    PROVE  Reconciled' /\ Drained' /\ Settled'
BY DEF Reconciled, Drained, Settled, Passes

LEMMA OrderedNextPass ==
    ASSUME Base, LateIsFree, EarlyThere, Reconciled, NextPass
    PROVE  Reconciled' /\ Drained' /\ Settled'
  <1>0. tick \in TickType /\ UNCHANGED <<task, thread>>
    BY DEF Base, Typed, TickSound, NextPass
  <1>1. /\ tick.at \in {"stale", "tooling", "review", "reconcile"} /\ tick.left = {} /\ tick.turn = NoOne
        /\ tick'.at = Following[tick.at] /\ tick'.turn = NoOne
        /\ tick'.left = Due(Following[tick.at], tick.snap)
    BY <1>0 DEF NextPass, TickType, Following
  <1>2. CASE tick.at \in {"stale", "tooling"}
    <2>1. tick'.at \in Passes
      BY <1>1, <1>2 DEF Following, Passes
    <2> QED
      BY <2>1, OrderedElsewhere
  <1>3. CASE tick.at = "review"
    <2>1. tick'.at = "reconcile" /\ tick'.left = Due("reconcile", tick.snap)
      BY <1>1, <1>3 DEF Following
    <2>2. \A t \in Tasks : t \notin tick'.left => t \notin Early
      BY <1>3, <2>1 DEF Due, EarlyThere, Passes
    <2>3. \A t \in Tasks : t \notin tick'.left => Ready(t)'
      BY <2>2 DEF LateIsFree, Ready, DepsDone
    <2> QED
      BY <1>1, <2>1, <2>3 DEF Reconciled, Drained, Settled
  <1>4. CASE tick.at = "reconcile"
    <2>1. tick'.at = "queue"
      BY <1>1, <1>4 DEF Following
    <2>2. \A t \in Tasks : Ready(t)
      BY <1>1, <1>4, ConstantsAssumption DEF Reconciled
    <2>3. \A t \in Tasks : Ready(t)'
      BY <1>0, <2>2 DEF Ready, DepsDone
    <2> QED
      BY <2>1, <2>3 DEF Reconciled, Drained, Settled
  <1> QED
    BY <1>1, <1>2, <1>3, <1>4

LEMMA OrderedReconcile ==
    ASSUME Base, Reconciled, NEW t \in Tasks, Reconcile(t)
    PROVE  Reconciled' /\ Drained' /\ Settled'
  <1>0. tick \in TickType /\ UNCHANGED <<task, thread>>
    BY DEF Base, Typed, TickSound, Reconcile
  <1>1. PICK v \in Verdicts : v = Verdict(t)
    BY DEF Verdict, Verdicts
  <1>2. /\ tick.at = "reconcile" /\ tick.turn = NoOne /\ t \in tick.left
        /\ tick'.at = "reconcile" /\ tick'.left = tick.left \ {t}
        /\ tick'.turn = (IF v = "none" THEN NoOne ELSE t) /\ tick'.to = v
    BY <1>0, <1>1 DEF Reconcile, TickType
  <1>3. \A u \in Tasks : Ready(u)' <=> Ready(u)
    BY <1>0 DEF Ready, DepsDone
  <1>4. /\ v = "none" => Ready(t)
        /\ v = "todo" => task[t].status = "blocked" /\ DepsDone(t)
        /\ v = "blocked" => task[t].status \in {"todo", "assigned"}
        /\ v = "failed" => task[t].status = "blocked"
    BY <1>1 DEF Verdict, Ready
  <1>5. \A u \in Tasks : u \notin tick'.left /\ u /= tick'.turn => Ready(u)'
    BY <1>2, <1>3, <1>4, ConstantsAssumption DEF Reconciled
  <1>6. ASSUME tick'.turn /= NoOne
        PROVE  /\ tick'.turn = t
               /\ tick'.to = "todo" => task'[t].status = "blocked" /\ DepsDone(t)'
               /\ tick'.to = "blocked" => task'[t].status \in {"todo", "assigned"}
               /\ tick'.to = "failed" => task'[t].status = "blocked"
    BY <1>0, <1>2, <1>4, <1>6 DEF DepsDone
  <1> QED
    BY <1>2, <1>5, <1>6 DEF Reconciled, Drained, Settled, DepsDone

\* The write of a verdict is never refused: nothing has written the row since
\* the verdict was read.
LEMMA VerdictWritten ==
    ASSUME Base, Reconciled, ApplyVerdict
    PROVE  /\ tick.turn \in Tasks
           /\ task'[tick.turn].status = tick.to
           /\ \A u \in Tasks \ {tick.turn} : task'[u] = task[u]
           /\ tick.to \in {"todo", "blocked", "failed"}
  <1> DEFINE t == tick.turn  row == [task[t] EXCEPT !.status = tick.to]
  <1>1. t \in Tasks /\ tick.to \in {"todo", "blocked", "failed"} /\ tick.at = "reconcile" /\ t /= NoOne
    BY DEF ApplyVerdict, Base, Typed, TickSound, TickType, TasksOrNone, Verdicts
  <1>2. task \in [Tasks -> RowType] /\ task[t] \in RowType
    BY <1>1 DEF Base, Typed, Snaps
  <1>3. row.status = tick.to
    BY <1>2 DEF RowType
  <1>4. Permits(task[t].status, tick.to)
    BY <1>1 DEF Reconciled, Permits, Active
  <1>5. task' = [task EXCEPT ![t] = [row EXCEPT !.age = 0]]
    BY <1>3, <1>4 DEF ApplyVerdict, Write, Put
  <1>6. row \in RowType
    BY <1>1, <1>2 DEF RowType, Active, Terminal
  <1>7. [row EXCEPT !.age = 0].status = tick.to
    BY <1>3, <1>6, RowYoung
  <1> QED
    BY <1>1, <1>2, <1>5, <1>7

LEMMA OrderedApply ==
    ASSUME Base, Reconciled, ApplyVerdict
    PROVE  Reconciled' /\ Drained' /\ Settled'
  <1> DEFINE t == tick.turn
  <1>0. tick \in TickType
    BY DEF Base, Typed, TickSound
  <1>1. /\ t \in Tasks /\ t /= NoOne
        /\ task'[t].status = tick.to
        /\ \A u \in Tasks \ {t} : task'[u] = task[u]
        /\ tick.to \in {"todo", "blocked", "failed"}
    BY VerdictWritten, ConstantsAssumption
  <1>2. tick.at = "reconcile" /\ tick'.at = "reconcile" /\ tick'.left = tick.left /\ tick'.turn = NoOne
    BY <1>0 DEF ApplyVerdict, TickType
  <1>3. /\ tick.to = "todo" => task[t].status = "blocked" /\ DepsDone(t)
        /\ task[t].status /= "completed"
    BY <1>1, <1>2 DEF Reconciled
  <1>4. \A u \in Tasks : DepsDone(u) => DepsDone(u)'
    BY <1>1, <1>3, DoneKept
  <1>5. ASSUME NEW u \in Tasks, u \notin tick.left
        PROVE  Ready(u)'
    <2>1. CASE u = t
      BY <1>1, <1>3, <1>4, <2>1 DEF Ready
    <2>2. CASE u /= t
      <3>1. Ready(u) /\ task'[u] = task[u]
        BY <1>1, <1>2, <1>5, <2>2 DEF Reconciled
      <3> QED
        BY <1>4, <3>1 DEF Ready
    <2> QED
      BY <2>1, <2>2
  <1> QED
    BY <1>2, <1>5 DEF Reconciled, Drained, Settled

LEMMA OrderedQueue ==
    ASSUME Base, Awaited, aborts = 0, Drained, Queue
    PROVE  Reconciled' /\ Drained' /\ Settled'
  <1>0. tick \in TickType /\ UNCHANGED <<task, thread>>
    BY DEF Base, Typed, TickSound, Queue
  <1>1. CASE tick' = NoTick
    BY <1>1, FirstRows, OrderedElsewhere
  <1>2. ASSUME NEW chosen \in SUBSET Queued,
               tick' = [tick EXCEPT !.at = "assign", !.snap = task, !.left = chosen]
        PROVE  Reconciled' /\ Drained' /\ Settled'
    <2>1. tick'.at = "assign" /\ tick'.left = chosen /\ tick.at = "queue"
      BY <1>0, <1>2 DEF TickType, Queue
    <2>2. \A th \in Threads : thread[th].t \notin Tasks
      <3>1. \A th \in Threads : Sound(thread[th]) /\ thread[th].at = "idle"
        BY <2>1 DEF Awaited, Base, Typed
      <3> QED
        BY <3>1, ConstantsAssumption DEF Sound
    <2>3. \A t \in Tasks : Busy(t)' <=> t \in chosen
      BY <1>0, <2>1, <2>2 DEF Busy
    <2>4. \A t \in chosen : t \in Tasks /\ task[t].status \in {"todo", "assigned"}
      BY DEF Queued
    <2>5. \A t \in chosen : DepsDone(t)
      BY <2>1, <2>4 DEF Drained, Ready
    <2>6. ASSUME NEW t \in chosen, NEW d \in DependsOn[t]
          PROVE  d \in Tasks /\ d \notin chosen
      <3>1. task[d].status = "completed" /\ d \in Tasks
        BY <2>4, <2>5, ConstantsAssumption DEF DepsDone
      <3> QED
        BY <3>1, <2>4
    <2>7. Settled'
      BY <1>0, <2>3, <2>5, <2>6 DEF Settled, DepsDone
    <2> QED
      BY <2>1, <2>7 DEF Reconciled, Drained
  <1> QED
    BY <1>1, <1>2 DEF Queue

LEMMA OrderedDispatch ==
    ASSUME Base, Settled, tick.at \in {"assign", "wait"}, NEW th \in Threads, Dispatch(th)
    PROVE  Reconciled' /\ Drained' /\ Settled'
  <1>0. thread \in [Threads -> ThreadType] /\ task \in [Tasks -> RowType]
    BY DEF Base, Typed, Snaps
  <1>1. ThreadStep(th) /\ UNCHANGED tick
    BY DispatchSteps DEF Base
  <1>2. thread[th].t \in Tasks
    BY <1>1, AtWork DEF ThreadStep, Base
  <1>3. \A u \in Tasks : u = thread[th].t \/ task'[u] = task[u]
    BY <1>0, <1>1, <1>2 DEF ThreadStep
  <1>4. PICK k \in ThreadType : /\ thread' = [thread EXCEPT ![th] = k]
                                /\ k.t \in {thread[th].t, NoOne}
    BY <1>1 DEF ThreadStep, Continues
  <1>5. \A g \in Threads : thread'[g].t \in {thread[g].t, NoOne}
    BY <1>0, <1>4
  <1>6. \A u \in Tasks : Busy(u)' => Busy(u)
    BY <1>1, <1>5, ConstantsAssumption DEF Busy
  <1>7. \A u \in Tasks : Busy(u) \/ task'[u] = task[u]
    BY <1>3 DEF Busy
  <1> QED
    BY <1>1, <1>6, <1>7, OrderedDispatching

LEMMA OrderedAssign ==
    ASSUME Base, Settled, NEW t \in Tasks,
           NoWorker(t) \/ \E th \in Threads, a \in Online : Launch(t, th, a)
    PROVE  Reconciled' /\ Drained' /\ Settled'
  <1>0. tick \in TickType /\ thread \in [Threads -> ThreadType] /\ task \in [Tasks -> RowType]
    BY DEF Base, Typed, TickSound, Snaps
  <1>1. tick.at = "assign" /\ tick'.at = "assign" /\ t \in tick.left /\ tick'.left = tick.left \ {t}
    BY <1>0 DEF NoWorker, Launch, TickType
  <1>2. CASE NoWorker(t)
    <2>1. Rewrites(t) /\ UNCHANGED thread
      BY <1>2, TickRewrites DEF NoWorker
    <2>2. \A u \in Tasks : Busy(u) \/ task'[u] = task[u]
      BY <1>0, <1>1, <2>1 DEF Rewrites, Busy
    <2>3. \A u \in Tasks : Busy(u)' => Busy(u)
      BY <1>1, <2>1 DEF Busy
    <2> QED
      BY <1>1, <2>2, <2>3, OrderedDispatching
  <1>3. ASSUME NEW th \in Threads, NEW a \in Online, Launch(t, th, a)
        PROVE  Reconciled' /\ Drained' /\ Settled'
    <2>1. PICK k \in ThreadType : k.t = t /\ thread' = [thread EXCEPT ![th] = k]
      BY <1>3, LaunchTyped
    <2>2. UNCHANGED task
      BY <1>3 DEF Launch
    <2>3. \A g \in Threads : thread'[g].t \in {thread[g].t, t}
      BY <1>0, <2>1
    <2>4. \A u \in Tasks : Busy(u)' => Busy(u)
      BY <1>1, <2>3 DEF Busy
    <2> QED
      BY <1>1, <2>2, <2>4, OrderedDispatching
  <1> QED
    BY <1>2, <1>3

LEMMA OrderedTick ==
    ASSUME Base, Awaited, EarlyThere, LateIsFree, aborts = 0, Reconciled, Drained, Settled, Tick
    PROVE  Reconciled' /\ Drained' /\ Settled'
  <1>0. tick \in TickType
    BY DEF Base, Typed, TickSound
  <1>1. CASE StartTick
    <2>1. tick'.at = "stale"
      BY <1>1, FirstRows DEF StartTick, TickType
    <2> QED
      BY <2>1, OrderedElsewhere DEF Passes
  <1>2. CASE NextPass
    BY <1>2, OrderedNextPass
  <1>3. CASE ApplyVerdict
    BY <1>3, OrderedApply
  <1>4. CASE Queue
    BY <1>4, OrderedQueue
  <1>5. CASE Launched
    <2>1. /\ tick.at = "assign" /\ tick'.at = "wait" /\ tick'.left = tick.left
          /\ UNCHANGED <<task, thread>>
      BY <1>0, <1>5 DEF Launched, TickType
    <2>2. \A u \in Tasks : Busy(u)' => Busy(u)
      BY <2>1 DEF Busy
    <2> QED
      BY <2>1, <2>2, OrderedDispatching
  <1>6. CASE EndTick
    BY <1>6, FirstRows, OrderedElsewhere DEF EndTick
  <1>7. ASSUME NEW t \in Tasks, Recover(t)
        PROVE  Reconciled' /\ Drained' /\ Settled'
    <2>1. tick'.at \in Passes
      BY <1>0, <1>7 DEF Recover, TickType, Passes
    <2> QED
      BY <2>1, OrderedElsewhere
  <1>8. ASSUME NEW t \in Tasks, Reconcile(t)
        PROVE  Reconciled' /\ Drained' /\ Settled'
    BY <1>8, OrderedReconcile
  <1>9. ASSUME NEW t \in Tasks, NoWorker(t) \/ \E th \in Threads, a \in Online : Launch(t, th, a)
        PROVE  Reconciled' /\ Drained' /\ Settled'
    BY <1>9, OrderedAssign
  <1>10. ASSUME NEW job \in tick.mine, Abort(job)
         PROVE  FALSE
    BY <1>10 DEF Abort, Awaited
  <1> QED
    BY <1>1, <1>2, <1>3, <1>4, <1>5, <1>6, <1>7, <1>8, <1>9, <1>10 DEF Tick

LEMMA ClockKeepsStatus ==
    ASSUME Base, Clock
    PROVE  /\ UNCHANGED <<tick, thread>>
           /\ \A u \in Tasks : task'[u].status = task[u].status
  <1>0. task \in [Tasks -> RowType]
    BY DEF Base, Typed, Snaps
  <1>1. ASSUME NEW t \in Tasks, Age(t) \/ HoldEnds(t)
        PROVE  \A u \in Tasks : task'[u].status = task[u].status
    <2>1. CASE Age(t)
      <3>1. PICK n : n = task[t].age + 1
        OBVIOUS
      <3>2. task' = [task EXCEPT ![t] = [task[t] EXCEPT !.age = n]]
        BY <1>0, <2>1, <3>1 DEF Age
      <3> QED
        BY <1>0, <3>2 DEF RowType
    <2>2. CASE HoldEnds(t)
      <3>1. task' = [task EXCEPT ![t] = [task[t] EXCEPT !.hold = FALSE]]
        BY <1>0, <2>2 DEF HoldEnds
      <3> QED
        BY <1>0, <3>1 DEF RowType
    <2> QED
      BY <1>1, <2>1, <2>2
  <1> QED
    BY <1>1 DEF Clock, Age, HoldEnds

LEMMA OrderedStep ==
    ASSUME Base, Awaited, EarlyThere, LateIsFree, Ordered, Next
    PROVE  Ordered'
  <1>1. Worked'
    BY WorkedStep DEF Ordered
  <1>2. SUFFICES ASSUME Quiet'
                 PROVE  Reconciled' /\ Drained' /\ Settled'
    BY <1>1 DEF Ordered
  <1>3. /\ claims = 0 /\ operations = 0 /\ aborts = 0
        /\ claims' = 0 /\ operations' = 0 /\ aborts' = 0
    BY <1>2, Counters DEF Quiet, Base, Typed
  <1>4. Reconciled /\ Drained /\ Settled /\ TickSound(tick)
    BY <1>3 DEF Ordered, Quiet, Base, Typed
  <1>5. CASE Tick
    BY <1>3, <1>4, <1>5, OrderedTick
  <1>6. ASSUME NEW th \in Threads, Dispatch(th)
        PROVE  Reconciled' /\ Drained' /\ Settled'
    <2>1. thread[th].at /= "idle"
      BY <1>6, DispatchSteps DEF ThreadStep, Base
    <2>2. tick.at \in {"assign", "wait"}
      BY <1>3, <2>1 DEF Awaited
    <2> QED
      BY <1>4, <1>6, <2>2, OrderedDispatch
  <1>7. ASSUME NEW t \in Tasks, Create(t)
        PROVE  Reconciled' /\ Drained' /\ Settled'
    <2>1. task \in [Tasks -> RowType]
      BY DEF Base, Typed, Snaps
    <2>2. t \notin Early /\ task[t].status = "absent"
      BY <1>7 DEF Create, EarlyThere, Exists
    <2>3. UNCHANGED <<tick, thread>> /\ \A u \in Tasks \ {t} : task'[u] = task[u]
      BY <1>7, <2>1 DEF Create
    <2> QED
      BY <1>4, <2>2, <2>3, OrderedCalm
  <1>8. CASE Clock
    BY <1>4, <1>8, ClockKeepsStatus, OrderedCalm
  <1>9. ASSUME NEW a \in Agents, NEW t \in Tasks, LeaseExpires(a, t)
        PROVE  Reconciled' /\ Drained' /\ Settled'
    BY <1>4, <1>9, OrderedCalm DEF LeaseExpires
  <1>10. CASE RefuseTick
    BY <1>4, <1>10, OrderedCalm DEF RefuseTick
  <1>11. CASE Crash
    BY <1>11, FirstRows, OrderedElsewhere DEF Crash
  <1>12. ~ (\E a \in Agents, t \in Tasks : Claim(a, t))
    BY <1>3 DEF Claim
  <1>13. ~ (\E action \in Interventions, t \in Tasks : Intervene(action, t))
    BY <1>3 DEF Intervene
  <1>14. ~ Stop /\ ~ GiveUp
    BY <1>3 DEF Stop, GiveUp, Awaited
  <1>15. ~ (\E a \in Agents, status \in {"completed", "unverified"} : Complete(a, status))
    BY <1>3 DEF Complete, Ordered, Worked
  <1> QED
    BY <1>5, <1>6, <1>7, <1>8, <1>9, <1>10, <1>11, <1>12, <1>13, <1>14, <1>15 DEF Next

All == Base /\ Awaited /\ EarlyThere /\ Ordered

\* reconcile_dependencies and the dispatch queue: a dispatch thread executes a
\* task only while every dependency of it is completed, over any number of
\* ticks, faults and crashes, as long as nobody intervenes and no tick is given
\* up, and every task with a dependency is there from the start.
THEOREM DependentsAreHeld ==
    ASSUME LateIsFree
    PROVE  Spec => []DispatchedDependentsWait
  <1>1. Init => All
    <2> SUFFICES ASSUME Init PROVE All
      OBVIOUS
    <2>1. Base /\ Awaited
      BY HeldInit DEF Held
    <2>2. EarlyThere
      BY FirstRows, ConstantsAssumption DEF Init, EarlyThere, Passes
    <2>3. Ordered
      BY FirstRows DEF Init, Ordered, Worked, Reconciled, Drained, Settled
    <2> QED
      BY <2>1, <2>2, <2>3 DEF All
  <1>2. All /\ [Next]_vars => All'
    <2>1. ASSUME All, Next
          PROVE  All'
      BY <2>1, BaseStep, AwaitedStep, EarlyStep, OrderedStep DEF All
    <2>2. ASSUME All, UNCHANGED vars
          PROVE  All'
      <3>1. UNCHANGED <<task, lease, work, tick, thread, stop, claims, operations, aborts>>
        BY <2>2 DEF vars, api, bounds
      <3>2. Base' /\ Awaited'
        BY <2>2, HeldStep DEF All, Held
      <3>3. EarlyThere' /\ Worked'
        BY <2>2, <3>1 DEF All, Ordered, EarlyThere, Worked
      <3>4. (Quiet => Reconciled /\ Drained /\ Settled)'
        BY <2>2, <3>1 DEF All, Ordered, Quiet, Reconciled, Drained, Settled, Busy, Ready, DepsDone
      <3> QED
        BY <3>2, <3>3, <3>4 DEF All, Ordered
    <2> QED
      BY <2>1, <2>2
  <1>3. All => DispatchedDependentsWait
    <2> SUFFICES ASSUME All, claims = 0, operations = 0, aborts = 0, NEW t \in Tasks,
                        \/ \E th \in Threads : thread[th].at = "running" /\ thread[th].t = t
                        \/ \E a \in Agents : work[a] = t,
                        NEW d \in DependsOn[t]
                 PROVE  task[d].status = "completed"
      BY DEF DispatchedDependentsWait, DependentsWait
    <2>1. \A a \in Agents : work[a] /= t
      BY ConstantsAssumption DEF All, Ordered, Worked
    <2>2. PICK th \in Threads : thread[th].at = "running" /\ thread[th].t = t
      BY <2>1
    <2>3. tick.at \in {"assign", "wait"}
      BY <2>2 DEF All, Awaited
    <2>4. Busy(t)
      BY <2>2 DEF Busy
    <2>5. DepsDone(t)
      BY <2>3, <2>4 DEF All, Ordered, Quiet, Settled
    <2> QED
      BY <2>5 DEF DepsDone
  <1> QED
    BY <1>1, <1>2, <1>3, PTL DEF Spec

=============================================================================
