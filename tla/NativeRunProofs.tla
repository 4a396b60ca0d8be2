-------------------------- MODULE NativeRunProofs --------------------------
(***************************************************************************)
(* Proofs about NativeRun, for every plan, every number of Hub threads and  *)
(* every bound: no update of a run is lost, a command takes effect once, a  *)
(* completed run is left alone, task, ownership and event log agree, a      *)
(* merge completes only over complete branches, a checkpoint is what        *)
(* replaying the event log gives, the delegations stay within the slots,    *)
(* and what an ended run knows of is fenced.                                *)
(***************************************************************************)
EXTENDS NativeRun, FiniteSetTheorems, WellFoundedInduction, TLAPS

-----------------------------------------------------------------------------
(* The invariant. *)

\* Merges among the completed nodes saw complete branches, and only task
\* nodes are delegated.
SoundState(st) ==
    /\ \A n \in st.completed : Kind[n] = "merge" => Merges(n, st)
    /\ \A n \in Nodes : st.running[n] # 0 => Kind[n] = "task"

\* What a thread may rely on in its own memory.
SoundMemory(r) ==
    /\ SoundState(r.st)
    /\ r.pc \in {"claim", "submit"} => r.node \in Nodes /\ Kind[r.node] = "task"
    /\ r.pc = "submit" => r.token \in Attempts
    /\ r.pc = "collect" => r.todo \subseteq Running(r.st)

LocalInv ==
    /\ \A h \in Hubs : SoundMemory(hub[h])
    /\ \A i \in DOMAIN checkpoints : SoundState(checkpoints[i].state)

\* What revision i says of the log and of the last command; revision 0 is the
\* run before its first checkpoint.
SeqAt(i) == IF i = 0 THEN 0 ELSE checkpoints[i].state.seq

LastAt(i) == IF i = 0 THEN 0 ELSE checkpoints[i].state.last

\* A thread whose checkpoint event is in the log and whose checkpoint is not
\* yet stored.
Storing(h) == hub[h].pc = "store" /\ hub[h].out = <<>>

\* A thread is never ahead of the log, and one that a checkpoint has overtaken
\* is behind that checkpoint's event: it cannot append any more.
CopyBehind(h) ==
    LET r == hub[h] IN
    /\ r.base <= Revision
    /\ SeqAt(r.base) <= r.st.seq
    /\ r.st.seq <= Len(log)
    /\ \A i \in DOMAIN checkpoints : r.base < i => r.st.seq < checkpoints[i].state.seq

\* A thread that has appended its checkpoint event is ahead of every other
\* thread, and nobody has saved since it loaded the run.
StoresNext(h) ==
    LET r == hub[h] IN
    /\ r.pc = "store" => r.base < r.token /\ r.token <= Revision + 1
    /\ Storing(h) =>
          /\ r.base = Revision
          /\ r.token = Revision + 1
          /\ SeqAt(r.base) < r.st.seq
          /\ \A g \in Hubs \ {h} : hub[g].st.seq < r.st.seq

\* A thread works on its command against the revision it was issued for, and
\* on no run that has completed.
CommandBound(h) ==
    LET r == hub[h] IN
    /\ r.cmd # 0 => r.cmd \in DOMAIN commands /\ commands[r.cmd].rev = r.base
    /\ r.st.last = LastAt(r.base) \/ (r.cmd # 0 /\ r.st.last = r.cmd)
    /\ r.base > 0 => checkpoints[r.base].state.status # "completed"

ChainInv ==
    /\ CheckpointChain
    /\ CommandOnce
    /\ \A i \in DOMAIN checkpoints : /\ checkpoints[i].state.seq \in 1 .. Len(log)
                                      /\ checkpoints[i].state.last \in {0} \cup DOMAIN commands
    /\ \A h \in Hubs : CopyBehind(h) /\ StoresNext(h) /\ CommandBound(h)

\* The tokens of a step are drawn one at a time, and each is submitted by the
\* thread that drew it.
TokensDrawn ==
    /\ \A n \in Nodes, a \in Attempts : task[n][a] # "absent" => a <= owner[n].token
    /\ \A h \in Hubs : hub[h].pc = "submit" =>
          /\ hub[h].token <= owner[hub[h].node].token
          /\ task[hub[h].node][hub[h].token] = "absent"
    /\ \A g, h \in Hubs : g # h /\ hub[g].pc = "submit" /\ hub[h].pc = "submit"
                             /\ hub[g].node = hub[h].node => hub[g].token # hub[h].token

\* An event that says a node completed tells what ownership o says.
Tells(o, e) == e.what = "completed" =>
                   e.node \in Nodes /\ o[e.node].status = "completed" /\ o[e.node].token = e.tag

\* Ownership, task and what is in the log or about to be appended agree.
OwnInv ==
    /\ TokensDrawn
    /\ \A n \in Nodes : owner[n].status = "completed" =>
          owner[n].token \in Attempts /\ task[n][owner[n].token] \in {"completed", "unfit"}
    /\ \A i \in DOMAIN log : Tells(owner, log[i])
    /\ \A h \in Hubs : \A i \in DOMAIN hub[h].out : Tells(owner, hub[h].out[i])

-----------------------------------------------------------------------------
(* The memory of a thread, step by step. *)

BaseInv ==
    /\ TypeOK
    /\ LocalInv
    /\ \A n \in Nodes : owner[n].token <= retries + 1

\* A step that neither loads, appends nor saves leaves alone what the chain of
\* checkpoints is about.
Keeps(r, r2) ==
    /\ r2.base = r.base
    /\ r2.cmd = r.cmd
    /\ r2.st.seq = r.st.seq
    /\ r2.st.last = r.st.last
    /\ r2.pc # "store"

Silent(r2) == \A i \in DOMAIN r2.out : r2.out[i].what # "completed"

\* Thread h goes on with r2 in memory, ...
Moves(h, r2) ==
    /\ hub' = [hub EXCEPT ![h] = r2]
    /\ r2 \in HubState
    /\ SoundMemory(r2)

\* ... has not seen more of the log than before, and says only what is so.
Works(h) ==
    \E r2 : /\ Moves(h, r2)
            /\ r2 = Idle \/ Keeps(hub[h], r2)
            /\ r2.pc # "submit"
            /\ \A i \in DOMAIN r2.out : Tells(owner', r2.out[i])

LEMMA LeastMember ==
    ASSUME NEW S \in SUBSET Nat, S # {}
    PROVE  \E x \in S : \A y \in S : x =< y
  <1>1. \E R : IsWellFoundedOn(R, Nat) /\ \A x, y \in Nat : <<y, x>> \in R <=> y < x
    <2>1. \A x, y \in Nat : <<y, x>> \in OpToRel(<, Nat) <=> y < x
      BY DEF OpToRel
    <2> QED
      BY <2>1, NatLessThanWellFounded, Zenon
  <1>2. PICK R : IsWellFoundedOn(R, Nat) /\ \A x, y \in Nat : <<y, x>> \in R <=> y < x
    BY <1>1
  <1>3. PICK x \in S : \A y \in S : ~ (<<y, x>> \in R)
    BY <1>2, WFMin
  <1>4. \A y \in S : ~ (y < x)
    BY <1>2, <1>3, Zenon
  <1>5. x \in Nat /\ \A y \in S : y \in Nat
    OBVIOUS
  <1> QED
    BY <1>4, <1>5

LEMMA MinMember == ASSUME NEW S \in SUBSET Nat, S # {} PROVE Min(S) \in S
  BY LeastMember DEF Min

\* The nodes of the plan are visited in the order of their ids.
LEMMA FirstNode == ASSUME NEW S \in SUBSET Nodes, S # {} PROVE Min(S) \in S
  <1>1. S \in SUBSET Nat
    BY PlanAssumption DEF Nodes
  <1> QED
    BY <1>1, MinMember

LEMMA NewRunOK == NewRun \in RunState /\ SoundState(NewRun)
  BY PlanAssumption DEF NewRun, RunState, SoundState, Nodes, Attempts, Ended

LEMMA IdleOK ==
    /\ Idle \in HubState
    /\ SoundMemory(Idle)
    /\ Silent(Idle)
    /\ Idle.base = 0 /\ Idle.cmd = 0 /\ Idle.st = NewRun /\ Idle.pc = "idle" /\ Idle.out = <<>>
  BY NewRunOK DEF Idle, HubState, SoundMemory, Silent

LEMMA FailRunOK ==
    ASSUME NEW r \in HubState, SoundState(r.st), NEW th \in {"save", "dispatch"}
    PROVE  /\ FailRun(r, th) \in HubState
           /\ SoundMemory(FailRun(r, th))
           /\ Keeps(r, FailRun(r, th))
           /\ FailRun(r, th).out = r.out
  BY DEF FailRun, HubState, SoundMemory, Keeps, Running

LEMMA RaiseWorks ==
    ASSUME NEW h \in Hubs, Raise(h)
    PROVE  Works(h)
  <1>1. Moves(h, Idle)
    BY IdleOK DEF Raise, Moves
  <1>2. Idle.pc # "submit" /\ Silent(Idle)
    BY IdleOK
  <1> QED
    BY <1>1, <1>2 DEF Works, Silent, Tells

LEMMA GotoWorks ==
    ASSUME NEW h \in Hubs, NEW r2 \in HubState, Goto(h, r2), SoundMemory(r2),
           Keeps(hub[h], r2), Silent(r2), r2.pc # "submit"
    PROVE  Works(h)
  <1>1. Moves(h, r2)
    BY DEF Moves, Goto
  <1> QED
    BY <1>1 DEF Works, Silent, Tells

LEMMA HubTyped ==
    ASSUME BaseInv, NEW h \in Hubs
    PROVE  hub[h] \in HubState /\ SoundMemory(hub[h]) /\ SoundState(hub[h].st)
               /\ hub[h].st \in RunState
  BY DEF BaseInv, TypeOK, LocalInv, SoundMemory, HubState

LEMMA PollWorks ==
    ASSUME BaseInv, NEW h \in Hubs, Poll(h)
    PROVE  Works(h)
  <1> DEFINE r == hub[h]
             r2 == [r EXCEPT !.pc = "collect",
                         !.todo = {n \in Running(r.st) : task[n][r.st.running[n]] \in TaskDone}]
  <1>1. r \in HubState /\ SoundMemory(r)
    BY HubTyped
  <1>2. r.out = <<>>
    BY DEF Poll, At
  <1>3. r2.todo \subseteq Running(r.st) /\ r2.st = r.st /\ r2.pc = "collect"
    BY <1>1 DEF HubState
  <1>4. r2 \in HubState
    BY <1>1 DEF HubState, Running
  <1>5. SoundMemory(r2)
    BY <1>1, <1>3 DEF SoundMemory
  <1>6. Keeps(r, r2) /\ Silent(r2)
    BY <1>1, <1>2 DEF Keeps, Silent, HubState
  <1>7. Goto(h, r2)
    BY DEF Poll
  <1> HIDE DEF r2
  <1> QED
    BY <1>3, <1>4, <1>5, <1>6, <1>7, GotoWorks

\* Changes of the copy that touch neither the completed nor the delegations.
LEMMA SameNodesOK ==
    ASSUME NEW st \in RunState, SoundState(st), NEW st2 \in RunState,
           st2.completed = st.completed, st2.running = st.running
    PROVE  SoundState(st2) /\ Running(st2) = Running(st)
  BY DEF SoundState, Merges, Running

\* A result is taken out of the delegations of the copy, ...
LEMMA CollectedOK ==
    ASSUME NEW st \in RunState, SoundState(st), NEW n \in Nodes, NEW st2, st2 = Collected(st, n)
    PROVE  /\ st2 \in RunState
           /\ SoundState(st2)
           /\ st2.seq = st.seq /\ st2.last = st.last /\ st2.completed = st.completed
           /\ Running(st2) = Running(st) \ {n}
  <1> DEFINE run2 == [st.running EXCEPT ![n] = 0]
  <1>0. st2 = [st EXCEPT !.running = run2]
    BY DEF Collected
  <1>1. st.running \in [Nodes -> {0} \cup Attempts]
    BY DEF RunState
  <1>2. /\ run2 \in [Nodes -> {0} \cup Attempts]
        /\ \A m \in Nodes : run2[m] = IF m = n THEN 0 ELSE st.running[m]
    BY <1>1
  <1> HIDE DEF run2
  <1>3. st2 \in RunState /\ st2.running = run2 /\ st2.seq = st.seq /\ st2.last = st.last
            /\ st2.completed = st.completed
    BY <1>0, <1>2 DEF RunState
  <1>4. SoundState(st2)
    BY <1>2, <1>3 DEF SoundState, Merges
  <1>5. Running(st2) = Running(st) \ {n}
    BY <1>2, <1>3 DEF Running
  <1> QED
    BY <1>3, <1>4, <1>5

\* ... a task is entered into them, ...
LEMMA DelegatedOK ==
    ASSUME NEW st \in RunState, SoundState(st), NEW n \in Nodes, Kind[n] = "task",
           NEW a \in Attempts, NEW st2, st2 = Delegated(st, n, a)
    PROVE  st2 \in RunState /\ SoundState(st2) /\ st2.seq = st.seq /\ st2.last = st.last
  <1> DEFINE run2 == [st.running EXCEPT ![n] = a]
  <1>0. st2 = [st EXCEPT !.running = run2]
    BY DEF Delegated
  <1>1. st.running \in [Nodes -> {0} \cup Attempts]
    BY DEF RunState
  <1>2. /\ run2 \in [Nodes -> {0} \cup Attempts]
        /\ \A m \in Nodes : run2[m] = IF m = n THEN a ELSE st.running[m]
    BY <1>1
  <1> HIDE DEF run2
  <1>3. st2 \in RunState /\ st2.running = run2 /\ st2.seq = st.seq /\ st2.last = st.last
            /\ st2.completed = st.completed
    BY <1>0, <1>2 DEF RunState
  <1> QED
    BY <1>2, <1>3 DEF SoundState, Merges

\* ... all of them are given up, ...
LEMMA StopsOK ==
    ASSUME NEW st \in RunState, SoundState(st), NEW status \in {"failed", "cancelled"},
           NEW st2, st2 = Stops(st, status)
    PROVE  st2 \in RunState /\ SoundState(st2) /\ st2.seq = st.seq /\ st2.last = st.last
  <1> DEFINE none == [n \in Nodes |-> 0]
  <1>1. none \in [Nodes -> {0} \cup Attempts] /\ \A n \in Nodes : none[n] = 0
    OBVIOUS
  <1>2. st2 = [st EXCEPT !.running = none, !.status = status]
    BY DEF Stops
  <1> HIDE DEF none
  <1>3. st2 \in RunState /\ st2.running = none /\ st2.seq = st.seq /\ st2.last = st.last
            /\ st2.completed = st.completed
    BY <1>1, <1>2 DEF RunState, Ended
  <1> QED
    BY <1>1, <1>3 DEF SoundState, Merges

\* ... a node is claimed once more, ...
LEMMA AttemptedOK ==
    ASSUME NEW st \in RunState, SoundState(st), NEW n \in Nodes, NEW st2, st2 = Attempted(st, n)
    PROVE  st2 \in RunState /\ SoundState(st2) /\ st2.seq = st.seq /\ st2.last = st.last
  <1>1. PICK k \in Nat : k = st.attempts[n] + 1
    BY DEF RunState
  <1>2. PICK more : more = [st.attempts EXCEPT ![n] = k]
    OBVIOUS
  <1>3. more \in [Nodes -> Nat]
    BY <1>2 DEF RunState
  <1>4. st2 = [st EXCEPT !.attempts = more]
    BY <1>1, <1>2 DEF Attempted
  <1>5. st2 \in RunState /\ st2.running = st.running /\ st2.seq = st.seq /\ st2.last = st.last
            /\ st2.completed = st.completed
    BY <1>3, <1>4 DEF RunState
  <1> QED
    BY <1>5, SameNodesOK

\* ... a node that is no merge, or a merge that may complete, is completed, ...
LEMMA CompletesOK ==
    ASSUME NEW st \in RunState, SoundState(st), NEW n \in Nodes,
           Kind[n] = "merge" => Merges(n, st),
           NEW st2, st2 = Completes(st, n)
    PROVE  /\ st2 \in RunState
           /\ SoundState(st2)
           /\ st2.seq = st.seq /\ st2.last = st.last /\ st2.running = st.running
           /\ Running(st2) = Running(st)
  <1>1. st2 \in RunState /\ st2.seq = st.seq /\ st2.last = st.last /\ st2.running = st.running
            /\ st2.completed = st.completed \cup {n}
    BY DEF RunState, Completes
  <1>2. \A m \in st.completed \cup {n} : Kind[m] = "merge" => Merges(m, st)
    BY DEF SoundState
  <1>3. \A m : Merges(m, st) => Merges(m, st2)
    BY <1>1 DEF Merges
  <1>4. SoundState(st2)
    BY <1>1, <1>2, <1>3 DEF SoundState
  <1> QED
    BY <1>1, <1>4 DEF Running

\* ... or a node is skipped, fails or waits at its gate.
LEMMA OtherwiseOK ==
    ASSUME NEW st \in RunState, SoundState(st), NEW n \in Nodes,
           NEW status \in {"paused", "waiting_for_approval"},
           NEW st2, st2 \in {Skips(st, n), Fails(st, n), Opens(st, n, status)}
    PROVE  /\ st2 \in RunState
           /\ SoundState(st2)
           /\ st2.seq = st.seq /\ st2.last = st.last
           /\ Running(st2) = Running(st)
  <1>1. /\ st2 \in RunState /\ st2.seq = st.seq /\ st2.last = st.last
        /\ st2.running = st.running /\ st2.completed = st.completed
    <2>1. CASE st2 = Skips(st, n)
      BY <2>1 DEF RunState, Skips
    <2>2. CASE st2 = Fails(st, n)
      BY <2>2 DEF RunState, Fails
    <2>3. CASE st2 = Opens(st, n, status)
      BY <2>3 DEF RunState, Opens
    <2> QED
      BY <2>1, <2>2, <2>3
  <1> QED
    BY <1>1, SameNodesOK

LEMMA OneEvent ==
    ASSUME NEW e \in EventRow
    PROVE  <<e>> \in Seq(EventRow) /\ \A i \in DOMAIN <<e>> : <<e>>[i] = e
  OBVIOUS

\* An ownership row is closed or fenced.
LEMMA OwnerSet ==
    ASSUME owner \in [Nodes -> OwnerRow], NEW n \in Nodes, NEW s \in {"completed", "failed"},
           NEW o2, o2 = [owner EXCEPT ![n] = [@ EXCEPT !.status = s, !.live = FALSE]]
    PROVE  /\ o2 \in [Nodes -> OwnerRow]
           /\ o2[n].status = s /\ o2[n].token = owner[n].token
           /\ \A m \in Nodes : m # n => o2[m] = owner[m]
  <1>1. PICK row : row = [owner[n] EXCEPT !.status = s, !.live = FALSE]
    OBVIOUS
  <1>2. row \in OwnerRow /\ row.status = s /\ row.token = owner[n].token
    BY <1>1 DEF OwnerRow
  <1>3. o2 = [owner EXCEPT ![n] = row]
    BY <1>1, Zenon
  <1> QED
    BY <1>2, <1>3

\* A completion says its node and attempt; the ledger's record says nothing more.
LEMMA CompletionTells ==
    ASSUME NEW n \in Nodes, NEW a \in Nat
    PROVE  /\ CompletionEvents(n, a) \in Seq(EventRow)
           /\ \A i \in DOMAIN CompletionEvents(n, a) :
                 LET e == CompletionEvents(n, a)[i] IN
                 e.what = "completed" => e.node = n /\ e.tag = a
  <1> DEFINE e == Event("completed", n, a)
             f == Event("side_effect", n, a)
  <1>1. e \in EventRow /\ e.node = n /\ e.tag = a /\ f \in EventRow /\ f.what = "side_effect"
    BY DEF Event, EventRow, EventKinds
  <1>2. CompletionEvents(n, a) = <<e>> \/ CompletionEvents(n, a) = <<e, f>>
    BY DEF CompletionEvents
  <1> HIDE DEF e, f
  <1>3. CASE CompletionEvents(n, a) = <<e>>
    BY <1>1, <1>3
  <1>4. CASE CompletionEvents(n, a) = <<e, f>>
    BY <1>1, <1>4
  <1> QED
    BY <1>2, <1>3, <1>4

LEMMA CollectCompletedWorks ==
    ASSUME BaseInv, NEW h \in Hubs, CollectCompleted(h)
    PROVE  Works(h)
  <1>1. hub[h] \in HubState /\ SoundMemory(hub[h]) /\ SoundState(hub[h].st)
            /\ hub[h].st \in RunState
    BY HubTyped
  <1>2. hub[h].pc = "collect" /\ hub[h].out = <<>> /\ hub[h].todo # {}
    BY DEF CollectCompleted, At
  <1>3. hub[h].todo \in SUBSET Nodes /\ hub[h].todo \subseteq Running(hub[h].st)
    BY <1>1, <1>2 DEF HubState, SoundMemory
  <1> DEFINE n == Min(hub[h].todo)
             a == hub[h].st.running[n]
             st1 == Collected(hub[h].st, n)
             st2 == Completes(st1, n)
             out == CompletionEvents(n, a)
             r2 == [hub[h] EXCEPT !.todo = @ \ {n}, !.st = st2, !.out = out]
  <1>4. \/ Raise(h)
        \/ /\ Goto(h, r2)
           /\ Acknowledges(n, a)
           /\ owner' = [owner EXCEPT ![n] = [@ EXCEPT !.status = "completed", !.live = FALSE]]
    BY DEF CollectCompleted
  <1>5. n \in hub[h].todo /\ n \in Nodes /\ n \in Running(hub[h].st)
    BY <1>2, <1>3, FirstNode
  <1> HIDE DEF n
  <1>6. a \in Attempts /\ a \in Nat /\ Kind[n] = "task"
    BY <1>1, <1>5, PlanAssumption DEF Running, RunState, SoundState, Attempts
  <1> HIDE DEF a
  <1>7. /\ st1 \in RunState /\ SoundState(st1)
        /\ st1.seq = hub[h].st.seq /\ st1.last = hub[h].st.last
        /\ Running(st1) = Running(hub[h].st) \ {n}
    BY <1>1, <1>5, CollectedOK
  <1> HIDE DEF st1
  <1>8. /\ st2 \in RunState /\ SoundState(st2)
        /\ st2.seq = st1.seq /\ st2.last = st1.last /\ Running(st2) = Running(st1)
    BY <1>5, <1>6, <1>7, CompletesOK
  <1> HIDE DEF st2
  <1>9. /\ out \in Seq(EventRow)
        /\ \A i \in DOMAIN out : out[i].what = "completed" => out[i].node = n /\ out[i].tag = a
    BY <1>5, <1>6, CompletionTells
  <1> HIDE DEF out
  <1>10. /\ r2 \in HubState
         /\ r2.st = st2 /\ r2.pc = hub[h].pc /\ r2.out = out /\ r2.todo = hub[h].todo \ {n}
         /\ r2.base = hub[h].base /\ r2.cmd = hub[h].cmd
    BY <1>1, <1>8, <1>9 DEF HubState
  <1> HIDE DEF r2
  <1>11. SoundMemory(r2) /\ Keeps(hub[h], r2)
    BY <1>2, <1>3, <1>7, <1>8, <1>10 DEF SoundMemory, Keeps
  <1>12. CASE Raise(h)
    BY <1>12, RaiseWorks
  <1>13. CASE ~ Raise(h)
    <2>1. owner'[n].status = "completed" /\ owner'[n].token = a
      <3>1. owner \in [Nodes -> OwnerRow]
        BY DEF BaseInv, TypeOK
      <3>2. Acknowledges(n, a)
        BY <1>4, <1>13
      <3>3. owner[n].token = a
        BY <3>2 DEF Acknowledges, Holds
      <3> QED
        BY <3>1, <3>3, <1>4, <1>5, <1>13, OwnerSet
    <2>2. Moves(h, r2)
      BY <1>4, <1>10, <1>11, <1>13 DEF Moves, Goto
    <2>3. \A i \in DOMAIN r2.out : Tells(owner', r2.out[i])
      BY <1>5, <1>9, <1>10, <2>1 DEF Tells
    <2> QED
      BY <1>2, <1>10, <1>11, <2>2, <2>3 DEF Works
  <1> QED
    BY <1>12, <1>13

\* A thread that fails the run out of memory r goes on to cancel its tasks.
LEMMA FailWorks ==
    ASSUME NEW h \in Hubs, NEW r \in HubState, SoundState(r.st), NEW th \in {"save", "dispatch"},
           r.base = hub[h].base, r.cmd = hub[h].cmd, r.st.seq = hub[h].st.seq,
           r.st.last = hub[h].st.last, Silent(r), Goto(h, FailRun(r, th))
    PROVE  Works(h)
  <1>1. PICK f : f = FailRun(r, th)
    OBVIOUS
  <1>2. f \in HubState /\ SoundMemory(f) /\ Keeps(r, f) /\ f.out = r.out /\ f.pc = "cancel"
    <2>1. FailRun(r, th).pc = "cancel"
      BY DEF FailRun, HubState
    <2> QED
      BY <1>1, <2>1, FailRunOK
  <1>3. Keeps(hub[h], f) /\ Silent(f)
    BY <1>2 DEF Keeps, Silent
  <1> QED
    BY <1>1, <1>2, <1>3, GotoWorks

LEMMA CollectFailedWorks ==
    ASSUME BaseInv, NEW h \in Hubs, CollectFailed(h)
    PROVE  Works(h)
  <1>1. hub[h] \in HubState /\ SoundMemory(hub[h]) /\ SoundState(hub[h].st)
            /\ hub[h].st \in RunState
    BY HubTyped
  <1>2. hub[h].pc = "collect" /\ hub[h].out = <<>> /\ hub[h].todo # {}
    BY DEF CollectFailed, At
  <1>3. hub[h].todo \in SUBSET Nodes /\ hub[h].todo \subseteq Running(hub[h].st)
    BY <1>1, <1>2 DEF HubState, SoundMemory
  <1> DEFINE n == Min(hub[h].todo)
             a == hub[h].st.running[n]
             st1 == Collected(hub[h].st, n)
             st2 == Fails(st1, n)
             e1 == Event("retry", n, a)
             e2 == Event("failed", n, a)
             again == [hub[h] EXCEPT !.todo = @ \ {n}, !.st = st1, !.out = <<e1>>]
             failing == [hub[h] EXCEPT !.todo = @ \ {n}, !.st = st2, !.out = <<e2>>]
  <1>4. Raise(h) \/ Goto(h, again) \/ Goto(h, failing) \/ Goto(h, FailRun(failing, "save"))
    BY DEF CollectFailed
  <1>5. n \in hub[h].todo /\ n \in Nodes /\ n \in Running(hub[h].st)
    BY <1>2, <1>3, FirstNode
  <1> HIDE DEF n
  <1>6. a \in Nat
    BY <1>1, <1>5, PlanAssumption DEF RunState, Attempts
  <1> HIDE DEF a
  <1>7. /\ st1 \in RunState /\ SoundState(st1)
        /\ st1.seq = hub[h].st.seq /\ st1.last = hub[h].st.last
        /\ Running(st1) = Running(hub[h].st) \ {n}
    BY <1>1, <1>5, CollectedOK
  <1> HIDE DEF st1
  <1>8. /\ st2 \in RunState /\ SoundState(st2)
        /\ st2.seq = st1.seq /\ st2.last = st1.last /\ Running(st2) = Running(st1)
    BY <1>5, <1>7, OtherwiseOK
  <1> HIDE DEF st2
  <1>9. /\ e1 \in EventRow /\ e1.what # "completed"
        /\ e2 \in EventRow /\ e2.what # "completed"
    BY <1>5, <1>6 DEF Event, EventRow, EventKinds
  <1> HIDE DEF e1, e2
  <1>10. /\ <<e1>> \in Seq(EventRow) /\ \A i \in DOMAIN <<e1>> : <<e1>>[i] = e1
         /\ <<e2>> \in Seq(EventRow) /\ \A i \in DOMAIN <<e2>> : <<e2>>[i] = e2
    BY <1>9, OneEvent
  <1>11. /\ again \in HubState /\ again.st = st1 /\ again.pc = "collect" /\ again.out = <<e1>>
         /\ again.todo = hub[h].todo \ {n} /\ again.base = hub[h].base /\ again.cmd = hub[h].cmd
    BY <1>1, <1>2, <1>7, <1>10 DEF HubState
  <1>12. /\ failing \in HubState /\ failing.st = st2 /\ failing.pc = "collect"
         /\ failing.out = <<e2>> /\ failing.todo = hub[h].todo \ {n}
         /\ failing.base = hub[h].base /\ failing.cmd = hub[h].cmd
    BY <1>1, <1>2, <1>8, <1>10 DEF HubState
  <1> HIDE DEF again, failing
  <1>13. SoundMemory(again) /\ Keeps(hub[h], again) /\ Silent(again)
    BY <1>3, <1>7, <1>9, <1>10, <1>11 DEF SoundMemory, Keeps, Silent
  <1>14. SoundMemory(failing) /\ Keeps(hub[h], failing) /\ Silent(failing)
    BY <1>3, <1>7, <1>8, <1>9, <1>10, <1>12 DEF SoundMemory, Keeps, Silent
  <1>15. CASE Goto(h, FailRun(failing, "save"))
    BY <1>7, <1>8, <1>12, <1>14, <1>15, FailWorks
  <1>16. CASE Goto(h, again)
    BY <1>11, <1>13, <1>16, GotoWorks
  <1>17. CASE Goto(h, failing)
    BY <1>12, <1>14, <1>17, GotoWorks
  <1> QED
    BY <1>4, <1>15, <1>16, <1>17, RaiseWorks

LEMMA SkipWorks ==
    ASSUME BaseInv, NEW h \in Hubs, Skip(h)
    PROVE  Works(h)
  <1>1. hub[h] \in HubState /\ SoundMemory(hub[h]) /\ SoundState(hub[h].st)
            /\ hub[h].st \in RunState
    BY HubTyped
  <1>2. hub[h].pc = "collect" /\ hub[h].out = <<>> /\ hub[h].todo = {}
    BY DEF Skip, At
  <1> DEFINE n == Min(Unrouted(hub[h].st))
             st2 == Skips(hub[h].st, n)
             e == Event("skipped", n, 0)
             r2 == [hub[h] EXCEPT !.st = st2, !.out = <<e>>]
  <1>3. Goto(h, FailRun(hub[h], "save")) \/ Goto(h, r2)
    BY DEF Skip
  <1>4. n \in Nodes
    <2>1. Unrouted(hub[h].st) \in SUBSET Nodes
      BY DEF Unrouted
    <2>2. Unrouted(hub[h].st) # {}
      BY DEF Skip
    <2> QED
      BY <2>1, <2>2, FirstNode
  <1> HIDE DEF n
  <1>5. /\ st2 \in RunState /\ SoundState(st2)
        /\ st2.seq = hub[h].st.seq /\ st2.last = hub[h].st.last
    BY <1>1, <1>4, OtherwiseOK
  <1> HIDE DEF st2
  <1>6. e \in EventRow /\ e.what # "completed"
    BY <1>4 DEF Event, EventRow, EventKinds
  <1> HIDE DEF e
  <1>7. <<e>> \in Seq(EventRow) /\ \A i \in DOMAIN <<e>> : <<e>>[i] = e
    BY <1>6, OneEvent
  <1>8. /\ r2 \in HubState /\ r2.st = st2 /\ r2.pc = "collect" /\ r2.out = <<e>>
        /\ r2.todo = {} /\ r2.base = hub[h].base /\ r2.cmd = hub[h].cmd
    BY <1>1, <1>2, <1>5, <1>7 DEF HubState
  <1> HIDE DEF r2
  <1>9. SoundMemory(r2) /\ Keeps(hub[h], r2) /\ Silent(r2)
    BY <1>5, <1>6, <1>7, <1>8 DEF SoundMemory, Keeps, Silent
  <1>10. Silent(hub[h])
    BY <1>2 DEF Silent
  <1>11. CASE Goto(h, FailRun(hub[h], "save"))
    BY <1>1, <1>10, <1>11, FailWorks
  <1> QED
    BY <1>3, <1>8, <1>9, <1>11, GotoWorks

LEMMA MergeWorks ==
    ASSUME BaseInv, NEW h \in Hubs, Merge(h)
    PROVE  Works(h)
  <1>1. hub[h] \in HubState /\ SoundMemory(hub[h]) /\ SoundState(hub[h].st)
            /\ hub[h].st \in RunState
    BY HubTyped
  <1>2. hub[h].out = <<>> /\ hub[h].todo = {}
    BY DEF Merge, AtMerges, At
  <1> DEFINE n == Min(Mergeable(hub[h].st))
             st1 == Completes(hub[h].st, n)
             st2 == Fails(hub[h].st, n)
             e == Event("merged", n, 0)
             r1 == [hub[h] EXCEPT !.pc = "merge", !.st = st1, !.out = <<e>>]
             r2 == [hub[h] EXCEPT !.st = st2]
  <1>3. (Merges(n, hub[h].st) /\ Goto(h, r1)) \/ Goto(h, FailRun(r2, "save"))
    BY DEF Merge
  <1>4. n \in Nodes
    <2>1. Mergeable(hub[h].st) \in SUBSET Nodes
      BY DEF Mergeable
    <2>2. Mergeable(hub[h].st) # {}
      BY DEF Merge
    <2> QED
      BY <2>1, <2>2, FirstNode
  <1> HIDE DEF n
  <1>5. CASE Merges(n, hub[h].st) /\ Goto(h, r1)
    <2>1. /\ st1 \in RunState /\ SoundState(st1)
          /\ st1.seq = hub[h].st.seq /\ st1.last = hub[h].st.last
      BY <1>1, <1>4, <1>5, CompletesOK
    <2> HIDE DEF st1
    <2>2. e \in EventRow /\ e.what # "completed"
      BY <1>4 DEF Event, EventRow, EventKinds
    <2> HIDE DEF e
    <2>3. <<e>> \in Seq(EventRow) /\ \A i \in DOMAIN <<e>> : <<e>>[i] = e
      BY <2>2, OneEvent
    <2>4. /\ r1 \in HubState /\ r1.st = st1 /\ r1.pc = "merge" /\ r1.out = <<e>>
          /\ r1.todo = {} /\ r1.base = hub[h].base /\ r1.cmd = hub[h].cmd
      BY <1>1, <1>2, <2>1, <2>3 DEF HubState
    <2> HIDE DEF r1
    <2>5. SoundMemory(r1) /\ Keeps(hub[h], r1) /\ Silent(r1)
      BY <2>1, <2>2, <2>3, <2>4 DEF SoundMemory, Keeps, Silent
    <2> QED
      BY <1>5, <2>4, <2>5, GotoWorks
  <1>6. CASE Goto(h, FailRun(r2, "save"))
    <2>1. /\ st2 \in RunState /\ SoundState(st2)
          /\ st2.seq = hub[h].st.seq /\ st2.last = hub[h].st.last
      BY <1>1, <1>4, OtherwiseOK
    <2> HIDE DEF st2
    <2>2. /\ r2 \in HubState /\ r2.st = st2 /\ r2.out = <<>>
          /\ r2.base = hub[h].base /\ r2.cmd = hub[h].cmd
      BY <1>1, <1>2, <2>1 DEF HubState
    <2> HIDE DEF r2
    <2>3. Silent(r2)
      BY <2>2 DEF Silent
    <2> QED
      BY <1>6, <2>1, <2>2, <2>3, FailWorks
  <1> QED
    BY <1>3, <1>5, <1>6

LEMMA SelectWorks ==
    ASSUME BaseInv, NEW h \in Hubs, Select(h)
    PROVE  Works(h)
  <1>1. hub[h] \in HubState /\ SoundMemory(hub[h]) /\ SoundState(hub[h].st)
            /\ hub[h].st \in RunState
    BY HubTyped
  <1>2. hub[h].out = <<>>
    BY DEF Select, AtMerges, At
  <1> DEFINE r2 == [hub[h] EXCEPT !.pc = "dispatch", !.todo = Batch(hub[h].st)]
  <1>3. Goto(h, r2)
    BY DEF Select
  <1>4. Batch(hub[h].st) \in SUBSET Nodes
    BY DEF Batch, Candidates
  <1>5. /\ r2 \in HubState /\ r2.st = hub[h].st /\ r2.pc = "dispatch" /\ r2.out = <<>>
        /\ r2.base = hub[h].base /\ r2.cmd = hub[h].cmd
    BY <1>1, <1>2, <1>4 DEF HubState
  <1> HIDE DEF r2
  <1>6. SoundMemory(r2) /\ Keeps(hub[h], r2) /\ Silent(r2)
    BY <1>1, <1>5 DEF SoundMemory, Keeps, Silent
  <1> QED
    BY <1>3, <1>5, <1>6, GotoWorks

LEMMA DispatchWorks ==
    ASSUME BaseInv, NEW h \in Hubs, Dispatch(h)
    PROVE  Works(h)
  <1>1. hub[h] \in HubState /\ SoundMemory(hub[h]) /\ SoundState(hub[h].st)
            /\ hub[h].st \in RunState
    BY HubTyped
  <1>2. hub[h].pc = "dispatch" /\ hub[h].out = <<>> /\ hub[h].todo # {}
    BY DEF Dispatch, At
  <1> DEFINE n == Min(hub[h].todo)
             rest == [hub[h] EXCEPT !.todo = @ \ {n}]
             st2 == Completes(hub[h].st, n)
             e == Event("checkpoint_node", n, 0)
             done == [hub[h] EXCEPT !.todo = @ \ {n}, !.st = st2, !.out = <<e>>]
             claim == [rest EXCEPT !.pc = "claim", !.node = n]
  <1>3. \/ Goto(h, rest)
        \/ Goto(h, OpenGate(rest, n))
        \/ Kind[n] = "checkpoint" /\ Goto(h, done)
        \/ Goto(h, FailRun(hub[h], "save"))
        \/ Kind[n] # "merge" /\ Kind[n] # "checkpoint" /\ Goto(h, claim)
    BY DEF Dispatch
  <1>4. n \in hub[h].todo /\ n \in Nodes
    BY <1>1, <1>2, FirstNode DEF HubState
  <1> HIDE DEF n
  <1>5. /\ rest \in HubState /\ rest.st = hub[h].st /\ rest.pc = "dispatch" /\ rest.out = <<>>
        /\ rest.base = hub[h].base /\ rest.cmd = hub[h].cmd
    BY <1>1, <1>2, <1>4 DEF HubState
  <1>6. CASE Goto(h, rest)
    <2> HIDE DEF rest
    <2>1. SoundMemory(rest) /\ Keeps(hub[h], rest) /\ Silent(rest)
      BY <1>1, <1>5 DEF SoundMemory, Keeps, Silent
    <2> QED
      BY <1>5, <1>6, <2>1, GotoWorks
  <1>7. CASE Goto(h, OpenGate(rest, n))
    <2> HIDE DEF rest
    <2> DEFINE st3 == Opens(rest.st, n, "paused")
               st4 == Opens(rest.st, n, "waiting_for_approval")
               e1 == Event("requested", n, 0)
               e2 == Event("gate_paused", n, 0)
               r3 == [rest EXCEPT !.st = st3, !.out = <<e1, e2>>]
               r4 == [rest EXCEPT !.st = st4, !.out = <<e1>>]
    <2>1. Goto(h, rest) \/ Goto(h, r3) \/ Goto(h, r4)
      BY <1>7 DEF OpenGate
    <2>2. /\ e1 \in EventRow /\ e1.what # "completed"
          /\ e2 \in EventRow /\ e2.what # "completed"
      BY <1>4 DEF Event, EventRow, EventKinds
    <2>3. /\ st3 \in RunState /\ SoundState(st3)
          /\ st3.seq = rest.st.seq /\ st3.last = rest.st.last
          /\ st4 \in RunState /\ SoundState(st4)
          /\ st4.seq = rest.st.seq /\ st4.last = rest.st.last
      BY <1>1, <1>4, <1>5, OtherwiseOK
    <2> HIDE DEF e1, e2, st3, st4
    <2>4. /\ <<e1>> \in Seq(EventRow) /\ \A i \in DOMAIN <<e1>> : <<e1>>[i] = e1
          /\ <<e1, e2>> \in Seq(EventRow) /\ \A i \in DOMAIN <<e1, e2>> : <<e1, e2>>[i] \in {e1, e2}
      BY <2>2
    <2>5. /\ r3 \in HubState /\ r3.st = st3 /\ r3.pc = "dispatch" /\ r3.out = <<e1, e2>>
          /\ r3.base = hub[h].base /\ r3.cmd = hub[h].cmd
      BY <1>5, <2>3, <2>4 DEF HubState
    <2>6. /\ r4 \in HubState /\ r4.st = st4 /\ r4.pc = "dispatch" /\ r4.out = <<e1>>
          /\ r4.base = hub[h].base /\ r4.cmd = hub[h].cmd
      BY <1>5, <2>3, <2>4 DEF HubState
    <2> HIDE DEF r3, r4
    <2>7. SoundMemory(r3) /\ Keeps(hub[h], r3) /\ Silent(r3)
      BY <1>5, <2>2, <2>3, <2>4, <2>5 DEF SoundMemory, Keeps, Silent
    <2>8. SoundMemory(r4) /\ Keeps(hub[h], r4) /\ Silent(r4)
      BY <1>5, <2>2, <2>3, <2>4, <2>6 DEF SoundMemory, Keeps, Silent
    <2>9. CASE Goto(h, r3)
      BY <2>5, <2>7, <2>9, GotoWorks
    <2>10. CASE Goto(h, r4)
      BY <2>6, <2>8, <2>10, GotoWorks
    <2> QED
      BY <1>6, <2>1, <2>9, <2>10
  <1>8. CASE Kind[n] = "checkpoint" /\ Goto(h, done)
    <2>1. /\ st2 \in RunState /\ SoundState(st2)
          /\ st2.seq = hub[h].st.seq /\ st2.last = hub[h].st.last
      BY <1>1, <1>4, <1>8, CompletesOK
    <2> HIDE DEF st2
    <2>2. e \in EventRow /\ e.what # "completed"
      BY <1>4 DEF Event, EventRow, EventKinds
    <2> HIDE DEF e
    <2>3. <<e>> \in Seq(EventRow) /\ \A i \in DOMAIN <<e>> : <<e>>[i] = e
      BY <2>2, OneEvent
    <2>4. /\ done \in HubState /\ done.st = st2 /\ done.pc = "dispatch" /\ done.out = <<e>>
          /\ done.base = hub[h].base /\ done.cmd = hub[h].cmd
      BY <1>1, <1>2, <2>1, <2>3 DEF HubState
    <2> HIDE DEF done
    <2>5. SoundMemory(done) /\ Keeps(hub[h], done) /\ Silent(done)
      BY <2>1, <2>2, <2>3, <2>4 DEF SoundMemory, Keeps, Silent
    <2> QED
      BY <1>8, <2>4, <2>5, GotoWorks
  <1>9. CASE Goto(h, FailRun(hub[h], "save"))
    <2>1. Silent(hub[h])
      BY <1>2 DEF Silent
    <2> QED
      BY <1>1, <1>9, <2>1, FailWorks
  <1>10. CASE Kind[n] # "merge" /\ Kind[n] # "checkpoint" /\ Goto(h, claim)
    <2>1. Kind[n] = "task"
      BY <1>4, <1>10, PlanAssumption
    <2> HIDE DEF rest
    <2>2. /\ claim \in HubState /\ claim.st = hub[h].st /\ claim.pc = "claim" /\ claim.node = n
          /\ claim.out = <<>> /\ claim.base = hub[h].base /\ claim.cmd = hub[h].cmd
      BY <1>4, <1>5 DEF HubState
    <2> HIDE DEF claim
    <2>3. SoundMemory(claim) /\ Keeps(hub[h], claim) /\ Silent(claim)
      BY <1>1, <1>4, <2>1, <2>2 DEF SoundMemory, Keeps, Silent
    <2> QED
      BY <1>10, <2>2, <2>3, GotoWorks
  <1> QED
    BY <1>3, <1>6, <1>7, <1>8, <1>9, <1>10

\* ownership.claim draws the next token of the step, ...
Draws(h) ==
    LET n == hub[h].node IN
    /\ n \in Nodes
    /\ owner[n].token > 0 => retries < MaxAttempts - 1
    /\ owner' = [owner EXCEPT ![n] = [token |-> @.token + 1, status |-> "active", live |-> TRUE]]
    /\ owner[n].status # "completed"
    /\ retries' = IF owner[n].token > 0 THEN retries + 1 ELSE retries
    /\ \E r2 : /\ Moves(h, r2)
               /\ Keeps(hub[h], r2)
               /\ r2.pc = "submit" /\ r2.node = n /\ r2.token = owner[n].token + 1
               /\ r2.out = <<>>

\* ... or leaves the row alone.
LEMMA ClaimDraws ==
    ASSUME BaseInv, NEW h \in Hubs, Claim(h)
    PROVE  (Works(h) /\ UNCHANGED <<owner, retries>>) \/ Draws(h)
  <1>1. hub[h] \in HubState /\ SoundMemory(hub[h]) /\ SoundState(hub[h].st)
            /\ hub[h].st \in RunState
    BY HubTyped
  <1>2. hub[h].pc = "claim" /\ hub[h].out = <<>>
    BY DEF Claim, At
  <1> DEFINE n == hub[h].node
             back == [hub[h] EXCEPT !.pc = "dispatch", !.node = 0]
             st2 == Attempted(hub[h].st, n)
             r2 == [hub[h] EXCEPT !.pc = "submit", !.token = owner[n].token + 1, !.st = st2]
  <1>3. n \in Nodes /\ Kind[n] = "task"
    BY <1>1, <1>2 DEF SoundMemory
  <1>4. \/ Goto(h, FailRun(back, "dispatch")) /\ UNCHANGED <<owner, retries>>
        \/ Raise(h) /\ UNCHANGED <<owner, retries>>
        \/ /\ ~ (owner[n].token > 0 /\ retries >= MaxAttempts - 1)
           /\ owner[n].status # "completed"
           /\ owner' = [owner EXCEPT ![n] = [token |-> @.token + 1, status |-> "active",
                                             live |-> TRUE]]
           /\ retries' = IF owner[n].token > 0 THEN retries + 1 ELSE retries
           /\ Goto(h, r2)
    BY DEF Claim
  <1>5. CASE Goto(h, FailRun(back, "dispatch")) /\ UNCHANGED <<owner, retries>>
    <2>1. /\ back \in HubState /\ back.st = hub[h].st /\ back.out = <<>>
          /\ back.base = hub[h].base /\ back.cmd = hub[h].cmd
      BY <1>1, <1>2 DEF HubState
    <2> HIDE DEF back
    <2>2. Silent(back)
      BY <2>1 DEF Silent
    <2>3. Works(h)
      BY <1>1, <1>5, <2>1, <2>2, FailWorks
    <2> QED
      BY <1>5, <2>3
  <1>6. CASE Raise(h) /\ UNCHANGED <<owner, retries>>
    BY <1>6, RaiseWorks
  <1>7. CASE /\ ~ (owner[n].token > 0 /\ retries >= MaxAttempts - 1)
             /\ owner[n].status # "completed"
             /\ owner' = [owner EXCEPT ![n] = [token |-> @.token + 1, status |-> "active",
                                               live |-> TRUE]]
             /\ retries' = IF owner[n].token > 0 THEN retries + 1 ELSE retries
             /\ Goto(h, r2)
    <2>1. /\ st2 \in RunState /\ SoundState(st2)
          /\ st2.seq = hub[h].st.seq /\ st2.last = hub[h].st.last
      BY <1>1, <1>3, AttemptedOK
    <2> HIDE DEF st2
    <2>2. owner[n] \in OwnerRow /\ owner[n].token <= retries + 1 /\ retries \in 0 .. MaxAttempts - 1
      BY <1>3 DEF BaseInv, TypeOK
    <2>3. PICK k \in Nat : k = owner[n].token + 1
      BY <2>2, PlanAssumption DEF OwnerRow, Attempts
    <2>4. k \in Attempts /\ (owner[n].token > 0 => retries < MaxAttempts - 1)
      BY <1>7, <2>2, <2>3, PlanAssumption DEF OwnerRow, Attempts
    <2>5. r2 = [hub[h] EXCEPT !.pc = "submit", !.token = k, !.st = st2]
      BY <2>3
    <2> HIDE DEF r2
    <2>6. /\ r2 \in HubState /\ r2.st = st2 /\ r2.pc = "submit" /\ r2.out = <<>>
          /\ r2.base = hub[h].base /\ r2.cmd = hub[h].cmd /\ r2.node = n /\ r2.token = k
      BY <1>1, <1>2, <2>1, <2>5 DEF HubState
    <2>7. SoundMemory(r2) /\ Keeps(hub[h], r2)
      BY <1>3, <2>1, <2>4, <2>6 DEF SoundMemory, Keeps
    <2>8. Moves(h, r2)
      BY <1>7, <2>6, <2>7 DEF Moves, Goto
    <2>9. r2.token = owner[n].token + 1
      BY <2>3, <2>6
    <2> HIDE DEF n
    <2>10. Draws(h)
      BY <1>3, <1>7, <2>4, <2>6, <2>7, <2>8, <2>9 DEF Draws, n
    <2> QED
      BY <2>10
  <1> QED
    BY <1>4, <1>5, <1>6, <1>7

LEMMA UnreconciledWorks ==
    ASSUME NEW h \in Hubs, Unreconciled(h)
    PROVE  Works(h)
  BY RaiseWorks DEF Unreconciled

LEMMA RefuseWorks ==
    ASSUME BaseInv, NEW h \in Hubs, Refuse(h)
    PROVE  Works(h)
  <1>1. hub[h] \in HubState /\ SoundState(hub[h].st)
    BY HubTyped
  <1>2. hub[h].out = <<>>
    BY DEF Refuse, At
  <1> DEFINE back == [hub[h] EXCEPT !.pc = "dispatch", !.node = 0]
  <1>3. Goto(h, FailRun(back, "dispatch"))
    BY DEF Refuse
  <1>4. /\ back \in HubState /\ back.st = hub[h].st /\ back.out = <<>>
        /\ back.base = hub[h].base /\ back.cmd = hub[h].cmd
    BY <1>1, <1>2 DEF HubState
  <1> HIDE DEF back
  <1>5. Silent(back)
    BY <1>4 DEF Silent
  <1> QED
    BY <1>1, <1>3, <1>4, <1>5, FailWorks

LEMMA SubmitWorks ==
    ASSUME BaseInv, NEW h \in Hubs, Submit(h)
    PROVE  Works(h)
  <1>1. hub[h] \in HubState /\ SoundMemory(hub[h]) /\ SoundState(hub[h].st)
            /\ hub[h].st \in RunState
    BY HubTyped
  <1>2. hub[h].pc = "submit" /\ hub[h].out = <<>>
    BY DEF Submit, At
  <1> DEFINE n == hub[h].node
             a == hub[h].token
             st2 == Delegated(hub[h].st, n, a)
             e == Event("delegated", n, a)
             r2 == [hub[h] EXCEPT !.pc = "dispatch", !.node = 0, !.token = 0, !.st = st2,
                                  !.out = <<e>>]
  <1>3. Goto(h, r2)
    BY DEF Submit
  <1>4. n \in Nodes /\ Kind[n] = "task" /\ a \in Attempts /\ a \in Nat
    BY <1>1, <1>2, PlanAssumption DEF SoundMemory, Attempts
  <1> HIDE DEF n, a
  <1>5. /\ st2 \in RunState /\ SoundState(st2)
        /\ st2.seq = hub[h].st.seq /\ st2.last = hub[h].st.last
    BY <1>1, <1>4, DelegatedOK
  <1> HIDE DEF st2
  <1>6. e \in EventRow /\ e.what # "completed"
    BY <1>4 DEF Event, EventRow, EventKinds
  <1> HIDE DEF e
  <1>7. <<e>> \in Seq(EventRow) /\ \A i \in DOMAIN <<e>> : <<e>>[i] = e
    BY <1>6, OneEvent
  <1>8. /\ r2 \in HubState /\ r2.st = st2 /\ r2.pc = "dispatch" /\ r2.out = <<e>>
        /\ r2.base = hub[h].base /\ r2.cmd = hub[h].cmd
    BY <1>1, <1>5, <1>7 DEF HubState
  <1> HIDE DEF r2
  <1>9. SoundMemory(r2) /\ Keeps(hub[h], r2) /\ Silent(r2)
    BY <1>5, <1>6, <1>7, <1>8 DEF SoundMemory, Keeps, Silent
  <1> QED
    BY <1>3, <1>8, <1>9, GotoWorks

LEMMA CancelTaskWorks ==
    ASSUME BaseInv, NEW h \in Hubs, CancelTask(h)
    PROVE  Works(h)
  <1>1. hub[h] \in HubState /\ SoundMemory(hub[h]) /\ SoundState(hub[h].st)
            /\ hub[h].st \in RunState
    BY HubTyped
  <1>2. hub[h].out = <<>>
    BY DEF CancelTask, At
  <1> DEFINE r2 == [hub[h] EXCEPT !.pc = "fence"]
  <1>3. Goto(h, r2)
    BY DEF CancelTask
  <1>4. /\ r2 \in HubState /\ r2.st = hub[h].st /\ r2.pc = "fence" /\ r2.out = <<>>
        /\ r2.base = hub[h].base /\ r2.cmd = hub[h].cmd
    BY <1>1, <1>2 DEF HubState
  <1> HIDE DEF r2
  <1>5. SoundMemory(r2) /\ Keeps(hub[h], r2) /\ Silent(r2)
    BY <1>1, <1>4 DEF SoundMemory, Keeps, Silent
  <1> QED
    BY <1>3, <1>4, <1>5, GotoWorks

LEMMA FenceWorks ==
    ASSUME BaseInv, NEW h \in Hubs, Fence(h)
    PROVE  Works(h)
  <1>1. hub[h] \in HubState /\ SoundMemory(hub[h]) /\ SoundState(hub[h].st)
            /\ hub[h].st \in RunState
    BY HubTyped
  <1>2. hub[h].out = <<>> /\ hub[h].pc = "fence"
    BY DEF Fence, At
  <1> DEFINE n == Min(hub[h].fence)
             r2 == [hub[h] EXCEPT !.fence = @ \ {n}]
  <1>3. Goto(h, r2)
    BY DEF Fence
  <1> HIDE DEF n
  <1>4. /\ r2 \in HubState /\ r2.st = hub[h].st /\ r2.pc = "fence" /\ r2.out = <<>>
        /\ r2.base = hub[h].base /\ r2.cmd = hub[h].cmd
    BY <1>1, <1>2 DEF HubState
  <1> HIDE DEF r2
  <1>5. SoundMemory(r2) /\ Keeps(hub[h], r2) /\ Silent(r2)
    BY <1>1, <1>4 DEF SoundMemory, Keeps, Silent
  <1> QED
    BY <1>3, <1>4, <1>5, GotoWorks

LEMMA EndRunWorks ==
    ASSUME BaseInv, NEW h \in Hubs, EndRun(h)
    PROVE  Works(h)
  <1>1. hub[h] \in HubState /\ SoundMemory(hub[h]) /\ SoundState(hub[h].st)
            /\ hub[h].st \in RunState
    BY HubTyped
  <1> DEFINE status == IF hub[h].why = "run_failed" THEN "failed" ELSE "cancelled"
             st2 == Stops(hub[h].st, status)
             tag == IF hub[h].why = "run_failed" THEN hub[h].st.seq + 1 ELSE hub[h].cmd
             e == Event(hub[h].why, 0, tag)
             r2 == [hub[h] EXCEPT !.pc = hub[h].then, !.st = st2, !.out = <<e>>]
  <1>3. Goto(h, r2)
    BY DEF EndRun
  <1>4. status \in {"failed", "cancelled"}
    OBVIOUS
  <1> HIDE DEF status
  <1>5. /\ st2 \in RunState /\ SoundState(st2)
        /\ st2.seq = hub[h].st.seq /\ st2.last = hub[h].st.last
    BY <1>1, <1>4, StopsOK
  <1> HIDE DEF st2
  <1>6. e \in EventRow /\ e.what # "completed"
    <2>1. tag \in Nat
      <3>1. hub[h].st.seq \in Nat /\ hub[h].cmd \in Nat
        BY <1>1 DEF RunState, HubState
      <3> QED
        BY <3>1
    <2> HIDE DEF tag
    <2>2. hub[h].why \in {"run_failed", "run_cancelled"}
      BY <1>1 DEF HubState
    <2> QED
      BY <2>1, <2>2 DEF Event, EventRow, EventKinds
  <1> HIDE DEF e
  <1>7. <<e>> \in Seq(EventRow) /\ \A i \in DOMAIN <<e>> : <<e>>[i] = e
    BY <1>6, OneEvent
  <1>8. /\ r2 \in HubState /\ r2.st = st2 /\ r2.pc = hub[h].then /\ r2.out = <<e>>
        /\ r2.base = hub[h].base /\ r2.cmd = hub[h].cmd
        /\ hub[h].then \in {"save", "dispatch"}
    BY <1>1, <1>5, <1>7 DEF HubState
  <1> HIDE DEF r2
  <1>9. SoundMemory(r2) /\ Keeps(hub[h], r2) /\ Silent(r2)
    BY <1>5, <1>6, <1>7, <1>8 DEF SoundMemory, Keeps, Silent
  <1> QED
    BY <1>3, <1>8, <1>9, GotoWorks

LEMMA FinishWorks ==
    ASSUME BaseInv, NEW h \in Hubs, Finish(h)
    PROVE  Works(h)
  <1>1. hub[h] \in HubState /\ SoundMemory(hub[h]) /\ SoundState(hub[h].st)
            /\ hub[h].st \in RunState
    BY HubTyped
  <1>2. hub[h].out = <<>>
    BY DEF Finish, At
  <1> DEFINE r1 == [hub[h] EXCEPT !.pc = "save"]
             st2 == [hub[h].st EXCEPT !.status = "completed"]
             e == Event("run_completed", 0, 0)
             r2 == [hub[h] EXCEPT !.pc = "save", !.st = [@ EXCEPT !.status = "completed"],
                                  !.out = <<e>>]
  <1>3. Goto(h, r1) \/ Goto(h, FailRun(hub[h], "save")) \/ Goto(h, r2)
    BY DEF Finish
  <1>4. CASE Goto(h, r1)
    <2>1. /\ r1 \in HubState /\ r1.st = hub[h].st /\ r1.pc = "save" /\ r1.out = <<>>
          /\ r1.base = hub[h].base /\ r1.cmd = hub[h].cmd
      BY <1>1, <1>2 DEF HubState
    <2> HIDE DEF r1
    <2>2. SoundMemory(r1) /\ Keeps(hub[h], r1) /\ Silent(r1)
      BY <1>1, <2>1 DEF SoundMemory, Keeps, Silent
    <2> QED
      BY <1>4, <2>1, <2>2, GotoWorks
  <1>5. CASE Goto(h, FailRun(hub[h], "save"))
    <2>1. Silent(hub[h])
      BY <1>2 DEF Silent
    <2> QED
      BY <1>1, <1>5, <2>1, FailWorks
  <1>6. CASE Goto(h, r2)
    <2>1. /\ st2 \in RunState /\ st2.seq = hub[h].st.seq /\ st2.last = hub[h].st.last
          /\ st2.completed = hub[h].st.completed /\ st2.running = hub[h].st.running
      BY <1>1 DEF RunState, Ended
    <2>2. e \in EventRow /\ e.what # "completed"
      BY DEF Event, EventRow, EventKinds
    <2>3. r2 = [hub[h] EXCEPT !.pc = "save", !.st = st2, !.out = <<e>>]
      OBVIOUS
    <2> HIDE DEF e, st2, r2
    <2>4. SoundState(st2)
      BY <1>1, <2>1, SameNodesOK
    <2>5. <<e>> \in Seq(EventRow) /\ \A i \in DOMAIN <<e>> : <<e>>[i] = e
      BY <2>2, OneEvent
    <2>6. /\ r2 \in HubState /\ r2.st = st2 /\ r2.pc = "save" /\ r2.out = <<e>>
          /\ r2.base = hub[h].base /\ r2.cmd = hub[h].cmd
      BY <1>1, <2>1, <2>3, <2>5 DEF HubState
    <2>7. SoundMemory(r2) /\ Keeps(hub[h], r2) /\ Silent(r2)
      BY <2>1, <2>2, <2>4, <2>5, <2>6 DEF SoundMemory, Keeps, Silent
    <2> QED
      BY <1>6, <2>6, <2>7, GotoWorks
  <1> QED
    BY <1>3, <1>4, <1>5, <1>6

\* Thread h loads the latest revision, for a command or not.
Loads(h) ==
    \E r2 : /\ Moves(h, r2)
            /\ r2.pc \in {"poll", "save", "cancel"}
            /\ r2.base = Revision
            /\ r2.st.seq = IF Revision = 0 THEN 0 ELSE Latest.seq
            /\ r2.st.last = IF Revision = 0 THEN 0 ELSE Latest.last
            /\ Revision > 0 => Latest.status # "completed"
            /\ r2.cmd # 0 => r2.cmd \in DOMAIN commands /\ commands[r2.cmd].rev = Revision
            /\ Silent(r2)

LEMMA StartLoads ==
    ASSUME BaseInv, NEW h \in Hubs, Start(h)
    PROVE  Loads(h)
  <1> DEFINE e == Event("started", 0, 0)
             r2 == [Idle EXCEPT !.pc = "poll", !.out = <<e>>]
  <1>1. Goto(h, r2) /\ Revision = 0
    BY DEF Start, Revision
  <1>2. e \in EventRow /\ e.what # "completed"
    BY DEF Event, EventRow, EventKinds
  <1> HIDE DEF e
  <1>3. <<e>> \in Seq(EventRow) /\ \A i \in DOMAIN <<e>> : <<e>>[i] = e
    BY <1>2, OneEvent
  <1>4. /\ r2 \in HubState /\ r2.st = NewRun /\ r2.pc = "poll" /\ r2.out = <<e>>
        /\ r2.base = 0 /\ r2.cmd = 0
    BY <1>3, IdleOK DEF HubState
  <1> HIDE DEF r2
  <1>5. SoundMemory(r2) /\ Silent(r2)
    BY <1>2, <1>3, <1>4, NewRunOK DEF SoundMemory, Silent
  <1>6. r2.st.seq = 0 /\ r2.st.last = 0
    BY <1>4 DEF NewRun
  <1>7. Moves(h, r2)
    BY <1>1, <1>4, <1>5 DEF Moves, Goto
  <1> QED
    BY <1>1, <1>4, <1>5, <1>6, <1>7 DEF Loads

LEMMA LatestTyped ==
    ASSUME BaseInv, Revision > 0
    PROVE  /\ Revision \in DOMAIN checkpoints
           /\ checkpoints[Revision] \in CheckpointRow
           /\ Latest \in RunState /\ SoundState(Latest)
  <1>1. checkpoints \in Seq(CheckpointRow) /\ Revision \in DOMAIN checkpoints
    BY DEF BaseInv, TypeOK, Revision
  <1>2. checkpoints[Revision] \in CheckpointRow
    BY <1>1
  <1>3. SoundState(Latest)
    BY <1>1 DEF BaseInv, LocalInv, Latest
  <1> QED
    BY <1>1, <1>2, <1>3 DEF CheckpointRow, Latest

LEMMA AdvanceLoads ==
    ASSUME BaseInv, NEW h \in Hubs, Advance(h)
    PROVE  Loads(h)
  <1> DEFINE r2 == [Idle EXCEPT !.pc = "poll", !.st = Latest, !.base = Revision]
  <1>1. Goto(h, r2) /\ Latest.status = "running"
    BY DEF Advance
  <1>2. Revision \in Nat /\ Revision > 0
    BY BoundAssumption DEF Advance
  <1>3. Latest \in RunState /\ SoundState(Latest)
    BY <1>2, LatestTyped
  <1>4. /\ r2 \in HubState /\ r2.st = Latest /\ r2.pc = "poll" /\ r2.out = <<>>
        /\ r2.base = Revision /\ r2.cmd = 0
    BY <1>2, <1>3, IdleOK DEF HubState
  <1> HIDE DEF r2
  <1>5. SoundMemory(r2) /\ Silent(r2)
    BY <1>3, <1>4 DEF SoundMemory, Silent
  <1>6. Moves(h, r2)
    BY <1>1, <1>4, <1>5 DEF Moves, Goto
  <1> QED
    BY <1>1, <1>2, <1>4, <1>5, <1>6 DEF Loads

\* What a command makes of the copy leaves alone the completed nodes, the
\* delegations and what the copy says of the log.
LEMMA AppliedOK ==
    ASSUME NEW st \in RunState, SoundState(st), NEW c \in Nat,
           commands[c] \in CommandRow,
           NEW x \in Applied(st, c)
    PROVE  /\ x.st \in RunState /\ SoundState(x.st)
           /\ x.st.seq = st.seq /\ x.st.last = st.last
           /\ x.pc \in {"poll", "save", "cancel"}
           /\ x.out \in Seq(EventRow)
           /\ \A i \in DOMAIN x.out : x.out[i].what # "completed"
  <1> DEFINE n == commands[c].step
             Then(t) == IF t.status = "running" THEN "poll" ELSE "save"
             s1 == [st EXCEPT !.status = "running"]
             s2 == [st EXCEPT !.open = @ \ {n}, !.failed = @ \cup {n}]
             s3 == [st EXCEPT !.approved = @ \cup {n}, !.open = @ \ {n}, !.status = "running"]
             s4 == [st EXCEPT !.status = "paused"]
             s5 == [st EXCEPT !.failed = IF n = 0 THEN {} ELSE @ \ {n}, !.status = "running"]
  <1>1. \/ x = [st |-> s1, out |-> <<Event("resumed", n, c)>>, pc |-> Then(s1)]
        \/ n \in st.open /\ x = [st |-> s2, out |-> <<Event("rejected", n, c)>>, pc |-> "cancel"]
        \/ n \in st.open /\ x = [st |-> s3, out |-> <<Event("granted", n, c)>>, pc |-> Then(s3)]
        \/ /\ n \in st.open
           /\ x = [st |-> s3, out |-> <<Event("granted", n, c), Event("resumed", n, c)>>,
                   pc |-> Then(s3)]
        \/ x = [st |-> s4, out |-> <<Event("paused", n, c)>>, pc |-> Then(s4)]
        \/ x = [st |-> st, out |-> <<>>, pc |-> "cancel"]
        \/ x = [st |-> s5, out |-> <<Event("retried", n, c)>>, pc |-> Then(s5)]
    BY DEF Applied
  <1>2. n \in {0} \cup Nodes
    BY DEF CommandRow
  <1> HIDE DEF n
  <1>3. PICK e1, e2, e3, e4, e5 :
            /\ e1 = Event("resumed", n, c) /\ e2 = Event("rejected", n, c)
            /\ e3 = Event("granted", n, c) /\ e4 = Event("paused", n, c)
            /\ e5 = Event("retried", n, c)
    OBVIOUS
  <1>4. \A e \in {e1, e2, e3, e4, e5} : e \in EventRow /\ e.what # "completed"
    BY <1>2, <1>3 DEF Event, EventRow, EventKinds
  <1>5. /\ \A e \in {e1, e2, e3, e4, e5} :
              /\ <<e>> \in Seq(EventRow)
              /\ \A i \in DOMAIN <<e>> : <<e>>[i].what # "completed"
        /\ <<e3, e1>> \in Seq(EventRow)
        /\ \A i \in DOMAIN <<e3, e1>> : <<e3, e1>>[i].what # "completed"
        /\ <<>> \in Seq(EventRow)
        /\ \A i \in DOMAIN <<>> : <<>>[i].what # "completed"
    BY <1>4
  <1>6. \A t \in {st, s1, s4, s5} :
            /\ t \in RunState /\ t.seq = st.seq /\ t.last = st.last
            /\ t.completed = st.completed /\ t.running = st.running
    <2>1. s1 \in RunState /\ s1.seq = st.seq /\ s1.last = st.last
            /\ s1.completed = st.completed /\ s1.running = st.running
      BY DEF RunState
    <2>2. s4 \in RunState /\ s4.seq = st.seq /\ s4.last = st.last
            /\ s4.completed = st.completed /\ s4.running = st.running
      BY DEF RunState
    <2>3. s5 \in RunState /\ s5.seq = st.seq /\ s5.last = st.last
            /\ s5.completed = st.completed /\ s5.running = st.running
      <3>1. PICK f : f = IF n = 0 THEN {} ELSE st.failed \ {n}
        OBVIOUS
      <3>2. f \in SUBSET Nodes
        BY <3>1 DEF RunState
      <3>3. s5 = [st EXCEPT !.failed = f, !.status = "running"]
        BY <3>1
      <3> HIDE DEF s5
      <3> QED
        BY <3>2, <3>3 DEF RunState
    <2> HIDE DEF s1, s4, s5
    <2> QED
      BY <2>1, <2>2, <2>3
  <1>7. n \in st.open => \A t \in {s2, s3} :
            /\ t \in RunState /\ t.seq = st.seq /\ t.last = st.last
            /\ t.completed = st.completed /\ t.running = st.running
    <2>1. n \in st.open => s2 \in RunState /\ s2.seq = st.seq /\ s2.last = st.last
            /\ s2.completed = st.completed /\ s2.running = st.running
      BY DEF RunState
    <2>2. n \in st.open => s3 \in RunState /\ s3.seq = st.seq /\ s3.last = st.last
            /\ s3.completed = st.completed /\ s3.running = st.running
      BY DEF RunState
    <2> HIDE DEF s2, s3
    <2> QED
      BY <2>1, <2>2
  <1>8. \A t : Then(t) \in {"poll", "save"}
    OBVIOUS
  <1> HIDE DEF s1, s2, s3, s4, s5, Then
  <1>9. /\ x.st \in RunState /\ x.st.seq = st.seq /\ x.st.last = st.last
        /\ x.st.completed = st.completed /\ x.st.running = st.running
    BY <1>1, <1>6, <1>7
  <1>10. x.pc \in {"poll", "save", "cancel"}
    BY <1>1, <1>8
  <1>11. x.out \in Seq(EventRow) /\ \A i \in DOMAIN x.out : x.out[i].what # "completed"
    <2>1. x.out \in {<<e1>>, <<e2>>, <<e3>>, <<e3, e1>>, <<e4>>, <<>>, <<e5>>}
      BY <1>1, <1>3
    <2> QED
      BY <1>5, <2>1
  <1>12. SoundState(x.st)
    BY <1>9, SameNodesOK
  <1> QED
    BY <1>9, <1>10, <1>11, <1>12

LEMMA ResumeLoads ==
    ASSUME BaseInv, NEW h \in Hubs, NEW c \in DOMAIN commands, Resume(h, c)
    PROVE  Loads(h)
  <1>1. Revision > 0 /\ Revision \in Nat
    BY DEF Resume, BaseInv, TypeOK, Revision
  <1>2. Latest \in RunState /\ SoundState(Latest)
    BY <1>1, LatestTyped
  <1>3. /\ c \in Nat
        /\ commands[c] \in CommandRow
    <2>1. commands \in Seq(CommandRow)
      BY DEF BaseInv, TypeOK
    <2> QED
      BY <2>1
  <1>4. PICK x \in Applied(Latest, c) :
          Goto(h, [Idle EXCEPT !.pc = x.pc, !.st = x.st, !.out = x.out, !.base = Revision,
                               !.cmd = c,
                               !.fence = IF x.pc = "cancel" THEN Running(x.st) ELSE {},
                               !.why = IF commands[c].kind = "cancel" THEN "run_cancelled"
                                                                      ELSE "run_failed"])
    BY DEF Resume
  <1> DEFINE r2 == [Idle EXCEPT !.pc = x.pc, !.st = x.st, !.out = x.out, !.base = Revision,
                               !.cmd = c,
                               !.fence = IF x.pc = "cancel" THEN Running(x.st) ELSE {},
                               !.why = IF commands[c].kind = "cancel" THEN "run_cancelled"
                                                                      ELSE "run_failed"]
  <1>5. /\ x.st \in RunState /\ SoundState(x.st)
        /\ x.st.seq = Latest.seq /\ x.st.last = Latest.last
        /\ x.pc \in {"poll", "save", "cancel"}
        /\ x.out \in Seq(EventRow)
        /\ \A i \in DOMAIN x.out : x.out[i].what # "completed"
    BY <1>2, <1>3, AppliedOK
  <1>6. /\ r2 \in HubState /\ r2.st = x.st /\ r2.pc = x.pc /\ r2.out = x.out
        /\ r2.base = Revision /\ r2.cmd = c
    <2>1. Running(x.st) \in SUBSET Nodes
      BY DEF Running
    <2>2. Idle \in HubState
      BY IdleOK
    <2> QED
      BY <1>1, <1>3, <1>5, <2>1, <2>2, ZenonT(40) DEF HubState
  <1>7. Goto(h, r2)
    BY <1>4
  <1> HIDE DEF r2
  <1>8. SoundMemory(r2) /\ Silent(r2)
    BY <1>5, <1>6 DEF SoundMemory, Silent
  <1>9. Moves(h, r2)
    BY <1>6, <1>7, <1>8 DEF Moves, Goto
  <1>10. commands[c].rev = Revision /\ Latest.status # "completed"
    BY DEF Resume, Admitted
  <1> QED
    BY <1>1, <1>5, <1>6, <1>8, <1>9, <1>10 DEF Loads

\* Thread h appends its next event: only one that has seen the whole log can.
Appends(h) ==
    \E r2 : /\ Moves(h, r2)
            /\ hub[h].out # <<>>
            /\ hub[h].st.seq = Len(log)
            /\ log' = Append(log, Head(hub[h].out))
            /\ r2.pc = hub[h].pc /\ r2.base = hub[h].base /\ r2.cmd = hub[h].cmd
            /\ r2.node = hub[h].node /\ r2.token = hub[h].token
            /\ r2.out = Tail(hub[h].out)
            /\ r2.st.seq = Len(log) + 1 /\ r2.st.last = hub[h].st.last

LEMMA EmitAppends ==
    ASSUME BaseInv, NEW h \in Hubs, Emit(h)
    PROVE  (Works(h) /\ log' = log) \/ Appends(h)
  <1>1. hub[h] \in HubState /\ SoundMemory(hub[h]) /\ SoundState(hub[h].st)
            /\ hub[h].st \in RunState
    BY HubTyped
  <1> DEFINE r2 == [hub[h] EXCEPT !.out = Tail(@), !.st = [@ EXCEPT !.seq = Len(log) + 1]]
  <1>2. \/ Raise(h) /\ log' = log
        \/ /\ hub[h].st.seq = Len(log) /\ log' = Append(log, Head(hub[h].out))
           /\ Goto(h, r2)
    BY DEF Emit
  <1>3. hub[h].out # <<>> /\ hub[h].out \in Seq(EventRow)
    BY <1>1 DEF Emit, HubState
  <1>4. PICK k \in Nat : k = Len(log) + 1
    BY DEF BaseInv, TypeOK
  <1>5. PICK st2 : st2 = [hub[h].st EXCEPT !.seq = k]
    OBVIOUS
  <1>6. /\ st2 \in RunState /\ st2.seq = k /\ st2.last = hub[h].st.last
        /\ st2.completed = hub[h].st.completed /\ st2.running = hub[h].st.running
    BY <1>1, <1>5 DEF RunState
  <1>7. SoundState(st2) /\ Running(st2) = Running(hub[h].st)
    BY <1>1, <1>6, SameNodesOK
  <1>8. PICK more \in Seq(EventRow) : more = Tail(hub[h].out)
    <2>1. Tail(hub[h].out) \in Seq(EventRow)
      BY <1>3
    <2> QED
      BY <2>1
  <1>9. r2 = [hub[h] EXCEPT !.out = more, !.st = st2]
    BY <1>4, <1>5, <1>8
  <1>10. CASE Raise(h) /\ log' = log
    BY <1>10, RaiseWorks
  <1>11. CASE /\ hub[h].st.seq = Len(log) /\ log' = Append(log, Head(hub[h].out))
              /\ Goto(h, r2)
    <2> HIDE DEF r2
    <2>1. /\ r2 \in HubState /\ r2.st = st2 /\ r2.out = more /\ r2.pc = hub[h].pc
          /\ r2.base = hub[h].base /\ r2.cmd = hub[h].cmd
          /\ r2.node = hub[h].node /\ r2.token = hub[h].token /\ r2.todo = hub[h].todo
      BY <1>1, <1>6, <1>8, <1>9 DEF HubState
    <2>2. SoundMemory(r2)
      BY <1>1, <1>7, <2>1 DEF SoundMemory
    <2>3. Moves(h, r2)
      BY <1>11, <2>1, <2>2 DEF Moves, Goto
    <2> QED
      BY <1>3, <1>4, <1>6, <1>8, <1>11, <2>1, <2>3 DEF Appends
  <1> QED
    BY <1>2, <1>10, <1>11

\* Thread h announces the checkpoint after the latest one.
Saves(h) ==
    \E r2 : /\ Moves(h, r2)
            /\ r2.pc = "store" /\ r2.base = hub[h].base /\ r2.cmd = hub[h].cmd
            /\ r2.token = Revision + 1
            /\ r2.out # <<>> /\ Silent(r2)
            /\ r2.st.seq = hub[h].st.seq
            /\ r2.st.last = IF hub[h].cmd = 0 THEN hub[h].st.last ELSE hub[h].cmd

LEMMA SaveSaves ==
    ASSUME BaseInv, NEW h \in Hubs, Save(h)
    PROVE  Saves(h)
  <1>1. hub[h] \in HubState /\ SoundMemory(hub[h]) /\ SoundState(hub[h].st)
            /\ hub[h].st \in RunState
    BY HubTyped
  <1> DEFINE r2 == [hub[h] EXCEPT !.pc = "store", !.token = Revision + 1,
                         !.st = [@ EXCEPT !.last = IF hub[h].cmd = 0 THEN hub[h].st.last
                                                                     ELSE hub[h].cmd],
                         !.out = <<Event("checkpoint", 0, Revision + 1)>>]
  <1>2. Goto(h, r2)
    BY DEF Save
  <1>3. PICK k \in Nat : k = Revision + 1
    BY DEF BaseInv, TypeOK, Revision
  <1>4. PICK l : l = IF hub[h].cmd = 0 THEN hub[h].st.last ELSE hub[h].cmd
    OBVIOUS
  <1>5. l \in Nat
    BY <1>1, <1>4 DEF RunState, HubState
  <1>6. PICK st2 : st2 = [hub[h].st EXCEPT !.last = l]
    OBVIOUS
  <1>7. /\ st2 \in RunState /\ st2.seq = hub[h].st.seq /\ st2.last = l
        /\ st2.completed = hub[h].st.completed /\ st2.running = hub[h].st.running
    BY <1>1, <1>5, <1>6 DEF RunState
  <1>8. SoundState(st2)
    BY <1>1, <1>7, SameNodesOK
  <1>9. PICK e : e = Event("checkpoint", 0, k)
    OBVIOUS
  <1>10. e \in EventRow /\ e.what # "completed"
    BY <1>9 DEF Event, EventRow, EventKinds
  <1>11. <<e>> \in Seq(EventRow) /\ <<e>> # <<>> /\ \A i \in DOMAIN <<e>> : <<e>>[i] = e
    BY <1>10
  <1>12. r2 = [hub[h] EXCEPT !.pc = "store", !.token = k, !.st = st2, !.out = <<e>>]
    BY <1>3, <1>4, <1>6, <1>9
  <1> HIDE DEF r2
  <1>13. /\ r2 \in HubState /\ r2.st = st2 /\ r2.out = <<e>> /\ r2.pc = "store"
         /\ r2.base = hub[h].base /\ r2.cmd = hub[h].cmd /\ r2.token = k
    BY <1>1, <1>7, <1>11, <1>12 DEF HubState
  <1>14. SoundMemory(r2) /\ Silent(r2)
    BY <1>8, <1>10, <1>11, <1>13 DEF SoundMemory, Silent
  <1>15. Moves(h, r2)
    BY <1>2, <1>13, <1>14 DEF Moves, Goto
  <1> QED
    BY <1>3, <1>4, <1>7, <1>11, <1>13, <1>14, <1>15 DEF Saves

-----------------------------------------------------------------------------
(* Types, and what a thread knows by itself. *)

LEMMA MovesOK ==
    ASSUME BaseInv, NEW h \in Hubs, NEW r2, Moves(h, r2)
    PROVE  /\ hub' \in [Hubs -> HubState]
           /\ \A g \in Hubs : SoundMemory(hub'[g])
           /\ hub'[h] = r2
           /\ \A g \in Hubs \ {h} : hub'[g] = hub[g]
  <1>1. hub \in [Hubs -> HubState] /\ \A g \in Hubs : SoundMemory(hub[g])
    BY DEF BaseInv, TypeOK, LocalInv
  <1>2. hub' = [hub EXCEPT ![h] = r2] /\ r2 \in HubState /\ SoundMemory(r2)
    BY DEF Moves
  <1>3. hub'[h] = r2 /\ \A g \in Hubs \ {h} : hub'[g] = hub[g]
    BY <1>1, <1>2
  <1> QED
    BY <1>1, <1>2, <1>3

\* A step of thread h, or of nobody.
LEMMA BaseFrame ==
    ASSUME BaseInv,
           hub' \in [Hubs -> HubState], \A g \in Hubs : SoundMemory(hub'[g]),
           log' \in Seq(EventRow), checkpoints' \in Seq(CheckpointRow),
           \A i \in DOMAIN checkpoints' : SoundState(checkpoints'[i].state),
           owner' \in [Nodes -> OwnerRow], retries' \in 0 .. MaxAttempts - 1,
           task' \in [Nodes -> [Attempts -> {"absent", "created"} \cup TaskDone]],
           commands' \in Seq(CommandRow), crashes' \in 0 .. MaxCrashes,
           \A n \in Nodes : owner'[n].token <= retries' + 1
    PROVE  BaseInv'
  BY DEF BaseInv, TypeOK, LocalInv

LEMMA QuietBase ==
    ASSUME BaseInv, hub' \in [Hubs -> HubState], \A g \in Hubs : SoundMemory(hub'[g]),
           UNCHANGED <<log, checkpoints, commands, crashes>>,
           owner' \in [Nodes -> OwnerRow], \A n \in Nodes : owner'[n].token = owner[n].token,
           retries' = retries,
           task' \in [Nodes -> [Attempts -> {"absent", "created"} \cup TaskDone]]
    PROVE  BaseInv'
  BY BaseFrame DEF BaseInv, TypeOK, LocalInv

LEMMA WorksBase ==
    ASSUME BaseInv, NEW h \in Hubs, Works(h) \/ Loads(h) \/ Saves(h),
           UNCHANGED <<log, checkpoints, commands, crashes>>,
           owner' \in [Nodes -> OwnerRow], \A n \in Nodes : owner'[n].token = owner[n].token,
           retries' = retries,
           task' \in [Nodes -> [Attempts -> {"absent", "created"} \cup TaskDone]]
    PROVE  BaseInv'
  <1>1. PICK r2 : Moves(h, r2)
    BY DEF Works, Loads, Saves
  <1>2. hub' \in [Hubs -> HubState] /\ \A g \in Hubs : SoundMemory(hub'[g])
    BY <1>1, MovesOK
  <1> QED
    BY <1>2, QuietBase

LEMMA BaseTyped ==
    ASSUME BaseInv
    PROVE  /\ owner \in [Nodes -> OwnerRow]
           /\ task \in [Nodes -> [Attempts -> {"absent", "created"} \cup TaskDone]]
           /\ retries \in Nat /\ retries \in 0 .. MaxAttempts - 1
           /\ log \in Seq(EventRow) /\ checkpoints \in Seq(CheckpointRow)
           /\ commands \in Seq(CommandRow) /\ Revision \in Nat
           /\ hub \in [Hubs -> HubState]
  BY DEF BaseInv, TypeOK, Revision

\* Steps of a thread that write to nothing but its memory.
LEMMA MemoryBase ==
    ASSUME BaseInv, NEW h \in Hubs,
           Poll(h) \/ Skip(h) \/ Merge(h) \/ Select(h) \/ Dispatch(h) \/ EndRun(h) \/ Finish(h)
               \/ Unreconciled(h) \/ Refuse(h) \/ Save(h) \/ Start(h) \/ Advance(h) \/ (\E c \in DOMAIN commands : Resume(h, c))
    PROVE  BaseInv'
  <1>1. UNCHANGED <<log, checkpoints, owner, retries, task, commands, crashes>>
    BY DEF Poll, Skip, Merge, Select, Dispatch, EndRun, Finish, Unreconciled, Refuse, Save, Start,
       Advance, Resume
  <1>2. Works(h) \/ Loads(h) \/ Saves(h)
    BY PollWorks, SkipWorks, MergeWorks, SelectWorks, DispatchWorks, EndRunWorks, FinishWorks,
       UnreconciledWorks, RefuseWorks, SaveSaves, StartLoads, AdvanceLoads, ResumeLoads
  <1>3. owner' \in [Nodes -> OwnerRow] /\ (\A n \in Nodes : owner'[n].token = owner[n].token)
            /\ task' \in [Nodes -> [Attempts -> {"absent", "created"} \cup TaskDone]]
    BY <1>1, BaseTyped
  <1> QED
    BY <1>1, <1>2, <1>3, WorksBase

\* A result or a fence closes the ownership row, and leaves its token alone.
Closes(n, s) == owner' = [owner EXCEPT ![n] = [@ EXCEPT !.status = s, !.live = FALSE]]

LEMMA CollectBase ==
    ASSUME BaseInv, NEW h \in Hubs, CollectCompleted(h) \/ CollectFailed(h) \/ Fence(h)
    PROVE  BaseInv'
  <1>1. UNCHANGED <<log, checkpoints, retries, task, commands, crashes>>
    BY DEF CollectCompleted, CollectFailed, Fence
  <1>2. Works(h)
    BY CollectCompletedWorks, CollectFailedWorks, FenceWorks
  <1>3. hub[h].todo \in SUBSET Nodes /\ hub[h].fence \in SUBSET Nodes
    BY HubTyped DEF HubState
  <1>4. owner' = owner \/ \E n \in Nodes, s \in {"completed", "failed"} : Closes(n, s)
    <2>1. CASE CollectCompleted(h)
      <3>1. hub[h].todo # {}
        BY <2>1 DEF CollectCompleted
      <3>2. Min(hub[h].todo) \in Nodes
        BY <1>3, <3>1, FirstNode
      <3>3. owner' = owner \/ Closes(Min(hub[h].todo), "completed")
        BY <2>1 DEF CollectCompleted, Closes
      <3> QED
        BY <3>2, <3>3
    <2>2. CASE CollectFailed(h)
      <3>1. hub[h].todo # {}
        BY <2>2 DEF CollectFailed
      <3>2. Min(hub[h].todo) \in Nodes
        BY <1>3, <3>1, FirstNode
      <3>3. owner' = owner \/ Closes(Min(hub[h].todo), "failed")
        BY <2>2 DEF CollectFailed, Closes
      <3> QED
        BY <3>2, <3>3
    <2>3. CASE Fence(h)
      <3>1. hub[h].fence # {}
        BY <2>3 DEF Fence
      <3>2. Min(hub[h].fence) \in Nodes
        BY <1>3, <3>1, FirstNode
      <3>3. owner' = owner \/ Closes(Min(hub[h].fence), "failed")
        BY <2>3 DEF Fence, Closes
      <3> QED
        BY <3>2, <3>3
    <2> QED
      BY <2>1, <2>2, <2>3
  <1>5. owner' \in [Nodes -> OwnerRow] /\ (\A n \in Nodes : owner'[n].token = owner[n].token)
    <2>1. CASE owner' = owner
      BY <2>1, BaseTyped
    <2>2. CASE \E n \in Nodes, s \in {"completed", "failed"} : Closes(n, s)
      <3>1. PICK n \in Nodes, s \in {"completed", "failed"} : Closes(n, s)
        BY <2>2
      <3>2. PICK o2 : o2 = owner'
        OBVIOUS
      <3>3. /\ o2 \in [Nodes -> OwnerRow]
            /\ o2[n].status = s /\ o2[n].token = owner[n].token
            /\ \A m \in Nodes : m # n => o2[m] = owner[m]
        <4>1. o2 = [owner EXCEPT ![n] = [@ EXCEPT !.status = s, !.live = FALSE]]
          BY <3>1, <3>2 DEF Closes
        <4>2. owner \in [Nodes -> OwnerRow]
          BY BaseTyped
        <4>3. PICK row : row = [owner[n] EXCEPT !.status = s, !.live = FALSE]
          OBVIOUS
        <4>4. row \in OwnerRow /\ row.status = s /\ row.token = owner[n].token
          BY <4>2, <4>3 DEF OwnerRow
        <4>5. o2 = [owner EXCEPT ![n] = row]
          BY <4>1, <4>3, Zenon
        <4> QED
          BY <4>2, <4>4, <4>5
      <3> QED
        BY <3>2, <3>3
    <2> QED
      BY <1>4, <2>1, <2>2
  <1>6. task' \in [Nodes -> [Attempts -> {"absent", "created"} \cup TaskDone]]
    BY <1>1, BaseTyped
  <1> QED
    BY <1>1, <1>2, <1>5, <1>6, WorksBase

LEMMA TaskBase ==
    ASSUME BaseInv, NEW h \in Hubs, Submit(h) \/ CancelTask(h)
    PROVE  BaseInv'
  <1>1. UNCHANGED <<log, checkpoints, owner, retries, commands, crashes>>
    BY DEF Submit, CancelTask
  <1>2. Works(h)
    BY SubmitWorks, CancelTaskWorks
  <1>3. owner' \in [Nodes -> OwnerRow] /\ (\A n \in Nodes : owner'[n].token = owner[n].token)
    BY <1>1, BaseTyped
  <1>4. task' \in [Nodes -> [Attempts -> {"absent", "created"} \cup TaskDone]]
    <2>1. CASE Submit(h)
      BY <2>1, BaseTyped DEF Submit
    <2>2. CASE CancelTask(h)
      BY <2>2, BaseTyped DEF CancelTask, TaskDone
    <2> QED
      BY <2>1, <2>2
  <1> QED
    BY <1>1, <1>2, <1>3, <1>4, WorksBase

LEMMA ClaimBase ==
    ASSUME BaseInv, NEW h \in Hubs, Claim(h)
    PROVE  BaseInv'
  <1>1. UNCHANGED <<log, checkpoints, task, commands, crashes>>
    BY DEF Claim
  <1>2. CASE Works(h) /\ UNCHANGED <<owner, retries>>
    <2>1. /\ owner' \in [Nodes -> OwnerRow] /\ (\A n \in Nodes : owner'[n].token = owner[n].token)
          /\ task' \in [Nodes -> [Attempts -> {"absent", "created"} \cup TaskDone]]
      BY <1>1, <1>2, BaseTyped
    <2> QED
      BY <1>1, <1>2, <2>1, WorksBase
  <1>3. CASE Draws(h)
    <2> DEFINE n == hub[h].node
    <2>1. PICK r2 : Moves(h, r2)
      BY <1>3 DEF Draws
    <2>2. hub' \in [Hubs -> HubState] /\ \A g \in Hubs : SoundMemory(hub'[g])
      BY <2>1, MovesOK
    <2>3. /\ n \in Nodes
          /\ owner[n].token > 0 => retries < MaxAttempts - 1
          /\ owner' = [owner EXCEPT ![n] = [token |-> @.token + 1, status |-> "active",
                                            live |-> TRUE]]
          /\ retries' = IF owner[n].token > 0 THEN retries + 1 ELSE retries
      BY <1>3 DEF Draws
    <2> HIDE DEF n
    <2>4. /\ owner \in [Nodes -> OwnerRow] /\ owner[n].token \in {0} \cup Attempts
          /\ retries \in 0 .. MaxAttempts - 1
      BY <2>3, BaseTyped DEF OwnerRow
    <2>5. \A m \in Nodes : owner[m].token <= retries + 1 /\ owner[m].token \in Nat
      BY BaseTyped, PlanAssumption DEF BaseInv, OwnerRow, Attempts
    <2>6. PICK k \in Nat : k = owner[n].token + 1
      BY <2>3, <2>5
    <2>7. /\ retries' \in 0 .. MaxAttempts - 1 /\ k \in Attempts /\ k <= retries' + 1
          /\ retries <= retries'
      BY <2>3, <2>4, <2>5, <2>6, PlanAssumption DEF Attempts
    <2>8. PICK row : row = [token |-> k, status |-> "active", live |-> TRUE]
      OBVIOUS
    <2>9. row \in OwnerRow /\ row.token = k
      BY <2>7, <2>8 DEF OwnerRow
    <2>10. owner' = [owner EXCEPT ![n] = row]
      BY <2>3, <2>6, <2>8
    <2>11. owner' \in [Nodes -> OwnerRow] /\ owner'[n] = row
             /\ \A m \in Nodes : m # n => owner'[m] = owner[m]
      BY <2>3, <2>4, <2>9, <2>10
    <2>12. \A m \in Nodes : owner'[m].token <= retries' + 1
      <3>1. retries \in Nat /\ retries' \in Nat
        BY <2>4, <2>7, PlanAssumption
      <3>2. owner'[n].token <= retries' + 1
        BY <2>7, <2>9, <2>11
      <3>3. ASSUME NEW m \in Nodes, m # n
            PROVE  owner'[m].token <= retries' + 1
        <4>1. owner'[m].token = owner[m].token
          BY <2>11, <3>3
        <4>2. owner[m].token \in Nat /\ owner[m].token <= retries + 1
          BY <2>5
        <4> QED
          BY <2>7, <3>1, <4>1, <4>2
      <3> QED
        BY <3>2, <3>3
    <2>13. /\ log' \in Seq(EventRow) /\ checkpoints' \in Seq(CheckpointRow)
           /\ \A i \in DOMAIN checkpoints' : SoundState(checkpoints'[i].state)
           /\ task' \in [Nodes -> [Attempts -> {"absent", "created"} \cup TaskDone]]
           /\ commands' \in Seq(CommandRow) /\ crashes' \in 0 .. MaxCrashes
      BY <1>1 DEF BaseInv, TypeOK, LocalInv
    <2> QED
      BY <2>2, <2>7, <2>11, <2>12, <2>13, BaseFrame
  <1> QED
    BY <1>2, <1>3, ClaimDraws

LEMMA EmitBase ==
    ASSUME BaseInv, NEW h \in Hubs, Emit(h)
    PROVE  BaseInv'
  <1>1. UNCHANGED <<checkpoints, owner, retries, task, commands, crashes>>
    BY DEF Emit
  <1>2. PICK r2 : Moves(h, r2)
    BY EmitAppends DEF Works, Appends
  <1>3. hub' \in [Hubs -> HubState] /\ \A g \in Hubs : SoundMemory(hub'[g])
    BY <1>2, MovesOK
  <1>4. log' \in Seq(EventRow)
    <2>1. CASE log' = log
      BY <2>1, BaseTyped
    <2>2. CASE Appends(h)
      <3>1. Head(hub[h].out) \in EventRow
        <4>1. hub[h].out \in Seq(EventRow) /\ hub[h].out # <<>>
          BY <2>2, HubTyped DEF Appends, HubState
        <4> QED
          BY <4>1
      <3>2. log \in Seq(EventRow)
        BY BaseTyped
      <3> QED
        BY <2>2, <3>1, <3>2 DEF Appends
    <2> QED
      BY <2>1, <2>2, EmitAppends
  <1> QED
    BY <1>1, <1>3, <1>4, BaseFrame DEF BaseInv, TypeOK, LocalInv

\* Thread h stores its checkpoint, if the revision is still the next one.
LEMMA StoreView ==
    ASSUME BaseInv, NEW h \in Hubs, Store(h)
    PROVE  /\ Storing(h)
           /\ Moves(h, Idle)
           /\ \/ checkpoints' = checkpoints
              \/ /\ hub[h].token = Revision + 1
                 /\ \E c \in CheckpointRow :
                       /\ c.state = hub[h].st /\ c.base = hub[h].base
                       /\ checkpoints' = Append(checkpoints, c)
  <1>1. hub[h] \in HubState /\ SoundMemory(hub[h]) /\ SoundState(hub[h].st)
            /\ hub[h].st \in RunState
    BY HubTyped
  <1>2. Storing(h)
    BY DEF Store, At, Storing
  <1>3. Moves(h, Idle)
    BY IdleOK DEF Store, Raise, Moves
  <1>4. PICK c : c = [state |-> hub[h].st, base |-> hub[h].base]
    OBVIOUS
  <1>5. c \in CheckpointRow /\ c.state = hub[h].st /\ c.base = hub[h].base
    BY <1>1, <1>4 DEF CheckpointRow, HubState
  <1>6. \/ checkpoints' = checkpoints
        \/ hub[h].token = Revision + 1 /\ checkpoints' = Append(checkpoints, c)
    BY <1>4 DEF Store
  <1> QED
    BY <1>2, <1>3, <1>5, <1>6

LEMMA StoreBase ==
    ASSUME BaseInv, NEW h \in Hubs, Store(h)
    PROVE  BaseInv'
  <1>1. UNCHANGED <<log, owner, retries, task, commands, crashes>>
    BY DEF Store
  <1>2. hub' \in [Hubs -> HubState] /\ \A g \in Hubs : SoundMemory(hub'[g])
    BY StoreView, MovesOK
  <1>3. /\ checkpoints' \in Seq(CheckpointRow)
        /\ \A i \in DOMAIN checkpoints' : SoundState(checkpoints'[i].state)
    <2>1. /\ checkpoints \in Seq(CheckpointRow)
          /\ \A i \in DOMAIN checkpoints : SoundState(checkpoints[i].state)
      BY BaseTyped DEF BaseInv, LocalInv
    <2>2. CASE checkpoints' = checkpoints
      BY <2>1, <2>2
    <2>3. CASE \E c \in CheckpointRow : c.state = hub[h].st /\ checkpoints' = Append(checkpoints, c)
      <3>1. PICK c \in CheckpointRow : c.state = hub[h].st /\ checkpoints' = Append(checkpoints, c)
        BY <2>3
      <3>2. SoundState(c.state)
        BY <3>1, HubTyped
      <3>3. \A i \in DOMAIN checkpoints' :
                \/ i \in DOMAIN checkpoints /\ checkpoints'[i] = checkpoints[i]
                \/ checkpoints'[i] = c
        BY <2>1, <3>1
      <3> QED
        BY <2>1, <3>1, <3>2, <3>3
    <2> QED
      BY <2>2, <2>3, StoreView
  <1> QED
    BY <1>1, <1>2, <1>3, BaseFrame DEF BaseInv, TypeOK, LocalInv

\* The world around the Hub.
LEMMA WorldBase ==
    ASSUME BaseInv,
           \/ \E h \in Hubs : Crash(h)
           \/ \E n \in Nodes : Expire(n)
           \/ \E n \in Nodes, a \in Attempts : Authorize(n, a) \/ Work(n, a)
           \/ Issue
    PROVE  BaseInv'
  <1>0. hub \in [Hubs -> HubState] /\ \A g \in Hubs : SoundMemory(hub[g])
    BY DEF BaseInv, TypeOK, LocalInv
  <1>1. CASE \E h \in Hubs : Crash(h)
    <2>1. PICK h \in Hubs : Crash(h)
      BY <1>1
    <2>2. Moves(h, Idle)
      BY <2>1, IdleOK DEF Crash, Raise, Moves
    <2>3. hub' \in [Hubs -> HubState] /\ \A g \in Hubs : SoundMemory(hub'[g])
      BY <2>2, MovesOK
    <2>4. crashes' \in 0 .. MaxCrashes /\ UNCHANGED <<log, checkpoints, owner, retries, task, commands>>
      BY <2>1, BoundAssumption DEF Crash, BaseInv, TypeOK
    <2> QED
      BY <2>3, <2>4, BaseFrame DEF BaseInv, TypeOK, LocalInv
  <1>2. CASE \E n \in Nodes : Expire(n)
    <2>1. PICK n \in Nodes : Expire(n)
      BY <1>2
    <2>2. PICK row : row = [owner[n] EXCEPT !.live = FALSE]
      OBVIOUS
    <2>3. owner \in [Nodes -> OwnerRow]
      BY BaseTyped
    <2>4. row \in OwnerRow /\ row.token = owner[n].token
      BY <2>2, <2>3 DEF OwnerRow
    <2>5. owner' = [owner EXCEPT ![n] = row]
      BY <2>1, <2>2 DEF Expire
    <2>6. owner' \in [Nodes -> OwnerRow] /\ \A m \in Nodes : owner'[m].token = owner[m].token
      BY <2>3, <2>4, <2>5
    <2>7. UNCHANGED <<log, checkpoints, retries, task, commands, hub, crashes>>
      BY <2>1 DEF Expire
    <2> QED
      BY <1>0, <2>6, <2>7, BaseTyped, QuietBase
  <1>3. CASE \E n \in Nodes, a \in Attempts : Authorize(n, a)
    <2>1. PICK n \in Nodes, a \in Attempts : Authorize(n, a)
      BY <1>3
    <2>2. PICK e : e = Event("authorized", n, a)
      OBVIOUS
    <2>3. e \in EventRow
      BY <2>2, PlanAssumption DEF Event, EventRow, EventKinds, Attempts
    <2>4. log' = Append(log, e) /\ UNCHANGED <<checkpoints, owner, retries, task, commands, hub, crashes>>
      BY <2>1, <2>2 DEF Authorize
    <2>5. log' \in Seq(EventRow)
      BY <2>3, <2>4, BaseTyped
    <2> QED
      BY <1>0, <2>4, <2>5, BaseFrame DEF BaseInv, TypeOK, LocalInv
  <1>4. CASE \E n \in Nodes, a \in Attempts : Work(n, a)
    <2>1. PICK n \in Nodes, a \in Attempts : Work(n, a)
      BY <1>4
    <2>2. PICK o \in Outcomes[n] : task' = [task EXCEPT ![n][a] = o]
      BY <2>1 DEF Work
    <2>3. o \in TaskDone
      BY <2>2, PlanAssumption DEF Outcome, TaskDone
    <2>4. task' \in [Nodes -> [Attempts -> {"absent", "created"} \cup TaskDone]]
      BY <2>2, <2>3, BaseTyped
    <2>5. UNCHANGED <<log, checkpoints, owner, retries, commands, hub, crashes>>
      BY <2>1 DEF Work
    <2> QED
      BY <1>0, <2>4, <2>5, BaseTyped, QuietBase
  <1>5. CASE Issue
    <2>1. PICK k \in CommandKinds, n \in {0} \cup Nodes :
             commands' = Append(commands, [kind |-> k, step |-> n, rev |-> Revision])
      BY <1>5 DEF Issue
    <2>2. PICK c : c = [kind |-> k, step |-> n, rev |-> Revision]
      OBVIOUS
    <2>3. c \in CommandRow
      <3>1. Revision \in Nat \ {0} /\ k \in Commands
        BY <1>5, BaseTyped, PlanAssumption DEF Issue
      <3> QED
        BY <2>2, <3>1 DEF CommandRow
    <2>4. commands' \in Seq(CommandRow)
      BY <2>1, <2>2, <2>3, BaseTyped
    <2>5. UNCHANGED <<log, checkpoints, owner, retries, task, hub, crashes>>
      BY <1>5 DEF Issue
    <2> QED
      BY <1>0, <2>4, <2>5, BaseFrame DEF BaseInv, TypeOK, LocalInv
  <1> QED
    BY <1>1, <1>2, <1>3, <1>4, <1>5

LEMMA BaseInit == Init => BaseInv
  <1> SUFFICES ASSUME Init PROVE BaseInv
    OBVIOUS
  <1>1. log \in Seq(EventRow) /\ checkpoints \in Seq(CheckpointRow) /\ commands \in Seq(CommandRow)
    BY DEF Init
  <1>2. PICK row : row = [token |-> 0, status |-> "none", live |-> FALSE]
    OBVIOUS
  <1>3. row \in OwnerRow /\ row.token = 0
    BY <1>2 DEF OwnerRow
  <1>4. owner = [n \in Nodes |-> row]
    BY <1>2 DEF Init
  <1>5. owner \in [Nodes -> OwnerRow] /\ \A n \in Nodes : owner[n].token = 0
    BY <1>3, <1>4
  <1>6. retries \in 0 .. MaxAttempts - 1 /\ retries = 0 /\ crashes \in 0 .. MaxCrashes
    BY PlanAssumption, BoundAssumption DEF Init
  <1>7. task \in [Nodes -> [Attempts -> {"absent", "created"} \cup TaskDone]]
    BY DEF Init
  <1>8. hub \in [Hubs -> HubState] /\ \A h \in Hubs : SoundMemory(hub[h])
    BY IdleOK DEF Init
  <1>9. \A i \in DOMAIN checkpoints : SoundState(checkpoints[i].state)
    BY DEF Init
  <1>10. \A n \in Nodes : owner[n].token <= retries + 1
    BY <1>5, <1>6
  <1> QED
    BY <1>1, <1>5, <1>6, <1>7, <1>8, <1>9, <1>10 DEF BaseInv, TypeOK, LocalInv

\* Every step keeps the types and what a thread knows by itself.
LEMMA BaseStep == BaseInv /\ [Next]_vars => BaseInv'
  <1> SUFFICES ASSUME BaseInv, [Next]_vars PROVE BaseInv'
    OBVIOUS
  <1>1. CASE \E h \in Hubs : Start(h) \/ Advance(h) \/ \E c \in DOMAIN commands : Resume(h, c)
    BY <1>1, MemoryBase
  <1>2. CASE \E h \in Hubs : Step(h)
    <2>1. PICK h \in Hubs : Step(h)
      BY <1>2
    <2>2. CASE Poll(h) \/ Skip(h) \/ Merge(h) \/ Select(h) \/ Dispatch(h) \/ EndRun(h) \/ Finish(h)
                 \/ Unreconciled(h) \/ Refuse(h) \/ Save(h)
      BY <2>2, MemoryBase
    <2>3. CASE CollectCompleted(h) \/ CollectFailed(h) \/ Fence(h)
      BY <2>3, CollectBase
    <2>4. CASE Submit(h) \/ CancelTask(h)
      BY <2>4, TaskBase
    <2> QED
      BY <2>1, <2>2, <2>3, <2>4, ClaimBase, EmitBase, StoreBase DEF Step
  <1>3. CASE \/ \E h \in Hubs : Crash(h)
             \/ \E n \in Nodes : Expire(n)
             \/ \E n \in Nodes, a \in Attempts : Authorize(n, a) \/ Work(n, a)
             \/ Issue
    BY <1>3, WorldBase
  <1>4. CASE UNCHANGED vars
    <2>1. BaseInv' <=> BaseInv
      BY <1>4 DEF vars, BaseInv, TypeOK, LocalInv
    <2> QED
      BY <2>1
  <1> QED
    BY <1>1, <1>2, <1>3, <1>4 DEF Next

-----------------------------------------------------------------------------
(* The chain of checkpoints. *)

\* What the chain is about are numbers.
LEMMA Numbers ==
    ASSUME BaseInv
    PROVE  /\ Len(log) \in Nat /\ Revision \in Nat /\ DOMAIN checkpoints = 1 .. Revision
           /\ \A h \in Hubs : /\ hub[h].base \in Nat /\ hub[h].cmd \in Nat /\ hub[h].token \in Nat
                              /\ hub[h].st.seq \in Nat /\ hub[h].st.last \in Nat
           /\ \A i \in 1 .. Revision : /\ checkpoints[i].state.seq \in Nat
                                       /\ checkpoints[i].state.last \in Nat
  <1>1. Len(log) \in Nat /\ Revision \in Nat /\ DOMAIN checkpoints = 1 .. Revision
    BY BaseTyped DEF Revision
  <1>2. ASSUME NEW h \in Hubs
        PROVE  /\ hub[h].base \in Nat /\ hub[h].cmd \in Nat /\ hub[h].token \in Nat
               /\ hub[h].st.seq \in Nat /\ hub[h].st.last \in Nat
    BY HubTyped DEF HubState, RunState
  <1>3. ASSUME NEW i \in 1 .. Revision
        PROVE  checkpoints[i].state.seq \in Nat /\ checkpoints[i].state.last \in Nat
    <2>1. checkpoints[i] \in CheckpointRow
      BY <1>1, <1>3, BaseTyped
    <2> QED
      BY <2>1 DEF CheckpointRow, RunState
  <1> QED
    BY <1>1, <1>2, <1>3

\* What the invariant says of a thread, and of the saved revisions.
LEMMA ChainFacts ==
    ASSUME BaseInv, ChainInv
    PROVE  /\ \A i \in 1 .. Revision : /\ checkpoints[i].state.seq > 0
                                       /\ checkpoints[i].state.seq <= Len(log)
           /\ \A i \in 0 .. Revision : SeqAt(i) \in Nat /\ SeqAt(i) <= Len(log)
           /\ \A h \in Hubs : CopyBehind(h) /\ StoresNext(h) /\ CommandBound(h)
  <1>1. \A i \in 1 .. Revision : /\ checkpoints[i].state.seq > 0
                                 /\ checkpoints[i].state.seq <= Len(log)
                                 /\ checkpoints[i].state.seq \in Nat
    BY Numbers DEF ChainInv
  <1>2. \A i \in 0 .. Revision : SeqAt(i) \in Nat /\ SeqAt(i) <= Len(log)
    BY <1>1, Numbers DEF SeqAt
  <1> QED
    BY <1>1, <1>2 DEF ChainInv

\* A thread that does not move while the log and the commands grow.
LEMMA OthersKeep ==
    ASSUME BaseInv, ChainInv, checkpoints' = checkpoints, Len(log') \in Nat, Len(log) <= Len(log'),
           \A c \in DOMAIN commands : c \in DOMAIN commands' /\ commands'[c] = commands[c],
           NEW g \in Hubs, hub'[g] = hub[g]
    PROVE  /\ CopyBehind(g)' /\ CommandBound(g)'
           /\ hub'[g].pc = "store" => hub'[g].base < hub'[g].token /\ hub'[g].token <= Revision' + 1
  <1>1. CopyBehind(g) /\ StoresNext(g) /\ CommandBound(g)
    BY DEF ChainInv
  <1>2. Revision' = Revision /\ \A i : SeqAt(i)' = SeqAt(i) /\ LastAt(i)' = LastAt(i)
    BY DEF Revision, SeqAt, LastAt
  <1>3. CopyBehind(g)'
    BY <1>1, <1>2, Numbers DEF CopyBehind
  <1>4. CommandBound(g)'
    BY <1>1, <1>2 DEF CommandBound
  <1>5. hub'[g].pc = "store" => hub'[g].base < hub'[g].token /\ hub'[g].token <= Revision' + 1
    BY <1>1, <1>2 DEF StoresNext
  <1> QED
    BY <1>3, <1>4, <1>5

\* The saved revisions are as good as before.
LEMMA SavedKeep ==
    ASSUME BaseInv, ChainInv, checkpoints' = checkpoints, Len(log') \in Nat, Len(log) <= Len(log'),
           \A c \in DOMAIN commands : c \in DOMAIN commands' /\ commands'[c] = commands[c],
           \A g \in Hubs : CopyBehind(g)' /\ StoresNext(g)' /\ CommandBound(g)'
    PROVE  ChainInv'
  <1>1. CheckpointChain /\ CommandOnce
           /\ \A i \in DOMAIN checkpoints : checkpoints[i].state.last \in {0} \cup DOMAIN commands
    BY DEF ChainInv
  <1>2. CheckpointChain'
    BY <1>1 DEF CheckpointChain
  <1>3. CommandOnce'
    <2> SUFFICES ASSUME NEW r \in DOMAIN checkpoints, checkpoints[r].state.last # 0,
                        r = 1 \/ checkpoints[r - 1].state.last # checkpoints[r].state.last
                 PROVE  commands'[checkpoints[r].state.last].rev = r - 1
      BY DEF CommandOnce
    <2>1. commands[checkpoints[r].state.last].rev = r - 1
      BY <1>1 DEF CommandOnce
    <2>2. checkpoints[r].state.last \in DOMAIN commands
      BY <1>1
    <2> QED
      BY <2>1, <2>2
  <1>4. \A i \in DOMAIN checkpoints' : checkpoints'[i].state.seq \in 1 .. Len(log')
    BY Numbers DEF ChainInv
  <1>5. \A i \in DOMAIN checkpoints' : checkpoints'[i].state.last \in {0} \cup DOMAIN commands'
    BY <1>1
  <1> QED
    BY <1>2, <1>3, <1>4, <1>5 DEF ChainInv

\* A thread that goes on, or gives up.
LEMMA ChainMoves ==
    ASSUME BaseInv, ChainInv, NEW h \in Hubs, NEW r2, Moves(h, r2),
           r2 = Idle \/ Keeps(hub[h], r2),
           UNCHANGED <<log, checkpoints, commands>>
    PROVE  ChainInv'
  <1>1. /\ hub'[h] = r2
        /\ \A g \in Hubs \ {h} : hub'[g] = hub[g]
    BY MovesOK
  <1>2. Revision' = Revision /\ \A i : SeqAt(i)' = SeqAt(i) /\ LastAt(i)' = LastAt(i)
    BY DEF Revision, SeqAt, LastAt
  <1>3. /\ r2.pc # "store"
        /\ \/ r2.base = 0 /\ r2.cmd = 0 /\ r2.st.seq = 0 /\ r2.st.last = 0
           \/ /\ r2.base = hub[h].base /\ r2.cmd = hub[h].cmd
              /\ r2.st.seq = hub[h].st.seq /\ r2.st.last = hub[h].st.last
    BY IdleOK DEF Keeps, NewRun
  <1>4. CopyBehind(h) /\ CommandBound(h)
    BY DEF ChainInv
  <1>5. CopyBehind(h)'
    <2>1. CASE r2.base = 0 /\ r2.cmd = 0 /\ r2.st.seq = 0 /\ r2.st.last = 0
      BY <1>1, <1>2, <2>1, Numbers, ChainFacts DEF CopyBehind, SeqAt
    <2>2. CASE r2.base = hub[h].base /\ r2.st.seq = hub[h].st.seq
      BY <1>1, <1>2, <1>4, <2>2 DEF CopyBehind
    <2> QED
      BY <1>3, <2>1, <2>2
  <1>6. CommandBound(h)'
    <2>1. CASE r2.base = 0 /\ r2.cmd = 0 /\ r2.st.seq = 0 /\ r2.st.last = 0
      BY <1>1, <1>2, <2>1 DEF CommandBound, LastAt
    <2>2. CASE r2.base = hub[h].base /\ r2.cmd = hub[h].cmd /\ r2.st.last = hub[h].st.last
      BY <1>1, <1>2, <1>4, <2>2 DEF CommandBound
    <2> QED
      BY <1>3, <2>1, <2>2
  <1>7. StoresNext(h)'
    BY <1>1, <1>3 DEF StoresNext, Storing
  <1>8. ASSUME NEW g \in Hubs \ {h}
        PROVE  CopyBehind(g)' /\ StoresNext(g)' /\ CommandBound(g)'
    <2>1. /\ CopyBehind(g)' /\ CommandBound(g)'
          /\ hub'[g].pc = "store" => hub'[g].base < hub'[g].token /\ hub'[g].token <= Revision' + 1
      BY <1>1, <1>8, OthersKeep, Numbers
    <2>2. ASSUME Storing(g)'
          PROVE  /\ hub[g].base = Revision /\ hub[g].token = Revision + 1
                 /\ SeqAt(hub[g].base) < hub[g].st.seq
                 /\ \A f \in Hubs \ {g} : hub'[f].st.seq < hub[g].st.seq
      <3>1. /\ hub[g].base = Revision /\ hub[g].token = Revision + 1
            /\ SeqAt(hub[g].base) < hub[g].st.seq
            /\ \A f \in Hubs \ {g} : hub[f].st.seq < hub[g].st.seq
        BY <1>1, <1>8, <2>2 DEF ChainInv, StoresNext, Storing
      <3>2. SeqAt(hub[g].base) \in Nat /\ hub[g].st.seq \in Nat
        BY <3>1, ChainFacts, Numbers
      <3>3. r2.st.seq < hub[g].st.seq
        BY <1>3, <1>8, <3>1, <3>2
      <3> QED
        BY <1>1, <3>1, <3>3
    <2> QED
      BY <1>1, <1>2, <1>8, <2>1, <2>2 DEF StoresNext
  <1> QED
    BY <1>5, <1>6, <1>7, <1>8, SavedKeep, Numbers

\* A thread loads the latest checkpoint.
LEMMA ChainLoads ==
    ASSUME BaseInv, ChainInv, NEW h \in Hubs, Loads(h), UNCHANGED <<log, checkpoints, commands>>
    PROVE  ChainInv'
  <1>1. PICK r2 : /\ Moves(h, r2)
                  /\ r2.pc # "store" /\ r2.base = Revision
                  /\ r2.st.seq = SeqAt(Revision) /\ r2.st.last = LastAt(Revision)
                  /\ Revision > 0 => checkpoints[Revision].state.status # "completed"
                  /\ r2.cmd # 0 => r2.cmd \in DOMAIN commands /\ commands[r2.cmd].rev = Revision
    BY DEF Loads, SeqAt, LastAt, Latest
  <1>2. /\ hub'[h] = r2
        /\ \A g \in Hubs \ {h} : hub'[g] = hub[g]
    BY <1>1, MovesOK
  <1>3. Revision' = Revision /\ \A i : SeqAt(i)' = SeqAt(i) /\ LastAt(i)' = LastAt(i)
    BY DEF Revision, SeqAt, LastAt
  <1>4. SeqAt(Revision) \in Nat /\ SeqAt(Revision) <= Len(log) /\ Revision \in Nat
    BY ChainFacts, Numbers
  <1>5. CopyBehind(h)'
    BY <1>1, <1>2, <1>3, <1>4, Numbers DEF CopyBehind
  <1>6. CommandBound(h)' /\ StoresNext(h)'
    BY <1>1, <1>2, <1>3 DEF CommandBound, StoresNext, Storing
  <1>7. ASSUME NEW g \in Hubs \ {h}
        PROVE  CopyBehind(g)' /\ StoresNext(g)' /\ CommandBound(g)'
    <2>1. /\ CopyBehind(g)' /\ CommandBound(g)'
          /\ hub'[g].pc = "store" => hub'[g].base < hub'[g].token /\ hub'[g].token <= Revision' + 1
      BY <1>2, <1>7, OthersKeep, Numbers
    <2>2. ASSUME Storing(g)'
          PROVE  /\ hub[g].base = Revision /\ hub[g].token = Revision + 1
                 /\ SeqAt(hub[g].base) < hub[g].st.seq
                 /\ \A f \in Hubs \ {g} : hub'[f].st.seq < hub[g].st.seq
      BY <1>1, <1>2, <1>7, <2>2 DEF ChainInv, StoresNext, Storing
    <2> QED
      BY <1>2, <1>3, <1>7, <2>1, <2>2 DEF StoresNext
  <1> QED
    BY <1>5, <1>6, <1>7, SavedKeep, Numbers

\* A thread announces its checkpoint.
LEMMA ChainSaves ==
    ASSUME BaseInv, ChainInv, NEW h \in Hubs, Saves(h), UNCHANGED <<log, checkpoints, commands>>
    PROVE  ChainInv'
  <1>1. PICK r2 : /\ Moves(h, r2)
                  /\ r2.base = hub[h].base /\ r2.cmd = hub[h].cmd
                  /\ r2.token = Revision + 1 /\ r2.out # <<>> /\ r2.st.seq = hub[h].st.seq
                  /\ r2.st.last = IF hub[h].cmd = 0 THEN hub[h].st.last ELSE hub[h].cmd
    BY DEF Saves
  <1>2. /\ hub'[h] = r2
        /\ \A g \in Hubs \ {h} : hub'[g] = hub[g]
    BY <1>1, MovesOK
  <1>3. Revision' = Revision /\ \A i : SeqAt(i)' = SeqAt(i) /\ LastAt(i)' = LastAt(i)
    BY DEF Revision, SeqAt, LastAt
  <1>4. CopyBehind(h) /\ CommandBound(h)
    BY DEF ChainInv
  <1>5. CopyBehind(h)'
    BY <1>1, <1>2, <1>3, <1>4 DEF CopyBehind
  <1>6. CommandBound(h)'
    BY <1>1, <1>2, <1>3, <1>4 DEF CommandBound
  <1>7. StoresNext(h)'
    <2>1. r2.base < r2.token /\ r2.token <= Revision' + 1
      BY <1>1, <1>3, <1>4, Numbers DEF CopyBehind
    <2> QED
      BY <1>1, <1>2, <2>1 DEF StoresNext, Storing
  <1>8. ASSUME NEW g \in Hubs \ {h}
        PROVE  CopyBehind(g)' /\ StoresNext(g)' /\ CommandBound(g)'
    <2>1. /\ CopyBehind(g)' /\ CommandBound(g)'
          /\ hub'[g].pc = "store" => hub'[g].base < hub'[g].token /\ hub'[g].token <= Revision' + 1
      BY <1>2, <1>8, OthersKeep, Numbers
    <2>2. ASSUME Storing(g)'
          PROVE  /\ hub[g].base = Revision /\ hub[g].token = Revision + 1
                 /\ SeqAt(hub[g].base) < hub[g].st.seq
                 /\ \A f \in Hubs \ {g} : hub'[f].st.seq < hub[g].st.seq
      BY <1>1, <1>2, <1>8, <2>2 DEF ChainInv, StoresNext, Storing
    <2> QED
      BY <1>2, <1>3, <1>8, <2>1, <2>2 DEF StoresNext
  <1> QED
    BY <1>5, <1>6, <1>7, <1>8, SavedKeep, Numbers

\* A thread appends an event: no checkpoint has overtaken it, and no other
\* thread has announced one.
LEMMA ChainAppends ==
    ASSUME BaseInv, ChainInv, NEW h \in Hubs, Appends(h), UNCHANGED <<checkpoints, commands>>
    PROVE  ChainInv'
  <1>1. PICK r2 : /\ Moves(h, r2)
                  /\ hub[h].st.seq = Len(log)
                  /\ log' = Append(log, Head(hub[h].out))
                  /\ r2.pc = hub[h].pc /\ r2.base = hub[h].base /\ r2.cmd = hub[h].cmd
                  /\ r2.token = hub[h].token
                  /\ r2.st.seq = Len(log) + 1 /\ r2.st.last = hub[h].st.last
    BY DEF Appends
  <1>2. /\ hub'[h] = r2
        /\ \A g \in Hubs \ {h} : hub'[g] = hub[g]
    BY <1>1, MovesOK
  <1>3. Revision' = Revision /\ \A i : SeqAt(i)' = SeqAt(i) /\ LastAt(i)' = LastAt(i)
    BY DEF Revision, SeqAt, LastAt
  <1>4. Len(log') = Len(log) + 1 /\ Len(log) \in Nat /\ Len(log') \in Nat
    BY <1>1, BaseTyped
  <1>5. CopyBehind(h) /\ CommandBound(h) /\ StoresNext(h)
    BY DEF ChainInv
  <1>6. hub[h].base = Revision
    <2>1. ASSUME NEW i \in 1 .. Revision
          PROVE  ~ (hub[h].base < i)
      <3>1. i \in DOMAIN checkpoints
        BY Numbers
      <3>2. hub[h].base < i => hub[h].st.seq < checkpoints[i].state.seq
        BY <1>5, <3>1 DEF CopyBehind
      <3>3. checkpoints[i].state.seq <= Len(log) /\ checkpoints[i].state.seq \in Nat
        BY Numbers, ChainFacts
      <3>4. hub[h].st.seq = Len(log) /\ Len(log) \in Nat
        BY <1>1, Numbers
      <3> QED
        BY <3>2, <3>3, <3>4
    <2> QED
      BY <1>5, <2>1, Numbers DEF CopyBehind
  <1>7. SeqAt(Revision) \in Nat /\ SeqAt(Revision) <= Len(log)
    BY ChainFacts, Numbers
  <1>8. CopyBehind(h)'
    BY <1>1, <1>2, <1>3, <1>4, <1>6, <1>7, Numbers DEF CopyBehind
  <1>9. CommandBound(h)'
    BY <1>1, <1>2, <1>3, <1>5 DEF CommandBound
  <1>10. \A g \in Hubs \ {h} : hub[g].st.seq \in Nat /\ hub[g].st.seq <= Len(log)
    BY Numbers, ChainFacts DEF CopyBehind
  <1>11. StoresNext(h)'
    <2>1. hub[h].pc = "store" => hub[h].token = Revision + 1
      BY <1>5, <1>6, Numbers DEF StoresNext
    <2>2. SeqAt(Revision) < r2.st.seq /\ \A g \in Hubs \ {h} : hub'[g].st.seq < r2.st.seq
      BY <1>1, <1>2, <1>4, <1>7, <1>10
    <2>3. hub[h].pc = "store" => hub[h].base < hub[h].token /\ hub[h].token <= Revision + 1
      BY <1>5 DEF StoresNext
    <2> QED
      BY <1>1, <1>2, <1>3, <1>6, <2>1, <2>2, <2>3 DEF StoresNext, Storing
  <1>12. ASSUME NEW g \in Hubs \ {h}
         PROVE  CopyBehind(g)' /\ StoresNext(g)' /\ CommandBound(g)'
    <2>1. /\ CopyBehind(g)' /\ CommandBound(g)'
          /\ hub'[g].pc = "store" => hub'[g].base < hub'[g].token /\ hub'[g].token <= Revision' + 1
      BY <1>2, <1>4, <1>12, OthersKeep
    <2>2. ~ Storing(g)
      <3>1. SUFFICES ASSUME Storing(g) PROVE FALSE
        OBVIOUS
      <3>2. hub[h].st.seq < hub[g].st.seq
        BY <1>12, <3>1 DEF ChainInv, StoresNext
      <3> QED
        BY <1>1, <1>4, <1>10, <1>12, <3>2
    <2>3. ~ Storing(g)'
      BY <1>2, <1>12, <2>2 DEF Storing
    <2> QED
      BY <2>1, <2>3 DEF StoresNext
  <1> QED
    BY <1>4, <1>8, <1>9, <1>11, <1>12, SavedKeep

\* The worker gateway appends, or an operator issues a command.
LEMMA ChainGrows ==
    ASSUME BaseInv, ChainInv, UNCHANGED <<checkpoints, hub>>,
           Len(log') \in Nat, Len(log) <= Len(log'),
           \A c \in DOMAIN commands : c \in DOMAIN commands' /\ commands'[c] = commands[c]
    PROVE  ChainInv'
  <1>1. Revision' = Revision /\ \A i : SeqAt(i)' = SeqAt(i)
    BY DEF Revision, SeqAt
  <1>2. ASSUME NEW g \in Hubs
        PROVE  CopyBehind(g)' /\ StoresNext(g)' /\ CommandBound(g)'
    <2>1. CopyBehind(g)' /\ CommandBound(g)'
      BY OthersKeep
    <2>2. StoresNext(g)'
      BY <1>1 DEF ChainInv, StoresNext, Storing
    <2> QED
      BY <2>1, <2>2
  <1> QED
    BY <1>2, SavedKeep

\* A thread stores its checkpoint: it was computed from the latest one, and
\* whoever else is at work has fallen behind.
LEMMA ChainStores ==
    ASSUME BaseInv, BaseInv', ChainInv, NEW h \in Hubs, Store(h)
    PROVE  /\ ChainInv'
           /\ checkpoints' = checkpoints \/ (Revision > 0 => Latest.status # "completed")
  <1>1. UNCHANGED <<log, commands>>
    BY DEF Store
  <1>2. Storing(h) /\ Moves(h, Idle)
    BY StoreView
  <1>3. CASE checkpoints' = checkpoints
    BY <1>1, <1>2, <1>3, ChainMoves
  <1>4. CASE \E c \in CheckpointRow : /\ c.state = hub[h].st /\ c.base = hub[h].base
                                      /\ checkpoints' = Append(checkpoints, c)
    <2>1. PICK c \in CheckpointRow : /\ c.state = hub[h].st /\ c.base = hub[h].base
                                     /\ checkpoints' = Append(checkpoints, c)
      BY <1>4
    <2> DEFINE last == hub[h].st.last
               seq == hub[h].st.seq
    <2>2. /\ Revision \in Nat /\ Revision' = Revision + 1
          /\ checkpoints'[Revision + 1] = c
          /\ \A i \in 1 .. Revision : checkpoints'[i] = checkpoints[i]
          /\ DOMAIN checkpoints = 1 .. Revision
          /\ DOMAIN checkpoints' = 1 .. Revision + 1
      BY <2>1, BaseTyped DEF Revision
    <2>3. \A i \in 0 .. Revision : SeqAt(i)' = SeqAt(i) /\ LastAt(i)' = LastAt(i)
      BY <2>2 DEF SeqAt, LastAt
    <2>4. /\ hub'[h] = Idle
          /\ \A g \in Hubs \ {h} : hub'[g] = hub[g]
      BY <1>2, MovesOK
    <2>5. /\ hub[h].base = Revision
          /\ SeqAt(Revision) < seq
          /\ \A g \in Hubs \ {h} : hub[g].st.seq < seq
      BY <1>2 DEF ChainInv, StoresNext
    <2>6. seq \in 1 .. Len(log) /\ last \in Nat /\ Len(log) \in Nat
      <3>1. seq \in Nat /\ last \in Nat /\ seq <= Len(log) /\ Len(log) \in Nat
        BY Numbers, ChainFacts DEF CopyBehind
      <3>2. SeqAt(Revision) \in Nat
        BY <2>2, ChainFacts
      <3> QED
        BY <2>5, <3>1, <3>2
    <2>7. /\ hub[h].cmd # 0 => hub[h].cmd \in DOMAIN commands /\ commands[hub[h].cmd].rev = Revision
          /\ last = LastAt(Revision) \/ (hub[h].cmd # 0 /\ last = hub[h].cmd)
          /\ Revision > 0 => checkpoints[Revision].state.status # "completed"
      BY <2>5 DEF ChainInv, CommandBound
    <2>8. c.state.seq = seq /\ c.state.last = last /\ c.base = Revision
      BY <2>1, <2>5
    <2> HIDE DEF last, seq
    <2>9. CheckpointChain'
      <3>1. \A i \in 1 .. Revision : checkpoints[i].base = i - 1
        BY <2>2 DEF ChainInv, CheckpointChain
      <3>2. ASSUME NEW i \in 1 .. Revision + 1
            PROVE  checkpoints'[i].base = i - 1
        <4>1. CASE i = Revision + 1
          BY <2>2, <2>8, <4>1
        <4>2. CASE i \in 1 .. Revision
          BY <2>2, <3>1, <4>2
        <4> QED
          BY <2>2, <3>2, <4>1, <4>2
      <3> QED
        BY <2>2, <3>2 DEF CheckpointChain
    <2>10. CommandOnce'
      <3> SUFFICES ASSUME NEW i \in 1 .. Revision + 1, checkpoints'[i].state.last # 0,
                          i = 1 \/ checkpoints'[i - 1].state.last # checkpoints'[i].state.last
                   PROVE  commands[checkpoints'[i].state.last].rev = i - 1
        BY <1>1, <2>2 DEF CommandOnce
      <3>1. CASE i = Revision + 1
        <4>1. checkpoints'[i].state.last = last
          BY <2>2, <2>8, <3>1
        <4>2. last # LastAt(Revision)
          <5>1. CASE Revision = 0
            BY <4>1, <5>1 DEF LastAt
          <5>2. CASE Revision # 0
            BY <2>2, <3>1, <4>1, <5>2 DEF LastAt
          <5> QED
            BY <5>1, <5>2
        <4> QED
          BY <2>2, <2>7, <3>1, <4>1, <4>2
      <3>2. CASE i \in 1 .. Revision
        <4>1. checkpoints'[i] = checkpoints[i] /\ (i # 1 => checkpoints'[i - 1] = checkpoints[i - 1])
          BY <2>2, <3>2
        <4> QED
          BY <2>2, <3>2, <4>1 DEF ChainInv, CommandOnce
      <3> QED
        BY <2>2, <3>1, <3>2
    <2>11. \A i \in 1 .. Revision + 1 : /\ checkpoints'[i].state.seq \in 1 .. Len(log)
                                        /\ checkpoints'[i].state.last \in {0} \cup DOMAIN commands
      <3>1. ASSUME NEW i \in 1 .. Revision
            PROVE  /\ checkpoints[i].state.seq \in 1 .. Len(log)
                   /\ checkpoints[i].state.last \in {0} \cup DOMAIN commands
        BY <2>2, <3>1 DEF ChainInv
      <3>2. last \in {0} \cup DOMAIN commands
        <4>1. LastAt(Revision) \in {0} \cup DOMAIN commands
          BY <2>2, <3>1 DEF LastAt
        <4> QED
          BY <2>7, <4>1
      <3> QED
        BY <2>2, <2>6, <2>8, <3>1, <3>2
    <2>12. CopyBehind(h)' /\ StoresNext(h)' /\ CommandBound(h)'
      <3>1. hub'[h].base = 0 /\ hub'[h].cmd = 0 /\ hub'[h].st.seq = 0 /\ hub'[h].st.last = 0
              /\ hub'[h].pc = "idle"
        BY <2>4, IdleOK DEF NewRun
      <3>2. CopyBehind(h)'
        <4>1. \A i \in 1 .. Revision + 1 : 0 < checkpoints'[i].state.seq
          BY <2>6, <2>11
        <4> QED
          BY <1>1, <2>2, <2>6, <3>1, <4>1 DEF CopyBehind, SeqAt
      <3> QED
        BY <3>1, <3>2 DEF StoresNext, Storing, CommandBound, LastAt
    <2>13. ASSUME NEW g \in Hubs \ {h}
           PROVE  CopyBehind(g)' /\ StoresNext(g)' /\ CommandBound(g)'
      <3>1. hub'[g] = hub[g] /\ CopyBehind(g) /\ StoresNext(g) /\ CommandBound(g)
        BY <2>4, <2>13 DEF ChainInv
      <3>2. hub[g].base \in 0 .. Revision /\ hub[g].st.seq \in Nat /\ hub[g].token \in Nat
        BY <2>2, <2>13, <3>1, Numbers DEF CopyBehind
      <3>3. CopyBehind(g)'
        <4>1. ASSUME NEW i \in 1 .. Revision + 1, hub[g].base < i
              PROVE  hub[g].st.seq < checkpoints'[i].state.seq
          <5>1. CASE i = Revision + 1
            BY <2>2, <2>5, <2>8, <2>13, <5>1
          <5>2. CASE i \in 1 .. Revision
            BY <2>2, <3>1, <4>1, <5>2 DEF CopyBehind
          <5> QED
            BY <2>2, <4>1, <5>1, <5>2
        <4>2. hub[g].base <= Revision'
          BY <2>2, <3>2
        <4>3. SeqAt(hub[g].base) <= hub[g].st.seq /\ hub[g].st.seq <= Len(log)
          BY <3>1 DEF CopyBehind
        <4> QED
          BY <1>1, <2>2, <2>3, <3>1, <3>2, <4>1, <4>2, <4>3 DEF CopyBehind
      <3>4. StoresNext(g)'
        <4>1. ~ Storing(g)
          <5>1. SUFFICES ASSUME Storing(g) PROVE FALSE
            OBVIOUS
          <5>2. seq < hub[g].st.seq
            BY <2>13, <3>1, <5>1 DEF StoresNext, seq
          <5> QED
            BY <2>5, <2>6, <2>13, <3>2, <5>2
        <4>2. hub[g].pc = "store" => hub[g].base < hub[g].token /\ hub[g].token <= Revision' + 1
          BY <2>2, <3>1, <3>2 DEF StoresNext
        <4> QED
          BY <3>1, <4>1, <4>2 DEF StoresNext, Storing
      <3>5. CommandBound(g)'
        <4>1. hub[g].base > 0 => checkpoints'[hub[g].base] = checkpoints[hub[g].base]
          BY <2>2, <3>2
        <4> QED
          BY <1>1, <2>3, <3>1, <3>2, <4>1 DEF CommandBound
      <3> QED
        BY <3>3, <3>4, <3>5
    <2>14. ChainInv'
      <3>1. \A g \in Hubs : CopyBehind(g)' /\ StoresNext(g)' /\ CommandBound(g)'
        BY <2>12, <2>13
      <3> QED
        BY <1>1, <2>2, <2>9, <2>10, <2>11, <3>1 DEF ChainInv
    <2> QED
      BY <2>7, <2>14 DEF Latest
  <1> QED
    BY <1>3, <1>4, StoreView

LEMMA ChainInit == Init => ChainInv
  <1> SUFFICES ASSUME Init PROVE ChainInv
    OBVIOUS
  <1>1. log = <<>> /\ checkpoints = <<>> /\ \A h \in Hubs : hub[h] = Idle
    BY DEF Init
  <1>2. Len(log) = 0 /\ Revision = 0 /\ DOMAIN checkpoints = {}
    BY <1>1 DEF Revision
  <1>3. \A h \in Hubs : /\ hub[h].base = 0 /\ hub[h].cmd = 0 /\ hub[h].st.seq = 0
                        /\ hub[h].st.last = 0 /\ hub[h].pc = "idle"
    BY <1>1, IdleOK DEF NewRun
  <1>4. \A h \in Hubs : CopyBehind(h) /\ StoresNext(h) /\ CommandBound(h)
    BY <1>2, <1>3 DEF CopyBehind, StoresNext, Storing, CommandBound, SeqAt, LastAt
  <1> QED
    BY <1>2, <1>4 DEF ChainInv, CheckpointChain, CommandOnce

\* Every step keeps the chain, and none saves over a completed run.
LEMMA ChainStep ==
    ASSUME BaseInv, ChainInv, [Next]_vars
    PROVE  /\ ChainInv'
           /\ checkpoints' = checkpoints \/ (Revision > 0 => Latest.status # "completed")
  <1>0. BaseInv'
    BY BaseStep
  <1>1. CASE \E h \in Hubs : Start(h) \/ Advance(h) \/ \E c \in DOMAIN commands : Resume(h, c)
    <2>1. PICK h \in Hubs : Start(h) \/ Advance(h) \/ \E c \in DOMAIN commands : Resume(h, c)
      BY <1>1
    <2>2. Loads(h)
      BY <2>1, StartLoads, AdvanceLoads, ResumeLoads
    <2>3. UNCHANGED <<log, checkpoints, commands>>
      BY <2>1 DEF Start, Advance, Resume
    <2> QED
      BY <2>2, <2>3, ChainLoads
  <1>2. CASE \E h \in Hubs : Step(h)
    <2>1. PICK h \in Hubs : Step(h)
      BY <1>2
    <2>2. CASE Poll(h) \/ CollectCompleted(h) \/ CollectFailed(h) \/ Skip(h) \/ Merge(h) \/ Select(h)
                 \/ Dispatch(h) \/ Submit(h) \/ CancelTask(h) \/ Fence(h) \/ EndRun(h) \/ Finish(h)
                 \/ Unreconciled(h) \/ Refuse(h)
      <3>1. Works(h)
        BY <2>2, PollWorks, CollectCompletedWorks, CollectFailedWorks, SkipWorks, MergeWorks,
           SelectWorks, DispatchWorks, SubmitWorks, CancelTaskWorks, FenceWorks, EndRunWorks,
           FinishWorks, UnreconciledWorks, RefuseWorks
      <3>2. UNCHANGED <<log, checkpoints, commands>>
        BY <2>2 DEF Poll, CollectCompleted, CollectFailed, Skip, Merge, Select, Dispatch, Submit,
           CancelTask, Fence, EndRun, Finish, Unreconciled, Refuse
      <3>3. PICK r2 : Moves(h, r2) /\ (r2 = Idle \/ Keeps(hub[h], r2))
        BY <3>1 DEF Works
      <3> QED
        BY <3>2, <3>3, ChainMoves
    <2>3. CASE Claim(h)
      <3>1. UNCHANGED <<log, checkpoints, commands>>
        BY <2>3 DEF Claim
      <3>2. PICK r2 : Moves(h, r2) /\ (r2 = Idle \/ Keeps(hub[h], r2))
        BY <2>3, ClaimDraws DEF Works, Draws
      <3> QED
        BY <3>1, <3>2, ChainMoves
    <2>4. CASE Emit(h)
      <3>1. UNCHANGED <<checkpoints, commands>>
        BY <2>4 DEF Emit
      <3>2. CASE Works(h) /\ log' = log
        <4>1. PICK r2 : Moves(h, r2) /\ (r2 = Idle \/ Keeps(hub[h], r2))
          BY <3>2 DEF Works
        <4> QED
          BY <3>1, <3>2, <4>1, ChainMoves
      <3>3. CASE Appends(h)
        BY <3>1, <3>3, ChainAppends
      <3> QED
        BY <2>4, <3>1, <3>2, <3>3, EmitAppends
    <2>5. CASE Save(h)
      <3>1. UNCHANGED <<log, checkpoints, commands>>
        BY <2>5 DEF Save
      <3> QED
        BY <2>5, <3>1, SaveSaves, ChainSaves
    <2>6. CASE Store(h)
      BY <1>0, <2>6, ChainStores
    <2> QED
      BY <2>1, <2>2, <2>3, <2>4, <2>5, <2>6 DEF Step
  <1>3. CASE \E h \in Hubs : Crash(h)
    <2>1. PICK h \in Hubs : Crash(h)
      BY <1>3
    <2>2. Moves(h, Idle)
      BY <2>1, IdleOK DEF Crash, Raise, Moves
    <2>3. UNCHANGED <<log, checkpoints, commands>>
      BY <2>1 DEF Crash
    <2> QED
      BY <2>2, <2>3, ChainMoves
  <1>4. CASE \/ \E n \in Nodes : Expire(n)
             \/ \E n \in Nodes, a \in Attempts : Work(n, a)
             \/ UNCHANGED vars
    <2>1. UNCHANGED <<log, checkpoints, commands, hub>>
      BY <1>4 DEF Expire, Work, vars
    <2> QED
      BY <2>1, ChainGrows, Numbers
  <1>5. CASE \E n \in Nodes, a \in Attempts : Authorize(n, a)
    <2>1. PICK n \in Nodes, a \in Attempts : Authorize(n, a)
      BY <1>5
    <2>2. UNCHANGED <<checkpoints, commands, hub>> /\ \E e : log' = Append(log, e)
      BY <2>1 DEF Authorize
    <2>3. Len(log') = Len(log) + 1 /\ Len(log) \in Nat
      BY <2>2, BaseTyped
    <2> QED
      BY <2>2, <2>3, ChainGrows
  <1>6. CASE Issue
    <2>1. UNCHANGED <<log, checkpoints, hub>> /\ \E e : commands' = Append(commands, e)
      BY <1>6 DEF Issue
    <2>2. \A c \in DOMAIN commands : c \in DOMAIN commands' /\ commands'[c] = commands[c]
      BY <2>1, BaseTyped
    <2> QED
      BY <2>1, <2>2, ChainGrows, Numbers
  <1> QED
    BY <1>1, <1>2, <1>3, <1>4, <1>5, <1>6 DEF Next

\* The types, what a thread knows by itself, and the chain of checkpoints hold in
\* every reachable state.
THEOREM RunInvariant == Spec => [](BaseInv /\ ChainInv)
  <1>1. Init => BaseInv /\ ChainInv
    BY BaseInit, ChainInit
  <1>2. (BaseInv /\ ChainInv) /\ [Next]_vars => (BaseInv /\ ChainInv)'
    BY BaseStep, ChainStep
  <1> QED
    BY <1>1, <1>2, PTL DEF Spec

\* Every reachable state of a run is well-typed.
THEOREM RunTyped == Spec => []TypeOK
  <1>1. BaseInv => TypeOK
    BY DEF BaseInv
  <1> QED
    BY <1>1, RunInvariant, PTL

\* No update of a run is lost, whatever threads advance and resume it: the
\* state saved as a revision was computed from the revision before it.
THEOREM NoLostUpdate == Spec => []CheckpointChain
  <1>1. ChainInv => CheckpointChain
    BY DEF ChainInv
  <1> QED
    BY <1>1, RunInvariant, PTL

\* A command takes effect at most once, and on the revision it was issued
\* against, however often and by however many threads it is delivered.
THEOREM CommandsTakeEffectOnce == Spec => []CommandOnce
  <1>1. ChainInv => CommandOnce
    BY DEF ChainInv
  <1> QED
    BY <1>1, RunInvariant, PTL

\* Nothing is saved for a run that completed, by no operation that was
\* under way when it did.
THEOREM CompletedRunsStay == Spec => CompletedIsFinal
  <1>1. BaseInv /\ ChainInv /\ [Next]_vars
           => [Revision > 0 /\ Latest.status = "completed" => checkpoints' = checkpoints]_vars
    BY ChainStep
  <1> QED
    BY <1>1, RunInvariant, PTL DEF Spec, CompletedIsFinal

\* A merge completes only over branches that completed, or that it may omit.
THEOREM MergesSawBranches == Spec => []MergedBranchesComplete
  <1>1. BaseInv => MergedBranchesComplete
    BY DEF BaseInv, LocalInv, SoundState, MergedBranchesComplete
  <1> QED
    BY <1>1, RunInvariant, PTL

-----------------------------------------------------------------------------
(* Task, ownership and event log. *)

\* A step that draws no token.
LEMMA OwnFrame ==
    ASSUME BaseInv, BaseInv', OwnInv,
           \A n \in Nodes : owner'[n].token = owner[n].token,
           \A n \in Nodes : owner'[n].status = "completed" =>
               owner'[n].token \in Attempts /\ task'[n][owner'[n].token] \in {"completed", "unfit"},
           \A n \in Nodes, a \in Attempts : task'[n][a] # "absent" => a <= owner[n].token,
           \A g \in Hubs : hub'[g].pc = "submit" =>
               /\ hub[g].pc = "submit"
               /\ hub'[g].node = hub[g].node /\ hub'[g].token = hub[g].token
               /\ task'[hub[g].node][hub[g].token] = "absent",
           \A i \in DOMAIN log' : Tells(owner', log'[i]),
           \A g \in Hubs : \A i \in DOMAIN hub'[g].out : Tells(owner', hub'[g].out[i])
    PROVE  OwnInv'
  <1>1. \A n \in Nodes, a \in Attempts : task'[n][a] # "absent" => a <= owner'[n].token
    BY Zenon
  <1>2. ASSUME NEW g \in Hubs, hub'[g].pc = "submit"
        PROVE  /\ hub'[g].token <= owner'[hub'[g].node].token
               /\ task'[hub'[g].node][hub'[g].token] = "absent"
    <2>1. /\ hub[g].pc = "submit" /\ hub'[g].node = hub[g].node /\ hub'[g].token = hub[g].token
          /\ task'[hub[g].node][hub[g].token] = "absent"
      BY <1>2
    <2>2. hub[g].token <= owner[hub[g].node].token
      BY <2>1 DEF OwnInv, TokensDrawn
    <2>3. hub[g].node \in Nodes
      BY <2>1, HubTyped DEF SoundMemory
    <2> QED
      BY <2>1, <2>2, <2>3
  <1>3. ASSUME NEW f \in Hubs, NEW g \in Hubs, f # g, hub'[f].pc = "submit", hub'[g].pc = "submit",
               hub'[f].node = hub'[g].node
        PROVE  hub'[f].token # hub'[g].token
    BY <1>3 DEF OwnInv, TokensDrawn
  <1>4. TokensDrawn'
    BY <1>1, <1>2, <1>3 DEF TokensDrawn
  <1> QED
    BY <1>4 DEF OwnInv

LEMMA OwnFacts ==
    ASSUME BaseInv, OwnInv
    PROVE  /\ \A n \in Nodes, a \in Attempts : task[n][a] # "absent" => a <= owner[n].token
           /\ \A n \in Nodes : owner[n].status = "completed" =>
                 owner[n].token \in Attempts /\ task[n][owner[n].token] \in {"completed", "unfit"}
           /\ \A g \in Hubs : hub[g].pc = "submit" =>
                 /\ hub[g].node \in Nodes /\ hub[g].token \in Attempts
                 /\ hub[g].token <= owner[hub[g].node].token
                 /\ task[hub[g].node][hub[g].token] = "absent"
           /\ \A i \in DOMAIN log : Tells(owner, log[i])
           /\ \A g \in Hubs : \A i \in DOMAIN hub[g].out : Tells(owner, hub[g].out[i])
  <1>1. \A g \in Hubs : hub[g].pc = "submit" => hub[g].node \in Nodes /\ hub[g].token \in Attempts
    BY HubTyped DEF SoundMemory
  <1> QED
    BY <1>1 DEF OwnInv, TokensDrawn

\* A step of thread h that touches neither ownership nor task.
LEMMA OwnMoves ==
    ASSUME BaseInv, BaseInv', OwnInv, UNCHANGED <<owner, task>>,
           NEW h \in Hubs, NEW r2, Moves(h, r2), r2.pc # "submit", log' = log,
           \A i \in DOMAIN r2.out : Tells(owner', r2.out[i])
    PROVE  OwnInv'
  <1>1. /\ hub'[h] = r2
        /\ \A g \in Hubs \ {h} : hub'[g] = hub[g]
    BY MovesOK
  <1>2. \A g \in Hubs : hub'[g].pc = "submit" =>
               /\ hub[g].pc = "submit"
               /\ hub'[g].node = hub[g].node /\ hub'[g].token = hub[g].token
               /\ task'[hub[g].node][hub[g].token] = "absent"
    BY <1>1, OwnFacts
  <1>3. \A i \in DOMAIN log' : Tells(owner', log'[i])
    BY OwnFacts
  <1>4. \A g \in Hubs : \A i \in DOMAIN hub'[g].out : Tells(owner', hub'[g].out[i])
    BY <1>1, OwnFacts
  <1>5. \A n \in Nodes : owner'[n].status = "completed" =>
               owner'[n].token \in Attempts /\ task'[n][owner'[n].token] \in {"completed", "unfit"}
    BY OwnFacts
  <1>6. \A n \in Nodes, a \in Attempts : task'[n][a] # "absent" => a <= owner[n].token
    BY OwnFacts
  <1> QED
    BY <1>2, <1>3, <1>4, <1>5, <1>6, OwnFrame

\* A step of the world that changes neither memory nor ownership.
LEMMA OwnWorld ==
    ASSUME BaseInv, BaseInv', OwnInv, hub' = hub,
           \A n \in Nodes : owner'[n].token = owner[n].token /\ owner'[n].status = owner[n].status,
           \A n \in Nodes, a \in Attempts :
               \/ task'[n][a] = task[n][a]
               \/ task[n][a] = "created" /\ task'[n][a] # "absent",
           \A i \in DOMAIN log' : Tells(owner, log'[i])
    PROVE  OwnInv'
  <1>1. \A e : Tells(owner, e) => Tells(owner', e)
    BY DEF Tells
  <1>2. \A g \in Hubs : hub'[g].pc = "submit" =>
               /\ hub[g].pc = "submit"
               /\ hub'[g].node = hub[g].node /\ hub'[g].token = hub[g].token
               /\ task'[hub[g].node][hub[g].token] = "absent"
    BY OwnFacts
  <1>3. \A i \in DOMAIN log' : Tells(owner', log'[i])
    BY <1>1
  <1>4. \A g \in Hubs : \A i \in DOMAIN hub'[g].out : Tells(owner', hub'[g].out[i])
    BY <1>1, OwnFacts
  <1>5. \A n \in Nodes : owner'[n].status = "completed" =>
               owner'[n].token \in Attempts /\ task'[n][owner'[n].token] \in {"completed", "unfit"}
    BY OwnFacts
  <1>6. \A n \in Nodes, a \in Attempts : task'[n][a] # "absent" => a <= owner[n].token
    BY OwnFacts
  <1> QED
    BY <1>2, <1>3, <1>4, <1>5, <1>6, OwnFrame

LEMMA ClosesRow ==
    ASSUME BaseInv, NEW n \in Nodes, NEW s \in {"completed", "failed"}, Closes(n, s)
    PROVE  /\ owner'[n].status = s /\ owner'[n].token = owner[n].token
           /\ \A m \in Nodes : m # n => owner'[m] = owner[m]
  <1>1. owner \in [Nodes -> OwnerRow]
    BY BaseTyped
  <1>2. PICK row : row = [owner[n] EXCEPT !.status = s, !.live = FALSE]
    OBVIOUS
  <1>3. row \in OwnerRow /\ row.status = s /\ row.token = owner[n].token
    BY <1>1, <1>2 DEF OwnerRow
  <1>4. owner' = [owner EXCEPT ![n] = row]
    BY <1>2, Zenon DEF Closes
  <1> QED
    BY <1>1, <1>3, <1>4

\* A result completes the step whose task it is the result of, and a fence
\* fails no completed step.
LEMMA CollectedRows ==
    ASSUME BaseInv, NEW h \in Hubs, CollectCompleted(h) \/ CollectFailed(h) \/ Fence(h)
    PROVE  \A m \in Nodes :
              /\ owner'[m].token = owner[m].token
              /\ owner[m].status = "completed" => owner'[m].status = "completed"
              /\ owner'[m].status = "completed" =>
                    \/ owner[m].status = "completed"
                    \/ owner[m].token \in Attempts
                         /\ task[m][owner[m].token] \in {"completed", "unfit"}
  <1>1. /\ hub[h].todo \in SUBSET Nodes /\ hub[h].fence \in SUBSET Nodes
        /\ hub[h].pc = "collect" => hub[h].todo \subseteq Running(hub[h].st)
        /\ hub[h].st \in RunState
    BY HubTyped DEF HubState, SoundMemory
  <1>2. CASE CollectCompleted(h)
    <2> DEFINE n == Min(hub[h].todo)
    <2>1. hub[h].todo # {} /\ hub[h].pc = "collect"
      BY <1>2 DEF CollectCompleted, At
    <2>2. n \in Nodes /\ n \in Running(hub[h].st)
      BY <1>1, <2>1, FirstNode
    <2>3. PICK a : a = hub[h].st.running[n]
      OBVIOUS
    <2>4. \/ owner' = owner
          \/ /\ Closes(n, "completed") /\ Acknowledges(n, a)
             /\ task[n][a] \in {"completed", "unfit"}
      BY <1>2, <2>3 DEF CollectCompleted, Closes
    <2> HIDE DEF n
    <2>5. a \in Attempts
      BY <1>1, <2>2, <2>3 DEF Running, RunState
    <2>6. CASE owner' = owner
      BY <2>6
    <2>7. CASE Closes(n, "completed") /\ Acknowledges(n, a) /\ task[n][a] \in {"completed", "unfit"}
      <3>1. owner[n].token = a
        BY <2>7 DEF Acknowledges, Holds
      <3>2. /\ owner'[n].status = "completed" /\ owner'[n].token = owner[n].token
            /\ \A m \in Nodes : m # n => owner'[m] = owner[m]
        BY <2>2, <2>7, ClosesRow
      <3> QED
        BY <2>5, <2>7, <3>1, <3>2
    <2> QED
      BY <2>4, <2>6, <2>7
  <1>3. CASE CollectFailed(h) \/ Fence(h)
    <2>1. \E n \in Nodes : owner' = owner \/ (Closes(n, "failed") /\ owner[n].status = "active")
      <3>1. CASE CollectFailed(h)
        <4>1. hub[h].todo # {}
          BY <3>1 DEF CollectFailed
        <4>2. Min(hub[h].todo) \in Nodes
          BY <1>1, <4>1, FirstNode
        <4>3. \/ owner' = owner
              \/ Closes(Min(hub[h].todo), "failed") /\ owner[Min(hub[h].todo)].status = "active"
          BY <3>1 DEF CollectFailed, Closes, Holds
        <4> QED
          BY <4>2, <4>3
      <3>2. CASE Fence(h)
        <4>1. hub[h].fence # {}
          BY <3>2 DEF Fence
        <4>2. Min(hub[h].fence) \in Nodes
          BY <1>1, <4>1, FirstNode
        <4>3. \/ owner' = owner
              \/ Closes(Min(hub[h].fence), "failed") /\ owner[Min(hub[h].fence)].status = "active"
          BY <3>2 DEF Fence, Closes, Holds
        <4> QED
          BY <4>2, <4>3
      <3> QED
        BY <1>3, <3>1, <3>2
    <2>2. PICK n \in Nodes : owner' = owner \/ (Closes(n, "failed") /\ owner[n].status = "active")
      BY <2>1
    <2>3. CASE owner' = owner
      BY <2>3
    <2>4. CASE Closes(n, "failed") /\ owner[n].status = "active"
      <3>1. /\ owner'[n].status = "failed" /\ owner'[n].token = owner[n].token
            /\ \A m \in Nodes : m # n => owner'[m] = owner[m]
        BY <2>4, ClosesRow
      <3> QED
        BY <2>4, <3>1
    <2> QED
      BY <2>2, <2>3, <2>4
  <1> QED
    BY <1>2, <1>3

LEMMA OwnCollects ==
    ASSUME BaseInv, BaseInv', OwnInv, NEW h \in Hubs,
           CollectCompleted(h) \/ CollectFailed(h) \/ Fence(h)
    PROVE  OwnInv'
  <1>1. UNCHANGED <<log, task>>
    BY DEF CollectCompleted, CollectFailed, Fence
  <1>2. PICK r2 : /\ Moves(h, r2) /\ r2.pc # "submit"
                  /\ \A i \in DOMAIN r2.out : Tells(owner', r2.out[i])
    BY CollectCompletedWorks, CollectFailedWorks, FenceWorks DEF Works
  <1>3. /\ hub'[h] = r2
        /\ \A g \in Hubs \ {h} : hub'[g] = hub[g]
    BY <1>2, MovesOK
  <1>4. \A m \in Nodes :
              /\ owner'[m].token = owner[m].token
              /\ owner[m].status = "completed" => owner'[m].status = "completed"
              /\ owner'[m].status = "completed" =>
                    \/ owner[m].status = "completed"
                    \/ owner[m].token \in Attempts
                         /\ task[m][owner[m].token] \in {"completed", "unfit"}
    BY CollectedRows
  <1>5. \A e : Tells(owner, e) => Tells(owner', e)
    BY <1>4 DEF Tells
  <1>6. \A g \in Hubs : hub'[g].pc = "submit" =>
               /\ hub[g].pc = "submit"
               /\ hub'[g].node = hub[g].node /\ hub'[g].token = hub[g].token
               /\ task'[hub[g].node][hub[g].token] = "absent"
    BY <1>1, <1>2, <1>3, OwnFacts
  <1>7. \A i \in DOMAIN log' : Tells(owner', log'[i])
    BY <1>1, <1>5, OwnFacts
  <1>8. \A g \in Hubs : \A i \in DOMAIN hub'[g].out : Tells(owner', hub'[g].out[i])
    BY <1>2, <1>3, <1>5, OwnFacts
  <1>9. \A n \in Nodes : owner'[n].status = "completed" =>
               owner'[n].token \in Attempts /\ task'[n][owner'[n].token] \in {"completed", "unfit"}
    BY <1>1, <1>4, OwnFacts
  <1>10. \A n \in Nodes, a \in Attempts : task'[n][a] # "absent" => a <= owner[n].token
    BY <1>1, OwnFacts
  <1> QED
    BY <1>4, <1>6, <1>7, <1>8, <1>9, <1>10, OwnFrame

\* The thread that drew a token submits its task, once.
LEMMA OwnSubmits ==
    ASSUME BaseInv, BaseInv', OwnInv, NEW h \in Hubs, Submit(h)
    PROVE  OwnInv'
  <1>1. UNCHANGED <<log, owner>> /\ hub[h].pc = "submit"
    BY DEF Submit, At
  <1>2. PICK r2 : /\ Moves(h, r2) /\ r2.pc # "submit"
                  /\ \A i \in DOMAIN r2.out : Tells(owner', r2.out[i])
    BY SubmitWorks DEF Works
  <1>3. /\ hub'[h] = r2
        /\ \A g \in Hubs \ {h} : hub'[g] = hub[g]
    BY <1>2, MovesOK
  <1> DEFINE n == hub[h].node
             a == hub[h].token
  <1>4. /\ n \in Nodes /\ a \in Attempts /\ a <= owner[n].token /\ task[n][a] = "absent"
    BY <1>1, OwnFacts
  <1>5. task' = [task EXCEPT ![n][a] = "created"]
    BY DEF Submit
  <1> HIDE DEF n, a
  <1>6. /\ task'[n][a] = "created"
        /\ \A m \in Nodes, b \in Attempts : ~ (m = n /\ b = a) => task'[m][b] = task[m][b]
    BY <1>4, <1>5, BaseTyped
  <1>7. ASSUME NEW g \in Hubs, hub'[g].pc = "submit"
        PROVE  /\ hub[g].pc = "submit"
               /\ hub'[g].node = hub[g].node /\ hub'[g].token = hub[g].token
               /\ task'[hub[g].node][hub[g].token] = "absent"
    <2>1. g # h /\ hub'[g] = hub[g]
      BY <1>2, <1>3, <1>7
    <2>2. /\ hub[g].node \in Nodes /\ hub[g].token \in Attempts
          /\ task[hub[g].node][hub[g].token] = "absent"
      BY <1>7, <2>1, OwnFacts
    <2>3. ~ (hub[g].node = n /\ hub[g].token = a)
      BY <1>1, <1>7, <2>1 DEF n, a, OwnInv, TokensDrawn
    <2> QED
      BY <1>6, <1>7, <2>1, <2>2, <2>3
  <1>8. \A i \in DOMAIN log' : Tells(owner', log'[i])
    BY <1>1, OwnFacts
  <1>9. \A g \in Hubs : \A i \in DOMAIN hub'[g].out : Tells(owner', hub'[g].out[i])
    BY <1>1, <1>2, <1>3, OwnFacts
  <1>10. ASSUME NEW m \in Nodes, owner'[m].status = "completed"
         PROVE  owner'[m].token \in Attempts /\ task'[m][owner'[m].token] \in {"completed", "unfit"}
    <2>1. owner[m].token \in Attempts /\ task[m][owner[m].token] \in {"completed", "unfit"}
      BY <1>1, <1>10, OwnFacts
    <2> QED
      BY <1>1, <1>4, <1>6, <2>1
  <1>11. \A m \in Nodes, b \in Attempts : task'[m][b] # "absent" => b <= owner[m].token
    BY <1>4, <1>6, OwnFacts
  <1> QED
    BY <1>1, <1>7, <1>8, <1>9, <1>10, <1>11, OwnFrame

\* Cancelling takes back tasks no worker has reported on.
LEMMA OwnCancels ==
    ASSUME BaseInv, BaseInv', OwnInv, NEW h \in Hubs, CancelTask(h)
    PROVE  OwnInv'
  <1>1. UNCHANGED <<log, owner>>
    BY DEF CancelTask
  <1>2. PICK r2 : /\ Moves(h, r2) /\ r2.pc # "submit"
                  /\ \A i \in DOMAIN r2.out : Tells(owner', r2.out[i])
    BY CancelTaskWorks DEF Works
  <1>3. /\ hub'[h] = r2
        /\ \A g \in Hubs \ {h} : hub'[g] = hub[g]
    BY <1>2, MovesOK
  <1>4. \A n \in Nodes, a \in Attempts :
           \/ task'[n][a] = task[n][a]
           \/ task[n][a] = "created" /\ task'[n][a] # "absent"
    BY DEF CancelTask
  <1>5. \A g \in Hubs : hub'[g].pc = "submit" =>
               /\ hub[g].pc = "submit"
               /\ hub'[g].node = hub[g].node /\ hub'[g].token = hub[g].token
               /\ task'[hub[g].node][hub[g].token] = "absent"
    BY <1>2, <1>3, <1>4, OwnFacts
  <1>6. \A i \in DOMAIN log' : Tells(owner', log'[i])
    BY <1>1, OwnFacts
  <1>7. \A g \in Hubs : \A i \in DOMAIN hub'[g].out : Tells(owner', hub'[g].out[i])
    BY <1>1, <1>2, <1>3, OwnFacts
  <1>8. \A n \in Nodes : owner'[n].status = "completed" =>
               owner'[n].token \in Attempts /\ task'[n][owner'[n].token] \in {"completed", "unfit"}
    BY <1>1, <1>4, OwnFacts
  <1>9. \A n \in Nodes, a \in Attempts : task'[n][a] # "absent" => a <= owner[n].token
    BY <1>4, OwnFacts
  <1> QED
    BY <1>1, <1>5, <1>6, <1>7, <1>8, <1>9, OwnFrame

\* A thread draws the next token of a step that is not completed: no task has
\* it yet, and no other thread is about to submit under it.
LEMMA OwnDraws ==
    ASSUME BaseInv, BaseInv', OwnInv, NEW h \in Hubs, Claim(h), Draws(h)
    PROVE  OwnInv'
  <1>1. UNCHANGED <<log, task>>
    BY DEF Claim
  <1> DEFINE n == hub[h].node
  <1>2. PICK r2 : /\ Moves(h, r2) /\ r2.pc = "submit" /\ r2.node = n
                  /\ r2.token = owner[n].token + 1 /\ r2.out = <<>>
    BY DEF Draws
  <1>3. /\ hub'[h] = r2
        /\ \A g \in Hubs \ {h} : hub'[g] = hub[g]
    BY <1>2, MovesOK
  <1>4. /\ n \in Nodes /\ owner[n].status # "completed"
        /\ owner' = [owner EXCEPT ![n] = [token |-> @.token + 1, status |-> "active", live |-> TRUE]]
    BY DEF Draws
  <1> HIDE DEF n
  <1>5. owner \in [Nodes -> OwnerRow]
    BY BaseTyped
  <1>6. \A m \in Nodes : owner[m].token \in Nat
    BY <1>5, PlanAssumption DEF OwnerRow, Attempts
  <1>7. PICK k \in Nat : k = owner[n].token + 1
    BY <1>4, <1>6
  <1>8. PICK row : row = [token |-> k, status |-> "active", live |-> TRUE]
    OBVIOUS
  <1>9. owner' = [owner EXCEPT ![n] = row]
    BY <1>4, <1>7, <1>8
  <1>10. /\ owner'[n].token = k /\ owner'[n].status = "active"
         /\ \A m \in Nodes : m # n => owner'[m] = owner[m]
    BY <1>4, <1>5, <1>8, <1>9
  <1>11. \A m \in Nodes : owner[m].token <= owner'[m].token /\ owner'[m].token \in Nat
    <2>1. owner[n].token <= owner'[n].token
      BY <1>4, <1>6, <1>7, <1>10
    <2>2. \A m \in Nodes : m # n => owner[m].token <= owner'[m].token /\ owner'[m].token \in Nat
      BY <1>6, <1>10
    <2> QED
      BY <1>7, <1>10, <2>1, <2>2
  <1>12. \A e : Tells(owner, e) => Tells(owner', e)
    BY <1>4, <1>10 DEF Tells
  <1>13. r2.token \in Attempts /\ r2.token = k
    BY <1>2, <1>7, <1>3, HubTyped DEF Moves, SoundMemory
  <1>14. \A m \in Nodes, a \in Attempts : task'[m][a] # "absent" => a <= owner'[m].token
    <2>1. ASSUME NEW m \in Nodes, NEW a \in Attempts, task[m][a] # "absent"
          PROVE  a <= owner'[m].token
      <3>1. a <= owner[m].token /\ a \in Nat
        BY <2>1, OwnFacts, PlanAssumption DEF Attempts
      <3> QED
        BY <1>6, <1>11, <3>1
    <2> QED
      BY <1>1, <2>1
  <1>15. task[n][k] = "absent"
    <2>1. ~ (k <= owner[n].token)
      BY <1>4, <1>6, <1>7
    <2> QED
      BY <1>4, <1>13, <2>1, OwnFacts
  <1>16. ASSUME NEW g \in Hubs, hub'[g].pc = "submit"
         PROVE  /\ hub'[g].token <= owner'[hub'[g].node].token
                /\ task'[hub'[g].node][hub'[g].token] = "absent"
    <2>1. CASE g = h
      BY <1>1, <1>2, <1>3, <1>7, <1>10, <1>13, <1>15, <2>1
    <2>2. CASE g # h
      <3>1. /\ hub'[g] = hub[g] /\ hub[g].node \in Nodes /\ hub[g].token \in Nat
            /\ hub[g].token <= owner[hub[g].node].token
            /\ task[hub[g].node][hub[g].token] = "absent"
        BY <1>3, <1>16, <2>2, OwnFacts, PlanAssumption DEF Attempts
      <3> QED
        BY <1>1, <1>6, <1>11, <3>1
    <2> QED
      BY <2>1, <2>2
  <1>17. ASSUME NEW g \in Hubs, g # h, hub'[g].pc = "submit", hub'[g].node = n
         PROVE  hub'[g].token # k
    <2>1. /\ hub'[g] = hub[g] /\ hub[g].token \in Nat /\ hub[g].token <= owner[n].token
      BY <1>3, <1>17, OwnFacts, PlanAssumption DEF Attempts
    <2> QED
      BY <1>4, <1>6, <1>7, <2>1
  <1>18. ASSUME NEW f \in Hubs, NEW g \in Hubs, f # g, hub'[f].pc = "submit", hub'[g].pc = "submit",
                hub'[f].node = hub'[g].node
         PROVE  hub'[f].token # hub'[g].token
    <2>1. CASE f = h
      BY <1>2, <1>3, <1>13, <1>17, <1>18, <2>1
    <2>2. CASE g = h
      BY <1>2, <1>3, <1>13, <1>17, <1>18, <2>2
    <2>3. CASE f # h /\ g # h
      BY <1>3, <1>18, <2>3 DEF OwnInv, TokensDrawn
    <2> QED
      BY <2>1, <2>2, <2>3
  <1>19. TokensDrawn'
    BY <1>14, <1>16, <1>18 DEF TokensDrawn
  <1>20. \A m \in Nodes : owner'[m].status = "completed" =>
               owner'[m].token \in Attempts /\ task'[m][owner'[m].token] \in {"completed", "unfit"}
    BY <1>1, <1>10, OwnFacts
  <1>21. \A i \in DOMAIN log' : Tells(owner', log'[i])
    BY <1>1, <1>12, OwnFacts
  <1>22. \A g \in Hubs : \A i \in DOMAIN hub'[g].out : Tells(owner', hub'[g].out[i])
    <2>1. \A i \in DOMAIN r2.out : Tells(owner', r2.out[i])
      BY <1>2
    <2> QED
      BY <1>3, <1>12, <2>1, OwnFacts
  <1> QED
    BY <1>19, <1>20, <1>21, <1>22 DEF OwnInv

\* What is appended was true when the thread put it down, and still is.
LEMMA OwnAppends ==
    ASSUME BaseInv, BaseInv', OwnInv, NEW h \in Hubs, Appends(h), UNCHANGED <<owner, task>>
    PROVE  OwnInv'
  <1>1. PICK r2 : /\ Moves(h, r2)
                  /\ hub[h].out # <<>>
                  /\ log' = Append(log, Head(hub[h].out))
                  /\ r2.pc = hub[h].pc /\ r2.node = hub[h].node /\ r2.token = hub[h].token
                  /\ r2.out = Tail(hub[h].out)
    BY DEF Appends
  <1>2. /\ hub'[h] = r2
        /\ \A g \in Hubs \ {h} : hub'[g] = hub[g]
    BY <1>1, MovesOK
  <1>3. hub[h].out \in Seq(EventRow) /\ log \in Seq(EventRow)
    BY HubTyped, BaseTyped DEF HubState
  <1>4. /\ Head(hub[h].out) = hub[h].out[1] /\ 1 \in DOMAIN hub[h].out
        /\ \A i \in DOMAIN r2.out : i + 1 \in DOMAIN hub[h].out /\ r2.out[i] = hub[h].out[i + 1]
    BY <1>1, <1>3
  <1>5. \A i \in DOMAIN r2.out : Tells(owner, r2.out[i])
    BY <1>4, OwnFacts
  <1>6. \A i \in DOMAIN log' : \/ i \in DOMAIN log /\ log'[i] = log[i]
                               \/ log'[i] = hub[h].out[1]
    BY <1>1, <1>3, <1>4
  <1>7. \A i \in DOMAIN log' : Tells(owner', log'[i])
    BY <1>4, <1>6, OwnFacts
  <1>8. \A g \in Hubs : \A i \in DOMAIN hub'[g].out : Tells(owner', hub'[g].out[i])
    BY <1>2, <1>5, OwnFacts
  <1>9. \A g \in Hubs : hub'[g].pc = "submit" =>
               /\ hub[g].pc = "submit"
               /\ hub'[g].node = hub[g].node /\ hub'[g].token = hub[g].token
               /\ task'[hub[g].node][hub[g].token] = "absent"
    BY <1>1, <1>2, OwnFacts
  <1>10. \A n \in Nodes : owner'[n].status = "completed" =>
               owner'[n].token \in Attempts /\ task'[n][owner'[n].token] \in {"completed", "unfit"}
    BY OwnFacts
  <1>11. \A n \in Nodes, a \in Attempts : task'[n][a] # "absent" => a <= owner[n].token
    BY OwnFacts
  <1> QED
    BY <1>7, <1>8, <1>9, <1>10, <1>11, OwnFrame

LEMMA OwnInit == Init => OwnInv
  <1> SUFFICES ASSUME Init PROVE OwnInv
    OBVIOUS
  <1>1. log = <<>> /\ \A h \in Hubs : hub[h].pc = "idle" /\ hub[h].out = <<>>
    BY IdleOK DEF Init
  <1>2. \A n \in Nodes : /\ owner[n].status = "none"
                         /\ \A a \in Attempts : task[n][a] = "absent"
    BY DEF Init
  <1> QED
    BY <1>1, <1>2 DEF OwnInv, TokensDrawn

\* Every step keeps task, ownership and event log in agreement.
LEMMA OwnStep ==
    ASSUME BaseInv, OwnInv, [Next]_vars
    PROVE  OwnInv'
  <1>0. BaseInv'
    BY BaseStep
  <1>1. CASE \E h \in Hubs : \/ Start(h) \/ Advance(h) \/ Save(h)
                             \/ \E c \in DOMAIN commands : Resume(h, c)
    <2>1. PICK h \in Hubs : \/ Start(h) \/ Advance(h) \/ Save(h)
                            \/ \E c \in DOMAIN commands : Resume(h, c)
      BY <1>1
    <2>2. Loads(h) \/ Saves(h)
      BY <2>1, StartLoads, AdvanceLoads, ResumeLoads, SaveSaves
    <2>3. UNCHANGED <<owner, task, log>>
      BY <2>1 DEF Start, Advance, Resume, Save
    <2>4. PICK r2 : Moves(h, r2) /\ r2.pc # "submit" /\ Silent(r2)
      BY <2>2 DEF Loads, Saves
    <2>5. \A i \in DOMAIN r2.out : Tells(owner', r2.out[i])
      BY <2>4 DEF Silent, Tells
    <2> QED
      BY <1>0, <2>3, <2>4, <2>5, OwnMoves
  <1>2. CASE \E h \in Hubs : Step(h)
    <2>1. PICK h \in Hubs : Step(h)
      BY <1>2
    <2>2. CASE Poll(h) \/ Skip(h) \/ Merge(h) \/ Select(h) \/ Dispatch(h) \/ EndRun(h) \/ Finish(h)
                 \/ Unreconciled(h) \/ Refuse(h)
      <3>1. Works(h)
        BY <2>2, PollWorks, SkipWorks, MergeWorks, SelectWorks, DispatchWorks, EndRunWorks,
           FinishWorks, UnreconciledWorks, RefuseWorks
      <3>2. UNCHANGED <<owner, task, log>>
        BY <2>2 DEF Poll, Skip, Merge, Select, Dispatch, EndRun, Finish, Unreconciled, Refuse
      <3>3. PICK r2 : /\ Moves(h, r2) /\ r2.pc # "submit"
                      /\ \A i \in DOMAIN r2.out : Tells(owner', r2.out[i])
        BY <3>1 DEF Works
      <3> QED
        BY <1>0, <3>2, <3>3, OwnMoves
    <2>3. CASE Claim(h)
      <3>1. CASE Works(h) /\ UNCHANGED <<owner, retries>>
        <4>1. UNCHANGED <<owner, task, log>>
          BY <2>3, <3>1 DEF Claim
        <4>2. PICK r2 : /\ Moves(h, r2) /\ r2.pc # "submit"
                        /\ \A i \in DOMAIN r2.out : Tells(owner', r2.out[i])
          BY <3>1 DEF Works
        <4> QED
          BY <1>0, <4>1, <4>2, OwnMoves
      <3> QED
        BY <1>0, <2>3, <3>1, ClaimDraws, OwnDraws
    <2>4. CASE Emit(h)
      <3>1. UNCHANGED <<owner, task>>
        BY <2>4 DEF Emit
      <3>2. CASE Works(h) /\ log' = log
        <4>1. PICK r2 : /\ Moves(h, r2) /\ r2.pc # "submit"
                        /\ \A i \in DOMAIN r2.out : Tells(owner', r2.out[i])
          BY <3>2 DEF Works
        <4> QED
          BY <1>0, <3>1, <3>2, <4>1, OwnMoves
      <3> QED
        BY <1>0, <2>4, <3>1, <3>2, EmitAppends, OwnAppends
    <2>5. CASE CollectCompleted(h) \/ CollectFailed(h) \/ Fence(h)
      BY <1>0, <2>5, OwnCollects
    <2>6. CASE Submit(h)
      BY <1>0, <2>6, OwnSubmits
    <2>7. CASE CancelTask(h)
      BY <1>0, <2>7, OwnCancels
    <2>8. CASE Save(h)
      BY <1>1, <2>8
    <2>9. CASE Store(h)
      <3>1. UNCHANGED <<owner, task, log>> /\ Moves(h, Idle)
        BY <2>9, StoreView DEF Store
      <3>2. Idle.pc # "submit" /\ \A i \in DOMAIN Idle.out : Tells(owner', Idle.out[i])
        BY IdleOK
      <3> QED
        BY <1>0, <3>1, <3>2, OwnMoves
    <2> QED
      BY <2>1, <2>2, <2>3, <2>4, <2>5, <2>6, <2>7, <2>8, <2>9 DEF Step
  <1>3. CASE \E h \in Hubs : Crash(h)
    <2>1. PICK h \in Hubs : Crash(h)
      BY <1>3
    <2>2. UNCHANGED <<owner, task, log>> /\ Moves(h, Idle)
      BY <2>1, IdleOK DEF Crash, Raise, Moves
    <2>3. Idle.pc # "submit" /\ \A i \in DOMAIN Idle.out : Tells(owner', Idle.out[i])
      BY IdleOK
    <2> QED
      BY <1>0, <2>2, <2>3, OwnMoves
  <1>4. CASE \E n \in Nodes : Expire(n)
    <2>1. PICK n \in Nodes : Expire(n)
      BY <1>4
    <2>2. UNCHANGED <<hub, task, log>>
      BY <2>1 DEF Expire
    <2>3. PICK row : row = [owner[n] EXCEPT !.live = FALSE]
      OBVIOUS
    <2>4. row.token = owner[n].token /\ row.status = owner[n].status
      BY <2>3, BaseTyped DEF OwnerRow
    <2>5. owner' = [owner EXCEPT ![n] = row]
      BY <2>1, <2>3 DEF Expire
    <2>6. \A m \in Nodes : owner'[m].token = owner[m].token /\ owner'[m].status = owner[m].status
      BY <2>4, <2>5, BaseTyped
    <2>7. \A i \in DOMAIN log' : Tells(owner, log'[i])
      BY <2>2, OwnFacts
    <2> QED
      BY <1>0, <2>2, <2>6, <2>7, OwnWorld
  <1>5. CASE \E n \in Nodes, a \in Attempts : Work(n, a)
    <2>1. PICK n \in Nodes, a \in Attempts : Work(n, a)
      BY <1>5
    <2>2. UNCHANGED <<hub, owner, log>> /\ task[n][a] = "created"
      BY <2>1 DEF Work
    <2>3. PICK o \in Outcomes[n] : task' = [task EXCEPT ![n][a] = o]
      BY <2>1 DEF Work
    <2>4. o # "absent"
      BY <2>3, PlanAssumption DEF Outcome
    <2>5. \A m \in Nodes, b \in Attempts : \/ task'[m][b] = task[m][b]
                                           \/ task[m][b] = "created" /\ task'[m][b] # "absent"
      BY <2>2, <2>3, <2>4, BaseTyped
    <2>6. \A i \in DOMAIN log' : Tells(owner, log'[i])
      BY <2>2, OwnFacts
    <2> QED
      BY <1>0, <2>2, <2>5, <2>6, OwnWorld
  <1>6. CASE \E n \in Nodes, a \in Attempts : Authorize(n, a)
    <2>1. PICK n \in Nodes, a \in Attempts : Authorize(n, a)
      BY <1>6
    <2>2. UNCHANGED <<hub, owner, task>>
      BY <2>1 DEF Authorize
    <2>3. PICK e : e = Event("authorized", n, a)
      OBVIOUS
    <2>4. log' = Append(log, e) /\ e.what # "completed"
      BY <2>1, <2>3 DEF Authorize, Event
    <2>5. \A i \in DOMAIN log' : (i \in DOMAIN log /\ log'[i] = log[i]) \/ log'[i] = e
      BY <2>4, BaseTyped
    <2>6. \A i \in DOMAIN log' : Tells(owner, log'[i])
      BY <2>4, <2>5, OwnFacts DEF Tells
    <2> QED
      BY <1>0, <2>2, <2>6, OwnWorld
  <1>7. CASE Issue \/ UNCHANGED vars
    <2>1. UNCHANGED <<hub, owner, task, log>>
      BY <1>7 DEF Issue, vars
    <2>2. \A i \in DOMAIN log' : Tells(owner, log'[i])
      BY <2>1, OwnFacts
    <2> QED
      BY <1>0, <2>1, <2>2, OwnWorld
  <1> QED
    BY <1>1, <1>2, <1>3, <1>4, <1>5, <1>6, <1>7 DEF Next

\* Task, ownership and event log tell one story of every step, although they
\* are written in three transactions and any thread may die between them: a
\* late result of a superseded attempt completes nobody's step, and a node the
\* log calls completed cannot be claimed again.
THEOREM OwnershipsAgree == Spec => []OwnershipAgrees
  <1>1. Init => BaseInv /\ OwnInv
    BY BaseInit, OwnInit
  <1>2. (BaseInv /\ OwnInv) /\ [Next]_vars => (BaseInv /\ OwnInv)'
    BY BaseStep, OwnStep
  <1>3. BaseInv /\ OwnInv => OwnershipAgrees
    <2> SUFFICES ASSUME BaseInv, OwnInv PROVE OwnershipAgrees
      OBVIOUS
    <2>1. AckMatchesResult
      BY OwnFacts DEF AckMatchesResult
    <2>2. ASSUME NEW n \in Nodes, NEW a \in Attempts, Event("completed", n, a) \in Range(log)
          PROVE  owner[n].status = "completed" /\ owner[n].token = a
      <3>1. PICK i \in DOMAIN log : log[i] = Event("completed", n, a)
        BY <2>2 DEF Range
      <3>2. Tells(owner, log[i])
        BY OwnFacts
      <3>3. log[i].what = "completed" /\ log[i].node = n /\ log[i].tag = a
        BY <3>1 DEF Event
      <3> QED
        BY <3>2, <3>3 DEF Tells
    <2> QED
      BY <2>1, <2>2 DEF OwnershipAgrees, CompletedIsOwned
  <1> QED
    BY <1>1, <1>2, <1>3, PTL DEF Spec

-----------------------------------------------------------------------------
(* The log tells the run. *)

Answers == {"completed", "retry", "failed"}

Completing == {"completed", "merged", "checkpoint_node"}

\* Nodes the first m events of L name in events of some kinds.
Named(L, m, whats) == {L[j].node : j \in {i \in 1 .. m : L[i].what \in whats}}

\* Event e is the end of attempt a of node n.
Shuts(e, n, a) == e.what \in Ends \/ (e.what \in Answers /\ e.node = n /\ e.tag = a)

\* Event j delegates node n, and no event up to m ended that delegation.
OpenAt(L, m, n, j) ==
    /\ L[j].what = "delegated" /\ L[j].node = n
    /\ \A k \in j + 1 .. m : ~ Shuts(L[k], n, L[j].tag)

\* The last status event among the first m of L gave the run status s.
TellsStatus(s, L, m) ==
    \E j \in 1 .. m :
        /\ L[j].what \in DOMAIN StatusEvents
        /\ s = StatusEvents[L[j].what]
        /\ \A k \in j + 1 .. m : L[k].what \notin DOMAIN StatusEvents

\* A node is delegated as the one attempt the first m events of L leave open.
TellsRunning(f, L, m) ==
    \A n \in Nodes :
        \/ f[n] = 0 /\ \A j \in 1 .. m : ~ OpenAt(L, m, n, j)
        \/ \E j \in 1 .. m : /\ OpenAt(L, m, n, j) /\ L[j].tag = f[n] /\ f[n] # 0
                             /\ \A k \in 1 .. m : OpenAt(L, m, n, k) => k = j

\* State st is what the first m events of L say of the run.
Told(st, L, m) ==
    /\ TellsStatus(st.status, L, m)
    /\ st.completed = Named(L, m, Completing)
    /\ st.skipped = Named(L, m, {"skipped"})
    /\ st.approved = Named(L, m, {"granted"})
    /\ TellsRunning(st.running, L, m)

\* Event e takes what the log says from st to st2.
Adds(s, s2, e, whats) == s2 = IF e.what \in whats THEN s \cup {e.node} ELSE s

RunningAfter(f, e) ==
    IF e.what \in Ends THEN [n \in Nodes |-> 0]
    ELSE IF e.what = "delegated" THEN [f EXCEPT ![e.node] = e.tag]
    ELSE IF e.what \in Answers THEN [f EXCEPT ![e.node] = 0]
    ELSE f

Fits(f, e) ==
    /\ e.what = "delegated" => e.node \in Nodes /\ f[e.node] = 0 /\ e.tag # 0
    /\ e.what \in Answers => e.node \in Nodes /\ f[e.node] = e.tag

Says(st, e, st2) ==
    /\ st2.status = IF e.what \in DOMAIN StatusEvents THEN StatusEvents[e.what] ELSE st.status
    /\ Adds(st.completed, st2.completed, e, Completing)
    /\ Adds(st.skipped, st2.skipped, e, {"skipped"})
    /\ Adds(st.approved, st2.approved, e, {"granted"})
    /\ st2.running = RunningAfter(st.running, e)
    /\ Fits(st.running, e)

LEMMA ToldSame ==
    ASSUME NEW L, NEW L2, NEW m \in Nat, NEW st, NEW st2, Told(st, L, m),
           \A j \in 1 .. m : L2[j] = L[j],
           st2.status = st.status, st2.completed = st.completed, st2.skipped = st.skipped,
           st2.approved = st.approved, st2.running = st.running
    PROVE  Told(st2, L2, m)
  <1>1. TellsStatus(st2.status, L2, m)
    BY DEF Told, TellsStatus
  <1>2. ASSUME NEW W PROVE Named(L2, m, W) = Named(L, m, W)
    BY DEF Named
  <1>3. \A n, j : j \in 1 .. m => (OpenAt(L2, m, n, j) <=> OpenAt(L, m, n, j))
    BY DEF OpenAt
  <1>4. TellsRunning(st.running, L2, m)
    BY <1>3 DEF Told, TellsRunning
  <1> QED
    BY <1>1, <1>2, <1>4 DEF Told

LEMMA NamedMore ==
    ASSUME NEW L, NEW m \in Nat, NEW W, NEW s, NEW s2, s = Named(L, m, W),
           Adds(s, s2, L[m + 1], W)
    PROVE  s2 = Named(L, m + 1, W)
  <1>1. 1 .. m + 1 = (1 .. m) \cup {m + 1}
    OBVIOUS
  <1>2. \A x : x \in Named(L, m + 1, W) <=> x \in s \/ (x = L[m + 1].node /\ L[m + 1].what \in W)
    BY <1>1 DEF Named
  <1> QED
    BY <1>2 DEF Adds

LEMMA StatusMore ==
    ASSUME NEW L, NEW m \in Nat, NEW s, TellsStatus(s, L, m)
    PROVE  TellsStatus(IF L[m + 1].what \in DOMAIN StatusEvents
                       THEN StatusEvents[L[m + 1].what] ELSE s, L, m + 1)
  <1>1. CASE L[m + 1].what \in DOMAIN StatusEvents
    <2>1. m + 1 \in 1 .. m + 1 /\ \A k \in m + 1 + 1 .. m + 1 : FALSE
      OBVIOUS
    <2> QED
      BY <1>1, <2>1 DEF TellsStatus
  <1>2. CASE L[m + 1].what \notin DOMAIN StatusEvents
    <2>1. PICK j \in 1 .. m : /\ L[j].what \in DOMAIN StatusEvents
                              /\ s = StatusEvents[L[j].what]
                              /\ \A k \in j + 1 .. m : L[k].what \notin DOMAIN StatusEvents
      BY DEF TellsStatus
    <2>2. \A k \in j + 1 .. m + 1 : L[k].what \notin DOMAIN StatusEvents
      BY <1>2, <2>1
    <2>3. j \in 1 .. m + 1
      OBVIOUS
    <2> QED
      BY <1>2, <2>1, <2>2, <2>3 DEF TellsStatus
  <1> QED
    BY <1>1, <1>2

LEMMA OpenMore ==
    ASSUME NEW L, NEW m \in Nat, NEW n, NEW j \in 1 .. m
    PROVE  OpenAt(L, m + 1, n, j) <=> OpenAt(L, m, n, j) /\ ~ Shuts(L[m + 1], n, L[j].tag)
  BY DEF OpenAt

LEMMA OpenNew ==
    ASSUME NEW L, NEW m \in Nat, NEW n
    PROVE  OpenAt(L, m + 1, n, m + 1) <=> L[m + 1].what = "delegated" /\ L[m + 1].node = n
  BY DEF OpenAt

LEMMA RunningMore ==
    ASSUME NEW L, NEW m \in Nat, NEW f \in [Nodes -> Nat], TellsRunning(f, L, m),
           Fits(f, L[m + 1])
    PROVE  TellsRunning(RunningAfter(f, L[m + 1]), L, m + 1)
  <1> DEFINE e == L[m + 1]
  <1> DEFINE g == RunningAfter(f, e)
  <1> SUFFICES ASSUME NEW n \in Nodes
               PROVE  \/ g[n] = 0 /\ \A j \in 1 .. m + 1 : ~ OpenAt(L, m + 1, n, j)
                      \/ \E j \in 1 .. m + 1 :
                            /\ OpenAt(L, m + 1, n, j) /\ L[j].tag = g[n] /\ g[n] # 0
                            /\ \A k \in 1 .. m + 1 : OpenAt(L, m + 1, n, k) => k = j
    BY DEF TellsRunning
  <1>1. 1 .. m + 1 = (1 .. m) \cup {m + 1}
    OBVIOUS
  <1>2. \A j \in 1 .. m : OpenAt(L, m + 1, n, j) <=> OpenAt(L, m, n, j) /\ ~ Shuts(e, n, L[j].tag)
    BY OpenMore
  <1>3. OpenAt(L, m + 1, n, m + 1) <=> e.what = "delegated" /\ e.node = n
    BY OpenNew
  <1>4. \/ f[n] = 0 /\ \A j \in 1 .. m : ~ OpenAt(L, m, n, j)
        \/ \E j \in 1 .. m : /\ OpenAt(L, m, n, j) /\ L[j].tag = f[n] /\ f[n] # 0
                             /\ \A k \in 1 .. m : OpenAt(L, m, n, k) => k = j
    BY DEF TellsRunning
  <1>5. Fits(f, e)
    OBVIOUS
  <1>6. m + 1 \notin 1 .. m
    OBVIOUS
  <1>7. CASE e.what \in Ends
    <2>1. g[n] = 0 /\ \A a : Shuts(e, n, a)
      BY <1>7 DEF RunningAfter, Shuts
    <2>2. e.what # "delegated"
      BY <1>7 DEF Ends
    <2> HIDE DEF g, e
    <2> QED
      BY <1>1, <1>2, <1>3, <2>1, <2>2
  <1>8. CASE e.what = "delegated"
    <2>1. \A a : ~ Shuts(e, n, a)
      BY <1>8 DEF Shuts, Ends, Answers
    <2>2. e.node \in Nodes /\ f[e.node] = 0 /\ e.tag # 0
      BY <1>5, <1>8 DEF Fits
    <2>3. g[n] = IF n = e.node THEN e.tag ELSE f[n]
      BY <1>8, <2>2 DEF RunningAfter, Ends
    <2>4. L[m + 1].tag = e.tag
      OBVIOUS
    <2> HIDE DEF g, e
    <2>5. CASE n = e.node
      <3>1. \A j \in 1 .. m : ~ OpenAt(L, m + 1, n, j)
        BY <1>2, <1>4, <2>2, <2>5
      <3>2. OpenAt(L, m + 1, n, m + 1)
        BY <1>3, <1>8, <2>5
      <3> QED
        BY <1>1, <2>2, <2>3, <2>4, <2>5, <3>1, <3>2
    <2>6. CASE n # e.node
      <3>1. ~ OpenAt(L, m + 1, n, m + 1)
        BY <1>3, <2>6
      <3>2. \A j \in 1 .. m : OpenAt(L, m + 1, n, j) <=> OpenAt(L, m, n, j)
        BY <1>2, <2>1
      <3> QED
        BY <1>1, <1>4, <2>3, <2>6, <3>1, <3>2
    <2> QED
      BY <2>5, <2>6
  <1>9. CASE e.what \in Answers
    <2>1. \A a : Shuts(e, n, a) <=> e.node = n /\ e.tag = a
      BY <1>9 DEF Shuts, Ends, Answers
    <2>2. e.node \in Nodes /\ f[e.node] = e.tag
      BY <1>5, <1>9 DEF Fits
    <2>3. g[n] = IF n = e.node THEN 0 ELSE f[n]
      BY <1>9, <2>2 DEF RunningAfter, Ends, Answers
    <2>4. ~ OpenAt(L, m + 1, n, m + 1)
      BY <1>3, <1>9 DEF Answers
    <2> HIDE DEF g, e
    <2>5. CASE n = e.node
      BY <1>1, <1>2, <1>4, <2>1, <2>2, <2>3, <2>4, <2>5
    <2>6. CASE n # e.node
      <3>2. \A j \in 1 .. m : OpenAt(L, m + 1, n, j) <=> OpenAt(L, m, n, j)
        BY <1>2, <2>1, <2>6
      <3> QED
        BY <1>1, <1>4, <2>3, <2>6, <2>4, <3>2
    <2> QED
      BY <2>5, <2>6
  <1>10. CASE e.what \notin Ends /\ e.what # "delegated" /\ e.what \notin Answers
    <2>1. \A a : ~ Shuts(e, n, a)
      BY <1>10 DEF Shuts
    <2>2. g[n] = f[n]
      BY <1>10 DEF RunningAfter
    <2>3. ~ OpenAt(L, m + 1, n, m + 1)
      BY <1>3, <1>10
    <2>4. \A j \in 1 .. m : OpenAt(L, m + 1, n, j) <=> OpenAt(L, m, n, j)
      BY <1>2, <2>1
    <2> HIDE DEF g, e
    <2> QED
      BY <1>1, <1>4, <2>2, <2>3, <2>4
  <1> QED
    BY <1>7, <1>8, <1>9, <1>10

LEMMA ToldMore ==
    ASSUME NEW L, NEW m \in Nat, NEW st \in RunState, NEW st2, Told(st, L, m),
           Says(st, L[m + 1], st2)
    PROVE  Told(st2, L, m + 1)
  <1>1. TellsStatus(st2.status, L, m + 1)
    BY StatusMore DEF Told, Says
  <1>2. st2.completed = Named(L, m + 1, Completing)
    BY NamedMore DEF Told, Says
  <1>3. st2.skipped = Named(L, m + 1, {"skipped"})
    BY NamedMore DEF Told, Says
  <1>4. st2.approved = Named(L, m + 1, {"granted"})
    BY NamedMore DEF Told, Says
  <1>5. st.running \in [Nodes -> Nat]
    BY PlanAssumption DEF RunState, Attempts
  <1>6. TellsRunning(st2.running, L, m + 1)
    <2>1. TellsRunning(st.running, L, m) /\ Fits(st.running, L[m + 1])
              /\ st2.running = RunningAfter(st.running, L[m + 1])
      BY DEF Told, Says
    <2> QED
      BY <1>5, <2>1, RunningMore
  <1> QED
    BY <1>1, <1>2, <1>3, <1>4, <1>6 DEF Told

\* What thread memory r says of the log: the events it has seen, then the
\* ones it is about to append.
Story(L, r) == [j \in Nat |-> IF j <= r.st.seq THEN L[j] ELSE r.out[j - r.st.seq]]

StoryTold(L, r) == Told(r.st, Story(L, r), r.st.seq + Len(r.out))

\* No event is about what changes from st to st2.
Like(st, st2) ==
    /\ st2.status = st.status /\ st2.completed = st.completed /\ st2.skipped = st.skipped
    /\ st2.approved = st.approved /\ st2.running = st.running

\* The events r2 is about to append say how its state differs from st.
Writes(st, r2) ==
    /\ r2.st.seq = st.seq
    /\ \/ r2.out = <<>> /\ Like(st, r2.st)
       \/ \E e : r2.out = <<e>> /\ Says(st, e, r2.st)
       \/ \E e, f : \E mid \in RunState :
             r2.out = <<e, f>> /\ Says(st, e, mid) /\ Says(mid, f, r2.st)

\* No candidate for dispatch is delegated already.
Orderly(r) ==
    /\ r.pc \in {"dispatch", "claim", "submit"} => r.todo \cap Running(r.st) = {}
    /\ r.pc \in {"claim", "submit"} => r.node \notin r.todo /\ r.st.running[r.node] = 0

\* A thread that stores has announced the revision it stores, as its last event.
Announced(L, r) ==
    r.pc = "store" =>
        \/ r.out = <<Event("checkpoint", 0, r.token)>>
        \/ r.out = <<>> /\ L[r.st.seq] = Event("checkpoint", 0, r.token)

\* What an operation under way and a saved checkpoint say is in the log.
ThreadTold(L, r) == r.pc # "idle" => StoryTold(L, r) /\ Orderly(r) /\ Announced(L, r)

SavedTold(L, st, i) == L[st.seq] = Event("checkpoint", 0, i) /\ Told(st, L, st.seq)

TaleInv ==
    /\ \A h \in Hubs : ThreadTold(log, hub[h])
    /\ \A i \in DOMAIN checkpoints : SavedTold(log, checkpoints[i].state, i)

LEMMA StatusFacts ==
    /\ DOMAIN StatusEvents = {"started", "resumed", "granted", "retried", "requested", "paused",
                              "gate_paused", "run_failed", "run_cancelled", "run_completed"}
    /\ StatusEvents["started"] = "running" /\ StatusEvents["resumed"] = "running"
    /\ StatusEvents["granted"] = "running" /\ StatusEvents["retried"] = "running"
    /\ StatusEvents["requested"] = "waiting_for_approval"
    /\ StatusEvents["paused"] = "paused" /\ StatusEvents["gate_paused"] = "paused"
    /\ StatusEvents["run_failed"] = "failed" /\ StatusEvents["run_cancelled"] = "cancelled"
    /\ StatusEvents["run_completed"] = "completed"
  BY DEF StatusEvents

LEMMA StoryQuiet ==
    ASSUME NEW L, NEW r \in HubState, r.out = <<>>
    PROVE  StoryTold(L, r) <=> Told(r.st, L, r.st.seq)
  <1>1. r.st.seq \in Nat /\ r.st.seq + Len(r.out) = r.st.seq
    BY DEF HubState, RunState
  <1>2. PICK S : S = Story(L, r)
    OBVIOUS
  <1>3. PICK m \in Nat : m = r.st.seq
    BY <1>1
  <1>4. \A j \in 1 .. m : S[j] = L[j] /\ L[j] = S[j]
    BY <1>2, <1>3 DEF Story
  <1>5. Told(r.st, L, m) => Told(r.st, S, m)
    BY <1>4, ToldSame
  <1>6. Told(r.st, S, m) => Told(r.st, L, m)
    BY <1>4, ToldSame
  <1> QED
    BY <1>1, <1>2, <1>3, <1>5, <1>6 DEF StoryTold

LEMMA WritesTold ==
    ASSUME NEW L, NEW st \in RunState, NEW r2 \in HubState, Told(st, L, st.seq), Writes(st, r2)
    PROVE  StoryTold(L, r2)
  <1> DEFINE S == Story(L, r2)
             m == st.seq
  <1>1. m \in Nat /\ r2.st.seq = m
    BY DEF Writes, RunState
  <1>2. \A j \in 1 .. m : S[j] = L[j]
    BY <1>1 DEF Story
  <1>3. Told(st, S, m)
    BY <1>1, <1>2, ToldSame
  <1>4. CASE r2.out = <<>> /\ Like(st, r2.st)
    <2>1. Told(r2.st, S, m)
      BY <1>1, <1>3, <1>4, ToldSame DEF Like
    <2>2. r2.st.seq + Len(r2.out) = m
      BY <1>1, <1>4
    <2> QED
      BY <2>1, <2>2 DEF StoryTold
  <1>5. CASE \E e : r2.out = <<e>> /\ Says(st, e, r2.st)
    <2>1. PICK e : r2.out = <<e>> /\ Says(st, e, r2.st)
      BY <1>5
    <2>2. r2.st.seq + Len(r2.out) = m + 1 /\ S[m + 1] = e
      BY <1>1, <2>1 DEF Story
    <2>3. Told(r2.st, S, m + 1)
      BY <1>1, <1>3, <2>1, <2>2, ToldMore
    <2> QED
      BY <2>2, <2>3 DEF StoryTold
  <1>6. CASE \E e, f : \E mid \in RunState :
                r2.out = <<e, f>> /\ Says(st, e, mid) /\ Says(mid, f, r2.st)
    <2>1. PICK e, f : \E mid \in RunState :
                r2.out = <<e, f>> /\ Says(st, e, mid) /\ Says(mid, f, r2.st)
      BY <1>6
    <2>2. PICK mid \in RunState : r2.out = <<e, f>> /\ Says(st, e, mid) /\ Says(mid, f, r2.st)
      BY <2>1
    <2>3. r2.st.seq + Len(r2.out) = m + 1 + 1 /\ S[m + 1] = e /\ S[m + 1 + 1] = f
      BY <1>1, <2>2 DEF Story
    <2>4. Told(mid, S, m + 1)
      BY <1>1, <1>3, <2>2, <2>3, ToldMore
    <2>5. Told(r2.st, S, m + 1 + 1)
      BY <1>1, <2>2, <2>3, <2>4, ToldMore
    <2> QED
      BY <2>3, <2>5 DEF StoryTold
  <1> QED
    BY <1>4, <1>5, <1>6 DEF Writes

\* Thread h goes on, and says so.
Narrates(h) ==
    /\ \A g \in Hubs \ {h} : hub'[g] = hub[g]
    /\ \/ hub'[h].pc = "idle"
       \/ /\ hub[h].pc # "idle" /\ hub[h].out = <<>>
          /\ Writes(hub[h].st, hub'[h])
          /\ Orderly(hub'[h])
          /\ hub'[h].pc # "store"

LEMMA GoesTo ==
    ASSUME BaseInv, NEW h \in Hubs, NEW r2, Goto(h, r2)
    PROVE  hub'[h] = r2 /\ \A g \in Hubs \ {h} : hub'[g] = hub[g]
  BY DEF Goto, BaseInv, TypeOK

LEMMA RaiseNarrates ==
    ASSUME BaseInv, NEW h \in Hubs, Raise(h)
    PROVE  Narrates(h)
  <1>1. Goto(h, Idle)
    BY DEF Raise, Goto
  <1> QED
    BY <1>1, GoesTo, IdleOK DEF Narrates

LEMMA GotoNarrates ==
    ASSUME BaseInv, NEW h \in Hubs, NEW r2, Goto(h, r2), hub[h].pc # "idle", hub[h].out = <<>>,
           Writes(hub[h].st, r2), Orderly(r2), r2.pc # "store"
    PROVE  Narrates(h)
  BY GoesTo DEF Narrates

\* A thread that fails the run out of memory r says what r says.
LEMMA FailNarrates ==
    ASSUME BaseInv, NEW h \in Hubs, NEW r \in HubState, NEW th \in {"save", "dispatch"},
           Goto(h, FailRun(r, th)), hub[h].pc # "idle", hub[h].out = <<>>,
           Writes(hub[h].st, r)
    PROVE  Narrates(h)
  <1>1. PICK f : f = FailRun(r, th)
    OBVIOUS
  <1>2. f.st = r.st /\ f.out = r.out /\ f.pc = "cancel"
    BY <1>1 DEF FailRun, HubState
  <1>3. Writes(hub[h].st, f) /\ Orderly(f)
    BY <1>2 DEF Writes, Orderly
  <1> QED
    BY <1>1, <1>2, <1>3, GotoNarrates

LEMMA SelfWrites ==
    ASSUME NEW st, NEW r2, r2.out = <<>>, r2.st = st
    PROVE  Writes(st, r2)
  BY DEF Writes, Like

LEMMA OneWrites ==
    ASSUME NEW st, NEW e, NEW st2, NEW r2, r2.out = <<e>>, r2.st = st2, Says(st, e, st2),
           st2.seq = st.seq
    PROVE  Writes(st, r2)
  BY DEF Writes

LEMMA PollNarrates ==
    ASSUME BaseInv, NEW h \in Hubs, Poll(h)
    PROVE  Narrates(h)
  <1>1. hub[h] \in HubState
    BY HubTyped
  <1>2. hub[h].pc = "poll" /\ hub[h].out = <<>>
    BY DEF Poll, At
  <1>3. PICK done : Goto(h, [hub[h] EXCEPT !.pc = "collect", !.todo = done])
    BY DEF Poll
  <1> DEFINE r2 == [hub[h] EXCEPT !.pc = "collect", !.todo = done]
  <1>4. r2.st = hub[h].st /\ r2.out = <<>> /\ r2.pc = "collect"
    BY <1>1, <1>2 DEF HubState
  <1>5. Goto(h, r2)
    BY <1>3
  <1> HIDE DEF r2
  <1>6. Writes(hub[h].st, r2) /\ Orderly(r2)
    BY <1>4, SelfWrites DEF Orderly
  <1> QED
    BY <1>2, <1>4, <1>5, <1>6, GotoNarrates

\* An answer closes the delegation the copy has of the node.
LEMMA AnswerSays ==
    ASSUME NEW st \in RunState, NEW n \in Nodes, NEW st2, NEW e,
           e.what \in {"retry", "failed"}, e.node = n, e.tag = st.running[n],
           st2.running = [st.running EXCEPT ![n] = 0], st2.status = st.status,
           st2.completed = st.completed, st2.skipped = st.skipped, st2.approved = st.approved
    PROVE  Says(st, e, st2)
  <1>1. e.what \notin DOMAIN StatusEvents /\ e.what \notin Completing /\ e.what \notin Ends
            /\ e.what \in Answers /\ e.what # "delegated" /\ e.what \notin {"skipped"}
            /\ e.what \notin {"granted"}
    BY StatusFacts DEF Completing, Ends, Answers
  <1> QED
    BY <1>1 DEF Says, Adds, RunningAfter, Fits

LEMMA CollectCompletedNarrates ==
    ASSUME BaseInv, NEW h \in Hubs, CollectCompleted(h)
    PROVE  Narrates(h)
  <1>1. hub[h] \in HubState /\ SoundMemory(hub[h]) /\ SoundState(hub[h].st)
            /\ hub[h].st \in RunState
    BY HubTyped
  <1>2. hub[h].pc = "collect" /\ hub[h].out = <<>> /\ hub[h].todo # {}
    BY DEF CollectCompleted, At
  <1>3. hub[h].todo \in SUBSET Nodes
    BY <1>1 DEF HubState
  <1> DEFINE st == hub[h].st
             n == Min(hub[h].todo)
             a == hub[h].st.running[n]
             st1 == Collected(hub[h].st, n)
             st2 == Completes(st1, n)
             e == Event("completed", n, a)
             f == Event("side_effect", n, a)
             out == CompletionEvents(n, a)
             r2 == [hub[h] EXCEPT !.todo = @ \ {n}, !.st = st2, !.out = out]
  <1>4. Raise(h) \/ Goto(h, r2)
    BY DEF CollectCompleted
  <1>5. n \in Nodes
    BY <1>2, <1>3, FirstNode
  <1> HIDE DEF n
  <1>6. PICK run2 : run2 = [st.running EXCEPT ![n] = 0]
    OBVIOUS
  <1>7. /\ st1.running = run2 /\ st1.status = st.status /\ st1.completed = st.completed
        /\ st1.skipped = st.skipped /\ st1.approved = st.approved /\ st1.seq = st.seq
        /\ st1 \in RunState
    <2>1. st1 \in RunState
      BY <1>1, <1>5, CollectedOK
    <2>2. st1 = [st EXCEPT !.running = run2]
      BY <1>6 DEF Collected
    <2> QED
      BY <1>1, <2>1, <2>2 DEF RunState
  <1> HIDE DEF st1
  <1>8. /\ st2.running = run2 /\ st2.status = st.status /\ st2.completed = st.completed \cup {n}
        /\ st2.skipped = st.skipped /\ st2.approved = st.approved /\ st2.seq = st.seq
        /\ st2 \in RunState
    BY <1>5, <1>7 DEF Completes, RunState
  <1> HIDE DEF st2
  <1>9. /\ e.what = "completed" /\ e.node = n /\ e.tag = a /\ f.what = "side_effect"
        /\ out = <<e>> \/ out = <<e, f>>
    BY DEF Event, CompletionEvents
  <1> HIDE DEF e, f, out
  <1>10. r2.st = st2 /\ r2.out = out /\ r2.pc = "collect"
    BY <1>1, <1>2 DEF HubState
  <1> HIDE DEF r2
  <1>11. Says(st, e, st2)
    <2>1. e.what \notin DOMAIN StatusEvents /\ e.what \in Completing /\ e.what \notin Ends
            /\ e.what \in Answers /\ e.what # "delegated" /\ e.what \notin {"skipped"}
            /\ e.what \notin {"granted"}
      BY <1>9, StatusFacts DEF Completing, Ends, Answers
    <2> QED
      BY <1>5, <1>6, <1>8, <1>9, <2>1 DEF Says, Adds, RunningAfter, Fits
  <1>s. Says(st2, f, st2)
    <2>1. f.what \notin DOMAIN StatusEvents /\ f.what \notin Completing /\ f.what \notin Ends
            /\ f.what \notin Answers /\ f.what # "delegated" /\ f.what \notin {"skipped"}
            /\ f.what \notin {"granted"}
      BY <1>9, StatusFacts DEF Completing, Ends, Answers
    <2> QED
      BY <2>1 DEF Says, Adds, RunningAfter, Fits
  <1>12. Writes(st, r2) /\ Orderly(r2)
    <2>1. CASE out = <<e>>
      BY <1>8, <1>10, <1>11, <2>1, OneWrites DEF Orderly
    <2>2. CASE out = <<e, f>>
      BY <1>8, <1>10, <1>11, <1>s, <2>2 DEF Writes, Orderly
    <2> QED
      BY <1>9, <2>1, <2>2
  <1> QED
    BY <1>2, <1>4, <1>10, <1>12, GotoNarrates, RaiseNarrates

LEMMA CollectFailedNarrates ==
    ASSUME BaseInv, NEW h \in Hubs, CollectFailed(h)
    PROVE  Narrates(h)
  <1>1. hub[h] \in HubState /\ SoundMemory(hub[h]) /\ SoundState(hub[h].st)
            /\ hub[h].st \in RunState
    BY HubTyped
  <1>2. hub[h].pc = "collect" /\ hub[h].out = <<>> /\ hub[h].todo # {}
    BY DEF CollectFailed, At
  <1>3. hub[h].todo \in SUBSET Nodes
    BY <1>1 DEF HubState
  <1> DEFINE st == hub[h].st
             n == Min(hub[h].todo)
             a == hub[h].st.running[n]
             st1 == Collected(hub[h].st, n)
             st2 == Fails(st1, n)
             e1 == Event("retry", n, a)
             e2 == Event("failed", n, a)
             again == [hub[h] EXCEPT !.todo = @ \ {n}, !.st = st1, !.out = <<e1>>]
             failing == [hub[h] EXCEPT !.todo = @ \ {n}, !.st = st2, !.out = <<e2>>]
  <1>4. Raise(h) \/ Goto(h, again) \/ Goto(h, failing) \/ Goto(h, FailRun(failing, "save"))
    BY DEF CollectFailed
  <1>5. n \in Nodes
    BY <1>2, <1>3, FirstNode
  <1> HIDE DEF n
  <1>6. PICK run2 : run2 = [st.running EXCEPT ![n] = 0]
    OBVIOUS
  <1>7. /\ st1.running = run2 /\ st1.status = st.status /\ st1.completed = st.completed
        /\ st1.skipped = st.skipped /\ st1.approved = st.approved /\ st1.seq = st.seq
        /\ st1 \in RunState /\ SoundState(st1)
    <2>1. st1 \in RunState /\ SoundState(st1)
      BY <1>1, <1>5, CollectedOK
    <2>2. st1 = [st EXCEPT !.running = run2]
      BY <1>6 DEF Collected
    <2> QED
      BY <1>1, <2>1, <2>2 DEF RunState
  <1> HIDE DEF st1
  <1>8. /\ st2.running = run2 /\ st2.status = st.status /\ st2.completed = st.completed
        /\ st2.skipped = st.skipped /\ st2.approved = st.approved /\ st2.seq = st.seq
        /\ st2 \in RunState
    BY <1>5, <1>7 DEF Fails, RunState
  <1> HIDE DEF st2
  <1>9. /\ e1.what = "retry" /\ e1.node = n /\ e1.tag = a
        /\ e2.what = "failed" /\ e2.node = n /\ e2.tag = a /\ e2 \in EventRow
    <2>1. a \in Nat
      BY <1>1, <1>5, PlanAssumption DEF RunState, Attempts
    <2> QED
      BY <1>5, <2>1 DEF Event, EventRow, EventKinds
  <1> HIDE DEF e1, e2
  <1>10. again.st = st1 /\ again.out = <<e1>> /\ again.pc = "collect"
    BY <1>1, <1>2 DEF HubState
  <1>11. failing.st = st2 /\ failing.out = <<e2>> /\ failing.pc = "collect" /\ failing \in HubState
    <2>1. <<e2>> \in Seq(EventRow)
      BY <1>9
    <2> QED
      BY <1>1, <1>2, <1>8, <2>1 DEF HubState
  <1> HIDE DEF again, failing
  <1>12. Says(st, e1, st1)
    <2>1. e1.what \in {"retry", "failed"} /\ e1.node = n /\ e1.tag = st.running[n]
      BY <1>9
    <2>2. /\ st1.running = [st.running EXCEPT ![n] = 0] /\ st1.status = st.status
          /\ st1.completed = st.completed /\ st1.skipped = st.skipped
          /\ st1.approved = st.approved
      BY <1>6, <1>7
    <2>3. st \in RunState
      BY <1>1
    <2> HIDE DEF st, a, again, failing
    <2> QED
      BY <1>5, <2>1, <2>2, <2>3, AnswerSays
  <1>13. Says(st, e2, st2)
    <2>1. e2.what \in {"retry", "failed"} /\ e2.node = n /\ e2.tag = st.running[n]
      BY <1>9
    <2>2. /\ st2.running = [st.running EXCEPT ![n] = 0] /\ st2.status = st.status
          /\ st2.completed = st.completed /\ st2.skipped = st.skipped
          /\ st2.approved = st.approved
      BY <1>6, <1>8
    <2>3. st \in RunState
      BY <1>1
    <2> HIDE DEF st, a, again, failing
    <2> QED
      BY <1>5, <2>1, <2>2, <2>3, AnswerSays
  <1>14. Writes(st, again) /\ Orderly(again)
    BY <1>7, <1>10, <1>12, OneWrites DEF Orderly
  <1>15. Writes(st, failing) /\ Orderly(failing)
    BY <1>8, <1>11, <1>13, OneWrites DEF Orderly
  <1>16. CASE Goto(h, FailRun(failing, "save"))
    BY <1>2, <1>11, <1>15, <1>16, FailNarrates
  <1>17. CASE Goto(h, again)
    BY <1>2, <1>10, <1>14, <1>17, GotoNarrates
  <1>18. CASE Goto(h, failing)
    BY <1>2, <1>11, <1>15, <1>18, GotoNarrates
  <1> QED
    BY <1>4, <1>16, <1>17, <1>18, RaiseNarrates

\* A node is skipped or completed: the event names it.
LEMMA NamesSays ==
    ASSUME NEW st, NEW st2, NEW e,
           e.what \in {"skipped", "merged", "checkpoint_node"},
           st2.running = st.running, st2.status = st.status, st2.approved = st.approved,
           st2.completed = IF e.what = "skipped" THEN st.completed ELSE st.completed \cup {e.node},
           st2.skipped = IF e.what = "skipped" THEN st.skipped \cup {e.node} ELSE st.skipped
    PROVE  Says(st, e, st2)
  <1>1. e.what \notin DOMAIN StatusEvents /\ (e.what \in Completing <=> e.what # "skipped")
            /\ e.what \notin Ends /\ e.what \notin Answers /\ e.what # "delegated"
            /\ e.what \notin {"granted"}
    BY StatusFacts DEF Completing, Ends, Answers
  <1> QED
    BY <1>1 DEF Says, Adds, RunningAfter, Fits

LEMMA SkipNarrates ==
    ASSUME BaseInv, NEW h \in Hubs, Skip(h)
    PROVE  Narrates(h)
  <1>1. hub[h] \in HubState /\ hub[h].st \in RunState
    BY HubTyped
  <1>2. hub[h].pc = "collect" /\ hub[h].out = <<>>
    BY DEF Skip, At
  <1> DEFINE st == hub[h].st
             n == Min(Unrouted(hub[h].st))
             st2 == Skips(hub[h].st, n)
             e == Event("skipped", n, 0)
             r2 == [hub[h] EXCEPT !.st = st2, !.out = <<e>>]
  <1>3. Goto(h, FailRun(hub[h], "save")) \/ Goto(h, r2)
    BY DEF Skip
  <1> HIDE DEF n
  <1>4. /\ st2.running = st.running /\ st2.status = st.status /\ st2.completed = st.completed
        /\ st2.skipped = st.skipped \cup {n} /\ st2.approved = st.approved /\ st2.seq = st.seq
    BY <1>1 DEF Skips, RunState
  <1> HIDE DEF st2
  <1>5. e.what = "skipped" /\ e.node = n
    BY DEF Event
  <1> HIDE DEF e
  <1>6. r2.st = st2 /\ r2.out = <<e>> /\ r2.pc = "collect"
    BY <1>1, <1>2 DEF HubState
  <1> HIDE DEF r2
  <1>7. Says(st, e, st2)
    <2>1. /\ e.what \in {"skipped", "merged", "checkpoint_node"}
          /\ st2.completed = IF e.what = "skipped" THEN st.completed ELSE st.completed \cup {e.node}
          /\ st2.skipped = IF e.what = "skipped" THEN st.skipped \cup {e.node} ELSE st.skipped
      BY <1>4, <1>5
    <2> QED
      BY <1>4, <2>1, NamesSays
  <1>8. Writes(st, r2) /\ Orderly(r2)
    BY <1>4, <1>6, <1>7, OneWrites DEF Orderly
  <1>9. Writes(st, hub[h])
    BY <1>2, SelfWrites
  <1> QED
    BY <1>1, <1>2, <1>3, <1>6, <1>8, <1>9, FailNarrates, GotoNarrates

LEMMA MergeNarrates ==
    ASSUME BaseInv, NEW h \in Hubs, Merge(h)
    PROVE  Narrates(h)
  <1>1. hub[h] \in HubState /\ hub[h].st \in RunState
    BY HubTyped
  <1>2. hub[h].pc \in {"collect", "merge"} /\ hub[h].out = <<>> /\ Mergeable(hub[h].st) # {}
    BY DEF Merge, AtMerges, At
  <1> DEFINE st == hub[h].st
             n == Min(Mergeable(hub[h].st))
             st2 == Completes(hub[h].st, n)
             st3 == Fails(hub[h].st, n)
             e == Event("merged", n, 0)
             r2 == [hub[h] EXCEPT !.pc = "merge", !.st = st2, !.out = <<e>>]
             r3 == [hub[h] EXCEPT !.st = st3]
  <1>3. Goto(h, FailRun(r3, "save")) \/ Goto(h, r2)
    BY DEF Merge
  <1>n. n \in Nodes
    <2>1. Mergeable(hub[h].st) \in SUBSET Nodes
      BY DEF Mergeable
    <2> QED
      BY <1>2, <2>1, FirstNode
  <1> HIDE DEF n
  <1>4. /\ st2.running = st.running /\ st2.status = st.status
        /\ st2.completed = st.completed \cup {n}
        /\ st2.skipped = st.skipped /\ st2.approved = st.approved /\ st2.seq = st.seq
    BY <1>1 DEF Completes, RunState
  <1>5. /\ Like(st, st3) /\ st3.seq = st.seq /\ st3 \in RunState
    BY <1>1, <1>n DEF Fails, RunState, Like
  <1> HIDE DEF st2, st3
  <1>6. e.what = "merged" /\ e.node = n
    BY DEF Event
  <1> HIDE DEF e
  <1>7. /\ r2.st = st2 /\ r2.out = <<e>> /\ r2.pc = "merge"
        /\ r3.st = st3 /\ r3.out = <<>> /\ r3 \in HubState
    BY <1>1, <1>2, <1>5 DEF HubState
  <1> HIDE DEF r2, r3
  <1>8. Says(st, e, st2)
    <2>1. /\ e.what \in {"skipped", "merged", "checkpoint_node"}
          /\ st2.completed = IF e.what = "skipped" THEN st.completed ELSE st.completed \cup {e.node}
          /\ st2.skipped = IF e.what = "skipped" THEN st.skipped \cup {e.node} ELSE st.skipped
      BY <1>4, <1>6
    <2> QED
      BY <1>4, <2>1, NamesSays
  <1>9. Writes(st, r2) /\ Orderly(r2)
    BY <1>4, <1>7, <1>8, OneWrites DEF Orderly
  <1>10. Writes(st, r3)
    BY <1>5, <1>7 DEF Writes
  <1> QED
    BY <1>1, <1>2, <1>3, <1>7, <1>9, <1>10, FailNarrates, GotoNarrates

LEMMA SelectNarrates ==
    ASSUME BaseInv, NEW h \in Hubs, Select(h)
    PROVE  Narrates(h)
  <1>1. hub[h] \in HubState /\ hub[h].st \in RunState
    BY HubTyped
  <1>2. hub[h].pc \in {"collect", "merge"} /\ hub[h].out = <<>>
    BY DEF Select, AtMerges, At
  <1> DEFINE b == Batch(hub[h].st)
             r2 == [hub[h] EXCEPT !.pc = "dispatch", !.todo = b]
  <1>3. Goto(h, r2)
    BY DEF Select
  <1>4. b \cap Running(hub[h].st) = {}
    BY DEF Batch, Candidates
  <1> HIDE DEF b
  <1>5. r2.st = hub[h].st /\ r2.out = <<>> /\ r2.pc = "dispatch" /\ r2.todo = b
    BY <1>1, <1>2 DEF HubState
  <1> HIDE DEF r2
  <1>6. Writes(hub[h].st, r2) /\ Orderly(r2)
    BY <1>4, <1>5, SelfWrites DEF Orderly
  <1> QED
    BY <1>2, <1>3, <1>5, <1>6, GotoNarrates

\* An event that only gives the run a status.
LEMMA StatusSays ==
    ASSUME NEW st, NEW st2, NEW e,
           e.what \in {"started", "resumed", "retried", "requested", "paused", "gate_paused",
                       "run_completed"},
           st2.status = StatusEvents[e.what], st2.running = st.running,
           st2.completed = st.completed, st2.skipped = st.skipped, st2.approved = st.approved
    PROVE  Says(st, e, st2)
  <1>1. e.what \in DOMAIN StatusEvents /\ e.what \notin Completing
            /\ e.what \notin Ends /\ e.what \notin Answers /\ e.what # "delegated"
            /\ e.what \notin {"granted"} /\ e.what \notin {"skipped"}
    BY StatusFacts DEF Completing, Ends, Answers
  <1> QED
    BY <1>1 DEF Says, Adds, RunningAfter, Fits

\* An event that says nothing of the replayed fields.
LEMMA AsideSays ==
    ASSUME NEW st, NEW st2, NEW e, e.what \in {"rejected", "checkpoint"}, Like(st, st2)
    PROVE  Says(st, e, st2)
  <1>1. e.what \notin DOMAIN StatusEvents /\ e.what \notin Completing
            /\ e.what \notin Ends /\ e.what \notin Answers /\ e.what # "delegated"
            /\ e.what \notin {"granted"} /\ e.what \notin {"skipped"}
    BY StatusFacts DEF Completing, Ends, Answers
  <1> QED
    BY <1>1 DEF Says, Adds, RunningAfter, Fits, Like

\* A gate is opened: the request, and for a resume gate the pause, are told.
LEMMA GateWrites ==
    ASSUME NEW r \in HubState, r.out = <<>>, NEW n \in Nodes, NEW r2, r2 = OpenGate(r, n)
    PROVE  /\ Writes(r.st, r2)
           /\ r2.pc = r.pc /\ r2.todo = r.todo /\ r2.node = r.node
           /\ r2.st.running = r.st.running
  <1> DEFINE st == r.st
             st3 == Opens(r.st, n, "paused")
             st4 == Opens(r.st, n, "waiting_for_approval")
             e1 == Event("requested", n, 0)
             e2 == Event("gate_paused", n, 0)
             r3 == [r EXCEPT !.st = st3, !.out = <<e1, e2>>]
             r4 == [r EXCEPT !.st = st4, !.out = <<e1>>]
  <1>1. r2 = r \/ r2 = r3 \/ r2 = r4
    BY DEF OpenGate
  <1>2. st \in RunState
    BY DEF HubState
  <1>3. /\ st3.status = "paused" /\ st3.running = st.running /\ st3.completed = st.completed
        /\ st3.skipped = st.skipped /\ st3.approved = st.approved /\ st3.seq = st.seq
    BY <1>2 DEF Opens, RunState
  <1>4. /\ st4.status = "waiting_for_approval" /\ st4.running = st.running
        /\ st4.completed = st.completed /\ st4.skipped = st.skipped
        /\ st4.approved = st.approved /\ st4.seq = st.seq /\ st4 \in RunState
    BY <1>2 DEF Opens, RunState
  <1> HIDE DEF st3, st4
  <1>5. e1.what = "requested" /\ e2.what = "gate_paused"
    BY DEF Event
  <1> HIDE DEF e1, e2
  <1>6. /\ r3.st = st3 /\ r3.out = <<e1, e2>> /\ r3.pc = r.pc /\ r3.todo = r.todo
        /\ r3.node = r.node
    BY DEF HubState
  <1>7. /\ r4.st = st4 /\ r4.out = <<e1>> /\ r4.pc = r.pc /\ r4.todo = r.todo
        /\ r4.node = r.node
    BY DEF HubState
  <1> HIDE DEF r3, r4
  <1>8. StatusEvents[e1.what] = "waiting_for_approval" /\ StatusEvents[e2.what] = "paused"
    BY <1>5, StatusFacts
  <1>9. Says(st, e1, st4)
    BY <1>4, <1>5, <1>8, StatusSays
  <1>10. Says(st4, e2, st3)
    BY <1>3, <1>4, <1>5, <1>8, StatusSays
  <1>11. CASE r2 = r
    BY <1>11, SelfWrites
  <1>12. CASE r2 = r3
    <2>1. \E e, f : \E mid \in RunState :
             r3.out = <<e, f>> /\ Says(st, e, mid) /\ Says(mid, f, r3.st)
      BY <1>4, <1>6, <1>9, <1>10, Zenon
    <2> QED
      BY <1>3, <1>6, <1>12, <2>1 DEF Writes
  <1>13. CASE r2 = r4
    <2>1. Writes(st, r4)
      BY <1>4, <1>7, <1>9, OneWrites
    <2> QED
      BY <1>4, <1>7, <1>13, <2>1
  <1> QED
    BY <1>1, <1>11, <1>12, <1>13

LEMMA DispatchNarrates ==
    ASSUME BaseInv, NEW h \in Hubs, Orderly(hub[h]), Dispatch(h)
    PROVE  Narrates(h)
  <1>1. hub[h] \in HubState /\ hub[h].st \in RunState
    BY HubTyped
  <1>2. hub[h].pc = "dispatch" /\ hub[h].out = <<>> /\ hub[h].todo # {}
    BY DEF Dispatch, At
  <1> DEFINE st == hub[h].st
             n == Min(hub[h].todo)
             rest == [hub[h] EXCEPT !.todo = @ \ {n}]
             st2 == Completes(hub[h].st, n)
             e == Event("checkpoint_node", n, 0)
             done == [hub[h] EXCEPT !.todo = @ \ {n}, !.st = st2, !.out = <<e>>]
             claim == [rest EXCEPT !.pc = "claim", !.node = n]
  <1>3. \/ Goto(h, rest)
        \/ Goto(h, OpenGate(rest, n))
        \/ Goto(h, done)
        \/ Goto(h, FailRun(hub[h], "save"))
        \/ Goto(h, claim)
    BY DEF Dispatch
  <1>4. n \in hub[h].todo /\ n \in Nodes
    BY <1>1, <1>2, FirstNode DEF HubState
  <1>5. hub[h].todo \cap Running(st) = {}
    BY <1>2 DEF Orderly
  <1>6. st.running[n] = 0
    BY <1>4, <1>5 DEF Running
  <1> HIDE DEF n
  <1>7. /\ rest \in HubState /\ rest.st = hub[h].st /\ rest.pc = "dispatch" /\ rest.out = <<>>
        /\ rest.todo = hub[h].todo \ {n}
    BY <1>1, <1>2, <1>4 DEF HubState
  <1> HIDE DEF rest
  <1>8. CASE Goto(h, rest)
    <2>1. Writes(st, rest) /\ Orderly(rest)
      BY <1>5, <1>7, SelfWrites DEF Orderly
    <2> QED
      BY <1>2, <1>7, <1>8, <2>1, GotoNarrates
  <1>9. CASE Goto(h, OpenGate(rest, n))
    <2>1. PICK r2 : r2 = OpenGate(rest, n)
      OBVIOUS
    <2>2. /\ Writes(st, r2) /\ r2.pc = "dispatch" /\ r2.todo = hub[h].todo \ {n}
          /\ r2.st.running = st.running
      BY <1>4, <1>7, <2>1, GateWrites
    <2>3. Orderly(r2)
      BY <1>5, <2>2 DEF Orderly, Running
    <2> QED
      BY <1>2, <1>9, <2>1, <2>2, <2>3, GotoNarrates
  <1>10. CASE Goto(h, done)
    <2>1. /\ st2.running = st.running /\ st2.status = st.status
          /\ st2.completed = st.completed \cup {n}
          /\ st2.skipped = st.skipped /\ st2.approved = st.approved /\ st2.seq = st.seq
      BY <1>1 DEF Completes, RunState
    <2> HIDE DEF st2
    <2>2. e.what = "checkpoint_node" /\ e.node = n
      BY DEF Event
    <2> HIDE DEF e
    <2>3. /\ done.st = st2 /\ done.out = <<e>> /\ done.pc = "dispatch"
          /\ done.todo = hub[h].todo \ {n}
      BY <1>1, <1>2 DEF HubState
    <2> HIDE DEF done
    <2>4. Says(st, e, st2)
      <3>1. /\ e.what \in {"skipped", "merged", "checkpoint_node"}
            /\ st2.completed = IF e.what = "skipped" THEN st.completed ELSE st.completed \cup {e.node}
            /\ st2.skipped = IF e.what = "skipped" THEN st.skipped \cup {e.node} ELSE st.skipped
        BY <2>1, <2>2
      <3> HIDE DEF st
      <3> QED
        BY <2>1, <3>1, NamesSays
    <2>5. Writes(st, done)
      BY <2>1, <2>3, <2>4, OneWrites
    <2>6. Orderly(done)
      BY <1>5, <2>1, <2>3 DEF Orderly, Running
    <2> QED
      BY <1>2, <1>10, <2>3, <2>5, <2>6, GotoNarrates
  <1>11. CASE Goto(h, FailRun(hub[h], "save"))
    <2>1. Writes(st, hub[h])
      BY <1>2, SelfWrites
    <2> QED
      BY <1>1, <1>2, <1>11, <2>1, FailNarrates
  <1>12. CASE Goto(h, claim)
    <2>1. /\ claim.st = st /\ claim.pc = "claim" /\ claim.node = n
          /\ claim.out = <<>> /\ claim.todo = hub[h].todo \ {n}
      BY <1>7 DEF HubState
    <2> HIDE DEF claim
    <2>2. Writes(st, claim) /\ Orderly(claim)
      BY <1>5, <1>6, <2>1, SelfWrites DEF Orderly
    <2> QED
      BY <1>2, <1>12, <2>1, <2>2, GotoNarrates
  <1> QED
    BY <1>3, <1>8, <1>9, <1>10, <1>11, <1>12

LEMMA ClaimNarrates ==
    ASSUME BaseInv, NEW h \in Hubs, Orderly(hub[h]), Claim(h)
    PROVE  Narrates(h)
  <1>1. hub[h] \in HubState /\ SoundMemory(hub[h]) /\ hub[h].st \in RunState
    BY HubTyped
  <1>2. hub[h].pc = "claim" /\ hub[h].out = <<>>
    BY DEF Claim, At
  <1> DEFINE st == hub[h].st
             n == hub[h].node
             back == [hub[h] EXCEPT !.pc = "dispatch", !.node = 0]
             st2 == Attempted(hub[h].st, n)
             tok == owner[n].token + 1
             r2 == [hub[h] EXCEPT !.pc = "submit", !.token = tok, !.st = st2]
  <1>3. Raise(h) \/ Goto(h, FailRun(back, "dispatch")) \/ Goto(h, r2)
    BY DEF Claim
  <1>4. /\ n \in Nodes /\ hub[h].todo \cap Running(st) = {} /\ n \notin hub[h].todo
        /\ st.running[n] = 0
    BY <1>1, <1>2 DEF Orderly, SoundMemory
  <1>5. CASE Goto(h, FailRun(back, "dispatch"))
    <2>1. back \in HubState /\ back.st = st /\ back.out = <<>>
      BY <1>1, <1>2 DEF HubState
    <2> HIDE DEF back
    <2>2. Writes(st, back)
      BY <2>1, SelfWrites
    <2> QED
      BY <1>2, <1>5, <2>1, <2>2, FailNarrates
  <1>6. CASE Goto(h, r2)
    <2>1. Like(st, st2) /\ st2.seq = st.seq
      <3>1. PICK more : more = [st.attempts EXCEPT ![n] = @ + 1]
        OBVIOUS
      <3>2. st2 = [st EXCEPT !.attempts = more]
        BY <3>1 DEF Attempted
      <3> HIDE DEF st2
      <3> QED
        BY <1>1, <3>2 DEF RunState, Like
    <2> HIDE DEF st2, tok
    <2>2. /\ r2.st = st2 /\ r2.pc = "submit" /\ r2.node = n /\ r2.out = <<>>
          /\ r2.todo = hub[h].todo
      BY <1>1, <1>2 DEF HubState
    <2> HIDE DEF r2
    <2>3. Writes(st, r2)
      BY <2>1, <2>2 DEF Writes
    <2>4. Orderly(r2)
      BY <1>4, <2>1, <2>2 DEF Orderly, Like, Running
    <2> QED
      BY <1>2, <1>6, <2>2, <2>3, <2>4, GotoNarrates
  <1> QED
    BY <1>3, <1>5, <1>6, RaiseNarrates

LEMMA RefuseNarrates ==
    ASSUME BaseInv, NEW h \in Hubs, Refuse(h)
    PROVE  Narrates(h)
  <1>1. hub[h] \in HubState
    BY HubTyped
  <1>2. hub[h].pc # "idle" /\ hub[h].out = <<>>
    BY DEF Refuse, At
  <1> DEFINE back == [hub[h] EXCEPT !.pc = "dispatch", !.node = 0]
  <1>3. Goto(h, FailRun(back, "dispatch"))
    BY DEF Refuse
  <1>4. back \in HubState /\ back.st = hub[h].st /\ back.out = <<>>
    BY <1>1, <1>2 DEF HubState
  <1> HIDE DEF back
  <1>5. Writes(hub[h].st, back)
    BY <1>4, SelfWrites
  <1> QED
    BY <1>2, <1>3, <1>4, <1>5, FailNarrates

LEMMA UnreconciledNarrates ==
    ASSUME BaseInv, NEW h \in Hubs, Unreconciled(h)
    PROVE  Narrates(h)
  BY RaiseNarrates DEF Unreconciled

LEMMA SubmitNarrates ==
    ASSUME BaseInv, NEW h \in Hubs, Orderly(hub[h]), Submit(h)
    PROVE  Narrates(h)
  <1>1. hub[h] \in HubState /\ SoundMemory(hub[h]) /\ hub[h].st \in RunState
    BY HubTyped
  <1>2. hub[h].pc = "submit" /\ hub[h].out = <<>>
    BY DEF Submit, At
  <1> DEFINE st == hub[h].st
             n == hub[h].node
             a == hub[h].token
             st2 == Delegated(hub[h].st, n, a)
             e == Event("delegated", n, a)
             r2 == [hub[h] EXCEPT !.pc = "dispatch", !.node = 0, !.token = 0, !.st = st2,
                                  !.out = <<e>>]
  <1>3. Goto(h, r2)
    BY DEF Submit
  <1>4. /\ n \in Nodes /\ hub[h].todo \cap Running(st) = {} /\ n \notin hub[h].todo
        /\ st.running[n] = 0 /\ a \in Attempts
    BY <1>1, <1>2 DEF Orderly, SoundMemory
  <1>a. a # 0
    BY <1>4, PlanAssumption DEF Attempts
  <1>5. PICK run2 : run2 = [st.running EXCEPT ![n] = a]
    OBVIOUS
  <1>6. \A m \in Nodes : run2[m] = IF m = n THEN a ELSE st.running[m]
    BY <1>1, <1>5 DEF RunState
  <1>7. /\ st2.running = run2 /\ st2.status = st.status /\ st2.completed = st.completed
        /\ st2.skipped = st.skipped /\ st2.approved = st.approved /\ st2.seq = st.seq
    <2>1. st2 = [st EXCEPT !.running = run2]
      BY <1>5 DEF Delegated
    <2> HIDE DEF st2
    <2> QED
      BY <1>1, <2>1 DEF RunState
  <1> HIDE DEF st2
  <1>8. e.what = "delegated" /\ e.node = n /\ e.tag = a
    BY DEF Event
  <1> HIDE DEF e
  <1>9. r2.st = st2 /\ r2.out = <<e>> /\ r2.pc = "dispatch" /\ r2.todo = hub[h].todo
    BY <1>1, <1>2 DEF HubState
  <1> HIDE DEF r2
  <1>10. Says(st, e, st2)
    <2>1. e.what \notin DOMAIN StatusEvents /\ e.what \notin Completing
            /\ e.what \notin Ends /\ e.what \notin Answers /\ e.what = "delegated"
            /\ e.what \notin {"granted"} /\ e.what \notin {"skipped"}
      BY <1>8, StatusFacts DEF Completing, Ends, Answers
    <2> QED
      BY <1>4, <1>a, <1>5, <1>7, <1>8, <2>1 DEF Says, Adds, RunningAfter, Fits
  <1>11. Writes(st, r2)
    BY <1>7, <1>9, <1>10, OneWrites
  <1>12. Orderly(r2)
    <2>1. r2.todo \cap Running(r2.st) = {}
      BY <1>4, <1>6, <1>7, <1>9 DEF Running
    <2> QED
      BY <1>9, <2>1 DEF Orderly
  <1> QED
    BY <1>2, <1>3, <1>9, <1>11, <1>12, GotoNarrates

LEMMA CancelNarrates ==
    ASSUME BaseInv, NEW h \in Hubs, CancelTask(h) \/ Fence(h)
    PROVE  Narrates(h)
  <1>1. hub[h] \in HubState
    BY HubTyped
  <1>2. hub[h].pc \in {"cancel", "fence"} /\ hub[h].out = <<>>
    BY DEF CancelTask, Fence, At
  <1>3. PICK r2 : /\ Goto(h, r2)
                  /\ \/ r2 = [hub[h] EXCEPT !.pc = "fence"]
                     \/ \E n : hub[h].pc = "fence" /\ r2 = [hub[h] EXCEPT !.fence = @ \ {n}]
    BY DEF CancelTask, Fence, At
  <1>4. r2.st = hub[h].st /\ r2.out = <<>> /\ r2.pc = "fence"
    BY <1>1, <1>2, <1>3 DEF HubState
  <1>5. Writes(hub[h].st, r2) /\ Orderly(r2)
    BY <1>4, SelfWrites DEF Orderly
  <1> QED
    BY <1>2, <1>3, <1>4, <1>5, GotoNarrates

LEMMA EndRunNarrates ==
    ASSUME BaseInv, NEW h \in Hubs, EndRun(h)
    PROVE  Narrates(h)
  <1>1. hub[h] \in HubState /\ hub[h].st \in RunState
    BY HubTyped
  <1>2. hub[h].pc = "fence" /\ hub[h].out = <<>>
    BY DEF EndRun, At
  <1> DEFINE st == hub[h].st
             status == IF hub[h].why = "run_failed" THEN "failed" ELSE "cancelled"
             none == [n \in Nodes |-> 0]
             st2 == Stops(hub[h].st, status)
             tag == IF hub[h].why = "run_failed" THEN hub[h].st.seq + 1 ELSE hub[h].cmd
             e == Event(hub[h].why, 0, tag)
             r2 == [hub[h] EXCEPT !.pc = hub[h].then, !.st = st2, !.out = <<e>>]
  <1>3. Goto(h, r2)
    BY DEF EndRun
  <1>4. hub[h].why \in {"run_failed", "run_cancelled"} /\ hub[h].then \in {"save", "dispatch"}
    BY <1>1 DEF HubState
  <1>5. status = StatusEvents[hub[h].why]
    BY <1>4, StatusFacts
  <1>6. e.what = hub[h].why
    BY DEF Event
  <1>7. \A n \in Nodes : none[n] = 0
    OBVIOUS
  <1> HIDE DEF status, tag
  <1>8. /\ st2.running = none /\ st2.status = status /\ st2.completed = st.completed
        /\ st2.skipped = st.skipped /\ st2.approved = st.approved /\ st2.seq = st.seq
    <2>1. st2 = [st EXCEPT !.running = none, !.status = status]
      BY DEF Stops
    <2> HIDE DEF st2, none
    <2> QED
      BY <1>1, <2>1 DEF RunState
  <1> HIDE DEF e, st2
  <1>9. r2.st = st2 /\ r2.out = <<e>> /\ r2.pc = hub[h].then
    BY <1>1 DEF HubState
  <1> HIDE DEF r2
  <1>10. Says(st, e, st2)
    <2>1. e.what \in DOMAIN StatusEvents /\ e.what \notin Completing
            /\ e.what \in Ends /\ e.what \notin Answers /\ e.what # "delegated"
            /\ e.what \notin {"granted"} /\ e.what \notin {"skipped"}
      BY <1>4, <1>6, StatusFacts DEF Completing, Ends, Answers
    <2> QED
      BY <1>5, <1>6, <1>8, <2>1 DEF Says, Adds, RunningAfter, Fits
  <1>11. Writes(st, r2)
    BY <1>8, <1>9, <1>10, OneWrites
  <1>12. Orderly(r2)
    <2>1. Running(r2.st) = {}
      BY <1>7, <1>8, <1>9 DEF Running
    <2> QED
      BY <1>4, <1>9, <2>1 DEF Orderly
  <1>13. r2.pc # "store"
    BY <1>4, <1>9
  <1> QED
    BY <1>2, <1>3, <1>11, <1>12, <1>13, GotoNarrates

LEMMA FinishNarrates ==
    ASSUME BaseInv, NEW h \in Hubs, Finish(h)
    PROVE  Narrates(h)
  <1>1. hub[h] \in HubState /\ hub[h].st \in RunState
    BY HubTyped
  <1>2. hub[h].pc = "dispatch" /\ hub[h].out = <<>>
    BY DEF Finish, At
  <1> DEFINE st == hub[h].st
             r1 == [hub[h] EXCEPT !.pc = "save"]
             st2 == [hub[h].st EXCEPT !.status = "completed"]
             e == Event("run_completed", 0, 0)
             r2 == [hub[h] EXCEPT !.pc = "save", !.st = [@ EXCEPT !.status = "completed"],
                                  !.out = <<e>>]
  <1>3. Goto(h, r1) \/ Goto(h, FailRun(hub[h], "save")) \/ Goto(h, r2)
    BY DEF Finish
  <1>4. CASE Goto(h, r1)
    <2>1. r1.st = st /\ r1.pc = "save" /\ r1.out = <<>>
      BY <1>1, <1>2 DEF HubState
    <2> HIDE DEF r1
    <2>2. Writes(st, r1) /\ Orderly(r1)
      BY <2>1, SelfWrites DEF Orderly
    <2> QED
      BY <1>2, <1>4, <2>1, <2>2, GotoNarrates
  <1>5. CASE Goto(h, FailRun(hub[h], "save"))
    <2>1. Writes(st, hub[h])
      BY <1>2, SelfWrites
    <2> QED
      BY <1>1, <1>2, <1>5, <2>1, FailNarrates
  <1>6. CASE Goto(h, r2)
    <2>1. /\ st2.status = "completed" /\ st2.running = st.running /\ st2.completed = st.completed
          /\ st2.skipped = st.skipped /\ st2.approved = st.approved /\ st2.seq = st.seq
      BY <1>1 DEF RunState
    <2>2. e.what = "run_completed"
      BY DEF Event
    <2>3. r2 = [hub[h] EXCEPT !.pc = "save", !.st = st2, !.out = <<e>>]
      OBVIOUS
    <2> HIDE DEF e, st2, r2
    <2>4. r2.st = st2 /\ r2.pc = "save" /\ r2.out = <<e>>
      BY <1>1, <2>3 DEF HubState
    <2>5. Says(st, e, st2)
      <3>1. st2.status = StatusEvents[e.what]
        BY <2>1, <2>2, StatusFacts
      <3> HIDE DEF st
      <3> QED
        BY <2>1, <2>2, <3>1, StatusSays
    <2>6. Writes(st, r2) /\ Orderly(r2)
      BY <2>1, <2>4, <2>5, OneWrites DEF Orderly
    <2> QED
      BY <1>2, <1>6, <2>4, <2>6, GotoNarrates
  <1> QED
    BY <1>3, <1>4, <1>5, <1>6

\* Thread h starts the run, or loads the latest revision and applies a command.
Opening(h) ==
    /\ \A g \in Hubs \ {h} : hub'[g] = hub[g]
    /\ \/ /\ hub'[h].out = <<Event("started", 0, 0)>> /\ hub'[h].st = NewRun
          /\ hub'[h].pc = "poll"
       \/ /\ Revision > 0
          /\ Writes(Latest, hub'[h])
          /\ hub'[h].pc \in {"poll", "save", "cancel"}

LEMMA StartOpens ==
    ASSUME BaseInv, NEW h \in Hubs, Start(h)
    PROVE  Opening(h)
  <1>1. PICK r2 : Goto(h, r2) /\ r2 = [Idle EXCEPT !.pc = "poll", !.out = <<Event("started", 0, 0)>>]
    BY DEF Start
  <1>2. r2.pc = "poll" /\ r2.st = NewRun /\ r2.out = <<Event("started", 0, 0)>>
    BY <1>1, IdleOK DEF HubState
  <1> QED
    BY <1>1, <1>2, GoesTo DEF Opening

LEMMA AdvanceOpens ==
    ASSUME BaseInv, NEW h \in Hubs, Advance(h)
    PROVE  Opening(h)
  <1>1. PICK r2 : /\ Goto(h, r2)
                  /\ r2 = [Idle EXCEPT !.pc = "poll", !.st = Latest, !.base = Revision]
    BY DEF Advance
  <1>2. Revision > 0
    BY BoundAssumption DEF Advance
  <1>3. r2.pc = "poll" /\ r2.st = Latest /\ r2.out = <<>>
    BY <1>1, IdleOK DEF HubState
  <1>4. Writes(Latest, r2)
    BY <1>3, SelfWrites
  <1> QED
    BY <1>1, <1>2, <1>3, <1>4, GoesTo DEF Opening

\* The events of a command say what it makes of the run.
AppliedWrites(st, x) ==
    \/ x.out = <<>> /\ Like(st, x.st)
    \/ \E e : x.out = <<e>> /\ Says(st, e, x.st)
    \/ \E e, f : \E mid \in RunState :
          x.out = <<e, f>> /\ Says(st, e, mid) /\ Says(mid, f, x.st)

LEMMA AppliedSays ==
    ASSUME NEW st \in RunState, NEW c, NEW x \in Applied(st, c)
    PROVE  AppliedWrites(st, x)
  <1> DEFINE n == commands[c].step
             Then(t) == IF t.status = "running" THEN "poll" ELSE "save"
             s1 == [st EXCEPT !.status = "running"]
             s2 == [st EXCEPT !.open = @ \ {n}, !.failed = @ \cup {n}]
             s3 == [st EXCEPT !.approved = @ \cup {n}, !.open = @ \ {n}, !.status = "running"]
             s4 == [st EXCEPT !.status = "paused"]
             s5 == [st EXCEPT !.failed = IF n = 0 THEN {} ELSE @ \ {n}, !.status = "running"]
  <1>1. \/ x = [st |-> s1, out |-> <<Event("resumed", n, c)>>, pc |-> Then(s1)]
        \/ x = [st |-> s2, out |-> <<Event("rejected", n, c)>>, pc |-> "cancel"]
        \/ n \in st.open /\ x = [st |-> s3, out |-> <<Event("granted", n, c)>>, pc |-> Then(s3)]
        \/ /\ n \in st.open
           /\ x = [st |-> s3, out |-> <<Event("granted", n, c), Event("resumed", n, c)>>,
                   pc |-> Then(s3)]
        \/ x = [st |-> s4, out |-> <<Event("paused", n, c)>>, pc |-> Then(s4)]
        \/ x = [st |-> st, out |-> <<>>, pc |-> "cancel"]
        \/ x = [st |-> s5, out |-> <<Event("retried", n, c)>>, pc |-> Then(s5)]
    BY DEF Applied
  <1> HIDE DEF n
  <1>2. PICK e1, e2, e3, e4, e5 :
            /\ e1 = Event("resumed", n, c) /\ e2 = Event("rejected", n, c)
            /\ e3 = Event("granted", n, c) /\ e4 = Event("paused", n, c)
            /\ e5 = Event("retried", n, c)
    OBVIOUS
  <1>3. /\ e1.what = "resumed" /\ e2.what = "rejected" /\ e3.what = "granted" /\ e3.node = n
        /\ e4.what = "paused" /\ e5.what = "retried"
    BY <1>2 DEF Event
  <1>4. /\ s1.status = "running" /\ s1.running = st.running /\ s1.completed = st.completed
        /\ s1.skipped = st.skipped /\ s1.approved = st.approved
    BY DEF RunState
  <1>5. Like(st, s2)
    BY DEF RunState, Like
  <1>6. /\ s3.status = "running" /\ s3.running = st.running /\ s3.completed = st.completed
        /\ s3.skipped = st.skipped /\ s3.approved = st.approved \cup {n}
        /\ n \in st.open => s3 \in RunState
    BY DEF RunState
  <1>7. /\ s4.status = "paused" /\ s4.running = st.running /\ s4.completed = st.completed
        /\ s4.skipped = st.skipped /\ s4.approved = st.approved
    BY DEF RunState
  <1>8. /\ s5.status = "running" /\ s5.running = st.running /\ s5.completed = st.completed
        /\ s5.skipped = st.skipped /\ s5.approved = st.approved
    <2>1. PICK f : f = IF n = 0 THEN {} ELSE st.failed \ {n}
      OBVIOUS
    <2>2. s5 = [st EXCEPT !.failed = f, !.status = "running"]
      BY <2>1
    <2> HIDE DEF s5
    <2> QED
      BY <2>2 DEF RunState
  <1> HIDE DEF s1, s2, s3, s4, s5, Then
  <1>9. /\ StatusEvents[e1.what] = "running" /\ StatusEvents[e3.what] = "running"
        /\ StatusEvents[e4.what] = "paused" /\ StatusEvents[e5.what] = "running"
    BY <1>3, StatusFacts
  <1>10. Says(st, e1, s1)
    BY <1>3, <1>4, <1>9, StatusSays
  <1>11. Says(st, e2, s2)
    BY <1>3, <1>5, AsideSays
  <1>12. Says(st, e3, s3)
    <2>1. e3.what \in DOMAIN StatusEvents /\ e3.what \notin Completing
            /\ e3.what \notin Ends /\ e3.what \notin Answers /\ e3.what # "delegated"
            /\ e3.what \in {"granted"} /\ e3.what \notin {"skipped"}
      BY <1>3, StatusFacts DEF Completing, Ends, Answers
    <2> QED
      BY <1>3, <1>6, <1>9, <2>1 DEF Says, Adds, RunningAfter, Fits
  <1>13. Says(s3, e1, s3)
    BY <1>3, <1>6, <1>9, StatusSays
  <1>14. Says(st, e4, s4)
    BY <1>3, <1>7, <1>9, StatusSays
  <1>15. Says(st, e5, s5)
    BY <1>3, <1>8, <1>9, StatusSays
  <1>16. \/ x.st = s1 /\ x.out = <<e1>>
         \/ x.st = s2 /\ x.out = <<e2>>
         \/ x.st = s3 /\ x.out = <<e3>>
         \/ x.st = s3 /\ x.out = <<e3, e1>> /\ n \in st.open
         \/ x.st = s4 /\ x.out = <<e4>>
         \/ x.st = st /\ x.out = <<>>
         \/ x.st = s5 /\ x.out = <<e5>>
    BY <1>1, <1>2
  <1>17. CASE x.st = s3 /\ x.out = <<e3, e1>> /\ n \in st.open
    <2>1. \E e, f : \E mid \in RunState :
             x.out = <<e, f>> /\ Says(st, e, mid) /\ Says(mid, f, x.st)
      BY <1>6, <1>12, <1>13, <1>17, Zenon
    <2> QED
      BY <2>1 DEF AppliedWrites
  <1>18. CASE x.st = st /\ x.out = <<>>
    BY <1>18 DEF AppliedWrites, Like
  <1>19. CASE \E e : x.out = <<e>> /\ Says(st, e, x.st)
    BY <1>19 DEF AppliedWrites
  <1> QED
    BY <1>10, <1>11, <1>12, <1>14, <1>15, <1>16, <1>17, <1>18, <1>19, Zenon

LEMMA ResumeOpens ==
    ASSUME BaseInv, NEW h \in Hubs, NEW c \in DOMAIN commands, Resume(h, c)
    PROVE  Opening(h)
  <1>1. Revision > 0 /\ Revision \in Nat
    BY DEF Resume, BaseInv, TypeOK, Revision
  <1>2. Latest \in RunState /\ SoundState(Latest)
    BY <1>1, LatestTyped
  <1>3. c \in Nat /\ commands[c] \in CommandRow
    <2>1. commands \in Seq(CommandRow)
      BY DEF BaseInv, TypeOK
    <2> QED
      BY <2>1
  <1>4. PICK x \in Applied(Latest, c) : \E b, f, w :
          Goto(h, [Idle EXCEPT !.pc = x.pc, !.st = x.st, !.out = x.out, !.base = b,
                               !.cmd = c, !.fence = f, !.why = w])
    BY DEF Resume
  <1>5. PICK b, f, w :
          Goto(h, [Idle EXCEPT !.pc = x.pc, !.st = x.st, !.out = x.out, !.base = b,
                               !.cmd = c, !.fence = f, !.why = w])
    BY <1>4
  <1> DEFINE r2 == [Idle EXCEPT !.pc = x.pc, !.st = x.st, !.out = x.out, !.base = b,
                               !.cmd = c, !.fence = f, !.why = w]
  <1>6. r2.st = x.st /\ r2.pc = x.pc /\ r2.out = x.out
    BY IdleOK DEF HubState
  <1>7. Goto(h, r2)
    BY <1>5
  <1> HIDE DEF r2
  <1>8. x.st.seq = Latest.seq /\ x.pc \in {"poll", "save", "cancel"}
    BY <1>2, <1>3, AppliedOK
  <1>9. AppliedWrites(Latest, x)
    BY <1>2, AppliedSays
  <1>10. Writes(Latest, r2)
    BY <1>6, <1>8, <1>9 DEF Writes, AppliedWrites
  <1> QED
    BY <1>1, <1>6, <1>7, <1>8, <1>10, GoesTo DEF Opening

\* Thread h announces its checkpoint.
Announces(h) ==
    /\ \A g \in Hubs \ {h} : hub'[g] = hub[g]
    /\ hub[h].pc = "save" /\ hub[h].out = <<>>
    /\ hub'[h].pc = "store" /\ hub'[h].out = <<Event("checkpoint", 0, hub'[h].token)>>
    /\ Writes(hub[h].st, hub'[h])

LEMMA SaveAnnounces ==
    ASSUME BaseInv, NEW h \in Hubs, Save(h)
    PROVE  Announces(h)
  <1>1. hub[h] \in HubState /\ hub[h].st \in RunState
    BY HubTyped
  <1>2. hub[h].pc = "save" /\ hub[h].out = <<>>
    BY DEF Save, At
  <1>3. PICK k, l : Goto(h, [hub[h] EXCEPT !.pc = "store", !.token = k,
                         !.st = [@ EXCEPT !.last = l], !.out = <<Event("checkpoint", 0, k)>>])
    BY DEF Save
  <1>4. PICK e : e = Event("checkpoint", 0, k)
    OBVIOUS
  <1>5. PICK st2 : st2 = [hub[h].st EXCEPT !.last = l]
    OBVIOUS
  <1>6. Like(hub[h].st, st2) /\ st2.seq = hub[h].st.seq
    BY <1>1, <1>5 DEF RunState, Like
  <1>7. PICK r2 : r2 = [hub[h] EXCEPT !.pc = "store", !.token = k, !.st = st2, !.out = <<e>>]
    OBVIOUS
  <1>8. Goto(h, r2)
    BY <1>3, <1>4, <1>5, <1>7
  <1>9. r2.pc = "store" /\ r2.token = k /\ r2.st = st2 /\ r2.out = <<e>>
    BY <1>1, <1>7 DEF HubState
  <1>10. e.what = "checkpoint"
    BY <1>4 DEF Event
  <1>11. Says(hub[h].st, e, st2)
    BY <1>6, <1>10, AsideSays
  <1>12. Writes(hub[h].st, r2)
    BY <1>6, <1>9, <1>11, OneWrites
  <1> QED
    BY <1>2, <1>4, <1>8, <1>9, <1>12, GoesTo DEF Announces

\* The log grows: what was told stays told.
LEMMA StoryKept ==
    ASSUME NEW L, NEW L2, NEW r \in HubState, \A j \in 1 .. r.st.seq : L2[j] = L[j],
           ThreadTold(L, r), r.pc = "store" /\ r.out = <<>> => r.st.seq > 0
    PROVE  ThreadTold(L2, r)
  <1>1. PICK m \in Nat : m = r.st.seq
    BY DEF HubState, RunState
  <1>2. PICK k \in Nat : k = r.st.seq + Len(r.out)
    BY <1>1 DEF HubState
  <1>3. \A j \in 1 .. k : Story(L2, r)[j] = Story(L, r)[j]
    BY <1>1 DEF Story
  <1>4. ASSUME StoryTold(L, r) PROVE StoryTold(L2, r)
    BY <1>2, <1>3, <1>4, ToldSame DEF StoryTold
  <1>5. Announced(L, r) => Announced(L2, r)
    <2>1. m > 0 => L2[m] = L[m]
      BY <1>1
    <2> QED
      BY <1>1, <2>1 DEF Announced
  <1> QED
    BY <1>4, <1>5 DEF ThreadTold

LEMMA TaleThreads ==
    ASSUME BaseInv, ChainInv, TaleInv, NEW h \in Hubs, NEW L2,
           \A j \in 1 .. Len(log) : L2[j] = log[j]
    PROVE  ThreadTold(L2, hub[h])
  <1>1. hub[h] \in HubState
    BY HubTyped
  <1>2. hub[h].st.seq \in Nat /\ hub[h].st.seq <= Len(log) /\ Len(log) \in Nat
    BY Numbers, ChainFacts DEF CopyBehind
  <1>3. \A j \in 1 .. hub[h].st.seq : L2[j] = log[j]
    BY <1>2
  <1>4. hub[h].pc = "store" /\ hub[h].out = <<>> => hub[h].st.seq > 0
    <2>1. hub[h].base \in 0 .. Revision
      BY Numbers, ChainFacts DEF CopyBehind
    <2>2. Storing(h) => SeqAt(hub[h].base) < hub[h].st.seq
      BY ChainFacts DEF StoresNext
    <2>3. SeqAt(hub[h].base) \in Nat
      BY <2>1, ChainFacts
    <2> QED
      BY <1>2, <2>2, <2>3 DEF Storing
  <1>5. ThreadTold(log, hub[h])
    BY DEF TaleInv
  <1> QED
    BY <1>1, <1>3, <1>4, <1>5, StoryKept

LEMMA TaleSaved ==
    ASSUME BaseInv, ChainInv, TaleInv, NEW i \in DOMAIN checkpoints, NEW L2,
           \A j \in 1 .. Len(log) : L2[j] = log[j]
    PROVE  SavedTold(L2, checkpoints[i].state, i)
  <1>1. i \in 1 .. Revision
    BY Numbers
  <1>2. PICK st : st = checkpoints[i].state
    OBVIOUS
  <1>3. st.seq \in Nat /\ st.seq > 0 /\ st.seq <= Len(log) /\ Len(log) \in Nat
    BY <1>1, <1>2, Numbers, ChainFacts
  <1>4. SavedTold(log, st, i)
    BY <1>2 DEF TaleInv
  <1>5. L2[st.seq] = log[st.seq] /\ \A j \in 1 .. st.seq : L2[j] = log[j]
    BY <1>3
  <1>6. Told(st, L2, st.seq)
    BY <1>3, <1>4, <1>5, ToldSame DEF SavedTold
  <1> QED
    BY <1>2, <1>4, <1>5, <1>6 DEF SavedTold

\* Nobody but thread h moves, and nothing is saved.
LEMMA TaleFrame ==
    ASSUME BaseInv, ChainInv, TaleInv, BaseInv', NEW h \in Hubs,
           \A g \in Hubs \ {h} : hub'[g] = hub[g], checkpoints' = checkpoints,
           \A j \in 1 .. Len(log) : log'[j] = log[j],
           ThreadTold(log', hub'[h])
    PROVE  TaleInv'
  <1>1. \A g \in Hubs : ThreadTold(log', hub'[g])
    <2> SUFFICES ASSUME NEW g \in Hubs \ {h} PROVE ThreadTold(log', hub'[g])
      OBVIOUS
    <2>1. ThreadTold(log', hub[g])
      BY TaleThreads
    <2> QED
      BY <2>1
  <1>2. \A i \in DOMAIN checkpoints : SavedTold(log', checkpoints[i].state, i)
    BY TaleSaved
  <1> QED
    BY <1>1, <1>2 DEF TaleInv

LEMMA TaleNarrates ==
    ASSUME BaseInv, ChainInv, TaleInv, BaseInv', NEW h \in Hubs, Narrates(h),
           UNCHANGED <<log, checkpoints>>
    PROVE  TaleInv'
  <1>1. ThreadTold(log', hub'[h])
    <2>1. CASE hub'[h].pc = "idle"
      BY <2>1 DEF ThreadTold
    <2>2. CASE hub'[h].pc # "idle"
      <3>1. /\ hub[h].pc # "idle" /\ hub[h].out = <<>> /\ Writes(hub[h].st, hub'[h])
            /\ Orderly(hub'[h]) /\ hub'[h].pc # "store"
        BY <2>2 DEF Narrates
      <3>2. StoryTold(log, hub[h])
        BY <3>1 DEF TaleInv, ThreadTold
      <3>3. hub[h] \in HubState /\ hub[h].st \in RunState /\ hub'[h] \in HubState
        BY HubTyped DEF BaseInv, TypeOK
      <3>4. Told(hub[h].st, log, hub[h].st.seq)
        BY <3>1, <3>2, <3>3, StoryQuiet
      <3>5. StoryTold(log, hub'[h])
        BY <3>1, <3>3, <3>4, WritesTold
      <3> QED
        BY <3>1, <3>5 DEF ThreadTold, Announced
    <2> QED
      BY <2>1, <2>2
  <1> QED
    BY <1>1, TaleFrame DEF Narrates

LEMMA TaleOpening ==
    ASSUME BaseInv, ChainInv, TaleInv, BaseInv', NEW h \in Hubs, Opening(h),
           UNCHANGED <<log, checkpoints>>
    PROVE  TaleInv'
  <1>1. hub'[h] \in HubState
    BY DEF BaseInv, TypeOK
  <1>2. StoryTold(log, hub'[h])
    <2>1. CASE Revision > 0 /\ Writes(Latest, hub'[h])
      <3>1. Revision \in DOMAIN checkpoints /\ Latest \in RunState
        BY <2>1, LatestTyped
      <3>2. Told(Latest, log, Latest.seq)
        BY <3>1 DEF TaleInv, SavedTold, Latest
      <3> QED
        BY <1>1, <2>1, <3>1, <3>2, WritesTold
    <2>2. CASE hub'[h].out = <<Event("started", 0, 0)>> /\ hub'[h].st = NewRun
      <3>1. PICK r : r = hub'[h]
        OBVIOUS
      <3>2. PICK e : e = Event("started", 0, 0)
        OBVIOUS
      <3>3. e.what = "started"
        BY <3>2 DEF Event
      <3>4. r.st.seq = 0 /\ r.st.seq + Len(r.out) = 1 /\ r.st = NewRun /\ r.out = <<e>>
        <4>1. r.st = NewRun /\ r.out = <<e>>
          BY <2>2, <3>1, <3>2
        <4>2. NewRun.seq = 0
          BY DEF NewRun
        <4>3. Len(<<e>>) = 1
          OBVIOUS
        <4> QED
          BY <4>1, <4>2, <4>3
      <3>5. PICK S : S = Story(log, r)
        OBVIOUS
      <3>6. S[1] = e
        BY <3>4, <3>5 DEF Story
      <3>7. \A j \in 1 .. 1 : j = 1
        OBVIOUS
      <3>8. TellsStatus(r.st.status, S, 1)
        <4>1. r.st.status = "running" /\ e.what \in DOMAIN StatusEvents
                /\ StatusEvents[e.what] = "running"
          BY <3>3, <3>4, StatusFacts DEF NewRun
        <4>2. \A k \in 1 + 1 .. 1 : FALSE
          OBVIOUS
        <4> QED
          BY <3>6, <4>1, <4>2 DEF TellsStatus
      <3>9. Named(S, 1, Completing) = {} /\ Named(S, 1, {"skipped"}) = {}
              /\ Named(S, 1, {"granted"}) = {}
        BY <3>3, <3>6, <3>7 DEF Named, Completing
      <3>10. TellsRunning(r.st.running, S, 1)
        <4>1. \A n \in Nodes : r.st.running[n] = 0
          BY <3>4 DEF NewRun
        <4>2. \A n \in Nodes : \A j \in 1 .. 1 : ~ OpenAt(S, 1, n, j)
          BY <3>3, <3>6, <3>7 DEF OpenAt
        <4> QED
          BY <4>1, <4>2 DEF TellsRunning
      <3>11. r.st.completed = {} /\ r.st.skipped = {} /\ r.st.approved = {}
        BY <3>4 DEF NewRun
      <3>12. Told(r.st, S, 1)
        BY <3>8, <3>9, <3>10, <3>11 DEF Told
      <3> QED
        BY <3>1, <3>4, <3>5, <3>12 DEF StoryTold
    <2> QED
      BY <2>1, <2>2 DEF Opening
  <1>3. hub'[h].pc \in {"poll", "save", "cancel"}
    BY DEF Opening
  <1>4. ThreadTold(log', hub'[h])
    BY <1>2, <1>3 DEF ThreadTold, Orderly, Announced
  <1> QED
    BY <1>4, TaleFrame DEF Opening

LEMMA TaleAnnounces ==
    ASSUME BaseInv, ChainInv, TaleInv, BaseInv', NEW h \in Hubs, Announces(h),
           UNCHANGED <<log, checkpoints>>
    PROVE  TaleInv'
  <1>1. hub[h] \in HubState /\ hub[h].st \in RunState /\ hub'[h] \in HubState
    BY HubTyped DEF BaseInv, TypeOK
  <1>2. Told(hub[h].st, log, hub[h].st.seq)
    BY <1>1, StoryQuiet DEF TaleInv, ThreadTold, Announces
  <1>3. StoryTold(log, hub'[h])
    BY <1>1, <1>2, WritesTold DEF Announces
  <1>4. ThreadTold(log', hub'[h])
    BY <1>3 DEF ThreadTold, Orderly, Announced, Announces
  <1> QED
    BY <1>4, TaleFrame DEF Announces

\* An event moves from the thread to the log: the story is the same.
LEMMA TaleEmits ==
    ASSUME BaseInv, ChainInv, TaleInv, BaseInv', NEW h \in Hubs, Emit(h)
    PROVE  TaleInv'
  <1>1. hub[h] \in HubState /\ hub[h].st \in RunState /\ hub'[h] \in HubState
    BY HubTyped DEF BaseInv, TypeOK
  <1>2. checkpoints' = checkpoints /\ log \in Seq(EventRow) /\ hub[h].out \in Seq(EventRow)
          /\ hub[h].out # <<>>
    BY <1>1 DEF Emit, BaseInv, TypeOK, HubState
  <1>3. CASE Raise(h) /\ log' = log
    BY <1>2, <1>3, RaiseNarrates, TaleNarrates
  <1>4. CASE /\ hub[h].st.seq = Len(log) /\ log' = Append(log, Head(hub[h].out))
             /\ Goto(h, [hub[h] EXCEPT !.out = Tail(@), !.st = [@ EXCEPT !.seq = Len(log) + 1]])
    <2>1. PICK k \in Nat : k = Len(log) + 1
      BY <1>2
    <2>2. PICK st2 : st2 = [hub[h].st EXCEPT !.seq = k]
      OBVIOUS
    <2>3. Like(hub[h].st, st2) /\ st2.seq = k
      BY <1>1, <2>2 DEF RunState, Like
    <2>4. PICK more : more = Tail(hub[h].out)
      OBVIOUS
    <2>5. PICK r2 : r2 = [hub[h] EXCEPT !.out = more, !.st = st2]
      OBVIOUS
    <2>6. Goto(h, r2)
      BY <1>4, <2>1, <2>2, <2>4, <2>5
    <2>7. /\ r2.st = st2 /\ r2.out = more /\ r2.pc = hub[h].pc /\ r2.todo = hub[h].todo
          /\ r2.node = hub[h].node /\ r2.token = hub[h].token
      BY <1>1, <2>5 DEF HubState
    <2>8. hub'[h] = r2 /\ \A g \in Hubs \ {h} : hub'[g] = hub[g]
      BY <2>6, GoesTo
    <2>9. /\ \A j \in 1 .. Len(log) : log'[j] = log[j]
          /\ log'[k] = hub[h].out[1]
          /\ Len(more) = Len(hub[h].out) - 1 /\ Len(hub[h].out) \in Nat /\ Len(more) \in Nat
          /\ \A j \in 1 .. Len(more) : more[j] = hub[h].out[j + 1]
      BY <1>2, <1>4, <2>1, <2>4
    <2>10. PICK m \in Nat : m = hub[h].st.seq + Len(hub[h].out)
      BY <1>4, <1>2, <2>9
    <2>11. r2.st.seq + Len(r2.out) = m
      <3>1. Len(log) \in Nat /\ hub[h].st.seq = Len(log) /\ r2.st.seq = k /\ Len(r2.out) = Len(more)
        BY <1>2, <1>4, <2>3, <2>7
      <3>2. k + Len(more) = Len(log) + Len(hub[h].out)
        <4>1. PICK x \in Nat, y \in Nat, z \in Nat :
                 x = Len(hub[h].out) /\ y = Len(more) /\ z = Len(log)
          BY <2>9, <3>1
        <4>2. y = x - 1 /\ k = z + 1
          BY <2>1, <2>9, <4>1
        <4>3. k + y = z + x
          BY <4>2
        <4> QED
          BY <4>1, <4>3
      <3> QED
        BY <2>10, <3>1, <3>2
    <2>12. \A j \in 1 .. m : Story(log', r2)[j] = Story(log, hub[h])[j]
      <3> SUFFICES ASSUME NEW j \in 1 .. m
                   PROVE  Story(log', r2)[j] = Story(log, hub[h])[j]
        OBVIOUS
      <3>1. Len(log) \in Nat /\ k = Len(log) + 1 /\ hub[h].st.seq = Len(log) /\ r2.st.seq = k
        BY <1>2, <1>4, <2>1, <2>3, <2>7
      <3>2. CASE j <= Len(log)
        BY <2>9, <3>1, <3>2 DEF Story
      <3>3. CASE j = k
        BY <2>9, <3>1, <3>3 DEF Story
      <3>4. CASE j > k
        <4>1. Story(log', r2)[j] = more[j - k]
          BY <2>7, <3>1, <3>4 DEF Story
        <4>2. Story(log, hub[h])[j] = hub[h].out[j - Len(log)]
          BY <3>1, <3>4 DEF Story
        <4>3. j - k \in 1 .. Len(more) /\ j - k + 1 = j - Len(log)
          BY <2>9, <2>10, <3>1, <3>4
        <4> QED
          BY <2>9, <4>1, <4>2, <4>3
      <3> QED
        BY <3>1, <3>2, <3>3, <3>4
    <2>13. ThreadTold(log, hub[h])
      BY DEF TaleInv
    <2>14. ThreadTold(log', r2)
      <3> SUFFICES ASSUME r2.pc # "idle"
                   PROVE  StoryTold(log', r2) /\ Orderly(r2) /\ Announced(log', r2)
        BY DEF ThreadTold
      <3>1. StoryTold(log, hub[h]) /\ Orderly(hub[h]) /\ Announced(log, hub[h])
        BY <2>7, <2>13 DEF ThreadTold
      <3>2. StoryTold(log', r2)
        <4>1. Told(hub[h].st, Story(log, hub[h]), m)
          BY <2>10, <3>1 DEF StoryTold
        <4>2. Told(st2, Story(log', r2), m)
          BY <2>3, <2>12, <4>1, ToldSame DEF Like
        <4> QED
          BY <2>7, <2>11, <4>2 DEF StoryTold
      <3>3. Orderly(r2)
        BY <2>3, <2>7, <3>1 DEF Orderly, Like, Running
      <3>4. Announced(log', r2)
        <4> SUFFICES ASSUME r2.pc = "store"
                     PROVE  r2.out = <<>> /\ log'[r2.st.seq] = Event("checkpoint", 0, r2.token)
          BY DEF Announced
        <4>1. hub[h].out = <<Event("checkpoint", 0, hub[h].token)>>
          BY <1>2, <2>7, <3>1 DEF Announced
        <4>2. more = <<>> /\ hub[h].out[1] = Event("checkpoint", 0, hub[h].token)
          BY <2>4, <4>1
        <4> QED
          BY <2>3, <2>7, <2>9, <4>2
      <3> QED
        BY <3>2, <3>3, <3>4
    <2> QED
      BY <1>2, <2>8, <2>9, <2>14, TaleFrame
  <1> QED
    BY <1>3, <1>4 DEF Emit

LEMMA TaleStores ==
    ASSUME BaseInv, ChainInv, TaleInv, BaseInv', NEW h \in Hubs, Store(h)
    PROVE  TaleInv'
  <1>1. Storing(h) /\ Moves(h, Idle) /\ log' = log
    BY StoreView DEF Store
  <1>2. Goto(h, Idle)
    BY <1>1 DEF Moves, Goto
  <1>3. hub'[h] = Idle /\ \A g \in Hubs \ {h} : hub'[g] = hub[g]
    BY <1>2, GoesTo
  <1>4. \A g \in Hubs : ThreadTold(log', hub'[g])
    BY <1>1, <1>3, IdleOK DEF TaleInv, ThreadTold
  <1>5. \A i \in DOMAIN checkpoints' : SavedTold(log', checkpoints'[i].state, i)
    <2>1. CASE checkpoints' = checkpoints
      BY <1>1, <2>1 DEF TaleInv
    <2>2. CASE /\ hub[h].token = Revision + 1
               /\ \E c \in CheckpointRow :
                     c.state = hub[h].st /\ checkpoints' = Append(checkpoints, c)
      <3>1. PICK c \in CheckpointRow : c.state = hub[h].st /\ checkpoints' = Append(checkpoints, c)
        BY <2>2
      <3>2. hub[h] \in HubState /\ hub[h].pc = "store" /\ hub[h].out = <<>>
        BY <1>1, HubTyped DEF Storing
      <3>3. StoryTold(log, hub[h]) /\ Announced(log, hub[h])
        BY <3>2 DEF TaleInv, ThreadTold
      <3>4. Told(c.state, log, c.state.seq)
        BY <3>1, <3>2, <3>3, StoryQuiet
      <3>5. log[c.state.seq] = Event("checkpoint", 0, Revision + 1)
        <4>1. hub[h].out # <<Event("checkpoint", 0, hub[h].token)>>
          BY <3>2
        <4> QED
          BY <2>2, <3>1, <3>2, <3>3, <4>1 DEF Announced
      <3>6. \A i \in DOMAIN checkpoints' :
               \/ i \in DOMAIN checkpoints /\ checkpoints'[i] = checkpoints[i]
               \/ i = Revision + 1 /\ checkpoints'[i] = c
        BY <3>1, BaseTyped DEF Revision
      <3> QED
        BY <1>1, <3>4, <3>5, <3>6 DEF TaleInv, SavedTold
    <2> QED
      BY <2>1, <2>2, StoreView
  <1> QED
    BY <1>4, <1>5 DEF TaleInv

LEMMA TaleInit == Init => TaleInv
  BY IdleOK DEF Init, TaleInv, ThreadTold

LEMMA TaleStep ==
    ASSUME BaseInv, ChainInv, TaleInv, [Next]_vars
    PROVE  TaleInv'
  <1>0. BaseInv'
    BY BaseStep
  <1>1. CASE \E h \in Hubs : Start(h) \/ Advance(h) \/ \E c \in DOMAIN commands : Resume(h, c)
    <2>1. PICK h \in Hubs : Start(h) \/ Advance(h) \/ \E c \in DOMAIN commands : Resume(h, c)
      BY <1>1
    <2>2. Opening(h)
      BY <2>1, StartOpens, AdvanceOpens, ResumeOpens
    <2>3. UNCHANGED <<log, checkpoints>>
      BY <2>1 DEF Start, Advance, Resume
    <2> QED
      BY <1>0, <2>2, <2>3, TaleOpening
  <1>2. CASE \E h \in Hubs : Step(h)
    <2>1. PICK h \in Hubs : Step(h)
      BY <1>2
    <2>2. CASE Poll(h) \/ CollectCompleted(h) \/ CollectFailed(h) \/ Skip(h) \/ Merge(h) \/ Select(h)
                 \/ Dispatch(h) \/ Claim(h) \/ Submit(h) \/ CancelTask(h) \/ Fence(h) \/ EndRun(h)
                 \/ Finish(h) \/ Unreconciled(h) \/ Refuse(h)
      <3>1. UNCHANGED <<log, checkpoints>>
        BY <2>2 DEF Poll, CollectCompleted, CollectFailed, Skip, Merge, Select, Dispatch, Claim,
           Submit, CancelTask, Fence, EndRun, Finish, Unreconciled, Refuse
      <3>2. hub[h].pc \in {"dispatch", "claim", "submit"} => Orderly(hub[h])
        BY DEF TaleInv, ThreadTold
      <3>3. ASSUME Dispatch(h) \/ Claim(h) \/ Submit(h) PROVE Orderly(hub[h])
        BY <3>2, <3>3 DEF Dispatch, Claim, Submit, At
      <3>4. Narrates(h)
        BY <2>2, <3>3, PollNarrates, CollectCompletedNarrates, CollectFailedNarrates, SkipNarrates,
           MergeNarrates, SelectNarrates, DispatchNarrates, ClaimNarrates, SubmitNarrates,
           CancelNarrates, EndRunNarrates, FinishNarrates, UnreconciledNarrates, RefuseNarrates
      <3> QED
        BY <1>0, <3>1, <3>4, TaleNarrates
    <2>3. CASE Emit(h)
      BY <1>0, <2>3, TaleEmits
    <2>4. CASE Save(h)
      <3>1. UNCHANGED <<log, checkpoints>>
        BY <2>4 DEF Save
      <3> QED
        BY <1>0, <2>4, <3>1, SaveAnnounces, TaleAnnounces
    <2>5. CASE Store(h)
      BY <1>0, <2>5, TaleStores
    <2> QED
      BY <2>1, <2>2, <2>3, <2>4, <2>5 DEF Step
  <1>3. CASE \E h \in Hubs : Crash(h)
    <2>1. PICK h \in Hubs : Crash(h)
      BY <1>3
    <2>2. Raise(h) /\ UNCHANGED <<log, checkpoints>>
      BY <2>1 DEF Crash
    <2> QED
      BY <1>0, <2>2, RaiseNarrates, TaleNarrates
  <1>4. CASE \/ \E n \in Nodes : Expire(n)
             \/ \E n \in Nodes, a \in Attempts : Authorize(n, a) \/ Work(n, a)
             \/ Issue
             \/ UNCHANGED vars
    <2>1. /\ UNCHANGED <<checkpoints, hub>>
          /\ log' = log \/ \E e : log' = Append(log, e)
      BY <1>4 DEF Expire, Work, Authorize, Issue, vars
    <2>2. \A j \in 1 .. Len(log) : log'[j] = log[j]
      <3>1. log \in Seq(EventRow)
        BY BaseTyped
      <3>2. \A e : \A j \in 1 .. Len(log) : Append(log, e)[j] = log[j]
        BY <3>1
      <3> QED
        BY <2>1, <3>2
    <2>3. \A g \in Hubs : ThreadTold(log', hub'[g])
      <3> SUFFICES ASSUME NEW g \in Hubs PROVE ThreadTold(log', hub'[g])
        OBVIOUS
      <3>1. ThreadTold(log', hub[g])
        BY <2>2, TaleThreads
      <3> QED
        BY <2>1, <3>1
    <2>4. \A i \in DOMAIN checkpoints : SavedTold(log', checkpoints[i].state, i)
      BY <2>2, TaleSaved
    <2> QED
      BY <2>1, <2>3, <2>4 DEF TaleInv
  <1> QED
    BY <1>1, <1>2, <1>3, <1>4 DEF Next

LEMMA MaxIs ==
    ASSUME NEW S \in SUBSET Nat, NEW x \in S, \A y \in S : y <= x
    PROVE  Max(S) = x
  <1>1. x >= x /\ \A y \in S : x >= y
    OBVIOUS
  <1>2. \A z \in S : (\A y \in S : z >= y) => z = x
    BY <1>1
  <1> QED
    BY <1>1, <1>2 DEF Max

LEMMA MaxMember ==
    ASSUME NEW i \in Nat, NEW S \in SUBSET (0 .. i), S # {}
    PROVE  Max(S) \in S /\ \A y \in S : y <= Max(S)
  <1> DEFINE T == {i - x : x \in S}
  <1>1. T \in SUBSET Nat /\ T # {}
    <2>1. \A x \in S : i - x \in Nat
      OBVIOUS
    <2>2. \E x \in S : i - x \in T
      OBVIOUS
    <2>3. T \in SUBSET Nat
      BY <2>1
    <2> QED
      BY <2>2, <2>3
  <1> HIDE DEF T
  <1>2. PICK t \in T : \A y \in T : t =< y
    BY <1>1, LeastMember
  <1> USE DEF T
  <1>3. PICK m \in S : t = i - m
    OBVIOUS
  <1>4. \A y \in S : y <= m
    <2> SUFFICES ASSUME NEW y \in S PROVE y <= m
      OBVIOUS
    <2>1. i - y \in T
      OBVIOUS
    <2>2. i - m <= i - y
      BY <1>2, <1>3, <2>1
    <2> QED
      BY <2>2
  <1>5. Max(S) = m
    <2>1. S \in SUBSET Nat
      OBVIOUS
    <2> HIDE DEF T
    <2> QED
      BY <1>4, <2>1, MaxIs
  <1> QED
    BY <1>4, <1>5

LEMMA StatusReplays ==
    ASSUME NEW i \in Nat, NEW s, TellsStatus(s, log, i)
    PROVE  s = ReplayStatus(i)
  <1> DEFINE S == {j \in 1 .. i : log[j].what \in DOMAIN StatusEvents}
  <1>1. PICK j \in 1 .. i : /\ log[j].what \in DOMAIN StatusEvents
                            /\ s = StatusEvents[log[j].what]
                            /\ \A k \in j + 1 .. i : log[k].what \notin DOMAIN StatusEvents
    BY DEF TellsStatus
  <1>2. S \in SUBSET Nat /\ j \in S /\ \A y \in S : y <= j
    BY <1>1
  <1>3. Max(S) = j
    BY <1>2, MaxIs
  <1>4. ReplayStatus(i) = StatusEvents[log[Max(S)].what]
    BY DEF ReplayStatus
  <1> QED
    BY <1>1, <1>3, <1>4

LEMMA NodesReplay ==
    ASSUME NEW i \in Nat, NEW W
    PROVE  Named(log, i, W) = NodesSeen(i, W)
  <1>1. \A x : x \in Named(log, i, W) <=> \E j \in 1 .. i : log[j].what \in W /\ x = log[j].node
    BY DEF Named
  <1>2. \A e, w : e \in Seen(i, w) <=> \E j \in 1 .. i : e = log[j] /\ e.what = w
    BY DEF Seen
  <1>3. \A x : x \in NodesSeen(i, W) <=> \E w \in W : \E e \in Seen(i, w) : x = e.node
    BY DEF NodesSeen
  <1>4. \A x : x \in NodesSeen(i, W) <=> \E j \in 1 .. i : log[j].what \in W /\ x = log[j].node
    BY <1>2, <1>3
  <1> QED
    BY <1>1, <1>4

LEMMA RunningReplays ==
    ASSUME NEW i \in Nat, NEW f \in [Nodes -> Nat], TellsRunning(f, log, i)
    PROVE  f = ReplayRunning(i)
  <1> DEFINE ended == {0} \cup {j \in 1 .. i : log[j].what \in Ends}
             begun(n) == {j \in Max(ended) + 1 .. i : log[j].what = "delegated" /\ log[j].node = n}
             answered(n, j) == \E k \in j + 1 .. i :
                              /\ log[k].what \in Answers
                              /\ log[k].node = n /\ log[k].tag = log[j].tag
             alive(n) == {j \in begun(n) : ~ answered(n, j)}
  <1>1. ReplayRunning(i) = [n \in Nodes |-> IF alive(n) = {} THEN 0 ELSE log[Max(alive(n))].tag]
    BY DEF ReplayRunning, Answers
  <1>2. Max(ended) \in ended /\ \A y \in ended : y <= Max(ended)
    <2>1. ended \in SUBSET (0 .. i) /\ ended # {}
      OBVIOUS
    <2> HIDE DEF ended
    <2> QED
      BY <2>1, MaxMember
  <1>3. PICK top \in Nat : top = Max(ended)
    <2>1. ended \in SUBSET Nat
      OBVIOUS
    <2> HIDE DEF ended
    <2> QED
      BY <1>2, <2>1
  <1>4. /\ top = 0 \/ (top \in 1 .. i /\ log[top].what \in Ends)
        /\ \A y \in 1 .. i : log[y].what \in Ends => y <= top
    BY <1>2, <1>3
  <1>5. ASSUME NEW n \in Nodes
        PROVE  alive(n) = {j \in 1 .. i : OpenAt(log, i, n, j)}
    <2>1. \A j : j \in alive(n) <=> /\ j \in top + 1 .. i
                                     /\ log[j].what = "delegated" /\ log[j].node = n
                                     /\ ~ answered(n, j)
      BY <1>3
    <2> HIDE DEF alive, begun
    <2>2. ASSUME NEW j \in alive(n) PROVE j \in 1 .. i /\ OpenAt(log, i, n, j)
      BY <1>4, <2>1 DEF OpenAt, Shuts
    <2>3. ASSUME NEW j \in 1 .. i, OpenAt(log, i, n, j) PROVE j \in alive(n)
      <3>1. /\ log[j].what = "delegated" /\ log[j].node = n
            /\ \A k \in j + 1 .. i : ~ Shuts(log[k], n, log[j].tag)
        BY <2>3 DEF OpenAt
      <3>2. ~ answered(n, j)
        BY <3>1 DEF Shuts
      <3>3. log[j].what \notin Ends
        BY <3>1 DEF Ends
      <3>4. top < j
        BY <1>4, <3>1, <3>3 DEF Shuts
      <3> QED
        BY <2>1, <3>1, <3>2, <3>4
    <2> QED
      BY <2>2, <2>3
  <1>6. ASSUME NEW n \in Nodes
        PROVE  f[n] = IF alive(n) = {} THEN 0 ELSE log[Max(alive(n))].tag
    <2>1. alive(n) = {j \in 1 .. i : OpenAt(log, i, n, j)}
      BY <1>5
    <2>2. PICK A : A = alive(n)
      OBVIOUS
    <2> HIDE DEF alive
    <2>3. CASE f[n] = 0 /\ \A j \in 1 .. i : ~ OpenAt(log, i, n, j)
      BY <2>1, <2>3
    <2>4. CASE \E j \in 1 .. i : /\ OpenAt(log, i, n, j) /\ log[j].tag = f[n] /\ f[n] # 0
                                 /\ \A k \in 1 .. i : OpenAt(log, i, n, k) => k = j
      <3>1. PICK j \in 1 .. i : /\ OpenAt(log, i, n, j) /\ log[j].tag = f[n] /\ f[n] # 0
                                /\ \A k \in 1 .. i : OpenAt(log, i, n, k) => k = j
        BY <2>4
      <3>2. A = {j}
        BY <2>1, <2>2, <3>1
      <3>3. Max(A) = j
        BY <3>2, MaxIs
      <3> QED
        BY <2>2, <3>1, <3>2, <3>3
    <2> QED
      BY <2>3, <2>4 DEF TellsRunning
  <1> HIDE DEF alive
  <1> QED
    BY <1>1, <1>6

\* A checkpoint says what its own prefix of the log says.
LEMMA TaleReplays ==
    ASSUME BaseInv, ChainInv, TaleInv
    PROVE  CheckpointReplaysLog
  <1> SUFFICES ASSUME NEW r \in DOMAIN checkpoints
               PROVE  LET st == checkpoints[r].state IN
                      /\ st.seq <= Len(log)
                      /\ log[st.seq] = Event("checkpoint", 0, r)
                      /\ st.status = ReplayStatus(st.seq)
                      /\ st.completed = NodesSeen(st.seq, {"completed", "merged", "checkpoint_node"})
                      /\ st.skipped = NodesSeen(st.seq, {"skipped"})
                      /\ st.approved = NodesSeen(st.seq, {"granted"})
                      /\ st.running = ReplayRunning(st.seq)
    BY DEF CheckpointReplaysLog
  <1>1. PICK st : st = checkpoints[r].state
    OBVIOUS
  <1>2. r \in 1 .. Revision /\ checkpoints[r] \in CheckpointRow
    BY Numbers, BaseTyped
  <1>3. st \in RunState /\ st.seq \in Nat /\ st.running \in [Nodes -> Nat]
    BY <1>1, <1>2, PlanAssumption DEF CheckpointRow, RunState, Attempts
  <1>4. st.seq <= Len(log)
    BY <1>1, <1>2, ChainFacts
  <1>5. log[st.seq] = Event("checkpoint", 0, r) /\ Told(st, log, st.seq)
    BY <1>1 DEF TaleInv, SavedTold
  <1>6. st.status = ReplayStatus(st.seq)
    BY <1>3, <1>5, StatusReplays DEF Told
  <1>7. /\ st.completed = NodesSeen(st.seq, Completing)
        /\ st.skipped = NodesSeen(st.seq, {"skipped"})
        /\ st.approved = NodesSeen(st.seq, {"granted"})
    BY <1>3, <1>5, NodesReplay DEF Told
  <1>8. st.running = ReplayRunning(st.seq)
    BY <1>3, <1>5, RunningReplays DEF Told
  <1> QED
    BY <1>1, <1>4, <1>5, <1>6, <1>7, <1>8 DEF Completing

\* A checkpoint is what replaying the event log up to its event_sequence gives:
\* status, completed, skipped and approved nodes and the delegations that are
\* out.  native_graph_orchestration_service.py appends events and saves state
\* in transactions of their own, from any number of threads that crash, lose
\* the race for a sequence or a revision, and share the log with the gateway.
THEOREM CheckpointsReplay == Spec => []CheckpointReplaysLog
  <1>1. Init => BaseInv /\ ChainInv /\ TaleInv
    BY BaseInit, ChainInit, TaleInit
  <1>2. (BaseInv /\ ChainInv /\ TaleInv) /\ [Next]_vars => (BaseInv /\ ChainInv /\ TaleInv)'
    BY BaseStep, ChainStep, TaleStep
  <1>3. BaseInv /\ ChainInv /\ TaleInv => CheckpointReplaysLog
    BY TaleReplays
  <1> QED
    BY <1>1, <1>2, <1>3, PTL DEF Spec

-----------------------------------------------------------------------------
(* No more delegations than slots. *)

\* A thread that is at work on the candidates it selected, or comes back to
\* them once it has ended the run.
Planning(r) == \/ r.pc \in {"dispatch", "claim", "submit"}
               \/ r.pc \in {"cancel", "fence"} /\ r.then = "dispatch"

\* The slots a thread has given away: delegations, candidates it has yet to
\* visit and the one in hand.
Slots(r) == Running(r.st) \cup {n \in r.todo : Planning(r)}
               \cup {n \in Nodes : r.pc \in {"claim", "submit"} /\ n = r.node}

\* Selecting is the only time a thread counts; after it, it can only give slots
\* back.  So what counts is bounded between selection and checkpoint as well.
SlotInv ==
    /\ \A h \in Hubs : Cardinality(Slots(hub[h])) <= Parallel
    /\ ParallelBounded

\* A step of thread h that takes no slot it did not have.
Frees(h) == \E r2 : Goto(h, r2) /\ Slots(r2) \subseteq Slots(hub[h])

\* Opening a gate leaves position, candidates and delegations alone.
LEMMA GateOpens ==
    ASSUME NEW r \in HubState, NEW n \in Nodes, NEW r2, r2 = OpenGate(r, n)
    PROVE  r2.pc = r.pc /\ r2.todo = r.todo /\ r2.st.running = r.st.running
  <1> DEFINE st3 == Opens(r.st, n, "paused")
             st4 == Opens(r.st, n, "waiting_for_approval")
             e1 == Event("requested", n, 0)
             e2 == Event("gate_paused", n, 0)
             r3 == [r EXCEPT !.st = st3, !.out = <<e1, e2>>]
             r4 == [r EXCEPT !.st = st4, !.out = <<e1>>]
  <1>1. r2 = r \/ r2 = r3 \/ r2 = r4
    BY DEF OpenGate
  <1>2. st3.running = r.st.running /\ st4.running = r.st.running
    BY DEF Opens, HubState, RunState
  <1> HIDE DEF st3, st4, e1, e2
  <1>3. r3.st = st3 /\ r3.pc = r.pc /\ r3.todo = r.todo
    BY DEF HubState
  <1>4. r4.st = st4 /\ r4.pc = r.pc /\ r4.todo = r.todo
    BY DEF HubState
  <1> QED
    BY <1>1, <1>2, <1>3, <1>4

\* What a command makes of the run keeps its delegations.
LEMMA AppliedKeeps ==
    ASSUME NEW st \in RunState, NEW c, NEW x \in Applied(st, c)
    PROVE  x.st.running = st.running
  <1> DEFINE n == commands[c].step
             s1 == [st EXCEPT !.status = "running"]
             s2 == [st EXCEPT !.open = @ \ {n}, !.failed = @ \cup {n}]
             s3 == [st EXCEPT !.approved = @ \cup {n}, !.open = @ \ {n}, !.status = "running"]
             s4 == [st EXCEPT !.status = "paused"]
             s5 == [st EXCEPT !.failed = IF n = 0 THEN {} ELSE @ \ {n}, !.status = "running"]
  <1>1. x.st \in {s1, s2, s3, s4, s5, st}
    BY DEF Applied
  <1> HIDE DEF n
  <1>2. s1.running = st.running /\ s2.running = st.running /\ s3.running = st.running
    BY DEF RunState
  <1>3. s4.running = st.running /\ s5.running = st.running
    <2>1. PICK f : f = IF n = 0 THEN {} ELSE st.failed \ {n}
      OBVIOUS
    <2>2. s5 = [st EXCEPT !.failed = f, !.status = "running"]
      BY <2>1
    <2> HIDE DEF s5
    <2> QED
      BY <2>2 DEF RunState
  <1> QED
    BY <1>1, <1>2, <1>3

LEMMA FiniteNodes ==
    /\ IsFiniteSet(Nodes) /\ Nodes \subseteq Nat
    /\ \A S \in SUBSET Nodes : IsFiniteSet(S) /\ Cardinality(S) \in Nat
  <1>1. N \in Nat
    BY PlanAssumption
  <1>2. IsFiniteSet(Nodes) /\ Nodes \subseteq Nat
    BY <1>1, FS_Interval DEF Nodes
  <1> QED
    BY <1>2, FS_Subset, FS_CardinalityType

LEMMA SmallerSet ==
    ASSUME NEW S \in SUBSET Nodes, NEW T \in SUBSET S, Cardinality(S) <= Parallel
    PROVE  Cardinality(T) <= Parallel
  <1>1. IsFiniteSet(S) /\ Cardinality(S) \in Nat /\ Cardinality(T) \in Nat
    BY FiniteNodes
  <1>2. Cardinality(T) <= Cardinality(S)
    BY <1>1, FS_Subset
  <1> QED
    BY <1>1, <1>2, PlanAssumption

\* Candidates are selected for the slots that are free, no more.
LEMMA BatchFits ==
    ASSUME NEW st \in RunState, Cardinality(Running(st)) <= Parallel
    PROVE  Cardinality(Running(st) \cup Batch(st)) <= Parallel
  <1>1. /\ Candidates(st) \subseteq Nodes /\ Batch(st) \subseteq Candidates(st)
        /\ Running(st) \subseteq Nodes
    BY DEF Candidates, Batch, Running
  <1>2. CASE Batch(st) = {}
    BY <1>2
  <1>3. CASE Batch(st) # {}
    <2> DEFINE b == Batch(st)
               run == Running(st)
               m == Max(b)
               before == {k \in Candidates(st) : k < m}
    <2>1. N \in Nat /\ b \in SUBSET (0 .. N)
      BY <1>1, PlanAssumption DEF Nodes
    <2>2. m \in b /\ \A y \in b : y <= m
      BY <1>3, <2>1, MaxMember
    <2>3. Cardinality(before) + Cardinality(run) < Parallel
      BY <2>2 DEF Batch
    <2>4. b \ {m} \subseteq before
      BY <1>1, <2>1, <2>2
    <2>5. b \subseteq Nodes /\ before \subseteq Nodes /\ run \subseteq Nodes /\ m \in b
      BY <1>1, <2>2
    <2> HIDE DEF b, run, m, before
    <2>6. /\ IsFiniteSet(b) /\ IsFiniteSet(before) /\ IsFiniteSet(run)
          /\ Cardinality(b) \in Nat /\ Cardinality(before) \in Nat /\ Cardinality(run) \in Nat
      BY <2>5, FiniteNodes
    <2>7. Cardinality(b \ {m}) = Cardinality(b) - 1
      BY <2>5, <2>6, FS_RemoveElement
    <2>8. Cardinality(b \ {m}) <= Cardinality(before)
      BY <2>4, <2>6, FS_Subset
    <2>9. /\ Cardinality(run \cup b) = Cardinality(run) + Cardinality(b) - Cardinality(run \cap b)
          /\ Cardinality(run \cap b) \in Nat
      <3>1. run \cap b \in SUBSET Nodes
        BY <2>5
      <3> QED
        BY <2>6, <3>1, FS_Union, FiniteNodes
    <2>10. Parallel \in Nat
      BY PlanAssumption
    <2>11. Cardinality(run \cup b) <= Parallel
      BY <2>3, <2>6, <2>7, <2>8, <2>9, <2>10
    <2> QED
      BY <2>11 DEF run, b
  <1> QED
    BY <1>2, <1>3

LEMMA SlotsAreNodes ==
    ASSUME BaseInv, NEW h \in Hubs
    PROVE  Slots(hub[h]) \in SUBSET Nodes /\ Running(hub[h].st) \subseteq Slots(hub[h])
  BY HubTyped DEF Slots, Running, HubState

LEMMA NoSlots == Slots(Idle) = {} /\ Running(NewRun) = {}
  <1>1. \A n \in Nodes : NewRun.running[n] = 0
    BY DEF NewRun
  <1>2. Idle.todo = {} /\ Idle.pc = "idle" /\ Idle.st = NewRun
    BY DEF Idle
  <1> QED
    BY <1>1, <1>2 DEF Slots, Running

LEMMA RaiseFrees == ASSUME NEW h \in Hubs, Raise(h) PROVE Frees(h)
  BY NoSlots DEF Raise, Goto, Frees

LEMMA FailFrees ==
    ASSUME NEW h \in Hubs, NEW r \in HubState, NEW th \in {"save", "dispatch"},
           Goto(h, FailRun(r, th)), Running(r.st) \subseteq Slots(hub[h]),
           th = "dispatch" => r.todo \subseteq Slots(hub[h])
    PROVE  Frees(h)
  <1> DEFINE r2 == FailRun(r, th)
  <1>1. r2.pc = "cancel" /\ r2.st = r.st /\ r2.todo = r.todo /\ r2.then = th
    BY DEF FailRun, HubState
  <1> HIDE DEF r2
  <1>2. Slots(r2) \subseteq Slots(hub[h])
    BY <1>1 DEF Slots, Planning
  <1> QED
    BY <1>2 DEF Frees, r2

LEMMA SameRunning ==
    ASSUME NEW st, NEW st2, st2.running = st.running
    PROVE  Running(st2) = Running(st)
  BY DEF Running

LEMMA PollFrees ==
    ASSUME BaseInv, NEW h \in Hubs, Poll(h) PROVE Frees(h)
  <1>1. hub[h] \in HubState /\ hub[h].pc = "poll"
    BY HubTyped DEF Poll, At
  <1>2. PICK d : Goto(h, [hub[h] EXCEPT !.pc = "collect", !.todo = d])
    BY DEF Poll
  <1> DEFINE r2 == [hub[h] EXCEPT !.pc = "collect", !.todo = d]
  <1>3. r2.pc = "collect" /\ r2.st = hub[h].st
    BY <1>1 DEF HubState
  <1> HIDE DEF r2
  <1>4. Slots(r2) \subseteq Slots(hub[h])
    BY <1>3 DEF Slots, Planning
  <1> QED
    BY <1>2, <1>4 DEF Frees, r2

\* A collected result frees its slot.
LEMMA CollectCompletedFrees ==
    ASSUME BaseInv, NEW h \in Hubs, CollectCompleted(h) PROVE Frees(h)
  <1>1. hub[h] \in HubState /\ hub[h].st \in RunState /\ SoundState(hub[h].st)
    BY HubTyped
  <1>2. hub[h].pc = "collect" /\ hub[h].todo # {}
    BY DEF CollectCompleted, At
  <1> DEFINE n == Min(hub[h].todo)
             st1 == Collected(hub[h].st, n)
             st2 == Completes(st1, n)
             out == CompletionEvents(n, hub[h].st.running[n])
             r2 == [hub[h] EXCEPT !.todo = @ \ {n}, !.st = st2, !.out = out]
  <1>3. Raise(h) \/ Goto(h, r2)
    BY DEF CollectCompleted
  <1>4. n \in Nodes
    BY <1>1, <1>2, FirstNode DEF HubState
  <1> HIDE DEF n
  <1>5. st1 \in RunState /\ Running(st1) \subseteq Running(hub[h].st)
    BY <1>1, <1>4, CollectedOK
  <1> HIDE DEF st1
  <1>6. Running(st2) = Running(st1)
    <2>1. st2.running = st1.running
      BY <1>5 DEF Completes, RunState
    <2> QED
      BY <2>1, SameRunning
  <1> HIDE DEF st2, out
  <1>7. r2.st = st2 /\ r2.pc = "collect"
    BY <1>1, <1>2 DEF HubState
  <1> HIDE DEF r2
  <1>8. Slots(r2) \subseteq Slots(hub[h])
    BY <1>5, <1>6, <1>7 DEF Slots, Planning
  <1> QED
    BY <1>3, <1>8, RaiseFrees DEF Frees

LEMMA CollectFailedFrees ==
    ASSUME BaseInv, NEW h \in Hubs, CollectFailed(h) PROVE Frees(h)
  <1>1. hub[h] \in HubState /\ hub[h].st \in RunState /\ SoundState(hub[h].st)
    BY HubTyped
  <1>2. hub[h].pc = "collect" /\ hub[h].todo # {}
    BY DEF CollectFailed, At
  <1> DEFINE n == Min(hub[h].todo)
             a == hub[h].st.running[n]
             st1 == Collected(hub[h].st, n)
             st2 == Fails(st1, n)
             e1 == Event("retry", n, a)
             e2 == Event("failed", n, a)
             again == [hub[h] EXCEPT !.todo = @ \ {n}, !.st = st1, !.out = <<e1>>]
             failing == [hub[h] EXCEPT !.todo = @ \ {n}, !.st = st2, !.out = <<e2>>]
  <1>3. Raise(h) \/ Goto(h, again) \/ Goto(h, failing) \/ Goto(h, FailRun(failing, "save"))
    BY DEF CollectFailed
  <1>4. n \in Nodes
    BY <1>1, <1>2, FirstNode DEF HubState
  <1> HIDE DEF n
  <1>5. st1 \in RunState /\ Running(st1) \subseteq Running(hub[h].st)
    BY <1>1, <1>4, CollectedOK
  <1> HIDE DEF st1
  <1>6. st2 \in RunState /\ Running(st2) = Running(st1)
    <2>1. st2 \in RunState /\ st2.running = st1.running
      BY <1>4, <1>5 DEF Fails, RunState
    <2> QED
      BY <2>1, SameRunning
  <1>7. <<e2>> \in Seq(EventRow)
    <2>1. a \in Nat
      BY <1>1, <1>4, PlanAssumption DEF RunState, Attempts
    <2>2. e2 \in EventRow
      BY <1>4, <2>1 DEF Event, EventRow, EventKinds
    <2> QED
      BY <2>2
  <1> HIDE DEF st2, e1, e2
  <1>8. again.st = st1 /\ again.pc = "collect"
    BY <1>1, <1>2 DEF HubState
  <1>9. failing \in HubState /\ failing.st = st2 /\ failing.pc = "collect"
    BY <1>1, <1>2, <1>6, <1>7 DEF HubState
  <1> HIDE DEF again, failing
  <1>10. Running(failing.st) \subseteq Slots(hub[h])
    BY <1>5, <1>6, <1>9 DEF Slots
  <1>11. Slots(again) \subseteq Slots(hub[h]) /\ Slots(failing) \subseteq Slots(hub[h])
    BY <1>5, <1>6, <1>8, <1>9 DEF Slots, Planning
  <1>12. CASE Goto(h, FailRun(failing, "save"))
    BY <1>9, <1>10, <1>12, FailFrees
  <1> QED
    BY <1>3, <1>11, <1>12, RaiseFrees DEF Frees

LEMMA SkipFrees ==
    ASSUME BaseInv, NEW h \in Hubs, Skip(h) PROVE Frees(h)
  <1>1. hub[h] \in HubState /\ hub[h].st \in RunState
    BY HubTyped
  <1>2. hub[h].pc = "collect"
    BY DEF Skip, At
  <1> DEFINE n == Min(Unrouted(hub[h].st))
             st2 == Skips(hub[h].st, n)
             e == Event("skipped", n, 0)
             r2 == [hub[h] EXCEPT !.st = st2, !.out = <<e>>]
  <1>3. Goto(h, FailRun(hub[h], "save")) \/ Goto(h, r2)
    BY DEF Skip
  <1> HIDE DEF n, e
  <1>4. Running(st2) = Running(hub[h].st)
    <2>1. st2.running = hub[h].st.running
      BY <1>1 DEF Skips, RunState
    <2> QED
      BY <2>1, SameRunning
  <1> HIDE DEF st2
  <1>5. r2.st = st2 /\ r2.pc = "collect"
    BY <1>1, <1>2 DEF HubState
  <1> HIDE DEF r2
  <1>6. Slots(r2) \subseteq Slots(hub[h])
    BY <1>4, <1>5 DEF Slots, Planning
  <1>7. CASE Goto(h, FailRun(hub[h], "save"))
    BY <1>1, <1>7, SlotsAreNodes, FailFrees
  <1> QED
    BY <1>3, <1>6, <1>7 DEF Frees

LEMMA MergeFrees ==
    ASSUME BaseInv, NEW h \in Hubs, Merge(h) PROVE Frees(h)
  <1>1. hub[h] \in HubState /\ hub[h].st \in RunState
    BY HubTyped
  <1>2. Mergeable(hub[h].st) # {}
    BY DEF Merge
  <1> DEFINE n == Min(Mergeable(hub[h].st))
             st1 == Completes(hub[h].st, n)
             st2 == Fails(hub[h].st, n)
             e == Event("merged", n, 0)
             r1 == [hub[h] EXCEPT !.pc = "merge", !.st = st1, !.out = <<e>>]
             r2 == [hub[h] EXCEPT !.st = st2]
  <1>3. Goto(h, r1) \/ Goto(h, FailRun(r2, "save"))
    BY DEF Merge
  <1>4. n \in Nodes
    <2>1. Mergeable(hub[h].st) \in SUBSET Nodes
      BY DEF Mergeable
    <2> QED
      BY <1>2, <2>1, FirstNode
  <1> HIDE DEF n, e
  <1>5. Running(st1) = Running(hub[h].st)
    <2>1. st1.running = hub[h].st.running
      BY <1>1 DEF Completes, RunState
    <2> QED
      BY <2>1, SameRunning
  <1>6. st2 \in RunState /\ Running(st2) = Running(hub[h].st)
    <2>1. st2 \in RunState /\ st2.running = hub[h].st.running
      BY <1>1, <1>4 DEF Fails, RunState
    <2> QED
      BY <2>1, SameRunning
  <1> HIDE DEF st1, st2
  <1>7. r1.st = st1 /\ r1.pc = "merge"
    BY <1>1 DEF HubState
  <1>8. r2 \in HubState /\ r2.st = st2
    BY <1>1, <1>6 DEF HubState
  <1> HIDE DEF r1, r2
  <1>9. Slots(r1) \subseteq Slots(hub[h])
    BY <1>5, <1>7 DEF Slots, Planning
  <1>10. CASE Goto(h, FailRun(r2, "save"))
    BY <1>6, <1>8, <1>10, SlotsAreNodes, FailFrees
  <1> QED
    BY <1>3, <1>9, <1>10 DEF Frees

\* A candidate is passed over, answered or taken in hand.
LEMMA DispatchFrees ==
    ASSUME BaseInv, NEW h \in Hubs, Dispatch(h) PROVE Frees(h)
  <1>1. hub[h] \in HubState /\ hub[h].st \in RunState
    BY HubTyped
  <1>2. hub[h].pc = "dispatch" /\ hub[h].out = <<>> /\ hub[h].todo # {}
    BY DEF Dispatch, At
  <1> DEFINE n == Min(hub[h].todo)
             rest == [hub[h] EXCEPT !.todo = @ \ {n}]
             st2 == Completes(hub[h].st, n)
             e == Event("checkpoint_node", n, 0)
             done == [hub[h] EXCEPT !.todo = @ \ {n}, !.st = st2, !.out = <<e>>]
             claim == [rest EXCEPT !.pc = "claim", !.node = n]
  <1>3. \/ Goto(h, rest)
        \/ Goto(h, OpenGate(rest, n))
        \/ Goto(h, done)
        \/ Goto(h, FailRun(hub[h], "save"))
        \/ Goto(h, claim)
    BY DEF Dispatch
  <1>4. n \in hub[h].todo /\ n \in Nodes
    BY <1>1, <1>2, FirstNode DEF HubState
  <1> HIDE DEF n, e
  <1>5. /\ rest \in HubState /\ rest.st = hub[h].st /\ rest.pc = "dispatch" /\ rest.out = <<>>
        /\ rest.todo = hub[h].todo \ {n}
    BY <1>1, <1>2, <1>4 DEF HubState
  <1> HIDE DEF rest
  <1>6. claim.st = hub[h].st /\ claim.pc = "claim" /\ claim.todo = hub[h].todo \ {n} /\ claim.node = n
    BY <1>5 DEF HubState
  <1>7. Running(st2) = Running(hub[h].st)
    <2>1. st2.running = hub[h].st.running
      BY <1>1 DEF Completes, RunState
    <2> QED
      BY <2>1, SameRunning
  <1> HIDE DEF st2, claim
  <1>8. done.st = st2 /\ done.pc = "dispatch" /\ done.todo = hub[h].todo \ {n}
    BY <1>1, <1>2 DEF HubState
  <1> HIDE DEF done
  <1>9. ASSUME NEW r2, Goto(h, r2), Running(r2.st) = Running(hub[h].st),
               r2.todo = hub[h].todo \ {n}, r2.pc = "dispatch" \/ (r2.pc = "claim" /\ r2.node = n)
        PROVE  Frees(h)
    <2>1. Slots(r2) \subseteq Slots(hub[h])
      BY <1>2, <1>4, <1>9 DEF Slots, Planning
    <2> QED
      BY <1>9, <2>1 DEF Frees
  <1>10. CASE Goto(h, OpenGate(rest, n))
    <2>1. PICK r2 : r2 = OpenGate(rest, n)
      OBVIOUS
    <2>2. r2.pc = rest.pc /\ r2.todo = rest.todo /\ r2.st.running = rest.st.running
      BY <1>4, <1>5, <2>1, GateOpens
    <2>3. Running(r2.st) = Running(hub[h].st)
      BY <1>5, <2>2, SameRunning
    <2> QED
      BY <1>5, <1>9, <1>10, <2>1, <2>2, <2>3
  <1>11. CASE Goto(h, FailRun(hub[h], "save"))
    BY <1>1, <1>11, SlotsAreNodes, FailFrees
  <1>12. CASE Goto(h, rest) \/ Goto(h, done) \/ Goto(h, claim)
    BY <1>5, <1>6, <1>7, <1>8, <1>9, <1>12
  <1> QED
    BY <1>3, <1>10, <1>11, <1>12

\* A refused claim gives up the candidate in hand and keeps the others.
LEMMA ClaimFrees ==
    ASSUME BaseInv, NEW h \in Hubs, Claim(h) PROVE Frees(h)
  <1>1. hub[h] \in HubState /\ hub[h].st \in RunState
    BY HubTyped
  <1>2. hub[h].pc = "claim"
    BY DEF Claim, At
  <1> DEFINE n == hub[h].node
             back == [hub[h] EXCEPT !.pc = "dispatch", !.node = 0]
             st2 == Attempted(hub[h].st, n)
             tok == owner[n].token + 1
             r2 == [hub[h] EXCEPT !.pc = "submit", !.token = tok, !.st = st2]
  <1>3. Raise(h) \/ Goto(h, FailRun(back, "dispatch")) \/ Goto(h, r2)
    BY DEF Claim
  <1>4. back \in HubState /\ back.st = hub[h].st /\ back.todo = hub[h].todo
    BY <1>1 DEF HubState
  <1>5. Running(st2) = Running(hub[h].st)
    <2>1. PICK more : more = [hub[h].st.attempts EXCEPT ![n] = @ + 1]
      OBVIOUS
    <2>2. st2 = [hub[h].st EXCEPT !.attempts = more]
      BY <2>1 DEF Attempted
    <2> HIDE DEF st2
    <2>3. st2.running = hub[h].st.running
      BY <1>1, <2>2 DEF RunState
    <2> QED
      BY <2>3, SameRunning
  <1> HIDE DEF back, st2, tok
  <1>6. r2.st = st2 /\ r2.pc = "submit" /\ r2.todo = hub[h].todo /\ r2.node = n
    BY <1>1 DEF HubState
  <1> HIDE DEF r2
  <1>7. Slots(r2) \subseteq Slots(hub[h])
    BY <1>2, <1>5, <1>6 DEF Slots, Planning
  <1>8. hub[h].todo \subseteq Slots(hub[h])
    BY <1>2 DEF Slots, Planning
  <1>9. CASE Goto(h, FailRun(back, "dispatch"))
    BY <1>4, <1>8, <1>9, SlotsAreNodes, FailFrees
  <1> QED
    BY <1>3, <1>7, <1>9, RaiseFrees DEF Frees

\* So does a refused delegation.
LEMMA RefuseFrees ==
    ASSUME BaseInv, NEW h \in Hubs, Refuse(h) PROVE Frees(h)
  <1>1. hub[h] \in HubState
    BY HubTyped
  <1>2. hub[h].pc \in {"claim", "submit"}
    BY DEF Refuse, At
  <1> DEFINE back == [hub[h] EXCEPT !.pc = "dispatch", !.node = 0]
  <1>3. Goto(h, FailRun(back, "dispatch"))
    BY DEF Refuse
  <1>4. back \in HubState /\ back.st = hub[h].st /\ back.todo = hub[h].todo
    BY <1>1 DEF HubState
  <1> HIDE DEF back
  <1>5. hub[h].todo \subseteq Slots(hub[h])
    BY <1>2 DEF Slots, Planning
  <1> QED
    BY <1>3, <1>4, <1>5, SlotsAreNodes, FailFrees

LEMMA UnreconciledFrees == ASSUME NEW h \in Hubs, Unreconciled(h) PROVE Frees(h)
  BY RaiseFrees DEF Unreconciled

\* The candidate in hand becomes a delegation.
LEMMA SubmitFrees ==
    ASSUME BaseInv, NEW h \in Hubs, Submit(h) PROVE Frees(h)
  <1>1. hub[h] \in HubState /\ hub[h].st \in RunState /\ SoundMemory(hub[h])
    BY HubTyped
  <1>2. hub[h].pc = "submit"
    BY DEF Submit, At
  <1> DEFINE n == hub[h].node
             a == hub[h].token
             run2 == [hub[h].st.running EXCEPT ![n] = a]
             st2 == Delegated(hub[h].st, n, a)
             e == Event("delegated", n, a)
             r2 == [hub[h] EXCEPT !.pc = "dispatch", !.node = 0, !.token = 0, !.st = st2,
                                  !.out = <<e>>]
  <1>3. Goto(h, r2)
    BY DEF Submit
  <1>4. n \in Nodes
    BY <1>1, <1>2 DEF SoundMemory
  <1>5. \A m \in Nodes \ {n} : run2[m] = hub[h].st.running[m]
    BY <1>1 DEF RunState
  <1>6. st2.running = run2
    <2>1. st2 = [hub[h].st EXCEPT !.running = run2]
      BY DEF Delegated
    <2> HIDE DEF st2, run2
    <2> QED
      BY <1>1, <2>1 DEF RunState
  <1> HIDE DEF run2, e
  <1>7. Running(st2) \subseteq Running(hub[h].st) \cup {n}
    BY <1>5, <1>6 DEF Running
  <1> HIDE DEF st2
  <1>8. r2.st = st2 /\ r2.pc = "dispatch" /\ r2.todo = hub[h].todo
    BY <1>1 DEF HubState
  <1> HIDE DEF r2
  <1>9. Slots(r2) \subseteq Slots(hub[h])
    BY <1>2, <1>4, <1>7, <1>8 DEF Slots, Planning
  <1> QED
    BY <1>3, <1>9 DEF Frees

LEMMA FenceFrees ==
    ASSUME BaseInv, NEW h \in Hubs, CancelTask(h) \/ Fence(h) PROVE Frees(h)
  <1>1. hub[h] \in HubState
    BY HubTyped
  <1>2. PICK f : Goto(h, [hub[h] EXCEPT !.pc = "fence"]) \/ Goto(h, [hub[h] EXCEPT !.fence = f])
    BY DEF CancelTask, Fence
  <1>3. hub[h].pc \in {"cancel", "fence"}
    BY DEF CancelTask, Fence, At
  <1> DEFINE r1 == [hub[h] EXCEPT !.pc = "fence"]
             r2 == [hub[h] EXCEPT !.fence = f]
  <1>4. r1.pc = "fence" /\ r1.st = hub[h].st /\ r1.todo = hub[h].todo /\ r1.then = hub[h].then
    BY <1>1 DEF HubState
  <1>5. r2.pc = hub[h].pc /\ r2.st = hub[h].st /\ r2.todo = hub[h].todo /\ r2.then = hub[h].then
    BY <1>1 DEF HubState
  <1> HIDE DEF r1, r2
  <1>6. Slots(r1) \subseteq Slots(hub[h]) /\ Slots(r2) \subseteq Slots(hub[h])
    BY <1>3, <1>4, <1>5 DEF Slots, Planning
  <1> QED
    BY <1>2, <1>6 DEF Frees, r1, r2

\* Ending the run gives all delegations up.
LEMMA EndRunFrees ==
    ASSUME BaseInv, NEW h \in Hubs, EndRun(h) PROVE Frees(h)
  <1>1. hub[h] \in HubState /\ hub[h].st \in RunState
    BY HubTyped
  <1>2. hub[h].pc = "fence"
    BY DEF EndRun, At
  <1> DEFINE status == IF hub[h].why = "run_failed" THEN "failed" ELSE "cancelled"
             none == [n \in Nodes |-> 0]
             st2 == Stops(hub[h].st, status)
             tag == IF hub[h].why = "run_failed" THEN hub[h].st.seq + 1 ELSE hub[h].cmd
             e == Event(hub[h].why, 0, tag)
             r2 == [hub[h] EXCEPT !.pc = hub[h].then, !.st = st2, !.out = <<e>>]
  <1>3. Goto(h, r2)
    BY DEF EndRun
  <1>4. hub[h].then \in {"save", "dispatch"}
    BY <1>1 DEF HubState
  <1>5. \A n \in Nodes : none[n] = 0
    OBVIOUS
  <1> HIDE DEF status, tag, e
  <1>6. st2.running = none
    <2>1. st2 = [hub[h].st EXCEPT !.running = none, !.status = status]
      BY DEF Stops
    <2> HIDE DEF st2, none
    <2> QED
      BY <1>1, <2>1 DEF RunState
  <1>7. Running(st2) = {}
    BY <1>5, <1>6 DEF Running
  <1> HIDE DEF st2
  <1>8. r2.st = st2 /\ r2.pc = hub[h].then /\ r2.todo = hub[h].todo
    BY <1>1 DEF HubState
  <1> HIDE DEF r2
  <1>9. Slots(r2) \subseteq Slots(hub[h])
    BY <1>2, <1>4, <1>7, <1>8 DEF Slots, Planning
  <1> QED
    BY <1>3, <1>9 DEF Frees

LEMMA FinishFrees ==
    ASSUME BaseInv, NEW h \in Hubs, Finish(h) PROVE Frees(h)
  <1>1. hub[h] \in HubState /\ hub[h].st \in RunState
    BY HubTyped
  <1> DEFINE r1 == [hub[h] EXCEPT !.pc = "save"]
             st2 == [hub[h].st EXCEPT !.status = "completed"]
             e == Event("run_completed", 0, 0)
             r2 == [hub[h] EXCEPT !.pc = "save", !.st = st2, !.out = <<e>>]
  <1>2. Goto(h, r1) \/ Goto(h, FailRun(hub[h], "save")) \/ Goto(h, r2)
    BY DEF Finish
  <1>3. st2.running = hub[h].st.running
    BY <1>1 DEF RunState
  <1> HIDE DEF st2, e
  <1>4. r1.st = hub[h].st /\ r1.pc = "save" /\ r2.st = st2 /\ r2.pc = "save"
    BY <1>1 DEF HubState
  <1> HIDE DEF r1, r2
  <1>5. Running(st2) = Running(hub[h].st)
    BY <1>3, SameRunning
  <1>6. Slots(r1) \subseteq Slots(hub[h]) /\ Slots(r2) \subseteq Slots(hub[h])
    BY <1>4, <1>5 DEF Slots, Planning
  <1>7. CASE Goto(h, FailRun(hub[h], "save"))
    BY <1>1, <1>7, SlotsAreNodes, FailFrees
  <1> QED
    BY <1>2, <1>6, <1>7 DEF Frees

LEMMA SaveFrees ==
    ASSUME BaseInv, NEW h \in Hubs, Save(h) PROVE Frees(h)
  <1>1. hub[h] \in HubState /\ hub[h].st \in RunState
    BY HubTyped
  <1>2. PICK k, l, o : Goto(h, [hub[h] EXCEPT !.pc = "store", !.token = k,
                                              !.st = [@ EXCEPT !.last = l], !.out = o])
    BY DEF Save
  <1> DEFINE st2 == [hub[h].st EXCEPT !.last = l]
             r2 == [hub[h] EXCEPT !.pc = "store", !.token = k, !.st = st2, !.out = o]
  <1>3. Goto(h, r2)
    BY <1>2
  <1>4. st2.running = hub[h].st.running
    BY <1>1 DEF RunState
  <1> HIDE DEF st2
  <1>5. r2.st = st2 /\ r2.pc = "store"
    BY <1>1 DEF HubState
  <1> HIDE DEF r2
  <1>6. Slots(r2) \subseteq Slots(hub[h])
    BY <1>4, <1>5, SameRunning DEF Slots, Planning
  <1> QED
    BY <1>3, <1>6 DEF Frees

LEMMA EmitFrees ==
    ASSUME BaseInv, NEW h \in Hubs, Emit(h) PROVE Frees(h)
  <1>1. hub[h] \in HubState /\ hub[h].st \in RunState
    BY HubTyped
  <1>2. PICK o, k : \/ Raise(h)
                    \/ Goto(h, [hub[h] EXCEPT !.out = o, !.st = [@ EXCEPT !.seq = k]])
    BY DEF Emit
  <1> DEFINE st2 == [hub[h].st EXCEPT !.seq = k]
             r2 == [hub[h] EXCEPT !.out = o, !.st = st2]
  <1>3. Raise(h) \/ Goto(h, r2)
    BY <1>2
  <1>4. st2.running = hub[h].st.running
    BY <1>1 DEF RunState
  <1> HIDE DEF st2
  <1>5. /\ r2.st = st2 /\ r2.pc = hub[h].pc /\ r2.todo = hub[h].todo /\ r2.node = hub[h].node
        /\ r2.then = hub[h].then
    BY <1>1 DEF HubState
  <1> HIDE DEF r2
  <1>6. Slots(r2) \subseteq Slots(hub[h])
    BY <1>4, <1>5, SameRunning DEF Slots, Planning
  <1> QED
    BY <1>3, <1>6, RaiseFrees DEF Frees


\* Select takes the free slots.
LEMMA SelectFits ==
    ASSUME BaseInv, NEW h \in Hubs, Select(h), Cardinality(Slots(hub[h])) <= Parallel
    PROVE  \E r2 : Goto(h, r2) /\ Cardinality(Slots(r2)) <= Parallel
  <1>1. hub[h] \in HubState /\ hub[h].st \in RunState
    BY HubTyped
  <1> DEFINE b == Batch(hub[h].st)
             r2 == [hub[h] EXCEPT !.pc = "dispatch", !.todo = b]
  <1>2. Goto(h, r2)
    BY DEF Select
  <1>3. Cardinality(Running(hub[h].st)) <= Parallel
    BY SlotsAreNodes, SmallerSet
  <1>4. Cardinality(Running(hub[h].st) \cup b) <= Parallel
    BY <1>1, <1>3, BatchFits
  <1> HIDE DEF b
  <1>5. r2.st = hub[h].st /\ r2.pc = "dispatch" /\ r2.todo = b
    BY <1>1 DEF HubState
  <1> HIDE DEF r2
  <1>6. Slots(r2) = Running(hub[h].st) \cup b
    BY <1>5 DEF Slots, Planning
  <1> QED
    BY <1>2, <1>4, <1>6

\* An operation begins with the delegations of the checkpoint it loads.
LEMMA LoadFits ==
    ASSUME BaseInv, ParallelBounded, NEW h \in Hubs,
           Start(h) \/ Advance(h) \/ \E c \in DOMAIN commands : Resume(h, c)
    PROVE  \E r2 : Goto(h, r2) /\ Cardinality(Slots(r2)) <= Parallel
  <1>1. Cardinality({}) <= Parallel /\ Parallel \in Nat
    BY FS_EmptySet, PlanAssumption
  <1>2. Revision > 0 => Cardinality(Running(Latest)) <= Parallel
    BY LatestTyped DEF ParallelBounded, Latest
  <1>3. Idle.todo = {} /\ Idle.then = "save" /\ Idle \in HubState /\ Idle.st = NewRun
    BY IdleOK DEF Idle
  <1>4. CASE Start(h)
    <2> DEFINE e == Event("started", 0, 0)
               r2 == [Idle EXCEPT !.pc = "poll", !.out = <<e>>]
    <2>1. Goto(h, r2)
      BY <1>4 DEF Start
    <2> HIDE DEF e
    <2>2. r2.pc = "poll" /\ r2.st = NewRun
      BY <1>3 DEF HubState
    <2> HIDE DEF r2
    <2>3. Slots(r2) = {}
      BY <2>2, NoSlots DEF Slots, Planning
    <2> QED
      BY <1>1, <2>1, <2>3
  <1>5. CASE Advance(h)
    <2> DEFINE r2 == [Idle EXCEPT !.pc = "poll", !.st = Latest, !.base = Revision]
    <2>1. Goto(h, r2) /\ Revision > 0
      BY <1>5 DEF Advance
    <2>2. r2.pc = "poll" /\ r2.st = Latest
      BY <1>3 DEF HubState
    <2> HIDE DEF r2
    <2>3. Slots(r2) = Running(Latest)
      BY <2>2 DEF Slots, Planning
    <2> QED
      BY <1>2, <2>1, <2>3
  <1>6. CASE \E c \in DOMAIN commands : Resume(h, c)
    <2>1. PICK c \in DOMAIN commands : Resume(h, c)
      BY <1>6
    <2>2. PICK x \in Applied(Latest, c) :
          Goto(h, [Idle EXCEPT !.pc = x.pc, !.st = x.st, !.out = x.out, !.base = Revision,
                               !.cmd = c,
                               !.fence = IF x.pc = "cancel" THEN Running(x.st) ELSE {},
                               !.why = IF commands[c].kind = "cancel" THEN "run_cancelled"
                                                                      ELSE "run_failed"])
      BY <2>1 DEF Resume
    <2>3. PICK f, w : f = (IF x.pc = "cancel" THEN Running(x.st) ELSE {})
                      /\ w = (IF commands[c].kind = "cancel" THEN "run_cancelled" ELSE "run_failed")
      OBVIOUS
    <2> DEFINE r2 == [Idle EXCEPT !.pc = x.pc, !.st = x.st, !.out = x.out, !.base = Revision,
                                  !.cmd = c, !.fence = f, !.why = w]
    <2>4. Goto(h, r2)
      BY <2>2, <2>3
    <2>5. r2.pc = x.pc /\ r2.st = x.st /\ r2.then = "save"
      BY <1>3 DEF HubState
    <2>6. Revision > 0 /\ Latest \in RunState /\ SoundState(Latest)
      BY <2>1, LatestTyped DEF Resume
    <2>7. x.pc \in {"poll", "save", "cancel"}
      <3>1. commands \in Seq(CommandRow)
        BY BaseTyped
      <3>2. c \in Nat /\ commands[c] \in CommandRow
        BY <3>1
      <3> QED
        BY <2>6, <3>2, AppliedOK
    <2>8. Running(x.st) = Running(Latest)
      BY <2>6, AppliedKeeps, SameRunning
    <2> HIDE DEF r2
    <2>9. Slots(r2) = Running(Latest)
      BY <2>5, <2>7, <2>8 DEF Slots, Planning
    <2> QED
      BY <1>2, <2>4, <2>6, <2>9
  <1> QED
    BY <1>4, <1>5, <1>6

\* A step of thread h that saves nothing.
LEMMA SlotFrame ==
    ASSUME BaseInv, SlotInv, NEW h \in Hubs, checkpoints' = checkpoints,
           NEW r2, Goto(h, r2), Cardinality(Slots(r2)) <= Parallel
    PROVE  SlotInv'
  <1>1. hub'[h] = r2 /\ \A g \in Hubs \ {h} : hub'[g] = hub[g]
    BY GoesTo
  <1>2. \A g \in Hubs : Cardinality(Slots(hub'[g])) <= Parallel
    BY <1>1 DEF SlotInv
  <1> QED
    BY <1>2 DEF SlotInv, ParallelBounded, Slots, Planning, Running

LEMMA SlotFrees ==
    ASSUME BaseInv, SlotInv, NEW h \in Hubs, checkpoints' = checkpoints, Frees(h)
    PROVE  SlotInv'
  <1>1. PICK r2 : Goto(h, r2) /\ Slots(r2) \subseteq Slots(hub[h])
    BY DEF Frees
  <1>2. Cardinality(Slots(hub[h])) <= Parallel /\ Slots(hub[h]) \in SUBSET Nodes
    BY SlotsAreNodes DEF SlotInv
  <1>3. Cardinality(Slots(r2)) <= Parallel
    BY <1>1, <1>2, SmallerSet
  <1> QED
    BY <1>1, <1>3, SlotFrame

LEMMA SlotStores ==
    ASSUME BaseInv, SlotInv, NEW h \in Hubs, Store(h)
    PROVE  SlotInv'
  <1>1. Raise(h)
    BY DEF Store
  <1>2. Goto(h, Idle)
    BY <1>1 DEF Raise, Goto
  <1>3. hub'[h] = Idle /\ \A g \in Hubs \ {h} : hub'[g] = hub[g]
    BY <1>2, GoesTo
  <1>4. Cardinality(Slots(Idle)) <= Parallel
    BY NoSlots, FS_EmptySet, PlanAssumption
  <1>5. \A g \in Hubs : Cardinality(Slots(hub'[g])) <= Parallel
    BY <1>3, <1>4 DEF SlotInv
  <1>6. Cardinality(Running(hub[h].st)) <= Parallel
    BY SlotsAreNodes, SmallerSet DEF SlotInv
  <1>7. \A i \in DOMAIN checkpoints : Cardinality(Running(checkpoints[i].state)) <= Parallel
    BY DEF SlotInv, ParallelBounded
  <1>8. \A i \in DOMAIN checkpoints' : Cardinality(Running(checkpoints'[i].state)) <= Parallel
    <2>1. CASE checkpoints' = checkpoints
      BY <1>7, <2>1
    <2>2. CASE checkpoints' # checkpoints
      <3>1. PICK c \in CheckpointRow :
               c.state = hub[h].st /\ checkpoints' = Append(checkpoints, c)
        BY <2>2, StoreView
      <3>2. \A i \in DOMAIN checkpoints' :
               checkpoints'[i] = c \/ (i \in DOMAIN checkpoints /\ checkpoints'[i] = checkpoints[i])
        BY <3>1, BaseTyped
      <3> QED
        BY <1>6, <1>7, <3>1, <3>2
    <2> QED
      BY <2>1, <2>2
  <1> QED
    BY <1>5, <1>8 DEF SlotInv, ParallelBounded, Slots, Planning, Running

LEMMA SlotInit == Init => SlotInv
  <1> SUFFICES ASSUME Init PROVE SlotInv
    OBVIOUS
  <1>1. Cardinality({}) <= Parallel
    BY FS_EmptySet, PlanAssumption
  <1>2. \A h \in Hubs : Slots(hub[h]) = {}
    BY NoSlots DEF Init
  <1>3. ParallelBounded
    BY DEF Init, ParallelBounded
  <1> QED
    BY <1>1, <1>2, <1>3 DEF SlotInv

LEMMA SlotStep == BaseInv /\ SlotInv /\ [Next]_vars => SlotInv'
  <1> SUFFICES ASSUME BaseInv, SlotInv, [Next]_vars PROVE SlotInv'
    OBVIOUS
  <1>1. CASE \E h \in Hubs : Start(h) \/ Advance(h) \/ \E c \in DOMAIN commands : Resume(h, c)
    <2>1. PICK h \in Hubs : Start(h) \/ Advance(h) \/ \E c \in DOMAIN commands : Resume(h, c)
      BY <1>1
    <2>2. checkpoints' = checkpoints
      BY <2>1 DEF Start, Advance, Resume
    <2>3. PICK r2 : Goto(h, r2) /\ Cardinality(Slots(r2)) <= Parallel
      BY <2>1, LoadFits DEF SlotInv
    <2> QED
      BY <2>2, <2>3, SlotFrame
  <1>2. CASE \E h \in Hubs : Step(h)
    <2>1. PICK h \in Hubs : Step(h)
      BY <1>2
    <2>2. CASE \/ Emit(h) \/ Poll(h) \/ CollectCompleted(h) \/ CollectFailed(h) \/ Skip(h)
               \/ Merge(h) \/ Dispatch(h) \/ Claim(h) \/ Submit(h) \/ CancelTask(h) \/ Fence(h)
               \/ EndRun(h) \/ Finish(h) \/ Save(h) \/ Unreconciled(h) \/ Refuse(h)
      <3>1. checkpoints' = checkpoints
        BY <2>2 DEF Emit, Poll, CollectCompleted, CollectFailed, Skip, Merge, Dispatch, Claim,
           Submit, CancelTask, Fence, EndRun, Finish, Save, Unreconciled, Refuse
      <3>2. Frees(h)
        BY <2>2, EmitFrees, PollFrees, CollectCompletedFrees, CollectFailedFrees, SkipFrees,
           MergeFrees, DispatchFrees, ClaimFrees, SubmitFrees, FenceFrees, EndRunFrees,
           FinishFrees, SaveFrees, UnreconciledFrees, RefuseFrees
      <3> QED
        BY <3>1, <3>2, SlotFrees
    <2>3. CASE Select(h)
      <3>1. checkpoints' = checkpoints
        BY <2>3 DEF Select
      <3>2. PICK r2 : Goto(h, r2) /\ Cardinality(Slots(r2)) <= Parallel
        BY <2>3, SelectFits DEF SlotInv
      <3> QED
        BY <3>1, <3>2, SlotFrame
    <2>4. CASE Store(h)
      BY <2>4, SlotStores
    <2> QED
      BY <2>1, <2>2, <2>3, <2>4 DEF Step
  <1>3. CASE \E h \in Hubs : Crash(h)
    <2>1. PICK h \in Hubs : Crash(h)
      BY <1>3
    <2>2. checkpoints' = checkpoints /\ Raise(h)
      BY <2>1 DEF Crash
    <2> QED
      BY <2>2, RaiseFrees, SlotFrees
  <1>4. CASE \/ \E n \in Nodes : Expire(n)
             \/ \E n \in Nodes, a \in Attempts : Authorize(n, a) \/ Work(n, a)
             \/ Issue
             \/ UNCHANGED vars
    <2>1. UNCHANGED <<checkpoints, hub>>
      BY <1>4 DEF Expire, Authorize, Work, Issue, vars
    <2> QED
      BY <2>1 DEF SlotInv, ParallelBounded, Slots, Planning, Running
  <1> QED
    BY <1>1, <1>2, <1>3, <1>4 DEF Next

\* No checkpoint has more delegations out than the plan, tenant and worker limits
\* allow, although select_ready counts once and delegates in later transactions.
THEOREM DelegationsBounded == Spec => []ParallelBounded
  <1>1. Init => BaseInv /\ SlotInv
    BY BaseInit, SlotInit
  <1>2. (BaseInv /\ SlotInv) /\ [Next]_vars => (BaseInv /\ SlotInv)'
    BY BaseStep, SlotStep
  <1>3. SlotInv => ParallelBounded
    BY DEF SlotInv
  <1> QED
    BY <1>1, <1>2, <1>3, PTL DEF Spec

-----------------------------------------------------------------------------
(* What an ended run knows of is fenced. *)

\* Delegations of run state s whose task, in table T, waits for a worker.
Pending(T, s) == {n \in Nodes : s.running[n] # 0 /\ T[n][s.running[n]] = "created"}

\* Run state t has every waiting delegation of s.
Covers(T, s, t) == \A n \in Pending(T, s) : t.running[n] = s.running[n]

\* What s has delegated was submitted.
Submitted(T, s) == \A n \in Nodes : s.running[n] # 0 => T[n][s.running[n]] # "absent"

StillIfEnded(s) == s.status \in {"failed", "cancelled"} => Running(s) = {}

\* A thread that ends the run has all delegations of its copy in hand, and has
\* cancelled their tasks before it fences; it delegates in a running run only.
FencedMemory(T, r) ==
    /\ StillIfEnded(r.st)
    /\ Submitted(T, r.st)
    /\ r.pc = "cancel" => r.fence = Running(r.st)
    /\ r.pc = "fence" => Pending(T, r.st) = {}
    /\ r.pc \in {"claim", "submit"} => r.st.status = "running"

\* Checkpoint s against the latest one, t.
SavedFenced(T, s, t) == StillIfEnded(s) /\ Submitted(T, s) /\ Covers(T, s, t)

\* A thread whose copy may still be saved has what the latest checkpoint, t,
\* is waiting for.
ThreadFenced(T, r, rev, t) ==
    /\ FencedMemory(T, r)
    /\ r.base # 0 /\ r.base = rev => Covers(T, t, r.st)

FenceInv ==
    /\ \A i \in DOMAIN checkpoints : SavedFenced(task, checkpoints[i].state, Latest)
    /\ \A h \in Hubs : ThreadFenced(task, hub[h], Revision, Latest)

\* No task is submitted twice or comes back.
Ages(T, T2) == \A n \in Nodes, a \in Attempts :
    T[n][a] # "absent" => T2[n][a] # "absent" /\ (T2[n][a] = "created" => T[n][a] = "created")

\* A step of thread h that drops no waiting delegation.
Fences(h) ==
    \E r2 : /\ Goto(h, r2)
            /\ FencedMemory(task', r2)
            /\ \/ r2.base = 0
               \/ r2.base = hub[h].base /\ Covers(task', hub[h].st, r2.st)
               \/ Covers(task', Latest, r2.st)

LEMMA Aged ==
    ASSUME NEW T, NEW T2, Ages(T, T2), NEW s \in RunState, Submitted(T, s)
    PROVE  Submitted(T2, s) /\ Pending(T2, s) \subseteq Pending(T, s)
  <1>1. \A n \in Nodes : s.running[n] # 0 => s.running[n] \in Attempts
    BY DEF RunState
  <1> QED
    BY <1>1 DEF Ages, Submitted, Pending

LEMMA StaysAged == Ages(task, task)
  BY DEF Ages

LEMMA SavedTyped ==
    ASSUME BaseInv, NEW i \in DOMAIN checkpoints
    PROVE  checkpoints[i].state \in RunState
  <1>1. checkpoints[i] \in CheckpointRow
    BY BaseTyped
  <1> QED
    BY <1>1 DEF CheckpointRow

\* A step of thread h that saves nothing.
LEMMA FenceMoves ==
    ASSUME BaseInv, FenceInv, NEW h \in Hubs, checkpoints' = checkpoints, Ages(task, task'),
           Fences(h)
    PROVE  FenceInv'
  <1>1. PICK r2 : /\ Goto(h, r2)
                  /\ FencedMemory(task', r2)
                  /\ \/ r2.base = 0
                     \/ r2.base = hub[h].base /\ Covers(task', hub[h].st, r2.st)
                     \/ Covers(task', Latest, r2.st)
    BY DEF Fences
  <1>2. hub'[h] = r2 /\ \A g \in Hubs \ {h} : hub'[g] = hub[g]
    BY <1>1, GoesTo
  <1>3. Revision' = Revision /\ Latest' = Latest
    BY DEF Revision, Latest
  <1>4. ASSUME NEW i \in DOMAIN checkpoints
        PROVE  SavedFenced(task', checkpoints[i].state, Latest)
    <2>1. SavedFenced(task, checkpoints[i].state, Latest)
      BY DEF FenceInv
    <2>2. /\ Submitted(task', checkpoints[i].state)
          /\ Pending(task', checkpoints[i].state) \subseteq Pending(task, checkpoints[i].state)
      BY <2>1, SavedTyped, Aged DEF SavedFenced
    <2> QED
      BY <2>1, <2>2 DEF SavedFenced, Covers
  <1>5. ASSUME NEW g \in Hubs, hub[g].base # 0, hub[g].base = Revision
        PROVE  Covers(task', Latest, hub[g].st)
    <2>1. Covers(task, Latest, hub[g].st)
      BY <1>5 DEF FenceInv, ThreadFenced
    <2>2. Revision > 0
      BY <1>5, BaseTyped
    <2>3. Latest \in RunState /\ Submitted(task, Latest)
      BY <2>2, LatestTyped DEF FenceInv, SavedFenced, Latest
    <2>4. Pending(task', Latest) \subseteq Pending(task, Latest)
      BY <2>3, Aged
    <2> QED
      BY <2>1, <2>4 DEF Covers
  <1>6. ASSUME NEW g \in Hubs
        PROVE  ThreadFenced(task', hub'[g], Revision, Latest)
    <2>1. CASE g = h
      <3>1. ASSUME r2.base # 0, r2.base = Revision
            PROVE  Covers(task', Latest, r2.st)
        <4>1. CASE r2.base = hub[h].base /\ Covers(task', hub[h].st, r2.st)
          <5>1. Covers(task', Latest, hub[h].st)
            BY <1>5, <3>1, <4>1
          <5> QED
            BY <4>1, <5>1 DEF Covers, Pending
        <4> QED
          BY <1>1, <3>1, <4>1
      <3> QED
        BY <1>1, <1>2, <2>1, <3>1 DEF ThreadFenced
    <2>2. CASE g # h
      <3>1. FencedMemory(task, hub[g]) /\ hub[g].st \in RunState
        BY HubTyped DEF FenceInv, ThreadFenced
      <3>2. Submitted(task', hub[g].st) /\ Pending(task', hub[g].st) \subseteq Pending(task, hub[g].st)
        BY <3>1, Aged DEF FencedMemory
      <3>3. FencedMemory(task', hub[g])
        BY <3>1, <3>2 DEF FencedMemory
      <3> QED
        BY <1>2, <1>5, <2>2, <3>3 DEF ThreadFenced
    <2> QED
      BY <2>1, <2>2
  <1> QED
    BY <1>3, <1>4, <1>6 DEF FenceInv

LEMMA RaiseFences == ASSUME NEW h \in Hubs, Raise(h) PROVE Fences(h)
  <1>1. Goto(h, Idle)
    BY DEF Raise, Goto
  <1>2. Idle.base = 0 /\ Idle.pc = "idle" /\ \A n \in Nodes : Idle.st.running[n] = 0
    BY DEF Idle, NewRun
  <1>3. FencedMemory(task', Idle)
    BY <1>2 DEF FencedMemory, StillIfEnded, Submitted, Running
  <1> QED
    BY <1>1, <1>2, <1>3 DEF Fences

\* A step of thread h that gives up answered delegations at most.
LEMMA GotoFences ==
    ASSUME BaseInv, FenceInv, NEW h \in Hubs, Ages(task, task'), NEW r2, Goto(h, r2),
           r2.base = hub[h].base,
           \A n \in Nodes : \/ r2.st.running[n] = hub[h].st.running[n]
                            \/ /\ r2.st.running[n] = 0
                               /\ task'[n][hub[h].st.running[n]] # "created",
           StillIfEnded(r2.st),
           r2.pc = "cancel" => r2.fence = Running(r2.st),
           r2.pc = "fence" => Pending(task', r2.st) = {},
           r2.pc \in {"claim", "submit"} => r2.st.status = "running"
    PROVE  Fences(h)
  <1>1. Submitted(task, hub[h].st) /\ hub[h].st \in RunState
    BY HubTyped DEF FenceInv, ThreadFenced, FencedMemory
  <1>2. Submitted(task', hub[h].st)
    BY <1>1, Aged
  <1>3. Submitted(task', r2.st)
    BY <1>2 DEF Submitted
  <1>4. Covers(task', hub[h].st, r2.st)
    BY DEF Covers, Pending
  <1>5. FencedMemory(task', r2)
    BY <1>3 DEF FencedMemory
  <1> QED
    BY <1>4, <1>5 DEF Fences

\* What a thread that goes on knows.
LEMMA FencedFacts ==
    ASSUME BaseInv, FenceInv, NEW h \in Hubs
    PROVE  FencedMemory(task, hub[h]) /\ StillIfEnded(hub[h].st)
  BY DEF FenceInv, ThreadFenced, FencedMemory

\* The run is failed, with the delegations it has.
LEMMA FailFences ==
    ASSUME BaseInv, FenceInv, NEW h \in Hubs, UNCHANGED task, NEW r \in HubState,
           NEW th \in {"save", "dispatch"}, Goto(h, FailRun(r, th)), r.base = hub[h].base,
           \A n \in Nodes : \/ r.st.running[n] = hub[h].st.running[n]
                            \/ r.st.running[n] = 0 /\ task[n][hub[h].st.running[n]] # "created",
           StillIfEnded(r.st)
    PROVE  Fences(h)
  <1>1. PICK r2 : r2 = FailRun(r, th)
    OBVIOUS
  <1>2. r2.pc = "cancel" /\ r2.st = r.st /\ r2.base = r.base /\ r2.fence = Running(r.st)
    BY <1>1 DEF FailRun, HubState
  <1>3. Ages(task, task')
    BY StaysAged
  <1>4. Goto(h, r2)
    BY <1>1
  <1> QED
    BY <1>2, <1>3, <1>4, GotoFences

\* Steps that leave the delegations and the status of the copy alone.
LEMMA SameFences ==
    ASSUME BaseInv, FenceInv, NEW h \in Hubs, Ages(task, task'), NEW r2, Goto(h, r2),
           r2.base = hub[h].base, r2.st.running = hub[h].st.running,
           r2.st.status \in {"failed", "cancelled"} => r2.st.status = hub[h].st.status,
           r2.pc = "cancel" => r2.fence = Running(r2.st),
           r2.pc = "fence" => Pending(task', r2.st) = {},
           r2.pc \in {"claim", "submit"} => r2.st.status = "running"
    PROVE  Fences(h)
  <1>1. StillIfEnded(r2.st)
    BY FencedFacts, SameRunning DEF StillIfEnded
  <1> QED
    BY <1>1, GotoFences

LEMMA PollFences ==
    ASSUME BaseInv, FenceInv, NEW h \in Hubs, Poll(h) PROVE Fences(h)
  <1>1. hub[h] \in HubState
    BY HubTyped
  <1>2. PICK d : Goto(h, [hub[h] EXCEPT !.pc = "collect", !.todo = d])
    BY DEF Poll
  <1> DEFINE r2 == [hub[h] EXCEPT !.pc = "collect", !.todo = d]
  <1>3. r2.pc = "collect" /\ r2.st = hub[h].st /\ r2.base = hub[h].base
    BY <1>1 DEF HubState
  <1>4. Goto(h, r2)
    BY <1>2
  <1> HIDE DEF r2
  <1>5. Ages(task, task')
    BY StaysAged DEF Poll
  <1> QED
    BY <1>3, <1>4, <1>5, SameFences

\* A collected result was reported: its task waits no longer.
LEMMA CollectedFences ==
    ASSUME BaseInv, NEW h \in Hubs, NEW n \in Nodes, NEW st2, st2 = Collected(hub[h].st, n),
           task[n][hub[h].st.running[n]] # "created"
    PROVE  /\ st2 \in RunState /\ st2.status = hub[h].st.status
           /\ Running(st2) \subseteq Running(hub[h].st)
           /\ \A m \in Nodes : \/ st2.running[m] = hub[h].st.running[m]
                               \/ st2.running[m] = 0 /\ task[m][hub[h].st.running[m]] # "created"
  <1> DEFINE st == hub[h].st
             run2 == [st.running EXCEPT ![n] = 0]
  <1>1. st \in RunState /\ SoundState(st)
    BY HubTyped
  <1>2. st2 \in RunState /\ Running(st2) \subseteq Running(st)
    BY <1>1, CollectedOK
  <1>3. \A m \in Nodes : run2[m] = IF m = n THEN 0 ELSE st.running[m]
    BY <1>1 DEF RunState
  <1>4. st2 = [st EXCEPT !.running = run2]
    BY DEF Collected
  <1> HIDE DEF run2, st
  <1>5. st2.running = run2 /\ st2.status = st.status
    BY <1>1, <1>4 DEF RunState
  <1> QED
    BY <1>2, <1>3, <1>5 DEF st

LEMMA CollectCompletedFences ==
    ASSUME BaseInv, FenceInv, NEW h \in Hubs, CollectCompleted(h) PROVE Fences(h)
  <1>1. hub[h] \in HubState /\ hub[h].st \in RunState
    BY HubTyped
  <1>2. hub[h].pc = "collect" /\ hub[h].todo # {}
    BY DEF CollectCompleted, At
  <1> DEFINE n == Min(hub[h].todo)
             st1 == Collected(hub[h].st, n)
             st2 == Completes(st1, n)
             out == CompletionEvents(n, hub[h].st.running[n])
             r2 == [hub[h] EXCEPT !.todo = @ \ {n}, !.st = st2, !.out = out]
  <1>3. Raise(h) \/ Goto(h, r2)
    BY DEF CollectCompleted
  <1>4. n \in Nodes /\ task[n][hub[h].st.running[n]] # "created" /\ UNCHANGED task
    BY <1>1, <1>2, FirstNode DEF HubState, CollectCompleted
  <1> HIDE DEF n
  <1>5. /\ st1 \in RunState /\ st1.status = hub[h].st.status
        /\ Running(st1) \subseteq Running(hub[h].st)
        /\ \A m \in Nodes : \/ st1.running[m] = hub[h].st.running[m]
                            \/ st1.running[m] = 0 /\ task[m][hub[h].st.running[m]] # "created"
    BY <1>4, CollectedFences
  <1> HIDE DEF st1
  <1>6. st2.running = st1.running /\ st2.status = st1.status
    BY <1>5 DEF Completes, RunState
  <1> HIDE DEF st2, out
  <1>7. r2.st = st2 /\ r2.pc = "collect" /\ r2.base = hub[h].base
    BY <1>1, <1>2 DEF HubState
  <1> HIDE DEF r2
  <1>8. StillIfEnded(r2.st)
    BY <1>5, <1>6, <1>7, FencedFacts, SameRunning DEF StillIfEnded
  <1>9. Ages(task, task')
    BY <1>4, StaysAged
  <1>10. \A m \in Nodes : \/ r2.st.running[m] = hub[h].st.running[m]
                          \/ r2.st.running[m] = 0 /\ task'[m][hub[h].st.running[m]] # "created"
    BY <1>4, <1>5, <1>6, <1>7
  <1>11. CASE Goto(h, r2)
    BY <1>7, <1>8, <1>9, <1>10, <1>11, GotoFences
  <1> QED
    BY <1>3, <1>11, RaiseFences

LEMMA CollectFailedFences ==
    ASSUME BaseInv, FenceInv, NEW h \in Hubs, CollectFailed(h) PROVE Fences(h)
  <1>1. hub[h] \in HubState /\ hub[h].st \in RunState
    BY HubTyped
  <1>2. hub[h].pc = "collect" /\ hub[h].todo # {}
    BY DEF CollectFailed, At
  <1> DEFINE n == Min(hub[h].todo)
             a == hub[h].st.running[n]
             st1 == Collected(hub[h].st, n)
             st2 == Fails(st1, n)
             e1 == Event("retry", n, a)
             e2 == Event("failed", n, a)
             again == [hub[h] EXCEPT !.todo = @ \ {n}, !.st = st1, !.out = <<e1>>]
             failing == [hub[h] EXCEPT !.todo = @ \ {n}, !.st = st2, !.out = <<e2>>]
  <1>3. Raise(h) \/ Goto(h, again) \/ Goto(h, failing) \/ Goto(h, FailRun(failing, "save"))
    BY DEF CollectFailed
  <1>4. n \in Nodes /\ task[n][hub[h].st.running[n]] # "created" /\ UNCHANGED task
    BY <1>1, <1>2, FirstNode DEF HubState, CollectFailed
  <1> HIDE DEF n
  <1>5. /\ st1 \in RunState /\ st1.status = hub[h].st.status
        /\ Running(st1) \subseteq Running(hub[h].st)
        /\ \A m \in Nodes : \/ st1.running[m] = hub[h].st.running[m]
                            \/ st1.running[m] = 0 /\ task[m][hub[h].st.running[m]] # "created"
    BY <1>4, CollectedFences
  <1> HIDE DEF st1
  <1>6. st2 \in RunState /\ st2.running = st1.running /\ st2.status = st1.status
    BY <1>4, <1>5 DEF Fails, RunState
  <1>7. <<e2>> \in Seq(EventRow)
    <2>1. a \in Nat
      BY <1>1, <1>4, PlanAssumption DEF RunState, Attempts
    <2>2. e2 \in EventRow
      BY <1>4, <2>1 DEF Event, EventRow, EventKinds
    <2> QED
      BY <2>2
  <1> HIDE DEF st2, e1, e2
  <1>8. again.st = st1 /\ again.pc = "collect" /\ again.base = hub[h].base
    BY <1>1, <1>2 DEF HubState
  <1>9. failing \in HubState /\ failing.st = st2 /\ failing.pc = "collect"
            /\ failing.base = hub[h].base
    BY <1>1, <1>2, <1>6, <1>7 DEF HubState
  <1> HIDE DEF again, failing
  <1>10. StillIfEnded(st1) /\ StillIfEnded(st2)
    BY <1>5, <1>6, FencedFacts, SameRunning DEF StillIfEnded
  <1>11. Ages(task, task')
    BY <1>4, StaysAged
  <1>12. ASSUME NEW r2, Goto(h, r2), r2.st = st1 \/ r2.st = st2, r2.pc = "collect",
                r2.base = hub[h].base
         PROVE  Fences(h)
    <2>1. \A m \in Nodes : \/ r2.st.running[m] = hub[h].st.running[m]
                           \/ r2.st.running[m] = 0 /\ task'[m][hub[h].st.running[m]] # "created"
      BY <1>4, <1>5, <1>6, <1>12
    <2>2. StillIfEnded(r2.st)
      BY <1>10, <1>12
    <2> QED
      BY <1>11, <1>12, <2>1, <2>2, GotoFences
  <1>13. CASE Goto(h, FailRun(failing, "save"))
    BY <1>4, <1>5, <1>6, <1>9, <1>10, <1>13, FailFences
  <1> QED
    BY <1>3, <1>8, <1>9, <1>12, <1>13, RaiseFences

LEMMA SkipFences ==
    ASSUME BaseInv, FenceInv, NEW h \in Hubs, Skip(h) PROVE Fences(h)
  <1>1. hub[h] \in HubState /\ hub[h].st \in RunState
    BY HubTyped
  <1>2. hub[h].pc = "collect" /\ UNCHANGED task
    BY DEF Skip, At
  <1> DEFINE n == Min(Unrouted(hub[h].st))
             st2 == Skips(hub[h].st, n)
             e == Event("skipped", n, 0)
             r2 == [hub[h] EXCEPT !.st = st2, !.out = <<e>>]
  <1>3. Goto(h, FailRun(hub[h], "save")) \/ Goto(h, r2)
    BY DEF Skip
  <1> HIDE DEF n, e
  <1>4. st2.running = hub[h].st.running /\ st2.status = hub[h].st.status
    BY <1>1 DEF Skips, RunState
  <1> HIDE DEF st2
  <1>5. r2.st = st2 /\ r2.pc = "collect" /\ r2.base = hub[h].base
    BY <1>1, <1>2 DEF HubState
  <1> HIDE DEF r2
  <1>6. Ages(task, task')
    BY <1>2, StaysAged
  <1>7. CASE Goto(h, r2)
    BY <1>4, <1>5, <1>6, <1>7, SameFences
  <1>8. CASE Goto(h, FailRun(hub[h], "save"))
    BY <1>1, <1>2, <1>8, FencedFacts, FailFences
  <1> QED
    BY <1>3, <1>7, <1>8

LEMMA MergeFences ==
    ASSUME BaseInv, FenceInv, NEW h \in Hubs, Merge(h) PROVE Fences(h)
  <1>1. hub[h] \in HubState /\ hub[h].st \in RunState
    BY HubTyped
  <1>2. Mergeable(hub[h].st) # {} /\ UNCHANGED task
    BY DEF Merge
  <1> DEFINE n == Min(Mergeable(hub[h].st))
             st1 == Completes(hub[h].st, n)
             st2 == Fails(hub[h].st, n)
             e == Event("merged", n, 0)
             r1 == [hub[h] EXCEPT !.pc = "merge", !.st = st1, !.out = <<e>>]
             r2 == [hub[h] EXCEPT !.st = st2]
  <1>3. Goto(h, r1) \/ Goto(h, FailRun(r2, "save"))
    BY DEF Merge
  <1>4. n \in Nodes
    <2>1. Mergeable(hub[h].st) \in SUBSET Nodes
      BY DEF Mergeable
    <2> QED
      BY <1>2, <2>1, FirstNode
  <1> HIDE DEF n, e
  <1>5. st1.running = hub[h].st.running /\ st1.status = hub[h].st.status
    BY <1>1 DEF Completes, RunState
  <1>6. st2 \in RunState /\ st2.running = hub[h].st.running /\ st2.status = hub[h].st.status
    BY <1>1, <1>4 DEF Fails, RunState
  <1> HIDE DEF st1, st2
  <1>7. r1.st = st1 /\ r1.pc = "merge" /\ r1.base = hub[h].base
    BY <1>1 DEF HubState
  <1>8. r2 \in HubState /\ r2.st = st2 /\ r2.base = hub[h].base
    BY <1>1, <1>6 DEF HubState
  <1> HIDE DEF r1, r2
  <1>9. Ages(task, task')
    BY <1>2, StaysAged
  <1>10. CASE Goto(h, r1)
    BY <1>5, <1>7, <1>9, <1>10, SameFences
  <1>11. StillIfEnded(r2.st)
    BY <1>6, <1>8, FencedFacts, SameRunning DEF StillIfEnded
  <1>12. CASE Goto(h, FailRun(r2, "save"))
    BY <1>2, <1>6, <1>8, <1>11, <1>12, FailFences
  <1> QED
    BY <1>3, <1>10, <1>12

LEMMA SelectFences ==
    ASSUME BaseInv, FenceInv, NEW h \in Hubs, Select(h) PROVE Fences(h)
  <1>1. hub[h] \in HubState
    BY HubTyped
  <1>2. PICK b : Goto(h, [hub[h] EXCEPT !.pc = "dispatch", !.todo = b])
    BY DEF Select
  <1> DEFINE r2 == [hub[h] EXCEPT !.pc = "dispatch", !.todo = b]
  <1>3. r2.pc = "dispatch" /\ r2.st = hub[h].st /\ r2.base = hub[h].base
    BY <1>1 DEF HubState
  <1>4. Goto(h, r2)
    BY <1>2
  <1> HIDE DEF r2
  <1>5. Ages(task, task')
    BY StaysAged DEF Select
  <1> QED
    BY <1>3, <1>4, <1>5, SameFences

\* Opening a gate ends no run.
LEMMA GateWaits ==
    ASSUME NEW r \in HubState, NEW n \in Nodes, NEW r2, r2 = OpenGate(r, n)
    PROVE  /\ r2.base = r.base
           /\ r2.st.status \in {"failed", "cancelled"} => r2.st.status = r.st.status
  <1> DEFINE st3 == Opens(r.st, n, "paused")
             st4 == Opens(r.st, n, "waiting_for_approval")
             e1 == Event("requested", n, 0)
             e2 == Event("gate_paused", n, 0)
             r3 == [r EXCEPT !.st = st3, !.out = <<e1, e2>>]
             r4 == [r EXCEPT !.st = st4, !.out = <<e1>>]
  <1>1. r2 = r \/ r2 = r3 \/ r2 = r4
    BY DEF OpenGate
  <1>2. st3.status = "paused" /\ st4.status = "waiting_for_approval"
    BY DEF Opens, HubState, RunState
  <1> HIDE DEF st3, st4, e1, e2
  <1>3. r3.st = st3 /\ r3.base = r.base /\ r4.st = st4 /\ r4.base = r.base
    BY DEF HubState
  <1> QED
    BY <1>1, <1>2, <1>3

\* A task node is taken in hand only while the run is running.
LEMMA DispatchFences ==
    ASSUME BaseInv, FenceInv, NEW h \in Hubs, Dispatch(h) PROVE Fences(h)
  <1>1. hub[h] \in HubState /\ hub[h].st \in RunState
    BY HubTyped
  <1>2. hub[h].pc = "dispatch" /\ hub[h].out = <<>> /\ hub[h].todo # {} /\ UNCHANGED task
    BY DEF Dispatch, At
  <1> DEFINE n == Min(hub[h].todo)
             rest == [hub[h] EXCEPT !.todo = @ \ {n}]
             st2 == Completes(hub[h].st, n)
             e == Event("checkpoint_node", n, 0)
             done == [hub[h] EXCEPT !.todo = @ \ {n}, !.st = st2, !.out = <<e>>]
             claim == [rest EXCEPT !.pc = "claim", !.node = n]
  <1>3. \/ Goto(h, rest)
        \/ Goto(h, OpenGate(rest, n))
        \/ Goto(h, done)
        \/ Goto(h, FailRun(hub[h], "save"))
        \/ hub[h].st.status = "running" /\ Goto(h, claim)
    BY DEF Dispatch
  <1>4. n \in Nodes
    BY <1>1, <1>2, FirstNode DEF HubState
  <1> HIDE DEF n, e
  <1>5. /\ rest \in HubState /\ rest.st = hub[h].st /\ rest.pc = "dispatch"
        /\ rest.base = hub[h].base
    BY <1>1, <1>2 DEF HubState
  <1> HIDE DEF rest
  <1>6. claim.st = hub[h].st /\ claim.pc = "claim" /\ claim.base = hub[h].base
    BY <1>5 DEF HubState
  <1>7. st2.running = hub[h].st.running /\ st2.status = hub[h].st.status
    BY <1>1 DEF Completes, RunState
  <1> HIDE DEF st2, claim
  <1>8. done.st = st2 /\ done.pc = "dispatch" /\ done.base = hub[h].base
    BY <1>1, <1>2 DEF HubState
  <1> HIDE DEF done
  <1>9. Ages(task, task')
    BY <1>2, StaysAged
  <1>10. CASE Goto(h, OpenGate(rest, n))
    <2>1. PICK r2 : r2 = OpenGate(rest, n)
      OBVIOUS
    <2>2. r2.pc = rest.pc /\ r2.st.running = rest.st.running
      BY <1>4, <1>5, <2>1, GateOpens
    <2>3. /\ r2.base = rest.base
          /\ r2.st.status \in {"failed", "cancelled"} => r2.st.status = rest.st.status
      BY <1>4, <1>5, <2>1, GateWaits
    <2> QED
      BY <1>5, <1>9, <1>10, <2>1, <2>2, <2>3, SameFences
  <1>11. CASE Goto(h, FailRun(hub[h], "save"))
    BY <1>1, <1>2, <1>11, FencedFacts, FailFences
  <1>12. CASE Goto(h, rest)
    BY <1>5, <1>9, <1>12, SameFences
  <1>13. CASE Goto(h, done)
    BY <1>7, <1>8, <1>9, <1>13, SameFences
  <1>14. CASE hub[h].st.status = "running" /\ Goto(h, claim)
    BY <1>6, <1>9, <1>14, SameFences
  <1> QED
    BY <1>3, <1>10, <1>11, <1>12, <1>13, <1>14

LEMMA ClaimFences ==
    ASSUME BaseInv, FenceInv, NEW h \in Hubs, Claim(h) PROVE Fences(h)
  <1>1. hub[h] \in HubState /\ hub[h].st \in RunState
    BY HubTyped
  <1>2. hub[h].pc = "claim" /\ UNCHANGED task
    BY DEF Claim, At
  <1> DEFINE n == hub[h].node
             back == [hub[h] EXCEPT !.pc = "dispatch", !.node = 0]
             st2 == Attempted(hub[h].st, n)
             tok == owner[n].token + 1
             r2 == [hub[h] EXCEPT !.pc = "submit", !.token = tok, !.st = st2]
  <1>3. Raise(h) \/ Goto(h, FailRun(back, "dispatch")) \/ Goto(h, r2)
    BY DEF Claim
  <1>4. back \in HubState /\ back.st = hub[h].st /\ back.base = hub[h].base
    BY <1>1 DEF HubState
  <1>5. st2.running = hub[h].st.running /\ st2.status = hub[h].st.status
    <2>1. PICK more : more = [hub[h].st.attempts EXCEPT ![n] = @ + 1]
      OBVIOUS
    <2>2. st2 = [hub[h].st EXCEPT !.attempts = more]
      BY <2>1 DEF Attempted
    <2> HIDE DEF st2
    <2> QED
      BY <1>1, <2>2 DEF RunState
  <1> HIDE DEF back, st2, tok
  <1>6. r2.st = st2 /\ r2.pc = "submit" /\ r2.base = hub[h].base
    BY <1>1 DEF HubState
  <1> HIDE DEF r2
  <1>7. hub[h].st.status = "running" /\ StillIfEnded(hub[h].st)
    BY <1>2, FencedFacts DEF FencedMemory
  <1>8. CASE Goto(h, FailRun(back, "dispatch"))
    BY <1>2, <1>4, <1>7, <1>8, FailFences
  <1>9. CASE Goto(h, r2)
    <2>1. Ages(task, task')
      BY <1>2, StaysAged
    <2> QED
      BY <1>5, <1>6, <1>7, <1>9, <2>1, SameFences
  <1> QED
    BY <1>3, <1>8, <1>9, RaiseFences

LEMMA RefuseFences ==
    ASSUME BaseInv, FenceInv, NEW h \in Hubs, Refuse(h) PROVE Fences(h)
  <1>1. hub[h] \in HubState
    BY HubTyped
  <1> DEFINE back == [hub[h] EXCEPT !.pc = "dispatch", !.node = 0]
  <1>2. Goto(h, FailRun(back, "dispatch")) /\ UNCHANGED task
    BY DEF Refuse
  <1>3. back \in HubState /\ back.st = hub[h].st /\ back.base = hub[h].base
    BY <1>1 DEF HubState
  <1> HIDE DEF back
  <1> QED
    BY <1>2, <1>3, FencedFacts, FailFences

\* A submitted task is new, so no run state has it as delegated, and its node had
\* no delegation in the copy.
LEMMA SubmitFences ==
    ASSUME BaseInv, OwnInv, FenceInv, NEW h \in Hubs, Submit(h), Orderly(hub[h])
    PROVE  Fences(h) /\ Ages(task, task')
  <1>1. hub[h] \in HubState /\ hub[h].st \in RunState /\ SoundMemory(hub[h])
    BY HubTyped
  <1>2. hub[h].pc = "submit"
    BY DEF Submit, At
  <1> DEFINE n == hub[h].node
             a == hub[h].token
             run2 == [hub[h].st.running EXCEPT ![n] = a]
             st2 == Delegated(hub[h].st, n, a)
             e == Event("delegated", n, a)
             r2 == [hub[h] EXCEPT !.pc = "dispatch", !.node = 0, !.token = 0, !.st = st2,
                                  !.out = <<e>>]
  <1>3. Goto(h, r2) /\ task' = [task EXCEPT ![n][a] = "created"]
    BY DEF Submit
  <1>4. n \in Nodes /\ a \in Attempts /\ task[n][a] = "absent"
    BY <1>2, OwnFacts
  <1>5. hub[h].st.running[n] = 0 /\ hub[h].st.status = "running"
    BY <1>2, FencedFacts DEF Orderly, FencedMemory
  <1>6. \A m \in Nodes : run2[m] = IF m = n THEN a ELSE hub[h].st.running[m]
    BY <1>1 DEF RunState
  <1>7. st2.running = run2 /\ st2.status = hub[h].st.status
    <2>1. st2 = [hub[h].st EXCEPT !.running = run2]
      BY DEF Delegated
    <2> HIDE DEF st2, run2
    <2> QED
      BY <1>1, <2>1 DEF RunState
  <1> HIDE DEF run2, e
  <1>8. \A m \in Nodes, b \in Attempts :
            task'[m][b] = IF m = n /\ b = a THEN "created" ELSE task[m][b]
    BY <1>3, <1>4, BaseTyped
  <1>9. Ages(task, task')
    BY <1>4, <1>8 DEF Ages
  <1>10. Submitted(task', hub[h].st)
    BY <1>1, <1>9, Aged, FencedFacts DEF FencedMemory
  <1>11. Submitted(task', st2)
    BY <1>4, <1>6, <1>7, <1>8, <1>10 DEF Submitted
  <1>12. Covers(task', hub[h].st, st2)
    BY <1>5, <1>6, <1>7 DEF Covers, Pending
  <1> HIDE DEF st2
  <1>13. r2.st = st2 /\ r2.pc = "dispatch" /\ r2.base = hub[h].base
    BY <1>1 DEF HubState
  <1> HIDE DEF r2
  <1>14. FencedMemory(task', r2)
    BY <1>5, <1>7, <1>11, <1>13 DEF FencedMemory, StillIfEnded
  <1> QED
    BY <1>3, <1>9, <1>12, <1>13, <1>14 DEF Fences

\* The tasks of all delegations are cancelled, ...
LEMMA CancelFences ==
    ASSUME BaseInv, FenceInv, NEW h \in Hubs, CancelTask(h)
    PROVE  Fences(h) /\ Ages(task, task')
  <1>1. hub[h] \in HubState /\ hub[h].st \in RunState
    BY HubTyped
  <1>2. hub[h].fence = Running(hub[h].st)
    BY FencedFacts DEF FencedMemory, CancelTask, At
  <1> DEFINE r2 == [hub[h] EXCEPT !.pc = "fence"]
  <1>3. Goto(h, r2)
    BY DEF CancelTask
  <1>4. \A n \in Nodes, a \in Attempts :
            task'[n][a] = IF n \in hub[h].fence /\ hub[h].st.running[n] = a /\ task[n][a] = "created"
                          THEN "cancelled" ELSE task[n][a]
    BY DEF CancelTask
  <1>5. Ages(task, task')
    BY <1>4 DEF Ages
  <1>6. Pending(task', hub[h].st) = {}
    <2>1. \A n \in Nodes : hub[h].st.running[n] # 0 =>
              hub[h].st.running[n] \in Attempts /\ n \in hub[h].fence
      BY <1>1, <1>2 DEF RunState, Running
    <2> QED
      BY <1>4, <2>1 DEF Pending
  <1>7. r2.pc = "fence" /\ r2.st = hub[h].st /\ r2.base = hub[h].base
    BY <1>1 DEF HubState
  <1> HIDE DEF r2
  <1> QED
    BY <1>3, <1>5, <1>6, <1>7, SameFences

LEMMA FenceFences ==
    ASSUME BaseInv, FenceInv, NEW h \in Hubs, Fence(h) PROVE Fences(h)
  <1>1. hub[h] \in HubState
    BY HubTyped
  <1>2. PICK f : Goto(h, [hub[h] EXCEPT !.fence = f])
    BY DEF Fence
  <1>3. hub[h].pc = "fence" /\ UNCHANGED task
    BY DEF Fence, At
  <1> DEFINE r2 == [hub[h] EXCEPT !.fence = f]
  <1>4. r2.pc = "fence" /\ r2.st = hub[h].st /\ r2.base = hub[h].base
    BY <1>1, <1>3 DEF HubState
  <1>5. Goto(h, r2)
    BY <1>2
  <1> HIDE DEF r2
  <1>6. Pending(task', r2.st) = {}
    BY <1>3, <1>4, FencedFacts DEF FencedMemory
  <1>7. Ages(task, task')
    BY <1>3, StaysAged
  <1> QED
    BY <1>4, <1>5, <1>6, <1>7, SameFences

\* ... so none waits when the delegations are dropped.
LEMMA EndRunFences ==
    ASSUME BaseInv, FenceInv, NEW h \in Hubs, EndRun(h) PROVE Fences(h)
  <1>1. hub[h] \in HubState /\ hub[h].st \in RunState
    BY HubTyped
  <1>2. hub[h].pc = "fence" /\ UNCHANGED task
    BY DEF EndRun, At
  <1> DEFINE status == IF hub[h].why = "run_failed" THEN "failed" ELSE "cancelled"
             none == [n \in Nodes |-> 0]
             st2 == Stops(hub[h].st, status)
             tag == IF hub[h].why = "run_failed" THEN hub[h].st.seq + 1 ELSE hub[h].cmd
             e == Event(hub[h].why, 0, tag)
             r2 == [hub[h] EXCEPT !.pc = hub[h].then, !.st = st2, !.out = <<e>>]
  <1>3. Goto(h, r2)
    BY DEF EndRun
  <1>4. hub[h].then \in {"save", "dispatch"}
    BY <1>1 DEF HubState
  <1>5. \A n \in Nodes : none[n] = 0
    OBVIOUS
  <1> HIDE DEF status, tag, e
  <1>6. st2.running = none
    <2>1. st2 = [hub[h].st EXCEPT !.running = none, !.status = status]
      BY DEF Stops
    <2> HIDE DEF st2, none
    <2> QED
      BY <1>1, <2>1 DEF RunState
  <1> HIDE DEF st2
  <1>7. r2.st = st2 /\ r2.pc = hub[h].then /\ r2.base = hub[h].base
    BY <1>1 DEF HubState
  <1> HIDE DEF r2, none
  <1>8. Pending(task, hub[h].st) = {}
    BY <1>2, FencedFacts DEF FencedMemory
  <1>9. \A n \in Nodes : \/ r2.st.running[n] = hub[h].st.running[n]
                         \/ r2.st.running[n] = 0 /\ task'[n][hub[h].st.running[n]] # "created"
    BY <1>2, <1>5, <1>6, <1>7, <1>8 DEF Pending
  <1>10. StillIfEnded(r2.st)
    BY <1>5, <1>6, <1>7 DEF StillIfEnded, Running
  <1>11. Ages(task, task')
    BY <1>2, StaysAged
  <1> QED
    BY <1>3, <1>4, <1>7, <1>9, <1>10, <1>11, GotoFences

LEMMA FinishFences ==
    ASSUME BaseInv, FenceInv, NEW h \in Hubs, Finish(h) PROVE Fences(h)
  <1>1. hub[h] \in HubState /\ hub[h].st \in RunState
    BY HubTyped
  <1> DEFINE r1 == [hub[h] EXCEPT !.pc = "save"]
             st2 == [hub[h].st EXCEPT !.status = "completed"]
             e == Event("run_completed", 0, 0)
             r2 == [hub[h] EXCEPT !.pc = "save", !.st = st2, !.out = <<e>>]
  <1>2. Goto(h, r1) \/ Goto(h, FailRun(hub[h], "save")) \/ Goto(h, r2)
    BY DEF Finish
  <1>3. st2.running = hub[h].st.running /\ st2.status = "completed"
    BY <1>1 DEF RunState
  <1> HIDE DEF st2, e
  <1>4. /\ r1.st = hub[h].st /\ r1.pc = "save" /\ r1.base = hub[h].base
        /\ r2.st = st2 /\ r2.pc = "save" /\ r2.base = hub[h].base
    BY <1>1 DEF HubState
  <1> HIDE DEF r1, r2
  <1>5. Ages(task, task') /\ UNCHANGED task
    BY StaysAged DEF Finish
  <1>6. CASE Goto(h, r1)
    BY <1>4, <1>5, <1>6, SameFences
  <1>7. CASE Goto(h, r2)
    BY <1>3, <1>4, <1>5, <1>7, SameFences
  <1>8. CASE Goto(h, FailRun(hub[h], "save"))
    BY <1>1, <1>5, <1>8, FencedFacts, FailFences
  <1> QED
    BY <1>2, <1>6, <1>7, <1>8

LEMMA SaveFences ==
    ASSUME BaseInv, FenceInv, NEW h \in Hubs, Save(h) PROVE Fences(h)
  <1>1. hub[h] \in HubState /\ hub[h].st \in RunState
    BY HubTyped
  <1>2. PICK k, l, o : Goto(h, [hub[h] EXCEPT !.pc = "store", !.token = k,
                                              !.st = [@ EXCEPT !.last = l], !.out = o])
    BY DEF Save
  <1> DEFINE st2 == [hub[h].st EXCEPT !.last = l]
             r2 == [hub[h] EXCEPT !.pc = "store", !.token = k, !.st = st2, !.out = o]
  <1>3. Goto(h, r2)
    BY <1>2
  <1>4. st2.running = hub[h].st.running /\ st2.status = hub[h].st.status
    BY <1>1 DEF RunState
  <1> HIDE DEF st2
  <1>5. r2.st = st2 /\ r2.pc = "store" /\ r2.base = hub[h].base
    BY <1>1 DEF HubState
  <1> HIDE DEF r2
  <1>6. Ages(task, task')
    BY StaysAged DEF Save
  <1> QED
    BY <1>3, <1>4, <1>5, <1>6, SameFences

LEMMA EmitFences ==
    ASSUME BaseInv, FenceInv, NEW h \in Hubs, Emit(h) PROVE Fences(h)
  <1>1. hub[h] \in HubState /\ hub[h].st \in RunState
    BY HubTyped
  <1>2. PICK o, k : \/ Raise(h)
                    \/ Goto(h, [hub[h] EXCEPT !.out = o, !.st = [@ EXCEPT !.seq = k]])
    BY DEF Emit
  <1> DEFINE st2 == [hub[h].st EXCEPT !.seq = k]
             r2 == [hub[h] EXCEPT !.out = o, !.st = st2]
  <1>3. Raise(h) \/ Goto(h, r2)
    BY <1>2
  <1>4. st2.running = hub[h].st.running /\ st2.status = hub[h].st.status
    BY <1>1 DEF RunState
  <1> HIDE DEF st2
  <1>5. /\ r2.st = st2 /\ r2.pc = hub[h].pc /\ r2.base = hub[h].base
        /\ r2.fence = hub[h].fence
    BY <1>1 DEF HubState
  <1> HIDE DEF r2
  <1>6. Running(r2.st) = Running(hub[h].st) /\ Pending(task, r2.st) = Pending(task, hub[h].st)
    BY <1>4, <1>5 DEF Running, Pending
  <1>7. Ages(task, task') /\ UNCHANGED task
    BY StaysAged DEF Emit
  <1>8. /\ r2.pc = "cancel" => r2.fence = Running(r2.st)
        /\ r2.pc = "fence" => Pending(task', r2.st) = {}
        /\ r2.pc \in {"claim", "submit"} => r2.st.status = "running"
    BY <1>4, <1>5, <1>6, <1>7, FencedFacts DEF FencedMemory
  <1>9. CASE Goto(h, r2)
    BY <1>4, <1>5, <1>7, <1>8, <1>9, SameFences
  <1> QED
    BY <1>3, <1>9, RaiseFences

\* A command brings no run to its end in memory before its delegations are fenced.
LEMMA AppliedEnds ==
    ASSUME NEW st \in RunState, NEW c, NEW x \in Applied(st, c)
    PROVE  x.st.status \in {"failed", "cancelled"} => x.st.status = st.status
  <1> DEFINE n == commands[c].step
             s1 == [st EXCEPT !.status = "running"]
             s2 == [st EXCEPT !.open = @ \ {n}, !.failed = @ \cup {n}]
             s3 == [st EXCEPT !.approved = @ \cup {n}, !.open = @ \ {n}, !.status = "running"]
             s4 == [st EXCEPT !.status = "paused"]
             s5 == [st EXCEPT !.failed = IF n = 0 THEN {} ELSE @ \ {n}, !.status = "running"]
  <1>1. x.st \in {s1, s2, s3, s4, s5, st}
    BY DEF Applied
  <1> HIDE DEF n
  <1>2. s1.status = "running" /\ s2.status = st.status /\ s3.status = "running"
    BY DEF RunState
  <1>3. s4.status = "paused" /\ s5.status = "running"
    <2>1. PICK f : f = IF n = 0 THEN {} ELSE st.failed \ {n}
      OBVIOUS
    <2>2. s5 = [st EXCEPT !.failed = f, !.status = "running"]
      BY <2>1
    <2> HIDE DEF s5
    <2> QED
      BY <2>2 DEF RunState
  <1> QED
    BY <1>1, <1>2, <1>3

\* An operation begins with the delegations of the checkpoint it loads.
LEMMA LoadFences ==
    ASSUME BaseInv, FenceInv, NEW h \in Hubs,
           Start(h) \/ Advance(h) \/ \E c \in DOMAIN commands : Resume(h, c)
    PROVE  Fences(h) /\ UNCHANGED <<task, checkpoints>>
  <1>1. UNCHANGED <<task, checkpoints>>
    BY DEF Start, Advance, Resume
  <1>2. Revision > 0 => Latest \in RunState /\ StillIfEnded(Latest) /\ Submitted(task, Latest)
    BY LatestTyped DEF FenceInv, SavedFenced, Latest
  <1>3. Idle \in HubState /\ Idle.st = NewRun /\ Idle.base = 0
    BY IdleOK
  <1>4. CASE Start(h)
    <2> DEFINE e == Event("started", 0, 0)
               r2 == [Idle EXCEPT !.pc = "poll", !.out = <<e>>]
    <2>1. Goto(h, r2)
      BY <1>4 DEF Start
    <2> HIDE DEF e
    <2>2. r2.pc = "poll" /\ r2.st = NewRun /\ r2.base = 0
      BY <1>3 DEF HubState
    <2> HIDE DEF r2
    <2>3. \A n \in Nodes : NewRun.running[n] = 0
      BY DEF NewRun
    <2>4. FencedMemory(task', r2)
      BY <2>2, <2>3 DEF FencedMemory, StillIfEnded, Submitted, Running
    <2> QED
      BY <1>1, <2>1, <2>2, <2>4 DEF Fences
  <1>5. ASSUME Revision > 0, NEW r2, Goto(h, r2), r2.st.running = Latest.running,
               r2.st.status \in {"failed", "cancelled"} => r2.st.status = Latest.status,
               r2.pc \in {"poll", "save", "cancel"},
               r2.pc = "cancel" => r2.fence = Running(r2.st)
        PROVE  Fences(h)
    <2>1. StillIfEnded(r2.st)
      BY <1>2, <1>5, SameRunning DEF StillIfEnded
    <2>2. Submitted(task', r2.st) /\ Covers(task', Latest, r2.st)
      BY <1>1, <1>2, <1>5 DEF Submitted, Covers
    <2>3. FencedMemory(task', r2)
      BY <1>5, <2>1, <2>2 DEF FencedMemory
    <2> QED
      BY <1>5, <2>2, <2>3 DEF Fences
  <1>6. CASE Advance(h)
    <2> DEFINE r2 == [Idle EXCEPT !.pc = "poll", !.st = Latest, !.base = Revision]
    <2>1. Goto(h, r2) /\ Revision > 0
      BY <1>6 DEF Advance
    <2>2. r2.pc = "poll" /\ r2.st = Latest
      BY <1>3 DEF HubState
    <2> HIDE DEF r2
    <2> QED
      BY <1>1, <1>5, <2>1, <2>2
  <1>7. CASE \E c \in DOMAIN commands : Resume(h, c)
    <2>1. PICK c \in DOMAIN commands : Resume(h, c)
      BY <1>7
    <2>2. PICK x \in Applied(Latest, c) :
          Goto(h, [Idle EXCEPT !.pc = x.pc, !.st = x.st, !.out = x.out, !.base = Revision,
                               !.cmd = c,
                               !.fence = IF x.pc = "cancel" THEN Running(x.st) ELSE {},
                               !.why = IF commands[c].kind = "cancel" THEN "run_cancelled"
                                                                      ELSE "run_failed"])
      BY <2>1 DEF Resume
    <2>3. PICK f, w : f = (IF x.pc = "cancel" THEN Running(x.st) ELSE {})
                      /\ w = (IF commands[c].kind = "cancel" THEN "run_cancelled" ELSE "run_failed")
      OBVIOUS
    <2> DEFINE r2 == [Idle EXCEPT !.pc = x.pc, !.st = x.st, !.out = x.out, !.base = Revision,
                                  !.cmd = c, !.fence = f, !.why = w]
    <2>4. Goto(h, r2)
      BY <2>2, <2>3
    <2>5. r2.pc = x.pc /\ r2.st = x.st /\ r2.fence = f
      BY <1>3 DEF HubState
    <2>6. Revision > 0 /\ Latest \in RunState /\ SoundState(Latest)
      BY <2>1, LatestTyped DEF Resume
    <2>7. x.pc \in {"poll", "save", "cancel"}
      <3>1. commands \in Seq(CommandRow)
        BY BaseTyped
      <3>2. c \in Nat /\ commands[c] \in CommandRow
        BY <3>1
      <3> QED
        BY <2>6, <3>2, AppliedOK
    <2>8. /\ x.st.running = Latest.running
          /\ x.st.status \in {"failed", "cancelled"} => x.st.status = Latest.status
      BY <2>6, AppliedKeeps, AppliedEnds
    <2> HIDE DEF r2
    <2>9. r2.pc = "cancel" => r2.fence = Running(r2.st)
      BY <2>3, <2>5
    <2> QED
      BY <1>1, <1>5, <2>4, <2>5, <2>6, <2>7, <2>8, <2>9
  <1> QED
    BY <1>4, <1>6, <1>7

\* The copy that is saved has every waiting delegation of the checkpoint it was
\* made from, and so of every checkpoint before.
LEMMA FenceStores ==
    ASSUME BaseInv, ChainInv, FenceInv, NEW h \in Hubs, Store(h)
    PROVE  FenceInv'
  <1>1. Raise(h) /\ task' = task
    BY DEF Store
  <1>2. CASE checkpoints' = checkpoints
    <2>1. Ages(task, task')
      BY <1>1, StaysAged
    <2> QED
      BY <1>1, <1>2, <2>1, RaiseFences, FenceMoves
  <1>3. CASE checkpoints' # checkpoints
    <2>1. PICK c \in CheckpointRow : c.state = hub[h].st /\ checkpoints' = Append(checkpoints, c)
      BY <1>3, StoreView
    <2>2. checkpoints \in Seq(CheckpointRow) /\ Revision \in Nat
      BY BaseTyped
    <2>3. /\ Revision' = Revision + 1 /\ Latest' = hub[h].st
          /\ \A i \in DOMAIN checkpoints' :
               checkpoints'[i] = c \/ (i \in DOMAIN checkpoints /\ checkpoints'[i] = checkpoints[i])
      BY <2>1, <2>2 DEF Revision, Latest
    <2>4. hub[h].base = Revision
      BY StoreView DEF ChainInv, StoresNext
    <2>5. \A g \in Hubs : hub[g].base <= Revision /\ hub[g].base \in Nat
      BY HubTyped DEF ChainInv, CopyBehind, HubState
    <2>6. Goto(h, Idle)
      BY <1>1 DEF Raise, Goto
    <2>7. hub'[h] = Idle /\ \A g \in Hubs \ {h} : hub'[g] = hub[g]
      BY <2>6, GoesTo
    <2>8. FencedMemory(task, hub[h])
      BY FencedFacts
    <2>9. ASSUME NEW i \in DOMAIN checkpoints
          PROVE  SavedFenced(task, checkpoints[i].state, hub[h].st)
      <3>1. SavedFenced(task, checkpoints[i].state, Latest)
        BY DEF FenceInv
      <3>2. Revision # 0
        BY <2>2 DEF Revision
      <3>3. Covers(task, Latest, hub[h].st)
        BY <2>4, <3>2 DEF FenceInv, ThreadFenced
      <3>4. Covers(task, checkpoints[i].state, hub[h].st)
        BY <3>1, <3>3 DEF SavedFenced, Covers, Pending
      <3> QED
        BY <3>1, <3>4 DEF SavedFenced
    <2>10. SavedFenced(task, c.state, hub[h].st)
      BY <2>1, <2>8 DEF SavedFenced, FencedMemory, Covers
    <2>11. \A i \in DOMAIN checkpoints' : SavedFenced(task', checkpoints'[i].state, Latest')
      BY <1>1, <2>3, <2>9, <2>10
    <2>12. FencedMemory(task, Idle) /\ Idle.base = 0
      <3>1. Idle.base = 0 /\ Idle.pc = "idle" /\ \A n \in Nodes : Idle.st.running[n] = 0
        BY DEF Idle, NewRun
      <3> QED
        BY <3>1 DEF FencedMemory, StillIfEnded, Submitted, Running
    <2>13. ASSUME NEW g \in Hubs
           PROVE  ThreadFenced(task', hub'[g], Revision', Latest')
      <3>1. CASE g = h
        BY <1>1, <2>7, <2>12, <3>1 DEF ThreadFenced
      <3>2. CASE g # h
        <4>1. hub'[g] = hub[g] /\ hub[g].base # Revision'
          BY <2>2, <2>3, <2>5, <2>7, <3>2
        <4> QED
          BY <1>1, <4>1, FencedFacts DEF ThreadFenced
      <3> QED
        BY <3>1, <3>2
    <2> QED
      BY <2>11, <2>13 DEF FenceInv
  <1> QED
    BY <1>2, <1>3

LEMMA FenceInit == Init => FenceInv
  <1> SUFFICES ASSUME Init PROVE FenceInv
    OBVIOUS
  <1>1. checkpoints = <<>> /\ \A h \in Hubs : hub[h] = Idle
    BY DEF Init
  <1>2. Idle.base = 0 /\ Idle.pc = "idle" /\ \A n \in Nodes : Idle.st.running[n] = 0
    BY DEF Idle, NewRun
  <1>3. FencedMemory(task, Idle)
    BY <1>2 DEF FencedMemory, StillIfEnded, Submitted, Running
  <1> QED
    BY <1>1, <1>2, <1>3 DEF FenceInv, ThreadFenced

\* A worker's answer, and what leaves tasks, checkpoints and memory alone.
LEMMA FenceWorld ==
    ASSUME BaseInv, FenceInv, UNCHANGED <<checkpoints, hub>>, Ages(task, task')
    PROVE  FenceInv'
  <1>1. Revision' = Revision /\ Latest' = Latest
    BY DEF Revision, Latest
  <1>2. ASSUME NEW i \in DOMAIN checkpoints
        PROVE  SavedFenced(task', checkpoints[i].state, Latest)
    <2>1. SavedFenced(task, checkpoints[i].state, Latest)
      BY DEF FenceInv
    <2>2. /\ Submitted(task', checkpoints[i].state)
          /\ Pending(task', checkpoints[i].state) \subseteq Pending(task, checkpoints[i].state)
      BY <2>1, SavedTyped, Aged DEF SavedFenced
    <2> QED
      BY <2>1, <2>2 DEF SavedFenced, Covers
  <1>3. ASSUME NEW g \in Hubs
        PROVE  ThreadFenced(task', hub[g], Revision, Latest)
    <2>1. ThreadFenced(task, hub[g], Revision, Latest) /\ hub[g].st \in RunState
      BY HubTyped DEF FenceInv
    <2>2. Submitted(task', hub[g].st) /\ Pending(task', hub[g].st) \subseteq Pending(task, hub[g].st)
      BY <2>1, Aged DEF ThreadFenced, FencedMemory
    <2>3. FencedMemory(task', hub[g])
      BY <2>1, <2>2 DEF ThreadFenced, FencedMemory
    <2>4. ASSUME hub[g].base # 0, hub[g].base = Revision
          PROVE  Covers(task', Latest, hub[g].st)
      <3>1. Revision > 0
        BY <2>4, BaseTyped
      <3>2. Latest \in RunState /\ Submitted(task, Latest)
        BY <3>1, LatestTyped DEF FenceInv, SavedFenced, Latest
      <3>3. Pending(task', Latest) \subseteq Pending(task, Latest)
        BY <3>2, Aged
      <3> QED
        BY <2>1, <2>4, <3>3 DEF ThreadFenced, Covers
    <2> QED
      BY <2>3, <2>4 DEF ThreadFenced
  <1> QED
    BY <1>1, <1>2, <1>3 DEF FenceInv

LEMMA FenceStep ==
    ASSUME BaseInv, ChainInv, OwnInv, TaleInv, FenceInv, [Next]_vars
    PROVE  FenceInv'
  <1>1. CASE \E h \in Hubs : Start(h) \/ Advance(h) \/ \E c \in DOMAIN commands : Resume(h, c)
    <2>1. PICK h \in Hubs : Start(h) \/ Advance(h) \/ \E c \in DOMAIN commands : Resume(h, c)
      BY <1>1
    <2>2. Fences(h) /\ UNCHANGED <<task, checkpoints>>
      BY <2>1, LoadFences
    <2> QED
      BY <2>2, StaysAged, FenceMoves
  <1>2. CASE \E h \in Hubs : Step(h)
    <2>1. PICK h \in Hubs : Step(h)
      BY <1>2
    <2>2. CASE \/ Emit(h) \/ Poll(h) \/ CollectCompleted(h) \/ CollectFailed(h) \/ Skip(h)
               \/ Merge(h) \/ Select(h) \/ Dispatch(h) \/ Claim(h) \/ Fence(h) \/ EndRun(h)
               \/ Finish(h) \/ Save(h) \/ Unreconciled(h) \/ Refuse(h)
      <3>1. UNCHANGED <<task, checkpoints>>
        BY <2>2 DEF Emit, Poll, CollectCompleted, CollectFailed, Skip, Merge, Select, Dispatch,
           Claim, Fence, EndRun, Finish, Save, Unreconciled, Refuse
      <3>2. Unreconciled(h) => Raise(h)
        BY DEF Unreconciled
      <3>3. Fences(h)
        BY <2>2, <3>2, EmitFences, PollFences, CollectCompletedFences, CollectFailedFences,
           SkipFences, MergeFences, SelectFences, DispatchFences, ClaimFences, FenceFences,
           EndRunFences, FinishFences, SaveFences, RefuseFences, RaiseFences
      <3> QED
        BY <3>1, <3>3, StaysAged, FenceMoves
    <2>3. CASE Submit(h)
      <3>1. checkpoints' = checkpoints
        BY <2>3 DEF Submit
      <3>2. Orderly(hub[h])
        BY <2>3 DEF Submit, At, TaleInv, ThreadTold
      <3> QED
        BY <2>3, <3>1, <3>2, SubmitFences, FenceMoves
    <2>4. CASE CancelTask(h)
      <3>1. checkpoints' = checkpoints
        BY <2>4 DEF CancelTask
      <3> QED
        BY <2>4, <3>1, CancelFences, FenceMoves
    <2>5. CASE Store(h)
      BY <2>5, FenceStores
    <2> QED
      BY <2>1, <2>2, <2>3, <2>4, <2>5 DEF Step
  <1>3. CASE \E h \in Hubs : Crash(h)
    <2>1. PICK h \in Hubs : Crash(h)
      BY <1>3
    <2>2. Raise(h) /\ UNCHANGED <<task, checkpoints>>
      BY <2>1 DEF Crash
    <2> QED
      BY <2>2, StaysAged, RaiseFences, FenceMoves
  <1>4. CASE \/ \E n \in Nodes : Expire(n)
             \/ \E n \in Nodes, a \in Attempts : Authorize(n, a)
             \/ Issue
             \/ UNCHANGED vars
    <2>1. UNCHANGED <<checkpoints, hub, task>>
      BY <1>4 DEF Expire, Authorize, Issue, vars
    <2> QED
      BY <2>1, StaysAged, FenceWorld
  <1>5. CASE \E n \in Nodes, a \in Attempts : Work(n, a)
    <2>1. PICK n \in Nodes, a \in Attempts : Work(n, a)
      BY <1>5
    <2>2. UNCHANGED <<checkpoints, hub>>
      BY <2>1 DEF Work
    <2>3. PICK o \in Outcomes[n] : task' = [task EXCEPT ![n][a] = o]
      BY <2>1 DEF Work
    <2>4. o \in {"completed", "unfit", "failed"}
      BY <2>3, PlanAssumption DEF Outcome
    <2>5. \A m \in Nodes, b \in Attempts :
              task'[m][b] = IF m = n /\ b = a THEN o ELSE task[m][b]
      BY <2>3, BaseTyped
    <2>6. Ages(task, task')
      BY <2>4, <2>5 DEF Ages
    <2> QED
      BY <2>2, <2>6, FenceWorld
  <1> QED
    BY <1>1, <1>2, <1>3, <1>4, <1>5 DEF Next

\* Whichever thread ended a run, whoever died or raised before and however often
\* the run was retried: what a checkpoint of a failed or cancelled run has as
\* delegated is not waiting for a worker.
THEOREM KnownFenced == Spec => []KnownDelegationsFenced
  <1> DEFINE Inv == BaseInv /\ ChainInv /\ OwnInv /\ TaleInv /\ FenceInv
  <1>1. Init => Inv
    BY BaseInit, ChainInit, OwnInit, TaleInit, FenceInit
  <1>2. Inv /\ [Next]_vars => Inv'
    BY BaseStep, ChainStep, OwnStep, TaleStep, FenceStep
  <1>3. Inv => KnownDelegationsFenced
    <2> SUFFICES ASSUME Inv, Revision > 0, Latest.status \in {"failed", "cancelled"},
                        NEW i \in DOMAIN checkpoints, NEW n \in Running(checkpoints[i].state),
                        task[n][checkpoints[i].state.running[n]] = "created"
                 PROVE  FALSE
      BY DEF KnownDelegationsFenced
    <2>1. n \in Nodes /\ checkpoints[i].state.running[n] # 0
      BY DEF Running
    <2>2. Latest.running[n] = checkpoints[i].state.running[n]
      BY <2>1 DEF FenceInv, SavedFenced, Covers, Pending
    <2>3. Running(Latest) = {}
      BY LatestTyped DEF FenceInv, SavedFenced, StillIfEnded, Latest
    <2> QED
      BY <2>1, <2>2, <2>3 DEF Running
  <1> QED
    BY <1>1, <1>2, <1>3, PTL DEF Spec
=============================================================================
