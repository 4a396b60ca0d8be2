------------------------ MODULE CommandDispatchProofs ------------------------
(***************************************************************************)
(* Proofs about CommandDispatch: for any commands, threads and bounds, and   *)
(* whether or not a dispatch may outlive its command claim, the run takes a  *)
(* command with a receipt at most once; and where no dispatch outlives its   *)
(* claim, a completed receipt is one of a command the run has taken.         *)
(***************************************************************************)
EXTENDS CommandDispatch, TLAPS

Pcs == {"idle", "claim", "status", "heartbeat", "complete", "reject", "claim_command", "load",
        "save", "finish", "release", "refuse", "done", "advance", "advancing", "record", "yield"}

Commanding == {"claim", "status", "heartbeat", "complete", "reject", "claim_command", "load",
               "save", "finish", "release", "refuse"}

Ticking == {"idle", "advance", "advancing", "record", "yield"}

\* The run has not taken the command and never will.
Never(c) ==
    /\ applied[c] = 0
    /\ c \in Denied \/ run.rev > receipt[c].exp \/ receipt[c].exp >= Last

\* A thread has seen no more than there is.
Seen(t) == thread[t].rev <= run.rev /\ thread[t].exp <= binding.rev

\* A dispatch carries a command, and the revision its receipt was staged at.
Bound(t) ==
    /\ thread[t].pc \in Commanding => thread[t].cmd \in AnyCommand
    /\ thread[t].pc = "claim" => thread[t].cmd \in Commands
    /\ thread[t].pc \in Ticking => thread[t].cmd = None
    /\ thread[t].cmd \in Commands /\ thread[t].pc \notin {"idle", "claim"} =>
          /\ receipt[thread[t].cmd].state # "absent"
          /\ thread[t].exp = receipt[thread[t].cmd].exp

\* What a thread is about to save is allowed, at the revision it expects.
Prepared(t) ==
    /\ thread[t].pc = "save" =>
          thread[t].rev = thread[t].exp /\ thread[t].rev < Last /\ thread[t].cmd \notin Denied
    /\ thread[t].pc = "advancing" => thread[t].rev < Last

\* While a receipt is open nobody is about to give the run a command at a
\* later revision than the receipt's own.
Fenced(t) ==
    thread[t].pc \in {"load", "save"} =>
        \A c \in Commands : binding.receipt = c => thread[t].exp <= receipt[c].exp

\* A refusal is final.
Refused(t) ==
    thread[t].pc \in {"refuse", "reject"} /\ thread[t].cmd \in Commands
        /\ binding.receipt = thread[t].cmd => Never(thread[t].cmd)

ThreadOK(t) == Seen(t) /\ Bound(t) /\ Prepared(t) /\ Fenced(t) /\ Refused(t)

\* The status follows the run.
StatusFollows ==
    /\ binding.rev <= run.rev
    /\ \A c \in Commands : receipt[c].exp <= binding.rev

\* The run takes a command at the revision of its receipt, and remembers it
\* while the receipt is open; one that was rejected it never takes.
TakenOnce ==
    \A c \in Commands :
        /\ applied[c] > 0 =>
              /\ applied[c] = 1
              /\ receipt[c].state # "absent"
              /\ run.rev > receipt[c].exp
              /\ binding.receipt = c => run.last = c
        /\ receipt[c].state = "rejected" => Never(c)

RowsOK == StatusFollows /\ OneOpenReceipt /\ TakenOnce

OnceInv == TypeOK /\ RowsOK /\ \A t \in Threads : ThreadOK(t)

-----------------------------------------------------------------------------
(* No dispatch outlives its claim. *)

\* A dispatch that ends well has had its command taken.
EndsWell(t) ==
    thread[t].cmd \in Commands =>
        /\ thread[t].pc = "finish" => applied[thread[t].cmd] > 0
        /\ thread[t].pc \in {"heartbeat", "complete"} /\ binding.receipt = thread[t].cmd
              /\ thread[t].rev > thread[t].exp => applied[thread[t].cmd] > 0

\* A claim that has run out is nobody's, and a live one is the open receipt's.
ClaimsHeld ==
    /\ binding.claimLive => binding.claim # None
    /\ binding.claim # None /\ ~ binding.claimLive =>
           \A t \in Threads : thread[t].cmd = binding.claim =>
               thread[t].pc \notin {"load", "save", "finish"}
    /\ binding.claimLive /\ binding.receipt # None => binding.claim = binding.receipt

\* The status has moved on under an open receipt only for its own command.
StatusIsOwn ==
    /\ run.last \in Commands => applied[run.last] > 0
    /\ \A c \in Commands :
          binding.receipt = c /\ binding.rev > receipt[c].exp => applied[c] > 0

HeldInv ==
    ClaimsHeld /\ StatusIsOwn /\ CompletedWasApplied /\ \A t \in Threads : EndsWell(t)

-----------------------------------------------------------------------------
(* The rows and the threads. *)

LEMMA Names ==
    /\ \A c \in Commands : c \in AnyCommand /\ c # None /\ c \notin Plain
    /\ \A c \in AnyCommand : c # None
    /\ \A t \in Threads : t # None
    /\ Last \in Nat /\ Last > 0
  BY DispatchAssumption DEF DispatchAssumption, AnyCommand, Threads

LEMMA RunFields ==
    ASSUME TypeOK
    PROVE  /\ run.rev \in Nat /\ 1 <= run.rev /\ run.rev <= Last
           /\ run.rev \in 0 .. Last
           /\ run.last \in AnyCommand \cup {None}
  BY Names DEF TypeOK

LEMMA BindingFields ==
    ASSUME TypeOK
    PROVE  /\ binding.rev \in Nat /\ 1 <= binding.rev /\ binding.rev <= Last
           /\ binding.rev \in 0 .. Last
           /\ binding.receipt \in Commands \cup {None}
           /\ binding.claim \in AnyCommand \cup {None}
  BY Names DEF TypeOK, BindingRow

LEMMA ReceiptFields ==
    ASSUME TypeOK, NEW c \in Commands
    PROVE  /\ receipt[c] \in ReceiptRow
           /\ receipt[c].exp \in Nat
           /\ receipt[c].exp \in 0 .. Last
           /\ receipt[c].state \in {"absent", "pending", "dispatching", "completed", "rejected"}
  <1>1. receipt[c] \in ReceiptRow
    BY DEF TypeOK
  <1>2. receipt[c].exp \in 0 .. Last
    BY <1>1 DEF ReceiptRow
  <1>3. receipt[c].state \in {"absent", "pending", "dispatching", "completed", "rejected"}
    BY <1>1 DEF ReceiptRow
  <1> QED
    BY <1>1, <1>2, <1>3

LEMMA ThreadFields ==
    ASSUME TypeOK, NEW t \in Threads
    PROVE  /\ thread[t] \in ThreadState
           /\ thread[t].cmd \in AnyCommand \cup {None}
           /\ thread[t].exp \in Nat /\ thread[t].exp \in 0 .. Last
           /\ thread[t].rev \in Nat /\ thread[t].rev \in 0 .. Last
           /\ thread[t].pc \in Pcs
  <1>1. thread[t] \in ThreadState
    BY DEF TypeOK
  <1> QED
    BY <1>1 DEF ThreadState, Pcs

\* A step of thread t leaves it in state x.
Becomes(t, x) ==
    /\ x \in ThreadState
    /\ thread' = [thread EXCEPT ![t] = x]

LEMMA BecomesView ==
    ASSUME TypeOK, NEW t \in Threads, NEW x, Becomes(t, x)
    PROVE  /\ thread' \in [Threads -> ThreadState]
           /\ thread'[t] = x
           /\ \A u \in Threads : u # t => thread'[u] = thread[u]
  BY DEF Becomes, TypeOK

LEMMA GotoBecomes ==
    ASSUME TypeOK, NEW t \in Threads, NEW pc \in Pcs, Goto(t, pc)
    PROVE  \E x : /\ Becomes(t, x) /\ x.pc = pc /\ x.cmd = thread[t].cmd
                  /\ x.exp = thread[t].exp /\ x.rev = thread[t].rev
  <1> DEFINE x == [thread[t] EXCEPT !.pc = pc]
  <1>1. thread[t] \in ThreadState
    BY ThreadFields
  <1>2. /\ x \in ThreadState /\ x.pc = pc /\ x.cmd = thread[t].cmd
        /\ x.exp = thread[t].exp /\ x.rev = thread[t].rev
    BY <1>1 DEF ThreadState, Pcs
  <1>3. thread' = [thread EXCEPT ![t] = x]
    BY DEF Goto
  <1> HIDE DEF x
  <1> QED
    BY <1>2, <1>3 DEF Becomes

LEMMA ReturnBecomes ==
    ASSUME NEW t \in Threads, Return(t)
    PROVE  Becomes(t, Idle) /\ Idle.pc = "idle" /\ Idle.cmd = None /\ Idle.exp = 0 /\ Idle.rev = 0
  <1>1. Idle \in ThreadState
    BY Names DEF Idle, ThreadState
  <1> QED
    BY <1>1 DEF Becomes, Return, Idle

-----------------------------------------------------------------------------
(* What no step undoes. *)

Grows ==
    /\ run.rev <= run'.rev
    /\ binding.rev <= binding'.rev
    /\ \A c \in Commands :
          /\ receipt[c].state # "absent" =>
                receipt'[c].state # "absent" /\ receipt'[c].exp = receipt[c].exp
          /\ binding'.receipt = c =>
                binding.receipt = c \/ (receipt[c].state = "absent" /\ receipt'[c].exp = binding.rev)
          /\ receipt[c].state # "absent" /\ Never(c) => Never(c)'

\* A thread that does not move stays as it is while the rows grow.
LEMMA ThreadFrame ==
    ASSUME TypeOK, TypeOK', Grows, OneOpenReceipt,
           NEW u \in Threads, thread'[u] = thread[u], ThreadOK(u)
    PROVE  ThreadOK(u)'
  <1>1. Seen(u)'
    BY ThreadFields, RunFields, BindingFields DEF ThreadOK, Seen, Grows, TypeOK, BindingRow
  <1>2. Bound(u)'
    BY DEF ThreadOK, Bound, Grows
  <1>3. Prepared(u)'
    BY DEF ThreadOK, Prepared
  <1>4. Fenced(u)'
    <2> SUFFICES ASSUME thread[u].pc \in {"load", "save"}, NEW c \in Commands, binding'.receipt = c
                 PROVE  thread[u].exp <= receipt'[c].exp
      BY DEF Fenced
    <2>1. CASE binding.receipt = c /\ receipt[c].state # "absent"
      BY <2>1 DEF ThreadOK, Fenced, Grows
    <2>2. CASE receipt[c].state = "absent" /\ receipt'[c].exp = binding.rev
      BY <2>2 DEF ThreadOK, Seen
    <2> QED
      BY <2>1, <2>2 DEF Grows, OneOpenReceipt
  <1>5. Refused(u)'
    BY DEF ThreadOK, Refused, Grows, Bound
  <1> QED
    BY <1>1, <1>2, <1>3, <1>4, <1>5 DEF ThreadOK

Counts == [requests : Nat, crashes : Nat, slow : Nat]

LEMMA Counted ==
    ASSUME NEW b \in Counts, NEW n \in 0 .. 1, NEW x,
           \/ x = [b EXCEPT !.requests = @ + 1]
           \/ x = [b EXCEPT !.crashes = @ + 1]
           \/ x = [b EXCEPT !.slow = @ + n]
    PROVE  x \in Counts
  <1>1. PICK r \in Nat, k \in Nat, l \in Nat : b = [requests |-> r, crashes |-> k, slow |-> l]
    BY DEF Counts
  <1>2. \/ x = [requests |-> r + 1, crashes |-> k, slow |-> l]
        \/ x = [requests |-> r, crashes |-> k + 1, slow |-> l]
        \/ x = [requests |-> r, crashes |-> k, slow |-> l + n]
    BY <1>1
  <1>3. r + 1 \in Nat /\ k + 1 \in Nat /\ l + n \in Nat
    OBVIOUS
  <1> QED
    BY <1>2, <1>3 DEF Counts

\* The rows stay as they are but for leases, claims and the state of an open
\* receipt; the run and the status may move on.
SameRows ==
    /\ run' \in [rev : 1 .. Last, last : AnyCommand \cup {None}]
    /\ run'.last = run.last
    /\ run.rev <= run'.rev
    /\ applied' = applied
    /\ bound' \in Counts
    /\ binding' \in BindingRow
    /\ binding.rev <= binding'.rev
    /\ binding'.rev <= run'.rev
    /\ binding'.receipt = binding.receipt
    /\ receipt' \in [Commands -> ReceiptRow]
    /\ \A c \in Commands :
          /\ receipt'[c].exp = receipt[c].exp
          /\ \/ receipt'[c].state = receipt[c].state
             \/ receipt[c].state \in {"pending", "dispatching"}
                /\ receipt'[c].state \in {"pending", "dispatching"}

LEMMA RowsSame ==
    ASSUME OnceInv, SameRows, thread' \in [Threads -> ThreadState],
           \A u \in Threads : thread'[u] = thread[u] \/ ThreadOK(u)'
    PROVE  OnceInv'
  <1>1. TypeOK'
    BY DEF OnceInv, TypeOK, SameRows, Counts
  <1>0. /\ run.rev \in Nat /\ run'.rev \in Nat /\ binding.rev \in Nat /\ binding'.rev \in Nat
        /\ run.rev <= run'.rev
        /\ \A c \in Commands : receipt[c].exp \in Nat
    BY RunFields, BindingFields, ReceiptFields DEF OnceInv, SameRows, BindingRow
  <1>2. Grows
    <2>2. \A c \in Commands : Never(c) => Never(c)'
      BY <1>0 DEF Never, SameRows
    <2>3. \A c \in Commands : receipt[c].state # "absent" =>
              receipt'[c].state # "absent" /\ receipt'[c].exp = receipt[c].exp
      BY DEF SameRows
    <2> QED
      BY <2>2, <2>3 DEF Grows, SameRows
  <1>3. StatusFollows'
    BY <1>0 DEF OnceInv, RowsOK, StatusFollows, SameRows
  <1>4. OneOpenReceipt'
    BY DEF OnceInv, RowsOK, OneOpenReceipt, SameRows
  <1>5. TakenOnce'
    BY <1>0 DEF OnceInv, RowsOK, TakenOnce, Never, SameRows
  <1>6. \A u \in Threads : ThreadOK(u)'
    BY <1>1, <1>2, ThreadFrame DEF OnceInv, RowsOK
  <1> QED
    BY <1>1, <1>3, <1>4, <1>5, <1>6 DEF OnceInv, RowsOK

\* The usual case: thread t becomes x, and the rows stay the same.
LEMMA Moved ==
    ASSUME OnceInv, SameRows, NEW t \in Threads, NEW x, Becomes(t, x), ThreadOK(t)'
    PROVE  OnceInv'
  <1>1. TypeOK
    BY DEF OnceInv
  <1>2. /\ thread' \in [Threads -> ThreadState]
        /\ \A u \in Threads : u # t => thread'[u] = thread[u]
    BY <1>1, BecomesView
  <1>3. \A u \in Threads : thread'[u] = thread[u] \/ ThreadOK(u)'
    BY <1>2
  <1> QED
    BY <1>2, <1>3, RowsSame

LEMMA AllUnchanged ==
    ASSUME OnceInv
    PROVE  /\ UNCHANGED <<run, applied, binding, receipt, bound>> => SameRows
           /\ UNCHANGED <<run, applied, binding, receipt>> /\ bound' \in Counts => SameRows
           /\ bound \in Counts
  <1>1. run.rev \in Nat /\ binding.rev \in Nat
    BY RunFields, BindingFields DEF OnceInv
  <1> QED
    BY <1>1 DEF OnceInv, SameRows, TypeOK, Counts, RowsOK, StatusFollows

LEMMA RowsKept ==
    ASSUME OnceInv, run' = run, applied' = applied, bound' \in Counts,
           binding' \in BindingRow, binding'.rev = binding.rev,
           binding'.receipt = binding.receipt,
           receipt' \in [Commands -> ReceiptRow],
           \A d \in Commands : receipt'[d].exp = receipt[d].exp,
           \A d \in Commands :
              \/ receipt'[d].state = receipt[d].state
              \/ receipt[d].state \in {"pending", "dispatching"}
                 /\ receipt'[d].state \in {"pending", "dispatching"}
    PROVE  SameRows
  <1>1. /\ run.rev \in Nat /\ binding.rev \in Nat /\ binding.rev <= run.rev
        /\ run' \in [rev : 1 .. Last, last : AnyCommand \cup {None}]
    BY RunFields, BindingFields DEF OnceInv, RowsOK, StatusFollows, TypeOK
  <1> QED
    BY <1>1 DEF SameRows

\* What a step of the usual kind does to the revisions.
LEMMA RevsGrow ==
    ASSUME OnceInv, SameRows
    PROVE  /\ run.rev \in Nat /\ run'.rev \in Nat /\ run.rev <= run'.rev
           /\ binding.rev \in Nat /\ binding'.rev \in Nat /\ binding.rev <= binding'.rev
           /\ \A c \in Commands : Never(c) => Never(c)'
  <1>1. /\ run.rev \in Nat /\ run'.rev \in Nat /\ run.rev <= run'.rev
        /\ binding.rev \in Nat /\ binding'.rev \in Nat /\ binding.rev <= binding'.rev
        /\ \A c \in Commands : receipt[c].exp \in Nat
    BY RunFields, BindingFields, ReceiptFields DEF OnceInv, SameRows, BindingRow
  <1> QED
    BY <1>1 DEF Never, SameRows

\* A thread that rests, or waits for a claim, has nothing to keep.
LEMMA Rests ==
    ASSUME OnceInv, SameRows, NEW t \in Threads, NEW x, Becomes(t, x),
           x.rev \in {0, thread[t].rev}, x.exp \in {0, thread[t].exp},
           \/ x.pc \in {"idle", "done"} /\ x.cmd = None
           \/ x.pc = "claim" /\ x.cmd \in Commands
    PROVE  OnceInv'
  <1>1. TypeOK /\ ThreadOK(t)
    BY DEF OnceInv
  <1>2. thread'[t] = x
    BY <1>1, BecomesView
  <1>3. Seen(t)'
    BY <1>1, <1>2, RevsGrow, ThreadFields DEF ThreadOK, Seen
  <1>4. Bound(t)' /\ Prepared(t)' /\ Fenced(t)' /\ Refused(t)'
    BY <1>2, Names DEF Bound, Prepared, Fenced, Refused, Commanding, Ticking
  <1> QED
    BY <1>3, <1>4, Moved DEF ThreadOK

\* A thread that goes on with its command.
LEMMA GoesOn ==
    ASSUME OnceInv, SameRows, NEW t \in Threads, NEW x, Becomes(t, x),
           x.rev \in Nat, x.rev <= run'.rev, x.exp = thread[t].exp, x.cmd = thread[t].cmd,
           thread[t].pc # "claim",
           x.pc \in Ticking => thread[t].pc \in Ticking,
           x.pc \in Commanding => thread[t].pc \in Commanding,
           x.pc \notin {"claim", "save", "advancing", "load"},
           x.pc = "reject" => thread[t].pc = "refuse",
           x.pc # "refuse"
    PROVE  OnceInv'
  <1>1. TypeOK /\ ThreadOK(t)
    BY DEF OnceInv
  <1>2. thread'[t] = x
    BY <1>1, BecomesView
  <1>3. Seen(t)'
    BY <1>1, <1>2, RevsGrow, ThreadFields DEF ThreadOK, Seen
  <1>4. Bound(t)'
    BY <1>1, <1>2, Names DEF ThreadOK, Bound, SameRows, Ticking
  <1>5. Prepared(t)' /\ Fenced(t)'
    BY <1>2 DEF Prepared, Fenced
  <1>6. Refused(t)'
    BY <1>1, <1>2, RevsGrow DEF ThreadOK, Refused, SameRows
  <1> QED
    BY <1>3, <1>4, <1>5, <1>6, Moved DEF ThreadOK

-----------------------------------------------------------------------------
(* The steps of the receipt path. *)

\* A receipt is driven, given back, or its lease runs out.
LEMMA DrivenRow ==
    ASSUME TypeOK, NEW c \in Commands, NEW r \in ReceiptRow,
           receipt' = [receipt EXCEPT ![c] = r], r.exp = receipt[c].exp
    PROVE  /\ receipt' \in [Commands -> ReceiptRow]
           /\ receipt'[c] = r
           /\ \A d \in Commands : receipt'[d].exp = receipt[d].exp
           /\ \A d \in Commands : d # c => receipt'[d] = receipt[d]
  BY DEF TypeOK

LEMMA RequestOnce ==
    ASSUME OnceInv, NEW t \in Threads, NEW c \in Commands, Request(t, c)
    PROVE  OnceInv'
  <1> DEFINE x == [thread[t] EXCEPT !.pc = "claim", !.cmd = c]
  <1>0. TypeOK /\ RowsOK /\ ThreadOK(t) /\ c \in AnyCommand /\ c # None
    BY Names DEF OnceInv
  <1>1. /\ x \in ThreadState /\ x.pc = "claim" /\ x.cmd = c
        /\ x.exp = thread[t].exp /\ x.rev = thread[t].rev
    <2>1. thread[t] \in ThreadState
      BY <1>0, ThreadFields
    <2> QED
      BY <1>0, <2>1 DEF ThreadState
  <1>2. thread' = [thread EXCEPT ![t] = x]
    BY DEF Request
  <1> HIDE DEF x
  <1>3. Becomes(t, x)
    BY <1>1, <1>2 DEF Becomes
  <1>4. bound' \in Counts /\ run' = run /\ applied' = applied
    <2>1. bound' = [bound EXCEPT !.requests = @ + 1] /\ run' = run /\ applied' = applied
      BY DEF Request
    <2> QED
      BY <2>1, Counted, AllUnchanged
  <1>5. CASE UNCHANGED <<binding, receipt>>
    <2>1. SameRows
      BY <1>4, <1>5, AllUnchanged
    <2> QED
      BY <1>1, <1>3, <2>1, Rests
  <1>6. CASE /\ receipt[c].state = "absent"
             /\ Stageable
             /\ receipt' = [receipt EXCEPT ![c] = [@ EXCEPT !.state = "pending",
                                                            !.exp = binding.rev]]
             /\ binding' = [binding EXCEPT !.receipt = c]
    <2> DEFINE r == [receipt[c] EXCEPT !.state = "pending", !.exp = binding.rev]
    <2>1. r \in ReceiptRow /\ r.state = "pending" /\ r.exp = binding.rev
      <3>1. receipt[c] \in ReceiptRow /\ binding.rev \in 0 .. Last
        BY <1>0, ReceiptFields, BindingFields
      <3> QED
        BY <3>1 DEF ReceiptRow
    <2>2. receipt' = [receipt EXCEPT ![c] = r]
      BY <1>6
    <2> HIDE DEF r
    <2>3. /\ receipt' \in [Commands -> ReceiptRow]
          /\ receipt'[c].state = "pending" /\ receipt'[c].exp = binding.rev
          /\ \A d \in Commands : d # c => receipt'[d] = receipt[d]
      BY <1>0, <2>1, <2>2 DEF TypeOK
    <2>4. binding' \in BindingRow /\ binding'.rev = binding.rev /\ binding'.receipt = c
      BY <1>0, <1>6 DEF TypeOK, BindingRow
    <2>5. thread' \in [Threads -> ThreadState] /\ thread'[t] = x
          /\ \A u \in Threads : u # t => thread'[u] = thread[u]
      BY <1>0, <1>3, BecomesView
    <2>6. TypeOK'
      BY <1>0, <1>4, <2>3, <2>4, <2>5 DEF TypeOK, Counts
    <2>7. binding.receipt = None
      BY <1>6 DEF Stageable
    <2>8. applied[c] = 0 /\ \A d \in Commands : d # c => receipt[d].state \notin {"pending", "dispatching"}
      <3>1. applied[c] \in Nat
        BY <1>0 DEF TypeOK
      <3>2. ~ (applied[c] > 0)
        BY <1>0, <1>6 DEF RowsOK, TakenOnce
      <3> QED
        BY <1>0, <2>7, <3>1, <3>2, Names DEF RowsOK, OneOpenReceipt
    <2>9. run.rev \in Nat /\ binding.rev \in Nat /\ binding.rev <= run.rev
      BY <1>0, RunFields, BindingFields DEF RowsOK, StatusFollows
    <2>10. Grows
      <3>1. \A d \in Commands : receipt[d].state # "absent" /\ Never(d) => Never(d)'
        BY <1>4, <1>6, <2>3 DEF Never
      <3> QED
        BY <1>4, <1>6, <2>3, <2>4, <2>7, <2>9, <3>1, Names DEF Grows
    <2>11. StatusFollows'
      BY <1>0, <1>4, <2>3, <2>4, <2>9 DEF RowsOK, StatusFollows
    <2>12. OneOpenReceipt'
      BY <2>3, <2>4, <2>8 DEF OneOpenReceipt
    <2>13. TakenOnce'
      BY <1>0, <1>4, <2>3, <2>4, <2>8 DEF RowsOK, TakenOnce, Never
    <2>14. ThreadOK(t)'
      <3>1. Seen(t)'
        BY <1>0, <1>1, <1>4, <2>4, <2>5 DEF ThreadOK, Seen
      <3>2. Bound(t)' /\ Prepared(t)' /\ Fenced(t)' /\ Refused(t)'
        BY <1>0, <1>1, <2>5 DEF Bound, Prepared, Fenced, Refused, Ticking
      <3> QED
        BY <3>1, <3>2 DEF ThreadOK
    <2>15. \A u \in Threads : ThreadOK(u)'
      BY <1>0, <2>5, <2>6, <2>10, <2>14, ThreadFrame DEF OnceInv, RowsOK
    <2> QED
      BY <2>6, <2>11, <2>12, <2>13, <2>15 DEF OnceInv, RowsOK
  <1> QED
    BY <1>5, <1>6 DEF Request

LEMMA ClaimReceiptOnce ==
    ASSUME OnceInv, NEW t \in Threads, NEW c \in Commands, ClaimReceipt(t, c)
    PROVE  OnceInv'
  <1> DEFINE x == [pc |-> "status", cmd |-> c, exp |-> receipt[c].exp, rev |-> 0]
             r == [state |-> "dispatching", exp |-> receipt[c].exp, owner |-> t, live |-> TRUE]
  <1>0. TypeOK /\ RowsOK /\ c \in AnyCommand /\ receipt[c].exp \in 0 .. Last /\ 0 \in 0 .. Last
    BY Names, ReceiptFields DEF OnceInv
  <1>1. x \in ThreadState /\ r \in ReceiptRow
    BY <1>0 DEF ThreadState, ReceiptRow
  <1>2. /\ thread' = [thread EXCEPT ![t] = x] /\ receipt' = [receipt EXCEPT ![c] = r]
        /\ UNCHANGED <<run, applied, binding, bound>>
        /\ receipt[c].state \in {"pending", "dispatching"}
    BY DEF ClaimReceipt, Claimable
  <1>3. /\ x.pc = "status" /\ x.cmd = c /\ x.exp = receipt[c].exp /\ x.rev = 0
        /\ r.state = "dispatching" /\ r.exp = receipt[c].exp
    OBVIOUS
  <1> HIDE DEF x, r
  <1>4. Becomes(t, x)
    BY <1>1, <1>2 DEF Becomes
  <1>5. /\ receipt' \in [Commands -> ReceiptRow]
        /\ receipt'[c] = r
        /\ \A d \in Commands : receipt'[d].exp = receipt[d].exp
        /\ \A d \in Commands : d # c => receipt'[d] = receipt[d]
    BY <1>0, <1>1, <1>2, <1>3, DrivenRow
  <1>6. SameRows
    <2>1. binding' \in BindingRow /\ bound' \in Counts
      BY <1>0, <1>2 DEF TypeOK, Counts
    <2>2. \A d \in Commands :
              \/ receipt'[d].state = receipt[d].state
              \/ receipt[d].state \in {"pending", "dispatching"}
                 /\ receipt'[d].state \in {"pending", "dispatching"}
      BY <1>2, <1>3, <1>5
    <2> QED
      BY <1>2, <1>5, <2>1, <2>2, RowsKept
  <1>7. thread'[t] = x
    BY <1>0, <1>4, BecomesView
  <1>8. ThreadOK(t)'
    <2>1. Seen(t)'
      BY <1>0, <1>2, <1>3, <1>7, RunFields DEF RowsOK, StatusFollows, Seen
    <2>2. Bound(t)'
      BY <1>0, <1>3, <1>5, <1>7 DEF Bound, Ticking
    <2>3. Prepared(t)' /\ Fenced(t)' /\ Refused(t)'
      BY <1>3, <1>7 DEF Prepared, Fenced, Refused
    <2> QED
      BY <2>1, <2>2, <2>3 DEF ThreadOK
  <1> QED
    BY <1>4, <1>6, <1>8, Moved

\* The thread goes back to the start, and the rows stay.
LEMMA ReturnOnce ==
    ASSUME OnceInv, NEW t \in Threads, Return(t), SameRows
    PROVE  OnceInv'
  BY ReturnBecomes, Rests

LEMMA ReadStatusOnce ==
    ASSUME OnceInv, NEW t \in Threads, ReadStatus(t)
    PROVE  OnceInv'
  <1>0. /\ TypeOK /\ RowsOK /\ thread[t] \in ThreadState /\ binding.rev \in 0 .. Last
        /\ thread[t].pc = "status"
        /\ thread[t].rev <= run.rev
        /\ binding.rev <= run.rev
        /\ run' = run /\ binding.rev \in Nat /\ thread[t].rev \in Nat
    BY ThreadFields, BindingFields DEF OnceInv, ReadStatus, At, ThreadOK, Seen, RowsOK, StatusFollows
  <1>1. SameRows
    BY AllUnchanged DEF ReadStatus
  <1>2. CASE thread' = [thread EXCEPT ![t] = [@ EXCEPT !.pc = "heartbeat", !.rev = binding.rev]]
    <2> DEFINE x == [thread[t] EXCEPT !.pc = "heartbeat", !.rev = binding.rev]
    <2>1. /\ x \in ThreadState /\ x.pc = "heartbeat" /\ x.rev = binding.rev
          /\ x.cmd = thread[t].cmd /\ x.exp = thread[t].exp
      BY <1>0 DEF ThreadState
    <2>2. thread' = [thread EXCEPT ![t] = x]
      BY <1>2
    <2> HIDE DEF x
    <2>3. Becomes(t, x)
      BY <2>1, <2>2 DEF Becomes
    <2> QED
      BY <1>0, <1>1, <2>1, <2>3, GoesOn DEF Commanding, Ticking
  <1>3. CASE Goto(t, "claim_command")
    BY <1>0, <1>1, <1>3, GotoBecomes, GoesOn DEF Commanding, Ticking, Pcs
  <1> QED
    BY <1>2, <1>3 DEF ReadStatus, Goto

LEMMA HeartbeatOnce ==
    ASSUME OnceInv, NEW t \in Threads, Heartbeat(t)
    PROVE  OnceInv'
  <1>0. TypeOK /\ thread[t].pc = "heartbeat" /\ thread[t].rev <= run.rev
        /\ run' = run /\ thread[t].rev \in Nat
    BY ThreadFields DEF OnceInv, Heartbeat, At, ThreadOK, Seen
  <1>1. SameRows
    BY AllUnchanged DEF Heartbeat
  <1>2. CASE Goto(t, "complete")
    BY <1>0, <1>1, <1>2, GotoBecomes, GoesOn DEF Commanding, Ticking, Pcs
  <1>3. CASE Return(t)
    BY <1>1, <1>3, ReturnOnce
  <1> QED
    BY <1>2, <1>3 DEF Heartbeat

\* A receipt is closed by the thread that drives it.
LEMMA CloseOnce ==
    ASSUME OnceInv, NEW t \in Threads, NEW state \in {"completed", "rejected"},
           thread[t].pc \in {"complete", "reject"}, MayClose(t), CloseReceipt(t, state),
           state = "rejected" => thread[t].pc = "reject",
           UNCHANGED <<run, applied, bound>>
    PROVE  OnceInv'
  <1> DEFINE c == thread[t].cmd
             r == Undriven(c, state)
  <1>0. TypeOK /\ RowsOK /\ ThreadOK(t) /\ None \notin Commands
    BY Names DEF OnceInv
  <1>1. c \in Commands /\ binding.receipt = c
    <2>1. c \in AnyCommand /\ binding.receipt = c
      BY <1>0 DEF ThreadOK, Bound, Commanding, Ticking, MayClose
    <2>2. binding.receipt \in Commands \cup {None}
      BY <1>0, BindingFields
    <2> QED
      BY <2>1, <2>2, Names
  <1>2. r \in ReceiptRow /\ r.state = state /\ r.exp = receipt[c].exp
    <2>1. receipt[c].exp \in 0 .. Last
      BY <1>0, <1>1, ReceiptFields
    <2> QED
      BY <2>1 DEF Undriven, ReceiptRow
  <1>3. /\ receipt' = [receipt EXCEPT ![c] = r]
        /\ binding' = [binding EXCEPT !.receipt = None]
        /\ Return(t)
    BY DEF CloseReceipt
  <1> HIDE DEF r
  <1>4. /\ receipt' \in [Commands -> ReceiptRow]
        /\ receipt'[c] = r
        /\ \A d \in Commands : receipt'[d].exp = receipt[d].exp
        /\ \A d \in Commands : d # c => receipt'[d] = receipt[d]
    BY <1>0, <1>1, <1>2, <1>3, DrivenRow
  <1>5. binding' \in BindingRow /\ binding'.rev = binding.rev /\ binding'.receipt = None
    BY <1>0, <1>3 DEF TypeOK, BindingRow
  <1>6. /\ thread' \in [Threads -> ThreadState] /\ thread'[t] = Idle
        /\ \A u \in Threads : u # t => thread'[u] = thread[u]
    BY <1>0, <1>3, ReturnBecomes, BecomesView
  <1>7. TypeOK'
    BY <1>0, <1>4, <1>5, <1>6 DEF TypeOK
  <1>8. run.rev \in Nat /\ binding.rev \in Nat
    BY <1>0, RunFields, BindingFields
  <1>9. \A d \in Commands : Never(d) => Never(d)'
    BY <1>4 DEF Never
  <1>10. Grows
    <2>1. \A d \in Commands : receipt'[d].state # "absent" \/ receipt'[d].state = receipt[d].state
      BY <1>2, <1>4
    <2> QED
      BY <1>0, <1>4, <1>5, <1>8, <1>9, <2>1 DEF Grows
  <1>11. StatusFollows'
    BY <1>0, <1>4, <1>5 DEF RowsOK, StatusFollows
  <1>12. OneOpenReceipt'
    BY <1>0, <1>1, <1>2, <1>4, <1>5 DEF RowsOK, OneOpenReceipt
  <1>13. TakenOnce'
    <2>1. state = "rejected" => Never(c)
      BY <1>0, <1>1 DEF ThreadOK, Refused
    <2> QED
      BY <1>0, <1>1, <1>2, <1>4, <1>5, <1>9, <2>1 DEF RowsOK, TakenOnce
  <1>14. ThreadOK(t)'
    <2>1. Idle.pc = "idle" /\ Idle.cmd = None /\ Idle.exp = 0 /\ Idle.rev = 0
      BY DEF Idle
    <2>2. Seen(t)'
      BY <1>5, <1>6, <1>8, <2>1 DEF Seen
    <2>3. Bound(t)' /\ Prepared(t)' /\ Fenced(t)' /\ Refused(t)'
      BY <1>6, <2>1 DEF Bound, Prepared, Fenced, Refused, Commanding, Ticking
    <2> QED
      BY <2>2, <2>3 DEF ThreadOK
  <1>15. \A u \in Threads : ThreadOK(u)'
    BY <1>0, <1>6, <1>7, <1>10, <1>14, ThreadFrame DEF OnceInv, RowsOK
  <1> QED
    BY <1>7, <1>11, <1>12, <1>13, <1>15 DEF OnceInv, RowsOK

LEMMA CompleteOnce ==
    ASSUME OnceInv, NEW t \in Threads, Complete(t)
    PROVE  OnceInv'
  <1>0. TypeOK /\ thread[t].pc = "complete" /\ UNCHANGED <<run, applied, bound>>
    BY DEF OnceInv, Complete, At
  <1>1. CASE MayClose(t) /\ CloseReceipt(t, "completed")
    BY <1>0, <1>1, CloseOnce
  <1>2. CASE receipt' = receipt /\ binding' = binding /\ Return(t)
    BY <1>0, <1>2, AllUnchanged, ReturnOnce
  <1>3. CASE /\ OwnsReceipt(t) /\ binding' = binding /\ Return(t)
             /\ receipt' = [receipt EXCEPT ![thread[t].cmd] = Undriven(thread[t].cmd, "pending")]
    <2> DEFINE c == thread[t].cmd
               r == Undriven(c, "pending")
    <2>1. receipt[c].state = "dispatching"
      BY <1>3 DEF OwnsReceipt
    <2>2. CASE c \in Commands
      <3>1. r \in ReceiptRow /\ r.state = "pending" /\ r.exp = receipt[c].exp
        <4>1. receipt[c].exp \in 0 .. Last
          BY <1>0, <2>2, ReceiptFields
        <4> QED
          BY <4>1 DEF Undriven, ReceiptRow
      <3>2. receipt' = [receipt EXCEPT ![c] = r]
        BY <1>3
      <3> HIDE DEF r
      <3>3. /\ receipt' \in [Commands -> ReceiptRow]
            /\ receipt'[c] = r
            /\ \A d \in Commands : receipt'[d].exp = receipt[d].exp
            /\ \A d \in Commands : d # c => receipt'[d] = receipt[d]
        BY <1>0, <2>2, <3>1, <3>2, DrivenRow
      <3>4. SameRows
        <4>1. binding' \in BindingRow /\ bound' \in Counts
          BY <1>0, <1>3 DEF TypeOK, Counts
        <4>2. \A d \in Commands :
                  \/ receipt'[d].state = receipt[d].state
                  \/ receipt[d].state \in {"pending", "dispatching"}
                     /\ receipt'[d].state \in {"pending", "dispatching"}
          BY <2>1, <3>1, <3>3
        <4> QED
          BY <1>0, <1>3, <3>3, <4>1, <4>2, RowsKept
      <3> QED
        BY <1>3, <3>4, ReturnOnce
    <2>3. CASE c \notin Commands
      <3>1. receipt' = receipt
        BY <1>0, <1>3, <2>3 DEF TypeOK
      <3> QED
        BY <1>0, <1>2, <1>3, <3>1
    <2> QED
      BY <2>2, <2>3
  <1> QED
    BY <1>0, <1>1, <1>2, <1>3 DEF Complete

LEMMA RejectOnce ==
    ASSUME OnceInv, NEW t \in Threads, Reject(t)
    PROVE  OnceInv'
  <1>0. thread[t].pc = "reject" /\ UNCHANGED <<run, applied, bound>>
    BY DEF Reject, At
  <1>1. CASE MayClose(t) /\ CloseReceipt(t, "rejected")
    BY <1>0, <1>1, CloseOnce
  <1>2. CASE receipt' = receipt /\ binding' = binding /\ Return(t)
    BY <1>0, <1>2, AllUnchanged, ReturnOnce
  <1> QED
    BY <1>1, <1>2 DEF Reject

LEMMA GiveUpOnce ==
    ASSUME OnceInv, NEW t \in Threads, GiveUp(t)
    PROVE  OnceInv'
  BY AllUnchanged, ReturnOnce DEF GiveUp

LEMMA RequestClaimsOnce ==
    ASSUME OnceInv, NEW t \in Threads, RequestClaims(t)
    PROVE  OnceInv'
  <1>1. thread[t].cmd \in Commands
    BY DEF OnceInv, ThreadOK, Bound, RequestClaims, At
  <1> QED
    BY <1>1, ClaimReceiptOnce DEF RequestClaims

-----------------------------------------------------------------------------
(* The steps of the bridge. *)

LEMMA SignOnce ==
    ASSUME OnceInv, NEW a \in Plain, Sign(a)
    PROVE  OnceInv'
  <1> DEFINE x == [pc |-> "claim_command", cmd |-> a, exp |-> binding.rev, rev |-> 0]
  <1>0. TypeOK /\ a \in Threads /\ a \in AnyCommand /\ a \notin Commands
    BY Names DEF OnceInv, Threads, AnyCommand
  <1>1. binding.rev \in 0 .. Last /\ 0 \in 0 .. Last /\ binding.rev \in Nat
    BY <1>0, Names, BindingFields
  <1>2. /\ x \in ThreadState
        /\ x.pc = "claim_command" /\ x.cmd = a /\ x.exp = binding.rev /\ x.rev = 0
    BY <1>0, <1>1 DEF ThreadState
  <1>3. thread' = [thread EXCEPT ![a] = x]
    BY DEF Sign
  <1> HIDE DEF x
  <1>4. Becomes(a, x)
    BY <1>2, <1>3 DEF Becomes
  <1>5. SameRows
    BY AllUnchanged DEF Sign
  <1>6. thread'[a] = x
    BY <1>0, <1>4, BecomesView
  <1>7. ThreadOK(a)'
    <2>1. Seen(a)'
      BY <1>2, <1>5, <1>6, RevsGrow DEF Seen
    <2>2. Bound(a)' /\ Prepared(a)' /\ Fenced(a)' /\ Refused(a)'
      BY <1>0, <1>2, <1>6 DEF Bound, Prepared, Fenced, Refused, Ticking
    <2> QED
      BY <2>1, <2>2 DEF ThreadOK
  <1> QED
    BY <1>0, <1>4, <1>5, <1>7, Moved

\* A thread in the middle of its command goes on without news.
LEMMA GotoOnce ==
    ASSUME OnceInv, SameRows, NEW t \in Threads, NEW pc \in Pcs, Goto(t, pc),
           thread[t].pc # "claim",
           pc \in Ticking => thread[t].pc \in Ticking,
           pc \in Commanding => thread[t].pc \in Commanding,
           pc \notin {"claim", "save", "advancing", "load", "refuse"},
           pc = "reject" => thread[t].pc = "refuse"
    PROVE  OnceInv'
  <1>1. TypeOK /\ thread[t].rev <= run.rev
    BY DEF OnceInv, ThreadOK, Seen
  <1>2. thread[t].rev \in Nat /\ thread[t].rev <= run'.rev
    BY <1>1, ThreadFields, RevsGrow
  <1> QED
    BY <1>1, <1>2, GotoBecomes, GoesOn

\* The binding keeps its status and its receipt.
LEMMA BindingKept ==
    ASSUME OnceInv, UNCHANGED <<run, applied, receipt, bound>>, binding' \in BindingRow,
           binding'.rev = binding.rev, binding'.receipt = binding.receipt
    PROVE  SameRows
  <1>1. receipt' \in [Commands -> ReceiptRow] /\ bound' \in Counts
    BY AllUnchanged DEF OnceInv, TypeOK
  <1> QED
    BY <1>1, RowsKept

LEMMA ClaimCommandOnce ==
    ASSUME OnceInv, NEW t \in Threads, ClaimCommand(t)
    PROVE  OnceInv'
  <1> DEFINE c == thread[t].cmd
  <1>0. /\ TypeOK /\ RowsOK /\ ThreadOK(t) /\ thread[t].pc = "claim_command"
        /\ UNCHANGED <<run, applied, receipt, bound>>
    BY DEF OnceInv, ClaimCommand, At
  <1>1. CASE Goto(t, "release") /\ binding' = binding
    <2>1. SameRows
      BY <1>0, <1>1, AllUnchanged
    <2> QED
      BY <1>0, <1>1, <2>1, GotoOnce DEF Commanding, Ticking, Pcs
  <1>2. CASE /\ binding' = [binding EXCEPT !.claim = c, !.claimLive = TRUE]
             /\ Goto(t, "load")
             /\ binding.receipt \in {None, c}
    <2>1. c \in AnyCommand
      BY <1>0 DEF ThreadOK, Bound, Commanding, Ticking
    <2>2. binding' \in BindingRow /\ binding'.rev = binding.rev /\ binding'.receipt = binding.receipt
      BY <1>0, <1>2, <2>1 DEF TypeOK, BindingRow
    <2>3. SameRows
      BY <1>0, <2>2, BindingKept
    <2>4. PICK x : /\ Becomes(t, x) /\ x.pc = "load" /\ x.cmd = thread[t].cmd
                   /\ x.exp = thread[t].exp /\ x.rev = thread[t].rev
      BY <1>0, <1>2, GotoBecomes DEF Pcs
    <2>5. thread'[t] = x
      BY <1>0, <2>4, BecomesView
    <2>6. Seen(t)'
      BY <1>0, <2>3, <2>4, <2>5, RevsGrow, ThreadFields DEF ThreadOK, Seen
    <2>7. Bound(t)'
      BY <1>0, <2>4, <2>5 DEF ThreadOK, Bound, Commanding, Ticking
    <2>8. Fenced(t)'
      <3> SUFFICES ASSUME NEW d \in Commands, binding'.receipt = d
                   PROVE  thread[t].exp <= receipt[d].exp
        BY <1>0, <2>4, <2>5 DEF Fenced
      <3>1. d = c
        BY <1>2, <2>2, Names
      <3>2. thread[t].exp = receipt[d].exp /\ receipt[d].exp \in Nat
        BY <1>0, <3>1, ReceiptFields DEF ThreadOK, Bound
      <3> QED
        BY <3>2
    <2>9. Prepared(t)' /\ Refused(t)'
      BY <2>4, <2>5 DEF Prepared, Refused
    <2> QED
      BY <2>3, <2>4, <2>6, <2>7, <2>8, <2>9, Moved DEF ThreadOK
  <1> QED
    BY <1>1, <1>2 DEF ClaimCommand

\* A command that is refused under its open receipt is never taken.
LEMMA RefusalFinal ==
    ASSUME OnceInv, NEW t \in Threads, thread[t].pc = "load",
           run.last # thread[t].cmd,
           ~ (run.rev = thread[t].exp /\ thread[t].cmd \notin Denied /\ run.rev < Last),
           thread[t].cmd \in Commands, binding.receipt = thread[t].cmd
    PROVE  Never(thread[t].cmd)
  <1> DEFINE c == thread[t].cmd
  <1>0. TypeOK /\ RowsOK /\ ThreadOK(t)
    BY DEF OnceInv
  <1>1. /\ run.rev \in Nat /\ binding.rev \in Nat /\ receipt[c].exp \in Nat /\ Last \in Nat
        /\ applied[c] \in Nat
    BY <1>0, RunFields, BindingFields, ReceiptFields, Names DEF TypeOK
  <1>2. applied[c] = 0
    BY <1>0, <1>1 DEF RowsOK, TakenOnce
  <1>3. thread[t].exp = receipt[c].exp
    BY <1>0 DEF ThreadOK, Bound
  <1>4. receipt[c].exp <= run.rev
    BY <1>0, <1>1 DEF RowsOK, StatusFollows
  <1> QED
    BY <1>1, <1>2, <1>3, <1>4 DEF Never

LEMMA LoadOnce ==
    ASSUME OnceInv, NEW t \in Threads, Load(t)
    PROVE  OnceInv'
  <1> DEFINE c == thread[t].cmd
             ready == run.rev = thread[t].exp /\ c \notin Denied /\ run.rev < Last
  <1>0. /\ TypeOK /\ RowsOK /\ ThreadOK(t) /\ thread[t].pc = "load"
        /\ UNCHANGED <<run, applied, binding, receipt, bound>>
    BY DEF OnceInv, Load, At
  <1>1. SameRows
    BY <1>0, AllUnchanged
  <1>a. run.rev # Last <=> run.rev < Last
    BY <1>0, RunFields, DispatchAssumption
  <1>2. PICK pc \in {"finish", "save", "release", "refuse"} :
              /\ thread' = [thread EXCEPT ![t] = [@ EXCEPT !.pc = pc, !.rev = run.rev]]
              /\ pc = "save" => ready
              /\ pc = "refuse" => run.last # c /\ ~ ready
    BY <1>a DEF Load, Adopts
  <1> DEFINE x == [thread[t] EXCEPT !.pc = pc, !.rev = run.rev]
  <1>3. /\ x \in ThreadState /\ x.pc = pc /\ x.rev = run.rev
        /\ x.cmd = c /\ x.exp = thread[t].exp
    <2>1. thread[t] \in ThreadState /\ run.rev \in 0 .. Last
      BY <1>0, ThreadFields, RunFields
    <2> QED
      BY <2>1 DEF ThreadState
  <1>4. thread' = [thread EXCEPT ![t] = x]
    BY <1>2
  <1> HIDE DEF x
  <1>5. Becomes(t, x)
    BY <1>3, <1>4 DEF Becomes
  <1>6. thread'[t] = x
    BY <1>0, <1>5, BecomesView
  <1>7. Seen(t)'
    BY <1>0, <1>1, <1>3, <1>6, RevsGrow DEF ThreadOK, Seen
  <1>8. Bound(t)'
    BY <1>0, <1>3, <1>6 DEF ThreadOK, Bound, Commanding, Ticking
  <1>9. Prepared(t)'
    BY <1>2, <1>3, <1>6 DEF Prepared
  <1>10. Fenced(t)'
    BY <1>0, <1>2, <1>3, <1>6 DEF ThreadOK, Fenced
  <1>11. Refused(t)'
    <2> SUFFICES ASSUME pc = "refuse", c \in Commands, binding.receipt = c
                 PROVE  Never(c)'
      BY <1>0, <1>2, <1>3, <1>6 DEF Refused
    <2>1. Never(c)
      BY <1>0, <1>2, RefusalFinal
    <2> QED
      BY <1>1, <1>3, <1>6, <2>1, RevsGrow
  <1> QED
    BY <1>1, <1>5, <1>7, <1>8, <1>9, <1>10, <1>11, Moved DEF ThreadOK

\* The command that is saved was not taken before, and no other command that
\* was taken has its receipt open.
LEMMA SavedIsFirst ==
    ASSUME OnceInv, NEW t \in Threads, thread[t].pc = "save", run.rev = thread[t].rev
    PROVE  /\ run.rev < Last
           /\ thread[t].cmd \in AnyCommand
           /\ thread[t].cmd \in Commands =>
                 /\ applied[thread[t].cmd] = 0
                 /\ ~ Never(thread[t].cmd)
                 /\ receipt[thread[t].cmd].exp = run.rev
                 /\ receipt[thread[t].cmd].state # "absent"
           /\ \A d \in Commands : applied[d] > 0 => binding.receipt # d
  <1> DEFINE c == thread[t].cmd
  <1>0. TypeOK /\ RowsOK /\ ThreadOK(t)
    BY DEF OnceInv
  <1>1. run.rev \in Nat /\ Last \in Nat /\ \A d \in Commands : receipt[d].exp \in Nat /\ applied[d] \in Nat
    BY <1>0, RunFields, ReceiptFields, Names DEF TypeOK
  <1>2. c \in AnyCommand /\ run.rev = thread[t].exp /\ run.rev < Last /\ c \notin Denied
    BY <1>0 DEF ThreadOK, Bound, Prepared, Commanding
  <1>3. ASSUME c \in Commands
        PROVE  applied[c] = 0 /\ ~ Never(c) /\ receipt[c].exp = run.rev /\ receipt[c].state # "absent"
    <2>1. receipt[c].exp = run.rev /\ receipt[c].state # "absent"
      BY <1>0, <1>2, <1>3 DEF ThreadOK, Bound
    <2>2. applied[c] = 0
      BY <1>0, <1>1, <1>3, <2>1 DEF RowsOK, TakenOnce
    <2>3. ~ Never(c)
      BY <1>1, <1>2, <1>3, <2>1 DEF Never
    <2> QED
      BY <2>1, <2>2, <2>3
  <1>4. ASSUME NEW d \in Commands, applied[d] > 0, binding.receipt = d PROVE FALSE
    <2>1. run.rev > receipt[d].exp
      BY <1>0, <1>4 DEF RowsOK, TakenOnce
    <2>2. run.rev <= receipt[d].exp
      BY <1>0, <1>2, <1>4 DEF ThreadOK, Fenced
    <2> QED
      BY <1>1, <2>1, <2>2
  <1> QED
    BY <1>2, <1>3, <1>4

LEMMA SaveOnce ==
    ASSUME OnceInv, NEW t \in Threads, Save(t)
    PROVE  OnceInv'
  <1> DEFINE c == thread[t].cmd
  <1>0. /\ TypeOK /\ RowsOK /\ ThreadOK(t) /\ thread[t].pc = "save"
        /\ UNCHANGED <<binding, receipt, bound>>
    BY DEF OnceInv, Save, At
  <1>1. CASE Goto(t, "release") /\ UNCHANGED <<run, applied>>
    <2>1. SameRows
      BY <1>0, <1>1, AllUnchanged
    <2> QED
      BY <1>0, <1>1, <2>1, GotoOnce DEF Commanding, Ticking, Pcs
  <1>2. CASE /\ run.rev = thread[t].rev
             /\ run' = [rev |-> run.rev + 1, last |-> c]
             /\ applied' = [applied EXCEPT ![c] = @ + 1]
             /\ thread' = [thread EXCEPT ![t] = [@ EXCEPT !.pc = "finish", !.rev = run.rev + 1]]
    <2>1. run.rev < Last /\ c \in AnyCommand
      BY <1>0, <1>2, SavedIsFirst
    <2>2. /\ c \in Commands => /\ applied[c] = 0 /\ ~ Never(c)
                               /\ receipt[c].exp = run.rev /\ receipt[c].state # "absent"
          /\ \A d \in Commands : applied[d] > 0 => binding.receipt # d
      BY <1>0, <1>2, SavedIsFirst
    <2>3. PICK n \in Nat : n = run.rev + 1 /\ n \in 1 .. Last /\ n \in 0 .. Last /\ run.rev < n
      BY <1>0, <2>1, RunFields, Names
    <2>4. /\ run' \in [rev : 1 .. Last, last : AnyCommand \cup {None}]
          /\ run'.rev = n /\ run'.last = c
      BY <1>2, <2>1, <2>3
    <2>5. /\ applied' \in [AnyCommand -> Nat]
          /\ \A d \in AnyCommand : d # c => applied'[d] = applied[d]
          /\ applied'[c] = applied[c] + 1
      BY <1>0, <1>2, <2>1 DEF TypeOK
    <2> DEFINE x == [thread[t] EXCEPT !.pc = "finish", !.rev = n]
    <2>6. /\ x \in ThreadState /\ x.pc = "finish" /\ x.rev = n
          /\ x.cmd = c /\ x.exp = thread[t].exp
      <3>1. thread[t] \in ThreadState
        BY <1>0, ThreadFields
      <3> QED
        BY <2>3, <3>1 DEF ThreadState
    <2>7. thread' = [thread EXCEPT ![t] = x]
      BY <1>2, <2>3
    <2> HIDE DEF x
    <2>8. Becomes(t, x)
      BY <2>6, <2>7 DEF Becomes
    <2>9. /\ thread' \in [Threads -> ThreadState] /\ thread'[t] = x
          /\ \A u \in Threads : u # t => thread'[u] = thread[u]
      BY <1>0, <2>8, BecomesView
    <2>10. TypeOK'
      BY <1>0, <2>4, <2>5, <2>9 DEF TypeOK
    <2>11. /\ run.rev \in Nat /\ run'.rev \in Nat /\ run.rev < run'.rev
           /\ binding.rev \in Nat /\ binding.rev <= run.rev
           /\ \A d \in Commands : receipt[d].exp \in Nat /\ applied[d] \in Nat /\ d \in AnyCommand
      BY <1>0, <2>3, <2>4, RunFields, BindingFields, ReceiptFields, Names
         DEF TypeOK, RowsOK, StatusFollows
    <2>12. \A d \in Commands : Never(d) => Never(d)' /\ d # c
      <3> SUFFICES ASSUME NEW d \in Commands, Never(d) PROVE Never(d)' /\ d # c
        OBVIOUS
      <3>1. d # c
        BY <2>2
      <3>2. applied'[d] = applied[d]
        BY <2>5, <2>11, <3>1
      <3> QED
        BY <1>0, <2>11, <3>1, <3>2 DEF Never
    <2>13. Grows
      BY <1>0, <2>11, <2>12 DEF Grows
    <2>14. StatusFollows'
      BY <1>0, <2>11 DEF RowsOK, StatusFollows
    <2>15. OneOpenReceipt'
      BY <1>0 DEF RowsOK, OneOpenReceipt
    <2>16. TakenOnce'
      <3> SUFFICES ASSUME NEW d \in Commands
                   PROVE  /\ applied'[d] > 0 =>
                                /\ applied'[d] = 1
                                /\ receipt[d].state # "absent"
                                /\ run'.rev > receipt[d].exp
                                /\ binding.receipt = d => run'.last = d
                          /\ receipt[d].state = "rejected" => Never(d)'
        BY <1>0 DEF TakenOnce
      <3>1. receipt[d].state = "rejected" => Never(d)'
        BY <1>0, <2>12 DEF RowsOK, TakenOnce
      <3>2. CASE d = c
        BY <2>2, <2>4, <2>5, <2>11, <3>1, <3>2
      <3>3. CASE d # c
        <4>1. applied'[d] = applied[d]
          BY <2>5, <2>11, <3>3
        <4>2. applied[d] > 0 => /\ applied[d] = 1
                                /\ receipt[d].state # "absent"
                                /\ run.rev > receipt[d].exp
          BY <1>0 DEF RowsOK, TakenOnce
        <4> QED
          BY <2>2, <2>11, <3>1, <4>1, <4>2
      <3> QED
        BY <3>2, <3>3
    <2>17. ThreadOK(t)'
      <3>1. Seen(t)'
        BY <1>0, <2>4, <2>6, <2>9 DEF ThreadOK, Seen
      <3>2. Bound(t)'
        BY <1>0, <2>6, <2>9 DEF ThreadOK, Bound, Commanding, Ticking
      <3>3. Prepared(t)' /\ Fenced(t)' /\ Refused(t)'
        BY <2>6, <2>9 DEF Prepared, Fenced, Refused
      <3> QED
        BY <3>1, <3>2, <3>3 DEF ThreadOK
    <2>18. \A u \in Threads : ThreadOK(u)'
      BY <1>0, <2>9, <2>10, <2>13, <2>17, ThreadFrame DEF OnceInv, RowsOK
    <2> QED
      BY <2>10, <2>14, <2>15, <2>16, <2>18 DEF OnceInv, RowsOK
  <1> QED
    BY <1>1, <1>2 DEF Save, Unchanged

\* The status moves on to what the thread has seen of the run.
LEMMA StatusMoves ==
    ASSUME OnceInv, UNCHANGED <<run, applied, receipt, bound>>, NEW t \in Threads,
           binding' \in BindingRow, binding'.rev = thread[t].rev,
           binding'.receipt = binding.receipt, thread[t].rev >= binding.rev
    PROVE  SameRows
  <1>1. TypeOK /\ thread[t].rev <= run.rev
    BY DEF OnceInv, ThreadOK, Seen
  <1>2. run.rev \in Nat /\ binding.rev \in Nat /\ thread[t].rev \in Nat
    BY <1>1, RunFields, BindingFields, ThreadFields
  <1>3. /\ run' \in [rev : 1 .. Last, last : AnyCommand \cup {None}] /\ bound' \in Counts
        /\ receipt' \in [Commands -> ReceiptRow]
    BY <1>1, AllUnchanged DEF TypeOK
  <1> QED
    BY <1>1, <1>2, <1>3 DEF SameRows

LEMMA FinishCommandOnce ==
    ASSUME OnceInv, NEW t \in Threads, FinishCommand(t)
    PROVE  OnceInv'
  <1>0. /\ TypeOK /\ thread[t].pc = "finish"
        /\ UNCHANGED <<run, applied, receipt, bound>>
    BY DEF OnceInv, FinishCommand, At
  <1>1. CASE Goto(t, "release") /\ binding' = binding
    <2>1. SameRows
      BY <1>0, <1>1, AllUnchanged
    <2> QED
      BY <1>0, <1>1, <2>1, GotoOnce DEF Commanding, Ticking, Pcs
  <1>2. CASE /\ thread[t].rev >= binding.rev
             /\ binding' = [binding EXCEPT !.rev = thread[t].rev, !.claim = None, !.claimLive = FALSE]
             /\ Returned(t)
    <2>1. thread[t].rev \in 1 .. Last
      BY <1>0, <1>2, BindingFields, ThreadFields
    <2>2. binding' \in BindingRow /\ binding'.rev = thread[t].rev /\ binding'.receipt = binding.receipt
      BY <1>0, <1>2, <2>1 DEF TypeOK, BindingRow
    <2>3. SameRows
      BY <1>0, <1>2, <2>2, StatusMoves
    <2>4. Goto(t, "done") \/ Goto(t, "heartbeat")
      BY <1>2 DEF Returned, Goto
    <2> QED
      BY <1>0, <2>3, <2>4, GotoOnce DEF Commanding, Ticking, Pcs
  <1> QED
    BY <1>1, <1>2 DEF FinishCommand

LEMMA ReleaseOnce ==
    ASSUME OnceInv, NEW t \in Threads, Release(t)
    PROVE  OnceInv'
  <1>0. /\ TypeOK /\ thread[t].pc \in {"release", "refuse"}
        /\ UNCHANGED <<run, applied, receipt, bound>>
    BY DEF OnceInv, Release
  <1>1. binding' \in BindingRow /\ binding'.rev = binding.rev /\ binding'.receipt = binding.receipt
    BY <1>0 DEF Release, Freed, TypeOK, BindingRow
  <1>2. SameRows
    BY <1>0, <1>1, BindingKept
  <1>3. \/ Goto(t, "done")
        \/ Goto(t, "reject") /\ thread[t].pc = "refuse"
        \/ Return(t)
    BY DEF Release, Goto, Return, At
  <1> QED
    BY <1>0, <1>2, <1>3, GotoOnce, ReturnOnce DEF Commanding, Ticking, Pcs

-----------------------------------------------------------------------------
(* Ticks, time and crashes. *)

LEMMA TickOnce ==
    ASSUME OnceInv, NEW t \in Tickers, Tick(t)
    PROVE  OnceInv'
  <1>0. TypeOK /\ t \in Threads /\ thread[t].pc = "idle" /\ Goto(t, "advance")
    BY DEF OnceInv, Tick, At, Threads
  <1>1. binding' \in BindingRow /\ binding'.rev = binding.rev /\ binding'.receipt = binding.receipt
    BY <1>0 DEF Tick, TypeOK, BindingRow
  <1>2. SameRows
    BY <1>1, BindingKept DEF Tick
  <1> QED
    BY <1>0, <1>2, GotoOnce DEF Commanding, Ticking, Pcs

LEMMA TickLoadOnce ==
    ASSUME OnceInv, NEW t \in Threads, TickLoad(t)
    PROVE  OnceInv'
  <1>0. TypeOK /\ ThreadOK(t) /\ thread[t].pc = "advance"
    BY DEF OnceInv, TickLoad, At
  <1>1. SameRows
    BY AllUnchanged DEF TickLoad
  <1>2. PICK pc \in {"advancing", "record"} :
              /\ thread' = [thread EXCEPT ![t] = [pc |-> pc, cmd |-> thread[t].cmd,
                                                  exp |-> binding.rev, rev |-> run.rev]]
              /\ pc = "advancing" => run.rev < Last
    BY DEF TickLoad
  <1> DEFINE x == [pc |-> pc, cmd |-> thread[t].cmd, exp |-> binding.rev, rev |-> run.rev]
  <1>3. /\ x \in ThreadState
        /\ x.pc = pc /\ x.cmd = None /\ x.exp = binding.rev /\ x.rev = run.rev
    <2>1. run.rev \in 0 .. Last /\ binding.rev \in 0 .. Last /\ thread[t].cmd = None
      BY <1>0, RunFields, BindingFields DEF ThreadOK, Bound, Ticking
    <2> QED
      BY <2>1 DEF ThreadState
  <1>4. thread' = [thread EXCEPT ![t] = x]
    BY <1>2
  <1> HIDE DEF x
  <1>5. Becomes(t, x)
    BY <1>3, <1>4 DEF Becomes
  <1>6. thread'[t] = x
    BY <1>0, <1>5, BecomesView
  <1>7. Seen(t)'
    BY <1>1, <1>3, <1>6, RevsGrow DEF Seen
  <1>8. Bound(t)' /\ Prepared(t)' /\ Fenced(t)' /\ Refused(t)'
    BY <1>2, <1>3, <1>6, Names DEF Bound, Prepared, Fenced, Refused, Commanding
  <1> QED
    BY <1>1, <1>5, <1>7, <1>8, Moved DEF ThreadOK

LEMMA TickSaveOnce ==
    ASSUME OnceInv, NEW t \in Threads, TickSave(t)
    PROVE  OnceInv'
  <1>0. /\ TypeOK /\ RowsOK /\ ThreadOK(t) /\ thread[t].pc = "advancing"
        /\ UNCHANGED <<applied, binding, receipt, bound>>
    BY DEF OnceInv, TickSave, At
  <1>1. CASE Goto(t, "yield") /\ run' = run
    <2>1. SameRows
      BY <1>0, <1>1, AllUnchanged
    <2> QED
      BY <1>0, <1>1, <2>1, GotoOnce DEF Commanding, Ticking, Pcs
  <1>2. CASE /\ run.rev = thread[t].rev
             /\ run' = [run EXCEPT !.rev = @ + 1]
             /\ thread' = [thread EXCEPT ![t] = [@ EXCEPT !.pc = "record", !.rev = run.rev + 1]]
    <2>1. run.rev < Last
      BY <1>0, <1>2 DEF ThreadOK, Prepared
    <2>2. PICK n \in Nat : n = run.rev + 1 /\ n \in 1 .. Last /\ n \in 0 .. Last /\ run.rev < n
      BY <1>0, <2>1, RunFields, Names
    <2>3. run' = [run EXCEPT !.rev = n]
      BY <1>2, <2>2
    <2>4. /\ run' \in [rev : 1 .. Last, last : AnyCommand \cup {None}]
          /\ run'.rev = n /\ run'.last = run.last
      BY <1>0, <2>2, <2>3 DEF TypeOK
    <2>5. SameRows
      <3>1. /\ run.rev \in Nat /\ binding.rev \in Nat /\ binding.rev <= run.rev /\ run.rev <= n
        BY <1>0, <2>2, RunFields, BindingFields DEF RowsOK, StatusFollows
      <3>2. binding' \in BindingRow /\ bound' \in Counts /\ receipt' \in [Commands -> ReceiptRow]
        BY <1>0, AllUnchanged DEF TypeOK
      <3> QED
        BY <1>0, <2>4, <3>1, <3>2 DEF SameRows
    <2> DEFINE x == [thread[t] EXCEPT !.pc = "record", !.rev = n]
    <2>6. /\ x \in ThreadState /\ x.pc = "record" /\ x.rev = n
          /\ x.cmd = thread[t].cmd /\ x.exp = thread[t].exp
      <3>1. thread[t] \in ThreadState
        BY <1>0, ThreadFields
      <3> QED
        BY <2>2, <3>1 DEF ThreadState
    <2>7. thread' = [thread EXCEPT ![t] = x]
      BY <1>2, <2>2
    <2> HIDE DEF x
    <2>8. Becomes(t, x) /\ x.rev <= run'.rev
      BY <2>4, <2>6, <2>7 DEF Becomes
    <2> QED
      BY <1>0, <2>5, <2>6, <2>8, GoesOn DEF Commanding, Ticking
  <1> QED
    BY <1>1, <1>2 DEF TickSave, Unchanged

LEMMA TickRecordOnce ==
    ASSUME OnceInv, NEW t \in Threads, TickRecord(t)
    PROVE  OnceInv'
  <1>0. /\ TypeOK /\ thread[t].pc = "record"
        /\ UNCHANGED <<run, applied, receipt, bound>>
    BY DEF OnceInv, TickRecord, At
  <1>1. CASE Goto(t, "yield") /\ binding' = binding
    <2>1. SameRows
      BY <1>0, <1>1, AllUnchanged
    <2> QED
      BY <1>0, <1>1, <2>1, GotoOnce DEF Commanding, Ticking, Pcs
  <1>2. CASE /\ thread[t].rev >= binding.rev
             /\ binding' = [binding EXCEPT !.rev = thread[t].rev, !.sched = None, !.schedLive = FALSE]
             /\ Return(t)
    <2>1. thread[t].rev \in 1 .. Last
      BY <1>0, <1>2, BindingFields, ThreadFields
    <2>2. binding' \in BindingRow /\ binding'.rev = thread[t].rev /\ binding'.receipt = binding.receipt
      BY <1>0, <1>2, <2>1 DEF TypeOK, BindingRow
    <2>3. SameRows
      BY <1>0, <1>2, <2>2, StatusMoves
    <2> QED
      BY <1>2, <2>3, ReturnOnce
  <1> QED
    BY <1>1, <1>2 DEF TickRecord, MayRecord

LEMMA TickYieldOnce ==
    ASSUME OnceInv, NEW t \in Threads, TickYield(t)
    PROVE  OnceInv'
  <1>0. TypeOK /\ UNCHANGED <<run, applied, receipt, bound>> /\ Return(t)
    BY DEF OnceInv, TickYield
  <1>1. binding' \in BindingRow /\ binding'.rev = binding.rev /\ binding'.receipt = binding.receipt
    BY <1>0 DEF TickYield, TypeOK, BindingRow
  <1> QED
    BY <1>0, <1>1, BindingKept, ReturnOnce

\* Nobody moves.
LEMMA Waits ==
    ASSUME OnceInv, SameRows, thread' = thread
    PROVE  OnceInv'
  <1>1. thread' \in [Threads -> ThreadState]
    BY DEF OnceInv, TypeOK
  <1> QED
    BY <1>1, RowsSame

LEMMA ExpireReceiptOnce ==
    ASSUME OnceInv, NEW c \in Commands, NEW slow \in 0 .. 1, ExpireReceipt(c, slow)
    PROVE  OnceInv'
  <1> DEFINE r == [receipt[c] EXCEPT !.live = FALSE]
  <1>0. TypeOK /\ receipt[c] \in ReceiptRow
    BY ReceiptFields DEF OnceInv
  <1>1. r \in ReceiptRow /\ r.exp = receipt[c].exp /\ r.state = receipt[c].state
    BY <1>0 DEF ReceiptRow
  <1>2. receipt' = [receipt EXCEPT ![c] = r]
    BY DEF ExpireReceipt
  <1> HIDE DEF r
  <1>3. bound' \in Counts
    <2>1. bound' = [bound EXCEPT !.slow = @ + slow]
      BY DEF ExpireReceipt, MaySlow
    <2> QED
      BY <2>1, AllUnchanged, Counted
  <1>4. /\ receipt' \in [Commands -> ReceiptRow]
        /\ receipt'[c] = r
        /\ \A d \in Commands : receipt'[d].exp = receipt[d].exp
        /\ \A d \in Commands : d # c => receipt'[d] = receipt[d]
    BY <1>0, <1>1, <1>2, DrivenRow
  <1>5. \A d \in Commands : receipt'[d].state = receipt[d].state
    BY <1>1, <1>4
  <1>6. UNCHANGED <<run, applied, binding, thread>> /\ binding' \in BindingRow
    BY <1>0 DEF ExpireReceipt, TypeOK
  <1>7. SameRows
    BY <1>3, <1>4, <1>5, <1>6, RowsKept
  <1> QED
    BY <1>6, <1>7, Waits

LEMMA ExpireSchedulerOnce ==
    ASSUME OnceInv, NEW slow \in 0 .. 1, ExpireScheduler(slow)
    PROVE  OnceInv'
  <1>0. TypeOK /\ UNCHANGED <<run, applied, receipt, thread>>
    BY DEF OnceInv, ExpireScheduler
  <1>1. binding' \in BindingRow /\ binding'.rev = binding.rev /\ binding'.receipt = binding.receipt
    BY <1>0 DEF ExpireScheduler, TypeOK, BindingRow
  <1>2. bound' \in Counts
    <2>1. bound' = [bound EXCEPT !.slow = @ + slow]
      BY DEF ExpireScheduler, MaySlow
    <2> QED
      BY <2>1, AllUnchanged, Counted
  <1>3. receipt' \in [Commands -> ReceiptRow]
    BY <1>0 DEF TypeOK
  <1>4. SameRows
    BY <1>0, <1>1, <1>2, <1>3, RowsKept
  <1> QED
    BY <1>0, <1>4, Waits

LEMMA ExpireClaimOnce ==
    ASSUME OnceInv, ExpireClaim
    PROVE  OnceInv'
  <1>0. TypeOK /\ UNCHANGED <<run, applied, receipt, thread, bound>>
    BY DEF OnceInv, ExpireClaim
  <1>1. binding' \in BindingRow /\ binding'.rev = binding.rev /\ binding'.receipt = binding.receipt
    BY <1>0 DEF ExpireClaim, TypeOK, BindingRow
  <1> QED
    BY <1>0, <1>1, BindingKept, Waits

LEMMA CrashOnce ==
    ASSUME OnceInv, NEW t \in Threads, Crash(t)
    PROVE  OnceInv'
  <1>1. PICK pc \in {"idle", "done"} : thread' = [thread EXCEPT ![t] = [Idle EXCEPT !.pc = pc]]
    BY DEF Crash
  <1> DEFINE x == [Idle EXCEPT !.pc = pc]
  <1>2. x \in ThreadState /\ x.pc = pc /\ x.cmd = None /\ x.exp = 0 /\ x.rev = 0
    BY Names DEF Idle, ThreadState
  <1>3. thread' = [thread EXCEPT ![t] = x]
    BY <1>1
  <1> HIDE DEF x
  <1>4. Becomes(t, x)
    BY <1>2, <1>3 DEF Becomes
  <1>5. bound' \in Counts
    <2>1. bound' = [bound EXCEPT !.crashes = @ + 1]
      BY DEF Crash
    <2> QED
      BY <2>1, AllUnchanged, Counted
  <1>6. SameRows
    BY <1>5, AllUnchanged DEF Crash
  <1> QED
    BY <1>2, <1>4, <1>6, Rests

-----------------------------------------------------------------------------
(* The theorem. *)

LEMMA InitOnce ==
    ASSUME Init
    PROVE  OnceInv
  <1>1. 1 \in 1 .. Last /\ 0 \in 0 .. Last
    BY Names
  <1>2. run \in [rev : 1 .. Last, last : AnyCommand \cup {None}] /\ run.rev = 1
    BY <1>1 DEF Init
  <1>3. binding \in BindingRow /\ binding.rev = 1 /\ binding.receipt = None
    BY <1>1 DEF Init, BindingRow
  <1>4. /\ receipt \in [Commands -> ReceiptRow]
        /\ \A c \in Commands : receipt[c].state = "absent" /\ receipt[c].exp = 0
    <2>1. NoReceipt \in ReceiptRow /\ NoReceipt.state = "absent" /\ NoReceipt.exp = 0
      BY <1>1 DEF NoReceipt, ReceiptRow
    <2> QED
      BY <2>1 DEF Init
  <1>5. /\ thread \in [Threads -> ThreadState]
        /\ \A t \in Threads : thread[t].pc = "idle" /\ thread[t].cmd = None
                              /\ thread[t].exp = 0 /\ thread[t].rev = 0
    <2>1. Idle \in ThreadState /\ Idle.pc = "idle" /\ Idle.cmd = None /\ Idle.exp = 0 /\ Idle.rev = 0
      BY <1>1 DEF Idle, ThreadState
    <2> QED
      BY <2>1 DEF Init
  <1>6. applied \in [AnyCommand -> Nat] /\ \A c \in Commands : applied[c] = 0
    BY Names DEF Init, AnyCommand
  <1>7. TypeOK
    BY <1>2, <1>3, <1>4, <1>5, <1>6 DEF Init, TypeOK
  <1>8. RowsOK
    BY <1>2, <1>3, <1>4, <1>6, Names DEF RowsOK, StatusFollows, OneOpenReceipt, TakenOnce
  <1>9. \A t \in Threads : ThreadOK(t)
    BY <1>2, <1>3, <1>5, Names
       DEF ThreadOK, Seen, Bound, Prepared, Fenced, Refused, Commanding, Ticking
  <1> QED
    BY <1>7, <1>8, <1>9 DEF OnceInv

LEMMA NextOnce ==
    ASSUME OnceInv, [Next]_vars
    PROVE  OnceInv'
  <1>1. CASE \E t \in Requests, c \in Commands : Request(t, c)
    BY <1>1, RequestOnce DEF Threads
  <1>2. CASE \E t \in Drains, c \in Commands : DrainClaims(t, c)
    BY <1>2, ClaimReceiptOnce DEF DrainClaims, Threads
  <1>3. CASE \E a \in Plain : Sign(a)
    BY <1>3, SignOnce
  <1>4. CASE \E t \in Tickers : Tick(t)
    BY <1>4, TickOnce
  <1>5. CASE \E t \in Threads : Continue(t) \/ Crash(t)
    BY <1>5, RequestClaimsOnce, GiveUpOnce, ReadStatusOnce, HeartbeatOnce, CompleteOnce,
       RejectOnce, ClaimCommandOnce, LoadOnce, SaveOnce, FinishCommandOnce, ReleaseOnce,
       TickLoadOnce, TickSaveOnce, TickRecordOnce, TickYieldOnce, CrashOnce DEF Continue
  <1>6. CASE \E c \in Commands, slow \in 0 .. 1 : ExpireReceipt(c, slow)
    BY <1>6, ExpireReceiptOnce
  <1>7. CASE \E slow \in 0 .. 1 : ExpireScheduler(slow)
    BY <1>7, ExpireSchedulerOnce
  <1>8. CASE ExpireClaim
    BY <1>8, ExpireClaimOnce
  <1>9. CASE UNCHANGED vars
    BY <1>9, AllUnchanged, Waits DEF vars
  <1> QED
    BY <1>1, <1>2, <1>3, <1>4, <1>5, <1>6, <1>7, <1>8, <1>9 DEF Next

LEMMA OnceAlways == Spec => []OnceInv
  BY InitOnce, NextOnce, PTL DEF Spec

\* However many threads drive a receipt, and whichever of their leases and
\* claims run out, the run takes its command at most once, and never takes
\* one whose receipt was rejected.
THEOREM CommandsTakenOnce == Spec => []AppliedOnce
  <1>1. OnceInv => AppliedOnce
    <2> SUFFICES ASSUME OnceInv, NEW c \in Commands
                 PROVE  applied[c] <= IF receipt[c].state = "rejected" THEN 0 ELSE 1
      BY DEF AppliedOnce
    <2>1. applied[c] \in Nat
      BY Names DEF OnceInv, TypeOK
    <2>2. applied[c] > 0 => applied[c] = 1
      BY DEF OnceInv, RowsOK, TakenOnce
    <2>3. receipt[c].state = "rejected" => applied[c] = 0
      BY DEF OnceInv, RowsOK, TakenOnce, Never
    <2> QED
      BY <2>1, <2>2, <2>3
  <1> QED
    BY <1>1, OnceAlways, PTL

-----------------------------------------------------------------------------
(* Where no dispatch outlives its claim, a completed receipt is that of a    *)
(* command the run has taken.                                                *)

Dispatching == {"load", "save", "finish"}

\* Only thread t moves, what was taken stays taken, and a receipt that is
\* open now was open before, or is new.
OneMoves(t) ==
    /\ \A u \in Threads : u # t => thread'[u] = thread[u]
    /\ \A c \in Commands : applied[c] > 0 => applied'[c] > 0
    /\ \A c \in Commands :
          binding'.receipt = c => binding.receipt = c \/ receipt[c].state = "absent"

LEMMA OthersEndWell ==
    ASSUME OnceInv, HeldInv, NEW t, OneMoves(t), NEW u \in Threads, u # t
    PROVE  EndsWell(u)'
  <1>1. thread'[u] = thread[u] /\ EndsWell(u) /\ Bound(u)
    BY DEF OneMoves, HeldInv, OnceInv, ThreadOK
  <1>2. \A c \in Commands : /\ applied[c] > 0 => applied'[c] > 0
                            /\ binding'.receipt = c =>
                                   binding.receipt = c \/ receipt[c].state = "absent"
    BY DEF OneMoves
  <1> QED
    BY <1>1, <1>2 DEF EndsWell, Bound

LEMMA HeldFrom ==
    ASSUME OnceInv, HeldInv, NEW t \in Threads, OneMoves(t), EndsWell(t)',
           ClaimsHeld', StatusIsOwn', CompletedWasApplied'
    PROVE  HeldInv'
  BY OthersEndWell DEF HeldInv

\* The receipts that are completed and the revisions they were staged at.
ReceiptsStay ==
    \A c \in Commands :
        /\ receipt'[c].exp = receipt[c].exp
        /\ receipt'[c].state = "completed" => receipt[c].state = "completed"

\* A thread moves, and neither the run nor the binding does.
LEMMA HeldMoves ==
    ASSUME OnceInv, HeldInv, NEW t \in Threads, UNCHANGED <<run, applied, binding>>, ReceiptsStay,
           \A u \in Threads : u # t => thread'[u] = thread[u],
           thread'[t].pc \in Dispatching =>
               thread[t].pc \in Dispatching /\ thread'[t].cmd = thread[t].cmd,
           EndsWell(t)'
    PROVE  HeldInv'
  <1>1. OneMoves(t)
    BY DEF OneMoves
  <1>2. ClaimsHeld'
    BY DEF HeldInv, ClaimsHeld, Dispatching
  <1>3. StatusIsOwn'
    BY DEF HeldInv, StatusIsOwn, ReceiptsStay
  <1>4. CompletedWasApplied'
    BY DEF HeldInv, CompletedWasApplied, ReceiptsStay
  <1> QED
    BY <1>1, <1>2, <1>3, <1>4, HeldFrom

\* A thread gives up a claim on the binding, or takes none.
LEMMA HeldReleases ==
    ASSUME OnceInv, HeldInv, NEW t \in Threads, UNCHANGED <<run, applied, receipt>>,
           binding'.rev = binding.rev, binding'.receipt = binding.receipt,
           \/ binding'.claim = binding.claim /\ binding'.claimLive = binding.claimLive
           \/ binding'.claim = None /\ binding'.claimLive = FALSE,
           \A u \in Threads : u # t => thread'[u] = thread[u],
           thread'[t].pc \notin Dispatching,
           EndsWell(t)'
    PROVE  HeldInv'
  <1>1. OneMoves(t)
    BY DEF OneMoves
  <1>2. ClaimsHeld'
    BY DEF HeldInv, ClaimsHeld, Dispatching
  <1>3. StatusIsOwn'
    BY DEF HeldInv, StatusIsOwn
  <1>4. CompletedWasApplied'
    BY DEF HeldInv, CompletedWasApplied
  <1> QED
    BY <1>1, <1>2, <1>3, <1>4, HeldFrom

LEMMA GotoView ==
    ASSUME TypeOK, NEW t \in Threads, NEW pc \in Pcs, Goto(t, pc)
    PROVE  /\ thread'[t].pc = pc /\ thread'[t].cmd = thread[t].cmd
           /\ thread'[t].exp = thread[t].exp /\ thread'[t].rev = thread[t].rev
           /\ \A u \in Threads : u # t => thread'[u] = thread[u]
  <1>1. PICK x : /\ Becomes(t, x) /\ x.pc = pc /\ x.cmd = thread[t].cmd
                 /\ x.exp = thread[t].exp /\ x.rev = thread[t].rev
    BY GotoBecomes
  <1> QED
    BY <1>1, BecomesView

LEMMA ReturnView ==
    ASSUME TypeOK, NEW t \in Threads, Return(t)
    PROVE  /\ thread'[t].pc = "idle" /\ thread'[t].cmd = None
           /\ \A u \in Threads : u # t => thread'[u] = thread[u]
  BY ReturnBecomes, BecomesView

\* A thread that is neither at its end nor has a command has nothing to show.
LEMMA EndsTrivially ==
    ASSUME NEW t, thread'[t].cmd = None \/ thread'[t].pc \notin {"finish", "heartbeat", "complete"}
    PROVE  EndsWell(t)'
  BY Names DEF EndsWell

LEMMA RequestHeld ==
    ASSUME OnceInv, HeldInv, NEW t \in Threads, NEW c \in Commands, Request(t, c)
    PROVE  HeldInv'
  <1> DEFINE x == [thread[t] EXCEPT !.pc = "claim", !.cmd = c]
  <1>0. TypeOK /\ RowsOK
    BY DEF OnceInv
  <1>1. x.pc = "claim" /\ thread' = [thread EXCEPT ![t] = x]
    <2>1. thread[t] \in ThreadState
      BY <1>0, ThreadFields
    <2> QED
      BY <2>1 DEF Request, ThreadState
  <1> HIDE DEF x
  <1>2. thread'[t].pc = "claim" /\ \A u \in Threads : u # t => thread'[u] = thread[u]
    BY <1>0, <1>1 DEF TypeOK
  <1>3. EndsWell(t)'
    BY <1>2, EndsTrivially
  <1>4. run' = run /\ applied' = applied
    BY DEF Request
  <1>5. CASE UNCHANGED <<binding, receipt>>
    <2>1. ReceiptsStay
      BY <1>5 DEF ReceiptsStay
    <2> QED
      BY <1>2, <1>3, <1>4, <1>5, <2>1, HeldMoves DEF Dispatching
  <1>6. CASE /\ receipt[c].state = "absent"
             /\ Stageable
             /\ receipt' = [receipt EXCEPT ![c] = [@ EXCEPT !.state = "pending",
                                                            !.exp = binding.rev]]
             /\ binding' = [binding EXCEPT !.receipt = c]
    <2> DEFINE r == [receipt[c] EXCEPT !.state = "pending", !.exp = binding.rev]
    <2>1. r.state = "pending" /\ r.exp = binding.rev
      <3>1. receipt[c] \in ReceiptRow
        BY <1>0, ReceiptFields
      <3> QED
        BY <3>1 DEF ReceiptRow
    <2>2. receipt' = [receipt EXCEPT ![c] = r]
      BY <1>6
    <2> HIDE DEF r
    <2>3. /\ receipt'[c].state = "pending" /\ receipt'[c].exp = binding.rev
          /\ \A d \in Commands : d # c => receipt'[d] = receipt[d]
      BY <1>0, <2>1, <2>2 DEF TypeOK
    <2>4. /\ binding'.rev = binding.rev /\ binding'.receipt = c
          /\ binding'.claim = binding.claim /\ binding'.claimLive = binding.claimLive
      BY <1>0, <1>6 DEF TypeOK, BindingRow
    <2>5. ~ binding.claimLive
      BY <1>6 DEF Stageable, ClaimFree, HeldInv, ClaimsHeld
    <2>6. OneMoves(t)
      BY <1>2, <1>4, <1>6, <2>4 DEF OneMoves
    <2>7. ClaimsHeld'
      BY <1>2, <2>4, <2>5 DEF HeldInv, ClaimsHeld
    <2>8. binding.rev \in Nat
      BY <1>0, BindingFields
    <2>9. StatusIsOwn'
      BY <1>4, <2>3, <2>4, <2>8 DEF HeldInv, StatusIsOwn
    <2>10. CompletedWasApplied'
      BY <1>4, <2>3 DEF HeldInv, CompletedWasApplied
    <2> QED
      BY <1>3, <2>6, <2>7, <2>9, <2>10, HeldFrom
  <1> QED
    BY <1>5, <1>6 DEF Request

LEMMA ClaimReceiptHeld ==
    ASSUME OnceInv, HeldInv, NEW t \in Threads, NEW c \in Commands, ClaimReceipt(t, c)
    PROVE  HeldInv'
  <1> DEFINE x == [pc |-> "status", cmd |-> c, exp |-> receipt[c].exp, rev |-> 0]
             r == [state |-> "dispatching", exp |-> receipt[c].exp, owner |-> t, live |-> TRUE]
  <1>0. TypeOK
    BY DEF OnceInv
  <1>1. /\ thread' = [thread EXCEPT ![t] = x] /\ receipt' = [receipt EXCEPT ![c] = r]
        /\ UNCHANGED <<run, applied, binding>>
    BY DEF ClaimReceipt
  <1>2. x.pc = "status" /\ r.state = "dispatching" /\ r.exp = receipt[c].exp
    OBVIOUS
  <1> HIDE DEF x, r
  <1>3. thread'[t].pc = "status" /\ \A u \in Threads : u # t => thread'[u] = thread[u]
    BY <1>0, <1>1, <1>2 DEF TypeOK
  <1>4. ReceiptsStay
    BY <1>0, <1>1, <1>2 DEF TypeOK, ReceiptsStay
  <1>5. EndsWell(t)'
    BY <1>3, EndsTrivially
  <1> QED
    BY <1>1, <1>3, <1>4, <1>5, HeldMoves DEF Dispatching

LEMMA ReceiptsSame ==
    ASSUME receipt' = receipt
    PROVE  ReceiptsStay
  BY DEF ReceiptsStay

\* A thread goes back to the start and the rows stay.
LEMMA ReturnHeld ==
    ASSUME OnceInv, HeldInv, NEW t \in Threads, Return(t), UNCHANGED <<run, applied, binding>>,
           ReceiptsStay
    PROVE  HeldInv'
  <1>1. TypeOK
    BY DEF OnceInv
  <1>2. /\ thread'[t].pc = "idle" /\ thread'[t].cmd = None
        /\ \A u \in Threads : u # t => thread'[u] = thread[u]
    BY <1>1, ReturnView
  <1>3. EndsWell(t)'
    BY <1>2, EndsTrivially
  <1> QED
    BY <1>2, <1>3, HeldMoves DEF Dispatching

\* A status that moved on under the open receipt shows its own command.
LEMMA ReadStatusHeld ==
    ASSUME OnceInv, HeldInv, NEW t \in Threads, ReadStatus(t)
    PROVE  HeldInv'
  <1>0. /\ TypeOK /\ ThreadOK(t) /\ thread[t].pc = "status" /\ thread[t] \in ThreadState
        /\ UNCHANGED <<run, applied, binding, receipt>>
    BY ThreadFields DEF OnceInv, ReadStatus, At
  <1>1. ReceiptsStay
    BY <1>0, ReceiptsSame
  <1>2. CASE thread' = [thread EXCEPT ![t] = [@ EXCEPT !.pc = "heartbeat", !.rev = binding.rev]]
    <2> DEFINE x == [thread[t] EXCEPT !.pc = "heartbeat", !.rev = binding.rev]
    <2>1. /\ x.pc = "heartbeat" /\ x.rev = binding.rev
          /\ x.cmd = thread[t].cmd /\ x.exp = thread[t].exp
      BY <1>0 DEF ThreadState
    <2>2. thread' = [thread EXCEPT ![t] = x]
      BY <1>2
    <2> HIDE DEF x
    <2>3. /\ thread'[t] = x
          /\ \A u \in Threads : u # t => thread'[u] = thread[u]
      BY <1>0, <2>2 DEF TypeOK
    <2>4. EndsWell(t)'
      <3> SUFFICES ASSUME thread[t].cmd \in Commands, binding.receipt = thread[t].cmd,
                          binding.rev > thread[t].exp
                   PROVE  applied[thread[t].cmd] > 0
        BY <1>0, <2>1, <2>3 DEF EndsWell
      <3>1. thread[t].exp = receipt[thread[t].cmd].exp
        BY <1>0 DEF ThreadOK, Bound
      <3> QED
        BY <3>1 DEF HeldInv, StatusIsOwn
    <2> QED
      BY <1>0, <1>1, <2>1, <2>3, <2>4, HeldMoves DEF Dispatching
  <1>3. CASE Goto(t, "claim_command")
    <2>1. /\ thread'[t].pc = "claim_command"
          /\ \A u \in Threads : u # t => thread'[u] = thread[u]
      BY <1>0, <1>3, GotoView DEF Pcs
    <2>2. EndsWell(t)'
      BY <2>1, EndsTrivially
    <2> QED
      BY <1>0, <1>1, <2>1, <2>2, HeldMoves DEF Dispatching
  <1> QED
    BY <1>2, <1>3 DEF ReadStatus, Goto

LEMMA HeartbeatHeld ==
    ASSUME OnceInv, HeldInv, NEW t \in Threads, Heartbeat(t)
    PROVE  HeldInv'
  <1>0. /\ TypeOK /\ thread[t].pc = "heartbeat"
        /\ UNCHANGED <<run, applied, binding, receipt>>
    BY DEF OnceInv, Heartbeat, At
  <1>1. ReceiptsStay
    BY <1>0, ReceiptsSame
  <1>2. CASE Goto(t, "complete")
    <2>1. /\ thread'[t].pc = "complete" /\ thread'[t].cmd = thread[t].cmd
          /\ thread'[t].exp = thread[t].exp /\ thread'[t].rev = thread[t].rev
          /\ \A u \in Threads : u # t => thread'[u] = thread[u]
      BY <1>0, <1>2, GotoView DEF Pcs
    <2>2. EndsWell(t)'
      BY <1>0, <2>1 DEF HeldInv, EndsWell
    <2> QED
      BY <1>0, <1>1, <2>1, <2>2, HeldMoves DEF Dispatching
  <1>3. CASE Return(t)
    BY <1>0, <1>1, <1>3, ReturnHeld
  <1> QED
    BY <1>2, <1>3 DEF Heartbeat

\* The receipt that is closed was driven by the thread that closes it.
LEMMA CloseHeld ==
    ASSUME OnceInv, HeldInv, NEW t \in Threads, NEW state \in {"completed", "rejected"},
           thread[t].pc \in {"complete", "reject"}, MayClose(t), CloseReceipt(t, state),
           state = "completed" => thread[t].pc = "complete" /\ thread[t].rev > thread[t].exp,
           UNCHANGED <<run, applied>>
    PROVE  HeldInv'
  <1> DEFINE c == thread[t].cmd
             r == Undriven(c, state)
  <1>0. TypeOK /\ RowsOK /\ ThreadOK(t)
    BY DEF OnceInv
  <1>1. c \in Commands /\ binding.receipt = c
    <2>1. c \in AnyCommand /\ binding.receipt = c
      BY <1>0 DEF ThreadOK, Bound, Commanding, MayClose
    <2>2. binding.receipt \in Commands \cup {None}
      BY <1>0, BindingFields
    <2> QED
      BY <2>1, <2>2, Names
  <1>2. r.state = state /\ r.exp = receipt[c].exp
    BY DEF Undriven
  <1>3. /\ receipt' = [receipt EXCEPT ![c] = r]
        /\ binding' = [binding EXCEPT !.receipt = None]
        /\ Return(t)
    BY DEF CloseReceipt
  <1> HIDE DEF r
  <1>4. /\ receipt'[c] = r
        /\ \A d \in Commands : d # c => receipt'[d] = receipt[d]
    BY <1>0, <1>1, <1>3 DEF TypeOK
  <1>5. /\ binding'.rev = binding.rev /\ binding'.receipt = None
        /\ binding'.claim = binding.claim /\ binding'.claimLive = binding.claimLive
    BY <1>0, <1>3 DEF TypeOK, BindingRow
  <1>6. /\ thread'[t].pc = "idle" /\ thread'[t].cmd = None
        /\ \A u \in Threads : u # t => thread'[u] = thread[u]
    BY <1>0, <1>3, ReturnView
  <1>7. EndsWell(t)'
    BY <1>6, EndsTrivially
  <1>8. OneMoves(t)
    BY <1>5, <1>6, Names DEF OneMoves
  <1>9. ClaimsHeld'
    BY <1>5, <1>6 DEF HeldInv, ClaimsHeld
  <1>10. StatusIsOwn'
    BY <1>5, Names DEF HeldInv, StatusIsOwn
  <1>11. CompletedWasApplied'
    <2>1. state = "completed" => applied[c] > 0
      BY <1>1 DEF HeldInv, EndsWell
    <2> QED
      BY <1>2, <1>4, <2>1 DEF HeldInv, CompletedWasApplied
  <1> QED
    BY <1>7, <1>8, <1>9, <1>10, <1>11, HeldFrom

LEMMA CompleteHeld ==
    ASSUME OnceInv, HeldInv, NEW t \in Threads, Complete(t)
    PROVE  HeldInv'
  <1>0. TypeOK /\ thread[t].pc = "complete" /\ UNCHANGED <<run, applied>>
    BY DEF OnceInv, Complete, At
  <1>1. CASE MayClose(t) /\ thread[t].rev > thread[t].exp /\ CloseReceipt(t, "completed")
    BY <1>0, <1>1, CloseHeld
  <1>2. CASE receipt' = receipt /\ binding' = binding /\ Return(t)
    BY <1>0, <1>2, ReceiptsSame, ReturnHeld
  <1>3. CASE /\ binding' = binding /\ Return(t)
             /\ receipt' = [receipt EXCEPT ![thread[t].cmd] = Undriven(thread[t].cmd, "pending")]
    <2> DEFINE c == thread[t].cmd
               r == Undriven(c, "pending")
    <2>1. r.state = "pending" /\ r.exp = receipt[c].exp
      BY DEF Undriven
    <2>2. receipt' = [receipt EXCEPT ![c] = r]
      BY <1>3
    <2> HIDE DEF r
    <2>3. ReceiptsStay
      BY <1>0, <2>1, <2>2 DEF TypeOK, ReceiptsStay
    <2> QED
      BY <1>0, <1>3, <2>3, ReturnHeld
  <1> QED
    BY <1>0, <1>1, <1>2, <1>3 DEF Complete

LEMMA RejectHeld ==
    ASSUME OnceInv, HeldInv, NEW t \in Threads, Reject(t)
    PROVE  HeldInv'
  <1>0. thread[t].pc = "reject" /\ UNCHANGED <<run, applied>>
    BY DEF Reject, At
  <1>1. CASE MayClose(t) /\ CloseReceipt(t, "rejected")
    BY <1>0, <1>1, CloseHeld
  <1>2. CASE receipt' = receipt /\ binding' = binding /\ Return(t)
    BY <1>0, <1>2, ReceiptsSame, ReturnHeld
  <1> QED
    BY <1>1, <1>2 DEF Reject

LEMMA SignHeld ==
    ASSUME OnceInv, HeldInv, NEW a \in Plain, Sign(a)
    PROVE  HeldInv'
  <1> DEFINE x == [pc |-> "claim_command", cmd |-> a, exp |-> binding.rev, rev |-> 0]
  <1>1. TypeOK /\ a \in Threads
    BY DEF OnceInv, Threads
  <1>2. x.pc = "claim_command" /\ thread' = [thread EXCEPT ![a] = x]
    BY DEF Sign
  <1> HIDE DEF x
  <1>3. thread'[a].pc = "claim_command" /\ \A u \in Threads : u # a => thread'[u] = thread[u]
    BY <1>1, <1>2 DEF TypeOK
  <1>4. EndsWell(a)'
    BY <1>3, EndsTrivially
  <1>5. UNCHANGED <<run, applied, binding, receipt>>
    BY DEF Sign
  <1> QED
    BY <1>1, <1>3, <1>4, <1>5, ReceiptsSame, HeldMoves DEF Dispatching

LEMMA ClaimCommandHeld ==
    ASSUME OnceInv, HeldInv, NEW t \in Threads, ClaimCommand(t)
    PROVE  HeldInv'
  <1> DEFINE c == thread[t].cmd
  <1>0. /\ TypeOK /\ ThreadOK(t) /\ thread[t].pc = "claim_command"
        /\ UNCHANGED <<run, applied, receipt>>
    BY DEF OnceInv, ClaimCommand, At
  <1>1. CASE Goto(t, "release") /\ binding' = binding
    <2>1. thread'[t].pc = "release" /\ \A u \in Threads : u # t => thread'[u] = thread[u]
      BY <1>0, <1>1, GotoView DEF Pcs
    <2>2. EndsWell(t)'
      BY <2>1, EndsTrivially
    <2> QED
      BY <1>0, <1>1, <2>1, <2>2, ReceiptsSame, HeldMoves DEF Dispatching
  <1>2. CASE /\ binding' = [binding EXCEPT !.claim = c, !.claimLive = TRUE]
             /\ Goto(t, "load")
             /\ binding.receipt \in {None, c}
    <2>1. thread'[t].pc = "load" /\ \A u \in Threads : u # t => thread'[u] = thread[u]
      BY <1>0, <1>2, GotoView DEF Pcs
    <2>2. EndsWell(t)'
      BY <2>1, EndsTrivially
    <2>3. c \in AnyCommand /\ c # None
      BY <1>0, Names DEF ThreadOK, Bound, Commanding
    <2>4. /\ binding'.rev = binding.rev /\ binding'.receipt = binding.receipt
          /\ binding'.claim = c /\ binding'.claimLive = TRUE
      BY <1>0, <1>2 DEF TypeOK, BindingRow
    <2>5. OneMoves(t)
      BY <1>0, <2>1, <2>4 DEF OneMoves
    <2>6. ClaimsHeld'
      BY <1>2, <2>3, <2>4 DEF ClaimsHeld
    <2>7. StatusIsOwn'
      BY <1>0, <2>4 DEF HeldInv, StatusIsOwn
    <2>8. CompletedWasApplied'
      BY <1>0 DEF HeldInv, CompletedWasApplied
    <2> QED
      BY <2>2, <2>5, <2>6, <2>7, <2>8, HeldFrom
  <1> QED
    BY <1>1, <1>2 DEF ClaimCommand

\* A command that is adopted is the last one the run has taken.
LEMMA LoadHeld ==
    ASSUME OnceInv, HeldInv, NEW t \in Threads, Load(t)
    PROVE  HeldInv'
  <1>0. /\ TypeOK /\ thread[t].pc = "load" /\ thread[t] \in ThreadState
        /\ UNCHANGED <<run, applied, binding, receipt>>
    BY ThreadFields DEF OnceInv, Load, At
  <1>1. PICK pc \in {"finish", "save", "release", "refuse"} :
              /\ thread' = [thread EXCEPT ![t] = [@ EXCEPT !.pc = pc, !.rev = run.rev]]
              /\ pc = "finish" => run.last = thread[t].cmd
    BY DEF Load, Adopts
  <1> DEFINE x == [thread[t] EXCEPT !.pc = pc, !.rev = run.rev]
  <1>2. x.pc = pc /\ x.cmd = thread[t].cmd
    BY <1>0 DEF ThreadState
  <1>3. thread' = [thread EXCEPT ![t] = x]
    BY <1>1
  <1> HIDE DEF x
  <1>4. /\ thread'[t].pc = pc /\ thread'[t].cmd = thread[t].cmd
        /\ \A u \in Threads : u # t => thread'[u] = thread[u]
    BY <1>0, <1>2, <1>3 DEF TypeOK
  <1>5. EndsWell(t)'
    BY <1>0, <1>1, <1>4 DEF EndsWell, HeldInv, StatusIsOwn
  <1> QED
    BY <1>0, <1>4, <1>5, ReceiptsSame, HeldMoves DEF Dispatching

LEMMA SaveHeld ==
    ASSUME OnceInv, HeldInv, NEW t \in Threads, Save(t)
    PROVE  HeldInv'
  <1> DEFINE c == thread[t].cmd
  <1>0. /\ TypeOK /\ ThreadOK(t) /\ thread[t].pc = "save" /\ UNCHANGED <<binding, receipt>>
    BY DEF OnceInv, Save, At
  <1>1. CASE Goto(t, "release") /\ UNCHANGED <<run, applied>>
    <2>1. thread'[t].pc = "release" /\ \A u \in Threads : u # t => thread'[u] = thread[u]
      BY <1>0, <1>1, GotoView DEF Pcs
    <2>2. EndsWell(t)'
      BY <2>1, EndsTrivially
    <2> QED
      BY <1>0, <1>1, <2>1, <2>2, ReceiptsSame, HeldMoves DEF Dispatching
  <1>2. CASE /\ run' = [rev |-> run.rev + 1, last |-> c]
             /\ applied' = [applied EXCEPT ![c] = @ + 1]
             /\ thread' = [thread EXCEPT ![t] = [@ EXCEPT !.pc = "finish", !.rev = run.rev + 1]]
    <2>1. c \in AnyCommand
      BY <1>0 DEF ThreadOK, Bound, Commanding
    <2>2. PICK n \in Nat : n = run.rev + 1
      BY <1>0, RunFields
    <2> DEFINE x == [thread[t] EXCEPT !.pc = "finish", !.rev = n]
    <2>3. x.pc = "finish" /\ x.cmd = c
      <3>1. thread[t] \in ThreadState
        BY <1>0, ThreadFields
      <3> QED
        BY <3>1 DEF ThreadState
    <2>4. thread' = [thread EXCEPT ![t] = x]
      BY <1>2, <2>2
    <2> HIDE DEF x
    <2>5. /\ thread'[t].pc = "finish" /\ thread'[t].cmd = c
          /\ \A u \in Threads : u # t => thread'[u] = thread[u]
      BY <1>0, <2>3, <2>4 DEF TypeOK
    <2>6. run'.last = c
      BY <1>2
    <2>7. applied'[c] > 0 /\ \A d \in Commands : applied[d] > 0 => applied'[d] > 0
      <3>1. applied[c] \in Nat
        BY <1>0, <2>1 DEF TypeOK
      <3>2. applied'[c] = applied[c] + 1 /\ \A d \in Commands : d # c => applied'[d] = applied[d]
        BY <1>0, <1>2, <2>1 DEF TypeOK, AnyCommand
      <3> QED
        BY <3>1, <3>2
    <2>8. EndsWell(t)'
      BY <2>5, <2>7 DEF EndsWell
    <2>9. OneMoves(t)
      BY <1>0, <2>5, <2>7 DEF OneMoves
    <2>10. ClaimsHeld'
      BY <1>0, <2>5 DEF HeldInv, ClaimsHeld
    <2>11. StatusIsOwn'
      BY <1>0, <2>6, <2>7 DEF HeldInv, StatusIsOwn
    <2>12. CompletedWasApplied'
      BY <1>0, <2>7 DEF HeldInv, CompletedWasApplied
    <2> QED
      BY <2>8, <2>9, <2>10, <2>11, <2>12, HeldFrom
  <1> QED
    BY <1>1, <1>2 DEF Save

\* The status that is recorded under an open receipt is that of the command
\* that holds the claim, and so of the receipt.
LEMMA FinishCommandHeld ==
    ASSUME OnceInv, HeldInv, NEW t \in Threads, FinishCommand(t)
    PROVE  HeldInv'
  <1> DEFINE c == thread[t].cmd
  <1>0. /\ TypeOK /\ ThreadOK(t) /\ thread[t].pc = "finish" /\ UNCHANGED <<run, applied, receipt>>
    BY DEF OnceInv, FinishCommand, At
  <1>1. CASE Goto(t, "release") /\ binding' = binding
    <2>1. thread'[t].pc = "release" /\ \A u \in Threads : u # t => thread'[u] = thread[u]
      BY <1>0, <1>1, GotoView DEF Pcs
    <2>2. EndsWell(t)'
      BY <2>1, EndsTrivially
    <2> QED
      BY <1>0, <1>1, <2>1, <2>2, ReceiptsSame, HeldMoves DEF Dispatching
  <1>2. CASE /\ binding.claim = c
             /\ binding' = [binding EXCEPT !.rev = thread[t].rev, !.claim = None, !.claimLive = FALSE]
             /\ Returned(t)
    <2>1. Goto(t, "done") \/ Goto(t, "heartbeat")
      BY <1>2 DEF Returned, Goto
    <2>2. /\ thread'[t].pc \in {"done", "heartbeat"} /\ thread'[t].cmd = c
          /\ \A u \in Threads : u # t => thread'[u] = thread[u]
      BY <1>0, <2>1, GotoView DEF Pcs
    <2>3. binding'.receipt = binding.receipt /\ binding'.claim = None /\ binding'.claimLive = FALSE
      BY <1>0, <1>2 DEF TypeOK, BindingRow
    <2>4. c \in Commands => applied[c] > 0
      BY <1>0 DEF HeldInv, EndsWell
    <2>5. EndsWell(t)'
      BY <1>0, <2>2, <2>4 DEF EndsWell
    <2>6. OneMoves(t)
      BY <1>0, <2>2, <2>3 DEF OneMoves
    <2>7. ClaimsHeld'
      BY <2>3 DEF ClaimsHeld
    <2>8. c \in AnyCommand /\ c # None
      BY <1>0, Names DEF ThreadOK, Bound, Commanding
    <2>9. \A d \in Commands : binding.receipt = d => d = c
      BY <1>0, <1>2, <2>8, Names DEF HeldInv, ClaimsHeld
    <2>10. StatusIsOwn'
      BY <1>0, <2>3, <2>4, <2>9 DEF HeldInv, StatusIsOwn
    <2>11. CompletedWasApplied'
      BY <1>0 DEF HeldInv, CompletedWasApplied
    <2> QED
      BY <2>5, <2>6, <2>7, <2>10, <2>11, HeldFrom
  <1> QED
    BY <1>1, <1>2 DEF FinishCommand

LEMMA ReleaseHeld ==
    ASSUME OnceInv, HeldInv, NEW t \in Threads, Release(t)
    PROVE  HeldInv'
  <1>0. TypeOK /\ thread[t].pc \in {"release", "refuse"} /\ UNCHANGED <<run, applied, receipt>>
    BY DEF OnceInv, Release
  <1>1. /\ binding'.rev = binding.rev /\ binding'.receipt = binding.receipt
        /\ \/ binding'.claim = binding.claim /\ binding'.claimLive = binding.claimLive
           \/ binding'.claim = None /\ binding'.claimLive = FALSE
    BY <1>0 DEF Release, Freed, TypeOK, BindingRow
  <1>2. Goto(t, "done") \/ Goto(t, "reject") \/ Return(t)
    BY DEF Release, Goto, Return
  <1>3. /\ thread'[t].pc \in {"done", "reject", "idle"}
        /\ \A u \in Threads : u # t => thread'[u] = thread[u]
    BY <1>0, <1>2, GotoView, ReturnView DEF Pcs
  <1>4. EndsWell(t)'
    BY <1>3, EndsTrivially
  <1> QED
    BY <1>0, <1>1, <1>3, <1>4, HeldReleases DEF Dispatching

LEMMA TickHeld ==
    ASSUME OnceInv, HeldInv, NEW t \in Tickers, Tick(t)
    PROVE  HeldInv'
  <1>0. /\ TypeOK /\ t \in Threads /\ Goto(t, "advance")
        /\ UNCHANGED <<run, applied, receipt>>
    BY DEF OnceInv, Tick, Threads
  <1>1. /\ binding'.rev = binding.rev /\ binding'.receipt = binding.receipt
        /\ binding'.claim = binding.claim /\ binding'.claimLive = binding.claimLive
    BY <1>0 DEF Tick, TypeOK, BindingRow
  <1>2. thread'[t].pc = "advance" /\ \A u \in Threads : u # t => thread'[u] = thread[u]
    BY <1>0, GotoView DEF Pcs
  <1>3. EndsWell(t)'
    BY <1>2, EndsTrivially
  <1> QED
    BY <1>0, <1>1, <1>2, <1>3, HeldReleases DEF Dispatching

LEMMA TickLoadHeld ==
    ASSUME OnceInv, HeldInv, NEW t \in Threads, TickLoad(t)
    PROVE  HeldInv'
  <1>0. TypeOK /\ UNCHANGED <<run, applied, binding, receipt>>
    BY DEF OnceInv, TickLoad
  <1>1. PICK pc \in {"advancing", "record"} :
              thread' = [thread EXCEPT ![t] = [pc |-> pc, cmd |-> thread[t].cmd,
                                               exp |-> binding.rev, rev |-> run.rev]]
    BY DEF TickLoad
  <1> DEFINE x == [pc |-> pc, cmd |-> thread[t].cmd, exp |-> binding.rev, rev |-> run.rev]
  <1>2. x.pc = pc /\ thread' = [thread EXCEPT ![t] = x]
    BY <1>1
  <1> HIDE DEF x
  <1>3. thread'[t].pc = pc /\ \A u \in Threads : u # t => thread'[u] = thread[u]
    BY <1>0, <1>2 DEF TypeOK
  <1>4. EndsWell(t)'
    BY <1>3, EndsTrivially
  <1> QED
    BY <1>0, <1>3, <1>4, ReceiptsSame, HeldMoves DEF Dispatching

LEMMA TickSaveHeld ==
    ASSUME OnceInv, HeldInv, NEW t \in Threads, TickSave(t)
    PROVE  HeldInv'
  <1>0. TypeOK /\ UNCHANGED <<applied, binding, receipt>>
    BY DEF OnceInv, TickSave
  <1>1. CASE Goto(t, "yield") /\ run' = run
    <2>1. thread'[t].pc = "yield" /\ \A u \in Threads : u # t => thread'[u] = thread[u]
      BY <1>0, <1>1, GotoView DEF Pcs
    <2>2. EndsWell(t)'
      BY <2>1, EndsTrivially
    <2> QED
      BY <1>0, <1>1, <2>1, <2>2, ReceiptsSame, HeldMoves DEF Dispatching
  <1>2. CASE /\ run' = [run EXCEPT !.rev = @ + 1]
             /\ thread' = [thread EXCEPT ![t] = [@ EXCEPT !.pc = "record", !.rev = run.rev + 1]]
    <2>1. PICK n \in Nat : n = run.rev + 1
      BY <1>0, RunFields
    <2>2. run' = [run EXCEPT !.rev = n]
      BY <1>2, <2>1
    <2>3. run'.last = run.last
      BY <1>0, <2>2 DEF TypeOK
    <2> DEFINE x == [thread[t] EXCEPT !.pc = "record", !.rev = n]
    <2>4. x.pc = "record"
      <3>1. thread[t] \in ThreadState
        BY <1>0, ThreadFields
      <3> QED
        BY <3>1 DEF ThreadState
    <2>5. thread' = [thread EXCEPT ![t] = x]
      BY <1>2, <2>1
    <2> HIDE DEF x
    <2>6. thread'[t].pc = "record" /\ \A u \in Threads : u # t => thread'[u] = thread[u]
      BY <1>0, <2>4, <2>5 DEF TypeOK
    <2>7. EndsWell(t)'
      BY <2>6, EndsTrivially
    <2>8. OneMoves(t)
      BY <1>0, <2>6 DEF OneMoves
    <2>9. ClaimsHeld'
      BY <1>0, <2>6 DEF HeldInv, ClaimsHeld
    <2>10. StatusIsOwn'
      BY <1>0, <2>3 DEF HeldInv, StatusIsOwn
    <2>11. CompletedWasApplied'
      BY <1>0 DEF HeldInv, CompletedWasApplied
    <2> QED
      BY <2>7, <2>8, <2>9, <2>10, <2>11, HeldFrom
  <1> QED
    BY <1>1, <1>2 DEF TickSave

\* A tick records its status only where no receipt is open.
LEMMA TickRecordHeld ==
    ASSUME OnceInv, HeldInv, NEW t \in Threads, TickRecord(t)
    PROVE  HeldInv'
  <1>0. TypeOK /\ UNCHANGED <<run, applied, receipt>>
    BY DEF OnceInv, TickRecord
  <1>1. CASE Goto(t, "yield") /\ binding' = binding
    <2>1. thread'[t].pc = "yield" /\ \A u \in Threads : u # t => thread'[u] = thread[u]
      BY <1>0, <1>1, GotoView DEF Pcs
    <2>2. EndsWell(t)'
      BY <2>1, EndsTrivially
    <2> QED
      BY <1>0, <1>1, <2>1, <2>2, ReceiptsSame, HeldMoves DEF Dispatching
  <1>2. CASE /\ binding.receipt = None
             /\ binding' = [binding EXCEPT !.rev = thread[t].rev, !.sched = None, !.schedLive = FALSE]
             /\ Return(t)
    <2>1. thread'[t].cmd = None /\ thread'[t].pc = "idle"
          /\ \A u \in Threads : u # t => thread'[u] = thread[u]
      BY <1>0, <1>2, ReturnView
    <2>2. /\ binding'.receipt = binding.receipt /\ binding'.claim = binding.claim
          /\ binding'.claimLive = binding.claimLive
      BY <1>0, <1>2 DEF TypeOK, BindingRow
    <2>3. EndsWell(t)'
      BY <2>1, EndsTrivially
    <2>4. OneMoves(t)
      BY <1>0, <2>1, <2>2 DEF OneMoves
    <2>5. ClaimsHeld'
      BY <2>1, <2>2 DEF HeldInv, ClaimsHeld
    <2>6. StatusIsOwn'
      BY <1>0, <1>2, <2>2, Names DEF HeldInv, StatusIsOwn
    <2>7. CompletedWasApplied'
      BY <1>0 DEF HeldInv, CompletedWasApplied
    <2> QED
      BY <2>3, <2>4, <2>5, <2>6, <2>7, HeldFrom
  <1> QED
    BY <1>1, <1>2 DEF TickRecord, MayRecord

LEMMA TickYieldHeld ==
    ASSUME OnceInv, HeldInv, NEW t \in Threads, TickYield(t)
    PROVE  HeldInv'
  <1>0. TypeOK /\ UNCHANGED <<run, applied, receipt>> /\ Return(t)
    BY DEF OnceInv, TickYield
  <1>1. /\ binding'.rev = binding.rev /\ binding'.receipt = binding.receipt
        /\ binding'.claim = binding.claim /\ binding'.claimLive = binding.claimLive
    BY <1>0 DEF TickYield, TypeOK, BindingRow
  <1>2. thread'[t].pc = "idle" /\ \A u \in Threads : u # t => thread'[u] = thread[u]
    BY <1>0, ReturnView
  <1>3. EndsWell(t)'
    BY <1>2, EndsTrivially
  <1> QED
    BY <1>0, <1>1, <1>2, <1>3, HeldReleases DEF Dispatching

-----------------------------------------------------------------------------
(* Nobody moves: leases, claims, and steps that change nothing. *)

LEMMA HeldWaits ==
    ASSUME HeldInv, UNCHANGED <<run, applied, thread>>, ReceiptsStay, ClaimsHeld',
           binding'.rev = binding.rev, binding'.receipt = binding.receipt
    PROVE  HeldInv'
  <1>1. StatusIsOwn'
    BY DEF HeldInv, StatusIsOwn, ReceiptsStay
  <1>2. CompletedWasApplied'
    BY DEF HeldInv, CompletedWasApplied, ReceiptsStay
  <1>3. \A u \in Threads : EndsWell(u)'
    BY DEF HeldInv, EndsWell
  <1> QED
    BY <1>1, <1>2, <1>3 DEF HeldInv

LEMMA ExpireReceiptHeld ==
    ASSUME OnceInv, HeldInv, NEW c \in Commands, NEW slow, ExpireReceipt(c, slow)
    PROVE  HeldInv'
  <1> DEFINE r == [receipt[c] EXCEPT !.live = FALSE]
  <1>0. TypeOK /\ receipt[c] \in ReceiptRow /\ UNCHANGED <<run, applied, binding, thread>>
    BY ReceiptFields DEF OnceInv, ExpireReceipt
  <1>1. r.exp = receipt[c].exp /\ r.state = receipt[c].state
    BY <1>0 DEF ReceiptRow
  <1>2. receipt' = [receipt EXCEPT ![c] = r]
    BY DEF ExpireReceipt
  <1> HIDE DEF r
  <1>3. ReceiptsStay
    BY <1>0, <1>1, <1>2 DEF TypeOK, ReceiptsStay
  <1>4. ClaimsHeld'
    BY <1>0 DEF HeldInv, ClaimsHeld
  <1> QED
    BY <1>0, <1>3, <1>4, HeldWaits

LEMMA ExpireSchedulerHeld ==
    ASSUME OnceInv, HeldInv, NEW slow, ExpireScheduler(slow)
    PROVE  HeldInv'
  <1>0. TypeOK /\ UNCHANGED <<run, applied, receipt, thread>>
    BY DEF OnceInv, ExpireScheduler
  <1>1. /\ binding'.rev = binding.rev /\ binding'.receipt = binding.receipt
        /\ binding'.claim = binding.claim /\ binding'.claimLive = binding.claimLive
    BY <1>0 DEF ExpireScheduler, TypeOK, BindingRow
  <1>2. ClaimsHeld'
    BY <1>0, <1>1 DEF HeldInv, ClaimsHeld
  <1> QED
    BY <1>0, <1>1, <1>2, ReceiptsSame, HeldWaits

\* The one place where the hypothesis matters: a claim runs out only when
\* nobody is between taking it and giving it back.
LEMMA ExpireClaimHeld ==
    ASSUME OnceInv, HeldInv, ~ ClaimsExpire, ExpireClaim
    PROVE  HeldInv'
  <1>0. TypeOK /\ UNCHANGED <<run, applied, receipt, thread>> /\ Abandoned
    BY DEF OnceInv, ExpireClaim
  <1>1. /\ binding'.rev = binding.rev /\ binding'.receipt = binding.receipt
        /\ binding'.claim = binding.claim /\ binding'.claimLive = FALSE
    BY <1>0 DEF ExpireClaim, TypeOK, BindingRow
  <1>2. ClaimsHeld'
    BY <1>0, <1>1 DEF ClaimsHeld, Abandoned
  <1> QED
    BY <1>0, <1>1, <1>2, ReceiptsSame, HeldWaits

LEMMA CrashHeld ==
    ASSUME OnceInv, HeldInv, NEW t \in Threads, Crash(t)
    PROVE  HeldInv'
  <1>0. TypeOK /\ UNCHANGED <<run, applied, binding, receipt>>
    BY DEF OnceInv, Crash
  <1>1. PICK pc \in {"idle", "done"} : thread' = [thread EXCEPT ![t] = [Idle EXCEPT !.pc = pc]]
    BY DEF Crash
  <1> DEFINE x == [Idle EXCEPT !.pc = pc]
  <1>2. x.pc = pc
    BY DEF Idle
  <1>3. thread' = [thread EXCEPT ![t] = x]
    BY <1>1
  <1> HIDE DEF x
  <1>4. thread'[t].pc = pc /\ \A u \in Threads : u # t => thread'[u] = thread[u]
    BY <1>0, <1>2, <1>3 DEF TypeOK
  <1>5. EndsWell(t)'
    BY <1>4, EndsTrivially
  <1> QED
    BY <1>0, <1>4, <1>5, ReceiptsSame, HeldMoves DEF Dispatching

LEMMA InitHeld ==
    ASSUME Init
    PROVE  HeldInv
  <1>1. /\ binding.receipt = None /\ binding.claim = None /\ binding.claimLive = FALSE
        /\ run.last = None
    BY DEF Init
  <1>2. \A c \in Commands : receipt[c].state = "absent"
    BY DEF Init, NoReceipt
  <1>3. \A t \in Threads : thread[t].cmd = None
    BY DEF Init, Idle
  <1> QED
    BY <1>1, <1>2, <1>3, Names
       DEF HeldInv, ClaimsHeld, StatusIsOwn, CompletedWasApplied, EndsWell

LEMMA ContinueHeld ==
    ASSUME OnceInv, HeldInv, NEW t \in Threads, Continue(t)
    PROVE  HeldInv'
  <1>1. CASE RequestClaims(t)
    <2>1. thread[t].cmd \in Commands
      BY <1>1 DEF OnceInv, ThreadOK, Bound, RequestClaims, At
    <2> QED
      BY <1>1, <2>1, ClaimReceiptHeld DEF RequestClaims
  <1>2. CASE GiveUp(t)
    BY <1>2, ReceiptsSame, ReturnHeld DEF GiveUp
  <1> QED
    BY <1>1, <1>2, ReadStatusHeld, HeartbeatHeld, CompleteHeld, RejectHeld, ClaimCommandHeld,
       LoadHeld, SaveHeld, FinishCommandHeld, ReleaseHeld, TickLoadHeld, TickSaveHeld,
       TickRecordHeld, TickYieldHeld DEF Continue

LEMMA NextHeld ==
    ASSUME ~ ClaimsExpire, OnceInv, HeldInv, [Next]_vars
    PROVE  HeldInv'
  <1>1. CASE \E t \in Requests, c \in Commands : Request(t, c)
    BY <1>1, RequestHeld DEF Threads
  <1>2. CASE \E t \in Drains, c \in Commands : DrainClaims(t, c)
    BY <1>2, ClaimReceiptHeld DEF DrainClaims, Threads
  <1>3. CASE \E a \in Plain : Sign(a)
    BY <1>3, SignHeld
  <1>4. CASE \E t \in Tickers : Tick(t)
    BY <1>4, TickHeld
  <1>5. CASE \E t \in Threads : Continue(t) \/ Crash(t)
    BY <1>5, ContinueHeld, CrashHeld
  <1>6. CASE \E c \in Commands, slow \in 0 .. 1 : ExpireReceipt(c, slow)
    BY <1>6, ExpireReceiptHeld
  <1>7. CASE \E slow \in 0 .. 1 : ExpireScheduler(slow)
    BY <1>7, ExpireSchedulerHeld
  <1>8. CASE ExpireClaim
    BY <1>8, ExpireClaimHeld
  <1>9. CASE UNCHANGED vars
    <2>1. ClaimsHeld'
      BY <1>9 DEF HeldInv, ClaimsHeld, vars
    <2> QED
      BY <1>9, <2>1, ReceiptsSame, HeldWaits DEF vars
  <1> QED
    BY <1>1, <1>2, <1>3, <1>4, <1>5, <1>6, <1>7, <1>8, <1>9 DEF Next

\* Where a dispatch gives its command claim back before the claim runs out,
\* a client is told that its command is done only when the run has taken it.
\* The hypothesis is needed: a dispatch that outlives its claim records its
\* status under the receipt of another command.
THEOREM CompletionsAreTrue ==
    ASSUME ~ ClaimsExpire
    PROVE  Spec => []CompletedWasApplied
  <1>1. Init => HeldInv
    BY InitHeld
  <1>2. OnceInv /\ HeldInv /\ [Next]_vars => HeldInv'
    BY NextHeld
  <1>3. HeldInv => CompletedWasApplied
    BY DEF HeldInv
  <1> QED
    BY <1>1, <1>2, <1>3, OnceAlways, PTL DEF Spec
=============================================================================
