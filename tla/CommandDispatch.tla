--------------------------- MODULE CommandDispatch ---------------------------
(***************************************************************************)
(* Dispatch of control commands to a native run without a transition: the   *)
(* binding row of the workflow (workflow_control_persistence.py), the       *)
(* idempotency receipts (workflow_control_command_receipt_persistence.py),  *)
(* the request path and the receipt reconciler                              *)
(* (workflow_control_composition.py, workflow_control_command_receipts.py)  *)
(* and the bridge that applies commands and background ticks                *)
(* (native_graph_control_bridge.py).                                        *)
(*                                                                          *)
(* A command with an id of the client's has a receipt, which any thread may *)
(* drive to its end under an expiring lease.  A command without one is      *)
(* dispatched once, by the thread of its request.  Both take the command    *)
(* claim of the binding, which expires as well, and are fenced only by the  *)
(* command id.  The run itself is NativeRun; here it is its checkpoint      *)
(* revision and last command.                                               *)
(***************************************************************************)
EXTENDS Integers, FiniteSets, Functions

CONSTANTS
    Commands,       \* commands with a receipt
    Plain,          \* commands without; each one is its own request thread
    Requests,       \* request threads of the receipt path
    Drains,         \* receipt reconciler threads
    Tickers,        \* reconcile_active threads
    Denied,         \* commands the run's policy refuses
    None,           \* no command and no thread
    Last,           \* the revision at which the run is terminal
    MaxRequests,    \* bound: requests the clients make for Commands
    MaxCrashes,     \* bound: threads that die
    MaxSlow,        \* bound: leases that run out under the thread that holds them
    ClaimsExpire    \* BOOLEAN: a dispatch may outlive its command claim

ASSUME DispatchAssumption ==
    /\ Last \in Nat \ {0}
    /\ MaxRequests \in Nat
    /\ MaxCrashes \in Nat
    /\ MaxSlow \in Nat
    /\ ClaimsExpire \in BOOLEAN
    /\ Commands \cap Plain = {}
    /\ Denied \subseteq Commands \cup Plain
    /\ None \notin Commands \cup Plain \cup Requests \cup Drains \cup Tickers

VARIABLES
    run,        \* the checkpoint of the run: revision and last command
    applied,    \* applied[c]: how often the run has applied command c
    binding,    \* the binding row
    receipt,    \* receipt[c]: the receipt row of command c
    thread,     \* thread[t]: what thread t does
    bound       \* requests, crashes and slow threads so far

vars == <<run, applied, binding, receipt, thread, bound>>

Threads == Requests \cup Drains \cup Tickers \cup Plain

Idle == [pc |-> "idle", cmd |-> None, exp |-> 0, rev |-> 0]

NoReceipt == [state |-> "absent", exp |-> 0, owner |-> None, live |-> FALSE]

At(t, pc) == thread[t].pc = pc

Goto(t, pc) == thread' = [thread EXCEPT ![t].pc = pc]

Return(t) == thread' = [thread EXCEPT ![t] = Idle]

-----------------------------------------------------------------------------
(* Receipts. *)

SchedulerFree == binding.sched = None \/ ~ binding.schedLive

ClaimFree == binding.claim = None \/ ~ binding.claimLive

Stageable == binding.receipt = None /\ SchedulerFree /\ ClaimFree

\* command_workflow and stage: a receipt that exists is driven on; a new one
\* is bound to the status the client saw.
Request(t, c) ==
    /\ At(t, "idle")
    /\ bound.requests < MaxRequests
    /\ bound' = [bound EXCEPT !.requests = @ + 1]
    /\ \/ /\ receipt[c].state \in {"pending", "dispatching"}
          /\ UNCHANGED <<binding, receipt>>
       \/ /\ receipt[c].state = "absent"
          /\ Stageable
          /\ receipt' = [receipt EXCEPT ![c] = [@ EXCEPT !.state = "pending", !.exp = binding.rev]]
          /\ binding' = [binding EXCEPT !.receipt = c]
    /\ thread' = [thread EXCEPT ![t] = [@ EXCEPT !.pc = "claim", !.cmd = c]]
    /\ UNCHANGED <<run, applied>>

\* claim: a receipt nobody drives, or whose lease has run out.
Claimable_PendingOnly(c) == receipt[c].state = "pending"

Claimable(c) ==
    \/ receipt[c].state = "pending"
    \/ receipt[c].state = "dispatching" /\ ~ receipt[c].live

ClaimReceipt(t, c) ==
    /\ Claimable(c)
    /\ receipt' = [receipt EXCEPT ![c] = [state |-> "dispatching", exp |-> @.exp, owner |-> t,
                                          live |-> TRUE]]
    /\ thread' = [thread EXCEPT ![t] = [pc |-> "status", cmd |-> c, exp |-> receipt[c].exp,
                                        rev |-> 0]]
    /\ UNCHANGED <<run, applied, binding, bound>>

RequestClaims(t) == At(t, "claim") /\ ClaimReceipt(t, thread[t].cmd)

DrainClaims(t, c) == At(t, "idle") /\ ClaimReceipt(t, c)

\* A request gives up after five seconds, or adopts what another has ended.
GiveUp(t) ==
    /\ At(t, "claim")
    /\ ~ Claimable(thread[t].cmd)
    /\ Return(t)
    /\ UNCHANGED <<run, applied, binding, receipt, bound>>

\* A status beyond the expected revision is taken for the command's own.
ReadStatus(t) ==
    /\ At(t, "status")
    /\ thread' = IF binding.rev > thread[t].exp
                 THEN [thread EXCEPT ![t] = [@ EXCEPT !.pc = "heartbeat", !.rev = binding.rev]]
                 ELSE [thread EXCEPT ![t].pc = "claim_command"]
    /\ UNCHANGED <<run, applied, binding, receipt, bound>>

\* _assert_receipt_owner.  A thread holds one claim at a time, so its name
\* stands for the owner id and the dispatch generation of that claim.
OwnsReceipt(t) ==
    LET r == receipt[thread[t].cmd] IN
    /\ r.state = "dispatching"
    /\ r.owner = t
    /\ r.live

Heartbeat(t) ==
    /\ At(t, "heartbeat")
    /\ IF OwnsReceipt(t) THEN Goto(t, "complete") ELSE Return(t)
    /\ UNCHANGED <<run, applied, binding, receipt, bound>>

\* The row of a receipt nobody drives.
Undriven(c, state) == [state |-> state, exp |-> receipt[c].exp, owner |-> None, live |-> FALSE]

CloseReceipt(t, state) ==
    /\ receipt' = [receipt EXCEPT ![thread[t].cmd] = Undriven(thread[t].cmd, state)]
    /\ binding' = [binding EXCEPT !.receipt = None]
    /\ Return(t)

MayClose(t) ==
    /\ OwnsReceipt(t)
    /\ binding.receipt = thread[t].cmd
    /\ binding.claim = None

\* complete; a request that cannot gives its lease back, a reconciler keeps it.
Complete(t) ==
    /\ At(t, "complete")
    /\ \/ /\ MayClose(t) /\ thread[t].rev > thread[t].exp
          /\ CloseReceipt(t, "completed")
       \/ /\ ~ (MayClose(t) /\ thread[t].rev > thread[t].exp)
          /\ receipt' = IF t \in Requests /\ OwnsReceipt(t)
                        THEN [receipt EXCEPT ![thread[t].cmd] = Undriven(thread[t].cmd, "pending")]
                        ELSE receipt
          /\ binding' = binding
          /\ Return(t)
    /\ UNCHANGED <<run, applied, bound>>

Reject(t) ==
    /\ At(t, "reject")
    /\ IF MayClose(t) THEN CloseReceipt(t, "rejected")
                      ELSE Return(t) /\ UNCHANGED <<binding, receipt>>
    /\ UNCHANGED <<run, applied, bound>>

-----------------------------------------------------------------------------
(* The bridge: _apply_command. *)

\* A plain command is signed against the status it saw.
Sign(a) ==
    /\ At(a, "idle")
    /\ thread' = [thread EXCEPT ![a] = [pc |-> "claim_command", cmd |-> a, exp |-> binding.rev,
                                        rev |-> 0]]
    /\ UNCHANGED <<run, applied, binding, receipt, bound>>

\* claim_command
ClaimCommand(t) ==
    LET c == thread[t].cmd
        free == /\ binding.rev = thread[t].exp
                /\ binding.receipt \in {None, c}
                /\ SchedulerFree
                /\ ClaimFree
    IN  /\ At(t, "claim_command")
        /\ IF free
           THEN /\ binding' = [binding EXCEPT !.claim = c, !.claimLive = TRUE]
                /\ Goto(t, "load")
           ELSE Goto(t, "release") /\ binding' = binding
        /\ UNCHANGED <<run, applied, receipt, bound>>

\* resume: the run has already taken the command, or it is at the revision
\* the command was signed for and takes it now.  Only the policy's denial,
\* which a run that has ended meets as well, is a refusal; a command signed
\* for another revision fails its verification, and that error is raised.
Adopts(c) == run.last = c

Load(t) ==
    LET c == thread[t].cmd
        next == IF Adopts(c) THEN "finish"
                ELSE IF run.rev # thread[t].exp THEN "release"
                ELSE IF c \in Denied \/ run.rev = Last THEN "refuse"
                ELSE "save"
    IN  /\ At(t, "load")
        /\ thread' = [thread EXCEPT ![t] = [@ EXCEPT !.pc = next, !.rev = run.rev]]
        /\ UNCHANGED <<run, applied, binding, receipt, bound>>

\* The checkpoint is saved only on the one that was loaded.
Unchanged_Ignored(t) == TRUE

Unchanged(t) == run.rev = thread[t].rev

Save(t) ==
    LET c == thread[t].cmd IN
    /\ At(t, "save")
    /\ IF Unchanged(t)
       THEN /\ run' = [rev |-> run.rev + 1, last |-> c]
            /\ applied' = [applied EXCEPT ![c] = @ + 1]
            /\ thread' = [thread EXCEPT ![t] = [@ EXCEPT !.pc = "finish", !.rev = run.rev + 1]]
       ELSE Goto(t, "release") /\ UNCHANGED <<run, applied>>
    /\ UNCHANGED <<binding, receipt, bound>>

Returned(t) ==
    thread' = [thread EXCEPT ![t].pc = IF t \in Plain THEN "done" ELSE "heartbeat"]

\* finish_command: by the command id, whoever holds the claim now.
FinishCommand(t) ==
    /\ At(t, "finish")
    /\ IF binding.claim = thread[t].cmd /\ thread[t].rev >= binding.rev
       THEN /\ binding' = [binding EXCEPT !.rev = thread[t].rev, !.claim = None, !.claimLive = FALSE]
            /\ Returned(t)
       ELSE Goto(t, "release") /\ binding' = binding
    /\ UNCHANGED <<run, applied, receipt, bound>>

Freed_Never(c) == binding

Freed(c) == IF binding.claim = c THEN [binding EXCEPT !.claim = None, !.claimLive = FALSE]
                                 ELSE binding

\* release_command: by the command id as well.  A refusal goes on to the
\* receipt; any other error is raised and the receipt left to its lease.
Release(t) ==
    /\ thread[t].pc \in {"release", "refuse"}
    /\ binding' = Freed(thread[t].cmd)
    /\ thread' = IF t \in Plain THEN [thread EXCEPT ![t].pc = "done"]
                 ELSE IF At(t, "refuse") THEN [thread EXCEPT ![t].pc = "reject"]
                 ELSE [thread EXCEPT ![t] = Idle]
    /\ UNCHANGED <<run, applied, receipt, bound>>

-----------------------------------------------------------------------------
(* Background ticks: reconcile_active. *)

\* claim_reconcilable
Tick(t) ==
    /\ At(t, "idle")
    /\ binding.rev < Last
    /\ binding.receipt = None /\ ClaimFree /\ SchedulerFree
    /\ binding' = [binding EXCEPT !.sched = t, !.schedLive = TRUE]
    /\ Goto(t, "advance")
    /\ UNCHANGED <<run, applied, receipt, bound>>

\* advance; a terminal run is returned as it is.
TickLoad(t) ==
    /\ At(t, "advance")
    /\ thread' = [thread EXCEPT ![t] =
                     [pc |-> IF run.rev < Last THEN "advancing" ELSE "record", cmd |-> @.cmd,
                      exp |-> binding.rev, rev |-> run.rev]]
    /\ UNCHANGED <<run, applied, binding, receipt, bound>>

TickSave(t) ==
    /\ At(t, "advancing")
    /\ IF Unchanged(t)
       THEN /\ run' = [run EXCEPT !.rev = @ + 1]
            /\ thread' = [thread EXCEPT ![t] = [@ EXCEPT !.pc = "record", !.rev = run.rev + 1]]
       ELSE Goto(t, "yield") /\ run' = run
    /\ UNCHANGED <<applied, binding, receipt, bound>>

\* finish_reconciliation
MayRecord_AnyReceipt(t) ==
    /\ binding.sched = t
    /\ binding.rev = thread[t].exp
    /\ binding.claim = None
    /\ thread[t].rev >= binding.rev

MayRecord(t) ==
    /\ binding.receipt = None
    /\ binding.sched = t
    /\ binding.rev = thread[t].exp
    /\ binding.claim = None
    /\ thread[t].rev >= binding.rev

TickRecord(t) ==
    /\ At(t, "record")
    /\ IF MayRecord(t)
       THEN /\ binding' = [binding EXCEPT !.rev = thread[t].rev, !.sched = None, !.schedLive = FALSE]
            /\ Return(t)
       ELSE Goto(t, "yield") /\ binding' = binding
    /\ UNCHANGED <<run, applied, receipt, bound>>

\* release_reconciliation
TickYield(t) ==
    /\ At(t, "yield")
    /\ binding' = IF binding.sched = t
                  THEN [binding EXCEPT !.sched = None, !.schedLive = FALSE] ELSE binding
    /\ Return(t)
    /\ UNCHANGED <<run, applied, receipt, bound>>

-----------------------------------------------------------------------------
(* Time and crashes.  A lease runs out after a thread that died or gave up,  *)
(* and may also run out under a thread that is slow.                         *)

MaySlow(n) == bound.slow + n <= MaxSlow /\ bound' = [bound EXCEPT !.slow = @ + n]

ExpireReceipt(c, slow) ==
    /\ receipt[c].live
    /\ slow = IF thread[receipt[c].owner].cmd = c /\ ~ At(receipt[c].owner, "claim") THEN 1 ELSE 0
    /\ MaySlow(slow)
    /\ receipt' = [receipt EXCEPT ![c].live = FALSE]
    /\ UNCHANGED <<run, applied, binding, thread>>

ExpireScheduler(slow) ==
    /\ binding.schedLive
    /\ slow = IF thread[binding.sched].pc = "idle" THEN 0 ELSE 1
    /\ MaySlow(slow)
    /\ binding' = [binding EXCEPT !.schedLive = FALSE]
    /\ UNCHANGED <<run, applied, receipt, thread>>

Abandoned == \A t \in Threads : thread[t].cmd = binding.claim =>
                thread[t].pc \notin {"load", "save", "finish", "release", "refuse"}

ExpireClaim ==
    /\ binding.claimLive
    /\ ClaimsExpire \/ Abandoned
    /\ binding' = [binding EXCEPT !.claimLive = FALSE]
    /\ UNCHANGED <<run, applied, receipt, thread, bound>>

Crash(t) ==
    /\ thread[t].pc \notin {"idle", "done"}
    /\ bound.crashes < MaxCrashes
    /\ bound' = [bound EXCEPT !.crashes = @ + 1]
    /\ thread' = [thread EXCEPT ![t] = [Idle EXCEPT !.pc = IF t \in Plain THEN "done" ELSE "idle"]]
    /\ UNCHANGED <<run, applied, binding, receipt>>

-----------------------------------------------------------------------------
(* Specification. *)

Init ==
    /\ run = [rev |-> 1, last |-> None]
    /\ applied = [c \in Commands \cup Plain |-> 0]
    /\ binding = [rev |-> 1, receipt |-> None, claim |-> None, claimLive |-> FALSE,
                  sched |-> None, schedLive |-> FALSE]
    /\ receipt = [c \in Commands |-> NoReceipt]
    /\ thread = [t \in Threads |-> Idle]
    /\ bound = [requests |-> 0, crashes |-> 0, slow |-> 0]

\* What a thread does once it has begun.
Continue(t) ==
    \/ RequestClaims(t) \/ GiveUp(t)
    \/ ReadStatus(t) \/ Heartbeat(t) \/ Complete(t) \/ Reject(t)
    \/ ClaimCommand(t) \/ Load(t) \/ Save(t) \/ FinishCommand(t) \/ Release(t)
    \/ TickLoad(t) \/ TickSave(t) \/ TickRecord(t) \/ TickYield(t)

Next ==
    \/ \E t \in Requests, c \in Commands : Request(t, c)
    \/ \E t \in Drains, c \in Commands : DrainClaims(t, c)
    \/ \E a \in Plain : Sign(a)
    \/ \E t \in Tickers : Tick(t)
    \/ \E t \in Threads : Continue(t) \/ Crash(t)
    \/ \E c \in Commands, slow \in 0 .. 1 : ExpireReceipt(c, slow)
    \/ \E slow \in 0 .. 1 : ExpireScheduler(slow)
    \/ ExpireClaim

Spec == Init /\ [][Next]_vars

\* The background loops come round again, a thread that has begun goes on,
\* and time passes.  No client asks, and no thread dies or is slow, out of
\* fairness.
Fairness ==
    /\ \A t \in Threads : WF_vars(Continue(t))
    /\ \A t \in Drains, c \in Commands : WF_vars(DrainClaims(t, c))
    /\ \A t \in Tickers : WF_vars(Tick(t))
    /\ \A c \in Commands : WF_vars(ExpireReceipt(c, 0))
    /\ WF_vars(ExpireScheduler(0))
    /\ WF_vars(ExpireClaim)

FairSpec == Spec /\ Fairness

-----------------------------------------------------------------------------
(* Properties. *)

AnyCommand == Commands \cup Plain

BindingRow ==
    [rev : 1 .. Last, receipt : Commands \cup {None}, claim : AnyCommand \cup {None},
     claimLive : BOOLEAN, sched : Tickers \cup {None}, schedLive : BOOLEAN]

ReceiptRow ==
    [state : {"absent", "pending", "dispatching", "completed", "rejected"}, exp : 0 .. Last,
     owner : Threads \cup {None}, live : BOOLEAN]

ThreadState ==
    [pc : {"idle", "claim", "status", "heartbeat", "complete", "reject", "claim_command", "load",
           "save", "finish", "release", "refuse", "done", "advance", "advancing", "record", "yield"},
     cmd : AnyCommand \cup {None}, exp : 0 .. Last, rev : 0 .. Last]

\* The checkpoint, the rows and the threads stay well formed.
TypeOK ==
    /\ run \in [rev : 1 .. Last, last : AnyCommand \cup {None}]
    /\ applied \in [AnyCommand -> Nat]
    /\ binding \in BindingRow
    /\ receipt \in [Commands -> ReceiptRow]
    /\ thread \in [Threads -> ThreadState]
    /\ bound \in [requests : Nat, crashes : Nat, slow : Nat]

\* However many threads drive a receipt, and whenever they die, the run
\* takes its command at most once, and neither has taken nor takes later a
\* command whose client was told that it was refused.
AppliedOnce ==
    \A c \in Commands : applied[c] <= IF receipt[c].state = "rejected" THEN 0 ELSE 1

\* A client is told that its command is done only when the run has taken it:
\* the status of another command or of a tick never completes a receipt.
CompletedWasApplied ==
    \A c \in Commands : receipt[c].state = "completed" => applied[c] > 0

\* The binding is held by the receipt it names, and by no other open one.
OneOpenReceipt ==
    \A c \in Commands :
        receipt[c].state \in {"pending", "dispatching"} <=> binding.receipt = c

\* A step that is not the command's own has taken the run past the revision
\* for which the open receipt was signed: a tick or a plain dispatch saved its
\* checkpoint and could not record it in the binding.
Overtaken(c) == binding.receipt = c /\ run.rev > receipt[c].exp /\ run.last # c

\* A staged receipt comes to an end, whoever dies on the way, unless it is
\* overtaken: then every attempt fails its verification, which is not a
\* rejection, and the receipt is retried for ever.
ReceiptSettles ==
    \A c \in Commands :
        receipt[c].state = "pending" ~> receipt[c].state \in {"completed", "rejected"} \/ Overtaken(c)

\* Without the exception.
EveryReceiptSettles ==
    \A c \in Commands :
        receipt[c].state = "pending" ~> receipt[c].state \in {"completed", "rejected"}

\* A thread died with a command claim that no open receipt will take up.
ClaimOrphaned ==
    /\ bound.crashes > 0
    /\ binding.claim \notin {None, binding.receipt}
    /\ Abandoned

\* Once the run has ended, the Hub's status shows it, although the thread that
\* ended it may die before it records that, unless a claim was orphaned or an
\* overtaken receipt keeps the ticks away.
StatusCatchesUp ==
    (run.rev = Last) ~> (binding.rev = Last \/ ClaimOrphaned \/ \E c \in Commands : Overtaken(c))

\* Without the exceptions: background ticks repair what a dead thread left.
StatusRepaired == (run.rev = Last) ~> (binding.rev = Last)
=============================================================================
