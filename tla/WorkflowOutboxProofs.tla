------------------------ MODULE WorkflowOutboxProofs ------------------------
(***************************************************************************)
(* The rows of the transition outbox and the runners' snapshots, for every *)
(* value of the constants: marker, receipt mirror, frozen binding, budgets *)
(* of attempts, and the refinement of DurableTransition.                   *)
(***************************************************************************)
EXTENDS WorkflowTransitionProofs

----------------------------------------------------------------------------
(* The inductive invariant of the rows.                                    *)

\* A header as the constructors of WorkflowTransition accept it; only a ready
\* transition waits for its next attempt, and an absent one was never claimed.
HeaderOK(row) ==
    /\ row.state = "applying" => row.owner # None /\ row.gen >= 1
    /\ row.state # "applying" => row.owner = None /\ row.lease = 0
    /\ row.state \in {"quarantined", "rejected"} => row.error # "none"
    /\ row.state # "ready" => row.wait = 0
    /\ row.state = "absent" => row.gen = 0

\* The receipt of a command as its transition's header has it.
MirrorOK(rec, row) ==
    /\ rec.linked
    /\ rec.state = ReceiptStateOf(row.state)
    /\ rec.owner = row.owner
    /\ rec.gen = row.gen
    /\ rec.lease = row.lease

\* The ledger of a transition in a given state.
EffectsOK(effects, st) ==
    \A e \in Effects :
        /\ effects[e].state = "planned" => effects[e].gen = 0
        /\ effects[e].state \in Done => effects[e].gen >= 1
        /\ st = "completed" => effects[e].state = "applied"
        /\ st = "rejected" <=> effects[e].state = "rejected"

\* The binding as a transition in its state needs it.
HoldsBinding(bind, row, t) ==
    /\ bind.active = t <=> row.state \in LiveStates
    /\ row.state \in LiveStates =>
           bind.receipt = ReceiptOf(t) /\ bind.revision = row.expected
    /\ row.state = "completed" => bind.revision > row.expected

RowsInv ==
    \A t \in Transitions :
        /\ HeaderOK(transition[t])
        /\ EffectsOK(effect[t], transition[t].state)
        /\ HoldsBinding(binding, transition[t], t)
        /\ t \in Commands /\ transition[t].state # "absent" =>
               MirrorOK(receipt[t], transition[t])

\* A runner on its way to quarantine has a reason for it.
ReasonInv == \A r \in Runners : runner[r].pc = "quarantine" => runner[r].reason # "none"

\* An owner that still has the current claim is the one in the header.
HolderInv ==
    \A r \in Runners :
        /\ runner[r].pc # "idle"
        /\ transition[runner[r].t].gen = runner[r].gen
        /\ transition[runner[r].t].state = "applying"
        => transition[runner[r].t].owner = OwnerOf[r]

----------------------------------------------------------------------------
(* What the operations of the store write.                                 *)

LEMMA HeaderWritten ==
    ASSUME TypeInv, NEW t \in Transitions, NEW st, NEW owner, NEW gen, NEW lease,
           NEW wait, NEW error, SetTransition(t, st, owner, gen, lease, wait, error)
    PROVE  /\ transition'[t] = [state |-> st, owner |-> owner, gen |-> gen,
                                lease |-> lease, wait |-> wait,
                                expected |-> transition[t].expected,
                                error |-> error]
           /\ \A u \in Transitions \ {t} : transition'[u] = transition[u]
  BY DEF SetTransition, TypeInv, TypeOK

LEMMA ReceiptWritten ==
    ASSUME TypeInv, NEW t \in Transitions, NEW st, NEW owner, NEW gen, NEW lease,
           SetReceipt(t, st, owner, gen, lease)
    PROVE  /\ t \in Commands =>
                 receipt'[t] = [state |-> st, linked |-> TRUE, owner |-> owner,
                                gen |-> gen, lease |-> lease,
                                expected |-> receipt[t].expected]
           /\ \A u \in Commands \ {t} : receipt'[u] = receipt[u]
  BY DEF SetReceipt, TypeInv, TypeOK

\* A holder's heartbeat, the end of its claim, and a write to its ledger.
Beats(r) == LeaseHeld(r) /\ Renew(r) /\ UNCHANGED <<effect, binding>>

Releases(r) ==
    /\ LeaseHeld(r)
    /\ \/ runner[r].pc = "yield" /\ CanYield(runner[r].t, runner[r].eff, runner[r].gen)
       \/ runner[r].pc = "retry" /\ RetryLeft(runner[r].attempt)
    /\ \E wait \in Nat, error \in Reasons : EndClaim(r, "ready", wait, error)
    /\ UNCHANGED <<effect, binding>>

Withdraws(r) ==
    /\ runner[r].pc = "quarantine"
    /\ LeaseHeld(r)
    /\ EndClaim(r, "quarantined", transition[runner[r].t].wait, runner[r].reason)
    /\ UNCHANGED <<effect, binding>>

Begins(r) ==
    /\ runner[r].pc = "begin"
    /\ LeaseHeld(r)
    /\ CanBegin(runner[r].t, runner[r].eff, runner[r].gen)
    /\ SetEffect(runner[r].t, runner[r].eff, "applying", runner[r].gen)
    /\ UNCHANGED <<transition, receipt, binding>>

Proves(r) ==
    /\ runner[r].pc = "finish"
    /\ LeaseHeld(r)
    /\ CanFinish(runner[r].t, runner[r].eff, runner[r].gen, runner[r].attempt)
    /\ SetEffect(runner[r].t, runner[r].eff, "applied", runner[r].gen)
    /\ UNCHANGED <<transition, receipt, binding>>

Completes(r) ==
    LET t == runner[r].t
    IN  /\ runner[r].pc = "finalize"
        /\ LeaseHeld(r)
        /\ BindingExecutable(t)
        /\ CanFinalize(t, runner[r].rev)
        /\ SetEffect(t, Final, "applied", runner[r].gen)
        /\ binding' = [revision |-> runner[r].rev, active |-> None, receipt |-> None]
        /\ EndClaim(r, "completed", transition[t].wait, transition[t].error)

\* A step of a runner does one of these to the rows, or nothing.
LEMMA StepKinds ==
    ASSUME TypeInv, NEW r \in Runners, Step(r)
    PROVE  /\ runner[r].pc # "idle"
           /\ UNCHANGED <<status, faults>>
           /\ \/ UNCHANGED Rows
              \/ Beats(r) \/ Releases(r) \/ Withdraws(r) \/ Begins(r) \/ Proves(r)
              \/ Completes(r) \/ Reject(r)
           /\ UNCHANGED slot \/ Insert(r)
  <1>1. CASE Loop(r) \/ Observed(r) \/ Begun(r) \/ Finished(r) \/ FinalizeObserved(r)
    BY <1>1 DEF Loop, Observed, Begun, Finished, FinalizeObserved, Beats, Rows
  <1>2. CASE Observe(r) \/ Execute(r) \/ Insert(r) \/ FinalizeObserve(r) \/ Raise(r)
    BY <1>2 DEF Observe, Execute, Insert, FinalizeObserve, Raise, Rows
  <1>3. CASE BeginEffect(r)
    BY <1>3 DEF BeginEffect, Begins, Rows
  <1>4. CASE FinishEffect(r)
    BY <1>4 DEF FinishEffect, Proves, Rows
  <1>5. CASE YieldReady(r)
    <2>1. 0 \in Nat /\ "none" \in Reasons
      BY DEF Reasons
    <2> QED
      BY <1>5, <2>1 DEF YieldReady, Releases, Rows
  <1>6. CASE Retry(r)
    <2>1. "unavailable" \in Reasons /\ \A wait \in 0..MaxDelay : wait \in Nat
      BY DEF Reasons
    <2> QED
      BY <1>6, <2>1 DEF Retry, Releases, Rows
  <1>7. CASE Quarantine(r)
    BY <1>7 DEF Quarantine, Withdraws, Rows
  <1>8. CASE Finalize(r)
    BY <1>8 DEF Finalize, Completes, Rows
  <1>9. CASE Reject(r)
    BY <1>9 DEF Reject
  <1> QED
    BY <1>1, <1>2, <1>3, <1>4, <1>5, <1>6, <1>7, <1>8, <1>9 DEF Step

----------------------------------------------------------------------------
(* The rows.                                                               *)

\* RowsInv for one transition, by its parts.
RowOK(t) ==
    /\ HeaderOK(transition[t])
    /\ EffectsOK(effect[t], transition[t].state)
    /\ HoldsBinding(binding, transition[t], t)
    /\ t \in Commands /\ transition[t].state # "absent" =>
           MirrorOK(receipt[t], transition[t])

\* A row that is not written stays as it is, if the binding does.
LEMMA RowKept ==
    ASSUME RowsInv, NEW t \in Transitions, transition'[t] = transition[t],
           effect'[t] = effect[t], UNCHANGED binding,
           t \in Commands => receipt'[t] = receipt[t]
    PROVE  RowOK(t)'
  <1>1. RowOK(t)
    BY DEF RowsInv, RowOK
  <1> QED
    BY <1>1 DEF RowOK, HeaderOK, EffectsOK, HoldsBinding, MirrorOK

\* The holder of a claim, or a runner that claims, writes header and receipt of
\* a live transition.
LEMMA LiveRow ==
    ASSUME TypeInv, RowsInv, NEW t \in Transitions,
           transition[t].state \in {"ready", "applying"},
           NEW st \in LiveStates, NEW owner, NEW gen, NEW lease, NEW wait, NEW error,
           SetTransition(t, st, owner, gen, lease, wait, error),
           SetReceipt(t, ReceiptStateOf(st), owner, gen, lease),
           UNCHANGED <<effect, binding>>,
           st = "applying" => owner # None /\ gen >= 1,
           st # "applying" => owner = None /\ lease = 0,
           st = "quarantined" => error # "none",
           st # "ready" => wait = 0
    PROVE  RowsInv'
  <1> DEFINE row == [state |-> st, owner |-> owner, gen |-> gen, lease |-> lease,
                     wait |-> wait, expected |-> transition[t].expected,
                     error |-> error]
  <1>1. transition'[t] = row /\ \A u \in Transitions \ {t} : transition'[u] = transition[u]
    BY HeaderWritten
  <1>2. /\ t \in Commands => MirrorOK(receipt'[t], row)
        /\ \A u \in Commands \ {t} : receipt'[u] = receipt[u]
    <2>1. /\ t \in Commands =>
                 receipt'[t] = [state |-> ReceiptStateOf(st), linked |-> TRUE,
                                owner |-> owner, gen |-> gen, lease |-> lease,
                                expected |-> receipt[t].expected]
          /\ \A u \in Commands \ {t} : receipt'[u] = receipt[u]
      BY ReceiptWritten, Zenon
    <2>2. row.state = st /\ row.owner = owner /\ row.gen = gen /\ row.lease = lease
      OBVIOUS
    <2> QED
      BY <2>1, <2>2 DEF MirrorOK
  <1>3. HeaderOK(row)
    BY DEF HeaderOK, LiveStates
  <1>4. EffectsOK(effect[t], row.state)
    BY DEF EffectsOK, LiveStates, RowsInv
  <1>5. HoldsBinding(binding, row, t)
    <2>1. HoldsBinding(binding, transition[t], t)
      BY DEF RowsInv
    <2> QED
      BY <2>1 DEF HoldsBinding, LiveStates
  <1>6. RowOK(t)'
    BY <1>1, <1>2, <1>3, <1>4, <1>5 DEF RowOK
  <1>7. ASSUME NEW u \in Transitions, u # t
        PROVE  RowOK(u)'
    BY <1>1, <1>2, <1>7, RowKept
  <1> QED
    BY <1>6, <1>7 DEF RowsInv, RowOK

\* A write to the ledger of the holder's transition.
LEMMA LedgerRow ==
    ASSUME TypeInv, RowsInv, NEW t \in Transitions, transition[t].state = "applying",
           NEW e \in Effects, NEW st \in Done, NEW gen \in Nat, gen >= 1,
           SetEffect(t, e, st, gen), UNCHANGED <<transition, receipt, binding>>
    PROVE  RowsInv'
  <1>1. /\ effect'[t] = [effect[t] EXCEPT ![e] = [state |-> st, gen |-> gen]]
        /\ \A u \in Transitions \ {t} : effect'[u] = effect[u]
    BY DEF SetEffect, TypeInv, TypeOK
  <1>2. effect[t] \in [Effects -> EffectRow]
    BY DEF TypeInv, TypeOK
  <1>3. EffectsOK(effect[t], "applying")
    BY DEF RowsInv
  <1>4. EffectsOK(effect'[t], "applying")
    BY <1>1, <1>2, <1>3 DEF EffectsOK, Done
  <1>5. RowOK(t)'
    BY <1>4 DEF RowOK, RowsInv
  <1>6. ASSUME NEW u \in Transitions, u # t
        PROVE  RowOK(u)'
    BY <1>1, <1>6, RowKept
  <1> QED
    BY <1>5, <1>6 DEF RowsInv, RowOK

\* A row that is not live stays as it is, if the binding does not name it and
\* moves forward only.
LEMMA RowAside ==
    ASSUME TypeInv, TypeInv', RowsInv, NEW t \in Transitions,
           transition[t].state \notin LiveStates,
           transition'[t] = transition[t], effect'[t] = effect[t],
           t \in Commands => receipt'[t] = receipt[t] \/ transition[t].state = "absent",
           binding'.active # t, binding'.revision >= binding.revision
    PROVE  RowOK(t)'
  <1>1. /\ HeaderOK(transition[t])
        /\ EffectsOK(effect[t], transition[t].state)
        /\ HoldsBinding(binding, transition[t], t)
        /\ t \in Commands /\ transition[t].state # "absent" =>
               MirrorOK(receipt[t], transition[t])
    BY DEF RowsInv
  <1>2. /\ binding.revision \in Nat /\ binding'.revision \in Nat
        /\ transition[t].expected \in Nat
    BY DEF TypeInv, TypeOK, BindingRow, TransitionRow
  <1>3. HoldsBinding(binding', transition'[t], t)
    BY <1>1, <1>2 DEF HoldsBinding
  <1>4. t \in Commands /\ transition'[t].state # "absent" =>
            MirrorOK(receipt'[t], transition'[t])
    BY <1>1
  <1>5. HeaderOK(transition'[t]) /\ EffectsOK(effect'[t], transition'[t].state)
    BY <1>1
  <1> QED
    BY <1>3, <1>4, <1>5 DEF RowOK

\* The holder of a lease, as the header has it.
LEMMA Holder ==
    ASSUME LedgerInv, RowsInv, NEW r \in Runners, runner[r].pc # "idle", LeaseHeld(r)
    PROVE  /\ runner[r].t \in Transitions
           /\ transition[runner[r].t].state = "applying"
           /\ transition[runner[r].t].gen = runner[r].gen
           /\ transition[runner[r].t].owner = OwnerOf[r]
           /\ transition[runner[r].t].wait = 0
           /\ OwnerOf[r] # None
           /\ runner[r].gen \in Nat /\ runner[r].gen >= 1
  <1>1. runner[r].t \in Transitions /\ runner[r].gen \in Nat
    BY AtWork DEF LedgerInv
  <1>2. /\ transition[runner[r].t].state = "applying"
        /\ transition[runner[r].t].gen = runner[r].gen
        /\ transition[runner[r].t].owner = OwnerOf[r]
    BY DEF LeaseHeld, Owned
  <1>3. transition[runner[r].t].wait = 0
    BY <1>1, <1>2 DEF RowsInv, HeaderOK
  <1>4. OwnerOf[r] # None
    BY ConstantsAssumption DEF ConstantsAssumption
  <1>5. runner[r].gen >= 1
    BY DEF LedgerInv, RunnersInformed, RunnerInformed
  <1> QED
    BY <1>1, <1>2, <1>3, <1>4, <1>5

LEMMA ReceiptStateNames ==
    /\ ReceiptStateOf("ready") = "pending"
    /\ ReceiptStateOf("quarantined") = "pending"
    /\ ReceiptStateOf("applying") = "dispatching"
    /\ ReceiptStateOf("completed") = "completed"
    /\ ReceiptStateOf("rejected") = "rejected"
  BY DEF ReceiptStateOf

\* claim writes the rows of a live transition.
LEMMA RowsClaim ==
    ASSUME LedgerInv, RowsInv, NEW r \in Runners, NEW t \in Transitions, Claim(r, t)
    PROVE  RowsInv'
  <1>1. transition[t].state \in {"ready", "applying"}
    BY DEF Claim, Claimable
  <1>2. NextGeneration(t) \in Nat /\ NextGeneration(t) >= 1
    BY DEF NextGeneration, LedgerInv, TypeInv, TypeOK, TransitionRow
  <1>3. OwnerOf[r] # None
    BY ConstantsAssumption DEF ConstantsAssumption
  <1>4. /\ SetTransition(t, "applying", OwnerOf[r], NextGeneration(t), LeaseSeconds, 0,
                         transition[t].error)
        /\ SetReceipt(t, ReceiptStateOf("applying"), OwnerOf[r], NextGeneration(t),
                      LeaseSeconds)
        /\ UNCHANGED <<effect, binding>>
    BY ReceiptStateNames DEF Claim
  <1>5. "applying" \in LiveStates /\ TypeInv
    BY DEF LiveStates, LedgerInv
  <1> HIDE DEF LiveStates
  <1> QED
    BY <1>1, <1>2, <1>3, <1>4, <1>5, LiveRow

\* So do heartbeat, release, yield_ready and quarantine.
LEMMA RowsHolder ==
    ASSUME LedgerInv, RowsInv, ReasonInv, NEW r \in Runners, runner[r].pc # "idle",
           Beats(r) \/ Releases(r) \/ Withdraws(r)
    PROVE  RowsInv'
  <1> DEFINE t == runner[r].t
             g == runner[r].gen
  <1>1. LeaseHeld(r) /\ UNCHANGED <<effect, binding>>
    BY DEF Beats, Releases, Withdraws
  <1>2. /\ t \in Transitions
        /\ transition[t].state = "applying"
        /\ transition[t].wait = 0
        /\ OwnerOf[r] # None
        /\ g \in Nat /\ g >= 1
    BY <1>1, Holder
  <1>3. TypeInv
    BY DEF LedgerInv
  <1>4. CASE Beats(r)
    <2>1. /\ SetTransition(t, "applying", OwnerOf[r], g, LeaseSeconds, transition[t].wait,
                           transition[t].error)
          /\ SetReceipt(t, ReceiptStateOf("applying"), OwnerOf[r], g, LeaseSeconds)
      BY <1>4, ReceiptStateNames DEF Beats, Renew
    <2>2. "applying" \in LiveStates
      BY DEF LiveStates
    <2> QED
      BY <1>1, <1>2, <1>3, <2>1, <2>2, LiveRow
  <1>5. CASE Releases(r)
    <2>1. PICK wait \in Nat, error \in Reasons : EndClaim(r, "ready", wait, error)
      BY <1>5 DEF Releases
    <2>2. /\ SetTransition(t, "ready", None, g, 0, wait, error)
          /\ SetReceipt(t, ReceiptStateOf("ready"), None, g, 0)
      BY <2>1 DEF EndClaim
    <2>3. "ready" \in LiveStates
      BY DEF LiveStates
    <2> QED
      BY <1>1, <1>2, <1>3, <2>2, <2>3, LiveRow
  <1>6. CASE Withdraws(r)
    <2>1. /\ SetTransition(t, "quarantined", None, g, 0, transition[t].wait,
                           runner[r].reason)
          /\ SetReceipt(t, ReceiptStateOf("quarantined"), None, g, 0)
      BY <1>6 DEF Withdraws, EndClaim
    <2>2. "quarantined" \in LiveStates
      BY DEF LiveStates
    <2>3. runner[r].reason # "none"
      BY <1>6 DEF Withdraws, ReasonInv
    <2> QED
      BY <1>1, <1>2, <1>3, <2>1, <2>2, <2>3, LiveRow
  <1> QED
    BY <1>4, <1>5, <1>6

\* begin_effect and finish_effect write the ledger only.
LEMMA RowsLedger ==
    ASSUME LedgerInv, RowsInv, NEW r \in Runners, runner[r].pc # "idle",
           Begins(r) \/ Proves(r)
    PROVE  RowsInv'
  <1>1. /\ runner[r].pc \in {"begin", "finish"}
        /\ LeaseHeld(r)
        /\ \E st \in Done : SetEffect(runner[r].t, runner[r].eff, st, runner[r].gen)
        /\ UNCHANGED <<transition, receipt, binding>>
    BY DEF Begins, Proves, Done
  <1>2. runner[r].eff \in Effects
    BY <1>1, Ordinals DEF LedgerInv, TypeInv, RunnerBound
  <1> QED
    BY <1>1, <1>2, Holder, LedgerRow DEF LedgerInv

\* The binding names its one live transition.
LEMMA OneLive ==
    ASSUME RowsInv, NEW t \in Transitions, transition[t].state \in LiveStates,
           NEW u \in Transitions, u # t
    PROVE  binding.active = t /\ transition[u].state \notin LiveStates
  BY DEF RowsInv, HoldsBinding

\* A claim that ends for good, as header and receipt have it.
LEMMA ClaimEnded ==
    ASSUME LedgerInv, RowsInv, NEW r \in Runners, runner[r].pc # "idle", LeaseHeld(r),
           NEW st \in {"completed", "rejected"}, NEW error,
           EndClaim(r, st, transition[runner[r].t].wait, error),
           st = "rejected" => error # "none"
    PROVE  /\ transition'[runner[r].t].state = st
           /\ transition'[runner[r].t].expected = transition[runner[r].t].expected
           /\ HeaderOK(transition'[runner[r].t])
           /\ runner[r].t \in Commands =>
                  MirrorOK(receipt'[runner[r].t], transition'[runner[r].t])
           /\ \A u \in Transitions \ {runner[r].t} :
                  /\ transition'[u] = transition[u]
                  /\ u \in Commands => receipt'[u] = receipt[u]
  <1> DEFINE t == runner[r].t
             row == [state |-> st, owner |-> None, gen |-> runner[r].gen, lease |-> 0,
                     wait |-> transition[t].wait, expected |-> transition[t].expected,
                     error |-> error]
  <1>1. t \in Transitions /\ transition[t].wait = 0 /\ TypeInv
    BY Holder DEF LedgerInv
  <1>2. /\ SetTransition(t, st, None, runner[r].gen, 0, transition[t].wait, error)
        /\ SetReceipt(t, ReceiptStateOf(st), None, runner[r].gen, 0)
    BY DEF EndClaim
  <1>3. /\ transition'[t] = row
        /\ \A u \in Transitions \ {t} : transition'[u] = transition[u]
    BY <1>1, <1>2, HeaderWritten
  <1>4. /\ t \in Commands =>
               receipt'[t] = [state |-> ReceiptStateOf(st), linked |-> TRUE, owner |-> None,
                              gen |-> runner[r].gen, lease |-> 0,
                              expected |-> receipt[t].expected]
        /\ \A u \in Commands \ {t} : receipt'[u] = receipt[u]
    BY <1>1, <1>2, ReceiptWritten
  <1>5. /\ row.state = st /\ row.owner = None /\ row.gen = runner[r].gen
        /\ row.lease = 0 /\ row.wait = 0 /\ row.error = error
        /\ row.expected = transition[t].expected
    BY <1>1
  <1>6. HeaderOK(row)
    BY <1>5 DEF HeaderOK
  <1>7. t \in Commands => MirrorOK(receipt'[t], row)
    BY <1>4, <1>5 DEF MirrorOK
  <1> HIDE DEF row
  <1> QED
    BY <1>3, <1>4, <1>5, <1>6, <1>7

\* finalize takes the transition out of the binding and moves it forward.
LEMMA RowsComplete ==
    ASSUME LedgerInv, RowsInv, TypeInv', NEW r \in Runners, runner[r].pc # "idle",
           Completes(r)
    PROVE  RowsInv'
  <1>0. PICK t \in Transitions : t = runner[r].t
    BY Holder DEF Completes
  <1>1. /\ LeaseHeld(r)
        /\ BindingExecutable(t)
        /\ CanFinalize(t, runner[r].rev)
        /\ SetEffect(t, Final, "applied", runner[r].gen)
        /\ binding' = [revision |-> runner[r].rev, active |-> None, receipt |-> None]
        /\ EndClaim(r, "completed", transition[t].wait, transition[t].error)
    BY <1>0 DEF Completes
  <1>2. /\ t \in Transitions /\ transition[t].state = "applying"
        /\ runner[r].gen \in Nat /\ runner[r].gen >= 1
    BY <1>0, <1>1, Holder
  <1>3. /\ transition'[t].state = "completed"
        /\ transition'[t].expected = transition[t].expected
        /\ HeaderOK(transition'[t])
        /\ t \in Commands => MirrorOK(receipt'[t], transition'[t])
        /\ \A u \in Transitions \ {t} :
               /\ transition'[u] = transition[u]
               /\ u \in Commands => receipt'[u] = receipt[u]
    BY <1>0, <1>1, ClaimEnded
  <1>4. TypeInv /\ None \notin Transitions
    BY ConstantsAssumption DEF LedgerInv, ConstantsAssumption
  <1>5. /\ binding'.revision = runner[r].rev
        /\ binding'.active = None
        /\ runner[r].rev > transition[t].expected
        /\ binding.revision = transition[t].expected
    BY <1>1 DEF CanFinalize, BindingExecutable
  <1>6. HoldsBinding(binding', transition'[t], t)
    BY <1>2, <1>3, <1>4, <1>5 DEF HoldsBinding, LiveStates
  <1>7. /\ effect'[t] = [effect[t] EXCEPT ![Final] =
                            [state |-> "applied", gen |-> runner[r].gen]]
        /\ \A u \in Transitions \ {t} : effect'[u] = effect[u]
        /\ effect[t] \in [Effects -> EffectRow]
    BY <1>1, <1>2, <1>4 DEF SetEffect, TypeInv, TypeOK
  <1>8. EffectsOK(effect'[t], transition'[t].state)
    <2>1. EffectsOK(effect[t], "applying")
      BY <1>2 DEF RowsInv
    <2>2. \A e \in Effects \ {Final} : effect[t][e].state = "applied"
      BY <1>1, Ordinals DEF CanFinalize
    <2>3. \A e \in Effects : /\ effect'[t][e].state = "applied"
                             /\ effect'[t][e].gen >= 1
      BY <1>2, <1>7, <2>1, <2>2 DEF EffectsOK, Done
    <2> QED
      BY <1>3, <2>3 DEF EffectsOK
  <1>9. RowOK(t)'
    BY <1>3, <1>6, <1>8 DEF RowOK
  <1>10. ASSUME NEW u \in Transitions, u # t
         PROVE  RowOK(u)'
    <2>1. transition[u].state \notin LiveStates
      BY <1>2, <1>10, OneLive DEF LiveStates
    <2>2. binding'.revision >= binding.revision /\ binding'.active # u
      <3>1. binding.revision \in Nat /\ runner[r].rev \in Nat
        BY <1>4, AtWork DEF TypeInv, TypeOK, BindingRow
      <3> QED
        BY <1>4, <1>5, <3>1
    <2> QED
      BY <1>3, <1>4, <1>7, <1>10, <2>1, <2>2, RowAside
  <1> QED
    BY <1>9, <1>10 DEF RowsInv, RowOK

\* reject does so without an effect.
LEMMA RowsReject ==
    ASSUME LedgerInv, RowsInv, TypeInv', NEW r \in Runners, Reject(r)
    PROVE  RowsInv'
  <1>0. PICK t \in Transitions : t = runner[r].t
    BY Holder DEF Reject
  <1>1. /\ runner[r].pc # "idle"
        /\ LeaseHeld(r)
        /\ effect' = [effect EXCEPT ![t] =
                         [e \in Effects |-> [state |-> "rejected", gen |-> 0]]]
        /\ binding' = [binding EXCEPT !.active = None, !.receipt = None]
        /\ EndClaim(r, "rejected", transition[t].wait, "rejected")
    BY <1>0 DEF Reject
  <1>2. t \in Transitions /\ transition[t].state = "applying"
    BY <1>0, <1>1, Holder
  <1>3. /\ transition'[t].state = "rejected"
        /\ HeaderOK(transition'[t])
        /\ t \in Commands => MirrorOK(receipt'[t], transition'[t])
        /\ \A u \in Transitions \ {t} :
               /\ transition'[u] = transition[u]
               /\ u \in Commands => receipt'[u] = receipt[u]
    BY <1>0, <1>1, ClaimEnded
  <1>4. TypeInv /\ None \notin Transitions
    BY ConstantsAssumption DEF LedgerInv, ConstantsAssumption
  <1>5. binding'.revision = binding.revision /\ binding'.active = None
    BY <1>1, <1>4 DEF TypeInv, TypeOK, BindingRow
  <1>6. HoldsBinding(binding', transition'[t], t)
    BY <1>2, <1>3, <1>4, <1>5 DEF HoldsBinding, LiveStates
  <1>7. /\ effect'[t] = [e \in Effects |-> [state |-> "rejected", gen |-> 0]]
        /\ \A u \in Transitions \ {t} : effect'[u] = effect[u]
    BY <1>1, <1>2, <1>4 DEF TypeInv, TypeOK
  <1>8. EffectsOK(effect'[t], transition'[t].state)
    BY <1>3, <1>7 DEF EffectsOK, Done
  <1>9. RowOK(t)'
    BY <1>3, <1>6, <1>8 DEF RowOK
  <1>10. ASSUME NEW u \in Transitions, u # t
         PROVE  RowOK(u)'
    <2>1. transition[u].state \notin LiveStates
      BY <1>2, <1>10, OneLive DEF LiveStates
    <2>2. binding'.revision >= binding.revision /\ binding'.active # u
      <3>1. binding.revision \in Nat
        BY <1>4 DEF TypeInv, TypeOK, BindingRow
      <3> QED
        BY <1>4, <1>5, <3>1
    <2> QED
      BY <1>3, <1>4, <1>7, <1>10, <2>1, <2>2, RowAside
  <1> QED
    BY <1>9, <1>10 DEF RowsInv, RowOK

\* Nothing is live while the binding names no transition.
LEMMA NoneLive ==
    ASSUME RowsInv, binding.active = None, NEW t \in Transitions
    PROVE  transition[t].state \notin LiveStates
  BY ConstantsAssumption DEF RowsInv, HoldsBinding, ConstantsAssumption

\* Rows that are not written stay as they are.
LEMMA RowsUnchanged ==
    ASSUME RowsInv, UNCHANGED Rows
    PROVE  RowsInv'
  <1>1. /\ transition' = transition /\ effect' = effect
        /\ receipt' = receipt /\ binding' = binding
    BY DEF Rows
  <1>2. ASSUME NEW t \in Transitions PROVE RowOK(t)'
    BY <1>1, RowKept
  <1> QED
    BY <1>2 DEF RowsInv, RowOK

\* stage puts a transition on a free binding and its receipt.
LEMMA RowsStage ==
    ASSUME LedgerInv, RowsInv, TypeInv', NEW t \in Transitions, Stage(t)
    PROVE  RowsInv'
  <1> DEFINE row == [transition[t] EXCEPT !.state = "ready", !.expected = binding.revision]
  <1>1. /\ transition[t].state = "absent"
        /\ binding.active = None /\ binding.receipt = ReceiptOf(t)
        /\ transition' = [transition EXCEPT ![t] = row]
        /\ SetReceipt(t, "pending", None, 0, 0)
        /\ binding' = [binding EXCEPT !.active = t]
        /\ UNCHANGED effect
    BY DEF Stage, BindingStageable
  <1>2. TypeInv /\ None \notin Transitions
    BY ConstantsAssumption DEF LedgerInv, ConstantsAssumption
  <1>3. /\ transition[t] \in TransitionRow
        /\ binding \in BindingRow
        /\ transition'[t] = row
        /\ \A u \in Transitions \ {t} : transition'[u] = transition[u]
    BY <1>1, <1>2 DEF TypeInv, TypeOK
  <1>4. HeaderOK(transition[t]) /\ EffectsOK(effect[t], "absent")
    BY <1>1 DEF RowsInv
  <1>5. /\ row.state = "ready" /\ row.owner = None /\ row.gen = 0 /\ row.lease = 0
        /\ row.wait = 0 /\ row.expected = binding.revision
    BY <1>1, <1>3, <1>4 DEF HeaderOK, TransitionRow
  <1>6. HeaderOK(row)
    BY <1>5 DEF HeaderOK
  <1>7. EffectsOK(effect[t], row.state)
    BY <1>4, <1>5 DEF EffectsOK
  <1>8. /\ binding'.active = t /\ binding'.receipt = ReceiptOf(t)
        /\ binding'.revision = binding.revision
    BY <1>1, <1>3 DEF BindingRow
  <1>9. HoldsBinding(binding', row, t)
    BY <1>5, <1>8 DEF HoldsBinding, LiveStates
  <1>10. /\ t \in Commands =>
               receipt'[t] = [state |-> "pending", linked |-> TRUE, owner |-> None,
                              gen |-> 0, lease |-> 0, expected |-> receipt[t].expected]
        /\ \A u \in Commands \ {t} : receipt'[u] = receipt[u]
    BY <1>1, <1>2, ReceiptWritten
  <1>11. t \in Commands => MirrorOK(receipt'[t], row)
    BY <1>5, <1>10, ReceiptStateNames DEF MirrorOK
  <1> HIDE DEF row
  <1>12. RowOK(t)'
    BY <1>1, <1>3, <1>6, <1>7, <1>9, <1>11 DEF RowOK
  <1>13. ASSUME NEW u \in Transitions, u # t
         PROVE  RowOK(u)'
    <2>1. transition[u].state \notin LiveStates
      BY <1>1, NoneLive
    <2>2. binding'.revision >= binding.revision /\ binding'.active # u
      BY <1>3, <1>8, <1>13 DEF BindingRow
    <2> QED
      BY <1>1, <1>2, <1>3, <1>10, <1>13, <2>1, <2>2, RowAside
  <1> QED
    BY <1>12, <1>13 DEF RowsInv, RowOK

\* The receipt store and record_status touch a binding that names no transition.
LEMMA RowsBinding ==
    ASSUME LedgerInv, RowsInv, TypeInv',
           RecordStatus \/ \E c \in Commands : StageReceipt(c)
    PROVE  RowsInv'
  <1>1. /\ binding.active = None
        /\ UNCHANGED <<transition, effect>>
    BY DEF RecordStatus, StageReceipt
  <1>2. TypeInv /\ None \notin Transitions /\ Commands \subseteq Transitions
    BY ConstantsAssumption DEF LedgerInv, ConstantsAssumption
  <1>3. binding \in BindingRow /\ status \in Nat
    BY <1>2 DEF TypeInv, TypeOK
  <1>4. binding'.active = None /\ binding'.revision >= binding.revision
    <2>1. binding.revision \in Nat
      BY <1>3 DEF BindingRow
    <2>2. CASE RecordStatus
      <3>1. status > binding.revision /\ binding' = [binding EXCEPT !.revision = status]
        BY <2>2 DEF RecordStatus
      <3>2. binding'.active = binding.active /\ binding'.revision = status
        BY <1>3, <3>1 DEF BindingRow
      <3> QED
        BY <1>1, <1>3, <2>1, <3>1, <3>2
    <2>3. CASE \E c \in Commands : StageReceipt(c)
      <3>1. PICK c \in Commands : binding' = [binding EXCEPT !.receipt = c]
        BY <2>3 DEF StageReceipt
      <3>2. binding'.active = binding.active /\ binding'.revision = binding.revision
        BY <1>3, <3>1 DEF BindingRow
      <3> QED
        BY <1>1, <2>1, <3>2
    <2> QED
      BY <2>2, <2>3
  <1>5. ASSUME NEW t \in Commands
        PROVE  receipt'[t] = receipt[t] \/ transition[t].state = "absent"
    <2>1. CASE receipt' = receipt
      BY <2>1
    <2>2. CASE \E c \in Commands : StageReceipt(c)
      <3>1. PICK c \in Commands : StageReceipt(c)
        BY <2>2
      <3>2. receipt[c].state = "absent" /\ \A u \in Commands \ {c} : receipt'[u] = receipt[u]
        BY <1>2, <3>1 DEF StageReceipt, TypeInv, TypeOK
      <3>3. t = c => transition[t].state = "absent"
        <4>1. t \in Transitions /\ transition[t].state \in TransitionStates
          BY <1>2 DEF TypeInv, TypeOK, TransitionRow
        <4>2. transition[t].state # "absent" =>
                  receipt[t].state = ReceiptStateOf(transition[t].state)
          BY <4>1 DEF RowsInv, MirrorOK
        <4> QED
          BY <3>2, <4>1, <4>2 DEF ReceiptStateOf, TransitionStates
      <3> QED
        BY <3>2, <3>3
    <2> QED
      BY <2>1, <2>2 DEF RecordStatus
  <1>6. ASSUME NEW t \in Transitions PROVE RowOK(t)'
    <2>1. transition[t].state \notin LiveStates /\ binding'.active # t
      BY <1>1, <1>2, <1>4, NoneLive
    <2> QED
      BY <1>1, <1>2, <1>4, <1>5, <2>1, RowAside
  <1> QED
    BY <1>6 DEF RowsInv, RowOK

\* Time runs down lease and wait of header and receipt together.
LEMMA RowsTick ==
    ASSUME LedgerInv, RowsInv, Tick
    PROVE  RowsInv'
  <1>1. /\ transition' = [t \in Transitions |->
               [transition[t] EXCEPT !.lease = CountDown(transition[t].lease),
                                     !.wait = CountDown(transition[t].wait)]]
        /\ receipt' = [c \in Commands |->
               [receipt[c] EXCEPT !.lease = CountDown(receipt[c].lease)]]
        /\ UNCHANGED <<effect, binding>>
    BY DEF Tick
  <1>2. CountDown(0) = 0
    BY DEF CountDown
  <1>3. ASSUME NEW t \in Transitions PROVE RowOK(t)'
    <2>1. PICK lease : lease = CountDown(transition[t].lease)
      OBVIOUS
    <2>2. PICK wait : wait = CountDown(transition[t].wait)
      OBVIOUS
    <2>3. PICK row \in TransitionRow : row = transition[t]
      BY DEF LedgerInv, TypeInv, TypeOK
    <2>4. transition'[t] = [row EXCEPT !.lease = lease, !.wait = wait]
      BY <1>1, <2>1, <2>2, <2>3
    <2>5. /\ transition'[t].state = row.state /\ transition'[t].owner = row.owner
          /\ transition'[t].gen = row.gen /\ transition'[t].error = row.error
          /\ transition'[t].expected = row.expected
          /\ transition'[t].lease = lease /\ transition'[t].wait = wait
      BY <2>3, <2>4 DEF TransitionRow
    <2>6. /\ row.lease = 0 => lease = 0
          /\ row.wait = 0 => wait = 0
      BY <1>2, <2>1, <2>2, <2>3
    <2>7. /\ HeaderOK(row) /\ EffectsOK(effect[t], row.state)
          /\ HoldsBinding(binding, row, t)
          /\ t \in Commands /\ row.state # "absent" => MirrorOK(receipt[t], row)
      BY <2>3 DEF RowsInv
    <2>8. HeaderOK(transition'[t])
      BY <2>5, <2>6, <2>7 DEF HeaderOK
    <2>9. HoldsBinding(binding', transition'[t], t)
      BY <1>1, <2>5, <2>7 DEF HoldsBinding
    <2>10. EffectsOK(effect'[t], transition'[t].state)
      BY <1>1, <2>5, <2>7
    <2>11. ASSUME t \in Commands, row.state # "absent"
           PROVE  MirrorOK(receipt'[t], transition'[t])
      <3>1. MirrorOK(receipt[t], row)
        BY <2>7, <2>11
      <3>2. PICK rec \in ReceiptRow : rec = receipt[t]
        BY <2>11 DEF LedgerInv, TypeInv, TypeOK
      <3>3. rec.lease = row.lease
        BY <3>1, <3>2 DEF MirrorOK
      <3>4. receipt'[t] = [rec EXCEPT !.lease = lease]
        BY <1>1, <2>1, <2>3, <2>11, <3>2, <3>3
      <3>5. /\ receipt'[t].linked = rec.linked /\ receipt'[t].state = rec.state
            /\ receipt'[t].owner = rec.owner /\ receipt'[t].gen = rec.gen
            /\ receipt'[t].lease = lease
        BY <3>2, <3>4 DEF ReceiptRow
      <3> QED
        BY <2>5, <3>1, <3>2, <3>5 DEF MirrorOK
    <2> QED
      BY <2>5, <2>8, <2>9, <2>10, <2>11 DEF RowOK
  <1> QED
    BY <1>3 DEF RowsInv, RowOK

----------------------------------------------------------------------------
(* The runners between two transactions.                                   *)

\* Where a step leaves its runner.
Quarantines(r) == \E reason \in Reasons \ {"none"} : GoQuarantine(r, reason)

Proceeds(r) == \E pc \in Phases \ {"idle", "loop", "retry", "quarantine"} : Goto(r, pc)

TakesUp(r) ==
    \E e \in Effects :
        /\ IsCurrentStage(runner[r].t, e)
        /\ runner' = [runner EXCEPT ![r] =
               [runner[r] EXCEPT
                   !.pc = IF e = Final THEN "finalize_observe" ELSE "observe",
                   !.eff = e,
                   !.attempt = StageAttempt(runner[r].t, e)]]

LEMMA MoveKinds ==
    ASSUME TypeInv, NEW r \in Runners, Step(r)
    PROVE  \/ Stop(r) \/ GoRetry(r) \/ Quarantines(r) \/ Proceeds(r)
           \/ Loop(r) /\ LeaseHeld(r) /\ TakesUp(r)
           \/ Observe(r) \/ FinalizeObserve(r)
  <1>1. /\ {"begin", "begun", "execute", "insert", "finish", "finished", "yield",
            "finalize"} \subseteq Phases \ {"idle", "loop", "retry", "quarantine"}
        /\ {"effect_observation_failed", "adapter_quarantine",
            "effect_adoption_proof_invalid", "retry_attempts_exhausted",
            "effect_execution_uncertain", "effect_result_invalid",
            "binding_state_drift", "finalization_observation_failed",
            "finalization_proof_invalid"} \subseteq Reasons \ {"none"}
    BY PhaseNames
  <1>2. CASE Loop(r)
    BY <1>2 DEF Loop, TakesUp
  <1>3. CASE Observed(r)
    BY <1>1, <1>3, Zenon DEF Observed, Quarantines, Proceeds
  <1>4. CASE BeginEffect(r)
    <2>1. CASE runner[r].seen = "already_applied"
      BY <1>1, <1>4, <2>1 DEF BeginEffect, Quarantines, Proceeds
    <2>2. CASE runner[r].seen # "already_applied"
      BY <1>1, <1>4, <2>2 DEF BeginEffect, Quarantines, Proceeds
    <2> QED
      BY <2>1, <2>2
  <1>5. CASE Begun(r)
    BY <1>1, <1>5, Zenon DEF Begun, Quarantines, Proceeds
  <1>6. CASE Execute(r)
    BY <1>1, <1>6, Zenon DEF Execute, Proceeds
  <1>7. CASE Insert(r)
    BY <1>1, <1>7, Zenon DEF Insert, Quarantines, Proceeds
  <1>8. CASE FinishEffect(r)
    <2>1. CASE runner[r].seen = "already_applied"
      BY <1>1, <1>8, <2>1 DEF FinishEffect, Quarantines, Proceeds
    <2>2. CASE runner[r].seen # "already_applied"
      BY <1>1, <1>8, <2>2 DEF FinishEffect, Quarantines, Proceeds
    <2> QED
      BY <2>1, <2>2
  <1>9. CASE Finished(r)
    <2>1. CASE runner[r].seen = "already_applied"
      BY <1>1, <1>9, <2>1 DEF Finished, Quarantines, Proceeds
    <2>2. CASE runner[r].seen # "already_applied"
      BY <1>1, <1>9, <2>2 DEF Finished, Quarantines, Proceeds
    <2> QED
      BY <2>1, <2>2
  <1>10. CASE YieldReady(r)
    BY <1>1, <1>10, Zenon DEF YieldReady, Quarantines
  <1>11. CASE Retry(r)
    BY <1>1, <1>11, Zenon DEF Retry, Quarantines
  <1>12. CASE FinalizeObserved(r)
    BY <1>1, <1>12, Zenon DEF FinalizeObserved, Quarantines, Proceeds
  <1>13. CASE Finalize(r)
    BY <1>1, <1>13, Zenon DEF Finalize, Quarantines
  <1>14. CASE Quarantine(r) \/ Reject(r)
    BY <1>14 DEF Quarantine, Reject
  <1>15. CASE Raise(r)
    BY <1>1, <1>15, Zenon DEF Raise, Quarantines
  <1>16. CASE Observe(r) \/ FinalizeObserve(r)
    BY <1>16
  <1> QED
    BY <1>2, <1>3, <1>4, <1>5, <1>6, <1>7, <1>8, <1>9, <1>10, <1>11, <1>12, <1>13,
       <1>14, <1>15, <1>16 DEF Step

\* A step that only takes down what an adapter has answered.
LEMMA AnswerMoves ==
    ASSUME TypeInv, NEW r \in Runners, Observe(r) \/ FinalizeObserve(r)
    PROVE  /\ \A q \in Runners \ {r} : runner'[q] = runner[q]
           /\ runner'[r].pc \in {"observed", "finalize_observed"}
           /\ runner'[r].t = runner[r].t
           /\ runner'[r].gen = runner[r].gen
  <1> DEFINE Answer(pc, seen) == [runner[r] EXCEPT !.pc = pc, !.seen = seen]
             Report(seen, rev) ==
                 [runner[r] EXCEPT !.pc = "finalize_observed", !.seen = seen, !.rev = rev]
  <1>1. runner \in [Runners -> RunnerState]
    BY DEF TypeInv, TypeOK
  <1>2. runner[r] \in RunnerState
    BY <1>1
  <1>3. ASSUME NEW pc, NEW seen
        PROVE  /\ Answer(pc, seen).pc = pc
               /\ Answer(pc, seen).t = runner[r].t
               /\ Answer(pc, seen).gen = runner[r].gen
    BY <1>2 DEF RunnerState
  <1>4. ASSUME NEW seen, NEW rev
        PROVE  /\ Report(seen, rev).pc = "finalize_observed"
               /\ Report(seen, rev).t = runner[r].t
               /\ Report(seen, rev).gen = runner[r].gen
    BY <1>2 DEF RunnerState
  <1>5. \/ \E seen : runner' = [runner EXCEPT ![r] = Answer("observed", seen)]
        \/ \E seen : runner' = [runner EXCEPT ![r] = Answer("finalize_observed", seen)]
        \/ \E seen, rev : runner' = [runner EXCEPT ![r] = Report(seen, rev)]
    <2>1. CASE Observe(r)
      BY <2>1, Zenon DEF Observe
    <2>2. CASE FinalizeObserve(r)
      BY <2>2, Zenon DEF FinalizeObserve
    <2> QED
      BY <2>1, <2>2
  <1> HIDE DEF Answer, Report
  <1>6. ASSUME NEW pc \in {"observed", "finalize_observed"}, NEW seen,
               runner' = [runner EXCEPT ![r] = Answer(pc, seen)]
        PROVE  /\ \A q \in Runners \ {r} : runner'[q] = runner[q]
               /\ runner'[r].pc = pc
               /\ runner'[r].t = runner[r].t
               /\ runner'[r].gen = runner[r].gen
    <2>1. runner'[r] = Answer(pc, seen) /\ \A q \in Runners \ {r} : runner'[q] = runner[q]
      BY <1>1, <1>6
    <2> QED
      BY <1>3, <2>1
  <1>7. ASSUME NEW seen, NEW rev, runner' = [runner EXCEPT ![r] = Report(seen, rev)]
        PROVE  /\ \A q \in Runners \ {r} : runner'[q] = runner[q]
               /\ runner'[r].pc = "finalize_observed"
               /\ runner'[r].t = runner[r].t
               /\ runner'[r].gen = runner[r].gen
    <2>1. runner'[r] = Report(seen, rev) /\ \A q \in Runners \ {r} : runner'[q] = runner[q]
      BY <1>1, <1>7
    <2> QED
      BY <1>4, <2>1
  <1> QED
    BY <1>5, <1>6, <1>7

\* A step moves one runner, which keeps its claim as long as it works.
LEMMA Moved ==
    ASSUME TypeInv, NEW r \in Runners, Step(r)
    PROVE  /\ \A q \in Runners \ {r} : runner'[q] = runner[q]
           /\ runner'[r].pc # "idle" =>
                  /\ runner'[r].t = runner[r].t
                  /\ runner'[r].gen = runner[r].gen
           /\ runner'[r].pc = "quarantine" => runner'[r].reason # "none"
  <1>1. runner \in [Runners -> RunnerState] /\ runner[r].pc # "idle"
    BY StepKinds DEF TypeInv, TypeOK
  <1>2. CASE Stop(r)
    BY <1>1, <1>2 DEF Stop, Idle, Working
  <1>3. CASE GoRetry(r)
    BY <1>1, <1>3 DEF GoRetry, Working
  <1>4. CASE Quarantines(r)
    BY <1>1, <1>4 DEF Quarantines, GoQuarantine, Working
  <1>5. CASE Proceeds(r)
    BY <1>1, <1>5 DEF Proceeds, Goto, RunnerState
  <1>6. CASE TakesUp(r)
    <2>1. PICK e \in Effects, pc \in {"finalize_observe", "observe"} :
              runner' = [runner EXCEPT ![r] =
                  [runner[r] EXCEPT !.pc = pc, !.eff = e,
                                    !.attempt = StageAttempt(runner[r].t, e)]]
      BY <1>6 DEF TakesUp
    <2> QED
      BY <1>1, <2>1 DEF RunnerState
  <1>7. CASE Observe(r) \/ FinalizeObserve(r)
    BY <1>7, AnswerMoves
  <1> QED
    BY <1>2, <1>3, <1>4, <1>5, <1>6, <1>7, MoveKinds

\* A crash stops one runner.
LEMMA CrashMoves ==
    ASSUME TypeInv, NEW r \in Runners, Crash(r)
    PROVE  /\ \A q \in Runners \ {r} : runner'[q] = runner[q]
           /\ runner'[r].pc = "idle"
           /\ UNCHANGED Rows
  BY DEF Crash, Stop, Idle, Working, TypeInv, TypeOK, Rows

\* A claim starts one.
LEMMA ClaimMoves ==
    ASSUME TypeInv, NEW r \in Runners, NEW t \in Transitions, Claim(r, t)
    PROVE  /\ \A q \in Runners \ {r} : runner'[q] = runner[q]
           /\ runner'[r].pc = "loop"
           /\ runner'[r].t = t
           /\ runner'[r].gen = NextGeneration(t)
           /\ transition'[t].gen = NextGeneration(t)
           /\ transition'[t].owner = OwnerOf[r]
           /\ transition'[t].state = "applying"
           /\ transition'[t].lease = LeaseSeconds
           /\ \A u \in Transitions \ {t} : transition'[u] = transition[u]
  <1>1. /\ SetTransition(t, "applying", OwnerOf[r], NextGeneration(t), LeaseSeconds, 0,
                         transition[t].error)
        /\ runner' = [runner EXCEPT ![r] = Working("loop", t, NextGeneration(t), 0, "none")]
    BY DEF Claim
  <1>2. /\ \A q \in Runners \ {r} : runner'[q] = runner[q]
        /\ runner'[r] = Working("loop", t, NextGeneration(t), 0, "none")
    BY <1>1 DEF TypeInv, TypeOK
  <1>3. /\ runner'[r].pc = "loop"
        /\ runner'[r].t = t
        /\ runner'[r].gen = NextGeneration(t)
    BY <1>2 DEF Working
  <1>4. /\ transition'[t] =
               [state |-> "applying", owner |-> OwnerOf[r], gen |-> NextGeneration(t),
                lease |-> LeaseSeconds, wait |-> 0, expected |-> transition[t].expected,
                error |-> transition[t].error]
        /\ \A u \in Transitions \ {t} : transition'[u] = transition[u]
    BY <1>1, HeaderWritten
  <1> QED
    BY <1>2, <1>3, <1>4

\* A runner on its way to quarantine keeps its reason.
LEMMA ReasonNext ==
    ASSUME TypeInv, ReasonInv, [Next]_vars
    PROVE  ReasonInv'
  <1>1. CASE \E r \in Runners : Step(r)
    BY <1>1, Moved DEF ReasonInv
  <1>2. CASE \E r \in Runners : \E t \in Transitions : Claim(r, t)
    BY <1>2, ClaimMoves DEF ReasonInv
  <1>3. CASE \E r \in Runners : Crash(r)
    BY <1>3, CrashMoves DEF ReasonInv
  <1>4. CASE UNCHANGED runner
    BY <1>4 DEF ReasonInv
  <1> QED
    BY <1>1, <1>2, <1>3, <1>4
       DEF Next, vars, RuntimeAdvances, RecordStatus, StageReceipt, Stage, Tick

\* The rows, step by step.
LEMMA RowsNext ==
    ASSUME LedgerInv, RowsInv, ReasonInv, TypeInv', [Next]_vars
    PROVE  RowsInv'
  <1>1. TypeInv
    BY DEF LedgerInv
  <1>2. CASE UNCHANGED Rows
    BY <1>2, RowsUnchanged
  <1>3. CASE \E r \in Runners : Step(r)
    <2>1. PICK r \in Runners : Step(r)
      BY <1>3
    <2>2. /\ runner[r].pc # "idle"
          /\ \/ UNCHANGED Rows
             \/ Beats(r) \/ Releases(r) \/ Withdraws(r) \/ Begins(r) \/ Proves(r)
             \/ Completes(r) \/ Reject(r)
      BY <1>1, <2>1, StepKinds
    <2>3. CASE Beats(r) \/ Releases(r) \/ Withdraws(r)
      BY <2>2, <2>3, RowsHolder
    <2>4. CASE Begins(r) \/ Proves(r)
      BY <2>2, <2>4, RowsLedger
    <2>5. CASE Completes(r)
      BY <2>2, <2>5, RowsComplete
    <2>6. CASE Reject(r)
      BY <2>6, RowsReject
    <2> QED
      BY <1>2, <2>2, <2>3, <2>4, <2>5, <2>6
  <1>4. CASE \E r \in Runners : \E t \in Transitions : Claim(r, t)
    BY <1>4, RowsClaim
  <1>5. CASE \E t \in Transitions : Stage(t)
    BY <1>5, RowsStage
  <1>6. CASE RecordStatus \/ \E c \in Commands : StageReceipt(c)
    BY <1>6, RowsBinding
  <1>7. CASE Tick
    BY <1>7, RowsTick
  <1>8. CASE RuntimeAdvances \/ (\E r \in Runners : Crash(r)) \/ UNCHANGED vars
    BY <1>2, <1>8 DEF RuntimeAdvances, Crash, vars, Rows
  <1> QED
    BY <1>3, <1>4, <1>5, <1>6, <1>7, <1>8 DEF Next

\* In a step of a runner a header that is still applying keeps its claim, and no
\* header gets another generation.
LEMMA StepKeepsClaim ==
    ASSUME LedgerInv, RowsInv, NEW r \in Runners, Step(r), NEW t \in Transitions
    PROVE  /\ transition'[t].gen = transition[t].gen
           /\ transition'[t].state = "applying" =>
                  /\ transition[t].state = "applying"
                  /\ transition'[t].owner = transition[t].owner
                  /\ transition'[t].lease \in {transition[t].lease, LeaseSeconds}
  <1>1. TypeInv
    BY DEF LedgerInv
  <1>2. CASE ~UNCHANGED transition
    <2>1. runner[r].pc # "idle" /\ LeaseHeld(r)
      BY <1>1, <1>2, StepKinds
         DEF Rows, Beats, Releases, Withdraws, Begins, Proves, Completes, Reject
    <2>2. \/ Renew(r)
          \/ \E st \in {"ready", "quarantined", "completed", "rejected"} :
                \E wait, error : EndClaim(r, st, wait, error)
      BY <1>1, <1>2, StepKinds
         DEF Rows, Beats, Releases, Withdraws, Begins, Proves, Completes, Reject
    <2>3. /\ runner[r].t \in Transitions
          /\ transition[runner[r].t].state = "applying"
          /\ transition[runner[r].t].gen = runner[r].gen
          /\ transition[runner[r].t].owner = OwnerOf[r]
      BY <2>1, Holder
    <2>4. CASE Renew(r)
      <3>1. SetTransition(runner[r].t, "applying", OwnerOf[r], runner[r].gen, LeaseSeconds,
                          transition[runner[r].t].wait, transition[runner[r].t].error)
        BY <2>4 DEF Renew
      <3>2. /\ transition'[runner[r].t] =
                   [state |-> "applying", owner |-> OwnerOf[r], gen |-> runner[r].gen,
                    lease |-> LeaseSeconds, wait |-> transition[runner[r].t].wait,
                    expected |-> transition[runner[r].t].expected,
                    error |-> transition[runner[r].t].error]
            /\ \A u \in Transitions \ {runner[r].t} : transition'[u] = transition[u]
        BY <1>1, <2>3, <3>1, HeaderWritten
      <3> QED
        BY <2>3, <3>2
    <2>5. ASSUME NEW st \in {"ready", "quarantined", "completed", "rejected"},
                 NEW wait, NEW error, EndClaim(r, st, wait, error)
          PROVE  /\ transition'[t].gen = transition[t].gen
                 /\ transition'[t].state = "applying" =>
                        /\ transition[t].state = "applying"
                        /\ transition'[t].owner = transition[t].owner
                        /\ transition'[t].lease \in {transition[t].lease, LeaseSeconds}
      <3>1. SetTransition(runner[r].t, st, None, runner[r].gen, 0, wait, error)
        BY <2>5 DEF EndClaim
      <3>2. /\ transition'[runner[r].t] =
                   [state |-> st, owner |-> None, gen |-> runner[r].gen,
                    lease |-> 0, wait |-> wait,
                    expected |-> transition[runner[r].t].expected, error |-> error]
            /\ \A u \in Transitions \ {runner[r].t} : transition'[u] = transition[u]
        BY <1>1, <2>3, <3>1, HeaderWritten
      <3> QED
        BY <2>3, <3>2
    <2> QED
      BY <2>2, <2>4, <2>5
  <1> QED
    BY <1>2

\* Nor does any other step but a claim.
LEMMA ClaimKept ==
    ASSUME LedgerInv, RowsInv, [Next]_vars,
           ~\E r \in Runners : \E u \in Transitions : Claim(r, u),
           NEW t \in Transitions
    PROVE  /\ transition'[t].gen = transition[t].gen
           /\ transition'[t].state = "applying" =>
                  /\ transition[t].state = "applying"
                  /\ transition'[t].owner = transition[t].owner
  <1>1. TypeInv
    BY DEF LedgerInv
  <1>2. CASE UNCHANGED transition
    BY <1>2
  <1>3. ASSUME NEW r \in Runners, Step(r)
        PROVE  /\ transition'[t].gen = transition[t].gen
               /\ transition'[t].state = "applying" =>
                      /\ transition[t].state = "applying"
                      /\ transition'[t].owner = transition[t].owner
    BY <1>3, StepKeepsClaim
  <1>4. CASE Tick
    <2>1. transition'[t] = [transition[t] EXCEPT
                                !.lease = CountDown(transition[t].lease),
                                !.wait = CountDown(transition[t].wait)]
      BY <1>4 DEF Tick
    <2>2. transition[t] \in TransitionRow
      BY <1>1 DEF TypeInv, TypeOK
    <2> QED
      BY <2>1, <2>2 DEF TransitionRow
  <1>5. ASSUME NEW u \in Transitions, Stage(u)
        PROVE  /\ transition'[t].gen = transition[t].gen
               /\ transition'[t].state = "applying" =>
                      /\ transition[t].state = "applying"
                      /\ transition'[t].owner = transition[t].owner
    <2>1. transition' = [transition EXCEPT ![u] =
              [transition[u] EXCEPT !.state = "ready", !.expected = binding.revision]]
      BY <1>5 DEF Stage
    <2>2. transition \in [Transitions -> TransitionRow]
      BY <1>1 DEF TypeInv, TypeOK
    <2> QED
      BY <2>1, <2>2 DEF TransitionRow
  <1>6. CASE \/ RuntimeAdvances \/ RecordStatus \/ UNCHANGED vars
             \/ \E c \in Commands : StageReceipt(c)
             \/ \E r \in Runners : Crash(r)
    BY <1>2, <1>6 DEF RuntimeAdvances, RecordStatus, StageReceipt, Crash, vars, Rows
  <1> QED
    BY <1>3, <1>4, <1>5, <1>6 DEF Next

\* The header of a claim names its owner as long as the claim is current.
LEMMA HolderNext ==
    ASSUME LedgerInv, RowsInv, HolderInv, TypeInv', [Next]_vars
    PROVE  HolderInv'
  <1>1. TypeInv /\ RunnersInformed
    BY DEF LedgerInv
  <1>2. CASE \E r \in Runners : \E t \in Transitions : Claim(r, t)
    <2>1. PICK r \in Runners, t \in Transitions : Claim(r, t)
      BY <1>2
    <2>2. /\ \A q \in Runners \ {r} : runner'[q] = runner[q]
          /\ runner'[r].t = t
          /\ transition'[t].gen = NextGeneration(t)
          /\ transition'[t].owner = OwnerOf[r]
          /\ \A u \in Transitions \ {t} : transition'[u] = transition[u]
      BY <1>1, <2>1, ClaimMoves
    <2>3. ASSUME NEW q \in Runners, q # r, runner[q].pc # "idle"
          PROVE  /\ runner[q].t \in Transitions
                 /\ runner[q].gen # NextGeneration(t) \/ runner[q].t # t
      <3>1. runner[q].t \in Transitions /\ runner[q].gen \in Nat /\ transition[t].gen \in Nat
        BY <1>1, <2>3, AtWork DEF TypeInv, TypeOK, TransitionRow
      <3>2. runner[q].gen <= transition[runner[q].t].gen
        BY <1>1, <2>3 DEF RunnersInformed, RunnerInformed
      <3> QED
        BY <3>1, <3>2 DEF NextGeneration
    <2>4. ASSUME NEW q \in Runners, q # r, runner[q].pc # "idle"
          PROVE  runner[q].t \in Transitions
      BY <1>1, <2>4, AtWork
    <2> QED
      BY <2>2, <2>3, <2>4 DEF HolderInv
  <1>3. CASE ~\E r \in Runners : \E t \in Transitions : Claim(r, t)
    <2>1. \A q \in Runners : runner'[q].pc # "idle" =>
              /\ runner[q].pc # "idle"
              /\ runner'[q].t = runner[q].t
              /\ runner'[q].gen = runner[q].gen
      <3>1. CASE \E r \in Runners : Step(r)
        BY <1>1, <3>1, Moved, StepKinds
      <3>2. CASE \E r \in Runners : Crash(r)
        BY <1>1, <3>2, CrashMoves
      <3>3. CASE UNCHANGED runner
        BY <3>3
      <3> QED
        BY <1>3, <3>1, <3>2, <3>3
           DEF Next, vars, RuntimeAdvances, RecordStatus, StageReceipt, Stage, Tick
    <2>2. \A q \in Runners : runner[q].pc # "idle" => runner[q].t \in Transitions
      BY <1>1, AtWork
    <2>3. \A t \in Transitions :
              /\ transition'[t].gen = transition[t].gen
              /\ transition'[t].state = "applying" =>
                     /\ transition[t].state = "applying"
                     /\ transition'[t].owner = transition[t].owner
      BY <1>3, ClaimKept
    <2> QED
      BY <2>1, <2>2, <2>3 DEF HolderInv
  <1> QED
    BY <1>2, <1>3

\* The inductive invariant of the outbox.
OutboxInv == LedgerInv /\ RowsInv /\ ReasonInv /\ HolderInv

LEMMA OutboxInit == Init => OutboxInv
  <1> SUFFICES ASSUME Init PROVE OutboxInv
    OBVIOUS
  <1>1. LedgerInv
    BY LedgerInit
  <1>2. \A r \in Runners : runner[r].pc = "idle"
    BY IdleType DEF Init
  <1>3. ReasonInv /\ HolderInv
    BY <1>2 DEF ReasonInv, HolderInv
  <1>4. ASSUME NEW t \in Transitions
        PROVE  /\ HeaderOK(transition[t])
               /\ EffectsOK(effect[t], transition[t].state)
               /\ HoldsBinding(binding, transition[t], t)
               /\ transition[t].state = "absent"
    <2>1. transition[t] = [state |-> "absent", owner |-> None, gen |-> 0, lease |-> 0,
                           wait |-> 0, expected |-> 0, error |-> "none"]
      BY DEF Init
    <2>2. \A e \in Effects : effect[t][e] = [state |-> "planned", gen |-> 0]
      BY DEF Init
    <2>3. binding.active = None /\ t # None
      BY ConstantsAssumption DEF Init, ConstantsAssumption
    <2>4. HeaderOK(transition[t])
      BY <2>1 DEF HeaderOK
    <2>5. EffectsOK(effect[t], transition[t].state)
      BY <2>1, <2>2 DEF EffectsOK, Done
    <2>6. HoldsBinding(binding, transition[t], t)
      BY <2>1, <2>3 DEF HoldsBinding, LiveStates
    <2> QED
      BY <2>1, <2>4, <2>5, <2>6
  <1>5. RowsInv
    BY <1>4 DEF RowsInv
  <1> QED
    BY <1>1, <1>3, <1>5 DEF OutboxInv

LEMMA OutboxNext == OutboxInv /\ [Next]_vars => OutboxInv'
  <1> SUFFICES ASSUME OutboxInv, [Next]_vars PROVE OutboxInv'
    OBVIOUS
  <1>1. LedgerInv' /\ TypeInv'
    BY LedgerNext DEF OutboxInv, LedgerInv
  <1>2. TypeInv
    BY DEF OutboxInv, LedgerInv
  <1> QED
    BY <1>1, <1>2, RowsNext, ReasonNext, HolderNext DEF OutboxInv

LEMMA OutboxInvariant == Spec => []OutboxInv
  BY OutboxInit, OutboxNext, PTL DEF Spec

----------------------------------------------------------------------------
(* What the outbox promises about its rows.                                *)

\* For any number of transitions and runners the binding names a transition
\* exactly while it is ready, applying or quarantined, so at most one is live
\* (MarkerExclusive: stage, reject, finalize and quarantine).
THEOREM OneLiveTransition == Spec => []MarkerExclusive
  <1>1. OutboxInv => MarkerExclusive
    BY DEF OutboxInv, RowsInv, HoldsBinding, MarkerExclusive
  <1> QED
    BY <1>1, OutboxInvariant, PTL

\* The revision and the receipt marker of the binding stay as a live transition
\* was staged on them, whoever else records a status or stages a command, and a
\* completed transition has moved the revision (BindingFrozen).
THEOREM BindingStaysFrozen == Spec => []BindingFrozen
  <1>1. OutboxInv => BindingFrozen
    BY DEF OutboxInv, RowsInv, HoldsBinding, BindingFrozen, BindingExecutable, BindingHeld
  <1> QED
    BY <1>1, OutboxInvariant, PTL

\* After every transaction the receipt has state, owner, generation and lease of
\* its transition, so the mirror check never refuses the holder of a lease
\* (ReceiptMirrors: _assert_receipt_lease_mirror).
THEOREM ReceiptFollows == Spec => []ReceiptMirrors
  <1>1. OutboxInv => ReceiptMirrors
    <2> SUFFICES ASSUME OutboxInv, NEW t \in Commands, transition[t].state # "absent"
                 PROVE  Mirrored(t)
      BY DEF ReceiptMirrors
    <2>1. t \in Transitions
      BY ConstantsAssumption DEF ConstantsAssumption
    <2>2. MirrorOK(receipt[t], transition[t])
      BY <2>1 DEF OutboxInv, RowsInv
    <2> QED
      BY <2>2 DEF MirrorOK, Mirrored
  <1> QED
    BY <1>1, OutboxInvariant, PTL

\* No operation writes a header, an effect or a snapshot that the constructors
\* of the aggregate refuse to read back (AggregateReadable).
THEOREM AggregatesReadable == Spec => []AggregateReadable
  <1>1. OutboxInv => AggregateReadable
    <2> SUFFICES ASSUME OutboxInv, NEW t \in Transitions
                 PROVE  HeaderOK(transition[t]) /\ EffectsOK(effect[t], transition[t].state)
      BY DEF AggregateReadable, HeaderOK, EffectsOK, Done
    <2> QED
      BY DEF OutboxInv, RowsInv
  <1> QED
    BY <1>1, OutboxInvariant, PTL

\* A row that is completed, rejected or quarantined is not written again, nor is
\* its ledger: time has nothing left to run down, and every write needs a claim
\* that is still current (SettledForGood: _assert_sql_owned).
THEOREM SettledRowsStay == Spec => SettledForGood
  <1>1. ASSUME OutboxInv, [Next]_vars, NEW t \in Transitions, Settled(t)
        PROVE  UNCHANGED <<transition[t], effect[t]>>
    <2>1. /\ TypeInv /\ LedgerInv /\ RowsInv
          /\ transition[t].state \in {"completed", "rejected", "quarantined"}
      BY <1>1 DEF OutboxInv, LedgerInv, Settled
    <2>2. CASE UNCHANGED <<transition, effect>>
      BY <2>2
    <2>3. ASSUME NEW r \in Runners, Step(r)
          PROVE  UNCHANGED <<transition[t], effect[t]>>
      <3>1. CASE ~UNCHANGED <<transition, effect>>
        <4>1. runner[r].pc # "idle" /\ LeaseHeld(r)
          BY <2>1, <2>3, <3>1, StepKinds
             DEF Rows, Beats, Releases, Withdraws, Begins, Proves, Completes, Reject
        <4>2. /\ \/ UNCHANGED transition
                 \/ Renew(r)
                 \/ \E st, wait, error : EndClaim(r, st, wait, error)
              /\ \/ UNCHANGED effect
                 \/ \E e, st, gen : SetEffect(runner[r].t, e, st, gen)
                 \/ \E row : effect' = [effect EXCEPT ![runner[r].t] = row]
          BY <2>1, <2>3, <3>1, StepKinds
             DEF Rows, Beats, Releases, Withdraws, Begins, Proves, Completes, Reject
        <4>3. runner[r].t \in Transitions /\ runner[r].t # t
          BY <2>1, <4>1, Holder
        <4>4. transition'[t] = transition[t]
          BY <2>1, <4>2, <4>3 DEF Renew, EndClaim, SetTransition, TypeInv, TypeOK
        <4>5. effect'[t] = effect[t]
          BY <2>1, <4>2, <4>3 DEF SetEffect, TypeInv, TypeOK
        <4> QED
          BY <4>4, <4>5
      <3> QED
        BY <2>2, <3>1
    <2>4. CASE Tick
      <3>1. PICK row \in TransitionRow : row = transition[t]
        BY <2>1 DEF TypeInv, TypeOK
      <3>2. row.lease = 0 /\ row.wait = 0
        BY <2>1, <3>1 DEF RowsInv, HeaderOK
      <3>3. CountDown(0) = 0
        BY DEF CountDown
      <3>4. transition'[t] = [row EXCEPT !.lease = CountDown(row.lease),
                                         !.wait = CountDown(row.wait)]
        BY <2>4, <3>1 DEF Tick
      <3>5. transition'[t] = [row EXCEPT !.lease = 0, !.wait = 0]
        BY <3>2, <3>3, <3>4
      <3>6. transition'[t] = row
        <4>1. PICK new \in TransitionRow : new = transition'[t]
          BY <1>1, <2>1, TypeNext DEF TypeInv, TypeOK
        <4>2. /\ new.state = row.state /\ new.owner = row.owner /\ new.gen = row.gen
              /\ new.lease = row.lease /\ new.wait = row.wait
              /\ new.expected = row.expected /\ new.error = row.error
          BY <3>1, <3>2, <3>5, <4>1 DEF TransitionRow
        <4>3. new = row
          BY <3>1, <4>1, <4>2 DEF TransitionRow
        <4> QED
          BY <4>1, <4>3
      <3> QED
        BY <2>4, <3>1, <3>6 DEF Tick
    <2>5. ASSUME NEW u \in Transitions, Stage(u)
          PROVE  UNCHANGED <<transition[t], effect[t]>>
      BY <2>1, <2>5 DEF Stage, TypeInv, TypeOK
    <2>6. ASSUME NEW r \in Runners, NEW u \in Transitions, Claim(r, u)
          PROVE  UNCHANGED <<transition[t], effect[t]>>
      <3>1. u # t
        BY <2>1, <2>6 DEF Claim, Claimable
      <3> QED
        BY <2>1, <2>6, <3>1 DEF Claim, SetTransition, TypeInv, TypeOK
    <2>7. CASE \/ RuntimeAdvances \/ RecordStatus \/ UNCHANGED vars
               \/ \E c \in Commands : StageReceipt(c)
               \/ \E r \in Runners : Crash(r)
      BY <2>2, <2>7 DEF RuntimeAdvances, RecordStatus, StageReceipt, Crash, vars, Rows
    <2> QED
      BY <1>1, <2>3, <2>4, <2>5, <2>6, <2>7 DEF Next
  <1>2. OutboxInv /\ [Next]_vars =>
            [\A t \in Transitions : Settled(t) => UNCHANGED <<transition[t], effect[t]>>]_vars
    BY <1>1
  <1> QED
    BY <1>2, OutboxInvariant, PTL DEF Spec, SettledForGood

----------------------------------------------------------------------------
(* The outbox implements DurableTransition.                                *)

\* The variables of DurableTransition, read from the rows.
PhaseNow == [t \in Transitions |-> PhaseOf(transition[t].state)]
MadeNow == [t \in Transitions |-> {e \in NonFinal : slot[t][e] # 0}]
ProvenNow == [t \in Transitions |-> {e \in NonFinal : effect[t][e].state = "applied"}]

\* A step leaves the phases of all transitions, or of all but one, as they are.
LEMMA PhaseSame ==
    ASSUME \A t \in Transitions :
               PhaseOf(transition'[t].state) = PhaseOf(transition[t].state)
    PROVE  PhaseNow' = PhaseNow
  BY DEF PhaseNow

LEMMA PhaseMoves ==
    ASSUME NEW t \in Transitions, NEW ph, PhaseOf(transition'[t].state) = ph,
           \A u \in Transitions \ {t} :
               PhaseOf(transition'[u].state) = PhaseOf(transition[u].state)
    PROVE  PhaseNow' = [PhaseNow EXCEPT ![t] = ph]
  BY DEF PhaseNow

LEMMA ProvenSame ==
    ASSUME \A t \in Transitions, e \in NonFinal :
               effect'[t][e].state = "applied" <=> effect[t][e].state = "applied"
    PROVE  ProvenNow' = ProvenNow
  BY DEF ProvenNow

LEMMA ProvenGrows ==
    ASSUME NEW t \in Transitions, NEW e \in NonFinal, effect'[t][e].state = "applied",
           \A f \in NonFinal \ {e} : effect'[t][f] = effect[t][f],
           \A u \in Transitions \ {t} : effect'[u] = effect[u]
    PROVE  ProvenNow' = [ProvenNow EXCEPT ![t] = ProvenNow[t] \cup {e}]
  <1>1. {f \in NonFinal : effect'[t][f].state = "applied"} =
            {f \in NonFinal : effect[t][f].state = "applied"} \cup {e}
    OBVIOUS
  <1>2. PICK now : now = {f \in NonFinal : effect[t][f].state = "applied"} \cup {e}
    OBVIOUS
  <1>3. ProvenNow' = [ProvenNow EXCEPT ![t] = now]
    BY <1>1, <1>2 DEF ProvenNow
  <1>4. ProvenNow[t] \cup {e} = now
    BY <1>2 DEF ProvenNow
  <1> QED
    BY <1>3, <1>4

LEMMA MadeGrows ==
    ASSUME NEW t \in Transitions, NEW e \in NonFinal, slot'[t][e] # 0,
           \A f \in NonFinal \ {e} : slot'[t][f] = slot[t][f],
           \A u \in Transitions \ {t} : slot'[u] = slot[u]
    PROVE  MadeNow' = [MadeNow EXCEPT ![t] = MadeNow[t] \cup {e}]
  <1>1. {f \in NonFinal : slot'[t][f] # 0} = {f \in NonFinal : slot[t][f] # 0} \cup {e}
    OBVIOUS
  <1>2. PICK now : now = {f \in NonFinal : slot[t][f] # 0} \cup {e}
    OBVIOUS
  <1>3. MadeNow' = [MadeNow EXCEPT ![t] = now]
    BY <1>1, <1>2 DEF MadeNow
  <1>4. MadeNow[t] \cup {e} = now
    BY <1>2 DEF MadeNow
  <1> QED
    BY <1>3, <1>4

LEMMA MadeSame ==
    ASSUME UNCHANGED slot
    PROVE  MadeNow' = MadeNow
  BY DEF MadeNow

LEMMA PhaseOfNames ==
    /\ PhaseOf("absent") = "none"
    /\ PhaseOf("ready") = "open"
    /\ PhaseOf("applying") = "open"
    /\ PhaseOf("quarantined") = "held"
    /\ PhaseOf("completed") = "completed"
    /\ PhaseOf("rejected") = "rejected"
  BY DEF PhaseOf

\* Steps that the abstraction does not see.
LEMMA Unseen ==
    ASSUME PhaseNow' = PhaseNow, MadeNow' = MadeNow, ProvenNow' = ProvenNow,
           binding'.revision = binding.revision
    PROVE  UNCHANGED Abstract!vars
  BY DEF Abstract!vars, PhaseNow, MadeNow, ProvenNow

\* Nothing is open or held while the binding names no transition.
LEMMA AbstractFree ==
    ASSUME TypeInv, RowsInv, binding.active = None
    PROVE  Abstract!Free
  <1>1. ASSUME NEW t \in Transitions
        PROVE  PhaseOf(transition[t].state) \notin {"open", "held"}
    <2>1. transition[t].state \in TransitionStates \ LiveStates
      BY NoneLive DEF TypeInv, TypeOK, TransitionRow
    <2>2. transition[t].state \in {"absent", "completed", "rejected"}
      BY <2>1 DEF TransitionStates, LiveStates
    <2> QED
      BY <2>2, PhaseOfNames
  <1> QED
    BY <1>1 DEF Abstract!Free

\* An effect that is being applied divides the ledger and the reservations.
LEMMA CurrentPrefix ==
    ASSUME LedgerInv, NEW t \in Transitions, NEW e \in NonFinal,
           effect[t][e].state = "applying"
    PROVE  /\ {f \in NonFinal : effect[t][f].state = "applied"} = 1..(e - 1)
           /\ slot[t][e] = 0 => {f \in NonFinal : slot[t][f] # 0} = 1..(e - 1)
  <1>1. ASSUME NEW f \in NonFinal, f < e
        PROVE  effect[t][f].state = "applied" /\ slot[t][f] # 0
    BY <1>1, Ordinals DEF LedgerInv, OrderedLedger, EffectProven
  <1>2. ASSUME NEW f \in NonFinal, e < f
        PROVE  effect[t][f].state \notin Done /\ slot[t][f] = 0
    BY <1>2, Ordinals DEF LedgerInv, OrderedLedger, EffectProven, Done
  <1>3. /\ LastEffect \in Nat
        /\ \A f : f \in NonFinal <=> f \in Int /\ 1 <= f /\ f <= LastEffect
        /\ \A f : f \in 1..(e - 1) <=> f \in Int /\ 1 <= f /\ f <= e - 1
    BY Ordinals DEF NonFinal
  <1>4. \A f : f \in 1..(e - 1) <=> f \in NonFinal /\ f < e
    BY <1>3
  <1>5. \A f \in NonFinal : f < e \/ f = e \/ e < f
    BY <1>3
  <1> QED
    BY <1>1, <1>2, <1>4, <1>5 DEF Done

\* The abstract action of each kind of write.
LEMMA ImplementsHold ==
    ASSUME OutboxInv, NEW r \in Runners, runner[r].pc # "idle", Withdraws(r), UNCHANGED slot
    PROVE  \E t \in Transitions : Abstract!Hold(t)
  <1>1. PICK t \in Transitions : t = runner[r].t
    BY Holder DEF OutboxInv, Withdraws
  <1>2. /\ transition[t].state = "applying"
        /\ transition'[t].state = "quarantined"
        /\ \A u \in Transitions \ {t} : transition'[u].state = transition[u].state
    BY <1>1, HolderWrites DEF OutboxInv, LedgerInv, Withdraws, EndClaim
  <1>3. PhaseNow' = [PhaseNow EXCEPT ![t] = "held"]
    BY <1>2, PhaseOfNames, PhaseMoves
  <1>4. PhaseNow[t] = "open"
    BY <1>2, PhaseOfNames DEF PhaseNow
  <1>5. ProvenNow' = ProvenNow /\ MadeNow' = MadeNow /\ binding' = binding
    BY MadeSame, ProvenSame DEF Withdraws
  <1> QED
    BY <1>3, <1>4, <1>5 DEF Abstract!Hold, PhaseNow, MadeNow, ProvenNow

LEMMA AbstractProve ==
    ASSUME NEW t \in Transitions, NEW e
    PROVE  Abstract!Prove(t, e) <=>
               /\ PhaseNow[t] = "open"
               /\ e \in MadeNow[t]
               /\ ProvenNow[t] = 1..(e - 1)
               /\ ProvenNow' = [ProvenNow EXCEPT ![t] = ProvenNow[t] \cup {e}]
               /\ PhaseNow' = PhaseNow /\ MadeNow' = MadeNow
               /\ binding'.revision = binding.revision
  BY Zenon DEF Abstract!Prove, PhaseNow, MadeNow, ProvenNow

LEMMA AbstractMake ==
    ASSUME NEW t \in Transitions, NEW e
    PROVE  Abstract!Make(t, e) <=>
               /\ PhaseNow[t] \in {"open", "held"}
               /\ e \notin MadeNow[t]
               /\ MadeNow[t] = 1..(e - 1)
               /\ ProvenNow[t] = 1..(e - 1)
               /\ MadeNow' = [MadeNow EXCEPT ![t] = MadeNow[t] \cup {e}]
               /\ PhaseNow' = PhaseNow /\ ProvenNow' = ProvenNow
               /\ binding'.revision = binding.revision
  BY Zenon DEF Abstract!Make, PhaseNow, MadeNow, ProvenNow

LEMMA ImplementsProve ==
    ASSUME OutboxInv, NEW r \in Runners, runner[r].pc # "idle", Proves(r), UNCHANGED slot
    PROVE  \E t \in Transitions, e \in NonFinal : Abstract!Prove(t, e)
  <1>1. PICK t \in Transitions : t = runner[r].t /\ transition[t].state = "applying"
    BY Holder DEF OutboxInv, Proves
  <1>2. PICK e \in NonFinal : e = runner[r].eff
    BY DEF OutboxInv, LedgerInv, TypeInv, RunnerBound, Proves
  <1>3. /\ effect[t][e].state = "applying"
        /\ SetEffect(t, e, "applied", runner[r].gen)
        /\ UNCHANGED <<transition, binding>>
    BY <1>1, <1>2 DEF Proves, CanFinish
  <1>4. slot[t][e] # 0
    BY <1>1, <1>2 DEF OutboxInv, LedgerInv, RunnersInformed, RunnerInformed, Proves
  <1>5. PhaseNow' = PhaseNow /\ MadeNow' = MadeNow
    BY <1>3, MadeSame, PhaseSame
  <1>6. PhaseNow[t] = "open" /\ e \in MadeNow[t]
    BY <1>1, <1>4, PhaseOfNames DEF PhaseNow, MadeNow
  <1>7. ProvenNow[t] = 1..(e - 1)
    BY <1>3, CurrentPrefix DEF OutboxInv, ProvenNow
  <1>8. ProvenNow' = [ProvenNow EXCEPT ![t] = ProvenNow[t] \cup {e}]
    <2>1. /\ effect'[t] = [effect[t] EXCEPT ![e] = [state |-> "applied", gen |-> runner[r].gen]]
          /\ effect[t] \in [Effects -> EffectRow]
          /\ \A u \in Transitions \ {t} : effect'[u] = effect[u]
      BY <1>3 DEF OutboxInv, LedgerInv, TypeInv, TypeOK, SetEffect
    <2>2. /\ effect'[t][e].state = "applied"
          /\ \A f \in NonFinal \ {e} : effect'[t][f] = effect[t][f]
      BY <2>1, Ordinals
    <2> QED
      BY <2>1, <2>2, ProvenGrows
  <1>9. Abstract!Prove(t, e)
    BY <1>3, <1>5, <1>6, <1>7, <1>8, AbstractProve
  <1> QED
    BY <1>9

LEMMA ImplementsMake ==
    ASSUME OutboxInv, NEW r \in Runners, Insert(r)
    PROVE  \/ UNCHANGED Abstract!vars
           \/ \E t \in Transitions, e \in NonFinal : Abstract!Make(t, e)
  <1>1. /\ runner[r].pc \in BegunPhases /\ runner[r].pc # "idle"
        /\ runner[r].pc = "insert"
        /\ UNCHANGED <<transition, effect, binding>>
    BY DEF Insert, Rows, BegunPhases
  <1>2. TypeInv /\ LedgerInv /\ RowsInv
    BY DEF OutboxInv, LedgerInv
  <1>3. PICK t \in Transitions : t = runner[r].t
    BY <1>1, <1>2, AtWork
  <1>4. PICK e \in NonFinal : e = runner[r].eff
    BY <1>1, <1>2 DEF TypeInv, RunnerBound
  <1>5. PhaseNow' = PhaseNow /\ ProvenNow' = ProvenNow /\ binding' = binding
    BY <1>1, PhaseSame, ProvenSame
  <1>6. CASE UNCHANGED slot
    BY <1>5, <1>6, MadeSame, Unseen
  <1>7. CASE ~UNCHANGED slot
    <2>1. /\ slot[t][e] = 0
          /\ slot' = [slot EXCEPT ![t] = [slot[t] EXCEPT ![e] = runner[r].gen]]
      BY <1>3, <1>4, <1>7 DEF Insert
    <2>2. /\ effect[t][e].state \in Done
          /\ runner[r].gen >= 1 /\ runner[r].gen <= effect[t][e].gen
      BY <1>1, <1>2, <1>3, <1>4 DEF LedgerInv, RunnersInformed, RunnerInformed
    <2>3. effect[t][e].state = "applying"
      BY <1>2, <2>1, <2>2 DEF LedgerInv, EffectProven, Done
    <2>4. slot[t] \in [NonFinal -> Nat] /\ runner[r].gen \in Nat /\ runner[r].gen # 0
      BY <1>1, <1>2, <2>2, AtWork DEF TypeInv, TypeOK
    <2>5. /\ slot'[t][e] # 0
          /\ \A f \in NonFinal \ {e} : slot'[t][f] = slot[t][f]
          /\ \A u \in Transitions \ {t} : slot'[u] = slot[u]
      BY <1>2, <2>1, <2>4 DEF TypeInv, TypeOK
    <2>6. MadeNow' = [MadeNow EXCEPT ![t] = MadeNow[t] \cup {e}]
      BY <2>5, MadeGrows
    <2>7. MadeNow[t] = 1..(e - 1) /\ ProvenNow[t] = 1..(e - 1) /\ e \notin MadeNow[t]
      BY <1>2, <2>1, <2>3, CurrentPrefix DEF MadeNow, ProvenNow
    <2>8. PhaseNow[t] \in {"open", "held"}
      <3>1. e \in Effects /\ effect[t][e].gen \in Nat /\ transition[t].gen \in Nat
        BY <1>2, Typed, Ordinals
      <3>2. effect[t][e].gen <= transition[t].gen
        BY <1>2, <3>1 DEF LedgerInv, LedgerBounded
      <3>3. transition[t].gen # 0
        BY <2>2, <2>4, <3>1, <3>2
      <3>4. /\ transition[t].state # "absent"
            /\ transition[t].state # "completed"
            /\ transition[t].state # "rejected"
        BY <1>2, <2>3, <3>1, <3>3 DEF RowsInv, HeaderOK, EffectsOK
      <3>5. transition[t].state \in TransitionStates
        BY <1>2 DEF TypeInv, TypeOK, TransitionRow
      <3> QED
        BY <3>4, <3>5, PhaseOfNames DEF PhaseNow, TransitionStates
    <2>9. Abstract!Make(t, e)
      BY <1>5, <2>6, <2>7, <2>8, AbstractMake
    <2> QED
      BY <2>9
  <1> QED
    BY <1>6, <1>7

LEMMA ImplementsComplete ==
    ASSUME OutboxInv, TypeInv', NEW r \in Runners, runner[r].pc # "idle", Completes(r),
           UNCHANGED slot
    PROVE  \E t \in Transitions : Abstract!Complete(t)
  <1>1. TypeInv /\ LedgerInv /\ RowsInv /\ LeaseHeld(r)
    BY DEF OutboxInv, LedgerInv, Completes
  <1>2. PICK t \in Transitions : t = runner[r].t /\ transition[t].state = "applying"
    BY <1>1, Holder
  <1>3. /\ CanFinalize(t, runner[r].rev)
        /\ BindingExecutable(t)
        /\ SetEffect(t, Final, "applied", runner[r].gen)
        /\ binding'.revision = runner[r].rev
        /\ EndClaim(r, "completed", transition[t].wait, transition[t].error)
    BY <1>2 DEF Completes
  <1>4. /\ transition'[t].state = "completed"
        /\ \A u \in Transitions \ {t} : transition'[u].state = transition[u].state
    BY <1>1, <1>2, <1>3, HolderWrites DEF EndClaim
  <1>5. PhaseNow' = [PhaseNow EXCEPT ![t] = "completed"]
    BY <1>4, PhaseOfNames, PhaseMoves
  <1>6. PhaseNow[t] = "open"
    BY <1>2, PhaseOfNames DEF PhaseNow
  <1>7. ProvenNow' = ProvenNow
    <2>1. \A u \in Transitions, e \in NonFinal : effect'[u][e] = effect[u][e]
      BY <1>1, <1>3, Ordinals DEF SetEffect, TypeInv, TypeOK
    <2> QED
      BY <2>1, ProvenSame
  <1>8. ProvenNow[t] = NonFinal
    BY <1>3 DEF ProvenNow, CanFinalize
  <1>9. binding'.revision \in Nat /\ binding'.revision > binding.revision
    <2>1. runner[r].rev \in Nat
      BY <1>1, AtWork
    <2> QED
      BY <1>3, <2>1 DEF CanFinalize, BindingExecutable
  <1>10. MadeNow' = MadeNow
    BY MadeSame
  <1>11. Abstract!Complete(t)
    BY <1>5, <1>6, <1>7, <1>8, <1>9, <1>10
       DEF Abstract!Complete, Abstract!Steps, NonFinal, PhaseNow, MadeNow, ProvenNow
  <1> QED
    BY <1>11

LEMMA ImplementsReject ==
    ASSUME OutboxInv, NEW r \in Runners, Reject(r), UNCHANGED slot
    PROVE  \E t \in Transitions : Abstract!Reject(t)
  <1>1. TypeInv /\ LedgerInv /\ RowsInv /\ LeaseHeld(r) /\ runner[r].pc # "idle"
    BY DEF OutboxInv, LedgerInv, Reject
  <1>2. PICK t \in Transitions : t = runner[r].t /\ transition[t].state = "applying"
    BY <1>1, Holder
  <1>3. /\ NoEffectBegun(t)
        /\ effect' = [effect EXCEPT ![t] =
                         [e \in Effects |-> [state |-> "rejected", gen |-> 0]]]
        /\ binding' = [binding EXCEPT !.active = None, !.receipt = None]
        /\ EndClaim(r, "rejected", transition[t].wait, "rejected")
    BY <1>2 DEF Reject
  <1>4. /\ transition'[t].state = "rejected"
        /\ \A u \in Transitions \ {t} : transition'[u].state = transition[u].state
    BY <1>1, <1>2, <1>3, HolderWrites DEF EndClaim
  <1>5. PhaseNow' = [PhaseNow EXCEPT ![t] = "rejected"]
    BY <1>4, PhaseOfNames, PhaseMoves
  <1>6. PhaseNow[t] = "open"
    BY <1>2, PhaseOfNames DEF PhaseNow
  <1>7. ProvenNow' = ProvenNow
    <2>1. /\ \A e \in NonFinal : effect'[t][e].state = "rejected"
          /\ \A u \in Transitions \ {t} : effect'[u] = effect[u]
      BY <1>1, <1>3, Ordinals DEF TypeInv, TypeOK
    <2>2. \A e \in NonFinal : effect[t][e].state = "planned"
      BY <1>3, Ordinals DEF NoEffectBegun
    <2> QED
      BY <2>1, <2>2, ProvenSame
  <1>8. MadeNow[t] = {}
    <2>1. \A e \in NonFinal : slot[t][e] = 0
      BY <1>1, <1>3, Ordinals DEF NoEffectBegun, LedgerInv, EffectProven
    <2> QED
      BY <2>1 DEF MadeNow
  <1>9. binding'.revision = binding.revision
    BY <1>1, <1>3 DEF TypeInv, TypeOK, BindingRow
  <1>10. MadeNow' = MadeNow
    BY MadeSame
  <1>11. Abstract!Reject(t)
    BY <1>5, <1>6, <1>7, <1>8, <1>9, <1>10
       DEF Abstract!Reject, PhaseNow, MadeNow, ProvenNow
  <1> QED
    BY <1>11

LEMMA ImplementsOpen ==
    ASSUME OutboxInv, NEW t \in Transitions, Stage(t)
    PROVE  Abstract!Open(t)
  <1>1. TypeInv /\ RowsInv /\ binding.active = None
    BY DEF OutboxInv, LedgerInv, Stage, BindingStageable
  <1>2. /\ transition[t].state = "absent"
        /\ transition' = [transition EXCEPT ![t] =
               [transition[t] EXCEPT !.state = "ready", !.expected = binding.revision]]
        /\ binding' = [binding EXCEPT !.active = t]
        /\ UNCHANGED <<effect, slot>>
    BY DEF Stage
  <1>3. /\ transition'[t].state = "ready"
        /\ \A u \in Transitions \ {t} : transition'[u].state = transition[u].state
        /\ binding'.revision = binding.revision
    BY <1>1, <1>2 DEF TypeInv, TypeOK, TransitionRow, BindingRow
  <1>4. PhaseNow' = [PhaseNow EXCEPT ![t] = "open"]
    BY <1>3, PhaseOfNames, PhaseMoves
  <1>5. PhaseNow[t] = "none"
    BY <1>2, PhaseOfNames DEF PhaseNow
  <1>6. ProvenNow' = ProvenNow /\ MadeNow' = MadeNow
    BY <1>2, ProvenSame, MadeSame
  <1>7. Abstract!Free
    BY <1>1, AbstractFree
  <1> QED
    BY <1>3, <1>4, <1>5, <1>6, <1>7 DEF Abstract!Open, PhaseNow, MadeNow, ProvenNow

LEMMA ImplementsObserve ==
    ASSUME OutboxInv, RecordStatus
    PROVE  Abstract!Observe
  <1>1. TypeInv /\ RowsInv /\ binding.active = None
    BY DEF OutboxInv, LedgerInv, RecordStatus
  <1>2. /\ status > binding.revision
        /\ binding' = [binding EXCEPT !.revision = status]
        /\ UNCHANGED <<transition, effect, slot>>
    BY DEF RecordStatus
  <1>3. binding'.revision = status /\ status \in Nat
    BY <1>1, <1>2 DEF TypeInv, TypeOK, BindingRow
  <1>4. PhaseNow' = PhaseNow /\ ProvenNow' = ProvenNow /\ MadeNow' = MadeNow
    BY <1>2, PhaseSame, ProvenSame, MadeSame
  <1>5. Abstract!Free
    BY <1>1, AbstractFree
  <1> QED
    BY <1>2, <1>3, <1>4, <1>5 DEF Abstract!Observe, PhaseNow, MadeNow, ProvenNow

\* Claims, heartbeats, releases, intents and time are not seen.
LEMMA ImplementsStutter ==
    ASSUME OutboxInv, UNCHANGED slot,
           \/ UNCHANGED Rows
           \/ \E c \in Commands : StageReceipt(c)
           \/ Tick
           \/ \E r \in Runners : \E t \in Transitions : Claim(r, t)
           \/ \E r \in Runners :
                 runner[r].pc # "idle" /\ (Beats(r) \/ Releases(r) \/ Begins(r))
    PROVE  UNCHANGED Abstract!vars
  <1>1. TypeInv /\ LedgerInv /\ RowsInv
    BY DEF OutboxInv, LedgerInv
  <1>2. MadeNow' = MadeNow
    BY MadeSame
  <1>3. CASE UNCHANGED <<transition, effect, binding>>
    BY <1>2, <1>3, PhaseSame, ProvenSame, Unseen
  <1>4. CASE \E c \in Commands : StageReceipt(c)
    <2>1. PICK c \in Commands : /\ binding' = [binding EXCEPT !.receipt = c]
                                /\ UNCHANGED <<transition, effect>>
      BY <1>4 DEF StageReceipt
    <2>2. binding'.revision = binding.revision
      BY <1>1, <2>1 DEF TypeInv, TypeOK, BindingRow
    <2> QED
      BY <1>2, <2>1, <2>2, PhaseSame, ProvenSame, Unseen
  <1>5. CASE Tick
    <2>1. UNCHANGED <<effect, binding>>
      BY <1>5 DEF Tick
    <2>2. ASSUME NEW t \in Transitions
          PROVE  transition'[t].state = transition[t].state
      <3>1. transition'[t] = [transition[t] EXCEPT
                                  !.lease = CountDown(transition[t].lease),
                                  !.wait = CountDown(transition[t].wait)]
        BY <1>5 DEF Tick
      <3>2. transition[t] \in TransitionRow
        BY <1>1 DEF TypeInv, TypeOK
      <3> QED
        BY <3>1, <3>2 DEF TransitionRow
    <2> QED
      BY <1>2, <2>1, <2>2, PhaseSame, ProvenSame, Unseen
  <1>6. CASE \E r \in Runners : \E t \in Transitions : Claim(r, t)
    <2>1. PICK r \in Runners, t \in Transitions : Claim(r, t)
      BY <1>6
    <2>2. /\ transition[t].state \in {"ready", "applying"}
          /\ UNCHANGED <<effect, binding>>
      BY <2>1 DEF Claim, Claimable
    <2>3. /\ transition'[t].state = "applying"
          /\ \A u \in Transitions \ {t} : transition'[u] = transition[u]
      BY <1>1, <2>1, ClaimMoves
    <2>4. \A u \in Transitions :
              PhaseOf(transition'[u].state) = PhaseOf(transition[u].state)
      BY <2>2, <2>3, PhaseOfNames
    <2> QED
      BY <1>2, <2>2, <2>4, PhaseSame, ProvenSame, Unseen
  <1>7. ASSUME NEW r \in Runners, runner[r].pc # "idle", Beats(r) \/ Releases(r)
        PROVE  UNCHANGED Abstract!vars
    <2>1. UNCHANGED <<effect, binding>> /\ LeaseHeld(r)
      BY <1>7 DEF Beats, Releases
    <2>2. PICK st \in {"ready", "applying"} : \E owner, lease, wait, error :
              SetTransition(runner[r].t, st, owner, runner[r].gen, lease, wait, error)
      BY <1>7, Zenon DEF Beats, Releases, Renew, EndClaim
    <2>3. /\ runner[r].t \in Transitions
          /\ transition[runner[r].t].state = "applying"
          /\ transition'[runner[r].t].state = st
          /\ \A u \in Transitions \ {runner[r].t} :
                 transition'[u].state = transition[u].state
      BY <1>1, <1>7, <2>1, <2>2, HolderWrites, Holder
    <2>4. \A u \in Transitions :
              PhaseOf(transition'[u].state) = PhaseOf(transition[u].state)
      BY <2>3, PhaseOfNames
    <2> QED
      BY <1>2, <2>1, <2>4, PhaseSame, ProvenSame, Unseen
  <1>8. ASSUME NEW r \in Runners, runner[r].pc # "idle", Begins(r)
        PROVE  UNCHANGED Abstract!vars
    <2>1. PICK t \in Transitions : t = runner[r].t
      BY <1>1, <1>8, AtWork
    <2>2. PICK e \in NonFinal : e = runner[r].eff
      BY <1>1, <1>8 DEF TypeInv, RunnerBound, Begins
    <2>3. /\ SetEffect(t, e, "applying", runner[r].gen)
          /\ effect[t][e].state # "applied"
          /\ UNCHANGED <<transition, binding>>
      BY <1>8, <2>1, <2>2 DEF Begins, CanBegin
    <2>4. /\ effect'[t] = [effect[t] EXCEPT ![e] = [state |-> "applying",
                                                    gen |-> runner[r].gen]]
          /\ effect[t] \in [Effects -> EffectRow]
          /\ \A u \in Transitions \ {t} : effect'[u] = effect[u]
      BY <1>1, <2>3 DEF TypeInv, TypeOK, SetEffect
    <2>5. /\ effect'[t][e].state = "applying"
          /\ \A f \in NonFinal \ {e} : effect'[t][f] = effect[t][f]
      BY <2>4, Ordinals
    <2> QED
      BY <1>2, <2>3, <2>4, <2>5, PhaseSame, ProvenSame, Unseen
  <1> QED
    BY <1>3, <1>4, <1>5, <1>6, <1>7, <1>8 DEF Rows

LEMMA ImplementsInit == Init => Abstract!Init
  <1> SUFFICES ASSUME Init PROVE Abstract!Init
    OBVIOUS
  <1>1. \A t \in Transitions : transition[t].state = "absent"
    BY DEF Init
  <1>2. \A t \in Transitions, e \in NonFinal : effect[t][e].state = "planned"
    BY Ordinals DEF Init
  <1>3. \A t \in Transitions, e \in NonFinal : slot[t][e] = 0
    BY DEF Init
  <1>4. PhaseNow = [t \in Transitions |-> "none"]
    BY <1>1, PhaseOfNames DEF PhaseNow
  <1>5. MadeNow = [t \in Transitions |-> {}]
    BY <1>3 DEF MadeNow
  <1>6. ProvenNow = [t \in Transitions |-> {}]
    BY <1>2 DEF ProvenNow
  <1>7. binding.revision = 0
    BY DEF Init
  <1> QED
    BY <1>4, <1>5, <1>6, <1>7 DEF Abstract!Init, PhaseNow, MadeNow, ProvenNow

LEMMA ImplementsNext ==
    ASSUME OutboxInv, [Next]_vars
    PROVE  [Abstract!Next]_(Abstract!vars)
  <1>1. TypeInv /\ TypeInv'
    BY TypeNext DEF OutboxInv, LedgerInv
  <1>2. NonFinal = Abstract!Steps
    BY DEF NonFinal, Abstract!Steps
  <1>3. ASSUME NEW r \in Runners, Step(r)
        PROVE  Abstract!Next \/ UNCHANGED Abstract!vars
    <2>1. /\ runner[r].pc # "idle"
          /\ \/ UNCHANGED Rows
             \/ Beats(r) \/ Releases(r) \/ Withdraws(r) \/ Begins(r) \/ Proves(r)
             \/ Completes(r) \/ Reject(r)
          /\ UNCHANGED slot \/ Insert(r)
      BY <1>1, <1>3, StepKinds
    <2>2. CASE Insert(r)
      BY <1>2, <2>2, ImplementsMake DEF Abstract!Next
    <2>3. CASE UNCHANGED slot
      <3>1. CASE UNCHANGED Rows \/ Beats(r) \/ Releases(r) \/ Begins(r)
        BY <2>1, <2>3, <3>1, ImplementsStutter
      <3>2. CASE Withdraws(r)
        BY <2>1, <2>3, <3>2, ImplementsHold DEF Abstract!Next
      <3>3. CASE Proves(r)
        BY <1>2, <2>1, <2>3, <3>3, ImplementsProve DEF Abstract!Next
      <3>4. CASE Completes(r)
        BY <1>1, <2>1, <2>3, <3>4, ImplementsComplete DEF Abstract!Next
      <3>5. CASE Reject(r)
        BY <2>3, <3>5, ImplementsReject DEF Abstract!Next
      <3> QED
        BY <2>1, <3>1, <3>2, <3>3, <3>4, <3>5
    <2> QED
      BY <2>1, <2>2, <2>3
  <1>4. CASE \E t \in Transitions : Stage(t)
    BY <1>4, ImplementsOpen DEF Abstract!Next
  <1>5. CASE RecordStatus
    BY <1>5, ImplementsObserve DEF Abstract!Next
  <1>6. CASE \/ \E c \in Commands : StageReceipt(c)
             \/ Tick
             \/ \E r \in Runners : \E t \in Transitions : Claim(r, t)
    <2>1. UNCHANGED slot
      BY <1>6 DEF StageReceipt, Tick, Claim
    <2> QED
      BY <1>6, <2>1, ImplementsStutter
  <1>7. CASE RuntimeAdvances \/ (\E r \in Runners : Crash(r)) \/ UNCHANGED vars
    <2>1. UNCHANGED slot /\ UNCHANGED Rows
      BY <1>7 DEF RuntimeAdvances, Crash, vars, Rows
    <2> QED
      BY <2>1, ImplementsStutter
  <1> QED
    BY <1>3, <1>4, <1>5, <1>6, <1>7 DEF Next

\* For any number of runners, transitions and effects the outbox, its runners
\* and the reservations implement DurableTransition (DurableEffects): effects
\* happen once and in order, each only after the one before it is proven, one
\* transition holds the workflow at a time, and none is rejected after an effect.
THEOREM OutboxImplements == Spec => DurableEffects
  <1>1. OutboxInv /\ [Next]_vars => [Abstract!Next]_(Abstract!vars)
    BY ImplementsNext
  <1> QED
    BY <1>1, ImplementsInit, OutboxInvariant, PTL DEF Spec, DurableEffects, Abstract!Spec

----------------------------------------------------------------------------
(* The race for a reservation.                                             *)

\* A runner about to insert a reservation that does not exist works on the begun
\* effect of a live transition, with or without its lease.
LEMMA AboutToInsert ==
    ASSUME OutboxInv, NEW r \in Runners, runner[r].pc = "insert",
           slot[runner[r].t][runner[r].eff] = 0
    PROVE  /\ runner[r].t \in Transitions
           /\ runner[r].eff \in NonFinal
           /\ effect[runner[r].t][runner[r].eff].state = "applying"
           /\ transition[runner[r].t].state \in LiveStates
  <1>1. TypeInv /\ LedgerInv /\ RowsInv
    BY DEF OutboxInv, LedgerInv
  <1>2. PICK t \in Transitions : t = runner[r].t
    BY <1>1, AtWork
  <1>3. PICK e \in NonFinal : e = runner[r].eff
    BY <1>1 DEF TypeInv, RunnerBound
  <1>4. /\ effect[t][e].state \in Done
        /\ runner[r].gen \in Nat /\ runner[r].gen >= 1
        /\ runner[r].gen <= transition[t].gen
    BY <1>1, <1>2, <1>3, AtWork DEF LedgerInv, RunnersInformed, RunnerInformed, BegunPhases
  <1>5. effect[t][e].state = "applying"
    BY <1>1, <1>2, <1>3, <1>4 DEF LedgerInv, EffectProven, Done
  <1>6. transition[t].gen # 0 /\ e \in Effects
    BY <1>1, <1>4, Typed, Ordinals
  <1>7. /\ transition[t].state # "absent"
        /\ transition[t].state # "completed"
        /\ transition[t].state # "rejected"
    BY <1>1, <1>5, <1>6 DEF RowsInv, HeaderOK, EffectsOK
  <1>8. transition[t].state \in TransitionStates
    BY <1>1 DEF TypeInv, TypeOK, TransitionRow
  <1> QED
    BY <1>2, <1>3, <1>5, <1>7, <1>8 DEF TransitionStates, LiveStates

\* Runners racing for reservations race for the same one, however many there are
\* and whoever holds the lease (ReservationRaceConfined:
\* reserve_transition_queue_slot reads a maximum before it inserts).
THEOREM ReservationRace == Spec => []ReservationRaceConfined
  <1>1. OutboxInv => ReservationRaceConfined
    <2> SUFFICES ASSUME OutboxInv, NEW r \in Runners, NEW q \in Runners,
                        runner[r].pc = "insert", slot[runner[r].t][runner[r].eff] = 0,
                        runner[q].pc = "insert", slot[runner[q].t][runner[q].eff] = 0
                 PROVE  runner[r].t = runner[q].t /\ runner[r].eff = runner[q].eff
      BY DEF ReservationRaceConfined
    <2>1. PICK t \in Transitions, e \in NonFinal :
              /\ t = runner[r].t /\ e = runner[r].eff
              /\ effect[t][e].state = "applying" /\ transition[t].state \in LiveStates
      BY AboutToInsert
    <2>2. PICK u \in Transitions, f \in NonFinal :
              /\ u = runner[q].t /\ f = runner[q].eff
              /\ effect[u][f].state = "applying" /\ transition[u].state \in LiveStates
      BY AboutToInsert
    <2>3. t = u
      BY <2>1, <2>2, OneLive DEF OutboxInv
    <2>4. e \in Effects /\ f \in Effects /\ (e < f \/ e = f \/ f < e)
      BY Ordinals DEF Effects
    <2>5. e = f
      BY <2>1, <2>2, <2>3, <2>4 DEF OutboxInv, LedgerInv, OrderedLedger
    <2> QED
      BY <2>1, <2>2, <2>3, <2>5
  <1> QED
    BY <1>1, OutboxInvariant, PTL

----------------------------------------------------------------------------
(* The runners' snapshots.                                                 *)

StagePhases == {"observe", "observed", "begin", "begun", "execute", "insert",
                "finish", "finalize_observe", "finalize_observed", "finalize"}

\* IsCurrentStage and StageAttempt, of a ledger and a generation.
StageIs(led, e) ==
    /\ e # Final => led[e].state # "applied"
    /\ \A f \in 1..(e - 1) : led[f].state = "applied"

Before(led, e) == IF e = 1 THEN 0 ELSE led[e - 1].gen

\* What a runner has taken from its snapshot, the stage and the number of the
\* attempt, is current for as long as nobody has claimed the transition after it.
SnapOf(run, led, gen) ==
    run.pc # "idle" /\ run.gen = gen =>
        /\ run.pc \in StagePhases =>
              /\ run.eff \in Effects
              /\ StageIs(led, run.eff)
              /\ run.attempt = gen - Before(led, run.eff)
        /\ run.pc = "retry" =>
              \A e \in Effects : StageIs(led, e) => run.attempt = gen - Before(led, e)

\* A runner on its way to the insert was authorised in one of the first claims
\* of its stage, and the stage before it is applied for good.
AuthOf(run, led) ==
    \/ run.pc \in {"begun", "execute", "insert"}
    \/ run.pc = "begin" /\ run.seen # "already_applied"
    => /\ run.eff # 1 => led[run.eff - 1].state = "applied"
       /\ run.gen - Before(led, run.eff) <= MaxAttempts

SnapInv ==
    \A r \in Runners :
        /\ SnapOf(runner[r], effect[runner[r].t], transition[runner[r].t].gen)
        /\ AuthOf(runner[r], effect[runner[r].t])

\* At most one stage is the current one.
LEMMA OneStage ==
    ASSUME NEW led, NEW e \in Effects, NEW f \in Effects, StageIs(led, e), StageIs(led, f)
    PROVE  e = f
  <1>1. \A g \in Effects : g \in Int /\ 1 <= g /\ g <= Final
    BY Ordinals DEF Effects
  <1>2. ASSUME NEW g \in Effects, NEW h \in Effects, StageIs(led, g), StageIs(led, h), g < h
        PROVE  FALSE
    <2>1. g \in 1..(h - 1) /\ g # Final
      BY <1>1, <1>2, Ordinals
    <2> QED
      BY <1>2, <2>1 DEF StageIs
  <1>3. e < f \/ e = f \/ f < e
    BY <1>1
  <1> QED
    BY <1>2, <1>3

\* An effect that is applied is never written again.
LEMMA AppliedStays ==
    ASSUME OutboxInv, [Next]_vars, NEW t \in Transitions, NEW e \in NonFinal,
           effect[t][e].state = "applied"
    PROVE  effect'[t][e] = effect[t][e]
  <1>1. TypeInv /\ LedgerInv /\ RowsInv
    BY DEF OutboxInv, LedgerInv
  <1>2. CASE UNCHANGED effect
    BY <1>2
  <1>3. ASSUME NEW r \in Runners, Step(r), ~UNCHANGED effect
        PROVE  effect'[t][e] = effect[t][e]
    <2>1. runner[r].pc # "idle" /\ (Begins(r) \/ Proves(r) \/ Completes(r) \/ Reject(r))
      BY <1>1, <1>3, StepKinds DEF Rows, Beats, Releases, Withdraws
    <2>2. PICK u \in Transitions : u = runner[r].t
      BY <1>1, <2>1, AtWork
    <2>3. CASE Begins(r) \/ Proves(r)
      <3>1. PICK f \in NonFinal : f = runner[r].eff
        BY <1>1, <2>3 DEF Begins, Proves, TypeInv, RunnerBound
      <3>2. effect[u][f].state # "applied" /\ \E st : SetEffect(u, f, st, runner[r].gen)
        <4>1. CASE Begins(r)
          <5>1. CanBegin(u, f, runner[r].gen) /\ SetEffect(u, f, "applying", runner[r].gen)
            BY <2>2, <3>1, <4>1 DEF Begins
          <5> QED
            BY <5>1 DEF CanBegin
        <4>2. CASE Proves(r)
          <5>1. /\ CanFinish(u, f, runner[r].gen, runner[r].attempt)
                /\ SetEffect(u, f, "applied", runner[r].gen)
            BY <2>2, <3>1, <4>2 DEF Proves
          <5> QED
            BY <5>1 DEF CanFinish
        <4> QED
          BY <2>3, <4>1, <4>2
      <3>3. u # t \/ f # e
        BY <3>2
      <3>4. effect[t] \in [Effects -> EffectRow] /\ e \in Effects /\ f \in Effects
        BY <1>1, Ordinals DEF TypeInv, TypeOK
      <3> QED
        BY <1>1, <3>2, <3>3, <3>4 DEF SetEffect, TypeInv, TypeOK
    <2>4. CASE Completes(r)
      <3>1. SetEffect(u, Final, "applied", runner[r].gen) /\ Final # e
        BY <2>2, <2>4, Ordinals DEF Completes
      <3>2. effect[t] \in [Effects -> EffectRow] /\ e \in Effects /\ Final \in Effects
        BY <1>1, Ordinals DEF TypeInv, TypeOK
      <3> QED
        BY <1>1, <3>1, <3>2 DEF SetEffect, TypeInv, TypeOK
    <2>5. CASE Reject(r)
      <3>1. u # t /\ \E row : effect' = [effect EXCEPT ![u] = row]
        BY <2>2, <2>5, Ordinals DEF Reject, NoEffectBegun
      <3> QED
        BY <1>1, <3>1 DEF TypeInv, TypeOK
    <2> QED
      BY <2>1, <2>3, <2>4, <2>5
  <1>4. CASE ~\E r \in Runners : Step(r)
    BY <1>2, <1>4 DEF Next, RuntimeAdvances, RecordStatus, StageReceipt, Stage, Claim, Crash,
       Tick, vars, Rows
  <1> QED
    BY <1>2, <1>3, <1>4

\* Another runner does not write the ledger of a transition under a claim that
\* is still current.
LEMMA LedgerFenced ==
    ASSUME OutboxInv, NEW r \in Runners, Step(r), NEW q \in Runners, q # r,
           runner[q].pc # "idle", transition[runner[q].t].gen = runner[q].gen
    PROVE  effect'[runner[q].t] = effect[runner[q].t]
  <1>1. TypeInv /\ LedgerInv /\ RowsInv
    BY DEF OutboxInv, LedgerInv
  <1>2. CASE UNCHANGED effect
    BY <1>2
  <1>3. CASE ~UNCHANGED effect
    <2>1. runner[r].pc # "idle" /\ (Begins(r) \/ Proves(r) \/ Completes(r) \/ Reject(r))
      BY <1>1, <1>3, StepKinds DEF Rows, Beats, Releases, Withdraws
    <2>2. LeaseHeld(r) /\ \E row : effect' = [effect EXCEPT ![runner[r].t] = row]
      BY <2>1 DEF Begins, Proves, Completes, Reject, SetEffect
    <2>3. runner[r].t \in Transitions /\ transition[runner[r].t].gen = runner[r].gen
      BY <1>1, <2>1, <2>2, Holder
    <2>4. runner[q].t \in Transitions /\ runner[r].t # runner[q].t
      BY <1>1, <2>1, <2>3, AtWork DEF LedgerInv, FencingTokenUnique
    <2> QED
      BY <1>1, <2>2, <2>3, <2>4 DEF TypeInv, TypeOK
  <1> QED
    BY <1>2, <1>3

\* StageIs and Before are the operators of the store.
LEMMA StageOperators ==
    ASSUME NEW t \in Transitions, NEW e
    PROVE  /\ StageIs(effect[t], e) <=> IsCurrentStage(t, e)
           /\ StageAttempt(t, e) = transition[t].gen - Before(effect[t], e)
           /\ PreviousGeneration(t, e) = Before(effect[t], e)
  BY DEF StageIs, IsCurrentStage, StageAttempt, PreviousGeneration, Before

\* What the runner remembers after each kind of move.
LEMMA GotoMoves ==
    ASSUME TypeInv, NEW r \in Runners, NEW pc, Goto(r, pc)
    PROVE  /\ runner'[r].pc = pc
           /\ runner'[r].t = runner[r].t /\ runner'[r].gen = runner[r].gen
           /\ runner'[r].eff = runner[r].eff /\ runner'[r].attempt = runner[r].attempt
           /\ runner'[r].seen = runner[r].seen
  BY DEF Goto, TypeInv, TypeOK, RunnerState

LEMMA RestMoves ==
    ASSUME TypeInv, NEW r \in Runners
    PROVE  /\ Stop(r) => runner'[r].pc = "idle"
           /\ Quarantines(r) => runner'[r].pc = "quarantine"
           /\ GoRetry(r) => /\ runner'[r].pc = "retry"
                            /\ runner'[r].t = runner[r].t
                            /\ runner'[r].gen = runner[r].gen
                            /\ runner'[r].attempt = runner[r].attempt
  BY DEF Stop, Idle, Quarantines, GoQuarantine, GoRetry, Working, TypeInv, TypeOK

\* A begun effect leaves the stage where it is.
LEMMA BeginKeepsStage ==
    ASSUME NEW led \in [Effects -> EffectRow], NEW e \in NonFinal, NEW gen \in Nat,
           StageIs(led, e)
    PROVE  /\ StageIs([led EXCEPT ![e] = [state |-> "applying", gen |-> gen]], e)
           /\ Before([led EXCEPT ![e] = [state |-> "applying", gen |-> gen]], e) =
                  Before(led, e)
           /\ e # 1 => [led EXCEPT ![e] = [state |-> "applying", gen |-> gen]][e - 1] =
                           led[e - 1]
  <1> DEFINE new == [led EXCEPT ![e] = [state |-> "applying", gen |-> gen]]
  <1>1. /\ e \in Effects /\ e \in Int /\ 1 <= e /\ e <= LastEffect /\ LastEffect \in Nat
        /\ \A f \in 1..(e - 1) : f \in Effects /\ f # e
    BY Ordinals DEF NonFinal, Effects, Final
  <1>2. e # 1 => e - 1 \in 1..(e - 1)
    BY <1>1
  <1>3. new[e].state = "applying" /\ \A f \in 1..(e - 1) : new[f] = led[f]
    BY <1>1
  <1> HIDE DEF new
  <1>4. StageIs(new, e)
    BY <1>3 DEF StageIs
  <1>5. e # 1 => new[e - 1] = led[e - 1]
    BY <1>2, <1>3
  <1>6. Before(new, e) = Before(led, e)
    BY <1>5 DEF Before
  <1> QED
    BY <1>4, <1>5, <1>6 DEF new

\* The snapshot of a runner after a step of its own.
LEMMA SnapSelf ==
    ASSUME OutboxInv, SnapInv, TypeInv', NEW r \in Runners, Step(r)
    PROVE  /\ SnapOf(runner'[r], effect'[runner'[r].t], transition'[runner'[r].t].gen)
           /\ AuthOf(runner'[r], effect'[runner'[r].t])
  <1>1. TypeInv /\ LedgerInv /\ RowsInv
    BY DEF OutboxInv, LedgerInv
  <1>2. runner[r].pc # "idle"
    BY <1>1, StepKinds
  <1>3. PICK t \in Transitions : t = runner[r].t
    BY <1>1, <1>2, AtWork
  <1>4. PICK gen \in Nat : gen = transition[t].gen /\ transition'[t].gen = gen
    BY <1>1, StepKeepsClaim, Typed
  <1>5. PICK led \in [Effects -> EffectRow] : led = effect[t]
    BY <1>1 DEF TypeInv, TypeOK
  <1>6. SnapOf(runner[r], led, gen) /\ AuthOf(runner[r], led)
    BY <1>3, <1>4, <1>5 DEF SnapInv
  <1>7. SUFFICES ASSUME runner'[r].pc \notin {"idle", "quarantine", "finished", "yield"}
                 PROVE  SnapOf(runner'[r], effect'[t], gen) /\ AuthOf(runner'[r], effect'[t])
    <2>1. runner'[r].pc = "idle" \/ runner'[r].t = t
      BY <1>1, <1>3, Moved
    <2>2. runner'[r].pc \in {"idle", "quarantine", "finished", "yield"} =>
            /\ SnapOf(runner'[r], effect'[runner'[r].t], transition'[runner'[r].t].gen)
            /\ AuthOf(runner'[r], effect'[runner'[r].t])
      BY DEF SnapOf, AuthOf, StagePhases
    <2> QED
      BY <1>4, <2>1, <2>2
  <1>8. CASE Observe(r) \/ FinalizeObserve(r)
    <2>1. UNCHANGED effect
      BY <1>8 DEF Observe, FinalizeObserve, Rows
    <2>2. /\ runner[r].pc \in {"observe", "finalize_observe"}
          /\ runner'[r].pc \in {"observed", "finalize_observed"}
          /\ runner'[r].eff = runner[r].eff /\ runner'[r].attempt = runner[r].attempt
          /\ runner'[r].gen = runner[r].gen
      <3>1. PICK pc \in {"observed", "finalize_observed"} :
               \/ \E seen : runner' = [runner EXCEPT ![r] =
                     [runner[r] EXCEPT !.pc = pc, !.seen = seen]]
               \/ \E seen, rev : runner' = [runner EXCEPT ![r] =
                     [runner[r] EXCEPT !.pc = pc, !.seen = seen, !.rev = rev]]
        BY <1>8, Zenon DEF Observe, FinalizeObserve
      <3>2. runner \in [Runners -> RunnerState]
        BY <1>1 DEF TypeInv, TypeOK
      <3>3. runner[r].pc \in {"observe", "finalize_observe"}
        BY <1>8 DEF Observe, FinalizeObserve
      <3>4. ASSUME NEW seen, runner' = [runner EXCEPT ![r] =
                       [runner[r] EXCEPT !.pc = pc, !.seen = seen]]
            PROVE  /\ runner'[r].pc = pc /\ runner'[r].eff = runner[r].eff
                   /\ runner'[r].attempt = runner[r].attempt
                   /\ runner'[r].gen = runner[r].gen
        BY <3>2, <3>4 DEF RunnerState
      <3>5. ASSUME NEW seen, NEW rev, runner' = [runner EXCEPT ![r] =
                       [runner[r] EXCEPT !.pc = pc, !.seen = seen, !.rev = rev]]
            PROVE  /\ runner'[r].pc = pc /\ runner'[r].eff = runner[r].eff
                   /\ runner'[r].attempt = runner[r].attempt
                   /\ runner'[r].gen = runner[r].gen
        BY <3>2, <3>5 DEF RunnerState
      <3> QED
        BY <3>1, <3>3, <3>4, <3>5
    <2> QED
      BY <1>5, <1>6, <2>1, <2>2 DEF SnapOf, AuthOf, StagePhases
  <1>9. CASE Loop(r) /\ LeaseHeld(r) /\ TakesUp(r)
    <2>1. UNCHANGED effect
      BY <1>9 DEF Loop
    <2>2. PICK e \in Effects, pc \in {"finalize_observe", "observe"} :
              /\ IsCurrentStage(t, e)
              /\ runner' = [runner EXCEPT ![r] =
                     [runner[r] EXCEPT !.pc = pc, !.eff = e, !.attempt = StageAttempt(t, e)]]
      BY <1>3, <1>9 DEF TakesUp
    <2>3. /\ runner'[r].pc = pc /\ runner'[r].eff = e
          /\ runner'[r].attempt = StageAttempt(t, e)
      BY <1>1, <2>2 DEF TypeInv, TypeOK, RunnerState
    <2>4. StageIs(led, e) /\ StageAttempt(t, e) = gen - Before(led, e)
      BY <1>4, <1>5, <2>2, StageOperators
    <2> QED
      BY <1>5, <2>1, <2>2, <2>3, <2>4 DEF SnapOf, AuthOf, StagePhases
  <1>10. ASSUME GoRetry(r), UNCHANGED effect, runner[r].pc \in StagePhases
         PROVE  SnapOf(runner'[r], effect'[t], gen) /\ AuthOf(runner'[r], effect'[t])
    <2>1. /\ runner'[r].pc = "retry" /\ runner'[r].attempt = runner[r].attempt
          /\ runner'[r].gen = runner[r].gen
      BY <1>1, <1>10, RestMoves
    <2>2. runner[r].gen = gen =>
              /\ runner[r].eff \in Effects
              /\ StageIs(led, runner[r].eff)
              /\ runner[r].attempt = gen - Before(led, runner[r].eff)
      BY <1>2, <1>6, <1>10 DEF SnapOf
    <2>3. runner[r].gen = gen =>
              \A e \in Effects : StageIs(led, e) => runner[r].attempt = gen - Before(led, e)
      BY <2>2, OneStage
    <2> QED
      BY <1>5, <1>10, <2>1, <2>3 DEF SnapOf, AuthOf, StagePhases
  <1>11. ASSUME NEW pc \in StagePhases, Goto(r, pc), UNCHANGED effect,
                runner[r].pc \in StagePhases,
                \/ pc \in {"finish", "finalize"}
                \/ pc \in {"execute", "insert"} /\ runner[r].pc \in {"begun", "execute"}
                \/ /\ pc = "begin" /\ LeaseHeld(r)
                   /\ runner[r].seen = "already_applied" \/ runner[r].attempt <= MaxAttempts
         PROVE  SnapOf(runner'[r], effect'[t], gen) /\ AuthOf(runner'[r], effect'[t])
    <2>1. /\ runner'[r].pc = pc /\ runner'[r].gen = runner[r].gen
          /\ runner'[r].eff = runner[r].eff /\ runner'[r].attempt = runner[r].attempt
          /\ runner'[r].seen = runner[r].seen
      BY <1>1, <1>11, GotoMoves
    <2>2. SnapOf(runner'[r], led, gen)
      BY <1>2, <1>6, <1>11, <2>1 DEF SnapOf, StagePhases
    <2>3. AuthOf(runner'[r], led)
      <3>1. CASE pc \in {"finish", "finalize"}
        BY <2>1, <3>1 DEF AuthOf
      <3>2. CASE pc \in {"execute", "insert"} /\ runner[r].pc \in {"begun", "execute"}
        BY <1>6, <2>1, <3>2 DEF AuthOf
      <3>3. CASE /\ pc = "begin" /\ LeaseHeld(r)
                 /\ runner[r].seen = "already_applied" \/ runner[r].attempt <= MaxAttempts
        <4>1. runner[r].gen = gen
          BY <1>1, <1>2, <1>3, <1>4, <3>3, Holder
        <4>2. PICK e \in Effects : /\ e = runner[r].eff
                                   /\ StageIs(led, e)
                                   /\ runner[r].attempt = gen - Before(led, e)
          BY <1>2, <1>6, <1>11, <4>1 DEF SnapOf
        <4>3. e # 1 => e - 1 \in 1..(e - 1)
          BY DEF Effects
        <4>4. e # 1 => led[e - 1].state = "applied"
          BY <4>2, <4>3 DEF StageIs
        <4> QED
          BY <2>1, <3>3, <4>1, <4>2, <4>4 DEF AuthOf
      <3> QED
        BY <1>11, <3>1, <3>2, <3>3
    <2> QED
      BY <1>5, <1>11, <2>2, <2>3
  <1>12. CASE BeginEffect(r)
    <2>1. PICK e \in NonFinal : e = runner[r].eff
      BY <1>1, <1>12 DEF BeginEffect, TypeInv, RunnerBound
    <2>2. ~Quarantines(r)
      BY <1>1, <1>7, RestMoves
    <2>3. \A reason \in {"effect_adoption_proof_invalid", "effect_execution_uncertain"} :
              ~GoQuarantine(r, reason)
      BY <2>2, PhaseNames DEF Quarantines
    <2>4. PICK pc : /\ pc = IF runner[r].seen = "already_applied" THEN "finish" ELSE "begun"
                    /\ Goto(r, pc)
                    /\ LeaseHeld(r)
                    /\ SetEffect(t, e, "applying", runner[r].gen)
                    /\ runner[r].pc = "begin"
      BY <1>3, <1>12, <2>1, <2>3 DEF BeginEffect
    <2>5. /\ runner'[r].pc = pc /\ runner'[r].gen = runner[r].gen
          /\ runner'[r].eff = runner[r].eff /\ runner'[r].attempt = runner[r].attempt
          /\ runner'[r].seen = runner[r].seen
      BY <1>1, <2>4, GotoMoves
    <2>6. runner[r].gen = gen
      BY <1>1, <1>2, <1>3, <1>4, <2>4, Holder
    <2>7. PICK new : new = [led EXCEPT ![e] = [state |-> "applying", gen |-> gen]]
      OBVIOUS
    <2>8. effect'[t] = new
      BY <1>1, <1>5, <2>4, <2>6, <2>7 DEF SetEffect, TypeInv, TypeOK
    <2>9. StageIs(led, e) /\ runner[r].attempt = gen - Before(led, e)
      BY <1>2, <1>6, <2>1, <2>4, <2>6 DEF SnapOf, StagePhases
    <2>10. StageIs(new, e) /\ Before(new, e) = Before(led, e)
           /\ (e # 1 => new[e - 1] = led[e - 1])
      BY <2>7, <2>9, BeginKeepsStage
    <2>11. SnapOf(runner'[r], new, gen)
      BY <2>1, <2>4, <2>5, <2>9, <2>10, Ordinals DEF SnapOf, StagePhases
    <2>12. AuthOf(runner'[r], new)
      BY <1>6, <2>1, <2>4, <2>5, <2>10 DEF AuthOf
    <2> QED
      BY <2>8, <2>11, <2>12
  <1>13. \A reason \in Reasons \ {"none"} : ~GoQuarantine(r, reason)
    BY <1>1, <1>7, RestMoves DEF Quarantines
  <1>14. ~Stop(r)
    BY <1>1, <1>7, RestMoves
  <1>15. {"effect_observation_failed", "adapter_quarantine",
          "effect_adoption_proof_invalid", "retry_attempts_exhausted",
          "effect_execution_uncertain", "effect_result_invalid",
          "binding_state_drift", "finalization_observation_failed",
          "finalization_proof_invalid"} \subseteq Reasons \ {"none"}
    BY PhaseNames
  <1>16. CASE Loop(r)
    BY <1>9, <1>14, <1>16 DEF Loop, TakesUp
  <1>17. CASE Observed(r)
    <2>1. /\ runner[r].pc \in StagePhases /\ UNCHANGED effect
          /\ "begin" \in StagePhases
          /\ \/ GoRetry(r)
             \/ /\ Goto(r, "begin") /\ LeaseHeld(r)
                /\ runner[r].seen = "already_applied" \/ runner[r].attempt <= MaxAttempts
      BY <1>13, <1>15, <1>17 DEF Observed, AuthorizeAttempt, StagePhases
    <2> QED
      BY <1>10, <1>11, <2>1
  <1>18. CASE Begun(r) \/ Execute(r) \/ Insert(r) \/ FinalizeObserved(r)
    <2>1. /\ runner[r].pc \in StagePhases /\ UNCHANGED effect
          /\ \/ GoRetry(r)
             \/ \E pc \in {"finish", "finalize"} : Goto(r, pc)
             \/ /\ \E pc \in {"execute", "insert"} : Goto(r, pc)
                /\ runner[r].pc \in {"begun", "execute"}
      BY <1>13, <1>15, <1>18 DEF Begun, Execute, Insert, FinalizeObserved, StagePhases, Rows
    <2>2. {"finish", "finalize", "execute", "insert"} \subseteq StagePhases
      BY DEF StagePhases
    <2> QED
      BY <1>10, <1>11, <2>1, <2>2
  <1>19. CASE FinishEffect(r) \/ Finished(r)
    <2>1. \A pc \in {"finished", "yield"} : ~Goto(r, pc)
      BY <1>1, <1>7, GotoMoves
    <2> QED
      BY <1>13, <1>15, <1>19, <2>1 DEF FinishEffect, Finished
  <1>20. CASE YieldReady(r) \/ Retry(r) \/ Finalize(r) \/ Quarantine(r) \/ Reject(r) \/ Raise(r)
    BY <1>13, <1>14, <1>15, <1>20, Zenon
       DEF YieldReady, Retry, Finalize, Quarantine, Reject, Raise
  <1> QED
    BY <1>8, <1>12, <1>16, <1>17, <1>18, <1>19, <1>20 DEF Step

\* Nothing that others do takes an authorisation back,
LEMMA AuthKept ==
    ASSUME OutboxInv, SnapInv, [Next]_vars, NEW q \in Runners
    PROVE  AuthOf(runner[q], effect'[runner[q].t])
  <1>1. SUFFICES ASSUME runner[q].pc \in {"begin", "begun", "execute", "insert"}
                 PROVE  AuthOf(runner[q], effect'[runner[q].t])
    BY DEF AuthOf
  <1>2. TypeInv
    BY DEF OutboxInv, LedgerInv
  <1>3. PICK t \in Transitions, e \in NonFinal : t = runner[q].t /\ e = runner[q].eff
    BY <1>1, <1>2, AtWork DEF TypeInv, RunnerBound
  <1>4. AuthOf(runner[q], effect[t])
    BY <1>3 DEF SnapInv
  <1>5. e # 1 => e - 1 \in NonFinal
    BY Ordinals DEF NonFinal
  <1>6. e # 1 /\ effect[t][e - 1].state = "applied" => effect'[t][e - 1] = effect[t][e - 1]
    BY <1>5, AppliedStays
  <1> QED
    BY <1>3, <1>4, <1>6 DEF AuthOf, Before

\* and nothing makes a current snapshot stale.
LEMMA SnapOther ==
    ASSUME OutboxInv, SnapInv, [Next]_vars, NEW q \in Runners, runner'[q] = runner[q], ~Step(q)
    PROVE  SnapOf(runner[q], effect'[runner[q].t], transition'[runner[q].t].gen)
  <1>1. SUFFICES ASSUME runner[q].pc # "idle",
                        transition'[runner[q].t].gen = runner[q].gen
                 PROVE  SnapOf(runner[q], effect'[runner[q].t], transition'[runner[q].t].gen)
    BY DEF SnapOf
  <1>2. TypeInv /\ LedgerInv /\ RowsInv
    BY DEF OutboxInv, LedgerInv
  <1>3. PICK t \in Transitions : t = runner[q].t
    BY <1>1, <1>2, AtWork
  <1>4. SnapOf(runner[q], effect[t], transition[t].gen)
    BY <1>3 DEF SnapInv
  <1>5. SUFFICES effect'[t] = effect[t] /\ transition'[t].gen = transition[t].gen
    BY <1>3, <1>4
  <1>6. CASE \E r \in Runners : \E u \in Transitions : Claim(r, u)
    <2>1. PICK r \in Runners, u \in Transitions : Claim(r, u)
      BY <1>6
    <2>2. UNCHANGED effect /\ transition'[u].gen = NextGeneration(u)
          /\ (\A v \in Transitions \ {u} : transition'[v] = transition[v])
      <3>1. UNCHANGED effect
        BY <2>1 DEF Claim
      <3> QED
        BY <1>2, <2>1, <3>1, ClaimMoves
    <2>3. runner[q].gen <= transition[t].gen /\ runner[q].gen \in Nat
          /\ transition[t].gen \in Nat
      BY <1>1, <1>2, <1>3, Typed DEF LedgerInv, RunnersInformed, RunnerInformed
    <2>4. u # t
      BY <1>1, <1>3, <2>2, <2>3 DEF NextGeneration
    <2> QED
      BY <2>2, <2>4
  <1>7. CASE ~\E r \in Runners : \E u \in Transitions : Claim(r, u)
    <2>1. transition'[t].gen = transition[t].gen
      BY <1>2, <1>7, ClaimKept
    <2>2. ASSUME NEW r \in Runners, Step(r) PROVE effect'[t] = effect[t]
      <3>1. r # q
        BY <2>2
      <3> QED
        BY <1>1, <1>3, <2>1, <2>2, <3>1, LedgerFenced
    <2>3. CASE ~\E r \in Runners : Step(r)
      <3>1. UNCHANGED effect
        BY <1>7, <2>3 DEF Next, RuntimeAdvances, RecordStatus, StageReceipt, Stage, Crash,
           Tick, vars, Rows
      <3> QED
        BY <2>1, <3>1
    <2> QED
      BY <2>1, <2>2, <2>3
  <1> QED
    BY <1>6, <1>7

\* A reservation stays within its budget: the stage before it is applied for good.
LEMMA ReservedNext ==
    ASSUME OutboxInv, SnapInv, ReservedWithinBudget, [Next]_vars
    PROVE  ReservedWithinBudget'
  <1>1. TypeInv /\ LedgerInv
    BY DEF OutboxInv, LedgerInv
  <1>2. SUFFICES ASSUME NEW t \in Transitions, NEW e \in NonFinal, slot'[t][e] # 0
                 PROVE  slot'[t][e] - Before(effect'[t], e) <= MaxAttempts
    BY DEF ReservedWithinBudget, PreviousGeneration, Before
  <1>3. e # 1 => e - 1 \in NonFinal
    BY Ordinals DEF NonFinal
  <1>4. CASE slot[t][e] # 0 /\ slot'[t][e] = slot[t][e]
    <2>1. slot[t][e] - Before(effect[t], e) <= MaxAttempts
      BY <1>4 DEF ReservedWithinBudget, PreviousGeneration, Before
    <2>2. e # 1 => effect[t][e - 1].state = "applied"
      <3>1. effect[t][e].state \in Done
        BY <1>1, <1>4 DEF LedgerInv, EffectProven, Done
      <3>2. e # 1 => e - 1 \in Effects /\ e \in Effects /\ e - 1 < e
        BY <1>3, Ordinals DEF NonFinal
      <3> QED
        BY <1>1, <3>1, <3>2 DEF LedgerInv, OrderedLedger, Done
    <2>3. e # 1 => effect'[t][e - 1] = effect[t][e - 1]
      BY <1>3, <2>2, AppliedStays
    <2> QED
      BY <1>4, <2>1, <2>3 DEF Before
  <1>5. ASSUME NEW r \in Runners, Insert(r), slot'[t][e] # slot[t][e]
        PROVE  slot'[t][e] - Before(effect'[t], e) <= MaxAttempts
    <2>1. /\ runner[r].pc = "insert" /\ UNCHANGED effect
          /\ slot' = [slot EXCEPT ![runner[r].t] =
                         [slot[runner[r].t] EXCEPT ![runner[r].eff] = runner[r].gen]]
          /\ slot[runner[r].t][runner[r].eff] = 0
      BY <1>5 DEF Insert, Rows
    <2>2. PICK u \in Transitions, f \in NonFinal : u = runner[r].t /\ f = runner[r].eff
      BY <1>1, <2>1, AtWork DEF TypeInv, RunnerBound
    <2>3. slot[u] \in [NonFinal -> Nat] /\ slot[t] \in [NonFinal -> Nat]
      BY <1>1 DEF TypeInv, TypeOK
    <2>4. u = t /\ f = e
      BY <1>1, <1>5, <2>1, <2>2, <2>3 DEF TypeInv, TypeOK
    <2>5. slot'[t][e] = runner[r].gen
      BY <1>1, <2>1, <2>2, <2>3, <2>4 DEF TypeInv, TypeOK
    <2>6. AuthOf(runner[r], effect[t])
      BY <2>2, <2>4 DEF SnapInv
    <2> QED
      BY <2>1, <2>2, <2>4, <2>5, <2>6 DEF AuthOf
  <1>6. CASE slot'[t][e] # slot[t][e]
    <2>1. \E r \in Runners : Insert(r)
      <3>1. CASE \E r \in Runners : Step(r)
        BY <1>1, <1>6, <3>1, StepKinds
      <3> QED
        BY <1>6, <3>1 DEF Next, RuntimeAdvances, RecordStatus, StageReceipt, Stage, Crash,
           Tick, Claim, vars
    <2> QED
      BY <1>5, <1>6, <2>1
  <1> QED
    BY <1>2, <1>4, <1>6

LEMMA SnapNext ==
    ASSUME OutboxInv, SnapInv, TypeInv', [Next]_vars
    PROVE  SnapInv'
  <1>1. TypeInv
    BY DEF OutboxInv, LedgerInv
  <1>2. ASSUME NEW q \in Runners
        PROVE  /\ SnapOf(runner'[q], effect'[runner'[q].t], transition'[runner'[q].t].gen)
               /\ AuthOf(runner'[q], effect'[runner'[q].t])
    <2>1. CASE Step(q)
      BY <2>1, SnapSelf
    <2>2. CASE ~Step(q)
      <3>1. CASE runner'[q] = runner[q]
        BY <2>2, <3>1, SnapOther, AuthKept
      <3>2. CASE runner'[q].pc \in {"idle", "loop"}
        BY <3>2 DEF SnapOf, AuthOf, StagePhases
      <3>3. runner'[q] = runner[q] \/ runner'[q].pc \in {"idle", "loop"}
        <4>1. CASE \E r \in Runners : Step(r)
          BY <1>1, <2>2, <4>1, Moved
        <4>2. CASE \E r \in Runners : \E t \in Transitions : Claim(r, t)
          BY <1>1, <4>2, ClaimMoves
        <4>3. CASE \E r \in Runners : Crash(r)
          BY <1>1, <4>3, CrashMoves
        <4>4. CASE UNCHANGED runner
          BY <4>4
        <4> QED
          BY <4>1, <4>2, <4>3, <4>4
             DEF Next, vars, RuntimeAdvances, RecordStatus, StageReceipt, Stage, Tick
      <3> QED
        BY <3>1, <3>2, <3>3
    <2> QED
      BY <2>1, <2>2
  <1> QED
    BY <1>2 DEF SnapInv

\* The inductive invariant of the snapshots.
FenceInv == OutboxInv /\ SnapInv /\ ReservedWithinBudget

LEMMA FenceInit == Init => FenceInv
  <1> SUFFICES ASSUME Init PROVE FenceInv
    OBVIOUS
  <1>1. OutboxInv
    BY OutboxInit
  <1>2. \A r \in Runners : runner[r].pc = "idle"
    BY IdleType DEF Init
  <1>3. SnapInv
    BY <1>2 DEF SnapInv, SnapOf, AuthOf
  <1>4. ReservedWithinBudget
    BY DEF Init, ReservedWithinBudget
  <1> QED
    BY <1>1, <1>3, <1>4 DEF FenceInv

LEMMA FenceNext == FenceInv /\ [Next]_vars => FenceInv'
  <1> SUFFICES ASSUME FenceInv, [Next]_vars PROVE FenceInv'
    OBVIOUS
  <1>1. OutboxInv /\ SnapInv /\ ReservedWithinBudget
    BY DEF FenceInv
  <1>2. OutboxInv'
    BY <1>1, OutboxNext
  <1>3. TypeInv'
    BY <1>2 DEF OutboxInv, LedgerInv
  <1>4. SnapInv'
    BY <1>1, <1>3, SnapNext
  <1>5. ReservedWithinBudget'
    BY <1>1, ReservedNext
  <1> QED
    BY <1>2, <1>4, <1>5 DEF FenceInv

LEMMA FenceInvariant == Spec => []FenceInv
  BY FenceInit, FenceNext, PTL DEF Spec

\* A runner that still has its lease works on the stage and the attempt that are
\* current now, however long ago its snapshot was read (SnapshotStillCurrent:
\* _run_claimed between two heartbeats).
THEOREM SnapshotsHold == Spec => []SnapshotStillCurrent
  <1>1. FenceInv => SnapshotStillCurrent
    <2> SUFFICES ASSUME FenceInv, NEW r \in Runners, runner[r].pc \in StagePhases, LeaseHeld(r)
                 PROVE  /\ IsCurrentStage(runner[r].t, runner[r].eff)
                        /\ runner[r].attempt = StageAttempt(runner[r].t, runner[r].eff)
      BY DEF SnapshotStillCurrent, StagePhases
    <2>1. OutboxInv /\ LedgerInv /\ RowsInv /\ runner[r].pc # "idle"
      BY DEF FenceInv, OutboxInv, StagePhases
    <2>2. PICK t \in Transitions : t = runner[r].t /\ transition[t].gen = runner[r].gen
      BY <2>1, Holder
    <2>3. SnapOf(runner[r], effect[t], transition[t].gen)
      BY <2>2 DEF FenceInv, SnapInv
    <2>4. /\ StageIs(effect[t], runner[r].eff)
          /\ runner[r].attempt = transition[t].gen - Before(effect[t], runner[r].eff)
      BY <2>1, <2>2, <2>3 DEF SnapOf
    <2> QED
      BY <2>2, <2>4, StageOperators
  <1> QED
    BY <1>1, FenceInvariant, PTL

\* Whatever is lost, retried or late, a reservation is only made in one of the
\* first MaxAttempts claims of its stage (ReservedWithinBudget:
\* authorize_attempt is asked three transactions before the insert).
THEOREM ReservationsWithinBudget == Spec => []ReservedWithinBudget
  <1>1. FenceInv => ReservedWithinBudget
    BY DEF FenceInv
  <1> QED
    BY <1>1, FenceInvariant, PTL

----------------------------------------------------------------------------
(* The attempts of a stage.                                                *)

\* The current stage has used at most n claims.
Within(led, gen, n) ==
    \A e \in Effects : StageIs(led, e) => gen - Before(led, e) <= n

\* Somebody works under the current claim and its lease.
Served(t) == transition[t].lease > 0 /\ Attended(t)

\* A stage has used up at most its attempts and the faults; one claim less
\* while the next one is still to come.
Spent(t) ==
    /\ transition[t].state = "ready" =>
           Within(effect[t], transition[t].gen, MaxAttempts - 1)
    /\ transition[t].state \in LiveStates =>
           Within(effect[t], transition[t].gen, MaxAttempts + faults)
    /\ transition[t].state = "applying" /\ ~Served(t) =>
           Within(effect[t], transition[t].gen, MaxAttempts + faults - 1)

SpentInv == \A t \in Transitions : Spent(t)

LEMMA BeforeType ==
    ASSUME NEW led \in [Effects -> EffectRow], NEW e \in Effects
    PROVE  Before(led, e) \in Nat
  <1>1. e # 1 => e - 1 \in Effects
    BY Ordinals DEF Effects
  <1>2. e # 1 => led[e - 1].gen \in Nat
    BY <1>1 DEF EffectRow
  <1> QED
    BY <1>2 DEF Before

LEMMA WithinMore ==
    ASSUME NEW led \in [Effects -> EffectRow], NEW gen \in Nat, NEW n \in Int,
           NEW m \in Int, n <= m, Within(led, gen, n)
    PROVE  Within(led, gen, m)
  BY BeforeType DEF Within

LEMMA WithinClaim ==
    ASSUME NEW led \in [Effects -> EffectRow], NEW gen \in Nat, NEW n \in Int,
           Within(led, gen, n - 1)
    PROVE  Within(led, gen + 1, n)
  BY BeforeType DEF Within

\* A begun effect spends nothing,
LEMMA WithinBegun ==
    ASSUME NEW led \in [Effects -> EffectRow], NEW gen \in Nat, NEW n \in Int,
           NEW e \in NonFinal, NEW new \in [Effects -> EffectRow], Within(led, gen, n),
           led[e].state # "applied", new[e].state = "applying",
           \A f \in Effects \ {e} : new[f] = led[f]
    PROVE  Within(new, gen, n)
  <1> SUFFICES ASSUME NEW f \in Effects, StageIs(new, f)
               PROVE  gen - Before(new, f) <= n
    BY DEF Within
  <1>1. \A g \in 1..(f - 1) : g \in Effects /\ new[g].state = "applied" /\ new[g] = led[g]
    <2>1. \A g \in 1..(f - 1) : g \in Effects
      BY Ordinals DEF Effects
    <2> QED
      BY <2>1 DEF StageIs
  <1>2. StageIs(led, f)
    BY <1>1 DEF StageIs
  <1>3. Before(new, f) = Before(led, f)
    <2>1. f # 1 => f - 1 \in 1..(f - 1)
      BY DEF Effects
    <2> QED
      BY <1>1, <2>1 DEF Before
  <1> QED
    BY <1>2, <1>3 DEF Within

\* and the stage after an effect applied under this claim starts with none.
LEMMA WithinFresh ==
    ASSUME NEW led \in [Effects -> EffectRow], NEW gen \in Nat, NEW e \in NonFinal,
           led[e].state = "applied", led[e].gen = gen,
           \A a, b \in Effects : a < b /\ led[b].state \in Done =>
               led[a].state = "applied" /\ led[a].gen < led[b].gen
    PROVE  Within(led, gen, 0)
  <1> SUFFICES ASSUME NEW f \in Effects, StageIs(led, f)
               PROVE  gen - Before(led, f) <= 0
    BY DEF Within
  <1>1. /\ e \in Effects /\ e # Final /\ e \in Int /\ f \in Int /\ 1 <= f /\ 1 <= e
        /\ e < Final
    BY Ordinals DEF Effects, NonFinal, Final
  <1>2. ~(f <= e)
    <2>1. SUFFICES ASSUME f <= e PROVE FALSE
      OBVIOUS
    <2>2. led[f].state = "applied"
      BY <1>1, <2>1 DEF Done
    <2>3. f # Final
      BY <1>1, <2>1, Ordinals
    <2> QED
      BY <2>2, <2>3 DEF StageIs
  <1>3. f - 1 \in Effects /\ f - 1 \in 1..(f - 1) /\ e <= f - 1 /\ f # 1
    BY <1>1, <1>2, Ordinals DEF Effects
  <1>4. led[f - 1].state = "applied" /\ led[f - 1].gen \in Nat
    BY <1>3 DEF StageIs, EffectRow
  <1>5. gen <= led[f - 1].gen
    <2>1. CASE e = f - 1
      BY <1>4, <2>1
    <2>2. CASE e < f - 1
      BY <1>1, <1>3, <1>4, <2>2 DEF Done
    <2> QED
      BY <1>1, <1>3, <2>1, <2>2
  <1>6. Before(led, f) = led[f - 1].gen
    BY <1>3 DEF Before
  <1> QED
    BY <1>4, <1>5, <1>6

\* A runner with the current claim and time left on it passes every check of the
\* store on owner, generation, lease, receipt and binding.
LEMMA ServesWithLease ==
    ASSUME OutboxInv, NEW r \in Runners, runner[r].pc # "idle",
           transition[runner[r].t].gen = runner[r].gen, transition[runner[r].t].lease > 0
    PROVE  LeaseHeld(r) /\ BindingExecutable(runner[r].t)
  <1>1. TypeInv /\ LedgerInv /\ RowsInv
    BY DEF OutboxInv, LedgerInv
  <1>2. PICK t \in Transitions : t = runner[r].t
    BY <1>1, AtWork
  <1>3. transition[t].state = "applying"
    <2>1. transition[t].lease # 0
      BY <1>1, <1>2 DEF TypeInv, TypeOK, TransitionRow
    <2> QED
      BY <1>1, <2>1 DEF RowsInv, HeaderOK
  <1>4. Owned(r)
    BY <1>2, <1>3 DEF OutboxInv, HolderInv, Owned
  <1>5. Mirrored(t)
    <2>1. t \in Commands => MirrorOK(receipt[t], transition[t])
      BY <1>1, <1>3 DEF RowsInv
    <2> QED
      BY <2>1 DEF Mirrored, MirrorOK
  <1>6. BindingExecutable(t)
    BY <1>1, <1>3 DEF RowsInv, HoldsBinding, BindingExecutable, BindingHeld, LiveStates
  <1> QED
    BY <1>2, <1>4, <1>5, <1>6 DEF LeaseHeld

\* A runner that stops while it holds the lease has ended its claim.
LEMMA StopsWithClaim ==
    ASSUME OutboxInv, NEW r \in Runners, Step(r), LeaseHeld(r), BindingHeld(runner[r].t),
           runner'[r].pc = "idle"
    PROVE  transition'[runner[r].t].state # "applying"
  <1>1. TypeInv /\ LedgerInv /\ RowsInv
    BY DEF OutboxInv, LedgerInv
  <1>2. runner[r].pc # "idle" /\ runner[r].t \in Transitions
    BY <1>1, StepKinds, AtWork
  <1>3. ASSUME NEW st \in {"ready", "quarantined", "completed", "rejected"}, NEW wait,
               NEW error, EndClaim(r, st, wait, error)
        PROVE  transition'[runner[r].t].state # "applying"
    BY <1>1, <1>2, <1>3, HolderWrites DEF EndClaim
  <1>4. CASE Quarantine(r)
    BY <1>3, <1>4 DEF Quarantine
  <1>5. CASE Reject(r)
    BY <1>3, <1>5 DEF Reject
  <1>6. ~GoRetry(r) /\ ~Quarantines(r)
    BY <1>1, RestMoves
  <1>7. ~Proceeds(r) /\ ~TakesUp(r) /\ ~Observe(r) /\ ~FinalizeObserve(r)
    <2>1. ~Proceeds(r)
      BY <1>1, GotoMoves DEF Proceeds
    <2>2. ~Observe(r) /\ ~FinalizeObserve(r)
      BY <1>1, AnswerMoves
    <2>3. ~TakesUp(r)
      <3>1. ASSUME TakesUp(r) PROVE FALSE
        <4>1. PICK e \in Effects, pc \in {"finalize_observe", "observe"} :
                  runner' = [runner EXCEPT ![r] =
                      [runner[r] EXCEPT !.pc = pc, !.eff = e,
                                        !.attempt = StageAttempt(runner[r].t, e)]]
          BY <3>1 DEF TakesUp
        <4> QED
          BY <1>1, <4>1 DEF TypeInv, TypeOK, RunnerState
      <3> QED
        BY <3>1
    <2> QED
      BY <2>1, <2>2, <2>3
  <1>8. \A pc \in {"begin", "begun", "execute", "insert", "finish", "finished", "yield",
                   "finalize"} : ~Goto(r, pc)
    BY <1>7, PhaseNames DEF Proceeds
  <1>9. \A reason \in {"effect_observation_failed", "adapter_quarantine",
            "effect_adoption_proof_invalid", "retry_attempts_exhausted",
            "effect_execution_uncertain", "effect_result_invalid",
            "binding_state_drift", "finalization_observation_failed",
            "finalization_proof_invalid"} : ~GoQuarantine(r, reason)
    BY <1>6, PhaseNames DEF Quarantines
  <1>10. ~Loop(r)
    BY <1>7 DEF Loop, TakesUp
  <1>11. ~Observed(r) /\ ~Begun(r) /\ ~Execute(r) /\ ~Insert(r) /\ ~FinalizeObserved(r)
    BY <1>6, <1>8, <1>9, Zenon DEF Observed, Begun, Execute, Insert, FinalizeObserved
  <1>12. ~BeginEffect(r) /\ ~FinishEffect(r) /\ ~Finished(r) /\ ~Raise(r)
    BY <1>8, <1>9 DEF BeginEffect, FinishEffect, Finished, Raise
  <1>13. CASE YieldReady(r)
    BY <1>3, <1>9, <1>13 DEF YieldReady
  <1>14. CASE Retry(r)
    BY <1>3, <1>9, <1>14 DEF Retry
  <1>15. CASE Finalize(r)
    BY <1>3, <1>9, <1>15 DEF Finalize
  <1> QED
    BY <1>4, <1>5, <1>7, <1>10, <1>11, <1>12, <1>13, <1>14, <1>15 DEF Step

\* So a claim that is served goes on being served, or ends.
LEMMA ServedKept ==
    ASSUME OutboxInv, NEW r \in Runners, Step(r), NEW t \in Transitions, Served(t),
           transition'[t].state = "applying"
    PROVE  Served(t)'
  <1>1. TypeInv /\ LedgerInv /\ RowsInv
    BY DEF OutboxInv, LedgerInv
  <1>2. /\ transition'[t].gen = transition[t].gen
        /\ transition'[t].lease > 0
    <2>1. LeaseSeconds > 0
      BY ConstantsAssumption DEF ConstantsAssumption
    <2> QED
      BY <1>1, <2>1, StepKeepsClaim DEF Served
  <1>3. PICK q \in Runners : /\ runner[q].pc # "idle"
                             /\ runner[q].t = t
                             /\ runner[q].gen = transition[t].gen
    BY DEF Served, Attended
  <1>4. runner'[q].pc # "idle" /\ runner'[q].t = t /\ runner'[q].gen = transition[t].gen
    <2>1. CASE q # r
      BY <1>1, <1>3, <2>1, Moved
    <2>2. CASE q = r
      <3>1. LeaseHeld(r) /\ BindingHeld(t)
        BY <1>3, <2>2, ServesWithLease DEF Served, BindingExecutable
      <3>2. runner'[r].pc # "idle"
        BY <1>3, <2>2, <3>1, StopsWithClaim
      <3> QED
        BY <1>1, <1>3, <2>2, <3>2, Moved
    <2> QED
      BY <2>1, <2>2
  <1> QED
    BY <1>2, <1>4 DEF Served, Attended

\* The types of the budgets.
LEMMA SpentTypes ==
    ASSUME TypeInv, NEW t \in Transitions
    PROVE  /\ effect[t] \in [Effects -> EffectRow]
           /\ transition[t].gen \in Nat
           /\ MaxAttempts \in Nat /\ MaxAttempts >= 1
           /\ faults \in Nat
           /\ MaxAttempts - 1 \in Int /\ MaxAttempts + faults \in Int
           /\ MaxAttempts + faults - 1 \in Int
           /\ MaxAttempts - 1 <= MaxAttempts + faults
           /\ 0 <= MaxAttempts - 1 /\ 0 <= MaxAttempts + faults
           /\ 0 <= MaxAttempts + faults - 1
  <1>1. /\ effect[t] \in [Effects -> EffectRow] /\ transition[t].gen \in Nat /\ faults \in Nat
    BY DEF TypeInv, TypeOK, TransitionRow
  <1>2. MaxAttempts \in Nat /\ MaxAttempts >= 1
    BY ConstantsAssumption DEF ConstantsAssumption
  <1> QED
    BY <1>1, <1>2

\* A row that keeps state, generation and ledger keeps its budget.
LEMMA SpentSame ==
    ASSUME SpentInv, NEW t \in Transitions, UNCHANGED faults,
           transition'[t].state = transition[t].state,
           transition'[t].gen = transition[t].gen, effect'[t] = effect[t],
           transition[t].state = "applying" /\ Served(t) => Served(t)'
    PROVE  Spent(t)'
  <1>1. Spent(t)
    BY DEF SpentInv
  <1>2. transition[t].state = "ready" => Within(effect[t], transition[t].gen, MaxAttempts - 1)
    BY <1>1 DEF Spent
  <1>3. transition[t].state \in LiveStates =>
            Within(effect[t], transition[t].gen, MaxAttempts + faults)
    BY <1>1 DEF Spent
  <1>4. transition[t].state = "applying" /\ ~Served(t)' =>
            Within(effect[t], transition[t].gen, MaxAttempts + faults - 1)
    BY <1>1 DEF Spent
  <1>5. /\ transition'[t].state = "ready" =>
               Within(effect'[t], transition'[t].gen, MaxAttempts - 1)
        /\ transition'[t].state \in LiveStates =>
               Within(effect'[t], transition'[t].gen, MaxAttempts + faults')
        /\ transition'[t].state = "applying" /\ ~Served(t)' =>
               Within(effect'[t], transition'[t].gen, MaxAttempts + faults' - 1)
    BY <1>2, <1>3, <1>4
  <1> QED
    BY <1>5 DEF Spent

\* A runner's step.
LEMMA SpentStep ==
    ASSUME FenceInv, SpentInv, TypeInv', OrderedLedger', NEW r \in Runners, Step(r),
           NEW t \in Transitions
    PROVE  Spent(t)'
  <1>1. TypeInv /\ LedgerInv /\ RowsInv /\ OutboxInv /\ SnapInv
    BY DEF FenceInv, OutboxInv, LedgerInv
  <1>2. /\ runner[r].pc # "idle" /\ UNCHANGED faults
        /\ \/ UNCHANGED Rows
           \/ Beats(r) \/ Releases(r) \/ Withdraws(r) \/ Begins(r) \/ Proves(r)
           \/ Completes(r) \/ Reject(r)
    BY <1>1, StepKinds
  <1>3. PICK u \in Transitions : u = runner[r].t
    BY <1>1, <1>2, AtWork
  <1>4. transition'[t].gen = transition[t].gen
    BY <1>1, StepKeepsClaim
  <1>5. transition'[t].state = "applying" /\ Served(t) => Served(t)'
    BY <1>1, ServedKept
  <1>6. CASE UNCHANGED Rows
    BY <1>2, <1>4, <1>5, <1>6, SpentSame DEF Rows
  <1>7. CASE ~UNCHANGED Rows /\ t # u
    <2>1. LeaseHeld(r)
      BY <1>2, <1>7 DEF Beats, Releases, Withdraws, Begins, Proves, Completes, Reject
    <2>2. /\ \/ UNCHANGED transition
             \/ Renew(r)
             \/ \E st, wait, error : EndClaim(r, st, wait, error)
          /\ \/ UNCHANGED effect
             \/ \E e, st, gen : SetEffect(runner[r].t, e, st, gen)
             \/ \E row : effect' = [effect EXCEPT ![runner[r].t] = row]
      BY <1>2, <1>7 DEF Beats, Releases, Withdraws, Begins, Proves, Completes, Reject
    <2>3. transition'[t] = transition[t]
      BY <1>1, <1>3, <1>7, <2>2 DEF Renew, EndClaim, SetTransition, TypeInv, TypeOK
    <2>4. effect'[t] = effect[t]
      BY <1>1, <1>3, <1>7, <2>2 DEF SetEffect, TypeInv, TypeOK
    <2> QED
      BY <1>2, <1>5, <2>3, <2>4, SpentSame
  <1>8. CASE ~UNCHANGED Rows /\ t = u
    <2>1. LeaseHeld(r) /\ transition[t].state = "applying" /\ transition[t].gen = runner[r].gen
      <3>1. LeaseHeld(r)
        BY <1>2, <1>8 DEF Beats, Releases, Withdraws, Begins, Proves, Completes, Reject
      <3> QED
        BY <1>1, <1>2, <1>3, <1>8, <3>1, Holder
    <2>2. PICK led \in [Effects -> EffectRow], gen \in Nat, f \in Nat :
              /\ led = effect[t] /\ gen = transition[t].gen /\ f = faults
              /\ MaxAttempts \in Nat /\ MaxAttempts >= 1
      BY <1>1, SpentTypes
    <2>3. /\ Within(led, gen, MaxAttempts + f)
          /\ ~Served(t) => Within(led, gen, MaxAttempts + f - 1)
      BY <2>1, <2>2 DEF SpentInv, Spent, LiveStates
    <2>4. ASSUME NEW st \in {"ready", "quarantined", "completed", "rejected"}, NEW wait,
                 NEW error, EndClaim(r, st, wait, error)
          PROVE  transition'[t].state = st
      BY <1>1, <1>2, <1>3, <1>8, <2>1, <2>4, HolderWrites DEF EndClaim
    <2>5. CASE Beats(r)
      <3>1. transition'[t].state = "applying"
        BY <1>1, <1>2, <1>3, <1>8, <2>1, <2>5, HolderWrites DEF Beats, Renew
      <3> QED
        BY <1>2, <1>4, <1>5, <2>1, <2>5, <3>1, SpentSame DEF Beats
    <2>6. CASE Releases(r)
      <3>1. transition'[t].state = "ready" /\ UNCHANGED effect
        BY <2>4, <2>6 DEF Releases
      <3>2. Within(led, gen, MaxAttempts - 1)
        <4>1. CASE runner[r].pc = "yield" /\ CanYield(t, runner[r].eff, gen)
          <5>1. PICK e \in NonFinal : e = runner[r].eff
            BY <1>1, <4>1 DEF TypeInv, RunnerBound
          <5>2. led[e] = [state |-> "applied", gen |-> gen]
            BY <2>2, <4>1, <5>1, Ordinals DEF CanYield
          <5>3. \A a, b \in Effects : a < b /\ led[b].state \in Done =>
                    led[a].state = "applied" /\ led[a].gen < led[b].gen
            BY <1>1, <2>2 DEF LedgerInv, OrderedLedger, Done
          <5>4. Within(led, gen, 0)
            BY <5>2, <5>3, WithinFresh
          <5> QED
            BY <2>2, <5>4, WithinMore
        <4>2. CASE runner[r].pc = "retry" /\ RetryLeft(runner[r].attempt)
          <5>1. SnapOf(runner[r], led, gen)
            BY <1>1, <1>3, <1>8, <2>2 DEF SnapInv
          <5>2. \A e \in Effects : StageIs(led, e) => runner[r].attempt = gen - Before(led, e)
            BY <1>2, <2>1, <2>2, <4>2, <5>1 DEF SnapOf
          <5> QED
            BY <2>2, <4>2, <5>2, BeforeType DEF Within, RetryLeft
        <4> QED
          BY <1>3, <1>8, <2>1, <2>2, <2>6, <4>1, <4>2 DEF Releases
      <3>3. Within(led, gen, MaxAttempts + f)
        <4>1. /\ MaxAttempts - 1 \in Int /\ MaxAttempts + f \in Int
              /\ MaxAttempts - 1 <= MaxAttempts + f
          BY <2>2
        <4> QED
          BY <3>2, <4>1, WithinMore
      <3>4. /\ Within(effect'[t], transition'[t].gen, MaxAttempts - 1)
            /\ Within(effect'[t], transition'[t].gen, MaxAttempts + faults')
        BY <1>2, <1>4, <2>2, <3>1, <3>2, <3>3
      <3> QED
        BY <3>1, <3>4 DEF Spent
    <2>7. CASE Withdraws(r)
      <3>1. transition'[t].state = "quarantined" /\ UNCHANGED effect
        BY <2>4, <2>7 DEF Withdraws
      <3>2. Within(effect'[t], transition'[t].gen, MaxAttempts + faults')
        BY <1>2, <1>4, <2>2, <2>3, <3>1
      <3> QED
        BY <3>1, <3>2 DEF Spent
    <2>8. CASE Completes(r) \/ Reject(r)
      <3>1. transition'[t].state \in {"completed", "rejected"}
        BY <2>4, <2>8 DEF Completes, Reject
      <3> QED
        BY <3>1 DEF Spent, LiveStates
    <2>9. CASE Begins(r) \/ Proves(r)
      <3>1. PICK e \in NonFinal : e = runner[r].eff
        BY <1>1, <2>9 DEF Begins, Proves, TypeInv, RunnerBound
      <3>2. PICK st \in Done : SetEffect(t, e, st, gen) /\ (st = "applying" => Begins(r))
        BY <1>3, <1>8, <2>1, <2>2, <2>9, <3>1 DEF Begins, Proves, Done
      <3>3. PICK new \in [Effects -> EffectRow] :
                /\ new = effect'[t]
                /\ new[e] = [state |-> st, gen |-> gen]
                /\ \A g \in Effects \ {e} : new[g] = led[g]
        <4>1. effect'[t] = [led EXCEPT ![e] = [state |-> st, gen |-> gen]]
          BY <1>1, <2>2, <3>2 DEF SetEffect, TypeInv, TypeOK
        <4>2. effect'[t] \in [Effects -> EffectRow]
          BY DEF TypeInv, TypeOK
        <4> QED
          BY <4>1, <4>2, Ordinals
      <3>4. transition'[t].state = "applying" /\ transition'[t].gen = gen /\ faults' = f
        BY <1>2, <1>4, <2>1, <2>2, <2>9 DEF Begins, Proves
      <3>5. CASE st = "applying"
        <4>1. led[e].state # "applied" /\ new[e].state = "applying"
          <5>1. CanBegin(t, e, runner[r].gen)
            BY <1>3, <1>8, <3>1, <3>2, <3>5 DEF Begins
          <5>2. effect[t][e].state # "applied"
            BY <5>1 DEF CanBegin
          <5> QED
            BY <2>2, <3>3, <3>5, <5>2
        <4>2. Within(new, gen, MaxAttempts + f)
          BY <2>2, <2>3, <3>3, <4>1, WithinBegun
        <4>3. ~Served(t) => Within(new, gen, MaxAttempts + f - 1)
          BY <2>2, <2>3, <3>3, <4>1, WithinBegun
        <4>4. /\ Within(effect'[t], transition'[t].gen, MaxAttempts + faults')
              /\ ~Served(t)' => Within(effect'[t], transition'[t].gen, MaxAttempts + faults' - 1)
          BY <1>5, <3>3, <3>4, <4>2, <4>3
        <4> QED
          BY <3>4, <4>4 DEF Spent
      <3>6. CASE st = "applied"
        <4>1. \A a, b \in Effects : a < b /\ new[b].state \in Done =>
                  new[a].state = "applied" /\ new[a].gen < new[b].gen
          BY <3>3 DEF OrderedLedger, Done
        <4>2. Within(new, gen, 0)
          BY <3>3, <3>6, <4>1, WithinFresh
        <4>3. Within(new, gen, MaxAttempts + f) /\ Within(new, gen, MaxAttempts + f - 1)
          BY <2>2, <4>2, WithinMore
        <4>4. /\ Within(effect'[t], transition'[t].gen, MaxAttempts + faults')
              /\ Within(effect'[t], transition'[t].gen, MaxAttempts + faults' - 1)
          BY <3>3, <3>4, <4>3
        <4> QED
          BY <3>4, <4>4 DEF Spent
      <3> QED
        BY <3>5, <3>6 DEF Done
    <2> QED
      BY <1>2, <1>8, <2>5, <2>6, <2>7, <2>8, <2>9
  <1> QED
    BY <1>6, <1>7, <1>8

\* A claim uses the attempt that was left.
LEMMA SpentClaim ==
    ASSUME FenceInv, SpentInv, NEW r \in Runners, NEW u \in Transitions, Claim(r, u),
           NEW t \in Transitions
    PROVE  Spent(t)'
  <1>1. TypeInv /\ RowsInv
    BY DEF FenceInv, OutboxInv, LedgerInv
  <1>2. /\ runner'[r].pc = "loop" /\ runner'[r].t = u
        /\ runner'[r].gen = NextGeneration(u)
        /\ transition'[u].gen = NextGeneration(u)
        /\ transition'[u].state = "applying"
        /\ transition'[u].lease = LeaseSeconds
        /\ \A v \in Transitions \ {u} : transition'[v] = transition[v]
        /\ \A q \in Runners \ {r} : runner'[q] = runner[q]
        /\ UNCHANGED <<effect, faults>>
        /\ runner[r].pc = "idle"
        /\ Claimable(u)
    <2>1. UNCHANGED <<effect, faults>> /\ runner[r].pc = "idle" /\ Claimable(u)
      BY DEF Claim
    <2> QED
      BY <1>1, <2>1, ClaimMoves
  <1>3. CASE t # u
    <2>1. Served(t) => Served(t)'
      BY <1>2, <1>3 DEF Served, Attended
    <2> QED
      BY <1>2, <1>3, <2>1, SpentSame
  <1>4. CASE t = u
    <2>1. PICK led \in [Effects -> EffectRow], gen \in Nat, f \in Nat :
              /\ led = effect[t] /\ gen = transition[t].gen /\ f = faults
              /\ MaxAttempts \in Nat /\ MaxAttempts >= 1
      BY <1>1, SpentTypes
    <2>2. Served(t)'
      <3>1. LeaseSeconds > 0
        BY ConstantsAssumption DEF ConstantsAssumption
      <3> QED
        BY <1>2, <1>4, <3>1 DEF Served, Attended
    <2>3. Within(led, gen, MaxAttempts + f - 1)
      <3>1. CASE transition[t].state = "ready"
        <4>1. Within(led, gen, MaxAttempts - 1)
          BY <2>1, <3>1 DEF SpentInv, Spent
        <4>2. /\ MaxAttempts - 1 \in Int /\ MaxAttempts + f - 1 \in Int
              /\ MaxAttempts - 1 <= MaxAttempts + f - 1
          BY <2>1
        <4> QED
          BY <4>1, <4>2, WithinMore
      <3>2. CASE transition[t].state = "applying" /\ transition[t].lease = 0
        BY <2>1, <3>2 DEF SpentInv, Spent, Served
      <3> QED
        BY <1>2, <1>4, <3>1, <3>2 DEF Claimable
    <2>4. PICK n \in Int : n = MaxAttempts + f
      BY <2>1
    <2>5. Within(led, gen + 1, n)
      <3>1. n - 1 = MaxAttempts + f - 1 /\ MaxAttempts + f - 1 \in Int
        BY <2>1, <2>4
      <3>2. PICK m \in Int : m = MaxAttempts + f - 1 /\ m = n - 1
        BY <3>1
      <3>3. Within(led, gen, m)
        BY <2>3, <3>2, Zenon
      <3>4. Within(led, gen, n - 1)
        BY <3>2, <3>3, Zenon
      <3> QED
        BY <2>4, <3>4, WithinClaim
    <2>6. Within(effect'[t], transition'[t].gen, MaxAttempts + faults')
      BY <1>2, <1>4, <2>1, <2>4, <2>5 DEF NextGeneration
    <2> QED
      BY <1>2, <1>4, <2>2, <2>6 DEF Spent
  <1> QED
    BY <1>3, <1>4

\* A fault pays for the claim that will follow it.
LEMMA SpentFault ==
    ASSUME FenceInv, SpentInv, NEW t \in Transitions, faults' = faults + 1,
           transition'[t].state = transition[t].state,
           transition'[t].gen = transition[t].gen, effect'[t] = effect[t]
    PROVE  Spent(t)'
  <1>1. TypeInv
    BY DEF FenceInv, OutboxInv, LedgerInv
  <1>2. PICK led \in [Effects -> EffectRow], gen \in Nat, f \in Nat :
            /\ led = effect[t] /\ gen = transition[t].gen /\ f = faults
            /\ MaxAttempts \in Nat /\ MaxAttempts >= 1
    BY <1>1, SpentTypes
  <1>3. /\ transition[t].state = "ready" => Within(led, gen, MaxAttempts - 1)
        /\ transition[t].state \in LiveStates => Within(led, gen, MaxAttempts + f)
    BY <1>2 DEF SpentInv, Spent
  <1>4. /\ MaxAttempts + f \in Int /\ MaxAttempts + (f + 1) \in Int
        /\ MaxAttempts + (f + 1) - 1 \in Int
        /\ MaxAttempts + f <= MaxAttempts + (f + 1)
        /\ MaxAttempts + f <= MaxAttempts + (f + 1) - 1
    BY <1>2
  <1>5. transition[t].state \in LiveStates =>
            /\ Within(led, gen, MaxAttempts + (f + 1))
            /\ Within(led, gen, MaxAttempts + (f + 1) - 1)
    BY <1>3, <1>4, WithinMore
  <1>6. /\ transition'[t].state = "ready" =>
               Within(effect'[t], transition'[t].gen, MaxAttempts - 1)
        /\ transition'[t].state \in LiveStates =>
               /\ Within(effect'[t], transition'[t].gen, MaxAttempts + faults')
               /\ Within(effect'[t], transition'[t].gen, MaxAttempts + faults' - 1)
    BY <1>2, <1>3, <1>5
  <1> QED
    BY <1>6 DEF Spent, LiveStates

\* Time takes a lease from a runner at work only as a fault.
LEMMA SpentTick ==
    ASSUME FenceInv, SpentInv, Tick, NEW t \in Transitions
    PROVE  Spent(t)'
  <1>1. TypeInv
    BY DEF FenceInv, OutboxInv, LedgerInv
  <1>2. PICK lease : lease = CountDown(transition[t].lease)
    OBVIOUS
  <1>3. /\ transition'[t].state = transition[t].state
        /\ transition'[t].gen = transition[t].gen
        /\ transition'[t].lease = lease
        /\ UNCHANGED <<effect, runner>>
    <2>1. transition'[t] = [transition[t] EXCEPT !.lease = lease,
                                                 !.wait = CountDown(transition[t].wait)]
      BY <1>2 DEF Tick
    <2>2. transition[t] \in TransitionRow
      BY <1>1 DEF TypeInv, TypeOK
    <2> QED
      BY <2>1, <2>2 DEF TransitionRow, Tick
  <1>4. CASE LeaseLate
    BY <1>3, <1>4, SpentFault DEF Tick
  <1>5. CASE ~LeaseLate
    <2>1. Served(t) => Served(t)'
      <3>1. SUFFICES ASSUME Served(t) PROVE Served(t)'
        OBVIOUS
      <3>2. transition[t].lease # 1 /\ transition[t].lease \in Nat /\ transition[t].lease > 0
        BY <1>1, <1>5, <3>1 DEF LeaseLate, Served, TypeInv, TypeOK, TransitionRow
      <3>3. lease > 0
        BY <1>2, <3>2 DEF CountDown
      <3>4. Attended(t)'
        BY <1>3, <3>1 DEF Served, Attended
      <3> QED
        BY <1>3, <3>3, <3>4 DEF Served
    <2> QED
      BY <1>3, <1>5, <2>1, SpentSame DEF Tick
  <1> QED
    BY <1>4, <1>5

\* A transition is staged with all its attempts.
LEMMA SpentStage ==
    ASSUME FenceInv, SpentInv, NEW u \in Transitions, Stage(u), NEW t \in Transitions
    PROVE  Spent(t)'
  <1>1. TypeInv /\ RowsInv
    BY DEF FenceInv, OutboxInv, LedgerInv
  <1>2. /\ transition[u].state = "absent"
        /\ transition' = [transition EXCEPT ![u] =
               [transition[u] EXCEPT !.state = "ready", !.expected = binding.revision]]
        /\ UNCHANGED <<effect, runner, faults>>
    BY DEF Stage
  <1>3. CASE t # u
    <2>1. transition'[t] = transition[t]
      BY <1>1, <1>2, <1>3 DEF TypeInv, TypeOK
    <2>2. Served(t) => Served(t)'
      BY <1>2, <2>1 DEF Served, Attended
    <2> QED
      BY <1>2, <2>1, <2>2, SpentSame
  <1>4. CASE t = u
    <2>1. PICK led \in [Effects -> EffectRow], f \in Nat :
              /\ led = effect[t] /\ f = faults
              /\ MaxAttempts \in Nat /\ MaxAttempts >= 1
      BY <1>1, SpentTypes
    <2>2. transition[t].gen = 0
      BY <1>1, <1>2, <1>4 DEF RowsInv, HeaderOK
    <2>3. transition'[t].state = "ready" /\ transition'[t].gen = 0
      BY <1>1, <1>2, <1>4, <2>2 DEF TypeInv, TypeOK, TransitionRow
    <2>4. Within(led, 0, MaxAttempts - 1) /\ Within(led, 0, MaxAttempts + f)
      BY <2>1, BeforeType DEF Within
    <2>5. /\ Within(effect'[t], transition'[t].gen, MaxAttempts - 1)
          /\ Within(effect'[t], transition'[t].gen, MaxAttempts + faults')
      BY <1>2, <2>1, <2>3, <2>4
    <2> QED
      BY <2>3, <2>5 DEF Spent
  <1> QED
    BY <1>3, <1>4

LEMMA SpentNext ==
    ASSUME FenceInv, FenceInv', SpentInv, [Next]_vars
    PROVE  SpentInv'
  <1> SUFFICES ASSUME NEW t \in Transitions PROVE Spent(t)'
    BY DEF SpentInv
  <1>1. TypeInv /\ TypeInv' /\ OrderedLedger'
    BY DEF FenceInv, OutboxInv, LedgerInv
  <1>2. CASE \E r \in Runners : Step(r)
    BY <1>1, <1>2, SpentStep
  <1>3. CASE \E r \in Runners : \E u \in Transitions : Claim(r, u)
    BY <1>3, SpentClaim
  <1>4. CASE \E r \in Runners : Crash(r)
    <2>1. faults' = faults + 1 /\ UNCHANGED <<transition, effect>>
      BY <1>4 DEF Crash, Rows
    <2> QED
      BY <2>1, SpentFault
  <1>5. CASE Tick
    BY <1>5, SpentTick
  <1>6. CASE \E u \in Transitions : Stage(u)
    BY <1>6, SpentStage
  <1>7. CASE RuntimeAdvances \/ RecordStatus \/ (\E c \in Commands : StageReceipt(c))
             \/ UNCHANGED vars
    <2>1. UNCHANGED <<transition, effect, runner, faults>>
      BY <1>7 DEF RuntimeAdvances, RecordStatus, StageReceipt, vars, Rows
    <2>2. Served(t) => Served(t)'
      BY <2>1 DEF Served, Attended
    <2> QED
      BY <2>1, <2>2, SpentSame
  <1> QED
    BY <1>2, <1>3, <1>4, <1>5, <1>6, <1>7 DEF Next

LEMMA SpentInvariant == Spec => [](FenceInv /\ SpentInv)
  <1>1. Init => FenceInv /\ SpentInv
    <2> SUFFICES ASSUME Init PROVE FenceInv /\ SpentInv
      OBVIOUS
    <2>1. FenceInv
      BY FenceInit
    <2>2. \A t \in Transitions : transition[t].state = "absent"
      BY DEF Init
    <2>3. SpentInv
      BY <2>2 DEF SpentInv, Spent, LiveStates
    <2> QED
      BY <2>1, <2>3
  <1>2. FenceInv /\ SpentInv /\ [Next]_vars => FenceInv' /\ SpentInv'
    BY FenceNext, SpentNext
  <1> QED
    BY <1>1, <1>2, PTL DEF Spec

\* A stage is claimed at most MaxAttempts times, plus once for every crash and
\* every lease lost by a runner at work (ClaimsWithinBudget: next_retry).
THEOREM ClaimsStayWithinBudget == Spec => []ClaimsWithinBudget
  <1>1. FenceInv /\ SpentInv => ClaimsWithinBudget
    <2> SUFFICES ASSUME SpentInv, NEW t \in Transitions, NEW e \in Effects,
                        transition[t].state \in LiveStates, IsCurrentStage(t, e)
                 PROVE  StageAttempt(t, e) <= MaxAttempts + faults
      BY DEF ClaimsWithinBudget
    <2>1. Within(effect[t], transition[t].gen, MaxAttempts + faults)
      BY DEF SpentInv, Spent
    <2> QED
      BY <2>1, StageOperators DEF Within
  <1> QED
    BY <1>1, SpentInvariant, PTL
=============================================================================
