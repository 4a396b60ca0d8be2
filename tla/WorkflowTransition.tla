------------------------- MODULE WorkflowTransition -------------------------
(***************************************************************************)
(* The durable workflow transition of the Hub: the transition outbox, its  *)
(* leases and effect ledger (SQLAlchemyWorkflowTransitionStore), the       *)
(* runner that drives a claimed transition, and the queue reservation      *)
(* authority in which an effect really happens.                            *)
(*                                                                         *)
(* One workflow binding is modelled, because every transition of a         *)
(* workflow competes for the marker of that one row.  A store operation is *)
(* one database transaction and so one step; everything a runner does      *)
(* between two transactions may be interleaved, delayed past its lease, or *)
(* cut short by a crash.                                                   *)
(*                                                                         *)
(* Clock readings are kept as the time that is left: claim_expires_at is   *)
(* `lease' (claim_expires_at <= now is lease = 0) and available_at is      *)
(* `wait' (available_at <= now is wait = 0).  attempt_count is not kept    *)
(* apart from claim_generation: every operation writes both together.  The *)
(* effects before binding_finalize are queue reservations.                 *)
(*                                                                         *)
(* A definition Op_Fault is Op with one fault in it; no specification uses *)
(* it.  It shows that a property is sensitive to that fault.               *)
(***************************************************************************)
EXTENDS Integers

CONSTANTS
    Runners,        \* threads of control running WorkflowTransitionRunner
    Owners,         \* values of owner_id
    OwnerOf,        \* the owner_id of each runner; two may share one
    Transitions,    \* transitions that may be staged on the binding
    Commands,       \* those that carry a command receipt
    LastEffect,     \* ordinal of the last effect before binding_finalize
    MaxAttempts,    \* maximum_attempts of the retry policy
    LeaseSeconds,   \* ticks of a claim lease
    MaxDelay,       \* longest retry delay, in ticks
    MaxRevision,    \* bound: highest revision the runtime reports
    MaxFaults,      \* bound: crashes and leases lost by a live runner
    None            \* the empty identifier

ASSUME ConstantsAssumption ==
    /\ OwnerOf \in [Runners -> Owners]
    /\ Commands \subseteq Transitions
    /\ None \notin Transitions
    /\ None \notin Owners
    /\ LastEffect \in Nat
    /\ MaxAttempts \in Nat \ {0}
    /\ LeaseSeconds \in Nat \ {0}
    /\ MaxDelay \in Nat \ {0}
    /\ MaxRevision \in Nat
    /\ MaxFaults \in Nat

VARIABLES
    transition, \* rows of workflow_transition_outbox
    effect,     \* rows of workflow_transition_effect, by ordinal
    receipt,    \* rows of workflow_control_command_receipt, by command
    binding,    \* the workflow_control_binding row, its runtime_revision
                \* and its two markers
    slot,       \* claim generation that created each reservation, or 0
    status,     \* revision the runtime itself reports
    runner,     \* control state of each runner
    faults      \* crashes and lost leases so far

vars == <<transition, effect, receipt, binding, slot, status, runner, faults>>

Final == LastEffect + 1
Effects == 1..Final
NonFinal == 1..LastEffect

TransitionStates ==
    {"absent", "ready", "applying", "completed", "quarantined", "rejected"}
EffectStates == {"planned", "applying", "applied", "rejected"}
ReceiptStates == {"absent", "pending", "dispatching", "completed", "rejected"}
LiveStates == {"ready", "applying", "quarantined"}
Reasons == {"none", "effect_observation_failed", "adapter_quarantine",
            "effect_adoption_proof_invalid", "retry_attempts_exhausted",
            "effect_execution_uncertain", "effect_result_invalid",
            "binding_state_drift", "finalization_observation_failed",
            "finalization_proof_invalid", "unavailable", "rejected"}
\* Program points of a runner, each just before one transaction or call.
Phases == {"idle", "loop", "observe", "observed", "begin", "begun", "execute",
           "insert", "finish", "finished", "yield", "retry",
           "finalize_observe", "finalize_observed", "finalize", "quarantine"}
Observations == {"none", "already_applied", "executable", "retry",
                 "quarantine", "observed"}

----------------------------------------------------------------------------
(* Guards of the store.                                                    *)

ReceiptOf(t) == IF t \in Commands THEN t ELSE None

Claimable_NoReclaim(t) ==
    transition[t].wait = 0 /\ transition[t].state = "ready"

Claimable_Quarantined(t) ==
    /\ transition[t].wait = 0
    /\ \/ transition[t].state = "ready"
       \/ transition[t].state \in {"applying", "quarantined"}
          /\ transition[t].lease = 0

\* _row_claimable
Claimable(t) ==
    /\ transition[t].wait = 0
    /\ \/ transition[t].state = "ready"
       \/ transition[t].state = "applying" /\ transition[t].lease = 0

NextGeneration_Reused(t) ==
    IF transition[t].state = "ready" THEN transition[t].gen + 1
                                     ELSE transition[t].gen

NextGeneration_Restarted(t) ==
    IF transition[t].state = "ready" THEN 1 ELSE transition[t].gen + 1

\* Every claim gets a claim_generation of its own.
NextGeneration(t) == transition[t].gen + 1

Owned_OwnerOnly(r) ==
    /\ transition[runner[r].t].state = "applying"
    /\ transition[runner[r].t].owner = OwnerOf[r]
    /\ transition[runner[r].t].lease > 0

\* _assert_sql_owned
Owned(r) ==
    LET row == transition[runner[r].t]
    IN  /\ row.state = "applying"
        /\ row.owner = OwnerOf[r]
        /\ row.gen = runner[r].gen
        /\ row.lease > 0

\* The receipt state that goes with each transition state.
ReceiptStateOf(st) ==
    CASE st \in {"ready", "quarantined"} -> "pending"
      [] st = "applying"                 -> "dispatching"
      [] OTHER                           -> st

\* _assert_receipt_lease_mirror
Mirrored(t) ==
    t \in Commands =>
        /\ receipt[t].linked
        /\ receipt[t].state = ReceiptStateOf(transition[t].state)
        /\ receipt[t].owner = transition[t].owner
        /\ receipt[t].gen = transition[t].gen
        /\ receipt[t].lease = transition[t].lease

\* _assert_binding_quarantine_state
BindingHeld(t) ==
    /\ binding.active = t
    /\ binding.receipt = ReceiptOf(t)

\* _assert_binding_execution_state
BindingExecutable(t) ==
    /\ BindingHeld(t)
    /\ binding.revision = transition[t].expected

\* _assert_sql_binding_for_stage
BindingStageable(t) ==
    /\ binding.active = None
    /\ binding.receipt = ReceiptOf(t)

\* _assert_sql_receipt_for_stage
ReceiptStageable(t) ==
    t \in Commands => /\ receipt[t].state = "pending"
                      /\ ~receipt[t].linked
                      /\ receipt[t].owner = None
                      /\ receipt[t].lease = 0
                      /\ receipt[t].gen = 0
                      /\ receipt[t].expected = binding.revision

\* Generation in which the stage before ordinal e was applied.
PreviousGeneration(t, e) == IF e = 1 THEN 0 ELSE effect[t][e - 1].gen

\* _stage_attempt_count: claims spent so far on the stage of ordinal e.
StageAttempt(t, e) == transition[t].gen - PreviousGeneration(t, e)

\* _first_nonfinal_effect, or binding_finalize when all others are applied.
IsCurrentStage(t, e) ==
    /\ e # Final => effect[t][e].state # "applied"
    /\ \A f \in 1..(e - 1) : effect[t][f].state = "applied"

AuthorizeAttempt_OffByOne(n) == n <= MaxAttempts + 1

\* authorize_attempt of the retry policy.
AuthorizeAttempt(n) == n <= MaxAttempts

RetryLeft_OffByOne(n) == n <= MaxAttempts

\* next_retry of the retry policy: RetryAt rather than RetryExhausted.
RetryLeft(n) == n < MaxAttempts

\* The part of every fenced operation that concerns the lease: it reads the
\* rows under lock and fails unless this claim is still the current one.
LeaseHeld(r) == Owned(r) /\ Mirrored(runner[r].t)

----------------------------------------------------------------------------
(* Writes shared by the store operations.                                  *)

SetTransition(t, st, owner, gen, lease, wait, error) ==
    transition' = [transition EXCEPT ![t] =
        [state |-> st, owner |-> owner, gen |-> gen, lease |-> lease,
         wait |-> wait, expected |-> transition[t].expected, error |-> error]]

SetReceipt(t, st, owner, gen, lease) ==
    receipt' = IF t \in Commands
               THEN [receipt EXCEPT ![t] =
                        [state |-> st, linked |-> TRUE, owner |-> owner,
                         gen |-> gen, lease |-> lease,
                         expected |-> receipt[t].expected]]
               ELSE receipt

SetEffect(t, e, st, gen) ==
    effect' = [effect EXCEPT ![t] =
                  [effect[t] EXCEPT ![e] = [state |-> st, gen |-> gen]]]

EndClaim_KeepsOwner(r, st, wait, error) ==
    /\ SetTransition(runner[r].t, st, OwnerOf[r], runner[r].gen, 0, wait, error)
    /\ SetReceipt(runner[r].t, ReceiptStateOf(st), OwnerOf[r], runner[r].gen, 0)

EndClaim_Untranslated(r, st, wait, error) ==
    /\ SetTransition(runner[r].t, st, None, runner[r].gen, 0, wait, error)
    /\ SetReceipt(runner[r].t, st, None, runner[r].gen, 0)

\* The claim ends: state st with no owner and no lease, and the receipt with it.
EndClaim(r, st, wait, error) ==
    LET t == runner[r].t
    IN  /\ SetTransition(t, st, None, runner[r].gen, 0, wait, error)
        /\ SetReceipt(t, ReceiptStateOf(st), None, runner[r].gen, 0)

Renew_TransitionOnly(r) ==
    /\ SetTransition(runner[r].t, "applying", OwnerOf[r], runner[r].gen,
                     LeaseSeconds, transition[runner[r].t].wait,
                     transition[runner[r].t].error)
    /\ UNCHANGED receipt

\* heartbeat: extend the lease of transition and receipt in one transaction.
Renew(r) ==
    LET t == runner[r].t
    IN  /\ SetTransition(t, "applying", OwnerOf[r], runner[r].gen,
                         LeaseSeconds, transition[t].wait, transition[t].error)
        /\ SetReceipt(t, "dispatching", OwnerOf[r], runner[r].gen, LeaseSeconds)

Goto(r, pc) ==
    runner' = [runner EXCEPT ![r] = [runner[r] EXCEPT !.pc = pc]]

\* A runner that knows no more than its claim, and why it stopped working.
Working(pc, t, gen, attempt, reason) ==
    [pc |-> pc, t |-> t, gen |-> gen, eff |-> 0, seen |-> "none",
     attempt |-> attempt, rev |-> 0, reason |-> reason]

Idle == Working("idle", None, 0, 0, "none")

GoRetry(r) ==
    runner' = [runner EXCEPT ![r] = Working("retry", runner[r].t,
                  runner[r].gen, runner[r].attempt, "none")]

GoQuarantine(r, reason) ==
    runner' = [runner EXCEPT ![r] = Working("quarantine", runner[r].t,
                  runner[r].gen, 0, reason)]

Stop(r) == runner' = [runner EXCEPT ![r] = Idle]

Rows == <<transition, effect, receipt, binding>>

----------------------------------------------------------------------------
(* The environment: the runtime, the status recorder and the stagers.      *)

\* The runtime reaches a new revision by itself.
RuntimeAdvances ==
    /\ status < MaxRevision
    /\ status' = status + 1
    /\ UNCHANGED <<Rows, slot, runner, faults>>

RecordStatus_IgnoresMarker ==
    /\ binding.receipt = None
    /\ status > binding.revision
    /\ binding' = [binding EXCEPT !.revision = status]
    /\ UNCHANGED <<transition, effect, receipt, slot, status, runner, faults>>

\* record_status: adopt the runtime's revision into an unclaimed binding.
RecordStatus ==
    /\ binding.receipt = None
    /\ binding.active = None
    /\ status > binding.revision
    /\ binding' = [binding EXCEPT !.revision = status]
    /\ UNCHANGED <<transition, effect, receipt, slot, status, runner, faults>>

\* Receipt store stage: admit a command and mark the binding with it.
StageReceipt(c) ==
    /\ receipt[c].state = "absent"
    /\ binding.receipt = None
    /\ binding.active = None
    /\ receipt' = [receipt EXCEPT ![c] =
                      [receipt[c] EXCEPT !.state = "pending",
                                         !.expected = binding.revision]]
    /\ binding' = [binding EXCEPT !.receipt = c]
    /\ UNCHANGED <<transition, effect, slot, status, runner, faults>>

\* Transition store stage: header, effects, binding marker, receipt link.
Stage(t) ==
    /\ transition[t].state = "absent"
    /\ BindingStageable(t)
    /\ ReceiptStageable(t)
    /\ transition' = [transition EXCEPT ![t] =
                         [transition[t] EXCEPT !.state = "ready",
                                               !.expected = binding.revision]]
    /\ SetReceipt(t, "pending", None, 0, 0)
    /\ binding' = [binding EXCEPT !.active = t]
    /\ UNCHANGED <<effect, slot, status, runner, faults>>

----------------------------------------------------------------------------
(* The runner.  Each action is one transaction or one external call.       *)

\* run / drain: claim, or reclaim after the lease has run out.
Claim(r, t) ==
    /\ runner[r].pc = "idle"
    /\ Claimable(t)
    /\ Mirrored(t)
    /\ SetTransition(t, "applying", OwnerOf[r], NextGeneration(t),
                     LeaseSeconds, 0, transition[t].error)
    /\ SetReceipt(t, "dispatching", OwnerOf[r], NextGeneration(t),
                  LeaseSeconds)
    /\ runner' = [runner EXCEPT ![r] =
                     Working("loop", t, NextGeneration(t), 0, "none")]
    /\ UNCHANGED <<effect, binding, slot, status, faults>>

\* _run_claimed: heartbeat, then take up the first stage that is not applied.
Loop(r) ==
    /\ runner[r].pc = "loop"
    /\ \/ /\ LeaseHeld(r)
          /\ Renew(r)
          /\ \E e \in Effects :
                /\ IsCurrentStage(runner[r].t, e)
                /\ runner' = [runner EXCEPT ![r] =
                      [runner[r] EXCEPT
                          !.pc = IF e = Final THEN "finalize_observe"
                                              ELSE "observe",
                          !.eff = e,
                          !.attempt = StageAttempt(runner[r].t, e)]]
       \/ /\ ~LeaseHeld(r)
          /\ Stop(r)
          /\ UNCHANGED <<transition, receipt>>
    /\ UNCHANGED <<effect, binding, slot, status, faults>>

\* observe_or_adopt: read the reservation; the read may be unavailable.
Observe(r) ==
    /\ runner[r].pc = "observe"
    /\ \E seen \in {"already_applied", "executable", "retry", "quarantine"} :
          /\ seen = "already_applied" => slot[runner[r].t][runner[r].eff] # 0
          /\ seen = "executable" => slot[runner[r].t][runner[r].eff] = 0
          /\ runner' = [runner EXCEPT ![r] =
                [runner[r] EXCEPT !.pc = "observed", !.seen = seen]]
    /\ UNCHANGED <<Rows, slot, status, faults>>

\* Heartbeat after the observation, and the decision taken on its result.
Observed(r) ==
    /\ runner[r].pc = "observed"
    /\ \/ /\ LeaseHeld(r)
          /\ Renew(r)
          /\ \/ runner[r].seen = "retry" /\ GoRetry(r)
             \/ /\ runner[r].seen = "quarantine"
                /\ GoQuarantine(r, "adapter_quarantine")
             \/ runner[r].seen = "already_applied" /\ Goto(r, "begin")
             \/ /\ runner[r].seen = "executable"
                /\ AuthorizeAttempt(runner[r].attempt)
                /\ Goto(r, "begin")
             \/ /\ runner[r].seen = "executable"
                /\ ~AuthorizeAttempt(runner[r].attempt)
                /\ GoQuarantine(r, "retry_attempts_exhausted")
       \/ /\ ~LeaseHeld(r)
          /\ GoQuarantine(r, "effect_observation_failed")
          /\ UNCHANGED <<transition, receipt>>
    /\ UNCHANGED <<effect, binding, slot, status, faults>>

\* The order checks of begin_effect.
CanBegin(t, e, gen) ==
    /\ \A f \in NonFinal : f > e => effect[t][f].state = "planned"
    /\ \A f \in NonFinal \ {e} :
          effect[t][f].state \in {"applying", "applied"} =>
              effect[t][f].gen # gen
    /\ \A f \in 1..(e - 1) : effect[t][f].state = "applied"
    /\ \/ effect[t][e].state = "planned"
       \/ effect[t][e].state = "applying" /\ effect[t][e].gen < gen

\* begin_effect: record the intent under this claim, before anything is done.
\* (Its idempotent answer for an applied effect needs a claim that is current
\* and a stage that is not: SnapshotStillCurrent.)
BeginEffect(r) ==
    LET t == runner[r].t
        e == runner[r].eff
    IN  /\ runner[r].pc = "begin"
        /\ \/ /\ LeaseHeld(r)
              /\ BindingExecutable(t)
              /\ CanBegin(t, e, runner[r].gen)
              /\ SetEffect(t, e, "applying", runner[r].gen)
              /\ Goto(r, IF runner[r].seen = "already_applied" THEN "finish"
                                                              ELSE "begun")
           \/ /\ ~(/\ LeaseHeld(r)
                   /\ BindingExecutable(t)
                   /\ CanBegin(t, e, runner[r].gen))
              /\ GoQuarantine(r, IF runner[r].seen = "already_applied"
                                 THEN "effect_adoption_proof_invalid"
                                 ELSE "effect_execution_uncertain")
              /\ UNCHANGED effect
        /\ UNCHANGED <<transition, receipt, binding, slot, status, faults>>

\* Heartbeat between begin_effect and execute.
Begun(r) ==
    /\ runner[r].pc = "begun"
    /\ \/ LeaseHeld(r) /\ Renew(r) /\ Goto(r, "execute")
       \/ /\ ~LeaseHeld(r)
          /\ GoQuarantine(r, "effect_execution_uncertain")
          /\ UNCHANGED <<transition, receipt>>
    /\ UNCHANGED <<effect, binding, slot, status, faults>>

Execute_AssumesReserved(r) ==
    /\ runner[r].pc = "execute"
    /\ \/ Goto(r, "finish")
       \/ slot[runner[r].t][runner[r].eff] = 0 /\ Goto(r, "insert")
    /\ UNCHANGED <<Rows, slot, status, faults>>

\* reserve_transition_queue_slot, first transaction: is there a receipt yet?
\* No lease is checked from here to the insert.
Execute(r) ==
    /\ runner[r].pc = "execute"
    /\ \/ slot[runner[r].t][runner[r].eff] # 0 /\ Goto(r, "finish")
       \/ slot[runner[r].t][runner[r].eff] = 0 /\ Goto(r, "insert")
       \/ GoRetry(r)
    /\ UNCHANGED <<Rows, slot, status, faults>>

\* Second transaction: insert under the unique effect and fence, or adopt the
\* row of the writer that won.  The outcome of the commit may stay unknown.
Insert(r) ==
    LET t == runner[r].t
        e == runner[r].eff
    IN  /\ runner[r].pc = "insert"
        /\ \/ /\ slot' = IF slot[t][e] # 0 THEN slot
                         ELSE [slot EXCEPT ![t] =
                                  [slot[t] EXCEPT ![e] = runner[r].gen]]
              /\ \/ Goto(r, "finish")
                 \/ GoRetry(r)
                 \/ GoQuarantine(r, "adapter_quarantine")
           \/ /\ UNCHANGED slot
              /\ \/ GoRetry(r)
                 \/ GoQuarantine(r, "adapter_quarantine")
        /\ UNCHANGED <<Rows, status, faults>>

\* _assert_effect_stage_attempt, and the check that this claim began the effect.
CanFinish(t, e, gen, attempt) ==
    /\ effect[t][e] = [state |-> "applying", gen |-> gen]
    /\ attempt = StageAttempt(t, e)

\* finish_effect: the result is recorded only by the claim that began it.
FinishEffect(r) ==
    LET t == runner[r].t
        e == runner[r].eff
        current == /\ LeaseHeld(r)
                   /\ CanFinish(t, e, runner[r].gen, runner[r].attempt)
    IN  /\ runner[r].pc = "finish"
        /\ \/ /\ current
              /\ SetEffect(t, e, "applied", runner[r].gen)
              /\ Goto(r, "finished")
           \/ /\ ~current
              /\ GoQuarantine(r, IF runner[r].seen = "already_applied"
                                 THEN "effect_adoption_proof_invalid"
                                 ELSE "effect_result_invalid")
              /\ UNCHANGED effect
        /\ UNCHANGED <<transition, receipt, binding, slot, status, faults>>

\* Heartbeat after finish_effect.
Finished(r) ==
    /\ runner[r].pc = "finished"
    /\ \/ LeaseHeld(r) /\ Renew(r) /\ Goto(r, "yield")
       \/ /\ ~LeaseHeld(r)
          /\ GoQuarantine(r, IF runner[r].seen = "already_applied"
                             THEN "effect_adoption_proof_invalid"
                             ELSE "effect_result_invalid")
          /\ UNCHANGED <<transition, receipt>>
    /\ UNCHANGED <<effect, binding, slot, status, faults>>

\* _assert_yield_effect: this claim has applied this effect and no other.
CanYield(t, eff, gen) ==
    \A e \in Effects :
        (e = eff) <=> (effect[t][e] = [state |-> "applied", gen |-> gen])

\* yield_ready: give the transition back after exactly one effect.
YieldReady(r) ==
    LET t == runner[r].t
        current == /\ LeaseHeld(r)
                   /\ BindingExecutable(t)
                   /\ CanYield(t, runner[r].eff, runner[r].gen)
    IN  /\ runner[r].pc = "yield"
        /\ \/ current /\ EndClaim(r, "ready", 0, "none") /\ Stop(r)
           \/ /\ ~current
              /\ GoQuarantine(r, "binding_state_drift")
              /\ UNCHANGED <<transition, receipt>>
        /\ UNCHANGED <<effect, binding, slot, status, faults>>

\* _retry_or_quarantine and release.
Retry(r) ==
    LET t == runner[r].t
        current == LeaseHeld(r) /\ BindingExecutable(t)
    IN  /\ runner[r].pc = "retry"
        /\ \/ /\ RetryLeft(runner[r].attempt)
              /\ current
              /\ \E wait \in 0..MaxDelay :
                    EndClaim(r, "ready", wait, "unavailable")
              /\ Stop(r)
           \/ /\ RetryLeft(runner[r].attempt)
              /\ ~current
              /\ GoQuarantine(r, "binding_state_drift")
              /\ UNCHANGED <<transition, receipt>>
           \/ /\ ~RetryLeft(runner[r].attempt)
              /\ GoQuarantine(r, "retry_attempts_exhausted")
              /\ UNCHANGED <<transition, receipt>>
        /\ UNCHANGED <<effect, binding, slot, status, faults>>

\* NativeBindingFinalizationObserver.observe: the status port answers with the
\* revision it has, which may be older than the runtime's latest one.
FinalizeObserve(r) ==
    /\ runner[r].pc = "finalize_observe"
    /\ \/ \E seen \in {"retry", "quarantine"} :
             runner' = [runner EXCEPT ![r] =
                 [runner[r] EXCEPT !.pc = "finalize_observed", !.seen = seen]]
       \/ \E rev \in 0..status :
             runner' = [runner EXCEPT ![r] =
                 [runner[r] EXCEPT !.pc = "finalize_observed",
                     !.seen = IF rev < transition[runner[r].t].expected
                              THEN "retry" ELSE "observed",
                     !.rev = IF rev < transition[runner[r].t].expected
                             THEN 0 ELSE rev]]
    /\ UNCHANGED <<Rows, slot, status, faults>>

\* Heartbeat after that observation, and the decision taken on its result.
FinalizeObserved(r) ==
    /\ runner[r].pc = "finalize_observed"
    /\ \/ /\ LeaseHeld(r)
          /\ Renew(r)
          /\ \/ runner[r].seen = "retry" /\ GoRetry(r)
             \/ /\ runner[r].seen = "quarantine"
                /\ GoQuarantine(r, "adapter_quarantine")
             \/ runner[r].seen = "observed" /\ Goto(r, "finalize")
       \/ /\ ~LeaseHeld(r)
          /\ GoQuarantine(r, "finalization_observation_failed")
          /\ UNCHANGED <<transition, receipt>>
    /\ UNCHANGED <<effect, binding, slot, status, faults>>

\* _finalization_values: the revision has advanced and the ledger is complete.
CanFinalize(t, rev) ==
    /\ rev > transition[t].expected
    /\ \A e \in NonFinal : effect[t][e].state = "applied"
    /\ effect[t][Final] = [state |-> "planned", gen |-> 0]
    /\ StageAttempt(t, Final) >= 1

\* finalize: effect, binding, receipt and transition in one transaction.
Finalize(r) ==
    LET t == runner[r].t
        provable == /\ LeaseHeld(r)
                    /\ BindingExecutable(t)
                    /\ CanFinalize(t, runner[r].rev)
    IN  /\ runner[r].pc = "finalize"
        /\ \/ /\ provable
              /\ SetEffect(t, Final, "applied", runner[r].gen)
              /\ binding' = [revision |-> runner[r].rev, active |-> None,
                             receipt |-> None]
              /\ EndClaim(r, "completed", transition[t].wait,
                          transition[t].error)
              /\ Stop(r)
           \/ /\ ~provable
              /\ GoQuarantine(r, "finalization_proof_invalid")
              /\ UNCHANGED <<transition, effect, receipt, binding>>
        /\ UNCHANGED <<slot, status, faults>>

Quarantine_DropsMarker(r) ==
    /\ runner[r].pc = "quarantine"
    /\ \/ /\ LeaseHeld(r) /\ BindingHeld(runner[r].t)
          /\ EndClaim(r, "quarantined", transition[runner[r].t].wait,
                      runner[r].reason)
          /\ binding' = [binding EXCEPT !.active = None, !.receipt = None]
       \/ /\ ~(LeaseHeld(r) /\ BindingHeld(runner[r].t))
          /\ UNCHANGED <<transition, receipt, binding>>
    /\ Stop(r)
    /\ UNCHANGED <<effect, slot, status, faults>>

\* quarantine: keep the marker and the effects; without the lease, do nothing.
Quarantine(r) ==
    LET t == runner[r].t
        current == LeaseHeld(r) /\ BindingHeld(t)
    IN  /\ runner[r].pc = "quarantine"
        /\ \/ /\ current
              /\ EndClaim(r, "quarantined", transition[t].wait,
                          runner[r].reason)
           \/ ~current /\ UNCHANGED <<transition, receipt>>
        /\ Stop(r)
        /\ UNCHANGED <<effect, binding, slot, status, faults>>

Reject_EffectsUnchecked(r) ==
    /\ runner[r].pc = "loop"
    /\ LeaseHeld(r)
    /\ BindingExecutable(runner[r].t)
    /\ effect' = [effect EXCEPT ![runner[r].t] =
                     [e \in Effects |-> [state |-> "rejected", gen |-> 0]]]
    /\ binding' = [binding EXCEPT !.active = None, !.receipt = None]
    /\ EndClaim(r, "rejected", transition[runner[r].t].wait, "rejected")
    /\ Stop(r)
    /\ UNCHANGED <<slot, status, faults>>

\* _assert_effect_rejection_safe
NoEffectBegun(t) == \A e \in Effects : effect[t][e].state = "planned"

\* reject: only while no effect has been begun.
Reject(r) ==
    LET t == runner[r].t
    IN  /\ runner[r].pc = "loop"
        /\ LeaseHeld(r)
        /\ BindingExecutable(t)
        /\ NoEffectBegun(t)
        /\ effect' = [effect EXCEPT ![t] =
                         [e \in Effects |-> [state |-> "rejected", gen |-> 0]]]
        /\ binding' = [binding EXCEPT !.active = None, !.receipt = None]
        /\ EndClaim(r, "rejected", transition[t].wait, "rejected")
        /\ Stop(r)
        /\ UNCHANGED <<slot, status, faults>>

----------------------------------------------------------------------------
(* Failures and time.                                                      *)

\* An exception of an adapter or of the database inside `except Exception'.
Raise(r) ==
    /\ \/ /\ runner[r].pc \in {"observe", "observed"}
          /\ GoQuarantine(r, "effect_observation_failed")
       \/ /\ runner[r].pc \in {"begin", "begun", "execute"}
          /\ runner[r].seen = "executable"
          /\ GoQuarantine(r, "effect_execution_uncertain")
       \/ /\ runner[r].pc \in {"finalize_observe", "finalize_observed"}
          /\ GoQuarantine(r, "finalization_observation_failed")
    /\ UNCHANGED <<Rows, slot, status, faults>>

\* The process dies, or an exception leaves run: nothing is written any more.
Crash(r) ==
    /\ runner[r].pc # "idle"
    /\ faults < MaxFaults
    /\ faults' = faults + 1
    /\ Stop(r)
    /\ UNCHANGED <<Rows, slot, status>>

\* A runner is still working under the current claim of t.
Attended(t) ==
    \E r \in Runners : /\ runner[r].pc # "idle"
                       /\ runner[r].t = t
                       /\ runner[r].gen = transition[t].gen

\* A lease is about to run out under a runner that is still working.
LeaseLate ==
    \E t \in Transitions : transition[t].lease = 1 /\ Attended(t)

CountDown(n) == IF n = 0 THEN 0 ELSE n - 1

\* One unit of time.  A lease lost by a runner at work counts as a fault.
Tick ==
    /\ \E t \in Transitions : transition[t].lease > 0 \/ transition[t].wait > 0
    /\ LeaseLate => faults < MaxFaults
    /\ faults' = IF LeaseLate THEN faults + 1 ELSE faults
    /\ transition' = [t \in Transitions |->
           [transition[t] EXCEPT !.lease = CountDown(transition[t].lease),
                                 !.wait = CountDown(transition[t].wait)]]
    /\ receipt' = [c \in Commands |->
           [receipt[c] EXCEPT !.lease = CountDown(receipt[c].lease)]]
    /\ UNCHANGED <<effect, binding, slot, status, runner>>

----------------------------------------------------------------------------
Init ==
    /\ transition = [t \in Transitions |->
           [state |-> "absent", owner |-> None, gen |-> 0, lease |-> 0,
            wait |-> 0, expected |-> 0, error |-> "none"]]
    /\ effect = [t \in Transitions |->
           [e \in Effects |-> [state |-> "planned", gen |-> 0]]]
    /\ receipt = [c \in Commands |->
           [state |-> "absent", linked |-> FALSE, owner |-> None, gen |-> 0,
            lease |-> 0, expected |-> 0]]
    /\ binding = [revision |-> 0, active |-> None, receipt |-> None]
    /\ slot = [t \in Transitions |-> [e \in NonFinal |-> 0]]
    /\ status = 0
    /\ runner = [r \in Runners |-> Idle]
    /\ faults = 0

\* What a runner does on its own once it has claimed a transition.
Step(r) ==
    \/ Loop(r) \/ Observe(r) \/ Observed(r) \/ BeginEffect(r) \/ Begun(r)
    \/ Execute(r) \/ Insert(r) \/ FinishEffect(r) \/ Finished(r)
    \/ YieldReady(r) \/ Retry(r) \/ FinalizeObserve(r) \/ FinalizeObserved(r)
    \/ Finalize(r) \/ Quarantine(r) \/ Raise(r) \/ Reject(r)

Next ==
    \/ RuntimeAdvances
    \/ RecordStatus
    \/ \E c \in Commands : StageReceipt(c)
    \/ \E t \in Transitions : Stage(t)
    \/ \E r \in Runners : Step(r)
    \/ \E r \in Runners : \E t \in Transitions : Claim(r, t)
    \/ \E r \in Runners : Crash(r)
    \/ Tick

Spec == Init /\ [][Next]_vars

\* A claimed runner that has not crashed keeps going, time passes, and the
\* reconcile path keeps offering due transitions to some runner.
Fairness ==
    /\ \A r \in Runners : WF_vars(Step(r))
    /\ WF_vars(\E r \in Runners : \E t \in Transitions : Claim(r, t))
    /\ WF_vars(Tick)

FairSpec == Spec /\ Fairness

----------------------------------------------------------------------------
(* Properties.                                                             *)

TransitionRow ==
    [state: TransitionStates, owner: Owners \cup {None}, gen: Nat, lease: Nat,
     wait: Nat, expected: Nat, error: Reasons]
EffectRow == [state: EffectStates, gen: Nat]
ReceiptRow ==
    [state: ReceiptStates, linked: BOOLEAN, owner: Owners \cup {None},
     gen: Nat, lease: Nat, expected: Nat]
BindingRow ==
    [revision: Nat, active: Transitions \cup {None},
     receipt: Commands \cup {None}]
RunnerState ==
    [pc: Phases, t: Transitions \cup {None}, gen: Nat, eff: 0..Final,
     seen: Observations, attempt: Int, rev: Nat, reason: Reasons]

\* Every row and every runner has the shape its table or class declares.
TypeOK ==
    /\ transition \in [Transitions -> TransitionRow]
    /\ effect \in [Transitions -> [Effects -> EffectRow]]
    /\ receipt \in [Commands -> ReceiptRow]
    /\ binding \in BindingRow
    /\ slot \in [Transitions -> [NonFinal -> Nat]]
    /\ status \in Nat
    /\ runner \in [Runners -> RunnerState]
    /\ faults \in Nat

\* The binding's active_transition_id names a transition exactly while that
\* transition is ready, applying or quarantined (get_active calls anything
\* else an orphaned marker), so at most one transition of a workflow is live
\* and a quarantined one keeps holding the workflow.
MarkerExclusive ==
    \A t \in Transitions :
        binding.active = t <=> transition[t].state \in LiveStates

\* From stage to the end of a transition nobody moves the binding away from
\* the revision the transition was planned on: release, yield_ready, reject
\* and finalize find the revision they compare with, and a completed
\* transition has moved it forward.
BindingFrozen ==
    \A t \in Transitions :
        /\ transition[t].state \in LiveStates => BindingExecutable(t)
        /\ transition[t].state = "completed" =>
               binding.revision > transition[t].expected

\* The command receipt and its transition carry the same owner, generation,
\* lease and state after every transaction, so the mirror check of the store
\* never refuses the holder of a lease.
ReceiptMirrors ==
    \A t \in Commands : transition[t].state # "absent" => Mirrored(t)

\* The effect ledger is a prefix of applied effects, then at most one begun
\* effect, then planned ones; each applied effect was applied by a later
\* claim than the one before it (one effect per claim), and binding_finalize
\* is applied exactly in completed transitions.
OrderedLedger ==
    \A t \in Transitions :
        /\ \A e, f \in Effects :
              /\ e < f
              /\ effect[t][f].state \in {"applying", "applied"}
              => /\ effect[t][e].state = "applied"
                 /\ effect[t][e].gen < effect[t][f].gen
        /\ effect[t][Final].state = "applied" <=>
               transition[t].state = "completed"

\* A queue reservation exists only for an effect whose intent is recorded, and
\* an effect is recorded as applied only if its reservation exists; the claim
\* that made the reservation is never later than the one in the ledger.  A
\* crash, a lost lease or an unknown commit between begin_effect, the insert
\* and finish_effect therefore never leaves a reservation nobody will adopt,
\* nor a proof without a reservation, and a rejected transition has none.
EffectProven ==
    \A t \in Transitions : \A e \in NonFinal :
        /\ slot[t][e] # 0 =>
              /\ effect[t][e].state \in {"applying", "applied"}
              /\ slot[t][e] <= effect[t][e].gen
        /\ effect[t][e].state = "applied" => slot[t][e] # 0

\* The store never writes an aggregate its own readers refuse.  Every
\* operation, reads included, rebuilds WorkflowTransition, its effects and
\* their snapshot, whose constructors reject an owner or a lease outside
\* applying, an applying row or effect without a generation, a quarantine or
\* a rejection without a reason, and a completed or rejected header over
\* effects in any other state.  A row that breaks this can never be repaired.
AggregateReadable ==
    \A t \in Transitions :
        /\ transition[t].state = "applying" =>
               transition[t].owner # None /\ transition[t].gen >= 1
        /\ transition[t].state # "applying" =>
               transition[t].owner = None /\ transition[t].lease = 0
        /\ transition[t].state \in {"quarantined", "rejected"} =>
               transition[t].error # "none"
        /\ \A e \in Effects :
              /\ effect[t][e].state = "planned" => effect[t][e].gen = 0
              /\ effect[t][e].state \in {"applying", "applied"} =>
                     effect[t][e].gen >= 1
              /\ transition[t].state = "completed" =>
                     effect[t][e].state = "applied"
              /\ transition[t].state = "rejected" <=>
                     effect[t][e].state = "rejected"

\* The claim generation is a fencing token: two runners at work on one
\* transition never hold the same one, although all threads of a Hub process
\* share one owner_id.
FencingTokenUnique ==
    \A r, q \in Runners :
        /\ r # q
        /\ runner[r].pc # "idle"
        /\ runner[q].pc # "idle"
        /\ runner[r].t = runner[q].t
        => runner[r].gen # runner[q].gen

\* A runner works from the snapshot of its last heartbeat.  As long as its
\* lease is good, the stage and the attempt number it took from that snapshot
\* are still the current ones, whatever other runners did in between.
SnapshotStillCurrent ==
    \A r \in Runners :
        /\ runner[r].pc \in {"observe", "observed", "begin", "begun", "execute",
                             "insert", "finish", "finalize_observe",
                             "finalize_observed", "finalize"}
        /\ LeaseHeld(r)
        => /\ IsCurrentStage(runner[r].t, runner[r].eff)
           /\ runner[r].attempt = StageAttempt(runner[r].t, runner[r].eff)

\* Runners that are about to insert a reservation that does not exist yet are
\* all about to insert the same one.  The insert computes reserved_revision
\* from a maximum it read before; only writers of the same effect can collide
\* there, and the loser adopts the winner's row instead of failing.
ReservationRaceConfined ==
    \A r, q \in Runners :
        /\ runner[r].pc = "insert" /\ slot[runner[r].t][runner[r].eff] = 0
        /\ runner[q].pc = "insert" /\ slot[runner[q].t][runner[q].eff] = 0
        => runner[r].t = runner[q].t /\ runner[r].eff = runner[q].eff

\* authorize_attempt: whatever is lost or retried, a reservation is only ever
\* created in one of the first MaxAttempts claims of its stage.
ReservedWithinBudget ==
    \A t \in Transitions : \A e \in NonFinal :
        slot[t][e] # 0 => slot[t][e] - PreviousGeneration(t, e) <= MaxAttempts

\* next_retry: a stage is claimed at most MaxAttempts times, plus once for
\* every crash or lost lease.
ClaimsWithinBudget ==
    \A t \in Transitions : \A e \in Effects :
        transition[t].state \in LiveStates /\ IsCurrentStage(t, e)
        => StageAttempt(t, e) <= MaxAttempts + faults

\* What the docstring of NativeBindingFinalizationObserver says: a status that
\* is not yet consistent with the claimed transition is reported as retryable,
\* so a runner that goes on to finalize has seen a revision finalize accepts.
\* The observer retries only below the expected revision, and the store wants
\* one above it: at the expected revision the transition is quarantined.
LateRuntimeRetried ==
    \A r \in Runners :
        runner[r].pc = "finalize" =>
            runner[r].rev > transition[runner[r].t].expected

\* A transition that is completed, rejected or quarantined is final: neither
\* its row nor its ledger changes again, although a runner that lost its lease
\* may still be on its way to begin, finish, release, finalize or quarantine.
Settled(t) == transition[t].state \in {"completed", "rejected", "quarantined"}

SettledForGood ==
    [][\A t \in Transitions :
          Settled(t) => UNCHANGED <<transition[t], effect[t]>>]_vars

\* A staged transition is eventually completed, rejected or quarantined:
\* crashes, lost leases and unavailable adapters never leave it ready or
\* applying for ever.
StagedSettles ==
    \A t \in Transitions : transition[t].state = "ready" ~> Settled(t)

----------------------------------------------------------------------------
(* Refinement.                                                             *)

PhaseOf(st) ==
    CASE st = "absent"               -> "none"
      [] st \in {"ready", "applying"} -> "open"
      [] st = "quarantined"          -> "held"
      [] OTHER                       -> st

Abstract == INSTANCE DurableTransition WITH
    phase    <- [t \in Transitions |-> PhaseOf(transition[t].state)],
    made     <- [t \in Transitions |-> {e \in NonFinal : slot[t][e] # 0}],
    proven   <- [t \in Transitions |->
                    {e \in NonFinal : effect[t][e].state = "applied"}],
    revision <- binding.revision

\* The outbox, its runners and the reservation store implement the durable
\* transition: every effect once and in order, one live transition, no
\* revision change under it, and no rejection after an effect.
DurableEffects == Abstract!Spec
=============================================================================
