---------------------- MODULE WorkflowTransitionProofs ----------------------
(***************************************************************************)
(* Proofs about WorkflowTransition, for any number of runners, transitions *)
(* and effects, any lease and any number of faults.                        *)
(***************************************************************************)
EXTENDS WorkflowTransition, TLAPS

\* A runner that has claimed a transition knows which one, and the stage it
\* is working on is one the transition has.
RunnerBound ==
    \A r \in Runners :
        /\ runner[r].pc # "idle" => runner[r].t \in Transitions
        /\ runner[r].pc \in {"observe", "observed", "begin", "begun",
                             "execute", "insert", "finish", "finished",
                             "yield"} => runner[r].eff \in NonFinal

TypeInv == TypeOK /\ RunnerBound

----------------------------------------------------------------------------
(* What the shared writes preserve.                                        *)

\* Ordinals: binding_finalize comes after every other effect.
LEMMA Ordinals ==
    /\ LastEffect \in Nat
    /\ Final \in Nat \ {0}
    /\ Final \in Effects
    /\ NonFinal \subseteq Effects
    /\ Effects \subseteq 0..Final
    /\ Final \notin NonFinal
    /\ Effects \ {Final} = NonFinal
  BY ConstantsAssumption DEF ConstantsAssumption, Final, Effects, NonFinal

\* SetTransition writes a well-formed header.
LEMMA SetTransitionType ==
    ASSUME TypeOK, NEW t \in Transitions,
           NEW st \in TransitionStates, NEW owner \in Owners \cup {None},
           NEW gen \in Nat, NEW lease \in Nat, NEW wait \in Nat,
           NEW error \in Reasons,
           SetTransition(t, st, owner, gen, lease, wait, error)
    PROVE  transition' \in [Transitions -> TransitionRow]
  BY DEF TypeOK, SetTransition, TransitionRow

\* SetReceipt writes a well-formed receipt, or none for a plain transition.
LEMMA SetReceiptType ==
    ASSUME TypeOK, NEW t \in Transitions,
           NEW st \in ReceiptStates, NEW owner \in Owners \cup {None},
           NEW gen \in Nat, NEW lease \in Nat,
           SetReceipt(t, st, owner, gen, lease)
    PROVE  receipt' \in [Commands -> ReceiptRow]
  BY DEF TypeOK, SetReceipt, ReceiptRow

\* SetEffect writes a well-formed ledger entry.
LEMMA SetEffectType ==
    ASSUME TypeOK, NEW t \in Transitions, NEW e \in Effects,
           NEW st \in EffectStates, NEW gen \in Nat,
           SetEffect(t, e, st, gen)
    PROVE  effect' \in [Transitions -> [Effects -> EffectRow]]
  BY DEF TypeOK, SetEffect, EffectRow

\* The claim operations keep headers and receipts well formed.
LEMMA EndClaimType ==
    ASSUME TypeOK, NEW r \in Runners, runner[r].t \in Transitions,
           NEW st \in {"ready", "completed", "quarantined", "rejected"},
           NEW wait \in Nat, NEW error \in Reasons,
           EndClaim(r, st, wait, error)
    PROVE  /\ transition' \in [Transitions -> TransitionRow]
           /\ receipt' \in [Commands -> ReceiptRow]
  <1>1. runner[r].gen \in Nat
    BY DEF TypeOK, RunnerState
  <1>2. ReceiptStateOf(st) \in ReceiptStates /\ st \in TransitionStates
    BY DEF ReceiptStateOf, ReceiptStates, TransitionStates
  <1>3. SetTransition(runner[r].t, st, None, runner[r].gen, 0, wait, error)
    BY DEF EndClaim
  <1>4. SetReceipt(runner[r].t, ReceiptStateOf(st), None, runner[r].gen, 0)
    BY DEF EndClaim
  <1> QED
    BY <1>1, <1>2, <1>3, <1>4, SetTransitionType, SetReceiptType

\* A heartbeat keeps header and receipt well formed.
LEMMA RenewType ==
    ASSUME TypeOK, NEW r \in Runners, runner[r].t \in Transitions, Renew(r)
    PROVE  /\ transition' \in [Transitions -> TransitionRow]
           /\ receipt' \in [Commands -> ReceiptRow]
  <1>1. /\ runner[r].gen \in Nat
        /\ transition[runner[r].t].wait \in Nat
        /\ transition[runner[r].t].error \in Reasons
        /\ OwnerOf[r] \in Owners \cup {None}
        /\ LeaseSeconds \in Nat
    BY ConstantsAssumption
       DEF ConstantsAssumption, TypeOK, RunnerState, TransitionRow
  <1>2. "dispatching" \in ReceiptStates /\ "applying" \in TransitionStates
    BY DEF ReceiptStates, TransitionStates
  <1>3. SetTransition(runner[r].t, "applying", OwnerOf[r], runner[r].gen,
                      LeaseSeconds, transition[runner[r].t].wait,
                      transition[runner[r].t].error)
    BY DEF Renew
  <1>4. SetReceipt(runner[r].t, "dispatching", OwnerOf[r], runner[r].gen,
                   LeaseSeconds)
    BY DEF Renew
  <1> QED
    BY <1>1, <1>2, <1>3, <1>4, SetTransitionType, SetReceiptType

\* The ways in which a runner moves on.
RunnersTyped == runner \in [Runners -> RunnerState] /\ RunnerBound

\* A runner that moves to a well-formed state keeps all of them well formed.
LEMMA MoveType ==
    ASSUME TypeInv, NEW r \in Runners, NEW s \in RunnerState,
           runner' = [runner EXCEPT ![r] = s],
           s.pc # "idle" => s.t \in Transitions,
           s.pc \in {"observe", "observed", "begin", "begun", "execute",
                     "insert", "finish", "finished", "yield"}
               => s.eff \in NonFinal
    PROVE  RunnersTyped'
  BY DEF TypeInv, TypeOK, RunnerBound, RunnersTyped

\* What a runner knows that has only its claim.
LEMMA WorkingType ==
    ASSUME NEW pc \in Phases, NEW t \in Transitions \cup {None},
           NEW gen \in Nat, NEW attempt \in Int, NEW reason \in Reasons
    PROVE  /\ Working(pc, t, gen, attempt, reason) \in RunnerState
           /\ Working(pc, t, gen, attempt, reason).pc = pc
           /\ Working(pc, t, gen, attempt, reason).t = t
           /\ Working(pc, t, gen, attempt, reason).gen = gen
           /\ Working(pc, t, gen, attempt, reason).attempt = attempt
  <1>1. 0 \in 0..Final /\ "none" \in Observations
    BY Ordinals DEF Observations
  <1> QED
    BY <1>1 DEF Working, RunnerState

\* A runner that goes on to its next program point stays well formed.
LEMMA GotoType ==
    ASSUME TypeInv, NEW r \in Runners, NEW pc \in Phases, Goto(r, pc),
           runner[r].pc # "idle",
           runner[r].eff \in NonFinal \/ pc = "finalize"
    PROVE  RunnersTyped'
  <1> DEFINE s == [runner[r] EXCEPT !.pc = pc]
  <1>1. s \in RunnerState /\ s.pc = pc /\ s.t = runner[r].t
            /\ s.eff = runner[r].eff
    BY DEF TypeInv, TypeOK, RunnerState
  <1>2. runner[r].t \in Transitions
    BY DEF TypeInv, RunnerBound
  <1>3. runner' = [runner EXCEPT ![r] = s]
    BY DEF Goto
  <1> QED
    BY <1>1, <1>2, <1>3, MoveType

\* An idle runner is well formed.
LEMMA IdleType == Idle \in RunnerState /\ Idle.pc = "idle"
  <1>1. "idle" \in Phases /\ "none" \in Reasons
    BY DEF Phases, Reasons
  <1> QED
    BY <1>1, WorkingType DEF Idle

\* So is one that stops.
LEMMA StopType ==
    ASSUME TypeInv, NEW r \in Runners, Stop(r)
    PROVE  RunnersTyped'
  BY IdleType, MoveType DEF Stop

\* So does one that goes to _retry_or_quarantine,
LEMMA GoRetryType ==
    ASSUME TypeInv, NEW r \in Runners, GoRetry(r), runner[r].pc # "idle"
    PROVE  RunnersTyped'
  <1> DEFINE s == Working("retry", runner[r].t, runner[r].gen,
                          runner[r].attempt, "none")
  <1>1. "retry" \in Phases /\ "none" \in Reasons
    BY DEF Phases, Reasons
  <1>2. runner[r].t \in Transitions
    BY DEF TypeInv, RunnerBound
  <1>3. runner[r].gen \in Nat /\ runner[r].attempt \in Int
    BY DEF TypeInv, TypeOK, RunnerState
  <1>4. s \in RunnerState /\ s.pc = "retry" /\ s.t \in Transitions
    BY <1>1, <1>2, <1>3, WorkingType
  <1> QED
    BY <1>4, MoveType DEF GoRetry

\* and one that goes to _quarantine.
LEMMA GoQuarantineType ==
    ASSUME TypeInv, NEW r \in Runners, NEW reason \in Reasons,
           GoQuarantine(r, reason), runner[r].pc # "idle"
    PROVE  RunnersTyped'
  <1> DEFINE s == Working("quarantine", runner[r].t, runner[r].gen, 0, reason)
  <1>1. "quarantine" \in Phases
    BY DEF Phases
  <1>2. runner[r].t \in Transitions
    BY DEF TypeInv, RunnerBound
  <1>3. runner[r].gen \in Nat
    BY DEF TypeInv, TypeOK, RunnerState
  <1>4. s \in RunnerState /\ s.pc = "quarantine" /\ s.t \in Transitions
    BY <1>1, <1>2, <1>3, WorkingType
  <1> QED
    BY <1>4, MoveType DEF GoQuarantine

----------------------------------------------------------------------------
(* Type correctness.                                                       *)

\* TypeInv by its parts.
LEMMA TypeInvParts ==
    TypeInv' <=> /\ transition' \in [Transitions -> TransitionRow]
                 /\ effect' \in [Transitions -> [Effects -> EffectRow]]
                 /\ receipt' \in [Commands -> ReceiptRow]
                 /\ binding' \in BindingRow
                 /\ slot' \in [Transitions -> [NonFinal -> Nat]]
                 /\ status' \in Nat
                 /\ faults' \in Nat
                 /\ RunnersTyped'
  BY DEF TypeInv, TypeOK, RunnersTyped

\* What is not written stays well formed.
LEMMA TypeUnchanged ==
    ASSUME TypeInv
    PROVE  /\ UNCHANGED transition => transition' \in [Transitions -> TransitionRow]
           /\ UNCHANGED effect => effect' \in [Transitions -> [Effects -> EffectRow]]
           /\ UNCHANGED receipt => receipt' \in [Commands -> ReceiptRow]
           /\ UNCHANGED binding => binding' \in BindingRow
           /\ UNCHANGED slot => slot' \in [Transitions -> [NonFinal -> Nat]]
           /\ UNCHANGED status => status' \in Nat
           /\ UNCHANGED faults => faults' \in Nat
           /\ UNCHANGED runner => RunnersTyped'
  BY DEF TypeInv, TypeOK, RunnersTyped, RunnerBound

\* A runner at work has a transition, and what it remembers is typed.
LEMMA AtWork ==
    ASSUME TypeInv, NEW r \in Runners, runner[r].pc # "idle"
    PROVE  /\ runner[r].t \in Transitions
           /\ runner[r].gen \in Nat
           /\ runner[r].rev \in Nat
           /\ runner[r].reason \in Reasons
           /\ runner[r] \in RunnerState
           /\ transition[runner[r].t] \in TransitionRow
           /\ transition[runner[r].t].wait \in Nat
           /\ transition[runner[r].t].gen \in Nat
           /\ transition[runner[r].t].expected \in Nat
           /\ transition[runner[r].t].error \in Reasons
  <1>1. runner[r].t \in Transitions
    BY DEF TypeInv, RunnerBound
  <1> QED
    BY <1>1 DEF TypeInv, TypeOK, RunnerState, TransitionRow

\* The environment's steps, crashes and time.
LEMMA TypeEnvironment ==
    ASSUME TypeInv,
           \/ RuntimeAdvances \/ RecordStatus \/ Tick
           \/ \E c \in Commands : StageReceipt(c)
           \/ \E t \in Transitions : Stage(t)
           \/ \E r \in Runners : Crash(r)
    PROVE  TypeInv'
  <1>1. CASE RuntimeAdvances
    BY <1>1, TypeUnchanged, TypeInvParts DEF RuntimeAdvances, Rows, TypeInv, TypeOK
  <1>2. CASE RecordStatus
    <2>1. binding' \in BindingRow
      BY <1>2 DEF RecordStatus, TypeInv, TypeOK, BindingRow
    <2> QED
      BY <1>2, <2>1, TypeUnchanged, TypeInvParts DEF RecordStatus
  <1>3. CASE Tick
    <2>1. \A n \in Nat : CountDown(n) \in Nat
      BY DEF CountDown
    <2>2. transition' \in [Transitions -> TransitionRow]
      <3> SUFFICES ASSUME NEW t \in Transitions
                   PROVE  [transition[t] EXCEPT
                              !.lease = CountDown(transition[t].lease),
                              !.wait = CountDown(transition[t].wait)]
                          \in TransitionRow
        BY <1>3 DEF Tick
      <3>1. transition[t] \in TransitionRow
        BY DEF TypeInv, TypeOK
      <3> QED
        BY <2>1, <3>1 DEF TransitionRow
    <2>3. receipt' \in [Commands -> ReceiptRow]
      <3> SUFFICES ASSUME NEW c \in Commands
                   PROVE  [receipt[c] EXCEPT
                              !.lease = CountDown(receipt[c].lease)]
                          \in ReceiptRow
        BY <1>3 DEF Tick
      <3>1. receipt[c] \in ReceiptRow
        BY DEF TypeInv, TypeOK
      <3> QED
        BY <2>1, <3>1 DEF ReceiptRow
    <2>4. faults' \in Nat
      <3>1. faults \in Nat /\ (faults' = faults + 1 \/ faults' = faults)
        BY <1>3 DEF Tick, TypeInv, TypeOK
      <3> QED
        BY <3>1
    <2> QED
      BY <1>3, <2>2, <2>3, <2>4, TypeUnchanged, TypeInvParts DEF Tick
  <1>4. ASSUME NEW c \in Commands, StageReceipt(c) PROVE TypeInv'
    <2>1. receipt' \in [Commands -> ReceiptRow]
      BY <1>4, ZenonT(40) DEF StageReceipt, TypeInv, TypeOK, ReceiptRow, BindingRow,
                  ReceiptStates
    <2>2. binding' \in BindingRow
      BY <1>4 DEF StageReceipt, TypeInv, TypeOK, BindingRow
    <2> QED
      BY <1>4, <2>1, <2>2, TypeUnchanged, TypeInvParts DEF StageReceipt
  <1>5. ASSUME NEW t \in Transitions, Stage(t) PROVE TypeInv'
    <2>1. transition' \in [Transitions -> TransitionRow]
      <3>1. binding.revision \in Nat /\ transition[t] \in TransitionRow
        BY DEF TypeInv, TypeOK, BindingRow
      <3>2. [transition[t] EXCEPT !.state = "ready",
                                  !.expected = binding.revision]
                \in TransitionRow
        BY <3>1 DEF TransitionRow, TransitionStates
      <3> QED
        BY <1>5, <3>2 DEF Stage, TypeInv, TypeOK
    <2>2. receipt' \in [Commands -> ReceiptRow]
      <3>1. SetReceipt(t, "pending", None, 0, 0) /\ "pending" \in ReceiptStates
        BY <1>5 DEF Stage, ReceiptStates
      <3> QED
        BY <3>1, SetReceiptType DEF TypeInv
    <2>3. binding' \in BindingRow
      BY <1>5 DEF Stage, TypeInv, TypeOK, BindingRow
    <2> QED
      BY <1>5, <2>1, <2>2, <2>3, TypeUnchanged, TypeInvParts DEF Stage
  <1>6. ASSUME NEW r \in Runners, Crash(r) PROVE TypeInv'
    <2>1. RunnersTyped'
      BY <1>6, StopType DEF Crash
    <2>2. faults' \in Nat
      BY <1>6 DEF Crash, TypeInv, TypeOK
    <2> QED
      BY <1>6, <2>1, <2>2, TypeUnchanged, TypeInvParts DEF Crash, Rows
  <1> QED
    BY <1>1, <1>2, <1>3, <1>4, <1>5, <1>6

\* claim keeps the types.
LEMMA TypeClaim ==
    ASSUME TypeInv, NEW r \in Runners, NEW t \in Transitions, Claim(r, t)
    PROVE  TypeInv'
  <1>1. /\ OwnerOf[r] \in Owners \cup {None}
        /\ LeaseSeconds \in Nat
        /\ NextGeneration(t) \in Nat
        /\ transition[t].error \in Reasons
    BY ConstantsAssumption DEF ConstantsAssumption, TypeInv, TypeOK,
       TransitionRow, NextGeneration
  <1>2. /\ "applying" \in TransitionStates
        /\ "dispatching" \in ReceiptStates
        /\ "loop" \in Phases
        /\ "none" \in Reasons
    BY DEF TransitionStates, ReceiptStates, Phases, Reasons
  <1>3. transition' \in [Transitions -> TransitionRow]
    BY <1>1, <1>2, SetTransitionType DEF Claim, TypeInv
  <1>4. receipt' \in [Commands -> ReceiptRow]
    BY <1>1, <1>2, SetReceiptType DEF Claim, TypeInv
  <1>5. RunnersTyped'
    <2> DEFINE s == Working("loop", t, NextGeneration(t), 0, "none")
    <2>1. s \in RunnerState /\ s.pc = "loop" /\ s.t = t
      BY <1>1, <1>2, WorkingType
    <2>2. runner' = [runner EXCEPT ![r] = s]
      BY DEF Claim
    <2> HIDE DEF s
    <2> QED
      BY <2>1, <2>2, MoveType
  <1> QED
    BY <1>3, <1>4, <1>5, TypeUnchanged, TypeInvParts DEF Claim

\* Attempt numbers are integers, and stage generations naturals.
LEMMA StageAttemptType ==
    ASSUME TypeInv, NEW t \in Transitions, NEW e \in Effects
    PROVE  PreviousGeneration(t, e) \in Nat /\ StageAttempt(t, e) \in Int
  <1>1. e # 1 => e - 1 \in Effects
    BY Ordinals DEF Effects
  <1>2. \A f \in Effects : effect[t][f].gen \in Nat
    BY DEF TypeInv, TypeOK, EffectRow
  <1>3. transition[t].gen \in Nat
    BY DEF TypeInv, TypeOK, TransitionRow
  <1> QED
    BY <1>1, <1>2, <1>3 DEF PreviousGeneration, StageAttempt

\* The start of _run_claimed keeps the types.
LEMMA TypeLoop ==
    ASSUME TypeInv, NEW r \in Runners, Loop(r)
    PROVE  TypeInv'
  <1>0. runner[r].pc # "idle"
    BY DEF Loop
  <1>1. UNCHANGED <<effect, binding, slot, status, faults>>
    BY DEF Loop
  <1>2. CASE LeaseHeld(r)
    <2>1. PICK f \in Effects :
              runner' = [runner EXCEPT ![r] =
                    [runner[r] EXCEPT
                        !.pc = IF f = Final THEN "finalize_observe"
                                            ELSE "observe",
                        !.eff = f,
                        !.attempt = StageAttempt(runner[r].t, f)]]
      BY <1>2 DEF Loop
    <2> DEFINE s == [runner[r] EXCEPT
                        !.pc = IF f = Final THEN "finalize_observe"
                                            ELSE "observe",
                        !.eff = f,
                        !.attempt = StageAttempt(runner[r].t, f)]
    <2>2. runner' = [runner EXCEPT ![r] = s]
      BY <2>1
    <2>3. StageAttempt(runner[r].t, f) \in Int
      BY <1>0, AtWork, StageAttemptType
    <2>4. f \in 0..Final /\ (f # Final => f \in NonFinal)
      BY Ordinals
    <2>5. /\ s \in RunnerState
          /\ s.t = runner[r].t
          /\ s.eff = f
          /\ s.pc = IF f = Final THEN "finalize_observe" ELSE "observe"
      <3>1. runner[r] \in RunnerState
        BY <1>0, AtWork
      <3>2. "finalize_observe" \in Phases /\ "observe" \in Phases
        BY DEF Phases
      <3> QED
        BY <2>3, <2>4, <3>1, <3>2 DEF RunnerState
    <2>6. RunnersTyped'
      <3>1. runner[r].t \in Transitions
        BY <1>0, AtWork
      <3> HIDE DEF s
      <3> QED
        BY <2>2, <2>4, <2>5, <3>1, MoveType
    <2>7. Renew(r)
      BY <1>2 DEF Loop
    <2> QED
      BY <1>0, <1>1, <2>6, <2>7, AtWork, RenewType, TypeUnchanged,
         TypeInvParts DEF TypeInv
  <1>3. CASE ~LeaseHeld(r)
    <2>1. Stop(r) /\ UNCHANGED <<transition, receipt>>
      BY <1>3 DEF Loop
    <2> QED
      BY <1>1, <2>1, StopType, TypeUnchanged, TypeInvParts
  <1> QED
    BY <1>2, <1>3

\* The literals the runner uses belong to their sets.
LEMMA PhaseNames ==
    /\ {"loop", "retry", "begin", "begun", "execute", "insert", "finish",
        "finished", "yield", "finalize", "quarantine", "observe", "observed",
        "finalize_observe", "finalize_observed"} \subseteq Phases
    /\ {"effect_observation_failed", "adapter_quarantine",
        "effect_adoption_proof_invalid", "retry_attempts_exhausted",
        "effect_execution_uncertain", "effect_result_invalid",
        "binding_state_drift", "finalization_observation_failed",
        "finalization_proof_invalid", "unavailable", "rejected",
        "none"} \subseteq Reasons
    /\ {"already_applied", "executable", "retry", "quarantine", "observed"}
           \subseteq Observations
  BY DEF Phases, Reasons, Observations

\* The two observations keep the types.
LEMMA TypeObserve ==
    ASSUME TypeInv, NEW r \in Runners, Observe(r) \/ FinalizeObserve(r)
    PROVE  TypeInv'
  <1>0. runner[r].pc # "idle"
    BY DEF Observe, FinalizeObserve
  <1>1. runner[r] \in RunnerState /\ runner[r].t \in Transitions
    BY <1>0, AtWork
  <1>2. RunnersTyped'
    <2>1. CASE Observe(r)
      <3>1. PICK seen \in {"already_applied", "executable", "retry",
                           "quarantine"} :
                runner' = [runner EXCEPT ![r] =
                    [runner[r] EXCEPT !.pc = "observed", !.seen = seen]]
        BY <2>1 DEF Observe
      <3> DEFINE s == [runner[r] EXCEPT !.pc = "observed", !.seen = seen]
      <3>2. /\ s \in RunnerState
            /\ s.pc = "observed" /\ s.t = runner[r].t /\ s.eff = runner[r].eff
        BY <1>1, PhaseNames DEF RunnerState
      <3>3. runner[r].eff \in NonFinal
        BY <2>1 DEF Observe, TypeInv, RunnerBound
      <3>4. runner' = [runner EXCEPT ![r] = s]
        BY <3>1
      <3> HIDE DEF s
      <3> QED
        BY <1>1, <3>2, <3>3, <3>4, MoveType
    <2>2. CASE FinalizeObserve(r)
      <3>1. PICK seen \in Observations, rev \in Nat :
                runner' = [runner EXCEPT ![r] =
                    [runner[r] EXCEPT !.pc = "finalize_observed",
                                      !.seen = seen, !.rev = rev]]
        <4>1. CASE \E seen \in {"retry", "quarantine"} :
                      runner' = [runner EXCEPT ![r] =
                          [runner[r] EXCEPT !.pc = "finalize_observed",
                                            !.seen = seen]]
          <5>1. PICK seen \in {"retry", "quarantine"} :
                    runner' = [runner EXCEPT ![r] =
                        [runner[r] EXCEPT !.pc = "finalize_observed",
                                          !.seen = seen]]
            BY <4>1
          <5>2. [runner[r] EXCEPT !.pc = "finalize_observed", !.seen = seen]
                  = [runner[r] EXCEPT !.pc = "finalize_observed",
                                      !.seen = seen, !.rev = runner[r].rev]
            BY <1>1 DEF RunnerState
          <5>3. runner[r].rev \in Nat /\ seen \in Observations
            BY <1>1, PhaseNames DEF RunnerState
          <5> QED
            BY <5>1, <5>2, <5>3
        <4>2. ASSUME NEW rev \in 0..status,
                     runner' = [runner EXCEPT ![r] =
                         [runner[r] EXCEPT !.pc = "finalize_observed",
                             !.seen = IF rev < transition[runner[r].t].expected
                                      THEN "retry" ELSE "observed",
                             !.rev = IF rev < transition[runner[r].t].expected
                                     THEN 0 ELSE rev]]
              PROVE  \E seen \in Observations, rev1 \in Nat :
                        runner' = [runner EXCEPT ![r] =
                            [runner[r] EXCEPT !.pc = "finalize_observed",
                                              !.seen = seen, !.rev = rev1]]
          <5>1. rev \in Nat
            BY DEF TypeInv, TypeOK
          <5>2. /\ (IF rev < transition[runner[r].t].expected
                    THEN "retry" ELSE "observed") \in Observations
                /\ (IF rev < transition[runner[r].t].expected
                    THEN 0 ELSE rev) \in Nat
            BY <5>1, PhaseNames
          <5> QED
            BY <4>2, <5>2
        <4> QED
          BY <2>2, <4>1, <4>2 DEF FinalizeObserve
      <3> DEFINE s == [runner[r] EXCEPT !.pc = "finalize_observed",
                                        !.seen = seen, !.rev = rev]
      <3>2. s \in RunnerState /\ s.pc = "finalize_observed" /\ s.t = runner[r].t
        BY <1>1, PhaseNames DEF RunnerState
      <3>3. runner' = [runner EXCEPT ![r] = s]
        BY <3>1
      <3> HIDE DEF s
      <3> QED
        BY <1>1, <3>2, <3>3, MoveType
    <2> QED
      BY <2>1, <2>2
  <1> QED
    BY <1>2, TypeUnchanged, TypeInvParts DEF Observe, FinalizeObserve, Rows

\* Heartbeats between two calls, and the decisions taken after them.
LEMMA TypeHeartbeat ==
    ASSUME TypeInv, NEW r \in Runners,
           Observed(r) \/ Begun(r) \/ Finished(r) \/ FinalizeObserved(r)
    PROVE  TypeInv'
  <1>0. runner[r].pc # "idle" /\ runner[r].t \in Transitions
    BY AtWork DEF Observed, Begun, Finished, FinalizeObserved
  <1>1. UNCHANGED <<effect, binding, slot, status, faults>>
    BY DEF Observed, Begun, Finished, FinalizeObserved
  <1>2. Renew(r) \/ UNCHANGED <<transition, receipt>>
    BY DEF Observed, Begun, Finished, FinalizeObserved
  <1>3. /\ transition' \in [Transitions -> TransitionRow]
        /\ receipt' \in [Commands -> ReceiptRow]
    BY <1>0, <1>2, RenewType, TypeUnchanged DEF TypeInv
  <1>4. RunnersTyped'
    <2>1. \/ GoRetry(r)
          \/ \E reason \in Reasons : GoQuarantine(r, reason)
          \/ \E pc \in Phases :
                /\ runner[r].eff \in NonFinal \/ pc = "finalize"
                /\ Goto(r, pc)
      <3>1. CASE Observed(r)
        <4>1. runner[r].eff \in NonFinal
          BY <3>1 DEF Observed, TypeInv, RunnerBound
        <4> QED
          BY <3>1, <4>1, PhaseNames DEF Observed
      <3>2. CASE Begun(r)
        <4>1. runner[r].eff \in NonFinal
          BY <3>2 DEF Begun, TypeInv, RunnerBound
        <4> QED
          BY <3>2, <4>1, PhaseNames DEF Begun
      <3>3. CASE Finished(r)
        <4>1. runner[r].eff \in NonFinal
          BY <3>3 DEF Finished, TypeInv, RunnerBound
        <4> QED
          BY <3>3, <4>1, PhaseNames DEF Finished
      <3>4. CASE FinalizeObserved(r)
        BY <3>4, PhaseNames DEF FinalizeObserved
      <3> QED
        BY <3>1, <3>2, <3>3, <3>4
    <2> QED
      BY <1>0, <2>1, GotoType, GoRetryType, GoQuarantineType
  <1> QED
    BY <1>1, <1>3, <1>4, TypeUnchanged, TypeInvParts

\* begin_effect and finish_effect.
LEMMA TypeLedger ==
    ASSUME TypeInv, NEW r \in Runners, BeginEffect(r) \/ FinishEffect(r)
    PROVE  TypeInv'
  <1>0. /\ runner[r].pc # "idle"
        /\ runner[r].t \in Transitions
        /\ runner[r].eff \in NonFinal
        /\ runner[r].gen \in Nat
    BY AtWork DEF BeginEffect, FinishEffect, TypeInv, RunnerBound
  <1>1. UNCHANGED <<transition, receipt, binding, slot, status, faults>>
    BY DEF BeginEffect, FinishEffect
  <1>2. /\ runner[r].eff \in Effects
        /\ "applying" \in EffectStates
        /\ "applied" \in EffectStates
    BY <1>0, Ordinals DEF EffectStates
  <1>3. \/ SetEffect(runner[r].t, runner[r].eff, "applying", runner[r].gen)
        \/ SetEffect(runner[r].t, runner[r].eff, "applied", runner[r].gen)
        \/ UNCHANGED effect
    BY DEF BeginEffect, FinishEffect
  <1>4. effect' \in [Transitions -> [Effects -> EffectRow]]
    BY <1>0, <1>2, <1>3, SetEffectType, TypeUnchanged DEF TypeInv
  <1>5. \/ \E reason \in Reasons : GoQuarantine(r, reason)
        \/ \E pc \in Phases : Goto(r, pc)
    BY PhaseNames DEF BeginEffect, FinishEffect
  <1>6. RunnersTyped'
    BY <1>0, <1>5, GotoType, GoQuarantineType
  <1> QED
    BY <1>1, <1>4, <1>6, TypeUnchanged, TypeInvParts

\* The two transactions of the reservation store, and exceptions.
LEMMA TypeReserve ==
    ASSUME TypeInv, NEW r \in Runners, Execute(r) \/ Insert(r) \/ Raise(r)
    PROVE  TypeInv'
  <1>0. /\ runner[r].pc # "idle"
        /\ runner[r].t \in Transitions
        /\ runner[r].gen \in Nat
    BY AtWork DEF Execute, Insert, Raise
  <1>1. UNCHANGED <<transition, effect, receipt, binding, status, faults>>
    BY DEF Execute, Insert, Raise, Rows
  <1>2. slot' \in [Transitions -> [NonFinal -> Nat]]
    <2>1. \/ UNCHANGED slot
          \/ slot' = [slot EXCEPT ![runner[r].t] =
                         [slot[runner[r].t] EXCEPT
                             ![runner[r].eff] = runner[r].gen]]
      BY Zenon DEF Execute, Insert, Raise
    <2>2. slot \in [Transitions -> [NonFinal -> Nat]]
      BY DEF TypeInv, TypeOK
    <2> QED
      BY <1>0, <2>1, <2>2
  <1>3. RunnersTyped'
    <2>1. \/ GoRetry(r)
          \/ \E reason \in Reasons : GoQuarantine(r, reason)
          \/ \E pc \in Phases : runner[r].eff \in NonFinal /\ Goto(r, pc)
      <3>1. CASE Execute(r)
        <4>1. runner[r].eff \in NonFinal
          BY <3>1 DEF Execute, TypeInv, RunnerBound
        <4> QED
          BY <3>1, <4>1, PhaseNames DEF Execute
      <3>2. CASE Insert(r)
        <4>1. runner[r].eff \in NonFinal
          BY <3>2 DEF Insert, TypeInv, RunnerBound
        <4> QED
          BY <3>2, <4>1, PhaseNames DEF Insert
      <3>3. CASE Raise(r)
        BY <3>3, PhaseNames DEF Raise
      <3> QED
        BY <3>1, <3>2, <3>3
    <2> QED
      BY <1>0, <2>1, GotoType, GoRetryType, GoQuarantineType
  <1> QED
    BY <1>1, <1>2, <1>3, TypeUnchanged, TypeInvParts

\* The operations that end a claim.
LEMMA TypeEnd ==
    ASSUME TypeInv, NEW r \in Runners,
           YieldReady(r) \/ Retry(r) \/ Finalize(r) \/ Quarantine(r) \/ Reject(r)
    PROVE  TypeInv'
  <1>0. /\ runner[r].pc # "idle"
        /\ runner[r].t \in Transitions
        /\ runner[r].gen \in Nat
        /\ runner[r].rev \in Nat
        /\ runner[r].reason \in Reasons
        /\ transition[runner[r].t].wait \in Nat
        /\ transition[runner[r].t].error \in Reasons
    BY AtWork DEF YieldReady, Retry, Finalize, Quarantine, Reject
  <1>1. UNCHANGED <<slot, status, faults>>
    BY DEF YieldReady, Retry, Finalize, Quarantine, Reject
  <1>2. \/ UNCHANGED <<transition, receipt>>
        \/ \E st \in {"ready", "completed", "quarantined", "rejected"},
              wait \in Nat, error \in Reasons : EndClaim(r, st, wait, error)
    <2>1. CASE YieldReady(r)
      BY <2>1, PhaseNames DEF YieldReady
    <2>2. CASE Retry(r)
      <3>1. 0..MaxDelay \subseteq Nat
        BY ConstantsAssumption DEF ConstantsAssumption
      <3> QED
        BY <2>2, <3>1, PhaseNames DEF Retry
    <2>3. CASE Finalize(r)
      BY <1>0, <2>3 DEF Finalize
    <2>4. CASE Quarantine(r)
      BY <1>0, <2>4 DEF Quarantine
    <2>5. CASE Reject(r)
      BY <1>0, <2>5, PhaseNames DEF Reject
    <2> QED
      BY <2>1, <2>2, <2>3, <2>4, <2>5
  <1>3. /\ transition' \in [Transitions -> TransitionRow]
        /\ receipt' \in [Commands -> ReceiptRow]
    BY <1>0, <1>2, EndClaimType, TypeUnchanged DEF TypeInv
  <1>4. effect' \in [Transitions -> [Effects -> EffectRow]]
    <2>1. \/ UNCHANGED effect
          \/ SetEffect(runner[r].t, Final, "applied", runner[r].gen)
          \/ effect' = [effect EXCEPT ![runner[r].t] =
                           [e \in Effects |-> [state |-> "rejected", gen |-> 0]]]
      BY DEF YieldReady, Retry, Finalize, Quarantine, Reject
    <2>2. CASE SetEffect(runner[r].t, Final, "applied", runner[r].gen)
      <3>1. Final \in Effects /\ "applied" \in EffectStates
        BY Ordinals DEF EffectStates
      <3> QED
        BY <1>0, <2>2, <3>1, SetEffectType DEF TypeInv
    <2>3. CASE effect' = [effect EXCEPT ![runner[r].t] =
                             [e \in Effects |->
                                 [state |-> "rejected", gen |-> 0]]]
      <3>1. [state |-> "rejected", gen |-> 0] \in EffectRow
        BY DEF EffectRow, EffectStates
      <3> QED
        BY <1>0, <2>3, <3>1 DEF TypeInv, TypeOK
    <2> QED
      BY <2>1, <2>2, <2>3, TypeUnchanged
  <1>5. binding' \in BindingRow
    <2>1. \/ UNCHANGED binding
          \/ binding' = [revision |-> runner[r].rev, active |-> None,
                         receipt |-> None]
          \/ binding' = [binding EXCEPT !.active = None, !.receipt = None]
      BY DEF YieldReady, Retry, Finalize, Quarantine, Reject
    <2>2. binding \in BindingRow
      BY DEF TypeInv, TypeOK
    <2>3. [revision |-> runner[r].rev, active |-> None, receipt |-> None]
              \in BindingRow
      BY <1>0 DEF BindingRow
    <2>4. [binding EXCEPT !.active = None, !.receipt = None] \in BindingRow
      BY <2>2 DEF BindingRow
    <2> QED
      BY <2>1, <2>2, <2>3, <2>4
  <1>6. RunnersTyped'
    <2>1. Stop(r) \/ \E reason \in Reasons : GoQuarantine(r, reason)
      BY PhaseNames DEF YieldReady, Retry, Finalize, Quarantine, Reject
    <2> QED
      BY <1>0, <2>1, StopType, GoQuarantineType
  <1> QED
    BY <1>1, <1>3, <1>4, <1>5, <1>6, TypeUnchanged, TypeInvParts

\* The empty database and idle runners are well formed.
LEMMA TypeInit == Init => TypeInv
  <1> SUFFICES ASSUME Init PROVE TypeInv
    OBVIOUS
  <1>1. transition \in [Transitions -> TransitionRow]
    BY DEF Init, TransitionRow, TransitionStates, Reasons
  <1>2. effect \in [Transitions -> [Effects -> EffectRow]]
    BY DEF Init, EffectRow, EffectStates
  <1>3. receipt \in [Commands -> ReceiptRow]
    BY DEF Init, ReceiptRow, ReceiptStates
  <1>4. binding \in BindingRow
    BY DEF Init, BindingRow
  <1>5. /\ slot \in [Transitions -> [NonFinal -> Nat]]
        /\ status \in Nat
        /\ faults \in Nat
    BY DEF Init
  <1>6. Idle \in RunnerState /\ Idle.pc = "idle"
    BY WorkingType DEF Idle, Phases, Reasons
  <1>7. runner \in [Runners -> RunnerState] /\ RunnerBound
    BY <1>6 DEF Init, RunnerBound
  <1> QED
    BY <1>1, <1>2, <1>3, <1>4, <1>5, <1>7 DEF TypeInv, TypeOK

\* Every step keeps TypeInv.
LEMMA TypeNext == TypeInv /\ [Next]_vars => TypeInv'
  <1> SUFFICES ASSUME TypeInv, [Next]_vars PROVE TypeInv'
    OBVIOUS
  <1>1. CASE UNCHANGED vars
    BY <1>1, TypeUnchanged, TypeInvParts DEF vars
  <1>2. ASSUME NEW r \in Runners, Step(r) PROVE TypeInv'
    BY <1>2, TypeLoop, TypeObserve, TypeHeartbeat, TypeLedger, TypeReserve,
       TypeEnd DEF Step
  <1> QED
    BY <1>1, <1>2, TypeEnvironment, TypeClaim DEF Next

\* Every reachable row and runner is well formed (TypeOK), and a runner at work
\* always knows its transition and works on a stage that transition has.
THEOREM TypeCorrect == Spec => []TypeOK
  <1>1. Spec => []TypeInv
    BY TypeInit, TypeNext, PTL DEF Spec
  <1>2. TypeInv => TypeOK
    BY DEF TypeInv
  <1> QED
    BY <1>1, <1>2, PTL

-----------------------------------------------------------------------------
(* The effect ledger: order, proof and fencing.                            *)


\* Program points after begin_effect and before the claim ends.
BegunPhases == {"begun", "execute", "insert", "finish", "finished", "yield"}

\* States of an effect that has been begun.
Done == {"applying", "applied"}

\* No effect is ahead of its header, and binding_finalize is never just begun.
LedgerBounded ==
    \A t \in Transitions : \A e \in Effects :
        /\ effect[t][e].gen <= transition[t].gen
        /\ effect[t][Final].state # "applying"

\* What a runner remembers of the ledger.  Its generation has been handed out;
\* once it has begun an effect the ledger shows the intent, under its own
\* generation or a later one; and where it believes that the reservation
\* exists, it does.
RunnerInformed(r) ==
    /\ runner[r].pc # "idle" =>
           /\ runner[r].gen >= 1
           /\ runner[r].gen <= transition[runner[r].t].gen
    /\ runner[r].pc \in BegunPhases =>
           /\ effect[runner[r].t][runner[r].eff].state \in Done
           /\ runner[r].gen <= effect[runner[r].t][runner[r].eff].gen
    /\ \/ runner[r].pc = "finish"
       \/ /\ runner[r].pc \in {"observed", "begin"}
          /\ runner[r].seen = "already_applied"
       => slot[runner[r].t][runner[r].eff] # 0

RunnersInformed == \A r \in Runners : RunnerInformed(r)

\* The inductive invariant.
LedgerInv ==
    /\ TypeInv
    /\ OrderedLedger
    /\ EffectProven
    /\ LedgerBounded
    /\ RunnersInformed
    /\ FencingTokenUnique

----------------------------------------------------------------------------
(* What most steps have in common.                                         *)

\* Nothing that a runner may remember is taken back: generations, intents and
\* reservations only grow.
Grows ==
    \A t \in Transitions :
        /\ transition[t].gen <= transition'[t].gen
        /\ \A e \in NonFinal :
              /\ effect[t][e].state \in Done =>
                     /\ effect'[t][e].state \in Done
                     /\ effect[t][e].gen <= effect'[t][e].gen
              /\ slot[t][e] # 0 => slot'[t][e] # 0

\* The types the ledger argument needs, for rows and for runners.
LEMMA Typed ==
    ASSUME TypeInv
    PROVE  /\ \A t \in Transitions : transition[t].gen \in Nat
           /\ \A t \in Transitions, e \in Effects : effect[t][e].gen \in Nat
           /\ \A t \in Transitions, e \in NonFinal : slot[t][e] \in Nat
           /\ \A r \in Runners : runner[r].gen \in Nat
           /\ \A r \in Runners :
                 runner[r].pc # "idle" => runner[r].t \in Transitions
           /\ \A r \in Runners :
                 runner[r].pc \in BegunPhases \cup {"observed", "begin"} =>
                     /\ runner[r].eff \in NonFinal
                     /\ runner[r].t \in Transitions
  BY DEF TypeInv, TypeOK, TransitionRow, EffectRow, RunnerState, RunnerBound,
         BegunPhases

\* A step that writes neither effects nor reservations, and completes nothing,
\* keeps the ledger in order.
LEMMA LedgerFrame ==
    ASSUME LedgerInv, TypeInv', UNCHANGED <<effect, slot>>,
           \A t \in Transitions :
               /\ transition[t].gen <= transition'[t].gen
               /\ transition'[t].state = "completed" <=>
                      transition[t].state = "completed"
    PROVE  OrderedLedger' /\ EffectProven' /\ LedgerBounded' /\ Grows
  <1>0. /\ \A t \in Transitions : transition[t].gen \in Nat
                                  /\ transition'[t].gen \in Nat
        /\ \A t \in Transitions, e \in Effects : effect[t][e].gen \in Nat
    BY Typed DEF LedgerInv, TypeInv, TypeOK, TransitionRow
  <1>1. OrderedLedger'
    BY DEF LedgerInv, OrderedLedger
  <1>2. EffectProven'
    BY DEF LedgerInv, EffectProven
  <1>3. LedgerBounded'
    BY <1>0 DEF LedgerInv, LedgerBounded
  <1>4. Grows
    BY <1>0, Ordinals DEF Grows
  <1> QED
    BY <1>1, <1>2, <1>3, <1>4

\* A runner that does not move stays informed.
LEMMA StillInformed ==
    ASSUME LedgerInv, TypeInv', Grows, NEW q \in Runners,
           runner'[q] = runner[q]
    PROVE  RunnerInformed(q)'
  <1>1. runner'[q] = runner[q] /\ RunnerInformed(q)
    BY DEF LedgerInv, RunnersInformed
  <1>2. /\ runner[q].gen \in Nat
        /\ runner[q].pc # "idle" =>
              /\ transition[runner[q].t].gen \in Nat
              /\ transition'[runner[q].t].gen \in Nat
              /\ transition[runner[q].t].gen <= transition'[runner[q].t].gen
    BY Typed DEF LedgerInv, TypeInv, TypeOK, TransitionRow, Grows
  <1>3. runner[q].pc \in BegunPhases \cup {"observed", "begin"} =>
            /\ effect[runner[q].t][runner[q].eff].gen \in Nat
            /\ effect'[runner[q].t][runner[q].eff].gen \in Nat
            /\ effect[runner[q].t][runner[q].eff].state \in Done =>
                   /\ effect'[runner[q].t][runner[q].eff].state \in Done
                   /\ effect[runner[q].t][runner[q].eff].gen
                          <= effect'[runner[q].t][runner[q].eff].gen
            /\ slot[runner[q].t][runner[q].eff] # 0 =>
                   slot'[runner[q].t][runner[q].eff] # 0
    <2> SUFFICES ASSUME runner[q].pc \in BegunPhases \cup {"observed", "begin"}
                 PROVE  /\ effect[runner[q].t][runner[q].eff].gen \in Nat
                        /\ effect'[runner[q].t][runner[q].eff].gen \in Nat
                        /\ effect[runner[q].t][runner[q].eff].state \in Done =>
                              /\ effect'[runner[q].t][runner[q].eff].state
                                     \in Done
                              /\ effect[runner[q].t][runner[q].eff].gen
                                     <= effect'[runner[q].t][runner[q].eff].gen
                        /\ slot[runner[q].t][runner[q].eff] # 0 =>
                              slot'[runner[q].t][runner[q].eff] # 0
      OBVIOUS
    <2>1. /\ runner[q].t \in Transitions
          /\ runner[q].eff \in NonFinal
          /\ runner[q].eff \in Effects
      BY Typed, Ordinals DEF LedgerInv
    <2>2. effect' \in [Transitions -> [Effects -> EffectRow]]
      BY DEF TypeInv, TypeOK
    <2> QED
      BY <2>1, <2>2, Typed DEF LedgerInv, EffectRow, Grows
  <1> QED
    BY <1>1, <1>2, <1>3 DEF RunnerInformed, BegunPhases

\* A runner that moves on under its own claim, and is told by the ledger what
\* its new program point says it knows, keeps all runners informed and apart.
LEMMA MoveInformed ==
    ASSUME LedgerInv, TypeInv', Grows, NEW r \in Runners, NEW s \in RunnerState,
           runner' = [runner EXCEPT ![r] = s],
           \/ s.pc = "idle"
           \/ /\ runner[r].pc # "idle"
              /\ s.t = runner[r].t
              /\ s.gen = runner[r].gen
              /\ s.pc \in BegunPhases =>
                     /\ effect'[s.t][s.eff].state \in Done
                     /\ s.gen <= effect'[s.t][s.eff].gen
              /\ \/ s.pc = "finish"
                 \/ s.pc \in {"observed", "begin"} /\ s.seen = "already_applied"
                 => slot'[s.t][s.eff] # 0
    PROVE  RunnersInformed' /\ FencingTokenUnique'
  <1>1. /\ runner'[r] = s
        /\ \A q \in Runners \ {r} : runner'[q] = runner[q]
    BY DEF LedgerInv, TypeInv, TypeOK
  <1>2. FencingTokenUnique'
    BY <1>1 DEF LedgerInv, FencingTokenUnique
  <1>3. ASSUME NEW q \in Runners, q # r PROVE RunnerInformed(q)'
    BY <1>1, <1>3, StillInformed
  <1>4. RunnerInformed(r)'
    <2>1. CASE s.pc = "idle"
      BY <1>1, <2>1 DEF RunnerInformed, BegunPhases
    <2>2. CASE s.pc # "idle"
      <3>1. /\ runner[r].gen \in Nat
            /\ transition[runner[r].t].gen \in Nat
            /\ transition'[runner[r].t].gen \in Nat
            /\ transition[runner[r].t].gen <= transition'[runner[r].t].gen
        BY <2>2, Typed DEF LedgerInv, TypeInv, TypeOK, TransitionRow, Grows
      <3>2. runner[r].gen >= 1 /\ runner[r].gen <= transition[runner[r].t].gen
        BY <2>2 DEF LedgerInv, RunnersInformed, RunnerInformed
      <3> QED
        BY <1>1, <2>2, <3>1, <3>2 DEF RunnerInformed
    <2> QED
      BY <2>1, <2>2
  <1> QED
    BY <1>2, <1>3, <1>4 DEF RunnersInformed

\* A runner that stops, or knows no more than its claim, is informed.
LEMMA RestInformed ==
    ASSUME LedgerInv, TypeInv', Grows, NEW r \in Runners,
           \/ Stop(r)
           \/ /\ runner[r].pc # "idle"
              /\ GoRetry(r) \/ \E reason \in Reasons : GoQuarantine(r, reason)
    PROVE  RunnersInformed' /\ FencingTokenUnique'
  <1>0. "idle" \in Phases /\ "none" \in Reasons
    BY DEF Phases, Reasons
  <1>1. CASE Stop(r)
    <2>1. runner' = [runner EXCEPT ![r] = Idle]
      BY <1>1 DEF Stop
    <2> QED
      BY <2>1, IdleType, MoveInformed
  <1>2. ASSUME NEW pc \in {"retry", "quarantine"}, NEW attempt \in Int,
               NEW reason \in Reasons, runner[r].pc # "idle",
               runner' = [runner EXCEPT ![r] = Working(pc, runner[r].t,
                              runner[r].gen, attempt, reason)]
        PROVE  RunnersInformed' /\ FencingTokenUnique'
    <2> DEFINE s == Working(pc, runner[r].t, runner[r].gen, attempt, reason)
    <2>1. pc \in Phases
      BY PhaseNames
    <2>2. runner[r].t \in Transitions /\ runner[r].gen \in Nat
      BY <1>2, Typed DEF LedgerInv
    <2>3. /\ s \in RunnerState
          /\ s.pc = pc /\ s.t = runner[r].t /\ s.gen = runner[r].gen
      BY <2>1, <2>2, WorkingType
    <2>4. runner' = [runner EXCEPT ![r] = s]
      BY <1>2
    <2>5. s.pc \notin BegunPhases /\ s.pc \notin {"finish", "observed", "begin"}
      BY <2>3 DEF BegunPhases
    <2> HIDE DEF s
    <2> QED
      BY <1>2, <2>3, <2>4, <2>5, MoveInformed
  <1>3. CASE runner[r].pc # "idle" /\ GoRetry(r)
    <2>1. runner[r].attempt \in Int
      BY DEF LedgerInv, TypeInv, TypeOK, RunnerState
    <2>2. runner' = [runner EXCEPT ![r] = Working("retry", runner[r].t,
                         runner[r].gen, runner[r].attempt, "none")]
      BY <1>3 DEF GoRetry
    <2> QED
      BY <1>0, <1>2, <1>3, <2>1, <2>2
  <1>4. CASE /\ runner[r].pc # "idle"
             /\ \E reason \in Reasons : GoQuarantine(r, reason)
    <2>1. PICK reason \in Reasons : runner' = [runner EXCEPT ![r] =
              Working("quarantine", runner[r].t, runner[r].gen, 0, reason)]
      BY <1>4 DEF GoQuarantine
    <2>2. 0 \in Int
      OBVIOUS
    <2> QED
      BY <1>2, <1>4, <2>1, <2>2
  <1> QED
    BY <1>1, <1>3, <1>4

\* A runner that goes on to a program point for which the ledger has the
\* evidence is informed.
LEMMA GotoInformed ==
    ASSUME LedgerInv, TypeInv', Grows, NEW r \in Runners, NEW pc \in Phases,
           runner[r].pc # "idle", Goto(r, pc),
           pc \in BegunPhases =>
               /\ effect'[runner[r].t][runner[r].eff].state \in Done
               /\ runner[r].gen <= effect'[runner[r].t][runner[r].eff].gen,
           \/ pc = "finish"
           \/ pc \in {"observed", "begin"} /\ runner[r].seen = "already_applied"
           => slot'[runner[r].t][runner[r].eff] # 0
    PROVE  RunnersInformed' /\ FencingTokenUnique'
  <1> DEFINE s == [runner[r] EXCEPT !.pc = pc]
  <1>1. /\ s \in RunnerState
        /\ s.pc = pc /\ s.t = runner[r].t /\ s.gen = runner[r].gen
        /\ s.eff = runner[r].eff /\ s.seen = runner[r].seen
    BY DEF LedgerInv, TypeInv, TypeOK, RunnerState
  <1>2. runner' = [runner EXCEPT ![r] = s]
    BY DEF Goto
  <1> HIDE DEF s
  <1> QED
    BY <1>1, <1>2, MoveInformed

\* A write that the holder of the lease makes to its header keeps every
\* generation, and touches no other header.
LEMMA HolderWrites ==
    ASSUME TypeInv, NEW r \in Runners, runner[r].pc # "idle", LeaseHeld(r),
           NEW st, NEW owner, NEW lease, NEW wait, NEW error,
           SetTransition(runner[r].t, st, owner, runner[r].gen, lease, wait,
                         error)
    PROVE  /\ \A t \in Transitions : transition'[t].gen = transition[t].gen
           /\ \A t \in Transitions \ {runner[r].t} :
                 transition'[t].state = transition[t].state
           /\ transition[runner[r].t].state = "applying"
           /\ transition'[runner[r].t].state = st
  <1>1. runner[r].t \in Transitions
    BY AtWork
  <1>2. transition[runner[r].t].state = "applying"
        /\ transition[runner[r].t].gen = runner[r].gen
    BY DEF LeaseHeld, Owned
  <1> QED
    BY <1>1, <1>2 DEF SetTransition, TypeInv, TypeOK

\* A heartbeat, and a claim that ends without completing the transition,
\* leave the ledger as it is.
LEMMA LedgerHolder ==
    ASSUME LedgerInv, TypeInv', NEW r \in Runners, runner[r].pc # "idle",
           UNCHANGED <<effect, slot>>,
           \/ UNCHANGED transition
           \/ /\ LeaseHeld(r)
              /\ \/ Renew(r)
                 \/ \E st \in {"ready", "quarantined"} : \E wait, error :
                       EndClaim(r, st, wait, error)
    PROVE  OrderedLedger' /\ EffectProven' /\ LedgerBounded' /\ Grows
  <1>1. \A t \in Transitions :
            /\ transition[t].gen <= transition'[t].gen
            /\ transition'[t].state = "completed" <=>
                   transition[t].state = "completed"
    <2>0. TypeInv /\ \A t \in Transitions : transition[t].gen \in Nat
      BY Typed DEF LedgerInv
    <2>1. CASE UNCHANGED transition
      BY <2>0, <2>1
    <2>2. ASSUME NEW st \in {"applying", "ready", "quarantined"},
                 NEW owner, NEW lease, NEW wait, NEW error, LeaseHeld(r),
                 SetTransition(runner[r].t, st, owner, runner[r].gen, lease,
                               wait, error)
          PROVE  \A t \in Transitions :
                    /\ transition[t].gen <= transition'[t].gen
                    /\ transition'[t].state = "completed" <=>
                           transition[t].state = "completed"
      <3>1. /\ \A t \in Transitions : transition'[t].gen = transition[t].gen
            /\ \A t \in Transitions \ {runner[r].t} :
                  transition'[t].state = transition[t].state
            /\ transition[runner[r].t].state = "applying"
            /\ transition'[runner[r].t].state = st
        BY <2>0, <2>2, HolderWrites
      <3> QED
        BY <2>0, <3>1
    <2>3. CASE LeaseHeld(r) /\ Renew(r)
      BY <2>2, <2>3 DEF Renew
    <2>4. ASSUME LeaseHeld(r), NEW st \in {"ready", "quarantined"},
                 NEW wait, NEW error, EndClaim(r, st, wait, error)
          PROVE  \A t \in Transitions :
                    /\ transition[t].gen <= transition'[t].gen
                    /\ transition'[t].state = "completed" <=>
                           transition[t].state = "completed"
      BY <2>2, <2>4 DEF EndClaim
    <2> QED
      BY <2>1, <2>3, <2>4
  <1> QED
    BY <1>1, LedgerFrame

----------------------------------------------------------------------------
(* One lemma per group of actions.                                         *)

\* The environment's steps, crashes and time.
LEMMA LedgerEnvironment ==
    ASSUME LedgerInv, TypeInv',
           \/ RuntimeAdvances \/ RecordStatus \/ Tick
           \/ \E c \in Commands : StageReceipt(c)
           \/ \E t \in Transitions : Stage(t)
           \/ \E r \in Runners : Crash(r)
    PROVE  LedgerInv'
  <1>0. TypeInv /\ \A t \in Transitions : transition[t].gen \in Nat
    BY Typed DEF LedgerInv
  <1>1. UNCHANGED <<effect, slot>>
    BY DEF RuntimeAdvances, RecordStatus, Tick, StageReceipt, Stage, Crash, Rows
  <1>2. \A t \in Transitions :
            /\ transition[t].gen <= transition'[t].gen
            /\ transition'[t].state = "completed" <=>
                   transition[t].state = "completed"
    <2>1. CASE UNCHANGED transition
      BY <1>0, <2>1
    <2>2. CASE Tick
      <3> SUFFICES ASSUME NEW t \in Transitions
                   PROVE  /\ transition'[t].gen = transition[t].gen
                          /\ transition'[t].state = transition[t].state
        BY <1>0
      <3>1. transition[t] \in TransitionRow
        BY <1>0 DEF TypeInv, TypeOK
      <3>2. transition'[t] =
                [transition[t] EXCEPT !.lease = CountDown(transition[t].lease),
                                      !.wait = CountDown(transition[t].wait)]
        BY <2>2 DEF Tick
      <3> QED
        BY <3>1, <3>2 DEF TransitionRow
    <2>3. ASSUME NEW u \in Transitions, Stage(u)
          PROVE  \A t \in Transitions :
                    /\ transition[t].gen <= transition'[t].gen
                    /\ transition'[t].state = "completed" <=>
                           transition[t].state = "completed"
      <3> SUFFICES ASSUME NEW t \in Transitions
                   PROVE  /\ transition'[t].gen = transition[t].gen
                          /\ transition'[t].state = "completed" <=>
                                 transition[t].state = "completed"
        BY <1>0
      <3>1. transition[t] \in TransitionRow
        BY <1>0 DEF TypeInv, TypeOK
      <3>2. transition' = [transition EXCEPT ![u] =
                         [transition[u] EXCEPT !.state = "ready",
                                               !.expected = binding.revision]]
            /\ transition[u].state = "absent"
        BY <2>3 DEF Stage
      <3>3. transition \in [Transitions -> TransitionRow]
        BY <1>0 DEF TypeInv, TypeOK
      <3> QED
        BY <3>1, <3>2, <3>3 DEF TransitionRow
    <2> QED
      BY <2>1, <2>2, <2>3
         DEF RuntimeAdvances, RecordStatus, StageReceipt, Crash, Rows
  <1>3. OrderedLedger' /\ EffectProven' /\ LedgerBounded' /\ Grows
    BY <1>1, <1>2, LedgerFrame
  <1>4. RunnersInformed' /\ FencingTokenUnique'
    <2>1. CASE UNCHANGED runner
      <3>1. FencingTokenUnique'
        BY <2>1 DEF LedgerInv, FencingTokenUnique
      <3>2. RunnersInformed'
        BY <1>3, <2>1, StillInformed DEF RunnersInformed
      <3> QED
        BY <3>1, <3>2
    <2>2. ASSUME NEW r \in Runners, Crash(r)
          PROVE  RunnersInformed' /\ FencingTokenUnique'
      BY <1>3, <2>2, RestInformed DEF Crash
    <2> QED
      BY <2>1, <2>2 DEF RuntimeAdvances, RecordStatus, Tick, StageReceipt, Stage
  <1> QED
    BY <1>3, <1>4 DEF LedgerInv

\* A claim gets a generation later than any that is still at work.
LEMMA LedgerClaim ==
    ASSUME LedgerInv, TypeInv', NEW r \in Runners, NEW t \in Transitions,
           Claim(r, t)
    PROVE  LedgerInv'
  <1> DEFINE s == Working("loop", t, NextGeneration(t), 0, "none")
  <1>0. TypeInv /\ \A u \in Transitions : transition[u].gen \in Nat
    BY Typed DEF LedgerInv
  <1>1. NextGeneration(t) = transition[t].gen + 1 /\ NextGeneration(t) \in Nat
    BY <1>0 DEF NextGeneration
  <1>2. /\ transition[t].state \in {"ready", "applying"}
        /\ transition'[t].state = "applying"
        /\ transition'[t].gen = transition[t].gen + 1
        /\ \A u \in Transitions \ {t} : transition'[u] = transition[u]
    BY <1>0, <1>1 DEF Claim, Claimable, SetTransition, TypeInv, TypeOK
  <1>3. OrderedLedger' /\ EffectProven' /\ LedgerBounded' /\ Grows
    <2>1. UNCHANGED <<effect, slot>>
      BY DEF Claim
    <2>2. \A u \in Transitions :
              /\ transition[u].gen <= transition'[u].gen
              /\ transition'[u].state = "completed" <=>
                     transition[u].state = "completed"
      BY <1>0, <1>2
    <2> QED
      BY <2>1, <2>2, LedgerFrame
  <1>4. s.pc = "loop" /\ s.t = t /\ s.gen = NextGeneration(t)
    <2>1. "loop" \in Phases /\ "none" \in Reasons
      BY PhaseNames
    <2> QED
      BY <1>1, <2>1, WorkingType
  <1>5. /\ runner'[r] = s
        /\ \A q \in Runners \ {r} : runner'[q] = runner[q]
    BY <1>0 DEF Claim, TypeInv, TypeOK
  <1> HIDE DEF s
  <1>6. \A q \in Runners :
            /\ runner[q].gen \in Nat
            /\ runner[q].pc # "idle" =>
                   runner[q].gen <= transition[runner[q].t].gen
    BY <1>0, Typed DEF LedgerInv, RunnersInformed, RunnerInformed
  <1>7. FencingTokenUnique'
    <2>1. ASSUME NEW q \in Runners, q # r, runner'[q].pc # "idle",
                 runner'[q].t = s.t
          PROVE  runner'[q].gen # s.gen
      BY <1>0, <1>1, <1>4, <1>5, <1>6, <2>1
    <2> QED
      BY <1>5, <2>1 DEF LedgerInv, FencingTokenUnique
  <1>8. RunnersInformed'
    <2>1. ASSUME NEW q \in Runners, q # r PROVE RunnerInformed(q)'
      BY <1>3, <1>5, <2>1, StillInformed
    <2>2. RunnerInformed(r)'
      BY <1>0, <1>1, <1>2, <1>4, <1>5 DEF RunnerInformed, BegunPhases
    <2> QED
      BY <2>1, <2>2 DEF RunnersInformed
  <1> QED
    BY <1>3, <1>7, <1>8 DEF LedgerInv

\* The start of _run_claimed.
LEMMA LedgerLoop ==
    ASSUME LedgerInv, TypeInv', NEW r \in Runners, Loop(r)
    PROVE  LedgerInv'
  <1>0. runner[r].pc # "idle" /\ UNCHANGED <<effect, slot>>
    BY DEF Loop
  <1>1. OrderedLedger' /\ EffectProven' /\ LedgerBounded' /\ Grows
    BY <1>0, LedgerHolder DEF Loop
  <1>2. RunnersInformed' /\ FencingTokenUnique'
    <2>1. CASE LeaseHeld(r)
      <3>1. PICK f \in Effects :
                runner' = [runner EXCEPT ![r] =
                      [runner[r] EXCEPT
                          !.pc = IF f = Final THEN "finalize_observe"
                                              ELSE "observe",
                          !.eff = f,
                          !.attempt = StageAttempt(runner[r].t, f)]]
        BY <2>1 DEF Loop
      <3> DEFINE s == [runner[r] EXCEPT
                          !.pc = IF f = Final THEN "finalize_observe"
                                              ELSE "observe",
                          !.eff = f,
                          !.attempt = StageAttempt(runner[r].t, f)]
      <3>2. runner[r] \in RunnerState /\ runner \in [Runners -> RunnerState]
        BY DEF LedgerInv, TypeInv, TypeOK
      <3>3. /\ runner' = [runner EXCEPT ![r] = s]
            /\ s.pc = IF f = Final THEN "finalize_observe" ELSE "observe"
            /\ s.t = runner[r].t /\ s.gen = runner[r].gen
        BY <3>1, <3>2 DEF RunnerState
      <3> HIDE DEF s
      <3>4. s \in RunnerState
        <4>1. runner' \in [Runners -> RunnerState] /\ runner'[r] = s
          BY <3>2, <3>3 DEF TypeInv, TypeOK
        <4> QED
          BY <4>1
      <3>5. /\ s.pc \notin BegunPhases
            /\ s.pc \notin {"finish", "observed", "begin"}
        BY <3>3 DEF BegunPhases
      <3> QED
        BY <1>0, <1>1, <3>3, <3>4, <3>5, MoveInformed
    <2>2. CASE ~LeaseHeld(r)
      BY <1>1, <2>2, RestInformed DEF Loop
    <2> QED
      BY <2>1, <2>2
  <1> QED
    BY <1>1, <1>2 DEF LedgerInv

\* An observer that answers already_applied has seen the reservation.
LEMMA LedgerObserve ==
    ASSUME LedgerInv, TypeInv', NEW r \in Runners, Observe(r)
    PROVE  LedgerInv'
  <1>0. runner[r].pc # "idle" /\ UNCHANGED <<transition, effect, slot>>
    BY DEF Observe, Rows
  <1>1. OrderedLedger' /\ EffectProven' /\ LedgerBounded' /\ Grows
    BY <1>0, LedgerHolder
  <1>2. RunnersInformed' /\ FencingTokenUnique'
    <2>1. PICK seen \in {"already_applied", "executable", "retry",
                         "quarantine"} :
              /\ seen = "already_applied" =>
                     slot[runner[r].t][runner[r].eff] # 0
              /\ runner' = [runner EXCEPT ![r] =
                    [runner[r] EXCEPT !.pc = "observed", !.seen = seen]]
      BY DEF Observe
    <2> DEFINE s == [runner[r] EXCEPT !.pc = "observed", !.seen = seen]
    <2>2. runner[r] \in RunnerState /\ runner \in [Runners -> RunnerState]
      BY DEF LedgerInv, TypeInv, TypeOK
    <2>3. /\ runner' = [runner EXCEPT ![r] = s]
          /\ s.pc = "observed" /\ s.seen = seen /\ s.eff = runner[r].eff
          /\ s.t = runner[r].t /\ s.gen = runner[r].gen
      BY <2>1, <2>2 DEF RunnerState
    <2> HIDE DEF s
    <2>4. s \in RunnerState
      <3>1. runner' \in [Runners -> RunnerState] /\ runner'[r] = s
        BY <2>2, <2>3 DEF TypeInv, TypeOK
      <3> QED
        BY <3>1
    <2>5. s.pc \notin BegunPhases
      BY <2>3 DEF BegunPhases
    <2> QED
      BY <1>0, <1>1, <2>1, <2>3, <2>4, <2>5, MoveInformed, ZenonT(40)
  <1> QED
    BY <1>1, <1>2 DEF LedgerInv

\* The finalization observer touches nothing the ledger knows.
LEMMA LedgerFinalizeObserve ==
    ASSUME LedgerInv, TypeInv', NEW r \in Runners, FinalizeObserve(r)
    PROVE  LedgerInv'
  <1>0. runner[r].pc # "idle" /\ UNCHANGED <<transition, effect, slot>>
    BY DEF FinalizeObserve, Rows
  <1>1. OrderedLedger' /\ EffectProven' /\ LedgerBounded' /\ Grows
    BY <1>0, LedgerHolder
  <1>2. RunnersInformed' /\ FencingTokenUnique'
    <2> DEFINE s == runner'[r]
    <2>2. runner[r] \in RunnerState /\ runner \in [Runners -> RunnerState]
      BY DEF LedgerInv, TypeInv, TypeOK
    <2>3. /\ runner' = [runner EXCEPT ![r] = s]
          /\ s.pc = "finalize_observed"
          /\ s.t = runner[r].t /\ s.gen = runner[r].gen
      <3>1. ASSUME NEW seen, NEW rev,
                   runner' = [runner EXCEPT ![r] =
                       [runner[r] EXCEPT !.pc = "finalize_observed",
                                         !.seen = seen, !.rev = rev]]
            PROVE  /\ runner' = [runner EXCEPT ![r] = s]
                   /\ s.pc = "finalize_observed"
                   /\ s.t = runner[r].t /\ s.gen = runner[r].gen
        BY <2>2, <3>1 DEF RunnerState
      <3>2. ASSUME NEW seen,
                   runner' = [runner EXCEPT ![r] =
                       [runner[r] EXCEPT !.pc = "finalize_observed",
                                         !.seen = seen]]
            PROVE  /\ runner' = [runner EXCEPT ![r] = s]
                   /\ s.pc = "finalize_observed"
                   /\ s.t = runner[r].t /\ s.gen = runner[r].gen
        BY <2>2, <3>2 DEF RunnerState
      <3> HIDE DEF s
      <3> QED
        BY <3>1, <3>2 DEF FinalizeObserve
    <2>4. s \in RunnerState
      BY DEF TypeInv, TypeOK
    <2> HIDE DEF s
    <2>5. s.pc \notin BegunPhases /\ s.pc \notin {"finish", "observed", "begin"}
      BY <2>3 DEF BegunPhases
    <2> QED
      BY <1>0, <1>1, <2>3, <2>4, <2>5, MoveInformed
  <1> QED
    BY <1>1, <1>2 DEF LedgerInv

\* Heartbeats, and the decisions taken after them.
LEMMA LedgerHeartbeat ==
    ASSUME LedgerInv, TypeInv', NEW r \in Runners,
           Observed(r) \/ Begun(r) \/ Finished(r) \/ FinalizeObserved(r)
    PROVE  LedgerInv'
  <1>0. runner[r].pc # "idle" /\ UNCHANGED <<effect, slot>>
    BY DEF Observed, Begun, Finished, FinalizeObserved
  <1>1. OrderedLedger' /\ EffectProven' /\ LedgerBounded' /\ Grows
    <2>1. UNCHANGED transition \/ (LeaseHeld(r) /\ Renew(r))
      BY DEF Observed, Begun, Finished, FinalizeObserved
    <2> QED
      BY <1>0, <2>1, LedgerHolder
  <1>2. RunnersInformed' /\ FencingTokenUnique'
    <2>1. \/ GoRetry(r)
          \/ \E reason \in Reasons : GoQuarantine(r, reason)
          \/ Observed(r) /\ Goto(r, "begin")
          \/ Begun(r) /\ Goto(r, "execute")
          \/ Finished(r) /\ Goto(r, "yield")
          \/ FinalizeObserved(r) /\ Goto(r, "finalize")
      BY PhaseNames DEF Observed, Begun, Finished, FinalizeObserved
    <2>2. RunnerInformed(r)
      BY DEF LedgerInv, RunnersInformed
    <2>3. CASE Observed(r) /\ Goto(r, "begin")
      <3>1. runner[r].pc = "observed" /\ "begin" \in Phases
        BY <2>3, PhaseNames DEF Observed
      <3>2. runner[r].seen = "already_applied" =>
                slot'[runner[r].t][runner[r].eff] # 0
        BY <1>0, <2>2, <3>1 DEF RunnerInformed
      <3>3. "begin" \notin BegunPhases
        BY DEF BegunPhases
      <3> QED
        BY <1>0, <1>1, <2>3, <3>1, <3>2, <3>3, GotoInformed
    <2>4. CASE (Begun(r) /\ Goto(r, "execute")) \/ (Finished(r) /\ Goto(r, "yield"))
      <3>1. runner[r].pc \in BegunPhases
        BY <2>4 DEF Begun, Finished, BegunPhases
      <3>2. /\ effect'[runner[r].t][runner[r].eff].state \in Done
            /\ runner[r].gen <= effect'[runner[r].t][runner[r].eff].gen
        BY <1>0, <2>2, <3>1 DEF RunnerInformed
      <3>3. "execute" \in Phases /\ "yield" \in Phases
        BY PhaseNames
      <3> QED
        BY <1>0, <1>1, <2>4, <3>2, <3>3, GotoInformed
    <2>5. CASE FinalizeObserved(r) /\ Goto(r, "finalize")
      <3>1. "finalize" \in Phases /\ "finalize" \notin BegunPhases
        BY PhaseNames DEF BegunPhases
      <3> QED
        BY <1>0, <1>1, <2>5, <3>1, GotoInformed
    <2> QED
      BY <1>0, <1>1, <2>1, <2>3, <2>4, <2>5, RestInformed
  <1> QED
    BY <1>1, <1>2 DEF LedgerInv

\* The first transaction of the reservation, and exceptions.
LEMMA LedgerExecute ==
    ASSUME LedgerInv, TypeInv', NEW r \in Runners, Execute(r) \/ Raise(r)
    PROVE  LedgerInv'
  <1>0. runner[r].pc # "idle" /\ UNCHANGED <<transition, effect, slot>>
    BY DEF Execute, Raise, Rows
  <1>1. OrderedLedger' /\ EffectProven' /\ LedgerBounded' /\ Grows
    BY <1>0, LedgerHolder
  <1>2. RunnersInformed' /\ FencingTokenUnique'
    <2>1. CASE Raise(r)
      BY <1>0, <1>1, <2>1, PhaseNames, RestInformed DEF Raise
    <2>2. CASE Execute(r)
      <3>1. runner[r].pc \in BegunPhases /\ RunnerInformed(r)
        BY <2>2 DEF Execute, BegunPhases, LedgerInv, RunnersInformed
      <3>2. /\ effect'[runner[r].t][runner[r].eff].state \in Done
            /\ runner[r].gen <= effect'[runner[r].t][runner[r].eff].gen
        BY <1>0, <3>1 DEF RunnerInformed
      <3>3. "finish" \in Phases /\ "insert" \in Phases
        BY PhaseNames
      <3>4. \/ GoRetry(r)
            \/ Goto(r, "insert")
            \/ Goto(r, "finish") /\ slot'[runner[r].t][runner[r].eff] # 0
        BY <1>0, <2>2 DEF Execute
      <3> QED
        BY <1>0, <1>1, <3>2, <3>3, <3>4, GotoInformed, RestInformed
    <2> QED
      BY <2>1, <2>2
  <1> QED
    BY <1>1, <1>2 DEF LedgerInv

\* A reservation is inserted for an effect whose intent is on record, by a
\* claim no later than the one on record.
LEMMA LedgerInsert ==
    ASSUME LedgerInv, TypeInv', NEW r \in Runners, Insert(r)
    PROVE  LedgerInv'
  <1> DEFINE t == runner[r].t
             e == runner[r].eff
  <1>0. /\ runner[r].pc # "idle" /\ runner[r].pc \in BegunPhases
        /\ UNCHANGED <<transition, effect>>
    BY DEF Insert, Rows, BegunPhases
  <1>1. t \in Transitions /\ e \in NonFinal /\ runner[r].gen \in Nat
    BY <1>0, Typed DEF LedgerInv
  <1>2. /\ effect[t][e].state \in Done
        /\ runner[r].gen <= effect[t][e].gen
        /\ runner[r].gen >= 1
    BY <1>0 DEF LedgerInv, RunnersInformed, RunnerInformed
  <1>3. \/ UNCHANGED slot
        \/ /\ slot[t][e] = 0
           /\ slot' = [slot EXCEPT ![t] = [slot[t] EXCEPT ![e] = runner[r].gen]]
    BY Zenon DEF Insert
  <1>4. ASSUME NEW u \in Transitions, NEW f \in NonFinal
        PROVE  \/ slot'[u][f] = slot[u][f]
               \/ u = t /\ f = e /\ slot[t][e] = 0 /\ slot'[u][f] = runner[r].gen
    <2>1. slot \in [Transitions -> [NonFinal -> Nat]]
      BY DEF LedgerInv, TypeInv, TypeOK
    <2> QED
      BY <1>1, <1>3, <2>1
  <1>5. OrderedLedger' /\ LedgerBounded'
    BY <1>0 DEF LedgerInv, OrderedLedger, LedgerBounded
  <1>6. EffectProven'
    <2> SUFFICES ASSUME NEW u \in Transitions, NEW f \in NonFinal
                 PROVE  /\ slot'[u][f] # 0 =>
                              /\ effect[u][f].state \in {"applying", "applied"}
                              /\ slot'[u][f] <= effect[u][f].gen
                        /\ effect[u][f].state = "applied" => slot'[u][f] # 0
      BY <1>0 DEF EffectProven
    <2>1. /\ slot[u][f] # 0 =>
                /\ effect[u][f].state \in {"applying", "applied"}
                /\ slot[u][f] <= effect[u][f].gen
          /\ effect[u][f].state = "applied" => slot[u][f] # 0
      BY DEF LedgerInv, EffectProven
    <2> QED
      BY <1>1, <1>2, <1>4, <2>1 DEF Done
  <1>7. Grows
    <2>1. /\ \A u \in Transitions : transition[u].gen \in Nat
          /\ \A u \in Transitions, f \in NonFinal : effect[u][f].gen \in Nat
      BY Typed, Ordinals DEF LedgerInv
    <2>2. \A u \in Transitions, f \in NonFinal :
              slot[u][f] # 0 => slot'[u][f] # 0
      BY <1>4
    <2> QED
      BY <1>0, <2>1, <2>2 DEF Grows
  <1>8. RunnersInformed' /\ FencingTokenUnique'
    <2>1. \/ GoRetry(r)
          \/ \E reason \in Reasons : GoQuarantine(r, reason)
          \/ /\ Goto(r, "finish")
             /\ slot' = IF slot[t][e] # 0 THEN slot
                        ELSE [slot EXCEPT ![t] =
                                 [slot[t] EXCEPT ![e] = runner[r].gen]]
      BY PhaseNames DEF Insert
    <2>2. CASE /\ Goto(r, "finish")
               /\ slot' = IF slot[t][e] # 0 THEN slot
                          ELSE [slot EXCEPT ![t] =
                                   [slot[t] EXCEPT ![e] = runner[r].gen]]
      <3>1. slot \in [Transitions -> [NonFinal -> Nat]]
        BY DEF LedgerInv, TypeInv, TypeOK
      <3>2. slot'[t][e] # 0
        BY <1>1, <1>2, <2>2, <3>1
      <3>3. "finish" \in Phases
        BY PhaseNames
      <3> QED
        BY <1>0, <1>2, <1>7, <2>2, <3>2, <3>3, GotoInformed
    <2> QED
      BY <1>0, <1>7, <2>1, <2>2, RestInformed
  <1> QED
    BY <1>5, <1>6, <1>8 DEF LedgerInv

\* The ledger after one entry of a live transition is written.  Everything
\* before the entry is applied by an earlier claim, nothing after it is begun.
LEMMA LedgerWrite ==
    ASSUME LedgerInv, TypeInv', NEW t \in Transitions, NEW e \in NonFinal,
           NEW st \in Done, NEW gen \in Nat, SetEffect(t, e, st, gen),
           UNCHANGED <<transition, slot>>,
           gen <= transition[t].gen,
           transition[t].state # "completed",
           effect[t][e].state \in Done => effect[t][e].gen <= gen,
           st = "applied" => slot[t][e] # 0,
           \A f \in NonFinal : f > e => effect[t][f].state \notin Done,
           \A f \in NonFinal : f < e => /\ effect[t][f].state = "applied"
                                        /\ effect[t][f].gen < gen
    PROVE  OrderedLedger' /\ EffectProven' /\ LedgerBounded' /\ Grows
  <1>0. effect \in [Transitions -> [Effects -> EffectRow]]
    BY DEF LedgerInv, TypeInv, TypeOK
  <1>1. /\ effect'[t][e].state = st
        /\ effect'[t][e].gen = gen
        /\ \A f \in Effects \ {e} : effect'[t][f] = effect[t][f]
        /\ \A u \in Transitions \ {t} : effect'[u] = effect[u]
    BY <1>0, Ordinals DEF SetEffect
  <1>2. /\ \A u \in Transitions : transition[u].gen \in Nat
        /\ \A u \in Transitions, f \in Effects : effect[u][f].gen \in Nat
        /\ \A u \in Transitions, f \in NonFinal : slot[u][f] \in Nat
    BY Typed DEF LedgerInv
  <1>3. effect[t][Final].state \notin Done
    BY Ordinals DEF LedgerInv, OrderedLedger, LedgerBounded, Done
  <1>4. \A f \in Effects : f \in NonFinal \/ f = Final
    BY Ordinals
  <1>5. /\ \A f \in Effects : f \in Int
        /\ e \in Effects /\ e # Final
    BY Ordinals DEF Effects
  <1>6. OrderedLedger'
    <2>1. ASSUME NEW u \in Transitions, NEW a \in Effects, NEW b \in Effects,
                 a < b, effect'[u][b].state \in Done
          PROVE  effect'[u][a].state = "applied"
                 /\ effect'[u][a].gen < effect'[u][b].gen
      <3>1. CASE u # t
        BY <1>1, <2>1, <3>1 DEF LedgerInv, OrderedLedger, Done
      <3>2. CASE u = t /\ b = e
        BY <1>1, <1>3, <1>4, <1>5, <2>1, <3>2, Ordinals DEF Effects, NonFinal
      <3>3. CASE u = t /\ b # e
        <4>1. effect[t][b].state \in Done
          BY <1>1, <2>1, <3>3
        <4>2. b < e
          BY <1>3, <1>4, <1>5, <3>3, <4>1
        <4>3. a # e
          BY <1>5, <2>1, <4>2
        <4> QED
          BY <1>1, <2>1, <3>3, <4>1, <4>3 DEF LedgerInv, OrderedLedger, Done
      <3> QED
        BY <3>1, <3>2, <3>3
    <2>2. ASSUME NEW u \in Transitions
          PROVE  effect'[u][Final].state = "applied" <=>
                     transition'[u].state = "completed"
      <3>1. effect'[u][Final].state = effect[u][Final].state
        BY <1>1, <1>5, Ordinals
      <3> QED
        BY <3>1 DEF LedgerInv, OrderedLedger
    <2> QED
      BY <2>1, <2>2 DEF OrderedLedger, Done
  <1>7. EffectProven'
    <2> SUFFICES ASSUME NEW u \in Transitions, NEW f \in NonFinal
                 PROVE  /\ slot[u][f] # 0 =>
                              /\ effect'[u][f].state \in {"applying", "applied"}
                              /\ slot[u][f] <= effect'[u][f].gen
                        /\ effect'[u][f].state = "applied" => slot[u][f] # 0
      BY DEF EffectProven
    <2>1. /\ slot[u][f] # 0 =>
                /\ effect[u][f].state \in {"applying", "applied"}
                /\ slot[u][f] <= effect[u][f].gen
          /\ effect[u][f].state = "applied" => slot[u][f] # 0
      BY DEF LedgerInv, EffectProven
    <2>2. CASE u = t /\ f = e
      BY <1>1, <1>2, <1>5, <2>1, <2>2 DEF Done
    <2>3. CASE ~(u = t /\ f = e)
      BY <1>1, <1>4, <2>1, <2>3, Ordinals
    <2> QED
      BY <2>2, <2>3
  <1>8. LedgerBounded'
    <2>1. ASSUME NEW u \in Transitions, NEW f \in Effects
          PROVE  /\ effect'[u][f].gen <= transition'[u].gen
                 /\ effect'[u][Final].state # "applying"
      <3>1. /\ effect[u][f].gen <= transition[u].gen
            /\ effect[u][Final].state # "applying"
        BY DEF LedgerInv, LedgerBounded
      <3>2. effect'[u][Final] = effect[u][Final]
        BY <1>1, <1>5, Ordinals
      <3>3. effect'[u][f].gen <= transition[u].gen
        BY <1>1, <3>1
      <3> QED
        BY <3>1, <3>2, <3>3
    <2> QED
      BY <2>1 DEF LedgerBounded
  <1>9. Grows
    <2> SUFFICES ASSUME NEW u \in Transitions
                 PROVE  /\ transition[u].gen <= transition[u].gen
                        /\ \A f \in NonFinal :
                              effect[u][f].state \in Done =>
                                  /\ effect'[u][f].state \in Done
                                  /\ effect[u][f].gen <= effect'[u][f].gen
      BY DEF Grows
    <2>1. ASSUME NEW f \in NonFinal, effect[u][f].state \in Done
          PROVE  effect'[u][f].state \in Done
                 /\ effect[u][f].gen <= effect'[u][f].gen
      <3>1. f \in Effects
        BY Ordinals
      <3>2. CASE u = t /\ f = e
        BY <1>1, <2>1, <3>2
      <3>3. CASE ~(u = t /\ f = e)
        <4>1. effect'[u][f] = effect[u][f]
          BY <1>1, <3>1, <3>3
        <4> QED
          BY <1>2, <2>1, <3>1, <4>1
      <3> QED
        BY <3>2, <3>3
    <2> QED
      BY <1>2, <2>1
  <1> QED
    BY <1>6, <1>7, <1>8, <1>9

\* begin_effect records an intent later than everything before it.
LEMMA LedgerBegin ==
    ASSUME LedgerInv, TypeInv', NEW r \in Runners, BeginEffect(r)
    PROVE  LedgerInv'
  <1> DEFINE t == runner[r].t
             e == runner[r].eff
  <1>0. runner[r].pc = "begin" /\ runner[r].pc # "idle"
        /\ UNCHANGED <<transition, slot>>
    BY DEF BeginEffect
  <1>1. t \in Transitions /\ e \in NonFinal /\ runner[r].gen \in Nat
    BY <1>0, Typed DEF LedgerInv
  <1>2. CASE /\ LeaseHeld(r)
             /\ CanBegin(t, e, runner[r].gen)
             /\ SetEffect(t, e, "applying", runner[r].gen)
             /\ Goto(r, IF runner[r].seen = "already_applied" THEN "finish"
                                                             ELSE "begun")
    <2>1. transition[t].state = "applying" /\ transition[t].gen = runner[r].gen
      BY <1>2 DEF LeaseHeld, Owned
    <2>2. \A f \in NonFinal : f \in Effects /\ f \in Int /\ (f < e => f \in 1..(e - 1))
      BY <1>1, Ordinals DEF NonFinal
    <2>3. \A f \in Effects :
              effect[t][f].gen \in Nat /\ effect[t][f].gen <= runner[r].gen
      BY <1>1, <2>1, Typed DEF LedgerInv, LedgerBounded
    <2>4. \A f \in NonFinal : f < e => /\ effect[t][f].state = "applied"
                                       /\ effect[t][f].gen < runner[r].gen
      BY <1>1, <1>2, <2>2, <2>3 DEF CanBegin
    <2>5. \A f \in NonFinal : f > e => effect[t][f].state \notin Done
      BY <1>2 DEF CanBegin, Done
    <2>6. effect[t][e].state \in Done => effect[t][e].gen <= runner[r].gen
      BY <1>1, <2>2, <2>3
    <2>7. runner[r].gen <= transition[t].gen
      BY <1>1, <2>1
    <2>8. OrderedLedger' /\ EffectProven' /\ LedgerBounded' /\ Grows
      <3>1. "applying" \in Done /\ transition[t].state # "completed"
        BY <2>1 DEF Done
      <3> QED
        BY <1>0, <1>1, <1>2, <2>4, <2>5, <2>6, <2>7, <3>1, LedgerWrite
    <2>9. RunnersInformed' /\ FencingTokenUnique'
      <3>1. effect \in [Transitions -> [Effects -> EffectRow]]
        BY DEF LedgerInv, TypeInv, TypeOK
      <3>2. /\ effect'[t][e].state \in Done
            /\ runner[r].gen <= effect'[t][e].gen
        BY <1>1, <1>2, <2>2, <3>1 DEF SetEffect, Done
      <3>3. runner[r].seen = "already_applied" => slot'[t][e] # 0
        BY <1>0 DEF LedgerInv, RunnersInformed, RunnerInformed
      <3>4. \/ runner[r].seen = "already_applied" /\ Goto(r, "finish")
            \/ Goto(r, "begun")
        BY <1>2
      <3>5. "finish" \in Phases /\ "begun" \in Phases
        BY PhaseNames
      <3> QED
        BY <1>0, <2>8, <3>2, <3>3, <3>4, <3>5, GotoInformed
    <2> QED
      BY <2>8, <2>9 DEF LedgerInv
  <1>3. CASE UNCHANGED effect /\ \E reason \in Reasons : GoQuarantine(r, reason)
    <2>1. OrderedLedger' /\ EffectProven' /\ LedgerBounded' /\ Grows
      BY <1>0, <1>3, LedgerHolder
    <2> QED
      BY <1>0, <1>3, <2>1, RestInformed DEF LedgerInv
  <1> QED
    BY <1>2, <1>3, PhaseNames DEF BeginEffect

\* finish_effect records a result only where the reservation exists.
LEMMA LedgerFinish ==
    ASSUME LedgerInv, TypeInv', NEW r \in Runners, FinishEffect(r)
    PROVE  LedgerInv'
  <1> DEFINE t == runner[r].t
             e == runner[r].eff
  <1>0. /\ runner[r].pc = "finish" /\ runner[r].pc # "idle"
        /\ runner[r].pc \in BegunPhases
        /\ UNCHANGED <<transition, slot>>
    BY DEF FinishEffect, BegunPhases
  <1>1. t \in Transitions /\ e \in NonFinal /\ runner[r].gen \in Nat
    BY <1>0, Typed DEF LedgerInv
  <1>2. CASE /\ LeaseHeld(r)
             /\ effect[t][e] = [state |-> "applying", gen |-> runner[r].gen]
             /\ SetEffect(t, e, "applied", runner[r].gen)
             /\ Goto(r, "finished")
    <2>1. transition[t].state = "applying" /\ transition[t].gen = runner[r].gen
      BY <1>2 DEF LeaseHeld, Owned
    <2>2. /\ \A f \in NonFinal : f \in Effects /\ f \in Int
          /\ effect[t][e].state = "applying"
          /\ effect[t][e].gen = runner[r].gen
      BY <1>2, Ordinals DEF NonFinal
    <2>3. slot[t][e] # 0
      BY <1>0 DEF LedgerInv, RunnersInformed, RunnerInformed
    <2>4. \A f \in NonFinal : f < e => /\ effect[t][f].state = "applied"
                                       /\ effect[t][f].gen < runner[r].gen
      BY <1>1, <2>2 DEF LedgerInv, OrderedLedger
    <2>5. \A f \in NonFinal : f > e => effect[t][f].state \notin Done
      BY <1>1, <2>2 DEF LedgerInv, OrderedLedger, Done
    <2>6. /\ effect[t][e].state \in Done => effect[t][e].gen <= runner[r].gen
          /\ runner[r].gen <= transition[t].gen
      BY <1>1, <2>1, <2>2
    <2>7. OrderedLedger' /\ EffectProven' /\ LedgerBounded' /\ Grows
      <3>1. "applied" \in Done /\ transition[t].state # "completed"
        BY <2>1 DEF Done
      <3> QED
        BY <1>0, <1>1, <1>2, <2>3, <2>4, <2>5, <2>6, <3>1, LedgerWrite
    <2>8. RunnersInformed' /\ FencingTokenUnique'
      <3>1. effect \in [Transitions -> [Effects -> EffectRow]]
        BY DEF LedgerInv, TypeInv, TypeOK
      <3>2. /\ effect'[t][e].state \in Done
            /\ runner[r].gen <= effect'[t][e].gen
        BY <1>1, <1>2, <2>2, <3>1 DEF SetEffect, Done
      <3>3. "finished" \in Phases
        BY PhaseNames
      <3> QED
        BY <1>0, <1>2, <2>7, <3>2, <3>3, GotoInformed
    <2> QED
      BY <2>7, <2>8 DEF LedgerInv
  <1>3. CASE UNCHANGED effect /\ \E reason \in Reasons : GoQuarantine(r, reason)
    <2>1. OrderedLedger' /\ EffectProven' /\ LedgerBounded' /\ Grows
      BY <1>0, <1>3, LedgerHolder
    <2> QED
      BY <1>0, <1>3, <2>1, RestInformed DEF LedgerInv
  <1> QED
    BY <1>2, <1>3, PhaseNames DEF FinishEffect, CanFinish

\* yield_ready, release and quarantine end a claim and leave the ledger alone.
LEMMA LedgerEnd ==
    ASSUME LedgerInv, TypeInv', NEW r \in Runners,
           YieldReady(r) \/ Retry(r) \/ Quarantine(r)
    PROVE  LedgerInv'
  <1>0. runner[r].pc # "idle" /\ UNCHANGED <<effect, slot>>
    BY DEF YieldReady, Retry, Quarantine
  <1>1. \/ UNCHANGED transition
        \/ /\ LeaseHeld(r)
           /\ \E st \in {"ready", "quarantined"} : \E wait, error :
                 EndClaim(r, st, wait, error)
    BY DEF YieldReady, Retry, Quarantine
  <1>2. OrderedLedger' /\ EffectProven' /\ LedgerBounded' /\ Grows
    BY <1>0, <1>1, LedgerHolder
  <1>3. Stop(r) \/ \E reason \in Reasons : GoQuarantine(r, reason)
    BY PhaseNames DEF YieldReady, Retry, Quarantine
  <1> QED
    BY <1>0, <1>2, <1>3, RestInformed DEF LedgerInv

\* finalize applies the last effect, in a later claim than every other one,
\* exactly when it completes the transition.
LEMMA LedgerFinalize ==
    ASSUME LedgerInv, TypeInv', NEW r \in Runners, Finalize(r)
    PROVE  LedgerInv'
  <1> DEFINE t == runner[r].t
             g == runner[r].gen
  <1>0. runner[r].pc # "idle" /\ UNCHANGED slot
    BY DEF Finalize
  <1>1. t \in Transitions /\ g \in Nat /\ TypeInv
    BY <1>0, Typed DEF LedgerInv
  <1>2. CASE UNCHANGED <<transition, effect>>
             /\ \E reason \in Reasons : GoQuarantine(r, reason)
    <2>1. OrderedLedger' /\ EffectProven' /\ LedgerBounded' /\ Grows
      BY <1>0, <1>2, LedgerHolder
    <2> QED
      BY <1>0, <1>2, <2>1, RestInformed DEF LedgerInv
  <1>3. CASE /\ LeaseHeld(r)
             /\ \A e \in NonFinal : effect[t][e].state = "applied"
             /\ StageAttempt(t, Final) >= 1
             /\ SetEffect(t, Final, "applied", g)
             /\ EndClaim(r, "completed", transition[t].wait, transition[t].error)
             /\ Stop(r)
    <2>1. /\ \A u \in Transitions : transition'[u].gen = transition[u].gen
          /\ \A u \in Transitions \ {t} :
                transition'[u].state = transition[u].state
          /\ transition'[t].state = "completed"
          /\ transition[t].gen = g
      <3>1. SetTransition(t, "completed", None, g, 0, transition[t].wait,
                          transition[t].error)
        BY <1>3 DEF EndClaim
      <3>2. transition[t].gen = g
        BY <1>3 DEF LeaseHeld, Owned
      <3> QED
        BY <1>0, <1>1, <1>3, <3>1, <3>2, HolderWrites
    <2>2. /\ effect'[t][Final].state = "applied"
          /\ effect'[t][Final].gen = g
          /\ \A f \in NonFinal : effect'[t][f] = effect[t][f]
          /\ \A u \in Transitions \ {t} : effect'[u] = effect[u]
      <3>1. effect \in [Transitions -> [Effects -> EffectRow]]
        BY <1>1 DEF TypeInv, TypeOK
      <3> QED
        BY <1>1, <1>3, <3>1, Ordinals DEF SetEffect
    <2>3. /\ \A u \in Transitions : transition[u].gen \in Nat
          /\ \A u \in Transitions, f \in Effects : effect[u][f].gen \in Nat
          /\ \A f \in Effects : f \in NonFinal \/ f = Final
          /\ \A f \in NonFinal : f \in Effects /\ f # Final
          /\ \A f \in Effects : f \in Int
          /\ Final \in Effects
      BY <1>1, Typed, Ordinals DEF Effects
    <2>4. \A f \in NonFinal : effect[t][f].gen < g
      <3> SUFFICES ASSUME NEW f \in NonFinal PROVE effect[t][f].gen < g
        OBVIOUS
      <3>1. LastEffect \in NonFinal /\ Final - 1 = LastEffect /\ Final # 1
            /\ f <= LastEffect /\ f \in Int
        BY Ordinals DEF NonFinal, Final
      <3>2. effect[t][LastEffect].gen < g
        BY <1>1, <1>3, <2>1, <2>3, <3>1 DEF StageAttempt, PreviousGeneration
      <3>3. f # LastEffect =>
                effect[t][f].gen < effect[t][LastEffect].gen
        BY <1>1, <1>3, <2>3, <3>1 DEF LedgerInv, OrderedLedger
      <3> QED
        BY <1>1, <2>3, <3>1, <3>2, <3>3
    <2>5. OrderedLedger'
      <3>1. ASSUME NEW u \in Transitions, NEW a \in Effects, NEW b \in Effects,
                   a < b, effect'[u][b].state \in Done
            PROVE  effect'[u][a].state = "applied"
                   /\ effect'[u][a].gen < effect'[u][b].gen
        <4>1. CASE u # t
          BY <2>2, <3>1, <4>1 DEF LedgerInv, OrderedLedger, Done
        <4>2. CASE u = t
          <5>1. a \in NonFinal
            BY <2>3, <3>1, Ordinals DEF Effects, NonFinal, Final
          <5>2. CASE b = Final
            BY <1>3, <2>2, <2>4, <4>2, <5>1, <5>2
          <5>3. CASE b # Final
            BY <2>2, <2>3, <3>1, <4>2, <5>1, <5>3
               DEF LedgerInv, OrderedLedger, Done
          <5> QED
            BY <5>2, <5>3
        <4> QED
          BY <4>1, <4>2
      <3>2. ASSUME NEW u \in Transitions
            PROVE  effect'[u][Final].state = "applied" <=>
                       transition'[u].state = "completed"
        BY <2>1, <2>2 DEF LedgerInv, OrderedLedger
      <3> QED
        BY <3>1, <3>2 DEF OrderedLedger, Done
    <2>6. EffectProven'
      <3>1. \A u \in Transitions, f \in NonFinal : effect'[u][f] = effect[u][f]
        BY <2>2
      <3> QED
        BY <1>0, <3>1 DEF LedgerInv, EffectProven
    <2>7. LedgerBounded'
      <3>1. ASSUME NEW u \in Transitions, NEW f \in Effects
            PROVE  /\ effect'[u][f].gen <= transition'[u].gen
                   /\ effect'[u][Final].state # "applying"
        <4>1. /\ effect[u][f].gen <= transition[u].gen
              /\ effect[u][Final].state # "applying"
          BY DEF LedgerInv, LedgerBounded
        <4> QED
          BY <1>1, <2>1, <2>2, <2>3, <4>1
      <3> QED
        BY <3>1 DEF LedgerBounded
    <2>8. Grows
      <3>1. \A u \in Transitions, f \in NonFinal :
                /\ effect'[u][f] = effect[u][f]
                /\ effect[u][f].gen \in Nat
        BY <2>2, <2>3
      <3> QED
        BY <1>0, <2>1, <2>3, <3>1 DEF Grows
    <2> QED
      BY <1>3, <2>5, <2>6, <2>7, <2>8, RestInformed DEF LedgerInv
  <1> QED
    BY <1>2, <1>3, PhaseNames DEF Finalize, CanFinalize

\* reject finds no effect begun, so there is no reservation and no runner that
\* has begun one.
LEMMA LedgerReject ==
    ASSUME LedgerInv, TypeInv', NEW r \in Runners, Reject(r)
    PROVE  LedgerInv'
  <1> DEFINE t == runner[r].t
  <1>0. runner[r].pc # "idle" /\ UNCHANGED slot /\ Stop(r) /\ LeaseHeld(r)
    BY DEF Reject
  <1>1. t \in Transitions /\ TypeInv
    BY <1>0, Typed DEF LedgerInv
  <1>2. /\ \A u \in Transitions : transition'[u].gen = transition[u].gen
        /\ \A u \in Transitions \ {t} :
              transition'[u].state = transition[u].state
        /\ transition'[t].state = "rejected"
    <2>1. SetTransition(t, "rejected", None, runner[r].gen, 0,
                        transition[t].wait, "rejected")
      BY DEF Reject, EndClaim
    <2> QED
      BY <1>0, <1>1, <2>1, HolderWrites
  <1>3. /\ \A e \in Effects : effect[t][e].state = "planned"
        /\ \A e \in Effects :
              effect'[t][e].state = "rejected" /\ effect'[t][e].gen = 0
        /\ \A u \in Transitions \ {t} : effect'[u] = effect[u]
    BY <1>1 DEF Reject, NoEffectBegun, TypeInv, TypeOK
  <1>4. /\ \A u \in Transitions : transition[u].gen \in Nat
        /\ \A u \in Transitions, f \in Effects : effect[u][f].gen \in Nat
        /\ NonFinal \subseteq Effects /\ Final \in Effects
    BY <1>1, Typed, Ordinals
  <1>5. \A e \in NonFinal : slot[t][e] = 0
    BY <1>1, <1>3, <1>4 DEF LedgerInv, EffectProven
  <1>6. OrderedLedger'
    <2>1. ASSUME NEW u \in Transitions
          PROVE  /\ \A e, f \in Effects :
                       /\ e < f
                       /\ effect'[u][f].state \in {"applying", "applied"}
                       => /\ effect'[u][e].state = "applied"
                          /\ effect'[u][e].gen < effect'[u][f].gen
                 /\ effect'[u][Final].state = "applied" <=>
                        transition'[u].state = "completed"
      <3>1. CASE u = t
        BY <1>2, <1>3, <1>4, <3>1
      <3>2. CASE u # t
        BY <1>2, <1>3, <3>2 DEF LedgerInv, OrderedLedger
      <3> QED
        BY <3>1, <3>2
    <2> QED
      BY <2>1 DEF OrderedLedger
  <1>7. EffectProven'
    <2>1. ASSUME NEW u \in Transitions, NEW e \in NonFinal
          PROVE  /\ slot[u][e] # 0 =>
                       /\ effect'[u][e].state \in {"applying", "applied"}
                       /\ slot[u][e] <= effect'[u][e].gen
                 /\ effect'[u][e].state = "applied" => slot[u][e] # 0
      <3>1. CASE u = t
        BY <1>3, <1>4, <1>5, <3>1
      <3>2. CASE u # t
        BY <1>3, <3>2 DEF LedgerInv, EffectProven
      <3> QED
        BY <3>1, <3>2
    <2> QED
      BY <1>0, <2>1 DEF EffectProven
  <1>8. LedgerBounded'
    <2>1. ASSUME NEW u \in Transitions, NEW f \in Effects
          PROVE  /\ effect'[u][f].gen <= transition'[u].gen
                 /\ effect'[u][Final].state # "applying"
      <3>1. /\ effect[u][f].gen <= transition[u].gen
            /\ effect[u][Final].state # "applying"
        BY DEF LedgerInv, LedgerBounded
      <3> QED
        BY <1>2, <1>3, <1>4, <3>1
    <2> QED
      BY <2>1 DEF LedgerBounded
  <1>9. Grows
    <2>1. ASSUME NEW u \in Transitions, NEW e \in NonFinal,
                 effect[u][e].state \in Done
          PROVE  /\ effect'[u][e].state \in Done
                 /\ effect[u][e].gen <= effect'[u][e].gen
      <3>1. u # t
        BY <1>3, <1>4, <2>1 DEF Done
      <3> QED
        BY <1>3, <1>4, <2>1, <3>1
    <2> QED
      BY <1>0, <1>2, <1>4, <2>1 DEF Grows
  <1> QED
    BY <1>0, <1>6, <1>7, <1>8, <1>9, RestInformed DEF LedgerInv

----------------------------------------------------------------------------
(* The theorems.                                                           *)

\* The invariant holds of the empty database.
LEMMA LedgerInit == Init => LedgerInv
  <1> SUFFICES ASSUME Init PROVE LedgerInv
    OBVIOUS
  <1>1. TypeInv
    BY TypeInit
  <1>2. \A r \in Runners : runner[r].pc = "idle"
    BY IdleType DEF Init
  <1>3. /\ \A t \in Transitions, e \in Effects :
              effect[t][e].state = "planned" /\ effect[t][e].gen = 0
        /\ \A t \in Transitions :
              transition[t].state = "absent" /\ transition[t].gen = 0
        /\ \A t \in Transitions, e \in NonFinal : slot[t][e] = 0
    BY DEF Init
  <1>4. OrderedLedger /\ EffectProven /\ LedgerBounded
    <2>1. OrderedLedger
      BY <1>3, Ordinals DEF OrderedLedger
    <2>2. EffectProven
      <3>1. NonFinal \subseteq Effects
        BY Ordinals
      <3> QED
        BY <1>3, <3>1 DEF EffectProven
    <2>3. LedgerBounded
      BY <1>3, Ordinals DEF LedgerBounded
    <2> QED
      BY <2>1, <2>2, <2>3
  <1>5. RunnersInformed /\ FencingTokenUnique
    BY <1>2 DEF RunnersInformed, RunnerInformed, BegunPhases,
                FencingTokenUnique
  <1> QED
    BY <1>1, <1>4, <1>5 DEF LedgerInv

\* Every step keeps it.
LEMMA LedgerNext == LedgerInv /\ [Next]_vars => LedgerInv'
  <1> SUFFICES ASSUME LedgerInv, [Next]_vars PROVE LedgerInv'
    OBVIOUS
  <1>0. TypeInv'
    BY TypeNext DEF LedgerInv
  <1>1. CASE UNCHANGED vars
    <2>1. OrderedLedger' /\ EffectProven' /\ LedgerBounded'
      BY <1>1 DEF vars, LedgerInv, OrderedLedger, EffectProven, LedgerBounded
    <2>2. RunnersInformed' /\ FencingTokenUnique'
      BY <1>1 DEF vars, LedgerInv, RunnersInformed, RunnerInformed,
                  FencingTokenUnique
    <2> QED
      BY <1>0, <2>1, <2>2 DEF LedgerInv
  <1>2. ASSUME NEW r \in Runners, Step(r) PROVE LedgerInv'
    BY <1>0, <1>2, LedgerLoop, LedgerObserve, LedgerHeartbeat, LedgerBegin,
       LedgerExecute, LedgerInsert, LedgerFinish, LedgerEnd,
       LedgerFinalizeObserve, LedgerFinalize, LedgerReject DEF Step
  <1> QED
    BY <1>0, <1>1, <1>2, LedgerEnvironment, LedgerClaim DEF Next

\* LedgerInv is an invariant.
LEMMA LedgerInvariant == Spec => []LedgerInv
  BY LedgerInit, LedgerNext, PTL DEF Spec

\* For any number of runners, effects, crashes and lost leases: a reservation
\* exists only under a recorded intent, and an effect is recorded as applied
\* only over a reservation (EffectProven: begin_effect, reserve and
\* finish_effect are three transactions).
THEOREM EffectsProven == Spec => []EffectProven
  <1>1. LedgerInv => EffectProven
    BY DEF LedgerInv
  <1> QED
    BY <1>1, LedgerInvariant, PTL

\* For any number of effects the ledger is a prefix of applied effects with
\* increasing generations, then at most one begun effect (OrderedLedger:
\* _assert_effect_begin_order and finalize).
THEOREM LedgerOrdered == Spec => []OrderedLedger
  <1>1. LedgerInv => OrderedLedger
    BY DEF LedgerInv
  <1> QED
    BY <1>1, LedgerInvariant, PTL

\* For any number of runners, all of which may share one owner_id, no two at
\* work on a transition hold the same claim_generation (FencingTokenUnique).
THEOREM FencingTokens == Spec => []FencingTokenUnique
  <1>1. LedgerInv => FencingTokenUnique
    BY DEF LedgerInv
  <1> QED
    BY <1>1, LedgerInvariant, PTL
=============================================================================
