------------------------- MODULE StepExecutionProofs -------------------------
(***************************************************************************)
(* Proofs about StepExecution, for any number of steps, worker threads and  *)
(* attempts, and any number of faults.                                      *)
(***************************************************************************)
EXTENDS StepExecution, FiniteSetTheorems, SequenceTheorems, TLAPS

\* The Hub at work on a step knows the attempt it claimed.
HubBound ==
    \A s \in Steps :
        hub[s].pc \in {"plan", "authorize", "submit", "running"} => hub[s].token \in Attempts

\* Every attempt after the first has paid for itself, and none has paid that
\* was not claimed.
AttemptsPaid ==
    /\ IsFiniteSet(consumed)
    /\ RetriesWithinBudget
    /\ \A s \in Steps : owner[s].token <= used + 1
    /\ \A s \in Steps : \A k \in Attempts : <<s, k>> \in consumed => k <= owner[s].token

TypeInv == TypeOK /\ HubBound /\ AttemptsPaid

-----------------------------------------------------------------------------
(* Type correctness and the retry budget. *)

\* Attempts are positive.
LEMMA AttemptRange ==
    (\A a \in Attempts : a \in Nat) /\ 0 \notin Attempts /\ 1 \in Attempts /\ MaxAttempts \in Nat
  BY StepAssumption DEF StepAssumption, Attempts

\* The fields of an ownership row.
LEMMA OwnerFields ==
    ASSUME TypeOK, NEW s \in Steps
    PROVE  /\ owner[s].token \in {0} \cup Attempts
           /\ owner[s].token \in Nat
           /\ owner[s].rev \in Nat
           /\ owner[s].status \in {"none", "active", "completed", "failed", "orphaned"}
  <1>1. owner[s] \in OwnerRow
    BY DEF TypeOK
  <1>2. owner[s].token \in {0} \cup Attempts /\ owner[s].rev \in Nat
    BY <1>1 DEF OwnerRow
  <1>3. owner[s].status \in {"none", "active", "completed", "failed", "orphaned"}
    BY <1>1 DEF OwnerRow
  <1>4. owner[s].token \in Nat
    BY <1>2, AttemptRange
  <1> QED
    BY <1>2, <1>3, <1>4

\* A retry that is not counted yet and finds the budget open stays in it.
LEMMA ConsumePays ==
    ASSUME TypeOK, AttemptsPaid, NEW id \in (Steps \X Attempts) \cup RetryIds,
           id \in consumed \/ BudgetLeft, Consume(id)
    PROVE  /\ used' \in Nat
           /\ consumed' = consumed \cup {id}
           /\ consumed' \subseteq (Steps \X Attempts) \cup RetryIds
           /\ IsFiniteSet(consumed')
           /\ RetriesWithinBudget'
           /\ used <= used'
           /\ id \notin consumed => used' = used + 1
  <1>1. /\ used \in Nat
        /\ MaxAttempts \in Nat
        /\ IsFiniteSet(consumed)
        /\ used = Cardinality(consumed)
        /\ used <= MaxAttempts - 1
    BY StepAssumption DEF StepAssumption, TypeOK, AttemptsPaid, RetriesWithinBudget
  <1>2. consumed' = consumed \cup {id} /\ used' = IF id \in consumed THEN used ELSE used + 1
    BY DEF Consume
  <1>3. /\ IsFiniteSet(consumed')
        /\ Cardinality(consumed') = IF id \in consumed THEN Cardinality(consumed)
                                                        ELSE Cardinality(consumed) + 1
    BY <1>1, <1>2, FS_AddElement
  <1>4. used' \in Nat /\ used' = Cardinality(consumed') /\ used' <= MaxAttempts - 1
    BY <1>1, <1>2, <1>3 DEF BudgetLeft
  <1> QED
    BY <1>1, <1>2, <1>3, <1>4 DEF TypeOK, RetriesWithinBudget

\* The ownership operations other than claim keep the token.
LEMMA SetOwnerType ==
    ASSUME TypeOK, NEW s \in Steps, NEW status \in {"completed", "failed", "orphaned"},
           SetOwner(s, status)
    PROVE  /\ owner' \in [Steps -> OwnerRow]
           /\ \A x \in Steps : owner'[x].token = owner[x].token
  <1>1. owner \in [Steps -> OwnerRow]
    BY DEF TypeOK
  <1>2. [token |-> owner[s].token, status |-> status, live |-> FALSE, rev |-> owner[s].rev + 1]
            \in OwnerRow
    BY OwnerFields DEF OwnerRow
  <1> QED
    BY <1>1, <1>2 DEF SetOwner

\* The budget depends on the tokens of the steps and nothing else of them.
LEMMA PaidFrame ==
    ASSUME AttemptsPaid, consumed' = consumed, used' = used,
           \A x \in Steps : owner'[x].token = owner[x].token
    PROVE  AttemptsPaid'
  BY DEF AttemptsPaid, RetriesWithinBudget

LEMMA ClaimType ==
    ASSUME TypeInv, NEW s \in Steps, Claim(s)
    PROVE  TypeInv'
  <1> DEFINE o == owner[s]
  <1>1. /\ o.token \in Nat /\ o.token \in {0} \cup Attempts /\ o.rev \in Nat
        /\ used \in Nat /\ o.token <= used + 1
    BY OwnerFields DEF TypeInv, TypeOK, AttemptsPaid
  <1>2. CASE o.status = "completed" \/ (o.status = "active" /\ o.live)
    <2>1. owner' = owner /\ consumed' = consumed /\ used' = used
      BY <1>2 DEF Claim
    <2>2. hub' = [hub EXCEPT ![s].pc = "stopped"]
      BY <1>2 DEF Claim
    <2>3. hub' \in [Steps -> HubState] /\ HubBound'
      BY <2>2, ZenonT(40) DEF TypeInv, TypeOK, HubBound, HubState
    <2>4. AttemptsPaid'
      BY <2>1, PaidFrame DEF TypeInv
    <2> QED
      BY <2>1, <2>3, <2>4 DEF TypeInv, TypeOK, Claim
  <1>3. CASE ~ (o.status = "completed" \/ (o.status = "active" /\ o.live))
    <2>1. /\ owner' = [owner EXCEPT ![s] = [token |-> o.token + 1, status |-> "active",
                                            live |-> TRUE, rev |-> o.rev + 1]]
          /\ hub' = [hub EXCEPT ![s] = [pc |-> "plan", token |-> o.token + 1,
                                        rev |-> o.rev + 1, eff |-> 0]]
      BY <1>3 DEF Claim
    <2>2. o.token + 1 \in Attempts
      BY <1>1, <1>3, AttemptRange DEF Claim, BudgetLeft, Attempts
    <2>3. /\ owner' \in [Steps -> OwnerRow]
          /\ \A x \in Steps : owner'[x].token = IF x = s THEN o.token + 1 ELSE owner[x].token
      <3>1. owner \in [Steps -> OwnerRow]
        BY DEF TypeInv, TypeOK
      <3>2. [token |-> o.token + 1, status |-> "active", live |-> TRUE, rev |-> o.rev + 1]
                \in OwnerRow
        BY <1>1, <2>2 DEF OwnerRow
      <3> QED
        BY <2>1, <3>1, <3>2
    <2>4. hub' \in [Steps -> HubState] /\ HubBound'
      BY <1>1, <2>1, <2>2, SMTT(20) DEF TypeInv, TypeOK, HubBound, HubState
    <2>5. /\ used' \in Nat
          /\ consumed' \subseteq (Steps \X Attempts) \cup RetryIds
          /\ AttemptsPaid'
      <3>1. CASE o.token = 0
        <4>1. consumed' = consumed /\ used' = used
          BY <1>3, <3>1 DEF Claim
        <4>2. \A x \in Steps : owner[x].token <= owner'[x].token /\ owner'[x].token <= used' + 1
          BY <1>1, <2>3, <3>1, <4>1, OwnerFields DEF TypeInv, AttemptsPaid
        <4>3. \A x \in Steps : \A k \in Attempts : <<x, k>> \in consumed' => k <= owner'[x].token
          BY <2>3, <4>1, <4>2, AttemptRange, OwnerFields DEF TypeInv, AttemptsPaid
        <4> QED
          BY <4>1, <4>2, <4>3 DEF TypeInv, TypeOK, AttemptsPaid, RetriesWithinBudget
      <3>2. CASE o.token > 0
        <4> DEFINE id == <<s, o.token + 1>>
        <4>1. BudgetLeft /\ Consume(id)
          BY <1>3, <3>2 DEF Claim
        <4>2. id \in (Steps \X Attempts) \cup RetryIds /\ id \notin consumed
          <5>1. id \in (Steps \X Attempts) \cup RetryIds
            BY <2>2
          <5>2. id \in consumed => o.token + 1 <= o.token
            BY <2>2 DEF TypeInv, AttemptsPaid
          <5> QED
            BY <1>1, <5>1, <5>2
        <4>3. /\ used' \in Nat
              /\ consumed' = consumed \cup {id}
              /\ consumed' \subseteq (Steps \X Attempts) \cup RetryIds
              /\ IsFiniteSet(consumed')
              /\ RetriesWithinBudget'
              /\ used' = used + 1
          BY <4>1, <4>2, ConsumePays DEF TypeInv
        <4>4. \A x \in Steps : owner'[x].token <= used' + 1
          BY <1>1, <2>3, <4>3, AttemptRange, OwnerFields DEF TypeInv, AttemptsPaid
        <4>5. \A x \in Steps : \A k \in Attempts : <<x, k>> \in consumed' => k <= owner'[x].token
          BY <1>1, <2>3, <4>3, AttemptRange, OwnerFields DEF TypeInv, AttemptsPaid
        <4> QED
          BY <4>3, <4>4, <4>5 DEF AttemptsPaid
      <3> QED
        BY <1>1, <3>1, <3>2
    <2> QED
      BY <2>3, <2>4, <2>5 DEF TypeInv, TypeOK, Claim
  <1> QED
    BY <1>2, <1>3

\* One step of the Hub on one run step keeps HubBound if the new state does.
LEMMA HubMoves ==
    ASSUME hub \in [Steps -> HubState], HubBound, NEW s \in Steps, NEW h \in HubState,
           hub' = [hub EXCEPT ![s] = h],
           h.pc \in {"plan", "authorize", "submit", "running"} => h.token \in Attempts
    PROVE  hub' \in [Steps -> HubState] /\ HubBound'
  BY DEF HubBound

\* The fields of the Hub's state of a step.
LEMMA HubFields ==
    ASSUME hub \in [Steps -> HubState], NEW s \in Steps
    PROVE  /\ hub[s] \in HubState
           /\ hub[s].token \in {0} \cup Attempts
           /\ hub[s].rev \in Nat
           /\ hub[s].eff \in Nat
  BY DEF HubState

LEMMA HubRecord ==
    ASSUME NEW r \in HubState, NEW h, NEW n \in Nat,
           NEW pc \in {"idle", "plan", "authorize", "submit", "running", "stopped", "done"},
           \/ h = [r EXCEPT !.pc = pc, !.eff = n]
           \/ h = [r EXCEPT !.rev = n]
           \/ h = [r EXCEPT !.pc = pc]
    PROVE  h \in HubState /\ h.token = r.token /\ h.pc \in {pc, r.pc}
  BY DEF HubState

\* A step of the Hub that only moves its program counter.
LEMMA HubGoes ==
    ASSUME hub \in [Steps -> HubState], HubBound, NEW s \in Steps,
           NEW pc \in {"idle", "plan", "authorize", "submit", "running", "stopped", "done"},
           hub' = [hub EXCEPT ![s].pc = pc],
           \/ pc \in {"idle", "stopped", "done"}
           \/ hub[s].pc \in {"plan", "authorize", "submit", "running"}
    PROVE  hub' \in [Steps -> HubState] /\ HubBound'
  <1> DEFINE h == [hub[s] EXCEPT !.pc = pc]
  <1>1. hub[s] \in HubState
    BY HubFields
  <1>2. hub' = [hub EXCEPT ![s] = h]
    OBVIOUS
  <1>3. h \in HubState /\ h.pc = pc /\ h.token = hub[s].token
    BY <1>1 DEF HubState
  <1>4. h.pc \in {"plan", "authorize", "submit", "running"} => h.token \in Attempts
    BY <1>3 DEF HubBound
  <1> QED
    BY <1>2, <1>3, <1>4, HubMoves

\* The fields of a ledger record.
LEMMA LedgerFields ==
    ASSUME ledger \in [Steps -> LedgerRow], NEW s \in Steps
    PROVE  /\ ledger[s] \in LedgerRow
           /\ ledger[s].status \in {"none", "planned", "authorized", "started", "failed",
                                    "uncertain", "completed"}
           /\ ledger[s].rev \in Nat
           /\ ledger[s].token \in {0} \cup Attempts
           /\ ledger[s].attempt \in {0} \cup Attempts
  BY DEF LedgerRow

\* A change of the ledger keeps its records well formed.
LEMMA ChangeType ==
    ASSUME ledger \in [Steps -> LedgerRow], NEW s \in Steps,
           NEW a \in {0} \cup Attempts, NEW b \in {0} \cup Attempts,
           NEW to \in {"authorized", "started", "failed", "uncertain", "completed"},
           Change(s, a, b, to)
    PROVE  ledger' \in [Steps -> LedgerRow]
  <1>1. [status |-> to, rev |-> ledger[s].rev + 1, token |-> a, attempt |-> b] \in LedgerRow
    BY LedgerFields DEF LedgerRow
  <1> QED
    BY <1>1 DEF Change

\* The other steps of the Hub keep the tokens of the steps.
LEMMA HubType ==
    ASSUME TypeInv, NEW s \in Steps,
           \/ Plan(s) \/ Authorize(s) \/ Submit(s) \/ CollectCompleted(s) \/ CollectFailed(s)
           \/ Heartbeat(s) \/ ReconcileOrphan(s) \/ Expire(s) \/ Cancel(s) \/ Retry(s)
    PROVE  TypeInv'
  <1> DEFINE TaskStates == {"absent", "open", "completed", "failed", "cancelled"}
             HubOK == hub' \in [Steps -> HubState] /\ HubBound'
  <1>0. /\ TypeOK /\ HubBound /\ AttemptsPaid
        /\ owner \in [Steps -> OwnerRow]
        /\ ledger \in [Steps -> LedgerRow]
        /\ hub \in [Steps -> HubState]
        /\ task \in [Steps -> [Attempts -> TaskStates]]
    BY DEF TypeInv, TypeOK
  <1>1. ASSUME owner' \in [Steps -> OwnerRow],
               \A x \in Steps : owner'[x].token = owner[x].token,
               ledger' \in [Steps -> LedgerRow],
               task' \in [Steps -> [Attempts -> TaskStates]],
               HubOK,
               UNCHANGED <<consumed, used, worker, nonces, execs, faults>>
        PROVE  TypeInv'
    BY <1>0, <1>1, PaidFrame DEF TypeInv, TypeOK
  <1> HIDE DEF HubOK
  <1>2. CASE Plan(s)
    <2> DEFINE l == IF ledger[s].status = "none"
                    THEN [status |-> "planned", rev |-> 1, token |-> 0, attempt |-> 0]
                    ELSE ledger[s]
               h == [hub[s] EXCEPT !.pc = IF Recoverable(l.status) THEN "authorize" ELSE "stopped",
                                   !.eff = l.rev]
    <2>1. l \in LedgerRow /\ l.rev \in Nat
      BY <1>0 DEF LedgerRow
    <2>2. ledger' = [ledger EXCEPT ![s] = l] /\ hub' = [hub EXCEPT ![s] = h] /\ hub[s].pc = "plan"
      BY <1>2 DEF Plan
    <2>3. h \in HubState /\ h.token = hub[s].token
      <3> DEFINE pc == IF Recoverable(l.status) THEN "authorize" ELSE "stopped"
      <3>1. pc \in {"idle", "plan", "authorize", "submit", "running", "stopped", "done"}
        OBVIOUS
      <3>2. hub[s] \in HubState
        BY <1>0, HubFields
      <3>3. h = [hub[s] EXCEPT !.pc = pc, !.eff = l.rev]
        OBVIOUS
      <3> HIDE DEF l, pc, h
      <3> QED
        BY <2>1, <3>1, <3>2, <3>3, HubRecord
    <2>4. hub[s].token \in Attempts
      BY <1>0, <2>2 DEF HubBound
    <2> HIDE DEF h
    <2>5. HubOK
      BY <1>0, <2>2, <2>3, <2>4, HubMoves DEF HubOK
    <2>6. ledger' \in [Steps -> LedgerRow]
      BY <1>0, <2>1, <2>2
    <2>7. UNCHANGED <<owner, consumed, used, task, worker, nonces, execs, faults>>
      BY <1>2 DEF Plan
    <2> QED
      BY <1>0, <1>1, <2>5, <2>6, <2>7
  <1>3. CASE Authorize(s)
    <2> DEFINE h == [hub[s] EXCEPT !.pc = "submit", !.eff = hub[s].eff + 1]
    <2>1. UNCHANGED <<owner, consumed, used, task, worker, nonces, execs, faults>>
      BY <1>3 DEF Authorize
    <2>2. hub[s].pc = "authorize" /\ hub[s].token \in Attempts
      BY <1>0, <1>3 DEF Authorize, HubBound
    <2>3. CASE MayChange(s, hub[s].eff, hub[s].token, FALSE, "authorized")
      <3>1. /\ Change(s, hub[s].token, ledger[s].attempt, "authorized")
            /\ hub' = [hub EXCEPT ![s] = h]
        BY <1>3, <2>3 DEF Authorize
      <3>2. h \in HubState /\ h.token = hub[s].token
        <4>1. hub[s] \in HubState /\ hub[s].eff + 1 \in Nat
          BY <1>0, HubFields
        <4> QED
          BY <4>1, HubRecord
      <3> HIDE DEF h
      <3>3. HubOK
        BY <1>0, <2>2, <3>1, <3>2, HubMoves DEF HubOK
      <3>4. ledger' \in [Steps -> LedgerRow]
        BY <1>0, <2>2, <3>1, LedgerFields, ChangeType
      <3> QED
        BY <1>0, <1>1, <2>1, <3>3, <3>4
    <2>4. CASE ~ MayChange(s, hub[s].eff, hub[s].token, FALSE, "authorized")
      <3>1. hub' = [hub EXCEPT ![s].pc = "stopped"] /\ ledger' = ledger
        BY <1>3, <2>4 DEF Authorize
      <3>2. HubOK
        BY <1>0, <3>1, HubGoes DEF HubOK
      <3> QED
        BY <1>0, <1>1, <2>1, <3>1, <3>2
    <2> QED
      BY <2>3, <2>4
  <1>4. CASE Submit(s)
    <2>1. /\ hub[s].pc = "submit" /\ hub[s].token \in Attempts
          /\ hub' = [hub EXCEPT ![s].pc = "running"]
          /\ task' = [task EXCEPT ![s][hub[s].token] = "open"]
          /\ UNCHANGED <<owner, consumed, used, ledger, worker, nonces, execs, faults>>
      BY <1>0, <1>4 DEF Submit, HubBound
    <2>2. HubOK
      BY <1>0, <2>1, HubGoes DEF HubOK
    <2>3. task' \in [Steps -> [Attempts -> TaskStates]]
      BY <1>0, <2>1
    <2> QED
      BY <1>0, <1>1, <2>1, <2>2, <2>3
  <1>5. CASE CollectCompleted(s) \/ CollectFailed(s)
    <2>1. PICK status \in {"completed", "failed"} : SetOwner(s, status)
      BY <1>5 DEF CollectCompleted, CollectFailed
    <2>2. PICK pc \in {"idle", "stopped", "done"} : hub' = [hub EXCEPT ![s].pc = pc]
      BY <1>5 DEF CollectCompleted, CollectFailed
    <2>3. UNCHANGED <<consumed, used, ledger, task, worker, nonces, execs, faults>>
      BY <1>5 DEF CollectCompleted, CollectFailed
    <2>4. HubOK
      BY <1>0, <2>2, HubGoes DEF HubOK
    <2> QED
      BY <1>0, <1>1, <2>1, <2>3, <2>4, SetOwnerType
  <1>6. CASE Heartbeat(s)
    <2> DEFINE o == [owner[s] EXCEPT !.rev = owner[s].rev + 1]
               h == [hub[s] EXCEPT !.rev = hub[s].rev + 1]
    <2>1. /\ hub[s].pc = "running"
          /\ owner' = [owner EXCEPT ![s] = o]
          /\ hub' = [hub EXCEPT ![s] = h]
          /\ UNCHANGED <<consumed, used, ledger, task, worker, nonces, execs, faults>>
      BY <1>6 DEF Heartbeat
    <2>2. h \in HubState /\ h.token = hub[s].token /\ hub[s].token \in Attempts
      <3>1. hub[s] \in HubState /\ hub[s].rev + 1 \in Nat
        BY <1>0, HubFields
      <3>2. h \in HubState /\ h.token = hub[s].token
        BY <3>1, HubRecord
      <3> QED
        BY <1>0, <2>1, <3>2 DEF HubBound
    <2>3. o \in OwnerRow /\ o.token = owner[s].token
      BY <1>0, OwnerFields DEF OwnerRow
    <2> HIDE DEF h, o
    <2>4. HubOK
      BY <1>0, <2>1, <2>2, HubMoves DEF HubOK
    <2>5. owner' \in [Steps -> OwnerRow] /\ \A x \in Steps : owner'[x].token = owner[x].token
      BY <1>0, <2>1, <2>3
    <2> QED
      BY <1>0, <1>1, <2>1, <2>4, <2>5
  <1>7. CASE ReconcileOrphan(s)
    <2>1. SetOwner(s, "orphaned")
          /\ UNCHANGED <<consumed, used, ledger, task, hub, worker, nonces, execs, faults>>
      BY <1>7 DEF ReconcileOrphan
    <2>2. HubOK
      BY <1>0, <2>1 DEF HubOK, HubBound
    <2> QED
      BY <1>0, <1>1, <2>1, <2>2, SetOwnerType
  <1>8. CASE Expire(s)
    <2> DEFINE o == [owner[s] EXCEPT !.live = FALSE]
    <2>1. /\ owner' = [owner EXCEPT ![s] = o]
          /\ UNCHANGED <<consumed, used, ledger, task, hub, worker, nonces, execs, faults>>
      BY <1>8 DEF Expire
    <2>2. o \in OwnerRow /\ o.token = owner[s].token
      BY <1>0, OwnerFields DEF OwnerRow
    <2> HIDE DEF o
    <2>3. owner' \in [Steps -> OwnerRow] /\ \A x \in Steps : owner'[x].token = owner[x].token
      BY <1>0, <2>1, <2>2
    <2>4. HubOK
      BY <1>0, <2>1 DEF HubOK, HubBound
    <2> QED
      BY <1>0, <1>1, <2>1, <2>3, <2>4
  <1>9. CASE Cancel(s)
    <2>1. /\ hub' = [hub EXCEPT ![s].pc = "stopped"]
          /\ SetOwner(s, "failed") \/ owner' = owner
          /\ UNCHANGED <<consumed, used, ledger, worker, nonces, execs, faults>>
      BY <1>9 DEF Cancel
    <2>2. HubOK
      BY <1>0, <2>1, HubGoes DEF HubOK
    <2>3. task' \in [Steps -> [Attempts -> TaskStates]]
      <3>1. hub[s].token \in Attempts
        BY <1>0, <1>9 DEF Cancel, HubBound
      <3>2. task' = [task EXCEPT ![s][hub[s].token] = IF @ = "open" THEN "cancelled" ELSE @]
        BY <1>9 DEF Cancel
      <3> QED
        BY <1>0, <3>1, <3>2
    <2>4. owner' \in [Steps -> OwnerRow] /\ \A x \in Steps : owner'[x].token = owner[x].token
      BY <1>0, <2>1, SetOwnerType
    <2> QED
      BY <1>0, <1>1, <2>1, <2>2, <2>3, <2>4
  <1>10. CASE Retry(s)
    <2>1. /\ hub' = [hub EXCEPT ![s].pc = "idle"]
          /\ UNCHANGED <<owner, consumed, used, ledger, task, worker, nonces, execs, faults>>
      BY <1>10 DEF Retry
    <2>2. HubOK
      BY <1>0, <2>1, HubGoes DEF HubOK
    <2> QED
      BY <1>0, <1>1, <2>1, <2>2
  <1> QED
    BY <1>2, <1>3, <1>4, <1>5, <1>6, <1>7, <1>8, <1>9, <1>10

\* A thread that is not idle has a job.
LEMMA JobFields ==
    ASSUME TypeOK, NEW w \in Threads, worker[w].pc # "idle"
    PROVE  /\ worker[w] \in Job
           /\ worker[w].step \in Steps
           /\ worker[w].att \in Attempts
           /\ worker[w].rev \in Nat
           /\ worker[w].exec \in Nat
           /\ worker[w].result \in {"completed", "failed", "uncertain"}
  <1>1. worker[w] \in Job \cup {Free}
    BY DEF TypeOK
  <1>2. Free.pc = "idle"
    BY DEF Free
  <1>3. worker[w] \in Job
    BY <1>1, <1>2
  <1> QED
    BY <1>3 DEF Job

JobPcs == {"authorize", "claim", "claiming", "execute", "executing", "finish", "finishing",
           "report"}

\* A thread goes on with its job: what it may have changed of it is named.
Moves(w, j, pc) ==
    /\ worker' = [worker EXCEPT ![w] = j]
    /\ j \in Job
    /\ j.pc = pc
    /\ j.step = worker[w].step
    /\ j.att = worker[w].att

Kept(w, j) ==
    /\ j.rev = worker[w].rev
    /\ j.exec = worker[w].exec
    /\ j.result = worker[w].result

LEMMA GoMoves ==
    ASSUME TypeOK, NEW w \in Threads, worker[w].pc # "idle", NEW pc \in JobPcs, Go(w, pc)
    PROVE  \E j \in Job : Moves(w, j, pc) /\ Kept(w, j)
  <1> DEFINE j == [worker[w] EXCEPT !.pc = pc]
  <1>1. worker[w] \in Job
    BY JobFields
  <1>2. /\ j \in Job /\ j.pc = pc /\ j.step = worker[w].step /\ j.att = worker[w].att
        /\ j.rev = worker[w].rev /\ j.exec = worker[w].exec /\ j.result = worker[w].result
    BY <1>1 DEF Job, JobPcs
  <1>3. worker' = [worker EXCEPT ![w] = j]
    BY DEF Go
  <1> HIDE DEF j
  <1> QED
    BY <1>2, <1>3 DEF Moves, Kept

\* What the steps of a thread do to it.
LEMMA ClaimEffectMoves ==
    ASSUME TypeOK, NEW w \in Threads, ClaimEffect(w)
    PROVE  /\ worker[w].pc = "claiming"
           /\ \E j \in Job :
                 /\ Moves(w, j, "execute") \/ Moves(w, j, "report")
                 /\ j.result = worker[w].result
                 /\ j.pc = "execute" =>
                       j.rev = ledger'[worker[w].step].rev /\ faults' = faults
           /\ faults' = faults \/ Lost
  <1> DEFINE t == worker[w]
             s == t.step
             free == ledger[s].token = t.att /\ "started" \in Transitions(ledger[s].status)
  <1>1. t.pc = "claiming"
    BY DEF ClaimEffect, On
  <1>2. t \in Job /\ s \in Steps /\ t.att \in Attempts
    BY <1>1, JobFields
  <1>3. ledger[s].rev \in Nat
    BY <1>2, LedgerFields DEF TypeOK
  <1>4. ledger' = ledger \/ Change(s, t.att, t.att, "started")
    BY DEF ClaimEffect
  <1>5. ledger'[s].rev \in Nat
    BY <1>2, <1>3, <1>4 DEF Change, TypeOK
  <1>6. CASE /\ worker' = [worker EXCEPT ![w] =
                  [t EXCEPT !.pc = IF free \/ Claimed(s, t.att) THEN "execute" ELSE "report",
                            !.rev = ledger'[s].rev]]
             /\ faults' = faults
    <2> DEFINE pc == IF free \/ Claimed(s, t.att) THEN "execute" ELSE "report"
               n == ledger'[s].rev
               j == [t EXCEPT !.pc = pc, !.rev = n]
    <2>1. pc \in {"execute", "report"}
      OBVIOUS
    <2>2. worker' = [worker EXCEPT ![w] = j]
      BY <1>6
    <2>3. n \in Nat
      BY <1>5
    <2> HIDE DEF pc, n, free
    <2>4. /\ j \in Job /\ j.pc = pc /\ j.step = t.step /\ j.att = t.att
          /\ j.rev = n /\ j.result = t.result
      BY <1>2, <2>1, <2>3 DEF Job
    <2> HIDE DEF j
    <2> QED
      BY <1>1, <1>6, <2>1, <2>2, <2>4 DEF Moves, n
  <1>7. CASE Lost /\ Go(w, "report")
    <2>1. PICK j \in Job : Moves(w, j, "report") /\ Kept(w, j)
      BY <1>1, <1>7, GoMoves DEF JobPcs
    <2> QED
      BY <1>1, <1>7, <2>1 DEF Moves, Kept
  <1> QED
    BY <1>6, <1>7 DEF ClaimEffect

LEMMA BeginMoves ==
    ASSUME TypeOK, NEW w \in Threads, Begin(w)
    PROVE  /\ worker[w].pc = "execute"
           /\ Len(execs[worker[w].step]) \in Nat
           /\ \E j \in Job : /\ Moves(w, j, "executing")
                             /\ j.exec = Len(execs[worker[w].step]) + 1
                             /\ j.rev = worker[w].rev
                             /\ j.result = worker[w].result
  <1> DEFINE t == worker[w]
             n == Len(execs[t.step]) + 1
             j == [t EXCEPT !.pc = "executing", !.exec = n]
  <1>1. t.pc = "execute" /\ worker' = [worker EXCEPT ![w] = j]
    BY DEF Begin, On
  <1>2. t \in Job /\ t.step \in Steps
    BY <1>1, JobFields
  <1>3. n \in Nat /\ Len(execs[t.step]) \in Nat
    BY <1>2 DEF TypeOK
  <1> HIDE DEF n
  <1>4. /\ j \in Job /\ j.pc = "executing" /\ j.step = t.step /\ j.att = t.att
        /\ j.rev = t.rev /\ j.exec = n /\ j.result = t.result
    BY <1>2, <1>3 DEF Job
  <1> HIDE DEF j
  <1> QED
    BY <1>1, <1>3, <1>4 DEF Moves, n

LEMMA FinishMoves ==
    ASSUME TypeOK, NEW w \in Threads, Finish(w)
    PROVE  LET t == worker[w]
               to == LedgerStatus(execs[t.step][t.exec])
               may == ledger[t.step].attempt = t.att
                         /\ MayChange(t.step, t.rev, t.att, TRUE, to)
           IN  /\ t.pc = "finishing"
               /\ to \in {"completed", "failed", "uncertain"}
               /\ may => Change(t.step, t.att, t.att, to)
               /\ ~ may => ledger' = ledger
               /\ \E j \in Job :
                     /\ Moves(w, j, "report")
                     /\ j.result = t.result \/ (may /\ j.result = to)
               /\ faults' = faults \/ Lost
  <1> DEFINE t == worker[w]
             to == LedgerStatus(execs[t.step][t.exec])
             may == ledger[t.step].attempt = t.att /\ MayChange(t.step, t.rev, t.att, TRUE, to)
  <1>1. t.pc = "finishing"
    BY DEF Finish, On
  <1>2. to \in {"completed", "failed", "uncertain"}
    BY DEF LedgerStatus
  <1>3. (may => Change(t.step, t.att, t.att, to)) /\ (~ may => ledger' = ledger)
    BY DEF Finish
  <1>4. t \in Job /\ t.result \in {"completed", "failed", "uncertain"}
    BY <1>1, JobFields
  <1>5. \/ /\ worker' = [worker EXCEPT ![w] =
                 [t EXCEPT !.pc = "report", !.result = IF may THEN to ELSE t.result]]
           /\ faults' = faults
        \/ may /\ Lost /\ Go(w, "report")
    BY DEF Finish
  <1> HIDE DEF to, may
  <1>6. (\E j \in Job : Moves(w, j, "report") /\ (j.result = t.result \/ (may /\ j.result = to)))
        /\ (faults' = faults \/ Lost)
    <2>1. CASE /\ worker' = [worker EXCEPT ![w] =
                     [t EXCEPT !.pc = "report", !.result = IF may THEN to ELSE t.result]]
               /\ faults' = faults
      <3> DEFINE res == IF may THEN to ELSE t.result
                 j == [t EXCEPT !.pc = "report", !.result = res]
      <3>1. res \in {"completed", "failed", "uncertain"}
        BY <1>2, <1>4
      <3>2. worker' = [worker EXCEPT ![w] = j]
        BY <2>1
      <3>3. res = t.result \/ (may /\ res = to)
        OBVIOUS
      <3> HIDE DEF res
      <3>4. j \in Job /\ j.pc = "report" /\ j.step = t.step /\ j.att = t.att /\ j.result = res
        BY <1>4, <3>1 DEF Job
      <3> HIDE DEF j
      <3> QED
        BY <2>1, <3>2, <3>3, <3>4 DEF Moves
    <2>2. CASE may /\ Lost /\ Go(w, "report")
      <3>1. PICK j \in Job : Moves(w, j, "report") /\ Kept(w, j)
        BY <1>1, <2>2, GoMoves DEF JobPcs
      <3> QED
        BY <2>2, <3>1 DEF Kept
    <2> QED
      BY <1>5, <2>1, <2>2
  <1> QED
    BY <1>1, <1>2, <1>3, <1>6 DEF to, may

\* Overwriting an element of a sequence.
LEMMA EndedSeq ==
    ASSUME NEW S, NEW q \in Seq(S), NEW i, NEW e \in S
    PROVE  /\ [q EXCEPT ![i] = e] \in Seq(S)
           /\ Len([q EXCEPT ![i] = e]) = Len(q)
  <1>1. Len(q) \in Nat /\ q \in [1 .. Len(q) -> S]
    OBVIOUS
  <1>2. [q EXCEPT ![i] = e] \in [1 .. Len(q) -> S]
    BY <1>1
  <1>3. [q EXCEPT ![i] = e] \in Seq(S)
    BY <1>1, <1>2, SeqDef
  <1>4. DOMAIN [q EXCEPT ![i] = e] = 1 .. Len(q)
    BY <1>1
  <1> QED
    BY <1>1, <1>3, <1>4, LenProperties

FaultCounts == [deliveries : Nat, restarts : Nat, lost : Nat]

\* A fault is counted.
LEMMA FaultCounted ==
    ASSUME NEW f \in FaultCounts
    PROVE  /\ [f EXCEPT !.deliveries = @ + 1] \in FaultCounts
           /\ [f EXCEPT !.restarts = @ + 1] \in FaultCounts
           /\ [f EXCEPT !.lost = @ + 1] \in FaultCounts
           /\ [f EXCEPT !.deliveries = @ + 1].restarts = f.restarts
           /\ [f EXCEPT !.restarts = @ + 1].restarts # 0
           /\ [f EXCEPT !.lost = @ + 1].restarts = f.restarts
  <1>1. PICK d \in Nat, r \in Nat, l \in Nat : f = [deliveries |-> d, restarts |-> r, lost |-> l]
    BY DEF FaultCounts
  <1>2. /\ [f EXCEPT !.deliveries = @ + 1] = [deliveries |-> d + 1, restarts |-> r, lost |-> l]
        /\ [f EXCEPT !.restarts = @ + 1] = [deliveries |-> d, restarts |-> r + 1, lost |-> l]
        /\ [f EXCEPT !.lost = @ + 1] = [deliveries |-> d, restarts |-> r, lost |-> l + 1]
    BY <1>1
  <1>3. d + 1 \in Nat /\ r + 1 \in Nat /\ l + 1 \in Nat /\ r + 1 # 0
    OBVIOUS
  <1> QED
    BY <1>1, <1>2, <1>3 DEF FaultCounts

\* The steps of the worker threads leave ownership and the Hub alone.
LEMMA WorkerType ==
    ASSUME TypeInv,
           \/ \E w \in Threads :
                 \/ WorkerStep(w)
                 \/ \E s \in Steps, a \in Attempts : Deliver(w, s, a)
                 \/ \E id \in RetryIds : ConsumeRetry(w, id)
           \/ \E p \in Processes : Restart(p)
    PROVE  TypeInv'
  <1> DEFINE TaskStates == {"absent", "open", "completed", "failed", "cancelled"}
             Ends == {"open", "done", "failed", "unknown"}
             WorkerOK == worker' \in [Threads -> Job \cup {Free}]
  <1>0. /\ TypeOK /\ HubBound /\ AttemptsPaid
        /\ ledger \in [Steps -> LedgerRow]
        /\ task \in [Steps -> [Attempts -> TaskStates]]
        /\ worker \in [Threads -> Job \cup {Free}]
        /\ nonces \in [Processes -> SUBSET (Steps \X Attempts)]
        /\ execs \in [Steps -> Seq(Ends)]
        /\ faults \in FaultCounts
    BY DEF TypeInv, TypeOK, FaultCounts
  <1>1. ASSUME ledger' \in [Steps -> LedgerRow],
               task' \in [Steps -> [Attempts -> TaskStates]],
               WorkerOK,
               nonces' \in [Processes -> SUBSET (Steps \X Attempts)],
               execs' \in [Steps -> Seq(Ends)],
               faults' \in FaultCounts,
               UNCHANGED <<owner, consumed, used, hub>>
        PROVE  TypeInv'
    <2>1. AttemptsPaid'
      BY <1>0, <1>1, PaidFrame
    <2>2. HubBound'
      BY <1>0, <1>1 DEF HubBound
    <2> QED
      BY <1>0, <1>1, <2>1, <2>2 DEF TypeInv, TypeOK, FaultCounts
  <1>2. ASSUME NEW w \in Threads, NEW j \in Job, NEW pc, Moves(w, j, pc)
        PROVE  WorkerOK
    BY <1>0, <1>2 DEF Moves
  <1>3. ASSUME Lost
        PROVE  faults' \in FaultCounts
    BY <1>0, <1>3, FaultCounted DEF Lost
  <1>4. ASSUME NEW w \in Threads, WorkerStep(w)
        PROVE  TypeInv'
    <2> DEFINE t == worker[w]
    <2>1. CASE AuthorizeExecution(w)
      <3>1. t.pc = "authorize" /\ UNCHANGED <<owner, consumed, used, ledger, task, hub, execs, faults>>
        BY <2>1 DEF AuthorizeExecution, On
      <3>2. \E pc \in {"claim", "report"} : Go(w, pc)
        BY <2>1 DEF AuthorizeExecution
      <3>3. WorkerOK
        BY <1>0, <1>2, <3>1, <3>2, GoMoves DEF JobPcs
      <3>4. <<t.step, t.att>> \in Steps \X Attempts /\ ProcessOf[w] \in Processes
        <4>1. t.step \in Steps /\ t.att \in Attempts
          BY <1>0, <3>1, JobFields
        <4>2. ProcessOf[w] \in Processes
          BY StepAssumption DEF StepAssumption
        <4> QED
          BY <4>1, <4>2
      <3>5. nonces' = nonces
            \/ nonces' = [nonces EXCEPT ![ProcessOf[w]] = @ \cup {<<t.step, t.att>>}]
        BY <2>1 DEF AuthorizeExecution
      <3>6. nonces' \in [Processes -> SUBSET (Steps \X Attempts)]
        <4> DEFINE N == nonces[ProcessOf[w]] \cup {<<t.step, t.att>>}
        <4>1. N \in SUBSET (Steps \X Attempts)
          BY <1>0, <3>4
        <4>2. nonces' = nonces \/ nonces' = [nonces EXCEPT ![ProcessOf[w]] = N]
          BY <3>5
        <4> HIDE DEF N
        <4> QED
          BY <1>0, <3>4, <4>1, <4>2
      <3> QED
        BY <1>0, <1>1, <3>1, <3>3, <3>6
    <2>2. CASE CheckOwner(w, "claim", "claiming") \/ CheckOwner(w, "finish", "finishing")
      <3>1. t.pc # "idle"
            /\ UNCHANGED <<owner, consumed, used, ledger, task, hub, nonces, execs, faults>>
        BY <2>2 DEF CheckOwner, On
      <3>2. \E pc \in {"claiming", "finishing", "report"} : Go(w, pc)
        BY <2>2 DEF CheckOwner
      <3>3. WorkerOK
        BY <1>0, <1>2, <3>1, <3>2, GoMoves DEF JobPcs
      <3> QED
        BY <1>0, <1>1, <3>1, <3>3
    <2>3. CASE ClaimEffect(w)
      <3>1. t.pc = "claiming" /\ UNCHANGED <<owner, consumed, used, task, hub, nonces, execs>>
        BY <2>3 DEF ClaimEffect, On
      <3>2. WorkerOK
        BY <1>0, <1>2, <2>3, ClaimEffectMoves
      <3>3. faults' \in FaultCounts
        BY <1>0, <1>3, <2>3, ClaimEffectMoves
      <3>4. ledger' = ledger \/ Change(t.step, t.att, t.att, "started")
        BY <2>3 DEF ClaimEffect
      <3>5. ledger' \in [Steps -> LedgerRow]
        BY <1>0, <3>1, <3>4, JobFields, ChangeType
      <3> QED
        BY <1>0, <1>1, <3>1, <3>2, <3>3, <3>5
    <2>4. CASE Begin(w)
      <3>1. t.pc = "execute" /\ UNCHANGED <<owner, consumed, used, ledger, task, hub, nonces, faults>>
            /\ execs' = [execs EXCEPT ![t.step] = Append(execs[t.step], "open")]
        BY <2>4 DEF Begin, On
      <3>2. WorkerOK
        BY <1>0, <1>2, <2>4, BeginMoves
      <3>3. t.step \in Steps /\ execs[t.step] \in Seq(Ends) /\ "open" \in Ends
        BY <1>0, <3>1, JobFields
      <3> HIDE DEF Ends
      <3>4. Append(execs[t.step], "open") \in Seq(Ends)
        BY <3>3
      <3>5. execs' \in [Steps -> Seq(Ends)]
        BY <1>0, <3>1, <3>3, <3>4
      <3> QED
        BY <1>0, <1>1, <3>1, <3>2, <3>5
    <2>5. CASE End(w)
      <3>1. t.pc = "executing" /\ UNCHANGED <<owner, consumed, used, ledger, task, hub, nonces, faults>>
            /\ Go(w, "finish")
        BY <2>5 DEF End, On
      <3>2. WorkerOK
        BY <1>0, <1>2, <3>1, GoMoves DEF JobPcs
      <3>3. PICK e \in Ends : execs' = [execs EXCEPT ![t.step][t.exec] = e]
        BY <2>5 DEF End
      <3>4. t.step \in Steps /\ execs[t.step] \in Seq(Ends)
        BY <1>0, <3>1, JobFields
      <3> DEFINE q == [execs[t.step] EXCEPT ![t.exec] = e]
      <3> HIDE DEF Ends
      <3>5. q \in Seq(Ends)
        BY <3>3, <3>4, EndedSeq
      <3>6. execs' = [execs EXCEPT ![t.step] = q]
        BY <3>3
      <3> HIDE DEF q
      <3>7. execs' \in [Steps -> Seq(Ends)]
        BY <1>0, <3>4, <3>5, <3>6
      <3> QED
        BY <1>0, <1>1, <3>1, <3>2, <3>7
    <2>6. CASE Finish(w)
      <3>1. t.pc = "finishing" /\ UNCHANGED <<owner, consumed, used, task, hub, nonces, execs>>
        BY <2>6 DEF Finish, On
      <3>2. WorkerOK
        BY <1>0, <1>2, <2>6, FinishMoves
      <3>3. faults' \in FaultCounts
        BY <1>0, <1>3, <2>6, FinishMoves
      <3>4. ledger' = ledger
            \/ \E to \in {"completed", "failed", "uncertain"} : Change(t.step, t.att, t.att, to)
        <4> DEFINE to == LedgerStatus(execs[t.step][t.exec])
        <4>1. to \in {"completed", "failed", "uncertain"}
          BY DEF LedgerStatus
        <4>2. ledger' = ledger \/ Change(t.step, t.att, t.att, to)
          BY <2>6 DEF Finish
        <4> QED
          BY <4>1, <4>2
      <3>5. t.step \in Steps /\ t.att \in {0} \cup Attempts
        BY <1>0, <3>1, JobFields
      <3>6. ledger' \in [Steps -> LedgerRow]
        <4>1. CASE ledger' = ledger
          BY <1>0, <4>1
        <4>2. CASE \E to \in {"completed", "failed", "uncertain"} :
                       Change(t.step, t.att, t.att, to)
          <5> HIDE DEF t
          <5>1. PICK to \in {"completed", "failed", "uncertain"} :
                    Change(t.step, t.att, t.att, to)
            BY <4>2
          <5>2. to \in {"authorized", "started", "failed", "uncertain", "completed"}
            OBVIOUS
          <5>3. ledger \in [Steps -> LedgerRow]
            BY <1>0
          <5> QED
            BY <3>5, <5>1, <5>2, <5>3, ChangeType
        <4> QED
          BY <3>4, <4>1, <4>2
      <3> QED
        BY <1>0, <1>1, <3>1, <3>2, <3>3, <3>6
    <2>7. CASE Report(w)
      <3>1. t.pc = "report" /\ UNCHANGED <<owner, consumed, used, ledger, hub, nonces, execs, faults>>
            /\ worker' = [worker EXCEPT ![w] = Free]
        BY <2>7 DEF Report, On
      <3>2. WorkerOK
        BY <1>0, <3>1
      <3>3. t.step \in Steps /\ t.att \in Attempts
        BY <1>0, <3>1, JobFields
      <3>4. task' = [task EXCEPT ![t.step][t.att] =
                        IF @ = "open" THEN TaskStatus(t.result) ELSE @]
        BY <2>7 DEF Report
      <3>5. task' \in [Steps -> [Attempts -> TaskStates]]
        BY <1>0, <3>3, <3>4 DEF TaskStatus
      <3> QED
        BY <1>0, <1>1, <3>1, <3>2, <3>5
    <2> QED
      BY <1>4, <2>1, <2>2, <2>3, <2>4, <2>5, <2>6, <2>7 DEF WorkerStep
  <1>5. ASSUME NEW w \in Threads, NEW s \in Steps, NEW a \in Attempts, Deliver(w, s, a)
        PROVE  TypeInv'
    <2>1. /\ UNCHANGED <<owner, consumed, used, ledger, task, hub, nonces, execs>>
          /\ faults' = [faults EXCEPT !.deliveries = @ + 1]
          /\ worker' = [worker EXCEPT ![w] = [pc |-> "authorize", step |-> s, att |-> a,
                                              rev |-> 0, exec |-> 0, result |-> "failed"]]
      BY <1>5 DEF Deliver
    <2>2. [pc |-> "authorize", step |-> s, att |-> a, rev |-> 0, exec |-> 0, result |-> "failed"]
              \in Job
      BY DEF Job
    <2>3. WorkerOK
      BY <1>0, <2>1, <2>2
    <2>4. faults' \in FaultCounts
      BY <1>0, <2>1, FaultCounted
    <2> QED
      BY <1>0, <1>1, <2>1, <2>3, <2>4
  <1>6. ASSUME NEW w \in Threads, NEW id \in RetryIds, ConsumeRetry(w, id)
        PROVE  TypeInv'
    <2>1. /\ UNCHANGED <<owner, ledger, task, hub, worker, nonces, execs, faults>>
          /\ id \in consumed \/ BudgetLeft
          /\ Consume(id)
      BY <1>6 DEF ConsumeRetry
    <2>2. /\ used' \in Nat
          /\ consumed' = consumed \cup {id}
          /\ consumed' \subseteq (Steps \X Attempts) \cup RetryIds
          /\ IsFiniteSet(consumed')
          /\ RetriesWithinBudget'
          /\ used <= used'
      BY <1>0, <2>1, ConsumePays
    <2>3. id \notin Steps \X Attempts
      BY StepAssumption, AttemptRange DEF StepAssumption
    <2>4. \A x \in Steps : \A k \in Attempts : <<x, k>> \in consumed' => k <= owner'[x].token
      BY <1>0, <2>1, <2>2, <2>3 DEF AttemptsPaid
    <2>5. \A x \in Steps : owner'[x].token <= used' + 1
      <3>1. used \in Nat /\ \A x \in Steps : owner[x].token \in Nat /\ owner[x].token <= used + 1
        BY <1>0, OwnerFields DEF TypeOK, AttemptsPaid
      <3> QED
        BY <2>1, <2>2, <3>1
    <2>6. AttemptsPaid'
      BY <2>2, <2>4, <2>5 DEF AttemptsPaid
    <2>7. TypeOK' /\ HubBound'
      BY <1>0, <2>1, <2>2 DEF TypeOK, HubBound
    <2> QED
      BY <2>6, <2>7 DEF TypeInv
  <1>7. ASSUME NEW p \in Processes, Restart(p)
        PROVE  TypeInv'
    <2>1. /\ UNCHANGED <<owner, consumed, used, ledger, task, hub, execs>>
          /\ faults' = [faults EXCEPT !.restarts = @ + 1]
          /\ worker' = [w \in Threads |-> IF ProcessOf[w] = p THEN Free ELSE worker[w]]
          /\ nonces' = [nonces EXCEPT ![p] = {}]
      BY <1>7 DEF Restart
    <2>2. WorkerOK
      BY <1>0, <2>1
    <2>3. faults' \in FaultCounts
      BY <1>0, <2>1, FaultCounted
    <2>4. nonces' \in [Processes -> SUBSET (Steps \X Attempts)]
      BY <1>0, <2>1
    <2> QED
      BY <1>0, <1>1, <2>1, <2>2, <2>3, <2>4
  <1> QED
    BY <1>4, <1>5, <1>6, <1>7

LEMMA TypeInit == Init => TypeInv
  <1> SUFFICES ASSUME Init PROVE TypeInv
    OBVIOUS
  <1>1. /\ owner = [s \in Steps |-> [token |-> 0, status |-> "none", live |-> FALSE, rev |-> 0]]
        /\ consumed = {} /\ used = 0
        /\ ledger = [s \in Steps |-> NoRecord]
        /\ task = [s \in Steps |-> [a \in Attempts |-> "absent"]]
        /\ hub = [s \in Steps |-> Resting]
        /\ worker = [w \in Threads |-> Free]
        /\ nonces = [p \in Processes |-> {}]
        /\ execs = [s \in Steps |-> <<>>]
        /\ faults = [deliveries |-> 0, restarts |-> 0, lost |-> 0]
    BY DEF Init
  <1>2. owner \in [Steps -> OwnerRow]
    BY <1>1 DEF OwnerRow
  <1>3. ledger \in [Steps -> LedgerRow]
    BY <1>1 DEF LedgerRow, NoRecord
  <1>4. hub \in [Steps -> HubState] /\ HubBound
    BY <1>1 DEF HubState, Resting, HubBound
  <1>5. execs \in [Steps -> Seq({"open", "done", "failed", "unknown"})]
    BY <1>1
  <1>6. IsFiniteSet(consumed) /\ Cardinality(consumed) = 0
    BY <1>1, FS_EmptySet
  <1>7. AttemptsPaid
    <2>1. 0 <= MaxAttempts - 1
      BY StepAssumption DEF StepAssumption
    <2>2. RetriesWithinBudget
      BY <1>1, <1>6, <2>1 DEF RetriesWithinBudget
    <2> QED
      BY <1>1, <1>6, <2>2 DEF AttemptsPaid
  <1> QED
    BY <1>1, <1>2, <1>3, <1>4, <1>5, <1>7 DEF TypeInv, TypeOK

LEMMA TypeStep == TypeInv /\ [Next]_vars => TypeInv'
  <1> SUFFICES ASSUME TypeInv, [Next]_vars PROVE TypeInv'
    OBVIOUS
  <1>1. CASE Next
    BY <1>1, ClaimType, HubType, WorkerType DEF Next, HubStep
  <1>2. CASE UNCHANGED vars
    BY <1>2 DEF vars, TypeInv, TypeOK, HubBound, AttemptsPaid, RetriesWithinBudget
  <1> QED
    BY <1>1, <1>2

LEMMA TypeAlways == Spec => []TypeInv
  BY TypeInit, TypeStep, PTL DEF Spec

\* The retries that new attempts and providers pay for stay within the one
\* budget of the run, and each is counted once, however often it is asked for.
THEOREM BudgetKept == Spec => []RetriesWithinBudget
  <1>1. TypeInv => RetriesWithinBudget
    BY DEF TypeInv, AttemptsPaid
  <1> QED
    BY <1>1, TypeAlways, PTL

LEMMA FenceStep ==
    ASSUME TypeInv, Next, NEW s \in Steps, owner[s].status # "active", owner'[s].status = "active"
    PROVE  owner'[s].token > owner[s].token
  <1>0. owner \in [Steps -> OwnerRow] /\ owner[s].token \in Nat
    BY OwnerFields DEF TypeInv, TypeOK
  <1>1. owner' # owner
    OBVIOUS
  <1>2. PICK x \in Steps :
            \/ Claim(x) \/ CollectCompleted(x) \/ CollectFailed(x) \/ Heartbeat(x)
            \/ ReconcileOrphan(x) \/ Expire(x) \/ Cancel(x)
    BY <1>1 DEF Next, HubStep, WorkerStep, Plan, Authorize, Submit, Retry, AuthorizeExecution,
                CheckOwner, ClaimEffect, Begin, End, Finish, Report, Deliver, ConsumeRetry, Restart
  <1>3. CASE CollectCompleted(x) \/ CollectFailed(x) \/ ReconcileOrphan(x) \/ Cancel(x)
    <2>1. PICK status \in {"completed", "failed", "orphaned"} : SetOwner(x, status)
      BY <1>1, <1>3 DEF CollectCompleted, CollectFailed, ReconcileOrphan, Cancel
    <2>2. owner'[s].status # "active"
      BY <1>0, <2>1 DEF SetOwner
    <2> QED
      BY <2>2
  <1>4. CASE Heartbeat(x)
    <2>1. owner[x].status = "active" /\ owner' = [owner EXCEPT ![x].rev = @ + 1]
      BY <1>4 DEF Heartbeat, Holds
    <2>2. x # s
      BY <2>1
    <2> QED
      BY <1>0, <2>1, <2>2
  <1>5. CASE Expire(x)
    <2> DEFINE o == [owner[x] EXCEPT !.live = FALSE]
    <2>1. owner' = [owner EXCEPT ![x] = o]
      BY <1>5 DEF Expire
    <2>2. o.status = owner[x].status
      BY <1>0 DEF OwnerRow
    <2> HIDE DEF o
    <2> QED
      BY <1>0, <2>1, <2>2
  <1>6. CASE Claim(x)
    <2>1. owner' = [owner EXCEPT ![x] = [token |-> owner[x].token + 1, status |-> "active",
                                         live |-> TRUE, rev |-> owner[x].rev + 1]]
      BY <1>1, <1>6 DEF Claim
    <2>2. owner'[s] = IF s = x THEN [token |-> owner[x].token + 1, status |-> "active",
                                     live |-> TRUE, rev |-> owner[x].rev + 1]
                               ELSE owner[s]
      BY <1>0, <2>1
    <2>3. s = x
      BY <2>2
    <2> QED
      BY <1>0, <2>2, <2>3
  <1> QED
    BY <1>2, <1>3, <1>4, <1>5, <1>6

\* An attempt that was fenced, orphaned or completed never comes back: the
\* step becomes active again only under a higher token.
THEOREM AttemptsStayFenced == Spec => FencedForGood
  <1> DEFINE Fence == \A s \in Steps :
                 owner[s].status # "active" /\ owner'[s].status = "active" =>
                     owner'[s].token > owner[s].token
  <1>1. TypeInv /\ [Next]_vars => [Fence]_vars
    BY FenceStep
  <1> QED
    BY <1>1, TypeAlways, PTL DEF Spec, FencedForGood

-----------------------------------------------------------------------------
(* What is recorded as done has been done. *)

\* A handler that runs writes the end of its own run and of no other.
RunsApart ==
    /\ \A w \in Threads :
          /\ worker[w].pc \in {"executing", "finish", "finishing"} =>
                worker[w].exec \in DOMAIN execs[worker[w].step]
          /\ worker[w].pc = "executing" => execs[worker[w].step][worker[w].exec] = "open"
    /\ \A v, w \in Threads :
          v # w /\ worker[v].pc = "executing" /\ worker[w].pc = "executing"
                /\ worker[v].step = worker[w].step => worker[v].exec # worker[w].exec

\* A success is passed on from the handler to the ledger, the worker's
\* result, the task and the ownership, and never taken back.
SuccessPassedOn ==
    /\ \A s \in Steps :
          /\ ledger[s].status = "completed" => \E i \in DOMAIN execs[s] : execs[s][i] = "done"
          /\ owner[s].status = "completed" => ledger[s].status = "completed"
          /\ \A a \in Attempts : task[s][a] = "completed" => ledger[s].status = "completed"
    /\ \A w \in Threads :
          worker[w].pc # "idle" /\ worker[w].result = "completed" =>
              ledger[worker[w].step].status = "completed"

DoneInv == RunsApart /\ SuccessPassedOn

\* Which steps write the ledger, and what.
LEMMA LedgerWrites ==
    ASSUME TypeInv, Next, NEW s \in Steps, ledger'[s] # ledger[s]
    PROVE  \/ Plan(s) /\ ledger[s].status = "none" /\ ledger'[s].status = "planned"
                      /\ ledger'[s].attempt = 0
           \/ Authorize(s) /\ ledger[s].status \in {"planned", "failed"}
                           /\ ledger'[s].status = "authorized"
                           /\ ledger'[s].attempt = ledger[s].attempt
           \/ \E w \in Threads : worker[w].step = s /\ worker[w].pc = "claiming" /\ ClaimEffect(w)
                           /\ ledger[s].status = "authorized" /\ ledger'[s].status = "started"
                           /\ ledger'[s].attempt = worker[w].att
                           /\ ledger'[s].token = worker[w].att
           \/ \E w \in Threads : worker[w].step = s /\ worker[w].pc = "finishing" /\ Finish(w)
                           /\ ledger[s].status \in {"planned", "authorized", "started", "uncertain"}
                           /\ ledger[s].attempt = worker[w].att
                           /\ ledger'[s].attempt = worker[w].att
                           /\ ledger'[s].status = LedgerStatus(execs[s][worker[w].exec])
  <1>0. ledger \in [Steps -> LedgerRow] /\ TypeOK
    BY DEF TypeInv, TypeOK
  <1>00. ledger[s].status \in {"none", "planned", "authorized", "started", "failed",
                               "uncertain", "completed"}
    BY <1>0, LedgerFields
  <1>1. \/ \E x \in Steps : Plan(x) \/ Authorize(x)
        \/ \E w \in Threads : ClaimEffect(w) \/ Finish(w)
    BY DEF Next, HubStep, WorkerStep, Claim, Submit, Retry, AuthorizeExecution,
           CheckOwner, Begin, End, Report, Deliver, ConsumeRetry, Restart,
           CollectCompleted, CollectFailed, Heartbeat, ReconcileOrphan, Expire, Cancel
  <1>2. ASSUME NEW x \in Steps, Plan(x)
        PROVE  Plan(s) /\ ledger[s].status = "none" /\ ledger'[s].status = "planned"
                       /\ ledger'[s].attempt = 0
    <2>1. ledger' = [ledger EXCEPT ![x] = IF ledger[x].status = "none"
             THEN [status |-> "planned", rev |-> 1, token |-> 0, attempt |-> 0]
             ELSE ledger[x]]
      BY <1>2 DEF Plan
    <2>2. x = s /\ ledger[s].status = "none"
      BY <1>0, <2>1
    <2> QED
      BY <1>0, <1>2, <2>1, <2>2
  <1>3. ASSUME NEW x \in Steps, Authorize(x)
        PROVE  Authorize(s) /\ ledger[s].status \in {"planned", "failed"}
                       /\ ledger'[s].status = "authorized"
                       /\ ledger'[s].attempt = ledger[s].attempt
    <2>1. /\ "authorized" \in Transitions(ledger[x].status)
          /\ ledger' = [ledger EXCEPT ![x] = [status |-> "authorized", rev |-> ledger[x].rev + 1,
                           token |-> hub[x].token, attempt |-> ledger[x].attempt]]
      BY <1>3 DEF Authorize, MayChange, Change
    <2>2. x = s
      BY <1>0, <2>1
    <2>3. ledger[s].status \in {"planned", "failed"}
      BY <1>00, <2>1, <2>2 DEF Transitions
    <2> QED
      BY <1>0, <1>3, <2>1, <2>2, <2>3
  <1>4. ASSUME NEW w \in Threads, ClaimEffect(w)
        PROVE  worker[w].step = s /\ worker[w].pc = "claiming"
                           /\ ledger[s].status = "authorized" /\ ledger'[s].status = "started"
                           /\ ledger'[s].attempt = worker[w].att
                           /\ ledger'[s].token = worker[w].att
    <2> DEFINE x == worker[w].step
    <2>1. worker[w].pc = "claiming"
      BY <1>4 DEF ClaimEffect, On
    <2>2. /\ "started" \in Transitions(ledger[x].status)
          /\ ledger' = [ledger EXCEPT ![x] = [status |-> "started", rev |-> ledger[x].rev + 1,
                           token |-> worker[w].att, attempt |-> worker[w].att]]
      BY <1>4 DEF ClaimEffect, Change
    <2>3. x = s
      BY <1>0, <2>2
    <2>4. ledger[s].status = "authorized"
      BY <1>00, <2>2, <2>3 DEF Transitions
    <2> QED
      BY <1>0, <2>1, <2>2, <2>3, <2>4
  <1>5. ASSUME NEW w \in Threads, Finish(w)
        PROVE  worker[w].step = s /\ worker[w].pc = "finishing"
                           /\ ledger[s].status \in {"planned", "authorized", "started", "uncertain"}
                           /\ ledger[s].attempt = worker[w].att
                           /\ ledger'[s].attempt = worker[w].att
                           /\ ledger'[s].status = LedgerStatus(execs[s][worker[w].exec])
    <2> DEFINE x == worker[w].step
               to == LedgerStatus(execs[x][worker[w].exec])
    <2>1. worker[w].pc = "finishing"
      BY <1>5 DEF Finish, On
    <2>2. /\ to \in Transitions(ledger[x].status)
          /\ ledger[x].attempt = worker[w].att
          /\ ledger' = [ledger EXCEPT ![x] = [status |-> to, rev |-> ledger[x].rev + 1,
                           token |-> worker[w].att, attempt |-> worker[w].att]]
      BY <1>5 DEF Finish, Change, MayChange
    <2>3. to \in {"completed", "failed", "uncertain"}
      BY DEF LedgerStatus
    <2> HIDE DEF to
    <2>4. x = s
      BY <1>0, <2>2
    <2>5. ledger[s].status \in {"planned", "authorized", "started", "uncertain"}
      BY <1>00, <2>2, <2>3, <2>4 DEF Transitions
    <2> QED
      BY <1>0, <2>1, <2>2, <2>4, <2>5 DEF to
  <1> QED
    BY <1>1, <1>2, <1>3, <1>4, <1>5

\* A thread goes on, or ends, without running a handler.
LEMMA RunsMove ==
    ASSUME TypeOK, RunsApart, NEW w \in Threads, NEW j,
           worker' = [worker EXCEPT ![w] = j], execs' = execs, j.pc # "executing",
           j.pc \in {"finish", "finishing"} =>
               /\ worker[w].pc \in {"executing", "finish", "finishing"}
               /\ j.step = worker[w].step
               /\ j.exec = worker[w].exec
    PROVE  RunsApart'
  <1>1. \A v \in Threads : worker'[v] = IF v = w THEN j ELSE worker[v]
    BY DEF TypeOK
  <1> QED
    BY <1>1 DEF RunsApart

LEMMA RunsApartStep ==
    ASSUME TypeInv, RunsApart, Next
    PROVE  RunsApart'
  <1>0. /\ TypeOK /\ worker \in [Threads -> Job \cup {Free}]
        /\ execs \in [Steps -> Seq({"open", "done", "failed", "unknown"})]
    BY DEF TypeInv, TypeOK
  <1>1. CASE worker' = worker /\ execs' = execs
    BY <1>1 DEF RunsApart
  <1>2. ASSUME NEW w \in Threads,
               \/ AuthorizeExecution(w)
               \/ CheckOwner(w, "claim", "claiming")
               \/ CheckOwner(w, "finish", "finishing")
        PROVE  RunsApart'
    <2>1. PICK pc \in {"claim", "report", "claiming", "finishing"} :
              /\ Go(w, pc) /\ worker[w].pc # "idle" /\ execs' = execs
              /\ pc = "finishing" => worker[w].pc = "finish"
      BY <1>2 DEF AuthorizeExecution, CheckOwner, On
    <2>2. PICK j \in Job : Moves(w, j, pc) /\ Kept(w, j)
      BY <1>0, <2>1, GoMoves DEF JobPcs
    <2> QED
      BY <1>0, <2>1, <2>2, RunsMove DEF Moves, Kept
  <1>3. ASSUME NEW w \in Threads, ClaimEffect(w) \/ Finish(w)
        PROVE  RunsApart'
    <2>1. execs' = execs
      BY <1>3 DEF ClaimEffect, Finish
    <2>2. \E j \in Job : Moves(w, j, "execute") \/ Moves(w, j, "report")
      BY <1>0, <1>3, ClaimEffectMoves, FinishMoves
    <2> QED
      BY <1>0, <2>1, <2>2, RunsMove DEF Moves
  <1>4. ASSUME NEW w \in Threads, Begin(w)
        PROVE  RunsApart'
    <2> DEFINE s == worker[w].step
               q == execs[s]
    <2>1. PICK j \in Job : Moves(w, j, "executing") /\ j.exec = Len(q) + 1
      BY <1>0, <1>4, BeginMoves
    <2>2. s \in Steps /\ worker[w].pc = "execute"
      BY <1>0, <1>4, BeginMoves, JobFields
    <2>3. q \in Seq({"open", "done", "failed", "unknown"})
      BY <1>0, <2>2
    <2> DEFINE K == Len(q) + 1
               A == Append(q, "open")
    <2>4. /\ K \notin DOMAIN q
          /\ K \in DOMAIN A
          /\ A[K] = "open"
          /\ \A i \in DOMAIN q : i \in DOMAIN A /\ A[i] = q[i]
      BY <2>3, SMTT(20)
    <2>5. execs' = [execs EXCEPT ![s] = A] /\ j.exec = K
      BY <1>4, <2>1 DEF Begin
    <2> HIDE DEF K, A
    <2>6. \A x \in Steps : execs'[x] = IF x = s THEN A ELSE execs[x]
      BY <1>0, <2>5
    <2>7. \A v \in Threads : worker'[v] = IF v = w THEN j ELSE worker[v]
      BY <1>0, <2>1 DEF Moves
    <2>8. j.step = s /\ j.pc = "executing"
      BY <2>1 DEF Moves
    <2>9. \A v \in Threads : worker[v].pc # "idle" => worker[v].step \in Steps
      BY <1>0, JobFields
    <2>10. ASSUME NEW v \in Threads
           PROVE  /\ worker'[v].pc \in {"executing", "finish", "finishing"} =>
                        worker'[v].exec \in DOMAIN execs'[worker'[v].step]
                  /\ worker'[v].pc = "executing" =>
                        execs'[worker'[v].step][worker'[v].exec] = "open"
      <3>1. CASE v = w
        BY <2>2, <2>4, <2>5, <2>6, <2>7, <2>8, <3>1
      <3>2. CASE v # w
        <4> SUFFICES ASSUME worker[v].pc \in {"executing", "finish", "finishing"}
                     PROVE  /\ worker[v].exec \in DOMAIN execs'[worker[v].step]
                            /\ worker[v].pc = "executing" =>
                                  execs'[worker[v].step][worker[v].exec] = "open"
          BY <2>7, <3>2
        <4>1. /\ worker[v].step \in Steps
              /\ worker[v].exec \in DOMAIN execs[worker[v].step]
              /\ worker[v].pc = "executing" => execs[worker[v].step][worker[v].exec] = "open"
          BY <2>9 DEF RunsApart
        <4>2. CASE worker[v].step = s
          BY <2>4, <2>6, <4>1, <4>2
        <4>3. CASE worker[v].step # s
          BY <2>6, <4>1, <4>3
        <4> QED
          BY <4>2, <4>3
      <3> QED
        BY <3>1, <3>2
    <2>11. ASSUME NEW v \in Threads, NEW u \in Threads, v # u, worker'[v].pc = "executing",
                  worker'[u].pc = "executing", worker'[v].step = worker'[u].step
           PROVE  worker'[v].exec # worker'[u].exec
      <3>1. \A x \in Threads : worker[x].pc = "executing" /\ worker[x].step = s =>
                worker[x].exec \in DOMAIN q
        BY DEF RunsApart
      <3>2. CASE v = w
        BY <2>4, <2>5, <2>7, <2>8, <2>11, <3>1, <3>2
      <3>3. CASE u = w
        BY <2>4, <2>5, <2>7, <2>8, <2>11, <3>1, <3>3
      <3>4. CASE v # w /\ u # w
        BY <2>7, <2>11, <3>4 DEF RunsApart
      <3> QED
        BY <3>2, <3>3, <3>4
    <2> QED
      BY <2>10, <2>11 DEF RunsApart
  <1>5. ASSUME NEW w \in Threads, End(w)
        PROVE  RunsApart'
    <2> DEFINE s == worker[w].step
               q == execs[s]
    <2>1. worker[w].pc = "executing" /\ Go(w, "finish")
      BY <1>5 DEF End, On
    <2>2. PICK j \in Job : Moves(w, j, "finish") /\ Kept(w, j)
      BY <1>0, <2>1, GoMoves DEF JobPcs
    <2>3. PICK e : execs' = [execs EXCEPT ![s][worker[w].exec] = e]
      BY <1>5 DEF End
    <2>4. s \in Steps /\ worker[w].exec \in DOMAIN q
      BY <1>0, <2>1, JobFields DEF RunsApart
    <2>5. \A x \in Steps : /\ DOMAIN execs'[x] = DOMAIN execs[x]
                           /\ x # s => execs'[x] = execs[x]
                           /\ \A i \in DOMAIN execs[x] :
                                 x # s \/ i # worker[w].exec => execs'[x][i] = execs[x][i]
      BY <1>0, <2>3, <2>4
    <2>6. \A v \in Threads : worker'[v] = IF v = w THEN j ELSE worker[v]
      BY <1>0, <2>2 DEF Moves
    <2>7. j.step = s /\ j.pc = "finish" /\ j.exec = worker[w].exec
      BY <2>2 DEF Moves, Kept
    <2>8. \A v \in Threads : worker[v].pc # "idle" => worker[v].step \in Steps
      BY <1>0, JobFields
    <2>9. ASSUME NEW v \in Threads
          PROVE  /\ worker'[v].pc \in {"executing", "finish", "finishing"} =>
                       worker'[v].exec \in DOMAIN execs'[worker'[v].step]
                 /\ worker'[v].pc = "executing" =>
                       execs'[worker'[v].step][worker'[v].exec] = "open"
      <3>1. CASE v = w
        BY <2>4, <2>5, <2>6, <2>7, <3>1
      <3>2. CASE v # w
        <4> SUFFICES ASSUME worker[v].pc \in {"executing", "finish", "finishing"}
                     PROVE  /\ worker[v].exec \in DOMAIN execs'[worker[v].step]
                            /\ worker[v].pc = "executing" =>
                                  execs'[worker[v].step][worker[v].exec] = "open"
          BY <2>6, <3>2
        <4>1. /\ worker[v].step \in Steps
              /\ worker[v].exec \in DOMAIN execs[worker[v].step]
              /\ worker[v].pc = "executing" => execs[worker[v].step][worker[v].exec] = "open"
          BY <2>8 DEF RunsApart
        <4>2. worker[v].pc = "executing" => worker[v].step # s \/ worker[v].exec # worker[w].exec
          BY <2>1, <3>2 DEF RunsApart
        <4> QED
          BY <2>5, <4>1, <4>2
      <3> QED
        BY <3>1, <3>2
    <2>10. \A v, u \in Threads :
              v # u /\ worker'[v].pc = "executing" /\ worker'[u].pc = "executing"
                    /\ worker'[v].step = worker'[u].step => worker'[v].exec # worker'[u].exec
      BY <2>6, <2>7 DEF RunsApart
    <2> QED
      BY <2>9, <2>10 DEF RunsApart
  <1>6. ASSUME NEW w \in Threads, Report(w)
        PROVE  RunsApart'
    <2>1. worker' = [worker EXCEPT ![w] = Free] /\ execs' = execs /\ Free.pc = "idle"
      BY <1>6 DEF Report, Free
    <2> QED
      BY <1>0, <2>1, RunsMove
  <1>7. ASSUME NEW w \in Threads, NEW s \in Steps, NEW a \in Attempts, Deliver(w, s, a)
        PROVE  RunsApart'
    <2> DEFINE j == [pc |-> "authorize", step |-> s, att |-> a, rev |-> 0, exec |-> 0,
                     result |-> "failed"]
    <2>1. worker' = [worker EXCEPT ![w] = j] /\ execs' = execs /\ j.pc = "authorize"
      BY <1>7 DEF Deliver
    <2> HIDE DEF j
    <2> QED
      BY <1>0, <2>1, RunsMove
  <1>8. ASSUME NEW p \in Processes, Restart(p)
        PROVE  RunsApart'
    <2>1. /\ \A w \in Threads : worker'[w] = Free \/ worker'[w] = worker[w]
          /\ execs' = execs /\ Free.pc = "idle"
      BY <1>8 DEF Restart, Free
    <2> QED
      BY <2>1 DEF RunsApart
  <1>9. \/ worker' = worker /\ execs' = execs
        \/ \E w \in Threads : WorkerStep(w) \/ \E s \in Steps, a \in Attempts : Deliver(w, s, a)
        \/ \E p \in Processes : Restart(p)
    BY DEF Next, HubStep, Claim, Plan, Authorize, Submit, CollectCompleted, CollectFailed,
           Heartbeat, ReconcileOrphan, Expire, Cancel, Retry, ConsumeRetry
  <1> QED
    BY <1>1, <1>2, <1>3, <1>4, <1>5, <1>6, <1>7, <1>8, <1>9 DEF WorkerStep

Done(s) == \E i \in DOMAIN execs[s] : execs[s][i] = "done"

\* No step takes back a run of the handler that was done.
LEMMA DoneStays ==
    ASSUME TypeInv, RunsApart, Next, NEW s \in Steps, Done(s)
    PROVE  Done(s)'
  <1>0. TypeOK /\ execs \in [Steps -> Seq({"open", "done", "failed", "unknown"})]
    BY DEF TypeInv, TypeOK
  <1>1. CASE execs' = execs
    BY <1>1 DEF Done
  <1>2. ASSUME NEW w \in Threads, Begin(w)
        PROVE  Done(s)'
    <2> DEFINE x == worker[w].step
               A == Append(execs[x], "open")
    <2>1. x \in Steps
      BY <1>0, <1>2, BeginMoves, JobFields
    <2>2. \A i \in DOMAIN execs[x] : i \in DOMAIN A /\ A[i] = execs[x][i]
      BY <1>0, <2>1
    <2>3. execs' = [execs EXCEPT ![x] = A]
      BY <1>2 DEF Begin
    <2> HIDE DEF A
    <2> QED
      BY <1>0, <2>1, <2>2, <2>3 DEF Done
  <1>3. ASSUME NEW w \in Threads, End(w)
        PROVE  Done(s)'
    <2> DEFINE x == worker[w].step
    <2>1. worker[w].pc = "executing"
      BY <1>3 DEF End, On
    <2>2. x \in Steps /\ worker[w].exec \in DOMAIN execs[x] /\ execs[x][worker[w].exec] = "open"
      BY <1>0, <2>1, JobFields DEF RunsApart
    <2>3. PICK e : execs' = [execs EXCEPT ![x][worker[w].exec] = e]
      BY <1>3 DEF End
    <2>4. execs'[s] = IF s = x THEN [execs[x] EXCEPT ![worker[w].exec] = e] ELSE execs[s]
      BY <1>0, <2>2, <2>3
    <2>5. /\ DOMAIN execs'[s] = DOMAIN execs[s]
          /\ \A i \in DOMAIN execs[s] : execs[s][i] # "open" => execs'[s][i] = execs[s][i]
      BY <2>2, <2>4
    <2> QED
      BY <2>5 DEF Done
  <1>4. execs' = execs \/ \E w \in Threads : Begin(w) \/ End(w)
    BY DEF Next, HubStep, WorkerStep, Claim, Plan, Authorize, Submit, CollectCompleted,
           CollectFailed, Heartbeat, ReconcileOrphan, Expire, Cancel, Retry, AuthorizeExecution,
           CheckOwner, ClaimEffect, Finish, Report, Deliver, ConsumeRetry, Restart
  <1> QED
    BY <1>1, <1>2, <1>3, <1>4

\* A completed record stays completed, and becomes so for a run that is done.
LEMMA CompletedStays ==
    ASSUME TypeInv, RunsApart, SuccessPassedOn, Next, NEW s \in Steps
    PROVE  /\ ledger[s].status = "completed" => ledger'[s].status = "completed"
           /\ ledger'[s].status = "completed" => Done(s)'
  <1>1. ledger[s].status = "completed" => ledger'[s].status = "completed"
    BY LedgerWrites
  <1>2. CASE ledger'[s].status = "completed" /\ ledger[s].status # "completed"
    <2>1. PICK w \in Threads : /\ worker[w].step = s /\ worker[w].pc = "finishing" /\ Finish(w)
                               /\ LedgerStatus(execs[s][worker[w].exec]) = "completed"
      BY <1>2, LedgerWrites
    <2>2. worker[w].exec \in DOMAIN execs[s] /\ execs[s][worker[w].exec] = "done" /\ execs' = execs
      BY <2>1 DEF RunsApart, LedgerStatus, Finish
    <2> QED
      BY <1>1, <2>2 DEF Done
  <1>3. CASE ledger[s].status = "completed"
    <2>1. Done(s)
      BY <1>3 DEF SuccessPassedOn, Done
    <2> QED
      BY <1>1, <1>3, <2>1, DoneStays
  <1> QED
    BY <1>1, <1>2, <1>3

\* Ownership is completed on the word of a completed task.
LEMMA OwnerCompleted ==
    ASSUME TypeInv, SuccessPassedOn, Next, NEW s \in Steps, owner'[s].status = "completed"
    PROVE  ledger[s].status = "completed"
  <1>0. TypeOK /\ HubBound /\ owner \in [Steps -> OwnerRow]
    BY DEF TypeInv, TypeOK
  <1>1. CASE owner'[s].status = owner[s].status
    BY <1>1 DEF SuccessPassedOn
  <1>2. CASE owner'[s].status # owner[s].status
    <2>1. PICK x \in Steps :
              \/ Claim(x) \/ CollectCompleted(x) \/ CollectFailed(x) \/ Heartbeat(x)
              \/ ReconcileOrphan(x) \/ Expire(x) \/ Cancel(x)
      BY <1>2 DEF Next, HubStep, WorkerStep, Plan, Authorize, Submit, Retry, AuthorizeExecution,
                  CheckOwner, ClaimEffect, Begin, End, Finish, Report, Deliver, ConsumeRetry, Restart
    <2>2. CASE CollectFailed(x) \/ ReconcileOrphan(x) \/ Cancel(x)
      <3>1. owner' = owner \/ SetOwner(x, "failed") \/ SetOwner(x, "orphaned")
        BY <2>2 DEF CollectFailed, ReconcileOrphan, Cancel
      <3> QED
        BY <1>0, <1>2, <3>1 DEF SetOwner
    <2>3. CASE CollectCompleted(x)
      <3>1. SetOwner(x, "completed") /\ hub[x].pc = "running" /\ task[x][hub[x].token] = "completed"
        BY <2>3 DEF CollectCompleted
      <3>2. x = s
        BY <1>0, <1>2, <3>1 DEF SetOwner
      <3>3. hub[x].token \in Attempts
        BY <1>0, <3>1 DEF HubBound
      <3> QED
        BY <3>1, <3>2, <3>3 DEF SuccessPassedOn
    <2>4. CASE Heartbeat(x)
      <3> DEFINE o == [owner[x] EXCEPT !.rev = owner[x].rev + 1]
      <3>1. owner' = [owner EXCEPT ![x] = o]
        BY <2>4 DEF Heartbeat
      <3>2. o.status = owner[x].status
        BY <1>0 DEF OwnerRow
      <3> HIDE DEF o
      <3> QED
        BY <1>0, <1>2, <3>1, <3>2
    <2>5. CASE Expire(x)
      <3> DEFINE o == [owner[x] EXCEPT !.live = FALSE]
      <3>1. owner' = [owner EXCEPT ![x] = o]
        BY <2>5 DEF Expire
      <3>2. o.status = owner[x].status
        BY <1>0 DEF OwnerRow
      <3> HIDE DEF o
      <3> QED
        BY <1>0, <1>2, <3>1, <3>2
    <2>6. CASE Claim(x)
      <3>1. \/ owner' = owner
            \/ owner' = [owner EXCEPT ![x] = [token |-> owner[x].token + 1, status |-> "active",
                                              live |-> TRUE, rev |-> owner[x].rev + 1]]
        BY <2>6 DEF Claim
      <3> DEFINE o == [token |-> owner[x].token + 1, status |-> "active",
                       live |-> TRUE, rev |-> owner[x].rev + 1]
      <3>2. o.status = "active"
        OBVIOUS
      <3> HIDE DEF o
      <3>3. owner' = owner \/ owner' = [owner EXCEPT ![x] = o]
        BY <3>1 DEF o
      <3> QED
        BY <1>0, <1>2, <3>2, <3>3
    <2> QED
      BY <2>1, <2>2, <2>3, <2>4, <2>5, <2>6
  <1> QED
    BY <1>1, <1>2

\* A task is completed on the word of a completed result.
LEMMA TaskCompleted ==
    ASSUME TypeInv, SuccessPassedOn, Next, NEW s \in Steps, NEW a \in Attempts,
           task'[s][a] = "completed"
    PROVE  ledger[s].status = "completed"
  <1>0. /\ TypeOK /\ HubBound
        /\ task \in [Steps -> [Attempts -> {"absent", "open", "completed", "failed", "cancelled"}]]
    BY DEF TypeInv, TypeOK
  <1>1. CASE task[s][a] = "completed"
    BY <1>1 DEF SuccessPassedOn
  <1>2. CASE task[s][a] # "completed"
    <2>1. \/ \E x \in Steps : Submit(x) \/ Cancel(x)
          \/ \E w \in Threads : Report(w)
      BY <1>2 DEF Next, HubStep, WorkerStep, Claim, Plan, Authorize, CollectCompleted,
           CollectFailed, Heartbeat, ReconcileOrphan, Expire, Retry, AuthorizeExecution,
           CheckOwner, ClaimEffect, Begin, End, Finish, Deliver, ConsumeRetry, Restart
    <2>2. ASSUME NEW x \in Steps, Submit(x) \/ Cancel(x)
          PROVE  FALSE
      <3>1. hub[x].token \in Attempts
        BY <1>0, <2>2 DEF Submit, Cancel, HubBound
      <3>2. \/ task' = [task EXCEPT ![x][hub[x].token] = "open"]
            \/ task' = [task EXCEPT ![x][hub[x].token] = "cancelled"]
            \/ task' = [task EXCEPT ![x][hub[x].token] = @]
        BY <2>2 DEF Submit, Cancel
      <3> QED
        BY <1>0, <1>2, <3>1, <3>2
    <2>3. ASSUME NEW w \in Threads, Report(w)
          PROVE  ledger[s].status = "completed"
      <3> DEFINE t == worker[w]
      <3>1. t.pc = "report"
        BY <2>3 DEF Report, On
      <3>2. t.step \in Steps /\ t.att \in Attempts
        BY <1>0, <3>1, JobFields
      <3>3. task' = [task EXCEPT ![t.step][t.att] =
                        IF @ = "open" THEN TaskStatus(t.result) ELSE @]
        BY <2>3 DEF Report
      <3>4. t.step = s /\ TaskStatus(t.result) = "completed"
        BY <1>0, <1>2, <3>2, <3>3
      <3>5. t.result = "completed"
        BY <3>4 DEF TaskStatus
      <3> QED
        BY <3>1, <3>4, <3>5 DEF SuccessPassedOn
    <2> QED
      BY <2>1, <2>2, <2>3
  <1> QED
    BY <1>1, <1>2

\* A worker's result is completed only when the ledger is.
LEMMA ResultCompleted ==
    ASSUME TypeInv, RunsApart, SuccessPassedOn, Next, NEW w \in Threads,
           worker'[w].pc # "idle", worker'[w].result = "completed"
    PROVE  ledger'[worker'[w].step].status = "completed"
  <1>0. /\ TypeOK /\ worker \in [Threads -> Job \cup {Free}]
        /\ ledger \in [Steps -> LedgerRow]
    BY DEF TypeInv, TypeOK
  <1>1. CASE worker[w].pc # "idle" /\ worker'[w].step = worker[w].step
             /\ worker[w].result = worker'[w].result
    <2>1. worker[w].step \in Steps /\ ledger[worker[w].step].status = "completed"
      BY <1>0, <1>1, JobFields DEF SuccessPassedOn
    <2> QED
      BY <1>1, <2>1, CompletedStays
  <1>2. CASE worker' = worker
    <2>1. worker[w].pc # "idle" /\ worker'[w].step = worker[w].step
             /\ worker[w].result = worker'[w].result
      BY <1>2
    <2> QED
      BY <1>1, <2>1
  <1>3. ASSUME NEW v \in Threads, NEW j \in Job, NEW pc, Moves(v, j, pc),
               worker[v].pc # "idle", j.result = worker[v].result
        PROVE  ledger'[worker'[w].step].status = "completed"
    <2>1. worker'[w] = IF v = w THEN j ELSE worker[w]
      BY <1>0, <1>3 DEF Moves
    <2>2. worker[w].pc # "idle" /\ worker'[w].step = worker[w].step
             /\ worker[w].result = worker'[w].result
      BY <1>3, <2>1 DEF Moves
    <2> QED
      BY <1>1, <2>2
  <1>4. ASSUME NEW v \in Threads,
               \/ AuthorizeExecution(v)
               \/ CheckOwner(v, "claim", "claiming")
               \/ CheckOwner(v, "finish", "finishing")
               \/ End(v)
        PROVE  ledger'[worker'[w].step].status = "completed"
    <2>1. PICK pc \in {"claim", "report", "claiming", "finishing", "finish"} :
              Go(v, pc) /\ worker[v].pc # "idle"
      BY <1>4 DEF AuthorizeExecution, CheckOwner, On, End
    <2>2. PICK j \in Job : Moves(v, j, pc) /\ Kept(v, j)
      BY <1>0, <2>1, GoMoves DEF JobPcs
    <2> QED
      BY <1>3, <2>1, <2>2 DEF Kept
  <1>5. ASSUME NEW v \in Threads, ClaimEffect(v) \/ Begin(v)
        PROVE  ledger'[worker'[w].step].status = "completed"
    <2>1. \E j \in Job : \E pc \in {"execute", "report", "executing"} :
              Moves(v, j, pc) /\ j.result = worker[v].result
      BY <1>0, <1>5, ClaimEffectMoves, BeginMoves
    <2>2. worker[v].pc # "idle"
      BY <1>0, <1>5, ClaimEffectMoves, BeginMoves
    <2> QED
      BY <1>3, <2>1, <2>2
  <1>6. ASSUME NEW v \in Threads, Finish(v)
        PROVE  ledger'[worker'[w].step].status = "completed"
    <2> DEFINE t == worker[v]
               to == LedgerStatus(execs[t.step][t.exec])
               may == ledger[t.step].attempt = t.att
                         /\ MayChange(t.step, t.rev, t.att, TRUE, to)
    <2>1. /\ t.pc = "finishing"
          /\ may => Change(t.step, t.att, t.att, to)
          /\ \E j \in Job : Moves(v, j, "report") /\ (j.result = t.result \/ (may /\ j.result = to))
      BY <1>0, <1>6, FinishMoves
    <2> HIDE DEF to, may
    <2>2. PICK j \in Job : Moves(v, j, "report") /\ (j.result = t.result \/ (may /\ j.result = to))
      BY <2>1
    <2>3. CASE j.result = t.result
      BY <1>3, <2>1, <2>2, <2>3
    <2>4. CASE v = w /\ may /\ j.result = to
      <3>1. worker'[w] = j
        BY <1>0, <2>2, <2>4 DEF Moves
      <3>2. to = "completed" /\ worker'[w].step = t.step
        BY <2>2, <2>4, <3>1 DEF Moves
      <3>3. t.step \in Steps
        BY <1>0, <2>1, JobFields
      <3>4. ledger' = [ledger EXCEPT ![t.step] =
                          [status |-> to, rev |-> ledger[t.step].rev + 1, token |-> t.att,
                           attempt |-> t.att]]
        BY <2>1, <2>4 DEF Change
      <3>5. ledger'[t.step].status = to
        BY <1>0, <3>3, <3>4
      <3> QED
        BY <3>2, <3>5
    <2>5. CASE v # w
      <3>1. worker'[w] = worker[w]
        BY <1>0, <2>2, <2>5 DEF Moves
      <3>2. worker[w].pc # "idle" /\ worker'[w].step = worker[w].step
                 /\ worker[w].result = worker'[w].result
        BY <3>1
      <3> QED
        BY <1>1, <3>2
    <2> QED
      BY <2>2, <2>3, <2>4, <2>5
  <1>7. ASSUME NEW v \in Threads, NEW s \in Steps, NEW a \in Attempts,
               Report(v) \/ Deliver(v, s, a)
        PROVE  ledger'[worker'[w].step].status = "completed"
    <2> DEFINE d == [pc |-> "authorize", step |-> s, att |-> a, rev |-> 0, exec |-> 0,
                     result |-> "failed"]
    <2>1. worker' = [worker EXCEPT ![v] = Free] \/ worker' = [worker EXCEPT ![v] = d]
      BY <1>7 DEF Report, Deliver
    <2>2. Free.pc = "idle" /\ d.result = "failed"
      BY DEF Free
    <2> HIDE DEF d
    <2>3. v # w /\ worker'[w] = worker[w]
      BY <1>0, <2>1, <2>2
    <2>4. worker[w].pc # "idle" /\ worker'[w].step = worker[w].step
               /\ worker[w].result = worker'[w].result
      BY <2>3
    <2> QED
      BY <1>1, <2>4
  <1>8. ASSUME NEW p \in Processes, Restart(p)
        PROVE  ledger'[worker'[w].step].status = "completed"
    <2>1. worker'[w] = Free \/ worker'[w] = worker[w]
      BY <1>8 DEF Restart
    <2>2. worker'[w] = worker[w]
      BY <2>1 DEF Free
    <2>3. worker[w].pc # "idle" /\ worker'[w].step = worker[w].step
               /\ worker[w].result = worker'[w].result
      BY <2>2
    <2> QED
      BY <1>1, <2>3
  <1>9. ASSUME NEW v \in Threads, Report(v)
        PROVE  ledger'[worker'[w].step].status = "completed"
    <2>1. v # w /\ worker'[w] = worker[w]
      BY <1>0, <1>9 DEF Report, Free
    <2>2. worker[w].pc # "idle" /\ worker'[w].step = worker[w].step
               /\ worker[w].result = worker'[w].result
      BY <2>1
    <2> QED
      BY <1>1, <2>2
  <1>10. \/ worker' = worker
         \/ \E v \in Threads : WorkerStep(v) \/ \E s \in Steps, a \in Attempts : Deliver(v, s, a)
         \/ \E p \in Processes : Restart(p)
    BY DEF Next, HubStep, Claim, Plan, Authorize, Submit, CollectCompleted, CollectFailed,
           Heartbeat, ReconcileOrphan, Expire, Cancel, Retry, ConsumeRetry
  <1> QED
    BY <1>2, <1>4, <1>5, <1>6, <1>7, <1>8, <1>9, <1>10 DEF WorkerStep

LEMMA DoneAlways == Spec => [](TypeInv /\ DoneInv)
  <1>1. Init => DoneInv
    <2> SUFFICES ASSUME Init PROVE DoneInv
      OBVIOUS
    <2>1. \A w \in Threads : worker[w].pc = "idle"
      BY DEF Init, Free
    <2>2. \A s \in Steps : /\ ledger[s].status = "none"
                           /\ owner[s].status = "none"
                           /\ \A a \in Attempts : task[s][a] = "absent"
      BY DEF Init, NoRecord
    <2> QED
      BY <2>1, <2>2 DEF DoneInv, RunsApart, SuccessPassedOn
  <1>2. TypeInv /\ DoneInv /\ [Next]_vars => DoneInv'
    <2> SUFFICES ASSUME TypeInv, DoneInv, [Next]_vars PROVE DoneInv'
      OBVIOUS
    <2>1. CASE Next
      <3>1. RunsApart /\ SuccessPassedOn
        BY DEF DoneInv
      <3>2. RunsApart'
        BY <2>1, <3>1, RunsApartStep
      <3>3. SuccessPassedOn'
        BY <2>1, <3>1, CompletedStays, OwnerCompleted, TaskCompleted, ResultCompleted
           DEF SuccessPassedOn, Done
      <3> QED
        BY <3>2, <3>3 DEF DoneInv
    <2>2. CASE UNCHANGED vars
      BY <2>2 DEF vars, DoneInv, RunsApart, SuccessPassedOn
    <2> QED
      BY <2>1, <2>2
  <1> QED
    BY <1>1, <1>2, TypeInit, TypeStep, PTL DEF Spec

\* A step whose result was acknowledged has its write done, and recorded as
\* done, whatever was lost, redelivered or restarted on the way.
THEOREM AcknowledgedWasDone == Spec => []AcknowledgedIsDone
  <1>1. DoneInv => AcknowledgedIsDone
    BY DEF DoneInv, SuccessPassedOn, AcknowledgedIsDone, Range
  <1> QED
    BY <1>1, DoneAlways, PTL

-----------------------------------------------------------------------------
(* One worker process that does not forget its nonces. *)

SingleProcess == \A v, w \in Threads : ProcessOf[v] = ProcessOf[w]

Working(w) ==
    worker[w].pc \in {"claim", "claiming", "execute", "executing", "finish", "finishing"}

AllFailed(s) == \A i \in DOMAIN execs[s] : execs[s][i] = "failed"

\* At most one thread works for an attempt, and it has spent the nonce.
OneWorker ==
    /\ \A w \in Threads :
          Working(w) => <<worker[w].step, worker[w].att>> \in nonces[ProcessOf[w]]
    /\ \A v, w \in Threads :
          v # w /\ Working(v) /\ Working(w) =>
              worker[v].step # worker[w].step \/ worker[v].att # worker[w].att

\* The ledger knows the attempt whose handler may run, and only that one.
LedgerFences ==
    /\ \A s \in Steps : \A w \in Threads :
          ledger[s].attempt # 0 => <<s, ledger[s].attempt>> \in nonces[ProcessOf[w]]
    /\ \A w \in Threads :
          /\ worker[w].pc \in {"claim", "claiming"} =>
                ledger[worker[w].step].attempt # worker[w].att
          /\ worker[w].pc \in {"execute", "executing", "finish", "finishing"} =>
                Claimed(worker[w].step, worker[w].att)

\* Only the last run of a handler may have ended in anything but a failure,
\* and its end is what the ledger waits for.
LastRunOpen ==
    /\ \A s \in Steps :
          ledger[s].status \in {"none", "planned", "authorized", "failed"} => AllFailed(s)
    /\ \A w \in Threads :
          /\ worker[w].pc = "execute" => AllFailed(worker[w].step)
          /\ worker[w].pc \in {"executing", "finish", "finishing"} =>
                worker[w].exec = Len(execs[worker[w].step])

NonceInv == faults.restarts = 0 => OneWorker /\ LedgerFences /\ LastRunOpen /\ NoBlindRepeat

\* Where a thread that works on comes from.
LEMMA ThreadSteps ==
    ASSUME TypeInv, Next, faults'.restarts = 0, NEW w \in Threads, worker'[w] # worker[w],
           worker'[w].pc \notin {"idle", "authorize", "report"}
    PROVE  /\ worker'[w].step = worker[w].step
           /\ worker'[w].att = worker[w].att
           /\ worker[w].pc # "idle"
           /\ \/ /\ AuthorizeExecution(w) /\ worker'[w].pc = "claim"
                 /\ Fresh(ProcessOf[w], <<worker[w].step, worker[w].att>>)
                 /\ <<worker[w].step, worker[w].att>> \in nonces'[ProcessOf[w]]
              \/ worker[w].pc = "claim" /\ worker'[w].pc = "claiming" /\ execs' = execs
              \/ ClaimEffect(w) /\ worker[w].pc = "claiming" /\ worker'[w].pc = "execute"
              \/ /\ Begin(w) /\ worker[w].pc = "execute" /\ worker'[w].pc = "executing"
                 /\ worker'[w].exec = Len(execs[worker[w].step]) + 1
              \/ /\ End(w) /\ worker[w].pc = "executing" /\ worker'[w].pc = "finish"
                 /\ worker'[w].exec = worker[w].exec
              \/ /\ worker[w].pc = "finish" /\ worker'[w].pc = "finishing" /\ execs' = execs
                 /\ worker'[w].exec = worker[w].exec
  <1>0. /\ TypeOK /\ worker \in [Threads -> Job \cup {Free}]
        /\ nonces \in [Processes -> SUBSET (Steps \X Attempts)]
        /\ faults \in FaultCounts
    BY DEF TypeInv, TypeOK, FaultCounts
  <1>1. PICK v \in Threads : WorkerStep(v) \/ \E s \in Steps, a \in Attempts : Deliver(v, s, a)
    <2>1. ~ \E p \in Processes : Restart(p)
      BY <1>0, FaultCounted DEF Restart
    <2> QED
      BY <2>1 DEF Next, HubStep, Claim, Plan, Authorize, Submit, CollectCompleted, CollectFailed,
           Heartbeat, ReconcileOrphan, Expire, Cancel, Retry, ConsumeRetry
  <1>2. \E j : worker' = [worker EXCEPT ![v] = j]
    <2>1. CASE \/ AuthorizeExecution(v) \/ End(v)
               \/ CheckOwner(v, "claim", "claiming") \/ CheckOwner(v, "finish", "finishing")
      <3>1. \E pc : Go(v, pc)
        BY <2>1 DEF AuthorizeExecution, End, CheckOwner
      <3> QED
        BY <3>1 DEF Go
    <2>2. CASE ClaimEffect(v) \/ Begin(v) \/ Finish(v)
      <3>1. \E j, pc : Moves(v, j, pc)
        BY <1>0, <2>2, ClaimEffectMoves, BeginMoves, FinishMoves
      <3> QED
        BY <3>1 DEF Moves
    <2>3. CASE Report(v) \/ \E s \in Steps, a \in Attempts : Deliver(v, s, a)
      BY <2>3 DEF Report, Deliver
    <2> QED
      BY <1>1, <2>1, <2>2, <2>3 DEF WorkerStep
  <1>3. v = w
    BY <1>0, <1>2
  <1>4. \A j : worker' = [worker EXCEPT ![w] = j] => worker'[w] = j
    BY <1>0
  <1>5. \A s \in Steps, a \in Attempts : ~ Deliver(w, s, a)
    <2> SUFFICES ASSUME NEW s \in Steps, NEW a \in Attempts, Deliver(w, s, a) PROVE FALSE
      OBVIOUS
    <2> DEFINE d == [pc |-> "authorize", step |-> s, att |-> a, rev |-> 0, exec |-> 0,
                     result |-> "failed"]
    <2>1. worker' = [worker EXCEPT ![w] = d] /\ d.pc = "authorize"
      BY DEF Deliver
    <2> HIDE DEF d
    <2> QED
      BY <1>4, <2>1
  <1>6. ~ Report(w)
    BY <1>4 DEF Report, Free
  <1>7. ~ Finish(w)
    <2> SUFFICES ASSUME Finish(w) PROVE FALSE
      OBVIOUS
    <2>1. \E j \in Job : Moves(w, j, "report")
      BY <1>0, FinishMoves
    <2> QED
      BY <1>4, <2>1 DEF Moves
  <1>8. CASE AuthorizeExecution(w)
    <2>1. worker[w].pc = "authorize"
      BY <1>8 DEF AuthorizeExecution, On
    <2>2. PICK pc \in {"claim", "report"} :
              /\ Go(w, pc)
              /\ pc = "claim" => /\ Fresh(ProcessOf[w], <<worker[w].step, worker[w].att>>)
                                 /\ nonces' = [nonces EXCEPT ![ProcessOf[w]] =
                                                  @ \cup {<<worker[w].step, worker[w].att>>}]
      BY <1>8 DEF AuthorizeExecution
    <2>3. PICK j \in Job : Moves(w, j, pc) /\ Kept(w, j)
      BY <1>0, <2>1, <2>2, GoMoves DEF JobPcs
    <2>4. worker'[w] = j /\ pc = "claim"
      BY <1>4, <2>2, <2>3 DEF Moves
    <2>5. ProcessOf[w] \in Processes
      BY StepAssumption DEF StepAssumption
    <2>6. <<worker[w].step, worker[w].att>> \in nonces'[ProcessOf[w]]
      BY <1>0, <2>2, <2>4, <2>5
    <2> QED
      BY <1>8, <2>1, <2>2, <2>3, <2>4, <2>6 DEF Moves
  <1>9. CASE CheckOwner(w, "claim", "claiming") \/ CheckOwner(w, "finish", "finishing")
    <2>1. PICK pc \in {"claiming", "finishing", "report"} :
              /\ Go(w, pc) /\ worker[w].pc # "idle" /\ execs' = execs
              /\ pc = "claiming" => worker[w].pc = "claim"
              /\ pc = "finishing" => worker[w].pc = "finish"
      BY <1>9 DEF CheckOwner, On
    <2>2. PICK j \in Job : Moves(w, j, pc) /\ Kept(w, j)
      BY <1>0, <2>1, GoMoves DEF JobPcs
    <2>3. worker'[w] = j
      BY <1>4, <2>2 DEF Moves
    <2> QED
      BY <2>1, <2>2, <2>3 DEF Moves, Kept
  <1>10. CASE ClaimEffect(w)
    <2>1. PICK j \in Job : Moves(w, j, "execute") \/ Moves(w, j, "report")
      BY <1>0, <1>10, ClaimEffectMoves
    <2>2. worker'[w] = j /\ worker[w].pc = "claiming"
      BY <1>0, <1>4, <1>10, <2>1, ClaimEffectMoves DEF Moves
    <2> QED
      BY <1>10, <2>1, <2>2 DEF Moves
  <1>11. CASE Begin(w)
    <2>1. PICK j \in Job : Moves(w, j, "executing") /\ j.exec = Len(execs[worker[w].step]) + 1
      BY <1>0, <1>11, BeginMoves
    <2>2. worker'[w] = j /\ worker[w].pc = "execute"
      BY <1>0, <1>4, <1>11, <2>1, BeginMoves DEF Moves
    <2> QED
      BY <1>11, <2>1, <2>2 DEF Moves
  <1>12. CASE End(w)
    <2>1. worker[w].pc = "executing" /\ Go(w, "finish")
      BY <1>12 DEF End, On
    <2>2. PICK j \in Job : Moves(w, j, "finish") /\ Kept(w, j)
      BY <1>0, <2>1, GoMoves DEF JobPcs
    <2>3. worker'[w] = j
      BY <1>4, <2>2 DEF Moves
    <2> QED
      BY <1>12, <2>1, <2>2, <2>3 DEF Moves, Kept
  <1> QED
    BY <1>1, <1>3, <1>5, <1>6, <1>7, <1>8, <1>9, <1>10, <1>11, <1>12 DEF WorkerStep

LEMMA NoncesGrow ==
    ASSUME TypeInv, Next, faults'.restarts = 0, NEW p \in Processes
    PROVE  nonces[p] \subseteq nonces'[p]
  <1>0. /\ nonces \in [Processes -> SUBSET (Steps \X Attempts)]
        /\ faults \in FaultCounts
    BY DEF TypeInv, TypeOK, FaultCounts
  <1>1. ~ \E q \in Processes : Restart(q)
    BY <1>0, FaultCounted DEF Restart
  <1>2. nonces' = nonces \/ \E w \in Threads : AuthorizeExecution(w)
    BY <1>1 DEF Next, HubStep, WorkerStep, Claim, Plan, Authorize, Submit, CollectCompleted,
           CollectFailed, Heartbeat, ReconcileOrphan, Expire, Cancel, Retry,
           CheckOwner, ClaimEffect, Begin, End, Finish, Report, Deliver, ConsumeRetry
  <1>3. ASSUME NEW w \in Threads, AuthorizeExecution(w)
        PROVE  nonces[p] \subseteq nonces'[p]
    <2>1. nonces' = nonces
          \/ nonces' = [nonces EXCEPT ![ProcessOf[w]] = @ \cup {<<worker[w].step, worker[w].att>>}]
      BY <1>3 DEF AuthorizeExecution
    <2> QED
      BY <1>0, <2>1
  <1> QED
    BY <1>2, <1>3

\* Only the thread that runs the handler writes its runs.
LEMMA ExecsWrites ==
    ASSUME TypeInv, Next, NEW s \in Steps, execs'[s] # execs[s]
    PROVE  /\ ledger' = ledger
           /\ \E w \in Threads :
                 /\ worker[w].step = s
                 /\ \/ /\ Begin(w) /\ worker[w].pc = "execute" /\ execs'[s] = Append(execs[s], "open")
                       /\ worker'[w].pc = "executing"
                    \/ /\ End(w) /\ worker[w].pc = "executing" /\ worker'[w].pc = "finish"
                       /\ \E e \in {"done", "failed", "unknown"} :
                             execs'[s] = [execs[s] EXCEPT ![worker[w].exec] = e]
  <1>0. /\ TypeOK /\ worker \in [Threads -> Job \cup {Free}]
        /\ execs \in [Steps -> Seq({"open", "done", "failed", "unknown"})]
    BY DEF TypeInv, TypeOK
  <1>1. PICK w \in Threads : Begin(w) \/ End(w)
    BY DEF Next, HubStep, WorkerStep, Claim, Plan, Authorize, Submit, CollectCompleted,
           CollectFailed, Heartbeat, ReconcileOrphan, Expire, Cancel, Retry, AuthorizeExecution,
           CheckOwner, ClaimEffect, Finish, Report, Deliver, ConsumeRetry, Restart
  <1>2. ledger' = ledger
    BY <1>1 DEF Begin, End
  <1>3. CASE Begin(w)
    <2>1. worker[w].pc = "execute" /\ \E j \in Job : Moves(w, j, "executing")
      BY <1>0, <1>3, BeginMoves
    <2>2. worker'[w].pc = "executing"
      BY <1>0, <2>1 DEF Moves
    <2>3. execs' = [execs EXCEPT ![worker[w].step] = Append(execs[worker[w].step], "open")]
      BY <1>3 DEF Begin
    <2>4. worker[w].step = s /\ execs'[s] = Append(execs[s], "open")
      BY <1>0, <2>3
    <2> QED
      BY <1>2, <1>3, <2>1, <2>2, <2>4
  <1>4. CASE End(w)
    <2>1. worker[w].pc = "executing" /\ Go(w, "finish")
      BY <1>4 DEF End, On
    <2>2. worker'[w].pc = "finish"
      BY <1>0, <2>1, GoMoves DEF Moves, JobPcs
    <2>3. PICK e \in {"done", "failed", "unknown"} :
              execs' = [execs EXCEPT ![worker[w].step][worker[w].exec] = e]
      BY <1>4 DEF End
    <2> DEFINE q == [execs[worker[w].step] EXCEPT ![worker[w].exec] = e]
    <2>4. execs' = [execs EXCEPT ![worker[w].step] = q]
      BY <2>3
    <2>5. worker[w].step = s /\ execs'[s] = q
      <3> HIDE DEF q
      <3> QED
        BY <1>0, <2>4
    <2> QED
      BY <1>2, <1>4, <2>1, <2>2, <2>5
  <1> QED
    BY <1>1, <1>3, <1>4

LEMMA ExecsWriter ==
    ASSUME TypeInv, Next, NEW s \in Steps, execs'[s] # execs[s]
    PROVE  \E w \in Threads :
              /\ worker[w].step = s
              /\ \/ worker[w].pc = "execute" /\ worker'[w].pc = "executing"
                 \/ worker[w].pc = "executing" /\ worker'[w].pc = "finish"
  <1>1. PICK w \in Threads :
            /\ worker[w].step = s
            /\ \/ /\ Begin(w) /\ worker[w].pc = "execute" /\ execs'[s] = Append(execs[s], "open")
                  /\ worker'[w].pc = "executing"
               \/ /\ End(w) /\ worker[w].pc = "executing" /\ worker'[w].pc = "finish"
                  /\ \E e \in {"done", "failed", "unknown"} :
                        execs'[s] = [execs[s] EXCEPT ![worker[w].exec] = e]
    BY ExecsWrites
  <1>2. \/ worker[w].pc = "execute" /\ worker'[w].pc = "executing"
        \/ worker[w].pc = "executing" /\ worker'[w].pc = "finish"
    BY <1>1
  <1> QED
    BY <1>1, <1>2, Zenon

\* Two threads never run the handler of one step.
LEMMA OneRunner ==
    ASSUME TypeInv, OneWorker, LedgerFences, NEW v \in Threads, NEW w \in Threads,
           worker[v].pc \in {"execute", "executing", "finish", "finishing"},
           worker[w].pc \in {"execute", "executing", "finish", "finishing"},
           worker[v].step = worker[w].step
    PROVE  v = w
  <1>1. Claimed(worker[v].step, worker[v].att) /\ Claimed(worker[w].step, worker[w].att)
    BY DEF LedgerFences
  <1>2. worker[v].att = worker[w].att
    BY <1>1 DEF Claimed
  <1> QED
    BY <1>2 DEF OneWorker, Working

LEMMA OneWorkerStep ==
    ASSUME SingleProcess, TypeInv, Next, faults'.restarts = 0, OneWorker
    PROVE  OneWorker'
  <1>0. \A w \in Threads : ProcessOf[w] \in Processes
    BY StepAssumption DEF StepAssumption
  <1>1. ASSUME NEW w \in Threads, Working(w)'
        PROVE  /\ <<worker'[w].step, worker'[w].att>> \in nonces'[ProcessOf[w]]
               /\ \/ Working(w) /\ worker'[w].step = worker[w].step /\ worker'[w].att = worker[w].att
                  \/ /\ ~ Working(w)
                     /\ <<worker'[w].step, worker'[w].att>> \notin nonces[ProcessOf[w]]
    <2>1. CASE worker'[w] = worker[w]
      BY <1>0, <1>1, <2>1, NoncesGrow DEF OneWorker, Working
    <2>2. CASE worker'[w] # worker[w]
      <3>1. worker'[w].pc \notin {"idle", "authorize", "report"}
        BY <1>1 DEF Working
      <3>2. worker'[w].step = worker[w].step /\ worker'[w].att = worker[w].att
        BY <2>2, <3>1, ThreadSteps
      <3>3. CASE Working(w)
        BY <1>0, <3>2, <3>3, NoncesGrow DEF OneWorker
      <3>4. CASE ~ Working(w)
        <4>1. /\ Fresh(ProcessOf[w], <<worker[w].step, worker[w].att>>)
              /\ <<worker[w].step, worker[w].att>> \in nonces'[ProcessOf[w]]
          BY <2>2, <3>1, <3>4, ThreadSteps DEF Working
        <4> QED
          BY <3>2, <4>1 DEF Fresh
      <3> QED
        BY <3>3, <3>4
    <2> QED
      BY <2>1, <2>2
  <1>2. ASSUME NEW v \in Threads, NEW w \in Threads, v # w, Working(v)', Working(w)',
               worker'[v].step = worker'[w].step, worker'[v].att = worker'[w].att
        PROVE  FALSE
    <2>1. ProcessOf[v] = ProcessOf[w]
      BY DEF SingleProcess
    <2>2. CASE Working(v) /\ Working(w)
      BY <1>1, <1>2, <2>1, <2>2 DEF OneWorker
    <2>3. CASE ~ Working(v) /\ Working(w)
      BY <1>1, <1>2, <2>1, <2>3 DEF OneWorker
    <2>4. CASE Working(v) /\ ~ Working(w)
      BY <1>1, <1>2, <2>1, <2>4 DEF OneWorker
    <2>5. CASE ~ Working(v) /\ ~ Working(w)
      <3>1. worker'[v] # worker[v] /\ worker'[w] # worker[w]
        BY <1>2, <2>5 DEF Working
      <3>2. AuthorizeExecution(v)
        BY <1>2, <2>5, <3>1, ThreadSteps DEF Working
      <3>3. worker \in [Threads -> Job \cup {Free}]
        BY DEF TypeInv, TypeOK
      <3>4. worker'[w] = worker[w]
        BY <1>2, <3>2, <3>3 DEF AuthorizeExecution, Go
      <3> QED
        BY <3>1, <3>4
    <2> QED
      BY <2>2, <2>3, <2>4, <2>5
  <1> QED
    BY <1>1, <1>2 DEF OneWorker

LEMMA LedgerFencesStep ==
    ASSUME SingleProcess, TypeInv, Next, faults'.restarts = 0, OneWorker, LedgerFences
    PROVE  LedgerFences'
  <1>0. /\ \A w \in Threads : ProcessOf[w] \in Processes
        /\ TypeOK /\ \A w \in Threads : worker[w].pc # "idle" => worker[w].step \in Steps
        /\ \A w \in Threads : worker[w].pc # "idle" => worker[w].att \in Attempts
        /\ ledger \in [Steps -> LedgerRow]
    BY StepAssumption, JobFields DEF StepAssumption, TypeInv, TypeOK
  <1>1. ASSUME NEW s \in Steps, NEW w \in Threads, ledger'[s].attempt # 0
        PROVE  <<s, ledger'[s].attempt>> \in nonces'[ProcessOf[w]]
    <2>1. CASE ledger'[s].attempt = ledger[s].attempt
      BY <1>0, <1>1, <2>1, NoncesGrow DEF LedgerFences
    <2>2. CASE ledger'[s].attempt # ledger[s].attempt
      <3>1. PICK v \in Threads : /\ worker[v].step = s /\ worker[v].pc = "claiming"
                                 /\ ledger'[s].attempt = worker[v].att
        BY <1>1, <2>2, LedgerWrites
      <3>2. <<s, worker[v].att>> \in nonces[ProcessOf[v]]
        BY <3>1 DEF OneWorker, Working
      <3>3. ProcessOf[v] = ProcessOf[w]
        BY DEF SingleProcess
      <3> QED
        BY <1>0, <3>1, <3>2, <3>3, NoncesGrow
    <2> QED
      BY <2>1, <2>2
  <1>2. ASSUME NEW w \in Threads, worker'[w].pc \in {"claim", "claiming"}
        PROVE  ledger'[worker'[w].step].attempt # worker'[w].att
    <2>1. /\ worker'[w].step = worker[w].step /\ worker'[w].att = worker[w].att
          /\ worker[w].pc # "idle"
          /\ \/ worker[w].pc \in {"claim", "claiming"}
             \/ AuthorizeExecution(w) /\ Fresh(ProcessOf[w], <<worker[w].step, worker[w].att>>)
      BY <1>2, ThreadSteps
    <2> DEFINE s == worker[w].step
    <2>2. s \in Steps /\ worker[w].att \in Attempts /\ worker[w].att # 0
      BY <1>0, <2>1, AttemptRange
    <2>3. ledger[s].attempt # worker[w].att
      BY <2>1, <2>2 DEF LedgerFences, Fresh
    <2>4. CASE ledger'[s].attempt = ledger[s].attempt
      BY <2>1, <2>3, <2>4
    <2>5. CASE ledger'[s].attempt # ledger[s].attempt
      <3>1. ledger'[s].attempt = 0
            \/ \E v \in Threads : /\ worker[v].step = s /\ worker[v].pc = "claiming"
                                  /\ ClaimEffect(v) /\ ledger'[s].attempt = worker[v].att
        BY <2>2, <2>5, LedgerWrites
      <3>2. ASSUME NEW v \in Threads, worker[v].step = s, worker[v].pc = "claiming", ClaimEffect(v),
                   worker[v].att = worker[w].att
            PROVE  FALSE
        <4>1. CASE v = w
          <5>1. \E j \in Job : Moves(w, j, "execute") \/ Moves(w, j, "report")
            BY <1>0, <3>2, <4>1, ClaimEffectMoves
          <5>2. worker \in [Threads -> Job \cup {Free}]
            BY <1>0 DEF TypeOK
          <5> QED
            BY <1>2, <5>1, <5>2 DEF Moves
        <4>2. CASE v # w
          <5>1. ~ AuthorizeExecution(w)
            <6>1. ledger' # ledger
              BY <2>5
            <6> QED
              BY <6>1 DEF AuthorizeExecution
          <5>2. Working(v) /\ Working(w)
            BY <2>1, <3>2, <5>1 DEF Working
          <5> QED
            BY <3>2, <4>2, <5>2 DEF OneWorker
        <4> QED
          BY <4>1, <4>2
      <3> QED
        BY <2>1, <2>2, <3>1, <3>2
    <2> QED
      BY <2>4, <2>5
  <1>3. ASSUME NEW w \in Threads, worker'[w].pc \in {"execute", "executing", "finish", "finishing"}
        PROVE  Claimed(worker[w].step, worker[w].att)'
    <2>1. /\ worker'[w].step = worker[w].step /\ worker'[w].att = worker[w].att
          /\ worker[w].pc # "idle"
          /\ \/ worker[w].pc \in {"execute", "executing", "finish", "finishing"}
             \/ ClaimEffect(w)
      BY <1>3, ThreadSteps
    <2> DEFINE s == worker[w].step
    <2>2. s \in Steps
      BY <1>0, <2>1
    <2>3. CASE ClaimEffect(w)
      <3> DEFINE free == /\ ledger[s].token = worker[w].att
                         /\ "started" \in Transitions(ledger[s].status)
      <3>1. CASE free
        <4>1. ledger' = [ledger EXCEPT ![s] = [status |-> "started", rev |-> ledger[s].rev + 1,
                                     token |-> worker[w].att, attempt |-> worker[w].att]]
          BY <2>3, <3>1 DEF ClaimEffect, Change
        <4>2. /\ ledger'[s].status = "started" /\ ledger'[s].token = worker[w].att
              /\ ledger'[s].attempt = worker[w].att
          BY <1>0, <2>2, <4>1
        <4> QED
          BY <2>1, <4>2 DEF Claimed
      <3>2. CASE ~ free
        <4>1. ledger' = ledger
          BY <2>3, <3>2 DEF ClaimEffect
        <4>2. Claimed(s, worker[w].att)
          <5>1. worker \in [Threads -> Job \cup {Free}] /\ worker[w] \in Job
            BY <1>0, <2>1, JobFields DEF TypeOK
          <5>2. CASE worker' = [worker EXCEPT ![w] =
                          [@ EXCEPT !.pc = IF free \/ Claimed(s, worker[w].att) THEN "execute"
                                                                                ELSE "report",
                                    !.rev = ledger'[s].rev]]
            <6> SUFFICES ASSUME ~ Claimed(s, worker[w].att) PROVE FALSE
              OBVIOUS
            <6>1. worker' = [worker EXCEPT ![w] = [worker[w] EXCEPT !.pc = "report",
                                                                    !.rev = ledger'[s].rev]]
              BY <3>2, <5>2
            <6>2. worker'[w].pc = "report"
              BY <5>1, <6>1 DEF Job
            <6> QED
              BY <1>3, <6>2
          <5>3. CASE Go(w, "report")
            <6>1. worker'[w].pc = "report"
              BY <5>1, <5>3 DEF Go, Job
            <6> QED
              BY <1>3, <6>1
          <5> QED
            BY <2>3, <5>2, <5>3 DEF ClaimEffect
        <4> QED
          BY <2>1, <4>1, <4>2 DEF Claimed
      <3> QED
        BY <3>1, <3>2
    <2>4. CASE worker[w].pc \in {"execute", "executing", "finish", "finishing"}
      <3>1. Claimed(s, worker[w].att)
        BY <2>4 DEF LedgerFences
      <3>2. ledger'[s] = ledger[s]
        <4> SUFFICES ASSUME ledger'[s] # ledger[s] PROVE FALSE
          OBVIOUS
        <4>1. PICK v \in Threads : /\ worker[v].step = s /\ worker[v].pc = "finishing" /\ Finish(v)
                                   /\ ledger[s].attempt = worker[v].att
          BY <2>2, <3>1, LedgerWrites DEF Claimed
        <4>2. v = w
          BY <2>4, <4>1, OneRunner
        <4>3. \E j \in Job : Moves(w, j, "report")
          BY <1>0, <4>1, <4>2, FinishMoves
        <4>4. worker \in [Threads -> Job \cup {Free}]
          BY <1>0 DEF TypeOK
        <4> QED
          BY <1>3, <4>3, <4>4 DEF Moves
      <3> QED
        BY <2>1, <3>1, <3>2 DEF Claimed
    <2> QED
      BY <2>1, <2>3, <2>4
  <1> QED
    BY <1>1, <1>2, <1>3 DEF LedgerFences

\* A run of the handler is added, or the last one ends.
LEMMA RunAdded ==
    ASSUME TypeInv, NEW s \in Steps
    PROVE  LET A == Append(execs[s], "open") IN
           /\ Len(execs[s]) \in Nat
           /\ DOMAIN execs[s] = 1 .. Len(execs[s])
           /\ Len(A) = Len(execs[s]) + 1
           /\ DOMAIN A = 1 .. (Len(execs[s]) + 1)
           /\ \A i \in 1 .. Len(execs[s]) : A[i] = execs[s][i]
  <1>1. execs[s] \in Seq({"open", "done", "failed", "unknown"})
    BY DEF TypeInv, TypeOK
  <1> QED
    BY <1>1

LEMMA RunEnded ==
    ASSUME TypeInv, NEW s \in Steps, NEW e \in {"done", "failed", "unknown"},
           NEW q, q = [execs[s] EXCEPT ![Len(execs[s])] = e]
    PROVE  /\ Len(execs[s]) \in Nat
           /\ DOMAIN execs[s] = 1 .. Len(execs[s])
           /\ Len(q) = Len(execs[s])
           /\ DOMAIN q = 1 .. Len(execs[s])
           /\ \A i \in 1 .. Len(execs[s]) : i # Len(execs[s]) => q[i] = execs[s][i]
  <1>1. execs[s] \in Seq({"open", "done", "failed", "unknown"})
    BY DEF TypeInv, TypeOK
  <1>2. Len(execs[s]) \in Nat /\ DOMAIN execs[s] = 1 .. Len(execs[s])
    BY <1>1
  <1>3. e \in {"open", "done", "failed", "unknown"}
    OBVIOUS
  <1>4. Len([execs[s] EXCEPT ![Len(execs[s])] = e]) = Len(execs[s])
    BY <1>1, <1>3, EndedSeq
  <1>5. Len(q) = Len(execs[s])
    BY <1>4
  <1> QED
    BY <1>2, <1>5

\* The runs of a step that a thread is running are written by it alone.
LEMMA RunsFramed ==
    ASSUME SingleProcess, TypeInv, Next, OneWorker, LedgerFences, NEW w \in Threads,
           worker[w].pc \in {"execute", "executing", "finish", "finishing"},
           worker'[w].pc \in {"execute", "finishing"} \/ worker'[w] = worker[w]
    PROVE  execs'[worker[w].step] = execs[worker[w].step]
  <1> DEFINE s == worker[w].step
  <1> SUFFICES ASSUME execs'[s] # execs[s] PROVE FALSE
    OBVIOUS
  <1>1. s \in Steps
    BY JobFields DEF TypeInv
  <1>2. PICK v \in Threads : /\ worker[v].step = s
                             /\ \/ worker[v].pc = "execute" /\ worker'[v].pc = "executing"
                                \/ worker[v].pc = "executing" /\ worker'[v].pc = "finish"
    BY <1>1, ExecsWriter
  <1>3. v = w
    BY <1>2, OneRunner
  <1> QED
    BY <1>2, <1>3

LEMMA LastRunOpenStep ==
    ASSUME SingleProcess, TypeInv, Next, faults'.restarts = 0, OneWorker, LedgerFences,
           LastRunOpen, NoBlindRepeat
    PROVE  LastRunOpen'
  <1>0. /\ TypeOK /\ \A w \in Threads : worker[w].pc # "idle" => worker[w].step \in Steps
    BY JobFields DEF TypeInv
  <1>1. ASSUME NEW s \in Steps,
               ledger'[s].status \in {"none", "planned", "authorized", "failed"}
        PROVE  AllFailed(s)'
    <2>1. CASE execs'[s] # execs[s]
      <3>1. PICK w \in Threads : /\ worker[w].step = s
                                 /\ worker[w].pc = "execute" \/ worker[w].pc = "executing"
        BY <2>1, ExecsWriter
      <3>2. ledger[s].status = "started"
        BY <3>1 DEF LedgerFences, Claimed
      <3> QED
        BY <1>1, <2>1, <3>2, ExecsWrites
    <2>2. CASE execs'[s] = execs[s]
      <3> SUFFICES AllFailed(s)
        BY <2>2 DEF AllFailed
      <3>1. CASE ledger[s].status \in {"none", "planned", "authorized", "failed"}
        BY <3>1 DEF LastRunOpen
      <3>2. CASE ledger[s].status \notin {"none", "planned", "authorized", "failed"}
        <4>1. PICK w \in Threads : /\ worker[w].step = s /\ worker[w].pc = "finishing"
                                   /\ ledger'[s].status = LedgerStatus(execs[s][worker[w].exec])
          BY <1>1, <3>2, LedgerWrites
        <4>2. execs[s][worker[w].exec] = "failed"
          BY <1>1, <4>1 DEF LedgerStatus
        <4>3. worker[w].exec = Len(execs[s])
          BY <4>1 DEF LastRunOpen
        <4>4. Len(execs[s]) \in Nat /\ DOMAIN execs[s] = 1 .. Len(execs[s])
          BY RunAdded
        <4>5. \A i \in DOMAIN execs[s] : i = Len(execs[s])
                  \/ (i < Len(execs[s]) /\ Len(execs[s]) \in DOMAIN execs[s])
          BY <4>4
        <4> QED
          BY <4>2, <4>3, <4>5 DEF NoBlindRepeat, AllFailed
      <3> QED
        BY <3>1, <3>2
    <2> QED
      BY <2>1, <2>2
  <1>2. ASSUME NEW w \in Threads, worker'[w].pc = "execute"
        PROVE  /\ worker'[w].step = worker[w].step
               /\ AllFailed(worker[w].step)'
    <2> DEFINE s == worker[w].step
    <2>1. CASE worker'[w] = worker[w]
      <3>1. execs'[s] = execs[s] /\ AllFailed(s)
        BY <1>2, <2>1, RunsFramed DEF LastRunOpen
      <3> QED
        BY <2>1, <3>1 DEF AllFailed
    <2>2. CASE worker'[w] # worker[w]
      <3>1. /\ worker'[w].step = s
            /\ ClaimEffect(w) /\ worker[w].pc = "claiming"
        BY <1>2, <2>2, ThreadSteps
      <3>2. s \in Steps
        BY <1>0, <3>1
      <3>3. execs' = execs
        BY <3>1 DEF ClaimEffect
      <3>4. ledger[s].attempt # worker[w].att
        BY <3>1 DEF LedgerFences
      <3>5. LedgerFences'
        BY LedgerFencesStep
      <3>6. ledger'[s].attempt = worker'[w].att /\ worker'[w].att = worker[w].att
        BY <1>2, <2>2, <3>1, <3>5, ThreadSteps DEF LedgerFences, Claimed
      <3>7. ledger[s].status = "authorized"
        <4>1. worker[w].att # 0
          BY <1>0, <3>1, JobFields, AttemptRange
        <4>2. ledger'[s].attempt # ledger[s].attempt /\ ledger'[s].attempt # 0
          BY <3>4, <3>6, <4>1
        <4> QED
          BY <3>2, <4>2, LedgerWrites
      <3>8. AllFailed(s)
        BY <3>2, <3>7 DEF LastRunOpen
      <3> QED
        BY <3>1, <3>3, <3>8 DEF AllFailed
    <2> QED
      BY <2>1, <2>2
  <1>3. ASSUME NEW w \in Threads, worker'[w].pc \in {"executing", "finish", "finishing"}
        PROVE  worker'[w].exec = Len(execs'[worker'[w].step])
    <2> DEFINE s == worker[w].step
    <2>1. CASE worker'[w] = worker[w]
      <3>1. execs'[s] = execs[s]
        BY <1>3, <2>1, RunsFramed
      <3> QED
        BY <1>3, <2>1, <3>1 DEF LastRunOpen
    <2>2. CASE worker'[w] # worker[w]
      <3>1. worker'[w].step = s /\ s \in Steps
        BY <1>0, <1>3, <2>2, ThreadSteps
      <3>2. CASE Begin(w) /\ worker'[w].exec = Len(execs[s]) + 1
        <4>1. execs \in [Steps -> Seq({"open", "done", "failed", "unknown"})]
          BY <1>0 DEF TypeOK
        <4>2. execs'[s] = Append(execs[s], "open")
          BY <3>1, <3>2, <4>1 DEF Begin
        <4>3. Len(execs'[s]) = Len(execs[s]) + 1
          BY <3>1, <4>2, RunAdded
        <4> QED
          BY <3>1, <3>2, <4>3
      <3>3. CASE End(w) /\ worker[w].pc = "executing" /\ worker'[w].exec = worker[w].exec
        <4>1. worker[w].exec = Len(execs[s])
          BY <3>3 DEF LastRunOpen
        <4>2. execs \in [Steps -> Seq({"open", "done", "failed", "unknown"})]
          BY <1>0 DEF TypeOK
        <4>3. PICK e \in {"done", "failed", "unknown"} :
                  execs' = [execs EXCEPT ![s][Len(execs[s])] = e]
          BY <3>3, <4>1 DEF End
        <4>4. execs'[s] = [execs[s] EXCEPT ![Len(execs[s])] = e]
          BY <3>1, <4>2, <4>3
        <4>5. Len(execs'[s]) = Len(execs[s])
          BY <3>1, <4>4, RunEnded
        <4> QED
          BY <3>1, <3>3, <4>1, <4>5
      <3>4. CASE /\ worker[w].pc = "finish" /\ worker'[w].pc = "finishing"
                 /\ worker'[w].exec = worker[w].exec
        <4>1. execs'[s] = execs[s]
          BY <3>4, RunsFramed
        <4>2. worker[w].exec = Len(execs[s])
          BY <3>4 DEF LastRunOpen
        <4> QED
          BY <3>1, <3>4, <4>1, <4>2
      <3> QED
        BY <1>3, <2>2, <3>2, <3>3, <3>4, ThreadSteps
    <2> QED
      BY <2>1, <2>2
  <1> QED
    BY <1>1, <1>2, <1>3 DEF LastRunOpen, AllFailed

LEMMA NoBlindRepeatStep ==
    ASSUME TypeInv, Next, LastRunOpen, NoBlindRepeat
    PROVE  NoBlindRepeat'
  <1> SUFFICES ASSUME NEW s \in Steps, NEW i \in DOMAIN execs'[s], NEW k \in DOMAIN execs'[s], i < k
               PROVE  execs'[s][i] = "failed"
    BY DEF NoBlindRepeat
  <1>0. Len(execs[s]) \in Nat /\ DOMAIN execs[s] = 1 .. Len(execs[s])
    BY RunAdded
  <1>1. CASE execs'[s] = execs[s]
    BY <1>1 DEF NoBlindRepeat
  <1>2. CASE execs'[s] # execs[s]
    <2>1. PICK w \in Threads :
              /\ worker[w].step = s
              /\ \/ worker[w].pc = "execute" /\ execs'[s] = Append(execs[s], "open")
                 \/ /\ worker[w].pc = "executing"
                    /\ \E e \in {"done", "failed", "unknown"} :
                          execs'[s] = [execs[s] EXCEPT ![worker[w].exec] = e]
      BY <1>2, ExecsWrites
    <2>2. CASE worker[w].pc = "execute" /\ execs'[s] = Append(execs[s], "open")
      <3>1. AllFailed(s)
        BY <2>1, <2>2 DEF LastRunOpen
      <3>2. /\ i \in 1 .. (Len(execs[s]) + 1) /\ k \in 1 .. (Len(execs[s]) + 1)
            /\ \A x \in 1 .. Len(execs[s]) : execs'[s][x] = execs[s][x]
        BY <2>2, RunAdded
      <3>3. i \in 1 .. Len(execs[s])
        BY <1>0, <3>2
      <3> QED
        BY <1>0, <3>1, <3>2, <3>3 DEF AllFailed
    <2>3. CASE /\ worker[w].pc = "executing"
               /\ \E e \in {"done", "failed", "unknown"} :
                     execs'[s] = [execs[s] EXCEPT ![worker[w].exec] = e]
      <3>1. worker[w].exec = Len(execs[s])
        BY <2>1, <2>3 DEF LastRunOpen
      <3>2. PICK e \in {"done", "failed", "unknown"} :
                execs'[s] = [execs[s] EXCEPT ![Len(execs[s])] = e]
        BY <2>3, <3>1
      <3>3. /\ i \in 1 .. Len(execs[s]) /\ k \in 1 .. Len(execs[s])
            /\ i # Len(execs[s]) => execs'[s][i] = execs[s][i]
        BY <3>2, RunEnded
      <3>4. i # Len(execs[s])
        BY <1>0, <3>3
      <3>5. execs[s][i] = "failed"
        BY <1>0, <3>3 DEF NoBlindRepeat
      <3> QED
        BY <3>3, <3>4, <3>5
    <2> QED
      BY <2>1, <2>2, <2>3
  <1> QED
    BY <1>1, <1>2

LEMMA NonceAlways ==
    ASSUME SingleProcess
    PROVE  Spec => [](TypeInv /\ DoneInv /\ NonceInv)
  <1>1. Init => NonceInv
    <2> SUFFICES ASSUME Init PROVE NonceInv
      OBVIOUS
    <2>1. \A w \in Threads : worker[w].pc = "idle"
      BY DEF Init, Free
    <2>2. \A s \in Steps : ledger[s].attempt = 0 /\ DOMAIN execs[s] = {}
      BY DEF Init, NoRecord
    <2>3. OneWorker
      BY <2>1 DEF OneWorker, Working
    <2>4. LedgerFences
      BY <2>1, <2>2 DEF LedgerFences
    <2>5. LastRunOpen /\ NoBlindRepeat
      BY <2>1, <2>2 DEF LastRunOpen, AllFailed, NoBlindRepeat
    <2> QED
      BY <2>3, <2>4, <2>5 DEF NonceInv
  <1>2. TypeInv /\ NonceInv /\ [Next]_vars => NonceInv'
    <2> SUFFICES ASSUME TypeInv, NonceInv, [Next]_vars, faults'.restarts = 0
                 PROVE  (OneWorker /\ LedgerFences /\ LastRunOpen /\ NoBlindRepeat)'
      BY DEF NonceInv
    <2>1. CASE Next
      <3>1. faults.restarts = 0
        <4>1. faults \in FaultCounts
          BY DEF TypeInv, TypeOK, FaultCounts
        <4>2. \/ faults' = faults
              \/ faults' = [faults EXCEPT !.deliveries = @ + 1]
              \/ faults' = [faults EXCEPT !.lost = @ + 1]
              \/ faults' = [faults EXCEPT !.restarts = @ + 1]
          BY <2>1 DEF Next, HubStep, WorkerStep, Claim, Plan, Authorize, Submit, CollectCompleted,
                CollectFailed, Heartbeat, ReconcileOrphan, Expire, Cancel, Retry,
                AuthorizeExecution, CheckOwner, ClaimEffect, Begin, End, Finish, Report, Deliver,
                ConsumeRetry, Restart, Lost
        <4> QED
          BY <4>1, <4>2, FaultCounted
      <3>2. OneWorker /\ LedgerFences /\ LastRunOpen /\ NoBlindRepeat
        BY <3>1 DEF NonceInv
      <3> QED
        BY <2>1, <3>2, OneWorkerStep, LedgerFencesStep, LastRunOpenStep, NoBlindRepeatStep
    <2>2. CASE UNCHANGED vars
      <3>1. faults.restarts = 0
        BY <2>2 DEF vars
      <3>2. OneWorker /\ LedgerFences /\ LastRunOpen /\ NoBlindRepeat
        BY <3>1 DEF NonceInv
      <3> QED
        BY <2>2, <3>2 DEF vars, OneWorker, Working, LedgerFences, Claimed, LastRunOpen, AllFailed,
                          NoBlindRepeat
    <2> QED
      BY <2>1, <2>2
  <1> QED
    BY <1>1, <1>2, TypeInit, TypeStep, DoneAlways, PTL DEF Spec

\* With one worker process that has not restarted, a step's handler runs
\* again only after every earlier run of it ended in a known failure, however
\* often its tasks are delivered and whatever answers of the gateway are lost.
THEOREM NoncesStopRepeats ==
    ASSUME SingleProcess
    PROVE  Spec => []NoRepeatWithNonces
  <1>1. NonceInv => NoRepeatWithNonces
    BY DEF NonceInv, NoRepeatWithNonces
  <1> QED
    BY <1>1, NonceAlways, PTL

\* The ledger tells the truth about the handler: completed only if a run of
\* it was done, and with one process that has not restarted, open to another
\* attempt only if every run so far ended in a known failure.
THEOREM LedgerTellsTruth ==
    ASSUME SingleProcess
    PROVE  Spec => []LedgerTruthful
  <1>1. DoneInv /\ NonceInv => LedgerTruthful
    <2> SUFFICES ASSUME DoneInv, NonceInv, NEW s \in Steps
                 PROVE  /\ ledger[s].status = "completed" => "done" \in Range(execs[s])
                        /\ faults.restarts = 0
                           /\ ledger[s].status \in {"failed", "planned", "authorized"} =>
                              Range(execs[s]) \subseteq {"failed"}
      BY DEF LedgerTruthful
    <2>1. ledger[s].status = "completed" => "done" \in Range(execs[s])
      BY DEF DoneInv, SuccessPassedOn, Range
    <2>2. faults.restarts = 0 /\ ledger[s].status \in {"failed", "planned", "authorized"} =>
              Range(execs[s]) \subseteq {"failed"}
      BY DEF NonceInv, LastRunOpen, AllFailed, Range
    <2> QED
      BY <2>1, <2>2
  <1> QED
    BY <1>1, NonceAlways, PTL
=============================================================================
