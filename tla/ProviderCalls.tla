---------------------------- MODULE ProviderCalls ----------------------------
(***************************************************************************)
(* Model calls of the steps of one run, paid from budgets that the Hub     *)
(* owns.                                                                   *)
(*                                                                         *)
(* A step attempt works through the plan its envelope signs: a sequence of *)
(* provider profiles, each with a number of attempts.  Before every call   *)
(* the worker reserves tokens and cost at the Hub, and after an answer     *)
(* that reports its usage it reconciles the reservation with the usage.    *)
(* The Hub charges a reservation to two budgets, the run's and the step    *)
(* attempt's, and to the attempts of the profile, in one transaction.      *)
(*                                                                         *)
(* A transaction reads the reservations, then the budgets, and then writes *)
(* if no row it read has changed; a conflict starts it again, a bounded    *)
(* number of times.  On PostgreSQL the reads also lock the rows that exist;*)
(* a row not there yet cannot be locked, and SQLite has no row locks, so   *)
(* what protects the counters in every deployment is the comparison of     *)
(* revisions, and the model leaves the locks out.                          *)
(***************************************************************************)
EXTENDS Integers, Sequences, FiniteSets, FiniteSetsExt

CONSTANTS Nodes,          \* step attempts of the run
          None,           \* no row, no usage
          Run,            \* the scope of the run's own budget
          Plan,           \* attempts of each profile, in the signed order
          Reserve,        \* [tokens, cost] reserved for a call
          Usages,         \* the tokens a call may really use
          RunLimit,       \* run limit that a node's envelope carries
          NodeLimit,      \* node limit that a node's envelope carries
          Tries,          \* times a transaction is tried (four in the code)
          MaxTurns,       \* bound: invocations of all step attempts
          MaxFaults,      \* bound: workers that die, requests not waited for or delivered twice
          UnreportedIsZero  \* a provider without usage counters is read as 0

Profiles == 1..Len(Plan)
Scopes == {Run} \cup Nodes
Calls == Nodes \X Nat
Limits == [tokens : Nat, cost : Nat]
BudgetRows == [attempts : Nat, tokens : Nat, cost : Nat, limit : Limits,
               revision : Nat \ {0}]

\* The sum of the natural numbers f[x], counted unit by unit.
Units(f) == UNION {{x} \X (1..f[x]) : x \in DOMAIN f}
Total(f) == Cardinality(Units(f))

ASSUME ConstantsAssumption ==
    /\ Run \notin Nodes
    /\ Plan \in Seq(Nat \ {0}) /\ Plan # <<>>
    /\ Reserve \in Limits
    /\ Usages \subseteq Nat
    /\ RunLimit \in [Nodes -> Limits]
    /\ NodeLimit \in [Nodes -> Limits]
    /\ Tries \in Nat \ {0}
    /\ {MaxTurns, MaxFaults} \subseteq Nat
    /\ UnreportedIsZero \in BOOLEAN
    /\ None \notin BudgetRows

VARIABLES budget,    \* per scope, the budget row, None before the first call
          rows,      \* per scope, the reservation rows by call
          used,      \* attempts used of each profile, per step attempt
          consumed,  \* calls whose profile attempt has been recorded
          requests,  \* transactions of the Hub that have not ended
          worker,    \* per step attempt, where its invocation stands
          spent,     \* what each call sent to a provider really used
          faults     \* how much of MaxFaults is used

vars == <<budget, rows, used, consumed, requests, worker, spent, faults>>

hubVars == <<budget, rows, used, consumed>>

-----------------------------------------------------------------------------
(* The Hub's store.                                                        *)

ScopesOf(call) == {Run, call[1]}

LimitIn(scope, node) == IF scope = Run THEN RunLimit[node] ELSE NodeLimit[node]

\* A limit of zero is no limit.
Exceeds(limit, amount) == limit # 0 /\ amount > limit

\* A row keeps the limits of its first reservation; another limit is refused.
HasCapacity(scope, row, node) ==
    LET limit == LimitIn(scope, node)
        tokens == IF row = None THEN 0 ELSE row.tokens
        cost == IF row = None THEN 0 ELSE row.cost
    IN  /\ row # None => row.limit = limit
        /\ ~Exceeds(limit.tokens, tokens + Reserve.tokens)
        /\ ~Exceeds(limit.cost, cost + Reserve.cost)

PredecessorsExhausted(attempts, profile) ==
    \A q \in 1..(profile - 1) : attempts[q] = Plan[q]

\* Mutant: one attempt too many.
AttemptLeft_OffByOne(attempts, profile) == attempts[profile] <= Plan[profile]

AttemptLeft(attempts, profile) == attempts[profile] < Plan[profile]

\* What _reserve_once answers from the rows it has read.
ReserveDecision(r) ==
    LET node == r.call[1] IN
    IF r.seen # None THEN "allowed"
    ELSE IF \E s \in ScopesOf(r.call) : ~HasCapacity(s, r.read.budget[s], node)
         THEN "denied"
    ELSE IF ~PredecessorsExhausted(r.read.used, r.profile) \/ r.read.consumed
         THEN "denied"
    ELSE IF ~AttemptLeft(r.read.used, r.profile) THEN "attempts_exceeded"
    ELSE "write"

\* What _reconcile_once answers from the rows it has read.
ReconcileDecision(r) ==
    IF r.seen = None THEN "denied"
    ELSE IF r.seen.reconciled
         THEN IF r.seen.actual = r.actual THEN "allowed" ELSE "denied"
    ELSE "write"

Decision(r) == IF r.op = "reserve" THEN ReserveDecision(r) ELSE ReconcileDecision(r)

\* Mutant: the updates compare the key of a row and not its revision.
BudgetsUnchanged_KeyOnly(r) ==
    \A s \in ScopesOf(r.call) : budget[s] = None <=> r.read.budget[s] = None

\* The revisions the updates compare are those of the rows that were read.
BudgetsUnchanged(r) == \A s \in ScopesOf(r.call) : budget[s] = r.read.budget[s]

\* The new reservation's keys are free, and nobody else used an attempt.
ReserveCommits(r) ==
    /\ BudgetsUnchanged(r)
    /\ used[r.call[1]][r.profile] = r.read.used[r.profile]
    /\ r.call \notin DOMAIN rows[Run] /\ r.call \notin consumed

\* Mutant: the reservation's own update does not ask whether it is reconciled.
ReconcileCommits_Twice(r) == BudgetsUnchanged(r)

\* The reservation is updated only while it is not reconciled.
ReconcileCommits(r) ==
    /\ BudgetsUnchanged(r)
    /\ ~rows[Run][r.call].reconciled

Charged(row, limit) ==
    IF row = None
    THEN [attempts |-> 1, tokens |-> Reserve.tokens, cost |-> Reserve.cost,
          limit |-> limit, revision |-> 1]
    ELSE [row EXCEPT !.attempts = @ + 1, !.tokens = @ + Reserve.tokens,
                     !.cost = @ + Reserve.cost, !.revision = @ + 1]

WriteReservation(r) ==
    LET node == r.call[1]
        row == [profile |-> r.profile, reserved |-> Reserve.tokens,
                reconciled |-> FALSE, actual |-> None]
    IN  /\ budget' = [s \in Scopes |->
                        IF s \in ScopesOf(r.call)
                        THEN Charged(budget[s], LimitIn(s, node)) ELSE budget[s]]
        /\ rows' = [s \in Scopes |->
                        IF s \in ScopesOf(r.call)
                        THEN [c \in DOMAIN rows[s] \cup {r.call} |->
                                IF c = r.call THEN row ELSE rows[s][c]]
                        ELSE rows[s]]
        /\ used' = [used EXCEPT ![node][r.profile] = @ + 1]
        /\ consumed' = consumed \cup {r.call}

\* Tokens are corrected to the usage, never below zero; cost is not.
Reconciled(row, reserved, actual) ==
    [row EXCEPT !.tokens = Max({0, @ + actual - reserved}), !.revision = @ + 1]

WriteReconciliation(r) ==
    /\ budget' = [s \in Scopes |->
                    IF s \in ScopesOf(r.call)
                    THEN Reconciled(budget[s], r.seen.reserved, r.actual)
                    ELSE budget[s]]
    /\ rows' = [s \in Scopes |->
                    IF s \in ScopesOf(r.call)
                    THEN [rows[s] EXCEPT ![r.call].reconciled = TRUE,
                                         ![r.call].actual = r.actual]
                    ELSE rows[s]]
    /\ UNCHANGED <<used, consumed>>

-----------------------------------------------------------------------------
(* The worker's invocation.                                                *)

Request(call, op, profile, actual) ==
    [call |-> call, op |-> op, profile |-> profile, actual |-> actual,
     copy |-> 1, at |-> "reservations", seen |-> None, read |-> None, tries |-> 1]

\* Every call has an identifier of its own, a retry of the same prompt too.
CallOf(n) == <<n, worker[n].calls>>

StartCall(n, profile, failed) ==
    /\ worker' = [worker EXCEPT ![n].at = "reserving", ![n].profile = profile,
                                ![n].failed = failed, ![n].calls = @ + 1,
                                ![n].turns = IF worker[n].at = "idle" THEN @ + 1 ELSE @]
    /\ requests' = requests \cup
                    {Request(<<n, worker[n].calls + 1>>, "reserve", profile, None)}

EndTurn(n, how) == worker' = [worker EXCEPT ![n].at = "idle", ![n].ended = how]

\* A strategy of the step invokes the model; each invocation starts at the
\* first profile of the plan, with no failure counted.
Invoke(n) ==
    /\ worker[n].at = "idle" /\ Total([m \in Nodes |-> worker[m].turns]) < MaxTurns
    /\ StartCall(n, 1, 0)
    /\ UNCHANGED <<hubVars, spent, faults>>

Sent(n, usage) ==
    spent' = [c \in DOMAIN spent \cup {CallOf(n)} |->
                IF c = CallOf(n) THEN [profile |-> worker[n].profile, usage |-> usage]
                ELSE spent[c]]

\* Mutant: a missing usage is reconciled as zero.
Reports_Zero(usage) == {usage, 0}

\* A provider that reports no usage leaves the reservation as it stands,
\* except where missing counters are read as zero.
Reports(usage) == {usage, IF UnreportedIsZero THEN 0 ELSE None}

Served(n, usage, reported) ==
    /\ worker[n].at = "calling"
    /\ Sent(n, usage)
    /\ IF reported = None
       THEN EndTurn(n, "served") /\ UNCHANGED requests
       ELSE /\ worker' = [worker EXCEPT ![n].at = "reconciling"]
            /\ requests' = requests \cup
                 {Request(CallOf(n), "reconcile", worker[n].profile, reported)}
    /\ UNCHANGED <<hubVars, faults>>

\* The provider failed, timed out, or its answer broke the contract.  A
\* failure whose type allows no fallback ends the invocation; another one is
\* retried while this invocation has failed less often than the profile has
\* attempts, and then goes to the next profile.  No reservation is released.
Failed(n, usage, fallback) ==
    LET p == worker[n].profile
        failures == worker[n].failed + 1
    IN  /\ worker[n].at = "calling"
        /\ Sent(n, usage)
        /\ \/ /\ ~fallback
              /\ EndTurn(n, "failed") /\ UNCHANGED requests
           \/ /\ fallback /\ failures < Plan[p]
              /\ StartCall(n, p, failures)
           \/ /\ fallback /\ failures >= Plan[p] /\ p < Len(Plan)
              /\ StartCall(n, p + 1, 0)
           \/ /\ fallback /\ failures >= Plan[p] /\ p = Len(Plan)
              /\ EndTurn(n, "exhausted") /\ UNCHANGED requests
        /\ UNCHANGED <<hubVars, faults>>

\* The worker stops waiting for the Hub, whose transaction goes on.
GiveUp(n) ==
    /\ worker[n].at \in {"reserving", "reconciling"}
    /\ faults < MaxFaults
    /\ faults' = faults + 1
    /\ EndTurn(n, "lost")
    /\ UNCHANGED <<hubVars, requests, spent>>

\* The worker process dies; its step attempt makes no further call.
Stop(n) ==
    /\ worker[n].at # "stopped"
    /\ faults < MaxFaults
    /\ faults' = faults + 1
    /\ worker' = [worker EXCEPT ![n].at = "stopped"]
    /\ UNCHANGED <<hubVars, requests, spent>>

-----------------------------------------------------------------------------
(* The Hub's transactions.                                                 *)

Advance(r, new) == requests' = (requests \ {r}) \cup {new}

ReadReservations(r) ==
    /\ r.at = "reservations"
    /\ Advance(r, [r EXCEPT !.at = "budgets",
                     !.seen = IF r.call \in DOMAIN rows[Run]
                              THEN rows[Run][r.call] ELSE None])
    /\ UNCHANGED <<hubVars, worker, spent, faults>>

ReadBudgets(r) ==
    /\ r.at = "budgets"
    /\ Advance(r, [r EXCEPT !.at = "write",
                     !.read = [budget |-> [s \in ScopesOf(r.call) |-> budget[s]],
                               used |-> used[r.call[1]],
                               consumed |-> r.call \in consumed]])
    /\ UNCHANGED <<hubVars, worker, spent, faults>>

\* A refused or unanswered reservation ends the invocation: none of the
\* Hub's reasons is a failure that allows a retry or a fallback.
Answer(r, result) ==
    LET n == r.call[1]
        waiting == r.call = CallOf(n) /\ worker[n].at =
                     (IF r.op = "reserve" THEN "reserving" ELSE "reconciling")
    IN  IF ~waiting THEN UNCHANGED worker
        ELSE IF result = "allowed" /\ r.op = "reserve"
             THEN worker' = [worker EXCEPT ![n].at = "calling"]
        ELSE EndTurn(n, IF result = "allowed" THEN "served" ELSE result)

Refuse(r) ==
    /\ r.at = "write" /\ Decision(r) # "write"
    /\ requests' = requests \ {r}
    /\ Answer(r, Decision(r))
    /\ UNCHANGED <<hubVars, spent, faults>>

Commit(r) ==
    /\ r.at = "write" /\ Decision(r) = "write"
    /\ \/ r.op = "reserve" /\ ReserveCommits(r) /\ WriteReservation(r)
       \/ r.op = "reconcile" /\ ReconcileCommits(r) /\ WriteReconciliation(r)
    /\ requests' = requests \ {r}
    /\ Answer(r, "allowed")
    /\ UNCHANGED <<spent, faults>>

\* The transaction is rolled back and tried again, or given up.
Conflict(r) ==
    /\ r.at = "write" /\ Decision(r) = "write"
    /\ IF r.op = "reserve" THEN ~ReserveCommits(r) ELSE ~ReconcileCommits(r)
    /\ IF r.tries < Tries
       THEN /\ Advance(r, [r EXCEPT !.at = "reservations", !.seen = None,
                                    !.read = None, !.tries = @ + 1])
            /\ UNCHANGED worker
       ELSE requests' = requests \ {r} /\ Answer(r, "denied")
    /\ UNCHANGED <<hubVars, spent, faults>>

\* A request reaches the Hub a second time.
Redeliver(r) ==
    /\ faults < MaxFaults /\ r.copy = 1
    /\ faults' = faults + 1
    /\ requests' = requests \cup
          {[Request(r.call, r.op, r.profile, r.actual) EXCEPT !.copy = 2]}
    /\ UNCHANGED <<hubVars, worker, spent>>

-----------------------------------------------------------------------------
Init ==
    /\ budget = [s \in Scopes |-> None]
    /\ rows = [s \in Scopes |-> <<>>]
    /\ used = [n \in Nodes |-> [p \in Profiles |-> 0]]
    /\ consumed = {}
    /\ requests = {}
    /\ worker = [n \in Nodes |-> [at |-> "idle", profile |-> 1, failed |-> 0,
                                  calls |-> 0, turns |-> 0, ended |-> None]]
    /\ spent = <<>>
    /\ faults = 0

Next ==
    \/ \E n \in Nodes :
          \/ Invoke(n)
          \/ \E u \in Usages : \E reported \in Reports(u) : Served(n, u, reported)
          \/ \E u \in Usages, fallback \in BOOLEAN : Failed(n, u, fallback)
          \/ GiveUp(n)
          \/ Stop(n)
    \/ \E r \in requests :
          \/ ReadReservations(r) \/ ReadBudgets(r)
          \/ Refuse(r) \/ Commit(r) \/ Conflict(r)
          \/ Redeliver(r)

Spec == Init /\ [][Next]_vars

-----------------------------------------------------------------------------
(* Properties.                                                             *)

\* Budgets, reservations and the worker's bookkeeping have the shape their
\* tables give them, and a step attempt never uses more attempts of a
\* profile than its plan signs.
TypeOK ==
    /\ \A s \in Scopes :
          /\ budget[s] # None =>
                /\ {budget[s].attempts, budget[s].tokens, budget[s].cost} \subseteq Nat
                /\ budget[s].revision \in Nat \ {0} /\ budget[s].limit \in Limits
          /\ DOMAIN rows[s] \subseteq Calls
    /\ \A n \in Nodes, p \in Profiles : used[n][p] \in 0..Plan[p]
    /\ consumed \subseteq Calls
    /\ \A n \in Nodes :
          /\ worker[n].at \in {"idle", "reserving", "calling", "reconciling", "stopped"}
          /\ worker[n].profile \in Profiles /\ worker[n].failed \in 0..(Plan[worker[n].profile] - 1)

Charge(row) == IF row.reconciled THEN row.actual ELSE row.reserved

\* Each budget is what its reservations add up to: no concurrent reservation,
\* repeated request or reconciliation is counted twice or dropped
\* (_increment_budget, _reconcile_scope).
ChargesAddUp ==
    \A s \in Scopes :
        IF budget[s] = None THEN rows[s] = <<>>
        ELSE /\ budget[s].tokens = Total([c \in DOMAIN rows[s] |-> Charge(rows[s][c])])
             /\ budget[s].attempts = Cardinality(DOMAIN rows[s])
             /\ budget[s].cost = Reserve.cost * Cardinality(DOMAIN rows[s])

Overrun(row) == IF row.reconciled THEN Max({0, row.actual - row.reserved}) ELSE 0

\* The workers of a run together never hold more than its budget: a token
\* budget is exceeded at most by what providers used beyond what was reserved
\* for their call, a cost budget never (_assert_capacity).
WithinBudget ==
    \A s \in Scopes : budget[s] # None =>
        /\ ~Exceeds(budget[s].limit.cost, budget[s].cost)
        /\ ~Exceeds(budget[s].limit.tokens,
                    budget[s].tokens
                      - Total([c \in DOMAIN rows[s] |-> Overrun(rows[s][c])]))

\* Whatever a provider really used, up to the reservation, is charged to the
\* run and to the step attempt, when the answer, the reconciliation or the
\* worker was lost too.
SpendIsCharged ==
    \A n \in Nodes :
        LET calls == {c \in DOMAIN spent : c[1] = n}
            really == [c \in calls |-> Min({spent[c].usage, Reserve.tokens})]
            charged == [c \in calls |-> Charge(rows[n][c])]
        IN  /\ calls \subseteq DOMAIN rows[n] \cap DOMAIN rows[Run]
            /\ Total(really) <= Total(charged)

\* No profile is called more often in a step attempt than its plan signs,
\* over all invocations, retries and repeated requests.
CallsWithinPlan ==
    \A n \in Nodes, p \in Profiles :
        Cardinality({c \in DOMAIN spent : c[1] = n /\ spent[c].profile = p}) <= Plan[p]

\* A provider failure that allows a fallback reaches the next profile of the
\* plan: the retry it causes is not refused for the attempts of the profile.
FallbackReached ==
    \A n \in Nodes :
        ~ /\ worker[n].at = "idle" /\ worker[n].ended = "attempts_exceeded"
          /\ worker[n].failed > 0 /\ worker[n].profile < Len(Plan)

=============================================================================
