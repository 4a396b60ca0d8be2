------------------------- MODULE ProviderCallsProofs -------------------------
(***************************************************************************)
(* Proofs about ProviderCalls, for any number of step attempts, any plan,  *)
(* reservation, limits, usages and number of faults.                       *)
(***************************************************************************)
EXTENDS ProviderCalls, FiniteSetTheorems, TLAPS

ReservationRows == [profile : Profiles, reserved : {Reserve.tokens},
                    reconciled : BOOLEAN, actual : Nat \cup {None}]

Workers == [at : {"idle", "reserving", "calling", "reconciling", "stopped"},
            profile : Profiles, failed : Nat, calls : Nat, turns : Nat,
            ended : {None, "served", "failed", "lost", "exhausted", "denied",
                     "attempts_exceeded"}]

RequestFields == {"call", "op", "profile", "actual", "copy", "at", "seen",
                  "read", "tries"}

\* The tables have their types, and a step attempt's reservations are the
\* run's reservations for its calls.
StoreInv ==
    /\ budget \in [Scopes -> BudgetRows \cup {None}]
    /\ used \in [Nodes -> [Profiles -> Nat]]
    /\ consumed \subseteq Calls
    /\ \A s \in Scopes :
          /\ IsFiniteSet(DOMAIN rows[s]) /\ DOMAIN rows[s] \subseteq Calls
          /\ rows[s] \in [DOMAIN rows[s] -> ReservationRows]
    /\ \A c \in DOMAIN rows[Run] : rows[Run][c].reconciled => rows[Run][c].actual \in Nat
    /\ \A n \in Nodes :
          /\ DOMAIN rows[n] = {c \in DOMAIN rows[Run] : c[1] = n}
          /\ \A c \in DOMAIN rows[n] : rows[n][c] = rows[Run][c]

\* A request names a call that was started and the profile it was started
\* for, and what it has read of a reservation is still there.
RequestInv(r) ==
    /\ DOMAIN r = RequestFields
    /\ r.op \in {"reserve", "reconcile"}
    /\ r.profile \in Profiles
    /\ r.call \in Calls /\ r.call[2] <= worker[r.call[1]].calls
    /\ r.call = CallOf(r.call[1]) => r.profile = worker[r.call[1]].profile
    /\ r.op = "reconcile" => r.actual \in Nat
    /\ r.seen # None =>
          r.call \in DOMAIN rows[Run] /\ r.seen.reserved = Reserve.tokens

\* A call is sent once, after it was reserved, under the profile that the
\* reservation names.
CallInv ==
    /\ worker \in [Nodes -> Workers]
    /\ \A n \in Nodes :
          /\ worker[n].failed < Plan[worker[n].profile]
          /\ worker[n].at \in {"reserving", "calling"} => CallOf(n) \notin DOMAIN spent
          /\ worker[n].at = "calling" => CallOf(n) \in DOMAIN rows[Run]
    /\ \A r \in requests : RequestInv(r)
    /\ \A c \in DOMAIN rows[Run] :
          /\ c[2] <= worker[c[1]].calls
          /\ c = CallOf(c[1]) => rows[Run][c].profile = worker[c[1]].profile
    /\ \A c \in DOMAIN spent :
          /\ c \in DOMAIN rows[Run] /\ spent[c].profile = rows[Run][c].profile
          /\ spent[c].usage \in Nat

\* A reservation is reconciled with the usage of its call and with nothing
\* else, where missing counters are told apart from zero.
UsageInv ==
    /\ \A r \in requests : r.op = "reconcile" =>
          r.call \in DOMAIN spent /\ r.actual = spent[r.call].usage
    /\ \A c \in DOMAIN rows[Run] : rows[Run][c].reconciled =>
          c \in DOMAIN spent /\ rows[Run][c].actual = spent[c].usage

\* The attempts of a profile are its reservations, and no more than planned.
AttemptsCounted ==
    \A n \in Nodes, p \in Profiles :
        /\ used[n][p] = Cardinality({c \in DOMAIN rows[n] : rows[n][c].profile = p})
        /\ used[n][p] <= Plan[p]

-----------------------------------------------------------------------------
(* Sums.                                                                   *)

\* A unit belongs to one key.
LEMMA UnitOf ==
    ASSUME NEW f, NEW u
    PROVE  u \in Units(f) <=> \E x \in DOMAIN f : \E i \in 1..f[x] : u = <<x, i>>
BY DEF Units

LEMMA UnitsFinite ==
    ASSUME NEW S, IsFiniteSet(S), NEW f \in [S -> Nat]
    PROVE  IsFiniteSet(Units(f)) /\ Total(f) \in Nat
<1> DEFINE unitsAt == [x \in S |-> {x} \X (1..f[x])]
<1> DEFINE family == {{x} \X (1..f[x]) : x \in S}
<1>1. unitsAt \in Surjection(S, family)
  BY DEF Surjection
<1>2. IsFiniteSet(family)
  <2> HIDE DEF unitsAt, family
  <2> QED BY <1>1, FS_Surjection
<1>3. ASSUME NEW x \in S  PROVE IsFiniteSet({x} \X (1..f[x]))
  <2>1. f[x] \in Nat
    OBVIOUS
  <2>2. IsFiniteSet(1..f[x])
    BY <2>1, FS_Interval
  <2>3. IsFiniteSet({x})
    BY FS_Singleton
  <2> QED BY <2>2, <2>3, FS_Product
<1>4. \A T \in family : IsFiniteSet(T)
  BY <1>3
<1>5. IsFiniteSet(UNION family)
  <2> HIDE DEF family
  <2> QED BY <1>2, <1>4, FS_UNION
<1>6. Units(f) = UNION family
  BY DEF Units
<1> QED BY <1>5, <1>6, FS_CardinalityType DEF Total

\* A key more adds its number.
LEMMA TotalAdd ==
    ASSUME NEW S, IsFiniteSet(S), NEW f \in [S -> Nat],
           NEW x, x \notin S, NEW v \in Nat,
           NEW g, DOMAIN g = S \cup {x}, g[x] = v, \A c \in S : g[c] = f[c]
    PROVE  Total(g) = Total(f) + v
<1> DEFINE new == {x} \X (1..v)
<1>1. Units(g) = Units(f) \cup new
  <2>1. ASSUME NEW u  PROVE u \in Units(g) <=> u \in Units(f) \cup new
    <3>1. u \in Units(g) <=> \E c \in S \cup {x} : \E i \in 1..g[c] : u = <<c, i>>
      BY UnitOf
    <3>2. u \in Units(f) <=> \E c \in S : \E i \in 1..f[c] : u = <<c, i>>
      BY UnitOf
    <3>3. u \in new <=> \E i \in 1..v : u = <<x, i>>
      OBVIOUS
    <3> HIDE DEF new
    <3> QED BY <3>1, <3>2, <3>3
  <2> HIDE DEF new
  <2> QED BY <2>1
<1>2. Units(f) \cap new = {}
  <2> SUFFICES ASSUME NEW u \in Units(f), u \in new  PROVE FALSE
    OBVIOUS
  <2>1. PICK c \in S : \E i \in 1..f[c] : u = <<c, i>>
    BY UnitOf
  <2>2. u[1] = c
    BY <2>1
  <2>3. u[1] = x
    OBVIOUS
  <2> QED BY <2>2, <2>3
<1>3. IsFiniteSet(new) /\ Cardinality(new) = v
  <2>1. IsFiniteSet(1..v) /\ Cardinality(1..v) = v
    BY FS_Interval
  <2>2. IsFiniteSet({x}) /\ Cardinality({x}) = 1
    BY FS_Singleton
  <2>3. IsFiniteSet(new) /\ Cardinality(new) = 1 * v
    BY <2>1, <2>2, FS_Product
  <2> QED BY <2>3
<1>4. IsFiniteSet(Units(f)) /\ Total(f) \in Nat
  BY UnitsFinite
<1> HIDE DEF new
<1>5. Cardinality(Units(f) \cup new) = Cardinality(Units(f)) + Cardinality(new) - Cardinality({})
  BY <1>2, <1>3, <1>4, FS_Union
<1>6. Cardinality({}) = 0
  BY FS_EmptySet
<1> QED BY <1>1, <1>3, <1>4, <1>5, <1>6 DEF Total

\* Another number at a key replaces the one it had.
LEMMA TotalChange ==
    ASSUME NEW S, IsFiniteSet(S), NEW f \in [S -> Nat],
           NEW x \in S, NEW v \in Nat,
           NEW g, DOMAIN g = S, g[x] = v, \A c \in S \ {x} : g[c] = f[c]
    PROVE  Total(g) = Total(f) - f[x] + v
<1> DEFINE rest == [c \in S \ {x} |-> f[c]]
<1>1. IsFiniteSet(S \ {x})
  BY FS_RemoveElement
<1>2. rest \in [S \ {x} -> Nat] /\ S = (S \ {x}) \cup {x}
  OBVIOUS
<1>3. \A c \in S \ {x} : rest[c] = f[c]
  OBVIOUS
<1> HIDE DEF rest
<1>4. Total(f) = Total(rest) + f[x]
  BY <1>1, <1>2, <1>3, TotalAdd
<1>5. Total(g) = Total(rest) + v
  BY <1>1, <1>2, <1>3, TotalAdd
<1>6. Total(rest) \in Nat /\ f[x] \in Nat
  BY <1>1, <1>2, UnitsFinite
<1> QED BY <1>4, <1>5, <1>6

\* A sum is no less than the sum of fewer or smaller numbers.
LEMMA TotalMonotone ==
    ASSUME NEW S, IsFiniteSet(S), NEW f \in [S -> Nat],
           NEW g, DOMAIN g \subseteq S, \A x \in DOMAIN g : g[x] \in Nat /\ g[x] <= f[x]
    PROVE  Total(g) <= Total(f)
<1>1. Units(g) \subseteq Units(f)
  <2> SUFFICES ASSUME NEW u \in Units(g)  PROVE u \in Units(f)
    OBVIOUS
  <2>1. PICK x \in DOMAIN g : \E i \in 1..g[x] : u = <<x, i>>
    BY UnitOf
  <2>2. x \in S /\ f[x] \in Nat /\ g[x] \in Nat /\ g[x] <= f[x]
    OBVIOUS
  <2>3. \A i \in 1..g[x] : i \in 1..f[x]
    BY <2>2
  <2> QED BY <2>1, <2>2, <2>3, UnitOf
<1>2. IsFiniteSet(Units(f))
  BY UnitsFinite
<1> QED BY <1>1, <1>2, FS_Subset DEF Total

\* Each number is part of the sum.
LEMMA TotalCovers ==
    ASSUME NEW S, IsFiniteSet(S), NEW f \in [S -> Nat], NEW x \in S
    PROVE  f[x] <= Total(f)
<1> DEFINE g == [c \in S |-> IF c = x THEN 0 ELSE f[c]]
<1>1. g \in [S -> Nat] /\ g[x] = 0 /\ \A c \in S \ {x} : g[c] = f[c]
  OBVIOUS
<1> HIDE DEF g
<1>2. Total(g) = Total(f) - f[x] + 0
  BY <1>1, TotalChange
<1>3. Total(g) \in Nat /\ Total(f) \in Nat /\ f[x] \in Nat
  BY <1>1, UnitsFinite
<1> QED BY <1>2, <1>3

\* No keys, nothing to add.
LEMMA TotalEmpty ==
    ASSUME NEW f, DOMAIN f = {}
    PROVE  Total(f) = 0
<1>1. Units(f) = {}
  BY UnitOf
<1> QED BY <1>1, FS_EmptySet DEF Total

LEMMA MaxOfPair ==
    ASSUME NEW a \in Int, NEW b \in Int
    PROVE  Max({a, b}) = IF a >= b THEN a ELSE b
BY DEF Max

LEMMA MinOfPair ==
    ASSUME NEW a \in Int, NEW b \in Int
    PROVE  Min({a, b}) = IF a <= b THEN a ELSE b
BY DEF Min

-----------------------------------------------------------------------------
(* What is sent, and what asks for it.                                     *)

LEMMA CallsTyped ==
    ASSUME NEW c \in Calls
    PROVE  c[1] \in Nodes /\ c[2] \in Nat /\ c = <<c[1], c[2]>>
BY DEF Calls

LEMMA PlanTyped ==
    /\ Len(Plan) \in Nat \ {0}
    /\ 1 \in Profiles
    /\ \A p \in Profiles : p \in Nat /\ Plan[p] \in Nat \ {0}
BY ConstantsAssumption DEF Profiles

LEMMA RequestTyped ==
    ASSUME NEW call, NEW op, NEW profile, NEW actual, NEW r,
           r = Request(call, op, profile, actual)
    PROVE  /\ DOMAIN r = RequestFields
           /\ r.call = call /\ r.op = op /\ r.profile = profile
           /\ r.actual = actual /\ r.seen = None
BY DEF Request, RequestFields

\* Where the workers stand may change, not which calls they have started; a
\* call is only waited for where it was.
CallsKept ==
    /\ worker' \in [Nodes -> Workers]
    /\ \A n \in Nodes :
          /\ worker'[n].calls = worker[n].calls
          /\ worker'[n].profile = worker[n].profile
          /\ worker'[n].failed = worker[n].failed
          /\ worker'[n].at \in {"reserving", "calling"} =>
                worker[n].at \in {"reserving", "calling"}

LEMMA EndTurnKeeps ==
    ASSUME worker \in [Nodes -> Workers], NEW n \in Nodes,
           NEW how \in {"served", "failed", "lost", "exhausted", "denied",
                        "attempts_exceeded"},
           EndTurn(n, how)
    PROVE  CallsKept /\ worker'[n].at = "idle"
                     /\ \A m \in Nodes \ {n} : worker'[m] = worker[m]
<1>1. worker' = [worker EXCEPT ![n].at = "idle", ![n].ended = how]
  BY DEF EndTurn
<1>2. worker[n] \in Workers
  OBVIOUS
<1>3. [worker[n] EXCEPT !.at = "idle", !.ended = how] \in Workers
  BY <1>2 DEF Workers
<1>4. worker'[n] = [worker[n] EXCEPT !.at = "idle", !.ended = how]
  BY <1>1
<1>5. \A m \in Nodes \ {n} : worker'[m] = worker[m]
  BY <1>1
<1>6. worker' \in [Nodes -> Workers]
  BY <1>1, <1>3
<1>7. /\ worker'[n].calls = worker[n].calls /\ worker'[n].profile = worker[n].profile
      /\ worker'[n].failed = worker[n].failed /\ worker'[n].at = "idle"
  BY <1>2, <1>4 DEF Workers
<1> QED BY <1>5, <1>6, <1>7 DEF CallsKept

LEMMA MoveKeeps ==
    ASSUME worker \in [Nodes -> Workers], NEW n \in Nodes,
           NEW at \in {"calling", "reconciling", "stopped"},
           at = "calling" => worker[n].at = "reserving",
           worker' = [worker EXCEPT ![n].at = at]
    PROVE  CallsKept /\ worker'[n].at = at
                     /\ \A m \in Nodes \ {n} : worker'[m] = worker[m]
<1>2. worker[n] \in Workers
  OBVIOUS
<1>3. [worker[n] EXCEPT !.at = at] \in Workers
  BY <1>2 DEF Workers
<1>4. worker'[n] = [worker[n] EXCEPT !.at = at]
  OBVIOUS
<1>5. \A m \in Nodes \ {n} : worker'[m] = worker[m]
  OBVIOUS
<1>6. worker' \in [Nodes -> Workers]
  BY <1>3
<1>7. /\ worker'[n].calls = worker[n].calls /\ worker'[n].profile = worker[n].profile
      /\ worker'[n].failed = worker[n].failed /\ worker'[n].at = at
  BY <1>2, <1>4 DEF Workers
<1> QED BY <1>5, <1>6, <1>7 DEF CallsKept

\* An answer starts the call it allows, and no other.
LEMMA AnswerKeeps ==
    ASSUME worker \in [Nodes -> Workers], NEW r, r.call \in Calls,
           NEW result \in {"allowed", "denied", "attempts_exceeded"},
           Answer(r, result)
    PROVE  /\ CallsKept
           /\ \A n \in Nodes : worker'[n].at = "calling" =>
                 \/ worker[n].at = "calling"
                 \/ r.call = CallOf(n) /\ result = "allowed" /\ r.op = "reserve"
<1> DEFINE n == r.call[1]
<1> DEFINE waiting == r.call = CallOf(n) /\ worker[n].at =
                        (IF r.op = "reserve" THEN "reserving" ELSE "reconciling")
<1>1. n \in Nodes
  BY CallsTyped
<1>2. CASE ~waiting
  <2>1. worker' = worker
    BY <1>2 DEF Answer
  <2> QED BY <2>1 DEF CallsKept
<1>3. CASE waiting /\ result = "allowed" /\ r.op = "reserve"
  <2>1. worker' = [worker EXCEPT ![n].at = "calling"]
    BY <1>3 DEF Answer
  <2>2. CallsKept /\ \A m \in Nodes \ {n} : worker'[m] = worker[m]
    BY <1>1, <1>3, <2>1, MoveKeeps
  <2> QED BY <1>3, <2>2
<1>4. CASE waiting /\ ~(result = "allowed" /\ r.op = "reserve")
  <2>1. PICK how \in {"served", "denied", "attempts_exceeded"} : EndTurn(n, how)
    BY <1>4 DEF Answer
  <2>2. CallsKept /\ worker'[n].at = "idle" /\ \A m \in Nodes \ {n} : worker'[m] = worker[m]
    BY <1>1, <2>1, EndTurnKeeps
  <2> QED BY <2>2
<1> QED BY <1>2, <1>3, <1>4

\* A step that starts no call and deletes no reservation.
LEMMA StepKeepsCalls ==
    ASSUME StoreInv, CallInv, CallsKept,
           \A c \in DOMAIN rows[Run] :
              /\ c \in DOMAIN rows'[Run]
              /\ rows'[Run][c].profile = rows[Run][c].profile,
           \A c \in DOMAIN rows'[Run] : c \notin DOMAIN rows[Run] =>
              /\ c \in Calls /\ c[2] <= worker[c[1]].calls
              /\ c = CallOf(c[1]) => rows'[Run][c].profile = worker[c[1]].profile,
           \A q \in requests' : q \in requests \/ RequestInv(q),
           \A n \in Nodes : worker'[n].at = "calling" =>
              worker[n].at = "calling" \/ CallOf(n) \in DOMAIN rows'[Run],
           \A n \in Nodes : worker'[n].at \in {"reserving", "calling"} =>
              CallOf(n) \notin DOMAIN spent',
           \A c \in DOMAIN spent' :
              /\ c \in DOMAIN rows[Run] /\ spent'[c].profile = rows[Run][c].profile
              /\ spent'[c].usage \in Nat
    PROVE  CallInv'
<1>1. \A n \in Nodes : CallOf(n)' = CallOf(n)
  BY DEF CallsKept, CallOf
<1>2. worker' \in [Nodes -> Workers]
  BY DEF CallsKept
<1>3. ASSUME NEW n \in Nodes
      PROVE  /\ worker'[n].failed < Plan[worker'[n].profile]
             /\ worker'[n].at \in {"reserving", "calling"} => CallOf(n)' \notin DOMAIN spent'
             /\ worker'[n].at = "calling" => CallOf(n)' \in DOMAIN rows'[Run]
  BY <1>1 DEF CallsKept, CallInv
<1>4. ASSUME NEW q \in requests'  PROVE RequestInv(q)'
  <2>1. RequestInv(q)
    BY DEF CallInv
  <2>2. q.call[1] \in Nodes
    BY <2>1, CallsTyped DEF RequestInv
  <2> QED BY <1>1, <2>1, <2>2 DEF RequestInv, CallsKept
<1>5. ASSUME NEW c \in DOMAIN rows'[Run]
      PROVE  /\ c[2] <= worker'[c[1]].calls
             /\ c = CallOf(c[1])' => rows'[Run][c].profile = worker'[c[1]].profile
  <2>1. c \in Calls
    BY DEF StoreInv, Scopes
  <2>2. c[1] \in Nodes
    BY <2>1, CallsTyped
  <2>3. CASE c \in DOMAIN rows[Run]
    BY <1>1, <2>2, <2>3 DEF CallInv, CallsKept
  <2>4. CASE c \notin DOMAIN rows[Run]
    BY <1>1, <2>2, <2>4 DEF CallsKept
  <2> QED BY <2>3, <2>4
<1>6. ASSUME NEW c \in DOMAIN spent'
      PROVE  /\ c \in DOMAIN rows'[Run] /\ spent'[c].profile = rows'[Run][c].profile
             /\ spent'[c].usage \in Nat
  OBVIOUS
<1> QED BY <1>2, <1>3, <1>4, <1>5, <1>6 DEF CallInv

\* Where nothing is written and no call is started.
LEMMA QuietStepKeepsCalls ==
    ASSUME StoreInv, CallInv, CallsKept, UNCHANGED hubVars, UNCHANGED spent,
           \A q \in requests' : q \in requests \/ RequestInv(q),
           \A n \in Nodes : worker'[n].at = "calling" =>
              worker[n].at = "calling" \/ CallOf(n) \in DOMAIN rows[Run]
    PROVE  CallInv'
<1>1. rows' = rows /\ spent' = spent
  BY DEF hubVars
<1>2. \A n \in Nodes : worker'[n].at \in {"reserving", "calling"} =>
              CallOf(n) \notin DOMAIN spent
  BY DEF CallsKept, CallInv
<1>3. \A c \in DOMAIN spent :
              /\ c \in DOMAIN rows[Run] /\ spent[c].profile = rows[Run][c].profile
              /\ spent[c].usage \in Nat
  BY DEF CallInv
<1> QED BY <1>1, <1>2, <1>3, StepKeepsCalls

\* What a call in flight adds to what was spent.
LEMMA SentTyped ==
    ASSUME StoreInv, CallInv, NEW n \in Nodes, NEW usage \in Usages,
           worker[n].at = "calling", Sent(n, usage)
    PROVE  /\ CallOf(n) \notin DOMAIN spent
           /\ DOMAIN spent' = DOMAIN spent \cup {CallOf(n)}
           /\ spent'[CallOf(n)].usage = usage
           /\ \A c \in DOMAIN spent : spent'[c] = spent[c]
           /\ \A c \in DOMAIN spent' :
                 /\ c \in DOMAIN rows[Run] /\ spent'[c].profile = rows[Run][c].profile
                 /\ spent'[c].usage \in Nat
           /\ \A m \in Nodes \ {n} : worker[m].at \in {"reserving", "calling"} =>
                 CallOf(m) \notin DOMAIN spent'
<1>1. /\ DOMAIN spent' = DOMAIN spent \cup {CallOf(n)}
      /\ spent'[CallOf(n)] = [profile |-> worker[n].profile, usage |-> usage]
      /\ \A c \in DOMAIN spent \ {CallOf(n)} : spent'[c] = spent[c]
  BY DEF Sent
<1>2. CallOf(n) \in DOMAIN rows[Run] /\ CallOf(n) \notin DOMAIN spent
  BY DEF CallInv
<1>3. CallOf(n)[1] = n
  BY DEF CallOf
<1>4. rows[Run][CallOf(n)].profile = worker[n].profile
  BY <1>2, <1>3 DEF CallInv
<1>5. usage \in Nat
  BY ConstantsAssumption
<1>6. \A c \in DOMAIN spent' :
                 /\ c \in DOMAIN rows[Run] /\ spent'[c].profile = rows[Run][c].profile
                 /\ spent'[c].usage \in Nat
  BY <1>1, <1>2, <1>4, <1>5 DEF CallInv
<1>7. \A m \in Nodes \ {n} : CallOf(m) # CallOf(n)
  BY DEF CallOf
<1>8. \A m \in Nodes \ {n} : worker[m].at \in {"reserving", "calling"} =>
                 CallOf(m) \notin DOMAIN spent'
  BY <1>1, <1>7 DEF CallInv
<1> QED BY <1>1, <1>2, <1>6, <1>8

\* A new call is one that nobody has seen.
LEMMA StartKeepsCalls ==
    ASSUME StoreInv, CallInv, NEW n \in Nodes, NEW profile \in Profiles,
           NEW failed \in Nat, failed < Plan[profile],
           StartCall(n, profile, failed), rows' = rows,
           \A c \in DOMAIN spent' :
              /\ c \in DOMAIN rows[Run] /\ spent'[c].profile = rows[Run][c].profile
              /\ spent'[c].usage \in Nat,
           \A m \in Nodes \ {n} : worker[m].at \in {"reserving", "calling"} =>
              CallOf(m) \notin DOMAIN spent'
    PROVE  CallInv'
<1>1. worker[n] \in Workers /\ worker \in [Nodes -> Workers]
  BY DEF CallInv
<1>2. PICK turns \in Nat : turns = IF worker[n].at = "idle" THEN worker[n].turns + 1 ELSE worker[n].turns
  BY <1>1 DEF Workers
<1>5. worker[n].calls \in Nat
  BY <1>1 DEF Workers
<1> PICK number \in Nat : number = worker[n].calls + 1
  BY <1>5
<1> DEFINE started == [worker[n] EXCEPT !.at = "reserving", !.profile = profile,
                          !.failed = failed, !.calls = number, !.turns = turns]
<1>3. worker' = [worker EXCEPT ![n] = started]
  BY <1>1, <1>2 DEF StartCall
<1>4. /\ started \in Workers
      /\ started.at = "reserving" /\ started.profile = profile
      /\ started.failed = failed /\ started.calls = worker[n].calls + 1
  BY <1>1 DEF Workers
<1> HIDE DEF started
<1>6. /\ worker' \in [Nodes -> Workers] /\ worker'[n] = started
      /\ \A m \in Nodes \ {n} : worker'[m] = worker[m]
  BY <1>1, <1>3, <1>4
<1>7. CallOf(n)' = <<n, worker[n].calls + 1>> /\ \A m \in Nodes \ {n} : CallOf(m)' = CallOf(m)
  BY <1>4, <1>6 DEF CallOf
<1>8. \A c \in DOMAIN rows[Run] : c \in Calls /\ c # CallOf(n)'
  <2> SUFFICES ASSUME NEW c \in DOMAIN rows[Run], c = CallOf(n)' PROVE FALSE
    BY DEF StoreInv, Scopes
  <2>1. c[1] = n /\ c[2] = worker[n].calls + 1
    BY <1>7
  <2>2. c[2] <= worker[n].calls
    BY <2>1 DEF CallInv
  <2> QED BY <1>5, <2>1, <2>2
<1>9. ASSUME NEW m \in Nodes
      PROVE  /\ worker'[m].failed < Plan[worker'[m].profile]
             /\ worker'[m].at \in {"reserving", "calling"} => CallOf(m)' \notin DOMAIN spent'
             /\ worker'[m].at = "calling" => CallOf(m)' \in DOMAIN rows'[Run]
  <2>1. CASE m = n
    BY <1>4, <1>6, <1>8, <2>1
  <2>2. CASE m # n
    BY <1>6, <1>7, <2>2 DEF CallInv
  <2> QED BY <2>1, <2>2
<1>10. PICK new : /\ new = Request(<<n, worker[n].calls + 1>>, "reserve", profile, None)
                  /\ requests' = requests \cup {new}
  BY DEF StartCall
<1>11. RequestInv(new)'
  <2>1. /\ DOMAIN new = RequestFields /\ new.call = <<n, worker[n].calls + 1>>
        /\ new.op = "reserve" /\ new.profile = profile /\ new.seen = None
    BY <1>10, RequestTyped
  <2>2. new.call \in Calls /\ new.call[1] = n /\ new.call[2] = worker[n].calls + 1
    BY <1>5, <2>1 DEF Calls
  <2> QED BY <1>4, <1>5, <1>6, <2>1, <2>2 DEF RequestInv
<1>12. ASSUME NEW q \in requests  PROVE RequestInv(q)'
  <2>1. RequestInv(q)
    BY DEF CallInv
  <2>2. q.call[1] \in Nodes /\ q.call[2] \in Nat
    BY <2>1, CallsTyped DEF RequestInv
  <2>3. CASE q.call[1] = n
    <3>1. q.call[2] <= worker[n].calls
      BY <2>1, <2>3 DEF RequestInv
    <3>2. q.call[2] <= worker'[n].calls /\ q.call # CallOf(n)'
      BY <1>4, <1>5, <1>6, <1>7, <2>2, <3>1
    <3> QED BY <2>1, <2>3, <3>2 DEF RequestInv
  <2>4. CASE q.call[1] # n
    BY <1>6, <1>7, <2>1, <2>2, <2>4 DEF RequestInv
  <2> QED BY <2>3, <2>4
<1>13. ASSUME NEW c \in DOMAIN rows'[Run]
      PROVE  /\ c[2] <= worker'[c[1]].calls
             /\ c = CallOf(c[1])' => rows'[Run][c].profile = worker'[c[1]].profile
  <2>1. c \in Calls /\ c # CallOf(n)' /\ c \in DOMAIN rows[Run]
    BY <1>8
  <2>2. c[1] \in Nodes /\ c[2] \in Nat /\ c[2] <= worker[c[1]].calls
    BY <2>1, CallsTyped DEF CallInv
  <2>3. CASE c[1] = n
    BY <1>4, <1>5, <1>6, <2>1, <2>2, <2>3
  <2>4. CASE c[1] # n
    BY <1>6, <1>7, <2>1, <2>2, <2>4 DEF CallInv
  <2> QED BY <2>3, <2>4
<1> QED BY <1>6, <1>9, <1>10, <1>11, <1>12, <1>13 DEF CallInv

-----------------------------------------------------------------------------
(* What the two writes do to the tables.                                   *)

Charges(s) == [c \in DOMAIN rows[s] |-> Charge(rows[s][c])]

Overruns(s) == [c \in DOMAIN rows[s] |-> Overrun(rows[s][c])]

LEMMA ReserveTyped ==
    /\ Reserve.tokens \in Nat /\ Reserve.cost \in Nat
    /\ Run \notin Nodes /\ None \notin BudgetRows
    /\ \A s \in Scopes, n \in Nodes :
          /\ LimitIn(s, n) \in Limits
          /\ LimitIn(s, n).tokens \in Nat /\ LimitIn(s, n).cost \in Nat
<1>1. Reserve.tokens \in Nat /\ Reserve.cost \in Nat
  BY ConstantsAssumption DEF Limits
<1>2. \A s \in Scopes, n \in Nodes : LimitIn(s, n) \in Limits
  BY ConstantsAssumption DEF LimitIn
<1>3. \A l \in Limits : l.tokens \in Nat /\ l.cost \in Nat
  BY DEF Limits
<1> QED BY <1>1, <1>2, <1>3, ConstantsAssumption

\* Whatever a budget row holds has its type.
LEMMA BudgetTyped ==
    ASSUME NEW b \in BudgetRows
    PROVE  /\ b.attempts \in Nat /\ b.tokens \in Nat /\ b.cost \in Nat
           /\ b.limit \in Limits /\ b.revision \in Nat \ {0}
           /\ b.limit.tokens \in Nat /\ b.limit.cost \in Nat
           /\ b # None
BY ConstantsAssumption DEF BudgetRows, Limits

LEMMA RowsTyped ==
    ASSUME StoreInv, NEW s \in Scopes, NEW c \in DOMAIN rows[s]
    PROVE  /\ c \in Calls /\ c \in DOMAIN rows[Run] /\ rows[s][c] = rows[Run][c]
           /\ rows[s][c] \in ReservationRows
           /\ rows[s][c].reserved = Reserve.tokens
           /\ rows[s][c].reconciled \in BOOLEAN
           /\ rows[s][c].reconciled => rows[s][c].actual \in Nat
<1>1. c \in Calls /\ rows[s][c] \in ReservationRows
  BY DEF StoreInv
<1>2. c \in DOMAIN rows[Run] /\ rows[s][c] = rows[Run][c]
  BY DEF StoreInv, Scopes
<1>3. rows[Run][c].reconciled => rows[Run][c].actual \in Nat
  BY <1>2 DEF StoreInv
<1>4. rows[s][c].reserved = Reserve.tokens /\ rows[s][c].reconciled \in BOOLEAN
  BY <1>1 DEF ReservationRows
<1> QED BY <1>1, <1>2, <1>3, <1>4

\* A row is charged a natural number, and less its overrun no more than was
\* reserved.
LEMMA RowCharge ==
    ASSUME NEW row, row.reserved = Reserve.tokens, row.reconciled \in BOOLEAN,
           row.reconciled => row.actual \in Nat
    PROVE  /\ Charge(row) \in Nat /\ Overrun(row) \in Nat
           /\ Charge(row) - Overrun(row) <= Reserve.tokens
           /\ ~row.reconciled => Charge(row) = Reserve.tokens /\ Overrun(row) = 0
<1>1. Reserve.tokens \in Nat
  BY ReserveTyped
<1>2. CASE row.reconciled
  <2>1. row.actual \in Nat
    BY <1>2
  <2>2. PICK d \in Int : d = row.actual - row.reserved
    BY <1>1, <2>1
  <2>3. Max({0, d}) = IF 0 >= d THEN 0 ELSE d
    BY MaxOfPair
  <2> QED BY <1>1, <1>2, <2>1, <2>2, <2>3 DEF Charge, Overrun
<1>3. CASE ~row.reconciled
  BY <1>1, <1>3 DEF Charge, Overrun
<1> QED BY <1>2, <1>3

LEMMA ChargesTyped ==
    ASSUME StoreInv, NEW s \in Scopes
    PROVE  /\ Charges(s) \in [DOMAIN rows[s] -> Nat]
           /\ Overruns(s) \in [DOMAIN rows[s] -> Nat]
           /\ Total(Charges(s)) \in Nat /\ Total(Overruns(s)) \in Nat
           /\ IsFiniteSet(DOMAIN rows[s])
           /\ Cardinality(DOMAIN rows[s]) \in Nat
<1>1. \A c \in DOMAIN rows[s] : Charge(rows[s][c]) \in Nat /\ Overrun(rows[s][c]) \in Nat
  BY RowsTyped, RowCharge
<1>2. Charges(s) \in [DOMAIN rows[s] -> Nat] /\ Overruns(s) \in [DOMAIN rows[s] -> Nat]
  BY <1>1 DEF Charges, Overruns
<1>3. IsFiniteSet(DOMAIN rows[s])
  BY DEF StoreInv
<1>4. Cardinality(DOMAIN rows[s]) \in Nat
  BY <1>3, FS_CardinalityType
<1> QED BY <1>2, <1>3, <1>4, UnitsFinite

\* The row a reservation inserts.
NewRow(r) == [profile |-> r.profile, reserved |-> Reserve.tokens,
              reconciled |-> FALSE, actual |-> None]

\* What a committed reservation leaves in the tables.
ReservationAdded(r) ==
    /\ ScopesOf(r.call) \subseteq Scopes
    /\ \A s \in ScopesOf(r.call) :
          /\ r.call \notin DOMAIN rows[s]
          /\ DOMAIN rows'[s] = DOMAIN rows[s] \cup {r.call}
          /\ rows'[s][r.call] = NewRow(r)
          /\ \A c \in DOMAIN rows[s] : rows'[s][c] = rows[s][c]
          /\ budget'[s] = Charged(budget[s], LimitIn(s, r.call[1]))
          /\ rows'[s] \in [DOMAIN rows'[s] -> ReservationRows]
    /\ \A s \in Scopes \ ScopesOf(r.call) : rows'[s] = rows[s] /\ budget'[s] = budget[s]
    /\ NewRow(r) \in ReservationRows
    /\ NewRow(r).reserved = Reserve.tokens
    /\ NewRow(r).reconciled = FALSE
    /\ NewRow(r).profile = r.profile

LEMMA ReservationWritten ==
    ASSUME StoreInv, NEW r, r.call \in Calls, r.profile \in Profiles,
           r.call \notin DOMAIN rows[Run], WriteReservation(r)
    PROVE  ReservationAdded(r)
<1>1. r.call[1] \in Nodes
  BY CallsTyped
<1>2. ScopesOf(r.call) \subseteq Scopes
  BY <1>1 DEF ScopesOf, Scopes
<1>3. NewRow(r) \in ReservationRows /\ NewRow(r).reserved = Reserve.tokens
      /\ NewRow(r).reconciled = FALSE /\ NewRow(r).profile = r.profile
  BY DEF NewRow, ReservationRows
<1>4. \A s \in ScopesOf(r.call) : r.call \notin DOMAIN rows[s]
  BY <1>1 DEF ScopesOf, StoreInv
<1>5. \A s \in ScopesOf(r.call) :
         rows'[s] = [c \in DOMAIN rows[s] \cup {r.call} |->
                       IF c = r.call THEN NewRow(r) ELSE rows[s][c]]
  BY <1>2 DEF WriteReservation, NewRow
<1>6. \A s \in Scopes \ ScopesOf(r.call) : rows'[s] = rows[s] /\ budget'[s] = budget[s]
  BY DEF WriteReservation
<1>7. \A s \in ScopesOf(r.call) : budget'[s] = Charged(budget[s], LimitIn(s, r.call[1]))
  BY <1>2 DEF WriteReservation
<1>8. ASSUME NEW s \in ScopesOf(r.call)
      PROVE  rows'[s] \in [DOMAIN rows'[s] -> ReservationRows]
  <2>1. \A c \in DOMAIN rows[s] : rows[s][c] \in ReservationRows
    BY <1>2 DEF StoreInv
  <2>2. PICK old : old = rows[s]
    OBVIOUS
  <2>3. rows'[s] = [c \in DOMAIN old \cup {r.call} |-> IF c = r.call THEN NewRow(r) ELSE old[c]]
    BY <1>5, <2>2
  <2>4. \A c \in DOMAIN old \cup {r.call} :
           (IF c = r.call THEN NewRow(r) ELSE old[c]) \in ReservationRows
    BY <1>3, <2>1, <2>2
  <2> QED BY <2>3, <2>4
<1>9. ASSUME NEW s \in ScopesOf(r.call)
      PROVE  /\ DOMAIN rows'[s] = DOMAIN rows[s] \cup {r.call}
             /\ rows'[s][r.call] = NewRow(r)
             /\ \A c \in DOMAIN rows[s] : rows'[s][c] = rows[s][c]
  <2>1. PICK old : old = rows[s]
    OBVIOUS
  <2>2. rows'[s] = [c \in DOMAIN old \cup {r.call} |-> IF c = r.call THEN NewRow(r) ELSE old[c]]
    BY <1>5, <2>1
  <2>3. r.call \notin DOMAIN old
    BY <1>4, <2>1
  <2> QED BY <2>1, <2>2, <2>3
<1> QED BY <1>2, <1>3, <1>4, <1>6, <1>7, <1>8, <1>9 DEF ReservationAdded

LEMMA ChargedTyped ==
    ASSUME NEW b \in BudgetRows \cup {None}, NEW limit \in Limits
    PROVE  /\ Charged(b, limit) \in BudgetRows
           /\ b = None => /\ Charged(b, limit).attempts = 1
                          /\ Charged(b, limit).tokens = Reserve.tokens
                          /\ Charged(b, limit).cost = Reserve.cost
                          /\ Charged(b, limit).limit = limit
           /\ b # None => /\ Charged(b, limit).attempts = b.attempts + 1
                          /\ Charged(b, limit).tokens = b.tokens + Reserve.tokens
                          /\ Charged(b, limit).cost = b.cost + Reserve.cost
                          /\ Charged(b, limit).limit = b.limit
<1>1. Reserve.tokens \in Nat /\ Reserve.cost \in Nat
  BY ReserveTyped
<1>2. CASE b = None
  BY <1>1, <1>2 DEF Charged, BudgetRows
<1>3. CASE b # None
  <2>1. b \in BudgetRows
    BY <1>3
  <2>2. PICK a \in Nat : a = b.attempts + 1
    BY <2>1 DEF BudgetRows
  <2>3. PICK t \in Nat : t = b.tokens + Reserve.tokens
    BY <1>1, <2>1 DEF BudgetRows
  <2>4. PICK k \in Nat : k = b.cost + Reserve.cost
    BY <1>1, <2>1 DEF BudgetRows
  <2>5. PICK v \in Nat \ {0} : v = b.revision + 1
    BY <2>1 DEF BudgetRows
  <2>6. Charged(b, limit) = [b EXCEPT !.attempts = a, !.tokens = t, !.cost = k, !.revision = v]
    BY <1>3, <2>1, <2>2, <2>3, <2>4, <2>5 DEF Charged, BudgetRows
  <2>7. /\ Charged(b, limit) \in BudgetRows /\ Charged(b, limit).attempts = a
        /\ Charged(b, limit).tokens = t /\ Charged(b, limit).cost = k
        /\ Charged(b, limit).limit = b.limit
    BY <2>1, <2>6 DEF BudgetRows
  <2> QED BY <1>3, <2>2, <2>3, <2>4, <2>7
<1> QED BY <1>2, <1>3

LEMMA ReservationKeepsStore ==
    ASSUME StoreInv, NEW r, r.call \in Calls, r.profile \in Profiles,
           r.call \notin DOMAIN rows[Run], WriteReservation(r)
    PROVE  StoreInv'
<1>0. ReservationAdded(r)
  BY ReservationWritten
<1>1. r.call[1] \in Nodes /\ Run \notin Nodes
  BY CallsTyped, ReserveTyped
<1>2. budget' \in [Scopes -> BudgetRows \cup {None}]
  <2>1. \A s \in Scopes : budget'[s] \in BudgetRows \cup {None}
    <3> SUFFICES ASSUME NEW s \in Scopes  PROVE budget'[s] \in BudgetRows \cup {None}
      OBVIOUS
    <3>1. budget[s] \in BudgetRows \cup {None} /\ LimitIn(s, r.call[1]) \in Limits
      BY <1>1, ReserveTyped DEF StoreInv
    <3>2. CASE s \in ScopesOf(r.call)
      BY <1>0, <3>1, <3>2, ChargedTyped DEF ReservationAdded
    <3>3. CASE s \notin ScopesOf(r.call)
      BY <1>0, <3>1, <3>3 DEF ReservationAdded
    <3> QED BY <3>2, <3>3
  <2>2. budget' = [s \in Scopes |-> budget'[s]]
    BY DEF WriteReservation
  <2> QED BY <2>1, <2>2
<1>3. used' \in [Nodes -> [Profiles -> Nat]]
  <2>1. used' = [used EXCEPT ![r.call[1]][r.profile] = @ + 1]
    BY DEF WriteReservation
  <2> QED BY <1>1, <2>1 DEF StoreInv
<1>4. consumed' \subseteq Calls
  BY DEF WriteReservation, StoreInv
<1>5. ASSUME NEW s \in Scopes
      PROVE  /\ IsFiniteSet(DOMAIN rows'[s]) /\ DOMAIN rows'[s] \subseteq Calls
             /\ rows'[s] \in [DOMAIN rows'[s] -> ReservationRows]
  <2>1. /\ IsFiniteSet(DOMAIN rows[s]) /\ DOMAIN rows[s] \subseteq Calls
        /\ rows[s] \in [DOMAIN rows[s] -> ReservationRows]
    BY DEF StoreInv
  <2>2. CASE s \in ScopesOf(r.call)
    <3>1. DOMAIN rows'[s] = DOMAIN rows[s] \cup {r.call}
      BY <1>0, <2>2 DEF ReservationAdded
    <3>2. IsFiniteSet(DOMAIN rows[s] \cup {r.call})
      BY <2>1, FS_AddElement
    <3> QED BY <1>0, <2>1, <2>2, <3>1, <3>2 DEF ReservationAdded
  <2>3. CASE s \notin ScopesOf(r.call)
    BY <1>0, <2>1, <2>3 DEF ReservationAdded
  <2> QED BY <2>2, <2>3
<1>6. Run \in ScopesOf(r.call) /\ r.call[1] \in ScopesOf(r.call)
  BY DEF ScopesOf
<1>7. ASSUME NEW c \in DOMAIN rows'[Run], rows'[Run][c].reconciled
      PROVE  rows'[Run][c].actual \in Nat
  <2>1. c # r.call
    BY <1>0, <1>6, <1>7 DEF ReservationAdded
  <2>2. c \in DOMAIN rows[Run] /\ rows'[Run][c] = rows[Run][c]
    BY <1>0, <1>6, <2>1 DEF ReservationAdded
  <2> QED BY <1>7, <2>2 DEF StoreInv
<1>8. ASSUME NEW n \in Nodes
      PROVE  /\ DOMAIN rows'[n] = {c \in DOMAIN rows'[Run] : c[1] = n}
             /\ \A c \in DOMAIN rows'[n] : rows'[n][c] = rows'[Run][c]
  <2>1. /\ DOMAIN rows[n] = {c \in DOMAIN rows[Run] : c[1] = n}
        /\ \A c \in DOMAIN rows[n] : rows[n][c] = rows[Run][c]
        /\ n \in Scopes
    BY DEF StoreInv, Scopes
  <2>2. /\ DOMAIN rows'[Run] = DOMAIN rows[Run] \cup {r.call}
        /\ rows'[Run][r.call] = NewRow(r)
        /\ \A c \in DOMAIN rows[Run] : rows'[Run][c] = rows[Run][c]
    BY <1>0, <1>6 DEF ReservationAdded
  <2>3. CASE n = r.call[1]
    <3>1. /\ DOMAIN rows'[n] = DOMAIN rows[n] \cup {r.call}
          /\ rows'[n][r.call] = NewRow(r)
          /\ \A c \in DOMAIN rows[n] : rows'[n][c] = rows[n][c]
      BY <1>0, <1>6, <2>3 DEF ReservationAdded
    <3> QED BY <2>1, <2>2, <2>3, <3>1
  <2>4. CASE n # r.call[1]
    <3>1. rows'[n] = rows[n]
      BY <1>0, <1>1, <2>1, <2>4 DEF ScopesOf, ReservationAdded
    <3> QED BY <2>1, <2>2, <2>4, <3>1
  <2> QED BY <2>3, <2>4
<1> QED BY <1>2, <1>3, <1>4, <1>5, <1>7, <1>8 DEF StoreInv

\* One attempt more of the profile, one reservation more that names it.
LEMMA ReservationKeepsAttempts ==
    ASSUME StoreInv, AttemptsCounted, NEW r, r.call \in Calls, r.profile \in Profiles,
           r.call \notin DOMAIN rows[Run], WriteReservation(r),
           used[r.call[1]][r.profile] < Plan[r.profile]
    PROVE  AttemptsCounted'
<1> DEFINE of(n, p) == {c \in DOMAIN rows[n] : rows[n][c].profile = p}
<1> DEFINE then(n, p) == {c \in DOMAIN rows'[n] : rows'[n][c].profile = p}
<1> DEFINE node == r.call[1]
<1>1. node \in Nodes /\ Run \notin Nodes
  BY CallsTyped, ReserveTyped
<1>2. used' = [used EXCEPT ![node][r.profile] = @ + 1]
  BY DEF WriteReservation
<1> SUFFICES ASSUME NEW n \in Nodes, NEW p \in Profiles
             PROVE  used'[n][p] = Cardinality(then(n, p)) /\ used'[n][p] <= Plan[p]
  BY DEF AttemptsCounted
<1>3. /\ used[n][p] = Cardinality(of(n, p)) /\ used[n][p] <= Plan[p] /\ used[n][p] \in Nat
      /\ Plan[p] \in Nat
  <2>1. used[n][p] = Cardinality(of(n, p)) /\ used[n][p] <= Plan[p]
    BY DEF AttemptsCounted
  <2>2. used[n][p] \in Nat
    BY DEF StoreInv
  <2> QED BY <2>1, <2>2, PlanTyped
<1>4. IsFiniteSet(of(n, p))
  <2>1. IsFiniteSet(DOMAIN rows[n])
    BY DEF StoreInv, Scopes
  <2> QED BY <2>1, FS_Subset
<1>5. CASE n = node
  <2>1. /\ DOMAIN rows'[n] = DOMAIN rows[n] \cup {r.call}
        /\ r.call \notin DOMAIN rows[n]
        /\ rows'[n][r.call].profile = r.profile
        /\ \A c \in DOMAIN rows[n] : rows'[n][c] = rows[n][c]
    BY <1>5, ReservationWritten DEF ReservationAdded, ScopesOf
  <2>2. CASE p = r.profile
    <3>1. then(n, p) = of(n, p) \cup {r.call} /\ r.call \notin of(n, p)
      BY <2>1, <2>2
    <3>2. Cardinality(then(n, p)) = Cardinality(of(n, p)) + 1
      <4> HIDE DEF of, then
      <4> QED BY <1>4, <3>1, FS_AddElement
    <3>3. used'[n][p] = used[n][p] + 1
      BY <1>1, <1>2, <1>5, <2>2 DEF StoreInv
    <3>4. used[n][p] < Plan[p]
      BY <1>5, <2>2
    <3> HIDE DEF of, then
    <3> QED BY <1>3, <3>2, <3>3, <3>4
  <2>3. CASE p # r.profile
    <3>1. then(n, p) = of(n, p)
      BY <2>1, <2>3
    <3>2. used'[n][p] = used[n][p]
      BY <1>1, <1>2, <1>5, <2>3 DEF StoreInv
    <3> HIDE DEF of, then
    <3> QED BY <1>3, <3>1, <3>2
  <2> QED BY <2>2, <2>3
<1>6. CASE n # node
  <2>0. n \in Scopes \ ScopesOf(r.call)
    BY <1>1, <1>6 DEF ScopesOf, Scopes
  <2>1. rows'[n] = rows[n]
    BY <2>0, ReservationWritten DEF ReservationAdded
  <2>2. used'[n] = used[n]
    BY <1>1, <1>2, <1>6 DEF StoreInv
  <2> QED BY <1>3, <2>1, <2>2
<1> QED BY <1>5, <1>6

LEMMA ReservationTotals ==
    ASSUME StoreInv, NEW r, ReservationAdded(r), NEW s \in ScopesOf(r.call)
    PROVE  /\ s \in Scopes
           /\ Total(Charges(s)') = Total(Charges(s)) + Reserve.tokens
           /\ Total(Overruns(s)') = Total(Overruns(s))
           /\ Cardinality(DOMAIN rows'[s]) = Cardinality(DOMAIN rows[s]) + 1
<1>1. /\ s \in Scopes /\ r.call \notin DOMAIN rows[s]
      /\ DOMAIN rows'[s] = DOMAIN rows[s] \cup {r.call}
      /\ rows'[s][r.call] = NewRow(r)
      /\ \A c \in DOMAIN rows[s] : rows'[s][c] = rows[s][c]
  BY DEF ReservationAdded
<1>2. Charge(NewRow(r)) = Reserve.tokens /\ Overrun(NewRow(r)) = 0 /\ Reserve.tokens \in Nat
  BY ReserveTyped DEF ReservationAdded, Charge, Overrun
<1>3. /\ DOMAIN Charges(s)' = DOMAIN rows[s] \cup {r.call}
      /\ Charges(s)'[r.call] = Reserve.tokens
      /\ \A c \in DOMAIN rows[s] : Charges(s)'[c] = Charges(s)[c]
  BY <1>1, <1>2 DEF Charges
<1>4. /\ DOMAIN Overruns(s)' = DOMAIN rows[s] \cup {r.call}
      /\ Overruns(s)'[r.call] = 0
      /\ \A c \in DOMAIN rows[s] : Overruns(s)'[c] = Overruns(s)[c]
  BY <1>1, <1>2 DEF Overruns
<1>5. /\ Charges(s) \in [DOMAIN rows[s] -> Nat] /\ Overruns(s) \in [DOMAIN rows[s] -> Nat]
      /\ IsFiniteSet(DOMAIN rows[s]) /\ Total(Overruns(s)) \in Nat
  BY <1>1, ChargesTyped
<1>6. Total(Charges(s)') = Total(Charges(s)) + Reserve.tokens
  <2>1. PICK g : g = Charges(s)'
    OBVIOUS
  <2>2. /\ DOMAIN g = DOMAIN rows[s] \cup {r.call} /\ g[r.call] = Reserve.tokens
        /\ \A c \in DOMAIN rows[s] : g[c] = Charges(s)[c]
    BY <1>3, <2>1
  <2>3. Total(g) = Total(Charges(s)) + Reserve.tokens
    BY <1>1, <1>2, <1>5, <2>2, TotalAdd
  <2> QED BY <2>1, <2>3
<1>7. Total(Overruns(s)') = Total(Overruns(s)) + 0
  BY <1>1, <1>4, <1>5, TotalAdd
<1>8. Cardinality(DOMAIN rows[s] \cup {r.call}) = Cardinality(DOMAIN rows[s]) + 1
  BY <1>1, <1>5, FS_AddElement
<1> QED BY <1>1, <1>5, <1>6, <1>7, <1>8

\* A budget that does not exist yet has no reservations.
LEMMA NoBudget ==
    ASSUME StoreInv, ChargesAddUp, NEW s \in Scopes, budget[s] = None
    PROVE  /\ Total(Charges(s)) = 0 /\ Total(Overruns(s)) = 0
           /\ Cardinality(DOMAIN rows[s]) = 0
<1>0. rows[s] = <<>>
  BY DEF ChargesAddUp
<1>1. DOMAIN rows[s] = {}
  BY <1>0
<1>2. DOMAIN Charges(s) = {} /\ DOMAIN Overruns(s) = {}
  BY <1>1 DEF Charges, Overruns
<1> QED BY <1>1, <1>2, TotalEmpty, FS_EmptySet

LEMMA Times ==
    ASSUME NEW a \in Nat, NEW k \in Nat
    PROVE  a * (k + 1) = a * k + a /\ a * 1 = a /\ a * 0 = 0 /\ a * k \in Nat
OBVIOUS

LEMMA ReservationKeepsCharges ==
    ASSUME StoreInv, ChargesAddUp, NEW r, r.call \in Calls, ReservationAdded(r)
    PROVE  ChargesAddUp'
<1> SUFFICES ASSUME NEW s \in Scopes
             PROVE  IF budget'[s] = None THEN rows'[s] = <<>>
                    ELSE /\ budget'[s].tokens = Total(Charges(s)')
                         /\ budget'[s].attempts = Cardinality(DOMAIN rows'[s])
                         /\ budget'[s].cost = Reserve.cost * Cardinality(DOMAIN rows'[s])
  BY DEF ChargesAddUp, Charges
<1>1. CASE s \in ScopesOf(r.call)
  <2> DEFINE limit == LimitIn(s, r.call[1])
  <2> DEFINE k == Cardinality(DOMAIN rows[s])
  <2>1. /\ Total(Charges(s)') = Total(Charges(s)) + Reserve.tokens
        /\ Cardinality(DOMAIN rows'[s]) = k + 1
        /\ k \in Nat /\ Total(Charges(s)) \in Nat
    BY <1>1, ReservationTotals, ChargesTyped
  <2>2. budget'[s] = Charged(budget[s], limit)
    BY <1>1 DEF ReservationAdded
  <2>3. budget[s] \in BudgetRows \cup {None} /\ limit \in Limits
    BY CallsTyped, ReserveTyped DEF StoreInv
  <2>4. budget'[s] \in BudgetRows /\ budget'[s] # None
    BY <2>2, <2>3, ChargedTyped, ReserveTyped
  <2>5. Reserve.tokens \in Nat /\ Reserve.cost \in Nat
    BY ReserveTyped
  <2>6. CASE budget[s] = None
    <3>1. Total(Charges(s)) = 0 /\ k = 0
      BY <2>6, NoBudget
    <3>2. /\ budget'[s].attempts = 1 /\ budget'[s].tokens = Reserve.tokens
          /\ budget'[s].cost = Reserve.cost
      BY <2>2, <2>3, <2>6, ChargedTyped
    <3> HIDE DEF k
    <3>3. Reserve.cost * Cardinality(DOMAIN rows'[s]) = Reserve.cost
      BY <2>1, <2>5, <3>1, Times
    <3> QED BY <2>1, <2>4, <2>5, <3>1, <3>2, <3>3
  <2>7. CASE budget[s] # None
    <3>1. /\ budget[s].tokens = Total(Charges(s)) /\ budget[s].attempts = k
          /\ budget[s].cost = Reserve.cost * k
      BY <2>7 DEF ChargesAddUp, Charges
    <3>2. /\ budget'[s].attempts = budget[s].attempts + 1
          /\ budget'[s].tokens = budget[s].tokens + Reserve.tokens
          /\ budget'[s].cost = budget[s].cost + Reserve.cost
      BY <2>2, <2>3, <2>7, ChargedTyped
    <3> HIDE DEF k
    <3>3. Reserve.cost * Cardinality(DOMAIN rows'[s]) = Reserve.cost * k + Reserve.cost
      BY <2>1, <2>5, Times
    <3> QED BY <2>1, <2>4, <3>1, <3>2, <3>3
  <2> QED BY <2>6, <2>7
<1>2. CASE s \notin ScopesOf(r.call)
  <2>1. rows'[s] = rows[s] /\ budget'[s] = budget[s]
    BY <1>2 DEF ReservationAdded
  <2>2. Charges(s)' = Charges(s)
    BY <2>1 DEF Charges
  <2> QED BY <2>1, <2>2 DEF ChargesAddUp, Charges
<1> QED BY <1>1, <1>2

\* A reservation is admitted where it fits, so what it adds stays within the
\* limit even when every earlier call used more than it had reserved.
LEMMA ReservationKeepsLimits ==
    ASSUME StoreInv, ChargesAddUp, WithinBudget, NEW r, r.call \in Calls,
           ReservationAdded(r),
           \A s \in ScopesOf(r.call) : HasCapacity(s, budget[s], r.call[1])
    PROVE  WithinBudget'
<1> SUFFICES ASSUME NEW s \in Scopes, budget'[s] # None
             PROVE  /\ ~Exceeds(budget'[s].limit.cost, budget'[s].cost)
                    /\ ~Exceeds(budget'[s].limit.tokens,
                                budget'[s].tokens - Total(Overruns(s)'))
  BY DEF WithinBudget, Overruns
<1>1. CASE s \in ScopesOf(r.call)
  <2> DEFINE limit == LimitIn(s, r.call[1])
  <2>1. Total(Overruns(s)') = Total(Overruns(s)) /\ Total(Overruns(s)) \in Nat
    BY <1>1, ReservationTotals, ChargesTyped
  <2>2. budget'[s] = Charged(budget[s], limit)
    BY <1>1 DEF ReservationAdded
  <2>3. /\ budget[s] \in BudgetRows \cup {None} /\ limit \in Limits
        /\ limit.tokens \in Nat /\ limit.cost \in Nat
    BY CallsTyped, ReserveTyped DEF StoreInv
  <2>4. Reserve.tokens \in Nat /\ Reserve.cost \in Nat
    BY ReserveTyped
  <2>5. HasCapacity(s, budget[s], r.call[1])
    BY <1>1
  <2>6. CASE budget[s] = None
    <3>1. /\ budget'[s].tokens = Reserve.tokens /\ budget'[s].cost = Reserve.cost
          /\ budget'[s].limit = limit
      BY <2>2, <2>3, <2>6, ChargedTyped
    <3>2. ~Exceeds(limit.tokens, 0 + Reserve.tokens) /\ ~Exceeds(limit.cost, 0 + Reserve.cost)
      BY <2>5, <2>6 DEF HasCapacity
    <3> QED BY <2>1, <2>3, <2>4, <3>1, <3>2 DEF Exceeds
  <2>7. CASE budget[s] # None
    <3>1. /\ budget'[s].tokens = budget[s].tokens + Reserve.tokens
          /\ budget'[s].cost = budget[s].cost + Reserve.cost
          /\ budget'[s].limit = budget[s].limit
          /\ budget[s].tokens \in Nat /\ budget[s].cost \in Nat
      BY <2>2, <2>3, <2>7, ChargedTyped, BudgetTyped
    <3>2. /\ budget[s].limit = limit
          /\ ~Exceeds(limit.tokens, budget[s].tokens + Reserve.tokens)
          /\ ~Exceeds(limit.cost, budget[s].cost + Reserve.cost)
      BY <2>5, <2>7 DEF HasCapacity
    <3> QED BY <2>1, <2>3, <2>4, <3>1, <3>2 DEF Exceeds
  <2> QED BY <2>6, <2>7
<1>2. CASE s \notin ScopesOf(r.call)
  <2>1. rows'[s] = rows[s] /\ budget'[s] = budget[s]
    BY <1>2 DEF ReservationAdded
  <2>2. Overruns(s)' = Overruns(s)
    BY <2>1 DEF Overruns
  <2> QED BY <2>1, <2>2 DEF WithinBudget, Overruns
<1> QED BY <1>1, <1>2

\* What a committed reconciliation leaves in the tables.
ReservationSettled(r) ==
    /\ ScopesOf(r.call) \subseteq Scopes
    /\ \A s \in ScopesOf(r.call) :
          /\ r.call \in DOMAIN rows[s] /\ rows[s][r.call].reconciled = FALSE
          /\ DOMAIN rows'[s] = DOMAIN rows[s]
          /\ rows'[s] \in [DOMAIN rows[s] -> ReservationRows]
          /\ rows'[s][r.call].reconciled = TRUE
          /\ rows'[s][r.call].actual = r.actual
          /\ rows'[s][r.call].reserved = Reserve.tokens
          /\ rows'[s][r.call].profile = rows[s][r.call].profile
          /\ \A c \in DOMAIN rows[s] \ {r.call} : rows'[s][c] = rows[s][c]
          /\ budget'[s] = Reconciled(budget[s], Reserve.tokens, r.actual)
    /\ \A s \in Scopes \ ScopesOf(r.call) : rows'[s] = rows[s] /\ budget'[s] = budget[s]

LEMMA ReconciliationWritten ==
    ASSUME StoreInv, NEW r, r.call \in Calls, r.actual \in Nat,
           r.call \in DOMAIN rows[Run], r.seen.reserved = Reserve.tokens,
           ~rows[Run][r.call].reconciled, WriteReconciliation(r)
    PROVE  ReservationSettled(r)
<1>1. r.call[1] \in Nodes
  BY CallsTyped
<1>2. ScopesOf(r.call) \subseteq Scopes
  BY <1>1 DEF ScopesOf, Scopes
<1>3. \A s \in Scopes \ ScopesOf(r.call) : rows'[s] = rows[s] /\ budget'[s] = budget[s]
  BY DEF WriteReconciliation
<1>4. ASSUME NEW s \in ScopesOf(r.call)
      PROVE  /\ r.call \in DOMAIN rows[s] /\ rows[s][r.call].reconciled = FALSE
             /\ DOMAIN rows'[s] = DOMAIN rows[s]
             /\ rows'[s] \in [DOMAIN rows[s] -> ReservationRows]
             /\ rows'[s][r.call].reconciled = TRUE
             /\ rows'[s][r.call].actual = r.actual
             /\ rows'[s][r.call].reserved = Reserve.tokens
             /\ rows'[s][r.call].profile = rows[s][r.call].profile
             /\ \A c \in DOMAIN rows[s] \ {r.call} : rows'[s][c] = rows[s][c]
             /\ budget'[s] = Reconciled(budget[s], Reserve.tokens, r.actual)
  <2>1. s \in Scopes
    BY <1>2
  <2>2. r.call \in DOMAIN rows[s]
    BY <1>1 DEF ScopesOf, StoreInv
  <2>3. /\ rows[s][r.call] \in ReservationRows /\ rows[s][r.call] = rows[Run][r.call]
        /\ rows[s][r.call].reconciled \in BOOLEAN
    BY <2>1, <2>2, RowsTyped
  <2>4. rows[s] \in [DOMAIN rows[s] -> ReservationRows]
    BY <2>1 DEF StoreInv
  <2>5. rows'[s] = [rows[s] EXCEPT ![r.call].reconciled = TRUE, ![r.call].actual = r.actual]
    BY <2>1 DEF WriteReconciliation
  <2>6. PICK row : row = [rows[s][r.call] EXCEPT !.reconciled = TRUE, !.actual = r.actual]
    OBVIOUS
  <2>7. /\ row \in ReservationRows /\ row.reconciled = TRUE /\ row.actual = r.actual
        /\ row.reserved = Reserve.tokens /\ row.profile = rows[s][r.call].profile
    BY <2>3, <2>6 DEF ReservationRows
  <2>8. rows'[s] = [rows[s] EXCEPT ![r.call] = row]
    BY <2>2, <2>3, <2>4, <2>5, <2>6 DEF ReservationRows
  <2>9. rows'[s][r.call] = row
    BY <2>2, <2>4, <2>8
  <2>10. /\ DOMAIN rows'[s] = DOMAIN rows[s]
         /\ \A c \in DOMAIN rows[s] \ {r.call} : rows'[s][c] = rows[s][c]
         /\ rows'[s] \in [DOMAIN rows[s] -> ReservationRows]
    BY <2>2, <2>4, <2>7, <2>8
  <2>11. budget'[s] = Reconciled(budget[s], Reserve.tokens, r.actual)
    BY <2>1 DEF WriteReconciliation
  <2>12. rows[s][r.call].reconciled = FALSE
    BY <2>3
  <2> QED BY <2>2, <2>7, <2>9, <2>10, <2>11, <2>12
<1> QED BY <1>2, <1>3, <1>4 DEF ReservationSettled

\* A budget that has been charged at least the reservation is corrected to
\* the usage.
LEMMA ReconciledTyped ==
    ASSUME NEW b \in BudgetRows, NEW actual \in Nat, Reserve.tokens <= b.tokens
    PROVE  LET new == Reconciled(b, Reserve.tokens, actual)
           IN  /\ new \in BudgetRows /\ new.attempts = b.attempts /\ new.cost = b.cost
               /\ new.limit = b.limit /\ new.tokens = b.tokens + actual - Reserve.tokens
<1>1. b.tokens \in Nat /\ Reserve.tokens \in Nat
  BY BudgetTyped, ReserveTyped
<1>2. PICK t \in Nat : t = b.tokens + actual - Reserve.tokens
  BY <1>1
<1>3. Max({0, t}) = t
  BY MaxOfPair
<1>4. PICK v \in Nat \ {0} : v = b.revision + 1
  BY BudgetTyped
<1>5. Reconciled(b, Reserve.tokens, actual) = [b EXCEPT !.tokens = t, !.revision = v]
  BY <1>2, <1>3, <1>4 DEF Reconciled, BudgetRows
<1>6. PICK new : new = [b EXCEPT !.tokens = t, !.revision = v]
  OBVIOUS
<1>7. /\ new \in BudgetRows /\ new.attempts = b.attempts /\ new.cost = b.cost
      /\ new.limit = b.limit /\ new.tokens = t
  BY <1>6 DEF BudgetRows
<1> QED BY <1>2, <1>5, <1>6, <1>7

\* The tokens of a budget cover every reservation in it.
LEMMA ReservedIsCharged ==
    ASSUME StoreInv, ChargesAddUp, NEW s \in Scopes, NEW c \in DOMAIN rows[s],
           rows[s][c].reconciled = FALSE
    PROVE  budget[s] \in BudgetRows /\ Reserve.tokens <= budget[s].tokens
<1>1. budget[s] # None
  <2> SUFFICES ASSUME budget[s] = None  PROVE FALSE
    OBVIOUS
  <2>1. rows[s] = <<>>
    BY DEF ChargesAddUp
  <2> QED BY <2>1
<1>2. budget[s] \in BudgetRows /\ budget[s].tokens = Total(Charges(s))
  BY <1>1 DEF StoreInv, ChargesAddUp, Charges
<1>3. Charges(s)[c] = Reserve.tokens
  BY RowsTyped DEF Charges, Charge
<1>4. Charges(s)[c] <= Total(Charges(s))
  BY ChargesTyped, TotalCovers
<1> QED BY <1>2, <1>3, <1>4

LEMMA SettlementTotals ==
    ASSUME StoreInv, NEW r, r.actual \in Nat, ReservationSettled(r), NEW s \in ScopesOf(r.call)
    PROVE  /\ s \in Scopes
           /\ Total(Charges(s)') = Total(Charges(s)) - Reserve.tokens + r.actual
           /\ \E over \in Nat : /\ Total(Overruns(s)') = Total(Overruns(s)) + over
                                /\ r.actual - Reserve.tokens <= over
           /\ DOMAIN rows'[s] = DOMAIN rows[s]
<1>1. /\ s \in Scopes /\ r.call \in DOMAIN rows[s] /\ DOMAIN rows'[s] = DOMAIN rows[s]
      /\ \A c \in DOMAIN rows[s] \ {r.call} : rows'[s][c] = rows[s][c]
  BY DEF ReservationSettled
<1>2. PICK row : row = rows'[s][r.call]
  OBVIOUS
<1>3. row.reconciled = TRUE /\ row.actual = r.actual /\ row.reserved = Reserve.tokens
  BY <1>2 DEF ReservationSettled
<1>4. /\ Charge(row) = r.actual /\ Overrun(row) \in Nat
      /\ r.actual - Overrun(row) <= Reserve.tokens
  BY <1>3, RowCharge DEF Charge
<1>5. Charges(s)[r.call] = Reserve.tokens /\ Overruns(s)[r.call] = 0
  BY <1>1, RowsTyped DEF ReservationSettled, Charges, Charge, Overruns, Overrun
<1>6. PICK g : g = Charges(s)'
  OBVIOUS
<1>7. PICK h : h = Overruns(s)'
  OBVIOUS
<1>8. /\ DOMAIN g = DOMAIN rows[s] /\ g[r.call] = r.actual
      /\ \A c \in DOMAIN rows[s] \ {r.call} : g[c] = Charges(s)[c]
  BY <1>1, <1>2, <1>4, <1>6 DEF Charges
<1>9. /\ DOMAIN h = DOMAIN rows[s] /\ h[r.call] = Overrun(row)
      /\ \A c \in DOMAIN rows[s] \ {r.call} : h[c] = Overruns(s)[c]
  BY <1>1, <1>2, <1>7 DEF Overruns
<1>10. /\ Charges(s) \in [DOMAIN rows[s] -> Nat] /\ Overruns(s) \in [DOMAIN rows[s] -> Nat]
       /\ IsFiniteSet(DOMAIN rows[s]) /\ Total(Overruns(s)) \in Nat
  BY <1>1, ChargesTyped
<1>11. Total(g) = Total(Charges(s)) - Charges(s)[r.call] + r.actual
  BY <1>1, <1>8, <1>10, TotalChange
<1>12. Total(h) = Total(Overruns(s)) - Overruns(s)[r.call] + Overrun(row)
  BY <1>1, <1>4, <1>9, <1>10, TotalChange
<1>13. Total(h) = Total(Overruns(s)) + Overrun(row) /\ r.actual - Reserve.tokens <= Overrun(row)
  BY <1>4, <1>5, <1>10, <1>12, ReserveTyped
<1> QED BY <1>1, <1>4, <1>5, <1>6, <1>7, <1>11, <1>13

LEMMA SettlementKeepsCharges ==
    ASSUME StoreInv, ChargesAddUp, WithinBudget, NEW r, r.actual \in Nat,
           ReservationSettled(r)
    PROVE  ChargesAddUp' /\ WithinBudget'
<1> SUFFICES ASSUME NEW s \in Scopes
             PROVE  /\ IF budget'[s] = None THEN rows'[s] = <<>>
                       ELSE /\ budget'[s].tokens = Total(Charges(s)')
                            /\ budget'[s].attempts = Cardinality(DOMAIN rows'[s])
                            /\ budget'[s].cost = Reserve.cost * Cardinality(DOMAIN rows'[s])
                    /\ budget'[s] # None =>
                         /\ ~Exceeds(budget'[s].limit.cost, budget'[s].cost)
                         /\ ~Exceeds(budget'[s].limit.tokens,
                                     budget'[s].tokens - Total(Overruns(s)'))
  BY DEF ChargesAddUp, Charges, WithinBudget, Overruns
<1>1. CASE s \in ScopesOf(r.call)
  <2>1. /\ Total(Charges(s)') = Total(Charges(s)) - Reserve.tokens + r.actual
        /\ DOMAIN rows'[s] = DOMAIN rows[s]
    BY <1>1, SettlementTotals
  <2>2. PICK over \in Nat : /\ Total(Overruns(s)') = Total(Overruns(s)) + over
                            /\ r.actual - Reserve.tokens <= over
    BY <1>1, SettlementTotals
  <2>3. budget[s] \in BudgetRows /\ Reserve.tokens <= budget[s].tokens
    BY <1>1, ReservedIsCharged DEF ReservationSettled
  <2>4. /\ budget'[s] \in BudgetRows /\ budget'[s].attempts = budget[s].attempts
        /\ budget'[s].cost = budget[s].cost /\ budget'[s].limit = budget[s].limit
        /\ budget'[s].tokens = budget[s].tokens + r.actual - Reserve.tokens
    BY <1>1, <2>3, ReconciledTyped DEF ReservationSettled
  <2>5. budget[s] # None /\ budget'[s] # None
    BY <2>3, <2>4, BudgetTyped
  <2>6. /\ budget[s].tokens \in Nat /\ Reserve.tokens \in Nat
        /\ budget[s].limit.tokens \in Nat /\ Total(Overruns(s)) \in Nat
        /\ Total(Charges(s)) \in Nat
    BY <2>3, BudgetTyped, ReserveTyped, ChargesTyped
  <2>7. /\ budget[s].tokens = Total(Charges(s))
        /\ budget[s].attempts = Cardinality(DOMAIN rows[s])
        /\ budget[s].cost = Reserve.cost * Cardinality(DOMAIN rows[s])
    BY <2>5 DEF ChargesAddUp, Charges
  <2>8. /\ ~Exceeds(budget[s].limit.cost, budget[s].cost)
        /\ ~Exceeds(budget[s].limit.tokens, budget[s].tokens - Total(Overruns(s)))
    BY <2>5 DEF WithinBudget, Overruns
  <2>9. budget'[s].tokens - Total(Overruns(s)') <= budget[s].tokens - Total(Overruns(s))
    BY <2>2, <2>4, <2>6
  <2>10. ~Exceeds(budget'[s].limit.tokens, budget'[s].tokens - Total(Overruns(s)'))
    BY <2>2, <2>4, <2>6, <2>8, <2>9 DEF Exceeds
  <2>11. budget'[s].tokens = Total(Charges(s)')
    BY <2>1, <2>4, <2>6, <2>7
  <2> QED BY <2>1, <2>4, <2>5, <2>7, <2>8, <2>10, <2>11
<1>2. CASE s \notin ScopesOf(r.call)
  <2>1. rows'[s] = rows[s] /\ budget'[s] = budget[s]
    BY <1>2 DEF ReservationSettled
  <2>2. Charges(s)' = Charges(s) /\ Overruns(s)' = Overruns(s)
    BY <2>1 DEF Charges, Overruns
  <2> QED BY <2>1, <2>2 DEF ChargesAddUp, Charges, WithinBudget, Overruns
<1> QED BY <1>1, <1>2

LEMMA RowChanged ==
    ASSUME NEW D, NEW f \in [D -> ReservationRows], NEW c \in D, NEW actual, NEW g,
           g = [f EXCEPT ![c].reconciled = TRUE, ![c].actual = actual]
    PROVE  g[c] = [f[c] EXCEPT !.reconciled = TRUE, !.actual = actual]
OBVIOUS

LEMMA SettlementKeepsStore ==
    ASSUME StoreInv, ChargesAddUp, NEW r, r.call \in Calls, r.actual \in Nat,
           ReservationSettled(r), WriteReconciliation(r)
    PROVE  StoreInv'
<1>1. r.call[1] \in Nodes /\ Run \notin Nodes
  BY CallsTyped, ReserveTyped
<1>2. budget' \in [Scopes -> BudgetRows \cup {None}]
  <2>1. \A s \in Scopes : budget'[s] \in BudgetRows \cup {None}
    <3> SUFFICES ASSUME NEW s \in Scopes  PROVE budget'[s] \in BudgetRows \cup {None}
      OBVIOUS
    <3>1. CASE s \in ScopesOf(r.call)
      <4>1. budget[s] \in BudgetRows /\ Reserve.tokens <= budget[s].tokens
        BY <3>1, ReservedIsCharged DEF ReservationSettled
      <4>2. budget'[s] = Reconciled(budget[s], Reserve.tokens, r.actual)
        BY <3>1 DEF ReservationSettled
      <4> QED BY <4>1, <4>2, ReconciledTyped
    <3>2. CASE s \notin ScopesOf(r.call)
      BY <3>2 DEF StoreInv, ReservationSettled
    <3> QED BY <3>1, <3>2
  <2>2. budget' = [s \in Scopes |-> budget'[s]]
    BY DEF WriteReconciliation
  <2> QED BY <2>1, <2>2
<1>3. used' \in [Nodes -> [Profiles -> Nat]] /\ consumed' \subseteq Calls
  BY DEF WriteReconciliation, StoreInv
<1>4. \A s \in Scopes : DOMAIN rows'[s] = DOMAIN rows[s]
  BY DEF ReservationSettled
<1>5. ASSUME NEW s \in Scopes
      PROVE  /\ IsFiniteSet(DOMAIN rows'[s]) /\ DOMAIN rows'[s] \subseteq Calls
             /\ rows'[s] \in [DOMAIN rows'[s] -> ReservationRows]
  <2>1. /\ IsFiniteSet(DOMAIN rows[s]) /\ DOMAIN rows[s] \subseteq Calls
        /\ rows[s] \in [DOMAIN rows[s] -> ReservationRows]
    BY DEF StoreInv
  <2> QED BY <1>4, <2>1 DEF ReservationSettled
<1>6. Run \in ScopesOf(r.call) /\ r.call[1] \in ScopesOf(r.call) /\ Run \in Scopes
  BY DEF ScopesOf, Scopes
<1>7. ASSUME NEW c \in DOMAIN rows'[Run], rows'[Run][c].reconciled
      PROVE  rows'[Run][c].actual \in Nat
  <2>1. CASE c = r.call
    BY <1>6, <2>1 DEF ReservationSettled
  <2>2. CASE c # r.call
    <3>1. c \in DOMAIN rows[Run] /\ rows'[Run][c] = rows[Run][c]
      BY <1>4, <1>6, <2>2 DEF ReservationSettled
    <3> QED BY <1>7, <3>1 DEF StoreInv
  <2> QED BY <2>1, <2>2
<1>8. ASSUME NEW n \in Nodes
      PROVE  /\ DOMAIN rows'[n] = {c \in DOMAIN rows'[Run] : c[1] = n}
             /\ \A c \in DOMAIN rows'[n] : rows'[n][c] = rows'[Run][c]
  <2>1. /\ DOMAIN rows[n] = {c \in DOMAIN rows[Run] : c[1] = n}
        /\ \A c \in DOMAIN rows[n] : rows[n][c] = rows[Run][c]
        /\ n \in Scopes
    BY DEF StoreInv, Scopes
  <2>2. DOMAIN rows'[n] = DOMAIN rows[n] /\ DOMAIN rows'[Run] = DOMAIN rows[Run]
    BY <1>4, <1>6, <2>1
  <2>3. ASSUME NEW c \in DOMAIN rows[n]  PROVE rows'[n][c] = rows'[Run][c]
    <3>1. c \in DOMAIN rows[Run] /\ rows[n][c] = rows[Run][c] /\ c[1] = n
      BY <2>1
    <3>2. CASE c = r.call
      <4>1. n \in ScopesOf(r.call)
        BY <1>6, <3>1, <3>2
      <4>2. /\ rows'[n] = [rows[n] EXCEPT ![r.call].reconciled = TRUE, ![r.call].actual = r.actual]
            /\ rows'[Run] = [rows[Run] EXCEPT ![r.call].reconciled = TRUE, ![r.call].actual = r.actual]
        BY <1>6, <2>1, <4>1 DEF WriteReconciliation
      <4>3. /\ rows[n] \in [DOMAIN rows[n] -> ReservationRows]
            /\ rows[Run] \in [DOMAIN rows[Run] -> ReservationRows]
        BY <1>6, <2>1 DEF StoreInv
      <4>4. rows'[n][c] = [rows[n][c] EXCEPT !.reconciled = TRUE, !.actual = r.actual]
        BY <3>2, <4>2, <4>3, RowChanged
      <4>5. rows'[Run][c] = [rows[Run][c] EXCEPT !.reconciled = TRUE, !.actual = r.actual]
        BY <3>1, <3>2, <4>2, <4>3, RowChanged
      <4> QED BY <3>1, <4>4, <4>5
    <3>3. CASE c # r.call
      <4>1. rows'[Run][c] = rows[Run][c]
        BY <1>6, <3>1, <3>3 DEF ReservationSettled
      <4>2. rows'[n][c] = rows[n][c]
        BY <2>1, <3>3 DEF ReservationSettled
      <4> QED BY <3>1, <4>1, <4>2
    <3> QED BY <3>2, <3>3
  <2> QED BY <2>1, <2>2, <2>3
<1> QED BY <1>2, <1>3, <1>5, <1>7, <1>8 DEF StoreInv

LEMMA SettlementKeepsAttempts ==
    ASSUME StoreInv, AttemptsCounted, NEW r, r.call \in Calls, ReservationSettled(r),
           WriteReconciliation(r)
    PROVE  AttemptsCounted'
<1> SUFFICES ASSUME NEW n \in Nodes, NEW p \in Profiles
             PROVE  /\ used'[n][p] = Cardinality({c \in DOMAIN rows'[n] : rows'[n][c].profile = p})
                    /\ used'[n][p] <= Plan[p]
  BY DEF AttemptsCounted
<1>1. n \in Scopes
  BY DEF Scopes
<1>2. DOMAIN rows'[n] = DOMAIN rows[n] /\ \A c \in DOMAIN rows[n] : rows'[n][c].profile = rows[n][c].profile
  BY <1>1 DEF ReservationSettled
<1>3. {c \in DOMAIN rows'[n] : rows'[n][c].profile = p} = {c \in DOMAIN rows[n] : rows[n][c].profile = p}
  BY <1>2
<1>4. used' = used
  BY DEF WriteReconciliation
<1> QED BY <1>3, <1>4 DEF AttemptsCounted

-----------------------------------------------------------------------------
(* Every step.                                                             *)

\* The tables, the calls and the budgets together.
LedgerInv == StoreInv /\ CallInv /\ AttemptsCounted /\ ChargesAddUp /\ WithinBudget

LEMMA UnwrittenStep ==
    ASSUME StoreInv, AttemptsCounted, ChargesAddUp, WithinBudget, UNCHANGED hubVars
    PROVE  StoreInv' /\ AttemptsCounted' /\ ChargesAddUp' /\ WithinBudget'
<1>1. budget' = budget /\ rows' = rows /\ used' = used /\ consumed' = consumed
  BY DEF hubVars
<1>2. StoreInv'
  BY <1>1 DEF StoreInv
<1>3. AttemptsCounted'
  BY <1>1 DEF AttemptsCounted
<1>4. ChargesAddUp'
  BY <1>1 DEF ChargesAddUp
<1>5. WithinBudget'
  BY <1>1 DEF WithinBudget
<1> QED BY <1>2, <1>3, <1>4, <1>5

LEMMA InitLedger == Init => LedgerInv
<1> SUFFICES ASSUME Init PROVE LedgerInv
  OBVIOUS
<1>1. \A s \in Scopes : rows[s] = <<>> /\ DOMAIN rows[s] = {} /\ budget[s] = None
  BY DEF Init
<1>2. Run \in Scopes /\ Nodes \subseteq Scopes
  BY DEF Scopes
<1>3. DOMAIN spent = {} /\ requests = {}
  BY DEF Init
<1>4. StoreInv
  <2>1. budget \in [Scopes -> BudgetRows \cup {None}]
    BY DEF Init
  <2>2. used \in [Nodes -> [Profiles -> Nat]] /\ consumed \subseteq Calls
    BY DEF Init
  <2>3. ASSUME NEW s \in Scopes
        PROVE  /\ IsFiniteSet(DOMAIN rows[s]) /\ DOMAIN rows[s] \subseteq Calls
               /\ rows[s] \in [DOMAIN rows[s] -> ReservationRows]
    <3>1. <<>> \in [{} -> ReservationRows]
      OBVIOUS
    <3> QED BY <1>1, <3>1, FS_EmptySet
  <2> QED BY <1>1, <1>2, <2>1, <2>2, <2>3 DEF StoreInv
<1>5. CallInv
  <2>1. worker = [n \in Nodes |-> [at |-> "idle", profile |-> 1, failed |-> 0,
                                   calls |-> 0, turns |-> 0, ended |-> None]]
    BY DEF Init
  <2>2. worker \in [Nodes -> Workers]
    BY <2>1, PlanTyped DEF Workers
  <2>3. \A n \in Nodes : worker[n].at = "idle" /\ worker[n].failed = 0 /\ worker[n].profile = 1
    BY <2>1
  <2>4. 0 < Plan[1]
    BY PlanTyped
  <2> QED BY <1>1, <1>2, <1>3, <2>2, <2>3, <2>4 DEF CallInv
<1>6. AttemptsCounted
  <2> SUFFICES ASSUME NEW n \in Nodes, NEW p \in Profiles
               PROVE  /\ used[n][p] = Cardinality({c \in DOMAIN rows[n] : rows[n][c].profile = p})
                      /\ used[n][p] <= Plan[p]
    BY DEF AttemptsCounted
  <2>1. {c \in DOMAIN rows[n] : rows[n][c].profile = p} = {}
    BY <1>1, <1>2
  <2>2. used[n][p] = 0
    BY DEF Init
  <2>3. Cardinality({c \in DOMAIN rows[n] : rows[n][c].profile = p}) = 0
    BY <2>1, FS_EmptySet
  <2>4. 0 <= Plan[p]
    BY PlanTyped
  <2> QED BY <2>2, <2>3, <2>4
<1>7. ChargesAddUp /\ WithinBudget
  BY <1>1 DEF ChargesAddUp, WithinBudget
<1> QED BY <1>4, <1>5, <1>6, <1>7 DEF LedgerInv

LEMMA InvokeKeeps ==
    ASSUME StoreInv, CallInv, NEW n \in Nodes, Invoke(n)
    PROVE  CallInv'
<1>1. StartCall(n, 1, 0) /\ rows' = rows /\ spent' = spent
  BY DEF Invoke, hubVars
<1>2. 1 \in Profiles /\ 0 < Plan[1]
  BY PlanTyped
<1>3. \A c \in DOMAIN spent :
              /\ c \in DOMAIN rows[Run] /\ spent[c].profile = rows[Run][c].profile
              /\ spent[c].usage \in Nat
  BY DEF CallInv
<1>4. \A m \in Nodes \ {n} : worker[m].at \in {"reserving", "calling"} =>
              CallOf(m) \notin DOMAIN spent
  BY DEF CallInv
<1> QED BY <1>1, <1>2, <1>3, <1>4, StartKeepsCalls

\* The end of a call that starts no other.
LEMMA CallEndKeeps ==
    ASSUME StoreInv, CallInv, NEW n \in Nodes, NEW usage \in Usages,
           worker[n].at = "calling", Sent(n, usage), UNCHANGED hubVars, CallsKept,
           worker'[n].at \notin {"reserving", "calling"},
           \A m \in Nodes \ {n} : worker'[m] = worker[m],
           \A q \in requests' : q \in requests \/ RequestInv(q)
    PROVE  CallInv'
<1>1. rows' = rows
  BY DEF hubVars
<1>2. /\ \A c \in DOMAIN spent' :
            /\ c \in DOMAIN rows[Run] /\ spent'[c].profile = rows[Run][c].profile
            /\ spent'[c].usage \in Nat
      /\ \A m \in Nodes \ {n} : worker[m].at \in {"reserving", "calling"} =>
            CallOf(m) \notin DOMAIN spent'
  BY SentTyped
<1>3. \A m \in Nodes : worker'[m].at \in {"reserving", "calling"} => CallOf(m) \notin DOMAIN spent'
  BY <1>2
<1>4. \A m \in Nodes : worker'[m].at = "calling" => worker[m].at = "calling"
  OBVIOUS
<1> QED BY <1>1, <1>2, <1>3, <1>4, StepKeepsCalls

LEMMA ServedKeeps ==
    ASSUME StoreInv, CallInv, NEW n \in Nodes, NEW usage \in Usages,
           NEW reported \in Reports(usage), Served(n, usage, reported)
    PROVE  CallInv'
<1>1. worker[n].at = "calling" /\ Sent(n, usage) /\ UNCHANGED hubVars
  BY DEF Served
<1>2. worker \in [Nodes -> Workers]
  BY DEF CallInv
<1>3. CASE reported = None
  <2>1. EndTurn(n, "served") /\ requests' = requests
    BY <1>3 DEF Served
  <2>2. /\ CallsKept /\ worker'[n].at = "idle"
        /\ \A m \in Nodes \ {n} : worker'[m] = worker[m]
    BY <1>2, <2>1, EndTurnKeeps
  <2> QED BY <1>1, <2>1, <2>2, CallEndKeeps
<1>4. CASE reported # None
  <2>1. PICK new : /\ new = Request(CallOf(n), "reconcile", worker[n].profile, reported)
                   /\ worker' = [worker EXCEPT ![n].at = "reconciling"]
                   /\ requests' = requests \cup {new}
    BY <1>4 DEF Served
  <2>2. /\ CallsKept /\ worker'[n].at = "reconciling"
        /\ \A m \in Nodes \ {n} : worker'[m] = worker[m]
    BY <1>2, <2>1, MoveKeeps
  <2>3. reported \in Nat
    BY <1>4, ConstantsAssumption DEF Reports
  <2>4. worker[n].profile \in Profiles /\ worker[n].calls \in Nat
    BY <1>2 DEF Workers
  <2>5. /\ DOMAIN new = RequestFields /\ new.call = CallOf(n) /\ new.op = "reconcile"
        /\ new.profile = worker[n].profile /\ new.actual = reported /\ new.seen = None
    BY <2>1, RequestTyped
  <2>6. new.call \in Calls /\ new.call[1] = n /\ new.call[2] = worker[n].calls
    BY <2>4, <2>5 DEF CallOf, Calls
  <2>7. RequestInv(new)
    BY <2>3, <2>4, <2>5, <2>6 DEF RequestInv
  <2>8. \A q \in requests' : q \in requests \/ RequestInv(q)
    BY <2>1, <2>7
  <2> QED BY <1>1, <2>2, <2>8, CallEndKeeps
<1> QED BY <1>3, <1>4

LEMMA FailedKeeps ==
    ASSUME StoreInv, CallInv, NEW n \in Nodes, NEW usage \in Usages,
           NEW fallback \in BOOLEAN, Failed(n, usage, fallback)
    PROVE  CallInv'
<1> DEFINE p == worker[n].profile
<1> DEFINE failures == worker[n].failed + 1
<1>1. worker[n].at = "calling" /\ Sent(n, usage) /\ UNCHANGED hubVars
  BY DEF Failed
<1>2. worker \in [Nodes -> Workers]
  BY DEF CallInv
<1>3. p \in Profiles /\ failures \in Nat /\ p \in Nat
  BY <1>2, PlanTyped DEF Workers
<1>4. /\ \A c \in DOMAIN spent' :
            /\ c \in DOMAIN rows[Run] /\ spent'[c].profile = rows[Run][c].profile
            /\ spent'[c].usage \in Nat
      /\ \A m \in Nodes \ {n} : worker[m].at \in {"reserving", "calling"} =>
            CallOf(m) \notin DOMAIN spent'
  BY <1>1, SentTyped
<1>5. rows' = rows
  BY <1>1 DEF hubVars
<1>6. ASSUME NEW how \in {"failed", "exhausted"}, EndTurn(n, how), requests' = requests
      PROVE  CallInv'
  <2>1. /\ CallsKept /\ worker'[n].at = "idle"
        /\ \A m \in Nodes \ {n} : worker'[m] = worker[m]
    BY <1>2, <1>6, EndTurnKeeps
  <2> QED BY <1>1, <1>6, <2>1, CallEndKeeps
<1>7. CASE failures < Plan[p] /\ StartCall(n, p, failures)
  BY <1>3, <1>4, <1>5, <1>7, StartKeepsCalls
<1>8. CASE p < Len(Plan) /\ StartCall(n, p + 1, 0)
  <2>1. p + 1 \in Profiles
    BY <1>3, <1>8, PlanTyped DEF Profiles
  <2>2. 0 < Plan[p + 1]
    BY <2>1, PlanTyped
  <2> QED BY <1>4, <1>5, <1>8, <2>1, <2>2, StartKeepsCalls
<1> QED BY <1>6, <1>7, <1>8 DEF Failed

LEMMA LeaveKeeps ==
    ASSUME StoreInv, CallInv, NEW n \in Nodes, GiveUp(n) \/ Stop(n)
    PROVE  CallInv'
<1>1. UNCHANGED hubVars /\ UNCHANGED spent /\ requests' = requests
  BY DEF GiveUp, Stop
<1>2. worker \in [Nodes -> Workers]
  BY DEF CallInv
<1>3. CallsKept /\ worker'[n].at # "calling" /\ \A m \in Nodes \ {n} : worker'[m] = worker[m]
  <2>1. CASE GiveUp(n)
    BY <1>2, <2>1, EndTurnKeeps DEF GiveUp
  <2>2. CASE Stop(n)
    BY <1>2, <2>2, MoveKeeps DEF Stop
  <2> QED BY <2>1, <2>2
<1>4. \A m \in Nodes : worker'[m].at = "calling" => worker[m].at = "calling"
  BY <1>3
<1> QED BY <1>1, <1>3, <1>4, QuietStepKeepsCalls

LEMMA WorkersStay ==
    ASSUME worker \in [Nodes -> Workers], worker' = worker
    PROVE  CallsKept /\ \A m \in Nodes : worker'[m].at = "calling" => worker[m].at = "calling"
BY DEF CallsKept

LEMMA ReadKeeps ==
    ASSUME StoreInv, CallInv, NEW r \in requests, ReadReservations(r) \/ ReadBudgets(r)
    PROVE  CallInv'
<1>1. UNCHANGED hubVars /\ UNCHANGED spent /\ worker' = worker
  BY DEF ReadReservations, ReadBudgets
<1>2. RequestInv(r)
  BY DEF CallInv
<1>3. CallsKept /\ \A m \in Nodes : worker'[m].at = "calling" => worker[m].at = "calling"
  BY <1>1, WorkersStay DEF CallInv
<1>4. CASE ReadReservations(r)
  <2>1. PICK seen : seen = IF r.call \in DOMAIN rows[Run] THEN rows[Run][r.call] ELSE None
    OBVIOUS
  <2>2. PICK new : new = [r EXCEPT !.at = "budgets", !.seen = seen]
    OBVIOUS
  <2>3. requests' = (requests \ {r}) \cup {new}
    BY <1>4, <2>1, <2>2 DEF ReadReservations, Advance
  <2>4. seen # None => r.call \in DOMAIN rows[Run] /\ seen.reserved = Reserve.tokens
    BY <2>1, RowsTyped DEF Scopes
  <2>5. /\ DOMAIN new = RequestFields /\ new.call = r.call /\ new.op = r.op
        /\ new.profile = r.profile /\ new.actual = r.actual /\ new.seen = seen
    BY <1>2, <2>2 DEF RequestInv, RequestFields
  <2>6. RequestInv(new)
    BY <1>2, <2>4, <2>5 DEF RequestInv
  <2> QED BY <1>1, <1>3, <2>3, <2>6, QuietStepKeepsCalls
<1>5. CASE ReadBudgets(r)
  <2>1. PICK read : read = [budget |-> [s \in ScopesOf(r.call) |-> budget[s]],
                            used |-> used[r.call[1]],
                            consumed |-> r.call \in consumed]
    OBVIOUS
  <2>2. PICK new : new = [r EXCEPT !.at = "write", !.read = read]
    OBVIOUS
  <2>3. requests' = (requests \ {r}) \cup {new}
    BY <1>5, <2>1, <2>2 DEF ReadBudgets, Advance
  <2>5. /\ DOMAIN new = RequestFields /\ new.call = r.call /\ new.op = r.op
        /\ new.profile = r.profile /\ new.actual = r.actual /\ new.seen = r.seen
    BY <1>2, <2>2 DEF RequestInv, RequestFields
  <2>6. RequestInv(new)
    BY <1>2, <2>5 DEF RequestInv
  <2> QED BY <1>1, <1>3, <2>3, <2>6, QuietStepKeepsCalls
<1> QED BY <1>4, <1>5

LEMMA RefuseKeeps ==
    ASSUME StoreInv, CallInv, NEW r \in requests, Refuse(r)
    PROVE  CallInv'
<1>1. UNCHANGED hubVars /\ UNCHANGED spent /\ requests' \subseteq requests
  BY DEF Refuse
<1>2. RequestInv(r) /\ worker \in [Nodes -> Workers]
  BY DEF CallInv
<1>3. PICK result : result = Decision(r)
  OBVIOUS
<1>4. result \in {"allowed", "denied", "attempts_exceeded"} /\ Answer(r, result)
  BY <1>3 DEF Refuse, Decision, ReserveDecision, ReconcileDecision
<1>5. result = "allowed" /\ r.op = "reserve" => r.call \in DOMAIN rows[Run]
  BY <1>2, <1>3 DEF Decision, ReserveDecision, RequestInv
<1>6. r.call \in Calls
  BY <1>2 DEF RequestInv
<1>7. /\ CallsKept
      /\ \A n \in Nodes : worker'[n].at = "calling" =>
            \/ worker[n].at = "calling"
            \/ r.call = CallOf(n) /\ result = "allowed" /\ r.op = "reserve"
  BY <1>2, <1>4, <1>6, AnswerKeeps
<1>8. \A n \in Nodes : worker'[n].at = "calling" =>
            worker[n].at = "calling" \/ CallOf(n) \in DOMAIN rows[Run]
  BY <1>5, <1>7
<1> QED BY <1>1, <1>7, <1>8, QuietStepKeepsCalls

LEMMA ConflictKeeps ==
    ASSUME StoreInv, CallInv, NEW r \in requests, Conflict(r)
    PROVE  CallInv'
<1>1. UNCHANGED hubVars /\ UNCHANGED spent
  BY DEF Conflict
<1>2. RequestInv(r) /\ worker \in [Nodes -> Workers]
  BY DEF CallInv
<1>3. CASE r.tries < Tries
  <2>1. PICK tries : tries = r.tries + 1
    OBVIOUS
  <2>2. PICK new : new = [r EXCEPT !.at = "reservations", !.seen = None,
                                   !.read = None, !.tries = tries]
    OBVIOUS
  <2>3. requests' = (requests \ {r}) \cup {new} /\ worker' = worker
    BY <1>2, <1>3, <2>1, <2>2 DEF Conflict, Advance, RequestInv, RequestFields
  <2>4. /\ DOMAIN new = RequestFields /\ new.call = r.call /\ new.op = r.op
        /\ new.profile = r.profile /\ new.actual = r.actual /\ new.seen = None
    BY <1>2, <2>2 DEF RequestInv, RequestFields
  <2>5. RequestInv(new)
    BY <1>2, <2>4 DEF RequestInv
  <2>6. CallsKept /\ \A m \in Nodes : worker'[m].at = "calling" => worker[m].at = "calling"
    BY <1>2, <2>3, WorkersStay
  <2> QED BY <1>1, <2>3, <2>5, <2>6, QuietStepKeepsCalls
<1>4. CASE ~(r.tries < Tries)
  <2>1. requests' \subseteq requests /\ Answer(r, "denied")
    BY <1>4 DEF Conflict
  <2>2. r.call \in Calls
    BY <1>2 DEF RequestInv
  <2>3. /\ CallsKept
        /\ \A n \in Nodes : worker'[n].at = "calling" => worker[n].at = "calling"
    BY <1>2, <2>1, <2>2, AnswerKeeps
  <2> QED BY <1>1, <2>1, <2>3, QuietStepKeepsCalls
<1> QED BY <1>3, <1>4

LEMMA RedeliverKeeps ==
    ASSUME StoreInv, CallInv, NEW r \in requests, Redeliver(r)
    PROVE  CallInv'
<1>1. UNCHANGED hubVars /\ UNCHANGED spent /\ worker' = worker
  BY DEF Redeliver
<1>2. RequestInv(r)
  BY DEF CallInv
<1>3. PICK fresh : fresh = Request(r.call, r.op, r.profile, r.actual)
  OBVIOUS
<1>4. PICK new : new = [fresh EXCEPT !.copy = 2]
  OBVIOUS
<1>5. requests' = requests \cup {new}
  BY <1>3, <1>4 DEF Redeliver
<1>6. /\ DOMAIN fresh = RequestFields /\ fresh.call = r.call /\ fresh.op = r.op
      /\ fresh.profile = r.profile /\ fresh.actual = r.actual /\ fresh.seen = None
  BY <1>3, RequestTyped
<1>7. /\ DOMAIN new = RequestFields /\ new.call = r.call /\ new.op = r.op
      /\ new.profile = r.profile /\ new.actual = r.actual /\ new.seen = None
  BY <1>4, <1>6 DEF RequestFields
<1>8. RequestInv(new)
  BY <1>2, <1>7 DEF RequestInv
<1>9. CallsKept /\ \A m \in Nodes : worker'[m].at = "calling" => worker[m].at = "calling"
  BY <1>1, WorkersStay DEF CallInv
<1> QED BY <1>1, <1>5, <1>8, <1>9, QuietStepKeepsCalls

\* The transaction that is written decided from rows that have not changed.
LEMMA ReserveIsCurrent ==
    ASSUME StoreInv, NEW r, r.call \in Calls, r.op = "reserve", Decision(r) = "write",
           ReserveCommits(r)
    PROVE  /\ \A s \in ScopesOf(r.call) : HasCapacity(s, budget[s], r.call[1])
           /\ used[r.call[1]][r.profile] < Plan[r.profile]
           /\ r.call \notin DOMAIN rows[Run]
<1>1. /\ \A s \in ScopesOf(r.call) : HasCapacity(s, r.read.budget[s], r.call[1])
      /\ AttemptLeft(r.read.used, r.profile)
  BY DEF Decision, ReserveDecision
<1>2. /\ \A s \in ScopesOf(r.call) : budget[s] = r.read.budget[s]
      /\ used[r.call[1]][r.profile] = r.read.used[r.profile]
      /\ r.call \notin DOMAIN rows[Run]
  BY DEF ReserveCommits, BudgetsUnchanged
<1>3. r.read.used[r.profile] < Plan[r.profile]
  BY <1>1 DEF AttemptLeft
<1> QED BY <1>1, <1>2, <1>3

LEMMA CommitKeeps ==
    ASSUME LedgerInv, NEW r \in requests, Commit(r)
    PROVE  LedgerInv'
<1> USE DEF LedgerInv
<1>1. RequestInv(r) /\ worker \in [Nodes -> Workers]
  BY DEF CallInv
<1>2. /\ r.call \in Calls /\ r.profile \in Profiles /\ r.call[1] \in Nodes
      /\ r.call[2] <= worker[r.call[1]].calls
      /\ r.call = CallOf(r.call[1]) => r.profile = worker[r.call[1]].profile
  BY <1>1, CallsTyped DEF RequestInv
<1>3. requests' \subseteq requests /\ spent' = spent /\ Answer(r, "allowed")
  BY DEF Commit
<1>4. /\ CallsKept
      /\ \A n \in Nodes : worker'[n].at = "calling" =>
            \/ worker[n].at = "calling"
            \/ r.call = CallOf(n) /\ r.op = "reserve"
  BY <1>1, <1>2, <1>3, AnswerKeeps
<1>5. \A n \in Nodes : worker'[n].at \in {"reserving", "calling"} =>
              CallOf(n) \notin DOMAIN spent'
  BY <1>3, <1>4 DEF CallsKept, CallInv
<1>6. \A c \in DOMAIN spent' :
              /\ c \in DOMAIN rows[Run] /\ spent'[c].profile = rows[Run][c].profile
              /\ spent'[c].usage \in Nat
  BY <1>3 DEF CallInv
<1>7. Run \in ScopesOf(r.call) /\ Run \in Scopes
  BY DEF ScopesOf, Scopes
<1>8. CASE r.op = "reserve"
  <2>1. ReserveCommits(r) /\ WriteReservation(r) /\ Decision(r) = "write"
    BY <1>8 DEF Commit
  <2>2. /\ \A s \in ScopesOf(r.call) : HasCapacity(s, budget[s], r.call[1])
        /\ used[r.call[1]][r.profile] < Plan[r.profile]
        /\ r.call \notin DOMAIN rows[Run]
    BY <1>2, <1>8, <2>1, ReserveIsCurrent
  <2>3. ReservationAdded(r)
    BY <1>2, <2>1, <2>2, ReservationWritten
  <2>4. StoreInv' /\ AttemptsCounted'
    BY <1>2, <2>1, <2>2, ReservationKeepsStore, ReservationKeepsAttempts
  <2>5. ChargesAddUp' /\ WithinBudget'
    BY <1>2, <2>2, <2>3, ReservationKeepsCharges, ReservationKeepsLimits
  <2>6. /\ DOMAIN rows'[Run] = DOMAIN rows[Run] \cup {r.call}
        /\ rows'[Run][r.call].profile = r.profile
        /\ \A c \in DOMAIN rows[Run] : rows'[Run][c] = rows[Run][c]
    BY <1>7, <2>3 DEF ReservationAdded
  <2>7. \A n \in Nodes : worker'[n].at = "calling" =>
              worker[n].at = "calling" \/ CallOf(n) \in DOMAIN rows'[Run]
    BY <1>4, <2>6
  <2>8. \A c \in DOMAIN rows'[Run] : c \notin DOMAIN rows[Run] =>
              /\ c \in Calls /\ c[2] <= worker[c[1]].calls
              /\ c = CallOf(c[1]) => rows'[Run][c].profile = worker[c[1]].profile
    BY <1>2, <2>6
  <2>9. CallInv'
    BY <1>3, <1>4, <1>5, <1>6, <2>6, <2>7, <2>8, StepKeepsCalls
  <2> QED BY <2>4, <2>5, <2>9
<1>9. CASE r.op = "reconcile"
  <2>1. ReconcileCommits(r) /\ WriteReconciliation(r) /\ Decision(r) = "write"
    BY <1>9 DEF Commit
  <2>2. r.actual \in Nat /\ r.seen # None
    BY <1>1, <1>9, <2>1 DEF RequestInv, Decision, ReconcileDecision
  <2>3. /\ r.call \in DOMAIN rows[Run] /\ r.seen.reserved = Reserve.tokens
        /\ ~rows[Run][r.call].reconciled
    BY <1>1, <2>1, <2>2 DEF RequestInv, ReconcileCommits
  <2>4. ReservationSettled(r)
    BY <1>2, <2>1, <2>2, <2>3, ReconciliationWritten
  <2>5. StoreInv' /\ AttemptsCounted'
    BY <1>2, <2>1, <2>2, <2>4, SettlementKeepsStore, SettlementKeepsAttempts
  <2>6. ChargesAddUp' /\ WithinBudget'
    BY <2>2, <2>4, SettlementKeepsCharges
  <2>7. /\ DOMAIN rows'[Run] = DOMAIN rows[Run]
        /\ \A c \in DOMAIN rows[Run] : rows'[Run][c].profile = rows[Run][c].profile
    BY <1>7, <2>4 DEF ReservationSettled
  <2>8. \A n \in Nodes : worker'[n].at = "calling" => worker[n].at = "calling"
    BY <1>4, <1>9
  <2>9. CallInv'
    BY <1>3, <1>4, <1>5, <1>6, <2>7, <2>8, StepKeepsCalls
  <2> QED BY <2>5, <2>6, <2>9
<1> QED BY <1>1, <1>8, <1>9 DEF RequestInv

LEMMA NextKeepsLedger == LedgerInv /\ [Next]_vars => LedgerInv'
<1> SUFFICES ASSUME LedgerInv, [Next]_vars  PROVE LedgerInv'
  OBVIOUS
<1>1. StoreInv /\ CallInv /\ AttemptsCounted /\ ChargesAddUp /\ WithinBudget
  BY DEF LedgerInv
<1>2. ASSUME UNCHANGED hubVars, CallInv'  PROVE LedgerInv'
  BY <1>1, <1>2, UnwrittenStep DEF LedgerInv
<1>3. ASSUME NEW n \in Nodes, Invoke(n)  PROVE LedgerInv'
  BY <1>1, <1>2, <1>3, InvokeKeeps DEF Invoke
<1>4. ASSUME NEW n \in Nodes, NEW u \in Usages, NEW reported \in Reports(u), Served(n, u, reported)
      PROVE  LedgerInv'
  BY <1>1, <1>2, <1>4, ServedKeeps DEF Served
<1>5. ASSUME NEW n \in Nodes, NEW u \in Usages, NEW fallback \in BOOLEAN, Failed(n, u, fallback)
      PROVE  LedgerInv'
  BY <1>1, <1>2, <1>5, FailedKeeps DEF Failed
<1>6. ASSUME NEW n \in Nodes, GiveUp(n) \/ Stop(n)  PROVE LedgerInv'
  BY <1>1, <1>2, <1>6, LeaveKeeps DEF GiveUp, Stop
<1>7. ASSUME NEW r \in requests, ReadReservations(r) \/ ReadBudgets(r)  PROVE LedgerInv'
  BY <1>1, <1>2, <1>7, ReadKeeps DEF ReadReservations, ReadBudgets
<1>8. ASSUME NEW r \in requests, Refuse(r)  PROVE LedgerInv'
  BY <1>1, <1>2, <1>8, RefuseKeeps DEF Refuse
<1>9. ASSUME NEW r \in requests, Commit(r)  PROVE LedgerInv'
  BY <1>9, CommitKeeps
<1>10. ASSUME NEW r \in requests, Conflict(r)  PROVE LedgerInv'
  BY <1>1, <1>2, <1>10, ConflictKeeps DEF Conflict
<1>11. ASSUME NEW r \in requests, Redeliver(r)  PROVE LedgerInv'
  BY <1>1, <1>2, <1>11, RedeliverKeeps DEF Redeliver
<1>12. CASE UNCHANGED vars
  <2>1. /\ UNCHANGED hubVars /\ rows' = rows /\ requests' = requests
        /\ worker' = worker /\ spent' = spent
    BY <1>12 DEF vars, hubVars
  <2>2. CallsKept /\ \A m \in Nodes : worker'[m].at = "calling" => worker[m].at = "calling"
    BY <1>1, <2>1, WorkersStay DEF CallInv
  <2>3. CallInv'
    BY <1>1, <2>1, <2>2, QuietStepKeepsCalls
  <2> QED BY <1>2, <2>1, <2>3
<1> QED BY <1>3, <1>4, <1>5, <1>6, <1>7, <1>8, <1>9, <1>10, <1>11, <1>12 DEF Next

\* Reservations, attempt counters, budget rows, requests and calls stay in step
\* with each other over every transaction of reserve and reconcile (LedgerInv):
\* the invariant the theorems below are read off.
THEOREM LedgerInvariant == Spec => []LedgerInv
<1>1. Init => LedgerInv
  BY InitLedger
<1>2. LedgerInv /\ [Next]_vars => LedgerInv'
  BY NextKeepsLedger
<1> QED BY <1>1, <1>2, PTL DEF Spec

\* The tables of the Hub and the bookkeeping of the workers have their types,
\* and no attempt counter passes the plan (TypeOK), for any number of step
\* attempts, any plan and any faults.
THEOREM TypeCorrect == Spec => []TypeOK
<1>1. LedgerInv => TypeOK
  <2> SUFFICES ASSUME StoreInv, CallInv, AttemptsCounted  PROVE TypeOK
    BY DEF LedgerInv
  <2>1. ASSUME NEW s \in Scopes
        PROVE  /\ budget[s] # None =>
                   /\ {budget[s].attempts, budget[s].tokens, budget[s].cost} \subseteq Nat
                   /\ budget[s].revision \in Nat \ {0} /\ budget[s].limit \in Limits
               /\ DOMAIN rows[s] \subseteq Calls
    <3>1. budget[s] # None => budget[s] \in BudgetRows
      BY DEF StoreInv
    <3> QED BY <3>1, BudgetTyped DEF StoreInv
  <2>2. ASSUME NEW n \in Nodes, NEW p \in Profiles  PROVE used[n][p] \in 0..Plan[p]
    <3>1. used[n][p] \in Nat
      BY DEF StoreInv
    <3>2. used[n][p] <= Plan[p]
      BY DEF AttemptsCounted
    <3> QED BY <3>1, <3>2, PlanTyped
  <2>3. ASSUME NEW n \in Nodes
        PROVE  /\ worker[n].at \in {"idle", "reserving", "calling", "reconciling", "stopped"}
               /\ worker[n].profile \in Profiles
               /\ worker[n].failed \in 0..(Plan[worker[n].profile] - 1)
    <3>1. /\ worker[n].at \in {"idle", "reserving", "calling", "reconciling", "stopped"}
          /\ worker[n].profile \in Profiles /\ worker[n].failed \in Nat
      BY DEF CallInv, Workers
    <3>2. worker[n].failed < Plan[worker[n].profile]
      BY DEF CallInv
    <3> QED BY <3>1, <3>2, PlanTyped
  <2>4. consumed \subseteq Calls
    BY DEF StoreInv
  <2> QED BY <2>1, <2>2, <2>3, <2>4 DEF TypeOK
<1> QED BY <1>1, LedgerInvariant, PTL

\* Each budget row of _increment_budget and _reconcile_scope is exactly what
\* the reservations in it add up to (ChargesAddUp), however transactions,
\* repeated requests, retries and lost workers interleave.
THEOREM BudgetsAddUp == Spec => []ChargesAddUp
<1>1. LedgerInv => ChargesAddUp
  BY DEF LedgerInv
<1> QED BY <1>1, LedgerInvariant, PTL

\* What _assert_capacity admits keeps every cost budget within its limit, and
\* every token budget but for what providers used beyond their reservation
\* (WithinBudget), for any limits.
THEOREM BudgetsHold == Spec => []WithinBudget
<1>1. LedgerInv => WithinBudget
  BY DEF LedgerInv
<1> QED BY <1>1, LedgerInvariant, PTL

\* Over all invocations, retries, fallbacks and repeated requests of a step
\* attempt, no provider profile is called more often than the signed plan
\* says (CallsWithinPlan): what is sent was reserved, once, under its profile.
THEOREM PlanHolds == Spec => []CallsWithinPlan
<1>1. LedgerInv => CallsWithinPlan
  <2> SUFFICES ASSUME StoreInv, CallInv, AttemptsCounted, NEW n \in Nodes, NEW p \in Profiles
               PROVE  Cardinality({c \in DOMAIN spent : c[1] = n /\ spent[c].profile = p}) <= Plan[p]
    BY DEF LedgerInv, CallsWithinPlan
  <2> DEFINE sent == {c \in DOMAIN spent : c[1] = n /\ spent[c].profile = p}
  <2> DEFINE reserved == {c \in DOMAIN rows[n] : rows[n][c].profile = p}
  <2>1. sent \subseteq reserved
    <3> SUFFICES ASSUME NEW c \in DOMAIN spent, c[1] = n, spent[c].profile = p
                 PROVE  c \in DOMAIN rows[n] /\ rows[n][c].profile = p
      OBVIOUS
    <3>1. c \in DOMAIN rows[Run] /\ rows[Run][c].profile = p
      BY DEF CallInv
    <3>2. c \in DOMAIN rows[n] /\ rows[n][c] = rows[Run][c]
      BY <3>1 DEF StoreInv
    <3> QED BY <3>1, <3>2
  <2>2. IsFiniteSet(DOMAIN rows[n])
    BY DEF StoreInv, Scopes
  <2>3. reserved \subseteq DOMAIN rows[n]
    OBVIOUS
  <2>4. Cardinality(reserved) = used[n][p] /\ used[n][p] <= Plan[p]
    BY DEF AttemptsCounted
  <2>5. used[n][p] \in Nat /\ Plan[p] \in Nat
    BY PlanTyped DEF StoreInv
  <2> HIDE DEF sent, reserved
  <2>6. IsFiniteSet(reserved)
    BY <2>2, <2>3, FS_Subset
  <2>7. Cardinality(sent) <= Cardinality(reserved) /\ Cardinality(sent) \in Nat
    BY <2>1, <2>6, FS_Subset, FS_CardinalityType
  <2>8. Cardinality(sent) <= Plan[p]
    BY <2>4, <2>5, <2>7
  <2> QED BY <2>8 DEF sent
<1> QED BY <1>1, LedgerInvariant, PTL

-----------------------------------------------------------------------------
(* What was used and what was charged for it.                              *)

\* What is recorded as spent stays, requests report it, and reservations are
\* reconciled with it.
LEMMA UsageKept ==
    ASSUME UsageInv,
           \A c \in DOMAIN spent : c \in DOMAIN spent' /\ spent'[c] = spent[c],
           \A q \in requests' :
              \/ \E r \in requests : q.op = r.op /\ q.call = r.call /\ q.actual = r.actual
              \/ q.op = "reconcile" =>
                    q.call \in DOMAIN spent' /\ q.actual = spent'[q.call].usage,
           \A c \in DOMAIN rows'[Run] :
              \/ c \in DOMAIN rows[Run] /\ rows'[Run][c] = rows[Run][c]
              \/ rows'[Run][c].reconciled =>
                    c \in DOMAIN spent' /\ rows'[Run][c].actual = spent'[c].usage
    PROVE  UsageInv'
<1>1. ASSUME NEW q \in requests', q.op = "reconcile"
      PROVE  q.call \in DOMAIN spent' /\ q.actual = spent'[q.call].usage
  <2>1. CASE \E r \in requests : q.op = r.op /\ q.call = r.call /\ q.actual = r.actual
    BY <1>1, <2>1 DEF UsageInv
  <2> QED BY <1>1, <2>1
<1>2. ASSUME NEW c \in DOMAIN rows'[Run], rows'[Run][c].reconciled
      PROVE  c \in DOMAIN spent' /\ rows'[Run][c].actual = spent'[c].usage
  <2>1. CASE c \in DOMAIN rows[Run] /\ rows'[Run][c] = rows[Run][c]
    BY <1>2, <2>1 DEF UsageInv
  <2> QED BY <1>2, <2>1
<1> QED BY <1>1, <1>2 DEF UsageInv

LEMMA StartKeepsUsage ==
    ASSUME UsageInv, rows' = rows, NEW n, NEW profile, NEW failed,
           StartCall(n, profile, failed),
           \A c \in DOMAIN spent : c \in DOMAIN spent' /\ spent'[c] = spent[c]
    PROVE  UsageInv'
<1>1. PICK new : /\ new = Request(<<n, worker[n].calls + 1>>, "reserve", profile, None)
                 /\ requests' = requests \cup {new}
  BY DEF StartCall
<1>2. new.op = "reserve"
  BY <1>1, RequestTyped
<1> QED BY <1>1, <1>2, UsageKept

LEMMA WorkerKeepsUsage ==
    ASSUME LedgerInv, UsageInv, ~UnreportedIsZero, NEW n \in Nodes,
           \/ Invoke(n) \/ GiveUp(n) \/ Stop(n)
           \/ \E u \in Usages : \E reported \in Reports(u) : Served(n, u, reported)
           \/ \E u \in Usages, fallback \in BOOLEAN : Failed(n, u, fallback)
    PROVE  UsageInv'
<1>1. StoreInv /\ CallInv
  BY DEF LedgerInv
<1>2. CASE Invoke(n)
  BY <1>2, StartKeepsUsage DEF Invoke, hubVars
<1>3. CASE GiveUp(n) \/ Stop(n)
  <2>1. requests' = requests /\ spent' = spent /\ rows' = rows
    BY <1>3 DEF GiveUp, Stop, hubVars
  <2> QED BY <2>1, UsageKept
<1>4. ASSUME NEW u \in Usages, NEW reported \in Reports(u), Served(n, u, reported)
      PROVE  UsageInv'
  <2>1. worker[n].at = "calling" /\ Sent(n, u) /\ rows' = rows
    BY <1>4 DEF Served, hubVars
  <2>2. /\ DOMAIN spent' = DOMAIN spent \cup {CallOf(n)} /\ spent'[CallOf(n)].usage = u
        /\ \A c \in DOMAIN spent : spent'[c] = spent[c]
    BY <1>1, <2>1, SentTyped
  <2>3. CASE reported = None
    <3>1. requests' = requests
      BY <1>4, <2>3 DEF Served
    <3> QED BY <2>1, <2>2, <3>1, UsageKept
  <2>4. CASE reported # None
    <3>1. PICK new : /\ new = Request(CallOf(n), "reconcile", worker[n].profile, reported)
                     /\ requests' = requests \cup {new}
      BY <1>4, <2>4 DEF Served
    <3>2. new.call = CallOf(n) /\ new.actual = reported
      BY <3>1, RequestTyped
    <3>3. reported = u
      BY <2>4 DEF Reports
    <3> QED BY <2>1, <2>2, <3>1, <3>2, <3>3, UsageKept
  <2> QED BY <2>3, <2>4
<1>5. ASSUME NEW u \in Usages, NEW fallback \in BOOLEAN, Failed(n, u, fallback)
      PROVE  UsageInv'
  <2>1. worker[n].at = "calling" /\ Sent(n, u) /\ rows' = rows
    BY <1>5 DEF Failed, hubVars
  <2>2. \A c \in DOMAIN spent : c \in DOMAIN spent' /\ spent'[c] = spent[c]
    BY <1>1, <2>1, SentTyped
  <2>3. \/ requests' = requests
        \/ \E profile, failed : StartCall(n, profile, failed)
    BY <1>5 DEF Failed
  <2>4. CASE requests' = requests
    BY <2>1, <2>2, <2>4, UsageKept
  <2>5. CASE \E profile, failed : StartCall(n, profile, failed)
    BY <2>1, <2>2, <2>5, StartKeepsUsage
  <2> QED BY <2>3, <2>4, <2>5
<1> QED BY <1>2, <1>3, <1>4, <1>5

LEMMA HubKeepsUsage ==
    ASSUME LedgerInv, UsageInv, NEW r \in requests,
           \/ ReadReservations(r) \/ ReadBudgets(r) \/ Refuse(r)
           \/ Commit(r) \/ Conflict(r) \/ Redeliver(r)
    PROVE  UsageInv'
<1>1. StoreInv /\ CallInv
  BY DEF LedgerInv
<1>2. RequestInv(r)
  BY <1>1 DEF CallInv
<1>3. spent' = spent
  BY DEF ReadReservations, ReadBudgets, Refuse, Commit, Conflict, Redeliver
<1>4. ASSUME NEW new, new.op = r.op, new.call = r.call, new.actual = r.actual,
             requests' \subseteq requests \cup {new}, rows' = rows
      PROVE  UsageInv'
  <2>1. \A q \in requests' : \E o \in requests : q.op = o.op /\ q.call = o.call /\ q.actual = o.actual
    BY <1>4
  <2> QED BY <1>3, <1>4, <2>1, UsageKept
<1>5. CASE ReadReservations(r)
  <2>1. PICK seen : requests' = (requests \ {r}) \cup {[r EXCEPT !.at = "budgets", !.seen = seen]}
    BY <1>5 DEF ReadReservations, Advance
  <2>2. PICK new : new = [r EXCEPT !.at = "budgets", !.seen = seen]
    OBVIOUS
  <2>3. new.call = r.call /\ new.op = r.op /\ new.actual = r.actual
    BY <1>2, <2>2 DEF RequestInv, RequestFields
  <2> QED BY <1>4, <1>5, <2>1, <2>2, <2>3 DEF ReadReservations, hubVars
<1>6. CASE ReadBudgets(r)
  <2>1. PICK read : requests' = (requests \ {r}) \cup {[r EXCEPT !.at = "write", !.read = read]}
    BY <1>6 DEF ReadBudgets, Advance
  <2>2. PICK new : new = [r EXCEPT !.at = "write", !.read = read]
    OBVIOUS
  <2>3. new.call = r.call /\ new.op = r.op /\ new.actual = r.actual
    BY <1>2, <2>2 DEF RequestInv, RequestFields
  <2> QED BY <1>4, <1>6, <2>1, <2>2, <2>3 DEF ReadBudgets, hubVars
<1>7. CASE Refuse(r)
  BY <1>4, <1>7 DEF Refuse, hubVars
<1>8. CASE Conflict(r)
  <2>1. CASE r.tries < Tries
    <3>1. PICK tries : tries = r.tries + 1
      OBVIOUS
    <3>2. PICK new : new = [r EXCEPT !.at = "reservations", !.seen = None,
                                     !.read = None, !.tries = tries]
      OBVIOUS
    <3>3. requests' = (requests \ {r}) \cup {new}
      BY <1>2, <1>8, <2>1, <3>1, <3>2 DEF Conflict, Advance, RequestInv, RequestFields
    <3>4. new.call = r.call /\ new.op = r.op /\ new.actual = r.actual
      BY <1>2, <3>2 DEF RequestInv, RequestFields
    <3> QED BY <1>4, <1>8, <3>3, <3>4 DEF Conflict, hubVars
  <2>2. CASE ~(r.tries < Tries)
    BY <1>4, <1>8, <2>2 DEF Conflict, hubVars
  <2> QED BY <2>1, <2>2
<1>9. CASE Redeliver(r)
  <2>1. PICK fresh : fresh = Request(r.call, r.op, r.profile, r.actual)
    OBVIOUS
  <2>2. PICK new : new = [fresh EXCEPT !.copy = 2]
    OBVIOUS
  <2>3. DOMAIN fresh = RequestFields /\ fresh.call = r.call /\ fresh.op = r.op
        /\ fresh.actual = r.actual
    BY <2>1, RequestTyped
  <2>4. new.call = r.call /\ new.op = r.op /\ new.actual = r.actual
    BY <2>2, <2>3 DEF RequestFields
  <2>5. requests' = requests \cup {new}
    BY <1>9, <2>1, <2>2 DEF Redeliver
  <2> QED BY <1>4, <1>9, <2>4, <2>5 DEF Redeliver, hubVars
<1>10. CASE Commit(r)
  <2>1. requests' \subseteq requests
    BY <1>10 DEF Commit
  <2>2. r.call \in Calls /\ r.profile \in Profiles /\ Run \in ScopesOf(r.call)
    BY <1>2 DEF RequestInv, ScopesOf
  <2>3. CASE r.op = "reserve"
    <3>1. ReserveCommits(r) /\ WriteReservation(r)
      BY <1>10, <2>3 DEF Commit
    <3>2. ReservationAdded(r)
      BY <1>1, <2>2, <3>1, ReservationWritten DEF ReserveCommits
    <3>3. \A c \in DOMAIN rows'[Run] :
             \/ c \in DOMAIN rows[Run] /\ rows'[Run][c] = rows[Run][c]
             \/ rows'[Run][c].reconciled = FALSE
      BY <2>2, <3>2 DEF ReservationAdded
    <3> QED BY <1>3, <2>1, <3>3, UsageKept
  <2>4. CASE r.op = "reconcile"
    <3>1. ReconcileCommits(r) /\ WriteReconciliation(r) /\ Decision(r) = "write"
      BY <1>10, <2>4 DEF Commit
    <3>2. r.actual \in Nat /\ r.seen # None
      BY <1>2, <2>4, <3>1 DEF RequestInv, Decision, ReconcileDecision
    <3>3. /\ r.call \in DOMAIN rows[Run] /\ r.seen.reserved = Reserve.tokens
          /\ ~rows[Run][r.call].reconciled
      BY <1>2, <3>1, <3>2 DEF RequestInv, ReconcileCommits
    <3>4. ReservationSettled(r)
      BY <1>1, <2>2, <3>1, <3>2, <3>3, ReconciliationWritten
    <3>5. r.call \in DOMAIN spent /\ r.actual = spent[r.call].usage
      BY <2>4 DEF UsageInv
    <3>6. /\ DOMAIN rows'[Run] = DOMAIN rows[Run] /\ rows'[Run][r.call].actual = r.actual
          /\ \A c \in DOMAIN rows[Run] \ {r.call} : rows'[Run][c] = rows[Run][c]
      BY <2>2, <3>4 DEF ReservationSettled
    <3> QED BY <1>3, <2>1, <3>5, <3>6, UsageKept
  <2> QED BY <1>2, <2>3, <2>4 DEF RequestInv
<1> QED BY <1>5, <1>6, <1>7, <1>8, <1>9, <1>10

\* A reservation covers what its call used, up to what was reserved.
LEMMA UsageIsCharged == LedgerInv /\ UsageInv => SpendIsCharged
<1> SUFFICES ASSUME StoreInv, CallInv, UsageInv, NEW n \in Nodes
             PROVE  LET calls == {c \in DOMAIN spent : c[1] = n}
                        really == [c \in calls |-> Min({spent[c].usage, Reserve.tokens})]
                        charged == [c \in calls |-> Charge(rows[n][c])]
                    IN  /\ calls \subseteq DOMAIN rows[n] \cap DOMAIN rows[Run]
                        /\ Total(really) <= Total(charged)
  BY DEF LedgerInv, SpendIsCharged
<1> DEFINE calls == {c \in DOMAIN spent : c[1] = n}
<1> DEFINE really == [c \in calls |-> Min({spent[c].usage, Reserve.tokens})]
<1> DEFINE charged == [c \in calls |-> Charge(rows[n][c])]
<1>1. n \in Scopes /\ Reserve.tokens \in Nat
  BY ReserveTyped DEF Scopes
<1>2. calls \subseteq DOMAIN rows[n] \cap DOMAIN rows[Run]
  BY DEF CallInv, StoreInv
<1>3. IsFiniteSet(calls)
  <2>1. IsFiniteSet(DOMAIN rows[n])
    BY <1>1 DEF StoreInv
  <2> HIDE DEF calls
  <2> QED BY <1>2, <2>1, FS_Subset
<1>4. ASSUME NEW c \in calls
      PROVE  charged[c] \in Nat /\ really[c] \in Nat /\ really[c] <= charged[c]
  <2>1. /\ rows[n][c] = rows[Run][c] /\ rows[n][c].reserved = Reserve.tokens
        /\ rows[n][c].reconciled \in BOOLEAN
        /\ rows[n][c].reconciled => rows[n][c].actual \in Nat
    BY <1>1, <1>2, RowsTyped
  <2>2. PICK usage \in Nat : usage = spent[c].usage
    BY DEF CallInv
  <2>3. really[c] = IF usage <= Reserve.tokens THEN usage ELSE Reserve.tokens
    BY <1>1, <2>2, MinOfPair
  <2>4. rows[n][c].reconciled => rows[n][c].actual = usage
    BY <1>2, <2>1, <2>2 DEF UsageInv
  <2>5. charged[c] = Charge(rows[n][c])
    OBVIOUS
  <2> HIDE DEF really, charged, calls
  <2> QED BY <1>1, <2>1, <2>3, <2>4, <2>5 DEF Charge
<1>5. charged \in [calls -> Nat] /\ DOMAIN really = calls
  <2> HIDE DEF calls
  <2>1. \A c \in calls : Charge(rows[n][c]) \in Nat
    BY <1>4
  <2> QED BY <2>1
<1>6. Total(really) <= Total(charged)
  <2> HIDE DEF calls, really, charged
  <2> QED BY <1>3, <1>4, <1>5, TotalMonotone
<1> QED BY <1>2, <1>6

\* Where a missing usage counter is told apart from zero, everything that
\* providers used up to the reservation is charged to the run and to the step
\* attempt (SpendIsCharged), whichever answer, request or worker is lost.
THEOREM SpendingCharged ==
    ASSUME ~UnreportedIsZero
    PROVE  Spec => []SpendIsCharged
<1>1. Init => UsageInv
  <2> SUFFICES ASSUME Init  PROVE UsageInv
    OBVIOUS
  <2>1. requests = {} /\ Run \in Scopes
    BY DEF Init, Scopes
  <2>2. DOMAIN rows[Run] = {}
    BY <2>1 DEF Init
  <2> QED BY <2>1, <2>2 DEF UsageInv
<1>2. LedgerInv /\ UsageInv /\ [Next]_vars => UsageInv'
  <2> SUFFICES ASSUME LedgerInv, UsageInv, [Next]_vars  PROVE UsageInv'
    OBVIOUS
  <2>1. ASSUME NEW n \in Nodes,
               \/ Invoke(n) \/ GiveUp(n) \/ Stop(n)
               \/ \E u \in Usages : \E reported \in Reports(u) : Served(n, u, reported)
               \/ \E u \in Usages, fallback \in BOOLEAN : Failed(n, u, fallback)
        PROVE  UsageInv'
    BY <2>1, WorkerKeepsUsage
  <2>2. ASSUME NEW r \in requests,
               \/ ReadReservations(r) \/ ReadBudgets(r) \/ Refuse(r)
               \/ Commit(r) \/ Conflict(r) \/ Redeliver(r)
        PROVE  UsageInv'
    BY <2>2, HubKeepsUsage
  <2>3. CASE UNCHANGED vars
    BY <2>3 DEF vars, UsageInv
  <2> QED BY <2>1, <2>2, <2>3 DEF Next
<1>3. LedgerInv /\ UsageInv => SpendIsCharged
  BY UsageIsCharged
<1> QED BY <1>1, <1>2, <1>3, LedgerInvariant, PTL DEF Spec

=============================================================================
