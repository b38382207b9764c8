------------------------ MODULE PatternDatabase_proofs ------------------------
(***************************************************************************)
(* Proofs about the state registry, projections and pattern databases, for *)
(* all tasks: the ids of a registered search are the states it reached,    *)
(* with sound paths and the rows that are promised; every step of a task   *)
(* is one of its projection; and the estimates of a pattern database are   *)
(* never above the goal distance.                                          *)
(*                                                                         *)
(* First what operators do to states: an effect reads nothing but what     *)
(* identifies a state, the row of a cost variable only adds up.  Then the  *)
(* registry, whose states differ; the search, which is right as long as    *)
(* every node says how its state was reached; the projection of states and *)
(* steps; the exploration, which knows for each registered state why it    *)
(* was not expanded; and the backward search, whose values are final once  *)
(* they leave the queue.                                                   *)
(***************************************************************************)
EXTENDS PatternProperties, FiniteSetTheorems, WellFoundedInduction, TLAPS

-----------------------------------------------------------------------------
(* Numbers, finite sets and recursion over them *)

\* Every set of natural numbers but the empty one has a least element.
LEMMA LeastNatural ==
    ASSUME NEW S \in SUBSET Nat, S # {}
    PROVE  /\ Min(S) \in S
           /\ \A n \in S : Min(S) <= n
<1>1. \E m \in S : \A n \in S : ~(<<n, m>> \in OpToRel(<, Nat))
    BY WFMin, NatLessThanWellFounded
<1>2. \A m, n \in S : ~(<<n, m>> \in OpToRel(<, Nat)) => m <= n
    BY DEF OpToRel
<1>3. \E m \in S : \A n \in S : m <= n
    BY <1>1, <1>2
<1> QED BY <1>3 DEF Min

\* A set that has 0 and the successors of the natural numbers in it has them all.
LEMMA Counting ==
    ASSUME NEW T, 0 \in T, \A n \in Nat : n \in T => n + 1 \in T
    PROVE  \A n \in Nat : n \in T
<1> DEFINE S == {n \in Nat : n \notin T}
<1> SUFFICES ASSUME S # {} PROVE FALSE
    OBVIOUS
<1>1. Min(S) \in S /\ \A n \in S : Min(S) <= n
    BY LeastNatural
<1>2. PICK m \in S : \A n \in S : m <= n
    BY <1>1
<1>3. m # 0 /\ m - 1 \in Nat /\ ~ (m <= m - 1) /\ m = (m - 1) + 1
    BY <1>2
<1> QED BY <1>2, <1>3

\* A finite set of natural numbers is bounded.
LEMMA FiniteSetsAreBounded ==
    ASSUME NEW S \in SUBSET Nat, IsFiniteSet(S)
    PROVE  \E m \in Nat : \A n \in S : n <= m
<1> DEFINE N == Cardinality(S)
<1>1. PICK f \in Bijection(1..N, S) : TRUE
    BY FS_CardinalityType DEF ExistsBijection
<1>2. N \in Nat
    BY FS_CardinalityType
<1>3. f \in [1..N -> Nat]
    BY <1>1 DEF Bijection, Injection
<1> HIDE DEF N
<1> DEFINE T == {n \in Nat : \E m \in Nat : \A k \in 1..N : k <= n => f[k] <= m}
<1>4. 0 \in T
  <2>1. \A k \in 1..N : ~ (k <= 0)
      BY <1>2
  <2>. QED BY <2>1
<1>5. ASSUME NEW n \in Nat, n \in T PROVE n + 1 \in T
  <2>1. PICK m \in Nat : \A k \in 1..N : k <= n => f[k] <= m
      BY <1>5
  <2>2. \A k \in 1..N : k <= n + 1 => k <= n \/ k = n + 1
      BY <1>2
  <2>5. n + 1 \in Nat
      OBVIOUS
  <2>3. CASE n + 1 \notin 1..N
    <3>1. \A k \in 1..N : k <= n + 1 => f[k] <= m
        BY <2>1, <2>2, <2>3
    <3>. QED BY <2>5, <3>1
  <2>4. CASE n + 1 \in 1..N
    <3>1. f[n + 1] \in Nat
        BY <2>4, <1>3
    <3>2. m + f[n + 1] \in Nat
        BY <3>1
    <3>3. \A k \in 1..N : k <= n + 1 => f[k] <= m + f[n + 1]
      <4> SUFFICES ASSUME NEW k \in 1..N, k <= n + 1 PROVE f[k] <= m + f[n + 1]
          OBVIOUS
      <4>1. f[k] \in Nat /\ (f[k] <= m \/ k = n + 1)
          BY <2>1, <2>2, <1>3
      <4>. QED BY <3>1, <4>1
    <3>. QED BY <2>5, <3>2, <3>3
  <2>. QED BY <2>3, <2>4
<1>6. N \in T
  <2> HIDE DEF T
  <2>. QED BY <1>2, <1>4, <1>5, Counting
<1>7. PICK m \in Nat : \A k \in 1..N : k <= N => f[k] <= m
    BY <1>6
<1>8. \A k \in 1..N : k <= N
    BY <1>2
<1>9. \A x \in S : \E k \in 1..N : f[k] = x
    BY <1>1 DEF Bijection, Surjection, N
<1> QED BY <1>7, <1>8, <1>9

\* A finite set of natural numbers but the empty one has a largest element.
LEMMA LargestPosition ==
    ASSUME NEW S \in SUBSET Nat, IsFiniteSet(S), S # {}
    PROVE  /\ Max(S) \in S
           /\ \A n \in S : n <= Max(S)
<1>1. PICK m \in Nat : \A n \in S : n <= m
    BY FiniteSetsAreBounded
<1> DEFINE D == {m - x : x \in S}
<1>2. D \in SUBSET Nat /\ D # {}
  <2>1. \A x \in S : m - x \in Nat
      BY <1>1
  <2>2. PICK x \in S : TRUE
      OBVIOUS
  <2>3. m - x \in D
      BY <2>2
  <2>. QED BY <2>1, <2>3
<1>3. Min(D) \in D /\ \A n \in D : Min(D) <= n
    BY <1>2, LeastNatural
<1>4. PICK x \in S : Min(D) = m - x
    BY <1>3
<1>5. \A y \in S : m - x <= m - y
    BY <1>3, <1>4
<1>6. \A y \in S : x >= y
    BY <1>5
<1>7. \E z \in S : \A y \in S : z >= y
    BY <1>6
<1>8. Max(S) \in S /\ \A y \in S : Max(S) >= y
    BY <1>7 DEF Max
<1> QED BY <1>8

\* A function on the natural numbers can be defined by its first value and by each
\* value from the one before.
IsStep(step, S) == step \in [Nat \X S -> S]
IsRun(f, a, step, S) ==
    /\ f \in [Nat -> S]
    /\ f[0] = a
    /\ \A n \in Nat : f[n + 1] = step[<<n, f[n]>>]

LEMMA Recursion ==
    ASSUME NEW S, NEW a, a \in S, NEW step, IsStep(step, S)
    PROVE  \E f : IsRun(f, a, step, S)
<1> DEFINE Run(n, g) == /\ g \in [Nat -> S]
                        /\ g[0] = a
                        /\ \A k \in Nat : k < n => g[k + 1] = step[<<k, g[k]>>]
           T == {n \in Nat : \E g : Run(n, g)}
<1>1. 0 \in T
  <2>1. Run(0, [n \in Nat |-> a])
      OBVIOUS
  <2>. QED BY <2>1
<1>2. ASSUME NEW n \in Nat, n \in T PROVE n + 1 \in T
  <2>1. PICK g : Run(n, g)
      BY <1>2
  <2> DEFINE h == [k \in Nat |-> IF k <= n THEN g[k] ELSE step[<<n, g[n]>>]]
  <2>2. step[<<n, g[n]>>] \in S
      BY <2>1 DEF IsStep
  <2>3. h \in [Nat -> S] /\ h[0] = a
      BY <2>1, <2>2
  <2>4. ASSUME NEW k \in Nat, k < n + 1 PROVE h[k + 1] = step[<<k, h[k]>>]
    <3>1. CASE k = n
        BY <3>1
    <3>2. CASE k < n
      <4>1. k <= n /\ k + 1 <= n /\ k + 1 \in Nat
          BY <3>2
      <4>. QED BY <4>1, <3>2, <2>1
    <3>. QED BY <3>1, <3>2, <2>4
  <2>5. Run(n + 1, h)
      BY <2>3, <2>4
  <2>6. n + 1 \in Nat
      OBVIOUS
  <2> HIDE DEF Run, h
  <2>. QED BY <2>5, <2>6
<1>3. \A n \in Nat : \E g : Run(n, g)
  <2>1. \A n \in Nat : n \in T
    <3> HIDE DEF T
    <3>. QED BY <1>1, <1>2, Counting
  <2>. QED BY <2>1
<1>4. ASSUME NEW m \in Nat, NEW n \in Nat, m <= n, NEW g, NEW h, Run(m, g), Run(n, h)
      PROVE  g[m] = h[m]
  <2> DEFINE U == {k \in Nat : k <= m => g[k] = h[k]}
  <2>1. 0 \in U
      BY <1>4
  <2>2. ASSUME NEW k \in Nat, k \in U PROVE k + 1 \in U
    <3>1. CASE k + 1 <= m
      <4>1. k <= m /\ k < m /\ k < n
          BY <3>1, <1>4
      <4>2. g[k] = h[k]
          BY <4>1, <2>2
      <4>3. g[k + 1] = step[<<k, g[k]>>] /\ h[k + 1] = step[<<k, h[k]>>]
          BY <4>1, <1>4
      <4>. QED BY <4>2, <4>3
    <3>2. CASE ~ (k + 1 <= m)
        BY <3>2
    <3>. QED BY <3>1, <3>2
  <2>3. m \in U
    <3> HIDE DEF U
    <3>. QED BY <2>1, <2>2, Counting
  <2>. QED BY <2>3
<1> DEFINE R(n) == CHOOSE g : Run(n, g)
           f == [n \in Nat |-> R(n)[n]]
<1>5. \A n \in Nat : Run(n, R(n))
  <2> HIDE DEF Run
  <2>. QED BY <1>3
<1> HIDE DEF R
<1>6. f \in [Nat -> S] /\ f[0] = a
    BY <1>5
<1>7. ASSUME NEW n \in Nat PROVE f[n + 1] = step[<<n, f[n]>>]
  <2>1. n + 1 \in Nat /\ n < n + 1 /\ n <= n + 1
      OBVIOUS
  <2>2. Run(n + 1, R(n + 1)) /\ Run(n, R(n))
      BY <1>5, <2>1
  <2>3. R(n + 1)[n + 1] = step[<<n, R(n + 1)[n]>>]
      BY <2>1, <2>2
  <2>4. R(n)[n] = R(n + 1)[n]
    <3> HIDE DEF Run
    <3>. QED BY <1>4, <2>1, <2>2
  <2>. QED BY <2>1, <2>3, <2>4
<1>8. IsRun(f, a, step, S)
    BY <1>6, <1>7 DEF IsRun
<1> QED BY <1>8

\* A finite set can be listed; each of its lists has every element once.
LEMMA Lists ==
    ASSUME NEW S, IsFiniteSet(S)
    PROVE  /\ SetToSeq(S) \in SetToSeqs(S)
           /\ \A q \in SetToSeqs(S) :
                  /\ q \in [1..Cardinality(S) -> S] /\ Cardinality(S) \in Nat
                  /\ Len(q) = Cardinality(S) /\ DOMAIN q = 1..Len(q)
                  /\ \A x \in S : \E k \in DOMAIN q : q[k] = x
                  /\ \A j, k \in DOMAIN q : q[j] = q[k] => j = k
<1>1. PICK f \in Bijection(1..Cardinality(S), S) : TRUE
    BY FS_CardinalityType DEF ExistsBijection
<1>2. Cardinality(S) \in Nat
    BY FS_CardinalityType
<1>3. f \in [1..Cardinality(S) -> S] /\ IsInjective(f)
    BY <1>1 DEF Bijection, Injection
<1>4. SetToSeq(S) \in [1..Cardinality(S) -> S] /\ IsInjective(SetToSeq(S))
    BY <1>3 DEF SetToSeq
<1>5. SetToSeq(S) \in SetToSeqs(S)
    BY <1>4 DEF SetToSeqs, IsInjective
<1>6. ASSUME NEW q \in SetToSeqs(S)
      PROVE  /\ q \in [1..Cardinality(S) -> S] /\ Cardinality(S) \in Nat
             /\ Len(q) = Cardinality(S) /\ DOMAIN q = 1..Len(q)
             /\ \A x \in S : \E k \in DOMAIN q : q[k] = x
             /\ \A j, k \in DOMAIN q : q[j] = q[k] => j = k
  <2>1. q \in [1..Cardinality(S) -> S] /\ \A i, j \in 1..Cardinality(S) : i # j => q[i] # q[j]
      BY DEF SetToSeqs
  <2>2. q \in Injection(1..Cardinality(S), S)
      BY <2>1 DEF Injection, IsInjective
  <2>3. Cardinality(1..Cardinality(S)) = Cardinality(S)
      BY <1>2, FS_Interval
  <2>4. q \in Surjection(1..Cardinality(S), S)
      BY <2>2, <2>3, FS_Injection
  <2>5. q \in Seq(S) /\ Len(q) = Cardinality(S)
      BY <2>1, <1>2
  <2>. QED BY <2>1, <2>4, <2>5, <1>2 DEF Surjection
<1> QED BY <1>5, <1>6

-----------------------------------------------------------------------------
(* Effects on values *)

IsValued(t, s) == s \in [DOMAIN t.init -> Int]
\* Values that differ in rows at most.
Alike(t, a, b) == \A v \in DOMAIN t.init \ OfType(t, "cost") : a[v] = b[v]

AreChanges(changes) ==
    /\ IsFiniteSet(DOMAIN changes)
    /\ DOMAIN changes \subseteq Nat \ {0}
    /\ \A k \in DOMAIN changes : changes[k].operation \in {"assign", "plus", "minus"} /\ changes[k].operand \in Int
Adds(changes) == \A k \in DOMAIN changes : changes[k].operation # "assign"

LEMMA TaskFacts ==
    ASSUME NEW t, IsTask(t)
    PROVE  /\ DOMAIN t.init = t.variables \cup Numbers(t)
           /\ t.variables \cap Numbers(t) = {}
           /\ Conditions(t) \subseteq t.variables
           /\ IsValued(t, t.init)
           /\ \A v \in Numbers(t) : v \in OfType(t, "regular") \/ v \in OfType(t, "cost") \/ v \in OfType(t, "constant")
           /\ \A type : OfType(t, type) \subseteq Numbers(t)
           /\ \A type \in {"regular", "cost", "constant"} : \A v \in OfType(t, type) : t.types[v] = type
           /\ \A c \in Conditions(t) : /\ t.conditions[c].left \in Numbers(t) \ OfType(t, "cost")
                                       /\ t.conditions[c].right \in Numbers(t) \ OfType(t, "cost")
<1>1. DOMAIN t.init = t.variables \cup Numbers(t) /\ IsValued(t, t.init)
    BY DEF IsTask, IsValued
<1>2. \A c \in Conditions(t) : /\ t.conditions[c].left \in Numbers(t) \ OfType(t, "cost")
                               /\ t.conditions[c].right \in Numbers(t) \ OfType(t, "cost")
    BY DEF IsTask, Operands
<1> QED BY <1>1, <1>2 DEF IsTask, OfType

\* Accumulated changes of integers are integers; without an assignment they add up.
LEMMA Accumulation ==
    ASSUME NEW changes, AreChanges(changes), NEW start \in Int
    PROVE  /\ Accumulated(changes, start) \in Int
           /\ DOMAIN changes = {} => Accumulated(changes, start) = start
           /\ Adds(changes) => Accumulated(changes, start) = start + Accumulated(changes, 0)
<1> DEFINE Next1(k, before) ==
               IF k \in DOMAIN changes THEN Operation(changes[k].operation, before, changes[k].operand)
               ELSE before
           Run(x, first) == x = [k \in Nat |-> IF k = 0 THEN first ELSE
               IF k \in DOMAIN changes THEN Operation(changes[k].operation, x[k - 1], changes[k].operand)
               ELSE x[k - 1]]
           last == Max({0} \cup DOMAIN changes)
<1>1. \A k \in DOMAIN changes : \A b \in Int :
          /\ Operation(changes[k].operation, b, changes[k].operand) \in Int
          /\ Adds(changes) => \A c \in Int : Operation(changes[k].operation, c + b, changes[k].operand)
                                           = c + Operation(changes[k].operation, b, changes[k].operand)
    BY DEF AreChanges, Operation, Adds
<1>2. ASSUME NEW first \in Int
      PROVE  \E x : Run(x, first)
  <2> DEFINE step == [e \in Nat \X Int |-> Next1(e[1] + 1, e[2])]
  <2>1. IsStep(step, Int)
      BY <1>1 DEF IsStep
  <2>2. PICK f : /\ f \in [Nat -> Int]
                 /\ f[0] = first
                 /\ \A n \in Nat : f[n + 1] = step[<<n, f[n]>>]
    <3> HIDE DEF step
    <3>1. PICK f : IsRun(f, first, step, Int)
        BY <2>1, Recursion, <1>2
    <3>. QED BY <3>1 DEF IsRun
  <2>3. ASSUME NEW k \in Nat, k # 0
        PROVE  f[k] = Next1(k, f[k - 1])
    <3>1. k - 1 \in Nat /\ (k - 1) + 1 = k
        BY <2>3
    <3>2. f[k] = step[<<k - 1, f[k - 1]>>] /\ f[k - 1] \in Int
        BY <3>1, <2>2
    <3>. QED BY <3>1, <3>2
  <2>4. Run(f, first)
      BY <2>2, <2>3
  <2>. QED BY <2>4
<1>3. ASSUME NEW first \in Int, NEW x, Run(x, first)
      PROVE  \A n \in Nat : x[n] \in Int
  <2> DEFINE T == {n \in Nat : x[n] \in Int}
  <2>1. 0 \in T
      BY <1>3
  <2>2. ASSUME NEW n \in Nat, n \in T PROVE n + 1 \in T
    <3>1. n + 1 \in Nat /\ n + 1 # 0 /\ (n + 1) - 1 = n
        OBVIOUS
    <3>2. x[n + 1] = Next1(n + 1, x[n])
        BY <1>3, <3>1
    <3>. QED BY <3>1, <3>2, <1>1, <2>2
  <2>3. \A n \in Nat : n \in T
    <3> HIDE DEF T
    <3>. QED BY <2>1, <2>2, Counting
  <2>. QED BY <2>3
<1>4. ASSUME NEW x, NEW y, Run(x, start), Run(y, 0), Adds(changes)
      PROVE  \A n \in Nat : x[n] = start + y[n]
  <2> DEFINE T == {n \in Nat : x[n] = start + y[n]}
  <2>0. \A n \in Nat : x[n] \in Int /\ y[n] \in Int
      BY <1>3, <1>4
  <2>1. 0 \in T
      BY <1>4
  <2>2. ASSUME NEW n \in Nat, n \in T PROVE n + 1 \in T
    <3>1. n + 1 \in Nat /\ n + 1 # 0 /\ (n + 1) - 1 = n
        OBVIOUS
    <3>2. x[n + 1] = Next1(n + 1, x[n]) /\ y[n + 1] = Next1(n + 1, y[n])
        BY <1>4, <3>1
    <3>3. x[n] = start + y[n] /\ x[n] \in Int /\ y[n] \in Int
        BY <2>0, <2>2
    <3>4. CASE n + 1 \in DOMAIN changes
      <4>1. Operation(changes[n + 1].operation, start + y[n], changes[n + 1].operand)
              = start + Operation(changes[n + 1].operation, y[n], changes[n + 1].operand)
          BY <3>3, <3>4, <1>1, <1>4
      <4>. QED BY <3>1, <3>2, <3>3, <3>4, <4>1
    <3>5. CASE n + 1 \notin DOMAIN changes
        BY <3>1, <3>2, <3>3, <3>5
    <3>. QED BY <3>4, <3>5
  <2>3. \A n \in Nat : n \in T
    <3> HIDE DEF T
    <3>. QED BY <2>1, <2>2, Counting
  <2>. QED BY <2>3
<1> DEFINE X(first) == CHOOSE x : Run(x, first)
<1>5. Run(X(start), start) /\ Run(X(0), 0)
  <2> HIDE DEF Run
  <2>. QED BY <1>2
<1>6. last \in Nat
  <2>1. IsFiniteSet({0} \cup DOMAIN changes)
      BY FS_Singleton, FS_Union DEF AreChanges
  <2>. QED BY <2>1, LargestPosition DEF AreChanges
<1>7. Accumulated(changes, start) = X(start)[last] /\ Accumulated(changes, 0) = X(0)[last]
    BY DEF Accumulated
<1> HIDE DEF X
<1>8. DOMAIN changes = {} => Accumulated(changes, start) = start
  <2>1. DOMAIN changes = {} => last = 0
    <3> SUFFICES ASSUME DOMAIN changes = {} PROVE last = 0
        OBVIOUS
    <3>1. {0} \cup DOMAIN changes = {0}
        OBVIOUS
    <3>2. Max({0}) \in {0}
      <4>1. {0} \in SUBSET Nat /\ {0} # {}
          OBVIOUS
      <4>2. IsFiniteSet({0})
          BY FS_Singleton, Zenon
      <4>. QED BY <4>1, <4>2, LargestPosition
    <3>. QED BY <3>1, <3>2
  <2>. QED BY <2>1, <1>5, <1>7
<1> HIDE DEF Run, last
<1> QED BY <1>3, <1>4, <1>5, <1>6, <1>7, <1>8

\* The effects that apply are those that apply to like values.
LEMMA LikeEffects ==
    ASSUME NEW t, IsTask(t), NEW a, NEW b, Alike(t, a, b)
    PROVE  /\ \A facts : FactsOn(t.variables, facts) => (HoldsAll(facts, a) <=> HoldsAll(facts, b))
           /\ \A effects, v, fields : IsEffectList(t, effects, fields) => On(effects, v, a) = On(effects, v, b)
<1>1. \A v \in t.variables : a[v] = b[v]
    BY TaskFacts DEF Alike
<1>2. \A facts : FactsOn(t.variables, facts) => (HoldsAll(facts, a) <=> HoldsAll(facts, b))
    BY <1>1 DEF FactsOn, HoldsAll
<1>3. ASSUME NEW effects, NEW v, NEW fields, IsEffectList(t, effects, fields)
      PROVE  On(effects, v, a) = On(effects, v, b)
  <2>1. \A k \in DOMAIN effects : HoldsAll(effects[k].when, a) <=> HoldsAll(effects[k].when, b)
      BY <1>2, <1>3 DEF IsEffectList
  <2>. QED BY <2>1 DEF On
<1> QED BY <1>2, <1>3

\* The effects on a variable that apply are finitely many positions, and so are the
\* changes that they make.
LEMMA ChangesFacts ==
    ASSUME NEW t, IsTask(t), NEW o \in DOMAIN t.operators, NEW s, IsValued(t, s), NEW v
    PROVE  /\ AreChanges(Changes(t.operators[o].assignments, v, s))
           /\ v \notin Numbers(t) \ OfType(t, "constant") =>
                  DOMAIN Changes(t.operators[o].assignments, v, s) = {}
           /\ DOMAIN Changes(t.operators[o].assignments, v, s) = On(t.operators[o].assignments, v, s)
<1> DEFINE ass == t.operators[o].assignments
           ch == Changes(ass, v, s)
<1>1. IsOperator(t, t.operators[o])
    BY DEF IsTask
<1>2. IsFiniteSet(On(ass, v, s))
  <2>1. On(ass, v, s) \in SUBSET DOMAIN ass
      BY DEF On
  <2>2. IsFiniteSet(DOMAIN ass)
      BY <1>1 DEF IsOperator, IsEffectList
  <2>. QED BY <2>1, <2>2, FS_Subset
<1>3. On(ass, v, s) \subseteq Nat \ {0}
    BY <1>1 DEF IsOperator, IsEffectList, On
<1>4. \A k \in On(ass, v, s) : /\ ass[k].operation \in {"assign", "plus", "minus"}
                               /\ ass[k].source \in DOMAIN t.init
                               /\ ass[k].var = v /\ v \in Numbers(t) \ OfType(t, "constant")
  <2>1. \A k \in On(ass, v, s) : k \in DOMAIN ass /\ ass[k].var = v
      BY DEF On
  <2>2. \A k \in DOMAIN ass : /\ ass[k].operation \in {"assign", "plus", "minus"}
                              /\ ass[k].source \in Numbers(t)
                              /\ ass[k].var \in Numbers(t) \ OfType(t, "constant")
      BY <1>1 DEF IsOperator
  <2>3. Numbers(t) \subseteq DOMAIN t.init
      BY TaskFacts
  <2> HIDE DEF ass
  <2>. QED BY <2>1, <2>2, <2>3
<1>5. DOMAIN ch = On(ass, v, s)
    BY DEF Changes
<1>6. \A k \in DOMAIN ch : ch[k].operation \in {"assign", "plus", "minus"} /\ ch[k].operand \in Int
    BY <1>4 DEF Changes, IsValued
<1>7. AreChanges(ch)
    BY <1>2, <1>3, <1>5, <1>6 DEF AreChanges
<1> QED BY <1>4, <1>5, <1>7

\* The values that o yields, before its conditions are evaluated.
Raw(t, o, s) == Computed(t.operators[o], s, Assigned(t.operators[o], s))

LEMMA AssignedFacts ==
    ASSUME NEW t, IsTask(t), NEW o \in DOMAIN t.operators, NEW s, IsValued(t, s)
    PROVE  LET next == Assigned(t.operators[o], s)
           IN  /\ IsValued(t, next)
               /\ \A v \in Numbers(t) : next[v] = s[v]
<1> DEFINE op == t.operators[o]
           next == Assigned(op, s)
<1>1. IsOperator(t, op)
    BY DEF IsTask
<1>2. \A v : On(op.effects, v, s) \in SUBSET DOMAIN op.effects
    BY DEF On
<1>3. ASSUME NEW v, On(op.effects, v, s) # {}
      PROVE  Max(On(op.effects, v, s)) \in DOMAIN op.effects
  <2>1. IsFiniteSet(On(op.effects, v, s))
      BY <1>1, <1>2, FS_Subset DEF IsOperator, IsEffectList
  <2>2. On(op.effects, v, s) \in SUBSET Nat
      BY <1>1, <1>2 DEF IsOperator, IsEffectList
  <2>3. Max(On(op.effects, v, s)) \in On(op.effects, v, s)
      BY <1>3, <2>1, <2>2, LargestPosition
  <2>. QED BY <1>2, <2>3
<1>4. DOMAIN s = DOMAIN t.init /\ \A v \in DOMAIN s : s[v] \in Int
    BY DEF IsValued
<1>5. \A v \in DOMAIN s : next[v] \in Int
    BY <1>1, <1>3, <1>4 DEF Assigned, IsOperator
<1>6. IsValued(t, next)
    BY <1>4, <1>5 DEF IsValued, Assigned
<1>7. \A v \in Numbers(t) : On(op.effects, v, s) = {}
    BY <1>1, TaskFacts DEF IsOperator, On
<1>8. \A v \in Numbers(t) : next[v] = s[v]
    BY <1>4, <1>7, TaskFacts DEF Assigned
<1> QED BY <1>6, <1>8

LEMMA RawFacts ==
    ASSUME NEW t, IsTask(t), NEW o \in DOMAIN t.operators, NEW s, IsValued(t, s)
    PROVE  /\ IsValued(t, Raw(t, o, s))
           /\ \A v \in DOMAIN t.init \ Numbers(t) : Raw(t, o, s)[v] = Assigned(t.operators[o], s)[v]
           /\ \A v \in Numbers(t) :
                  /\ Raw(t, o, s)[v] = Accumulated(Changes(t.operators[o].assignments, v, s), s[v])
                  /\ On(t.operators[o].assignments, v, s) = {} => Raw(t, o, s)[v] = s[v]
           /\ \A v \in OfType(t, "constant") : Raw(t, o, s)[v] = s[v]
<1> DEFINE op == t.operators[o]
           next == Assigned(op, s)
           raw == Raw(t, o, s)
           ch(v) == Changes(op.assignments, v, s)
<1>1. IsValued(t, next) /\ \A v \in Numbers(t) : next[v] = s[v]
    BY AssignedFacts
<1> HIDE DEF next
<1>2. raw = [v \in DOMAIN next |-> Accumulated(ch(v), next[v])]
    BY DEF Raw, Computed, next
<1>3. \A v : AreChanges(ch(v)) /\ (v \notin Numbers(t) \ OfType(t, "constant") => DOMAIN ch(v) = {})
    BY ChangesFacts
<1>4. \A v \in DOMAIN t.init : raw[v] = Accumulated(ch(v), next[v]) /\ next[v] \in Int
    BY <1>1, <1>2 DEF IsValued
<1>5. \A v \in DOMAIN t.init : raw[v] \in Int /\ (DOMAIN ch(v) = {} => raw[v] = next[v])
  <2> HIDE DEF raw, ch
  <2>. QED BY <1>3, <1>4, Accumulation
<1>6. IsValued(t, raw)
    BY <1>1, <1>2, <1>5 DEF IsValued
<1>7. Numbers(t) \subseteq DOMAIN t.init /\ OfType(t, "constant") \subseteq Numbers(t)
    BY TaskFacts
<1>8. \A v : DOMAIN ch(v) = On(op.assignments, v, s)
    BY ChangesFacts
<1> HIDE DEF raw, ch
<1>9. \A v \in DOMAIN t.init \ Numbers(t) : raw[v] = next[v]
    BY <1>3, <1>5
<1>10. \A v \in Numbers(t) : /\ raw[v] = Accumulated(ch(v), s[v])
                             /\ On(op.assignments, v, s) = {} => raw[v] = s[v]
    BY <1>1, <1>4, <1>5, <1>7, <1>8
<1>11. \A v \in OfType(t, "constant") : raw[v] = s[v]
    BY <1>1, <1>3, <1>5, <1>7
<1> QED BY <1>6, <1>9, <1>10, <1>11 DEF raw, ch, next

OnlyAddsTo(t, o, v) ==
    \A k \in DOMAIN t.operators[o].assignments :
        t.operators[o].assignments[k].var = v => t.operators[o].assignments[k].operation # "assign"

\* An operator does the same to like values; to a number that it only adds to, whatever its value.
LEMMA LikeRaw ==
    ASSUME NEW t, IsTask(t), NEW o \in DOMAIN t.operators,
           NEW a, NEW b, IsValued(t, a), IsValued(t, b), Alike(t, a, b)
    PROVE  /\ Alike(t, Raw(t, o, a), Raw(t, o, b))
           /\ \A v \in Numbers(t) :
                  OnlyAddsTo(t, o, v) => Raw(t, o, a)[v] - a[v] = Raw(t, o, b)[v] - b[v]
<1> DEFINE op == t.operators[o]
           ass == op.assignments
<1>1. IsOperator(t, op)
    BY DEF IsTask
<1>2. \A v : On(ass, v, a) = On(ass, v, b) /\ On(op.effects, v, a) = On(op.effects, v, b)
    BY <1>1, LikeEffects DEF IsOperator
<1>3. \A v : Changes(ass, v, a) = Changes(ass, v, b)
  <2> SUFFICES ASSUME NEW v PROVE Changes(ass, v, a) = Changes(ass, v, b)
      OBVIOUS
  <2>1. \A k \in On(ass, v, a) : ass[k].source \in DOMAIN t.init \ OfType(t, "cost")
      BY <1>1, TaskFacts DEF IsOperator, On
  <2>2. \A k \in On(ass, v, a) : a[ass[k].source] = b[ass[k].source]
      BY <2>1 DEF Alike
  <2>. QED BY <1>2, <2>2 DEF Changes
<1>4. \A v \in DOMAIN t.init \ Numbers(t) : Assigned(op, a)[v] = Assigned(op, b)[v]
  <2>1. \A v \in DOMAIN t.init \ Numbers(t) : a[v] = b[v]
      BY TaskFacts DEF Alike
  <2>2. DOMAIN a = DOMAIN t.init /\ DOMAIN b = DOMAIN t.init
      BY DEF IsValued
  <2>. QED BY <1>2, <2>1, <2>2 DEF Assigned
<1>5. \A v \in DOMAIN t.init \ Numbers(t) : Raw(t, o, a)[v] = Raw(t, o, b)[v]
    BY <1>4, RawFacts
<1>6. \A v \in Numbers(t) : /\ Raw(t, o, a)[v] = Accumulated(Changes(ass, v, a), a[v])
                            /\ Raw(t, o, b)[v] = Accumulated(Changes(ass, v, a), b[v])
    BY <1>3, RawFacts
<1>7. \A v \in Numbers(t) \ OfType(t, "cost") : a[v] = b[v]
    BY TaskFacts DEF Alike
<1>8. Alike(t, Raw(t, o, a), Raw(t, o, b))
    BY <1>5, <1>6, <1>7 DEF Alike
<1>9. ASSUME NEW v \in Numbers(t), OnlyAddsTo(t, o, v)
      PROVE  Raw(t, o, a)[v] - a[v] = Raw(t, o, b)[v] - b[v]
  <2> DEFINE ch == Changes(ass, v, a)
  <2>1. AreChanges(ch)
      BY ChangesFacts
  <2>2. Adds(ch)
      BY <1>9 DEF Adds, Changes, On, OnlyAddsTo
  <2>3. a[v] \in Int /\ b[v] \in Int
      BY TaskFacts DEF IsValued
  <2>4. Accumulated(ch, 0) \in Int
      BY <2>1, Accumulation
  <2>5. Accumulated(ch, a[v]) = a[v] + Accumulated(ch, 0) /\ Accumulated(ch, b[v]) = b[v] + Accumulated(ch, 0)
      BY <2>1, <2>2, <2>3, Accumulation
  <2>6. Raw(t, o, a)[v] = a[v] + Accumulated(ch, 0) /\ Raw(t, o, b)[v] = b[v] + Accumulated(ch, 0)
      BY <1>6, <2>5
  <2> HIDE DEF ch
  <2>. QED BY <2>3, <2>4, <2>6
<1> QED BY <1>8, <1>9

\* Conditions are evaluated from what they compare, and nothing else changes.
LEMMA ConditionFacts ==
    ASSUME NEW t, IsTask(t), NEW s, IsValued(t, s)
    PROVE  /\ IsValued(t, WithConditions(t, s))
           /\ \A v \in DOMAIN t.init \ Conditions(t) : WithConditions(t, s)[v] = s[v]
           /\ \A v \in Numbers(t) : WithConditions(t, s)[v] = s[v] /\ v \notin Conditions(t)
           /\ \A v \in Conditions(t) : WithConditions(t, s)[v] = Evaluated(t, v, s)
           /\ \A v \in Conditions(t) : Evaluated(t, v, WithConditions(t, s)) = Evaluated(t, v, s)
           /\ WithConditions(t, WithConditions(t, s)) = WithConditions(t, s)
<1> DEFINE w == WithConditions(t, s)
<1>1. DOMAIN s = DOMAIN t.init /\ Conditions(t) \subseteq DOMAIN t.init
    BY TaskFacts DEF IsValued
<1>2. \A v \in Conditions(t) : Evaluated(t, v, s) \in Int
    BY DEF Evaluated
<1>3. w = [v \in DOMAIN t.init |-> IF v \in Conditions(t) THEN Evaluated(t, v, s) ELSE s[v]]
    BY <1>1 DEF WithConditions
<1>4. IsValued(t, w)
    BY <1>1, <1>2, <1>3 DEF IsValued
<1>5. \A v \in Numbers(t) : w[v] = s[v] /\ v \notin Conditions(t)
    BY <1>3, TaskFacts
<1>6. \A v \in Conditions(t) : Evaluated(t, v, w) = Evaluated(t, v, s)
    BY <1>5, TaskFacts DEF Evaluated
<1>7. WithConditions(t, w) = w
    BY <1>3, <1>6 DEF WithConditions
<1> QED BY <1>1, <1>3, <1>4, <1>5, <1>6, <1>7

LEMMA LikeConditions ==
    ASSUME NEW t, IsTask(t), NEW a, NEW b, IsValued(t, a), IsValued(t, b), Alike(t, a, b)
    PROVE  /\ Alike(t, WithConditions(t, a), WithConditions(t, b))
           /\ \A c \in Conditions(t) : Evaluated(t, c, a) = Evaluated(t, c, b)
<1>1. \A v \in Numbers(t) \ OfType(t, "cost") : a[v] = b[v]
    BY TaskFacts DEF Alike
<1>2. \A c \in Conditions(t) : Evaluated(t, c, a) = Evaluated(t, c, b)
    BY <1>1, TaskFacts DEF Evaluated
<1>3. \A v \in DOMAIN t.init \ Conditions(t) : WithConditions(t, a)[v] = a[v] /\ WithConditions(t, b)[v] = b[v]
    BY ConditionFacts
<1>4. \A c \in Conditions(t) : WithConditions(t, a)[c] = WithConditions(t, b)[c]
    BY <1>2, ConditionFacts
<1> QED BY <1>2, <1>3, <1>4 DEF Alike

\* What identifies states: two states are the same if they differ in rows at most.
LEMMA IdentityFacts ==
    ASSUME NEW t, IsTask(t), NEW a, NEW b, IsValued(t, a), IsValued(t, b)
    PROVE  /\ IsValued(t, WithoutRows(t, a))
           /\ Alike(t, a, WithoutRows(t, a))
           /\ WithoutRows(t, a) = WithoutRows(t, b) <=> Alike(t, a, b)
           /\ Alike(t, a, b) <=> Alike(t, b, a)
<1>1. DOMAIN a = DOMAIN t.init /\ DOMAIN b = DOMAIN t.init
    BY DEF IsValued
<1>2. IsValued(t, WithoutRows(t, a))
    BY <1>1, TaskFacts DEF IsValued, WithoutRows
<1>3. Alike(t, a, WithoutRows(t, a))
    BY <1>1 DEF Alike, WithoutRows
<1>4. ASSUME Alike(t, a, b) PROVE WithoutRows(t, a) = WithoutRows(t, b)
    BY <1>1, <1>4 DEF Alike, WithoutRows
<1>5. ASSUME WithoutRows(t, a) = WithoutRows(t, b), NEW v \in DOMAIN t.init \ OfType(t, "cost")
      PROVE  a[v] = b[v]
  <2>1. WithoutRows(t, a)[v] = a[v] /\ WithoutRows(t, b)[v] = b[v]
      BY <1>1 DEF WithoutRows
  <2>. QED BY <1>5, <2>1
<1>6. Alike(t, a, b) <=> Alike(t, b, a)
    BY DEF Alike
<1> QED BY <1>2, <1>3, <1>4, <1>5, <1>6 DEF Alike

-----------------------------------------------------------------------------
(* Steps between states *)

LEMMA StateFacts ==
    ASSUME NEW t, IsTask(t), NEW s, IsState(t, s)
    PROVE  /\ IsValued(t, s)
           /\ \A c \in Conditions(t) : s[c] = Evaluated(t, c, s)
           /\ IsState(t, WithoutRows(t, s))
<1>1. IsValued(t, s)
    BY DEF IsState, IsValued
<1>2. \A c \in Conditions(t) : s[c] = Evaluated(t, c, s)
    BY <1>1, ConditionFacts DEF IsState
<1> DEFINE w == WithoutRows(t, s)
<1>3. IsValued(t, w) /\ Alike(t, s, w)
    BY <1>1, IdentityFacts
<1>4. \A c \in Conditions(t) : Evaluated(t, c, s) = Evaluated(t, c, w)
    BY <1>1, <1>3, LikeConditions
<1>5. \A c \in Conditions(t) : w[c] = s[c]
    BY <1>3, TaskFacts DEF Alike
<1>6. w = WithConditions(t, w)
    BY <1>2, <1>3, <1>4, <1>5 DEF WithConditions, IsValued
<1>7. \A v \in OfType(t, "constant") : w[v] = s[v]
    BY <1>3, TaskFacts DEF Alike
<1> QED BY <1>1, <1>2, <1>3, <1>6, <1>7 DEF IsState, IsValued

LEMMA AfterFacts ==
    ASSUME NEW t, IsTask(t), NEW s, IsState(t, s), NEW o \in DOMAIN t.operators
    PROVE  /\ After(t, o, s) = WithConditions(t, Raw(t, o, s))
           /\ IsState(t, After(t, o, s))
           /\ \A v \in DOMAIN t.init \ Conditions(t) : After(t, o, s)[v] = Raw(t, o, s)[v]
           /\ \A v \in Numbers(t) : After(t, o, s)[v] = Raw(t, o, s)[v]
<1> DEFINE raw == Raw(t, o, s)
           w == WithConditions(t, raw)
<1>1. IsValued(t, s)
    BY StateFacts
<1>2. IsValued(t, raw) /\ \A v \in OfType(t, "constant") : raw[v] = s[v]
    BY <1>1, RawFacts
<1>3. After(t, o, s) = w
    BY DEF After, Raw
<1> HIDE DEF raw
<1>4. /\ IsValued(t, w)
      /\ \A v \in DOMAIN t.init \ Conditions(t) : w[v] = raw[v]
      /\ \A v \in Numbers(t) : w[v] = raw[v]
      /\ WithConditions(t, w) = w
    BY <1>2, ConditionFacts
<1>5. \A v \in OfType(t, "constant") : w[v] = t.init[v]
    BY <1>2, <1>4, TaskFacts DEF IsState
<1>6. IsState(t, w)
    BY <1>4, <1>5 DEF IsState, IsValued
<1> QED BY <1>3, <1>4, <1>6 DEF raw

LEMMA InitialStateFacts ==
    ASSUME NEW t, IsTask(t)
    PROVE  /\ IsState(t, InitialState(t))
           /\ \A v \in DOMAIN t.init \ Conditions(t) : InitialState(t)[v] = t.init[v]
           /\ \A v \in Numbers(t) : InitialState(t)[v] = t.init[v]
<1>1. IsValued(t, t.init)
    BY TaskFacts
<1>2. /\ IsValued(t, InitialState(t))
      /\ \A v \in DOMAIN t.init \ Conditions(t) : InitialState(t)[v] = t.init[v]
      /\ \A v \in Numbers(t) : InitialState(t)[v] = t.init[v]
      /\ InitialState(t) = WithConditions(t, InitialState(t))
    BY <1>1, ConditionFacts DEF InitialState
<1>3. \A v \in OfType(t, "constant") : InitialState(t)[v] = t.init[v]
    BY <1>2, TaskFacts
<1> QED BY <1>2, <1>3 DEF IsState, IsValued

LEMMA MetricFacts ==
    ASSUME NEW t, IsTask(t), t.metric # NoMetric
    PROVE  /\ t.metric \in Numbers(t)
           /\ \/ t.metric \in OfType(t, "regular") /\ t.metric \notin OfType(t, "cost")
              \/ /\ t.metric \in OfType(t, "cost") /\ t.metric \notin OfType(t, "regular")
                 /\ \A o \in DOMAIN t.operators : OnlyAddsTo(t, o, t.metric)
    BY TaskFacts DEF IsTask, IsMetric, OfType, OnlyAddsTo

\* The price of an operator is a number, and like states agree on it, on what applies,
\* on the goals, and on the state that an operator leads to.
LEMMA LikeSteps ==
    ASSUME NEW t, IsTask(t), NEW a, NEW b, IsState(t, a), IsState(t, b), Alike(t, a, b)
    PROVE  /\ Applicable(t, a) = Applicable(t, b)
           /\ IsGoalState(t, a) <=> IsGoalState(t, b)
           /\ \A o \in DOMAIN t.operators : /\ Alike(t, After(t, o, a), After(t, o, b))
                                            /\ Price(t, o, a) \in Int
                                            /\ Price(t, o, a) = Price(t, o, b)
<1>1. IsValued(t, a) /\ IsValued(t, b)
    BY StateFacts
<1>2. Applicable(t, a) = Applicable(t, b)
  <2>1. \A o \in DOMAIN t.operators : HoldsAll(t.operators[o].pre, a) <=> HoldsAll(t.operators[o].pre, b)
      BY LikeEffects DEF IsTask, IsOperator
  <2>. QED BY <2>1 DEF Applicable
<1>3. IsGoalState(t, a) <=> IsGoalState(t, b)
    BY LikeEffects DEF IsTask, IsGoalState
<1>4. ASSUME NEW o \in DOMAIN t.operators
      PROVE  /\ Alike(t, After(t, o, a), After(t, o, b))
             /\ Price(t, o, a) \in Int
             /\ Price(t, o, a) = Price(t, o, b)
  <2>1. IsValued(t, Raw(t, o, a)) /\ IsValued(t, Raw(t, o, b))
      BY <1>1, RawFacts
  <2>2. Alike(t, Raw(t, o, a), Raw(t, o, b))
      BY <1>1, LikeRaw
  <2>3. Alike(t, After(t, o, a), After(t, o, b))
      BY <2>1, <2>2, LikeConditions, AfterFacts
  <2>4. CASE t.metric = NoMetric
      BY <2>3, <2>4 DEF Price, IsTask
  <2>5. CASE t.metric # NoMetric
    <3> DEFINE m == t.metric
    <3>1. m \in Numbers(t) /\ m \in DOMAIN t.init
        BY <2>5, MetricFacts, TaskFacts
    <3>2. After(t, o, a)[m] = Raw(t, o, a)[m] /\ After(t, o, b)[m] = Raw(t, o, b)[m]
        BY <3>1, AfterFacts
    <3>3. a[m] \in Int /\ b[m] \in Int /\ Raw(t, o, a)[m] \in Int /\ Raw(t, o, b)[m] \in Int
        BY <1>1, <2>1, <3>1 DEF IsValued
    <3>4. Raw(t, o, a)[m] - a[m] = Raw(t, o, b)[m] - b[m]
      <4>1. CASE m \in OfType(t, "regular") /\ m \notin OfType(t, "cost")
        <5>1. a[m] = b[m] /\ Raw(t, o, a)[m] = Raw(t, o, b)[m]
            BY <4>1, <3>1, <2>2 DEF Alike
        <5>. QED BY <5>1
      <4>2. CASE OnlyAddsTo(t, o, m)
        <5>1. \A v \in Numbers(t) :
                  OnlyAddsTo(t, o, v) => Raw(t, o, a)[v] - a[v] = Raw(t, o, b)[v] - b[v]
            BY <1>1, LikeRaw
        <5>. QED BY <5>1, <4>2, <3>1
      <4>. QED BY <4>1, <4>2, <2>5, MetricFacts
    <3>5. /\ Price(t, o, a) = IF t.minimised THEN Raw(t, o, a)[m] - a[m] ELSE a[m] - Raw(t, o, a)[m]
          /\ Price(t, o, b) = IF t.minimised THEN Raw(t, o, b)[m] - b[m] ELSE b[m] - Raw(t, o, b)[m]
        BY <2>5, <3>2 DEF Price, StepCost, MetricValue
    <3>. QED BY <2>3, <3>3, <3>4, <3>5
  <2>. QED BY <2>4, <2>5
<1> QED BY <1>2, <1>3, <1>4

-----------------------------------------------------------------------------
(* The state registry *)

IsNumbers(numbers) ==
    /\ numbers \in Seq(Int)
    /\ \A j, k \in DOMAIN numbers : numbers[j] = numbers[k] => j = k

\* The packed state bins stands for the values s.
Represents(t, numbers, bins, s) ==
    /\ bins \in [Packed(t) -> Int]
    /\ \A v \in t.variables : bins[v] = s[v]
    /\ \A v \in OfType(t, "regular") : bins[v] \in DOMAIN numbers /\ numbers[bins[v]] = s[v]

IsRegistry(t, r) ==
    /\ r = [states |-> r.states, rows |-> r.rows, numbers |-> r.numbers]
    /\ IsNumbers(r.numbers)
    /\ r.states \in Seq([Packed(t) -> Int])
    /\ r.rows \in Seq([OfType(t, "cost") -> Int])
    /\ Len(r.rows) = Len(r.states)
    /\ \A i \in DOMAIN r.states :
           /\ \A v \in OfType(t, "regular") : r.states[i][v] \in DOMAIN r.numbers
           /\ IsState(t, View(t, r, i))
           /\ \A j \in DOMAIN r.states : Alike(t, View(t, r, i), View(t, r, j)) => i = j

\* A list of numbers that has another one as its beginning.
Extends(numbers, old) ==
    \A k \in DOMAIN old : k \in DOMAIN numbers /\ numbers[k] = old[k]

LEMMA PositionFacts ==
    ASSUME NEW numbers, numbers \in Seq(Int), NEW x
    PROVE  /\ IdIn(numbers, x) \in DOMAIN numbers <=> \E k \in DOMAIN numbers : numbers[k] = x
           /\ IdIn(numbers, x) = NotFound <=> ~ \E k \in DOMAIN numbers : numbers[k] = x
           /\ IdIn(numbers, x) # NotFound => numbers[IdIn(numbers, x)] = x
           /\ IdIn(numbers, x) \in Int
<1>1. DOMAIN numbers \subseteq Nat \ {0}
    OBVIOUS
<1>2. CASE \E k \in DOMAIN numbers : numbers[k] = x
  <2>1. IdIn(numbers, x) \in DOMAIN numbers /\ numbers[IdIn(numbers, x)] = x
      BY <1>2 DEF IdIn
  <2>. QED BY <1>1, <1>2, <2>1 DEF NotFound
<1>3. CASE ~ \E k \in DOMAIN numbers : numbers[k] = x
  <2>1. IdIn(numbers, x) = 0
      BY <1>3 DEF IdIn, NotFound
  <2>. QED BY <1>1, <1>3, <2>1 DEF NotFound
<1> QED BY <1>2, <1>3

\* Interning keeps the numbers there are and has each number once.
LEMMA Interning ==
    ASSUME NEW numbers, IsNumbers(numbers), NEW xs \in SUBSET Int, IsFiniteSet(xs)
    PROVE  /\ IsNumbers(InternAll(numbers, xs))
           /\ Extends(InternAll(numbers, xs), numbers)
           /\ \A x \in xs : IdIn(InternAll(numbers, xs), x) # NotFound
<1> DEFINE new == {x \in xs : IdIn(numbers, x) = NotFound}
           q == SetToSeq(new)
           all == numbers \o q
<1>1. IsFiniteSet(new) /\ new \in SUBSET Int
    BY FS_Subset
<1>2. q \in SetToSeqs(new)
    BY <1>1, Lists
<1>3. /\ q \in [1..Cardinality(new) -> new] /\ Cardinality(new) \in Nat
      /\ Len(q) = Cardinality(new) /\ DOMAIN q = 1..Len(q)
      /\ \A x \in new : \E k \in DOMAIN q : q[k] = x
      /\ \A j, k \in DOMAIN q : q[j] = q[k] => j = k
    BY <1>1, <1>2, Lists
<1>4. numbers \in Seq(Int) /\ \A j, k \in DOMAIN numbers : numbers[j] = numbers[k] => j = k
    BY DEF IsNumbers
<1>5. \A x \in new : ~ \E k \in DOMAIN numbers : numbers[k] = x
    BY <1>4, PositionFacts
<1>6. \A x \in xs : x \notin new => \E k \in DOMAIN numbers : numbers[k] = x
    BY <1>4, PositionFacts
<1> HIDE DEF new, q
<1>7. q \in Seq(Int)
  <2>1. q \in [1..Cardinality(new) -> Int]
      BY <1>1, <1>3
  <2>. QED BY <2>1, <1>3
<1>8. all \in Seq(Int) /\ Len(all) = Len(numbers) + Len(q)
    BY <1>4, <1>7
<1>9. \A k \in DOMAIN all : \/ k \in DOMAIN numbers /\ all[k] = numbers[k]
                            \/ /\ k \notin DOMAIN numbers /\ k - Len(numbers) \in DOMAIN q
                               /\ all[k] = q[k - Len(numbers)]
    BY <1>4, <1>7
<1>10. Extends(all, numbers)
    BY <1>4, <1>7 DEF Extends
<1>11. \A k \in DOMAIN q : all[k + Len(numbers)] = q[k] /\ k + Len(numbers) \in DOMAIN all
    BY <1>4, <1>7
<1>12. \A k \in DOMAIN q : q[k] \in new
    BY <1>3
<1>13. ASSUME NEW j \in DOMAIN all, NEW k \in DOMAIN all, all[j] = all[k]
       PROVE  j = k
  <2>1. DOMAIN all \subseteq Nat /\ Len(numbers) \in Nat
      BY <1>4, <1>8
  <2>2. CASE j \in DOMAIN numbers /\ k \in DOMAIN numbers
      BY <2>2, <1>4, <1>9, <1>13
  <2>3. CASE j \in DOMAIN numbers /\ k \notin DOMAIN numbers
      BY <2>3, <1>5, <1>9, <1>12, <1>13
  <2>4. CASE j \notin DOMAIN numbers /\ k \in DOMAIN numbers
      BY <2>4, <1>5, <1>9, <1>12, <1>13
  <2>5. CASE j \notin DOMAIN numbers /\ k \notin DOMAIN numbers
    <3>1. j - Len(numbers) = k - Len(numbers)
        BY <2>5, <1>3, <1>9, <1>13
    <3>. QED BY <2>1, <3>1
  <2>. QED BY <2>2, <2>3, <2>4, <2>5
<1>14. \A x \in xs : \E k \in DOMAIN all : all[k] = x
  <2> SUFFICES ASSUME NEW x \in xs PROVE \E k \in DOMAIN all : all[k] = x
      OBVIOUS
  <2>1. CASE x \in new
    <3>1. PICK k \in DOMAIN q : q[k] = x
        BY <2>1, <1>3
    <3>. QED BY <3>1, <1>11
  <2>2. CASE x \notin new
    <3>1. PICK k \in DOMAIN numbers : numbers[k] = x
        BY <2>2, <1>6
    <3>. QED BY <3>1, <1>10 DEF Extends
  <2>. QED BY <2>1, <2>2
<1>15. InternAll(numbers, xs) = all
    BY DEF InternAll, new, q
<1> HIDE DEF all
<1>16. \A x \in xs : IdIn(all, x) # NotFound
    BY <1>8, <1>14, PositionFacts
<1> QED BY <1>8, <1>10, <1>13, <1>15, <1>16 DEF IsNumbers

LEMMA PackedFacts ==
    ASSUME NEW t, IsTask(t)
    PROVE  /\ Packed(t) \subseteq DOMAIN t.init
           /\ t.variables \subseteq Packed(t) /\ OfType(t, "regular") \subseteq Packed(t)
           /\ t.variables \cap OfType(t, "regular") = {}
           /\ DOMAIN t.init \ OfType(t, "cost") = Packed(t) \cup OfType(t, "constant")
           /\ Packed(t) \cap OfType(t, "cost") = {}
           /\ \A v \in DOMAIN t.init : v \notin t.variables => v \in Numbers(t)
    BY TaskFacts DEF Packed, OfType

\* States are alike if they agree on what is packed, or on that without the conditions.
LEMMA LikeStates ==
    ASSUME NEW t, IsTask(t), NEW a, NEW b, IsState(t, a), IsState(t, b)
    PROVE  /\ Alike(t, a, b) <=> SameOn(Packed(t), a, b)
           /\ Alike(t, a, b) <=> SameOn(Inputs(t), a, b)
<1>1. \A v \in OfType(t, "constant") : a[v] = b[v]
    BY DEF IsState
<1>2. Alike(t, a, b) <=> SameOn(Packed(t), a, b)
    BY <1>1, PackedFacts DEF Alike, SameOn
<1>3. ASSUME SameOn(Inputs(t), a, b) PROVE SameOn(Packed(t), a, b)
  <2>1. \A v \in Numbers(t) \ OfType(t, "cost") : a[v] = b[v]
    <3>1. \A v \in Numbers(t) \ OfType(t, "cost") : v \in OfType(t, "constant") \/ v \in Inputs(t)
        BY TaskFacts, PackedFacts DEF Inputs
    <3>. QED BY <1>1, <1>3, <3>1 DEF SameOn
  <2>2. \A c \in Conditions(t) : Evaluated(t, c, a) = Evaluated(t, c, b)
      BY <2>1, TaskFacts DEF Evaluated
  <2>3. \A c \in Conditions(t) : a[c] = b[c]
      BY <2>2, StateFacts
  <2>. QED BY <1>3, <2>3 DEF SameOn, Inputs
<1> QED BY <1>2, <1>3 DEF SameOn, Inputs

LEMMA PackFacts ==
    ASSUME NEW t, IsTask(t), NEW numbers, IsNumbers(numbers), NEW s, IsValued(t, s),
           \A v \in OfType(t, "regular") : IdIn(numbers, s[v]) # NotFound
    PROVE  Represents(t, numbers, Pack(t, numbers, s), s)
<1> DEFINE bins == Pack(t, numbers, s)
<1>1. numbers \in Seq(Int)
    BY DEF IsNumbers
<1>2. \A v \in t.variables : bins[v] = s[v]
    BY PackedFacts DEF Pack
<1>3. \A v \in OfType(t, "regular") : bins[v] = IdIn(numbers, s[v])
    BY PackedFacts DEF Pack
<1>4. \A v \in OfType(t, "regular") : bins[v] \in DOMAIN numbers /\ numbers[bins[v]] = s[v]
    BY <1>1, <1>3, PositionFacts
<1>5. \A v \in Packed(t) : bins[v] \in Int
  <2>1. \A v \in Packed(t) : s[v] \in Int /\ (v \in t.variables \/ v \in OfType(t, "regular"))
      BY PackedFacts DEF IsValued, Packed
  <2>2. \A v \in OfType(t, "regular") : bins[v] \in Int
      BY <1>1, <1>3, PositionFacts
  <2>. QED BY <1>2, <2>1, <2>2
<1>6. bins \in [Packed(t) -> Int]
    BY <1>5 DEF Pack
<1> QED BY <1>2, <1>4, <1>6 DEF Represents

LEMMA RepresentedAlike ==
    ASSUME NEW t, IsTask(t), NEW numbers, IsNumbers(numbers), NEW a, NEW b, NEW x, NEW y,
           Represents(t, numbers, x, a), Represents(t, numbers, y, b), NEW V \in SUBSET Packed(t)
    PROVE  SameOn(V, x, y) <=> SameOn(V, a, b)
<1>1. \A v \in V : v \in t.variables \/ v \in OfType(t, "regular")
    BY DEF Packed
<1>2. \A v \in V : x[v] = y[v] <=> a[v] = b[v]
    BY <1>1 DEF Represents, IsNumbers
<1> QED BY <1>2 DEF SameOn

LEMMA ViewFacts ==
    ASSUME NEW t, IsTask(t), NEW r, IsRegistry(t, r), NEW i \in DOMAIN r.states
    PROVE  /\ IsState(t, View(t, r, i))
           /\ Represents(t, r.numbers, r.states[i], View(t, r, i))
           /\ Row(t, View(t, r, i)) = r.rows[i]
           /\ \A v \in OfType(t, "cost") : View(t, r, i)[v] = r.rows[i][v]
           /\ r.states[i] \in [Packed(t) -> Int]
           /\ r.rows[i] \in [OfType(t, "cost") -> Int]
           /\ i \in DOMAIN r.rows
           /\ Len(r.states) \in Nat /\ DOMAIN r.states = 1..Len(r.states)
<1>1. r.states[i] \in [Packed(t) -> Int] /\ i \in DOMAIN r.rows /\ r.rows[i] \in [OfType(t, "cost") -> Int]
    BY DEF IsRegistry
<1>2. \A v \in t.variables : View(t, r, i)[v] = r.states[i][v]
    BY TaskFacts DEF View, Stored
<1>3. \A v \in OfType(t, "regular") :
          v \notin t.variables /\ v \in DOMAIN t.init /\ t.types[v] = "regular"
    BY TaskFacts
<1>4. \A v \in OfType(t, "regular") : View(t, r, i)[v] = r.numbers[r.states[i][v]]
    BY <1>3 DEF View, Stored
<1>5. \A v \in OfType(t, "cost") :
          v \notin t.variables /\ v \in DOMAIN t.init /\ t.types[v] = "cost"
    BY TaskFacts
<1>6. \A v \in OfType(t, "cost") : View(t, r, i)[v] = r.rows[i][v]
    BY <1>5 DEF View, Stored
<1>7. Row(t, View(t, r, i)) = r.rows[i]
    BY <1>1, <1>6 DEF Row
<1>8. Represents(t, r.numbers, r.states[i], View(t, r, i))
    BY <1>1, <1>2, <1>4 DEF Represents, IsRegistry
<1> QED BY <1>1, <1>6, <1>7, <1>8 DEF IsRegistry

\* A state is looked up by its packed form, with the conditions or without them.
LEMMA LookupFacts ==
    ASSUME NEW t, IsTask(t), NEW r, IsRegistry(t, r), NEW s, IsState(t, s),
           NEW numbers, IsNumbers(numbers), Extends(numbers, r.numbers),
           NEW bins, NEW values, Represents(t, numbers, bins, values),
           SameOn(Inputs(t), values, s), ~ DefersConditions(t) => SameOn(Packed(t), values, s),
           NEW x, x.states = r.states
    PROVE  LET i == Lookup(t, x, bins)
           IN  \/ i \in DOMAIN r.states /\ Alike(t, View(t, r, i), s)
               \/ i = NotFound /\ \A j \in DOMAIN r.states : ~ Alike(t, View(t, r, j), s)
<1> DEFINE mask == IF DefersConditions(t) THEN Inputs(t) ELSE Packed(t)
<1>1. ASSUME NEW j \in DOMAIN r.states
      PROVE  SameOn(mask, r.states[j], bins) <=> Alike(t, View(t, r, j), s)
  <2>1. IsState(t, View(t, r, j)) /\ Represents(t, r.numbers, r.states[j], View(t, r, j))
      BY ViewFacts
  <2>2. Represents(t, numbers, r.states[j], View(t, r, j))
      BY <2>1 DEF Represents, Extends
  <2>3. mask \in SUBSET Packed(t)
      BY DEF Inputs
  <2>4. SameOn(mask, r.states[j], bins) <=> SameOn(mask, View(t, r, j), values)
      BY <2>2, <2>3, RepresentedAlike
  <2>5. SameOn(mask, values, s)
      OBVIOUS
  <2>6. SameOn(mask, View(t, r, j), values) <=> SameOn(mask, View(t, r, j), s)
      BY <2>5 DEF SameOn
  <2>7. SameOn(mask, View(t, r, j), s) <=> Alike(t, View(t, r, j), s)
      BY <2>1, LikeStates
  <2>. QED BY <2>4, <2>6, <2>7
<1>2. CASE \E j \in DOMAIN r.states : SameOn(mask, r.states[j], bins)
  <2>1. Lookup(t, x, bins) \in DOMAIN r.states /\ SameOn(mask, r.states[Lookup(t, x, bins)], bins)
      BY <1>2 DEF Lookup
  <2>. QED BY <1>1, <2>1
<1>3. CASE ~ \E j \in DOMAIN r.states : SameOn(mask, r.states[j], bins)
  <2>1. Lookup(t, x, bins) = NotFound
      BY <1>3 DEF Lookup
  <2>. QED BY <1>1, <1>3, <2>1
<1> QED BY <1>2, <1>3

\* A state is found if it is registered.
LEMMA FindFacts ==
    ASSUME NEW t, IsTask(t), NEW r, IsRegistry(t, r), NEW s, IsState(t, s)
    PROVE  \/ Find(t, r, s) \in DOMAIN r.states /\ Alike(t, View(t, r, Find(t, r, s)), s)
           \/ Find(t, r, s) = NotFound /\ \A j \in DOMAIN r.states : ~ Alike(t, View(t, r, j), s)
<1>1. IsNumbers(r.numbers) /\ r.numbers \in Seq(Int) /\ Extends(r.numbers, r.numbers)
    BY DEF IsRegistry, IsNumbers, Extends
<1>2. CASE \A v \in OfType(t, "regular") : IdIn(r.numbers, s[v]) # NotFound
  <2>1. Represents(t, r.numbers, Pack(t, r.numbers, s), s)
      BY <1>1, <1>2, PackFacts, StateFacts
  <2>2. SameOn(Inputs(t), s, s) /\ SameOn(Packed(t), s, s)
      BY DEF SameOn
  <2>3. Find(t, r, s) = Lookup(t, r, Pack(t, r.numbers, s))
      BY <1>2 DEF Find
  <2> HIDE DEF Find
  <2>. QED BY <1>1, <2>1, <2>2, <2>3, LookupFacts
<1>3. ASSUME NEW v \in OfType(t, "regular"), IdIn(r.numbers, s[v]) = NotFound,
             NEW j \in DOMAIN r.states, Alike(t, View(t, r, j), s)
      PROVE  FALSE
  <2>1. Represents(t, r.numbers, r.states[j], View(t, r, j))
      BY ViewFacts
  <2>2. View(t, r, j)[v] = s[v]
      BY <1>3, PackedFacts DEF Alike
  <2>3. \E k \in DOMAIN r.numbers : r.numbers[k] = s[v]
      BY <2>1, <2>2 DEF Represents
  <2>. QED BY <1>1, <1>3, <2>3, PositionFacts
<1>4. CASE \E v \in OfType(t, "regular") : IdIn(r.numbers, s[v]) = NotFound
    BY <1>3, <1>4 DEF Find
<1> QED BY <1>2, <1>4

LEMMA ViewOf ==
    ASSUME NEW t, IsTask(t), NEW r, NEW i, NEW s, IsState(t, s),
           Represents(t, r.numbers, r.states[i], s), r.rows[i] = Row(t, s)
    PROVE  View(t, r, i) = s
<1>1. DOMAIN s = DOMAIN t.init /\ s = [v \in DOMAIN t.init |-> s[v]]
    BY DEF IsState
<1>2. ASSUME NEW v \in DOMAIN t.init
      PROVE  View(t, r, i)[v] = s[v]
  <2>1. CASE v \in t.variables
      BY <2>1 DEF View, Stored, Represents
  <2>2. CASE v \in OfType(t, "regular")
    <3>1. v \notin t.variables /\ t.types[v] = "regular"
        BY <2>2, TaskFacts
    <3>. QED BY <2>2, <3>1 DEF View, Stored, Represents
  <2>3. CASE v \in OfType(t, "cost")
    <3>1. v \notin t.variables /\ t.types[v] = "cost"
        BY <2>3, TaskFacts
    <3>2. View(t, r, i)[v] = r.rows[i][v]
        BY <3>1 DEF View, Stored
    <3>. QED BY <2>3, <3>2 DEF Row
  <2>4. CASE v \in OfType(t, "constant")
    <3>1. v \notin t.variables /\ t.types[v] = "constant"
        BY <2>4, TaskFacts
    <3>2. View(t, r, i)[v] = t.init[v]
        BY <3>1 DEF View, Stored
    <3>. QED BY <2>4, <3>2 DEF IsState
  <2>. QED BY <2>1, <2>2, <2>3, <2>4, TaskFacts
<1>3. View(t, r, i) = [v \in DOMAIN t.init |-> View(t, r, i)[v]]
    BY DEF View
<1> QED BY <1>1, <1>2, <1>3

\* The values of the parent were read when its registered state was like them.
IsContext(t, r, c) ==
    /\ c.parent \in DOMAIN r.states
    /\ IsState(t, c.values)
    /\ Alike(t, View(t, r, c.parent), c.values)

\* What applying o in the context c does to the registry r.
IsApplied(t, r, c, o, a) ==
    LET after == After(t, o, c.values)
    IN  /\ IsRegistry(t, a.registry)
        /\ a.id \in DOMAIN a.registry.states
        /\ DOMAIN a.registry.states = DOMAIN r.states \cup {a.id}
        /\ \A j \in DOMAIN r.states : j # a.id => View(t, a.registry, j) = View(t, r, j)
        /\ a.id \in DOMAIN r.states => Alike(t, View(t, r, a.id), after)
        /\ \/ /\ View(t, a.registry, a.id) = after
              /\ a.id \in DOMAIN r.states => ~ KeepsRow(t, View(t, r, a.id), after)
           \/ /\ View(t, a.registry, a.id) = View(t, r, a.id)
              /\ a.id \in DOMAIN r.states /\ KeepsRow(t, View(t, r, a.id), after)
        /\ a.cost = StepCost(t, MetricValue(t, c.values), MetricValue(t, after))

\* The numbers that the registry interns for the values after an operator.
LEMMA NumbersAfter ==
    ASSUME NEW t, IsTask(t), NEW r, IsRegistry(t, r), NEW c, IsContext(t, r, c),
           NEW o \in DOMAIN t.operators
    PROVE  LET s       == c.values
               written == {v \in OfType(t, "regular") : On(t.operators[o].assignments, v, s) # {}}
               numbers == InternAll(r.numbers, {Raw(t, o, s)[v] : v \in written})
           IN  /\ IsNumbers(numbers) /\ Extends(numbers, r.numbers)
               /\ Represents(t, numbers, Pack(t, numbers, Raw(t, o, s)), Raw(t, o, s))
               /\ Represents(t, numbers, Pack(t, numbers, After(t, o, s)), After(t, o, s))
<1> DEFINE s       == c.values
           raw     == Raw(t, o, s)
           written == {v \in OfType(t, "regular") : On(t.operators[o].assignments, v, s) # {}}
           xs      == {raw[v] : v \in written}
           numbers == InternAll(r.numbers, xs)
<1>1. /\ IsState(t, s) /\ IsValued(t, s)
      /\ \A v \in OfType(t, "regular") : \E k \in DOMAIN r.numbers : r.numbers[k] = s[v]
  <2>1. IsState(t, s) /\ IsValued(t, s) /\ Alike(t, View(t, r, c.parent), s) /\ c.parent \in DOMAIN r.states
      BY StateFacts DEF IsContext
  <2>2. Represents(t, r.numbers, r.states[c.parent], View(t, r, c.parent))
      BY <2>1, ViewFacts
  <2>3. \A v \in OfType(t, "regular") : View(t, r, c.parent)[v] = s[v]
      BY <2>1, PackedFacts DEF Alike
  <2>. QED BY <2>1, <2>2, <2>3 DEF Represents
<1>2. /\ IsValued(t, raw)
      /\ \A v \in Numbers(t) : On(t.operators[o].assignments, v, s) = {} => raw[v] = s[v]
    BY <1>1, RawFacts
<1>3. IsFiniteSet(written)
  <2>1. IsFiniteSet(Numbers(t)) /\ written \in SUBSET Numbers(t)
      BY TaskFacts DEF IsTask
  <2>. QED BY <2>1, FS_Subset
<1>4. IsFiniteSet(xs)
  <2> DEFINE f == [v \in written |-> raw[v]]
  <2>1. f \in Surjection(written, xs)
      BY DEF Surjection
  <2>. QED BY <1>3, <2>1, FS_Surjection
<1>5. xs \in SUBSET Int
    BY <1>2, TaskFacts DEF IsValued
<1>6. IsNumbers(r.numbers)
    BY DEF IsRegistry
<1>7. /\ IsNumbers(numbers) /\ Extends(numbers, r.numbers)
      /\ \A x \in xs : IdIn(numbers, x) # NotFound
    BY <1>4, <1>5, <1>6, Interning
<1> HIDE DEF numbers
<1>8. numbers \in Seq(Int)
    BY <1>7 DEF IsNumbers
<1>9. ASSUME NEW v \in OfType(t, "regular")
      PROVE  IdIn(numbers, raw[v]) # NotFound
  <2>1. CASE v \in written
      BY <2>1, <1>7
  <2>2. CASE v \notin written
    <3>1. raw[v] = s[v]
        BY <2>2, <1>2, TaskFacts
    <3>2. \E k \in DOMAIN r.numbers : r.numbers[k] = raw[v]
        BY <1>1, <3>1
    <3>3. \E k \in DOMAIN numbers : numbers[k] = raw[v]
        BY <1>7, <3>2 DEF Extends
    <3>. QED BY <1>8, <3>3, PositionFacts
  <2>. QED BY <2>1, <2>2
<1>10. Represents(t, numbers, Pack(t, numbers, raw), raw)
    BY <1>2, <1>7, <1>9, PackFacts
<1>11. IsValued(t, After(t, o, s)) /\ \A v \in Numbers(t) : After(t, o, s)[v] = raw[v]
    BY <1>1, AfterFacts, StateFacts
<1>12. \A v \in OfType(t, "regular") : IdIn(numbers, After(t, o, s)[v]) # NotFound
    BY <1>9, <1>11, TaskFacts
<1>13. Represents(t, numbers, Pack(t, numbers, After(t, o, s)), After(t, o, s))
    BY <1>7, <1>11, <1>12, PackFacts
<1> QED BY <1>7, <1>10, <1>13 DEF numbers

LEMMA ApplyParts ==
    ASSUME NEW t, IsTask(t), NEW r, IsRegistry(t, r), NEW c, IsContext(t, r, c),
           NEW o \in DOMAIN t.operators
    PROVE  LET a == ApplyInContext(t, r, c, o)
               after == After(t, o, c.values)
           IN  \E numbers, bins, id :
                   /\ IsNumbers(numbers) /\ Extends(numbers, r.numbers)
                   /\ Represents(t, numbers, bins, after)
                   /\ \/ id \in DOMAIN r.states /\ Alike(t, View(t, r, id), after)
                      \/ id = NotFound /\ \A j \in DOMAIN r.states : ~ Alike(t, View(t, r, j), after)
                   /\ a = [registry |-> Register(t, [r EXCEPT !.numbers = numbers], id, bins, Raw(t, o, c.values)),
                           id |-> IF id = NotFound THEN Len(r.states) + 1 ELSE id,
                           cost |-> StepCost(t, MetricValue(t, c.values), MetricValue(t, Raw(t, o, c.values)))]
<1> DEFINE s       == c.values
           raw     == Raw(t, o, s)
           after   == After(t, o, s)
           written == {v \in OfType(t, "regular") : On(t.operators[o].assignments, v, s) # {}}
           numbers == InternAll(r.numbers, {raw[v] : v \in written})
           stored  == [r EXCEPT !.numbers = numbers]
           stale   == Pack(t, numbers, raw)
           bins    == Pack(t, numbers, after)
           id      == Lookup(t, stored, IF DefersConditions(t) THEN stale ELSE bins)
<1>1. /\ IsNumbers(numbers) /\ Extends(numbers, r.numbers)
      /\ Represents(t, numbers, stale, raw)
      /\ Represents(t, numbers, bins, after)
    BY NumbersAfter
<1>2. IsState(t, s)
    BY DEF IsContext
<1>3. /\ IsState(t, after)
      /\ after = WithConditions(t, raw)
      /\ \A v \in DOMAIN t.init \ Conditions(t) : after[v] = raw[v]
    BY <1>2, AfterFacts
<1>4. SameOn(Inputs(t), raw, after) /\ SameOn(Inputs(t), after, after) /\ SameOn(Packed(t), after, after)
    BY <1>3, PackedFacts DEF SameOn, Inputs
<1>5. stored.states = r.states
    BY DEF IsRegistry
<1>7. ApplyInContext(t, r, c, o)
        = [registry |-> Register(t, stored, id, bins, raw),
           id |-> IF id = NotFound THEN Len(r.states) + 1 ELSE id,
           cost |-> StepCost(t, MetricValue(t, s), MetricValue(t, raw))]
    BY <1>3 DEF ApplyInContext, Raw
<1> HIDE DEF raw, after, numbers, stored, stale, bins, s
<1>8. \/ id \in DOMAIN r.states /\ Alike(t, View(t, r, id), after)
      \/ id = NotFound /\ \A j \in DOMAIN r.states : ~ Alike(t, View(t, r, j), after)
  <2>1. CASE DefersConditions(t)
      BY <2>1, <1>1, <1>3, <1>4, <1>5, LookupFacts
  <2>2. CASE ~ DefersConditions(t)
      BY <2>2, <1>1, <1>3, <1>4, <1>5, LookupFacts
  <2>. QED BY <2>1, <2>2
<1> HIDE DEF id
<1> QED BY <1>1, <1>7, <1>8 DEF stored, raw, after, s

\* A registry is right if each of its states is the packed form of one of its own.
IsShelf(t, x, n) ==
    /\ x = [states |-> x.states, rows |-> x.rows, numbers |-> x.numbers]
    /\ IsNumbers(x.numbers)
    /\ x.states \in Seq([Packed(t) -> Int]) /\ Len(x.states) = n
    /\ x.rows \in Seq([OfType(t, "cost") -> Int]) /\ Len(x.rows) = n
Shelves(t, x, n, s) ==
    \A j \in 1..n : /\ IsState(t, s[j])
                    /\ Represents(t, x.numbers, x.states[j], s[j])
                    /\ x.rows[j] = Row(t, s[j])
                    /\ \A k \in 1..n : Alike(t, s[j], s[k]) => j = k

LEMMA RegistryIs ==
    ASSUME NEW t, IsTask(t), NEW x, NEW n, n \in Nat, NEW s, IsShelf(t, x, n), Shelves(t, x, n, s)
    PROVE  IsRegistry(t, x) /\ \A j \in 1..n : View(t, x, j) = s[j]
<1>1. ASSUME NEW j \in 1..n PROVE View(t, x, j) = s[j]
    BY ViewOf DEF Shelves
<1>2. DOMAIN x.states = 1..n
    BY DEF IsShelf
<1>3. \A j \in 1..n : \A v \in OfType(t, "regular") : x.states[j][v] \in DOMAIN x.numbers
    BY DEF Represents, Shelves
<1> QED BY <1>1, <1>2, <1>3 DEF IsRegistry, IsShelf, Shelves

LEMMA InitialRegistry ==
    ASSUME NEW t, IsTask(t)
    PROVE  /\ IsRegistry(t, RegisterInitial(t))
           /\ DOMAIN RegisterInitial(t).states = {1}
           /\ View(t, RegisterInitial(t), 1) = InitialState(t)
<1> DEFINE xs == {t.init[v] : v \in OfType(t, "regular")}
           numbers == InternAll(<<>>, xs)
           init == InitialState(t)
           r == RegisterInitial(t)
<1>1. IsState(t, init) /\ IsValued(t, init) /\ \A v \in Numbers(t) : init[v] = t.init[v]
    BY InitialStateFacts, StateFacts
<1>2. IsFiniteSet(xs)
  <2> DEFINE f == [v \in OfType(t, "regular") |-> t.init[v]]
  <2>1. OfType(t, "regular") \in SUBSET Numbers(t) /\ IsFiniteSet(Numbers(t))
      BY TaskFacts DEF IsTask
  <2>2. f \in Surjection(OfType(t, "regular"), xs)
      BY DEF Surjection
  <2>3. IsFiniteSet(OfType(t, "regular"))
      BY <2>1, FS_Subset
  <2>. QED BY <2>2, <2>3, FS_Surjection
<1>3. xs \in SUBSET Int
    BY TaskFacts DEF IsValued
<1>4. IsNumbers(<<>>)
    BY DEF IsNumbers
<1>5. IsNumbers(numbers) /\ \A x \in xs : IdIn(numbers, x) # NotFound
    BY <1>2, <1>3, <1>4, Interning
<1>6. r = [states |-> <<Pack(t, numbers, init)>>, rows |-> <<Row(t, t.init)>>, numbers |-> numbers]
    BY DEF RegisterInitial
<1> HIDE DEF numbers, r
<1>7. \A v \in OfType(t, "regular") : IdIn(numbers, init[v]) # NotFound
    BY <1>1, <1>5, TaskFacts
<1>8. Represents(t, numbers, Pack(t, numbers, init), init)
    BY <1>1, <1>5, <1>7, PackFacts
<1>9. Row(t, t.init) = Row(t, init) /\ Row(t, init) \in [OfType(t, "cost") -> Int]
    BY <1>1, TaskFacts DEF Row, IsValued
<1>10. Pack(t, numbers, init) \in [Packed(t) -> Int]
    BY <1>8 DEF Represents
<1> DEFINE s == <<init>>
<1>11. IsShelf(t, r, 1)
    BY <1>5, <1>6, <1>9, <1>10 DEF IsShelf
<1>12. Shelves(t, r, 1, s)
    BY <1>1, <1>6, <1>8, <1>9 DEF Shelves
<1> HIDE DEF s
<1>13. IsRegistry(t, r) /\ \A j \in 1..1 : View(t, r, j) = s[j]
    BY <1>11, <1>12, RegistryIs
<1>14. DOMAIN r.states = {1} /\ View(t, r, 1) = init
    BY <1>6, <1>13 DEF s
<1> QED BY <1>13, <1>14 DEF r

LEMMA ApplyFacts ==
    ASSUME NEW t, IsTask(t), NEW r, IsRegistry(t, r), NEW c, IsContext(t, r, c),
           NEW o \in DOMAIN t.operators
    PROVE  IsApplied(t, r, c, o, ApplyInContext(t, r, c, o))
<1> DEFINE values == c.values
           raw    == Raw(t, o, values)
           after  == After(t, o, values)
           a      == ApplyInContext(t, r, c, o)
           n      == Len(r.states)
<1>1. PICK numbers, bins, id :
          /\ IsNumbers(numbers) /\ Extends(numbers, r.numbers)
          /\ Represents(t, numbers, bins, after)
          /\ \/ id \in DOMAIN r.states /\ Alike(t, View(t, r, id), after)
             \/ id = NotFound /\ \A j \in DOMAIN r.states : ~ Alike(t, View(t, r, j), after)
          /\ a = [registry |-> Register(t, [r EXCEPT !.numbers = numbers], id, bins, raw),
                  id |-> IF id = NotFound THEN n + 1 ELSE id,
                  cost |-> StepCost(t, MetricValue(t, values), MetricValue(t, raw))]
    BY ApplyParts
<1> DEFINE stored == [r EXCEPT !.numbers = numbers]
           g == a.registry
<1>2. IsState(t, values) /\ IsState(t, after) /\ \A v \in Numbers(t) : after[v] = raw[v]
    BY AfterFacts DEF IsContext
<1>3. IsValued(t, after) /\ after \in [DOMAIN t.init -> Int]
    BY <1>2, StateFacts DEF IsValued
<1>4. /\ r = [states |-> r.states, rows |-> r.rows, numbers |-> r.numbers]
      /\ r.states \in Seq([Packed(t) -> Int]) /\ r.rows \in Seq([OfType(t, "cost") -> Int])
      /\ Len(r.rows) = n /\ n \in Nat /\ DOMAIN r.states = 1..n
    BY DEF IsRegistry
<1>5. \A j \in 1..n : /\ IsState(t, View(t, r, j))
                      /\ Represents(t, numbers, r.states[j], View(t, r, j))
                      /\ r.rows[j] = Row(t, View(t, r, j))
                      /\ \A k \in 1..n : Alike(t, View(t, r, j), View(t, r, k)) => j = k
  <2> SUFFICES ASSUME NEW j \in 1..n
               PROVE  /\ IsState(t, View(t, r, j))
                      /\ Represents(t, numbers, r.states[j], View(t, r, j))
                      /\ r.rows[j] = Row(t, View(t, r, j))
                      /\ \A k \in 1..n : Alike(t, View(t, r, j), View(t, r, k)) => j = k
      OBVIOUS
  <2>1. /\ IsState(t, View(t, r, j)) /\ Represents(t, r.numbers, r.states[j], View(t, r, j))
        /\ r.rows[j] = Row(t, View(t, r, j))
      BY <1>4, ViewFacts
  <2>2. Represents(t, numbers, r.states[j], View(t, r, j))
      BY <1>1, <2>1 DEF Represents, Extends
  <2>3. \A k \in 1..n : Alike(t, View(t, r, j), View(t, r, k)) => j = k
      BY <1>4 DEF IsRegistry
  <2>. QED BY <2>1, <2>2, <2>3
<1>6. Row(t, raw) = Row(t, after) /\ Row(t, after) \in [OfType(t, "cost") -> Int]
  <2>1. OfType(t, "cost") \subseteq Numbers(t) /\ OfType(t, "cost") \subseteq DOMAIN t.init
      BY TaskFacts
  <2>2. \A v \in OfType(t, "cost") : raw[v] = after[v] /\ after[v] \in Int
      BY <1>2, <1>3, <2>1
  <2> HIDE DEF raw, after
  <2>. QED BY <2>2 DEF Row
<1>7. a.cost = StepCost(t, MetricValue(t, values), MetricValue(t, after))
  <2>1. MetricValue(t, raw) = MetricValue(t, after)
      BY <1>2, MetricFacts DEF MetricValue
  <2>. QED BY <1>1, <2>1
<1>8. g = Register(t, stored, id, bins, raw) /\ a.id = IF id = NotFound THEN n + 1 ELSE id
    BY <1>1
<1>9. stored = [states |-> r.states, rows |-> r.rows, numbers |-> numbers]
  <2>1. r = [states |-> r.states, rows |-> r.rows, numbers |-> r.numbers]
      BY <1>4
  <2>. QED BY <2>1
<1>10. bins \in [Packed(t) -> Int]
    BY <1>1 DEF Represents
<1> HIDE DEF values, raw, after, a, stored, n
<1>11. CASE id = NotFound
  <2>1. g = [states |-> Append(r.states, bins), rows |-> Append(r.rows, Row(t, after)), numbers |-> numbers]
      BY <1>6, <1>8, <1>9, <1>11 DEF Register
  <2>2. a.id = n + 1
      BY <1>8, <1>11
  <2>3. \A j \in 1..n : ~ Alike(t, View(t, r, j), after)
    <3>1. NotFound \notin DOMAIN r.states
        BY <1>4 DEF NotFound
    <3>. QED BY <1>1, <1>4, <1>11, <3>1
  <2> DEFINE s == [j \in 1..(n + 1) |-> IF j = n + 1 THEN after ELSE View(t, r, j)]
  <2>4. IsShelf(t, g, n + 1)
    <3>1. g.numbers = numbers /\ g.states = Append(r.states, bins) /\ g.rows = Append(r.rows, Row(t, after))
        BY <2>1
    <3>2. g = [states |-> g.states, rows |-> g.rows, numbers |-> g.numbers]
        BY <2>1
    <3>3. g.states \in Seq([Packed(t) -> Int]) /\ Len(g.states) = n + 1
        BY <1>4, <1>10, <3>1 DEF n
    <3>4. g.rows \in Seq([OfType(t, "cost") -> Int]) /\ Len(g.rows) = n + 1
        BY <1>4, <1>6, <3>1
    <3>. QED BY <1>1, <3>1, <3>2, <3>3, <3>4 DEF IsShelf
  <2>5. \A j \in 1..n : g.states[j] = r.states[j] /\ g.rows[j] = r.rows[j] /\ s[j] = View(t, r, j)
      BY <1>4, <2>1 DEF n
  <2>6. g.states[n + 1] = bins /\ g.rows[n + 1] = Row(t, after) /\ s[n + 1] = after /\ g.numbers = numbers
      BY <1>4, <2>1 DEF n
  <2>7. \A j \in 1..(n + 1) : j \in 1..n \/ j = n + 1
    <3>1. n \in Nat
        BY <1>4
    <3>. QED BY <3>1
  <2>8. \A j \in 1..n : ~ Alike(t, after, View(t, r, j))
      BY <2>3 DEF Alike
  <2> HIDE DEF s
  <2>9. Shelves(t, g, n + 1, s)
      BY <1>1, <1>2, <1>5, <2>3, <2>5, <2>6, <2>7, <2>8 DEF after, Shelves
  <2>10. n \in Nat /\ n + 1 \in Nat
    <3>1. n \in Nat
        BY <1>4
    <3>. QED BY <3>1
  <2>11. IsRegistry(t, g) /\ \A j \in 1..(n + 1) : View(t, g, j) = s[j]
      BY <2>4, <2>9, <2>10, RegistryIs
  <2>12. DOMAIN g.states = 1..(n + 1) /\ n + 1 \notin 1..n /\ n + 1 \in 1..(n + 1) /\ 1..n \subseteq 1..(n + 1)
      BY <2>4, <2>10 DEF IsShelf
  <2>13. View(t, g, a.id) = after /\ \A j \in 1..n : View(t, g, j) = View(t, r, j)
    <3>1. View(t, g, n + 1) = s[n + 1] /\ \A j \in 1..n : View(t, g, j) = s[j]
        BY <2>11, <2>12
    <3>. QED BY <2>2, <2>5, <2>6, <3>1
  <2>14. a.id \notin DOMAIN r.states /\ DOMAIN g.states = DOMAIN r.states \cup {a.id} /\ a.id \in DOMAIN g.states
      BY <1>4, <2>2, <2>7, <2>12
  <2>. QED BY <1>4, <1>7, <2>11, <2>13, <2>14 DEF IsApplied, after, values, a
<1>12. CASE id # NotFound
  <2>1. id \in 1..n /\ Alike(t, View(t, r, id), after) /\ a.id = id
      BY <1>1, <1>4, <1>8, <1>12
  <2>2. g = IF KeepsRow(t, r.rows[id], raw) THEN stored ELSE [stored EXCEPT !.rows[id] = Row(t, after)]
      BY <1>6, <1>8, <1>9, <1>12 DEF Register
  <2>3. KeepsRow(t, r.rows[id], raw) <=> KeepsRow(t, View(t, r, id), after)
    <3>1. CASE t.metric \in OfType(t, "cost")
      <4>1. View(t, r, id)[t.metric] = r.rows[id][t.metric]
          BY <1>4, <2>1, <3>1, ViewFacts
      <4>2. after[t.metric] = raw[t.metric]
          BY <1>2, <3>1, TaskFacts DEF after, raw
      <4>. QED BY <4>1, <4>2 DEF KeepsRow
    <3>2. CASE t.metric \notin OfType(t, "cost")
        BY <3>2 DEF KeepsRow
    <3>. QED BY <3>1, <3>2
  <2> DEFINE s == [j \in 1..n |-> IF j = id /\ ~ KeepsRow(t, r.rows[id], raw) THEN after ELSE View(t, r, j)]
  <2>4. /\ g = [states |-> r.states, rows |-> g.rows, numbers |-> numbers]
        /\ g.rows \in Seq([OfType(t, "cost") -> Int]) /\ Len(g.rows) = n
        /\ \A j \in 1..n : g.rows[j] = IF j = id /\ ~ KeepsRow(t, r.rows[id], raw) THEN Row(t, after)
                                       ELSE r.rows[j]
    <3>1. CASE KeepsRow(t, r.rows[id], raw)
        BY <3>1, <1>4, <1>9, <2>2
    <3>2. CASE ~ KeepsRow(t, r.rows[id], raw)
      <4>1. g = [states |-> r.states, rows |-> [r.rows EXCEPT ![id] = Row(t, after)], numbers |-> numbers]
          BY <3>2, <1>9, <2>2
      <4>. QED BY <3>2, <4>1, <1>4, <1>6, <2>1
    <3>. QED BY <3>1, <3>2
  <2>5. Represents(t, numbers, r.states[id], after)
    <3>1. Represents(t, numbers, r.states[id], View(t, r, id))
        BY <1>5, <2>1
    <3>2. SameOn(Packed(t), View(t, r, id), after)
        BY <1>2, <1>5, <2>1, LikeStates DEF after
    <3>. QED BY <3>1, <3>2 DEF Represents, SameOn, Packed
  <2>6. \A j \in 1..n : \/ j = id /\ s[j] = after /\ g.rows[j] = Row(t, after)
                        \/ s[j] = View(t, r, j) /\ g.rows[j] = r.rows[j]
      BY <2>4
  <2>7. \A j \in 1..n : Alike(t, s[j], View(t, r, j)) /\ Alike(t, View(t, r, j), s[j])
      BY <2>1, <2>6 DEF Alike
  <2> HIDE DEF s
  <2>8. \A j, k \in 1..n : Alike(t, s[j], s[k]) => j = k
    <3>1. \A j, k \in 1..n : Alike(t, s[j], s[k]) => Alike(t, View(t, r, j), View(t, r, k))
        BY <2>7 DEF Alike
    <3>. QED BY <1>5, <3>1
  <2>9. g.numbers = numbers /\ g.states = r.states
      BY <2>4
  <2>10. Shelves(t, g, n, s)
      BY <1>2, <1>5, <2>5, <2>6, <2>8, <2>9 DEF after, Shelves
  <2>11. IsShelf(t, g, n)
      BY <1>1, <1>4, <2>4, <2>9 DEF n, IsShelf
  <2>12. IsRegistry(t, g) /\ \A j \in 1..n : View(t, g, j) = s[j]
    <3>1. n \in Nat
        BY <1>4
    <3>. QED BY <3>1, <2>10, <2>11, RegistryIs
  <2>13. DOMAIN g.states = 1..n /\ DOMAIN r.states = 1..n /\ 1..n = 1..n \cup {id}
      BY <1>4, <2>1, <2>9
  <2>14. \A j \in 1..n : j # id => View(t, g, j) = View(t, r, j)
      BY <2>12 DEF s
  <2>15. \/ View(t, g, id) = after /\ ~ KeepsRow(t, View(t, r, id), after)
         \/ View(t, g, id) = View(t, r, id) /\ KeepsRow(t, View(t, r, id), after)
      BY <2>1, <2>3, <2>12 DEF s
  <2>. QED BY <1>7, <2>1, <2>12, <2>13, <2>14, <2>15 DEF IsApplied, after, values, a
<1> QED BY <1>11, <1>12

-----------------------------------------------------------------------------
(* What a search of the task reaches *)

\* The registry of a search: its states can be reached, and the first is the initial one.
IsReached(r) ==
    /\ IsRegistry(task, r)
    /\ 1 \in DOMAIN r.states
    /\ Alike(task, View(task, r, 1), InitialState(task))
    /\ \A i \in DOMAIN r.states : WithoutRows(task, View(task, r, i)) \in StatesOf(task)

\* A node for each state.
HasNodes(r, n) ==
    /\ n \in [StateIds -> Space!SearchNode]
    /\ \A i \in StateIds : n[i].present <=> i \in DOMAIN r.states

\* The operator that a node records leads from its parent to its state, no matter how
\* the parent was reached since; the cost it records covers the parent's.
IsReachedBy(r, n, i, p, o, g) ==
    /\ p \in DOMAIN r.states
    /\ o \in Applicable(task, View(task, r, p))
    /\ Alike(task, After(task, o, View(task, r, p)), View(task, r, i))
    /\ n[p].g + Price(task, o, View(task, r, p)) <= g
PathsAreSound(r, n) ==
    /\ n[1].parent = NotFound /\ n[1].g = 0
    /\ \A i \in DOMAIN r.states \ {1} : IsReachedBy(r, n, i, n[i].parent, n[i].operator, n[i].g)

\* Every parent was reached another way: no states are only each other's parents.
IsRooted(r, n) ==
    \A T \in SUBSET (DOMAIN r.states \ {1}) : T # {} => \E i \in T : n[i].parent \notin T

\* The row of a state has the cost of its node.
RowsAgree(r, n) ==
    task.metric # NoMetric =>
        \A i \in DOMAIN r.states :
            /\ Gained(View(task, r, i)) <= n[i].g
            /\ ~ n[i].deadEnd => Gained(View(task, r, i)) = n[i].g

IsSearch(r, n) ==
    IsReached(r) /\ HasNodes(r, n) /\ PathsAreSound(r, n) /\ IsRooted(r, n) /\ RowsAgree(r, n)

\* What is known of the explicit state space.
LEMMA ExplicitStates ==
    \A t \in Tasks :
        /\ IsFiniteSet(StatesOf(t)) /\ Cardinality(StatesOf(t)) <= MaxStates
        /\ \A s \in StatesOf(t) : IsState(t, s)
        /\ ContainsAllReachable(t, StatesOf(t))
        /\ \A S \in SUBSET StatesOf(t) : ContainsAllReachable(t, S) => S = StatesOf(t)
<1> QED BY StatesAssumption DEF IsStateSpace

LEMMA PricesArePaid ==
    \A t \in Tasks : \A s \in StatesOf(t) : \A o \in Applicable(t, s) : Price(t, o, s) >= 0
<1> QED BY PricesAssumption DEF PricesAreNatural

LEMMA TrueDistancesFacts ==
    \A t \in Tasks :
        LET d == TrueDistances[t]
            through(s, o) == Price(t, o, s) + d[Successor(t, o, s)]
        IN  /\ d \in [StatesOf(t) -> 0..Infinite]
            /\ \A s \in StatesOf(t) : IsGoalState(t, s) => d[s] = 0
            /\ \A s \in StatesOf(t) : \A o \in Applicable(t, s) : d[s] <= through(s, o)
            /\ \A s \in StatesOf(t) : \A o \in Applicable(t, s) :
                   d[s] = Infinite => d[Successor(t, o, s)] = Infinite
            /\ \A S \in SUBSET {s \in StatesOf(t) : ~ IsGoalState(t, s) /\ d[s] < Infinite} :
                   S # {} => \E s \in S : \E o \in Applicable(t, s) :
                                 Successor(t, o, s) \notin S /\ d[s] = through(s, o)
<1> SUFFICES ASSUME NEW t \in Tasks PROVE AreGoalDistances(t, TrueDistances[t])
    BY DEF AreGoalDistances, StatesOf
<1> QED BY DistancesAssumption

LEMMA TaskIsTask == ASSUME task \in Tasks PROVE IsTask(task)
    BY TasksAssumption

\* Registered states are different states, so there are no more of them.
LEMMA IdsAreBounded ==
    ASSUME task \in Tasks, NEW r, IsReached(r)
    PROVE  DOMAIN r.states \subseteq StateIds
<1> DEFINE n == Len(r.states)
           f == [i \in 1..n |-> WithoutRows(task, View(task, r, i))]
<1>1. IsTask(task) /\ IsRegistry(task, r)
    BY TaskIsTask DEF IsReached
<1>2. n \in Nat /\ DOMAIN r.states = 1..n
    BY <1>1 DEF IsRegistry
<1>3. f \in [1..n -> StatesOf(task)]
    BY <1>2 DEF IsReached
<1>4. ASSUME NEW i \in 1..n, NEW j \in 1..n, f[i] = f[j]
      PROVE  i = j
  <2>1. IsValued(task, View(task, r, i)) /\ IsValued(task, View(task, r, j))
      BY <1>1, <1>2, ViewFacts, StateFacts
  <2>2. Alike(task, View(task, r, i), View(task, r, j))
      BY <1>1, <1>4, <2>1, IdentityFacts
  <2>. QED BY <1>1, <1>2, <2>2 DEF IsRegistry
<1> HIDE DEF f
<1>5. f \in Injection(1..n, StatesOf(task))
    BY <1>3, <1>4 DEF Injection, IsInjective
<1>6. IsFiniteSet(StatesOf(task)) /\ Cardinality(StatesOf(task)) <= MaxStates
    BY ExplicitStates
<1>7. Cardinality(1..n) <= Cardinality(StatesOf(task))
    BY <1>5, <1>6, FS_Injection
<1>8. Cardinality(1..n) = n
    BY <1>2, FS_Interval
<1>9. Cardinality(StatesOf(task)) \in Nat /\ MaxStates \in Nat
    BY <1>6, FS_CardinalityType, MaxStatesAssumption
<1>10. n <= MaxStates
    BY <1>2, <1>6, <1>7, <1>8, <1>9
<1> QED BY <1>2, <1>9, <1>10 DEF StateIds

\* Applying an operator costs something or nothing, and leads to a state of the task.
LEMMA ReachableFacts ==
    ASSUME NEW t \in Tasks, NEW s, IsState(t, s), WithoutRows(t, s) \in StatesOf(t),
           NEW o \in Applicable(t, s)
    PROVE  /\ o \in DOMAIN t.operators /\ o \in OperatorNames
           /\ Price(t, o, s) \in Nat
           /\ Price(t, o, s) = Price(t, o, WithoutRows(t, s))
           /\ o \in Applicable(t, WithoutRows(t, s))
           /\ IsState(t, After(t, o, s))
           /\ WithoutRows(t, After(t, o, s)) \in StatesOf(t)
           /\ WithoutRows(t, After(t, o, s)) = Successor(t, o, WithoutRows(t, s))
<1> DEFINE w == WithoutRows(t, s)
<1>1. IsTask(t)
    BY TasksAssumption
<1>2. o \in DOMAIN t.operators /\ o \in OperatorNames
    BY OperatorNamesAssumption DEF Applicable
<1>3. IsState(t, w) /\ Alike(t, s, w)
    BY <1>1, StateFacts, IdentityFacts
<1>4. /\ Applicable(t, s) = Applicable(t, w)
      /\ Alike(t, After(t, o, s), After(t, o, w))
      /\ Price(t, o, s) \in Int /\ Price(t, o, s) = Price(t, o, w)
    BY <1>1, <1>2, <1>3, LikeSteps
<1>5. Price(t, o, w) >= 0
    BY <1>4, PricesArePaid
<1>6. IsState(t, After(t, o, s)) /\ IsState(t, After(t, o, w))
    BY <1>1, <1>2, <1>3, AfterFacts
<1>7. WithoutRows(t, After(t, o, s)) = WithoutRows(t, After(t, o, w))
    BY <1>1, <1>4, <1>6, StateFacts, IdentityFacts
<1>8. Successor(t, o, w) \in StatesOf(t)
    BY <1>4, ExplicitStates DEF ContainsAllReachable
<1> HIDE DEF w
<1>9. WithoutRows(t, After(t, o, s)) = Successor(t, o, w)
    BY <1>7 DEF Successor
<1>10. Price(t, o, s) \in Nat
    BY <1>4, <1>5
<1> QED BY <1>2, <1>4, <1>6, <1>8, <1>9, <1>10 DEF w

LEMMA GainedFacts ==
    ASSUME task \in Tasks, task.metric # NoMetric, NEW s, IsState(task, s)
    PROVE  /\ Gained(s) \in Int
           /\ \A o \in DOMAIN task.operators : Gained(After(task, o, s)) = Gained(s) + Price(task, o, s)
           /\ Gained(InitialState(task)) = 0
           /\ \A r : IsState(task, r) /\ Alike(task, r, s) =>
                  /\ KeepsRow(task, r, s) => Gained(r) < Gained(s)
                  /\ ~ KeepsRow(task, r, s) => Gained(s) <= Gained(r)
                  /\ task.metric \notin OfType(task, "cost") => Gained(s) = Gained(r)
<1> DEFINE m == task.metric
<1>1. IsTask(task)
    BY TaskIsTask
<1>2. m \in Numbers(task) /\ m \in DOMAIN task.init
    BY <1>1, MetricFacts, TaskFacts
<1>3. \A r : IsState(task, r) => r[m] \in Int
    BY <1>2 DEF IsState
<1>4. task.init[m] \in Int
    BY <1>1, <1>2, TaskFacts DEF IsValued
<1>5. \A r : Gained(r) = IF task.minimised THEN r[m] - task.init[m] ELSE task.init[m] - r[m]
    BY DEF Gained, StepCost
<1>6. \A o \in DOMAIN task.operators :
          /\ Price(task, o, s) = IF task.minimised THEN After(task, o, s)[m] - s[m]
                                 ELSE s[m] - After(task, o, s)[m]
          /\ After(task, o, s)[m] \in Int
    BY <1>1, <1>3, AfterFacts DEF Price, StepCost, MetricValue
<1>7. \A o \in DOMAIN task.operators : Gained(After(task, o, s)) = Gained(s) + Price(task, o, s)
  <2> SUFFICES ASSUME NEW o \in DOMAIN task.operators
               PROVE  Gained(After(task, o, s)) = Gained(s) + Price(task, o, s)
      OBVIOUS
  <2> DEFINE x == After(task, o, s)[m]
             y == s[m]
             z == task.init[m]
  <2>1. x \in Int /\ y \in Int /\ z \in Int
      BY <1>3, <1>4, <1>6
  <2>2. /\ Gained(After(task, o, s)) = IF task.minimised THEN x - z ELSE z - x
        /\ Gained(s) = IF task.minimised THEN y - z ELSE z - y
        /\ Price(task, o, s) = IF task.minimised THEN x - y ELSE y - x
      BY <1>5, <1>6
  <2> HIDE DEF x, y, z
  <2>. QED BY <2>1, <2>2
<1>8. InitialState(task)[m] = task.init[m]
    BY <1>1, <1>2, InitialStateFacts
<1>9. ASSUME NEW r, IsState(task, r), Alike(task, r, s)
      PROVE  /\ KeepsRow(task, r, s) => Gained(r) < Gained(s)
             /\ ~ KeepsRow(task, r, s) => Gained(s) <= Gained(r)
             /\ m \notin OfType(task, "cost") => Gained(s) = Gained(r)
  <2>1. r[m] \in Int /\ s[m] \in Int
      BY <1>3, <1>9
  <2>2. CASE m \notin OfType(task, "cost")
    <3>1. r[m] = s[m]
        BY <1>2, <1>9, <2>2 DEF Alike
    <3>2. Gained(r) = Gained(s) /\ Gained(s) \in Int
        BY <1>4, <1>5, <2>1, <3>1
    <3>. QED BY <2>2, <3>2 DEF KeepsRow
  <2>3. CASE m \in OfType(task, "cost")
      BY <1>4, <1>5, <2>1, <2>3 DEF KeepsRow
  <2>. QED BY <2>2, <2>3
<1>10. Gained(s) \in Int /\ Gained(InitialState(task)) = 0
    BY <1>3, <1>4, <1>5, <1>8
<1> QED BY <1>7, <1>9, <1>10

\* What SearchNodes::reach does.
LEMMA ReachCases ==
    ASSUME NEW n, NEW id, NEW p, NEW o, NEW g, n \in [StateIds -> Space!SearchNode], id \in StateIds,
           p \in StateIds \cup {NotFound}, o \in OperatorNames \cup {NoOperator}, g \in Nat
    PROVE  LET m == Space!Reach(n, id, p, o, g)
           IN  \/ m = n /\ n[id].present /\ (n[id].deadEnd \/ n[id].g <= g)
               \/ /\ n[id].present => ~ n[id].deadEnd /\ g < n[id].g
                  /\ m \in [StateIds -> Space!SearchNode]
                  /\ \A i \in StateIds : i # id => m[i] = n[i]
                  /\ m[id] = Space!NewPath(p, o, g)
<1>1. n[id].g \in Nat
    BY DEF Space!SearchNode
<1>2. CASE Space!Reached(n, id, g) = "Duplicate"
    BY <1>2 DEF Space!Reach, Space!Reached
<1>3. CASE Space!Reached(n, id, g) # "Duplicate"
  <2>1. Space!Reach(n, id, p, o, g) = [n EXCEPT ![id] = Space!NewPath(p, o, g)]
      BY <1>3 DEF Space!Reach
  <2>2. Space!NewPath(p, o, g) \in Space!SearchNode
      BY DEF Space!NewPath, Space!SearchNode
  <2>3. n[id].present => ~ n[id].deadEnd /\ g < n[id].g
      BY <1>1, <1>3 DEF Space!Reached
  <2>. QED BY <2>1, <2>2, <2>3
<1> QED BY <1>2, <1>3

LEMMA AlikeTrans ==
    \A t, a, b, d : Alike(t, a, b) /\ Alike(t, b, d) => Alike(t, a, d)
    BY DEF Alike
LEMMA AlikeSym ==
    \A t, a, b : Alike(t, a, b) => Alike(t, b, a)
    BY DEF Alike
LEMMA AlikeSelf ==
    \A t, a : Alike(t, a, a)
    BY DEF Alike

\* What an operator does to the registry, whichever task it is of.
LEMMA AppliedFacts ==
    ASSUME NEW t, IsTask(t), NEW r, IsRegistry(t, r), NEW c, IsContext(t, r, c),
           NEW o \in DOMAIN t.operators, NEW a, IsApplied(t, r, c, o, a)
    PROVE  /\ IsRegistry(t, a.registry)
           /\ a.id \in DOMAIN a.registry.states
           /\ DOMAIN a.registry.states = DOMAIN r.states \cup {a.id}
           /\ IsState(t, After(t, o, c.values))
           /\ Alike(t, View(t, a.registry, a.id), After(t, o, c.values))
           /\ \A j \in DOMAIN r.states : Alike(t, View(t, a.registry, j), View(t, r, j))
           /\ IsContext(t, a.registry, c)
<1> DEFINE after == After(t, o, c.values)
           g == a.registry
<1>1. IsState(t, after)
    BY AfterFacts DEF IsContext
<1>2. /\ IsRegistry(t, g) /\ a.id \in DOMAIN g.states /\ DOMAIN g.states = DOMAIN r.states \cup {a.id}
      /\ \A j \in DOMAIN r.states : j # a.id => View(t, g, j) = View(t, r, j)
      /\ a.id \in DOMAIN r.states => Alike(t, View(t, r, a.id), after)
      /\ \/ View(t, g, a.id) = after
         \/ View(t, g, a.id) = View(t, r, a.id) /\ a.id \in DOMAIN r.states
    BY DEF IsApplied
<1> HIDE DEF after, g
<1>3. Alike(t, View(t, g, a.id), after)
    BY <1>2, AlikeSelf
<1>4. \A j \in DOMAIN r.states : Alike(t, View(t, g, j), View(t, r, j))
    BY <1>2, <1>3, AlikeSelf, AlikeSym, AlikeTrans
<1>5. IsContext(t, g, c)
    BY <1>2, <1>4, AlikeTrans DEF IsContext
<1> QED BY <1>1, <1>2, <1>3, <1>4, <1>5 DEF after, g

LEMMA ContextIsReached ==
    ASSUME task \in Tasks, NEW r, IsReached(r), NEW c, IsContext(task, r, c)
    PROVE  IsState(task, c.values) /\ WithoutRows(task, c.values) \in StatesOf(task)
<1>1. IsTask(task) /\ IsRegistry(task, r)
    BY TaskIsTask DEF IsReached
<1>2. IsState(task, View(task, r, c.parent)) /\ IsState(task, c.values)
    BY <1>1, ViewFacts DEF IsContext
<1>3. WithoutRows(task, View(task, r, c.parent)) = WithoutRows(task, c.values)
    BY <1>1, <1>2, StateFacts, IdentityFacts DEF IsContext
<1> QED BY <1>2, <1>3 DEF IsReached, IsContext

LEMMA ReachedGrows ==
    ASSUME task \in Tasks, NEW r, IsReached(r), NEW c, IsContext(task, r, c),
           NEW o \in Applicable(task, c.values), NEW a, IsApplied(task, r, c, o, a)
    PROVE  IsReached(a.registry)
<1> DEFINE g == a.registry
           after == After(task, o, c.values)
<1>1. IsTask(task) /\ IsRegistry(task, r) /\ 1 \in DOMAIN r.states /\ Alike(task, View(task, r, 1), InitialState(task))
    BY TaskIsTask DEF IsReached
<1>2. o \in DOMAIN task.operators
    BY DEF Applicable
<1>3. /\ IsRegistry(task, g) /\ a.id \in DOMAIN g.states /\ DOMAIN g.states = DOMAIN r.states \cup {a.id}
      /\ IsState(task, after) /\ Alike(task, View(task, g, a.id), after)
      /\ \A j \in DOMAIN r.states : Alike(task, View(task, g, j), View(task, r, j))
    BY <1>1, <1>2, AppliedFacts
<1>4. WithoutRows(task, after) \in StatesOf(task)
    BY ContextIsReached, ReachableFacts
<1> HIDE DEF g, after
<1>5. ASSUME NEW i \in DOMAIN g.states
      PROVE  WithoutRows(task, View(task, g, i)) \in StatesOf(task)
  <2>1. IsValued(task, View(task, g, i))
      BY <1>1, <1>3, ViewFacts, StateFacts
  <2>2. CASE i = a.id
    <3>1. WithoutRows(task, View(task, g, i)) = WithoutRows(task, after)
        BY <1>1, <1>3, <2>1, <2>2, IdentityFacts, StateFacts
    <3>. QED BY <1>4, <3>1
  <2>3. CASE i \in DOMAIN r.states
    <3>1. WithoutRows(task, View(task, g, i)) = WithoutRows(task, View(task, r, i))
        BY <1>1, <1>3, <2>1, <2>3, IdentityFacts, StateFacts, ViewFacts
    <3>. QED BY <2>3, <3>1 DEF IsReached
  <2>. QED BY <1>3, <2>2, <2>3
<1>6. Alike(task, View(task, g, 1), InitialState(task))
    BY <1>1, <1>3, AlikeTrans
<1> QED BY <1>1, <1>3, <1>5, <1>6 DEF IsReached, g

\* One way to a state is as good as another: a path remains one when rows change, and
\* when its parent is reached cheaper.
LEMMA PathStays ==
    ASSUME task \in Tasks, NEW r, IsReached(r), NEW n, NEW s, IsReached(s), NEW m,
           HasNodes(r, n), HasNodes(s, m),
           \A j \in DOMAIN r.states : j \in DOMAIN s.states /\ Alike(task, View(task, s, j), View(task, r, j)),
           \A j \in DOMAIN r.states : m[j].g <= n[j].g,
           NEW i \in DOMAIN r.states, NEW p, NEW o, NEW g \in Int, IsReachedBy(r, n, i, p, o, g)
    PROVE  IsReachedBy(s, m, i, p, o, g)
<1>1. IsTask(task) /\ IsRegistry(task, r) /\ IsRegistry(task, s)
    BY TaskIsTask DEF IsReached
<1>2. p \in DOMAIN r.states /\ p \in DOMAIN s.states /\ Alike(task, View(task, s, p), View(task, r, p))
    BY DEF IsReachedBy
<1>3. IsState(task, View(task, r, p)) /\ IsState(task, View(task, s, p))
    BY <1>1, <1>2, ViewFacts
<1>4. o \in Applicable(task, View(task, r, p)) /\ o \in DOMAIN task.operators
    BY DEF IsReachedBy, Applicable
<1>5. /\ Applicable(task, View(task, s, p)) = Applicable(task, View(task, r, p))
      /\ Alike(task, After(task, o, View(task, s, p)), After(task, o, View(task, r, p)))
      /\ Price(task, o, View(task, s, p)) \in Int
      /\ Price(task, o, View(task, s, p)) = Price(task, o, View(task, r, p))
    BY <1>1, <1>2, <1>3, <1>4, LikeSteps
<1>6. Alike(task, After(task, o, View(task, s, p)), View(task, s, i))
    BY <1>5, AlikeTrans, AlikeSym DEF IsReachedBy
<1>7. n[p].g \in Int /\ m[p].g \in Int
    BY <1>2, IdsAreBounded DEF HasNodes, Space!SearchNode
<1>8. m[p].g <= n[p].g
    BY <1>2
<1>9. n[p].g + Price(task, o, View(task, r, p)) <= g
    BY DEF IsReachedBy
<1>10. m[p].g + Price(task, o, View(task, s, p)) <= g
    BY <1>5, <1>7, <1>8, <1>9
<1> QED BY <1>2, <1>4, <1>5, <1>6, <1>10 DEF IsReachedBy

\* A state that is reached another way is not on the way to its new parent, which is
\* reached at no more cost.
IsRerouted(r, n, id, p, g, m) ==
    /\ p \in DOMAIN r.states /\ g \in Nat /\ n[p].g <= g
    /\ id \in DOMAIN r.states => g < n[id].g
    /\ m[id].parent = p
    /\ \A i \in DOMAIN r.states : i # id => m[i] = n[i]
LEMMA RootsStay ==
    ASSUME task \in Tasks, NEW r, NEW n, IsReached(r), HasNodes(r, n), PathsAreSound(r, n), IsRooted(r, n),
           NEW id, NEW p, NEW g, NEW m, IsRerouted(r, n, id, p, g, m),
           NEW T, T \in SUBSET ((DOMAIN r.states \cup {id}) \ {1}), T # {}
    PROVE  \E i \in T : m[i].parent \notin T
<1> USE DEF IsRerouted
<1> SUFFICES ASSUME \A i \in T : m[i].parent \in T PROVE FALSE
    OBVIOUS
<1>1. \A i \in DOMAIN r.states : n[i].g \in Nat
    BY IdsAreBounded DEF HasNodes, Space!SearchNode
<1>2. \A i \in DOMAIN r.states \ {1} : n[i].parent \in DOMAIN r.states /\ n[n[i].parent].g <= n[i].g
  <2> SUFFICES ASSUME NEW i \in DOMAIN r.states \ {1}
               PROVE  n[i].parent \in DOMAIN r.states /\ n[n[i].parent].g <= n[i].g
      OBVIOUS
  <2> DEFINE q == n[i].parent
             o == n[i].operator
  <2>1. /\ q \in DOMAIN r.states /\ o \in Applicable(task, View(task, r, q))
        /\ n[q].g + Price(task, o, View(task, r, q)) <= n[i].g
      BY DEF PathsAreSound, IsReachedBy
  <2>2. IsState(task, View(task, r, q)) /\ WithoutRows(task, View(task, r, q)) \in StatesOf(task)
      BY <2>1, TaskIsTask, ViewFacts DEF IsReached
  <2>3. Price(task, o, View(task, r, q)) \in Nat
      BY <2>1, <2>2, ReachableFacts
  <2> HIDE DEF q, o
  <2>4. n[q].g \in Nat /\ n[i].g \in Nat
      BY <1>1, <2>1
  <2>5. n[q].g <= n[i].g
      BY <2>1, <2>3, <2>4
  <2>. QED BY <2>1, <2>5 DEF q
<1>3. CASE id \notin T
  <2>1. T \in SUBSET (DOMAIN r.states \ {1}) /\ \A i \in T : m[i] = n[i]
      BY <1>3
  <2>2. \E i \in T : n[i].parent \notin T
      BY <2>1 DEF IsRooted
  <2>. QED BY <2>1, <2>2
<1>4. CASE id \in T /\ id \notin DOMAIN r.states
  <2> DEFINE U == T \ {id}
  <2>1. p \in U
      BY <1>4
  <2>2. U \in SUBSET (DOMAIN r.states \ {1}) /\ U # {}
      BY <2>1
  <2>3. PICK i \in U : n[i].parent \notin U
      BY <2>2 DEF IsRooted
  <2>4. n[i].parent \in T /\ n[i].parent \in DOMAIN r.states
      BY <1>2, <2>2, <2>3
  <2>. QED BY <1>4, <2>3, <2>4
<1>5. CASE id \in T /\ id \in DOMAIN r.states
  <2> DEFINE U == {i \in T : n[i].g < n[id].g}
  <2>1. p \in U
    <3>1. p \in T
        BY <1>5
    <3>2. n[p].g < n[id].g
        BY <1>1, <1>5
    <3>. QED BY <3>1, <3>2
  <2>2. U \in SUBSET (DOMAIN r.states \ {1}) /\ U # {}
      BY <1>5, <2>1
  <2>3. PICK i \in U : n[i].parent \notin U
      BY <2>2 DEF IsRooted
  <2>4. i # id /\ i \in DOMAIN r.states \ {1}
      BY <1>1, <1>5, <2>2, <2>3
  <2>5. n[i].parent \in T
      BY <2>3, <2>4
  <2>6. n[n[i].parent].g <= n[i].g /\ n[i].g < n[id].g /\ n[i].parent \in DOMAIN r.states
      BY <1>2, <2>3, <2>4
  <2>7. n[n[i].parent].g < n[id].g
      BY <1>1, <1>5, <2>4, <2>6
  <2>. QED BY <2>3, <2>5, <2>7
<1> QED BY <1>3, <1>4, <1>5

\* While the successors of a state are reached, its values are those read at first.
IsExpanding(x, c, g) ==
    /\ IsSearch(x.registry, x.nodes)
    /\ IsContext(task, x.registry, c)
    /\ x.nodes[c.parent].g = g
    /\ task.metric # NoMetric => Gained(c.values) = g

LEMMA PathCostFacts ==
    ASSUME task \in Tasks, NEW r, IsReached(r), NEW c, IsContext(task, r, c),
           NEW o \in Applicable(task, c.values), NEW a, IsApplied(task, r, c, o, a), NEW g \in Nat
    PROVE  /\ PathCost(g, o, a.cost) = g + Price(task, o, c.values)
           /\ Price(task, o, c.values) \in Nat
           /\ PathCost(g, o, a.cost) \in Nat
<1>1. IsTask(task) /\ IsState(task, c.values) /\ o \in DOMAIN task.operators
    BY TaskIsTask DEF IsContext, Applicable
<1>2. Price(task, o, c.values) \in Nat
    BY ContextIsReached, ReachableFacts
<1>3. a.cost = StepCost(task, MetricValue(task, c.values), MetricValue(task, After(task, o, c.values)))
    BY DEF IsApplied
<1>4. PathCost(g, o, a.cost) = g + Price(task, o, c.values)
    BY <1>3 DEF PathCost, Price
<1> QED BY <1>2, <1>4

\* Rows and nodes keep different paths, and agree on their cost.
LEMMA RowsStay ==
    ASSUME task \in Tasks, task.metric # NoMetric, NEW r, IsReached(r), NEW c, IsContext(task, r, c),
           NEW o \in Applicable(task, c.values), NEW a, IsApplied(task, r, c, o, a),
           NEW n, HasNodes(r, n), RowsAgree(r, n), NEW g \in Nat, Gained(c.values) = g,
           NEW m, HasNodes(a.registry, m),
           \A i \in StateIds : i # a.id => m[i] = n[i],
           \/ m = n /\ n[a.id].present /\ (n[a.id].deadEnd \/ n[a.id].g <= PathCost(g, o, a.cost))
           \/ /\ n[a.id].present => ~ n[a.id].deadEnd /\ PathCost(g, o, a.cost) < n[a.id].g
              /\ m[a.id].g = PathCost(g, o, a.cost)
    PROVE  RowsAgree(a.registry, m)
<1> DEFINE s     == a.registry
           after == After(task, o, c.values)
           pc    == PathCost(g, o, a.cost)
           old   == View(task, r, a.id)
           new   == View(task, s, a.id)
<1>1. IsTask(task) /\ IsState(task, c.values) /\ o \in DOMAIN task.operators /\ IsRegistry(task, r)
    BY TaskIsTask DEF IsContext, Applicable, IsReached
<1>2. IsReached(s)
    BY ReachedGrows
<1>3. DOMAIN s.states \subseteq StateIds /\ DOMAIN s.states = DOMAIN r.states \cup {a.id}
    BY <1>2, IdsAreBounded DEF IsApplied
<1>4. pc = g + Price(task, o, c.values) /\ pc \in Nat
    BY PathCostFacts
<1>5. IsState(task, after) /\ Gained(after) = pc /\ Gained(after) \in Int
    BY <1>1, <1>4, AfterFacts, GainedFacts
<1>6. ASSUME NEW i \in DOMAIN r.states
      PROVE  /\ Gained(View(task, r, i)) \in Int /\ n[i].g \in Nat /\ n[i].present
             /\ Gained(View(task, r, i)) <= n[i].g
             /\ ~ n[i].deadEnd => Gained(View(task, r, i)) = n[i].g
  <2>1. IsState(task, View(task, r, i)) /\ i \in StateIds
      BY <1>1, <1>3, ViewFacts
  <2>2. Gained(View(task, r, i)) \in Int
      BY <2>1, GainedFacts
  <2>. QED BY <2>1, <2>2 DEF RowsAgree, HasNodes, Space!SearchNode
<1>7. \A i \in DOMAIN r.states : i # a.id => View(task, s, i) = View(task, r, i)
    BY DEF IsApplied
<1>8. a.id \in StateIds /\ a.id \in DOMAIN s.states
    BY <1>3
<1>9. \/ new = after /\ (a.id \in DOMAIN r.states => ~ KeepsRow(task, old, after))
      \/ new = old /\ a.id \in DOMAIN r.states /\ KeepsRow(task, old, after)
    BY DEF IsApplied
<1>10. a.id \in DOMAIN r.states =>
           /\ KeepsRow(task, old, after) => Gained(old) < Gained(after)
           /\ ~ KeepsRow(task, old, after) => Gained(after) <= Gained(old)
  <2> SUFFICES ASSUME a.id \in DOMAIN r.states
               PROVE  /\ KeepsRow(task, old, after) => Gained(old) < Gained(after)
                      /\ ~ KeepsRow(task, old, after) => Gained(after) <= Gained(old)
      OBVIOUS
  <2>1. IsState(task, old) /\ Alike(task, old, after)
      BY <1>1, ViewFacts DEF IsApplied
  <2>. QED BY <1>5, <2>1, GainedFacts
<1> HIDE DEF s, after, pc, old, new
<1>11. Gained(new) <= m[a.id].g /\ (~ m[a.id].deadEnd => Gained(new) = m[a.id].g)
  <2>1. CASE a.id \in DOMAIN r.states
    <3>1. /\ Gained(old) \in Int /\ n[a.id].g \in Nat /\ n[a.id].present
          /\ Gained(old) <= n[a.id].g
          /\ ~ n[a.id].deadEnd => Gained(old) = n[a.id].g
        BY <1>6, <2>1 DEF old
    <3>2. CASE m = n /\ n[a.id].present /\ (n[a.id].deadEnd \/ n[a.id].g <= pc)
      <4>1. CASE new = old
          BY <3>1, <3>2, <4>1
      <4>2. CASE new = after /\ ~ KeepsRow(task, old, after)
        <5>1. Gained(after) <= Gained(old)
            BY <1>10, <2>1, <4>2
        <5>2. CASE n[a.id].deadEnd
            BY <1>5, <3>1, <3>2, <4>2, <5>1, <5>2
        <5>3. CASE ~ n[a.id].deadEnd
          <6>1. Gained(old) = n[a.id].g /\ n[a.id].g <= pc /\ Gained(after) = pc
              BY <1>5, <3>1, <3>2, <5>3
          <6>2. Gained(after) = n[a.id].g
              BY <1>4, <3>1, <5>1, <6>1
          <6>. QED BY <3>1, <3>2, <4>2, <6>2
        <5>. QED BY <5>2, <5>3
      <4>. QED BY <1>9, <2>1, <4>1, <4>2
    <3>3. CASE /\ n[a.id].present => ~ n[a.id].deadEnd /\ pc < n[a.id].g
               /\ m[a.id].g = pc
      <4>1. Gained(old) = n[a.id].g /\ pc < Gained(old)
          BY <3>1, <3>3
      <4>2. ~ KeepsRow(task, old, after)
          BY <1>5, <1>10, <2>1, <3>1, <4>1
      <4>3. Gained(new) = pc
          BY <1>5, <1>9, <4>2
      <4>. QED BY <1>4, <3>3, <4>3
    <3>. QED BY <3>2, <3>3 DEF pc
  <2>2. CASE a.id \notin DOMAIN r.states
    <3>1. ~ n[a.id].present
        BY <1>8, <2>2 DEF HasNodes
    <3>2. m[a.id].g = pc
        BY <3>1 DEF pc
    <3>3. Gained(new) = pc
        BY <1>5, <1>9, <2>2
    <3>. QED BY <1>4, <3>2, <3>3
  <2>. QED BY <2>1, <2>2
<1>12. ASSUME NEW i \in DOMAIN s.states, i # a.id
       PROVE  Gained(View(task, s, i)) <= m[i].g /\ (~ m[i].deadEnd => Gained(View(task, s, i)) = m[i].g)
  <2>1. i \in DOMAIN r.states /\ m[i] = n[i] /\ View(task, s, i) = View(task, r, i)
      BY <1>3, <1>7, <1>12
  <2>. QED BY <1>6, <2>1
<1> QED BY <1>11, <1>12 DEF RowsAgree, s, new

LEMMA ReachStep ==
    ASSUME task \in Tasks, NEW x, NEW c, NEW g \in Nat, IsExpanding(x, c, g),
           NEW o \in Applicable(task, c.values)
    PROVE  IsExpanding(ReachSuccessor(x, c, g, o), c, g)
<1> DEFINE r  == x.registry
           n  == x.nodes
           a  == ApplyInContext(task, r, c, o)
           s  == a.registry
           p  == c.parent
           pc == PathCost(g, o, a.cost)
           m  == Space!Reach(n, a.id, p, o, pc)
           after == After(task, o, c.values)
<1>1. /\ IsTask(task) /\ o \in DOMAIN task.operators /\ IsRegistry(task, r) /\ IsReached(r) /\ HasNodes(r, n)
      /\ PathsAreSound(r, n) /\ IsRooted(r, n) /\ RowsAgree(r, n)
      /\ IsContext(task, r, c) /\ n[p].g = g /\ (task.metric # NoMetric => Gained(c.values) = g)
    BY TaskIsTask DEF Applicable, IsExpanding, IsSearch, IsReached
<1>2. ReachSuccessor(x, c, g, o) = [registry |-> s, nodes |-> m]
    BY DEF ReachSuccessor
<1>3. IsApplied(task, r, c, o, a)
    BY <1>1, ApplyFacts
<1> HIDE DEF a
<1>4. IsReached(s)
    BY <1>1, <1>3, ReachedGrows
<1>5. DOMAIN r.states \subseteq StateIds /\ DOMAIN s.states \subseteq StateIds
    BY <1>1, <1>4, IdsAreBounded
<1>6. /\ IsRegistry(task, s) /\ a.id \in DOMAIN s.states /\ DOMAIN s.states = DOMAIN r.states \cup {a.id}
      /\ IsState(task, after) /\ Alike(task, View(task, s, a.id), after)
      /\ \A j \in DOMAIN r.states : Alike(task, View(task, s, j), View(task, r, j))
      /\ IsContext(task, s, c)
    BY <1>1, <1>3, AppliedFacts
<1>7. pc = g + Price(task, o, c.values) /\ Price(task, o, c.values) \in Nat /\ pc \in Nat
    BY <1>1, <1>3, PathCostFacts
<1>8. p \in DOMAIN r.states /\ p \in StateIds /\ a.id \in StateIds
    BY <1>1, <1>5, <1>6 DEF IsContext
<1>9. o \in OperatorNames
    BY <1>1, OperatorNamesAssumption
<1>10. n \in [StateIds -> Space!SearchNode] /\ \A i \in StateIds : n[i].present <=> i \in DOMAIN r.states
    BY <1>1 DEF HasNodes
<1> HIDE DEF r, n, s, p, pc, m, after
<1>11. \/ m = n /\ n[a.id].present /\ (n[a.id].deadEnd \/ n[a.id].g <= pc)
       \/ /\ n[a.id].present => ~ n[a.id].deadEnd /\ pc < n[a.id].g
          /\ m \in [StateIds -> Space!SearchNode]
          /\ \A i \in StateIds : i # a.id => m[i] = n[i]
          /\ m[a.id] = Space!NewPath(p, o, pc)
  <2>1. p \in StateIds \cup {NotFound} /\ o \in OperatorNames \cup {NoOperator}
      BY <1>8, <1>9
  <2>2. n \in [StateIds -> Space!SearchNode] /\ a.id \in StateIds /\ pc \in Nat
      BY <1>7, <1>8, <1>10
  <2> DEFINE id == a.id
  <2> HIDE DEF id
  <2>3. n \in [StateIds -> Space!SearchNode] /\ id \in StateIds /\ pc \in Nat
      BY <2>2 DEF id
  <2>4. \/ Space!Reach(n, id, p, o, pc) = n /\ n[id].present /\ (n[id].deadEnd \/ n[id].g <= pc)
        \/ /\ n[id].present => ~ n[id].deadEnd /\ pc < n[id].g
           /\ Space!Reach(n, id, p, o, pc) \in [StateIds -> Space!SearchNode]
           /\ \A i \in StateIds : i # id => Space!Reach(n, id, p, o, pc)[i] = n[i]
           /\ Space!Reach(n, id, p, o, pc)[id] = Space!NewPath(p, o, pc)
      BY <2>1, <2>3, ReachCases
  <2>. QED BY <2>4 DEF m, id
<1>12. Space!NewPath(p, o, pc).present /\ Space!NewPath(p, o, pc).parent = p
       /\ Space!NewPath(p, o, pc).operator = o /\ Space!NewPath(p, o, pc).g = pc
    BY DEF Space!NewPath
<1>13. /\ m \in [StateIds -> Space!SearchNode]
       /\ \A i \in StateIds : i # a.id => m[i] = n[i]
       /\ m[a.id].present
    BY <1>10, <1>11, <1>12
<1>14. HasNodes(s, m)
  <2>1. \A i \in StateIds : m[i].present <=> i \in DOMAIN s.states
      BY <1>6, <1>10, <1>13
  <2>. QED BY <1>13, <2>1 DEF HasNodes
<1>15. \A i \in DOMAIN r.states : n[i].g \in Nat
    BY <1>5, <1>10 DEF Space!SearchNode
<1>16. \A j \in DOMAIN r.states : m[j].g <= n[j].g
  <2>1. ASSUME NEW j \in DOMAIN r.states PROVE m[j].g <= n[j].g
    <3>1. j \in StateIds /\ n[j].g \in Nat /\ n[j].present
        BY <1>5, <1>10, <1>15
    <3>2. CASE j # a.id
        BY <1>13, <3>1, <3>2
    <3>3. CASE j = a.id
      <4>1. m = n \/ (m[j].g = pc /\ pc < n[j].g)
          BY <1>11, <1>12, <3>1, <3>3
      <4>. QED BY <1>7, <3>1, <4>1
    <3>. QED BY <3>2, <3>3
  <2>. QED BY <2>1
<1>17. ASSUME NEW i \in DOMAIN r.states, NEW q, NEW u, NEW h \in Int, IsReachedBy(r, n, i, q, u, h)
       PROVE  IsReachedBy(s, m, i, q, u, h)
    BY <1>1, <1>4, <1>6, <1>14, <1>16, <1>17, PathStays DEF r, n
<1>18. n[1].g = 0 /\ n[1].parent = NotFound /\ 1 \in DOMAIN r.states
    BY <1>1 DEF PathsAreSound, IsReached
<1>19. m[1] = n[1]
  <2>1. CASE a.id = 1
    <3>1. n[1].present
        BY <1>5, <1>10, <1>18
    <3>2. ~ (pc < n[1].g)
        BY <1>7, <1>18
    <3>. QED BY <1>11, <2>1, <3>1, <3>2
  <2>2. CASE a.id # 1
      BY <1>5, <1>13, <1>18, <2>2
  <2>. QED BY <2>1, <2>2
<1>20. m[p].g = g
  <2>1. CASE a.id = p
    <3>1. n[p].present /\ n[p].g = g
        BY <1>1, <1>8, <1>10 DEF p
    <3>2. ~ (pc < n[p].g)
        BY <1>7, <3>1
    <3>. QED BY <1>11, <2>1, <3>1, <3>2
  <2>2. CASE a.id # p
      BY <1>1, <1>8, <1>13, <2>2 DEF p
  <2>. QED BY <2>1, <2>2
<1>21. IsReachedBy(s, m, a.id, p, o, pc)
  <2>1. IsState(task, c.values) /\ IsState(task, View(task, s, p)) /\ Alike(task, View(task, s, p), c.values)
        /\ p \in DOMAIN s.states
      BY <1>1, <1>6, ViewFacts DEF IsContext, p
  <2>2. /\ Applicable(task, View(task, s, p)) = Applicable(task, c.values)
        /\ Alike(task, After(task, o, View(task, s, p)), after)
        /\ Price(task, o, View(task, s, p)) = Price(task, o, c.values)
      BY <1>1, <2>1, LikeSteps DEF after
  <2>3. Alike(task, After(task, o, View(task, s, p)), View(task, s, a.id))
      BY <1>6, <2>2, AlikeTrans, AlikeSym
  <2>4. m[p].g + Price(task, o, View(task, s, p)) <= pc
      BY <1>7, <1>20, <2>2
  <2>. QED BY <2>1, <2>2, <2>3, <2>4 DEF IsReachedBy
<1>22. PathsAreSound(s, m)
  <2>1. ASSUME NEW i \in DOMAIN s.states \ {1}
        PROVE  IsReachedBy(s, m, i, m[i].parent, m[i].operator, m[i].g)
    <3>1. CASE i = a.id /\ m[i] = Space!NewPath(p, o, pc)
        BY <1>12, <1>21, <3>1
    <3>2. CASE i \in DOMAIN r.states /\ m[i] = n[i]
      <4>1. IsReachedBy(r, n, i, n[i].parent, n[i].operator, n[i].g)
          BY <1>1, <2>1, <3>2 DEF PathsAreSound, r, n
      <4>2. n[i].g \in Int
          BY <1>15, <3>2
      <4>. QED BY <1>17, <3>2, <4>1, <4>2
    <3>3. i \in StateIds /\ (i \in DOMAIN r.states \/ i = a.id)
        BY <1>5, <1>6, <2>1
    <3>4. i = a.id /\ m = n => i \in DOMAIN r.states
        BY <1>6, <1>8, <1>10, <1>11, <1>13
    <3>. QED BY <1>11, <1>13, <3>1, <3>2, <3>3, <3>4
  <2>. QED BY <1>18, <1>19, <2>1 DEF PathsAreSound
<1>23. IsRooted(s, m)
  <2>1. CASE m = n
    <3>1. DOMAIN s.states = DOMAIN r.states
        BY <1>6, <1>8, <1>10, <1>13, <2>1
    <3>. QED BY <1>1, <2>1, <3>1 DEF IsRooted, r, n
  <2>2. CASE /\ n[a.id].present => ~ n[a.id].deadEnd /\ pc < n[a.id].g
             /\ m[a.id] = Space!NewPath(p, o, pc)
    <3>1. m[a.id].parent = p
        BY <1>12, <2>2
    <3>2. a.id \in DOMAIN r.states => pc < n[a.id].g
        BY <1>8, <1>10, <2>2
    <3>3. n[p].g <= pc
        BY <1>1, <1>7 DEF n, p
    <3>4. \A i \in DOMAIN r.states : i # a.id => m[i] = n[i]
        BY <1>5, <1>13
    <3>5. IsRerouted(r, n, a.id, p, pc, m)
        BY <1>7, <1>8, <3>1, <3>2, <3>3, <3>4 DEF IsRerouted
    <3>6. ASSUME NEW T \in SUBSET (DOMAIN s.states \ {1}), T # {}
          PROVE  \E i \in T : m[i].parent \notin T
      <4>1. T \in SUBSET ((DOMAIN r.states \cup {a.id}) \ {1})
          BY <1>6
      <4>. QED BY <1>1, <3>5, <3>6, <4>1, RootsStay DEF r, n
    <3>. QED BY <3>6 DEF IsRooted
  <2>. QED BY <1>11, <2>1, <2>2
<1>24. RowsAgree(s, m)
  <2>1. CASE task.metric = NoMetric
      BY <2>1 DEF RowsAgree
  <2>2. CASE task.metric # NoMetric
    <3>1. \/ m = n /\ n[a.id].present /\ (n[a.id].deadEnd \/ n[a.id].g <= PathCost(g, o, a.cost))
          \/ /\ n[a.id].present => ~ n[a.id].deadEnd /\ PathCost(g, o, a.cost) < n[a.id].g
             /\ m[a.id].g = PathCost(g, o, a.cost)
        BY <1>11, <1>12 DEF pc
    <3>2. Gained(c.values) = g
        BY <1>1, <2>2
    <3>. QED BY <1>1, <1>3, <1>13, <1>14, <2>2, <3>1, <3>2, RowsStay DEF r, n, s
  <2>. QED BY <2>1, <2>2
<1>25. IsSearch(s, m)
    BY <1>4, <1>14, <1>22, <1>23, <1>24 DEF IsSearch
<1> QED BY <1>1, <1>2, <1>6, <1>20, <1>25 DEF IsExpanding, p

\* The successors are reached one after the other.
IsReaching(f, x, c, g, order, n) ==
    f = [k \in 0..n |-> IF k = 0 THEN x ELSE ReachSuccessor(f[k - 1], c, g, order[k])]

LEMMA ReachingRuns ==
    ASSUME NEW x, NEW c, NEW g, NEW order, Len(order) \in Nat
    PROVE  \E f : IsReaching(f, x, c, g, order, Len(order)) /\ ReachSuccessors(x, c, g, order) = f[Len(order)]
<1> DEFINE T == {n \in Nat : \E f : IsReaching(f, x, c, g, order, n)}
<1>1. 0 \in T
  <2> DEFINE f == [k \in 0..0 |-> x]
  <2>1. IsReaching(f, x, c, g, order, 0)
      BY DEF IsReaching
  <2>. QED BY <2>1
<1>2. ASSUME NEW n \in Nat, n \in T PROVE n + 1 \in T
  <2>1. PICK f : IsReaching(f, x, c, g, order, n)
      BY <1>2
  <2> DEFINE h == [k \in 0..(n + 1) |-> IF k = 0 THEN x ELSE ReachSuccessor(f[k - 1], c, g, order[k])]
  <2>2. \A k \in 0..n : h[k] = f[k]
    <3>1. \A k \in 0..n : k \in 0..(n + 1)
        OBVIOUS
    <3>. QED BY <2>1, <3>1 DEF IsReaching
  <2>3. \A k \in 1..(n + 1) : k - 1 \in 0..n
      OBVIOUS
  <2>4. \A k \in 0..(n + 1) : k # 0 => h[k - 1] = f[k - 1]
    <3> HIDE DEF h
    <3> SUFFICES ASSUME NEW k \in 0..(n + 1), k # 0 PROVE h[k - 1] = f[k - 1]
        OBVIOUS
    <3>1. k - 1 \in 0..n
        OBVIOUS
    <3>. QED BY <2>2, <3>1
  <2>5. h = [k \in 0..(n + 1) |-> IF k = 0 THEN x ELSE ReachSuccessor(h[k - 1], c, g, order[k])]
      BY <2>4
  <2>6. IsReaching(h, x, c, g, order, n + 1) /\ n + 1 \in Nat
      BY <2>5 DEF IsReaching
  <2>. QED BY <2>6
<1>3. Len(order) \in T
  <2> HIDE DEF T
  <2>. QED BY <1>1, <1>2, Counting
<1>4. \E f : f = [k \in 0..Len(order) |-> IF k = 0 THEN x ELSE ReachSuccessor(f[k - 1], c, g, order[k])]
    BY <1>3 DEF IsReaching
<1> DEFINE after == CHOOSE f : f = [k \in 0..Len(order) |->
                        IF k = 0 THEN x ELSE ReachSuccessor(f[k - 1], c, g, order[k])]
<1>5. after = [k \in 0..Len(order) |-> IF k = 0 THEN x ELSE ReachSuccessor(after[k - 1], c, g, order[k])]
    BY <1>4
<1>6. ReachSuccessors(x, c, g, order) = after[Len(order)]
    BY DEF ReachSuccessors
<1> HIDE DEF after
<1> QED BY <1>5, <1>6 DEF IsReaching

LEMMA ReachSuccessorsFacts ==
    ASSUME task \in Tasks, NEW x, NEW c, NEW g \in Nat, IsExpanding(x, c, g),
           NEW order \in SetToSeqs(Applicable(task, c.values))
    PROVE  IsExpanding(ReachSuccessors(x, c, g, order), c, g)
<1>1. IsFiniteSet(Applicable(task, c.values))
  <2>1. IsFiniteSet(DOMAIN task.operators)
      BY TaskIsTask DEF IsTask
  <2>. QED BY <2>1, FS_Subset DEF Applicable
<1>2. Len(order) \in Nat /\ \A k \in 1..Len(order) : order[k] \in Applicable(task, c.values)
    BY <1>1, Lists
<1>3. PICK f : IsReaching(f, x, c, g, order, Len(order)) /\ ReachSuccessors(x, c, g, order) = f[Len(order)]
    BY <1>2, ReachingRuns
<1> DEFINE T == {n \in Nat : n <= Len(order) => IsExpanding(f[n], c, g)}
<1>4. 0 \in T
  <2>1. f[0] = x
      BY <1>2, <1>3 DEF IsReaching
  <2>. QED BY <2>1
<1>5. ASSUME NEW n \in Nat, n \in T PROVE n + 1 \in T
  <2>1. n + 1 \in Nat
      OBVIOUS
  <2>2. CASE n + 1 <= Len(order)
    <3>1. n <= Len(order) /\ n + 1 \in 1..Len(order) /\ n + 1 \in 0..Len(order) /\ (n + 1) - 1 = n /\ n + 1 # 0
        BY <1>2, <2>2
    <3>2. IsExpanding(f[n], c, g)
        BY <1>5, <3>1
    <3>3. f[n + 1] = ReachSuccessor(f[n], c, g, order[n + 1])
      <4>1. f[n + 1] = ReachSuccessor(f[(n + 1) - 1], c, g, order[n + 1])
          BY <1>3, <3>1 DEF IsReaching
      <4>. QED BY <3>1, <4>1
    <3>4. order[n + 1] \in Applicable(task, c.values)
        BY <1>2, <3>1
    <3>5. IsExpanding(f[n + 1], c, g)
        BY <3>2, <3>3, <3>4, ReachStep
    <3>. QED BY <2>1, <3>5
  <2>3. CASE ~ (n + 1 <= Len(order))
      BY <2>1, <2>3
  <2>. QED BY <2>2, <2>3
<1>6. Len(order) \in T
  <2> HIDE DEF T
  <2>. QED BY <1>2, <1>4, <1>5, Counting
<1> QED BY <1>2, <1>3, <1>6

\* The search knows nothing before it starts, and is right from then on.
SearchInv ==
    /\ task \in Tasks
    /\ phase \in {"exploring", "built", "searching"}
    /\ phase # "searching" => registry = EmptyRegistry /\ nodes = Space!EmptySpace
    /\ phase = "searching" => IsSearch(registry, nodes)

LEMMA StartSearches ==
    ASSUME SearchInv, Start
    PROVE  IsSearch(registry', nodes')
<1> DEFINE r == RegisterInitial(task)
           m == Space!Reach(Space!EmptySpace, 1, NotFound, NoOperator, 0)
<1>1. task \in Tasks /\ IsTask(task) /\ registry' = r /\ nodes' = m
    BY TaskIsTask DEF SearchInv, Start
<1>2. IsRegistry(task, r) /\ DOMAIN r.states = {1} /\ View(task, r, 1) = InitialState(task)
    BY <1>1, InitialRegistry
<1>3. IsReached(r)
  <2>1. WithoutRows(task, InitialState(task)) \in StatesOf(task)
      BY <1>1, ExplicitStates DEF ContainsAllReachable
  <2>. QED BY <1>2, <2>1, AlikeSelf DEF IsReached
<1>4. 1 \in StateIds /\ StateIds \in SUBSET Nat
    BY <1>1, <1>2, <1>3, IdsAreBounded, MaxStatesAssumption DEF StateIds
<1>5. Space!EmptySpace = [i \in StateIds |-> Space!NoNode]
    BY DEF Space!EmptySpace
<1>6. Space!NoNode \in Space!SearchNode /\ ~ Space!NoNode.present
    BY DEF Space!NoNode, Space!SearchNode
<1>7. Space!EmptySpace \in [StateIds -> Space!SearchNode]
    BY <1>5, <1>6
<1> HIDE DEF r
<1>8. m = [Space!EmptySpace EXCEPT ![1] = Space!NewPath(NotFound, NoOperator, 0)]
    BY <1>4, <1>5, <1>6 DEF Space!Reach, Space!Reached
<1>9. /\ Space!NewPath(NotFound, NoOperator, 0) \in Space!SearchNode
      /\ Space!NewPath(NotFound, NoOperator, 0).present
      /\ Space!NewPath(NotFound, NoOperator, 0).parent = NotFound
      /\ Space!NewPath(NotFound, NoOperator, 0).g = 0
    BY DEF Space!NewPath, Space!SearchNode
<1> HIDE DEF m
<1>10. /\ m \in [StateIds -> Space!SearchNode]
       /\ m[1].present /\ m[1].parent = NotFound /\ m[1].g = 0
       /\ \A i \in StateIds : i # 1 => ~ m[i].present
    BY <1>4, <1>5, <1>6, <1>7, <1>8, <1>9
<1>11. HasNodes(r, m)
    BY <1>2, <1>4, <1>10 DEF HasNodes
<1>12. PathsAreSound(r, m)
    BY <1>2, <1>10 DEF PathsAreSound
<1>13. IsRooted(r, m)
    BY <1>2 DEF IsRooted
<1>14. RowsAgree(r, m)
  <2>1. CASE task.metric = NoMetric
      BY <2>1 DEF RowsAgree
  <2>2. CASE task.metric # NoMetric
    <3>1. IsState(task, InitialState(task))
        BY <1>1, InitialStateFacts
    <3>2. Gained(InitialState(task)) = 0
        BY <1>1, <2>2, <3>1, GainedFacts
    <3>. QED BY <1>2, <1>10, <3>2 DEF RowsAgree
  <2>. QED BY <2>1, <2>2
<1> QED BY <1>1, <1>3, <1>11, <1>12, <1>13, <1>14 DEF IsSearch

\* Closing or pruning a state leaves its path as it is.
LEMMA SameSearch ==
    ASSUME NEW r, NEW n, IsSearch(r, n), DOMAIN r.states \subseteq StateIds,
           NEW m, m \in [StateIds -> Space!SearchNode],
           \A i \in StateIds : /\ m[i].present = n[i].present /\ m[i].parent = n[i].parent
                               /\ m[i].operator = n[i].operator /\ m[i].g = n[i].g
                               /\ n[i].deadEnd => m[i].deadEnd
    PROVE  IsSearch(r, m)
<1>1. HasNodes(r, m)
    BY DEF IsSearch, HasNodes
<1>2. 1 \in DOMAIN r.states /\ 1 \in StateIds
    BY DEF IsSearch, IsReached
<1>3. PathsAreSound(r, m)
  <2>1. m[1].parent = NotFound /\ m[1].g = 0
      BY <1>2 DEF IsSearch, PathsAreSound
  <2>2. ASSUME NEW i \in DOMAIN r.states \ {1}
        PROVE  IsReachedBy(r, m, i, m[i].parent, m[i].operator, m[i].g)
    <3>1. IsReachedBy(r, n, i, n[i].parent, n[i].operator, n[i].g)
        BY <2>2 DEF IsSearch, PathsAreSound
    <3>2. i \in StateIds /\ n[i].parent \in StateIds
        BY <2>2, <3>1 DEF IsReachedBy
    <3>3. m[n[i].parent].g = n[n[i].parent].g
        BY <3>2
    <3>4. m[i].parent = n[i].parent /\ m[i].operator = n[i].operator /\ m[i].g = n[i].g
        BY <3>2
    <3>. QED BY <3>1, <3>3, <3>4 DEF IsReachedBy
  <2>. QED BY <2>1, <2>2 DEF PathsAreSound
<1>4. IsRooted(r, m)
  <2>1. \A i \in DOMAIN r.states : m[i].parent = n[i].parent
      OBVIOUS
  <2>. QED BY <2>1 DEF IsSearch, IsRooted
<1>5. RowsAgree(r, m)
  <2>1. \A i \in DOMAIN r.states : m[i].g = n[i].g /\ (n[i].deadEnd => m[i].deadEnd)
      OBVIOUS
  <2>. QED BY <2>1 DEF IsSearch, RowsAgree
<1> QED BY <1>1, <1>3, <1>4, <1>5 DEF IsSearch

LEMMA ExpandSearches ==
    ASSUME SearchInv, NEW i \in StateIds, Expand(i)
    PROVE  IsSearch(registry', nodes')
<1>1. task \in Tasks /\ IsTask(task) /\ IsSearch(registry, nodes) /\ Open(i)
    BY TaskIsTask DEF SearchInv, Expand
<1>2. IsReached(registry) /\ HasNodes(registry, nodes) /\ IsRegistry(task, registry)
    BY <1>1 DEF IsSearch, IsReached
<1>3. DOMAIN registry.states \subseteq StateIds
    BY <1>1, <1>2, IdsAreBounded
<1>4. i \in DOMAIN registry.states /\ ~ nodes[i].deadEnd /\ nodes \in [StateIds -> Space!SearchNode]
    BY <1>1, <1>2 DEF Open, HasNodes
<1> DEFINE c == Context(task, registry, i)
           m == Space!Close(nodes, i)
           g == nodes[i].g
           x == [registry |-> registry, nodes |-> m]
<1>5. c.parent = i /\ c.values = Values(i)
    BY DEF Context, Values
<1>6. IsContext(task, registry, c)
    BY <1>1, <1>2, <1>4, <1>5, ViewFacts, AlikeSelf DEF IsContext, Values
<1>7. g \in Nat
    BY <1>4 DEF Space!SearchNode
<1>8. /\ m \in [StateIds -> Space!SearchNode]
      /\ \A j \in StateIds : /\ m[j].present = nodes[j].present /\ m[j].parent = nodes[j].parent
                             /\ m[j].operator = nodes[j].operator /\ m[j].g = nodes[j].g
                             /\ nodes[j].deadEnd => m[j].deadEnd
    BY <1>4 DEF Space!Close, Space!SearchNode
<1>9. IsSearch(registry, m)
  <2> HIDE DEF m
  <2>. QED BY <1>1, <1>3, <1>8, SameSearch
<1>10. task.metric # NoMetric => Gained(c.values) = g
    BY <1>1, <1>4, <1>5 DEF IsSearch, RowsAgree, Values
<1>11. IsExpanding(x, c, g)
  <2>1. m[i].g = g
      BY <1>8
  <2> HIDE DEF m, c, g
  <2>. QED BY <1>5, <1>6, <1>9, <1>10, <2>1 DEF IsExpanding
<1>12. PICK order \in SetToSeqs(Applicable(task, Values(i))) :
           /\ registry' = ReachSuccessors(x, c, g, order).registry
           /\ nodes' = ReachSuccessors(x, c, g, order).nodes
    BY DEF Expand
<1> HIDE DEF x, c, g
<1>13. IsExpanding(ReachSuccessors(x, c, g, order), c, g)
    BY <1>1, <1>5, <1>7, <1>11, <1>12, ReachSuccessorsFacts
<1> QED BY <1>12, <1>13 DEF IsExpanding

LEMMA PruneSearches ==
    ASSUME SearchInv, NEW i \in StateIds, Prune(i)
    PROVE  IsSearch(registry', nodes')
<1>1. task \in Tasks /\ IsSearch(registry, nodes)
    BY DEF SearchInv, Prune
<1>2. nodes \in [StateIds -> Space!SearchNode] /\ DOMAIN registry.states \subseteq StateIds
    BY <1>1, IdsAreBounded DEF IsSearch, HasNodes
<1> DEFINE m == Space!MarkDeadEnd(nodes, i)
<1>3. nodes' = m /\ registry' = registry
    BY DEF Prune
<1>4. /\ m \in [StateIds -> Space!SearchNode]
      /\ \A j \in StateIds : /\ m[j].present = nodes[j].present /\ m[j].parent = nodes[j].parent
                             /\ m[j].operator = nodes[j].operator /\ m[j].g = nodes[j].g
                             /\ nodes[j].deadEnd => m[j].deadEnd
    BY <1>2 DEF Space!MarkDeadEnd, Space!SearchNode
<1> HIDE DEF m
<1>5. IsSearch(registry, m)
    BY <1>1, <1>2, <1>4, SameSearch
<1> QED BY <1>3, <1>5

LEMMA SameTask ==
    ASSUME task' = task, IsSearch(registry', nodes')
    PROVE  IsSearch(registry, nodes)'
<1>1. IsReached(registry') => IsReached(registry)'
    BY DEF IsReached
<1>2. HasNodes(registry', nodes') => HasNodes(registry, nodes)'
    BY DEF HasNodes
<1>3. PathsAreSound(registry', nodes') => PathsAreSound(registry, nodes)'
    BY DEF PathsAreSound, IsReachedBy
<1>4. IsRooted(registry', nodes') => IsRooted(registry, nodes)'
    BY DEF IsRooted
<1>5. RowsAgree(registry', nodes') => RowsAgree(registry, nodes)'
    BY DEF RowsAgree, Gained
<1> QED BY <1>1, <1>2, <1>3, <1>4, <1>5 DEF IsSearch

LEMMA SearchInvariant == Spec => []SearchInv
<1>1. SearchInit => SearchInv
    BY DEF SearchInit, Init, SearchInv
<1>2. SearchInv /\ [Next]_vars => SearchInv'
  <2> SUFFICES ASSUME SearchInv, [Next]_vars PROVE SearchInv'
      OBVIOUS
  <2>1. CASE Explore /\ UNCHANGED <<registry, nodes>>
      BY <2>1 DEF Explore, SearchInv
  <2>2. CASE Build /\ UNCHANGED <<registry, nodes>>
      BY <2>2 DEF Build, SearchInv
  <2>3. CASE Start
    <3>1. IsSearch(registry', nodes')
        BY <2>3, StartSearches
    <3>2. task' = task /\ phase' = "searching"
        BY <2>3 DEF Start
    <3>3. IsSearch(registry, nodes)'
        BY <3>1, <3>2, SameTask
    <3>4. task \in Tasks
        BY DEF SearchInv
    <3>. QED BY <3>2, <3>3, <3>4 DEF SearchInv
  <2>4. ASSUME NEW i \in StateIds, Expand(i) PROVE SearchInv'
    <3>1. IsSearch(registry', nodes')
        BY <2>4, ExpandSearches
    <3>2. task' = task /\ phase' = "searching"
        BY <2>4 DEF Expand, pdbvars
    <3>3. IsSearch(registry, nodes)'
        BY <3>1, <3>2, SameTask
    <3>4. task \in Tasks
        BY DEF SearchInv
    <3>. QED BY <3>2, <3>3, <3>4 DEF SearchInv
  <2>5. ASSUME NEW i \in StateIds, Prune(i) PROVE SearchInv'
    <3>1. IsSearch(registry', nodes')
        BY <2>5, PruneSearches
    <3>2. task' = task /\ phase' = "searching"
        BY <2>5 DEF Prune, pdbvars
    <3>3. IsSearch(registry, nodes)'
        BY <3>1, <3>2, SameTask
    <3>4. task \in Tasks
        BY DEF SearchInv
    <3>. QED BY <3>2, <3>3, <3>4 DEF SearchInv
  <2>6. CASE UNCHANGED vars
    <3>1. task' = task /\ phase' = phase /\ registry' = registry /\ nodes' = nodes
        BY <2>6 DEF vars, pdbvars
    <3>2. phase = "searching" => IsSearch(registry', nodes')
        BY <3>1 DEF SearchInv
    <3>3. phase = "searching" => IsSearch(registry, nodes)'
        BY <3>1, <3>2, SameTask
    <3>. QED BY <3>1, <3>3 DEF SearchInv
  <2>. QED BY <2>1, <2>2, <2>3, <2>4, <2>5, <2>6 DEF Next
<1> QED BY <1>1, <1>2, PTL DEF Spec

-----------------------------------------------------------------------------
(* The recorded paths *)

FirstStep(j) == [applies |-> j = 1, state |-> InitialState(task)]
NextStep(before, o) ==
    [applies |-> before.applies /\ o \in Applicable(task, before.state),
     state   |-> After(task, o, before.state)]
IsReplay(f, n) ==
    f = [k \in 0..n |-> [j \in StateIds |->
            IF k = 0 \/ nodes[j].parent = NotFound THEN FirstStep(j)
            ELSE NextStep(f[k - 1][nodes[j].parent], nodes[j].operator)]]

LEMMA ReplayRuns ==
    \E f : IsReplay(f, MaxStates) /\ \A i : Replay(i) = f[MaxStates][i]
<1> DEFINE T == {n \in Nat : \E f : IsReplay(f, n)}
           Step(before, k) == [j \in StateIds |->
               IF k = 0 \/ nodes[j].parent = NotFound THEN FirstStep(j)
               ELSE NextStep(before[nodes[j].parent], nodes[j].operator)]
<1>1. \A f, n : IsReplay(f, n) <=> f = [k \in 0..n |-> Step(f[k - 1], k)]
    BY DEF IsReplay
<1>2. 0 \in T
  <2> DEFINE f == [k \in 0..0 |-> Step(<<>>, 0)]
  <2>1. Step(<<>>, 0) = [j \in StateIds |-> FirstStep(j)] /\ Step(f[0 - 1], 0) = [j \in StateIds |-> FirstStep(j)]
      OBVIOUS
  <2>2. \A k \in 0..0 : k = 0
      OBVIOUS
  <2> HIDE DEF Step
  <2>3. f = [k \in 0..0 |-> Step(f[k - 1], k)]
      BY <2>1, <2>2
  <2> HIDE DEF f
  <2>4. IsReplay(f, 0)
      BY <1>1, <2>3
  <2>. QED BY <2>4
<1> HIDE DEF Step
<1>3. ASSUME NEW n \in Nat, n \in T PROVE n + 1 \in T
  <2>1. PICK f : IsReplay(f, n)
      BY <1>3
  <2> DEFINE h == [k \in 0..(n + 1) |-> Step(f[k - 1], k)]
  <2>2. f = [k \in 0..n |-> Step(f[k - 1], k)]
      BY <1>1, <2>1
  <2>3. \A k \in 0..n : h[k] = f[k]
    <3>1. \A k \in 0..n : k \in 0..(n + 1)
        OBVIOUS
    <3>. QED BY <2>2, <3>1
  <2>4. \A k \in 0..(n + 1) : Step(h[k - 1], k) = Step(f[k - 1], k)
    <3>1. h = [k \in 0..(n + 1) |-> Step(f[k - 1], k)]
        OBVIOUS
    <3> HIDE DEF h
    <3> SUFFICES ASSUME NEW k \in 0..(n + 1) PROVE Step(h[k - 1], k) = Step(f[k - 1], k)
        OBVIOUS
    <3>2. CASE k = 0
        BY <3>2 DEF Step
    <3>3. CASE k # 0
      <4>1. k - 1 \in 0..n
          BY <3>3
      <4>. QED BY <2>3, <4>1
    <3>. QED BY <3>2, <3>3
  <2>5. h = [k \in 0..(n + 1) |-> Step(h[k - 1], k)]
      BY <2>4
  <2> HIDE DEF h
  <2>6. IsReplay(h, n + 1)
      BY <1>1, <2>5
  <2>7. n + 1 \in Nat
      OBVIOUS
  <2>. QED BY <2>6, <2>7
<1>4. MaxStates \in T
  <2> HIDE DEF T
  <2>. QED BY <1>2, <1>3, Counting, MaxStatesAssumption
<1>5. \E f : IsReplay(f, MaxStates)
    BY <1>4
<1> DEFINE Run(f) == f = [n \in 0..MaxStates |-> [j \in StateIds |->
                IF n = 0 \/ nodes[j].parent = NotFound
                THEN [applies |-> j = 1, state |-> InitialState(task)]
                ELSE LET before == f[n - 1][nodes[j].parent]
                         o      == nodes[j].operator
                     IN  [applies |-> before.applies /\ o \in Applicable(task, before.state),
                          state   |-> After(task, o, before.state)]]]
           path == CHOOSE f : Run(f)
<1>6. \A f : IsReplay(f, MaxStates) <=> Run(f)
    BY DEF IsReplay, FirstStep, NextStep
<1>7. \A i : Replay(i) = path[MaxStates][i]
    BY DEF Replay
<1> HIDE DEF Run
<1>8. IsReplay(path, MaxStates)
    BY <1>5, <1>6
<1> QED BY <1>7, <1>8

\* A path that leads to the state, at the cost of its node at most.
LeadsTo(x, i) ==
    /\ x.applies
    /\ IsState(task, x.state)
    /\ Alike(task, x.state, View(task, registry, i))
    /\ task.metric # NoMetric => Gained(x.state) <= nodes[i].g

LEMMA FirstStepLeads ==
    ASSUME task \in Tasks, IsSearch(registry, nodes)
    PROVE  LeadsTo(FirstStep(1), 1)
<1>1. IsState(task, InitialState(task))
    BY TaskIsTask, InitialStateFacts
<1>2. Alike(task, InitialState(task), View(task, registry, 1)) /\ nodes[1].g = 0
    BY AlikeSym DEF IsSearch, IsReached, PathsAreSound
<1>3. task.metric # NoMetric => Gained(InitialState(task)) = 0
    BY <1>1, GainedFacts
<1>4. FirstStep(1).applies /\ FirstStep(1).state = InitialState(task)
    BY DEF FirstStep
<1> QED BY <1>1, <1>2, <1>3, <1>4 DEF LeadsTo

LEMMA NextStepLeads ==
    ASSUME task \in Tasks, IsSearch(registry, nodes), NEW i \in DOMAIN registry.states \ {1},
           NEW x, LeadsTo(x, nodes[i].parent)
    PROVE  LeadsTo(NextStep(x, nodes[i].operator), i)
<1> DEFINE p == nodes[i].parent
           o == nodes[i].operator
           y == View(task, registry, p)
           s == x.state
<1>1. /\ IsReached(registry) /\ IsTask(task) /\ IsRegistry(task, registry)
      /\ IsReachedBy(registry, nodes, i, p, o, nodes[i].g)
    BY TaskIsTask DEF IsSearch, PathsAreSound, IsReached
<1>2. /\ p \in DOMAIN registry.states /\ o \in Applicable(task, y)
      /\ Alike(task, After(task, o, y), View(task, registry, i))
      /\ nodes[p].g + Price(task, o, y) <= nodes[i].g
    BY <1>1 DEF IsReachedBy
<1>3. IsState(task, y) /\ o \in DOMAIN task.operators
    BY <1>1, <1>2, ViewFacts DEF Applicable
<1>4. x.applies /\ IsState(task, s) /\ Alike(task, s, y) /\ (task.metric # NoMetric => Gained(s) <= nodes[p].g)
    BY DEF LeadsTo
<1>5. p \in StateIds /\ i \in StateIds /\ nodes[p].g \in Nat /\ nodes[i].g \in Nat
    BY <1>1, <1>2, IdsAreBounded DEF IsSearch, HasNodes, Space!SearchNode
<1> HIDE DEF p, o, y, s
<1>6. /\ Applicable(task, s) = Applicable(task, y)
      /\ Alike(task, After(task, o, s), After(task, o, y))
      /\ Price(task, o, s) = Price(task, o, y) /\ Price(task, o, s) \in Int
    BY <1>1, <1>3, <1>4, LikeSteps
<1>7. IsState(task, After(task, o, s)) /\ Alike(task, After(task, o, s), View(task, registry, i))
    BY <1>1, <1>2, <1>3, <1>4, <1>6, AfterFacts, AlikeTrans
<1>8. task.metric # NoMetric => Gained(After(task, o, s)) <= nodes[i].g
  <2> SUFFICES ASSUME task.metric # NoMetric PROVE Gained(After(task, o, s)) <= nodes[i].g
      OBVIOUS
  <2>1. Gained(s) \in Int /\ Gained(After(task, o, s)) = Gained(s) + Price(task, o, s)
      BY <1>3, <1>4, GainedFacts
  <2>2. Gained(s) <= nodes[p].g
      BY <1>4
  <2>. QED BY <1>2, <1>5, <1>6, <2>1, <2>2
<1> QED BY <1>2, <1>4, <1>6, <1>7, <1>8 DEF LeadsTo, NextStep, o, s

\* Every path leads to its state: each round, one state more has its path to the end.
LEMMA ReplayLeads ==
    ASSUME task \in Tasks, IsSearch(registry, nodes)
    PROVE  \A i \in DOMAIN registry.states : LeadsTo(Replay(i), i)
<1> DEFINE D == DOMAIN registry.states
<1>1. PICK f : IsReplay(f, MaxStates) /\ \A i : Replay(i) = f[MaxStates][i]
    BY ReplayRuns
<1>2. D \subseteq StateIds /\ 1 \in D
    BY IdsAreBounded DEF IsSearch, IsReached
<1>3. MaxStates \in Nat /\ IsFiniteSet(StateIds) /\ Cardinality(StateIds) = MaxStates
    BY MaxStatesAssumption, FS_Interval DEF StateIds
<1>4. ASSUME NEW m \in 0..MaxStates PROVE LeadsTo(f[m][1], 1)
  <2>1. nodes[1].parent = NotFound /\ 1 \in StateIds
      BY <1>2 DEF IsSearch, PathsAreSound
  <2>2. f[m][1] = FirstStep(1)
      BY <1>1, <1>4, <2>1 DEF IsReplay
  <2>. QED BY <2>2, FirstStepLeads
<1>5. ASSUME NEW m \in 1..MaxStates, NEW i \in D \ {1}, LeadsTo(f[m - 1][nodes[i].parent], nodes[i].parent)
      PROVE  LeadsTo(f[m][i], i)
  <2>1. nodes[i].parent \in D
      BY DEF IsSearch, PathsAreSound, IsReachedBy
  <2>2. nodes[i].parent # NotFound /\ i \in StateIds /\ m \in 0..MaxStates /\ m # 0
      BY <1>2, <1>3, <2>1 DEF StateIds, NotFound
  <2>3. f[m][i] = NextStep(f[m - 1][nodes[i].parent], nodes[i].operator)
    <3>1. f[m] = [j \in StateIds |->
                     IF m = 0 \/ nodes[j].parent = NotFound THEN FirstStep(j)
                     ELSE NextStep(f[m - 1][nodes[j].parent], nodes[j].operator)]
        BY <1>1, <2>2 DEF IsReplay
    <3>2. f[m][i] = IF m = 0 \/ nodes[i].parent = NotFound THEN FirstStep(i)
                    ELSE NextStep(f[m - 1][nodes[i].parent], nodes[i].operator)
        BY <2>2, <3>1
    <3>. QED BY <2>2, <3>2
  <2>. QED BY <1>5, <2>3, NextStepLeads
<1> DEFINE G(n) == {i \in D : \A m \in n..MaxStates : LeadsTo(f[m][i], i)}
           T == {n \in Nat : n <= MaxStates => G(n) = D \/ Cardinality(G(n)) >= n + 1}
<1>6. \A n : G(n) \subseteq D /\ IsFiniteSet(G(n)) /\ Cardinality(G(n)) \in Nat
    BY <1>2, <1>3, FS_Subset, FS_CardinalityType
<1>7. 0 \in T
  <2>1. 1 \in G(0)
      BY <1>2, <1>4
  <2> HIDE DEF G
  <2>2. {1} \subseteq G(0)
      BY <2>1
  <2>3. Cardinality({1}) <= Cardinality(G(0)) /\ Cardinality({1}) = 1
      BY <1>6, <2>2, FS_Subset, FS_Singleton
  <2>. QED BY <1>6, <2>3
<1>8. ASSUME NEW n \in Nat, n \in T PROVE n + 1 \in T
  <2>1. n + 1 \in Nat
      OBVIOUS
  <2>2. CASE n + 1 <= MaxStates
    <3>1. G(n) = D \/ Cardinality(G(n)) >= n + 1
        BY <1>3, <1>8, <2>2
    <3>2. G(n) \subseteq G(n + 1)
      <4>1. \A m \in (n + 1)..MaxStates : m \in n..MaxStates
          BY <1>3
      <4>. QED BY <4>1
    <3>3. CASE G(n) = D
      <4> HIDE DEF G
      <4>1. G(n + 1) = D
          BY <1>6, <3>2, <3>3
      <4>. QED BY <2>1, <4>1
    <3>4. CASE G(n) # D /\ Cardinality(G(n)) >= n + 1
      <4>1. 1 \in G(n)
        <5>1. \A m \in n..MaxStates : m \in 0..MaxStates
            BY <1>3
        <5>. QED BY <1>2, <1>4, <5>1
      <4>2. D \ G(n) \in SUBSET (D \ {1}) /\ D \ G(n) # {}
        <5> HIDE DEF G
        <5>. QED BY <1>6, <3>4, <4>1
      <4>3. PICK i \in D \ G(n) : nodes[i].parent \notin D \ G(n)
        <5> HIDE DEF G
        <5>. QED BY <4>2 DEF IsSearch, IsRooted
      <4>4. i \in D \ {1}
        <5> HIDE DEF G
        <5>. QED BY <4>1, <4>3
      <4>5. nodes[i].parent \in D
          BY <4>4 DEF IsSearch, PathsAreSound, IsReachedBy
      <4>6. nodes[i].parent \in G(n)
        <5> HIDE DEF G
        <5>. QED BY <4>3, <4>5
      <4>7. i \in G(n + 1)
        <5>1. ASSUME NEW m \in (n + 1)..MaxStates PROVE LeadsTo(f[m][i], i)
          <6>1. m \in 1..MaxStates /\ m - 1 \in n..MaxStates
              BY <1>3
          <6>2. LeadsTo(f[m - 1][nodes[i].parent], nodes[i].parent)
              BY <4>6, <6>1
          <6>. QED BY <1>5, <4>4, <6>1, <6>2
        <5>. QED BY <4>4, <5>1
      <4> HIDE DEF G
      <4>8. G(n) \cup {i} \subseteq G(n + 1)
          BY <3>2, <4>7
      <4>9. Cardinality(G(n) \cup {i}) = Cardinality(G(n)) + 1 /\ IsFiniteSet(G(n) \cup {i})
          BY <1>6, <4>3, FS_AddElement
      <4>10. Cardinality(G(n) \cup {i}) <= Cardinality(G(n + 1))
          BY <1>6, <4>8, FS_Subset
      <4>11. Cardinality(G(n + 1)) >= (n + 1) + 1
          BY <1>6, <3>4, <4>9, <4>10
      <4>. QED BY <2>1, <4>11
    <3>. QED BY <3>1, <3>3, <3>4
  <2>3. CASE ~ (n + 1 <= MaxStates)
      BY <2>1, <2>3
  <2>. QED BY <2>2, <2>3
<1>9. MaxStates \in T
  <2> HIDE DEF T
  <2>. QED BY <1>3, <1>7, <1>8, Counting
<1>10. G(MaxStates) = D
  <2>1. G(MaxStates) = D \/ Cardinality(G(MaxStates)) >= MaxStates + 1
      BY <1>3, <1>9
  <2> HIDE DEF G
  <2>2. G(MaxStates) \subseteq StateIds
      BY <1>2, <1>6
  <2>3. Cardinality(G(MaxStates)) <= MaxStates
      BY <1>3, <2>2, FS_Subset
  <2>. QED BY <1>3, <1>6, <2>1, <2>3
<1>11. ASSUME NEW i \in D PROVE LeadsTo(Replay(i), i)
  <2>1. i \in G(MaxStates) /\ MaxStates \in MaxStates..MaxStates
      BY <1>3, <1>10
  <2>2. LeadsTo(f[MaxStates][i], i)
      BY <2>1
  <2>. QED BY <1>1, <2>2
<1> QED BY <1>11

\* What the search believes of its ids is so (state_registry.rs, search_space.rs).
THEOREM IdsAlwaysAreStates == Spec => []IdsAreStates
<1>1. SearchInv => IdsAreStates
  <2> SUFFICES ASSUME SearchInv PROVE IdsAreStates
      OBVIOUS
  <2>1. CASE phase # "searching"
    <3>1. DOMAIN registry.states = {}
        BY <2>1 DEF SearchInv, EmptyRegistry
    <3>. QED BY <2>1, <3>1 DEF IdsAreStates
  <2>2. CASE phase = "searching"
    <3>1. /\ task \in Tasks /\ IsTask(task) /\ IsSearch(registry, nodes)
          /\ IsReached(registry) /\ IsRegistry(task, registry)
        BY <2>2, TaskIsTask DEF SearchInv, IsSearch, IsReached
    <3> DEFINE D == DOMAIN registry.states
    <3>2. \A i \in D : IsState(task, View(task, registry, i)) /\ IsValued(task, View(task, registry, i))
        BY <3>1, ViewFacts, StateFacts
    <3>3. ASSUME NEW i \in D, NEW j \in D, i # j
          PROVE  WithoutRows(task, View(task, registry, i)) # WithoutRows(task, View(task, registry, j))
      <4>1. ~ Alike(task, View(task, registry, i), View(task, registry, j))
          BY <3>1, <3>3 DEF IsRegistry
      <4>. QED BY <3>1, <3>2, <4>1, IdentityFacts
    <3>4. ASSUME NEW i \in D
          PROVE  LET path == Replay(i)
                 IN  /\ nodes[i].present
                     /\ path.applies
                     /\ WithoutRows(task, path.state) = WithoutRows(task, View(task, registry, i))
                     /\ task.metric # NoMetric =>
                            /\ Gained(path.state) <= nodes[i].g
                            /\ Gained(View(task, registry, i)) <= nodes[i].g
                            /\ ~ nodes[i].deadEnd => Gained(View(task, registry, i)) = nodes[i].g
      <4>1. LeadsTo(Replay(i), i)
          BY <3>1, ReplayLeads
      <4>2. nodes[i].present
          BY <3>1, IdsAreBounded DEF IsSearch, HasNodes
      <4> DEFINE path == Replay(i)
      <4> HIDE DEF path
      <4>3. LeadsTo(path, i)
          BY <4>1 DEF path
      <4>4. IsValued(task, path.state) /\ Alike(task, path.state, View(task, registry, i))
          BY <3>1, <4>3, StateFacts DEF LeadsTo
      <4>5. WithoutRows(task, path.state) = WithoutRows(task, View(task, registry, i))
          BY <3>1, <3>2, <4>4, IdentityFacts
      <4>6. task.metric # NoMetric =>
                /\ Gained(View(task, registry, i)) <= nodes[i].g
                /\ ~ nodes[i].deadEnd => Gained(View(task, registry, i)) = nodes[i].g
          BY <3>1 DEF IsSearch, RowsAgree
      <4>. QED BY <4>2, <4>3, <4>5, <4>6 DEF LeadsTo, path
    <3> DEFINE found == [i \in D |-> Values(i)]
    <3>5. DOMAIN found = D /\ \A i \in D : found[i] = View(task, registry, i)
        BY DEF Values
    <3> HIDE DEF found
    <3>6. \A i, j \in DOMAIN found : i # j => WithoutRows(task, found[i]) # WithoutRows(task, found[j])
        BY <3>3, <3>5
    <3>7. \A i \in DOMAIN found :
              LET path == Replay(i)
              IN  /\ nodes[i].present
                  /\ path.applies
                  /\ WithoutRows(task, path.state) = WithoutRows(task, found[i])
                  /\ task.metric # NoMetric =>
                         /\ Gained(path.state) <= nodes[i].g
                         /\ Gained(found[i]) <= nodes[i].g
                         /\ ~ nodes[i].deadEnd => Gained(found[i]) = nodes[i].g
        BY <3>4, <3>5
    <3>. QED BY <3>6, <3>7 DEF IdsAreStates, found
  <2>. QED BY <2>1, <2>2
<1> QED BY <1>1, SearchInvariant, PTL

-----------------------------------------------------------------------------
(* Projections *)

\* What a projection p keeps of the task t.
KeepsVariables(t, p) ==
    /\ p.variables \subseteq t.variables
    /\ Numbers(p) \subseteq Numbers(t)
    /\ p.types = [v \in Numbers(p) |-> t.types[v]]
    /\ p.init = [v \in p.variables \cup Numbers(p) |-> t.init[v]]
    /\ Conditions(p) = Conditions(t) \cap p.variables
    /\ \A c \in Conditions(p) : p.conditions[c] = t.conditions[c] /\ Operands(t, c) \subseteq Numbers(p)
    /\ p.goals \subseteq t.goals
    /\ FactsOn(p.variables, p.goals)
    /\ p.metric = IF t.metric \in Numbers(p) THEN t.metric ELSE NoMetric
KeepsOperators(t, p) ==
    /\ \A o \in DOMAIN t.operators : \A k \in DOMAIN t.operators[o].assignments :
           t.operators[o].assignments[k].var \in Numbers(p) => t.operators[o].assignments[k].source \in Numbers(p)
    /\ DOMAIN p.operators = {o \in DOMAIN t.operators :
           ChangesSomething(ProjectedOperator(t.operators[o], p.variables, Numbers(p)))}
    /\ \A o \in DOMAIN p.operators : p.operators[o] = ProjectedOperator(t.operators[o], p.variables, Numbers(p))
    /\ p.costs = [o \in DOMAIN p.operators |-> t.costs[o]]
IsProjection(t, p) == KeepsVariables(t, p) /\ KeepsOperators(t, p)

\* A set of numbers closed under their sources: the least one.
LEMMA ClosureFacts ==
    ASSUME NEW t, IsTask(t), NEW numbers \in SUBSET Numbers(t)
    PROVE  /\ numbers \subseteq ClosedUnderSources(t, numbers)
           /\ ClosedUnderSources(t, numbers) \subseteq Numbers(t)
           /\ \A o \in DOMAIN t.operators : \A k \in DOMAIN t.operators[o].assignments :
                  t.operators[o].assignments[k].var \in ClosedUnderSources(t, numbers) =>
                      t.operators[o].assignments[k].source \in ClosedUnderSources(t, numbers)
<1>1. \A N : IsClosed(t, N) <=>
                 \A o \in DOMAIN t.operators : \A k \in DOMAIN t.operators[o].assignments :
                     t.operators[o].assignments[k].var \in N => t.operators[o].assignments[k].source \in N
    BY DEF IsClosed, Sources, Range
<1>2. ASSUME NEW o \in DOMAIN t.operators, NEW k \in DOMAIN t.operators[o].assignments,
             t.operators[o].assignments[k].var \in ClosedUnderSources(t, numbers)
      PROVE  t.operators[o].assignments[k].source \in ClosedUnderSources(t, numbers)
  <2>1. t.operators[o].assignments[k].source \in Numbers(t)
      BY DEF IsTask, IsOperator
  <2>2. ASSUME NEW N \in SUBSET Numbers(t), numbers \subseteq N, IsClosed(t, N)
        PROVE  t.operators[o].assignments[k].source \in N
    <3>1. t.operators[o].assignments[k].var \in N
        BY <1>2, <2>2 DEF ClosedUnderSources
    <3>. QED BY <1>1, <2>2, <3>1
  <2>. QED BY <2>1, <2>2 DEF ClosedUnderSources
<1> QED BY <1>2 DEF ClosedUnderSources

LEMMA ProjectionFacts ==
    ASSUME NEW t, IsTask(t), NEW pattern \in SUBSET (t.variables \cup Numbers(t))
    PROVE  IsProjection(t, Projected(t, pattern))
<1> DEFINE pulled    == ClosedUnderSources(t, PulledNumbers(t, pattern))
           compared  == {c \in Conditions(t) : ReadsOnly(t, c, pulled)}
           variables == PulledVariables(t, pattern) \cup compared
           numbers   == pulled \cup UNION {Operands(t, c) : c \in compared}
           operators == [o \in DOMAIN t.operators |->
                            ProjectedOperator(t.operators[o], variables, numbers)]
           kept      == {o \in DOMAIN operators : ChangesSomething(operators[o])}
           p         == Projected(t, pattern)
<1>1. PulledVariables(t, pattern) \subseteq t.variables
    BY DEF PulledVariables, KeptGoals, IsTask, FactsOn
<1>2. \A c \in Conditions(t) : Operands(t, c) \subseteq Numbers(t)
    BY DEF IsTask
<1>3. PulledNumbers(t, pattern) \in SUBSET Numbers(t)
    BY <1>2 DEF PulledNumbers
<1>4. /\ PulledNumbers(t, pattern) \subseteq pulled
      /\ pulled \subseteq Numbers(t)
      /\ \A o \in DOMAIN t.operators : \A k \in DOMAIN t.operators[o].assignments :
             t.operators[o].assignments[k].var \in pulled => t.operators[o].assignments[k].source \in pulled
    BY <1>3, ClosureFacts
<1> HIDE DEF pulled
<1>5. \A c \in compared : c \in Conditions(t) /\ Operands(t, c) \subseteq pulled \cup OfType(t, "constant")
    BY DEF ReadsOnly
<1> HIDE DEF compared
<1>6. /\ p.variables = variables
      /\ p.conditions = [c \in Conditions(t) \cap variables |-> t.conditions[c]]
      /\ p.types = [v \in numbers |-> t.types[v]]
      /\ p.init = [v \in variables \cup numbers |-> t.init[v]]
      /\ p.operators = [o \in kept |-> operators[o]]
      /\ p.costs = [o \in kept |-> t.costs[o]]
      /\ p.goals = KeptGoals(t, pattern)
      /\ p.metric = IF t.metric \in numbers THEN t.metric ELSE NoMetric
    BY DEF Projected, pulled, compared
<1>7. Numbers(p) = numbers
    BY <1>6 DEF Numbers
<1>8. variables \subseteq t.variables /\ numbers \subseteq Numbers(t)
    BY <1>1, <1>2, <1>4, <1>5 DEF IsTask
<1>9. Conditions(p) = Conditions(t) \cap variables
    BY <1>6 DEF Conditions
<1>10. \A c \in Conditions(t) \cap variables : Operands(t, c) \subseteq numbers
  <2> SUFFICES ASSUME NEW c \in Conditions(t) \cap variables PROVE Operands(t, c) \subseteq numbers
      OBVIOUS
  <2>1. CASE c \in compared
      BY <2>1
  <2>2. CASE c \in PulledVariables(t, pattern)
      BY <1>4, <2>2 DEF PulledNumbers
  <2>. QED BY <2>1, <2>2
<1>11. p.goals \subseteq t.goals /\ FactsOn(variables, p.goals)
    BY <1>6 DEF KeptGoals, FactsOn, PulledVariables
<1>12. \A o \in DOMAIN t.operators : \A k \in DOMAIN t.operators[o].assignments :
           t.operators[o].assignments[k].var \in numbers => t.operators[o].assignments[k].source \in numbers
  <2> SUFFICES ASSUME NEW o \in DOMAIN t.operators, NEW k \in DOMAIN t.operators[o].assignments,
                      t.operators[o].assignments[k].var \in numbers
               PROVE  t.operators[o].assignments[k].source \in numbers
      OBVIOUS
  <2>1. t.operators[o].assignments[k].var \notin OfType(t, "constant")
      BY DEF IsTask, IsOperator
  <2>2. t.operators[o].assignments[k].var \in pulled
      BY <1>5, <2>1
  <2>. QED BY <1>4, <2>2
<1>13. DOMAIN operators = DOMAIN t.operators
       /\ \A o \in DOMAIN t.operators : operators[o] = ProjectedOperator(t.operators[o], variables, numbers)
    OBVIOUS
<1>14. DOMAIN p.operators = kept /\ \A o \in kept : p.operators[o] = operators[o]
    BY <1>6
<1> HIDE DEF p, operators, variables, numbers
<1>15. kept = {o \in DOMAIN t.operators : ChangesSomething(ProjectedOperator(t.operators[o], variables, numbers))}
    BY <1>13
<1>16. \A o \in kept : p.operators[o] = ProjectedOperator(t.operators[o], variables, numbers)
    BY <1>13, <1>14
<1> HIDE DEF kept
<1>17. \A c \in Conditions(p) : p.conditions[c] = t.conditions[c]
    BY <1>6, <1>9
<1>18. KeepsVariables(t, p)
    BY <1>6, <1>7, <1>8, <1>9, <1>10, <1>11, <1>17 DEF KeepsVariables
<1>19. KeepsOperators(t, p)
    BY <1>6, <1>7, <1>12, <1>14, <1>15, <1>16 DEF KeepsOperators
<1> QED BY <1>18, <1>19 DEF IsProjection, p

\* An effect that is kept is the same effect, under fewer conditions.
AreKept(kept, effects, fields, targets, variables) ==
    /\ DOMAIN kept = {k \in DOMAIN effects : effects[k].var \in targets}
    /\ \A k \in DOMAIN kept : /\ DOMAIN kept[k] = fields
                              /\ kept[k].when = ProjectedFacts(effects[k].when, variables)
                              /\ \A x \in fields \ {"when"} : kept[k][x] = effects[k][x]

LEMMA ProjectedEffectsFacts ==
    ASSUME NEW t, NEW effects, NEW fields, NEW targets, NEW variables,
           IsEffectList(t, effects, fields), "when" \in fields
    PROVE  AreKept(ProjectedEffects(effects, targets, variables), effects, fields, targets, variables)
<1> DEFINE kept == ProjectedEffects(effects, targets, variables)
<1>1. /\ DOMAIN kept = {k \in DOMAIN effects : effects[k].var \in targets}
      /\ \A k \in DOMAIN kept : kept[k] = [effects[k] EXCEPT !.when = ProjectedFacts(effects[k].when, variables)]
    BY DEF ProjectedEffects
<1>2. \A k \in DOMAIN effects : DOMAIN effects[k] = fields
    BY DEF IsEffectList
<1> HIDE DEF kept
<1>3. ASSUME NEW k \in DOMAIN kept
      PROVE  /\ DOMAIN kept[k] = fields
             /\ kept[k].when = ProjectedFacts(effects[k].when, variables)
             /\ \A x \in fields \ {"when"} : kept[k][x] = effects[k][x]
  <2> DEFINE e == effects[k]
             facts == ProjectedFacts(effects[k].when, variables)
  <2> HIDE DEF e, facts
  <2>1. DOMAIN e = fields /\ kept[k] = [e EXCEPT !.when = facts]
      BY <1>1, <1>2 DEF e, facts
  <2>2. /\ DOMAIN kept[k] = fields
        /\ kept[k].when = facts
        /\ \A x \in fields \ {"when"} : kept[k][x] = e[x]
      BY <2>1
  <2>. QED BY <2>2 DEF e, facts
<1> QED BY <1>1, <1>3 DEF AreKept, kept

\* What an operator keeps.
LEMMA ProjectedOperatorFacts ==
    ASSUME NEW t, IsTask(t), NEW p, IsProjection(t, p), NEW o \in DOMAIN p.operators
    PROVE  LET op  == t.operators[o]
               pop == p.operators[o]
           IN  /\ o \in DOMAIN t.operators
               /\ pop.pre = ProjectedFacts(op.pre, p.variables)
               /\ AreKept(pop.effects, op.effects, {"var", "value", "when"}, p.variables, p.variables)
               /\ AreKept(pop.assignments, op.assignments, {"var", "operation", "source", "when"},
                          Numbers(p), p.variables)
<1> DEFINE op  == t.operators[o]
           pop == p.operators[o]
<1>1. o \in DOMAIN t.operators /\ pop = ProjectedOperator(op, p.variables, Numbers(p))
    BY DEF IsProjection, KeepsOperators
<1>2. /\ IsEffectList(t, op.effects, {"var", "value", "when"})
      /\ IsEffectList(t, op.assignments, {"var", "operation", "source", "when"})
    BY <1>1 DEF IsTask, IsOperator
<1>3. /\ pop.pre = ProjectedFacts(op.pre, p.variables)
      /\ pop.effects = ProjectedEffects(op.effects, p.variables, p.variables)
      /\ pop.assignments = ProjectedEffects(op.assignments, Numbers(p), p.variables)
    BY <1>1 DEF ProjectedOperator
<1> DEFINE effectFields     == {"var", "value", "when"}
           assignmentFields == {"var", "operation", "source", "when"}
<1>4. /\ IsEffectList(t, op.effects, effectFields) /\ IsEffectList(t, op.assignments, assignmentFields)
      /\ "when" \in effectFields /\ "when" \in assignmentFields
    BY <1>2
<1> HIDE DEF op, pop, effectFields, assignmentFields
<1>5. AreKept(pop.effects, op.effects, effectFields, p.variables, p.variables)
    BY <1>3, <1>4, ProjectedEffectsFacts
<1>6. AreKept(pop.assignments, op.assignments, assignmentFields, Numbers(p), p.variables)
    BY <1>3, <1>4, ProjectedEffectsFacts
<1> QED BY <1>1, <1>3, <1>5, <1>6 DEF op, pop, effectFields, assignmentFields

LEMMA ProjectedIsTask ==
    ASSUME NEW t, IsTask(t), NEW p, IsProjection(t, p)
    PROVE  IsTask(p)
<1>1. /\ p.variables \subseteq t.variables /\ Numbers(p) \subseteq Numbers(t)
      /\ p.types = [v \in Numbers(p) |-> t.types[v]]
      /\ p.init = [v \in p.variables \cup Numbers(p) |-> t.init[v]]
      /\ Conditions(p) = Conditions(t) \cap p.variables
      /\ \A c \in Conditions(p) : p.conditions[c] = t.conditions[c] /\ Operands(t, c) \subseteq Numbers(p)
      /\ FactsOn(p.variables, p.goals)
      /\ p.metric = IF t.metric \in Numbers(p) THEN t.metric ELSE NoMetric
    BY DEF IsProjection, KeepsVariables
<1>2. IsFiniteSet(Numbers(p))
    BY <1>1, FS_Subset DEF IsTask
<1>3. p.variables \cap Numbers(p) = {} /\ Conditions(p) \subseteq p.variables
    BY <1>1 DEF IsTask
<1>4. p.types \in [Numbers(p) -> {"regular", "cost", "constant"}]
    BY <1>1 DEF IsTask
<1>5. \A type : OfType(p, type) = OfType(t, type) \cap Numbers(p)
    BY <1>1 DEF OfType
<1>6. p.init \in [p.variables \cup Numbers(p) -> Int]
    BY <1>1 DEF IsTask
<1>7. \A c \in Conditions(p) : Operands(p, c) \subseteq Numbers(p) \ OfType(p, "cost")
  <2> SUFFICES ASSUME NEW c \in Conditions(p) PROVE Operands(p, c) \subseteq Numbers(p) \ OfType(p, "cost")
      OBVIOUS
  <2>1. Operands(p, c) = Operands(t, c)
      BY <1>1 DEF Operands
  <2>2. Operands(t, c) \subseteq Numbers(t) \ OfType(t, "cost")
      BY <1>1 DEF IsTask
  <2>. QED BY <1>1, <1>5, <2>1, <2>2
<1>8. IsFiniteSet(DOMAIN p.operators) /\ DOMAIN p.operators \subseteq DOMAIN t.operators
  <2>1. DOMAIN p.operators \subseteq DOMAIN t.operators
      BY DEF IsProjection, KeepsOperators
  <2>. QED BY <2>1, FS_Subset DEF IsTask
<1>9. \A facts : FactsOn(p.variables, ProjectedFacts(facts, p.variables))
    BY DEF FactsOn, ProjectedFacts
<1>10. ASSUME NEW o \in DOMAIN p.operators PROVE IsOperator(p, p.operators[o])
  <2> DEFINE op  == t.operators[o]
             pop == p.operators[o]
  <2>1. IsOperator(t, op)
      BY <1>8 DEF IsTask
  <2>2. /\ pop.pre = ProjectedFacts(op.pre, p.variables)
        /\ AreKept(pop.effects, op.effects, {"var", "value", "when"}, p.variables, p.variables)
        /\ AreKept(pop.assignments, op.assignments, {"var", "operation", "source", "when"},
                   Numbers(p), p.variables)
      BY ProjectedOperatorFacts
  <2>3. \A k \in DOMAIN op.assignments : op.assignments[k].var \in Numbers(p) =>
            op.assignments[k].source \in Numbers(p)
      BY <1>8 DEF IsProjection, KeepsOperators
  <2> HIDE DEF op, pop
  <2>9. /\ DOMAIN pop.effects = {k \in DOMAIN op.effects : op.effects[k].var \in p.variables}
        /\ \A k \in DOMAIN pop.effects :
               /\ DOMAIN pop.effects[k] = {"var", "value", "when"}
               /\ pop.effects[k].when = ProjectedFacts(op.effects[k].when, p.variables)
               /\ pop.effects[k].var = op.effects[k].var /\ pop.effects[k].value = op.effects[k].value
      BY <2>2 DEF AreKept
  <2>10. /\ DOMAIN pop.assignments = {k \in DOMAIN op.assignments : op.assignments[k].var \in Numbers(p)}
         /\ \A k \in DOMAIN pop.assignments :
                /\ DOMAIN pop.assignments[k] = {"var", "operation", "source", "when"}
                /\ pop.assignments[k].when = ProjectedFacts(op.assignments[k].when, p.variables)
                /\ pop.assignments[k].var = op.assignments[k].var
                /\ pop.assignments[k].operation = op.assignments[k].operation
                /\ pop.assignments[k].source = op.assignments[k].source
      BY <2>2 DEF AreKept
  <2>4. IsEffectList(p, pop.effects, {"var", "value", "when"})
    <3>1. IsFiniteSet(DOMAIN op.effects) /\ DOMAIN op.effects \subseteq Nat \ {0}
        BY <2>1 DEF IsOperator, IsEffectList
    <3>2. IsFiniteSet(DOMAIN pop.effects)
        BY <2>9, <2>10, <3>1, FS_Subset
    <3>. QED BY <1>9, <2>9, <2>10, <3>1, <3>2 DEF IsEffectList
  <2>5. IsEffectList(p, pop.assignments, {"var", "operation", "source", "when"})
    <3>1. IsFiniteSet(DOMAIN op.assignments) /\ DOMAIN op.assignments \subseteq Nat \ {0}
        BY <2>1 DEF IsOperator, IsEffectList
    <3>2. IsFiniteSet(DOMAIN pop.assignments)
        BY <2>9, <2>10, <3>1, FS_Subset
    <3>. QED BY <1>9, <2>9, <2>10, <3>1, <3>2 DEF IsEffectList
  <2>6. \A k \in DOMAIN pop.effects :
            pop.effects[k].var \in p.variables \ Conditions(p) /\ pop.effects[k].value \in Int
      BY <1>1, <2>1, <2>9 DEF IsOperator
  <2>7. \A k \in DOMAIN pop.assignments :
            /\ pop.assignments[k].var \in Numbers(p) \ OfType(p, "constant")
            /\ pop.assignments[k].source \in Numbers(p) \ OfType(p, "cost")
            /\ pop.assignments[k].operation \in {"assign", "plus", "minus"}
    <3> SUFFICES ASSUME NEW k \in DOMAIN pop.assignments
                 PROVE  /\ pop.assignments[k].var \in Numbers(p) \ OfType(p, "constant")
                        /\ pop.assignments[k].source \in Numbers(p) \ OfType(p, "cost")
                        /\ pop.assignments[k].operation \in {"assign", "plus", "minus"}
        OBVIOUS
    <3>1. k \in DOMAIN op.assignments /\ op.assignments[k].var \in Numbers(p)
        BY <2>10
    <3>2. /\ op.assignments[k].var \notin OfType(t, "constant")
          /\ op.assignments[k].source \notin OfType(t, "cost")
          /\ op.assignments[k].operation \in {"assign", "plus", "minus"}
        BY <2>1, <3>1 DEF IsOperator
    <3>. QED BY <1>5, <2>10, <2>3, <3>1, <3>2
  <2>8. FactsOn(p.variables, pop.pre)
      BY <1>9, <2>2
  <2>. QED BY <2>4, <2>5, <2>6, <2>7, <2>8 DEF IsOperator, pop
<1>11. p.costs \in [DOMAIN p.operators -> Nat]
    BY <1>8 DEF IsProjection, KeepsOperators, IsTask
<1>12. IsMetric(p)
  <2>1. CASE p.metric = NoMetric
      BY <2>1 DEF IsMetric
  <2>2. CASE p.metric # NoMetric
    <3>1. p.metric = t.metric /\ t.metric \in Numbers(p)
        BY <1>1, <2>2
    <3>2. CASE t.metric \in OfType(t, "regular")
        BY <1>5, <3>1, <3>2 DEF IsMetric
    <3>3. CASE /\ t.metric \in OfType(t, "cost")
               /\ \A o \in DOMAIN t.operators : \A k \in DOMAIN t.operators[o].assignments :
                      t.operators[o].assignments[k].var = t.metric =>
                          t.operators[o].assignments[k].operation # "assign"
      <4>1. ASSUME NEW o \in DOMAIN p.operators, NEW k \in DOMAIN p.operators[o].assignments,
                   p.operators[o].assignments[k].var = p.metric
            PROVE  p.operators[o].assignments[k].operation # "assign"
        <5>1. /\ o \in DOMAIN t.operators /\ k \in DOMAIN t.operators[o].assignments
              /\ p.operators[o].assignments[k].var = t.operators[o].assignments[k].var
              /\ p.operators[o].assignments[k].operation = t.operators[o].assignments[k].operation
            BY ProjectedOperatorFacts DEF AreKept
        <5>. QED BY <3>1, <3>3, <4>1, <5>1
      <4>. QED BY <1>5, <3>1, <3>3, <4>1 DEF IsMetric
    <3>. QED BY <2>2, <3>1, <3>2, <3>3 DEF IsTask, IsMetric
  <2>. QED BY <2>1, <2>2
<1> QED BY <1>1, <1>2, <1>3, <1>4, <1>6, <1>7, <1>8, <1>10, <1>11, <1>12 DEF IsTask

LEMMA ProjectedValues ==
    ASSUME NEW t, IsTask(t), NEW p, IsProjection(t, p), NEW s, IsValued(t, s)
    PROVE  /\ DOMAIN p.init \subseteq DOMAIN t.init
           /\ DOMAIN p.init = p.variables \cup Numbers(p)
           /\ \A v \in DOMAIN p.init : ProjectedState(p, s)[v] = s[v]
           /\ IsValued(p, ProjectedState(p, s))
           /\ \A facts : FactsOn(p.variables, facts) => (HoldsAll(facts, ProjectedState(p, s)) <=> HoldsAll(facts, s))
           /\ \A c \in Conditions(p) : /\ Evaluated(p, c, ProjectedState(p, s)) = Evaluated(t, c, s)
                                       /\ c \in Conditions(t)
           /\ \A v \in DOMAIN p.init : v \in Conditions(t) => v \in Conditions(p)
<1> DEFINE q == ProjectedState(p, s)
<1>1. /\ p.variables \subseteq t.variables /\ Numbers(p) \subseteq Numbers(t)
      /\ DOMAIN p.init = p.variables \cup Numbers(p)
      /\ Conditions(p) = Conditions(t) \cap p.variables
      /\ \A c \in Conditions(p) : p.conditions[c] = t.conditions[c] /\ Operands(t, c) \subseteq Numbers(p)
    BY DEF IsProjection, KeepsVariables
<1>2. DOMAIN t.init = t.variables \cup Numbers(t) /\ t.variables \cap Numbers(t) = {}
      /\ Conditions(t) \subseteq t.variables
    BY TaskFacts
<1>3. DOMAIN p.init \subseteq DOMAIN t.init
    BY <1>1, <1>2
<1>4. q = [v \in DOMAIN p.init |-> s[v]]
    BY DEF ProjectedState
<1> HIDE DEF q
<1>5. IsValued(p, q)
    BY <1>3, <1>4 DEF IsValued
<1>6. \A v \in DOMAIN p.init : q[v] = s[v]
    BY <1>4
<1>7. \A facts : FactsOn(p.variables, facts) => (HoldsAll(facts, q) <=> HoldsAll(facts, s))
    BY <1>1, <1>6 DEF FactsOn, HoldsAll
<1>8. ASSUME NEW c \in Conditions(p) PROVE Evaluated(p, c, q) = Evaluated(t, c, s)
  <2>1. /\ p.conditions[c] = t.conditions[c]
        /\ t.conditions[c].left \in DOMAIN p.init /\ t.conditions[c].right \in DOMAIN p.init
      BY <1>1 DEF Operands
  <2>. QED BY <1>6, <2>1 DEF Evaluated
<1>9. \A v \in DOMAIN p.init : v \in Conditions(t) => v \in Conditions(p)
    BY <1>1, <1>2
<1> QED BY <1>1, <1>3, <1>5, <1>6, <1>7, <1>8, <1>9 DEF q

LEMMA ProjectedStateFacts ==
    ASSUME NEW t, IsTask(t), NEW p, IsProjection(t, p), NEW s, IsState(t, s)
    PROVE  /\ IsState(p, ProjectedState(p, s))
           /\ IsGoalState(t, s) => IsGoalState(p, ProjectedState(p, s))
<1> DEFINE q == ProjectedState(p, s)
<1>1. IsTask(p) /\ IsValued(t, s)
    BY ProjectedIsTask, StateFacts
<1>2. /\ DOMAIN p.init \subseteq DOMAIN t.init /\ DOMAIN p.init = p.variables \cup Numbers(p)
      /\ \A v \in DOMAIN p.init : q[v] = s[v]
      /\ IsValued(p, q)
      /\ \A facts : FactsOn(p.variables, facts) => (HoldsAll(facts, q) <=> HoldsAll(facts, s))
      /\ \A c \in Conditions(p) : Evaluated(p, c, q) = Evaluated(t, c, s) /\ c \in Conditions(t)
    BY <1>1, ProjectedValues
<1> HIDE DEF q
<1>3. ASSUME NEW v \in OfType(p, "constant") PROVE q[v] = p.init[v]
  <2>1. v \in OfType(t, "constant") /\ v \in DOMAIN p.init /\ p.init[v] = t.init[v]
      BY <1>2 DEF IsProjection, KeepsVariables, OfType
  <2>2. s[v] = t.init[v]
      BY <2>1 DEF IsState
  <2>. QED BY <1>2, <2>1, <2>2
<1>4. q = WithConditions(p, q)
  <2>1. /\ IsValued(p, WithConditions(p, q))
        /\ \A v \in DOMAIN p.init \ Conditions(p) : WithConditions(p, q)[v] = q[v]
        /\ \A v \in Conditions(p) : WithConditions(p, q)[v] = Evaluated(p, v, q)
      BY <1>1, <1>2, ConditionFacts
  <2>2. \A c \in Conditions(p) : c \in DOMAIN p.init /\ q[c] = Evaluated(p, c, q)
    <3>1. \A c \in Conditions(p) : c \in DOMAIN p.init
        BY <1>1, TaskFacts
    <3>2. \A c \in Conditions(t) : s[c] = Evaluated(t, c, s)
        BY StateFacts
    <3>. QED BY <1>2, <3>1, <3>2
  <2>3. ASSUME NEW v \in DOMAIN p.init PROVE WithConditions(p, q)[v] = q[v]
    <3>1. CASE v \in Conditions(p)
      <4>1. WithConditions(p, q)[v] = Evaluated(p, v, q) /\ q[v] = Evaluated(p, v, q)
          BY <2>1, <2>2, <3>1
      <4>. QED BY <4>1
    <3>2. CASE v \notin Conditions(p)
        BY <2>1, <3>2
    <3>. QED BY <3>1, <3>2
  <2>. QED BY <1>2, <2>1, <2>3 DEF IsValued
<1>5. IsState(p, q)
    BY <1>2, <1>3, <1>4 DEF IsState, IsValued
<1>6. IsGoalState(t, s) => IsGoalState(p, q)
  <2>1. FactsOn(p.variables, p.goals) /\ p.goals \subseteq t.goals
      BY DEF IsProjection, KeepsVariables
  <2>2. HoldsAll(t.goals, s) => HoldsAll(p.goals, s)
      BY <2>1 DEF HoldsAll
  <2>. QED BY <1>2, <2>1, <2>2 DEF IsGoalState
<1> QED BY <1>5, <1>6 DEF q

LEMMA ProjectedAlike ==
    ASSUME NEW t, IsTask(t), NEW p, IsProjection(t, p), NEW a, NEW b, IsValued(t, a), IsValued(t, b), Alike(t, a, b)
    PROVE  Alike(p, ProjectedState(p, a), ProjectedState(p, b))
<1>1. /\ DOMAIN p.init \subseteq DOMAIN t.init
      /\ \A v \in DOMAIN p.init : ProjectedState(p, a)[v] = a[v] /\ ProjectedState(p, b)[v] = b[v]
    BY ProjectedValues
<1>2. \A v \in DOMAIN p.init \ OfType(p, "cost") : v \notin OfType(t, "cost")
  <2>1. DOMAIN p.init = p.variables \cup Numbers(p) /\ p.variables \cap Numbers(t) = {}
      BY TaskFacts DEF IsProjection, KeepsVariables
  <2>2. \A v \in Numbers(p) : p.types[v] = t.types[v]
      BY DEF IsProjection, KeepsVariables
  <2>. QED BY <2>1, <2>2 DEF OfType
<1> QED BY <1>1, <1>2 DEF Alike

LEMMA ProjectedInitialState ==
    ASSUME NEW t, IsTask(t), NEW p, IsProjection(t, p)
    PROVE  ProjectedState(p, InitialState(t)) = InitialState(p)
<1>1. IsTask(p) /\ IsValued(t, t.init) /\ IsValued(p, p.init)
    BY ProjectedIsTask, TaskFacts
<1>2. /\ IsState(t, InitialState(t)) /\ \A v \in DOMAIN t.init \ Conditions(t) : InitialState(t)[v] = t.init[v]
      /\ IsState(p, InitialState(p)) /\ \A v \in DOMAIN p.init \ Conditions(p) : InitialState(p)[v] = p.init[v]
    BY <1>1, InitialStateFacts
<1> DEFINE q == ProjectedState(p, InitialState(t))
<1>3. /\ DOMAIN p.init \subseteq DOMAIN t.init /\ \A v \in DOMAIN p.init : q[v] = InitialState(t)[v]
      /\ \A v \in DOMAIN p.init : v \in Conditions(t) => v \in Conditions(p)
      /\ IsValued(p, q)
    BY <1>2, StateFacts, ProjectedValues
<1>4. IsState(p, q) /\ \A c \in Conditions(p) : q[c] = Evaluated(p, c, q)
    BY <1>1, <1>2, ProjectedStateFacts, StateFacts
<1>5. \A v \in DOMAIN p.init : p.init[v] = t.init[v]
    BY DEF IsProjection, KeepsVariables
<1> HIDE DEF q
<1>6. \A v \in DOMAIN p.init \ Conditions(p) : q[v] = InitialState(p)[v]
    BY <1>2, <1>3, <1>5
<1>7. \A c \in Conditions(p) : Evaluated(p, c, q) = Evaluated(p, c, InitialState(p))
                               /\ InitialState(p)[c] = Evaluated(p, c, InitialState(p))
  <2>1. IsValued(p, InitialState(p)) /\ \A c \in Conditions(p) : InitialState(p)[c] = Evaluated(p, c, InitialState(p))
      BY <1>1, <1>2, StateFacts
  <2>2. \A v \in Numbers(p) : v \in DOMAIN p.init \ Conditions(p)
      BY <1>1, TaskFacts
  <2>3. \A c \in Conditions(p) : p.conditions[c].left \in Numbers(p) /\ p.conditions[c].right \in Numbers(p)
      BY <1>1, TaskFacts
  <2>4. ASSUME NEW c \in Conditions(p) PROVE Evaluated(p, c, q) = Evaluated(p, c, InitialState(p))
    <3>1. q[p.conditions[c].left] = InitialState(p)[p.conditions[c].left]
          /\ q[p.conditions[c].right] = InitialState(p)[p.conditions[c].right]
        BY <1>6, <2>2, <2>3
    <3>. QED BY <3>1 DEF Evaluated
  <2>. QED BY <2>1, <2>4
<1>8. \A v \in DOMAIN p.init : q[v] = InitialState(p)[v]
    BY <1>4, <1>6, <1>7
<1>9. DOMAIN q = DOMAIN p.init /\ DOMAIN InitialState(p) = DOMAIN p.init
      /\ q = [v \in DOMAIN p.init |-> q[v]] /\ InitialState(p) = [v \in DOMAIN p.init |-> InitialState(p)[v]]
    BY <1>2, <1>3 DEF IsState, IsValued
<1> QED BY <1>8, <1>9 DEF q

\* Two states of a task are the same if they agree on all but its conditions.
LEMMA SameStates ==
    ASSUME NEW p, IsTask(p), NEW a, NEW b, IsState(p, a), IsState(p, b),
           \A v \in DOMAIN p.init \ Conditions(p) : a[v] = b[v]
    PROVE  a = b
<1>1. /\ \A c \in Conditions(p) : a[c] = Evaluated(p, c, a)
      /\ \A c \in Conditions(p) : b[c] = Evaluated(p, c, b)
    BY StateFacts
<1>2. \A v \in Numbers(p) : v \in DOMAIN p.init \ Conditions(p)
    BY TaskFacts
<1>3. \A c \in Conditions(p) : p.conditions[c].left \in Numbers(p) /\ p.conditions[c].right \in Numbers(p)
    BY TaskFacts
<1>4. ASSUME NEW c \in Conditions(p) PROVE Evaluated(p, c, a) = Evaluated(p, c, b)
  <2>1. a[p.conditions[c].left] = b[p.conditions[c].left] /\ a[p.conditions[c].right] = b[p.conditions[c].right]
      BY <1>2, <1>3
  <2>. QED BY <2>1 DEF Evaluated
<1>5. \A v \in DOMAIN p.init : a[v] = b[v]
    BY <1>1, <1>4
<1>6. a = [v \in DOMAIN p.init |-> a[v]] /\ b = [v \in DOMAIN p.init |-> b[v]]
    BY DEF IsState
<1> QED BY <1>5, <1>6

\* An operator that is kept does to a projected state what it does to the state.
LEMMA KeptSteps ==
    ASSUME NEW t, IsTask(t), NEW p, IsProjection(t, p), EffectsAreProjected(t, p), NEW s, IsState(t, s),
           NEW o \in DOMAIN p.operators
    PROVE  /\ o \in Applicable(t, s) => o \in Applicable(p, ProjectedState(p, s))
           /\ After(p, o, ProjectedState(p, s)) = ProjectedState(p, After(t, o, s))
<1> DEFINE q   == ProjectedState(p, s)
           op  == t.operators[o]
           pop == p.operators[o]
           Q   == ProjectedState(p, After(t, o, s))
<1>1. /\ IsTask(p) /\ o \in DOMAIN t.operators
      /\ pop.pre = ProjectedFacts(op.pre, p.variables)
      /\ AreKept(pop.effects, op.effects, {"var", "value", "when"}, p.variables, p.variables)
      /\ AreKept(pop.assignments, op.assignments, {"var", "operation", "source", "when"},
                 Numbers(p), p.variables)
    BY ProjectedIsTask, ProjectedOperatorFacts
<1>2. IsState(p, q) /\ IsValued(t, s) /\ IsValued(p, q)
    BY <1>1, ProjectedStateFacts, StateFacts
<1>3. /\ DOMAIN p.init \subseteq DOMAIN t.init /\ DOMAIN p.init = p.variables \cup Numbers(p)
      /\ \A v \in DOMAIN p.init : q[v] = s[v]
      /\ \A facts : FactsOn(p.variables, facts) => (HoldsAll(facts, q) <=> HoldsAll(facts, s))
      /\ \A v \in DOMAIN p.init : v \in Conditions(t) => v \in Conditions(p)
    BY <1>2, ProjectedValues
<1>4. /\ \A k \in DOMAIN op.effects : op.effects[k].var \in p.variables => FactsOn(p.variables, op.effects[k].when)
      /\ \A k \in DOMAIN op.assignments :
             op.assignments[k].var \in Numbers(p) => FactsOn(p.variables, op.assignments[k].when)
    BY <1>1 DEF EffectsAreProjected
<1>5. \A facts : FactsOn(p.variables, facts) => ProjectedFacts(facts, p.variables) = facts
    BY DEF FactsOn, ProjectedFacts
<1>6. \A k \in DOMAIN op.assignments : op.assignments[k].var \in Numbers(p) => op.assignments[k].source \in Numbers(p)
    BY <1>1 DEF IsProjection, KeepsOperators
<1> HIDE DEF q, op, pop
<1>7. /\ DOMAIN pop.effects = {k \in DOMAIN op.effects : op.effects[k].var \in p.variables}
      /\ \A k \in DOMAIN pop.effects :
             /\ pop.effects[k].when = op.effects[k].when /\ FactsOn(p.variables, op.effects[k].when)
             /\ pop.effects[k].var = op.effects[k].var /\ pop.effects[k].value = op.effects[k].value
  <2>1. /\ DOMAIN pop.effects = {k \in DOMAIN op.effects : op.effects[k].var \in p.variables}
        /\ \A k \in DOMAIN pop.effects :
               /\ pop.effects[k].when = ProjectedFacts(op.effects[k].when, p.variables)
               /\ pop.effects[k].var = op.effects[k].var /\ pop.effects[k].value = op.effects[k].value
      BY <1>1 DEF AreKept
  <2>. QED BY <1>4, <1>5, <2>1
<1>8. /\ DOMAIN pop.assignments = {k \in DOMAIN op.assignments : op.assignments[k].var \in Numbers(p)}
      /\ \A k \in DOMAIN pop.assignments :
             /\ pop.assignments[k].when = op.assignments[k].when /\ FactsOn(p.variables, op.assignments[k].when)
             /\ pop.assignments[k].var = op.assignments[k].var
             /\ pop.assignments[k].operation = op.assignments[k].operation
             /\ pop.assignments[k].source = op.assignments[k].source
  <2>1. /\ DOMAIN pop.assignments = {k \in DOMAIN op.assignments : op.assignments[k].var \in Numbers(p)}
        /\ \A k \in DOMAIN pop.assignments :
               /\ pop.assignments[k].when = ProjectedFacts(op.assignments[k].when, p.variables)
               /\ pop.assignments[k].var = op.assignments[k].var
               /\ pop.assignments[k].operation = op.assignments[k].operation
               /\ pop.assignments[k].source = op.assignments[k].source
      BY <1>1 DEF AreKept
  <2>. QED BY <1>4, <1>5, <2>1
<1>9. \A v \in p.variables : On(pop.effects, v, q) = On(op.effects, v, s)
    BY <1>3, <1>7 DEF On
<1>10. \A v \in Numbers(p) : On(pop.assignments, v, q) = On(op.assignments, v, s)
    BY <1>3, <1>8 DEF On
<1>11. \A v \in Numbers(p) : Changes(pop.assignments, v, q) = Changes(op.assignments, v, s)
  <2> SUFFICES ASSUME NEW v \in Numbers(p) PROVE Changes(pop.assignments, v, q) = Changes(op.assignments, v, s)
      OBVIOUS
  <2>1. \A k \in On(op.assignments, v, s) :
            /\ pop.assignments[k].operation = op.assignments[k].operation
            /\ q[pop.assignments[k].source] = s[op.assignments[k].source]
    <3> SUFFICES ASSUME NEW k \in On(op.assignments, v, s)
                 PROVE  /\ pop.assignments[k].operation = op.assignments[k].operation
                        /\ q[pop.assignments[k].source] = s[op.assignments[k].source]
        OBVIOUS
    <3>1. k \in DOMAIN op.assignments /\ op.assignments[k].var = v
        BY DEF On
    <3>2. k \in DOMAIN pop.assignments /\ op.assignments[k].source \in DOMAIN p.init
        BY <1>3, <1>6, <1>8, <3>1
    <3>. QED BY <1>3, <1>8, <3>2
  <2>2. On(pop.assignments, v, q) = On(op.assignments, v, s)
      BY <1>10
  <2>. QED BY <2>1, <2>2 DEF Changes
<1>12. o \in Applicable(t, s) => o \in Applicable(p, q)
  <2>1. HoldsAll(op.pre, s) => HoldsAll(pop.pre, s)
      BY <1>1 DEF HoldsAll, ProjectedFacts, op, pop
  <2>2. FactsOn(p.variables, pop.pre)
      BY <1>1 DEF FactsOn, ProjectedFacts, op, pop
  <2>. QED BY <1>3, <2>1, <2>2 DEF Applicable, op, pop
<1>13. \A v \in DOMAIN p.init \ Conditions(p) : Raw(p, o, q)[v] = Raw(t, o, s)[v]
  <2> SUFFICES ASSUME NEW v \in DOMAIN p.init \ Conditions(p) PROVE Raw(p, o, q)[v] = Raw(t, o, s)[v]
      OBVIOUS
  <2>1. CASE v \in Numbers(p)
    <3>1. v \in Numbers(t)
        BY <2>1 DEF IsProjection, KeepsVariables
    <3>2. Raw(p, o, q)[v] = Accumulated(Changes(pop.assignments, v, q), q[v])
        BY <1>1, <1>2, <2>1, RawFacts DEF pop
    <3>3. Raw(t, o, s)[v] = Accumulated(Changes(op.assignments, v, s), s[v])
        BY <1>1, <1>2, <3>1, RawFacts DEF op
    <3>. QED BY <1>3, <1>11, <2>1, <3>2, <3>3
  <2>2. CASE v \in p.variables
    <3>1. v \in DOMAIN p.init \ Numbers(p) /\ v \in DOMAIN t.init \ Numbers(t)
        BY <1>1, <1>3, <2>2, TaskFacts DEF IsProjection, KeepsVariables
    <3>2. Raw(p, o, q)[v] = Assigned(pop, q)[v]
        BY <1>1, <1>2, <3>1, RawFacts DEF pop
    <3>3. Raw(t, o, s)[v] = Assigned(op, s)[v]
        BY <1>1, <1>2, <3>1, RawFacts DEF op
    <3>4. DOMAIN q = DOMAIN p.init /\ DOMAIN s = DOMAIN t.init
        BY <1>2 DEF IsState
    <3> DEFINE on == On(op.effects, v, s)
    <3>5. Assigned(pop, q)[v] = IF on = {} THEN q[v] ELSE pop.effects[Max(on)].value
        BY <1>9, <2>2, <3>4 DEF Assigned
    <3>6. Assigned(op, s)[v] = IF on = {} THEN s[v] ELSE op.effects[Max(on)].value
        BY <3>1, <3>4 DEF Assigned
    <3>7. on # {} => Max(on) \in on
      <4>1. IsEffectList(t, op.effects, {"var", "value", "when"})
          BY <1>1 DEF IsTask, IsOperator, op
      <4>2. on \in SUBSET Nat /\ IsFiniteSet(on)
          BY <4>1, FS_Subset DEF On, IsEffectList
      <4> HIDE DEF on
      <4>. QED BY <4>2, LargestPosition
    <3>8. on \subseteq DOMAIN pop.effects
        BY <1>7, <2>2 DEF On
    <3> HIDE DEF on
    <3>. QED BY <1>3, <1>7, <3>2, <3>3, <3>5, <3>6, <3>7, <3>8
  <2>. QED BY <1>3, <2>1, <2>2
<1>14. /\ IsState(p, After(p, o, q)) /\ \A v \in DOMAIN p.init \ Conditions(p) : After(p, o, q)[v] = Raw(p, o, q)[v]
       /\ IsState(t, After(t, o, s)) /\ \A v \in DOMAIN t.init \ Conditions(t) : After(t, o, s)[v] = Raw(t, o, s)[v]
    BY <1>1, <1>2, AfterFacts
<1>15. IsState(p, Q) /\ \A v \in DOMAIN p.init : Q[v] = After(t, o, s)[v]
    BY <1>14, ProjectedStateFacts, ProjectedValues, StateFacts
<1> HIDE DEF Q
<1>16. \A v \in DOMAIN p.init \ Conditions(p) : After(p, o, q)[v] = Q[v]
    BY <1>3, <1>13, <1>14, <1>15
<1>17. After(p, o, q) = Q
    BY <1>1, <1>14, <1>15, <1>16, SameStates
<1> QED BY <1>12, <1>17 DEF q, Q

\* An operator that is dropped changes nothing that the projection has.
LEMMA DroppedSteps ==
    ASSUME NEW t, IsTask(t), NEW p, IsProjection(t, p), NEW s, IsState(t, s),
           NEW o \in DOMAIN t.operators, o \notin DOMAIN p.operators
    PROVE  ProjectedState(p, After(t, o, s)) = ProjectedState(p, s)
<1> DEFINE op == t.operators[o]
<1>1. IsTask(p) /\ IsValued(t, s)
    BY ProjectedIsTask, StateFacts
<1>2. /\ ~ ChangesSomething(ProjectedOperator(op, p.variables, Numbers(p)))
    BY DEF IsProjection, KeepsOperators
<1>3. /\ \A k \in DOMAIN op.effects : op.effects[k].var \notin p.variables
      /\ \A k \in DOMAIN op.assignments : op.assignments[k].var \notin Numbers(p)
    BY <1>2 DEF ChangesSomething, ProjectedOperator, ProjectedEffects
<1>4. /\ DOMAIN p.init \subseteq DOMAIN t.init /\ DOMAIN p.init = p.variables \cup Numbers(p)
      /\ \A v \in DOMAIN p.init : ProjectedState(p, s)[v] = s[v]
      /\ \A v \in DOMAIN p.init : v \in Conditions(t) => v \in Conditions(p)
    BY <1>1, ProjectedValues
<1>5. /\ IsState(t, After(t, o, s)) /\ IsValued(t, After(t, o, s))
      /\ \A v \in DOMAIN t.init \ Conditions(t) : After(t, o, s)[v] = Raw(t, o, s)[v]
    BY AfterFacts, StateFacts
<1>6. \A v \in DOMAIN p.init : ProjectedState(p, After(t, o, s))[v] = After(t, o, s)[v]
    BY <1>5, ProjectedValues
<1>7. IsState(p, ProjectedState(p, s)) /\ IsState(p, ProjectedState(p, After(t, o, s)))
    BY <1>5, ProjectedStateFacts
<1>8. ASSUME NEW v \in DOMAIN p.init \ Conditions(p) PROVE Raw(t, o, s)[v] = s[v]
  <2>1. CASE v \in Numbers(p)
    <3>1. v \in Numbers(t) /\ On(op.assignments, v, s) = {}
        BY <1>3, <2>1 DEF IsProjection, KeepsVariables, On
    <3>. QED BY <1>1, <3>1, RawFacts
  <2>2. CASE v \in p.variables
    <3>1. v \in DOMAIN t.init \ Numbers(t) /\ On(op.effects, v, s) = {}
        BY <1>3, <1>4, <2>2, TaskFacts DEF IsProjection, KeepsVariables, On
    <3>2. Raw(t, o, s)[v] = Assigned(op, s)[v]
        BY <1>1, <3>1, RawFacts
    <3>. QED BY <3>1, <3>2 DEF Assigned, IsState
  <2>. QED BY <1>4, <2>1, <2>2
<1>9. \A v \in DOMAIN p.init \ Conditions(p) : ProjectedState(p, After(t, o, s))[v] = ProjectedState(p, s)[v]
    BY <1>4, <1>5, <1>6, <1>8
<1> QED BY <1>1, <1>7, <1>9, SameStates

-----------------------------------------------------------------------------
(* The exploration *)

IsDead(r, i) == InnerEstimate(config.exploration, Seen(r, i)) = Infinite
Step(i, o, j) == [source |-> i, operator |-> o, target |-> j]

\* The successor of i by o is registered, and the transition to it recorded.
IsFollowed(r, transitions, i, o) ==
    \E j \in DOMAIN r.states :
        /\ Alike(projected, Seen(r, j), After(projected, o, Seen(r, i)))
        /\ i = j \/ Step(i, o, j) \in transitions
IsFinished(r, transitions, i) ==
    \A o \in Applicable(projected, Seen(r, i)) : IsFollowed(r, transitions, i, o)

IsKnown(x, i) == i \in x.closed \/ (\E e \in x.open : e.id = i) \/ IsDead(x.registry, i)

\* What the exploration keeps between two successors.
IsExploring(x) ==
    /\ x = [registry |-> x.registry, open |-> x.open, closed |-> x.closed, generated |-> x.generated,
            newStates |-> x.newStates, transitions |-> x.transitions, goals |-> x.goals]
    /\ IsRegistry(projected, x.registry)
    /\ 1 \in DOMAIN x.registry.states
    /\ Alike(projected, Seen(x.registry, 1), InitialState(projected))
    /\ x.closed \subseteq DOMAIN x.registry.states /\ x.goals \subseteq x.closed
    /\ \A e \in x.open : e.id \in DOMAIN x.registry.states
    /\ \A tr \in x.transitions : /\ tr.source \in DOMAIN x.registry.states
                                 /\ tr.target \in DOMAIN x.registry.states
                                 /\ tr.operator \in DOMAIN projected.operators
    /\ \A i \in x.closed : IsGoalState(projected, Seen(x.registry, i)) => i \in x.goals
    /\ \A i \in DOMAIN x.registry.states : IsKnown(x, i)

\* Of the closed states, only that of the context has successors to come.
IsGenerating(x, c, done) ==
    /\ IsExploring(x)
    /\ IsContext(projected, x.registry, c) /\ c.parent \in x.closed
    /\ \A i \in x.closed \ {c.parent} : IsFinished(x.registry, x.transitions, i)
    /\ \A o \in done : o \in DOMAIN projected.operators /\ IsFollowed(x.registry, x.transitions, c.parent, o)

IsExploration(x) ==
    /\ IsExploring(x)
    /\ \A i \in x.closed : IsFinished(x.registry, x.transitions, i)

\* A registry with more states, and other rows at most.
Registers(s, r) ==
    \A j \in DOMAIN r.states : j \in DOMAIN s.states /\ Alike(projected, Seen(s, j), Seen(r, j))

LEMMA SeenStays ==
    ASSUME IsTask(projected), NEW r, NEW s, IsRegistry(projected, r), IsRegistry(projected, s), Registers(s, r),
           NEW i, i \in DOMAIN r.states
    PROVE  /\ IsState(projected, Seen(r, i)) /\ IsState(projected, Seen(s, i))
           /\ Applicable(projected, Seen(s, i)) = Applicable(projected, Seen(r, i))
           /\ IsGoalState(projected, Seen(s, i)) <=> IsGoalState(projected, Seen(r, i))
           /\ IsDead(s, i) <=> IsDead(r, i)
<1>1. i \in DOMAIN s.states /\ Alike(projected, Seen(s, i), Seen(r, i))
    BY DEF Registers
<1>2. IsState(projected, Seen(r, i)) /\ IsState(projected, Seen(s, i))
    BY <1>1, ViewFacts DEF Seen
<1>3. WithoutRows(projected, Seen(s, i)) = WithoutRows(projected, Seen(r, i))
    BY <1>1, <1>2, StateFacts, IdentityFacts
<1> QED BY <1>1, <1>2, <1>3, LikeSteps DEF IsDead, InnerEstimate

LEMMA FollowedStays ==
    ASSUME IsTask(projected), NEW r, NEW s, IsRegistry(projected, r), IsRegistry(projected, s), Registers(s, r),
           NEW R, NEW S, R \subseteq S, NEW i, NEW o, i \in DOMAIN r.states, o \in DOMAIN projected.operators,
           IsFollowed(r, R, i, o)
    PROVE  IsFollowed(s, S, i, o)
<1>1. PICK j \in DOMAIN r.states : /\ Alike(projected, Seen(r, j), After(projected, o, Seen(r, i)))
                                   /\ i = j \/ Step(i, o, j) \in R
    BY DEF IsFollowed
<1>2. i \in DOMAIN s.states /\ Alike(projected, Seen(s, i), Seen(r, i))
      /\ j \in DOMAIN s.states /\ Alike(projected, Seen(s, j), Seen(r, j))
    BY <1>1 DEF Registers
<1>3. IsState(projected, Seen(r, i)) /\ IsState(projected, Seen(s, i))
    BY <1>2, ViewFacts DEF Seen
<1>4. Alike(projected, After(projected, o, Seen(s, i)), After(projected, o, Seen(r, i)))
    BY <1>2, <1>3, LikeSteps
<1>5. Alike(projected, Seen(s, j), After(projected, o, Seen(s, i)))
    BY <1>1, <1>2, <1>4, AlikeSym, AlikeTrans
<1> QED BY <1>1, <1>2, <1>5 DEF IsFollowed

LEMMA FinishedStays ==
    ASSUME IsTask(projected), NEW r, NEW s, IsRegistry(projected, r), IsRegistry(projected, s), Registers(s, r),
           NEW R, NEW S, R \subseteq S, NEW i, i \in DOMAIN r.states, IsFinished(r, R, i)
    PROVE  IsFinished(s, S, i)
<1>1. Applicable(projected, Seen(s, i)) = Applicable(projected, Seen(r, i))
    BY SeenStays
<1>2. \A o \in Applicable(projected, Seen(r, i)) : o \in DOMAIN projected.operators /\ IsFollowed(r, R, i, o)
    BY DEF IsFinished, Applicable
<1>3. \A o \in Applicable(projected, Seen(s, i)) : IsFollowed(s, S, i, o)
    BY <1>1, <1>2, FollowedStays
<1> QED BY <1>3 DEF IsFinished

\* What generate does with a successor that was registered.
IsGenerated(x, c, o, a, y) ==
    /\ y = [registry |-> a.registry, open |-> y.open, closed |-> x.closed, generated |-> y.generated,
            newStates |-> y.newStates, transitions |-> y.transitions, goals |-> x.goals]
    /\ x.open \subseteq y.open
    /\ \A e \in y.open : e \in x.open \/ e.id = a.id
    /\ x.transitions \subseteq y.transitions
    /\ \A tr \in y.transitions : tr \in x.transitions \/ tr = Step(c.parent, o, a.id)
    /\ a.id # c.parent => Step(c.parent, o, a.id) \in y.transitions
    /\ a.id = c.parent \/ IsKnown(y, a.id)

LEMMA GenerateCases ==
    ASSUME NEW x, IsExploring(x), NEW c, NEW g, NEW o
    PROVE  IsGenerated(x, c, o, ApplyInContext(projected, x.registry, c, o), Generate(x, c, g, o))
<1> DEFINE a  == ApplyInContext(projected, x.registry, c, o)
           tr == Step(c.parent, o, a.id)
           y  == [registry |-> a.registry, open |-> x.open, closed |-> x.closed, generated |-> x.generated,
                  newStates |-> x.newStates, transitions |-> x.transitions, goals |-> x.goals]
           z  == [registry |-> a.registry, open |-> x.open, closed |-> x.closed, generated |-> x.generated,
                  newStates |-> x.newStates, transitions |-> x.transitions \cup {tr}, goals |-> x.goals]
           h  == InnerEstimate(config.exploration, Seen(a.registry, a.id))
           w  == Counted(z, a.id)
           f  == g + projected.costs[o]
<1>1. [x EXCEPT !.registry = a.registry] = y
  <2>1. x = [registry |-> x.registry, open |-> x.open, closed |-> x.closed, generated |-> x.generated,
            newStates |-> x.newStates, transitions |-> x.transitions, goals |-> x.goals]
      BY DEF IsExploring
  <2> HIDE DEF a
  <2>. QED BY <2>1
<1>2. [y EXCEPT !.transitions = @ \cup {tr}] = z
  <2> HIDE DEF a, tr
  <2>. QED OBVIOUS
<1>3. Generate(x, c, g, o) = IF a.id = c.parent THEN y
                             ELSE IF a.id \in x.closed THEN z
                             ELSE Pushed(w, a.id, f)
  <2>1. Generate(x, c, g, o) =
            IF a.id = c.parent THEN [x EXCEPT !.registry = a.registry]
            ELSE IF a.id \in x.closed THEN [[x EXCEPT !.registry = a.registry] EXCEPT !.transitions = @ \cup {tr}]
            ELSE Pushed(Counted([[x EXCEPT !.registry = a.registry] EXCEPT !.transitions = @ \cup {tr}], a.id),
                        a.id, g + projected.costs[o])
      BY DEF Generate, Step
  <2> HIDE DEF a, tr, y, z
  <2>. QED BY <1>1, <1>2, <2>1
<1> HIDE DEF a, tr, f, h
<1>4. /\ w = [registry |-> a.registry, open |-> x.open, closed |-> x.closed, generated |-> w.generated,
              newStates |-> w.newStates, transitions |-> x.transitions \cup {tr}, goals |-> x.goals]
  <2>1. CASE a.id \in x.generated
      BY <2>1 DEF Counted
  <2>2. CASE a.id \notin x.generated
    <3>1. w = [z EXCEPT !.generated = z.generated \cup {a.id}, !.newStates = z.newStates + 1]
        BY <2>2 DEF Counted
    <3> HIDE DEF w
    <3>. QED BY <3>1
  <2>. QED BY <2>1, <2>2
<1> HIDE DEF w
<1>5. w.registry = a.registry /\ w.open = x.open /\ w.closed = x.closed
      /\ w.transitions = x.transitions \cup {tr} /\ w.goals = x.goals
    BY <1>4
<1>6. CASE a.id = c.parent
  <2>1. Generate(x, c, g, o) = y
      BY <1>3, <1>6
  <2>. QED BY <1>6, <2>1 DEF IsGenerated, a
<1>7. CASE a.id # c.parent /\ a.id \in x.closed
  <2>1. Generate(x, c, g, o) = z
      BY <1>3, <1>7
  <2>2. IsKnown(z, a.id)
      BY <1>7 DEF IsKnown
  <2>. QED BY <1>7, <2>1, <2>2 DEF IsGenerated, a, tr
<1>8. CASE a.id # c.parent /\ a.id \notin x.closed /\ h = Infinite
  <2>1. Generate(x, c, g, o) = w
      BY <1>3, <1>5, <1>8 DEF Pushed, h
  <2>2. IsKnown(w, a.id)
      BY <1>5, <1>8 DEF IsKnown, IsDead, h
  <2>. QED BY <1>4, <1>5, <1>8, <2>1, <2>2 DEF IsGenerated, a, tr
<1>9. CASE a.id # c.parent /\ a.id \notin x.closed /\ h # Infinite
  <2> DEFINE e == [f |-> f + h, h |-> h, id |-> a.id, g |-> f]
             u == [w EXCEPT !.open = w.open \cup {e}]
  <2>1. Generate(x, c, g, o) = u
      BY <1>3, <1>5, <1>9 DEF Pushed, h
  <2>2. e.id = a.id
      OBVIOUS
  <2> HIDE DEF e
  <2>3. u = [registry |-> a.registry, open |-> x.open \cup {e}, closed |-> x.closed, generated |-> w.generated,
             newStates |-> w.newStates, transitions |-> x.transitions \cup {tr}, goals |-> x.goals]
      BY <1>4, <1>5
  <2> HIDE DEF u
  <2>4. /\ u = [registry |-> a.registry, open |-> u.open, closed |-> x.closed, generated |-> u.generated,
                newStates |-> u.newStates, transitions |-> u.transitions, goals |-> x.goals]
        /\ u.open = x.open \cup {e} /\ u.transitions = x.transitions \cup {tr}
      BY <2>3
  <2>5. IsKnown(u, a.id)
      BY <2>2, <2>4 DEF IsKnown
  <2>. QED BY <1>9, <2>1, <2>2, <2>4, <2>5 DEF IsGenerated, a, tr
<1> QED BY <1>6, <1>7, <1>8, <1>9

LEMMA GenerateStep ==
    ASSUME IsTask(projected), NEW x, NEW c, NEW done, IsGenerating(x, c, done),
           NEW g, NEW o, o \in Applicable(projected, c.values)
    PROVE  IsGenerating(Generate(x, c, g, o), c, done \cup {o})
<1> DEFINE r == x.registry
           a == ApplyInContext(projected, r, c, o)
           s == a.registry
           y == Generate(x, c, g, o)
           after == After(projected, o, c.values)
<1>1. /\ IsExploring(x) /\ IsRegistry(projected, r) /\ IsContext(projected, r, c) /\ c.parent \in x.closed
      /\ \A i \in x.closed \ {c.parent} : IsFinished(r, x.transitions, i)
      /\ \A i \in done : i \in DOMAIN projected.operators /\ IsFollowed(r, x.transitions, c.parent, i)
      /\ o \in DOMAIN projected.operators
    BY DEF IsGenerating, IsExploring, Applicable
<1>2. IsApplied(projected, r, c, o, a)
    BY <1>1, ApplyFacts
<1>3. IsGenerated(x, c, o, a, y)
    BY <1>1, GenerateCases
<1> HIDE DEF a, y, r
<1>4. /\ IsRegistry(projected, s) /\ a.id \in DOMAIN s.states /\ DOMAIN s.states = DOMAIN r.states \cup {a.id}
      /\ Alike(projected, View(projected, s, a.id), after)
      /\ \A j \in DOMAIN r.states : Alike(projected, View(projected, s, j), View(projected, r, j))
      /\ IsContext(projected, s, c)
    BY <1>1, <1>2, AppliedFacts
<1>5. Registers(s, r)
    BY <1>4 DEF Registers, Seen
<1>6. /\ y.registry = s /\ y.closed = x.closed /\ y.goals = x.goals
      /\ y = [registry |-> y.registry, open |-> y.open, closed |-> y.closed, generated |-> y.generated,
              newStates |-> y.newStates, transitions |-> y.transitions, goals |-> y.goals]
  <2>1. y = [registry |-> s, open |-> y.open, closed |-> x.closed, generated |-> y.generated,
             newStates |-> y.newStates, transitions |-> y.transitions, goals |-> x.goals]
      BY <1>3 DEF IsGenerated
  <2>2. y.registry = s /\ y.closed = x.closed /\ y.goals = x.goals
      BY <2>1
  <2>. QED BY <2>1, <2>2
<1>7. /\ x.open \subseteq y.open
      /\ \A e \in y.open : e \in x.open \/ e.id = a.id
      /\ x.transitions \subseteq y.transitions
      /\ \A tr \in y.transitions : tr \in x.transitions \/ tr = Step(c.parent, o, a.id)
      /\ a.id # c.parent => Step(c.parent, o, a.id) \in y.transitions
      /\ a.id = c.parent \/ IsKnown(y, a.id)
    BY <1>3 DEF IsGenerated
<1>8. /\ 1 \in DOMAIN r.states
      /\ Alike(projected, Seen(r, 1), InitialState(projected))
      /\ x.closed \subseteq DOMAIN r.states /\ x.goals \subseteq x.closed
      /\ \A e \in x.open : e.id \in DOMAIN r.states
      /\ \A tr \in x.transitions : /\ tr.source \in DOMAIN r.states
                                   /\ tr.target \in DOMAIN r.states
                                   /\ tr.operator \in DOMAIN projected.operators
      /\ \A i \in x.closed : IsGoalState(projected, Seen(r, i)) => i \in x.goals
      /\ \A i \in DOMAIN r.states : IsKnown(x, i)
    BY <1>1 DEF IsExploring, r
<1>9. c.parent \in DOMAIN r.states /\ c.parent \in DOMAIN s.states
    BY <1>1, <1>4 DEF IsContext
<1>10. \A i \in x.closed : IsGoalState(projected, Seen(s, i)) => i \in x.goals
  <2> SUFFICES ASSUME NEW i \in x.closed PROVE IsGoalState(projected, Seen(s, i)) => i \in x.goals
      OBVIOUS
  <2>1. i \in DOMAIN r.states
      BY <1>8
  <2>2. IsGoalState(projected, Seen(s, i)) <=> IsGoalState(projected, Seen(r, i))
      BY <1>1, <1>4, <1>5, <2>1, SeenStays
  <2>. QED BY <1>8, <2>2
<1>11. ASSUME NEW i \in DOMAIN s.states PROVE IsKnown(y, i)
  <2>1. CASE i \in DOMAIN r.states
    <3>1. IsKnown(x, i)
        BY <1>8, <2>1
    <3>2. IsDead(s, i) <=> IsDead(r, i)
        BY <1>1, <1>4, <1>5, <2>1, SeenStays
    <3>. QED BY <1>6, <1>7, <3>1, <3>2 DEF IsKnown, r
  <2>2. CASE i = a.id /\ i \notin DOMAIN r.states
      BY <1>7, <1>9, <2>2
  <2>. QED BY <1>4, <2>1, <2>2
<1>12. \A tr \in y.transitions : /\ tr.source \in DOMAIN s.states
                                 /\ tr.target \in DOMAIN s.states
                                 /\ tr.operator \in DOMAIN projected.operators
  <2> SUFFICES ASSUME NEW tr \in y.transitions
               PROVE  /\ tr.source \in DOMAIN s.states /\ tr.target \in DOMAIN s.states
                      /\ tr.operator \in DOMAIN projected.operators
      OBVIOUS
  <2>1. CASE tr \in x.transitions
      BY <1>4, <1>8, <2>1
  <2>2. CASE tr = Step(c.parent, o, a.id)
      BY <1>1, <1>4, <1>9, <2>2 DEF Step
  <2>. QED BY <1>7, <2>1, <2>2
<1>13. Alike(projected, Seen(s, 1), InitialState(projected)) /\ 1 \in DOMAIN s.states
    BY <1>4, <1>8, AlikeTrans DEF Seen
<1>14. IsExploring(y)
  <2>1. \A e \in y.open : e.id \in DOMAIN s.states
      BY <1>4, <1>7, <1>8
  <2>2. x.closed \subseteq DOMAIN s.states
      BY <1>4, <1>8
  <2>. QED BY <1>4, <1>6, <1>8, <1>10, <1>11, <1>12, <1>13, <2>1, <2>2 DEF IsExploring
<1>15. \A i \in x.closed \ {c.parent} : IsFinished(s, y.transitions, i)
  <2> SUFFICES ASSUME NEW i \in x.closed \ {c.parent} PROVE IsFinished(s, y.transitions, i)
      OBVIOUS
  <2>1. i \in DOMAIN r.states /\ IsFinished(r, x.transitions, i)
      BY <1>1, <1>8
  <2>. QED BY <1>1, <1>4, <1>5, <1>7, <2>1, FinishedStays
<1>16. IsFollowed(s, y.transitions, c.parent, o)
  <2>1. IsState(projected, Seen(s, c.parent)) /\ IsState(projected, c.values)
        /\ Alike(projected, Seen(s, c.parent), c.values)
      BY <1>4, ViewFacts DEF IsContext, Seen
  <2>2. Alike(projected, After(projected, o, Seen(s, c.parent)), after)
      BY <1>1, <2>1, LikeSteps
  <2>3. Alike(projected, Seen(s, a.id), After(projected, o, Seen(s, c.parent)))
      BY <1>4, <2>2, AlikeTrans, AlikeSym DEF Seen
  <2>. QED BY <1>4, <1>7, <2>3 DEF IsFollowed
<1>17. \A i \in done \cup {o} : i \in DOMAIN projected.operators /\ IsFollowed(s, y.transitions, c.parent, i)
  <2> SUFFICES ASSUME NEW i \in done PROVE i \in DOMAIN projected.operators /\ IsFollowed(s, y.transitions, c.parent, i)
      BY <1>1, <1>16
  <2>1. i \in DOMAIN projected.operators /\ IsFollowed(r, x.transitions, c.parent, i)
      BY <1>1
  <2>. QED BY <1>1, <1>4, <1>5, <1>7, <1>9, <2>1, FollowedStays
<1> QED BY <1>1, <1>4, <1>6, <1>14, <1>15, <1>17 DEF IsGenerating, y

IsGeneratingAll(f, x, c, g, order, n) ==
    f = [k \in 0..n |-> IF k = 0 THEN x ELSE Generate(f[k - 1], c, g, order[k])]

LEMMA GeneratingRuns ==
    ASSUME NEW x, NEW c, NEW g, NEW order, Len(order) \in Nat
    PROVE  \E f : IsGeneratingAll(f, x, c, g, order, Len(order)) /\ GenerateAll(x, c, g, order) = f[Len(order)]
<1> DEFINE T == {n \in Nat : \E f : IsGeneratingAll(f, x, c, g, order, n)}
<1>1. 0 \in T
  <2> DEFINE f == [k \in 0..0 |-> x]
  <2>1. IsGeneratingAll(f, x, c, g, order, 0)
      BY DEF IsGeneratingAll
  <2>. QED BY <2>1
<1>2. ASSUME NEW n \in Nat, n \in T PROVE n + 1 \in T
  <2>1. PICK f : IsGeneratingAll(f, x, c, g, order, n)
      BY <1>2
  <2> DEFINE h == [k \in 0..(n + 1) |-> IF k = 0 THEN x ELSE Generate(f[k - 1], c, g, order[k])]
  <2>2. \A k \in 0..n : h[k] = f[k]
    <3>1. \A k \in 0..n : k \in 0..(n + 1)
        OBVIOUS
    <3>. QED BY <2>1, <3>1 DEF IsGeneratingAll
  <2>3. \A k \in 0..(n + 1) : k # 0 => h[k - 1] = f[k - 1]
    <3> HIDE DEF h
    <3> SUFFICES ASSUME NEW k \in 0..(n + 1), k # 0 PROVE h[k - 1] = f[k - 1]
        OBVIOUS
    <3>1. k - 1 \in 0..n
        OBVIOUS
    <3>. QED BY <2>2, <3>1
  <2>4. h = [k \in 0..(n + 1) |-> IF k = 0 THEN x ELSE Generate(h[k - 1], c, g, order[k])]
      BY <2>3
  <2>5. IsGeneratingAll(h, x, c, g, order, n + 1) /\ n + 1 \in Nat
      BY <2>4 DEF IsGeneratingAll
  <2>. QED BY <2>5
<1>3. Len(order) \in T
  <2> HIDE DEF T
  <2>. QED BY <1>1, <1>2, Counting
<1>4. \E f : f = [k \in 0..Len(order) |-> IF k = 0 THEN x ELSE Generate(f[k - 1], c, g, order[k])]
    BY <1>3 DEF IsGeneratingAll
<1> DEFINE after == CHOOSE f : f = [k \in 0..Len(order) |->
                        IF k = 0 THEN x ELSE Generate(f[k - 1], c, g, order[k])]
<1>5. after = [k \in 0..Len(order) |-> IF k = 0 THEN x ELSE Generate(after[k - 1], c, g, order[k])]
    BY <1>4
<1>6. GenerateAll(x, c, g, order) = after[Len(order)]
    BY DEF GenerateAll
<1> HIDE DEF after
<1> QED BY <1>5, <1>6 DEF IsGeneratingAll

LEMMA GenerateAllFacts ==
    ASSUME IsTask(projected), NEW x, NEW c, IsGenerating(x, c, {}),
           NEW g, NEW order, order \in SetToSeqs(Applicable(projected, c.values))
    PROVE  IsExploration(GenerateAll(x, c, g, order))
<1> DEFINE ops == Applicable(projected, c.values)
           y == GenerateAll(x, c, g, order)
<1>1. IsFiniteSet(ops)
  <2>1. IsFiniteSet(DOMAIN projected.operators)
      BY DEF IsTask
  <2>. QED BY <2>1, FS_Subset DEF Applicable
<1>2. /\ Len(order) \in Nat /\ \A k \in 1..Len(order) : order[k] \in ops
      /\ \A o \in ops : \E k \in 1..Len(order) : order[k] = o
    BY <1>1, Lists
<1>3. PICK f : IsGeneratingAll(f, x, c, g, order, Len(order)) /\ y = f[Len(order)]
    BY <1>2, GeneratingRuns
<1> DEFINE Done(n) == {order[j] : j \in 1..n}
           T == {n \in Nat : n <= Len(order) => IsGenerating(f[n], c, Done(n))}
<1> HIDE DEF y, ops
<1>4. 0 \in T
  <2>1. f[0] = x
      BY <1>2, <1>3 DEF IsGeneratingAll
  <2>2. Done(0) = {}
      OBVIOUS
  <2> HIDE DEF Done
  <2>. QED BY <2>1, <2>2
<1>5. ASSUME NEW n \in Nat, n \in T PROVE n + 1 \in T
  <2>1. n + 1 \in Nat
      OBVIOUS
  <2>2. CASE n + 1 <= Len(order)
    <3>1. n <= Len(order) /\ n + 1 \in 1..Len(order) /\ n + 1 \in 0..Len(order) /\ (n + 1) - 1 = n /\ n + 1 # 0
        BY <1>2, <2>2
    <3>2. IsGenerating(f[n], c, Done(n))
        BY <1>5, <3>1
    <3>3. f[n + 1] = Generate(f[n], c, g, order[n + 1])
      <4>1. f[n + 1] = Generate(f[(n + 1) - 1], c, g, order[n + 1])
          BY <1>3, <3>1 DEF IsGeneratingAll
      <4>. QED BY <3>1, <4>1
    <3>4. order[n + 1] \in Applicable(projected, c.values)
        BY <1>2, <3>1 DEF ops
    <3>5. Done(n + 1) = Done(n) \cup {order[n + 1]}
      <4>1. 1..(n + 1) = (1..n) \cup {n + 1}
          OBVIOUS
      <4>. QED BY <4>1
    <3> HIDE DEF Done
    <3>6. IsGenerating(f[n + 1], c, Done(n + 1))
        BY <3>2, <3>3, <3>4, <3>5, GenerateStep
    <3>. QED BY <2>1, <3>6
  <2>3. CASE ~ (n + 1 <= Len(order))
      BY <2>1, <2>3
  <2>. QED BY <2>2, <2>3
<1>6. Len(order) \in T
  <2> HIDE DEF T
  <2>. QED BY <1>2, <1>4, <1>5, Counting
<1>7. IsGenerating(y, c, Done(Len(order)))
    BY <1>2, <1>3, <1>6
<1>8. ops \subseteq Done(Len(order))
    BY <1>2
<1> HIDE DEF Done
<1>9. /\ IsExploring(y) /\ IsRegistry(projected, y.registry) /\ IsContext(projected, y.registry, c) /\ c.parent \in y.closed
      /\ \A i \in y.closed \ {c.parent} : IsFinished(y.registry, y.transitions, i)
      /\ \A o \in ops : IsFollowed(y.registry, y.transitions, c.parent, o)
    BY <1>7, <1>8 DEF IsGenerating, IsExploring
<1>10. Applicable(projected, Seen(y.registry, c.parent)) = ops
  <2>1. IsState(projected, Seen(y.registry, c.parent)) /\ IsState(projected, c.values)
        /\ Alike(projected, Seen(y.registry, c.parent), c.values)
      BY <1>9, ViewFacts DEF IsContext, Seen
  <2>. QED BY <2>1, LikeSteps DEF ops
<1>11. IsFinished(y.registry, y.transitions, c.parent)
    BY <1>9, <1>10 DEF IsFinished
<1> QED BY <1>9, <1>11 DEF IsExploration, y

\* A closed state that is popped again changes nothing.
LEMMA PopFacts ==
    ASSUME NEW x, IsExploration(x), NEW e \in x.open, NEW y, y = [x EXCEPT !.open = @ \ {e}]
    PROVE  /\ y = [registry |-> x.registry, open |-> x.open \ {e}, closed |-> x.closed, generated |-> x.generated,
                   newStates |-> x.newStates, transitions |-> x.transitions, goals |-> x.goals]
           /\ y.registry = x.registry
           /\ e.id \in x.closed => IsExploration(y)
<1>1. x = [registry |-> x.registry, open |-> x.open, closed |-> x.closed, generated |-> x.generated,
           newStates |-> x.newStates, transitions |-> x.transitions, goals |-> x.goals]
    BY DEF IsExploration, IsExploring
<1>2. y = [registry |-> x.registry, open |-> x.open \ {e}, closed |-> x.closed, generated |-> x.generated,
           newStates |-> x.newStates, transitions |-> x.transitions, goals |-> x.goals]
    BY <1>1
<1>3. /\ y.registry = x.registry /\ y.open = x.open \ {e} /\ y.closed = x.closed
      /\ y.generated = x.generated /\ y.newStates = x.newStates
      /\ y.transitions = x.transitions /\ y.goals = x.goals
    BY <1>2
<1>4. ASSUME e.id \in x.closed PROVE IsExploration(y)
  <2>1. \A i \in DOMAIN x.registry.states : IsKnown(y, i)
      BY <1>3, <1>4 DEF IsExploration, IsExploring, IsKnown
  <2>2. IsExploring(y)
      BY <1>2, <1>3, <2>1 DEF IsExploration, IsExploring
  <2>. QED BY <1>3, <2>2 DEF IsExploration
<1> QED BY <1>2, <1>3, <1>4

LEMMA CloseFacts ==
    ASSUME IsTask(projected), NEW x, IsExploration(x), NEW e \in x.open, NEW y, y = [x EXCEPT !.open = @ \ {e}]
    PROVE  IsGenerating(Closed(y, e.id), Context(projected, y.registry, e.id), {})
<1> DEFINE i == e.id
           z == Closed(y, i)
           c == Context(projected, y.registry, i)
           goals == IF IsGoalState(projected, Seen(y.registry, i)) THEN x.goals \cup {i} ELSE x.goals
           r == x.registry
<1>1. /\ y = [registry |-> r, open |-> x.open \ {e}, closed |-> x.closed, generated |-> x.generated,
              newStates |-> x.newStates, transitions |-> x.transitions, goals |-> x.goals]
      /\ y.registry = r
    BY PopFacts
<1>2. z = [registry |-> r, open |-> x.open \ {e}, closed |-> x.closed \cup {i}, generated |-> x.generated,
           newStates |-> x.newStates, transitions |-> x.transitions, goals |-> goals]
  <2>1. z = [y EXCEPT !.closed = y.closed \cup {i},
                      !.goals = IF IsGoalState(projected, Seen(y.registry, i)) THEN y.goals \cup {i} ELSE y.goals]
      BY DEF Closed
  <2>2. y.closed = x.closed /\ y.goals = x.goals
      BY <1>1
  <2>3. z = [y EXCEPT !.closed = x.closed \cup {i}, !.goals = goals]
      BY <2>1, <2>2
  <2> HIDE DEF z, goals, i
  <2>. QED BY <1>1, <2>3
<1>3. i \in DOMAIN r.states /\ IsRegistry(projected, r)
    BY DEF IsExploration, IsExploring
<1>4. c.parent = i /\ c.values = Seen(r, i)
    BY <1>1 DEF Context, Seen
<1>5. /\ x.goals \subseteq x.closed /\ x.closed \subseteq DOMAIN r.states
      /\ \A j \in x.closed : IsGoalState(projected, Seen(r, j)) => j \in x.goals
      /\ \A j \in DOMAIN r.states : IsKnown(x, j)
    BY DEF IsExploration, IsExploring
<1>6. goals \subseteq x.closed \cup {i} /\ \A j \in x.closed \cup {i} : IsGoalState(projected, Seen(r, j)) => j \in goals
    BY <1>1, <1>5
<1> HIDE DEF z, c, goals, i, r
<1>7. /\ z.registry = r /\ z.open = x.open \ {e} /\ z.closed = x.closed \cup {i} /\ z.goals = goals
      /\ z.transitions = x.transitions /\ z.generated = x.generated /\ z.newStates = x.newStates
    BY <1>2
<1>8. \A j \in DOMAIN r.states : IsKnown(z, j)
  <2> SUFFICES ASSUME NEW j \in DOMAIN r.states PROVE IsKnown(z, j)
      OBVIOUS
  <2>1. CASE j = i
      BY <1>7, <2>1 DEF IsKnown
  <2>2. CASE j # i
    <3>1. j \in x.closed \/ (\E u \in x.open : u.id = j) \/ IsDead(r, j)
        BY <1>5 DEF IsKnown, r
    <3>2. \A u \in x.open : u.id = j => u \in x.open \ {e}
        BY <2>2 DEF i
    <3>. QED BY <1>7, <3>1, <3>2 DEF IsKnown
  <2>. QED BY <2>1, <2>2
<1>9. IsExploring(z)
  <2>1. /\ 1 \in DOMAIN r.states /\ Alike(projected, Seen(r, 1), InitialState(projected))
        /\ \A u \in x.open : u.id \in DOMAIN r.states
        /\ \A tr \in x.transitions : /\ tr.source \in DOMAIN r.states
                                     /\ tr.target \in DOMAIN r.states
                                     /\ tr.operator \in DOMAIN projected.operators
      BY DEF IsExploration, IsExploring, r
  <2>. QED BY <1>2, <1>3, <1>5, <1>6, <1>7, <1>8, <2>1 DEF IsExploring
<1>10. IsContext(projected, r, c)
    BY <1>3, <1>4, ViewFacts, AlikeSelf DEF IsContext, Seen
<1>11. \A j \in z.closed \ {i} : IsFinished(z.registry, z.transitions, j)
  <2>1. \A j \in x.closed : IsFinished(r, x.transitions, j)
      BY DEF IsExploration, r
  <2>. QED BY <1>7, <2>1
<1>12. IsGenerating(z, c, {})
    BY <1>4, <1>7, <1>9, <1>10, <1>11 DEF IsGenerating
<1> QED BY <1>12 DEF z, c, i

IsBuilt ==
    /\ pdb.registry = exploration.registry
    /\ pdb.exhausted = (Frontier = {})
    /\ pdb.relevant = IF Frontier = {} THEN {tr.operator : tr \in exploration.transitions}
                      ELSE DOMAIN projected.operators
    /\ pdb.distances = GoalDistances(
           {<<i, 0>> : i \in exploration.goals} \cup {FrontierSeed(i) : i \in Frontier},
           DOMAIN exploration.registry.states, exploration.transitions, projected.costs)

\* What is explored is so, and the database is made of it.
DatabaseInv ==
    /\ task \in Tasks /\ config \in Configs
    /\ \E pattern \in PatternsOf(task) : projected = Projected(task, pattern)
    /\ phase \in {"exploring", "built", "searching"}
    /\ phase # "searching" => IsExploration(exploration)
    /\ phase = "built" => IsBuilt

LEMMA ProjectedTask ==
    ASSUME task \in Tasks, \E pattern \in PatternsOf(task) : projected = Projected(task, pattern)
    PROVE  IsTask(task) /\ IsProjection(task, projected) /\ IsTask(projected)
<1>1. PICK pattern \in PatternsOf(task) : projected = Projected(task, pattern)
    OBVIOUS
<1>2. IsTask(task) /\ pattern \in SUBSET (task.variables \cup Numbers(task))
    BY PatternsAssumption, TasksAssumption
<1>3. IsProjection(task, projected)
    BY <1>1, <1>2, ProjectionFacts
<1> QED BY <1>2, <1>3, ProjectedIsTask

LEMMA InitialExploration ==
    ASSUME Init
    PROVE  IsExploration(exploration)
<1> DEFINE r == RegisterInitial(projected)
           e == [f |-> 0, h |-> 0, id |-> 1, g |-> 0]
           x == exploration
<1>1. IsTask(projected)
    BY ProjectedTask DEF Init
<1>2. IsRegistry(projected, r) /\ DOMAIN r.states = {1} /\ View(projected, r, 1) = InitialState(projected)
    BY <1>1, InitialRegistry
<1>3. e.id = 1
    OBVIOUS
<1>4. exploration = [NoExploration EXCEPT !.registry = r, !.open = {e}, !.generated = {1}]
    BY DEF Init
<1> HIDE DEF r, e
<1>5. x = [registry |-> r, open |-> {e}, closed |-> {}, generated |-> {1}, newStates |-> 0,
           transitions |-> {}, goals |-> {}]
    BY <1>4 DEF NoExploration
<1> HIDE DEF x
<1>6. /\ x = [registry |-> x.registry, open |-> x.open, closed |-> x.closed, generated |-> x.generated,
              newStates |-> x.newStates, transitions |-> x.transitions, goals |-> x.goals]
      /\ x.registry = r /\ x.open = {e} /\ x.closed = {} /\ x.transitions = {} /\ x.goals = {}
    BY <1>5
<1>7. \A i \in {1} : IsKnown(x, i)
    BY <1>3, <1>6 DEF IsKnown
<1>8. Alike(projected, Seen(r, 1), InitialState(projected))
    BY <1>2, AlikeSelf DEF Seen
<1>9. IsExploring(x)
    BY <1>2, <1>3, <1>6, <1>7, <1>8 DEF IsExploring
<1> QED BY <1>6, <1>9 DEF IsExploration, x

LEMMA ExploreExplores ==
    ASSUME DatabaseInv, Explore
    PROVE  IsExploration(exploration')
<1>1. IsExploration(exploration) /\ IsTask(projected)
    BY ProjectedTask DEF DatabaseInv, Explore
<1>2. PICK first \in exploration.open :
          LET x == [exploration EXCEPT !.open = @ \ {first}]
          IN  \/ /\ first.id \in exploration.closed
                 /\ exploration' = x
              \/ /\ first.id \notin exploration.closed
                 /\ \E order \in SetToSeqs(Applicable(projected, Seen(x.registry, first.id))) :
                        exploration' = GenerateAll(Closed(x, first.id),
                                                   Context(projected, x.registry, first.id),
                                                   first.g, order)
    BY DEF Explore
<1> DEFINE x == [exploration EXCEPT !.open = @ \ {first}]
           c == Context(projected, x.registry, first.id)
<1>3. CASE first.id \in exploration.closed
    BY <1>1, <1>2, <1>3, PopFacts
<1>4. CASE first.id \notin exploration.closed
  <2>1. PICK order \in SetToSeqs(Applicable(projected, Seen(x.registry, first.id))) :
            exploration' = GenerateAll(Closed(x, first.id), c, first.g, order)
      BY <1>2, <1>4
  <2>2. IsGenerating(Closed(x, first.id), c, {})
      BY <1>1, CloseFacts
  <2>3. c.values = Seen(x.registry, first.id)
      BY DEF Context, Seen
  <2> HIDE DEF c, x
  <2>4. order \in SetToSeqs(Applicable(projected, c.values))
      BY <2>1, <2>3
  <2>5. IsExploration(GenerateAll(Closed(x, first.id), c, first.g, order))
      BY <1>1, <2>2, <2>4, GenerateAllFacts
  <2>. QED BY <2>1, <2>5
<1> QED BY <1>3, <1>4

LEMMA SameDatabase ==
    ASSUME projected' = projected, config' = config, IsExploration(exploration')
    PROVE  IsExploration(exploration)'
<1>1. \A r, i : IsDead(r, i) => IsDead(r, i)'
    BY DEF IsDead, InnerEstimate, Seen
<1>2. IsExploring(exploration') => IsExploring(exploration)'
    BY DEF IsExploring, IsKnown, IsDead, InnerEstimate, Seen
<1>3. (\A i \in exploration'.closed : IsFinished(exploration'.registry, exploration'.transitions, i))
          => (\A i \in exploration.closed : IsFinished(exploration.registry, exploration.transitions, i))'
    BY DEF IsFinished, IsFollowed, Seen
<1> QED BY <1>2, <1>3 DEF IsExploration

LEMMA DatabaseInvariant == Spec => []DatabaseInv
<1>1. SearchInit => DatabaseInv
    BY InitialExploration DEF SearchInit, Init, DatabaseInv
<1>2. DatabaseInv /\ [Next]_vars => DatabaseInv'
  <2> SUFFICES ASSUME DatabaseInv, [Next]_vars PROVE DatabaseInv'
      OBVIOUS
  <2>1. CASE Explore
    <3>1. IsExploration(exploration')
        BY <2>1, ExploreExplores
    <3>2. task' = task /\ projected' = projected /\ config' = config /\ phase' = "exploring"
        BY <2>1 DEF Explore
    <3>3. IsExploration(exploration)'
        BY <3>1, <3>2, SameDatabase
    <3>. QED BY <3>2, <3>3 DEF DatabaseInv
  <2>2. CASE Build
    <3>1. task' = task /\ projected' = projected /\ config' = config /\ exploration' = exploration
          /\ phase' = "built" /\ IsExploration(exploration)
        BY <2>2 DEF Build, DatabaseInv
    <3>2. IsExploration(exploration)'
        BY <3>1, SameDatabase
    <3>3. IsBuilt'
      <4>1. Frontier' = Frontier
          BY <3>1 DEF Frontier
      <4>2. {FrontierSeed(i) : i \in Frontier}' = {FrontierSeed(i) : i \in Frontier}
          BY <3>1, <4>1 DEF FrontierSeed, Seen, InnerEstimate
      <4>. QED BY <2>2, <3>1, <4>1, <4>2 DEF Build, IsBuilt
    <3>. QED BY <3>1, <3>2, <3>3 DEF DatabaseInv
  <2>3. CASE Start
      BY <2>3 DEF Start, DatabaseInv
  <2>4. CASE (\E i \in StateIds : Expand(i)) \/ (\E i \in StateIds : Prune(i))
      BY <2>4 DEF Expand, Prune, pdbvars, DatabaseInv
  <2>5. CASE UNCHANGED vars
    <3>1. task' = task /\ projected' = projected /\ config' = config /\ exploration' = exploration
          /\ phase' = phase /\ pdb' = pdb
        BY <2>5 DEF vars, pdbvars
    <3>2. phase # "searching" => IsExploration(exploration)'
        BY <3>1, SameDatabase DEF DatabaseInv
    <3>3. phase = "built" => IsBuilt'
      <4>1. Frontier' = Frontier
          BY <3>1 DEF Frontier
      <4>2. {FrontierSeed(i) : i \in Frontier}' = {FrontierSeed(i) : i \in Frontier}
          BY <3>1, <4>1 DEF FrontierSeed, Seen, InnerEstimate
      <4>. QED BY <3>1, <4>1, <4>2 DEF DatabaseInv, IsBuilt
    <3>. QED BY <3>1, <3>2, <3>3 DEF DatabaseInv
  <2>. QED BY <2>1, <2>2, <2>3, <2>4, <2>5 DEF Next
<1> QED BY <1>1, <1>2, PTL DEF Spec

-----------------------------------------------------------------------------
(* The abstract states of the task's states *)

LEMMA LookedUp ==
    ASSUME DatabaseInv, phase = "built", NEW s, s \in StatesOf(task)
    PROVE  LET a == AbstractStateId(s)
               q == ProjectedState(projected, s)
               r == exploration.registry
           IN  /\ IsState(task, s) /\ IsValued(task, s) /\ IsState(projected, q)
               /\ \/ a \in DOMAIN r.states /\ Alike(projected, Seen(r, a), q)
                  \/ a = NotFound /\ \A j \in DOMAIN r.states : ~ Alike(projected, Seen(r, j), q)
               /\ \A j \in DOMAIN r.states : Alike(projected, Seen(r, j), q) => a = j
               /\ \A j \in DOMAIN r.states : j # NotFound
<1> DEFINE q == ProjectedState(projected, s)
           r == exploration.registry
           a == AbstractStateId(s)
<1>1. IsTask(task) /\ IsProjection(task, projected) /\ IsTask(projected) /\ IsRegistry(projected, r)
    BY ProjectedTask DEF DatabaseInv, IsExploration, IsExploring
<1>2. IsState(task, s) /\ IsValued(task, s)
    BY <1>1, ExplicitStates, StateFacts DEF DatabaseInv
<1>3. IsState(projected, q)
    BY <1>1, <1>2, ProjectedStateFacts
<1>4. a = Find(projected, r, q)
    BY DEF AbstractStateId, DatabaseInv, IsBuilt
<1> HIDE DEF q, r, a
<1>5. \/ a \in DOMAIN r.states /\ Alike(projected, Seen(r, a), q)
      \/ a = NotFound /\ \A j \in DOMAIN r.states : ~ Alike(projected, Seen(r, j), q)
    BY <1>1, <1>3, <1>4, FindFacts DEF Seen
<1>6. \A j \in DOMAIN r.states : Alike(projected, Seen(r, j), q) => a = j
  <2> SUFFICES ASSUME NEW j \in DOMAIN r.states, Alike(projected, Seen(r, j), q) PROVE a = j
      OBVIOUS
  <2>1. a \in DOMAIN r.states /\ Alike(projected, Seen(r, a), q)
      BY <1>5
  <2>2. Alike(projected, Seen(r, a), Seen(r, j))
      BY <2>1, AlikeSym, AlikeTrans
  <2>. QED BY <1>1, <2>1, <2>2 DEF IsRegistry, Seen
<1>7. \A j \in DOMAIN r.states : j # NotFound
    BY <1>1 DEF IsRegistry, NotFound
<1> QED BY <1>2, <1>3, <1>5, <1>6, <1>7 DEF q, r, a

\* A step of the task stays in its abstract state, or is one of the projection.
LEMMA AbstractStep ==
    ASSUME DatabaseInv, phase = "built", EffectsAreProjected(task, projected),
           NEW s, s \in StatesOf(task), NEW o, o \in Applicable(task, s)
    PROVE  LET q == ProjectedState(projected, s)
               u == ProjectedState(projected, Successor(task, o, s))
           IN  /\ Successor(task, o, s) \in StatesOf(task)
               /\ IsState(projected, u)
               /\ o \in DOMAIN task.operators
               /\ o \notin DOMAIN projected.operators => Alike(projected, u, q)
               /\ o \in DOMAIN projected.operators =>
                      o \in Applicable(projected, q) /\ Alike(projected, u, After(projected, o, q))
<1> DEFINE q == ProjectedState(projected, s)
           w == Successor(task, o, s)
           after == After(task, o, s)
           u == ProjectedState(projected, w)
<1>1. task \in Tasks /\ IsTask(task) /\ IsProjection(task, projected) /\ IsTask(projected)
    BY ProjectedTask DEF DatabaseInv
<1>2. IsState(task, s) /\ o \in DOMAIN task.operators
    BY LookedUp DEF Applicable
<1>3. w \in StatesOf(task)
    BY <1>1, ExplicitStates DEF ContainsAllReachable
<1>4. IsState(task, after) /\ IsState(task, w) /\ IsValued(task, after) /\ IsValued(task, w)
    BY <1>1, <1>2, <1>3, AfterFacts, StateFacts, ExplicitStates
<1>5. Alike(task, w, after)
    BY <1>1, <1>4, IdentityFacts DEF Successor
<1> HIDE DEF w, after
<1>6. Alike(projected, u, ProjectedState(projected, after)) /\ IsState(projected, u)
    BY <1>1, <1>4, <1>5, ProjectedAlike, ProjectedStateFacts
<1>7. o \notin DOMAIN projected.operators => ProjectedState(projected, after) = q
    BY <1>1, <1>2, DroppedSteps DEF after
<1>8. o \in DOMAIN projected.operators =>
          o \in Applicable(projected, q) /\ After(projected, o, q) = ProjectedState(projected, after)
    BY <1>1, <1>2, KeptSteps DEF after
<1> QED BY <1>2, <1>3, <1>6, <1>7, <1>8 DEF q, w, u

LEMMA StepIsAbstracted ==
    ASSUME DatabaseInv, phase = "built", EffectsAreProjected(task, projected),
           NEW s, s \in StatesOf(task), NEW o, o \in Applicable(task, s)
    PROVE  /\ IsAbstracted(s, o)
           /\ AbstractStateId(s) # AbstractStateId(Successor(task, o, s)) /\ AbstractStateId(s) \in exploration.closed
                  => o \in DOMAIN projected.operators
<1> DEFINE w == Successor(task, o, s)
           q == ProjectedState(projected, s)
           u == ProjectedState(projected, w)
           r == exploration.registry
           a == AbstractStateId(s)
           b == AbstractStateId(w)
<1> SUFFICES ASSUME a \in exploration.closed
             PROVE  /\ b # NotFound
                    /\ a # b => /\ Step(a, o, b) \in exploration.transitions
                                /\ o \in pdb.relevant
                                /\ o \in DOMAIN projected.operators
    BY DEF IsAbstracted, Step
<1>1. /\ w \in StatesOf(task) /\ IsState(projected, u)
      /\ o \notin DOMAIN projected.operators => Alike(projected, u, q)
      /\ o \in DOMAIN projected.operators =>
             o \in Applicable(projected, q) /\ Alike(projected, u, After(projected, o, q))
    BY AbstractStep
<1>2. /\ IsTask(projected) /\ IsExploration(exploration) /\ IsRegistry(projected, r) /\ IsBuilt
      /\ exploration.closed \subseteq DOMAIN r.states
    BY ProjectedTask DEF DatabaseInv, IsExploration, IsExploring
<1>3. /\ IsState(projected, q)
      /\ a \in DOMAIN r.states /\ Alike(projected, Seen(r, a), q)
      /\ \A j \in DOMAIN r.states : j # NotFound
    BY <1>2, LookedUp
<1>4. \A j \in DOMAIN r.states : Alike(projected, Seen(r, j), u) => b = j
    BY <1>1, LookedUp
<1> HIDE DEF w, q, u, r, a, b
<1>5. CASE o \notin DOMAIN projected.operators
  <2>1. Alike(projected, Seen(r, a), u)
      BY <1>1, <1>3, <1>5, AlikeSym, AlikeTrans
  <2>2. b = a
      BY <1>3, <1>4, <2>1
  <2>. QED BY <1>3, <2>2
<1>6. CASE o \in DOMAIN projected.operators
  <2>1. IsState(projected, Seen(r, a))
      BY <1>2, <1>3, ViewFacts DEF Seen
  <2>2. /\ Applicable(projected, Seen(r, a)) = Applicable(projected, q)
        /\ Alike(projected, After(projected, o, Seen(r, a)), After(projected, o, q))
      BY <1>2, <1>3, <1>6, <2>1, LikeSteps
  <2>3. IsFollowed(r, exploration.transitions, a, o)
      BY <1>1, <1>2, <1>6, <2>2 DEF IsExploration, IsFinished, r, a
  <2>4. PICK j \in DOMAIN r.states : /\ Alike(projected, Seen(r, j), After(projected, o, Seen(r, a)))
                                     /\ a = j \/ Step(a, o, j) \in exploration.transitions
      BY <2>3 DEF IsFollowed
  <2>5. Alike(projected, Seen(r, j), u)
      BY <1>1, <1>6, <2>2, <2>4, AlikeSym, AlikeTrans
  <2>6. b = j
      BY <1>4, <2>4, <2>5
  <2>7. Step(a, o, j).operator = o
      BY DEF Step
  <2>8. a # b => o \in pdb.relevant
      BY <1>2, <1>6, <2>4, <2>6, <2>7 DEF IsBuilt
  <2>. QED BY <1>3, <1>6, <2>4, <2>6, <2>8
<1> QED BY <1>5, <1>6

\* Every step of the task is one of the abstract state space or stays where it is
\* (explore, ProjectedTask::new), if projections keep what their effects depend on.
THEOREM StepsAlwaysAreAbstracted ==
    ASSUME \A t \in Tasks : \A pattern \in PatternsOf(t) : EffectsAreProjected(t, Projected(t, pattern))
    PROVE  Spec => []StepsAreAbstracted
<1>1. DatabaseInv => StepsAreAbstracted
  <2> SUFFICES ASSUME DatabaseInv, phase = "built", NEW s \in StatesOf(task), NEW o \in Applicable(task, s)
               PROVE  IsAbstracted(s, o)
      BY DEF StepsAreAbstracted
  <2>1. EffectsAreProjected(task, projected)
      BY DEF DatabaseInv
  <2>. QED BY <2>1, StepIsAbstracted
<1> QED BY <1>1, DatabaseInvariant, PTL

-----------------------------------------------------------------------------
(* The goal distances *)

Seeded(seeds, ids) ==
    [i \in ids |-> Min({Infinite} \cup {e[2] : e \in {x \in seeds : x[1] = i}})]

AreSeeds(seeds, ids) == \A e \in seeds : e[1] \in ids /\ e[2] \in Nat
AreTransitions(transitions, ids, costs) ==
    \A tr \in transitions : tr.source \in ids /\ tr.target \in ids /\ costs[tr.operator] \in Nat

\* n states have left the queue.
IsSettling(search, seeds, ids, transitions, costs, n) ==
    /\ search.settled \subseteq ids /\ Cardinality(search.settled) = n
    /\ search.d \in [ids -> Nat]
    /\ \A i \in ids : search.d[i] <= Seeded(seeds, ids)[i]
    /\ \A j \in search.settled : \A k \in ids \ search.settled : search.d[j] <= search.d[k]
    /\ \A tr \in transitions : tr.target \in search.settled =>
           search.d[tr.source] <= search.d[tr.target] + costs[tr.operator]

LEMMA SeededFacts ==
    ASSUME NEW seeds, NEW ids, AreSeeds(seeds, ids)
    PROVE  /\ Seeded(seeds, ids) \in [ids -> Nat]
           /\ \A i \in ids : Seeded(seeds, ids)[i] <= Infinite
           /\ \A e \in seeds : Seeded(seeds, ids)[e[1]] <= e[2]
<1> DEFINE values(i) == {Infinite} \cup {e[2] : e \in {x \in seeds : x[1] = i}}
<1>1. ASSUME NEW i \in ids
      PROVE  /\ Seeded(seeds, ids)[i] \in values(i)
             /\ Seeded(seeds, ids)[i] \in Nat
             /\ \A n \in values(i) : Seeded(seeds, ids)[i] <= n
  <2>1. values(i) \in SUBSET Nat /\ values(i) # {}
      BY InfiniteAssumption DEF AreSeeds
  <2>2. Seeded(seeds, ids)[i] = Min(values(i))
      BY DEF Seeded
  <2> HIDE DEF values
  <2>. QED BY <2>1, <2>2, LeastNatural
<1>2. \A e \in seeds : e[1] \in ids /\ e[2] \in values(e[1])
    BY DEF AreSeeds
<1>3. \A i \in ids : Infinite \in values(i)
    OBVIOUS
<1>4. Seeded(seeds, ids) = [i \in ids |-> Seeded(seeds, ids)[i]]
    BY DEF Seeded
<1> HIDE DEF values
<1> QED BY <1>1, <1>2, <1>3, <1>4

\* The values of the states that left the queue are final.
LEMMA SettleFacts ==
    ASSUME NEW seeds, NEW ids, NEW transitions, NEW costs, NEW search, NEW n \in Nat,
           IsFiniteSet(ids), n < Cardinality(ids), AreSeeds(seeds, ids),
           AreTransitions(transitions, ids, costs), IsSettling(search, seeds, ids, transitions, costs, n)
    PROVE  IsSettling(Settle(search, transitions, costs), seeds, ids, transitions, costs, n + 1)
<1> DEFINE d     == search.d
           done  == search.settled
           queue == ids \ done
           next  == CHOOSE i \in queue : \A j \in queue : d[i] <= d[j]
           through(i) == {d[next] + costs[tr.operator] :
                             tr \in {x \in transitions : x.source = i /\ x.target = next}}
           e     == [i \in ids |-> Min({d[i]} \cup through(i))]
           after == Settle(search, transitions, costs)
<1>1. d \in [ids -> Nat] /\ done \subseteq ids /\ IsFiniteSet(done) /\ DOMAIN d = ids
    BY FS_Subset DEF IsSettling
<1>2. next \in queue /\ \A j \in queue : d[next] <= d[j]
  <2>1. queue # {}
    <3>1. done # ids
        BY DEF IsSettling
    <3>. QED BY <1>1, <3>1
  <2> DEFINE V == {d[i] : i \in queue}
  <2>2. V \in SUBSET Nat /\ V # {}
      BY <1>1, <2>1
  <2>3. Min(V) \in V /\ \A v \in V : Min(V) <= v
    <3> HIDE DEF V
    <3>. QED BY <2>2, LeastNatural
  <2>4. \E i \in queue : \A j \in queue : d[i] <= d[j]
      BY <2>3
  <2> HIDE DEF queue, d
  <2>. QED BY <2>4
<1>3. after.settled = done \cup {next} /\ after.d = e
    BY <1>1 DEF Settle
<1> HIDE DEF next, after
<1>4. ASSUME NEW i \in ids
      PROVE  /\ e[i] \in Nat /\ e[i] <= d[i]
             /\ e[i] = d[i] \/ d[next] <= e[i]
             /\ \A tr \in transitions : tr.source = i /\ tr.target = next => e[i] <= d[next] + costs[tr.operator]
  <2> DEFINE V == {d[i]} \cup through(i)
  <2>1. d[next] \in Nat /\ d[i] \in Nat
      BY <1>1, <1>2
  <2>2. \A tr \in transitions : costs[tr.operator] \in Nat
      BY DEF AreTransitions
  <2>3. V \in SUBSET Nat /\ V # {} /\ \A v \in V : v = d[i] \/ d[next] <= v
      BY <2>1, <2>2
  <2>4. e[i] = Min(V)
      OBVIOUS
  <2>5. \A tr \in transitions : tr.source = i /\ tr.target = next => d[next] + costs[tr.operator] \in V
      OBVIOUS
  <2>6. d[i] \in V
      OBVIOUS
  <2> HIDE DEF V, e, d
  <2>7. e[i] \in V /\ \A v \in V : e[i] <= v
      BY <2>3, <2>4, LeastNatural
  <2>. QED BY <2>3, <2>5, <2>6, <2>7
<1>5. e \in [ids -> Nat]
    BY <1>4
<1> HIDE DEF e
<1>6. \A j \in done : d[j] <= d[next]
    BY <1>2 DEF IsSettling
<1>7. \A j \in done \cup {next} : e[j] = d[j] /\ j \in ids
  <2> SUFFICES ASSUME NEW j \in done \cup {next} PROVE e[j] = d[j] /\ j \in ids
      OBVIOUS
  <2>1. j \in ids /\ d[j] \in Nat /\ d[next] \in Nat /\ d[j] <= d[next]
      BY <1>1, <1>2, <1>6
  <2>2. e[j] \in Nat /\ e[j] <= d[j] /\ (e[j] = d[j] \/ d[next] <= e[j])
      BY <1>4, <2>1
  <2>. QED BY <2>1, <2>2
<1>8. Cardinality(done \cup {next}) = n + 1
  <2>1. Cardinality(done) = n /\ next \notin done
      BY <1>2 DEF IsSettling
  <2>. QED BY <1>1, <2>1, FS_AddElement
<1>9. \A i \in ids : e[i] <= Seeded(seeds, ids)[i]
  <2> SUFFICES ASSUME NEW i \in ids PROVE e[i] <= Seeded(seeds, ids)[i]
      OBVIOUS
  <2>1. d[i] <= Seeded(seeds, ids)[i] /\ d[i] \in Nat /\ Seeded(seeds, ids)[i] \in Nat
      BY <1>1, SeededFacts DEF IsSettling
  <2>. QED BY <1>4, <2>1
<1>10. \A j \in done \cup {next} : \A k \in ids \ (done \cup {next}) : e[j] <= e[k]
  <2> SUFFICES ASSUME NEW j \in done \cup {next}, NEW k \in ids \ (done \cup {next}) PROVE e[j] <= e[k]
      OBVIOUS
  <2>1. k \in queue /\ d[k] \in Nat /\ d[next] \in Nat /\ d[next] <= d[k]
      BY <1>1, <1>2
  <2>2. d[j] <= d[next] /\ d[j] \in Nat /\ e[j] = d[j]
      BY <1>1, <1>2, <1>6, <1>7
  <2>3. e[k] \in Nat /\ (e[k] = d[k] \/ d[next] <= e[k])
      BY <1>4
  <2>. QED BY <2>1, <2>2, <2>3
<1>11. \A tr \in transitions : tr.target \in done \cup {next} => e[tr.source] <= e[tr.target] + costs[tr.operator]
  <2> SUFFICES ASSUME NEW tr \in transitions, tr.target \in done \cup {next}
               PROVE  e[tr.source] <= e[tr.target] + costs[tr.operator]
      OBVIOUS
  <2>1. tr.source \in ids /\ tr.target \in ids /\ costs[tr.operator] \in Nat
      BY DEF AreTransitions
  <2>2. e[tr.target] = d[tr.target] /\ d[tr.target] \in Nat /\ d[tr.source] \in Nat
      BY <1>1, <1>7, <2>1
  <2>3. e[tr.source] \in Nat /\ e[tr.source] <= d[tr.source]
      BY <1>4, <2>1
  <2>4. CASE tr.target \in done
    <3>1. d[tr.source] <= d[tr.target] + costs[tr.operator]
        BY <2>4 DEF IsSettling
    <3>. QED BY <2>1, <2>2, <2>3, <3>1
  <2>5. CASE tr.target = next
      BY <1>4, <2>1, <2>2, <2>5
  <2>. QED BY <2>4, <2>5
<1>12. done \cup {next} \subseteq ids
    BY <1>7
<1> QED BY <1>3, <1>5, <1>8, <1>9, <1>10, <1>11, <1>12 DEF IsSettling, after

IsSettled(f, seeds, ids, transitions, costs, n) ==
    f = [k \in 0..n |-> IF k = 0 THEN [settled |-> {}, d |-> Seeded(seeds, ids)]
                        ELSE Settle(f[k - 1], transitions, costs)]

LEMMA SettlingRuns ==
    ASSUME NEW seeds, NEW ids, NEW transitions, NEW costs, Cardinality(ids) \in Nat
    PROVE  \E f : /\ IsSettled(f, seeds, ids, transitions, costs, Cardinality(ids))
                  /\ GoalDistances(seeds, ids, transitions, costs) = f[Cardinality(ids)].d
<1> DEFINE start == [settled |-> {}, d |-> Seeded(seeds, ids)]
           N == Cardinality(ids)
           T == {n \in Nat : \E f : IsSettled(f, seeds, ids, transitions, costs, n)}
<1>1. 0 \in T
  <2> DEFINE f == [k \in 0..0 |-> start]
  <2>1. IsSettled(f, seeds, ids, transitions, costs, 0)
    <3> HIDE DEF start
    <3>1. f = [k \in 0..0 |-> IF k = 0 THEN start ELSE Settle(f[k - 1], transitions, costs)]
        OBVIOUS
    <3>. QED BY <3>1 DEF IsSettled, start
  <2>. QED BY <2>1
<1>2. ASSUME NEW n \in Nat, n \in T PROVE n + 1 \in T
  <2>1. PICK f : IsSettled(f, seeds, ids, transitions, costs, n)
      BY <1>2
  <2> HIDE DEF start
  <2> DEFINE h == [k \in 0..(n + 1) |-> IF k = 0 THEN start ELSE Settle(f[k - 1], transitions, costs)]
  <2>0. f = [k \in 0..n |-> IF k = 0 THEN start ELSE Settle(f[k - 1], transitions, costs)]
      BY <2>1 DEF IsSettled, start
  <2>2. \A k \in 0..n : h[k] = f[k]
    <3>1. \A k \in 0..n : k \in 0..(n + 1)
        OBVIOUS
    <3>. QED BY <2>0, <3>1
  <2>4. \A k \in 0..(n + 1) : k # 0 => h[k - 1] = f[k - 1]
    <3> HIDE DEF h
    <3> SUFFICES ASSUME NEW k \in 0..(n + 1), k # 0 PROVE h[k - 1] = f[k - 1]
        OBVIOUS
    <3>1. k - 1 \in 0..n
        OBVIOUS
    <3>. QED BY <2>2, <3>1
  <2>5. h = [k \in 0..(n + 1) |-> IF k = 0 THEN start ELSE Settle(h[k - 1], transitions, costs)]
      BY <2>4
  <2> HIDE DEF h
  <2>6. IsSettled(h, seeds, ids, transitions, costs, n + 1)
      BY <2>5 DEF IsSettled, start
  <2>7. n + 1 \in Nat
      OBVIOUS
  <2>. QED BY <2>6, <2>7
<1>3. N \in T
  <2> HIDE DEF T, N
  <2>1. N \in Nat
      BY DEF N
  <2>. QED BY <1>1, <1>2, <2>1, Counting
<1>4. \E f : f = [k \in 0..N |-> IF k = 0 THEN start ELSE Settle(f[k - 1], transitions, costs)]
    BY <1>3 DEF IsSettled
<1> DEFINE search == CHOOSE f : f = [k \in 0..N |-> IF k = 0 THEN start ELSE Settle(f[k - 1], transitions, costs)]
<1>5. search = [k \in 0..N |-> IF k = 0 THEN start ELSE Settle(search[k - 1], transitions, costs)]
  <2> HIDE DEF start, N
  <2>. QED BY <1>4
<1>6. GoalDistances(seeds, ids, transitions, costs) = search[N].d
    BY DEF GoalDistances, Seeded
<1> HIDE DEF search
<1> QED BY <1>5, <1>6 DEF IsSettled

\* backward_dijkstra: no distance is above a seed or above the way through a transition.
LEMMA GoalDistancesFacts ==
    ASSUME NEW seeds, NEW ids, NEW transitions, NEW costs, IsFiniteSet(ids), AreSeeds(seeds, ids),
           AreTransitions(transitions, ids, costs)
    PROVE  LET d == GoalDistances(seeds, ids, transitions, costs)
           IN  /\ d \in [ids -> Nat]
               /\ \A i \in ids : d[i] <= Infinite
               /\ \A e \in seeds : d[e[1]] <= e[2]
               /\ \A tr \in transitions : d[tr.source] <= d[tr.target] + costs[tr.operator]
<1> DEFINE N == Cardinality(ids)
<1>1. N \in Nat
    BY FS_CardinalityType
<1>2. PICK f : IsSettled(f, seeds, ids, transitions, costs, N) /\ GoalDistances(seeds, ids, transitions, costs) = f[N].d
    BY <1>1, SettlingRuns
<1> HIDE DEF N
<1> DEFINE T == {n \in Nat : n <= N => IsSettling(f[n], seeds, ids, transitions, costs, n)}
<1>3. 0 \in T
  <2> DEFINE start == [settled |-> {}, d |-> Seeded(seeds, ids)]
  <2>1. f[0] = start
      BY <1>1, <1>2 DEF IsSettled
  <2>2. Cardinality({}) = 0
      BY FS_EmptySet
  <2>3. Seeded(seeds, ids) \in [ids -> Nat]
      BY SeededFacts
  <2>4. start.settled = {} /\ start.d = Seeded(seeds, ids)
      OBVIOUS
  <2> HIDE DEF start
  <2>5. IsSettling(start, seeds, ids, transitions, costs, 0)
      BY <2>2, <2>3, <2>4 DEF IsSettling
  <2>. QED BY <2>1, <2>5
<1>4. ASSUME NEW n \in Nat, n \in T PROVE n + 1 \in T
  <2>1. n + 1 \in Nat
      OBVIOUS
  <2>2. CASE n + 1 <= N
    <3>1. n <= N /\ n < N /\ n + 1 \in 0..N /\ (n + 1) - 1 = n /\ n + 1 # 0
        BY <1>1, <2>2
    <3>2. IsSettling(f[n], seeds, ids, transitions, costs, n)
        BY <1>4, <3>1
    <3>3. f[n + 1] = Settle(f[n], transitions, costs)
      <4>1. f[n + 1] = Settle(f[(n + 1) - 1], transitions, costs)
          BY <1>2, <3>1 DEF IsSettled
      <4>. QED BY <3>1, <4>1
    <3>4. IsSettling(f[n + 1], seeds, ids, transitions, costs, n + 1)
        BY <3>1, <3>2, <3>3, SettleFacts DEF N
    <3>. QED BY <2>1, <3>4
  <2>3. CASE ~ (n + 1 <= N)
      BY <2>1, <2>3
  <2>. QED BY <2>2, <2>3
<1>5. N \in T
  <2> HIDE DEF T
  <2>. QED BY <1>1, <1>3, <1>4, Counting
<1>6. IsSettling(f[N], seeds, ids, transitions, costs, N)
    BY <1>1, <1>5
<1>7. f[N].settled = ids
    BY <1>6, FS_Subset DEF IsSettling, N
<1> DEFINE d == f[N].d
<1>8. d \in [ids -> Nat] /\ \A i \in ids : d[i] <= Seeded(seeds, ids)[i]
    BY <1>6 DEF IsSettling
<1>9. \A tr \in transitions : d[tr.source] <= d[tr.target] + costs[tr.operator]
    BY <1>6, <1>7 DEF IsSettling, AreTransitions
<1> HIDE DEF d
<1>10. \A i \in ids : d[i] <= Infinite
  <2> SUFFICES ASSUME NEW i \in ids PROVE d[i] <= Infinite
      OBVIOUS
  <2>1. Seeded(seeds, ids)[i] \in Nat /\ Seeded(seeds, ids)[i] <= Infinite
      BY SeededFacts
  <2>. QED BY <1>8, <2>1, InfiniteAssumption
<1>11. \A e \in seeds : d[e[1]] <= e[2]
  <2> SUFFICES ASSUME NEW e \in seeds PROVE d[e[1]] <= e[2]
      OBVIOUS
  <2>1. e[1] \in ids /\ e[2] \in Nat
      BY DEF AreSeeds
  <2>2. Seeded(seeds, ids)[e[1]] \in Nat /\ Seeded(seeds, ids)[e[1]] <= e[2]
      BY <2>1, SeededFacts
  <2>. QED BY <1>8, <2>1, <2>2
<1> QED BY <1>2, <1>8, <1>9, <1>10, <1>11 DEF d

-----------------------------------------------------------------------------
(* Estimates *)

Distance(s) == TrueDistances[task][s]

\* LM-cut's estimates are numbers, or Infinite.
IsEstimated(p) == \A s : IsState(p, s) => LmcutEstimate(p, WithoutRows(p, s)) \in Nat

LEMMA LargerOf ==
    ASSUME NEW a \in Nat, NEW b \in Nat
    PROVE  Max({a, b}) \in {a, b}
<1>1. \E x \in {a, b} : \A y \in {a, b} : x >= y
    OBVIOUS
<1> QED BY <1>1 DEF Max

LEMMA CheapestFacts ==
    ASSUME NEW p, IsTask(p)
    PROVE  /\ CheapestOperator(p) \in Nat
           /\ CheapestOperator(p) <= Infinite
           /\ \A o \in DOMAIN p.operators : CheapestOperator(p) <= p.costs[o]
<1> DEFINE C == {Infinite} \cup {p.costs[o] : o \in DOMAIN p.costs}
<1>1. DOMAIN p.costs = DOMAIN p.operators /\ p.costs \in [DOMAIN p.operators -> Nat]
    BY DEF IsTask
<1>2. C \in SUBSET Nat /\ C # {} /\ Infinite \in C /\ \A o \in DOMAIN p.operators : p.costs[o] \in C
    BY <1>1, InfiniteAssumption
<1>3. CheapestOperator(p) = Min(C)
    BY DEF CheapestOperator
<1> HIDE DEF C
<1>4. Min(C) \in C /\ \A n \in C : Min(C) <= n
    BY <1>2, LeastNatural
<1> QED BY <1>2, <1>3, <1>4

LEMMA InnerFacts ==
    ASSUME DatabaseInv, IsEstimated(projected), NEW h, NEW q, IsState(projected, q)
    PROVE  /\ InnerEstimate(h, q) \in Nat
           /\ LmcutIsAdmissible(task, projected) =>
                  \A s \in StatesOf(task) : Alike(projected, q, ProjectedState(projected, s))
                      => InnerEstimate(h, q) <= Distance(s)
<1>1. InnerEstimate(h, q) \in Nat
    BY DEF InnerEstimate, IsEstimated
<1>2. ASSUME LmcutIsAdmissible(task, projected), NEW s \in StatesOf(task),
             Alike(projected, q, ProjectedState(projected, s))
      PROVE  InnerEstimate(h, q) <= Distance(s)
  <2>1. IsTask(task) /\ IsProjection(task, projected) /\ IsTask(projected)
      BY ProjectedTask DEF DatabaseInv
  <2>2. IsState(task, s) /\ Distance(s) \in Nat
      BY ExplicitStates, TrueDistancesFacts, InfiniteAssumption DEF DatabaseInv, Distance
  <2>3. IsState(projected, ProjectedState(projected, s))
      BY <2>1, <2>2, ProjectedStateFacts
  <2>4. WithoutRows(projected, q) = WithoutRows(projected, ProjectedState(projected, s))
      BY <1>2, <2>1, <2>3, StateFacts, IdentityFacts
  <2>5. LmcutEstimate(projected, WithoutRows(projected, q)) <= Distance(s)
      BY <1>2, <2>4 DEF LmcutIsAdmissible, Distance
  <2>. QED BY <2>2, <2>5 DEF InnerEstimate
<1> QED BY <1>1, <1>2

LEMMA DistanceFacts ==
    ASSUME task \in Tasks
    PROVE  /\ \A s \in StatesOf(task) : Distance(s) \in Nat /\ Distance(s) <= Infinite
           /\ \A s \in StatesOf(task) : IsGoalState(task, s) => Distance(s) = 0
           /\ \A s \in StatesOf(task) : \A o \in Applicable(task, s) :
                  Distance(s) = Infinite => Distance(Successor(task, o, s)) = Infinite
<1>1. TrueDistances[task] \in [StatesOf(task) -> 0..Infinite]
    BY TrueDistancesFacts
<1>2. \A s \in StatesOf(task) : Distance(s) \in Nat /\ Distance(s) <= Infinite
    BY <1>1, InfiniteAssumption DEF Distance
<1>3. \A s \in StatesOf(task) : IsGoalState(task, s) => Distance(s) = 0
    BY TrueDistancesFacts DEF Distance
<1>4. \A s \in StatesOf(task) : \A o \in Applicable(task, s) :
          Distance(s) = Infinite => Distance(Successor(task, o, s)) = Infinite
    BY TrueDistancesFacts DEF Distance
<1> QED BY <1>2, <1>3, <1>4

\* A cheapest plan leaves every set of states without goals.
LEMMA PlansLeave ==
    ASSUME task \in Tasks, NEW B, B \subseteq StatesOf(task), B # {},
           \A s \in B : ~ IsGoalState(task, s) /\ Distance(s) < Infinite
    PROVE  \E s \in B : \E o \in Applicable(task, s) :
               LET u == Successor(task, o, s)
               IN  /\ u \in StatesOf(task) /\ u \notin B
                   /\ Price(task, o, s) \in Nat /\ Distance(s) = Price(task, o, s) + Distance(u)
                   /\ Distance(u) \in Nat /\ Distance(u) <= Distance(s) /\ Distance(u) < Infinite
<1>1. B \in SUBSET {s \in StatesOf(task) : ~ IsGoalState(task, s) /\ TrueDistances[task][s] < Infinite}
    BY DEF Distance
<1>2. \E s \in B : \E o \in Applicable(task, s) :
          /\ Successor(task, o, s) \notin B
          /\ TrueDistances[task][s] = Price(task, o, s) + TrueDistances[task][Successor(task, o, s)]
    BY <1>1, TrueDistancesFacts
<1>3. PICK s \in B : \E o \in Applicable(task, s) :
          /\ Successor(task, o, s) \notin B
          /\ Distance(s) = Price(task, o, s) + Distance(Successor(task, o, s))
    BY <1>2 DEF Distance
<1>4. PICK o \in Applicable(task, s) :
          /\ Successor(task, o, s) \notin B
          /\ Distance(s) = Price(task, o, s) + Distance(Successor(task, o, s))
    BY <1>3
<1> DEFINE u == Successor(task, o, s)
           price == Price(task, o, s)
<1>5. s \in StatesOf(task) /\ IsState(task, s) /\ u \in StatesOf(task)
    BY ExplicitStates DEF ContainsAllReachable
<1>6. price \in Int /\ price >= 0
  <2>1. o \in DOMAIN task.operators
      BY DEF Applicable
  <2>2. Alike(task, s, s) /\ IsTask(task)
      BY AlikeSelf, TasksAssumption
  <2>. QED BY <1>5, <2>1, <2>2, LikeSteps, PricesArePaid
<1>7. Distance(s) = price + Distance(u) /\ Distance(s) < Infinite /\ u \notin B
    BY <1>4
<1>8. Distance(u) \in Nat /\ Distance(s) \in Nat
    BY <1>5, DistanceFacts
<1> HIDE DEF u, price
<1>9. price \in Nat /\ Distance(u) <= Distance(s) /\ Distance(u) < Infinite
    BY <1>6, <1>7, <1>8, InfiniteAssumption
<1> QED BY <1>5, <1>7, <1>8, <1>9 DEF u, price

\* A state that is no goal of the projection is as far from a goal as its cheapest operator.
LEMMA CheapestIsPaid ==
    ASSUME DatabaseInv, phase = "built", EffectsAreProjected(task, projected), CostsArePaid(task, StatesOf(task)),
           NEW s, s \in StatesOf(task), ~ IsGoalState(projected, ProjectedState(projected, s))
    PROVE  CheapestOperator(projected) <= Distance(s)
<1> DEFINE q(x) == ProjectedState(projected, x)
           C == CheapestOperator(projected)
           B == {x \in StatesOf(task) : /\ ~ IsGoalState(projected, q(x))
                                        /\ Distance(x) < Infinite /\ Distance(x) < C}
<1>1. /\ task \in Tasks /\ IsTask(task) /\ IsProjection(task, projected) /\ IsTask(projected)
    BY ProjectedTask DEF DatabaseInv
<1>2. C \in Nat /\ C <= Infinite /\ \A o \in DOMAIN projected.operators : C <= projected.costs[o]
    BY <1>1, CheapestFacts
<1> HIDE DEF C
<1>3. Distance(s) \in Nat /\ Distance(s) <= Infinite
    BY <1>1, DistanceFacts
<1> SUFFICES ASSUME ~ (C <= Distance(s)) PROVE FALSE
    BY DEF C
<1>4. s \in B
    BY <1>2, <1>3, InfiniteAssumption
<1>5. \A x \in B : ~ IsGoalState(task, x) /\ Distance(x) < Infinite
  <2> SUFFICES ASSUME NEW x \in B PROVE ~ IsGoalState(task, x)
      OBVIOUS
  <2>1. IsState(task, x) /\ ~ IsGoalState(projected, q(x))
      BY <1>1, ExplicitStates
  <2>. QED BY <1>1, <2>1, ProjectedStateFacts
<1>6. B \subseteq StatesOf(task) /\ B # {}
    BY <1>4
<1>7. \A x \in B : x \in StatesOf(task) /\ Distance(x) < C /\ ~ IsGoalState(projected, q(x))
    OBVIOUS
<1>8. \A x \in StatesOf(task) : x \notin B /\ Distance(x) < Infinite /\ Distance(x) < C => IsGoalState(projected, q(x))
    OBVIOUS
<1> HIDE DEF B
<1>9. PICK x \in B : \E o \in Applicable(task, x) :
          LET u == Successor(task, o, x)
          IN  /\ u \in StatesOf(task) /\ u \notin B
              /\ Price(task, o, x) \in Nat /\ Distance(x) = Price(task, o, x) + Distance(u)
              /\ Distance(u) \in Nat /\ Distance(u) <= Distance(x) /\ Distance(u) < Infinite
    BY <1>1, <1>5, <1>6, PlansLeave
<1>10. PICK o \in Applicable(task, x) :
          LET u == Successor(task, o, x)
          IN  /\ u \in StatesOf(task) /\ u \notin B
              /\ Price(task, o, x) \in Nat /\ Distance(x) = Price(task, o, x) + Distance(u)
              /\ Distance(u) \in Nat /\ Distance(u) <= Distance(x) /\ Distance(u) < Infinite
    BY <1>9
<1> DEFINE u == Successor(task, o, x)
<1>11. /\ u \in StatesOf(task) /\ u \notin B
       /\ Price(task, o, x) \in Nat /\ Distance(x) = Price(task, o, x) + Distance(u)
       /\ Distance(u) \in Nat /\ Distance(u) <= Distance(x) /\ Distance(u) < Infinite
    BY <1>10
<1>12. x \in StatesOf(task) /\ Distance(x) < C /\ ~ IsGoalState(projected, q(x)) /\ Distance(x) \in Nat
    BY <1>1, <1>7, DistanceFacts
<1>13. /\ IsState(projected, q(u))
       /\ o \in DOMAIN task.operators
       /\ o \notin DOMAIN projected.operators => Alike(projected, q(u), q(x))
    BY <1>12, AbstractStep
<1> HIDE DEF u
<1>14. IsGoalState(projected, q(u))
    BY <1>2, <1>8, <1>11, <1>12
<1>15. IsState(projected, q(x))
    BY <1>1, <1>12, ExplicitStates, ProjectedStateFacts
<1> HIDE DEF q
<1>16. o \in DOMAIN projected.operators
    BY <1>1, <1>12, <1>13, <1>14, <1>15, LikeSteps
<1>17. projected.costs[o] = task.costs[o]
    BY <1>1, <1>16 DEF IsProjection, KeepsOperators
<1>18. task.costs[o] <= Price(task, o, x) /\ task.costs[o] \in Nat
    BY <1>1, <1>12, <1>13 DEF CostsArePaid, IsTask
<1>19. C <= task.costs[o]
    BY <1>2, <1>16, <1>17
<1> QED BY <1>2, <1>11, <1>12, <1>18, <1>19

LEMMA SeedFacts ==
    ASSUME DatabaseInv, phase = "built", IsEstimated(projected)
    PROVE  LET r == exploration.registry
           IN  /\ \A i \in Frontier : /\ i \in DOMAIN r.states /\ IsState(projected, Seen(r, i))
                                      /\ FrontierSeed(i)[1] = i /\ FrontierSeed(i)[2] \in Nat
               /\ \A i \in DOMAIN r.states : IsState(projected, Seen(r, i))
<1> DEFINE r == exploration.registry
<1>1. IsTask(projected) /\ IsRegistry(projected, r) /\ \A e \in exploration.open : e.id \in DOMAIN r.states
    BY ProjectedTask DEF DatabaseInv, IsExploration, IsExploring
<1>2. \A i \in DOMAIN r.states : IsState(projected, Seen(r, i))
    BY <1>1, ViewFacts DEF Seen
<1>3. ASSUME NEW i \in Frontier
      PROVE  /\ i \in DOMAIN r.states /\ IsState(projected, Seen(r, i))
             /\ FrontierSeed(i)[1] = i /\ FrontierSeed(i)[2] \in Nat
  <2> DEFINE a == InnerEstimate(config.frontier, Seen(r, i))
             b == CheapestOperator(projected)
  <2>1. i \in DOMAIN r.states
      BY <1>1 DEF Frontier
  <2>2. a \in Nat /\ b \in Nat
      BY <1>1, <1>2, <2>1, InnerFacts, CheapestFacts
  <2>3. FrontierSeed(i) = IF IsGoalState(projected, Seen(r, i)) THEN <<i, 0>> ELSE <<i, Max({a, b})>>
      BY DEF FrontierSeed
  <2> HIDE DEF a, b, r
  <2>4. Max({a, b}) \in Nat
      BY <2>2, LargerOf
  <2>. QED BY <1>2, <2>1, <2>3, <2>4
<1> QED BY <1>2, <1>3

LEMMA DatabaseFacts ==
    ASSUME DatabaseInv, phase = "built", IsEstimated(projected)
    PROVE  LET ids == DOMAIN exploration.registry.states
               d   == pdb.distances
           IN  /\ d \in [ids -> Nat]
               /\ \A i \in ids : d[i] <= Infinite
               /\ \A i \in exploration.goals : d[i] <= 0
               /\ \A i \in Frontier : d[i] <= FrontierSeed(i)[2]
               /\ \A tr \in exploration.transitions : d[tr.source] <= d[tr.target] + projected.costs[tr.operator]
<1> DEFINE ids == DOMAIN exploration.registry.states
           zeros == {<<i, 0>> : i \in exploration.goals}
           beyond == {FrontierSeed(i) : i \in Frontier}
           d == pdb.distances
<1>1. /\ IsTask(projected) /\ IsRegistry(projected, exploration.registry)
      /\ exploration.closed \subseteq ids /\ exploration.goals \subseteq exploration.closed
      /\ \A tr \in exploration.transitions : tr.source \in ids /\ tr.target \in ids /\ tr.operator \in DOMAIN projected.operators
      /\ d = GoalDistances(zeros \cup beyond, ids, exploration.transitions, projected.costs)
    BY ProjectedTask DEF DatabaseInv, IsExploration, IsExploring, IsBuilt
<1>2. IsFiniteSet(ids)
  <2>1. ids = 1..Len(exploration.registry.states) /\ Len(exploration.registry.states) \in Nat
      BY <1>1 DEF IsRegistry
  <2>. QED BY <2>1, FS_Interval
<1>3. AreSeeds(zeros, ids)
    BY <1>1 DEF AreSeeds
<1>4. AreSeeds(beyond, ids)
    BY SeedFacts DEF AreSeeds
<1>5. AreSeeds(zeros \cup beyond, ids)
    BY <1>3, <1>4 DEF AreSeeds
<1>6. AreTransitions(exploration.transitions, ids, projected.costs)
    BY <1>1 DEF AreTransitions, IsTask
<1>7. \A i \in exploration.goals : <<i, 0>> \in zeros
    OBVIOUS
<1>8. \A i \in Frontier : FrontierSeed(i) \in beyond /\ FrontierSeed(i)[1] = i
    BY SeedFacts
<1> HIDE DEF zeros, beyond, ids, d
<1>9. /\ d \in [ids -> Nat]
      /\ \A i \in ids : d[i] <= Infinite
      /\ \A e \in zeros \cup beyond : d[e[1]] <= e[2]
      /\ \A tr \in exploration.transitions : d[tr.source] <= d[tr.target] + projected.costs[tr.operator]
    BY <1>1, <1>2, <1>5, <1>6, GoalDistancesFacts
<1>10. \A i \in exploration.goals : d[i] <= 0
  <2> SUFFICES ASSUME NEW i \in exploration.goals PROVE d[i] <= 0
      OBVIOUS
  <2>1. d[<<i, 0>>[1]] <= <<i, 0>>[2]
      BY <1>7, <1>9
  <2>. QED BY <2>1
<1>11. \A i \in Frontier : d[i] <= FrontierSeed(i)[2]
  <2> SUFFICES ASSUME NEW i \in Frontier PROVE d[i] <= FrontierSeed(i)[2]
      OBVIOUS
  <2>1. FrontierSeed(i) \in beyond /\ FrontierSeed(i)[1] = i
      BY <1>8
  <2>2. d[FrontierSeed(i)[1]] <= FrontierSeed(i)[2]
      BY <1>9, <2>1
  <2>. QED BY <2>1, <2>2
<1> QED BY <1>9, <1>10, <1>11 DEF ids, d

\* What is assumed of the task and its projection.
IsAdmissiblyProjected(t, p) ==
    EffectsAreProjected(t, p) /\ LmcutIsAdmissible(t, p) /\ CostsArePaid(t, StatesOf(t)) /\ IsEstimated(p)

\* A state of a dead end that was not expanded has no plan.
LEMMA DeadEnds ==
    ASSUME DatabaseInv, phase = "built", IsAdmissiblyProjected(task, projected),
           NEW s, s \in StatesOf(task), AbstractStateId(s) # NotFound,
           IsDead(exploration.registry, AbstractStateId(s))
    PROVE  Distance(s) = Infinite
<1> DEFINE i == AbstractStateId(s)
           r == exploration.registry
<1>1. i \in DOMAIN r.states /\ Alike(projected, Seen(r, i), ProjectedState(projected, s))
    BY LookedUp
<1>2. IsState(projected, Seen(r, i))
    BY <1>1, SeedFacts DEF IsAdmissiblyProjected
<1>3. InnerEstimate(config.exploration, Seen(r, i)) <= Distance(s)
    BY <1>1, <1>2, InnerFacts DEF IsAdmissiblyProjected
<1>4. Infinite <= Distance(s)
    BY <1>3 DEF IsDead
<1>5. Distance(s) \in Nat /\ Distance(s) <= Infinite
    BY DistanceFacts DEF DatabaseInv
<1> QED BY <1>4, <1>5, InfiniteAssumption

\* Without a frontier every state that is not known has no plan.
LEMMA UnknownStates ==
    ASSUME DatabaseInv, phase = "built", IsAdmissiblyProjected(task, projected), Frontier = {},
           NEW s, s \in StatesOf(task), AbstractStateId(s) = NotFound
    PROVE  Distance(s) = Infinite
<1> DEFINE R == {x \in StatesOf(task) : Distance(x) = Infinite \/ AbstractStateId(x) # NotFound}
           start == WithoutRows(task, InitialState(task))
           r == exploration.registry
<1>1. /\ task \in Tasks /\ IsTask(task) /\ IsProjection(task, projected) /\ IsTask(projected)
      /\ ContainsAllReachable(task, StatesOf(task))
    BY ProjectedTask, ExplicitStates DEF DatabaseInv
<1>2. start \in StatesOf(task)
    BY <1>1 DEF ContainsAllReachable
<1>3. start \in R
  <2>1. IsState(task, InitialState(task)) /\ IsValued(task, InitialState(task)) /\ IsValued(task, start)
        /\ Alike(task, start, InitialState(task))
      BY <1>1, InitialStateFacts, StateFacts, IdentityFacts
  <2>2. Alike(projected, ProjectedState(projected, start), InitialState(projected))
      BY <1>1, <2>1, ProjectedAlike, ProjectedInitialState
  <2>3. 1 \in DOMAIN r.states /\ Alike(projected, Seen(r, 1), InitialState(projected))
      BY DEF DatabaseInv, IsExploration, IsExploring
  <2> HIDE DEF start, r
  <2>4. Alike(projected, Seen(r, 1), ProjectedState(projected, start))
      BY <2>2, <2>3, AlikeSym, AlikeTrans
  <2>5. AbstractStateId(start) = 1
      BY <1>2, <2>3, <2>4, LookedUp DEF r
  <2>. QED BY <1>2, <2>5 DEF NotFound
<1>4. ASSUME NEW x \in R, NEW o \in Applicable(task, x)
      PROVE  Successor(task, o, x) \in R
  <2>1. x \in StatesOf(task) /\ Successor(task, o, x) \in StatesOf(task)
      BY <1>1 DEF ContainsAllReachable
  <2>2. CASE Distance(x) = Infinite
    <3>1. Distance(Successor(task, o, x)) = Infinite
        BY <1>1, <2>1, <2>2, DistanceFacts
    <3>. QED BY <2>1, <3>1
  <2>3. CASE Distance(x) # Infinite
    <3>1. AbstractStateId(x) # NotFound
        BY <2>3
    <3>2. ~ IsDead(r, AbstractStateId(x))
        BY <2>1, <2>3, <3>1, DeadEnds
    <3>3. AbstractStateId(x) \in DOMAIN r.states
        BY <2>1, <3>1, LookedUp
    <3>4. IsKnown(exploration, AbstractStateId(x))
        BY <3>3 DEF DatabaseInv, IsExploration, IsExploring
    <3>5. AbstractStateId(x) \in exploration.closed
        BY <3>2, <3>4 DEF IsKnown, Frontier
    <3>6. AbstractStateId(Successor(task, o, x)) # NotFound
        BY <2>1, <3>5, StepIsAbstracted DEF IsAdmissiblyProjected, IsAbstracted
    <3>. QED BY <2>1, <3>6
  <2>. QED BY <2>2, <2>3
<1>5. R \in SUBSET StatesOf(task)
    OBVIOUS
<1>6. ContainsAllReachable(task, R)
  <2> HIDE DEF R
  <2>. QED BY <1>3, <1>4 DEF ContainsAllReachable
<1>7. R = StatesOf(task)
  <2> HIDE DEF R
  <2>. QED BY <1>1, <1>5, <1>6, ExplicitStates
<1> QED BY <1>7

\* Goals, and the states that were not expanded.
LEMMA UnexpandedStates ==
    ASSUME DatabaseInv, phase = "built", IsAdmissiblyProjected(task, projected),
           NEW s, s \in StatesOf(task),
           AbstractStateId(s) \in exploration.closed => IsGoalState(projected, ProjectedState(projected, s))
    PROVE  Value(s) <= Distance(s)
<1> DEFINE q == ProjectedState(projected, s)
           i == AbstractStateId(s)
           r == exploration.registry
<1>1. /\ task \in Tasks /\ config \in Configs /\ IsTask(projected) /\ IsExploring(exploration)
      /\ EffectsAreProjected(task, projected) /\ CostsArePaid(task, StatesOf(task)) /\ IsEstimated(projected)
      /\ LmcutIsAdmissible(task, projected)
    BY ProjectedTask DEF DatabaseInv, IsExploration, IsAdmissiblyProjected
<1>2. Distance(s) \in Nat /\ Distance(s) <= Infinite
    BY <1>1, DistanceFacts
<1>3. IsState(projected, q) /\ \/ i \in DOMAIN r.states /\ Alike(projected, Seen(r, i), q)
                               \/ i = NotFound
      /\ \A j \in DOMAIN r.states : j # NotFound
    BY LookedUp
<1>4. ~ IsGoalState(projected, q) => CheapestOperator(projected) <= Distance(s)
    BY <1>1, CheapestIsPaid
<1>5. CheapestOperator(projected) \in Nat
    BY <1>1, CheapestFacts
<1>6. \A h, p : IsState(projected, p) /\ Alike(projected, p, q)
          => InnerEstimate(h, p) \in Nat /\ InnerEstimate(h, p) <= Distance(s)
    BY <1>1, InnerFacts
<1>7. pdb.exhausted = (Frontier = {})
    BY DEF DatabaseInv, IsBuilt
<1>8. Value(s) = IF i # NotFound THEN pdb.distances[i]
                 ELSE IF pdb.exhausted THEN Infinite
                 ELSE IF IsGoalState(projected, q) THEN 0
                 ELSE FailedLookup(q)
    BY DEF Value
<1>9. CASE i = NotFound
  <2>1. CASE Frontier = {}
    <3>1. Distance(s) = Infinite
        BY <1>9, <2>1, UnknownStates
    <3>. QED BY <1>2, <1>7, <1>8, <1>9, <2>1, <3>1
  <2>2. CASE Frontier # {} /\ IsGoalState(projected, q)
    <3>1. Value(s) = 0
        BY <1>7, <1>8, <1>9, <2>2
    <3>. QED BY <1>2, <3>1
  <2>3. CASE Frontier # {} /\ ~ IsGoalState(projected, q)
    <3>1. Value(s) = FailedLookup(q)
        BY <1>7, <1>8, <1>9, <2>3
    <3>2. config.failedLookup \in {"zero", "blind", "lmcut"}
        BY <1>1, ConfigsAssumption
    <3>3. CheapestOperator(projected) <= Distance(s)
        BY <1>4, <2>3
    <3>4. InnerEstimate("lmcut", q) \in Nat /\ InnerEstimate("lmcut", q) <= Distance(s)
        BY <1>3, <1>6, AlikeSelf
    <3>5. Max({InnerEstimate("lmcut", q), CheapestOperator(projected)})
              \in {InnerEstimate("lmcut", q), CheapestOperator(projected)}
        BY <1>5, <3>4, LargerOf
    <3> HIDE DEF q
    <3>6. CASE config.failedLookup = "zero"
        BY <1>2, <3>1, <3>6 DEF FailedLookup
    <3>7. CASE config.failedLookup = "blind"
        BY <3>1, <3>3, <3>7 DEF FailedLookup
    <3>8. CASE config.failedLookup = "lmcut"
      <4>1. Value(s) = Max({InnerEstimate("lmcut", q), CheapestOperator(projected)})
          BY <3>1, <3>8 DEF FailedLookup
      <4>. QED BY <3>3, <3>4, <3>5, <4>1
    <3>. QED BY <3>2, <3>6, <3>7, <3>8
  <2>. QED BY <2>1, <2>2, <2>3
<1>10. CASE i # NotFound
  <2>1. i \in DOMAIN r.states /\ Alike(projected, Seen(r, i), q) /\ Value(s) = pdb.distances[i]
      BY <1>3, <1>8, <1>10
  <2>2. IsState(projected, Seen(r, i))
      BY <1>1, <2>1, SeedFacts
  <2>3. IsGoalState(projected, Seen(r, i)) <=> IsGoalState(projected, q)
      BY <1>1, <1>3, <2>1, <2>2, LikeSteps
  <2>4. Value(s) \in Nat /\ Value(s) <= Infinite
      BY <1>1, <2>1, DatabaseFacts
  <2>5. IsKnown(exploration, i)
      BY <1>1, <2>1 DEF IsExploring
  <2>6. CASE i \in exploration.closed
    <3>1. i \in exploration.goals
        BY <1>1, <2>3, <2>6 DEF IsExploring
    <3>2. Value(s) <= 0
        BY <1>1, <2>1, <3>1, DatabaseFacts
    <3>. QED BY <1>2, <2>4, <3>2
  <2>7. CASE i \notin exploration.closed /\ i \in Frontier
    <3>1. Value(s) <= FrontierSeed(i)[2] /\ FrontierSeed(i)[2] \in Nat
        BY <1>1, <2>1, <2>7, DatabaseFacts, SeedFacts
    <3>2. CASE IsGoalState(projected, Seen(r, i))
      <4>1. FrontierSeed(i) = <<i, 0>>
          BY <3>2 DEF FrontierSeed
      <4> HIDE DEF i, q
      <4>2. Value(s) <= 0
          BY <3>1, <4>1
      <4>. QED BY <1>2, <2>4, <4>2
    <3>3. CASE ~ IsGoalState(projected, Seen(r, i))
      <4> DEFINE a == InnerEstimate(config.frontier, Seen(r, i))
                 b == CheapestOperator(projected)
      <4>1. FrontierSeed(i) = <<i, Max({a, b})>>
          BY <3>3 DEF FrontierSeed
      <4>2. a \in Nat /\ b \in Nat /\ a <= Distance(s) /\ b <= Distance(s)
          BY <1>4, <1>5, <1>6, <2>1, <2>2, <2>3, <3>3
      <4> HIDE DEF a, b, i, q
      <4>3. Max({a, b}) \in {a, b}
          BY <4>2, LargerOf
      <4>4. Value(s) <= Max({a, b})
          BY <3>1, <4>1
      <4>. QED BY <1>2, <2>4, <4>2, <4>3, <4>4
    <3>. QED BY <3>2, <3>3
  <2>8. CASE i \notin exploration.closed /\ i \notin Frontier
    <3>1. IsDead(r, i)
        BY <2>5, <2>8 DEF IsKnown, Frontier
    <3>2. Distance(s) = Infinite
        BY <1>10, <3>1, DeadEnds
    <3>. QED BY <2>4, <3>2
  <2>. QED BY <2>6, <2>7, <2>8
<1> QED BY <1>9, <1>10

LEMMA ValuesAreAdmissible ==
    ASSUME DatabaseInv, phase = "built", IsAdmissiblyProjected(task, projected),
           NEW s, s \in StatesOf(task)
    PROVE  Value(s) <= Distance(s)
<1> DEFINE q(x) == ProjectedState(projected, x)
           i(x) == AbstractStateId(x)
           d    == pdb.distances
           B    == {x \in StatesOf(task) : /\ i(x) \in exploration.closed /\ ~ IsGoalState(projected, q(x))
                                           /\ ~ (Value(x) <= Distance(x))}
<1> SUFFICES ASSUME ~ (Value(s) <= Distance(s)) PROVE FALSE
    OBVIOUS
<1>1. /\ task \in Tasks /\ IsTask(task) /\ IsProjection(task, projected) /\ IsTask(projected) /\ IsExploring(exploration)
      /\ EffectsAreProjected(task, projected) /\ CostsArePaid(task, StatesOf(task)) /\ IsEstimated(projected)
    BY ProjectedTask DEF DatabaseInv, IsExploration, IsAdmissiblyProjected
<1>2. \A x \in StatesOf(task) : x \notin B => Value(x) <= Distance(x)
    BY UnexpandedStates
<1>3. \A x \in B : /\ x \in StatesOf(task) /\ i(x) \in exploration.closed
                   /\ ~ IsGoalState(projected, q(x)) /\ ~ (Value(x) <= Distance(x))
    OBVIOUS
<1>4. s \in B
    BY <1>2
<1> HIDE DEF B
<1>5. \A x \in StatesOf(task) : Distance(x) \in Nat /\ Distance(x) <= Infinite
    BY <1>1, DistanceFacts
<1>6. exploration.closed \subseteq DOMAIN exploration.registry.states /\ \A j \in DOMAIN exploration.registry.states : j # NotFound
    BY <1>1, LookedUp DEF IsExploring
<1>7. \A x \in StatesOf(task) : i(x) # NotFound => Value(x) = d[i(x)]
    BY DEF Value
<1>8. \A x \in StatesOf(task) : i(x) # NotFound => i(x) \in DOMAIN exploration.registry.states
    BY LookedUp
<1>9. \A j \in DOMAIN exploration.registry.states : d[j] \in Nat /\ d[j] <= Infinite
    BY <1>1, DatabaseFacts
<1>10. ASSUME NEW x \in B PROVE ~ IsGoalState(task, x) /\ Distance(x) < Infinite
  <2>1. x \in StatesOf(task) /\ ~ IsGoalState(projected, q(x)) /\ i(x) \in exploration.closed /\ ~ (Value(x) <= Distance(x))
      BY <1>3
  <2>2. ~ IsGoalState(task, x)
      BY <1>1, <2>1, ExplicitStates, ProjectedStateFacts
  <2> HIDE DEF d, i
  <2>3. Value(x) \in Nat /\ Value(x) <= Infinite
      BY <1>6, <1>7, <1>9, <2>1
  <2>. QED BY <1>5, <2>1, <2>2, <2>3, InfiniteAssumption
<1>11. B \subseteq StatesOf(task) /\ B # {}
    BY <1>3, <1>4
<1>12. PICK x \in B : \E o \in Applicable(task, x) :
          LET u == Successor(task, o, x)
          IN  /\ u \in StatesOf(task) /\ u \notin B
              /\ Price(task, o, x) \in Nat /\ Distance(x) = Price(task, o, x) + Distance(u)
              /\ Distance(u) \in Nat /\ Distance(u) <= Distance(x) /\ Distance(u) < Infinite
    BY <1>1, <1>10, <1>11, PlansLeave
<1>13. PICK o \in Applicable(task, x) :
          LET u == Successor(task, o, x)
          IN  /\ u \in StatesOf(task) /\ u \notin B
              /\ Price(task, o, x) \in Nat /\ Distance(x) = Price(task, o, x) + Distance(u)
              /\ Distance(u) \in Nat /\ Distance(u) <= Distance(x) /\ Distance(u) < Infinite
    BY <1>12
<1> DEFINE u == Successor(task, o, x)
           price == Price(task, o, x)
<1>14. /\ u \in StatesOf(task) /\ u \notin B
       /\ price \in Nat /\ Distance(x) = price + Distance(u)
       /\ Distance(u) \in Nat /\ Distance(u) <= Distance(x) /\ Distance(u) < Infinite
    BY <1>13
<1>15. x \in StatesOf(task) /\ i(x) \in exploration.closed /\ ~ (Value(x) <= Distance(x))
    BY <1>3
<1>16. /\ i(u) # NotFound
       /\ i(x) # i(u) => /\ Step(i(x), o, i(u)) \in exploration.transitions
                         /\ o \in DOMAIN projected.operators
    BY <1>1, <1>15, StepIsAbstracted DEF IsAbstracted, Step
<1>17. Value(u) <= Distance(u)
    BY <1>2, <1>14
<1>18. o \in DOMAIN task.operators /\ task.costs[o] \in Nat /\ task.costs[o] <= price
    BY <1>1, <1>15 DEF Applicable, CostsArePaid, IsTask
<1> HIDE DEF u, price, d, i
<1>19. /\ Value(x) = d[i(x)] /\ d[i(x)] \in Nat /\ Value(u) = d[i(u)] /\ d[i(u)] \in Nat
    BY <1>6, <1>7, <1>8, <1>9, <1>14, <1>15, <1>16
<1>20. CASE i(x) = i(u)
    BY <1>5, <1>14, <1>15, <1>17, <1>19, <1>20
<1>21. CASE i(x) # i(u)
  <2> DEFINE tr == Step(i(x), o, i(u))
  <2>1. tr \in exploration.transitions /\ o \in DOMAIN projected.operators
      BY <1>16, <1>21
  <2>2. tr.source = i(x) /\ tr.operator = o /\ tr.target = i(u)
      BY DEF Step
  <2>3. \A e \in exploration.transitions : d[e.source] <= d[e.target] + projected.costs[e.operator]
      BY <1>1, DatabaseFacts DEF d
  <2> HIDE DEF tr
  <2>4. d[i(x)] <= d[i(u)] + projected.costs[o]
      BY <2>1, <2>2, <2>3
  <2>5. projected.costs[o] = task.costs[o]
      BY <1>1, <2>1 DEF IsProjection, KeepsOperators
  <2>. QED BY <1>14, <1>15, <1>17, <1>18, <1>19, <2>4, <2>5
<1> QED BY <1>20, <1>21

\* No estimate of the database is above the goal distance, and what it calls a dead end
\* has no plan (value, backward_dijkstra), if projections keep what their effects depend
\* on, LM-cut is admissible in them, and operators cost at least what they cost initially.
THEOREM EstimatesAlwaysAreAdmissible ==
    ASSUME \A t \in Tasks : \A pattern \in PatternsOf(t) : IsAdmissiblyProjected(t, Projected(t, pattern))
    PROVE  Spec => []EstimatesAreAdmissible
<1>1. DatabaseInv => EstimatesAreAdmissible
  <2> SUFFICES ASSUME DatabaseInv, phase = "built", NEW s \in StatesOf(task)
               PROVE  Value(s) <= Distance(s)
      BY DEF EstimatesAreAdmissible, Distance
  <2>1. IsAdmissiblyProjected(task, projected)
      BY DEF DatabaseInv
  <2>. QED BY <2>1, ValuesAreAdmissible
<1> QED BY <1>1, DatabaseInvariant, PTL
===============================================================================
