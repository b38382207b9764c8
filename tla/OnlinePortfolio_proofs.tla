----------------------- MODULE OnlinePortfolio_proofs -----------------------
(***************************************************************************)
(* What a search may rely on while a maximum of heuristics learns, for     *)
(* every number of children, configuration, set of functions and rays.     *)
(***************************************************************************)
EXTENDS OnlinePortfolioProperties, FiniteSetTheorems, WellFoundedInduction, TLAPS

-----------------------------------------------------------------------------
(* Largest numbers and sums *)

\* Every set of natural numbers but the empty one has a least element.
LEMMA LeastExists ==
    ASSUME NEW S \in SUBSET Nat, S # {}
    PROVE  \E m \in S : \A n \in S : m <= n
<1>1. \E m \in S : \A n \in S : ~(<<n, m>> \in OpToRel(<, Nat))
    BY WFMin, NatLessThanWellFounded
<1>2. \A m, n \in S : ~(<<n, m>> \in OpToRel(<, Nat)) => m <= n
    BY DEF OpToRel
<1> QED BY <1>1, <1>2

\* Every bounded set of natural numbers but the empty one has a largest element.
LEMMA LargestExists ==
    ASSUME NEW B \in Nat, NEW S \in SUBSET (0..B), S # {}
    PROVE  Max(S) \in S /\ \A n \in S : Max(S) >= n
<1> DEFINE D == {B - x : x \in S}
<1>1. D \in SUBSET Nat /\ D # {}
  <2>1. \A x \in S : B - x \in Nat
      OBVIOUS
  <2> QED BY <2>1
<1>2. PICK d \in D : \A n \in D : d <= n
    BY <1>1, LeastExists
<1>3. PICK x \in S : d = B - x
    OBVIOUS
<1>4. \A y \in S : x >= y
    BY <1>2, <1>3
<1> QED BY <1>4 DEF Max

\* The prefix sums of a sequence of natural numbers.
IsPrefixSum(n, r, f) ==
    /\ f \in [0..n -> Nat]
    /\ f[0] = 0
    /\ \A i \in 1..n : f[i] = f[i - 1] + r[i]

LEMMA PrefixSumExists ==
    ASSUME NEW N \in Nat, NEW r \in [1..N -> Nat]
    PROVE  \E f : IsPrefixSum(N, r, f)
<1> DEFINE Without == {n \in 0..N : ~ \E f : IsPrefixSum(n, r, f)}
<1>1. SUFFICES ASSUME Without # {} PROVE FALSE
    <2>1. N \in 0..N
        OBVIOUS
    <2> QED BY <2>1
<1>0. Without \in SUBSET Nat
    OBVIOUS
<1>2. PICK n \in Without : \A m \in Without : n <= m
  <2> HIDE DEF Without
  <2> QED BY <1>0, <1>1, LeastExists
<1>3. n # 0
  <2>1. IsPrefixSum(0, r, [i \in 0..0 |-> 0])
      BY DEF IsPrefixSum
  <2> QED BY <1>2, <2>1
<1>4. n - 1 \in 0..N /\ n - 1 \notin Without
    BY <1>2, <1>3
<1>5. PICK f : IsPrefixSum(n - 1, r, f)
    BY <1>4
<1> DEFINE g == [i \in 0..n |-> IF i = n THEN f[n - 1] + r[n] ELSE f[i]]
<1>6. IsPrefixSum(n, r, g)
  <2>1. f \in [0..(n - 1) -> Nat] /\ f[0] = 0 /\ \A i \in 1..(n - 1) : f[i] = f[i - 1] + r[i]
      BY <1>5 DEF IsPrefixSum
  <2>2. r[n] \in Nat /\ n \in 1..N
      BY <1>3
  <2>3. g \in [0..n -> Nat]
      BY <2>1, <2>2
  <2>4. g[0] = 0
      BY <1>3, <2>1
  <2>5. ASSUME NEW i \in 1..n PROVE g[i] = g[i - 1] + r[i]
      BY <2>1, <2>2
  <2> QED BY <2>3, <2>4, <2>5 DEF IsPrefixSum
<1> QED BY <1>2, <1>6

LEMMA PrefixSumIsUnique ==
    ASSUME NEW N \in Nat, NEW r \in [1..N -> Nat], NEW f, NEW g,
           IsPrefixSum(N, r, f), IsPrefixSum(N, r, g)
    PROVE  f = g
<1> DEFINE Differ == {n \in 0..N : f[n] # g[n]}
<1>1. SUFFICES ASSUME Differ # {} PROVE FALSE
  <2>1. f \in [0..N -> Nat] /\ g \in [0..N -> Nat]
      BY DEF IsPrefixSum
  <2>2. (\A n \in 0..N : f[n] = g[n]) => f = g
      BY <2>1
  <2> QED BY <2>2
<1>0. Differ \in SUBSET Nat
    OBVIOUS
<1>2. PICK n \in Differ : \A m \in Differ : n <= m
  <2> HIDE DEF Differ
  <2> QED BY <1>0, <1>1, LeastExists
<1>3. n \in 1..N /\ n - 1 \in 0..N /\ n - 1 \notin Differ
    BY <1>2 DEF IsPrefixSum
<1> QED BY <1>2, <1>3 DEF IsPrefixSum

\* SumTo(N, r) is the last prefix sum.
LEMMA SumIsPrefixSum ==
    ASSUME NEW N \in Nat, NEW r \in [1..N -> Nat]
    PROVE  \E f : IsPrefixSum(N, r, f) /\ SumTo(N, r) = f[N]
<1> DEFINE IsSum(f) == f = [i \in 0..N |-> IF i = 0 THEN 0 ELSE f[i - 1] + r[i]]
           sum == CHOOSE f : IsSum(f)
<1>1. PICK f : IsPrefixSum(N, r, f)
    BY PrefixSumExists
<1>2. IsSum(f)
  <2>1. f \in [0..N -> Nat]
      BY <1>1 DEF IsPrefixSum
  <2>2. \A i \in 0..N : f[i] = IF i = 0 THEN 0 ELSE f[i - 1] + r[i]
      BY <1>1 DEF IsPrefixSum
  <2> QED BY <2>1, <2>2
<1>3. IsSum(sum)
    BY <1>2
<1>4. SumTo(N, r) = sum[N]
    BY DEF SumTo
<1>5. IsPrefixSum(N, r, sum)
  <2> HIDE DEF sum
  <2>1. /\ DOMAIN sum = 0..N
        /\ \A i \in 0..N : sum[i] = IF i = 0 THEN 0 ELSE sum[i - 1] + r[i]
      BY <1>3
  <2>2. \A i \in 0..N : sum[i] \in Nat
    <3> DEFINE Bad == {i \in 0..N : sum[i] \notin Nat}
    <3>1. SUFFICES ASSUME Bad # {} PROVE FALSE
        OBVIOUS
    <3>0. Bad \in SUBSET Nat
        OBVIOUS
    <3>2. PICK n \in Bad : \A m \in Bad : n <= m
      <4> HIDE DEF Bad
      <4> QED BY <3>0, <3>1, LeastExists
    <3>3. n \in 1..N /\ n - 1 \in 0..N /\ n - 1 \notin Bad
        BY <2>1, <3>2
    <3>4. sum[n - 1] \in Nat /\ r[n] \in Nat /\ n # 0
        BY <3>3
    <3>5. sum[n] = sum[n - 1] + r[n]
        BY <2>1, <3>3, <3>4
    <3> QED BY <3>2, <3>4, <3>5
  <2>3. sum \in [0..N -> Nat]
      BY <1>3, <2>1, <2>2
  <2> QED BY <2>1, <2>3 DEF IsPrefixSum
<1> QED BY <1>4, <1>5


\* A sum is a number, and grows with its terms.
LEMMA SumIsNat ==
    ASSUME NEW N \in Nat, NEW r \in [1..N -> Nat]
    PROVE  SumTo(N, r) \in Nat
BY SumIsPrefixSum DEF IsPrefixSum

LEMMA SumGrows ==
    ASSUME NEW N \in Nat, NEW r \in [1..N -> Nat], NEW q \in [1..N -> Nat],
           \A i \in 1..N : r[i] <= q[i]
    PROVE  /\ SumTo(N, r) <= SumTo(N, q)
           /\ (\E i \in 1..N : r[i] < q[i]) => SumTo(N, r) < SumTo(N, q)
<1>1. PICK f : IsPrefixSum(N, r, f) /\ SumTo(N, r) = f[N]
    BY SumIsPrefixSum
<1>2. PICK g : IsPrefixSum(N, q, g) /\ SumTo(N, q) = g[N]
    BY SumIsPrefixSum
<1>3. /\ f \in [0..N -> Nat] /\ g \in [0..N -> Nat]
      /\ f[0] = 0 /\ g[0] = 0
      /\ \A i \in 1..N : f[i] = f[i - 1] + r[i] /\ g[i] = g[i - 1] + q[i]
    BY <1>1, <1>2 DEF IsPrefixSum
<1>4. \A n \in 0..N : f[n] <= g[n]
  <2> DEFINE Bad == {n \in 0..N : ~(f[n] <= g[n])}
  <2>1. SUFFICES ASSUME Bad # {} PROVE FALSE
      OBVIOUS
  <2>2. Bad \in SUBSET Nat
      OBVIOUS
  <2>3. PICK n \in Bad : \A m \in Bad : n <= m
    <3> HIDE DEF Bad
    <3> QED BY <2>1, <2>2, LeastExists
  <2>4. n \in 1..N /\ n - 1 \in 0..N /\ f[n - 1] <= g[n - 1]
      BY <1>3, <2>3
  <2> QED BY <1>3, <2>3, <2>4
<1>5. ASSUME NEW i \in 1..N, r[i] < q[i] PROVE f[N] < g[N]
  <2> DEFINE Bad == {n \in i..N : ~(f[n] < g[n])}
  <2>1. SUFFICES ASSUME Bad # {} PROVE FALSE
      BY <1>5
  <2>2. Bad \in SUBSET Nat
      OBVIOUS
  <2>3. PICK n \in Bad : \A m \in Bad : n <= m
    <3> HIDE DEF Bad
    <3> QED BY <2>1, <2>2, LeastExists
  <2>4. n \in 1..N /\ n - 1 \in 0..N
      BY <2>3
  <2>5. CASE n = i
      BY <1>3, <1>4, <1>5, <2>3, <2>4, <2>5
  <2>6. CASE n # i
    <3>1. f[n - 1] < g[n - 1]
        BY <2>3, <2>4, <2>6
    <3>2. f[n - 1] \in Nat /\ g[n - 1] \in Nat /\ r[n] \in Nat /\ q[n] \in Nat /\ r[n] <= q[n]
        BY <1>3, <2>4
    <3>3. f[n] = f[n - 1] + r[n] /\ g[n] = g[n - 1] + q[n]
        BY <1>3, <2>4
    <3> QED BY <2>3, <3>1, <3>2, <3>3
  <2> QED BY <2>5, <2>6
<1> QED BY <1>1, <1>2, <1>3, <1>4, <1>5

LEMMA SumOfZeros ==
    ASSUME NEW N \in Nat
    PROVE  SumTo(N, [i \in 1..N |-> 0]) = 0
<1> DEFINE r == [i \in 1..N |-> 0]
           f == [i \in 0..N |-> 0]
<1>1. r \in [1..N -> Nat] /\ IsPrefixSum(N, r, f) /\ f[N] = 0
    BY DEF IsPrefixSum
<1>2. PICK g : IsPrefixSum(N, r, g) /\ SumTo(N, r) = g[N]
    BY <1>1, SumIsPrefixSum
<1>3. g = f
  <2> HIDE DEF r, f
  <2> QED BY <1>1, <1>2, PrefixSumIsUnique
<1> QED BY <1>1, <1>2, <1>3


-----------------------------------------------------------------------------
(* What a child answers, and what answering does to it.                     *)

Answers(o, k, s) == IF ProvenDead(o, k, s) THEN DeadEnd ELSE Envelope(o, k, s)

LEMMA EnvelopeIsLargest ==
    ASSUME NEW o \in Configuration, NEW k \in ChildType, NEW s \in States
    PROVE  /\ Envelope(o, k, s) \in 0..DeadEnd
           /\ o.base[s] <= Envelope(o, k, s)
           /\ \A f \in k.functions : Value[f][s] <= Envelope(o, k, s)
           /\ \/ Envelope(o, k, s) = o.base[s]
              \/ \E f \in k.functions : Envelope(o, k, s) = Value[f][s]
<1> DEFINE S == {o.base[s]} \union {Value[f][s] : f \in k.functions}
<1>1. o.base[s] \in 0..DeadEnd /\ k.functions \subseteq Functions
    BY DEF Configuration, ChildType
<1>2. S \in SUBSET (0..DeadEnd) /\ S # {} /\ DeadEnd \in Nat
    BY <1>1, PortfolioAssumption
<1>3. o.base[s] \in S /\ \A f \in k.functions : Value[f][s] \in S
    OBVIOUS
<1>4. Max(S) \in S /\ \A n \in S : Max(S) >= n
  <2> HIDE DEF S
  <2> QED BY <1>2, LargestExists
<1>5. Envelope(o, k, s) = Max(S)
    BY DEF Envelope
<1>6. \A m \in S : m = o.base[s] \/ \E f \in k.functions : m = Value[f][s]
    OBVIOUS
<1> HIDE DEF S
<1>7. Max(S) \in 0..DeadEnd
    BY <1>2, <1>4
<1>8. \A n \in S : n <= Max(S)
  <2>1. \A n \in S : n \in 0..DeadEnd
      BY <1>2
  <2> QED BY <1>2, <1>4, <1>7, <2>1
<1> QED BY <1>3, <1>4, <1>5, <1>6, <1>7, <1>8

LEMMA AnswersType ==
    ASSUME NEW o \in Configuration, NEW k \in ChildType, NEW s \in States
    PROVE  Answers(o, k, s) \in 0..DeadEnd
BY EnvelopeIsLargest, PortfolioAssumption DEF Answers

\* With at least the functions and rays of k, answers are at least those of k.
LEMMA AnswersGrow ==
    ASSUME NEW o \in Configuration, NEW k \in ChildType, NEW l \in ChildType,
           k.functions \subseteq l.functions, k.rays \subseteq l.rays, NEW s \in States
    PROVE  Answers(o, k, s) <= Answers(o, l, s)
<1>1. /\ Answers(o, k, s) \in 0..DeadEnd /\ Answers(o, l, s) \in 0..DeadEnd
      /\ DeadEnd \in Nat
    BY AnswersType, PortfolioAssumption
<1>2. CASE ProvenDead(o, l, s)
    BY <1>1, <1>2 DEF Answers
<1>3. CASE ~ProvenDead(o, l, s)
  <2>1. ~ProvenDead(o, k, s)
      BY <1>3 DEF ProvenDead
  <2>2. Envelope(o, k, s) <= Envelope(o, l, s)
      BY EnvelopeIsLargest
  <2> QED BY <1>3, <2>1, <2>2 DEF Answers
<1> QED BY <1>2, <1>3

LEMMA AnswersStay ==
    ASSUME NEW o, NEW k, NEW l, l.functions = k.functions, l.rays = k.rays, NEW s
    PROVE  Answers(o, l, s) = Answers(o, k, s)
BY DEF Answers, ProvenDead, Envelope

\* l is k with other counters only.
SameKnowledge(k, l) ==
    /\ l.functions = k.functions
    /\ l.rays = k.rays
    /\ l.revision = k.revision

LEMMA ChildFields ==
    ASSUME NEW k \in ChildType
    PROVE  /\ k = [functions |-> k.functions, rays |-> k.rays, revision |-> k.revision,
                   optimizer |-> k.optimizer, seen |-> k.seen, sinceSolve |-> k.sinceSolve,
                   interval |-> k.interval, consecutive |-> k.consecutive,
                   misses |-> k.misses, solves |-> k.solves, added |-> k.added]
           /\ k.functions \in SUBSET Functions /\ k.rays \in SUBSET Rays
           /\ k.revision \in Nat /\ k.optimizer \in BOOLEAN /\ k.seen \in SUBSET States
           /\ k.sinceSolve \in Nat /\ k.interval \in Nat /\ k.consecutive \in Nat
           /\ k.misses \in Nat /\ k.solves \in Nat /\ k.added \in Nat
BY DEF ChildType

LEMMA AdvancedEffect ==
    ASSUME NEW o, NEW k \in ChildType, NEW s \in States
    PROVE  /\ Advanced(o, k, s) \in ChildType
           /\ SameKnowledge(k, Advanced(o, k, s))
           /\ Advanced(o, k, s).optimizer = k.optimizer
           /\ Advanced(o, k, s).solves = k.solves
<1> DEFINE since == k.sinceSolve + 1
           seen == IF o.newStatesOnly THEN k.seen \union {s} ELSE k.seen
           l == [k EXCEPT !.sinceSolve = since, !.seen = seen]
<1>1. since \in Nat /\ seen \in SUBSET States
    BY ChildFields
<1>2. Advanced(o, k, s) = k \/ Advanced(o, k, s) = l
    BY DEF Advanced, ChildType
<1> HIDE DEF since, seen
<1>3. l \in ChildType /\ SameKnowledge(k, l) /\ l.optimizer = k.optimizer /\ l.solves = k.solves
    BY <1>1 DEF ChildType, SameKnowledge
<1> HIDE DEF l
<1>4. SameKnowledge(k, k)
    BY DEF SameKnowledge
<1> QED BY <1>2, <1>3, <1>4


LEMMA SolvingEffect ==
    ASSUME NEW o, NEW k \in ChildType, NEW s \in States
    PROVE  /\ Solving(o, k, s) \in ChildType
           /\ SameKnowledge(k, Solving(o, k, s))
           /\ Solving(o, k, s).optimizer = k.optimizer
           /\ Solving(o, k, s).solves = k.solves + 1
<1> DEFINE a == Advanced(o, k, s)
           n == a.solves + 1
<1>1. /\ a \in ChildType /\ SameKnowledge(k, a)
      /\ a.optimizer = k.optimizer /\ a.solves = k.solves
    BY AdvancedEffect
<1>2. Solving(o, k, s) = [a EXCEPT !.sinceSolve = 0, !.solves = n]
    BY <1>1 DEF Solving, ChildType
<1>3. n \in Nat /\ n = k.solves + 1
    BY <1>1 DEF ChildType
<1> DEFINE z == [a EXCEPT !.sinceSolve = 0, !.solves = n]
<1> HIDE DEF a, n
<1>4. z \in ChildType
    BY <1>1, <1>3 DEF ChildType
<1>5. /\ z.functions = a.functions /\ z.rays = a.rays /\ z.revision = a.revision
      /\ z.optimizer = a.optimizer /\ z.solves = n
    BY <1>1 DEF ChildType
<1> HIDE DEF z
<1>6. SameKnowledge(k, z)
    BY <1>1, <1>5 DEF SameKnowledge
<1>7. Solving(o, k, s) = z
    BY <1>2 DEF z
<1> QED BY <1>1, <1>3, <1>4, <1>5, <1>6, <1>7

\* Whatever is left of the optimizer has LPs to spare.
Spares(o, l) == o.maxSolves > 0 => l.solves < o.maxSolves

LEMMA LimitedEffect ==
    ASSUME NEW o \in Configuration, NEW k \in ChildType
    PROVE  /\ Limited(o, k) \in ChildType
           /\ SameKnowledge(k, Limited(o, k))
           /\ Limited(o, k).solves = k.solves
           /\ Limited(o, k).optimizer => Spares(o, k) /\ o.maxFunctions > 0
<1> DEFINE b == ~ \/ k.added >= o.maxFunctions
                  \/ o.maxMisses > 0 /\ k.misses >= o.maxMisses
                  \/ o.maxSolves > 0 /\ k.solves >= o.maxSolves
<1>1. b \in BOOLEAN
    OBVIOUS
<1>2. b => Spares(o, k) /\ o.maxFunctions > 0
    BY DEF Spares, Configuration, ChildType
<1>3. Limited(o, k) = [k EXCEPT !.optimizer = b]
    BY DEF Limited
<1> HIDE DEF b
<1>4. Limited(o, k) \in ChildType /\ SameKnowledge(k, Limited(o, k))
    BY <1>1, <1>3 DEF ChildType, SameKnowledge
<1>5. Limited(o, k).solves = k.solves /\ Limited(o, k).optimizer = b
    BY <1>1, <1>3 DEF ChildType
<1> QED BY <1>2, <1>4, <1>5

\* Learning: knowledge grows, and a child that counts its growth counts this.
Learns(o, k, l) ==
    /\ k.functions \subseteq l.functions
    /\ k.rays \subseteq l.rays
    /\ k.revision <= l.revision
    /\ Tracks(o) /\ l.revision = k.revision
         => l.functions = k.functions /\ l.rays = k.rays

LEMMA SameKnowledgeLearns ==
    ASSUME NEW o, NEW k \in ChildType, NEW l, SameKnowledge(k, l)
    PROVE  Learns(o, k, l)
BY DEF Learns, SameKnowledge, ChildType

LEMMA LearnsIsTransitive ==
    ASSUME NEW o, NEW k \in ChildType, NEW l \in ChildType, NEW m \in ChildType,
           Learns(o, k, l), Learns(o, l, m)
    PROVE  Learns(o, k, m)
BY DEF Learns, ChildType

\* invalidate_online_cache, after a function or a ray was added.
LEMMA GrownEffect ==
    ASSUME NEW o, NEW k \in ChildType, NEW l \in ChildType,
           k.functions \subseteq l.functions, k.rays \subseteq l.rays,
           l.revision = k.revision
    PROVE  /\ Grown(o, l) \in ChildType
           /\ Learns(o, k, Grown(o, l))
           /\ Grown(o, l).functions = l.functions /\ Grown(o, l).rays = l.rays
           /\ Grown(o, l).optimizer = l.optimizer /\ Grown(o, l).solves = l.solves
<1> DEFINE n == l.revision + 1
           g == [l EXCEPT !.revision = n]
<1>1. n \in Nat /\ n > k.revision /\ k.revision \in Nat
    BY DEF ChildType
<1>2. Grown(o, l) = IF Tracks(o) THEN g ELSE l
    BY DEF Grown, ChildType
<1> HIDE DEF n
<1>3. /\ g \in ChildType /\ g.revision = n
      /\ g.functions = l.functions /\ g.rays = l.rays
      /\ g.optimizer = l.optimizer /\ g.solves = l.solves
    BY <1>1 DEF ChildType
<1> HIDE DEF g
<1>4. CASE Tracks(o)
    BY <1>1, <1>2, <1>3, <1>4 DEF Learns
<1>5. CASE ~Tracks(o)
    BY <1>1, <1>2, <1>5 DEF Learns
<1> QED BY <1>4, <1>5

LEMMA FunctionEffect ==
    ASSUME NEW o \in Configuration, NEW k \in ChildType, NEW f \in Functions
    PROVE  LET l == WithFunction(o, k, f)
           IN  /\ l \in ChildType
               /\ Learns(o, k, l)
               /\ l.functions = k.functions \union {f} /\ l.rays = k.rays
               /\ l.solves = k.solves
               /\ l.optimizer => Spares(o, k) /\ o.maxFunctions > 0
<1> DEFINE a == [k EXCEPT !.functions = k.functions \union {f}]
           g == Grown(o, a)
           n == g.added + 1
           h == [g EXCEPT !.added = n, !.consecutive = 0, !.interval = o.interval]
<1>1. /\ a \in ChildType /\ a.functions = k.functions \union {f} /\ a.rays = k.rays
      /\ a.revision = k.revision /\ a.solves = k.solves
    BY DEF ChildType
<1>2. WithFunction(o, k, f) = Limited(o, h)
    BY DEF WithFunction
<1> HIDE DEF a
<1>3. /\ g \in ChildType /\ Learns(o, k, g)
      /\ g.functions = k.functions \union {f} /\ g.rays = k.rays /\ g.solves = k.solves
  <2>1. k.functions \subseteq a.functions /\ k.rays \subseteq a.rays
      BY <1>1
  <2> QED BY <1>1, <2>1, GrownEffect
<1> HIDE DEF g
<1>4. n \in Nat /\ o.interval \in Nat
    BY <1>3 DEF ChildType, Configuration
<1> HIDE DEF n
<1>5. h \in ChildType /\ SameKnowledge(g, h) /\ h.solves = g.solves
    BY <1>3, <1>4 DEF ChildType, SameKnowledge
<1> HIDE DEF h
<1>6. /\ Limited(o, h) \in ChildType /\ SameKnowledge(h, Limited(o, h))
      /\ Limited(o, h).solves = h.solves
      /\ Limited(o, h).optimizer => Spares(o, h) /\ o.maxFunctions > 0
    BY <1>5, LimitedEffect
<1>7. SameKnowledge(g, Limited(o, h))
    BY <1>5, <1>6 DEF SameKnowledge
<1>8. Learns(o, k, Limited(o, h))
    BY <1>3, <1>7 DEF Learns, SameKnowledge
<1>9. Spares(o, h) => Spares(o, k)
    BY <1>3, <1>5 DEF Spares
<1>10. Limited(o, h).functions = k.functions \union {f} /\ Limited(o, h).rays = k.rays
    BY <1>3, <1>7 DEF SameKnowledge
<1> QED BY <1>2, <1>3, <1>5, <1>6, <1>8, <1>9, <1>10

LEMMA MissEffect ==
    ASSUME NEW o \in Configuration, NEW k \in ChildType
    PROVE  LET l == WithMiss(o, k)
           IN  /\ l \in ChildType
               /\ SameKnowledge(k, l)
               /\ l.solves = k.solves
               /\ l.optimizer => Spares(o, k) /\ o.maxFunctions > 0
<1> DEFINE stretch == o.maxConsecutive > 0 /\ k.consecutive + 1 >= o.maxConsecutive
           m == k.misses + 1
           c == IF stretch THEN 0 ELSE k.consecutive + 1
           i == IF stretch THEN Min({k.interval * 10, 10000}) ELSE k.interval
           h == [k EXCEPT !.misses = m, !.consecutive = c, !.interval = i]
<1>1. WithMiss(o, k) = Limited(o, h)
    BY DEF WithMiss
<1>2. m \in Nat /\ c \in Nat
    BY DEF ChildType
<1>3. i \in Nat
  <2>1. k.interval \in Nat /\ k.interval * 10 \in Nat
      BY DEF ChildType
  <2>2. Min({k.interval * 10, 10000}) \in {k.interval * 10, 10000}
    <3> DEFINE S == {k.interval * 10, 10000}
    <3>1. S \in SUBSET Nat /\ S # {}
        BY <2>1
    <3>2. \E x \in S : \A y \in S : x <= y
      <4> HIDE DEF S
      <4> QED BY <3>1, LeastExists
    <3> HIDE DEF S
    <3>3. Min(S) \in S
        BY <3>2 DEF Min
    <3> QED BY <3>3 DEF S
  <2> QED BY <2>1, <2>2
<1> HIDE DEF m, c, i
<1>4. h \in ChildType /\ SameKnowledge(k, h) /\ h.solves = k.solves
    BY <1>2, <1>3 DEF ChildType, SameKnowledge
<1> HIDE DEF h
<1>5. /\ Limited(o, h) \in ChildType /\ SameKnowledge(h, Limited(o, h))
      /\ Limited(o, h).solves = h.solves
      /\ Limited(o, h).optimizer => Spares(o, h) /\ o.maxFunctions > 0
    BY <1>4, LimitedEffect
<1>6. SameKnowledge(k, Limited(o, h))
    BY <1>4, <1>5 DEF SameKnowledge
<1>7. Spares(o, h) => Spares(o, k)
    BY <1>4 DEF Spares
<1> QED BY <1>1, <1>4, <1>5, <1>6, <1>7

LEMMA RayEffect ==
    ASSUME NEW o \in Configuration, NEW k \in ChildType, NEW r \in Rays, NEW dup \in BOOLEAN
    PROVE  LET l == WithRay(o, k, r, dup)
           IN  /\ l \in ChildType
               /\ Learns(o, k, l)
               /\ l.solves = k.solves /\ l.optimizer = k.optimizer
<1> DEFINE a == [k EXCEPT !.rays = k.rays \union {r}]
<1>1. /\ a \in ChildType /\ a.functions = k.functions /\ a.rays = k.rays \union {r}
      /\ a.revision = k.revision /\ a.solves = k.solves /\ a.optimizer = k.optimizer
    BY DEF ChildType
<1>2. WithRay(o, k, r, dup) = Grown(o, a) \/ WithRay(o, k, r, dup) = k
    BY DEF WithRay
<1> HIDE DEF a
<1>3. /\ Grown(o, a) \in ChildType /\ Learns(o, k, Grown(o, a))
      /\ Grown(o, a).solves = k.solves /\ Grown(o, a).optimizer = k.optimizer
  <2>1. k.functions \subseteq a.functions /\ k.rays \subseteq a.rays
      BY <1>1
  <2> QED BY <1>1, <2>1, GrownEffect
<1>4. Learns(o, k, k)
    BY SameKnowledgeLearns DEF SameKnowledge
<1> QED BY <1>2, <1>3, <1>4


-----------------------------------------------------------------------------
(* The invariant, in parts.                                                 *)

Works == evaluation \notin {Idle, Failed}

\* Some answer of the expansion in progress was that s is a dead end.
AnsweredDead(s) == \E i \in DOMAIN estimates : successors[i] = s /\ estimates[i] = DeadEnd

\* A successor is evaluated in its turn, and a popped state between expansions.
ExpansionsAreOrdered ==
    /\ Len(estimates) <= Len(successors)
    /\ Works /\ evaluation.phase = "reached"
         => /\ Len(estimates) < Len(successors)
            /\ evaluation.state = successors[Len(estimates) + 1]
    /\ Works /\ evaluation.phase = "popped" => ~Expanding

\* Only children that may learn have an optimizer.
OnlyLearnersSolve == \A c \in Children : child[c].optimizer => config[c].maxFunctions > 0

\* The last evaluation of a queued state was no dead end.  Successors are not
\* queued while they are expanded, and not marked; a state whose last answer
\* was a dead end is marked, or will be at the end of the expansion.
QueuedAreAlive ==
    /\ \A s \in States : entry[s] # None => records[s] # None /\ records[s].h # DeadEnd
    /\ Works /\ evaluation.phase = "popped" => entry[evaluation.state] # None
    /\ \A i \in DOMAIN successors : successors[i] \notin dead /\ entry[successors[i]] = None
    /\ \A s \in States : records[s] # None /\ records[s].h = DeadEnd
           => s \in dead \/ AnsweredDead(s)

\* The last answer about a successor is its record.
EstimatesAreRecorded ==
    \A i \in DOMAIN estimates :
        (\A j \in DOMAIN estimates : successors[j] = successors[i] => j <= i)
            => /\ records[successors[i]] # None
               /\ records[successors[i]].h = estimates[i]

\* The estimate in the making is at least what the children asked so far
\* would answer now.
AskedAreCovered ==
    Works => \A c \in Children : c < evaluation.next => Estimate(c, evaluation.state) <= evaluation.best

\* No value the search has seen, other than a dead end, is larger than what
\* some child would answer now, or the cheapest operator.
Justified(s, v, n) ==
    \/ v = 0
    \/ \E c \in Children : c < n /\ v <= Estimate(c, s)

RecordsAreJustified ==
    /\ Works /\ evaluation.best # DeadEnd
         => Justified(evaluation.state, evaluation.best, evaluation.next)
    /\ \A s \in States : records[s] # None /\ records[s].h # DeadEnd
         => \/ s \notin GoalStates /\ records[s].h <= MinOperatorCost
            \/ Justified(s, records[s].h, Len(config) + 1)

RevisionsAreOld ==
    \A s \in States : records[s] # None => records[s].revision <= Revision

OnlineInvariant ==
    /\ TypeOK
    /\ OnlyLearnersSolve
    /\ ExpansionsAreOrdered
    /\ QueuedAreAlive
    /\ EstimatesAreRecorded
    /\ AskedAreCovered
    /\ RecordsAreJustified
    /\ RevisionsAreOld
    /\ RecordsAreCurrent

\* The configurations of the children and what they answer have their types.
LEMMA ConfigurationParts ==
    ASSUME TypeOK
    PROVE  /\ Len(config) \in Nat /\ Children = 1..Len(config)
           /\ \A c \in Children : config[c] \in Configuration /\ child[c] \in ChildType
           /\ \A c \in Children, s \in States :
                  /\ Estimate(c, s) \in 0..DeadEnd
                  /\ Estimate(c, s) = Answers(config[c], child[c], s)
           /\ DeadEnd \in Nat
<1>1. config \in Seq(Configuration)
    BY ConfigurationAssumption DEF TypeOK
<1>2. /\ Len(config) \in Nat /\ Children = 1..Len(config)
      /\ \A c \in Children : config[c] \in Configuration
    BY <1>1 DEF Children
<1>3. \A c \in Children : child[c] \in ChildType
    BY DEF TypeOK
<1>4. \A c \in Children, s \in States : Estimate(c, s) = Answers(config[c], child[c], s)
    BY DEF Estimate, Answers
<1> QED BY <1>2, <1>3, <1>4, AnswersType, PortfolioAssumption

LEMMA EvaluationParts ==
    ASSUME TypeOK, Works
    PROVE  /\ evaluation.phase \in {"reached", "popped"} /\ evaluation.state \in States
           /\ evaluation.next \in 1..(Len(config) + 1) /\ evaluation.best \in 0..DeadEnd
           /\ evaluation = [phase |-> evaluation.phase, state |-> evaluation.state,
                            next |-> evaluation.next, best |-> evaluation.best]
BY DEF TypeOK, Works, EvaluationType

\* The five ways in which a child answers.
AnAnswer ==
    \/ AnswerProvenDead \/ AnswerEnvelope \/ Miss
    \/ (\E f \in Functions : LearnFunction(f)) \/ (\E r \in Rays : Certify(r))

\* What an answer of a child comes to, whichever it is.
LEMMA AnswerStep ==
    ASSUME TypeOK, AnAnswer
    PROVE  LET c == evaluation.next
               o == config[c]
               k == child[c]
               s == evaluation.state
           IN  /\ Works /\ c \in Children
               /\ \E l \in ChildType, v \in 0..DeadEnd :
                     /\ Answer(l, v)
                     /\ Learns(o, k, l)
                     /\ Answers(o, l, s) <= v
                     /\ v = Answers(o, l, s) \/ v = DeadEnd
                     /\ l.functions # k.functions \/ l.rays # k.rays => k.optimizer
                     /\ l.optimizer => k.optimizer
                     /\ \/ l.solves = k.solves /\ l.optimizer = k.optimizer
                        \/ /\ l.solves = k.solves + 1 /\ k.optimizer
                           /\ v = DeadEnd \/ (l.optimizer => Spares(o, l))
<1> DEFINE c == evaluation.next
           o == config[c]
           k == child[c]
           s == evaluation.state
<1>1. Running
    BY DEF AnAnswer, AnswerProvenDead, AnswerEnvelope, Miss, LearnFunction, Certify, Solve, Open
<1>2. Works /\ c \in Children
    BY <1>1 DEF Running, Works
<1>3. o \in Configuration /\ k \in ChildType /\ s \in States
    BY <1>2, ConfigurationParts, EvaluationParts
<1>4. Now.o = o /\ Now.k = k /\ Now.s = s
    BY DEF Now
<1> HIDE DEF o, k, s
<1> DEFINE Comes(l, v) ==
              /\ Answer(l, v)
              /\ Learns(o, k, l)
              /\ Answers(o, l, s) <= v
              /\ v = Answers(o, l, s) \/ v = DeadEnd
              /\ l.functions # k.functions \/ l.rays # k.rays => k.optimizer
              /\ l.optimizer => k.optimizer
              /\ \/ l.solves = k.solves /\ l.optimizer = k.optimizer
                 \/ /\ l.solves = k.solves + 1 /\ k.optimizer
                    /\ v = DeadEnd \/ (l.optimizer => Spares(o, l))
<1> SUFFICES \E l \in ChildType, v \in 0..DeadEnd : Comes(l, v)
    BY <1>2 DEF o, k, s
<1>5. DeadEnd \in 0..DeadEnd /\ DeadEnd \in Nat
    BY PortfolioAssumption
<1>6. /\ Solving(o, k, s) \in ChildType /\ SameKnowledge(k, Solving(o, k, s))
      /\ Solving(o, k, s).optimizer = k.optimizer /\ Solving(o, k, s).solves = k.solves + 1
    BY <1>3, SolvingEffect
<1>7. Open => Answers(o, k, s) = Envelope(o, k, s)
    BY <1>4 DEF Open, Answers
<1>8. Solve => k.optimizer
    BY <1>4 DEF Solve, Triggered
<1>10. CASE AnswerProvenDead
  <2>1. Answer(k, DeadEnd) /\ Answers(o, k, s) = DeadEnd
      BY <1>4, <1>10 DEF AnswerProvenDead, Answers
  <2>2. Learns(o, k, k)
      BY <1>3, SameKnowledgeLearns DEF SameKnowledge
  <2>3. Comes(k, DeadEnd)
      BY <1>3, <1>5, <2>1, <2>2
  <2> QED BY <1>3, <1>5, <2>3
<1>11. CASE AnswerEnvelope
  <2> DEFINE l == IF k.optimizer THEN Advanced(o, k, s) ELSE k
             v == Envelope(o, k, s)
  <2>1. Answer(l, v) /\ Open
      BY <1>4, <1>11 DEF AnswerEnvelope
  <2>2. l \in ChildType /\ SameKnowledge(k, l) /\ l.optimizer = k.optimizer /\ l.solves = k.solves
      BY <1>3, AdvancedEffect DEF SameKnowledge
  <2> HIDE DEF l
  <2>3. Learns(o, k, l) /\ l.functions = k.functions /\ l.rays = k.rays
      BY <1>3, <2>2, SameKnowledgeLearns DEF SameKnowledge
  <2>4. Answers(o, l, s) = v
      BY <1>7, <2>1, <2>3, AnswersStay
  <2>5. v \in 0..DeadEnd
      BY <1>3, EnvelopeIsLargest
  <2> HIDE DEF v
  <2>6. Comes(l, v)
      BY <1>5, <2>1, <2>2, <2>3, <2>4, <2>5
  <2> QED BY <2>2, <2>5, <2>6
<1>12. CASE Miss
  <2> DEFINE z == Solving(o, k, s)
             l == WithMiss(o, z)
             v == Envelope(o, k, s)
  <2>1. Answer(l, v) /\ Open /\ k.optimizer
      BY <1>4, <1>8, <1>12 DEF Miss, Solve
  <2>2. /\ l \in ChildType /\ SameKnowledge(z, l) /\ l.solves = z.solves
        /\ l.optimizer => Spares(o, z)
    <3>1. z \in ChildType
        BY <1>6
    <3> HIDE DEF z
    <3> QED BY <1>3, <3>1, MissEffect
  <2>3. SameKnowledge(k, l) /\ l.solves = k.solves + 1
      BY <1>6, <2>2 DEF SameKnowledge
  <2>4. l.optimizer => Spares(o, l)
      BY <2>2 DEF Spares
  <2> HIDE DEF l, z
  <2>5. Learns(o, k, l) /\ l.functions = k.functions /\ l.rays = k.rays
      BY <1>3, <2>3, SameKnowledgeLearns DEF SameKnowledge
  <2>6. Answers(o, l, s) = v
      BY <1>7, <2>1, <2>5, AnswersStay
  <2>7. v \in 0..DeadEnd
      BY <1>3, EnvelopeIsLargest
  <2> HIDE DEF v
  <2>9. Answers(o, l, s) <= v
      BY <1>5, <2>6, <2>7
  <2>8. Comes(l, v)
      BY <2>1, <2>3, <2>4, <2>5, <2>6, <2>9, Zenon
  <2> QED BY <2>2, <2>7, <2>8
<1>13. ASSUME NEW f \in Functions, LearnFunction(f)
       PROVE  \E l \in ChildType, v \in 0..DeadEnd : Comes(l, v)
  <2> DEFINE z == Solving(o, k, s)
             l == WithFunction(o, z, f)
             v == Value[f][s]
  <2>1. Answer(l, v) /\ Open /\ k.optimizer /\ v > Envelope(o, k, s)
      BY <1>4, <1>8, <1>13 DEF LearnFunction, Solve
  <2>2. /\ l \in ChildType /\ Learns(o, z, l) /\ l.solves = z.solves
        /\ l.functions = z.functions \union {f} /\ l.rays = z.rays
        /\ l.optimizer => Spares(o, z)
    <3>1. z \in ChildType
        BY <1>6
    <3> HIDE DEF z
    <3> QED BY <1>3, <3>1, FunctionEffect
  <2>3. /\ Learns(o, k, l) /\ l.solves = k.solves + 1
        /\ l.functions = k.functions \union {f} /\ l.rays = k.rays
    <3>1. z \in ChildType /\ Learns(o, k, z)
        BY <1>3, <1>6, SameKnowledgeLearns
    <3>2. z.functions = k.functions /\ z.rays = k.rays /\ z.solves = k.solves + 1
        BY <1>6 DEF SameKnowledge
    <3> HIDE DEF z, l
    <3>3. Learns(o, k, l)
        BY <1>3, <2>2, <3>1, LearnsIsTransitive
    <3> QED BY <2>2, <3>2, <3>3
  <2>4. l.optimizer => Spares(o, l)
      BY <2>2 DEF Spares
  <2>5. v \in 0..DeadEnd
      BY <1>3, PortfolioAssumption
  <2> HIDE DEF l, z
  <2>6. Answers(o, l, s) = v
    <3>1. ~ProvenDead(o, l, s)
        BY <1>4, <2>1, <2>3 DEF Open, ProvenDead
    <3>2. /\ Envelope(o, l, s) \in 0..DeadEnd /\ Envelope(o, k, s) \in 0..DeadEnd
          /\ v <= Envelope(o, l, s)
          /\ \/ Envelope(o, l, s) = o.base[s]
             \/ \E x \in l.functions : Envelope(o, l, s) = Value[x][s]
        BY <1>3, <2>2, <2>3, EnvelopeIsLargest
    <3>3. Envelope(o, l, s) = v \/ Envelope(o, l, s) <= Envelope(o, k, s)
        BY <1>3, <2>3, <3>2, EnvelopeIsLargest
    <3>4. Envelope(o, l, s) = v
        BY <2>1, <2>5, <3>2, <3>3
    <3> QED BY <3>1, <3>4 DEF Answers
  <2> HIDE DEF v
  <2>8. Answers(o, l, s) <= v
      BY <1>5, <2>5, <2>6
  <2>7. Comes(l, v)
      BY <2>1, <2>3, <2>4, <2>6, <2>8, Zenon
  <2> QED BY <2>2, <2>5, <2>7
<1>14. ASSUME NEW r \in Rays, Certify(r)
       PROVE  \E l \in ChildType, v \in 0..DeadEnd : Comes(l, v)
  <2> DEFINE z == Solving(o, k, s)
  <2>1. PICK dup \in BOOLEAN : Answer(WithRay(o, z, r, dup), DeadEnd) /\ k.optimizer
      BY <1>4, <1>8, <1>14 DEF Certify
  <2> DEFINE l == WithRay(o, z, r, dup)
  <2>2. l \in ChildType /\ Learns(o, z, l) /\ l.solves = z.solves /\ l.optimizer = z.optimizer
    <3>1. z \in ChildType
        BY <1>6
    <3> HIDE DEF z
    <3> QED BY <1>3, <3>1, RayEffect
  <2>3. Learns(o, k, l) /\ l.solves = k.solves + 1
    <3>1. z \in ChildType /\ Learns(o, k, z)
        BY <1>3, <1>6, SameKnowledgeLearns
    <3>2. z.solves = k.solves + 1
        BY <1>6
    <3> HIDE DEF z, l
    <3>3. Learns(o, k, l)
        BY <1>3, <2>2, <3>1, LearnsIsTransitive
    <3> QED BY <2>2, <3>2, <3>3
  <2>4. Answer(l, DeadEnd)
      BY <2>1
  <2> HIDE DEF l, z
  <2>5. Answers(o, l, s) \in 0..DeadEnd
      BY <1>3, <2>2, AnswersType
  <2>6. Answers(o, l, s) <= DeadEnd
      BY <1>5, <2>5
  <2>7. Comes(l, DeadEnd)
      BY <2>1, <2>2, <2>3, <2>4, <2>6
  <2> QED BY <1>5, <2>2, <2>7
<1> HIDE DEF Comes
<1> QED BY <1>10, <1>11, <1>12, <1>13, <1>14 DEF AnAnswer


\* What an answer does to the estimates, the revision and the evaluation.
LEMMA AnswerEffect ==
    ASSUME TypeOK, OnlyLearnersSolve, AnAnswer
    PROVE  \E c \in Children, s \in States :
               /\ c = evaluation.next /\ s = evaluation.state
               /\ UNCHANGED <<config, searchVars>>
               /\ Works
               /\ child' \in [Children -> ChildType]
               /\ \A d \in Children : d # c => child'[d] = child[d]
               /\ \A d \in Children, u \in States : Estimate(d, u) <= Estimate(d, u)'
               /\ Revision <= Revision'
               /\ Revision' = Revision
                    => \A d \in Counting, u \in States : Estimate(d, u)' = Estimate(d, u)
               /\ \E v \in 0..DeadEnd :
                     /\ evaluation' = [evaluation EXCEPT !.next = c + 1,
                                                         !.best = Max({evaluation.best, v})]
                     /\ Estimate(c, s)' <= v
                     /\ v = Estimate(c, s)' \/ v = DeadEnd
               /\ child'[c].optimizer => child[c].optimizer
<1> DEFINE N == Len(config)
<1>0. Works /\ evaluation.next \in Children /\ evaluation.state \in States
    BY AnswerStep, EvaluationParts, Zenon
<1> PICK c \in Children, s \in States : c = evaluation.next /\ s = evaluation.state
    BY <1>0
<1>1. PICK l \in ChildType, v \in 0..DeadEnd :
          /\ Answer(l, v)
          /\ Learns(config[c], child[c], l)
          /\ Answers(config[c], l, s) <= v
          /\ v = Answers(config[c], l, s) \/ v = DeadEnd
          /\ l.functions # child[c].functions \/ l.rays # child[c].rays => child[c].optimizer
          /\ l.optimizer => child[c].optimizer
    BY AnswerStep, Zenon
<1>2. /\ N \in Nat /\ Children = 1..N
      /\ \A d \in Children : config[d] \in Configuration /\ child[d] \in ChildType
    BY ConfigurationParts
<1>3. /\ child' = [child EXCEPT ![c] = l]
      /\ evaluation' = [evaluation EXCEPT !.next = c + 1, !.best = Max({evaluation.best, v})]
      /\ UNCHANGED <<config, searchVars>>
    BY <1>1 DEF Answer
<1>4. child \in [Children -> ChildType]
    BY DEF TypeOK
<1>5. /\ child' \in [Children -> ChildType] /\ child'[c] = l
      /\ \A d \in Children : d # c => child'[d] = child[d]
    BY <1>1, <1>3, <1>4
<1>6. \A d \in Children, u \in States :
          /\ Estimate(d, u)' = Answers(config[d], child'[d], u)
          /\ Estimate(d, u) = Answers(config[d], child[d], u)
    BY <1>3 DEF Estimate, Answers
<1>7. \A d \in Children : Learns(config[d], child[d], child'[d])
    BY <1>1, <1>2, <1>5, SameKnowledgeLearns DEF SameKnowledge
<1>8. \A d \in Children, u \in States : Estimate(d, u) <= Estimate(d, u)'
  <2>1. TAKE d \in Children, u \in States
  <2>2. child[d].functions \subseteq child'[d].functions /\ child[d].rays \subseteq child'[d].rays
      BY <1>7 DEF Learns
  <2> QED BY <1>2, <1>5, <1>6, <2>2, AnswersGrow
<1> DEFINE r == [d \in 1..N |-> child[d].revision]
           q == [d \in 1..N |-> child'[d].revision]
<1>9. r \in [1..N -> Nat] /\ q \in [1..N -> Nat] /\ \A d \in 1..N : r[d] <= q[d]
    BY <1>2, <1>5, <1>7 DEF ChildType, Learns
<1>10. Revision = SumTo(N, r) /\ Revision' = SumTo(N, q)
    BY <1>2, <1>3 DEF Revision, Children
<1>11. /\ Revision \in Nat /\ Revision' \in Nat /\ Revision <= Revision'
       /\ (\E d \in 1..N : r[d] < q[d]) => Revision < Revision'
  <2> HIDE DEF r, q
  <2> QED BY <1>2, <1>9, <1>10, SumIsNat, SumGrows
<1>12. ASSUME Revision' = Revision, NEW d \in Counting, NEW u \in States
       PROVE  Estimate(d, u)' = Estimate(d, u)
  <2>1. d \in 1..N
      BY <1>2 DEF Counting
  <2>2. child'[d].revision = child[d].revision
    <3>1. ~(r[d] < q[d]) /\ r[d] <= q[d] /\ r[d] \in Nat /\ q[d] \in Nat
        BY <1>9, <1>11, <1>12, <2>1
    <3> QED BY <2>1, <3>1
  <2>3. CASE Tracks(config[d])
    <3>1. child'[d].functions = child[d].functions /\ child'[d].rays = child[d].rays
        BY <1>2, <1>7, <2>1, <2>2, <2>3 DEF Learns
    <3> QED BY <1>2, <1>6, <2>1, <3>1, AnswersStay
  <2>4. CASE config[d].maxFunctions = 0
    <3>1. ~child[d].optimizer
        BY <1>2, <2>1, <2>4 DEF OnlyLearnersSolve
    <3>2. child'[d].functions = child[d].functions /\ child'[d].rays = child[d].rays
        BY <1>1, <1>2, <1>5, <2>1, <3>1
    <3> QED BY <1>2, <1>6, <2>1, <3>2, AnswersStay
  <2> QED BY <2>3, <2>4 DEF Counting
<1>13. Estimate(c, s)' = Answers(config[c], l, s)
    BY <1>1, <1>2, <1>5, <1>6
<1> HIDE DEF r, q
<1>14. child'[c].optimizer => child[c].optimizer
    BY <1>1, <1>5
<1>15. \E w \in 0..DeadEnd :
          /\ evaluation' = [evaluation EXCEPT !.next = c + 1, !.best = Max({evaluation.best, w})]
          /\ Estimate(c, s)' <= w
          /\ w = Estimate(c, s)' \/ w = DeadEnd
    BY <1>1, <1>3, <1>13, Zenon
<1>16. Revision <= Revision'
    BY <1>11
<1>17. Revision' = Revision
         => \A d \in Counting, u \in States : Estimate(d, u)' = Estimate(d, u)
    BY <1>12
<1>18. /\ c = evaluation.next /\ s = evaluation.state /\ Works
       /\ UNCHANGED <<config, searchVars>>
    BY <1>0, <1>3
<1>19. \A d \in Children : d # c => child'[d] = child[d]
    BY <1>5
<1> QED BY <1>5, <1>8, <1>14, <1>15, <1>16, <1>17, <1>18, <1>19, Zenon

\* A larger of two numbers.
LEMMA MaxOfTwo ==
    ASSUME NEW a \in 0..DeadEnd, NEW b \in 0..DeadEnd
    PROVE  /\ Max({a, b}) \in {a, b} /\ Max({a, b}) \in 0..DeadEnd
           /\ a <= Max({a, b}) /\ b <= Max({a, b})
<1>1. {a, b} \in SUBSET (0..DeadEnd) /\ {a, b} # {} /\ DeadEnd \in Nat
    BY PortfolioAssumption
<1>2. Max({a, b}) \in {a, b} /\ \A n \in {a, b} : Max({a, b}) >= n
    BY <1>1, LargestExists
<1> QED BY <1>1, <1>2

LEMMA BoundedEffect ==
    ASSUME NEW s \in States, NEW v \in 0..DeadEnd
    PROVE  /\ Bounded(s, v) \in 0..DeadEnd
           /\ v <= Bounded(s, v)
           /\ s \notin GoalStates => MinOperatorCost <= Bounded(s, v)
           /\ \/ Bounded(s, v) = v
              \/ s \notin GoalStates /\ Bounded(s, v) = MinOperatorCost
           /\ (Bounded(s, v) = DeadEnd) <=> (v = DeadEnd)
<1>1. MinOperatorCost \in 0..DeadEnd /\ MinOperatorCost < DeadEnd /\ DeadEnd \in Nat
    BY PortfolioAssumption
<1>2. CASE s \in GoalStates
  <2>1. Bounded(s, v) = v
      BY <1>2 DEF Bounded
  <2> QED BY <1>1, <1>2, <2>1
<1>3. CASE s \notin GoalStates
  <2> DEFINE m == Max({v, MinOperatorCost})
  <2>1. m \in {v, MinOperatorCost} /\ m \in 0..DeadEnd /\ v <= m /\ MinOperatorCost <= m
      BY <1>1, MaxOfTwo
  <2>2. Bounded(s, v) = m
      BY <1>3 DEF Bounded
  <2> HIDE DEF m
  <2>3. (m = DeadEnd) <=> (v = DeadEnd)
      BY <1>1, <2>1
  <2> QED BY <1>3, <2>1, <2>2, <2>3
<1> QED BY <1>2, <1>3


\* The evaluation in the making after an answer of child c: its estimate now
\* covers c, and is justified by a child or by a proof that the state is dead.
LEMMA EvaluationStep ==
    ASSUME TypeOK, OnlyLearnersSolve, AnAnswer
    PROVE  \E c \in Children, s \in States, w \in 0..DeadEnd :
               /\ c = evaluation.next /\ s = evaluation.state /\ Works
               /\ evaluation' = [phase |-> evaluation.phase, state |-> s,
                                 next |-> c + 1, best |-> evaluation'.best]
               /\ evaluation' \in EvaluationType'
               /\ Works'
               /\ evaluation.best <= evaluation'.best
               /\ Estimate(c, s)' <= evaluation'.best
               /\ evaluation'.best \in {evaluation.best, w}
               /\ w = Estimate(c, s)' \/ w = DeadEnd
<1>1. PICK c \in Children, s \in States, w \in 0..DeadEnd :
          /\ c = evaluation.next /\ s = evaluation.state /\ Works /\ config' = config
          /\ evaluation' = [evaluation EXCEPT !.next = c + 1, !.best = Max({evaluation.best, w})]
          /\ Estimate(c, s)' <= w
          /\ w = Estimate(c, s)' \/ w = DeadEnd
    BY AnswerEffect
<1> DEFINE b == Max({evaluation.best, w})
           p == evaluation.phase
<1>2. /\ evaluation.best \in 0..DeadEnd /\ p \in {"reached", "popped"}
      /\ evaluation = [phase |-> p, state |-> s, next |-> c, best |-> evaluation.best]
    BY <1>1, EvaluationParts
<1>3. b \in {evaluation.best, w} /\ b \in 0..DeadEnd /\ evaluation.best <= b /\ w <= b
    BY <1>2, MaxOfTwo
<1>4. evaluation' = [evaluation EXCEPT !.next = c + 1, !.best = b]
    BY <1>1
<1> HIDE DEF b, p
<1>5. evaluation' = [phase |-> p, state |-> s, next |-> c + 1, best |-> b]
  <2> DEFINE best == evaluation.best
             n == c + 1
             e == [phase |-> p, state |-> s, next |-> c, best |-> best]
  <2>1. evaluation = e
      BY <1>2
  <2>2. evaluation' = [e EXCEPT !.next = n, !.best = b]
      BY <1>4, <2>1
  <2> HIDE DEF best, n
  <2> DEFINE x == [e EXCEPT !.next = n, !.best = b]
  <2>4. x \in [phase : {p}, state : {s}, next : {n}, best : {b}]
    <3>1. e \in [phase : {p}, state : {s}, next : {c}, best : {best}]
        OBVIOUS
    <3> HIDE DEF e
    <3> QED BY <3>1
  <2> HIDE DEF x
  <2>5. x = [phase |-> p, state |-> s, next |-> n, best |-> b]
      BY <2>4
  <2>3. [e EXCEPT !.next = n, !.best = b] = [phase |-> p, state |-> s, next |-> n, best |-> b]
      BY <2>5 DEF x
  <2> QED BY <2>2, <2>3 DEF n
<1>6. c \in 1..Len(config) /\ Len(config) \in Nat
    BY ConfigurationParts
<1>7. evaluation' \in EvaluationType'
    BY <1>1, <1>2, <1>3, <1>5, <1>6 DEF EvaluationType
<1>8. Works'
    BY <1>5 DEF Works, Idle, Failed
<1>9. Estimate(c, s)' <= b
  <2>1. Estimate(c, s)' \in Int \/ w = DeadEnd
      BY <1>1
  <2>2. config[c] \in Configuration /\ child'[c] \in ChildType /\ Estimate(c, s)' = Answers(config[c], child'[c], s)
      BY <1>1, AnswerEffect, ConfigurationParts DEF Estimate, Answers
  <2>3. Estimate(c, s)' \in 0..DeadEnd
      BY <2>2, AnswersType
  <2> QED BY <1>1, <1>3, <2>3, PortfolioAssumption
<1>10. evaluation'.best = b
    BY <1>5
<1>11. evaluation' = [phase |-> evaluation.phase, state |-> s, next |-> c + 1,
                      best |-> evaluation'.best]
    BY <1>5, <1>10 DEF p
<1> QED BY <1>1, <1>3, <1>7, <1>8, <1>9, <1>10, <1>11, Zenon

Finishes == FinishSuccessor \/ FinishPopped

\* The end of an evaluation.
LEMMA FinishEffect ==
    ASSUME TypeOK, Finishes
    PROVE  \E s \in States, h \in 0..DeadEnd :
               /\ Works /\ s = evaluation.state /\ h = Bounded(s, evaluation.best)
               /\ evaluation.next = Len(config) + 1
               /\ Revision \in Nat
               /\ records' = [records EXCEPT ![s] = [revision |-> Revision, h |-> h]]
               /\ refutations' = [refutations EXCEPT ![s] = IF h = DeadEnd THEN @ + 1 ELSE @]
               /\ evaluation' = Idle
               /\ UNCHANGED <<config, child, reaches, successors>>
               /\ \/ /\ FinishSuccessor /\ evaluation.phase = "reached"
                     /\ estimates' = Append(estimates, h)
                     /\ UNCHANGED <<entry, dead>>
                  \/ /\ FinishPopped /\ evaluation.phase = "popped"
                     /\ entry' = [entry EXCEPT ![s] = entry'[s]]
                     /\ entry'[s] \in {None} \union [h : 0..DeadEnd]
                     /\ h = DeadEnd => entry'[s] = None
                     /\ dead' = IF h = DeadEnd THEN dead \union {s} ELSE dead
                     /\ UNCHANGED estimates
<1> DEFINE s == evaluation.state
           h == Bounded(s, evaluation.best)
<1>1. Works /\ evaluation.next \notin Children
    BY DEF Finishes, FinishSuccessor, FinishPopped, Answered, Works
<1>2. s \in States /\ evaluation.best \in 0..DeadEnd /\ evaluation.next \in 1..(Len(config) + 1)
    BY <1>1, EvaluationParts
<1>3. h \in 0..DeadEnd
    BY <1>2, BoundedEffect
<1>4. Len(config) \in Nat /\ Children = 1..Len(config) /\ \A c \in Children : child[c] \in ChildType
    BY ConfigurationParts
<1>5. evaluation.next = Len(config) + 1
    BY <1>1, <1>2, <1>4
<1>6. Revision \in Nat
  <2> DEFINE r == [c \in 1..Len(config) |-> child[c].revision]
  <2>1. r \in [1..Len(config) -> Nat]
      BY <1>4 DEF ChildType
  <2>2. Revision = SumTo(Len(config), r)
      BY <1>4 DEF Revision
  <2> HIDE DEF r
  <2> QED BY <1>4, <2>1, <2>2, SumIsNat
<1>7. EntryAfter(s, h) \in {None} \union [h : 0..DeadEnd] /\ (h = DeadEnd => EntryAfter(s, h) = None)
    BY <1>3 DEF EntryAfter
<1>8. /\ records' = [records EXCEPT ![s] = [revision |-> Revision, h |-> h]]
      /\ refutations' = [refutations EXCEPT ![s] = IF h = DeadEnd THEN @ + 1 ELSE @]
      /\ evaluation' = Idle
      /\ UNCHANGED <<config, child, reaches, successors>>
    BY DEF Finishes, FinishSuccessor, FinishPopped, Record, Result
<1>9. CASE FinishSuccessor
  <2>1. /\ evaluation.phase = "reached" /\ estimates' = Append(estimates, h)
        /\ UNCHANGED <<entry, dead>>
      BY <1>9 DEF FinishSuccessor, Result
  <2> HIDE DEF s, h
  <2>2. s = evaluation.state /\ h = Bounded(s, evaluation.best)
      BY DEF s, h
  <2> QED BY <1>1, <1>2, <1>3, <1>5, <1>6, <1>8, <1>9, <2>1, <2>2
<1>10. CASE FinishPopped
  <2>1. /\ evaluation.phase = "popped" /\ UNCHANGED estimates
        /\ entry' = [entry EXCEPT ![s] = EntryAfter(s, h)]
        /\ dead' = IF h = DeadEnd THEN dead \union {s} ELSE dead
      BY <1>10 DEF FinishPopped, Result
  <2>2. entry'[s] = EntryAfter(s, h)
      BY <1>2, <2>1 DEF TypeOK
  <2> HIDE DEF s, h
  <2>3. s = evaluation.state /\ h = Bounded(s, evaluation.best)
      BY DEF s, h
  <2> QED BY <1>1, <1>2, <1>3, <1>5, <1>6, <1>7, <1>8, <1>10, <2>1, <2>2, <2>3
<1> QED BY <1>9, <1>10 DEF Finishes

\* The beginning of an evaluation.
LEMMA BeginEffect ==
    ASSUME TypeOK, EvaluateSuccessor \/ \E s \in States : PopOutdated(s)
    PROVE  /\ evaluation = Idle
           /\ UNCHANGED <<config, child, searchVars>>
           /\ \E s \in States, p \in {"reached", "popped"} :
                 /\ evaluation' = [phase |-> p, state |-> s, next |-> 1, best |-> 0]
                 /\ \/ /\ p = "reached" /\ Len(estimates) < Len(successors)
                       /\ s = successors[Len(estimates) + 1]
                    \/ p = "popped" /\ ~Expanding /\ entry[s] # None
<1>1. CASE EvaluateSuccessor
  <2> DEFINE s == successors[Len(estimates) + 1]
  <2>1. s \in States
      BY <1>1 DEF EvaluateSuccessor, TypeOK
  <2>2. /\ evaluation = Idle /\ UNCHANGED <<config, child, searchVars>>
        /\ Len(estimates) < Len(successors)
        /\ evaluation' = [phase |-> "reached", state |-> s, next |-> 1, best |-> 0]
      BY <1>1 DEF EvaluateSuccessor, Begin
  <2> QED BY <2>1, <2>2
<1>2. ASSUME NEW s \in States, PopOutdated(s)
      PROVE  /\ evaluation = Idle /\ UNCHANGED <<config, child, searchVars>>
             /\ evaluation' = [phase |-> "popped", state |-> s, next |-> 1, best |-> 0]
             /\ ~Expanding /\ entry[s] # None
    BY <1>2 DEF PopOutdated, Begin, AtRest
<1> QED BY <1>1, <1>2

Reaches == \E n \in 1..MaxSuccessors : \E batch \in [1..n -> States] : ReachSuccessors(batch)

\* The beginning of an expansion.
LEMMA ReachEffect ==
    ASSUME TypeOK, ExpansionsAreOrdered, Reaches
    PROVE  /\ evaluation = Idle /\ ~Expanding /\ estimates = <<>>
           /\ UNCHANGED <<config, child, records, dead, estimates, refutations, evaluation>>
           /\ successors' \in Seq(States)
           /\ \A i \in DOMAIN successors' : successors'[i] \notin dead
           /\ entry' \in [States -> {None} \union [h : 0..DeadEnd]]
           /\ \A s \in States : /\ entry'[s] \in {entry[s], None}
                                /\ s \in Range(successors') => entry'[s] = None
           /\ reaches' = [s \in States |->
                             reaches[s] + Cardinality(Occurrences(successors', s))]
<1>0. PICK n \in 1..MaxSuccessors : \E batch \in [1..n -> States] : ReachSuccessors(batch)
    BY DEF Reaches
<1>1. PICK batch \in [1..n -> States] : ReachSuccessors(batch)
    BY <1>0
<1>2. n \in Nat /\ batch \in Seq(States)
  <2>1. n \in Nat
      BY PortfolioAssumption
  <2> QED BY <2>1
<1>3. /\ evaluation = Idle /\ ~Expanding /\ successors' = batch
      /\ \A s \in Range(batch) : s \notin dead
      /\ entry' = [s \in States |-> IF s \in Range(batch) THEN None ELSE entry[s]]
      /\ reaches' = [s \in States |-> reaches[s] + Cardinality(Occurrences(batch, s))]
      /\ UNCHANGED <<config, child, records, dead, estimates, refutations, evaluation>>
    BY <1>1 DEF ReachSuccessors, AtRest
<1>4. estimates = <<>>
    BY <1>3 DEF TypeOK, ExpansionsAreOrdered, Expanding
<1>5. \A i \in DOMAIN batch : batch[i] \in Range(batch)
    BY DEF Range
<1>6. entry' \in [States -> {None} \union [h : 0..DeadEnd]]
    BY <1>3 DEF TypeOK
<1> QED BY <1>2, <1>3, <1>4, <1>5, <1>6

\* The last place of a successor.
LEMMA LastOccurrence ==
    ASSUME NEW batch \in Seq(States), NEW s \in Range(batch)
    PROVE  /\ Max(Occurrences(batch, s)) \in DOMAIN batch
           /\ batch[Max(Occurrences(batch, s))] = s
           /\ \A j \in DOMAIN batch : batch[j] = s => j <= Max(Occurrences(batch, s))
<1> DEFINE O == Occurrences(batch, s)
<1>1. Len(batch) \in Nat /\ DOMAIN batch = 1..Len(batch)
    OBVIOUS
<1>2. O \in SUBSET (0..Len(batch)) /\ O # {}
    BY <1>1 DEF Occurrences, Range
<1>3. O \subseteq DOMAIN batch /\ \A j \in DOMAIN batch : j \in O <=> batch[j] = s
    BY DEF Occurrences
<1> HIDE DEF O
<1>4. Max(O) \in O /\ \A n \in O : Max(O) >= n
    BY <1>1, <1>2, LargestExists
<1>5. Max(O) \in Nat
    BY <1>1, <1>3, <1>4
<1> QED BY <1>1, <1>3, <1>4, <1>5 DEF O

\* The end of an expansion.
LEMMA QueueEffect ==
    ASSUME TypeOK, QueueSuccessors
    PROVE  /\ evaluation = Idle /\ Len(estimates) = Len(successors)
           /\ UNCHANGED <<config, child, records, reaches, refutations, evaluation>>
           /\ successors' = <<>> /\ estimates' = <<>>
           /\ entry' \in [States -> {None} \union [h : 0..DeadEnd]]
           /\ dead' \in SUBSET States /\ dead \subseteq dead'
           /\ \A s \in States : AnsweredDead(s) => s \in dead'
           /\ \A s \in States :
                 \/ entry'[s] = entry[s]
                 \/ entry'[s] = None
                 \/ \E i \in DOMAIN estimates :
                       /\ successors[i] = s /\ estimates[i] # DeadEnd
                       /\ \A j \in DOMAIN estimates : successors[j] = s => j <= i
<1> DEFINE D == {successors[i] : i \in {j \in DOMAIN successors : estimates[j] = DeadEnd}}
           h(s) == estimates[Max(Occurrences(successors, s))]
<1>1. /\ evaluation = Idle /\ Len(estimates) = Len(successors)
      /\ UNCHANGED <<config, child, records, reaches, refutations, evaluation>>
      /\ successors' = <<>> /\ estimates' = <<>>
      /\ dead' = dead \union D
      /\ entry' = [s \in States |-> IF s \in Range(successors)
                                    THEN IF h(s) = DeadEnd THEN None ELSE [h |-> h(s)]
                                    ELSE entry[s]]
    BY DEF QueueSuccessors
<1>2. DOMAIN successors = DOMAIN estimates
    BY <1>1 DEF TypeOK
<1>3. D \subseteq States /\ \A s \in States : AnsweredDead(s) => s \in D
    BY <1>2 DEF TypeOK, AnsweredDead
<1>4. ASSUME NEW s \in Range(successors)
      PROVE  LET i == Max(Occurrences(successors, s))
             IN  /\ i \in DOMAIN estimates /\ successors[i] = s /\ h(s) = estimates[i]
                 /\ h(s) \in 0..DeadEnd
                 /\ \A j \in DOMAIN estimates : successors[j] = s => j <= i
  <2>1. successors \in Seq(States)
      BY DEF TypeOK
  <2>2. /\ Max(Occurrences(successors, s)) \in DOMAIN successors
        /\ successors[Max(Occurrences(successors, s))] = s
        /\ \A j \in DOMAIN successors : successors[j] = s => j <= Max(Occurrences(successors, s))
      BY <2>1, LastOccurrence
  <2>3. \A i \in DOMAIN estimates : estimates[i] \in 0..DeadEnd
    <3> DEFINE S == 0..DeadEnd
    <3>1. estimates \in Seq(S)
        BY DEF TypeOK
    <3> HIDE DEF S
    <3>2. \A i \in DOMAIN estimates : estimates[i] \in S
        BY <3>1
    <3> QED BY <3>2 DEF S
  <2>4. h(s) = estimates[Max(Occurrences(successors, s))]
      OBVIOUS
  <2> HIDE DEF h
  <2> QED BY <1>2, <2>2, <2>3, <2>4
<1> HIDE DEF D, h
<1>5. entry' \in [States -> {None} \union [h : 0..DeadEnd]]
  <2>1. ASSUME NEW s \in States
        PROVE  (IF s \in Range(successors)
                THEN IF h(s) = DeadEnd THEN None ELSE [h |-> h(s)]
                ELSE entry[s]) \in {None} \union [h : 0..DeadEnd]
      BY <1>4 DEF TypeOK
  <2> QED BY <1>1, <2>1
<1>6. ASSUME NEW s \in States
      PROVE  \/ entry'[s] = entry[s]
             \/ entry'[s] = None
             \/ \E i \in DOMAIN estimates :
                   /\ successors[i] = s /\ estimates[i] # DeadEnd
                   /\ \A j \in DOMAIN estimates : successors[j] = s => j <= i
  <2>1. CASE s \notin Range(successors) \/ h(s) = DeadEnd
      BY <1>1, <2>1
  <2>2. CASE s \in Range(successors) /\ h(s) # DeadEnd
      BY <1>4, <2>2
  <2> QED BY <2>1, <2>2
<1> QED BY <1>1, <1>3, <1>5, <1>6 DEF TypeOK

LEMMA TypeStep == TypeOK /\ OnlyLearnersSolve /\ ExpansionsAreOrdered /\ [Next]_vars => TypeOK'
<1> SUFFICES ASSUME TypeOK, OnlyLearnersSolve, ExpansionsAreOrdered, [Next]_vars PROVE TypeOK'
    OBVIOUS
<1>1. CASE AnAnswer
  <2>1. UNCHANGED <<config, searchVars>> /\ child' \in [Children -> ChildType]
      BY <1>1, AnswerEffect
  <2>2. evaluation' \in EvaluationType'
      BY <1>1, EvaluationStep
  <2> QED BY <2>1, <2>2 DEF TypeOK, Children, searchVars
<1>2. CASE Finishes
  <2>1. PICK s \in States, h \in 0..DeadEnd :
               /\ Revision \in Nat
               /\ records' = [records EXCEPT ![s] = [revision |-> Revision, h |-> h]]
               /\ refutations' = [refutations EXCEPT ![s] = IF h = DeadEnd THEN @ + 1 ELSE @]
               /\ evaluation' = Idle
               /\ UNCHANGED <<config, child, reaches, successors>>
               /\ \/ estimates' = Append(estimates, h) /\ UNCHANGED <<entry, dead>>
                  \/ /\ entry' = [entry EXCEPT ![s] = entry'[s]]
                     /\ entry'[s] \in {None} \union [h : 0..DeadEnd]
                     /\ dead' = IF h = DeadEnd THEN dead \union {s} ELSE dead
                     /\ UNCHANGED estimates
      BY <1>2, FinishEffect
  <2>2. records' \in [States -> {None} \union [revision : Nat, h : 0..DeadEnd]]
      BY <2>1 DEF TypeOK
  <2>3. entry' \in [States -> {None} \union [h : 0..DeadEnd]] /\ dead' \in SUBSET States
      BY <2>1 DEF TypeOK
  <2>4. evaluation' \in EvaluationType'
      BY <2>1 DEF EvaluationType
  <2>5. refutations' \in [States -> Nat]
      BY <2>1 DEF TypeOK
  <2>6. estimates' \in Seq(0..DeadEnd)
    <3>1. estimates \in Seq(0..DeadEnd)
        BY DEF TypeOK
    <3>2. Append(estimates, h) \in Seq(0..DeadEnd)
        BY <3>1
    <3> QED BY <2>1, <3>1, <3>2
  <2> QED BY <2>1, <2>2, <2>3, <2>4, <2>5, <2>6 DEF TypeOK, Children
<1>3. CASE FailToSolve
  <2> DEFINE c == evaluation.next
             l == Solving(config[c], child[c], evaluation.state)
  <2>1. Works /\ c \in Children
      BY <1>3 DEF FailToSolve, Solve, Open, Running, Works
  <2>2. l \in ChildType
      BY <2>1, ConfigurationParts, EvaluationParts, SolvingEffect
  <2>3. child' = [child EXCEPT ![c] = l] /\ evaluation' = Failed /\ UNCHANGED <<config, searchVars>>
      BY <1>3 DEF FailToSolve, Now
  <2> HIDE DEF l
  <2>4. child' \in [Children -> ChildType]
      BY <2>1, <2>2, <2>3 DEF TypeOK
  <2>5. evaluation' \in EvaluationType'
      BY <2>3 DEF EvaluationType
  <2> QED BY <2>3, <2>4, <2>5 DEF TypeOK, Children, searchVars
<1>4. CASE EvaluateSuccessor \/ \E s \in States : PopOutdated(s)
  <2>1. PICK s \in States, p \in {"reached", "popped"} :
            evaluation' = [phase |-> p, state |-> s, next |-> 1, best |-> 0]
      BY <1>4, BeginEffect
  <2>2. UNCHANGED <<config, child, searchVars>>
      BY <1>4, BeginEffect
  <2>3. Len(config) \in Nat /\ DeadEnd \in Nat
      BY ConfigurationParts
  <2>4. evaluation' \in EvaluationType'
      BY <2>1, <2>2, <2>3 DEF EvaluationType
  <2> QED BY <2>2, <2>4 DEF TypeOK, Children, searchVars
<1>5. CASE Reaches
  <2>1. reaches' \in [States -> Nat]
    <3>1. successors' \in Seq(States)
        BY <1>5, ReachEffect
    <3>2. ASSUME NEW s \in States PROVE Cardinality(Occurrences(successors', s)) \in Nat
      <4>1. IsFiniteSet(DOMAIN successors')
        <5>1. Len(successors') \in Nat /\ DOMAIN successors' = 1..Len(successors')
            BY <3>1
        <5> QED BY <5>1, FS_Interval
      <4>2. Occurrences(successors', s) \subseteq DOMAIN successors'
          BY DEF Occurrences
      <4> QED BY <4>1, <4>2, FS_Subset, FS_CardinalityType
    <3> QED BY <1>5, <3>2, ReachEffect DEF TypeOK
  <2> QED BY <1>5, <2>1, ReachEffect DEF TypeOK, Children, EvaluationType
<1>6. CASE QueueSuccessors
  <2>1. successors' \in Seq(States) /\ estimates' \in Seq(0..DeadEnd)
    <3>1. successors' = <<>> /\ estimates' = <<>>
        BY <1>6, QueueEffect
    <3> QED BY <3>1
  <2> QED BY <1>6, <2>1, QueueEffect DEF TypeOK, Children, EvaluationType
<1>7. CASE \E s \in States : PopCurrent(s)
    BY <1>7 DEF PopCurrent, TypeOK, Children, EvaluationType
<1>8. CASE UNCHANGED vars
    BY <1>8 DEF vars, searchVars, TypeOK, Children, EvaluationType
<1> QED BY <1>1, <1>2, <1>3, <1>4, <1>5, <1>6, <1>7, <1>8
        DEF Next, Evaluate, AnAnswer, Finishes, Reaches

\* The revision is a number, before and after a step.
LEMMA SumOfRevisions ==
    ASSUME NEW o \in Seq(Configuration), NEW k \in [DOMAIN o -> ChildType]
    PROVE  SumTo(Len(o), [c \in DOMAIN o |-> k[c].revision]) \in Nat
<1> DEFINE r == [c \in DOMAIN o |-> k[c].revision]
<1>1. DOMAIN o = 1..Len(o) /\ Len(o) \in Nat
    OBVIOUS
<1>2. r \in [1..Len(o) -> Nat]
    BY <1>1 DEF ChildType
<1> HIDE DEF r
<1>3. SumTo(Len(o), r) \in Nat
    BY <1>1, <1>2, SumIsNat
<1> QED BY <1>3 DEF r

LEMMA RevisionType ==
    ASSUME TypeOK
    PROVE  Revision \in Nat
BY SumOfRevisions, ConfigurationAssumption DEF TypeOK, Revision, Children

LEMMA NextRevisionType ==
    ASSUME TypeOK'
    PROVE  Revision' \in Nat
BY SumOfRevisions, ConfigurationAssumption DEF TypeOK, Revision, Children

\* A solver error moves counters of a child and nothing else.
LEMMA FailEffect ==
    ASSUME TypeOK, FailToSolve
    PROVE  /\ UNCHANGED <<config, searchVars>> /\ evaluation' = Failed
           /\ \A d \in Children : /\ SameKnowledge(child[d], child'[d])
                                  /\ child'[d].optimizer = child[d].optimizer
<1> DEFINE c == evaluation.next
           l == Solving(config[c], child[c], evaluation.state)
<1>1. Works /\ c \in Children
    BY DEF FailToSolve, Solve, Open, Running, Works
<1>2. SameKnowledge(child[c], l) /\ l.optimizer = child[c].optimizer
    BY <1>1, ConfigurationParts, EvaluationParts, SolvingEffect
<1>3. /\ child' = [child EXCEPT ![c] = l] /\ evaluation' = Failed
      /\ UNCHANGED <<config, searchVars>>
    BY DEF FailToSolve, Now
<1> HIDE DEF l, c
<1>4. \A d \in Children : child'[d] = IF d = c THEN l ELSE child[d]
    BY <1>3 DEF TypeOK
<1>5. \A d \in Children : SameKnowledge(child[d], child[d])
    BY DEF SameKnowledge
<1> QED BY <1>2, <1>3, <1>4, <1>5

\* With the same knowledge, estimates and revision stay.
LEMMA KnowledgeStays ==
    ASSUME TypeOK, config' = config,
           \A d \in Children : SameKnowledge(child[d], child'[d])
    PROVE  /\ Revision' = Revision
           /\ \A d \in Children, u \in States : Estimate(d, u)' = Estimate(d, u)
<1>1. Revision' = Revision
  <2>1. [d \in Children |-> child'[d].revision] = [d \in Children |-> child[d].revision]
      BY DEF SameKnowledge
  <2>2. Children' = Children
      BY DEF Children
  <2> QED BY <2>1, <2>2 DEF Revision
<1>2. ASSUME NEW d \in Children, NEW u \in States PROVE Estimate(d, u)' = Estimate(d, u)
  <2>1. /\ Estimate(d, u)' = Answers(config[d], child'[d], u)
        /\ Estimate(d, u) = Answers(config[d], child[d], u)
      BY DEF Estimate, Answers
  <2> QED BY <2>1, AnswersStay DEF SameKnowledge
<1> QED BY <1>1, <1>2

\* The steps of Next.
LEMMA StepCases ==
    ASSUME [Next]_vars
    PROVE  \/ AnAnswer
           \/ Finishes
           \/ FailToSolve
           \/ EvaluateSuccessor \/ \E s \in States : PopOutdated(s)
           \/ Reaches
           \/ QueueSuccessors
           \/ \E s \in States : PopCurrent(s)
           \/ UNCHANGED vars
BY DEF Next, Evaluate, AnAnswer, Finishes, Reaches

\* What every step does to the estimates and the revision.
LEMMA StepEffect ==
    ASSUME TypeOK, OnlyLearnersSolve, [Next]_vars
    PROVE  /\ config' = config
           /\ \A d \in Children, u \in States : Estimate(d, u) <= Estimate(d, u)'
           /\ Revision <= Revision'
           /\ Revision' = Revision
                => \A d \in Counting, u \in States : Estimate(d, u)' = Estimate(d, u)
           /\ \A d \in Children : child'[d].optimizer => child[d].optimizer
<1>1. CASE AnAnswer
    BY <1>1, AnswerEffect
<1>2. CASE ~AnAnswer
  <2>1. config' = config /\ \A d \in Children : /\ SameKnowledge(child[d], child'[d])
                                               /\ child'[d].optimizer = child[d].optimizer
    <3>1. CASE FailToSolve
        BY <3>1, FailEffect
    <3>2. CASE UNCHANGED <<config, child>>
        BY <3>2 DEF SameKnowledge
    <3> QED BY <1>2, <3>1, <3>2, StepCases
            DEF Finishes, FinishSuccessor, FinishPopped, EvaluateSuccessor, PopOutdated,
                Reaches, ReachSuccessors, QueueSuccessors, PopCurrent, vars
  <2>2. /\ Revision' = Revision
        /\ \A d \in Children, u \in States : Estimate(d, u)' = Estimate(d, u)
      BY <2>1, KnowledgeStays
  <2>3. Revision \in Nat /\ \A d \in Children, u \in States : Estimate(d, u) \in 0..DeadEnd
      BY RevisionType, ConfigurationParts
  <2>4. \A d \in Counting : d \in Children
      BY DEF Counting
  <2>5. Revision <= Revision'
      BY <2>2, <2>3
  <2>6. ASSUME NEW d \in Children, NEW u \in States PROVE Estimate(d, u) <= Estimate(d, u)'
    <3>1. Estimate(d, u)' = Estimate(d, u) /\ Estimate(d, u) \in 0..DeadEnd
        BY <2>2, <2>3
    <3> QED BY <3>1
  <2> QED BY <2>1, <2>2, <2>4, <2>5, <2>6
<1> QED BY <1>1, <1>2

LEMMA LearnersStep ==
    ASSUME TypeOK, OnlyLearnersSolve, [Next]_vars
    PROVE  OnlyLearnersSolve'
BY StepEffect DEF OnlyLearnersSolve, Children

-----------------------------------------------------------------------------
(* Every step preserves the invariant, part by part.                        *)

\* No record and no entry is None.
LEMMA NoneIsNone ==
    /\ \A r, h : [revision |-> r, h |-> h] # None
    /\ \A h : [h |-> h] # None
<1>1. ASSUME NEW r, NEW h, [revision |-> r, h |-> h] = [none |-> TRUE] PROVE FALSE
  <2>1. DOMAIN [revision |-> r, h |-> h] = {"revision", "h"}
      OBVIOUS
  <2>2. DOMAIN [none |-> TRUE] = {"none"}
      OBVIOUS
  <2> QED BY <1>1, <2>1, <2>2
<1>2. ASSUME NEW h, [h |-> h] = [none |-> TRUE] PROVE FALSE
  <2>1. DOMAIN [h |-> h] = {"h"}
      OBVIOUS
  <2>2. DOMAIN [none |-> TRUE] = {"none"}
      OBVIOUS
  <2> QED BY <1>2, <2>1, <2>2
<1> QED BY <1>1, <1>2 DEF None

LEMMA OrderedStep ==
    ASSUME TypeOK, OnlyLearnersSolve, ExpansionsAreOrdered, [Next]_vars
    PROVE  ExpansionsAreOrdered'
<1>0. successors \in Seq(States) /\ estimates \in Seq(0..DeadEnd)
    BY DEF TypeOK
<1>1. CASE AnAnswer
  <2>1. UNCHANGED <<successors, estimates>> /\ Works
      BY <1>1, AnswerEffect DEF searchVars
  <2>2. evaluation'.state = evaluation.state /\ evaluation'.phase = evaluation.phase
      BY <1>1, EvaluationStep
  <2> QED BY <2>1, <2>2 DEF ExpansionsAreOrdered, Expanding
<1>2. CASE Finishes
  <2>1. PICK s \in States, h \in 0..DeadEnd :
               /\ Works /\ evaluation' = Idle /\ UNCHANGED successors
               /\ \/ evaluation.phase = "reached" /\ estimates' = Append(estimates, h)
                  \/ UNCHANGED estimates
      BY <1>2, FinishEffect
  <2>2. Len(estimates') <= Len(successors')
    <3>1. CASE evaluation.phase = "reached" /\ estimates' = Append(estimates, h)
      <4>1. Len(estimates) < Len(successors)
          BY <2>1, <3>1 DEF ExpansionsAreOrdered
      <4>2. Len(estimates') = Len(estimates) + 1
          BY <1>0, <3>1
      <4> QED BY <1>0, <2>1, <4>1, <4>2
    <3>2. CASE UNCHANGED estimates
        BY <2>1, <3>2 DEF ExpansionsAreOrdered
    <3> QED BY <2>1, <3>1, <3>2
  <2> QED BY <2>1, <2>2 DEF ExpansionsAreOrdered, Works
<1>3. CASE FailToSolve
  <2>1. UNCHANGED <<successors, estimates>> /\ evaluation' = Failed
      BY <1>3, FailEffect DEF searchVars
  <2> QED BY <2>1 DEF ExpansionsAreOrdered, Works
<1>4. CASE EvaluateSuccessor \/ \E s \in States : PopOutdated(s)
  <2>1. UNCHANGED <<successors, estimates>>
      BY <1>4, BeginEffect DEF searchVars
  <2>2. PICK s \in States, p \in {"reached", "popped"} :
               /\ evaluation' = [phase |-> p, state |-> s, next |-> 1, best |-> 0]
               /\ \/ /\ p = "reached" /\ Len(estimates) < Len(successors)
                     /\ s = successors[Len(estimates) + 1]
                  \/ p = "popped" /\ ~Expanding
      BY <1>4, BeginEffect
  <2>3. evaluation'.phase = p /\ evaluation'.state = s
      BY <2>2
  <2> QED BY <2>1, <2>2, <2>3 DEF ExpansionsAreOrdered, Expanding
<1>5. CASE Reaches
  <2>1. evaluation' = Idle /\ estimates' = <<>> /\ successors' \in Seq(States)
      BY <1>5, ReachEffect
  <2>2. Len(estimates') <= Len(successors')
      BY <2>1
  <2> QED BY <2>1, <2>2 DEF ExpansionsAreOrdered, Works
<1>6. CASE QueueSuccessors
  <2>1. evaluation' = Idle /\ estimates' = <<>> /\ successors' = <<>>
      BY <1>6, QueueEffect
  <2> QED BY <2>1 DEF ExpansionsAreOrdered, Works
<1>7. CASE \E s \in States : PopCurrent(s)
    BY <1>7 DEF PopCurrent, ExpansionsAreOrdered, Works, Expanding
<1>8. CASE UNCHANGED vars
    BY <1>8 DEF vars, searchVars, ExpansionsAreOrdered, Works, Expanding
<1> QED BY <1>1, <1>2, <1>3, <1>4, <1>5, <1>6, <1>7, <1>8, StepCases

\* Between expansions there is no answer.
LEMMA NothingAnswered ==
    ASSUME TypeOK, ExpansionsAreOrdered, ~Expanding
    PROVE  estimates = <<>> /\ successors = <<>> /\ \A s \in States : ~AnsweredDead(s)
BY DEF TypeOK, ExpansionsAreOrdered, Expanding, AnsweredDead

\* One more answer keeps those before it.
LEMMA AnswersAppended ==
    ASSUME TypeOK, Len(estimates) < Len(successors), NEW h \in 0..DeadEnd,
           estimates' = Append(estimates, h), UNCHANGED successors
    PROVE  /\ DOMAIN estimates' = DOMAIN estimates \union {Len(estimates) + 1}
           /\ estimates'[Len(estimates) + 1] = h
           /\ Len(estimates) + 1 \in DOMAIN successors
           /\ \A i \in DOMAIN estimates : /\ estimates'[i] = estimates[i]
                                          /\ i < Len(estimates) + 1 /\ i \in DOMAIN successors
           /\ \A s \in States : AnsweredDead(s) => AnsweredDead(s)'
<1>1. /\ estimates \in Seq(0..DeadEnd) /\ successors \in Seq(States)
      /\ Len(estimates) \in Nat /\ Len(successors) \in Nat
      /\ DOMAIN estimates = 1..Len(estimates) /\ DOMAIN successors = 1..Len(successors)
    BY DEF TypeOK
<1>2. /\ DOMAIN estimates' = 1..(Len(estimates) + 1)
      /\ estimates'[Len(estimates) + 1] = h
      /\ \A i \in 1..Len(estimates) : estimates'[i] = estimates[i]
    BY <1>1
<1>3. \A i \in DOMAIN estimates : /\ estimates'[i] = estimates[i] /\ i \in DOMAIN estimates'
                                  /\ i < Len(estimates) + 1 /\ i \in DOMAIN successors
    BY <1>1, <1>2
<1>4. \A s \in States : AnsweredDead(s) => AnsweredDead(s)'
    BY <1>3 DEF AnsweredDead
<1>5. /\ DOMAIN estimates' = DOMAIN estimates \union {Len(estimates) + 1}
      /\ Len(estimates) + 1 \in DOMAIN successors
    BY <1>1, <1>2
<1> QED BY <1>2, <1>3, <1>4, <1>5

LEMMA RecordedStep ==
    ASSUME TypeOK, OnlyLearnersSolve, ExpansionsAreOrdered, EstimatesAreRecorded, [Next]_vars
    PROVE  EstimatesAreRecorded'
<1>1. CASE UNCHANGED <<records, successors, estimates>>
    BY <1>1 DEF EstimatesAreRecorded
<1>2. CASE Finishes
  <2>1. PICK s \in States, h \in 0..DeadEnd :
               /\ Works /\ s = evaluation.state /\ UNCHANGED successors
               /\ records' = [records EXCEPT ![s] = [revision |-> Revision, h |-> h]]
               /\ \/ evaluation.phase = "reached" /\ estimates' = Append(estimates, h)
                  \/ evaluation.phase = "popped" /\ UNCHANGED estimates
      BY <1>2, FinishEffect
  <2>2. CASE evaluation.phase = "popped" /\ UNCHANGED estimates
    <3>1. ~Expanding
        BY <2>1, <2>2 DEF ExpansionsAreOrdered
    <3>2. estimates' = <<>>
        BY <2>2, <3>1, NothingAnswered
    <3> QED BY <3>2 DEF EstimatesAreRecorded
  <2>3. CASE evaluation.phase = "reached" /\ estimates' = Append(estimates, h)
    <3> DEFINE n == Len(estimates) + 1
    <3>1. Len(estimates) < Len(successors) /\ s = successors[n]
        BY <2>1, <2>3 DEF ExpansionsAreOrdered
    <3>2. /\ DOMAIN estimates' = DOMAIN estimates \union {n}
          /\ estimates'[n] = h /\ n \in DOMAIN successors /\ n \in Int
          /\ \A i \in DOMAIN estimates : /\ estimates'[i] = estimates[i] /\ i \in Int
                                         /\ i < n /\ i \in DOMAIN successors
      <4>1. successors \in Seq(States) /\ estimates \in Seq(0..DeadEnd)
          BY DEF TypeOK
      <4> QED BY <2>1, <2>3, <3>1, <4>1, AnswersAppended
    <3>3. /\ records'[s].h = h /\ records'[s] # None
          /\ \A u \in States : u # s => records'[u] = records[u]
        BY <2>1, NoneIsNone DEF TypeOK
    <3> HIDE DEF n
    <3>4. \A i \in DOMAIN successors : successors[i] \in States
        BY DEF TypeOK
    <3>5. ASSUME NEW i \in DOMAIN estimates',
                 \A j \in DOMAIN estimates' : successors[j] = successors[i] => j <= i
          PROVE  records'[successors[i]] # None /\ records'[successors[i]].h = estimates'[i]
      <4>1. CASE i = n
          BY <3>1, <3>2, <3>3, <4>1 DEF n
      <4>2. CASE i # n
        <5>1. i \in DOMAIN estimates /\ i < n /\ i \in Int
            BY <3>2, <4>2
        <5>2. successors[i] # s
            BY <3>1, <3>2, <3>5, <5>1 DEF n
        <5>3. \A j \in DOMAIN estimates : successors[j] = successors[i] => j <= i
            BY <3>2, <3>5
        <5>4. records[successors[i]] # None /\ records[successors[i]].h = estimates[i]
            BY <5>1, <5>3 DEF EstimatesAreRecorded
        <5> QED BY <3>2, <3>3, <3>4, <5>1, <5>2, <5>4
      <4> QED BY <4>1, <4>2
    <3> QED BY <2>1, <3>5 DEF EstimatesAreRecorded
  <2> QED BY <2>1, <2>2, <2>3
<1>3. CASE Reaches \/ QueueSuccessors
  <2>1. estimates' = <<>>
      BY <1>3, ReachEffect, QueueEffect
  <2> QED BY <2>1 DEF EstimatesAreRecorded
<1>4. CASE AnAnswer \/ FailToSolve \/ EvaluateSuccessor \/ \E s \in States : PopOutdated(s)
  <2>1. UNCHANGED searchVars
      BY <1>4, AnswerEffect, FailEffect, BeginEffect
  <2> QED BY <1>1, <2>1 DEF searchVars
<1> QED BY <1>1, <1>2, <1>3, <1>4, StepCases DEF PopCurrent, vars, searchVars

LEMMA AliveStep ==
    ASSUME TypeOK, OnlyLearnersSolve, ExpansionsAreOrdered, QueuedAreAlive,
           EstimatesAreRecorded, [Next]_vars
    PROVE  QueuedAreAlive'
<1>1. CASE AnAnswer
  <2>1. UNCHANGED <<records, entry, dead, successors, estimates>> /\ Works
      BY <1>1, AnswerEffect DEF searchVars
  <2>2. evaluation'.state = evaluation.state /\ evaluation'.phase = evaluation.phase
      BY <1>1, EvaluationStep
  <2> QED BY <2>1, <2>2 DEF QueuedAreAlive, AnsweredDead
<1>2. CASE Finishes
  <2>1. PICK s \in States, h \in 0..DeadEnd :
               /\ Works /\ s = evaluation.state
               /\ records' = [records EXCEPT ![s] = [revision |-> Revision, h |-> h]]
               /\ evaluation' = Idle /\ UNCHANGED successors
               /\ \/ /\ evaluation.phase = "reached"
                     /\ estimates' = Append(estimates, h)
                     /\ UNCHANGED <<entry, dead>>
                  \/ /\ evaluation.phase = "popped"
                     /\ entry' = [entry EXCEPT ![s] = entry'[s]]
                     /\ h = DeadEnd => entry'[s] = None
                     /\ dead' = IF h = DeadEnd THEN dead \union {s} ELSE dead
                     /\ UNCHANGED estimates
      BY <1>2, FinishEffect
  <2>2. ~Works'
      BY <2>1 DEF Works
  <2>3. /\ records'[s] # None /\ records'[s].h = h
        /\ \A u \in States : u # s => records'[u] = records[u]
      BY <2>1, NoneIsNone DEF TypeOK
  <2>4. CASE /\ evaluation.phase = "reached" /\ estimates' = Append(estimates, h)
             /\ UNCHANGED <<entry, dead>>
    <3> DEFINE n == Len(estimates) + 1
    <3>1. Len(estimates) < Len(successors) /\ s = successors[n]
        BY <2>1, <2>4 DEF ExpansionsAreOrdered
    <3>2. /\ n \in DOMAIN estimates' /\ estimates'[n] = h /\ n \in DOMAIN successors
          /\ \A u \in States : AnsweredDead(u) => AnsweredDead(u)'
        BY <2>1, <2>4, <3>1, AnswersAppended
    <3>3. h = DeadEnd => AnsweredDead(s)'
        BY <2>1, <3>1, <3>2 DEF AnsweredDead
    <3>4. entry[s] = None
        BY <3>1, <3>2 DEF QueuedAreAlive
    <3> QED BY <2>1, <2>2, <2>3, <2>4, <3>2, <3>3, <3>4 DEF QueuedAreAlive
  <2>5. CASE /\ evaluation.phase = "popped"
             /\ entry' = [entry EXCEPT ![s] = entry'[s]]
             /\ h = DeadEnd => entry'[s] = None
             /\ dead' = IF h = DeadEnd THEN dead \union {s} ELSE dead
             /\ UNCHANGED estimates
    <3>1. ~Expanding
        BY <2>1, <2>5 DEF ExpansionsAreOrdered
    <3>2. successors' = <<>> /\ \A u \in States : ~AnsweredDead(u)
        BY <2>1, <3>1, NothingAnswered
    <3>3. \A u \in States : u # s => entry'[u] = entry[u]
        BY <2>5 DEF TypeOK
    <3>4. \A u \in States : entry'[u] # None => records'[u] # None /\ records'[u].h # DeadEnd
        BY <2>3, <2>5, <3>3 DEF QueuedAreAlive
    <3>5. \A u \in States : records'[u] # None /\ records'[u].h = DeadEnd => u \in dead'
        BY <2>3, <2>5, <3>2 DEF QueuedAreAlive
    <3> QED BY <2>2, <3>2, <3>4, <3>5 DEF QueuedAreAlive
  <2> QED BY <2>1, <2>4, <2>5
<1>3. CASE FailToSolve
    BY <1>3, FailEffect DEF searchVars, QueuedAreAlive, AnsweredDead, Works
<1>4. CASE EvaluateSuccessor \/ \E s \in States : PopOutdated(s)
  <2>1. UNCHANGED <<records, entry, dead, successors, estimates>>
      BY <1>4, BeginEffect DEF searchVars
  <2>2. evaluation'.phase = "popped" => entry[evaluation'.state] # None
      BY <1>4, BeginEffect
  <2> QED BY <2>1, <2>2 DEF QueuedAreAlive, AnsweredDead
<1>5. CASE Reaches
  <2>1. /\ evaluation' = Idle /\ UNCHANGED <<records, dead>>
        /\ \A i \in DOMAIN successors' : successors'[i] \notin dead
        /\ \A s \in States : /\ entry'[s] \in {entry[s], None}
                             /\ s \in Range(successors') => entry'[s] = None
        /\ successors' \in Seq(States)
      BY <1>5, ReachEffect
  <2>2. \A s \in States : ~AnsweredDead(s)
      BY <1>5, ReachEffect, NothingAnswered
  <2>3. \A i \in DOMAIN successors' : entry'[successors'[i]] = None
      BY <2>1 DEF Range
  <2> QED BY <2>1, <2>2, <2>3 DEF QueuedAreAlive, Works
<1>6. CASE QueueSuccessors
  <2>1. /\ evaluation' = Idle /\ UNCHANGED records /\ successors' = <<>> /\ dead \subseteq dead'
        /\ \A s \in States : AnsweredDead(s) => s \in dead'
      BY <1>6, QueueEffect
  <2>2. ASSUME NEW s \in States, entry'[s] # None
        PROVE  records[s] # None /\ records[s].h # DeadEnd
    <3>1. CASE entry'[s] = entry[s]
        BY <2>2, <3>1 DEF QueuedAreAlive
    <3>2. ASSUME NEW i \in DOMAIN estimates, successors[i] = s, estimates[i] # DeadEnd,
                 \A j \in DOMAIN estimates : successors[j] = s => j <= i
          PROVE  records[s] # None /\ records[s].h # DeadEnd
        BY <3>2 DEF EstimatesAreRecorded
    <3> QED BY <1>6, <2>2, <3>1, <3>2, QueueEffect
  <2> QED BY <2>1, <2>2 DEF QueuedAreAlive, Works
<1>7. ASSUME NEW s \in States, PopCurrent(s) PROVE QueuedAreAlive'
  <2>1. /\ UNCHANGED <<records, dead, successors, estimates, evaluation>>
        /\ entry' = [entry EXCEPT ![s] = None] /\ evaluation = Idle
      BY <1>7 DEF PopCurrent, AtRest
  <2>2. \A u \in States : entry'[u] = entry[u] \/ entry'[u] = None
      BY <2>1 DEF TypeOK
  <2>3. \A i \in DOMAIN successors : successors[i] \in States
      BY DEF TypeOK
  <2> QED BY <2>1, <2>2, <2>3 DEF QueuedAreAlive, AnsweredDead, Works
<1>8. CASE UNCHANGED vars
    BY <1>8 DEF vars, searchVars, QueuedAreAlive, AnsweredDead, Works
<1> QED BY <1>1, <1>2, <1>3, <1>4, <1>5, <1>6, <1>7, <1>8, StepCases

\* Where no child is asked, no evaluation is going on.
LEMMA RestingSteps ==
    ASSUME TypeOK, Finishes \/ FailToSolve \/ Reaches \/ QueueSuccessors
                     \/ \E s \in States : PopCurrent(s)
    PROVE  evaluation' \in {Idle, Failed}
BY DEF Finishes, FinishSuccessor, FinishPopped, FailToSolve, Reaches, ReachSuccessors,
       QueueSuccessors, PopCurrent, AtRest

LEMMA AskedStep ==
    ASSUME TypeOK, OnlyLearnersSolve, AskedAreCovered, [Next]_vars
    PROVE  AskedAreCovered'
<1>0. Children = 1..Len(config) /\ Len(config) \in Nat /\ Children' = Children
    BY StepEffect, ConfigurationParts DEF Children
<1>1. CASE AnAnswer
  <2>1. PICK c \in Children, s \in States :
            /\ c = evaluation.next /\ s = evaluation.state /\ Works
            /\ evaluation'.state = s /\ evaluation'.next = c + 1
            /\ evaluation' \in EvaluationType'
            /\ Works'
            /\ evaluation.best <= evaluation'.best
            /\ Estimate(c, s)' <= evaluation'.best
      BY <1>1, EvaluationStep
  <2>2. config' = config /\ \A d \in Children : d # c => child'[d] = child[d]
      BY <1>1, <2>1, AnswerEffect
  <2>3. ASSUME NEW d \in Children, d < c + 1 PROVE Estimate(d, s)' <= evaluation'.best
    <3>1. CASE d = c
        BY <2>1, <3>1
    <3>2. CASE d # c
      <4>1. Estimate(d, s)' = Estimate(d, s)
          BY <2>2, <3>2 DEF Estimate, ProvenDead, Envelope
      <4>2. d < c
          BY <1>0, <2>3, <3>2
      <4>3. Estimate(d, s) <= evaluation.best
          BY <2>1, <4>2 DEF AskedAreCovered
      <4>4. Estimate(d, s) \in 0..DeadEnd /\ evaluation.best \in 0..DeadEnd /\ DeadEnd \in Nat
          BY <2>1, ConfigurationParts, EvaluationParts
      <4>5. evaluation'.best \in 0..DeadEnd'
        <5>1. evaluation' \notin {Idle, Failed}
            BY <2>1 DEF Works
        <5> QED BY <2>1, <5>1 DEF EvaluationType
      <4> QED BY <2>1, <4>1, <4>3, <4>4, <4>5
    <3> QED BY <3>1, <3>2
  <2> QED BY <1>0, <2>1, <2>3 DEF AskedAreCovered
<1>2. CASE evaluation' \in {Idle, Failed}
    BY <1>2 DEF AskedAreCovered, Works
<1>3. CASE EvaluateSuccessor \/ \E s \in States : PopOutdated(s)
  <2>1. evaluation'.next = 1
      BY <1>3, BeginEffect
  <2> QED BY <1>0, <2>1 DEF AskedAreCovered
<1>4. CASE UNCHANGED vars
  <2>1. \A d \in Children, u \in States : Estimate(d, u)' = Estimate(d, u)
      BY <1>4 DEF vars, Estimate, ProvenDead, Envelope
  <2>2. Works => evaluation.state \in States
      BY EvaluationParts
  <2> QED BY <1>0, <1>4, <2>1, <2>2 DEF vars, AskedAreCovered, Works
<1> QED BY <1>1, <1>2, <1>3, <1>4, StepCases, RestingSteps

\* What was justified stays so: estimates only grow.
LEMMA JustificationStays ==
    ASSUME TypeOK, OnlyLearnersSolve, ExpansionsAreOrdered, [Next]_vars, NEW s \in States, NEW v \in 0..DeadEnd,
           NEW n \in Nat, NEW m \in Nat, n <= m, Justified(s, v, n)
    PROVE  \/ v = 0
           \/ \E c \in Children : c < m /\ v <= Estimate(c, s)'
<1>0. Children = 1..Len(config) /\ Len(config) \in Nat /\ DeadEnd \in Nat
    BY ConfigurationParts
<1>1. CASE v = 0
    BY <1>1
<1>2. ASSUME NEW c \in Children, c < n, v <= Estimate(c, s)
      PROVE  c < m /\ v <= Estimate(c, s)'
  <2>1. Estimate(c, s) <= Estimate(c, s)'
      BY StepEffect
  <2>2. Estimate(c, s) \in 0..DeadEnd
      BY ConfigurationParts
  <2>3. Estimate(c, s)' \in Int
    <3>1. TypeOK'
        BY TypeStep
    <3>2. config' = config
        BY StepEffect
    <3>3. c \in Children'
        BY <3>2 DEF Children
    <3>4. Estimate(c, s)' = Answers(config'[c], child'[c], s)
        BY DEF Estimate, Answers
    <3>5. config'[c] \in Configuration /\ child'[c] \in ChildType
        BY <3>1, <3>2, ConfigurationParts DEF TypeOK, Children
    <3> QED BY <3>4, <3>5, AnswersType
  <2> QED BY <1>0, <1>2, <2>1, <2>2, <2>3
<1> QED BY <1>1, <1>2 DEF Justified

\* The two parts of RecordsAreJustified.
EvaluationIsJustified ==
    Works /\ evaluation.best # DeadEnd
        => Justified(evaluation.state, evaluation.best, evaluation.next)

RecordIsJustified(s) ==
    records[s] # None /\ records[s].h # DeadEnd
        => \/ s \notin GoalStates /\ records[s].h <= MinOperatorCost
           \/ Justified(s, records[s].h, Len(config) + 1)

LEMMA EvaluationJustifiedStep ==
    ASSUME TypeOK, OnlyLearnersSolve, ExpansionsAreOrdered, EvaluationIsJustified, [Next]_vars
    PROVE  EvaluationIsJustified'
<1>0. Children' = Children
    BY StepEffect DEF Children
<1>1. CASE AnAnswer
  <2>1. PICK c \in Children, s \in States, w \in 0..DeadEnd :
            /\ c = evaluation.next /\ s = evaluation.state /\ Works
            /\ evaluation'.state = s /\ evaluation'.next = c + 1
            /\ evaluation'.best \in {evaluation.best, w}
            /\ w = Estimate(c, s)' \/ w = DeadEnd
      BY <1>1, EvaluationStep
  <2>2. SUFFICES ASSUME evaluation'.best # DeadEnd
                 PROVE  \/ evaluation'.best = 0
                        \/ \E d \in Children : /\ d < evaluation'.next
                                               /\ evaluation'.best <= Estimate(d, s)'
    <3>1. evaluation'.state = s
        BY <2>1
    <3> DEFINE best == evaluation'.best
    <3>2. ASSUME \/ best = 0
                 \/ \E d \in Children : d < evaluation'.next /\ best <= Estimate(d, s)'
          PROVE  Justified(evaluation.state, evaluation.best, evaluation.next)'
        BY <1>0, <3>1, <3>2 DEF Justified, Estimate, ProvenDead, Envelope
    <3> QED BY <3>2 DEF EvaluationIsJustified
  <2>3. c \in Nat /\ c + 1 \in Nat /\ c <= c + 1 /\ c < c + 1
      BY ConfigurationParts
  <2>4. CASE evaluation'.best = evaluation.best
    <3>1. Justified(s, evaluation.best, c) /\ evaluation.best \in 0..DeadEnd
        BY <2>1, <2>2, <2>4, EvaluationParts DEF EvaluationIsJustified
    <3> QED BY <2>1, <2>3, <2>4, <3>1, JustificationStays
  <2>5. CASE evaluation'.best = w
    <3>1. w = Estimate(c, s)' /\ w <= w
        BY <2>1, <2>2, <2>5, PortfolioAssumption
    <3> QED BY <2>1, <2>3, <2>5, <3>1
  <2> QED BY <2>1, <2>4, <2>5
<1>2. CASE evaluation' \in {Idle, Failed}
    BY <1>2 DEF EvaluationIsJustified, Works
<1>3. CASE EvaluateSuccessor \/ \E s \in States : PopOutdated(s)
  <2>1. evaluation'.best = 0
      BY <1>3, BeginEffect
  <2> QED BY <2>1 DEF EvaluationIsJustified, Justified
<1>4. CASE UNCHANGED vars
  <2>1. config' = config /\ child' = child /\ evaluation' = evaluation
      BY <1>4 DEF vars
  <2>2. \A c, s : Estimate(c, s)' = Estimate(c, s)
      BY <2>1 DEF Estimate, ProvenDead, Envelope
  <2>3. Children' = Children
      BY <2>1 DEF Children
  <2> QED BY <2>1, <2>2, <2>3 DEF EvaluationIsJustified, Works, Justified
<1> QED BY <1>1, <1>2, <1>3, <1>4, StepCases, RestingSteps

\* A record whose state is evaluated anew, or not.
LEMMA RecordStep ==
    ASSUME TypeOK, OnlyLearnersSolve, ExpansionsAreOrdered, [Next]_vars, NEW s \in States
    PROVE  \/ records'[s] = records[s]
           \/ /\ Finishes /\ s = evaluation.state /\ Works
              /\ evaluation.next = Len(config) + 1
              /\ Revision \in Nat
              /\ records'[s] = [revision |-> Revision, h |-> Bounded(s, evaluation.best)]
<1>1. CASE Finishes
  <2>1. PICK u \in States, h \in 0..DeadEnd :
               /\ Works /\ u = evaluation.state /\ h = Bounded(u, evaluation.best)
               /\ evaluation.next = Len(config) + 1
               /\ Revision \in Nat
               /\ records' = [records EXCEPT ![u] = [revision |-> Revision, h |-> h]]
      BY <1>1, FinishEffect
  <2>2. CASE s = u
    <3>1. records'[s] = [revision |-> Revision, h |-> h]
        BY <2>1, <2>2 DEF TypeOK
    <3> QED BY <1>1, <2>1, <2>2, <3>1
  <2>3. CASE s # u
      BY <2>1, <2>3 DEF TypeOK
  <2> QED BY <2>2, <2>3
<1>2. CASE ~Finishes
  <2>1. records' = records
    <3>1. UNCHANGED searchVars => records' = records
        BY DEF searchVars
    <3> QED BY <1>2, <3>1, StepCases, AnswerEffect, FailEffect, BeginEffect, ReachEffect, QueueEffect
            DEF PopCurrent, vars
  <2> QED BY <2>1
<1> QED BY <1>1, <1>2

LEMMA RecordJustifiedStep ==
    ASSUME TypeOK, OnlyLearnersSolve, ExpansionsAreOrdered, EvaluationIsJustified, [Next]_vars,
           NEW s \in States, RecordIsJustified(s)
    PROVE  RecordIsJustified(s)'
<1>0. /\ Children' = Children /\ config' = config
      /\ Len(config) \in Nat /\ Len(config) + 1 \in Nat /\ DeadEnd \in Nat
    BY StepEffect, ConfigurationParts DEF Children
<1>1. ASSUME NEW v \in 0..DeadEnd, Justified(s, v, Len(config) + 1), NEW h, h = v,
             records'[s].h = h
      PROVE  RecordIsJustified(s)'
  <2>1. \/ v = 0
        \/ \E c \in Children : c < Len(config) + 1 /\ v <= Estimate(c, s)'
      BY <1>0, <1>1, JustificationStays
  <2>2. Justified(s, records[s].h, Len(config) + 1)'
      BY <1>0, <1>1, <2>1 DEF Justified, Estimate, ProvenDead, Envelope
  <2> QED BY <2>2 DEF RecordIsJustified
<1>2. CASE records'[s] = records[s]
  <2>1. CASE records[s] = None \/ records[s].h = DeadEnd
      BY <1>2, <2>1 DEF RecordIsJustified
  <2>2. CASE s \notin GoalStates /\ records[s].h <= MinOperatorCost
      BY <1>2, <2>2 DEF RecordIsJustified
  <2>3. CASE records[s] # None /\ Justified(s, records[s].h, Len(config) + 1)
    <3>1. records[s].h \in 0..DeadEnd
        BY <2>3 DEF TypeOK
    <3> QED BY <1>1, <1>2, <2>3, <3>1
  <2> QED BY <2>1, <2>2, <2>3 DEF RecordIsJustified
<1>3. CASE /\ s = evaluation.state /\ Works
           /\ evaluation.next = Len(config) + 1
           /\ records'[s] = [revision |-> Revision, h |-> Bounded(s, evaluation.best)]
  <2> DEFINE h == Bounded(s, evaluation.best)
             b == evaluation.best
  <2>1. b \in 0..DeadEnd
      BY <1>3, EvaluationParts
  <2>2. /\ h = b \/ (s \notin GoalStates /\ h = MinOperatorCost)
        /\ (h = DeadEnd) <=> (b = DeadEnd)
      BY <2>1, BoundedEffect
  <2>3. records'[s].h = h
      BY <1>3
  <2>7. CASE h = DeadEnd
      BY <2>3, <2>7 DEF RecordIsJustified
  <2>8. SUFFICES ASSUME h # DeadEnd PROVE RecordIsJustified(s)'
      BY <2>7
  <2>4. Justified(s, b, Len(config) + 1)
      BY <1>3, <2>2, <2>8 DEF EvaluationIsJustified
  <2>5. CASE h = b
      BY <1>1, <2>1, <2>3, <2>4, <2>5
  <2>6. CASE s \notin GoalStates /\ h = MinOperatorCost
    <3>1. records'[s].h <= MinOperatorCost
        BY <2>3, <2>6, PortfolioAssumption
    <3> QED BY <2>6, <3>1 DEF RecordIsJustified
  <2> QED BY <2>2, <2>5, <2>6
<1> QED BY <1>2, <1>3, RecordStep

LEMMA JustifiedStep ==
    ASSUME TypeOK, OnlyLearnersSolve, ExpansionsAreOrdered, RecordsAreJustified, [Next]_vars
    PROVE  RecordsAreJustified'
<1>1. EvaluationIsJustified /\ \A s \in States : RecordIsJustified(s)
    BY DEF RecordsAreJustified, EvaluationIsJustified, RecordIsJustified
<1>2. EvaluationIsJustified'
    BY <1>1, EvaluationJustifiedStep
<1>3. \A s \in States : RecordIsJustified(s)'
    BY <1>1, RecordJustifiedStep
<1> QED BY <1>2, <1>3 DEF RecordsAreJustified, EvaluationIsJustified, RecordIsJustified

LEMMA RevisionsStep ==
    ASSUME TypeOK, OnlyLearnersSolve, ExpansionsAreOrdered, RevisionsAreOld, [Next]_vars
    PROVE  RevisionsAreOld'
<1>0. Revision \in Nat /\ Revision' \in Nat /\ Revision <= Revision'
    BY StepEffect, RevisionType, NextRevisionType, TypeStep
<1> SUFFICES ASSUME NEW s \in States, records'[s] # None
             PROVE  records'[s].revision <= Revision'
    BY DEF RevisionsAreOld
<1>1. CASE records'[s] = records[s]
  <2>1. records[s].revision \in Nat /\ records[s].revision <= Revision
      BY <1>1 DEF TypeOK, RevisionsAreOld
  <2> QED BY <1>0, <1>1, <2>1
<1>2. CASE records'[s] = [revision |-> Revision, h |-> Bounded(s, evaluation.best)]
  <2>1. records'[s].revision = Revision
      BY <1>2
  <2> QED BY <1>0, <2>1
<1> QED BY <1>1, <1>2, RecordStep

LEMMA CurrentStep ==
    ASSUME TypeOK, OnlyLearnersSolve, ExpansionsAreOrdered, AskedAreCovered, RevisionsAreOld,
           RecordsAreCurrent, [Next]_vars
    PROVE  RecordsAreCurrent'
<1>0. /\ Revision \in Nat /\ Revision' \in Nat /\ Revision <= Revision'
      /\ config' = config /\ Children' = Children /\ Counting' = Counting
    BY StepEffect, RevisionType, NextRevisionType, TypeStep DEF Children, Counting, Tracks
<1>9. Children = 1..Len(config) /\ Len(config) \in Nat /\ DeadEnd \in Nat
    BY ConfigurationParts
<1> SUFFICES ASSUME NEW s \in States, records'[s] # None, records'[s].revision >= Revision',
                    NEW c \in Counting
             PROVE  Estimate(c, s)' <= records'[s].h
    BY <1>0 DEF RecordsAreCurrent
<1>1. CASE records'[s] = records[s]
  <2>1. records[s].revision \in Nat /\ records[s].revision <= Revision
      BY <1>1 DEF TypeOK, RevisionsAreOld
  <2>2. Revision' = Revision /\ records[s].revision >= Revision
      BY <1>0, <1>1, <2>1
  <2>3. Estimate(c, s)' = Estimate(c, s)
      BY <2>2, StepEffect
  <2>4. Estimate(c, s) <= records[s].h
      BY <1>1, <2>2 DEF RecordsAreCurrent
  <2> QED BY <1>1, <2>3, <2>4
<1>2. CASE /\ Finishes /\ s = evaluation.state /\ Works
           /\ evaluation.next = Len(config) + 1
           /\ records'[s] = [revision |-> Revision, h |-> Bounded(s, evaluation.best)]
  <2>1. c \in Children
      BY DEF Counting
  <2>2. Estimate(c, s) <= evaluation.best
      BY <1>2, <1>9, <2>1 DEF AskedAreCovered
  <2>3. evaluation.best \in 0..DeadEnd /\ Estimate(c, s) \in 0..DeadEnd
      BY <1>2, <2>1, EvaluationParts, ConfigurationParts
  <2>4. Bounded(s, evaluation.best) \in 0..DeadEnd /\ evaluation.best <= Bounded(s, evaluation.best)
      BY <2>3, BoundedEffect
  <2>5. Estimate(c, s)' = Estimate(c, s)
      BY <1>2 DEF Finishes, FinishSuccessor, FinishPopped, Estimate, ProvenDead, Envelope
  <2>6. records'[s].h = Bounded(s, evaluation.best)
      BY <1>2
  <2> QED BY <1>9, <2>2, <2>3, <2>4, <2>5, <2>6
<1> QED BY <1>1, <1>2, RecordStep

LEMMA OnlineInit == Init => OnlineInvariant
<1> SUFFICES ASSUME Init PROVE OnlineInvariant
    OBVIOUS
<1>1. /\ config \in Seq(Configuration) /\ config \in Portfolios
      /\ Len(config) \in Nat /\ Children = 1..Len(config)
      /\ \A c \in Children : config[c] \in Configuration
    BY ConfigurationAssumption DEF Init, Children
<1>2. child \in [Children -> ChildType]
  <2>1. \A o \in Configuration : NewChild(o) \in ChildType
      BY DEF NewChild, Configuration, ChildType
  <2> QED BY <1>1, <2>1 DEF Init
<1>3. TypeOK
    BY <1>1, <1>2 DEF Init, TypeOK, EvaluationType
<1>4. OnlyLearnersSolve
  <2>1. \A c \in Children : child[c].optimizer = (config[c].maxFunctions > 0)
      BY <1>1 DEF Init, NewChild
  <2> QED BY <2>1 DEF OnlyLearnersSolve
<1>5. /\ ~Works /\ successors = <<>> /\ estimates = <<>>
      /\ \A s \in States : records[s] = None /\ entry[s] = None
    BY DEF Init, Works
<1>6. ExpansionsAreOrdered
    BY <1>5 DEF ExpansionsAreOrdered
<1> QED BY <1>3, <1>4, <1>5, <1>6 DEF OnlineInvariant, QueuedAreAlive, EstimatesAreRecorded,
           AskedAreCovered, RecordsAreJustified, RevisionsAreOld, RecordsAreCurrent

LEMMA OnlineNext == OnlineInvariant /\ [Next]_vars => OnlineInvariant'
<1> SUFFICES ASSUME OnlineInvariant, [Next]_vars PROVE OnlineInvariant'
    OBVIOUS
<1>1. TypeOK' /\ OnlyLearnersSolve'
    BY TypeStep, LearnersStep DEF OnlineInvariant
<1>2. ExpansionsAreOrdered' /\ QueuedAreAlive' /\ EstimatesAreRecorded' /\ AskedAreCovered'
    BY OrderedStep, AliveStep, RecordedStep, AskedStep DEF OnlineInvariant
<1>3. RecordsAreJustified' /\ RevisionsAreOld'
    BY JustifiedStep, RevisionsStep DEF OnlineInvariant
<1>4. RecordsAreCurrent'
    BY CurrentStep DEF OnlineInvariant
<1> QED BY <1>1, <1>2, <1>3, <1>4 DEF OnlineInvariant

-----------------------------------------------------------------------------
(* What the search may rely on.                                             *)

\* The invariant holds in every state of every run.
THEOREM OnlineInvariantAlways == Spec => []OnlineInvariant
<1>1. Init => OnlineInvariant
    BY OnlineInit
<1>2. OnlineInvariant /\ [Next]_vars => OnlineInvariant'
    BY OnlineNext
<1> QED BY <1>1, <1>2, PTL DEF Spec

\* Children, records, entries and the evaluation keep their types, whatever
\* the LPs return (online learning in potentials/heuristic.rs, pop).
THEOREM OnlineTypesAlways == Spec => []TypeOK
<1>1. OnlineInvariant => TypeOK
    BY DEF OnlineInvariant
<1> QED BY <1>1, OnlineInvariantAlways, PTL

\* An estimate as old as the maximum's revision misses no growth of a child
\* that counts its growth (pop, and revision in combinations/maximum.rs).
THEOREM RecordsAreCurrentAlways == Spec => []RecordsAreCurrent
<1>1. OnlineInvariant => RecordsAreCurrent
    BY DEF OnlineInvariant
<1> QED BY <1>1, OnlineInvariantAlways, PTL

\* A new evaluation of a state is at least an earlier one that was no dead end.
LEMMA EvaluationsGrow ==
    ASSUME OnlineInvariant, Finishes, NEW s \in States, s = evaluation.state,
           Works, evaluation.next = Len(config) + 1, records[s] # None, records[s].h # DeadEnd
    PROVE  records[s].h <= Bounded(s, evaluation.best)
<1> DEFINE b == evaluation.best
           h == Bounded(s, b)
           old == records[s].h
<1>1. b \in 0..DeadEnd /\ old \in 0..DeadEnd /\ DeadEnd \in Nat
    BY EvaluationParts, PortfolioAssumption DEF OnlineInvariant, TypeOK
<1>2. h \in 0..DeadEnd /\ b <= h /\ (s \notin GoalStates => MinOperatorCost <= h)
    BY <1>1, BoundedEffect
<1>4. \/ s \notin GoalStates /\ old <= MinOperatorCost
      \/ Justified(s, old, Len(config) + 1)
    BY DEF OnlineInvariant, RecordsAreJustified
<1> SUFFICES old <= h
    OBVIOUS
<1> HIDE DEF h, old
<1>5. CASE s \notin GoalStates /\ old <= MinOperatorCost
    BY <1>1, <1>2, <1>5, PortfolioAssumption
<1>6. CASE old = 0
    BY <1>1, <1>2, <1>6
<1>7. ASSUME NEW c \in Children, c < Len(config) + 1, old <= Estimate(c, s) PROVE old <= h
  <2>1. Estimate(c, s) <= b
      BY <1>7 DEF OnlineInvariant, AskedAreCovered
  <2>2. Estimate(c, s) \in 0..DeadEnd
      BY ConfigurationParts DEF OnlineInvariant
  <2> QED BY <1>1, <1>2, <1>7, <2>1, <2>2
<1> QED BY <1>4, <1>5, <1>6, <1>7 DEF Justified

\* A state whose last answer was a dead end is evaluated again only if the
\* expansion in progress has found it twice.
LEMMA AnsweredAgain ==
    ASSUME OnlineInvariant, Works, NEW s \in States, s = evaluation.state,
           records[s] # None, records[s].h = DeadEnd
    PROVE  FoundTwice(s)
<1>0. TypeOK /\ ExpansionsAreOrdered /\ QueuedAreAlive
    BY DEF OnlineInvariant
<1>1. evaluation.phase \in {"reached", "popped"}
    BY <1>0, EvaluationParts
<1>2. evaluation.phase # "popped"
  <2>1. ASSUME evaluation.phase = "popped" PROVE FALSE
    <3>1. entry[s] # None
        BY <1>0, <2>1 DEF QueuedAreAlive
    <3> QED BY <1>0, <3>1 DEF QueuedAreAlive
  <2> QED BY <2>1
<1>3. s \notin dead
  <2>1. Len(estimates) < Len(successors) /\ s = successors[Len(estimates) + 1]
      BY <1>0, <1>1, <1>2 DEF ExpansionsAreOrdered
  <2>2. Len(estimates) + 1 \in DOMAIN successors
      BY <1>0, <2>1 DEF TypeOK
  <2> QED BY <1>0, <2>1, <2>2 DEF QueuedAreAlive
<1>4. AnsweredDead(s)
    BY <1>0, <1>3 DEF QueuedAreAlive
<1> QED BY <1>1, <1>2, <1>4 DEF FoundTwice, AnsweredDead

\* An evaluation is smaller than an earlier one of the same state only if that
\* was a dead end whose certificate was forgotten, in an expansion that found
\* the state twice (expand): the assertion in pop holds, whatever the children
\* learn and forget in between.
THEOREM EstimatesNeverFallAlways == Spec => EstimatesNeverFall
<1>1. ASSUME OnlineInvariant, [Next]_vars
      PROVE  [\A s \in States : records[s] # None
                 => /\ records'[s] # None
                    /\ \/ records'[s].h >= records[s].h
                       \/ records[s].h = DeadEnd /\ FoundTwice(s)]_vars
  <2> SUFFICES ASSUME NEW s \in States, records[s] # None
               PROVE  /\ records'[s] # None
                      /\ \/ records'[s].h >= records[s].h
                         \/ records[s].h = DeadEnd /\ FoundTwice(s)
      OBVIOUS
  <2>1. records[s].h \in 0..DeadEnd /\ DeadEnd \in Nat
      BY <1>1, PortfolioAssumption DEF OnlineInvariant, TypeOK
  <2>2. CASE records'[s] = records[s]
      BY <2>1, <2>2
  <2>3. CASE /\ Finishes /\ s = evaluation.state /\ Works
             /\ evaluation.next = Len(config) + 1
             /\ records'[s] = [revision |-> Revision, h |-> Bounded(s, evaluation.best)]
    <3> DEFINE h == Bounded(s, evaluation.best)
    <3>1. records[s].h # DeadEnd => records[s].h <= h
        BY <1>1, <2>3, EvaluationsGrow
    <3>2. records[s].h = DeadEnd => FoundTwice(s)
        BY <1>1, <2>3, AnsweredAgain
    <3>3. h \in 0..DeadEnd
        BY <1>1, <2>3, EvaluationParts, BoundedEffect DEF OnlineInvariant
    <3>4. records'[s].h = h /\ records'[s] # None
        BY <2>3, NoneIsNone
    <3> HIDE DEF h
    <3> QED BY <2>1, <3>1, <3>2, <3>3, <3>4
  <2> QED BY <1>1, <2>2, <2>3, RecordStep DEF OnlineInvariant
<1> QED BY <1>1, OnlineInvariantAlways, PTL DEF Spec, EstimatesNeverFall

-----------------------------------------------------------------------------
(* The maximum over the counting children implements HeuristicInterface.    *)

LEMMA LargestOfMany ==
    ASSUME NEW C, NEW e \in [C -> 0..DeadEnd]
    PROVE  LET m == Max({0} \union {e[c] : c \in C})
           IN  /\ m \in 0..DeadEnd
               /\ \A c \in C : e[c] <= m
               /\ m = 0 \/ \E c \in C : m = e[c]
<1> DEFINE S == {0} \union {e[c] : c \in C}
<1>1. S \in SUBSET (0..DeadEnd) /\ S # {} /\ DeadEnd \in Nat
    BY PortfolioAssumption
<1>2. Max(S) \in S /\ \A n \in S : Max(S) >= n
  <2> HIDE DEF S
  <2> QED BY <1>1, LargestExists
<1>3. \A c \in C : e[c] \in S
    OBVIOUS
<1>4. \A n \in S : n = 0 \/ \E c \in C : n = e[c]
    OBVIOUS
<1> HIDE DEF S
<1>5. Max(S) \in 0..DeadEnd
    BY <1>1, <1>2
<1>6. \A c \in C : e[c] <= Max(S)
    BY <1>1, <1>2, <1>3, <1>5
<1>7. Max(S) = 0 \/ \E c \in C : Max(S) = e[c]
    BY <1>2, <1>4
<1> QED BY <1>5, <1>6, <1>7 DEF S

LEMMA LargestGrow ==
    ASSUME NEW C, NEW e \in [C -> 0..DeadEnd], NEW g \in [C -> 0..DeadEnd],
           \A c \in C : e[c] <= g[c]
    PROVE  Max({0} \union {e[c] : c \in C}) <= Max({0} \union {g[c] : c \in C})
<1> DEFINE m == Max({0} \union {e[c] : c \in C})
           n == Max({0} \union {g[c] : c \in C})
<1>1. m \in 0..DeadEnd /\ (m = 0 \/ \E c \in C : m = e[c])
    BY LargestOfMany
<1>2. n \in 0..DeadEnd /\ \A c \in C : g[c] <= n
    BY LargestOfMany
<1>3. DeadEnd \in Nat
    BY PortfolioAssumption
<1> SUFFICES m <= n
    OBVIOUS
<1> HIDE DEF m, n
<1>4. CASE m = 0
    BY <1>2, <1>3, <1>4
<1>5. ASSUME NEW c \in C, m = e[c] PROVE m <= n
  <2>1. e[c] \in 0..DeadEnd /\ g[c] \in 0..DeadEnd /\ e[c] <= g[c] /\ g[c] <= n
      BY <1>2
  <2> QED BY <1>2, <1>3, <1>5, <2>1
<1> QED BY <1>1, <1>4, <1>5

\* The estimates of the counting children in a state, before and after.
LEMMA CountedEstimates ==
    ASSUME TypeOK, NEW s \in States
    PROVE  /\ [c \in Counting |-> Estimate(c, s)] \in [Counting -> 0..DeadEnd]
           /\ CountedEstimate[s]
                = Max({0} \union {[c \in Counting |-> Estimate(c, s)][d] : d \in Counting})
<1>1. \A c \in Counting : Estimate(c, s) \in 0..DeadEnd
    BY ConfigurationParts DEF Counting
<1>2. {[c \in Counting |-> Estimate(c, s)][d] : d \in Counting}
        = {Estimate(c, s) : c \in Counting}
    OBVIOUS
<1> QED BY <1>1, <1>2 DEF CountedEstimate

LEMMA NextEstimateType ==
    ASSUME TypeOK', NEW c \in Children', NEW s \in States
    PROVE  Estimate(c, s)' \in 0..DeadEnd
<1>1. config' \in Seq(Configuration)
    BY ConfigurationAssumption DEF TypeOK
<1>2. config'[c] \in Configuration /\ child'[c] \in ChildType
    BY <1>1 DEF TypeOK, Children
<1>3. Estimate(c, s)' = Answers(config'[c], child'[c], s)
    BY DEF Estimate, Answers
<1> QED BY <1>2, <1>3, AnswersType

\* The estimate of a maximum only grows, and its revision with every change
\* of it, if its children count their growth (Heuristic::revision).
THEOREM OnlineImplementsInterface == Spec => ImplementsHeuristicInterface
<1>1. OnlineInvariant => CountedEstimate \in [States -> 0..DeadEnd]
  <2>1. ASSUME OnlineInvariant, NEW s \in States PROVE CountedEstimate[s] \in 0..DeadEnd
    <3> DEFINE e == [c \in Counting |-> Estimate(c, s)]
    <3>1. /\ e \in [Counting -> 0..DeadEnd]
          /\ CountedEstimate[s] = Max({0} \union {e[d] : d \in Counting})
        BY <2>1, CountedEstimates DEF OnlineInvariant
    <3> HIDE DEF e
    <3> QED BY <3>1, LargestOfMany
  <2> QED BY <2>1 DEF CountedEstimate
<1>2. Init => Revision = 0
  <2> SUFFICES ASSUME Init PROVE Revision = 0
      OBVIOUS
  <2>1. config \in Seq(Configuration)
      BY ConfigurationAssumption DEF Init
  <2>2. Children = 1..Len(config) /\ Len(config) \in Nat
      BY <2>1 DEF Children
  <2>3. [c \in Children |-> child[c].revision] = [c \in 1..Len(config) |-> 0]
      BY <2>2 DEF Init, NewChild
  <2> QED BY <2>2, <2>3, SumOfZeros DEF Revision
<1>3. ASSUME OnlineInvariant, OnlineInvariant', [Next]_vars
      PROVE  Interface!Learn \/ UNCHANGED <<CountedEstimate, Revision>>
  <2>1. TypeOK /\ OnlyLearnersSolve /\ TypeOK'
      BY <1>3 DEF OnlineInvariant
  <2>2. /\ Revision \in Nat /\ Revision' \in Nat /\ Revision <= Revision'
        /\ config' = config /\ Children' = Children /\ Counting' = Counting
        /\ \A c \in Counting : c \in Children
      BY <1>3, <2>1, StepEffect, RevisionType, NextRevisionType DEF Children, Counting, Tracks
  <2>3. CASE Revision' = Revision
    <3>1. \A c \in Counting, s \in States : Estimate(c, s)' = Estimate(c, s)
        BY <1>3, <2>1, <2>3, StepEffect
    <3>2. ASSUME NEW s \in States
          PROVE  {Estimate(c, s) : c \in Counting}' = {Estimate(c, s) : c \in Counting}
      <4>1. {Estimate(c, s) : c \in Counting}' = {Estimate(c, s)' : c \in Counting}
          BY <2>2
      <4> QED BY <3>1, <4>1
    <3>3. CountedEstimate' = CountedEstimate
        BY <3>2 DEF CountedEstimate
    <3> QED BY <2>3, <3>3
  <2>4. CASE Revision' > Revision
    <3>1. ASSUME NEW s \in States
          PROVE  CountedEstimate'[s] \in 0..DeadEnd /\ CountedEstimate'[s] >= CountedEstimate[s]
      <4> DEFINE e == [c \in Counting |-> Estimate(c, s)]
                 g == [c \in Counting |-> Estimate(c, s)']
                 m == CountedEstimate[s]
                 n == CountedEstimate'[s]
      <4>1. e \in [Counting -> 0..DeadEnd] /\ m = Max({0} \union {e[c] : c \in Counting})
          BY <2>1, CountedEstimates
      <4>2. g \in [Counting -> 0..DeadEnd]
          BY <2>1, <2>2, NextEstimateType
      <4>3. n = Max({0} \union {g[c] : c \in Counting})
        <5>1. {Estimate(c, s) : c \in Counting}' = {g[c] : c \in Counting}
            BY <2>2
        <5>2. n = Max({0} \union {Estimate(c, s) : c \in Counting}')
            BY DEF CountedEstimate
        <5> QED BY <5>1, <5>2
      <4>4. \A c \in Counting : e[c] <= g[c]
          BY <1>3, <2>1, <2>2, StepEffect
      <4> HIDE DEF e, g
      <4>5. m \in 0..DeadEnd /\ n \in 0..DeadEnd /\ m <= n
          BY <4>1, <4>2, <4>3, <4>4, LargestOfMany, LargestGrow
      <4> HIDE DEF m, n
      <4>6. n >= m
          BY <4>5, PortfolioAssumption
      <4> QED BY <4>5, <4>6 DEF m, n
    <3>2. CountedEstimate' \in [States -> 0..DeadEnd]
        BY <3>1 DEF CountedEstimate
    <3> QED BY <2>2, <2>4, <3>1, <3>2 DEF Interface!Learn
  <2> QED BY <2>2, <2>3, <2>4
<1>4. Init => OnlineInvariant
    BY OnlineInit
<1>5. OnlineInvariant /\ Init => Interface!Init
    BY <1>1, <1>2 DEF Interface!Init
<1> QED BY <1>3, <1>4, <1>5, OnlineInvariantAlways, PTL
        DEF Spec, ImplementsHeuristicInterface, Interface!Spec, Interface!interfaceVars

-----------------------------------------------------------------------------
(* LPs beyond the limit are paid for by answers that a state is a dead end. *)

\* The answers, as pairs of a state and a number.
LEMMA RefutationPairs ==
    ASSUME NEW r \in [States -> Nat], NEW s \in States
    PROVE  LET P == UNION {{u} \X (1..r[u]) : u \in States}
               q == [r EXCEPT ![s] = @ + 1]
           IN  /\ UNION {{u} \X (1..q[u]) : u \in States} = P \union {<<s, r[s] + 1>>}
               /\ <<s, r[s] + 1>> \notin P
<1> DEFINE P(f) == UNION {{u} \X (1..f[u]) : u \in States}
           q == [r EXCEPT ![s] = @ + 1]
<1>1. ASSUME NEW f \in [States -> Nat], NEW x
      PROVE  x \in P(f) <=> \E u \in States : \E k \in 1..f[u] : x = <<u, k>>
  <2>1. ASSUME NEW u \in States, NEW k \in 1..f[u], x = <<u, k>> PROVE x \in P(f)
    <3>1. x \in {u} \X (1..f[u])
        BY <2>1
    <3> QED BY <3>1
  <2>2. ASSUME NEW u \in States, x \in {u} \X (1..f[u])
        PROVE  \E k \in 1..f[u] : x = <<u, k>>
      BY <2>2
  <2> QED BY <2>1, <2>2
<1>2. /\ q \in [States -> Nat] /\ q[s] = r[s] + 1 /\ r[s] \in Nat
      /\ \A u \in States : u # s => q[u] = r[u]
    OBVIOUS
<1> HIDE DEF P, q
<1>3. 1..q[s] = (1..r[s]) \union {r[s] + 1} /\ r[s] + 1 \in 1..q[s] /\ r[s] + 1 \notin 1..r[s]
    BY <1>2
<1>4. ASSUME NEW x PROVE x \in P(q) <=> x \in P(r) \/ x = <<s, r[s] + 1>>
  <2>1. ASSUME x \in P(r) PROVE x \in P(q)
    <3>1. PICK u \in States : \E k \in 1..r[u] : x = <<u, k>>
        BY <1>1, <2>1
    <3>2. \E k \in 1..q[u] : x = <<u, k>>
        BY <1>2, <1>3, <3>1
    <3> QED BY <1>1, <1>2, <3>2
  <2>2. ASSUME x = <<s, r[s] + 1>> PROVE x \in P(q)
      BY <1>1, <1>2, <1>3, <2>2
  <2>3. ASSUME x \in P(q) PROVE x \in P(r) \/ x = <<s, r[s] + 1>>
    <3>1. PICK u \in States : \E k \in 1..q[u] : x = <<u, k>>
        BY <1>1, <1>2, <2>3
    <3>2. (\E k \in 1..r[u] : x = <<u, k>>) \/ x = <<s, r[s] + 1>>
        BY <1>2, <1>3, <3>1
    <3> QED BY <1>1, <3>2
  <2> QED BY <2>1, <2>2, <2>3
<1>5. <<s, r[s] + 1>> \notin P(r)
  <2>1. SUFFICES ASSUME NEW u \in States, NEW k \in 1..r[u], <<s, r[s] + 1>> = <<u, k>>
                 PROVE  FALSE
      BY <1>1
  <2>2. u = s /\ k = r[s] + 1
      BY <2>1
  <2> QED BY <1>3, <2>2
<1>6. P(q) = P(r) \union {<<s, r[s] + 1>>}
    BY <1>4
<1> QED BY <1>5, <1>6 DEF P, q

LEMMA RefutationsGrow ==
    ASSUME TypeOK, IsFiniteSet(Refutations), NEW s \in States, NEW h,
           refutations' = [refutations EXCEPT ![s] = IF h = DeadEnd THEN @ + 1 ELSE @]
    PROVE  /\ IsFiniteSet(Refutations')
           /\ Cardinality(Refutations')
                = Cardinality(Refutations) + IF h = DeadEnd THEN 1 ELSE 0
<1>0. refutations \in [States -> Nat]
    BY DEF TypeOK
<1>1. CASE h = DeadEnd
  <2> DEFINE x == <<s, refutations[s] + 1>>
  <2>1. Refutations' = Refutations \union {x} /\ x \notin Refutations
    <3>1. refutations' = [refutations EXCEPT ![s] = @ + 1]
        BY <1>1
    <3> QED BY <1>0, <3>1, RefutationPairs DEF Refutations
  <2> HIDE DEF x
  <2> QED BY <1>1, <2>1, FS_AddElement
<1>2. CASE h # DeadEnd
  <2>1. refutations' = refutations
      BY <1>0, <1>2
  <2>2. Refutations' = Refutations
      BY <2>1 DEF Refutations
  <2> QED BY <1>2, <2>2, FS_CardinalityType
<1> QED BY <1>1, <1>2

\* A state was proven dead after child c was asked, and this is not counted yet.
Proven(c) == Works /\ evaluation.best = DeadEnd /\ evaluation.next > c

\* An LP is solved only with room for it: a proof that is not counted yet
\* makes room for the next.
RoomToSolve(c) ==
    IF child[c].optimizer /\ evaluation # Failed /\ ~Proven(c)
    THEN child[c].solves < config[c].maxSolves + Cardinality(Refutations)
    ELSE child[c].solves <= config[c].maxSolves + Cardinality(Refutations)

SolvesHaveRoom ==
    /\ IsFiniteSet(Refutations)
    /\ \A c \in Children : config[c].maxSolves > 0 => RoomToSolve(c)

\* The LPs of a child that answers.
LEMMA AnswerSolves ==
    ASSUME TypeOK, AnAnswer
    PROVE  \E c \in Children :
               /\ c = evaluation.next /\ Works /\ Works'
               /\ UNCHANGED <<config, refutations>>
               /\ evaluation'.next = c + 1
               /\ evaluation.best = DeadEnd => evaluation'.best = DeadEnd
               /\ \A d \in Children : d # c => child'[d] = child[d]
               /\ \/ /\ child'[c].solves = child[c].solves
                     /\ child'[c].optimizer = child[c].optimizer
                  \/ /\ child'[c].solves = child[c].solves + 1 /\ child[c].optimizer
                     /\ evaluation'.best = DeadEnd
                        \/ (child'[c].optimizer => Spares(config[c], child'[c]))
<1>1. Works /\ evaluation.next \in Children /\ evaluation.state \in States
    BY AnswerStep, EvaluationParts, Zenon
<1> PICK c \in Children, s \in States : c = evaluation.next /\ s = evaluation.state
    BY <1>1
<1>2. PICK l \in ChildType, v \in 0..DeadEnd :
          /\ Answer(l, v)
          /\ \/ l.solves = child[c].solves /\ l.optimizer = child[c].optimizer
             \/ /\ l.solves = child[c].solves + 1 /\ child[c].optimizer
                /\ v = DeadEnd \/ (l.optimizer => Spares(config[c], l))
    BY AnswerStep, Zenon
<1> DEFINE b == Max({evaluation.best, v})
           old == evaluation.best
<1>3. /\ child' = [child EXCEPT ![c] = l]
      /\ evaluation' = [evaluation EXCEPT !.next = c + 1, !.best = b]
      /\ UNCHANGED <<config, refutations>>
    BY <1>2 DEF Answer, searchVars
<1>4. old \in 0..DeadEnd /\ DeadEnd \in Nat
    BY <1>1, EvaluationParts, PortfolioAssumption
<1>5. b \in 0..DeadEnd /\ old <= b /\ v <= b
    BY <1>4, MaxOfTwo
<1> HIDE DEF b, old
<1>6. (v = DeadEnd \/ old = DeadEnd) => b = DeadEnd
    BY <1>4, <1>5
<1>7. evaluation'.next = c + 1 /\ evaluation'.best = b /\ evaluation'.state = s
  <2>1. evaluation = [phase |-> evaluation.phase, state |-> s, next |-> c, best |-> old]
      BY <1>1, EvaluationParts DEF old
  <2>2. DOMAIN evaluation = {"phase", "state", "next", "best"}
      BY <2>1
  <2> QED BY <1>3, <2>1, <2>2
<1>8. Works'
  <2>1. evaluation'.state = s /\ DOMAIN evaluation' = {"phase", "state", "next", "best"}
    <3>1. DOMAIN evaluation' = DOMAIN evaluation
        BY <1>3
    <3>2. evaluation = [phase |-> evaluation.phase, state |-> s, next |-> c, best |-> old]
        BY <1>1, EvaluationParts DEF old
    <3>3. DOMAIN evaluation = {"phase", "state", "next", "best"}
        BY <3>2
    <3> QED BY <1>7, <3>1, <3>3
  <2> QED BY <2>1 DEF Works, Idle, Failed
<1>9. child'[c] = l /\ \A d \in Children : d # c => child'[d] = child[d]
    BY <1>3 DEF TypeOK
<1>10. evaluation.best = DeadEnd => evaluation'.best = DeadEnd
    BY <1>6, <1>7 DEF old
<1>11. \/ child'[c].solves = child[c].solves /\ child'[c].optimizer = child[c].optimizer
       \/ /\ child'[c].solves = child[c].solves + 1 /\ child[c].optimizer
          /\ evaluation'.best = DeadEnd
             \/ (child'[c].optimizer => Spares(config[c], child'[c]))
    BY <1>2, <1>6, <1>7, <1>9
<1>12. evaluation'.next = c + 1 /\ c = evaluation.next
    BY <1>7
<1> QED BY <1>1, <1>3, <1>8, <1>9, <1>10, <1>11, <1>12, Zenon

LEMMA SolvesStep ==
    ASSUME OnlineInvariant, SolvesHaveRoom, [Next]_vars
    PROVE  SolvesHaveRoom'
<1>0. TypeOK /\ OnlyLearnersSolve
    BY DEF OnlineInvariant
<1>1. /\ Children = 1..Len(config) /\ Len(config) \in Nat /\ Children' = Children
      /\ config' = config
      /\ \A c \in Children : /\ child[c].solves \in Nat /\ child[c].optimizer \in BOOLEAN
                             /\ config[c].maxSolves \in Nat
  <2>1. \A c \in Children : config[c] \in Configuration /\ child[c] \in ChildType
      BY <1>0, ConfigurationParts
  <2> QED BY <1>0, <2>1, StepEffect, ConfigurationParts
          DEF Children, Configuration, ChildType
<1>2. Cardinality(Refutations) \in Nat /\ IsFiniteSet(Refutations)
    BY FS_CardinalityType DEF SolvesHaveRoom
<1>3. CASE AnAnswer
  <2>1. PICK c \in Children :
               /\ c = evaluation.next /\ Works /\ Works'
               /\ UNCHANGED <<config, refutations>>
               /\ evaluation'.next = c + 1
               /\ evaluation.best = DeadEnd => evaluation'.best = DeadEnd
               /\ \A d \in Children : d # c => child'[d] = child[d]
               /\ \/ /\ child'[c].solves = child[c].solves
                     /\ child'[c].optimizer = child[c].optimizer
                  \/ /\ child'[c].solves = child[c].solves + 1 /\ child[c].optimizer
                     /\ evaluation'.best = DeadEnd
                        \/ (child'[c].optimizer => Spares(config[c], child'[c]))
      BY <1>0, <1>3, AnswerSolves, Zenon
  <2>2. evaluation # Failed /\ evaluation' # Failed
      BY <2>1 DEF Works
  <2>3. \A d \in Children : Proven(d) => Proven(d)'
      BY <1>1, <2>1 DEF Proven
  <2>5. Refutations' = Refutations
      BY <2>1 DEF Refutations
  <2>4. ASSUME NEW d \in Children, config[d].maxSolves > 0 PROVE RoomToSolve(d)'
    <3>1. RoomToSolve(d)
        BY <2>4 DEF SolvesHaveRoom
    <3>2. CASE d # c
        BY <1>1, <1>2, <2>1, <2>2, <2>3, <2>5, <3>1, <3>2 DEF RoomToSolve
    <3>3. CASE d = c
      <4>1. ~Proven(c)
          BY <1>1, <2>1 DEF Proven
      <4>2. evaluation'.best = DeadEnd => Proven(c)'
          BY <1>1, <2>1 DEF Proven
      <4>3. CASE child'[c].solves = child[c].solves /\ child'[c].optimizer = child[c].optimizer
          BY <1>1, <1>2, <2>1, <2>2, <2>5, <3>1, <3>3, <4>1, <4>3 DEF RoomToSolve
      <4>4. CASE /\ child'[c].solves = child[c].solves + 1 /\ child[c].optimizer
                 /\ Proven(c)' \/ (child'[c].optimizer => Spares(config[c], child'[c]))
        <5>1. child[c].solves < config[c].maxSolves + Cardinality(Refutations)
            BY <2>2, <3>1, <3>3, <4>1, <4>4 DEF RoomToSolve
        <5>2. child'[c].solves <= config[c].maxSolves + Cardinality(Refutations)
            BY <1>1, <1>2, <4>4, <5>1
        <5>3. Spares(config[c], child'[c])
                => child'[c].solves < config[c].maxSolves + Cardinality(Refutations)
            BY <1>1, <1>2, <2>4, <3>3, <4>4 DEF Spares
        <5> QED BY <2>1, <2>5, <3>3, <4>4, <5>2, <5>3 DEF RoomToSolve
      <4> QED BY <2>1, <4>2, <4>3, <4>4
    <3> QED BY <3>2, <3>3
  <2> QED BY <1>1, <1>2, <2>4, <2>5 DEF SolvesHaveRoom
<1>4. CASE Finishes
  <2>1. PICK s \in States, h \in 0..DeadEnd :
               /\ Works /\ s = evaluation.state /\ h = Bounded(s, evaluation.best)
               /\ evaluation.next = Len(config) + 1
               /\ refutations' = [refutations EXCEPT ![s] = IF h = DeadEnd THEN @ + 1 ELSE @]
               /\ evaluation' = Idle
               /\ UNCHANGED <<config, child>>
      BY <1>0, <1>4, FinishEffect
  <2>3. (h = DeadEnd) <=> (evaluation.best = DeadEnd)
      BY <1>0, <2>1, EvaluationParts, BoundedEffect
  <2>4. /\ IsFiniteSet(Refutations')
        /\ Cardinality(Refutations')
             = Cardinality(Refutations) + IF h = DeadEnd THEN 1 ELSE 0
      BY <1>0, <1>2, <2>1, RefutationsGrow
  <2>5. evaluation # Failed /\ \A d \in Children : Proven(d) => h = DeadEnd
      BY <2>1, <2>3 DEF Proven, Works
  <2>6. ASSUME NEW d \in Children, config[d].maxSolves > 0 PROVE RoomToSolve(d)'
    <3>1. RoomToSolve(d)
        BY <2>6 DEF SolvesHaveRoom
    <3>2. child'[d] = child[d]
        BY <2>1
    <3>3. CASE h = DeadEnd
      <4>1. child[d].solves <= config[d].maxSolves + Cardinality(Refutations)
          BY <1>1, <1>2, <3>1 DEF RoomToSolve
      <4>2. child'[d].solves < config[d].maxSolves + Cardinality(Refutations')
          BY <1>1, <1>2, <2>4, <3>2, <3>3, <4>1
      <4>3. child'[d].solves <= config[d].maxSolves + Cardinality(Refutations')
          BY <1>1, <1>2, <2>4, <3>2, <3>3, <4>1
      <4> QED BY <1>1, <4>2, <4>3 DEF RoomToSolve
    <3>4. CASE h # DeadEnd
      <4>1. ~Proven(d) /\ Cardinality(Refutations') = Cardinality(Refutations)
          BY <1>2, <2>4, <2>5, <3>4
      <4> QED BY <1>1, <1>2, <2>5, <3>1, <3>2, <4>1 DEF RoomToSolve
    <3> QED BY <3>3, <3>4
  <2> QED BY <1>1, <2>4, <2>6 DEF SolvesHaveRoom
<1>5. CASE FailToSolve
  <2> DEFINE c == evaluation.next
             l == Solving(config[c], child[c], evaluation.state)
  <2>1. Works /\ c \in Children /\ child[c].optimizer
      BY <1>5 DEF FailToSolve, Solve, Open, Running, Works, Triggered, Now
  <2>2. l.solves = child[c].solves + 1
      BY <1>0, <2>1, ConfigurationParts, EvaluationParts, SolvingEffect
  <2>3. child' = [child EXCEPT ![c] = l] /\ evaluation' = Failed /\ UNCHANGED <<config, refutations>>
      BY <1>5 DEF FailToSolve, Now, searchVars
  <2> HIDE DEF l
  <2>4. child'[c] = l /\ \A d \in Children : d # c => child'[d] = child[d]
      BY <1>0, <2>1, <2>3 DEF TypeOK
  <2>5. evaluation # Failed /\ ~Proven(c)
      BY <1>1, <2>1 DEF Works, Proven
  <2>6. ASSUME NEW d \in Children, config[d].maxSolves > 0
        PROVE  child'[d].solves <= config[d].maxSolves + Cardinality(Refutations)
    <3>1. RoomToSolve(d)
        BY <2>6 DEF SolvesHaveRoom
    <3>2. CASE d = c
      <4>1. child[d].solves < config[d].maxSolves + Cardinality(Refutations)
          BY <2>1, <2>5, <3>1, <3>2 DEF RoomToSolve
      <4>2. child'[d].solves = child[d].solves + 1
          BY <2>2, <2>4, <3>2
      <4> HIDE DEF c
      <4> QED BY <1>1, <1>2, <4>1, <4>2
    <3>3. CASE d # c
      <4>1. child'[d].solves = child[d].solves
          BY <2>4, <3>3
      <4> HIDE DEF c
      <4> QED BY <1>1, <1>2, <3>1, <4>1 DEF RoomToSolve
    <3> QED BY <3>2, <3>3
  <2>7. Refutations' = Refutations
      BY <2>3 DEF Refutations
  <2> QED BY <1>1, <1>2, <2>3, <2>6, <2>7 DEF SolvesHaveRoom, RoomToSolve
<1>6. CASE EvaluateSuccessor \/ \E s \in States : PopOutdated(s)
  <2>0. PICK s \in States, p \in {"reached", "popped"} :
               evaluation' = [phase |-> p, state |-> s, next |-> 1, best |-> 0]
      BY <1>0, <1>6, BeginEffect
  <2>1. evaluation = Idle /\ evaluation'.best = 0 /\ UNCHANGED <<config, child, refutations>>
      BY <1>0, <1>6, <2>0, BeginEffect DEF searchVars
  <2>2. evaluation # Failed /\ \A d \in Children : ~Proven(d) /\ ~Proven(d)'
    <3>1. DeadEnd # 0
        BY PortfolioAssumption
    <3>2. Idle # Failed
        BY DEF Idle, Failed
    <3> QED BY <2>1, <3>1, <3>2 DEF Proven, Works
  <2>4. evaluation' # Failed
      BY <2>0 DEF Failed
  <2>3. Refutations' = Refutations
      BY <2>1 DEF Refutations
  <2> QED BY <1>1, <1>2, <2>1, <2>2, <2>3, <2>4 DEF SolvesHaveRoom, RoomToSolve
<1>7. ASSUME UNCHANGED <<config, child, refutations, evaluation>> PROVE SolvesHaveRoom'
  <2>1. Refutations' = Refutations
      BY <1>7 DEF Refutations
  <2> QED BY <1>1, <1>7, <2>1 DEF SolvesHaveRoom, RoomToSolve, Proven, Works
<1>8. CASE Reaches \/ QueueSuccessors
    BY <1>0, <1>7, <1>8, ReachEffect, QueueEffect DEF OnlineInvariant
<1> QED BY <1>3, <1>4, <1>5, <1>6, <1>7, <1>8, StepCases DEF PopCurrent, vars, searchVars

\* The evaluations of a state that the expansion in progress has yet to make.
Ahead(s) == {i \in DOMAIN successors : i > Len(estimates) /\ successors[i] = s}

\* s is queued, or will be at the end of the expansion unless marked.
IsAlive(s) ==
    \/ entry[s] # None
    \/ \E i \in DOMAIN estimates : successors[i] = s /\ estimates[i] # DeadEnd

\* Every answer that a state is a dead end takes a path recorded to it: its
\* entry's, or that of the successor evaluated.
PathsPay ==
    \A s \in States :
        /\ refutations[s] + Cardinality(Ahead(s)) <= reaches[s]
        /\ IsAlive(s) => refutations[s] + Cardinality(Ahead(s)) < reaches[s]
        /\ refutations[s] > 0 => s \in dead \/ AnsweredDead(s)

LEMMA AheadIsFinite ==
    ASSUME TypeOK, NEW s \in States
    PROVE  IsFiniteSet(Ahead(s)) /\ Cardinality(Ahead(s)) \in Nat
<1>1. Len(successors) \in Nat /\ DOMAIN successors = 1..Len(successors)
    BY DEF TypeOK
<1>2. IsFiniteSet(DOMAIN successors)
    BY <1>1, FS_Interval
<1>3. Ahead(s) \subseteq DOMAIN successors
    BY DEF Ahead
<1> QED BY <1>2, <1>3, FS_Subset, FS_CardinalityType

LEMMA NothingAhead ==
    ASSUME Len(estimates) = Len(successors), TypeOK, NEW s \in States
    PROVE  Cardinality(Ahead(s)) = 0
<1>1. DOMAIN successors = 1..Len(successors) /\ Len(successors) \in Nat
    BY DEF TypeOK
<1>2. Ahead(s) = {}
    BY <1>1 DEF Ahead
<1> QED BY <1>2, FS_EmptySet

LEMMA PathsStep ==
    ASSUME OnlineInvariant, PathsPay, [Next]_vars
    PROVE  PathsPay'
<1>0. /\ TypeOK /\ OnlyLearnersSolve /\ ExpansionsAreOrdered /\ TypeOK'
      /\ \A s \in States : refutations[s] \in Nat /\ reaches[s] \in Nat
    BY TypeStep DEF OnlineInvariant, TypeOK
<1>1. CASE UNCHANGED searchVars
    BY <1>1 DEF searchVars, PathsPay, Ahead, IsAlive, AnsweredDead
<1>2. CASE Finishes
  <2>1. PICK s \in States, h \in 0..DeadEnd :
               /\ Works /\ s = evaluation.state
               /\ refutations' = [refutations EXCEPT ![s] = IF h = DeadEnd THEN @ + 1 ELSE @]
               /\ UNCHANGED <<reaches, successors>>
               /\ \/ /\ evaluation.phase = "reached"
                     /\ estimates' = Append(estimates, h)
                     /\ UNCHANGED <<entry, dead>>
                  \/ /\ evaluation.phase = "popped"
                     /\ entry' = [entry EXCEPT ![s] = entry'[s]]
                     /\ h = DeadEnd => entry'[s] = None
                     /\ dead' = IF h = DeadEnd THEN dead \union {s} ELSE dead
                     /\ UNCHANGED estimates
      BY <1>0, <1>2, FinishEffect
  <2>2. /\ refutations'[s] = refutations[s] + IF h = DeadEnd THEN 1 ELSE 0
        /\ \A u \in States : u # s => refutations'[u] = refutations[u]
      BY <1>0, <2>1 DEF TypeOK
  <2>3. CASE /\ evaluation.phase = "reached" /\ estimates' = Append(estimates, h)
             /\ UNCHANGED <<entry, dead>>
    <3> DEFINE n == Len(estimates) + 1
    <3>1. Len(estimates) < Len(successors) /\ s = successors[n]
        BY <1>0, <2>1, <2>3 DEF ExpansionsAreOrdered
    <3>2. /\ DOMAIN estimates' = DOMAIN estimates \union {n}
          /\ estimates'[n] = h /\ n \in DOMAIN successors
          /\ \A i \in DOMAIN estimates : estimates'[i] = estimates[i]
          /\ \A u \in States : AnsweredDead(u) => AnsweredDead(u)'
        BY <1>0, <2>1, <2>3, <3>1, AnswersAppended
    <3>3. /\ Len(estimates) \in Nat /\ Len(estimates') = n
          /\ n = Len(estimates) + 1 /\ \A i \in DOMAIN successors : i \in Nat
      <4>1. successors \in Seq(States) /\ estimates \in Seq(0..DeadEnd)
          BY <1>0 DEF TypeOK
      <4> QED BY <2>3, <4>1
    <3> HIDE DEF n
    <3>4. /\ Ahead(s)' = Ahead(s) \ {n} /\ n \in Ahead(s)
          /\ \A u \in States : u # s => Ahead(u)' = Ahead(u)
        BY <2>1, <3>1, <3>2, <3>3 DEF Ahead, n
    <3>5. Cardinality(Ahead(s)') = Cardinality(Ahead(s)) - 1 /\ Cardinality(Ahead(s)) \in Nat
        BY <1>0, <3>4, AheadIsFinite, FS_RemoveElement
    <3>6. ASSUME NEW u \in States, u # s
          PROVE  /\ refutations'[u] + Cardinality(Ahead(u)') <= reaches'[u]
                 /\ IsAlive(u)' => refutations'[u] + Cardinality(Ahead(u)') < reaches'[u]
                 /\ refutations'[u] > 0 => u \in dead' \/ AnsweredDead(u)'
      <4>1. IsAlive(u)' => IsAlive(u)
          BY <2>1, <2>3, <3>1, <3>2, <3>6 DEF IsAlive, n
      <4> QED BY <2>1, <2>2, <2>3, <3>2, <3>4, <3>6, <4>1 DEF PathsPay
    <3>7. /\ refutations'[s] + Cardinality(Ahead(s)') <= reaches'[s]
          /\ IsAlive(s)' => refutations'[s] + Cardinality(Ahead(s)') < reaches'[s]
          /\ refutations'[s] > 0 => s \in dead' \/ AnsweredDead(s)'
      <4>1. /\ refutations[s] + Cardinality(Ahead(s)) <= reaches[s]
            /\ IsAlive(s) => refutations[s] + Cardinality(Ahead(s)) < reaches[s]
            /\ refutations[s] > 0 => s \in dead \/ AnsweredDead(s)
          BY DEF PathsPay
      <4>2. CASE h = DeadEnd
        <5>1. AnsweredDead(s)'
            BY <2>1, <3>1, <3>2, <4>2 DEF AnsweredDead, n
        <5>2. IsAlive(s)' => IsAlive(s)
            BY <2>1, <2>3, <3>2, <4>2 DEF IsAlive
        <5>3. refutations'[s] + Cardinality(Ahead(s)') = refutations[s] + Cardinality(Ahead(s))
            BY <1>0, <2>2, <3>5, <4>2
        <5> QED BY <2>1, <4>1, <5>1, <5>2, <5>3
      <4>3. CASE h # DeadEnd
        <5>1. refutations'[s] = refutations[s]
            BY <1>0, <2>2, <4>3
        <5>2. refutations[s] + (Cardinality(Ahead(s)) - 1) < reaches[s]
            BY <1>0, <3>5, <4>1
        <5> QED BY <1>0, <2>1, <2>3, <3>2, <3>5, <4>1, <5>1, <5>2
      <4> QED BY <4>2, <4>3
    <3> QED BY <3>6, <3>7 DEF PathsPay
  <2>4. CASE /\ evaluation.phase = "popped"
             /\ entry' = [entry EXCEPT ![s] = entry'[s]]
             /\ h = DeadEnd => entry'[s] = None
             /\ dead' = IF h = DeadEnd THEN dead \union {s} ELSE dead
             /\ UNCHANGED estimates
    <3>1. ~Expanding
        BY <1>0, <2>1, <2>4 DEF ExpansionsAreOrdered
    <3>2. estimates = <<>> /\ successors = <<>> /\ \A u \in States : ~AnsweredDead(u)
        BY <1>0, <3>1, NothingAnswered
    <3>3. \A u \in States : Cardinality(Ahead(u)) = 0 /\ Ahead(u)' = Ahead(u)
        BY <1>0, <2>1, <2>4, <3>2, NothingAhead DEF Ahead
    <3>4. entry[s] # None
        BY <2>1, <2>4 DEF OnlineInvariant, QueuedAreAlive
    <3>5. \A u \in States : u # s => entry'[u] = entry[u]
        BY <1>0, <2>4 DEF TypeOK
    <3>6. \A u \in States : IsAlive(u)' <=> entry'[u] # None
        BY <2>4, <3>2 DEF IsAlive
    <3>7. ASSUME NEW u \in States, u # s
          PROVE  /\ refutations'[u] + Cardinality(Ahead(u)') <= reaches'[u]
                 /\ IsAlive(u)' => refutations'[u] + Cardinality(Ahead(u)') < reaches'[u]
                 /\ refutations'[u] > 0 => u \in dead' \/ AnsweredDead(u)'
        BY <2>1, <2>2, <2>4, <3>2, <3>3, <3>5, <3>6, <3>7 DEF PathsPay, IsAlive
    <3>8. refutations[s] < reaches[s]
        BY <1>0, <3>3, <3>4 DEF PathsPay, IsAlive
    <3>9. /\ refutations'[s] + Cardinality(Ahead(s)') <= reaches'[s]
          /\ IsAlive(s)' => refutations'[s] + Cardinality(Ahead(s)') < reaches'[s]
          /\ refutations'[s] > 0 => s \in dead' \/ AnsweredDead(s)'
      <4>1. Cardinality(Ahead(s)') = 0 /\ reaches'[s] = reaches[s]
          BY <2>1, <3>3
      <4>2. CASE h = DeadEnd
          BY <1>0, <2>2, <2>4, <3>6, <3>8, <4>1, <4>2
      <4>3. CASE h # DeadEnd
        <5>1. refutations[s] > 0 => s \in dead
            BY <3>2 DEF PathsPay
        <5> QED BY <1>0, <2>2, <2>4, <3>8, <4>1, <4>3, <5>1
      <4> QED BY <4>2, <4>3
    <3> QED BY <3>7, <3>9 DEF PathsPay
  <2> QED BY <2>1, <2>3, <2>4
<1>3. CASE Reaches
  <2>1. /\ ~Expanding /\ estimates = <<>> /\ UNCHANGED <<dead, estimates, refutations>>
        /\ successors' \in Seq(States)
        /\ \A s \in States : entry'[s] \in {entry[s], None}
        /\ reaches' = [s \in States |-> reaches[s] + Cardinality(Occurrences(successors', s))]
      BY <1>0, <1>3, ReachEffect
  <2>2. successors = <<>> /\ \A s \in States : ~AnsweredDead(s)
      BY <1>0, <2>1, NothingAnswered
  <2>3. \A s \in States : Cardinality(Ahead(s)) = 0
      BY <1>0, <2>1, <2>2, NothingAhead
  <2>4. ASSUME NEW s \in States
        PROVE  /\ Ahead(s)' = Occurrences(successors', s)
               /\ Cardinality(Ahead(s)') \in Nat
    <3>1. Len(estimates') = 0 /\ \A i \in DOMAIN successors' : i \in Nat /\ i > 0
        BY <2>1
    <3>2. Ahead(s)' = Occurrences(successors', s)
        BY <3>1 DEF Ahead, Occurrences
    <3>3. IsFiniteSet(DOMAIN successors')
      <4>1. Len(successors') \in Nat /\ DOMAIN successors' = 1..Len(successors')
          BY <2>1
      <4> QED BY <4>1, FS_Interval
    <3>4. Ahead(s)' \subseteq DOMAIN successors'
        BY <3>2 DEF Occurrences
    <3> QED BY <3>2, <3>3, <3>4, FS_Subset, FS_CardinalityType
  <2>5. \A s \in States : IsAlive(s)' => IsAlive(s)
      BY <2>1 DEF IsAlive
  <2>6. ASSUME NEW s \in States
        PROVE  /\ refutations'[s] + Cardinality(Ahead(s)') <= reaches'[s]
               /\ IsAlive(s)' => refutations'[s] + Cardinality(Ahead(s)') < reaches'[s]
               /\ refutations'[s] > 0 => s \in dead' \/ AnsweredDead(s)'
    <3>1. reaches'[s] = reaches[s] + Cardinality(Ahead(s)')
        BY <2>1, <2>4
    <3>2. /\ refutations[s] <= reaches[s]
          /\ IsAlive(s) => refutations[s] < reaches[s]
          /\ refutations[s] > 0 => s \in dead
        BY <1>0, <2>2, <2>3 DEF PathsPay
    <3>3. refutations'[s] = refutations[s] /\ dead' = dead
        BY <2>1
    <3> QED BY <1>0, <2>4, <2>5, <3>1, <3>2, <3>3
  <2> QED BY <2>6 DEF PathsPay
<1>4. CASE QueueSuccessors
  <2>1. /\ Len(estimates) = Len(successors) /\ UNCHANGED <<reaches, refutations>>
        /\ successors' = <<>> /\ estimates' = <<>> /\ dead \subseteq dead'
        /\ \A s \in States : AnsweredDead(s) => s \in dead'
        /\ \A s \in States :
              \/ entry'[s] = entry[s]
              \/ entry'[s] = None
              \/ \E i \in DOMAIN estimates : successors[i] = s /\ estimates[i] # DeadEnd
      BY <1>0, <1>4, QueueEffect
  <2>2. \A s \in States : Cardinality(Ahead(s)) = 0
      BY <1>0, <2>1, NothingAhead
  <2>3. \A s \in States : Ahead(s)' = {}
      BY <2>1 DEF Ahead
  <2>4. \A s \in States : Cardinality(Ahead(s)') = 0
      BY <2>3, FS_EmptySet
  <2>5. \A s \in States : IsAlive(s)' => IsAlive(s)
      BY <2>1 DEF IsAlive
  <2>6. ASSUME NEW s \in States
        PROVE  /\ refutations'[s] + Cardinality(Ahead(s)') <= reaches'[s]
               /\ IsAlive(s)' => refutations'[s] + Cardinality(Ahead(s)') < reaches'[s]
               /\ refutations'[s] > 0 => s \in dead' \/ AnsweredDead(s)'
      BY <2>1, <2>2, <2>4, <2>5 DEF PathsPay
  <2> QED BY <2>6 DEF PathsPay
<1>5. ASSUME NEW s \in States, PopCurrent(s) PROVE PathsPay'
  <2>1. /\ UNCHANGED <<dead, reaches, successors, estimates, refutations>>
        /\ entry' = [entry EXCEPT ![s] = None]
      BY <1>5 DEF PopCurrent
  <2>2. \A u \in States : entry'[u] = entry[u] \/ entry'[u] = None
      BY <1>0, <2>1 DEF TypeOK
  <2>3. \A u \in States : /\ IsAlive(u)' => IsAlive(u)
                          /\ Ahead(u)' = Ahead(u) /\ (AnsweredDead(u)' <=> AnsweredDead(u))
      BY <2>1, <2>2 DEF IsAlive, Ahead, AnsweredDead
  <2> QED BY <2>1, <2>3 DEF PathsPay
<1>6. CASE AnAnswer \/ FailToSolve \/ EvaluateSuccessor \/ (\E s \in States : PopOutdated(s))
           \/ UNCHANGED vars
    BY <1>0, <1>1, <1>6, AnswerEffect, FailEffect, BeginEffect DEF vars
<1> QED BY <1>2, <1>3, <1>4, <1>5, <1>6, StepCases

\* Each LP beyond the limit is paid for by an answer that a state is a dead
\* end (the early return after a certificate, before the limits are looked
\* at), and a state is the subject of at most one for each path recorded.
THEOREM SolvesAreBoundedAlways == Spec => []SolvesAreBounded
<1>1. Init => SolvesHaveRoom
  <2> SUFFICES ASSUME Init PROVE SolvesHaveRoom
      OBVIOUS
  <2>0. Refutations = {}
    <3>1. \A s \in States : 1..refutations[s] = {}
        BY DEF Init
    <3> QED BY <3>1 DEF Refutations
  <2>1. Cardinality(Refutations) = 0 /\ IsFiniteSet(Refutations)
      BY <2>0, FS_EmptySet
  <2>2. \A c \in Children : child[c].solves = 0 /\ config[c].maxSolves \in Nat
    <3>1. config \in Seq(Configuration)
        BY ConfigurationAssumption DEF Init
    <3>2. \A c \in Children : config[c] \in Configuration
        BY <3>1 DEF Children
    <3>3. \A c \in Children : child[c].solves = 0
        BY DEF Init, NewChild
    <3> QED BY <3>2, <3>3 DEF Configuration
  <2> QED BY <2>1, <2>2 DEF SolvesHaveRoom, RoomToSolve
<1>2. Init => PathsPay
  <2> SUFFICES ASSUME Init, NEW s \in States
               PROVE  /\ refutations[s] + Cardinality(Ahead(s)) <= reaches[s]
                      /\ IsAlive(s) => refutations[s] + Cardinality(Ahead(s)) < reaches[s]
                      /\ refutations[s] > 0 => s \in dead \/ AnsweredDead(s)
      BY DEF PathsPay
  <2>1. Ahead(s) = {}
      BY DEF Init, Ahead
  <2>2. Cardinality(Ahead(s)) = 0
      BY <2>1, FS_EmptySet
  <2>3. ~IsAlive(s) /\ refutations[s] = 0 /\ reaches[s] = 0
      BY DEF Init, IsAlive
  <2> QED BY <2>2, <2>3
<1>3. OnlineInvariant /\ SolvesHaveRoom /\ [Next]_vars => SolvesHaveRoom'
    BY SolvesStep
<1>4. OnlineInvariant /\ PathsPay /\ [Next]_vars => PathsPay'
    BY PathsStep
<1>5. OnlineInvariant /\ SolvesHaveRoom /\ PathsPay => SolvesAreBounded
  <2> SUFFICES ASSUME OnlineInvariant, SolvesHaveRoom, PathsPay PROVE SolvesAreBounded
      OBVIOUS
  <2>0. TypeOK /\ ExpansionsAreOrdered
      BY DEF OnlineInvariant
  <2>1. ASSUME NEW c \in Children, config[c].maxSolves > 0
        PROVE  child[c].solves <= config[c].maxSolves + Cardinality(Refutations)
    <3>1. config[c] \in Configuration /\ child[c] \in ChildType
        BY <2>0, ConfigurationParts
    <3>2. /\ child[c].solves \in Nat /\ config[c].maxSolves \in Nat
          /\ Cardinality(Refutations) \in Nat
        BY <3>1, FS_CardinalityType DEF SolvesHaveRoom, Configuration, ChildType
    <3> QED BY <2>1, <3>2 DEF SolvesHaveRoom, RoomToSolve
  <2>2. ASSUME NEW s \in States PROVE refutations[s] <= reaches[s]
    <3>1. Cardinality(Ahead(s)) \in Nat /\ refutations[s] \in Nat /\ reaches[s] \in Nat
        BY <2>0, AheadIsFinite DEF TypeOK
    <3> QED BY <3>1 DEF PathsPay
  <2>3. ASSUME NEW s \in States, AtRest, refutations[s] > 0 PROVE s \in dead
    <3>1. ~AnsweredDead(s)
        BY <2>0, <2>3, NothingAnswered DEF AtRest
    <3> QED BY <2>3, <3>1 DEF PathsPay
  <2> QED BY <2>1, <2>2, <2>3 DEF SolvesAreBounded
<1> QED BY <1>1, <1>2, <1>3, <1>4, <1>5, OnlineInvariantAlways, PTL DEF Spec

=============================================================================
