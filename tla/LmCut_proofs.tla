---------------------------- MODULE LmCut_proofs ----------------------------
(***************************************************************************)
(* Numeric LM-cut is admissible, for every task whose relaxation relaxes   *)
(* it, every choice of options and any evaluations before: its cuts are    *)
(* landmarks of the task itself, and together they take from no operator   *)
(* more than it costs.                                                     *)
(*                                                                         *)
(* The argument has four steps.  An invariant of the explorations, kept    *)
(* when costs change and supporters are replaced, says that every operator *)
(* with all its preconditions reached has been applied.  So whatever leads *)
(* from before the goal zone to behind it is an edge of the cut: no plan   *)
(* avoids the cut.  A numeric condition may need several steps, each of    *)
(* which an edge counts in proportion to what it adds; a potential on the  *)
(* states, the least weighted distance to what is not before the zone,     *)
(* falls at each step by no more than the cut takes from its operator.     *)
(* The potentials of the cuts add up, over a common denominator, and       *)
(* vanish in the goals: no plan costs less than their sum.                 *)
(*                                                                         *)
(* The explorations are compared with h^max computed from nothing in       *)
(* rounds.  An invariant says that what a reached operator leads to costs  *)
(* no more than through its supporter; that a first exploration pops       *)
(* propositions in the order of their values, each reached through popped  *)
(* ones at no lower a price; and that later ones reach nothing new.        *)
(***************************************************************************)
EXTENDS LmCut, FiniteSetTheorems, WellFoundedInduction, TLAPS

-----------------------------------------------------------------------------
(* Numbers, finite sets and recursion over them *)

\* Every set of natural numbers but the empty one has a least element.
LEMMA LeastNatural ==
    ASSUME NEW S \in SUBSET Nat, S # {}
    PROVE  /\ Min(S) \in S
           /\ \A n \in S : Min(S) <= n
<1>1. \E m \in S : \A n \in S : ~(<<n, m>> \in OpToRel(<, Nat))
    BY WFMin, NatLessThanWellFounded
<1>2. \A m, n \in S : ~(<<n, m>> \in OpToRel(<, Nat)) => m <= n
    BY DEF OpToRel
<1>3. \E m \in S : \A n \in S : m <= n
    BY <1>1, <1>2
<1> QED BY <1>3 DEF Min

\* A set that has 0 and the successors of the natural numbers in it has them all.
LEMMA Counting ==
    ASSUME NEW T, 0 \in T, \A n \in Nat : n \in T => n + 1 \in T
    PROVE  \A n \in Nat : n \in T
<1> DEFINE S == {n \in Nat : n \notin T}
<1> SUFFICES ASSUME S # {} PROVE FALSE
    OBVIOUS
<1>1. Min(S) \in S /\ \A n \in S : Min(S) <= n
    BY LeastNatural
<1>2. PICK m \in S : \A n \in S : m <= n
    BY <1>1
<1>3. m # 0 /\ m - 1 \in Nat /\ ~ (m <= m - 1) /\ m = (m - 1) + 1
    BY <1>2
<1> QED BY <1>2, <1>3
\* A function on the natural numbers can be defined by its first value and by each
\* value from the one before.
IsStep(step, S) == step \in [Nat \X S -> S]
IsRun(f, a, step, S) ==
    /\ f \in [Nat -> S]
    /\ f[0] = a
    /\ \A n \in Nat : f[n + 1] = step[<<n, f[n]>>]

\* There is a function on the natural numbers with a given first value, each value of
\* which follows from the one before.
LEMMA Recursion ==
    ASSUME NEW S, NEW a, a \in S, NEW step, IsStep(step, S)
    PROVE  \E f : IsRun(f, a, step, S)
<1> DEFINE Run(n, g) == /\ g \in [Nat -> S]
                        /\ g[0] = a
                        /\ \A k \in Nat : k < n => g[k + 1] = step[<<k, g[k]>>]
           T == {n \in Nat : \E g : Run(n, g)}
<1>1. 0 \in T
  <2>1. Run(0, [n \in Nat |-> a])
      OBVIOUS
  <2>. QED BY <2>1
<1>2. ASSUME NEW n \in Nat, n \in T PROVE n + 1 \in T
  <2>1. PICK g : Run(n, g)
      BY <1>2
  <2> DEFINE h == [k \in Nat |-> IF k <= n THEN g[k] ELSE step[<<n, g[n]>>]]
  <2>2. step[<<n, g[n]>>] \in S
      BY <2>1 DEF IsStep
  <2>3. h \in [Nat -> S] /\ h[0] = a
      BY <2>1, <2>2
  <2>4. ASSUME NEW k \in Nat, k < n + 1 PROVE h[k + 1] = step[<<k, h[k]>>]
    <3>1. CASE k = n
        BY <3>1
    <3>2. CASE k < n
      <4>1. k <= n /\ k + 1 <= n /\ k + 1 \in Nat
          BY <3>2
      <4>. QED BY <4>1, <3>2, <2>1
    <3>. QED BY <3>1, <3>2, <2>4
  <2>5. Run(n + 1, h)
      BY <2>3, <2>4
  <2>6. n + 1 \in Nat
      OBVIOUS
  <2> HIDE DEF Run, h
  <2>. QED BY <2>5, <2>6
<1>3. \A n \in Nat : \E g : Run(n, g)
  <2>1. \A n \in Nat : n \in T
    <3> HIDE DEF T
    <3>. QED BY <1>1, <1>2, Counting
  <2>. QED BY <2>1
<1>4. ASSUME NEW m \in Nat, NEW n \in Nat, m <= n, NEW g, NEW h, Run(m, g), Run(n, h)
      PROVE  g[m] = h[m]
  <2> DEFINE U == {k \in Nat : k <= m => g[k] = h[k]}
  <2>1. 0 \in U
      BY <1>4
  <2>2. ASSUME NEW k \in Nat, k \in U PROVE k + 1 \in U
    <3>1. CASE k + 1 <= m
      <4>1. k <= m /\ k < m /\ k < n
          BY <3>1, <1>4
      <4>2. g[k] = h[k]
          BY <4>1, <2>2
      <4>3. g[k + 1] = step[<<k, g[k]>>] /\ h[k + 1] = step[<<k, h[k]>>]
          BY <4>1, <1>4
      <4>. QED BY <4>2, <4>3
    <3>2. CASE ~ (k + 1 <= m)
        BY <3>2
    <3>. QED BY <3>1, <3>2
  <2>3. m \in U
    <3> HIDE DEF U
    <3>. QED BY <2>1, <2>2, Counting
  <2>. QED BY <2>3
<1> DEFINE R(n) == CHOOSE g : Run(n, g)
           f == [n \in Nat |-> R(n)[n]]
<1>5. \A n \in Nat : Run(n, R(n))
  <2> HIDE DEF Run
  <2>. QED BY <1>3
<1> HIDE DEF R
<1>6. f \in [Nat -> S] /\ f[0] = a
    BY <1>5
<1>7. ASSUME NEW n \in Nat PROVE f[n + 1] = step[<<n, f[n]>>]
  <2>1. n + 1 \in Nat /\ n < n + 1 /\ n <= n + 1
      OBVIOUS
  <2>2. Run(n + 1, R(n + 1)) /\ Run(n, R(n))
      BY <1>5, <2>1
  <2>3. R(n + 1)[n + 1] = step[<<n, R(n + 1)[n]>>]
      BY <2>1, <2>2
  <2>4. R(n)[n] = R(n + 1)[n]
    <3> HIDE DEF Run
    <3>. QED BY <1>4, <2>1, <2>2
  <2>. QED BY <2>1, <2>3, <2>4
<1>8. IsRun(f, a, step, S)
    BY <1>6, <1>7 DEF IsRun
<1> QED BY <1>8

-----------------------------------------------------------------------------
(* Closures *)

\* The closure under a function that only adds more for more: the least closed set.
LEMMA ClosureFacts ==
    ASSUME NEW P, IsFiniteSet(P), NEW more, more \in [SUBSET P -> SUBSET P],
           \A S, T \in SUBSET P : S \subseteq T => more[S] \subseteq more[T],
           NEW start, start \in SUBSET P
    PROVE  /\ Closure(more, start) \in SUBSET P
           /\ start \subseteq Closure(more, start)
           /\ more[Closure(more, start)] \subseteq Closure(more, start)
           /\ \A C \in SUBSET P : start \subseteq C /\ more[C] \subseteq C => Closure(more, start) \subseteq C
<1> DEFINE IsClosure(f) == f = [S \in DOMAIN more |-> IF more[S] \subseteq S THEN S ELSE f[S \cup more[S]]]
           hull == [S \in SUBSET P |->
                       {x \in P : \A C \in SUBSET P : S \subseteq C /\ more[C] \subseteq C => x \in C}]
           F == CHOOSE f : IsClosure(f)
<1>1. ASSUME NEW S \in SUBSET P
      PROVE  hull[S] = IF more[S] \subseteq S THEN S ELSE hull[S \cup more[S]]
  <2>1. CASE more[S] \subseteq S
      BY <2>1
  <2>2. CASE ~ (more[S] \subseteq S)
    <3>1. S \cup more[S] \in SUBSET P
        OBVIOUS
    <3>2. \A C \in SUBSET P : more[C] \subseteq C => (S \subseteq C <=> S \cup more[S] \subseteq C)
        OBVIOUS
    <3>3. hull[S] = hull[S \cup more[S]]
        BY <3>1, <3>2
    <3>. QED BY <3>3, <2>2
  <2>. QED BY <2>1, <2>2
<1>2. DOMAIN more = SUBSET P /\ DOMAIN hull = SUBSET P
    OBVIOUS
<1>3. IsClosure(hull)
  <2> HIDE DEF hull
  <2>1. hull = [S \in SUBSET P |-> hull[S]]
      BY <1>2 DEF hull
  <2>. QED BY <1>1, <1>2, <2>1
<1>4. IsClosure(F)
  <2> HIDE DEF IsClosure
  <2>. QED BY <1>3
<1>5. \A S \in SUBSET P : F[S] = IF more[S] \subseteq S THEN S ELSE F[S \cup more[S]]
  <2> HIDE DEF F
  <2>. QED BY <1>4, <1>2
<1>6. Closure(more, start) = F[start]
    BY DEF Closure
<1> HIDE DEF F
<1> DEFINE Right(S) == /\ F[S] \in SUBSET P /\ S \subseteq F[S] /\ more[F[S]] \subseteq F[S]
                       /\ \A C \in SUBSET P : S \subseteq C /\ more[C] \subseteq C => F[S] \subseteq C
           T == {n \in Nat : \A S \in SUBSET P : Cardinality(P \ S) <= n => Right(S)}
<1>7. ASSUME NEW S \in SUBSET P, more[S] \subseteq S PROVE Right(S)
  <2>1. F[S] = S
      BY <1>5, <1>7
  <2>. QED BY <2>1, <1>7
<1>8. 0 \in T
  <2>1. \A S \in SUBSET P : Cardinality(P \ S) <= 0 => S = P
    <3>1. ASSUME NEW S \in SUBSET P, Cardinality(P \ S) <= 0 PROVE P \ S = {}
      <4>1. IsFiniteSet(P \ S) /\ Cardinality(P \ S) \in Nat
          BY FS_Difference, FS_CardinalityType
      <4>. QED BY <4>1, <3>1, FS_EmptySet
    <3>. QED BY <3>1
  <2>2. \A S \in SUBSET P : Cardinality(P \ S) <= 0 => Right(S)
    <3>1. P \in SUBSET P /\ more[P] \subseteq P
        OBVIOUS
    <3> HIDE DEF Right
    <3>2. Right(P)
        BY <3>1, <1>7
    <3>3. ASSUME NEW S \in SUBSET P, Cardinality(P \ S) <= 0 PROVE Right(S)
      <4>1. S = P
          BY <3>3, <2>1
      <4>. QED BY <4>1, <3>2
    <3>. QED BY <3>3
  <2>. QED BY <2>2
<1>9. ASSUME NEW n \in Nat, n \in T PROVE n + 1 \in T
  <2>1. ASSUME NEW S \in SUBSET P, Cardinality(P \ S) <= n + 1, ~ (more[S] \subseteq S) PROVE Right(S)
    <3> DEFINE U == S \cup more[S]
    <3>1. U \in SUBSET P /\ F[S] = F[U]
        BY <2>1, <1>5
    <3>2. Cardinality(P \ U) < Cardinality(P \ S)
      <4>1. IsFiniteSet(P \ S)
          BY FS_Difference
      <4>2. PICK x \in more[S] : x \notin S
          BY <2>1
      <4>3. x \in P
          BY <4>2
      <4>4. P \ U \in SUBSET (P \ S) /\ P \ U # P \ S
          BY <4>2, <4>3
      <4> HIDE DEF U
      <4>5. /\ Cardinality(P \ U) <= Cardinality(P \ S)
            /\ Cardinality(P \ U) # Cardinality(P \ S)
          BY <4>1, <4>4, FS_Subset
      <4>6. Cardinality(P \ U) \in Nat /\ Cardinality(P \ S) \in Nat
          BY FS_Difference, FS_CardinalityType
      <4>. QED BY <4>5, <4>6
    <3>3. Cardinality(P \ U) \in Nat /\ Cardinality(P \ S) \in Nat
        BY FS_Difference, FS_CardinalityType
    <3>4. Cardinality(P \ U) <= n
        BY <3>2, <3>3, <2>1
    <3>5. Right(U)
      <4> HIDE DEF Right, U
      <4>. QED BY <3>1, <3>4, <1>9
    <3>6. \A C \in SUBSET P : S \subseteq C /\ more[C] \subseteq C => U \subseteq C
        OBVIOUS
    <3>7. S \subseteq U
        OBVIOUS
    <3> HIDE DEF U
    <3>. QED BY <3>1, <3>5, <3>6, <3>7
  <2> HIDE DEF Right
  <2>. QED BY <2>1, <1>7
<1>10. Right(start)
  <2>1. \A n \in Nat : n \in T
    <3> HIDE DEF T
    <3>. QED BY <1>8, <1>9, Counting
  <2>2. Cardinality(P \ start) \in Nat
      BY FS_Difference, FS_CardinalityType
  <2>3. Cardinality(P \ start) <= Cardinality(P \ start)
      BY <2>2
  <2> HIDE DEF Right
  <2>. QED BY <2>1, <2>2, <2>3
<1> QED BY <1>6, <1>10

-----------------------------------------------------------------------------
(* Products and fractions *)

\* Products of whole numbers, where the provers need to be told.
LEMMA ProductsGrow ==
    ASSUME NEW x \in Int, NEW y \in Int, x <= y, NEW k \in Nat
    PROVE  x * k <= y * k /\ k * x <= k * y /\ x * k \in Int /\ y * k \in Int
OBVIOUS

LEMMA ProductsCancel ==
    ASSUME NEW x \in Int, NEW y \in Int, NEW k \in Nat \ {0}
    PROVE  /\ x * k <= y * k => x <= y
           /\ x * k = y * k => x = y
           /\ x * k < y * k => x < y
OBVIOUS

LEMMA ProductsAssociate ==
    ASSUME NEW x \in Int, NEW y \in Int, NEW z \in Int
    PROVE  x * (y * z) = (x * y) * z /\ x * y = y * x /\ x * y \in Int
OBVIOUS

LEMMA ProductsDistribute ==
    ASSUME NEW x \in Int, NEW y \in Int, NEW z \in Int
    PROVE  (x + y) * z = x * z + y * z /\ (x - y) * z = x * z - y * z
           /\ z * (x + y) = z * x + z * y /\ z * (x - y) = z * x - z * y
OBVIOUS

LEMMA ProductsArePositive ==
    ASSUME NEW x \in Nat, NEW y \in Nat
    PROVE  x * y \in Nat /\ (x # 0 /\ y # 0 => x * y # 0 /\ x * y > 0)
OBVIOUS

\* a is n / d.
Is(a, n, d) == a \in Amounts /\ a[1] * d = n * a[2]

\* A bounded set of natural numbers has a largest element.
LEMMA Largest ==
    ASSUME NEW d \in Nat, NEW D \in SUBSET (1..d), D # {}
    PROVE  Max(D) \in D /\ \A j \in D : Max(D) >= j
<1> DEFINE S == {d - k : k \in D}
<1>1. S \in SUBSET Nat /\ S # {}
  <2>1. \A k \in D : k \in 1..d /\ d - k \in Nat
      OBVIOUS
  <2>. QED BY <2>1
<1>2. PICK m \in S : \A j \in S : m <= j
    BY <1>1, LeastNatural
<1>3. PICK k \in D : m = d - k
    BY <1>2
<1>4. ASSUME NEW j \in D PROVE k >= j
  <2>1. d - j \in S /\ j \in Nat /\ k \in Nat
      BY <1>3
  <2>2. d - k <= d - j
      BY <2>1, <1>2, <1>3
  <2>. QED BY <2>1, <2>2
<1> QED BY <1>3, <1>4 DEF Max

\* What n \div g leaves is n % g.
LEMMA Division ==
    ASSUME NEW n \in Nat, NEW g \in Nat \ {0}
    PROVE  n \div g \in Nat /\ n = g * (n \div g) + (n % g)
OBVIOUS

\* Dividing both numbers by their largest common divisor does not change a fraction.
LEMMA FractionFacts ==
    ASSUME NEW n \in Nat, NEW d \in Nat \ {0}
    PROVE  Is(Fraction(n, d), n, d)
<1> DEFINE D == {k \in 1..d : Divides(k, d) /\ Divides(k, n)}
           g == Max(D)
<1>1. g \in D
  <2>1. 1 \in D
    <3>1. d % 1 = 0 /\ n % 1 = 0 /\ 1 \in 1..d
        OBVIOUS
    <3>. QED BY <3>1 DEF Divides
  <2>2. D \in SUBSET (1..d)
      OBVIOUS
  <2> HIDE DEF D
  <2>. QED BY <2>1, <2>2, Largest
<1>2. g \in 1..d /\ d % g = 0 /\ n % g = 0
    BY <1>1 DEF Divides
<1>10. D # {} /\ D \in SUBSET (1..d)
    BY <1>1
<1> HIDE DEF g
<1> DEFINE a == n \div g
           b == d \div g
<1>3. g \in Nat \ {0} /\ a \in Nat /\ b \in Nat /\ n = g * a + (n % g) /\ d = g * b + (d % g)
  <2>1. g \in Nat \ {0}
      BY <1>2
  <2>. QED BY <2>1, Division
<1>4. n = g * a /\ d = g * b
    BY <1>2, <1>3
<1>5. Fraction(n, d) = <<a, b>>
    BY DEF Fraction, g
<1>6. b # 0
    BY <1>3, <1>4
<1>7. a * d = n * b
  <2>1. a * d = a * (g * b) /\ n * b = (g * a) * b
      BY <1>4
  <2> HIDE DEF a, b
  <2>. QED BY <2>1, <1>3
<1>8. a = 0 => b = 1
  <2>1. SUFFICES ASSUME a = 0 PROVE b = 1
      OBVIOUS
  <2>2. n = 0
      BY <2>1, <1>3, <1>4
  <2>3. d \in D
    <3>1. d % d = 0 /\ n % d = 0
        BY <2>2
    <3>. QED BY <3>1 DEF Divides
  <2>4. g = d
    <3>1. \A j \in D : g >= j
      <4> HIDE DEF D
      <4>. QED BY <1>10, Largest DEF g
    <3>. QED BY <3>1, <2>3, <1>2
  <2>. QED BY <2>4
<1> HIDE DEF a, b
<1> QED BY <1>3, <1>5, <1>6, <1>7, <1>8 DEF Is, Amounts

\* An amount is a number at least 0, below infinity.
LEMMA AmountFacts ==
    ASSUME NEW a \in Amounts
    PROVE  /\ a[1] \in Nat /\ a[2] \in Nat /\ a[2] # 0
           /\ a = <<a[1], a[2]>>
           /\ a[1] = 0 <=> a = Zero
           /\ a # Infinity
           /\ ~ Less(a, Zero)
           /\ Less(Zero, a) <=> a # Zero
           /\ Less(a, Infinity) /\ ~ Less(Infinity, a)
<1>1. a \in Nat \X (Nat \ {0}) /\ (a[1] = 0 => a[2] = 1)
    BY DEF Amounts
<1>2. a[1] \in Nat /\ a[2] \in Nat /\ a[2] # 0 /\ a = <<a[1], a[2]>>
    BY <1>1
<1>3. a[1] = 0 <=> a = Zero
    BY <1>1, <1>2 DEF Zero
<1>4. a # Infinity
    BY <1>2 DEF Infinity
<1>5. ~ Less(a, Zero) /\ (Less(Zero, a) <=> a[1] # 0)
    BY <1>2 DEF Less, Zero
<1>6. Less(a, Infinity) /\ ~ Less(Infinity, a)
    BY <1>2 DEF Less, Infinity
<1> QED BY <1>2, <1>3, <1>4, <1>5, <1>6

\* Numbers that are amounts.
LEMMA SpecialAmounts ==
    /\ Zero \in Amounts /\ <<1, 1>> \in Amounts
    /\ \A n \in Nat : n # 0 => <<n, 1>> \in Amounts
    /\ <<0, 1>> = Zero
    /\ Infinity \notin Amounts
BY DEF Zero, Amounts, Infinity

\* What the operations on fractions compute.
LEMMA Operations ==
    ASSUME NEW a \in Amounts, NEW b \in Amounts
    PROVE  /\ Is(Plus(a, b), a[1] * b[2] + b[1] * a[2], a[2] * b[2])
           /\ Is(Times(a, b), a[1] * b[1], a[2] * b[2])
           /\ b # Zero => Is(Over(a, b), a[1] * b[2], a[2] * b[1])
           /\ b[1] * a[2] <= a[1] * b[2] => Is(Minus(a, b), a[1] * b[2] - b[1] * a[2], a[2] * b[2])
<1>1. /\ a[1] \in Nat /\ a[2] \in Nat /\ a[2] # 0 /\ b[1] \in Nat /\ b[2] \in Nat /\ b[2] # 0
      /\ b[1] = 0 <=> b = Zero
    BY AmountFacts
<1>2. /\ a[1] * b[2] \in Nat /\ b[1] * a[2] \in Nat /\ a[1] * b[1] \in Nat
      /\ a[2] * b[2] \in Nat \ {0} /\ (b # Zero => a[2] * b[1] \in Nat \ {0})
    BY <1>1, ProductsArePositive
<1>3. a[1] * b[2] + b[1] * a[2] \in Nat
    BY <1>2
<1>4. b[1] * a[2] <= a[1] * b[2] => a[1] * b[2] - b[1] * a[2] \in Nat
    BY <1>2
<1>5. Is(Plus(a, b), a[1] * b[2] + b[1] * a[2], a[2] * b[2])
    BY <1>2, <1>3, FractionFacts DEF Plus
<1>6. Is(Times(a, b), a[1] * b[1], a[2] * b[2])
    BY <1>2, FractionFacts DEF Times
<1>7. b # Zero => Is(Over(a, b), a[1] * b[2], a[2] * b[1])
    BY <1>2, FractionFacts DEF Over
<1>8. b[1] * a[2] <= a[1] * b[2] => Is(Minus(a, b), a[1] * b[2] - b[1] * a[2], a[2] * b[2])
    BY <1>2, <1>4, FractionFacts DEF Minus
<1> QED BY <1>5, <1>6, <1>7, <1>8

\* Sums and products of amounts are amounts.
LEMMA OperationsAreAmounts ==
    ASSUME NEW a \in Amounts, NEW b \in Amounts
    PROVE  Plus(a, b) \in Amounts /\ Times(a, b) \in Amounts
BY Operations DEF Is

\* Operations on 0.
LEMMA ZeroOperations ==
    ASSUME NEW a \in Amounts
    PROVE  Times(a, Zero) = Zero /\ Plus(Zero, Zero) = Zero
<1>1. a[1] \in Nat /\ a[2] \in Nat /\ a[2] # 0 /\ Zero \in Amounts /\ Zero[1] = 0 /\ Zero[2] = 1
    BY AmountFacts, SpecialAmounts DEF Zero
<1>2. Is(Times(a, Zero), a[1] * Zero[1], a[2] * Zero[2])
    BY <1>1, Operations
<1>3. Is(Plus(Zero, Zero), Zero[1] * Zero[2] + Zero[1] * Zero[2], Zero[2] * Zero[2])
    BY <1>1, Operations
<1>4. ASSUME NEW x, NEW d \in Nat \ {0}, Is(x, 0, d) PROVE x = Zero
  <2>1. x \in Amounts /\ x[1] * d = 0 * x[2]
      BY <1>4 DEF Is
  <2>2. x[1] \in Nat /\ x[2] \in Nat /\ (x[1] = 0 <=> x = Zero)
      BY <2>1, AmountFacts
  <2>3. x[1] * d = 0
      BY <2>1, <2>2
  <2>4. x[1] = 0
      BY <2>2, <2>3, ProductsArePositive
  <2>. QED BY <2>4, <2>2
<1>5. a[1] * Zero[1] = 0 /\ a[2] * Zero[2] = a[2] /\ Zero[1] * Zero[2] + Zero[1] * Zero[2] = 0 /\ Zero[2] * Zero[2] = 1
    BY <1>1
<1>6. Times(a, Zero) = Zero
    BY <1>1, <1>2, <1>4, <1>5
<1>7. Plus(Zero, Zero) = Zero
    BY <1>3, <1>4, <1>5
<1> QED BY <1>6, <1>7

\* Less orders the amounts.
LEMMA LessIsTransitive ==
    ASSUME NEW a \in Amounts, NEW b \in Amounts, NEW c \in Amounts
    PROVE  /\ ~ Less(a, a)
           /\ ~ Less(b, a) /\ ~ Less(c, b) => ~ Less(c, a)
           /\ Less(a, b) => ~ Less(b, a)
           /\ Less(a, b) /\ ~ Less(c, b) => Less(a, c)
<1>1. /\ a[1] \in Nat /\ a[2] \in Nat \ {0} /\ b[1] \in Nat /\ b[2] \in Nat \ {0}
      /\ c[1] \in Nat /\ c[2] \in Nat \ {0}
    BY AmountFacts
<1>3. ASSUME NEW x \in Amounts, NEW y \in Amounts
      PROVE  /\ ~ Less(y, x) <=> x[1] * y[2] <= y[1] * x[2]
             /\ x[1] * y[2] \in Nat /\ y[1] * x[2] \in Nat
  <2>1. x[1] \in Nat /\ x[2] \in Nat /\ y[1] \in Nat /\ y[2] \in Nat
      BY AmountFacts
  <2>2. x[1] * y[2] \in Nat /\ y[1] * x[2] \in Nat
      BY <2>1, ProductsArePositive
  <2>. QED BY <2>2 DEF Less
<1>4. ASSUME NEW x \in Amounts, NEW y \in Amounts, NEW z \in Amounts, ~ Less(y, x), ~ Less(z, y)
      PROVE  ~ Less(z, x)
  <2>1. /\ x[1] \in Nat /\ x[2] \in Nat \ {0} /\ y[1] \in Nat /\ y[2] \in Nat \ {0}
        /\ z[1] \in Nat /\ z[2] \in Nat \ {0}
      BY AmountFacts
  <2>2. x[1] * y[2] <= y[1] * x[2] /\ y[1] * z[2] <= z[1] * y[2]
      BY <1>3, <1>4
  <2> DEFINE x1 == x[1]
             x2 == x[2]
             y1 == y[1]
             y2 == y[2]
             z1 == z[1]
             z2 == z[2]
  <2>3. x1 * z2 <= z1 * x2
    <3>1. /\ x1 \in Nat /\ x2 \in Nat \ {0} /\ y1 \in Nat /\ y2 \in Nat \ {0}
          /\ z1 \in Nat /\ z2 \in Nat \ {0}
          /\ x1 * y2 <= y1 * x2 /\ y1 * z2 <= z1 * y2
        BY <2>1, <2>2
    <3> HIDE DEF x1, x2, y1, y2, z1, z2
    <3>2. (x1 * y2) * z2 <= (y1 * x2) * z2
        BY <3>1, ProductsArePositive, ProductsGrow
    <3>3. (y1 * z2) * x2 <= (z1 * y2) * x2
        BY <3>1, ProductsArePositive, ProductsGrow
    <3>4. /\ (x1 * y2) * z2 = (x1 * z2) * y2 /\ (y1 * x2) * z2 = (y1 * z2) * x2
          /\ (z1 * y2) * x2 = (z1 * x2) * y2
        BY <3>1
    <3>5. /\ x1 * z2 \in Nat /\ z1 * x2 \in Nat /\ (x1 * z2) * y2 \in Nat
          /\ (y1 * z2) * x2 \in Nat /\ (z1 * x2) * y2 \in Nat
        BY <3>1, ProductsArePositive
    <3>6. (x1 * z2) * y2 <= (z1 * x2) * y2
        BY <3>2, <3>3, <3>4, <3>5
    <3>. QED BY <3>1, <3>5, <3>6, ProductsCancel
  <2>. QED BY <2>3, <1>3
<1>5. \A x, y \in Amounts : Less(x, y) => ~ Less(y, x)
  <2>1. ASSUME NEW x \in Amounts, NEW y \in Amounts, Less(x, y) PROVE ~ Less(y, x)
    <3>1. x[1] * y[2] < y[1] * x[2] /\ x[1] * y[2] \in Nat /\ y[1] * x[2] \in Nat
        BY <2>1, <1>3 DEF Less
    <3>. QED BY <3>1 DEF Less
  <2>. QED BY <2>1
<1>6. ~ Less(a, a)
    BY <1>5
<1>7. Less(a, b) /\ ~ Less(c, b) => Less(a, c)
  <2>1. SUFFICES ASSUME Less(a, b), ~ Less(c, b), ~ Less(a, c) PROVE FALSE
      OBVIOUS
  <2>2. ~ Less(a, b)
      BY <2>1, <1>4
  <2>. QED BY <2>1, <2>2
<1> QED BY <1>4, <1>5, <1>6, <1>7

\* Among finitely many amounts there is a least and a greatest one.
LEMMA Extremes ==
    ASSUME NEW S, IsFiniteSet(S), S # {}, NEW v \in [S -> Amounts]
    PROVE  /\ \E x \in S : \A y \in S : ~ Less(v[y], v[x])
           /\ \E x \in S : \A y \in S : ~ Less(v[x], v[y])
<1> DEFINE Below == [x \in S |-> {y \in S : Less(v[y], v[x])}]
           Above == [x \in S |-> {y \in S : Less(v[x], v[y])}]
<1>1. \A T \in SUBSET S : IsFiniteSet(T) /\ Cardinality(T) \in Nat
    BY FS_Subset, FS_CardinalityType
<1>2. ASSUME NEW X \in [S -> SUBSET S],
             \A x \in S : \A y \in X[x] : X[y] \subseteq X[x] /\ y \notin X[y]
      PROVE  \E x \in S : X[x] = {}
  <2> DEFINE N == {Cardinality(X[x]) : x \in S}
  <2>1. N \in SUBSET Nat /\ N # {}
      BY <1>1, <1>2
  <2>2. PICK m \in N : \A n \in N : m <= n
      BY <2>1, LeastNatural
  <2>3. PICK x \in S : m = Cardinality(X[x])
      BY <2>2
  <2>4. SUFFICES ASSUME NEW y \in X[x] PROVE FALSE
      BY <2>3
  <2>5. y \in S /\ X[y] \in SUBSET X[x] /\ X[y] # X[x]
      BY <1>2, <2>4
  <2>6. IsFiniteSet(X[x]) /\ Cardinality(X[x]) \in Nat /\ Cardinality(X[y]) \in Nat
      BY <1>1, <1>2, <2>5
  <2>7. Cardinality(X[y]) <= Cardinality(X[x]) /\ Cardinality(X[x]) # Cardinality(X[y])
      BY <2>5, <2>6, FS_Subset
  <2>8. Cardinality(X[y]) \in N
      BY <2>5
  <2>9. m <= Cardinality(X[y])
      BY <2>8, <2>2
  <2>. QED BY <2>3, <2>6, <2>7, <2>9
<1>3. \A x \in S : v[x] \in Amounts
    OBVIOUS
<1>4. \E x \in S : Below[x] = {}
  <2>1. Below \in [S -> SUBSET S]
      OBVIOUS
  <2>2. \A x \in S : \A y \in Below[x] : Below[y] \subseteq Below[x] /\ y \notin Below[y]
    <3>1. ASSUME NEW x \in S, NEW y \in Below[x], NEW z \in Below[y] PROVE z \in Below[x]
      <4>1. Less(v[z], v[y]) /\ Less(v[y], v[x]) /\ z \in S /\ y \in S
          BY <3>1
      <4>2. ~ Less(v[x], v[y])
          BY <4>1, <1>3, LessIsTransitive
      <4>3. Less(v[z], v[x])
          BY <4>1, <4>2, <1>3, LessIsTransitive
      <4>. QED BY <4>1, <4>3
    <3>2. \A y \in S : y \notin Below[y]
        BY <1>3, LessIsTransitive
    <3> HIDE DEF Below
    <3>. QED BY <3>1, <3>2, <2>1
  <2> HIDE DEF Below
  <2>. QED BY <2>1, <2>2, <1>2
<1>5. \E x \in S : Above[x] = {}
  <2>1. Above \in [S -> SUBSET S]
      OBVIOUS
  <2>2. \A x \in S : \A y \in Above[x] : Above[y] \subseteq Above[x] /\ y \notin Above[y]
    <3>1. ASSUME NEW x \in S, NEW y \in Above[x], NEW z \in Above[y] PROVE z \in Above[x]
      <4>1. Less(v[y], v[z]) /\ Less(v[x], v[y]) /\ z \in S /\ y \in S
          BY <3>1
      <4>2. ~ Less(v[z], v[y])
          BY <4>1, <1>3, LessIsTransitive
      <4>3. Less(v[x], v[z])
          BY <4>1, <4>2, <1>3, LessIsTransitive
      <4>. QED BY <4>1, <4>3
    <3>2. \A y \in S : y \notin Above[y]
        BY <1>3, LessIsTransitive
    <3> HIDE DEF Above
    <3>. QED BY <3>1, <3>2, <2>1
  <2> HIDE DEF Above
  <2>. QED BY <2>1, <2>2, <1>2
<1>6. PICK x \in S : Below[x] = {}
    BY <1>4
<1>7. PICK x2 \in S : Above[x2] = {}
    BY <1>5
<1>8. \A y \in S : ~ Less(v[y], v[x])
    BY <1>6
<1>9. \A y \in S : ~ Less(v[x2], v[y])
    BY <1>7
<1> QED BY <1>8, <1>9

-----------------------------------------------------------------------------
(* The arithmetic of a cut *)

\* v is c * (n / d), for n / d = K / L, if it is computed as (K * c) / L.
LEMMA ShareOfCost ==
    ASSUME NEW c1 \in Nat, NEW c2 \in Nat \ {0}, NEW k1 \in Nat, NEW k2 \in Nat \ {0},
           NEW l1 \in Nat \ {0}, NEW l2 \in Nat \ {0},
           NEW t1 \in Nat, NEW t2 \in Nat \ {0}, NEW v1 \in Nat, NEW v2 \in Nat \ {0},
           t1 * (k2 * c2) = (k1 * c1) * t2, v1 * (t2 * l1) = (t1 * l2) * v2
    PROVE  v1 * (c2 * (k2 * l1)) = (c1 * (k1 * l2)) * v2
<1>1. (v1 * (t2 * l1)) * (k2 * c2) = ((t1 * l2) * v2) * (k2 * c2)
    OBVIOUS
<1>2. ((t1 * l2) * v2) * (k2 * c2) = (t1 * (k2 * c2)) * (l2 * v2)
    OBVIOUS
<1>3. (t1 * (k2 * c2)) * (l2 * v2) = ((k1 * c1) * t2) * (l2 * v2)
    OBVIOUS
<1>4. (v1 * (c2 * (k2 * l1))) * t2 = (v1 * (t2 * l1)) * (k2 * c2)
    OBVIOUS
<1>5. ((c1 * (k1 * l2)) * v2) * t2 = ((k1 * c1) * t2) * (l2 * v2)
    OBVIOUS
<1>6. (v1 * (c2 * (k2 * l1))) * t2 = ((c1 * (k1 * l2)) * v2) * t2
    BY <1>1, <1>2, <1>3, <1>4, <1>5
<1>7. v1 * (c2 * (k2 * l1)) \in Int /\ (c1 * (k1 * l2)) * v2 \in Int
    OBVIOUS
<1> QED BY <1>6, <1>7, ProductsCancel

\* A share is not more than the cost, and what is left is the other share.
LEMMA ShareIsLess ==
    ASSUME NEW c1 \in Nat, NEW c2 \in Nat \ {0}, NEW v1 \in Nat, NEW v2 \in Nat \ {0},
           NEW n \in Nat, NEW d \in Nat \ {0}, n <= d, v1 * (c2 * d) = (c1 * n) * v2
    PROVE  v1 * c2 <= c1 * v2
<1>1. (v1 * c2) * d = (c1 * v2) * n
    OBVIOUS
<1>2. c1 * v2 \in Nat /\ v1 * c2 \in Nat /\ (c1 * v2) * n <= (c1 * v2) * d
    BY ProductsArePositive, ProductsGrow
<1>3. (v1 * c2) * d <= (c1 * v2) * d
    BY <1>1, <1>2
<1> QED BY <1>2, <1>3, ProductsCancel

\* A cost that loses n of d parts is left with d - n of them.
LEMMA RestOfCost ==
    ASSUME NEW c1 \in Nat, NEW c2 \in Nat \ {0}, NEW v1 \in Nat, NEW v2 \in Nat \ {0},
           NEW n \in Nat, NEW d \in Nat \ {0}, n <= d, v1 * (c2 * d) = (c1 * n) * v2,
           NEW m1 \in Nat, NEW m2 \in Nat, m1 * (c2 * v2) = (c1 * v2 - v1 * c2) * m2
    PROVE  m1 * (c2 * d) = (c1 * (d - n)) * m2
<1>1. (m1 * (c2 * d)) * v2 = (m1 * (c2 * v2)) * d
    OBVIOUS
<1>2. ((c1 * v2 - v1 * c2) * m2) * d = (c1 * v2 * d - v1 * (c2 * d)) * m2
    OBVIOUS
<1>3. (c1 * v2 * d - v1 * (c2 * d)) * m2 = (c1 * v2 * d - (c1 * n) * v2) * m2
    OBVIOUS
<1>4. (c1 * v2 * d - (c1 * n) * v2) * m2 = ((c1 * (d - n)) * m2) * v2
    OBVIOUS
<1>5. (m1 * (c2 * v2)) * d = ((c1 * v2 - v1 * c2) * m2) * d
    OBVIOUS
<1>6. (m1 * (c2 * d)) * v2 = ((c1 * (d - n)) * m2) * v2
    BY <1>1, <1>2, <1>3, <1>4, <1>5
<1>7. m1 * (c2 * d) \in Int /\ (c1 * (d - n)) * m2 \in Int
    OBVIOUS
<1> QED BY <1>6, <1>7, ProductsCancel

\* Less than a limit, it stays so.
LEMMA RestFits ==
    ASSUME NEW c1 \in Nat, NEW c2 \in Nat \ {0}, NEW n \in Nat, NEW d \in Nat \ {0}, n <= d,
           NEW m1 \in Nat, NEW m2 \in Nat \ {0}, m1 * (c2 * d) = (c1 * (d - n)) * m2,
           NEW b \in Nat, NEW M \in Nat \ {0}, NEW k \in Nat, c1 * M <= b * c2
    PROVE  m1 * ((d * k) * M) <= (b * (k * (d - n))) * m2
<1>1. (m1 * ((d * k) * M)) * c2 = (m1 * (c2 * d)) * (k * M)
    OBVIOUS
<1>2. ((c1 * (d - n)) * m2) * (k * M) = (c1 * M) * ((d - n) * (m2 * k))
    OBVIOUS
<1>3. d - n \in Nat
    OBVIOUS
<1>4. (d - n) * (m2 * k) \in Nat
    BY <1>3, ProductsArePositive
<1>5. c1 * M \in Nat /\ b * c2 \in Nat
    BY ProductsArePositive
<1>6. (c1 * M) * ((d - n) * (m2 * k)) <= (b * c2) * ((d - n) * (m2 * k))
    BY <1>4, <1>5, ProductsGrow
<1>7. (b * c2) * ((d - n) * (m2 * k)) = ((b * (k * (d - n))) * m2) * c2
    OBVIOUS
<1>8. (m1 * (c2 * d)) * (k * M) = ((c1 * (d - n)) * m2) * (k * M)
    OBVIOUS
<1>9. m1 * ((d * k) * M) \in Int /\ (b * (k * (d - n))) * m2 \in Int
    OBVIOUS
<1>10. (m1 * ((d * k) * M)) * c2 <= ((b * (k * (d - n))) * m2) * c2
  <2> DEFINE A == (m1 * ((d * k) * M)) * c2
             B == (c1 * M) * ((d - n) * (m2 * k))
             C == (b * c2) * ((d - n) * (m2 * k))
             D == ((b * (k * (d - n))) * m2) * c2
  <2>1. A = B /\ B <= C /\ C = D
      BY <1>1, <1>2, <1>6, <1>7, <1>8
  <2> HIDE DEF A, B, C, D
  <2>2. A <= D
      BY <2>1
  <2>. QED BY <2>2 DEF A, D
<1> QED BY <1>9, <1>10, ProductsCancel

\* The cost of a cut, added to the total and to what bounds it.
LEMMA TotalFits ==
    ASSUME NEW t1 \in Nat, NEW t2 \in Nat \ {0}, NEW k1 \in Nat, NEW k2 \in Nat \ {0},
           NEW s1 \in Nat, NEW s2 \in Nat \ {0}, s1 * (t2 * k2) = (t1 * k2 + k1 * t2) * s2,
           NEW M \in Nat \ {0}, NEW j \in Nat, NEW b \in Int, t1 * M <= b * t2
    PROVE  s1 * ((k2 * j) * M) <= ((k2 * j) * b + (M * k1) * j) * s2
<1>1. (s1 * ((k2 * j) * M)) * t2 = (s1 * (t2 * k2)) * (j * M)
    OBVIOUS
<1>2. (s1 * (t2 * k2)) * (j * M) = ((t1 * k2 + k1 * t2) * s2) * (j * M)
    OBVIOUS
<1>3. ((t1 * k2 + k1 * t2) * s2) * (j * M) = (t1 * M) * ((k2 * s2) * j) + (k1 * t2) * (s2 * (j * M))
    OBVIOUS
<1>4. (k2 * s2) * j \in Nat /\ t1 * M \in Int /\ b * t2 \in Int
    BY ProductsArePositive, ProductsAssociate
<1>5. (t1 * M) * ((k2 * s2) * j) <= (b * t2) * ((k2 * s2) * j)
    BY <1>4, ProductsGrow
<1>6. (b * t2) * ((k2 * s2) * j) + (k1 * t2) * (s2 * (j * M)) = (((k2 * j) * b + (M * k1) * j) * s2) * t2
    OBVIOUS
<1>7. s1 * ((k2 * j) * M) \in Int /\ ((k2 * j) * b + (M * k1) * j) * s2 \in Int
    OBVIOUS
<1>8. (s1 * ((k2 * j) * M)) * t2 <= (((k2 * j) * b + (M * k1) * j) * s2) * t2
  <2> DEFINE A == (s1 * ((k2 * j) * M)) * t2
             B == (t1 * M) * ((k2 * s2) * j)
             C == (b * t2) * ((k2 * s2) * j)
             D == (k1 * t2) * (s2 * (j * M))
             E == (((k2 * j) * b + (M * k1) * j) * s2) * t2
  <2>1. A = B + D /\ B <= C /\ C + D = E
      BY <1>1, <1>2, <1>3, <1>5, <1>6
  <2>2. A \in Int /\ B \in Int /\ C \in Int /\ D \in Int /\ E \in Int
      OBVIOUS
  <2> HIDE DEF A, B, C, D, E
  <2>3. A <= E
      BY <2>1, <2>2
  <2>. QED BY <2>3 DEF A, E
<1> QED BY <1>7, <1>8, ProductsCancel

\* A step of length x towards a condition of distance d that an edge of cost e = m * c
\* reaches, where l <= e is the cheapest edge of its operator, moves the potential by no
\* more than what the cut takes from the operator.
LEMMA StepIsPaid ==
    ASSUME NEW c1 \in Nat, NEW c2 \in Nat \ {0}, NEW e1 \in Nat, NEW e2 \in Nat \ {0},
           NEW m1 \in Nat \ {0}, NEW m2 \in Nat \ {0}, e1 * (m2 * c2) = (m1 * c1) * e2,
           NEW l1 \in Nat \ {0}, NEW l2 \in Nat \ {0}, l1 * e2 <= e1 * l2,
           NEW k1 \in Nat, NEW k2 \in Nat \ {0},
           NEW b \in Nat, NEW M \in Nat \ {0}, c1 * M <= b * c2,
           NEW j \in Nat, NEW i \in Nat, (k2 * l1) * i = k2 * j,
           NEW x \in Nat, NEW d \in Nat, m1 * x <= m2 * d,
           NEW w \in Nat, w * d = (M * k1) * j
    PROVE  w * x <= b * (i * (k1 * l2))
<1>1. j = i * l1
  <2>1. j * k2 = (i * l1) * k2 /\ i * l1 \in Int
      OBVIOUS
  <2>. QED BY <2>1, ProductsCancel
<1>2. l1 * (m2 * c2) <= (m1 * c1) * l2
  <2>1. m2 * c2 \in Nat /\ l1 * e2 \in Int /\ e1 * l2 \in Int
      BY ProductsArePositive
  <2>2. (l1 * e2) * (m2 * c2) <= (e1 * l2) * (m2 * c2)
      BY <2>1, ProductsGrow
  <2>3. /\ (l1 * e2) * (m2 * c2) = (l1 * (m2 * c2)) * e2
        /\ (e1 * l2) * (m2 * c2) = (e1 * (m2 * c2)) * l2
        /\ ((m1 * c1) * e2) * l2 = ((m1 * c1) * l2) * e2
      OBVIOUS
  <2>4. (e1 * (m2 * c2)) * l2 = ((m1 * c1) * e2) * l2
      OBVIOUS
  <2>5. l1 * (m2 * c2) \in Int /\ (m1 * c1) * l2 \in Int
      OBVIOUS
  <2> DEFINE A == l1 * (m2 * c2)
             B == (m1 * c1) * l2
  <2>6. A * e2 <= B * e2
      BY <2>2, <2>3, <2>4
  <2>. QED BY <2>5, <2>6, ProductsCancel
<1>3. (M * l1) * m2 <= (b * l2) * m1
  <2>1. M * (l1 * (m2 * c2)) <= M * ((m1 * c1) * l2)
    <3>1. l1 * (m2 * c2) \in Int /\ (m1 * c1) * l2 \in Int
        OBVIOUS
    <3>. QED BY <3>1, <1>2, ProductsGrow
  <2>2. (c1 * M) * (m1 * l2) <= (b * c2) * (m1 * l2)
    <3>1. c1 * M \in Int /\ b * c2 \in Int /\ m1 * l2 \in Nat
        BY ProductsArePositive
    <3>. QED BY <3>1, ProductsGrow
  <2>3. /\ M * (l1 * (m2 * c2)) = ((M * l1) * m2) * c2
        /\ M * ((m1 * c1) * l2) = (c1 * M) * (m1 * l2)
        /\ (b * c2) * (m1 * l2) = ((b * l2) * m1) * c2
      OBVIOUS
  <2>4. (M * l1) * m2 \in Int /\ (b * l2) * m1 \in Int /\ (c1 * M) * (m1 * l2) \in Int
      OBVIOUS
  <2> DEFINE A == (M * l1) * m2
             B == (b * l2) * m1
             C == (c1 * M) * (m1 * l2)
  <2>5. A * c2 <= C /\ C <= B * c2
      BY <2>1, <2>2, <2>3
  <2>6. A \in Int /\ B \in Int /\ C \in Int /\ A * c2 \in Int /\ B * c2 \in Int
      BY <2>4
  <2> HIDE DEF A, B, C
  <2>7. A * c2 <= B * c2
      BY <2>5, <2>6
  <2>8. A <= B
      BY <2>6, <2>7, ProductsCancel
  <2>. QED BY <2>8 DEF A, B
<1>4. (w * x) * m1 <= (b * (i * (k1 * l2))) * m1
  <2>1. w * (m1 * x) <= w * (m2 * d)
    <3>1. m1 * x \in Int /\ m2 * d \in Int
        OBVIOUS
    <3>. QED BY <3>1, ProductsGrow
  <2>2. w * (m2 * d) = (w * d) * m2 /\ (w * d) * m2 = ((M * k1) * j) * m2
      OBVIOUS
  <2>3. ((M * k1) * j) * m2 = ((M * l1) * m2) * (k1 * i)
      BY <1>1
  <2>4. ((M * l1) * m2) * (k1 * i) <= ((b * l2) * m1) * (k1 * i)
    <3>1. (M * l1) * m2 \in Int /\ (b * l2) * m1 \in Int /\ k1 * i \in Nat
        BY ProductsArePositive
    <3>. QED BY <3>1, <1>3, ProductsGrow
  <2>5. ((b * l2) * m1) * (k1 * i) = (b * (i * (k1 * l2))) * m1 /\ w * (m1 * x) = (w * x) * m1
      OBVIOUS
  <2> DEFINE A == w * (m1 * x)
             B == w * (m2 * d)
             C == ((M * l1) * m2) * (k1 * i)
             D == ((b * l2) * m1) * (k1 * i)
  <2>6. A <= B /\ B = C /\ C <= D
      BY <2>1, <2>2, <2>3, <2>4
  <2>7. A \in Int /\ B \in Int /\ C \in Int /\ D \in Int
      OBVIOUS
  <2>8. (w * x) * m1 = A /\ (b * (i * (k1 * l2))) * m1 = D
      BY <2>5
  <2> HIDE DEF A, B, C, D
  <2>. QED BY <2>6, <2>7, <2>8
<1>5. w * x \in Int /\ b * (i * (k1 * l2)) \in Int
    OBVIOUS
<1> QED BY <1>4, <1>5, ProductsCancel

-----------------------------------------------------------------------------
(* The relaxed task *)

\* The images of a finite set are finitely many.
LEMMA Images ==
    ASSUME NEW S, IsFiniteSet(S), NEW f, DOMAIN f = S
    PROVE  IsFiniteSet({f[x] : x \in S})
<1> DEFINE T == {f[x] : x \in S}
           h == [x \in S |-> f[x]]
<1>1. h \in Surjection(S, T)
    BY DEF Surjection
<1> QED BY <1>1, FS_Surjection

\* What an evaluation is given does not change.
GivenInv ==
    /\ task \in Tasks
    /\ relaxed = RelaxedTask(task)
    /\ propositions = Mentioned(relaxed)
    /\ net = [r \in Ids |-> [p \in {p \in relaxed[r].effects : IsCondition(p)} |->
                 Net(task, relaxed[r].origin, p[2])]]
    /\ states = StatesOf(task)

\* What is known of every relaxed operator.
IsRelaxedOperator(r) ==
    /\ relaxed[r].pre \in SUBSET propositions /\ IsFiniteSet(relaxed[r].pre) /\ relaxed[r].pre # {}
    /\ relaxed[r].effects \in SUBSET propositions
    /\ relaxed[r].cost \in Nat
    /\ \/ relaxed[r].origin = NoOrigin /\ relaxed[r].cost = 0
       \/ /\ relaxed[r].origin \in DOMAIN task.operators \ {NoOrigin}
          /\ relaxed[r].cost = task.costs[relaxed[r].origin]
    /\ \A p \in relaxed[r].effects : IsCondition(p) =>
           net[r][p] \in Int /\ net[r][p] = Net(task, relaxed[r].origin, p[2])
ReachesGoal(r) == r \in Ids /\ relaxed[r] = GoalOperator(task)

\* The relaxed operators of a proper task, and what they mention.
LEMMA RelaxedFacts ==
    ASSUME GivenInv, \A t \in Tasks : IsProper(t, StatesOf(t))
    PROVE  /\ Len(relaxed) \in Nat /\ Ids = 1..Len(relaxed)
           /\ \A r \in Ids : IsRelaxedOperator(r)
           /\ IsFiniteSet(propositions) /\ End \in propositions /\ IsFiniteSet(Ids)
           /\ \E r \in Ids : ReachesGoal(r)
           /\ \A p \in propositions, s \in states : IsCondition(p) => Need(p, s) \in Int
<1>1. IsProper(task, states) /\ task \in Tasks /\ relaxed = RelaxedTask(task) /\ propositions = Mentioned(relaxed)
    BY DEF GivenInv
<1> DEFINE R == RelaxedTask(task)
<1>2. /\ NoOrigin \notin DOMAIN task.operators
      /\ relaxed \in Seq(Range(relaxed)) /\ GoalOperator(task) \in Range(relaxed)
      /\ \A r \in Range(relaxed) :
               /\ \/ r.origin = NoOrigin /\ r.cost = 0
                  \/ r.origin \in DOMAIN task.operators /\ r.cost = task.costs[r.origin]
               /\ r.pre # {} /\ IsFiniteSet(r.pre) /\ IsFiniteSet(r.effects)
               /\ \A p \in r.effects : IsCondition(p) => Net(task, r.origin, p[2]) \in Int
      /\ \A p \in Mentioned(relaxed) : \A s \in states : IsCondition(p) => Need(p, s) \in Int
    BY <1>1 DEF IsProper
<1>3. Len(relaxed) \in Nat /\ Ids = 1..Len(relaxed)
    BY <1>2 DEF Ids
<1>4. \A r \in Ids : relaxed[r] \in Range(relaxed)
    BY DEF Ids, Range
<1>5. IsFiniteSet(Ids)
    BY <1>3, FS_Interval
<1>6. Range(relaxed) = {relaxed[r] : r \in Ids}
    BY DEF Ids, Range
<1>7. IsFiniteSet(Range(relaxed))
    BY <1>5, <1>6, Images DEF Ids
<1> DEFINE U == {r.pre \cup r.effects : r \in Range(relaxed)}
<1>8. propositions = {Start, End} \cup UNION U
    BY <1>1 DEF Mentioned
<1>9. IsFiniteSet(propositions)
  <2>1. IsFiniteSet(U)
    <3> DEFINE f == [r \in Range(relaxed) |-> r.pre \cup r.effects]
    <3>1. DOMAIN f = Range(relaxed) /\ U = {f[r] : r \in Range(relaxed)}
        OBVIOUS
    <3> HIDE DEF f, U
    <3>. QED BY <3>1, <1>7, Images
  <2>2. \A T \in U : IsFiniteSet(T)
      BY <1>2, FS_Union
  <2>3. IsFiniteSet(UNION U)
    <3> HIDE DEF U
    <3>. QED BY <2>1, <2>2, FS_UNION
  <2>4. IsFiniteSet({Start, End})
    <3>1. {Start, End} = {Start} \cup {End} /\ IsFiniteSet({Start})
        BY FS_Singleton
    <3>. QED BY <3>1, FS_AddElement
  <2>. QED BY <1>8, <2>3, <2>4, FS_Union
<1>10. ASSUME NEW r \in Ids PROVE IsRelaxedOperator(r)
  <2>1. relaxed[r] \in Range(relaxed)
      BY <1>4
  <2>2. relaxed[r].pre \cup relaxed[r].effects \in U
      BY <2>1
  <2>3. relaxed[r].pre \in SUBSET propositions /\ relaxed[r].effects \in SUBSET propositions
      BY <2>2, <1>8
  <2>4. task.costs \in [DOMAIN task.operators -> Nat]
      BY <1>1, TasksAssumption DEF IsTask
  <2>5. \/ relaxed[r].origin = NoOrigin /\ relaxed[r].cost = 0
        \/ /\ relaxed[r].origin \in DOMAIN task.operators \ {NoOrigin}
           /\ relaxed[r].cost = task.costs[relaxed[r].origin]
      BY <2>1, <1>2
  <2>6. relaxed[r].cost \in Nat
      BY <2>4, <2>5
  <2>7. ASSUME NEW p \in relaxed[r].effects, IsCondition(p)
        PROVE  net[r][p] \in Int /\ net[r][p] = Net(task, relaxed[r].origin, p[2])
    <3>1. net[r][p] = Net(task, relaxed[r].origin, p[2])
        BY <2>7 DEF GivenInv
    <3>. QED BY <3>1, <2>7, <2>1, <1>2
  <2>8. IsFiniteSet(relaxed[r].pre) /\ relaxed[r].pre # {}
      BY <2>1, <1>2
  <2>. QED BY <2>3, <2>5, <2>6, <2>7, <2>8 DEF IsRelaxedOperator
<1>11. \E r \in Ids : ReachesGoal(r)
    BY <1>2, <1>6 DEF ReachesGoal
<1> QED BY <1>1, <1>2, <1>3, <1>5, <1>8, <1>9, <1>10, <1>11

\* The operator that reaches the goal costs nothing and reaches nothing else.
LEMMA GoalFacts ==
    ASSUME NEW r, ReachesGoal(r)
    PROVE  /\ relaxed[r].origin = NoOrigin /\ relaxed[r].effects = {End}
           /\ relaxed[r].pre = GoalOperator(task).pre /\ relaxed[r].pre # {}
           /\ relaxed[r].cost = 0 /\ ~ relaxed[r].infinite
<1>1. relaxed[r] = Relaxed(task, NoOrigin, OrStart(Preconditions(task, task.goals, GoalGroups(task))), {End}, FALSE)
    BY DEF ReachesGoal, GoalOperator
<1>2. \A S : OrStart(S) # {}
    BY DEF OrStart
<1>3. relaxed[r].pre = GoalOperator(task).pre
    BY DEF ReachesGoal
<1> HIDE DEF ReachesGoal
<1>4. relaxed[r].pre = OrStart(Preconditions(task, task.goals, GoalGroups(task)))
    BY <1>1 DEF Relaxed
<1> QED BY <1>1, <1>2, <1>3, <1>4 DEF Relaxed

\* The goal holds nowhere, and is no condition.
LEMMA SpecialPropositions ==
    /\ ~ IsCondition(End) /\ End # Start
    /\ \A s : ~ IsTrue(task, End, s)
<1>1. ~ IsCondition(End) /\ End # Start
    BY DEF IsCondition, End, Start
<1> QED BY <1>1 DEF IsTrue

\* How often an operator is applied: once, as often as a condition is far, or never.
Multiplied(r, p, multiplied) == multiplied /\ IsCondition(p) /\ ~ relaxed[r].infinite

\* How often an operator is applied is an amount: 0 where it does not lead.
LEMMA MultiplierFacts ==
    ASSUME GivenInv, \A t \in Tasks : IsProper(t, StatesOf(t)), state \in states,
           NEW r \in Ids, NEW p \in relaxed[r].effects, NEW multiplied
    PROVE  LET m == Multiplier(r, p, multiplied) IN
           /\ m \in Amounts
           /\ ~ Multiplied(r, p, multiplied) => m = <<1, 1>>
           /\ Multiplied(r, p, multiplied) =>
                  /\ net[r][p] \in Int /\ Need(p, state) \in Int
                  /\ m # Zero <=> net[r][p] > 0 /\ Need(p, state) > 0
                  /\ m # Zero /\ m # <<1, 1>> => Is(m, Need(p, state), net[r][p])
<1> DEFINE m == Multiplier(r, p, multiplied)
           adds == net[r][p]
           need == Need(p, state)
<1>1. IsRelaxedOperator(r) /\ p \in propositions
    BY RelaxedFacts DEF IsRelaxedOperator
<1>2. IsCondition(p) => adds \in Int /\ need \in Int
    BY <1>1, RelaxedFacts DEF IsRelaxedOperator
<1>3. CASE ~ Multiplied(r, p, multiplied)
  <2>1. m = <<1, 1>>
      BY <1>3 DEF Multiplier, Multiplied
  <2>. QED BY <2>1, <1>3, SpecialAmounts
<1>4. CASE Multiplied(r, p, multiplied)
  <2>1. m = IF adds <= 0 \/ need <= 0 THEN Zero
            ELSE IF options.ceiling /\ need < adds THEN <<1, 1>> ELSE Fraction(need, adds)
      BY <1>4 DEF Multiplier, Multiplied
  <2>2. adds \in Int /\ need \in Int
      BY <1>2, <1>4 DEF Multiplied
  <2> HIDE DEF m, adds, need
  <2>3. CASE adds <= 0 \/ need <= 0
    <3>1. m = Zero /\ ~ (adds > 0 /\ need > 0)
        BY <2>1, <2>2, <2>3
    <3>. QED BY <3>1, <2>2, <1>4, SpecialAmounts DEF m, adds, need
  <2>4. CASE ~ (adds <= 0 \/ need <= 0)
    <3>1. adds \in Nat \ {0} /\ need \in Nat \ {0} /\ adds > 0 /\ need > 0
        BY <2>2, <2>4
    <3>2. Is(Fraction(need, adds), need, adds)
        BY <3>1, FractionFacts
    <3>3. Fraction(need, adds) \in Amounts /\ Fraction(need, adds) # Zero
      <4> DEFINE x == Fraction(need, adds)
      <4>1. x \in Amounts /\ x[1] * adds = need * x[2]
          BY <3>2 DEF Is
      <4>2. x[1] \in Nat /\ x[2] \in Nat /\ x[2] # 0 /\ (x[1] = 0 <=> x = Zero)
          BY <4>1, AmountFacts
      <4> HIDE DEF x
      <4>3. need * x[2] # 0
          BY <3>1, <4>2, ProductsArePositive
      <4>4. x[1] # 0
          BY <4>1, <4>3, <3>1
      <4>. QED BY <4>1, <4>2, <4>4 DEF x
    <3>4. <<1, 1>> # Zero
        BY DEF Zero
    <3>5. m \in Amounts /\ m # Zero /\ (m # <<1, 1>> => Is(m, need, adds))
        BY <2>1, <2>4, <3>2, <3>3, <3>4, SpecialAmounts
    <3>. QED BY <3>5, <3>1, <2>2, <1>4 DEF m, adds, need
  <2>. QED BY <2>3, <2>4
<1> QED BY <1>3, <1>4

-----------------------------------------------------------------------------
(* Explorations *)

\* Values of the propositions, Infinity where they are not reached.
IsHMax(h) == h \in [propositions -> Values]
\* What is reached stays reached, what holds stays at 0.
Improves(h, next) ==
    /\ IsHMax(next)
    /\ \A p \in propositions : (h[p] # Infinity => next[p] # Infinity) /\ (h[p] = Zero => next[p] = Zero)
\* The propositions an operator leads to are reached.
IsReached(h, r) ==
    \A p \in relaxed[r].effects : Less(Zero, Multiplier(r, p, ~ options.irmax)) => h[p] # Infinity

\* Nothing is reached that was not.
Keeps(h, next) == \A p \in propositions : h[p] = Infinity => next[p] = Infinity

\* Explorations improve step by step.
LEMMA ImprovesIsTransitive ==
    ASSUME NEW h1, NEW h2, NEW h3, Improves(h1, h2), Improves(h2, h3)
    PROVE  Improves(h1, h3) /\ (Keeps(h1, h2) /\ Keeps(h2, h3) => Keeps(h1, h3))
BY DEF Improves, Keeps

\* What an operator leads to stays reached.
LEMMA ReachedStays ==
    ASSUME NEW h, NEW next, Improves(h, next), NEW r, IsRelaxedOperator(r), IsReached(h, r)
    PROVE  IsReached(next, r)
BY DEF Improves, IsReached, IsRelaxedOperator

\* update_queue reaches what the operator leads to, and nothing it did not reach before if
\* it has been applied.
LEMMA ImproveFacts ==
    ASSUME GivenInv, ProperTasks, state \in states,
           NEW h, IsHMax(h), NEW c \in [Ids -> Amounts], NEW r \in Ids,
           NEW from \in propositions, h[from] # Infinity
    PROVE  /\ Improves(h, Improve(h, c, r, from))
           /\ IsReached(Improve(h, c, r, from), r)
           /\ IsReached(h, r) => Keeps(h, Improve(h, c, r, from))
           /\ ReachesGoal(r) /\ h[from] = Zero /\ c[r] = Zero => Improve(h, c, r, from)[End] = Zero
<1> DEFINE times(p) == Multiplier(r, p, ~ options.irmax)
           open == {p \in relaxed[r].effects : Less(Zero, times(p))}
           new(p) == Plus(h[from], Times(times(p), c[r]))
           next == [p \in DOMAIN h |-> IF p \in open /\ Less(new(p), h[p]) THEN new(p) ELSE h[p]]
<1>1. Improve(h, c, r, from) = next
    BY DEF Improve
<1>2. DOMAIN h = propositions /\ \A p \in propositions : h[p] \in Values
    BY DEF IsHMax
<1>3. IsRelaxedOperator(r)
    BY RelaxedFacts DEF ProperTasks
<1>4. \A p \in open : times(p) \in Amounts /\ p \in propositions
    BY <1>3, MultiplierFacts DEF ProperTasks, IsRelaxedOperator
<1>5. h[from] \in Amounts /\ c[r] \in Amounts
    BY <1>2 DEF Values
<1>6. \A p \in open : new(p) \in Amounts
    BY <1>4, <1>5, OperationsAreAmounts
<1>7. ASSUME NEW p \in open PROVE Less(new(p), Infinity) /\ ~ Less(new(p), Zero) /\ new(p) \in Values /\ new(p) # Infinity
    BY <1>6, AmountFacts DEF Values
<1> HIDE DEF new, times
<1>8. Improves(h, next)
  <2>1. ASSUME NEW p \in propositions
        PROVE  /\ next[p] \in Values
               /\ h[p] # Infinity => next[p] # Infinity
               /\ h[p] = Zero => next[p] = Zero
      BY <1>2, <1>7
  <2>2. next \in [propositions -> Values]
      BY <2>1, <1>2
  <2>. QED BY <2>1, <2>2 DEF Improves, IsHMax
<1>9. IsReached(next, r)
  <2>1. ASSUME NEW p \in open PROVE next[p] # Infinity
      BY <1>2, <1>4, <1>7
  <2>. QED BY <2>1 DEF IsReached, times
<1>10. ASSUME ReachesGoal(r), h[from] = Zero, c[r] = Zero PROVE next[End] = Zero
  <2>1. End \in relaxed[r].effects /\ times(End) = <<1, 1>>
      BY <1>10, GoalFacts, SpecialPropositions, MultiplierFacts DEF times, Multiplied, ProperTasks
  <2>2. End \in open
    <3>1. <<1, 1>> # Zero
        BY DEF Zero
    <3>. QED BY <2>1, <3>1, SpecialAmounts, AmountFacts
  <2>3. new(End) = Zero
      BY <2>1, <1>10, SpecialAmounts, ZeroOperations DEF new
  <2>4. End \in propositions /\ h[End] \in Values
      BY <2>2, <1>4, <1>2
  <2>5. h[End] # Zero => Less(Zero, h[End])
    <3>1. Less(Zero, Infinity)
        BY SpecialAmounts, AmountFacts
    <3>. QED BY <2>4, <3>1, AmountFacts DEF Values
  <2>. QED BY <2>2, <2>3, <2>4, <2>5, <1>2
<1>11. IsReached(h, r) => Keeps(h, next)
    BY <1>2 DEF IsReached, Keeps, times
<1> QED BY <1>1, <1>8, <1>9, <1>10, <1>11

\* A function on 0..n can be defined by its first value and by each value from the one before.
IsBoundedRun(f, a, step, S, N) ==
    /\ f \in [0..N -> S]
    /\ \A k \in 0..N : f[k] = IF k = 0 THEN a ELSE step[<<k - 1, f[k - 1]>>]

\* A function on 0..N is defined by its first value and by each value from the one before.
LEMMA BoundedRecursion ==
    ASSUME NEW N \in Nat, NEW S, NEW a, a \in S, NEW step, IsStep(step, S)
    PROVE  \E f : IsBoundedRun(f, a, step, S, N)
<1>1. PICK f : IsRun(f, a, step, S)
    BY Recursion
<1>2. f \in [Nat -> S] /\ f[0] = a /\ \A n \in Nat : f[n + 1] = step[<<n, f[n]>>]
    BY <1>1 DEF IsRun
<1> DEFINE g == [k \in 0..N |-> f[k]]
<1>3. g \in [0..N -> S]
    BY <1>2
<1>4. ASSUME NEW k \in 0..N PROVE g[k] = IF k = 0 THEN a ELSE step[<<k - 1, g[k - 1]>>]
  <2>1. CASE k = 0
      BY <1>2, <2>1
  <2>2. CASE k # 0
    <3>1. k - 1 \in Nat /\ k - 1 \in 0..N /\ (k - 1) + 1 = k
        BY <2>2
    <3>2. f[(k - 1) + 1] = step[<<k - 1, f[k - 1]>>]
        BY <3>1, <1>2
    <3>. QED BY <3>1, <3>2, <2>2
  <2>. QED BY <2>1, <2>2
<1> HIDE DEF g
<1> QED BY <1>3, <1>4 DEF IsBoundedRun

\* What holds at first and is kept step by step holds throughout.
LEMMA RecursionStays ==
    ASSUME NEW N \in Nat, NEW m \in 0..N, NEW S, NEW F, F[m] \in S,
           \A k \in (m + 1)..N : F[k - 1] \in S => F[k] \in S
    PROVE  \A n \in m..N : F[n] \in S
<1> DEFINE T == {k \in Nat : m + k <= N => F[m + k] \in S}
<1>1. 0 \in T
    OBVIOUS
<1>2. ASSUME NEW k \in Nat, k \in T PROVE k + 1 \in T
  <2>1. SUFFICES ASSUME m + (k + 1) <= N PROVE F[m + (k + 1)] \in S
      OBVIOUS
  <2>2. m + (k + 1) \in (m + 1)..N /\ (m + (k + 1)) - 1 = m + k /\ m + k <= N
      BY <2>1
  <2>. QED BY <2>2, <1>2
<1>3. \A n \in Nat : n \in T
  <2> HIDE DEF T
  <2>. QED BY <1>1, <1>2, Counting
<1>4. ASSUME NEW n \in m..N PROVE F[n] \in S
  <2>1. n - m \in Nat /\ m + (n - m) = n
      OBVIOUS
  <2>2. n - m \in T
      BY <2>1, <1>3
  <2>. QED BY <2>1, <2>2
<1> QED BY <1>4

\* The values while the operators of a set are applied in turn.
IsImproveRun(F, h, c, R, from) ==
    /\ F[0] = h
    /\ \A k \in 1..Len(relaxed) :
           F[k] = IF k \in R THEN Improve(F[k - 1], c, k, from[k]) ELSE F[k - 1]
    /\ \A k \in 0..Len(relaxed) : Improves(h, F[k])
    /\ ImproveAll(h, c, R, from) = F[Len(relaxed)]

\* The operators of a set are applied in turn, and values only improve.
LEMMA ImproveAllRuns ==
    ASSUME GivenInv, ProperTasks, state \in states,
           NEW h, IsHMax(h), NEW c \in [Ids -> Amounts], NEW R \in SUBSET Ids, NEW from,
           \A r \in R : from[r] \in propositions /\ h[from[r]] # Infinity
    PROVE  \E F : IsImproveRun(F, h, c, R, from)
<1> DEFINE N == Len(relaxed)
           IsAfter(f) == f = [r \in 0..N |->
                                 IF r = 0 THEN h
                                 ELSE IF r \in R THEN Improve(f[r - 1], c, r, from[r]) ELSE f[r - 1]]
           S == {x \in [propositions -> Values] : Improves(h, x)}
           step == [e \in Nat \X S |-> IF e[1] + 1 \in R THEN Improve(e[2], c, e[1] + 1, from[e[1] + 1]) ELSE e[2]]
           F == CHOOSE f : IsAfter(f)
<1>1. N \in Nat
    BY RelaxedFacts DEF ProperTasks
<1> HIDE DEF N
<1>2. h \in S
    BY DEF IsHMax, Improves
<1>3. ASSUME NEW x \in S, NEW r \in R PROVE Improve(x, c, r, from[r]) \in S
  <2> DEFINE y == Improve(x, c, r, from[r])
  <2>1. Improves(h, x) /\ IsHMax(x)
      BY <1>3 DEF IsHMax
  <2>2. r \in Ids /\ from[r] \in propositions /\ x[from[r]] # Infinity
      BY <2>1 DEF Improves
  <2>3. Improves(x, y)
      BY <2>1, <2>2, ImproveFacts
  <2>4. Improves(h, y) /\ y \in [propositions -> Values]
      BY <2>1, <2>3, ImprovesIsTransitive DEF Improves, IsHMax
  <2>. QED BY <2>4 DEF y
<1> HIDE DEF S
<1>4. IsStep(step, S)
    BY <1>3 DEF IsStep
<1>5. \E f : IsAfter(f)
  <2>4. PICK f : IsBoundedRun(f, h, step, S, N)
    <3> HIDE DEF step
    <3>. QED BY <1>1, <1>2, <1>4, BoundedRecursion
  <2>1. f \in [0..N -> S] /\ \A k \in 0..N : f[k] = IF k = 0 THEN h ELSE step[<<k - 1, f[k - 1]>>]
    <3> HIDE DEF step
    <3>. QED BY <2>4 DEF IsBoundedRun
  <2>2. ASSUME NEW k \in 0..N
        PROVE  f[k] = IF k = 0 THEN h ELSE IF k \in R THEN Improve(f[k - 1], c, k, from[k]) ELSE f[k - 1]
    <3>1. CASE k = 0
        BY <2>1, <3>1
    <3>2. CASE k # 0
      <4>4. k - 1 \in Nat /\ k - 1 \in 0..N /\ (k - 1) + 1 = k
          BY <3>2, <1>1
      <4>1. k - 1 \in Nat /\ k - 1 \in 0..N /\ (k - 1) + 1 = k /\ f[k - 1] \in S
          BY <4>4, <2>1
      <4>2. f[k] = step[<<k - 1, f[k - 1]>>]
          BY <2>1, <3>2
      <4>3. <<k - 1, f[k - 1]>> \in Nat \X S
          BY <4>1
      <4>. QED BY <4>1, <4>2, <4>3, <3>2
    <3>. QED BY <3>1, <3>2
  <2>3. f = [k \in 0..N |-> IF k = 0 THEN h ELSE IF k \in R THEN Improve(f[k - 1], c, k, from[k]) ELSE f[k - 1]]
      BY <2>1, <2>2
  <2>. QED BY <2>3
<1>7. IsAfter(F)
  <2> HIDE DEF IsAfter
  <2>. QED BY <1>5
<1>8. ImproveAll(h, c, R, from) = F[N]
    BY DEF ImproveAll, N
<1> HIDE DEF F, step
<1>9. F[0] = h
    BY <1>7, <1>1
<1>10. ASSUME NEW k \in 1..N PROVE F[k] = IF k \in R THEN Improve(F[k - 1], c, k, from[k]) ELSE F[k - 1]
  <2>1. k \in 0..N /\ k # 0
      BY <1>1
  <2>. QED BY <2>1, <1>7
<1>11. \A k \in 0..N : F[k] \in S
  <2>1. F[0] \in S /\ 0 \in 0..N
      BY <1>1, <1>2, <1>9
  <2>2. \A k \in (0 + 1)..N : F[k - 1] \in S => F[k] \in S
      BY <1>3, <1>10
  <2>. QED BY <1>1, <2>1, <2>2, RecursionStays
<1> QED BY <1>8, <1>9, <1>10, <1>11 DEF S, N, IsImproveRun

\* Nor do the operators of a set, when they are applied in turn.
LEMMA ImproveAllFacts ==
    ASSUME GivenInv, ProperTasks, state \in states,
           NEW h, IsHMax(h), NEW c \in [Ids -> Amounts], NEW R \in SUBSET Ids, NEW from,
           \A r \in R : from[r] \in propositions /\ h[from[r]] # Infinity
    PROVE  /\ Improves(h, ImproveAll(h, c, R, from))
           /\ \A r \in R : IsReached(ImproveAll(h, c, R, from), r)
           /\ (\A r \in R : IsReached(h, r)) => Keeps(h, ImproveAll(h, c, R, from))
           /\ \A r \in R : ReachesGoal(r) /\ h[from[r]] = Zero /\ c[r] = Zero
                  => ImproveAll(h, c, R, from)[End] = Zero
<1> DEFINE N == Len(relaxed)
           Known == \A r \in R : IsReached(h, r)
           S == {x \in [propositions -> Values] : Improves(h, x) /\ (Known => Keeps(h, x))}
<1>1. N \in Nat /\ Ids = 1..N /\ \A r \in Ids : IsRelaxedOperator(r)
    BY RelaxedFacts DEF ProperTasks
<1>4. PICK F : /\ F[0] = h
               /\ \A k \in 1..N : F[k] = IF k \in R THEN Improve(F[k - 1], c, k, from[k]) ELSE F[k - 1]
               /\ ImproveAll(h, c, R, from) = F[N]
  <2>1. \E F : IsImproveRun(F, h, c, R, from)
      BY ImproveAllRuns
  <2>. QED BY <2>1 DEF IsImproveRun
<1> HIDE DEF N
<1>2. h \in S
    BY DEF IsHMax, Improves, Keeps
<1>3. ASSUME NEW x \in S, NEW r \in R
      PROVE  /\ Improve(x, c, r, from[r]) \in S
             /\ Improves(x, Improve(x, c, r, from[r]))
             /\ IsReached(Improve(x, c, r, from[r]), r)
             /\ ReachesGoal(r) /\ h[from[r]] = Zero /\ c[r] = Zero => Improve(x, c, r, from[r])[End] = Zero
  <2> DEFINE y == Improve(x, c, r, from[r])
  <2>1. Improves(h, x) /\ IsHMax(x)
      BY <1>3 DEF IsHMax
  <2>2. r \in Ids /\ from[r] \in propositions /\ x[from[r]] # Infinity /\ (h[from[r]] = Zero => x[from[r]] = Zero)
      BY <2>1 DEF Improves
  <2>3. Improves(x, y) /\ IsReached(y, r) /\ (IsReached(x, r) => Keeps(x, y))
        /\ (ReachesGoal(r) /\ x[from[r]] = Zero /\ c[r] = Zero => y[End] = Zero)
      BY <2>1, <2>2, ImproveFacts
  <2>4. Improves(h, y) /\ y \in [propositions -> Values]
      BY <2>1, <2>3, ImprovesIsTransitive DEF Improves, IsHMax
  <2> HIDE DEF y
  <2>6. Known => Keeps(h, y)
    <3>1. SUFFICES ASSUME Known PROVE Keeps(h, y)
        OBVIOUS
    <3>2. IsReached(h, r) /\ Keeps(h, x)
        BY <3>1, <1>3
    <3>3. IsReached(x, r)
        BY <3>2, <2>1, <1>1, <2>2, ReachedStays
    <3>. QED BY <3>2, <3>3, <2>1, <2>3, ImprovesIsTransitive
  <2>5. y \in S
      BY <2>4, <2>6
  <2>. QED BY <2>2, <2>3, <2>5 DEF y
<1> HIDE DEF S
<1>9. ASSUME NEW k \in Nat, k + 1 <= N
      PROVE  F[k + 1] = IF k + 1 \in R THEN Improve(F[k], c, k + 1, from[k + 1]) ELSE F[k]
  <2>1. k + 1 \in 1..N /\ (k + 1) - 1 = k
      BY <1>9, <1>1
  <2>. QED BY <2>1, <1>4
<1> DEFINE Goal(r) == ReachesGoal(r) /\ h[from[r]] = Zero /\ c[r] = Zero
           Right(k) == /\ F[k] \in S
                       /\ \A r \in R : r <= k => IsReached(F[k], r) /\ (Goal(r) => F[k][End] = Zero)
           T == {k \in Nat : k <= N => Right(k)}
<1>10. 0 \in T
  <2>1. \A r \in R : ~ (r <= 0)
      BY <1>1
  <2>. QED BY <2>1, <1>2, <1>4
<1>11. ASSUME NEW k \in Nat, k \in T PROVE k + 1 \in T
  <2>1. SUFFICES ASSUME k + 1 <= N PROVE Right(k + 1)
      OBVIOUS
  <2>2. Right(k) /\ F[k] \in S
      BY <1>11, <2>1, <1>1
  <2>3. \A r \in R : r <= k + 1 => r <= k \/ r = k + 1
      BY <1>1
  <2>4. End \in propositions
      BY RelaxedFacts DEF ProperTasks
  <2>5. CASE k + 1 \in R
    <3> DEFINE r == k + 1
               y == Improve(F[k], c, r, from[r])
    <3>1. r \in R /\ F[k + 1] = y
        BY <2>5, <1>9, <2>1
    <3> HIDE DEF r
    <3>2. y \in S /\ Improves(F[k], y) /\ IsReached(y, r) /\ (Goal(r) => y[End] = Zero)
        BY <3>1, <2>2, <1>3
    <3> HIDE DEF y, Goal
    <3>3. \A q \in R : q <= k => IsReached(y, q) /\ (Goal(q) => y[End] = Zero)
      <4>1. \A q \in R : IsRelaxedOperator(q)
          BY <1>1
      <4>2. F[k][End] = Zero => y[End] = Zero
          BY <3>2, <2>4 DEF Improves
      <4>. QED BY <4>1, <4>2, <2>2, <3>2, ReachedStays
    <3>. QED BY <3>1, <3>2, <3>3, <2>3 DEF r
  <2>6. CASE k + 1 \notin R
    <3>1. F[k + 1] = F[k]
        BY <2>6, <1>9, <2>1
    <3> HIDE DEF Goal
    <3>. QED BY <3>1, <2>2, <2>3, <2>6
  <2>. QED BY <2>5, <2>6
<1>12. Right(N)
  <2>1. \A n \in Nat : n \in T
    <3> HIDE DEF T
    <3>. QED BY <1>10, <1>11, Counting
  <2>2. N <= N
      BY <1>1
  <2>. QED BY <2>1, <2>2, <1>1
<1>13. \A r \in R : r <= N
    BY <1>1
<1> QED BY <1>4, <1>12, <1>13 DEF S

\* The values while the operators of a cut's origins are applied, in the order of these.
IsTurn(F, h, c, R, order) ==
    /\ F[0] = h
    /\ \A k \in 1..Len(order) : F[k] = ImproveAll(F[k - 1], c, R \cap OfOrigins({order[k]}), supporter)
    /\ \A k \in 0..Len(order) : Improves(h, F[k]) /\ Keeps(h, F[k])
    /\ ImproveInTurn(h, c, R, order) = F[Len(order)]

\* The same for these.
LEMMA ImproveInTurnRuns ==
    ASSUME GivenInv, ProperTasks, state \in states,
           NEW h, IsHMax(h), NEW c \in [Ids -> Amounts], NEW R \in SUBSET Ids,
           \A r \in R : supporter[r] \in propositions /\ h[supporter[r]] # Infinity /\ IsReached(h, r),
           NEW order, Len(order) \in Nat
    PROVE  \E F : IsTurn(F, h, c, R, order)
<1> DEFINE N == Len(order)
           Q(k) == R \cap OfOrigins({order[k]})
           IsAfter(f) == f = [k \in 0..Len(order) |->
                                 IF k = 0 THEN h ELSE ImproveAll(f[k - 1], c, Q(k), supporter)]
           S == {x \in [propositions -> Values] : Improves(h, x) /\ Keeps(h, x)}
           step == [e \in Nat \X S |-> ImproveAll(e[2], c, Q(e[1] + 1), supporter)]
           F == CHOOSE f : IsAfter(f)
<1>1. N \in Nat /\ \A r \in Ids : IsRelaxedOperator(r)
    BY RelaxedFacts DEF ProperTasks
<1>2. h \in S
    BY DEF IsHMax, Improves, Keeps
<1>3. ASSUME NEW x \in S, NEW k PROVE ImproveAll(x, c, Q(k), supporter) \in S
  <2> DEFINE y == ImproveAll(x, c, Q(k), supporter)
  <2>1. Improves(h, x) /\ Keeps(h, x) /\ IsHMax(x)
      BY <1>3 DEF IsHMax
  <2>2. Q(k) \in SUBSET Ids
      OBVIOUS
  <2>3. \A r \in Q(k) : supporter[r] \in propositions /\ x[supporter[r]] # Infinity
      BY <2>1 DEF Improves
  <2>4. \A r \in Q(k) : IsReached(x, r)
    <3>1. ASSUME NEW r \in Q(k) PROVE IsReached(x, r)
      <4>1. r \in Ids /\ IsReached(h, r)
          OBVIOUS
      <4>. QED BY <4>1, <1>1, <2>1, ReachedStays
    <3>. QED BY <3>1
  <2> HIDE DEF Q
  <2>5. Improves(x, y) /\ Keeps(x, y)
      BY <2>1, <2>2, <2>3, <2>4, ImproveAllFacts
  <2> HIDE DEF y
  <2>6. Improves(h, y) /\ Keeps(h, y)
      BY <2>1, <2>5, ImprovesIsTransitive
  <2>7. y \in [propositions -> Values]
      BY <2>5 DEF Improves, IsHMax
  <2>. QED BY <2>6, <2>7 DEF y
<1> HIDE DEF S, Q
<1>4. IsStep(step, S)
    BY <1>3 DEF IsStep
<1>5. \E f : IsAfter(f)
  <2>1. PICK f : IsBoundedRun(f, h, step, S, N)
    <3> HIDE DEF step, N
    <3>. QED BY <1>1, <1>2, <1>4, BoundedRecursion
  <2>2. f \in [0..N -> S] /\ \A k \in 0..N : f[k] = IF k = 0 THEN h ELSE step[<<k - 1, f[k - 1]>>]
    <3> HIDE DEF step
    <3>. QED BY <2>1 DEF IsBoundedRun
  <2> HIDE DEF N
  <2>3. ASSUME NEW k \in 0..N
        PROVE  f[k] = IF k = 0 THEN h ELSE ImproveAll(f[k - 1], c, Q(k), supporter)
    <3>1. CASE k = 0
        BY <2>2, <3>1
    <3>2. CASE k # 0
      <4>4. k - 1 \in Nat /\ k - 1 \in 0..N /\ (k - 1) + 1 = k
          BY <3>2, <1>1
      <4>1. f[k - 1] \in S
          BY <4>4, <2>2
      <4>2. f[k] = step[<<k - 1, f[k - 1]>>]
          BY <2>2, <3>2
      <4>3. <<k - 1, f[k - 1]>> \in Nat \X S
          BY <4>1, <4>4
      <4>. QED BY <4>1, <4>2, <4>3, <4>4, <3>2
    <3>. QED BY <3>1, <3>2
  <2>4. f = [k \in 0..N |-> IF k = 0 THEN h ELSE ImproveAll(f[k - 1], c, Q(k), supporter)]
      BY <2>2, <2>3
  <2>. QED BY <2>4 DEF N
<1>6. IsAfter(F)
  <2> HIDE DEF IsAfter
  <2>. QED BY <1>5
<1>7. ImproveInTurn(h, c, R, order) = F[N]
    BY DEF ImproveInTurn, Q
<1> HIDE DEF F, step
<1>8. F[0] \in S
    BY <1>1, <1>2, <1>6
<1>9. ASSUME NEW k \in 1..N PROVE F[k] = ImproveAll(F[k - 1], c, Q(k), supporter)
  <2>1. k \in 0..N /\ k # 0
      BY <1>1
  <2>. QED BY <2>1, <1>6
<1>10. \A k \in 0..N : F[k] \in S
  <2> HIDE DEF N
  <2>1. 0 \in 0..N /\ \A k \in (0 + 1)..N : F[k - 1] \in S => F[k] \in S
      BY <1>1, <1>3, <1>9
  <2>. QED BY <1>1, <1>8, <2>1, RecursionStays
<1>11. F[0] = h
    BY <1>1, <1>6
<1> QED BY <1>7, <1>9, <1>10, <1>11 DEF S, Q, IsTurn

\* Nor do they reach anything new.
LEMMA ImproveInTurnFacts ==
    ASSUME GivenInv, ProperTasks, state \in states,
           NEW h, IsHMax(h), NEW c \in [Ids -> Amounts], NEW R \in SUBSET Ids,
           \A r \in R : supporter[r] \in propositions /\ h[supporter[r]] # Infinity /\ IsReached(h, r),
           NEW order, Len(order) \in Nat
    PROVE  Improves(h, ImproveInTurn(h, c, R, order)) /\ Keeps(h, ImproveInTurn(h, c, R, order))
<1>1. PICK F : IsTurn(F, h, c, R, order)
    BY ImproveInTurnRuns
<1>2. Len(order) \in 0..Len(order)
    OBVIOUS
<1> QED BY <1>1, <1>2 DEF IsTurn

\* What is known of a relaxed operator that has been reached.
IsSupported(h, support, r) ==
    relaxed[r].pre # {} /\ counter[r] = 0 =>
        /\ support[r] \in relaxed[r].pre
        /\ h[support[r]] # Infinity
        /\ IsReached(h, r)
        /\ ReachesGoal(r) /\ support[r] \in Initially => h[End] = Zero
AreSupported(h, support) == \A r \in Ids : IsSupported(h, support, r)

\* An exploration that was updated.
Updates == [supporter : [Ids -> propositions \cup {Nothing}], supporterCost : [Ids -> Values],
            h : [propositions -> Values]]
IsUpdate(x) ==
    /\ x \in Updates
    /\ Improves(hMax, x.h) /\ Keeps(hMax, x.h)
    /\ AreSupported(x.h, x.supporter)

\* No operator costs more than at first.
CostsFit ==
    /\ cost \in [Ids -> Amounts]
    /\ \A r \in Ids : cost[r][1] <= relaxed[r].cost * cost[r][2]

\* No cut takes from the operator that reaches the goal, which costs nothing.
LEMMA GoalIsFree ==
    ASSUME CostsFit, NEW r, ReachesGoal(r)
    PROVE  cost[r] = Zero
<1>1. r \in Ids /\ relaxed[r].cost = 0
    BY GoalFacts DEF ReachesGoal
<1>2. cost[r] \in Amounts /\ cost[r][1] <= 0 * cost[r][2]
    BY <1>1 DEF CostsFit
<1>3. cost[r][1] \in Nat /\ cost[r][2] \in Nat /\ (cost[r][1] = 0 <=> cost[r] = Zero)
    BY <1>2, AmountFacts
<1> QED BY <1>2, <1>3

\* A supporter that is replaced is replaced by a precondition that is reached.
LEMMA SupportedFacts ==
    ASSUME GivenInv, ProperTasks, state \in states, CostsFit, IsHMax(hMax),
           \A q \in Initially : hMax[q] = Zero,
           NEW x, IsUpdate(x), NEW r \in Ids, NEW p \in relaxed[r].pre
    PROVE  IsUpdate(Supported(x, r, p))
<1> DEFINE y == Supported(x, r, p)
           dearer == {q \in relaxed[r].pre : Less(x.h[p], x.h[q])}
           new == IF dearer = {} THEN p ELSE CHOOSE q \in dearer : \A q2 \in dearer : ~ Less(x.h[q], x.h[q2])
           same == \/ x.supporter[r] # p
                   \/ ~ Less(x.h[p], x.supporterCost[r])
                   \/ counter[r] # 0
                   \/ \E q \in relaxed[r].pre : x.h[q] = Infinity
           better == IF x.h[new] = x.supporterCost[r] THEN x.h ELSE Improve(x.h, cost, r, new)
<1>1. y = IF same THEN x
          ELSE [supporter |-> [x.supporter EXCEPT ![r] = new],
                supporterCost |-> [x.supporterCost EXCEPT ![r] = x.h[new]],
                h |-> better]
    BY DEF Supported
<1>2. /\ IsRelaxedOperator(r) /\ relaxed[r].pre \in SUBSET propositions /\ IsFiniteSet(relaxed[r].pre)
      /\ relaxed[r].pre # {} /\ \A q \in Ids : IsRelaxedOperator(q)
    BY RelaxedFacts DEF ProperTasks, IsRelaxedOperator
<1>3. /\ x \in Updates /\ Improves(hMax, x.h) /\ Keeps(hMax, x.h) /\ AreSupported(x.h, x.supporter)
      /\ IsHMax(x.h) /\ x.h \in [propositions -> Values]
    BY DEF IsUpdate, Improves, IsHMax
<1>4. CASE same
    BY <1>1, <1>4
<1>5. CASE ~ same
  <2>1. /\ x.supporter[r] = p /\ Less(x.h[p], x.supporterCost[r]) /\ counter[r] = 0
        /\ \A q \in relaxed[r].pre : x.h[q] \in Amounts
      BY <1>5, <1>2, <1>3 DEF Values
  <2>2. new \in relaxed[r].pre
    <3>1. CASE dearer = {}
        BY <3>1
    <3>2. CASE dearer # {}
      <4> DEFINE v == [q \in dearer |-> x.h[q]]
      <4>1. IsFiniteSet(dearer) /\ v \in [dearer -> Amounts]
          BY <1>2, <2>1, FS_Subset
      <4>2. \E q \in dearer : \A q2 \in dearer : ~ Less(v[q], v[q2])
        <5> HIDE DEF v, dearer
        <5>. QED BY <4>1, <3>2, Extremes
      <4>3. \E q \in dearer : \A q2 \in dearer : ~ Less(x.h[q], x.h[q2])
          BY <4>2
      <4> HIDE DEF v
      <4>4. new \in dearer
        <5> HIDE DEF dearer
        <5>. QED BY <4>3, <3>2
      <4>. QED BY <4>4
    <3>. QED BY <3>1, <3>2
  <2> HIDE DEF new, dearer, same
  <2>3. new \in propositions /\ x.h[new] \in Amounts /\ x.h[new] # Infinity
      BY <2>1, <2>2, <1>2, AmountFacts
  <2>4. IsReached(x.h, r)
      BY <1>3, <1>2, <2>1 DEF AreSupported, IsSupported
  <2>5. /\ Improves(x.h, Improve(x.h, cost, r, new)) /\ Keeps(x.h, Improve(x.h, cost, r, new))
        /\ ReachesGoal(r) /\ x.h[new] = Zero /\ cost[r] = Zero => Improve(x.h, cost, r, new)[End] = Zero
      BY <1>3, <2>3, <2>4, ImproveFacts DEF CostsFit
  <2>6. Improves(x.h, better) /\ Keeps(x.h, better)
    <3>1. Improves(x.h, x.h) /\ Keeps(x.h, x.h)
        BY <1>3 DEF Improves, Keeps
    <3>. QED BY <2>5, <3>1
  <2>7. ReachesGoal(r) /\ new \in Initially => better[End] = Zero
    <3>1. SUFFICES ASSUME ReachesGoal(r), new \in Initially PROVE better[End] = Zero
        OBVIOUS
    <3>2. x.h[new] = Zero
        BY <3>1, <1>3, <2>3 DEF Improves
    <3>3. x.supporterCost[r] # Zero
        BY <2>1, AmountFacts
    <3>4. cost[r] = Zero
        BY <3>1, GoalIsFree
    <3>. QED BY <3>1, <3>2, <3>3, <3>4, <2>5
  <2> HIDE DEF better
  <2>8. Improves(hMax, better) /\ Keeps(hMax, better) /\ better \in [propositions -> Values]
      BY <1>3, <2>6, ImprovesIsTransitive DEF Improves, IsHMax
  <2>9. /\ y.h = better /\ y.supporter = [x.supporter EXCEPT ![r] = new]
        /\ y = [supporter |-> [x.supporter EXCEPT ![r] = new],
                supporterCost |-> [x.supporterCost EXCEPT ![r] = x.h[new]], h |-> better]
      BY <1>1, <1>5
  <2>10. /\ x.supporter \in [Ids -> propositions \cup {Nothing}]
         /\ x.supporterCost \in [Ids -> Values]
      BY <1>3 DEF Updates
  <2>11. y \in Updates
      BY <2>3, <2>8, <2>9, <2>10 DEF Updates, Values
  <2> HIDE DEF y
  <2>12. ASSUME NEW q \in Ids PROVE IsSupported(y.h, y.supporter, q)
    <3>1. CASE q = r
      <4>1. y.supporter[r] = new
          BY <2>9, <2>10
      <4>2. IsReached(better, r) /\ better[new] # Infinity
          BY <1>2, <2>3, <2>4, <2>6, ReachedStays DEF Improves
      <4>. QED BY <3>1, <4>1, <4>2, <2>2, <2>7, <2>9 DEF IsSupported
    <3>2. CASE q # r
      <4>1. y.supporter[q] = x.supporter[q]
          BY <2>9, <2>10, <3>2
      <4>2. SUFFICES ASSUME relaxed[q].pre # {}, counter[q] = 0
                     PROVE  /\ x.supporter[q] \in relaxed[q].pre
                            /\ better[x.supporter[q]] # Infinity
                            /\ IsReached(better, q)
                            /\ ReachesGoal(q) /\ x.supporter[q] \in Initially => better[End] = Zero
          BY <4>1, <2>9 DEF IsSupported
      <4>3. /\ x.supporter[q] \in relaxed[q].pre
            /\ x.h[x.supporter[q]] # Infinity
            /\ IsReached(x.h, q)
            /\ ReachesGoal(q) /\ x.supporter[q] \in Initially => x.h[End] = Zero
          BY <4>2, <1>3 DEF AreSupported, IsSupported
      <4>4. x.supporter[q] \in propositions /\ IsRelaxedOperator(q) /\ End \in propositions
          BY <4>3, <1>2, RelaxedFacts DEF IsRelaxedOperator, ProperTasks
      <4>. QED BY <4>3, <4>4, <2>6, ReachedStays DEF Improves
    <3>. QED BY <3>1, <3>2
  <2>13. IsUpdate(y)
      BY <2>8, <2>9, <2>11, <2>12 DEF IsUpdate, AreSupported
  <2>. QED BY <2>13 DEF y
<1> QED BY <1>4, <1>5

-----------------------------------------------------------------------------
(* The invariant of an evaluation *)

\* The preconditions of a relaxed operator that it may still wait for.
Pending(h, waiting, r) == {q \in relaxed[r].pre : h[q] = Infinity \/ q \in waiting}
\* What a first exploration has not popped yet.
Waiting == IF phase = "exploring" THEN queue ELSE {}

\* What an evaluation leaves for the next one.
ResetInv ==
    /\ touched \subseteq Ids
    /\ \A r \in Ids \ touched : counter[r] = Cardinality(relaxed[r].pre)
    /\ supporter \in [Ids -> propositions \cup {Nothing}]
    /\ supporterCost \in [Ids -> Values]
    /\ CostsFit

\* What an evaluation knows of the state: an operator's counter is at most the number of its
\* preconditions that are still to be popped, and operators at 0 have been applied.
ExplorationInv ==
    /\ state \in states
    /\ IsHMax(hMax)
    /\ \A q \in Initially : hMax[q] = Zero
    /\ counter \in [Ids -> Nat]
    /\ AreSupported(hMax, supporter)
    /\ queue \subseteq propositions /\ \A q \in queue : hMax[q] # Infinity
    /\ \A r \in Ids : counter[r] <= Cardinality(Pending(hMax, Waiting, r))
    /\ total \in Amounts

IsEvaluating == phase \in {"exploring", "updating"}
EvaluationInv ==
    /\ GivenInv
    /\ phase \in {"idle", "exploring", "updating", "failed"}
    /\ phase # "failed" => ResetInv
    /\ IsEvaluating => ExplorationInv

SameGiven == UNCHANGED <<task, options, relaxed, propositions, net, states>>
SameState == UNCHANGED <<task, options, relaxed, propositions, net, states, state>>

\* What is given stays, and so does what is defined by it.
LEMMA GivenStays ==
    ASSUME GivenInv, SameGiven
    PROVE  GivenInv'
BY DEF GivenInv, SameGiven, Ids

\* A supported operator after a step, in terms of the state before it.
LEMMA SupportedThen ==
    ASSUME SameState, NEW h, NEW support, NEW r, h = hMax', support = supporter'
    PROVE  IsSupported(hMax, supporter, r)' <=>
               (relaxed[r].pre # {} /\ counter'[r] = 0 =>
                   /\ support[r] \in relaxed[r].pre
                   /\ h[support[r]] # Infinity
                   /\ IsReached(h, r)
                   /\ ReachesGoal(r) /\ support[r] \in Initially => h[End] = Zero)
<1>1. IsReached(hMax, r)' <=> IsReached(h, r)
    BY DEF SameState, IsReached, Multiplier
<1>2. ReachesGoal(r)' <=> ReachesGoal(r)
    BY DEF SameState, ReachesGoal, Ids
<1>3. Initially' = Initially
    BY DEF SameState, Initially
<1>4. relaxed' = relaxed
    BY DEF SameState
<1> QED BY <1>1, <1>2, <1>3, <1>4 DEF IsSupported

\* The sets that are defined by what is given stay.
LEMMA SetsStay ==
    ASSUME SameGiven
    PROVE  /\ Ids' = Ids
           /\ \A h, w, r : Pending(h, w, r)' = Pending(h, w, r) /\ IsHMax(h)' = IsHMax(h)
BY DEF SameGiven, Ids, Pending, IsHMax

\* What is newly reached is queued.
LEMMA ChangedFacts ==
    ASSUME NEW h, NEW next, IsHMax(h), Improves(h, next)
    PROVE  /\ Queued(Changed(h, next)) \subseteq propositions
           /\ \A q \in Queued(Changed(h, next)) : next[q] # Infinity
           /\ \A q \in propositions : h[q] = Infinity /\ next[q] # Infinity /\ Triggered(q) # {}
                  => q \in Queued(Changed(h, next))
<1>1. DOMAIN h = propositions
    BY DEF IsHMax
<1>2. \A q \in propositions : next[q] = Infinity => h[q] = Infinity
    BY DEF Improves
<1> QED BY <1>1, <1>2 DEF Queued, Changed

\* first_exploration keeps the invariant.
LEMMA ExploreStep ==
    ASSUME EvaluationInv, ProperTasks, Explore
    PROVE  EvaluationInv'
<1>1. /\ phase = "exploring" /\ SameState
      /\ UNCHANGED <<cost, total>>
    BY DEF Explore, given, SameState
<1>2. PICK p \in queue :
        LET ready == {r \in Triggered(p) : counter[r] = 1}
            next  == ImproveAll(hMax, cost, ready, [r \in ready |-> p])
        IN  /\ phase' = IF \E r \in Triggered(p) : counter[r] = 0 THEN "failed" ELSE phase
            /\ counter' = [r \in Ids |-> IF r \in Triggered(p) THEN counter[r] - 1 ELSE counter[r]]
            /\ supporter' = [r \in Ids |-> IF r \in ready THEN p ELSE supporter[r]]
            /\ supporterCost' = [r \in Ids |-> IF r \in ready THEN hMax[p] ELSE supporterCost[r]]
            /\ touched' = touched \cup Triggered(p)
            /\ hMax' = next
            /\ queue' = (queue \ {p}) \cup Queued(Changed(hMax, next))
    BY DEF Explore
<1> DEFINE ready == {r \in Triggered(p) : counter[r] = 1}
           next  == ImproveAll(hMax, cost, ready, [r \in ready |-> p])
<1>3. GivenInv /\ ResetInv /\ ExplorationInv /\ CostsFit
    BY <1>1 DEF EvaluationInv, IsEvaluating, ResetInv
<1>4. p \in propositions /\ hMax[p] # Infinity /\ hMax[p] \in Values /\ IsHMax(hMax) /\ state \in states
    BY <1>3 DEF ExplorationInv, IsHMax
<1>5. ready \in SUBSET Ids /\ Triggered(p) \in SUBSET Ids /\ \A r \in ready : r \in Triggered(p) /\ counter[r] = 1
    BY DEF Triggered
<1> HIDE DEF ready
<1>6. /\ Improves(hMax, next)
      /\ \A r \in ready : IsReached(next, r)
      /\ \A r \in ready : ReachesGoal(r) /\ hMax[p] = Zero /\ cost[r] = Zero => next[End] = Zero
  <2> DEFINE from == [r \in ready |-> p]
  <2>1. \A r \in ready : from[r] = p
      OBVIOUS
  <2>2. \A r \in ready : from[r] \in propositions /\ hMax[from[r]] # Infinity
      BY <2>1, <1>4
  <2>3. cost \in [Ids -> Amounts]
      BY <1>3 DEF CostsFit
  <2> HIDE DEF from
  <2>4. /\ Improves(hMax, ImproveAll(hMax, cost, ready, from))
        /\ \A r \in ready : IsReached(ImproveAll(hMax, cost, ready, from), r)
        /\ \A r \in ready : ReachesGoal(r) /\ hMax[from[r]] = Zero /\ cost[r] = Zero
               => ImproveAll(hMax, cost, ready, from)[End] = Zero
    <3>1. GivenInv /\ state \in states /\ IsHMax(hMax) /\ ready \in SUBSET Ids
        BY <1>3, <1>4, <1>5
    <3>. QED BY <3>1, <2>2, <2>3, ImproveAllFacts, ZenonT(30)
  <2>. QED BY <2>1, <2>4 DEF from
<1> HIDE DEF next
<1>7. /\ phase' = IF \E r \in Triggered(p) : counter[r] = 0 THEN "failed" ELSE phase
      /\ counter' = [r \in Ids |-> IF r \in Triggered(p) THEN counter[r] - 1 ELSE counter[r]]
      /\ supporter' = [r \in Ids |-> IF r \in ready THEN p ELSE supporter[r]]
      /\ supporterCost' = [r \in Ids |-> IF r \in ready THEN hMax[p] ELSE supporterCost[r]]
      /\ touched' = touched \cup Triggered(p)
      /\ hMax' = next
      /\ queue' = (queue \ {p}) \cup Queued(Changed(hMax, next))
    BY <1>2 DEF ready, next
<1>8. GivenInv' /\ Ids' = Ids /\ relaxed' = relaxed /\ propositions' = propositions /\ state' = state
    BY <1>1, <1>3, GivenStays, SetsStay DEF SameState, SameGiven
<1>9. ResetInv'
  <2>1. touched' \subseteq Ids /\ \A r \in Ids \ touched' : counter'[r] = Cardinality(relaxed[r].pre)
      BY <1>3, <1>5, <1>7 DEF ResetInv
  <2>2. supporter' \in [Ids -> propositions \cup {Nothing}]
      BY <1>3, <1>4, <1>7 DEF ResetInv
  <2>3. supporterCost' \in [Ids -> Values]
      BY <1>3, <1>4, <1>7 DEF ResetInv
  <2>4. CostsFit'
      BY <1>1, <1>3, <1>8 DEF CostsFit
  <2>. QED BY <1>8, <2>1, <2>2, <2>3, <2>4 DEF ResetInv
<1>10. CASE \E r \in Triggered(p) : counter[r] = 0
  <2>1. phase' = "failed"
      BY <1>7, <1>10
  <2>. QED BY <2>1, <1>8 DEF EvaluationInv, IsEvaluating
<1>11. CASE ~ \E r \in Triggered(p) : counter[r] = 0
  <2>1. phase' = "exploring" /\ counter \in [Ids -> Nat]
      BY <1>1, <1>3, <1>7, <1>11 DEF ExplorationInv
  <2>2. /\ counter' \in [Ids -> Nat]
        /\ \A r \in Triggered(p) : counter'[r] = counter[r] - 1 /\ (counter'[r] = 0 => r \in ready)
        /\ \A r \in Ids \ Triggered(p) : counter'[r] = counter[r] /\ r \notin ready
    <3>1. \A r \in Triggered(p) : counter[r] \in Nat /\ counter[r] # 0
        BY <1>5, <1>11, <2>1
    <3>2. \A r \in Triggered(p) : counter'[r] = counter[r] - 1 /\ counter'[r] \in Nat /\ (counter'[r] = 0 => counter[r] = 1)
        BY <3>1, <1>5, <1>7
    <3>3. \A r \in Ids \ Triggered(p) : counter'[r] = counter[r]
        BY <1>7
    <3>4. counter' \in [Ids -> Nat]
        BY <3>2, <3>3, <2>1, <1>7
    <3>. QED BY <3>2, <3>3, <3>4, <1>5 DEF ready
  <2>3. ASSUME NEW r \in Ids PROVE IsSupported(hMax, supporter, r)'
    <3>1. SUFFICES ASSUME relaxed[r].pre # {}, counter'[r] = 0
                   PROVE  /\ supporter'[r] \in relaxed[r].pre
                          /\ hMax'[supporter'[r]] # Infinity
                          /\ IsReached(next, r)
                          /\ ReachesGoal(r) /\ supporter'[r] \in Initially => next[End] = Zero
        BY <1>1, <1>7, SupportedThen
    <3>2. CASE r \in Triggered(p)
      <4>1. r \in ready /\ p \in relaxed[r].pre
          BY <3>1, <3>2, <2>2 DEF Triggered
      <4>2. supporter'[r] = p /\ IsReached(next, r) /\ next[p] # Infinity
          BY <4>1, <1>4, <1>6, <1>7 DEF Improves
      <4>3. ASSUME ReachesGoal(r), p \in Initially PROVE next[End] = Zero
        <5>1. hMax[p] = Zero /\ cost[r] = Zero
            BY <4>3, <1>3, GoalIsFree DEF ExplorationInv
        <5>. QED BY <5>1, <4>1, <4>3, <1>6
      <4>. QED BY <4>1, <4>2, <4>3, <1>7
    <3>3. CASE r \notin Triggered(p)
      <4>1. counter[r] = 0 /\ supporter'[r] = supporter[r]
          BY <3>1, <3>3, <2>2, <1>7
      <4>2. /\ supporter[r] \in relaxed[r].pre
            /\ hMax[supporter[r]] # Infinity
            /\ IsReached(hMax, r)
            /\ ReachesGoal(r) /\ supporter[r] \in Initially => hMax[End] = Zero
          BY <3>1, <4>1, <1>3 DEF ExplorationInv, AreSupported, IsSupported
      <4>3. supporter[r] \in propositions /\ IsRelaxedOperator(r) /\ End \in propositions
          BY <4>2, <1>3, RelaxedFacts DEF IsRelaxedOperator, ProperTasks
      <4>. QED BY <4>1, <4>2, <4>3, <1>6, <1>7, ReachedStays DEF Improves
    <3>. QED BY <3>2, <3>3
  <2>4. ASSUME NEW r \in Ids PROVE counter'[r] <= Cardinality(Pending(next, queue', r))
    <3> DEFINE P == Pending(hMax, queue, r)
               Q == Pending(next, queue', r)
    <3>1. counter[r] <= Cardinality(P) /\ counter[r] \in Nat
        BY <1>1, <1>3, <2>1 DEF ExplorationInv, Waiting
    <3>2. IsRelaxedOperator(r)
        BY <1>3, RelaxedFacts DEF ProperTasks
    <3>3. IsFiniteSet(P) /\ IsFiniteSet(Q) /\ Cardinality(P) \in Nat /\ Cardinality(Q) \in Nat
        BY <3>2, FS_Subset, FS_CardinalityType DEF Pending, IsRelaxedOperator
    <3>4. P \ {p} \subseteq Q
      <4>1. ASSUME NEW q \in relaxed[r].pre, q # p, hMax[q] = Infinity \/ q \in queue
            PROVE  next[q] = Infinity \/ q \in queue'
        <5>1. q \in propositions /\ Triggered(q) # {}
            BY <3>2 DEF IsRelaxedOperator, Triggered
        <5>. QED BY <4>1, <5>1, <1>4, <1>6, <1>7, ChangedFacts
      <4>. QED BY <4>1 DEF Pending
    <3>5. p \in P <=> r \in Triggered(p)
        BY DEF Pending, Triggered
    <3>6. Cardinality(P \ {p}) = (IF p \in P THEN Cardinality(P) - 1 ELSE Cardinality(P)) /\ Cardinality(P \ {p}) <= Cardinality(Q)
        BY <3>3, <3>4, FS_RemoveElement, FS_Subset
    <3>7. counter'[r] = IF r \in Triggered(p) THEN counter[r] - 1 ELSE counter[r]
        BY <1>7
    <3> HIDE DEF P, Q
    <3>8. counter'[r] <= Cardinality(Q)
        BY <3>1, <3>3, <3>5, <3>6, <3>7
    <3>. QED BY <3>8 DEF Q
  <2>5. Waiting' = queue'
      BY <2>1 DEF Waiting
  <2>6. /\ queue' \subseteq propositions /\ \A q \in queue' : next[q] # Infinity
        /\ \A q \in Initially : next[q] = Zero
        /\ IsHMax(next)
    <3>1. /\ queue \subseteq propositions /\ \A q \in queue : hMax[q] # Infinity
          /\ \A q \in Initially : hMax[q] = Zero /\ q \in propositions
        BY <1>3 DEF ExplorationInv, Initially
    <3>. QED BY <3>1, <1>4, <1>6, <1>7, ChangedFacts DEF Improves
  <2>7. Initially' = Initially /\ IsHMax(hMax)' /\ total' \in Amounts /\ states' = states
      BY <1>1, <1>3, <1>7, <2>6 DEF Initially, SameState, IsHMax, ExplorationInv
  <2>8. \A r \in Ids : Pending(hMax, Waiting, r)' = Pending(next, queue', r)
      BY <1>7, <1>8, <2>5 DEF Pending
  <2>9. ExplorationInv'
      BY <1>4, <1>7, <1>8, <2>2, <2>3, <2>4, <2>6, <2>7, <2>8 DEF ExplorationInv, AreSupported
  <2>. QED BY <2>1, <2>9, <1>8, <1>9 DEF EvaluationInv, IsEvaluating
<1> QED BY <1>10, <1>11

\* The updates while the operators a popped proposition triggers are updated in turn.
IsUpdateRun(F, p, x) ==
    /\ F[0] = [supporter |-> supporter, supporterCost |-> supporterCost, h |-> hMax]
    /\ \A k \in 1..Len(relaxed) :
           F[k] = IF k \in Triggered(p) THEN Supported(F[k - 1], k, p) ELSE F[k - 1]
    /\ \A k \in 0..Len(relaxed) : IsUpdate(F[k])
    /\ x = F[Len(relaxed)]

\* They are updated one by one.
LEMMA UpdateRuns ==
    ASSUME GivenInv, ProperTasks, ResetInv, ExplorationInv, NEW p \in queue,
           NEW x,
           x = LET after[r \in 0..Len(relaxed)] ==
                       IF r = 0 THEN [supporter |-> supporter, supporterCost |-> supporterCost, h |-> hMax]
                       ELSE IF r \in Triggered(p) THEN Supported(after[r - 1], r, p) ELSE after[r - 1]
               IN  after[Len(relaxed)]
    PROVE  \E F : IsUpdateRun(F, p, x)
<1> DEFINE N == Len(relaxed)
           a == [supporter |-> supporter, supporterCost |-> supporterCost, h |-> hMax]
           IsAfter(f) == f = [r \in 0..Len(relaxed) |->
                                 IF r = 0 THEN a
                                 ELSE IF r \in Triggered(p) THEN Supported(f[r - 1], r, p) ELSE f[r - 1]]
           S == {y \in Updates : IsUpdate(y)}
           step == [e \in Nat \X S |-> IF e[1] + 1 \in Triggered(p) THEN Supported(e[2], e[1] + 1, p) ELSE e[2]]
           F == CHOOSE f : IsAfter(f)
<1>1. N \in Nat /\ \A r \in Triggered(p) : r \in Ids /\ p \in relaxed[r].pre
    BY RelaxedFacts DEF ProperTasks, Triggered
<1>2. a \in S
  <2>1. a \in Updates
      BY DEF Updates, ResetInv, ExplorationInv, IsHMax
  <2>2. IsHMax(hMax) /\ AreSupported(hMax, supporter)
      BY DEF ExplorationInv
  <2>3. Improves(hMax, hMax) /\ Keeps(hMax, hMax)
      BY <2>2 DEF Improves, Keeps
  <2>. QED BY <2>1, <2>2, <2>3 DEF IsUpdate
<1>3. ASSUME NEW y \in S, NEW r \in Triggered(p) PROVE Supported(y, r, p) \in S
  <2>1. IsUpdate(y) /\ r \in Ids /\ p \in relaxed[r].pre
      BY <1>1, <1>3
  <2>2. state \in states /\ CostsFit /\ IsHMax(hMax) /\ \A q \in Initially : hMax[q] = Zero
      BY DEF ResetInv, ExplorationInv
  <2>3. IsUpdate(Supported(y, r, p))
      BY <2>1, <2>2, SupportedFacts
  <2>. QED BY <2>3 DEF IsUpdate
<1> HIDE DEF S, a
<1>4. IsStep(step, S)
    BY <1>3 DEF IsStep
<1>5. \E f : IsAfter(f)
  <2>1. PICK f : IsBoundedRun(f, a, step, S, N)
    <3> HIDE DEF step, N
    <3>. QED BY <1>1, <1>2, <1>4, BoundedRecursion
  <2>2. f \in [0..N -> S] /\ \A k \in 0..N : f[k] = IF k = 0 THEN a ELSE step[<<k - 1, f[k - 1]>>]
    <3> HIDE DEF step
    <3>. QED BY <2>1 DEF IsBoundedRun
  <2> HIDE DEF N
  <2>3. ASSUME NEW k \in 0..N
        PROVE  f[k] = IF k = 0 THEN a ELSE IF k \in Triggered(p) THEN Supported(f[k - 1], k, p) ELSE f[k - 1]
    <3>1. CASE k = 0
        BY <2>2, <3>1
    <3>2. CASE k # 0
      <4>4. k - 1 \in Nat /\ k - 1 \in 0..N /\ (k - 1) + 1 = k
          BY <3>2, <1>1
      <4>1. f[k - 1] \in S
          BY <4>4, <2>2
      <4>2. f[k] = step[<<k - 1, f[k - 1]>>]
          BY <2>2, <3>2
      <4>3. <<k - 1, f[k - 1]>> \in Nat \X S
          BY <4>1, <4>4
      <4>. QED BY <4>1, <4>2, <4>3, <4>4, <3>2
    <3>. QED BY <3>1, <3>2
  <2>4. f = [k \in 0..N |-> IF k = 0 THEN a ELSE IF k \in Triggered(p) THEN Supported(f[k - 1], k, p) ELSE f[k - 1]]
      BY <2>2, <2>3
  <2>. QED BY <2>4 DEF N
<1>6. IsAfter(F)
  <2> HIDE DEF IsAfter
  <2>. QED BY <1>5
<1>7. x = F[N]
    BY DEF a
<1> HIDE DEF F, step
<1>8. F[0] \in S
    BY <1>1, <1>2, <1>6
<1>9. ASSUME NEW k \in 1..N PROVE F[k] = IF k \in Triggered(p) THEN Supported(F[k - 1], k, p) ELSE F[k - 1]
  <2>1. k \in 0..N /\ k # 0
      BY <1>1
  <2>. QED BY <2>1, <1>6
<1>10. \A k \in 0..N : F[k] \in S
  <2> HIDE DEF N
  <2>1. 0 \in 0..N /\ \A k \in (0 + 1)..N : F[k - 1] \in S => F[k] \in S
      BY <1>1, <1>3, <1>9
  <2>. QED BY <1>1, <1>8, <2>1, RecursionStays
<1>11. F[0] = a
    BY <1>1, <1>6
<1> QED BY <1>7, <1>9, <1>10, <1>11 DEF S, a, IsUpdateRun

\* The result is an updated exploration.
LEMMA UpdateFacts ==
    ASSUME GivenInv, NEW p \in queue, NEW x, NEW F, IsUpdateRun(F, p, x), ProperTasks
    PROVE  IsUpdate(x)
<1>1. Len(relaxed) \in 0..Len(relaxed)
    BY RelaxedFacts DEF ProperTasks
<1> QED BY <1>1 DEF IsUpdateRun

\* Operators that had been reached stay so.
LEMMA StaySupported ==
    ASSUME GivenInv, ProperTasks, NEW h, NEW next, NEW support, AreSupported(h, support), Improves(h, next)
    PROVE  AreSupported(next, support)
<1>1. SUFFICES ASSUME NEW r \in Ids PROVE IsSupported(next, support, r)
    BY DEF AreSupported
<1>2. SUFFICES ASSUME relaxed[r].pre # {}, counter[r] = 0
               PROVE  /\ support[r] \in relaxed[r].pre
                      /\ next[support[r]] # Infinity
                      /\ IsReached(next, r)
                      /\ ReachesGoal(r) /\ support[r] \in Initially => next[End] = Zero
    BY DEF IsSupported
<1>3. /\ support[r] \in relaxed[r].pre
      /\ h[support[r]] # Infinity
      /\ IsReached(h, r)
      /\ ReachesGoal(r) /\ support[r] \in Initially => h[End] = Zero
    BY <1>2 DEF AreSupported, IsSupported
<1>4. support[r] \in propositions /\ IsRelaxedOperator(r) /\ End \in propositions
    BY <1>3, RelaxedFacts DEF IsRelaxedOperator, ProperTasks
<1> QED BY <1>3, <1>4, ReachedStays DEF Improves

\* The exploration goes on, or has begun, with values that are no worse.
LEMMA UpdatedExploration ==
    ASSUME EvaluationInv, ProperTasks, SameState, IsEvaluating, phase' = "updating", Waiting = {},
           UNCHANGED counter, total' \in Amounts,
           Improves(hMax, hMax'), Keeps(hMax, hMax'), AreSupported(hMax', supporter'),
           queue' \subseteq propositions, \A q \in queue' : hMax'[q] # Infinity
    PROVE  ExplorationInv'
<1>1. GivenInv /\ ExplorationInv
    BY DEF EvaluationInv
<1>2. Ids' = Ids /\ relaxed' = relaxed /\ propositions' = propositions /\ state' = state /\ states' = states
    BY SetsStay DEF SameState, SameGiven
<1>3. AreSupported(hMax, supporter)'
  <2> DEFINE h == hMax'
             support == supporter'
  <2>1. ASSUME NEW r \in Ids PROVE IsSupported(hMax, supporter, r)'
    <3>1. IsSupported(h, support, r)
        BY DEF AreSupported
    <3>2. h = hMax' /\ support = supporter' /\ counter'[r] = counter[r]
        OBVIOUS
    <3> HIDE DEF h, support
    <3>. QED BY <3>1, <3>2, SupportedThen DEF IsSupported
  <2>. QED BY <2>1, <1>2 DEF AreSupported
<1>4. Initially' = Initially /\ \A q \in Initially : q \in propositions /\ hMax[q] = Zero
    BY <1>1 DEF Initially, SameState, ExplorationInv
<1>5. \A q \in Initially : hMax'[q] = Zero
    BY <1>4 DEF Improves
<1>6. IsHMax(hMax)'
    BY <1>2 DEF Improves, IsHMax
<1>7. ASSUME NEW r \in Ids PROVE Pending(hMax, Waiting, r)' = Pending(hMax, Waiting, r)
  <2>1. Waiting' = {}
      BY DEF Waiting
  <2>2. \A q \in relaxed[r].pre : q \in propositions
      BY <1>1, RelaxedFacts DEF ProperTasks, IsRelaxedOperator
  <2>3. \A q \in relaxed[r].pre : hMax'[q] = Infinity <=> hMax[q] = Infinity
      BY <2>2 DEF Improves, Keeps
  <2>. QED BY <2>1, <2>3, <1>2 DEF Pending
<1>8. \A r \in Ids : counter[r] <= Cardinality(Pending(hMax, Waiting, r))
    BY <1>1 DEF ExplorationInv
<1>9. counter \in [Ids -> Nat] /\ state \in states
    BY <1>1 DEF ExplorationInv
<1> QED BY <1>2, <1>3, <1>4, <1>5, <1>6, <1>7, <1>8, <1>9 DEF ExplorationInv

\* first_exploration_incremental keeps the invariant.
LEMMA UpdateStep ==
    ASSUME EvaluationInv, ProperTasks, Update
    PROVE  EvaluationInv'
<1>1. /\ phase = "updating" /\ phase' = phase /\ SameState
      /\ UNCHANGED <<cost, total, touched, counter>>
    BY DEF Update, given, SameState
<1>2. PICK p \in queue :
        LET after[r \in 0..Len(relaxed)] ==
                IF r = 0 THEN [supporter |-> supporter, supporterCost |-> supporterCost, h |-> hMax]
                ELSE IF r \in Triggered(p) THEN Supported(after[r - 1], r, p) ELSE after[r - 1]
            x == after[Len(relaxed)]
        IN  /\ supporter' = x.supporter
            /\ supporterCost' = x.supporterCost
            /\ hMax' = x.h
            /\ queue' = (queue \ {p}) \cup Queued(Changed(hMax, x.h))
    BY DEF Update
<1> DEFINE x == LET after[r \in 0..Len(relaxed)] ==
                       IF r = 0 THEN [supporter |-> supporter, supporterCost |-> supporterCost, h |-> hMax]
                       ELSE IF r \in Triggered(p) THEN Supported(after[r - 1], r, p) ELSE after[r - 1]
                IN  after[Len(relaxed)]
<1>3. GivenInv /\ ResetInv /\ ExplorationInv /\ CostsFit
    BY <1>1 DEF EvaluationInv, IsEvaluating, ResetInv
<1>4. IsUpdate(x)
  <2> DEFINE y == x
  <2>1. y = x
      OBVIOUS
  <2> HIDE DEF y
  <2>2. \E F : IsUpdateRun(F, p, y)
      BY <1>3, <2>1, UpdateRuns
  <2>3. IsUpdate(y)
      BY <1>3, <2>2, UpdateFacts
  <2>. QED BY <2>1, <2>3
<1>5. /\ supporter' = x.supporter
      /\ supporterCost' = x.supporterCost
      /\ hMax' = x.h
      /\ queue' = (queue \ {p}) \cup Queued(Changed(hMax, x.h))
    BY <1>2
<1> HIDE DEF x
<1>6. GivenInv' /\ Ids' = Ids /\ relaxed' = relaxed /\ propositions' = propositions
    BY <1>1, <1>3, GivenStays, SetsStay DEF SameState, SameGiven
<1>7. ResetInv'
  <2>1. x \in Updates
      BY <1>4 DEF IsUpdate
  <2>2. CostsFit'
      BY <1>1, <1>3, <1>6 DEF CostsFit
  <2>. QED BY <1>1, <1>3, <1>5, <1>6, <2>1, <2>2 DEF ResetInv, Updates
<1>8. /\ Improves(hMax, hMax') /\ Keeps(hMax, hMax') /\ AreSupported(hMax', supporter')
    BY <1>4, <1>5 DEF IsUpdate
<1>9. /\ queue \subseteq propositions /\ \A q \in queue : hMax[q] # Infinity
      /\ IsHMax(hMax) /\ total \in Amounts
    BY <1>3 DEF ExplorationInv
<1>10. queue' \subseteq propositions /\ \A q \in queue' : hMax'[q] # Infinity
  <2>1. Improves(hMax, x.h)
      BY <1>4 DEF IsUpdate
  <2>. QED BY <2>1, <1>5, <1>9, ChangedFacts DEF Improves
<1>11. ExplorationInv'
    BY <1>1, <1>8, <1>9, <1>10, UpdatedExploration DEF IsEvaluating, Waiting
<1> QED BY <1>1, <1>6, <1>7, <1>11 DEF EvaluationInv, IsEvaluating

\* setup_exploration_queue makes it true, from what the last evaluation left.
LEMMA EvaluateStep ==
    ASSUME EvaluationInv, ProperTasks, Evaluate
    PROVE  EvaluationInv'
<1>1. phase = "idle" /\ SameGiven
    BY DEF Evaluate, given, SameGiven
<1>2. PICK s \in states :
        IF IsGoalState(task, s)
        THEN Answer(s, Zero) /\ UNCHANGED <<phase, state, cost, search, total, cut>>
        ELSE LET true == {p \in propositions : IsTrue(task, p, s)}
             IN  /\ phase' = "exploring"
                 /\ state' = s
                 /\ counter' = Reset(counter, [r \in Ids |-> Cardinality(relaxed[r].pre)])
                 /\ cost' = Reset(cost, [r \in Ids |-> <<relaxed[r].cost, 1>>])
                 /\ supporter' = Reset(supporter, [r \in Ids |-> Nothing])
                 /\ supporterCost' = Reset(supporterCost, [r \in Ids |-> Infinity])
                 /\ hMax' = [p \in propositions |-> IF p \in true THEN Zero ELSE Infinity]
                 /\ queue' = Queued(true)
                 /\ touched' = {}
                 /\ total' = Zero
    BY DEF Evaluate
<1>3. GivenInv /\ ResetInv /\ CostsFit
    BY <1>1 DEF EvaluationInv, ResetInv
<1>4. GivenInv' /\ Ids' = Ids /\ relaxed' = relaxed /\ propositions' = propositions /\ task' = task /\ states' = states
    BY <1>1, <1>3, GivenStays, SetsStay DEF SameGiven
<1>5. CASE IsGoalState(task, s)
  <2>1. UNCHANGED <<phase, cost, search>>
      BY <1>2, <1>5
  <2>2. ResetInv'
      BY <2>1, <1>3, <1>4 DEF ResetInv, CostsFit, search
  <2>. QED BY <2>1, <2>2, <1>1, <1>4 DEF EvaluationInv, IsEvaluating
<1>6. CASE ~ IsGoalState(task, s)
  <2> DEFINE true == {p \in propositions : IsTrue(task, p, s)}
  <2>1. /\ phase' = "exploring"
        /\ state' = s
        /\ counter' = Reset(counter, [r \in Ids |-> Cardinality(relaxed[r].pre)])
        /\ cost' = Reset(cost, [r \in Ids |-> <<relaxed[r].cost, 1>>])
        /\ supporter' = Reset(supporter, [r \in Ids |-> Nothing])
        /\ supporterCost' = Reset(supporterCost, [r \in Ids |-> Infinity])
        /\ hMax' = [p \in propositions |-> IF p \in true THEN Zero ELSE Infinity]
        /\ queue' = Queued(true)
        /\ touched' = {}
        /\ total' = Zero
      BY <1>2, <1>6
  <2>2. \A r \in Ids : IsRelaxedOperator(r)
      BY <1>3, RelaxedFacts DEF ProperTasks
  <2>3. ASSUME NEW r \in Ids PROVE counter'[r] = Cardinality(relaxed[r].pre)
      BY <2>1, <1>3 DEF Reset, ResetInv
  <2>4. \A r \in Ids : IsFiniteSet(relaxed[r].pre) /\ Cardinality(relaxed[r].pre) \in Nat /\ relaxed[r].cost \in Nat
      BY <2>2, FS_CardinalityType DEF IsRelaxedOperator
  <2>5. counter' \in [Ids -> Nat]
      BY <2>1, <2>3, <2>4 DEF Reset
  <2>6. supporter' \in [Ids -> propositions \cup {Nothing}] /\ supporterCost' \in [Ids -> Values]
      BY <2>1, <1>3 DEF Reset, ResetInv, Values
  <2>7. CostsFit'
    <3>1. ASSUME NEW r \in Ids PROVE cost'[r] \in Amounts /\ cost'[r][1] <= relaxed[r].cost * cost'[r][2]
      <4>1. cost'[r] = IF r \in touched THEN <<relaxed[r].cost, 1>> ELSE cost[r]
          BY <2>1 DEF Reset
      <4>2. <<relaxed[r].cost, 1>> \in Amounts
          BY <2>4, SpecialAmounts
      <4>3. relaxed[r].cost <= relaxed[r].cost * 1
          BY <2>4
      <4>. QED BY <4>1, <4>2, <4>3, <1>3 DEF CostsFit
    <3>2. cost' \in [Ids -> Amounts]
      <4>1. cost' = [r \in Ids |-> cost'[r]]
          BY <2>1 DEF Reset
      <4>. QED BY <4>1, <3>1
    <3>. QED BY <3>1, <3>2, <1>4 DEF CostsFit
  <2>8. ResetInv'
      BY <2>1, <2>3, <2>6, <2>7, <1>4 DEF ResetInv
  <2>9. IsHMax(hMax)' /\ \A q \in Initially' : hMax'[q] = Zero
      BY <2>1, <1>4, SpecialAmounts DEF IsHMax, Initially, Values
  <2>10. AreSupported(hMax, supporter)'
    <3>1. \A r \in Ids : relaxed[r].pre # {} => counter'[r] # 0
        BY <2>3, <2>4, FS_EmptySet
    <3>. QED BY <3>1, <1>4 DEF AreSupported, IsSupported
  <2>11. queue' \subseteq propositions /\ \A q \in queue' : hMax'[q] # Infinity
    <3>1. Zero # Infinity
        BY DEF Zero, Infinity
    <3>. QED BY <2>1, <3>1 DEF Queued
  <2>12. ASSUME NEW r \in Ids PROVE (counter[r] <= Cardinality(Pending(hMax, Waiting, r)))'
    <3>1. Waiting' = queue'
        BY <2>1 DEF Waiting
    <3>2. \A q \in relaxed[r].pre : q \in propositions /\ Triggered(q) # {}
        BY <2>2 DEF IsRelaxedOperator, Triggered
    <3>3. \A q \in relaxed[r].pre : hMax'[q] = Infinity \/ q \in queue'
        BY <3>2, <2>1 DEF Queued
    <3>4. Pending(hMax, Waiting, r)' = relaxed[r].pre
        BY <3>1, <3>3, <1>4 DEF Pending
    <3>. QED BY <3>4, <2>3, <2>4
  <2>13. ExplorationInv'
      BY <2>1, <2>5, <2>9, <2>10, <2>11, <2>12, <1>4, SpecialAmounts DEF ExplorationInv
  <2>. QED BY <2>1, <2>8, <2>13, <1>4 DEF EvaluationInv
<1> QED BY <1>5, <1>6

\* The end of an evaluation leaves what the next one needs.
LEMMA ConcludeStep ==
    ASSUME EvaluationInv, Conclude
    PROVE  EvaluationInv'
<1>1. /\ IsEvaluating /\ phase' = "idle" /\ SameGiven
      /\ UNCHANGED <<cost, search>>
    BY DEF Conclude, given, SameGiven, IsEvaluating
<1>2. GivenInv /\ ResetInv
    BY <1>1 DEF EvaluationInv, IsEvaluating
<1>3. GivenInv' /\ Ids' = Ids /\ relaxed' = relaxed /\ propositions' = propositions
    BY <1>1, <1>2, GivenStays, SetsStay DEF SameGiven
<1>4. ResetInv'
    BY <1>1, <1>2, <1>3 DEF ResetInv, CostsFit, search
<1> QED BY <1>1, <1>3, <1>4 DEF EvaluationInv, IsEvaluating

-----------------------------------------------------------------------------
(* The goal zone and what is before it *)

\* What is before the goal zone, and the edges of the cut.
Before == BeforeGoalZone(Initially, GoalZone)
CutEdges == Edges(Before, GoalZone)

\* The costs of edges are amounts.
LEMMA EdgeCostFacts ==
    ASSUME GivenInv, ProperTasks, CostsFit, state \in states, NEW r \in Ids, NEW p \in relaxed[r].effects
    PROVE  EdgeCost(r, p) \in Amounts
<1>1. Multiplier(r, p, ~ options.disableMa) \in Amounts /\ cost[r] \in Amounts
    BY MultiplierFacts DEF ProperTasks, CostsFit
<1> QED BY <1>1, OperationsAreAmounts DEF EdgeCost

\* What leads to the goal at no cost is closed under free supporters.
LEMMA PlateauFacts ==
    ASSUME GivenInv, ProperTasks, ResetInv
    PROVE  /\ Plateau \in SUBSET propositions /\ End \in Plateau
           /\ FreeSupporters(Plateau) \ {Nothing} \subseteq Plateau
<1> DEFINE P == propositions
           more == [zone \in SUBSET P |-> FreeSupporters(zone) \ {Nothing}]
           start == {End}
<1>1. IsFiniteSet(P) /\ start \in SUBSET P
    BY RelaxedFacts DEF ProperTasks
<1>2. more \in [SUBSET P -> SUBSET P]
  <2>1. ASSUME NEW zone \in SUBSET P, NEW q \in FreeSupporters(zone) \ {Nothing} PROVE q \in P
    <3>1. PICK r \in UNION {Freely(p) : p \in zone} : q = supporter[r]
        BY <2>1 DEF FreeSupporters
    <3>2. r \in Ids
        BY DEF Freely, Achieves
    <3>. QED BY <3>1, <3>2, <2>1 DEF ResetInv
  <2>. QED BY <2>1
<1>3. ASSUME NEW S \in SUBSET P, NEW T \in SUBSET P, S \subseteq T PROVE more[S] \subseteq more[T]
  <2>1. FreeSupporters(S) \subseteq FreeSupporters(T)
      BY <1>3 DEF FreeSupporters
  <2>. QED BY <2>1
<1>4. Plateau = Closure(more, start)
    BY DEF Plateau
<1>5. \A S \in SUBSET P : more[S] = FreeSupporters(S) \ {Nothing}
    OBVIOUS
<1> HIDE DEF more, start
<1>6. /\ Closure(more, start) \in SUBSET P /\ start \subseteq Closure(more, start)
      /\ more[Closure(more, start)] \subseteq Closure(more, start)
    BY <1>1, <1>2, <1>3, ClosureFacts
<1> QED BY <1>4, <1>5, <1>6 DEF start

\* Before the goal zone is what holds, and what is reached without entering the zone.
LEMMA BeforeFacts ==
    ASSUME GivenInv, ProperTasks, ResetInv
    PROVE  /\ GoalZone \in SUBSET propositions /\ Before \in SUBSET propositions
           /\ Initially \subseteq Before /\ Before \cap GoalZone = {}
           /\ \A e \in Edges(Before, propositions \ GoalZone) : Passes(e, GoalZone) => e[2] \in Before
<1> DEFINE P == propositions
           Z == GoalZone
           more == [reached \in SUBSET P |-> {e[2] : e \in {e \in Edges(reached, P \ Z) : Passes(e, Z)}}]
<1>1. IsFiniteSet(P) /\ Z \in SUBSET P /\ Initially \in SUBSET P /\ Z \cap Initially = {}
    BY RelaxedFacts, PlateauFacts DEF ProperTasks, GoalZone, Initially
<1> HIDE DEF Z
<1>2. ASSUME NEW S, NEW e \in Edges(S, P \ Z) PROVE e[2] \in P \ Z
    BY DEF Edges
<1>3. more \in [SUBSET P -> SUBSET P]
    BY <1>2
<1>4. ASSUME NEW S \in SUBSET P, NEW T \in SUBSET P, S \subseteq T PROVE more[S] \subseteq more[T]
  <2>1. Edges(S, P \ Z) \subseteq Edges(T, P \ Z)
      BY <1>4 DEF Edges
  <2>. QED BY <2>1
<1>5. Before = Closure(more, Initially)
    BY DEF Before, BeforeGoalZone, Z
<1>6. \A S \in SUBSET P : more[S] = {e[2] : e \in {e \in Edges(S, P \ Z) : Passes(e, Z)}}
    OBVIOUS
<1> HIDE DEF more
<1>7. /\ Before \in SUBSET P /\ Initially \subseteq Before
      /\ more[Before] \subseteq Before
      /\ \A C \in SUBSET P : Initially \subseteq C /\ more[C] \subseteq C => Before \subseteq C
  <2>1. \A S, T \in SUBSET P : S \subseteq T => more[S] \subseteq more[T]
      BY <1>4
  <2>. QED BY <1>1, <1>3, <1>5, <2>1, ClosureFacts
<1>8. Before \subseteq P \ Z
  <2>1. P \ Z \in SUBSET P /\ Initially \subseteq P \ Z
      BY <1>1
  <2>2. more[P \ Z] \subseteq P \ Z
    <3> DEFINE C == P \ Z
    <3>1. more[C] = {e[2] : e \in {e \in Edges(C, P \ Z) : Passes(e, Z)}}
        BY <2>1, <1>6
    <3>2. \A x \in more[C] : \E e \in Edges(C, P \ Z) : x = e[2]
        BY <3>1
    <3> HIDE DEF C
    <3>3. \A x \in more[C] : x \in P \ Z
        BY <3>2, <1>2
    <3>. QED BY <3>3 DEF C
  <2>. QED BY <2>1, <2>2, <1>7
<1>9. ASSUME NEW e \in Edges(Before, P \ Z), Passes(e, Z) PROVE e[2] \in Before
  <2>1. Before \in SUBSET P /\ more[Before] \subseteq Before
      BY <1>7
  <2>2. more[Before] = {y[2] : y \in {y \in Edges(Before, P \ Z) : Passes(y, Z)}}
      BY <2>1, <1>6
  <2>3. e \in {y \in Edges(Before, P \ Z) : Passes(y, Z)}
      BY <1>9
  <2>4. e[2] \in more[Before]
      BY <2>2, <2>3
  <2>. QED BY <2>1, <2>4
<1> QED BY <1>1, <1>7, <1>8, <1>9 DEF Z

\* A cut can be made.
IsReady ==
    /\ EvaluationInv /\ ProperTasks /\ IsEvaluating
    /\ queue = {} /\ hMax[End] # Zero
    /\ \A p \in Before : hMax[p] # Infinity

\* What a cut starts from.
LEMMA ReadyFacts ==
    ASSUME IsReady
    PROVE  GivenInv /\ ProperTasks /\ ResetInv /\ ExplorationInv /\ CostsFit /\ state \in states
BY DEF IsReady, EvaluationInv, IsEvaluating, ResetInv, ExplorationInv

\* Operators with their preconditions before the goal zone are supported from there.
LEMMA SupportedBefore ==
    ASSUME IsReady, NEW r \in Ids, relaxed[r].pre # {}, relaxed[r].pre \subseteq Before
    PROVE  counter[r] = 0 /\ supporter[r] \in Before
<1>1. ExplorationInv /\ Waiting = {}
    BY ReadyFacts DEF Waiting, IsReady
<1>2. Pending(hMax, Waiting, r) = {}
    BY <1>1 DEF Pending, IsReady
<1>3. counter[r] \in Nat /\ counter[r] <= 0
    BY <1>1, <1>2, FS_EmptySet DEF ExplorationInv
<1>4. counter[r] = 0
    BY <1>3
<1>5. supporter[r] \in relaxed[r].pre
    BY <1>1, <1>4 DEF ExplorationInv, AreSupported, IsSupported
<1> QED BY <1>4, <1>5

\* What they lead out of it costs no less than an edge of the cut.
LEMMA EdgesLeaveBefore ==
    ASSUME IsReady, NEW r \in Ids, relaxed[r].pre # {}, relaxed[r].pre \subseteq Before,
           NEW p \in relaxed[r].effects \ Before, Leads(r, p)
    PROVE  \E q \in GoalZone : /\ <<r, q>> \in CutEdges
                               /\ q \in relaxed[r].effects
                               /\ ~ Less(EdgeCost(r, p), EdgeCost(r, q))
<1>1. supporter[r] \in Before /\ GivenInv /\ ProperTasks /\ ResetInv /\ CostsFit /\ state \in states
    BY SupportedBefore, ReadyFacts
<1>2. IsRelaxedOperator(r) /\ p \in propositions
    BY <1>1, RelaxedFacts DEF ProperTasks, IsRelaxedOperator
<1>3. \A q \in GoalZone : q \in relaxed[r].effects /\ Leads(r, q) => <<r, q>> \in CutEdges
    BY <1>1 DEF CutEdges, Edges
<1>4. CASE p \in GoalZone
  <2>1. EdgeCost(r, p) \in Amounts
      BY <1>1, EdgeCostFacts
  <2>2. ~ Less(EdgeCost(r, p), EdgeCost(r, p))
      BY <2>1, LessIsTransitive
  <2>. QED BY <1>3, <1>4, <2>2
<1>5. CASE p \notin GoalZone
  <2> DEFINE e == <<r, p>>
  <2>1. e \in Edges(Before, propositions \ GoalZone) /\ e[1] = r /\ e[2] = p
      BY <1>1, <1>2, <1>5 DEF Edges
  <2> HIDE DEF e
  <2>2. ~ Passes(e, GoalZone)
      BY <2>1, <1>1, BeforeFacts
  <2>3. PICK q \in GoalZone : q \in relaxed[r].effects /\ Leads(r, q) /\ ~ Less(EdgeCost(r, p), EdgeCost(r, q))
      BY <2>1, <2>2 DEF Passes
  <2>. QED BY <2>3, <1>3
<1> QED BY <1>4, <1>5

\* The goal is not reached from there.
LEMMA GoalIsBehind ==
    ASSUME IsReady, NEW r, ReachesGoal(r)
    PROVE  ~ (relaxed[r].pre \subseteq Before)
<1> SUFFICES ASSUME relaxed[r].pre \subseteq Before PROVE FALSE
    OBVIOUS
<1>1. GivenInv /\ ProperTasks /\ ResetInv /\ ExplorationInv /\ CostsFit /\ state \in states
    BY ReadyFacts
<1>2. r \in Ids /\ relaxed[r].pre # {} /\ relaxed[r].effects = {End} /\ IsRelaxedOperator(r)
    BY <1>1, GoalFacts, RelaxedFacts DEF ReachesGoal, ProperTasks
<1>3. counter[r] = 0 /\ supporter[r] \in Before /\ cost[r] = Zero
    BY <1>1, <1>2, SupportedBefore, GoalIsFree
<1>4. Leads(r, End)
  <2>1. Multiplier(r, End, ~ options.disableMa) = <<1, 1>>
      BY <1>1, <1>2, SpecialPropositions, MultiplierFacts DEF ProperTasks, Multiplied
  <2>. QED BY <2>1 DEF Leads, Less, Zero
<1>5. supporter[r] \in FreeSupporters(Plateau)
  <2>1. r \in Freely(End)
      BY <1>2, <1>3, <1>4 DEF Freely, Achieves
  <2>2. End \in Plateau
      BY <1>1, PlateauFacts
  <2>. QED BY <2>1, <2>2 DEF FreeSupporters
<1>6. supporter[r] # Nothing
  <2>1. supporter[r] \in Mentioned(RelaxedTask(task)) /\ task \in Tasks
      BY <1>1, <1>3, BeforeFacts DEF GivenInv
  <2>. QED BY <2>1, NothingAssumption
<1>7. supporter[r] \in Initially
    BY <1>1, <1>3, <1>5, <1>6, PlateauFacts, BeforeFacts DEF GoalZone
<1>8. hMax[End] = Zero
    BY <1>1, <1>2, <1>3, <1>7 DEF ExplorationInv, AreSupported, IsSupported
<1> QED BY <1>8 DEF IsReady

-----------------------------------------------------------------------------
(* What the relaxed task says of the task *)

\* What holds in a state of the task.
TrueAt(s) == {p \in propositions : IsTrue(task, p, s)}

\* A proposition is at distance 0 where it holds.
LEMMA DistanceFacts ==
    ASSUME GivenInv, ProperTasks, NEW p \in propositions, NEW s \in states
    PROVE  /\ Distance(task, p, s) \in Nat
           /\ Distance(task, p, s) = 0 <=> IsTrue(task, p, s)
           /\ IsCondition(p) /\ ~ IsTrue(task, p, s) =>
                  Need(p, s) > 0 /\ Need(p, s) \in Int /\ Distance(task, p, s) = Need(p, s)
           /\ ~ IsCondition(p) => Distance(task, p, s) <= 1
<1>1. IsCondition(p) => Need(p, s) \in Int /\ p # Start /\ p # End
    BY RelaxedFacts DEF ProperTasks, IsCondition, Start, End
<1>2. IsCondition(p) => (IsTrue(task, p, s) <=> Need(p, s) <= 0)
    BY <1>1 DEF IsTrue
<1>3. CASE IsTrue(task, p, s)
  <2>1. Distance(task, p, s) = 0
      BY <1>3 DEF Distance
  <2>. QED BY <2>1, <1>3
<1>4. CASE ~ IsTrue(task, p, s)
  <2>1. Distance(task, p, s) = IF IsCondition(p) THEN Need(p, s) ELSE 1
      BY <1>4 DEF Distance
  <2>. QED BY <2>1, <1>1, <1>2, <1>4
<1> QED BY <1>3, <1>4

\* An operator that brings a proposition nearer leads to it, wherever it does not hold yet.
LEMMA HelpersLead ==
    ASSUME GivenInv, ProperTasks, state \in states, NEW r \in Ids, NEW p \in propositions,
           NEW s \in states, NEW u \in states, IsRelaxed(task, relaxed[r], p, s, u),
           Distance(task, p, u) < Distance(task, p, s), ~ IsTrue(task, p, state), NEW multiplied
    PROVE  /\ p \in relaxed[r].effects /\ Less(Zero, Multiplier(r, p, multiplied))
           /\ Multiplied(r, p, multiplied) =>
                  /\ net[r][p] \in Nat \ {0}
                  /\ Distance(task, p, s) - Distance(task, p, u) <= net[r][p]
<1> DEFINE m == Multiplier(r, p, multiplied)
<1>1. /\ p \in relaxed[r].effects
      /\ IsCondition(p) /\ ~ relaxed[r].infinite =>
             Distance(task, p, s) - Distance(task, p, u) <= Net(task, relaxed[r].origin, p[2])
    BY DEF IsRelaxed
<1>2. IsRelaxedOperator(r) /\ Distance(task, p, s) \in Nat /\ Distance(task, p, u) \in Nat
    BY RelaxedFacts, DistanceFacts DEF ProperTasks
<1>3. /\ m \in Amounts
      /\ ~ Multiplied(r, p, multiplied) => m = <<1, 1>>
      /\ Multiplied(r, p, multiplied) =>
             /\ net[r][p] \in Int /\ Need(p, state) \in Int
             /\ m # Zero <=> net[r][p] > 0 /\ Need(p, state) > 0
    BY <1>1, MultiplierFacts DEF ProperTasks
<1>4. Multiplied(r, p, multiplied) =>
          /\ net[r][p] \in Nat \ {0}
          /\ Distance(task, p, s) - Distance(task, p, u) <= net[r][p]
  <2>1. SUFFICES ASSUME Multiplied(r, p, multiplied)
                 PROVE  /\ net[r][p] \in Nat \ {0}
                        /\ Distance(task, p, s) - Distance(task, p, u) <= net[r][p]
      OBVIOUS
  <2>2. net[r][p] = Net(task, relaxed[r].origin, p[2]) /\ net[r][p] \in Int
      BY <2>1, <1>1, <1>2 DEF IsRelaxedOperator, Multiplied
  <2>3. Distance(task, p, s) - Distance(task, p, u) <= net[r][p]
      BY <2>1, <2>2, <1>1 DEF Multiplied
  <2>. QED BY <2>2, <2>3, <1>2
<1>5. Multiplied(r, p, multiplied) => Need(p, state) > 0
    BY DistanceFacts DEF Multiplied
<1>6. m # Zero
  <2>1. <<1, 1>> # Zero
      BY DEF Zero
  <2> HIDE DEF m
  <2>. QED BY <1>3, <1>4, <1>5, <2>1
<1>7. Less(Zero, m)
    BY <1>3, <1>6, AmountFacts
<1> QED BY <1>1, <1>4, <1>7

\* A step of the task that comes nearer to a proposition has a relaxed operator.
LEMMA StepsAreRelaxed ==
    ASSUME GivenInv, ProperTasks, RelaxedTasks,
           NEW s \in states, NEW o \in Applicable(task, s), NEW p \in propositions,
           Distance(task, p, Successor(task, o, s)) < Distance(task, p, s)
    PROVE  \E r \in Ids : /\ relaxed[r].origin = o
                          /\ IsRelaxed(task, relaxed[r], p, s, Successor(task, o, s))
                          /\ relaxed[r].pre # {}
<1>1. /\ task \in Tasks /\ states = StatesOf(task)
      /\ relaxed = RelaxedTask(task) /\ propositions = Mentioned(relaxed)
    BY DEF GivenInv
<1>2. PICK x \in Range(relaxed) : x.origin = o /\ IsRelaxed(task, x, p, s, Successor(task, o, s))
    BY <1>1 DEF RelaxedTasks, IsRelaxation
<1>3. PICK r \in Ids : x = relaxed[r]
    BY <1>2 DEF Ids, Range
<1>4. relaxed[r].pre # {}
    BY RelaxedFacts DEF ProperTasks, IsRelaxedOperator
<1> QED BY <1>2, <1>3, <1>4

\* The states of the task are closed under its operators.
LEMMA SuccessorsAreStates ==
    ASSUME GivenInv, NEW s \in states, NEW o \in Applicable(task, s)
    PROVE  Successor(task, o, s) \in states
BY StatesAssumption DEF GivenInv, IsStateSpace, ContainsAllReachable

\* The preconditions of the goal operator hold in goal states.
LEMMA GoalsAreRelaxed ==
    ASSUME GivenInv, RelaxedTasks, NEW s \in states, IsGoalState(task, s), NEW r, ReachesGoal(r)
    PROVE  \A p \in relaxed[r].pre : IsTrue(task, p, s)
BY GoalFacts DEF GivenInv, RelaxedTasks, IsRelaxation

-----------------------------------------------------------------------------
(* Cuts are landmarks, and only dead ends are infinite *)

\* An operator that leads out of what is before the goal zone has an edge in the cut.
LEMMA StepsOutAreCut ==
    ASSUME IsReady, RelaxedTasks, NEW s \in states, NEW o \in Applicable(task, s), TrueAt(s) \subseteq Before,
           NEW p \in propositions \ Before, Distance(task, p, Successor(task, o, s)) < Distance(task, p, s)
    PROVE  \E r \in Ids, q \in GoalZone :
               /\ relaxed[r].origin = o /\ p \in relaxed[r].effects /\ q \in relaxed[r].effects
               /\ IsRelaxed(task, relaxed[r], p, s, Successor(task, o, s))
               /\ <<r, q>> \in CutEdges
               /\ ~ Less(EdgeCost(r, p), EdgeCost(r, q))
<1>1. GivenInv /\ ProperTasks /\ ResetInv /\ CostsFit /\ state \in states
    BY ReadyFacts
<1>2. PICK r \in Ids : /\ relaxed[r].origin = o
                       /\ IsRelaxed(task, relaxed[r], p, s, Successor(task, o, s))
                       /\ relaxed[r].pre # {}
    BY <1>1, StepsAreRelaxed
<1>3. Successor(task, o, s) \in states
    BY <1>1, SuccessorsAreStates
<1>4. p \in propositions /\ p \notin Before /\ ~ IsTrue(task, p, state)
    BY <1>1, BeforeFacts DEF Initially
<1>5. p \in relaxed[r].effects /\ Leads(r, p)
    BY <1>1, <1>2, <1>3, <1>4, HelpersLead DEF Leads
<1>6. relaxed[r].pre \subseteq Before
  <2>1. \A q \in relaxed[r].pre : q \in propositions /\ IsTrue(task, q, s)
      BY <1>1, <1>2, RelaxedFacts DEF IsRelaxed, ProperTasks, IsRelaxedOperator
  <2>. QED BY <2>1 DEF TrueAt
<1>7. PICK q \in GoalZone : /\ <<r, q>> \in CutEdges /\ q \in relaxed[r].effects
                            /\ ~ Less(EdgeCost(r, p), EdgeCost(r, q))
    BY <1>2, <1>4, <1>5, <1>6, EdgesLeaveBefore
<1> QED BY <1>2, <1>5, <1>7

\* What is true of a set of states and kept by the operators is so of what they reach.
LEMMA CutSeparates ==
    ASSUME IsReady, RelaxedTasks, NEW u \in ReachableWithout(task, Origins(CutEdges), state)
    PROVE  ~ IsGoalState(task, u)
<1> DEFINE S == StatesOf(task)
           O == Origins(CutEdges)
           more == [T \in SUBSET S |-> UNION {SuccessorsWithout(task, O, s) : s \in T}]
           start == {state}
           C == {s \in S : TrueAt(s) \subseteq Before}
<1>1. GivenInv /\ ProperTasks /\ ResetInv /\ CostsFit /\ state \in states /\ states = S /\ task \in Tasks
    BY ReadyFacts DEF GivenInv
<1>2. IsFiniteSet(S) /\ start \in SUBSET S
    BY <1>1, StatesAssumption DEF IsStateSpace
<1>3. \A s \in S : SuccessorsWithout(task, O, s) \subseteq S
    BY <1>1, SuccessorsAreStates DEF SuccessorsWithout
<1>4. more \in [SUBSET S -> SUBSET S] /\ \A T, U \in SUBSET S : T \subseteq U => more[T] \subseteq more[U]
  <2> HIDE DEF S, O
  <2>. QED BY <1>3
<1>5. ReachableWithout(task, O, state) = Closure(more, start)
    BY DEF ReachableWithout
<1>6. C \in SUBSET S /\ start \subseteq C
  <2>1. TrueAt(state) = Initially
      BY DEF TrueAt, Initially
  <2>. QED BY <2>1, <1>1, BeforeFacts
<1>7. more[C] \subseteq C
  <2>1. ASSUME NEW s \in C, NEW o \in Applicable(task, s) \ O PROVE Successor(task, o, s) \in C
    <3>1. s \in states /\ o \in Applicable(task, s) /\ TrueAt(s) \subseteq Before /\ Successor(task, o, s) \in states
        BY <1>1, <2>1, SuccessorsAreStates
    <3>2. SUFFICES ASSUME NEW p \in TrueAt(Successor(task, o, s)), p \notin Before PROVE FALSE
        BY <3>1, <1>1
    <3>3. p \in propositions /\ IsTrue(task, p, Successor(task, o, s)) /\ ~ IsTrue(task, p, s)
        BY <3>1, <3>2 DEF TrueAt
    <3>4. /\ Distance(task, p, Successor(task, o, s)) = 0
          /\ Distance(task, p, s) \in Nat /\ Distance(task, p, s) # 0
        BY <3>1, <3>3, <1>1, DistanceFacts
    <3>5. Distance(task, p, Successor(task, o, s)) < Distance(task, p, s)
        BY <3>4
    <3>6. PICK r \in Ids, q \in GoalZone : relaxed[r].origin = o /\ <<r, q>> \in CutEdges
        BY <3>1, <3>2, <3>3, <3>5, StepsOutAreCut
    <3>7. o # NoOrigin
      <4>1. o \in DOMAIN task.operators
          BY <3>1 DEF Applicable
      <4>. QED BY <4>1, <1>1 DEF ProperTasks, IsProper
    <3>8. o \in O
        BY <3>6, <3>7 DEF Origins
    <3>. QED BY <3>8, <2>1
  <2>2. more[C] = UNION {SuccessorsWithout(task, O, s) : s \in C}
      BY <1>6
  <2> HIDE DEF C, more, O
  <2>3. \A x \in more[C] : \E s \in C : x \in SuccessorsWithout(task, O, s)
      BY <2>2
  <2>. QED BY <2>1, <2>3 DEF SuccessorsWithout
<1> HIDE DEF S, O, more, C, start
<1>8. Closure(more, start) \subseteq C
    BY <1>2, <1>4, <1>6, <1>7, ClosureFacts
<1>9. u \in C
    BY <1>5, <1>8 DEF O
<1>10. u \in states /\ TrueAt(u) \subseteq Before
    BY <1>1, <1>9 DEF C
<1>11. PICK r \in Ids : ReachesGoal(r)
    BY <1>1, RelaxedFacts DEF ProperTasks
<1>12. PICK p \in relaxed[r].pre : p \notin Before
    BY <1>11, GoalIsBehind
<1>13. p \in propositions
    BY <1>1, <1>12, RelaxedFacts DEF ProperTasks, IsRelaxedOperator
<1>14. ~ IsTrue(task, p, u)
    BY <1>10, <1>12, <1>13 DEF TrueAt
<1> QED BY <1>1, <1>10, <1>11, <1>14, GoalsAreRelaxed

\* States that operators do not leave, without a goal among them, are dead ends.
LEMMA DeadEnds ==
    ASSUME NEW t \in Tasks, NEW C \in SUBSET StatesOf(t),
           \A s \in C : ~ IsGoalState(t, s) /\ \A o \in Applicable(t, s) : Successor(t, o, s) \in C,
           NEW s \in C
    PROVE  TrueDistances[t][s] = Infinite
<1> DEFINE d == TrueDistances[t]
           S == {u \in C : d[u] < Infinite}
           through(u, o) == Price(t, o, u) + d[Successor(t, o, u)]
<1>1. /\ d \in [StatesOf(t) -> 0..Infinite]
      /\ \A T \in SUBSET {u \in StatesOf(t) : ~ IsGoalState(t, u) /\ d[u] < Infinite} :
             T # {} => \E u \in T : \E o \in Applicable(t, u) :
                           Successor(t, o, u) \notin T /\ d[u] = through(u, o)
    BY DistancesAssumption DEF AreGoalDistances, StatesOf
<1> HIDE DEF d
<1>2. CASE S = {}
  <2>1. ~ (d[s] < Infinite) /\ d[s] \in 0..Infinite
      BY <1>1, <1>2
  <2>. QED BY <2>1, InfiniteAssumption DEF d
<1>3. CASE S # {}
  <2>1. S \in SUBSET {u \in StatesOf(t) : ~ IsGoalState(t, u) /\ d[u] < Infinite}
      OBVIOUS
  <2>2. PICK u \in S : \E o \in Applicable(t, u) : Successor(t, o, u) \notin S /\ d[u] = through(u, o)
      BY <1>1, <1>3, <2>1
  <2>3. PICK o \in Applicable(t, u) : Successor(t, o, u) \notin S /\ d[u] = through(u, o)
      BY <2>2
  <2>4. Successor(t, o, u) \in C /\ Price(t, o, u) \in Nat
      BY <2>2, <2>3, PricesAssumption DEF PricesAreNatural
  <2>5. d[Successor(t, o, u)] \in 0..Infinite /\ ~ (d[Successor(t, o, u)] < Infinite) /\ d[u] < Infinite
      BY <1>1, <2>2, <2>3, <2>4
  <2>. QED BY <2>3, <2>4, <2>5, InfiniteAssumption
<1> QED BY <1>2, <1>3

\* An exploration that does not reach the goal was of a dead end.
LEMMA InfiniteIsDead ==
    ASSUME EvaluationInv, ProperTasks, RelaxedTasks, IsEvaluating, queue = {}, hMax[End] = Infinity
    PROVE  TrueDistances[task][state] = Infinite
<1> DEFINE R == {p \in propositions : hMax[p] # Infinity}
           C == {s \in states : TrueAt(s) \subseteq R}
<1>1. GivenInv /\ ExplorationInv /\ state \in states /\ task \in Tasks /\ states = StatesOf(task)
    BY DEF EvaluationInv, ExplorationInv, GivenInv
<1>2. ASSUME NEW r \in Ids, relaxed[r].pre # {}, relaxed[r].pre \subseteq R PROVE IsReached(hMax, r)
  <2>1. Waiting = {}
      BY DEF Waiting
  <2>2. Pending(hMax, Waiting, r) = {}
      BY <1>2, <2>1 DEF Pending
  <2>3. counter[r] \in Nat /\ counter[r] <= 0
      BY <1>1, <2>2, FS_EmptySet DEF ExplorationInv
  <2>4. counter[r] = 0
      BY <2>3
  <2>. QED BY <1>1, <1>2, <2>4 DEF ExplorationInv, AreSupported, IsSupported
<1>3. state \in C /\ Initially \subseteq R
  <2>1. \A q \in Initially : q \in propositions /\ hMax[q] # Infinity
      BY <1>1 DEF ExplorationInv, Initially, Zero, Infinity
  <2>. QED BY <1>1, <2>1 DEF TrueAt, Initially
<1>4. ASSUME NEW s \in C, NEW o \in Applicable(task, s) PROVE Successor(task, o, s) \in C
  <2>1. s \in states /\ TrueAt(s) \subseteq R /\ Successor(task, o, s) \in states
      BY <1>1, <1>4, SuccessorsAreStates
  <2>2. SUFFICES ASSUME NEW p \in TrueAt(Successor(task, o, s)), p \notin R PROVE FALSE
      BY <2>1
  <2>3. /\ p \in propositions /\ IsTrue(task, p, Successor(task, o, s)) /\ ~ IsTrue(task, p, s)
        /\ ~ IsTrue(task, p, state)
      BY <2>1, <2>2, <1>3 DEF TrueAt, Initially
  <2>4. /\ Distance(task, p, Successor(task, o, s)) = 0
        /\ Distance(task, p, s) \in Nat /\ Distance(task, p, s) # 0
      BY <2>1, <2>3, <1>1, DistanceFacts
  <2>5. Distance(task, p, Successor(task, o, s)) < Distance(task, p, s)
      BY <2>4
  <2>6. PICK r \in Ids : /\ IsRelaxed(task, relaxed[r], p, s, Successor(task, o, s))
                         /\ relaxed[r].pre # {}
      BY <1>1, <2>1, <2>3, <2>5, StepsAreRelaxed
  <2>7. p \in relaxed[r].effects /\ Less(Zero, Multiplier(r, p, ~ options.irmax))
      BY <1>1, <2>1, <2>3, <2>5, <2>6, HelpersLead
  <2>8. relaxed[r].pre \subseteq R
    <3>1. \A q \in relaxed[r].pre : q \in propositions /\ IsTrue(task, q, s)
        BY <1>1, <2>6, RelaxedFacts DEF IsRelaxed, ProperTasks, IsRelaxedOperator
    <3>. QED BY <3>1, <2>1 DEF TrueAt
  <2>9. hMax[p] # Infinity
      BY <2>6, <2>7, <2>8, <1>2 DEF IsReached
  <2>. QED BY <2>2, <2>3, <2>9
<1>5. ASSUME NEW s \in C PROVE ~ IsGoalState(task, s)
  <2>1. SUFFICES ASSUME IsGoalState(task, s) PROVE FALSE
      OBVIOUS
  <2>2. PICK r \in Ids : ReachesGoal(r)
      BY <1>1, RelaxedFacts DEF ProperTasks
  <2>3. \A p \in relaxed[r].pre : IsTrue(task, p, s) /\ p \in propositions
      BY <1>1, <1>5, <2>1, <2>2, GoalsAreRelaxed, RelaxedFacts DEF ProperTasks, IsRelaxedOperator
  <2>4. relaxed[r].pre \subseteq R /\ relaxed[r].pre # {} /\ relaxed[r].effects = {End}
      BY <1>5, <2>2, <2>3, GoalFacts DEF TrueAt
  <2>5. Multiplier(r, End, ~ options.irmax) = <<1, 1>>
      BY <1>1, <2>2, <2>4, SpecialPropositions, MultiplierFacts DEF ProperTasks, Multiplied
  <2>6. Less(Zero, <<1, 1>>)
      BY DEF Less, Zero
  <2>7. IsReached(hMax, r)
      BY <1>2, <2>2, <2>4
  <2>8. hMax[End] # Infinity
      BY <2>4, <2>5, <2>6, <2>7 DEF IsReached
  <2>. QED BY <2>8
<1>6. C \in SUBSET StatesOf(task)
    BY <1>1
<1> HIDE DEF C
<1> QED BY <1>1, <1>3, <1>4, <1>5, <1>6, DeadEnds

-----------------------------------------------------------------------------
(* What a cut takes from the operators *)

\* Operators and what they reach.
AllEdges == {e \in Ids \X propositions : e[2] \in relaxed[e[1]].effects}

\* The cheapest of some edges is the cost of one of them.
LEMMA CheapestFacts ==
    ASSUME GivenInv, ProperTasks, CostsFit, state \in states, NEW E \in SUBSET AllEdges, E # {}
    PROVE  /\ Cheapest(E) \in Amounts
           /\ \E e \in E : Cheapest(E) = EdgeCost(e[1], e[2])
           /\ \A e \in E : ~ Less(EdgeCost(e[1], e[2]), Cheapest(E))
<1> DEFINE S == {EdgeCost(e[1], e[2]) : e \in E}
           v == [e \in E |-> EdgeCost(e[1], e[2])]
<1>1. IsFiniteSet(E)
  <2>1. IsFiniteSet(Ids \X propositions)
      BY RelaxedFacts, FS_Product DEF ProperTasks
  <2>2. E \in SUBSET (Ids \X propositions)
      BY DEF AllEdges
  <2>. QED BY <2>1, <2>2, FS_Subset
<1>2. ASSUME NEW e \in E PROVE EdgeCost(e[1], e[2]) \in Amounts
  <2>1. e[1] \in Ids /\ e[2] \in relaxed[e[1]].effects
      BY DEF AllEdges
  <2>. QED BY <2>1, EdgeCostFacts
<1>3. v \in [E -> Amounts]
    BY <1>2
<1>4. \E x \in E : \A y \in E : ~ Less(v[y], v[x])
  <2> HIDE DEF v
  <2>. QED BY <1>1, <1>3, Extremes
<1>5. \E a \in S : \A b \in S : ~ Less(b, a)
  <2>1. PICK x \in E : \A y \in E : ~ Less(v[y], v[x])
      BY <1>4
  <2>2. \A y \in E : v[y] = EdgeCost(y[1], y[2])
      OBVIOUS
  <2>3. v[x] \in S /\ \A b \in S : ~ Less(b, v[x])
      BY <2>1, <2>2
  <2>. QED BY <2>3
<1>6. Cheapest(E) \in S /\ \A b \in S : ~ Less(b, Cheapest(E))
  <2> HIDE DEF S
  <2>1. Least(S) \in S /\ \A b \in S : ~ Less(b, Least(S))
      BY <1>5 DEF Least
  <2>. QED BY <2>1 DEF Cheapest, S
<1> QED BY <1>2, <1>6

\* What a cut costs, what its origins cost in it, and which of these it reduces.
CutCost == Cheapest(CutEdges)
LeastOf(o) == Cheapest(EdgesOf(CutEdges, o))
IsReduced(o) == o \in Origins(CutEdges) /\ LeastOf(o) # Zero
\* An operator loses the fraction Taken / Whole of its cost.
Taken(o) == IF IsReduced(o) THEN CutCost[1] * LeastOf(o)[2] ELSE 0
Whole(o) == IF IsReduced(o) THEN CutCost[2] * LeastOf(o)[1] ELSE 1

\* The cost of a cut is that of its cheapest edge.
LEMMA CutCostFacts ==
    ASSUME IsReady, CutEdges # {}
    PROVE  /\ CutEdges \in SUBSET AllEdges
           /\ CutCost \in Amounts
           /\ \A e \in CutEdges : ~ Less(EdgeCost(e[1], e[2]), CutCost)
<1>1. GivenInv /\ ProperTasks /\ ResetInv /\ CostsFit /\ state \in states
    BY ReadyFacts
<1>2. CutEdges \in SUBSET AllEdges
    BY <1>1, BeforeFacts DEF CutEdges, Edges, AllEdges
<1> QED BY <1>1, <1>2, CheapestFacts DEF CutCost

\* The least cost of an origin is that of its cheapest edge.
LEMMA LeastFacts ==
    ASSUME IsReady, NEW o \in Origins(CutEdges)
    PROVE  /\ LeastOf(o) \in Amounts
           /\ ~ Less(LeastOf(o), CutCost)
           /\ \A e \in EdgesOf(CutEdges, o) : ~ Less(EdgeCost(e[1], e[2]), LeastOf(o))
<1>1. GivenInv /\ ProperTasks /\ ResetInv /\ CostsFit /\ state \in states
    BY ReadyFacts
<1>2. EdgesOf(CutEdges, o) # {} /\ EdgesOf(CutEdges, o) \subseteq CutEdges
    BY DEF Origins, EdgesOf
<1>3. /\ CutEdges \in SUBSET AllEdges
      /\ \A e \in CutEdges : ~ Less(EdgeCost(e[1], e[2]), CutCost)
    BY <1>2, CutCostFacts
<1>4. EdgesOf(CutEdges, o) \in SUBSET AllEdges
    BY <1>2, <1>3
<1>5. /\ LeastOf(o) \in Amounts
      /\ \E e \in EdgesOf(CutEdges, o) : LeastOf(o) = EdgeCost(e[1], e[2])
      /\ \A e \in EdgesOf(CutEdges, o) : ~ Less(EdgeCost(e[1], e[2]), LeastOf(o))
    BY <1>1, <1>2, <1>4, CheapestFacts DEF LeastOf
<1> QED BY <1>2, <1>3, <1>5

\* The fraction is not more than 1.
LEMMA TakenFacts ==
    ASSUME IsReady, NEW o
    PROVE  Taken(o) \in Nat /\ Whole(o) \in Nat \ {0} /\ Taken(o) <= Whole(o)
<1>1. CASE ~ IsReduced(o)
    BY <1>1 DEF Taken, Whole
<1>2. CASE IsReduced(o)
  <2> DEFINE K == CutCost
             L == LeastOf(o)
  <2>1. L \in Amounts /\ L # Zero /\ ~ Less(L, K) /\ K \in Amounts
    <3>1. o \in Origins(CutEdges) /\ LeastOf(o) # Zero
        BY <1>2 DEF IsReduced
    <3>2. CutEdges # {}
        BY <3>1 DEF Origins
    <3>. QED BY <3>1, <3>2, LeastFacts, CutCostFacts
  <2>2. Taken(o) = K[1] * L[2] /\ Whole(o) = K[2] * L[1]
      BY <1>2 DEF Taken, Whole
  <2> HIDE DEF K, L
  <2>3. /\ K[1] \in Nat /\ K[2] \in Nat /\ K[2] # 0
        /\ L[1] \in Nat /\ L[2] \in Nat /\ L[1] # 0
      BY <2>1, AmountFacts
  <2>4. ~ (L[1] * K[2] < K[1] * L[2])
      BY <2>1 DEF Less
  <2>5. K[1] * L[2] \in Nat /\ K[2] * L[1] \in Nat /\ K[2] * L[1] # 0 /\ K[2] * L[1] = L[1] * K[2]
      BY <2>3, ProductsArePositive, ProductsAssociate
  <2>. QED BY <2>2, <2>4, <2>5
<1> QED BY <1>1, <1>2

\* What is left of the cost of a relaxed operator.
LEMMA ReducedFacts ==
    ASSUME IsReady, NEW r \in Ids
    PROVE  LET c == Reduced(CutEdges)[r]
               n == Taken(relaxed[r].origin)
               d == Whole(relaxed[r].origin)
           IN  /\ c \in Amounts
               /\ c[1] * (cost[r][2] * d) = (cost[r][1] * (d - n)) * c[2]
<1> DEFINE o == relaxed[r].origin
           c == Reduced(CutEdges)[r]
           n == Taken(o)
           d == Whole(o)
           a == cost[r]
<1>1. a \in Amounts
    BY ReadyFacts DEF CostsFit
<1>2. a[1] \in Nat /\ a[2] \in Nat /\ a[2] # 0
    BY <1>1, AmountFacts
<1>3. n \in Nat /\ d \in Nat /\ d # 0 /\ n <= d
    BY TakenFacts
<1>4. c = IF o \notin Origins(CutEdges) \/ a = Zero THEN a
          ELSE IF LeastOf(o) = Zero THEN a ELSE Minus(a, Over(Times(CutCost, a), LeastOf(o)))
    BY DEF Reduced, LeastOf, CutCost
<1>5. CASE ~ IsReduced(o)
  <2>1. c = a /\ n = 0 /\ d = 1
      BY <1>4, <1>5 DEF IsReduced, Taken, Whole
  <2> HIDE DEF a, c, n, d
  <2>2. a[1] * (a[2] * 1) = (a[1] * (1 - 0)) * a[2]
      BY <1>2
  <2>3. c \in Amounts /\ c[1] * (a[2] * d) = (a[1] * (d - n)) * c[2]
      BY <1>1, <2>1, <2>2
  <2>. QED BY <2>3 DEF a, c, n, d
<1>6. CASE IsReduced(o) /\ a = Zero
  <2>1. c = Zero
      BY <1>4, <1>6
  <2>2. c[1] = 0 /\ c[2] = 1 /\ a[1] = 0
      BY <2>1, <1>6 DEF Zero
  <2>3. c \in Amounts
      BY <2>1, SpecialAmounts
  <2> HIDE DEF a, c, n, d
  <2>4. 0 * (a[2] * d) = (0 * (d - n)) * 1
      BY <1>2, <1>3
  <2>5. c[1] * (a[2] * d) = (a[1] * (d - n)) * c[2]
      BY <2>2, <2>4
  <2>. QED BY <2>3, <2>5 DEF a, c, n, d
<1>7. CASE IsReduced(o) /\ a # Zero
  <2> DEFINE K == CutCost
             L == LeastOf(o)
             t == Times(K, a)
             v == Over(t, L)
  <2>1. L \in Amounts /\ L # Zero /\ K \in Amounts
    <3>1. o \in Origins(CutEdges) /\ LeastOf(o) # Zero
        BY <1>7 DEF IsReduced
    <3>2. CutEdges # {}
        BY <3>1 DEF Origins
    <3>. QED BY <3>1, <3>2, LeastFacts, CutCostFacts
  <2>2. c = Minus(a, v) /\ n = K[1] * L[2] /\ d = K[2] * L[1]
      BY <1>4, <1>7 DEF IsReduced, Taken, Whole
  <2> HIDE DEF a, c, n, d, K, L
  <2>3. /\ K[1] \in Nat /\ K[2] \in Nat /\ K[2] # 0
        /\ L[1] \in Nat /\ L[2] \in Nat /\ L[2] # 0 /\ L[1] # 0
      BY <2>1, AmountFacts
  <2>4. t \in Amounts /\ t[1] * (K[2] * a[2]) = (K[1] * a[1]) * t[2]
      BY <2>1, <1>1, Operations DEF Is
  <2> HIDE DEF t
  <2>5. t[1] \in Nat /\ t[2] \in Nat /\ t[2] # 0
      BY <2>4, AmountFacts
  <2>6. v \in Amounts /\ v[1] * (t[2] * L[1]) = (t[1] * L[2]) * v[2]
      BY <2>1, <2>4, Operations DEF Is
  <2> HIDE DEF v
  <2>7. v[1] \in Nat /\ v[2] \in Nat /\ v[2] # 0
      BY <2>6, AmountFacts
  <2> DEFINE a1 == a[1]
             a2 == a[2]
             k1 == K[1]
             k2 == K[2]
             l1 == L[1]
             l2 == L[2]
             t1 == t[1]
             t2 == t[2]
             v1 == v[1]
             v2 == v[2]
             c1 == c[1]
             c2 == c[2]
  <2>8. v[1] * (a[2] * (K[2] * L[1])) = (a[1] * (K[1] * L[2])) * v[2]
    <3>1. /\ a1 \in Nat /\ a2 \in Nat \ {0} /\ k1 \in Nat /\ k2 \in Nat \ {0}
          /\ l1 \in Nat \ {0} /\ l2 \in Nat \ {0}
          /\ t1 \in Nat /\ t2 \in Nat \ {0} /\ v1 \in Nat /\ v2 \in Nat \ {0}
        BY <1>2, <2>3, <2>5, <2>7
    <3>2. t1 * (k2 * a2) = (k1 * a1) * t2 /\ v1 * (t2 * l1) = (t1 * l2) * v2
        BY <2>4, <2>6
    <3> HIDE DEF a1, a2, k1, k2, l1, l2, t1, t2, v1, v2
    <3>3. v1 * (a2 * (k2 * l1)) = (a1 * (k1 * l2)) * v2
        BY <3>1, <3>2, ShareOfCost
    <3>. QED BY <3>3 DEF a1, a2, k1, k2, l1, l2, v1, v2
  <2>9. v[1] * (a[2] * d) = (a[1] * n) * v[2]
      BY <2>2, <2>8
  <2>10. v[1] * a[2] <= a[1] * v[2]
      BY <1>2, <1>3, <2>7, <2>9, ShareIsLess
  <2>11. c \in Amounts /\ c[1] * (a[2] * v[2]) = (a[1] * v[2] - v[1] * a[2]) * c[2]
      BY <1>1, <2>2, <2>6, <2>10, Operations DEF Is
  <2>12. c[1] \in Nat /\ c[2] \in Nat
      BY <2>11, AmountFacts
  <2>13. c[1] * (a[2] * d) = (a[1] * (d - n)) * c[2]
    <3>1. /\ a1 \in Nat /\ a2 \in Nat \ {0} /\ v1 \in Nat /\ v2 \in Nat \ {0}
          /\ n \in Nat /\ d \in Nat \ {0} /\ n <= d /\ c1 \in Nat /\ c2 \in Nat
        BY <1>2, <1>3, <2>7, <2>12
    <3>2. v1 * (a2 * d) = (a1 * n) * v2 /\ c1 * (a2 * v2) = (a1 * v2 - v1 * a2) * c2
        BY <2>9, <2>11
    <3> HIDE DEF a1, a2, v1, v2, c1, c2
    <3>3. c1 * (a2 * d) = (a1 * (d - n)) * c2
        BY <3>1, <3>2, RestOfCost
    <3>. QED BY <3>3 DEF a1, a2, c1, c2
  <2>. QED BY <2>11, <2>13 DEF a, c, n, d
<1> QED BY <1>5, <1>6, <1>7

\* It is not more than the operator costs.
LEMMA ReducedFit ==
    ASSUME IsReady, NEW r \in Ids
    PROVE  LET c == Reduced(CutEdges)[r] IN c[1] <= relaxed[r].cost * c[2]
<1> DEFINE c == Reduced(CutEdges)[r]
           n == Taken(relaxed[r].origin)
           d == Whole(relaxed[r].origin)
           a == cost[r]
           b == relaxed[r].cost
<1>1. a \in Amounts /\ a[1] <= b * a[2] /\ b \in Nat
    BY ReadyFacts, RelaxedFacts DEF CostsFit, ProperTasks, IsRelaxedOperator
<1>2. a[1] \in Nat /\ a[2] \in Nat /\ a[2] # 0
    BY <1>1, AmountFacts
<1>3. n \in Nat /\ d \in Nat /\ d # 0 /\ n <= d
    BY TakenFacts
<1>4. c \in Amounts /\ c[1] * (a[2] * d) = (a[1] * (d - n)) * c[2]
    BY ReducedFacts
<1>5. c[1] \in Nat /\ c[2] \in Nat /\ c[2] # 0
    BY <1>4, AmountFacts
<1> HIDE DEF a, b, c, n, d
<1>6. c[1] * ((d * 1) * 1) <= (b * (1 * (d - n))) * c[2]
  <2>1. a[1] * 1 <= b * a[2]
      BY <1>1, <1>2
  <2>. QED BY <1>1, <1>2, <1>3, <1>4, <1>5, <2>1, RestFits
<1>7. (b * (d - n)) * c[2] <= (b * c[2]) * d
  <2>1. d - n \in Nat /\ d - n <= d
      BY <1>3
  <2>2. b * c[2] \in Nat /\ (b * (d - n)) * c[2] = (b * c[2]) * (d - n)
    <3>1. b * c[2] \in Nat
        BY <1>1, <1>5, ProductsArePositive
    <3> DEFINE x == d - n
               y == c[2]
    <3>2. x \in Int /\ y \in Int /\ b \in Int
        BY <1>1, <1>5, <2>1
    <3> HIDE DEF x, y
    <3>3. (b * x) * y = (b * y) * x
        BY <3>2
    <3>. QED BY <3>1, <3>3 DEF x, y
  <2>. QED BY <2>1, <2>2, <1>3, ProductsGrow
<1>8. c[1] * d <= (b * c[2]) * d
  <2>1. (d * 1) * 1 = d /\ 1 * (d - n) = d - n
      BY <1>3
  <2>2. c[1] * d <= (b * (d - n)) * c[2]
      BY <1>6, <2>1
  <2>3. c[1] * d \in Int /\ (b * (d - n)) * c[2] \in Int /\ (b * c[2]) * d \in Int
    <3>1. d - n \in Int
        BY <1>3
    <3>2. b * (d - n) \in Int /\ b * c[2] \in Int
        BY <3>1, <1>1, <1>5, ProductsAssociate
    <3>. QED BY <3>2, <1>3, <1>5, ProductsAssociate
  <2>. QED BY <2>2, <2>3, <1>7
<1>9. c[1] <= b * c[2]
  <2>1. b * c[2] \in Int /\ c[1] \in Int
      BY <1>1, <1>5, ProductsAssociate
  <2>. QED BY <2>1, <1>3, <1>8, ProductsCancel
<1> QED BY <1>9 DEF b, c

-----------------------------------------------------------------------------
(* Cuts keep the invariant of an evaluation *)

\* The operators whose costs the cut changes and that have been reached.
ToUpdate == {r \in OfOrigins(Origins(CutEdges)) : counter[r] = 0}
\* A cut that does not fail.
CutIsMade ==
    /\ CutEdges # {}
    /\ \A p \in Before : hMax[p] # Infinity
    /\ phase' = "updating" /\ cut' = CutEdges
    /\ total' = Plus(total, CutCost)
    /\ cost' = Reduced(CutEdges)
    /\ \E order \in Orders(Origins(CutEdges)) :
           hMax' = ImproveInTurn(hMax, Reduced(CutEdges), ToUpdate, order)
    /\ queue' = Queued(Changed(hMax, hMax'))

\* A cut fails, or is made.
LEMMA CutCases ==
    ASSUME Cut
    PROVE  /\ IsEvaluating /\ queue = {} /\ hMax[End] # Zero
           /\ SameState /\ UNCHANGED <<counter, supporter, supporterCost, touched, estimates>>
           /\ \/ phase' = "failed" /\ UNCHANGED cut
              \/ CutIsMade
<1>1. /\ IsEvaluating /\ queue = {} /\ hMax[End] # Zero
      /\ SameState /\ UNCHANGED <<counter, supporter, supporterCost, touched, estimates>>
    BY DEF Cut, IsEvaluating, SameState, given
<1> DEFINE before == BeforeGoalZone(Initially, GoalZone)
           edges  == Edges(before, GoalZone)
           c      == Reduced(edges)
           ready  == {r \in OfOrigins(Origins(edges)) : counter[r] = 0}
           fails  == \/ edges = {}
                     \/ \E p \in before : hMax[p] = Infinity
                     \/ \E r \in ready : supporter[r] = Nothing
<1>2. IF fails
      THEN phase' = "failed" /\ UNCHANGED <<cost, hMax, queue, total, cut>>
      ELSE /\ phase' = "updating"
           /\ cut' = edges
           /\ total' = Plus(total, Cheapest(edges))
           /\ cost' = c
           /\ \E order \in Orders(Origins(edges)) :
               LET next == ImproveInTurn(hMax, c, ready, order)
               IN  hMax' = next /\ queue' = Queued(Changed(hMax, next))
    BY DEF Cut
<1>3. before = Before /\ edges = CutEdges
    BY DEF Before, CutEdges
<1>4. c = Reduced(CutEdges) /\ ready = ToUpdate /\ Cheapest(edges) = CutCost
    BY <1>3 DEF ToUpdate, CutCost
<1> HIDE DEF before, edges, c, ready
<1>5. CASE fails
    BY <1>1, <1>2, <1>5
<1>6. CASE ~ fails
  <2>1. PICK order \in Orders(Origins(CutEdges)) :
            /\ hMax' = ImproveInTurn(hMax, Reduced(CutEdges), ToUpdate, order)
            /\ queue' = Queued(Changed(hMax, ImproveInTurn(hMax, Reduced(CutEdges), ToUpdate, order)))
      BY <1>2, <1>3, <1>4, <1>6
  <2>2. queue' = Queued(Changed(hMax, hMax'))
      BY <2>1
  <2>3. CutIsMade
      BY <1>2, <1>3, <1>4, <1>6, <2>1, <2>2 DEF CutIsMade
  <2>. QED BY <1>1, <2>3
<1> QED BY <1>5, <1>6

\* The origins of a cut are finitely many.
LEMMA OrdersAreFinite ==
    ASSUME GivenInv, ProperTasks, CutEdges # {}, CutEdges \subseteq AllEdges,
           NEW order \in Orders(Origins(CutEdges))
    PROVE  Len(order) \in Nat /\ \A o \in Origins(CutEdges) : \E k \in 1..Len(order) : order[k] = o
<1> DEFINE O == Origins(CutEdges)
<1>1. IsFiniteSet(O)
  <2> DEFINE f == [r \in Ids |-> relaxed[r].origin]
  <2>1. IsFiniteSet(Ids) /\ DOMAIN f = Ids
      BY RelaxedFacts DEF ProperTasks
  <2>2. \A o \in O : \E r \in Ids : o = f[r]
    <3>1. \A e \in CutEdges : e[1] \in Ids
        BY DEF AllEdges
    <3>. QED BY <3>1 DEF Origins
  <2> HIDE DEF f, O
  <2>3. O \in SUBSET {f[r] : r \in Ids}
      BY <2>2
  <2> DEFINE S == Ids
  <2>4. IsFiniteSet(S) /\ DOMAIN f = S
      BY <2>1
  <2> HIDE DEF S
  <2>5. IsFiniteSet({f[r] : r \in S})
      BY <2>4, Images
  <2>6. O \in SUBSET {f[r] : r \in S}
      BY <2>3 DEF S
  <2>. QED BY <2>5, <2>6, FS_Subset
<1>2. Cardinality(O) \in Nat
    BY <1>1, FS_CardinalityType
<1>3. DOMAIN order = 1..Cardinality(O)
    BY DEF Orders
<1> HIDE DEF O
<1> DEFINE n == Cardinality(O)
<1>4. order \in [1..n -> Range(order)]
  <2>1. order = [i \in 1..n |-> order[i]]
      BY <1>3 DEF Orders
  <2>. QED BY <2>1, <1>3 DEF Range
<1>5. order \in Seq(Range(order))
  <2> DEFINE S == Range(order)
  <2> HIDE DEF S, n
  <2>1. n \in Nat
      BY <1>2 DEF n
  <2>2. order \in [1..n -> S]
      BY <1>4 DEF S
  <2>3. order \in Seq(S)
      BY <2>1, <2>2
  <2>. QED BY <2>3 DEF S
<1>6. Len(order) \in Nat /\ DOMAIN order = 1..Len(order)
    BY <1>5
<1>7. \A o \in O : \E k \in DOMAIN order : order[k] = o
    BY DEF Orders, Range, O
<1> QED BY <1>6, <1>7 DEF O

\* compute_landmarks_impl keeps the invariant; when it makes a cut, one could be made.
LEMMA CutStep ==
    ASSUME EvaluationInv, ProperTasks, Cut
    PROVE  EvaluationInv' /\ (CutIsMade => IsReady)
<1>1. /\ IsEvaluating /\ queue = {} /\ hMax[End] # Zero
      /\ SameState /\ UNCHANGED <<counter, supporter, supporterCost, touched, estimates>>
      /\ \/ phase' = "failed"
         \/ CutIsMade
    BY CutCases
<1>2. GivenInv /\ ResetInv /\ ExplorationInv /\ CostsFit /\ state \in states
    BY <1>1 DEF EvaluationInv, IsEvaluating, ResetInv, ExplorationInv
<1>3. GivenInv' /\ Ids' = Ids /\ relaxed' = relaxed /\ propositions' = propositions /\ state' = state
    BY <1>1, <1>2, GivenStays, SetsStay DEF SameState, SameGiven
<1>4. CASE phase' = "failed" /\ ~ CutIsMade
    BY <1>3, <1>4 DEF EvaluationInv, IsEvaluating
<1>5. CASE CutIsMade
  <2>1. IsReady
      BY <1>1, <1>5 DEF CutIsMade, IsReady
  <2>2. CutEdges # {} /\ CutEdges \subseteq AllEdges /\ CutCost \in Amounts
      BY <1>5, <2>1, CutCostFacts DEF CutIsMade
  <2>3. PICK order \in Orders(Origins(CutEdges)) :
            hMax' = ImproveInTurn(hMax, Reduced(CutEdges), ToUpdate, order)
      BY <1>5 DEF CutIsMade
  <2>4. Reduced(CutEdges) \in [Ids -> Amounts]
    <3>1. \A r \in Ids : Reduced(CutEdges)[r] \in Amounts
        BY <2>1, ReducedFacts
    <3>2. Reduced(CutEdges) = [r \in Ids |-> Reduced(CutEdges)[r]]
        BY DEF Reduced
    <3>. QED BY <3>1, <3>2
  <2>5. CostsFit'
    <3>1. cost' = Reduced(CutEdges)
        BY <1>5 DEF CutIsMade
    <3>2. \A r \in Ids : Reduced(CutEdges)[r][1] <= relaxed[r].cost * Reduced(CutEdges)[r][2]
        BY <2>1, ReducedFit
    <3>. QED BY <3>1, <3>2, <2>4, <1>3 DEF CostsFit
  <2>6. ToUpdate \in SUBSET Ids
      BY DEF ToUpdate, OfOrigins
  <2>7. ASSUME NEW r \in ToUpdate
        PROVE  supporter[r] \in propositions /\ hMax[supporter[r]] # Infinity /\ IsReached(hMax, r)
    <3>1. r \in Ids /\ counter[r] = 0
        BY DEF ToUpdate, OfOrigins
    <3>2. relaxed[r].pre # {} /\ relaxed[r].pre \in SUBSET propositions
        BY <1>2, <3>1, RelaxedFacts DEF ProperTasks, IsRelaxedOperator
    <3>. QED BY <1>2, <3>1, <3>2 DEF ExplorationInv, AreSupported, IsSupported
  <2>8. Improves(hMax, hMax') /\ Keeps(hMax, hMax')
    <3>1. IsHMax(hMax) /\ Len(order) \in Nat
        BY <1>2, <2>2, OrdersAreFinite DEF ExplorationInv
    <3> DEFINE c == Reduced(CutEdges)
               R == ToUpdate
    <3>2. c \in [Ids -> Amounts] /\ R \in SUBSET Ids
          /\ \A r \in R : supporter[r] \in propositions /\ hMax[supporter[r]] # Infinity /\ IsReached(hMax, r)
        BY <2>4, <2>6, <2>7
    <3> HIDE DEF c, R
    <3>3. Improves(hMax, ImproveInTurn(hMax, c, R, order)) /\ Keeps(hMax, ImproveInTurn(hMax, c, R, order))
        BY <1>2, <3>1, <3>2, ImproveInTurnFacts
    <3>. QED BY <3>3, <2>3 DEF c, R
  <2>9. AreSupported(hMax', supporter')
    <3>1. AreSupported(hMax, supporter)
        BY <1>2 DEF ExplorationInv
    <3> DEFINE h == hMax'
    <3>2. Improves(hMax, h)
        BY <2>8
    <3> HIDE DEF h
    <3>3. AreSupported(h, supporter)
        BY <1>2, <3>1, <3>2, StaySupported
    <3>4. supporter' = supporter
        BY <1>1
    <3>. QED BY <3>3, <3>4 DEF h
  <2>10. queue' \subseteq propositions /\ \A q \in queue' : hMax'[q] # Infinity
    <3> DEFINE h == hMax'
    <3>1. queue' = Queued(Changed(hMax, h)) /\ Improves(hMax, h) /\ IsHMax(hMax)
        BY <1>2, <1>5, <2>8 DEF CutIsMade, ExplorationInv
    <3> HIDE DEF h
    <3>2. Queued(Changed(hMax, h)) \subseteq propositions /\ \A q \in Queued(Changed(hMax, h)) : h[q] # Infinity
        BY <3>1, ChangedFacts
    <3>. QED BY <3>1, <3>2 DEF h
  <2>11. total' \in Amounts
    <3>1. total \in Amounts
        BY <1>2 DEF ExplorationInv
    <3>. QED BY <3>1, <2>2, <1>5, OperationsAreAmounts DEF CutIsMade
  <2>12. phase' = "updating" /\ Waiting = {}
      BY <1>1, <1>5 DEF CutIsMade, Waiting
  <2>13. ExplorationInv'
      BY <1>1, <2>8, <2>9, <2>10, <2>11, <2>12, UpdatedExploration
  <2>14. ResetInv'
      BY <1>1, <1>2, <1>3, <2>5 DEF ResetInv
  <2>. QED BY <1>3, <2>1, <2>12, <2>13, <2>14 DEF EvaluationInv
<1> QED BY <1>1, <1>4, <1>5

-----------------------------------------------------------------------------
(* The invariant of the evaluations *)

\* It holds before the first evaluation.
LEMMA FirstEvaluation ==
    ASSUME Init, ProperTasks
    PROVE  EvaluationInv
<1>1. GivenInv /\ phase = "idle"
    BY DEF Init, GivenInv
<1>2. ASSUME NEW r \in Ids PROVE IsRelaxedOperator(r) /\ relaxed[r].cost \in Nat
    BY <1>1, RelaxedFacts DEF ProperTasks, IsRelaxedOperator
<1>3. CostsFit
  <2>1. ASSUME NEW r \in Ids PROVE cost[r] \in Amounts /\ cost[r][1] <= relaxed[r].cost * cost[r][2]
    <3>1. cost[r] = <<relaxed[r].cost, 1>>
        BY DEF Init
    <3>2. relaxed[r].cost <= relaxed[r].cost * 1 /\ <<relaxed[r].cost, 1>> \in Amounts
        BY <1>2, SpecialAmounts
    <3>. QED BY <3>1, <3>2
  <2>2. cost \in [Ids -> Amounts]
    <3>1. cost = [r \in Ids |-> cost[r]]
        BY DEF Init
    <3>. QED BY <3>1, <2>1
  <2>. QED BY <2>1, <2>2 DEF CostsFit
<1>4. ResetInv
  <2>1. supporter \in [Ids -> propositions \cup {Nothing}] /\ supporterCost \in [Ids -> Values]
      BY DEF Init, Values
  <2>2. touched = {} /\ \A r \in Ids : counter[r] = Cardinality(relaxed[r].pre)
      BY DEF Init
  <2>. QED BY <1>3, <2>1, <2>2 DEF ResetInv
<1> QED BY <1>1, <1>4 DEF EvaluationInv, IsEvaluating

\* A step that changes nothing.
LEMMA RecallStep ==
    ASSUME UNCHANGED vars
    PROVE  SameState /\ UNCHANGED <<phase, cost, counter, supporter, supporterCost, hMax, queue, touched, total, cut, estimates>>
BY DEF vars, given, search, SameState

\* A step that changes nothing keeps the invariant.
LEMMA IdleStep ==
    ASSUME EvaluationInv, UNCHANGED vars
    PROVE  EvaluationInv'
<1>1. SameState /\ UNCHANGED <<phase, cost, counter, supporter, supporterCost, hMax, queue, touched, total, cut, estimates>>
    BY RecallStep
<1>2. GivenInv /\ GivenInv' /\ Ids' = Ids /\ relaxed' = relaxed /\ propositions' = propositions /\ state' = state
      /\ states' = states
    BY <1>1, GivenStays, SetsStay DEF SameState, SameGiven, EvaluationInv
<1>3. ResetInv => ResetInv'
    BY <1>1, <1>2 DEF ResetInv, CostsFit
<1>4. ExplorationInv => ExplorationInv'
  <2>1. SUFFICES ASSUME ExplorationInv PROVE ExplorationInv'
      OBVIOUS
  <2>2. AreSupported(hMax, supporter)'
    <3>1. ASSUME NEW r \in Ids PROVE IsSupported(hMax, supporter, r)'
      <4>1. IsSupported(hMax, supporter, r)
          BY <2>1 DEF ExplorationInv, AreSupported
      <4>2. hMax = hMax' /\ supporter = supporter' /\ counter' = counter
          BY <1>1
      <4>. QED BY <1>1, <4>1, <4>2, SupportedThen DEF IsSupported
    <3>. QED BY <3>1, <1>2 DEF AreSupported
  <2>3. Initially' = Initially /\ Waiting' = Waiting
      BY <1>1 DEF Initially, Waiting, SameState
  <2>4. \A r \in Ids : Pending(hMax, Waiting, r)' = Pending(hMax, Waiting, r)
      BY <1>1, <1>2, <2>3 DEF Pending
  <2>5. IsHMax(hMax)'
      BY <1>1, <1>2, <2>1 DEF IsHMax, ExplorationInv
  <2>. QED BY <1>1, <1>2, <2>1, <2>2, <2>3, <2>4, <2>5 DEF ExplorationInv
<1> QED BY <1>1, <1>2, <1>3, <1>4 DEF EvaluationInv, IsEvaluating

\* Every step keeps it.
LEMMA EvaluationNext ==
    ASSUME EvaluationInv, ProperTasks, [Next]_vars
    PROVE  EvaluationInv'
<1>1. CASE Recall
    BY <1>1, IdleStep DEF Recall
<1>2. CASE Evaluate
    BY <1>2, EvaluateStep
<1>3. CASE Explore
    BY <1>3, ExploreStep
<1>4. CASE Cut
    BY <1>4, CutStep
<1>5. CASE Update
    BY <1>5, UpdateStep
<1>6. CASE Conclude
    BY <1>6, ConcludeStep
<1>7. CASE UNCHANGED vars
    BY <1>7, IdleStep
<1> QED BY <1>1, <1>2, <1>3, <1>4, <1>5, <1>6, <1>7 DEF Next

\* LandmarkCutLandmarks: between evaluations, operators that were not touched are as
\* initialised; during one, costs are what the cuts left, counters and supporters are those
\* of what is reached, and what holds in the state costs nothing.
THEOREM EvaluationsAreSound ==
    ASSUME ProperTasks
    PROVE  Spec => []EvaluationInv
<1>1. Init => EvaluationInv
    BY FirstEvaluation
<1>2. EvaluationInv /\ [Next]_vars => EvaluationInv'
    BY EvaluationNext
<1> QED BY <1>1, <1>2, PTL DEF Spec

-----------------------------------------------------------------------------
(* Landmarks *)

\* A cut that is made is a landmark; other steps keep the one before, or have none.
LEMMA LandmarkNext ==
    ASSUME EvaluationInv, ProperTasks, RelaxedTasks, CutIsALandmark, [Next]_vars
    PROVE  CutIsALandmark'
<1>1. CASE UNCHANGED <<task, relaxed, state, cut>>
  <2>1. Origins(cut)' = Origins(cut)
      BY <1>1 DEF Origins
  <2>2. ReachableWithout(task, Origins(cut), state)' = ReachableWithout(task, Origins(cut), state)
      BY <1>1, <2>1
  <2>. QED BY <1>1, <2>2 DEF CutIsALandmark
<1>2. CASE cut' = {}
    BY <1>2 DEF CutIsALandmark
<1>3. CASE Cut /\ CutIsMade
  <2>1. IsReady /\ cut' = CutEdges
      BY <1>3, CutStep DEF CutIsMade
  <2>2. task' = task /\ relaxed' = relaxed /\ state' = state
      BY <1>3, CutCases DEF SameState
  <2>3. Origins(cut)' = Origins(CutEdges)
      BY <2>1, <2>2 DEF Origins
  <2>4. ReachableWithout(task, Origins(cut), state)' = ReachableWithout(task, Origins(CutEdges), state)
      BY <2>2, <2>3
  <2>5. \A u \in ReachableWithout(task, Origins(CutEdges), state) : ~ IsGoalState(task, u)
      BY <2>1, CutSeparates
  <2>. QED BY <2>2, <2>4, <2>5 DEF CutIsALandmark
<1>4. CASE Recall \/ UNCHANGED vars
  <2>1. UNCHANGED <<task, relaxed, state, cut>>
      BY <1>4, RecallStep DEF Recall, SameState
  <2>. QED BY <2>1, <1>1
<1>5. CASE Evaluate
  <2>1. UNCHANGED <<task, relaxed>> /\ (cut' = {} \/ UNCHANGED <<state, cut>>)
      BY <1>5 DEF Evaluate, given
  <2>. QED BY <2>1, <1>1, <1>2
<1>6. CASE Explore \/ Update \/ Conclude
  <2>1. UNCHANGED <<task, relaxed, state, cut>>
      BY <1>6 DEF Explore, Update, Conclude, given
  <2>. QED BY <2>1, <1>1
<1>7. CASE Cut /\ ~ CutIsMade
  <2>1. UNCHANGED <<task, relaxed, state, cut>>
      BY <1>7, CutCases DEF SameState
  <2>. QED BY <2>1, <1>1
<1> QED BY <1>3, <1>4, <1>5, <1>6, <1>7 DEF Next

\* compute_landmarks_impl: every plan of the task, not only of its relaxation, uses an
\* operator of the cut, also when the costs it was found with are left from earlier cuts and
\* the exploration was updated incrementally.
THEOREM CutsAreLandmarks ==
    ASSUME ProperTasks, RelaxedTasks
    PROVE  Spec => []CutIsALandmark
<1>1. Init => CutIsALandmark
    BY DEF Init, CutIsALandmark
<1>2. EvaluationInv /\ CutIsALandmark /\ [Next]_vars => CutIsALandmark'
    BY LandmarkNext
<1>3. Spec => []EvaluationInv
    BY EvaluationsAreSound
<1> QED BY <1>1, <1>2, <1>3, PTL DEF Spec

-----------------------------------------------------------------------------
(* Potentials: what bounds the cost of the cuts from above *)

\* Finitely many positive numbers have a common multiple.
LEMMA CommonMultiple ==
    ASSUME NEW S \in SUBSET (Nat \ {0}), IsFiniteSet(S)
    PROVE  \E N \in Nat \ {0} : \A d \in S : \E k \in Nat : N = d * k
<1> DEFINE IsMultiple(N, X) == N \in Nat \ {0} /\ \A d \in X : \E k \in Nat : N = d * k
           T == {n \in Nat : \A X \in SUBSET (Nat \ {0}) :
                                 IsFiniteSet(X) /\ Cardinality(X) = n => \E N : IsMultiple(N, X)}
<1>1. 0 \in T
  <2>1. ASSUME NEW X \in SUBSET (Nat \ {0}), IsFiniteSet(X), Cardinality(X) = 0 PROVE IsMultiple(1, X)
    <3>1. X = {}
        BY <2>1, FS_EmptySet
    <3>. QED BY <3>1
  <2>. QED BY <2>1
<1>2. ASSUME NEW n \in Nat, n \in T PROVE n + 1 \in T
  <2>1. ASSUME NEW X \in SUBSET (Nat \ {0}), IsFiniteSet(X), Cardinality(X) = n + 1
        PROVE  \E N : IsMultiple(N, X)
    <3>1. X # {}
        BY <2>1, FS_EmptySet
    <3>2. PICK x \in X : TRUE
        BY <3>1
    <3> DEFINE Y == X \ {x}
    <3>3. IsFiniteSet(Y) /\ Cardinality(Y) = n /\ Y \in SUBSET (Nat \ {0})
      <4>1. IsFiniteSet(X \ {x}) /\ Cardinality(X \ {x}) = Cardinality(X) - 1
          BY <2>1, <3>2, FS_RemoveElement
      <4>2. Y \in SUBSET (Nat \ {0})
          OBVIOUS
      <4>3. n + 1 - 1 = n
          OBVIOUS
      <4>. QED BY <2>1, <4>1, <4>2, <4>3
    <3>4. PICK N : IsMultiple(N, Y)
      <4> HIDE DEF Y, IsMultiple
      <4>. QED BY <3>3, <1>2
    <3>5. N * x \in Nat \ {0}
        BY <3>2, <3>4, ProductsArePositive
    <3>6. ASSUME NEW d \in X PROVE \E k \in Nat : N * x = d * k
      <4>1. CASE d = x
        <5>1. N * x = x * N /\ N \in Nat
            BY <3>2, <3>4
        <5>. QED BY <5>1, <4>1
      <4>2. CASE d # x
        <5>1. PICK k \in Nat : N = d * k
            BY <4>2, <3>4
        <5>2. k * x \in Nat /\ (d * k) * x = d * (k * x)
            BY <3>2, ProductsArePositive, ProductsAssociate
        <5>. QED BY <5>1, <5>2
      <4>. QED BY <4>1, <4>2
    <3>7. IsMultiple(N * x, X)
        BY <3>5, <3>6
    <3> HIDE DEF IsMultiple
    <3>. QED BY <3>7
  <2>2. n + 1 \in Nat
      OBVIOUS
  <2> HIDE DEF IsMultiple
  <2>. QED BY <2>1, <2>2
<1>3. \A n \in Nat : n \in T
  <2> HIDE DEF T
  <2>. QED BY <1>1, <1>2, Counting
<1>4. Cardinality(S) \in Nat
    BY FS_CardinalityType
<1>5. \E N : IsMultiple(N, S)
  <2> HIDE DEF IsMultiple
  <2>. QED BY <1>3, <1>4
<1> QED BY <1>5

\* An operator costs no more than the potential falls on it, apart from what the cuts
\* left; the cost of the cuts is no more than the potential of the state; all multiplied
\* by a common denominator.
IsPotential(scale, left, potential) ==
    /\ scale \in Nat \ {0}
    /\ left \in [DOMAIN task.operators -> Nat]
    /\ potential \in [states -> Int]
    /\ \A r \in Ids : relaxed[r].origin # NoOrigin =>
           cost[r][1] * scale <= left[relaxed[r].origin] * cost[r][2]
    /\ \A u \in states : \A o \in Applicable(task, u) :
           potential[u] <= potential[Successor(task, o, u)] + (scale * task.costs[o] - left[o])
    /\ \A u \in states : IsGoalState(task, u) => potential[u] <= 0
    /\ total[1] * scale <= potential[state] * total[2]

\* The task's costs are natural numbers.
LEMMA CostsAreNatural ==
    ASSUME GivenInv
    PROVE  /\ task.costs \in [DOMAIN task.operators -> Nat]
           /\ \A u : Applicable(task, u) \subseteq DOMAIN task.operators
BY TasksAssumption DEF GivenInv, IsTask, Applicable

\* Before the first cut nothing is charged.
LEMMA FirstPotential ==
    ASSUME GivenInv, ProperTasks, CostsFit, state \in states, total = Zero
    PROVE  \E scale, left, potential : IsPotential(scale, left, potential)
<1> DEFINE zero == [u \in states |-> 0]
<1>1. task.costs \in [DOMAIN task.operators -> Nat] /\ \A u : Applicable(task, u) \subseteq DOMAIN task.operators
    BY CostsAreNatural
<1>2. ASSUME NEW r \in Ids, relaxed[r].origin # NoOrigin
      PROVE  cost[r][1] * 1 <= task.costs[relaxed[r].origin] * cost[r][2]
  <2>1. /\ cost[r] \in Amounts /\ cost[r][1] <= relaxed[r].cost * cost[r][2]
        /\ relaxed[r].cost = task.costs[relaxed[r].origin]
      BY <1>2, RelaxedFacts DEF ProperTasks, IsRelaxedOperator, CostsFit
  <2>2. cost[r][1] \in Nat
      BY <2>1, AmountFacts
  <2>. QED BY <2>1, <2>2
<1>3. ASSUME NEW u \in states, NEW o \in Applicable(task, u)
      PROVE  zero[u] <= zero[Successor(task, o, u)] + (1 * task.costs[o] - task.costs[o])
  <2>1. Successor(task, o, u) \in states /\ task.costs[o] \in Nat
      BY <1>1, SuccessorsAreStates
  <2>. QED BY <2>1
<1>4. total[1] * 1 <= zero[state] * total[2]
    BY DEF Zero
<1>5. 1 \in Nat \ {0} /\ zero \in [states -> Int] /\ \A u \in states : zero[u] <= 0
    OBVIOUS
<1>6. IsPotential(1, task.costs, zero)
  <2> HIDE DEF zero
  <2>. QED BY <1>1, <1>2, <1>3, <1>4, <1>5 DEF IsPotential
<1> QED BY <1>6

\* No potential exceeds what a plan costs.
LEMMA PotentialsAreAdmissible ==
    ASSUME GivenInv, CostsArePaid(task, StatesOf(task)), NEW scale, NEW left, NEW potential,
           IsPotential(scale, left, potential),
           NEW s \in states, TrueDistances[task][s] # Infinite
    PROVE  TrueDistances[task][s] \in Nat /\ potential[s] <= scale * TrueDistances[task][s]
<1> DEFINE d == TrueDistances[task]
           S == {u \in states : d[u] < Infinite /\ ~ (potential[u] <= scale * d[u])}
           through(u, o) == Price(task, o, u) + d[Successor(task, o, u)]
<1>1. /\ d \in [states -> 0..Infinite]
      /\ \A u \in states : IsGoalState(task, u) => d[u] = 0
      /\ \A T \in SUBSET {u \in states : ~ IsGoalState(task, u) /\ d[u] < Infinite} :
             T # {} => \E u \in T : \E o \in Applicable(task, u) :
                           Successor(task, o, u) \notin T /\ d[u] = through(u, o)
    BY DistancesAssumption DEF AreGoalDistances, StatesOf, GivenInv
<1>2. scale \in Nat \ {0} /\ potential \in [states -> Int]
    BY DEF IsPotential
<1>3. \A u \in states : Infinite \in Nat /\ d[u] \in Nat /\ d[u] <= Infinite
    BY <1>1, InfiniteAssumption
<1> HIDE DEF d
<1>4. S = {}
  <2>1. SUFFICES ASSUME S # {} PROVE FALSE
      OBVIOUS
  <2>2. S \in SUBSET {u \in states : ~ IsGoalState(task, u) /\ d[u] < Infinite}
    <3>1. ASSUME NEW u \in S PROVE ~ IsGoalState(task, u)
      <4>1. SUFFICES ASSUME IsGoalState(task, u) PROVE FALSE
          OBVIOUS
      <4>2. u \in states /\ d[u] = 0 /\ potential[u] <= 0 /\ potential[u] \in Int
          BY <4>1, <1>1, <1>2 DEF IsPotential
      <4>3. scale * 0 = 0
          BY <1>2
      <4>. QED BY <4>2, <4>3
    <3>. QED BY <3>1
  <2>3. PICK u \in S : \E o \in Applicable(task, u) : Successor(task, o, u) \notin S /\ d[u] = through(u, o)
      BY <1>1, <2>1, <2>2
  <2>4. PICK o \in Applicable(task, u) : Successor(task, o, u) \notin S /\ d[u] = through(u, o)
      BY <2>3
  <2> DEFINE v == Successor(task, o, u)
             price == Price(task, o, u)
             c == task.costs[o]
  <2>5. v \in states /\ v \notin S /\ d[u] = price + d[v] /\ u \in states
      BY <2>3, <2>4, SuccessorsAreStates
  <2>6. price \in Nat /\ c \in Nat /\ c <= price /\ left[o] \in Nat
    <3>1. u \in StatesOf(task) /\ task \in Tasks
        BY <2>5 DEF GivenInv
    <3>2. price \in Nat /\ c <= price
        BY <3>1, PricesAssumption DEF PricesAreNatural, CostsArePaid
    <3>3. c \in Nat /\ o \in DOMAIN task.operators
        BY CostsAreNatural
    <3>. QED BY <3>2, <3>3 DEF IsPotential
  <2>7. potential[u] <= potential[v] + (scale * c - left[o])
      BY <2>5 DEF IsPotential
  <2>8. ~ (potential[u] <= scale * d[u]) /\ d[u] < Infinite
      BY <2>3
  <2>9. potential[v] <= scale * d[v]
      BY <2>5, <2>6, <2>8, <1>3
  <2>10. scale * (price + d[v]) = scale * price + scale * d[v] /\ scale * c <= scale * price
    <3>1. price \in Int /\ c \in Int /\ d[v] \in Int /\ scale \in Nat
        BY <1>2, <1>3, <2>5, <2>6
    <3>. QED BY <3>1, <2>6, ProductsDistribute, ProductsGrow
  <2>11. potential[u] \in Int /\ potential[v] \in Int /\ scale * c \in Int /\ scale * price \in Int
         /\ scale * d[v] \in Int
      BY <1>2, <1>3, <2>5, <2>6, ProductsAssociate
  <2> HIDE DEF v, price, c, S
  <2>12. potential[u] <= scale * price + scale * d[v]
      BY <2>6, <2>7, <2>9, <2>10, <2>11
  <2>. QED BY <2>5, <2>8, <2>10, <2>12
<1>5. s \notin S /\ d[s] \in Nat /\ d[s] < Infinite
  <2>1. d[s] # Infinite
      BY DEF d
  <2>. QED BY <2>1, <1>3, <1>4
<1>6. d[s] \in Nat /\ potential[s] <= scale * d[s]
    BY <1>5
<1> QED BY <1>6 DEF d

-----------------------------------------------------------------------------
(* What a cut takes is paid *)

\* What is not before the goal zone, and how far it is from holding.
Outside == propositions \ Before
Far(p) == Distance(task, p, state)
\* A number that the denominators of a cut divide.
IsCommon(N) ==
    /\ N \in Nat \ {0}
    /\ \A o \in DOMAIN task.operators : \E k \in Nat : N = Whole(o) * k
    /\ \E k \in Nat : N = CutCost[2] * k
    /\ \A p \in Outside : \E k \in Nat : N = (CutCost[2] * Far(p)) * k

\* Nothing outside holds in the state.
LEMMA OutsideFacts ==
    ASSUME IsReady, NEW p \in Outside
    PROVE  p \in propositions /\ ~ IsTrue(task, p, state) /\ Far(p) \in Nat \ {0}
<1>1. GivenInv /\ ProperTasks /\ ResetInv /\ state \in states
    BY ReadyFacts
<1>2. p \in propositions /\ ~ IsTrue(task, p, state)
    BY <1>1, BeforeFacts DEF Outside, Initially
<1> QED BY <1>1, <1>2, DistanceFacts DEF Far

\* There are finitely many denominators.
LEMMA CommonExists ==
    ASSUME IsReady, CutEdges # {}
    PROVE  \E N : IsCommon(N)
<1> DEFINE K2 == CutCost[2]
           A == {Whole(o) : o \in Origins(CutEdges)}
           B == {K2 * Far(p) : p \in Outside}
           S == (A \cup B) \cup {K2}
<1>1. GivenInv /\ ProperTasks /\ CutEdges \subseteq AllEdges /\ K2 \in Nat \ {0}
    BY ReadyFacts, CutCostFacts, AmountFacts
<1>2. A \in SUBSET (Nat \ {0})
    BY TakenFacts
<1>3. B \in SUBSET (Nat \ {0})
  <2> HIDE DEF K2
  <2>1. ASSUME NEW p \in Outside PROVE K2 * Far(p) \in Nat \ {0}
      BY <1>1, OutsideFacts, ProductsArePositive
  <2>. QED BY <2>1
<1>4. IsFiniteSet(A)
  <2> DEFINE R == Ids
             f == [r \in R |-> Whole(relaxed[r].origin)]
  <2>1. IsFiniteSet(R) /\ DOMAIN f = R
      BY <1>1, RelaxedFacts DEF ProperTasks
  <2>2. ASSUME NEW o \in Origins(CutEdges) PROVE \E r \in R : Whole(o) = f[r]
    <3>1. PICK e \in CutEdges : o = relaxed[e[1]].origin
        BY DEF Origins
    <3>2. e[1] \in R
        BY <1>1 DEF AllEdges
    <3>. QED BY <3>1, <3>2
  <2> HIDE DEF f, R
  <2>3. A \in SUBSET {f[r] : r \in R}
      BY <2>2
  <2>4. IsFiniteSet({f[r] : r \in R})
      BY <2>1, Images
  <2> HIDE DEF A
  <2>. QED BY <2>3, <2>4, FS_Subset
<1>5. IsFiniteSet(B)
  <2> DEFINE P == Outside
             f == [p \in P |-> K2 * Far(p)]
  <2>1. IsFiniteSet(P) /\ DOMAIN f = P
    <3>1. IsFiniteSet(propositions) /\ P \in SUBSET propositions
        BY <1>1, RelaxedFacts DEF ProperTasks, Outside
    <3>. QED BY <3>1, FS_Subset
  <2>2. B = {f[p] : p \in P}
      OBVIOUS
  <2> HIDE DEF f, P, B
  <2>. QED BY <2>1, <2>2, Images
<1> HIDE DEF A, B, K2
<1>6. IsFiniteSet(S)
    BY <1>4, <1>5, FS_Union, FS_AddElement
<1>7. S \in SUBSET (Nat \ {0})
    BY <1>1, <1>2, <1>3
<1>8. PICK N \in Nat \ {0} : \A d \in S : \E k \in Nat : N = d * k
    BY <1>6, <1>7, CommonMultiple
<1>9. ASSUME NEW o \in DOMAIN task.operators PROVE \E k \in Nat : N = Whole(o) * k
  <2>1. CASE o \in Origins(CutEdges)
    <3>1. Whole(o) \in S
        BY <2>1 DEF A
    <3>. QED BY <3>1, <1>8
  <2>2. CASE o \notin Origins(CutEdges)
    <3>1. Whole(o) = 1 /\ N = 1 * N
        BY <2>2 DEF Whole, IsReduced
    <3>. QED BY <3>1
  <2>. QED BY <2>1, <2>2
<1>10. \E k \in Nat : N = K2 * k
    BY <1>8
<1>11. \A p \in Outside : \E k \in Nat : N = (K2 * Far(p)) * k
  <2>1. ASSUME NEW p \in Outside PROVE K2 * Far(p) \in S
      BY DEF B
  <2>. QED BY <2>1, <1>8
<1> QED BY <1>9, <1>10, <1>11 DEF IsCommon, K2

\* What a step brings a proposition nearer, as far as it was at first, is paid for by the
\* multiplier of the operator.
LEMMA StepsAreMultiplied ==
    ASSUME GivenInv, ProperTasks, state \in states, NEW r \in Ids, NEW p \in propositions,
           NEW s \in states, NEW u \in states, IsRelaxed(task, relaxed[r], p, s, u),
           Distance(task, p, u) < Distance(task, p, s), ~ IsTrue(task, p, state),
           NEW x \in Nat, x <= Far(p), x <= Distance(task, p, s) - Distance(task, p, u)
    PROVE  LET m == Multiplier(r, p, ~ options.disableMa)
           IN  m \in Amounts /\ m # Zero /\ m[1] * x <= m[2] * Far(p)
<1> DEFINE multiplied == ~ options.disableMa
           m == Multiplier(r, p, multiplied)
           n == net[r][p]
           D == Far(p)
           y == Distance(task, p, s) - Distance(task, p, u)
<1>1. /\ p \in relaxed[r].effects /\ Less(Zero, m)
      /\ Multiplied(r, p, multiplied) => n \in Nat \ {0} /\ y <= n
    BY HelpersLead
<1>2. /\ m \in Amounts
      /\ ~ Multiplied(r, p, multiplied) => m = <<1, 1>>
      /\ Multiplied(r, p, multiplied) /\ m # Zero /\ m # <<1, 1>> => Is(m, Need(p, state), n)
    BY <1>1, MultiplierFacts DEF ProperTasks
<1>3. m # Zero /\ m[1] \in Nat /\ m[2] \in Nat
    BY <1>1, <1>2, AmountFacts
<1>4. /\ D \in Nat /\ y \in Int
      /\ IsCondition(p) => D = Need(p, state)
    BY DistanceFacts DEF Far
<1>5. x <= y
    OBVIOUS
<1>6. CASE m = <<1, 1>>
  <2>1. m[1] = 1 /\ m[2] = 1
      BY <1>6
  <2> HIDE DEF m, D
  <2>2. 1 * x <= 1 * D
      BY <1>4 DEF D
  <2>3. m[1] * x <= m[2] * D
      BY <2>1, <2>2
  <2>. QED BY <2>3, <1>2, <1>3 DEF m, D
<1>7. CASE m # <<1, 1>>
  <2>1. Multiplied(r, p, multiplied)
      BY <1>2, <1>7
  <2>2. m[1] * n = D * m[2] /\ x <= n /\ n \in Nat
      BY <2>1, <1>1, <1>2, <1>3, <1>4, <1>5, <1>7 DEF Is, Multiplied
  <2> HIDE DEF m, D, n
  <2>3. m[1] * x <= m[1] * n
      BY <2>2, <1>3, ProductsGrow
  <2>4. D * m[2] = m[2] * D
      BY <1>3, <1>4, ProductsAssociate
  <2>5. m[1] * x <= m[2] * D
      BY <2>2, <2>3, <2>4
  <2>. QED BY <2>5, <1>2, <1>3 DEF m, D
<1> QED BY <1>6, <1>7

\* N as a multiple of d.
Multiple(N, d) == CHOOSE k \in Nat : N = d * k

\* It exists where d divides N.
LEMMA MultipleFacts ==
    ASSUME NEW N, NEW d, \E k \in Nat : N = d * k
    PROVE  Multiple(N, d) \in Nat /\ N = d * Multiple(N, d)
BY DEF Multiple

\* How far the potential rises by a cut: less, the nearer a state is to what is not
\* before the goal zone.
Height(N, M) == (M * CutCost[1]) * Multiple(N, CutCost[2])
Weight(N, M, p) == (M * CutCost[1]) * Multiple(N, CutCost[2] * Far(p))
Climbs(N, M, u) == {Height(N, M)} \cup {Weight(N, M, p) * Distance(task, p, u) : p \in Outside}
Rise(N, M, u) == Min(Climbs(N, M, u))

\* Every proposition outside is as high as the cut, seen from the state.
LEMMA WeightFacts ==
    ASSUME IsReady, CutEdges # {}, NEW N, IsCommon(N), NEW M \in Nat \ {0}
    PROVE  /\ Height(N, M) \in Nat
           /\ \A p \in Outside : Weight(N, M, p) \in Nat /\ Weight(N, M, p) * Far(p) = Height(N, M)
<1> DEFINE k1 == CutCost[1]
           k2 == CutCost[2]
           j == Multiple(N, k2)
           a == M * k1
<1>1. k1 \in Nat /\ k2 \in Nat \ {0}
    BY CutCostFacts, AmountFacts
<1> HIDE DEF k1, k2
<1>2. j \in Nat /\ N = k2 * j
    BY MultipleFacts DEF IsCommon, k2
<1>3. a \in Nat
    BY <1>1, ProductsArePositive
<1>4. Height(N, M) = a * j
    BY DEF Height, k1, k2
<1> HIDE DEF j, a
<1>5. Height(N, M) \in Nat
    BY <1>2, <1>3, <1>4, ProductsArePositive
<1>6. ASSUME NEW p \in Outside PROVE Weight(N, M, p) \in Nat /\ Weight(N, M, p) * Far(p) = Height(N, M)
  <2> DEFINE D == Far(p)
             i == Multiple(N, k2 * D)
  <2>1. D \in Nat
      BY OutsideFacts
  <2>2. i \in Nat /\ N = (k2 * D) * i
      BY MultipleFacts DEF IsCommon, k2
  <2>3. Weight(N, M, p) = a * i
      BY DEF Weight, a, k1, k2
  <2> HIDE DEF D, i
  <2>4. (D * i) * k2 = j * k2
    <3>1. (k2 * D) * i = (D * i) * k2 /\ k2 * j = j * k2
        BY <1>1, <1>2, <2>1, <2>2
    <3>. QED BY <3>1, <1>2, <2>2
  <2>5. D * i \in Nat /\ a * i \in Nat
      BY <1>3, <2>1, <2>2, ProductsArePositive
  <2>6. D * i = j
      BY <1>1, <1>2, <2>4, <2>5, ProductsCancel
  <2>7. (a * i) * D = a * (D * i)
      BY <1>3, <2>1, <2>2
  <2>. QED BY <1>4, <2>3, <2>5, <2>6, <2>7 DEF D
<1> QED BY <1>5, <1>6

\* The rise of a state is one of what it is the least of.
LEMMA RiseFacts ==
    ASSUME IsReady, CutEdges # {}, NEW N, IsCommon(N), NEW M \in Nat \ {0}, NEW u \in states
    PROVE  /\ Rise(N, M, u) \in Nat /\ Rise(N, M, u) <= Height(N, M)
           /\ \A p \in Outside : Rise(N, M, u) <= Weight(N, M, p) * Distance(task, p, u)
           /\ \/ Rise(N, M, u) = Height(N, M)
              \/ \E p \in Outside : Rise(N, M, u) = Weight(N, M, p) * Distance(task, p, u)
<1> DEFINE S == Climbs(N, M, u)
<1>1. ASSUME NEW p \in Outside PROVE Weight(N, M, p) * Distance(task, p, u) \in Nat
  <2>1. Distance(task, p, u) \in Nat /\ Weight(N, M, p) \in Nat
      BY ReadyFacts, OutsideFacts, DistanceFacts, WeightFacts
  <2>. QED BY <2>1, ProductsArePositive
<1>2. S \in SUBSET Nat /\ S # {}
    BY <1>1, WeightFacts DEF Climbs
<1> HIDE DEF S
<1>3. Min(S) \in S /\ \A n \in S : Min(S) <= n
    BY <1>2, LeastNatural
<1> QED BY <1>2, <1>3 DEF Rise, S, Climbs

\* It rises most in the state evaluated, and not in a goal state.
LEMMA RiseOfState ==
    ASSUME IsReady, CutEdges # {}, NEW N, IsCommon(N), NEW M \in Nat \ {0}
    PROVE  Rise(N, M, state) = Height(N, M)
<1>1. state \in states
    BY ReadyFacts
<1>2. \A p \in Outside : Weight(N, M, p) * Distance(task, p, state) = Height(N, M)
    BY WeightFacts DEF Far
<1> QED BY <1>1, <1>2, RiseFacts

\* It is 0 where something outside holds.
LEMMA RiseIsNothing ==
    ASSUME IsReady, CutEdges # {}, NEW N, IsCommon(N), NEW M \in Nat \ {0}, NEW u \in states,
           NEW p \in Outside, IsTrue(task, p, u)
    PROVE  Rise(N, M, u) = 0
<1>1. Distance(task, p, u) = 0
    BY ReadyFacts, OutsideFacts, DistanceFacts
<1>2. Weight(N, M, p) \in Nat
    BY WeightFacts
<1>3. Weight(N, M, p) * 0 = 0
    BY <1>2
<1>4. Rise(N, M, u) <= 0 /\ Rise(N, M, u) \in Nat
    BY <1>1, <1>3, RiseFacts
<1> QED BY <1>4

\* So it is in goal states.
LEMMA RiseOfGoals ==
    ASSUME IsReady, RelaxedTasks, CutEdges # {}, NEW N, IsCommon(N), NEW M \in Nat \ {0}, NEW u \in states,
           IsGoalState(task, u)
    PROVE  Rise(N, M, u) = 0
<1>1. GivenInv /\ ProperTasks
    BY ReadyFacts
<1>2. PICK r \in Ids : ReachesGoal(r)
    BY <1>1, RelaxedFacts DEF ProperTasks
<1>3. PICK p \in relaxed[r].pre : p \notin Before
    BY <1>2, GoalIsBehind
<1>4. p \in Outside
    BY <1>1, <1>3, RelaxedFacts DEF ProperTasks, IsRelaxedOperator, Outside
<1>5. IsTrue(task, p, u)
    BY <1>1, <1>2, <1>3, GoalsAreRelaxed
<1> QED BY <1>4, <1>5, RiseIsNothing

\* A step brings it down by no more than what the cut takes from the operator.
LEMMA StepIsCharged ==
    ASSUME IsReady, RelaxedTasks, NEW N, IsCommon(N),
           NEW M, NEW left, NEW potential, IsPotential(M, left, potential),
           NEW u \in states, NEW o \in Applicable(task, u), TrueAt(u) \subseteq Before,
           NEW p \in Outside, NEW x \in Nat, x <= Far(p), x # 0, CutCost[1] # 0,
           x <= Distance(task, p, u) - Distance(task, p, Successor(task, o, u))
    PROVE  Weight(N, M, p) * x <= left[o] * (Multiple(N, Whole(o)) * Taken(o))
<1> DEFINE v == Successor(task, o, u)
<1>1. GivenInv /\ ProperTasks /\ ResetInv /\ CostsFit /\ state \in states /\ M \in Nat \ {0}
    BY ReadyFacts DEF IsPotential
<1>2. v \in states /\ o \in DOMAIN task.operators /\ left[o] \in Nat
    BY <1>1, SuccessorsAreStates, CostsAreNatural DEF IsPotential
<1>3. p \in propositions \ Before /\ p \in propositions
    BY OutsideFacts DEF Outside
<1>4. Distance(task, p, v) \in Nat /\ Distance(task, p, u) \in Nat
    BY <1>1, <1>2, <1>3, DistanceFacts
<1>5. Distance(task, p, v) < Distance(task, p, u)
    BY <1>4
<1>6. PICK r \in Ids, q \in GoalZone :
               /\ relaxed[r].origin = o /\ p \in relaxed[r].effects /\ q \in relaxed[r].effects
               /\ IsRelaxed(task, relaxed[r], p, u, v)
               /\ <<r, q>> \in CutEdges
               /\ ~ Less(EdgeCost(r, p), EdgeCost(r, q))
    BY <1>3, <1>5, StepsOutAreCut
<1>7. o # NoOrigin /\ CutEdges # {}
    BY <1>1, <1>2, <1>6 DEF ProperTasks, IsProper, GivenInv
<1>8. o \in Origins(CutEdges) /\ <<r, q>> \in EdgesOf(CutEdges, o)
    BY <1>6, <1>7 DEF Origins, EdgesOf
<1> DEFINE K == CutCost
           L == LeastOf(o)
           E == EdgeCost(r, p)
           m == Multiplier(r, p, ~ options.disableMa)
           c == cost[r]
<1>9. K \in Amounts /\ L \in Amounts /\ E \in Amounts /\ c \in Amounts
    BY <1>1, <1>6, <1>7, <1>8, CutCostFacts, LeastFacts, EdgeCostFacts DEF CostsFit
<1>10. ~ Less(E, L) /\ ~ Less(L, K)
  <2>1. EdgeCost(r, q) \in Amounts
      BY <1>1, <1>6, EdgeCostFacts
  <2>2. ~ Less(EdgeCost(r, q), L) /\ ~ Less(L, K)
    <3>1. ~ Less(L, K) /\ \A e \in EdgesOf(CutEdges, o) : ~ Less(EdgeCost(e[1], e[2]), L)
        BY <1>8, LeastFacts
    <3>2. <<r, q>>[1] = r /\ <<r, q>>[2] = q
        OBVIOUS
    <3>. QED BY <3>1, <3>2, <1>8
  <2>. QED BY <2>1, <2>2, <1>6, <1>9, LessIsTransitive
<1>11. m \in Amounts /\ m # Zero /\ m[1] * x <= m[2] * Far(p)
    BY <1>1, <1>2, <1>3, <1>5, <1>6, OutsideFacts, StepsAreMultiplied
<1>12. E[1] * (m[2] * c[2]) = (m[1] * c[1]) * E[2]
    BY <1>9, <1>11, Operations DEF EdgeCost, Is
<1>13. c[1] * M <= left[o] * c[2]
    BY <1>6, <1>7 DEF IsPotential
<1>14. /\ Multiple(N, Whole(o)) \in Nat /\ N = Whole(o) * Multiple(N, Whole(o))
       /\ Multiple(N, K[2]) \in Nat /\ N = K[2] * Multiple(N, K[2])
    BY <1>2, MultipleFacts DEF IsCommon
<1>15. Weight(N, M, p) \in Nat /\ Weight(N, M, p) * Far(p) = (M * K[1]) * Multiple(N, K[2])
    BY <1>1, <1>7, WeightFacts DEF Height
<1>16. Far(p) \in Nat
    BY OutsideFacts
<1> HIDE DEF K, L, E, m, c
<1>17. /\ K[1] \in Nat /\ K[2] \in Nat \ {0} /\ L[1] \in Nat /\ L[2] \in Nat \ {0}
       /\ E[1] \in Nat /\ E[2] \in Nat \ {0} /\ c[1] \in Nat /\ c[2] \in Nat \ {0}
       /\ m[1] \in Nat \ {0} /\ m[2] \in Nat \ {0}
    BY <1>9, <1>11, AmountFacts
<1>18. ~ (E[1] * L[2] < L[1] * E[2]) /\ ~ (L[1] * K[2] < K[1] * L[2])
    BY <1>10 DEF Less
<1>19. L[1] # 0
  <2>1. K[1] # 0
      BY DEF K
  <2>2. K[1] * L[2] > 0
      BY <2>1, <1>17, ProductsArePositive
  <2>3. 0 * K[2] = 0
      BY <1>17
  <2>. QED BY <1>18, <2>2, <2>3
<1>20. IsReduced(o)
  <2>1. L # Zero
      BY <1>9, <1>19, AmountFacts
  <2>. QED BY <2>1, <1>8 DEF IsReduced, L
<1>21. Whole(o) = K[2] * L[1] /\ Taken(o) = K[1] * L[2]
    BY <1>20 DEF Whole, Taken, K, L
<1> DEFINE c1 == c[1]
           c2 == c[2]
           e1 == E[1]
           e2 == E[2]
           m1 == m[1]
           m2 == m[2]
           l1 == L[1]
           l2 == L[2]
           k1 == K[1]
           k2 == K[2]
           b == left[o]
           j == Multiple(N, k2)
           i == Multiple(N, Whole(o))
           d == Far(p)
           w == Weight(N, M, p)
<1>22. /\ c1 \in Nat /\ c2 \in Nat \ {0} /\ e1 \in Nat /\ e2 \in Nat \ {0}
       /\ m1 \in Nat \ {0} /\ m2 \in Nat \ {0} /\ l1 \in Nat \ {0} /\ l2 \in Nat \ {0}
       /\ k1 \in Nat /\ k2 \in Nat \ {0}
       /\ b \in Nat /\ M \in Nat \ {0} /\ j \in Nat /\ i \in Nat
       /\ d \in Nat /\ w \in Nat
    BY <1>1, <1>2, <1>14, <1>15, <1>16, <1>17, <1>19
<1>23. /\ e1 * (m2 * c2) = (m1 * c1) * e2
       /\ c1 * M <= b * c2
       /\ (k2 * l1) * i = k2 * j
       /\ m1 * x <= m2 * d
       /\ w * d = (M * k1) * j
    BY <1>11, <1>12, <1>13, <1>14, <1>15, <1>21
<1>24. l1 * e2 <= e1 * l2
  <2>1. ~ (e1 * l2 < l1 * e2)
      BY <1>18
  <2> HIDE DEF e1, e2, l1, l2
  <2>2. e1 * l2 \in Int /\ l1 * e2 \in Int
      BY <1>22, ProductsAssociate
  <2>. QED BY <2>1, <2>2
<1>25. w * x <= b * (i * (k1 * l2))
  <2> HIDE DEF c1, c2, e1, e2, m1, m2, l1, l2, k1, k2, b, j, i, d, w
  <2>. QED BY <1>22, <1>23, <1>24, StepIsPaid
<1> QED BY <1>21, <1>25

\* A step loses of the rise at most what the cut takes from its operator.
LEMMA RiseIsPaid ==
    ASSUME IsReady, RelaxedTasks, CutEdges # {}, NEW N, IsCommon(N),
           NEW M, NEW left, NEW potential, IsPotential(M, left, potential),
           NEW u \in states, NEW o \in Applicable(task, u)
    PROVE  Rise(N, M, u) <= Rise(N, M, Successor(task, o, u)) + left[o] * (Multiple(N, Whole(o)) * Taken(o))
<1> DEFINE v == Successor(task, o, u)
           paid == left[o] * (Multiple(N, Whole(o)) * Taken(o))
           a == Rise(N, M, u)
           b == Rise(N, M, v)
<1>1. GivenInv /\ ProperTasks /\ state \in states /\ M \in Nat \ {0}
    BY ReadyFacts DEF IsPotential
<1>2. v \in states /\ o \in DOMAIN task.operators /\ left[o] \in Nat
    BY <1>1, SuccessorsAreStates, CostsAreNatural DEF IsPotential
<1>3. paid \in Nat
  <2>1. Multiple(N, Whole(o)) \in Nat /\ Taken(o) \in Nat
      BY <1>2, MultipleFacts, TakenFacts DEF IsCommon
  <2>. QED BY <2>1, <1>2, ProductsArePositive
<1>4. /\ a \in Nat /\ b \in Nat /\ a <= Height(N, M) /\ Height(N, M) \in Nat
      /\ \A p \in Outside : a <= Weight(N, M, p) * Distance(task, p, u)
      /\ \/ b = Height(N, M)
         \/ \E p \in Outside : b = Weight(N, M, p) * Distance(task, p, v)
    BY <1>1, <1>2, RiseFacts, WeightFacts
<1> HIDE DEF a, b, paid
<1>5. CASE b = Height(N, M)
    BY <1>3, <1>4, <1>5 DEF a, b, paid, v
<1>6. CASE \E p \in Outside : b = Weight(N, M, p) * Distance(task, p, v) /\ a > b
  <2>1. PICK p \in Outside : b = Weight(N, M, p) * Distance(task, p, v)
      BY <1>6
  <2>2. a > b
      BY <1>6
  <2> DEFINE w == Weight(N, M, p)
             D == Far(p)
             d == Distance(task, p, u)
             e == Distance(task, p, v)
  <2>3. /\ w \in Nat /\ D \in Nat /\ d \in Nat /\ e \in Nat
        /\ w * D = Height(N, M) /\ a <= w * D /\ a <= w * d /\ b = w * e
    <3>1. p \in propositions /\ D \in Nat
        BY OutsideFacts
    <3>. QED BY <3>1, <2>1, <1>1, <1>2, <1>4, WeightFacts, DistanceFacts
  <2>4. TrueAt(u) \subseteq Before
    <3>1. SUFFICES ASSUME NEW q \in TrueAt(u), q \notin Before PROVE FALSE
        OBVIOUS
    <3>2. q \in Outside /\ IsTrue(task, q, u)
        BY <3>1 DEF TrueAt, Outside
    <3>3. a = 0
        BY <3>2, <1>1, RiseIsNothing DEF a
    <3>. QED BY <3>3, <2>2, <1>4
  <2>5. CutCost[1] # 0
    <3>1. SUFFICES ASSUME CutCost[1] = 0 PROVE FALSE
        OBVIOUS
    <3>2. Multiple(N, CutCost[2]) \in Nat
        BY MultipleFacts DEF IsCommon
    <3>3. (M * 0) * Multiple(N, CutCost[2]) = 0
        BY <3>2, <1>1
    <3>4. Height(N, M) = 0
        BY <3>1, <3>3 DEF Height
    <3>. QED BY <3>4, <2>2, <1>4
  <2> DEFINE y == IF D <= d THEN D ELSE d
             x == y - e
  <2>6. y \in Nat /\ y <= D /\ y <= d /\ a <= w * y
      BY <2>3
  <2>7. e < y
    <3> HIDE DEF w, y, e
    <3>1. SUFFICES ASSUME y <= e PROVE FALSE
        BY <2>3, <2>6
    <3>2. w * y <= w * e /\ w * y \in Int /\ w * e \in Int
        BY <3>1, <2>3, <2>6, ProductsGrow, ProductsAssociate
    <3>. QED BY <3>2, <2>2, <2>3, <2>6, <1>4
  <2>8. x \in Nat /\ x # 0 /\ x <= D /\ x <= d - e /\ y = x + e
    <3> HIDE DEF y, D, d, e
    <3>. QED BY <2>3, <2>6, <2>7
  <2> HIDE DEF x
  <2>9. w * x <= paid
      BY <2>4, <2>5, <2>8, StepIsCharged DEF paid
  <2>10. w * y = w * x + w * e /\ w * x \in Int /\ w * e \in Int
    <3> HIDE DEF w, y, e
    <3>. QED BY <2>3, <2>8, ProductsDistribute, ProductsAssociate
  <2> HIDE DEF w, y, e, d, D
  <2>. QED BY <2>3, <2>6, <2>9, <2>10, <1>3, <1>4 DEF a, b, paid, v
<1>7. CASE a <= b
    BY <1>3, <1>4, <1>7 DEF a, b, paid, v
<1> QED BY <1>4, <1>5, <1>6, <1>7 DEF a, b, paid, v

\* The cuts so far are bounded by a potential.
HasPotential == \E scale, left, potential : IsPotential(scale, left, potential)

\* It stays as long as the costs and the total do.
LEMMA PotentialStays ==
    ASSUME HasPotential, SameState, UNCHANGED <<cost, total>>
    PROVE  HasPotential'
<1>1. PICK scale, left, potential : IsPotential(scale, left, potential)
    BY DEF HasPotential
<1>2. Ids' = Ids /\ \A u : Applicable(task, u)' = Applicable(task, u)
    BY DEF SameState, Ids
<1>3. IsPotential(scale, left, potential)'
    BY <1>1, <1>2 DEF IsPotential, SameState
<1> QED BY <1>3 DEF HasPotential

\* Before the first cut, 0 is one.
LEMMA FirstHasPotential ==
    GivenInv /\ ProperTasks /\ CostsFit /\ state \in states /\ total = Zero => HasPotential
BY FirstPotential DEF HasPotential

\* So it is when an evaluation starts.
LEMMA EvaluateHasPotential ==
    ASSUME EvaluationInv, ProperTasks, Evaluate, IsEvaluating'
    PROVE  HasPotential'
<1>1. EvaluationInv'
    BY EvaluateStep
<1>2. GivenInv' /\ CostsFit' /\ (state \in states)'
    BY <1>1 DEF EvaluationInv, IsEvaluating, ResetInv, ExplorationInv
<1>3. total' = Zero
    BY DEF Evaluate, IsEvaluating
<1>4. (total = Zero)'
    BY <1>3 DEF Zero
<1>5. (GivenInv /\ ProperTasks /\ CostsFit /\ state \in states /\ total = Zero => HasPotential)'
    BY FirstHasPotential, PTL
<1>6. ProperTasks'
    BY DEF ProperTasks
<1> QED BY <1>2, <1>4, <1>5, <1>6

\* A cut keeps a potential: the old one and the rise, on a common denominator.
LEMMA CutHasPotential ==
    ASSUME EvaluationInv, ProperTasks, RelaxedTasks, HasPotential, Cut, CutIsMade
    PROVE  HasPotential'
<1>1. /\ IsReady /\ CutEdges # {} /\ total' = Plus(total, CutCost) /\ cost' = Reduced(CutEdges)
      /\ SameState
    BY CutStep, CutCases DEF CutIsMade
<1>2. GivenInv /\ state \in states /\ CostsFit /\ total \in Amounts
    BY <1>1, ReadyFacts DEF ExplorationInv
<1>3. PICK M, left, potential : IsPotential(M, left, potential)
    BY DEF HasPotential
<1>4. PICK N : IsCommon(N)
    BY <1>1, CommonExists
<1> DEFINE k(o) == Multiple(N, Whole(o))
           rest == [o \in DOMAIN task.operators |-> left[o] * (k(o) * (Whole(o) - Taken(o)))]
           risen == [u \in states |-> N * potential[u] + Rise(N, M, u)]
<1>5. /\ M \in Nat \ {0} /\ left \in [DOMAIN task.operators -> Nat] /\ potential \in [states -> Int]
      /\ N \in Nat \ {0}
    BY <1>3, <1>4 DEF IsPotential, IsCommon
<1>6. ASSUME NEW o \in DOMAIN task.operators
      PROVE  /\ left[o] \in Nat /\ k(o) \in Nat /\ N = Whole(o) * k(o)
             /\ Taken(o) \in Nat /\ Whole(o) \in Nat \ {0} /\ Taken(o) <= Whole(o)
             /\ rest[o] = left[o] * (k(o) * (Whole(o) - Taken(o)))
    BY <1>1, <1>4, <1>5, MultipleFacts, TakenFacts DEF IsCommon
<1>7. N * M \in Nat \ {0}
    BY <1>5, ProductsArePositive
<1>8. rest \in [DOMAIN task.operators -> Nat]
  <2>1. ASSUME NEW o \in DOMAIN task.operators PROVE left[o] * (k(o) * (Whole(o) - Taken(o))) \in Nat
    <3> DEFINE y == Whole(o) - Taken(o)
    <3> HIDE DEF k
    <3>3. /\ left[o] \in Nat /\ k(o) \in Nat
          /\ Taken(o) \in Nat /\ Whole(o) \in Nat \ {0} /\ Taken(o) <= Whole(o)
        BY <1>6
    <3>1. y \in Nat /\ left[o] \in Nat /\ k(o) \in Nat
        BY <3>3
    <3> HIDE DEF y
    <3>2. left[o] * (k(o) * y) \in Nat
        BY <3>1, ProductsArePositive
    <3>. QED BY <3>2 DEF y
  <2>. QED BY <2>1
<1>9. ASSUME NEW u \in states
      PROVE  /\ Rise(N, M, u) \in Nat /\ potential[u] \in Int /\ N * potential[u] \in Int
             /\ risen[u] = N * potential[u] + Rise(N, M, u)
  <2>1. Rise(N, M, u) \in Nat /\ potential[u] \in Int
      BY <1>1, <1>4, <1>5, RiseFacts
  <2>. QED BY <2>1, <1>5, ProductsAssociate
<1>10. risen \in [states -> Int]
    BY <1>9
<1> HIDE DEF rest, risen, k
<1>11. ASSUME NEW r \in Ids, relaxed[r].origin # NoOrigin
       PROVE  cost'[r][1] * (N * M) <= rest[relaxed[r].origin] * cost'[r][2]
  <2> DEFINE o == relaxed[r].origin
             a == cost[r]
             c == Reduced(CutEdges)[r]
             n == Taken(o)
             d == Whole(o)
             b == left[o]
             i == k(o)
  <2>1. o \in DOMAIN task.operators
      BY <1>2, <1>11, RelaxedFacts DEF ProperTasks, IsRelaxedOperator
  <2>2. b \in Nat /\ i \in Nat /\ N = d * i /\ n \in Nat /\ d \in Nat \ {0} /\ n <= d
        /\ rest[o] = b * (i * (d - n))
      BY <2>1, <1>6
  <2>3. a \in Amounts /\ c \in Amounts /\ c[1] * (a[2] * d) = (a[1] * (d - n)) * c[2]
      BY <1>1, <1>2, ReducedFacts DEF CostsFit
  <2>4. a[1] * M <= b * a[2]
      BY <1>3, <1>11 DEF IsPotential
  <2> HIDE DEF o, a, c, n, d, b, i
  <2>5. a[1] \in Nat /\ a[2] \in Nat \ {0} /\ c[1] \in Nat /\ c[2] \in Nat \ {0}
      BY <2>3, AmountFacts
  <2> DEFINE a1 == a[1]
             a2 == a[2]
             c1 == c[1]
             c2 == c[2]
  <2>6. c1 * ((d * i) * M) <= (b * (i * (d - n))) * c2
    <3>1. /\ a1 \in Nat /\ a2 \in Nat \ {0} /\ c1 \in Nat /\ c2 \in Nat \ {0}
          /\ c1 * (a2 * d) = (a1 * (d - n)) * c2 /\ a1 * M <= b * a2
        BY <2>3, <2>4, <2>5
    <3> HIDE DEF a1, a2, c1, c2
    <3>. QED BY <3>1, <2>2, <1>5, RestFits
  <2>7. c[1] * (N * M) <= rest[o] * c[2]
      BY <2>2, <2>6
  <2>. QED BY <2>7, <1>1 DEF c, o
<1>12. ASSUME NEW u \in states, NEW o \in Applicable(task, u)
       PROVE  risen[u] <= risen[Successor(task, o, u)] + ((N * M) * task.costs[o] - rest[o])
  <2> DEFINE v == Successor(task, o, u)
             c == task.costs[o]
             b == left[o]
             i == k(o)
             n == Taken(o)
             d == Whole(o)
             p == potential[u]
             q == potential[v]
             s == Rise(N, M, u)
             t == Rise(N, M, v)
  <2>1. v \in states /\ o \in DOMAIN task.operators /\ c \in Nat
      BY <1>2, SuccessorsAreStates, CostsAreNatural
  <2>2. /\ b \in Nat /\ i \in Nat /\ N = d * i /\ n \in Nat /\ d \in Nat /\ n <= d
        /\ rest[o] = b * (i * (d - n))
      BY <2>1, <1>6
  <2>3. p <= q + (M * c - b)
      BY <1>3 DEF IsPotential
  <2>4. s <= t + b * (i * n)
      BY <1>1, <1>3, <1>4, RiseIsPaid DEF k
  <2>5. risen[u] = N * p + s /\ risen[v] = N * q + t /\ s \in Nat /\ t \in Nat /\ p \in Int /\ q \in Int
      BY <2>1, <1>9
  <2> HIDE DEF v, c, b, i, n, d, p, q, s, t
  <2>6. N * p <= N * q + (N * (M * c) - N * b)
    <3>1. M * c \in Int
        BY <1>5, <2>1, ProductsAssociate
    <3> DEFINE y == M * c
    <3> HIDE DEF y
    <3>2. y \in Int
        BY <3>1 DEF y
    <3>3. p <= q + (y - b)
        BY <2>3 DEF y
    <3>4. N * p <= N * (q + (y - b))
        BY <3>2, <3>3, <1>5, <2>2, <2>5, ProductsGrow
    <3>5. N * (q + (y - b)) = N * q + N * (y - b) /\ N * (y - b) = N * y - N * b
      <4>1. y - b \in Int /\ N \in Int /\ b \in Int /\ q \in Int
          BY <3>2, <1>5, <2>2, <2>5
      <4>. QED BY <4>1, <3>2, ProductsDistribute
    <3>. QED BY <3>4, <3>5 DEF y
  <2>7. N * (M * c) = (N * M) * c
      BY <1>5, <2>1, ProductsAssociate
  <2>8. N * b - b * (i * (d - n)) = b * (i * n)
    <3>1. (d * i) * b - b * (i * (d - n)) = b * (i * n)
        BY <2>2
    <3>. QED BY <3>1, <2>2
  <2>9. /\ N * p \in Int /\ N * q \in Int /\ (N * M) * c \in Int /\ N * b \in Int
        /\ b * (i * (d - n)) \in Int /\ b * (i * n) \in Int
    <3>1. d - n \in Int
        BY <2>2
    <3>2. i * (d - n) \in Int /\ i * n \in Int /\ N * M \in Int
        BY <3>1, <1>5, <2>2, ProductsAssociate
    <3>. QED BY <3>2, <1>5, <2>1, <2>2, <2>5, ProductsAssociate
  <2> DEFINE A == N * p
             B == N * q
             C == (N * M) * c
             D == N * b
             E == b * (i * (d - n))
             F == b * (i * n)
  <2>10. A <= B + (C - D) /\ D - E = F /\ s <= t + F
      BY <2>4, <2>6, <2>7, <2>8
  <2>11. A \in Int /\ B \in Int /\ C \in Int /\ D \in Int /\ E \in Int /\ F \in Int
      BY <2>9
  <2>12. risen[u] = A + s /\ risen[v] = B + t /\ rest[o] = E
      BY <2>2, <2>5
  <2> HIDE DEF A, B, C, D, E, F
  <2>13. A + s <= (B + t) + (C - E)
      BY <2>5, <2>10, <2>11
  <2>. QED BY <2>12, <2>13 DEF C, c, v
<1>13. ASSUME NEW u \in states, IsGoalState(task, u) PROVE risen[u] <= 0
  <2>1. Rise(N, M, u) = 0 /\ potential[u] <= 0
      BY <1>1, <1>3, <1>4, <1>5, <1>13, RiseOfGoals DEF IsPotential
  <2>2. N * potential[u] <= N * 0
      BY <2>1, <1>5, <1>9, ProductsGrow
  <2>3. N * 0 = 0
      BY <1>5
  <2>. QED BY <2>1, <2>2, <2>3, <1>9
<1>14. total'[1] * (N * M) <= risen[state] * total'[2]
  <2> DEFINE T == total
             K == CutCost
             S == Plus(T, K)
             b == potential[state]
             j == Multiple(N, CutCost[2])
  <2>1. T \in Amounts /\ K \in Amounts /\ b \in Int /\ T[1] * M <= b * T[2]
      BY <1>1, <1>2, <1>3, <1>5, CutCostFacts DEF IsPotential
  <2>2. S \in Amounts /\ S[1] * (T[2] * K[2]) = (T[1] * K[2] + K[1] * T[2]) * S[2]
      BY <2>1, Operations DEF Is
  <2>3. j \in Nat /\ N = K[2] * j
      BY <1>4, MultipleFacts DEF IsCommon
  <2>4. risen[state] = N * b + (M * K[1]) * j
      BY <1>1, <1>2, <1>4, <1>5, <1>9, RiseOfState DEF Height
  <2>5. total' = S
      BY <1>1
  <2> HIDE DEF T, K, S, b, j
  <2>6. /\ T[1] \in Nat /\ T[2] \in Nat \ {0} /\ K[1] \in Nat /\ K[2] \in Nat \ {0}
        /\ S[1] \in Nat /\ S[2] \in Nat \ {0}
      BY <2>1, <2>2, AmountFacts
  <2> DEFINE t1 == T[1]
             t2 == T[2]
             k1 == K[1]
             k2 == K[2]
             s1 == S[1]
             s2 == S[2]
  <2>7. s1 * ((k2 * j) * M) <= ((k2 * j) * b + (M * k1) * j) * s2
    <3>1. /\ t1 \in Nat /\ t2 \in Nat \ {0} /\ k1 \in Nat /\ k2 \in Nat \ {0}
          /\ s1 \in Nat /\ s2 \in Nat \ {0} /\ s1 * (t2 * k2) = (t1 * k2 + k1 * t2) * s2
          /\ t1 * M <= b * t2
        BY <2>1, <2>2, <2>6
    <3> HIDE DEF t1, t2, k1, k2, s1, s2
    <3>. QED BY <3>1, <2>1, <2>3, <1>5, TotalFits
  <2>8. S[1] * (N * M) <= risen[state] * S[2]
      BY <2>3, <2>4, <2>7
  <2>. QED BY <2>5, <2>8
<1>15. Ids' = Ids /\ \A u : Applicable(task, u)' = Applicable(task, u)
    BY <1>1 DEF SameState, Ids
<1> DEFINE Fits(m, l, q) ==
              /\ m \in Nat \ {0} /\ l \in [DOMAIN task.operators -> Nat] /\ q \in [states -> Int]
              /\ \A r \in Ids : relaxed[r].origin # NoOrigin =>
                     cost'[r][1] * m <= l[relaxed[r].origin] * cost'[r][2]
              /\ \A u \in states : \A o \in Applicable(task, u) :
                     q[u] <= q[Successor(task, o, u)] + (m * task.costs[o] - l[o])
              /\ \A u \in states : IsGoalState(task, u) => q[u] <= 0
              /\ total'[1] * m <= q[state] * total'[2]
<1>16. Fits(N * M, rest, risen)
    BY <1>7, <1>8, <1>10, <1>11, <1>12, <1>13, <1>14
<1>17. PICK m, l, q : Fits(m, l, q)
  <2> HIDE DEF Fits
  <2>. QED BY <1>16
<1>18. task' = task /\ states' = states /\ relaxed' = relaxed /\ state' = state
    BY <1>1 DEF SameState
<1>19. IsPotential(m, l, q)'
    BY <1>15, <1>17, <1>18 DEF IsPotential
<1> QED BY <1>19 DEF HasPotential

\* During an evaluation, some potential bounds the cuts.
PotentialInv == IsEvaluating => HasPotential

\* Every step keeps this.
LEMMA PotentialNext ==
    ASSUME EvaluationInv, ProperTasks, RelaxedTasks, PotentialInv, [Next]_vars
    PROVE  PotentialInv'
<1>1. SUFFICES ASSUME IsEvaluating' PROVE HasPotential'
    BY DEF PotentialInv
<1>2. CASE Evaluate
    BY <1>1, <1>2, EvaluateHasPotential
<1>3. CASE Cut
  <2>1. IsEvaluating /\ (phase' = "failed" \/ CutIsMade)
      BY <1>3, CutCases
  <2>2. CutIsMade
      BY <2>1, <1>1 DEF IsEvaluating
  <2>. QED BY <2>1, <2>2, <1>3, CutHasPotential DEF PotentialInv
<1>4. CASE Explore \/ Update
  <2>1. IsEvaluating /\ SameState /\ UNCHANGED <<cost, total>>
      BY <1>4 DEF Explore, Update, IsEvaluating, SameState, given
  <2>. QED BY <2>1, PotentialStays DEF PotentialInv
<1>5. CASE Conclude
    BY <1>1, <1>5 DEF Conclude, IsEvaluating
<1>6. CASE UNCHANGED vars \/ Recall
  <2>1. SameState /\ UNCHANGED <<phase, cost, total>>
      BY <1>6, RecallStep DEF Recall
  <2>. QED BY <2>1, <1>1, PotentialStays DEF PotentialInv, IsEvaluating
<1> QED BY <1>2, <1>3, <1>4, <1>5, <1>6 DEF Next

\* compute_landmarks_impl: the costs that are left and the total of the cuts split the
\* costs of the task's operators, so that no plan is charged for more than it costs.
THEOREM CutsAreBounded ==
    ASSUME ProperTasks, RelaxedTasks
    PROVE  Spec => []PotentialInv
<1>1. Init => PotentialInv
    BY DEF Init, PotentialInv, IsEvaluating
<1>2. EvaluationInv /\ PotentialInv /\ [Next]_vars => PotentialInv'
    BY PotentialNext
<1>3. Spec => []EvaluationInv
    BY EvaluationsAreSound
<1> QED BY <1>1, <1>2, <1>3, PTL DEF Spec

-----------------------------------------------------------------------------
(* Estimates *)

\* The total of the cuts is at most the cost of a plan.
LEMMA TotalIsAdmissible ==
    ASSUME EvaluationInv, PotentialInv, PaidTasks, IsEvaluating, TrueDistances[task][state] # Infinite
    PROVE  /\ total \in Amounts
           /\ ~ Less(<<TrueDistances[task][state], 1>>, total)
<1> DEFINE d == TrueDistances[task][state]
<1>1. GivenInv /\ total \in Amounts /\ state \in states /\ task \in Tasks
    BY DEF EvaluationInv, ExplorationInv, GivenInv
<1>2. PICK scale, left, potential : IsPotential(scale, left, potential)
    BY DEF PotentialInv, HasPotential
<1>3. /\ scale \in Nat \ {0} /\ potential[state] \in Int
      /\ total[1] * scale <= potential[state] * total[2]
    BY <1>1, <1>2 DEF IsPotential
<1>4. d \in Nat /\ potential[state] <= scale * d
    BY <1>1, <1>2, PotentialsAreAdmissible DEF PaidTasks
<1>5. total[1] \in Nat /\ total[2] \in Nat
    BY <1>1, AmountFacts
<1> DEFINE t1 == total[1]
           t2 == total[2]
           p == potential[state]
<1>6. t1 <= d * t2
  <2>1. t1 * scale <= p * t2 /\ p <= scale * d /\ t1 \in Nat /\ t2 \in Nat /\ p \in Int
      BY <1>3, <1>4, <1>5
  <2> HIDE DEF t1, t2, p, d
  <2>2. scale * d \in Int /\ d * t2 \in Int /\ p * t2 \in Int /\ t1 * scale \in Int
      BY <2>1, <1>3, <1>4, ProductsAssociate
  <2>3. p * t2 <= (scale * d) * t2 /\ (scale * d) * t2 \in Int
      BY <2>1, <2>2, ProductsGrow
  <2>4. (scale * d) * t2 = (d * t2) * scale
      BY <2>1, <1>3, <1>4
  <2>5. t1 * scale <= (d * t2) * scale
      BY <2>1, <2>2, <2>3, <2>4
  <2>. QED BY <2>1, <2>2, <2>5, <1>3, ProductsCancel
<1>7. ~ (d * t2 < t1 * 1)
  <2>1. t1 \in Nat /\ t2 \in Nat
      BY <1>5
  <2> HIDE DEF t1, t2, d
  <2>2. d * t2 \in Int
      BY <2>1, <1>4, ProductsAssociate
  <2>. QED BY <2>1, <2>2, <1>6
<1>8. <<d, 1>>[1] = d /\ <<d, 1>>[2] = 1
    OBVIOUS
<1> HIDE DEF d
<1>9. ~ Less(<<d, 1>>, total)
    BY <1>7, <1>8 DEF Less
<1> QED BY <1>1, <1>9 DEF d

\* What is stored.
LEMMA AnswerFacts ==
    ASSUME NEW s, NEW e, Answer(s, e)
    PROVE  /\ DOMAIN estimates' = {s} \cup DOMAIN estimates
           /\ \A u \in DOMAIN estimates' : estimates'[u] = IF u = s THEN e ELSE estimates[u]
BY DEF Answer

\* An estimate that is added, of what an evaluation has found, is admissible.
IsAdmissible(s, e) ==
    IF e = Infinity THEN TrueDistances[task][s] = Infinite
    ELSE TrueDistances[task][s] # Infinite => ~ Less(<<TrueDistances[task][s], 1>>, e)

\* An admissible estimate is added to admissible ones.
LEMMA AnswersAreAdmissible ==
    ASSUME EstimateIsAdmissible, NEW s, NEW e, IsAdmissible(s, e), Answer(s, e), task' = task
    PROVE  EstimateIsAdmissible'
<1>1. \A u \in DOMAIN estimates : IsAdmissible(u, estimates[u])
    BY DEF EstimateIsAdmissible, IsAdmissible
<1>2. \A u \in DOMAIN estimates' : IsAdmissible(u, estimates'[u])
    BY <1>1, AnswerFacts
<1> QED BY <1>2 DEF EstimateIsAdmissible, IsAdmissible

\* Every step keeps the estimates admissible.
LEMMA EstimateNext ==
    ASSUME EvaluationInv, PotentialInv, ProperTasks, RelaxedTasks, PaidTasks, EstimateIsAdmissible, [Next]_vars
    PROVE  EstimateIsAdmissible'
<1>1. CASE UNCHANGED <<task, estimates>>
    BY <1>1 DEF EstimateIsAdmissible
<1>2. CASE Evaluate
  <2>1. PICK s \in states : IF IsGoalState(task, s) THEN Answer(s, Zero) ELSE UNCHANGED estimates
      BY <1>2 DEF Evaluate
  <2>2. task' = task
      BY <1>2 DEF Evaluate, given
  <2>3. CASE IsGoalState(task, s)
    <3>1. IsAdmissible(s, Zero)
      <4>1. s \in StatesOf(task) /\ task \in Tasks
          BY DEF EvaluationInv, GivenInv
      <4>2. TrueDistances[task][s] = 0
          BY <4>1, <2>3, DistancesAssumption DEF AreGoalDistances, StatesOf
      <4>3. ~ Less(<<0, 1>>, Zero) /\ Zero # Infinity
          BY DEF Less, Zero, Infinity
      <4>. QED BY <4>2, <4>3 DEF IsAdmissible
    <3>. QED BY <2>1, <2>2, <2>3, <3>1, AnswersAreAdmissible
  <2>4. CASE ~ IsGoalState(task, s)
      BY <2>1, <2>2, <2>4, <1>1
  <2>. QED BY <2>3, <2>4
<1>3. CASE Conclude
  <2>1. /\ IsEvaluating /\ queue = {} /\ task' = task
        /\ hMax[End] = Zero \/ hMax[End] = Infinity
        /\ Answer(state, IF hMax[End] = Zero THEN total ELSE Infinity)
      BY <1>3 DEF Conclude, IsEvaluating, given
  <2>2. CASE hMax[End] = Zero
    <3>1. total \in Amounts
        BY <2>1 DEF EvaluationInv, ExplorationInv
    <3>2. total # Infinity
        BY <3>1, AmountFacts
    <3>3. IsAdmissible(state, total)
        BY <2>1, <3>2, TotalIsAdmissible DEF IsAdmissible
    <3>. QED BY <2>1, <2>2, <3>3, AnswersAreAdmissible
  <2>3. CASE hMax[End] # Zero
    <3>1. TrueDistances[task][state] = Infinite
        BY <2>1, <2>3, InfiniteIsDead
    <3>2. IsAdmissible(state, Infinity)
        BY <3>1 DEF IsAdmissible
    <3>. QED BY <2>1, <2>3, <3>2, AnswersAreAdmissible
  <2>. QED BY <2>2, <2>3
<1>4. CASE Explore \/ Update
  <2>1. UNCHANGED <<task, estimates>>
      BY <1>4 DEF Explore, Update, given
  <2>. QED BY <2>1, <1>1
<1>5. CASE Cut
  <2>1. UNCHANGED <<task, estimates>>
      BY <1>5 DEF Cut, given
  <2>. QED BY <2>1, <1>1
<1>6. CASE Recall \/ UNCHANGED vars
  <2>1. UNCHANGED <<task, estimates>>
      BY <1>6, RecallStep DEF Recall, SameState
  <2>. QED BY <2>1, <1>1
<1> QED BY <1>2, <1>3, <1>4, <1>5, <1>6 DEF Next

\* LandmarkCutNumericHeuristic::evaluate: no estimate exceeds the cost of a plan and only
\* dead ends are infinite, whatever was evaluated before.
THEOREM EstimatesOfCutsAreAdmissible ==
    ASSUME ProperTasks, RelaxedTasks, PaidTasks
    PROVE  Spec => []EstimateIsAdmissible
<1>1. Init => EstimateIsAdmissible
    BY DEF Init, EstimateIsAdmissible
<1>2. EvaluationInv /\ PotentialInv /\ EstimateIsAdmissible /\ [Next]_vars => EstimateIsAdmissible'
    BY EstimateNext
<1>3. Spec => []EvaluationInv
    BY EvaluationsAreSound
<1>4. Spec => []PotentialInv
    BY CutsAreBounded
<1> QED BY <1>1, <1>2, <1>3, <1>4, PTL DEF Spec

-----------------------------------------------------------------------------
(* The values of an exploration *)

\* What costs no more.
AtMost(a, b) == ~ Less(b, a)

\* Less orders the values.
LEMMA ValuesAreOrdered ==
    ASSUME NEW a \in Values, NEW b \in Values, NEW c \in Values
    PROVE  /\ AtMost(a, a)
           /\ AtMost(a, b) /\ AtMost(b, c) => AtMost(a, c)
           /\ Less(a, b) => AtMost(a, b)
           /\ Less(a, b) /\ AtMost(b, c) => Less(a, c)
           /\ AtMost(Infinity, a) => a = Infinity
           /\ AtMost(a, Infinity) /\ AtMost(Zero, a)
<1>1. \A x \in Amounts : Less(x, Infinity) /\ ~ Less(Infinity, x) /\ ~ Less(x, Zero) /\ x # Infinity
    BY AmountFacts
<1>2. ~ Less(Infinity, Infinity) /\ ~ Less(Infinity, Zero)
    BY DEF Less, Infinity, Zero
<1>3. \A x \in Values : x \in Amounts \/ x = Infinity
    BY DEF Values
<1>4. a \in Amounts /\ b \in Amounts /\ c \in Amounts =>
          /\ ~ Less(a, a)
          /\ ~ Less(b, a) /\ ~ Less(c, b) => ~ Less(c, a)
          /\ Less(a, b) => ~ Less(b, a)
          /\ Less(a, b) /\ ~ Less(c, b) => Less(a, c)
    BY LessIsTransitive
<1>5. AtMost(Infinity, a) => a = Infinity
    BY <1>1, <1>3 DEF AtMost
<1>6. AtMost(a, Infinity) /\ AtMost(Zero, a) /\ AtMost(a, a)
    BY <1>1, <1>2, <1>3, <1>4, LessIsTransitive DEF AtMost
<1>7. AtMost(a, b) /\ AtMost(b, c) => AtMost(a, c)
    BY <1>1, <1>2, <1>3, <1>4 DEF AtMost
<1>8. (Less(a, b) => AtMost(a, b)) /\ (Less(a, b) /\ AtMost(b, c) => Less(a, c))
    BY <1>1, <1>2, <1>3, <1>4, LessIsTransitive DEF AtMost
<1> QED BY <1>5, <1>6, <1>7, <1>8

\* Sums grow with what is added.
LEMMA SumsAreOrdered ==
    ASSUME NEW a \in Amounts, NEW b \in Amounts, NEW c \in Amounts
    PROVE  /\ AtMost(a, b) => AtMost(Plus(a, c), Plus(b, c))
           /\ AtMost(a, Plus(a, c))
<1> DEFINE x == Plus(a, c)
           y == Plus(b, c)
<1>1. /\ a[1] \in Nat /\ a[2] \in Nat \ {0} /\ b[1] \in Nat /\ b[2] \in Nat \ {0}
      /\ c[1] \in Nat /\ c[2] \in Nat \ {0}
    BY AmountFacts
<1>2. Is(x, a[1] * c[2] + c[1] * a[2], a[2] * c[2]) /\ Is(y, b[1] * c[2] + c[1] * b[2], b[2] * c[2])
    BY Operations
<1>3. /\ x \in Amounts /\ x[1] * (a[2] * c[2]) = (a[1] * c[2] + c[1] * a[2]) * x[2]
      /\ y \in Amounts /\ y[1] * (b[2] * c[2]) = (b[1] * c[2] + c[1] * b[2]) * y[2]
    BY <1>2 DEF Is
<1>4. x[1] \in Nat /\ x[2] \in Nat \ {0} /\ y[1] \in Nat /\ y[2] \in Nat \ {0}
    BY <1>3, AmountFacts
<1> HIDE DEF x, y
<1> DEFINE a1 == a[1]
           a2 == a[2]
           b1 == b[1]
           b2 == b[2]
           c1 == c[1]
           c2 == c[2]
           x1 == x[1]
           x2 == x[2]
           y1 == y[1]
           y2 == y[2]
<1>5. /\ a1 \in Nat /\ a2 \in Nat \ {0} /\ b1 \in Nat /\ b2 \in Nat \ {0}
      /\ c1 \in Nat /\ c2 \in Nat \ {0} /\ x1 \in Nat /\ x2 \in Nat \ {0} /\ y1 \in Nat /\ y2 \in Nat \ {0}
      /\ x1 * (a2 * c2) = (a1 * c2 + c1 * a2) * x2
      /\ y1 * (b2 * c2) = (b1 * c2 + c1 * b2) * y2
    BY <1>1, <1>3, <1>4
<1>6. /\ Less(y, x) <=> y1 * x2 < x1 * y2
      /\ Less(b, a) <=> b1 * a2 < a1 * b2
      /\ Less(x, a) <=> x1 * a2 < a1 * x2
    BY DEF Less
<1> HIDE DEF a1, a2, b1, b2, c1, c2, x1, x2, y1, y2
<1>7. x1 * a2 >= a1 * x2
  <2>1. (x1 * a2) * c2 = (a1 * x2) * c2 + (c1 * a2) * x2
    <3>1. x1 * (a2 * c2) = (x1 * a2) * c2 /\ (a1 * c2 + c1 * a2) * x2 = (a1 * x2) * c2 + (c1 * a2) * x2
        BY <1>5
    <3>. QED BY <3>1, <1>5
  <2>2. (c1 * a2) * x2 \in Nat /\ x1 * a2 \in Nat /\ a1 * x2 \in Nat
      BY <1>5, ProductsArePositive
  <2>3. (x1 * a2) * c2 \in Nat /\ (a1 * x2) * c2 \in Nat
      BY <2>2, <1>5, ProductsArePositive
  <2>4. (a1 * x2) * c2 <= (x1 * a2) * c2
      BY <2>1, <2>2, <2>3
  <2>. QED BY <2>2, <2>4, <1>5, ProductsCancel
<1>8. a1 * b2 <= b1 * a2 => x1 * y2 <= y1 * x2
  <2> SUFFICES ASSUME a1 * b2 <= b1 * a2 PROVE x1 * y2 <= y1 * x2
      OBVIOUS
  <2> DEFINE k == a2 * c2
             l == b2 * c2
             m == x2 * y2
  <2>1. k \in Nat \ {0} /\ l \in Nat \ {0} /\ m \in Nat \ {0} /\ k * l \in Nat \ {0}
    <3>1. k \in Nat \ {0} /\ l \in Nat \ {0} /\ m \in Nat \ {0}
        BY <1>5, ProductsArePositive
    <3> HIDE DEF k, l
    <3>. QED BY <3>1, ProductsArePositive
  <2>2. (a1 * c2 + c1 * a2) * l <= (b1 * c2 + c1 * b2) * k
    <3>1. (a1 * b2) * (c2 * c2) <= (b1 * a2) * (c2 * c2)
      <4>1. a1 * b2 \in Nat /\ b1 * a2 \in Nat /\ c2 * c2 \in Nat
          BY <1>5, ProductsArePositive
      <4> DEFINE u == a1 * b2
                 v == b1 * a2
                 w == c2 * c2
      <4> HIDE DEF u, v, w
      <4>2. u \in Int /\ v \in Int /\ w \in Nat /\ u <= v
          BY <4>1 DEF u, v, w
      <4>3. u * w <= v * w
          BY <4>2, ProductsGrow
      <4>. QED BY <4>3 DEF u, v, w
    <3>2. /\ (a1 * c2 + c1 * a2) * l = (a1 * b2) * (c2 * c2) + (c1 * c2) * (a2 * b2)
          /\ (b1 * c2 + c1 * b2) * k = (b1 * a2) * (c2 * c2) + (c1 * c2) * (a2 * b2)
        BY <1>5
    <3>3. (a1 * b2) * (c2 * c2) \in Nat /\ (b1 * a2) * (c2 * c2) \in Nat /\ (c1 * c2) * (a2 * b2) \in Nat
      <4>1. a1 * b2 \in Nat /\ b1 * a2 \in Nat /\ c2 * c2 \in Nat /\ c1 * c2 \in Nat /\ a2 * b2 \in Nat
          BY <1>5, ProductsArePositive
      <4>. QED BY <4>1, ProductsArePositive
    <3> HIDE DEF k, l
    <3>. QED BY <3>1, <3>2, <3>3
  <2> DEFINE s == a1 * c2 + c1 * a2
             t == b1 * c2 + c1 * b2
  <2>3. s \in Nat /\ t \in Nat
    <3>1. a1 * c2 \in Nat /\ c1 * a2 \in Nat /\ b1 * c2 \in Nat /\ c1 * b2 \in Nat
        BY <1>5, ProductsArePositive
    <3>. QED BY <3>1
  <2>4. x1 * k = s * x2 /\ y1 * l = t * y2 /\ s * l <= t * k
      BY <1>5, <2>2
  <2> HIDE DEF k, l, s, t
  <2>5. (x1 * y2) * (k * l) = (s * l) * m /\ (y1 * x2) * (k * l) = (t * k) * m
    <3>1. (x1 * y2) * (k * l) = (x1 * k) * (y2 * l) /\ (y1 * x2) * (k * l) = (y1 * l) * (x2 * k)
        BY <1>5, <2>1
    <3>2. (s * x2) * (y2 * l) = (s * l) * m /\ (t * y2) * (x2 * k) = (t * k) * m
        BY <1>5, <2>1, <2>3
    <3>. QED BY <3>1, <3>2, <2>4
  <2>6. s * l \in Nat /\ t * k \in Nat /\ x1 * y2 \in Nat /\ y1 * x2 \in Nat
      BY <1>5, <2>1, <2>3, ProductsArePositive
  <2> HIDE DEF m
  <2>7. (s * l) * m <= (t * k) * m
    <3> DEFINE u == s * l
               v == t * k
    <3> HIDE DEF u, v
    <3>1. u \in Int /\ v \in Int /\ m \in Nat /\ u <= v
        BY <2>1, <2>4, <2>6 DEF u, v
    <3>2. u * m <= v * m
        BY <3>1, ProductsGrow
    <3>. QED BY <3>2 DEF u, v
  <2>8. (x1 * y2) * (k * l) <= (y1 * x2) * (k * l)
      BY <2>5, <2>7
  <2> DEFINE u == x1 * y2
             v == y1 * x2
             w == k * l
  <2> HIDE DEF u, v, w
  <2>9. u \in Int /\ v \in Int /\ w \in Nat \ {0} /\ u * w <= v * w
      BY <2>1, <2>6, <2>8 DEF u, v, w
  <2>10. u <= v
      BY <2>9, ProductsCancel
  <2>. QED BY <2>10 DEF u, v
<1>9. x1 * a2 \in Nat /\ a1 * x2 \in Nat /\ x1 * y2 \in Nat /\ y1 * x2 \in Nat /\ a1 * b2 \in Nat /\ b1 * a2 \in Nat
    BY <1>5, ProductsArePositive
<1> QED BY <1>6, <1>7, <1>8, <1>9 DEF AtMost, x, y

\* How often an operator is applied in an exploration, and where it leads to.
Often(r, p) == Multiplier(r, p, ~ options.irmax)
Leading(r) == {p \in relaxed[r].effects : Less(Zero, Often(r, p))}
\* What p costs if r is applied for it where its dearest precondition costs v.
Through(c, r, v, p) == Plus(v, Times(Often(r, p), c[r]))
PassedOn(h, c, r, v) == \A p \in Leading(r) : AtMost(h[p], Through(c, r, v, p))

\* Values that are the same or lower.
Lowers(h, next) == \A p \in propositions : next[p] = h[p] \/ Less(next[p], h[p])

\* A price through an operator is no lower than what its precondition costs.
LEMMA ThroughFacts ==
    ASSUME GivenInv, ProperTasks, state \in states, NEW c \in [Ids -> Amounts],
           NEW r \in Ids, NEW p \in Leading(r), NEW v \in Amounts, NEW w \in Amounts
    PROVE  /\ p \in propositions
           /\ Through(c, r, v, p) \in Amounts
           /\ AtMost(v, Through(c, r, v, p))
           /\ AtMost(v, w) => AtMost(Through(c, r, v, p), Through(c, r, w, p))
<1>1. p \in relaxed[r].effects /\ p \in propositions
    BY RelaxedFacts DEF Leading, IsRelaxedOperator, ProperTasks
<1>2. Often(r, p) \in Amounts
    BY <1>1, MultiplierFacts DEF Often, ProperTasks
<1>3. Times(Often(r, p), c[r]) \in Amounts
    BY <1>2, OperationsAreAmounts
<1>4. Through(c, r, v, p) \in Amounts
    BY <1>3, OperationsAreAmounts DEF Through
<1>5. AtMost(v, Through(c, r, v, p)) /\ (AtMost(v, w) => AtMost(Through(c, r, v, p), Through(c, r, w, p)))
    BY <1>3, SumsAreOrdered DEF Through
<1> QED BY <1>1, <1>4, <1>5

LEMMA LowersIsTransitive ==
    ASSUME NEW h1, NEW h2, NEW h3, IsHMax(h1), IsHMax(h2), IsHMax(h3), Lowers(h1, h2), Lowers(h2, h3)
    PROVE  Lowers(h1, h3)
<1>1. SUFFICES ASSUME NEW p \in propositions PROVE h3[p] = h1[p] \/ Less(h3[p], h1[p])
    BY DEF Lowers
<1>2. h1[p] \in Values /\ h2[p] \in Values /\ h3[p] \in Values
    BY DEF IsHMax
<1>3. (h3[p] = h2[p] \/ Less(h3[p], h2[p])) /\ (h2[p] = h1[p] \/ Less(h2[p], h1[p]))
    BY DEF Lowers
<1>4. Less(h3[p], h2[p]) /\ Less(h2[p], h1[p]) => Less(h3[p], h1[p])
    BY <1>2, ValuesAreOrdered
<1> QED BY <1>3, <1>4

\* What is lowered is at most what it was.
LEMMA LowersIsAtMost ==
    ASSUME NEW h, NEW next, IsHMax(h), IsHMax(next), Lowers(h, next), NEW p \in propositions
    PROVE  AtMost(next[p], h[p])
BY ValuesAreOrdered DEF Lowers, IsHMax

\* What was passed on stays so.
LEMMA PassedOnStays ==
    ASSUME GivenInv, ProperTasks, state \in states, NEW c \in [Ids -> Amounts], NEW r \in Ids,
           NEW v \in Amounts, NEW w \in Amounts, AtMost(v, w),
           NEW h, NEW next, IsHMax(h), IsHMax(next), Lowers(h, next), PassedOn(h, c, r, v)
    PROVE  PassedOn(next, c, r, w)
<1>1. SUFFICES ASSUME NEW p \in Leading(r) PROVE AtMost(next[p], Through(c, r, w, p))
    BY DEF PassedOn
<1>2. /\ p \in propositions /\ Through(c, r, v, p) \in Values /\ Through(c, r, w, p) \in Values
      /\ AtMost(Through(c, r, v, p), Through(c, r, w, p))
    BY ThroughFacts DEF Values
<1>3. AtMost(next[p], h[p]) /\ AtMost(h[p], Through(c, r, v, p))
    BY <1>2, LowersIsAtMost DEF PassedOn
<1>4. next[p] \in Values /\ h[p] \in Values
    BY <1>2 DEF IsHMax
<1>5. AtMost(next[p], Through(c, r, v, p))
    BY <1>2, <1>3, <1>4, ValuesAreOrdered
<1> QED BY <1>2, <1>4, <1>5, ValuesAreOrdered

\* update_queue lowers what the operator leads to, to its price, if that is less.
LEMMA ImproveValues ==
    ASSUME GivenInv, ProperTasks, state \in states,
           NEW h, IsHMax(h), NEW c \in [Ids -> Amounts], NEW r \in Ids,
           NEW from \in propositions, h[from] # Infinity
    PROVE  LET next == Improve(h, c, r, from) IN
           /\ IsHMax(next)
           /\ Lowers(h, next)
           /\ PassedOn(next, c, r, h[from])
           /\ \A p \in propositions : next[p] # h[p] => p \in Leading(r) /\ next[p] = Through(c, r, h[from], p)
<1> DEFINE new(p) == Through(c, r, h[from], p)
           next == [p \in DOMAIN h |-> IF p \in Leading(r) /\ Less(new(p), h[p]) THEN new(p) ELSE h[p]]
<1>1. Improve(h, c, r, from) = next
    BY DEF Improve, Leading, Often, Through
<1>2. DOMAIN h = propositions /\ h[from] \in Amounts /\ \A p \in propositions : h[p] \in Values
    BY DEF IsHMax, Values
<1>3. \A p \in Leading(r) : p \in propositions /\ new(p) \in Amounts
    BY <1>2, ThroughFacts
<1> HIDE DEF new
<1>4. IsHMax(next)
    BY <1>2, <1>3 DEF IsHMax, Values
<1>5. Lowers(h, next)
    BY <1>2 DEF Lowers
<1>6. \A p \in Leading(r) : AtMost(new(p), new(p))
    BY <1>3, ValuesAreOrdered DEF Values
<1>7. PassedOn(next, c, r, h[from])
  <2>1. ASSUME NEW p \in Leading(r) PROVE AtMost(next[p], new(p))
      BY <1>2, <1>3, <1>6 DEF AtMost
  <2>. QED BY <2>1 DEF PassedOn, new
<1>8. \A p \in propositions : next[p] # h[p] => p \in Leading(r) /\ next[p] = new(p)
    BY <1>2
<1> HIDE DEF next
<1>9. /\ IsHMax(next)
      /\ Lowers(h, next)
      /\ PassedOn(next, c, r, h[from])
      /\ \A p \in propositions : next[p] # h[p] => p \in Leading(r) /\ next[p] = Through(c, r, h[from], p)
    BY <1>4, <1>5, <1>7, <1>8 DEF new
<1> QED BY <1>1, <1>9

\* When the operators of a set are applied, the prices of all of them are passed on.
LEMMA ImproveAllValues ==
    ASSUME GivenInv, ProperTasks, state \in states,
           NEW h, IsHMax(h), NEW c \in [Ids -> Amounts], NEW R \in SUBSET Ids, NEW from,
           \A r \in R : from[r] \in propositions /\ h[from[r]] # Infinity
    PROVE  /\ Lowers(h, ImproveAll(h, c, R, from))
           /\ \A r \in R : PassedOn(ImproveAll(h, c, R, from), c, r, h[from[r]])
<1> DEFINE N == Len(relaxed)
           S == {x \in [propositions -> Values] : Lowers(h, x)}
           T(r) == {x \in S : PassedOn(x, c, r, h[from[r]])}
<1>1. N \in Nat /\ Ids = 1..N
    BY RelaxedFacts DEF ProperTasks
<1>2. PICK F : /\ F[0] = h
               /\ \A k \in 1..N : F[k] = IF k \in R THEN Improve(F[k - 1], c, k, from[k]) ELSE F[k - 1]
               /\ \A k \in 0..N : Improves(h, F[k])
               /\ ImproveAll(h, c, R, from) = F[N]
  <2>1. \E F : IsImproveRun(F, h, c, R, from)
      BY ImproveAllRuns
  <2>. QED BY <2>1 DEF IsImproveRun
<1> HIDE DEF N
<1>3. ASSUME NEW k \in 1..N, F[k - 1] \in S
      PROVE  /\ IsHMax(F[k - 1]) /\ Lowers(h, F[k - 1]) /\ IsHMax(F[k]) /\ Lowers(F[k - 1], F[k]) /\ F[k] \in S
             /\ k \in R => PassedOn(F[k], c, k, h[from[k]])
  <2>1. k - 1 \in 0..N /\ k \in 0..N /\ Improves(h, F[k - 1])
      BY <1>1, <1>2
  <2>2. IsHMax(F[k - 1]) /\ Lowers(h, F[k - 1])
      BY <1>3 DEF IsHMax
  <2>3. CASE k \notin R
    <3>1. F[k] = F[k - 1]
        BY <1>2, <2>3
    <3>. QED BY <3>1, <2>2, <2>3, <1>3 DEF Lowers
  <2>4. CASE k \in R
    <3> DEFINE x == F[k - 1]
               v == h[from[k]]
               w == x[from[k]]
    <3>1. k \in Ids /\ from[k] \in propositions /\ v # Infinity /\ w # Infinity
        BY <2>1, <2>4 DEF Improves
    <3>2. F[k] = Improve(x, c, k, from[k])
        BY <1>2, <2>4
    <3>3. IsHMax(F[k]) /\ Lowers(x, F[k]) /\ PassedOn(F[k], c, k, w)
        BY <3>1, <3>2, <2>2, ImproveValues
    <3>4. v \in Amounts /\ w \in Amounts /\ AtMost(w, v)
        BY <3>1, <2>2, LowersIsAtMost DEF IsHMax, Values
    <3>5. Lowers(F[k], F[k])
        BY DEF Lowers
    <3> HIDE DEF v, w
    <3>6. PassedOn(F[k], c, k, v)
        BY <3>1, <3>3, <3>4, <3>5, PassedOnStays
    <3>7. Lowers(h, F[k]) /\ F[k] \in [propositions -> Values]
        BY <3>3, <2>2, LowersIsTransitive DEF IsHMax
    <3>. QED BY <2>2, <3>3, <3>6, <3>7 DEF v
  <2>. QED BY <2>3, <2>4
<1>4. F[0] \in S
    BY <1>2 DEF IsHMax, Lowers
<1>5. \A k \in 0..N : F[k] \in S
  <2> HIDE DEF S
  <2>1. 0 \in 0..N /\ \A k \in (0 + 1)..N : F[k - 1] \in S => F[k] \in S
      BY <1>1, <1>3
  <2>. QED BY <1>1, <1>4, <2>1, RecursionStays
<1>6. ASSUME NEW r \in R PROVE F[N] \in T(r)
  <2>1. r \in 1..N /\ r \in 0..N /\ r - 1 \in 0..N /\ N \in r..N
      BY <1>1
  <2>2. F[r] \in T(r)
      BY <2>1, <1>3, <1>5
  <2>3. ASSUME NEW k \in (r + 1)..N, F[k - 1] \in T(r) PROVE F[k] \in T(r)
    <3>1. k \in 1..N
        BY <2>1, <1>1
    <3>2. F[k - 1] \in S /\ PassedOn(F[k - 1], c, r, h[from[r]])
        BY <2>3
    <3>3. IsHMax(F[k - 1]) /\ IsHMax(F[k]) /\ Lowers(F[k - 1], F[k]) /\ F[k] \in S
        BY <3>1, <3>2, <1>3
    <3>4. h[from[r]] \in Amounts /\ AtMost(h[from[r]], h[from[r]]) /\ r \in Ids
        BY ValuesAreOrdered DEF IsHMax, Values
    <3>5. PassedOn(F[k], c, r, h[from[r]])
        BY <3>2, <3>3, <3>4, PassedOnStays
    <3>. QED BY <3>3, <3>5
  <2> HIDE DEF T
  <2>. QED BY <2>1, <2>2, <2>3, <1>1, RecursionStays
<1>7. F[N] \in S
    BY <1>1, <1>5
<1> QED BY <1>2, <1>6, <1>7

\* When they are applied from the same proposition, what changes takes the price through one
\* of them.
LEMMA ImproveAllChanges ==
    ASSUME GivenInv, ProperTasks, state \in states,
           NEW h, IsHMax(h), NEW c \in [Ids -> Amounts], NEW R \in SUBSET Ids, NEW from,
           NEW p \in propositions, h[p] # Infinity, \A r \in R : from[r] = p
    PROVE  \A e \in propositions : ImproveAll(h, c, R, from)[e] # h[e] =>
               \E r \in R : e \in Leading(r) /\ ImproveAll(h, c, R, from)[e] = Through(c, r, h[p], e)
<1> DEFINE N == Len(relaxed)
           Priced(x, e) == \E r \in R : e \in Leading(r) /\ x[e] = Through(c, r, h[p], e)
           S == {x \in [propositions -> Values] :
                    Lowers(h, x) /\ \A e \in propositions : x[e] = h[e] \/ Priced(x, e)}
<1>1. N \in Nat /\ Ids = 1..N
    BY RelaxedFacts DEF ProperTasks
<1>2. PICK F : /\ F[0] = h
               /\ \A k \in 1..N : F[k] = IF k \in R THEN Improve(F[k - 1], c, k, from[k]) ELSE F[k - 1]
               /\ \A k \in 0..N : Improves(h, F[k])
               /\ ImproveAll(h, c, R, from) = F[N]
  <2>1. \A r \in R : from[r] \in propositions /\ h[from[r]] # Infinity
      OBVIOUS
  <2>2. \E F : IsImproveRun(F, h, c, R, from)
      BY <2>1, ImproveAllRuns
  <2>. QED BY <2>2 DEF IsImproveRun
<1> HIDE DEF N
<1>3. h[p] \in Amounts
    BY DEF IsHMax, Values
<1>4. ASSUME NEW x \in S PROVE x[p] = h[p]
  <2>1. SUFFICES ASSUME NEW r \in R, p \in Leading(r), x[p] = Through(c, r, h[p], p), x[p] # h[p]
                 PROVE  FALSE
      OBVIOUS
  <2>2. Less(x[p], h[p])
      BY <2>1 DEF Lowers
  <2>3. AtMost(h[p], x[p])
      BY <2>1, <1>3, ThroughFacts
  <2>. QED BY <2>2, <2>3 DEF AtMost
<1>5. ASSUME NEW k \in 1..N, F[k - 1] \in S PROVE F[k] \in S
  <2>1. CASE k \notin R
    <3>1. F[k] = F[k - 1]
        BY <1>2, <2>1
    <3>. QED BY <3>1, <1>5
  <2>2. CASE k \in R
    <3> DEFINE x == F[k - 1]
               y == F[k]
    <3>1. k \in Ids /\ x \in S /\ IsHMax(x) /\ Lowers(h, x)
        BY <2>2, <1>5 DEF IsHMax
    <3>2. x[p] = h[p]
        BY <3>1, <1>4
    <3>3. y = Improve(x, c, k, p)
        BY <1>2, <2>2
    <3> HIDE DEF y
    <3>4. /\ IsHMax(y) /\ Lowers(x, y)
          /\ \A e \in propositions : y[e] # x[e] => e \in Leading(k) /\ y[e] = Through(c, k, h[p], e)
        BY <3>1, <3>2, <3>3, ImproveValues
    <3>5. Lowers(h, y) /\ y \in [propositions -> Values]
        BY <3>1, <3>4, LowersIsTransitive DEF IsHMax
    <3>6. \A e \in propositions : x[e] = h[e] \/ Priced(x, e)
        BY <3>1
    <3>7. ASSUME NEW e \in propositions PROVE y[e] = h[e] \/ Priced(y, e)
        BY <3>4, <3>6, <2>2
    <3> HIDE DEF Priced
    <3>8. y \in S
        BY <3>5, <3>7
    <3>. QED BY <3>8 DEF y
  <2>. QED BY <2>1, <2>2
<1>6. F[0] \in S
    BY <1>2 DEF IsHMax, Lowers
<1>7. F[N] \in S
  <2> HIDE DEF S
  <2>1. 0 \in 0..N /\ N \in 0..N /\ \A k \in (0 + 1)..N : F[k - 1] \in S => F[k] \in S
      BY <1>1, <1>5
  <2>. QED BY <1>1, <1>6, <2>1, RecursionStays
<1> QED BY <1>2, <1>7

\* The same for the operators of a cut's origins, in any order of these.
LEMMA ImproveInTurnValues ==
    ASSUME GivenInv, ProperTasks, state \in states,
           NEW h, IsHMax(h), NEW c \in [Ids -> Amounts], NEW R \in SUBSET Ids,
           \A r \in R : supporter[r] \in propositions /\ h[supporter[r]] # Infinity /\ IsReached(h, r),
           NEW order, Len(order) \in Nat,
           \A r \in R : \E k \in 1..Len(order) : r \in OfOrigins({order[k]})
    PROVE  /\ Lowers(h, ImproveInTurn(h, c, R, order))
           /\ \A r \in R : PassedOn(ImproveInTurn(h, c, R, order), c, r, h[supporter[r]])
<1> DEFINE N == Len(order)
           Q(k) == R \cap OfOrigins({order[k]})
           S == {x \in [propositions -> Values] : Lowers(h, x)}
           T(r) == {x \in S : PassedOn(x, c, r, h[supporter[r]])}
<1>1. N \in Nat
    OBVIOUS
<1>2. PICK F : /\ F[0] = h
               /\ \A k \in 1..N : F[k] = ImproveAll(F[k - 1], c, Q(k), supporter)
               /\ \A k \in 0..N : Improves(h, F[k])
               /\ ImproveInTurn(h, c, R, order) = F[N]
  <2>1. \E F : IsTurn(F, h, c, R, order)
      BY ImproveInTurnRuns
  <2>. QED BY <2>1 DEF IsTurn
<1> HIDE DEF N
<1>3. ASSUME NEW k \in 1..N, F[k - 1] \in S
      PROVE  /\ IsHMax(F[k - 1]) /\ Lowers(h, F[k - 1]) /\ IsHMax(F[k]) /\ Lowers(F[k - 1], F[k]) /\ F[k] \in S
             /\ \A r \in Q(k) : PassedOn(F[k], c, r, h[supporter[r]])
  <2> DEFINE x == F[k - 1]
             y == F[k]
  <2>1. k - 1 \in 0..N /\ k \in 0..N /\ Improves(h, x) /\ IsHMax(y)
      BY <1>1, <1>2 DEF Improves
  <2>2. IsHMax(x) /\ Lowers(h, x)
      BY <1>3 DEF IsHMax
  <2>3. Q(k) \in SUBSET Ids /\ Q(k) \subseteq R
      OBVIOUS
  <2>4. \A r \in Q(k) : supporter[r] \in propositions /\ x[supporter[r]] # Infinity
      BY <2>1 DEF Improves
  <2>5. y = ImproveAll(x, c, Q(k), supporter)
      BY <1>2
  <2> HIDE DEF x, y, Q
  <2>6. Lowers(x, y) /\ \A r \in Q(k) : PassedOn(y, c, r, x[supporter[r]])
      BY <2>2, <2>3, <2>4, <2>5, ImproveAllValues
  <2>7. ASSUME NEW r \in Q(k) PROVE PassedOn(y, c, r, h[supporter[r]])
    <3> DEFINE v == h[supporter[r]]
               w == x[supporter[r]]
    <3>1. r \in Ids /\ supporter[r] \in propositions /\ v # Infinity /\ w # Infinity
        BY <2>3, <2>4
    <3>2. v \in Amounts /\ w \in Amounts /\ AtMost(w, v)
        BY <3>1, <2>2, LowersIsAtMost DEF IsHMax, Values
    <3>3. Lowers(y, y) /\ PassedOn(y, c, r, w)
        BY <2>6 DEF Lowers
    <3> HIDE DEF v, w
    <3>4. PassedOn(y, c, r, v)
        BY <2>1, <3>1, <3>2, <3>3, PassedOnStays
    <3>. QED BY <3>4 DEF v
  <2>8. Lowers(h, y) /\ y \in [propositions -> Values]
      BY <2>1, <2>2, <2>6, LowersIsTransitive DEF IsHMax
  <2>. QED BY <2>1, <2>2, <2>6, <2>7, <2>8 DEF x, y
<1>4. F[0] \in S
    BY <1>2 DEF IsHMax, Lowers
<1>5. \A k \in 0..N : F[k] \in S
  <2> HIDE DEF S, Q
  <2>1. 0 \in 0..N /\ \A k \in (0 + 1)..N : F[k - 1] \in S => F[k] \in S
      BY <1>1, <1>3
  <2>. QED BY <1>1, <1>4, <2>1, RecursionStays
<1>6. ASSUME NEW r \in R PROVE F[N] \in T(r)
  <2>0. PICK m \in 1..N : r \in Q(m)
      BY DEF N
  <2>1. m \in 0..N /\ m - 1 \in 0..N /\ N \in m..N
      BY <1>1
  <2>2. F[m] \in T(r)
    <3> HIDE DEF Q, S
    <3>. QED BY <2>0, <2>1, <1>3, <1>5
  <2>3. ASSUME NEW k \in (m + 1)..N, F[k - 1] \in T(r) PROVE F[k] \in T(r)
    <3>1. k \in 1..N
        BY <2>1, <1>1
    <3>2. F[k - 1] \in S /\ PassedOn(F[k - 1], c, r, h[supporter[r]])
        BY <2>3
    <3>3. IsHMax(F[k - 1]) /\ IsHMax(F[k]) /\ Lowers(F[k - 1], F[k]) /\ F[k] \in S
        BY <3>1, <3>2, <1>3
    <3>4. h[supporter[r]] \in Amounts /\ AtMost(h[supporter[r]], h[supporter[r]]) /\ r \in Ids
        BY ValuesAreOrdered DEF IsHMax, Values
    <3>5. PassedOn(F[k], c, r, h[supporter[r]])
        BY <3>2, <3>3, <3>4, PassedOnStays
    <3>. QED BY <3>3, <3>5
  <2> HIDE DEF T
  <2>. QED BY <2>1, <2>2, <2>3, <1>1, RecursionStays
<1>7. F[N] \in S
    BY <1>1, <1>5
<1> QED BY <1>2, <1>6, <1>7

-----------------------------------------------------------------------------
(* What an exploration knows of the values *)

\* Where an operator's preconditions are reached, what it leads to costs no more than the
\* price from its supporter, which costs no more than is noted unless it is queued.
IsBounded(h, c, support, noted, waiting, r) ==
    /\ \A q \in relaxed[r].pre : h[q] # Infinity
    /\ noted[r] \in Amounts
    /\ PassedOn(h, c, r, noted[r])
    /\ AtMost(h[support[r]], noted[r])
    /\ Less(h[support[r]], noted[r]) => support[r] \in waiting
AreBounded(h, c, support, noted, count, waiting) ==
    \A r \in Ids : count[r] = 0 => IsBounded(h, c, support, noted, waiting, r)

\* A first exploration pops propositions in the order of their values, and counts them.
Popped(h, waiting) == {q \in propositions : Triggered(q) # {} /\ h[q] # Infinity /\ q \notin waiting}
IsOrdered(h, count, waiting) ==
    /\ \A q \in waiting : Triggered(q) # {}
    /\ \A r \in Ids : count[r] = Cardinality(relaxed[r].pre \ Popped(h, waiting))
    /\ \A q \in Popped(h, waiting) : \A u \in waiting : AtMost(h[q], h[u])

\* What is reached is reached through propositions of lower rank, in a first exploration
\* through what has been popped, and at no lower a value.
Ranks == [propositions -> Nat]
IsRanked(rank, h, p) ==
    \/ p \in Initially
    \/ \E r \in Ids : p \in Leading(r) /\ \A q \in relaxed[r].pre : h[q] # Infinity /\ rank[q] < rank[p]
IsPriced(rank, h, c, done, p) ==
    \/ p \in Initially
    \/ \E r \in Ids : p \in Leading(r) /\ \A q \in relaxed[r].pre :
           q \in done /\ rank[q] < rank[p] /\ AtMost(Through(c, r, h[q], p), h[p])
HasRanks(h) ==
    \E rank \in Ranks : \A p \in propositions :
        h[p] # Infinity => rank[p] <= Cardinality(propositions) /\ IsRanked(rank, h, p)
HasPrices(h, c, done) ==
    \E rank \in Ranks : \A p \in propositions :
        h[p] # Infinity => rank[p] <= Cardinality(done) /\ IsPriced(rank, h, c, done, p)

HMaxInv ==
    IsEvaluating =>
        /\ AreBounded(hMax, cost, supporter, supporterCost, counter, queue)
        /\ phase = "exploring" => IsOrdered(hMax, counter, queue)
        /\ phase = "exploring" => HasPrices(hMax, cost, Popped(hMax, queue))
        /\ phase = "updating" => HasRanks(hMax)

\* The same after a step, in terms of the state before it.
LEMMA DefinitionsStay ==
    ASSUME SameState
    PROVE  /\ Ids' = Ids /\ Initially' = Initially /\ relaxed' = relaxed /\ propositions' = propositions
           /\ \A r, p : Often(r, p)' = Often(r, p)
           /\ \A r : Leading(r)' = Leading(r)
           /\ \A q : Triggered(q)' = Triggered(q)
           /\ \A c, r, v, p : Through(c, r, v, p)' = Through(c, r, v, p)
<1>1. Ids' = Ids /\ Initially' = Initially /\ relaxed' = relaxed /\ propositions' = propositions
    BY DEF SameState, Ids, Initially
<1>2. \A r, p : Often(r, p)' = Often(r, p)
    BY DEF SameState, Often, Multiplier
<1>3. \A r : Leading(r)' = Leading(r)
    BY <1>2, <1>1 DEF Leading
<1>4. \A q : Triggered(q)' = Triggered(q)
    BY <1>1 DEF Triggered
<1>5. \A c, r, v, p : Through(c, r, v, p)' = Through(c, r, v, p)
    BY <1>2 DEF Through
<1> QED BY <1>1, <1>2, <1>3, <1>4, <1>5

LEMMA BoundedThen ==
    ASSUME SameState, NEW h, h = hMax', NEW c, c = cost', NEW support, support = supporter',
           NEW noted, noted = supporterCost', NEW count, count = counter', NEW waiting, waiting = queue'
    PROVE  AreBounded(hMax, cost, supporter, supporterCost, counter, queue)' <=>
               AreBounded(h, c, support, noted, count, waiting)
BY DefinitionsStay DEF AreBounded, IsBounded, PassedOn

LEMMA PoppedThen ==
    ASSUME SameState, NEW h, h = hMax', NEW waiting, waiting = queue'
    PROVE  Popped(hMax, queue)' = Popped(h, waiting)
BY DefinitionsStay DEF Popped

LEMMA OrderedThen ==
    ASSUME SameState, NEW h, h = hMax', NEW count, count = counter', NEW waiting, waiting = queue'
    PROVE  IsOrdered(hMax, counter, queue)' <=> IsOrdered(h, count, waiting)
BY DefinitionsStay, PoppedThen DEF IsOrdered

LEMMA RanksThen ==
    ASSUME SameState, NEW h, h = hMax'
    PROVE  HasRanks(hMax)' <=> HasRanks(h)
BY DefinitionsStay DEF HasRanks, IsRanked, Ranks

LEMMA PricesThen ==
    ASSUME SameState, NEW h, h = hMax', NEW c, c = cost', NEW done, done = Popped(hMax, queue)'
    PROVE  HasPrices(hMax, cost, Popped(hMax, queue))' <=> HasPrices(h, c, done)
BY DefinitionsStay DEF HasPrices, IsPriced, Ranks

-----------------------------------------------------------------------------
(* A step of a first exploration *)

\* What changes when p is popped takes the price through an operator that was ready.
IsPop(p, ready, next, waiting) ==
    /\ IsHMax(next) /\ Improves(hMax, next) /\ Lowers(hMax, next)
    /\ \A r \in ready : PassedOn(next, cost, r, hMax[p])
    /\ \A e \in propositions : next[e] # hMax[e] =>
           /\ AtMost(hMax[p], next[e])
           /\ \E r \in ready : e \in Leading(r) /\ next[e] = Through(cost, r, hMax[p], e)
    /\ p \notin Popped(hMax, queue)
    /\ \A q \in Popped(hMax, queue) \cup {p} : next[q] = hMax[q]
    /\ Popped(next, waiting) = Popped(hMax, queue) \cup {p}

\* A step of first_exploration: p is popped, and nothing else that was popped changes.
LEMMA ExploreValues ==
    ASSUME GivenInv, ProperTasks, ResetInv, ExplorationInv,
           NEW p \in queue, IsNext(p), \A q \in queue : Triggered(q) # {},
           \A q \in Popped(hMax, queue) : \A u \in queue : AtMost(hMax[q], hMax[u]),
           NEW ready \in SUBSET Ids,
           NEW next, next = ImproveAll(hMax, cost, ready, [r \in ready |-> p]),
           NEW waiting, waiting = (queue \ {p}) \cup Queued(Changed(hMax, next))
    PROVE  IsPop(p, ready, next, waiting)
<1> DEFINE done == Popped(hMax, queue)
           from == [r \in ready |-> p]
<1>1. /\ state \in states /\ IsHMax(hMax) /\ cost \in [Ids -> Amounts]
      /\ p \in propositions /\ hMax[p] # Infinity /\ queue \subseteq propositions
    BY DEF ExplorationInv, ResetInv, CostsFit
<1>2. \A r \in ready : from[r] = p /\ from[r] \in propositions /\ hMax[from[r]] # Infinity
    BY <1>1
<1>3. next = ImproveAll(hMax, cost, ready, from)
    OBVIOUS
<1> HIDE DEF from
<1>4. Improves(hMax, next)
  <2>1. Improves(hMax, ImproveAll(hMax, cost, ready, from))
      BY <1>1, <1>2, ImproveAllFacts, ZenonT(30)
  <2>. QED BY <2>1, <1>3
<1>5. Lowers(hMax, next) /\ \A r \in ready : PassedOn(next, cost, r, hMax[p])
    BY <1>1, <1>2, <1>3, ImproveAllValues
<1>6. \A e \in propositions : next[e] # hMax[e] =>
          \E r \in ready : e \in Leading(r) /\ next[e] = Through(cost, r, hMax[p], e)
  <2>1. \A r \in ready : from[r] = p
      BY <1>2
  <2>2. \A e \in propositions : ImproveAll(hMax, cost, ready, from)[e] # hMax[e] =>
          \E r \in ready : e \in Leading(r) /\ ImproveAll(hMax, cost, ready, from)[e] = Through(cost, r, hMax[p], e)
      BY <1>1, <2>1, ImproveAllChanges
  <2>. QED BY <2>2, <1>3
<1>7. hMax[p] \in Amounts /\ IsHMax(next)
    BY <1>1, <1>4 DEF IsHMax, Values, Improves
<1>8. ASSUME NEW e \in propositions, next[e] # hMax[e]
      PROVE  AtMost(hMax[p], next[e])
  <2>1. PICK r \in ready : e \in Leading(r) /\ next[e] = Through(cost, r, hMax[p], e)
      BY <1>6, <1>8
  <2>. QED BY <2>1, <1>1, <1>7, ThroughFacts
<1>9. p \notin done
    BY DEF Popped
<1>10. ASSUME NEW q \in done \cup {p} PROVE next[q] = hMax[q]
  <2>1. q \in propositions
      BY <1>1 DEF Popped
  <2>2. SUFFICES ASSUME next[q] # hMax[q] PROVE FALSE
      OBVIOUS
  <2>3. AtMost(hMax[q], hMax[p])
    <3>1. AtMost(hMax[p], hMax[p])
        BY <1>7, ValuesAreOrdered DEF Values
    <3>. QED BY <3>1
  <2>4. Less(next[q], hMax[q])
      BY <2>1, <2>2, <1>5 DEF Lowers
  <2>5. AtMost(hMax[p], next[q])
      BY <2>1, <2>2, <1>8
  <2>6. hMax[q] \in Values /\ next[q] \in Values /\ hMax[p] \in Values
      BY <2>1, <1>1, <1>7 DEF IsHMax
  <2>7. Less(next[q], hMax[p])
      BY <2>3, <2>4, <2>6, ValuesAreOrdered
  <2>. QED BY <2>5, <2>7 DEF AtMost
<1>11. Popped(next, waiting) = done \cup {p}
  <2>1. Changed(hMax, next) = {q \in propositions : hMax[q] # next[q]}
      BY <1>1 DEF Changed, IsHMax
  <2>2. ASSUME NEW q \in Popped(next, waiting) PROVE q \in done \cup {p}
    <3>1. q \in propositions /\ Triggered(q) # {} /\ next[q] # Infinity /\ q \notin waiting
        BY DEF Popped
    <3>2. hMax[q] = next[q]
        BY <3>1, <2>1 DEF Queued
    <3>. QED BY <3>1, <3>2 DEF Popped
  <2>3. ASSUME NEW q \in done \cup {p} PROVE q \in Popped(next, waiting)
    <3>1. q \in propositions /\ Triggered(q) # {} /\ hMax[q] # Infinity /\ q \notin queue \ {p}
        BY <1>1 DEF Popped
    <3>2. next[q] = hMax[q]
        BY <1>10
    <3>. QED BY <3>1, <3>2, <2>1 DEF Popped, Queued
  <2>. QED BY <2>2, <2>3
<1> QED BY <1>4, <1>5, <1>6, <1>7, <1>8, <1>9, <1>10, <1>11 DEF IsPop

\* What a step changes.
IsExplored(p, ready, next, waiting, count, support, noted) ==
    /\ ready = {r \in Triggered(p) : counter[r] = 1}
    /\ next = ImproveAll(hMax, cost, ready, [r \in ready |-> p])
    /\ waiting = (queue \ {p}) \cup Queued(Changed(hMax, next))
    /\ count = [r \in Ids |-> IF r \in Triggered(p) THEN counter[r] - 1 ELSE counter[r]]
    /\ support = [r \in Ids |-> IF r \in ready THEN p ELSE supporter[r]]
    /\ noted = [r \in Ids |-> IF r \in ready THEN hMax[p] ELSE supporterCost[r]]

\* What waits for p to be popped has been reached.
LEMMA ExploreBounds ==
    ASSUME GivenInv, ProperTasks, ResetInv, ExplorationInv, IsOrdered(hMax, counter, queue),
           AreBounded(hMax, cost, supporter, supporterCost, counter, queue),
           NEW p \in queue, IsNext(p), \A r \in Triggered(p) : counter[r] # 0,
           NEW ready, NEW next, NEW waiting, NEW count, NEW support, NEW noted,
           IsExplored(p, ready, next, waiting, count, support, noted)
    PROVE  /\ AreBounded(next, cost, support, noted, count, waiting)
           /\ IsOrdered(next, count, waiting)
           /\ HasPrices(hMax, cost, Popped(hMax, queue)) => HasPrices(next, cost, Popped(next, waiting))
<1> DEFINE done == Popped(hMax, queue)
           now == Popped(next, waiting)
<1>0. /\ ready = {r \in Triggered(p) : counter[r] = 1}
      /\ next = ImproveAll(hMax, cost, ready, [r \in ready |-> p])
      /\ waiting = (queue \ {p}) \cup Queued(Changed(hMax, next))
      /\ count = [r \in Ids |-> IF r \in Triggered(p) THEN counter[r] - 1 ELSE counter[r]]
      /\ support = [r \in Ids |-> IF r \in ready THEN p ELSE supporter[r]]
      /\ noted = [r \in Ids |-> IF r \in ready THEN hMax[p] ELSE supporterCost[r]]
    BY DEF IsExplored
<1> USE <1>0
<1>1. /\ state \in states /\ IsHMax(hMax) /\ cost \in [Ids -> Amounts] /\ counter \in [Ids -> Nat]
      /\ p \in propositions /\ hMax[p] # Infinity /\ queue \subseteq propositions
      /\ AreSupported(hMax, supporter) /\ \A q \in Initially : hMax[q] = Zero
    BY DEF ExplorationInv, ResetInv, CostsFit
<1>2. /\ \A q \in queue : Triggered(q) # {}
      /\ \A r \in Ids : counter[r] = Cardinality(relaxed[r].pre \ done)
      /\ \A q \in done : \A u \in queue : AtMost(hMax[q], hMax[u])
    BY DEF IsOrdered
<1>3. ready \in SUBSET Ids /\ \A r \in Ids : r \in Triggered(p) <=> p \in relaxed[r].pre
    BY DEF Triggered
<1>4. /\ IsHMax(next) /\ Improves(hMax, next) /\ Lowers(hMax, next)
      /\ \A r \in ready : PassedOn(next, cost, r, hMax[p])
      /\ \A e \in propositions : next[e] # hMax[e] =>
             /\ AtMost(hMax[p], next[e])
             /\ \E r \in ready : e \in Leading(r) /\ next[e] = Through(cost, r, hMax[p], e)
      /\ p \notin done
      /\ \A q \in done \cup {p} : next[q] = hMax[q]
      /\ now = done \cup {p}
  <2>1. /\ \A q \in queue : Triggered(q) # {}
        /\ \A q \in Popped(hMax, queue) : \A u \in queue : AtMost(hMax[q], hMax[u])
        /\ ready \in SUBSET Ids
      BY <1>2, <1>3
  <2>2. IsPop(p, ready, next, waiting)
      BY <2>1, ExploreValues
  <2>. QED BY <2>2 DEF IsPop
<1>5. \A r \in Ids : IsRelaxedOperator(r) /\ relaxed[r].pre \subseteq propositions /\ IsFiniteSet(relaxed[r].pre)
    BY RelaxedFacts DEF ProperTasks, IsRelaxedOperator
<1> HIDE DEF done, now
<1>6. hMax[p] \in Amounts
    BY <1>1 DEF IsHMax, Values
<1>7. ASSUME NEW r \in Ids
      PROVE  /\ count[r] = Cardinality(relaxed[r].pre \ now)
             /\ r \in ready => relaxed[r].pre \ done = {p}
             /\ count[r] = 0 => relaxed[r].pre \subseteq now
  <2> DEFINE P == relaxed[r].pre
  <2>1. IsFiniteSet(P) /\ IsFiniteSet(P \ done) /\ IsFiniteSet(P \ now)
      BY <1>5, FS_Difference
  <2>2. counter[r] = Cardinality(P \ done)
      BY <1>2
  <2>3. CASE r \in Triggered(p)
    <3>1. p \in P \ done /\ P \ now = (P \ done) \ {p}
        BY <2>3, <1>3, <1>4
    <3>2. Cardinality(P \ now) = Cardinality(P \ done) - 1
      <4> DEFINE T == P \ done
      <4>1. p \in T /\ IsFiniteSet(T) /\ P \ now = T \ {p}
          BY <3>1, <2>1
      <4> HIDE DEF T
      <4>2. Cardinality(T \ {p}) = Cardinality(T) - 1
          BY <4>1, FS_RemoveElement
      <4>. QED BY <4>1, <4>2 DEF T
    <3>3. count[r] = counter[r] - 1
        BY <2>3
    <3>4. r \in ready => Cardinality((P \ done) \ {p}) = 0
      <4>1. r \in ready => counter[r] = 1
          OBVIOUS
      <4>. QED BY <4>1, <3>1, <3>2, <2>2
    <3>5. r \in ready => (P \ done) \ {p} = {}
        BY <3>1, <3>4, <2>1, FS_EmptySet
    <3>6. r \in ready => P \ done = {p}
        BY <3>1, <3>5
    <3>. QED BY <3>2, <3>3, <3>6, <2>1, <2>2, FS_EmptySet
  <2>4. CASE r \notin Triggered(p)
    <3>1. P \ now = P \ done
        BY <2>4, <1>3, <1>4
    <3>2. count[r] = counter[r] /\ r \notin ready
        BY <2>4
    <3>. QED BY <3>1, <3>2, <2>1, <2>2, FS_EmptySet
  <2>. QED BY <2>3, <2>4
<1>8. Changed(hMax, next) = {q \in propositions : hMax[q] # next[q]}
    BY <1>1 DEF Changed, IsHMax
<1>9. IsOrdered(next, count, waiting)
  <2>1. \A q \in waiting : Triggered(q) # {}
      BY <1>2 DEF Queued
  <2>2. ASSUME NEW q \in now, NEW u \in waiting PROVE AtMost(next[q], next[u])
    <3>1. q \in propositions /\ u \in propositions /\ next[q] = hMax[q]
        BY <1>1, <1>4, <1>8 DEF now, Popped, Queued
    <3>2. next[q] \in Values /\ next[u] \in Values /\ hMax[p] \in Values
        BY <3>1, <1>1, <1>4 DEF IsHMax
    <3>3. AtMost(hMax[q], hMax[p])
      <4>1. AtMost(hMax[p], hMax[p])
          BY <3>2, ValuesAreOrdered
      <4>. QED BY <4>1, <1>2, <1>4
    <3>4. AtMost(hMax[p], next[u])
      <4>1. CASE next[u] = hMax[u]
        <5>1. u \in queue
            BY <4>1, <1>8 DEF Queued
        <5>. QED BY <5>1, <4>1 DEF IsNext, AtMost
      <4>2. CASE next[u] # hMax[u]
          BY <4>2, <3>1, <1>4
      <4>. QED BY <4>1, <4>2
    <3>. QED BY <3>1, <3>2, <3>3, <3>4, ValuesAreOrdered
  <2>. QED BY <2>1, <2>2, <1>7 DEF IsOrdered, now
<1>10. ASSUME NEW r \in Ids, count[r] = 0 PROVE IsBounded(next, cost, support, noted, waiting, r)
  <2>1. \A q \in relaxed[r].pre : next[q] # Infinity
      BY <1>10, <1>7 DEF now, Popped
  <2>2. CASE r \in ready
    <3>1. support[r] = p /\ noted[r] = hMax[p]
        BY <2>2
    <3>2. next[p] = hMax[p]
        BY <1>4
    <3>3. AtMost(hMax[p], hMax[p])
        BY <1>6, ValuesAreOrdered DEF Values
    <3>. QED BY <3>1, <3>2, <3>3, <2>1, <2>2, <1>4, <1>6 DEF IsBounded, AtMost
  <2>3. CASE r \notin ready
    <3>1. support[r] = supporter[r] /\ noted[r] = supporterCost[r]
        BY <2>3
    <3>2. r \notin Triggered(p) /\ counter[r] = 0
      <4>1. r \in Triggered(p) => counter[r] = 1
          BY <1>10, <1>1
      <4>. QED BY <4>1, <2>3, <1>10
    <3>3. IsBounded(hMax, cost, supporter, supporterCost, queue, r)
        BY <3>2 DEF AreBounded
    <3>4. relaxed[r].pre # {} /\ supporter[r] \in relaxed[r].pre
        BY <3>2, <1>1, <1>5 DEF AreSupported, IsSupported, IsRelaxedOperator
    <3> DEFINE s == supporter[r]
               v == supporterCost[r]
    <3>5. s \in propositions /\ s # p /\ Triggered(s) # {}
        BY <3>2, <3>4, <1>3, <1>5 DEF Triggered
    <3>6. v \in Amounts /\ PassedOn(hMax, cost, r, v) /\ AtMost(hMax[s], v) /\ (Less(hMax[s], v) => s \in queue)
        BY <3>3 DEF IsBounded
    <3> HIDE DEF s, v
    <3>7. v \in Values /\ hMax[s] \in Values /\ next[s] \in Values
        BY <3>5, <3>6, <1>1, <1>4 DEF IsHMax, Values
    <3>8. PassedOn(next, cost, r, v)
        BY <3>6, <3>7, <1>1, <1>4, PassedOnStays, ValuesAreOrdered
    <3>9. AtMost(next[s], v)
      <4>1. AtMost(next[s], hMax[s])
          BY <3>5, <1>1, <1>4, LowersIsAtMost
      <4>. QED BY <4>1, <3>6, <3>7, ValuesAreOrdered
    <3>10. Less(next[s], v) => s \in waiting
        BY <3>5, <3>6, <1>8 DEF Queued
    <3>. QED BY <3>1, <3>6, <3>8, <3>9, <3>10, <2>1 DEF IsBounded, s, v
  <2>. QED BY <2>2, <2>3
<1>11. ASSUME HasPrices(hMax, cost, done) PROVE HasPrices(next, cost, now)
  <2>1. PICK rank \in Ranks : \A e \in propositions :
            hMax[e] # Infinity => rank[e] <= Cardinality(done) /\ IsPriced(rank, hMax, cost, done, e)
      BY <1>11 DEF HasPrices
  <2> DEFINE n == Cardinality(done)
             new == [e \in propositions |-> IF next[e] = hMax[e] THEN rank[e] ELSE n + 1]
  <2>2. IsFiniteSet(done) /\ n \in Nat /\ Cardinality(now) = n + 1
    <3>1. IsFiniteSet(propositions) /\ done \subseteq propositions
        BY RelaxedFacts DEF ProperTasks, done, Popped
    <3>2. IsFiniteSet(done)
        BY <3>1, FS_Subset
    <3>. QED BY <3>2, <1>4, FS_AddElement, FS_CardinalityType
  <2> HIDE DEF n
  <2>3. new \in Ranks /\ \A e \in propositions : rank[e] \in Nat
      BY <2>2 DEF Ranks
  <2>4. ASSUME NEW q \in now PROVE q \in propositions /\ new[q] = rank[q] /\ rank[q] <= n /\ next[q] = hMax[q]
    <3>1. q \in propositions /\ next[q] = hMax[q] /\ next[q] # Infinity
        BY <1>4 DEF now, Popped
    <3>. QED BY <3>1, <2>1 DEF n
  <2>5. ASSUME NEW e \in propositions, next[e] # Infinity
        PROVE  new[e] <= n + 1 /\ IsPriced(new, next, cost, now, e)
    <3>1. CASE next[e] = hMax[e]
      <4>1. new[e] = rank[e] /\ rank[e] <= n /\ IsPriced(rank, hMax, cost, done, e)
          BY <3>1, <2>1, <2>5 DEF n
      <4>2. ASSUME NEW r \in Ids, e \in Leading(r), NEW q \in relaxed[r].pre, q \in done, rank[q] < rank[e],
                   AtMost(Through(cost, r, hMax[q], e), hMax[e])
            PROVE  q \in now /\ new[q] < new[e] /\ AtMost(Through(cost, r, next[q], e), next[e])
        <5>1. q \in now
            BY <4>2, <1>4
        <5>2. next[q] = hMax[q] /\ new[q] = rank[q]
            BY <5>1, <2>4
        <5>. QED BY <5>1, <5>2, <4>1, <4>2, <3>1
      <4>3. IsPriced(new, next, cost, now, e)
        <5>1. CASE e \in Initially
            BY <5>1 DEF IsPriced
        <5>2. CASE e \notin Initially
          <6>1. PICK r \in Ids : e \in Leading(r) /\ \A q \in relaxed[r].pre :
                    q \in done /\ rank[q] < rank[e] /\ AtMost(Through(cost, r, hMax[q], e), hMax[e])
              BY <4>1, <5>2 DEF IsPriced
          <6>2. \A q \in relaxed[r].pre :
                    q \in now /\ new[q] < new[e] /\ AtMost(Through(cost, r, next[q], e), next[e])
              BY <6>1, <4>2
          <6>. QED BY <6>1, <6>2 DEF IsPriced
        <5>. QED BY <5>1, <5>2
      <4>4. rank[e] \in Nat
          BY <2>3
      <4>. QED BY <4>1, <4>3, <4>4, <2>2
    <3>2. CASE next[e] # hMax[e]
      <4>1. PICK r \in ready : e \in Leading(r) /\ next[e] = Through(cost, r, hMax[p], e)
          BY <3>2, <1>4
      <4>2. new[e] = n + 1 /\ r \in Ids
          BY <3>2, <1>3
      <4>3. ASSUME NEW q \in relaxed[r].pre
            PROVE  q \in now /\ new[q] < new[e] /\ AtMost(Through(cost, r, next[q], e), next[e])
        <5>1. q \in done \/ q = p
          <6>1. relaxed[r].pre \ done = {p}
              BY <4>1, <4>2, <1>7
          <6>. QED BY <6>1
        <5>2. q \in now
            BY <5>1, <1>4
        <5>3. q \in propositions /\ new[q] = rank[q] /\ rank[q] <= n /\ next[q] = hMax[q] /\ rank[q] \in Nat
            BY <5>2, <2>3, <2>4
        <5>4. hMax[q] \in Amounts
            BY <5>2, <5>3, <1>1 DEF now, Popped, IsHMax, Values
        <5>5. AtMost(hMax[q], hMax[p])
          <6>1. AtMost(hMax[p], hMax[p])
              BY <1>6, ValuesAreOrdered DEF Values
          <6>. QED BY <5>1, <6>1, <1>2
        <5>6. AtMost(Through(cost, r, hMax[q], e), Through(cost, r, hMax[p], e))
            BY <4>1, <4>2, <5>4, <5>5, <1>1, <1>6, ThroughFacts
        <5>7. new[q] < new[e]
            BY <4>2, <5>3, <2>2
        <5>. QED BY <5>2, <5>3, <5>6, <5>7, <4>1
      <4>4. IsPriced(new, next, cost, now, e)
          BY <4>1, <4>2, <4>3 DEF IsPriced
      <4>. QED BY <4>2, <4>4, <2>2
    <3>. QED BY <3>1, <3>2
  <2> HIDE DEF new
  <2>6. HasPrices(next, cost, now)
      BY <2>2, <2>3, <2>5 DEF HasPrices
  <2>. QED BY <2>6
<1> QED BY <1>9, <1>10, <1>11 DEF AreBounded, done, now

-----------------------------------------------------------------------------
(* A step of an incremental exploration *)

\* While the operators that p triggers are updated, those after k may still have p as a
\* supporter that became cheaper.
Cheaper(h) == {q \in propositions : h[q] # hMax[q]}
Open(h, p, k, r) == (queue \ {p}) \cup Cheaper(h) \cup {q \in {p} : r > k}
IsHalfway(y, p, k) ==
    /\ Lowers(hMax, y.h)
    /\ \A r \in Ids : counter[r] = 0 =>
           IsBounded(y.h, cost, y.supporter, y.supporterCost, Open(y.h, p, k, r), r)

\* An operator that is not updated stays bounded.
LEMMA BoundedStays ==
    ASSUME GivenInv, ProperTasks, state \in states, CostsFit, IsHMax(hMax),
           NEW h, NEW next, IsHMax(h), IsHMax(next), Improves(h, next), Lowers(hMax, h), Lowers(h, next),
           NEW support, NEW noted, NEW p, NEW k, NEW l, NEW r \in Ids,
           support[r] \in relaxed[r].pre, support[r] = p => ~ (r > k) \/ r > l \/ ~ Less(h[p], noted[r]),
           IsBounded(h, cost, support, noted, Open(h, p, k, r), r)
    PROVE  IsBounded(next, cost, support, noted, Open(next, p, l, r), r)
<1> DEFINE s == support[r]
           v == noted[r]
<1>1. /\ s \in relaxed[r].pre /\ relaxed[r].pre \subseteq propositions
      /\ \A q \in relaxed[r].pre : h[q] # Infinity
      /\ v \in Amounts
      /\ PassedOn(h, cost, r, v)
      /\ AtMost(h[s], v)
      /\ Less(h[s], v) => s \in Open(h, p, k, r)
      /\ s = p => ~ (r > k) \/ r > l \/ ~ Less(h[p], v)
    BY RelaxedFacts DEF IsBounded, IsRelaxedOperator, ProperTasks
<1>2. s \in propositions /\ hMax[s] \in Values /\ h[s] \in Values /\ next[s] \in Values /\ v \in Values
    BY <1>1 DEF IsHMax, Values
<1> HIDE DEF s, v
<1>3. \A q \in relaxed[r].pre : next[q] # Infinity
    BY <1>1 DEF Improves
<1>4. PassedOn(next, cost, r, v)
  <2>1. AtMost(v, v)
      BY <1>2, ValuesAreOrdered
  <2>. QED BY <2>1, <1>1, PassedOnStays DEF CostsFit
<1>5. AtMost(next[s], v)
  <2>1. AtMost(next[s], h[s])
      BY <1>2, LowersIsAtMost
  <2>. QED BY <2>1, <1>1, <1>2, ValuesAreOrdered
<1>6. ASSUME Less(next[s], v) PROVE s \in Open(next, p, l, r)
  <2>1. CASE next[s] = h[s]
    <3>1. s \in Open(h, p, k, r)
        BY <2>1, <1>1, <1>6
    <3>2. CASE s \in Cheaper(h)
        BY <3>2, <2>1 DEF Open, Cheaper
    <3>3. CASE s \notin Cheaper(h)
        BY <3>1, <3>3, <2>1, <1>1, <1>6 DEF Open
    <3>. QED BY <3>2, <3>3
  <2>2. CASE next[s] # h[s]
    <3>1. Less(next[s], h[s]) /\ AtMost(h[s], hMax[s])
        BY <2>2, <1>2, LowersIsAtMost DEF Lowers
    <3>2. Less(next[s], hMax[s])
        BY <3>1, <1>2, ValuesAreOrdered
    <3>3. ~ Less(hMax[s], hMax[s])
        BY <1>2, ValuesAreOrdered DEF AtMost
    <3>4. s \in Cheaper(next)
        BY <3>2, <3>3, <1>2 DEF Cheaper
    <3>. QED BY <3>4 DEF Open
  <2>. QED BY <2>1, <2>2
<1> QED BY <1>1, <1>3, <1>4, <1>5, <1>6 DEF IsBounded, s, v

\* An operator whose supporter became cheaper is bounded by its dearest precondition.
LEMMA SupportedBounds ==
    ASSUME GivenInv, ProperTasks, state \in states, CostsFit, IsHMax(hMax),
           NEW p \in queue, NEW y, IsUpdate(y), NEW k \in Nat, NEW r \in Ids, r = k + 1,
           p \in relaxed[r].pre, IsHalfway(y, p, k)
    PROVE  IsHalfway(Supported(y, r, p), p, r)
<1> DEFINE z == Supported(y, r, p)
           dearer == {q \in relaxed[r].pre : Less(y.h[p], y.h[q])}
           new == IF dearer = {} THEN p ELSE CHOOSE q \in dearer : \A q2 \in dearer : ~ Less(y.h[q], y.h[q2])
           same == \/ y.supporter[r] # p
                   \/ ~ Less(y.h[p], y.supporterCost[r])
                   \/ counter[r] # 0
                   \/ \E q \in relaxed[r].pre : y.h[q] = Infinity
           better == IF y.h[new] = y.supporterCost[r] THEN y.h ELSE Improve(y.h, cost, r, new)
<1>1. z = IF same THEN y
          ELSE [supporter |-> [y.supporter EXCEPT ![r] = new],
                supporterCost |-> [y.supporterCost EXCEPT ![r] = y.h[new]],
                h |-> better]
    BY DEF Supported
<1>2. /\ relaxed[r].pre \in SUBSET propositions /\ IsFiniteSet(relaxed[r].pre)
      /\ \A q \in Ids : relaxed[q].pre # {} /\ relaxed[q].pre \subseteq propositions /\ q \in Nat
    BY RelaxedFacts DEF ProperTasks, IsRelaxedOperator
<1>3. /\ y \in Updates /\ AreSupported(y.h, y.supporter) /\ IsHMax(y.h)
      /\ y.supporter \in [Ids -> propositions \cup {Nothing}]
      /\ y.supporterCost \in [Ids -> Values]
    BY DEF IsUpdate, Improves, Updates
<1>4. Lowers(hMax, y.h) /\ \A q \in Ids : counter[q] = 0 =>
          IsBounded(y.h, cost, y.supporter, y.supporterCost, Open(y.h, p, k, q), q)
    BY DEF IsHalfway
<1>5. \A q \in Ids : counter[q] = 0 => y.supporter[q] \in relaxed[q].pre
    BY <1>2, <1>3 DEF AreSupported, IsSupported
<1>6. Lowers(y.h, y.h) /\ Improves(y.h, y.h)
    BY <1>3 DEF Lowers, Improves
<1>7. CASE same
  <2>1. z = y
      BY <1>1, <1>7
  <2> HIDE DEF z
  <2>2. ASSUME NEW q \in Ids, counter[q] = 0
        PROVE  IsBounded(y.h, cost, y.supporter, y.supporterCost, Open(y.h, p, r, q), q)
    <3>1. IsBounded(y.h, cost, y.supporter, y.supporterCost, Open(y.h, p, k, q), q)
        BY <1>4, <2>2
    <3>2. y.supporter[q] = p => ~ (q > k) \/ q > r \/ ~ Less(y.h[p], y.supporterCost[q])
      <4>1. q > k /\ ~ (q > r) => q = r
        <5>1. q \in Nat
            BY <1>2
        <5>. QED BY <5>1
      <4>2. q = r => ~ \E q2 \in relaxed[r].pre : y.h[q2] = Infinity
          BY <3>1 DEF IsBounded
      <4>. QED BY <4>1, <4>2, <1>7, <2>2
    <3> DEFINE g == y.h
               support == y.supporter
               noted == y.supporterCost
    <3> HIDE DEF g, support, noted
    <3>3. IsBounded(g, cost, support, noted, Open(g, p, r, q), q)
      <4>1. /\ IsHMax(g) /\ Improves(g, g) /\ Lowers(hMax, g) /\ Lowers(g, g)
            /\ support[q] \in relaxed[q].pre
            /\ support[q] = p => ~ (q > k) \/ q > r \/ ~ Less(g[p], noted[q])
            /\ IsBounded(g, cost, support, noted, Open(g, p, k, q), q)
          BY <3>1, <3>2, <1>3, <1>4, <1>5, <1>6, <2>2 DEF g, support, noted
      <4>. QED BY <4>1, BoundedStays
    <3>. QED BY <3>3 DEF g, support, noted
  <2>. QED BY <2>1, <2>2, <1>4 DEF IsHalfway, z
<1>8. CASE ~ same
  <2>1. /\ y.supporter[r] = p /\ Less(y.h[p], y.supporterCost[r]) /\ counter[r] = 0
        /\ \A q \in relaxed[r].pre : y.h[q] \in Amounts
      BY <1>8, <1>2, <1>3 DEF IsHMax, Values
  <2>2. new \in relaxed[r].pre
    <3>1. CASE dearer = {}
        BY <3>1
    <3>2. CASE dearer # {}
      <4> DEFINE v == [q \in dearer |-> y.h[q]]
      <4>1. IsFiniteSet(dearer) /\ v \in [dearer -> Amounts]
          BY <1>2, <2>1, FS_Subset
      <4>2. \E q \in dearer : \A q2 \in dearer : ~ Less(v[q], v[q2])
        <5> HIDE DEF v, dearer
        <5>. QED BY <4>1, <3>2, Extremes
      <4>3. \E q \in dearer : \A q2 \in dearer : ~ Less(y.h[q], y.h[q2])
          BY <4>2
      <4> HIDE DEF v
      <4>4. new \in dearer
        <5> HIDE DEF dearer
        <5>. QED BY <4>3, <3>2
      <4>. QED BY <4>4
    <3>. QED BY <3>1, <3>2
  <2> DEFINE h == y.h
             v == y.h[new]
  <2> HIDE DEF new, dearer, same, better
  <2>3. new \in propositions /\ v \in Amounts /\ v \in Values /\ h[new] # Infinity /\ IsHMax(h)
      BY <2>1, <2>2, <1>2, <1>3, AmountFacts DEF Values
  <2>4. /\ z.h = better /\ z.supporter = [y.supporter EXCEPT ![r] = new]
        /\ z.supporterCost = [y.supporterCost EXCEPT ![r] = v]
      BY <1>1, <1>8
  <2>5. IsHMax(better) /\ Improves(h, better) /\ Lowers(h, better) /\ PassedOn(better, cost, r, v)
    <3>1. CASE h[new] = y.supporterCost[r]
      <4>1. better = h
          BY <3>1 DEF better
      <4>2. PassedOn(h, cost, r, v)
          BY <3>1, <1>4, <2>1 DEF IsBounded
      <4>. QED BY <4>1, <4>2, <1>3, <1>6
    <3>2. CASE h[new] # y.supporterCost[r]
      <4>1. better = Improve(h, cost, r, new)
          BY <3>2 DEF better
      <4> HIDE DEF h
      <4>2. cost \in [Ids -> Amounts] /\ h[new] = v
          BY DEF CostsFit, h
      <4>3. Improves(h, Improve(h, cost, r, new))
          BY <2>3, <4>2, ImproveFacts
      <4>4. LET next == Improve(h, cost, r, new)
            IN  IsHMax(next) /\ Lowers(h, next) /\ PassedOn(next, cost, r, h[new])
          BY <2>3, <4>2, ImproveValues
      <4>. QED BY <4>1, <4>2, <4>3, <4>4
    <3>. QED BY <3>1, <3>2
  <2>6. Lowers(hMax, better)
      BY <1>4, <2>3, <2>5, LowersIsTransitive
  <2> HIDE DEF z
  <2>7. ASSUME NEW q \in Ids, counter[q] = 0
        PROVE  IsBounded(z.h, cost, z.supporter, z.supporterCost, Open(z.h, p, r, q), q)
    <3>1. CASE q = r
      <4>1. z.supporter[q] = new /\ z.supporterCost[q] = v
          BY <2>4, <3>1, <1>3
      <4>2. \A q2 \in relaxed[r].pre : better[q2] # Infinity
          BY <2>1, <2>5, <1>2, AmountFacts DEF Improves
      <4>3. AtMost(better[new], v)
          BY <2>3, <2>5, LowersIsAtMost
      <4>4. Less(better[new], v) => new \in Cheaper(better)
        <5>1. SUFFICES ASSUME Less(better[new], v) PROVE better[new] # hMax[new]
            BY <2>3 DEF Cheaper
        <5>2. AtMost(h[new], hMax[new]) /\ better[new] \in Values /\ hMax[new] \in Values
            BY <1>4, <2>3, <2>5, LowersIsAtMost DEF IsHMax
        <5>3. Less(better[new], hMax[new]) /\ ~ Less(hMax[new], hMax[new])
            BY <5>1, <5>2, <2>3, ValuesAreOrdered DEF AtMost
        <5>. QED BY <5>3
      <4> DEFINE support == z.supporter
                 noted == z.supporterCost
      <4>5. support[r] = new /\ noted[r] = v
          BY <4>1, <3>1
      <4> HIDE DEF support, noted, v
      <4>6. IsBounded(better, cost, support, noted, Open(better, p, r, r), r)
          BY <4>2, <4>3, <4>4, <4>5, <2>3, <2>5 DEF IsBounded, Open
      <4>. QED BY <4>6, <3>1, <2>4 DEF support, noted
    <3>2. CASE q # r
      <4>1. z.supporter[q] = y.supporter[q] /\ z.supporterCost[q] = y.supporterCost[q]
          BY <2>4, <3>2, <1>3
      <4>2. IsBounded(y.h, cost, y.supporter, y.supporterCost, Open(y.h, p, k, q), q)
          BY <1>4, <2>7
      <4>3. ~ (q > k) \/ q > r
        <5>1. q \in Nat
            BY <1>2
        <5>. QED BY <5>1, <3>2
      <4> DEFINE support == z.supporter
                 noted == z.supporterCost
      <4> HIDE DEF support, noted
      <4>4. IsBounded(h, cost, support, noted, Open(h, p, k, q), q)
          BY <4>1, <4>2 DEF IsBounded, support, noted
      <4>5. support[q] \in relaxed[q].pre
          BY <4>1, <1>5, <2>7 DEF support
      <4> HIDE DEF h
      <4>6. IsBounded(better, cost, support, noted, Open(better, p, r, q), q)
        <5>1. IsHMax(h) /\ IsHMax(better) /\ Improves(h, better) /\ Lowers(hMax, h) /\ Lowers(h, better)
            BY <1>4, <2>3, <2>5 DEF h
        <5>2. support[q] = p => ~ (q > k) \/ q > r \/ ~ Less(h[p], noted[q])
            BY <4>3
        <5>. QED BY <5>1, <5>2, <4>4, <4>5, BoundedStays
      <4>. QED BY <4>6, <2>4 DEF support, noted
    <3>. QED BY <3>1, <3>2
  <2>. QED BY <2>4, <2>6, <2>7 DEF IsHalfway, z
<1> QED BY <1>7, <1>8

\* A step of first_exploration_incremental: the operators that p triggers are updated.
LEMMA UpdateBounds ==
    ASSUME GivenInv, ProperTasks, ResetInv, ExplorationInv,
           AreBounded(hMax, cost, supporter, supporterCost, counter, queue),
           NEW p \in queue, NEW x, NEW F, IsUpdateRun(F, p, x),
           NEW waiting, waiting = (queue \ {p}) \cup Queued(Changed(hMax, x.h))
    PROVE  AreBounded(x.h, cost, x.supporter, x.supporterCost, counter, waiting)
<1> DEFINE N == Len(relaxed)
           T == {k \in Nat : k <= N => IsHalfway(F[k], p, k)}
<1>1. /\ state \in states /\ CostsFit /\ IsHMax(hMax) /\ AreSupported(hMax, supporter)
    BY DEF ResetInv, ExplorationInv
<1>2. /\ N \in Nat /\ Ids = 1..N
      /\ \A r \in Ids : relaxed[r].pre # {} /\ relaxed[r].pre \subseteq propositions
    BY RelaxedFacts DEF ProperTasks, IsRelaxedOperator
<1>3. /\ F[0] = [supporter |-> supporter, supporterCost |-> supporterCost, h |-> hMax]
      /\ \A k \in 1..N : F[k] = IF k \in Triggered(p) THEN Supported(F[k - 1], k, p) ELSE F[k - 1]
      /\ \A k \in 0..N : IsUpdate(F[k])
      /\ x = F[N]
    BY DEF IsUpdateRun
<1> HIDE DEF N
<1>4. 0 \in T
  <2> DEFINE y == F[0]
  <2>1. y.h = hMax /\ y.supporter = supporter /\ y.supporterCost = supporterCost
      BY <1>3
  <2> HIDE DEF y
  <2>2. Lowers(hMax, y.h)
      BY <2>1 DEF Lowers
  <2>3. ASSUME NEW r \in Ids, counter[r] = 0
        PROVE  IsBounded(y.h, cost, y.supporter, y.supporterCost, Open(y.h, p, 0, r), r)
    <3>1. IsBounded(hMax, cost, supporter, supporterCost, queue, r)
        BY <2>3 DEF AreBounded
    <3>2. r > 0
        BY <1>2
    <3>3. queue \subseteq Open(hMax, p, 0, r)
        BY <3>2 DEF Open
    <3>4. IsBounded(hMax, cost, supporter, supporterCost, Open(hMax, p, 0, r), r)
        BY <3>1, <3>3 DEF IsBounded
    <3>. QED BY <3>4, <2>1
  <2>4. IsHalfway(y, p, 0)
      BY <2>2, <2>3 DEF IsHalfway
  <2>. QED BY <2>4 DEF y
<1>5. ASSUME NEW k \in Nat, k \in T PROVE k + 1 \in T
  <2>1. SUFFICES ASSUME k + 1 <= N PROVE IsHalfway(F[k + 1], p, k + 1)
      OBVIOUS
  <2> DEFINE r == k + 1
             y == F[k]
  <2>2. IsHalfway(y, p, k) /\ k \in 0..N /\ r \in 1..N /\ r - 1 = k
      BY <1>5, <2>1, <1>2
  <2>3. IsUpdate(y) /\ r \in Ids /\ F[r] = IF r \in Triggered(p) THEN Supported(y, r, p) ELSE y
      BY <2>2, <1>2, <1>3
  <2> HIDE DEF y
  <2>4. CASE r \in Triggered(p)
    <3>1. p \in relaxed[r].pre
        BY <2>4 DEF Triggered
    <3>2. r = k + 1
        OBVIOUS
    <3>3. IsHalfway(Supported(y, r, p), p, r)
      <4> HIDE DEF r
      <4>. QED BY <1>1, <2>2, <2>3, <3>1, <3>2, SupportedBounds
    <3>. QED BY <3>3, <2>3, <2>4
  <2>5. CASE r \notin Triggered(p)
    <3> DEFINE g == y.h
               support == y.supporter
               noted == y.supporterCost
    <3>1. /\ IsHMax(g) /\ Improves(g, g) /\ Lowers(hMax, g) /\ Lowers(g, g)
          /\ \A q \in Ids : counter[q] = 0 => support[q] \in relaxed[q].pre
      <4>1. IsHMax(g) /\ AreSupported(g, support)
          BY <2>3 DEF IsUpdate, Improves
      <4>2. Lowers(hMax, g)
          BY <2>2 DEF IsHalfway
      <4>. QED BY <4>1, <4>2, <1>2 DEF Improves, Lowers, AreSupported, IsSupported
    <3>2. \A q \in Ids : counter[q] = 0 => IsBounded(g, cost, support, noted, Open(g, p, k, q), q)
        BY <2>2 DEF IsHalfway
    <3> HIDE DEF g, support, noted
    <3>3. ASSUME NEW q \in Ids, counter[q] = 0
          PROVE  IsBounded(g, cost, support, noted, Open(g, p, r, q), q)
      <4>1. support[q] = p => ~ (q > k) \/ q > r
        <5>1. SUFFICES ASSUME support[q] = p, q > k, ~ (q > r) PROVE FALSE
            OBVIOUS
        <5>2. q = r
            BY <5>1, <1>2
        <5>3. p \in relaxed[r].pre
            BY <5>1, <5>2, <3>1, <3>3
        <5>. QED BY <5>3, <2>3, <2>5 DEF Triggered
      <4>2. support[q] \in relaxed[q].pre /\ IsBounded(g, cost, support, noted, Open(g, p, k, q), q)
          BY <3>1, <3>2, <3>3
      <4> HIDE DEF r
      <4>. QED BY <4>1, <4>2, <3>1, <1>1, BoundedStays
    <3>4. IsHalfway(y, p, r)
        BY <3>1, <3>3 DEF IsHalfway, g, support, noted
    <3>. QED BY <3>4, <2>3, <2>5
  <2>. QED BY <2>4, <2>5
<1>6. IsHalfway(x, p, N) /\ IsUpdate(x)
  <2>1. \A n \in Nat : n \in T
    <3> HIDE DEF T
    <3>. QED BY <1>4, <1>5, Counting
  <2>2. N <= N /\ N \in 0..N
      BY <1>2
  <2>. QED BY <2>1, <2>2, <1>2, <1>3
<1>7. ASSUME NEW r \in Ids, counter[r] = 0
      PROVE  IsBounded(x.h, cost, x.supporter, x.supporterCost, waiting, r)
  <2>1. IsBounded(x.h, cost, x.supporter, x.supporterCost, Open(x.h, p, N, r), r)
      BY <1>6, <1>7 DEF IsHalfway
  <2>2. x.supporter[r] \in relaxed[r].pre /\ x.supporter[r] \in propositions
      BY <1>2, <1>6, <1>7 DEF IsUpdate, AreSupported, IsSupported
  <2>3. ~ (r > N)
      BY <1>2
  <2>4. Changed(hMax, x.h) = Cheaper(x.h)
      BY <1>1 DEF Changed, Cheaper, IsHMax
  <2>5. x.supporter[r] \in Open(x.h, p, N, r) => x.supporter[r] \in waiting
      BY <2>2, <2>3, <2>4 DEF Open, Queued, Triggered
  <2>. QED BY <2>1, <2>5 DEF IsBounded
<1> QED BY <1>7 DEF AreBounded

\* A cut lowers the costs of operators, and passes on their prices.
LEMMA CutBounds ==
    ASSUME IsReady, AreBounded(hMax, cost, supporter, supporterCost, counter, queue),
           CutEdges # {}, NEW order \in Orders(Origins(CutEdges)),
           NEW c, c = Reduced(CutEdges), NEW next, next = ImproveInTurn(hMax, c, ToUpdate, order),
           NEW waiting, waiting = Queued(Changed(hMax, next))
    PROVE  /\ AreBounded(next, c, supporter, supporterCost, counter, waiting)
           /\ Improves(hMax, next) /\ Keeps(hMax, next)
<1>1. GivenInv /\ ProperTasks /\ CostsFit /\ state \in states /\ IsHMax(hMax) /\ AreSupported(hMax, supporter)
      /\ cost \in [Ids -> Amounts] /\ queue = {}
    BY ReadyFacts DEF ExplorationInv, CostsFit, IsReady
<1>2. \A r \in Ids : relaxed[r].pre # {} /\ relaxed[r].pre \subseteq propositions
    BY <1>1, RelaxedFacts DEF ProperTasks, IsRelaxedOperator
<1>3. c \in [Ids -> Amounts]
  <2>1. \A r \in Ids : c[r] \in Amounts
      BY ReducedFacts
  <2>2. c = [r \in Ids |-> c[r]]
      BY DEF Reduced
  <2>. QED BY <2>1, <2>2
<1>4. /\ Len(order) \in Nat
      /\ \A o \in Origins(CutEdges) : \E k \in 1..Len(order) : order[k] = o
  <2>1. CutEdges \subseteq AllEdges
      BY CutCostFacts
  <2>. QED BY <2>1, <1>1, OrdersAreFinite
<1>5. ToUpdate \in SUBSET Ids /\ \A r \in ToUpdate : counter[r] = 0
    BY DEF ToUpdate, OfOrigins
<1>6. \A r \in Ids : counter[r] = 0 =>
          /\ supporter[r] \in relaxed[r].pre /\ supporter[r] \in propositions
          /\ hMax[supporter[r]] # Infinity /\ IsReached(hMax, r)
    BY <1>1, <1>2 DEF AreSupported, IsSupported
<1>7. \A r \in ToUpdate : \E k \in 1..Len(order) : r \in OfOrigins({order[k]})
  <2>1. ASSUME NEW r \in ToUpdate PROVE \E k \in 1..Len(order) : r \in OfOrigins({order[k]})
    <3>1. r \in Ids /\ relaxed[r].origin \in Origins(CutEdges) /\ relaxed[r].origin # NoOrigin
        BY DEF ToUpdate, OfOrigins
    <3>2. PICK k \in 1..Len(order) : order[k] = relaxed[r].origin
        BY <3>1, <1>4
    <3>. QED BY <3>1, <3>2 DEF OfOrigins
  <2>. QED BY <2>1
<1> DEFINE R == ToUpdate
<1>8. /\ R \in SUBSET Ids
      /\ \A r \in R : supporter[r] \in propositions /\ hMax[supporter[r]] # Infinity /\ IsReached(hMax, r)
      /\ \A r \in R : \E k \in 1..Len(order) : r \in OfOrigins({order[k]})
    BY <1>5, <1>6, <1>7
<1> HIDE DEF R
<1>9. /\ Lowers(hMax, ImproveInTurn(hMax, c, R, order))
      /\ \A r \in R : PassedOn(ImproveInTurn(hMax, c, R, order), c, r, hMax[supporter[r]])
    BY <1>1, <1>3, <1>4, <1>8, ImproveInTurnValues
<1>10. Improves(hMax, ImproveInTurn(hMax, c, R, order)) /\ Keeps(hMax, ImproveInTurn(hMax, c, R, order))
    BY <1>1, <1>3, <1>4, <1>8, ImproveInTurnFacts
<1>11. /\ Lowers(hMax, next) /\ Improves(hMax, next) /\ Keeps(hMax, next) /\ IsHMax(next)
       /\ \A r \in ToUpdate : PassedOn(next, c, r, hMax[supporter[r]])
    BY <1>9, <1>10 DEF R, Improves
<1>12. ASSUME NEW r \in Ids, counter[r] = 0 PROVE IsBounded(next, c, supporter, supporterCost, waiting, r)
  <2> DEFINE s == supporter[r]
             v == supporterCost[r]
  <2>1. IsBounded(hMax, cost, supporter, supporterCost, queue, r)
      BY <1>12 DEF AreBounded
  <2>2. s \in relaxed[r].pre /\ s \in propositions /\ hMax[s] # Infinity /\ Triggered(s) # {}
      BY <1>6, <1>12 DEF Triggered
  <2>3. /\ \A q \in relaxed[r].pre : hMax[q] # Infinity
        /\ v \in Amounts /\ PassedOn(hMax, cost, r, v) /\ AtMost(hMax[s], v) /\ ~ Less(hMax[s], v)
      BY <2>1, <1>1 DEF IsBounded
  <2> HIDE DEF s, v
  <2>4. v \in Values /\ hMax[s] \in Values /\ next[s] \in Values /\ hMax[s] \in Amounts /\ AtMost(v, v)
      BY <2>2, <2>3, <1>1, <1>11, ValuesAreOrdered DEF IsHMax, Values
  <2>5. \A q \in relaxed[r].pre : next[q] # Infinity
      BY <2>3, <1>2, <1>11 DEF Improves
  <2>6. PassedOn(next, c, r, v)
    <3>1. CASE r \in ToUpdate
      <4>1. PassedOn(next, c, r, hMax[s])
          BY <3>1, <1>11 DEF s
      <4>2. Lowers(next, next)
          BY DEF Lowers
      <4>. QED BY <4>1, <4>2, <2>3, <2>4, <1>1, <1>3, <1>11, PassedOnStays
    <3>2. CASE r \notin ToUpdate
      <4>1. relaxed[r].origin \notin Origins(CutEdges)
        <5>1. NoOrigin \notin Origins(CutEdges)
            BY DEF Origins
        <5>. QED BY <5>1, <3>2, <1>12 DEF ToUpdate, OfOrigins
      <4>2. c[r] = cost[r]
          BY <4>1 DEF Reduced
      <4>3. PassedOn(hMax, c, r, v)
          BY <4>2, <2>3 DEF PassedOn, Through
      <4>. QED BY <4>3, <2>3, <2>4, <1>1, <1>3, <1>11, PassedOnStays
    <3>. QED BY <3>1, <3>2
  <2>7. AtMost(next[s], v)
    <3>1. AtMost(next[s], hMax[s])
        BY <2>2, <1>1, <1>11, LowersIsAtMost
    <3>. QED BY <3>1, <2>3, <2>4, ValuesAreOrdered
  <2>8. Less(next[s], v) => s \in waiting
    <3>1. Changed(hMax, next) = {q \in propositions : hMax[q] # next[q]}
        BY <1>1 DEF Changed, IsHMax
    <3>. QED BY <3>1, <2>2, <2>3 DEF Queued
  <2>. QED BY <2>3, <2>5, <2>6, <2>7, <2>8 DEF IsBounded, s, v
<1> QED BY <1>11, <1>12 DEF AreBounded

-----------------------------------------------------------------------------
(* What an exploration knows stays known *)

\* Ranks stay while nothing else is reached.
LEMMA RanksStay ==
    ASSUME GivenInv, ProperTasks, NEW h, NEW next, Improves(h, next), Keeps(h, next), HasRanks(h)
    PROVE  HasRanks(next)
<1>1. \A p \in propositions : next[p] # Infinity <=> h[p] # Infinity
    BY DEF Improves, Keeps
<1>2. \A r \in Ids : relaxed[r].pre \subseteq propositions
    BY RelaxedFacts DEF ProperTasks, IsRelaxedOperator
<1> QED BY <1>1, <1>2 DEF HasRanks, IsRanked

\* What was popped ranks what is reached.
LEMMA PricesAreRanks ==
    ASSUME GivenInv, ProperTasks, NEW h, NEW c, NEW waiting, HasPrices(h, c, Popped(h, waiting))
    PROVE  HasRanks(h)
<1> DEFINE done == Popped(h, waiting)
<1>1. IsFiniteSet(propositions) /\ done \in SUBSET propositions
    BY RelaxedFacts DEF ProperTasks, Popped
<1>2. Cardinality(done) <= Cardinality(propositions) /\ Cardinality(done) \in Nat /\ Cardinality(propositions) \in Nat
  <2> HIDE DEF done
  <2>. QED BY <1>1, FS_Subset, FS_CardinalityType
<1>3. \A q \in done : h[q] # Infinity
    BY DEF Popped
<1>4. PICK rank \in Ranks : \A p \in propositions :
          h[p] # Infinity => rank[p] <= Cardinality(done) /\ IsPriced(rank, h, c, done, p)
    BY DEF HasPrices
<1> HIDE DEF done
<1>5. ASSUME NEW p \in propositions, h[p] # Infinity
      PROVE  rank[p] <= Cardinality(propositions) /\ IsRanked(rank, h, p)
  <2>1. rank[p] \in Nat
      BY DEF Ranks
  <2>2. rank[p] <= Cardinality(propositions)
      BY <1>2, <1>4, <1>5, <2>1
  <2>3. IsRanked(rank, h, p)
      BY <1>3, <1>4, <1>5 DEF IsPriced, IsRanked
  <2>. QED BY <2>2, <2>3
<1> QED BY <1>5 DEF HasRanks

\* first_exploration keeps what is known of the values.
LEMMA ExploreHMax ==
    ASSUME EvaluationInv, HMaxInv, ProperTasks, Explore
    PROVE  HMaxInv'
<1>1. phase = "exploring" /\ IsEvaluating /\ SameState /\ cost' = cost
    BY DEF Explore, given, SameState, IsEvaluating
<1>2. GivenInv /\ ResetInv /\ ExplorationInv
    BY <1>1 DEF EvaluationInv, IsEvaluating
<1>3. /\ AreBounded(hMax, cost, supporter, supporterCost, counter, queue)
      /\ IsOrdered(hMax, counter, queue)
      /\ HasPrices(hMax, cost, Popped(hMax, queue))
    BY <1>1 DEF HMaxInv
<1>4. PICK p \in queue :
        LET ready == {r \in Triggered(p) : counter[r] = 1}
            next  == ImproveAll(hMax, cost, ready, [r \in ready |-> p])
        IN  /\ IsNext(p)
            /\ phase' = IF \E r \in Triggered(p) : counter[r] = 0 THEN "failed" ELSE phase
            /\ counter' = [r \in Ids |-> IF r \in Triggered(p) THEN counter[r] - 1 ELSE counter[r]]
            /\ supporter' = [r \in Ids |-> IF r \in ready THEN p ELSE supporter[r]]
            /\ supporterCost' = [r \in Ids |-> IF r \in ready THEN hMax[p] ELSE supporterCost[r]]
            /\ hMax' = next
            /\ queue' = (queue \ {p}) \cup Queued(Changed(hMax, next))
    BY DEF Explore
<1> DEFINE ready == {r \in Triggered(p) : counter[r] = 1}
           next == ImproveAll(hMax, cost, ready, [r \in ready |-> p])
           waiting == (queue \ {p}) \cup Queued(Changed(hMax, next))
           count == [r \in Ids |-> IF r \in Triggered(p) THEN counter[r] - 1 ELSE counter[r]]
           support == [r \in Ids |-> IF r \in ready THEN p ELSE supporter[r]]
           noted == [r \in Ids |-> IF r \in ready THEN hMax[p] ELSE supporterCost[r]]
<1>5. CASE \E r \in Triggered(p) : counter[r] = 0
  <2>1. phase' = "failed"
      BY <1>4, <1>5
  <2>. QED BY <2>1 DEF HMaxInv, IsEvaluating
<1>6. CASE \A r \in Triggered(p) : counter[r] # 0
  <2>1. /\ next = hMax' /\ waiting = queue' /\ count = counter' /\ support = supporter'
        /\ noted = supporterCost' /\ phase' = "exploring" /\ IsNext(p)
      BY <1>1, <1>4, <1>6
  <2>2. IsExplored(p, ready, next, waiting, count, support, noted)
      BY DEF IsExplored
  <2> HIDE DEF ready, next, waiting, count, support, noted
  <2>3. /\ AreBounded(next, cost, support, noted, count, waiting)
        /\ IsOrdered(next, count, waiting)
        /\ HasPrices(hMax, cost, Popped(hMax, queue)) => HasPrices(next, cost, Popped(next, waiting))
      BY <1>2, <1>3, <1>6, <2>1, <2>2, ExploreBounds
  <2>4. AreBounded(hMax, cost, supporter, supporterCost, counter, queue)'
      BY <1>1, <2>1, <2>3, BoundedThen
  <2>5. IsOrdered(hMax, counter, queue)'
      BY <1>1, <2>1, <2>3, OrderedThen
  <2>6. HasPrices(hMax, cost, Popped(hMax, queue))'
    <3> DEFINE done == Popped(next, waiting)
    <3>1. done = Popped(hMax, queue)'
        BY <1>1, <2>1, PoppedThen
    <3>2. HasPrices(next, cost, done)
        BY <1>3, <2>3
    <3> HIDE DEF done
    <3>. QED BY <1>1, <2>1, <3>1, <3>2, PricesThen
  <2>. QED BY <2>1, <2>4, <2>5, <2>6 DEF HMaxInv
<1> QED BY <1>5, <1>6

\* An exploration that is updated, or begins to be.
LEMMA UpdatedHMax ==
    ASSUME EvaluationInv, HMaxInv, IsEvaluating, ProperTasks, SameState, phase' = "updating",
           NEW h, h = hMax', Improves(hMax, h), Keeps(hMax, h),
           AreBounded(hMax, cost, supporter, supporterCost, counter, queue)'
    PROVE  HMaxInv'
<1>1. GivenInv
    BY DEF EvaluationInv
<1>2. HasRanks(hMax)
    BY <1>1, PricesAreRanks DEF HMaxInv, IsEvaluating
<1>3. HasRanks(h)
    BY <1>1, <1>2, RanksStay
<1>4. HasRanks(hMax)'
    BY <1>3, RanksThen
<1> QED BY <1>4 DEF HMaxInv

\* first_exploration_incremental keeps it.
LEMMA UpdateHMax ==
    ASSUME EvaluationInv, HMaxInv, ProperTasks, Update
    PROVE  HMaxInv'
<1>1. phase = "updating" /\ phase' = phase /\ IsEvaluating /\ SameState /\ cost' = cost /\ counter' = counter
    BY DEF Update, given, SameState, IsEvaluating
<1>2. GivenInv /\ ResetInv /\ ExplorationInv
    BY <1>1 DEF EvaluationInv, IsEvaluating
<1>3. AreBounded(hMax, cost, supporter, supporterCost, counter, queue)
    BY <1>1 DEF HMaxInv
<1>4. PICK p \in queue :
        LET after[r \in 0..Len(relaxed)] ==
                IF r = 0 THEN [supporter |-> supporter, supporterCost |-> supporterCost, h |-> hMax]
                ELSE IF r \in Triggered(p) THEN Supported(after[r - 1], r, p) ELSE after[r - 1]
            x == after[Len(relaxed)]
        IN  /\ supporter' = x.supporter
            /\ supporterCost' = x.supporterCost
            /\ hMax' = x.h
            /\ queue' = (queue \ {p}) \cup Queued(Changed(hMax, x.h))
    BY DEF Update
<1> DEFINE x == LET after[r \in 0..Len(relaxed)] ==
                       IF r = 0 THEN [supporter |-> supporter, supporterCost |-> supporterCost, h |-> hMax]
                       ELSE IF r \in Triggered(p) THEN Supported(after[r - 1], r, p) ELSE after[r - 1]
                IN  after[Len(relaxed)]
<1>5. \E F : IsUpdateRun(F, p, x)
  <2> DEFINE y == x
  <2>1. y = x
      OBVIOUS
  <2> HIDE DEF y
  <2>2. \E F : IsUpdateRun(F, p, y)
      BY <1>2, <2>1, UpdateRuns
  <2>. QED BY <2>1, <2>2
<1> DEFINE h == x.h
           support == x.supporter
           noted == x.supporterCost
           waiting == (queue \ {p}) \cup Queued(Changed(hMax, x.h))
<1>6. h = hMax' /\ support = supporter' /\ noted = supporterCost' /\ waiting = queue'
    BY <1>4
<1> HIDE DEF x
<1>7. IsUpdate(x) /\ AreBounded(x.h, cost, x.supporter, x.supporterCost, counter, waiting)
    BY <1>2, <1>3, <1>5, UpdateFacts, UpdateBounds
<1>8. AreBounded(h, cost, support, noted, counter, waiting) /\ Improves(hMax, h) /\ Keeps(hMax, h)
    BY <1>7 DEF IsUpdate
<1> HIDE DEF h, support, noted, waiting
<1>9. AreBounded(hMax, cost, supporter, supporterCost, counter, queue)'
    BY <1>1, <1>6, <1>8, BoundedThen
<1> QED BY <1>1, <1>6, <1>8, <1>9, UpdatedHMax

\* A cut makes operators cheaper, and their prices are passed on.
LEMMA CutHMax ==
    ASSUME EvaluationInv, HMaxInv, ProperTasks, Cut
    PROVE  HMaxInv'
<1>1. /\ IsEvaluating /\ SameState /\ UNCHANGED <<counter, supporter, supporterCost>>
      /\ phase' = "failed" \/ (CutIsMade /\ IsReady)
    BY CutCases, CutStep
<1>2. CASE phase' = "failed"
    BY <1>2 DEF HMaxInv, IsEvaluating
<1>3. CASE CutIsMade /\ IsReady
  <2>1. PICK order \in Orders(Origins(CutEdges)) :
            hMax' = ImproveInTurn(hMax, Reduced(CutEdges), ToUpdate, order)
      BY <1>3 DEF CutIsMade
  <2> DEFINE c == Reduced(CutEdges)
             next == ImproveInTurn(hMax, c, ToUpdate, order)
             waiting == Queued(Changed(hMax, next))
  <2>2. phase' = "updating" /\ CutEdges # {} /\ c = cost' /\ next = hMax' /\ waiting = queue'
      BY <1>3, <2>1 DEF CutIsMade
  <2>3. AreBounded(hMax, cost, supporter, supporterCost, counter, queue)
      BY <1>1 DEF HMaxInv
  <2>4. /\ c = Reduced(CutEdges) /\ next = ImproveInTurn(hMax, c, ToUpdate, order)
        /\ waiting = Queued(Changed(hMax, next))
      OBVIOUS
  <2> HIDE DEF c, next, waiting
  <2>5. /\ AreBounded(next, c, supporter, supporterCost, counter, waiting)
        /\ Improves(hMax, next) /\ Keeps(hMax, next)
      BY <1>3, <2>2, <2>3, <2>4, CutBounds
  <2>6. AreBounded(hMax, cost, supporter, supporterCost, counter, queue)'
    <3> DEFINE support == supporter
               noted == supporterCost
               count == counter
    <3>1. support = supporter' /\ noted = supporterCost' /\ count = counter'
          /\ AreBounded(next, c, support, noted, count, waiting)
        BY <1>1, <2>5
    <3> HIDE DEF support, noted, count
    <3>. QED BY <1>1, <2>2, <3>1, BoundedThen
  <2>. QED BY <1>1, <2>2, <2>5, <2>6, UpdatedHMax
<1> QED BY <1>1, <1>2, <1>3

\* setup_exploration_queue has popped nothing yet.
LEMMA EvaluateHMax ==
    ASSUME EvaluationInv, ProperTasks, Evaluate
    PROVE  HMaxInv'
<1>1. phase = "idle" /\ SameGiven /\ GivenInv /\ ResetInv
    BY DEF Evaluate, given, SameGiven, EvaluationInv
<1>2. PICK s \in states :
        IF IsGoalState(task, s)
        THEN phase' = phase
        ELSE LET true == {p \in propositions : IsTrue(task, p, s)}
             IN  /\ phase' = "exploring"
                 /\ state' = s
                 /\ counter' = Reset(counter, [r \in Ids |-> Cardinality(relaxed[r].pre)])
                 /\ hMax' = [p \in propositions |-> IF p \in true THEN Zero ELSE Infinity]
                 /\ queue' = Queued(true)
    BY DEF Evaluate
<1>3. Ids' = Ids /\ relaxed' = relaxed /\ propositions' = propositions /\ task' = task
      /\ \A q : Triggered(q)' = Triggered(q)
  <2>1. Ids' = Ids /\ relaxed' = relaxed /\ propositions' = propositions /\ task' = task
      BY <1>1, SetsStay DEF SameGiven
  <2>. QED BY <2>1 DEF Triggered
<1>4. CASE IsGoalState(task, s)
    BY <1>1, <1>2, <1>4 DEF HMaxInv, IsEvaluating
<1>5. CASE ~ IsGoalState(task, s)
  <2> DEFINE true == {p \in propositions : IsTrue(task, p, s)}
  <2>1. /\ phase' = "exploring" /\ state' = s
        /\ counter' = Reset(counter, [r \in Ids |-> Cardinality(relaxed[r].pre)])
        /\ hMax' = [p \in propositions |-> IF p \in true THEN Zero ELSE Infinity]
        /\ queue' = Queued(true)
      BY <1>2, <1>5
  <2>2. Initially' = true
      BY <2>1, <1>3 DEF Initially
  <2>3. \A r \in Ids : IsRelaxedOperator(r)
      BY <1>1, RelaxedFacts DEF ProperTasks
  <2>4. ASSUME NEW r \in Ids PROVE counter'[r] = Cardinality(relaxed[r].pre) /\ counter'[r] # 0
    <3>1. counter'[r] = Cardinality(relaxed[r].pre)
        BY <2>1, <1>1 DEF Reset, ResetInv
    <3>2. IsFiniteSet(relaxed[r].pre) /\ relaxed[r].pre # {}
        BY <2>3 DEF IsRelaxedOperator
    <3>. QED BY <3>1, <3>2, FS_EmptySet
  <2>5. \A q \in propositions : hMax'[q] # Infinity => q \in true
      BY <2>1
  <2>6. Popped(hMax, queue)' = {}
    <3>1. Popped(hMax, queue)' = {q \in propositions : Triggered(q) # {} /\ hMax'[q] # Infinity /\ q \notin queue'}
        BY <1>3 DEF Popped
    <3>. QED BY <3>1, <2>1, <2>5 DEF Queued
  <2>7. AreBounded(hMax, cost, supporter, supporterCost, counter, queue)'
      BY <2>4, <1>3 DEF AreBounded
  <2>8. IsOrdered(hMax, counter, queue)'
    <3>1. \A q \in queue' : Triggered(q)' # {}
        BY <2>1, <1>3 DEF Queued
    <3>2. \A r \in Ids : counter'[r] = Cardinality(relaxed[r].pre \ {})
        BY <2>4
    <3>. QED BY <3>1, <3>2, <2>6, <1>3 DEF IsOrdered
  <2>9. HasPrices(hMax, cost, Popped(hMax, queue))'
    <3>0. [p \in propositions |-> 0] \in [propositions -> Nat]
        OBVIOUS
    <3>1. PICK rank \in [propositions -> Nat] : \A p \in propositions : rank[p] = 0
        BY <3>0
    <3> HIDE DEF true
    <3>2. ASSUME NEW p \in propositions, hMax'[p] # Infinity
          PROVE  rank[p] <= 0 /\ IsPriced(rank, hMax, cost, Popped(hMax, queue), p)'
      <4>1. p \in Initially'
          BY <3>2, <2>2, <2>5
      <4>. QED BY <4>1, <3>1 DEF IsPriced
    <3>3. Cardinality(Popped(hMax, queue))' = 0
        BY <2>6, FS_EmptySet
    <3>4. rank \in Ranks'
        BY <1>3 DEF Ranks
    <3>. QED BY <3>2, <3>3, <3>4, <1>3 DEF HasPrices
  <2>. QED BY <2>1, <2>7, <2>8, <2>9 DEF HMaxInv
<1> QED BY <1>4, <1>5

\* A step that changes nothing keeps it.
LEMMA IdleHMax ==
    ASSUME HMaxInv, UNCHANGED vars
    PROVE  HMaxInv'
<1>1. SameState /\ UNCHANGED <<phase, cost, counter, supporter, supporterCost, hMax, queue>>
    BY RecallStep
<1> DEFINE h == hMax
           c == cost
           support == supporter
           noted == supporterCost
           count == counter
           waiting == queue
           done == Popped(hMax, queue)
<1>2. /\ h = hMax' /\ c = cost' /\ support = supporter' /\ noted = supporterCost' /\ count = counter'
      /\ waiting = queue'
    BY <1>1
<1>3. IsEvaluating' => IsEvaluating
    BY <1>1 DEF IsEvaluating
<1>4. IsEvaluating =>
          /\ AreBounded(h, c, support, noted, count, waiting)
          /\ phase = "exploring" => IsOrdered(h, count, waiting)
          /\ phase = "exploring" => HasPrices(h, c, done)
          /\ phase = "updating" => HasRanks(h)
          /\ done = Popped(h, waiting)
    BY DEF HMaxInv
<1> HIDE DEF h, c, support, noted, count, waiting, done
<1>5. AreBounded(h, c, support, noted, count, waiting) => AreBounded(hMax, cost, supporter, supporterCost, counter, queue)'
    BY <1>1, <1>2, BoundedThen
<1>6. IsOrdered(h, count, waiting) => IsOrdered(hMax, counter, queue)'
    BY <1>1, <1>2, OrderedThen
<1>7. done = Popped(h, waiting) => done = Popped(hMax, queue)'
    BY <1>1, <1>2, PoppedThen
<1>8. done = Popped(h, waiting) /\ HasPrices(h, c, done) => HasPrices(hMax, cost, Popped(hMax, queue))'
    BY <1>1, <1>2, <1>7, PricesThen
<1>9. HasRanks(h) => HasRanks(hMax)'
    BY <1>1, <1>2, RanksThen
<1> QED BY <1>1, <1>3, <1>4, <1>5, <1>6, <1>8, <1>9 DEF HMaxInv

\* Every step keeps it.
LEMMA HMaxNext ==
    ASSUME EvaluationInv, HMaxInv, ProperTasks, [Next]_vars
    PROVE  HMaxInv'
<1>1. CASE Recall
    BY <1>1, IdleHMax DEF Recall
<1>2. CASE Evaluate
    BY <1>2, EvaluateHMax
<1>3. CASE Explore
    BY <1>3, ExploreHMax
<1>4. CASE Cut
    BY <1>4, CutHMax
<1>5. CASE Update
    BY <1>5, UpdateHMax
<1>6. CASE Conclude
    BY <1>6 DEF Conclude, HMaxInv, IsEvaluating
<1>7. CASE UNCHANGED vars
    BY <1>7, IdleHMax
<1> QED BY <1>1, <1>2, <1>3, <1>4, <1>5, <1>6, <1>7 DEF Next

\* Amounts are not Infinity.
LEMMA AmountsAreFinite ==
    ASSUME NEW a, NEW b \in Amounts, AtMost(a, b)
    PROVE  b # Infinity /\ a # Infinity
<1>1. b # Infinity /\ b \in Values
    BY DEF Amounts, Infinity, Values
<1>2. a # Infinity
    BY <1>1, ValuesAreOrdered DEF Values
<1> QED BY <1>1, <1>2

-----------------------------------------------------------------------------
(* The rounds of h^max *)

\* Among finitely many values there is a least one, among finitely many amounts a dearest.
LEMMA ValuesHaveExtremes ==
    ASSUME NEW S \in SUBSET Values, IsFiniteSet(S), S # {}
    PROVE  /\ Least(S) \in S /\ \A b \in S : AtMost(Least(S), b)
           /\ S \subseteq Amounts => Dearest(S) \in S /\ \A b \in S : AtMost(b, Dearest(S))
<1> DEFINE T == S \cap Amounts
           v == [a \in T |-> a]
<1>1. IsFiniteSet(T) /\ v \in [T -> Amounts]
    BY FS_Subset
<1>2. T # {} => /\ \E a \in T : \A b \in T : ~ Less(v[b], v[a])
                /\ \E a \in T : \A b \in T : ~ Less(v[a], v[b])
  <2> HIDE DEF T, v
  <2>. QED BY <1>1, Extremes
<1>3. \A b \in S : b \in T \/ b = Infinity
    BY DEF Values
<1>4. \E a \in S : \A b \in S : ~ Less(b, a)
  <2>1. CASE T = {}
    <3>1. S = {Infinity} /\ Infinity \in Values
        BY <2>1, <1>3 DEF Values
    <3>. QED BY <3>1, ValuesAreOrdered DEF AtMost
  <2>2. CASE T # {}
    <3>1. PICK a \in T : \A b \in T : ~ Less(b, a)
        BY <2>2, <1>2
    <3>2. ~ Less(Infinity, a)
        BY <3>1, ValuesAreOrdered DEF AtMost
    <3>. QED BY <3>1, <3>2, <1>3
  <2>. QED BY <2>1, <2>2
<1>5. S \subseteq Amounts => \E a \in S : \A b \in S : ~ Less(a, b)
    BY <1>2
<1> QED BY <1>4, <1>5 DEF Least, Dearest, AtMost

\* The operators that are reached at values h, what the dearest precondition of one costs,
\* and the prices of a proposition in a round.
ReachedAt(h) == {r \in Ids : \A q \in relaxed[r].pre : h[q] # Infinity}
DearestOf(h, r) == Dearest({Zero} \cup {h[q] : q \in relaxed[r].pre})
PricesAt(h, p) == {Through(cost, r, DearestOf(h, r), p) : r \in {r \in ReachedAt(h) : p \in Leading(r)}}

\* A dearest precondition is the dearest.
LEMMA DearestFacts ==
    ASSUME GivenInv, ProperTasks, NEW h, IsHMax(h), NEW r \in ReachedAt(h)
    PROVE  /\ DearestOf(h, r) \in Amounts
           /\ DearestOf(h, r) = Zero \/ \E q \in relaxed[r].pre : DearestOf(h, r) = h[q]
           /\ \A q \in relaxed[r].pre : AtMost(h[q], DearestOf(h, r))
<1> DEFINE pre == relaxed[r].pre
           V == {h[q] : q \in pre}
           S == {Zero} \cup V
           f == [q \in pre |-> h[q]]
<1>1. r \in Ids /\ pre \in SUBSET propositions /\ IsFiniteSet(pre)
    BY RelaxedFacts DEF ReachedAt, ProperTasks, IsRelaxedOperator
<1>2. \A q \in pre : h[q] \in Amounts
    BY <1>1 DEF IsHMax, Values, ReachedAt
<1>3. S \in SUBSET Amounts /\ S \in SUBSET Values /\ S # {}
    BY <1>2, SpecialAmounts DEF Values
<1>4. IsFiniteSet(V)
  <2>1. DOMAIN f = pre /\ V = {f[q] : q \in pre}
      OBVIOUS
  <2> HIDE DEF f, pre, V
  <2>. QED BY <2>1, <1>1, Images
<1>5. IsFiniteSet(S)
  <2> HIDE DEF V
  <2>. QED BY <1>4, FS_AddElement, FS_Singleton, FS_Union
<1>6. Dearest(S) \in S /\ \A b \in S : AtMost(b, Dearest(S))
  <2> HIDE DEF S
  <2>. QED BY <1>3, <1>5, ValuesHaveExtremes
<1>7. DearestOf(h, r) = Dearest(S)
    BY DEF DearestOf
<1> QED BY <1>3, <1>6, <1>7

\* A round lowers values, to the least of the prices.
LEMMA RoundFacts ==
    ASSUME GivenInv, ProperTasks, CostsFit, state \in states, NEW h, IsHMax(h)
    PROVE  /\ IsHMax(Round(h))
           /\ \A p \in propositions :
                  /\ AtMost(Round(h)[p], h[p])
                  /\ \A a \in PricesAt(h, p) : a \in Amounts /\ AtMost(Round(h)[p], a)
                  /\ Round(h)[p] = h[p] \/ Round(h)[p] \in PricesAt(h, p)
<1> DEFINE S(p) == {h[p]} \cup PricesAt(h, p)
<1>1. Round(h) = [p \in propositions |-> Least(S(p))]
    BY DEF Round, PricesAt, ReachedAt, DearestOf, Through, Often, Leading, Achieves
<1>2. ASSUME NEW p \in propositions
      PROVE  S(p) \in SUBSET Values /\ IsFiniteSet(S(p)) /\ PricesAt(h, p) \in SUBSET Amounts
  <2> DEFINE R == {r \in ReachedAt(h) : p \in Leading(r)}
             f == [r \in R |-> Through(cost, r, DearestOf(h, r), p)]
  <2>1. PricesAt(h, p) = {f[r] : r \in R} /\ DOMAIN f = R
      BY DEF PricesAt
  <2>2. IsFiniteSet(R)
    <3>1. IsFiniteSet(Ids) /\ R \in SUBSET Ids
        BY RelaxedFacts DEF ProperTasks, ReachedAt
    <3>. QED BY <3>1, FS_Subset
  <2>3. IsFiniteSet(PricesAt(h, p))
    <3> HIDE DEF f, R
    <3>. QED BY <2>1, <2>2, Images
  <2>4. ASSUME NEW r \in R PROVE f[r] \in Amounts
    <3>1. r \in Ids /\ r \in ReachedAt(h) /\ p \in Leading(r) /\ cost \in [Ids -> Amounts]
        BY DEF ReachedAt, CostsFit
    <3>2. DearestOf(h, r) \in Amounts
        BY <3>1, DearestFacts
    <3>3. Through(cost, r, DearestOf(h, r), p) \in Amounts
        BY <3>1, <3>2, ThroughFacts
    <3>. QED BY <3>3
  <2>5. PricesAt(h, p) \in SUBSET Amounts
      BY <2>1, <2>4
  <2>6. h[p] \in Values
      BY DEF IsHMax
  <2>7. S(p) \in SUBSET Values
      BY <2>5, <2>6 DEF Values
  <2>8. IsFiniteSet(S(p))
      BY <2>3, FS_Singleton, FS_Union
  <2>. QED BY <2>5, <2>7, <2>8
<1>3. ASSUME NEW p \in propositions
      PROVE  Least(S(p)) \in S(p) /\ \A b \in S(p) : AtMost(Least(S(p)), b)
  <2>1. S(p) # {} /\ S(p) \in SUBSET Values /\ IsFiniteSet(S(p))
      BY <1>2
  <2> HIDE DEF S
  <2>. QED BY <2>1, ValuesHaveExtremes
<1>4. IsHMax(Round(h))
    BY <1>1, <1>2, <1>3 DEF IsHMax
<1>5. ASSUME NEW p \in propositions
      PROVE  /\ AtMost(Round(h)[p], h[p])
             /\ \A a \in PricesAt(h, p) : a \in Amounts /\ AtMost(Round(h)[p], a)
             /\ Round(h)[p] = h[p] \/ Round(h)[p] \in PricesAt(h, p)
  <2>1. Round(h)[p] = Least(S(p))
      BY <1>1
  <2>. QED BY <2>1, <1>2, <1>3
<1> QED BY <1>4, <1>5

\* What the rounds from h settle.
IsSettled(f) ==
    /\ \A h : IsHMax(h) => f[<<0, h>>] = h
    /\ \A n \in Nat : \A h : IsHMax(h) => f[<<n + 1, h>>] = f[<<n, Round(h)>>]
First == [p \in propositions |-> IF p \in Initially THEN Zero ELSE Infinity]

\* The rounds can be defined by what they settle.
LEMMA RoundsSettle ==
    ASSUME \A h : IsHMax(h) => IsHMax(Round(h))
    PROVE  \E f : IsSettled(f) /\ HMaxFromNothing = f[<<Cardinality(propositions), First>>]
<1> DEFINE H == [propositions -> Values]
           S == [H -> H]
           a == [h \in H |-> h]
           step == [e \in Nat \X S |-> [h \in H |-> e[2][Round(h)]]]
<1>0. \A h \in H : Round(h) \in H
    BY DEF IsHMax
<1>1. a \in S
    OBVIOUS
<1>2. IsStep(step, S)
  <2>1. \A e \in Nat \X S : [h \in H |-> e[2][Round(h)]] \in S
      BY <1>0
  <2>. QED BY <2>1 DEF IsStep
<1>3. \E F : IsRun(F, a, step, S)
  <2> HIDE DEF step, a, S
  <2>. QED BY <1>1, <1>2, Recursion
<1>4. PICK F : F \in [Nat -> S] /\ F[0] = a /\ \A n \in Nat : F[n + 1] = step[<<n, F[n]>>]
    BY <1>3 DEF IsRun
<1>5. ASSUME NEW n \in Nat, NEW h \in H PROVE F[n + 1][h] = F[n][Round(h)]
  <2>1. <<n, F[n]>> \in Nat \X S
      BY <1>4
  <2>2. step[<<n, F[n]>>] = [g \in H |-> F[n][Round(g)]]
      BY <2>1
  <2>. QED BY <1>4, <2>2
<1>6. \A h \in H : F[0][h] = h
    BY <1>4
<1> HIDE DEF S, step, a, H
<1>7. ASSUME NEW h \in H, Round(h) = h PROVE \A n \in Nat : F[n][h] = h
  <2> DEFINE T == {n \in Nat : F[n][h] = h}
  <2>1. 0 \in T
      BY <1>6
  <2>2. \A n \in Nat : n \in T => n + 1 \in T
      BY <1>5, <1>7
  <2>3. \A n \in Nat : n \in T
    <3> HIDE DEF T
    <3>. QED BY <2>1, <2>2, Counting
  <2>. QED BY <2>3
<1> DEFINE IsIt(f) == f = [e \in Nat \X H |->
                              LET next == Round(e[2])
                              IN  IF e[1] = 0 \/ next = e[2] THEN e[2] ELSE f[<<e[1] - 1, next>>]]
           G == [e \in Nat \X H |-> F[e[1]][e[2]]]
           f == CHOOSE f : IsIt(f)
<1>8. ASSUME NEW e \in Nat \X H
      PROVE  G[e] = LET next == Round(e[2])
                    IN  IF e[1] = 0 \/ next = e[2] THEN e[2] ELSE G[<<e[1] - 1, next>>]
  <2> DEFINE n == e[1]
             h == e[2]
  <2>1. n \in Nat /\ h \in H /\ G[e] = F[n][h] /\ Round(h) \in H
      BY <1>0 DEF H
  <2> HIDE DEF n, h
  <2>2. CASE n = 0
      BY <2>1, <2>2, <1>6 DEF n, h
  <2>3. CASE n # 0 /\ Round(h) = h
      BY <2>1, <2>3, <1>7 DEF n, h
  <2>4. CASE n # 0 /\ Round(h) # h
    <3>1. n - 1 \in Nat /\ (n - 1) + 1 = n
        BY <2>1, <2>4
    <3>2. F[(n - 1) + 1][h] = F[n - 1][Round(h)]
        BY <3>1, <2>1, <1>5
    <3>3. G[<<n - 1, Round(h)>>] = F[n - 1][Round(h)]
        BY <3>1, <2>1
    <3>. QED BY <3>1, <3>2, <3>3, <2>1, <2>4 DEF n, h
  <2>. QED BY <2>2, <2>3, <2>4
<1>9. IsIt(G)
  <2>1. G = [e \in Nat \X H |-> G[e]]
      OBVIOUS
  <2> HIDE DEF G
  <2>. QED BY <2>1, <1>8
<1>10. IsIt(f)
  <2> HIDE DEF IsIt
  <2>. QED BY <1>9
<1>11. HMaxFromNothing = f[<<Cardinality(propositions), First>>]
    BY DEF HMaxFromNothing, First, H
<1> HIDE DEF f
<1>12. ASSUME NEW n \in Nat, NEW h \in H
       PROVE  f[<<n, h>>] = IF n = 0 \/ Round(h) = h THEN h ELSE f[<<n - 1, Round(h)>>]
  <2>1. <<n, h>> \in Nat \X H
      OBVIOUS
  <2>. QED BY <2>1, <1>10
<1>13. ASSUME NEW n \in Nat, NEW h \in H PROVE f[<<n + 1, h>>] = f[<<n, Round(h)>>]
  <2>1. n + 1 \in Nat /\ n + 1 # 0 /\ (n + 1) - 1 = n
      OBVIOUS
  <2>2. CASE Round(h) = h
      BY <2>1, <2>2, <1>12
  <2>3. CASE Round(h) # h
      BY <2>1, <2>3, <1>12
  <2>. QED BY <2>2, <2>3
<1>14. \A h : IsHMax(h) <=> h \in H
    BY DEF IsHMax, H
<1>15. IsSettled(f)
    BY <1>12, <1>13, <1>14 DEF IsSettled
<1> QED BY <1>11, <1>15

-----------------------------------------------------------------------------
(* What an exploration has computed at its end *)

HasEnded == GivenInv /\ ProperTasks /\ ResetInv /\ ExplorationInv /\ HMaxInv /\ IsEvaluating /\ queue = {}

\* Then what an operator leads to costs no more than the price from one of its preconditions.
LEMMA PricesArePassedOn ==
    ASSUME HasEnded, NEW r \in Ids, \A q \in relaxed[r].pre : hMax[q] # Infinity, NEW p \in Leading(r)
    PROVE  \E q \in relaxed[r].pre : AtMost(hMax[p], Through(cost, r, hMax[q], p))
<1>1. /\ GivenInv /\ ProperTasks /\ state \in states /\ cost \in [Ids -> Amounts] /\ IsHMax(hMax)
      /\ queue = {} /\ AreSupported(hMax, supporter)
      /\ AreBounded(hMax, cost, supporter, supporterCost, counter, queue)
    BY DEF HasEnded, ResetInv, CostsFit, ExplorationInv, HMaxInv
<1>2. relaxed[r].pre # {} /\ relaxed[r].pre \in SUBSET propositions /\ p \in propositions
    BY <1>1, RelaxedFacts DEF ProperTasks, IsRelaxedOperator, Leading
<1>3. counter[r] = 0
  <2>1. Pending(hMax, Waiting, r) = {}
      BY <1>1 DEF Pending, Waiting
  <2>2. counter[r] \in Nat /\ counter[r] <= Cardinality(Pending(hMax, Waiting, r))
      BY DEF HasEnded, ExplorationInv
  <2>. QED BY <2>1, <2>2, FS_EmptySet
<1> DEFINE s == supporter[r]
           noted == supporterCost[r]
<1>4. s \in relaxed[r].pre
    BY <1>1, <1>2, <1>3 DEF AreSupported, IsSupported
<1>5. noted \in Amounts /\ PassedOn(hMax, cost, r, noted) /\ ~ Less(hMax[s], noted)
    BY <1>1, <1>3 DEF AreBounded, IsBounded
<1>6. hMax[s] \in Amounts
    BY <1>1, <1>2, <1>4 DEF IsHMax, Values
<1> HIDE DEF s, noted
<1>7. /\ Through(cost, r, noted, p) \in Values /\ Through(cost, r, hMax[s], p) \in Values
      /\ AtMost(Through(cost, r, noted, p), Through(cost, r, hMax[s], p))
    BY <1>1, <1>5, <1>6, ThroughFacts DEF AtMost, Values
<1>8. AtMost(hMax[p], Through(cost, r, noted, p)) /\ hMax[p] \in Values
    BY <1>1, <1>2, <1>5 DEF PassedOn, IsHMax
<1>9. AtMost(hMax[p], Through(cost, r, hMax[s], p))
    BY <1>7, <1>8, ValuesAreOrdered
<1> QED BY <1>4, <1>9

\* Values that an exploration does not exceed, which a round from them does not change.
IsAbove(h) == IsHMax(h) /\ \A p \in propositions : AtMost(hMax[p], h[p])

LEMMA RoundsStayAbove ==
    ASSUME HasEnded, NEW h, IsAbove(h)
    PROVE  IsAbove(Round(h))
<1>1. /\ GivenInv /\ ProperTasks /\ CostsFit /\ state \in states /\ cost \in [Ids -> Amounts]
      /\ IsHMax(hMax) /\ IsHMax(h)
    BY DEF HasEnded, ResetInv, CostsFit, ExplorationInv, IsAbove
<1>2. IsHMax(Round(h))
    BY <1>1, RoundFacts
<1>3. ASSUME NEW p \in propositions PROVE AtMost(hMax[p], Round(h)[p])
  <2>1. CASE Round(h)[p] = h[p]
      BY <2>1 DEF IsAbove
  <2>2. CASE Round(h)[p] \in PricesAt(h, p)
    <3>1. PICK r \in ReachedAt(h) : p \in Leading(r) /\ Round(h)[p] = Through(cost, r, DearestOf(h, r), p)
        BY <2>2 DEF PricesAt
    <3>2. r \in Ids /\ relaxed[r].pre \in SUBSET propositions /\ \A q \in relaxed[r].pre : h[q] # Infinity
        BY <1>1, RelaxedFacts DEF ProperTasks, IsRelaxedOperator, ReachedAt
    <3>3. ASSUME NEW q \in relaxed[r].pre
          PROVE  hMax[q] \in Amounts /\ AtMost(hMax[q], DearestOf(h, r)) /\ DearestOf(h, r) \in Amounts
      <4>1. q \in propositions /\ hMax[q] \in Values /\ h[q] \in Values /\ AtMost(hMax[q], h[q])
          BY <3>2, <1>1 DEF IsHMax, IsAbove
      <4>2. hMax[q] # Infinity
          BY <4>1, <3>2, ValuesAreOrdered
      <4>3. DearestOf(h, r) \in Amounts /\ AtMost(h[q], DearestOf(h, r))
          BY <1>1, DearestFacts
      <4>4. DearestOf(h, r) \in Values
          BY <4>3 DEF Values
      <4>5. AtMost(hMax[q], DearestOf(h, r))
          BY <4>1, <4>3, <4>4, ValuesAreOrdered
      <4>. QED BY <4>1, <4>2, <4>3, <4>5 DEF Values
    <3>4. PICK q \in relaxed[r].pre : AtMost(hMax[p], Through(cost, r, hMax[q], p))
      <4>1. \A q \in relaxed[r].pre : hMax[q] # Infinity
          BY <3>3, AmountsAreFinite
      <4>. QED BY <4>1, <3>1, <3>2, PricesArePassedOn
    <3>5. hMax[q] \in Amounts /\ AtMost(hMax[q], DearestOf(h, r)) /\ DearestOf(h, r) \in Amounts
        BY <3>3
    <3>6. /\ Through(cost, r, hMax[q], p) \in Values /\ Through(cost, r, DearestOf(h, r), p) \in Values
          /\ AtMost(Through(cost, r, hMax[q], p), Through(cost, r, DearestOf(h, r), p))
        BY <1>1, <3>1, <3>2, <3>5, ThroughFacts DEF Values
    <3>7. hMax[p] \in Values
        BY <1>1 DEF IsHMax
    <3>8. AtMost(hMax[p], Through(cost, r, DearestOf(h, r), p))
        BY <3>4, <3>6, <3>7, ValuesAreOrdered
    <3>. QED BY <3>1, <3>8
  <2>. QED BY <2>1, <2>2, <1>1, RoundFacts
<1> QED BY <1>2, <1>3 DEF IsAbove

\* What is reached is led to through propositions of lower rank, at the end of a first
\* exploration at no higher a price.
IsLed(rank, p) ==
    \/ p \in Initially
    \/ \E r \in Ids : p \in Leading(r) /\ \A q \in relaxed[r].pre :
           /\ hMax[q] # Infinity /\ rank[q] < rank[p]
           /\ phase = "exploring" => AtMost(Through(cost, r, hMax[q], p), hMax[p])

LEMMA RanksLead ==
    ASSUME HasEnded
    PROVE  \E rank \in Ranks : \A p \in propositions :
               hMax[p] # Infinity => rank[p] <= Cardinality(propositions) /\ IsLed(rank, p)
<1>1. GivenInv /\ ProperTasks
    BY DEF HasEnded
<1>2. CASE phase = "updating"
  <2>1. HasRanks(hMax)
      BY <1>2 DEF HasEnded, HMaxInv
  <2>2. PICK rank \in Ranks : \A p \in propositions :
            hMax[p] # Infinity => rank[p] <= Cardinality(propositions) /\ IsRanked(rank, hMax, p)
      BY <2>1 DEF HasRanks
  <2>. QED BY <2>2, <1>2 DEF IsRanked, IsLed
<1>3. CASE phase = "exploring"
  <2> DEFINE done == Popped(hMax, queue)
  <2>1. HasPrices(hMax, cost, done)
      BY <1>3 DEF HasEnded, HMaxInv
  <2>2. \A q \in done : hMax[q] # Infinity
      BY DEF Popped
  <2>3. IsFiniteSet(propositions) /\ done \in SUBSET propositions
      BY <1>1, RelaxedFacts DEF ProperTasks, Popped
  <2> HIDE DEF done
  <2>4. Cardinality(done) <= Cardinality(propositions) /\ Cardinality(done) \in Nat /\ Cardinality(propositions) \in Nat
      BY <2>3, FS_Subset, FS_CardinalityType
  <2>5. PICK rank \in Ranks : \A p \in propositions :
            hMax[p] # Infinity => rank[p] <= Cardinality(done) /\ IsPriced(rank, hMax, cost, done, p)
      BY <2>1 DEF HasPrices
  <2>6. ASSUME NEW p \in propositions, hMax[p] # Infinity
        PROVE  rank[p] <= Cardinality(propositions) /\ IsLed(rank, p)
    <3>1. rank[p] <= Cardinality(propositions)
        BY <2>4, <2>5, <2>6 DEF Ranks
    <3>2. IsPriced(rank, hMax, cost, done, p)
        BY <2>5, <2>6
    <3>. QED BY <3>1, <3>2, <2>2 DEF IsPriced, IsLed
  <2>. QED BY <2>6
<1> QED BY <1>2, <1>3 DEF HasEnded, IsEvaluating

\* Values that have settled what is reached up to a rank: a round settles the next one.
Covers(h, rank, n) ==
    /\ IsHMax(h)
    /\ \A p \in propositions : hMax[p] # Infinity /\ (p \in Initially \/ rank[p] <= n) =>
           h[p] # Infinity /\ (phase = "exploring" => AtMost(h[p], hMax[p]))

LEMMA RoundsCover ==
    ASSUME HasEnded, NEW rank \in Ranks,
           \A p \in propositions : hMax[p] # Infinity => IsLed(rank, p),
           NEW h, NEW n \in Nat, Covers(h, rank, n)
    PROVE  Covers(Round(h), rank, n + 1)
<1>1. /\ GivenInv /\ ProperTasks /\ CostsFit /\ state \in states /\ cost \in [Ids -> Amounts]
      /\ IsHMax(hMax) /\ IsHMax(h)
    BY DEF HasEnded, ResetInv, CostsFit, ExplorationInv, Covers
<1>2. /\ IsHMax(Round(h))
      /\ \A p \in propositions : AtMost(Round(h)[p], h[p]) /\ \A a \in PricesAt(h, p) : a \in Amounts /\ AtMost(Round(h)[p], a)
    BY <1>1, RoundFacts
<1>3. ASSUME NEW p \in propositions, hMax[p] # Infinity, p \in Initially \/ rank[p] <= n + 1
      PROVE  Round(h)[p] # Infinity /\ (phase = "exploring" => AtMost(Round(h)[p], hMax[p]))
  <2>1. Round(h)[p] \in Values /\ h[p] \in Values /\ hMax[p] \in Values
      BY <1>1, <1>2 DEF IsHMax
  <2>2. CASE p \in Initially \/ rank[p] <= n
    <3>1. h[p] # Infinity /\ (phase = "exploring" => AtMost(h[p], hMax[p]))
        BY <2>2, <1>3 DEF Covers
    <3>2. AtMost(Round(h)[p], h[p])
        BY <1>2
    <3>. QED BY <3>1, <3>2, <2>1, ValuesAreOrdered
  <2>3. CASE ~ (p \in Initially \/ rank[p] <= n)
    <3>1. PICK r \in Ids : p \in Leading(r) /\ \A q \in relaxed[r].pre :
              /\ hMax[q] # Infinity /\ rank[q] < rank[p]
              /\ phase = "exploring" => AtMost(Through(cost, r, hMax[q], p), hMax[p])
        BY <2>3, <1>3 DEF IsLed
    <3>2. relaxed[r].pre # {} /\ relaxed[r].pre \in SUBSET propositions
        BY <1>1, RelaxedFacts DEF ProperTasks, IsRelaxedOperator
    <3>3. ASSUME NEW q \in relaxed[r].pre
          PROVE  h[q] # Infinity /\ (phase = "exploring" => AtMost(h[q], hMax[q]))
      <4>1. q \in propositions /\ hMax[q] # Infinity /\ rank[q] < rank[p] /\ rank[p] <= n + 1
          BY <3>1, <3>2, <2>3, <1>3
      <4>2. rank[q] \in Nat /\ rank[p] \in Nat
          BY <4>1 DEF Ranks
      <4>3. rank[q] <= n
          BY <4>1, <4>2
      <4>. QED BY <4>1, <4>3 DEF Covers
    <3> DEFINE d == DearestOf(h, r)
    <3>4. r \in ReachedAt(h)
        BY <3>3 DEF ReachedAt
    <3>5. d \in Amounts /\ (d = Zero \/ \E q \in relaxed[r].pre : d = h[q])
        BY <3>4, <1>1, DearestFacts
    <3>6. Through(cost, r, d, p) \in Amounts /\ AtMost(Round(h)[p], Through(cost, r, d, p))
      <4>1. Through(cost, r, d, p) \in PricesAt(h, p)
          BY <3>1, <3>4 DEF PricesAt
      <4>. QED BY <4>1, <1>2
    <3>7. Round(h)[p] # Infinity
        BY <3>6, <2>1, AmountsAreFinite
    <3>8. ASSUME phase = "exploring" PROVE AtMost(Round(h)[p], hMax[p])
      <4>1. PICK q \in relaxed[r].pre : AtMost(d, hMax[q])
        <5>1. CASE d = Zero
          <6>1. PICK q \in relaxed[r].pre : TRUE
              BY <3>2
          <6>2. hMax[q] \in Values
              BY <1>1, <3>2 DEF IsHMax
          <6>. QED BY <5>1, <6>2, ValuesAreOrdered
        <5>2. CASE \E q \in relaxed[r].pre : d = h[q]
            BY <5>2, <3>3, <3>8
        <5>. QED BY <5>1, <5>2, <3>5
      <4>2. hMax[q] \in Amounts
          BY <1>1, <3>1, <3>2 DEF IsHMax, Values
      <4>3. AtMost(Through(cost, r, hMax[q], p), hMax[p])
          BY <3>1, <3>8
      <4> HIDE DEF d
      <4>4. /\ Through(cost, r, d, p) \in Values /\ Through(cost, r, hMax[q], p) \in Values
            /\ AtMost(Through(cost, r, d, p), Through(cost, r, hMax[q], p))
          BY <1>1, <3>1, <3>5, <4>1, <4>2, ThroughFacts DEF Values
      <4>5. AtMost(Through(cost, r, d, p), hMax[p])
          BY <2>1, <4>3, <4>4, ValuesAreOrdered
      <4>. QED BY <2>1, <3>6, <4>4, <4>5, ValuesAreOrdered
    <3>. QED BY <3>7, <3>8
  <2>. QED BY <2>2, <2>3
<1> QED BY <1>2, <1>3 DEF Covers

\* So the last round has neither less nor, but for a first exploration, more.
LEMMA EndsAreBounded ==
    ASSUME HasEnded
    PROVE  \A p \in propositions :
               /\ ~ Less(HMaxFromNothing[p], hMax[p])
               /\ phase = "exploring" => ~ Less(hMax[p], HMaxFromNothing[p])
               /\ HMaxFromNothing[p] = Infinity => hMax[p] = Infinity
<1>1. /\ GivenInv /\ ProperTasks /\ CostsFit /\ state \in states /\ IsHMax(hMax)
      /\ \A q \in Initially : hMax[q] = Zero
    BY DEF HasEnded, ResetInv, ExplorationInv
<1>2. \A h : IsHMax(h) => IsHMax(Round(h))
    BY <1>1, RoundFacts
<1>3. PICK f : IsSettled(f) /\ HMaxFromNothing = f[<<Cardinality(propositions), First>>]
    BY <1>2, RoundsSettle
<1>4. Cardinality(propositions) \in Nat
    BY <1>1, RelaxedFacts, FS_CardinalityType DEF ProperTasks
<1>5. Zero \in Values /\ Infinity \in Values
    BY SpecialAmounts DEF Values
<1>6. IsHMax(First)
    BY <1>5 DEF First, IsHMax
<1>7. IsAbove(f[<<Cardinality(propositions), First>>])
  <2> DEFINE T == {n \in Nat : \A h : IsAbove(h) => IsAbove(f[<<n, h>>])}
  <2>1. 0 \in T
      BY <1>3 DEF IsSettled, IsAbove
  <2>2. ASSUME NEW n \in Nat, n \in T PROVE n + 1 \in T
    <3>1. ASSUME NEW h, IsAbove(h) PROVE IsAbove(f[<<n + 1, h>>])
      <4>1. IsAbove(Round(h)) /\ IsHMax(h)
          BY <3>1, RoundsStayAbove DEF IsAbove
      <4>2. f[<<n + 1, h>>] = f[<<n, Round(h)>>]
          BY <4>1, <1>3 DEF IsSettled
      <4>. QED BY <4>1, <4>2, <2>2
    <3>. QED BY <3>1
  <2>3. \A n \in Nat : n \in T
    <3> HIDE DEF T
    <3>. QED BY <2>1, <2>2, Counting
  <2>4. IsAbove(First)
    <3>1. ASSUME NEW p \in propositions PROVE AtMost(hMax[p], First[p])
      <4>1. hMax[p] \in Values
          BY <1>1 DEF IsHMax
      <4>2. First[p] = IF p \in Initially THEN Zero ELSE Infinity
          BY DEF First
      <4>. QED BY <4>1, <4>2, <1>1, ValuesAreOrdered
    <3>. QED BY <3>1, <1>6 DEF IsAbove
  <2>. QED BY <2>3, <2>4, <1>4
<1>8. PICK rank \in Ranks : \A p \in propositions :
          hMax[p] # Infinity => rank[p] <= Cardinality(propositions) /\ IsLed(rank, p)
    BY RanksLead
<1>9. Covers(f[<<Cardinality(propositions), First>>], rank, Cardinality(propositions))
  <2> DEFINE T == {n \in Nat : \A h, m : m \in Nat /\ Covers(h, rank, m) => Covers(f[<<n, h>>], rank, m + n)}
  <2>1. 0 \in T
    <3>1. ASSUME NEW h, NEW m \in Nat, Covers(h, rank, m) PROVE Covers(f[<<0, h>>], rank, m + 0)
      <4>1. f[<<0, h>>] = h /\ m + 0 = m
          BY <3>1, <1>3 DEF IsSettled, Covers
      <4>. QED BY <4>1, <3>1
    <3>. QED BY <3>1
  <2>2. ASSUME NEW n \in Nat, n \in T PROVE n + 1 \in T
    <3>1. ASSUME NEW h, NEW m \in Nat, Covers(h, rank, m) PROVE Covers(f[<<n + 1, h>>], rank, m + (n + 1))
      <4>1. Covers(Round(h), rank, m + 1) /\ IsHMax(h)
          BY <3>1, <1>8, RoundsCover DEF Covers
      <4>2. f[<<n + 1, h>>] = f[<<n, Round(h)>>]
          BY <4>1, <1>3 DEF IsSettled
      <4>3. m + 1 \in Nat /\ (m + 1) + n = m + (n + 1)
          OBVIOUS
      <4>4. Covers(f[<<n, Round(h)>>], rank, (m + 1) + n)
          BY <4>1, <4>3, <2>2
      <4>. QED BY <4>2, <4>3, <4>4
    <3>. QED BY <3>1
  <2>3. \A n \in Nat : n \in T
    <3> HIDE DEF T
    <3>. QED BY <2>1, <2>2, Counting
  <2>4. Covers(First, rank, 0)
    <3>1. ASSUME NEW p \in propositions, hMax[p] # Infinity, p \in Initially \/ rank[p] <= 0 PROVE p \in Initially
      <4>1. SUFFICES ASSUME p \notin Initially PROVE FALSE
          OBVIOUS
      <4>2. PICK r \in Ids : \A q \in relaxed[r].pre : rank[q] < rank[p]
          BY <4>1, <3>1, <1>8 DEF IsLed
      <4>3. PICK q \in relaxed[r].pre : q \in propositions
          BY <1>1, RelaxedFacts DEF ProperTasks, IsRelaxedOperator
      <4>4. rank[q] \in Nat /\ rank[p] \in Nat /\ rank[q] < rank[p] /\ rank[p] <= 0
          BY <4>1, <4>2, <4>3, <3>1 DEF Ranks
      <4>. QED BY <4>4
    <3>2. ASSUME NEW p \in propositions, p \in Initially
          PROVE  First[p] # Infinity /\ AtMost(First[p], hMax[p])
      <4>1. First[p] = Zero /\ hMax[p] = Zero
          BY <3>2, <1>1 DEF First
      <4>. QED BY <4>1, <1>5, ValuesAreOrdered DEF Zero, Infinity
    <3>. QED BY <3>1, <3>2, <1>6 DEF Covers
  <2>5. 0 \in Nat /\ 0 + Cardinality(propositions) = Cardinality(propositions)
      BY <1>4
  <2>6. Covers(f[<<Cardinality(propositions), First>>], rank, 0 + Cardinality(propositions))
      BY <2>3, <2>4, <1>4
  <2>. QED BY <2>5, <2>6
<1> DEFINE exact == f[<<Cardinality(propositions), First>>]
<1>10. ASSUME NEW p \in propositions
       PROVE  /\ ~ Less(exact[p], hMax[p])
              /\ phase = "exploring" => ~ Less(hMax[p], exact[p])
              /\ exact[p] = Infinity => hMax[p] = Infinity
  <2>1. ~ Less(exact[p], hMax[p])
      BY <1>7 DEF IsAbove, AtMost
  <2>2. hMax[p] # Infinity => exact[p] # Infinity /\ (phase = "exploring" => AtMost(exact[p], hMax[p]))
      BY <1>8, <1>9 DEF Covers
  <2>3. exact[p] \in Values
      BY <1>7 DEF IsAbove, IsHMax
  <2>4. hMax[p] = Infinity => AtMost(exact[p], hMax[p])
      BY <2>3, ValuesAreOrdered
  <2>. QED BY <2>1, <2>2, <2>4 DEF AtMost
<1> QED BY <1>3, <1>10

-----------------------------------------------------------------------------
(* Explorations compute h^max *)

\* When its queue is empty, an exploration (first_exploration, first_exploration_incremental)
\* has reached what can be reached, a first one at the values of h^max and a later one, which
\* keeps what it knows from before the cut, at none above them.
THEOREM ExplorationsStayBounded ==
    ASSUME ProperTasks
    PROVE  Spec => []ExplorationsAreBounded
<1>1. Init => EvaluationInv /\ HMaxInv
    BY FirstEvaluation DEF Init, HMaxInv, IsEvaluating
<1>2. EvaluationInv /\ HMaxInv /\ [Next]_vars => (EvaluationInv /\ HMaxInv)'
    BY EvaluationNext, HMaxNext
<1>3. EvaluationInv /\ HMaxInv => ExplorationsAreBounded
  <2>1. SUFFICES ASSUME EvaluationInv, HMaxInv, phase \in {"exploring", "updating"}, queue = {}
                 PROVE  LET exact == HMaxFromNothing
                        IN  \A p \in propositions :
                                /\ ~ Less(exact[p], hMax[p])
                                /\ phase = "exploring" => ~ Less(hMax[p], exact[p])
                                /\ exact[p] = Infinity => hMax[p] = Infinity
      BY DEF ExplorationsAreBounded
  <2>2. HasEnded
      BY <2>1 DEF HasEnded, EvaluationInv, IsEvaluating
  <2>. QED BY <2>2, EndsAreBounded
<1> QED BY <1>1, <1>2, <1>3, PTL DEF Spec
=============================================================================
