------------------------ MODULE AxiomEvaluator_proofs ------------------------
(***************************************************************************)
(* The closure of a state under axioms, for every task, every layering and *)
(* every order of the rules and of the queue: counters never wrap around,  *)
(* a proof is never taken back, a closed state is the stable model of the  *)
(* axioms the task came with, layers pass the translator's assertions, and *)
(* what holds is reached by the relaxation the heuristics explore.         *)
(***************************************************************************)
EXTENDS AxiomProperties, FiniteSetTheorems, SequenceTheorems, WellFoundedInduction, TLAPS

Elements(s) == {s[i] : i \in 1..Len(s)}
NoRepetition(s) == \A i, j \in 1..Len(s) : s[i] = s[j] => i = j

-----------------------------------------------------------------------------
(* Sequences without repetitions.                                           *)

LEMMA AppendFresh ==
    ASSUME NEW S, NEW s \in Seq(S), NEW e \in S, e \notin Elements(s), NoRepetition(s)
    PROVE  /\ Append(s, e) \in Seq(S)
           /\ Elements(Append(s, e)) = Elements(s) \cup {e}
           /\ NoRepetition(Append(s, e))
<1> DEFINE n == Len(s)
           a == Append(s, e)
<1>1. n \in Nat /\ a \in Seq(S) /\ Len(a) = n + 1
    BY LenProperties, AppendProperties
<1>2. \A i \in 1..n + 1 : a[i] = IF i = n + 1 THEN e ELSE s[i]
    BY AppendProperties
<1>3. Elements(a) = Elements(s) \cup {e}
    <2> HIDE DEF a
    <2>1. \A x : x \in Elements(a) <=> \E i \in 1..n + 1 : x = a[i]
        BY <1>1 DEF Elements
    <2>2. \A x : x \in Elements(s) <=> \E i \in 1..n : x = s[i]
        BY DEF Elements
    <2> HIDE DEF n
    <2>3. \A i \in 1..n : i \in 1..n + 1 /\ i # n + 1
        BY <1>1
    <2>4. \A i \in 1..n + 1 : i = n + 1 \/ i \in 1..n
        BY <1>1
    <2>5. n + 1 \in 1..n + 1
        BY <1>1
    <2> QED BY <1>2, <2>1, <2>2, <2>3, <2>4, <2>5
<1>4. NoRepetition(a)
    <2>1. \A i \in 1..n : e # s[i]
        BY DEF Elements
    <2>2. \A i, j \in 1..n : s[i] = s[j] => i = j
        BY DEF NoRepetition
    <2> HIDE DEF n, a
    <2>3. \A i, j \in 1..n + 1 : a[i] = a[j] => i = j
        BY <1>1, <1>2, <2>1, <2>2
    <2> QED BY <1>1, <2>3 DEF NoRepetition
<1> QED BY <1>1, <1>3, <1>4

LEMMA PopLast ==
    ASSUME NEW S, NEW s \in Seq(S), s # <<>>, NoRepetition(s)
    PROVE  LET e == s[Len(s)]
               rest == SubSeq(s, 1, Len(s) - 1)
           IN  /\ e \in Elements(s) /\ e \in S
               /\ rest \in Seq(S)
               /\ Elements(rest) = Elements(s) \ {e}
               /\ NoRepetition(rest)
<1> DEFINE n == Len(s)
           e == s[n]
           rest == SubSeq(s, 1, n - 1)
<1>1. n \in Nat /\ n # 0 /\ s \in [1..n -> S]
    BY LenProperties, EmptySeq
<1>2. \A i, j \in 1..n : s[i] = s[j] => i = j
    BY DEF NoRepetition
<1>3. \A x : x \in Elements(s) <=> \E i \in 1..n : x = s[i]
    BY DEF Elements
<1> HIDE DEF n
<1>4. n \in 1..n /\ n - 1 \in Nat
    BY <1>1
<1>5. rest \in Seq(S) /\ Len(rest) = n - 1 /\ \A i \in 1..n - 1 : rest[i] = s[i]
    BY <1>1, SubSeqProperties
<1> HIDE DEF rest
<1>6. \A x : x \in Elements(rest) <=> \E i \in 1..n - 1 : x = s[i]
    BY <1>5 DEF Elements
<1>7. \A i \in 1..n - 1 : i \in 1..n /\ i # n
    BY <1>1
<1>8. \A i \in 1..n : i = n \/ i \in 1..n - 1
    BY <1>1
<1>9. Elements(rest) = Elements(s) \ {e}
    BY <1>2, <1>3, <1>4, <1>6, <1>7, <1>8
<1>10. NoRepetition(rest)
    BY <1>2, <1>5, <1>7 DEF NoRepetition
<1>11. e \in Elements(s) /\ e \in S
    BY <1>1, <1>3, <1>4
<1> QED BY <1>5, <1>9, <1>10, <1>11 DEF n, rest

\* An order of a finite set visits each element once.
LEMMA OrderParts ==
    ASSUME NEW S, IsFiniteSet(S), NEW o \in Orders(S)
    PROVE  /\ Cardinality(S) \in Nat
           /\ o \in [1..Cardinality(S) -> S]
           /\ \A x \in S : \E i \in 1..Cardinality(S) : o[i] = x
           /\ \A i, j \in 1..Cardinality(S) : o[i] = o[j] => i = j
<1> DEFINE n == Cardinality(S)
<1>1. n \in Nat
    BY FS_CardinalityType
<1>2. o \in [1..n -> S] /\ \A x \in S : \E i \in 1..n : o[i] = x
    BY DEF Orders
<1>3. o \in Surjection(1..n, S)
    BY <1>2 DEF Surjection
<1>4. IsFiniteSet(1..n) /\ Cardinality(1..n) = n
    BY <1>1, FS_Interval
<1>5. o \in Injection(1..n, S)
    BY <1>3, <1>4, FS_SurjSameCardinalityImpliesInj
<1>6. \A i, j \in 1..n : o[i] = o[j] => i = j
    BY <1>5 DEF Injection, IsInjective
<1> QED BY <1>1, <1>2, <1>6

\* A queue filled in such an order, with one literal for each element.
LEMMA OrderedQueue ==
    ASSUME NEW S, IsFiniteSet(S), NEW o \in Orders(S), NEW T, NEW f,
           NEW q \in [DOMAIN o -> T], \A i \in DOMAIN o : q[i] = <<o[i], f[o[i]]>>
    PROVE  /\ q \in Seq(T)
           /\ Elements(q) = {<<x, f[x]>> : x \in S}
           /\ NoRepetition(q)
<1> DEFINE n == Cardinality(S)
<1>1. /\ n \in Nat /\ DOMAIN o = 1..n
      /\ \A i \in 1..n : o[i] \in S
      /\ \A x \in S : \E i \in 1..n : o[i] = x
      /\ \A i, j \in 1..n : o[i] = o[j] => i = j
    BY OrderParts
<1> HIDE DEF n
<1>2. q \in [1..n -> T] /\ \A i \in 1..n : q[i] = <<o[i], f[o[i]]>>
    BY <1>1
<1>3. q \in Seq(T)
    BY <1>1, <1>2, SeqDef
<1>4. Len(q) = n
    BY <1>1, <1>2, <1>3, LenProperties
<1>5. Elements(q) = {<<x, f[x]>> : x \in S}
    <2>1. Elements(q) = {q[i] : i \in 1..n}
        BY <1>4 DEF Elements
    <2>2. ASSUME NEW y \in Elements(q)
          PROVE  y \in {<<x, f[x]>> : x \in S}
        <3>1. PICK i \in 1..n : y = q[i]
            BY <2>1
        <3>2. o[i] \in S /\ y = <<o[i], f[o[i]]>>
            BY <1>1, <1>2, <3>1
        <3> QED BY <3>2
    <2>3. ASSUME NEW x \in S
          PROVE  <<x, f[x]>> \in Elements(q)
        <3>1. PICK i \in 1..n : o[i] = x
            BY <1>1
        <3>2. q[i] = <<x, f[x]>>
            BY <1>2, <3>1
        <3> QED BY <2>1, <3>2
    <2> QED BY <2>2, <2>3
<1>6. NoRepetition(q)
    BY <1>1, <1>2, <1>4 DEF NoRepetition
<1> QED BY <1>3, <1>5, <1>6

-----------------------------------------------------------------------------
(* Types.                                                                   *)

LEMMA LiteralParts ==
    /\ \A l \in Literals : l = <<l[1], l[2]>> /\ l[1] \in Variables /\ l[2] \in Values(l[1])
    /\ \A v \in Variables : \A x \in Values(v) : <<v, x>> \in Literals
    /\ \A v \in Derived : v \in Variables /\ Values(v) = {Proven, Default}
<1>1. \A v \in Derived : v \in Variables /\ Values(v) = {Proven, Default}
    BY VariablesAssumption DEF Variables, Values, Proven, Default
<1> QED BY <1>1 DEF Literals

LEMMA LiteralsAreFinite ==
    /\ IsFiniteSet(Variables)
    /\ \A S \in SUBSET Variables : IsFiniteSet(S)
    /\ \A body \in SUBSET Literals : IsFiniteSet(body)
<1>1. IsFiniteSet(Variables)
    BY VariablesAssumption, FS_Union DEF Variables
<1>2. IsFiniteSet(FluentValues \cup {0, 1})
    <2>1. IsFiniteSet({0, 1})
        <3>1. IsFiniteSet({0} \cup {1})
            BY FS_Singleton, FS_Union
        <3>2. {0} \cup {1} = {0, 1}
            OBVIOUS
        <3> QED BY <3>1, <3>2
    <2> QED BY <2>1, VariablesAssumption, FS_Union
<1>3. IsFiniteSet(Variables \X (FluentValues \cup {0, 1}))
    BY <1>1, <1>2, FS_Product
<1>4. Literals \subseteq Variables \X (FluentValues \cup {0, 1})
    BY DEF Literals, Values
<1> QED BY <1>1, <1>3, <1>4, FS_Subset

LEMMA RuleParts ==
    ASSUME TypeOK, NEW r \in rules
    PROVE  /\ r.head \in Derived /\ r.head \in Variables
           /\ r.value \in {Proven, Default}
           /\ r.body \subseteq Literals /\ IsFiniteSet(r.body)
           /\ Cardinality(r.body) \in Nat
           /\ r \in Proving(rules) <=> r.value = Proven
<1>1. r \in RuleType
    BY DEF TypeOK
<1>2. /\ r.head \in Derived /\ r.value \in {Proven, Default}
      /\ r.body \subseteq Literals
    BY <1>1 DEF RuleType
<1> QED BY <1>2, LiteralParts, LiteralsAreFinite, FS_CardinalityType DEF Proving

\* A task that was accepted derives the variables it resets.
LEMMA TaskParts ==
    ASSUME TypeOK, Accepted
    PROVE  /\ ResetVariables \subseteq Derived /\ ResetVariables \subseteq Variables
           /\ \A v \in ResetVariables : axiomLayer[v] \in Nat /\ buffer[v] \in {Proven, Default}
           /\ \A r \in rules : r.head \in ResetVariables /\ axiomLayer[r.head] \in Nat
           /\ SeedVariables \subseteq Variables \ ResetVariables
<1>1. /\ axiomLayer \in [DOMAIN axiomLayer -> Nat]
      /\ DOMAIN axiomLayer \subseteq Conditions \cup Derived
      /\ Heads(rules) \subseteq ResetVariables
    BY DEF TypeOK
<1>2. ResetVariables \subseteq Derived /\ ResetVariables \subseteq DOMAIN axiomLayer
    BY <1>1 DEF ResetVariables
<1>3. \A r \in rules : r.head \in ResetVariables
    BY <1>1 DEF Heads
<1>4. \A v \in Derived : v \in Variables /\ buffer[v] \in {Proven, Default}
    BY LiteralParts DEF TypeOK
<1> QED BY <1>1, <1>2, <1>3, <1>4 DEF SeedVariables

-----------------------------------------------------------------------------
(* What was announced.                                                      *)

LEMMA AnnouncedParts ==
    ASSUME TypeOK, Accepted
    PROVE  /\ Announced \subseteq Literals
           /\ \A l \in Announced : buffer[l[1]] = l[2]
           /\ \A l \in Literals : l \in Announced <=>
                /\ buffer[l[1]] = l[2]
                /\ \/ l[1] \in SeedVariables
                   \/ l[1] \in ResetVariables /\ (l[2] = Proven \/ axiomLayer[l[1]] < layerNo)
<1>1. \A v \in Variables : <<v, buffer[v]>> \in Literals
    BY LiteralParts DEF TypeOK
<1>2. \A l \in Announced : l[1] \in Variables /\ l = <<l[1], buffer[l[1]]>>
    BY TaskParts DEF Announced
<1>3. Announced \subseteq Literals /\ \A l \in Announced : buffer[l[1]] = l[2]
    BY <1>1, <1>2
<1>4. ASSUME NEW l \in Announced
      PROVE  \/ l[1] \in SeedVariables
             \/ l[1] \in ResetVariables /\ (l[2] = Proven \/ axiomLayer[l[1]] < layerNo)
    BY DEF Announced
<1>5. ASSUME NEW l \in Literals, buffer[l[1]] = l[2],
             \/ l[1] \in SeedVariables
             \/ l[1] \in ResetVariables /\ (l[2] = Proven \/ axiomLayer[l[1]] < layerNo)
      PROVE  l \in Announced
    <2>1. l = <<l[1], l[2]>>
        BY LiteralParts
    <2>2. CASE l[1] \in SeedVariables
        BY <1>5, <2>1, <2>2 DEF Announced
    <2>3. CASE l[1] \in ResetVariables /\ l[2] = Proven
        BY <1>5, <2>1, <2>3 DEF Announced
    <2>4. CASE l[1] \in ResetVariables /\ l[2] # Proven /\ axiomLayer[l[1]] < layerNo
        <3>1. l[2] = Default
            BY <1>5, <2>4, TaskParts
        <3> QED BY <1>5, <2>1, <2>4, <3>1 DEF Announced
    <2> QED BY <1>5, <2>2, <2>3, <2>4
<1> QED BY <1>3, <1>4, <1>5

\* A rule that a literal reaches waits for it at least; if it waits for nothing else,
\* its body was announced.
LEMMA VisitedRules ==
    ASSUME TypeOK, ClosureInvariant, pc = "propagate", NEW r \in visiting
    PROVE  /\ literal \in r.body /\ literal \in Announced \ InQueue
           /\ r \in rules /\ unsatisfied[r] \in Nat \ {0}
           /\ unsatisfied[r] = 1 => r.body \subseteq Announced
<1>1. r \in rules /\ literal \in r.body /\ literal \in Announced \ InQueue
    BY DEF TypeOK, ClosureInvariant, Evaluating, VisitsAreDue, QueueIsFresh
<1>2. literal \in Outstanding(r)
    BY <1>1 DEF Outstanding
<1>3. unsatisfied[r] = Cardinality(Outstanding(r))
    BY <1>1 DEF ClosureInvariant, Evaluating, CountersCount
<1>4. IsFiniteSet(Outstanding(r))
    BY <1>1, RuleParts, FS_Subset DEF Outstanding
<1>5. unsatisfied[r] \in Nat \ {0}
    BY <1>2, <1>3, <1>4, FS_CardinalityType, FS_EmptySet
<1>6. ASSUME unsatisfied[r] = 1
      PROVE  r.body \subseteq Announced
    <2>1. PICK x : Outstanding(r) = {x}
        BY <1>3, <1>4, <1>6, FS_Singleton
    <2> QED BY <1>1, <1>2, <2>1 DEF Outstanding
<1> QED BY <1>1, <1>5, <1>6

\* A rule whose body was announced confirms what the buffer says, or proves its head.
\* A rule for a default value does not fire once its head is proven: it opposes the
\* rule that proved it.  And nothing is proven in a layer that is done.
LEMMA OnlyProofs ==
    ASSUME TypeOK, ClosureInvariant, Evaluating, NEW r \in rules,
           r.body \subseteq Announced, pc = "trivial" <=> r.body = {},
           buffer[r.head] # r.value
    PROVE  /\ r.value = Proven /\ buffer[r.head] = Default
           /\ layerNo <= axiomLayer[r.head]
<1> USE DEF Evaluating
<1>1. Accepted
    BY DEF Accepted
<1>2. r.head \in ResetVariables /\ buffer[r.head] \in {Proven, Default}
      /\ r.value \in {Proven, Default} /\ axiomLayer[r.head] \in Nat /\ layerNo \in Nat
    BY <1>1, TaskParts, RuleParts DEF TypeOK
<1>3. \A l \in r.body : buffer[l[1]] = l[2]
    BY <1>1, AnnouncedParts
<1>4. ASSUME r.value = Default
      PROVE  FALSE
    <2>1. IsProven(r.head)
        BY <1>2, <1>4 DEF IsProven
    <2>2. PICK q \in Proving(rules) : /\ q.head = r.head /\ q.body \subseteq Announced
                                      /\ pc = "trivial" => q.body = {}
        BY <1>2, <2>1 DEF ClosureInvariant, ProvenIsJustified
    <2>3. r \in rules \ Proving(rules)
        BY <1>4 DEF Proving, Proven, Default
    <2>4. Opposed(r.body, q.body)
        BY <1>1, <2>2, <2>3 DEF ClosureInvariant, TaskIsSound
    <2>5. CASE r.body = {} /\ q.body # {}
        BY <2>2, <2>5
    <2>6. CASE \E k \in r.body, l \in q.body : k[1] = l[1] /\ k # l
        <3>1. PICK k \in r.body, l \in q.body : k[1] = l[1] /\ k # l
            BY <2>6
        <3>2. k \in Literals /\ l \in Literals /\ buffer[k[1]] = k[2] /\ buffer[l[1]] = l[2]
            BY <1>1, <2>2, AnnouncedParts
        <3>3. k = <<k[1], k[2]>> /\ l = <<l[1], l[2]>>
            BY <3>2, LiteralParts
        <3> QED BY <3>1, <3>2, <3>3
    <2> QED BY <2>4, <2>5, <2>6 DEF Opposed
<1>5. r.value = Proven /\ buffer[r.head] = Default
    BY <1>2, <1>4 DEF Proven, Default
<1>6. ASSUME axiomLayer[r.head] < layerNo
      PROVE  FALSE
    <2>1. r \in Proving(rules) /\ ~ IsProven(r.head)
        BY <1>5 DEF Proving, IsProven, Proven, Default
    <2> QED BY <1>3, <1>6, <2>1 DEF ClosureInvariant, LayersAreSettled
<1> QED BY <1>2, <1>5, <1>6

\* At the fixpoint of a layer its rules have fired, or fail for good.
LEMMA FixpointSettles ==
    ASSUME TypeOK, ClosureInvariant, pc = "propagate", visiting = {}, queue = <<>>,
           NEW r \in Proving(rules), axiomLayer[r.head] <= layerNo
    PROVE  IsProven(r.head) \/ \E l \in r.body : buffer[l[1]] # l[2]
<1>1. Accepted /\ Evaluating /\ r \in rules
    BY DEF Accepted, Evaluating, Proving
<1>2. CASE unsatisfied[r] = 0
    BY <1>1, <1>2 DEF ClosureInvariant, RulesFire
<1>3. CASE unsatisfied[r] # 0
    <2>1. Outstanding(r) # {}
        BY <1>1, <1>3, FS_EmptySet DEF ClosureInvariant, CountersCount
    <2>2. InQueue = {}
        BY DEF InQueue
    <2>3. PICK l \in r.body : l \notin Announced
        BY <2>1, <2>2 DEF Outstanding
    <2>4. l \in Literals
        BY <1>1, <2>3, RuleParts
    <2>5. l[1] \in Variables /\ l = <<l[1], l[2]>>
        BY <2>4, LiteralParts
    <2>6. CASE l[1] \notin ResetVariables
        <3>1. l[1] \in SeedVariables
            BY <1>1, <2>3, <2>5, <2>6 DEF SeedVariables
        <3> QED BY <1>1, <2>3, <2>4, <3>1, AnnouncedParts
    <2>7. CASE l[1] \in ResetVariables
        <3>1. l[2] = Proven \/ axiomLayer[l[1]] < layerNo => buffer[l[1]] # l[2]
            BY <1>1, <2>3, <2>4, <2>7, AnnouncedParts
        <3>2. l[2] = Default => axiomLayer[l[1]] < axiomLayer[r.head]
            BY <1>1, <2>3, <2>5, <2>7 DEF ClosureInvariant, TaskIsSound
        <3>3. l[2] \in {Proven, Default}
            BY <1>1, <2>4, <2>7, LiteralParts, TaskParts
        <3>4. axiomLayer[l[1]] \in Nat /\ axiomLayer[r.head] \in Nat /\ layerNo \in Nat
            BY <1>1, <2>7, TaskParts DEF TypeOK
        <3> QED BY <2>3, <3>1, <3>2, <3>3, <3>4
    <2> QED BY <2>6, <2>7
<1> QED BY <1>2, <1>3

-----------------------------------------------------------------------------
(* Steps that derive: FireTrivial and SatisfyCondition.                     *)

Derives(r) ==
    /\ Evaluating /\ r \in visiting
    /\ visiting' = visiting \ {r}
    /\ UNCHANGED <<task, pc, layerNo, literal>>

\* The buffer and the queue stay as they are, or a head is proven and announced.
ProvesHead(r) ==
    /\ r.value = Proven /\ buffer[r.head] = Default
    /\ r.body \subseteq Announced /\ (pc = "trivial" => r.body = {})
    /\ layerNo <= axiomLayer[r.head]
    /\ buffer' = [buffer EXCEPT ![r.head] = Proven]
    /\ queue' = Append(queue, <<r.head, Proven>>)

LEMMA DerivationEffect ==
    ASSUME TypeOK, ClosureInvariant, NEW r \in visiting, FireTrivial(r) \/ SatisfyCondition(r)
    PROVE  /\ Derives(r) /\ r \in rules
           /\ ProvesHead(r) \/ UNCHANGED <<buffer, queue>>
           /\ \/ /\ pc = "trivial" /\ r.body = {} /\ unsatisfied' = unsatisfied
              \/ /\ pc = "propagate" /\ unsatisfied' = [unsatisfied EXCEPT ![r] = @ - 1]
           /\ r.value = Proven /\ (pc = "propagate" => unsatisfied[r] = 1)
                => buffer'[r.head] = Proven
<1>1. r \in rules
    BY DEF TypeOK
<1>2. r.head \in Variables /\ r.value \in {Proven, Default}
    BY <1>1, RuleParts
<1>3. buffer \in [Variables -> FluentValues \cup {0, 1}]
    BY DEF TypeOK
<1>4. ASSUME r.body \subseteq Announced, pc = "trivial" <=> r.body = {}, DeriveLiteral(r), Evaluating
      PROVE  /\ ProvesHead(r) \/ UNCHANGED <<buffer, queue>>
             /\ buffer'[r.head] = r.value
    <2>1. CASE buffer[r.head] = r.value
        BY <1>4, <2>1 DEF DeriveLiteral
    <2>2. CASE buffer[r.head] # r.value
        <3>1. r.value = Proven /\ buffer[r.head] = Default /\ layerNo <= axiomLayer[r.head]
            BY <1>1, <1>4, <2>2, OnlyProofs
        <3>2. buffer' = [buffer EXCEPT ![r.head] = Proven] /\ queue' = Append(queue, <<r.head, Proven>>)
            BY <1>4, <2>2, <3>1 DEF DeriveLiteral
        <3> QED BY <1>2, <1>3, <1>4, <3>1, <3>2 DEF ProvesHead
    <2> QED BY <2>1, <2>2
<1>5. CASE FireTrivial(r)
    <2>1. pc = "trivial" /\ Evaluating /\ r.body = {}
        BY <1>5 DEF FireTrivial, Evaluating, ClosureInvariant, VisitsAreDue
    <2>2. Derives(r) /\ DeriveLiteral(r) /\ unsatisfied' = unsatisfied
        BY <1>5, <2>1 DEF FireTrivial, Derives
    <2> QED BY <1>1, <1>4, <2>1, <2>2
<1>6. CASE SatisfyCondition(r)
    <2>1. pc = "propagate" /\ Evaluating
        BY <1>6 DEF SatisfyCondition, Evaluating
    <2>2. literal \in r.body /\ (unsatisfied[r] = 1 => r.body \subseteq Announced)
        BY <2>1, VisitedRules
    <2>3. Derives(r) /\ unsatisfied' = [unsatisfied EXCEPT ![r] = @ - 1]
        BY <1>6, <2>1 DEF SatisfyCondition, Derives
    <2>4. CASE unsatisfied[r] # 1
        BY <1>1, <1>6, <2>1, <2>3, <2>4 DEF SatisfyCondition
    <2>5. CASE unsatisfied[r] = 1
        <3>1. DeriveLiteral(r)
            BY <1>6, <2>5 DEF SatisfyCondition
        <3> QED BY <1>1, <1>4, <2>1, <2>2, <2>3, <2>5, <3>1
    <2> QED BY <2>4, <2>5
<1> QED BY <1>5, <1>6

\* What is proven is announced, for the first time.
LEMMA ProofIsNews ==
    ASSUME TypeOK, ClosureInvariant, NEW r \in rules, Derives(r), ProvesHead(r)
    PROVE  /\ <<r.head, Proven>> \in Literals \ Announced
           /\ Announced' = Announced \cup {<<r.head, Proven>>}
           /\ \A v \in Variables : buffer'[v] = IF v = r.head THEN Proven ELSE buffer[v]
           /\ InQueue' = InQueue \cup {<<r.head, Proven>>}
           /\ queue' \in Seq(Literals) /\ NoRepetition(queue')
<1>1. Accepted /\ r.head \in ResetVariables /\ r.head \in Variables /\ r.head \in Derived
    BY RuleParts, TaskParts DEF Derives, Evaluating, Accepted
<1>2. \A v \in Variables : buffer'[v] = IF v = r.head THEN Proven ELSE buffer[v]
    BY DEF ProvesHead, TypeOK
<1>3. <<r.head, Proven>> \in Literals
    BY <1>1, LiteralParts
<1>4. <<r.head, Proven>> \notin Announced
    BY <1>1, AnnouncedParts DEF ProvesHead, Proven, Default
<1>5. SeedVariables' = SeedVariables /\ ResetVariables' = ResetVariables
      /\ axiomLayer' = axiomLayer /\ layerNo' = layerNo
    BY DEF Derives, task, SeedVariables, ResetVariables
<1>6. Announced' = Announced \cup {<<r.head, Proven>>}
    <2>1. r.head \notin SeedVariables /\ SeedVariables \subseteq Variables /\ ResetVariables \subseteq Variables
        BY <1>1, TaskParts
    <2>2. {<<v, buffer'[v]>> : v \in SeedVariables} = {<<v, buffer[v]>> : v \in SeedVariables}
        BY <1>2, <2>1
    <2>3. {w \in ResetVariables : buffer'[w] = Proven}
            = {w \in ResetVariables : buffer[w] = Proven} \cup {r.head}
        BY <1>1, <1>2, <2>1
    <2>4. {w \in ResetVariables : buffer'[w] = Default /\ axiomLayer[w] < layerNo}
            = {w \in ResetVariables : buffer[w] = Default /\ axiomLayer[w] < layerNo}
        <3>1. ~ (axiomLayer[r.head] < layerNo)
            BY <1>1, TaskParts DEF ProvesHead, TypeOK
        <3> QED BY <1>2, <2>1, <3>1
    <2> QED BY <1>5, <2>2, <2>3, <2>4 DEF Announced
<1>7. /\ InQueue' = InQueue \cup {<<r.head, Proven>>}
      /\ queue' \in Seq(Literals) /\ NoRepetition(queue')
    <2>1. InQueue = Elements(queue) /\ InQueue' = Elements(queue') /\ NoRepetition(queue)
        BY DEF InQueue, Elements, NoRepetition, ClosureInvariant, QueueIsFresh, Derives
    <2>2. <<r.head, Proven>> \notin Elements(queue)
        BY <1>4, <2>1 DEF ClosureInvariant, QueueIsFresh, Derives
    <2>3. queue \in Seq(Literals) /\ queue' = Append(queue, <<r.head, Proven>>)
        BY DEF TypeOK, ProvesHead
    <2> QED BY <1>3, <2>1, <2>2, <2>3, AppendFresh
<1> QED BY <1>2, <1>3, <1>4, <1>6, <1>7

\* Either way, what is announced and what is queued grow by the same literals.
LEMMA DerivationGrows ==
    ASSUME TypeOK, ClosureInvariant, NEW r \in visiting, FireTrivial(r) \/ SatisfyCondition(r)
    PROVE  /\ \E new \in SUBSET (Literals \ Announced) :
                  Announced' = Announced \cup new /\ InQueue' = InQueue \cup new
           /\ queue' \in Seq(Literals) /\ NoRepetition(queue')
           /\ buffer' \in [Variables -> FluentValues \cup {0, 1}]
           /\ \A v \in Variables : \/ buffer'[v] = buffer[v]
                                   \/ v = r.head /\ buffer'[v] = Proven /\ ProvesHead(r)
<1>1. /\ Derives(r) /\ r \in rules
      /\ ProvesHead(r) \/ UNCHANGED <<buffer, queue>>
    BY DerivationEffect
<1>2. CASE ProvesHead(r)
    <2>1. buffer' \in [Variables -> FluentValues \cup {0, 1}]
        BY <1>2 DEF ProvesHead, TypeOK, Proven
    <2> QED BY <1>1, <1>2, <2>1, ProofIsNews
<1>3. CASE UNCHANGED <<buffer, queue>>
    <2>1. Announced' = Announced /\ InQueue' = InQueue
        BY <1>1, <1>3 DEF Derives, task, Announced, SeedVariables, ResetVariables, InQueue
    <2>2. queue' \in Seq(Literals) /\ NoRepetition(queue')
        BY <1>1, <1>3 DEF TypeOK, ClosureInvariant, QueueIsFresh, NoRepetition, Derives
    <2>3. buffer' \in [Variables -> FluentValues \cup {0, 1}]
        BY <1>3 DEF TypeOK
    <2>4. \E new \in SUBSET (Literals \ Announced) :
              Announced' = Announced \cup new /\ InQueue' = InQueue \cup new
        <3> WITNESS {} \in SUBSET (Literals \ Announced)
        <3> QED BY <2>1
    <2> QED BY <1>3, <2>2, <2>3, <2>4
<1> QED BY <1>1, <1>2, <1>3

LEMMA DerivationKeepsTypes ==
    ASSUME TypeOK, ClosureInvariant, NEW r \in visiting, FireTrivial(r) \/ SatisfyCondition(r)
    PROVE  TypeOK'
<1>1. /\ Derives(r) /\ r \in rules
      /\ \/ unsatisfied' = unsatisfied
         \/ pc = "propagate" /\ unsatisfied' = [unsatisfied EXCEPT ![r] = @ - 1]
    BY DerivationEffect
<1>2. /\ queue' \in Seq(Literals)
      /\ buffer' \in [Variables -> FluentValues \cup {0, 1}]
      /\ \A v \in Variables : buffer'[v] = buffer[v] \/ (v = r.head /\ buffer'[v] = Proven)
    BY DerivationGrows
<1>3. \A v \in Variables : buffer'[v] \in Values(v)
    <2>1. Proven \in Values(r.head)
        BY <1>1, RuleParts, LiteralParts
    <2> QED BY <1>2, <2>1 DEF TypeOK
<1>4. DOMAIN unsatisfied' = DOMAIN unsatisfied /\ \A q \in DOMAIN unsatisfied : unsatisfied'[q] \in Nat
    <2>1. CASE unsatisfied' = unsatisfied
        BY <2>1 DEF TypeOK
    <2>2. CASE pc = "propagate" /\ unsatisfied' = [unsatisfied EXCEPT ![r] = @ - 1]
        <3>1. unsatisfied[r] \in Nat \ {0}
            BY <2>2, VisitedRules
        <3> QED BY <2>2, <3>1 DEF TypeOK
    <2> QED BY <1>1, <2>1, <2>2
<1>5. /\ input' = input /\ rules' = rules /\ axiomLayer' = axiomLayer
      /\ defaultRules' = defaultRules /\ pc' = pc /\ layerNo' = layerNo
      /\ literal' = literal /\ visiting' \subseteq visiting
    BY <1>1 DEF Derives, task
<1>6. state' = state /\ evaluations' = evaluations
    BY DEF FireTrivial, SatisfyCondition
<1> QED BY <1>2, <1>3, <1>4, <1>5, <1>6
        DEF TypeOK, Accepted, Evaluating, Heads, ResetVariables

LEMMA DerivationKeepsCounters ==
    ASSUME TypeOK, ClosureInvariant, NEW r \in visiting, FireTrivial(r) \/ SatisfyCondition(r)
    PROVE  QueueIsFresh' /\ VisitsAreDue' /\ CountersCount'
<1>1. /\ Derives(r) /\ r \in rules
      /\ \/ /\ pc = "trivial" /\ unsatisfied' = unsatisfied
         \/ /\ pc = "propagate" /\ unsatisfied' = [unsatisfied EXCEPT ![r] = @ - 1]
    BY DerivationEffect
<1>2. /\ visiting' = visiting \ {r} /\ visiting \subseteq rules
      /\ rules' = rules /\ pc' = pc /\ literal' = literal
    BY <1>1 DEF Derives, task, TypeOK
<1>3. QueueIsFresh /\ VisitsAreDue /\ CountersCount
    BY <1>1 DEF Derives, ClosureInvariant
<1>. DEFINE Grows(new) == Announced' = Announced \cup new /\ InQueue' = InQueue \cup new
<1>4. PICK new \in SUBSET (Literals \ Announced) : Grows(new)
    BY DerivationGrows
<1>5. QueueIsFresh'
    <2>1. \A i, j \in 1..Len(queue') : queue'[i] = queue'[j] => i = j
        BY DerivationGrows DEF NoRepetition
    <2>2. /\ InQueue' \subseteq Announced'
          /\ pc' = "trivial" => Announced' \subseteq InQueue'
          /\ pc' = "propagate" /\ visiting' # {} => literal' \in Announced' \ InQueue'
        BY <1>2, <1>3, <1>4 DEF QueueIsFresh
    <2> QED BY <2>1, <2>2 DEF QueueIsFresh
<1>6. VisitsAreDue'
    BY <1>2, <1>3 DEF VisitsAreDue
<1>7. ASSUME NEW q \in rules, pc = "trivial" \/ q # r
      PROVE  Outstanding(q)' = Outstanding(q)
    BY <1>2, <1>4, <1>7 DEF Outstanding
<1>8. CASE pc = "trivial"
    BY <1>1, <1>2, <1>3, <1>5, <1>6, <1>7, <1>8 DEF CountersCount
<1>9. CASE pc = "propagate"
    <2>1. literal \in r.body /\ literal \in Announced \ InQueue
        BY <1>9, VisitedRules
    <2>2. literal \in Outstanding(r) /\ Outstanding(r)' = Outstanding(r) \ {literal}
        BY <1>2, <1>4, <1>9, <2>1 DEF Outstanding
    <2>3. IsFiniteSet(Outstanding(r))
        BY <1>1, RuleParts, FS_Subset DEF Outstanding
    <2>4. Cardinality(Outstanding(r)') = Cardinality(Outstanding(r)) - 1
        BY <2>2, <2>3, FS_RemoveElement
    <2>5. unsatisfied' = [unsatisfied EXCEPT ![r] = @ - 1] /\ DOMAIN unsatisfied = rules
        BY <1>1, <1>9 DEF TypeOK, Evaluating
    <2>6. ASSUME NEW q \in rules
          PROVE  unsatisfied'[q] = Cardinality(Outstanding(q)')
        <3>1. CASE q = r
            BY <1>3, <2>4, <2>5, <3>1 DEF CountersCount
        <3>2. CASE q # r
            BY <1>3, <1>7, <2>5, <3>2 DEF CountersCount
        <3> QED BY <3>1, <3>2
    <2> QED BY <1>2, <1>5, <1>6, <2>6 DEF CountersCount
<1> QED BY <1>1, <1>5, <1>6, <1>8, <1>9

LEMMA DerivationKeepsProofs ==
    ASSUME TypeOK, ClosureInvariant, NEW r \in visiting, FireTrivial(r) \/ SatisfyCondition(r)
    PROVE  /\ RulesFire' /\ ProvenIsJustified' /\ LayersAreSettled'
           /\ \A v \in Variables : IsProven(v) => buffer'[v] = Proven
<1>1. /\ Derives(r) /\ r \in rules
      /\ \/ /\ pc = "trivial" /\ r.body = {} /\ unsatisfied' = unsatisfied
         \/ /\ pc = "propagate" /\ unsatisfied' = [unsatisfied EXCEPT ![r] = @ - 1]
      /\ r.value = Proven /\ (pc = "propagate" => unsatisfied[r] = 1) => buffer'[r.head] = Proven
    BY DerivationEffect
<1>2. /\ visiting' = visiting \ {r} /\ visiting \subseteq rules
      /\ rules' = rules /\ pc' = pc /\ layerNo' = layerNo /\ axiomLayer' = axiomLayer
      /\ ResetVariables' = ResetVariables /\ Proving(rules)' = Proving(rules)
    BY <1>1 DEF Derives, task, TypeOK, ResetVariables
<1>3. RulesFire /\ ProvenIsJustified /\ LayersAreSettled
    BY <1>1 DEF Derives, ClosureInvariant
<1>4. Announced \subseteq Announced'
    BY DerivationGrows
<1>5. Accepted /\ DOMAIN unsatisfied = rules
    BY <1>1 DEF Derives, Evaluating, Accepted, TypeOK
<1>6. \A v \in Variables : \/ buffer'[v] = buffer[v]
                           \/ v = r.head /\ buffer'[v] = Proven /\ ProvesHead(r)
    BY DerivationGrows
<1>7. \A v \in Variables : IsProven(v) => buffer'[v] = Proven
    BY <1>6 DEF IsProven
<1>8. \A q \in Proving(rules) : q \in rules /\ q.head \in Variables /\ q.head \in ResetVariables
    BY <1>5, RuleParts, TaskParts DEF Proving
<1>9. RulesFire'
    <2>1. ASSUME NEW q \in Proving(rules), unsatisfied'[q] = 0,
                 ~ (pc = "trivial" /\ q \in visiting')
          PROVE  buffer'[q.head] = Proven
        <3>1. CASE q = r
            <4>1. pc = "propagate" => unsatisfied[r] = 1
                <5>1. SUFFICES ASSUME pc = "propagate"
                               PROVE  unsatisfied[r] = 1
                    OBVIOUS
                <5>2. unsatisfied[r] \in Nat /\ unsatisfied'[r] = unsatisfied[r] - 1
                    BY <1>1, <1>5, <5>1, VisitedRules
                <5> QED BY <2>1, <3>1, <5>2
            <4>2. r.value = Proven
                BY <3>1 DEF Proving
            <4> QED BY <1>1, <3>1, <4>1, <4>2
        <3>2. CASE q # r
            <4>1. unsatisfied[q] = 0 /\ ~ (pc = "trivial" /\ q \in visiting)
                BY <1>1, <1>2, <2>1, <3>2, <1>5, <1>8
            <4> QED BY <1>3, <1>7, <1>8, <4>1 DEF RulesFire, IsProven
        <3> QED BY <3>1, <3>2
    <2> QED BY <1>2, <2>1 DEF RulesFire, IsProven
<1>10. ProvenIsJustified'
    <2>1. ASSUME NEW v \in ResetVariables, buffer'[v] = Proven
          PROVE  \E q \in Proving(rules) : /\ q.head = v /\ q.body \subseteq Announced
                                           /\ pc = "trivial" => q.body = {}
        <3>1. v \in Variables
            BY <1>5, TaskParts
        <3>2. CASE IsProven(v)
            BY <1>3, <3>2 DEF ProvenIsJustified
        <3>3. CASE ~ IsProven(v)
            <4>1. v = r.head /\ ProvesHead(r)
                BY <1>6, <2>1, <3>1, <3>3 DEF IsProven
            <4>2. r \in Proving(rules)
                BY <1>1, <4>1 DEF ProvesHead, Proving
            <4> QED BY <4>1, <4>2 DEF ProvesHead
        <3> QED BY <3>2, <3>3
    <2> QED BY <1>2, <1>4, <2>1 DEF ProvenIsJustified, IsProven
<1>11. LayersAreSettled'
    <2>1. ASSUME NEW q \in Proving(rules), axiomLayer[q.head] < layerNo
          PROVE  buffer'[q.head] = Proven \/ \E l \in q.body : buffer'[l[1]] # l[2]
        <3>1. CASE IsProven(q.head)
            BY <1>7, <1>8, <3>1
        <3>2. CASE \E l \in q.body : buffer[l[1]] # l[2]
            <4>1. PICK l \in q.body : buffer[l[1]] # l[2]
                BY <3>2
            <4>2. l \in Literals /\ l[1] \in Variables /\ l = <<l[1], l[2]>>
                BY <1>8, <4>1, RuleParts, LiteralParts
            <4>3. CASE buffer'[l[1]] = buffer[l[1]]
                BY <4>1, <4>3
            <4>4. CASE l[1] = r.head /\ ProvesHead(r)
                <5>1. r.head \in ResetVariables /\ l[2] \in {Proven, Default}
                    BY <1>1, <1>5, <4>2, <4>4, TaskParts, LiteralParts, RuleParts
                <5>2. \/ axiomLayer[l[1]] <= axiomLayer[q.head]
                      \/ axiomLayer[l[1]] < axiomLayer[q.head]
                    BY <1>5, <4>1, <4>2, <4>4, <5>1 DEF ClosureInvariant, TaskIsSound
                <5>3. layerNo <= axiomLayer[r.head]
                    BY <4>4 DEF ProvesHead
                <5>4. axiomLayer[r.head] \in Nat /\ axiomLayer[q.head] \in Nat /\ layerNo \in Nat
                    BY <1>1, <1>5, <1>8, TaskParts DEF TypeOK
                <5> QED BY <2>1, <4>4, <5>2, <5>3, <5>4
            <4> QED BY <1>6, <4>2, <4>3, <4>4
        <3> QED BY <1>3, <2>1, <3>1, <3>2 DEF LayersAreSettled
    <2> QED BY <1>2, <2>1 DEF LayersAreSettled, IsProven
<1> QED BY <1>7, <1>9, <1>10, <1>11

LEMMA DerivationKeepsInvariant ==
    ASSUME TypeOK, ClosureInvariant, NEW r \in visiting, FireTrivial(r) \/ SatisfyCondition(r)
    PROVE  TypeOK' /\ ClosureInvariant'
<1>1. Derives(r)
    BY DerivationEffect
<1>2. pc' = pc /\ layerNo' = layerNo /\ Evaluating /\ TaskIsSound /\ TaskIsSound'
    BY <1>1 DEF Derives, task, ClosureInvariant, TaskIsSound, Accepted, ResetVariables
<1>3. pc = "trivial" => layerNo = 0
    BY <1>2 DEF ClosureInvariant
<1>4. ClosureIsSupported'
    BY <1>2 DEF Evaluating, ClosureIsSupported
<1> QED BY <1>2, <1>3, <1>4, DerivationKeepsTypes, DerivationKeepsCounters, DerivationKeepsProofs
        DEF ClosureInvariant

-----------------------------------------------------------------------------
(* Layers.  Clusters read each other in no cycle, so the recursion of        *)
(* lowest_allowed_layer is well founded.                                     *)

\* Every set of natural numbers but the empty one has a least element.
LEMMA LeastExists ==
    ASSUME NEW S \in SUBSET Nat, S # {}
    PROVE  \E m \in S : \A n \in S : m <= n
<1>1. \E m \in S : \A n \in S : ~(<<n, m>> \in OpToRel(<, Nat))
    BY WFMin, NatLessThanWellFounded
<1>2. \A m, n \in S : ~(<<n, m>> \in OpToRel(<, Nat)) => m <= n
    BY DEF OpToRel
<1> QED BY <1>1, <1>2

\* Of a finite set's subsets with some property, one leaves out the fewest elements.
LEMMA LargestSubset ==
    ASSUME NEW S, IsFiniteSet(S), NEW C, C # {}, \A T \in C : T \subseteq S
    PROVE  \E T \in C : \A x \in S \ T : T \cup {x} \notin C
<1> DEFINE Left(T) == Cardinality(S \ T)
           N == {Left(T) : T \in C}
<1>1. \A T \in C : IsFiniteSet(S \ T) /\ Left(T) \in Nat
    BY FS_Difference, FS_CardinalityType
<1>2. N \in SUBSET Nat /\ N # {}
    BY <1>1
<1>3. PICK m \in N : \A n \in N : m <= n
    <2> HIDE DEF N
    <2> QED BY <1>2, LeastExists
<1>4. PICK T \in C : m = Left(T)
    OBVIOUS
<1>5. ASSUME NEW x \in S \ T, T \cup {x} \in C
      PROVE  FALSE
    <2>1. S \ (T \cup {x}) = (S \ T) \ {x}
        OBVIOUS
    <2>2. Cardinality((S \ T) \ {x}) = Cardinality(S \ T) - 1
        <3>1. IsFiniteSet(S \ T) /\ x \in S \ T
            BY <1>1
        <3> QED BY <3>1, FS_RemoveElement
    <2>3. m <= Left(T \cup {x})
        BY <1>3, <1>5
    <2>4. m = Cardinality(S \ T) /\ m \in Nat /\ m <= Cardinality((S \ T) \ {x})
        BY <1>1, <1>4, <2>1, <2>3
    <2> QED BY <2>2, <2>4
<1> QED BY <1>4, <1>5

\* A finite set of natural numbers has a largest one.
LEMMA LargestExists ==
    ASSUME NEW S \in SUBSET Nat, IsFiniteSet(S), S # {}
    PROVE  Largest(S) \in S /\ \A m \in S : m <= Largest(S)
<1> DEFINE C == {T \in SUBSET S : \E n \in T : \A m \in T : m <= n}
<1>1. C # {} /\ \A T \in C : T \subseteq S
    <2>1. PICK x \in S : TRUE
        OBVIOUS
    <2>2. {x} \in C
        BY <2>1
    <2> QED BY <2>2
<1>2. PICK T \in C : \A x \in S \ T : T \cup {x} \notin C
    <2>1. \E T \in C : \A x \in S \ T : T \cup {x} \notin C
        <3> HIDE DEF C
        <3> QED BY <1>1, LargestSubset
    <2> QED BY <2>1
<1>3. PICK n \in T : \A m \in T : m <= n
    OBVIOUS
<1>4. ASSUME NEW x \in S \ T
      PROVE  FALSE
    <2>1. CASE x <= n
        <3>1. T \cup {x} \in C
            BY <1>3, <2>1
        <3> QED BY <1>2, <1>4, <3>1
    <2>2. CASE ~ (x <= n)
        <3>1. \A m \in T \cup {x} : m <= x
            BY <1>3, <1>4, <2>2
        <3>2. T \cup {x} \in C
            BY <1>4, <3>1
        <3> QED BY <1>2, <1>4, <3>2
    <2> QED BY <2>1, <2>2
<1>5. \E k \in S : \A m \in S : m <= k
    BY <1>3, <1>4
<1> QED BY <1>5 DEF Largest

LEMMA ImageIsFinite ==
    ASSUME NEW S, IsFiniteSet(S), NEW f, S \subseteq DOMAIN f
    PROVE  IsFiniteSet({f[x] : x \in S})
<1> DEFINE T == {f[x] : x \in S}
           g == [x \in S |-> f[x]]
<1>1. g \in Surjection(S, T)
    BY DEF Surjection
<1> QED BY <1>1, FS_Surjection

\* lowest_allowed_layer, given the layers f of the children.
Lowest(f, positive, negative) ==
    Largest({0} \cup {f[d] : d \in positive} \cup {f[d] + 1 : d \in negative})

LEMMA LowestParts ==
    ASSUME NEW P, NEW N, IsFiniteSet(P), IsFiniteSet(N), NEW f,
           P \cup N \subseteq DOMAIN f, \A d \in P \cup N : f[d] \in Nat
    PROVE  /\ Lowest(f, P, N) \in Nat
           /\ \A d \in P : f[d] <= Lowest(f, P, N)
           /\ \A d \in N : f[d] < Lowest(f, P, N)
<1> DEFINE A == {f[d] : d \in P}
           B == {f[d] + 1 : d \in N}
           S == ({0} \cup A) \cup B
<1>1. S \in SUBSET Nat /\ S # {}
    <2>1. A \subseteq Nat
        OBVIOUS
    <2>2. B \subseteq Nat
        <3>1. \A k \in Nat : k + 1 \in Nat
            OBVIOUS
        <3> QED BY <3>1
    <2> HIDE DEF A, B
    <2> QED BY <2>1, <2>2
<1>2. IsFiniteSet(A) /\ IsFiniteSet(B)
    <2> DEFINE g == [d \in N |-> f[d] + 1]
    <2>1. IsFiniteSet(A)
        BY ImageIsFinite
    <2>2. IsFiniteSet(B)
        <3>1. IsFiniteSet({g[d] : d \in N})
            <4> HIDE DEF g
            <4>1. DOMAIN g = N
                BY DEF g
            <4> QED BY <4>1, ImageIsFinite
        <3> QED BY <3>1
    <2> QED BY <2>1, <2>2
<1>3. IsFiniteSet(S)
    <2> HIDE DEF A, B
    <2>1. IsFiniteSet({0})
        BY FS_Singleton
    <2>2. IsFiniteSet({0} \cup A)
        BY <1>2, <2>1, FS_Union
    <2> QED BY <1>2, <2>2, FS_Union
<1>4. Lowest(f, P, N) = Largest(S)
    BY DEF Lowest
<1>5. Largest(S) \in S /\ \A m \in S : m <= Largest(S)
    <2> HIDE DEF S
    <2> QED BY <1>1, <1>3, LargestExists
<1>6. \A d \in P : f[d] \in S
    OBVIOUS
<1>7. \A d \in N : f[d] + 1 \in S
    OBVIOUS
<1>8. Largest(S) \in Nat
    <2> HIDE DEF S
    <2> QED BY <1>1, <1>5
<1>9. ASSUME NEW d \in P
      PROVE  f[d] <= Lowest(f, P, N)
    <2> HIDE DEF S
    <2> QED BY <1>4, <1>5, <1>6
<1>10. ASSUME NEW d \in N
       PROVE  f[d] < Lowest(f, P, N)
    <2> HIDE DEF S
    <2>1. f[d] + 1 <= Largest(S) /\ f[d] \in Nat
        BY <1>5, <1>7
    <2> QED BY <1>4, <1>8, <2>1
<1> QED BY <1>4, <1>8, <1>9, <1>10

\* Children, by cluster, from which no set of clusters is left out for ever.
WellFounded(D, positive, negative) ==
    \A X \in SUBSET D : X # {} =>
        \E c \in X : (positive[c] \cup negative[c]) \cap X = {}

\* Layers for the clusters in T, which read no others.
IsLayering(T, f, positive, negative) ==
    /\ f \in [T -> Nat]
    /\ \A c \in T : /\ positive[c] \cup negative[c] \subseteq T
                    /\ f[c] = Lowest(f, positive[c], negative[c])

LEMMA LayeringExists ==
    ASSUME NEW D, IsFiniteSet(D), NEW p \in [D -> SUBSET D], NEW n \in [D -> SUBSET D],
           WellFounded(D, p, n)
    PROVE  \E f : IsLayering(D, f, p, n)
<1> DEFINE C == {T \in SUBSET D : \E f : IsLayering(T, f, p, n)}
<1>1. C # {} /\ \A T \in C : T \subseteq D
    <2>1. IsLayering({}, [c \in {} |-> 0], p, n)
        BY DEF IsLayering
    <2>2. {} \in C
        BY <2>1
    <2> QED BY <2>2
<1>2. PICK T \in C : \A x \in D \ T : T \cup {x} \notin C
    <2>1. \E T \in C : \A x \in D \ T : T \cup {x} \notin C
        <3> HIDE DEF C
        <3> QED BY <1>1, LargestSubset
    <2> QED BY <2>1
<1>3. PICK f : IsLayering(T, f, p, n)
    OBVIOUS
<1>4. CASE T = D
    BY <1>3, <1>4
<1>5. CASE T # D
    <2>1. PICK c \in D \ T : (p[c] \cup n[c]) \cap (D \ T) = {}
        <3>1. D \ T \in SUBSET D /\ D \ T # {}
            BY <1>1, <1>5
        <3> QED BY <3>1 DEF WellFounded
    <2>2. p[c] \subseteq T /\ n[c] \subseteq T
        BY <2>1
    <2> DEFINE V == Lowest(f, p[c], n[c])
               g == [x \in T \cup {c} |-> IF x = c THEN V ELSE f[x]]
    <2>3. f \in [T -> Nat] /\ \A x \in T : p[x] \subseteq T /\ n[x] \subseteq T
                                           /\ f[x] = Lowest(f, p[x], n[x])
        BY <1>3 DEF IsLayering
    <2>4. V \in Nat
        <3>1. IsFiniteSet(p[c]) /\ IsFiniteSet(n[c])
            BY FS_Subset
        <3>2. p[c] \cup n[c] \subseteq DOMAIN f /\ \A d \in p[c] \cup n[c] : f[d] \in Nat
            BY <2>2, <2>3
        <3> QED BY <3>1, <3>2, LowestParts
    <2> HIDE DEF V
    <2>5. g \in [T \cup {c} -> Nat] /\ g[c] = V /\ \A x \in T : g[x] = f[x]
        BY <2>1, <2>3, <2>4
    <2> HIDE DEF g
    <2>6. ASSUME NEW P \in SUBSET T, NEW N \in SUBSET T
          PROVE  Lowest(g, P, N) = Lowest(f, P, N)
        <3>1. {g[d] : d \in P} = {f[d] : d \in P}
            BY <2>5
        <3>2. {g[d] + 1 : d \in N} = {f[d] + 1 : d \in N}
            <4>1. \A d \in N : g[d] + 1 = f[d] + 1
                BY <2>5
            <4> QED BY <4>1
        <3> QED BY <3>1, <3>2 DEF Lowest
    <2>7. g[c] = Lowest(g, p[c], n[c])
        BY <2>2, <2>5, <2>6 DEF V
    <2>8. \A x \in T : g[x] = Lowest(g, p[x], n[x])
        BY <2>3, <2>5, <2>6
    <2>9. IsLayering(T \cup {c}, g, p, n)
        BY <2>2, <2>3, <2>5, <2>7, <2>8 DEF IsLayering
    <2>10. T \cup {c} \in C
        BY <2>9
    <2> QED BY <1>2, <2>1, <2>10
<1> QED BY <1>4, <1>5

\* The recursion of lowest_allowed_layer defines layers, which respect the children.
LEMMA LowestLayersParts ==
    ASSUME NEW D, IsFiniteSet(D), NEW p \in [D -> SUBSET D], NEW n \in [D -> SUBSET D],
           WellFounded(D, p, n),
           NEW f, f = LowestLayers(p, n)
    PROVE  /\ f \in [D -> Nat]
           /\ \A c \in D : /\ \A d \in p[c] : f[d] <= f[c]
                           /\ \A d \in n[c] : f[d] < f[c]
<1>1. f = CHOOSE layer : layer = [c \in D |-> Lowest(layer, p[c], n[c])]
    BY DEF LowestLayers, Lowest
<1>2. PICK g : IsLayering(D, g, p, n)
    BY LayeringExists
<1>3. g = [c \in D |-> Lowest(g, p[c], n[c])]
    BY <1>2 DEF IsLayering
<1>4. f = [c \in D |-> Lowest(f, p[c], n[c])]
    BY <1>1, <1>3
<1>5. DOMAIN f = D /\ \A c \in D : f[c] = Lowest(f, p[c], n[c])
    BY <1>4
<1>6. ASSUME NEW c \in D
      PROVE  IsFiniteSet(p[c]) /\ IsFiniteSet(n[c]) /\ p[c] \cup n[c] \subseteq DOMAIN f
    BY <1>5, FS_Subset
<1>7. \A c \in D : f[c] \in Nat
    <2> DEFINE X == {c \in D : f[c] \notin Nat}
    <2>1. SUFFICES ASSUME X # {} PROVE FALSE
        OBVIOUS
    <2>2. PICK c \in X : (p[c] \cup n[c]) \cap X = {}
        BY <2>1 DEF WellFounded
    <2>3. \A d \in p[c] \cup n[c] : f[d] \in Nat
        BY <1>6, <2>2
    <2>4. Lowest(f, p[c], n[c]) \in Nat
        BY <1>6, <2>3, LowestParts
    <2> QED BY <1>5, <2>2, <2>4
<1>8. f \in [D -> Nat]
    BY <1>4, <1>7
<1>9. ASSUME NEW c \in D
      PROVE  /\ \A d \in p[c] : f[d] <= f[c]
             /\ \A d \in n[c] : f[d] < f[c]
    <2>1. \A d \in p[c] \cup n[c] : f[d] \in Nat
        BY <1>6, <1>7
    <2>2. /\ \A d \in p[c] : f[d] <= Lowest(f, p[c], n[c])
          /\ \A d \in n[c] : f[d] < Lowest(f, p[c], n[c])
        BY <1>6, <2>1, LowestParts
    <2> QED BY <1>5, <2>2
<1> QED BY <1>8, <1>9

\* What a variable reaches: its successors, theirs, and nothing else.
LEMMA ReachesParts ==
    ASSUME NEW E \in SUBSET (Derived \X Derived), NEW v \in Derived
    PROVE  /\ Reaches(v, E) \subseteq Derived
           /\ \A e \in E : e[1] = v => e[2] \in Reaches(v, E)
           /\ \A e \in E : e[1] \in Reaches(v, E) => e[2] \in Reaches(v, E)
           /\ \A w \in Reaches(v, E) : Reaches(w, E) \subseteq Reaches(v, E)
<1> DEFINE After(w) == {e[2] : e \in {f \in E : f[1] = w}}
<1>1. \A w, x : x \in Reaches(w, E) <=>
          x \in Derived /\ \A S \in SUBSET Derived : After(w) \subseteq S /\ ClosedUnder(S, E) => x \in S
    BY DEF Reaches, Reached
<1>2. \A e \in E : e[1] \in Derived /\ e[2] \in Derived
    OBVIOUS
<1>3. Reaches(v, E) \subseteq Derived
    BY <1>1
<1>4. \A e \in E : e[1] = v => e[2] \in Reaches(v, E)
    BY <1>1, <1>2
<1>5. \A e \in E : e[1] \in Reaches(v, E) => e[2] \in Reaches(v, E)
    BY <1>1, <1>2 DEF ClosedUnder
<1>6. ASSUME NEW w \in Reaches(v, E)
      PROVE  Reaches(w, E) \subseteq Reaches(v, E)
    <2>1. After(w) \subseteq Reaches(v, E)
        BY <1>5
    <2>2. ClosedUnder(Reaches(v, E), E)
        BY <1>5 DEF ClosedUnder
    <2> QED BY <1>1, <1>3, <2>1, <2>2
<1> QED BY <1>3, <1>4, <1>5, <1>6

\* Clusters are the classes of an equivalence, and an edge that leaves one never
\* leads back.
LEMMA ClusterParts ==
    ASSUME NEW E \in SUBSET (Derived \X Derived), NEW v \in Derived
    PROVE  /\ v \in Cluster(v, E) /\ Cluster(v, E) \subseteq Derived
           /\ \A w \in Cluster(v, E) : Cluster(w, E) = Cluster(v, E)
           /\ \A e \in E : e[1] \in Cluster(v, E) =>
                  /\ e[2] \in Reaches(v, E) /\ Reaches(e[2], E) \subseteq Reaches(v, E)
                  /\ Cluster(e[2], E) # Cluster(v, E) => v \notin {e[2]} \cup Reaches(e[2], E)
<1>1. v \in Cluster(v, E) /\ Cluster(v, E) \subseteq Derived
    BY ReachesParts DEF Cluster
<1>2. ASSUME NEW w \in Cluster(v, E), w # v
      PROVE  Cluster(w, E) = Cluster(v, E)
    <2>1. w \in Reaches(v, E) /\ v \in Reaches(w, E) /\ w \in Derived
        BY <1>1, <1>2 DEF Cluster
    <2>2. Reaches(w, E) = Reaches(v, E)
        BY <2>1, ReachesParts
    <2>3. \A x \in Reaches(v, E) : v \in Reaches(x, E) <=> w \in Reaches(x, E)
        <3>1. ASSUME NEW x \in Reaches(v, E)
              PROVE  v \in Reaches(x, E) <=> w \in Reaches(x, E)
            <4>1. x \in Derived
                BY ReachesParts
            <4>2. v \in Reaches(x, E) => Reaches(v, E) \subseteq Reaches(x, E)
                BY <4>1, ReachesParts
            <4>3. w \in Reaches(x, E) => Reaches(w, E) \subseteq Reaches(x, E)
                BY <4>1, ReachesParts
            <4> QED BY <2>1, <4>2, <4>3
        <3> QED BY <3>1
    <2>4. v \in Reaches(v, E) /\ w \in Reaches(w, E)
        BY <2>1, <2>2
    <2> QED BY <2>2, <2>3, <2>4 DEF Cluster
<1>3. ASSUME NEW e \in E, e[1] \in Cluster(v, E)
      PROVE  e[2] \in Reaches(v, E) /\ Reaches(e[2], E) \subseteq Reaches(v, E) /\ e[2] \in Derived
    <2>1. e[2] \in Reaches(v, E)
        BY <1>3, ReachesParts DEF Cluster
    <2> QED BY <2>1, ReachesParts
<1>4. ASSUME NEW e \in E, e[1] \in Cluster(v, E), v \in {e[2]} \cup Reaches(e[2], E)
      PROVE  Cluster(e[2], E) = Cluster(v, E)
    <2>1. e[2] \in Cluster(v, E)
        BY <1>1, <1>3, <1>4 DEF Cluster
    <2> QED BY <1>2, <2>1
<1> QED BY <1>1, <1>2, <1>3, <1>4

LEMMA EdgesParts ==
    ASSUME NEW axioms, axioms \subseteq RuleType
    PROVE  /\ Heads(axioms) \subseteq Derived /\ IsFiniteSet(Heads(axioms))
           /\ AllEdges(axioms) \in SUBSET (Derived \X Derived)
           /\ \A value \in {Proven, Default} :
                  /\ EdgesTo(axioms, value) \subseteq AllEdges(axioms)
                  /\ \A e \in EdgesTo(axioms, value) : e[2] \in Heads(axioms)
<1>1. Heads(axioms) \subseteq Derived
    BY DEF Heads, RuleType
<1>2. IsFiniteSet(Heads(axioms))
    BY <1>1, VariablesAssumption, FS_Subset
<1> QED BY <1>1, <1>2 DEF AllEdges, EdgesTo

\* The children of a cluster are clusters, and reading leads nowhere back.
LEMMA ChildrenParts ==
    ASSUME NEW axioms, axioms \subseteq RuleType,
           NEW D, D = {ClusterOf(axioms)[v] : v \in Heads(axioms)}
    PROVE  /\ IsFiniteSet(D)
           /\ \A value \in {Proven, Default} : Children(axioms, value) \in [D -> SUBSET D]
           /\ WellFounded(D, Children(axioms, Proven), Children(axioms, Default))
<1> DEFINE E == AllEdges(axioms)
           cl == ClusterOf(axioms)
           H == Heads(axioms)
           kids(value) == Children(axioms, value)
           Span(v) == {v} \cup Reaches(v, E)
<1>1. /\ H \subseteq Derived /\ IsFiniteSet(H) /\ E \in SUBSET (Derived \X Derived)
      /\ \A value \in {Proven, Default} :
             EdgesTo(axioms, value) \subseteq E /\ \A e \in EdgesTo(axioms, value) : e[2] \in H
    BY EdgesParts
<1>2. DOMAIN cl = H /\ \A v \in H : cl[v] = Cluster(v, E)
    BY DEF ClusterOf
<1>3. IsFiniteSet(D)
    BY <1>1, <1>2, ImageIsFinite
<1>4. \A value : kids(value) = [c \in D |->
          {cl[e[2]] : e \in {f \in EdgesTo(axioms, value) : f[1] \in c}} \ {c}]
    BY DEF Children
<1>5. ASSUME NEW value \in {Proven, Default}
      PROVE  kids(value) \in [D -> SUBSET D]
    <2>1. \A e \in EdgesTo(axioms, value) : cl[e[2]] \in D
        BY <1>1
    <2>2. \A c \in D : {cl[e[2]] : e \in {f \in EdgesTo(axioms, value) : f[1] \in c}} \ {c} \in SUBSET D
        BY <2>1
    <2> HIDE DEF kids, cl
    <2> QED BY <1>4, <2>2
<1>6. ASSUME NEW value \in {Proven, Default}, NEW c \in D, NEW d \in kids(value)[c]
      PROVE  d # c /\ \E e \in E : e[1] \in c /\ e[2] \in H /\ d = Cluster(e[2], E)
    <2>0. kids(value)[c] = {cl[e[2]] : e \in {f \in EdgesTo(axioms, value) : f[1] \in c}} \ {c}
        <3> HIDE DEF kids, cl
        <3> QED BY <1>4
    <2>1. PICK e \in EdgesTo(axioms, value) : e[1] \in c /\ d = cl[e[2]]
        <3> HIDE DEF kids, cl
        <3> QED BY <1>6, <2>0
    <2>2. d # c
        <3> HIDE DEF kids, cl
        <3> QED BY <1>6, <2>0
    <2> QED BY <1>1, <1>2, <2>1, <2>2
<1>7. ASSUME NEW X \in SUBSET D, X # {}
      PROVE  \E c \in X : (kids(Proven)[c] \cup kids(Default)[c]) \cap X = {}
    <2> DEFINE V == {v \in H : cl[v] \in X}
               N == {Cardinality(Span(v)) : v \in V}
    <2>1. \A v \in Derived : Span(v) \subseteq Derived /\ IsFiniteSet(Span(v))
                             /\ Cardinality(Span(v)) \in Nat
        <3>1. \A v \in Derived : Span(v) \subseteq Derived
            BY <1>1, ReachesParts
        <3>2. \A v \in Derived : IsFiniteSet(Span(v))
            BY <3>1, VariablesAssumption, FS_Subset
        <3> QED BY <3>1, <3>2, FS_CardinalityType
    <2>2. V # {} /\ V \subseteq Derived
        BY <1>1, <1>7
    <2>3. N \in SUBSET Nat /\ N # {}
        BY <2>1, <2>2
    <2>4. PICK m \in N : \A k \in N : m <= k
        <3> HIDE DEF N
        <3> QED BY <2>3, LeastExists
    <2>5. PICK v \in V : m = Cardinality(Span(v))
        OBVIOUS
    <2>6. v \in Derived /\ cl[v] \in X /\ cl[v] = Cluster(v, E)
        BY <1>2, <2>2
    <2>7. ASSUME NEW d \in kids(Proven)[cl[v]] \cup kids(Default)[cl[v]], d \in X
          PROVE  FALSE
        <3>1. d # cl[v] /\ \E e \in E : e[1] \in cl[v] /\ e[2] \in H /\ d = Cluster(e[2], E)
            <4>1. cl[v] \in D
                BY <2>6
            <4> HIDE DEF kids, cl, E
            <4> QED BY <1>6, <2>7, <4>1
        <3>2. PICK e \in E : e[1] \in cl[v] /\ e[2] \in H /\ d = Cluster(e[2], E)
            BY <3>1
        <3> DEFINE w == e[2]
        <3>3. w \in V /\ w \in Derived
            BY <1>1, <1>2, <2>7, <3>2
        <3>4. Span(w) \subseteq Span(v) /\ v \notin Span(w)
            BY <1>1, <2>6, <3>1, <3>2, ClusterParts
        <3>5. Cardinality(Span(w)) < Cardinality(Span(v))
            <4>1. Span(w) # Span(v)
                BY <3>4
            <4>2. IsFiniteSet(Span(v)) /\ Span(w) \subseteq Span(v)
                BY <2>1, <2>6, <3>4
            <4>3. /\ Cardinality(Span(w)) <= Cardinality(Span(v))
                  /\ Cardinality(Span(w)) = Cardinality(Span(v)) => Span(w) = Span(v)
                <5> HIDE DEF Span, w
                <5> QED BY <4>2, FS_Subset
            <4>4. Cardinality(Span(v)) \in Nat /\ Cardinality(Span(w)) \in Nat
                BY <2>1, <2>6, <3>3
            <4> HIDE DEF Span, w
            <4> QED BY <4>1, <4>3, <4>4
        <3>6. m <= Cardinality(Span(w))
            BY <2>4, <3>3
        <3> HIDE DEF Span, w
        <3> QED BY <2>1, <2>5, <2>6, <3>3, <3>5, <3>6
    <2> QED BY <2>6, <2>7
<1> QED BY <1>3, <1>5, <1>7 DEF WellFounded

\* Of the axioms that dominate another one, or are it, simplify keeps one.
LEMMA DominatingAxiom ==
    ASSUME NEW axioms, axioms \subseteq AxiomType,
           NEW a \in axioms, <<a.head, Proven>> \notin a.body
    PROVE  \E b \in Simplify(axioms) : b.head = a.head /\ b.body \subseteq a.body
<1> DEFINE B == {b \in axioms : /\ b.head = a.head /\ <<b.head, Proven>> \notin b.body
                                /\ b.body \subseteq a.body}
           N == {Cardinality(b.body) : b \in B}
<1>1. \A b \in B : b.body \subseteq Literals /\ IsFiniteSet(b.body) /\ Cardinality(b.body) \in Nat
    BY LiteralsAreFinite, FS_CardinalityType DEF AxiomType, RuleType
<1>2. N \in SUBSET Nat /\ N # {}
    BY <1>1
<1>3. PICK m \in N : \A n \in N : m <= n
    <2> HIDE DEF N
    <2> QED BY <1>2, LeastExists
<1>4. PICK b \in B : m = Cardinality(b.body)
    OBVIOUS
<1>5. ASSUME NEW d \in axioms, d.head = b.head, <<d.head, Proven>> \notin d.body,
             d.body \subseteq b.body, d.body # b.body
      PROVE  FALSE
    <2>1. d \in B
        BY <1>4, <1>5
    <2>2. m <= Cardinality(d.body)
        BY <1>3, <2>1
    <2>3. Cardinality(d.body) <= Cardinality(b.body) /\ Cardinality(d.body) # Cardinality(b.body)
        BY <1>1, <1>4, <1>5, FS_Subset
    <2>4. Cardinality(d.body) \in Nat /\ Cardinality(b.body) \in Nat
        BY <1>1, <1>4, <2>1
    <2> QED BY <1>4, <2>2, <2>3, <2>4
<1> QED BY <1>4, <1>5 DEF Simplify

LEMMA SimplifiedHeads ==
    ASSUME NEW axioms, axioms \subseteq AxiomType, OwnProofs(axioms) = {}
    PROVE  Heads(Simplify(axioms)) = Heads(axioms)
<1>1. Heads(Simplify(axioms)) \subseteq Heads(axioms)
    BY DEF Simplify, Heads
<1>2. ASSUME NEW v \in Heads(axioms)
      PROVE  v \in Heads(Simplify(axioms))
    <2>1. PICK a \in axioms : a.head = v /\ <<v, Proven>> \notin a.body
        BY DEF OwnProofs
    <2>2. PICK b \in Simplify(axioms) : b.head = v
        BY <2>1, DominatingAxiom
    <2> QED BY <2>2 DEF Heads
<1> QED BY <1>1, <1>2

\* Either strategy gives a cluster a layer no lower than its children's, and a higher
\* one than those it reads at their default.
LEMMA AxiomLayersParts ==
    ASSUME NEW axioms, axioms \subseteq RuleType, NEW layer \in AxiomLayers(axioms),
           NEW cl, cl = ClusterOf(axioms)
    PROVE  /\ layer \in [Heads(axioms) -> Nat]
           /\ \A v, w \in Heads(axioms) :
                  /\ cl[v] = cl[w] => layer[v] = layer[w]
                  /\ cl[w] \in Children(axioms, Proven)[cl[v]] => layer[w] <= layer[v]
                  /\ cl[w] \in Children(axioms, Default)[cl[v]] => layer[w] < layer[v]
<1> DEFINE H == Heads(axioms)
           D == {cl[v] : v \in H}
           p == Children(axioms, Proven)
           n == Children(axioms, Default)
<1>1. /\ IsFiniteSet(D) /\ p \in [D -> SUBSET D] /\ n \in [D -> SUBSET D]
      /\ WellFounded(D, p, n)
    BY ChildrenParts
<1>2. PICK f \in {LowestLayers(p, n)} \cup OwnLayers(p, n) : layer = [v \in H |-> f[cl[v]]]
    BY DEF AxiomLayers
<1>3. /\ f \in [D -> Nat]
      /\ \A c \in D : /\ \A d \in p[c] : f[d] <= f[c]
                      /\ \A d \in n[c] : f[d] < f[c]
    <2>1. CASE f = LowestLayers(p, n)
        <3> HIDE DEF D, p, n
        <3> QED BY <1>1, <2>1, LowestLayersParts
    <2>2. CASE f \in OwnLayers(p, n)
        <3>1. DOMAIN p = D
            BY <1>1
        <3> HIDE DEF D, p, n
        <3>2. f \in [D -> 0..Cardinality(D) - 1] /\ Cardinality(D) \in Nat
            BY <1>1, <2>2, <3>1, FS_CardinalityType DEF OwnLayers
        <3>3. f \in [D -> Nat]
            BY <3>2
        <3>4. \A c, d \in D : d \in p[c] \cup n[c] => f[d] < f[c]
            BY <2>2, <3>1 DEF OwnLayers
        <3>5. \A c, d \in D : d \in p[c] => f[d] <= f[c]
            BY <3>3, <3>4
        <3>6. \A c \in D : p[c] \subseteq D /\ n[c] \subseteq D
            BY <1>1
        <3> QED BY <3>3, <3>4, <3>5, <3>6
    <2> QED BY <2>1, <2>2
<1>4. \A v \in H : cl[v] \in D
    OBVIOUS
<1> HIDE DEF D, p, n, H
<1>5. layer \in [H -> Nat] /\ \A v \in H : layer[v] = f[cl[v]]
    BY <1>2, <1>3, <1>4
<1>6. \A v, w \in H :
          /\ cl[v] = cl[w] => layer[v] = layer[w]
          /\ cl[w] \in p[cl[v]] => layer[w] <= layer[v]
          /\ cl[w] \in n[cl[v]] => layer[w] < layer[v]
    BY <1>3, <1>4, <1>5
<1> QED BY <1>5, <1>6 DEF H, p, n

\* What verify_layering_condition asserts of the layers.
LEMMA LayersAreRight ==
    ASSUME NEW axioms, axioms \subseteq AxiomType, Stratifiable(axioms),
           NEW layer \in AxiomLayers(axioms), OwnProofs(axioms) = {}
    PROVE  VerifyLayering(Simplify(axioms), layer)
<1> DEFINE E == AllEdges(axioms)
           cl == ClusterOf(axioms)
           H == Heads(axioms)
<1>1. axioms \subseteq RuleType
    BY DEF AxiomType
<1>2. /\ layer \in [H -> Nat]
      /\ \A v, w \in H :
             /\ cl[v] = cl[w] => layer[v] = layer[w]
             /\ cl[w] \in Children(axioms, Proven)[cl[v]] => layer[w] <= layer[v]
             /\ cl[w] \in Children(axioms, Default)[cl[v]] => layer[w] < layer[v]
    BY <1>1, AxiomLayersParts
<1>3. /\ H \subseteq Derived /\ E \in SUBSET (Derived \X Derived)
      /\ \A value \in {Proven, Default} : EdgesTo(axioms, value) \subseteq E
    BY <1>1, EdgesParts
<1>4. \A v \in H : cl[v] = Cluster(v, E) /\ v \in cl[v]
    BY <1>3, ClusterParts DEF ClusterOf
<1>5. ASSUME NEW value \in {Proven, Default}, NEW e \in EdgesTo(axioms, value),
             NEW v \in H, NEW w \in H, e = <<v, w>>, cl[w] # cl[v]
      PROVE  cl[w] \in Children(axioms, value)[cl[v]]
    <2>1. Children(axioms, value) = [c \in {cl[x] : x \in H} |->
              {cl[f[2]] : f \in {g \in EdgesTo(axioms, value) : g[1] \in c}} \ {c}]
        BY DEF Children
    <2>2. e[1] \in cl[v] /\ cl[e[2]] = cl[w]
        BY <1>4, <1>5
    <2>3. cl[v] \in {cl[x] : x \in H}
        OBVIOUS
    <2> HIDE DEF cl, H
    <2>4. Children(axioms, value)[cl[v]]
            = {cl[f[2]] : f \in {g \in EdgesTo(axioms, value) : g[1] \in cl[v]}} \ {cl[v]}
        BY <2>1, <2>3
    <2> QED BY <1>5, <2>2, <2>4
<1>6. ASSUME NEW a \in axioms, NEW w \in H, NEW value \in {Proven, Default}, <<w, value>> \in a.body
      PROVE  layer[w] <= layer[a.head] /\ (value = Default => layer[w] < layer[a.head])
    <2> DEFINE v == a.head
               e == <<v, w>>
    <2>1. v \in H /\ e \in EdgesTo(axioms, value) /\ v \in Derived
        BY <1>1, <1>6 DEF Heads, EdgesTo, RuleType
    <2>2. layer[v] \in Nat /\ layer[w] \in Nat
        BY <1>2, <2>1
    <2>3. CASE cl[w] = cl[v]
        <3>1. value # Default
            <4>1. ASSUME value = Default
                  PROVE  FALSE
                <5>1. e[2] \notin Cluster(e[1], E)
                    BY <2>1, <4>1 DEF Stratifiable
                <5> QED BY <1>4, <2>1, <2>3, <5>1
            <4> QED BY <4>1
        <3> QED BY <1>2, <2>1, <2>2, <2>3, <3>1
    <2>4. CASE cl[w] # cl[v]
        <3>1. cl[w] \in Children(axioms, value)[cl[v]]
            <4> HIDE DEF cl, H
            <4> QED BY <1>5, <1>6, <2>1, <2>4
        <3>2. CASE value = Proven
            BY <1>2, <2>1, <3>1, <3>2 DEF Proven, Default
        <3>3. CASE value = Default
            BY <1>2, <2>1, <2>2, <3>1, <3>3
        <3> QED BY <3>2, <3>3
    <2> QED BY <2>3, <2>4
<1>7. Heads(Simplify(axioms)) = H /\ Simplify(axioms) \subseteq axioms
    BY SimplifiedHeads DEF Simplify
<1> QED BY <1>2, <1>6, <1>7 DEF VerifyLayering

-----------------------------------------------------------------------------
(* Translation.                                                             *)

\* The heads and bodies of rules for default values.
LEMMA DefaultRuleParts ==
    ASSUME NEW axioms, axioms \subseteq RuleType, NEW observed,
           NEW q \in DefaultValueAxioms(axioms, observed)
    PROVE  /\ q \in RuleType /\ q.value = Default /\ q.head \in Heads(axioms)
           /\ \/ q.body = {} /\ q.head \in RefutedUnconditionally(axioms)
              \/ q.body \in RefutingBodies(axioms, q.head)
<1> DEFINE relevant == RelevantDefaults(axioms, observed)
           given == RefutedUnconditionally(axioms)
<1>1. relevant \subseteq Heads(axioms) /\ Heads(axioms) \subseteq Derived
    BY DEF RelevantDefaults, Heads, RuleType
<1>2. CASE \E v \in relevant \cap given : q = Rule(v, Default, {})
    BY <1>1, <1>2 DEF Rule, RuleType
<1>3. CASE \E v \in relevant \ given : \E B \in RefutingBodies(axioms, v) : q = Rule(v, Default, B)
    <2>1. PICK v \in relevant \ given : \E B \in RefutingBodies(axioms, v) : q = Rule(v, Default, B)
        BY <1>3
    <2>2. PICK B \in RefutingBodies(axioms, v) : q = Rule(v, Default, B)
        BY <2>1
    <2>3. UNION Clauses(axioms, v) \subseteq Literals
        <3>1. ASSUME NEW r \in axioms
              PROVE  Clause(r.body) \subseteq Literals
            <4>1. r.body \subseteq Literals
                BY DEF RuleType
            <4> QED BY <4>1, LiteralParts DEF Clause
        <3> QED BY <3>1 DEF Clauses, Proving
    <2>4. B \subseteq Literals
        BY <2>2, <2>3 DEF RefutingBodies
    <2> QED BY <1>1, <2>1, <2>2, <2>4 DEF Rule, RuleType
<1>4. \/ \E v \in relevant \cap given : q = Rule(v, Default, {})
      \/ \E v \in relevant \ given : \E B \in RefutingBodies(axioms, v) : q = Rule(v, Default, B)
    BY DEF DefaultValueAxioms
<1> QED BY <1>2, <1>3, <1>4

\* A rule for a default value opposes every axiom of its head.
LEMMA DefaultRulesOppose ==
    ASSUME NEW axioms, axioms \subseteq AxiomType, NEW observed,
           NEW kept, kept = Simplify(axioms),
           NEW q \in DefaultValueAxioms(kept, observed), NEW r \in kept, q.head = r.head
    PROVE  Opposed(q.body, r.body)
<1>1. kept \subseteq axioms /\ kept \subseteq RuleType /\ r.value = Proven
    BY DEF Simplify, AxiomType
<1>2. \/ q.body = {} /\ q.head \in RefutedUnconditionally(kept)
      \/ q.body \in RefutingBodies(kept, q.head)
    BY <1>1, DefaultRuleParts
<1>3. CASE q.body = {} /\ q.head \in RefutedUnconditionally(kept)
    <2> DEFINE edges == EdgesTo(kept, Proven)
               first == {e[2] : e \in {f \in edges : f[1] = q.head}}
    <2>1. PICK w \in Derived : w \in Reaches(q.head, edges)
        BY <1>3 DEF RefutedUnconditionally
    <2>2. first # {}
        <3>1. SUFFICES ASSUME first = {}
                       PROVE  FALSE
            OBVIOUS
        <3>2. \A S \in SUBSET Derived : first \subseteq S /\ ClosedUnder(S, edges) => w \in S
            BY <2>1 DEF Reaches, Reached
        <3>3. ClosedUnder({}, edges)
            BY DEF ClosedUnder
        <3> QED BY <3>1, <3>2, <3>3
    <2>3. PICK a \in kept : a.head = q.head /\ a.body # {}
        BY <2>2 DEF EdgesTo
    <2>4. r.body # {}
        <3>1. SUFFICES ASSUME r.body = {}
                       PROVE  FALSE
            OBVIOUS
        <3>2. r \in axioms /\ a \in axioms /\ <<r.head, Proven>> \notin r.body
              /\ r.head = a.head /\ r.body \subseteq a.body /\ r.body # a.body
            BY <1>1, <2>3, <3>1
        <3> QED BY <3>2 DEF Simplify
    <2> QED BY <1>3, <2>4 DEF Opposed
<1>4. CASE q.body \in RefutingBodies(kept, q.head)
    <2>1. Clause(r.body) \in Clauses(kept, q.head)
        BY <1>1 DEF Clauses, Proving
    <2>2. PICK k \in Clause(r.body) : k \in q.body
        BY <1>4, <2>1 DEF RefutingBodies
    <2>3. PICK l \in r.body : k \in {l[1]} \X (Values(l[1]) \ {l[2]})
        BY <2>2 DEF Clause
    <2>4. k[1] = l[1] /\ k # l
        BY <2>3
    <2> QED BY <2>2, <2>3, <2>4 DEF Opposed
<1> QED BY <1>2, <1>3, <1>4

LEMMA TranslationIsSound ==
    ASSUME TypeOK, ClosureInvariant, Translate
    PROVE  TypeOK' /\ ClosureInvariant'
<1> DEFINE remaining == Remaining(input.axioms, input.observed)
           kept == Simplify(remaining)
<1>1. /\ pc = "translate" /\ rules = {} /\ visiting = {} /\ DOMAIN unsatisfied = {}
      /\ UNCHANGED <<input, state, buffer, scratch, evaluations>>
    BY DEF Translate, ClosureInvariant, TaskIsSound, TypeOK
<1>2. \/ pc' \in {"rejected", "panicked"} /\ rules' = {} /\ defaultRules' = defaultRules
      \/ \E layer \in AxiomLayers(remaining) : VerifyLayering(kept, layer) /\ Accept(kept, layer)
    BY <1>1 DEF Translate, Reject
<1>3. remaining \subseteq AxiomType /\ kept \subseteq remaining
    BY DEF TypeOK, InputType, Remaining, Simplify
<1>4. TypeOK' /\ TaskIsSound'
    <2>1. CASE pc' \in {"rejected", "panicked"} /\ rules' = {} /\ defaultRules' = defaultRules
        BY <1>1, <2>1 DEF TypeOK, TaskIsSound, Accepted, Evaluating, scratch
    <2>2. CASE \E layer \in AxiomLayers(remaining) : VerifyLayering(kept, layer) /\ Accept(kept, layer)
        <3>1. PICK layer : VerifyLayering(kept, layer) /\ Accept(kept, layer)
            BY <2>2
        <3> DEFINE defaults == DefaultValueAxioms(kept, input.observed)
        <3>2. /\ pc' = "compare" /\ axiomLayer' = TaskLayers(layer)
              /\ defaultRules' = defaults /\ rules' \in {kept, kept \cup defaults}
            BY <3>1 DEF Accept
        <3>3. kept \subseteq RuleType /\ \A r \in kept : r.value = Proven
            BY <1>3 DEF AxiomType
        <3>4. \A q \in defaults : q \in RuleType /\ q.value = Default /\ q.head \in Heads(kept)
            BY <3>3, DefaultRuleParts
        <3>5. layer \in [Heads(kept) -> Nat] /\ Heads(kept) \subseteq Derived
            BY <3>1, <3>3 DEF VerifyLayering, Heads, RuleType
        <3>6. /\ DOMAIN axiomLayer' = Conditions \cup Heads(kept)
              /\ \A v \in Heads(kept) : axiomLayer'[v] = layer[v] + 1
              /\ axiomLayer' \in [DOMAIN axiomLayer' -> Nat]
              /\ ResetVariables' = Heads(kept)
            <4>1. axiomLayer' = [v \in Conditions \cup Heads(kept) |->
                                    IF v \in Conditions THEN 0 ELSE layer[v] + 1]
                BY <3>2, <3>5 DEF TaskLayers
            <4>2. Heads(kept) \cap Conditions = {}
                BY <3>5, VariablesAssumption
            <4>3. axiomLayer' \in [Conditions \cup Heads(kept) -> Nat]
                BY <3>5, <4>1
            <4>4. ResetVariables' = Heads(kept)
                BY <4>1, <4>2 DEF ResetVariables
            <4> QED BY <4>1, <4>2, <4>3, <4>4
        <3>7. /\ Proving(rules') = kept /\ rules' \ Proving(rules') \subseteq defaults
              /\ Heads(rules') \subseteq Heads(kept)
              /\ rules' \cup defaultRules' \subseteq RuleType
            <4>1. kept \subseteq rules' /\ rules' \subseteq kept \cup defaults
                BY <3>2
            <4>2. Proving(rules') = kept
                BY <3>3, <3>4, <4>1 DEF Proving, Proven, Default
            <4>3. Heads(rules') \subseteq Heads(kept)
                BY <3>4, <4>1 DEF Heads
            <4> QED BY <3>2, <3>3, <3>4, <4>1, <4>2, <4>3
        <3>8. TypeOK'
            BY <1>1, <3>2, <3>5, <3>6, <3>7 DEF TypeOK, Accepted, Evaluating, scratch
        <3>9. ASSUME NEW r \in kept, NEW v \in Heads(kept)
              PROVE  /\ <<v, Proven>> \in r.body => axiomLayer'[v] <= axiomLayer'[r.head]
                     /\ <<v, Default>> \in r.body => axiomLayer'[v] < axiomLayer'[r.head]
            <4>1. r.head \in Heads(kept) /\ layer[v] \in Nat /\ layer[r.head] \in Nat
                BY <3>5 DEF Heads
            <4>2. /\ <<v, Proven>> \in r.body => layer[v] <= layer[r.head]
                  /\ <<v, Default>> \in r.body => layer[v] < layer[r.head]
                BY <3>1 DEF VerifyLayering
            <4> QED BY <3>6, <4>1, <4>2
        <3>10. ASSUME NEW q \in rules' \ Proving(rules'), NEW r \in kept, q.head = r.head
               PROVE  Opposed(q.body, r.body)
            BY <1>3, <3>7, <3>10, DefaultRulesOppose
        <3> QED BY <3>2, <3>6, <3>7, <3>8, <3>9, <3>10 DEF TaskIsSound
    <2> QED BY <1>2, <2>1, <2>2
<1>5. pc' \notin {"trivial", "propagate", "closed"}
    BY <1>2 DEF Accept
<1> QED BY <1>4, <1>5 DEF ClosureInvariant, Evaluating, ClosureIsSupported

-----------------------------------------------------------------------------
(* The other steps.                                                         *)

LEMMA InitIsSound ==
    ASSUME Init
    PROVE  TypeOK /\ ClosureInvariant
<1>1. \A v \in Variables : buffer[v] \in Values(v)
    <2>1. \A v \in Fluents : state[v] \in Values(v)
        BY StatesAssumption DEF Init, StateType
    <2> QED BY <2>1 DEF Init, Values, Default
<1>2. buffer \in [Variables -> FluentValues \cup {0, 1}]
    BY <1>1 DEF Init, Values
<1>3. queue \in Seq(Literals)
    BY EmptySeq DEF Init
<1>4. unsatisfied = [r \in {} |-> 0]
    BY DEF Init
<1>5. TypeOK
    BY <1>1, <1>2, <1>3, <1>4, InputsAssumption, EvaluationsAssumption
       DEF Init, TypeOK, Accepted, Evaluating
<1>6. ClosureInvariant
    BY DEF Init, ClosureInvariant, TaskIsSound, Accepted, Evaluating, ClosureIsSupported
<1> QED BY <1>5, <1>6

\* What does not touch the task keeps it sound.
LEMMA TaskStaysSound ==
    ASSUME ClosureInvariant, UNCHANGED task, pc # "translate" /\ Accepted, Accepted', pc' # "translate"
    PROVE  TaskIsSound'
BY DEF ClosureInvariant, TaskIsSound, task, ResetVariables

LEMMA ComparisonsAreSound ==
    ASSUME TypeOK, ClosureInvariant, EvaluateComparisons \/ ApplyOperator
    PROVE  TypeOK' /\ ClosureInvariant'
<1>1. /\ pc \in {"compare", "closed"} /\ pc' \in {"compare", "closed", "seed"}
      /\ pc' = "closed" => rules = {}
      /\ UNCHANGED <<task, scratch>> /\ state' \in States
      /\ evaluations' \in 0..MaxEvaluations
    BY EvaluationsAssumption DEF EvaluateComparisons, ApplyOperator, TypeOK
<1>2. \A v \in Variables : buffer'[v] \in Values(v)
    <2>1. \A v \in Fluents \cup Conditions : state[v] \in Values(v) /\ state'[v] \in Values(v)
        BY <1>1, StatesAssumption DEF TypeOK, StateType
    <2> QED BY <2>1 DEF EvaluateComparisons, ApplyOperator, TypeOK
<1>3. buffer' \in [Variables -> FluentValues \cup {0, 1}]
    BY <1>2 DEF EvaluateComparisons, ApplyOperator, Values
<1>4. TypeOK'
    BY <1>1, <1>2, <1>3 DEF TypeOK, Accepted, Evaluating, Heads, ResetVariables, task, scratch
<1>5. TaskIsSound'
    BY <1>1, TaskStaysSound DEF Accepted
<1>6. ClosureIsSupported'
    BY <1>1 DEF ClosureIsSupported, Heads, Proving, task
<1> QED BY <1>1, <1>4, <1>5, <1>6 DEF ClosureInvariant, Evaluating

LEMMA SeedIsSound ==
    ASSUME TypeOK, ClosureInvariant, Seed
    PROVE  TypeOK' /\ ClosureInvariant'
<1>1. /\ pc = "seed" /\ Accepted /\ pc' = "trivial" /\ layerNo' = 0
      /\ UNCHANGED <<task, state, literal, evaluations>>
      /\ unsatisfied' = [r \in rules |-> Cardinality(r.body)]
      /\ visiting' = {r \in rules : r.body = {}}
      /\ buffer' = Reset
    BY DEF Seed, Accepted
<1>2. /\ SeedVariables \subseteq Variables \ ResetVariables
      /\ ResetVariables \subseteq Derived /\ ResetVariables \subseteq Variables
      /\ SeedVariables' = SeedVariables /\ ResetVariables' = ResetVariables
      /\ rules' = rules /\ axiomLayer' = axiomLayer
    BY <1>1, TaskParts DEF task, SeedVariables, ResetVariables
<1>3. \A v \in Variables : /\ v \in ResetVariables => buffer'[v] = Default
                           /\ v \notin ResetVariables => buffer'[v] = buffer[v]
                           /\ buffer'[v] \in Values(v)
    BY <1>1, <1>2, LiteralParts DEF Reset, TypeOK
<1>4. buffer' \in [Variables -> FluentValues \cup {0, 1}]
    BY <1>1, <1>3 DEF Reset, Values
<1>5. /\ queue' \in Seq(Literals) /\ NoRepetition(queue')
      /\ Elements(queue') = {<<v, buffer[v]>> : v \in SeedVariables}
    <2>1. PICK order \in Orders(SeedVariables) :
              queue' = [i \in DOMAIN order |-> <<order[i], buffer[order[i]]>>]
        BY DEF Seed
    <2>2. IsFiniteSet(SeedVariables)
        BY <1>2, LiteralsAreFinite
    <2>3. \A v \in SeedVariables : <<v, buffer[v]>> \in Literals
        BY <1>2, LiteralParts DEF TypeOK
    <2>4. DOMAIN order = 1..Cardinality(SeedVariables) /\ \A i \in DOMAIN order : order[i] \in SeedVariables
        BY <2>2, OrderParts
    <2>5. /\ queue' \in [DOMAIN order -> Literals]
          /\ \A i \in DOMAIN order : queue'[i] = <<order[i], buffer[order[i]]>>
        BY <2>1, <2>3, <2>4
    <2> QED BY <2>2, <2>5, OrderedQueue
<1>6. InQueue' = {<<v, buffer[v]>> : v \in SeedVariables} /\ Announced' = InQueue'
    <2>1. InQueue' = {<<v, buffer[v]>> : v \in SeedVariables}
        BY <1>5 DEF InQueue, Elements
    <2>2. {<<v, buffer'[v]>> : v \in SeedVariables} = {<<v, buffer[v]>> : v \in SeedVariables}
        BY <1>2, <1>3
    <2>3. {w \in ResetVariables : buffer'[w] = Proven} = {}
        BY <1>2, <1>3 DEF Proven, Default
    <2>4. {w \in ResetVariables : buffer'[w] = Default /\ axiomLayer[w] < 0} = {}
        BY <1>1, TaskParts
    <2> QED BY <1>1, <1>2, <2>1, <2>2, <2>3, <2>4 DEF Announced
<1>7. \A r \in rules : r.head \in ResetVariables /\ axiomLayer[r.head] \in Nat
                       /\ r.body \subseteq Literals /\ IsFiniteSet(r.body)
                       /\ Cardinality(r.body) \in Nat
    BY <1>1, TaskParts, RuleParts
<1>8. TypeOK'
    BY <1>1, <1>2, <1>3, <1>4, <1>5, <1>7 DEF TypeOK, Accepted, Evaluating, Heads, task
<1>9. TaskIsSound'
    BY <1>1, TaskStaysSound DEF Accepted
<1>10. QueueIsFresh'
    BY <1>1, <1>5, <1>6 DEF QueueIsFresh, NoRepetition
<1>11. VisitsAreDue'
    BY <1>1 DEF VisitsAreDue
<1>12. CountersCount'
    <2>1. ASSUME NEW r \in rules
          PROVE  Outstanding(r)' = r.body
        BY <1>6 DEF Outstanding
    <2> QED BY <1>1, <1>2, <2>1 DEF CountersCount
<1>13. RulesFire'
    BY <1>1, <1>2, <1>7, FS_EmptySet DEF RulesFire, Proving
<1>14. ProvenIsJustified'
    BY <1>2, <1>3 DEF ProvenIsJustified, IsProven, Proven, Default
<1>15. LayersAreSettled'
    BY <1>1, <1>2, <1>7 DEF LayersAreSettled, Proving
<1> QED BY <1>1, <1>8, <1>9, <1>10, <1>11, <1>12, <1>13, <1>14, <1>15
        DEF ClosureInvariant, ClosureIsSupported

LEMMA StartIsSound ==
    ASSUME TypeOK, ClosureInvariant, StartLayers
    PROVE  TypeOK' /\ ClosureInvariant'
<1>1. /\ pc = "trivial" /\ pc' = "propagate" /\ visiting = {}
      /\ Evaluating /\ Accepted
      /\ UNCHANGED <<task, state, buffer, scratch, evaluations>>
    BY DEF StartLayers, Evaluating, Accepted
<1>2. TypeOK'
    BY <1>1 DEF TypeOK, Accepted, Evaluating, Heads, ResetVariables, task, scratch
<1>3. TaskIsSound'
    BY <1>1, TaskStaysSound DEF Accepted
<1>4. Announced' = Announced /\ InQueue' = InQueue /\ rules' = rules /\ unsatisfied' = unsatisfied
      /\ visiting' = {} /\ buffer' = buffer /\ queue' = queue /\ layerNo' = layerNo
      /\ axiomLayer' = axiomLayer /\ ResetVariables' = ResetVariables
    BY <1>1 DEF task, scratch, Announced, InQueue, SeedVariables, ResetVariables
<1>5. QueueIsFresh' /\ VisitsAreDue'
    BY <1>1, <1>4 DEF ClosureInvariant, QueueIsFresh, VisitsAreDue
<1>6. CountersCount'
    <2>1. ASSUME NEW r \in rules
          PROVE  Outstanding(r)' = Outstanding(r)
        BY <1>1, <1>4 DEF Outstanding
    <2> QED BY <1>1, <1>4, <2>1 DEF ClosureInvariant, CountersCount
<1>7. RulesFire' /\ ProvenIsJustified' /\ LayersAreSettled'
    BY <1>1, <1>4 DEF ClosureInvariant, RulesFire, ProvenIsJustified, LayersAreSettled, IsProven
<1> QED BY <1>1, <1>2, <1>3, <1>5, <1>6, <1>7 DEF ClosureInvariant, ClosureIsSupported

LEMMA PopIsSound ==
    ASSUME TypeOK, ClosureInvariant, PopLiteral
    PROVE  TypeOK' /\ ClosureInvariant'
<1>1. /\ pc = "propagate" /\ pc' = "propagate" /\ visiting = {} /\ queue # <<>>
      /\ Evaluating /\ Accepted
      /\ literal' = queue[Len(queue)] /\ queue' = SubSeq(queue, 1, Len(queue) - 1)
      /\ visiting' = {r \in rules : literal' \in r.body}
      /\ UNCHANGED <<task, state, buffer, layerNo, unsatisfied, evaluations>>
    BY DEF PopLiteral, Evaluating, Accepted
<1>2. /\ literal' \in InQueue /\ literal' \in Literals
      /\ queue' \in Seq(Literals) /\ NoRepetition(queue')
      /\ InQueue' = InQueue \ {literal'}
    <2>1. queue \in Seq(Literals) /\ NoRepetition(queue)
        BY <1>1 DEF TypeOK, ClosureInvariant, QueueIsFresh, NoRepetition
    <2>2. InQueue = Elements(queue) /\ InQueue' = Elements(queue')
        BY DEF InQueue, Elements
    <2> QED BY <1>1, <2>1, <2>2, PopLast
<1>3. /\ Announced' = Announced /\ rules' = rules /\ buffer' = buffer /\ layerNo' = layerNo
      /\ axiomLayer' = axiomLayer /\ ResetVariables' = ResetVariables /\ unsatisfied' = unsatisfied
    BY <1>1 DEF task, Announced, SeedVariables, ResetVariables
<1>4. TypeOK'
    BY <1>1, <1>2 DEF TypeOK, Accepted, Evaluating, Heads, ResetVariables, task
<1>5. TaskIsSound'
    BY <1>1, TaskStaysSound DEF Accepted
<1>6. QueueIsFresh /\ CountersCount /\ RulesFire /\ ProvenIsJustified /\ LayersAreSettled
    BY <1>1 DEF ClosureInvariant
<1>7. QueueIsFresh'
    BY <1>1, <1>2, <1>3, <1>6 DEF QueueIsFresh, NoRepetition
<1>8. VisitsAreDue'
    BY <1>1 DEF VisitsAreDue
<1>9. CountersCount'
    <2>1. ASSUME NEW r \in rules
          PROVE  Outstanding(r)' = Outstanding(r)
        BY <1>1, <1>2, <1>3 DEF Outstanding
    <2> QED BY <1>3, <1>6, <2>1 DEF CountersCount
<1>10. RulesFire' /\ ProvenIsJustified' /\ LayersAreSettled'
    BY <1>1, <1>3, <1>6 DEF RulesFire, ProvenIsJustified, LayersAreSettled, IsProven
<1> QED BY <1>1, <1>4, <1>5, <1>7, <1>8, <1>9, <1>10 DEF ClosureInvariant, ClosureIsSupported

LEMMA EnqueueIsSound ==
    ASSUME TypeOK, ClosureInvariant, EnqueueUnproven
    PROVE  TypeOK' /\ ClosureInvariant'
<1>1. /\ pc = "propagate" /\ pc' = "propagate" /\ visiting = {} /\ visiting' = {} /\ queue = <<>>
      /\ Evaluating /\ Accepted /\ layerNo' = layerNo + 1 /\ layerNo \in Nat
      /\ UNCHANGED <<task, state, buffer, literal, unsatisfied, evaluations>>
    BY DEF EnqueueUnproven, Evaluating, Accepted, TypeOK
<1> DEFINE fresh == {<<v, Default>> : v \in Unproven(layerNo)}
<1>2. /\ rules' = rules /\ axiomLayer' = axiomLayer /\ buffer' = buffer
      /\ SeedVariables' = SeedVariables /\ ResetVariables' = ResetVariables
      /\ unsatisfied' = unsatisfied
    BY <1>1 DEF task, SeedVariables, ResetVariables
<1>3. /\ queue' \in Seq(Literals) /\ NoRepetition(queue')
      /\ InQueue' = fresh
    <2>1. PICK order \in Orders(Unproven(layerNo)) :
              queue' = [i \in DOMAIN order |-> <<order[i], Default>>]
        BY DEF EnqueueUnproven
    <2>2. Unproven(layerNo) \subseteq Variables /\ IsFiniteSet(Unproven(layerNo))
          /\ Unproven(layerNo) \subseteq Derived
        BY <1>1, TaskParts, LiteralsAreFinite DEF Unproven
    <2>7. \A v \in Unproven(layerNo) : buffer[v] = Default
        BY DEF Unproven
    <2>3. DOMAIN order = 1..Cardinality(Unproven(layerNo))
          /\ \A i \in DOMAIN order : order[i] \in Unproven(layerNo)
        BY <2>2, OrderParts
    <2>4. /\ queue' \in [DOMAIN order -> Literals]
          /\ \A i \in DOMAIN order : queue'[i] = <<order[i], buffer[order[i]]>>
        BY <2>1, <2>2, <2>3, <2>7, LiteralParts
    <2>5. {<<v, buffer[v]>> : v \in Unproven(layerNo)} = fresh
        BY <2>7
    <2>6. /\ queue' \in Seq(Literals) /\ NoRepetition(queue')
          /\ Elements(queue') = {<<v, buffer[v]>> : v \in Unproven(layerNo)}
        <3>1. queue' \in Seq(Literals)
            BY <2>2, <2>4, OrderedQueue
        <3>2. Elements(queue') = {<<v, buffer[v]>> : v \in Unproven(layerNo)}
            BY <2>2, <2>4, OrderedQueue
        <3>3. Len(queue') = Cardinality(Unproven(layerNo)) /\ Cardinality(Unproven(layerNo)) \in Nat
            <4>1. Cardinality(Unproven(layerNo)) \in Nat
                BY <2>2, FS_CardinalityType
            <4>2. DOMAIN queue' = 1..Cardinality(Unproven(layerNo))
                BY <2>3, <2>4
            <4> QED BY <3>1, <4>1, <4>2, LenProperties
        <3>4. NoRepetition(queue')
            BY <2>2, <2>3, <2>4, <3>3, OrderParts DEF NoRepetition
        <3> QED BY <3>1, <3>2, <3>4
    <2> QED BY <2>5, <2>6 DEF InQueue, Elements
<1>4. InQueue = {}
    BY <1>1 DEF InQueue
<1>5. Announced' = Announced \cup fresh /\ fresh \cap Announced = {}
    <2>1. {w \in ResetVariables : buffer[w] = Default /\ axiomLayer[w] < layerNo + 1}
            = {w \in ResetVariables : buffer[w] = Default /\ axiomLayer[w] < layerNo}
              \cup Unproven(layerNo)
        BY <1>1, TaskParts DEF Unproven
    <2>2. Announced' = Announced \cup fresh
        BY <1>1, <1>2, <2>1 DEF Announced
    <2>3. ASSUME NEW v \in Unproven(layerNo)
          PROVE  <<v, Default>> \notin Announced
        <3>1. v \in ResetVariables /\ axiomLayer[v] = layerNo /\ v \notin SeedVariables
              /\ <<v, Default>> \in Literals
            BY <1>1, TaskParts, LiteralParts DEF Unproven
        <3> QED BY <1>1, <3>1, AnnouncedParts DEF Proven, Default
    <2> QED BY <2>2, <2>3
<1>6. TypeOK'
    BY <1>1, <1>3 DEF TypeOK, Accepted, Evaluating, Heads, ResetVariables, task
<1>7. TaskIsSound'
    BY <1>1, TaskStaysSound DEF Accepted
<1>8. QueueIsFresh /\ CountersCount /\ RulesFire /\ ProvenIsJustified
    BY <1>1 DEF ClosureInvariant
<1>9. QueueIsFresh' /\ VisitsAreDue'
    BY <1>1, <1>3, <1>5 DEF QueueIsFresh, VisitsAreDue, NoRepetition
<1>10. CountersCount'
    <2>1. ASSUME NEW r \in rules
          PROVE  Outstanding(r)' = Outstanding(r)
        BY <1>1, <1>2, <1>3, <1>4, <1>5 DEF Outstanding
    <2> QED BY <1>2, <1>8, <2>1 DEF CountersCount
<1>11. RulesFire' /\ ProvenIsJustified'
    BY <1>1, <1>2, <1>5, <1>8 DEF RulesFire, ProvenIsJustified, IsProven
<1>12. LayersAreSettled'
    <2>1. ASSUME NEW r \in Proving(rules), axiomLayer[r.head] < layerNo + 1
          PROVE  IsProven(r.head) \/ \E l \in r.body : buffer[l[1]] # l[2]
        <3>1. axiomLayer[r.head] <= layerNo
            BY <1>1, <2>1, TaskParts DEF Proving
        <3> QED BY <1>1, <3>1, FixpointSettles
    <2> QED BY <1>1, <1>2, <2>1 DEF LayersAreSettled, IsProven
<1> QED BY <1>1, <1>6, <1>7, <1>9, <1>10, <1>11, <1>12 DEF ClosureInvariant, ClosureIsSupported

LEMMA FinishIsSound ==
    ASSUME TypeOK, ClosureInvariant, FinishClosure
    PROVE  TypeOK' /\ ClosureInvariant'
<1>1. /\ pc = "propagate" /\ pc' = "closed" /\ visiting = {} /\ queue = <<>>
      /\ Evaluating /\ Accepted /\ IsLastLayer(layerNo)
      /\ UNCHANGED <<task, state, buffer, scratch, evaluations>>
    BY DEF FinishClosure, Evaluating, Accepted
<1>2. TypeOK'
    BY <1>1 DEF TypeOK, Accepted, Evaluating, Heads, ResetVariables, task, scratch
<1>3. TaskIsSound'
    BY <1>1, TaskStaysSound DEF Accepted
<1>4. ASSUME NEW v \in Heads(Proving(rules))
      PROVE  IsProven(v) <=> \E r \in Proving(rules) :
                                 r.head = v /\ \A l \in r.body : buffer[l[1]] = l[2]
    <2>1. v \in ResetVariables
        BY <1>1, TaskParts DEF Heads, Proving
    <2>2. ASSUME IsProven(v)
          PROVE  \E r \in Proving(rules) : r.head = v /\ \A l \in r.body : buffer[l[1]] = l[2]
        <3>1. PICK r \in Proving(rules) : r.head = v /\ r.body \subseteq Announced
            BY <1>1, <2>1, <2>2 DEF ClosureInvariant, ProvenIsJustified
        <3> QED BY <1>1, <3>1, AnnouncedParts
    <2>3. ASSUME NEW r \in Proving(rules), r.head = v, \A l \in r.body : buffer[l[1]] = l[2]
          PROVE  IsProven(v)
        <3>1. axiomLayer[r.head] <= layerNo
            BY <1>1, <2>1, <2>3 DEF IsLastLayer, ResetVariables
        <3> QED BY <1>1, <2>3, <3>1, FixpointSettles
    <2> QED BY <2>2, <2>3
<1>5. ClosureIsSupported'
    BY <1>1, <1>4 DEF ClosureIsSupported, IsProven, task
<1> QED BY <1>1, <1>2, <1>3, <1>5 DEF ClosureInvariant, Evaluating

-----------------------------------------------------------------------------
(* The theorems.                                                            *)

LEMMA StepsAreSound ==
    ASSUME TypeOK, ClosureInvariant, [Next]_vars
    PROVE  TypeOK' /\ ClosureInvariant'
<1>1. CASE \E r \in visiting : FireTrivial(r) \/ SatisfyCondition(r)
    BY <1>1, DerivationKeepsInvariant
<1>2. CASE UNCHANGED vars
    <2>1. TypeOK'
        BY <1>2 DEF vars, task, scratch, TypeOK, Accepted, Evaluating, Heads, ResetVariables
    <2>2. /\ rules' = rules /\ axiomLayer' = axiomLayer /\ pc' = pc /\ buffer' = buffer
          /\ layerNo' = layerNo /\ queue' = queue /\ literal' = literal
          /\ visiting' = visiting /\ unsatisfied' = unsatisfied
        BY <1>2 DEF vars, task, scratch
    <2>3. Announced' = Announced /\ InQueue' = InQueue /\ ResetVariables' = ResetVariables
        BY <2>2 DEF Announced, InQueue, SeedVariables, ResetVariables
    <2>4. TaskIsSound' <=> TaskIsSound
        BY <2>2, <2>3 DEF TaskIsSound, Accepted
    <2>5. /\ QueueIsFresh' <=> QueueIsFresh
          /\ VisitsAreDue' <=> VisitsAreDue
        BY <2>2, <2>3 DEF QueueIsFresh, VisitsAreDue
    <2>6. CountersCount' <=> CountersCount
        BY <2>2, <2>3 DEF CountersCount, Outstanding
    <2>7. /\ RulesFire' <=> RulesFire
          /\ ProvenIsJustified' <=> ProvenIsJustified
          /\ LayersAreSettled' <=> LayersAreSettled
          /\ ClosureIsSupported' <=> ClosureIsSupported
        BY <2>2, <2>3 DEF RulesFire, ProvenIsJustified, LayersAreSettled, ClosureIsSupported, IsProven
    <2> QED BY <2>1, <2>2, <2>4, <2>5, <2>6, <2>7 DEF ClosureInvariant, Evaluating
<1>3. CASE Translate
    BY <1>3, TranslationIsSound
<1>4. CASE EvaluateComparisons \/ ApplyOperator
    BY <1>4, ComparisonsAreSound
<1>5. CASE Seed
    BY <1>5, SeedIsSound
<1>6. CASE StartLayers
    BY <1>6, StartIsSound
<1>7. CASE PopLiteral
    BY <1>7, PopIsSound
<1>8. CASE EnqueueUnproven
    BY <1>8, EnqueueIsSound
<1>9. CASE FinishClosure
    BY <1>9, FinishIsSound
<1> QED BY <1>1, <1>2, <1>3, <1>4, <1>5, <1>6, <1>7, <1>8, <1>9 DEF Next

\* Types: in particular no counter of unsatisfied conditions goes below zero, where it
\* would wrap around (propagate_horn_rules).
THEOREM AxiomTypesOK == Spec => []TypeOK
<1>1. Init => TypeOK /\ ClosureInvariant
    BY InitIsSound
<1>2. TypeOK /\ ClosureInvariant /\ [Next]_vars => (TypeOK /\ ClosureInvariant)'
    BY StepsAreSound
<1> QED BY <1>1, <1>2, PTL DEF Spec

\* The queue announces each literal once, the counters are exact, and layers that are
\* done stay as they are.
THEOREM ClosureIsInvariant == Spec => []ClosureInvariant
<1>1. Init => TypeOK /\ ClosureInvariant
    BY InitIsSound
<1>2. TypeOK /\ ClosureInvariant /\ [Next]_vars => (TypeOK /\ ClosureInvariant)'
    BY StepsAreSound
<1> QED BY <1>1, <1>2, PTL DEF Spec

\* A closed state proves a derived variable exactly if one of its axioms holds.
THEOREM ClosureSupported == Spec => []ClosureIsSupported
<1>1. ClosureInvariant => ClosureIsSupported
    BY DEF ClosureInvariant
<1> QED BY <1>1, ClosureIsInvariant, PTL

\* Rules for default values are inert: what evaluate_propositional_axioms argues for.
THEOREM NoRetraction == Spec => NothingIsRetracted
<1>1. ASSUME TypeOK, ClosureInvariant, [Next]_vars, Evaluating, NEW v \in Derived, IsProven(v)
      PROVE  buffer'[v] = Proven
    <2>1. v \in Variables
        BY LiteralParts
    <2>2. CASE \E r \in visiting : FireTrivial(r) \/ SatisfyCondition(r)
        BY <1>1, <2>1, <2>2, DerivationKeepsProofs
    <2>3. CASE UNCHANGED buffer
        BY <1>1, <2>3 DEF IsProven
    <2>4. UNCHANGED buffer \/ \E r \in visiting : FireTrivial(r) \/ SatisfyCondition(r)
        BY <1>1 DEF Next, vars, Evaluating, Translate, EvaluateComparisons, Seed, StartLayers,
            PopLiteral, EnqueueUnproven, FinishClosure, ApplyOperator
    <2> QED BY <2>2, <2>3, <2>4
<1>2. TypeOK /\ ClosureInvariant /\ [Next]_vars
        => [Evaluating => \A v \in Derived : IsProven(v) => buffer'[v] = Proven]_vars
    BY <1>1
<1> QED BY <1>2, AxiomTypesOK, ClosureIsInvariant, PTL DEF Spec, NothingIsRetracted

-----------------------------------------------------------------------------
(* The stable model.  What is proven is derivable: it is in every set that   *)
(* the rules close, reading only what was announced of the other literals.   *)
(* What is derivable is proven, because a closed buffer supports it.         *)

\* Every variable with a layer has one of the axioms that simplify left.
TaskIsSimplified ==
    Accepted =>
        LET remaining == Remaining(input.axioms, input.observed)
        IN  /\ Proving(rules) = Simplify(remaining)
            /\ ResetVariables = Heads(remaining)
            /\ Heads(Simplify(remaining)) = Heads(remaining)

\* The buffer holds the state, from the comparisons on its conditions too; derived
\* variables without axioms are never written.
BufferHoldsState ==
    /\ \A v \in Fluents : buffer[v] = state[v]
    /\ Evaluating \/ pc \in {"seed", "closed"} => \A v \in Conditions : buffer[v] = state[v]
    /\ \A v \in Derived : ~ (Accepted /\ v \in ResetVariables) => buffer[v] = Default

IsClosedUnderRules(S) ==
    \A r \in Proving(rules) :
        (\A l \in r.body : IF Positive(l) THEN l[1] \in S ELSE l \in Announced) => r.head \in S

ProvenIsDerivable ==
    Evaluating \/ pc = "closed" =>
        \A S \in SUBSET Derived : IsClosedUnderRules(S) =>
            \A v \in ResetVariables : IsProven(v) => v \in S

StableInvariant == TaskIsSimplified /\ BufferHoldsState /\ ProvenIsDerivable

LEMMA InitIsStable ==
    ASSUME Init
    PROVE  StableInvariant
<1>1. pc = "translate" /\ ~ Accepted /\ ~ Evaluating
    BY DEF Init, Accepted, Evaluating
<1>2. \A v \in Fluents : v \in Variables /\ buffer[v] = state[v]
    BY DEF Init, Variables
<1>3. \A v \in Derived : buffer[v] = Default
    BY VariablesAssumption DEF Init, Variables
<1> QED BY <1>1, <1>2, <1>3 DEF StableInvariant, TaskIsSimplified, BufferHoldsState, ProvenIsDerivable

LEMMA TranslationSimplifies ==
    ASSUME TypeOK, ClosureInvariant, StableInvariant, Translate
    PROVE  StableInvariant'
<1> DEFINE remaining == Remaining(input.axioms, input.observed)
           kept == Simplify(remaining)
<1>1. /\ pc = "translate" /\ pc' \notin {"translate", "seed", "trivial", "propagate", "closed"}
      /\ input' = input /\ state' = state /\ buffer' = buffer
    BY DEF Translate, Reject, Accept
<1>2. \A v \in Derived : buffer[v] = Default
    BY <1>1 DEF StableInvariant, BufferHoldsState, Accepted
<1>3. ASSUME Accepted'
      PROVE  /\ Proving(rules') = kept /\ ResetVariables' = Heads(remaining)
             /\ Heads(kept) = Heads(remaining)
    <2>1. PICK layer \in AxiomLayers(remaining) : VerifyLayering(kept, layer) /\ Accept(kept, layer)
        BY <1>3 DEF Translate, Reject, Accepted
    <2>2. DOMAIN layer = Heads(remaining)
        BY DEF AxiomLayers
    <2>3. DOMAIN layer = Heads(kept)
        BY <2>1 DEF VerifyLayering
    <2>4. remaining \subseteq AxiomType /\ kept \subseteq remaining
        BY DEF TypeOK, InputType, Remaining, Simplify
    <2>5. \A q \in DefaultValueAxioms(kept, input.observed) : q.value = Default
        BY <2>4, DefaultRuleParts DEF AxiomType
    <2>6. Proving(rules') = kept
        BY <2>1, <2>4, <2>5 DEF Accept, Proving, AxiomType, Proven, Default
    <2>7. ResetVariables' = Heads(remaining)
        <3>1. Heads(remaining) \cap Conditions = {}
            BY <2>4, VariablesAssumption DEF Heads, AxiomType, RuleType
        <3>2. axiomLayer' = [v \in Conditions \cup DOMAIN layer |->
                                IF v \in Conditions THEN 0 ELSE layer[v] + 1]
            BY <2>1 DEF Accept, TaskLayers
        <3> QED BY <2>2, <3>1, <3>2 DEF ResetVariables
    <2> QED BY <2>2, <2>3, <2>6, <2>7
<1>4. TaskIsSimplified'
    BY <1>1, <1>3 DEF TaskIsSimplified
<1>5. BufferHoldsState'
    BY <1>1, <1>2 DEF StableInvariant, BufferHoldsState, Evaluating
<1> QED BY <1>1, <1>4, <1>5 DEF StableInvariant, ProvenIsDerivable, Evaluating

\* No other step changes the task.
LEMMA TaskStaysSimplified ==
    ASSUME StableInvariant, UNCHANGED task, Accepted' => Accepted
    PROVE  TaskIsSimplified' /\ ResetVariables' = ResetVariables /\ Proving(rules') = Proving(rules)
BY DEF StableInvariant, TaskIsSimplified, task, ResetVariables

LEMMA ComparisonsKeepStable ==
    ASSUME TypeOK, StableInvariant, EvaluateComparisons \/ ApplyOperator
    PROVE  StableInvariant'
<1>1. /\ pc \in {"compare", "closed"} /\ pc' \in {"compare", "closed", "seed"} /\ UNCHANGED task
      /\ Accepted /\ Accepted' /\ ~ Evaluating'
    BY DEF EvaluateComparisons, ApplyOperator, Accepted, Evaluating
<1>2. TaskIsSimplified' /\ ResetVariables' = ResetVariables
    BY <1>1, TaskStaysSimplified
<1>3. BufferHoldsState'
    <2>1. /\ \A v \in Fluents : v \in Variables /\ v \notin Conditions
          /\ \A v \in Conditions : v \in Variables
          /\ \A v \in Derived : v \in Variables /\ v \notin Fluents /\ v \notin Conditions
        BY VariablesAssumption DEF Variables
    <2>2. CASE EvaluateComparisons
        BY <1>1, <1>2, <2>1, <2>2 DEF EvaluateComparisons, StableInvariant, BufferHoldsState
    <2>3. CASE ApplyOperator
        <3>1. pc' = "compare"
            BY <2>3 DEF ApplyOperator
        <3> QED BY <1>1, <1>2, <2>1, <2>3, <3>1 DEF ApplyOperator, StableInvariant, BufferHoldsState
    <2> QED BY <2>2, <2>3
<1>4. ProvenIsDerivable'
    <2>1. SUFFICES ASSUME pc' = "closed"
                   PROVE  ResetVariables = {}
        BY <1>1, <1>2 DEF ProvenIsDerivable, IsProven
    <2>2. rules = {}
        BY <2>1 DEF EvaluateComparisons, ApplyOperator
    <2>3. Proving(rules) = {}
        BY <2>2 DEF Proving
    <2> QED BY <1>1, <2>3 DEF StableInvariant, TaskIsSimplified, Heads
<1> QED BY <1>2, <1>3, <1>4 DEF StableInvariant

LEMMA SeedKeepsStable ==
    ASSUME TypeOK, StableInvariant, Seed
    PROVE  StableInvariant'
<1>1. /\ pc = "seed" /\ pc' = "trivial" /\ UNCHANGED task /\ state' = state /\ buffer' = Reset
      /\ Accepted /\ Accepted' /\ Evaluating'
    BY DEF Seed, Accepted, Evaluating
<1>2. TaskIsSimplified' /\ ResetVariables' = ResetVariables
    BY <1>1, TaskStaysSimplified
<1>3. /\ \A v \in Fluents : v \in Variables /\ v \notin ResetVariables
      /\ \A v \in Conditions : v \in Variables /\ v \notin ResetVariables
      /\ \A v \in Derived : v \in Variables
      /\ \A v \in ResetVariables : v \in Variables
    BY <1>1, TaskParts, VariablesAssumption DEF Variables
<1>4. \A v \in Variables : buffer'[v] = IF v \in ResetVariables THEN Default ELSE buffer[v]
    BY <1>1 DEF Reset
<1>5. BufferHoldsState'
    BY <1>1, <1>2, <1>3, <1>4 DEF StableInvariant, BufferHoldsState
<1>6. ProvenIsDerivable'
    BY <1>2, <1>3, <1>4 DEF ProvenIsDerivable, IsProven, Proven, Default
<1> QED BY <1>2, <1>5, <1>6 DEF StableInvariant

\* What is proven has a rule whose body was announced: its positive literals are
\* derivable already.
LEMMA DerivationKeepsStable ==
    ASSUME TypeOK, ClosureInvariant, StableInvariant,
           NEW r \in visiting, FireTrivial(r) \/ SatisfyCondition(r)
    PROVE  StableInvariant'
<1>1. /\ Derives(r) /\ r \in rules
      /\ ProvesHead(r) \/ UNCHANGED <<buffer, queue>>
    BY DerivationEffect
<1>2. /\ pc' = pc /\ UNCHANGED task /\ Evaluating /\ Evaluating' /\ Accepted /\ Accepted'
      /\ state' = state
    BY <1>1 DEF Derives, Evaluating, Accepted, FireTrivial, SatisfyCondition
<1>3. TaskIsSimplified' /\ ResetVariables' = ResetVariables /\ Proving(rules') = Proving(rules)
    BY <1>2, TaskStaysSimplified
<1>4. \A v \in Variables : \/ buffer'[v] = buffer[v]
                           \/ v = r.head /\ buffer'[v] = Proven /\ ProvesHead(r)
    BY DerivationGrows
<1>5. r.head \in ResetVariables /\ r.head \in Derived
    BY <1>1, <1>2, TaskParts, RuleParts
<1>6. Announced \subseteq Announced'
    BY DerivationGrows
<1>7. BufferHoldsState'
    <2>1. /\ \A v \in Fluents \cup Conditions : v \in Variables /\ v # r.head
          /\ \A v \in Derived : v \in Variables
        BY <1>5, VariablesAssumption DEF Variables
    <2> QED BY <1>2, <1>3, <1>4, <1>5, <2>1 DEF StableInvariant, BufferHoldsState
<1>8. ASSUME NEW S \in SUBSET Derived, IsClosedUnderRules(S)',
             NEW v \in ResetVariables, buffer'[v] = Proven
      PROVE  v \in S
    <2>1. IsClosedUnderRules(S)
        BY <1>3, <1>6, <1>8 DEF IsClosedUnderRules
    <2>2. \A w \in ResetVariables : IsProven(w) => w \in S
        BY <1>2, <2>1 DEF StableInvariant, ProvenIsDerivable
    <2>3. v \in Variables
        BY <1>2, TaskParts
    <2>4. CASE buffer'[v] = buffer[v]
        BY <1>8, <2>2, <2>4 DEF IsProven
    <2>5. CASE v = r.head /\ ProvesHead(r)
        <3>1. r \in Proving(rules) /\ r.body \subseteq Announced
            BY <1>1, <2>5 DEF ProvesHead, Proving
        <3>2. ASSUME NEW l \in r.body, Positive(l)
              PROVE  l[1] \in S
            <4>1. l[1] \in Derived /\ buffer[l[1]] = Proven
                BY <1>2, <3>1, <3>2, AnnouncedParts DEF Positive
            <4>2. l[1] \in ResetVariables
                BY <4>1 DEF StableInvariant, BufferHoldsState, Proven, Default
            <4> QED BY <2>2, <4>1, <4>2 DEF IsProven
        <3> QED BY <2>1, <2>5, <3>1, <3>2 DEF IsClosedUnderRules
    <2> QED BY <1>4, <2>3, <2>4, <2>5
<1>9. ProvenIsDerivable'
    BY <1>3, <1>8 DEF ProvenIsDerivable, IsProven
<1> QED BY <1>3, <1>7, <1>9 DEF StableInvariant

\* The other steps leave the buffer alone and take back no announcement.
LEMMA LayersKeepStable ==
    ASSUME TypeOK, StableInvariant, Evaluating,
           StartLayers \/ PopLiteral \/ EnqueueUnproven \/ FinishClosure
    PROVE  StableInvariant'
<1>1. /\ UNCHANGED <<task, state, buffer>>
      /\ Evaluating' \/ pc' = "closed"
      /\ layerNo' \in {layerNo, layerNo + 1} /\ Accepted /\ Accepted'
    BY DEF StartLayers, PopLiteral, EnqueueUnproven, FinishClosure, scratch, Evaluating, Accepted
<1>2. TaskIsSimplified' /\ ResetVariables' = ResetVariables /\ Proving(rules') = Proving(rules)
    BY <1>1, TaskStaysSimplified
<1>3. BufferHoldsState'
    BY <1>1, <1>2 DEF StableInvariant, BufferHoldsState
<1>4. Announced \subseteq Announced'
    <2>1. SeedVariables' = SeedVariables /\ axiomLayer' = axiomLayer /\ buffer' = buffer
        BY <1>1 DEF task, SeedVariables, ResetVariables
    <2>2. \A w \in ResetVariables : axiomLayer[w] < layerNo => axiomLayer[w] < layerNo'
        BY <1>1, TaskParts DEF TypeOK
    <2> QED BY <1>2, <2>1, <2>2 DEF Announced
<1>5. ASSUME NEW S \in SUBSET Derived, IsClosedUnderRules(S)'
      PROVE  \A v \in ResetVariables : IsProven(v) => v \in S
    <2>1. IsClosedUnderRules(S)
        BY <1>2, <1>4, <1>5 DEF IsClosedUnderRules
    <2> QED BY <2>1 DEF StableInvariant, ProvenIsDerivable
<1>6. ProvenIsDerivable'
    BY <1>1, <1>2, <1>5 DEF ProvenIsDerivable, IsProven
<1> QED BY <1>2, <1>3, <1>6 DEF StableInvariant

LEMMA StepsKeepStable ==
    ASSUME TypeOK, ClosureInvariant, StableInvariant, [Next]_vars
    PROVE  StableInvariant'
<1>1. CASE \E r \in visiting : FireTrivial(r) \/ SatisfyCondition(r)
    BY <1>1, DerivationKeepsStable
<1>2. CASE UNCHANGED vars
    <2>1. /\ UNCHANGED <<input, rules, axiomLayer, state, buffer, pc, layerNo>>
        BY <1>2 DEF vars, task, scratch
    <2>2. ResetVariables' = ResetVariables /\ Announced' = Announced
        BY <2>1 DEF ResetVariables, SeedVariables, Announced
    <2>3. TaskIsSimplified' /\ BufferHoldsState'
        BY <2>1, <2>2 DEF StableInvariant, TaskIsSimplified, BufferHoldsState, Accepted, Evaluating
    <2>4. ProvenIsDerivable'
        BY <2>1, <2>2 DEF StableInvariant, ProvenIsDerivable, IsClosedUnderRules, IsProven, Evaluating
    <2> QED BY <2>3, <2>4 DEF StableInvariant
<1>3. CASE Translate
    BY <1>3, TranslationSimplifies
<1>4. CASE EvaluateComparisons \/ ApplyOperator
    BY <1>4, ComparisonsKeepStable
<1>5. CASE Seed
    BY <1>5, SeedKeepsStable
<1>6. CASE StartLayers \/ PopLiteral \/ EnqueueUnproven \/ FinishClosure
    <2>1. Evaluating
        BY <1>6 DEF StartLayers, PopLiteral, EnqueueUnproven, FinishClosure, Evaluating
    <2> QED BY <1>6, <2>1, LayersKeepStable
<1> QED BY <1>1, <1>2, <1>3, <1>4, <1>5, <1>6 DEF Next

LEMMA ClosedIsStable ==
    ASSUME TypeOK, ClosureInvariant, StableInvariant, pc = "closed"
    PROVE  ClosureIsStable
<1> DEFINE R == Remaining(input.axioms, input.observed)
           T == {v \in Heads(R) : IsProven(v)}
<1>1. /\ Accepted /\ Proving(rules) = Simplify(R) /\ ResetVariables = Heads(R)
      /\ Heads(Simplify(R)) = Heads(R)
    BY DEF Accepted, StableInvariant, TaskIsSimplified
<1>2. R \subseteq AxiomType /\ Simplify(R) \subseteq R /\ Heads(R) \subseteq Derived
    BY DEF TypeOK, InputType, Remaining, Simplify, AxiomType, RuleType, Heads
<1>3. ASSUME NEW v \in T, NEW S \in SUBSET Derived, IsClosed(S, Applicable(R))
      PROVE  v \in S
    <2>1. ASSUME NEW r \in Proving(rules),
                 \A l \in r.body : IF Positive(l) THEN l[1] \in S ELSE l \in Announced
          PROVE  r.head \in S
        <3>1. \A l \in r.body : ~ Positive(l) => buffer[l[1]] = l[2]
            BY <1>1, <2>1, AnnouncedParts
        <3>2. r \in Applicable(R)
            BY <1>1, <1>2, <3>1 DEF Applicable
        <3> QED BY <1>3, <2>1, <3>2 DEF IsClosed
    <2>2. IsClosedUnderRules(S)
        BY <2>1 DEF IsClosedUnderRules
    <2> QED BY <1>1, <2>2 DEF StableInvariant, ProvenIsDerivable
<1>4. ASSUME NEW a \in Applicable(R), \A l \in a.body : Positive(l) => l[1] \in T
      PROVE  a.head \in T
    <2>1. a \in R /\ a.head \in Heads(R) /\ a.head \in Derived
        BY <1>2 DEF Applicable, Heads
    <2>2. CASE <<a.head, Proven>> \in a.body
        BY <1>4, <2>1, <2>2 DEF Positive
    <2>3. CASE <<a.head, Proven>> \notin a.body
        <3>1. PICK b \in Simplify(R) : b.head = a.head /\ b.body \subseteq a.body
            BY <1>2, <2>1, <2>3, DominatingAxiom
        <3>2. \A l \in a.body : buffer[l[1]] = l[2]
            BY <1>4 DEF Applicable, Positive, IsProven
        <3>3. a.head \in Heads(Proving(rules)) /\ b \in Proving(rules)
            BY <1>1, <2>1, <3>1
        <3>4. IsProven(a.head)
            BY <3>1, <3>2, <3>3 DEF ClosureInvariant, ClosureIsSupported
        <3> QED BY <2>1, <3>4
    <2> QED BY <2>2, <2>3
<1>5. T = Least(R)
    <2>1. \A v : v \in Least(R) <=>
              v \in Derived /\ \A S \in SUBSET Derived : IsClosed(S, Applicable(R)) => v \in S
        BY DEF Least
    <2>2. T \subseteq Derived /\ IsClosed(T, Applicable(R))
        BY <1>2, <1>4 DEF IsClosed
    <2> HIDE DEF R, T
    <2> QED BY <1>3, <2>1, <2>2
<1>6. \A v \in Fluents \cup Conditions : buffer[v] = state[v]
    BY DEF StableInvariant, BufferHoldsState
<1> QED BY <1>5, <1>6 DEF ClosureIsStable

\* A closed state is the stable model of the axioms that matter, whatever their layers,
\* the order of rules and literals, and what was derived for the state before.
THEOREM ClosureIsStableAlways == Spec => []ClosureIsStable
<1>1. Init => TypeOK /\ ClosureInvariant /\ StableInvariant
    BY InitIsSound, InitIsStable
<1>2. TypeOK /\ ClosureInvariant /\ StableInvariant /\ [Next]_vars
        => (TypeOK /\ ClosureInvariant /\ StableInvariant)'
    BY StepsAreSound, StepsKeepStable
<1>3. TypeOK /\ ClosureInvariant /\ StableInvariant => ClosureIsStable
    BY ClosedIsStable DEF ClosureIsStable
<1> QED BY <1>1, <1>2, <1>3, PTL DEF Spec

-----------------------------------------------------------------------------
(* The assertions of verify_layering_condition.                             *)

LEMMA PanicsAreOwnProofs ==
    ASSUME TypeOK, LayersAreVerified, [Next]_vars
    PROVE  LayersAreVerified'
<1> DEFINE R == Remaining(input.axioms, input.observed)
<1>1. CASE Translate
    <2>1. SUFFICES ASSUME pc' = "panicked"
                   PROVE  OwnProofs(R) # {}
        BY <1>1 DEF LayersAreVerified, Translate
    <2>2. /\ Stratifiable(R)
          /\ \E layer \in AxiomLayers(R) : ~ VerifyLayering(Simplify(R), layer)
        BY <1>1, <2>1 DEF Translate, Reject, Accept
    <2>3. R \subseteq AxiomType
        BY DEF TypeOK, InputType, Remaining
    <2> QED BY <2>2, <2>3, LayersAreRight
<1>2. CASE pc' # "panicked"
    BY <1>2 DEF LayersAreVerified
<1>3. CASE UNCHANGED <<pc, input>>
    BY <1>3 DEF LayersAreVerified
<1>4. Translate \/ pc' # "panicked" \/ UNCHANGED <<pc, input>>
    BY DEF Next, vars, task, EvaluateComparisons, Seed, FireTrivial, SatisfyCondition, StartLayers,
        PopLiteral, EnqueueUnproven, FinishClosure, ApplyOperator
<1> QED BY <1>1, <1>2, <1>3, <1>4

\* Layers always pass their assertions; handle_axioms panics at most for a variable
\* whose axioms all read the variable itself.
THEOREM LayersAreVerifiedAlways == Spec => []LayersAreVerified
<1>1. Init => LayersAreVerified
    BY DEF Init, LayersAreVerified
<1>2. TypeOK /\ LayersAreVerified /\ [Next]_vars => LayersAreVerified'
    BY PanicsAreOwnProofs
<1> QED BY <1>1, <1>2, AxiomTypesOK, PTL DEF Spec

\* Every head has a proof if nothing is ever false: what a delete relaxation reaches.
IsGrounded(axioms) == \A S \in SUBSET Derived : IsClosed(S, axioms) => Heads(axioms) \subseteq S

LEMMA GroundedHasNoOwnProofs ==
    ASSUME NEW axioms \in SUBSET AxiomType, NEW observed, IsGrounded(axioms)
    PROVE  OwnProofs(Remaining(axioms, observed)) = {}
<1> SUFFICES ASSUME NEW v \in OwnProofs(Remaining(axioms, observed))
             PROVE  FALSE
    OBVIOUS
<1>1. /\ v \in Heads(axioms) /\ v \in Derived
      /\ \A a \in axioms : a.head = v => <<v, Proven>> \in a.body
    BY DEF OwnProofs, Remaining, Heads, AxiomType, RuleType
<1>2. IsClosed(Derived \ {v}, axioms)
    BY <1>1 DEF IsClosed, Positive, AxiomType, RuleType
<1> QED BY <1>1, <1>2 DEF IsGrounded

\* handle_axioms never panics for axioms whose heads are all reached in a relaxation.
\* (Grounding explores that relaxation, but drops axioms that a static literal refutes
\* only afterwards: it gives no such promise where an axiom negates a static literal.)
THEOREM GroundedNeverPanics == Spec => [](IsGrounded(input.axioms) => pc # "panicked")
<1>1. TypeOK /\ LayersAreVerified => (IsGrounded(input.axioms) => pc # "panicked")
    BY GroundedHasNoOwnProofs DEF TypeOK, InputType, LayersAreVerified
<1> QED BY <1>1, AxiomTypesOK, LayersAreVerifiedAlways, PTL

-----------------------------------------------------------------------------
(* The delete relaxation.  Among the relevant literals that hold and are not  *)
(* reached there is one of the lowest layer.  It is no proof, because the      *)
(* others support each other; nor a default, because its rules fail for        *)
(* literals that are relevant too, and lie lower or on no cycle with it.       *)

Given == {l \in Literals : l[1] \notin ResetVariables /\ buffer[l[1]] = l[2]}
Relevant(axioms, observed) ==
    Reached(Derived \X {Proven, Default}, observed \cap (Derived \X {Proven, Default}),
            RelevantEdges(axioms))
Refuted(r) == \E l \in r.body : buffer[l[1]] # l[2]

LEMMA RelaxedParts ==
    ASSUME TypeOK
    PROVE  /\ Given \subseteq Relaxed
           /\ \A r \in rules \cup defaultRules :
                  r.body \subseteq Relaxed => <<r.head, r.value>> \in Relaxed
<1> DEFINE all == Derived \X {Proven, Default}
           closed == {S \in SUBSET all : \A r \in rules \cup defaultRules :
                          r.body \subseteq Given \cup S => <<r.head, r.value>> \in S}
           least == {l \in all : \A S \in closed : l \in S}
<1>1. Relaxed = Given \cup least
    BY DEF Relaxed, Given
<1>2. ASSUME NEW r \in rules \cup defaultRules, r.body \subseteq Relaxed
      PROVE  <<r.head, r.value>> \in least
    <2>1. <<r.head, r.value>> \in all
        BY DEF TypeOK, RuleType
    <2>2. ASSUME NEW S \in closed
          PROVE  <<r.head, r.value>> \in S
        <3>1. least \subseteq S
            BY <2>2
        <3> QED BY <1>1, <1>2, <2>2, <3>1
    <2> QED BY <2>1, <2>2
<1> QED BY <1>1, <1>2

\* What an axiom of a relevant literal reads is relevant: at the same value where the
\* axiom is to hold, at the opposite one where it is to fail.
LEMMA RelevantParts ==
    ASSUME NEW axioms, axioms \subseteq RuleType, NEW observed,
           NEW r \in axioms, NEW l \in r.body, l[1] \in Heads(axioms)
    PROVE  /\ <<r.head, Proven>> \in Relevant(axioms, observed) => l \in Relevant(axioms, observed)
           /\ <<r.head, Default>> \in Relevant(axioms, observed)
              /\ r.head \notin RefutedUnconditionally(axioms)
                  => <<l[1], 1 - l[2]>> \in Relevant(axioms, observed)
<1> DEFINE all == Derived \X {Proven, Default}
           v == r.head
           w == l[1]
<1>1. v \in Heads(axioms) /\ v \in Derived /\ w \in Derived /\ l \in Literals
    BY DEF Heads, RuleType
<1>2. l = <<w, l[2]>> /\ l[2] \in {Proven, Default}
    BY <1>1, LiteralParts
<1>3. <<v, w>> \in EdgesTo(axioms, l[2])
    BY <1>1, <1>2 DEF EdgesTo
<1>4. \A e \in RelevantEdges(axioms) :
          e[1] \in Relevant(axioms, observed) /\ e[2] \in all => e[2] \in Relevant(axioms, observed)
    BY DEF Relevant, Reached, ClosedUnder
<1>5. <<<<v, Proven>>, l>> \in RelevantEdges(axioms)
    <2> DEFINE k == <<v, Proven>>
    <2>1. k \in {a \in Heads(axioms) \X {Proven, Default} :
                     a[2] = Default => a[1] \notin RefutedUnconditionally(axioms)}
        BY <1>1 DEF Proven, Default
    <2>2. CASE l[2] = Proven
        <3>1. <<k, l>> \in {<<k, <<e[2], k[2]>>>> : e \in {f \in EdgesTo(axioms, Proven) : f[1] = k[1]}}
            BY <1>2, <1>3, <2>2
        <3> QED BY <2>1, <3>1 DEF RelevantEdges
    <2>3. CASE l[2] = Default
        <3>1. <<k, l>> \in {<<k, <<e[2], 1 - k[2]>>>> : e \in {f \in EdgesTo(axioms, Default) : f[1] = k[1]}}
            BY <1>2, <1>3, <2>3 DEF Proven, Default
        <3> QED BY <2>1, <3>1 DEF RelevantEdges
    <2> QED BY <1>2, <2>2, <2>3
<1>6. ASSUME v \notin RefutedUnconditionally(axioms)
      PROVE  <<<<v, Default>>, <<w, 1 - l[2]>>>> \in RelevantEdges(axioms)
    <2> DEFINE k == <<v, Default>>
    <2>1. k \in {a \in Heads(axioms) \X {Proven, Default} :
                     a[2] = Default => a[1] \notin RefutedUnconditionally(axioms)}
        BY <1>1, <1>6
    <2>2. CASE l[2] = Proven
        <3>1. <<k, <<w, 1 - l[2]>>>> \in
                  {<<k, <<e[2], k[2]>>>> : e \in {f \in EdgesTo(axioms, Proven) : f[1] = k[1]}}
            BY <1>2, <1>3, <2>2 DEF Proven, Default
        <3> QED BY <2>1, <3>1 DEF RelevantEdges
    <2>3. CASE l[2] = Default
        <3>1. <<k, <<w, 1 - l[2]>>>> \in
                  {<<k, <<e[2], 1 - k[2]>>>> : e \in {f \in EdgesTo(axioms, Default) : f[1] = k[1]}}
            BY <1>2, <1>3, <2>3 DEF Proven, Default
        <3> QED BY <2>1, <3>1 DEF RelevantEdges
    <2> QED BY <1>2, <2>2, <2>3
<1>7. l \in all /\ <<w, 1 - l[2]>> \in all
    BY <1>1, <1>2 DEF Proven, Default
<1> QED BY <1>4, <1>5, <1>6, <1>7

\* What hits every clause contains a set that does without a literal to spare.
Hits(B, C)  == \A c \in C : c \cap B # {}
Tight(B, C) == \A l \in B : \E c \in C : c \cap B = {l}

LEMMA MinimalHit ==
    ASSUME NEW F, IsFiniteSet(F), NEW C, Hits(F, C)
    PROVE  \E B \in SUBSET F : Hits(B, C) /\ Tight(B, C)
<1> DEFINE spare == {T \in SUBSET F : Hits(F \ T, C)}
<1>1. {} \in spare
    BY DEF Hits
<1>2. PICK T \in spare : \A x \in F \ T : T \cup {x} \notin spare
    <2>1. spare # {} /\ \A T \in spare : T \subseteq F
        BY <1>1
    <2> HIDE DEF spare
    <2> QED BY <2>1, LargestSubset
<1>3. ASSUME NEW l \in F \ T
      PROVE  \E c \in C : c \cap (F \ T) = {l}
    <2>1. PICK c \in C : c \cap (F \ (T \cup {l})) = {}
        BY <1>2, <1>3 DEF Hits
    <2>2. c \cap (F \ T) # {}
        BY <1>2 DEF Hits
    <2> QED BY <2>1, <2>2
<1>4. F \ T \in SUBSET F /\ Hits(F \ T, C) /\ Tight(F \ T, C)
    BY <1>2, <1>3 DEF Tight
<1> QED BY <1>4

\* If every axiom of a variable fails, one of its refuting bodies holds.
LEMMA RefutingBodyHolds ==
    ASSUME TypeOK, NEW v, \A r \in Proving(rules) : r.head = v => Refuted(r)
    PROVE  \E B \in RefutingBodies(rules, v) : \A l \in B :
               buffer[l[1]] = l[2] /\ \E c \in Clauses(rules, v) : l \in c
<1> DEFINE C == Clauses(rules, v)
           F == {l \in UNION C : buffer[l[1]] = l[2]}
<1>1. ASSUME NEW r \in Proving(rules), r.head = v
      PROVE  Clause(r.body) \subseteq Literals /\ Clause(r.body) \cap F # {}
    <2>1. r \in rules /\ r.body \subseteq Literals
        BY RuleParts DEF Proving
    <2>2. Clause(r.body) \subseteq Literals
        BY <2>1, LiteralParts DEF Clause
    <2>3. PICK l \in r.body : buffer[l[1]] # l[2]
        BY <1>1 DEF Refuted
    <2>4. l[1] \in Variables /\ buffer[l[1]] \in Values(l[1])
        BY <2>1, LiteralParts DEF TypeOK
    <2>5. <<l[1], buffer[l[1]]>> \in Clause(r.body)
        BY <2>3, <2>4 DEF Clause
    <2>6. Clause(r.body) \in C
        BY <1>1 DEF Clauses, Proving
    <2> QED BY <2>2, <2>5, <2>6
<1>2. \A c \in C : c \subseteq Literals /\ c \cap F # {}
    BY <1>1 DEF Clauses, Proving
<1>3. F \subseteq Literals /\ IsFiniteSet(F)
    BY <1>2, LiteralsAreFinite
<1>4. PICK B \in SUBSET F : Hits(B, C) /\ Tight(B, C)
    <2>1. Hits(F, C)
        BY <1>2 DEF Hits
    <2> HIDE DEF F, C
    <2> QED BY <1>3, <2>1, MinimalHit
<1>5. Consistent(B)
    <2>1. \A l \in B : l = <<l[1], l[2]>> /\ buffer[l[1]] = l[2]
        BY <1>3, LiteralParts
    <2> QED BY <2>1 DEF Consistent
<1>6. B \in RefutingBodies(rules, v)
    BY <1>4, <1>5 DEF RefutingBodies, Hits, Tight
<1> QED BY <1>4, <1>6 DEF Tight

\* Relevant literals that hold without being reached.
Missed == {k \in Relevant(rules, input.observed) :
              k[1] \in Heads(rules) /\ buffer[k[1]] = k[2] /\ k \notin Relaxed}

\* The heuristics add rules for the default values of the task's own axioms.
DefaultsAreDerived == Accepted => defaultRules = DefaultValueAxioms(Proving(rules), input.observed)

LEMMA ClosedParts ==
    ASSUME TypeOK, ClosureInvariant, StableInvariant, pc = "closed", rules = Proving(rules)
    PROVE  /\ ResetVariables = Heads(rules) /\ rules \subseteq RuleType
           /\ \A v \in Heads(rules) : v \in Derived /\ axiomLayer[v] \in Nat
           /\ \A r \in rules : <<r.head, Proven>> \notin r.body
           /\ \A v \in Heads(rules) :
                  IsProven(v) <=> \E r \in rules : r.head = v /\ ~ Refuted(r)
           /\ \A r \in rules, l \in Literals : l \in r.body /\ l[1] \in Heads(rules) =>
                  /\ l[2] \in {Proven, Default}
                  /\ l[2] = Proven => axiomLayer[l[1]] <= axiomLayer[r.head]
                  /\ l[2] = Default => axiomLayer[l[1]] < axiomLayer[r.head]
<1>1. Accepted /\ rules \subseteq RuleType
    BY DEF Accepted, TypeOK
<1>2. ResetVariables = Heads(rules)
    BY <1>1 DEF StableInvariant, TaskIsSimplified
<1>3. \A v \in Heads(rules) : v \in Derived /\ axiomLayer[v] \in Nat
    BY <1>1, <1>2, TaskParts
<1>4. \A r \in rules : <<r.head, Proven>> \notin r.body
    BY <1>1 DEF StableInvariant, TaskIsSimplified, Simplify
<1>5. \A v \in Heads(rules) : IsProven(v) <=> \E r \in rules : r.head = v /\ ~ Refuted(r)
    BY DEF ClosureInvariant, ClosureIsSupported, Refuted
<1>6. ASSUME NEW r \in rules, NEW l \in Literals, l \in r.body, l[1] \in Heads(rules)
      PROVE  /\ l[2] \in {Proven, Default}
             /\ l[2] = Proven => axiomLayer[l[1]] <= axiomLayer[r.head]
             /\ l[2] = Default => axiomLayer[l[1]] < axiomLayer[r.head]
    <2>1. l[1] \in Derived /\ l = <<l[1], l[2]>> /\ l[2] \in {Proven, Default}
        BY <1>3, <1>6, LiteralParts
    <2> QED BY <1>1, <1>2, <1>6, <2>1 DEF ClosureInvariant, TaskIsSound
<1> QED BY <1>1, <1>2, <1>3, <1>4, <1>5, <1>6

\* In the lowest layer where a literal is missed no proof is: the other proofs close
\* the axioms.
LEMMA ProofsAreReached ==
    ASSUME TypeOK, ClosureInvariant, StableInvariant, pc = "closed", rules = Proving(rules),
           NEW n \in Nat, \A k \in Missed : n <= axiomLayer[k[1]],
           NEW v, <<v, Proven>> \in Missed, axiomLayer[v] = n
    PROVE  FALSE
<1> DEFINE S == {w \in Derived : IsProven(w) /\ ~ (<<w, Proven>> \in Missed /\ axiomLayer[w] = n)}
<1>1. ASSUME NEW r \in Proving(rules),
             \A l \in r.body : IF Positive(l) THEN l[1] \in S ELSE l \in Announced
      PROVE  r.head \in S
    <2>1. r \in rules /\ r.body \subseteq Literals /\ r.head \in Heads(rules) /\ r.head \in Derived
        BY RuleParts DEF Proving, Heads
    <2>2. \A l \in r.body : buffer[l[1]] = l[2]
        BY <1>1, AnnouncedParts DEF Accepted, Positive, IsProven
    <2>3. IsProven(r.head)
        BY <2>1, <2>2, ClosedParts DEF Refuted
    <2>4. ASSUME <<r.head, Proven>> \in Missed, axiomLayer[r.head] = n
          PROVE  FALSE
        <3>1. ASSUME NEW l \in r.body
              PROVE  l \in Relaxed
            <4>1. CASE l[1] \notin Heads(rules)
                <5>1. l \in Given
                    BY <2>1, <2>2, <4>1, ClosedParts DEF Given
                <5> QED BY <5>1, RelaxedParts
            <4>2. CASE l[1] \in Heads(rules)
                <5>1. l \in Relevant(rules, input.observed)
                    BY <2>1, <2>4, <4>2, ClosedParts, RelevantParts DEF Missed
                <5>2. l \notin Relaxed => l \in Missed
                    BY <2>2, <4>2, <5>1 DEF Missed
                <5>3. CASE l[2] = Proven
                    <6>1. l[1] \in S /\ l = <<l[1], Proven>>
                        BY <1>1, <2>1, <4>2, <5>3, ClosedParts, LiteralParts DEF Positive
                    <6>2. axiomLayer[l[1]] <= n /\ axiomLayer[l[1]] \in Nat
                        BY <2>1, <2>4, <4>2, <5>3, ClosedParts
                    <6> QED BY <5>2, <6>1, <6>2
                <5>4. CASE l[2] = Default
                    <6>1. axiomLayer[l[1]] < n /\ axiomLayer[l[1]] \in Nat
                        BY <2>1, <2>4, <4>2, <5>4, ClosedParts
                    <6> QED BY <5>2, <6>1
                <5> QED BY <2>1, <4>2, <5>3, <5>4, ClosedParts
            <4> QED BY <4>1, <4>2
        <3>2. <<r.head, r.value>> \in Relaxed /\ r.value = Proven
            BY <2>1, <3>1, RelaxedParts DEF Proving
        <3> QED BY <2>4, <3>2 DEF Missed
    <2> QED BY <2>1, <2>3, <2>4
<1>2. IsClosedUnderRules(S)
    BY <1>1 DEF IsClosedUnderRules
<1>3. S \in SUBSET Derived /\ v \in ResetVariables /\ IsProven(v)
    BY ClosedParts DEF Missed, IsProven
<1>4. v \in S
    BY <1>2, <1>3 DEF StableInvariant, ProvenIsDerivable
<1> QED BY <1>4

\* Nor is a default missed there: take one that reaches the fewest variables.
LEMMA DefaultsAreReached ==
    ASSUME TypeOK, ClosureInvariant, StableInvariant, pc = "closed", rules = Proving(rules),
           DefaultsAreDerived,
           NEW n \in Nat, \A k \in Missed : n <= axiomLayer[k[1]],
           NEW u, <<u, Default>> \in Missed, axiomLayer[u] = n
    PROVE  FALSE
<1> DEFINE E == EdgesTo(rules, Proven)
           Span(w) == {w} \cup Reaches(w, E)
           C == {w \in Derived : <<w, Default>> \in Missed /\ axiomLayer[w] = n}
           sizes == {Cardinality(Span(w)) : w \in C}
           given == RefutedUnconditionally(rules)
<1>1. E \in SUBSET (Derived \X Derived)
    BY ClosedParts, EdgesParts
<1>2. \A w \in Derived : /\ Span(w) \subseteq Derived /\ IsFiniteSet(Span(w))
                         /\ Cardinality(Span(w)) \in Nat
    <2>1. \A w \in Derived : Span(w) \subseteq Derived
        BY <1>1, ReachesParts
    <2> HIDE DEF Span
    <2> QED BY <2>1, VariablesAssumption, FS_Subset, FS_CardinalityType
<1>3. u \in C
    BY ClosedParts DEF Missed
<1>4. PICK v \in C : \A w \in C : Cardinality(Span(v)) <= Cardinality(Span(w))
    <2>1. sizes \in SUBSET Nat /\ sizes # {}
        BY <1>2, <1>3
    <2>2. PICK m \in sizes : \A k \in sizes : m <= k
        <3> HIDE DEF sizes
        <3> QED BY <2>1, LeastExists
    <2> HIDE DEF Span, C
    <2> QED BY <2>2
<1>5. /\ v \in Heads(rules) /\ v \in Derived /\ axiomLayer[v] = n /\ ~ IsProven(v)
      /\ <<v, Default>> \in Relevant(rules, input.observed) /\ <<v, Default>> \notin Relaxed
    BY DEF Missed, IsProven, Proven, Default
<1>6. v \in RelevantDefaults(rules, input.observed)
    BY <1>5 DEF RelevantDefaults, Relevant
<1>7. defaultRules = DefaultValueAxioms(rules, input.observed)
    BY DEF DefaultsAreDerived, Accepted
<1>8. v \notin given
    <2>1. SUFFICES ASSUME v \in given
                   PROVE  FALSE
        OBVIOUS
    <2>2. Rule(v, Default, {}) \in defaultRules
        BY <1>6, <1>7, <2>1 DEF DefaultValueAxioms
    <2>3. <<v, Default>> \in Relaxed
        BY <2>2, RelaxedParts DEF Rule
    <2> QED BY <1>5, <2>3
<1>9. PICK B \in RefutingBodies(rules, v) : \A l \in B :
          buffer[l[1]] = l[2] /\ \E c \in Clauses(rules, v) : l \in c
    <2>1. \A r \in Proving(rules) : r.head = v => Refuted(r)
        BY <1>5, ClosedParts
    <2> QED BY <2>1, RefutingBodyHolds
<1>10. ASSUME NEW l \in B
       PROVE  l \in Relaxed
    <2>1. PICK r \in rules : r.head = v /\ l \in Clause(r.body)
        BY <1>9 DEF Clauses, Proving
    <2>2. PICK k \in r.body : l \in {k[1]} \X (Values(k[1]) \ {k[2]})
        BY <2>1 DEF Clause
    <2> DEFINE w == k[1]
    <2>3. k \in Literals /\ k = <<w, k[2]>> /\ w \in Variables
        BY <2>1, <2>2, RuleParts, LiteralParts
    <2>4. l = <<w, l[2]>> /\ l[2] \in Values(w) \ {k[2]} /\ l \in Literals /\ buffer[w] = l[2]
        BY <1>9, <2>2, <2>3, LiteralParts
    <2>5. CASE w \notin Heads(rules)
        <3>1. l \in Given
            BY <2>4, <2>5, ClosedParts DEF Given
        <3> QED BY <3>1, RelaxedParts
    <2>6. CASE w \in Heads(rules)
        <3>1. w \in Derived /\ axiomLayer[w] \in Nat /\ k[2] \in {Proven, Default}
              /\ (k[2] = Proven => axiomLayer[w] <= n) /\ (k[2] = Default => axiomLayer[w] < n)
            BY <1>5, <2>1, <2>3, <2>6, ClosedParts
        <3>2. l = <<w, 1 - k[2]>>
            BY <2>4, <3>1, LiteralParts DEF Proven, Default
        <3>3. l \in Relevant(rules, input.observed)
            BY <1>5, <1>8, <2>1, <2>2, <2>6, <3>2, ClosedParts, RelevantParts
        <3>4. SUFFICES ASSUME l \in Missed
                       PROVE  FALSE
            BY <2>4, <2>6, <3>3 DEF Missed
        <3>5. n <= axiomLayer[w]
            BY <2>4, <3>4
        <3>6. k[2] = Proven /\ l = <<w, Default>> /\ axiomLayer[w] = n /\ w \in C
            BY <3>1, <3>2, <3>4, <3>5 DEF Proven, Default
        <3>7. <<v, w>> \in E
            BY <1>5, <2>1, <2>3, <2>6, <3>6 DEF EdgesTo
        <3>8. w \in Reaches(v, E) /\ Reaches(w, E) \subseteq Reaches(v, E)
            BY <1>1, <1>5, <3>7, ReachesParts
        <3>9. w # v
            BY <2>1, <2>3, <3>6, ClosedParts
        <3>10. v \notin Reaches(w, E)
            BY <1>5, <1>8, <3>1, <3>8, <3>9 DEF RefutedUnconditionally
        <3>11. Span(w) \subseteq Span(v) /\ Span(w) # Span(v)
            BY <3>8, <3>9, <3>10
        <3>12. Cardinality(Span(w)) <= Cardinality(Span(v)) /\ Cardinality(Span(w)) # Cardinality(Span(v))
            <4>1. IsFiniteSet(Span(v))
                BY <1>2, <1>5
            <4> HIDE DEF Span
            <4> QED BY <3>11, <4>1, FS_Subset
        <3> HIDE DEF Span
        <3> QED BY <1>2, <1>4, <1>5, <3>1, <3>6, <3>12
    <2> QED BY <2>5, <2>6
<1>11. Rule(v, Default, B) \in defaultRules
    BY <1>6, <1>7, <1>8, <1>9 DEF DefaultValueAxioms
<1>12. <<v, Default>> \in Relaxed
    <2>1. Rule(v, Default, B).body = B /\ Rule(v, Default, B).head = v /\ Rule(v, Default, B).value = Default
        BY DEF Rule
    <2> QED BY <1>10, <1>11, <2>1, RelaxedParts
<1> QED BY <1>5, <1>12

LEMMA HoldingIsReached ==
    ASSUME TypeOK, ClosureInvariant, StableInvariant, DefaultsAreDerived
    PROVE  ObservedIsReachable
<1> SUFFICES ASSUME pc = "closed", rules = Proving(rules), NEW l \in input.observed,
                    l[1] \in Heads(rules), buffer[l[1]] = l[2], l \notin Relaxed
             PROVE  FALSE
    BY DEF ObservedIsReachable
<1> DEFINE layers == {axiomLayer[k[1]] : k \in Missed}
<1>1. \A k \in Missed : axiomLayer[k[1]] \in Nat
    BY ClosedParts DEF Missed
<1>2. l \in Missed
    <2>1. l \in Derived \X {Proven, Default}
        BY DEF TypeOK, InputType
    <2>2. l \in Relevant(rules, input.observed)
        BY <2>1 DEF Relevant, Reached
    <2> QED BY <2>2 DEF Missed
<1>3. PICK n \in layers : \A m \in layers : n <= m
    <2>1. layers \in SUBSET Nat /\ layers # {}
        BY <1>1, <1>2
    <2> HIDE DEF layers
    <2> QED BY <2>1, LeastExists
<1>4. PICK k \in Missed : axiomLayer[k[1]] = n
    BY <1>3
<1>5. n \in Nat /\ \A j \in Missed : n <= axiomLayer[j[1]]
    BY <1>1, <1>3
<1>6. k = <<k[1], k[2]>> /\ k[2] \in {Proven, Default}
    BY <1>4 DEF Missed, Relevant, Reached
<1>7. k[2] # Proven
    BY <1>4, <1>5, <1>6, ProofsAreReached
<1>8. k[2] # Default
    BY <1>4, <1>5, <1>6, DefaultsAreReached
<1> QED BY <1>6, <1>7, <1>8

LEMMA DefaultsStayDerived ==
    ASSUME TypeOK, ClosureInvariant, DefaultsAreDerived, [Next]_vars
    PROVE  DefaultsAreDerived'
<1>1. CASE Translate
    <2> DEFINE kept == Simplify(Remaining(input.axioms, input.observed))
    <2>1. \/ ~ Accepted'
          \/ \E layer \in AxiomLayers(Remaining(input.axioms, input.observed)) : Accept(kept, layer)
        BY <1>1 DEF Translate, Reject, Accepted
    <2>2. CASE \E layer \in AxiomLayers(Remaining(input.axioms, input.observed)) : Accept(kept, layer)
        <3>1. /\ defaultRules' = DefaultValueAxioms(kept, input.observed)
              /\ rules' \in {kept, kept \cup defaultRules'}
            BY <2>2 DEF Accept
        <3>2. kept \subseteq AxiomType /\ kept \subseteq RuleType /\ \A r \in kept : r.value = Proven
            BY DEF TypeOK, InputType, Remaining, Simplify, AxiomType
        <3>3. \A q \in defaultRules' : q.value = Default
            BY <3>1, <3>2, DefaultRuleParts
        <3>4. Proving(rules') = kept
            BY <3>1, <3>2, <3>3 DEF Proving, Proven, Default
        <3>5. input' = input
            BY <1>1 DEF Translate
        <3> QED BY <3>1, <3>4, <3>5 DEF DefaultsAreDerived
    <2> QED BY <2>1, <2>2 DEF DefaultsAreDerived
<1>2. CASE UNCHANGED task /\ (Accepted' => Accepted)
    BY <1>2 DEF DefaultsAreDerived, task
<1>3. Translate \/ (UNCHANGED task /\ (Accepted' => Accepted))
    BY DEF Next, vars, task, Accepted, EvaluateComparisons, Seed, FireTrivial, SatisfyCondition,
        StartLayers, PopLiteral, EnqueueUnproven, FinishClosure, ApplyOperator
<1> QED BY <1>1, <1>2, <1>3

\* What a task observes and a closed state holds is reached by the delete relaxation
\* from the state: the rules for default values leave no dead end that is none.
THEOREM ObservedIsReachableAlways == Spec => []ObservedIsReachable
<1>1. Init => TypeOK /\ ClosureInvariant /\ StableInvariant /\ DefaultsAreDerived
    <2>1. Init => DefaultsAreDerived
        BY DEF Init, DefaultsAreDerived, Accepted
    <2> QED BY <2>1, InitIsSound, InitIsStable
<1>2. TypeOK /\ ClosureInvariant /\ StableInvariant /\ DefaultsAreDerived /\ [Next]_vars
        => (TypeOK /\ ClosureInvariant /\ StableInvariant /\ DefaultsAreDerived)'
    BY StepsAreSound, StepsKeepStable, DefaultsStayDerived
<1>3. TypeOK /\ ClosureInvariant /\ StableInvariant /\ DefaultsAreDerived => ObservedIsReachable
    BY HoldingIsReached
<1> QED BY <1>1, <1>2, <1>3, PTL DEF Spec
=============================================================================
