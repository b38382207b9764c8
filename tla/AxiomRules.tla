----------------------------- MODULE AxiomRules -----------------------------
(***************************************************************************)
(* Axioms, from the translator to the tables of the axiom evaluator.       *)
(*                                                                         *)
(* A literal is a variable with a value.  The translator gives a derived   *)
(* variable the value 0 when it is proven and 1, its default, when it is   *)
(* not; it drops axioms that nothing observes, simplifies the others and   *)
(* puts the derived variables into layers, so that a rule reads "never     *)
(* proven" only of a layer below its own.  Heuristics need rules that say  *)
(* how a variable keeps its default: those are computed here too.          *)
(*                                                                         *)
(* Axioms are sets: neither their order nor a repetition matters.          *)
(***************************************************************************)
EXTENDS Integers, FiniteSets

CONSTANTS
    Fluents,        \* variables the operators write
    FluentValues,
    Conditions,     \* variables the comparison axioms write
    Derived         \* variables that axioms prove

ASSUME VariablesAssumption ==
    /\ IsFiniteSet(Fluents) /\ IsFiniteSet(FluentValues)
    /\ IsFiniteSet(Conditions) /\ IsFiniteSet(Derived)
    /\ Fluents \cap Conditions = {}
    /\ (Fluents \cup Conditions) \cap Derived = {}

Proven  == 0
Default == 1
Holds   == 0        \* ConditionValue::True
Fails   == 1        \* ConditionValue::False

Variables == Fluents \cup Conditions \cup Derived
Values(v) == IF v \in Fluents THEN FluentValues ELSE {0, 1}
Literals  == UNION {{v} \X Values(v) : v \in Variables}

\* No variable is asked for two values.
Consistent(body) == \A k, l \in body : k[1] = l[1] => k = l

\* A rule gives its head a value when its body holds; an axiom proves it.
RuleType  == [head : Derived, value : {Proven, Default}, body : SUBSET Literals]
AxiomType == {r \in RuleType : r.value = Proven}
Rule(v, value, body) == [head |-> v, value |-> value, body |-> body]
Proving(rules) == {r \in rules : r.value = Proven}
Heads(rules)   == {r.head : r \in rules}

-----------------------------------------------------------------------------
(* AxiomDependencies: which derived variable reads which, at which value.   *)

EdgesTo(rules, value) ==
    {e \in Derived \X Heads(rules) :
        \E r \in rules : r.head = e[1] /\ <<e[2], value>> \in r.body}
AllEdges(rules) == EdgesTo(rules, Proven) \cup EdgesTo(rules, Default)

\* The nodes that can be reached from some of them: the smallest closed set.
ClosedUnder(S, edges) == \A e \in edges : e[1] \in S => e[2] \in S
Reached(nodes, from, edges) ==
    {v \in nodes : \A S \in SUBSET nodes :
        from \subseteq S /\ ClosedUnder(S, edges) => v \in S}
Reaches(v, edges) == Reached(Derived, {e[2] : e \in {f \in edges : f[1] = v}}, edges)

\* compute_necessary_atoms: what the goal, the operators and the global constraint
\* observe, and what the axioms of those read.
Necessary(axioms, observed) ==
    Reached(Derived, {l[1] : l \in observed} \cap Heads(axioms), AllEdges(axioms))

\* remove_unnecessary_variables: the axioms that stay.
Remaining(axioms, observed) == {a \in axioms : a.head \in Necessary(axioms, observed)}

-----------------------------------------------------------------------------
(* Clusters share a layer: the strongly connected components.               *)

Cluster(v, edges) == {v} \cup {w \in Reaches(v, edges) : v \in Reaches(w, edges)}

\* compute_clusters fails if a variable depends on its own absence.
Stratifiable(axioms) ==
    LET edges == AllEdges(axioms)
    IN  \A e \in EdgesTo(axioms, Default) : e[2] \notin Cluster(e[1], edges)

Largest(S) == CHOOSE n \in S : \A m \in S : m <= n

\* Mutant: a child that is read at its default may share the layer.
SharedLayers(positive, negative) ==
    LET layer[c \in DOMAIN positive] ==
            Largest({0} \cup {layer[d] : d \in positive[c] \cup negative[c]})
    IN  layer

\* lowest_allowed_layer: at least that of a child read at its proven value, above
\* that of a child read at its default.
LowestLayers(positive, negative) ==
    LET layer[c \in DOMAIN positive] ==
            Largest({0} \cup {layer[d] : d \in positive[c]}
                        \cup {layer[d] + 1 : d \in negative[c]})
    IN  layer

\* LayerStrategy::Max: every cluster has a layer of its own, above its children; the
\* code takes the order in which it found the components.
OwnLayers(positive, negative) ==
    LET clusters == DOMAIN positive
    IN  {layer \in [clusters -> 0..Cardinality(clusters) - 1] :
            \A c, d \in clusters :
                /\ c # d => layer[c] # layer[d]
                /\ d \in positive[c] \cup negative[c] => layer[d] < layer[c]}

\* The cluster of each head, and which clusters read which others at a value.
ClusterOf(axioms) == [v \in Heads(axioms) |-> Cluster(v, AllEdges(axioms))]
Children(axioms, value) ==
    LET cluster == ClusterOf(axioms)
    IN  [c \in {cluster[v] : v \in Heads(axioms)} |->
            {cluster[e[2]] : e \in {f \in EdgesTo(axioms, value) : f[1] \in c}} \ {c}]

\* compute_axiom_layers, for either strategy.  A cluster is never its own positive
\* child, and Stratifiable says that it is not its own negative one.
AxiomLayers(axioms) ==
    LET cluster == ClusterOf(axioms)
        positive == Children(axioms, Proven)
        negative == Children(axioms, Default)
    IN  {[v \in Heads(axioms) |-> layer[cluster[v]]] :
            layer \in {LowestLayers(positive, negative)} \cup OwnLayers(positive, negative)}

-----------------------------------------------------------------------------
(* simplify, on the axioms of each head.                                    *)

\* Mutant: of two axioms, the one that asks for more survives.
KeepDominated(axioms) ==
    {a \in axioms :
        /\ <<a.head, Proven>> \notin a.body
        /\ ~ \E b \in axioms :
               /\ b.head = a.head /\ <<b.head, Proven>> \notin b.body
               /\ a.body \subseteq b.body /\ a.body # b.body}

\* An axiom that reads its own head proves nothing; one whose body another's
\* contains is dominated.
Simplify(axioms) ==
    {a \in axioms :
        /\ <<a.head, Proven>> \notin a.body
        /\ ~ \E b \in axioms :
               /\ b.head = a.head /\ <<b.head, Proven>> \notin b.body
               /\ b.body \subseteq a.body /\ b.body # a.body}

\* verify_layering_condition, with the panics of its assertions.
VerifyLayering(axioms, layer) ==
    /\ layer \in [Heads(axioms) -> Nat]
    /\ \A a \in axioms : \A w \in Heads(axioms) : \A value \in {Proven, Default} :
           <<w, value>> \in a.body =>
               /\ layer[w] <= layer[a.head]
               /\ value = Default => layer[w] < layer[a.head]

-----------------------------------------------------------------------------
(* default_value_axioms: how a derived variable keeps its default.          *)

\* Mutant: cycles are negated like everything else.
NoneUnconditionally(rules) == {}

\* refuted_unconditionally: variables on a cycle of proofs.  Negating their rules
\* one by one would say that they can never be false.
RefutedUnconditionally(rules) ==
    LET edges == EdgesTo(rules, Proven)
    IN  {v \in Derived : \E w \in Derived \ {v} :
            w \in Reaches(v, edges) /\ v \in Reaches(w, edges)}

\* relevant_default_values: what is observed directly, and what the rules of an
\* observed literal read: the same value through a literal that is read at its
\* proven value, the opposite one through a default.
RelevantEdges(rules) ==
    LET positive == EdgesTo(rules, Proven)
        negative == EdgesTo(rules, Default)
        given == RefutedUnconditionally(rules)
        asks == {k \in Heads(rules) \X {Proven, Default} : k[2] = Default => k[1] \notin given}
    IN  UNION {{<<k, <<e[2], k[2]>>>> : e \in {f \in positive : f[1] = k[1]}}
               \cup {<<k, <<e[2], 1 - k[2]>>>> : e \in {f \in negative : f[1] = k[1]}} :
               k \in asks}
RelevantDefaults(rules, observed) ==
    {v \in Heads(rules) : <<v, Default>> \in
        Reached(Derived \X {Proven, Default},
                observed \cap (Derived \X {Proven, Default}), RelevantEdges(rules))}

\* A rule fails if a literal of its body has another value.
Clause(body)  == UNION {{l[1]} \X (Values(l[1]) \ {l[2]}) : l \in body}
Clauses(rules, v) == {Clause(r.body) : r \in {s \in Proving(rules) : s.head = v}}

\* refuting_bodies: sets that make every rule fail, without a literal to spare.
RefutingBodies(rules, v) ==
    {B \in SUBSET UNION Clauses(rules, v) :
        /\ Consistent(B)
        /\ \A clause \in Clauses(rules, v) : clause \cap B # {}
        /\ \A l \in B : \E clause \in Clauses(rules, v) : clause \cap B = {l}}

DefaultValueAxioms(rules, observed) ==
    {Rule(v, Default, {}) :
        v \in RelevantDefaults(rules, observed) \cap RefutedUnconditionally(rules)}
    \cup
    UNION {{Rule(v, Default, B) : B \in RefutingBodies(rules, v)} :
        v \in RelevantDefaults(rules, observed) \ RefutedUnconditionally(rules)}
=============================================================================
