------------------------------ MODULE MCAxioms ------------------------------
(***************************************************************************)
(* Small tasks for TLC: one fluent with three values, one condition and    *)
(* three derived variables, and every way to ground a few axiom schemas    *)
(* whose bodies read at most two literals.                                 *)
(***************************************************************************)
EXTENDS AxiomProperties

MCFluents    == {"b"}
MCConditions == {"c"}
MCDerived    == {"x", "y", "z"}
MCFluentValues == 0..2

\* The fluent and the condition are each switched off once.
MCStates == {s \in StateType : <<s["b"], s["c"]>> \in {<<1, Holds>>, <<2, Holds>>, <<1, Fails>>}}

\* The bodies of at most two literals.
Read == {<<"b", 1>>, <<"c", Fails>>} \cup (MCDerived \X {Proven, Default})
Bodies == {body \in SUBSET Read : Cardinality(body) <= 2 /\ Consistent(body)}
Numberless == {body \in Bodies : <<"c", Fails>> \notin body}
Short == {body \in Numberless : Cardinality(body) <= 1} \cup
         {{<<"x", i>>, <<"y", Default>>} : i \in {Proven, Default}}
Grounds == {body \in Bodies : \A l \in body : ~ Positive(l)}

A(v, body) == Rule(v, Proven, body)

\* One axiom for each variable: one of them can be proven first, say x.
Chains == {{A("x", p), A("y", q), A("z", r)} : p \in Grounds, q \in Numberless, r \in Short}

\* Two axioms for one variable, and one for another that reads a derived one.
Readers == {body \in Short : \E l \in body : l[1] \in {"x", "y"}}
Choices == {{A("x", p), A("x", q), A("y", r)} : p \in Grounds, q \in Numberless, r \in Readers}

\* A cycle of x and y with one way in, and a variable that reads them.
Entries == {{}, {<<"b", 1>>}, {<<"c", Holds>>}}
Loops(v) == {body \in Bodies : <<v, Proven>> \in body}
Cycles == {{A("x", p), A("x", q), A("y", r), A("z", t)} :
               p \in Entries, q \in Loops("y"), r \in Loops("x"), t \in Readers}

Everything == MCDerived \X {Proven, Default}
MCInputs ==
    [axioms : {axioms \in Chains \cup Cycles : Stratifiable(axioms)},
     observed : {Everything}]
    \cup
    [axioms : Choices, observed : {{<<"y", Default>>}}]
=============================================================================
