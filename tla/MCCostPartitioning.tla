------------------------- MODULE MCCostPartitioning -------------------------
(***************************************************************************)
(* A task with two variables, x in 0..2 and y in 0..1, and four operators, *)
(* and three components: two abstractions with source sets and a pattern   *)
(* database whose exploration ended early.                                 *)
(***************************************************************************)
EXTENDS CostPartitioning

\* The distances d, improved along steps <<source, cost, target>> until none is shorter.
Far == 1000
RECURSIVE Settle(_, _)
Settle(d, steps) ==
    LET next == [s \in DOMAIN d |-> Min({d[s]} \cup {e[2] + d[e[3]] : e \in {f \in steps : f[1] = s}})]
    IN  IF next = d THEN d ELSE Settle(next, steps)
Distances(nodes, goals, steps) == Settle([s \in nodes |-> IF s \in goals THEN 0 ELSE Far], steps)

MCStates == (0..2) \X (0..1)
MCOperators == {"walk", "ride", "open", "leap"}
MCCost == [walk |-> 2, ride |-> 3, open |-> 2, leap |-> 3]
MCGoals == {<<2, 1>>}

Applies(o, s) ==
    CASE o = "walk" -> s[1] < 2
      [] o = "ride" -> s[1] = 0
      [] o = "open" -> s[1] < 2 /\ s[2] = 0
      [] o = "leap" -> s[1] = 1 /\ s[2] = 0
Result(o, s) ==
    CASE o = "walk" -> <<Min({s[1] + 1, 2}), s[2]>>
      [] o = "ride" -> <<2, s[2]>>
      [] o = "open" -> <<s[1], 1>>
      [] o = "leap" -> <<2, 1>>
MCSteps == {<<s, o, Result(o, s)>> : <<s, o>> \in {e \in MCStates \X MCOperators : Applies(e[2], e[1])}}

\* The transitions between the abstract states that f gives, except from the frontier;
\* the source set of a label ignores its precondition.
InducedTransitions(f, frontier) ==
    LET between(a, b, o) == \E e \in MCSteps : e[2] = o /\ {e[1], e[3]} \subseteq DOMAIN f /\ f[e[1]] = a /\ f[e[3]] = b
        nodes == {f[s] : s \in DOMAIN f}
        tr(a, b) == [source |-> a, target |-> b,
                     sources |-> [o \in {x \in MCOperators : between(a, b, x)} |->
                         {s \in DOMAIN f : f[s] = a /\ Result(o, s) \in DOMAIN f /\ f[Result(o, s)] = b}]]
    IN  {tr(e[1], e[2]) : e \in {p \in (nodes \ frontier) \X nodes :
            p[1] # p[2] /\ \E o \in MCOperators : between(p[1], p[2], o)}}

Abstraction(f, frontier, regional) ==
    [abstract    |-> f,
     seeds       |-> {f[s] : s \in MCGoals \cap DOMAIN f} \cup frontier,
     transitions |-> InducedTransitions(f, frontier),
     regional    |-> regional]

MCSystem ==
    [position |-> Abstraction([s \in MCStates |-> s[1]], {}, TRUE),
     corner   |-> Abstraction([s \in MCStates |-> IF s[1] < 2 THEN (IF s[2] = 0 THEN "shut" ELSE "open")
                                                  ELSE (IF s[2] = 0 THEN "pit" ELSE "goal")], {}, TRUE),
     pdb      |-> Abstraction([s \in MCStates \ {<<1, 1>>, <<2, 1>>} |-> s],
                            {<<1, 0>>, <<2, 0>>, <<0, 1>>}, FALSE),
     gate     |-> Abstraction([s \in MCStates |-> s[2]], {}, FALSE)]
MCComponents == DOMAIN MCSystem

OptionsFor(initial, method, passList, diversify, limited) ==
    [initial |-> initial, method |-> method, passes |-> passList, diversify |-> diversify, limited |-> limited,
     samples |-> {<<0, 0>>, <<1, 1>>}]
MCOptions ==
    {OptionsFor(<<0, 0>>, "label", <<TRUE, FALSE>>, FALSE, FALSE),
     OptionsFor(<<0, 0>>, "region", <<FALSE>>, FALSE, TRUE),
     OptionsFor(<<0, 0>>, "region", <<TRUE>>, FALSE, FALSE),
     OptionsFor(<<0, 0>>, "region", <<TRUE, FALSE>>, TRUE, FALSE),
     OptionsFor(<<2, 0>>, "label", <<FALSE>>, FALSE, FALSE)}

MCGoalDistancesOf(c, costs) ==
    LET steps == {<<tr.source, costs[tr], tr.target>> : tr \in MCSystem[c].transitions}
        nodes == {MCSystem[c].abstract[s] : s \in DOMAIN MCSystem[c].abstract}
        d == Distances(nodes, MCSystem[c].seeds, steps)
    IN  [a \in {n \in nodes : d[n] < Far} |-> d[a]]
=============================================================================
