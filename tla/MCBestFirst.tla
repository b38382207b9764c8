----------------------------- MODULE MCBestFirst ----------------------------
(***************************************************************************)
(* Small tasks for TLC.  A task family is a graph whose costs and          *)
(* heuristics vary; the goal distances are computed here, so that every    *)
(* task of a family satisfies IsTask.                                      *)
(***************************************************************************)
EXTENDS BestFirstProperties

MCStates == 0..4
MCOperators == {"a", "b"}

(* A graph maps each state to the states its two operators lead to; an      *)
(* operator that leads nowhere (-1) is not applicable.                      *)

\* A diamond: state 1 is reached directly and, maybe more cheaply, through 2.
\* With cost 0 from 2 to 1 the goal state 4 is reached late.
Diamond == << <<1, 2>>, <<3, -1>>, <<1, -1>>, <<4, 0>>, <<-1, -1>> >>

\* Both operators of 0 lead to 1, so 1 is generated twice in one expansion; 2 is
\* a dead end, 3 leads back.
Double == << <<1, 1>>, <<2, 3>>, <<-1, -1>>, <<1, 4>>, <<-1, -1>> >>

\* 4 can be reached only in some of the tasks: 2 and 3 are a trap.
Trap == << <<1, 2>>, <<3, 4>>, <<3, 1>>, <<2, -1>>, <<-1, -1>> >>

\* 3 is a dead end, reached twice from 1, and maybe more cheaply through 2 after it
\* was found to be one.
Dead == << <<1, 2>>, <<3, 3>>, <<3, 4>>, <<-1, -1>>, <<-1, -1>> >>

\* No plan: the goal is cut off.
CutOff == << <<1, 2>>, <<2, 0>>, <<3, 1>>, <<3, -1>>, <<-1, -1>> >>

Leads(graph, s, i) == graph[s + 1][i] # -1
Position(o) == IF o = "a" THEN 1 ELSE 2

Applicable(graph) ==
    [s \in MCStates |-> (IF Leads(graph, s, 1) THEN <<"a">> ELSE <<>>)
                        \o (IF Leads(graph, s, 2) THEN <<"b">> ELSE <<>>)]
Leading(graph) ==
    [s \in MCStates |-> [o \in MCOperators |->
        IF Leads(graph, s, Position(o)) THEN graph[s + 1][Position(o)] ELSE s]]

\* Goal distances: after n rounds, the cost of a cheapest plan of at most n steps,
\* as a tuple over the states.  Five states need four rounds.
Far == 1000
Smallest(S) == CHOOSE x \in S : \A y \in S : x <= y
Round(d, app, res, cost) ==
    LET best(s) == Smallest({d[s + 1]} \cup
                     {cost[s][app[s][i]] + d[res[s][app[s][i]] + 1] : i \in 1..Len(app[s])})
    IN  <<best(0), best(1), best(2), best(3), best(4)>>
Rounds(app, res, cost, goals) ==
    LET start(s) == IF s \in goals THEN 0 ELSE Far
        d0 == <<start(0), start(1), start(2), start(3), start(4)>>
        d1 == Round(d0, app, res, cost)
        d2 == Round(d1, app, res, cost)
        d3 == Round(d2, app, res, cost)
        d4 == Round(d3, app, res, cost)
    IN  <<d0, d1, d2, d3, d4>>
HStar(d) == [s \in MCStates |-> IF d[5][s + 1] >= Far THEN DeadEnd ELSE d[5][s + 1]]
Steps(d) == [s \in MCStates |-> Smallest({n \in 0..4 : d[n + 1][s + 1] = d[5][s + 1]})]

Cost(c, s, o) == IF <<s, o>> \in DOMAIN c THEN c[<<s, o>>] ELSE 1

\* The task of a graph whose transitions cost 1 unless c says otherwise; the
\* heuristics are functions of the goal distances, the operators' costs in the
\* initial state one of the costs.
Task(graph, goals, c, opCost(_), hs(_), lazyH(_), helpful) ==
    LET cost == [s \in MCStates |-> [o \in MCOperators |-> Cost(c, s, o)]]
        app  == Applicable(graph)
        res  == Leading(graph)
        dist == Rounds(app, res, cost, goals)
    IN  [init |-> 0, goals |-> goals, applicable |-> app, result |-> res,
         cost |-> cost, operatorCost |-> opCost(cost), h |-> hs(HStar(dist)),
         lazyH |-> lazyH(HStar(dist)), preferred |-> helpful,
         hStar |-> HStar(dist), steps |-> Steps(dist)]

CheapestCost(cost) == [o \in MCOperators |-> Smallest({cost[s][o] : s \in MCStates})]

\* For each state in S the estimate is perfect, for the others it is zero; once
\* the heuristic has grown it is perfect everywhere.
Perfect(hStar) == hStar
Partly(S, hStar) == [s \in MCStates |-> IF s \in S THEN hStar[s] ELSE 0]
Grown(S, hStar) ==
    [r \in 0..1 |-> IF r = 0 THEN Partly(S, hStar) ELSE Perfect(hStar)]
LazyOn(S, hStar) == Partly(S, hStar)

DiamondCosts == {[e \in {<<0, "a">>, <<0, "b">>, <<1, "a">>, <<2, "a">>} |->
                    IF e = <<0, "a">> THEN 3 ELSE c[e]] :
                        c \in [{<<0, "b">>, <<1, "a">>, <<2, "a">>} -> {0, 1}]}
DoubleCosts  == {[e \in {<<0, "a">>, <<0, "b">>, <<1, "b">>, <<3, "a">>} |->
                    IF e = <<0, "a">> THEN 2 ELSE c[e]] :
                        c \in [{<<0, "b">>, <<1, "b">>, <<3, "a">>} -> {0, 2}]}
DeadCosts    == {[e \in {<<0, "a">>, <<1, "a">>, <<1, "b">>, <<2, "a">>} |->
                    IF e = <<1, "a">> THEN 2 ELSE c[e]] :
                        c \in [{<<0, "a">>, <<1, "b">>, <<2, "a">>} -> {0, 1}]}
TrapCosts    == [{<<0, "a">>, <<1, "a">>, <<1, "b">>} -> {0, 2}]
NoChoice     == {[e \in {<<0, "a">>} |-> 3]}

\* The heuristic is informed in the states of S, the lazy one in those of L.
Family(graph, goals, costs, informed, lazily) ==
    {LET H(hStar) == Grown(S, hStar)
         L(hStar) == LazyOn(lazily, hStar)
     IN  Task(graph, goals, c, CheapestCost, H, L, [s \in MCStates |-> {"b"}]) :
        c \in costs, S \in informed}

AStarTasks ==
    Family(Diamond, {4}, DiamondCosts, SUBSET {0, 1, 2}, {0, 1})
    \cup Family(Double, {4}, DoubleCosts, SUBSET {0, 1, 2}, {2})
    \cup Family(Dead, {4}, DeadCosts, SUBSET {2, 3}, {})
    \cup Family(Trap, {4}, TrapCosts, SUBSET {1, 2}, {1, 3})
    \cup Family(CutOff, {4}, NoChoice, SUBSET {0, 1, 2, 3}, {3})

Params(orderings, lists, lazy, mpd, always, interrupted) ==
    [ordering : orderings, openList : lists, lazy : lazy, mpd : mpd,
     reevaluateAlways : always, timeLimited : interrupted,
     memoryLimited : interrupted, mayFail : interrupted]

AStarParams ==
    Params({"AStar"}, {"TieBreaking"}, BOOLEAN, {FALSE}, {FALSE}, {FALSE})
    \cup Params({"AStar"}, {"TieBreaking"}, BOOLEAN, {TRUE}, BOOLEAN, {FALSE})

\* Greedy search: estimates may exceed the goal distance, as FF's do, and a state
\* outside S looks as good as any other.
Inflated(S, hStar) ==
    [r \in 0..1 |->
        [s \in MCStates |-> IF s \notin S THEN r ELSE IF hStar[s] = DeadEnd THEN DeadEnd
                            ELSE 2 * hStar[s]]]
GreedyFamily(graph, goals, costs, informed, helpful) ==
    {LET H(hStar) == Inflated(S, hStar)
         L(hStar) == Partly({}, hStar)
     IN  Task(graph, goals, c, CheapestCost, H, L, helpful) :
        c \in costs, S \in informed}

Helpful == [s \in MCStates |-> IF s = 1 THEN {"a", "b"} ELSE {"b"}]
NoneHelpful == [s \in MCStates |-> {}]
GreedyTasks ==
    GreedyFamily(Diamond, {4}, DiamondCosts, {{}, {1}}, NoneHelpful)
    \cup GreedyFamily(Diamond, {4}, DiamondCosts, SUBSET {0, 1, 2, 3}, Helpful)
    \cup GreedyFamily(Double, {4}, DoubleCosts, SUBSET {1, 2}, Helpful)
    \cup GreedyFamily(Trap, {4}, TrapCosts, SUBSET {1, 2}, Helpful)
    \cup GreedyFamily(CutOff, {4}, NoChoice, SUBSET {0, 1, 3}, Helpful)

DefaultGreedy ==
    Params({"Greedy"}, {"PreferredFirst"}, {FALSE}, {FALSE}, {FALSE}, {FALSE})

\* All searches: a few tasks whose estimates are not admissible besides those of A*,
\* greedy search with preferred operators, and with limits and errors at any point.
SearchTasks ==
    AStarTasks
    \cup GreedyFamily(Diamond, {4}, DiamondCosts, {{}, {1}, {1, 2}}, Helpful)
    \cup GreedyFamily(Double, {4}, DoubleCosts, {{1}, {1, 2}}, Helpful)
    \cup GreedyFamily(CutOff, {4}, NoChoice, {{0, 1, 3}}, Helpful)
AllParams ==
    AStarParams \cup DefaultGreedy
    \cup Params({"Greedy"}, {"TieBreaking", "PreferredFirst"}, {FALSE}, {FALSE}, {FALSE}, {TRUE})
DefaultAStar ==
    Params({"AStar"}, {"TieBreaking"}, {FALSE}, {FALSE}, {FALSE}, {FALSE})

\* A metric that an operator increases by the value of a variable: in the initial
\* state the operators cost 5 and 3, in state 2 the first one costs 1.  The
\* heuristic knows nothing.
LoadGraph == << <<4, 2>>, <<-1, -1>>, <<4, -1>>, <<-1, -1>>, <<-1, -1>> >>
LoadCosts == {[e \in {<<0, "a">>, <<0, "b">>, <<2, "a">>} |->
                    CASE e = <<0, "a">> -> 5 [] e = <<0, "b">> -> 3 [] OTHER -> 1]}
MetricTasks ==
    {LET H(hStar) == [r \in 0..1 |-> Partly({}, hStar)]
         L(hStar) == Partly({}, hStar)
         InInitialState(cost) == [o \in MCOperators |-> cost[0][o]]
     IN  Task(LoadGraph, {4}, c, InInitialState, H, L, Helpful) : c \in LoadCosts}
=============================================================================
