----------------------------- MODULE MCPatterns -----------------------------
(***************************************************************************)
(* Small tasks for the registry and its pattern databases.  Tank has a     *)
(* state that is reached with different rows, and in Profit the metric is  *)
(* maximised; Levels has numbers that are copied and swapped, and an       *)
(* operator with two additive effects on one of them; Switch has effects   *)
(* with conditions, dead ends and no metric.                               *)
(***************************************************************************)
EXTENDS PatternProperties

Op(pre, effects, assignments) == [pre |-> pre, effects |-> effects, assignments |-> assignments]
Set(v, x) == [var |-> v, value |-> x, when |-> {}]
When(f, v, x) == [var |-> v, value |-> x, when |-> {f}]
Num(v, operation, source) == [var |-> v, operation |-> operation, source |-> source, when |-> {}]
Condition(left, comparison, right) == [left |-> left, comparison |-> comparison, right |-> right]

TankOperators(charge) ==
    [fill |-> Op({<<"low", 0>>}, <<>>, <<Num("level", "plus", "one"), Num("total", charge, "one")>>),
     pour |-> Op({<<"at", 0>>}, <<Set("at", 1)>>, <<Num("total", charge, "two")>>),
     dash |-> Op({<<"at", 0>>, <<"low", 1>>}, <<Set("at", 1)>>, <<Num("total", charge, "one")>>)]
TankTask(charge, minimised) ==
    [variables  |-> {"at", "low"},
     conditions |-> [low |-> Condition("level", "<=", "two")],
     types      |-> [level |-> "regular", one |-> "constant", two |-> "constant", total |-> "cost"],
     init       |-> [at |-> 0, low |-> 0, level |-> 0, one |-> 1, two |-> 2, total |-> 0],
     operators  |-> TankOperators(charge),
     costs      |-> [fill |-> 1, pour |-> 2, dash |-> 1],
     goals      |-> {<<"at", 1>>, <<"low", 1>>},
     metric     |-> "total",
     minimised  |-> minimised]
Tank   == TankTask("plus", TRUE)
Profit == TankTask("minus", FALSE)

Levels ==
    [variables  |-> {"ordered", "small", "big"},
     conditions |-> [ordered |-> Condition("x", "<=", "y"), small |-> Condition("x", "<=", "one"),
                     big |-> Condition("x", ">=", "three")],
     types      |-> [x |-> "regular", y |-> "regular", one |-> "constant", three |-> "constant",
                     total |-> "cost"],
     init       |-> [ordered |-> 0, small |-> 0, big |-> 1, x |-> 0, y |-> 1, one |-> 1,
                     three |-> 3, total |-> 0],
     operators  |->
         [swap |-> Op({<<"ordered", 0>>}, <<>>, <<Num("x", "assign", "y"), Num("y", "assign", "x"),
                                                  Num("total", "plus", "one")>>),
          grow |-> Op({<<"ordered", 0>>, <<"small", 0>>}, <<>>,
                      <<Num("x", "plus", "one"), Num("x", "plus", "one"), Num("total", "plus", "one")>>),
          copy |-> Op({<<"ordered", 1>>}, <<>>, <<Num("y", "assign", "x"), Num("total", "plus", "one")>>)],
     costs      |-> [swap |-> 1, grow |-> 1, copy |-> 1],
     goals      |-> {<<"big", 0>>},
     metric     |-> "total",
     minimised  |-> TRUE]

SwitchOperators ==
    [flip  |-> Op({}, <<When(<<"a", 0>>, "a", 1), When(<<"a", 1>>, "a", 0)>>, <<>>),
     press |-> Op({<<"a", 1>>, <<"c", 0>>}, <<Set("b", 1)>>, <<>>),
     spoil |-> Op({<<"b", 0>>}, <<Set("c", 1)>>, <<>>)]
SwitchTask(operators) ==
    [variables  |-> {"a", "b", "c"},
     conditions |-> [v \in {} |-> 0],
     types      |-> [v \in {} |-> "regular"],
     init       |-> [a |-> 0, b |-> 0, c |-> 0],
     operators  |-> operators,
     costs      |-> [o \in DOMAIN operators |-> IF o = "press" THEN 2 ELSE 1],
     goals      |-> {<<"a", 0>>, <<"b", 1>>},
     metric     |-> NoMetric,
     minimised  |-> TRUE]
Switch == SwitchTask(SwitchOperators)

\* An effect on b under a condition on c, which a pattern without c drops.
Guarded == SwitchTask(
    [press |-> Op({}, <<Set("b", 1)>>, <<>>),
     flip  |-> Op({<<"a", 0>>}, <<Set("a", 1), When(<<"c", 1>>, "b", 0)>>, <<>>)])
GuardedTasks == {[Guarded EXCEPT !.init.b = 1, !.goals = {<<"a", 1>>, <<"b", 1>>}]}

MCTasks == {Tank, Profit, Levels, Switch}

Pairs(S) == {p \in SUBSET S : p # {} /\ Cardinality(p) <= 2}
MCPatternsOf(t) == Pairs(t.variables \cup OfType(t, "regular"))

\* An admissible estimate that is exact up to 2 and on dead ends.
MCLmcut(t, s) ==
    LET d == GoalDistancesFrom(t, s)[WithoutRows(t, s)]
    IN  IF d = Infinite THEN d ELSE Min({d, 2})

\* The inner heuristics of lookups that fail vary with those of the frontier.
Inner == {<<"blind", "zero">>, <<"blind", "blind">>, <<"lmcut", "lmcut">>}
MCConfigs ==
    {[maxStates |-> m, exploration |-> e, frontier |-> i[1], failedLookup |-> i[2]] :
        m \in {1, 3}, e \in {"blind", "lmcut"}, i \in Inner}

MCOperatorNames == UNION {DOMAIN t.operators : t \in MCTasks \cup GuardedTasks}
Distances == [t \in MCTasks \cup GuardedTasks |-> GoalDistancesFrom(t, InitialState(t))]
MCTrueDistances == Distances

\* What the theorems on pattern databases assume, but the guarded tasks.
ASSUME MCTasksAssumption ==
    \A t \in MCTasks :
        /\ CostsArePaid(t, StatesOf(t))
        /\ \A pattern \in MCPatternsOf(t) :
               /\ EffectsAreProjected(t, Projected(t, pattern))
               /\ LmcutIsAdmissible(t, Projected(t, pattern))
=============================================================================
