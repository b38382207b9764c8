------------------------------ MODULE MCLmCut ------------------------------
(***************************************************************************)
(* Small tasks for numeric LM-cut.                                         *)
(***************************************************************************)
EXTENDS LmCut

Op(pre, effects, assignments) == [pre |-> pre, effects |-> effects, assignments |-> assignments]
Set(v, x) == [var |-> v, value |-> x, when |-> {}]
When(f, v, x) == [var |-> v, value |-> x, when |-> {f}]
Num(v, operation, source) == [var |-> v, operation |-> operation, source |-> source, when |-> {}]
NumWhen(f, v, operation, source) ==
    [var |-> v, operation |-> operation, source |-> source, when |-> {f}]
Compared(left, comparison, right) == [left |-> left, comparison |-> comparison, right |-> right]

LmTask(variables, conditions, types, init, operators, costs, goals) ==
    [variables |-> variables, conditions |-> conditions, types |-> types, init |-> init,
     operators |-> operators, costs |-> costs, goals |-> goals,
     metric |-> NoMetric, minimised |-> TRUE]

\* x grows by one, or by two once it is open; the goals are on x and on its distance to y.
Tank == LmTask({"low", "enough", "above", "open"},
    [low |-> Compared("x", "<=", "one"), enough |-> Compared("x", ">=", "three"),
     above |-> Compared("y", ">", "x")],
    [x |-> "regular", y |-> "regular", one |-> "constant", two |-> "constant", three |-> "constant"],
    [low |-> 0, enough |-> 1, above |-> 1, open |-> 0, x |-> 0, y |-> 0,
     one |-> 1, two |-> 2, three |-> 3],
    [step |-> Op({<<"low", 0>>}, <<>>, <<Num("x", "plus", "one")>>),
     jump |-> Op({<<"low", 0>>, <<"open", 1>>}, <<>>, <<Num("x", "plus", "two")>>),
     unlock |-> Op({<<"open", 0>>}, <<Set("open", 1)>>, <<>>),
     raise |-> Op({<<"above", 1>>, <<"open", 1>>}, <<>>, <<Num("y", "plus", "two")>>)],
    [step |-> 2, jump |-> 3, unlock |-> 1, raise |-> 2],
    {<<"enough", 0>>})

\* flip has an effect with a condition, and no precondition.
Switch == LmTask({"a", "b", "g"}, [c \in {} |-> 0], [v \in {} |-> "regular"],
    [a |-> 1, b |-> 0, g |-> 0],
    [flip |-> Op({}, <<Set("b", 1), When(<<"a", 1>>, "g", 1)>>, <<>>),
     hint |-> Op({<<"a", 1>>}, <<Set("b", 1)>>, <<>>),
     slow |-> Op({<<"b", 1>>}, <<Set("g", 1)>>, <<>>),
     drop |-> Op({<<"a", 1>>}, <<Set("a", 0)>>, <<>>)],
    [flip |-> 2, hint |-> 1, slow |-> 3, drop |-> 0],
    {<<"b", 1>>, <<"g", 1>>})

\* x is set to y and grows by y.
Copy == LmTask({"small", "big", "equal"},
    [small |-> Compared("y", "<=", "one"), big |-> Compared("x", ">", "two"),
     equal |-> Compared("x", "=", "y")],
    [x |-> "regular", y |-> "regular", one |-> "constant", two |-> "constant"],
    [small |-> 0, big |-> 1, equal |-> 0, x |-> 0, y |-> 0, one |-> 1, two |-> 2],
    [count |-> Op({<<"small", 0>>}, <<>>, <<Num("y", "plus", "one")>>),
     copy |-> Op({<<"big", 1>>}, <<>>, <<Num("x", "assign", "y")>>),
     add |-> Op({<<"equal", 0>>, <<"big", 1>>}, <<>>, <<Num("x", "plus", "y")>>)],
    [count |-> 1, copy |-> 2, add |-> 1],
    {<<"big", 0>>})

\* A tap that pours one unit, and two more when it is open; it must be shut at the end.
Pour == LmTask({"space", "full", "open"},
    [space |-> Compared("x", "<", "three"), full |-> Compared("two", "<=", "x")],
    [x |-> "regular", one |-> "constant", two |-> "constant", three |-> "constant"],
    [space |-> 0, full |-> 1, open |-> 1, x |-> 0, one |-> 1, two |-> 2, three |-> 3],
    [pour |-> Op({<<"space", 0>>}, <<>>,
                 <<Num("x", "plus", "one"), NumWhen(<<"open", 1>>, "x", "plus", "two")>>),
     drain |-> Op({<<"space", 1>>, <<"open", 0>>}, <<>>, <<Num("x", "minus", "two")>>),
     shut |-> Op({<<"open", 1>>}, <<Set("open", 0)>>, <<>>)],
    [pour |-> 2, drain |-> 1, shut |-> 1],
    {<<"full", 0>>, <<"open", 0>>})

\* The second effect of twice needs the first and fetch: after a cut that takes the cost of
\* twice, h^max of g is that of fetch, and the incremental exploration says 0.
Chain == LmTask({"a", "p", "q", "g"}, [c \in {} |-> 0], [v \in {} |-> "regular"],
    [a |-> 1, p |-> 0, q |-> 0, g |-> 0],
    [twice |-> [pre |-> {}, effects |-> <<When(<<"a", 1>>, "p", 1),
                   [When(<<"p", 1>>, "g", 1) EXCEPT !.when = {<<"p", 1>>, <<"q", 1>>}]>>,
                assignments |-> <<>>],
     fetch |-> Op({<<"a", 1>>}, <<Set("q", 1)>>, <<>>)],
    [twice |-> 2, fetch |-> 1],
    {<<"g", 1>>})

\* Tasks outside of what the run checks: with One = 10, each violates
\* EstimateIsAdmissible (see the README on LM-cut).
Unguarded == LmTask({"c", "g"}, [c |-> Compared("x", ">=", "one")],
    [x |-> "regular", one |-> "constant"], [c |-> 1, g |-> 0, x |-> 0, one |-> One],
    [press |-> Op({}, <<When(<<"c", 1>>, "g", 1)>>, <<>>)], [press |-> 1], {<<"g", 1>>})
Count(init, last, assignments) == LmTask({"low", "above"},
    [low |-> Compared("x", "<=", "zero"), above |-> Compared("x", ">", last)],
    [x |-> "regular", zero |-> "constant", one |-> "constant", two |-> "constant"],
    [low |-> 0, above |-> 1, x |-> init, zero |-> 0, one |-> One, two |-> 2 * One],
    [count |-> Op({<<"low", 0>>}, <<>>, assignments)], [count |-> 1], {<<"above", 0>>})
Fractional == Count(-5, "zero", <<Num("x", "plus", "one")>>)
Doubled == Count(0, "two", <<Num("x", "plus", "one"), Num("x", "plus", "two")>>)
UnsafeTasks == {Unguarded, Fractional, Doubled}

MCTasks == {Tank, Switch, Copy, Pour, Chain}
Default == [ceiling |-> FALSE, irmax |-> FALSE, disableMa |-> FALSE]
Distances == [t \in MCTasks \cup UnsafeTasks |-> GoalDistancesFrom(t, InitialState(t))]
MCTrueDistances == Distances

MCOptions == {Default, [Default EXCEPT !.ceiling = TRUE], [Default EXCEPT !.irmax = TRUE],
              [Default EXCEPT !.disableMa = TRUE]}

\* The tasks that are checked are those of the theorems; these do not speak of Doubled
\* and Unguarded, nor of Fractional where One is 10.
ASSUME MCTasksAssumption ==
    /\ ProperTasks /\ RelaxedTasks /\ PaidTasks
    /\ ~ IsProper(Unguarded, DOMAIN Distances[Unguarded])
    /\ ~ IsRelaxation(Doubled, DOMAIN Distances[Doubled])
=============================================================================
