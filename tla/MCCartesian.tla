---------------------------- MODULE MCCartesian ----------------------------
(***************************************************************************)
(* Small tasks for TLC: a place p with three values and two counters x and *)
(* y.  Costs are even and the tolerance is 1, so that only a real          *)
(* difference counts as an improvement.                                    *)
(***************************************************************************)
EXTENDS CartesianProperties, TLC

MCDimensions == {"p", "x", "y"}
MCNumeric == {"x", "y"}
MCValues == [d \in MCDimensions |-> IF d = "p" THEN 0..2 ELSE -2..5]
MCOperators == {"a", "b", "c", "d"}

At(v)       == [dims |-> {"p"}, satisfying |-> {[e \in {"p"} |-> v]}]
Least(d, n) == [dims |-> {d}, satisfying |-> {[e \in {d} |-> v] : v \in {w \in MCValues[d] : w >= n}}]
Most(d, n)  == [dims |-> {d}, satisfying |-> {[e \in {d} |-> v] : v \in {w \in MCValues[d] : w <= n}}]
SumLeast(n) == [dims |-> {"x", "y"},
                satisfying |-> {v \in [{"x", "y"} -> MCValues["x"]] : v["x"] + v["y"] >= n}]

Op(pre, effects, cost) == [pre |-> pre, effects |-> effects, cost |-> cost]
MoveTo(v)  == [e \in {"p"} |-> [w \in MCValues["p"] |-> v]]
Plus(d, n) == [e \in {d} |-> [v \in MCValues[d] |-> v + n]]
Set(d, n)  == [e \in {d} |-> [v \in MCValues[d] |-> n]]
State(p, x, y) == [d \in MCDimensions |-> CASE d = "p" -> p [] d = "x" -> x [] d = "y" -> y]

SplitOf(d, first, witness) == [state |-> 1, dimension |-> d, first |-> first, witness |-> witness]

\* Going from 0 over 1 to 2 takes one x each time; x is filled up at 0.
Travel ==
    [operators |-> [a |-> Op({At(0), Least("x", 1)}, MoveTo(1) @@ Plus("x", -1), 2),
                    b |-> Op({At(1), Least("x", 1)}, MoveTo(2) @@ Plus("x", -1), 2),
                    c |-> Op({At(0)}, Plus("x", 2), 4)],
     goals |-> {At(2)}, constants |-> {1}, regressable |-> TRUE,
     roots |-> {State(0, 0, 0), State(0, 1, 0)},
     splits |-> << <<>>, <<SplitOf("p", {0}, 0), SplitOf("p", {2}, 2)>> >>]

\* A sum of two counters, the cheaper of which can be raised only at 1.
Sum ==
    [operators |-> [a |-> Op({}, Plus("x", 1), 4),
                    b |-> Op({At(1)}, Plus("y", 2), 2),
                    c |-> Op({At(0)}, MoveTo(1), 2)],
     goals |-> {SumLeast(3)}, constants |-> {3}, regressable |-> FALSE,
     roots |-> {State(0, 0, 0)},
     splits |-> << <<>>, <<SplitOf("x", {v \in MCValues["x"] : v <= 0}, 0),
                           SplitOf("y", {v \in MCValues["y"] : v < 0}, 0)>> >>]

\* x cannot be raised from 2 to 3, which moving to 2 takes: there is no plan.
Gap ==
    [operators |-> [a |-> Op({Most("x", 1)}, Plus("x", 1), 2),
                    b |-> Op({Least("x", 3)}, MoveTo(2), 0),
                    c |-> Op({At(0)}, MoveTo(1) @@ Set("x", 0), 2)],
     goals |-> {At(2)}, constants |-> {1, 3}, regressable |-> TRUE,
     roots |-> {State(0, 0, 0)},
     splits |-> << <<>>, <<SplitOf("p", {0}, 0), SplitOf("y", {v \in MCValues["y"] : v <= 0}, 0)>> >>]

\* Resetting x is free, but the goal needs x on both sides of 1 in turn.
Reset ==
    [operators |-> [a |-> Op({At(0), Least("x", 2)}, MoveTo(1) @@ Set("x", 0), 0),
                    b |-> Op({At(1)}, Plus("x", 1), 2),
                    c |-> Op({At(1), Most("x", 1)}, MoveTo(2), 4),
                    d |-> Op({}, Plus("x", 2), 6)],
     goals |-> {At(2), Least("x", 1)}, constants |-> {1, 2}, regressable |-> TRUE,
     roots |-> {State(0, 0, 0), State(0, 2, 0)},
     splits |-> << <<>>, <<SplitOf("p", {0}, 0), SplitOf("x", {v \in MCValues["x"] : v <= 0}, 0)>> >>]

MCTasks == {Travel, Sum, Gap, Reset}

\* The hypothesis of the theorem about distances holds of these tasks.
ASSUME MCCostsAreResolved == CostsAreResolved

Option(flaw, scope, kind, selection) ==
    [flaw |-> flaw, scope |-> scope, kind |-> kind, selection |-> selection,
     blacklist |-> {}, initial |-> 1, timed |-> FALSE]
MCOptions ==
    {Option("progression", "first", "concrete", "min_growth"),
     Option("progression", "first", "wanted", "random"),
     Option("progression", "whole_plan", "wanted", "min_growth"),
     Option("regression", "first", "wanted", "min_growth"),
     [Option("regression", "first", "concrete", "min_growth") EXCEPT !.timed = TRUE],
     [Option("progression", "whole_plan", "concrete", "random") EXCEPT !.initial = 2, !.blacklist = {"y"}]}
=============================================================================
