--------------------------- MODULE CartesianTask ---------------------------
(***************************************************************************)
(* A task as a Cartesian abstraction sees it: dimensions (the operator     *)
(* variables and the numeric coordinates), facts over them, operators that *)
(* change each dimension on its own, and what a region, a set of values    *)
(* per dimension, admits and where an operator may lead from it.           *)
(*                                                                         *)
(* A fact is the set of valuations of its dimensions that satisfy it: one  *)
(* value of a propositional variable, or a linear condition over numeric   *)
(* coordinates.  Facts derived by propositional axioms are left out.  The  *)
(* values of a coordinate are a window of the integers, wide enough that a *)
(* run never leaves it (WindowIsWide in CartesianProperties).              *)
(***************************************************************************)
EXTENDS Integers, Sequences, FiniteSets

CONSTANTS
    Dimensions,
    Numeric,        \* the coordinates among them
    Values,         \* the values of each dimension
    Tasks           \* [operators, goals, roots]; an operator is [pre, effects, cost]

States == {s \in [Dimensions -> UNION {Values[d] : d \in Dimensions}] :
              \A d \in Dimensions : s[d] \in Values[d]}

\* Facts are conditions on dimensions, and the root states are in the window.
IsFact(f) == f.dims \subseteq Dimensions
ASSUME TaskAssumption ==
    /\ Numeric \subseteq Dimensions
    /\ Values \in [Dimensions -> SUBSET Int]
    /\ \A t \in Tasks :
           /\ \A f \in t.goals : IsFact(f)
           /\ \A o \in DOMAIN t.operators :
                  /\ \A f \in t.operators[o].pre : IsFact(f)
                  /\ t.operators[o].cost \in Nat
           /\ t.roots \subseteq States

VARIABLE task

Names == DOMAIN task.operators
Cost(o) == task.operators[o].cost
Pre(o)  == task.operators[o].pre
Effects(o) == task.operators[o].effects
Written(o) == DOMAIN Effects(o)

Holds(f, s) == [d \in f.dims |-> s[d]] \in f.satisfying
Unsatisfied(facts, s) == {f \in facts : ~ Holds(f, s)}

Image(o, d, v) == IF d \in Written(o) THEN Effects(o)[d][v] ELSE v
Successor(s, o) == [d \in Dimensions |-> Image(o, d, s[d])]

-----------------------------------------------------------------------------
(* Regions *)

TrivialRegion == Values

InRegion(s, r) == \A d \in Dimensions : s[d] \in r[d]

\* A region admits a condition if it has values that satisfy it, but each fact on
\* its own.
Admits(r, f) == \E v \in f.satisfying : \A d \in f.dims : v[d] \in r[d]
IsGoal(r) == \A f \in task.goals : Admits(r, f)
OperatorMayApply(r, o) == \A f \in Pre(o) : Admits(r, f)

\* The value an operator requires of a propositional variable that it leaves alone.
PrevailValues(o, d) ==
    {v[d] : v \in UNION {f.satisfying : f \in {g \in Pre(o) : d \notin Numeric /\ g.dims = {d}}}}

DimensionMayTransition(source, o, target, d) ==
    IF d \notin Written(o) /\ PrevailValues(o, d) # {}
    THEN PrevailValues(o, d) \cap target[d] # {}
    ELSE \E v \in source[d] : Image(o, d, v) \in target[d]

MayTransition(source, o, target) ==
    /\ OperatorMayApply(source, o)
    /\ \A d \in Dimensions : DimensionMayTransition(source, o, target, d)

-----------------------------------------------------------------------------
(* What a split along one dimension can change. *)

DependsOnSplit(o, d) == d \in Written(o) \/ \E f \in Pre(o) : d \in f.dims
SplitDependentOperators(d) == {o \in Names : DependsOnSplit(o, d)}

MayApplyAfterSplit(child, o, d) == \A f \in Pre(o) : d \in f.dims => Admits(child, f)

\* Mutant: applicability is not tested again in a source that was split.
MayTransitionUntested(source, o, target, d, splitEnd) ==
    IF DependsOnSplit(o, d)
    THEN DimensionMayTransition(source, o, target, d)
    ELSE source[d] \cap target[d] # {}

\* The transitions of a split state are tested along the split dimension only.
MayTransitionAfterSplit(source, o, target, d, splitEnd) ==
    IF DependsOnSplit(o, d)
    THEN /\ splitEnd = "target" \/ MayApplyAfterSplit(source, o, d)
         /\ DimensionMayTransition(source, o, target, d)
    ELSE source[d] \cap target[d] # {}

MayLoopAfterSplit(source, o, target, d) ==
    /\ MayApplyAfterSplit(source, o, d)
    /\ DimensionMayTransition(source, o, target, d)
=============================================================================
