---------------------------- MODULE NumericTask ----------------------------
(***************************************************************************)
(* A numeric task with the values of its variables: propositional          *)
(* variables, numeric variables, and conditions, the truth values of       *)
(* comparisons between two numeric variables.  Values are integers; facts  *)
(* are pairs of a variable and a value.  Variables that axioms derive are  *)
(* left out (see AxiomEvaluator), and so is arithmetic, which restricted   *)
(* tasks fold into their variables.                                        *)
(*                                                                         *)
(* A task t has                                                            *)
(*   variables     the propositional variables, the conditions among them  *)
(*   conditions    of each condition its operands and comparison           *)
(*   types         "regular", "cost" or "constant" for numeric variables   *)
(*   init          the initial values                                      *)
(*   operators     name -> preconditions and effects; see After            *)
(*   costs         operator_cost: the metric's increase initially          *)
(*   goals         facts                                                   *)
(*   metric        a numeric variable, or NoMetric                         *)
(*   minimised     whether the metric is                                   *)
(***************************************************************************)
EXTENDS Integers, Sequences, FiniteSets, SequencesExt, FiniteSetsExt

CONSTANTS
    NoMetric,
    Infinite        \* f64::INFINITY, a number above every sum of costs

Numbers(t) == DOMAIN t.types
OfType(t, type) == {v \in Numbers(t) : t.types[v] = type}
Conditions(t) == DOMAIN t.conditions
Operands(t, c) == {t.conditions[c].left, t.conditions[c].right}

HoldsAll(facts, s) == \A f \in facts : s[f[1]] = f[2]
IsGoalState(t, s) == HoldsAll(t.goals, s)
Applicable(t, s) == {o \in DOMAIN t.operators : HoldsAll(t.operators[o].pre, s)}

Compare(c, left, right) ==
    CASE c = "<=" -> left <= right
      [] c = ">=" -> left >= right
      [] c = "<"  -> left < right
      [] c = ">"  -> left > right
      [] c = "="  -> left = right

\* The value of a condition: 0 is true, as in every SAS+ file.
Evaluated(t, c, s) ==
    LET k == t.conditions[c]
    IN  IF Compare(k.comparison, s[k.left], s[k.right]) THEN 0 ELSE 1
WithConditions(t, s) == [v \in DOMAIN s |-> IF v \in Conditions(t) THEN Evaluated(t, v, s) ELSE s[v]]

-----------------------------------------------------------------------------
(* Effects read the state s before them.  A list of effects is a function on *)
(* positions.                                                                *)

\* The effects on v that apply in s.
On(effects, v, s) == {k \in DOMAIN effects : effects[k].var = v /\ HoldsAll(effects[k].when, s)}

\* Of two effects on a propositional variable the later one counts.
Assigned(o, s) ==
    [v \in DOMAIN s |-> LET on == On(o.effects, v, s)
                        IN  IF on = {} THEN s[v] ELSE o.effects[Max(on)].value]

Operation(name, left, right) ==
    CASE name = "assign" -> right
      [] name = "plus"   -> left + right
      [] name = "minus"  -> left - right

\* What the effects on the number v do, and what they read.
Changes(effects, v, s) ==
    [k \in On(effects, v, s) |-> [operation |-> effects[k].operation, operand |-> s[effects[k].source]]]
\* Further additive effects on one number accumulate.
Accumulated(changes, start) ==
    LET x[k \in Nat] ==
            IF k = 0 THEN start
            ELSE IF k \in DOMAIN changes THEN Operation(changes[k].operation, x[k - 1], changes[k].operand)
            ELSE x[k - 1]
    IN  x[Max({0} \cup DOMAIN changes)]

\* apply_numeric_effects
Computed(o, s, next) ==
    [v \in DOMAIN next |-> Accumulated(Changes(o.assignments, v, s), next[v])]

MetricValue(t, s) == IF t.metric = NoMetric THEN 0 ELSE s[t.metric]
StepCost(t, before, after) ==
    IF t.metric = NoMetric THEN 1
    ELSE IF t.minimised THEN after - before ELSE before - after

\* What applying o to s yields in an explicit state space.
After(t, o, s) ==
    LET op == t.operators[o]
    IN  WithConditions(t, Computed(op, s, Assigned(op, s)))

InitialState(t) == WithConditions(t, t.init)
\* The price of o in s.
Price(t, o, s) ==
    IF t.metric = NoMetric THEN t.costs[o]
    ELSE StepCost(t, MetricValue(t, s), MetricValue(t, After(t, o, s)))

\* What identifies a state: its values, the rows of cost variables aside.
WithoutRows(t, s) == [v \in DOMAIN s |-> IF v \in OfType(t, "cost") THEN t.init[v] ELSE s[v]]

-----------------------------------------------------------------------------
(* What every task has *)

FactsOn(vars, facts) == \A f \in facts : f[1] \in vars

IsEffectList(t, effects, fields) ==
    /\ IsFiniteSet(DOMAIN effects)
    /\ DOMAIN effects \subseteq Nat \ {0}
    /\ \A k \in DOMAIN effects : DOMAIN effects[k] = fields /\ FactsOn(t.variables, effects[k].when)

IsOperator(t, o) ==
    /\ FactsOn(t.variables, o.pre)
    /\ IsEffectList(t, o.effects, {"var", "value", "when"})
    /\ \A k \in DOMAIN o.effects :
           o.effects[k].var \in t.variables \ Conditions(t) /\ o.effects[k].value \in Int
    /\ IsEffectList(t, o.assignments, {"var", "operation", "source", "when"})
    /\ \A k \in DOMAIN o.assignments :
           /\ o.assignments[k].var \in Numbers(t) \ OfType(t, "constant")
           /\ o.assignments[k].source \in Numbers(t) \ OfType(t, "cost")
           /\ o.assignments[k].operation \in {"assign", "plus", "minus"}

\* The metric only grows or shrinks, unless it is one of the numbers of a state.
IsMetric(t) ==
    \/ t.metric = NoMetric
    \/ t.metric \in OfType(t, "regular")
    \/ /\ t.metric \in OfType(t, "cost")
       /\ \A o \in DOMAIN t.operators : \A k \in DOMAIN t.operators[o].assignments :
              t.operators[o].assignments[k].var = t.metric =>
                  t.operators[o].assignments[k].operation # "assign"

IsTask(t) ==
    /\ IsFiniteSet(Numbers(t))
    /\ t.variables \cap Numbers(t) = {}
    /\ t.types \in [Numbers(t) -> {"regular", "cost", "constant"}]
    /\ t.init \in [t.variables \cup Numbers(t) -> Int]
    /\ Conditions(t) \subseteq t.variables
    /\ \A c \in Conditions(t) : Operands(t, c) \subseteq Numbers(t) \ OfType(t, "cost")
    /\ IsFiniteSet(DOMAIN t.operators)
    /\ \A o \in DOMAIN t.operators : IsOperator(t, t.operators[o])
    /\ t.costs \in [DOMAIN t.operators -> Nat]
    /\ FactsOn(t.variables, t.goals)
    /\ IsMetric(t)

\* The values a state of t has: those of its conditions are determined.
IsState(t, s) ==
    /\ s \in [DOMAIN t.init -> Int]
    /\ \A v \in OfType(t, "constant") : s[v] = t.init[v]
    /\ s = WithConditions(t, s)
=============================================================================
