----------------------------- MODULE Projection -----------------------------
(***************************************************************************)
(* The projection of a task to a pattern, a set of its variables: the task *)
(* over the pattern, what its conditions and effects read, and the         *)
(* comparisons over its numbers; operators and goals drop the rest.  It    *)
(* keeps the operators' names and costs.                                   *)
(***************************************************************************)
EXTENDS NumericTask

\* collect_restricted_projected_goals: a goal on a condition is kept if the pattern
\* has the condition or one of its operands.
KeepsGoal(t, pattern, g) ==
    \/ g[1] \in pattern
    \/ g[1] \in Conditions(t) /\ Operands(t, g[1]) \cap pattern # {}
KeptGoals(t, pattern) == {g \in t.goals : KeepsGoal(t, pattern, g)}

PulledVariables(t, pattern) ==
    (pattern \cap t.variables) \cup {g[1] : g \in KeptGoals(t, pattern)}
PulledNumbers(t, pattern) ==
    (pattern \cap Numbers(t))
        \cup UNION {Operands(t, c) : c \in PulledVariables(t, pattern) \cap Conditions(t)}

\* The sources of every effect on these numbers, and theirs.
Sources(t, numbers) ==
    UNION {{e.source : e \in {x \in Range(t.operators[o].assignments) : x.var \in numbers}} :
              o \in DOMAIN t.operators}
IsClosed(t, numbers) == Sources(t, numbers) \subseteq numbers
ClosedUnderSources(t, numbers) ==
    {v \in Numbers(t) : \A N \in SUBSET Numbers(t) : numbers \subseteq N /\ IsClosed(t, N) => v \in N}

\* include_comparisons_over_projected_variables
ReadsOnly(t, c, numbers) ==
    LET constants == OfType(t, "constant")
    IN  /\ Operands(t, c) \subseteq numbers \cup constants
        /\ (Operands(t, c) \cap numbers) \ constants # {}

ProjectedFacts(facts, variables) == {f \in facts : f[1] \in variables}
\* The effects on projected variables, under the conditions that are projected.
ProjectedEffects(effects, vars, variables) ==
    [k \in {k \in DOMAIN effects : effects[k].var \in vars} |->
        [effects[k] EXCEPT !.when = ProjectedFacts(@, variables)]]

\* project_restricted_operator
ProjectedOperator(o, variables, numbers) ==
    [pre         |-> ProjectedFacts(o.pre, variables),
     effects     |-> ProjectedEffects(o.effects, variables, variables),
     assignments |-> ProjectedEffects(o.assignments, numbers, variables)]
ChangesSomething(o) == DOMAIN o.effects # {} \/ DOMAIN o.assignments # {}

\* ProjectedTask::new
Projected(t, pattern) ==
    LET pulled    == ClosedUnderSources(t, PulledNumbers(t, pattern))
        compared  == {c \in Conditions(t) : ReadsOnly(t, c, pulled)}
        variables == PulledVariables(t, pattern) \cup compared
        numbers   == pulled \cup UNION {Operands(t, c) : c \in compared}
        operators == [o \in DOMAIN t.operators |->
                         ProjectedOperator(t.operators[o], variables, numbers)]
        kept      == {o \in DOMAIN operators : ChangesSomething(operators[o])}
    IN  [variables  |-> variables,
         conditions |-> [c \in Conditions(t) \cap variables |-> t.conditions[c]],
         types      |-> [v \in numbers |-> t.types[v]],
         init       |-> [v \in variables \cup numbers |-> t.init[v]],
         operators  |-> [o \in kept |-> operators[o]],
         costs      |-> [o \in kept |-> t.costs[o]],
         goals      |-> KeptGoals(t, pattern),
         metric     |-> IF t.metric \in numbers THEN t.metric ELSE NoMetric,
         minimised  |-> t.minimised]

\* project_state_values_into
ProjectedState(projected, s) == [v \in DOMAIN projected.init |-> s[v]]

\* min_operator_cost, infinite when the projection keeps no operator
CheapestOperator(projected) ==
    Min({Infinite} \cup {projected.costs[o] : o \in DOMAIN projected.costs})
=============================================================================
