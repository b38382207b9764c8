------------------------- MODULE PatternProperties -------------------------
(***************************************************************************)
(* What the state registry and a pattern database promise the search.      *)
(***************************************************************************)
EXTENDS RegisteredSearch, ExplicitSpace

CONSTANT
    TrueDistances   \* of each task the states that can be reached, rows aside, with
                    \* their goal distances: Infinite without a plan

-----------------------------------------------------------------------------
(* The explicit state space of a task, known without a registry *)

StatesOf(t) == DOMAIN TrueDistances[t]

ASSUME StatesAssumption ==
    \A t \in Tasks : IsStateSpace(t, StatesOf(t)) /\ Cardinality(StatesOf(t)) <= MaxStates
ASSUME PricesAssumption == \A t \in Tasks : PricesAreNatural(t, StatesOf(t))
ASSUME DistancesAssumption == \A t \in Tasks : AreGoalDistances(t, TrueDistances[t])

-----------------------------------------------------------------------------
(* The search *)

\* The operators of the path to i that the nodes record, and the state they lead to
\* when each is applied, effect by effect, to the values before it.
Replay(i) ==
    LET path[n \in 0..MaxStates] ==
            [j \in StateIds |->
                IF n = 0 \/ nodes[j].parent = NotFound
                THEN [applies |-> j = 1, state |-> InitialState(task)]
                ELSE LET before == path[n - 1][nodes[j].parent]
                         o      == nodes[j].operator
                     IN  [applies |-> before.applies /\ o \in Applicable(task, before.state),
                          state   |-> After(task, o, before.state)]]
    IN  path[MaxStates][i]

Gained(s) == StepCost(task, task.init[task.metric], s[task.metric])

\* The registry and the search space: an id stands for one state, no state has two
\* ids, and applying the operators of the recorded path from the initial state leads
\* to it, whatever was deferred, interned or reused on the way.  With a metric, the
\* path costs at most what the node says, and the row of the state exactly that,
\* though rows are kept by another rule than nodes; that of a dead end may be cheaper.
IdsAreStates ==
    LET found == [i \in DOMAIN registry.states |-> Values(i)]
    IN  /\ \A i, j \in DOMAIN found :
               i # j => WithoutRows(task, found[i]) # WithoutRows(task, found[j])
        /\ phase = "searching" => \A i \in DOMAIN found :
               LET path == Replay(i)
               IN  /\ nodes[i].present
                   /\ path.applies
                   /\ WithoutRows(task, path.state) = WithoutRows(task, found[i])
                   /\ task.metric # NoMetric =>
                          /\ Gained(path.state) <= nodes[i].g
                          /\ Gained(found[i]) <= nodes[i].g
                          /\ ~ nodes[i].deadEnd => Gained(found[i]) = nodes[i].g

-----------------------------------------------------------------------------
(* The pattern database *)

\* The conditions of the effects that a projection keeps are in it.
EffectsAreProjected(t, p) ==
    \A o \in DOMAIN t.operators :
        LET op == t.operators[o]
        IN  /\ \A k \in DOMAIN op.effects :
                   op.effects[k].var \in p.variables => FactsOn(p.variables, op.effects[k].when)
            /\ \A k \in DOMAIN op.assignments :
                   op.assignments[k].var \in Numbers(p) => FactsOn(p.variables, op.assignments[k].when)

\* LM-cut's estimate in a projection is admissible for the task.
LmcutIsAdmissible(t, p) ==
    \A s \in StatesOf(t) :
        LmcutEstimate(p, WithoutRows(p, ProjectedState(p, s))) <= TrueDistances[t][s]

IsAbstracted(s, o) ==
    LET a == AbstractStateId(s)
        b == AbstractStateId(Successor(task, o, s))
    IN  a \in exploration.closed =>
            /\ b # NotFound
            /\ a # b =>
                   /\ [source |-> a, operator |-> o, target |-> b] \in exploration.transitions
                   /\ o \in pdb.relevant

\* explore and ProjectedTask: each step of the task from a state whose abstract state
\* was expanded is a transition of the abstract state space, labelled with its
\* operator and for which the operator is relevant, or stays in the abstract state.
\* Cost partitioning assumes it.
StepsAreAbstracted ==
    phase = "built" =>
        \A s \in StatesOf(task) : \A o \in Applicable(task, s) : IsAbstracted(s, o)

\* value: what the database says of a state of the task is never above its goal
\* distance, for states on the frontier and beyond it as well; and what it calls a
\* dead end has no plan.  (projection.rs:7-12 says so of every projection.)
EstimatesAreAdmissible ==
    phase = "built" =>
        \A s \in StatesOf(task) : Value(s) <= TrueDistances[task][s]
=============================================================================
