-------------------------- MODULE RegisteredSearch --------------------------
(***************************************************************************)
(* A search of the task with its state registry and its nodes, guided by   *)
(* the pattern database: which states are stored, under which ids, with    *)
(* which rows, and how the nodes refer to them.  States are expanded in    *)
(* any order, which covers that of every open list, and pruned when the    *)
(* database calls them dead ends.                                          *)
(***************************************************************************)
EXTENDS PatternDatabase

CONSTANTS
    MaxStates,      \* bound: the states of a task
    OperatorNames,
    NoOperator

ASSUME MaxStatesAssumption == MaxStates \in Nat
ASSUME OperatorNamesAssumption == \A t \in Tasks : DOMAIN t.operators \subseteq OperatorNames

StateIds == 1..MaxStates
Space == INSTANCE SearchSpace WITH
    States <- StateIds, Operators <- OperatorNames, MaxRevision <- 0, NoParent <- NotFound

VARIABLES
    registry,
    nodes

vars == <<pdbvars, registry, nodes>>

SearchInit ==
    /\ Init
    /\ registry = EmptyRegistry
    /\ nodes = Space!EmptySpace

\* The initial state is registered and reached.
Start ==
    /\ phase = "built"
    /\ phase' = "searching"
    /\ exploration' = NoExploration
    /\ registry' = RegisterInitial(task)
    /\ nodes' = Space!Reach(nodes, 1, NotFound, NoOperator, 0)
    /\ UNCHANGED <<task, projected, config, pdb>>

Values(i) == View(task, registry, i)
Open(i) == nodes[i].present /\ ~ nodes[i].closed /\ ~ nodes[i].deadEnd

\* The cost of a successor: the metric's increase, or without a metric the operator's cost.
PathCost(g, o, cost) == g + IF task.metric = NoMetric THEN task.costs[o] ELSE cost

\* for_each_successor, for one operator
ReachSuccessor(x, context, g, o) ==
    LET a == ApplyInContext(task, x.registry, context, o)
    IN  [registry |-> a.registry,
         nodes    |-> Space!Reach(x.nodes, a.id, context.parent, o, PathCost(g, o, a.cost))]

ReachSuccessors(x, context, g, order) ==
    LET after[k \in 0..Len(order)] ==
            IF k = 0 THEN x ELSE ReachSuccessor(after[k - 1], context, g, order[k])
    IN  after[Len(order)]

\* The state is closed, and reach_successors registers and reaches its successors.
Expand(i) ==
    /\ phase = "searching"
    /\ Open(i)
    /\ ~ IsGoalState(task, Values(i))
    /\ \E order \in SetToSeqs(Applicable(task, Values(i))) :
           LET end == ReachSuccessors([registry |-> registry, nodes |-> Space!Close(nodes, i)],
                                      Context(task, registry, i), nodes[i].g, order)
           IN  registry' = end.registry /\ nodes' = end.nodes
    /\ UNCHANGED pdbvars

Prune(i) ==
    /\ phase = "searching"
    /\ Open(i)
    /\ Value(Values(i)) = Infinite
    /\ nodes' = Space!MarkDeadEnd(nodes, i)
    /\ UNCHANGED <<pdbvars, registry>>

Next ==
    \/ /\ Explore
        /\ UNCHANGED <<registry, nodes>>
    \/ /\ Build
        /\ UNCHANGED <<registry, nodes>>
    \/ Start
    \/ \E i \in StateIds : Expand(i)
    \/ \E i \in StateIds : Prune(i)

Spec == SearchInit /\ [][Next]_vars
=============================================================================
