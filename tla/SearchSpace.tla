---------------------------- MODULE SearchSpace -----------------------------
(***************************************************************************)
(* The search nodes: for each reached state the cheapest path found to it, *)
(* and the CLOSED and DEAD_END bits of its status.  The operators below    *)
(* map the table of nodes to its successor; modules that search keep the   *)
(* table in a variable.                                                    *)
(***************************************************************************)
EXTENDS SearchTask

CONSTANTS
    NoParent,       \* the NO_PARENT sentinel
    NoOperator      \* the operator stored with it

ASSUME NoParentAssumption == NoParent \notin States
ASSUME NoOperatorAssumption == NoOperator \notin Operators

SearchNode ==
    [present  : BOOLEAN,
     parent   : States \cup {NoParent},
     operator : Operators \cup {NoOperator},
     g        : Nat,
     closed   : BOOLEAN,
     deadEnd  : BOOLEAN]

NoNode ==
    [present |-> FALSE, parent |-> NoParent, operator |-> NoOperator,
     g |-> 0, closed |-> FALSE, deadEnd |-> FALSE]

EmptySpace == [s \in States |-> NoNode]

\* Mutant: paths of equal cost count as cheaper.
ReachedOrEqual(nodes, s, g) ==
    IF ~nodes[s].present THEN "New"
    ELSE IF nodes[s].deadEnd \/ nodes[s].g < g THEN "Duplicate"
    ELSE "Cheaper"

\* Duplicate detection: what SearchNodes::reach does with a path of cost g to s.
Reached(nodes, s, g) ==
    IF ~nodes[s].present THEN "New"
    ELSE IF nodes[s].deadEnd \/ nodes[s].g <= g THEN "Duplicate"
    ELSE "Cheaper"

\* The node after SearchNodes::reach recorded the path: open, whatever it was.
NewPath(parent, operator, g) ==
    [present |-> TRUE, parent |-> parent, operator |-> operator,
     g |-> g, closed |-> FALSE, deadEnd |-> FALSE]

\* Mutant: a cheaper path leaves the node closed.
ReachStayingClosed(nodes, s, parent, operator, g) ==
    IF Reached(nodes, s, g) = "Duplicate" THEN nodes
    ELSE [nodes EXCEPT ![s] = [NewPath(parent, operator, g)
                                  EXCEPT !.closed = nodes[s].closed]]

Reach(nodes, s, parent, operator, g) ==
    IF Reached(nodes, s, g) = "Duplicate" THEN nodes
    ELSE [nodes EXCEPT ![s] = NewPath(parent, operator, g)]

Close(nodes, s)       == [nodes EXCEPT ![s].closed = TRUE]
MarkDeadEnd(nodes, s) == [nodes EXCEPT ![s].deadEnd = TRUE]

PresentStates(nodes) == {s \in States : nodes[s].present}

\* trace_path, from s back to the initial state: the price of the operators on
\* it, each in the state the path applies it in.  A path visits a state once, so
\* it has fewer operators than there are states.
TracedCost(nodes, s, cost) ==
    LET traced[n \in 0..Cardinality(States), u \in States] ==
            IF n = 0 \/ nodes[u].parent = NoParent THEN 0
            ELSE LET p == nodes[u].parent
                 IN  cost[p][nodes[u].operator] + traced[n - 1, p]
    IN  traced[Cardinality(States), s]
=============================================================================
