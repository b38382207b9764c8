------------------------- MODULE BestFirstProperties ------------------------
(***************************************************************************)
(* What is claimed of best-first search.                                   *)
(***************************************************************************)
EXTENDS BestFirst

NodesType == [States -> SearchNode]
RecordType == [revision : Revisions \cup {-1}, h : Estimates]
Phases == {"expand", "generate", "evaluate", "queue"}
Results == {"None", "Solved", "Unsolvable", "Timeout", "OutOfMemory", "Failed"}
StatisticsType ==
    [expanded : Nat, evaluated : Nat, reopened : Nat, deadEnds : Nat,
     untilLastJump : Nat]

\* Every variable holds a value of its type, and an expansion's evaluations and
\* successors belong together: evaluate fills one table for the other.
TypeOK ==
    /\ task \in TaskType
    /\ params \in ParamsType
    /\ pc \in {"initialize", "step", "done"} \cup Phases
    /\ outcome \in [result : Results, goal : States \cup {NoGoal}, cost : Nat]
    /\ nodes \in NodesType
    /\ open \subseteq OpenEntry
    /\ nextOrder \in Nat
    /\ revision \in Revisions
    /\ records \in [States -> RecordType]
    /\ preferred \in [States -> SUBSET Operators]
    /\ expanding \in States
    /\ parentG \in Nat
    /\ taken \subseteq Operators
    /\ cursor \in Nat \ {0}
    /\ successors \in Seq(Operators)
    /\ evaluations \in Seq(Estimates)
    /\ pc = "generate" => evaluations = <<>>
    /\ pc = "evaluate" => Len(evaluations) = cursor - 1 /\ cursor <= Len(successors) + 1
    /\ pc = "queue"    => Len(evaluations) = Len(successors)
    /\ statistics \in StatisticsType
    /\ lastLayer \in Nat \cup {NoLayer}
    /\ nextMemoryCheck \in Nat

Goal(s) == s \in task.goals

\* The path an expansion found to s at cost g still waits to be queued.
Pending(s, g) ==
    /\ pc \in {"generate", "evaluate", "queue"}
    /\ \E k \in 1..Len(successors) :
        /\ pc = "queue" => k >= cursor
        /\ Target(successors[k]) = s
        /\ PathCost(successors[k]) = g

\* Every reached state that is neither closed nor a dead end is queued under the
\* cost of its cheapest path, or about to be: reopening, requeueing, dropping
\* stale entries and generating a state twice in one expansion lose no state.
OpenNodesAreQueued ==
    pc \notin {"initialize", "done"} =>
        \A s \in PresentStates(nodes) :
            \/ nodes[s].closed \/ nodes[s].deadEnd
            \/ \E e \in open : e.state = s /\ e.g = nodes[s].g
            \/ Pending(s, nodes[s].g)

\* A state has at most one live entry, and none while a path to it waits to be
\* queued: no state is expanded twice for the same path.
OneLiveEntry ==
    \A e \in LiveEntries :
        /\ \A f \in LiveEntries : e.state = f.state => e = f
        /\ pc \in Phases => ~Pending(e.state, e.g)

\* An entry has a node, as pop expects, which no entry undercuts; with mpd its
\* state has an evaluation record, as pop expects too.
EntriesHaveNodes ==
    \A e \in open :
        /\ nodes[e.state].present
        /\ nodes[e.state].g <= e.g
        /\ params.mpd => records[e.state] # NoRecord

\* The paths recorded in the nodes are paths of the task: each node but the
\* initial one is reached from its parent, which is no more expensive, by an
\* operator applicable there.
PathsAreReal ==
    \A s \in PresentStates(nodes) :
        IF nodes[s].parent = NoParent
        THEN s = task.init /\ nodes[s].g = 0
        ELSE LET p == nodes[s].parent
                 o == nodes[s].operator
             IN  /\ nodes[p].present
                 /\ o \in ApplicableSet(task, p)
                 /\ task.result[p][o] = s
                 /\ nodes[p].g + task.cost[p][o] <= nodes[s].g

\* No set of nodes is closed under parents, also where operators cost nothing:
\* trace_path leaves every set of states, so it ends in the initial state.
PathsAreAcyclic ==
    \A S \in SUBSET States :
        S # {} => \E s \in S : nodes[s].parent \notin S

\* A closed node that is no goal has passed its path on: each of its successors
\* is reached at most as expensively as through it, or is a dead end.
ClosedNodesAreRelaxed ==
    \A s \in States : nodes[s].closed /\ ~Goal(s) =>
        \A i \in 1..Len(task.applicable[s]) :
            LET o == task.applicable[s][i]
                t == task.result[s][o]
            IN  \/ /\ nodes[t].present
                   /\ nodes[t].deadEnd \/ nodes[t].g <= nodes[s].g + task.cost[s][o]
                \/ s = expanding /\ pc \in {"expand", "done"}
                \/ s = expanding /\ pc = "generate" /\ i >= cursor

\* Only states without a plan are pruned.
DeadEndsAreReal ==
    \A s \in States : nodes[s].deadEnd => task.hStar[s] = DeadEnd

\* A search whose open list ran empty claims unsolvability: there is no plan.
UnsolvableIsRight ==
    outcome.result = "Unsolvable" => task.hStar[task.init] = DeadEnd

\* A* with the default open list returns a plan of optimal cost if its
\* heuristics are admissible, consistent or not: "the production path for
\* guaranteed-optimal planning under an admissible heuristic" (README).
IsOptimal == outcome.result = "Solved" => outcome.cost = task.hStar[task.init]
SolvedCostIsOptimal ==
    /\ params.ordering = "AStar" /\ params.openList = "TieBreaking"
    /\ \A r \in Revisions : Admissible(task, task.h[r])
    /\ Admissible(task, task.lazyH)
    => IsOptimal

\* Search outcome Solved holds a plan "and its cost under the cost function the
\* search minimised": the operators that trace_path returns cost what solution
\* reports, although the paths of the nodes on it may have become cheaper.
ReportedCostIsThePlans ==
    outcome.result = "Solved" =>
        outcome.cost = TracedCost(nodes, outcome.goal, task.cost)

\* An expansion reads the preferred operators of the state it expands, though
\* taking them clears them: a reopened state was evaluated again.
PreferredAreFresh ==
    UsesPreferredOperators(params.openList) =>
        /\ pc \in {"generate", "evaluate", "queue"} => taken = task.preferred[expanding]
        /\ \A e \in LiveEntries : preferred[e.state] = task.preferred[e.state]

-----------------------------------------------------------------------------
(* What the invariants above rest on: the inductive invariant is the        *)
(* conjunction of TypeOK, some of them and the following.                   *)

\* The initial state is reached first, and stays reached at no cost.
SearchStarted ==
    /\ pc = "initialize" => nodes = EmptySpace /\ open = {}
    /\ pc \notin {"initialize", "done"} => nodes[task.init].present /\ nodes[task.init].g = 0

\* No goal is expanded: closing one ends the search.
GoalsAreNotExpanded ==
    pc # "done" => \A s \in States : nodes[s].closed => ~Goal(s)

\* What an expansion remembers is not overtaken by what it does: the expanded
\* state stays closed at the cost that expand read, also when an operator leads
\* back to it, and each successor kept is a node no costlier than the path to it,
\* evaluated once its turn has come.
ExpansionIsCurrent ==
    pc \in Phases =>
        /\ nodes[expanding].present /\ nodes[expanding].closed /\ ~Goal(expanding)
        /\ pc # "expand" =>
            /\ parentG = nodes[expanding].g
            /\ \A k \in 1..Len(successors) :
                /\ successors[k] \in ApplicableSet(task, expanding)
                /\ nodes[Target(successors[k])].present
                /\ nodes[Target(successors[k])].g <= PathCost(successors[k])
            /\ params.mpd => \A k \in 1..Len(evaluations) :
                records[Target(successors[k])] # NoRecord

\* An evaluation that waits for the third phase calls only dead ends dead ends.
EvaluationsAreSafe ==
    pc \in {"evaluate", "queue"} => \A k \in 1..Len(evaluations) :
        evaluations[k] = DeadEnd => task.hStar[Target(successors[k])] = DeadEnd

\* No path leads past the goal distance of the initial state.
PathsAreNoShortcuts ==
    \A s \in PresentStates(nodes) : task.hStar[s] # DeadEnd =>
        /\ task.hStar[task.init] # DeadEnd
        /\ task.hStar[task.init] <= nodes[s].g + task.hStar[s]

\* With admissible heuristics no estimate kept anywhere exceeds the distance.
EstimatesAreAdmissible ==
    /\ \A e \in open : task.hStar[e.state] # DeadEnd => e.h <= task.hStar[e.state]
    /\ pc \in {"evaluate", "queue"} => \A k \in 1..Len(evaluations) :
        task.hStar[Target(successors[k])] # DeadEnd =>
            evaluations[k] <= task.hStar[Target(successors[k])]

\* These belong together: with TypeOK and the invariants on nodes and entries above
\* they make the inductive invariant from which the theorems follow.
SearchInvariant ==
    /\ SearchStarted
    /\ GoalsAreNotExpanded
    /\ ExpansionIsCurrent
    /\ EvaluationsAreSafe
    /\ PathsAreNoShortcuts
    /\ EstimatesAreAdmissible

-----------------------------------------------------------------------------
\* The path of a node only ever gets cheaper, a dead end stays one, and a closed
\* node is opened only by a cheaper path.
NodesOnlyImprove ==
    [][\A s \in States : nodes[s].present =>
        /\ nodes'[s].present
        /\ nodes'[s].g <= nodes[s].g
        /\ nodes[s].deadEnd => nodes'[s].deadEnd /\ nodes'[s].g = nodes[s].g
        /\ nodes[s].closed /\ ~nodes'[s].closed => nodes'[s].g < nodes[s].g]_vars

\* The search ends, also with costs of zero and an online heuristic: every path
\* improves a node, and every requeueing raises an estimate or is the lazy one.
Terminates == <>(pc = "done")

-----------------------------------------------------------------------------
\* What the search does is a search over paths.
Paths == INSTANCE PathSearch WITH
            best <- [s \in States |-> IF nodes[s].present THEN nodes[s].g ELSE -1]
ImplementsPathSearch == Paths!Spec
=============================================================================
