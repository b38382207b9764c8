----------------------------- MODULE BestFirst ------------------------------
(***************************************************************************)
(* Best-first search: A* and greedy best-first search, with a lazy second  *)
(* heuristic and multi-path dependence (mpd).                              *)
(*                                                                         *)
(* The search is one thread.  Between two expansions a step takes one live *)
(* entry off the open list and decides what it is worth; an expansion runs *)
(* in the three phases of BestFirstSearch::expand, one action per          *)
(* successor and phase, so that the states the loops pass through (a node  *)
(* reached but not yet queued, an estimate older than the heuristic) are   *)
(* states of the specification.  pc says where the search is:              *)
(*                                                                         *)
(*   initialize -> step -> expand -> generate -> evaluate -> queue -> step  *)
(*                  |                                                      *)
(*                  +--> done                                              *)
(***************************************************************************)
EXTENDS SearchSpace, OpenList

CONSTANTS
    Tasks,                  \* the tasks a search may be given
    SearchParams,           \* the configurations it may be given
    MemoryCheckInterval     \* MEMORY_CHECK_EXPANSION_INTERVAL, 1024 expansions

ParamsType ==
    [ordering         : {"AStar", "Greedy"},
     openList         : {"TieBreaking", "PreferredFirst"},
     lazy             : BOOLEAN,
     mpd              : BOOLEAN,
     reevaluateAlways : BOOLEAN,    \* Heuristic::reevaluate_on_every_pop
     timeLimited      : BOOLEAN,
     memoryLimited    : BOOLEAN,
     mayFail          : BOOLEAN]    \* heuristics and effects can return errors

ASSUME TasksAssumption == \A t \in Tasks : IsTask(t)
ASSUME ParamsAssumption == SearchParams \subseteq ParamsType
ASSUME IntervalAssumption == MemoryCheckInterval \in Nat \ {0}

VARIABLES
    task, params,       \* what the search was given; they never change
    pc, outcome,
    nodes,              \* SearchSpace::nodes
    open,               \* open_list
    nextOrder,          \* next_insertion_order
    revision,           \* the heuristic's revision
    records,            \* evaluation_records, kept with mpd only
    preferred,          \* PreferredOperators: those stored and not yet taken
    expanding,          \* expand: the state, its g, its preferred operators,
    parentG,            \*   the loop counter of the current phase, the
    taken,              \*   operators whose path was recorded and the
    cursor,             \*   evaluations of the states they lead to
    successors,
    evaluations,
    statistics,         \* SearchStatistics
    lastLayer,          \* SearchProgress::last_layer
    nextMemoryCheck     \* SearchProgress::next_memory_check

given         == <<task, params>>
heuristicVars == <<revision, records, preferred>>
expansion     == <<expanding, parentG, taken, cursor, successors, evaluations>>
progress      == <<lastLayer, nextMemoryCheck>>
vars == <<given, pc, outcome, nodes, open, nextOrder, heuristicVars, expansion,
          statistics, progress>>

NoRecord == [revision |-> -1, h |-> DeadEnd]
NoLayer == -1
NoGoal == NoParent

-----------------------------------------------------------------------------
(* Helpers over the current state.                                          *)

\* Mutant: an estimate of zero passes for a goal.
IsGoalByEstimate(s)   == task.h[revision][s] = 0

IsGoal(s)     == s \in task.goals
Operator(i)   == task.applicable[expanding][i]
Target(o)     == task.result[expanding][o]
PathCost(o)   == parentG + task.cost[expanding][o]

\* A phase of expand runs its loop over 1..limit with the counter cursor.
Running(phase, limit) == pc = phase /\ cursor <= limit
Finished(phase, limit) == pc = phase /\ cursor > limit

\* The estimate the primary heuristic returns for s at revision r.
Estimate(s, r) == BoundedEstimate(task, s, task.h[r][s])
LazyEstimate(s) == BoundedEstimate(task, s, task.lazyH[s])

\* An evaluation may grow an online heuristic, and its estimate is the grown one.
RevisionsAfter == {r \in {revision, revision + 1} : r \in Revisions}

\* Mutant: preferred operators are stored only when the heuristic grew.
EvaluatePreferringGrowth(s, r) ==
    /\ revision' = r
    /\ records' = IF params.mpd
                  THEN [records EXCEPT ![s] = [revision |-> r, h |-> Estimate(s, r)]]
                  ELSE records
    /\ preferred' = IF UsesPreferredOperators(params.openList) /\ r # revision
                    THEN [preferred EXCEPT ![s] = task.preferred[s]]
                    ELSE preferred

\* What evaluate and record_evaluation change when s is evaluated at revision r.
Evaluate(s, r) ==
    /\ revision' = r
    /\ records' = IF params.mpd
                  THEN [records EXCEPT ![s] = [revision |-> r, h |-> Estimate(s, r)]]
                  ELSE records
    /\ preferred' = IF UsesPreferredOperators(params.openList)
                    THEN [preferred EXCEPT ![s] = task.preferred[s]]
                    ELSE preferred

\* Mutant: a state already queued is not queued again for its cheaper path.
PushOncePerState(s, g, h, isPreferred) ==
    /\ open' = IF \E f \in open : f.state = s THEN open
               ELSE open \cup {[state |-> s, g |-> g, h |-> h, preferred |-> isPreferred,
                                lazyEvaluated |-> FALSE, order |-> nextOrder]}
    /\ nextOrder' = nextOrder + 1

\* push: a new entry, the first after those inserted before.
Push(s, g, h, isPreferred) ==
    /\ open' = open \cup {[state |-> s, g |-> g, h |-> h, preferred |-> isPreferred,
                           lazyEvaluated |-> FALSE, order |-> nextOrder]}
    /\ nextOrder' = nextOrder + 1

\* report_layer: the first node of a higher layer resets "until last jump".
EntersLayer(priority) == params.ordering = "AStar" /\ priority > lastLayer

Finish(result, goal, cost) ==
    /\ pc' = "done"
    /\ outcome' = [result |-> result, goal |-> goal, cost |-> cost]

-----------------------------------------------------------------------------
Init ==
    /\ task \in Tasks
    /\ params \in SearchParams
    /\ pc = "initialize"
    /\ outcome = [result |-> "None", goal |-> NoGoal, cost |-> 0]
    /\ nodes = EmptySpace
    /\ open = {}
    /\ nextOrder = 0
    /\ revision = 0
    /\ records = [s \in States |-> NoRecord]
    /\ preferred = [s \in States |-> {}]
    /\ expanding = task.init
    /\ parentG = 0
    /\ taken = {}
    /\ cursor = 1
    /\ successors = <<>>
    /\ evaluations = <<>>
    /\ statistics = [expanded |-> 0, evaluated |-> 0, reopened |-> 0,
                     deadEnds |-> 0, untilLastJump |-> 0]
    /\ lastLayer = NoLayer
    /\ nextMemoryCheck = 0

(* initialize: reach and evaluate the initial state, and queue it unless the *)
(* heuristic proves it a dead end.                                           *)
InitializeDeadEnd ==
    /\ pc = "initialize"
    /\ \E r \in RevisionsAfter :
        /\ Estimate(task.init, r) = DeadEnd
        /\ Evaluate(task.init, r)
    /\ nodes' = MarkDeadEnd(Reach(nodes, task.init, NoParent, NoOperator, 0), task.init)
    /\ statistics' = [statistics EXCEPT !.evaluated = @ + 1, !.deadEnds = @ + 1]
    /\ pc' = "step"
    /\ UNCHANGED <<given, outcome, open, nextOrder, expansion, progress>>

InitializeOpen ==
    /\ pc = "initialize"
    /\ \E r \in RevisionsAfter :
        /\ Estimate(task.init, r) # DeadEnd
        /\ Evaluate(task.init, r)
        /\ Push(task.init, 0, Estimate(task.init, r), FALSE)
        /\ lastLayer' = IF params.ordering = "AStar" THEN Estimate(task.init, r)
                        ELSE lastLayer
    /\ nodes' = Reach(nodes, task.init, NoParent, NoOperator, 0)
    /\ statistics' = [statistics EXCEPT !.evaluated = @ + 1]
    /\ pc' = "step"
    /\ UNCHANGED <<given, outcome, expansion, nextMemoryCheck>>

-----------------------------------------------------------------------------
(* step: the limits, then pop.                                              *)

MemoryIsMeasured == params.memoryLimited /\ statistics.expanded >= nextMemoryCheck
ScheduleMemoryCheck ==
    nextMemoryCheck' = IF MemoryIsMeasured
                       THEN statistics.expanded + MemoryCheckInterval
                       ELSE nextMemoryCheck

Timeout ==
    /\ pc = "step"
    /\ params.timeLimited
    /\ Finish("Timeout", NoGoal, 0)
    /\ UNCHANGED <<given, nodes, open, nextOrder, heuristicVars, expansion,
                   statistics, progress>>

OutOfMemory ==
    /\ pc = "step"
    /\ MemoryIsMeasured
    /\ ScheduleMemoryCheck
    /\ Finish("OutOfMemory", NoGoal, 0)
    /\ UNCHANGED <<given, nodes, open, nextOrder, heuristicVars, expansion,
                   statistics, lastLayer>>

\* Mutant: an entry of the node's own cost is stale.
StaleOrEqual(e) == nodes[e.state].closed \/ nodes[e.state].g <= e.g

\* An entry is stale once its state was closed or reached more cheaply.
Stale(e) == nodes[e.state].closed \/ nodes[e.state].g < e.g
LiveEntries == {e \in open : ~Stale(e)}

\* The loop of pop returns e: it has dropped the stale entries before e.
IsNext(e) ==
    /\ pc = "step"
    /\ e \in LiveEntries
    /\ IsFirst(params.openList, params.ordering, e, LiveEntries)
Takes(e) == IsNext(e) /\ ScheduleMemoryCheck
Rest(e) == {f \in open \ {e} : PoppedBefore(params.openList, params.ordering, e, f)}

\* Mutant: the popped entry is pushed back with its new estimate only, without the
\* lazy flag and as the first of its key.
RequeueUnchanged(e, h, lazyEvaluated) ==
    /\ open' = Rest(e) \cup {[e EXCEPT !.h = h]}
    /\ nextOrder' = nextOrder

Requeue(e, h, lazyEvaluated) ==
    /\ open' = Rest(e) \cup
                {[e EXCEPT !.h = h, !.order = nextOrder,
                           !.lazyEvaluated = @ \/ lazyEvaluated]}
    /\ nextOrder' = nextOrder + 1

Prune(e) ==
    /\ open' = Rest(e)
    /\ nodes' = MarkDeadEnd(nodes, e.state)
    /\ statistics' = [statistics EXCEPT !.deadEnds = @ + 1]

\* With mpd, an estimate older than the heuristic's revision is outdated.
NeedsReevaluation(e) ==
    /\ params.mpd
    /\ params.reevaluateAlways \/ records[e.state].revision < revision

\* The entry keeps its place: its estimate is current, or did not grow.
KeepsEstimate(e) ==
    IF NeedsReevaluation(e)
    THEN \E r \in RevisionsAfter :
            /\ Estimate(e.state, r) # DeadEnd
            /\ Estimate(e.state, r) <= e.h
            /\ Evaluate(e.state, r)
    ELSE UNCHANGED heuristicVars

NeedsLazy(e) == params.lazy /\ ~e.lazyEvaluated

PopExhausted ==
    /\ pc = "step"
    /\ LiveEntries = {}
    /\ ScheduleMemoryCheck
    /\ open' = {}
    /\ Finish("Unsolvable", NoGoal, 0)
    /\ UNCHANGED <<given, nodes, nextOrder, heuristicVars, expansion, statistics,
                   lastLayer>>

PopReevaluatedDeadEnd(e) ==
    /\ Takes(e)
    /\ NeedsReevaluation(e)
    /\ \E r \in RevisionsAfter :
        /\ Estimate(e.state, r) = DeadEnd
        /\ Evaluate(e.state, r)
    /\ Prune(e)
    /\ UNCHANGED <<given, pc, outcome, nextOrder, expansion, lastLayer>>

PopReevaluatedHigher(e) ==
    /\ Takes(e)
    /\ NeedsReevaluation(e)
    /\ \E r \in RevisionsAfter :
        /\ Estimate(e.state, r) > e.h
        /\ Evaluate(e.state, r)
        /\ Requeue(e, Estimate(e.state, r), FALSE)
    /\ UNCHANGED <<given, pc, outcome, nodes, expansion, statistics, lastLayer>>

PopLazyDeadEnd(e) ==
    /\ Takes(e)
    /\ KeepsEstimate(e)
    /\ NeedsLazy(e)
    /\ LazyEstimate(e.state) = DeadEnd
    /\ Prune(e)
    /\ UNCHANGED <<given, pc, outcome, nextOrder, expansion, lastLayer>>

PopLazyRequeue(e) ==
    /\ Takes(e)
    /\ KeepsEstimate(e)
    /\ NeedsLazy(e)
    /\ LazyEstimate(e.state) # DeadEnd
    /\ Requeue(e, IF LazyEstimate(e.state) > e.h THEN LazyEstimate(e.state) ELSE e.h, TRUE)
    /\ UNCHANGED <<given, pc, outcome, nodes, expansion, statistics, lastLayer>>

\* pop returns e for expansion: its node is closed, and counted.
CloseEntry(e) ==
    /\ Takes(e)
    /\ KeepsEstimate(e)
    /\ ~NeedsLazy(e)
    /\ open' = Rest(e)
    /\ nodes' = Close(nodes, e.state)
    /\ LET priority == EntryPriority(params.ordering, e)
       IN  /\ lastLayer' = IF EntersLayer(priority) THEN priority ELSE lastLayer
           /\ statistics' =
                [statistics EXCEPT
                    !.expanded = @ + 1,
                    !.untilLastJump = IF EntersLayer(priority) THEN statistics.expanded
                                      ELSE @]

PopGoal(e) ==
    /\ CloseEntry(e)
    /\ IsGoal(e.state)
    /\ Finish("Solved", e.state, nodes[e.state].g)
    /\ UNCHANGED <<given, nextOrder, expansion>>

PopExpand(e) ==
    /\ CloseEntry(e)
    /\ ~IsGoal(e.state)
    /\ pc' = "expand"
    /\ expanding' = e.state
    /\ UNCHANGED <<given, outcome, nextOrder, parentG, taken, cursor, successors,
                   evaluations>>

-----------------------------------------------------------------------------
(* expand.                                                                  *)

BeginExpansion ==
    /\ pc = "expand"
    /\ pc' = "generate"
    /\ parentG' = nodes[expanding].g
    /\ taken' = preferred[expanding]
    /\ preferred' = [preferred EXCEPT ![expanding] = {}]
    /\ cursor' = 1
    /\ successors' = <<>>
    /\ evaluations' = <<>>
    /\ UNCHANGED <<given, outcome, nodes, open, nextOrder, revision, records,
                   expanding, statistics, progress>>

\* reach_successors: the path through each applicable operator, in the order of
\* the successor generator.  Duplicates are dropped.
Generate ==
    /\ Running("generate", Len(task.applicable[expanding]))
    /\ cursor' = cursor + 1
    /\ LET o       == Operator(cursor)
           reached == Reached(nodes, Target(o), PathCost(o))
           reopens == reached = "Cheaper" /\ nodes[Target(o)].closed
       IN  /\ nodes' = Reach(nodes, Target(o), expanding, o, PathCost(o))
           /\ successors' = IF reached = "Duplicate" THEN successors
                            ELSE Append(successors, o)
           /\ statistics' =
                [statistics EXCEPT
                    !.evaluated = IF reached = "New" THEN @ + 1 ELSE @,
                    !.reopened  = IF reopens THEN @ + 1 ELSE @]
    /\ UNCHANGED <<given, pc, outcome, open, nextOrder, heuristicVars, expanding,
                   parentG, taken, evaluations, progress>>

\* The second phase evaluates the successors that were kept.
EvaluateSuccessor ==
    /\ Running("evaluate", Len(successors))
    /\ cursor' = cursor + 1
    /\ \E r \in RevisionsAfter :
        /\ Evaluate(Target(successors[cursor]), r)
        /\ evaluations' = Append(evaluations, Estimate(Target(successors[cursor]), r))
    /\ UNCHANGED <<given, pc, outcome, nodes, open, nextOrder, expanding, parentG,
                   taken, successors, statistics, progress>>

\* The third phase marks a successor as a dead end, once, or queues it.
QueueDeadEnd ==
    /\ Running("queue", Len(successors))
    /\ evaluations[cursor] = DeadEnd
    /\ cursor' = cursor + 1
    /\ LET s == Target(successors[cursor])
       IN  /\ nodes' = MarkDeadEnd(nodes, s)
           /\ statistics' = [statistics EXCEPT
                                !.deadEnds = IF nodes[s].deadEnd THEN @ ELSE @ + 1]
    /\ UNCHANGED <<given, pc, outcome, open, nextOrder, heuristicVars, expanding,
                   parentG, taken, successors, evaluations, progress>>

\* Mutant: queued under the cost of the node, not of the path that reached it.
QueueAtNodeCost ==
    /\ Running("queue", Len(successors))
    /\ evaluations[cursor] # DeadEnd
    /\ cursor' = cursor + 1
    /\ LET o == successors[cursor]
       IN  Push(Target(o), nodes[Target(o)].g, evaluations[cursor],
                UsesPreferredOperators(params.openList) /\ o \in taken)
    /\ UNCHANGED <<given, pc, outcome, nodes, heuristicVars, expanding, parentG,
                   taken, successors, evaluations, statistics, progress>>

QueueSuccessor ==
    /\ Running("queue", Len(successors))
    /\ evaluations[cursor] # DeadEnd
    /\ cursor' = cursor + 1
    /\ LET o == successors[cursor]
       IN  Push(Target(o), PathCost(o), evaluations[cursor],
                UsesPreferredOperators(params.openList) /\ o \in taken)
    /\ UNCHANGED <<given, pc, outcome, nodes, heuristicVars, expanding, parentG,
                   taken, successors, evaluations, statistics, progress>>

\* One phase ends and the next begins; the last returns to step.
NextPhase ==
    /\ \/ Finished("generate", Len(task.applicable[expanding])) /\ pc' = "evaluate"
       \/ Finished("evaluate", Len(successors)) /\ pc' = "queue"
       \/ Finished("queue", Len(successors)) /\ pc' = "step"
    /\ cursor' = 1
    /\ UNCHANGED <<given, outcome, nodes, open, nextOrder, heuristicVars, expanding,
                   parentG, taken, successors, evaluations, statistics, progress>>

-----------------------------------------------------------------------------
\* A heuristic or an effect returns an error, which ends the search.
Fail ==
    /\ params.mayFail
    /\ \/ pc = "initialize"
       \/ Running("generate", Len(task.applicable[expanding]))
       \/ Running("evaluate", Len(successors))
       \/ \E e \in open : IsNext(e) /\ (NeedsReevaluation(e) \/ NeedsLazy(e))
    /\ Finish("Failed", NoGoal, 0)
    /\ UNCHANGED <<given, nodes, open, nextOrder, heuristicVars, expansion,
                   statistics, progress>>

Done == pc = "done" /\ UNCHANGED vars

Next ==
    \/ InitializeDeadEnd \/ InitializeOpen
    \/ Timeout \/ OutOfMemory \/ PopExhausted
    \/ \E e \in open :
        \/ PopReevaluatedDeadEnd(e) \/ PopReevaluatedHigher(e)
        \/ PopLazyDeadEnd(e) \/ PopLazyRequeue(e)
        \/ PopGoal(e) \/ PopExpand(e)
    \/ BeginExpansion
    \/ Generate \/ EvaluateSuccessor \/ QueueDeadEnd \/ QueueSuccessor \/ NextPhase
    \/ Fail \/ Done

\* The search is a loop of one thread, which runs whenever it can.
Spec == Init /\ [][Next]_vars
FairSpec == Spec /\ WF_vars(Next)
=============================================================================
