-------------------------- MODULE BestFirst_proofs --------------------------
(***************************************************************************)
(* What best-first search guarantees whatever the ordering, the open list, *)
(* the heuristics' quality and the task: its variables keep their types,   *)
(* no reached state is lost, only dead ends are pruned, and "unsolvable"   *)
(* is right.  The lemmas about types and operators come first; the         *)
(* invariants are proved in layers, and a later layer uses those before it.*)
(* The second part is about the paths that are recorded, up to the         *)
(* optimality of A*.                                                       *)
(***************************************************************************)
EXTENDS BestFirstProperties, SequenceTheorems, WellFoundedInduction, TLAPS

\* Every set of natural numbers but the empty one has a least element.
LEMMA LeastNatural ==
    ASSUME NEW S \in SUBSET Nat, S # {}
    PROVE  \E m \in S : \A n \in S : m <= n
<1>1. \E m \in S : \A n \in S : ~(<<n, m>> \in OpToRel(<, Nat))
    BY WFMin, NatLessThanWellFounded
<1>2. \A m, n \in S : ~(<<n, m>> \in OpToRel(<, Nat)) => m <= n
    BY DEF OpToRel
<1> QED BY <1>1, <1>2

-----------------------------------------------------------------------------
(* The task.                                                                *)

\* What the type of a task says of its parts.
LEMMA TaskParts ==
    ASSUME NEW t \in TaskType
    PROVE  /\ t.init \in States
           /\ t.goals \subseteq States
           /\ \A s \in States :
                /\ t.applicable[s] \in Seq(Operators)
                /\ t.lazyH[s] \in Estimates
                /\ t.hStar[s] \in Estimates
                /\ t.steps[s] \in Nat
                /\ t.preferred[s] \subseteq Operators
                /\ \A o \in Operators : t.result[s][o] \in States /\ t.cost[s][o] \in Nat
           /\ \A r \in Revisions : \A s \in States : t.h[r][s] \in Estimates
           /\ \A o \in Operators : t.operatorCost[o] \in Nat
    BY DEF TaskType

\* min_operator_cost is a natural number, and no operator costs less.
LEMMA MinOperatorCostIsLeast ==
    ASSUME NEW t \in TaskType
    PROVE  /\ MinOperatorCost(t) \in Nat
           /\ \A o \in Operators : MinOperatorCost(t) <= t.operatorCost[o]
<1>1. CASE Operators = {}
    BY <1>1 DEF MinOperatorCost
<1>2. CASE Operators # {}
    <2> DEFINE costs == {t.operatorCost[o] : o \in Operators}
    <2>1. costs \in SUBSET Nat /\ costs # {}
        BY <1>2, TaskParts
    <2>2. \E m \in costs : \A n \in costs : m <= n
        BY <2>1, LeastNatural
    <2>3. \E c \in costs : \A o \in Operators : c <= t.operatorCost[o]
        BY <2>2
    <2>4. /\ MinOperatorCost(t) \in costs
          /\ \A o \in Operators : MinOperatorCost(t) <= t.operatorCost[o]
        BY <1>2, <2>3 DEF MinOperatorCost
    <2> QED BY <2>1, <2>4
<1> QED BY <1>1, <1>2

\* bounded_estimate returns an estimate, a dead end exactly for a dead end.
LEMMA BoundedEstimateType ==
    ASSUME NEW t \in TaskType, NEW s \in States, NEW h \in Estimates
    PROVE  /\ BoundedEstimate(t, s, h) \in Estimates
           /\ BoundedEstimate(t, s, h) = DeadEnd <=> h = DeadEnd
    BY MinOperatorCostIsLeast DEF BoundedEstimate, Estimates, DeadEnd

LEMMA RevisionZero == 0 \in Revisions
    BY RevisionAssumption DEF Revisions

-----------------------------------------------------------------------------
(* The nodes and the open list.                                             *)

LEMMA EmptySpaceType == EmptySpace \in NodesType
    BY DEF EmptySpace, NoNode, NodesType, SearchNode

\* The operations on the node table return a node table.
LEMMA SpaceTypes ==
    ASSUME NEW space \in NodesType, NEW s \in States,
           NEW p \in States \cup {NoParent}, NEW o \in Operators \cup {NoOperator},
           NEW g \in Nat
    PROVE  /\ Reach(space, s, p, o, g) \in NodesType
           /\ Close(space, s) \in NodesType
           /\ MarkDeadEnd(space, s) \in NodesType
    BY DEF Reach, NewPath, Close, MarkDeadEnd, NodesType, SearchNode

\* The estimates of the two heuristics, and the revision after an evaluation.
LEMMA EstimateTypes ==
    ASSUME TypeOK, NEW s \in States
    PROVE  /\ \A r \in RevisionsAfter : r \in Revisions /\ Estimate(s, r) \in Estimates
           /\ LazyEstimate(s) \in Estimates
    BY TaskParts, BoundedEstimateType DEF TypeOK, RevisionsAfter, Estimate, LazyEstimate

\* The operator at a position of the expanded state's list, and where it leads.
LEMMA TransitionTypes ==
    ASSUME TypeOK
    PROVE  /\ \A i \in 1..Len(task.applicable[expanding]) : Operator(i) \in Operators
           /\ \A i \in 1..Len(successors) : successors[i] \in Operators
           /\ \A o \in Operators : Target(o) \in States /\ PathCost(o) \in Nat
<1>1. task \in TaskType /\ expanding \in States /\ parentG \in Nat
      /\ successors \in Seq(Operators)
    BY DEF TypeOK
<1>2. \A i \in 1..Len(task.applicable[expanding]) : Operator(i) \in Operators
    BY <1>1, TaskParts, ElementOfSeq DEF Operator
<1>3. \A i \in 1..Len(successors) : successors[i] \in Operators
    BY <1>1, ElementOfSeq
<1>4. \A o \in Operators : Target(o) \in States /\ PathCost(o) \in Nat
    BY <1>1, TaskParts DEF Target, PathCost
<1> QED BY <1>2, <1>3, <1>4

\* What evaluate writes has its type.
LEMMA EvaluateTypes ==
    ASSUME TypeOK, NEW s \in States, NEW r \in RevisionsAfter, Evaluate(s, r)
    PROVE  /\ revision' \in Revisions
           /\ records' \in [States -> RecordType]
           /\ preferred' \in [States -> SUBSET Operators]
<1>1. revision' \in Revisions
    BY EstimateTypes DEF Evaluate
<1>2. records' \in [States -> RecordType]
    BY EstimateTypes DEF Evaluate, RecordType, TypeOK
<1>3. preferred' \in [States -> SUBSET Operators]
    BY TaskParts DEF Evaluate, TypeOK
<1> QED BY <1>1, <1>2, <1>3

\* So has the entry that push inserts, and the one that requeue does.
LEMMA PushTypes ==
    ASSUME TypeOK, NEW s \in States, NEW g \in Nat, NEW h \in Nat, NEW b \in BOOLEAN,
           Push(s, g, h, b)
    PROVE  open' \subseteq OpenEntry /\ nextOrder' \in Nat
<1>1. open \subseteq OpenEntry /\ nextOrder \in Nat
    BY DEF TypeOK
<1>2. [state |-> s, g |-> g, h |-> h, preferred |-> b, lazyEvaluated |-> FALSE,
       order |-> nextOrder] \in OpenEntry
    BY <1>1 DEF OpenEntry
<1>3. open' \subseteq OpenEntry
    BY <1>1, <1>2, Zenon DEF Push
<1>4. nextOrder' \in Nat
    BY <1>1 DEF Push
<1> QED BY <1>3, <1>4

LEMMA RequeueTypes ==
    ASSUME TypeOK, NEW e \in open, NEW h \in Nat, NEW b \in BOOLEAN, Requeue(e, h, b)
    PROVE  open' \subseteq OpenEntry /\ nextOrder' \in Nat
<1>1. open \subseteq OpenEntry /\ nextOrder \in Nat
    BY DEF TypeOK
<1>2. [e EXCEPT !.h = h, !.order = nextOrder, !.lazyEvaluated = @ \/ b] \in OpenEntry
    <2> DEFINE lazy == e.lazyEvaluated \/ b
    <2>1. lazy \in BOOLEAN
        OBVIOUS
    <2> HIDE DEF lazy
    <2>2. [e EXCEPT !.h = h, !.order = nextOrder, !.lazyEvaluated = lazy] \in OpenEntry
        BY <1>1, <2>1 DEF OpenEntry
    <2> QED BY <2>2 DEF lazy
<1>3. open' \subseteq OpenEntry
    BY <1>1, <1>2 DEF Requeue, Rest
<1>4. nextOrder' \in Nat
    BY <1>1 DEF Requeue
<1> QED BY <1>3, <1>4

\* An entry's parts.
LEMMA EntryParts ==
    ASSUME TypeOK, NEW e \in open
    PROVE  /\ e.state \in States /\ e.g \in Nat /\ e.h \in Nat
           /\ EntryPriority(params.ordering, e) \in Nat
    BY DEF TypeOK, OpenEntry, EntryPriority, Priority

LEMMA KeepsEstimateTypes ==
    ASSUME TypeOK, NEW e \in open, KeepsEstimate(e)
    PROVE  /\ revision' \in Revisions
           /\ records' \in [States -> RecordType]
           /\ preferred' \in [States -> SUBSET Operators]
<1>1. CASE NeedsReevaluation(e)
    BY <1>1, EntryParts, EvaluateTypes DEF KeepsEstimate
<1>2. CASE ~NeedsReevaluation(e)
    BY <1>2 DEF KeepsEstimate, heuristicVars, TypeOK
<1> QED BY <1>1, <1>2

LEMMA MemoryCheckType ==
    ASSUME TypeOK, ScheduleMemoryCheck
    PROVE  nextMemoryCheck' \in Nat
    BY IntervalAssumption DEF TypeOK, ScheduleMemoryCheck, StatisticsType

\* The counters are numbers.
LEMMA CounterTypes ==
    ASSUME NEW st \in StatisticsType
    PROVE  /\ st.evaluated \in Nat /\ st.reopened \in Nat /\ st.deadEnds \in Nat
           /\ st.expanded \in Nat
    BY DEF StatisticsType

\* Closing a node, and marking it a dead end.
LEMMA NodeFlagTypes ==
    ASSUME NEW space \in NodesType, NEW s \in States
    PROVE  Close(space, s) \in NodesType /\ MarkDeadEnd(space, s) \in NodesType
<1>1. space[s] \in SearchNode
    BY DEF NodesType
<1>2. [space[s] EXCEPT !.closed = TRUE] \in SearchNode /\ [space[s] EXCEPT !.deadEnd = TRUE] \in SearchNode
    BY <1>1 DEF SearchNode
<1>3. \A n \in SearchNode : [space EXCEPT ![s] = n] \in NodesType
    BY DEF NodesType
<1>4. /\ Close(space, s) = [space EXCEPT ![s] = [space[s] EXCEPT !.closed = TRUE]]
      /\ MarkDeadEnd(space, s) = [space EXCEPT ![s] = [space[s] EXCEPT !.deadEnd = TRUE]]
    BY DEF Close, MarkDeadEnd
<1> QED BY <1>2, <1>3, <1>4

LEMMA PruneTypes ==
    ASSUME TypeOK, NEW e \in open, Prune(e)
    PROVE  /\ open' \subseteq OpenEntry
           /\ nodes' \in NodesType
           /\ statistics' \in StatisticsType
<1>1. open' \subseteq OpenEntry
    BY DEF Prune, Rest, TypeOK
<1>2. nodes' \in NodesType
    BY EntryParts, NodeFlagTypes DEF Prune, TypeOK
<1>3. statistics' \in StatisticsType
    <2>1. statistics \in StatisticsType /\ statistics.deadEnds + 1 \in Nat
        BY CounterTypes DEF TypeOK
    <2>2. \A i \in Nat : [statistics EXCEPT !.deadEnds = i] \in StatisticsType
        BY <2>1 DEF StatisticsType
    <2> QED BY <2>1, <2>2 DEF Prune
<1> QED BY <1>1, <1>2, <1>3

LEMMA CloseEntryTypes ==
    ASSUME TypeOK, NEW e \in open, CloseEntry(e)
    PROVE  /\ open' \subseteq OpenEntry
           /\ nodes' \in NodesType
           /\ statistics' \in StatisticsType
           /\ lastLayer' \in Nat \cup {NoLayer}
           /\ nextMemoryCheck' \in Nat
<1>1. open' \subseteq OpenEntry
    BY DEF CloseEntry, Rest, TypeOK
<1>2. nodes' \in NodesType
    BY EntryParts, NodeFlagTypes DEF CloseEntry, TypeOK
<1>3. statistics' \in StatisticsType
    <2>1. statistics \in StatisticsType /\ statistics.expanded \in Nat
        BY DEF TypeOK, StatisticsType
    <2>2. PICK j \in Nat :
              statistics' = [statistics EXCEPT !.expanded = @ + 1, !.untilLastJump = j]
        <3>1. CASE EntersLayer(EntryPriority(params.ordering, e))
            BY <2>1, <3>1 DEF CloseEntry
        <3>2. CASE ~EntersLayer(EntryPriority(params.ordering, e))
            BY <2>1, <3>2 DEF CloseEntry, StatisticsType
        <3> QED BY <3>1, <3>2
    <2>3. j \in Nat /\ statistics.expanded + 1 \in Nat
        BY <2>1, <2>2
    <2>4. \A i, k \in Nat :
              [statistics EXCEPT !.expanded = i, !.untilLastJump = k] \in StatisticsType
        BY <2>1 DEF StatisticsType
    <2> QED BY <2>2, <2>3, <2>4
<1>4. lastLayer' \in Nat \cup {NoLayer}
    BY EntryParts DEF CloseEntry, TypeOK
<1>5. nextMemoryCheck' \in Nat
    BY MemoryCheckType DEF CloseEntry, Takes
<1> QED BY <1>1, <1>2, <1>3, <1>4, <1>5

LEMMA FinishType ==
    ASSUME NEW result \in Results, NEW goal \in States \cup {NoGoal}, NEW cost \in Nat,
           Finish(result, goal, cost)
    PROVE  /\ pc' = "done"
           /\ outcome' \in [result : Results, goal : States \cup {NoGoal}, cost : Nat]
    BY DEF Finish

-----------------------------------------------------------------------------
(* The type invariant.                                                      *)

LEMMA InitType == Init => TypeOK
<1> SUFFICES ASSUME Init PROVE TypeOK
    OBVIOUS
<1>1. task \in TaskType /\ params \in ParamsType
    BY TasksAssumption, ParamsAssumption DEF Init, IsTask
<1>2. expanding \in States
    BY <1>1, TaskParts DEF Init
<1>3. nodes \in NodesType
    BY EmptySpaceType DEF Init
<1>4. outcome \in [result : Results, goal : States \cup {NoGoal}, cost : Nat]
    BY DEF Init, Results
<1>5. records \in [States -> RecordType] /\ preferred \in [States -> SUBSET Operators]
    BY DEF Init, NoRecord, RecordType, Estimates
<1>6. successors \in Seq(Operators) /\ evaluations \in Seq(Estimates)
    BY EmptySeq DEF Init
<1>7. statistics \in StatisticsType
    BY DEF Init, StatisticsType
<1>8. revision \in Revisions
    BY RevisionZero DEF Init
<1> QED BY <1>1, <1>2, <1>3, <1>4, <1>5, <1>6, <1>7, <1>8 DEF Init, TypeOK

LEMMA InitializeType ==
    ASSUME TypeOK, InitializeDeadEnd \/ InitializeOpen
    PROVE  TypeOK'
<1>1. task.init \in States /\ nodes \in NodesType /\ statistics \in StatisticsType
    BY TaskParts DEF TypeOK
<1>2. Reach(nodes, task.init, NoParent, NoOperator, 0) \in NodesType
    BY <1>1, SpaceTypes
<1>3. CASE InitializeDeadEnd
    <2>1. nodes' \in NodesType
        BY <1>1, <1>2, <1>3, NodeFlagTypes DEF InitializeDeadEnd
    <2>2. statistics' \in StatisticsType
        <3>1. statistics.evaluated + 1 \in Nat /\ statistics.deadEnds + 1 \in Nat
            BY <1>1, CounterTypes
        <3>2. \A i, j \in Nat :
                  [statistics EXCEPT !.evaluated = i, !.deadEnds = j] \in StatisticsType
            BY <1>1 DEF StatisticsType
        <3> QED BY <1>3, <3>1, <3>2 DEF InitializeDeadEnd
    <2>3. /\ revision' \in Revisions
          /\ records' \in [States -> RecordType]
          /\ preferred' \in [States -> SUBSET Operators]
        BY <1>1, <1>3, EvaluateTypes DEF InitializeDeadEnd
    <2> QED BY <1>3, <2>1, <2>2, <2>3
            DEF InitializeDeadEnd, TypeOK, given, expansion, progress
<1>4. CASE InitializeOpen
    <2>1. PICK r \in RevisionsAfter :
            /\ Estimate(task.init, r) # DeadEnd
            /\ Evaluate(task.init, r)
            /\ Push(task.init, 0, Estimate(task.init, r), FALSE)
            /\ lastLayer' = IF params.ordering = "AStar" THEN Estimate(task.init, r)
                            ELSE lastLayer
        BY <1>4 DEF InitializeOpen
    <2>2. Estimate(task.init, r) \in Nat
        BY <1>1, <2>1, EstimateTypes DEF Estimates
    <2>3. open' \subseteq OpenEntry /\ nextOrder' \in Nat
        BY <1>1, <2>1, <2>2, PushTypes
    <2>4. /\ revision' \in Revisions
          /\ records' \in [States -> RecordType]
          /\ preferred' \in [States -> SUBSET Operators]
        BY <1>1, <2>1, EvaluateTypes
    <2>5. lastLayer' \in Nat \cup {NoLayer}
        BY <2>1, <2>2 DEF TypeOK
    <2>6. statistics' \in StatisticsType
        BY <1>1, <1>4 DEF InitializeOpen, StatisticsType
    <2> QED BY <1>2, <1>4, <2>3, <2>4, <2>5, <2>6
            DEF InitializeOpen, TypeOK, given, expansion
<1> QED BY <1>3, <1>4

\* The steps that end the search.
LEMMA EndType ==
    ASSUME TypeOK, Timeout \/ OutOfMemory \/ PopExhausted \/ Fail
    PROVE  TypeOK'
<1>1. CASE Timeout
    BY <1>1, FinishType DEF Timeout, TypeOK, Results, given, heuristicVars, expansion,
                            progress
<1>2. CASE OutOfMemory
    BY <1>2, FinishType, MemoryCheckType
       DEF OutOfMemory, TypeOK, Results, given, heuristicVars, expansion
<1>3. CASE PopExhausted
    BY <1>3, FinishType, MemoryCheckType
       DEF PopExhausted, TypeOK, Results, given, heuristicVars, expansion
<1>4. CASE Fail
    BY <1>4, FinishType DEF Fail, TypeOK, Results, given, heuristicVars, expansion,
                            progress
<1> QED BY <1>1, <1>2, <1>3, <1>4

LEMMA PopType ==
    ASSUME TypeOK, NEW e \in open,
           \/ PopReevaluatedDeadEnd(e) \/ PopReevaluatedHigher(e)
           \/ PopLazyDeadEnd(e) \/ PopLazyRequeue(e)
           \/ PopGoal(e) \/ PopExpand(e)
    PROVE  TypeOK'
<1>1. e.state \in States /\ e.g \in Nat /\ e.h \in Nat
    BY EntryParts
<1>2. CASE PopReevaluatedDeadEnd(e)
    <2>1. /\ revision' \in Revisions
          /\ records' \in [States -> RecordType]
          /\ preferred' \in [States -> SUBSET Operators]
        BY <1>1, <1>2, EvaluateTypes DEF PopReevaluatedDeadEnd
    <2> QED BY <1>2, <2>1, PruneTypes, MemoryCheckType
            DEF PopReevaluatedDeadEnd, Takes, TypeOK, given, expansion
<1>3. CASE PopReevaluatedHigher(e)
    <2>1. PICK r \in RevisionsAfter :
            /\ Estimate(e.state, r) > e.h
            /\ Evaluate(e.state, r)
            /\ Requeue(e, Estimate(e.state, r), FALSE)
        BY <1>3 DEF PopReevaluatedHigher
    <2>2. Estimate(e.state, r) \in Nat
        BY <1>1, <2>1, EstimateTypes DEF Estimates, DeadEnd
    <2>3. /\ revision' \in Revisions
          /\ records' \in [States -> RecordType]
          /\ preferred' \in [States -> SUBSET Operators]
        BY <1>1, <2>1, EvaluateTypes
    <2>4. open' \subseteq OpenEntry /\ nextOrder' \in Nat
        BY <2>1, <2>2, RequeueTypes
    <2> QED BY <1>3, <2>3, <2>4, MemoryCheckType
            DEF PopReevaluatedHigher, Takes, TypeOK, given, expansion
<1>4. CASE PopLazyDeadEnd(e)
    BY <1>4, KeepsEstimateTypes, PruneTypes, MemoryCheckType
       DEF PopLazyDeadEnd, Takes, TypeOK, given, expansion
<1>5. CASE PopLazyRequeue(e)
    <2> DEFINE h == IF LazyEstimate(e.state) > e.h THEN LazyEstimate(e.state) ELSE e.h
    <2>1. h \in Nat
        BY <1>1, EstimateTypes DEF Estimates, DeadEnd
    <2>2. Requeue(e, h, TRUE)
        BY <1>5 DEF PopLazyRequeue
    <2> HIDE DEF h
    <2>3. open' \subseteq OpenEntry /\ nextOrder' \in Nat
        BY <2>1, <2>2, RequeueTypes
    <2> QED BY <1>5, <2>3, KeepsEstimateTypes, MemoryCheckType
            DEF PopLazyRequeue, Takes, TypeOK, given, expansion
<1>6. CASE PopGoal(e)
    <2>1. nodes[e.state].g \in Nat
        BY <1>1 DEF TypeOK, NodesType, SearchNode
    <2>2. /\ pc' = "done"
          /\ outcome' \in [result : Results, goal : States \cup {NoGoal}, cost : Nat]
        BY <1>1, <1>6, <2>1, FinishType DEF PopGoal, Results
    <2> QED BY <1>6, <2>2, CloseEntryTypes, KeepsEstimateTypes
            DEF PopGoal, CloseEntry, TypeOK, given, expansion
<1>7. CASE PopExpand(e)
    <2>1. pc' = "expand" /\ expanding' \in States
        BY <1>1, <1>7 DEF PopExpand
    <2> QED BY <1>7, <2>1, CloseEntryTypes, KeepsEstimateTypes
            DEF PopExpand, CloseEntry, TypeOK, Phases, given
<1> QED BY <1>2, <1>3, <1>4, <1>5, <1>6, <1>7

LEMMA ExpandType ==
    ASSUME TypeOK,
           BeginExpansion \/ Generate \/ EvaluateSuccessor \/ QueueDeadEnd
           \/ QueueSuccessor \/ NextPhase
    PROVE  TypeOK'
<1>1. CASE BeginExpansion
    <2>1. parentG' \in Nat /\ taken' \subseteq Operators
          /\ preferred' \in [States -> SUBSET Operators]
        BY <1>1 DEF BeginExpansion, TypeOK, NodesType, SearchNode
    <2>2. successors' \in Seq(Operators) /\ evaluations' \in Seq(Estimates)
        BY <1>1, EmptySeq DEF BeginExpansion
    <2> QED BY <1>1, <2>1, <2>2
            DEF BeginExpansion, TypeOK, Phases, given, progress
<1>2. CASE Generate
    <2> DEFINE o == Operator(cursor)
               reached == Reached(nodes, Target(o), PathCost(o))
    <2>1. cursor \in 1..Len(task.applicable[expanding]) /\ cursor \in Nat
        BY <1>2, TaskParts, LenProperties DEF Generate, Running, TypeOK
    <2>2. o \in Operators /\ Target(o) \in States /\ PathCost(o) \in Nat
        BY <2>1, TransitionTypes
    <2>3. nodes' \in NodesType
        <3>1. nodes' = Reach(nodes, Target(o), expanding, o, PathCost(o))
            BY <1>2 DEF Generate
        <3>2. nodes \in NodesType /\ expanding \in States
            BY DEF TypeOK
        <3> QED BY <2>2, <3>1, <3>2, SpaceTypes
    <2>4. successors' \in Seq(Operators)
        <3>1. successors' = successors \/ successors' = Append(successors, o)
            BY <1>2 DEF Generate
        <3>2. successors \in Seq(Operators)
            BY DEF TypeOK
        <3> QED BY <2>2, <3>1, <3>2, AppendProperties
    <2>5. statistics' \in StatisticsType
        <3>1. statistics \in StatisticsType
            BY DEF TypeOK
        <3>2. statistics.evaluated \in Nat /\ statistics.reopened \in Nat
            BY <3>1, CounterTypes
        <3>3. \E i, j \in Nat : statistics' = [statistics EXCEPT !.evaluated = i, !.reopened = j]
            <4> DEFINE i == IF reached = "New" THEN statistics.evaluated + 1
                            ELSE statistics.evaluated
                       j == IF reached = "Cheaper" /\ nodes[Target(o)].closed
                            THEN statistics.reopened + 1 ELSE statistics.reopened
            <4>1. i \in Nat /\ j \in Nat
                BY <3>2
            <4>2. statistics' = [statistics EXCEPT !.evaluated = i, !.reopened = j]
                BY <1>2, Zenon DEF Generate
            <4> HIDE DEF i, j
            <4> QED BY <4>1, <4>2
        <3>4. \A i, j \in Nat :
                  [statistics EXCEPT !.evaluated = i, !.reopened = j] \in StatisticsType
            BY <3>1 DEF StatisticsType
        <3> QED BY <3>3, <3>4
    <2>6. cursor' \in Nat \ {0} /\ pc' = "generate" /\ evaluations' = evaluations
        BY <1>2, <2>1 DEF Generate, Running
    <2> QED BY <1>2, <2>3, <2>4, <2>5, <2>6
            DEF Generate, Running, TypeOK, given, heuristicVars, progress
<1>3. CASE EvaluateSuccessor
    <2> DEFINE s == Target(successors[cursor])
    <2>1. Len(successors) \in Nat /\ cursor \in 1..Len(successors) /\ cursor \in Nat
        BY <1>3, LenProperties DEF EvaluateSuccessor, Running, TypeOK
    <2>2. s \in States
        BY <2>1, TransitionTypes
    <2>3. PICK r \in RevisionsAfter :
            Evaluate(s, r) /\ evaluations' = Append(evaluations, Estimate(s, r))
        BY <1>3 DEF EvaluateSuccessor
    <2>4. Estimate(s, r) \in Estimates
        BY <2>2, EstimateTypes
    <2> HIDE DEF s
    <2>5. /\ revision' \in Revisions
          /\ records' \in [States -> RecordType]
          /\ preferred' \in [States -> SUBSET Operators]
        BY <2>2, <2>3, EvaluateTypes
    <2>6. evaluations' \in Seq(Estimates) /\ Len(evaluations') = cursor' - 1
        <3>1. evaluations \in Seq(Estimates) /\ Len(evaluations) = cursor - 1
              /\ cursor' = cursor + 1
            BY <1>3 DEF EvaluateSuccessor, Running, TypeOK
        <3> QED BY <2>1, <2>3, <2>4, <3>1, AppendProperties
    <2>7. cursor' \in Nat \ {0} /\ cursor' <= Len(successors) + 1 /\ pc' = "evaluate"
        BY <1>3, <2>1 DEF EvaluateSuccessor, Running
    <2> QED BY <1>3, <2>5, <2>6, <2>7
            DEF EvaluateSuccessor, Running, TypeOK, given, progress
<1>4. CASE QueueDeadEnd
    <2>1. cursor \in 1..Len(successors) /\ cursor \in Nat
        BY <1>4, LenProperties DEF QueueDeadEnd, Running, TypeOK
    <2>2. Target(successors[cursor]) \in States
        BY <2>1, TransitionTypes
    <2>3. nodes' \in NodesType
        BY <1>4, <2>2, NodeFlagTypes DEF QueueDeadEnd, TypeOK
    <2>4. statistics' \in StatisticsType
        <3>1. /\ statistics \in StatisticsType
              /\ \/ statistics' = statistics
                 \/ statistics' = [statistics EXCEPT !.deadEnds = @ + 1]
            <4>1. CASE nodes[Target(successors[cursor])].deadEnd
                BY <1>4, <4>1 DEF QueueDeadEnd, TypeOK, StatisticsType
            <4>2. CASE ~nodes[Target(successors[cursor])].deadEnd
                BY <1>4, <4>2 DEF QueueDeadEnd, TypeOK
            <4> QED BY <4>1, <4>2
        <3>2. statistics.deadEnds + 1 \in Nat
            BY <3>1, CounterTypes
        <3>3. \A i \in Nat : [statistics EXCEPT !.deadEnds = i] \in StatisticsType
            BY <3>1 DEF StatisticsType
        <3> QED BY <3>1, <3>2, <3>3
    <2>5. cursor' \in Nat \ {0} /\ pc' = "queue"
        BY <1>4, <2>1 DEF QueueDeadEnd, Running
    <2> QED BY <1>4, <2>3, <2>4, <2>5
            DEF QueueDeadEnd, TypeOK, given, heuristicVars, progress
<1>5. CASE QueueSuccessor
    <2>1. Len(evaluations) = Len(successors) /\ evaluations \in Seq(Estimates)
        BY <1>5 DEF QueueSuccessor, Running, TypeOK
    <2>2. cursor \in 1..Len(successors) /\ cursor \in Nat
        BY <1>5, LenProperties DEF QueueSuccessor, Running, TypeOK
    <2>3. evaluations[cursor] \in Nat
        BY <1>5, <2>1, <2>2, ElementOfSeq DEF QueueSuccessor, Estimates
    <2>4. successors[cursor] \in Operators
        BY <2>2, TransitionTypes
    <2>5. open' \subseteq OpenEntry /\ nextOrder' \in Nat
        <3> DEFINE o == successors[cursor]
                   b == UsesPreferredOperators(params.openList) /\ o \in taken
        <3>1. Push(Target(o), PathCost(o), evaluations[cursor], b)
            BY <1>5 DEF QueueSuccessor
        <3>2. Target(o) \in States /\ PathCost(o) \in Nat /\ b \in BOOLEAN
            BY <2>4, TransitionTypes
        <3> HIDE DEF o, b
        <3> QED BY <2>3, <3>1, <3>2, PushTypes
    <2>6. cursor' \in Nat \ {0} /\ pc' = "queue"
        BY <1>5, <2>2 DEF QueueSuccessor, Running
    <2> QED BY <1>5, <2>5, <2>6
            DEF QueueSuccessor, TypeOK, given, heuristicVars, progress
<1>6. CASE NextPhase
    <2>1. Len(successors) \in Nat
        BY LenProperties DEF TypeOK
    <2>2. Finished("generate", Len(task.applicable[expanding])) /\ pc' = "evaluate" =>
            Len(evaluations) = 0
        BY EmptySeq DEF TypeOK, Finished
    <2>3. Finished("evaluate", Len(successors)) => Len(evaluations) = Len(successors)
        BY <2>1 DEF TypeOK, Finished
    <2> QED BY <1>6, <2>1, <2>2, <2>3
            DEF NextPhase, Finished, TypeOK, Phases, given, heuristicVars, progress
<1> QED BY <1>1, <1>2, <1>3, <1>4, <1>5, <1>6

LEMMA NextType == TypeOK /\ [Next]_vars => TypeOK'
<1> SUFFICES ASSUME TypeOK, [Next]_vars PROVE TypeOK'
    OBVIOUS
<1>1. CASE UNCHANGED vars \/ Done
    BY <1>1 DEF Done, vars, given, heuristicVars, expansion, progress, TypeOK
<1> QED BY <1>1, InitializeType, EndType, PopType, ExpandType DEF Next

\* Type correctness: in every reachable state of the search, every variable has
\* its type and the tables of an expansion belong together, so that the loops of
\* expand index successors and evaluations only where they are defined.
THEOREM TypeCorrect == Spec => []TypeOK
<1> QED BY InitType, NextType, PTL DEF Spec

-----------------------------------------------------------------------------
(* Invariants: the first layer, and what it needs of the operators.         *)

GivenOK == task \in Tasks /\ params \in SearchParams

-----------------------------------------------------------------------------
(* What the operators do to a node, to the open list and to the records.    *)

LEMMA CloseEffect ==
    ASSUME NEW space \in NodesType, NEW s \in States
    PROVE  LET after == Close(space, s)
           IN  /\ after[s].closed
               /\ \A u \in States :
                    /\ u # s => after[u] = space[u]
                    /\ after[u].present = space[u].present /\ after[u].g = space[u].g
                    /\ after[u].parent = space[u].parent
                    /\ after[u].operator = space[u].operator
                    /\ after[u].deadEnd = space[u].deadEnd
    BY DEF Close, NodesType, SearchNode

LEMMA MarkDeadEndEffect ==
    ASSUME NEW space \in NodesType, NEW s \in States
    PROVE  LET after == MarkDeadEnd(space, s)
           IN  /\ after[s].deadEnd
               /\ \A u \in States :
                    /\ u # s => after[u] = space[u]
                    /\ after[u].present = space[u].present /\ after[u].g = space[u].g
                    /\ after[u].parent = space[u].parent
                    /\ after[u].operator = space[u].operator
                    /\ after[u].closed = space[u].closed
    BY DEF MarkDeadEnd, NodesType, SearchNode

\* pop takes a live entry and drops only stale ones besides.
LEMMA TakesEffect ==
    ASSUME TypeOK, NEW e \in open, Takes(e)
    PROVE  /\ pc = "step"
           /\ e.state \in States
           /\ ~nodes[e.state].closed /\ ~(nodes[e.state].g < e.g)
           /\ Rest(e) \subseteq open \ {e}
           /\ \A f \in LiveEntries : f = e \/ f \in Rest(e)
    BY EntryParts DEF Takes, IsNext, IsFirst, LiveEntries, Stale, Rest

LEMMA EvaluateKeepsRecords ==
    ASSUME TypeOK, NEW s \in States, NEW r \in RevisionsAfter, Evaluate(s, r), params.mpd
    PROVE  /\ records'[s] # NoRecord
           /\ \A u \in States : records[u] # NoRecord => records'[u] # NoRecord
<1>1. records' = [records EXCEPT ![s] = [revision |-> r, h |-> Estimate(s, r)]]
    BY DEF Evaluate
<1>2. r \in Nat
    BY EstimateTypes, RevisionAssumption DEF Revisions
<1>3. [revision |-> r, h |-> Estimate(s, r)] # NoRecord
    BY <1>2 DEF NoRecord
<1> QED BY <1>1, <1>3 DEF TypeOK

LEMMA KeepsEstimateKeepsRecords ==
    ASSUME TypeOK, NEW e \in open, KeepsEstimate(e), params.mpd
    PROVE  \A u \in States : records[u] # NoRecord => records'[u] # NoRecord
<1>1. CASE NeedsReevaluation(e)
    BY <1>1, EntryParts, EvaluateKeepsRecords DEF KeepsEstimate
<1>2. CASE ~NeedsReevaluation(e)
    BY <1>2 DEF KeepsEstimate, heuristicVars
<1> QED BY <1>1, <1>2

\* What Prune, CloseEntry and Requeue do to the entries.
LEMMA RequeueEffect ==
    ASSUME TypeOK, NEW e \in open, NEW h \in Nat, NEW b \in BOOLEAN, Requeue(e, h, b)
    PROVE  \E f \in open' :
            /\ open' = Rest(e) \cup {f}
            /\ f.state = e.state /\ f.g = e.g /\ f.h = h
<1>1. e \in OpenEntry
    BY DEF TypeOK
<1> DEFINE lazy == e.lazyEvaluated \/ b
           f == [e EXCEPT !.h = h, !.order = nextOrder, !.lazyEvaluated = lazy]
<1>2. open' = Rest(e) \cup {f}
    BY DEF Requeue
<1>3. f.state = e.state /\ f.g = e.g /\ f.h = h
    <2> HIDE DEF lazy
    <2> QED BY <1>1 DEF OpenEntry
<1> HIDE DEF f
<1> QED BY <1>2, <1>3

-----------------------------------------------------------------------------
(* The first layer: entries have nodes, and an expansion is not overtaken.  *)

Core ==
    /\ TypeOK
    /\ GivenOK
    /\ SearchStarted
    /\ GoalsAreNotExpanded
    /\ EntriesHaveNodes
    /\ ExpansionIsCurrent

LEMMA EmptySpaceIsEmpty ==
    \A s \in States : /\ ~EmptySpace[s].present /\ ~EmptySpace[s].closed
                      /\ ~EmptySpace[s].deadEnd /\ EmptySpace[s].parent = NoParent
    BY DEF EmptySpace, NoNode

LEMMA InitCore == Init => Core
    BY InitType, EmptySpaceIsEmpty, TasksAssumption
       DEF Init, Core, GivenOK, SearchStarted, GoalsAreNotExpanded, EntriesHaveNodes,
           ExpansionIsCurrent, Phases

LEMMA InitializeCore ==
    ASSUME Core, TypeOK', InitializeDeadEnd \/ InitializeOpen
    PROVE  Core'
<1> DEFINE space == Reach(nodes, task.init, NoParent, NoOperator, 0)
<1>1. /\ task.init \in States /\ nodes = EmptySpace /\ nodes \in NodesType /\ open = {}
      /\ pc' = "step" /\ task' = task /\ params' = params /\ GivenOK
    BY TaskParts DEF Core, SearchStarted, TypeOK, InitializeDeadEnd, InitializeOpen, given
<1>2. /\ space \in NodesType
      /\ space[task.init].present /\ space[task.init].g = 0
      /\ ~space[task.init].closed
      /\ \A u \in States : u # task.init => space[u] = nodes[u]
    <2>1. space \in NodesType
        BY <1>1, SpaceTypes
    <2>2. Reached(nodes, task.init, 0) = "New"
        BY <1>1, EmptySpaceIsEmpty DEF Reached
    <2>3. space = [nodes EXCEPT ![task.init] = NewPath(NoParent, NoOperator, 0)]
        BY <2>2 DEF Reach
    <2> QED BY <1>1, <2>1, <2>3 DEF NewPath, NodesType
<1> HIDE DEF space
<1>3. /\ nodes'[task.init].present /\ nodes'[task.init].g = 0
      /\ \A u \in States : ~nodes'[u].closed
    <2>1. CASE nodes' = MarkDeadEnd(space, task.init)
        BY <1>1, <1>2, <2>1, MarkDeadEndEffect, EmptySpaceIsEmpty
           DEF NodesType
    <2>2. CASE nodes' = space
        BY <1>1, <1>2, <2>2, EmptySpaceIsEmpty
    <2> QED BY <2>1, <2>2 DEF InitializeDeadEnd, InitializeOpen, space
<1>4. EntriesHaveNodes'
    <2>1. CASE InitializeDeadEnd
        BY <1>1, <2>1 DEF InitializeDeadEnd, EntriesHaveNodes
    <2>2. CASE InitializeOpen
        <3>1. PICK r \in RevisionsAfter : /\ Evaluate(task.init, r)
                                          /\ Push(task.init, 0, Estimate(task.init, r), FALSE)
            BY <2>2 DEF InitializeOpen
        <3>2. \A e \in open' : e.state = task.init /\ e.g = 0
            BY <1>1, <3>1 DEF Push
        <3>3. params.mpd => records'[task.init] # NoRecord
            BY <1>1, <3>1, EvaluateKeepsRecords DEF Core
        <3> QED BY <1>1, <1>3, <3>2, <3>3 DEF EntriesHaveNodes
    <2> QED BY <2>1, <2>2
<1> QED BY <1>1, <1>3, <1>4
        DEF Core, GivenOK, SearchStarted, GoalsAreNotExpanded, ExpansionIsCurrent, Phases,
            Goal

LEMMA EndCore ==
    ASSUME Core, TypeOK', Timeout \/ OutOfMemory \/ PopExhausted \/ Fail
    PROVE  Core'
<1>1. /\ pc' = "done" /\ nodes' = nodes /\ open' \subseteq open /\ records' = records
      /\ task' = task /\ params' = params
    BY DEF Timeout, OutOfMemory, PopExhausted, Fail, Finish, given, heuristicVars
<1> QED BY <1>1 DEF Core, GivenOK, SearchStarted, GoalsAreNotExpanded, EntriesHaveNodes,
                    ExpansionIsCurrent, Phases

\* A step that takes an entry, and what it leaves: nodes differ in a status.
LEMMA PopCore ==
    ASSUME Core, TypeOK', NEW e \in open,
           \/ PopReevaluatedDeadEnd(e) \/ PopReevaluatedHigher(e)
           \/ PopLazyDeadEnd(e) \/ PopLazyRequeue(e)
           \/ PopGoal(e) \/ PopExpand(e)
    PROVE  Core'
<1>1. TypeOK /\ GivenOK /\ nodes \in NodesType /\ e.state \in States /\ Takes(e)
      /\ task' = task /\ params' = params
    BY EntryParts DEF Core, TypeOK, PopReevaluatedDeadEnd, PopReevaluatedHigher,
           PopLazyDeadEnd, PopLazyRequeue, PopGoal, PopExpand, CloseEntry, given
<1>2. pc = "step" /\ Rest(e) \subseteq open /\ nodes[e.state].present
      /\ task.init \in States /\ nodes[task.init].present /\ nodes[task.init].g = 0
      /\ \A s \in States : nodes[s] \in SearchNode
    BY <1>1, TakesEffect, TaskParts
       DEF Core, EntriesHaveNodes, SearchStarted, TypeOK, NodesType
<1>3. nodes' \in {nodes, MarkDeadEnd(nodes, e.state), Close(nodes, e.state)}
    BY DEF PopReevaluatedDeadEnd, PopReevaluatedHigher, PopLazyDeadEnd, PopLazyRequeue,
           PopGoal, PopExpand, CloseEntry, Prune
<1>4. \A s \in States : nodes'[s].present = nodes[s].present /\ nodes'[s].g = nodes[s].g
    BY <1>1, <1>2, <1>3, MarkDeadEndEffect, CloseEffect
<1>5. \A f \in open' : f \in open \/ (f.state = e.state /\ f.g = e.g)
    <2>1. CASE PopReevaluatedHigher(e)
        <3>1. PICK r \in RevisionsAfter : /\ Estimate(e.state, r) > e.h
                                          /\ Requeue(e, Estimate(e.state, r), FALSE)
            BY <2>1 DEF PopReevaluatedHigher
        <3>2. Estimate(e.state, r) \in Nat
            BY <1>1, <3>1, EstimateTypes, EntryParts DEF Estimates, DeadEnd
        <3>3. \E f \in open' : /\ open' = Rest(e) \cup {f}
                               /\ f.state = e.state /\ f.g = e.g
            BY <1>1, <3>1, <3>2, RequeueEffect
        <3> QED BY <1>2, <3>3
    <2>2. CASE PopLazyRequeue(e)
        <3> DEFINE h == IF LazyEstimate(e.state) > e.h THEN LazyEstimate(e.state) ELSE e.h
        <3>1. Requeue(e, h, TRUE) /\ h \in Nat
            BY <1>1, <2>2, EstimateTypes, EntryParts DEF PopLazyRequeue, Estimates, DeadEnd
        <3> HIDE DEF h
        <3>2. \E f \in open' : /\ open' = Rest(e) \cup {f}
                               /\ f.state = e.state /\ f.g = e.g
            BY <1>1, <3>1, RequeueEffect
        <3> QED BY <1>2, <3>2
    <2> QED BY <1>2, <2>1, <2>2
            DEF PopReevaluatedDeadEnd, PopLazyDeadEnd, PopGoal, PopExpand, CloseEntry, Prune
<1>6. params.mpd => \A u \in States : records[u] # NoRecord => records'[u] # NoRecord
    BY <1>1, EvaluateKeepsRecords, KeepsEstimateKeepsRecords
       DEF PopReevaluatedDeadEnd, PopReevaluatedHigher, PopLazyDeadEnd, PopLazyRequeue,
           PopGoal, PopExpand, CloseEntry
<1>7. EntriesHaveNodes'
    <2>1. \A f \in open : f.state \in States
        BY <1>1, EntryParts
    <2> QED BY <1>1, <1>4, <1>5, <1>6, <2>1 DEF Core, EntriesHaveNodes
<1>8. CASE PopGoal(e)
    BY <1>1, <1>2, <1>4, <1>7, <1>8
       DEF PopGoal, Finish, Core, GivenOK, SearchStarted, GoalsAreNotExpanded,
           ExpansionIsCurrent, Phases
<1>9. CASE PopExpand(e)
    <2>1. /\ nodes'[e.state].closed /\ pc' = "expand" /\ expanding' = e.state
          /\ e.state \notin task.goals
          /\ \A s \in States : s # e.state => nodes'[s] = nodes[s]
        BY <1>1, <1>2, <1>9, CloseEffect DEF PopExpand, CloseEntry, IsGoal
    <2> QED BY <1>1, <1>2, <1>4, <1>7, <2>1
            DEF Core, GivenOK, SearchStarted, GoalsAreNotExpanded, ExpansionIsCurrent,
                Phases, Goal
<1>10. CASE ~PopGoal(e) /\ ~PopExpand(e)
    <2>1. /\ pc' = "step"
          /\ nodes' = nodes \/ nodes' = MarkDeadEnd(nodes, e.state)
        BY <1>2, <1>10 DEF PopReevaluatedDeadEnd, PopReevaluatedHigher, PopLazyDeadEnd,
                    PopLazyRequeue, Prune
    <2>2. \A s \in States : nodes'[s].closed = nodes[s].closed
        BY <1>1, <1>2, <2>1, MarkDeadEndEffect
    <2> QED BY <1>1, <1>2, <1>4, <1>7, <2>1, <2>2
            DEF Core, GivenOK, SearchStarted, GoalsAreNotExpanded, ExpansionIsCurrent,
                Phases, Goal
<1> QED BY <1>8, <1>9, <1>10

LEMMA GenerateFacts ==
    ASSUME Core, Generate
    PROVE  LET o == Operator(cursor)
               t == Target(o)
               g == PathCost(o)
               reached == Reached(nodes, t, g)
           IN  /\ cursor \in 1..Len(task.applicable[expanding])
               /\ o \in Operators /\ o \in ApplicableSet(task, expanding)
               /\ t \in States /\ g \in Nat
               /\ nodes' = Reach(nodes, t, expanding, o, g)
               /\ nodes[expanding].present /\ nodes[expanding].closed
               /\ ~Goal(expanding)
               /\ parentG = nodes[expanding].g /\ parentG <= g
               /\ t = expanding => reached = "Duplicate"
               /\ \A u \in States : u # t => nodes'[u] = nodes[u]
               /\ reached = "Duplicate" =>
                    /\ nodes' = nodes /\ successors' = successors
                    /\ nodes[t].present /\ (nodes[t].deadEnd \/ nodes[t].g <= g)
               /\ reached # "Duplicate" =>
                    /\ nodes'[t] = NewPath(expanding, o, g)
                    /\ successors' = Append(successors, o)
                    /\ nodes[t].present => ~nodes[t].deadEnd /\ g < nodes[t].g
<1> DEFINE o == Operator(cursor)
           t == Target(o)
           g == PathCost(o)
           reached == Reached(nodes, t, g)
<1>1. cursor \in 1..Len(task.applicable[expanding])
    BY TaskParts, LenProperties DEF Core, TypeOK, Generate, Running
<1>2. o \in Operators /\ t \in States /\ g \in Nat
    BY <1>1, TransitionTypes DEF Core
<1>3. o \in ApplicableSet(task, expanding)
    BY <1>1 DEF ApplicableSet, Operator
<1>4. /\ nodes[expanding].present /\ nodes[expanding].closed /\ ~Goal(expanding)
      /\ parentG = nodes[expanding].g
    BY DEF Core, ExpansionIsCurrent, Generate, Running, Phases
<1>5. parentG <= g
    BY <1>2, TaskParts DEF PathCost, Core, TypeOK
<1>6. t = expanding => reached = "Duplicate"
    BY <1>4, <1>5 DEF Reached
<1>7. /\ nodes' = Reach(nodes, t, expanding, o, g)
      /\ reached = "Duplicate" => successors' = successors
      /\ reached # "Duplicate" => successors' = Append(successors, o)
    BY DEF Generate
<1>8. nodes \in NodesType /\ expanding \in States \cup {NoParent}
      /\ o \in Operators \cup {NoOperator}
    BY <1>2 DEF Core, TypeOK
<1> HIDE DEF o, t, g
<1>9. /\ \A u \in States : u # t => nodes'[u] = nodes[u]
      /\ reached = "Duplicate" =>
           /\ nodes' = nodes /\ nodes[t].present
           /\ nodes[t].deadEnd \/ nodes[t].g <= g
      /\ reached # "Duplicate" =>
           /\ nodes'[t] = NewPath(expanding, o, g)
           /\ nodes[t].present => ~nodes[t].deadEnd /\ g < nodes[t].g
    <2> DEFINE after == Reach(nodes, t, expanding, o, g)
    <2>1. /\ \A u \in States : u # t => after[u] = nodes[u]
          /\ reached = "Duplicate" =>
               /\ after = nodes /\ nodes[t].present
               /\ nodes[t].deadEnd \/ nodes[t].g <= g
          /\ reached # "Duplicate" =>
               /\ after[t] = NewPath(expanding, o, g)
               /\ nodes[t].present => ~nodes[t].deadEnd /\ g < nodes[t].g
        BY <1>2, <1>8 DEF Reach, Reached, NodesType, SearchNode
    <2> QED BY <1>7, <2>1
<1> QED BY <1>1, <1>2, <1>3, <1>4, <1>5, <1>6, <1>7, <1>9 DEF o, t, g

\* The successors kept so far, and where the next one goes.
LEMMA AppendSuccessor ==
    ASSUME TypeOK, NEW o \in Operators, successors' = Append(successors, o)
    PROVE  /\ Len(successors) \in Nat /\ Len(successors') = Len(successors) + 1
           /\ successors'[Len(successors) + 1] = o
           /\ \A k \in 1..Len(successors) : successors'[k] = successors[k]
    BY AppendProperties, LenProperties DEF TypeOK

\* Generate finds no cheaper path to the state it expands, and leaves the nodes
\* of all states reached and no costlier.
LEMMA GenerateImproves ==
    ASSUME Core, Generate
    PROVE  /\ nodes'[expanding] = nodes[expanding]
           /\ \A u \in States :
                /\ nodes[u].present => nodes'[u].present /\ nodes'[u].g <= nodes[u].g
                /\ nodes[u].present /\ nodes[u].deadEnd => nodes'[u] = nodes[u]
                /\ nodes'[u].closed => nodes'[u] = nodes[u]
                /\ nodes'[u].deadEnd => nodes'[u] = nodes[u]
<1> DEFINE t == Target(Operator(cursor))
<1>1. nodes \in NodesType /\ expanding \in States
    BY DEF Core, TypeOK
<1>2. CASE nodes' = nodes
    BY <1>1, <1>2 DEF NodesType, SearchNode
<1>3. CASE nodes' # nodes
    <2>1. /\ t \in States /\ t # expanding
          /\ \A u \in States : u # t => nodes'[u] = nodes[u]
          /\ nodes'[t] = NewPath(expanding, Operator(cursor), PathCost(Operator(cursor)))
          /\ nodes[t].present =>
               ~nodes[t].deadEnd /\ PathCost(Operator(cursor)) < nodes[t].g
          /\ PathCost(Operator(cursor)) \in Nat
        BY <1>3, GenerateFacts
    <2> HIDE DEF t
    <2>2. \A u \in States : nodes[u].g <= nodes[u].g
        BY <1>1 DEF NodesType, SearchNode
    <2>3. /\ nodes'[t].present /\ nodes'[t].g = PathCost(Operator(cursor))
          /\ ~nodes'[t].closed /\ ~nodes'[t].deadEnd
        BY <2>1 DEF NewPath
    <2>4. nodes[t].g \in Nat
        BY <1>1, <2>1 DEF NodesType, SearchNode
    <2> QED BY <1>1, <2>1, <2>2, <2>3, <2>4
<1> QED BY <1>2, <1>3

LEMMA GenerateCore ==
    ASSUME Core, TypeOK', Generate
    PROVE  Core'
<1> DEFINE o == Operator(cursor)
<1>1. /\ task' = task /\ params' = params /\ open' = open /\ records' = records
      /\ pc = "generate" /\ pc' = "generate" /\ expanding' = expanding
      /\ parentG' = parentG /\ evaluations' = evaluations /\ evaluations = <<>>
    BY DEF Generate, Running, Core, TypeOK, given, heuristicVars
<1>2. TypeOK /\ GivenOK /\ nodes \in NodesType /\ task.init \in States
      /\ nodes[task.init].present /\ nodes[task.init].g = 0 /\ expanding \in States
      /\ nodes' \in NodesType
    BY <1>1, TaskParts DEF Core, SearchStarted, TypeOK
<1>3. nodes'[task.init].present /\ nodes'[task.init].g = 0
    BY <1>2, GenerateImproves DEF NodesType, SearchNode
<1>4. GoalsAreNotExpanded'
    BY <1>1, GenerateImproves DEF Core, GoalsAreNotExpanded, Goal
<1>5. EntriesHaveNodes'
    <2>1. \A e \in open : /\ e.state \in States /\ e.g \in Nat
                          /\ nodes[e.state].g \in Nat /\ nodes'[e.state].g \in Nat
        BY <1>2, EntryParts DEF NodesType, SearchNode
    <2> QED BY <1>1, <2>1, GenerateImproves DEF Core, EntriesHaveNodes
<1>6. ExpansionIsCurrent'
    <2>1. /\ \A k \in Operators : Target(k)' = Target(k) /\ PathCost(k)' = PathCost(k)
          /\ ApplicableSet(task, expanding)' = ApplicableSet(task, expanding)
        BY <1>1 DEF Target, PathCost, ApplicableSet
    <2>2. /\ nodes'[expanding].present /\ nodes'[expanding].closed /\ ~Goal(expanding)'
          /\ parentG = nodes'[expanding].g
        BY <1>1, GenerateFacts, GenerateImproves DEF Goal
    <2>3. \A k \in 1..Len(successors) :
            /\ successors[k] \in Operators
            /\ successors[k] \in ApplicableSet(task, expanding)
            /\ nodes'[Target(successors[k])].present
            /\ nodes'[Target(successors[k])].g <= PathCost(successors[k])
        <3> SUFFICES ASSUME NEW k \in 1..Len(successors)
                     PROVE  /\ successors[k] \in Operators
                            /\ successors[k] \in ApplicableSet(task, expanding)
                            /\ nodes'[Target(successors[k])].present
                            /\ nodes'[Target(successors[k])].g <= PathCost(successors[k])
            OBVIOUS
        <3> DEFINE t == Target(successors[k])
        <3>1. /\ successors[k] \in Operators /\ t \in States
              /\ PathCost(successors[k]) \in Nat
            BY <1>2, TransitionTypes
        <3>2. /\ successors[k] \in ApplicableSet(task, expanding)
              /\ nodes[t].present /\ nodes[t].g <= PathCost(successors[k])
            BY <1>1 DEF Core, ExpansionIsCurrent, Phases
        <3> HIDE DEF t
        <3>3. nodes'[t].present /\ nodes'[t].g <= nodes[t].g
            BY <3>1, <3>2, GenerateImproves
        <3>4. nodes[t].g \in Nat /\ nodes'[t].g \in Nat
            BY <1>2, <3>1 DEF NodesType, SearchNode
        <3> QED BY <3>1, <3>2, <3>3, <3>4 DEF t
    <2>4. \A k \in 1..Len(successors') :
            /\ successors'[k] \in Operators
            /\ successors'[k] \in ApplicableSet(task, expanding)
            /\ nodes'[Target(successors'[k])].present
            /\ nodes'[Target(successors'[k])].g <= PathCost(successors'[k])
        <3>1. CASE successors' = successors
            BY <2>3, <3>1
        <3>2. CASE successors' = Append(successors, o) /\ successors' # successors
            <4>1. /\ o \in Operators /\ o \in ApplicableSet(task, expanding)
                  /\ nodes'[Target(o)] = NewPath(expanding, o, PathCost(o))
                  /\ PathCost(o) \in Nat
                BY <3>2, GenerateFacts
            <4> HIDE DEF o
            <4>2. nodes'[Target(o)].present /\ nodes'[Target(o)].g <= PathCost(o)
                BY <4>1 DEF NewPath
            <4> QED BY <1>2, <2>3, <3>2, <4>1, <4>2, AppendSuccessor
        <3> QED BY <3>1, <3>2, GenerateFacts
    <2>5. Len(evaluations') = 0
        BY <1>1, EmptySeq
    <2> QED BY <1>1, <2>1, <2>2, <2>4, <2>5 DEF ExpansionIsCurrent, Phases
<1> QED BY <1>1, <1>2, <1>3, <1>4, <1>5, <1>6 DEF Core, GivenOK, SearchStarted

\* The operators of an expansion, where they lead, and what is kept of them, do
\* not change while the expansion is under way.
LEMMA ExpansionIsStable ==
    ASSUME task' = task, expanding' = expanding, parentG' = parentG
    PROVE  /\ \A o : Target(o)' = Target(o) /\ PathCost(o)' = PathCost(o)
           /\ ApplicableSet(task, expanding)' = ApplicableSet(task, expanding)
           /\ \A s : Goal(s)' = Goal(s)
    BY DEF Target, PathCost, ApplicableSet, Goal

LEMMA BeginExpansionCore ==
    ASSUME Core, TypeOK', BeginExpansion
    PROVE  Core'
<1>1. /\ task' = task /\ params' = params /\ open' = open /\ records' = records
      /\ pc = "expand" /\ pc' = "generate" /\ expanding' = expanding
      /\ nodes' = nodes /\ parentG' = nodes[expanding].g
      /\ successors' = <<>> /\ evaluations' = <<>>
    BY DEF BeginExpansion, given
<1>2. Len(successors') = 0 /\ Len(evaluations') = 0
    BY <1>1, EmptySeq
<1> QED BY <1>1, <1>2 DEF Core, GivenOK, SearchStarted, GoalsAreNotExpanded,
                           EntriesHaveNodes, ExpansionIsCurrent, Phases, Goal

LEMMA EvaluateSuccessorFacts ==
    ASSUME TypeOK, EvaluateSuccessor
    PROVE  LET s == Target(successors[cursor])
           IN  /\ cursor \in 1..Len(successors) /\ s \in States
               /\ Len(evaluations) = cursor - 1
               /\ Len(evaluations') = cursor
               /\ \A k \in 1..Len(evaluations) : evaluations'[k] = evaluations[k]
               /\ \E r \in RevisionsAfter :
                    Evaluate(s, r) /\ evaluations'[cursor] = Estimate(s, r)
<1> DEFINE s == Target(successors[cursor])
<1>1. /\ Len(successors) \in Nat /\ cursor \in 1..Len(successors)
      /\ evaluations \in Seq(Estimates) /\ Len(evaluations) = cursor - 1
    BY LenProperties DEF EvaluateSuccessor, Running, TypeOK
<1>2. s \in States
    BY <1>1, TransitionTypes
<1>3. PICK r \in RevisionsAfter :
        Evaluate(s, r) /\ evaluations' = Append(evaluations, Estimate(s, r))
    BY DEF EvaluateSuccessor
<1>4. Estimate(s, r) \in Estimates
    BY <1>2, EstimateTypes
<1> HIDE DEF s
<1>5. /\ Len(evaluations') = cursor
      /\ evaluations'[cursor] = Estimate(s, r)
      /\ \A k \in 1..Len(evaluations) : evaluations'[k] = evaluations[k]
    BY <1>1, <1>3, <1>4, AppendProperties
<1> QED BY <1>1, <1>2, <1>3, <1>5 DEF s

LEMMA EvaluateSuccessorCore ==
    ASSUME Core, TypeOK', EvaluateSuccessor
    PROVE  Core'
<1>1. /\ task' = task /\ params' = params /\ open' = open /\ pc = "evaluate"
      /\ pc' = "evaluate" /\ expanding' = expanding /\ nodes' = nodes
      /\ parentG' = parentG /\ successors' = successors
    BY DEF EvaluateSuccessor, Running, given
<1>2. params.mpd => /\ records'[Target(successors[cursor])] # NoRecord
                    /\ \A u \in States : records[u] # NoRecord => records'[u] # NoRecord
    BY EvaluateSuccessorFacts, EvaluateKeepsRecords DEF Core
<1>3. EntriesHaveNodes'
    <2>1. \A e \in open : e.state \in States
        BY EntryParts DEF Core
    <2> QED BY <1>1, <1>2, <2>1 DEF Core, EntriesHaveNodes
<1>4. params.mpd => \A k \in 1..Len(evaluations') :
                        records'[Target(successors[k])] # NoRecord
    <2>1. \A k \in 1..Len(successors) : Target(successors[k]) \in States
        BY TransitionTypes DEF Core
    <2>2. params.mpd => \A k \in 1..Len(evaluations) :
                            records[Target(successors[k])] # NoRecord
        BY <1>1 DEF Core, ExpansionIsCurrent, Phases
    <2>3. /\ cursor \in 1..Len(successors) /\ Len(successors) \in Nat
          /\ Len(evaluations) = cursor - 1 /\ Len(evaluations') = cursor
        BY EvaluateSuccessorFacts, LenProperties DEF Core, TypeOK
    <2> SUFFICES ASSUME params.mpd, NEW k \in 1..Len(evaluations')
                 PROVE  records'[Target(successors[k])] # NoRecord
        OBVIOUS
    <2>4. CASE k = cursor
        BY <1>2, <2>4
    <2>5. CASE k # cursor
        <3>1. k \in 1..Len(evaluations) /\ k \in 1..Len(successors)
            BY <2>3, <2>5
        <3> QED BY <1>2, <2>1, <2>2, <3>1
    <2> QED BY <2>4, <2>5
<1>5. /\ \A o : Target(o)' = Target(o) /\ PathCost(o)' = PathCost(o)
      /\ ApplicableSet(task, expanding)' = ApplicableSet(task, expanding)
      /\ \A s : Goal(s)' = Goal(s)
    BY <1>1, ExpansionIsStable
<1>6. ExpansionIsCurrent'
    BY <1>1, <1>4, <1>5 DEF Core, ExpansionIsCurrent, Phases
<1> QED BY <1>1, <1>3, <1>5, <1>6
        DEF Core, GivenOK, SearchStarted, GoalsAreNotExpanded

LEMMA QueueDeadEndFacts ==
    ASSUME TypeOK, QueueDeadEnd
    PROVE  LET t == Target(successors[cursor])
           IN  /\ cursor \in 1..Len(successors) /\ cursor \in 1..Len(evaluations)
               /\ t \in States /\ nodes' = MarkDeadEnd(nodes, t)
               /\ nodes \in NodesType
               /\ evaluations[cursor] = DeadEnd
<1>1. Len(successors) \in Nat /\ cursor \in 1..Len(successors)
      /\ Len(evaluations) = Len(successors)
    BY LenProperties DEF QueueDeadEnd, Running, TypeOK
<1> QED BY <1>1, TransitionTypes DEF QueueDeadEnd, TypeOK

LEMMA QueueDeadEndCore ==
    ASSUME Core, TypeOK', QueueDeadEnd
    PROVE  Core'
<1>1. /\ task' = task /\ params' = params /\ open' = open /\ records' = records
      /\ pc = "queue" /\ pc' = "queue" /\ expanding' = expanding
      /\ parentG' = parentG /\ evaluations' = evaluations /\ successors' = successors
    BY DEF QueueDeadEnd, Running, given, heuristicVars
<1>2. \A u \in States : /\ nodes'[u].present = nodes[u].present
                        /\ nodes'[u].g = nodes[u].g
                        /\ nodes'[u].closed = nodes[u].closed
    BY QueueDeadEndFacts, MarkDeadEndEffect DEF Core
<1>3. /\ task.init \in States /\ expanding \in States
      /\ \A e \in open : e.state \in States
      /\ \A k \in 1..Len(successors) : Target(successors[k]) \in States
    BY TaskParts, EntryParts, TransitionTypes DEF Core, TypeOK
<1>4. /\ \A o : Target(o)' = Target(o) /\ PathCost(o)' = PathCost(o)
      /\ ApplicableSet(task, expanding)' = ApplicableSet(task, expanding)
      /\ \A s : Goal(s)' = Goal(s)
    BY <1>1, ExpansionIsStable
<1>5. EntriesHaveNodes'
    BY <1>1, <1>2, <1>3 DEF Core, EntriesHaveNodes
<1>6. ExpansionIsCurrent'
    BY <1>1, <1>2, <1>3, <1>4 DEF Core, ExpansionIsCurrent, Phases
<1> QED BY <1>1, <1>2, <1>3, <1>4, <1>5, <1>6
        DEF Core, GivenOK, SearchStarted, GoalsAreNotExpanded

LEMMA QueueSuccessorFacts ==
    ASSUME TypeOK, QueueSuccessor
    PROVE  LET o == successors[cursor]
           IN  /\ cursor \in 1..Len(successors) /\ cursor \in 1..Len(evaluations)
               /\ o \in Operators
               /\ \E f \in open' :
                    /\ open' = open \cup {f}
                    /\ f.state = Target(o) /\ f.g = PathCost(o)
                    /\ f.h = evaluations[cursor]
<1>1. Len(successors) \in Nat /\ cursor \in 1..Len(successors)
      /\ Len(evaluations) = Len(successors)
    BY LenProperties DEF QueueSuccessor, Running, TypeOK
<1>2. successors[cursor] \in Operators
    BY <1>1, TransitionTypes
<1> DEFINE o == successors[cursor]
           b == UsesPreferredOperators(params.openList) /\ o \in taken
           f == [state |-> Target(o), g |-> PathCost(o), h |-> evaluations[cursor],
                 preferred |-> b, lazyEvaluated |-> FALSE, order |-> nextOrder]
<1>3. open' = open \cup {f}
    BY DEF QueueSuccessor, Push
<1>4. f.state = Target(o) /\ f.g = PathCost(o) /\ f.h = evaluations[cursor]
    OBVIOUS
<1> HIDE DEF f
<1> QED BY <1>1, <1>2, <1>3, <1>4

LEMMA QueueSuccessorCore ==
    ASSUME Core, TypeOK', QueueSuccessor
    PROVE  Core'
<1>1. /\ task' = task /\ params' = params /\ records' = records /\ nodes' = nodes
      /\ pc = "queue" /\ pc' = "queue" /\ expanding' = expanding
      /\ parentG' = parentG /\ evaluations' = evaluations /\ successors' = successors
    BY DEF QueueSuccessor, Running, given, heuristicVars
<1>2. /\ \A o : Target(o)' = Target(o) /\ PathCost(o)' = PathCost(o)
      /\ ApplicableSet(task, expanding)' = ApplicableSet(task, expanding)
      /\ \A s : Goal(s)' = Goal(s)
    BY <1>1, ExpansionIsStable
<1>3. EntriesHaveNodes'
    <2>1. PICK f \in open' :
            /\ open' = open \cup {f}
            /\ f.state = Target(successors[cursor])
            /\ f.g = PathCost(successors[cursor])
        BY QueueSuccessorFacts DEF Core
    <2>2. /\ nodes[f.state].present /\ nodes[f.state].g <= f.g
          /\ params.mpd => records[f.state] # NoRecord
        BY <1>1, <2>1, QueueSuccessorFacts DEF Core, ExpansionIsCurrent, Phases
    <2> QED BY <1>1, <2>1, <2>2 DEF Core, EntriesHaveNodes
<1>4. ExpansionIsCurrent'
    BY <1>1, <1>2 DEF Core, ExpansionIsCurrent, Phases
<1> QED BY <1>1, <1>2, <1>3, <1>4
        DEF Core, GivenOK, SearchStarted, GoalsAreNotExpanded

LEMMA NextPhaseCore ==
    ASSUME Core, TypeOK', NextPhase
    PROVE  Core'
<1>1. /\ task' = task /\ params' = params /\ records' = records /\ nodes' = nodes
      /\ open' = open
      /\ pc \in {"generate", "evaluate", "queue"}
      /\ pc' \in {"evaluate", "queue", "step"} /\ expanding' = expanding
      /\ parentG' = parentG /\ evaluations' = evaluations /\ successors' = successors
    BY DEF NextPhase, Finished, given, heuristicVars
<1>2. /\ \A o : Target(o)' = Target(o) /\ PathCost(o)' = PathCost(o)
      /\ ApplicableSet(task, expanding)' = ApplicableSet(task, expanding)
      /\ \A s : Goal(s)' = Goal(s)
    BY <1>1, ExpansionIsStable
<1>3. ExpansionIsCurrent'
    BY <1>1, <1>2 DEF Core, ExpansionIsCurrent, Phases
<1> QED BY <1>1, <1>2, <1>3
        DEF Core, GivenOK, SearchStarted, GoalsAreNotExpanded, EntriesHaveNodes

LEMMA NextCore == Core /\ [Next]_vars => Core'
<1> SUFFICES ASSUME Core, [Next]_vars PROVE Core'
    OBVIOUS
<1>1. TypeOK'
    BY NextType DEF Core
<1>2. CASE UNCHANGED vars \/ Done
    BY <1>1, <1>2 DEF Done, vars, given, heuristicVars, expansion, progress,
        Core, GivenOK, SearchStarted, GoalsAreNotExpanded, EntriesHaveNodes,
        ExpansionIsCurrent, Target, PathCost, ApplicableSet, Goal
<1> QED BY <1>1, <1>2, InitializeCore, EndCore, PopCore, BeginExpansionCore, GenerateCore,
           EvaluateSuccessorCore, QueueDeadEndCore, QueueSuccessorCore, NextPhaseCore
        DEF Next

\* Every entry of the open list has a node, which it does not undercut, and with
\* mpd an evaluation record: the two lookups that pop expects to succeed do.
THEOREM EntriesHaveNodesAlways == Spec => []EntriesHaveNodes
<1>1. Spec => []Core
    BY InitCore, NextCore, PTL DEF Spec
<1>2. Core => EntriesHaveNodes
    BY DEF Core
<1> QED BY <1>1, <1>2, PTL

-----------------------------------------------------------------------------
(* The second layer: the dead ends that are pruned are dead ends.           *)

Pruned == DeadEndsAreReal /\ EvaluationsAreSafe

LEMMA EstimatesAreSafe ==
    ASSUME Core, NEW s \in States
    PROVE  /\ \A r \in RevisionsAfter : Estimate(s, r) = DeadEnd => task.hStar[s] = DeadEnd
           /\ LazyEstimate(s) = DeadEnd => task.hStar[s] = DeadEnd
<1>1. /\ \A r \in Revisions : Safe(task, task.h[r])
      /\ Safe(task, task.lazyH)
      /\ task \in TaskType
    BY TasksAssumption DEF Core, GivenOK, IsTask
<1>2. \A r \in RevisionsAfter : r \in Revisions
    BY EstimateTypes DEF Core
<1>3. \A r \in RevisionsAfter : Estimate(s, r) = DeadEnd => task.h[r][s] = DeadEnd
    BY <1>1, <1>2, TaskParts, BoundedEstimateType DEF Estimate
<1>4. LazyEstimate(s) = DeadEnd => task.lazyH[s] = DeadEnd
    BY <1>1, TaskParts, BoundedEstimateType DEF LazyEstimate
<1> QED BY <1>1, <1>2, <1>3, <1>4 DEF Safe

LEMMA InitPruned == Init => Pruned
    BY EmptySpaceIsEmpty DEF Init, Pruned, DeadEndsAreReal, EvaluationsAreSafe

LEMMA MarkedIsReal ==
    ASSUME Core, DeadEndsAreReal, NEW s \in States, task.hStar[s] = DeadEnd,
           task' = task, nodes' = MarkDeadEnd(nodes, s)
    PROVE  DeadEndsAreReal'
<1>1. nodes \in NodesType
    BY DEF Core, TypeOK
<1> QED BY <1>1, MarkDeadEndEffect DEF DeadEndsAreReal

LEMMA PrunedStep == Core /\ Pruned /\ [Next]_vars => Pruned'
<1> SUFFICES ASSUME Core, Pruned, [Next]_vars PROVE Pruned'
    OBVIOUS
<1>0. TypeOK /\ nodes \in NodesType /\ DeadEndsAreReal /\ EvaluationsAreSafe
    BY DEF Core, TypeOK, Pruned
<1>1. CASE UNCHANGED vars \/ Done
    BY <1>0, <1>1 DEF Done, vars, given, expansion, Pruned, DeadEndsAreReal,
                      EvaluationsAreSafe, Target
<1>2. CASE InitializeDeadEnd \/ InitializeOpen
    <2> DEFINE space == Reach(nodes, task.init, NoParent, NoOperator, 0)
    <2>1. /\ task.init \in States /\ nodes = EmptySpace /\ task' = task /\ pc' = "step"
        BY <1>0, <1>2, TaskParts DEF Core, SearchStarted, TypeOK, InitializeDeadEnd,
                                     InitializeOpen, given
    <2>2. /\ space \in NodesType
          /\ \A u \in States : ~space[u].deadEnd
        <3>1. space = [nodes EXCEPT ![task.init] = NewPath(NoParent, NoOperator, 0)]
            BY <2>1, EmptySpaceIsEmpty DEF Reach, Reached
        <3>2. space \in NodesType
            BY <1>0, <2>1, SpaceTypes
        <3> QED BY <1>0, <2>1, <3>1, <3>2, EmptySpaceIsEmpty DEF NewPath, NodesType
    <2> HIDE DEF space
    <2>3. CASE InitializeDeadEnd
        <3>1. task.hStar[task.init] = DeadEnd
            BY <2>1, <2>3, EstimatesAreSafe DEF InitializeDeadEnd
        <3>2. nodes' = MarkDeadEnd(space, task.init)
            BY <2>3 DEF InitializeDeadEnd, space
        <3> QED BY <2>1, <2>2, <3>1, <3>2, MarkDeadEndEffect
                DEF Pruned, DeadEndsAreReal, EvaluationsAreSafe
    <2>4. CASE InitializeOpen
        BY <2>1, <2>2, <2>4
           DEF InitializeOpen, Pruned, DeadEndsAreReal, EvaluationsAreSafe, space
    <2> QED BY <1>2, <2>3, <2>4
<1>3. CASE Timeout \/ OutOfMemory \/ PopExhausted \/ Fail
    BY <1>0, <1>3 DEF Timeout, OutOfMemory, PopExhausted, Fail, Finish, given, Pruned,
                      DeadEndsAreReal, EvaluationsAreSafe
<1>4. ASSUME NEW e \in open,
             \/ PopReevaluatedDeadEnd(e) \/ PopReevaluatedHigher(e)
             \/ PopLazyDeadEnd(e) \/ PopLazyRequeue(e)
             \/ PopGoal(e) \/ PopExpand(e)
      PROVE  Pruned'
    <2>1. e.state \in States /\ task' = task /\ pc' \notin {"evaluate", "queue"}
        BY <1>0, <1>4, EntryParts, TakesEffect
           DEF PopReevaluatedDeadEnd, PopReevaluatedHigher, PopLazyDeadEnd,
               PopLazyRequeue, PopGoal, PopExpand, CloseEntry, Finish, given
    <2>2. CASE PopReevaluatedDeadEnd(e) \/ PopLazyDeadEnd(e)
        <3>1. task.hStar[e.state] = DeadEnd /\ nodes' = MarkDeadEnd(nodes, e.state)
            BY <2>1, <2>2, EstimatesAreSafe DEF PopReevaluatedDeadEnd, PopLazyDeadEnd, Prune
        <3> QED BY <1>0, <2>1, <3>1, MarkedIsReal DEF Pruned, EvaluationsAreSafe
    <2>3. CASE PopReevaluatedHigher(e) \/ PopLazyRequeue(e)
        BY <1>0, <2>1, <2>3 DEF PopReevaluatedHigher, PopLazyRequeue, Pruned,
                                DeadEndsAreReal, EvaluationsAreSafe
    <2>4. CASE PopGoal(e) \/ PopExpand(e)
        BY <1>0, <2>1, <2>4, CloseEffect
           DEF PopGoal, PopExpand, CloseEntry, Pruned, DeadEndsAreReal, EvaluationsAreSafe
    <2> QED BY <1>4, <2>2, <2>3, <2>4
<1>5. CASE BeginExpansion
    BY <1>0, <1>5 DEF BeginExpansion, given, Pruned, DeadEndsAreReal, EvaluationsAreSafe
<1>6. CASE Generate
    <2>1. task' = task /\ pc' = "generate"
        BY <1>6 DEF Generate, Running, given
    <2> QED BY <1>0, <1>6, <2>1, GenerateImproves
            DEF Pruned, DeadEndsAreReal, EvaluationsAreSafe
<1>7. CASE EvaluateSuccessor
    <2>1. /\ task' = task /\ nodes' = nodes /\ expanding' = expanding /\ pc = "evaluate"
          /\ parentG' = parentG /\ successors' = successors
        BY <1>7 DEF EvaluateSuccessor, Running, given
    <2>2. \A o : Target(o)' = Target(o)
        BY <2>1, ExpansionIsStable
    <2>3. PICK r \in RevisionsAfter :
            evaluations'[cursor] = Estimate(Target(successors[cursor]), r)
        BY <1>0, <1>7, EvaluateSuccessorFacts
    <2>4. evaluations'[cursor] = DeadEnd =>
            task.hStar[Target(successors[cursor])] = DeadEnd
        BY <1>0, <1>7, <2>3, EvaluateSuccessorFacts, EstimatesAreSafe
    <2>5. /\ cursor \in 1..Len(successors) /\ Len(successors) \in Nat
          /\ Len(evaluations) = cursor - 1 /\ Len(evaluations') = cursor
          /\ \A k \in 1..Len(evaluations) : evaluations'[k] = evaluations[k]
        BY <1>0, <1>7, EvaluateSuccessorFacts, LenProperties DEF TypeOK
    <2>6. \A k \in 1..Len(evaluations') : k = cursor \/ k \in 1..Len(evaluations)
        BY <2>5
    <2>7. \A k \in 1..Len(evaluations') : evaluations'[k] = DeadEnd =>
            task.hStar[Target(successors[k])] = DeadEnd
        BY <1>0, <2>1, <2>4, <2>5, <2>6 DEF EvaluationsAreSafe
    <2> QED BY <1>0, <2>1, <2>2, <2>7 DEF Pruned, DeadEndsAreReal, EvaluationsAreSafe
<1>8. CASE QueueDeadEnd
    <2>1. /\ task' = task /\ expanding' = expanding /\ pc = "queue" /\ pc' = "queue"
          /\ parentG' = parentG /\ successors' = successors /\ evaluations' = evaluations
        BY <1>8 DEF QueueDeadEnd, Running, given
    <2>2. \A o : Target(o)' = Target(o)
        BY <2>1, ExpansionIsStable
    <2>3. DeadEndsAreReal'
        BY <1>0, <1>8, <2>1, QueueDeadEndFacts, MarkedIsReal DEF EvaluationsAreSafe
    <2> QED BY <1>0, <2>1, <2>2, <2>3 DEF Pruned, EvaluationsAreSafe
<1>9. CASE QueueSuccessor
    BY <1>0, <1>9 DEF QueueSuccessor, Running, given, Pruned, DeadEndsAreReal,
                      EvaluationsAreSafe, Target
<1>10. CASE NextPhase
    <2>1. /\ task' = task /\ nodes' = nodes /\ expanding' = expanding
          /\ parentG' = parentG /\ successors' = successors /\ evaluations' = evaluations
        BY <1>10 DEF NextPhase, given
    <2>2. \A o : Target(o)' = Target(o)
        BY <2>1, ExpansionIsStable
    <2>3. pc' = "evaluate" => Len(evaluations) = 0
        BY <1>0, <1>10, EmptySeq DEF NextPhase, Finished, TypeOK
    <2>4. pc' = "queue" => pc = "evaluate"
        BY <1>10 DEF NextPhase, Finished
    <2>5. pc' \in {"evaluate", "queue"} => \A k \in 1..Len(evaluations) :
            evaluations[k] = DeadEnd => task.hStar[Target(successors[k])] = DeadEnd
        BY <1>0, <2>3, <2>4 DEF EvaluationsAreSafe
    <2> QED BY <1>0, <2>1, <2>2, <2>5 DEF Pruned, DeadEndsAreReal, EvaluationsAreSafe
<1> QED BY <1>1, <1>2, <1>3, <1>4, <1>5, <1>6, <1>7, <1>8, <1>9, <1>10 DEF Next

\* Every state that the search marks as a dead end has no plan, if the heuristics
\* call only dead ends dead ends; raising estimates to the cheapest operator
\* (bounded_estimate), requeueing and generating a state twice change nothing.
THEOREM DeadEndsAreRealAlways == Spec => []DeadEndsAreReal
<1>1. Spec => [](Core /\ Pruned)
    BY InitCore, NextCore, InitPruned, PrunedStep, PTL DEF Spec
<1>2. Pruned => DeadEndsAreReal
    BY DEF Pruned
<1> QED BY <1>1, <1>2, PTL

-----------------------------------------------------------------------------
(* The third layer: no reached state is lost.                               *)

\* The alternatives of OpenNodesAreQueued for one state.
Accounted(s) ==
    \/ nodes[s].closed \/ nodes[s].deadEnd
    \/ \E e \in open : e.state = s /\ e.g = nodes[s].g
    \/ Pending(s, nodes[s].g)

LEMMA OpenNodesAreAccounted ==
    OpenNodesAreQueued <=>
        (pc \notin {"initialize", "done"} => \A s \in PresentStates(nodes) : Accounted(s))
    BY DEF OpenNodesAreQueued, Accounted

\* A pop leaves every other state accounted for by the entry it had.
LEMMA PopQueued ==
    ASSUME Core, OpenNodesAreQueued, NEW e \in open,
           \/ PopReevaluatedDeadEnd(e) \/ PopReevaluatedHigher(e)
           \/ PopLazyDeadEnd(e) \/ PopLazyRequeue(e)
           \/ PopExpand(e)
    PROVE  OpenNodesAreQueued'
<1>1. /\ Takes(e) /\ TypeOK /\ nodes \in NodesType
    BY DEF Core, TypeOK, PopReevaluatedDeadEnd, PopReevaluatedHigher,
           PopLazyDeadEnd, PopLazyRequeue, PopExpand, CloseEntry
<1>2. /\ e.state \in States /\ pc = "step"
      /\ ~nodes[e.state].closed /\ ~(nodes[e.state].g < e.g)
      /\ \A f \in LiveEntries : f = e \/ f \in Rest(e)
    BY <1>1, TakesEffect
<1>3. nodes[e.state].g = e.g
    BY <1>1, <1>2, EntryParts DEF Core, EntriesHaveNodes, NodesType, SearchNode
<1>4. Rest(e) \subseteq open'
    BY <1>1, EntryParts, EstimateTypes
       DEF PopReevaluatedDeadEnd, PopReevaluatedHigher, PopLazyDeadEnd, PopLazyRequeue,
           PopExpand, CloseEntry, Prune, Requeue
<1>5. /\ \A u \in States : u # e.state => nodes'[u] = nodes[u]
      /\ \A u \in States : nodes'[u].present = nodes[u].present /\ nodes'[u].g = nodes[u].g
      /\ \/ nodes'[e.state].closed \/ nodes'[e.state].deadEnd
         \/ \E f \in open' : f.state = e.state /\ f.g = nodes'[e.state].g
    <2>1. CASE PopReevaluatedDeadEnd(e) \/ PopLazyDeadEnd(e)
        BY <1>1, <1>2, <2>1, MarkDeadEndEffect
           DEF PopReevaluatedDeadEnd, PopLazyDeadEnd, Prune
    <2>2. CASE PopReevaluatedHigher(e)
        <3>1. PICK r \in RevisionsAfter : /\ Estimate(e.state, r) > e.h
                                          /\ Requeue(e, Estimate(e.state, r), FALSE)
            BY <2>2 DEF PopReevaluatedHigher
        <3>2. Estimate(e.state, r) \in Nat
            BY <1>1, <1>2, <3>1, EstimateTypes, EntryParts DEF Estimates, DeadEnd
        <3>3. \E f \in open' : f.state = e.state /\ f.g = e.g
            BY <1>1, <3>1, <3>2, RequeueEffect
        <3> QED BY <1>1, <1>3, <2>2, <3>3 DEF PopReevaluatedHigher
    <2>3. CASE PopLazyRequeue(e)
        <3> DEFINE h == IF LazyEstimate(e.state) > e.h THEN LazyEstimate(e.state) ELSE e.h
        <3>1. Requeue(e, h, TRUE) /\ h \in Nat
            BY <1>1, <1>2, <2>3, EstimateTypes, EntryParts
               DEF PopLazyRequeue, Estimates, DeadEnd
        <3> HIDE DEF h
        <3>2. \E f \in open' : f.state = e.state /\ f.g = e.g
            BY <1>1, <3>1, RequeueEffect
        <3> QED BY <1>1, <1>3, <2>3, <3>2 DEF PopLazyRequeue
    <2>4. CASE PopExpand(e)
        BY <1>1, <1>2, <2>4, CloseEffect DEF PopExpand, CloseEntry
    <2> QED BY <2>1, <2>2, <2>3, <2>4
<1>6. SUFFICES ASSUME NEW s \in States, nodes'[s].present
               PROVE  Accounted(s)'
    BY DEF OpenNodesAreQueued, Accounted, PresentStates
<1>7. CASE s = e.state
    BY <1>5, <1>7 DEF Accounted
<1>8. CASE s # e.state
    <2>1. nodes'[s] = nodes[s] /\ nodes[s].present
        BY <1>5, <1>6, <1>8
    <2>2. Accounted(s)
        BY <1>2, <1>6, <2>1, OpenNodesAreAccounted DEF PresentStates
    <2>3. ~Pending(s, nodes[s].g)
        BY <1>2 DEF Pending
    <2>4. CASE \E f \in open : f.state = s /\ f.g = nodes[s].g
        <3>1. PICK f \in open : f.state = s /\ f.g = nodes[s].g
            BY <2>4
        <3>2. CASE nodes[s].closed
            BY <2>1, <3>2 DEF Accounted
        <3>3. CASE ~nodes[s].closed
            <4>1. f.g \in Nat
                BY <1>1, EntryParts
            <4>2. f \in LiveEntries
                BY <3>1, <3>3, <4>1 DEF LiveEntries, Stale
            <4>3. f \in open'
                BY <1>2, <1>4, <1>8, <3>1, <4>2
            <4> QED BY <2>1, <3>1, <4>3 DEF Accounted
        <3> QED BY <3>2, <3>3
    <2> QED BY <2>1, <2>2, <2>3, <2>4 DEF Accounted
<1> QED BY <1>7, <1>8

LEMMA GenerateQueued ==
    ASSUME Core, TypeOK', OpenNodesAreQueued, Generate
    PROVE  OpenNodesAreQueued'
<1>1. /\ task' = task /\ open' = open /\ pc = "generate" /\ pc' = "generate"
      /\ expanding' = expanding /\ parentG' = parentG /\ TypeOK
    BY DEF Generate, Running, Core, given
<1> DEFINE o == Operator(cursor)
           t == Target(o)
<1>2. /\ o \in Operators /\ t \in States
      /\ \A u \in States : u # t => nodes'[u] = nodes[u]
      /\ \/ nodes' = nodes /\ successors' = successors
         \/ nodes'[t] = NewPath(expanding, o, PathCost(o)) /\ successors' = Append(successors, o)
    BY GenerateFacts
<1>3. \A s, g : Pending(s, g)' <=>
          \E k \in 1..Len(successors') :
              Target(successors'[k]) = s /\ PathCost(successors'[k]) = g
    BY <1>1 DEF Pending, Target, PathCost
<1> HIDE DEF o
<1>4. \A s, g : Pending(s, g) => Pending(s, g)'
    <2> SUFFICES ASSUME NEW s, NEW g, Pending(s, g)
                 PROVE  \E k \in 1..Len(successors') :
                            Target(successors'[k]) = s /\ PathCost(successors'[k]) = g
        BY <1>3
    <2>1. PICK k \in 1..Len(successors) :
            Target(successors[k]) = s /\ PathCost(successors[k]) = g
        BY DEF Pending
    <2>2. k \in 1..Len(successors') /\ successors'[k] = successors[k]
        BY <1>1, <1>2, AppendSuccessor
    <2> QED BY <2>1, <2>2
<1>5. CASE nodes' = nodes
    BY <1>1, <1>4, <1>5 DEF OpenNodesAreQueued
<1>6. CASE nodes' # nodes
    <2>1. /\ nodes'[t] = NewPath(expanding, o, PathCost(o))
          /\ successors' = Append(successors, o)
        BY <1>2, <1>6
    <2>2. nodes'[t].g = PathCost(o)
        BY <2>1 DEF NewPath
    <2>3. /\ Len(successors) + 1 \in 1..Len(successors')
          /\ successors'[Len(successors) + 1] = o
        BY <1>1, <1>2, <2>1, AppendSuccessor
    <2>4. SUFFICES ASSUME NEW s \in States, nodes'[s].present
                   PROVE  Accounted(s)'
        BY DEF OpenNodesAreQueued, Accounted, PresentStates
    <2>5. CASE s # t
        <3>1. nodes'[s] = nodes[s] /\ Accounted(s)
            BY <1>1, <1>2, <2>4, <2>5, OpenNodesAreAccounted DEF PresentStates
        <3>2. Pending(s, nodes[s].g) => \E k \in 1..Len(successors') :
                Target(successors'[k]) = s /\ PathCost(successors'[k]) = nodes'[s].g
            BY <1>3, <1>4, <3>1
        <3> QED BY <1>1, <1>3, <3>1, <3>2 DEF Accounted
    <2>6. CASE s = t
        <3>1. \E k \in 1..Len(successors') :
                Target(successors'[k]) = s /\ PathCost(successors'[k]) = nodes'[s].g
            BY <2>2, <2>3, <2>6
        <3> QED BY <1>3, <3>1 DEF Accounted
    <2> QED BY <2>5, <2>6
<1> QED BY <1>5, <1>6

LEMMA QueuedStep == Core /\ OpenNodesAreQueued /\ [Next]_vars => OpenNodesAreQueued'
<1> SUFFICES ASSUME Core, OpenNodesAreQueued, [Next]_vars PROVE OpenNodesAreQueued'
    OBVIOUS
<1>0. TypeOK /\ TypeOK' /\ nodes \in NodesType
    BY NextType DEF Core, TypeOK
<1>1. CASE UNCHANGED vars \/ Done
    BY <1>1 DEF Done, vars, given, expansion, OpenNodesAreQueued, Pending, Target,
                PathCost
<1>2. CASE InitializeDeadEnd \/ InitializeOpen
    <2> DEFINE space == Reach(nodes, task.init, NoParent, NoOperator, 0)
    <2>1. /\ task.init \in States /\ nodes = EmptySpace
        BY <1>0, <1>2, TaskParts DEF Core, SearchStarted, TypeOK, InitializeDeadEnd,
                                     InitializeOpen
    <2>2. /\ space \in NodesType /\ space[task.init].g = 0
          /\ \A u \in States : u # task.init => ~space[u].present
        <3>1. space = [nodes EXCEPT ![task.init] = NewPath(NoParent, NoOperator, 0)]
            BY <2>1, EmptySpaceIsEmpty DEF Reach, Reached
        <3>2. space \in NodesType
            BY <1>0, <2>1, SpaceTypes
        <3> QED BY <1>0, <2>1, <3>1, <3>2, EmptySpaceIsEmpty DEF NewPath, NodesType
    <2> HIDE DEF space
    <2>3. CASE InitializeDeadEnd
        <3>1. nodes' = MarkDeadEnd(space, task.init)
            BY <2>3 DEF InitializeDeadEnd, space
        <3> QED BY <2>1, <2>2, <3>1, MarkDeadEndEffect
                DEF OpenNodesAreQueued, PresentStates
    <2>4. CASE InitializeOpen
        <3>1. nodes' = space
            BY <2>4 DEF InitializeOpen, space
        <3>2. \E e \in open' : e.state = task.init /\ e.g = 0
            <4>1. PICK r \in RevisionsAfter :
                    Push(task.init, 0, Estimate(task.init, r), FALSE)
                BY <2>4 DEF InitializeOpen
            <4> DEFINE f == [state |-> task.init, g |-> 0, h |-> Estimate(task.init, r),
                             preferred |-> FALSE, lazyEvaluated |-> FALSE,
                             order |-> nextOrder]
            <4>2. f \in open' /\ f.state = task.init /\ f.g = 0
                BY <4>1 DEF Push
            <4> HIDE DEF f
            <4> QED BY <4>2
        <3> QED BY <2>1, <2>2, <3>1, <3>2 DEF OpenNodesAreQueued, PresentStates
    <2> QED BY <1>2, <2>3, <2>4
<1>3. CASE Timeout \/ OutOfMemory \/ PopExhausted \/ Fail \/ \E e \in open : PopGoal(e)
    BY <1>3 DEF Timeout, OutOfMemory, PopExhausted, Fail, PopGoal, Finish,
                OpenNodesAreQueued
<1>4. ASSUME NEW e \in open,
             \/ PopReevaluatedDeadEnd(e) \/ PopReevaluatedHigher(e)
             \/ PopLazyDeadEnd(e) \/ PopLazyRequeue(e)
             \/ PopExpand(e)
      PROVE  OpenNodesAreQueued'
    BY <1>4, PopQueued
<1>5. CASE BeginExpansion
    <2>1. pc = "expand" /\ pc' = "generate" /\ nodes' = nodes /\ open' = open
        BY <1>5 DEF BeginExpansion
    <2>2. \A s, g : ~Pending(s, g)
        BY <2>1 DEF Pending
    <2> QED BY <2>1, <2>2 DEF OpenNodesAreQueued, PresentStates
<1>6. CASE Generate
    BY <1>0, <1>6, GenerateQueued
<1>7. CASE EvaluateSuccessor
    BY <1>7 DEF EvaluateSuccessor, Running, given, OpenNodesAreQueued, PresentStates,
                Pending, Target, PathCost
<1>8. CASE QueueDeadEnd
    <2>1. /\ task' = task /\ expanding' = expanding /\ pc = "queue" /\ pc' = "queue"
          /\ parentG' = parentG /\ successors' = successors /\ open' = open
          /\ cursor' = cursor + 1
        BY <1>8 DEF QueueDeadEnd, Running, given
    <2> DEFINE t == Target(successors[cursor])
    <2>2. /\ cursor \in 1..Len(successors) /\ t \in States /\ Len(successors) \in Nat
          /\ nodes' = MarkDeadEnd(nodes, t)
        BY <1>0, <1>8, QueueDeadEndFacts, LenProperties DEF TypeOK
    <2>3. /\ nodes'[t].deadEnd
          /\ \A u \in States : /\ u # t => nodes'[u] = nodes[u]
                               /\ nodes'[u].present = nodes[u].present
        BY <1>0, <2>2, MarkDeadEndEffect
    <2>4. \A s, g : Pending(s, g) /\ s # t => Pending(s, g)'
        <3>1. \A s, g : Pending(s, g)' <=> \E k \in 1..Len(successors) :
                k >= cursor + 1 /\ Target(successors[k]) = s /\ PathCost(successors[k]) = g
            BY <2>1 DEF Pending, Target, PathCost
        <3>2. \A s, g : Pending(s, g) => \E k \in 1..Len(successors) :
                k >= cursor /\ Target(successors[k]) = s /\ PathCost(successors[k]) = g
            BY <2>1 DEF Pending
        <3> QED BY <2>2, <3>1, <3>2
    <2> HIDE DEF t
    <2>5. SUFFICES ASSUME NEW s \in States, nodes'[s].present PROVE Accounted(s)'
        BY DEF OpenNodesAreQueued, Accounted, PresentStates
    <2>6. CASE s = t
        BY <2>3, <2>6 DEF Accounted
    <2>7. CASE s # t
        <3>1. nodes'[s] = nodes[s] /\ Accounted(s)
            BY <2>1, <2>3, <2>5, <2>7, OpenNodesAreAccounted DEF PresentStates
        <3> QED BY <2>1, <2>4, <2>7, <3>1 DEF Accounted
    <2> QED BY <2>6, <2>7
<1>9. CASE QueueSuccessor
    <2>1. /\ task' = task /\ expanding' = expanding /\ pc = "queue" /\ pc' = "queue"
          /\ parentG' = parentG /\ successors' = successors /\ nodes' = nodes
          /\ cursor' = cursor + 1
        BY <1>9 DEF QueueSuccessor, Running, given
    <2>2. /\ cursor \in 1..Len(successors) /\ Len(successors) \in Nat
          /\ \E f \in open' :
               /\ open' = open \cup {f}
               /\ f.state = Target(successors[cursor])
               /\ f.g = PathCost(successors[cursor])
        BY <1>0, <1>9, QueueSuccessorFacts, LenProperties DEF TypeOK
    <2>3. \A s, g : Pending(s, g) =>
            \/ Pending(s, g)'
            \/ s = Target(successors[cursor]) /\ g = PathCost(successors[cursor])
        <3>1. \A s, g : Pending(s, g)' <=> \E k \in 1..Len(successors) :
                k >= cursor + 1 /\ Target(successors[k]) = s /\ PathCost(successors[k]) = g
            BY <2>1 DEF Pending, Target, PathCost
        <3>2. \A s, g : Pending(s, g) => \E k \in 1..Len(successors) :
                k >= cursor /\ Target(successors[k]) = s /\ PathCost(successors[k]) = g
            BY <2>1 DEF Pending
        <3> QED BY <2>2, <3>1, <3>2
    <2>4. SUFFICES ASSUME NEW s \in States, nodes[s].present PROVE Accounted(s)'
        BY <2>1 DEF OpenNodesAreQueued, Accounted, PresentStates
    <2>5. Accounted(s)
        BY <2>1, <2>4, OpenNodesAreAccounted DEF PresentStates
    <2>6. CASE s = Target(successors[cursor]) /\ nodes[s].g = PathCost(successors[cursor])
        BY <2>1, <2>2, <2>6 DEF Accounted
    <2>7. CASE ~(s = Target(successors[cursor]) /\ nodes[s].g = PathCost(successors[cursor]))
        BY <2>1, <2>2, <2>3, <2>5, <2>7 DEF Accounted
    <2> QED BY <2>6, <2>7
<1>10. CASE NextPhase
    <2>1. /\ task' = task /\ expanding' = expanding /\ nodes' = nodes /\ open' = open
          /\ parentG' = parentG /\ successors' = successors /\ cursor' = 1
          /\ \/ pc = "generate" /\ pc' = "evaluate"
             \/ pc = "evaluate" /\ pc' = "queue"
             \/ pc = "queue" /\ cursor > Len(successors) /\ pc' = "step"
        BY <1>10 DEF NextPhase, Finished, given
    <2>2. Len(successors) \in Nat /\ cursor \in Nat
        BY <1>0, LenProperties DEF TypeOK
    <2>3. \A s, g : Pending(s, g) => Pending(s, g)'
        BY <2>1, <2>2 DEF Pending, Target, PathCost
    <2>4. SUFFICES ASSUME NEW s \in States, nodes[s].present PROVE Accounted(s)'
        BY <2>1 DEF OpenNodesAreQueued, Accounted, PresentStates
    <2>5. Accounted(s)
        BY <2>1, <2>4, OpenNodesAreAccounted DEF PresentStates
    <2> QED BY <2>1, <2>3, <2>5 DEF Accounted
<1> QED BY <1>1, <1>2, <1>3, <1>4, <1>5, <1>6, <1>7, <1>8, <1>9, <1>10 DEF Next

\* No reached state is lost: between steps of the search each state reached is
\* closed, a dead end, or queued under the cost of its cheapest known path, or the
\* running expansion is about to queue it.  Reopening, requeueing, dropping stale
\* entries and reaching a state twice in one expansion break none of this.
THEOREM OpenNodesAreQueuedAlways == Spec => []OpenNodesAreQueued
<1>1. Init => OpenNodesAreQueued
    BY DEF Init, OpenNodesAreQueued
<1> QED BY <1>1, InitCore, NextCore, QueuedStep, PTL DEF Spec

\* What ClosedNodesAreRelaxed says of the i-th operator of a closed state.
Relaxed(s, i) ==
    LET o == task.applicable[s][i]
        t == task.result[s][o]
    IN  nodes[t].present /\ (nodes[t].deadEnd \/ nodes[t].g <= nodes[s].g + task.cost[s][o])

\* The operators that the running expansion of s has not generated yet.
Excused(s, i) ==
    /\ s = expanding
    /\ pc \in {"expand", "done"} \/ (pc = "generate" /\ i >= cursor)

LEMMA ClosedNodesRelaxed ==
    ClosedNodesAreRelaxed <=>
        \A s \in States : nodes[s].closed /\ ~Goal(s) =>
            \A i \in 1..Len(task.applicable[s]) : Relaxed(s, i) \/ Excused(s, i)
    BY DEF ClosedNodesAreRelaxed, Relaxed, Excused

\* The path to a successor gets cheaper at most, and its node a dead end at most:
\* what was relaxed stays relaxed as long as the state itself stays as it was.
LEMMA RelaxedStays ==
    ASSUME Core, TypeOK', task' = task,
           \A u \in States : nodes[u].present =>
                /\ nodes'[u].present /\ nodes'[u].g <= nodes[u].g
                /\ nodes[u].deadEnd => nodes'[u].deadEnd,
           NEW s \in States, nodes'[s].g = nodes[s].g,
           NEW i \in 1..Len(task.applicable[s]), Relaxed(s, i)
    PROVE  Relaxed(s, i)'
<1> DEFINE o == task.applicable[s][i]
           t == task.result[s][o]
<1>1. o \in Operators /\ t \in States /\ task.cost[s][o] \in Nat
    BY TaskParts, ElementOfSeq DEF Core, TypeOK
<1>2. nodes[t].g \in Nat /\ nodes'[t].g \in Nat /\ nodes[s].g \in Nat
    BY <1>1 DEF Core, TypeOK, NodesType, SearchNode
<1>3. /\ nodes[t].present
      /\ nodes[t].deadEnd \/ nodes[t].g <= nodes[s].g + task.cost[s][o]
    BY DEF Relaxed
<1> HIDE DEF t, o
<1>4. /\ nodes'[t].present
      /\ nodes'[t].deadEnd \/ nodes'[t].g <= nodes'[s].g + task.cost[s][o]
    BY <1>1, <1>2, <1>3
<1> QED BY <1>4 DEF Relaxed, t, o

LEMMA RelaxedStep == Core /\ ClosedNodesAreRelaxed /\ [Next]_vars => ClosedNodesAreRelaxed'
<1> SUFFICES ASSUME Core, ClosedNodesAreRelaxed, [Next]_vars PROVE ClosedNodesAreRelaxed'
    OBVIOUS
<1>0. TypeOK /\ TypeOK' /\ nodes \in NodesType
    BY NextType DEF Core, TypeOK
<1>1. CASE UNCHANGED vars \/ Done
    BY <1>1 DEF Done, vars, given, expansion, ClosedNodesAreRelaxed, Goal
<1>2. CASE InitializeDeadEnd \/ InitializeOpen
    <2> DEFINE space == Reach(nodes, task.init, NoParent, NoOperator, 0)
    <2>1. /\ task.init \in States /\ nodes = EmptySpace
        BY <1>0, <1>2, TaskParts DEF Core, SearchStarted, TypeOK, InitializeDeadEnd,
                                     InitializeOpen
    <2>2. /\ space \in NodesType
          /\ \A u \in States : ~space[u].closed
        <3>1. space = [nodes EXCEPT ![task.init] = NewPath(NoParent, NoOperator, 0)]
            BY <2>1, EmptySpaceIsEmpty DEF Reach, Reached
        <3>2. space \in NodesType
            BY <1>0, <2>1, SpaceTypes
        <3> QED BY <1>0, <2>1, <3>1, <3>2, EmptySpaceIsEmpty DEF NewPath, NodesType
    <2>3. nodes' = space \/ nodes' = MarkDeadEnd(space, task.init)
        BY <1>2 DEF InitializeDeadEnd, InitializeOpen
    <2> HIDE DEF space
    <2>4. \A u \in States : ~nodes'[u].closed
        BY <2>1, <2>2, <2>3, MarkDeadEndEffect
    <2> QED BY <2>4 DEF ClosedNodesAreRelaxed
<1>3. CASE Timeout \/ OutOfMemory \/ PopExhausted \/ Fail
    BY <1>3 DEF Timeout, OutOfMemory, PopExhausted, Fail, Finish, given, expansion,
                ClosedNodesAreRelaxed, Goal
<1>4. ASSUME NEW e \in open,
             \/ PopReevaluatedDeadEnd(e) \/ PopReevaluatedHigher(e)
             \/ PopLazyDeadEnd(e) \/ PopLazyRequeue(e)
      PROVE  ClosedNodesAreRelaxed'
    <2>1. /\ e.state \in States /\ task' = task /\ pc = "step" /\ pc' = "step"
          /\ nodes' = nodes \/ nodes' = MarkDeadEnd(nodes, e.state)
        BY <1>0, <1>4, EntryParts, TakesEffect
           DEF PopReevaluatedDeadEnd, PopReevaluatedHigher, PopLazyDeadEnd,
               PopLazyRequeue, Prune, given
    <2>2. \A u \in States :
            /\ nodes'[u].present = nodes[u].present /\ nodes'[u].g = nodes[u].g
            /\ nodes'[u].closed = nodes[u].closed
            /\ nodes[u].deadEnd => nodes'[u].deadEnd
        BY <1>0, <2>1, MarkDeadEndEffect
    <2>3. \A u \in States : nodes'[u].g <= nodes[u].g
        BY <1>0, <2>2 DEF NodesType, SearchNode
    <2>4. SUFFICES ASSUME NEW s \in States, nodes'[s].closed, ~Goal(s)',
                          NEW i \in 1..Len(task.applicable[s])
                   PROVE  Relaxed(s, i)'
        BY <2>1 DEF ClosedNodesAreRelaxed, Relaxed
    <2>5. Relaxed(s, i)
        BY <2>1, <2>2, <2>4, ClosedNodesRelaxed DEF Goal, Excused
    <2> QED BY <1>0, <2>1, <2>2, <2>3, <2>5, RelaxedStays
<1>5. ASSUME NEW e \in open, PopGoal(e) \/ PopExpand(e)
      PROVE  ClosedNodesAreRelaxed'
    <2>1. /\ e.state \in States /\ task' = task /\ pc = "step"
          /\ nodes' = Close(nodes, e.state)
          /\ PopExpand(e) => pc' = "expand" /\ expanding' = e.state
          /\ PopGoal(e) => Goal(e.state)
        BY <1>0, <1>5, EntryParts, TakesEffect
           DEF PopGoal, PopExpand, CloseEntry, given, Goal, IsGoal
    <2>2. \A u \in States :
            /\ nodes'[u].present = nodes[u].present /\ nodes'[u].g = nodes[u].g
            /\ u # e.state => nodes'[u] = nodes[u]
            /\ nodes[u].deadEnd => nodes'[u].deadEnd
        BY <1>0, <2>1, CloseEffect
    <2>3. \A u \in States : nodes'[u].g <= nodes[u].g
        BY <1>0, <2>2 DEF NodesType, SearchNode
    <2>4. SUFFICES ASSUME NEW s \in States, nodes'[s].closed, ~Goal(s)',
                          NEW i \in 1..Len(task.applicable[s])
                   PROVE  Relaxed(s, i)' \/ Excused(s, i)'
        BY <2>1 DEF ClosedNodesAreRelaxed, Relaxed, Excused
    <2>5. CASE s = e.state
        BY <1>5, <2>1, <2>4, <2>5 DEF Excused, Goal
    <2>6. CASE s # e.state
        <3>1. Relaxed(s, i)
            BY <2>1, <2>2, <2>4, <2>6, ClosedNodesRelaxed DEF Goal, Excused
        <3> QED BY <1>0, <2>1, <2>2, <2>3, <3>1, RelaxedStays
    <2> QED BY <2>5, <2>6
<1>6. CASE BeginExpansion
    <2>1. /\ task' = task /\ nodes' = nodes /\ expanding' = expanding
          /\ pc = "expand" /\ pc' = "generate" /\ cursor' = 1
        BY <1>6 DEF BeginExpansion, given
    <2>2. \A s \in States : \A i \in 1..Len(task.applicable[s]) :
            Relaxed(s, i) \/ Excused(s, i) => Relaxed(s, i)' \/ Excused(s, i)'
        <3>1. \A s \in States : \A i : Relaxed(s, i) => Relaxed(s, i)'
            BY <2>1 DEF Relaxed
        <3>2. \A s \in States : \A i \in 1..Len(task.applicable[s]) :
                Excused(s, i) => Excused(s, i)'
            BY <1>0, <2>1, TaskParts, LenProperties DEF Excused, TypeOK
        <3> QED BY <3>1, <3>2
    <2>3. \A s \in States : Goal(s)' = Goal(s)
        BY <2>1 DEF Goal
    <2> QED BY <2>1, <2>2, <2>3, ClosedNodesRelaxed DEF ClosedNodesAreRelaxed, Relaxed, Excused
<1>7. CASE Generate
    <2>1. /\ task' = task /\ expanding' = expanding /\ cursor' = cursor + 1
          /\ pc = "generate" /\ pc' = "generate" /\ cursor \in Nat
        BY <1>0, <1>7 DEF Generate, Running, given, TypeOK
    <2>2. \A u \in States :
            /\ nodes[u].present => nodes'[u].present /\ nodes'[u].g <= nodes[u].g
            /\ nodes'[u].closed => nodes'[u] = nodes[u]
        BY <1>7, GenerateImproves
    <2>3. \A u \in States : nodes[u].present /\ nodes[u].deadEnd => nodes'[u].deadEnd
        BY <1>7, GenerateImproves
    <2>4. SUFFICES ASSUME NEW s \in States, nodes'[s].closed, ~Goal(s)',
                          NEW i \in 1..Len(task.applicable[s])
                   PROVE  Relaxed(s, i)' \/ Excused(s, i)'
        BY <2>1 DEF ClosedNodesAreRelaxed, Relaxed, Excused
    <2>5. nodes'[s] = nodes[s] /\ (Relaxed(s, i) \/ Excused(s, i))
        BY <2>1, <2>2, <2>4, ClosedNodesRelaxed DEF Goal
    <2>6. CASE Relaxed(s, i)
        <3>1. \A u \in States : nodes[u].present =>
                /\ nodes'[u].present /\ nodes'[u].g <= nodes[u].g
                /\ nodes[u].deadEnd => nodes'[u].deadEnd
            BY <2>2, <2>3
        <3> QED BY <1>0, <2>1, <2>5, <2>6, <3>1, RelaxedStays
    <2>7. CASE Excused(s, i) /\ i # cursor
        BY <2>1, <2>7 DEF Excused
    <2>8. CASE Excused(s, i) /\ i = cursor
        <3> DEFINE o == Operator(cursor)
                   t == Target(o)
        <3>1. s = expanding /\ o = task.applicable[s][i] /\ t = task.result[s][o]
            BY <2>1, <2>8 DEF Excused, Operator, Target
        <3>2. PathCost(o) = nodes'[s].g + task.cost[s][o] /\ PathCost(o) \in Nat
              /\ t \in States
            BY <1>7, <2>5, <3>1, GenerateFacts DEF PathCost
        <3>3. \/ nodes' = nodes /\ nodes[t].present
                 /\ (nodes[t].deadEnd \/ nodes[t].g <= PathCost(o))
              \/ nodes'[t] = NewPath(expanding, o, PathCost(o))
            BY <1>7, GenerateFacts
        <3> HIDE DEF o, t
        <3>4. nodes'[t].present /\ (nodes'[t].deadEnd \/ nodes'[t].g <= PathCost(o))
            BY <3>2, <3>3 DEF NewPath
        <3>5. Relaxed(s, i)'
            BY <2>1, <3>1, <3>2, <3>4 DEF Relaxed
        <3> QED BY <3>5
    <2> QED BY <2>5, <2>6, <2>7, <2>8
<1>8. CASE EvaluateSuccessor \/ QueueSuccessor
    BY <1>8 DEF EvaluateSuccessor, QueueSuccessor, Running, given,
                ClosedNodesAreRelaxed, Goal
<1>9. CASE QueueDeadEnd
    <2>1. /\ task' = task /\ pc = "queue" /\ pc' = "queue"
          /\ Target(successors[cursor]) \in States
          /\ nodes' = MarkDeadEnd(nodes, Target(successors[cursor]))
        BY <1>0, <1>9, QueueDeadEndFacts DEF QueueDeadEnd, Running, given
    <2>2. \A u \in States :
            /\ nodes'[u].present = nodes[u].present /\ nodes'[u].g = nodes[u].g
            /\ nodes'[u].closed = nodes[u].closed
            /\ nodes[u].deadEnd => nodes'[u].deadEnd
        BY <1>0, <2>1, MarkDeadEndEffect
    <2>3. \A u \in States : nodes'[u].g <= nodes[u].g
        BY <1>0, <2>2 DEF NodesType, SearchNode
    <2>4. SUFFICES ASSUME NEW s \in States, nodes'[s].closed, ~Goal(s)',
                          NEW i \in 1..Len(task.applicable[s])
                   PROVE  Relaxed(s, i)'
        BY <2>1 DEF ClosedNodesAreRelaxed, Relaxed
    <2>5. Relaxed(s, i)
        BY <2>1, <2>2, <2>4, ClosedNodesRelaxed DEF Goal, Excused
    <2> QED BY <1>0, <2>1, <2>2, <2>3, <2>5, RelaxedStays
<1>10. CASE NextPhase
    <2>1. /\ task' = task /\ nodes' = nodes /\ expanding' = expanding
          /\ \/ pc = "generate" /\ cursor > Len(task.applicable[expanding])
             \/ pc \in {"evaluate", "queue"}
          /\ cursor \in Nat /\ Len(task.applicable[expanding]) \in Nat
        BY <1>0, <1>10, TaskParts, LenProperties DEF NextPhase, Finished, given, TypeOK
    <2>2. SUFFICES ASSUME NEW s \in States, nodes'[s].closed, ~Goal(s)',
                          NEW i \in 1..Len(task.applicable[s])
                   PROVE  Relaxed(s, i)'
        BY <2>1 DEF ClosedNodesAreRelaxed, Relaxed
    <2>3. ~Excused(s, i)
        BY <2>1 DEF Excused
    <2>4. Relaxed(s, i)
        BY <2>1, <2>2, <2>3, ClosedNodesRelaxed DEF Goal
    <2> QED BY <2>1, <2>4 DEF Relaxed
<1> QED BY <1>1, <1>2, <1>3, <1>4, <1>5, <1>6, <1>7, <1>8, <1>9, <1>10 DEF Next

\* A closed state has passed its path on: each successor is reached at most as
\* expensively as through it, or is marked as a dead end, unless the running
\* expansion has not generated it yet.
THEOREM ClosedNodesAreRelaxedAlways == Spec => []ClosedNodesAreRelaxed
<1>1. Init => ClosedNodesAreRelaxed
    BY EmptySpaceIsEmpty DEF Init, ClosedNodesAreRelaxed
<1> QED BY <1>1, InitCore, NextCore, RelaxedStep, PTL DEF Spec

-----------------------------------------------------------------------------
(* The fourth layer: while there is a plan, the open list is not exhausted. *)

\* ExactDistances of the task that is searched.
LEMMA TaskDistances ==
    ASSUME Core
    PROVE  /\ \A s \in task.goals : task.hStar[s] = 0
           /\ \A s \in States \ task.goals : task.hStar[s] # DeadEnd =>
                \E o \in ApplicableSet(task, s) :
                    /\ task.hStar[task.result[s][o]] # DeadEnd
                    /\ task.hStar[s] = task.cost[s][o] + task.hStar[task.result[s][o]]
                    /\ task.steps[task.result[s][o]] < task.steps[s]
           /\ \A s \in States : \A o \in ApplicableSet(task, s) :
                task.hStar[task.result[s][o]] # DeadEnd =>
                    /\ task.hStar[s] # DeadEnd
                    /\ task.hStar[s] <= task.cost[s][o] + task.hStar[task.result[s][o]]
    BY TasksAssumption DEF Core, GivenOK, IsTask, ExactDistances

\* Of the states reached on a cheapest plan, the one nearest to the goal is open:
\* were it closed, it would have passed its path on to the next state of the plan.
LEMMA CheapestPlanIsQueued ==
    ASSUME Core, Pruned, OpenNodesAreQueued, ClosedNodesAreRelaxed,
           pc = "step", task.hStar[task.init] # DeadEnd
    PROVE  \E f \in LiveEntries :
            /\ task.hStar[f.state] # DeadEnd
            /\ f.g + task.hStar[f.state] <= task.hStar[task.init]
<1> DEFINE OnPlan == {s \in States : /\ nodes[s].present
                                     /\ task.hStar[s] # DeadEnd
                                     /\ nodes[s].g + task.hStar[s] <= task.hStar[task.init]}
<1>1. /\ task.init \in States
      /\ \A s \in States : /\ task.hStar[s] \in Estimates /\ task.steps[s] \in Nat
                           /\ nodes[s].g \in Nat
    BY TaskParts DEF Core, TypeOK, NodesType, SearchNode
<1>2. task.init \in OnPlan
    BY <1>1 DEF Core, SearchStarted, Estimates, DeadEnd
<1>3. PICK s \in OnPlan : \A u \in OnPlan : task.steps[s] <= task.steps[u]
    <2> DEFINE lengths == {task.steps[u] : u \in OnPlan}
    <2>1. lengths \in SUBSET Nat /\ lengths # {}
        BY <1>1, <1>2
    <2>2. \E m \in lengths : \A n \in lengths : m <= n
        BY <2>1, LeastNatural
    <2> QED BY <2>2
<1>4. /\ s \in States /\ nodes[s].present /\ task.hStar[s] # DeadEnd
      /\ nodes[s].g + task.hStar[s] <= task.hStar[task.init]
    OBVIOUS
<1>5. ~nodes[s].deadEnd
    BY <1>4 DEF Pruned, DeadEndsAreReal
<1>6. ~nodes[s].closed
    <2> SUFFICES ASSUME nodes[s].closed PROVE FALSE
        OBVIOUS
    <2>1. s \notin task.goals
        BY <1>4 DEF Core, GoalsAreNotExpanded, Goal
    <2>2. PICK o \in ApplicableSet(task, s) :
            /\ task.hStar[task.result[s][o]] # DeadEnd
            /\ task.hStar[s] = task.cost[s][o] + task.hStar[task.result[s][o]]
            /\ task.steps[task.result[s][o]] < task.steps[s]
        BY <1>4, <2>1, TaskDistances
    <2>3. PICK i \in 1..Len(task.applicable[s]) : o = task.applicable[s][i]
        BY DEF ApplicableSet
    <2> DEFINE t == task.result[s][o]
    <2>4. o \in Operators /\ t \in States /\ task.cost[s][o] \in Nat
        BY <1>4, <2>3, TaskParts, ElementOfSeq DEF Core, TypeOK
    <2>5. Relaxed(s, i)
        BY <1>4, <2>1, ClosedNodesRelaxed DEF Goal, Excused
    <2>6. nodes[t].present /\ (nodes[t].deadEnd \/ nodes[t].g <= nodes[s].g + task.cost[s][o])
        BY <2>3, <2>5 DEF Relaxed
    <2>7. ~nodes[t].deadEnd
        BY <2>2, <2>4 DEF Pruned, DeadEndsAreReal
    <2>8. nodes[t].g + task.hStar[t] <= task.hStar[task.init]
        <3>1. /\ task.hStar[t] \in Int /\ task.hStar[task.init] \in Int
              /\ nodes[t].g \in Nat /\ nodes[s].g \in Nat /\ task.cost[s][o] \in Nat
            BY <1>1, <2>4, <1>4 DEF Estimates, DeadEnd
        <3>2. task.hStar[s] = task.cost[s][o] + task.hStar[t]
            BY <2>2
        <3>3. nodes[t].g <= nodes[s].g + task.cost[s][o]
            BY <2>6, <2>7
        <3>4. nodes[s].g + task.hStar[s] <= task.hStar[task.init]
            BY <1>4
        <3> DEFINE gt == nodes[t].g
                   gs == nodes[s].g
                   ht == task.hStar[t]
                   hs == task.hStar[s]
                   hi == task.hStar[task.init]
                   c  == task.cost[s][o]
        <3>5. ht \in Int /\ hi \in Int /\ gt \in Int /\ gs \in Int /\ c \in Int
            BY <3>1
        <3>6. hs = c + ht /\ gt <= gs + c /\ gs + hs <= hi
            BY <3>2, <3>3, <3>4
        <3> HIDE DEF gt, gs, ht, hs, hi, c
        <3>7. gt + ht <= hi
            BY <3>5, <3>6
        <3> QED BY <3>7 DEF gt, ht, hi
    <2>9. t \in OnPlan
        BY <2>2, <2>4, <2>6, <2>8
    <2> QED BY <1>1, <1>3, <1>4, <2>2, <2>4, <2>9
<1>7. PICK f \in open : f.state = s /\ f.g = nodes[s].g
    <2>1. Accounted(s)
        BY <1>4, OpenNodesAreAccounted DEF PresentStates
    <2>2. ~Pending(s, nodes[s].g)
        BY DEF Pending
    <2> QED BY <1>5, <1>6, <2>1, <2>2 DEF Accounted
<1>8. f \in LiveEntries
    BY <1>1, <1>4, <1>6, <1>7 DEF LiveEntries, Stale
<1> QED BY <1>4, <1>7, <1>8

Layers == Core /\ Pruned /\ OpenNodesAreQueued /\ ClosedNodesAreRelaxed

LEMMA InitLayers == Init => Layers
    BY InitCore, InitPruned, EmptySpaceIsEmpty
       DEF Init, Layers, OpenNodesAreQueued, ClosedNodesAreRelaxed

LEMMA NextLayers == Layers /\ [Next]_vars => Layers'
    BY NextCore, PrunedStep, QueuedStep, RelaxedStep DEF Layers

\* What a step does to the outcome: it stays what it was, or the step ends the
\* search with a goal, unsolvable, or without an answer.
LEMMA OutcomeOfStep ==
    ASSUME Core, [Next]_vars
    PROVE  /\ task' = task
           /\ \/ outcome' = outcome
              \/ outcome'.result \in {"Timeout", "OutOfMemory", "Failed"}
              \/ PopExhausted /\ outcome'.result = "Unsolvable"
              \/ \E e \in open : PopGoal(e) /\ outcome'.result = "Solved"
<1>1. task' = task
    BY DEF Next, vars, given, Done, InitializeDeadEnd, InitializeOpen, Timeout,
           OutOfMemory, PopExhausted, PopReevaluatedDeadEnd, PopReevaluatedHigher,
           PopLazyDeadEnd, PopLazyRequeue, PopGoal, PopExpand, BeginExpansion, Generate,
           EvaluateSuccessor, QueueDeadEnd, QueueSuccessor, NextPhase, Fail
<1>2. CASE Timeout \/ OutOfMemory \/ Fail
    BY <1>1, <1>2 DEF Timeout, OutOfMemory, Fail, Finish
<1>3. CASE PopExhausted \/ \E e \in open : PopGoal(e)
    BY <1>1, <1>3 DEF PopExhausted, PopGoal, Finish
<1>4. CASE ~(Timeout \/ OutOfMemory \/ Fail \/ PopExhausted \/ \E e \in open : PopGoal(e))
    BY <1>1, <1>4
       DEF Next, vars, Done, InitializeDeadEnd, InitializeOpen,
           PopReevaluatedDeadEnd, PopReevaluatedHigher, PopLazyDeadEnd, PopLazyRequeue,
           PopExpand, BeginExpansion, Generate, EvaluateSuccessor, QueueDeadEnd,
           QueueSuccessor, NextPhase
<1> QED BY <1>2, <1>3, <1>4

LEMMA UnsolvableStep == Layers /\ UnsolvableIsRight /\ [Next]_vars => UnsolvableIsRight'
<1> SUFFICES ASSUME Layers, UnsolvableIsRight, [Next]_vars PROVE UnsolvableIsRight'
    OBVIOUS
<1>1. CASE PopExhausted
    <2>1. pc = "step" /\ LiveEntries = {}
        BY <1>1 DEF PopExhausted
    <2>2. task.hStar[task.init] = DeadEnd
        BY <2>1, CheapestPlanIsQueued DEF Layers
    <2> QED BY <2>2, OutcomeOfStep DEF Layers, UnsolvableIsRight
<1>2. CASE ~PopExhausted
    BY <1>2, OutcomeOfStep DEF Layers, UnsolvableIsRight
<1> QED BY <1>1, <1>2

\* The search claims unsolvability only of tasks without a plan, for every
\* ordering, open list, lazy heuristic and online heuristic, as long as the
\* heuristics call only dead ends dead ends.
THEOREM UnsolvableIsRightAlways == Spec => []UnsolvableIsRight
<1>1. Init => UnsolvableIsRight
    BY DEF Init, UnsolvableIsRight
<1> QED BY <1>1, InitLayers, NextLayers, UnsolvableStep, PTL DEF Spec

-----------------------------------------------------------------------------
(***************************************************************************)
(* The paths that best-first search records: they are paths of the task    *)
(* without cycles, they only ever improve, and the search implements the   *)
(* abstract search over paths of module PathSearch.  No path waits twice   *)
(* to be expanded, and preferred operators are those of the state that is. *)
(* A* with the default open list finds paths of optimal cost.              *)
(***************************************************************************)

\* The cost of the path that the abstract search knows to each state.
Best == [s \in States |-> IF nodes[s].present THEN nodes[s].g ELSE -1]

-----------------------------------------------------------------------------
(* What a step does to the nodes.                                           *)

\* The step reaches the initial state.
StartsNodes ==
    /\ InitializeDeadEnd \/ InitializeOpen
    /\ nodes = EmptySpace /\ task.init \in States
    /\ nodes'[task.init].present /\ nodes'[task.init].g = 0
    /\ nodes'[task.init].parent = NoParent
    /\ \A u \in States : u # task.init => nodes'[u] = nodes[u]

\* The step changes statuses only: it marks dead ends and closes states.
KeepsPaths ==
    \A u \in States :
        /\ nodes'[u].present = nodes[u].present /\ nodes'[u].g = nodes[u].g
        /\ nodes'[u].parent = nodes[u].parent
        /\ nodes'[u].operator = nodes[u].operator
        /\ nodes[u].deadEnd => nodes'[u].deadEnd
        /\ nodes[u].closed => nodes'[u].closed

\* The step finds a new path, which is cheaper than the one known so far.
FindsPath ==
    \E t \in States, o \in Operators :
        /\ Generate
        /\ o \in ApplicableSet(task, expanding)
        /\ t = task.result[expanding][o]
        /\ nodes[expanding].present /\ t # expanding
        /\ nodes'[t] = NewPath(expanding, o, nodes[expanding].g + task.cost[expanding][o])
        /\ nodes[t].present =>
             ~nodes[t].deadEnd /\ nodes[expanding].g + task.cost[expanding][o] < nodes[t].g
        /\ \A u \in States : u # t => nodes'[u] = nodes[u]

LEMMA NodesOfStep ==
    ASSUME Core, [Next]_vars
    PROVE  StartsNodes \/ KeepsPaths \/ FindsPath
<1>0. TypeOK /\ nodes \in NodesType /\ task.init \in States
    BY TaskParts DEF Core, TypeOK
<1>1. CASE nodes' = nodes
    BY <1>1 DEF KeepsPaths
<1>2. CASE UNCHANGED vars \/ Done \/ Timeout \/ OutOfMemory \/ PopExhausted \/ Fail
           \/ BeginExpansion \/ EvaluateSuccessor \/ QueueSuccessor \/ NextPhase
    BY <1>1, <1>2 DEF vars, Done, Timeout, OutOfMemory, PopExhausted, Fail,
                      BeginExpansion, EvaluateSuccessor, QueueSuccessor, NextPhase
<1>3. CASE InitializeDeadEnd \/ InitializeOpen
    <2> DEFINE space == Reach(nodes, task.init, NoParent, NoOperator, 0)
    <2>1. nodes = EmptySpace
        BY <1>3 DEF Core, SearchStarted, InitializeDeadEnd, InitializeOpen
    <2>2. /\ space \in NodesType
          /\ space[task.init].present /\ space[task.init].g = 0
          /\ space[task.init].parent = NoParent
          /\ \A u \in States : u # task.init => space[u] = nodes[u]
        <3>1. space = [nodes EXCEPT ![task.init] = NewPath(NoParent, NoOperator, 0)]
            BY <1>0, <2>1, EmptySpaceIsEmpty DEF Reach, Reached
        <3>2. space \in NodesType
            BY <1>0, SpaceTypes
        <3> QED BY <1>0, <3>1, <3>2 DEF NewPath, NodesType
    <2>3. nodes' = space \/ nodes' = MarkDeadEnd(space, task.init)
        BY <1>3 DEF InitializeDeadEnd, InitializeOpen
    <2> HIDE DEF space
    <2>4. /\ nodes'[task.init].present /\ nodes'[task.init].g = 0
          /\ nodes'[task.init].parent = NoParent
          /\ \A u \in States : u # task.init => nodes'[u] = nodes[u]
        BY <1>0, <2>2, <2>3, MarkDeadEndEffect
    <2> QED BY <1>0, <1>3, <2>1, <2>4 DEF StartsNodes
<1>4. ASSUME NEW e \in open,
             \/ PopReevaluatedDeadEnd(e) \/ PopReevaluatedHigher(e)
             \/ PopLazyDeadEnd(e) \/ PopLazyRequeue(e)
             \/ PopGoal(e) \/ PopExpand(e)
      PROVE  KeepsPaths
    <2>1. nodes' \in {nodes, MarkDeadEnd(nodes, e.state), Close(nodes, e.state)}
        BY <1>4 DEF PopReevaluatedDeadEnd, PopReevaluatedHigher, PopLazyDeadEnd,
               PopLazyRequeue, PopGoal, PopExpand, CloseEntry, Prune
    <2>2. e.state \in States
        BY <1>0, EntryParts
    <2> QED BY <1>0, <2>1, <2>2, MarkDeadEndEffect, CloseEffect DEF KeepsPaths
<1>5. CASE QueueDeadEnd
    BY <1>0, <1>5, QueueDeadEndFacts, MarkDeadEndEffect DEF KeepsPaths
<1>6. CASE Generate
    <2> DEFINE o == Operator(cursor)
               t == Target(o)
    <2>1. /\ o \in ApplicableSet(task, expanding) /\ t \in States
          /\ o \in Operators
          /\ t = task.result[expanding][o]
          /\ PathCost(o) = nodes[expanding].g + task.cost[expanding][o]
          /\ nodes[expanding].present
          /\ \A u \in States : u # t => nodes'[u] = nodes[u]
          /\ \/ nodes' = nodes
             \/ /\ t # expanding
                /\ nodes'[t] = NewPath(expanding, o, PathCost(o))
                /\ nodes[t].present => ~nodes[t].deadEnd /\ PathCost(o) < nodes[t].g
        BY <1>6, GenerateFacts DEF PathCost, Target
    <2> HIDE DEF o, t
    <2>2. CASE nodes' = nodes
        BY <1>1, <2>2
    <2>3. CASE /\ t # expanding
               /\ nodes'[t] = NewPath(expanding, o, PathCost(o))
               /\ nodes[t].present => ~nodes[t].deadEnd /\ PathCost(o) < nodes[t].g
        <3>1. FindsPath
            BY <1>6, <2>1, <2>3 DEF FindsPath
        <3> QED BY <3>1
    <2> QED BY <2>1, <2>2, <2>3
<1> QED BY <1>2, <1>3, <1>4, <1>5, <1>6 DEF Next

-----------------------------------------------------------------------------
\* The path of a node only gets cheaper, a dead end stays one, and a closed node
\* is opened only by a cheaper path (the action in NodesOnlyImprove).
THEOREM NodesOnlyImproveAlways == Spec => NodesOnlyImprove
<1> DEFINE Improves ==
        \A s \in States : nodes[s].present =>
            /\ nodes'[s].present
            /\ nodes'[s].g <= nodes[s].g
            /\ nodes[s].deadEnd => nodes'[s].deadEnd /\ nodes'[s].g = nodes[s].g
            /\ nodes[s].closed /\ ~nodes'[s].closed => nodes'[s].g < nodes[s].g
<1>1. Core /\ [Next]_vars => [Improves]_vars
    <2> SUFFICES ASSUME Core, [Next]_vars PROVE Improves
        OBVIOUS
    <2>1. \A s \in States : nodes[s].g \in Nat
        BY DEF Core, TypeOK, NodesType, SearchNode
    <2>2. CASE StartsNodes
        BY <2>2, EmptySpaceIsEmpty DEF StartsNodes
    <2>3. CASE KeepsPaths
        BY <2>1, <2>3 DEF KeepsPaths
    <2>4. CASE FindsPath
        <3>1. PICK t \in States, o \in Operators :
                /\ nodes'[t] = NewPath(expanding, o,
                                       nodes[expanding].g + task.cost[expanding][o])
                /\ nodes[t].present =>
                     /\ ~nodes[t].deadEnd
                     /\ nodes[expanding].g + task.cost[expanding][o] < nodes[t].g
                /\ \A u \in States : u # t => nodes'[u] = nodes[u]
            BY <2>4 DEF FindsPath
        <3>2. nodes[expanding].g + task.cost[expanding][o] \in Nat
            BY <2>1, TaskParts DEF Core, TypeOK
        <3>3. nodes'[t].present /\ nodes'[t].g = nodes[expanding].g + task.cost[expanding][o]
            BY <3>1 DEF NewPath
        <3> QED BY <2>1, <3>1, <3>2, <3>3
    <2> QED BY <2>2, <2>3, <2>4, NodesOfStep
<1>2. Spec => []Core
    BY InitCore, NextCore, PTL DEF Spec
<1> QED BY <1>1, <1>2, PTL DEF Spec, NodesOnlyImprove

-----------------------------------------------------------------------------
(* The live entries of the open list.  Every path recorded is strictly      *)
(* cheaper than the one before it, so no path is queued twice and the paths *)
(* that wait in an expansion differ.                                        *)

\* No two successors kept by an expansion stand for the same path.
WaitingPathsDiffer ==
    pc \in {"generate", "evaluate", "queue"} =>
        \A k, l \in 1..Len(successors) :
            /\ Target(successors[k]) = Target(successors[l])
            /\ PathCost(successors[k]) = PathCost(successors[l])
            => k = l

\* A state has at most one live entry.
LiveEntriesDiffer == \A e, f \in LiveEntries : e.state = f.state => e = f

\* No live entry stands for a path that waits.
NoLiveEntryWaits == pc \in Phases => \A e \in LiveEntries : ~Pending(e.state, e.g)

LEMMA EntryCosts ==
    ASSUME Core, NEW e \in open
    PROVE  /\ e.state \in States /\ e.g \in Nat /\ nodes[e.state].g \in Nat
           /\ nodes[e.state].present /\ nodes[e.state].g <= e.g
           /\ e \in LiveEntries => ~nodes[e.state].closed /\ nodes[e.state].g = e.g
<1>1. /\ e.state \in States /\ e.g \in Nat /\ nodes[e.state].g \in Nat
      /\ nodes[e.state].present /\ nodes[e.state].g <= e.g
    BY EntryParts DEF Core, EntriesHaveNodes, TypeOK, NodesType, SearchNode
<1> QED BY <1>1 DEF LiveEntries, Stale

\* No step revives a stale entry: a closed state is opened by a cheaper path only,
\* which leaves the entry stale.
LEMMA StaleStays ==
    ASSUME Core, [Next]_vars, NEW e \in open, ~Stale(e)'
    PROVE  e \in LiveEntries
<1>1. /\ e.state \in States /\ e.g \in Nat /\ nodes[e.state].g \in Nat
      /\ nodes[e.state].present /\ nodes[e.state].g <= e.g
    BY EntryCosts
<1>2. ~nodes'[e.state].closed /\ ~(nodes'[e.state].g < e.g)
    BY DEF Stale
<1>3. CASE StartsNodes
    BY <1>3 DEF StartsNodes, Core, SearchStarted, InitializeDeadEnd, InitializeOpen
<1>4. CASE KeepsPaths
    BY <1>1, <1>2, <1>4 DEF KeepsPaths, LiveEntries, Stale
<1>5. CASE FindsPath
    <2>1. PICK t \in States, o \in Operators :
            /\ nodes'[t] = NewPath(expanding, o,
                                   nodes[expanding].g + task.cost[expanding][o])
            /\ nodes[t].present =>
                 nodes[expanding].g + task.cost[expanding][o] < nodes[t].g
            /\ \A u \in States : u # t => nodes'[u] = nodes[u]
        BY <1>5 DEF FindsPath
    <2>2. nodes[expanding].g + task.cost[expanding][o] \in Nat
        BY <2>1, TaskParts DEF Core, TypeOK, NodesType, SearchNode
    <2>3. nodes'[t].g = nodes[expanding].g + task.cost[expanding][o]
        BY <2>1 DEF NewPath
    <2>4. e.state # t
        BY <1>1, <1>2, <2>1, <2>2, <2>3
    <2> QED BY <1>1, <1>2, <2>1, <2>4 DEF LiveEntries, Stale
<1> QED BY <1>3, <1>4, <1>5, NodesOfStep

\* A step that inserts no entry leaves the live ones live or stale.
LEMMA LiveEntriesShrink ==
    ASSUME Core, [Next]_vars, LiveEntriesDiffer, open' \subseteq open
    PROVE  LiveEntries' \subseteq LiveEntries /\ LiveEntriesDiffer'
<1>1. \A e \in LiveEntries' : e \in LiveEntries
    BY StaleStays DEF LiveEntries
<1> QED BY <1>1 DEF LiveEntriesDiffer

\* A requeued entry takes the place of the one that was taken.
LEMMA RequeueKeepsOneLive ==
    ASSUME Core, [Next]_vars, LiveEntriesDiffer, NEW e \in open, Takes(e),
           NEW h \in Nat, NEW b \in BOOLEAN, Requeue(e, h, b)
    PROVE  LiveEntriesDiffer'
<1>1. PICK f \in open' : open' = Rest(e) \cup {f} /\ f.state = e.state /\ f.g = e.g
    BY RequeueEffect DEF Core
<1>2. Rest(e) \subseteq open \ {e} /\ e \in LiveEntries
    BY TakesEffect DEF Core, Takes, IsNext
<1>3. \A x \in LiveEntries' : x = f \/ (x \in LiveEntries /\ x # e)
    BY <1>1, <1>2, StaleStays DEF LiveEntries
<1>4. \A x \in LiveEntries' : x # f => x.state # f.state
    BY <1>1, <1>2, <1>3 DEF LiveEntriesDiffer
<1> QED BY <1>3, <1>4 DEF LiveEntriesDiffer

LEMMA PopKeepsOneLive ==
    ASSUME Core, [Next]_vars, LiveEntriesDiffer, NEW e \in open,
           \/ PopReevaluatedDeadEnd(e) \/ PopReevaluatedHigher(e)
           \/ PopLazyDeadEnd(e) \/ PopLazyRequeue(e)
           \/ PopGoal(e) \/ PopExpand(e)
    PROVE  /\ LiveEntriesDiffer'
           /\ pc' \in {"step", "done", "expand"}
<1>1. pc = "step" /\ Takes(e)
    BY DEF PopReevaluatedDeadEnd, PopReevaluatedHigher, PopLazyDeadEnd, PopLazyRequeue,
           PopGoal, PopExpand, CloseEntry, Takes, IsNext
<1>2. pc' \in {"step", "done", "expand"}
    BY <1>1 DEF PopReevaluatedDeadEnd, PopReevaluatedHigher, PopLazyDeadEnd,
           PopLazyRequeue, PopGoal, PopExpand, Finish
<1>3. CASE PopReevaluatedHigher(e)
    <2>1. PICK r \in RevisionsAfter : /\ Estimate(e.state, r) > e.h
                                      /\ Requeue(e, Estimate(e.state, r), FALSE)
        BY <1>3 DEF PopReevaluatedHigher
    <2>2. Estimate(e.state, r) \in Nat
        BY <2>1, EstimateTypes, EntryParts DEF Estimates, DeadEnd, Core
    <2> QED BY <1>1, <1>2, <2>1, <2>2, RequeueKeepsOneLive
<1>4. CASE PopLazyRequeue(e)
    <2> DEFINE h == IF LazyEstimate(e.state) > e.h THEN LazyEstimate(e.state) ELSE e.h
    <2>1. Requeue(e, h, TRUE) /\ h \in Nat
        BY <1>4, EstimateTypes, EntryParts DEF PopLazyRequeue, Estimates, DeadEnd, Core
    <2> HIDE DEF h
    <2> QED BY <1>1, <1>2, <2>1, RequeueKeepsOneLive
<1>5. CASE ~PopReevaluatedHigher(e) /\ ~PopLazyRequeue(e)
    <2>1. open' = Rest(e)
        BY <1>5 DEF PopReevaluatedDeadEnd, PopLazyDeadEnd, PopGoal, PopExpand,
                    CloseEntry, Prune
    <2> QED BY <1>1, <1>2, <2>1, TakesEffect, LiveEntriesShrink DEF Core
<1> QED BY <1>3, <1>4, <1>5

\* The path that generate records is cheaper than all entries of its state and
\* all paths to it that wait.
LEMMA GenerateKeepsOneLive ==
    ASSUME Core, Generate, LiveEntriesDiffer, NoLiveEntryWaits, WaitingPathsDiffer
    PROVE  LiveEntriesDiffer' /\ NoLiveEntryWaits' /\ WaitingPathsDiffer'
<1> DEFINE o == Operator(cursor)
<1>1. /\ task' = task /\ expanding' = expanding /\ parentG' = parentG /\ open' = open
      /\ pc = "generate" /\ pc' = "generate" /\ [Next]_vars
    BY DEF Generate, Running, given, Next
<1>2. \A q : Target(q)' = Target(q) /\ PathCost(q)' = PathCost(q)
    BY <1>1, ExpansionIsStable
<1>3. LiveEntries' \subseteq LiveEntries /\ LiveEntriesDiffer'
    BY <1>1, LiveEntriesShrink
<1>4. CASE successors' = successors
    BY <1>1, <1>2, <1>3, <1>4 DEF NoLiveEntryWaits, WaitingPathsDiffer, Pending, Phases
<1>5. CASE successors' # successors
    <2>1. /\ o \in Operators /\ Target(o) \in States /\ PathCost(o) \in Nat
          /\ successors' = Append(successors, o)
          /\ nodes[Target(o)].present => PathCost(o) < nodes[Target(o)].g
        BY <1>5, GenerateFacts
    <2>2. /\ Len(successors) \in Nat /\ Len(successors') = Len(successors) + 1
          /\ successors'[Len(successors) + 1] = o
          /\ \A k \in 1..Len(successors) : successors'[k] = successors[k]
        BY <2>1, AppendSuccessor DEF Core
    <2> HIDE DEF o
    <2>3. \A k \in 1..Len(successors) :
            Target(successors[k]) = Target(o) => PathCost(successors[k]) # PathCost(o)
        <3> SUFFICES ASSUME NEW k \in 1..Len(successors),
                            Target(successors[k]) = Target(o)
                     PROVE  PathCost(successors[k]) # PathCost(o)
            OBVIOUS
        <3>1. /\ nodes[Target(o)].present
              /\ nodes[Target(o)].g <= PathCost(successors[k])
            BY <1>1 DEF Core, ExpansionIsCurrent, Phases
        <3>2. nodes[Target(o)].g \in Nat /\ PathCost(successors[k]) \in Nat
            BY <2>1, TransitionTypes DEF Core, TypeOK, NodesType, SearchNode
        <3> QED BY <2>1, <3>1, <3>2
    <2>4. WaitingPathsDiffer'
        <3>1. \A k, l \in 1..Len(successors') :
                /\ Target(successors'[k]) = Target(successors'[l])
                /\ PathCost(successors'[k]) = PathCost(successors'[l])
                => k = l
            BY <1>1, <2>2, <2>3 DEF WaitingPathsDiffer
        <3> QED BY <1>2, <3>1 DEF WaitingPathsDiffer
    <2>5. ASSUME NEW e \in LiveEntries', Pending(e.state, e.g)'
          PROVE  FALSE
        <3>1. e \in LiveEntries /\ e \in open
            BY <1>3 DEF LiveEntries
        <3>2. PICK k \in 1..Len(successors') :
                Target(successors'[k]) = e.state /\ PathCost(successors'[k]) = e.g
            BY <1>2, <2>5 DEF Pending
        <3>3. CASE k \in 1..Len(successors)
            BY <1>1, <2>2, <3>1, <3>2, <3>3 DEF NoLiveEntryWaits, Pending, Phases
        <3>4. CASE k = Len(successors) + 1
            BY <2>1, <2>2, <3>1, <3>2, <3>4, EntryCosts
        <3> QED BY <2>2, <3>3, <3>4
    <2> QED BY <1>3, <2>4, <2>5 DEF NoLiveEntryWaits
<1> QED BY <1>4, <1>5

\* The path that is queued was not queued before, and does not wait again.
LEMMA QueueKeepsOneLive ==
    ASSUME Core, QueueSuccessor, LiveEntriesDiffer, NoLiveEntryWaits, WaitingPathsDiffer
    PROVE  LiveEntriesDiffer' /\ NoLiveEntryWaits' /\ WaitingPathsDiffer'
<1>1. /\ task' = task /\ expanding' = expanding /\ parentG' = parentG /\ nodes' = nodes
      /\ pc = "queue" /\ pc' = "queue" /\ successors' = successors
      /\ cursor' = cursor + 1 /\ [Next]_vars
    BY DEF QueueSuccessor, Running, given, Next
<1>2. \A q : Target(q)' = Target(q) /\ PathCost(q)' = PathCost(q)
    BY <1>1, ExpansionIsStable
<1>3. PICK f \in open' :
        /\ open' = open \cup {f}
        /\ f.state = Target(successors[cursor]) /\ f.g = PathCost(successors[cursor])
    BY QueueSuccessorFacts DEF Core
<1>4. cursor \in 1..Len(successors) /\ Len(successors) \in Nat
    BY QueueSuccessorFacts, LenProperties DEF Core, TypeOK
<1>5. Pending(f.state, f.g)
    BY <1>1, <1>3, <1>4 DEF Pending
<1>6. \A e \in LiveEntries : ~(e.state = f.state /\ e.g = f.g)
    BY <1>1, <1>5 DEF NoLiveEntryWaits, Phases
<1>7. \A e \in LiveEntries' : e = f \/ e \in LiveEntries
    BY <1>1, <1>3, StaleStays DEF LiveEntries
<1>8. ASSUME f \in LiveEntries', NEW e \in LiveEntries', e # f, e.state = f.state
      PROVE  FALSE
    <2>1. e \in LiveEntries /\ e \in open
        BY <1>7, <1>8 DEF LiveEntries
    <2>2. nodes[e.state].g = e.g /\ nodes[e.state].g \in Nat
        BY <2>1, EntryCosts
    <2>3. nodes[f.state].g <= f.g /\ f.g \in Nat
        BY <1>1, <1>3, <1>4, TransitionTypes DEF Core, ExpansionIsCurrent, Phases
    <2>4. ~(nodes[f.state].g < f.g)
        BY <1>1, <1>8 DEF LiveEntries, Stale
    <2> QED BY <1>6, <1>8, <2>1, <2>2, <2>3, <2>4
<1>9. LiveEntriesDiffer'
    <2>1. ASSUME NEW x \in LiveEntries', NEW y \in LiveEntries', x.state = y.state
          PROVE  x = y
        BY <1>7, <1>8, <2>1 DEF LiveEntriesDiffer
    <2> QED BY <2>1 DEF LiveEntriesDiffer
<1>10. WaitingPathsDiffer'
    BY <1>1, <1>2 DEF WaitingPathsDiffer
<1>11. NoLiveEntryWaits'
    <2> SUFFICES ASSUME NEW e \in LiveEntries', Pending(e.state, e.g)' PROVE FALSE
        BY DEF NoLiveEntryWaits
    <2>1. PICK k \in 1..Len(successors) :
            /\ k >= cursor + 1
            /\ Target(successors[k]) = e.state /\ PathCost(successors[k]) = e.g
        BY <1>1, <1>2 DEF Pending
    <2>2. CASE e = f
        BY <1>1, <1>3, <1>4, <2>1, <2>2 DEF WaitingPathsDiffer
    <2>3. CASE e # f
        <3>1. Pending(e.state, e.g)
            BY <1>1, <1>4, <2>1 DEF Pending
        <3> QED BY <1>1, <1>7, <2>3, <3>1 DEF NoLiveEntryWaits, Phases
    <2> QED BY <2>2, <2>3
<1> QED BY <1>9, <1>10, <1>11

LEMMA OneLiveStep ==
    /\ Core /\ LiveEntriesDiffer /\ NoLiveEntryWaits /\ WaitingPathsDiffer /\ [Next]_vars
    => LiveEntriesDiffer' /\ NoLiveEntryWaits' /\ WaitingPathsDiffer'
<1> SUFFICES ASSUME Core, LiveEntriesDiffer, NoLiveEntryWaits, WaitingPathsDiffer,
                    [Next]_vars
             PROVE  LiveEntriesDiffer' /\ NoLiveEntryWaits' /\ WaitingPathsDiffer'
    OBVIOUS
<1>1. CASE pc' \notin {"generate", "evaluate", "queue"}
    <2>1. NoLiveEntryWaits' /\ WaitingPathsDiffer'
        BY <1>1 DEF NoLiveEntryWaits, WaitingPathsDiffer, Pending
    <2>2. CASE InitializeOpen
        <3>1. open = {}
            BY <2>2 DEF InitializeOpen, Core, SearchStarted
        <3>2. \A e, f \in open' : e = f
            BY <2>2, <3>1 DEF InitializeOpen, Push
        <3> QED BY <2>1, <3>2 DEF LiveEntries, LiveEntriesDiffer
    <2>3. ASSUME NEW e \in open,
                 \/ PopReevaluatedDeadEnd(e) \/ PopReevaluatedHigher(e)
                 \/ PopLazyDeadEnd(e) \/ PopLazyRequeue(e)
                 \/ PopGoal(e) \/ PopExpand(e)
          PROVE  LiveEntriesDiffer'
        BY <2>3, PopKeepsOneLive
    <2>4. CASE \/ UNCHANGED vars \/ Done \/ Timeout \/ OutOfMemory \/ PopExhausted \/ Fail
               \/ InitializeDeadEnd \/ NextPhase
        <3>1. open' \subseteq open
            BY <2>4 DEF vars, Done, Timeout, OutOfMemory, PopExhausted, Fail,
                        InitializeDeadEnd, NextPhase
        <3> QED BY <2>1, <3>1, LiveEntriesShrink
    <2>5. CASE BeginExpansion \/ Generate \/ EvaluateSuccessor \/ QueueDeadEnd \/ QueueSuccessor
        BY <1>1, <2>5 DEF BeginExpansion, Generate, EvaluateSuccessor, QueueDeadEnd,
                          QueueSuccessor, Running
    <2> QED BY <2>1, <2>2, <2>3, <2>4, <2>5 DEF Next
<1>2. CASE BeginExpansion
    <2>1. open' = open /\ Len(successors') = 0
        BY <1>2, EmptySeq DEF BeginExpansion
    <2> QED BY <2>1, LiveEntriesShrink DEF NoLiveEntryWaits, WaitingPathsDiffer, Pending
<1>3. CASE /\ EvaluateSuccessor \/ QueueDeadEnd \/ NextPhase \/ UNCHANGED vars \/ Done
           /\ pc' \in {"generate", "evaluate", "queue"}
    <2>1. /\ open' = open /\ successors' = successors /\ task' = task
          /\ expanding' = expanding /\ parentG' = parentG
          /\ pc \in {"generate", "evaluate", "queue"}
          /\ pc = "queue" => pc' = "queue" /\ cursor <= cursor'
        BY <1>3 DEF EvaluateSuccessor, QueueDeadEnd, NextPhase, Running, Finished, vars,
                    Done, given, expansion, Core, TypeOK
    <2>2. LiveEntries' \subseteq LiveEntries /\ LiveEntriesDiffer'
        BY <2>1, LiveEntriesShrink
    <2>3. \A q : Target(q)' = Target(q) /\ PathCost(q)' = PathCost(q)
        BY <2>1, ExpansionIsStable
    <2>4. WaitingPathsDiffer'
        BY <2>1, <2>3 DEF WaitingPathsDiffer
    <2>5. ASSUME NEW s, NEW g, Pending(s, g)' PROVE Pending(s, g)
        <3>1. PICK k \in 1..Len(successors) :
                /\ pc' = "queue" => k >= cursor'
                /\ Target(successors[k]) = s /\ PathCost(successors[k]) = g
            BY <2>1, <2>3, <2>5 DEF Pending
        <3>2. pc = "queue" => k >= cursor
            <4>1. cursor \in Nat /\ cursor' \in Nat /\ k \in Nat
                BY <2>1, NextType DEF Core, TypeOK
            <4> QED BY <2>1, <3>1, <4>1
        <3> QED BY <2>1, <3>1, <3>2 DEF Pending
    <2> QED BY <2>1, <2>2, <2>4, <2>5 DEF NoLiveEntryWaits, Phases
<1>4. CASE \/ InitializeDeadEnd \/ InitializeOpen \/ Timeout \/ OutOfMemory
           \/ PopExhausted \/ Fail
           \/ \E e \in open : \/ PopReevaluatedDeadEnd(e) \/ PopReevaluatedHigher(e)
                              \/ PopLazyDeadEnd(e) \/ PopLazyRequeue(e)
                              \/ PopGoal(e) \/ PopExpand(e)
    <2>1. pc' \in {"step", "done", "expand"}
        BY <1>4, PopKeepsOneLive DEF InitializeDeadEnd, InitializeOpen, Timeout,
            OutOfMemory, PopExhausted, Fail, Finish
    <2> QED BY <1>1, <2>1
<1> QED BY <1>1, <1>2, <1>3, <1>4, GenerateKeepsOneLive, QueueKeepsOneLive DEF Next

\* A state has at most one live entry, and none while a path to it waits to be
\* queued: reopening a state, requeueing an entry and reaching a state along
\* several paths of one expansion never make pop return two entries for one path.
THEOREM OneLiveEntryAlways == Spec => []OneLiveEntry
<1>1. Init => LiveEntriesDiffer /\ NoLiveEntryWaits /\ WaitingPathsDiffer
    BY DEF Init, LiveEntriesDiffer, NoLiveEntryWaits, WaitingPathsDiffer, LiveEntries,
           Pending, Phases
<1>2. LiveEntriesDiffer /\ NoLiveEntryWaits => OneLiveEntry
    BY DEF LiveEntriesDiffer, NoLiveEntryWaits, OneLiveEntry
<1> QED BY <1>1, <1>2, InitCore, NextCore, OneLiveStep, PTL DEF Spec

-----------------------------------------------------------------------------
(* The preferred operators: expanding a state takes those stored for it, and *)
(* it is evaluated again before it can be expanded again.                    *)

IsFresh(s) == preferred[s] = task.preferred[s]

\* What PreferredAreFresh needs between the steps it speaks of.
PreferredAwaitUse ==
    UsesPreferredOperators(params.openList) =>
        /\ pc = "expand" => IsFresh(expanding)
        /\ pc \in {"evaluate", "queue"} =>
            \A k \in 1..Len(evaluations) : IsFresh(Target(successors[k]))
        /\ pc \in {"generate", "evaluate", "queue"} => taken = task.preferred[expanding]
        /\ \A e \in LiveEntries : IsFresh(e.state)

LEMMA EvaluateFreshens ==
    ASSUME Core, UsesPreferredOperators(params.openList), task' = task,
           NEW s \in States, NEW r, Evaluate(s, r)
    PROVE  /\ IsFresh(s)'
           /\ \A u \in States : IsFresh(u) => IsFresh(u)'
    BY DEF Evaluate, IsFresh, Core, TypeOK

LEMMA KeepsEstimateKeepsFresh ==
    ASSUME Core, UsesPreferredOperators(params.openList), task' = task,
           NEW e \in open, KeepsEstimate(e)
    PROVE  \A u \in States : IsFresh(u) => IsFresh(u)'
<1>1. CASE NeedsReevaluation(e)
    BY <1>1, EntryParts, EvaluateFreshens DEF KeepsEstimate, Core
<1>2. CASE ~NeedsReevaluation(e)
    BY <1>2 DEF KeepsEstimate, heuristicVars, IsFresh
<1> QED BY <1>1, <1>2

\* A pop leaves what is stored as fresh as it was; what it requeues or expands is
\* the state of the live entry it took.
LEMMA PopKeepsFresh ==
    ASSUME Core, PreferredAwaitUse, [Next]_vars, NEW e \in open,
           UsesPreferredOperators(params.openList),
           \/ PopReevaluatedDeadEnd(e) \/ PopReevaluatedHigher(e)
           \/ PopLazyDeadEnd(e) \/ PopLazyRequeue(e)
           \/ PopGoal(e) \/ PopExpand(e)
    PROVE  /\ \A f \in LiveEntries' : IsFresh(f.state)'
           /\ PopExpand(e) => IsFresh(expanding)'
<1>1. /\ task' = task /\ e.state \in States /\ Takes(e) /\ e \in LiveEntries
    BY EntryParts DEF PopReevaluatedDeadEnd, PopReevaluatedHigher, PopLazyDeadEnd,
           PopLazyRequeue, PopGoal, PopExpand, CloseEntry, Takes, IsNext, given, Core
<1>2. \A u \in States : IsFresh(u) => IsFresh(u)'
    BY <1>1, EvaluateFreshens, KeepsEstimateKeepsFresh
       DEF PopReevaluatedDeadEnd, PopReevaluatedHigher, PopLazyDeadEnd, PopLazyRequeue,
           PopGoal, PopExpand, CloseEntry
<1>3. IsFresh(e.state)'
    BY <1>1, <1>2 DEF PreferredAwaitUse
<1>4. \A f \in open' : f \in open \/ f.state = e.state
    <2>1. Rest(e) \subseteq open
        BY <1>1, TakesEffect DEF Core
    <2>2. CASE PopReevaluatedHigher(e)
        <3>1. PICK r \in RevisionsAfter : /\ Estimate(e.state, r) > e.h
                                          /\ Requeue(e, Estimate(e.state, r), FALSE)
            BY <2>2 DEF PopReevaluatedHigher
        <3>2. Estimate(e.state, r) \in Nat
            BY <1>1, <3>1, EstimateTypes, EntryParts DEF Estimates, DeadEnd, Core
        <3>3. \E f \in open' : open' = Rest(e) \cup {f} /\ f.state = e.state
            BY <3>1, <3>2, RequeueEffect DEF Core
        <3> QED BY <2>1, <3>3
    <2>3. CASE PopLazyRequeue(e)
        <3> DEFINE h == IF LazyEstimate(e.state) > e.h THEN LazyEstimate(e.state) ELSE e.h
        <3>1. Requeue(e, h, TRUE) /\ h \in Nat
            BY <1>1, <2>3, EstimateTypes, EntryParts
               DEF PopLazyRequeue, Estimates, DeadEnd, Core
        <3> HIDE DEF h
        <3>2. \E f \in open' : open' = Rest(e) \cup {f} /\ f.state = e.state
            BY <3>1, RequeueEffect DEF Core
        <3> QED BY <2>1, <3>2
    <2> QED BY <2>1, <2>2, <2>3
            DEF PopReevaluatedDeadEnd, PopLazyDeadEnd, PopGoal, PopExpand, CloseEntry, Prune
<1>5. \A f \in LiveEntries' : f \in LiveEntries \/ f.state = e.state
    BY <1>4, StaleStays DEF LiveEntries
<1>6. \A f \in LiveEntries : IsFresh(f.state)'
    BY <1>2, EntryCosts DEF PreferredAwaitUse, LiveEntries
<1>7. PopExpand(e) => IsFresh(expanding)'
    BY <1>3 DEF PopExpand, IsFresh
<1> QED BY <1>3, <1>5, <1>6, <1>7 DEF IsFresh

\* Expanding a state takes what is stored for it, and no live entry is left to read it.
LEMMA BeginKeepsFresh ==
    ASSUME Core, PreferredAwaitUse, BeginExpansion
    PROVE  PreferredAwaitUse'
<1>1. /\ task' = task /\ params' = params /\ open' = open /\ nodes' = nodes
      /\ pc = "expand" /\ pc' = "generate" /\ expanding' = expanding
      /\ taken' = preferred[expanding] /\ nodes[expanding].closed
      /\ \A u \in States : u # expanding => preferred'[u] = preferred[u]
    BY DEF BeginExpansion, given, Core, ExpansionIsCurrent, Phases, TypeOK
<1>2. LiveEntries' = LiveEntries
    BY <1>1 DEF LiveEntries, Stale
<1>3. \A e \in LiveEntries : e.state \in States /\ e.state # expanding
    BY <1>1, EntryCosts DEF LiveEntries
<1> QED BY <1>1, <1>2, <1>3 DEF PreferredAwaitUse, IsFresh

\* The third phase queues states that the second evaluated.
LEMMA QueueKeepsFresh ==
    ASSUME Core, PreferredAwaitUse, QueueSuccessor, UsesPreferredOperators(params.openList)
    PROVE  \A e \in LiveEntries' : IsFresh(e.state)
<1>1. nodes' = nodes /\ [Next]_vars /\ pc = "queue"
    BY DEF QueueSuccessor, Running, Next
<1>2. PICK f \in open' :
        open' = open \cup {f} /\ f.state = Target(successors[cursor])
    BY QueueSuccessorFacts DEF Core
<1>3. IsFresh(f.state)
    BY <1>1, <1>2, QueueSuccessorFacts DEF PreferredAwaitUse, Core
<1>4. \A e \in LiveEntries' : e = f \/ e \in LiveEntries
    BY <1>1, <1>2, StaleStays DEF LiveEntries
<1> QED BY <1>3, <1>4 DEF PreferredAwaitUse

LEMMA FreshStep == Core /\ PreferredAwaitUse /\ [Next]_vars => PreferredAwaitUse'
<1> SUFFICES ASSUME Core, PreferredAwaitUse, [Next]_vars PROVE PreferredAwaitUse'
    OBVIOUS
<1>0. task' = task /\ params' = params
    BY DEF Next, vars, given, Done, InitializeDeadEnd, InitializeOpen, Timeout,
           OutOfMemory, PopExhausted, PopReevaluatedDeadEnd, PopReevaluatedHigher,
           PopLazyDeadEnd, PopLazyRequeue, PopGoal, PopExpand, BeginExpansion, Generate,
           EvaluateSuccessor, QueueDeadEnd, QueueSuccessor, NextPhase, Fail
<1> SUFFICES ASSUME UsesPreferredOperators(params.openList) PROVE PreferredAwaitUse'
    BY <1>0 DEF PreferredAwaitUse
<1>1. CASE InitializeDeadEnd
    <2>1. open' = {} /\ pc' = "step"
        BY <1>1 DEF InitializeDeadEnd, Core, SearchStarted
    <2> QED BY <2>1 DEF PreferredAwaitUse, LiveEntries
<1>2. CASE InitializeOpen
    <2>1. /\ pc' = "step" /\ IsFresh(task.init)' /\ task.init \in States
          /\ \A e \in open' : e.state = task.init
        BY <1>0, <1>2, EvaluateFreshens, TaskParts
           DEF InitializeOpen, Push, Core, SearchStarted, TypeOK
    <2> QED BY <1>0, <2>1 DEF PreferredAwaitUse, LiveEntries, IsFresh
<1>3. ASSUME NEW e \in open,
             \/ PopReevaluatedDeadEnd(e) \/ PopReevaluatedHigher(e)
             \/ PopLazyDeadEnd(e) \/ PopLazyRequeue(e)
             \/ PopGoal(e) \/ PopExpand(e)
      PROVE  PreferredAwaitUse'
    <2>1. /\ pc' \in {"step", "done", "expand"}
          /\ pc' = "expand" => PopExpand(e)
        BY <1>3 DEF PopReevaluatedDeadEnd, PopReevaluatedHigher, PopLazyDeadEnd,
           PopLazyRequeue, PopGoal, PopExpand, Finish, CloseEntry, Takes, IsNext
    <2> QED BY <1>0, <1>3, <2>1, PopKeepsFresh DEF PreferredAwaitUse
<1>4. CASE Generate \/ QueueDeadEnd \/ NextPhase \/ Timeout \/ OutOfMemory
           \/ PopExhausted \/ Fail \/ UNCHANGED vars \/ Done
    <2>1. /\ open' \subseteq open /\ preferred' = preferred
          /\ pc' \in {"expand", "generate", "evaluate", "queue"} =>
               /\ pc' = "expand" => pc = "expand"
               /\ expanding' = expanding /\ parentG' = parentG /\ taken' = taken
               /\ evaluations' = evaluations
               /\ pc' # "expand" => pc \in {"generate", "evaluate", "queue"}
               /\ pc' \in {"evaluate", "queue"} =>
                    successors' = successors /\ (pc = "generate" => evaluations = <<>>)
        BY <1>4 DEF Generate, QueueDeadEnd, NextPhase, Timeout, OutOfMemory, PopExhausted,
                    Fail, Done, vars, expansion, heuristicVars, Running, Finished, Finish,
                    Core, TypeOK
    <2>2. \A e \in LiveEntries' : e \in LiveEntries
        BY <2>1, StaleStays DEF LiveEntries
    <2>3. \A u : IsFresh(u)' = IsFresh(u)
        BY <1>0, <2>1 DEF IsFresh
    <2>4. pc' \in {"expand", "generate", "evaluate", "queue"} => \A o : Target(o)' = Target(o)
        BY <1>0, <2>1, ExpansionIsStable
    <2>5. Len(<<>>) = 0
        BY EmptySeq
    <2>6. pc' \in {"evaluate", "queue"} =>
            \A k \in 1..Len(evaluations') : IsFresh(Target(successors'[k]))
        BY <2>1, <2>5 DEF PreferredAwaitUse
    <2> QED BY <1>0, <2>1, <2>2, <2>3, <2>4, <2>6 DEF PreferredAwaitUse
<1>5. CASE EvaluateSuccessor
    <2>1. /\ pc = "evaluate" /\ pc' = "evaluate" /\ expanding' = expanding
          /\ taken' = taken /\ successors' = successors /\ parentG' = parentG
          /\ open' = open /\ nodes' = nodes
        BY <1>5 DEF EvaluateSuccessor, Running
    <2>2. \A o : Target(o)' = Target(o)
        BY <1>0, <2>1, ExpansionIsStable
    <2>3. /\ preferred'[Target(successors[cursor])] = task.preferred[Target(successors[cursor])]
          /\ \A u \in States : IsFresh(u) => preferred'[u] = task.preferred[u]
          /\ Len(evaluations) = cursor - 1 /\ Len(evaluations') = cursor
          /\ cursor \in 1..Len(successors) /\ Len(successors) \in Nat
        <3>1. PICK r \in RevisionsAfter : Evaluate(Target(successors[cursor]), r)
            BY <1>5, EvaluateSuccessorFacts DEF Core
        <3>2. /\ Target(successors[cursor]) \in States
              /\ Len(evaluations) = cursor - 1 /\ Len(evaluations') = cursor
              /\ cursor \in 1..Len(successors) /\ Len(successors) \in Nat
            BY <1>5, EvaluateSuccessorFacts, LenProperties DEF Core, TypeOK
        <3> DEFINE s == Target(successors[cursor])
        <3> HIDE DEF s
        <3>3. /\ preferred'[s] = task.preferred[s]
              /\ \A u \in States : IsFresh(u) => preferred'[u] = task.preferred[u]
            BY <1>0, <3>1, <3>2, EvaluateFreshens DEF s, IsFresh
        <3> QED BY <3>2, <3>3 DEF s
    <2>4. \A k \in 1..Len(evaluations') :
            preferred'[Target(successors[k])] = task.preferred[Target(successors[k])]
        <3>1. \A k \in 1..Len(successors) : Target(successors[k]) \in States
            BY TransitionTypes DEF Core
        <3> QED BY <2>1, <2>3, <3>1 DEF PreferredAwaitUse
    <2>5. \A e \in LiveEntries' : IsFresh(e.state)'
        BY <1>0, <2>1, <2>3, EntryCosts DEF PreferredAwaitUse, LiveEntries, Stale, IsFresh
    <2> QED BY <1>0, <2>1, <2>2, <2>4, <2>5 DEF PreferredAwaitUse, IsFresh
<1>6. CASE QueueSuccessor
    <2>1. /\ pc = "queue" /\ pc' = "queue" /\ expanding' = expanding /\ taken' = taken
          /\ successors' = successors /\ evaluations' = evaluations
          /\ parentG' = parentG /\ preferred' = preferred
        BY <1>6 DEF QueueSuccessor, Running, heuristicVars
    <2>2. \A o : Target(o)' = Target(o)
        BY <1>0, <2>1, ExpansionIsStable
    <2> QED BY <1>0, <1>6, <2>1, <2>2, QueueKeepsFresh DEF PreferredAwaitUse, IsFresh
<1> QED BY <1>1, <1>2, <1>3, <1>4, <1>5, <1>6, BeginKeepsFresh DEF Next

\* An expansion reads the preferred operators that the last evaluation of its state
\* stored, although reading them clears them: a reopened state is evaluated again
\* before its new entry can be popped.
THEOREM PreferredAreFreshAlways == Spec => []PreferredAreFresh
<1>1. Init => PreferredAwaitUse
    BY DEF Init, PreferredAwaitUse, LiveEntries
<1>2. PreferredAwaitUse => PreferredAreFresh
    BY DEF PreferredAwaitUse, PreferredAreFresh, IsFresh
<1> QED BY <1>1, <1>2, InitCore, NextCore, FreshStep, PTL DEF Spec

-----------------------------------------------------------------------------
(* The recorded paths.                                                      *)

\* A state that is not reached has no parent.
UnreachedHaveNoParent ==
    \A s \in States : ~nodes[s].present => nodes[s].parent = NoParent

LEMMA RealStep ==
    ASSUME Core, PathsAreReal, [Next]_vars
    PROVE  PathsAreReal'
<1>0. /\ \A s \in States : /\ nodes[s].g \in Nat
                           /\ nodes[s].parent \in States \cup {NoParent}
                           /\ nodes[s].operator \in Operators \cup {NoOperator}
      /\ \A s \in States : \A o \in Operators : task.cost[s][o] \in Nat
      /\ \A s \in States : \A o \in ApplicableSet(task, s) : o \in Operators
      /\ expanding \in States /\ task' = task
    BY TaskParts, ElementOfSeq, OutcomeOfStep
       DEF Core, TypeOK, NodesType, SearchNode, ApplicableSet
<1>1. CASE StartsNodes
    <2>1. \A s \in States : nodes'[s].present => s = task.init
        BY <1>1, EmptySpaceIsEmpty DEF StartsNodes
    <2> QED BY <1>0, <1>1, <2>1 DEF StartsNodes, PathsAreReal, PresentStates
<1>2. CASE KeepsPaths
    <2> SUFFICES ASSUME NEW s \in States, nodes'[s].present
                 PROVE  IF nodes'[s].parent = NoParent
                        THEN s = task.init /\ nodes'[s].g = 0
                        ELSE LET p == nodes'[s].parent
                                 o == nodes'[s].operator
                             IN  /\ nodes'[p].present
                                 /\ o \in ApplicableSet(task, p)
                                 /\ task.result[p][o] = s
                                 /\ nodes'[p].g + task.cost[p][o] <= nodes'[s].g
        BY <1>0 DEF PathsAreReal, PresentStates
    <2> QED BY <1>0, <1>2 DEF KeepsPaths, PathsAreReal, PresentStates
<1>3. CASE FindsPath
    <2>1. PICK t \in States, o \in Operators :
            /\ o \in ApplicableSet(task, expanding)
            /\ t = task.result[expanding][o]
            /\ nodes[expanding].present /\ t # expanding
            /\ nodes'[t] = NewPath(expanding, o, nodes[expanding].g + task.cost[expanding][o])
            /\ nodes[t].present =>
                 nodes[expanding].g + task.cost[expanding][o] < nodes[t].g
            /\ \A u \in States : u # t => nodes'[u] = nodes[u]
        BY <1>3 DEF FindsPath
    <2> DEFINE g == nodes[expanding].g + task.cost[expanding][o]
    <2>2. /\ g \in Nat /\ nodes'[t].present /\ nodes'[t].g = g
          /\ nodes'[t].parent = expanding /\ nodes'[t].operator = o
        BY <1>0, <2>1 DEF NewPath
    <2>3. \A u \in States : nodes[u].present => nodes'[u].present /\ nodes'[u].g <= nodes[u].g
        BY <1>0, <2>1, <2>2
    <2>4. SUFFICES ASSUME NEW s \in States, nodes'[s].present
                   PROVE  IF nodes'[s].parent = NoParent
                          THEN s = task.init /\ nodes'[s].g = 0
                          ELSE LET p == nodes'[s].parent
                                   q == nodes'[s].operator
                               IN  /\ nodes'[p].present
                                   /\ q \in ApplicableSet(task, p)
                                   /\ task.result[p][q] = s
                                   /\ nodes'[p].g + task.cost[p][q] <= nodes'[s].g
        BY <1>0 DEF PathsAreReal, PresentStates
    <2>5. CASE s = t
        <3>1. nodes'[expanding] = nodes[expanding] /\ expanding # NoParent
            BY <1>0, <2>1, NoParentAssumption
        <3>2. nodes'[s].parent = expanding /\ nodes'[s].operator = o /\ nodes'[s].g = g
            BY <2>2, <2>5
        <3>3. /\ nodes'[expanding].present
              /\ o \in ApplicableSet(task, expanding)
              /\ task.result[expanding][o] = s
            BY <2>1, <2>5, <3>1
        <3>4. nodes'[expanding].g + task.cost[expanding][o] <= g
            BY <2>2, <3>1
        <3> HIDE DEF g
        <3> QED BY <3>1, <3>2, <3>3, <3>4
    <2>6. CASE s # t
        <3>1. nodes'[s] = nodes[s] /\ nodes[s].present
            BY <2>1, <2>4, <2>6
        <3>2. CASE nodes[s].parent = NoParent
            BY <3>1, <3>2 DEF PathsAreReal, PresentStates
        <3>3. CASE nodes[s].parent # NoParent
            <4> DEFINE p == nodes[s].parent
                       q == nodes[s].operator
            <4>1. /\ p \in States /\ nodes[p].present /\ q \in ApplicableSet(task, p)
                  /\ task.result[p][q] = s
                  /\ nodes[p].g + task.cost[p][q] <= nodes[s].g
                BY <1>0, <3>1, <3>3 DEF PathsAreReal, PresentStates
            <4>2. q \in Operators /\ task.cost[p][q] \in Nat
                BY <1>0, <4>1
            <4>3. nodes'[p].present /\ nodes'[p].g <= nodes[p].g
                BY <2>3, <4>1
            <4>4. nodes'[p].g \in Nat
                BY <1>0, <2>1, <2>2, <4>1
            <4>5. nodes'[p].g + task.cost[p][q] <= nodes'[s].g
                BY <1>0, <3>1, <4>1, <4>2, <4>3, <4>4
            <4> QED BY <3>1, <3>3, <4>1, <4>3, <4>5
        <3> QED BY <3>2, <3>3
    <2> QED BY <2>5, <2>6
<1> QED BY <1>1, <1>2, <1>3, NodesOfStep

LEMMA UnreachedStep ==
    ASSUME Core, UnreachedHaveNoParent, [Next]_vars
    PROVE  UnreachedHaveNoParent'
<1>1. CASE StartsNodes
    BY <1>1 DEF StartsNodes, UnreachedHaveNoParent
<1>2. CASE KeepsPaths
    BY <1>2 DEF KeepsPaths, UnreachedHaveNoParent
<1>3. CASE FindsPath
    BY <1>3 DEF FindsPath, NewPath, UnreachedHaveNoParent
<1> QED BY <1>1, <1>2, <1>3, NodesOfStep

\* A new path does not close a cycle.  If t is reached for the first time, no node
\* has it as parent.  If t was reached before, the costs do not increase towards
\* the initial state, so every ancestor of the expanded state is cheaper than t was.
LEMMA AcyclicStep ==
    ASSUME Core, PathsAreReal, UnreachedHaveNoParent, PathsAreAcyclic, [Next]_vars
    PROVE  PathsAreAcyclic'
<1>0. /\ \A s \in States : /\ nodes[s].g \in Nat
                           /\ nodes[s].operator \in Operators \cup {NoOperator}
      /\ \A s \in States : \A o \in Operators : task.cost[s][o] \in Nat
      /\ \A s \in States : \A o \in ApplicableSet(task, s) : o \in Operators
      /\ expanding \in States
    BY TaskParts, ElementOfSeq
       DEF Core, TypeOK, NodesType, SearchNode, ApplicableSet
<1>1. CASE StartsNodes
    <2>1. \A s \in States : nodes'[s].parent = NoParent
        BY <1>1, EmptySpaceIsEmpty DEF StartsNodes
    <2> QED BY <2>1, NoParentAssumption DEF PathsAreAcyclic
<1>2. CASE KeepsPaths
    BY <1>2 DEF KeepsPaths, PathsAreAcyclic
<1>3. CASE FindsPath
    <2>1. PICK t \in States, o \in Operators :
            /\ nodes[expanding].present /\ t # expanding
            /\ nodes'[t] = NewPath(expanding, o, nodes[expanding].g + task.cost[expanding][o])
            /\ nodes[t].present =>
                 nodes[expanding].g + task.cost[expanding][o] < nodes[t].g
            /\ \A u \in States : u # t => nodes'[u] = nodes[u]
        BY <1>3 DEF FindsPath
    <2>2. nodes'[t].parent = expanding
        BY <2>1 DEF NewPath
    <2>3. SUFFICES ASSUME NEW S \in SUBSET States, S # {},
                          \A s \in S : nodes'[s].parent \in S
                   PROVE  FALSE
        BY DEF PathsAreAcyclic
    <2>4. t \in S /\ expanding \in S
        <3>1. CASE t \notin S
            <4>1. \A s \in S : nodes[s].parent \in S
                BY <2>1, <2>3, <3>1
            <4> QED BY <2>3, <4>1 DEF PathsAreAcyclic
        <3> QED BY <2>2, <2>3, <3>1
    <2>5. ASSUME NEW s \in S, s # t
          PROVE  LET p == nodes[s].parent
                 IN  /\ p \in S /\ nodes[p].present /\ nodes[p].g <= nodes[s].g
        <3> DEFINE p == nodes[s].parent
                   q == nodes[s].operator
        <3>1. p \in S /\ p \in States /\ s \in States
            BY <2>1, <2>3, <2>5
        <3>2. nodes[s].present /\ p # NoParent
            BY <3>1, NoParentAssumption DEF UnreachedHaveNoParent
        <3>3. /\ nodes[p].present /\ q \in ApplicableSet(task, p)
              /\ nodes[p].g + task.cost[p][q] <= nodes[s].g
            BY <3>1, <3>2 DEF PathsAreReal, PresentStates
        <3>4. task.cost[p][q] \in Nat /\ nodes[p].g \in Nat /\ nodes[s].g \in Nat
            BY <1>0, <3>1, <3>3
        <3>5. nodes[p].g <= nodes[s].g
            BY <3>3, <3>4
        <3> QED BY <3>1, <3>3, <3>5
    <2>6. CASE ~nodes[t].present
        <3> DEFINE T == S \ {t}
        <3>1. T \in SUBSET States /\ T # {}
            BY <2>1, <2>4
        <3>2. \A s \in T : nodes[s].parent \in T
            BY <2>5, <2>6
        <3> QED BY <3>1, <3>2 DEF PathsAreAcyclic
    <2>7. CASE nodes[t].present
        <3> DEFINE T == {s \in S : s # t /\ nodes[s].g < nodes[t].g}
        <3>1. expanding \in T
            <4>1. /\ nodes[expanding].g \in Nat /\ nodes[t].g \in Nat
                  /\ task.cost[expanding][o] \in Nat
                BY <1>0, <2>1
            <4>2. nodes[expanding].g < nodes[t].g
                BY <2>1, <2>7, <4>1
            <4> QED BY <2>1, <2>4, <4>2
        <3>2. ASSUME NEW s \in T
              PROVE  nodes[s].parent \in T
            <4> DEFINE p == nodes[s].parent
            <4>1. s \in S /\ s # t /\ nodes[s].g < nodes[t].g
                OBVIOUS
            <4>2. p \in S /\ nodes[p].g <= nodes[s].g
                BY <2>5, <4>1
            <4>3. nodes[p].g \in Nat /\ nodes[s].g \in Nat /\ nodes[t].g \in Nat
                BY <1>0, <2>3, <4>1, <4>2
            <4>4. nodes[p].g < nodes[t].g
                BY <4>1, <4>2, <4>3
            <4> QED BY <4>2, <4>3, <4>4
        <3>3. T \in SUBSET States /\ T # {}
            BY <3>1
        <3> QED BY <3>2, <3>3 DEF PathsAreAcyclic
    <2> QED BY <2>6, <2>7
<1> QED BY <1>1, <1>2, <1>3, NodesOfStep

LEMMA InitPaths == Init => PathsAreReal /\ UnreachedHaveNoParent /\ PathsAreAcyclic
    BY EmptySpaceIsEmpty, NoParentAssumption
       DEF Init, PathsAreReal, PresentStates, UnreachedHaveNoParent, PathsAreAcyclic

\* The recorded paths are paths of the task: each reached state but the initial
\* one follows from its parent, which is no costlier, by an applicable operator.
THEOREM PathsAreRealAlways == Spec => []PathsAreReal
<1> QED BY InitCore, NextCore, InitPaths, RealStep, PTL DEF Spec

\* trace_path ends, in the initial state: following the parents leads out of
\* every set of states, also when operators cost nothing and after reopening.
THEOREM PathsAreAcyclicAlways == Spec => []PathsAreAcyclic
<1> QED BY InitCore, NextCore, InitPaths, RealStep, UnreachedStep, AcyclicStep, PTL
        DEF Spec

-----------------------------------------------------------------------------
(* Refinement: best-first search is a search over paths.                    *)

\* As long as the search runs it has no outcome.
NoOutcomeYet == pc # "done" => outcome.result = "None"

LEMMA InitRefines == Init => Paths!Init /\ NoOutcomeYet
<1> SUFFICES ASSUME Init PROVE Paths!Init /\ NoOutcomeYet
    OBVIOUS
<1>1. Best = [s \in States |-> -1]
    BY EmptySpaceIsEmpty DEF Init, Best
<1> QED BY <1>1 DEF Init, Paths!Init, Paths!Unreached, NoOutcomeYet, Best

LEMMA NoOutcomeStep == NoOutcomeYet /\ [Next]_vars => NoOutcomeYet'
<1> SUFFICES ASSUME NoOutcomeYet, [Next]_vars PROVE NoOutcomeYet'
    OBVIOUS
<1>1. CASE pc' = "done"
    BY <1>1 DEF NoOutcomeYet
<1>2. CASE UNCHANGED vars
    BY <1>2 DEF NoOutcomeYet, vars
<1>3. ASSUME pc # "done", outcome' = outcome
      PROVE  NoOutcomeYet'
    BY <1>3 DEF NoOutcomeYet
<1>4. CASE InitializeDeadEnd \/ InitializeOpen
    BY <1>3, <1>4 DEF InitializeDeadEnd, InitializeOpen
<1>5. CASE Timeout \/ OutOfMemory \/ PopExhausted \/ Fail
    BY <1>1, <1>5 DEF Timeout, OutOfMemory, PopExhausted, Fail, Finish
<1>6. ASSUME NEW e \in open,
             \/ PopReevaluatedDeadEnd(e) \/ PopReevaluatedHigher(e)
             \/ PopLazyDeadEnd(e) \/ PopLazyRequeue(e) \/ PopExpand(e)
      PROVE  NoOutcomeYet'
    BY <1>3, <1>6 DEF PopReevaluatedDeadEnd, PopReevaluatedHigher, PopLazyDeadEnd,
                      PopLazyRequeue, PopExpand, CloseEntry, Takes, IsNext
<1>7. ASSUME NEW e \in open, PopGoal(e) PROVE NoOutcomeYet'
    BY <1>1, <1>7 DEF PopGoal, Finish
<1>8. CASE \/ BeginExpansion \/ Generate \/ EvaluateSuccessor
           \/ QueueDeadEnd \/ QueueSuccessor \/ NextPhase
    BY <1>3, <1>8 DEF BeginExpansion, Generate, EvaluateSuccessor, QueueDeadEnd,
                      QueueSuccessor, NextPhase, Running, Finished
<1>9. CASE Done
    BY <1>2, <1>9 DEF Done
<1> QED BY <1>2, <1>4, <1>5, <1>6, <1>7, <1>8, <1>9 DEF Next

\* Steps that change statuses only know the same paths as before.
LEMMA BestIsKept ==
    ASSUME KeepsPaths
    PROVE  Best' = Best
    BY DEF KeepsPaths, Best

LEMMA StartRefines ==
    ASSUME Core, NoOutcomeYet, [Next]_vars, StartsNodes
    PROVE  Paths!Start
<1>1. /\ pc = "initialize" /\ outcome' = outcome /\ task' = task
      /\ outcome.result = "None"
    BY DEF StartsNodes, InitializeDeadEnd, InitializeOpen, given, NoOutcomeYet
<1>2. Best = [s \in States |-> -1]
    BY EmptySpaceIsEmpty DEF StartsNodes, Best
<1>3. \A s \in States : Best'[s] = IF s = task.init THEN 0 ELSE -1
    BY EmptySpaceIsEmpty DEF StartsNodes, Best
<1>4. Best' = [Best EXCEPT ![task.init] = 0]
    BY <1>2, <1>3 DEF Best
<1> QED BY <1>1, <1>2, <1>4 DEF Paths!Start, Paths!Running, Paths!Unreached, Best

LEMMA ImproveRefines ==
    ASSUME Core, NoOutcomeYet, FindsPath
    PROVE  \E s \in States, o \in Operators : Paths!Improve(s, o)
<1>1. PICK t \in States, o \in Operators :
        /\ Generate
        /\ o \in ApplicableSet(task, expanding)
        /\ t = task.result[expanding][o]
        /\ nodes[expanding].present
        /\ nodes'[t] = NewPath(expanding, o, nodes[expanding].g + task.cost[expanding][o])
        /\ nodes[t].present =>
             nodes[expanding].g + task.cost[expanding][o] < nodes[t].g
        /\ \A u \in States : u # t => nodes'[u] = nodes[u]
    BY DEF FindsPath
<1>2. outcome' = outcome /\ task' = task /\ outcome.result = "None"
    BY <1>1 DEF Generate, Running, given, NoOutcomeYet
<1>3. expanding \in States /\ nodes[expanding].g \in Nat
    BY DEF Core, TypeOK, NodesType, SearchNode
<1>4. Best[expanding] = nodes[expanding].g /\ Best[expanding] # -1
    BY <1>1, <1>3 DEF Best
<1>5. /\ Best[t] = -1 \/ nodes[expanding].g + task.cost[expanding][o] < Best[t]
      /\ Best' = [Best EXCEPT ![t] = nodes[expanding].g + task.cost[expanding][o]]
    BY <1>1 DEF Best, NewPath
<1>6. Paths!Improve(expanding, o)
    <2>1. Paths!Running /\ UNCHANGED <<task, outcome>>
        BY <1>2 DEF Paths!Running
    <2> DEFINE g == nodes[expanding].g + task.cost[expanding][o]
    <2>2. g = Best[expanding] + task.cost[expanding][o]
        BY <1>4
    <2>3. Best[t] = -1 \/ g < Best[t]
        BY <1>5
    <2>4. Best' = [Best EXCEPT ![t] = g]
        BY <1>5
    <2> HIDE DEF g
    <2>5. Best[expanding] # Paths!Unreached
        BY <1>4 DEF Paths!Unreached
    <2>6. /\ Best[task.result[expanding][o]] = Paths!Unreached
             \/ Best[expanding] + task.cost[expanding][o] < Best[task.result[expanding][o]]
          /\ Best' = [Best EXCEPT ![task.result[expanding][o]] =
                        Best[expanding] + task.cost[expanding][o]]
        BY <1>1, <2>2, <2>3, <2>4 DEF Paths!Unreached
    <2> QED BY <1>1, <2>1, <2>5, <2>6
            DEF Paths!Improve, Best, Paths!ApplicableSet, ApplicableSet
<1> QED BY <1>1, <1>3, <1>6

LEMMA EndRefines ==
    ASSUME Layers, NoOutcomeYet, [Next]_vars, KeepsPaths, outcome' # outcome
    PROVE  Paths!Next
<1>1. task' = task /\ Best' = Best
    BY OutcomeOfStep, BestIsKept DEF Layers
<1>2. CASE Timeout \/ OutOfMemory \/ Fail
    <2>1. /\ outcome.result = "None"
          /\ \E reason \in {"Timeout", "OutOfMemory", "Failed"} :
                Paths!Answer(reason, NoGoal, 0)
        BY <1>2 DEF Timeout, OutOfMemory, Fail, Finish, Running, IsNext, NoOutcomeYet,
                    Paths!Answer
    <2>2. Paths!GiveUp
        BY <1>1, <2>1, Zenon DEF Paths!GiveUp, Paths!Running, Best
    <2> QED BY <2>2 DEF Paths!Next
<1>3. CASE PopExhausted
    <2>1. /\ outcome.result = "None" /\ Paths!Answer("Unsolvable", NoGoal, 0)
          /\ pc = "step" /\ LiveEntries = {}
        BY <1>3 DEF PopExhausted, Finish, NoOutcomeYet, Paths!Answer
    <2>2. task.hStar[task.init] = DeadEnd
        BY <2>1, CheapestPlanIsQueued DEF Layers
    <2>3. Paths!ClaimUnsolvable
        BY <1>1, <2>1, <2>2, Zenon
           DEF Paths!ClaimUnsolvable, Paths!Running, Paths!DeadEnd, DeadEnd, Best
    <2> QED BY <2>3 DEF Paths!Next
<1>4. ASSUME NEW e \in open, PopGoal(e)
      PROVE  Paths!Next
    <2>1. /\ outcome.result = "None" /\ e.state \in task.goals
          /\ Paths!Answer("Solved", e.state, nodes[e.state].g)
        BY <1>4 DEF PopGoal, CloseEntry, Takes, IsNext, IsGoal, Finish, NoOutcomeYet,
                    Paths!Answer
    <2>2. e.state \in States /\ nodes[e.state].present /\ nodes[e.state].g \in Nat
        BY EntryParts DEF Layers, Core, EntriesHaveNodes, TypeOK, NodesType, SearchNode
    <2>3. Best[e.state] = nodes[e.state].g /\ Best[e.state] # -1
        BY <2>2 DEF Best
    <2>4. Paths!Solve(e.state)
        BY <1>1, <2>1, <2>3 DEF Paths!Solve, Paths!Running, Paths!Unreached, Best
    <2> QED BY <2>2, <2>4 DEF Paths!Next
<1>5. Timeout \/ OutOfMemory \/ Fail \/ PopExhausted \/ \E e \in open : PopGoal(e)
    BY DEF Next, vars, Done, InitializeDeadEnd, InitializeOpen,
           PopReevaluatedDeadEnd, PopReevaluatedHigher, PopLazyDeadEnd, PopLazyRequeue,
           PopExpand, BeginExpansion, Generate, EvaluateSuccessor, QueueDeadEnd,
           QueueSuccessor, NextPhase
<1> QED BY <1>2, <1>3, <1>4, <1>5

LEMMA StepRefines ==
    ASSUME Layers, NoOutcomeYet, [Next]_vars
    PROVE  [Paths!Next]_(Paths!vars)
<1>1. CASE StartsNodes
    BY <1>1, StartRefines DEF Layers, Paths!Next
<1>2. CASE FindsPath
    BY <1>2, ImproveRefines DEF Layers, Paths!Next
<1>3. CASE KeepsPaths /\ outcome' = outcome
    <2>1. task' = task /\ Best' = Best
        BY <1>3, OutcomeOfStep, BestIsKept DEF Layers
    <2> QED BY <1>3, <2>1 DEF Paths!vars, Best
<1>4. CASE KeepsPaths /\ outcome' # outcome
    BY <1>4, EndRefines
<1> QED BY <1>1, <1>2, <1>3, <1>4, NodesOfStep DEF Layers

\* Best-first search implements the abstract search over paths: each of its steps
\* improves one known path by one transition, ends with a goal it knows a path
\* to, ends with a correct claim that there is no plan, gives up, or is invisible.
THEOREM SearchImplementsPathSearch == Spec => ImplementsPathSearch
<1>1. Spec => [](Layers /\ NoOutcomeYet)
    BY InitLayers, NextLayers, InitRefines, NoOutcomeStep, PTL DEF Spec
<1> QED BY <1>1, InitRefines, StepRefines, PTL DEF Spec, ImplementsPathSearch, Paths!Spec

-----------------------------------------------------------------------------
(* A* with the default open list returns plans of optimal cost, if its      *)
(* heuristics are admissible (they need not be consistent) and no           *)
(* transition is cheaper than the cheapest operator in the initial state.   *)

\* The configurations and the tasks for which A* is optimal.
AStarOnly ==
    /\ \A p \in SearchParams : p.ordering = "AStar" /\ p.openList = "TieBreaking"
    /\ \A t \in Tasks : AdmissibleTask(t)

-----------------------------------------------------------------------------
(* The first layer: no path is a shortcut past the goal distances.          *)

LEMMA ShortcutStep == Core /\ PathsAreNoShortcuts /\ [Next]_vars => PathsAreNoShortcuts'
<1> SUFFICES ASSUME Core, PathsAreNoShortcuts, [Next]_vars PROVE PathsAreNoShortcuts'
    OBVIOUS
<1>0. /\ TypeOK /\ nodes \in NodesType /\ task' = task
      /\ \A s \in States : task.hStar[s] \in Estimates /\ nodes[s].g \in Nat
    BY OutcomeOfStep, TaskParts DEF Core, TypeOK, NodesType, SearchNode
<1>1. CASE \A s \in States : nodes'[s].present = nodes[s].present /\ nodes'[s].g = nodes[s].g
    BY <1>0, <1>1 DEF PathsAreNoShortcuts, PresentStates
<1>2. CASE UNCHANGED vars \/ Done \/ Timeout \/ OutOfMemory \/ PopExhausted \/ Fail
           \/ BeginExpansion \/ EvaluateSuccessor \/ QueueSuccessor \/ NextPhase
    BY <1>1, <1>2 DEF vars, Done, Timeout, OutOfMemory, PopExhausted, Fail,
                      BeginExpansion, EvaluateSuccessor, QueueSuccessor, NextPhase
<1>3. CASE InitializeDeadEnd \/ InitializeOpen
    <2> DEFINE space == Reach(nodes, task.init, NoParent, NoOperator, 0)
    <2>1. /\ task.init \in States /\ nodes = EmptySpace
        BY <1>0, <1>3, TaskParts DEF Core, SearchStarted, TypeOK, InitializeDeadEnd,
                                     InitializeOpen
    <2>2. /\ space \in NodesType /\ space[task.init].g = 0
          /\ \A u \in States : u # task.init => ~space[u].present
        <3>1. space = [nodes EXCEPT ![task.init] = NewPath(NoParent, NoOperator, 0)]
            BY <2>1, EmptySpaceIsEmpty DEF Reach, Reached
        <3>2. space \in NodesType
            BY <1>0, <2>1, SpaceTypes
        <3> QED BY <1>0, <2>1, <3>1, <3>2, EmptySpaceIsEmpty DEF NewPath, NodesType
    <2>3. nodes' = space \/ nodes' = MarkDeadEnd(space, task.init)
        BY <1>3 DEF InitializeDeadEnd, InitializeOpen
    <2> HIDE DEF space
    <2>4. \A u \in States : nodes'[u].present => u = task.init /\ nodes'[u].g = 0
        BY <2>1, <2>2, <2>3, MarkDeadEndEffect
    <2> QED BY <1>0, <2>1, <2>4 DEF PathsAreNoShortcuts, PresentStates, Estimates, DeadEnd
<1>4. ASSUME NEW e \in open,
             \/ PopReevaluatedDeadEnd(e) \/ PopReevaluatedHigher(e)
             \/ PopLazyDeadEnd(e) \/ PopLazyRequeue(e)
             \/ PopGoal(e) \/ PopExpand(e)
      PROVE  PathsAreNoShortcuts'
    <2>1. nodes' \in {nodes, MarkDeadEnd(nodes, e.state), Close(nodes, e.state)}
        BY <1>4 DEF PopReevaluatedDeadEnd, PopReevaluatedHigher, PopLazyDeadEnd,
               PopLazyRequeue, PopGoal, PopExpand, CloseEntry, Prune
    <2>2. \A s \in States : nodes'[s].present = nodes[s].present /\ nodes'[s].g = nodes[s].g
        BY <1>0, <2>1, EntryParts, MarkDeadEndEffect, CloseEffect
    <2> QED BY <1>1, <2>2
<1>5. CASE QueueDeadEnd
    BY <1>0, <1>1, <1>5, QueueDeadEndFacts, MarkDeadEndEffect
<1>6. CASE Generate
    <2> DEFINE o == Operator(cursor)
               t == Target(o)
    <2>1. /\ o \in ApplicableSet(task, expanding) /\ t \in States /\ expanding \in States
          /\ o \in Operators
          /\ PathCost(o) = nodes[expanding].g + task.cost[expanding][o]
          /\ task.cost[expanding][o] \in Nat
          /\ nodes[expanding].present
          /\ \A u \in States : u # t => nodes'[u] = nodes[u]
          /\ nodes' = nodes \/ nodes'[t] = NewPath(expanding, o, PathCost(o))
        BY <1>6, GenerateFacts, TaskParts DEF Core, TypeOK, PathCost
    <2>2. task.hStar[t] # DeadEnd =>
            /\ task.hStar[expanding] # DeadEnd
            /\ task.hStar[expanding] <= task.cost[expanding][o] + task.hStar[t]
        BY <2>1, TaskDistances DEF Target
    <2>3. task.hStar[t] # DeadEnd =>
            /\ task.hStar[task.init] # DeadEnd
            /\ task.hStar[task.init] <= PathCost(o) + task.hStar[t]
        <3>1. task.hStar[expanding] # DeadEnd =>
                /\ task.hStar[task.init] # DeadEnd
                /\ task.hStar[task.init] <= nodes[expanding].g + task.hStar[expanding]
            BY <2>1 DEF PathsAreNoShortcuts, PresentStates
        <3>2. /\ task.hStar[t] \in Int /\ task.hStar[expanding] \in Int
              /\ task.hStar[task.init] \in Int /\ nodes[expanding].g \in Nat
            BY <1>0, <2>1, TaskParts DEF TypeOK, Estimates, DeadEnd
        <3> QED BY <2>1, <2>2, <3>1, <3>2
    <2> HIDE DEF o, t
    <2>4. CASE nodes' = nodes
        BY <1>1, <2>4
    <2>5. CASE nodes'[t] = NewPath(expanding, o, PathCost(o))
        <3>1. nodes'[t].g = PathCost(o)
            BY <2>5 DEF NewPath
        <3> QED BY <1>0, <2>1, <2>3, <3>1 DEF PathsAreNoShortcuts, PresentStates
    <2> QED BY <2>1, <2>4, <2>5
<1> QED BY <1>2, <1>3, <1>4, <1>5, <1>6 DEF Next

-----------------------------------------------------------------------------
(* The second layer: no estimate kept anywhere exceeds the goal distance.   *)

\* bounded_estimate keeps an estimate admissible: every plan of a state that is
\* no goal has a first operator, which is no cheaper than the cheapest.
LEMMA BoundedEstimateIsAdmissible ==
    ASSUME Core, AStarOnly, NEW s \in States, task.hStar[s] # DeadEnd,
           NEW h \in Estimates, h <= task.hStar[s]
    PROVE  BoundedEstimate(task, s, h) <= task.hStar[s]
<1>1. MinOperatorCost(task) \in Nat /\ task.hStar[s] \in Nat
    BY MinOperatorCostIsLeast, TaskParts DEF Core, TypeOK, Estimates
<1>2. s \notin task.goals => MinOperatorCost(task) <= task.hStar[s]
    <2> SUFFICES ASSUME s \notin task.goals
                 PROVE  MinOperatorCost(task) <= task.hStar[s]
        OBVIOUS
    <2>1. PICK o \in ApplicableSet(task, s) :
            /\ task.hStar[task.result[s][o]] # DeadEnd
            /\ task.hStar[s] = task.cost[s][o] + task.hStar[task.result[s][o]]
        BY TaskDistances
    <2>2. o \in Operators
        BY TaskParts, ElementOfSeq DEF ApplicableSet, Core, TypeOK
    <2>3. task.cost[s][o] \in Nat /\ task.hStar[task.result[s][o]] \in Nat
        BY <2>1, <2>2, TaskParts DEF Core, TypeOK, Estimates
    <2>4. MinOperatorCost(task) <= task.cost[s][o]
        BY DEF Core, GivenOK, AStarOnly, AdmissibleTask, CheapestInInitialState
    <2> QED BY <1>1, <2>1, <2>3, <2>4
<1> QED BY <1>1, <1>2 DEF BoundedEstimate

LEMMA EstimatesAreBounds ==
    ASSUME Core, AStarOnly, NEW s \in States, task.hStar[s] # DeadEnd
    PROVE  /\ \A r \in RevisionsAfter : Estimate(s, r) <= task.hStar[s]
           /\ LazyEstimate(s) <= task.hStar[s]
<1>1. \A r \in RevisionsAfter : r \in Revisions
    BY EstimateTypes DEF Core
<1>2. /\ \A r \in RevisionsAfter : task.h[r][s] \in Estimates /\ task.h[r][s] <= task.hStar[s]
      /\ task.lazyH[s] \in Estimates /\ task.lazyH[s] <= task.hStar[s]
    BY <1>1, TaskParts
       DEF Core, TypeOK, GivenOK, AStarOnly, AdmissibleTask, Admissible
<1> QED BY <1>2, BoundedEstimateIsAdmissible DEF Estimate, LazyEstimate

\* One clause of EstimatesAreAdmissible at a time.
EntriesAdmissible ==
    \A e \in open : task.hStar[e.state] # DeadEnd => e.h <= task.hStar[e.state]
EvaluationsAdmissible ==
    pc \in {"evaluate", "queue"} => \A k \in 1..Len(evaluations) :
        task.hStar[Target(successors[k])] # DeadEnd =>
            evaluations[k] <= task.hStar[Target(successors[k])]

LEMMA EvaluationsStep ==
    ASSUME Core, AStarOnly, EvaluationsAdmissible, [Next]_vars
    PROVE  EvaluationsAdmissible'
<1>0. TypeOK /\ task' = task
    BY OutcomeOfStep DEF Core
<1>1. CASE UNCHANGED vars \/ Done
    BY <1>1 DEF vars, Done, given, expansion, EvaluationsAdmissible, Target
<1>2. CASE \/ InitializeDeadEnd \/ InitializeOpen \/ Timeout \/ OutOfMemory \/ PopExhausted
           \/ Fail \/ BeginExpansion \/ Generate
    BY <1>2 DEF InitializeDeadEnd, InitializeOpen, Timeout, OutOfMemory, PopExhausted,
                Fail, Finish, BeginExpansion, Generate, Running, EvaluationsAdmissible
<1>3. ASSUME NEW e \in open,
             \/ PopReevaluatedDeadEnd(e) \/ PopReevaluatedHigher(e)
             \/ PopLazyDeadEnd(e) \/ PopLazyRequeue(e)
             \/ PopGoal(e) \/ PopExpand(e)
      PROVE  EvaluationsAdmissible'
    BY <1>0, <1>3, TakesEffect
       DEF PopReevaluatedDeadEnd, PopReevaluatedHigher, PopLazyDeadEnd, PopLazyRequeue,
           PopGoal, PopExpand, CloseEntry, Finish, EvaluationsAdmissible
<1>4. CASE EvaluateSuccessor
    <2>1. /\ expanding' = expanding /\ pc = "evaluate" /\ successors' = successors
        BY <1>4 DEF EvaluateSuccessor, Running
    <2>2. \A o : Target(o)' = Target(o)
        BY <1>0, <2>1 DEF Target
    <2>3. PICK r \in RevisionsAfter :
            evaluations'[cursor] = Estimate(Target(successors[cursor]), r)
        BY <1>0, <1>4, EvaluateSuccessorFacts
    <2>4. task.hStar[Target(successors[cursor])] # DeadEnd =>
            evaluations'[cursor] <= task.hStar[Target(successors[cursor])]
        BY <1>0, <1>4, <2>3, EvaluateSuccessorFacts, EstimatesAreBounds
    <2>5. /\ cursor \in 1..Len(successors) /\ Len(successors) \in Nat
          /\ Len(evaluations) = cursor - 1 /\ Len(evaluations') = cursor
          /\ \A k \in 1..Len(evaluations) : evaluations'[k] = evaluations[k]
        BY <1>0, <1>4, EvaluateSuccessorFacts, LenProperties DEF TypeOK
    <2>6. \A k \in 1..Len(evaluations') : k = cursor \/ k \in 1..Len(evaluations)
        BY <2>5
    <2>7. \A k \in 1..Len(evaluations') : task.hStar[Target(successors[k])] # DeadEnd =>
            evaluations'[k] <= task.hStar[Target(successors[k])]
        BY <2>1, <2>4, <2>5, <2>6 DEF EvaluationsAdmissible
    <2> QED BY <1>0, <2>1, <2>2, <2>7 DEF EvaluationsAdmissible
<1>5. CASE QueueDeadEnd \/ QueueSuccessor
    BY <1>0, <1>5 DEF QueueDeadEnd, QueueSuccessor, Running, EvaluationsAdmissible, Target
<1>6. CASE NextPhase
    <2>1. /\ expanding' = expanding /\ successors' = successors
          /\ evaluations' = evaluations
        BY <1>6 DEF NextPhase
    <2>2. \A o : Target(o)' = Target(o)
        BY <1>0, <2>1 DEF Target
    <2>3. pc' = "evaluate" => Len(evaluations) = 0
        BY <1>0, <1>6, EmptySeq DEF NextPhase, Finished, TypeOK
    <2>4. pc' = "queue" => pc = "evaluate"
        BY <1>6 DEF NextPhase, Finished
    <2> QED BY <1>0, <2>1, <2>2, <2>3, <2>4 DEF EvaluationsAdmissible
<1> QED BY <1>1, <1>2, <1>3, <1>4, <1>5, <1>6 DEF Next

LEMMA EntriesStep ==
    ASSUME Core, AStarOnly, EntriesAdmissible, EvaluationsAdmissible, [Next]_vars
    PROVE  EntriesAdmissible'
<1>0. TypeOK /\ task' = task
    BY OutcomeOfStep DEF Core
<1>1. CASE open' \subseteq open
    BY <1>0, <1>1 DEF EntriesAdmissible
<1>2. CASE \/ UNCHANGED vars \/ Done \/ InitializeDeadEnd \/ Timeout \/ OutOfMemory
           \/ PopExhausted \/ Fail \/ BeginExpansion \/ Generate \/ EvaluateSuccessor
           \/ QueueDeadEnd \/ NextPhase
    BY <1>1, <1>2 DEF vars, Done, InitializeDeadEnd, Timeout, OutOfMemory, PopExhausted,
                Fail, BeginExpansion, Generate, EvaluateSuccessor, QueueDeadEnd, NextPhase
<1>3. CASE InitializeOpen
    <2>1. PICK r \in RevisionsAfter : Push(task.init, 0, Estimate(task.init, r), FALSE)
        BY <1>3 DEF InitializeOpen
    <2> DEFINE f == [state |-> task.init, g |-> 0, h |-> Estimate(task.init, r),
                     preferred |-> FALSE, lazyEvaluated |-> FALSE, order |-> nextOrder]
    <2>2. open' = open \cup {f} /\ f.state = task.init /\ f.h = Estimate(task.init, r)
        BY <2>1 DEF Push
    <2> HIDE DEF f
    <2>3. task.hStar[f.state] # DeadEnd => f.h <= task.hStar[f.state]
        BY <1>0, <2>2, EstimatesAreBounds, TaskParts DEF TypeOK
    <2> QED BY <1>0, <2>2, <2>3 DEF EntriesAdmissible
<1>4. ASSUME NEW e \in open,
             PopReevaluatedDeadEnd(e) \/ PopLazyDeadEnd(e) \/ PopGoal(e) \/ PopExpand(e)
      PROVE  EntriesAdmissible'
    BY <1>1, <1>4 DEF PopReevaluatedDeadEnd, PopLazyDeadEnd, PopGoal, PopExpand,
                      CloseEntry, Prune, Rest
<1>5. ASSUME NEW e \in open, PopReevaluatedHigher(e)
      PROVE  EntriesAdmissible'
    <2>1. PICK r \in RevisionsAfter : /\ Estimate(e.state, r) > e.h
                                      /\ Requeue(e, Estimate(e.state, r), FALSE)
        BY <1>5 DEF PopReevaluatedHigher
    <2>2. Estimate(e.state, r) \in Nat
        BY <1>0, <2>1, EstimateTypes, EntryParts DEF Estimates, DeadEnd
    <2>3. PICK f \in open' : /\ open' = Rest(e) \cup {f}
                             /\ f.state = e.state /\ f.h = Estimate(e.state, r)
        BY <1>0, <2>1, <2>2, RequeueEffect
    <2>4. task.hStar[f.state] # DeadEnd => f.h <= task.hStar[f.state]
        BY <1>0, <2>3, EstimatesAreBounds, EntryParts
    <2> QED BY <1>0, <2>3, <2>4 DEF EntriesAdmissible, Rest
<1>6. ASSUME NEW e \in open, PopLazyRequeue(e)
      PROVE  EntriesAdmissible'
    <2> DEFINE h == IF LazyEstimate(e.state) > e.h THEN LazyEstimate(e.state) ELSE e.h
    <2>1. Requeue(e, h, TRUE) /\ h \in Nat
        BY <1>0, <1>6, EstimateTypes, EntryParts DEF PopLazyRequeue, Estimates, DeadEnd
    <2>2. task.hStar[e.state] # DeadEnd => h <= task.hStar[e.state]
        BY <1>0, EstimatesAreBounds, EntryParts DEF EntriesAdmissible
    <2> HIDE DEF h
    <2>3. PICK f \in open' : open' = Rest(e) \cup {f} /\ f.state = e.state /\ f.h = h
        BY <1>0, <2>1, RequeueEffect
    <2> QED BY <1>0, <2>2, <2>3 DEF EntriesAdmissible, Rest
<1>7. CASE QueueSuccessor
    <2>1. PICK f \in open' : /\ open' = open \cup {f}
                             /\ f.state = Target(successors[cursor])
                             /\ f.h = evaluations[cursor]
        BY <1>0, <1>7, QueueSuccessorFacts
    <2>2. pc = "queue" /\ cursor \in 1..Len(evaluations)
        BY <1>0, <1>7, QueueSuccessorFacts DEF QueueSuccessor, Running
    <2>3. task.hStar[f.state] # DeadEnd => f.h <= task.hStar[f.state]
        BY <2>1, <2>2 DEF EvaluationsAdmissible
    <2> QED BY <1>0, <2>1, <2>3 DEF EntriesAdmissible
<1> QED BY <1>2, <1>3, <1>4, <1>5, <1>6, <1>7 DEF Next

-----------------------------------------------------------------------------
(* Optimality.                                                              *)

AStarLayers == Layers /\ PathsAreNoShortcuts /\ EntriesAdmissible /\ EvaluationsAdmissible

\* The open list of A* is ordered by g + h, so a goal is popped only when no entry
\* promises a plan cheaper than the path to it.
LEMMA PoppedGoalIsOptimal ==
    ASSUME AStarLayers, AStarOnly, NEW e \in open, PopGoal(e)
    PROVE  nodes[e.state].g = task.hStar[task.init]
<1>1. /\ Core /\ TypeOK /\ Takes(e) /\ e.state \in task.goals
    BY DEF PopGoal, CloseEntry, IsGoal, AStarLayers, Layers, Core
<1>2. /\ e.state \in States /\ pc = "step" /\ e \in LiveEntries
      /\ e.g \in Nat /\ e.h \in Nat /\ nodes[e.state].g \in Nat
      /\ task.init \in States /\ task.hStar[task.init] \in Estimates
    BY <1>1, TakesEffect, EntryParts, TaskParts
       DEF TypeOK, NodesType, SearchNode, Takes, IsNext
<1>3. nodes[e.state].g = e.g /\ nodes[e.state].present
    BY <1>1, <1>2, TakesEffect DEF Core, EntriesHaveNodes
<1>4. task.hStar[task.init] # DeadEnd /\ task.hStar[task.init] <= nodes[e.state].g
    BY <1>1, <1>2, <1>3, TaskDistances
       DEF AStarLayers, PathsAreNoShortcuts, PresentStates, DeadEnd
<1>5. PICK f \in LiveEntries :
        /\ task.hStar[f.state] # DeadEnd
        /\ f.g + task.hStar[f.state] <= task.hStar[task.init]
    BY <1>2, <1>4, CheapestPlanIsQueued DEF AStarLayers, Layers
<1>6. /\ f \in open /\ f.state \in States /\ f.g \in Nat /\ f.h \in Nat
      /\ task.hStar[f.state] \in Estimates /\ f.h <= task.hStar[f.state]
    BY <1>1, <1>5, EntryParts, TaskParts
       DEF LiveEntries, TypeOK, AStarLayers, EntriesAdmissible
<1>7. params.ordering = "AStar" /\ params.openList = "TieBreaking"
    BY <1>1 DEF AStarOnly, Core, GivenOK
<1>8. e = f \/ e.g + e.h <= f.g + f.h
    <2>1. e = f \/ KeyBefore("AStar", e, f)
        BY <1>1, <1>2, <1>5, <1>7 DEF Takes, IsNext, IsFirst, PoppedBefore
    <2> QED BY <1>2, <1>6, <2>1 DEF KeyBefore, EntryPriority, Priority
<1>9. task.hStar[f.state] \in Int /\ task.hStar[task.init] \in Int
    BY <1>2, <1>6 DEF Estimates, DeadEnd
<1> QED BY <1>2, <1>3, <1>4, <1>5, <1>6, <1>8, <1>9

LEMMA OptimalStep ==
    ASSUME AStarLayers, AStarOnly, IsOptimal, [Next]_vars
    PROVE  IsOptimal'
<1>1. ASSUME NEW e \in open, PopGoal(e)
      PROVE  IsOptimal'
    <2>1. outcome'.cost = nodes[e.state].g /\ task' = task
        BY <1>1 DEF PopGoal, Finish, given
    <2> QED BY <1>1, <2>1, PoppedGoalIsOptimal DEF IsOptimal
<1>2. CASE ~\E e \in open : PopGoal(e)
    BY <1>2, OutcomeOfStep DEF AStarLayers, Layers, IsOptimal
<1> QED BY <1>1, <1>2

LEMMA InitAStar == Init => AStarLayers /\ IsOptimal
    BY InitLayers, EmptySpaceIsEmpty
       DEF Init, AStarLayers, PathsAreNoShortcuts, PresentStates, EntriesAdmissible,
           EvaluationsAdmissible, IsOptimal

LEMMA NextAStar ==
    ASSUME AStarOnly
    PROVE  AStarLayers /\ [Next]_vars => AStarLayers'
    BY NextLayers, ShortcutStep, EntriesStep, EvaluationsStep DEF AStarLayers, Layers

\* A* returns a plan whose reported cost is the goal distance of the initial
\* state, for every task, with admissible heuristics that may be inconsistent,
\* grow while the search runs (mpd) or be evaluated lazily.
THEOREM AStarIsOptimal == AStarOnly => (Spec => []SolvedCostIsOptimal)
<1> SUFFICES ASSUME AStarOnly PROVE Spec => []SolvedCostIsOptimal
    OBVIOUS
<1>1. Init => AStarLayers /\ IsOptimal
    BY InitAStar
<1>2. (AStarLayers /\ IsOptimal) /\ [Next]_vars
        => (AStarLayers /\ IsOptimal)'
    BY NextAStar, OptimalStep
<1>3. IsOptimal => SolvedCostIsOptimal
    BY DEF SolvedCostIsOptimal
<1> QED BY <1>1, <1>2, <1>3, PTL DEF Spec
=============================================================================
