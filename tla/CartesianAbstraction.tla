------------------------ MODULE CartesianAbstraction ------------------------
(***************************************************************************)
(* A Cartesian abstraction while it is refined: the regions of its states, *)
(* the hierarchy of splits that maps a concrete state to its abstract      *)
(* state, the transitions (TransitionTable) and the goal distances, which  *)
(* are computed once and repaired after every split.                       *)
(*                                                                         *)
(* One step is one iteration of an inner loop: a transition taken out or   *)
(* put in, a state whose distance is invalidated, given a first distance   *)
(* or expanded.  pc says which loop runs.                                  *)
(***************************************************************************)
EXTENDS CartesianTask, TransitionTable, SequencesExt

CONSTANTS
    MaxStates,
    Tolerance       \* SEARCH_EPSILON, in the unit of the costs

ASSUME AbstractionAssumption ==
    /\ MaxStates \in Nat \ {0}
    /\ Tolerance \in Nat
    /\ \A t \in Tasks : DOMAIN t.operators \subseteq Operators

VARIABLES
    pc,
    iteration,      \* of CEGAR, 0 before it
    regions,        \* states
    hierarchy,      \* inner nodes, the state of each leaf, the leaf of each state
    split,          \* the split being applied
    pending,        \* replacement transitions still to be added
    paths,          \* ShortestPaths; a state outside distances has none that is finite
    queue,          \* invalidated states whose dependents are still to follow
    todo,           \* invalidated states still without a first distance
    heap

stateVars == <<regions, hierarchy>>
pathVars  == <<paths, queue, todo, heap>>

AbstractStates == 1..Len(regions)
Low(S) == Min(S)

-----------------------------------------------------------------------------
(* The hierarchy: node 1 is the root. *)

HierarchyNodes == DOMAIN hierarchy.inner \cup DOMAIN hierarchy.leafState
MapState(s) ==
    LET at[n \in HierarchyNodes] ==
            IF n \in DOMAIN hierarchy.leafState
            THEN hierarchy.leafState[n]
            ELSE LET node == hierarchy.inner[n]
                 IN  IF s[node.dimension] \in node.first THEN at[node.children[1]]
                                                         ELSE at[node.children[2]]
    IN  at[1]

\* A split separates the values first of a dimension from the others; its witness
\* is a value the state's old number stays with.
First(sp)  == regions[sp.state][sp.dimension] \cap sp.first
Second(sp) == regions[sp.state][sp.dimension] \ sp.first
IsStrict(sp) == First(sp) # {} /\ Second(sp) # {}
WitnessIsFirst(sp) == sp.witness \in First(sp)

\* The regions after a split: the witness's child and, as the last, the other.
SplitRegions(sp) ==
    LET kept  == IF WitnessIsFirst(sp) THEN First(sp) ELSE Second(sp)
        other == IF WitnessIsFirst(sp) THEN Second(sp) ELSE First(sp)
    IN  Append([regions EXCEPT ![sp.state][sp.dimension] = kept],
               [regions[sp.state] EXCEPT ![sp.dimension] = other])

\* Mutant: the child of the witness is always taken to be the first one.
SplitHierarchyUnsided(sp) ==
    LET leaf == hierarchy.leaf[sp.state]
        n    == Cardinality(HierarchyNodes)
    IN  [inner |-> Put(hierarchy.inner, leaf, [dimension |-> sp.dimension, first |-> sp.first,
                                               children |-> <<n + 1, n + 2>>]),
         leafState |-> Put(Put(Without(hierarchy.leafState, leaf),
                               n + 1, sp.state), n + 2, Len(regions) + 1),
         leaf |-> Append([hierarchy.leaf EXCEPT ![sp.state] = n + 1], n + 2)]

SplitHierarchy(sp) ==
    LET leaf  == hierarchy.leaf[sp.state]
        n     == Cardinality(HierarchyNodes)
        kept  == IF WitnessIsFirst(sp) THEN n + 1 ELSE n + 2
        other == IF WitnessIsFirst(sp) THEN n + 2 ELSE n + 1
    IN  [inner |-> Put(hierarchy.inner, leaf, [dimension |-> sp.dimension, first |-> sp.first,
                                               children |-> <<n + 1, n + 2>>]),
         leafState |-> Put(Put(Without(hierarchy.leafState, leaf),
                               kept, sp.state), other, Len(regions) + 1),
         leaf |-> Append([hierarchy.leaf EXCEPT ![sp.state] = kept], other)]

-----------------------------------------------------------------------------
(* The transitions after a split: those that replace the transitions keys of the *)
(* split state s, of which n is the new half, and its loops on dependent          *)
(* operators, for the regions rs after the split.                                 *)

ReplacementTransitions(rs, s, n, d, keys, parentLoops) ==
    LET ends(x) == IF x = s THEN {s, n} ELSE {x}
        splitEnd(k) == IF k.source = s THEN "source" ELSE "target"
        children(k) == {Key(x, k.operator, y) : x \in ends(k.source), y \in ends(k.target)}
        tested(k) == {j \in children(k) :
                         MayTransitionAfterSplit(rs[j.source], j.operator, rs[j.target], d, splitEnd(k))}
    IN  (UNION {tested(k) : k \in keys})
        \cup
        {k \in {Key(x, o, y) : x \in {s, n}, y \in {s, n},
                               o \in parentLoops \cap SplitDependentOperators(d)} :
            MayLoopAfterSplit(rs[k.source], k.operator, rs[k.target], d)}

\* The number of transitions after a split, without making it.
ProjectedTransitionCount(sp) ==
    LET incidentKeys == {slots[i] : i \in IncidentSlots(sp.state)}
        new == ReplacementTransitions(SplitRegions(sp), sp.state, Len(regions) + 1, sp.dimension,
                                      incidentKeys, loops[sp.state])
    IN  Cardinality(LiveKeys) - Cardinality(incidentKeys)
            + Cardinality({k \in new : k.source # k.target})

\* apply_split, up to the transitions.
ApplySplit ==
    /\ pc = "apply"
    /\ IsStrict(split)
    /\ LET kept == loops[split.state] \ SplitDependentOperators(split.dimension)
       IN  /\ SplitState(split.state, kept)
           /\ pending' = {Key(split.state, o, split.state) : o \in loops[split.state]}
    /\ regions' = SplitRegions(split)
    /\ hierarchy' = SplitHierarchy(split)
    /\ pc' = "detach"
    /\ UNCHANGED <<iteration, split, pathVars>>

\* pending holds the parent's loops until the transitions are out.
Detach ==
    /\ pc = "detach"
    /\ \/ /\ RemoveTransition
          /\ UNCHANGED <<pc, pending>>
       \/ /\ ForgetRemoved
          /\ pending' = ReplacementTransitions(regions, split.state, Len(regions), split.dimension,
                                               removed, {k.operator : k \in pending})
          /\ pc' = "attach"
    /\ UNCHANGED <<iteration, split, stateVars, pathVars>>

\* One replacement is added; which one first is left to CHOOSE.
Attach ==
    /\ pc = "attach"
    /\ pending # {}
    /\ LET k == CHOOSE k \in pending : TRUE
       IN  /\ AddTransition(k)
           /\ pending' = pending \ {k}
    /\ UNCHANGED <<pc, iteration, split, stateVars, pathVars>>

-----------------------------------------------------------------------------
(* Shortest paths.  The states whose shortest path starts with a transition into *)
(* t are listed in dependents[t], each at its position.                          *)

\* remove_generating_transition: the last dependent fills the gap.
Unlink(p, s) ==
    IF s \notin DOMAIN p.generating THEN p
    ELSE LET t    == p.generating[s].target
             list == p.dependents[t]
             at   == p.positions[s]
         IN  [p EXCEPT !.generating = Without(@, s),
                       !.positions  = Without(Put(@, Last(list), at), s),
                       !.dependents[t] = Front([list EXCEPT ![at] = Last(list)])]

\* set_generating_transition.
Link(p, s, k) ==
    LET q == Unlink(p, s)
    IN  [q EXCEPT !.generating = Put(@, s, k),
                  !.positions  = Put(@, s, Len(q.dependents[k.target]) + 1),
                  !.dependents[k.target] = Append(@, s)]

IsLinked(p, s) ==
    /\ (s \in DOMAIN p.generating) = (s \in DOMAIN p.positions)
    /\ s \in DOMAIN p.generating =>
           LET list == p.dependents[p.generating[s].target]
           IN  p.positions[s] \in DOMAIN list /\ list[p.positions[s]] = s

\* The states whose distances are being computed.
Open == IF iteration = 0 THEN AbstractStates ELSE paths.invalid

OutOf(s)  == {slots[i] : i \in outgoing[s]}
IntoOpen(t) == {slots[i] : i \in {j \in incoming[t] : slots[j].source \in Open}}

Improves(c, s) == s \notin DOMAIN paths.distances \/ c + Tolerance < paths.distances[s]
\* Mutant: any transition that improves its source is taken.
AnyOf(K) == K

CheapestOf(K) == {k \in K : \A j \in K : Cost(k.operator) <= Cost(j.operator) + Tolerance}

\* The states of via are linked one after the other.
LinkAll(p, via) ==
    LET linked[n \in 0..Len(regions)] ==
            IF n = 0 THEN p
            ELSE IF n \in DOMAIN via THEN Link(linked[n - 1], n, via[n]) ELSE linked[n - 1]
    IN  linked[Len(regions)]

\* The states of via get a distance by a transition each.  In the first computation the
\* dependents are not kept yet.
Record(via, c) ==
    LET p == IF iteration = 0
             THEN [paths EXCEPT !.generating = [s \in DOMAIN @ \cup DOMAIN via |->
                                                   IF s \in DOMAIN via THEN via[s] ELSE @[s]]]
             ELSE LinkAll(paths, via)
    IN  [p EXCEPT !.distances = [s \in DOMAIN @ \cup DOMAIN via |->
                                    IF s \in DOMAIN via THEN c + Cost(via[s].operator) ELSE @[s]]]

\* compute_shortest_paths: the goal states are queued at distance 0.
BeginDistances ==
    /\ pc = "compute"
    /\ LET goals == {s \in AbstractStates : IsGoal(regions[s])}
       IN  /\ goals # {}
           /\ paths' = [distances |-> [s \in goals |-> 0], generating |-> Empty,
                        dependents |-> [s \in AbstractStates |-> <<>>], positions |-> Empty,
                        goals |-> goals, invalid |-> {}]
           /\ heap' = {<<0, s>> : s \in goals}
    /\ pc' = "expand"
    /\ UNCHANGED <<table, stateVars, iteration, split, pending, queue, todo>>

\* Mutant: the new half is not tested for the goal.
GoalHalfKept == {s \in {split.state} : IsGoal(regions[s])}

GoalHalves == {s \in {split.state, Len(regions)} : IsGoal(regions[s])}

\* update_shortest_paths_after_split: both halves are invalid.
BeginRepair ==
    /\ pc = "attach"
    /\ pending = {}
    /\ iteration > 0
    /\ LET halves == {split.state, Len(regions)}
       IN  /\ queue' = halves
           /\ paths' = [paths EXCEPT
                  !.dependents = Append(@, <<>>),
                  !.goals = (@ \ {split.state}) \cup GoalHalves,
                  !.invalid = halves]
    /\ pc' = "invalidate"
    /\ UNCHANGED <<table, stateVars, iteration, split, pending, todo, heap>>

\* Mutant: only the direct dependents of the halves are invalidated.
InvalidateDirect(target) ==
    LET p    == Unlink(paths, target)
        list == IF target \in {split.state, Len(regions)} THEN p.dependents[target] ELSE <<>>
    IN  /\ IsLinked(paths, target)
        /\ paths' = [p EXCEPT
               !.generating = [s \in DOMAIN @ \ Range(list) |-> @[s]],
               !.positions  = [s \in DOMAIN @ \ Range(list) |-> @[s]],
               !.dependents[target] = <<>>,
               !.invalid = @ \cup Range(list)]
        /\ queue' = (queue \ {target}) \cup (Range(list) \ paths.invalid)

\* The states whose shortest path leads through target follow it.
InvalidateDependents(target) ==
    LET p    == Unlink(paths, target)
        list == p.dependents[target]
    IN  /\ IsLinked(paths, target)
        /\ paths' = [p EXCEPT
               !.generating = [s \in DOMAIN @ \ Range(list) |-> @[s]],
               !.positions  = [s \in DOMAIN @ \ Range(list) |-> @[s]],
               !.dependents[target] = <<>>,
               !.invalid = @ \cup Range(list)]
        /\ queue' = (queue \ {target}) \cup (Range(list) \ paths.invalid)

Invalidate ==
    /\ pc = "invalidate"
    /\ \/ /\ \E target \in queue : InvalidateDependents(target)
          /\ UNCHANGED <<pc, todo, heap>>
       \/ /\ queue = {}
          /\ LET goals == paths.goals \cap paths.invalid
                 valid == DOMAIN paths.distances \ paths.invalid
             IN  /\ paths' = [paths EXCEPT !.distances =
                        [s \in valid \cup goals |-> IF s \in goals THEN 0 ELSE @[s]]]
                 /\ heap' = {<<0, s>> : s \in goals}
          /\ todo' = paths.invalid
          /\ pc' = "seed"
          /\ UNCHANGED queue
    /\ UNCHANGED <<table, stateVars, iteration, split, pending>>

\* An invalid state takes the cheapest transition to a state that kept its distance.
BoundaryCost(k) == paths.distances[k.target] + Cost(k.operator)

Boundary(s) ==
    LET K == {k \in OutOf(s) : k.target \in DOMAIN paths.distances \ paths.invalid}
    IN  {k \in K : Improves(BoundaryCost(k), s) /\
                   \A j \in K : BoundaryCost(k) <= BoundaryCost(j) + Tolerance}

Seed ==
    /\ pc = "seed"
    /\ \/ /\ todo # {}
          /\ LET s == Low(todo)
             IN  /\ todo' = todo \ {s}
                 /\ \/ /\ Boundary(s) = {}
                       /\ UNCHANGED <<paths, heap>>
                    \/ \E k \in Boundary(s) :
                           /\ paths' = [Link(paths, s, k) EXCEPT
                                  !.distances = Put(@, s, BoundaryCost(k))]
                           /\ heap' = heap \cup {<<BoundaryCost(k), s>>}
          /\ UNCHANGED pc
       \/ /\ todo = {}
          /\ pc' = "expand"
          /\ UNCHANGED <<paths, todo, heap>>
    /\ UNCHANGED <<table, stateVars, iteration, split, pending, queue>>

\* The entry on top of the heap: the nearest, and of those the last state.
Top == CHOOSE e \in heap : \A f \in heap : e[1] < f[1] \/ (e[1] = f[1] /\ e[2] >= f[2])

Improved(e) == {k.source : k \in {j \in IntoOpen(e[2]) : Improves(e[1] + Cost(j.operator), j.source)}}
Via(e, s) == CheapestOf({k \in IntoOpen(e[2]) : k.source = s})

Expand ==
    /\ pc = "expand"
    /\ heap # {}
    /\ LET e == Top
       IN  IF e[1] > paths.distances[e[2]] + Tolerance
           THEN heap' = heap \ {e} /\ UNCHANGED paths
           ELSE \E via \in [Improved(e) -> IntoOpen(e[2])] :
                    /\ \A s \in Improved(e) : via[s] \in Via(e, s)
                    /\ paths' = Record(via, e[1])
                    /\ heap' = (heap \ {e}) \cup
                               {<<e[1] + Cost(via[s].operator), s>> : s \in Improved(e)}
    /\ UNCHANGED <<table, pc, stateVars, iteration, split, pending, queue, todo>>

\* The dependents are linked after the first computation.
FinishDistances ==
    /\ pc = "expand"
    /\ heap = {}
    /\ paths' = [(IF iteration = 0 THEN LinkAll([paths EXCEPT !.generating = Empty], paths.generating)
                                   ELSE paths) EXCEPT !.invalid = {}]
    /\ iteration' = iteration + 1
    /\ pc' = "check"
    /\ UNCHANGED <<table, stateVars, split, pending, queue, todo, heap>>

-----------------------------------------------------------------------------
(* What a split keeps.                                                           *)

\* Between two splits the parts agree with each other; nothing they are made of
\* changes from a check to the next split.
AtRest == pc \in {"initial", "check"}

\* CartesianRefinementHierarchy: following the splits from the root leads every
\* concrete state to the abstract state whose region it is in, the only one.
StatesAreMapped ==
    pc \in {"initial", "detach", "check"} =>
        \A s \in States : {a \in AbstractStates : InRegion(s, regions[a])} = {MapState(s)}

\* replacement_transitions tests a split only along its dimension and only for the
\* operators that depend on it: still, after any number of splits the transitions are
\* those the operators may take between the regions as they are.
TransitionsAreExact ==
    AtRest =>
        \A s, t \in AbstractStates, o \in Names :
            ContainsTransition(Key(s, o, t)) <=> MayTransition(regions[s], o, regions[t])
=============================================================================
