-------------------------- MODULE PatternDatabase --------------------------
(***************************************************************************)
(* A pattern database: the projection of a task to a pattern is explored   *)
(* forward from its initial state, best first and up to a number of new    *)
(* states; goal distances then follow backward from the goals and from the *)
(* frontier, the states that were generated but not expanded.  A state     *)
(* that the exploration did not reach takes an estimate of its own.        *)
(*                                                                         *)
(* One step of the exploration expands one abstract state.  The order in   *)
(* which the generator lists applicable operators is open.  Distances are  *)
(* whole numbers, and the tolerance of the backward search is left out     *)
(* (GoalDistances has it).  The dense table of an exhausted propositional  *)
(* projection answers as its registry does, and is not modelled apart.     *)
(***************************************************************************)
EXTENDS StateRegistry, Projection

CONSTANTS
    Tasks,
    PatternsOf(_),  \* the patterns tried for a task: sets of its variables
    Configs,        \* [maxStates, exploration, frontier, failedLookup]
    LmcutEstimate(_, _)
                    \* LM-cut's estimate in a state of a projection; it reads no rows

ASSUME InfiniteAssumption == Infinite \in Nat
ASSUME TasksAssumption == \A t \in Tasks : IsTask(t)
ASSUME PatternsAssumption ==
    \A t \in Tasks : \A pattern \in PatternsOf(t) : pattern \subseteq t.variables \cup Numbers(t)
ASSUME ConfigsAssumption ==
    \A c \in Configs : c.failedLookup \in {"zero", "blind", "lmcut"}

VARIABLES
    task,
    projected,
    config,
    phase,
    exploration,
    pdb

pdbvars == <<task, projected, config, phase, exploration, pdb>>

HasRegularNumbers == OfType(projected, "regular") # {}
IsExploredEnough ==
    \/ exploration.open = {}
    \/ HasRegularNumbers /\ exploration.newStates >= config.maxStates

\* Estimates of the inner heuristics; Infinite is a dead end.
InnerEstimate(heuristic, s) ==
    IF heuristic = "lmcut" THEN LmcutEstimate(projected, WithoutRows(projected, s)) ELSE 0
Seen(r, i) == View(projected, r, i)

NoExploration ==
    [registry |-> EmptyRegistry, open |-> {}, closed |-> {}, generated |-> {}, newStates |-> 0,
     transitions |-> {}, goals |-> {}]
NoDatabase ==
    [registry |-> EmptyRegistry, distances |-> <<>>, exhausted |-> FALSE, relevant |-> {}]

Init ==
    /\ task \in Tasks
    /\ \E pattern \in PatternsOf(task) : projected = Projected(task, pattern)
    /\ config \in Configs
    /\ phase = "exploring"
    /\ exploration = [NoExploration EXCEPT
           !.registry = RegisterInitial(projected),
           !.open = {[f |-> 0, h |-> 0, id |-> 1, g |-> 0]},
           !.generated = {1}]
    /\ pdb = NoDatabase

-----------------------------------------------------------------------------
(* explore *)

Precedes(a, b) ==
    \/ a.f < b.f
    \/ a.f = b.f /\ a.h < b.h
    \/ a.f = b.f /\ a.h = b.h /\ a.id < b.id
    \/ a.f = b.f /\ a.h = b.h /\ a.id = b.id /\ a.g <= b.g
IsFirst(e) == \A x \in exploration.open : Precedes(e, x)

\* A successor is pushed, again if need be, unless it is closed or a dead end.
Pushed(x, id, g) ==
    LET h == InnerEstimate(config.exploration, Seen(x.registry, id))
    IN  IF h = Infinite THEN x
        ELSE [x EXCEPT !.open = @ \cup {[f |-> g + h, h |-> h, id |-> id, g |-> g]}]

Counted(x, id) ==
    IF id \in x.generated THEN x
    ELSE [x EXCEPT !.generated = @ \cup {id}, !.newStates = @ + 1]

\* Mutant: a transition to a state that is closed is not recorded.
GenerateUnrecorded(x, context, g, o) ==
    LET a == ApplyInContext(projected, x.registry, context, o)
        y == [x EXCEPT !.registry = a.registry]
    IN  IF a.id = context.parent \/ a.id \in x.closed THEN y
        ELSE Pushed(Counted([y EXCEPT !.transitions =
                       @ \cup {[source |-> context.parent, operator |-> o, target |-> a.id]}], a.id),
                    a.id, g + projected.costs[o])

Generate(x, context, g, o) ==
    LET a == ApplyInContext(projected, x.registry, context, o)
        y == [x EXCEPT !.registry = a.registry]
        z == [y EXCEPT !.transitions =
                 @ \cup {[source |-> context.parent, operator |-> o, target |-> a.id]}]
    IN  IF a.id = context.parent THEN y
        ELSE IF a.id \in x.closed THEN z
        ELSE Pushed(Counted(z, a.id), a.id, g + projected.costs[o])

GenerateAll(x, context, g, order) ==
    LET after[k \in 0..Len(order)] ==
            IF k = 0 THEN x ELSE Generate(after[k - 1], context, g, order[k])
    IN  after[Len(order)]

Closed(x, id) ==
    [x EXCEPT !.closed = @ \cup {id},
              !.goals = IF IsGoalState(projected, Seen(x.registry, id)) THEN @ \cup {id} ELSE @]

\* One turn of the loop: the popped state is closed, and its successors generated.
Explore ==
    /\ phase = "exploring"
    /\ ~ IsExploredEnough
    /\ \E first \in exploration.open :
           LET x == [exploration EXCEPT !.open = @ \ {first}]
           IN  /\ IsFirst(first)
               /\ \/ /\ first.id \in exploration.closed
                     /\ exploration' = x
                  \/ /\ first.id \notin exploration.closed
                     /\ \E order \in SetToSeqs(Applicable(projected, Seen(x.registry, first.id))) :
                            exploration' = GenerateAll(Closed(x, first.id),
                                                       Context(projected, x.registry, first.id),
                                                       first.g, order)
    /\ UNCHANGED <<task, projected, config, phase, pdb>>

-----------------------------------------------------------------------------
(* Goal distances *)

\* A state nearest to a goal leaves the queue; the transitions into it are relaxed.
Settle(search, transitions, costs) ==
    LET queue == DOMAIN search.d \ search.settled
        next  == CHOOSE i \in queue : \A j \in queue : search.d[i] <= search.d[j]
        through(i) == {search.d[next] + costs[tr.operator] :
                          tr \in {x \in transitions : x.source = i /\ x.target = next}}
    IN  [settled |-> search.settled \cup {next},
         d       |-> [i \in DOMAIN search.d |-> Min({search.d[i]} \cup through(i))]]

\* backward_dijkstra
GoalDistances(seeds, ids, transitions, costs) ==
    LET search[n \in 0..Cardinality(ids)] ==
            IF n = 0
            THEN [settled |-> {},
                  d |-> [i \in ids |-> Min({Infinite} \cup {e[2] : e \in {x \in seeds : x[1] = i}})]]
            ELSE Settle(search[n - 1], transitions, costs)
    IN  search[Cardinality(ids)].d

Frontier == {e.id : e \in exploration.open} \ exploration.closed

\* Mutant: a frontier state that is a goal is worth an operator like any other.
SeedGoalBlindly(i) == <<i, CheapestOperator(projected)>>

FrontierSeed(i) ==
    LET s == Seen(exploration.registry, i)
    IN  IF IsGoalState(projected, s) THEN <<i, 0>>
        ELSE <<i, Max({InnerEstimate(config.frontier, s), CheapestOperator(projected)})>>

Build ==
    /\ phase = "exploring"
    /\ IsExploredEnough
    /\ phase' = "built"
    /\ pdb' = [registry  |-> exploration.registry,
               distances |-> GoalDistances(
                                 {<<i, 0>> : i \in exploration.goals}
                                     \cup {FrontierSeed(i) : i \in Frontier},
                                 DOMAIN exploration.registry.states,
                                 exploration.transitions, projected.costs),
               exhausted |-> Frontier = {},
               relevant  |-> IF Frontier = {} THEN {tr.operator : tr \in exploration.transitions}
                             ELSE DOMAIN projected.operators]
    /\ UNCHANGED <<task, projected, config, exploration>>

-----------------------------------------------------------------------------
(* Looking up a state of the task *)

AbstractStateId(s) == Find(projected, pdb.registry, ProjectedState(projected, s))

FailedLookup(p) ==
    CASE config.failedLookup = "zero"  -> 0
      [] config.failedLookup = "blind" -> CheapestOperator(projected)
      [] config.failedLookup = "lmcut" -> Max({InnerEstimate("lmcut", p), CheapestOperator(projected)})

\* PatternDatabase::value
Value(s) ==
    LET id == AbstractStateId(s)
        p  == ProjectedState(projected, s)
    IN  IF id # NotFound THEN pdb.distances[id]
        ELSE IF pdb.exhausted THEN Infinite
        ELSE IF IsGoalState(projected, p) THEN 0
        ELSE FailedLookup(p)
=============================================================================
