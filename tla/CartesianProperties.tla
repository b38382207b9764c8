------------------------ MODULE CartesianProperties ------------------------
(***************************************************************************)
(* What the refinement of a Cartesian abstraction guarantees, and the      *)
(* search for goal distances that its repair implements.                   *)
(***************************************************************************)
EXTENDS CartesianCegar

CONSTANT MaxSteps       \* bound: steps of the plans that outcomes are compared with

ASSUME MaxStepsAssumption == MaxSteps \in Nat

Computed == pc = "check"

\* A region that reaches the end of the window of a coordinate has room for an effect
\* of up to 2 there.
WindowIsWide ==
    \A s \in AbstractStates, d \in Numeric :
        /\ Min(Values[d]) \in regions[s][d] => Min(Values[d]) + 1 \in regions[s][d]
        /\ Max(Values[d]) \in regions[s][d] => Max(Values[d]) - 1 \in regions[s][d]

\* CartesianRefinement: the types of its parts, one entry for every abstract state, and
\* a concrete run that stays within the values the regions are made of.
TypeOK ==
    /\ TableTypeOK
    /\ task \in Tasks /\ root \in task.roots /\ options \in Options
    /\ iteration \in 0..MaxIterations + 1
    /\ Len(regions) \in 1..MaxStates
    /\ regions \in Seq([Dimensions -> SUBSET Int])
    /\ Len(hierarchy.leaf) = Len(regions) /\ Len(outgoing) = Len(regions)
    /\ DOMAIN paths.distances \subseteq AbstractStates
    /\ \A s \in DOMAIN paths.distances : paths.distances[s] \in Nat
    /\ DOMAIN paths.generating \subseteq AbstractStates
    /\ paths.invalid \subseteq AbstractStates /\ paths.goals \subseteq AbstractStates
    /\ \A d \in Dimensions : replay.state[d] \in Values[d]
    /\ WindowIsWide

-----------------------------------------------------------------------------
(* Distances *)

\* No plan of the abstraction is cheaper than the distances say, and a state without one
\* has no plan.
NoPlanIsCheaper ==
    /\ \A s \in AbstractStates : IsGoal(regions[s]) => s \in DOMAIN paths.distances /\ paths.distances[s] = 0
    /\ \A k \in LiveKeys : k.target \in DOMAIN paths.distances =>
           /\ k.source \in DOMAIN paths.distances
           /\ paths.distances[k.source] <= paths.distances[k.target] + Cost(k.operator)

\* Following the generating transitions is a plan that costs as much as the distance: it
\* does not end before a goal, and never in a cycle.
PlansAreGenerated ==
    LET next == paths.generating
    IN  /\ DOMAIN next = {s \in DOMAIN paths.distances : ~ IsGoal(regions[s])}
        /\ \A s \in DOMAIN next :
               /\ next[s] \in LiveKeys /\ next[s].source = s
               /\ next[s].target \in DOMAIN paths.distances
               /\ paths.distances[s] = paths.distances[next[s].target] + Cost(next[s].operator)
        /\ \A T \in SUBSET DOMAIN next : T # {} => \E s \in T : next[s].target \notin T

\* Costs are far enough apart that the tolerance never hides a cheaper path.
Resolved(c) == c \in Nat /\ \E n \in 0..c : c = n * (Tolerance + 1)
CostsAreResolved == \A t \in Tasks : \A o \in DOMAIN t.operators : Resolved(t.operators[o].cost)

\* update_shortest_paths_after_split: repairing the distances of the states whose
\* shortest path led through the split state gives the exact distances, those that a
\* new computation would give, and a shortest path for each.
DistancesAreExact == Computed => NoPlanIsCheaper /\ PlansAreGenerated

\* What plans of at most MaxSteps steps cost, for each state of each task.
Result(t, o, s) ==
    LET effects == t.operators[o].effects
    IN  [d \in Dimensions |-> IF d \in DOMAIN effects THEN effects[d][s[d]] ELSE s[d]]
Applicable(t, s) ==
    {o \in DOMAIN t.operators : (\A f \in t.operators[o].pre : Holds(f, s)) /\ Result(t, o, s) \in States}
LongerPlans(t, costs) ==
    [s \in States |-> costs[s] \cup
        UNION {{t.operators[o].cost + c : c \in costs[Result(t, o, s)]} : o \in Applicable(t, s)}]
PlansOfNoStep(t) == [s \in States |-> IF \A f \in t.goals : Holds(f, s) THEN {0} ELSE {}]

PlanCosts ==
    [t \in Tasks |->
        LET costs[n \in 0..MaxSteps] == IF n = 0 THEN PlansOfNoStep(t) ELSE LongerPlans(t, costs[n - 1])
        IN  costs[MaxSteps]]

-----------------------------------------------------------------------------
(* Refinement *)

\* None of the program's own checks fails: a split is strict and its witness on one
\* side, a slot that is taken out is stored, there is an abstract goal state, links
\* are where they are expected, the replay stays on the optimal plan, a flaw has a
\* split, and a plan without a flaw is a plan of the root's distance.
ChecksHold ==
    /\ pc = "apply" => IsStrict(split) /\ split.witness \in regions[split.state][split.dimension]
    /\ pc = "detach" => \A i \in incident : slots[i] \in LiveKeys /\ ids[slots[i]] = i
    /\ pc = "compute" => \E s \in AbstractStates : IsGoal(regions[s])
    /\ pc = "invalidate" => \A s \in queue : IsLinked(paths, s)
    /\ pc = "replay" /\ options.scope = "first" =>
           /\ ReplayIsSound
           /\ Failed = {} /\ Here \in paths.goals => IsPlan(replay.operators, replay.cost)
    /\ pc = "replay" /\ options.scope = "whole_plan" =>
           /\ WholeReplayIsSound
           /\ ~ WholeReplayEnds /\ Here \in paths.goals /\ Failed = {} /\ candidates = {} =>
                  IsPlan(replay.operators, replay.cost)
    /\ pc = "walk" => IF PlanEnd \in paths.goals THEN PlanIsRegressable ELSE PlanGoesOn
    /\ pc = "regress" =>
           /\ RegressionIsSound
           /\ Flaws = {} /\ trace.step = 0 => IsPlan(PlanOperators, RunOf(PlanOperators).cost)
    /\ pc = "select" => candidates # {} /\ \A sp \in candidates : IsStrict(sp)

\* How CEGAR ends means what it says: no plan is cheaper than a concrete plan it returns
\* (which is a plan, of that cost: ChecksHold), and an abstract dead end is a concrete one.
OutcomeIsRight ==
    /\ outcome.reason = "ConcretePlan" => \A c \in PlanCosts[task][root] : outcome.cost <= c
    /\ outcome.reason = "DeadEnd" => PlanCosts[task][root] = {}

\* The initial computation and every repair are runs of the backward search for goal
\* distances: the repair on the invalidated states, from the transitions that leave them.
Searching == pc = "expand"
NoDistance == [s \in {} |-> 0]
AsTransition(k) ==
    [source |-> k.source, label |-> k.operator, target |-> k.target, cost |-> Cost(k.operator)]

OpenTransitions == {AsTransition(k) : k \in {j \in LiveKeys : j.source \in Open /\ j.target \in Open}}
OpenSeeds ==
    {<<0, s>> : s \in paths.goals \cap Open} \cup
    {<<BoundaryCost(k), k.source>> : k \in {j \in LiveKeys :
        j.source \in Open /\ j.target \in DOMAIN paths.distances \ Open}}
OpenDistances == [s \in DOMAIN paths.distances \cap Open |-> paths.distances[s]]
OpenGenerating ==
    [s \in {x \in DOMAIN paths.generating \cap Open : paths.generating[x].target \in Open} |->
        AsTransition(paths.generating[s])]

SearchPhase       == IF Searching THEN "searching" ELSE "idle"
SearchTransitions == IF Searching THEN OpenTransitions ELSE {}
SearchSeeds       == IF Searching THEN OpenSeeds ELSE {}
SearchDistances   == IF Searching THEN OpenDistances ELSE NoDistance
SearchGenerating  == IF Searching THEN OpenGenerating ELSE NoDistance
SearchHeap        == IF Searching THEN heap ELSE {}

GD == INSTANCE GoalDistances WITH
    Nodes       <- 1..MaxStates,
    GraphLabels <- Operators,
    searchPhase <- SearchPhase,
    transitions <- SearchTransitions,
    seeds       <- SearchSeeds,
    distances   <- SearchDistances,
    generating  <- SearchGenerating,
    heap        <- SearchHeap

ImplementsGoalDistances == GD!GDSpec

\* refine: every run ends, because each iteration splits a state or stops.
Terminates == <>(pc = "done")
=============================================================================
