-------------------------- MODULE CostPartitioning --------------------------
(***************************************************************************)
(* Saturated cost partitioning over abstractions (ScpBuilder): along an    *)
(* order of the abstractions, each takes what its goal distances need of   *)
(* the operators' remaining costs, and the estimate of a state is the sum  *)
(* of its distances.  The heuristic is the maximum over the partitionings  *)
(* it retains.                                                             *)
(*                                                                         *)
(* An abstraction takes one cost per operator (label saturation, and every *)
(* pattern database) or one per operator and set of concrete states, the   *)
(* source set of a transition (regional saturation); both subtract from    *)
(* the same remaining costs.  Source sets are sets of concrete states      *)
(* here, and the cells of a usage cover the amount used at each state.     *)
(* The lookup tables of a partitioning are kept as their sum at each       *)
(* concrete state.  Costs are whole numbers.                               *)
(*                                                                         *)
(* Where a check of the code would end the program with an error, no       *)
(* action is enabled; AllocationsFit says that no such state is reached.   *)
(***************************************************************************)
EXTENDS Integers, Sequences, FiniteSets, FiniteSetsExt

CONSTANTS
    States,         \* the concrete states, and
    Steps,          \* the concrete transitions <<state, operator, state>>
    Goals,          \* the concrete goal states
    Operators,
    Cost,           \* effective_operator_costs
    MaxCost,        \* the largest of them
    Components,
    System,         \* the abstract state space of each component
    GoalDistancesOf(_, _),
                    \* goal distances in a component's state space under costs
                    \* of its transitions: see GoalDistances
    Options,
    MaxOrders

Transitions(c) == System[c].transitions
Known(c) == DOMAIN System[c].abstract
At(c, s) == System[c].abstract[s]
Labels(tr) == DOMAIN tr.sources

\* Every concrete step is abstracted: its abstract transition is in the component, or
\* stays in the abstract state, or leaves a state that no distance is computed for (a
\* goal state, or the frontier of a pattern database).
IsAbstracted(c, s, o, t) ==
    s \in Known(c) =>
        \/ At(c, s) \in System[c].seeds
        \/ /\ t \in Known(c)
           /\ \/ At(c, s) = At(c, t)
              \/ \E tr \in Transitions(c) :
                     /\ tr.source = At(c, s) /\ tr.target = At(c, t)
                     /\ o \in Labels(tr) /\ s \in tr.sources[o]

IsSettled(c, costs, d) ==
    /\ \A a \in System[c].seeds : a \in DOMAIN d /\ d[a] = 0
    /\ \A tr \in Transitions(c) :
           tr.target \in DOMAIN d =>
               tr.source \in DOMAIN d /\ d[tr.source] <= d[tr.target] + costs[tr]

ASSUME CostAssumption ==
    /\ MaxCost \in Nat
    /\ Cost \in [Operators -> 0..MaxCost]
    /\ Steps \subseteq States \X Operators \X States
    /\ Goals \subseteq States
    /\ IsFiniteSet(Components)
    /\ MaxOrders \in Nat \ {0}
    /\ \A opt \in Options : opt.initial \in States /\ opt.samples \subseteq States

ASSUME SystemAssumption ==
    \A c \in Components :
        /\ Known(c) \subseteq States
        /\ \A tr \in Transitions(c) :
               /\ Labels(tr) \subseteq Operators /\ Labels(tr) # {}
               /\ tr.sources \in [Labels(tr) -> SUBSET States]
        /\ \A e \in Steps : IsAbstracted(c, e[1], e[2], e[3])
        /\ \A s \in Goals \cap Known(c) : At(c, s) \in System[c].seeds

ASSUME DistanceAssumption ==
    \A c \in Components : \A costs \in [Transitions(c) -> 0..MaxCost] :
        /\ GoalDistancesOf(c, costs) \in [DOMAIN GoalDistancesOf(c, costs) -> Nat]
        /\ IsSettled(c, costs, GoalDistancesOf(c, costs))

VARIABLES
    options,
    phase,
    evaluated,      \* the concrete state the order and the perimeters are for
    order,          \* the components still to be saturated
    passes,         \* passes left over the first of them: within the perimeter or not
    remaining,      \* RemainingCosts
    saturation,     \* distances of a component and the costs they need
    partition,      \* the partitioning under construction
    retained        \* the partitionings of the heuristic

building == <<evaluated, order, passes, remaining, saturation, partition>>
vars == <<options, phase, building, retained>>

-----------------------------------------------------------------------------
(* What remains of the costs *)

NotCached == -1
Unused == [s \in States |-> 0]
OriginalCosts == [o \in Operators |-> [base |-> Cost[o], full |-> {}, used |-> Unused, cached |-> NotCached]]

\* used_on: a region that meets a fully used one has nothing left.
UsedOn(r, R) == IF R \cap r.full # {} THEN r.base ELSE Max({0} \cup {r.used[s] : s \in R})

\* cost_for_source_set
Available(o, R) == remaining[o].base - UsedOn(remaining[o], R)

\* operator_costs_for_label_cp: what is left everywhere, looked up if it was computed
\* since the last reduction.
UniformCost(o) ==
    LET r == remaining[o]
    IN  IF r.cached # NotCached THEN r.cached ELSE r.base - UsedOn(r, States)

\* reduce_operator_costs_uniform
ReducedBy(r, amount) == [r EXCEPT !.base = @ - amount, !.cached = NotCached]

\* A region's allocation takes the whole cost, or adds to what is used.
Covered(usage) == {s \in States : usage[s] > 0}
IsFull(r, usage) == \A s \in Covered(usage) : usage[s] >= r.base

ReducedOn(r, usage) ==
    IF IsFull(r, usage)
    THEN [r EXCEPT !.full = @ \cup Covered(usage), !.cached = NotCached]
    ELSE [r EXCEPT !.used = [s \in States |-> @[s] + usage[s]], !.cached = NotCached]

-----------------------------------------------------------------------------
(* Saturation *)

LabelCosts(c) == [tr \in Transitions(c) |-> Min({UniformCost(o) : o \in Labels(tr)})]
RegionCosts(c) == [tr \in Transitions(c) |-> Min({Available(o, tr.sources[o]) : o \in Labels(tr)})]

\* perimeter: the states with a distance no larger than that of a; all of them if a has none.
Perimeter(d, a) == IF a \in DOMAIN d THEN {x \in DOMAIN d : d[x] <= d[a]} ELSE DOMAIN d

\* saturation_need between two states of P
Need(d, P, tr) ==
    IF tr.source \in P /\ tr.target \in P /\ d[tr.source] > d[tr.target]
    THEN d[tr.source] - d[tr.target] ELSE 0

\* Mutant: an operator is charged for the transitions on shortest paths alone.
ShortestPathCosts(c, d, P) ==
    [o \in Operators |-> Max({0} \cup {Need(d, P, tr) : tr \in {x \in Transitions(c) :
        /\ o \in Labels(x)
        /\ x.target \in DOMAIN d => d[x.source] = d[x.target] + Min({UniformCost(l) : l \in Labels(x)})}})]

\* saturated_operator_costs
SaturatedCosts(c, d, P) ==
    [o \in Operators |-> Max({0} \cup {Need(d, P, tr) : tr \in {x \in Transitions(c) : o \in Labels(x)}})]

\* The entries of an allocation, and for each operator their largest amount at each
\* state: a concrete transition belongs to one abstract transition of the component.
SaturatedRegions(c, d, P) ==
    [o \in Operators |-> [s \in States |->
        Max({0} \cup {Need(d, P, tr) :
            tr \in {x \in Transitions(c) : remaining[o].base > 0 /\ o \in Labels(x) /\ s \in x.sources[o]}})]]

\* Mutant: the distances of a perimeter pass are the unlimited ones.
UnlimitedLabelSaturation(c, perimeter) ==
    LET d == GoalDistancesOf(c, LabelCosts(c))
        P == IF perimeter THEN Perimeter(d, At(c, evaluated)) ELSE DOMAIN d
    IN  [component |-> c,
         distances |-> d,
         uniform   |-> SaturatedCosts(c, d, P),
         regional  |-> [o \in Operators |-> Unused],
         left      |-> {}]

\* saturate_labels
LabelSaturation(c, perimeter) ==
    LET d == GoalDistancesOf(c, LabelCosts(c))
        P == IF perimeter THEN Perimeter(d, At(c, evaluated)) ELSE DOMAIN d
        saturated == SaturatedCosts(c, d, P)
        limited == [tr \in Transitions(c) |-> Min({saturated[o] : o \in Labels(tr)})]
    IN  [component |-> c,
         distances |-> IF perimeter THEN GoalDistancesOf(c, limited) ELSE d,
         uniform   |-> saturated,
         regional  |-> [o \in Operators |-> Unused],
         left      |-> {}]

\* saturate_regions
RegionSaturation(c, perimeter) ==
    LET d == GoalDistancesOf(c, RegionCosts(c))
        P == IF perimeter THEN Perimeter(d, At(c, evaluated)) ELSE DOMAIN d
        saturated == SaturatedRegions(c, d, P)
        limited == [tr \in Transitions(c) |-> Need(d, P, tr)]
    IN  [component |-> c,
         distances |-> IF perimeter THEN GoalDistancesOf(c, limited) ELSE d,
         uniform   |-> [o \in Operators |-> 0],
         regional  |-> saturated,
         left      |-> {o \in Operators : Covered(saturated[o]) # {}}]

UsesRegions(c) == options.method = "region" /\ System[c].regional
Saturation(c, perimeter) ==
    IF UsesRegions(c) THEN RegionSaturation(c, perimeter) ELSE LabelSaturation(c, perimeter)

-----------------------------------------------------------------------------
(* Partitionings *)

\* The estimates of a partitioning: a state outside alive is a dead end of one of its
\* tables.  A component says nothing of a state it does not know.
EmptyPartition == [alive |-> States, sum |-> [s \in States |-> 0]]
IsAlive(c, d, s) == s \in Known(c) => At(c, s) \in DOMAIN d
TableValue(c, d, s) == IF s \in Known(c) THEN d[At(c, s)] ELSE 0

\* add_h_values
WithTable(p, c, d) ==
    LET alive == {s \in p.alive : IsAlive(c, d, s)}
    IN  [alive |-> alive, sum |-> [s \in alive |-> p.sum[s] + TableValue(c, d, s)]]

IsEmptyPartition(p) == p = EmptyPartition

\* retain_if_improving_some_sample
Exceeds(p, q, s) == s \in q.alive /\ (s \in p.alive => p.sum[s] > q.sum[s])
ImprovesSomeSample(p) ==
    \E s \in options.samples : \A q \in retained \cup {EmptyPartition} : Exceeds(p, q, s)

-----------------------------------------------------------------------------
(* build_cp *)

NoSaturation == [component |-> 0, distances |-> <<>>, uniform |-> <<>>, regional |-> <<>>, left |-> {}]

Orders == {p \in [1..Cardinality(Components) -> Components] : \A c \in Components : \E i \in DOMAIN p : p[i] = c}

Init ==
    /\ options \in Options
    /\ phase = "start"
    /\ evaluated = options.initial
    /\ order = <<>> /\ passes = <<>>
    /\ remaining = OriginalCosts
    /\ saturation = NoSaturation
    /\ partition = EmptyPartition
    /\ retained = {}

StandaloneDistances(c) == GoalDistancesOf(c, [tr \in Transitions(c) |-> Min({Cost[o] : o \in Labels(tr)})])

\* SaturatedCostPartitioningHeuristic::new: the first component that proves the initial
\* state a dead end is the whole heuristic.
InitialDeadEnds == {c \in Components : ~ IsAlive(c, StandaloneDistances(c), options.initial)}
InitialDeadEnd ==
    /\ phase = "start"
    /\ \E c \in InitialDeadEnds :
           retained' = {WithTable(EmptyPartition, c, StandaloneDistances(c))}
    /\ phase' = "done"
    /\ UNCHANGED <<options, building>>

\* A partitioning is started along some order, for the initial state or, to diversify,
\* for a sample.
Start ==
    /\ phase = "start"
    /\ InitialDeadEnds = {}
    /\ evaluated' \in IF retained = {} THEN {options.initial} ELSE options.samples
    /\ order' \in Orders
    /\ passes' = options.passes
    /\ remaining' = OriginalCosts
    /\ partition' = EmptyPartition
    /\ phase' = "saturate"
    /\ UNCHANGED <<options, saturation, retained>>

NextComponent == order' = Tail(order) /\ passes' = options.passes
NextPass == IF Len(passes) > 1 THEN order' = order /\ passes' = Tail(passes) ELSE NextComponent

\* A component that does not know the evaluated state has no perimeter around it.
SkipPass ==
    /\ phase = "saturate"
    /\ order # <<>>
    /\ Head(passes) /\ evaluated \notin Known(Head(order))
    /\ NextPass
    /\ UNCHANGED <<options, phase, evaluated, remaining, saturation, partition, retained>>

IsZeroAtEvaluated(sat) ==
    evaluated \in Known(sat.component) =>
        At(sat.component, evaluated) \in DOMAIN sat.distances /\ sat.distances[At(sat.component, evaluated)] = 0

Saturate ==
    /\ phase = "saturate"
    /\ order # <<>>
    /\ ~ (Head(passes) /\ evaluated \notin Known(Head(order)))
    /\ LET c == Head(order)
           sat == Saturation(c, Head(passes))
           skipped == ~ options.diversify /\ IsZeroAtEvaluated(sat)
       IN  /\ remaining' = IF UsesRegions(c) THEN remaining
                           ELSE [o \in Operators |-> [remaining[o] EXCEPT !.cached = UniformCost(o)]]
           /\ saturation' = IF skipped THEN NoSaturation ELSE sat
           /\ phase' = IF skipped THEN "saturate" ELSE "reduce"
           /\ IF skipped THEN NextComponent ELSE UNCHANGED <<order, passes>>
    /\ UNCHANGED <<options, evaluated, partition, retained>>

\* reduce_by_source_set_allocation_with_deadline: the operators of an allocation are
\* charged one after another, in any order.
ReductionFits(o) ==
    LET r == remaining[o]
        usage == saturation.regional[o]
    IN  \A s \in Covered(usage) :
            IF IsFull(r, usage) THEN UsedOn(r, {s}) = 0 ELSE UsedOn(r, {s}) + usage[s] <= r.base

ReduceRegion ==
    /\ phase = "reduce"
    /\ \E o \in saturation.left :
           /\ ReductionFits(o)
           /\ remaining' = [remaining EXCEPT ![o] = ReducedOn(@, saturation.regional[o])]
           /\ saturation' = [saturation EXCEPT !.left = @ \ {o}]
    /\ UNCHANGED <<options, phase, evaluated, order, passes, partition, retained>>

\* A table is added when all of its costs are subtracted.
AddTable ==
    /\ phase = "reduce"
    /\ saturation.left = {}
    /\ \A o \in Operators : saturation.uniform[o] <= remaining[o].base
    /\ remaining' = [o \in Operators |->
           IF saturation.uniform[o] > 0 THEN ReducedBy(remaining[o], saturation.uniform[o]) ELSE remaining[o]]
    /\ partition' = WithTable(partition, saturation.component, saturation.distances)
    /\ saturation' = NoSaturation
    /\ NextPass
    /\ phase' = "saturate"
    /\ UNCHANGED <<options, evaluated, retained>>

\* The order ends, or the construction budget does: the tables added so far are kept.
FinishOrder ==
    /\ phase \in {"saturate", "reduce"}
    /\ order = <<>> \/ options.limited
    /\ phase' = "built"
    /\ saturation' = NoSaturation
    /\ UNCHANGED <<options, evaluated, order, passes, remaining, partition, retained>>

\* The first partitioning with a table is retained; to diversify, also those that
\* improve the estimate of a sample, until there are MaxOrders or time is up.
\* Orders required to cover goals, kept whatever the samples say, are left out.
Retain ==
    /\ phase = "built"
    /\ retained' = retained \cup
           (IF IF retained = {} THEN ~ IsEmptyPartition(partition) ELSE ImprovesSomeSample(partition)
            THEN {partition} ELSE {})
    /\ phase' \in IF options.diversify /\ order = <<>> /\ Cardinality(retained') < MaxOrders
                  THEN {"start", "done"} ELSE {"done"}
    /\ UNCHANGED <<options, building>>

Stopped == phase = "done" /\ UNCHANGED vars

Next ==
    \/ InitialDeadEnd \/ Start \/ SkipPass \/ Saturate \/ ReduceRegion \/ AddTable
    \/ FinishOrder \/ Retain \/ Stopped

Spec == Init /\ [][Next]_vars

-----------------------------------------------------------------------------
RemainingType == [base : 0..MaxCost, full : SUBSET States, used : [States -> Nat], cached : {NotCached} \cup Nat]

IsSaturation(sat) ==
    /\ sat.component \in Components
    /\ sat.distances \in [DOMAIN sat.distances -> Nat]
    /\ sat.uniform \in [Operators -> Nat]
    /\ sat.regional \in [Operators -> [States -> Nat]]
    /\ sat.left \subseteq Operators

TypeOK ==
    /\ options \in Options
    /\ phase \in {"start", "saturate", "reduce", "built", "done"}
    /\ evaluated \in States
    /\ order \in Seq(Components)
    /\ remaining \in [Operators -> RemainingType]
    /\ phase = "reduce" => order # <<>> /\ IsSaturation(saturation)
    /\ partition.alive \subseteq States
    /\ partition.sum \in [partition.alive -> Nat]

\* What a step of an operator from s could still be charged.
LeftOf(r, s) == IF s \in r.full THEN 0 ELSE r.base - r.used[s]
LeftAt(o, s) == LeftOf(remaining[o], s)

\* RemainingCosts and build_cp: whatever mix of label and regional saturation a
\* partitioning is built of, its estimate never drops by more along a step than the
\* part of the step's cost that is no longer left to others.
PartitionIsConsistent ==
    \A e \in Steps : e[3] \in partition.alive =>
        /\ e[1] \in partition.alive
        /\ partition.sum[e[1]] <= partition.sum[e[3]] + Cost[e[2]] - LeftAt(e[2], e[1])

\* compute_max_h: no retained estimate drops along a step by more than the step costs.
EstimatesAreConsistent ==
    \A p \in retained : \A e \in Steps : e[3] \in p.alive =>
        e[1] \in p.alive /\ p.sum[e[1]] <= p.sum[e[3]] + Cost[e[2]]

\* ensure!, assertions: what an abstraction needs of a cost is left of it.
AllocationsFit ==
    /\ \A o \in Operators : \A s \in States : LeftAt(o, s) >= 0
    /\ phase = "reduce" =>
           \A o \in Operators :
               /\ saturation.uniform[o] <= remaining[o].base
               /\ o \in saturation.left => ReductionFits(o)

-----------------------------------------------------------------------------
(***************************************************************************)
(* What the estimates promise, against the plans of the task.              *)
(***************************************************************************)
CONSTANT MaxSteps       \* bound: steps of the plans that estimates are compared with

ASSUME MaxStepsAssumption == MaxSteps \in Nat

\* From which states there are plans of at most n steps, and what they cost.
PlanCosts[n \in 0..MaxSteps] ==
    IF n = 0 THEN {<<s, 0>> : s \in Goals}
    ELSE LET shorter == PlanCosts[n - 1]
         IN  shorter \cup
             UNION {{<<e[1], Cost[e[2]] + k[2]>> : k \in {j \in shorter : j[1] = e[3]}} : e \in Steps}

\* compute_max_h: a state with a plan is no dead end of a retained partitioning, or of the
\* one under construction, nor estimated above what the plan costs.
EstimatesAreAdmissible ==
    LET plans == PlanCosts[MaxSteps]
    IN  \A p \in retained \cup {partition} : \A k \in plans :
            k[1] \in p.alive /\ p.sum[k[1]] <= k[2]
=============================================================================
