--------------------------- MODULE GoalDistances ---------------------------
(***************************************************************************)
(* Goal distances in an explicit graph: backward_goal_distances, the       *)
(* Dijkstra search that the exact state space and every abstraction run    *)
(* over their transitions, from seeds with known distances.  A state       *)
(* without a distance cannot reach a seed (its distance is infinite).      *)
(*                                                                         *)
(* Costs and distances are whole numbers of some unit, and an improvement  *)
(* counts only if it exceeds Tolerance of them.  The order in which        *)
(* transitions are relaxed is open: of the improvements of a state that    *)
(* differ by no more than the tolerance, any may come out.  Heap entries   *)
(* that a cheaper one of the same iteration replaces are left out: they    *)
(* are skipped when popped.                                                *)
(***************************************************************************)
EXTENDS Integers, FiniteSets

CONSTANTS
    Nodes,
    GraphLabels,
    Tolerance       \* SEARCH_EPSILON, a natural number of units

VARIABLES
    searchPhase,
    transitions,    \* the graph
    seeds,          \* distances known beforehand
    distances,
    generating,     \* the transition a cheapest path starts with
    heap

gdvars == <<searchPhase, transitions, seeds, distances, generating, heap>>

Transition == [source : Nodes, label : GraphLabels, target : Nodes, cost : Nat]
Entry == Nat \X Nodes

Improves(d, s, known) == s \notin DOMAIN known \/ d + Tolerance < known[s]

Nothing == [s \in {} |-> 0]

GDInit ==
    /\ searchPhase = "idle"
    /\ transitions = {} /\ seeds = {} /\ heap = {}
    /\ distances = Nothing /\ generating = Nothing

Seeded(S) == {e[2] : e \in S}

\* A search starts: every seed that improves on the others of its state is queued.
Begin ==
    /\ searchPhase = "idle"
    /\ searchPhase' = "searching"
    /\ transitions' \in SUBSET Transition
    /\ seeds' \in SUBSET Entry
    /\ distances' \in [Seeded(seeds') -> Nat]
    /\ \A s \in Seeded(seeds') :
           /\ <<distances'[s], s>> \in seeds'
           /\ \A e \in seeds' : e[2] = s => distances'[s] <= e[1] + Tolerance
    /\ generating' = Nothing
    /\ heap' = {<<distances'[s], s>> : s \in Seeded(seeds')}

Into(t) == {tr \in transitions : tr.target = t}
Improvable(e) ==
    {s \in Nodes : \E tr \in Into(e[2]) : tr.source = s /\ Improves(e[1] + tr.cost, s, distances)}
Best(e, s, tr) ==
    /\ tr \in Into(e[2])
    /\ tr.source = s
    /\ Improves(e[1] + tr.cost, s, distances)
    /\ \A other \in Into(e[2]) : other.source = s => tr.cost <= other.cost + Tolerance

\* The body of the loop for entry e, when the states of Improvable(e) are improved
\* by the transitions of via.
Relax(e, via) ==
    /\ \A s \in Improvable(e) : Best(e, s, via[s])
    /\ distances' = [s \in DOMAIN distances \cup Improvable(e) |->
                        IF s \in Improvable(e) THEN e[1] + via[s].cost ELSE distances[s]]
    /\ generating' = [s \in DOMAIN generating \cup Improvable(e) |->
                        IF s \in Improvable(e) THEN via[s] ELSE generating[s]]
    /\ heap' = (heap \ {e}) \cup {<<e[1] + via[s].cost, s>> : s \in Improvable(e)}

Outdated(e) == e[1] > distances[e[2]] + Tolerance

Expand ==
    /\ searchPhase = "searching"
    /\ \E e \in heap :
           /\ \A other \in heap : e[1] <= other[1]
           /\ \/ /\ Outdated(e)
                 /\ heap' = heap \ {e}
                 /\ UNCHANGED <<distances, generating>>
              \/ /\ ~ Outdated(e)
                 /\ \E via \in [Improvable(e) -> Into(e[2])] : Relax(e, via)
    /\ UNCHANGED <<searchPhase, transitions, seeds>>

\* The search returns its distances when the heap is empty, or, when check_limit
\* fails, which is asked every 1024 expansions, nothing.
Return ==
    /\ searchPhase = "searching"
    /\ searchPhase' = "idle"
    /\ transitions' = {} /\ seeds' = {} /\ heap' = {}
    /\ distances' = Nothing /\ generating' = Nothing

GDNext == Begin \/ Expand \/ Return
GDSpec == GDInit /\ [][GDNext]_gdvars

-----------------------------------------------------------------------------
GDTypeOK ==
    /\ searchPhase \in {"idle", "searching"}
    /\ transitions \subseteq Transition
    /\ seeds \subseteq Entry
    /\ DOMAIN distances \subseteq Nodes
    /\ distances \in [DOMAIN distances -> Nat]
    /\ DOMAIN generating \subseteq DOMAIN distances
    /\ generating \in [DOMAIN generating -> transitions]
    /\ heap \subseteq Entry

\* The distance of a transition's source is at most the cost of taking it first.
Settled(tr) ==
    tr.target \in DOMAIN distances =>
        /\ tr.source \in DOMAIN distances
        /\ distances[tr.source] <= distances[tr.target] + tr.cost + Tolerance

\* backward_goal_distances: when the heap is empty, no seed and no transition offers
\* a path that is cheaper by more than the tolerance, and no state is left out that
\* reaches a state with a distance.
DistancesAreSettled ==
    heap = {} =>
        /\ \A tr \in transitions : Settled(tr)
        /\ \A e \in seeds : e[2] \in DOMAIN distances /\ distances[e[2]] <= e[1] + Tolerance

\* Each distance is that of a seed, or is not below what its recorded transition
\* costs from there: following the recorded transitions is a path that cheap.
DistancesAreWitnessed ==
    \A s \in DOMAIN distances :
        \/ s \in DOMAIN generating /\ generating[s].source = s
           /\ generating[s].target \in DOMAIN distances
           /\ distances[s] >= distances[generating[s].target] + generating[s].cost
        \/ <<distances[s], s>> \in seeds

\* f bounds the seeds from below and never drops by more than a transition's cost.
Consistent(f) ==
    /\ \A e \in seeds : f[e[2]] <= e[1]
    /\ \A tr \in transitions : f[tr.source] <= f[tr.target] + tr.cost

\* No distance is too small: every consistent lower bound stays below it.  The
\* exact distances are one, so the search never undercuts them.
DistancesAreBounded ==
    \A f \in [Nodes -> Int] :
        Consistent(f) => \A s \in DOMAIN distances : f[s] <= distances[s]
=============================================================================
