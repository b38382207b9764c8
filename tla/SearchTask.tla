----------------------------- MODULE SearchTask -----------------------------
(***************************************************************************)
(* A planning task as best-first search sees it: the registered states,    *)
(* the operators applicable in each state in the order the successor       *)
(* generator lists them, the successor and the price of each transition,   *)
(* the goal states, and the heuristics that guide the search.              *)
(*                                                                         *)
(* Values of variables, effects and axioms are abstracted away: a state is *)
(* an element of States, a cost a natural number.  A heuristic is a table  *)
(* of estimates, one row per revision (Heuristic::revision), because an    *)
(* online heuristic may raise its estimates between two evaluations.       *)
(***************************************************************************)
EXTENDS Integers, Sequences, FiniteSets

CONSTANTS
    States,         \* the states the registry can hold
    Operators,      \* the operators of the task
    MaxRevision     \* bound: how often an online heuristic grows

ASSUME StatesAssumption == IsFiniteSet(States)
ASSUME OperatorsAssumption == IsFiniteSet(Operators)
ASSUME RevisionAssumption == MaxRevision \in Nat

Revisions == 0..MaxRevision

\* Estimate::DEAD_END: the infinite estimate, and an infinite goal distance.
DeadEnd == -1
Estimates == Nat \cup {DeadEnd}

(***************************************************************************)
(* hStar and steps are not part of the program: they say what the true     *)
(* goal distances are, so that the properties can speak of them.           *)
(***************************************************************************)
TaskType ==
    [init         : States,
     goals        : SUBSET States,
     applicable   : [States -> Seq(Operators)],
     result       : [States -> [Operators -> States]],
     cost         : [States -> [Operators -> Nat]],
     operatorCost : [Operators -> Nat],
     h            : [Revisions -> [States -> Estimates]],
     lazyH        : [States -> Estimates],
     preferred    : [States -> SUBSET Operators],
     hStar        : [States -> Estimates],
     steps        : [States -> Nat]]

ApplicableSet(t, s) == {t.applicable[s][i] : i \in 1..Len(t.applicable[s])}

-----------------------------------------------------------------------------
(* min_operator_cost: over the costs that the operators have in the initial *)
(* state, zero without operators; and bounded_estimate, which raises the    *)
(* estimate of every non-goal state to it.                                  *)

MinOperatorCost(t) ==
    IF Operators = {} THEN 0
    ELSE CHOOSE c \in {t.operatorCost[o] : o \in Operators} :
             \A o \in Operators : c <= t.operatorCost[o]

BoundedEstimate(t, s, h) ==
    IF s \in t.goals \/ h = DeadEnd \/ h >= MinOperatorCost(t)
    THEN h
    ELSE MinOperatorCost(t)

-----------------------------------------------------------------------------
(* What a task, and a heuristic for it, may be assumed to satisfy.          *)

\* hStar is the cost of a cheapest plan of each state, DeadEnd without one;
\* steps decreases along a cheapest plan, also where transitions cost nothing.
ExactDistances(t) ==
    /\ \A s \in t.goals : t.hStar[s] = 0
    /\ \A s \in States \ t.goals : t.hStar[s] # DeadEnd =>
           \E o \in ApplicableSet(t, s) :
               /\ t.hStar[t.result[s][o]] # DeadEnd
               /\ t.hStar[s] = t.cost[s][o] + t.hStar[t.result[s][o]]
               /\ t.steps[t.result[s][o]] < t.steps[s]
    /\ \A s \in States : \A o \in ApplicableSet(t, s) :
           t.hStar[t.result[s][o]] # DeadEnd =>
               /\ t.hStar[s] # DeadEnd
               /\ t.hStar[s] <= t.cost[s][o] + t.hStar[t.result[s][o]]

\* No transition is cheaper than the cheapest operator is in the initial state:
\* true without a metric, and with one whose increases are constants.
CheapestInInitialState(t) ==
    \A s \in States : \A o \in ApplicableSet(t, s) :
        MinOperatorCost(t) <= t.cost[s][o]

\* A heuristic is safe if it calls only dead ends dead ends, and admissible if
\* besides it never exceeds the goal distance.
Safe(t, h) == \A s \in States : h[s] = DeadEnd => t.hStar[s] = DeadEnd
Admissible(t, h) ==
    /\ Safe(t, h)
    /\ \A s \in States : t.hStar[s] # DeadEnd => h[s] <= t.hStar[s]

\* The estimates of an online heuristic never fall as its revision grows.
NonDecreasing(t) ==
    \A r \in Revisions : \A s \in States :
        r + 1 \in Revisions =>
            \/ t.h[r + 1][s] = DeadEnd
            \/ t.h[r][s] # DeadEnd /\ t.h[r][s] <= t.h[r + 1][s]

IsTask(t) ==
    /\ t \in TaskType
    /\ ExactDistances(t)
    /\ NonDecreasing(t)
    /\ \A r \in Revisions : Safe(t, t.h[r])
    /\ Safe(t, t.lazyH)

AdmissibleTask(t) ==
    /\ CheapestInInitialState(t)
    /\ \A r \in Revisions : Admissible(t, t.h[r])
    /\ Admissible(t, t.lazyH)
=============================================================================
