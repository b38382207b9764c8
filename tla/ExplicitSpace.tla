--------------------------- MODULE ExplicitSpace ---------------------------
(***************************************************************************)
(* The explicit state space of a numeric task, rows of cost variables      *)
(* aside, and the goal distances in it: what they are, and, for the models *)
(* that TLC checks, their computation.                                     *)
(***************************************************************************)
EXTENDS NumericTask

Successor(t, o, s) == WithoutRows(t, After(t, o, s))
Successors(t, s) == {Successor(t, o, s) : o \in Applicable(t, s)}

ContainsAllReachable(t, S) ==
    /\ WithoutRows(t, InitialState(t)) \in S
    /\ \A s \in S : \A o \in Applicable(t, s) : Successor(t, o, s) \in S

\* S has exactly the states that can be reached.
IsStateSpace(t, S) ==
    /\ IsFiniteSet(S)
    /\ \A s \in S : IsState(t, s)
    /\ ContainsAllReachable(t, S)
    /\ \A T \in SUBSET S : ContainsAllReachable(t, T) => T = S

\* No operator is paid for being applied.
PricesAreNatural(t, S) == \A s \in S : \A o \in Applicable(t, s) : Price(t, o, s) \in Nat

\* d has the goal distances: no operator beats them, and a cheapest plan leaves every
\* set of states.
AreGoalDistances(t, d) ==
    LET through(s, o) == Price(t, o, s) + d[Successor(t, o, s)]
    IN  /\ d \in [DOMAIN d -> 0..Infinite]
        /\ \A s \in DOMAIN d : IsGoalState(t, s) => d[s] = 0
        /\ \A s \in DOMAIN d : \A o \in Applicable(t, s) : d[s] <= through(s, o)
        /\ \A s \in DOMAIN d : \A o \in Applicable(t, s) :
               d[s] = Infinite => d[Successor(t, o, s)] = Infinite
        /\ \A S \in SUBSET {s \in DOMAIN d : ~ IsGoalState(t, s) /\ d[s] < Infinite} :
               S # {} => \E s \in S : \E o \in Applicable(t, s) :
                             Successor(t, o, s) \notin S /\ d[s] = through(s, o)

\* No operator is cheaper in a state of S than in the initial state.
CostsArePaid(t, S) == \A s \in S : \A o \in Applicable(t, s) : t.costs[o] <= Price(t, o, s)

-----------------------------------------------------------------------------
StateSpace(t, s) ==
    LET valuations == [DOMAIN t.init -> Int]
        reached[known \in SUBSET valuations, new \in SUBSET valuations] ==
            IF new = {} THEN known
            ELSE LET next == UNION {Successors(t, u) : u \in new}
                 IN  reached[known \cup new, next \ (known \cup new)]
    IN  reached[{}, {WithoutRows(t, s)}]

GoalDistancesFrom(t, s) ==
    LET space == StateSpace(t, s)
        improved[d \in [space -> 0..Infinite]] ==
            LET through(u) == {d[Successor(t, o, u)] + Price(t, o, u) : o \in Applicable(t, u)}
                next == [u \in space |-> Min({d[u]} \cup through(u))]
            IN  IF next = d THEN d ELSE improved[next]
    IN  improved[[u \in space |-> IF IsGoalState(t, u) THEN 0 ELSE Infinite]]
=============================================================================
