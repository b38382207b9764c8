---------------------- MODULE CostPartitioning_proofs ----------------------
(***************************************************************************)
(* A cost partitioning never counts a cost twice, for every task, every    *)
(* collection of abstractions, every order and any mix of label and        *)
(* regional saturation, whenever the construction budget ends.             *)
(*                                                                         *)
(* The argument goes through what is pending: while the operators of a     *)
(* regional saturation are charged one by one, the partition must already  *)
(* leave room for the charges made on behalf of a table that is not in it. *)
(* From this, estimates are consistent, and by induction over its steps    *)
(* no plan costs less than they say.                                       *)
(*                                                                         *)
(* At the end, the distances that a partitioning is computed from: what    *)
(* backward_goal_distances returns is never below the exact distances, is  *)
(* the cost of a recorded path, and, when the heap is empty, at most a     *)
(* tolerance per transition above the exact ones.  That argument does not  *)
(* rest on the order of the heap.  An entry of the heap is either its      *)
(* state's distance or more than the tolerance above it (an improvement    *)
(* exceeds the tolerance), so the entries that are not skipped are exact;  *)
(* and a state whose distance is not in the heap has been relaxed with it. *)
(***************************************************************************)
EXTENDS CostPartitioning, GoalDistances, FiniteSetTheorems, WellFoundedInduction, TLAPS

-----------------------------------------------------------------------------
(* Least and largest numbers *)

\* Every set of natural numbers but the empty one has a least element.
LEMMA LeastNatural ==
    ASSUME NEW S \in SUBSET Nat, S # {}
    PROVE  /\ Min(S) \in S
           /\ \A n \in S : Min(S) <= n
<1>1. \E m \in S : \A n \in S : ~(<<n, m>> \in OpToRel(<, Nat))
    BY WFMin, NatLessThanWellFounded
<1>2. \A m, n \in S : ~(<<n, m>> \in OpToRel(<, Nat)) => m <= n
    BY DEF OpToRel
<1>3. \E m \in S : \A n \in S : m <= n
    BY <1>1, <1>2
<1> QED BY <1>3 DEF Min

\* Every bounded set of natural numbers but the empty one has a largest element.
LEMMA LargestNatural ==
    ASSUME NEW B \in Nat, NEW S \in SUBSET (0..B), S # {}
    PROVE  /\ Max(S) \in S
           /\ \A n \in S : Max(S) >= n
<1> DEFINE D == {B - x : x \in S}
<1>1. D \in SUBSET Nat /\ D # {}
  <2>1. \A x \in S : B - x \in Nat
      OBVIOUS
  <2>2. PICK x \in S : TRUE
      OBVIOUS
  <2>3. B - x \in D
      BY <2>2
  <2> QED BY <2>1, <2>3
<1>2. Min(D) \in D /\ \A n \in D : Min(D) <= n
    BY <1>1, LeastNatural
<1>3. PICK x \in S : Min(D) = B - x
    BY <1>2
<1>4. \A y \in S : B - x <= B - y
    BY <1>2, <1>3
<1>5. \A y \in S : x >= y
    BY <1>4
<1> QED BY <1>5 DEF Max

-----------------------------------------------------------------------------
(* What is left of a cost *)

\* Nowhere is more used of a cost than there is, and what was looked up is still right.
IsFit(r) == \A s \in States : LeftOf(r, s) >= 0
IsCurrent(r) == r.cached # NotCached => r.cached = r.base - UsedOn(r, States)

\* What is available on a region is left at each of its states.
LEMMA UsedOnRegion ==
    ASSUME NEW r \in RemainingType, IsFit(r), NEW R \in SUBSET States
    PROVE  /\ UsedOn(r, R) \in 0..r.base
           /\ \A s \in R : r.base - UsedOn(r, R) <= LeftOf(r, s)
<1>0. r.base \in Nat /\ r.used \in [States -> Nat]
    BY CostAssumption DEF RemainingType
<1>1. CASE R \cap r.full # {}
    BY <1>0, <1>1 DEF UsedOn, IsFit
<1>2. CASE R \cap r.full = {}
  <2> DEFINE U == {0} \cup {r.used[s] : s \in R}
  <2>1. \A s \in R : r.used[s] \in 0..r.base
      BY <1>0, <1>2 DEF IsFit, LeftOf
  <2>2. U \in SUBSET (0..r.base) /\ U # {}
      BY <1>0, <2>1
  <2>3. Max(U) \in U /\ \A n \in U : Max(U) >= n
      BY <1>0, <2>2, LargestNatural
  <2>4. UsedOn(r, R) = Max(U)
      BY <1>2 DEF UsedOn
  <2>5. \A s \in R : LeftOf(r, s) = r.base - r.used[s]
      BY <1>2 DEF LeftOf
  <2>6. Max(U) \in 0..r.base
      BY <2>2, <2>3
  <2>7. \A s \in R : r.used[s] <= Max(U)
      BY <2>3
  <2> HIDE DEF U
  <2> QED BY <1>0, <2>1, <2>4, <2>5, <2>6, <2>7
<1> QED BY <1>1, <1>2

LEMMA UsedAtState ==
    ASSUME NEW r \in RemainingType, NEW s \in States
    PROVE  UsedOn(r, {s}) = IF s \in r.full THEN r.base ELSE r.used[s]
<1>0. r.used[s] \in Nat
    BY DEF RemainingType
<1>1. CASE s \in r.full
    BY <1>1 DEF UsedOn
<1>2. CASE s \notin r.full
  <2> DEFINE U == {0, r.used[s]}
  <2>1. U \in SUBSET (0..r.used[s]) /\ U # {}
      BY <1>0
  <2>2. Max(U) \in U /\ \A n \in U : Max(U) >= n
      BY <1>0, <2>1, LargestNatural
  <2>3. Max(U) = r.used[s]
      BY <1>0, <2>2
  <2>4. {0} \cup {r.used[x] : x \in {s}} = U
      OBVIOUS
  <2> QED BY <1>2, <2>3, <2>4 DEF UsedOn
<1> QED BY <1>1, <1>2

LEMMA LeftIsWhole ==
    ASSUME NEW r \in RemainingType, IsFit(r), NEW s \in States
    PROVE  LeftOf(r, s) \in 0..r.base
<1> r.base \in Nat /\ r.used[s] \in Nat
    BY CostAssumption DEF RemainingType
<1> QED BY DEF IsFit, LeftOf

\* The cost of an operator everywhere, looked up or not, is left everywhere.
RemainingIsSound == \A o \in Operators : IsFit(remaining[o]) /\ IsCurrent(remaining[o])

LEMMA UniformCostIsLeft ==
    ASSUME remaining \in [Operators -> RemainingType], RemainingIsSound, NEW o \in Operators
    PROVE  /\ UniformCost(o) = remaining[o].base - UsedOn(remaining[o], States)
           /\ UniformCost(o) \in 0..remaining[o].base
           /\ \A s \in States : UniformCost(o) <= LeftOf(remaining[o], s)
<1> DEFINE r == remaining[o]
<1>1. r \in RemainingType /\ IsFit(r) /\ IsCurrent(r)
    BY DEF RemainingIsSound
<1>2. UniformCost(o) = r.base - UsedOn(r, States)
    BY <1>1 DEF UniformCost, IsCurrent
<1>3. /\ UsedOn(r, States) \in 0..r.base
      /\ \A s \in States : r.base - UsedOn(r, States) <= LeftOf(r, s)
    BY <1>1, UsedOnRegion
<1>4. r.base \in Nat
    BY <1>1, CostAssumption DEF RemainingType
<1> HIDE DEF r
<1> QED BY <1>2, <1>3, <1>4 DEF r

-----------------------------------------------------------------------------
(* Saturation *)

\* A transition needs no more of its cost than the distances were computed with.
LEMMA NeedIsAvailable ==
    ASSUME NEW c \in Components, NEW costs \in [Transitions(c) -> 0..MaxCost],
           NEW P \in SUBSET DOMAIN GoalDistancesOf(c, costs), NEW tr \in Transitions(c)
    PROVE  Need(GoalDistancesOf(c, costs), P, tr) \in 0..costs[tr]
<1> DEFINE d == GoalDistancesOf(c, costs)
<1>1. d \in [DOMAIN d -> Nat] /\ IsSettled(c, costs, d)
    BY DistanceAssumption
<1>2. costs[tr] \in Nat
    BY CostAssumption
<1>3. ASSUME tr.source \in P, tr.target \in P
      PROVE  /\ d[tr.source] \in Nat /\ d[tr.target] \in Nat
             /\ d[tr.source] <= d[tr.target] + costs[tr]
    BY <1>1, <1>3 DEF IsSettled
<1> HIDE DEF d
<1>4. Need(d, P, tr) \in 0..costs[tr]
    BY <1>2, <1>3 DEF Need
<1> QED BY <1>4 DEF d

\* What the distances of all states need settles them.
LEMMA NeedSettles ==
    ASSUME NEW c \in Components, NEW costs \in [Transitions(c) -> 0..MaxCost],
           NEW needs,
           \A tr \in Transitions(c) :
               needs[tr] = Need(GoalDistancesOf(c, costs), DOMAIN GoalDistancesOf(c, costs), tr)
    PROVE  IsSettled(c, needs, GoalDistancesOf(c, costs))
<1> DEFINE d == GoalDistancesOf(c, costs)
<1>1. d \in [DOMAIN d -> Nat] /\ IsSettled(c, costs, d)
    BY DistanceAssumption
<1>2. \A tr \in Transitions(c) : needs[tr] = Need(d, DOMAIN d, tr)
    OBVIOUS
<1> HIDE DEF d
<1>3. ASSUME NEW tr \in Transitions(c), tr.target \in DOMAIN d
      PROVE  tr.source \in DOMAIN d /\ d[tr.source] <= d[tr.target] + needs[tr]
  <2>1. tr.source \in DOMAIN d
      BY <1>1, <1>3 DEF IsSettled
  <2>2. d[tr.source] \in Nat /\ d[tr.target] \in Nat
      BY <1>1, <1>3, <2>1
  <2>3. needs[tr] = IF d[tr.source] > d[tr.target] THEN d[tr.source] - d[tr.target] ELSE 0
      BY <1>2, <1>3, <2>1 DEF Need
  <2> QED BY <2>1, <2>2, <2>3
<1>4. \A a \in System[c].seeds : a \in DOMAIN d /\ d[a] = 0
    BY <1>1 DEF IsSettled
<1>5. IsSettled(c, needs, d)
    BY <1>3, <1>4 DEF IsSettled
<1> QED BY <1>5 DEF d

\* The value of a table drops along a step by no more than the step is charged.
IsCharged(c, d, uniform, regional) ==
    \A e \in Steps : IsAlive(c, d, e[3]) =>
        /\ IsAlive(c, d, e[1])
        /\ TableValue(c, d, e[1]) <= TableValue(c, d, e[3]) + uniform[e[2]] + regional[e[2]][e[1]]

LEMMA StepParts ==
    ASSUME NEW e \in Steps
    PROVE  e[1] \in States /\ e[2] \in Operators /\ e[3] \in States
BY CostAssumption

LEMMA SettledTableIsCharged ==
    ASSUME NEW c \in Components, NEW d, d \in [DOMAIN d -> Nat],
           NEW uniform \in [Operators -> Nat], NEW regional \in [Operators -> [States -> Nat]],
           NEW costs \in [Transitions(c) -> Nat], IsSettled(c, costs, d),
           \A tr \in Transitions(c) : \A o \in Labels(tr) : \A s \in tr.sources[o] :
               costs[tr] <= uniform[o] + regional[o][s]
    PROVE  IsCharged(c, d, uniform, regional)
<1> SUFFICES ASSUME NEW e \in Steps, IsAlive(c, d, e[3])
             PROVE  /\ IsAlive(c, d, e[1])
                    /\ TableValue(c, d, e[1]) <= TableValue(c, d, e[3]) + uniform[e[2]] + regional[e[2]][e[1]]
    BY DEF IsCharged
<1>1. e[1] \in States /\ e[2] \in Operators /\ e[3] \in States
    BY StepParts
<1>2. uniform[e[2]] \in Nat /\ regional[e[2]][e[1]] \in Nat
    BY <1>1
<1>3. TableValue(c, d, e[3]) \in Nat
    BY DEF TableValue, IsAlive
<1>4. IsAbstracted(c, e[1], e[2], e[3])
    BY SystemAssumption
<1>5. CASE e[1] \notin Known(c)
    BY <1>2, <1>3, <1>5 DEF TableValue, IsAlive
<1>6. CASE e[1] \in Known(c) /\ At(c, e[1]) \in System[c].seeds
  <2>1. At(c, e[1]) \in DOMAIN d /\ d[At(c, e[1])] = 0
      BY <1>6 DEF IsSettled
  <2> QED BY <1>2, <1>3, <1>6, <2>1 DEF TableValue, IsAlive
<1>7. CASE e[1] \in Known(c) /\ e[3] \in Known(c) /\ At(c, e[1]) = At(c, e[3])
    BY <1>2, <1>3, <1>7 DEF TableValue, IsAlive
<1>8. ASSUME e[1] \in Known(c), e[3] \in Known(c),
             NEW tr \in Transitions(c), tr.source = At(c, e[1]), tr.target = At(c, e[3]),
             e[2] \in Labels(tr), e[1] \in tr.sources[e[2]]
      PROVE  /\ IsAlive(c, d, e[1])
             /\ TableValue(c, d, e[1]) <= TableValue(c, d, e[3]) + uniform[e[2]] + regional[e[2]][e[1]]
  <2>1. tr.target \in DOMAIN d
      BY <1>8 DEF IsAlive
  <2>2. tr.source \in DOMAIN d /\ d[tr.source] <= d[tr.target] + costs[tr]
      BY <1>8, <2>1 DEF IsSettled
  <2>3. costs[tr] <= uniform[e[2]] + regional[e[2]][e[1]]
      BY <1>8
  <2>4. d[tr.source] \in Nat /\ d[tr.target] \in Nat /\ costs[tr] \in Nat
      BY <1>8, <2>1, <2>2
  <2> QED BY <1>2, <1>8, <2>2, <2>3, <2>4 DEF TableValue, IsAlive
<1> QED BY <1>4, <1>5, <1>6, <1>7, <1>8 DEF IsAbstracted

-----------------------------------------------------------------------------
(* Label saturation *)

\* What a table takes of the remaining costs is left of them.
ChargesFit(sat) ==
    \A o \in Operators :
        /\ sat.uniform[o] <= remaining[o].base
        /\ sat.left # {} => sat.uniform[o] = 0
        /\ \A s \in States :
               /\ sat.uniform[o] <= LeftAt(o, s)
               /\ o \in sat.left => sat.regional[o][s] <= LeftAt(o, s)

NothingIsCharged(sat) == \A o \in Operators \ sat.left : \A s \in States : sat.regional[o][s] = 0

TableIsCharged(sat) == IsCharged(sat.component, sat.distances, sat.uniform, sat.regional)

\* A table is zero wherever its distances are measured to.
SeedsAreFree(c, d) == \A a \in System[c].seeds : a \in DOMAIN d /\ d[a] = 0
TableIsZeroAtGoals(sat) == SeedsAreFree(sat.component, sat.distances)

LEMMA BaseIsBounded ==
    ASSUME remaining \in [Operators -> RemainingType], NEW o \in Operators
    PROVE  remaining[o].base \in Nat /\ remaining[o].base <= MaxCost /\ MaxCost \in Nat
BY CostAssumption DEF RemainingType

\* A transition costs the cheapest of its labels.
LEMMA CheapestLabel ==
    ASSUME NEW c \in Components, NEW tr \in Transitions(c), NEW cost,
           \A o \in Operators : cost[o] \in 0..MaxCost
    PROVE  /\ Min({cost[o] : o \in Labels(tr)}) \in 0..MaxCost
           /\ \A l \in Labels(tr) : Min({cost[o] : o \in Labels(tr)}) <= cost[l]
<1> DEFINE S == {cost[o] : o \in Labels(tr)}
<1>1. Labels(tr) \subseteq Operators /\ Labels(tr) # {}
    BY SystemAssumption
<1>2. S \in SUBSET (0..MaxCost) /\ S # {}
    BY <1>1
<1>3. S \in SUBSET Nat
    BY <1>2, CostAssumption
<1>4. Min(S) \in S /\ \A n \in S : Min(S) <= n
    BY <1>2, <1>3, LeastNatural
<1>5. \A o \in Labels(tr) : cost[o] \in S
    OBVIOUS
<1> HIDE DEF S
<1>6. Min(S) \in 0..MaxCost /\ \A o \in Labels(tr) : Min(S) <= cost[o]
    BY <1>2, <1>4, <1>5
<1> QED BY <1>6 DEF S

LEMMA LabelCostsAreLeft ==
    ASSUME remaining \in [Operators -> RemainingType], RemainingIsSound, NEW c \in Components
    PROVE  /\ LabelCosts(c) \in [Transitions(c) -> 0..MaxCost]
           /\ \A tr \in Transitions(c) : \A o \in Labels(tr) : LabelCosts(c)[tr] <= UniformCost(o)
<1> DEFINE cost == [o \in Operators |-> UniformCost(o)]
<1>1. \A o \in Operators : cost[o] \in 0..MaxCost
    BY UniformCostIsLeft, BaseIsBounded
<1>2. ASSUME NEW tr \in Transitions(c)
      PROVE  /\ LabelCosts(c)[tr] \in 0..MaxCost
             /\ \A o \in Labels(tr) : LabelCosts(c)[tr] <= UniformCost(o)
  <2>1. Labels(tr) \subseteq Operators
      BY <1>2, SystemAssumption
  <2>2. {UniformCost(o) : o \in Labels(tr)} = {cost[o] : o \in Labels(tr)}
      BY <2>1
  <2>3. LabelCosts(c)[tr] = Min({cost[o] : o \in Labels(tr)})
      BY <1>2, <2>2 DEF LabelCosts
  <2>4. \A o \in Labels(tr) : cost[o] = UniformCost(o)
      BY <2>1
  <2> HIDE DEF cost
  <2>5. /\ Min({cost[o] : o \in Labels(tr)}) \in 0..MaxCost
        /\ \A l \in Labels(tr) : Min({cost[o] : o \in Labels(tr)}) <= cost[l]
      BY <1>1, CheapestLabel
  <2> QED BY <2>3, <2>4, <2>5
<1>3. LabelCosts(c) = [tr \in Transitions(c) |-> LabelCosts(c)[tr]]
    BY DEF LabelCosts
<1> QED BY <1>2, <1>3

\* An operator is charged no more than is left everywhere, and no less than any of its
\* transitions needs.
LEMMA SaturatedCostsFit ==
    ASSUME NEW c \in Components, NEW costs \in [Transitions(c) -> 0..MaxCost],
           NEW P \in SUBSET DOMAIN GoalDistancesOf(c, costs), NEW o \in Operators,
           NEW limit \in Nat,
           \A tr \in Transitions(c) : o \in Labels(tr) => costs[tr] <= limit
    PROVE  /\ SaturatedCosts(c, GoalDistancesOf(c, costs), P)[o] \in 0..limit
           /\ \A tr \in Transitions(c) : o \in Labels(tr) =>
                  Need(GoalDistancesOf(c, costs), P, tr)
                      <= SaturatedCosts(c, GoalDistancesOf(c, costs), P)[o]
<1> DEFINE d == GoalDistancesOf(c, costs)
           labelled == {x \in Transitions(c) : o \in Labels(x)}
           S == {0} \cup {Need(d, P, tr) : tr \in labelled}
<1>1. \A tr \in Transitions(c) : Need(d, P, tr) \in 0..costs[tr] /\ costs[tr] \in Nat
    BY NeedIsAvailable, CostAssumption
<1>2. \A tr \in labelled : Need(d, P, tr) \in 0..limit
    BY <1>1
<1>3. SaturatedCosts(c, d, P)[o] = Max(S)
    BY DEF SaturatedCosts
<1> HIDE DEF d, labelled
<1>4. S \in SUBSET (0..limit) /\ S # {}
    BY <1>2
<1>5. Max(S) \in S /\ \A n \in S : Max(S) >= n
    BY <1>4, LargestNatural
<1>6. \A tr \in labelled : Need(d, P, tr) \in S
    OBVIOUS
<1> HIDE DEF S
<1>7. Max(S) \in 0..limit /\ \A tr \in labelled : Need(d, P, tr) <= Max(S)
    BY <1>2, <1>4, <1>5, <1>6
<1> QED BY <1>3, <1>7 DEF d, labelled

LEMMA LabelSaturationIsSound ==
    ASSUME remaining \in [Operators -> RemainingType], RemainingIsSound,
           NEW c \in Components, NEW perimeter
    PROVE  /\ IsSaturation(LabelSaturation(c, perimeter))
           /\ TableIsCharged(LabelSaturation(c, perimeter))
           /\ ChargesFit(LabelSaturation(c, perimeter))
           /\ NothingIsCharged(LabelSaturation(c, perimeter))
           /\ TableIsZeroAtGoals(LabelSaturation(c, perimeter))
<1> DEFINE costs == LabelCosts(c)
           d == GoalDistancesOf(c, costs)
           P == IF perimeter THEN Perimeter(d, At(c, evaluated)) ELSE DOMAIN d
           uniform == SaturatedCosts(c, d, P)
           limited == [tr \in Transitions(c) |-> Min({uniform[o] : o \in Labels(tr)})]
           needs == [tr \in Transitions(c) |-> Need(d, P, tr)]
           h == IF perimeter THEN GoalDistancesOf(c, limited) ELSE d
           regional == [o \in Operators |-> Unused]
           sat == LabelSaturation(c, perimeter)
<1>1. /\ costs \in [Transitions(c) -> 0..MaxCost]
      /\ \A tr \in Transitions(c) : \A o \in Labels(tr) : costs[tr] <= UniformCost(o)
    BY LabelCostsAreLeft
<1>2. sat = [component |-> c, distances |-> h, uniform |-> uniform, regional |-> regional, left |-> {}]
    BY DEF LabelSaturation
<1> HIDE DEF costs, sat
<1>3. P \in SUBSET DOMAIN d
    BY DEF Perimeter
<1>4. \A o \in Operators : UniformCost(o) \in Nat /\ UniformCost(o) <= remaining[o].base
    BY UniformCostIsLeft, BaseIsBounded
<1>5. ASSUME NEW o \in Operators
      PROVE  /\ uniform[o] \in 0..UniformCost(o)
             /\ \A tr \in Transitions(c) : o \in Labels(tr) => Need(d, P, tr) <= uniform[o]
  <2> HIDE DEF P
  <2>1. UniformCost(o) \in Nat
      BY <1>4
  <2>2. \A tr \in Transitions(c) : o \in Labels(tr) => costs[tr] <= UniformCost(o)
      BY <1>1
  <2> QED BY <1>1, <1>3, <2>1, <2>2, SaturatedCostsFit
<1>6. uniform \in [Operators -> Nat]
  <2>1. \A o \in Operators : uniform[o] \in Nat
      BY <1>4, <1>5
  <2>2. uniform = [o \in Operators |-> uniform[o]]
      BY DEF SaturatedCosts
  <2> HIDE DEF uniform
  <2> QED BY <2>1, <2>2
<1>7. regional \in [Operators -> [States -> Nat]] /\ \A o \in Operators : \A s \in States : regional[o][s] = 0
    BY DEF Unused
<1> HIDE DEF uniform, regional
<1>8. \A o \in Operators : uniform[o] \in 0..MaxCost
  <2> TAKE o \in Operators
  <2>1. uniform[o] \in 0..UniformCost(o) /\ UniformCost(o) \in Nat /\ UniformCost(o) <= remaining[o].base
      BY <1>4, <1>5
  <2> QED BY <2>1, BaseIsBounded
<1>9. ASSUME NEW tr \in Transitions(c)
      PROVE  /\ limited[tr] \in 0..MaxCost
             /\ \A o \in Labels(tr) : limited[tr] <= uniform[o]
    BY <1>8, CheapestLabel
<1>10. limited \in [Transitions(c) -> 0..MaxCost]
    BY <1>9
<1> HIDE DEF limited
<1>11. \A tr \in Transitions(c) : Labels(tr) \subseteq Operators /\ tr.sources \in [Labels(tr) -> SUBSET States]
    BY SystemAssumption
<1>12. h \in [DOMAIN h -> Nat] /\ IsCharged(c, h, uniform, regional) /\ SeedsAreFree(c, h)
  <2>1. CASE perimeter
    <3>1. h = GoalDistancesOf(c, limited)
        BY <2>1
    <3>2. h \in [DOMAIN h -> Nat] /\ IsSettled(c, limited, h)
        BY <1>10, <3>1, DistanceAssumption
    <3> HIDE DEF h
    <3>3. limited \in [Transitions(c) -> Nat]
        BY <1>9, <1>10, CostAssumption
    <3>4. \A tr \in Transitions(c) : \A o \in Labels(tr) : \A s \in tr.sources[o] :
              limited[tr] <= uniform[o] + regional[o][s]
      <4> TAKE tr \in Transitions(c)
      <4> TAKE o \in Labels(tr)
      <4> TAKE s \in tr.sources[o]
      <4>1. o \in Operators /\ s \in States
          BY <1>11
      <4>2. limited[tr] <= uniform[o] /\ regional[o][s] = 0 /\ uniform[o] \in Nat /\ limited[tr] \in Nat
          BY <4>1, <1>6, <1>7, <1>9, <3>3
      <4> QED BY <4>2
    <3>5. SeedsAreFree(c, h)
        BY <3>2 DEF IsSettled, SeedsAreFree
    <3> QED BY <1>6, <1>7, <3>2, <3>3, <3>4, <3>5, SettledTableIsCharged
  <2>2. CASE ~ perimeter
    <3>1. h = d /\ P = DOMAIN d
        BY <2>2
    <3>2. \A tr \in Transitions(c) : needs[tr] = Need(d, DOMAIN d, tr)
        BY <3>1
    <3>3. d \in [DOMAIN d -> Nat]
        BY <1>1, DistanceAssumption
    <3>4. \A tr \in Transitions(c) : Need(d, P, tr) \in Nat
        BY <1>1, <1>3, NeedIsAvailable, CostAssumption
    <3>5. needs \in [Transitions(c) -> Nat]
        BY <3>4
    <3>6. \A tr \in Transitions(c) : \A o \in Labels(tr) : \A s \in tr.sources[o] :
              needs[tr] <= uniform[o] + regional[o][s]
      <4> TAKE tr \in Transitions(c)
      <4> TAKE o \in Labels(tr)
      <4> TAKE s \in tr.sources[o]
      <4>1. o \in Operators /\ s \in States
          BY <1>11
      <4>2. needs[tr] = Need(d, P, tr)
          OBVIOUS
      <4> HIDE DEF needs, P, d
      <4>3. needs[tr] <= uniform[o] /\ regional[o][s] = 0 /\ uniform[o] \in Nat /\ needs[tr] \in Nat
          BY <4>1, <4>2, <1>5, <1>6, <1>7, <3>5
      <4> QED BY <4>3
    <3> HIDE DEF needs
    <3>7. IsSettled(c, needs, d)
        BY <1>1, <3>2, NeedSettles
    <3> HIDE DEF d, P
    <3>8. IsCharged(c, d, uniform, regional)
        BY <1>6, <1>7, <3>3, <3>5, <3>6, <3>7, SettledTableIsCharged
    <3>9. SeedsAreFree(c, d)
        BY <3>7 DEF IsSettled, SeedsAreFree
    <3> QED BY <3>1, <3>3, <3>8, <3>9
  <2> QED BY <2>1, <2>2
<1> HIDE DEF h
<1>13. IsSaturation(sat)
    BY <1>2, <1>6, <1>7, <1>12 DEF IsSaturation
<1>14. TableIsCharged(sat)
    BY <1>2, <1>12 DEF TableIsCharged
<1>15. NothingIsCharged(sat)
    BY <1>2, <1>7 DEF NothingIsCharged
<1>16. ChargesFit(sat)
  <2> SUFFICES ASSUME NEW o \in Operators
               PROVE  uniform[o] <= remaining[o].base /\ \A s \in States : uniform[o] <= LeftAt(o, s)
      BY <1>2 DEF ChargesFit
  <2>1. uniform[o] \in 0..UniformCost(o) /\ UniformCost(o) \in Nat /\ UniformCost(o) <= remaining[o].base
      BY <1>4, <1>5
  <2>2. remaining[o].base \in Nat
      BY BaseIsBounded
  <2>3. \A s \in States : UniformCost(o) <= LeftAt(o, s) /\ LeftAt(o, s) \in Int
      BY UniformCostIsLeft, LeftIsWhole, <2>2 DEF LeftAt, RemainingIsSound
  <2> QED BY <2>1, <2>2, <2>3
<1>17. TableIsZeroAtGoals(sat)
    BY <1>2, <1>12 DEF TableIsZeroAtGoals
<1> QED BY <1>13, <1>14, <1>15, <1>16, <1>17 DEF sat

-----------------------------------------------------------------------------
(* Regional saturation *)

LEMMA LeftIsBounded ==
    ASSUME remaining \in [Operators -> RemainingType], RemainingIsSound,
           NEW o \in Operators, NEW s \in States
    PROVE  LeftAt(o, s) \in 0..remaining[o].base
BY LeftIsWhole DEF LeftAt, RemainingIsSound

LEMMA AvailableIsLeft ==
    ASSUME remaining \in [Operators -> RemainingType], RemainingIsSound,
           NEW o \in Operators, NEW R \in SUBSET States
    PROVE  /\ Available(o, R) \in 0..remaining[o].base
           /\ \A s \in R : Available(o, R) <= LeftAt(o, s)
<1> DEFINE r == remaining[o]
<1>1. r \in RemainingType /\ IsFit(r)
    BY DEF RemainingIsSound
<1>2. /\ UsedOn(r, R) \in 0..r.base
      /\ \A s \in R : r.base - UsedOn(r, R) <= LeftOf(r, s)
    BY <1>1, UsedOnRegion
<1>3. r.base \in Nat
    BY BaseIsBounded
<1>4. Available(o, R) = r.base - UsedOn(r, R) /\ \A s \in R : LeftAt(o, s) = LeftOf(r, s)
    BY DEF Available, LeftAt
<1> HIDE DEF r
<1>5. r.base - UsedOn(r, R) \in 0..r.base
    BY <1>2, <1>3
<1> QED BY <1>2, <1>4, <1>5 DEF r

LEMMA RegionCostsAreLeft ==
    ASSUME remaining \in [Operators -> RemainingType], RemainingIsSound, NEW c \in Components
    PROVE  /\ RegionCosts(c) \in [Transitions(c) -> 0..MaxCost]
           /\ \A tr \in Transitions(c) : \A o \in Labels(tr) :
                  /\ RegionCosts(c)[tr] <= remaining[o].base
                  /\ \A s \in tr.sources[o] : RegionCosts(c)[tr] <= LeftAt(o, s)
<1>1. ASSUME NEW tr \in Transitions(c)
      PROVE  /\ RegionCosts(c)[tr] \in 0..MaxCost
             /\ \A o \in Labels(tr) :
                    /\ RegionCosts(c)[tr] <= remaining[o].base
                    /\ \A s \in tr.sources[o] : RegionCosts(c)[tr] <= LeftAt(o, s)
  <2> DEFINE cost == [o \in Operators |-> IF o \in Labels(tr) THEN Available(o, tr.sources[o]) ELSE 0]
             S == {cost[o] : o \in Labels(tr)}
  <2>1. Labels(tr) \subseteq Operators /\ tr.sources \in [Labels(tr) -> SUBSET States]
      BY SystemAssumption
  <2>2. ASSUME NEW o \in Labels(tr)
        PROVE  /\ Available(o, tr.sources[o]) \in 0..remaining[o].base
               /\ \A s \in tr.sources[o] : Available(o, tr.sources[o]) <= LeftAt(o, s)
      BY <2>1, AvailableIsLeft
  <2>3. \A o \in Labels(tr) : cost[o] = Available(o, tr.sources[o])
      BY <2>1
  <2>4. \A o \in Operators : cost[o] \in 0..MaxCost
    <3> TAKE o \in Operators
    <3>1. CASE o \in Labels(tr)
        BY <3>1, <2>2, BaseIsBounded
    <3>2. CASE o \notin Labels(tr)
        BY <3>2, CostAssumption
    <3> QED BY <3>1, <3>2
  <2>5. {Available(o, tr.sources[o]) : o \in Labels(tr)} = S
      BY <2>3
  <2>6. RegionCosts(c)[tr] = Min(S)
      BY <1>1, <2>5 DEF RegionCosts
  <2> HIDE DEF cost
  <2>7. Min(S) \in 0..MaxCost /\ \A o \in Labels(tr) : Min(S) <= cost[o]
      BY <2>4, CheapestLabel
  <2> HIDE DEF S
  <2>8. ASSUME NEW o \in Labels(tr)
        PROVE  /\ Min(S) <= remaining[o].base
               /\ \A s \in tr.sources[o] : Min(S) <= LeftAt(o, s)
    <3>1. Min(S) <= cost[o] /\ Min(S) \in Int
        BY <2>7
    <3>2. cost[o] \in 0..remaining[o].base /\ \A s \in tr.sources[o] : cost[o] <= LeftAt(o, s)
        BY <2>2, <2>3
    <3>3. \A s \in tr.sources[o] : LeftAt(o, s) \in Int
        BY <2>1, LeftIsBounded
    <3>4. remaining[o].base \in Nat
        BY <2>1, BaseIsBounded
    <3> QED BY <3>1, <3>2, <3>3, <3>4
  <2> QED BY <2>6, <2>7, <2>8
<1>2. RegionCosts(c) = [tr \in Transitions(c) |-> RegionCosts(c)[tr]]
    BY DEF RegionCosts
<1>3. RegionCosts(c) \in [Transitions(c) -> 0..MaxCost]
    BY <1>1, <1>2
<1> QED BY <1>1, <1>3

\* At each state an operator is charged no more than is left there, and no less than the
\* transition its step there belongs to needs.
LEMMA SaturatedRegionsFit ==
    ASSUME remaining \in [Operators -> RemainingType], RemainingIsSound,
           NEW c \in Components, NEW costs, costs = RegionCosts(c),
           NEW P \in SUBSET DOMAIN GoalDistancesOf(c, costs), NEW o \in Operators, NEW s \in States
    PROVE  /\ SaturatedRegions(c, GoalDistancesOf(c, costs), P)[o][s] \in 0..LeftAt(o, s)
           /\ \A tr \in Transitions(c) : o \in Labels(tr) /\ s \in tr.sources[o] =>
                  Need(GoalDistancesOf(c, costs), P, tr)
                      <= SaturatedRegions(c, GoalDistancesOf(c, costs), P)[o][s]
<1> DEFINE d == GoalDistancesOf(c, costs)
           entries == {x \in Transitions(c) : remaining[o].base > 0 /\ o \in Labels(x) /\ s \in x.sources[o]}
           S == {0} \cup {Need(d, P, tr) : tr \in entries}
<1>1. /\ costs \in [Transitions(c) -> 0..MaxCost]
      /\ \A tr \in Transitions(c) : \A l \in Labels(tr) :
             costs[tr] <= remaining[l].base /\ \A x \in tr.sources[l] : costs[tr] <= LeftAt(l, x)
    BY RegionCostsAreLeft
<1>2. \A tr \in Transitions(c) : Need(d, P, tr) \in 0..costs[tr] /\ costs[tr] \in Nat
    BY <1>1, NeedIsAvailable, CostAssumption
<1>3. LeftAt(o, s) \in Nat /\ remaining[o].base \in Nat
    BY LeftIsBounded, BaseIsBounded
<1>4. SaturatedRegions(c, d, P)[o][s] = Max(S)
    BY DEF SaturatedRegions
<1>5. \A tr \in Transitions(c) : o \in Labels(tr) /\ s \in tr.sources[o] =>
          costs[tr] <= LeftAt(o, s) /\ costs[tr] <= remaining[o].base
    BY <1>1
<1> HIDE DEF d
<1>6. \A tr \in entries : Need(d, P, tr) \in 0..LeftAt(o, s)
    BY <1>2, <1>3, <1>5
<1>7. \A tr \in Transitions(c) \ entries : o \in Labels(tr) /\ s \in tr.sources[o] => Need(d, P, tr) = 0
    BY <1>2, <1>3, <1>5
<1> HIDE DEF entries
<1>8. S \in SUBSET (0..LeftAt(o, s)) /\ S # {}
    BY <1>3, <1>6
<1>9. Max(S) \in S /\ \A n \in S : Max(S) >= n
    BY <1>3, <1>8, LargestNatural
<1>10. \A tr \in entries : Need(d, P, tr) \in S
    OBVIOUS
<1> HIDE DEF S
<1>11. Max(S) \in 0..LeftAt(o, s) /\ \A tr \in entries : Need(d, P, tr) <= Max(S)
    BY <1>6, <1>8, <1>9, <1>10
<1>12. \A tr \in Transitions(c) : o \in Labels(tr) /\ s \in tr.sources[o] => Need(d, P, tr) <= Max(S)
  <2> TAKE tr \in Transitions(c)
  <2> HAVE o \in Labels(tr) /\ s \in tr.sources[o]
  <2>1. CASE tr \in entries
      BY <2>1, <1>11
  <2>2. CASE tr \notin entries
      BY <2>2, <1>7, <1>11, <1>3
  <2> QED BY <2>1, <2>2
<1> QED BY <1>4, <1>11, <1>12 DEF d

LEMMA RegionSaturationIsSound ==
    ASSUME remaining \in [Operators -> RemainingType], RemainingIsSound,
           NEW c \in Components, NEW perimeter
    PROVE  /\ IsSaturation(RegionSaturation(c, perimeter))
           /\ TableIsCharged(RegionSaturation(c, perimeter))
           /\ ChargesFit(RegionSaturation(c, perimeter))
           /\ NothingIsCharged(RegionSaturation(c, perimeter))
           /\ TableIsZeroAtGoals(RegionSaturation(c, perimeter))
<1> DEFINE costs == RegionCosts(c)
           d == GoalDistancesOf(c, costs)
           P == IF perimeter THEN Perimeter(d, At(c, evaluated)) ELSE DOMAIN d
           regional == SaturatedRegions(c, d, P)
           uniform == [o \in Operators |-> 0]
           limited == [tr \in Transitions(c) |-> Need(d, P, tr)]
           h == IF perimeter THEN GoalDistancesOf(c, limited) ELSE d
           left == {o \in Operators : Covered(regional[o]) # {}}
           sat == RegionSaturation(c, perimeter)
<1>1. costs \in [Transitions(c) -> 0..MaxCost]
    BY RegionCostsAreLeft
<1>2. sat = [component |-> c, distances |-> h, uniform |-> uniform, regional |-> regional, left |-> left]
    BY DEF RegionSaturation
<1> HIDE DEF sat
<1>3. P \in SUBSET DOMAIN d
    BY DEF Perimeter
<1>4. ASSUME NEW o \in Operators, NEW s \in States
      PROVE  /\ regional[o][s] \in 0..LeftAt(o, s)
             /\ \A tr \in Transitions(c) : o \in Labels(tr) /\ s \in tr.sources[o] =>
                    Need(d, P, tr) <= regional[o][s]
  <2> HIDE DEF P
  <2> QED BY <1>3, SaturatedRegionsFit
<1> HIDE DEF costs
<1>5. regional \in [Operators -> [States -> Nat]]
  <2>1. \A o \in Operators : \A s \in States : regional[o][s] \in Nat
      BY <1>4, LeftIsBounded
  <2>2. regional = [o \in Operators |-> [s \in States |-> regional[o][s]]]
      BY DEF SaturatedRegions
  <2> HIDE DEF regional
  <2> QED BY <2>1, <2>2
<1>6. uniform \in [Operators -> Nat] /\ \A o \in Operators : uniform[o] = 0
    OBVIOUS
<1> HIDE DEF uniform
<1>7. ASSUME NEW tr \in Transitions(c)
      PROVE  Need(d, P, tr) \in 0..MaxCost /\ Need(d, P, tr) \in Nat
  <2> HIDE DEF P
  <2> QED BY <1>1, <1>3, NeedIsAvailable, CostAssumption
<1>8. limited \in [Transitions(c) -> 0..MaxCost] /\ limited \in [Transitions(c) -> Nat]
    BY <1>7
<1>9. \A tr \in Transitions(c) : limited[tr] = Need(d, P, tr)
    OBVIOUS
<1>10. \A tr \in Transitions(c) : Labels(tr) \subseteq Operators /\ tr.sources \in [Labels(tr) -> SUBSET States]
    BY SystemAssumption
<1> HIDE DEF limited
<1>11. \A tr \in Transitions(c) : \A o \in Labels(tr) : \A s \in tr.sources[o] :
           limited[tr] <= uniform[o] + regional[o][s]
  <2> HIDE DEF P, regional
  <2> TAKE tr \in Transitions(c)
  <2> TAKE o \in Labels(tr)
  <2> TAKE s \in tr.sources[o]
  <2>1. o \in Operators /\ s \in States
      BY <1>10
  <2>2. limited[tr] <= regional[o][s]
      BY <1>4, <1>9, <2>1
  <2>3. regional[o][s] \in Nat /\ uniform[o] = 0
      BY <1>5, <1>6, <2>1
  <2> QED BY <2>2, <2>3
<1> HIDE DEF regional
<1>12. h \in [DOMAIN h -> Nat] /\ IsSettled(c, limited, h)
  <2>1. CASE perimeter
    <3>1. h = GoalDistancesOf(c, limited)
        BY <2>1
    <3> QED BY <1>8, <3>1, DistanceAssumption
  <2>2. CASE ~ perimeter
    <3>1. h = d /\ P = DOMAIN d
        BY <2>2
    <3>2. \A tr \in Transitions(c) : limited[tr] = Need(d, DOMAIN d, tr)
        BY <1>9, <3>1
    <3>3. d \in [DOMAIN d -> Nat]
        BY <1>1, DistanceAssumption
    <3>4. IsSettled(c, limited, d)
        BY <1>1, <3>2, NeedSettles
    <3> QED BY <3>1, <3>3, <3>4
  <2> QED BY <2>1, <2>2
<1> HIDE DEF h
<1>13. IsCharged(c, h, uniform, regional)
    BY <1>5, <1>6, <1>8, <1>11, <1>12, SettledTableIsCharged
<1>14. IsSaturation(sat)
    BY <1>2, <1>5, <1>6, <1>12 DEF IsSaturation
<1>15. TableIsCharged(sat)
    BY <1>2, <1>13 DEF TableIsCharged
<1>16. NothingIsCharged(sat)
    BY <1>2, <1>5 DEF NothingIsCharged, Covered
<1>17. ChargesFit(sat)
  <2> SUFFICES ASSUME NEW o \in Operators
               PROVE  /\ uniform[o] <= remaining[o].base
                      /\ uniform[o] = 0
                      /\ \A s \in States : uniform[o] <= LeftAt(o, s) /\ regional[o][s] <= LeftAt(o, s)
      BY <1>2 DEF ChargesFit
  <2>1. remaining[o].base \in Nat /\ \A s \in States : LeftAt(o, s) \in Nat
      BY BaseIsBounded, LeftIsBounded
  <2>2. \A s \in States : regional[o][s] \in 0..LeftAt(o, s)
      BY <1>4
  <2> QED BY <1>6, <2>1, <2>2
<1>18. TableIsZeroAtGoals(sat)
    BY <1>2, <1>12 DEF TableIsZeroAtGoals, SeedsAreFree, IsSettled
<1> QED BY <1>14, <1>15, <1>16, <1>17, <1>18 DEF sat

-----------------------------------------------------------------------------
(* Reductions *)

LEMMA ReducedOnRegion ==
    ASSUME NEW r \in RemainingType, IsFit(r), NEW usage \in [States -> Nat],
           \A s \in States : usage[s] <= LeftOf(r, s)
    PROVE  /\ ReducedOn(r, usage) \in RemainingType
           /\ ReducedOn(r, usage).base = r.base
           /\ IsCurrent(ReducedOn(r, usage))
           /\ \A s \in States : LeftOf(ReducedOn(r, usage), s) = LeftOf(r, s) - usage[s]
<1>0. /\ r.base \in 0..MaxCost /\ r.base \in Nat /\ r.full \in SUBSET States /\ r.used \in [States -> Nat]
      /\ r = [base |-> r.base, full |-> r.full, used |-> r.used, cached |-> r.cached]
    BY CostAssumption DEF RemainingType
<1>1. CASE IsFull(r, usage)
  <2> DEFINE q == [base |-> r.base, full |-> r.full \cup Covered(usage), used |-> r.used, cached |-> NotCached]
  <2>1. ReducedOn(r, usage) = q
      BY <1>0, <1>1 DEF ReducedOn
  <2>2. q \in RemainingType
      BY <1>0 DEF RemainingType, Covered
  <2>3. ASSUME NEW s \in States
        PROVE  LeftOf(q, s) = LeftOf(r, s) - usage[s]
    <3>0. usage[s] \in Nat /\ r.used[s] \in Nat /\ usage[s] <= LeftOf(r, s)
        BY <1>0
    <3>1. CASE usage[s] > 0
      <4>1. usage[s] >= r.base
          BY <1>1, <3>1 DEF IsFull, Covered
      <4>2. s \in q.full
          BY <3>1 DEF Covered
      <4> QED BY <1>0, <3>0, <3>1, <4>1, <4>2 DEF LeftOf
    <3>2. CASE usage[s] = 0
      <4>1. s \in q.full <=> s \in r.full
          BY <3>2 DEF Covered
      <4> QED BY <1>0, <3>2, <4>1 DEF LeftOf
    <3> QED BY <3>0, <3>1, <3>2
  <2> QED BY <2>1, <2>2, <2>3 DEF IsCurrent
<1>2. CASE ~ IsFull(r, usage)
  <2> DEFINE used == [s \in States |-> r.used[s] + usage[s]]
             q == [base |-> r.base, full |-> r.full, used |-> used, cached |-> NotCached]
  <2>1. ReducedOn(r, usage) = q
      BY <1>0, <1>2 DEF ReducedOn
  <2>2. q \in RemainingType
      BY <1>0 DEF RemainingType
  <2>3. ASSUME NEW s \in States
        PROVE  LeftOf(q, s) = LeftOf(r, s) - usage[s]
    <3>0. usage[s] \in Nat /\ r.used[s] \in Nat /\ usage[s] <= LeftOf(r, s)
        BY <1>0
    <3> QED BY <1>0, <3>0 DEF LeftOf
  <2> QED BY <2>1, <2>2, <2>3 DEF IsCurrent
<1> QED BY <1>1, <1>2

LEMMA ReducedEverywhere ==
    ASSUME NEW r \in RemainingType, IsFit(r), NEW amount \in Nat, amount > 0,
           amount <= r.base, \A s \in States : amount <= LeftOf(r, s)
    PROVE  /\ ReducedBy(r, amount) \in RemainingType
           /\ IsCurrent(ReducedBy(r, amount))
           /\ \A s \in States : LeftOf(ReducedBy(r, amount), s) = LeftOf(r, s) - amount
<1>0. /\ r.base \in 0..MaxCost /\ r.base \in Nat /\ r.full \in SUBSET States /\ r.used \in [States -> Nat]
      /\ r = [base |-> r.base, full |-> r.full, used |-> r.used, cached |-> r.cached]
    BY CostAssumption DEF RemainingType
<1> DEFINE base == r.base - amount
           q == [base |-> base, full |-> r.full, used |-> r.used, cached |-> NotCached]
<1>1. ReducedBy(r, amount) = q
  <2>1. ReducedBy(r, amount) = [r EXCEPT !.base = base, !.cached = NotCached]
      BY DEF ReducedBy
  <2> HIDE DEF base
  <2> QED BY <1>0, <2>1
<1>2. q \in RemainingType
  <2>1. r.base - amount \in 0..MaxCost
      BY <1>0, CostAssumption
  <2> QED BY <1>0, <2>1 DEF RemainingType
<1>3. ASSUME NEW s \in States
      PROVE  LeftOf(q, s) = LeftOf(r, s) - amount
  <2>0. r.used[s] \in Nat /\ amount <= LeftOf(r, s)
      BY <1>0
  <2> QED BY <1>0, <2>0 DEF LeftOf
<1> QED BY <1>1, <1>2, <1>3 DEF IsCurrent

LEMMA LookedUp ==
    ASSUME NEW r \in RemainingType, NEW v
    PROVE  /\ [r EXCEPT !.cached = v].base = r.base
           /\ [r EXCEPT !.cached = v].cached = v
           /\ v \in Nat => [r EXCEPT !.cached = v] \in RemainingType
           /\ \A s : LeftOf([r EXCEPT !.cached = v], s) = LeftOf(r, s)
           /\ \A R : UsedOn([r EXCEPT !.cached = v], R) = UsedOn(r, R)
<1> DEFINE q == [r EXCEPT !.cached = v]
<1>1. q = [base |-> r.base, full |-> r.full, used |-> r.used, cached |-> v]
    BY DEF RemainingType
<1>2. v \in Nat => q \in RemainingType
    BY <1>1 DEF RemainingType
<1> HIDE DEF q
<1>3. \A s : LeftOf(q, s) = LeftOf(r, s)
    BY <1>1 DEF LeftOf
<1>4. \A R : UsedOn(q, R) = UsedOn(r, R)
    BY <1>1 DEF UsedOn
<1>5. q.base = r.base /\ q.cached = v
    BY <1>1
<1> QED BY <1>2, <1>3, <1>4, <1>5 DEF q

-----------------------------------------------------------------------------
(* The invariant *)

\* What the table under construction has been charged at s for a step of o.
Charged(o, s) ==
    IF phase = "reduce" /\ o \notin saturation.left THEN saturation.regional[o][s] ELSE 0

\* The partition leaves room for what is left and for what is charged already.
PartitionLeavesRoom ==
    \A e \in Steps : e[3] \in partition.alive =>
        /\ e[1] \in partition.alive
        /\ partition.sum[e[1]] <= partition.sum[e[3]] + Cost[e[2]] - LeftAt(e[2], e[1]) - Charged(e[2], e[1])

CostInvariant ==
    /\ TypeOK
    /\ RemainingIsSound
    /\ PartitionLeavesRoom
    /\ phase = "reduce" => TableIsCharged(saturation) /\ ChargesFit(saturation)

LEMMA ChargedIsNatural ==
    ASSUME TypeOK, NEW o \in Operators, NEW s \in States
    PROVE  Charged(o, s) \in Nat
BY DEF TypeOK, IsSaturation, Charged

\* An order that loses its first component is still one.
LEMMA OrderTypes ==
    ASSUME order \in Seq(Components), order # <<>>
    PROVE  Head(order) \in Components /\ Tail(order) \in Seq(Components)
OBVIOUS

LEMMA NextPassTypes ==
    ASSUME order \in Seq(Components), order # <<>>, NextPass \/ NextComponent
    PROVE  order' \in Seq(Components)
BY OrderTypes DEF NextPass, NextComponent

LEMMA OriginalCostsAreWhole ==
    /\ OriginalCosts \in [Operators -> RemainingType]
    /\ \A o \in Operators :
           /\ IsCurrent(OriginalCosts[o])
           /\ \A s \in States : LeftOf(OriginalCosts[o], s) = Cost[o]
<1>1. ASSUME NEW o \in Operators
      PROVE  OriginalCosts[o] = [base |-> Cost[o], full |-> {}, used |-> Unused, cached |-> NotCached]
    BY DEF OriginalCosts
<1>2. Unused \in [States -> Nat] /\ \A s \in States : Unused[s] = 0
    BY DEF Unused
<1>3. \A o \in Operators : Cost[o] \in 0..MaxCost /\ Cost[o] \in Nat
    BY CostAssumption
<1>4. ASSUME NEW o \in Operators
      PROVE  /\ OriginalCosts[o] \in RemainingType
             /\ IsCurrent(OriginalCosts[o])
             /\ \A s \in States : LeftOf(OriginalCosts[o], s) = Cost[o]
  <2> DEFINE q == [base |-> Cost[o], full |-> {}, used |-> Unused, cached |-> NotCached]
  <2>1. OriginalCosts[o] = q
      BY <1>1
  <2>2. Cost[o] \in 0..MaxCost /\ Cost[o] \in Nat
      BY <1>3
  <2>3. q \in RemainingType
      BY <1>2, <2>2 DEF RemainingType
  <2>4. IsCurrent(q)
      BY DEF IsCurrent
  <2>5. \A s \in States : LeftOf(q, s) = Cost[o]
      BY <1>2, <2>2 DEF LeftOf
  <2> HIDE DEF q
  <2> QED BY <2>1, <2>3, <2>4, <2>5
<1>5. OriginalCosts = [o \in Operators |-> OriginalCosts[o]]
    BY DEF OriginalCosts
<1>6. OriginalCosts \in [Operators -> RemainingType]
    BY <1>4, <1>5
<1> QED BY <1>4, <1>6

LEMMA InvariantHoldsInitially == Init => CostInvariant
<1> SUFFICES ASSUME Init PROVE CostInvariant
    OBVIOUS
<1>1. options.initial \in States
    BY CostAssumption DEF Init
<1>2. TypeOK
    BY <1>1, OriginalCostsAreWhole DEF Init, TypeOK, EmptyPartition
<1>3. RemainingIsSound
  <2> SUFFICES ASSUME NEW o \in Operators
               PROVE  IsFit(OriginalCosts[o]) /\ IsCurrent(OriginalCosts[o])
      BY DEF Init, RemainingIsSound
  <2> QED BY OriginalCostsAreWhole, CostAssumption DEF IsFit
<1>4. PartitionLeavesRoom
  <2> SUFFICES ASSUME NEW e \in Steps
               PROVE  /\ e[1] \in EmptyPartition.alive
                      /\ EmptyPartition.sum[e[1]] <= EmptyPartition.sum[e[3]] + Cost[e[2]] - LeftAt(e[2], e[1]) - Charged(e[2], e[1])
      BY DEF Init, PartitionLeavesRoom
  <2>1. e[1] \in States /\ e[2] \in Operators /\ e[3] \in States
      BY StepParts
  <2>2. LeftAt(e[2], e[1]) = Cost[e[2]] /\ Charged(e[2], e[1]) = 0 /\ Cost[e[2]] \in Nat
      BY <2>1, OriginalCostsAreWhole, CostAssumption DEF Init, LeftAt, Charged
  <2> QED BY <2>1, <2>2 DEF EmptyPartition
<1> QED BY <1>2, <1>3, <1>4 DEF CostInvariant, Init

\* Starting a partitioning over is like starting one.
LEMMA StartKeeps == CostInvariant /\ Start => CostInvariant'
<1> SUFFICES ASSUME CostInvariant, Start PROVE CostInvariant'
    OBVIOUS
<1>1. /\ remaining' = OriginalCosts /\ partition' = EmptyPartition /\ phase' = "saturate"
      /\ options' = options /\ options \in Options
    BY DEF Start, CostInvariant, TypeOK
<1>2. evaluated' \in States
    BY <1>1, CostAssumption DEF Start
<1>3. order' \in Seq(Components)
  <2>1. Cardinality(Components) \in Nat
      BY CostAssumption, FS_CardinalityType
  <2>2. order' \in [1..Cardinality(Components) -> Components]
      BY DEF Start, Orders
  <2> QED BY <2>1, <2>2
<1>4. TypeOK'
    BY <1>1, <1>2, <1>3, OriginalCostsAreWhole DEF TypeOK, EmptyPartition
<1>5. RemainingIsSound'
  <2> SUFFICES ASSUME NEW o \in Operators
               PROVE  IsFit(OriginalCosts[o]) /\ IsCurrent(OriginalCosts[o])
      BY <1>1 DEF RemainingIsSound
  <2> QED BY OriginalCostsAreWhole, CostAssumption DEF IsFit
<1>6. PartitionLeavesRoom'
  <2> SUFFICES ASSUME NEW e \in Steps
               PROVE  /\ e[1] \in EmptyPartition.alive
                      /\ EmptyPartition.sum[e[1]] <= EmptyPartition.sum[e[3]] + Cost[e[2]] - LeftAt(e[2], e[1])' - Charged(e[2], e[1])'
      BY <1>1 DEF PartitionLeavesRoom
  <2>1. e[1] \in States /\ e[2] \in Operators /\ e[3] \in States
      BY StepParts
  <2>2. LeftAt(e[2], e[1])' = Cost[e[2]] /\ Charged(e[2], e[1])' = 0 /\ Cost[e[2]] \in Nat
      BY <1>1, <2>1, OriginalCostsAreWhole, CostAssumption DEF LeftAt, Charged
  <2> QED BY <2>1, <2>2 DEF EmptyPartition
<1> QED BY <1>1, <1>4, <1>5, <1>6 DEF CostInvariant

LEMMA RoomIsInteger ==
    ASSUME CostInvariant, NEW o \in Operators, NEW s \in States
    PROVE  LeftAt(o, s) \in Nat /\ Charged(o, s) \in Nat /\ Cost[o] \in Nat
BY CostAssumption, LeftIsBounded, BaseIsBounded, ChargedIsNatural DEF CostInvariant, TypeOK

\* A step may move what is left of a cost to what is charged of it, or give it up.
LEMMA RoomIsKept ==
    ASSUME CostInvariant, partition' = partition,
           \A o \in Operators : \A s \in States :
               /\ LeftAt(o, s)' \in Int /\ Charged(o, s)' \in Int
               /\ LeftAt(o, s)' + Charged(o, s)' <= LeftAt(o, s) + Charged(o, s)
    PROVE  PartitionLeavesRoom'
<1> SUFFICES ASSUME NEW e \in Steps, e[3] \in partition.alive
             PROVE  /\ e[1] \in partition.alive
                    /\ partition.sum[e[1]] <= partition.sum[e[3]] + Cost[e[2]] - LeftAt(e[2], e[1])' - Charged(e[2], e[1])'
    BY DEF PartitionLeavesRoom
<1>1. e[1] \in States /\ e[2] \in Operators /\ e[3] \in States
    BY StepParts
<1>2. /\ LeftAt(e[2], e[1])' \in Int /\ Charged(e[2], e[1])' \in Int
      /\ LeftAt(e[2], e[1])' + Charged(e[2], e[1])' <= LeftAt(e[2], e[1]) + Charged(e[2], e[1])
    BY <1>1
<1>3. LeftAt(e[2], e[1]) \in Nat /\ Charged(e[2], e[1]) \in Nat /\ Cost[e[2]] \in Nat
    BY <1>1, RoomIsInteger
<1>4. /\ e[1] \in partition.alive
      /\ partition.sum[e[1]] <= partition.sum[e[3]] + Cost[e[2]] - LeftAt(e[2], e[1]) - Charged(e[2], e[1])
    BY DEF CostInvariant, PartitionLeavesRoom
<1>5. partition.sum[e[1]] \in Nat /\ partition.sum[e[3]] \in Nat
    BY <1>4 DEF CostInvariant, TypeOK
<1> QED BY <1>2, <1>3, <1>4, <1>5

\* A step that leaves the costs and the partition alone, and nothing pending.
LEMMA QuietStepKeeps ==
    ASSUME CostInvariant, TypeOK', remaining' = remaining, partition' = partition, phase' # "reduce"
    PROVE  CostInvariant'
<1>1. RemainingIsSound'
    BY DEF CostInvariant, RemainingIsSound
<1>2. ASSUME NEW o \in Operators, NEW s \in States
      PROVE  /\ LeftAt(o, s)' \in Int /\ Charged(o, s)' \in Int
             /\ LeftAt(o, s)' + Charged(o, s)' <= LeftAt(o, s) + Charged(o, s)
  <2>1. LeftAt(o, s)' = LeftAt(o, s) /\ Charged(o, s)' = 0
      BY DEF LeftAt, Charged
  <2> QED BY <2>1, RoomIsInteger
<1>3. PartitionLeavesRoom'
    BY <1>2, RoomIsKept
<1> QED BY <1>1, <1>3 DEF CostInvariant

LEMMA QuietStepsKeep ==
    CostInvariant /\ (InitialDeadEnd \/ SkipPass \/ FinishOrder \/ Retain) => CostInvariant'
<1>1. ASSUME CostInvariant, InitialDeadEnd PROVE CostInvariant'
  <2>1. TypeOK'
      BY <1>1 DEF CostInvariant, TypeOK, InitialDeadEnd, building
  <2> QED BY <1>1, <2>1, QuietStepKeeps DEF InitialDeadEnd, building
<1>2. ASSUME CostInvariant, SkipPass PROVE CostInvariant'
  <2>1. order' \in Seq(Components)
      BY <1>2, NextPassTypes DEF CostInvariant, TypeOK, SkipPass
  <2>2. TypeOK'
      BY <1>2, <2>1 DEF CostInvariant, TypeOK, SkipPass
  <2> QED BY <1>2, <2>2, QuietStepKeeps DEF SkipPass
<1>3. ASSUME CostInvariant, FinishOrder PROVE CostInvariant'
  <2>1. TypeOK'
      BY <1>3 DEF CostInvariant, TypeOK, FinishOrder
  <2> QED BY <1>3, <2>1, QuietStepKeeps DEF FinishOrder
<1>4. ASSUME CostInvariant, Retain PROVE CostInvariant'
  <2>1. phase' \in {"start", "done"}
      BY <1>4 DEF Retain
  <2>2. TypeOK'
      BY <1>4, <2>1 DEF CostInvariant, TypeOK, Retain, building
  <2> QED BY <1>4, <2>1, <2>2, QuietStepKeeps DEF Retain, building
<1> QED BY <1>1, <1>2, <1>3, <1>4

LEMMA SaturationIsSound ==
    ASSUME remaining \in [Operators -> RemainingType], RemainingIsSound,
           NEW c \in Components, NEW perimeter
    PROVE  /\ IsSaturation(Saturation(c, perimeter))
           /\ TableIsCharged(Saturation(c, perimeter))
           /\ ChargesFit(Saturation(c, perimeter))
           /\ NothingIsCharged(Saturation(c, perimeter))
           /\ TableIsZeroAtGoals(Saturation(c, perimeter))
<1>1. CASE UsesRegions(c)
    BY <1>1, RegionSaturationIsSound DEF Saturation
<1>2. CASE ~ UsesRegions(c)
    BY <1>2, LabelSaturationIsSound DEF Saturation
<1> QED BY <1>1, <1>2

\* Looking the costs up changes none of them.
LEMMA LookupKeepsCosts ==
    ASSUME remaining \in [Operators -> RemainingType], RemainingIsSound,
           \/ remaining' = remaining
           \/ remaining' = [o \in Operators |-> [remaining[o] EXCEPT !.cached = UniformCost(o)]]
    PROVE  /\ remaining' \in [Operators -> RemainingType]
           /\ RemainingIsSound'
           /\ \A o \in Operators : /\ remaining'[o].base = remaining[o].base
                                  /\ \A s \in States : LeftAt(o, s)' = LeftAt(o, s)
<1>1. CASE remaining' = remaining
    BY <1>1 DEF RemainingIsSound, LeftAt
<1>2. CASE remaining' = [o \in Operators |-> [remaining[o] EXCEPT !.cached = UniformCost(o)]]
  <2>1. ASSUME NEW o \in Operators
        PROVE  /\ remaining'[o] \in RemainingType
               /\ IsFit(remaining'[o]) /\ IsCurrent(remaining'[o])
               /\ remaining'[o].base = remaining[o].base
               /\ \A s \in States : LeftAt(o, s)' = LeftAt(o, s)
    <3> DEFINE r == remaining[o]
               v == UniformCost(o)
               q == [r EXCEPT !.cached = v]
    <3>1. remaining'[o] = q
        BY <1>2
    <3>2. r \in RemainingType /\ IsFit(r)
        BY DEF RemainingIsSound
    <3>3. v = r.base - UsedOn(r, States) /\ v \in 0..r.base /\ r.base \in Nat
        BY UniformCostIsLeft, BaseIsBounded
    <3>4. \A s : LeftAt(o, s)' = LeftOf(remaining'[o], s) /\ LeftAt(o, s) = LeftOf(r, s)
        BY DEF LeftAt
    <3> HIDE DEF r, v
    <3>5. /\ q.base = r.base /\ q.cached = v /\ q \in RemainingType
          /\ \A s : LeftOf(q, s) = LeftOf(r, s)
          /\ UsedOn(q, States) = UsedOn(r, States)
        BY <3>2, <3>3, LookedUp
    <3> HIDE DEF q
    <3>6. IsFit(q) /\ IsCurrent(q)
        BY <3>2, <3>3, <3>5 DEF IsFit, IsCurrent
    <3> QED BY <3>1, <3>4, <3>5, <3>6 DEF r
  <2>2. remaining' = [o \in Operators |-> remaining'[o]]
      BY <1>2
  <2>3. remaining' \in [Operators -> RemainingType]
      BY <2>1, <2>2
  <2> QED BY <2>1, <2>3 DEF RemainingIsSound
<1> QED BY <1>1, <1>2

LEMMA SaturateKeeps == CostInvariant /\ Saturate => CostInvariant'
<1> SUFFICES ASSUME CostInvariant, Saturate PROVE CostInvariant'
    OBVIOUS
<1> DEFINE c == Head(order)
           perimeter == Head(passes)
           sat == Saturation(c, perimeter)
           skipped == ~ options.diversify /\ IsZeroAtEvaluated(sat)
<1>1. /\ phase = "saturate" /\ order # <<>>
      /\ \/ remaining' = remaining
         \/ remaining' = [o \in Operators |-> [remaining[o] EXCEPT !.cached = UniformCost(o)]]
      /\ saturation' = IF skipped THEN NoSaturation ELSE sat
      /\ phase' = IF skipped THEN "saturate" ELSE "reduce"
      /\ IF skipped THEN NextComponent ELSE UNCHANGED <<order, passes>>
      /\ UNCHANGED <<options, evaluated, partition, retained>>
    BY DEF Saturate
<1>2. c \in Components
    BY <1>1, OrderTypes DEF CostInvariant, TypeOK
<1>3. remaining \in [Operators -> RemainingType] /\ RemainingIsSound
    BY DEF CostInvariant, TypeOK
<1> HIDE DEF c, perimeter
<1>4. IsSaturation(sat) /\ TableIsCharged(sat) /\ ChargesFit(sat) /\ NothingIsCharged(sat)
    BY <1>2, <1>3, SaturationIsSound
<1> HIDE DEF sat, skipped
<1>5. /\ remaining' \in [Operators -> RemainingType]
      /\ RemainingIsSound'
      /\ \A o \in Operators : /\ remaining'[o].base = remaining[o].base
                             /\ \A s \in States : LeftAt(o, s)' = LeftAt(o, s)
    BY <1>1, <1>3, LookupKeepsCosts
<1>6. order' \in Seq(Components)
    BY <1>1, NextPassTypes DEF CostInvariant, TypeOK
<1>7. phase' = "reduce" => saturation' = sat
    BY <1>1
<1>8. TypeOK'
    BY <1>1, <1>4, <1>5, <1>6, <1>7 DEF CostInvariant, TypeOK
<1>9. ASSUME NEW o \in Operators, NEW s \in States
      PROVE  /\ LeftAt(o, s)' \in Int /\ Charged(o, s)' \in Int
             /\ LeftAt(o, s)' + Charged(o, s)' <= LeftAt(o, s) + Charged(o, s)
  <2>1. LeftAt(o, s)' = LeftAt(o, s)
      BY <1>5
  <2>2. Charged(o, s)' = 0
      BY <1>4, <1>7 DEF Charged, NothingIsCharged
  <2> QED BY <2>1, <2>2, RoomIsInteger
<1>10. PartitionLeavesRoom'
    BY <1>1, <1>9, RoomIsKept
<1>11. ASSUME phase' = "reduce" PROVE TableIsCharged(saturation)' /\ ChargesFit(saturation)'
  <2>1. saturation' = sat
      BY <1>7, <1>11
  <2>2. TableIsCharged(saturation)'
      BY <1>4, <2>1 DEF TableIsCharged
  <2>3. ChargesFit(saturation)'
      BY <1>4, <1>5, <2>1 DEF ChargesFit
  <2> QED BY <2>2, <2>3
<1> QED BY <1>5, <1>8, <1>10, <1>11 DEF CostInvariant

LEMMA ReduceRegionKeeps == CostInvariant /\ ReduceRegion => CostInvariant'
<1> SUFFICES ASSUME CostInvariant, ReduceRegion PROVE CostInvariant'
    OBVIOUS
<1>1. PICK o \in saturation.left :
          /\ remaining' = [remaining EXCEPT ![o] = ReducedOn(@, saturation.regional[o])]
          /\ saturation' = [saturation EXCEPT !.left = @ \ {o}]
    BY DEF ReduceRegion
<1>2. /\ phase = "reduce" /\ phase' = "reduce" /\ partition' = partition
      /\ UNCHANGED <<options, evaluated, order, passes, partition, retained>>
    BY DEF ReduceRegion
<1>3. IsSaturation(saturation) /\ TableIsCharged(saturation) /\ ChargesFit(saturation) /\ RemainingIsSound
    BY <1>2 DEF CostInvariant, TypeOK
<1>4. o \in Operators /\ remaining \in [Operators -> RemainingType]
    BY <1>1, <1>3 DEF IsSaturation, CostInvariant, TypeOK
<1> DEFINE usage == saturation.regional[o]
           r == remaining[o]
           q == ReducedOn(r, usage)
<1>5. r \in RemainingType /\ IsFit(r) /\ usage \in [States -> Nat]
    BY <1>3, <1>4 DEF IsSaturation, RemainingIsSound
<1>6. \A s \in States : usage[s] <= LeftOf(r, s)
    BY <1>1, <1>3, <1>4 DEF ChargesFit, LeftAt
<1>7. /\ remaining'[o] = q
      /\ \A x \in Operators \ {o} : remaining'[x] = remaining[x]
    BY <1>1, <1>4
<1> HIDE DEF r, usage
<1>8. /\ q \in RemainingType /\ q.base = r.base /\ IsCurrent(q)
      /\ \A s \in States : LeftOf(q, s) = LeftOf(r, s) - usage[s]
    BY <1>5, <1>6, ReducedOnRegion
<1> HIDE DEF q
<1>9. /\ saturation'.component = saturation.component /\ saturation'.distances = saturation.distances
      /\ saturation'.uniform = saturation.uniform /\ saturation'.regional = saturation.regional
      /\ saturation'.left = saturation.left \ {o}
    BY <1>1 DEF IsSaturation
<1>10. remaining' \in [Operators -> RemainingType]
    BY <1>1, <1>4, <1>7, <1>8
<1>11. TypeOK'
    BY <1>2, <1>3, <1>9, <1>10 DEF CostInvariant, TypeOK, IsSaturation
<1>12. \A s \in States : LeftAt(o, s) \in Nat /\ LeftOf(r, s) = LeftAt(o, s) /\ usage[s] \in Nat
    BY <1>4, <1>5, RoomIsInteger DEF LeftAt, r
<1>13. \A s \in States : LeftAt(o, s)' = LeftAt(o, s) - usage[s]
    BY <1>7, <1>8, <1>12 DEF LeftAt
<1>14. \A x \in Operators \ {o} : \A s \in States : LeftAt(x, s)' = LeftAt(x, s)
    BY <1>7 DEF LeftAt
<1>15. RemainingIsSound'
  <2>1. IsFit(q)
      BY <1>6, <1>8, <1>12 DEF IsFit
  <2> QED BY <1>3, <1>7, <1>8, <2>1 DEF RemainingIsSound
<1>16. ASSUME NEW x \in Operators, NEW s \in States
       PROVE  /\ LeftAt(x, s)' \in Int /\ Charged(x, s)' \in Int
              /\ LeftAt(x, s)' + Charged(x, s)' <= LeftAt(x, s) + Charged(x, s)
  <2>1. CASE x = o
    <3>1. Charged(x, s)' = usage[s] /\ Charged(x, s) = 0
        BY <1>1, <1>2, <1>9, <2>1 DEF Charged, usage
    <3> QED BY <1>12, <1>13, <2>1, <3>1
  <2>2. CASE x # o
    <3>1. Charged(x, s)' = Charged(x, s)
        BY <1>2, <1>9, <2>2 DEF Charged
    <3> QED BY <1>14, <2>2, <3>1, RoomIsInteger
  <2> QED BY <2>1, <2>2
<1>17. PartitionLeavesRoom'
    BY <1>2, <1>16, RoomIsKept
<1>18. TableIsCharged(saturation)'
    BY <1>3, <1>9 DEF TableIsCharged
<1>19. ChargesFit(saturation)'
  <2> SUFFICES ASSUME NEW x \in Operators
               PROVE  /\ saturation.uniform[x] <= remaining'[x].base
                      /\ saturation.uniform[x] = 0
                      /\ \A s \in States :
                            /\ saturation.uniform[x] <= LeftAt(x, s)'
                            /\ x \in saturation.left \ {o} => saturation.regional[x][s] <= LeftAt(x, s)'
      BY <1>9 DEF ChargesFit
  <2>1. saturation.uniform[x] = 0
      BY <1>1, <1>3 DEF ChargesFit
  <2>2. remaining'[x].base \in Nat
      BY <1>10, CostAssumption DEF RemainingType
  <2>3. \A s \in States : LeftAt(x, s)' >= 0
      BY <1>15 DEF RemainingIsSound, IsFit, LeftAt
  <2>4. \A s \in States : x \in saturation.left \ {o} => saturation.regional[x][s] <= LeftAt(x, s)'
      BY <1>3, <1>14 DEF ChargesFit
  <2> QED BY <2>1, <2>2, <2>3, <2>4
<1> QED BY <1>11, <1>15, <1>17, <1>18, <1>19 DEF CostInvariant

LEMMA AddTableKeeps == CostInvariant /\ AddTable => CostInvariant'
<1> SUFFICES ASSUME CostInvariant, AddTable PROVE CostInvariant'
    OBVIOUS
<1> DEFINE c == saturation.component
           d == saturation.distances
           uniform == saturation.uniform
           regional == saturation.regional
<1>1. /\ phase = "reduce" /\ saturation.left = {} /\ phase' = "saturate"
      /\ remaining' = [o \in Operators |-> IF uniform[o] > 0 THEN ReducedBy(remaining[o], uniform[o]) ELSE remaining[o]]
      /\ partition' = WithTable(partition, c, d)
      /\ NextPass
      /\ UNCHANGED <<options, evaluated, retained>>
    BY DEF AddTable
<1>2. IsSaturation(saturation) /\ TableIsCharged(saturation) /\ ChargesFit(saturation) /\ RemainingIsSound
    BY <1>1 DEF CostInvariant, TypeOK
<1>3. /\ c \in Components /\ d \in [DOMAIN d -> Nat]
      /\ uniform \in [Operators -> Nat] /\ regional \in [Operators -> [States -> Nat]]
      /\ remaining \in [Operators -> RemainingType]
    BY <1>2 DEF IsSaturation, CostInvariant, TypeOK
<1>4. IsCharged(c, d, uniform, regional)
    BY <1>2 DEF TableIsCharged
<1>5. \A o \in Operators : \A s \in States : Charged(o, s) = regional[o][s]
    BY <1>1 DEF Charged
<1>6. ASSUME NEW o \in Operators
      PROVE  /\ remaining'[o] \in RemainingType
             /\ IsFit(remaining'[o]) /\ IsCurrent(remaining'[o])
             /\ \A s \in States : LeftAt(o, s)' = LeftAt(o, s) - uniform[o]
  <2> DEFINE r == remaining[o]
  <2>1. r \in RemainingType /\ IsFit(r) /\ IsCurrent(r) /\ uniform[o] \in Nat
      BY <1>2, <1>3 DEF RemainingIsSound
  <2>2. uniform[o] <= r.base /\ \A s \in States : uniform[o] <= LeftOf(r, s)
      BY <1>2 DEF ChargesFit, LeftAt
  <2>3. \A s \in States : LeftOf(r, s) \in Nat /\ LeftOf(r, s) = LeftAt(o, s) /\ LeftAt(o, s)' = LeftOf(remaining'[o], s)
      BY RoomIsInteger DEF LeftAt
  <2>4. CASE uniform[o] > 0
    <3> DEFINE q == ReducedBy(r, uniform[o])
    <3>1. remaining'[o] = q
        BY <1>1, <2>4
    <3> HIDE DEF r, uniform
    <3>2. q \in RemainingType /\ IsCurrent(q) /\ \A s \in States : LeftOf(q, s) = LeftOf(r, s) - uniform[o]
        BY <2>1, <2>2, <2>4, ReducedEverywhere
    <3> HIDE DEF q
    <3>3. IsFit(q)
        BY <2>1, <2>2, <2>3, <3>2 DEF IsFit
    <3> QED BY <2>3, <3>1, <3>2, <3>3
  <2>5. CASE ~ (uniform[o] > 0)
    <3>1. remaining'[o] = r
        BY <1>1, <2>5
    <3>2. uniform[o] = 0
        BY <2>1, <2>5
    <3> HIDE DEF r, uniform
    <3> QED BY <2>1, <2>3, <3>1, <3>2
  <2> QED BY <2>4, <2>5
<1>7. remaining' \in [Operators -> RemainingType] /\ RemainingIsSound'
  <2>1. remaining' = [o \in Operators |-> remaining'[o]]
      BY <1>1
  <2> QED BY <1>6, <2>1 DEF RemainingIsSound
<1> HIDE DEF c, d, uniform, regional
<1>8. /\ partition'.alive = {s \in partition.alive : IsAlive(c, d, s)}
      /\ partition'.sum = [s \in partition'.alive |-> partition.sum[s] + TableValue(c, d, s)]
    BY <1>1 DEF WithTable
<1>9. partition.alive \subseteq States /\ partition.sum \in [partition.alive -> Nat]
    BY DEF CostInvariant, TypeOK
<1>10. \A s : IsAlive(c, d, s) => TableValue(c, d, s) \in Nat
    BY <1>3 DEF IsAlive, TableValue
<1>11. order' \in Seq(Components)
    BY <1>1, NextPassTypes DEF CostInvariant, TypeOK
<1>12. partition'.alive \subseteq States /\ partition'.sum \in [partition'.alive -> Nat]
    BY <1>8, <1>9, <1>10
<1>13. TypeOK'
    BY <1>1, <1>7, <1>11, <1>12 DEF CostInvariant, TypeOK
<1>14. PartitionLeavesRoom'
  <2> SUFFICES ASSUME NEW e \in Steps, e[3] \in partition'.alive
               PROVE  /\ e[1] \in partition'.alive
                      /\ partition'.sum[e[1]] <= partition'.sum[e[3]] + Cost[e[2]] - LeftAt(e[2], e[1])' - Charged(e[2], e[1])'
      BY DEF PartitionLeavesRoom
  <2>1. e[1] \in States /\ e[2] \in Operators /\ e[3] \in States
      BY StepParts
  <2>2. e[3] \in partition.alive /\ IsAlive(c, d, e[3])
      BY <1>8
  <2>3. /\ e[1] \in partition.alive
        /\ partition.sum[e[1]] <= partition.sum[e[3]] + Cost[e[2]] - LeftAt(e[2], e[1]) - Charged(e[2], e[1])
      BY <2>2 DEF CostInvariant, PartitionLeavesRoom
  <2>4. /\ IsAlive(c, d, e[1])
        /\ TableValue(c, d, e[1]) <= TableValue(c, d, e[3]) + uniform[e[2]] + regional[e[2]][e[1]]
      BY <1>4, <2>2 DEF IsCharged
  <2>5. e[1] \in partition'.alive
      BY <1>8, <2>3, <2>4
  <2>6. /\ partition'.sum[e[1]] = partition.sum[e[1]] + TableValue(c, d, e[1])
        /\ partition'.sum[e[3]] = partition.sum[e[3]] + TableValue(c, d, e[3])
      BY <1>8, <2>5
  <2>7. LeftAt(e[2], e[1])' = LeftAt(e[2], e[1]) - uniform[e[2]]
      BY <1>6, <2>1
  <2>8. Charged(e[2], e[1])' = 0 /\ Charged(e[2], e[1]) = regional[e[2]][e[1]]
      BY <1>1, <1>5, <2>1 DEF Charged
  <2>9. /\ partition.sum[e[1]] \in Nat /\ partition.sum[e[3]] \in Nat
        /\ TableValue(c, d, e[1]) \in Nat /\ TableValue(c, d, e[3]) \in Nat
        /\ uniform[e[2]] \in Nat /\ regional[e[2]][e[1]] \in Nat
        /\ LeftAt(e[2], e[1]) \in Nat /\ Cost[e[2]] \in Nat
      BY <1>3, <1>9, <1>10, <2>1, <2>2, <2>3, <2>4, RoomIsInteger
  <2> QED BY <2>3, <2>4, <2>5, <2>6, <2>7, <2>8, <2>9
<1> QED BY <1>1, <1>7, <1>13, <1>14 DEF CostInvariant

LEMMA CostStepKeeps == CostInvariant /\ [Next]_vars => CostInvariant'
<1> SUFFICES ASSUME CostInvariant, [Next]_vars PROVE CostInvariant'
    OBVIOUS
<1>1. CASE Start
    BY <1>1, StartKeeps
<1>2. CASE InitialDeadEnd \/ SkipPass \/ FinishOrder \/ Retain
    BY <1>2, QuietStepsKeep
<1>3. CASE Saturate
    BY <1>3, SaturateKeeps
<1>4. CASE ReduceRegion
    BY <1>4, ReduceRegionKeeps
<1>5. CASE AddTable
    BY <1>5, AddTableKeeps
<1>6. CASE Stopped \/ UNCHANGED vars
  <2>1. /\ options' = options /\ phase' = phase /\ evaluated' = evaluated /\ order' = order
        /\ remaining' = remaining /\ saturation' = saturation /\ partition' = partition
      BY <1>6 DEF Stopped, vars, building
  <2> QED BY <2>1 DEF CostInvariant, TypeOK, RemainingIsSound, PartitionLeavesRoom, Charged, LeftAt,
                      TableIsCharged, ChargesFit
<1> QED BY <1>1, <1>2, <1>3, <1>4, <1>5, <1>6 DEF Next

LEMMA CostInvariantAlways == Spec => []CostInvariant
BY InvariantHoldsInitially, CostStepKeeps, PTL DEF Spec

-----------------------------------------------------------------------------
(* What follows *)

LEMMA InvariantImpliesConsistency == CostInvariant => PartitionIsConsistent
<1> SUFFICES ASSUME CostInvariant, NEW e \in Steps, e[3] \in partition.alive
             PROVE  /\ e[1] \in partition.alive
                    /\ partition.sum[e[1]] <= partition.sum[e[3]] + Cost[e[2]] - LeftAt(e[2], e[1])
    BY DEF PartitionIsConsistent
<1>1. e[1] \in States /\ e[2] \in Operators /\ e[3] \in States
    BY StepParts
<1>2. /\ e[1] \in partition.alive
      /\ partition.sum[e[1]] <= partition.sum[e[3]] + Cost[e[2]] - LeftAt(e[2], e[1]) - Charged(e[2], e[1])
    BY DEF CostInvariant, PartitionLeavesRoom
<1>3. partition.sum[e[1]] \in Nat /\ partition.sum[e[3]] \in Nat
    BY <1>2 DEF CostInvariant, TypeOK
<1> QED BY <1>1, <1>2, <1>3, RoomIsInteger

LEMMA InvariantImpliesFit == CostInvariant => AllocationsFit
<1> SUFFICES ASSUME CostInvariant PROVE AllocationsFit
    OBVIOUS
<1>1. \A o \in Operators : \A s \in States : LeftAt(o, s) >= 0
    BY RoomIsInteger
<1>2. ASSUME phase = "reduce", NEW o \in Operators
      PROVE  saturation.uniform[o] <= remaining[o].base
    BY <1>2 DEF CostInvariant, ChargesFit
<1>3. ASSUME phase = "reduce", NEW o \in saturation.left
      PROVE  ReductionFits(o)
  <2> DEFINE r == remaining[o]
             usage == saturation.regional[o]
  <2>1. o \in Operators /\ r \in RemainingType /\ usage \in [States -> Nat]
      BY <1>3 DEF CostInvariant, TypeOK, IsSaturation
  <2>2. r.base \in Nat /\ r.used \in [States -> Nat]
      BY <2>1, CostAssumption DEF RemainingType
  <2>3. \A s \in States : usage[s] <= LeftOf(r, s)
      BY <1>3, <2>1 DEF CostInvariant, ChargesFit, LeftAt
  <2> HIDE DEF r, usage
  <2>4. ASSUME NEW s \in Covered(usage)
        PROVE  IF IsFull(r, usage) THEN UsedOn(r, {s}) = 0 ELSE UsedOn(r, {s}) + usage[s] <= r.base
    <3>1. s \in States /\ usage[s] > 0 /\ usage[s] \in Nat
        BY <2>1, <2>4 DEF Covered
    <3>2. s \notin r.full /\ usage[s] <= r.base - r.used[s] /\ r.used[s] \in Nat
        BY <2>2, <2>3, <3>1 DEF LeftOf
    <3>3. UsedOn(r, {s}) = r.used[s]
        BY <2>1, <3>1, <3>2, UsedAtState
    <3>4. IsFull(r, usage) => usage[s] >= r.base
        BY <2>4 DEF IsFull
    <3> QED BY <2>2, <3>1, <3>2, <3>3, <3>4
  <2> QED BY <2>4 DEF ReductionFits, r, usage
<1> QED BY <1>1, <1>2, <1>3 DEF AllocationsFit

LEMMA InitialDeadEndIsConsistent == InitialDeadEnd => EstimatesAreConsistent'
<1> SUFFICES ASSUME InitialDeadEnd PROVE EstimatesAreConsistent'
    OBVIOUS
<1>1. PICK c \in InitialDeadEnds : retained' = {WithTable(EmptyPartition, c, StandaloneDistances(c))}
    BY DEF InitialDeadEnd
<1>2. c \in Components
    BY DEF InitialDeadEnds
<1> DEFINE costs == [tr \in Transitions(c) |-> Min({Cost[o] : o \in Labels(tr)})]
           d == StandaloneDistances(c)
           p == WithTable(EmptyPartition, c, d)
           regional == [o \in Operators |-> Unused]
<1>3. \A o \in Operators : Cost[o] \in 0..MaxCost /\ Cost[o] \in Nat
    BY CostAssumption
<1>4. ASSUME NEW tr \in Transitions(c)
      PROVE  costs[tr] \in 0..MaxCost /\ \A o \in Labels(tr) : costs[tr] <= Cost[o]
    BY <1>2, <1>3, CheapestLabel
<1>5. costs \in [Transitions(c) -> 0..MaxCost] /\ costs \in [Transitions(c) -> Nat]
    BY <1>4, CostAssumption
<1>6. d = GoalDistancesOf(c, costs)
    BY DEF StandaloneDistances
<1> HIDE DEF costs, d
<1>7. d \in [DOMAIN d -> Nat] /\ IsSettled(c, costs, d)
    BY <1>2, <1>5, <1>6, DistanceAssumption
<1>8. regional \in [Operators -> [States -> Nat]] /\ \A o \in Operators : \A s \in States : regional[o][s] = 0
    BY DEF Unused
<1>9. Cost \in [Operators -> Nat]
    BY <1>3, CostAssumption
<1> HIDE DEF regional
<1>10. \A tr \in Transitions(c) : \A o \in Labels(tr) : \A s \in tr.sources[o] : costs[tr] <= Cost[o] + regional[o][s]
  <2> TAKE tr \in Transitions(c)
  <2> TAKE o \in Labels(tr)
  <2> TAKE s \in tr.sources[o]
  <2>1. o \in Operators /\ s \in States
      BY <1>2, SystemAssumption
  <2>2. costs[tr] <= Cost[o] /\ regional[o][s] = 0 /\ Cost[o] \in Nat
      BY <1>4, <1>8, <1>9, <2>1
  <2> QED BY <2>2
<1>11. IsCharged(c, d, Cost, regional)
    BY <1>2, <1>5, <1>7, <1>8, <1>9, <1>10, SettledTableIsCharged
<1>12. /\ p.alive = {s \in States : IsAlive(c, d, s)}
       /\ p.sum = [s \in p.alive |-> EmptyPartition.sum[s] + TableValue(c, d, s)]
    BY DEF WithTable, EmptyPartition
<1>13. \A s : IsAlive(c, d, s) => TableValue(c, d, s) \in Nat
    BY <1>7 DEF IsAlive, TableValue
<1>14. \A s \in p.alive : p.sum[s] = TableValue(c, d, s)
    BY <1>12, <1>13 DEF EmptyPartition
<1> HIDE DEF p
<1>15. ASSUME NEW e \in Steps, e[3] \in p.alive
       PROVE  e[1] \in p.alive /\ p.sum[e[1]] <= p.sum[e[3]] + Cost[e[2]]
  <2>1. e[1] \in States /\ e[2] \in Operators /\ e[3] \in States
      BY StepParts
  <2>2. /\ IsAlive(c, d, e[3]) /\ IsAlive(c, d, e[1])
        /\ TableValue(c, d, e[1]) <= TableValue(c, d, e[3]) + Cost[e[2]] + regional[e[2]][e[1]]
      BY <1>11, <1>12, <1>15 DEF IsCharged
  <2>3. e[1] \in p.alive /\ regional[e[2]][e[1]] = 0
      BY <1>8, <1>12, <2>1, <2>2
  <2> QED BY <1>3, <1>13, <1>14, <1>15, <2>1, <2>2, <2>3
<1>16. retained' = {p}
    BY <1>1 DEF p, d
<1> QED BY <1>15, <1>16 DEF EstimatesAreConsistent

LEMMA EstimatesStayConsistent ==
    CostInvariant /\ EstimatesAreConsistent /\ [Next]_vars => EstimatesAreConsistent'
<1> SUFFICES ASSUME CostInvariant, EstimatesAreConsistent, [Next]_vars PROVE EstimatesAreConsistent'
    OBVIOUS
<1>1. CASE InitialDeadEnd
    BY <1>1, InitialDeadEndIsConsistent
<1>2. CASE Retain
  <2> SUFFICES ASSUME NEW p \in retained', NEW e \in Steps, e[3] \in p.alive
               PROVE  e[1] \in p.alive /\ p.sum[e[1]] <= p.sum[e[3]] + Cost[e[2]]
      BY DEF EstimatesAreConsistent
  <2>1. CASE p \in retained
      BY <2>1 DEF EstimatesAreConsistent
  <2>2. CASE p = partition
    <3>1. e[1] \in States /\ e[2] \in Operators /\ e[3] \in States
        BY StepParts
    <3>2. /\ e[1] \in partition.alive
          /\ partition.sum[e[1]] <= partition.sum[e[3]] + Cost[e[2]] - LeftAt(e[2], e[1])
        BY <2>2, InvariantImpliesConsistency DEF PartitionIsConsistent
    <3>3. partition.sum[e[1]] \in Nat /\ partition.sum[e[3]] \in Nat
        BY <2>2, <3>2 DEF CostInvariant, TypeOK
    <3> QED BY <2>2, <3>1, <3>2, <3>3, RoomIsInteger
  <2> QED BY <1>2, <2>1, <2>2 DEF Retain
<1>3. CASE retained' = retained
    BY <1>3 DEF EstimatesAreConsistent
<1>4. Start \/ SkipPass \/ Saturate \/ ReduceRegion \/ AddTable \/ FinishOrder \/ Stopped \/ UNCHANGED vars
          => retained' = retained
    BY DEF Start, SkipPass, Saturate, ReduceRegion, AddTable, FinishOrder, Stopped, vars
<1> QED BY <1>1, <1>2, <1>3, <1>4 DEF Next

\* RemainingCosts, CostPartitioningHeuristic: the types of the construction's state.
THEOREM CostTypesAreCorrect == Spec => []TypeOK
<1>1. CostInvariant => TypeOK
    BY DEF CostInvariant
<1> QED BY <1>1, CostInvariantAlways, PTL

\* build_cp: whatever mix of label and regional saturation a partitioning is built of,
\* and whenever its construction ends, its estimate drops along a step by no more than
\* the part of the step's cost that the tables were charged.
THEOREM PartitionsAreConsistent == Spec => []PartitionIsConsistent
BY CostInvariantAlways, InvariantImpliesConsistency, PTL

\* reduce_by_source_set_allocation_with_deadline, reduce_operator_costs_uniform,
\* cost_left: none of their checks fails.
THEOREM AllocationsAlwaysFit == Spec => []AllocationsFit
BY CostInvariantAlways, InvariantImpliesFit, PTL

\* compute_max_h: every retained partitioning's estimate is consistent, so their maximum
\* is: along a step it drops by no more than the step costs.
THEOREM EstimatesAreConsistentAlways == Spec => []EstimatesAreConsistent
<1>1. Init => EstimatesAreConsistent
    BY DEF Init, EstimatesAreConsistent
<1> QED BY <1>1, EstimatesStayConsistent, CostInvariantAlways, PTL DEF Spec

-----------------------------------------------------------------------------
(* Admissible estimates: goal states are estimated at zero, and a consistent *)
(* estimate that is zero there is at most what any plan costs.               *)

IsZeroAtGoals(p) == \A s \in Goals : s \in p.alive /\ p.sum[s] = 0

GoalInvariant ==
    /\ IsZeroAtGoals(partition)
    /\ \A p \in retained : IsZeroAtGoals(p)
    /\ phase = "reduce" => TableIsZeroAtGoals(saturation)

LEMMA GoalParts ==
    ASSUME NEW c \in Components, NEW s \in Goals
    PROVE  s \in States /\ (s \in Known(c) => At(c, s) \in System[c].seeds)
BY CostAssumption, SystemAssumption

LEMMA TableKeepsGoals ==
    ASSUME NEW c \in Components, NEW d, SeedsAreFree(c, d), NEW p, IsZeroAtGoals(p)
    PROVE  IsZeroAtGoals(WithTable(p, c, d))
<1> SUFFICES ASSUME NEW s \in Goals
             PROVE  s \in WithTable(p, c, d).alive /\ WithTable(p, c, d).sum[s] = 0
    BY DEF IsZeroAtGoals
<1>1. s \in p.alive /\ p.sum[s] = 0
    BY DEF IsZeroAtGoals
<1>2. IsAlive(c, d, s) /\ TableValue(c, d, s) = 0
    BY GoalParts DEF IsAlive, TableValue, SeedsAreFree
<1> QED BY <1>1, <1>2 DEF WithTable

LEMMA EmptyIsZeroAtGoals == IsZeroAtGoals(EmptyPartition)
BY CostAssumption DEF IsZeroAtGoals, EmptyPartition

LEMMA StandaloneIsZeroAtGoals ==
    ASSUME NEW c \in Components
    PROVE  SeedsAreFree(c, StandaloneDistances(c))
<1> DEFINE costs == [tr \in Transitions(c) |-> Min({Cost[o] : o \in Labels(tr)})]
<1>1. \A o \in Operators : Cost[o] \in 0..MaxCost
    BY CostAssumption
<1>2. \A tr \in Transitions(c) : costs[tr] \in 0..MaxCost
    BY <1>1, CheapestLabel
<1>3. costs \in [Transitions(c) -> 0..MaxCost]
    BY <1>2
<1>4. StandaloneDistances(c) = GoalDistancesOf(c, costs)
    BY DEF StandaloneDistances
<1> HIDE DEF costs
<1> QED BY <1>3, <1>4, DistanceAssumption DEF SeedsAreFree, IsSettled

LEMMA GoalStepKeeps == CostInvariant /\ GoalInvariant /\ [Next]_vars => GoalInvariant'
<1> SUFFICES ASSUME CostInvariant, GoalInvariant, [Next]_vars PROVE GoalInvariant'
    OBVIOUS
<1>1. CASE InitialDeadEnd
  <2>1. PICK c \in InitialDeadEnds : retained' = {WithTable(EmptyPartition, c, StandaloneDistances(c))}
      BY <1>1 DEF InitialDeadEnd
  <2>2. c \in Components
      BY DEF InitialDeadEnds
  <2>3. IsZeroAtGoals(WithTable(EmptyPartition, c, StandaloneDistances(c)))
      BY <2>2, TableKeepsGoals, EmptyIsZeroAtGoals, StandaloneIsZeroAtGoals
  <2>4. phase' = "done" /\ partition' = partition
      BY <1>1 DEF InitialDeadEnd, building
  <2> QED BY <2>1, <2>3, <2>4 DEF GoalInvariant
<1>2. CASE Start
    BY <1>2, EmptyIsZeroAtGoals DEF Start, GoalInvariant
<1>3. CASE Saturate
  <2> DEFINE c == Head(order)
             sat == Saturation(c, Head(passes))
  <2>1. phase' = "reduce" => saturation' = sat
      BY <1>3 DEF Saturate
  <2>2. c \in Components /\ remaining \in [Operators -> RemainingType] /\ RemainingIsSound
      BY <1>3, OrderTypes DEF Saturate, CostInvariant, TypeOK
  <2>3. TableIsZeroAtGoals(sat)
      BY <2>2, SaturationIsSound
  <2>4. UNCHANGED <<partition, retained>>
      BY <1>3 DEF Saturate
  <2> HIDE DEF sat
  <2> QED BY <2>1, <2>3, <2>4 DEF GoalInvariant, TableIsZeroAtGoals
<1>4. CASE ReduceRegion
  <2>1. /\ phase = "reduce" /\ UNCHANGED <<phase, partition, retained>>
        /\ saturation'.component = saturation.component /\ saturation'.distances = saturation.distances
      BY <1>4 DEF ReduceRegion, CostInvariant, TypeOK, IsSaturation
  <2> QED BY <2>1 DEF GoalInvariant, TableIsZeroAtGoals
<1>5. CASE AddTable
  <2>1. /\ phase = "reduce" /\ phase' = "saturate" /\ retained' = retained
        /\ partition' = WithTable(partition, saturation.component, saturation.distances)
        /\ saturation.component \in Components
      BY <1>5 DEF AddTable, CostInvariant, TypeOK, IsSaturation
  <2>2. IsZeroAtGoals(partition')
      BY <2>1, TableKeepsGoals DEF GoalInvariant, TableIsZeroAtGoals
  <2> QED BY <2>1, <2>2 DEF GoalInvariant
<1>6. CASE SkipPass \/ FinishOrder
  <2>1. phase' # "reduce" /\ UNCHANGED <<partition, retained>>
      BY <1>6 DEF SkipPass, FinishOrder
  <2> QED BY <2>1 DEF GoalInvariant
<1>7. CASE Retain
  <2>1. phase' # "reduce" /\ partition' = partition /\ retained' \subseteq retained \cup {partition}
      BY <1>7 DEF Retain, building
  <2> QED BY <2>1 DEF GoalInvariant
<1>8. CASE Stopped \/ UNCHANGED vars
  <2>1. UNCHANGED <<phase, partition, retained, saturation>>
      BY <1>8 DEF Stopped, vars, building
  <2> QED BY <2>1 DEF GoalInvariant, TableIsZeroAtGoals
<1> QED BY <1>1, <1>2, <1>3, <1>4, <1>5, <1>6, <1>7, <1>8 DEF Next

\* What the definition of PlanCosts says of n steps, given the values f for fewer.
LongerPlans(f, n) ==
    IF n = 0 THEN {<<s, 0>> : s \in Goals}
    ELSE f[n - 1] \cup
         UNION {{<<e[1], Cost[e[2]] + k[2]>> : k \in {j \in f[n - 1] : j[1] = e[3]}} : e \in Steps}
CountsPlans(f, m) == f = [n \in 0..m |-> LongerPlans(f, n)]

LEMMA PlanCostsExist == \E f : CountsPlans(f, MaxSteps)
<1> DEFINE Good == {m \in 0..MaxSteps : \E f : CountsPlans(f, m)}
<1>1. 0 \in Good
  <2> DEFINE f == [n \in 0..0 |-> {<<s, 0>> : s \in Goals}]
  <2>1. CountsPlans(f, 0)
      BY DEF CountsPlans, LongerPlans
  <2> QED BY <2>1, MaxStepsAssumption
<1>2. ASSUME NEW m \in Good, m < MaxSteps PROVE m + 1 \in Good
  <2>1. PICK f : CountsPlans(f, m)
      OBVIOUS
  <2>2. m \in Nat /\ m + 1 \in 0..MaxSteps
      BY <1>2, MaxStepsAssumption
  <2> DEFINE g == [n \in 0..(m + 1) |-> IF n = m + 1 THEN LongerPlans(f, n) ELSE f[n]]
  <2>3. \A n \in 0..(m + 1) : LongerPlans(g, n) = LongerPlans(f, n)
    <3>1. ASSUME NEW n \in 0..(m + 1) PROVE LongerPlans(g, n) = LongerPlans(f, n)
      <4>1. CASE n = 0
          BY <4>1 DEF LongerPlans
      <4>2. CASE n # 0
        <5>1. n - 1 \in 0..(m + 1) /\ n - 1 # m + 1
            BY <2>2, <4>2
        <5>2. g[n - 1] = f[n - 1]
            BY <5>1
        <5> HIDE DEF g
        <5> QED BY <4>2, <5>2 DEF LongerPlans
      <4> QED BY <4>1, <4>2
    <3> QED BY <3>1
  <2>4. \A n \in 0..(m + 1) : n # m + 1 => f[n] = LongerPlans(f, n)
    <3>1. \A n \in 0..(m + 1) : n # m + 1 => n \in 0..m
        BY <2>2
    <3> QED BY <2>1, <3>1 DEF CountsPlans
  <2>5. g = [n \in 0..(m + 1) |-> LongerPlans(f, n)]
      BY <2>4
  <2>6. CountsPlans(g, m + 1)
    <3> HIDE DEF g
    <3> QED BY <2>3, <2>5 DEF CountsPlans
  <2> QED BY <2>2, <2>6
<1>3. PICK m \in Good : \A n \in Good : m >= n
  <2>1. Good \in SUBSET (0..MaxSteps) /\ Good # {}
      BY <1>1
  <2> HIDE DEF Good
  <2> QED BY <2>1, LargestNatural, MaxStepsAssumption
<1>4. m \in 0..MaxSteps
    OBVIOUS
<1>5. m = MaxSteps
  <2> HIDE DEF Good
  <2> QED BY <1>2, <1>3, <1>4, MaxStepsAssumption
<1> QED BY <1>5

LEMMA PlanCostsParts == \A n \in 0..MaxSteps : PlanCosts[n] = LongerPlans(PlanCosts, n)
<1>1. PlanCosts = CHOOSE f : CountsPlans(f, MaxSteps)
    BY DEF PlanCosts, CountsPlans, LongerPlans
<1>2. CountsPlans(PlanCosts, MaxSteps)
  <2> HIDE DEF PlanCosts
  <2> QED BY <1>1, PlanCostsExist
<1> QED BY <1>2 DEF CountsPlans

\* A consistent estimate that is zero at the goals is at most what any plan costs.
IsBelow(p, plans) == \A k \in plans : k[2] \in Nat /\ k[1] \in p.alive /\ p.sum[k[1]] <= k[2]

LEMMA ConsistentIsAdmissible ==
    ASSUME NEW p, p.sum \in [p.alive -> Nat], IsZeroAtGoals(p),
           \A e \in Steps : e[3] \in p.alive =>
               e[1] \in p.alive /\ p.sum[e[1]] <= p.sum[e[3]] + Cost[e[2]]
    PROVE  IsBelow(p, PlanCosts[MaxSteps])
<1> DEFINE Wrong == {n \in 0..MaxSteps : ~ IsBelow(p, PlanCosts[n])}
<1>1. IsBelow(p, PlanCosts[0])
  <2>1. 0 \in 0..MaxSteps
      BY MaxStepsAssumption
  <2>2. PlanCosts[0] = LongerPlans(PlanCosts, 0)
    <3> HIDE DEF PlanCosts
    <3> QED BY <2>1, PlanCostsParts
  <2>3. PlanCosts[0] = {<<s, 0>> : s \in Goals}
    <3> HIDE DEF PlanCosts
    <3> QED BY <2>2 DEF LongerPlans
  <2> QED BY <2>3 DEF IsBelow, IsZeroAtGoals
<1>2. ASSUME NEW n \in 1..MaxSteps, IsBelow(p, PlanCosts[n - 1]) PROVE IsBelow(p, PlanCosts[n])
  <2> DEFINE shorter == PlanCosts[n - 1]
  <2>a. n \in 0..MaxSteps /\ n # 0
      BY MaxStepsAssumption
  <2>b. PlanCosts[n] = LongerPlans(PlanCosts, n)
    <3> HIDE DEF PlanCosts
    <3> QED BY <2>a, PlanCostsParts
  <2>1. PlanCosts[n] = shorter \cup
            UNION {{<<e[1], Cost[e[2]] + k[2]>> : k \in {j \in shorter : j[1] = e[3]}} : e \in Steps}
    <3> HIDE DEF PlanCosts
    <3> QED BY <2>a, <2>b DEF LongerPlans
  <2> HIDE DEF shorter
  <2>2. ASSUME NEW e \in Steps, NEW k \in shorter, k[1] = e[3]
        PROVE  /\ Cost[e[2]] + k[2] \in Nat /\ e[1] \in p.alive
               /\ p.sum[e[1]] <= Cost[e[2]] + k[2]
    <3>1. k[2] \in Nat /\ e[3] \in p.alive /\ p.sum[e[3]] <= k[2]
        BY <1>2, <2>2 DEF IsBelow, shorter
    <3>2. Cost[e[2]] \in Nat
        BY CostAssumption, StepParts
    <3>3. e[1] \in p.alive /\ p.sum[e[1]] <= p.sum[e[3]] + Cost[e[2]]
        BY <3>1
    <3>4. p.sum[e[1]] \in Nat /\ p.sum[e[3]] \in Nat
        BY <3>1, <3>3
    <3> QED BY <3>1, <3>2, <3>3, <3>4
  <2>3. \A k \in shorter : k[2] \in Nat /\ k[1] \in p.alive /\ p.sum[k[1]] <= k[2]
      BY <1>2 DEF IsBelow, shorter
  <2> QED BY <2>1, <2>2, <2>3 DEF IsBelow
<1>3. Wrong = {}
  <2> SUFFICES ASSUME Wrong # {} PROVE FALSE
      OBVIOUS
  <2>1. Wrong \in SUBSET Nat
      OBVIOUS
  <2> HIDE DEF Wrong
  <2>2. PICK m \in Wrong : \A i \in Wrong : m <= i
      BY <2>1, LeastNatural
  <2>3. m \in 0..MaxSteps /\ ~ IsBelow(p, PlanCosts[m])
      BY <2>2 DEF Wrong
  <2>3a. m # 0
      BY <1>1, <2>3
  <2>3b. m \in 0..MaxSteps
      BY <2>3
  <2>4. m \in 1..MaxSteps /\ m - 1 \in 0..MaxSteps
    <3> HIDE DEF PlanCosts
    <3> QED BY <2>3a, <2>3b, MaxStepsAssumption
  <2>5. ~ IsBelow(p, PlanCosts[m - 1])
      BY <1>2, <2>3, <2>4
  <2>6. m - 1 \in Wrong
      BY <2>4, <2>5 DEF Wrong
  <2>7. m <= m - 1
      BY <2>2, <2>6
  <2>8. m \in Int
      BY <2>4, MaxStepsAssumption
  <2> QED BY <2>7, <2>8
<1>4. MaxSteps \in 0..MaxSteps
    BY MaxStepsAssumption
<1> QED BY <1>3, <1>4

\* The estimates of a retained partitioning are numbers.
RetainedAreTables == \A p \in retained : p.sum \in [p.alive -> Nat]

LEMMA RetainedStayTables ==
    CostInvariant /\ RetainedAreTables /\ [Next]_vars => RetainedAreTables'
<1> SUFFICES ASSUME CostInvariant, RetainedAreTables, [Next]_vars PROVE RetainedAreTables'
    OBVIOUS
<1>1. CASE InitialDeadEnd
  <2>1. PICK c \in InitialDeadEnds : retained' = {WithTable(EmptyPartition, c, StandaloneDistances(c))}
      BY <1>1 DEF InitialDeadEnd
  <2> DEFINE d == StandaloneDistances(c)
             p == WithTable(EmptyPartition, c, d)
             costs == [tr \in Transitions(c) |-> Min({Cost[o] : o \in Labels(tr)})]
  <2>2. c \in Components
      BY DEF InitialDeadEnds
  <2>3. \A o \in Operators : Cost[o] \in 0..MaxCost
      BY CostAssumption
  <2>4. \A tr \in Transitions(c) : costs[tr] \in 0..MaxCost
      BY <2>2, <2>3, CheapestLabel
  <2>5. costs \in [Transitions(c) -> 0..MaxCost]
      BY <2>4
  <2>6. d = GoalDistancesOf(c, costs)
      BY DEF StandaloneDistances
  <2> HIDE DEF costs, d
  <2>7. d \in [DOMAIN d -> Nat]
      BY <2>2, <2>5, <2>6, DistanceAssumption
  <2>8. \A s \in p.alive : EmptyPartition.sum[s] + TableValue(c, d, s) \in Nat
      BY <2>7 DEF WithTable, EmptyPartition, IsAlive, TableValue
  <2>9. p.sum = [s \in p.alive |-> EmptyPartition.sum[s] + TableValue(c, d, s)]
      BY DEF WithTable
  <2>10. p.sum \in [p.alive -> Nat]
      BY <2>8, <2>9
  <2>11. retained' = {p}
      BY <2>1 DEF d
  <2> HIDE DEF p
  <2> QED BY <2>10, <2>11 DEF RetainedAreTables
<1>2. CASE Retain
    BY <1>2 DEF Retain, RetainedAreTables, CostInvariant, TypeOK
<1>3. CASE retained' = retained
    BY <1>3 DEF RetainedAreTables
<1>4. Start \/ SkipPass \/ Saturate \/ ReduceRegion \/ AddTable \/ FinishOrder \/ Stopped \/ UNCHANGED vars
          => retained' = retained
    BY DEF Start, SkipPass, Saturate, ReduceRegion, AddTable, FinishOrder, Stopped, vars
<1> QED BY <1>1, <1>2, <1>3, <1>4 DEF Next

\* compute_max_h: neither the partitioning under construction nor a retained one ever
\* calls a state with a plan a dead end, or estimates it above what the plan costs.
THEOREM EstimatesAreAdmissibleAlways == Spec => []EstimatesAreAdmissible
<1>1. Init => GoalInvariant /\ RetainedAreTables
    BY EmptyIsZeroAtGoals DEF Init, GoalInvariant, RetainedAreTables
<1>2. CostInvariant /\ GoalInvariant /\ RetainedAreTables /\ EstimatesAreConsistent
          => EstimatesAreAdmissible
  <2> SUFFICES ASSUME CostInvariant, GoalInvariant, RetainedAreTables, EstimatesAreConsistent,
                      NEW p \in retained \cup {partition}
               PROVE  IsBelow(p, PlanCosts[MaxSteps])
      BY DEF EstimatesAreAdmissible, IsBelow
  <2>1. p.sum \in [p.alive -> Nat] /\ IsZeroAtGoals(p)
      BY DEF CostInvariant, TypeOK, GoalInvariant, RetainedAreTables
  <2>2. ASSUME NEW e \in Steps, e[3] \in p.alive
        PROVE  e[1] \in p.alive /\ p.sum[e[1]] <= p.sum[e[3]] + Cost[e[2]]
    <3>1. CASE p \in retained
        BY <2>2, <3>1 DEF EstimatesAreConsistent
    <3>2. CASE p = partition
      <4>1. e[1] \in States /\ e[2] \in Operators /\ e[3] \in States
          BY StepParts
      <4>2. /\ e[1] \in partition.alive
            /\ partition.sum[e[1]] <= partition.sum[e[3]] + Cost[e[2]] - LeftAt(e[2], e[1])
          BY <2>2, <3>2, InvariantImpliesConsistency DEF PartitionIsConsistent
      <4>3. partition.sum[e[1]] \in Nat /\ partition.sum[e[3]] \in Nat
          BY <2>2, <3>2, <4>2 DEF CostInvariant, TypeOK
      <4> QED BY <3>2, <4>1, <4>2, <4>3, RoomIsInteger
    <3> QED BY <3>1, <3>2
  <2> QED BY <2>1, <2>2, ConsistentIsAdmissible
<1> QED BY <1>1, <1>2, GoalStepKeeps, RetainedStayTables, CostInvariantAlways,
           EstimatesAreConsistentAlways, PTL DEF Spec

-----------------------------------------------------------------------------
(* Goal distances *)

\* An entry is its state's distance, or one the search skips.
EntriesAreCurrent ==
    \A e \in heap : /\ e[2] \in DOMAIN distances
                    /\ e[1] = distances[e[2]] \/ e[1] > distances[e[2]] + Tolerance

\* A state whose distance is not in the heap has been relaxed.
Relaxed(s) == \A tr \in Into(s) : Settled(tr)
StatesAreRelaxed == \A s \in DOMAIN distances : <<distances[s], s>> \in heap \/ Relaxed(s)

SeedsAreTaken == \A e \in seeds : e[2] \in DOMAIN distances /\ distances[e[2]] <= e[1] + Tolerance

SearchInvariant ==
    /\ GDTypeOK
    /\ EntriesAreCurrent
    /\ StatesAreRelaxed
    /\ SeedsAreTaken
    /\ DistancesAreWitnessed
    /\ DistancesAreBounded

\* Nothing is searched: the state before a search and after it.
LEMMA EmptyInvariant ==
    ASSUME searchPhase = "idle", transitions = {}, seeds = {}, heap = {}, distances = Nothing, generating = Nothing
    PROVE  SearchInvariant
<1>1. DOMAIN distances = {} /\ DOMAIN generating = {}
      BY DEF Nothing
<1>2. GDTypeOK
  <2>1. distances \in [DOMAIN distances -> Nat] /\ generating \in [DOMAIN generating -> transitions]
        BY DEF Nothing
  <2>. QED BY <1>1, <2>1 DEF GDTypeOK
<1>. QED BY <1>1, <1>2 DEF SearchInvariant, EntriesAreCurrent, StatesAreRelaxed, SeedsAreTaken,
                            DistancesAreWitnessed, DistancesAreBounded

LEMMA BeginKeeps ==
    ASSUME Tolerance \in Nat, Begin
    PROVE  SearchInvariant'
<1>. USE DEF Begin
<1>1. /\ searchPhase' = "searching" /\ transitions' \subseteq Transition /\ seeds' \subseteq Entry
      /\ distances' \in [Seeded(seeds') -> Nat] /\ generating' = Nothing
      /\ heap' = {<<distances'[s], s>> : s \in Seeded(seeds')}
      OBVIOUS
<1>2. Seeded(seeds') \subseteq Nodes /\ DOMAIN distances' = Seeded(seeds')
      BY <1>1 DEF Seeded, Entry
<1>3. DOMAIN generating' = {}
      BY <1>1 DEF Nothing
<1>4. \A s \in DOMAIN distances' : <<distances'[s], s>> \in seeds' /\ <<distances'[s], s>> \in heap'
      BY <1>1, <1>2
<1>5. GDTypeOK'
  <2>1. generating' \in [DOMAIN generating' -> transitions']
        BY <1>1, <1>3 DEF Nothing
  <2>2. heap' \subseteq Entry
        BY <1>1, <1>2 DEF Entry
  <2>. QED BY <1>1, <1>2, <1>3, <2>1, <2>2 DEF GDTypeOK
<1>6. EntriesAreCurrent'
      BY <1>1, <1>2 DEF EntriesAreCurrent
<1>7. StatesAreRelaxed'
      BY <1>4 DEF StatesAreRelaxed
<1>8. SeedsAreTaken'
  <2>1. \A e \in seeds' : e[2] \in Seeded(seeds')
        BY DEF Seeded
  <2>. QED BY <1>2, <2>1 DEF SeedsAreTaken
<1>9. DistancesAreWitnessed'
      BY <1>4 DEF DistancesAreWitnessed
<1>10. DistancesAreBounded'
  <2>. SUFFICES ASSUME NEW f \in [Nodes -> Int], \A e \in seeds' : f[e[2]] <= e[1], NEW s \in DOMAIN distances'
                PROVE  f[s] <= distances'[s]
       BY DEF DistancesAreBounded, Consistent
  <2>. DEFINE e == <<distances'[s], s>>
  <2>1. e \in seeds' /\ e[1] = distances'[s] /\ e[2] = s
        BY <1>4
  <2>. QED BY <2>1
<1>. QED BY <1>5, <1>6, <1>7, <1>8, <1>9, <1>10 DEF SearchInvariant

-----------------------------------------------------------------------------
LEMMA SkipKeeps ==
    ASSUME Tolerance \in Nat, SearchInvariant, NEW e \in heap, Outdated(e), heap' = heap \ {e},
           UNCHANGED <<searchPhase, transitions, seeds, distances, generating>>
    PROVE  SearchInvariant'
<1>. USE DEF SearchInvariant
<1>1. GDTypeOK'
      BY DEF GDTypeOK
<1>2. EntriesAreCurrent'
      BY DEF EntriesAreCurrent
<1>3. StatesAreRelaxed'
  <2>1. ASSUME NEW s \in DOMAIN distances PROVE <<distances[s], s>> # e
        BY DEF GDTypeOK, Outdated
  <2>2. ASSUME NEW s \in DOMAIN distances, Relaxed(s) PROVE Relaxed(s)'
        BY <2>2 DEF Relaxed, Into, Settled
  <2>. QED BY <2>1, <2>2 DEF StatesAreRelaxed
<1>4. SeedsAreTaken' /\ DistancesAreWitnessed'
      BY DEF SeedsAreTaken, DistancesAreWitnessed
<1>5. DistancesAreBounded'
      BY DEF DistancesAreBounded, Consistent
<1>. QED BY <1>1, <1>2, <1>3, <1>4, <1>5

LEMMA RelaxKeeps ==
    ASSUME Tolerance \in Nat, SearchInvariant, NEW e \in heap, ~ Outdated(e),
           NEW via \in [Improvable(e) -> Into(e[2])], Relax(e, via),
           UNCHANGED <<searchPhase, transitions, seeds>>
    PROVE  SearchInvariant'
<1>. USE DEF SearchInvariant
<1>. DEFINE d == e[1]
            t == e[2]
            I == Improvable(e)
<1>1. d \in Nat /\ t \in Nodes /\ e = <<d, t>>
      BY DEF GDTypeOK, Entry
<1>2. t \in DOMAIN distances /\ distances[t] = d
      BY <1>1 DEF EntriesAreCurrent, Outdated, GDTypeOK
<1>3. /\ DOMAIN distances \subseteq Nodes /\ I \subseteq Nodes
      /\ \A s \in DOMAIN distances : distances[s] \in Nat
      BY DEF GDTypeOK, Improvable
<1>4. \A tr \in Into(t) : tr \in transitions /\ tr.target = t /\ tr.source \in Nodes /\ tr.cost \in Nat
      BY DEF Into, GDTypeOK, Transition
<1>5. ASSUME NEW s \in I
      PROVE  /\ via[s] \in Into(t) /\ via[s].source = s /\ via[s].cost \in Nat
             /\ s \in DOMAIN distances => d + via[s].cost + Tolerance < distances[s]
             /\ \A tr \in Into(t) : tr.source = s => via[s].cost <= tr.cost + Tolerance
  <2>1. Best(e, s, via[s])
        BY DEF Relax
  <2>2. via[s] \in Into(t)
        BY <2>1 DEF Best
  <2>. QED BY <1>4, <2>1, <2>2 DEF Best, Improves
<1>6. t \notin I
      BY <1>1, <1>2, <1>5
<1>7. /\ DOMAIN distances' = DOMAIN distances \cup I
      /\ \A s \in I : distances'[s] = d + via[s].cost
      /\ \A s \in DOMAIN distances \ I : distances'[s] = distances[s]
      BY DEF Relax
<1>8. /\ DOMAIN generating' = DOMAIN generating \cup I
      /\ \A s \in I : generating'[s] = via[s]
      /\ \A s \in DOMAIN generating \ I : generating'[s] = generating[s]
      BY DEF Relax
<1>9. heap' = (heap \ {e}) \cup {<<d + via[s].cost, s>> : s \in I}
      BY DEF Relax
<1>. HIDE DEF d, t, I
<1>10. \A s \in DOMAIN distances : distances'[s] \in Nat /\ distances'[s] <= distances[s]
      BY <1>1, <1>3, <1>5, <1>7
<1>11. \A s \in DOMAIN distances' : distances'[s] \in Nat
      BY <1>1, <1>3, <1>5, <1>7
<1>12. GDTypeOK'
  <2>1. distances' \in [DOMAIN distances' -> Nat]
        BY <1>11 DEF Relax
  <2>2. \A s \in DOMAIN generating' : generating'[s] \in transitions'
        BY <1>4, <1>5, <1>8 DEF GDTypeOK
  <2>3. generating' \in [DOMAIN generating' -> transitions']
        BY <2>2 DEF Relax
  <2>4. \A s \in I : d + via[s].cost \in Nat
        BY <1>1, <1>5
  <2>5. heap' \subseteq Entry
        BY <1>3, <1>9, <2>4 DEF GDTypeOK, Entry
  <2>. QED BY <1>3, <1>7, <1>8, <2>1, <2>3, <2>5 DEF GDTypeOK
<1>13. EntriesAreCurrent'
  <2>. SUFFICES ASSUME NEW x \in heap'
                PROVE  /\ x[2] \in DOMAIN distances'
                       /\ x[1] = distances'[x[2]] \/ x[1] > distances'[x[2]] + Tolerance
       BY DEF EntriesAreCurrent
  <2>1. CASE x \in heap
    <3>1. x[1] \in Nat /\ x[2] \in DOMAIN distances
          BY <2>1 DEF EntriesAreCurrent, GDTypeOK, Entry
    <3>2. x[1] = distances[x[2]] \/ x[1] > distances[x[2]] + Tolerance
          BY <2>1 DEF EntriesAreCurrent
    <3>3. CASE x[2] \in I
      <4>1. distances'[x[2]] + Tolerance < distances[x[2]]
            BY <1>5, <1>7, <3>1, <3>3
      <4>. QED BY <1>3, <1>7, <1>10, <3>1, <3>2, <4>1
    <3>4. CASE x[2] \notin I
          BY <1>7, <3>1, <3>2, <3>4
    <3>. QED BY <3>3, <3>4
  <2>2. CASE x \notin heap
        BY <1>7, <1>9, <2>2
  <2>. QED BY <2>1, <2>2
<1>14. StatesAreRelaxed'
  <2>. SUFFICES ASSUME NEW s \in DOMAIN distances'
                PROVE  <<distances'[s], s>> \in heap' \/ Relaxed(s)'
       BY DEF StatesAreRelaxed
  <2>1. CASE s \in I
        BY <1>7, <1>9, <2>1
  <2>2. CASE s = t
    <3>1. distances'[t] = d
          BY <1>2, <1>6, <1>7
    <3>2. ASSUME NEW tr \in Into(t)
          PROVE  tr.source \in DOMAIN distances' /\ distances'[tr.source] <= d + tr.cost + Tolerance
      <4>1. CASE tr.source \in I
        <5>. DEFINE u == tr.source
        <5>1. via[u].cost \in Nat /\ via[u].cost <= tr.cost + Tolerance
              BY <1>5, <4>1
        <5>2. distances'[u] = d + via[u].cost /\ u \in DOMAIN distances'
              BY <1>7, <4>1
        <5>. QED BY <1>1, <1>4, <5>1, <5>2
      <4>2. CASE tr.source \notin I
        <5>1. ~ Improves(d + tr.cost, tr.source, distances)
              BY <1>4, <4>2 DEF Improvable, I, d, t
        <5>2. tr.source \in DOMAIN distances /\ ~ (d + tr.cost + Tolerance < distances[tr.source])
              BY <5>1 DEF Improves
        <5>. QED BY <1>1, <1>3, <1>4, <1>7, <4>2, <5>2
      <4>. QED BY <4>1, <4>2
    <3>3. \A tr \in Into(t)' : tr \in Into(t) /\ tr.target = t
          BY DEF Into
    <3>. QED BY <2>2, <3>1, <3>2, <3>3 DEF Relaxed, Settled
  <2>3. CASE s \notin I /\ s # t
    <3>1. s \in DOMAIN distances /\ distances'[s] = distances[s]
          BY <1>7, <2>3
    <3>2. CASE <<distances[s], s>> \in heap
          BY <1>1, <1>9, <2>3, <3>1, <3>2
    <3>3. CASE Relaxed(s)
      <4>. SUFFICES ASSUME NEW tr \in Into(s) PROVE Settled(tr)'
           BY DEF Relaxed, Into
      <4>1. tr.cost \in Nat /\ tr.target = s /\ Settled(tr)
            BY <3>3 DEF Relaxed, Into, GDTypeOK, Transition
      <4>2. tr.source \in DOMAIN distances /\ distances[tr.source] <= distances[s] + tr.cost + Tolerance
            BY <3>1, <4>1 DEF Settled
      <4>. QED BY <1>3, <1>7, <1>10, <3>1, <4>1, <4>2 DEF Settled
    <3>. QED BY <3>1, <3>2, <3>3 DEF StatesAreRelaxed
  <2>. QED BY <2>1, <2>2, <2>3
<1>15. SeedsAreTaken'
  <2>1. \A x \in seeds : x[1] \in Nat /\ x[2] \in DOMAIN distances /\ distances[x[2]] <= x[1] + Tolerance
        BY DEF SeedsAreTaken, GDTypeOK, Entry
  <2>. QED BY <1>3, <1>7, <1>10, <2>1 DEF SeedsAreTaken
<1>16. DistancesAreWitnessed'
  <2>. SUFFICES ASSUME NEW s \in DOMAIN distances'
                PROVE  \/ s \in DOMAIN generating' /\ generating'[s].source = s
                          /\ generating'[s].target \in DOMAIN distances'
                          /\ distances'[s] >= distances'[generating'[s].target] + generating'[s].cost
                       \/ <<distances'[s], s>> \in seeds'
       BY DEF DistancesAreWitnessed
  <2>1. CASE s \in I
        BY <1>1, <1>2, <1>4, <1>5, <1>6, <1>7, <1>8, <2>1
  <2>2. CASE s \notin I
    <3>1. s \in DOMAIN distances /\ distances'[s] = distances[s]
          BY <1>7, <2>2
    <3>2. CASE <<distances[s], s>> \in seeds
          BY <3>1, <3>2
    <3>3. CASE <<distances[s], s>> \notin seeds
      <4>. DEFINE g == generating[s]
      <4>1. /\ s \in DOMAIN generating /\ g.source = s /\ g.target \in DOMAIN distances
            /\ distances[s] >= distances[g.target] + g.cost
            BY <3>1, <3>3 DEF DistancesAreWitnessed
      <4>2. g.cost \in Nat
            BY <4>1 DEF GDTypeOK, Transition
      <4>3. generating'[s] = g /\ s \in DOMAIN generating'
            BY <1>8, <2>2, <4>1
      <4>. HIDE DEF g
      <4>. QED BY <1>3, <1>7, <1>10, <3>1, <4>1, <4>2, <4>3
    <3>. QED BY <3>2, <3>3
  <2>. QED BY <2>1, <2>2
<1>17. DistancesAreBounded'
  <2>. SUFFICES ASSUME NEW f \in [Nodes -> Int], Consistent(f), NEW s \in DOMAIN distances'
                PROVE  f[s] <= distances'[s]
       BY DEF DistancesAreBounded, Consistent
  <2>1. \A x \in DOMAIN distances : f[x] <= distances[x]
        BY DEF DistancesAreBounded
  <2>2. CASE s \in I
    <3>1. f[t] <= d
          BY <1>2, <2>1
    <3>2. f[s] <= f[t] + via[s].cost
          BY <1>4, <1>5, <2>2 DEF Consistent
    <3>3. f[s] \in Int /\ f[t] \in Int /\ via[s].cost \in Nat
          BY <1>1, <1>3, <1>5, <2>2
    <3>. QED BY <1>1, <1>7, <2>2, <3>1, <3>2, <3>3
  <2>3. CASE s \notin I
        BY <1>7, <2>1, <2>3
  <2>. QED BY <2>2, <2>3
<1>. QED BY <1>12, <1>13, <1>14, <1>15, <1>16, <1>17

LEMMA SearchStepKeeps ==
    ASSUME Tolerance \in Nat
    PROVE  SearchInvariant /\ [GDNext]_gdvars => SearchInvariant'
<1>. SUFFICES ASSUME SearchInvariant, [GDNext]_gdvars PROVE SearchInvariant'
     OBVIOUS
<1>1. CASE Begin
      BY <1>1, BeginKeeps
<1>2. CASE Expand
  <2>1. PICK e \in heap :
            \/ Outdated(e) /\ heap' = heap \ {e} /\ UNCHANGED <<distances, generating>>
            \/ ~ Outdated(e) /\ \E via \in [Improvable(e) -> Into(e[2])] : Relax(e, via)
        BY <1>2 DEF Expand
  <2>2. UNCHANGED <<searchPhase, transitions, seeds>>
        BY <1>2 DEF Expand
  <2>3. CASE Outdated(e)
        BY <2>1, <2>2, <2>3, SkipKeeps
  <2>4. CASE ~ Outdated(e)
    <3>1. PICK via \in [Improvable(e) -> Into(e[2])] : Relax(e, via)
          BY <2>1, <2>4
    <3>. QED BY <2>2, <2>4, <3>1, RelaxKeeps
  <2>. QED BY <2>3, <2>4
<1>3. CASE Return
  <2>1. /\ searchPhase' = "idle" /\ transitions' = {} /\ seeds' = {} /\ heap' = {}
        /\ distances' = Nothing /\ generating' = Nothing
        BY <1>3 DEF Return
  <2>2. (searchPhase = "idle" /\ transitions = {} /\ seeds = {} /\ heap = {}
            /\ distances = Nothing /\ generating = Nothing => SearchInvariant)'
        BY EmptyInvariant, PTL
  <2>. QED BY <2>1, <2>2
<1>4. CASE UNCHANGED gdvars
      BY <1>4 DEF gdvars, SearchInvariant, GDTypeOK, EntriesAreCurrent, StatesAreRelaxed, Relaxed, Into,
                  Settled, SeedsAreTaken, DistancesAreWitnessed, DistancesAreBounded, Consistent
<1>. QED BY <1>1, <1>2, <1>3, <1>4 DEF GDNext

-----------------------------------------------------------------------------
LEMMA InvariantHolds == ASSUME Tolerance \in Nat PROVE GDSpec => []SearchInvariant
<1>1. GDInit => SearchInvariant
      BY EmptyInvariant DEF GDInit
<1>2. SearchInvariant /\ [GDNext]_gdvars => SearchInvariant'
      BY SearchStepKeeps
<1>. QED BY <1>1, <1>2, PTL DEF GDSpec

\* backward_goal_distances: the distances are numbers of states of the graph, and the
\* recorded transitions are the graph's.
THEOREM GoalDistanceTypesAreCorrect == ASSUME Tolerance \in Nat PROVE GDSpec => []GDTypeOK
<1>1. SearchInvariant => GDTypeOK
      BY DEF SearchInvariant
<1>. QED BY <1>1, InvariantHolds, PTL

\* backward_goal_distances: once the heap is empty, no seed and no transition offers a
\* path that is cheaper by more than the tolerance.
THEOREM DistancesAreSettledAlways == ASSUME Tolerance \in Nat PROVE GDSpec => []DistancesAreSettled
<1>1. SearchInvariant => DistancesAreSettled
  <2>. SUFFICES ASSUME SearchInvariant, heap = {}
                PROVE  /\ \A tr \in transitions : Settled(tr)
                       /\ \A e \in seeds : e[2] \in DOMAIN distances /\ distances[e[2]] <= e[1] + Tolerance
       BY DEF DistancesAreSettled
  <2>1. \A s \in DOMAIN distances : Relaxed(s)
        BY DEF SearchInvariant, StatesAreRelaxed
  <2>2. ASSUME NEW tr \in transitions PROVE Settled(tr)
        BY <2>1 DEF Relaxed, Into, Settled
  <2>. QED BY <2>2 DEF SearchInvariant, SeedsAreTaken
<1>. QED BY <1>1, InvariantHolds, PTL

\* backward_goal_distances: following the recorded transitions from a state leads to a
\* seed and costs no more than the state's distance.
THEOREM DistancesAreWitnessedAlways == ASSUME Tolerance \in Nat PROVE GDSpec => []DistancesAreWitnessed
<1>1. SearchInvariant => DistancesAreWitnessed
      BY DEF SearchInvariant
<1>. QED BY <1>1, InvariantHolds, PTL

\* backward_goal_distances: no distance is below the exact one, at any time.
THEOREM DistancesAreBoundedAlways == ASSUME Tolerance \in Nat PROVE GDSpec => []DistancesAreBounded
<1>1. SearchInvariant => DistancesAreBounded
      BY DEF SearchInvariant
<1>. QED BY <1>1, InvariantHolds, PTL
=============================================================================
