------------------------------- MODULE LmCut --------------------------------
(***************************************************************************)
(* The evaluations of a state by numeric LM-cut: an exploration of the     *)
(* relaxed task, then cuts until the goal costs nothing, each followed by  *)
(* an incremental exploration.  Costs are exact fractions, where the code  *)
(* compares floating-point numbers up to a precision.                      *)
(***************************************************************************)
EXTENDS LmCutTask

CONSTANTS
    Tasks,
    TrueDistances,      \* of each task the states that can be reached, with their goal
                        \* distances: Infinite without a plan
    Options,            \* ceiling, irmax, disableMa: Booleans
    MaxEvaluations,
    Nothing             \* no supporter

StatesOf(t) == DOMAIN TrueDistances[t]

ASSUME InfiniteAssumption == Infinite \in Nat \ {0}
ASSUME TasksAssumption == \A t \in Tasks : IsTask(t)
ASSUME StatesAssumption == \A t \in Tasks : IsStateSpace(t, StatesOf(t))
ASSUME PricesAssumption == \A t \in Tasks : PricesAreNatural(t, StatesOf(t))
ASSUME DistancesAssumption == \A t \in Tasks : AreGoalDistances(t, TrueDistances[t])
ASSUME NothingAssumption == \A t \in Tasks : Nothing \notin Mentioned(RelaxedTask(t))
ASSUME OptionsAssumption == Options \subseteq [ceiling : BOOLEAN, irmax : BOOLEAN, disableMa : BOOLEAN]

VARIABLES
    task,
    options,
    relaxed,            \* the relaxed operators, the goal operator among them
    propositions,       \* what they mention
    net,                \* of each what a use of its operator adds to a condition
    states,             \* those the search may evaluate
    phase,              \* "idle", "exploring", "cutting", "updating", "failed"
    state,              \* the state evaluated
    counter,            \* of each relaxed operator the preconditions not reached
    cost,               \* what is left of its cost
    supporter,          \* its last precondition, or a dearest one
    supporterCost,
    hMax,               \* of each proposition, Infinity if it is not reached
    queue,
    touched,            \* the operators to reset for the next evaluation
    total,              \* the cost of the cuts
    cut,                \* the last cut: operators and the propositions they reach
    estimates           \* of the states evaluated

given == <<task, options, relaxed, propositions, net, states>>
search == <<counter, supporter, supporterCost, hMax, queue, touched>>
vars == <<given, phase, state, cost, search, total, cut, estimates>>

-----------------------------------------------------------------------------
(* Fractions *)

Divides(k, n) == n % k = 0
Fraction(n, d) ==
    LET g == Max({k \in 1..d : Divides(k, d) /\ Divides(k, n)})
    IN  <<n \div g, d \div g>>

Infinity == <<1, 0>>
Zero == <<0, 1>>
Less(a, b) == a[1] * b[2] < b[1] * a[2]
Plus(a, b) == Fraction(a[1] * b[2] + b[1] * a[2], a[2] * b[2])
Minus(a, b) == Fraction(a[1] * b[2] - b[1] * a[2], a[2] * b[2])
Times(a, b) == Fraction(a[1] * b[1], a[2] * b[2])
Over(a, b) == Fraction(a[1] * b[2], a[2] * b[1])
Least(S) == CHOOSE a \in S : \A b \in S : ~ Less(b, a)

-----------------------------------------------------------------------------
(* The relaxed task *)

Ids == DOMAIN relaxed
Achieves(p) == {r \in Ids : p \in relaxed[r].effects}
Triggered(p) == {r \in Ids : p \in relaxed[r].pre}
OfOrigins(O) == {r \in Ids : relaxed[r].origin \in O \ {NoOrigin}}
Initially == {p \in propositions : IsTrue(task, p, state)}

\* How often r is applied to reach p; 0 if that does not lead there.
Multiplier(r, p, multiplied) ==
    IF ~ multiplied \/ ~ IsCondition(p) \/ relaxed[r].infinite THEN <<1, 1>>
    ELSE LET adds == net[r][p]
             need == Need(p, state)
         IN  IF adds <= 0 \/ need <= 0 THEN Zero
             ELSE IF options.ceiling /\ need < adds THEN <<1, 1>> ELSE Fraction(need, adds)
Leads(r, p) == Less(Zero, Multiplier(r, p, ~ options.disableMa))
EdgeCost(r, p) == Times(Multiplier(r, p, ~ options.disableMa), cost[r])

-----------------------------------------------------------------------------
(* The explorations *)

\* update_queue, for every effect of r.
Improve(h, c, r, from) ==
    LET times(p) == Multiplier(r, p, ~ options.irmax)
        open     == {p \in relaxed[r].effects : Less(Zero, times(p))}
        new(p)   == Plus(h[from], Times(times(p), c[r]))
    IN  [p \in DOMAIN h |-> IF p \in open /\ Less(new(p), h[p]) THEN new(p) ELSE h[p]]

\* The operators of R are applied in the order of their ids, each to its supporter.
ImproveAll(h, c, R, from) ==
    LET after[r \in 0..Len(relaxed)] ==
            IF r = 0 THEN h
            ELSE IF r \in R THEN Improve(after[r - 1], c, r, from[r]) ELSE after[r - 1]
    IN  after[Len(relaxed)]
Changed(h, next) == {p \in DOMAIN h : h[p] # next[p]}

\* A proposition that is no precondition is not queued: popping it does nothing.
Queued(S) == {p \in S : Triggered(p) # {}}
IsNext(p) == p \in queue /\ \A q \in queue : ~ Less(hMax[q], hMax[p])

Explore ==
    /\ phase = "exploring"
    /\ \E p \in queue :
        LET ready == {r \in Triggered(p) : counter[r] = 1}
            next  == ImproveAll(hMax, cost, ready, [r \in ready |-> p])
        IN  /\ IsNext(p)
            /\ phase' = IF \E r \in Triggered(p) : counter[r] = 0 THEN "failed" ELSE phase
            /\ counter' = [r \in Ids |-> IF r \in Triggered(p) THEN counter[r] - 1 ELSE counter[r]]
            /\ supporter' = [r \in Ids |-> IF r \in ready THEN p ELSE supporter[r]]
            /\ supporterCost' = [r \in Ids |-> IF r \in ready THEN hMax[p] ELSE supporterCost[r]]
            /\ touched' = touched \cup Triggered(p)
            /\ hMax' = next
            /\ queue' = (queue \ {p}) \cup Queued(Changed(hMax, next))
    /\ UNCHANGED <<given, state, cost, total, cut, estimates>>

\* Mutant: only an operator whose supporter is replaced updates what it reaches.
SupportedIfReplaced(x, r, p) ==
    IF \/ x.supporter[r] # p \/ counter[r] # 0
       \/ \A q \in relaxed[r].pre : ~ Less(x.h[p], x.h[q])
    THEN x
    ELSE LET new == CHOOSE q \in relaxed[r].pre : \A q2 \in relaxed[r].pre : ~ Less(x.h[q], x.h[q2])
         IN  [supporter |-> [x.supporter EXCEPT ![r] = new],
              supporterCost |-> [x.supporterCost EXCEPT ![r] = x.h[new]],
              h |-> Improve(x.h, cost, r, new)]

\* An operator whose supporter became cheaper takes its dearest precondition.
Supported(x, r, p) ==
    LET dearer == {q \in relaxed[r].pre : Less(x.h[p], x.h[q])}
        new    == IF dearer = {} THEN p
                  ELSE CHOOSE q \in dearer : \A q2 \in dearer : ~ Less(x.h[q], x.h[q2])
    IN  IF \/ x.supporter[r] # p
           \/ ~ Less(x.h[p], x.supporterCost[r])
           \/ counter[r] # 0
           \/ \E q \in relaxed[r].pre : x.h[q] = Infinity
        THEN x
        ELSE [supporter |-> [x.supporter EXCEPT ![r] = new],
              supporterCost |-> [x.supporterCost EXCEPT ![r] = x.h[new]],
              h |-> IF x.h[new] = x.supporterCost[r] THEN x.h ELSE Improve(x.h, cost, r, new)]

Update ==
    /\ phase = "updating"
    /\ \E p \in queue :
        LET after[r \in 0..Len(relaxed)] ==
                IF r = 0 THEN [supporter |-> supporter, supporterCost |-> supporterCost, h |-> hMax]
                ELSE IF r \in Triggered(p) THEN Supported(after[r - 1], r, p) ELSE after[r - 1]
            x == after[Len(relaxed)]
        IN  /\ IsNext(p)
            /\ supporter' = x.supporter
            /\ supporterCost' = x.supporterCost
            /\ hMax' = x.h
            /\ queue' = (queue \ {p}) \cup Queued(Changed(hMax, x.h))
    /\ UNCHANGED <<given, phase, state, counter, cost, touched, total, cut, estimates>>

-----------------------------------------------------------------------------
(* The cuts *)

\* The least set with start that more, a function on sets, does not lead out of.
Closure(more, start) ==
    LET closure[S \in DOMAIN more] == IF more[S] \subseteq S THEN S ELSE closure[S \cup more[S]]
    IN  closure[start]

\* What leads to the goal at no cost.
Freely(p) == {r \in Achieves(p) : cost[r] = Zero /\ counter[r] = 0 /\ Leads(r, p)}
FreeSupporters(zone) == {supporter[r] : r \in UNION {Freely(p) : p \in zone}}
Plateau == Closure([zone \in SUBSET propositions |-> FreeSupporters(zone) \ {Nothing}], {End})
GoalZone == Plateau \ Initially

\* The edges from the supported operators of the propositions in zone into goal.
Edges(zone, goal) ==
    {e \in {r \in Ids : supporter[r] \in zone} \X goal :
        e[2] \in relaxed[e[1]].effects /\ Leads(e[1], e[2])}

\* Mutant: only what holds is before the goal zone.
NothingReached(zone, goal) == zone

\* What is reached before the goal zone: an operator with an edge into it passes
\* only what it reaches more cheaply than that.
Passes(e, goal) ==
    \A p \in goal : LET r == e[1]
                    IN  p \in relaxed[r].effects /\ Leads(r, p) => Less(EdgeCost(r, e[2]), EdgeCost(r, p))
BeforeGoalZone(zone, goal) ==
    Closure([reached \in SUBSET propositions |->
                {e[2] : e \in {e \in Edges(reached, propositions \ goal) : Passes(e, goal)}}], zone)

Cheapest(edges) == Least({EdgeCost(e[1], e[2]) : e \in edges})
Origins(edges) == {relaxed[e[1]].origin : e \in edges} \ {NoOrigin}
EdgesOf(edges, o) == {e \in edges : relaxed[e[1]].origin = o}

\* Mutant: the other operators of an origin keep their costs.
ReducedInCut(edges) ==
    [r \in Ids |->
        IF r \notin {e[1] : e \in edges} \/ cost[r] = Zero THEN cost[r]
        ELSE Minus(cost[r], Over(Times(Cheapest(edges), cost[r]),
                                 Cheapest(EdgesOf(edges, relaxed[r].origin))))]

\* The cost of the cut is taken from the operators of its origins, in proportion.
Reduced(edges) ==
    [r \in Ids |->
        LET o == relaxed[r].origin
        IN  IF o \notin Origins(edges) \/ cost[r] = Zero THEN cost[r]
            ELSE LET least == Cheapest(EdgesOf(edges, o))
                 IN  IF least = Zero THEN cost[r]
                     ELSE Minus(cost[r], Over(Times(Cheapest(edges), cost[r]), least))]

\* The order in which the origins of a cut are first met is left open.
Orders(O) == {f \in [1..Cardinality(O) -> O] : Range(f) = O}
ImproveInTurn(h, c, R, order) ==
    LET after[k \in 0..Len(order)] ==
            IF k = 0 THEN h ELSE ImproveAll(after[k - 1], c, R \cap OfOrigins({order[k]}), supporter)
    IN  after[Len(order)]

Cut ==
    /\ phase \in {"exploring", "updating"}
    /\ queue = {}
    /\ hMax[End] \notin {Zero, Infinity}
    /\ LET before == BeforeGoalZone(Initially, GoalZone)
           edges  == Edges(before, GoalZone)
           c      == Reduced(edges)
           ready  == {r \in OfOrigins(Origins(edges)) : counter[r] = 0}
           fails  == \/ edges = {}
                     \/ \E p \in before : hMax[p] = Infinity
                     \/ \E r \in ready : supporter[r] = Nothing
       IN  IF fails
           THEN phase' = "failed" /\ UNCHANGED <<cost, hMax, queue, total, cut>>
           ELSE /\ phase' = "updating"
                /\ cut' = edges
                /\ total' = Plus(total, Cheapest(edges))
                /\ cost' = c
                /\ \E order \in Orders(Origins(edges)) :
                    LET next == ImproveInTurn(hMax, c, ready, order)
                    IN  hMax' = next /\ queue' = Queued(Changed(hMax, next))
    /\ UNCHANGED <<given, state, counter, supporter, supporterCost, touched, estimates>>

-----------------------------------------------------------------------------
(* The heuristic *)

Answer(s, e) ==
    estimates' = [u \in {s} \cup DOMAIN estimates |-> IF u = s THEN e ELSE estimates[u]]

\* An estimate other than that of a dead end is kept.
Recall ==
    /\ phase = "idle"
    /\ \E s \in DOMAIN estimates : estimates[s] # Infinity
    /\ UNCHANGED vars

\* Mutant: only the operators that were reached are reset.
ResetReached(f, g) == [r \in Ids |-> IF r \in touched /\ counter[r] = 0 THEN g[r] ELSE f[r]]

\* What the last evaluation touched is reset; the costs of other operators stay as
\* they are.
Reset(f, g) == [r \in Ids |-> IF r \in touched THEN g[r] ELSE f[r]]

Evaluate ==
    /\ phase = "idle"
    /\ \E s \in states :
        /\ IF s \in DOMAIN estimates THEN estimates[s] = Infinity
           ELSE Cardinality(DOMAIN estimates) < MaxEvaluations
        /\ IF IsGoalState(task, s)
           THEN Answer(s, Zero) /\ UNCHANGED <<phase, state, cost, search, total, cut>>
           ELSE LET true == {p \in propositions : IsTrue(task, p, s)}
                IN  /\ phase' = "exploring"
                    /\ state' = s
                    /\ counter' = Reset(counter, [r \in Ids |-> Cardinality(relaxed[r].pre)])
                    /\ cost' = Reset(cost, [r \in Ids |-> <<relaxed[r].cost, 1>>])
                    /\ supporter' = Reset(supporter, [r \in Ids |-> Nothing])
                    /\ supporterCost' = Reset(supporterCost, [r \in Ids |-> Infinity])
                    /\ hMax' = [p \in propositions |-> IF p \in true THEN Zero ELSE Infinity]
                    /\ queue' = Queued(true)
                    /\ touched' = {}
                    /\ total' = Zero
                    /\ cut' = {}
                    /\ UNCHANGED estimates
    /\ UNCHANGED given

Conclude ==
    /\ phase \in {"exploring", "updating"}
    /\ queue = {}
    /\ hMax[End] = Zero \/ (phase = "exploring" /\ hMax[End] = Infinity)
    /\ Answer(state, IF hMax[End] = Zero THEN total ELSE Infinity)
    /\ phase' = "idle"
    /\ UNCHANGED <<given, state, cost, search, total, cut>>

Init ==
    /\ task \in Tasks
    /\ options \in Options
    /\ relaxed = RelaxedTask(task)
    /\ propositions = Mentioned(relaxed)
    /\ net = [r \in Ids |-> [p \in {p \in relaxed[r].effects : IsCondition(p)} |->
                 Net(task, relaxed[r].origin, p[2])]]
    /\ states = StatesOf(task)
    /\ phase = "idle"
    /\ state = InitialState(task)
    /\ counter = [r \in Ids |-> Cardinality(relaxed[r].pre)]
    /\ cost = [r \in Ids |-> <<relaxed[r].cost, 1>>]
    /\ supporter = [r \in Ids |-> Nothing]
    /\ supporterCost = [r \in Ids |-> Infinity]
    /\ hMax = [p \in propositions |-> Infinity]
    /\ queue = {}
    /\ touched = {}
    /\ total = Zero
    /\ cut = {}
    /\ estimates = <<>>

Next == Recall \/ Evaluate \/ Explore \/ Cut \/ Update \/ Conclude
Spec == Init /\ [][Next]_vars

\* Weak fairness of the steps of an evaluation, which is ready for one until it ends.
FairSpec == Spec /\ (<>[](phase \in {"exploring", "updating"}) => []<><<phase # "idle">>_vars)

-----------------------------------------------------------------------------
(* Properties *)

\* Exact fractions, and what else a proposition may cost.
Amounts == {a \in Nat \X (Nat \ {0}) : a[1] = 0 => a[2] = 1}
Values == Amounts \cup {Infinity}

\* A round of h^max: each proposition takes the least price at which an operator that is
\* reached leads to it from its dearest precondition.
Dearest(S) == CHOOSE a \in S : \A b \in S : ~ Less(a, b)
Round(h) ==
    LET times(r, p) == Multiplier(r, p, ~ options.irmax)
        reached == {r \in Ids : \A q \in relaxed[r].pre : h[q] # Infinity}
        price(r, p) == Plus(Dearest({Zero} \cup {h[q] : q \in relaxed[r].pre}), Times(times(r, p), cost[r]))
    IN  [p \in propositions |->
            Least({h[p]} \cup {price(r, p) : r \in {r \in reached \cap Achieves(p) : Less(Zero, times(r, p))}})]

\* The h^max values at the costs that are left, from nothing: a round settles at least one
\* more proposition.
HMaxFromNothing ==
    LET first == [p \in propositions |-> IF p \in Initially THEN Zero ELSE Infinity]
        settled[e \in Nat \X [propositions -> Values]] ==
            LET next == Round(e[2])
            IN  IF e[1] = 0 \/ next = e[2] THEN e[2] ELSE settled[<<e[1] - 1, next>>]
    IN  settled[<<Cardinality(propositions), first>>]

\* Once its queue is empty, a first exploration has computed h^max.  An incremental one
\* has reached the same propositions at no higher costs, though it keeps what it knows
\* from before the cut.  It may stay below: see Chain in MCLmCut.
ExplorationsAreBounded ==
    phase \in {"exploring", "updating"} /\ queue = {} =>
        LET exact == HMaxFromNothing
        IN  \A p \in propositions :
                /\ ~ Less(exact[p], hMax[p])
                /\ phase = "exploring" => ~ Less(hMax[p], exact[p])
                /\ exact[p] = Infinity => hMax[p] = Infinity

\* The states that can be reached from s without the operators O.
SuccessorsWithout(t, O, s) == {Successor(t, o, s) : o \in Applicable(t, s) \ O}
ReachableWithout(t, O, s) ==
    Closure([S \in SUBSET StatesOf(t) |-> UNION {SuccessorsWithout(t, O, u) : u \in S}], {s})

\* Every plan of the task itself uses an operator of the cut.
CutIsALandmark ==
    cut # {} => \A u \in ReachableWithout(task, Origins(cut), state) : ~ IsGoalState(task, u)

\* No estimate exceeds the cost of a plan, and only dead ends are infinite, whatever
\* was evaluated before.
EstimateIsAdmissible ==
    \A s \in DOMAIN estimates :
        IF estimates[s] = Infinity THEN TrueDistances[task][s] = Infinite
        ELSE TrueDistances[task][s] # Infinite => ~ Less(<<TrueDistances[task][s], 1>>, estimates[s])

\* The loop over the cuts ends, though it has no bailout for cuts that cost nothing,
\* and no assertion of an exploration or of a cut fails on the way.
Terminates == phase # "idle" ~> phase = "idle"

-----------------------------------------------------------------------------
(* What the theorems assume of the tasks *)

ProperTasks == \A t \in Tasks : IsProper(t, StatesOf(t))
RelaxedTasks == \A t \in Tasks : IsRelaxation(t, StatesOf(t))
PaidTasks == \A t \in Tasks : CostsArePaid(t, StatesOf(t))
=============================================================================
