---------------------- MODULE OnlinePortfolioProperties ----------------------
(***************************************************************************)
(* What the search may rely on while a maximum of heuristics learns.       *)
(***************************************************************************)
EXTENDS OnlinePortfolio

\* The state's types, for the proofs.
ChildType ==
    [functions : SUBSET Functions, rays : SUBSET Rays, revision : Nat, optimizer : BOOLEAN,
     seen : SUBSET States, sinceSolve : Nat, interval : Nat, consecutive : Nat,
     misses : Nat, solves : Nat, added : Nat]

EvaluationType ==
    {Idle, Failed} \union
    {e \in [phase : {"reached", "popped"}, state : States, next : Nat, best : 0..DeadEnd] :
         e.next \in 1..(Len(config) + 1)}

\* The state of the children, the records and the queue has its types.
TypeOK ==
    /\ config \in Portfolios
    /\ child \in [Children -> ChildType]
    /\ records \in [States -> {None} \union [revision : Nat, h : 0..DeadEnd]]
    /\ entry \in [States -> {None} \union [h : 0..DeadEnd]]
    /\ dead \in SUBSET States
    /\ reaches \in [States -> Nat]
    /\ successors \in Seq(States)
    /\ estimates \in Seq(0..DeadEnd)
    /\ refutations \in [States -> Nat]
    /\ evaluation \in EvaluationType

\* What child c would answer now without learning.
Estimate(c, s) ==
    IF ProvenDead(config[c], child[c], s) THEN DeadEnd ELSE Envelope(config[c], child[c], s)

\* The children that promise to count their growth: they do, or never grow.
Counting == {c \in Children : Tracks(config[c]) \/ config[c].maxFunctions = 0}

\* A record as old as the maximum's revision is no smaller than what any
\* counting child answers now: `previous.revision < revision()` misses no
\* growth (pop, and revision in combinations/maximum.rs).
RecordsAreCurrent ==
    \A s \in States : records[s] # None /\ records[s].revision >= Revision
        => \A c \in Counting : Estimate(c, s) <= records[s].h

\* An evaluation of a state is smaller than an earlier one only if that was a
\* dead end whose certificate was forgotten, in the same expansion, which found
\* the state twice; so whichever child has grown or forgotten a ray in between,
\* the assertion in pop holds.
FoundTwice(s) ==
    /\ evaluation.phase = "reached"
    /\ \E i \in DOMAIN estimates : successors[i] = s /\ estimates[i] = DeadEnd

EstimatesNeverFall ==
    [][\A s \in States : records[s] # None
           => /\ records'[s] # None
              /\ \/ records'[s].h >= records[s].h
                 \/ records[s].h = DeadEnd /\ FoundTwice(s)]_vars

\* A limit on LPs that is not looked at after a certificate still bounds them:
\* each LP beyond it is paid for by an answer that a state is a dead end.  A
\* state is the subject of at most one such answer for each path recorded to
\* it, and is marked as a dead end when the expansion is over.
Refutations == UNION {{s} \X (1..refutations[s]) : s \in States}

SolvesAreBounded ==
    /\ \A c \in Children : config[c].maxSolves > 0
           => child[c].solves <= config[c].maxSolves + Cardinality(Refutations)
    /\ \A s \in States :
           /\ refutations[s] <= reaches[s]
           /\ AtRest /\ refutations[s] > 0 => s \in dead

\* Every entry is expanded or pruned in the end: a state is not evaluated
\* and requeued for ever, also by a heuristic that is asked at every pop.
EntriesAreAnswered ==
    \A s \in States : entry[s] # None ~> entry[s] = None \/ evaluation = Failed

\* The maximum over the counting children keeps the promise of the trait.
CountedEstimate == [s \in States |-> Max({0} \union {Estimate(c, s) : c \in Counting})]

Interface == INSTANCE HeuristicInterface
                 WITH estimate <- CountedEstimate, revision <- Revision

ImplementsHeuristicInterface == Interface!Spec
=============================================================================
