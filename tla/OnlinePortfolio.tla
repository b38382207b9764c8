--------------------------- MODULE OnlinePortfolio ---------------------------
(***************************************************************************)
(* A maximum of potential heuristics that learn while the search runs, and *)
(* the part of the search with multi-path dependence (mpd) that reads      *)
(* their revision: evaluation records, re-evaluation at pop, requeueing.   *)
(*                                                                         *)
(* A potential heuristic keeps functions and rays.  Its estimate is the    *)
(* largest of its functions, or a dead end if a ray certifies one.  Every  *)
(* so many evaluations it solves an LP for the state at hand, which yields *)
(* a function, a ray, or nothing, until one of its limits is reached.      *)
(* What the LPs compute is data here: any function may be an optimum.      *)
(*                                                                         *)
(* An expansion has three phases (BestFirstSearch::expand): it records     *)
(* paths to successors, evaluates each of them, and only then marks the    *)
(* dead ends and queues the others, so that a state found twice by one     *)
(* expansion is evaluated twice, also after the answer that it is dead.    *)
(***************************************************************************)
EXTENDS Integers, Sequences, FiniteSets, FiniteSetsExt, Functions

CONSTANTS States,           \* registered states
          GoalStates,
          Functions,        \* potential functions the LPs may return
          Rays,             \* certified rays the verifier may return
          Value,            \* Value[f][s], at least zero
          Certifies,        \* Certifies[r]: the states a ray proves dead
          Portfolios,       \* the sequences of configurations of a maximum
          DeadEnd,          \* Estimate::DEAD_END, above every value
          MinOperatorCost,
          MaxReaches,       \* bounds: the paths recorded to each state
          MaxSuccessors     \* bound: the paths an expansion records

ASSUME PortfolioAssumption ==
    /\ IsFiniteSet(Functions)
    /\ DeadEnd \in Nat /\ MinOperatorCost \in 0..(DeadEnd - 1)
    /\ MaxReaches \in [States -> Nat] /\ MaxSuccessors \in Nat
    /\ Value \in [Functions -> [States -> 0..(DeadEnd - 1)]]
    /\ Certifies \in [Rays -> SUBSET States]

\* The options of a potential heuristic and what its construction leaves:
\* the estimates of its static part and the rays found offline.  A heuristic
\* that does not learn has maxFunctions 0.
Configuration ==
    [base : [States -> 0..DeadEnd], rays : SUBSET Rays, certified : BOOLEAN,
     maxRays : Nat, maxFunctions : Nat, interval : Nat,
     maxConsecutive : Nat, maxMisses : Nat, maxSolves : Nat,
     newStatesOnly : BOOLEAN, cached : BOOLEAN, invalidates : BOOLEAN]

ASSUME ConfigurationAssumption ==
    \A p \in Portfolios : p \in Seq(Configuration) /\ p # <<>>

VARIABLES config,       \* the configuration of each child
          child,        \* what each child has learned, and its counters
          records,      \* the search's EvaluationRecord per state
          entry,        \* the h of the state's live open-list entry
          dead,         \* states marked as dead ends
          reaches,      \* the paths recorded to each state
          successors,   \* the successors of the expansion in progress
          estimates,    \* the evaluations of the first of them
          evaluation    \* the evaluation in progress

\* History, which no step reads: how often a state's evaluation was a dead end.
VARIABLE refutations

searchVars == <<records, entry, dead, reaches, successors, estimates, refutations>>
vars == <<config, child, searchVars, evaluation>>

Children == DOMAIN config
None == [none |-> TRUE]
Idle == [phase |-> "idle"]
Failed == [phase |-> "failed"]

(***************************************************************************)
(* A child.                                                                *)
(***************************************************************************)

\* What construction leaves of a child: no function learned online yet.
NewChild(o) ==
    [functions |-> {}, rays |-> o.rays, revision |-> 0, optimizer |-> o.maxFunctions > 0,
     seen |-> {}, sinceSolve |-> 0, interval |-> o.interval,
     consecutive |-> 0, misses |-> 0, solves |-> 0, added |-> 0]

\* Growth is counted only if estimates are cached and the option asks for it.
Tracks(o) == o.invalidates /\ o.cached

\* A certificate or a ray proves the state dead, before any counter moves.
ProvenDead(o, k, s) == o.certified \/ \E r \in k.rays : s \in Certifies[r]

\* The largest value of the portfolio in a state.
Envelope(o, k, s) == Max({o.base[s]} \union {Value[f][s] : f \in k.functions})

\* One more evaluation since the last LP, unless only new states count.
Advanced(o, k, s) ==
    IF o.newStatesOnly /\ s \in k.seen
    THEN k
    ELSE [k EXCEPT !.sinceSolve = @ + 1, !.seen = IF o.newStatesOnly THEN @ \union {s} ELSE @]

Triggered(o, k, s) == k.optimizer /\ Advanced(o, k, s).sinceSolve >= k.interval

\* The counters once an LP is solved.
Solving(o, k, s) == [Advanced(o, k, s) EXCEPT !.sinceSolve = 0, !.solves = @ + 1]

\* invalidate_online_cache
Grown(o, k) == IF Tracks(o) THEN [k EXCEPT !.revision = @ + 1] ELSE k

\* Mutant: the limits are exceeded before they are noticed.
LimitedLate(o, k) ==
    [k EXCEPT !.optimizer = ~ \/ k.added > o.maxFunctions
                              \/ o.maxMisses > 0 /\ k.misses > o.maxMisses
                              \/ o.maxSolves > 0 /\ k.solves > o.maxSolves]

\* The optimizer is dropped at a limit, which is looked at after a useful
\* function or a miss, and not after a certificate.
Limited(o, k) ==
    [k EXCEPT !.optimizer = ~ \/ k.added >= o.maxFunctions
                              \/ o.maxMisses > 0 /\ k.misses >= o.maxMisses
                              \/ o.maxSolves > 0 /\ k.solves >= o.maxSolves]

\* Mutant: the last function is answered with and not kept, as rays are.
WithFunctionIfRoom(o, k, f) ==
    LET room == k.added + 1 < o.maxFunctions
    IN  Limited(o, [IF room THEN Grown(o, [k EXCEPT !.functions = @ \union {f}]) ELSE k
                    EXCEPT !.added = @ + 1, !.consecutive = 0, !.interval = o.interval])

WithFunction(o, k, f) ==
    Limited(o, [Grown(o, [k EXCEPT !.functions = @ \union {f}])
                EXCEPT !.added = @ + 1, !.consecutive = 0, !.interval = o.interval])

\* Misses in a row stretch the interval tenfold, up to 10000.
WithMiss(o, k) ==
    LET stretch == o.maxConsecutive > 0 /\ k.consecutive + 1 >= o.maxConsecutive
    IN  Limited(o, [k EXCEPT !.misses = @ + 1,
                             !.consecutive = IF stretch THEN 0 ELSE @ + 1,
                             !.interval = IF stretch THEN Min({@ * 10, 10000}) ELSE @])

\* Mutant: a new ray is not counted as growth.
WithUncountedRay(o, k, r, duplicate) ==
    IF Cardinality(k.rays) < o.maxRays /\ ~duplicate
    THEN [k EXCEPT !.rays = @ \union {r}]
    ELSE k

\* A ray is kept if there is room and it is no duplicate of another.
WithRay(o, k, r, duplicate) ==
    IF Cardinality(k.rays) < o.maxRays /\ ~duplicate
    THEN Grown(o, [k EXCEPT !.rays = @ \union {r}])
    ELSE k

(***************************************************************************)
(* The maximum evaluates its children in order, each of them always.       *)
(***************************************************************************)

\* The sum of the children's revisions, as a recursive function.
SumTo(n, r) == LET sum[i \in 0..n] == IF i = 0 THEN 0 ELSE sum[i - 1] + r[i]
               IN  sum[n]

\* Mutant: the revision of a maximum is the largest of its children's.
LargestRevision == Max({child[c].revision : c \in Children})

Revision == SumTo(Len(config), [c \in Children |-> child[c].revision])

ReevaluateOnEveryPop == \E c \in Children : ~config[c].cached

Begin(s, purpose) ==
    evaluation' = [phase |-> purpose, state |-> s, next |-> 1, best |-> 0]

Running == evaluation \notin {Idle, Failed} /\ evaluation.next \in Children

\* Child `next` has answered: `k` is what it has become, `v` its estimate.
Answer(k, v) ==
    /\ child' = [child EXCEPT ![evaluation.next] = k]
    /\ evaluation' = [evaluation EXCEPT !.next = @ + 1, !.best = Max({@, v})]
    /\ UNCHANGED <<config, searchVars>>

\* The child at work, its options and the state it is asked for.
Now == [o |-> config[evaluation.next], k |-> child[evaluation.next], s |-> evaluation.state]

AnswerProvenDead ==
    /\ Running
    /\ ProvenDead(Now.o, Now.k, Now.s)
    /\ Answer(Now.k, DeadEnd)

Open == Running /\ ~ProvenDead(Now.o, Now.k, Now.s)

AnswerEnvelope ==
    /\ Open
    /\ ~Triggered(Now.o, Now.k, Now.s)
    /\ Answer(IF Now.k.optimizer THEN Advanced(Now.o, Now.k, Now.s) ELSE Now.k,
              Envelope(Now.o, Now.k, Now.s))

Solve == Open /\ Triggered(Now.o, Now.k, Now.s)

\* The LP's optimum beats the envelope: the child keeps it.
LearnFunction(f) ==
    /\ Solve
    /\ Value[f][Now.s] > Envelope(Now.o, Now.k, Now.s)
    /\ Answer(WithFunction(Now.o, Solving(Now.o, Now.k, Now.s), f), Value[f][Now.s])

\* An optimum that does not, no certificate, or the solver gave up.
Miss ==
    /\ Solve
    /\ Answer(WithMiss(Now.o, Solving(Now.o, Now.k, Now.s)), Envelope(Now.o, Now.k, Now.s))

\* The LP is unbounded and the verifier confirms it with a ray.
Certify(r) ==
    /\ Solve
    /\ Now.s \in Certifies[r]
    /\ \E duplicate \in BOOLEAN :
           Answer(WithRay(Now.o, Solving(Now.o, Now.k, Now.s), r, duplicate), DeadEnd)

\* A solver error ends the search.
FailToSolve ==
    /\ Solve
    /\ child' = [child EXCEPT ![evaluation.next] = Solving(Now.o, Now.k, Now.s)]
    /\ evaluation' = Failed
    /\ UNCHANGED <<config, searchVars>>

(***************************************************************************)
(* The search.  Which state is reached when, and which entry is popped, is *)
(* left open; ordering and expansion are BestFirst's.                      *)
(***************************************************************************)
Bounded(s, v) == IF s \in GoalStates THEN v ELSE Max({v, MinOperatorCost})

Expanding == successors # <<>>
AtRest == evaluation = Idle /\ ~Expanding

Occurrences(batch, s) == {i \in DOMAIN batch : batch[i] = s}

\* The first phase of an expansion records paths to states that are no dead
\* ends, a state twice if its second path is cheaper.  An entry of a state
\* that is reached anew is stale.
ReachSuccessors(batch) ==
    /\ AtRest
    /\ \A s \in Range(batch) :
           s \notin dead /\ reaches[s] + Cardinality(Occurrences(batch, s)) <= MaxReaches[s]
    /\ successors' = batch
    /\ reaches' = [s \in States |-> reaches[s] + Cardinality(Occurrences(batch, s))]
    /\ entry' = [s \in States |-> IF s \in Range(batch) THEN None ELSE entry[s]]
    /\ UNCHANGED <<config, child, records, dead, estimates, refutations, evaluation>>

\* The second phase evaluates one successor after the other.
EvaluateSuccessor ==
    /\ evaluation = Idle
    /\ Len(estimates) < Len(successors)
    /\ Begin(successors[Len(estimates) + 1], "reached")
    /\ UNCHANGED <<config, child, searchVars>>

IsCurrent(s) == ~ReevaluateOnEveryPop /\ records[s].revision >= Revision

\* A popped entry whose estimate is current is expanded.
PopCurrent(s) ==
    /\ AtRest
    /\ entry[s] # None
    /\ IsCurrent(s)
    /\ entry' = [entry EXCEPT ![s] = None]
    /\ UNCHANGED <<config, child, records, dead, reaches, successors, estimates,
                   refutations, evaluation>>

\* Otherwise its state is evaluated again.
PopOutdated(s) ==
    /\ AtRest
    /\ entry[s] # None
    /\ ~IsCurrent(s)
    /\ Begin(s, "popped")
    /\ UNCHANGED <<config, child, searchVars>>

Answered == evaluation \notin {Idle, Failed} /\ evaluation.next \notin Children

\* What the evaluation of a state comes to.
Result == Bounded(evaluation.state, evaluation.best)

\* record_evaluation: the revision is read after the evaluation.
Record(s, h) ==
    /\ records' = [records EXCEPT ![s] = [revision |-> Revision, h |-> h]]
    /\ refutations' = [refutations EXCEPT ![s] = IF h = DeadEnd THEN @ + 1 ELSE @]

FinishSuccessor ==
    /\ Answered
    /\ evaluation.phase = "reached"
    /\ Record(evaluation.state, Result)
    /\ estimates' = Append(estimates, Result)
    /\ evaluation' = Idle
    /\ UNCHANGED <<config, child, entry, dead, reaches, successors>>

\* Mutant: a popped entry is requeued also when its estimate has not risen.
EntryAlwaysRequeued(s, h) ==
    IF h = DeadEnd \/ h < entry[s].h THEN None ELSE [h |-> h]

\* What becomes of a popped entry: it is dropped (its state is a dead end, or
\* is expanded) unless its estimate has risen.
EntryAfter(s, h) == IF h = DeadEnd \/ h <= entry[s].h THEN None ELSE [h |-> h]

\* A popped state that turns out to be a dead end is marked at once.
FinishPopped ==
    /\ Answered
    /\ evaluation.phase = "popped"
    /\ Record(evaluation.state, Result)
    /\ entry' = [entry EXCEPT ![evaluation.state] = EntryAfter(evaluation.state, Result)]
    /\ dead' = IF Result = DeadEnd THEN dead \union {evaluation.state} ELSE dead
    /\ evaluation' = Idle
    /\ UNCHANGED <<config, child, reaches, successors, estimates>>

\* The third phase marks the dead ends and queues the others.  Of the entries
\* of a state found twice, that of its last and cheapest path is live, also if
\* the evaluation on the other path was a dead end.
QueueSuccessors ==
    /\ evaluation = Idle
    /\ Expanding
    /\ Len(estimates) = Len(successors)
    /\ dead' = dead \union {successors[i] : i \in {j \in DOMAIN successors : estimates[j] = DeadEnd}}
    /\ entry' = [s \in States |->
                    IF s \in Range(successors)
                    THEN LET h == estimates[Max(Occurrences(successors, s))]
                         IN  IF h = DeadEnd THEN None ELSE [h |-> h]
                    ELSE entry[s]]
    /\ successors' = <<>>
    /\ estimates' = <<>>
    /\ UNCHANGED <<config, child, records, reaches, refutations, evaluation>>

Init ==
    /\ config \in Portfolios
    /\ child = [c \in Children |-> NewChild(config[c])]
    /\ records = [s \in States |-> None]
    /\ entry = [s \in States |-> None]
    /\ dead = {}
    /\ reaches = [s \in States |-> 0]
    /\ successors = <<>>
    /\ estimates = <<>>
    /\ refutations = [s \in States |-> 0]
    /\ evaluation = Idle

Evaluate ==
    \/ AnswerProvenDead \/ AnswerEnvelope \/ Miss \/ FailToSolve
    \/ \E f \in Functions : LearnFunction(f)
    \/ \E r \in Rays : Certify(r)

Next ==
    \/ Evaluate
    \/ \E n \in 1..MaxSuccessors : \E batch \in [1..n -> States] : ReachSuccessors(batch)
    \/ EvaluateSuccessor \/ FinishSuccessor \/ QueueSuccessors
    \/ FinishPopped
    \/ \E s \in States : PopCurrent(s) \/ PopOutdated(s)

\* The search goes on as long as its list holds an entry.
Spec == Init /\ [][Next]_vars /\ WF_vars(Next)
=============================================================================
