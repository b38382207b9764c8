-------------------------- MODULE AxiomProperties --------------------------
(***************************************************************************)
(* What the axiom evaluator promises: the unique stable model of the       *)
(* axioms, whatever the layers, the order of the rules and of the queue,   *)
(* and what an earlier evaluation left behind.                             *)
(***************************************************************************)
EXTENDS AxiomEvaluator

Accepted == pc \notin {"translate", "rejected", "panicked"}
Evaluating == pc \in {"trivial", "propagate"}

\* Types.  A counter that went below zero would wrap around.
TypeOK ==
    /\ input \in InputType
    /\ pc \in {"translate", "rejected", "panicked", "compare", "seed", "trivial",
               "propagate", "closed"}
    /\ rules \cup defaultRules \subseteq RuleType
    /\ Accepted =>
           /\ axiomLayer \in [DOMAIN axiomLayer -> Nat]
           /\ DOMAIN axiomLayer \subseteq Conditions \cup Derived
           /\ Heads(rules) \subseteq ResetVariables
    /\ state \in States
    /\ buffer \in [Variables -> FluentValues \cup {0, 1}]
    /\ \A v \in Variables : buffer[v] \in Values(v)
    /\ layerNo \in Nat
    /\ queue \in Seq(Literals)
    /\ literal \in Literals \cup {NoLiteral}
    /\ visiting \subseteq rules
    /\ DOMAIN unsatisfied \subseteq rules
    /\ \A r \in DOMAIN unsatisfied : unsatisfied[r] \in Nat
    /\ Evaluating => DOMAIN unsatisfied = rules
    /\ evaluations \in 0..MaxEvaluations

\* The assertions of verify_layering_condition about layers never fail.  The one that
\* every variable with a layer has an axiom does, for a variable whose axioms all read
\* the variable itself: simplify drops them, and it keeps its layer.
OwnProofs(axioms) == {v \in Heads(axioms) : \A a \in axioms : a.head = v => <<v, Proven>> \in a.body}
LayersAreVerified ==
    pc = "panicked" => OwnProofs(Remaining(input.axioms, input.observed)) # {}

-----------------------------------------------------------------------------
(* The meaning of the axioms, without layers: the variables that are proven *)
(* are the least model of the axioms under the assumption that the others   *)
(* never are.                                                               *)

IsProven(v) == buffer[v] = Proven
Positive(l) == l[1] \in Derived /\ l[2] = Proven

\* Whatever the axioms prove from what S proves is in S.
IsClosed(S, axioms) ==
    \A a \in axioms : (\A l \in a.body : Positive(l) => l[1] \in S) => a.head \in S

\* The axioms whose other literals hold, and the smallest set closed under them.
Applicable(axioms) ==
    {a \in axioms : \A l \in a.body : ~ Positive(l) => buffer[l[1]] = l[2]}
Least(axioms) ==
    LET applicable == Applicable(axioms)
    IN  {v \in Derived : \A S \in SUBSET Derived : IsClosed(S, applicable) => v \in S}

\* A closed buffer is the stable model of the grounded axioms that matter, before any
\* of them was simplified away, and carries nothing over from the state before it.
ClosureIsStable ==
    pc = "closed" =>
        LET axioms == Remaining(input.axioms, input.observed)
        IN  /\ {v \in Heads(axioms) : IsProven(v)} = Least(axioms)
            /\ \A v \in Fluents \cup Conditions : buffer[v] = state[v]

\* In a closed buffer a variable is proven exactly if the body of one of its rules
\* holds: the fixpoint is complete, and nothing was derived in vain.
ClosureIsSupported ==
    pc = "closed" =>
        \A v \in Heads(Proving(rules)) :
            IsProven(v) <=> \E r \in Proving(rules) :
                                r.head = v /\ \A l \in r.body : buffer[l[1]] = l[2]

\* Rules for default values, which a task may bring along, never take back what was
\* proven in the same evaluation.
NothingIsRetracted ==
    [][Evaluating => \A v \in Derived : IsProven(v) => buffer'[v] = Proven]_vars

-----------------------------------------------------------------------------
(* What a delete relaxation sees of the axioms.                             *)

\* The literals that are reached from those of other variables when nothing that was
\* reached is ever taken back: the smallest set that the rules close.
Relaxed ==
    LET given == {l \in Literals : l[1] \notin ResetVariables /\ buffer[l[1]] = l[2]}
        closed == {S \in SUBSET (Derived \X {Proven, Default}) :
                       \A r \in rules \cup defaultRules :
                           r.body \subseteq given \cup S => <<r.head, r.value>> \in S}
    IN  given \cup {l \in Derived \X {Proven, Default} : \A S \in closed : l \in S}

\* What the task observes and holds in a state is reachable for a relaxation that
\* starts from the state's other values: no heuristic mistakes it for a dead end.
\* (Of a task that has rules for default values, heuristics refuse to add more.)
ObservedIsReachable ==
    pc = "closed" /\ rules = Proving(rules) =>
        \A l \in input.observed :
            l[1] \in Heads(rules) /\ buffer[l[1]] = l[2] => l \in Relaxed

-----------------------------------------------------------------------------
(* Why the closure is right: every literal is announced once, counters count *)
(* what was not announced yet, and a layer that is done never changes.       *)

\* One of the bodies fails if the other holds.  The empty body is opposed to any other:
\* it is only there for variables on cycles, and fires before anything is proven.
Opposed(body, other) ==
    \/ body = {} /\ other # {}
    \/ \E k \in body, l \in other : k[1] = l[1] /\ k # l

\* What the closure relies on: an axiom reads no layer above its own, and defaults
\* only below it; and a rule for a default value opposes the axioms of its head.
TaskIsSound ==
    /\ pc = "translate" => rules = {}
    /\ Accepted =>
           /\ \A r \in Proving(rules) : \A v \in ResetVariables :
                  /\ <<v, Proven>> \in r.body => axiomLayer[v] <= axiomLayer[r.head]
                  /\ <<v, Default>> \in r.body => axiomLayer[v] < axiomLayer[r.head]
           /\ \A q \in rules \ Proving(rules), r \in Proving(rules) :
                  q.head = r.head => Opposed(q.body, r.body)

InQueue == {queue[i] : i \in 1..Len(queue)}
Announced ==
    {<<v, buffer[v]>> : v \in SeedVariables}
    \cup {<<v, Proven>> : v \in {w \in ResetVariables : buffer[w] = Proven}}
    \cup {<<v, Default>> :
             v \in {w \in ResetVariables : buffer[w] = Default /\ axiomLayer[w] < layerNo}}

\* What r still waits for: what was not announced, or not popped and passed on to r.
Outstanding(r) ==
    {l \in r.body :
        \/ l \notin Announced
        \/ l \in InQueue
        \/ pc = "propagate" /\ r \in visiting /\ l = literal}

QueueIsFresh ==
    /\ InQueue \subseteq Announced
    /\ \A i, j \in 1..Len(queue) : queue[i] = queue[j] => i = j
    /\ pc = "trivial" => Announced \subseteq InQueue
    /\ pc = "propagate" /\ visiting # {} => literal \in Announced \ InQueue

VisitsAreDue ==
    \A r \in visiting : IF pc = "trivial" THEN r.body = {} ELSE literal \in r.body

CountersCount == \A r \in rules : unsatisfied[r] = Cardinality(Outstanding(r))

\* A rule that waits for nothing has fired, unless it is about to.
RulesFire ==
    \A r \in Proving(rules) :
        unsatisfied[r] = 0 /\ ~ (pc = "trivial" /\ r \in visiting) => IsProven(r.head)

ProvenIsJustified ==
    \A v \in ResetVariables : IsProven(v) =>
        \E r \in Proving(rules) :
            /\ r.head = v /\ r.body \subseteq Announced
            /\ pc = "trivial" => r.body = {}

\* In the layers below, a head is proven or its rules fail for good.
LayersAreSettled ==
    \A r \in Proving(rules) : axiomLayer[r.head] < layerNo =>
        IsProven(r.head) \/ \E l \in r.body : buffer[l[1]] # l[2]

\* The queue announces each literal once, each counter is the number of conditions
\* still to come, and neither a proof nor the absence of one is ever revised.
ClosureInvariant ==
    /\ TaskIsSound
    /\ Evaluating =>
           /\ pc = "trivial" => layerNo = 0
           /\ QueueIsFresh
           /\ VisitsAreDue
           /\ CountersCount
           /\ RulesFire
           /\ ProvenIsJustified
           /\ LayersAreSettled
    /\ ClosureIsSupported
=============================================================================
