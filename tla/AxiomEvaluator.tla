--------------------------- MODULE AxiomEvaluator ---------------------------
(***************************************************************************)
(* The axiom evaluator: closes a state under the comparison axioms and the *)
(* propositional axioms, layer by layer.  Each rule counts the conditions  *)
(* it still waits for; a literal that is announced on the queue satisfies  *)
(* one condition of every rule that reads it, and a rule that waits for    *)
(* nothing derives its head.                                               *)
(*                                                                         *)
(* The axioms reach it through the translator (AxiomRules), or in a SAS+   *)
(* file whose translator also wrote the rules for default values.  A       *)
(* buffer is closed again after each operator: it then still holds what    *)
(* was derived for the state before.                                       *)
(***************************************************************************)
EXTENDS AxiomRules, Sequences

CONSTANTS
    Inputs,         \* grounded axioms, and the literals the task observes
    States,         \* the values of fluents and conditions in states of the task
    MaxEvaluations  \* bound: states that are closed

InputType == [axioms : SUBSET AxiomType, observed : SUBSET (Derived \X {Proven, Default})]
StateType ==
    {s \in [Fluents \cup Conditions -> FluentValues \cup {0, 1}] :
        \A v \in Fluents \cup Conditions : s[v] \in Values(v)}

ASSUME InputsAssumption ==
    /\ Inputs \subseteq InputType
    /\ \A i \in Inputs : \A a \in i.axioms : Consistent(a.body)
ASSUME StatesAssumption == States \subseteq StateType
ASSUME EvaluationsAssumption == MaxEvaluations \in Nat

VARIABLES
    input,
    pc,
    rules,          \* the propositional axioms of the task
    axiomLayer,     \* the layers of conditions and derived variables
    defaultRules,   \* what the heuristics add to the rules
    state,          \* what the operators and the numeric state determine
    buffer,         \* the packed state
    layerNo,
    queue,          \* announced literals, popped from its end
    literal,        \* the literal that was popped last
    visiting,       \* the rules the current loop has yet to visit
    unsatisfied,    \* unsatisfied_conditions
    evaluations

task    == <<input, rules, axiomLayer, defaultRules>>
scratch == <<layerNo, queue, literal, visiting, unsatisfied>>
vars    == <<task, pc, state, buffer, scratch, evaluations>>

NoLiteral == <<>>

\* AxiomEvaluator::new: variables that are derived are reset to their default;
\* the closure starts from the others, if a rule reads them.
ResetVariables == DOMAIN axiomLayer \ Conditions
SeedVariables  == {v \in Variables \ ResetVariables : \E r \in rules : \E l \in r.body : l[1] = v}
IsLastLayer(layer) == \A v \in DOMAIN axiomLayer : axiomLayer[v] <= layer

\* nbf_info_by_layer: a condition is computed, not proven, so its default is never
\* announced; neither are the defaults of the last layer.
Unproven(layer) == {v \in ResetVariables : axiomLayer[v] = layer /\ buffer[v] = Default}

\* Every order of the elements of a finite set.
Orders(S) == {o \in [1..Cardinality(S) -> S] : \A x \in S : \E i \in DOMAIN o : o[i] = x}

Init ==
    /\ input \in Inputs
    /\ pc = "translate"
    /\ rules = {} /\ axiomLayer = <<>> /\ defaultRules = {}
    /\ state \in States
    /\ buffer = [v \in Variables |->
                    IF v \in Fluents THEN state[v] ELSE Default]
    /\ layerNo = 0 /\ queue = <<>> /\ literal = NoLiteral
    /\ visiting = {} /\ unsatisfied = [r \in {} |-> 0]
    /\ evaluations = 0

-----------------------------------------------------------------------------
(* handle_axioms, and the layers of the task: comparisons take the lowest.  *)

TaskLayers(layer) ==
    [v \in Conditions \cup DOMAIN layer |-> IF v \in Conditions THEN 0 ELSE layer[v] + 1]

Reject(outcome) == pc' = outcome /\ UNCHANGED <<rules, axiomLayer, defaultRules>>

\* The rules of the task are those of this translator, or of one that also says how
\* variables keep their defaults.
Accept(axioms, layer) ==
    /\ pc' = "compare"
    /\ axiomLayer' = TaskLayers(layer)
    /\ defaultRules' = DefaultValueAxioms(axioms, input.observed)
    /\ rules' \in {axioms, axioms \cup defaultRules'}

Translate ==
    LET remaining == Remaining(input.axioms, input.observed)
        simplified == Simplify(remaining)
    IN  /\ pc = "translate"
        /\ \/ ~ Stratifiable(remaining) /\ Reject("rejected")
           \/ /\ Stratifiable(remaining)
              /\ \E layer \in AxiomLayers(remaining) :
                    \/ ~ VerifyLayering(simplified, layer) /\ Reject("panicked")
                    \/ VerifyLayering(simplified, layer) /\ Accept(simplified, layer)
        /\ UNCHANGED <<input, state, buffer, scratch, evaluations>>

-----------------------------------------------------------------------------
(* The closure.                                                             *)

\* evaluate_comparison_axioms; without propositional axioms nothing follows.
EvaluateComparisons ==
    /\ pc = "compare"
    /\ buffer' = [v \in Variables |-> IF v \in Conditions THEN state[v] ELSE buffer[v]]
    /\ pc' = IF rules = {} THEN "closed" ELSE "seed"
    /\ UNCHANGED <<task, state, scratch, evaluations>>

\* Mutant: variables that were proven in the state before stay proven.
KeepProven == buffer

\* The derived variables start at their defaults.
Reset == [v \in Variables |-> IF v \in ResetVariables THEN Default ELSE buffer[v]]

\* seed_queue_from_state, on an empty queue; and the first half of
\* fire_trivial_rules, which starts the counters anew.
Seed ==
    /\ pc = "seed"
    /\ \E order \in Orders(SeedVariables) :
           queue' = [i \in DOMAIN order |-> <<order[i], buffer[order[i]]>>]
    /\ buffer' = Reset
    /\ unsatisfied' = [r \in rules |-> Cardinality(r.body)]
    /\ visiting' = {r \in rules : r.body = {}}
    /\ layerNo' = 0
    /\ pc' = "trivial"
    /\ UNCHANGED <<task, state, literal, evaluations>>

\* derive_literal
DeriveLiteral(r) ==
    \/ /\ buffer[r.head] = r.value
       /\ UNCHANGED <<buffer, queue>>
    \/ /\ buffer[r.head] # r.value
       /\ buffer' = [buffer EXCEPT ![r.head] = r.value]
       /\ queue' = Append(queue, <<r.head, r.value>>)

\* fire_trivial_rules: a rule without conditions holds in every state.
FireTrivial(r) ==
    /\ pc = "trivial"
    /\ r \in visiting
    /\ visiting' = visiting \ {r}
    /\ DeriveLiteral(r)
    /\ UNCHANGED <<task, pc, state, layerNo, literal, unsatisfied, evaluations>>

StartLayers ==
    /\ pc = "trivial" /\ visiting = {}
    /\ pc' = "propagate"
    /\ UNCHANGED <<task, state, buffer, scratch, evaluations>>

\* propagate_horn_rules: the next literal,
PopLiteral ==
    /\ pc = "propagate" /\ visiting = {} /\ queue # <<>>
    /\ literal' = queue[Len(queue)]
    /\ queue' = SubSeq(queue, 1, Len(queue) - 1)
    /\ visiting' = {r \in rules : literal' \in r.body}
    /\ UNCHANGED <<task, pc, state, buffer, layerNo, unsatisfied, evaluations>>

\* and one rule that reads it.
SatisfyCondition(r) ==
    /\ pc = "propagate" /\ r \in visiting
    /\ visiting' = visiting \ {r}
    /\ unsatisfied' = [unsatisfied EXCEPT ![r] = @ - 1]
    /\ \/ unsatisfied[r] # 1 /\ UNCHANGED <<buffer, queue>>
       \/ unsatisfied[r] = 1 /\ DeriveLiteral(r)
    /\ UNCHANGED <<task, pc, state, layerNo, literal, evaluations>>

\* enqueue_unproven_literals, at the fixpoint of a layer that is not the last.
EnqueueUnproven ==
    /\ pc = "propagate" /\ visiting = {} /\ queue = <<>>
    /\ ~ IsLastLayer(layerNo)
    /\ \E order \in Orders(Unproven(layerNo)) :
           queue' = [i \in DOMAIN order |-> <<order[i], Default>>]
    /\ layerNo' = layerNo + 1
    /\ UNCHANGED <<task, pc, state, buffer, literal, visiting, unsatisfied, evaluations>>

FinishClosure ==
    /\ pc = "propagate" /\ visiting = {} /\ queue = <<>>
    /\ IsLastLayer(layerNo)
    /\ pc' = "closed"
    /\ UNCHANGED <<task, state, buffer, scratch, evaluations>>

\* An operator leads to another state: a copy of the buffer with its effects.
ApplyOperator ==
    /\ pc = "closed" /\ evaluations < MaxEvaluations
    /\ state' \in States
    /\ buffer' = [v \in Variables |-> IF v \in Fluents THEN state'[v] ELSE buffer[v]]
    /\ pc' = "compare"
    /\ evaluations' = evaluations + 1
    /\ UNCHANGED <<task, scratch>>

Next ==
    \/ Translate
    \/ EvaluateComparisons
    \/ Seed
    \/ \E r \in visiting : FireTrivial(r) \/ SatisfyCondition(r)
    \/ StartLayers
    \/ PopLiteral
    \/ EnqueueUnproven
    \/ FinishClosure
    \/ ApplyOperator

Spec == Init /\ [][Next]_vars

=============================================================================
