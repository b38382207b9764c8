--------------------------- MODULE CartesianFlaws ---------------------------
(***************************************************************************)
(* The splits that a flaw of an abstract plan asks for, and the selection  *)
(* among them.  A flaw is a fact the concrete run violates, a step that    *)
(* leaves the planned abstract state, or (regression) a partial state that *)
(* an abstract state, an operator or the root contradicts.                 *)
(*                                                                         *)
(* On the integers a split at a boundary, closed or open, is the set first *)
(* of the values on its first side.  Where the code takes variables in the *)
(* order of their numbers and the first flaw decides, any of them may.     *)
(***************************************************************************)
EXTENDS CartesianAbstraction

VARIABLE options    \* flaw, scope, kind, selection, blacklist, initial

Split(s, d, first, witness) == [state |-> s, dimension |-> d, first |-> first, witness |-> witness]

Below(d, v)  == {w \in Values[d] : w < v}
UpTo(d, v)   == {w \in Values[d] : w <= v}

-----------------------------------------------------------------------------
(* Selection *)

RefinementLimit(sp) ==
    IF sp.dimension \in options.blacklist THEN "NoRefinableFlaw"
    ELSE IF Len(regions) + 1 > MaxStates THEN "SizeLimit" ELSE "none"
Refinable(sp) == RefinementLimit(sp) = "none"

RetainIfAny(C, kept) == IF kept # {} THEN kept ELSE C
RetainRefinable(C) == RetainIfAny(C, {sp \in C : Refinable(sp)})
RetainMinGrowth(C) ==
    LET R == RetainRefinable(C)
        growth == [c \in R |-> ProjectedTransitionCount(c)]
    IN  {c \in R : \A other \in R : growth[c] <= growth[other]}

SelectedSplits(C) == IF options.selection = "min_growth" THEN RetainMinGrowth(C) ELSE RetainRefinable(C)

-----------------------------------------------------------------------------
(* Facts *)

\* split_failed_fact for a value of a propositional variable.
ValueSplits(s, f, state) ==
    {Split(s, d, {v[d] : v \in f.satisfying}, state[d]) : d \in f.dims}

\* split_comparison: a boundary at the witness's own value or, for wanted splits, at
\* a constant of the task.
Boundaries(d, state) ==
    {state[d]} \cup (IF options.kind = "wanted" THEN task.constants ELSE {})
ComparisonCandidates(s, f, state) ==
    LET at(d) == {Split(s, d, first, state[d]) :
                     first \in {Below(d, b) : b \in Boundaries(d, state)}
                               \cup {UpTo(d, b) : b \in Boundaries(d, state)}}
    IN  {sp \in UNION {at(d) : d \in f.dims} : IsStrict(sp)}

WitnessChild(sp) == SplitRegions(sp)[sp.state]
OtherChild(sp) == Last(SplitRegions(sp))
Guarantees(r, f) ==
    \A v \in {w \in [f.dims -> UNION {r[d] : d \in f.dims}] : \A d \in f.dims : w[d] \in r[d]} :
        v \in f.satisfying

ComparisonSplits(s, f, state) ==
    LET decides(sp)   == ~ Admits(WitnessChild(sp), f)
        separates(sp) == decides(sp) /\ Guarantees(OtherChild(sp), f)
        C == ComparisonCandidates(s, f, state)
        R == IF options.selection = "min_growth" THEN RetainMinGrowth(C) ELSE C
        W == IF options.kind = "wanted" THEN RetainIfAny(R, {sp \in R : separates(sp)}) ELSE R
        D == RetainIfAny(W, {sp \in W : decides(sp)})
    IN  IF options.selection = "min_growth" THEN D ELSE RetainRefinable(D)

IsComparison(f) == f.dims \cap Numeric # {}
FactSplits(s, f, state) ==
    IF IsComparison(f) THEN ComparisonSplits(s, f, state) ELSE ValueSplits(s, f, state)

-----------------------------------------------------------------------------
(* Deviations: the operator of k leads from state outside the state planned. *)

\* The values on the lower side of the bound of a preimage that faces v.
NumericFirst(d, v, preimage) ==
    IF v < Min(preimage) THEN Below(d, Min(preimage)) ELSE UpTo(d, Max(preimage))

DeviationSplits(k, state) ==
    LET o == k.operator
        target == regions[k.target]
        leaves == {d \in Dimensions : Successor(state, o)[d] \notin target[d]}
        preimage(d) == {v \in Values[d] : Image(o, d, v) \in target[d]}
        propositional == {Split(k.source, d, target[d], state[d]) : d \in leaves \ Numeric}
        numeric == {Split(k.source, d, NumericFirst(d, state[d], preimage(d)), state[d]) :
                       d \in {e \in leaves \cap Numeric : preimage(e) # {} /\ state[e] \notin preimage(e)}}
    IN  propositional \cup {sp \in numeric : IsStrict(sp)}

-----------------------------------------------------------------------------
(* Regression.  A partial state gives every dimension the values it may have; a    *)
(* propositional one has a single value or all.                                    *)

Required(facts, p) ==
    [d \in Dimensions |->
        {v \in p[d] : \A f \in facts : f.dims = {d} => [e \in {d} |-> v] \in f.satisfying}]
Contradictory(p) == \E d \in Dimensions : p[d] = {}
Overlaps(p, r) == \A d \in Dimensions : p[d] \cap r[d] # {}
Constrained(p) == {d \in Dimensions : p[d] # Values[d]}

\* The split of abstract state s that keeps wanted on one side, reached on the other;
\* its witness is on the side away from wanted.
Away(s, d, first, wanted) ==
    LET side == IF wanted \cap first # {} THEN regions[s][d] \ first ELSE regions[s][d] \cap first
    IN  Split(s, d, first, IF side = {} THEN 0 ELSE Min(side))
SeparateValue(s, d, wanted) == Away(s, d, wanted, wanted)
Separate(s, d, wanted, reached) ==
    Away(s, d, IF Max(reached) < Min(wanted) THEN Below(d, Min(wanted)) ELSE UpTo(d, Max(wanted)),
         wanted)
SplitNextTo(s, d, value, wanted) ==
    Away(s, d, IF value < Min(wanted) THEN UpTo(d, value) ELSE Below(d, value), wanted)

Preimage(o, d, wanted) == {v \in Values[d] : Image(o, d, v) \in wanted}

\* The flaws of the step k when p holds after it, case by case: the first case that
\* applies is reported.
RegressionFlaws(k, p) ==
    LET o == k.operator
        source == regions[k.source]
        required == Required(Pre(o), Values)
        image(d) == {Image(o, d, v) : v \in source[d]}
        falsified == {SeparateValue(k.target, d, p[d]) :
                         d \in {e \in (Constrained(p) \cap Written(o)) \ Numeric : image(e) \cap p[e] = {}}}
        kept == (Constrained(p) \ Written(o)) \ Numeric
        missed == {SeparateValue(k.target, d, p[d]) : d \in {e \in kept : source[e] \cap p[e] = {}}}
        contradicted == {SeparateValue(k.source, d, p[d]) :
                            d \in {e \in kept : source[e] \cap p[e] # {} /\ required[e] \cap p[e] = {}}}
        back(d) == Preimage(o, d, p[d])
        unreached == {Separate(k.target, d, p[d], image(d)) :
                         d \in {e \in Numeric : back(e) \cap source[e] = {}}}
        excluded == {Separate(k.source, d, back(d), required[d] \cap source[d]) :
                        d \in {e \in Numeric : /\ back(e) \cap source[e] # {}
                                               /\ back(e) \cap required[e] \cap source[e] = {}}}
    IN  IF falsified # {} THEN falsified
        ELSE IF missed \cup contradicted # {} THEN missed \cup contradicted
        ELSE unreached \cup excluded

\* Mutant: numeric preconditions are not regressed.
RegressedUnrequired(k, p) ==
    LET o == k.operator
        required == Required(Pre(o), Values)
    IN  [d \in Dimensions |->
            IF d \in Numeric THEN Preimage(o, d, p[d])
            ELSE IF d \in Written(o) THEN required[d] ELSE p[d] \cap required[d]]

\* The partial state before a step without a flaw.
Regressed(k, p) ==
    LET o == k.operator
        required == Required(Pre(o), Values)
    IN  [d \in Dimensions |->
            IF d \in Numeric THEN Preimage(o, d, p[d]) \cap required[d]
            ELSE IF d \in Written(o) THEN required[d] ELSE p[d] \cap required[d]]

InitialFlaws(s, state, p) ==
    {IF d \notin Numeric THEN SeparateValue(s, d, p[d])
     ELSE IF options.kind = "wanted" THEN Separate(s, d, p[d], {state[d]})
     ELSE SplitNextTo(s, d, state[d], p[d]) : d \in {e \in Dimensions : state[e] \notin p[e]}}
=============================================================================
