--------------------------- MODULE StateRegistry ---------------------------
(***************************************************************************)
(* The state registry: each state a search reaches, stored once.  A        *)
(* registered state is packed: propositional values, and for each regular  *)
(* numeric variable the position of its value among the numbers interned   *)
(* so far.  The values of cost variables do not identify a state; a row of *)
(* them is kept for each state, that of the best metric value.  Constants  *)
(* are not stored.                                                         *)
(*                                                                         *)
(* A registry r has states, their rows and numbers, and an id is a         *)
(* position in its states.  Hashing, and the widths of ids and values, are *)
(* left out: the code compares states exactly, and panics when an id does  *)
(* not fit.  So are the intermediate sums that repeated additive effects   *)
(* leave among the numbers, and the order in which the numbers that one    *)
(* operator writes are interned.                                           *)
(***************************************************************************)
EXTENDS NumericTask

EmptyRegistry == [states |-> <<>>, rows |-> <<>>, numbers |-> <<>>]

Packed(t) == t.variables \cup OfType(t, "regular")
\* The non-derived bits.
Inputs(t) == Packed(t) \ Conditions(t)
DefersConditions(t) == Conditions(t) # {} /\ Inputs(t) # {}

NotFound == 0
IdIn(seq, x) == IF \E i \in DOMAIN seq : seq[i] = x THEN CHOOSE i \in DOMAIN seq : seq[i] = x ELSE NotFound

\* CompactNumericValues::intern, for each of xs
InternAll(numbers, xs) == numbers \o SetToSeq({x \in xs : IdIn(numbers, x) = NotFound})

Stored(t, r, i, v) ==
    IF v \in t.variables THEN r.states[i][v]
    ELSE CASE t.types[v] = "regular"  -> r.numbers[r.states[i][v]]
           [] t.types[v] = "cost"     -> r.rows[i][v]
           [] t.types[v] = "constant" -> t.init[v]
\* The values of a registered state: a view of it.
View(t, r, i) == [v \in DOMAIN t.init |-> Stored(t, r, i, v)]

Pack(t, numbers, s) ==
    [v \in Packed(t) |-> IF v \in t.variables THEN s[v] ELSE IdIn(numbers, s[v])]
Row(t, s) == [v \in OfType(t, "cost") |-> s[v]]

SameOn(vars, a, b) == \A v \in vars : a[v] = b[v]

\* lookup: the registered state that agrees with bins on what identifies a state.
Lookup(t, r, bins) ==
    LET mask == IF DefersConditions(t) THEN Inputs(t) ELSE Packed(t)
    IN  IF \E i \in DOMAIN r.states : SameOn(mask, r.states[i], bins)
        THEN CHOOSE i \in DOMAIN r.states : SameOn(mask, r.states[i], bins)
        ELSE NotFound

\* find_state_id: a number that was never interned is in no registered state.
Find(t, r, s) ==
    IF \A v \in OfType(t, "regular") : IdIn(r.numbers, s[v]) # NotFound
    THEN Lookup(t, r, Pack(t, r.numbers, s))
    ELSE NotFound

\* register_initial_state, in an empty registry
RegisterInitial(t) ==
    LET numbers == InternAll(<<>>, {t.init[v] : v \in OfType(t, "regular")})
    IN  [states |-> <<Pack(t, numbers, InitialState(t))>>,
         rows |-> <<Row(t, t.init)>>,
         numbers |-> numbers]

\* build_expansion_context: the parent's values are read once for its successors.
Context(t, r, i) == [parent |-> i, values |-> View(t, r, i)]

-----------------------------------------------------------------------------
(* apply_operator_in_context *)

\* Mutant: the row is always that of the last path.
KeepsNoRow(t, old, new) == FALSE

\* The old row stays if its metric value is strictly better.
KeepsRow(t, old, new) ==
    /\ t.metric \in OfType(t, "cost")
    /\ IF t.minimised THEN old[t.metric] < new[t.metric] ELSE old[t.metric] > new[t.metric]

\* Without an old state of these values the conditions are evaluated, and the state is stored.
Register(t, r, i, bins, s) ==
    IF i = NotFound
    THEN [r EXCEPT !.states = Append(@, bins), !.rows = Append(@, Row(t, s))]
    ELSE IF KeepsRow(t, r.rows[i], s) THEN r ELSE [r EXCEPT !.rows[i] = Row(t, s)]

ApplyInContext(t, r, context, o) ==
    LET op      == t.operators[o]
        after   == Computed(op, context.values, Assigned(op, context.values))
        written == {v \in OfType(t, "regular") : On(op.assignments, v, context.values) # {}}
        numbers == InternAll(r.numbers, {after[v] : v \in written})
        stored  == [r EXCEPT !.numbers = numbers]
        stale   == Pack(t, numbers, after)
        bins    == Pack(t, numbers, WithConditions(t, after))
        id      == Lookup(t, stored, IF DefersConditions(t) THEN stale ELSE bins)
    IN  [registry |-> Register(t, stored, id, bins, after),
         id       |-> IF id = NotFound THEN Len(r.states) + 1 ELSE id,
         cost     |-> StepCost(t, MetricValue(t, context.values), MetricValue(t, after))]
=============================================================================
