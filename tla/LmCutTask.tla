----------------------------- MODULE LmCutTask -----------------------------
(***************************************************************************)
(* The relaxed task of numeric LM-cut: facts and linear conditions, and for *)
(* every operator the relaxed operators that reach them.  A condition says *)
(* that a weighted sum of variables is at least 0, or above it.            *)
(*                                                                         *)
(* Left out are derived variables and the options that are off by default: *)
(* second-order effects, bounds, constant assignments of their own and     *)
(* ignore_numeric.  Comparisons do not read the cost variables, whose      *)
(* effects the helper ignores.  What it builds twice is built once here.   *)
(***************************************************************************)
EXTENDS ExplicitSpace

CONSTANT One        \* the value that stands for 1.0: with 10, 5 is one half

Regular(t) == OfType(t, "regular")
PositivePart(i) == IF i > 0 THEN i ELSE 0

-----------------------------------------------------------------------------
(* Linear expressions and conditions *)

Linear(t, v) ==
    [weights  |-> [x \in Regular(t) |-> IF x = v THEN 1 ELSE 0],
     constant |-> IF t.types[v] = "constant" THEN t.init[v] ELSE 0]

Scale(e, k) == [weights |-> [x \in DOMAIN e.weights |-> k * e.weights[x]], constant |-> k * e.constant]
Add(e, f) ==
    [weights  |-> [x \in DOMAIN e.weights |-> e.weights[x] + f.weights[x]],
     constant |-> e.constant + f.constant]
ValueAt(e, s) == e.constant + MapThenSumSet(LAMBDA x : e.weights[x] * s[x], DOMAIN e.weights)

Condition(e, strict) == [weights |-> e.weights, constant |-> e.constant, strict |-> strict]
Both(c, d) == Condition(Add(c, d), c.strict \/ d.strict)
IsEmpty(c) == \A x \in DOMAIN c.weights : c.weights[x] = 0

\* The conditions under which a comparison is true; the first stands for the group.
Group(t, c) ==
    LET k == t.conditions[c]
        above(v, w) == Condition(Add(Linear(t, v), Scale(Linear(t, w), -1)), k.comparison \in {"<", ">"})
    IN  CASE k.comparison \in {">=", ">"} -> <<above(k.left, k.right)>>
          [] k.comparison \in {"<=", "<"} -> <<above(k.right, k.left)>>
          [] k.comparison = "="           -> <<above(k.left, k.right), above(k.right, k.left)>>

\* A condition that must be false is dropped.
Groups(t, facts) == {Group(t, f[1]) : f \in {f \in facts : f[1] \in Conditions(t) /\ f[2] = 0}}
Facts(t, facts) == {f \in facts : f[1] \notin Conditions(t)}

\* Conditions that must hold together imply their sums: all of them within a list,
\* those of the first conditions across two lists.
Distinct(G, H) == {p \in G \X H : p[1] # p[2]}
Informative(sums) == {<<c>> : c \in {c \in sums : ~ IsEmpty(c)}}
Pairwise(G) ==
    Informative(UNION {{Both(c, d) : c \in Range(p[1]), d \in Range(p[2])} : p \in Distinct(G, G)})
Across(G, H) == Informative({Both(p[1][1], p[2][1]) : p \in Distinct(G, H)})

\* The groups of an operator's preconditions, and those of an effect's conditions.
Base(t, o) == LET G == Groups(t, t.operators[o].pre) IN G \cup Pairwise(G)
Local(t, o, when) == LET G == Groups(t, when) IN G \cup Pairwise(G) \cup Across(G, Base(t, o))

GoalGroups(t) == LET G == Groups(t, t.goals) IN G \cup Pairwise(G)

-----------------------------------------------------------------------------
(* Numeric effects *)

Assignments(t, o) ==
    {i \in DOMAIN t.operators[o].assignments : t.operators[o].assignments[i].var \in Regular(t)}
Assignment(t, o, i) == t.operators[o].assignments[i]

\* What an effect adds to its variable.
Delta(t, o, i) ==
    LET e == Assignment(t, o, i)
    IN  CASE e.operation = "plus"   -> Linear(t, e.source)
          [] e.operation = "minus"  -> Scale(Linear(t, e.source), -1)
          [] e.operation = "assign" -> Add(Linear(t, e.source), Scale(Linear(t, e.var), -1))

SimpleEffects(t, o) ==
    {i \in Assignments(t, o) : Assignment(t, o, i).operation # "assign" /\ IsEmpty(Delta(t, o, i))}
LinearEffects(t, o) == Assignments(t, o) \ SimpleEffects(t, o)
IsUnconditional(t, o, i) == Assignment(t, o, i).when = {}

\* Of two additive effects of an operator on x, the later one is kept.
SimpleEffect(t, o, x) ==
    LET on == {i \in SimpleEffects(t, o) : IsUnconditional(t, o, i) /\ Assignment(t, o, i).var = x}
    IN  IF on = {} THEN 0 ELSE Delta(t, o, Max(on)).constant
SimpleChange(t, o, c) ==
    MapThenSumSet(LAMBDA x : c.weights[x] * SimpleEffect(t, o, x), Regular(t))

\* What one application of o adds to a condition, apart from what its linear effects
\* read: a conditional effect counts if it helps.
Net(t, o, c) ==
    LET added(i)  == c.weights[Assignment(t, o, i).var] * Delta(t, o, i).constant
        always(i) == LET when == Assignment(t, o, i).when
                     IN  Facts(t, when) = {} /\ Groups(t, when) = {}
    IN  SimpleChange(t, o, c)
        + MapThenSumSet(LAMBDA i : PositivePart(added(i)),
                        {i \in SimpleEffects(t, o) : ~ IsUnconditional(t, o, i)})
        + MapThenSumSet(LAMBDA i : IF always(i) THEN added(i) ELSE PositivePart(added(i)),
                        LinearEffects(t, o))

\* How far above 0 a strict condition is once it is true: the precision of the
\* numbers its operators add, unless a linear effect changes it.
Precision(value) == IF value % One = 0 THEN One ELSE 1
Epsilon(t, c) ==
    LET operators == DOMAIN t.operators
        varies == \E o \in operators : \E i \in LinearEffects(t, o) :
                      c.weights[Assignment(t, o, i).var] # 0
    IN  IF ~ c.strict \/ varies THEN 0
        ELSE Min({Precision(c.constant)} \cup {Precision(SimpleChange(t, o, c)) : o \in operators})

-----------------------------------------------------------------------------
(* Propositions *)

Start == <<"start">>
End == <<"goal">>
Fact(f) == <<"fact", f>>
Slack(c, epsilon) ==
    <<"condition", [weights |-> c.weights, constant |-> c.constant - epsilon]>>
IsCondition(p) == p[1] = "condition"
Reaching(t, groups) == {Slack(c, Epsilon(t, c)) : c \in UNION {Range(g) : g \in groups}}
Preconditions(t, facts, groups) == {Fact(f) : f \in Facts(t, facts)} \cup Reaching(t, groups)
OrStart(pre) == IF pre = {} THEN {Start} ELSE pre

\* A linear effect moves its variable up only where its delta is positive, and
\* together with the conditions it is applied under.
Guards(t, o, i, sign) ==
    LET delta == Condition(Scale(Delta(t, o, i), sign), TRUE)
    IN  {Slack(c, 0) : c \in {delta} \cup
            {Both(delta, g[1]) : g \in Base(t, o) \cup Local(t, o, Assignment(t, o, i).when)}}

ConditionsOf(t) ==
    Reaching(t, {Group(t, c) : c \in Conditions(t)} \cup GoalGroups(t))
    \cup UNION {Reaching(t, Base(t, o))
                \cup UNION {Reaching(t, Local(t, o, e.when)) :
                            e \in Range(t.operators[o].effects) \cup
                                  {Assignment(t, o, i) : i \in LinearEffects(t, o)}}
                \cup UNION {Guards(t, o, i, 1) \cup Guards(t, o, i, -1) : i \in LinearEffects(t, o)} :
                o \in DOMAIN t.operators}

-----------------------------------------------------------------------------
(* Relaxed operators *)

NoOrigin == "no operator"

Relaxed(t, o, pre, effects, infinite) ==
    [origin |-> o, pre |-> pre, effects |-> effects, infinite |-> infinite,
     cost |-> IF o = NoOrigin THEN 0 ELSE PositivePart(t.costs[o])]

Under(t, o, when) ==
    Preconditions(t, t.operators[o].pre, Base(t, o)) \cup Preconditions(t, when, Local(t, o, when))

\* Each direction of a linear effect has an operator of its own, which takes a
\* condition any distance at once.
LinearOperators(t, o) ==
    LET linear == SetToSortSeq(LinearEffects(t, o), <)
        moved(i, sign) == {p \in ConditionsOf(t) : sign * p[2].weights[Assignment(t, o, i).var] > 0}
        infinite(i, sign) ==
            Relaxed(t, o, OrStart(Under(t, o, Assignment(t, o, i).when)) \cup Guards(t, o, i, sign),
                    moved(i, sign), TRUE)
    IN  FlattenSeq([k \in DOMAIN linear |-> <<infinite(linear[k], 1), infinite(linear[k], -1)>>])

\* So has an effect with conditions.
RelaxedOperators(t, o) ==
    LET effects == t.operators[o].effects
        conditional == SelectSeq(effects, LAMBDA e : e.when # {})
        added == {Fact(<<e.var, e.value>>) : e \in {e \in Range(effects) : e.when = {}}}
        helped == {p \in ConditionsOf(t) : Net(t, o, p[2]) > 0}
    IN  [k \in DOMAIN conditional |->
             Relaxed(t, o, Under(t, o, conditional[k].when),
                     {Fact(<<conditional[k].var, conditional[k].value>>)}, FALSE)]
        \o <<Relaxed(t, o, OrStart(Under(t, o, {})), added \cup helped, FALSE)>>
        \o LinearOperators(t, o)

GoalOperator(t) ==
    Relaxed(t, NoOrigin, OrStart(Preconditions(t, t.goals, GoalGroups(t))), {End}, FALSE)

RelaxedTask(t) ==
    LET operators == SetToSeq(DOMAIN t.operators)
        all == FlattenSeq([k \in DOMAIN operators |-> RelaxedOperators(t, operators[k])])
    IN  Append(SelectSeq(all, LAMBDA r : r.effects # {}), GoalOperator(t))

\* A proposition that no operator names is left out.
Mentioned(relaxed) == {Start, End} \cup UNION {r.pre \cup r.effects : r \in Range(relaxed)}

\* What holds in a state, and how far it is from a condition.
Need(p, s) == - ValueAt(p[2], s)
IsTrue(t, p, s) ==
    CASE p = Start      -> TRUE
      [] p = End        -> FALSE
      [] IsCondition(p) -> Need(p, s) <= 0
      [] OTHER          -> s[p[2][1]] = p[2][2]

-----------------------------------------------------------------------------
(* What the estimates rest on *)

\* How far p is from being true.
Distance(t, p, s) == IF IsTrue(t, p, s) THEN 0 ELSE IF IsCondition(p) THEN Need(p, s) ELSE 1

\* A relaxed operator whose preconditions hold in s reaches p, a condition by steps that
\* are not shorter than the one from s to u.
IsRelaxed(t, r, p, s, u) ==
    /\ \A q \in r.pre : IsTrue(t, q, s)
    /\ p \in r.effects
    /\ IsCondition(p) /\ ~ r.infinite => Distance(t, p, s) - Distance(t, p, u) <= Net(t, r.origin, p[2])

\* Whatever an operator of the task does in a state of S, one of its relaxed operators
\* does; and the goal operator is applicable in every goal state.
IsRelaxation(t, S) ==
    LET relaxed == RelaxedTask(t)
        propositions == Mentioned(relaxed)
    IN  /\ \A s \in S : \A o \in Applicable(t, s) : \A p \in propositions :
               Distance(t, p, Successor(t, o, s)) < Distance(t, p, s) =>
                   \E r \in Range(relaxed) :
                       r.origin = o /\ IsRelaxed(t, r, p, s, Successor(t, o, s))
        /\ \A s \in S : IsGoalState(t, s) => \A p \in GoalOperator(t).pre : IsTrue(t, p, s)

\* Relaxed operators belong to operators of the task and cost what these do, and there
\* is the one that reaches the goal; each has preconditions, their sets are finite and
\* numbers are whole.
IsProper(t, S) ==
    LET relaxed == RelaxedTask(t)
    IN  /\ NoOrigin \notin DOMAIN t.operators
        /\ relaxed \in Seq(Range(relaxed)) /\ GoalOperator(t) \in Range(relaxed)
        /\ \A r \in Range(relaxed) :
               /\ \/ r.origin = NoOrigin /\ r.cost = 0
                  \/ r.origin \in DOMAIN t.operators /\ r.cost = t.costs[r.origin]
               /\ r.pre # {} /\ IsFiniteSet(r.pre) /\ IsFiniteSet(r.effects)
               /\ \A p \in r.effects : IsCondition(p) => Net(t, r.origin, p[2]) \in Int
        /\ \A p \in Mentioned(relaxed) : \A s \in S : IsCondition(p) => Need(p, s) \in Int
=============================================================================
