--------------------------- MODULE CartesianCegar ---------------------------
(***************************************************************************)
(* The refinement of a Cartesian abstraction: initial splits, the first    *)
(* distances, and then the CEGAR loop.  Each iteration follows an optimal  *)
(* abstract plan from the abstract state of a concrete root state, by      *)
(* progression (running the plan) or regression (from the goal back),      *)
(* until a flaw asks for splits; one of them is selected and applied.      *)
(*                                                                         *)
(* Where a check of the code (ensure!, an assertion, a missing entry)      *)
(* would end the program with an error, no action is enabled; ChecksHold   *)
(* in CartesianProperties says that no such state is reached.              *)
(***************************************************************************)
EXTENDS CartesianFlaws

CONSTANTS
    Options,        \* the configurations
    MaxIterations,
    PollInterval    \* iterations between two looks at the memory limit

SplitRecords == [state : Nat, dimension : Dimensions, first : SUBSET Int, witness : Int]

ASSUME LimitAssumption == {MaxIterations, PollInterval} \subseteq Nat \ {0}
ASSUME SplitsAssumption ==
    \A t \in Tasks, c \in Options :
        /\ c.initial \in DOMAIN t.splits
        /\ t.splits[c.initial] \in Seq(SplitRecords)

VARIABLES
    root,           \* the concrete state that flaws are searched from
    initialSplits,  \* initial splits still to be made
    scan,           \* the state to be split next and the last one
    replay,         \* the concrete run along the abstract plan
    trace,          \* the abstract plan and what is regressed along it
    candidates,     \* splits to select from
    outcome

setup == <<task, root, options>>
cegarVars == <<initialSplits, scan, replay, trace, candidates, outcome>>
vars == <<setup, table, pc, iteration, stateVars, split, pending, pathVars, cegarVars>>

NoSplit  == Split(1, CHOOSE d \in Dimensions : TRUE, {}, 0)
NoReplay == [state |-> root, operators |-> <<>>, cost |-> 0, visited |-> {}]
NoTrace  == [plan |-> <<>>, step |-> 0, partial |-> Values]

Init ==
    /\ task \in Tasks
    /\ root \in task.roots
    /\ options \in Options
    /\ options.flaw = "regression" => task.regressable
    /\ pc = "initial" /\ iteration = 0
    /\ regions = <<TrivialRegion>>
    /\ hierarchy = [inner |-> Empty, leafState |-> [n \in {1} |-> 1], leaf |-> <<1>>]
    /\ TableInit /\ loops[1] = {o \in Names : MayTransition(TrivialRegion, o, TrivialRegion)}
    /\ split = NoSplit /\ pending = {}
    /\ paths = [distances |-> Empty, generating |-> Empty, dependents |-> <<>>,
                positions |-> Empty, goals |-> {}, invalid |-> {}]
    /\ queue = {} /\ todo = {} /\ heap = {}
    /\ initialSplits = task.splits[options.initial]
    /\ scan = <<1, 1>>
    /\ replay = NoReplay
    /\ trace = NoTrace
    /\ candidates = {}
    /\ outcome = [reason |-> "none", cost |-> 0]

Stop(reason, cost) ==
    /\ pc' = "done"
    /\ outcome' = [reason |-> reason, cost |-> cost]
    /\ UNCHANGED <<setup, table, iteration, stateVars, split, pending, pathVars,
                   initialSplits, scan, replay, trace, candidates>>

-----------------------------------------------------------------------------
(* apply_initial_splits *)

Divides(sp) == IsStrict(sp) /\ (sp.dimension \notin Numeric => sp.witness \in First(sp))

\* Mutant: the split that was tried on every state is tried again.
NextInitialSplitAgain == initialSplits' = initialSplits /\ scan' = <<1, Len(regions)>>

NextInitialSplit == initialSplits' = Tail(initialSplits) /\ scan' = <<1, Len(regions)>>

InitialSplit ==
    /\ pc = "initial"
    /\ LET sp == [Head(initialSplits) EXCEPT !.state = scan[1]]
       IN  \/ /\ initialSplits = <<>> \/ Len(regions) >= MaxStates
              /\ pc' = "compute"
              /\ UNCHANGED <<split, initialSplits, scan>>
           \/ /\ initialSplits # <<>> /\ Len(regions) < MaxStates
              /\ scan[1] > scan[2]
              /\ NextInitialSplit
              /\ UNCHANGED <<pc, split>>
           \/ /\ initialSplits # <<>> /\ Len(regions) < MaxStates
              /\ scan[1] <= scan[2]
              /\ scan' = <<scan[1] + 1, scan[2]>>
              /\ IF Divides(sp) THEN split' = sp /\ pc' = "apply" ELSE UNCHANGED <<split, pc>>
              /\ UNCHANGED initialSplits
    /\ UNCHANGED <<setup, table, iteration, stateVars, pending, pathVars,
                   replay, trace, candidates, outcome>>

InitialSplitDone ==
    /\ pc = "attach" /\ pending = {} /\ iteration = 0
    /\ pc' = "initial"
    /\ UNCHANGED <<setup, table, iteration, stateVars, split, pending, pathVars, cegarVars>>

-----------------------------------------------------------------------------
(* Selecting a split *)

Select ==
    /\ pc = "select"
    /\ candidates # {}
    /\ \E sp \in SelectedSplits(candidates) :
           IF RefinementLimit(sp) # "none" THEN Stop(RefinementLimit(sp), 0)
           ELSE /\ split' = sp
                /\ candidates' = {}
                /\ replay' = NoReplay
                /\ trace' = NoTrace
                /\ pc' = "apply"
                /\ UNCHANGED <<setup, table, iteration, stateVars, pending, pathVars,
                               initialSplits, scan, outcome>>

-----------------------------------------------------------------------------
(* The driver and the plan check *)

\* run_from and the start of check_abstract_plan.
Root == MapState(root)

StartIteration ==
    /\ pc = "check"
    /\ \/ iteration > MaxIterations /\ Stop("IterationLimit", 0)
       \/ iteration <= MaxIterations /\ iteration % PollInterval = 0 /\ Stop("MemoryLimit", 0)
       \/ iteration <= MaxIterations /\ options.timed /\ Stop("TimeLimit", 0)
       \/ /\ iteration <= MaxIterations
          /\ Root \notin DOMAIN paths.distances
          /\ Stop("DeadEnd", 0)
       \/ /\ iteration <= MaxIterations
          /\ Root \in DOMAIN paths.distances
          /\ pc' = IF options.flaw = "regression" THEN "walk" ELSE "replay"
          /\ UNCHANGED <<setup, table, iteration, stateVars, split, pending, pathVars, cegarVars>>

HasOptimalTransition(a) == a \in DOMAIN paths.generating /\ paths.generating[a] \in LiveKeys
OptimalTransition(a) == paths.generating[a]
KeepsDistance(a) ==
    LET k == OptimalTransition(a)
    IN  paths.distances[a] = Cost(k.operator) + paths.distances[k.target]

\* What operators lead to from the root.
RunOf(operators) ==
    FoldLeft(LAMBDA run, o :
                [applies |-> run.applies /\ Unsatisfied(Pre(o), run.state) = {},
                 state |-> Successor(run.state, o), cost |-> run.cost + Cost(o)],
             [applies |-> TRUE, state |-> root, cost |-> 0], operators)

\* A plan without a flaw is validated; it must cost as much as the root's distance.
IsPlan(operators, cost) ==
    LET run == RunOf(operators)
    IN  /\ run.applies
        /\ Unsatisfied(task.goals, run.state) = {}
        /\ run.cost = cost
        /\ cost = paths.distances[Root]
Conclude(operators, cost) == IsPlan(operators, cost) /\ Stop("ConcretePlan", cost)

Offer(C) ==
    /\ candidates' = candidates \cup C
    /\ pc' = "select"
    /\ UNCHANGED <<setup, table, iteration, stateVars, split, pending, pathVars,
                   initialSplits, scan, replay, trace, outcome>>

-----------------------------------------------------------------------------
(* Progression *)

Here   == MapState(replay.state)
Step   == OptimalTransition(Here)
Failed == Unsatisfied(IF Here \in paths.goals THEN task.goals ELSE Pre(Step.operator), replay.state)
Lands  == MapState(Successor(replay.state, Step.operator)) = Step.target

\* One split for each violated fact.
FactChoices(facts) ==
    {choice \in [facts -> UNION {FactSplits(Here, f, replay.state) : f \in facts}] :
        \A f \in facts : choice[f] \in FactSplits(Here, f, replay.state)}
Chosen(choice) == {choice[f] : f \in DOMAIN choice}
OfferFacts == \E choice \in FactChoices(Failed) : Offer(Chosen(choice))

Execute(newCandidates) ==
    /\ replay' = [state |-> Successor(replay.state, Step.operator),
                  operators |-> Append(replay.operators, Step.operator),
                  cost |-> replay.cost + Cost(Step.operator),
                  visited |-> replay.visited \cup {Here}]
    /\ candidates' = candidates \cup newCandidates
    /\ UNCHANGED <<setup, table, pc, iteration, stateVars, split, pending, pathVars,
                   initialSplits, scan, trace, outcome>>

Deviations == IF Lands THEN {} ELSE DeviationSplits(Step, replay.state)

\* A step that leaves the planned state can be split on, and not for a value that the
\* operator writes.
DeviationIsSplit ==
    /\ Deviations # {}
    /\ \A sp \in Deviations : sp.dimension \in Numeric \/ sp.dimension \notin Written(Step.operator)

\* What must hold when the replay is in abstract state Here: it is still on the
\* optimal abstract plan, which goes on, and every violated fact can be split on.
StepExists == HasOptimalTransition(Here) /\ KeepsDistance(Here)
ReplayIsSound ==
    /\ Here \in DOMAIN paths.distances
    /\ replay.cost + paths.distances[Here] = paths.distances[Root]
    /\ Here \in paths.goals \/ (StepExists /\ Len(replay.operators) <= Len(regions))
    /\ FactChoices(Failed) # {}
    /\ Here \notin paths.goals /\ Failed = {} /\ ~ Lands => DeviationIsSplit

\* replay_plan stops at the first flaw.
ReplayPlan ==
    /\ pc = "replay" /\ options.scope = "first"
    /\ ReplayIsSound
    /\ \/ Failed # {} /\ OfferFacts
       \/ Failed = {} /\ Here \in paths.goals /\ Conclude(replay.operators, replay.cost)
       \/ Failed = {} /\ Here \notin paths.goals /\ ~ Lands /\ Offer(Deviations)
       \/ Failed = {} /\ Here \notin paths.goals /\ Lands /\ Execute({})

\* replay_whole_plan goes on behind a flaw from where the operator really leads, even
\* if it does not apply, until it has been there, no plan leads on or the goal is met.
WholeReplayEnds == Here \in replay.visited \/ Here \notin DOMAIN paths.distances
WholeReplayIsSound ==
    IF WholeReplayEnds THEN candidates # {}
    ELSE /\ Here \in paths.goals \/ StepExists
         /\ FactChoices(Failed) # {}
         /\ Here \notin paths.goals /\ ~ Lands => DeviationIsSplit

ReplayWholePlan ==
    /\ pc = "replay" /\ options.scope = "whole_plan"
    /\ WholeReplayIsSound
    /\ \/ WholeReplayEnds /\ Offer({})
       \/ /\ ~ WholeReplayEnds /\ Here \in paths.goals /\ Failed = {} /\ candidates = {}
          /\ Conclude(replay.operators, replay.cost)
       \/ ~ WholeReplayEnds /\ Here \in paths.goals /\ Failed = {} /\ candidates # {} /\ Offer({})
       \/ ~ WholeReplayEnds /\ Here \in paths.goals /\ Failed # {} /\ OfferFacts
       \/ /\ ~ WholeReplayEnds /\ Here \notin paths.goals
          /\ \E choice \in FactChoices(Failed) : Execute(Chosen(choice) \cup Deviations)

-----------------------------------------------------------------------------
(* Regression: abstract_plan first, then back from the goal. *)

PlanEnd == IF trace.plan = <<>> THEN Root ELSE Last(trace.plan).target
Goal    == Required(task.goals, Values)

Trace(t) ==
    /\ trace' = t
    /\ UNCHANGED <<setup, table, iteration, stateVars, split, pending, pathVars,
                   initialSplits, scan, replay, candidates, outcome>>

PlanIsRegressable == ~ Contradictory(Goal) /\ Overlaps(Goal, regions[PlanEnd])
PlanGoesOn == Len(trace.plan) <= Len(regions) /\ HasOptimalTransition(PlanEnd)

Walk ==
    /\ pc = "walk"
    /\ \/ /\ PlanEnd \in paths.goals /\ PlanIsRegressable
          /\ pc' = "regress"
          /\ Trace([trace EXCEPT !.step = Len(trace.plan), !.partial = Goal])
       \/ /\ PlanEnd \notin paths.goals /\ PlanGoesOn
          /\ pc' = "walk"
          /\ Trace([trace EXCEPT !.plan = Append(@, OptimalTransition(PlanEnd))])

Current == trace.plan[trace.step]
Flaws ==
    IF trace.step > 0 THEN RegressionFlaws(Current, trace.partial)
                      ELSE InitialFlaws(Root, root, trace.partial)
PlanOperators == [i \in DOMAIN trace.plan |-> trace.plan[i].operator]

\* A first flaw must split its state strictly, and the preconditions of an operator
\* must not contradict each other.
RegressionIsSound ==
    /\ \A sp \in Flaws : IsStrict(sp)
    /\ trace.step > 0 => ~ Contradictory(Required(Pre(Current.operator), Values))

Regress ==
    /\ pc = "regress"
    /\ RegressionIsSound
    /\ \/ \E sp \in Flaws : Offer({sp})
       \/ /\ Flaws = {} /\ trace.step > 0
          /\ pc' = "regress"
          /\ Trace([trace EXCEPT !.step = @ - 1, !.partial = Regressed(Current, trace.partial)])
       \/ /\ Flaws = {} /\ trace.step = 0
          /\ Conclude(PlanOperators, RunOf(PlanOperators).cost)

-----------------------------------------------------------------------------
Refine ==
    \/ ApplySplit      /\ UNCHANGED <<setup, cegarVars>>
    \/ Detach          /\ UNCHANGED <<setup, cegarVars>>
    \/ Attach          /\ UNCHANGED <<setup, cegarVars>>
    \/ BeginDistances  /\ UNCHANGED <<setup, cegarVars>>
    \/ BeginRepair     /\ UNCHANGED <<setup, cegarVars>>
    \/ Invalidate      /\ UNCHANGED <<setup, cegarVars>>
    \/ Seed            /\ UNCHANGED <<setup, cegarVars>>
    \/ Expand          /\ UNCHANGED <<setup, cegarVars>>
    \/ FinishDistances /\ UNCHANGED <<setup, cegarVars>>

Done == pc = "done" /\ UNCHANGED vars

Next ==
    \/ InitialSplit
    \/ InitialSplitDone
    \/ Refine
    \/ StartIteration
    \/ ReplayPlan
    \/ ReplayWholePlan
    \/ Walk
    \/ Regress
    \/ Select
    \/ Done

\* Refinement is one thread that runs until it stops.
Spec == Init /\ [][Next]_vars /\ WF_vars(Next)
=============================================================================
