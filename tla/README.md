# PlanForge in TLA+

PlanForge is a planner for grounded numeric planning: a translator turns PDDL into SAS+, a task is searched by
A* or greedy best-first search under a heuristic (abstractions, cost partitioning, LM-cut, potentials, FF), and
a process wrapper enforces the limits and runs portfolios. This directory holds TLA+ specifications of eight of
its parts, the TLC models that check them on small instances, and TLAPS proofs of their main properties for
every value of the constants. All paths below are relative to `src/`.

The parts were chosen because their correctness needs many steps, and often several actors:

| part | specification | properties | model | proofs |
|---|---|---|---|---|
| best-first search, its nodes and open lists | `SearchTask`, `SearchSpace`, `OpenList`, `BestFirst` | `BestFirstProperties`, `PathSearch` (abstract) | `MCBestFirst` | `BestFirst_proofs` |
| wrapper, child process, portfolio | `PlannerProcess` | in the module | `MCPlannerProcess` | `PlannerProcess_proofs` |
| axioms, from layering to the closure of a state | `AxiomRules`, `AxiomEvaluator` | `AxiomProperties` | `MCAxioms` | `AxiomEvaluator_proofs` |
| Cartesian abstraction and goal distances | `TransitionTable`, `CartesianTask`, `CartesianAbstraction`, `CartesianFlaws`, `CartesianCegar` | `CartesianProperties`, `GoalDistances` (abstract) | `MCCartesian` | `CartesianAbstraction_proofs`, `CostPartitioning_proofs` |
| saturated cost partitioning | `CostPartitioning` | in the module | `MCCostPartitioning` | `CostPartitioning_proofs` |
| online potential heuristics and their maximum | `OnlinePortfolio` | `OnlinePortfolioProperties`, `HeuristicInterface` (abstract) | `MCOnline` | `OnlinePortfolio_proofs` |
| state registry and pattern databases | `NumericTask`, `StateRegistry`, `Projection`, `PatternDatabase`, `RegisteredSearch` | `PatternProperties` | `MCPatterns` | `PatternDatabase_proofs` |
| numeric LM-cut | `NumericTask`, `LmCutTask`, `LmCut` | in the module | `MCLmCut` | `LmCut_proofs` |

`PROJECT.json` maps every definition to the lines it models, lists the hazards the properties are aimed at, and
pairs each property with a plausible bug of the code that TLC finds with it (the definitions marked `Mutant:`).


## 1. Inventory

| component | state | operations | what is hard | what makes it correct |
|---|---|---|---|---|
| Best-first search (`planforge-search/src/search/best_first`) | open list, evaluation records, preferred operators, revision of the heuristic | `initialize`, `step`, `pop`, `expand` in three phases | stale entries, reopening, requeueing by a lazy heuristic and by multi-path dependence (mpd), errors in mid-expansion | no open node is lost; unsolvable only if it is; A* is optimal; it ends |
| Open lists (`open_list.rs`) | one or two heaps of entries | `push`, `pop` | tie-breaking, two heaps sharing entries | the priority order, preferred entries first |
| Search space (`search_space.rs`) | per state: cost, parent, operator, status bits | `reach`, `close`, `mark_dead_end`, `trace_path` | a cheaper path rewrites the whole status | costs and parents are real paths, acyclic |
| Limits and progress (`progress.rs`) | counters, last layer, next memory check | `limit_reached`, `report_layer`, `finish` | checked only at some expansions | counts and layers mean what they say |
| Heuristic interface (`evaluation/`) | revision, caches | `evaluate`, `revision`, `min_operator_cost` | the estimate of a state may grow during the search | estimates admissible, safe |
| Wrapper, watchdog, child, portfolio (`planforge/src`) | processes, exit codes, resident memory, padding, `sas_plan` | spawn, poll, kill, reap; reserve and release padding; write the plan; next stage | races between reading memory, exit and kill; death at any point; padding released by the allocator or a poll | exit codes are earned, 0 means an answer, children are reaped, the watchdog ends |
| Axiom evaluation (`planforge-sas/src/axioms.rs`) | state buffer, queue, counters, layers | comparisons, seeding, propagation, negation by failure | the buffer still holds the previous state's literals; a literal announced twice | the closure is the stable model, whatever the order |
| Rules for default values (`default_value_axioms.rs`) | none | which defaults matter, refuting bodies, cycles | cycles refute each other | never contradict a proof, never hide a reachable literal |
| Axiom layers (`planforge-translate/src/axiom_rules.rs`) | none | pruning, clusters, two layer strategies, simplification, assertions | layers computed before the axioms are simplified | its assertions hold |
| Goal distances (`planforge-search/src/graph.rs`) | heap, distances, generating labels | backward Dijkstra | tolerance, seeds, limits | distances admissible, labels lead to goals |
| Cartesian abstraction (`planforge-heuristics/src/abstractions/cartesian`) | regions, transitions, hierarchy, distances, dependents | split, rewire, invalidate, relax, replay | incremental repair after a split | transitions exact, distances equal to recomputed ones |
| ICAPS 2026 abstraction, domain abstractions, pattern databases, collections | abstractions under shared budgets | build, refine, look up | budgets, float intervals | admissibility |
| LM-cut (`planforge-heuristics/src/landmarks`) | counters, supporters, h^max values, remaining costs, touched operators | build the relaxed task, explore, cut, reduce, update, reset | repair of h^max after a cut; operators of one origin share a cost; what the last evaluation leaves behind | cuts are landmarks, h^max repaired is not above h^max recomputed, the loop ends |
| Cost partitioning, potentials, FF, combinations | cost functions, weights | saturate, optimise, maximise | rounding, revisions of combined heuristics | sums admissible |
| State registry (`planforge-sas/src/state_registry.rs`) | packed rows, hash index, cost rows | register, look up | values outside the identity belong to the first path | one id for one state, whose row is that of the node's path |
| Task, parser, writer; translator; successor generator; transformations; configuration; LP backend; Python bindings | input text, tables | pure functions of it | size | meaning preserved |

How they interact. The wrapper spawns the planner as a child and shares with it only the child's resident memory
(read through `/proc`), its exit status and the file `sas_plan`. In the child, the allocator, the construction
of the heuristic and the search are one thread. The search calls the heuristic and the search space directly; an
open-list entry refers to a node by state id and to the path by its cost, so that nodes can change while entries
wait. The search space applies operators through the registry, which closes each state with the axiom evaluator;
the evaluator gets its layers from the translator, through the SAS+ file. The heuristics read rules for default
values computed from the same axioms. A maximum asks its children in turn and adds up their revisions; a saturated
cost partitioning owns a sequence of abstractions and hands each what the earlier ones have left; a pattern
database is built by a search over a registry of its own.

`PROJECT.json` lists every component with what is left out, and 40 hazards at the line where each bites, each with
the properties that would catch it.


## 2. Best-first search

### Modules

`SearchTask` is what the search is given: states with their applicable operators in order, results, costs and
goals; the heuristic's estimates for each *revision* (`Heuristic::revision`: an online heuristic grows during
the search), a lazy second heuristic, preferred operators; and the cheapest operator cost with which
`bounded_estimate` raises estimates. `IsTask` says what the tables must satisfy: exact distances, estimates that
do not fall with the revision, and `Safe` heuristics, which call only dead ends dead ends. Admissibility is a
predicate of its own (`AdmissibleTask`), used only where optimality is claimed. In the task are also the exact
goal distances `hStar` and the length `steps` of a shortest cheapest plan, which no action reads: the properties
are stated with them. `SearchSpace` has the nodes of `search_space.rs` (`Reach`, `Close`, `MarkDeadEnd`,
`trace_path` as `TracedCost`); `OpenList` the keys of both orderings and the pop order of both lists.
`BestFirst` is the search. One state of the specification is one point between two calls that change state, so
the states inside an expansion are visible:

| action | code (`best_first/mod.rs`) |
|---|---|
| `InitializeDeadEnd`, `InitializeOpen` | `initialize`: the initial state is evaluated, pruned or queued |
| `Timeout`, `OutOfMemory` | `SearchProgress::limit_reached`, at the start of `step` |
| `PopExhausted`, `PopReevaluatedDeadEnd`, `PopReevaluatedHigher`, `PopLazyDeadEnd`, `PopLazyRequeue`, `PopGoal`, `PopExpand` | one turn of `pop`: stale entries are skipped, a grown estimate or a lazy one requeues the entry or prunes the state, otherwise the state is closed and is a goal or will be expanded |
| `BeginExpansion`, `Generate`, `EvaluateSuccessor`, `QueueDeadEnd`, `QueueSuccessor`, `NextPhase` | `expand`: it takes the preferred operators, then runs its three loops, one successor a step |
| `Fail` | an error returned by a heuristic or an effect, from any of those points |

`PathSearch` is the abstract specification: it knows for some states the cost of one path. A step improves one
state's cost through one transition of the task, or ends the search: with a known path to a goal, with the
claim, only when it is true, that there is no plan, or without an answer. `BestFirst` refines it, the costs
being those of the nodes (`ImplementsPathSearch`).

### Runs

* `search` (A* with admissible heuristics, lazy and mpd each on and off; greedy search with both open lists, estimates
  that are not admissible and preferred operators, also with limits and errors at any point): every reached open
  node has a live entry or is about to get one (`OpenNodesAreQueued`), and only one (`OneLiveEntry`); parents form
  no cycle (`PathsAreAcyclic`, with zero-cost cycles in the tasks); preferred operators belong to the last
  evaluation of the state expanded (`PreferredAreFresh`); a claim that there is no plan is right
  (`UnsolvableIsRight`), a plan of A* under an admissible heuristic a cheapest one (`SolvedCostIsOptimal`); the
  refinement (`ImplementsPathSearch`); the search ends (`Terminates`).
* `greedy_cost` and `metric_bound` end in counterexamples; see section 11.

That types hold (`TypeOK`), all transitions out of a closed node are relaxed (`ClosedNodesAreRelaxed`), the `expect`s of `pop` never panic (`EntriesHaveNodes`), parents are real transitions
(`PathsAreReal`), dead ends are dead ends (`DeadEndsAreReal`) and nodes only improve (`NodesOnlyImprove`) is
proved and not run again.

Bounds: five states, two operators, one growth of the heuristic (`MaxRevision = 1`), memory measured every
second expansion. The task families make the interesting cases happen: `Diamond` reopens a closed or queued node
on a cheaper path, also over zero-cost edges; `Double` generates one state twice in an expansion and has a
zero-cost cycle and a dead end; `Dead` reaches a dead end again, more cheaply, after it was recognised; `Trap`
has states from which no goal is reached; `CutOff` has no plan. The costs vary over small sets, and the
heuristic is perfect on every subset of the listed states and blind elsewhere, hence admissible and mostly
inconsistent; for greedy search it is twice the distance, or a constant elsewhere. Five states are enough for two different paths to a state with a successor of its own and a goal
behind it, which every hazard of reopening needs.

Fairness: `WF_vars(Next)`. The search is one thread that calls `step` until it returns an outcome; weak fairness
says that the thread is scheduled and that its calls return.

Deadlock is checked: an ended search stutters explicitly (`Done`).

### Proofs

`BestFirst_proofs` proves `TypeOK` and goes on in layers, each an inductive invariant
relative to those below: `Core` (types, the start of the search, entries with nodes and records, an expansion
that stays current while it runs); dead ends are real (`Pruned`, which also says it of the estimates that wait
for the third phase); open nodes are queued; closed nodes are relaxed. None of the last three is inductive
alone: that a node has a live entry needs to know which successors of the expansion in progress still wait to be
queued, and an expanding state that an operator leads back to must stay closed at the cost that was read. Their
main consequence is `CheapestPlanIsQueued`: as long as there is a plan, of the states reached on a cheapest one,
the one nearest to the goal (least `steps`) has a live entry; were it closed, it would have passed its path on.
So an empty list means that there is no plan (`UnsolvableIsRightAlways`), for every ordering, list and
interruption.

Its second part proves `AStarIsOptimal` under the condition `AStarOnly`: the ordering is A*'s, the list is the
default one, and tasks satisfy `AdmissibleTask` (estimates never exceed the distance, and no transition is
cheaper than the cheapest operator in the initial state). Two more layers are needed: no path is a shortcut past
the exact distances (`PathsAreNoShortcuts`), and no estimate in an entry or an evaluation that waits exceeds
them. The popped goal comes no later in the list than the entry of `CheapestPlanIsQueued`, so its cost is at
most that of a cheapest plan. The estimates need not be consistent, nor the same at different times.

It also proves that parents are real transitions from nodes that are no costlier, that they
never form a cycle (a cheaper path to a state cannot come from one of its descendants, which are no cheaper than
it was), that nodes only improve, and the refinement of `PathSearch`, one lemma for each kind of step. For
`OneLiveEntry` the invariant says in addition that no path that waits in an expansion has a live entry already and
that the paths that wait differ; for `PreferredAreFresh` that the operators stored are fresh for each live entry,
and for each successor evaluated in the expansion in progress.

Assumptions: `TasksAssumption` (each task satisfies `IsTask`), `ParamsAssumption`, `IntervalAssumption`, those
on the constants of `SearchTask`; and what `AStarOnly` adds where it is stated. TLC evaluates the named
assumptions of the modules in each run.

Only model-checked: `Terminates` (liveness).

### Abstractions

Costs are natural numbers: the code's `f64` sums are taken to be exact, and the truncation in `priority as i64`
is the identity. The counters `generated` and `evaluations` and the best-h report are left out: nothing reads
them. State ids and insertion orders are unbounded (the code panics when they overflow). Operator application
and state registration are the task's tables.


## 3. The process wrapper

`PlannerProcess` has two stages at most (a portfolio) or one (a single run). For each stage there is a child
with its phase, resident memory, padding and exit status, and, for the current stage, a wrapper.

| actions | code |
|---|---|
| `InstallHooks`, `RegisterHandlers` | `install_process_hooks` and `register_event_handlers` (`planforge/src/lib.rs`, `limits.rs`) |
| `Allocate`, `AllocationRecovers`, `AllocationFails` | the allocator (`allocator.rs`) and `release_padding_for_oom` (`resource_limits.rs`) |
| `Refine`, `StopAtPoll`, `FinishConstruction` | a construction that calls `poll_and_release_if_exceeded` every 64 refinements (`cegar.rs`) |
| `SearchSolves`, `SearchIsExhausted`, `SearchTimesOut`, `SearchOutOfMemory`, `TruncatePlan`, `CompletePlan`, `ExitSolved`, `ExitWithError` | the end of the search and `write_plan_file` (`output.rs`) |
| `CpuLimitReached`, `Crash` | signals, before and after the handlers are registered |
| `Spawn`, `SpawnFails`, `PollReaps`, `PollFindsAlive`, `Measure*`, `RetryLater`, `GiveUp`, `Kill`, `Wait` | `run_wrapped_process`, `wait_with_memory_limit`, `normalize_wrapped_exit` |
| `PortfolioFails`, `StageEnds` | `run_portfolio` (`portfolio.rs`) |

Every system call of the wrapper is a step of its own, and the child may do anything between two of them.

Run `process`: exit code 0 means an answer, with the whole plan on disk if it is a plan (`SuccessHasAnAnswer`);
out of memory and timeout are only reported when that limit was reached (`LimitsAreReal`); a child is reaped
before the next stage and the end, unless it could not be measured (`ChildrenAreReaped`); when the padding is
gone the construction stops at its next poll (`ConstructionStops`); a child at its limit is ended or releases
memory (`OverLimitIsStopped`); the watchdog goes on for ever only while it keeps measuring (`WatchdogEnds`).
`process_killed` ends in a counterexample (section 11).

Bounds: a limit of 4 units of memory of which one is headroom and one padding, a child may reach 5 (one above
its limit); 4 refinements with a poll every second one, so that a release can fall before, at and after a poll;
two failed readings. Single runs with both limits, memory only, none, and with an unreadable status; a portfolio
of a limited stage and one with memory only. A portfolio whose first child is abandoned alive is not run: two
living children exceed TLC's reach. The proofs cover it.

Fairness: `WF_vars(WrapperStep)`: the system schedules the wrapper, whose loop sleeps and polls. Nothing is
assumed of the children, which may run for ever.

Proofs (`PlannerProcess_proofs`): `ProcessInvariant` is inductive: the types; a child's status, phase and the
limits it hit agree (`ChildrenAreSound`); stages that have not begun have no child, those before have a code
(`StagesInOrder`); the wrapper's place agrees with the child's life and it only kills what reached its limit
(`WrapperIsHonest`); what a phase says of the plan file holds unless an orphan may write to it (`PlanIsWhole`);
a stage ends with 0 only after reaping a child that exited with 0 (`SuccessIsReaped`). From it follow
`LimitsAreReal`, `ChildrenAreReaped`, `SuccessHasAnAnswer` for every command line, limit and memory size, under
`ConfigsAssumption` and `BoundsAssumption`. `ConstructionStops` needs one more invariant, `NoPollIsPassed`: between
the release of the padding, by a poll or by the allocator, and the child's iteration lies no multiple of the
poll interval. Among as many consecutive numbers as the interval there is one (`SomeMultiple`), so the
construction goes on for less than an interval. Only model-checked: the two liveness properties.

Left out: the `DA_MEMORY_*` variables, the address-space limit and the hard CPU limit, SIGINT and SIGTERM,
systems without `/proc`, more than one construction in a child, and the failure branch of `try_reserve_exact`,
which the allocator makes unreachable (it ends the process first).


## 4. Axioms

`AxiomRules` is the translator's `handle_axioms` and the code that derives rules for default values, as
operators: `Remaining` (what nothing observes is dropped), `Stratifiable`, `LowestLayers` and `OwnLayers` (the
two layer strategies), `Simplify`, `VerifyLayering` (the assertions), `DefaultValueAxioms`. `AxiomEvaluator`
takes one grounded set of axioms through them (`Translate`) and closes a state, applies an operator to the
closed buffer, and closes it again. The order of rules, of the seed and of announcements is left open wherever
the code's order is that of an index.

| actions | code (`planforge-sas/src/axioms.rs`) |
|---|---|
| `EvaluateComparisons` | `evaluate_comparison_axioms` |
| `Seed`, `FireTrivial`, `StartLayers` | `seed_queue_from_state`, `fire_trivial_rules` |
| `PopLiteral`, `SatisfyCondition` | `propagate_horn_rules` with `derive_literal` |
| `EnqueueUnproven`, `FinishClosure` | `enqueue_unproven_literals`, the loop over the layers |
| `ApplyOperator` | `apply_effects_into` (`explicit_state.rs`), on a copy of the closed buffer |

Run `axioms`: the layering passes its assertions, with one exception discussed below (`LayersAreVerified`); the closed buffer is the stable model of
the grounded axioms, computed without layers (`ClosureIsStable`); a variable is proven exactly if one of its
bodies holds (`ClosureIsSupported`); a relaxation that uses the rules for default values reaches every observed
literal that holds (`ObservedIsReachable`). That nothing proven is taken back in an evaluation
(`NothingIsRetracted`) is proved and not run.

Bounds: one fluent with three values, one condition, three derived variables with 0 and 1; all axioms of
three shapes, grounded or not: one axiom for each variable (`Chains`), two for one of them (`Choices`), a cycle with a
way in (`Cycles`); bodies of at most two literals; one re-evaluation after an operator. Three variables give three
layers, or a cycle and a reader of it; a second evaluation is the first that meets a used buffer. No fairness is
assumed and no liveness stated. Deadlock is not checked in this run: a rejected task, a panic and the last closed
state end it.

Proofs (`AxiomEvaluator_proofs`): `ClosureInvariant` is inductive: axioms read no layer above their own, and
defaults only from below it, and rules for default values oppose the axioms of their head (`TaskIsSound`); each
literal is announced once (`QueueIsFresh`); visits are due (`VisitsAreDue`); a counter is the number of
conditions not yet passed on (`CountersCount`); a rule that waits for nothing has fired (`RulesFire`); what is
proven has a body that holds (`ProvenIsJustified`); a finished layer stays as it is (`LayersAreSettled`). It
yields that counters never wrap (`AxiomTypesOK`), `ClosureSupported` and `NoRetraction`. On top of it:

* `ClosureIsStableAlways`: what is proven is in every set that the applicable axioms close, since each proof, at the
  time it is made, has a body of literals announced before; and the proven variables are such a set, because
  simplification drops only axioms that others make superfluous.
* `LayersAreVerifiedAlways`: both layer strategies assign a layer to each remaining head. Their recursion is shown
  well founded over the clusters of mutually dependent variables; the assertions then follow from the order
  of the clusters, before simplification, and from what simplification can remove.
* `ObservedIsReachableAlways`: if an observed literal that holds were missed by the relaxation, take the missed one in
  the lowest layer: the rules derived for it or the axiom that proved it have a body of literals reached. For
  defaults on cycles this uses that a cycle's variables get their default unconditionally.

They hold for every set of axioms, both layer strategies, and every order of rules and queue, under
`VariablesAssumption`, `InputsAssumption` (no body holds a literal and its opposite), `StatesAssumption` and
`EvaluationsAssumption`. Nothing that is said of the axioms is only model-checked.

Left out: arithmetic (assignment) axioms and their division by zero; comparisons are their truth values; the
mode `ApproximateNegative`, which no heuristic asks for; the global constraint is one more observer. Two facts
worth knowing.

* The comment at `axioms.rs:454-465` speaks of refuting rules the translator no longer emits
  (`axiom_rules.rs:16-18`), but SAS+ files may bring them, so the model lets a task have them.
* The exception in `LayersAreVerified`: `simplify` (`axiom_rules.rs:416-437`) drops axioms that read their own head,
  but the variable keeps the layer it was given before, and the first assertion of `verify_layering_condition` then
  fails. This needs a variable all of whose axioms read it. Grounding seems to exclude that, since it instantiates only
  heads that are relaxed reachable (`GroundedNeverPanics` says that this would be enough); but the exploration ignores
  negative literals (`condition_to_rule_body` in `exploration_rules.rs`), and `instantiate_action`
  (`pddl/actions.rs:419-433`) drops an axiom later when a negated static atom is true. With a static `p` that
  holds, `(:derived (x) (or (not (p)) (x)))` leaves the one axiom that reads `x`.


## 5. Cartesian abstraction and goal distances

A Cartesian abstraction maps a state to a product of sets, one for each variable. `CartesianTask` is the task it
abstracts: conditions over one or more dimensions given by the tuples that satisfy them, and operators with a
function for each dimension they change. `TransitionTable` is the working abstraction of
`cartesian/working.rs`: numbered slots, the index of live transitions, incoming lists, free slots; its actions
take the transitions of a split state out one by one and put those of the two halves in. `CartesianAbstraction`
adds regions, the hierarchy of splits, and the shortest paths with their repair; `CartesianFlaws` the candidates
for splits; `CartesianCegar` the loop.

| actions | code |
|---|---|
| `InitialSplit`, `InitialSplitDone` | the splits made before the first computation (`initial_splits.rs`) |
| `Refine` (`ApplySplit`, `Detach`, `Attach`) | a split: strictness, transitions taken out and replaced one slot a step (`working.rs`, `refinement.rs`) |
| `Refine` (`BeginDistances`, `BeginRepair`, `Invalidate`, `Seed`, `Expand`, `FinishDistances`) | the first computation and every repair of the distances (`distances.rs`) |
| `StartIteration` | the loop's stopping criteria and the optimal abstract plan (`common/cegar`) |
| `ReplayPlan`, `ReplayWholePlan`, `Walk`, `Regress`, `Select` | the plan replayed forwards or regressed from the goal, one operator a step, and the choice among the flaws found |

Where the code would fail an `ensure!` or an assertion, no action is enabled; `ChecksHold` says that no such
state is reached.

`GoalDistances` is the abstract specification: the backward search of `planforge-search/src/graph.rs` for a fixed
set of transitions and seeds, with its tolerance, outdated heap entries and generating labels. Each computation
and each repair of the Cartesian abstraction is a run of it on the invalidated states
(`ImplementsGoalDistances`).

Run `cartesian`: a slot number in a list, the index or the stack of free slots stands for one transition
(`TableIsConsistent`); the hierarchy leads every state to the one region that contains it (`StatesAreMapped`);
the transitions are those the operators may take between the regions, though a split tests only the operators
that depend on its dimension (`TransitionsAreExact`); repaired distances are exact
(`DistancesAreExact`, stated by a certificate: no transition leads to a state that is nearer by more than its cost, and the
generating transitions are plans of just that cost, without a cycle); none of the program's checks fails
(`ChecksHold`); a concrete plan is a cheapest one and an abstract dead end a real one (`OutcomeIsRight`); the
refinement of `GoalDistances`; the loop ends (`Terminates`).

Bounds: a place with three values and two counters in -2..5; four tasks (`Travel` and `Reset` need both in turn,
`Sum` has a goal over two counters, `Gap` has no plan); six sets of options (progression and regression, one flaw
or the whole plan, both kinds of split, both selections, a time limit, initial splits with a blacklist). At most 7
abstract states, 5 iterations, the clock polled every third step; outcomes are compared with concrete plans of up to 5 steps
(`MaxSteps`), which all tasks but `Gap` have. Seven states need several splits of the same
dimension, whose transitions reuse slots, and repairs that reach more than one state. `Tolerance` is 1 and costs
are even, so that only a real difference is an improvement (`CostsAreResolved`, which the run evaluates). Fairness: `WF_vars(Next)`, since refinement is one
thread that runs until it stops.

Proofs (`CartesianAbstraction_proofs`):

* The types of the table and `TableIsConsistent`, by `TableInvariant`; between two steps of a removal, the incident
  slots are still in the lists and not yet free, which it says in addition. The refinement loop is a
  `TableSpec` (`CegarImplementsTable`): each of its steps is one of the table or leaves it alone.
* `StatesAreMapped`: each leaf of the hierarchy has its own abstract state, an inner node comes before its children,
  and a split divides the region of a leaf between the two new ones, so that a state follows one path, ending
  where its region is.
* `TransitionsAreExact`: between splits. Its invariant speaks of the middle of a split: the transitions present and those
  still `pending` are together those computed from scratch for the new regions, those of the split state
  excepted as long as they are being taken out. Halves inherit a transition untested when its operator does not depend on
  the dimension split, and that this is exact is the content of the proof.
* `AbstractionSimulates`, from the two: an operator that applies in a state leads to the same abstract state as its
  abstract transition, and goal states are in goal regions. So no abstract distance can exceed the concrete one.

In the second half of the same module: `DistancesAreExact`, by `PathsInvariant`, for every number of states and splits and every
task whose costs are multiples of more than the tolerance (`CostsAreResolved`; without it the code is exact only up to a
tolerance for each step of a plan). Its parts are those of the repair:

* At every time (`ArePaths`) a generating transition leads to a state that is nearer to the goal by at least its cost, and
  following them never ends in a cycle. After the first computation the lists of dependents are the inverse of the
  generating transitions, each state at its position (`Links`), which the `swap_remove` of an entry has to keep
  (`UnlinkKeepsLinks`, `LinkAllLinks`).
* While the slots of a split are rewired (`OldHolds`), the distances are those before it: of the transitions that are live,
  removed or pending, with both halves taken for the split state, none undercuts them, since each is a half of one that was
  there. A generating transition is still live, or leads from or to a half.
* While states are invalidated (`InvalidatedHolds`), an invalid state that still has a generating transition or is the target
  of one is in the queue. When the queue is empty, no state that keeps its distance depends on one that is invalid.
* In the repair (`AreRepairable`) the distances before the split are a lower bound: no transition undercuts them, no distance
  is below, and those that were kept are equal to them. So the open states can only be improved over open states, and
  what was kept stays right without being looked at.
* The boundary is tested state by state (`SeedHolds`); then each open state that has a distance is in the heap with it or
  no transition into it improves anything (`ExpandHolds`). When the heap is empty nothing is left to improve.

The order of the queue and of the heap beyond the distances is open in the proof and the queue's in the model.

Two results rest on these distances, under the same hypothesis:

* `OutcomeIsRight`, for every bound `MaxSteps` on the length of the plans. While the abstraction is at rest,
  `AbstractionSimulates` makes every step of the task a transition, which the exact distances do not undercut; by
  induction over the number of steps, in every state of the task a plan costs at least the distance of its abstract state.
* `ImplementsGoalDistances`: at the start of the loop the heap holds the goal states and the cheapest transitions
  that leave the open states, as a `Begin` of the abstract search does; an expansion is its `Expand`, since the open
  states and the transitions between them do not change and no other state can be improved (`OldHolds` again); the end is its `Return`.

Assumptions: `TaskAssumption`, `AbstractionAssumption`, `LimitAssumption`, `SplitsAssumption`, about the types of
tasks (root states are in the window), bounds and initial splits, and `CostsAreResolved` for the distances.

Of `GoalDistances` (at the end of `CostPartitioning_proofs`, since partitionings are computed from these distances), for
every graph and every natural tolerance: the types; a finished search
is settled, no transition improves a distance by more than the tolerance; following the recorded transitions leads
to a seed at no more than the distance; no distance is below the exact one. The invariant is `SearchInvariant`:
every state either is in the heap at its current distance or has relaxed its transitions.

Only model-checked: `ChecksHold` and `Terminates`.

Left out: propositional axiom facts, the finalised arrays, tie-breaking by rank and by seeded random numbers (any
flaw of the best may be taken), unbounded dimensions; of `GoalDistances`, the limit on expansions and infinite
costs.


## 6. Cost partitioning

`CostPartitioning` builds a saturated cost partitioning of a system of components, each an abstraction of the same
concrete states with labelled transitions: an order at a time, it takes for each component the goal distances
under the remaining costs, saturates them, and charges the operators.

| actions | code (`planforge-heuristics/src/abstractions/cost_partitioning`) |
|---|---|
| `InitialDeadEnd`, `Start` | one component already proves the initial state a dead end; otherwise an order begins, for the initial state or a sample |
| `SkipPass` | a pass with a perimeter around a state the component does not know |
| `Saturate`, `ReduceRegion`, `AddTable` | saturated costs, with or without the perimeter; one operator's cost reduced in the source sets of its transitions; the uniform costs subtracted and the table added |
| `FinishOrder`, `Retain` | the order ends, or the construction's time does; the partitioning is kept, a later one only if it improves a sample |

Run `costs`: an estimate drops along a step by no more than the part of the step's cost that was charged
(`PartitionIsConsistent`); no estimate, of a kept partitioning or of the one under construction, is above the cost of
a plan of at most `MaxSteps` steps, and no state with such a plan counts as a dead end (`EstimatesAreAdmissible`). That no allocation takes more than is left (`AllocationsFit`, the code's `ensure!`s) is
proved and not run. Deadlock is checked; `Stopped` stutters.

Bounds: six concrete states, four operators of cost 2 and 3, four components (two with regions, a pattern database
whose exploration ended early and has a frontier, one that sees only one variable), five sets of options (label and
region saturation, one and two passes, diversification, a limit that stops the construction anywhere, an initial
dead end), two orders. Plans have up to five steps, the longest without a repetition in six states. Four operators with different costs in four abstractions are enough for a component to find
part of a cost charged in one region and uniformly elsewhere.

Proofs (`CostPartitioning_proofs`), for every system: `CostInvariant` consists of the types, remaining costs that
are never negative and whose cached minimum is current (`RemainingIsSound`), an estimate that leaves room for what
remains (`PartitionLeavesRoom`), and, between saturation and the table, saturated costs that fit and that pay for
the table (`ChargesFit`, `TableIsCharged`). It is needed because in the middle of a component some operators are
charged and the table is not yet in the sum. Theorems: types, `PartitionIsConsistent`, `AllocationsFit`, that
every kept estimate is consistent, and `EstimatesAreAdmissible` for every `MaxSteps`: an estimate that is consistent
and zero at the goals is at most what any plan costs, by a least counterexample in the number of steps, for which the
values of the recursive function `PlanCosts` are first shown to exist. Assumptions: `CostAssumption`;
`SystemAssumption`, that each step of the task is abstracted by each component (the property `StepsAreAbstracted` of
run `patterns`, the theorem `AbstractionSimulates` of a Cartesian one) and that goals are seeds of the abstraction;
`DistanceAssumption`, that distances are settled (proved of `GoalDistances`, at tolerance 0); `MaxStepsAssumption`.
Nothing of this run is only model-checked.

Abstractions: costs are whole numbers, tables are functions of the state, and any order may be taken, which covers
the greedy and optimised ones of the code. `Retain` leaves out that orders required to cover goals are kept whatever
the samples say, also beyond `max_orders` (`diverse_orders.rs:75-97`): any order may be the first, and every property is
about one partitioning, kept or under construction, so that keeping more of them changes nothing.


## 7. Online potential heuristics and their maximum

`OnlinePortfolio` has a sequence of potential heuristics (`potentials/heuristic.rs`), each with its functions, rays
(certificates of dead ends), counters and limits, under a maximum (`combinations/maximum.rs`), and what the search
keeps of their answers: a record with the revision for each state, and an entry that waits.

| actions | code |
|---|---|
| `ReachSuccessors` | first phase of `expand` (`reach_successors`, `search_space.rs:133-159`): paths to some successors are recorded, to a state twice if the second is cheaper |
| `EvaluateSuccessor`, `FinishSuccessor` | second phase: one successor after the other is evaluated and the answer recorded, none is marked or queued yet |
| `QueueSuccessors` | third phase: dead ends are marked, the others queued |
| `PopCurrent`, `PopOutdated`, `FinishPopped` | `pop`: a popped state is evaluated again if the revision has grown or the heuristic asks for it; then it is expanded, requeued, or marked at once |
| `AnswerProvenDead`, `AnswerEnvelope` | an answer from the rays and functions a child has |
| `LearnFunction`, `Miss`, `Certify`, `FailToSolve` | an LP is solved: it returns a function that improves the state, one that does not, a ray, or an error |

What an LP returns is a nondeterministic choice among functions and rays. `HeuristicInterface` is the abstract
specification, the promise of the trait: estimates only grow, and with every growth the revision does. The maximum
over the children that count their growth refines it (`ImplementsHeuristicInterface`).

Run `online`: a record as old as the revision is no smaller than what any counting child answers now
(`RecordsAreCurrent`), although the maximum only adds up revisions; an evaluation of a state is below an earlier one
only if that was a dead end, in an expansion that found the state twice (`EstimatesNeverFall`; so the assertion in
`pop` holds); LPs beyond the limit are paid for by answers that a state is a dead end, of which a state has at most
one for each path recorded to it and which mark it, at the latest when the expansion is over (`SolvesAreBounded`; the
history variable `refutations` counts the answers); every entry is expanded or pruned (`EntriesAreAnswered`); the
refinement.

Bounds: three states, one a dead end; two functions, each best somewhere; one ray; the goal is reached at most once and
the others twice, by expansions that record at most two paths, to the same state or to two; eight maxima of two children, which learn and count, learn only from new states, are asked at every pop, forget
rays, or never learn. Fairness: `WF_vars(Next)`: the search pops as long as its list holds an entry. Deadlock is
not checked, since the list may become empty.

Proofs (`OnlinePortfolio_proofs`), for every maximum, every set of functions and rays: `OnlineInvariant` says in
addition to the types that only children that may learn have an optimizer; that successors are evaluated in order and
neither queued nor marked meanwhile, that the last answer about each is its record, and that a record that says dead
end is of a state marked or about to be (`ExpansionsAreOrdered`, `EstimatesAreRecorded`, `QueuedAreAlive`); that
children asked are below the best answer so far, finite records come from answers, and revisions are not from the
future; without the last two a record could be outdated and look current. Theorems: types, `RecordsAreCurrent`,
`EstimatesNeverFall`, the refinement, and `SolvesAreBounded` with two more invariants: an LP is solved only with room
for it (`SolvesHaveRoom`), and the paths recorded to a state are at least its dead-end answers and the evaluations
still to come (`PathsPay`). Assumptions: `PortfolioAssumption` and `ConfigurationAssumption`. `EntriesAreAnswered` is only model-checked.

Three facts worth knowing. With the default options (`cache_estimates`, no `invalidate_online_cache_on_growth`) a
heuristic adds functions but neither raises its revision nor asks to be evaluated at every pop, so what
`evaluation/heuristic.rs:90-94` says of the revision holds only of the children the model calls counting. And the
early return after a certificate skips the limits on LPs, functions and misses, which is why the bound of
`SolvesAreBounded` counts dead-end answers. Third, `best_first/mod.rs:297-299` says that evaluating all successors
before any is queued is the same as processing each completely before generating the next. It is not for a state
found twice whose first answer is a dead end with a forgotten certificate: processed completely, it would be marked
and its second path dropped; as it is, the second evaluation may be finite and the state is queued although marked.
The heuristics of `BestFirst` are functions of the revision and do not show this.


## 8. State registry and pattern databases

`NumericTask` is a numeric task: propositional variables, conditions that compare two numbers, regular, constant
and cost numbers, operators with conditional effects and assignments, goals, a metric. `StateRegistry` gives ids
to states (`state_registry.rs`): the identity leaves out what is derived and the cost rows, which belong to the path
that registered the state first; an expansion context keeps the parent's row. `Projection` is the abstract task of a
pattern (`projection.rs`); `PatternDatabase` explores it and answers lookups; `RegisteredSearch` composes the
registry with the nodes of `SearchSpace` (an `INSTANCE`) in a search that expands in any order.

| actions | code |
|---|---|
| `Explore`, `Build` | one expansion of the abstract state space with its registry, or its end at the limit on states; the distances, the frontier's heuristic values, relevant operators (`pattern_database.rs`) |
| `Start`, `Expand`, `Prune` | the search on the task itself, through registry and search space |

Run `patterns`: an id stands for one state, no state has two, and the operators of the recorded path, applied one
by one, lead to it, at a cost that is the one of the state's row, although rows and nodes are kept by different
rules (`IdsAreStates`); every step of the task from an abstract state that was expanded is a transition labelled
with it, or stays there (`StepsAreAbstracted`); no lookup is above the distance, on the frontier and beyond it
(`EstimatesAreAdmissible`). `conditional_effects` ends in a counterexample (section 11).

Bounds: `Tank` (a state reached with different rows), `Profit` (its metric maximised), `Levels` (numbers copied,
swapped, and added to twice by one operator), `Switch` (conditional effects, dead ends, no metric); patterns of at
most two variables; explorations that end at one state, at three, or are complete, by a blind or an LM-cut search;
three pairs of inner heuristics. At most 8 states. No fairness and no liveness: the search ends at the bound, hence
`CHECK_DEADLOCK FALSE`.

`LmcutEstimate`, the inner heuristic, is a constant of the model, exact up to 2 in the instance; section 9 has the
heuristic itself. `TrueDistances` is one too: of each task the states that can be reached and their goal distances. Its
assumptions say which these are, without computing them: the states are the least set with the initial state that operators do
not leave; no operator beats a distance, and from every set of states that are no goals and have plans a cheapest plan
leads out. `MCPatterns` computes the values with the fixpoints of `ExplicitSpace`, and TLC checks the assumptions on them.

Proofs (`PatternDatabase_proofs`), for all tasks, sets of states, patterns and limits:

* `IdsAreStates`, by `SearchInv`: the registered states are the packed forms of states of the task, no two of which
  differ in rows at most; and `IsSearch`: the first state is the initial one and has no parent, a node that was
  reached has a parent that was, whose state leads to its own by the recorded operator at a cost that its g covers, and
  the row of every state that is no dead end is worth its g exactly. Two things make this hard. A lookup under the mask
  of underived bits sees conditions of the parent, so that two states are the same exactly if they agree on the
  rest (`LookupFacts`); and a path is replayed on the rows of today, while its operators were applied to
  those of their time. Effects read no cost variable and only add to the metric, so that like states stay alike
  and what each step adds is the same (`LikeSteps`); an improved ancestor only lowers what the replay pays; and no set of
  states has only parents among themselves (`IsRooted`), so that every path starts at the root. That no
  operator is paid for being applied (`PricesAssumption`) keeps the root in place.
* `StepsAreAbstracted`, by `DatabaseInv`: of the states of the abstract registry each is closed, in the open list, or a dead
  end of the exploration, and of a closed state every applicable operator leads to a registered state over a
  recorded transition (`IsExploration`; `IsGenerating` in the middle of an expansion). That projecting and applying an
  operator commute (`KeptSteps`, `DroppedSteps`, `ProjectedInitialState`) rests on the closure of the pulled numbers under
  their sources, and on the hypothesis `EffectsAreProjected`: the conditions of the effects that a projection keeps
  are in it. The code does not see to that; `conditional_effects` shows what happens.
* `EstimatesAreAdmissible`, from `DatabaseInv`: the states that left the queue of `backward_dijkstra` are final, so that no
  distance is above a seed or above the way through a transition (`GoalDistancesFacts`). A set of states whose estimates are
  too high is left by a cheapest plan, over a transition whose cost is at most the price; and a state that is no goal of
  the projection is worth its cheapest operator, by the same argument (`CheapestIsPaid`). If nothing is on the frontier,
  the states with an abstract state or without a plan include the initial one and are not left: they are all
  (`UnknownStates`). Hypotheses (`IsAdmissiblyProjected`): `EffectsAreProjected`; estimates of LM-cut in the
  projection are numbers and admissible; no operator gets cheaper than in the initial state (`CostsArePaid`), as in section 11.

The instance satisfies what the proofs assume (`MCTasksAssumption`), but for the tasks of `conditional_effects`.

Left out: propositional and assignment axioms, hashing and bit widths, `register_state` of an external state, the
dense table, tolerances, the choice of patterns, cost-partitioned tables.

## 9. Numeric LM-cut

`LmCutTask` builds the relaxed task from a `NumericTask`: facts, linear conditions (a weighted sum is at least 0),
the sums of conditions that must hold together, and for each operator its relaxed operators: one for the effects
that always happen, one for each effect with conditions, and two for each linear effect, which reach a condition
from any distance. `LmCut` evaluates states with it and keeps what the code keeps between two evaluations.

| actions | code (`planforge-heuristics/src/landmarks`) |
|---|---|
| `Recall`, `Evaluate` | `evaluate` (`lm_cut_numeric_heuristic.rs`): a kept estimate, a goal state, or an evaluation, for which what the last one touched is reset (`exploration.rs`) |
| `Explore` | one proposition of `first_exploration` |
| `Update` | one proposition of `first_exploration_incremental`: operators whose supporter became cheaper choose again |
| `Cut` | `compute_landmarks_impl` and `second_exploration` (`cut.rs`): the goal zone, what is reached before it, the cut, its cost taken from all relaxed operators of its origins, and the start of the update |
| `Conclude` | the goal costs nothing any more, or was not reached |

An assertion of the code that fails leads to the phase `"failed"`, which nothing leaves.

Run `lmcut`: once its queue is empty, a first exploration has computed h^max, and an incremental one has reached the
same propositions at no higher costs (`ExplorationsAreBounded`), although it looks only at the operators of the cut
and at supporters; the reference, `HMaxFromNothing`, applies all operators in rounds. Each plan of the task
itself, not of the relaxed one, uses an operator of each cut (`CutIsALandmark`); no estimate exceeds the exact
distance and only dead ends are infinite, whatever was evaluated before (`EstimateIsAdmissible`); each evaluation
ends, and with an answer, so that no assertion fails (`Terminates`).

Bounds: five tasks: `Tank` (strict, weak and negated conditions on one or two variables), `Switch` (conditional
effects, an operator without preconditions, no numbers), `Copy` (a number that is assigned and grows by another,
an equation), `Pour` (a conditional addition), `Chain` (see below); the default options and each option of the multipliers alone
(`ceiling`, `irmax`, `disable_ma`); two evaluated states of each task, in either order, since an evaluation finds
what the one before left. The tasks give several cuts in an evaluation, operators of one origin in and out of
a cut, supporters that change, and dead ends. Costs are exact fractions; where the code's order is that of an
index (the next proposition of least cost, the order of origins in a cut), the model leaves it open, except the
choice of a supporter among several of the same cost.

Fairness (`FairSpec`): an evaluation that is not over takes another step: it is a loop of one thread. It is written
out rather than as `WF_vars`, whose `ENABLED` evaluates every action twice; deadlock is checked, so that until the
evaluation ends there is a step to take.

Proofs (`LmCut_proofs`), for all tasks, states, options and evaluations before. `TrueDistances` is a constant as in section 8,
with the same assumptions. The argument has four steps:

* `EvaluationInv`: an operator's counter is at most the number of its preconditions that are still to be popped, and an
  operator whose counter is 0 has a supporter that is reached and has been applied: what it leads to is reached
  (`AreSupported`); its costs are at most those of the task; whatever was not touched is as initialised. It is kept
  when costs fall, since a proposition's value never becomes infinite again, and when `Supported` replaces a supporter.
  The order in which operators and origins are processed does not matter (`ImproveAllFacts`, `ImproveInTurnFacts`).
* `CutIsALandmark` (`CutsAreLandmarks`): what is before the goal zone is closed under the relaxed operators but for the
  edges of the cut (`EdgesLeaveBefore`), and the goal operator's supporter is behind (`GoalIsBehind`): no state that is
  reached without the cut's operators makes a proposition true that is not before the zone (`StepsOutAreCut`, `CutSeparates`).
  A dead end is infinite for the same reason (`DeadEnds`, `InfiniteIsDead`).
* `PotentialInv` (`CutsAreBounded`): the cuts so far leave each operator `left[o]` of its cost, and a function on the states,
  the potential, is at most 0 in goals, falls along each step by at most what is taken of its operator, and is at least the
  total in the state. A cut adds to it the least, over all propositions that are not before the zone, of how far each is from
  holding, weighted so that each is worth the cost of the cut in the state (`Rise`); a step that comes nearer to such a
  proposition has an edge, which counts how often the operator would be needed, and so pays its share (`StepIsCharged`,
  with `StepIsPaid` for the arithmetic). Fractions have a common denominator, which exists for finitely many (`CommonMultiple`).
* `EstimateIsAdmissible` (`EstimatesOfCutsAreAdmissible`): a potential is below the goal distances, since a set of states where
  it is not would be left by a cheapest plan (`PotentialsAreAdmissible`); when an evaluation ends, the total is the estimate.

Apart from that, `ExplorationsAreBounded` (`ExplorationsStayBounded`) from `ProperTasks` alone. Its invariant, `HMaxInv`, says of an operator
whose preconditions are all reached that what it leads to costs no more than through the value noted for its supporter, and that this is the supporter's
value unless the supporter is queued (`AreBounded`); of a first exploration that what is popped costs no more than what is queued, that the
counters count what is popped (`IsOrdered`), and that each value is at least the price through an operator whose preconditions are popped and of
lower rank (`HasPrices`);
and of an incremental one that what is reached still has ranks (`HasRanks`). While `Update` goes through the operators
that a proposition triggers, those that it has not come to may be out of date (`IsHalfway`). When the queue is empty, no round
from values at or above those of the exploration goes below them (`RoundsStayAbove`), and the round `n` has settled what has a rank up to `n`
(`RoundsCover`). That is the reference's number of rounds: no rank exceeds the number of propositions.

Hypotheses, in `LmCut`. `ProperTasks`: relaxed operators cost what the operators they come from cost, numbers are whole, and each
has a precondition. `RelaxedTasks`: whenever a step brings a proposition nearer, a relaxed operator of the same operator has
its preconditions true and counts at least as much as the step achieves; and the goal operator's preconditions hold in goals.
`PaidTasks`: no operator is cheaper in another state than at first, as in section 11. That the compilation of
`LmCutTask` meets the first two is not proved, and for good reason: the tasks `Unguarded`, `Fractional` and `Doubled` below refute it for the code.
TLC checks all three on the tasks of the run, and that `Unguarded` and `Doubled` violate them (`MCTasksAssumption`). The assumptions
`InfiniteAssumption`, `TasksAssumption`, `StatesAssumption`, `PricesAssumption`, `DistancesAssumption`, `NothingAssumption` and
`OptionsAssumption` say what the constants are.

Only model-checked: `Terminates`. That an evaluation does not fail is part of `Terminates`; the theorems hold of evaluations that fail too.

Left out: what `PROJECT.json` names, floating-point numbers (the code compares up to a precision) among it.

Five facts worth knowing, of which the run keeps three out by its tasks. `UnsafeTasks` in `MCLmCut` are small tasks
for those: with `Tasks <- UnsafeTasks`, `One = 10`, which makes 5 stand for one half, and without `MCTasksAssumption`, which
excludes them, TLC shows for each a violation of `EstimateIsAdmissible`.

* `Unguarded`: `relaxed_task.rs:349-372` gives a conditional effect the preconditions of its operator and the
  propositions of its conditions, and unlike line 394 nothing if there are none. If the only condition is a
  comparison that must be false, which is dropped, the relaxed operator is never triggered: a state with a plan is
  reported a dead end.
* `Fractional`: `bounds.rs:71-122` takes how far a strict condition can be from 0 from what the operators add, not
  from the values in the initial state. With `x` one half below the bound and an operator that adds 1, it charges
  the operator one and a half times where a plan uses it once.
* `Doubled`: of two additive effects of one operator on the same variable, `actions.rs:398-481` keeps the later one;
  if the operator adds 1 and 2, the heuristic charges it for 2 only, again 3/2 instead of 1.
* `cut.rs:391-398` also reduces operators that the exploration did not touch, and `exploration.rs:8-22` resets only
  those it did. The next evaluation starts with lower costs, so that an estimate depends on the order of
  evaluations; the run has this case, and the estimates remain admissible.
* After a cut, `exploration.rs:171-209` updates the relaxed operators of an origin in turn, each from its old supporter
  (`update_queue` reads that one's value when it is called). If the first lowers the supporter of the second,
  the second's effects take the lowered value even if another of its preconditions is dearer now, and nothing raises
  them again. In `Chain` the goal is then free after a cut where h^max is 1, and the estimate 2 instead of 3. So an
  incremental rerun is not h^max, which the module's first lines call it, but a lower bound; cuts remain landmarks.


## 10. What is proved

The 58 theorems listed in `PROJECT.json` hold for all values of the constants under the assumptions named above. Of
the 30 invariants that the passing runs check, all are proved but one, `ChecksHold` of the Cartesian abstraction. Every lemma is in a module whose name ends in `_proofs`; there is no axiom and no unproved step.

Not provable with the tools used, and left to TLC: liveness (`Terminates` in three modules, `WatchdogEnds`,
`OverLimitIsStopped`, `EntriesAreAnswered`). Not proved: `ChecksHold`.


## 11. Counterexamples

Each of these runs checks one sentence of the code's documentation, and TLC refutes it.

* `greedy_cost` / `ReportedCostIsThePlans`: `solution()` returns g of the goal node, `trace_path()` follows the
  current parents (`search_space.rs:249-274`). If an ancestor of the queued goal is reopened on a cheaper path,
  greedy search reports more than its plan costs. `search/mod.rs:47` documents a plan and its cost.
* `metric_bound` / `SolvedCostIsOptimal`: `min_operator_cost` is computed from the metric's increases in the
  initial state (`best_first/mod.rs:140`); with increases that depend on the state `bounded_estimate` is not
  admissible, as `best_first/mod.rs:426-430` claims, and A* returns a plan that is not optimal.
* `conditional_effects` / `EstimatesAreAdmissible`: `projection.rs:697-737` builds the effects of an abstract
  operator without their conditions, although a projection "preserves plans" (`projection.rs:9-12`). A
  conditional effect that leads away from the goal then happens in every abstract state: the pattern database
  answers 3 where a plan of cost 1 exists. Only the domain and the Cartesian abstractions refuse such operators
  (`validate_abstraction_operator`).
* `process_killed` / `KilledMeansKilled`: a child that exits between the reading of its memory and `kill` is
  reported as killed (`limits.rs:278`), also when it exited with 0 and wrote a plan; `limits.rs:126-128` says
  otherwise.


## 12. Plan and what is not modelled

Done, in this order: the best-first search; the process wrapper; the axioms; the Cartesian abstraction with
`GoalDistances`; cost partitioning; online potentials and the maximum; the registry with pattern databases; numeric LM-cut. To come:

1. The ICAPS 2026 abstraction, with `TransitionTable` and `CartesianAbstraction` under other split policies, and
   the loops of the abstraction collections with their shared budgets.
2. Of LM-cut the options left out: second-order effects, bounds, constant assignments; and `PatternDatabase` with
   `LmCut` in the place of its constant `LmcutEstimate`.
3. Proofs: of `ChecksHold` first that the replay is on the cheapest abstract plan, from the exact distances, with
   `RunOf` as a recursive function; that flaws split strictly needs assumptions on the task besides (effects and
   conditions that are monotone in a coordinate, a window that runs do not leave).

Not modelled: parsing, writing, configuration and bindings, which are sequential functions of their input; the
translator outside its axioms, 15 000 lines of compilation whose data are beyond a small instance; the LP backend,
which binds a proprietary solver; domain abstractions and FF, which are arithmetic on floating-point intervals, where
the interesting errors are those of rounding.
