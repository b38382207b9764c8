--------------------------- MODULE PlannerProcess ---------------------------
(***************************************************************************)
(* The processes of one planner run.  A wrapper spawns a child that does   *)
(* the planning, watches its resident memory and turns the way it died     *)
(* into an exit code; the portfolio runs two such stages, the second only  *)
(* if the first gave no answer.  The child can die at any point: of its    *)
(* limits, of a failed allocation, of a crash.  All of them share one file *)
(* on disk, sas_plan.                                                      *)
(*                                                                         *)
(* Memory is counted in units; time is not counted: a time limit may be    *)
(* reached in any step.                                                    *)
(***************************************************************************)
EXTENDS Integers, Sequences

CONSTANTS
    Configs,            \* the command lines a run may be started with
    MaxResident,        \* bound: the memory a child can use
    MaxIterations,      \* bound: the refinements of a construction
    DefaultPadding,     \* DEFAULT_PADDING_MIB
    MaxHeadroom,        \* MAX_HEADROOM_MIB
    PollInterval,       \* refinements between two polls: 64
    MaxReadFailures     \* MAX_STATUS_READ_FAILURES: 20

Stages == 1..2
NoLimit == 0

\* A stage is one planforge run with its limits; a portfolio has two stages.
\* readsFail: the status of a process may be unreadable.
StageType  == [memory : Nat, timeLimited : BOOLEAN]
ConfigType == [stages : Seq(StageType), readsFail : BOOLEAN]

ASSUME ConfigsAssumption ==
    /\ Configs \subseteq ConfigType
    /\ \A c \in Configs : Len(c.stages) \in Stages
ASSUME BoundsAssumption ==
    /\ {MaxResident, MaxIterations, DefaultPadding, MaxHeadroom} \subseteq Nat
    /\ {PollInterval, MaxReadFailures} \subseteq Nat \ {0}

VARIABLES
    config,
    stage,      \* the stage the portfolio runs
    child,      \* the planning process of each stage
    wrapper,    \* the wrapper of the current stage
    codes,      \* the exit codes of the stages' wrappers
    exitCode,   \* of the run
    plan        \* the file sas_plan

vars == <<config, stage, child, wrapper, codes, exitCode, plan>>

\* An exit status: the code of a process that exited, or -s if signal s ended it.
SigKill == 9
SigSegv == 11
SigXcpu == 24
ExitOutOfMemory == 6
ExitTimeout == 7
ExitUnsupported == 34
ExitFailure == 1
NoCode == -1

NoChild ==
    [life |-> "none", phase |-> "start", status |-> 0, resident |-> 0, padding |-> 0,
     guarded |-> FALSE, iteration |-> 1, releasedAt |-> 0, outcome |-> "None",
     hit |-> {}]
NewWrapper == [pc |-> "spawn", failures |-> 0, killed |-> FALSE]

Limits(i)      == config.stages[i]
MemoryLimit(i) == Limits(i).memory
Alive(i)       == child[i].life = "running"
In(i, phases)  == Alive(i) /\ child[i].phase \in phases

Init ==
    /\ config \in Configs
    /\ stage = 1
    /\ child = [i \in Stages |-> NoChild]
    /\ wrapper = NewWrapper
    /\ codes = [i \in Stages |-> NoCode]
    /\ exitCode = NoCode
    /\ plan \in {"absent", "old"}

-----------------------------------------------------------------------------
(* The child.                                                               *)

\* The process ends: its memory is gone, its status waits to be reaped.
Dead(c, outcome, status, limits) ==
    [life |-> "zombie", phase |-> "start", status |-> status, resident |-> 0,
     padding |-> 0, guarded |-> FALSE, iteration |-> 1, releasedAt |-> 0,
     outcome |-> outcome, hit |-> c.hit \cup limits]
Dies(i, status, limits) ==
    child' = [child EXCEPT ![i] = Dead(@, @.outcome, status, limits)]
Advance(i, phase) == child' = [child EXCEPT ![i].phase = phase]
ChildOnly == UNCHANGED <<config, stage, wrapper, codes, exitCode>>

\* cli_release_threshold and bounded_padding_size.
Lesser(a, b) == IF a < b THEN a ELSE b
ReleaseThreshold(memory) == memory - Lesser(MaxHeadroom, memory \div 4)
PaddingSize(i) ==
    IF child[i].resident >= ReleaseThreshold(MemoryLimit(i)) THEN 0
    ELSE Lesser(DefaultPadding, ReleaseThreshold(MemoryLimit(i)) - child[i].resident)

\* A process that has n units more, and remembers that it reached its limit.
Grown(i, n) ==
    [child[i] EXCEPT
        !.resident = @ + n,
        !.hit = IF MemoryLimit(i) # NoLimit /\ child[i].resident + n >= MemoryLimit(i)
                THEN @ \cup {"memory"} ELSE @]

\* install_process_hooks: reserves the padding and arms the threshold of the polls,
\* with a memory limit that leaves room for any.  The allocator ends the process
\* if the reservation fails (AllocationFails), so there is no third case.
InstallHooks(i) ==
    /\ In(i, {"start"})
    /\ child' = [child EXCEPT
                    ![i] = IF MemoryLimit(i) # NoLimit /\ PaddingSize(i) > 0
                           THEN [Grown(i, PaddingSize(i)) EXCEPT
                                    !.phase = "hooked", !.guarded = TRUE,
                                    !.padding = PaddingSize(i)]
                           ELSE [@ EXCEPT !.phase = "hooked"]]
    /\ ChildOnly /\ UNCHANGED plan

\* register_event_handlers, before the task is read and the heuristic built.
RegisterHandlers(i) ==
    /\ In(i, {"hooked"})
    /\ Advance(i, "construct")
    /\ ChildOnly /\ UNCHANGED plan

\* An allocation succeeds and the process grows.
Allocate(i) ==
    /\ Alive(i)
    /\ child[i].resident < MaxResident
    /\ child' = [child EXCEPT ![i] = Grown(i, 1)]
    /\ ChildOnly /\ UNCHANGED plan

\* The padding goes back to the system; resident memory shrinks.
Released(c) ==
    [c EXCEPT !.padding = 0, !.resident = @ - c.padding, !.releasedAt = c.iteration]

\* The allocator returns null: release_padding_for_oom frees the padding, if there
\* is any, and the allocation is retried once, with success.
AllocationRecovers(i) ==
    /\ Alive(i)
    /\ child[i].padding > 0
    /\ child' = [child EXCEPT ![i] = [Released(child[i]) EXCEPT !.resident = @ + 1]]
    /\ ChildOnly /\ UNCHANGED plan

\* report_out_of_memory_and_exit, when there was no padding or the retry failed.
AllocationFails(i) ==
    /\ Alive(i)
    /\ Dies(i, ExitOutOfMemory, {"memory"})
    /\ ChildOnly /\ UNCHANGED plan

\* poll_and_release_if_exceeded: whether the construction may go on.
PollIsDue(i) == child[i].iteration % PollInterval = 0
OverThreshold(i) == child[i].resident >= ReleaseThreshold(MemoryLimit(i))
\* Mutant: only the memory is looked at, so a release by the allocator is missed.
PollThreshold(i) == child[i].guarded => ~OverThreshold(i)
PollPasses(i) == child[i].guarded => child[i].padding > 0 /\ ~OverThreshold(i)

Refine(i) ==
    /\ In(i, {"construct"})
    /\ child[i].iteration < MaxIterations
    /\ PollIsDue(i) => PollPasses(i)
    /\ child' = [child EXCEPT ![i].iteration = @ + 1]
    /\ ChildOnly /\ UNCHANGED plan

\* The construction stops at a poll and keeps its partial result.
StopAtPoll(i) ==
    /\ In(i, {"construct"})
    /\ PollIsDue(i)
    /\ ~PollPasses(i)
    /\ child' = [child EXCEPT
                    ![i] = IF child[i].padding > 0
                           THEN [Released(child[i]) EXCEPT !.phase = "search"]
                           ELSE [child[i] EXCEPT !.phase = "search"]]
    /\ ChildOnly /\ UNCHANGED plan

\* It stops for another reason: a concrete plan, its own limits.
FinishConstruction(i) ==
    /\ In(i, {"construct"})
    /\ Advance(i, "search")
    /\ ChildOnly /\ UNCHANGED plan

\* The search ends with an outcome; a plan has still to be written.
SearchEnds(i, outcome, status, limits) ==
    /\ child' = [child EXCEPT ![i] = Dead(@, outcome, status, limits)]
    /\ ChildOnly /\ UNCHANGED plan

SearchSolves(i) ==
    /\ In(i, {"search"})
    /\ child' = [child EXCEPT ![i].outcome = "Solved", ![i].phase = "write"]
    /\ ChildOnly /\ UNCHANGED plan
SearchIsExhausted(i) ==
    In(i, {"search"}) /\ SearchEnds(i, "Unsolvable", 0, {})
SearchTimesOut(i) ==
    /\ In(i, {"search"})
    /\ Limits(i).timeLimited
    /\ SearchEnds(i, "Timeout", ExitTimeout, {"time"})
SearchOutOfMemory(i) ==
    /\ In(i, {"search"})
    /\ MemoryLimit(i) # NoLimit /\ child[i].resident >= MemoryLimit(i)
    /\ SearchEnds(i, "OutOfMemory", ExitOutOfMemory, {})

\* write_plan_file truncates sas_plan and fills it.
TruncatePlan(i) ==
    /\ In(i, {"write"})
    /\ Advance(i, "writing")
    /\ plan' = "partial"
    /\ ChildOnly
CompletePlan(i) ==
    /\ In(i, {"writing"})
    /\ Advance(i, "written")
    /\ plan' = "complete"
    /\ ChildOnly

\* Mutant: a plan that cannot be written is no error.
ExitAnyway(i) ==
    /\ In(i, {"writing", "written"})
    /\ Dies(i, 0, {})
    /\ ChildOnly /\ UNCHANGED plan

ExitSolved(i) ==
    /\ In(i, {"written"})
    /\ Dies(i, 0, {})
    /\ ChildOnly /\ UNCHANGED plan

\* Errors: translation, an unsupported task, a construction that ran out of its
\* own time, a failed search or a plan that cannot be written.
ExitWithError(i) ==
    /\ \/ In(i, {"start", "construct", "search", "write", "writing"}) /\ Dies(i, ExitFailure, {})
       \/ In(i, {"construct"}) /\ Dies(i, ExitUnsupported, {})
       \/ In(i, {"construct"}) /\ Dies(i, ExitTimeout, {"time"})
    /\ ChildOnly /\ UNCHANGED plan

\* Signals: the handler exits with 128 + signal once it is registered.
SignalStatus(i, signal) ==
    IF child[i].phase \in {"start", "hooked"} THEN -signal ELSE 128 + signal
CpuLimitReached(i) ==
    /\ Alive(i)
    /\ Limits(i).timeLimited
    /\ Dies(i, SignalStatus(i, SigXcpu), {"time"})
    /\ ChildOnly /\ UNCHANGED plan
Crash(i) ==
    /\ Alive(i)
    /\ Dies(i, SignalStatus(i, SigSegv), {})
    /\ ChildOnly /\ UNCHANGED plan

ChildStep(i) ==
    \/ InstallHooks(i) \/ RegisterHandlers(i)
    \/ Allocate(i) \/ AllocationRecovers(i) \/ AllocationFails(i)
    \/ Refine(i) \/ StopAtPoll(i) \/ FinishConstruction(i)
    \/ SearchSolves(i) \/ SearchIsExhausted(i) \/ SearchTimesOut(i) \/ SearchOutOfMemory(i)
    \/ TruncatePlan(i) \/ CompletePlan(i) \/ ExitSolved(i) \/ ExitWithError(i)
    \/ CpuLimitReached(i) \/ Crash(i)

-----------------------------------------------------------------------------
(* The wrapper: run_wrapped_process and wait_with_memory_limit.             *)

WrapperAt(pc) == exitCode = NoCode /\ wrapper.pc = pc
GoTo(pc) == wrapper' = [wrapper EXCEPT !.pc = pc]
Reap == child' = [child EXCEPT ![stage].life = "reaped"]

\* Mutant: any death by a signal passes for running out of memory.
NormalizeAnySignal(status, killed, timeLimited) ==
    LET code == IF status < 0 THEN 128 - status ELSE status
    IN  IF killed \/ status < 0 THEN ExitOutOfMemory
        ELSE IF timeLimited /\ code = 128 + SigXcpu THEN ExitTimeout
        ELSE code

\* normalize_wrapped_exit.
NormalizeWrappedExit(status, killed, timeLimited) ==
    LET code == IF status < 0 THEN 128 - status ELSE status
    IN  IF killed THEN ExitOutOfMemory
        ELSE IF timeLimited /\ code = 128 + SigXcpu THEN ExitTimeout
        ELSE code

\* run_portfolio: an answer ends the run, and so does the last stage.
StageEnds(code) ==
    /\ codes' = [codes EXCEPT ![stage] = code]
    /\ IF code = 0 \/ stage = Len(config.stages)
       THEN /\ exitCode' = code
            /\ UNCHANGED <<stage, wrapper>>
       ELSE /\ stage' = stage + 1
            /\ wrapper' = NewWrapper
            /\ UNCHANGED exitCode

ReapAndEnd(killed) ==
    /\ child[stage].life = "zombie"
    /\ Reap
    /\ StageEnds(NormalizeWrappedExit(child[stage].status, killed,
                                      Limits(stage).timeLimited))

Spawn ==
    /\ WrapperAt("spawn")
    /\ child' = [child EXCEPT ![stage].life = "running"]
    /\ GoTo(IF MemoryLimit(stage) = NoLimit THEN "wait" ELSE "poll")
    /\ UNCHANGED <<config, stage, codes, exitCode, plan>>

SpawnFails ==
    /\ WrapperAt("spawn")
    /\ StageEnds(ExitFailure)
    /\ UNCHANGED <<config, child, plan>>

\* The wrapper of a stage cannot be spawned: no other stage is tried.
PortfolioFails ==
    /\ WrapperAt("spawn")
    /\ Len(config.stages) > 1
    /\ exitCode' = ExitFailure
    /\ UNCHANGED <<config, stage, child, wrapper, codes, plan>>

\* try_wait: the child is gone, or will be measured.
PollReaps ==
    /\ WrapperAt("poll") \/ WrapperAt("retry")
    /\ ReapAndEnd(FALSE)
    /\ UNCHANGED <<config, plan>>
PollFindsAlive ==
    /\ WrapperAt("poll")
    /\ Alive(stage)
    /\ GoTo("measure")
    /\ UNCHANGED <<config, stage, child, codes, exitCode, plan>>

MeasureFails ==
    /\ WrapperAt("measure")
    /\ config.readsFail
    /\ GoTo("retry")
    /\ UNCHANGED <<config, stage, child, codes, exitCode, plan>>
MeasureExited ==
    /\ WrapperAt("measure")
    /\ child[stage].life = "zombie"
    /\ GoTo("wait")
    /\ UNCHANGED <<config, stage, child, codes, exitCode, plan>>
\* Mutant: the limit itself is still allowed.
MeasureAboveLimit ==
    /\ WrapperAt("measure")
    /\ Alive(stage)
    /\ wrapper' = IF child[stage].resident > MemoryLimit(stage)
                  THEN [wrapper EXCEPT !.pc = "kill"]
                  ELSE [wrapper EXCEPT !.pc = "poll", !.failures = 0]
    /\ UNCHANGED <<config, stage, child, codes, exitCode, plan>>
Measure ==
    /\ WrapperAt("measure")
    /\ Alive(stage)
    /\ wrapper' = IF child[stage].resident >= MemoryLimit(stage)
                  THEN [wrapper EXCEPT !.pc = "kill"]
                  ELSE [wrapper EXCEPT !.pc = "poll", !.failures = 0]
    /\ UNCHANGED <<config, stage, child, codes, exitCode, plan>>

\* Mutant: a failed read does not count.
RetryForever ==
    /\ WrapperAt("retry")
    /\ Alive(stage)
    /\ wrapper' = [wrapper EXCEPT !.pc = "poll"]
    /\ UNCHANGED <<config, stage, child, codes, exitCode, plan>>

\* A failed read, and the child is still there: after too many the wrapper gives
\* up with an error, and leaves the child behind.
RetryLater ==
    /\ WrapperAt("retry")
    /\ Alive(stage)
    /\ wrapper.failures + 1 < MaxReadFailures
    /\ wrapper' = [wrapper EXCEPT !.pc = "poll", !.failures = @ + 1]
    /\ UNCHANGED <<config, stage, child, codes, exitCode, plan>>
GiveUp ==
    /\ WrapperAt("retry")
    /\ Alive(stage)
    /\ wrapper.failures + 1 >= MaxReadFailures
    /\ StageEnds(ExitFailure)
    /\ UNCHANGED <<config, child, plan>>

\* Mutant: the wrapper ends without waiting for the child it killed.
KillAndEnd ==
    /\ WrapperAt("kill")
    /\ IF Alive(stage) THEN Dies(stage, -SigKill, {}) ELSE UNCHANGED child
    /\ StageEnds(ExitOutOfMemory)
    /\ UNCHANGED <<config, plan>>

\* The child may have exited since it was measured; killing it then does nothing.
Kill ==
    /\ WrapperAt("kill")
    /\ IF Alive(stage) THEN Dies(stage, -SigKill, {}) ELSE UNCHANGED child
    /\ wrapper' = [wrapper EXCEPT !.pc = "wait", !.killed = TRUE]
    /\ UNCHANGED <<config, stage, codes, exitCode, plan>>

Wait ==
    /\ WrapperAt("wait")
    /\ ReapAndEnd(wrapper.killed)
    /\ UNCHANGED <<config, plan>>

WrapperStep ==
    \/ Spawn \/ SpawnFails \/ PortfolioFails \/ PollReaps \/ PollFindsAlive
    \/ MeasureFails \/ MeasureExited \/ Measure \/ RetryLater \/ GiveUp
    \/ Kill \/ Wait

-----------------------------------------------------------------------------
Done ==
    /\ exitCode # NoCode
    /\ \A i \in Stages : ~Alive(i)
    /\ UNCHANGED vars

Next == WrapperStep \/ (\E i \in Stages : ChildStep(i)) \/ Done

Spec == Init /\ [][Next]_vars

\* The system schedules the wrapper.  Nothing is assumed of the child: a search may
\* go on for ever.
FairSpec == Spec /\ WF_vars(WrapperStep)

-----------------------------------------------------------------------------
(* Properties.                                                              *)

Codes == {0, ExitFailure, ExitOutOfMemory, ExitTimeout, ExitUnsupported,
          128 + SigKill, 128 + SigSegv, 128 + SigXcpu}
Statuses == Codes \cup {-SigKill, -SigSegv, -SigXcpu}
Outcomes == {"None", "Solved", "Unsolvable", "Timeout", "OutOfMemory"}

ChildType ==
    [life : {"none", "running", "zombie", "reaped"},
     phase : {"start", "hooked", "construct", "search", "write", "writing", "written"},
     status : Statuses, resident : Nat, padding : Nat, guarded : BOOLEAN,
     iteration : Nat \ {0}, releasedAt : Nat, outcome : Outcomes,
     hit : SUBSET {"time", "memory"}]
WrapperType ==
    [pc : {"spawn", "poll", "measure", "retry", "kill", "wait"}, failures : Nat,
     killed : BOOLEAN]

\* The types of the variables: the padding is part of the resident memory, and the
\* stage is one of the command line's.
TypeOK ==
    /\ config \in Configs
    /\ stage \in 1..Len(config.stages)
    /\ child \in [Stages -> ChildType]
    /\ \A i \in Stages : child[i].padding <= child[i].resident
    /\ wrapper \in WrapperType
    /\ codes \in [Stages -> Codes \cup {NoCode}]
    /\ exitCode \in Codes \cup {NoCode}
    /\ plan \in {"absent", "old", "partial", "complete"}

\* A child the wrapper left behind when it gave up.
Orphans == {i \in Stages : i < stage \/ exitCode # NoCode}
              \cap {i \in Stages : child[i].life \in {"running", "zombie"}}

\* "Exiting successfully with no plan on disk is worse than exiting with an error"
\* (write_plan_file): a run that exits with 0 has an answer, and sas_plan holds
\* the whole plan if there is one, however the stages before it died.
SuccessHasAnAnswer ==
    exitCode = 0 =>
        /\ child[stage].status = 0
        /\ child[stage].outcome \in {"Solved", "Unsolvable"}
        /\ child[stage].outcome = "Solved" /\ Orphans = {} => plan = "complete"

\* Exit codes are not guesses: out of memory is reported only if memory ran out or
\* the limit was reached, a timeout only if a time limit was.
LimitsAreReal ==
    \A i \in Stages :
        /\ codes[i] = ExitOutOfMemory => "memory" \in child[i].hit
        /\ codes[i] = ExitTimeout => "time" \in child[i].hit

\* Stages do not overlap: the child of a stage is reaped before the next stage, or
\* the end of the run, unless its status could not be read.
ChildrenAreReaped == config.readsFail \/ Orphans = {}

\* Once the padding was released, by a poll or by the allocator, the construction
\* refines at most until its next poll.
ConstructionStops ==
    \A i \in Stages :
        In(i, {"construct"}) /\ child[i].guarded /\ child[i].padding = 0 =>
            child[i].iteration < child[i].releasedAt + PollInterval

\* normalize_wrapped_exit reports out of memory "when the watchdog killed it for its
\* resident memory, and otherwise the child's own code".
KilledMeansKilled ==
    \A i \in Stages :
        child[i].life = "reaped" /\ codes[i] = ExitOutOfMemory =>
            child[i].status \in {-SigKill, ExitOutOfMemory}

\* A child that uses as much memory as it may is ended, unless it releases its
\* padding in time or cannot be measured.
OverLimit(i) ==
    Alive(i) /\ i \notin Orphans /\ MemoryLimit(i) # NoLimit
             /\ child[i].resident >= MemoryLimit(i)
OverLimitIsStopped == \A i \in Stages : OverLimit(i) ~> ~OverLimit(i)

\* Neither a child that died nor one that cannot be measured holds the run: with a
\* memory limit the wrapper goes on for ever only while it keeps measuring.
WatchdogEnds ==
    \/ \E i \in 1..Len(config.stages) : MemoryLimit(i) = NoLimit
    \/ []<><<Measure>>_vars
    \/ <>(exitCode # NoCode)
=============================================================================
