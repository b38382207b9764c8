----------------------- MODULE PlannerProcess_proofs -----------------------
(***************************************************************************)
(* Proofs about the processes of a run, for every command line, amount of  *)
(* memory and bound: exit codes are earned, children are reaped, and a run *)
(* that succeeds has an answer.  Exit statuses are followed back to the    *)
(* limit a child reached (Sound), and the plan file to the only child that *)
(* may write it (PlanIsWhole).  A construction stops at the first poll     *)
(* after its padding was released (NoPollIsPassed).                        *)
(***************************************************************************)
EXTENDS PlannerProcess, TLAPS

\* A process whose status is explained by what happened to it.
Explained(limit, c) ==
    /\ c.life = "running" /\ limit # NoLimit /\ c.resident >= limit => "memory" \in c.hit
    /\ c.status = ExitOutOfMemory => "memory" \in c.hit
    /\ c.status \in {ExitTimeout, 128 + SigXcpu, -SigXcpu} => "time" \in c.hit
    /\ c.life \in {"zombie", "reaped"} /\ c.status = 0 => c.outcome \in {"Solved", "Unsolvable"}
    /\ c.phase \in {"write", "writing", "written"} => c.outcome = "Solved"

Sound(limit, c) ==
    /\ c \in ChildType
    /\ c.padding <= c.resident
    /\ Explained(limit, c)

ChildrenAreSound == \A i \in 1..Len(config.stages) : Sound(MemoryLimit(i), child[i])

\* Stages start one after the other.
StagesInOrder ==
    /\ \A i \in Stages : i > stage => child[i] = NoChild
    /\ WrapperAt("spawn") => child[stage] = NoChild

WrapperIsHonest ==
    /\ wrapper.pc = "kill" \/ wrapper.killed => "memory" \in child[stage].hit
    /\ wrapper.pc = "retry" => config.readsFail
    /\ wrapper.pc \in {"poll", "measure", "retry"} => MemoryLimit(stage) # NoLimit

\* c has a whole plan behind it, as far as it knows.
HasPlan(c) ==
    \/ c.life = "running" /\ c.phase = "written"
    \/ c.life \in {"zombie", "reaped"} /\ c.status = 0 /\ c.outcome = "Solved"

PlanIsWhole == Orphans = {} /\ HasPlan(child[stage]) => plan = "complete"

SuccessIsReaped == exitCode = 0 => child[stage].life = "reaped" /\ child[stage].status = 0

ProcessInvariant ==
    /\ TypeOK
    /\ ChildrenAreSound
    /\ StagesInOrder
    /\ WrapperIsHonest
    /\ PlanIsWhole
    /\ SuccessIsReaped
    /\ LimitsAreReal
    /\ ChildrenAreReaped

-----------------------------------------------------------------------------
(* Steps of a child.                                                        *)

LEMMA LimitsAreTyped ==
    ASSUME TypeOK, NEW i \in 1..Len(config.stages)
    PROVE  /\ i \in Stages
           /\ MemoryLimit(i) \in Nat
           /\ Limits(i).timeLimited \in BOOLEAN
           /\ Sound(MemoryLimit(i), child[i]) => child[i] \in ChildType
<1>1. config \in ConfigType /\ Len(config.stages) \in Stages
    BY ConfigsAssumption DEF TypeOK
<1>2. config.stages \in Seq(StageType)
    BY <1>1 DEF ConfigType
<1>3. config.stages[i] \in StageType
    BY <1>2
<1> QED BY <1>1, <1>3 DEF StageType, MemoryLimit, Limits, Stages, Sound

\* What a step of child i leaves alone, and how it treats the plan.
KeepsRun == UNCHANGED <<config, stage, wrapper, codes, exitCode>>
PlanStep(old, new) ==
    \/ plan' = "complete"
    \/ plan' = "partial" /\ ~HasPlan(new)
    \/ plan' = plan /\ (HasPlan(new) => HasPlan(old))

ChildGoes(i, c) ==
    /\ child' = [child EXCEPT ![i] = c]
    /\ Alive(i)
    /\ Sound(MemoryLimit(i), c)
    /\ c.life \in {"running", "zombie"}
    /\ child[i].hit \subseteq c.hit
    /\ PlanStep(child[i], c)
    /\ KeepsRun

LEMMA DeadIsTyped ==
    ASSUME NEW c, c.hit \in SUBSET {"time", "memory"}, NEW outcome \in Outcomes,
           NEW status \in Statuses, NEW limits \in SUBSET {"time", "memory"}
    PROVE  Dead(c, outcome, status, limits) \in ChildType
<1>1. c.hit \cup limits \in SUBSET {"time", "memory"}
    OBVIOUS
<1> HIDE DEF Outcomes, Statuses
<1> QED BY <1>1 DEF Dead, ChildType

\* The statuses of a dead child.
LEMMA DeathIsSound ==
    ASSUME TypeOK, NEW i \in 1..Len(config.stages), Sound(MemoryLimit(i), child[i]), Alive(i),
           NEW outcome \in Outcomes, NEW status \in Statuses,
           NEW limits \in SUBSET {"time", "memory"},
           child' = [child EXCEPT ![i] = Dead(child[i], outcome, status, limits)],
           status = ExitOutOfMemory => "memory" \in limits \cup child[i].hit,
           status \in {ExitTimeout, 128 + SigXcpu, -SigXcpu} => "time" \in limits,
           status = 0 => outcome \in {"Solved", "Unsolvable"},
           status = 0 /\ outcome = "Solved" => child[i].phase = "written",
           ChildOnly, plan' = plan
    PROVE  \E c : ChildGoes(i, c)
<1> DEFINE c == Dead(child[i], outcome, status, limits)
<1>1. child[i].hit \in SUBSET {"time", "memory"}
    BY DEF Sound, ChildType
<1>2. c \in ChildType
    BY <1>1, DeadIsTyped
<1>3. Sound(MemoryLimit(i), c)
    BY <1>2 DEF Sound, Explained, Dead
<1>4. PlanStep(child[i], c)
    BY DEF PlanStep, HasPlan, Alive, Dead
<1> QED BY <1>3, <1>4 DEF ChildGoes, KeepsRun, ChildOnly, Dead

\* The values of exit statuses, and when they have to be explained.
LEMMA StatusValues ==
    /\ {0, ExitFailure, ExitOutOfMemory, ExitTimeout, ExitUnsupported} \subseteq Statuses
    /\ {-SigKill, -SigSegv, 128 + SigSegv, -SigXcpu, 128 + SigXcpu} \subseteq Statuses
    /\ ExitOutOfMemory # 0 /\ ExitOutOfMemory \notin {ExitTimeout, 128 + SigXcpu, -SigXcpu}
    /\ {-SigKill, -SigSegv, 128 + SigSegv, ExitFailure, ExitUnsupported}
            \cap {0, ExitOutOfMemory, ExitTimeout, 128 + SigXcpu, -SigXcpu} = {}
    /\ {ExitTimeout, 128 + SigXcpu, -SigXcpu} \cap {0, ExitOutOfMemory} = {}
BY DEF Statuses, Codes, ExitFailure, ExitOutOfMemory, ExitTimeout, ExitUnsupported,
       SigKill, SigSegv, SigXcpu

\* A child that ends with no limit to blame, one that ran out of time, and one
\* that ends with status 0.
LEMMA FailureIsSound ==
    ASSUME TypeOK, NEW i \in 1..Len(config.stages), Sound(MemoryLimit(i), child[i]), Alive(i),
           NEW status \in {ExitFailure, ExitUnsupported, -SigSegv, 128 + SigSegv},
           Dies(i, status, {}), ChildOnly, plan' = plan
    PROVE  \E c : ChildGoes(i, c)
<1>1. /\ status \in Statuses /\ status # 0 /\ status # ExitOutOfMemory
      /\ status \notin {ExitTimeout, 128 + SigXcpu, -SigXcpu}
    BY DEF Statuses, Codes, ExitFailure, ExitOutOfMemory, ExitTimeout, ExitUnsupported,
           SigKill, SigSegv, SigXcpu
<1>2. child' = [child EXCEPT ![i] = Dead(child[i], child[i].outcome, status, {})]
    BY DEF Dies
<1>3. child[i].outcome \in Outcomes
    BY DEF Sound, ChildType
<1>4. {} \in SUBSET {"time", "memory"}
    OBVIOUS
<1> HIDE DEF ChildOnly, Dies, Statuses, Outcomes, ExitOutOfMemory, ExitTimeout, SigXcpu
<1> QED BY <1>1, <1>2, <1>3, <1>4, DeathIsSound, Zenon

LEMMA TimeoutIsSound ==
    ASSUME TypeOK, NEW i \in 1..Len(config.stages), Sound(MemoryLimit(i), child[i]), Alive(i),
           NEW status \in {ExitTimeout, 128 + SigXcpu, -SigXcpu}, NEW outcome \in Outcomes,
           child' = [child EXCEPT ![i] = Dead(child[i], outcome, status, {"time"})],
           ChildOnly, plan' = plan
    PROVE  \E c : ChildGoes(i, c)
<1>1. status \in Statuses /\ status # 0 /\ status # ExitOutOfMemory
    BY DEF Statuses, Codes, ExitFailure, ExitOutOfMemory, ExitTimeout, ExitUnsupported,
           SigKill, SigSegv, SigXcpu
<1>2. {"time"} \in SUBSET {"time", "memory"} /\ "time" \in {"time"}
    OBVIOUS
<1> HIDE DEF ChildOnly, Statuses, Outcomes
<1> QED BY <1>1, <1>2, DeathIsSound

LEMMA SuccessIsSound ==
    ASSUME TypeOK, NEW i \in 1..Len(config.stages), Sound(MemoryLimit(i), child[i]), Alive(i),
           NEW outcome \in {"Solved", "Unsolvable"}, outcome = "Solved" => child[i].phase = "written",
           child' = [child EXCEPT ![i] = Dead(child[i], outcome, 0, {})],
           ChildOnly, plan' = plan
    PROVE  \E c : ChildGoes(i, c)
<1>1. 0 \in Statuses /\ 0 # ExitOutOfMemory /\ 0 \notin {ExitTimeout, 128 + SigXcpu, -SigXcpu}
    BY DEF Statuses, Codes, ExitFailure, ExitOutOfMemory, ExitTimeout, ExitUnsupported,
           SigKill, SigSegv, SigXcpu
<1>2. outcome \in Outcomes /\ {} \in SUBSET {"time", "memory"}
    BY DEF Outcomes
<1> HIDE DEF ChildOnly, Statuses, Outcomes
<1> QED BY <1>1, <1>2, DeathIsSound

\* A child that goes on, with the same status and outcome.
LEMMA LivingIsSound ==
    ASSUME TypeOK, NEW i \in 1..Len(config.stages), Sound(MemoryLimit(i), child[i]), Alive(i),
           NEW c \in ChildType,
           child' = [child EXCEPT ![i] = c],
           c.padding <= c.resident,
           c.life = "running", c.status = child[i].status,
           child[i].hit \subseteq c.hit,
           MemoryLimit(i) # NoLimit /\ c.resident >= MemoryLimit(i) => "memory" \in c.hit,
           c.phase \in {"write", "writing", "written"} => c.outcome = "Solved",
           PlanStep(child[i], c),
           ChildOnly
    PROVE  \E d : ChildGoes(i, d)
<1>1. Sound(MemoryLimit(i), c)
    BY DEF Sound, Explained
<1> QED BY <1>1 DEF ChildGoes, KeepsRun, ChildOnly

LEMMA ReleasedIsTyped ==
    ASSUME NEW c \in ChildType, c.padding <= c.resident
    PROVE  /\ Released(c) \in ChildType
           /\ Released(c).padding = 0
           /\ Released(c).resident = c.resident - c.padding
           /\ Released(c).life = c.life /\ Released(c).status = c.status
           /\ Released(c).phase = c.phase /\ Released(c).outcome = c.outcome
           /\ Released(c).hit = c.hit
<1>1. c.resident - c.padding \in Nat /\ c.iteration \in Nat
    BY DEF ChildType
<1> QED BY <1>1 DEF Released, ChildType

LEMMA GrownIsTyped ==
    ASSUME NEW i, child[i] \in ChildType, MemoryLimit(i) \in Nat, NEW n \in Nat
    PROVE  /\ Grown(i, n) \in ChildType
           /\ Grown(i, n).resident = child[i].resident + n
           /\ Grown(i, n).padding = child[i].padding
           /\ Grown(i, n).life = child[i].life /\ Grown(i, n).status = child[i].status
           /\ Grown(i, n).phase = child[i].phase /\ Grown(i, n).outcome = child[i].outcome
           /\ child[i].hit \subseteq Grown(i, n).hit
           /\ MemoryLimit(i) # NoLimit /\ child[i].resident + n >= MemoryLimit(i) =>
                "memory" \in Grown(i, n).hit
<1>1. child[i].resident + n \in Nat /\ child[i].hit \cup {"memory"} \in SUBSET {"time", "memory"}
    BY DEF ChildType
<1> QED BY <1>1 DEF Grown, ChildType

LEMMA PaddingIsTyped ==
    ASSUME NEW i, child[i] \in ChildType, MemoryLimit(i) \in Nat
    PROVE  PaddingSize(i) \in Int
<1>1. child[i].resident \in Nat
    BY DEF ChildType
<1>2. ReleaseThreshold(MemoryLimit(i)) \in Int
    BY BoundsAssumption DEF ReleaseThreshold, Lesser
<1> QED BY <1>1, <1>2, BoundsAssumption DEF PaddingSize, Lesser

\* A child that only moves on to another phase.
LEMMA AdvanceIsSound ==
    ASSUME TypeOK, NEW i \in 1..Len(config.stages), Sound(MemoryLimit(i), child[i]), Alive(i),
           NEW phase \in {"hooked", "construct", "search", "write", "writing", "written"},
           Advance(i, phase), ChildOnly,
           phase \in {"write", "writing", "written"} => child[i].outcome = "Solved",
           PlanStep(child[i], [child[i] EXCEPT !.phase = phase])
    PROVE  \E c : ChildGoes(i, c)
<1> DEFINE c == [child[i] EXCEPT !.phase = phase]
<1>1. child[i] \in ChildType /\ child[i].padding <= child[i].resident
    BY DEF Sound
<1>2. c \in ChildType
    BY <1>1 DEF ChildType
<1>3. /\ c.phase = phase /\ c.life = "running" /\ c.status = child[i].status
      /\ c.hit = child[i].hit /\ c.outcome = child[i].outcome
      /\ c.padding = child[i].padding /\ c.resident = child[i].resident
    BY <1>1 DEF ChildType, Alive
<1>4. child' = [child EXCEPT ![i] = c]
    BY DEF Advance, TypeOK
<1>5. MemoryLimit(i) # NoLimit /\ c.resident >= MemoryLimit(i) => "memory" \in c.hit
    BY <1>3 DEF Sound, Explained, Alive
<1>6. child[i].hit \subseteq c.hit /\ c.padding <= c.resident
    BY <1>1, <1>3
<1> HIDE DEF c
<1> QED BY <1>2, <1>3, <1>4, <1>5, <1>6, LivingIsSound DEF c

LEMMA ChildStepIsSound ==
    ASSUME TypeOK, NEW i \in 1..Len(config.stages), Sound(MemoryLimit(i), child[i]), ChildStep(i)
    PROVE  \E c : ChildGoes(i, c)
<1>1. /\ child[i] \in ChildType /\ MemoryLimit(i) \in Nat
      /\ child[i].padding <= child[i].resident
      /\ Limits(i).timeLimited \in BOOLEAN
    BY LimitsAreTyped DEF Sound
<1> DEFINE old == child[i]
<1>0. /\ old.outcome \in Outcomes
      /\ {} \in SUBSET {"time", "memory"} /\ {"time"} \in SUBSET {"time", "memory"}
      /\ {"memory"} \in SUBSET {"time", "memory"}
    BY <1>1 DEF ChildType
<1>2. CASE InstallHooks(i)
    <2>1. CASE MemoryLimit(i) # NoLimit /\ PaddingSize(i) > 0
        <3> DEFINE n == PaddingSize(i)
                   g == Grown(i, n)
                   c == [g EXCEPT !.phase = "hooked", !.guarded = TRUE, !.padding = n]
        <3>1. n \in Nat
            BY <1>1, <2>1, PaddingIsTyped
        <3>2. /\ child' = [child EXCEPT ![i] = c]
              /\ Alive(i) /\ ChildOnly /\ plan' = plan
            BY <1>2, <2>1 DEF InstallHooks, In
        <3> HIDE DEF n
        <3>3. /\ g \in ChildType /\ g.resident = old.resident + n
              /\ g.life = old.life /\ g.status = old.status /\ old.hit \subseteq g.hit
              /\ MemoryLimit(i) # NoLimit /\ g.resident >= MemoryLimit(i) => "memory" \in g.hit
            BY <1>1, <3>1, GrownIsTyped
        <3> HIDE DEF g
        <3>4. /\ c \in ChildType /\ c.phase = "hooked" /\ c.padding = n
              /\ c.resident = g.resident /\ c.life = g.life
              /\ c.status = g.status /\ c.hit = g.hit
            BY <3>1, <3>3 DEF ChildType
        <3> HIDE DEF c
        <3>5. old.resident \in Nat
            BY <1>1 DEF ChildType
        <3>6. c.padding <= c.resident /\ c.life = "running"
            BY <3>1, <3>2, <3>3, <3>4, <3>5 DEF Alive
        <3>7. PlanStep(old, c)
            BY <3>2, <3>4, <3>6 DEF PlanStep, HasPlan
        <3> QED BY <3>2, <3>3, <3>4, <3>6, <3>7, LivingIsSound
    <2>2. CASE ~(MemoryLimit(i) # NoLimit /\ PaddingSize(i) > 0)
        <3>1. Advance(i, "hooked")
            BY <1>2, <2>2, Zenon DEF InstallHooks, Advance
        <3> QED BY <1>2, <3>1, AdvanceIsSound DEF InstallHooks, In, Alive, PlanStep, HasPlan
    <2> QED BY <2>1, <2>2
<1>3. CASE RegisterHandlers(i)
    BY <1>3, AdvanceIsSound DEF RegisterHandlers, In, Alive, PlanStep, HasPlan
<1>4. CASE Allocate(i)
    <2> DEFINE c == Grown(i, 1)
    <2>1. Alive(i) /\ child' = [child EXCEPT ![i] = c] /\ ChildOnly /\ plan' = plan
        BY <1>4 DEF Allocate
    <2>2. /\ c \in ChildType /\ c.padding = old.padding /\ c.resident = old.resident + 1
          /\ c.life = old.life /\ c.status = old.status
          /\ c.phase = old.phase /\ c.outcome = old.outcome /\ old.hit \subseteq c.hit
          /\ MemoryLimit(i) # NoLimit /\ c.resident >= MemoryLimit(i) => "memory" \in c.hit
        BY <1>1, GrownIsTyped
    <2>3. c.padding <= c.resident
        BY <1>1, <2>2 DEF ChildType
    <2>4. PlanStep(old, c) /\ c.life = "running"
        BY <2>1, <2>2 DEF PlanStep, HasPlan, Alive
    <2>5. c.phase \in {"write", "writing", "written"} => c.outcome = "Solved"
        BY <2>2 DEF Sound, Explained
    <2> HIDE DEF c
    <2> QED BY <2>1, <2>2, <2>3, <2>4, <2>5, LivingIsSound
<1>5. CASE AllocationRecovers(i)
    <2> DEFINE r == Released(old)
               c == [r EXCEPT !.resident = @ + 1]
    <2>1. /\ Alive(i) /\ child' = [child EXCEPT ![i] = c] /\ ChildOnly /\ plan' = plan
          /\ old.padding > 0
        BY <1>5 DEF AllocationRecovers
    <2>2. /\ r \in ChildType /\ r.padding = 0 /\ r.resident = old.resident - old.padding
          /\ r.life = old.life /\ r.status = old.status /\ r.phase = old.phase
          /\ r.outcome = old.outcome /\ r.hit = old.hit
        BY <1>1, ReleasedIsTyped
    <2> HIDE DEF r
    <2>3. /\ c \in ChildType /\ c.padding = r.padding /\ c.resident = r.resident + 1
          /\ c.life = r.life /\ c.status = r.status /\ c.phase = r.phase
          /\ c.outcome = r.outcome /\ c.hit = r.hit
        BY <2>2 DEF ChildType
    <2> HIDE DEF c
    <2>4. old.resident \in Nat /\ old.padding \in Nat
        BY <1>1 DEF ChildType
    <2>5. c.padding <= c.resident /\ c.resident <= old.resident
        BY <1>1, <2>1, <2>2, <2>3, <2>4
    <2>6. /\ c.life = "running"
          /\ MemoryLimit(i) # NoLimit /\ c.resident >= MemoryLimit(i) => "memory" \in c.hit
          /\ c.phase \in {"write", "writing", "written"} => c.outcome = "Solved"
        BY <1>1, <2>1, <2>2, <2>3, <2>4, <2>5 DEF Sound, Explained, Alive, ChildType
    <2>7. PlanStep(old, c)
        BY <2>1, <2>2, <2>3 DEF PlanStep, HasPlan
    <2> QED BY <2>1, <2>2, <2>3, <2>5, <2>6, <2>7, LivingIsSound
<1>6. CASE AllocationFails(i)
    <2>1. /\ Alive(i) /\ ChildOnly /\ plan' = plan
          /\ child' = [child EXCEPT ![i] = Dead(old, old.outcome, ExitOutOfMemory, {"memory"})]
        BY <1>6 DEF AllocationFails, Dies
    <2>2. ExitOutOfMemory \in Statuses /\ "memory" \in {"memory"} \cup old.hit
        BY StatusValues
    <2> QED BY <1>0, <2>1, <2>2, StatusValues, DeathIsSound
<1>7. CASE Refine(i)
    <2> DEFINE c == [old EXCEPT !.iteration = @ + 1]
    <2>1. Alive(i) /\ child' = [child EXCEPT ![i] = c] /\ ChildOnly /\ plan' = plan
        BY <1>7 DEF Refine, In
    <2>2. old.iteration + 1 \in Nat \ {0}
        BY <1>1 DEF ChildType
    <2>3. /\ c \in ChildType /\ c.padding = old.padding /\ c.resident = old.resident
          /\ c.life = old.life /\ c.status = old.status /\ c.phase = old.phase
          /\ c.outcome = old.outcome /\ c.hit = old.hit
        BY <1>1, <2>2 DEF ChildType
    <2> HIDE DEF c
    <2>4. /\ c.padding <= c.resident /\ c.life = "running" /\ old.hit \subseteq c.hit
          /\ MemoryLimit(i) # NoLimit /\ c.resident >= MemoryLimit(i) => "memory" \in c.hit
          /\ c.phase \in {"write", "writing", "written"} => c.outcome = "Solved"
        BY <1>1, <2>1, <2>3 DEF Sound, Explained, Alive
    <2>5. PlanStep(old, c)
        BY <2>1, <2>3 DEF PlanStep, HasPlan
    <2> QED BY <2>1, <2>3, <2>4, <2>5, LivingIsSound
<1>8. CASE StopAtPoll(i)
    <2>1. /\ Alive(i) /\ ChildOnly /\ plan' = plan
        BY <1>8 DEF StopAtPoll, In
    <2>2. CASE old.padding > 0
        <3> DEFINE r == Released(old)
                   c == [r EXCEPT !.phase = "search"]
        <3>1. child' = [child EXCEPT ![i] = c]
            BY <1>8, <2>2 DEF StopAtPoll
        <3>2. /\ r \in ChildType /\ r.padding = 0 /\ r.resident = old.resident - old.padding
              /\ r.life = old.life /\ r.status = old.status /\ r.hit = old.hit
            BY <1>1, ReleasedIsTyped
        <3> HIDE DEF r
        <3>3. /\ c \in ChildType /\ c.padding = r.padding /\ c.resident = r.resident
              /\ c.life = r.life /\ c.status = r.status /\ c.phase = "search" /\ c.hit = r.hit
            BY <3>2 DEF ChildType
        <3> HIDE DEF c
        <3>4. old.resident \in Nat /\ old.padding \in Nat
            BY <1>1 DEF ChildType
        <3>5. /\ c.padding <= c.resident /\ c.life = "running" /\ old.hit \subseteq c.hit
              /\ MemoryLimit(i) # NoLimit /\ c.resident >= MemoryLimit(i) => "memory" \in c.hit
            BY <1>1, <2>1, <3>2, <3>3, <3>4 DEF Sound, Explained, Alive
        <3>6. PlanStep(old, c)
            BY <2>1, <3>3, <3>5 DEF PlanStep, HasPlan
        <3> QED BY <2>1, <3>1, <3>2, <3>3, <3>5, <3>6, LivingIsSound
    <2>3. CASE ~(old.padding > 0)
        <3>1. Advance(i, "search")
            BY <1>8, <2>3, Zenon DEF StopAtPoll, Advance
        <3> QED BY <2>1, <3>1, AdvanceIsSound DEF PlanStep, HasPlan
    <2> QED BY <2>2, <2>3
<1>9. CASE FinishConstruction(i)
    BY <1>9, AdvanceIsSound DEF FinishConstruction, In, Alive, PlanStep, HasPlan
<1>10. CASE SearchSolves(i)
    <2> DEFINE c == [old EXCEPT !.outcome = "Solved", !.phase = "write"]
    <2>1. Alive(i) /\ child' = [child EXCEPT ![i] = c] /\ ChildOnly /\ plan' = plan
        BY <1>10 DEF SearchSolves, In
    <2>2. "Solved" \in Outcomes
        BY DEF Outcomes
    <2>3. /\ c \in ChildType /\ c.padding = old.padding /\ c.resident = old.resident
          /\ c.life = old.life /\ c.status = old.status /\ c.phase = "write"
          /\ c.outcome = "Solved" /\ c.hit = old.hit
        BY <1>1, <2>2 DEF ChildType
    <2> HIDE DEF c
    <2>4. /\ c.padding <= c.resident /\ c.life = "running" /\ old.hit \subseteq c.hit
          /\ MemoryLimit(i) # NoLimit /\ c.resident >= MemoryLimit(i) => "memory" \in c.hit
        BY <1>1, <2>1, <2>3 DEF Sound, Explained, Alive
    <2>5. PlanStep(old, c)
        BY <2>1, <2>3, <2>4 DEF PlanStep, HasPlan
    <2> QED BY <2>1, <2>3, <2>4, <2>5, LivingIsSound
<1>11. CASE SearchIsExhausted(i)
    <2>1. /\ Alive(i) /\ ChildOnly /\ plan' = plan
          /\ child' = [child EXCEPT ![i] = Dead(old, "Unsolvable", 0, {})]
        BY <1>11, Zenon DEF SearchIsExhausted, SearchEnds, In
    <2> QED BY <1>0, <2>1, SuccessIsSound
<1>12. CASE SearchTimesOut(i)
    <2>1. /\ Alive(i) /\ ChildOnly /\ plan' = plan
          /\ child' = [child EXCEPT ![i] = Dead(old, "Timeout", ExitTimeout, {"time"})]
        BY <1>12, Zenon DEF SearchTimesOut, SearchEnds, In
    <2>2. "Timeout" \in Outcomes
        BY DEF Outcomes
    <2> QED BY <1>0, <2>1, <2>2, TimeoutIsSound
<1>13. CASE SearchOutOfMemory(i)
    <2>1. /\ Alive(i) /\ ChildOnly /\ plan' = plan
          /\ child' = [child EXCEPT ![i] = Dead(old, "OutOfMemory", ExitOutOfMemory, {})]
        BY <1>13, Zenon DEF SearchOutOfMemory, SearchEnds, In
    <2>2. "OutOfMemory" \in Outcomes
        BY DEF Outcomes
    <2>3. "memory" \in {} \cup old.hit
        BY <1>13 DEF SearchOutOfMemory, In, Sound, Explained, Alive
    <2> QED BY <1>0, <2>1, <2>2, <2>3, StatusValues, DeathIsSound
<1>14. CASE TruncatePlan(i)
    <2>1. Alive(i) /\ Advance(i, "writing") /\ plan' = "partial" /\ ChildOnly
          /\ old.phase = "write"
        BY <1>14 DEF TruncatePlan, In
    <2>2. old.outcome = "Solved"
        BY <2>1 DEF Sound, Explained
    <2>3. PlanStep(old, [old EXCEPT !.phase = "writing"])
        BY <1>1, <2>1 DEF PlanStep, HasPlan, Alive, ChildType
    <2> QED BY <2>1, <2>2, <2>3, AdvanceIsSound
<1>15. CASE CompletePlan(i)
    <2>1. Alive(i) /\ Advance(i, "written") /\ plan' = "complete" /\ ChildOnly
          /\ old.phase = "writing"
        BY <1>15 DEF CompletePlan, In
    <2>2. old.outcome = "Solved"
        BY <2>1 DEF Sound, Explained
    <2>3. PlanStep(old, [old EXCEPT !.phase = "written"])
        BY <2>1 DEF PlanStep
    <2> QED BY <2>1, <2>2, <2>3, AdvanceIsSound
<1>16. CASE ExitSolved(i)
    <2>1. /\ Alive(i) /\ ChildOnly /\ plan' = plan /\ old.phase = "written"
          /\ child' = [child EXCEPT ![i] = Dead(old, old.outcome, 0, {})]
        BY <1>16 DEF ExitSolved, In, Dies
    <2>2. old.outcome = "Solved"
        BY <2>1 DEF Sound, Explained
    <2> QED BY <1>0, <2>1, <2>2, SuccessIsSound
<1>17. CASE ExitWithError(i)
    <2>1. Alive(i) /\ ChildOnly /\ plan' = plan
        BY <1>17 DEF ExitWithError, In
    <2>2. old.outcome \in Outcomes
        BY <1>1 DEF ChildType
    <2>3. CASE Dies(i, ExitFailure, {})
        BY <1>0, <2>1, <2>3, FailureIsSound
    <2>4. CASE Dies(i, ExitUnsupported, {})
        BY <1>0, <2>1, <2>4, FailureIsSound
    <2>5. CASE Dies(i, ExitTimeout, {"time"})
        <3>1. child' = [child EXCEPT ![i] = Dead(old, old.outcome, ExitTimeout, {"time"})]
            BY <2>5 DEF Dies
        <3> QED BY <1>0, <2>1, <2>2, <3>1, TimeoutIsSound
    <2> QED BY <1>17, <2>3, <2>4, <2>5 DEF ExitWithError
<1>18. CASE CpuLimitReached(i)
    <2>1. /\ Alive(i) /\ ChildOnly /\ plan' = plan
          /\ Dies(i, SignalStatus(i, SigXcpu), {"time"})
        BY <1>18 DEF CpuLimitReached
    <2>2. SignalStatus(i, SigXcpu) \in {-SigXcpu, 128 + SigXcpu}
        BY DEF SignalStatus
    <2>3. old.outcome \in Outcomes
        BY <1>1 DEF ChildType
    <2>4. child' = [child EXCEPT ![i] = Dead(old, old.outcome, SignalStatus(i, SigXcpu), {"time"})]
        BY <2>1 DEF Dies
    <2> QED BY <1>0, <2>1, <2>2, <2>3, <2>4, TimeoutIsSound
<1>19. CASE Crash(i)
    <2>1. /\ Alive(i) /\ ChildOnly /\ plan' = plan
          /\ Dies(i, SignalStatus(i, SigSegv), {})
        BY <1>19 DEF Crash
    <2>2. SignalStatus(i, SigSegv) \in {-SigSegv, 128 + SigSegv}
        BY DEF SignalStatus
    <2> QED BY <1>0, <2>1, <2>2, FailureIsSound
<1> QED
    BY <1>2, <1>3, <1>4, <1>5, <1>6, <1>7, <1>8, <1>9, <1>10, <1>11, <1>12, <1>13, <1>14,
       <1>15, <1>16, <1>17, <1>18, <1>19 DEF ChildStep

LEMMA ChildStepNeedsLife ==
    ASSUME NEW i \in Stages, ChildStep(i)
    PROVE  Alive(i)
BY DEF ChildStep, InstallHooks, RegisterHandlers, Allocate, AllocationRecovers,
       AllocationFails, Refine, StopAtPoll, FinishConstruction, SearchSolves,
       SearchIsExhausted, SearchTimesOut, SearchOutOfMemory, TruncatePlan, CompletePlan,
       ExitSolved, ExitWithError, CpuLimitReached, Crash, In

LEMMA StagesAreTyped ==
    ASSUME TypeOK
    PROVE  /\ stage \in Stages /\ stage <= Len(config.stages)
           /\ Len(config.stages) \in Stages
           /\ Stages = {1, 2}
<1>1. Len(config.stages) \in Stages
    BY ConfigsAssumption DEF TypeOK
<1>2. Stages = {1, 2}
    BY DEF Stages
<1> DEFINE n == Len(config.stages)
<1>3. stage \in 1..n
    BY DEF TypeOK
<1> HIDE DEF n
<1>4. n \in {1, 2}
    BY <1>1, <1>2 DEF n
<1>5. stage \in Stages /\ stage <= n
    BY <1>2, <1>3, <1>4
<1> QED BY <1>1, <1>2, <1>5 DEF n

LEMMA ChildStepKeepsInvariant ==
    ASSUME ProcessInvariant, NEW i \in Stages, ChildStep(i)
    PROVE  ProcessInvariant'
<1> USE DEF ProcessInvariant
<1>1. Alive(i)
    BY ChildStepNeedsLife
<1>2. i <= stage
    BY <1>1, StagesAreTyped DEF StagesInOrder, NoChild, Alive
<1>3. i \in 1..Len(config.stages)
    BY <1>2, StagesAreTyped DEF Stages
<1>4. PICK c : ChildGoes(i, c)
    BY <1>3, ChildStepIsSound DEF ChildrenAreSound
<1>5. /\ config' = config /\ stage' = stage /\ wrapper' = wrapper /\ codes' = codes
      /\ exitCode' = exitCode
    BY <1>4 DEF ChildGoes, KeepsRun
<1>6. /\ child' = [child EXCEPT ![i] = c]
      /\ Sound(MemoryLimit(i), c) /\ c \in ChildType /\ c.padding <= c.resident
      /\ c.life \in {"running", "zombie"}
      /\ child[i].hit \subseteq c.hit
      /\ PlanStep(child[i], c)
    BY <1>4 DEF ChildGoes, Sound
<1>7. /\ child' \in [Stages -> ChildType]
      /\ child'[i] = c
      /\ \A j \in Stages \ {i} : child'[j] = child[j]
    BY <1>6 DEF TypeOK
<1>8. plan' \in {"absent", "old", "partial", "complete"}
    BY <1>6 DEF PlanStep, TypeOK
<1>9. TypeOK'
    BY <1>5, <1>6, <1>7, <1>8 DEF TypeOK
<1>10. ChildrenAreSound'
    BY <1>5, <1>6, <1>7, StagesAreTyped DEF ChildrenAreSound, MemoryLimit, Limits, Stages
<1>11. StagesInOrder'
    BY <1>1, <1>2, <1>5, <1>7, StagesAreTyped DEF StagesInOrder, WrapperAt, Alive, NoChild
<1>12. \A j \in Stages : child[j].hit \subseteq child'[j].hit
    BY <1>6, <1>7
<1>13. WrapperIsHonest'
    BY <1>5, <1>12, StagesAreTyped DEF WrapperIsHonest, MemoryLimit, Limits
<1>14. Orphans' = Orphans
    BY <1>1, <1>5, <1>6, <1>7 DEF Orphans, Alive
<1>15. PlanIsWhole'
    <2>1. SUFFICES ASSUME Orphans = {}, HasPlan(child'[stage])
                   PROVE  plan' = "complete"
        BY <1>5, <1>14, Zenon DEF PlanIsWhole, HasPlan
    <2>2. i = stage
        BY <1>1, <1>2, <2>1, StagesAreTyped DEF Orphans, Alive, Stages
    <2> QED BY <1>6, <1>7, <2>1, <2>2 DEF PlanStep, PlanIsWhole
<1>16. SuccessIsReaped'
    BY <1>1, <1>2, <1>5, <1>7, StagesAreTyped DEF SuccessIsReaped, Alive
<1>17. LimitsAreReal'
    BY <1>5, <1>12 DEF LimitsAreReal
<1>18. ChildrenAreReaped'
    BY <1>5, <1>14 DEF ChildrenAreReaped
<1> QED BY <1>9, <1>10, <1>11, <1>13, <1>15, <1>16, <1>17, <1>18

-----------------------------------------------------------------------------
(* Steps of the wrapper.                                                    *)

LEMMA CodesAreNormal ==
    ASSUME NEW status \in Statuses, NEW killed \in BOOLEAN, NEW timeLimited \in BOOLEAN,
           NEW code, code = NormalizeWrappedExit(status, killed, timeLimited)
    PROVE  /\ code \in Codes
           /\ code = 0 => status = 0
           /\ code = ExitOutOfMemory => killed \/ status = ExitOutOfMemory
           /\ code = ExitTimeout => status \in {ExitTimeout, 128 + SigXcpu, -SigXcpu}
BY DEF NormalizeWrappedExit, Statuses, Codes, ExitFailure, ExitOutOfMemory, ExitTimeout,
       ExitUnsupported, SigKill, SigSegv, SigXcpu

LEMMA StageEndKeepsInvariant ==
    ASSUME ProcessInvariant, NEW code \in Codes, StageEnds(code), exitCode = NoCode,
           config' = config, plan' = plan,
           \/ child' = child
           \/ child[stage].life = "zombie" /\ child' = [child EXCEPT ![stage].life = "reaped"],
           code = ExitOutOfMemory => "memory" \in child[stage].hit,
           code = ExitTimeout => "time" \in child[stage].hit,
           code = 0 => child'[stage].life = "reaped" /\ child[stage].status = 0,
           config.readsFail \/ child'[stage].life \in {"none", "reaped"}
    PROVE  ProcessInvariant'
<1> USE DEF ProcessInvariant
<1>1. stage \in Stages /\ child[stage] \in ChildType
    BY StagesAreTyped DEF TypeOK
<1>2. /\ child'[stage] \in ChildType
      /\ child'[stage].padding = child[stage].padding
      /\ child'[stage].resident = child[stage].resident
      /\ child'[stage].phase = child[stage].phase
      /\ child'[stage].outcome = child[stage].outcome
      /\ child'[stage].hit = child[stage].hit
      /\ child'[stage].status = child[stage].status
      /\ \/ child'[stage].life = child[stage].life
         \/ child[stage].life = "zombie" /\ child'[stage].life = "reaped"
      /\ child' \in [Stages -> ChildType]
      /\ \A j \in Stages \ {stage} : child'[j] = child[j]
    <2>1. CASE child' = child
        BY <1>1, <2>1 DEF TypeOK
    <2>2. CASE child[stage].life = "zombie" /\ child' = [child EXCEPT ![stage].life = "reaped"]
        <3> DEFINE d == [child[stage] EXCEPT !.life = "reaped"]
        <3>1. child' = [child EXCEPT ![stage] = d]
            BY <2>2
        <3>2. /\ d \in ChildType /\ d.life = "reaped"
              /\ d.padding = child[stage].padding /\ d.resident = child[stage].resident
              /\ d.phase = child[stage].phase /\ d.outcome = child[stage].outcome
              /\ d.hit = child[stage].hit /\ d.status = child[stage].status
            BY <1>1 DEF ChildType
        <3> HIDE DEF d
        <3> QED BY <1>1, <2>2, <3>1, <3>2 DEF TypeOK
    <2> QED BY <2>1, <2>2
<1>3. \/ /\ code = 0 \/ stage = Len(config.stages)
         /\ exitCode' = code /\ stage' = stage /\ wrapper' = wrapper
      \/ /\ stage < Len(config.stages)
         /\ exitCode' = exitCode /\ stage' = stage + 1 /\ wrapper' = NewWrapper
         /\ code # 0
    BY StagesAreTyped DEF StageEnds
<1>4. codes' = [codes EXCEPT ![stage] = code]
    BY DEF StageEnds
<1>5. TypeOK'
    <2>1. /\ config' \in Configs /\ plan' \in {"absent", "old", "partial", "complete"}
          /\ \A i \in Stages : child'[i].padding <= child'[i].resident
        BY <1>1, <1>2 DEF TypeOK
    <2>2. codes' \in [Stages -> Codes \cup {NoCode}] /\ exitCode' \in Codes \cup {NoCode}
        BY <1>1, <1>3, <1>4 DEF TypeOK
    <2>3. wrapper' \in WrapperType
        <3>1. wrapper \in WrapperType /\ NewWrapper \in WrapperType
            BY DEF TypeOK, NewWrapper, WrapperType
        <3>2. wrapper' = wrapper \/ wrapper' = NewWrapper
            BY <1>3
        <3> QED BY <3>1, <3>2
    <2>4. stage' \in 1..Len(config'.stages)
        <3> DEFINE n == Len(config.stages)
        <3>1. n \in {1, 2} /\ stage \in {1, 2} /\ stage <= n
            BY StagesAreTyped
        <3>2. stage' = stage \/ (stage' = stage + 1 /\ stage < n)
            BY <1>3
        <3> HIDE DEF n
        <3>3. stage' \in 1..n
            BY <3>1, <3>2
        <3> QED BY <3>3 DEF n
    <2> QED BY <1>2, <2>1, <2>2, <2>3, <2>4 DEF TypeOK
<1>6. ChildrenAreSound'
    <2>1. SUFFICES ASSUME NEW i \in 1..Len(config.stages)
                   PROVE  Sound(MemoryLimit(i), child'[i])
        BY Zenon DEF ChildrenAreSound, MemoryLimit, Limits
    <2>2. i \in Stages /\ Sound(MemoryLimit(i), child[i])
        BY <2>1, LimitsAreTyped DEF ChildrenAreSound
    <2>3. CASE i # stage
        BY <1>2, <2>2, <2>3
    <2>4. CASE i = stage
        BY <1>2, <2>2, <2>4 DEF Sound, Explained
    <2> QED BY <2>3, <2>4
<1>7. StagesInOrder'
    <2>1. \A i \in Stages : i > stage => child'[i] = NoChild
        BY <1>2, StagesAreTyped DEF StagesInOrder
    <2>2. CASE exitCode' = code /\ stage' = stage
        <3>1. code # NoCode
            BY DEF Codes, NoCode, ExitFailure, ExitOutOfMemory, ExitTimeout,
                   ExitUnsupported, SigKill, SigSegv, SigXcpu
        <3> QED BY <2>1, <2>2, <3>1 DEF StagesInOrder, WrapperAt
    <2>3. CASE stage < Len(config.stages) /\ stage' = stage + 1
        BY <2>1, <2>3, StagesAreTyped DEF StagesInOrder, WrapperAt
    <2> QED BY <1>3, <2>2, <2>3
<1>8. WrapperIsHonest'
    BY <1>2, <1>3 DEF WrapperIsHonest, NewWrapper, MemoryLimit, Limits
<1>9. PlanIsWhole'
    <2>1. SUFFICES ASSUME Orphans' = {}, HasPlan(child'[stage'])
                   PROVE  plan = "complete"
        BY Zenon DEF PlanIsWhole, HasPlan
    <2>2. stage' = stage
        <3>1. SUFFICES ASSUME stage < Len(config.stages), stage' = stage + 1
                       PROVE  FALSE
            BY <1>3
        <3>2. stage' \in Stages \ {stage} /\ stage' > stage
            BY <3>1, StagesAreTyped
        <3>3. child'[stage'] = NoChild
            BY <1>2, <3>2 DEF StagesInOrder
        <3> QED BY <2>1, <3>3 DEF HasPlan, NoChild
    <2>3. Orphans = {}
        <3>1. SUFFICES ASSUME NEW i \in Stages, i < stage, child[i].life \in {"running", "zombie"}
                       PROVE  FALSE
            BY Zenon DEF Orphans
        <3>2. child'[i] = child[i]
            BY <1>2, <3>1, StagesAreTyped
        <3> QED BY <2>1, <2>2, <3>1, <3>2 DEF Orphans
    <2>4. HasPlan(child[stage])
        BY <1>2, <2>1, <2>2 DEF HasPlan
    <2> QED BY <2>3, <2>4 DEF PlanIsWhole
<1>10. SuccessIsReaped'
    BY <1>2, <1>3 DEF SuccessIsReaped, NoCode
<1>11. LimitsAreReal'
    BY <1>1, <1>2, <1>4 DEF LimitsAreReal, TypeOK
<1>12. ChildrenAreReaped'
    <2>1. SUFFICES ASSUME ~config.readsFail, NEW i \in Stages,
                          child'[i].life \in {"running", "zombie"}
                   PROVE  FALSE
        BY Zenon DEF ChildrenAreReaped, Orphans
    <2>2. i # stage
        BY <2>1
    <2>3. child'[i] = child[i]
        BY <1>2, <2>2
    <2>4. ~(i > stage)
        BY <2>1, <2>3 DEF StagesInOrder, NoChild
    <2>5. i < stage
        BY <2>2, <2>4, StagesAreTyped
    <2> QED BY <2>1, <2>3, <2>5 DEF ChildrenAreReaped, Orphans
<1> QED BY <1>5, <1>6, <1>7, <1>8, <1>9, <1>10, <1>11, <1>12

\* A step of the wrapper that changes only its own record.
LEMMA WrapperMoveKeepsInvariant ==
    ASSUME ProcessInvariant, exitCode = NoCode,
           UNCHANGED <<config, stage, child, codes, exitCode, plan>>,
           wrapper' \in WrapperType, wrapper'.pc # "spawn",
           wrapper'.pc = "kill" \/ wrapper'.killed => "memory" \in child[stage].hit,
           wrapper'.pc = "retry" => config.readsFail,
           wrapper'.pc \in {"poll", "measure", "retry"} => MemoryLimit(stage) # NoLimit
    PROVE  ProcessInvariant'
<1> USE DEF ProcessInvariant
<1>1. TypeOK'
    BY DEF TypeOK
<1>2. ChildrenAreSound'
    BY DEF ChildrenAreSound, MemoryLimit, Limits
<1>3. StagesInOrder' /\ WrapperIsHonest'
    BY DEF StagesInOrder, WrapperAt, WrapperIsHonest, MemoryLimit, Limits
<1>4. Orphans' = Orphans
    BY DEF Orphans
<1>5. PlanIsWhole' /\ SuccessIsReaped' /\ LimitsAreReal' /\ ChildrenAreReaped'
    BY <1>4 DEF PlanIsWhole, SuccessIsReaped, LimitsAreReal, ChildrenAreReaped, HasPlan
<1> QED BY <1>1, <1>2, <1>3, <1>5

\* Starting the child of a stage, or killing it.
LEMMA StageChildKeepsInvariant ==
    ASSUME ProcessInvariant, exitCode = NoCode,
           UNCHANGED <<config, stage, codes, exitCode, plan>>,
           NEW c, child' = [child EXCEPT ![stage] = c],
           Sound(MemoryLimit(stage), c),
           child[stage].hit \subseteq c.hit,
           ~HasPlan(c),
           wrapper' \in WrapperType, wrapper'.pc \notin {"spawn", "measure", "retry"},
           wrapper'.pc = "kill" \/ wrapper'.killed => "memory" \in child[stage].hit,
           wrapper'.pc = "poll" => MemoryLimit(stage) # NoLimit
    PROVE  ProcessInvariant'
<1> USE DEF ProcessInvariant
<1>1. stage \in Stages /\ c \in ChildType /\ c.padding <= c.resident
    BY StagesAreTyped DEF Sound
<1>2. /\ child' \in [Stages -> ChildType]
      /\ child'[stage] = c
      /\ \A j \in Stages \ {stage} : child'[j] = child[j]
    BY <1>1 DEF TypeOK
<1>3. TypeOK'
    BY <1>1, <1>2 DEF TypeOK
<1>4. ChildrenAreSound'
    BY <1>1, <1>2, StagesAreTyped DEF ChildrenAreSound, MemoryLimit, Limits, Stages
<1>5. StagesInOrder'
    BY <1>2, StagesAreTyped DEF StagesInOrder, WrapperAt
<1>6. \A j \in Stages : child[j].hit \subseteq child'[j].hit
    BY <1>2
<1>7. WrapperIsHonest'
    BY <1>1, <1>6 DEF WrapperIsHonest, WrapperType, MemoryLimit, Limits
<1>8. PlanIsWhole'
    BY <1>2 DEF PlanIsWhole, HasPlan
<1>9. SuccessIsReaped'
    BY DEF SuccessIsReaped, NoCode
<1>10. LimitsAreReal'
    BY <1>6 DEF LimitsAreReal
<1>11. Orphans' = Orphans
    BY <1>1, <1>2, StagesAreTyped DEF Orphans
<1>12. ChildrenAreReaped'
    BY <1>11 DEF ChildrenAreReaped
<1> QED BY <1>3, <1>4, <1>5, <1>7, <1>8, <1>9, <1>10, <1>12

LEMMA WrapperStepKeepsInvariant ==
    ASSUME ProcessInvariant, WrapperStep
    PROVE  ProcessInvariant'
<1> USE DEF ProcessInvariant
<1>1. /\ stage \in Stages /\ stage \in 1..Len(config.stages)
      /\ child[stage] \in ChildType /\ wrapper \in WrapperType
      /\ MemoryLimit(stage) \in Nat /\ Limits(stage).timeLimited \in BOOLEAN
      /\ Sound(MemoryLimit(stage), child[stage])
    <2>1. stage \in 1..Len(config.stages)
        BY DEF TypeOK
    <2> QED BY <2>1, StagesAreTyped, LimitsAreTyped DEF TypeOK, ChildrenAreSound
<1>2. exitCode = NoCode
    BY DEF WrapperStep, Spawn, SpawnFails, PortfolioFails, PollReaps, PollFindsAlive,
           MeasureFails, MeasureExited, Measure, RetryLater, GiveUp, Kill, Wait, WrapperAt
<1>3. CASE Spawn
    <2> DEFINE c == [NoChild EXCEPT !.life = "running"]
    <2>1. child[stage] = NoChild
        BY <1>3 DEF Spawn, StagesInOrder
    <2>2. child' = [child EXCEPT ![stage] = c]
        BY <1>3, <2>1 DEF Spawn, TypeOK
    <2>3. /\ c \in ChildType /\ c.padding = 0 /\ c.resident = 0 /\ c.life = "running"
          /\ c.status = 0 /\ c.phase = "start" /\ c.hit = {}
        BY <1>1, <2>1 DEF ChildType, NoChild
    <2> HIDE DEF c
    <2>4. Sound(MemoryLimit(stage), c) /\ ~HasPlan(c) /\ child[stage].hit \subseteq c.hit
        BY <1>1, <2>1, <2>3 DEF Sound, Explained, HasPlan, NoLimit, NoChild,
                                ExitOutOfMemory, ExitTimeout, SigXcpu
    <2>5. /\ wrapper' \in WrapperType /\ wrapper'.pc \in {"wait", "poll"}
          /\ wrapper'.pc = "poll" => MemoryLimit(stage) # NoLimit
          /\ wrapper'.killed = wrapper.killed
        BY <1>1, <1>3 DEF Spawn, GoTo, WrapperType
    <2>6. wrapper'.killed => "memory" \in child[stage].hit
        BY <2>5 DEF WrapperIsHonest
    <2>7. UNCHANGED <<config, stage, codes, exitCode, plan>>
        BY <1>3 DEF Spawn
    <2> QED BY <1>2, <2>2, <2>4, <2>5, <2>6, <2>7, StageChildKeepsInvariant
<1>4. CASE SpawnFails
    <2>1. /\ StageEnds(ExitFailure) /\ config' = config /\ plan' = plan /\ child' = child
          /\ child[stage] = NoChild
        BY <1>4 DEF SpawnFails, StagesInOrder
    <2>2. ExitFailure \in Codes /\ ExitFailure \notin {0, ExitOutOfMemory, ExitTimeout}
        BY DEF Codes, ExitFailure, ExitOutOfMemory, ExitTimeout
    <2>3. child'[stage].life = "none"
        BY <2>1 DEF NoChild
    <2> QED BY <1>2, <2>1, <2>2, <2>3, StageEndKeepsInvariant
<1>5. CASE PortfolioFails
    <2>1. /\ exitCode' = ExitFailure /\ child[stage] = NoChild
          /\ UNCHANGED <<config, stage, child, wrapper, codes, plan>>
        BY <1>5 DEF PortfolioFails, StagesInOrder
    <2>2. ExitFailure \in Codes /\ ExitFailure \notin {0, NoCode}
        BY DEF Codes, ExitFailure, NoCode
    <2>3. TypeOK' /\ ChildrenAreSound'
        BY <2>1, <2>2 DEF TypeOK, ChildrenAreSound, MemoryLimit, Limits
    <2>4. StagesInOrder' /\ WrapperIsHonest' /\ SuccessIsReaped' /\ LimitsAreReal'
        BY <2>1, <2>2 DEF StagesInOrder, WrapperAt, WrapperIsHonest, SuccessIsReaped,
                          LimitsAreReal, MemoryLimit, Limits
    <2>5. Orphans' = Orphans
        <3>1. \A i \in Stages : i < stage \/ child[i] = NoChild
            BY <2>1, StagesAreTyped DEF StagesInOrder
        <3> QED BY <1>2, <2>1, <3>1 DEF Orphans, NoChild
    <2>6. PlanIsWhole' /\ ChildrenAreReaped'
        BY <2>1, <2>5 DEF PlanIsWhole, HasPlan, ChildrenAreReaped
    <2> QED BY <2>3, <2>4, <2>6
<1>6. ASSUME NEW killed \in BOOLEAN, ReapAndEnd(killed), config' = config, plan' = plan,
             killed => "memory" \in child[stage].hit
      PROVE  ProcessInvariant'
    <2> DEFINE status == child[stage].status
               code == NormalizeWrappedExit(status, killed, Limits(stage).timeLimited)
    <2>1. /\ child[stage].life = "zombie" /\ StageEnds(code)
          /\ child' = [child EXCEPT ![stage].life = "reaped"]
        BY <1>6 DEF ReapAndEnd, Reap
    <2>2. status \in Statuses
        BY <1>1 DEF ChildType
    <2>3. /\ code \in Codes
          /\ code = 0 => status = 0
          /\ code = ExitOutOfMemory => killed \/ status = ExitOutOfMemory
          /\ code = ExitTimeout => status \in {ExitTimeout, 128 + SigXcpu, -SigXcpu}
        <3> HIDE DEF status
        <3> QED BY <1>1, <1>6, <2>2, CodesAreNormal
    <2> HIDE DEF code
    <2>4. /\ code = ExitOutOfMemory => "memory" \in child[stage].hit
          /\ code = ExitTimeout => "time" \in child[stage].hit
        BY <1>1, <1>6, <2>3 DEF Sound, Explained
    <2>5. /\ child'[stage].life = "reaped"
          /\ code = 0 => child[stage].status = 0
          /\ \/ child' = child
             \/ child[stage].life = "zombie" /\ child' = [child EXCEPT ![stage].life = "reaped"]
        BY <1>1, <2>1, <2>3 DEF TypeOK, ChildType
    <2> HIDE DEF status
    <2> QED BY <1>2, <1>6, <2>1, <2>3, <2>4, <2>5, StageEndKeepsInvariant
<1>7. CASE PollReaps
    BY <1>6, <1>7 DEF PollReaps
<1>8. CASE Wait
    BY <1>1, <1>6, <1>8 DEF Wait, WrapperIsHonest, WrapperType
<1>9. CASE GiveUp
    <2>1. /\ StageEnds(ExitFailure) /\ config' = config /\ plan' = plan /\ child' = child
          /\ config.readsFail
        BY <1>9 DEF GiveUp, WrapperAt, WrapperIsHonest
    <2>2. ExitFailure \in Codes /\ ExitFailure \notin {0, ExitOutOfMemory, ExitTimeout}
        BY DEF Codes, ExitFailure, ExitOutOfMemory, ExitTimeout
    <2> QED BY <1>2, <2>1, <2>2, StageEndKeepsInvariant
<1>10. CASE PollFindsAlive
    <2>1. /\ UNCHANGED <<config, stage, child, codes, exitCode, plan>>
          /\ wrapper' \in WrapperType /\ wrapper'.pc # "spawn"
          /\ wrapper'.killed = wrapper.killed
          /\ wrapper'.pc = "kill" => "memory" \in child[stage].hit
          /\ wrapper'.pc = "retry" => config.readsFail
          /\ wrapper'.pc \in {"poll", "measure", "retry"} => MemoryLimit(stage) # NoLimit
        BY <1>1, <1>10 DEF PollFindsAlive, GoTo, WrapperType, WrapperAt, WrapperIsHonest
    <2>2. wrapper'.killed => "memory" \in child[stage].hit
        BY <2>1 DEF WrapperIsHonest
    <2> QED BY <1>2, <2>1, <2>2, WrapperMoveKeepsInvariant
<1>11. CASE MeasureFails
    <2>1. /\ UNCHANGED <<config, stage, child, codes, exitCode, plan>>
          /\ wrapper' \in WrapperType /\ wrapper'.pc # "spawn"
          /\ wrapper'.killed = wrapper.killed
          /\ wrapper'.pc = "kill" => "memory" \in child[stage].hit
          /\ wrapper'.pc = "retry" => config.readsFail
          /\ wrapper'.pc \in {"poll", "measure", "retry"} => MemoryLimit(stage) # NoLimit
        BY <1>1, <1>11 DEF MeasureFails, GoTo, WrapperType, WrapperAt, WrapperIsHonest
    <2>2. wrapper'.killed => "memory" \in child[stage].hit
        BY <2>1 DEF WrapperIsHonest
    <2> QED BY <1>2, <2>1, <2>2, WrapperMoveKeepsInvariant
<1>12. CASE MeasureExited
    <2>1. /\ UNCHANGED <<config, stage, child, codes, exitCode, plan>>
          /\ wrapper' \in WrapperType /\ wrapper'.pc # "spawn"
          /\ wrapper'.killed = wrapper.killed
          /\ wrapper'.pc = "kill" => "memory" \in child[stage].hit
          /\ wrapper'.pc = "retry" => config.readsFail
          /\ wrapper'.pc \in {"poll", "measure", "retry"} => MemoryLimit(stage) # NoLimit
        BY <1>1, <1>12 DEF MeasureExited, GoTo, WrapperType, WrapperAt, WrapperIsHonest
    <2>2. wrapper'.killed => "memory" \in child[stage].hit
        BY <2>1 DEF WrapperIsHonest
    <2> QED BY <1>2, <2>1, <2>2, WrapperMoveKeepsInvariant
<1>13. CASE Measure
    <2>1. /\ UNCHANGED <<config, stage, child, codes, exitCode, plan>>
          /\ wrapper' \in WrapperType /\ wrapper'.pc # "spawn"
          /\ wrapper'.killed = wrapper.killed
          /\ wrapper'.pc = "kill" => "memory" \in child[stage].hit
          /\ wrapper'.pc = "retry" => config.readsFail
          /\ wrapper'.pc \in {"poll", "measure", "retry"} => MemoryLimit(stage) # NoLimit
        <3>1. /\ UNCHANGED <<config, stage, child, codes, exitCode, plan>>
              /\ Alive(stage) /\ MemoryLimit(stage) # NoLimit
            BY <1>13 DEF Measure, WrapperAt, WrapperIsHonest
        <3>2. CASE child[stage].resident >= MemoryLimit(stage)
            <4>1. wrapper' = [wrapper EXCEPT !.pc = "kill"]
                BY <1>13, <3>2 DEF Measure
            <4>2. "memory" \in child[stage].hit
                BY <1>1, <3>1, <3>2 DEF Sound, Explained, Alive
            <4> QED BY <1>1, <3>1, <4>1, <4>2 DEF WrapperType
        <3>3. CASE ~(child[stage].resident >= MemoryLimit(stage))
            <4>1. wrapper' = [wrapper EXCEPT !.pc = "poll", !.failures = 0]
                BY <1>13, <3>3 DEF Measure
            <4> QED BY <1>1, <3>1, <4>1 DEF WrapperType
        <3> QED BY <3>2, <3>3
    <2>2. wrapper'.killed => "memory" \in child[stage].hit
        BY <2>1 DEF WrapperIsHonest
    <2> QED BY <1>2, <2>1, <2>2, WrapperMoveKeepsInvariant
<1>14. CASE RetryLater
    <2>1. /\ UNCHANGED <<config, stage, child, codes, exitCode, plan>>
          /\ wrapper' \in WrapperType /\ wrapper'.pc # "spawn"
          /\ wrapper'.killed = wrapper.killed
          /\ wrapper'.pc = "kill" => "memory" \in child[stage].hit
          /\ wrapper'.pc = "retry" => config.readsFail
          /\ wrapper'.pc \in {"poll", "measure", "retry"} => MemoryLimit(stage) # NoLimit
        <3>1. /\ UNCHANGED <<config, stage, child, codes, exitCode, plan>>
              /\ wrapper' = [wrapper EXCEPT !.pc = "poll", !.failures = @ + 1]
              /\ MemoryLimit(stage) # NoLimit
            BY <1>14 DEF RetryLater, WrapperAt, WrapperIsHonest
        <3>2. wrapper.failures + 1 \in Nat
            BY <1>1 DEF WrapperType
        <3> QED BY <1>1, <3>1, <3>2 DEF WrapperType
    <2>2. wrapper'.killed => "memory" \in child[stage].hit
        BY <2>1 DEF WrapperIsHonest
    <2> QED BY <1>2, <2>1, <2>2, WrapperMoveKeepsInvariant
<1>15. CASE Kill
    <2>1. /\ wrapper' = [wrapper EXCEPT !.pc = "wait", !.killed = TRUE]
          /\ UNCHANGED <<config, stage, codes, exitCode, plan>>
          /\ "memory" \in child[stage].hit
        BY <1>15 DEF Kill, WrapperAt, WrapperIsHonest
    <2>2. wrapper' \in WrapperType /\ wrapper'.pc = "wait"
        BY <1>1, <2>1 DEF WrapperType
    <2>3. CASE ~Alive(stage)
        <3>1. child' = child
            BY <1>15, <2>3 DEF Kill
        <3> QED BY <1>2, <2>1, <2>2, <3>1, WrapperMoveKeepsInvariant
    <2>4. CASE Alive(stage)
        <3> DEFINE c == Dead(child[stage], child[stage].outcome, -SigKill, {})
        <3>1. child' = [child EXCEPT ![stage] = c]
            BY <1>15, <2>4 DEF Kill, Dies
        <3>2. -SigKill \in Statuses
            BY StatusValues
        <3>3. child[stage].outcome \in Outcomes /\ child[stage].hit \in SUBSET {"time", "memory"}
            BY <1>1 DEF ChildType
        <3>4. c \in ChildType
            BY <3>2, <3>3, DeadIsTyped
        <3>5. -SigKill \notin {0, ExitOutOfMemory, ExitTimeout, 128 + SigXcpu, -SigXcpu}
            BY StatusValues
        <3>6. Sound(MemoryLimit(stage), c) /\ ~HasPlan(c) /\ child[stage].hit \subseteq c.hit
            BY <3>4, <3>5 DEF Dead, Sound, Explained, HasPlan
        <3> HIDE DEF c
        <3> QED BY <1>2, <2>1, <2>2, <3>1, <3>6, StageChildKeepsInvariant
    <2> QED BY <2>3, <2>4
<1> QED
    BY <1>3, <1>4, <1>5, <1>7, <1>8, <1>9, <1>10, <1>11, <1>12, <1>13, <1>14, <1>15
    DEF WrapperStep

-----------------------------------------------------------------------------
(* The theorems.                                                            *)

LEMMA InitHasInvariant ==
    ASSUME Init
    PROVE  ProcessInvariant
<1>1. config.stages \in Seq(StageType) /\ Len(config.stages) \in Stages
    BY ConfigsAssumption DEF Init, ConfigType
<1>2. NoChild \in ChildType /\ NoChild.padding <= NoChild.resident
    BY DEF NoChild, ChildType, Statuses, Codes, Outcomes
<1> DEFINE n == Len(config.stages)
<1> HIDE DEF n
<1>3. stage \in 1..n /\ 1..n \subseteq Stages
    <2>1. n \in {1, 2}
        BY <1>1 DEF n, Stages
    <2> QED BY <2>1 DEF Init, Stages
<1>4. TypeOK
    BY <1>2, <1>3 DEF n, Init, TypeOK, NewWrapper, WrapperType
<1>5. ChildrenAreSound
    <2>1. SUFFICES ASSUME NEW i \in 1..n
                   PROVE  Sound(MemoryLimit(i), NoChild)
        BY <1>3 DEF n, Init, ChildrenAreSound
    <2> QED BY <1>2 DEF Sound, Explained, NoChild, ExitOutOfMemory, ExitTimeout, SigXcpu
<1>6. StagesInOrder /\ WrapperIsHonest /\ PlanIsWhole /\ SuccessIsReaped
    BY DEF Init, StagesInOrder, WrapperIsHonest, PlanIsWhole, SuccessIsReaped, HasPlan,
           NewWrapper, NoChild, NoCode, Stages
<1>7. LimitsAreReal /\ ChildrenAreReaped
    BY DEF Init, LimitsAreReal, ChildrenAreReaped, Orphans, NoChild, NoCode,
           ExitOutOfMemory, ExitTimeout
<1> QED BY <1>4, <1>5, <1>6, <1>7 DEF ProcessInvariant

LEMMA NextKeepsInvariant == ProcessInvariant /\ [Next]_vars => ProcessInvariant'
<1> SUFFICES ASSUME ProcessInvariant, [Next]_vars
             PROVE  ProcessInvariant'
    OBVIOUS
<1>1. CASE WrapperStep
    BY <1>1, WrapperStepKeepsInvariant
<1>2. CASE \E i \in Stages : ChildStep(i)
    BY <1>2, ChildStepKeepsInvariant
<1>3. CASE UNCHANGED vars
    BY <1>3 DEF vars, ProcessInvariant, TypeOK, ChildrenAreSound, MemoryLimit, Limits,
                StagesInOrder, WrapperAt, WrapperIsHonest, PlanIsWhole, Orphans, HasPlan,
                SuccessIsReaped, LimitsAreReal, ChildrenAreReaped
<1> QED BY <1>1, <1>2, <1>3 DEF Next, Done

\* The processes keep their invariant.
THEOREM InvariantHolds == Spec => []ProcessInvariant
BY InitHasInvariant, NextKeepsInvariant, PTL DEF Spec

\* The state of wrapper, children and plan file has its types, and a child's padding is
\* part of its resident memory.
THEOREM ProcessTypesAreCorrect == Spec => []TypeOK
<1>1. ProcessInvariant => TypeOK
    BY DEF ProcessInvariant
<1> QED BY <1>1, InvariantHolds, PTL

\* An exit code of normalize_wrapped_exit that names a limit names one that was reached.
THEOREM LimitsAreRealAlways == Spec => []LimitsAreReal
<1>1. ProcessInvariant => LimitsAreReal
    BY DEF ProcessInvariant
<1> QED BY <1>1, InvariantHolds, PTL

\* wait_with_memory_limit leaves no child behind whose status can be read.
THEOREM ChildrenAreReapedAlways == Spec => []ChildrenAreReaped
<1>1. ProcessInvariant => ChildrenAreReaped
    BY DEF ProcessInvariant
<1> QED BY <1>1, InvariantHolds, PTL

\* A run that exits with 0 has an answer, and the whole plan in sas_plan if it found
\* one (write_plan_file, run_portfolio).
THEOREM SuccessHasAnAnswerAlways == Spec => []SuccessHasAnAnswer
<1>1. ProcessInvariant => SuccessHasAnAnswer
    <2> SUFFICES ASSUME ProcessInvariant, exitCode = 0
                 PROVE  SuccessHasAnAnswer
        BY DEF SuccessHasAnAnswer
    <2>1. child[stage].life = "reaped" /\ child[stage].status = 0
        BY DEF ProcessInvariant, SuccessIsReaped
    <2>2. stage \in 1..Len(config.stages)
        BY DEF ProcessInvariant, TypeOK
    <2>3. child[stage].outcome \in {"Solved", "Unsolvable"}
        BY <2>1, <2>2 DEF ProcessInvariant, ChildrenAreSound, Sound, Explained
    <2>4. child[stage].outcome = "Solved" /\ Orphans = {} => plan = "complete"
        BY <2>1 DEF ProcessInvariant, PlanIsWhole, HasPlan
    <2> QED BY <2>1, <2>3, <2>4 DEF SuccessHasAnAnswer
<1> QED BY <1>1, InvariantHolds, PTL

-----------------------------------------------------------------------------
(* Construction: no poll is passed once the padding is gone.                *)

\* Since the padding was released, no refinement was due for a poll.
NoPollSince(c) ==
    c.guarded /\ c.padding = 0 /\ c.phase \in {"start", "hooked", "construct"} =>
        /\ c.releasedAt \in 1..c.iteration
        /\ \A m \in Nat : c.releasedAt <= m /\ m < c.iteration => m % PollInterval # 0

NoPollIsPassed == \A i \in Stages : NoPollSince(child[i])

\* Of as many numbers as there are between two polls, one is a multiple of the interval.
LEMMA SomeMultiple ==
    ASSUME NEW P \in Nat \ {0}, NEW r \in Nat
    PROVE  \E m \in Nat : r <= m /\ m < r + P /\ m % P = 0
<1> DEFINE q == r \div P
           k == r % P
<1>1. q \in Nat /\ k \in Nat /\ k < P /\ r = P * q + k
    OBVIOUS
<1> HIDE DEF q, k
<1>2. \A n \in Nat : (P * n) % P = 0 /\ P * n \in Nat
    OBVIOUS
<1>3. P * (q + 1) = P * q + P
    BY <1>1
<1>4. CASE k = 0
    BY <1>1, <1>2, <1>4
<1>5. CASE k # 0
    <2>1. P * (q + 1) \in Nat /\ (P * (q + 1)) % P = 0
        BY <1>1, <1>2
    <2>2. P * q \in Nat
        BY <1>1, <1>2
    <2>3. r <= P * q + P /\ P * q + P < r + P
        BY <1>1, <1>5, <2>2
    <2> QED BY <1>3, <2>1, <2>3
<1> QED BY <1>4, <1>5

\* The child that took a step has passed no poll; the others did not move.
LEMMA ChildStepPassesNoPoll ==
    ASSUME TypeOK, NEW i \in Stages, NoPollSince(child[i]), ChildStep(i)
    PROVE  \E c : child' = [child EXCEPT ![i] = c] /\ NoPollSince(c)
<1> DEFINE old == child[i]
<1>1. child \in [Stages -> ChildType] /\ old \in ChildType
    BY DEF TypeOK
<1>2. /\ old.iteration \in Nat \ {0} /\ old.padding \in Nat /\ old.releasedAt \in Nat
      /\ PollInterval \in Nat \ {0}
    BY <1>1, BoundsAssumption DEF ChildType
<1>3. CASE \E outcome, status, limits :
                child' = [child EXCEPT ![i] = Dead(old, outcome, status, limits)]
    BY <1>3 DEF Dead, NoPollSince
<1>4. ASSUME NEW phase,
             child' = [child EXCEPT ![i] = [old EXCEPT !.phase = phase]],
             \/ phase \notin {"start", "hooked", "construct"}
             \/ old.phase \in {"start", "hooked", "construct"}
      PROVE  \E c : child' = [child EXCEPT ![i] = c] /\ NoPollSince(c)
    <2> DEFINE c == [old EXCEPT !.phase = phase]
    <2>1. /\ c.phase = phase /\ c.guarded = old.guarded /\ c.padding = old.padding
          /\ c.releasedAt = old.releasedAt /\ c.iteration = old.iteration
        BY <1>1 DEF ChildType
    <2>2. NoPollSince(c)
        BY <1>4, <2>1 DEF NoPollSince
    <2> QED BY <1>4, <2>2
<1>5. CASE InstallHooks(i)
    <2>1. CASE MemoryLimit(i) # NoLimit /\ PaddingSize(i) > 0
        <3> DEFINE c == [Grown(i, PaddingSize(i)) EXCEPT
                            !.phase = "hooked", !.guarded = TRUE, !.padding = PaddingSize(i)]
        <3>1. child' = [child EXCEPT ![i] = c]
            BY <1>5, <2>1 DEF InstallHooks
        <3>2. c.padding = PaddingSize(i)
            BY <1>1 DEF Grown, ChildType
        <3>3. NoPollSince(c)
            BY <2>1, <3>2 DEF NoPollSince
        <3> QED BY <3>1, <3>3
    <2>2. CASE ~(MemoryLimit(i) # NoLimit /\ PaddingSize(i) > 0)
        <3>1. child' = [child EXCEPT ![i] = [old EXCEPT !.phase = "hooked"]]
            BY <1>5, <2>2 DEF InstallHooks
        <3> QED BY <1>4, <1>5, <3>1 DEF InstallHooks, In
    <2> QED BY <2>1, <2>2
<1>6. CASE Allocate(i)
    <2> DEFINE c == Grown(i, 1)
    <2>1. child' = [child EXCEPT ![i] = c]
        BY <1>6 DEF Allocate
    <2>2. /\ c.phase = old.phase /\ c.guarded = old.guarded /\ c.padding = old.padding
          /\ c.releasedAt = old.releasedAt /\ c.iteration = old.iteration
        BY <1>1 DEF ChildType, Grown
    <2>3. NoPollSince(c)
        BY <2>2 DEF NoPollSince
    <2> QED BY <2>1, <2>3
<1>7. CASE AllocationRecovers(i)
    <2> DEFINE c == [Released(old) EXCEPT !.resident = @ + 1]
    <2>1. child' = [child EXCEPT ![i] = c]
        BY <1>7 DEF AllocationRecovers
    <2>2. c.releasedAt = old.iteration /\ c.iteration = old.iteration
        BY <1>1 DEF ChildType, Released
    <2>3. NoPollSince(c)
        BY <1>2, <2>2 DEF NoPollSince
    <2> QED BY <2>1, <2>3
<1>8. CASE Refine(i)
    <2> DEFINE c == [old EXCEPT !.iteration = @ + 1]
    <2>1. child' = [child EXCEPT ![i] = c]
        BY <1>8 DEF Refine
    <2>2. /\ c.phase = "construct" /\ old.phase = "construct"
          /\ c.guarded = old.guarded /\ c.padding = old.padding
          /\ c.releasedAt = old.releasedAt /\ c.iteration = old.iteration + 1
        BY <1>1, <1>8 DEF ChildType, Refine, In
    <2>3. c.guarded /\ c.padding = 0 => old.iteration % PollInterval # 0
        BY <1>2, <1>8, <2>2 DEF Refine, PollIsDue, PollPasses
    <2>4. NoPollSince(c)
        <3> SUFFICES ASSUME c.guarded, c.padding = 0
                     PROVE  /\ c.releasedAt \in 1..c.iteration
                            /\ \A m \in Nat : c.releasedAt <= m /\ m < c.iteration =>
                                    m % PollInterval # 0
            BY DEF NoPollSince
        <3> HIDE DEF c
        <3>1. /\ old.releasedAt \in 1..old.iteration
              /\ \A m \in Nat : old.releasedAt <= m /\ m < old.iteration => m % PollInterval # 0
            BY <2>2 DEF NoPollSince
        <3>2. \A m \in Nat : m < old.iteration + 1 => m < old.iteration \/ m = old.iteration
            BY <1>2
        <3> QED BY <1>2, <2>2, <2>3, <3>1, <3>2
    <2> QED BY <2>1, <2>4
<1>9. CASE StopAtPoll(i)
    <2> DEFINE c == IF old.padding > 0 THEN [Released(old) EXCEPT !.phase = "search"]
                                       ELSE [old EXCEPT !.phase = "search"]
    <2>1. child' = [child EXCEPT ![i] = c]
        BY <1>9 DEF StopAtPoll
    <2>2. c.phase = "search"
        BY <1>1 DEF Released, ChildType
    <2>3. NoPollSince(c)
        BY <2>2 DEF NoPollSince
    <2> QED BY <2>1, <2>3
<1>10. CASE SearchSolves(i)
    <2> DEFINE c == [old EXCEPT !.outcome = "Solved", !.phase = "write"]
    <2>1. child' = [child EXCEPT ![i] = c]
        BY <1>10 DEF SearchSolves
    <2>2. c.phase = "write"
        BY <1>1 DEF ChildType
    <2>3. NoPollSince(c)
        BY <2>2 DEF NoPollSince
    <2> QED BY <2>1, <2>3
<1>11. CASE RegisterHandlers(i) \/ FinishConstruction(i) \/ TruncatePlan(i) \/ CompletePlan(i)
    <2>1. CASE RegisterHandlers(i)
        BY <1>4, <2>1 DEF RegisterHandlers, Advance, In
    <2>2. CASE FinishConstruction(i)
        BY <1>4, <2>2 DEF FinishConstruction, Advance
    <2>3. CASE TruncatePlan(i)
        BY <1>4, <2>3 DEF TruncatePlan, Advance
    <2>4. CASE CompletePlan(i)
        BY <1>4, <2>4 DEF CompletePlan, Advance
    <2> QED BY <1>11, <2>1, <2>2, <2>3, <2>4
<1>12. CASE \/ AllocationFails(i) \/ SearchIsExhausted(i) \/ SearchTimesOut(i)
            \/ SearchOutOfMemory(i) \/ ExitSolved(i) \/ ExitWithError(i)
            \/ CpuLimitReached(i) \/ Crash(i)
    <2>1. \E outcome, status, limits :
             child' = [child EXCEPT ![i] = Dead(old, outcome, status, limits)]
        BY <1>12 DEF AllocationFails, SearchIsExhausted, SearchTimesOut, SearchOutOfMemory,
                     ExitSolved, ExitWithError, CpuLimitReached, Crash, Dies, SearchEnds
    <2> QED BY <1>3, <2>1
<1> QED BY <1>5, <1>6, <1>7, <1>8, <1>9, <1>10, <1>11, <1>12 DEF ChildStep

\* The wrapper changes whether its child lives, or kills it.
LEMMA WrapperStepPassesNoPoll ==
    ASSUME TypeOK, NoPollIsPassed, WrapperStep
    PROVE  NoPollIsPassed'
<1>1. child \in [Stages -> ChildType] /\ \A i \in Stages : child[i] \in ChildType
    BY DEF TypeOK
<1>2. CASE UNCHANGED child
    BY <1>2 DEF NoPollIsPassed
<1>3. ASSUME NEW life, child' = [child EXCEPT ![stage].life = life]
      PROVE  NoPollIsPassed'
    <2> SUFFICES ASSUME NEW i \in Stages PROVE NoPollSince(child'[i])
        BY DEF NoPollIsPassed
    <2>1. /\ child'[i].phase = child[i].phase /\ child'[i].guarded = child[i].guarded
          /\ child'[i].padding = child[i].padding /\ child'[i].iteration = child[i].iteration
          /\ child'[i].releasedAt = child[i].releasedAt
        BY <1>1, <1>3 DEF ChildType
    <2>2. NoPollSince(child[i])
        BY DEF NoPollIsPassed
    <2> QED BY <2>1, <2>2 DEF NoPollSince
<1>4. ASSUME Dies(stage, -SigKill, {})
      PROVE  NoPollIsPassed'
    <2> SUFFICES ASSUME NEW i \in Stages PROVE NoPollSince(child'[i])
        BY DEF NoPollIsPassed
    <2>1. NoPollSince(child[i])
        BY DEF NoPollIsPassed
    <2>2. child'[i] = child[i] \/ ~ child'[i].guarded
        BY <1>1, <1>4 DEF Dies, Dead
    <2> QED BY <2>1, <2>2 DEF NoPollSince
<1>5. \/ UNCHANGED child
      \/ \E life : child' = [child EXCEPT ![stage].life = life]
      \/ Dies(stage, -SigKill, {})
    BY DEF WrapperStep, Spawn, SpawnFails, PortfolioFails, PollReaps, PollFindsAlive, MeasureFails,
           MeasureExited, Measure, RetryLater, GiveUp, Kill, Wait, ReapAndEnd, Reap
<1> QED BY <1>2, <1>3, <1>4, <1>5

LEMMA NextPassesNoPoll == TypeOK /\ NoPollIsPassed /\ [Next]_vars => NoPollIsPassed'
<1> SUFFICES ASSUME TypeOK, NoPollIsPassed, [Next]_vars
             PROVE  NoPollIsPassed'
    OBVIOUS
<1>1. CASE WrapperStep
    BY <1>1, WrapperStepPassesNoPoll
<1>2. ASSUME NEW i \in Stages, ChildStep(i)
      PROVE  NoPollIsPassed'
    <2>1. PICK c : child' = [child EXCEPT ![i] = c] /\ NoPollSince(c)
        BY <1>2, ChildStepPassesNoPoll DEF NoPollIsPassed
    <2>2. \A j \in Stages : child'[j] = child[j] \/ child'[j] = c
        BY <2>1 DEF TypeOK
    <2> QED BY <2>1, <2>2 DEF NoPollIsPassed
<1>3. CASE UNCHANGED vars
    BY <1>3 DEF vars, NoPollIsPassed
<1> QED BY <1>1, <1>2, <1>3 DEF Next, Done

\* Once its padding is gone, whoever released it, a construction stops at the next of the
\* polls every PollInterval refinements (poll_and_release_if_exceeded).
THEOREM ConstructionStopsAlways == Spec => []ConstructionStops
<1>1. Init => NoPollIsPassed
    BY DEF Init, NoPollIsPassed, NoPollSince, NoChild
<1>2. TypeOK /\ NoPollIsPassed => ConstructionStops
    <2> SUFFICES ASSUME TypeOK, NoPollIsPassed, NEW i \in Stages,
                        In(i, {"construct"}), child[i].guarded, child[i].padding = 0,
                        ~ child[i].iteration < child[i].releasedAt + PollInterval
                 PROVE  FALSE
        BY DEF ConstructionStops
    <2>1. /\ child[i].iteration \in Nat /\ child[i].releasedAt \in Nat
          /\ PollInterval \in Nat \ {0}
        BY BoundsAssumption DEF TypeOK, ChildType
    <2>2. \A m \in Nat : child[i].releasedAt <= m /\ m < child[i].iteration =>
                m % PollInterval # 0
        BY DEF NoPollIsPassed, NoPollSince, In
    <2>3. PICK m \in Nat : /\ child[i].releasedAt <= m /\ m < child[i].releasedAt + PollInterval
                           /\ m % PollInterval = 0
        BY <2>1, SomeMultiple
    <2> QED BY <2>1, <2>2, <2>3
<1> QED BY <1>1, <1>2, NextPassesNoPoll, ProcessTypesAreCorrect, PTL DEF Spec
=============================================================================
