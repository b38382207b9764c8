----------------------------- MODULE PathSearch -----------------------------
(***************************************************************************)
(* What a search over paths promises, whatever it keeps and in whatever    *)
(* order it works: it knows for some states the cost of one path to them,  *)
(* improves that knowledge one transition at a time, and ends with a goal  *)
(* it knows a path to, with a correct claim that there is no plan, or      *)
(* without an answer.                                                      *)
(***************************************************************************)
EXTENDS SearchTask

CONSTANTS Tasks, NoGoal

VARIABLES task, best, outcome

vars == <<task, best, outcome>>

Unreached == -1

Running == outcome.result = "None"

Answer(result, goal, cost) ==
    outcome' = [result |-> result, goal |-> goal, cost |-> cost]

Init ==
    /\ task \in Tasks
    /\ best = [s \in States |-> Unreached]
    /\ outcome = [result |-> "None", goal |-> NoGoal, cost |-> 0]

Start ==
    /\ Running
    /\ best = [s \in States |-> Unreached]
    /\ best' = [best EXCEPT ![task.init] = 0]
    /\ UNCHANGED <<task, outcome>>

\* A transition offers a cheaper path to the state it leads to.
Improve(s, o) ==
    /\ Running
    /\ best[s] # Unreached
    /\ o \in ApplicableSet(task, s)
    /\ LET t == task.result[s][o]
           g == best[s] + task.cost[s][o]
       IN  /\ best[t] = Unreached \/ g < best[t]
           /\ best' = [best EXCEPT ![t] = g]
    /\ UNCHANGED <<task, outcome>>

Solve(s) ==
    /\ Running
    /\ s \in task.goals
    /\ best[s] # Unreached
    /\ Answer("Solved", s, best[s])
    /\ UNCHANGED <<task, best>>

ClaimUnsolvable ==
    /\ Running
    /\ task.hStar[task.init] = DeadEnd
    /\ Answer("Unsolvable", NoGoal, 0)
    /\ UNCHANGED <<task, best>>

GiveUp ==
    /\ Running
    /\ \E reason \in {"Timeout", "OutOfMemory", "Failed"} : Answer(reason, NoGoal, 0)
    /\ UNCHANGED <<task, best>>

Next ==
    \/ Start
    \/ \E s \in States : (\E o \in Operators : Improve(s, o)) \/ Solve(s)
    \/ ClaimUnsolvable
    \/ GiveUp

Spec == Init /\ [][Next]_vars
=============================================================================
