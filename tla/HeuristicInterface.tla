-------------------------- MODULE HeuristicInterface --------------------------
(***************************************************************************)
(* What a search may rely on in a heuristic that learns: its estimate of a *)
(* state only grows, and its revision grows with every change of any       *)
(* estimate, so that an estimate as old as the revision is the present     *)
(* one.                                                                    *)
(***************************************************************************)
EXTENDS Integers

CONSTANTS States, DeadEnd

VARIABLES estimate, revision

interfaceVars == <<estimate, revision>>

Init ==
    /\ estimate \in [States -> 0..DeadEnd]
    /\ revision = 0

\* Learning changes estimates of any states, upwards, and is counted.
Learn ==
    /\ estimate' \in [States -> 0..DeadEnd]
    /\ \A s \in States : estimate'[s] >= estimate[s]
    /\ revision' \in Nat
    /\ revision' > revision

Spec == Init /\ [][Learn]_interfaceVars
=============================================================================
