------------------------------ MODULE MCOnline ------------------------------
(***************************************************************************)
(* Three states, one of them a dead end; two functions that are best in    *)
(* different states; a ray.  Each of two children learns and counts,       *)
(* learns without counting, is asked at every pop, or never learns.        *)
(***************************************************************************)
EXTENDS OnlinePortfolioProperties, TLC

CONSTANTS goal, near, lost

AllStates == {goal, near, lost}
ValueOf == [far |-> (goal :> 0 @@ near :> 3 @@ lost :> 4),
            close |-> (goal :> 0 @@ near :> 2 @@ lost :> 5)]
CertifiedBy == [lostRay |-> {lost}]
ReachesOf == (goal :> 1 @@ near :> 2 @@ lost :> 2)
Zero == [s \in AllStates |-> 0]

Learner(maxRays, maxFunctions, maxMisses, maxSolves, newStatesOnly, cached, invalidates) ==
    [base |-> Zero, rays |-> {}, certified |-> FALSE, maxRays |-> maxRays,
     maxFunctions |-> maxFunctions, interval |-> 1, maxConsecutive |-> 1,
     maxMisses |-> maxMisses, maxSolves |-> maxSolves, newStatesOnly |-> newStatesOnly,
     cached |-> cached, invalidates |-> invalidates]

Counts == Learner(1, 2, 0, 2, FALSE, TRUE, TRUE)
CountsNew == Learner(0, 2, 2, 0, TRUE, TRUE, TRUE)
Forgets == Learner(0, 1, 1, 1, FALSE, TRUE, FALSE)
AskedAtEveryPop == Learner(1, 2, 1, 2, FALSE, FALSE, TRUE)
Static == [Learner(1, 0, 0, 0, FALSE, TRUE, FALSE) EXCEPT !.base = ValueOf.close, !.rays = {"lostRay"}]

SomePortfolios == ({Counts, CountsNew} \X {Counts, Forgets, Static})
                  \union ({AskedAtEveryPop} \X {Forgets, Static})
=============================================================================
