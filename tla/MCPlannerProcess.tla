------------------------- MODULE MCPlannerProcess -------------------------
(***************************************************************************)
(* Small runs for TLC: four units of memory, of which one is headroom and  *)
(* one padding; a child may use one more than its limit.                   *)
(***************************************************************************)
EXTENDS PlannerProcess

Limited   == [memory |-> 4, timeLimited |-> TRUE]
MemoryOnly == [memory |-> 4, timeLimited |-> FALSE]
Unlimited == [memory |-> NoLimit, timeLimited |-> FALSE]

Single(limits, readsFail) == [stages |-> <<limits>>, readsFail |-> readsFail]

\* Portfolios, whose first stage is always limited, and single runs.
PortfolioRuns ==
    {[stages |-> <<Limited, MemoryOnly>>, readsFail |-> FALSE]}
SingleRuns == {Single(l, FALSE) : l \in {Limited, MemoryOnly, Unlimited}}
BlindRuns == {Single(Limited, TRUE)}

MCConfigs == PortfolioRuns \cup SingleRuns \cup BlindRuns
=============================================================================
