------------------------------ MODULE OpenList ------------------------------
(***************************************************************************)
(* The built-in open lists of best-first search.  A list is a set of       *)
(* entries whose insertion orders differ, so the entry a heap returns next *)
(* is determined by its key alone.                                         *)
(***************************************************************************)
EXTENDS SearchTask

OpenEntry ==
    [state         : States,
     g             : Nat,
     h             : Nat,
     preferred     : BOOLEAN,
     lazyEvaluated : BOOLEAN,
     order         : Nat]

\* NodeOrdering::priority and the tie breaker that completes the key.
Priority(ordering, g, h) == IF ordering = "AStar" THEN g + h ELSE h
TieBreaker(ordering, h)  == IF ordering = "AStar" THEN h ELSE 0

EntryPriority(ordering, e) == Priority(ordering, e.g, e.h)

\* Keyed::cmp: smaller priorities first, then smaller h, then first in.
KeyBefore(ordering, e, f) ==
    \/ EntryPriority(ordering, e) < EntryPriority(ordering, f)
    \/ /\ EntryPriority(ordering, e) = EntryPriority(ordering, f)
       /\ \/ TieBreaker(ordering, e.h) < TieBreaker(ordering, f.h)
          \/ /\ TieBreaker(ordering, e.h) = TieBreaker(ordering, f.h)
             /\ e.order < f.order

UsesPreferredOperators(kind) == kind = "PreferredFirst"

\* Whether list kind returns e before f: PreferredFirstOpenList drains the heap
\* of preferred nodes first, TieBreakingOpenList has one heap.
PoppedBefore(kind, ordering, e, f) ==
    IF kind = "PreferredFirst" /\ e.preferred # f.preferred
    THEN e.preferred
    ELSE KeyBefore(ordering, e, f)

\* The entry of the set that a list pops first.
IsFirst(kind, ordering, e, entries) ==
    \A f \in entries \ {e} : PoppedBefore(kind, ordering, e, f)
=============================================================================
