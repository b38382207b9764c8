-------------------------- MODULE TransitionTable --------------------------
(***************************************************************************)
(* The transitions of a Cartesian abstraction under refinement, as         *)
(* WorkingAbstraction stores them: numbered slots that are reused, an      *)
(* index of the slots by transition, for every state the slots of its      *)
(* outgoing and incoming transitions, and its self-loops as a set of       *)
(* operators.  When a state is split, its transitions are taken out one    *)
(* by one and forgotten by their neighbours afterwards; until then the     *)
(* neighbours' lists hold slots that are already free.                     *)
(*                                                                         *)
(* States and slots count from 1.  The lists of a state are sets here:     *)
(* their order only decides which of two equally good transitions a search *)
(* sees first.                                                             *)
(***************************************************************************)
EXTENDS Integers, Sequences, FiniteSets

CONSTANT Operators

VARIABLES
    slots,          \* the transition in each occupied slot
    slotCount,
    free,           \* free_transition_ids, a stack
    ids,            \* transition_ids_by_key
    outgoing,
    incoming,
    loops,          \* self_loop_operator_ids
    incident,       \* the slots still to be taken out
    removed,        \* the transitions taken out so far
    tableState      \* "stored", or "removing" while neighbours hold free slots

table == <<slots, slotCount, free, ids, outgoing, incoming, loops, incident, removed, tableState>>

Key(s, o, t) == [source |-> s, operator |-> o, target |-> t]
Keys == [source : Nat \ {0}, operator : Operators, target : Nat \ {0}]

Put(f, x, v)  == [y \in DOMAIN f \cup {x} |-> IF y = x THEN v ELSE f[y]]
Without(f, x) == [y \in DOMAIN f \ {x} |-> f[y]]
Empty == [x \in {} |-> x]

TableStates == DOMAIN outgoing
LiveKeys == DOMAIN ids
ContainsTransition(k) == IF k.source = k.target THEN k.operator \in loops[k.source] ELSE k \in LiveKeys

TableInit ==
    /\ slots = Empty /\ slotCount = 0 /\ free = <<>> /\ ids = Empty
    /\ outgoing = <<{}>> /\ incoming = <<{}>>
    /\ loops \in [{1} -> SUBSET Operators]
    /\ incident = {} /\ removed = {} /\ tableState = "stored"

\* A slot that was freed is used again before a new one is made.
NewSlot == IF free # <<>> THEN free[Len(free)] ELSE slotCount + 1

Store(k) ==
    /\ slots' = Put(slots, NewSlot, k)
    /\ slotCount' = IF free # <<>> THEN slotCount ELSE slotCount + 1
    /\ free' = IF free # <<>> THEN SubSeq(free, 1, Len(free) - 1) ELSE free
    /\ ids' = Put(ids, k, NewSlot)
    /\ outgoing' = [outgoing EXCEPT ![k.source] = @ \cup {NewSlot}]
    /\ incoming' = [incoming EXCEPT ![k.target] = @ \cup {NewSlot}]

AddTransition(k) ==
    /\ tableState = "stored"
    /\ UNCHANGED <<incident, removed, tableState>>
    /\ \/ /\ k.source = k.target
          /\ loops' = [loops EXCEPT ![k.source] = @ \cup {k.operator}]
          /\ UNCHANGED <<slots, slotCount, free, ids, outgoing, incoming>>
       \/ /\ k.source # k.target
          /\ k \in LiveKeys
          /\ UNCHANGED <<slots, slotCount, free, ids, outgoing, incoming, loops>>
       \/ /\ k.source # k.target
          /\ k \notin LiveKeys
          /\ Store(k)
          /\ UNCHANGED loops

IncidentSlots(s) == outgoing[s] \cup incoming[s]

\* The first half of apply_split: the new state has no transitions yet, both
\* children keep the self-loops the split cannot change, and all transitions of
\* the split state are to be removed.
SplitState(s, kept) ==
    /\ tableState = "stored"
    /\ loops' = Append([loops EXCEPT ![s] = kept], kept)
    /\ outgoing' = Append(outgoing, {})
    /\ incoming' = Append(incoming, {})
    /\ incident' = IncidentSlots(s)
    /\ removed' = {}
    /\ tableState' = "removing"
    /\ UNCHANGED <<slots, slotCount, free, ids>>

\* remove_transition, for the incident slots in ascending order.
RemoveTransition ==
    \E i \in incident :
        /\ \A j \in incident : i <= j
        /\ slots' = Without(slots, i)
        /\ ids' = Without(ids, slots[i])
        /\ free' = Append(free, i)
        /\ removed' = removed \cup {slots[i]}
        /\ incident' = incident \ {i}
        /\ UNCHANGED <<slotCount, outgoing, incoming, loops, tableState>>

\* The neighbours that lost a transition keep the slots that are still in use.
Occupied(S) == S \cap DOMAIN slots
Sources(K) == {k.source : k \in K}

\* Mutant: the outgoing side is cleaned twice.
TargetsAsSources(K) == {k.source : k \in K}

Targets(K) == {k.target : k \in K}

ForgetRemoved ==
    /\ tableState = "removing"
    /\ incident = {}
    /\ outgoing' = [s \in TableStates |->
                       IF s \in Sources(removed) THEN Occupied(outgoing[s]) ELSE outgoing[s]]
    /\ incoming' = [s \in TableStates |->
                       IF s \in Targets(removed) THEN Occupied(incoming[s]) ELSE incoming[s]]
    /\ tableState' = "stored"
    /\ UNCHANGED <<slots, slotCount, free, ids, loops, incident, removed>>

TableNext ==
    \/ \E s, t \in TableStates, o \in Operators : AddTransition(Key(s, o, t))
    \/ \E s \in TableStates : \E kept \in SUBSET loops[s] : SplitState(s, kept)
    \/ RemoveTransition
    \/ ForgetRemoved

TableSpec == TableInit /\ [][TableNext]_table

-----------------------------------------------------------------------------
TableTypeOK ==
    /\ slotCount \in Nat
    /\ DOMAIN slots \subseteq 1..slotCount
    /\ slots \in [DOMAIN slots -> Keys]
    /\ free \in Seq(Nat)
    /\ ids \in [DOMAIN ids -> Nat] /\ DOMAIN ids \subseteq Keys
    /\ outgoing \in Seq(SUBSET Nat) /\ incoming \in Seq(SUBSET Nat)
    /\ loops \in Seq(SUBSET Operators)
    /\ Len(outgoing) = Len(loops) /\ Len(incoming) = Len(loops)
    /\ incident \subseteq DOMAIN slots
    /\ removed \subseteq Keys
    /\ tableState \in {"stored", "removing"}

\* The index and the slots are inverse to each other, and no stored transition is
\* a self-loop.
IndexMatchesSlots ==
    /\ \A i \in DOMAIN slots : slots[i] \in LiveKeys /\ ids[slots[i]] = i
    /\ \A k \in LiveKeys : ids[k] \in DOMAIN slots /\ slots[ids[k]] = k
    /\ \A k \in LiveKeys : k.source # k.target

\* Every slot is either occupied or on the stack of free slots, where it is once.
FreeSlotsAreFree ==
    /\ {free[n] : n \in DOMAIN free} = (1..slotCount) \ DOMAIN slots
    /\ \A m, n \in DOMAIN free : free[m] = free[n] => m = n

\* Between two calls a state's lists hold exactly the slots of its transitions;
\* while transitions are removed they may hold free slots too, but only lists that
\* are cleaned up next.
ListsMatchSlots ==
    /\ \A s \in TableStates :
           /\ Occupied(outgoing[s]) = {i \in DOMAIN slots : slots[i].source = s}
           /\ Occupied(incoming[s]) = {i \in DOMAIN slots : slots[i].target = s}
           /\ outgoing[s] \subseteq DOMAIN slots \/ (tableState = "removing" /\ s \in Sources(removed))
           /\ incoming[s] \subseteq DOMAIN slots \/ (tableState = "removing" /\ s \in Targets(removed))
    /\ \A i \in DOMAIN slots : slots[i].source \in TableStates /\ slots[i].target \in TableStates

\* WorkingAbstraction: a slot number in a list, the index or the stack of free
\* slots never stands for another transition than the one it was stored for,
\* however often slots are reused.
TableIsConsistent == IndexMatchesSlots /\ FreeSlotsAreFree /\ ListsMatchSlots
=============================================================================
