-------------------- MODULE CartesianAbstraction_proofs --------------------
(***************************************************************************)
(* What every split of a Cartesian abstraction keeps: its transition table *)
(* is consistent, the hierarchy maps each concrete state to the one        *)
(* abstract state that contains it, and the transitions are those the      *)
(* operators may take, so that the abstraction simulates the task.         *)
(*                                                                         *)
(* And the goal distances of the abstraction stay exact while it is        *)
(* refined: repairing them for the states whose shortest path led through  *)
(* the state that was split gives what a new computation would give, and   *)
(* the repair is a run of the abstract search of GoalDistances.  From that *)
(* follows what the refinement concludes: an abstract dead end is a dead   *)
(* end of the task, and no plan is cheaper than a plan it returns.         *)
(***************************************************************************)
EXTENDS CartesianProperties, SequenceTheorems, FiniteSetTheorems, WellFoundedInduction, TLAPS

-----------------------------------------------------------------------------
(***************************************************************************)
(* The transition table stays consistent, however transitions are added    *)
(* and states split: a slot number in a list, the index or the stack of    *)
(* free slots never stands for a transition it was not stored for.         *)
(*                                                                         *)
(* TableIsConsistent is inductive with the types and one more fact: there  *)
(* are slots to be taken out only while a state is being split.            *)
(***************************************************************************)

RemovalIsOpen == tableState = "stored" => incident = {}

TableInvariant == TableTypeOK /\ TableIsConsistent /\ RemovalIsOpen

-----------------------------------------------------------------------------
(* Functions that grow, and the stack of free slots *)

LEMMA PutDomain ==
    ASSUME NEW f, NEW x, NEW v
    PROVE  /\ DOMAIN Put(f, x, v) = DOMAIN f \cup {x}
           /\ Put(f, x, v)[x] = v
           /\ \A y \in DOMAIN f : y # x => Put(f, x, v)[y] = f[y]
BY DEF Put

LEMMA WithoutDomain ==
    ASSUME NEW f, NEW x
    PROVE  /\ DOMAIN Without(f, x) = DOMAIN f \ {x}
           /\ \A y \in DOMAIN f : y # x => Without(f, x)[y] = f[y]
BY DEF Without

LEMMA InitInvariant == TableInit => TableInvariant
<1>. SUFFICES ASSUME TableInit PROVE TableInvariant
     OBVIOUS
<1>. USE DEF TableInit
<1>1. DOMAIN slots = {} /\ DOMAIN ids = {}
      BY DEF Empty
<1>2. TableTypeOK
  <2>1. slots \in [DOMAIN slots -> Keys] /\ ids \in [DOMAIN ids -> Nat]
        BY <1>1 DEF Empty
  <2>2. loops \in Seq(SUBSET Operators) /\ Len(loops) = 1
    <3>. DEFINE first == loops[1]
    <3>1. loops = <<first>> /\ first \in SUBSET Operators
          OBVIOUS
    <3>. HIDE DEF first
    <3>. QED BY <3>1
  <2>3. outgoing \in Seq(SUBSET Nat) /\ Len(outgoing) = 1 /\ incoming \in Seq(SUBSET Nat) /\ Len(incoming) = 1
        OBVIOUS
  <2>. QED BY <1>1, <2>1, <2>2, <2>3 DEF TableTypeOK
<1>3. IndexMatchesSlots
      BY <1>1 DEF IndexMatchesSlots, LiveKeys
<1>4. FreeSlotsAreFree
      BY <1>1 DEF FreeSlotsAreFree
<1>5. ListsMatchSlots
      BY <1>1 DEF ListsMatchSlots, TableStates, Occupied
<1>. QED BY <1>2, <1>3, <1>4, <1>5 DEF TableInvariant, TableIsConsistent, RemovalIsOpen


LEMMA StutterKeeps == TableInvariant /\ UNCHANGED table => TableInvariant'
<1>. SUFFICES ASSUME TableInvariant, UNCHANGED table PROVE TableInvariant'
     OBVIOUS
<1>. USE DEF table, TableInvariant, TableIsConsistent
<1>1. TableTypeOK'
      BY DEF TableTypeOK
<1>2. IndexMatchesSlots' /\ FreeSlotsAreFree' /\ RemovalIsOpen'
      BY DEF IndexMatchesSlots, FreeSlotsAreFree, RemovalIsOpen, LiveKeys
<1>3. ListsMatchSlots'
      BY DEF ListsMatchSlots, TableStates, Occupied, Sources, Targets
<1>. QED BY <1>1, <1>2, <1>3

-----------------------------------------------------------------------------
(* AddTransition *)

\* A slot that is taken for a new transition holds none, and no list has it.
LEMMA NewSlotIsFree ==
    ASSUME TableInvariant, tableState = "stored"
    PROVE  /\ NewSlot \in Nat \ DOMAIN slots
           /\ NewSlot >= 1
           /\ free # <<>> => NewSlot <= slotCount
           /\ \A s \in TableStates : NewSlot \notin outgoing[s] /\ NewSlot \notin incoming[s]
<1>. USE DEF TableInvariant, TableIsConsistent
<1>1. slotCount \in Nat /\ free \in Seq(Nat) /\ DOMAIN slots \subseteq 1..slotCount
      BY DEF TableTypeOK
<1>2. NewSlot \in Nat \ DOMAIN slots /\ NewSlot >= 1 /\ (free # <<>> => NewSlot <= slotCount)
  <2>1. CASE free = <<>>
        BY <1>1, <2>1 DEF NewSlot
  <2>2. CASE free # <<>>
    <3>1. Len(free) \in DOMAIN free /\ NewSlot = free[Len(free)]
          BY <1>1, <2>2 DEF NewSlot
    <3>2. NewSlot \in (1..slotCount) \ DOMAIN slots
          BY <3>1 DEF FreeSlotsAreFree
    <3>. QED BY <1>1, <3>2
  <2>. QED BY <2>1, <2>2
<1>3. \A s \in TableStates : outgoing[s] \subseteq DOMAIN slots /\ incoming[s] \subseteq DOMAIN slots
      BY DEF ListsMatchSlots
<1>. QED BY <1>2, <1>3

LEMMA StoreKeeps ==
    ASSUME TableInvariant, NEW s \in TableStates, NEW t \in TableStates, NEW o \in Operators,
           AddTransition(Key(s, o, t)), s # t, Key(s, o, t) \notin LiveKeys
    PROVE  TableInvariant'
<1>. DEFINE k == Key(s, o, t)
            n == NewSlot
<1>. USE DEF TableInvariant, TableIsConsistent
<1>1. /\ tableState = "stored" /\ tableState' = "stored"
      /\ UNCHANGED <<incident, removed, loops>>
      /\ Store(k)
      BY DEF AddTransition, Key
<1>2. k.source = s /\ k.target = t /\ k.operator = o
      BY DEF Key
<1>3. k \in Keys /\ DOMAIN outgoing = 1..Len(outgoing) /\ DOMAIN incoming = DOMAIN outgoing
      BY DEF Key, Keys, TableTypeOK, TableStates
<1>4. /\ n \in Nat \ DOMAIN slots /\ n >= 1 /\ (free # <<>> => n <= slotCount)
      /\ \A x \in TableStates : n \notin outgoing[x] /\ n \notin incoming[x]
      BY <1>1, NewSlotIsFree
<1>. HIDE DEF k, n
<1>5. /\ slots' = Put(slots, n, k)
      /\ ids' = Put(ids, k, n)
      /\ outgoing' = [outgoing EXCEPT ![s] = @ \cup {n}]
      /\ incoming' = [incoming EXCEPT ![t] = @ \cup {n}]
      BY <1>1, <1>2 DEF Store, n
<1>6. /\ DOMAIN slots' = DOMAIN slots \cup {n} /\ slots'[n] = k
      /\ \A y \in DOMAIN slots : slots'[y] = slots[y]
      BY <1>4, <1>5 DEF Put
<1>7. /\ DOMAIN ids' = DOMAIN ids \cup {k} /\ ids'[k] = n
      /\ \A y \in DOMAIN ids : ids'[y] = ids[y]
  <2>1. k \notin DOMAIN ids
        BY DEF k, LiveKeys
  <2>. QED BY <1>5, <2>1 DEF Put
<1>8. /\ slotCount' \in Nat /\ slotCount' >= slotCount /\ n <= slotCount'
      /\ free' \in Seq(Nat)
      BY <1>1, <1>4 DEF Store, n, NewSlot, TableTypeOK
<1>9. TableTypeOK'
  <2>1. DOMAIN slots' \subseteq 1..slotCount'
        BY <1>4, <1>6, <1>8 DEF TableTypeOK
  <2>2. slots' \in [DOMAIN slots' -> Keys]
        BY <1>3, <1>5, <1>6 DEF TableTypeOK, Put
  <2>3. ids' \in [DOMAIN ids' -> Nat] /\ DOMAIN ids' \subseteq Keys
        BY <1>3, <1>4, <1>5, <1>7 DEF TableTypeOK, Put
  <2>4. outgoing' \in Seq(SUBSET Nat) /\ Len(outgoing') = Len(outgoing)
        BY <1>3, <1>4, <1>5 DEF TableTypeOK, TableStates
  <2>5. incoming' \in Seq(SUBSET Nat) /\ Len(incoming') = Len(incoming)
        BY <1>3, <1>4, <1>5 DEF TableTypeOK, TableStates
  <2>6. incident' \subseteq DOMAIN slots'
        BY <1>1, <1>6 DEF TableTypeOK
  <2>. QED BY <1>1, <1>8, <2>1, <2>2, <2>3, <2>4, <2>5, <2>6 DEF TableTypeOK
<1>10. IndexMatchesSlots'
      BY <1>2, <1>4, <1>6, <1>7 DEF IndexMatchesSlots, LiveKeys
<1>11. FreeSlotsAreFree'
  <2>1. CASE free = <<>>
    <3>1. n = slotCount + 1 /\ slotCount' = slotCount + 1 /\ free' = <<>>
          BY <1>1, <2>1 DEF Store, n, NewSlot
    <3>2. 1..slotCount \subseteq DOMAIN slots
          BY <2>1 DEF FreeSlotsAreFree
    <3>3. (1..slotCount') \ DOMAIN slots' = {}
          BY <1>6, <3>1, <3>2 DEF TableTypeOK
    <3>. QED BY <3>1, <3>3 DEF FreeSlotsAreFree
  <2>2. CASE free # <<>>
    <3>. DEFINE m == Len(free)
    <3>1. m \in Nat /\ m >= 1 /\ DOMAIN free = 1..m /\ n = free[m]
          BY <2>2 DEF n, NewSlot, TableTypeOK
    <3>2. /\ slotCount' = slotCount /\ DOMAIN free' = 1..m - 1
          /\ \A i \in 1..m - 1 : free'[i] = free[i]
          BY <1>1, <2>2, <3>1 DEF Store, TableTypeOK
    <3>. HIDE DEF m
    <3>3. \A i \in 1..m - 1 : free[i] # n
          BY <3>1 DEF FreeSlotsAreFree
    <3>4. {free'[i] : i \in DOMAIN free'} = {free[i] : i \in DOMAIN free} \ {n}
          BY <3>1, <3>2, <3>3
    <3>. QED BY <1>6, <3>1, <3>2, <3>4 DEF FreeSlotsAreFree
  <2>. QED BY <2>1, <2>2
<1>12. ListsMatchSlots'
  <2>1. DOMAIN outgoing' = DOMAIN outgoing
        BY <1>5
  <2>2. ASSUME NEW x \in TableStates
        PROVE  /\ outgoing'[x] = IF x = s THEN outgoing[x] \cup {n} ELSE outgoing[x]
               /\ incoming'[x] = IF x = t THEN incoming[x] \cup {n} ELSE incoming[x]
        BY <1>3, <1>5 DEF TableStates
  <2>3. ASSUME NEW x \in TableStates
        PROVE  /\ Occupied(outgoing[x]) = {i \in DOMAIN slots : slots[i].source = x}
               /\ Occupied(incoming[x]) = {i \in DOMAIN slots : slots[i].target = x}
               /\ outgoing[x] \subseteq DOMAIN slots /\ incoming[x] \subseteq DOMAIN slots
        BY <1>1 DEF ListsMatchSlots
  <2>4. ASSUME NEW x \in TableStates
        PROVE  /\ outgoing'[x] \cap DOMAIN slots' = {i \in DOMAIN slots' : slots'[i].source = x}
               /\ incoming'[x] \cap DOMAIN slots' = {i \in DOMAIN slots' : slots'[i].target = x}
               /\ outgoing'[x] \subseteq DOMAIN slots' /\ incoming'[x] \subseteq DOMAIN slots'
    <3>1. outgoing[x] = {i \in DOMAIN slots : slots[i].source = x}
          BY <2>3 DEF Occupied
    <3>2. incoming[x] = {i \in DOMAIN slots : slots[i].target = x}
          BY <2>3 DEF Occupied
    <3>3. outgoing'[x] = {i \in DOMAIN slots' : slots'[i].source = x}
      <4>1. {i \in DOMAIN slots' : slots'[i].source = x} =
                {i \in DOMAIN slots : slots[i].source = x} \cup (IF x = s THEN {n} ELSE {})
            BY <1>2, <1>4, <1>6
      <4>. QED BY <2>2, <3>1, <4>1
    <3>4. incoming'[x] = {i \in DOMAIN slots' : slots'[i].target = x}
      <4>1. {i \in DOMAIN slots' : slots'[i].target = x} =
                {i \in DOMAIN slots : slots[i].target = x} \cup (IF x = t THEN {n} ELSE {})
            BY <1>2, <1>4, <1>6
      <4>. QED BY <2>2, <3>2, <4>1
    <3>. QED BY <3>3, <3>4
  <2>5. \A i \in DOMAIN slots' : slots'[i].source \in TableStates' /\ slots'[i].target \in TableStates'
        BY <1>2, <1>6, <2>1 DEF ListsMatchSlots, TableStates
  <2>. QED BY <2>1, <2>4, <2>5 DEF ListsMatchSlots, TableStates, Occupied
<1>. QED BY <1>1, <1>9, <1>10, <1>11, <1>12 DEF RemovalIsOpen

LEMMA AddKeeps ==
    ASSUME TableInvariant, NEW s \in TableStates, NEW t \in TableStates, NEW o \in Operators,
           AddTransition(Key(s, o, t))
    PROVE  TableInvariant'
<1>. USE DEF TableInvariant, TableIsConsistent
<1>1. CASE s = t
  <2>1. /\ UNCHANGED <<slots, slotCount, free, ids, outgoing, incoming, incident, removed, tableState>>
        /\ loops' = [loops EXCEPT ![s] = @ \cup {o}]
        BY <1>1 DEF AddTransition, Key
  <2>2. loops' \in Seq(SUBSET Operators) /\ Len(loops') = Len(loops)
        BY <2>1 DEF TableTypeOK, TableStates
  <2>3. TableTypeOK'
        BY <2>1, <2>2 DEF TableTypeOK
  <2>. QED BY <2>1, <2>3 DEF IndexMatchesSlots, FreeSlotsAreFree, ListsMatchSlots, RemovalIsOpen,
                              LiveKeys, TableStates, Occupied
<1>2. CASE s # t /\ Key(s, o, t) \in LiveKeys
  <2>1. UNCHANGED table
        BY <1>2 DEF AddTransition, Key, table
  <2>. QED BY <2>1, StutterKeeps
<1>3. CASE s # t /\ Key(s, o, t) \notin LiveKeys
      BY <1>3, StoreKeeps
<1>. QED BY <1>1, <1>2, <1>3

-----------------------------------------------------------------------------
(* Splitting a state *)

LEMMA SplitKeeps ==
    ASSUME TableInvariant, NEW s \in TableStates, NEW kept \in SUBSET loops[s], SplitState(s, kept)
    PROVE  TableInvariant'
<1>. USE DEF TableInvariant, TableIsConsistent
<1>. DEFINE n == Len(outgoing)
<1>1. /\ UNCHANGED <<slots, slotCount, free, ids>>
      /\ outgoing' = Append(outgoing, {}) /\ incoming' = Append(incoming, {})
      /\ tableState = "stored" /\ tableState' = "removing"
      /\ incident' = outgoing[s] \cup incoming[s] /\ removed' = {}
      BY DEF SplitState, IncidentSlots
<1>2. n \in Nat /\ TableStates = 1..n /\ DOMAIN incoming = 1..n
      BY DEF TableTypeOK, TableStates
<1>3. /\ TableStates' = 1..n + 1
      /\ outgoing'[n + 1] = {} /\ incoming'[n + 1] = {}
      /\ \A x \in 1..n : outgoing'[x] = outgoing[x] /\ incoming'[x] = incoming[x]
      BY <1>1, <1>2 DEF TableTypeOK, TableStates
<1>. HIDE DEF n
<1>4. \A x \in 1..n : /\ outgoing[x] = {i \in DOMAIN slots : slots[i].source = x}
                      /\ incoming[x] = {i \in DOMAIN slots : slots[i].target = x}
      BY <1>1, <1>2 DEF ListsMatchSlots, Occupied
<1>5. \A i \in DOMAIN slots : slots[i].source \in 1..n /\ slots[i].target \in 1..n
      BY <1>2 DEF ListsMatchSlots
<1>6. TableTypeOK'
  <2>1. kept \subseteq Operators /\ [loops EXCEPT ![s] = kept] \in Seq(SUBSET Operators)
        BY DEF TableTypeOK, TableStates
  <2>2. loops' = Append([loops EXCEPT ![s] = kept], kept)
        BY DEF SplitState
  <2>3. loops' \in Seq(SUBSET Operators) /\ Len(loops') = Len(loops) + 1
        BY <2>1, <2>2 DEF TableTypeOK
  <2>4. /\ outgoing' \in Seq(SUBSET Nat) /\ Len(outgoing') = Len(outgoing) + 1
        /\ incoming' \in Seq(SUBSET Nat) /\ Len(incoming') = Len(incoming) + 1
        BY <1>1 DEF TableTypeOK
  <2>5. incident' \subseteq DOMAIN slots'
        BY <1>1, <1>2, <1>4
  <2>. QED BY <1>1, <2>3, <2>4, <2>5 DEF TableTypeOK
<1>7. IndexMatchesSlots' /\ FreeSlotsAreFree'
      BY <1>1 DEF IndexMatchesSlots, FreeSlotsAreFree, LiveKeys
<1>8. ListsMatchSlots'
  <2>1. \A x \in 1..n + 1 : /\ outgoing'[x] = {i \in DOMAIN slots : slots[i].source = x}
                            /\ incoming'[x] = {i \in DOMAIN slots : slots[i].target = x}
        BY <1>2, <1>3, <1>4, <1>5
  <2>2. \A x \in TableStates' :
            /\ outgoing'[x] \cap DOMAIN slots' = {i \in DOMAIN slots' : slots'[i].source = x}
            /\ incoming'[x] \cap DOMAIN slots' = {i \in DOMAIN slots' : slots'[i].target = x}
            /\ outgoing'[x] \subseteq DOMAIN slots' /\ incoming'[x] \subseteq DOMAIN slots'
    <3>1. ASSUME NEW x \in TableStates'
          PROVE  /\ outgoing'[x] = {i \in DOMAIN slots : slots[i].source = x}
                 /\ incoming'[x] = {i \in DOMAIN slots : slots[i].target = x}
          BY <1>3, <2>1
    <3>2. slots' = slots
          BY <1>1
    <3>. QED BY <3>1, <3>2
  <2>3. \A i \in DOMAIN slots' : slots'[i].source \in TableStates' /\ slots'[i].target \in TableStates'
        BY <1>1, <1>2, <1>3, <1>5
  <2>. QED BY <2>2, <2>3 DEF ListsMatchSlots, Occupied
<1>. QED BY <1>1, <1>6, <1>7, <1>8 DEF RemovalIsOpen

LEMMA RemoveKeeps ==
    ASSUME TableInvariant, RemoveTransition
    PROVE  TableInvariant'
<1>. USE DEF TableInvariant, TableIsConsistent
<1>. PICK i \in incident :
        /\ slots' = Without(slots, i)
        /\ ids' = Without(ids, slots[i])
        /\ free' = Append(free, i)
        /\ removed' = removed \cup {slots[i]}
        /\ incident' = incident \ {i}
        /\ UNCHANGED <<slotCount, outgoing, incoming, loops, tableState>>
     BY DEF RemoveTransition
<1>. DEFINE k == slots[i]
<1>1. i \in DOMAIN slots /\ i \in 1..slotCount /\ i \in Nat /\ k \in Keys
      BY DEF TableTypeOK
<1>2. tableState = "removing" /\ tableState' = "removing"
      BY DEF RemovalIsOpen, TableTypeOK
<1>3. k \in DOMAIN ids /\ ids[k] = i
      BY <1>1 DEF IndexMatchesSlots, LiveKeys
<1>4. /\ DOMAIN slots' = DOMAIN slots \ {i} /\ \A y \in DOMAIN slots' : slots'[y] = slots[y]
      /\ DOMAIN ids' = DOMAIN ids \ {k} /\ \A y \in DOMAIN ids' : ids'[y] = ids[y]
      BY DEF Without
<1>. HIDE DEF k
<1>5. TableTypeOK'
  <2>1. slots' \in [DOMAIN slots' -> Keys] /\ ids' \in [DOMAIN ids' -> Nat]
        BY <1>4 DEF TableTypeOK, Without
  <2>2. removed' \subseteq Keys
        BY <1>1 DEF TableTypeOK, k
  <2>3. free' \in Seq(Nat)
        BY <1>1 DEF TableTypeOK
  <2>. QED BY <1>4, <2>1, <2>2, <2>3 DEF TableTypeOK
<1>6. IndexMatchesSlots'
      BY <1>1, <1>3, <1>4 DEF IndexMatchesSlots, LiveKeys, k
<1>7. FreeSlotsAreFree'
  <2>. DEFINE m == Len(free)
  <2>1. m \in Nat /\ DOMAIN free = 1..m /\ DOMAIN free' = 1..m + 1 /\ free'[m + 1] = i
        BY <1>1 DEF TableTypeOK
  <2>2. \A j \in 1..m : free'[j] = free[j]
        BY <1>1 DEF TableTypeOK
  <2>. HIDE DEF m
  <2>3. \A j \in 1..m : free[j] # i
        BY <1>1, <2>1 DEF FreeSlotsAreFree
  <2>4. {free'[j] : j \in DOMAIN free'} = {free[j] : j \in DOMAIN free} \cup {i}
        BY <2>1, <2>2
  <2>5. \A a, b \in DOMAIN free' : free'[a] = free'[b] => a = b
        BY <2>1, <2>2, <2>3 DEF FreeSlotsAreFree
  <2>. QED BY <1>1, <1>4, <2>4, <2>5 DEF FreeSlotsAreFree
<1>8. ListsMatchSlots'
  <2>1. ASSUME NEW s \in TableStates
        PROVE  /\ outgoing[s] \cap DOMAIN slots' = {j \in DOMAIN slots' : slots'[j].source = s}
               /\ incoming[s] \cap DOMAIN slots' = {j \in DOMAIN slots' : slots'[j].target = s}
    <3>1. outgoing[s] \cap DOMAIN slots = {j \in DOMAIN slots : slots[j].source = s}
          BY DEF ListsMatchSlots, Occupied
    <3>2. incoming[s] \cap DOMAIN slots = {j \in DOMAIN slots : slots[j].target = s}
          BY DEF ListsMatchSlots, Occupied
    <3>. QED BY <1>4, <3>1, <3>2
  <2>2. ASSUME NEW s \in TableStates
        PROVE  outgoing[s] \subseteq DOMAIN slots' \/ s \in Sources(removed')
    <3>1. i \in outgoing[s] => k.source = s
          BY <1>1 DEF ListsMatchSlots, Occupied, k
    <3>2. k \in removed' /\ removed \subseteq removed'
          BY DEF k
    <3>3. outgoing[s] \subseteq DOMAIN slots \/ s \in Sources(removed)
          BY <1>2 DEF ListsMatchSlots
    <3>. QED BY <1>4, <3>1, <3>2, <3>3 DEF Sources
  <2>3. ASSUME NEW s \in TableStates
        PROVE  incoming[s] \subseteq DOMAIN slots' \/ s \in Targets(removed')
    <3>1. i \in incoming[s] => k.target = s
          BY <1>1 DEF ListsMatchSlots, Occupied, k
    <3>2. k \in removed' /\ removed \subseteq removed'
          BY DEF k
    <3>3. incoming[s] \subseteq DOMAIN slots \/ s \in Targets(removed)
          BY <1>2 DEF ListsMatchSlots
    <3>. QED BY <1>4, <3>1, <3>2, <3>3 DEF Targets
  <2>4. TableStates' = TableStates
        BY DEF TableStates
  <2>5. \A j \in DOMAIN slots' : slots'[j].source \in TableStates /\ slots'[j].target \in TableStates
        BY <1>4 DEF ListsMatchSlots
  <2>. QED BY <1>2, <2>1, <2>2, <2>3, <2>4, <2>5 DEF ListsMatchSlots, Occupied, Sources, Targets
<1>. QED BY <1>2, <1>5, <1>6, <1>7, <1>8 DEF RemovalIsOpen

LEMMA ForgetKeeps ==
    ASSUME TableInvariant, ForgetRemoved
    PROVE  TableInvariant'
<1>. USE DEF TableInvariant, TableIsConsistent
<1>1. /\ UNCHANGED <<slots, slotCount, free, ids, loops, incident, removed>>
      /\ incident = {} /\ tableState = "removing" /\ tableState' = "stored"
      BY DEF ForgetRemoved
<1>2. DOMAIN outgoing' = TableStates /\ DOMAIN incoming' = TableStates /\ TableStates' = TableStates
      BY DEF ForgetRemoved, TableStates
<1>3. ASSUME NEW s \in TableStates
      PROVE  /\ outgoing'[s] = {i \in DOMAIN slots : slots[i].source = s}
             /\ incoming'[s] = {i \in DOMAIN slots : slots[i].target = s}
  <2>1. outgoing'[s] = Occupied(outgoing[s])
        BY DEF ForgetRemoved, ListsMatchSlots, Occupied
  <2>2. incoming'[s] = Occupied(incoming[s])
        BY DEF ForgetRemoved, ListsMatchSlots, Occupied
  <2>. QED BY <2>1, <2>2 DEF ListsMatchSlots
<1>4. TableTypeOK'
  <2>1. TableStates = 1..Len(outgoing) /\ Len(outgoing) \in Nat
        BY DEF TableTypeOK, TableStates
  <2>2. DOMAIN slots \subseteq Nat
        BY DEF TableTypeOK
  <2>3. outgoing' \in [1..Len(outgoing) -> SUBSET Nat] /\ incoming' \in [1..Len(outgoing) -> SUBSET Nat]
        BY <2>1, <2>2, <1>3 DEF ForgetRemoved
  <2>4. /\ outgoing' \in Seq(SUBSET Nat) /\ Len(outgoing') = Len(outgoing)
        /\ incoming' \in Seq(SUBSET Nat) /\ Len(incoming') = Len(outgoing)
        BY <2>1, <2>3
  <2>. QED BY <1>1, <2>4 DEF TableTypeOK
<1>5. IndexMatchesSlots' /\ FreeSlotsAreFree'
      BY <1>1 DEF IndexMatchesSlots, FreeSlotsAreFree, LiveKeys
<1>6. ListsMatchSlots'
      BY <1>1, <1>2, <1>3 DEF ListsMatchSlots, Occupied
<1>. QED BY <1>1, <1>4, <1>5, <1>6 DEF RemovalIsOpen

-----------------------------------------------------------------------------
LEMMA TableStepKeeps == TableInvariant /\ [TableNext]_table => TableInvariant'
<1>. SUFFICES ASSUME TableInvariant, [TableNext]_table PROVE TableInvariant'
     OBVIOUS
<1>1. CASE \E s, t \in TableStates, o \in Operators : AddTransition(Key(s, o, t))
      BY <1>1, AddKeeps
<1>2. CASE \E s \in TableStates : \E kept \in SUBSET loops[s] : SplitState(s, kept)
      BY <1>2, SplitKeeps
<1>3. CASE RemoveTransition
      BY <1>3, RemoveKeeps
<1>4. CASE ForgetRemoved
      BY <1>4, ForgetKeeps
<1>5. CASE UNCHANGED table
      BY <1>5, StutterKeeps
<1>. QED BY <1>1, <1>2, <1>3, <1>4, <1>5 DEF TableNext

\* WorkingAbstraction: however transitions are added and states split, the parts of
\* the table keep their types.
THEOREM TableTypesAreCorrect == TableSpec => []TableTypeOK
<1>1. TableInit => TableInvariant
      BY InitInvariant
<1>2. TableInvariant /\ [TableNext]_table => TableInvariant'
      BY TableStepKeeps
<1>3. TableInvariant => TableTypeOK
      BY DEF TableInvariant
<1>. QED BY <1>1, <1>2, <1>3, PTL DEF TableSpec

\* WorkingAbstraction: a slot number in a list, the index or the stack of free slots
\* never stands for another transition than the one it was stored for, however often
\* slots are reused.
THEOREM TableStaysConsistent == TableSpec => []TableIsConsistent
<1>1. TableInit => TableInvariant
      BY InitInvariant
<1>2. TableInvariant /\ [TableNext]_table => TableInvariant'
      BY TableStepKeeps
<1>3. TableInvariant => TableIsConsistent
      BY DEF TableInvariant
<1>. QED BY <1>1, <1>2, <1>3, PTL DEF TableSpec

-----------------------------------------------------------------------------
(***************************************************************************)
(* The steps of CEGAR.  Three of them change regions, hierarchy or table:  *)
(* ApplySplit, Detach and Attach.  The others leave all three alone.       *)
(***************************************************************************)

abstraction == <<setup, table, stateVars>>

\* A step that changes neither the abstraction nor, while a split is applied, pc.
KeepsAbstraction ==
    /\ UNCHANGED abstraction
    /\ \/ UNCHANGED vars
       \/ /\ pc # "detach" /\ pc' \notin {"detach", "attach"}
          /\ pc = "attach" => pending = {}

LEMMA StopKeeps ==
    ASSUME NEW reason, NEW cost, Stop(reason, cost), pc \notin {"detach", "attach"}
    PROVE  KeepsAbstraction
    BY DEF Stop, KeepsAbstraction, abstraction, stateVars

LEMMA OfferKeeps ==
    ASSUME NEW C, Offer(C), pc \notin {"detach", "attach"}
    PROVE  KeepsAbstraction
    BY DEF Offer, KeepsAbstraction, abstraction, stateVars

LEMMA InitialKeeps ==
    ASSUME InitialSplit \/ InitialSplitDone
    PROVE  KeepsAbstraction
<1>1. CASE InitialSplit
  <2>1. pc = "initial" /\ pc' \in {"initial", "compute", "apply"}
        BY <1>1 DEF InitialSplit
  <2>. QED BY <1>1, <2>1 DEF InitialSplit, KeepsAbstraction, abstraction, stateVars
<1>2. CASE InitialSplitDone
      BY <1>2 DEF InitialSplitDone, KeepsAbstraction, abstraction, stateVars
<1>. QED BY <1>1, <1>2

LEMMA DistancesKeep ==
    ASSUME BeginDistances \/ BeginRepair \/ Invalidate \/ Seed \/ Expand \/ FinishDistances,
           UNCHANGED <<setup, cegarVars>>
    PROVE  KeepsAbstraction
<1>1. /\ UNCHANGED abstraction
      /\ pc \in {"compute", "attach", "invalidate", "seed", "expand"}
      /\ pc' \in {"expand", "invalidate", "seed", "check"}
      /\ pc = "attach" => pending = {}
  <2>1. CASE BeginDistances
        BY <2>1 DEF BeginDistances, abstraction, stateVars
  <2>2. CASE BeginRepair
        BY <2>2 DEF BeginRepair, abstraction, stateVars
  <2>3. CASE Invalidate
        BY <2>3 DEF Invalidate, abstraction, stateVars
  <2>4. CASE Seed
        BY <2>4 DEF Seed, abstraction, stateVars
  <2>5. CASE Expand
        BY <2>5 DEF Expand, abstraction, stateVars
  <2>6. CASE FinishDistances
        BY <2>6 DEF FinishDistances, abstraction, stateVars
  <2>. QED BY <2>1, <2>2, <2>3, <2>4, <2>5, <2>6
<1>. QED BY <1>1 DEF KeepsAbstraction

LEMMA SearchKeeps ==
    ASSUME StartIteration \/ ReplayPlan \/ ReplayWholePlan \/ Walk \/ Regress \/ Select
    PROVE  KeepsAbstraction
<1>1. CASE StartIteration
  <2>1. pc = "check"
        BY <1>1 DEF StartIteration
  <2>2. CASE pc' \in {"walk", "replay"} /\ UNCHANGED abstraction
        BY <2>1, <2>2 DEF KeepsAbstraction
  <2>3. CASE \E reason, cost : Stop(reason, cost)
        BY <2>1, <2>3, StopKeeps
  <2>. QED BY <1>1, <2>2, <2>3 DEF StartIteration, abstraction, stateVars
<1>2. CASE ReplayPlan
  <2>1. pc = "replay"
        BY <1>2 DEF ReplayPlan
  <2>2. ASSUME NEW C, Execute(C) PROVE KeepsAbstraction
        BY <2>1, <2>2 DEF Execute, KeepsAbstraction, abstraction, stateVars
  <2>. QED BY <1>2, <2>1, <2>2, OfferKeeps, StopKeeps DEF ReplayPlan, OfferFacts, Conclude
<1>3. CASE ReplayWholePlan
  <2>1. pc = "replay"
        BY <1>3 DEF ReplayWholePlan
  <2>2. ASSUME NEW C, Execute(C) PROVE KeepsAbstraction
        BY <2>1, <2>2 DEF Execute, KeepsAbstraction, abstraction, stateVars
  <2>. QED BY <1>3, <2>1, <2>2, OfferKeeps, StopKeeps DEF ReplayWholePlan, OfferFacts, Conclude
<1>4. CASE Walk
      BY <1>4 DEF Walk, Trace, KeepsAbstraction, abstraction, stateVars
<1>5. CASE Regress
  <2>1. pc = "regress"
        BY <1>5 DEF Regress
  <2>2. ASSUME NEW t, Trace(t), pc' = "regress" PROVE KeepsAbstraction
        BY <2>1, <2>2 DEF Trace, KeepsAbstraction, abstraction, stateVars
  <2>. QED BY <1>5, <2>1, <2>2, OfferKeeps, StopKeeps DEF Regress, Conclude
<1>6. CASE Select
  <2>1. pc = "select"
        BY <1>6 DEF Select
  <2>2. CASE \E reason : Stop(reason, 0)
        BY <2>1, <2>2, StopKeeps
  <2>3. CASE pc' = "apply" /\ UNCHANGED abstraction
        BY <2>1, <2>3 DEF KeepsAbstraction
  <2>. QED BY <1>6, <2>2, <2>3 DEF Select, abstraction, stateVars
<1>. QED BY <1>1, <1>2, <1>3, <1>4, <1>5, <1>6

LEMMA StepCases ==
    ASSUME [Next]_vars
    PROVE  \/ KeepsAbstraction
           \/ /\ ApplySplit \/ Detach \/ Attach
              /\ UNCHANGED <<setup, cegarVars>>
<1>1. CASE UNCHANGED vars \/ Done
      BY <1>1 DEF Done, vars, KeepsAbstraction, abstraction, stateVars
<1>2. CASE Refine
      BY <1>2, DistancesKeep DEF Refine
<1>. QED BY <1>1, <1>2, InitialKeeps, SearchKeeps DEF Next

-----------------------------------------------------------------------------
(***************************************************************************)
(* The splits.  Whatever they come from, the initial splits of the task or *)
(* a flaw of an abstract plan, they are splits of an abstract state along  *)
(* a dimension.                                                            *)
(***************************************************************************)

RegionType == [Dimensions -> SUBSET Int]
IsSplit(sp) == sp.state \in AbstractStates /\ sp.dimension \in Dimensions
IsStep(k) == k.source \in AbstractStates /\ k.target \in AbstractStates /\ k.operator \in Names

\* Where concrete states are mapped to.
MapsToStates == \A s : MapState(s) \in AbstractStates

\* Live transitions join abstract states.
LiveKeysAreSteps == \A k \in LiveKeys : IsStep(k)

LEMMA TaskFacts ==
    ASSUME task \in Tasks
    PROVE  /\ \A f \in task.goals : IsFact(f)
           /\ \A o \in Names : \A f \in Pre(o) : IsFact(f)
           /\ Names \subseteq Operators
           /\ Values \in RegionType
    BY TaskAssumption, AbstractionAssumption DEF Names, Pre, RegionType

LEMMA RetainedSplits ==
    ASSUME NEW C
    PROVE  /\ RetainRefinable(C) \subseteq C
           /\ RetainMinGrowth(C) \subseteq C
           /\ SelectedSplits(C) \subseteq C
           /\ \A K \in SUBSET C : RetainIfAny(C, K) \subseteq C
<1>1. RetainRefinable(C) \subseteq C /\ \A K \in SUBSET C : RetainIfAny(C, K) \subseteq C
      BY DEF RetainRefinable, RetainIfAny
<1>2. RetainMinGrowth(C) \subseteq C
      BY <1>1 DEF RetainMinGrowth
<1>. QED BY <1>1, <1>2 DEF SelectedSplits

LEMMA FactSplitsAreSplits ==
    ASSUME NEW s \in AbstractStates, NEW f, IsFact(f), NEW state,
           NEW sp \in FactSplits(s, f, state)
    PROVE  IsSplit(sp)
<1>1. \A d \in Dimensions : \A first, w : IsSplit(Split(s, d, first, w))
      BY DEF IsSplit, Split
<1>2. \A d \in f.dims : d \in Dimensions
      BY DEF IsFact
<1>3. \A x \in ValueSplits(s, f, state) : IsSplit(x)
      BY <1>1, <1>2 DEF ValueSplits
<1>4. \A x \in ComparisonCandidates(s, f, state) : IsSplit(x)
      BY <1>1, <1>2 DEF ComparisonCandidates
<1>5. ComparisonSplits(s, f, state) \subseteq ComparisonCandidates(s, f, state)
  <2>. DEFINE C == ComparisonCandidates(s, f, state)
              decides(x)   == ~ Admits(WitnessChild(x), f)
              separates(x) == decides(x) /\ Guarantees(OtherChild(x), f)
              R == IF options.selection = "min_growth" THEN RetainMinGrowth(C) ELSE C
              W == IF options.kind = "wanted" THEN RetainIfAny(R, {x \in R : separates(x)}) ELSE R
              D == RetainIfAny(W, {x \in W : decides(x)})
  <2>. HIDE DEF C, decides, separates
  <2>1. R \subseteq C
        BY RetainedSplits
  <2>. HIDE DEF R
  <2>2. W \subseteq C
        BY <2>1, RetainedSplits
  <2>. HIDE DEF W
  <2>3. D \subseteq C
        BY <2>2 DEF RetainIfAny
  <2>. HIDE DEF D
  <2>4. (IF options.selection = "min_growth" THEN D ELSE RetainRefinable(D)) \subseteq C
        BY <2>3, RetainedSplits
  <2>. QED BY <2>4 DEF ComparisonSplits, C, decides, separates, R, W, D
<1>. QED BY <1>3, <1>4, <1>5 DEF FactSplits

LEMMA DeviationsAreSplits ==
    ASSUME NEW k, IsStep(k), NEW state, NEW sp \in DeviationSplits(k, state)
    PROVE  IsSplit(sp)
<1>. DEFINE o == k.operator
            target == regions[k.target]
            leaves == {d \in Dimensions : Successor(state, o)[d] \notin target[d]}
            preimage(d) == {v \in Values[d] : Image(o, d, v) \in target[d]}
            divided == {e \in leaves \cap Numeric : preimage(e) # {} /\ state[e] \notin preimage(e)}
            propositional == {Split(k.source, d, target[d], state[d]) : d \in leaves \ Numeric}
            numeric == {Split(k.source, d, NumericFirst(d, state[d], preimage(d)), state[d]) : d \in divided}
<1>1. \A d \in Dimensions : \A first, w : IsSplit(Split(k.source, d, first, w))
      BY DEF IsSplit, Split, IsStep
<1>2. leaves \subseteq Dimensions /\ divided \subseteq Dimensions
      OBVIOUS
<1>3. sp \in propositional \cup numeric
      BY DEF DeviationSplits
<1>. HIDE DEF leaves, divided
<1>. QED BY <1>1, <1>2, <1>3

LEMMA AwayIsSplit ==
    ASSUME NEW s \in AbstractStates, NEW d \in Dimensions
    PROVE  /\ \A first, wanted : IsSplit(Away(s, d, first, wanted))
           /\ \A wanted : IsSplit(SeparateValue(s, d, wanted))
           /\ \A wanted, reached : IsSplit(Separate(s, d, wanted, reached))
           /\ \A value, wanted : IsSplit(SplitNextTo(s, d, value, wanted))
<1>1. \A first, w : IsSplit(Split(s, d, first, w))
      BY DEF IsSplit, Split
<1>2. \A first, wanted : IsSplit(Away(s, d, first, wanted))
      BY <1>1 DEF Away
<1>. QED BY <1>2 DEF SeparateValue, Separate, SplitNextTo

LEMMA RegressionFlawsAreSplits ==
    ASSUME NEW k, IsStep(k), NEW p, NEW sp \in RegressionFlaws(k, p)
    PROVE  IsSplit(sp)
<1>1. \A d \in Dimensions :
        /\ \A wanted : IsSplit(SeparateValue(k.target, d, wanted)) /\ IsSplit(SeparateValue(k.source, d, wanted))
        /\ \A wanted, reached : IsSplit(Separate(k.target, d, wanted, reached)) /\ IsSplit(Separate(k.source, d, wanted, reached))
      BY AwayIsSplit DEF IsStep
<1>2. Numeric \subseteq Dimensions
      BY TaskAssumption
<1>3. \A q : Constrained(q) \subseteq Dimensions
      BY DEF Constrained
<1>. DEFINE o == k.operator
            source == regions[k.source]
            required == Required(Pre(o), Values)
            image(d) == {Image(o, d, v) : v \in source[d]}
            back(d) == Preimage(o, d, p[d])
            kept == (Constrained(p) \ Written(o)) \ Numeric
            D1 == {e \in (Constrained(p) \cap Written(o)) \ Numeric : image(e) \cap p[e] = {}}
            D2 == {e \in kept : source[e] \cap p[e] = {}}
            D3 == {e \in kept : source[e] \cap p[e] # {} /\ required[e] \cap p[e] = {}}
            D4 == {e \in Numeric : back(e) \cap source[e] = {}}
            D5 == {e \in Numeric : /\ back(e) \cap source[e] # {}
                                   /\ back(e) \cap required[e] \cap source[e] = {}}
<1>4. /\ D1 \subseteq Dimensions /\ D2 \subseteq Dimensions /\ D3 \subseteq Dimensions
      /\ D4 \subseteq Dimensions /\ D5 \subseteq Dimensions
      BY <1>2, <1>3
<1>5. \/ sp \in {SeparateValue(k.target, d, p[d]) : d \in D1}
      \/ sp \in {SeparateValue(k.target, d, p[d]) : d \in D2}
      \/ sp \in {SeparateValue(k.source, d, p[d]) : d \in D3}
      \/ sp \in {Separate(k.target, d, p[d], image(d)) : d \in D4}
      \/ sp \in {Separate(k.source, d, back(d), required[d] \cap source[d]) : d \in D5}
      BY DEF RegressionFlaws
<1>. HIDE DEF D1, D2, D3, D4, D5
<1>. QED BY <1>1, <1>4, <1>5

LEMMA InitialFlawsAreSplits ==
    ASSUME NEW s \in AbstractStates, NEW state, NEW p, NEW sp \in InitialFlaws(s, state, p)
    PROVE  IsSplit(sp)
<1>. DEFINE D == {e \in Dimensions : state[e] \notin p[e]}
<1>1. PICK d \in D : sp = IF d \notin Numeric THEN SeparateValue(s, d, p[d])
                        ELSE IF options.kind = "wanted" THEN Separate(s, d, p[d], {state[d]})
                        ELSE SplitNextTo(s, d, state[d], p[d])
      BY DEF InitialFlaws
<1>. QED BY <1>1, AwayIsSplit

\* The splits of a refinement, and where they are taken from.
SplitsInvariant ==
    /\ task \in Tasks /\ options \in Options
    /\ Len(regions) \in Nat \ {0}
    /\ pc \in {"apply", "detach", "attach"} => IsSplit(split)
    /\ initialSplits \in Seq(SplitRecords)
    /\ scan[1] \in Nat \ {0} /\ scan[2] \in 0..Len(regions)
    /\ \A sp \in candidates : IsSplit(sp)
    /\ trace.plan \in Seq(Keys) /\ trace.step \in 0..Len(trace.plan)
    /\ \A i \in 1..Len(trace.plan) : IsStep(trace.plan[i])

LEMMA InitSplits == Init => SplitsInvariant
<1>. SUFFICES ASSUME Init PROVE SplitsInvariant
     OBVIOUS
<1>1. task \in Tasks /\ options \in Options /\ Len(regions) = 1 /\ pc = "initial" /\ scan = <<1, 1>>
      /\ candidates = {} /\ trace.plan = <<>> /\ trace.step = 0
      BY DEF Init, NoTrace
<1>2. initialSplits \in Seq(SplitRecords)
      BY SplitsAssumption DEF Init
<1>3. Len(<<>>) = 0 /\ <<>> \in Seq(Keys)
      BY EmptySeq
<1>. QED BY <1>1, <1>2, <1>3 DEF SplitsInvariant

\* What holds of an abstraction while it is not changed.
LEMMA SplitsStayWell ==
    ASSUME UNCHANGED abstraction
    PROVE  /\ AbstractStates' = AbstractStates /\ Names' = Names /\ LiveKeys' = LiveKeys
           /\ \A sp : IsSplit(sp)' = IsSplit(sp)
           /\ \A k : IsStep(k)' = IsStep(k)
           /\ \A o : Pre(o)' = Pre(o)
           /\ \A s : MapState(s)' = MapState(s)
<1>1. UNCHANGED <<task, root, options, regions, hierarchy, ids>>
      BY DEF abstraction, setup, stateVars, table
<1>2. AbstractStates' = AbstractStates /\ Names' = Names /\ LiveKeys' = LiveKeys
      BY <1>1 DEF AbstractStates, Names, LiveKeys
<1>3. \A s : MapState(s)' = MapState(s)
      BY <1>1 DEF MapState, HierarchyNodes
<1>. QED BY <1>1, <1>2, <1>3 DEF IsSplit, IsStep, Pre

\* A step that leaves the splits alone.
LEMMA SplitsUnchanged ==
    ASSUME SplitsInvariant, UNCHANGED abstraction,
           UNCHANGED <<split, initialSplits, scan, candidates, trace>>,
           pc' \in {"apply", "detach", "attach"} => pc \in {"apply", "detach", "attach"}
    PROVE  SplitsInvariant'
    BY SplitsStayWell DEF SplitsInvariant, abstraction, setup, stateVars

LEMMA InitialSplitSplits ==
    ASSUME SplitsInvariant, InitialSplit
    PROVE  SplitsInvariant'
<1>. DEFINE sp == [Head(initialSplits) EXCEPT !.state = scan[1]]
<1>1. KeepsAbstraction /\ UNCHANGED abstraction
      BY InitialKeeps DEF KeepsAbstraction, InitialSplit, abstraction, stateVars
<1>2. UNCHANGED <<task, options, regions, candidates, trace>> /\ pc = "initial"
      BY DEF InitialSplit, setup, stateVars
<1>3. initialSplits \in Seq(SplitRecords) /\ scan[1] \in Nat \ {0} /\ scan[2] \in 0..Len(regions)
      /\ Len(regions) \in Nat \ {0}
      BY DEF SplitsInvariant
<1>4. CASE UNCHANGED <<split, initialSplits, scan>> /\ pc' = "compute"
      BY <1>1, <1>2, <1>4, SplitsUnchanged
<1>5. CASE NextInitialSplit /\ UNCHANGED <<pc, split>> /\ initialSplits # <<>>
  <2>1. initialSplits' \in Seq(SplitRecords) /\ scan' = <<1, Len(regions)>>
        BY <1>3, <1>5, HeadTailProperties DEF NextInitialSplit
  <2>. QED BY <1>1, <1>2, <1>3, <1>5, <2>1, SplitsStayWell DEF SplitsInvariant
<1>6. CASE /\ initialSplits # <<>> /\ scan[1] <= scan[2] /\ scan' = <<scan[1] + 1, scan[2]>>
           /\ UNCHANGED initialSplits
           /\ \/ split' = sp /\ pc' = "apply"
              \/ UNCHANGED <<split, pc>>
  <2>1. scan'[1] \in Nat \ {0} /\ scan'[2] \in 0..Len(regions)
        BY <1>3, <1>6
  <2>2. Head(initialSplits) \in SplitRecords
        BY <1>3, <1>6, HeadTailProperties
  <2>3. sp.state = scan[1] /\ sp.dimension \in Dimensions
        BY <2>2 DEF SplitRecords
  <2>4. IsSplit(sp)
        BY <1>3, <1>6, <2>3 DEF IsSplit, AbstractStates
  <2>. HIDE DEF sp
  <2>5. pc' \in {"apply", "detach", "attach"} => IsSplit(split')
        BY <1>2, <1>6, <2>4
  <2>6. pc' \in {"apply", "detach", "attach"} => IsSplit(split)'
        BY <1>1, <1>2, <2>5 DEF IsSplit, AbstractStates
  <2>. QED BY <1>1, <1>2, <1>3, <1>6, <2>1, <2>6, SplitsStayWell DEF SplitsInvariant
<1>7. \/ UNCHANGED <<split, initialSplits, scan>> /\ pc' = "compute"
      \/ NextInitialSplit /\ UNCHANGED <<pc, split>> /\ initialSplits # <<>>
      \/ /\ initialSplits # <<>> /\ scan[1] <= scan[2] /\ scan' = <<scan[1] + 1, scan[2]>>
         /\ UNCHANGED initialSplits
         /\ \/ split' = sp /\ pc' = "apply"
            \/ UNCHANGED <<split, pc>>
  <2>. HIDE DEF sp
  <2>. QED BY DEF InitialSplit, sp
<1>. QED BY <1>4, <1>5, <1>6, <1>7

\* An optimal transition that is stored is a step between abstract states.
LEMMA OptimalIsStep ==
    ASSUME TableTypeOK, LiveKeysAreSteps, NEW a, HasOptimalTransition(a)
    PROVE  IsStep(OptimalTransition(a)) /\ OptimalTransition(a) \in Keys
    BY DEF HasOptimalTransition, OptimalTransition, LiveKeysAreSteps, LiveKeys, TableTypeOK

\* What a replay finds wrong, it offers splits for.
LEMMA ReplayOffersSplits ==
    ASSUME SplitsInvariant, TableTypeOK, LiveKeysAreSteps, MapsToStates,
           Here \in paths.goals \/ StepExists
    PROVE  /\ \A choice \in FactChoices(Failed) : \A sp \in Chosen(choice) : IsSplit(sp)
           /\ Here \notin paths.goals => \A sp \in Deviations : IsSplit(sp)
<1>1. Here \in AbstractStates
      BY DEF Here, MapsToStates
<1>2. Here \notin paths.goals => IsStep(Step)
      BY OptimalIsStep DEF StepExists, Step
<1>3. \A f \in Failed : IsFact(f)
      BY <1>2, TaskFacts DEF Failed, Unsatisfied, IsStep, SplitsInvariant
<1>4. ASSUME NEW choice \in FactChoices(Failed), NEW sp \in Chosen(choice)
      PROVE  IsSplit(sp)
  <2>1. PICK f \in Failed : sp \in FactSplits(Here, f, replay.state)
        BY <1>4 DEF FactChoices, Chosen
  <2>. QED BY <1>1, <1>3, <2>1, FactSplitsAreSplits
<1>5. Here \notin paths.goals => \A sp \in Deviations : IsSplit(sp)
      BY <1>2, DeviationsAreSplits DEF Deviations
<1>. QED BY <1>4, <1>5

LEMMA OfferSplits ==
    ASSUME SplitsInvariant, NEW C, Offer(C), \A sp \in C : IsSplit(sp)
    PROVE  SplitsInvariant'
<1>1. /\ UNCHANGED abstraction /\ UNCHANGED <<split, initialSplits, scan, trace>>
      /\ candidates' = candidates \cup C /\ pc' = "select"
      BY DEF Offer, abstraction, stateVars
<1>. QED BY <1>1, SplitsStayWell DEF SplitsInvariant, abstraction, setup, stateVars

LEMMA ExecuteSplits ==
    ASSUME SplitsInvariant, NEW C, Execute(C), \A sp \in C : IsSplit(sp)
    PROVE  SplitsInvariant'
<1>1. /\ UNCHANGED abstraction /\ UNCHANGED <<pc, split, initialSplits, scan, trace>>
      /\ candidates' = candidates \cup C
      BY DEF Execute, abstraction, stateVars
<1>. QED BY <1>1, SplitsStayWell DEF SplitsInvariant, abstraction, setup, stateVars

LEMMA StopSplits ==
    ASSUME SplitsInvariant, NEW reason, NEW cost, Stop(reason, cost)
    PROVE  SplitsInvariant'
<1>1. UNCHANGED abstraction /\ UNCHANGED <<split, initialSplits, scan, candidates, trace>> /\ pc' = "done"
      BY DEF Stop, abstraction, stateVars
<1>. QED BY <1>1, SplitsUnchanged

LEMMA TraceSplits ==
    ASSUME SplitsInvariant, NEW t, Trace(t), pc' \in {"walk", "regress"},
           t.plan \in Seq(Keys), t.step \in 0..Len(t.plan), \A i \in 1..Len(t.plan) : IsStep(t.plan[i])
    PROVE  SplitsInvariant'
<1>1. /\ UNCHANGED abstraction /\ UNCHANGED <<split, initialSplits, scan, candidates>>
      /\ trace' = t
      BY DEF Trace, abstraction, stateVars
<1>. QED BY <1>1, SplitsStayWell DEF SplitsInvariant, abstraction, setup, stateVars

LEMMA ReplaySplits ==
    ASSUME SplitsInvariant, TableTypeOK, LiveKeysAreSteps, MapsToStates, ReplayPlan \/ ReplayWholePlan
    PROVE  SplitsInvariant'
<1>1. CASE ReplayPlan
  <2>1. /\ \A choice \in FactChoices(Failed) : \A sp \in Chosen(choice) : IsSplit(sp)
        /\ Here \notin paths.goals => \A sp \in Deviations : IsSplit(sp)
        BY <1>1, ReplayOffersSplits DEF ReplayPlan, ReplayIsSound
  <2>2. \A sp \in {} : IsSplit(sp)
        OBVIOUS
  <2>. QED BY <1>1, <2>1, <2>2, OfferSplits, ExecuteSplits, StopSplits DEF ReplayPlan, OfferFacts, Conclude
<1>2. CASE ReplayWholePlan
  <2>1. CASE WholeReplayEnds
    <3>1. Offer({})
          BY <1>2, <2>1 DEF ReplayWholePlan
    <3>. QED BY <3>1, OfferSplits
  <2>2. CASE ~ WholeReplayEnds
    <3>1. /\ \A choice \in FactChoices(Failed) : \A sp \in Chosen(choice) : IsSplit(sp)
          /\ Here \notin paths.goals => \A sp \in Deviations : IsSplit(sp)
          BY <1>2, <2>2, ReplayOffersSplits DEF ReplayWholePlan, WholeReplayIsSound
    <3>2. \A sp \in {} : IsSplit(sp)
          OBVIOUS
    <3>3. \A choice \in FactChoices(Failed) :
              Here \notin paths.goals => \A sp \in Chosen(choice) \cup Deviations : IsSplit(sp)
          BY <3>1
    <3>. QED BY <1>2, <2>2, <3>1, <3>2, <3>3, OfferSplits, ExecuteSplits, StopSplits
             DEF ReplayWholePlan, OfferFacts, Conclude
  <2>. QED BY <2>1, <2>2
<1>. QED BY <1>1, <1>2

LEMMA RegressionSplits ==
    ASSUME SplitsInvariant, TableTypeOK, LiveKeysAreSteps, MapsToStates, Walk \/ Regress
    PROVE  SplitsInvariant'
<1>0. /\ trace.plan \in Seq(Keys) /\ trace.step \in 0..Len(trace.plan) /\ Len(trace.plan) \in Nat
      /\ \A i \in 1..Len(trace.plan) : IsStep(trace.plan[i])
      BY LenProperties DEF SplitsInvariant
<1>1. CASE Walk
  <2>1. CASE pc' = "regress" /\ Trace([trace EXCEPT !.step = Len(trace.plan), !.partial = Goal])
    <3>. DEFINE t == [trace EXCEPT !.step = Len(trace.plan), !.partial = Goal]
    <3>1. t.plan = trace.plan /\ t.step = Len(trace.plan)
          BY DEF SplitsInvariant
    <3>2. Trace(t)
          BY <2>1
    <3>. HIDE DEF t
    <3>. QED BY <1>0, <2>1, <3>1, <3>2, TraceSplits
  <2>2. CASE pc' = "walk" /\ PlanGoesOn /\ Trace([trace EXCEPT !.plan = Append(@, OptimalTransition(PlanEnd))])
    <3>. DEFINE k == OptimalTransition(PlanEnd)
                t == [trace EXCEPT !.plan = Append(trace.plan, k)]
    <3>1. IsStep(k) /\ k \in Keys
          BY <2>2, OptimalIsStep DEF PlanGoesOn
    <3>. HIDE DEF k
    <3>2. t.plan = Append(trace.plan, k) /\ t.step = trace.step
          BY DEF SplitsInvariant
    <3>. HIDE DEF t
    <3>3. /\ t.plan \in Seq(Keys) /\ Len(t.plan) = Len(trace.plan) + 1
          /\ \A i \in 1..Len(trace.plan) : t.plan[i] = trace.plan[i]
          /\ t.plan[Len(trace.plan) + 1] = k
          BY <1>0, <3>1, <3>2, AppendProperties
    <3>4. t.step \in 0..Len(t.plan) /\ \A i \in 1..Len(t.plan) : IsStep(t.plan[i])
          BY <1>0, <3>1, <3>2, <3>3
    <3>5. Trace(t)
          BY <2>2 DEF t, k
    <3>. QED BY <2>2, <3>3, <3>4, <3>5, TraceSplits
  <2>. QED BY <1>1, <2>1, <2>2 DEF Walk
<1>2. CASE Regress
  <2>1. \A sp \in Flaws : IsSplit(sp)
    <3>1. CASE trace.step > 0
      <4>1. IsStep(Current)
            BY <1>0, <3>1 DEF Current
      <4>. QED BY <3>1, <4>1, RegressionFlawsAreSplits DEF Flaws
    <3>2. CASE ~ (trace.step > 0)
          BY <3>2, InitialFlawsAreSplits DEF Flaws, Root, MapsToStates
    <3>. QED BY <3>1, <3>2
  <2>2. ASSUME NEW sp \in Flaws, Offer({sp}) PROVE SplitsInvariant'
        BY <2>1, <2>2, OfferSplits
  <2>3. CASE /\ trace.step > 0 /\ pc' = "regress"
             /\ Trace([trace EXCEPT !.step = @ - 1, !.partial = Regressed(Current, trace.partial)])
    <3>. DEFINE t == [trace EXCEPT !.step = trace.step - 1, !.partial = Regressed(Current, trace.partial)]
    <3>1. t.plan = trace.plan /\ t.step = trace.step - 1
          BY DEF SplitsInvariant
    <3>2. Trace(t)
          BY <2>3
    <3>. HIDE DEF t
    <3>. QED BY <1>0, <2>3, <3>1, <3>2, TraceSplits
  <2>. QED BY <1>2, <2>2, <2>3, StopSplits DEF Regress, Conclude
<1>. QED BY <1>1, <1>2

LEMMA SelectSplits ==
    ASSUME SplitsInvariant, Select
    PROVE  SplitsInvariant'
<1>1. PICK sp \in SelectedSplits(candidates) :
        \/ Stop(RefinementLimit(sp), 0)
        \/ /\ split' = sp /\ candidates' = {} /\ trace' = NoTrace /\ pc' = "apply"
           /\ UNCHANGED <<setup, table, stateVars, initialSplits, scan>>
      BY DEF Select, stateVars
<1>2. IsSplit(sp)
      BY <1>1, RetainedSplits DEF SplitsInvariant
<1>3. CASE Stop(RefinementLimit(sp), 0)
      BY <1>3, StopSplits
<1>4. CASE /\ split' = sp /\ candidates' = {} /\ trace' = NoTrace /\ pc' = "apply"
           /\ UNCHANGED <<setup, table, stateVars, initialSplits, scan>>
  <2>1. UNCHANGED abstraction
        BY <1>4 DEF abstraction
  <2>2. IsSplit(split)'
        BY <1>2, <1>4 DEF IsSplit, AbstractStates, stateVars
  <2>3. trace'.plan \in Seq(Keys) /\ trace'.step = 0 /\ Len(trace'.plan) = 0
        BY <1>4, EmptySeq DEF NoTrace
  <2>. QED BY <1>4, <2>1, <2>2, <2>3 DEF SplitsInvariant, setup, stateVars
<1>. QED BY <1>1, <1>3, <1>4

\* The steps that do not change the abstraction keep what is known of the splits.
LEMMA SplitsStep ==
    ASSUME SplitsInvariant, TableTypeOK, LiveKeysAreSteps, MapsToStates, [Next]_vars,
           ~ ((ApplySplit \/ Detach \/ Attach) /\ UNCHANGED <<setup, cegarVars>>)
    PROVE  SplitsInvariant'
<1>1. CASE UNCHANGED vars \/ Done
      BY <1>1, SplitsUnchanged DEF Done, vars, abstraction, stateVars, cegarVars
<1>2. CASE InitialSplitDone
      BY <1>2, SplitsUnchanged DEF InitialSplitDone, abstraction, stateVars, cegarVars
<1>3. CASE /\ BeginDistances \/ BeginRepair \/ Invalidate \/ Seed \/ Expand \/ FinishDistances
           /\ UNCHANGED <<setup, cegarVars>>
  <2>1. UNCHANGED abstraction /\ UNCHANGED split
        /\ (pc' \in {"apply", "detach", "attach"} => pc \in {"apply", "detach", "attach"})
    <3>1. CASE BeginDistances
          BY <1>3, <3>1 DEF BeginDistances, abstraction, stateVars
    <3>2. CASE BeginRepair
          BY <1>3, <3>2 DEF BeginRepair, abstraction, stateVars
    <3>3. CASE Invalidate
          BY <1>3, <3>3 DEF Invalidate, abstraction, stateVars
    <3>4. CASE Seed
          BY <1>3, <3>4 DEF Seed, abstraction, stateVars
    <3>5. CASE Expand
          BY <1>3, <3>5 DEF Expand, abstraction, stateVars
    <3>6. CASE FinishDistances
          BY <1>3, <3>6 DEF FinishDistances, abstraction, stateVars
    <3>. QED BY <1>3, <3>1, <3>2, <3>3, <3>4, <3>5, <3>6
  <2>. QED BY <1>3, <2>1, SplitsUnchanged DEF cegarVars
<1>4. CASE StartIteration
  <2>1. CASE \E reason, cost : Stop(reason, cost)
        BY <2>1, StopSplits
  <2>2. CASE pc' \in {"walk", "replay"} /\ UNCHANGED abstraction /\ UNCHANGED <<split, cegarVars>>
        BY <2>2, SplitsUnchanged DEF cegarVars
  <2>. QED BY <1>4, <2>1, <2>2 DEF StartIteration, abstraction, stateVars
<1>. QED BY <1>1, <1>2, <1>3, <1>4, InitialSplitSplits, ReplaySplits, RegressionSplits, SelectSplits
         DEF Next, Refine

-----------------------------------------------------------------------------
(***************************************************************************)
(* The hierarchy.  Its nodes are numbered in the order they were made, so  *)
(* the children of a node have higher numbers and following the splits     *)
(* from the root ends in a leaf.  The function that MapState chooses is    *)
(* therefore unique; that there is one, for every concrete state, is kept  *)
(* by each split: the states on the far side of the split leaf move to the *)
(* new leaf, all others stay where they are.                               *)
(***************************************************************************)

NodeCount == 2 * Len(regions) - 1
HierarchyIsTree ==
    /\ HierarchyNodes = 1..NodeCount
    /\ DOMAIN hierarchy.inner \cap DOMAIN hierarchy.leafState = {}
    /\ \A n \in DOMAIN hierarchy.inner :
           /\ hierarchy.inner[n].children[1] \in n + 1..NodeCount
           /\ hierarchy.inner[n].children[2] \in n + 1..NodeCount
    /\ hierarchy.leaf \in Seq(Nat) /\ Len(hierarchy.leaf) = Len(regions)
    /\ \A a \in AbstractStates :
           hierarchy.leaf[a] \in DOMAIN hierarchy.leafState /\ hierarchy.leafState[hierarchy.leaf[a]] = a
    /\ \A n \in DOMAIN hierarchy.leafState :
           hierarchy.leafState[n] \in AbstractStates /\ hierarchy.leaf[hierarchy.leafState[n]] = n

\* What MapState computes in each node.
Descent(f, s) ==
    [n \in HierarchyNodes |->
        IF n \in DOMAIN hierarchy.leafState
        THEN hierarchy.leafState[n]
        ELSE LET node == hierarchy.inner[n]
             IN  IF s[node.dimension] \in node.first THEN f[node.children[1]]
                                                     ELSE f[node.children[2]]]
Descends(f, s) == f = Descent(f, s)

\* Every concrete state is led to an abstract state, and to no other than the one whose
\* region it is in.
StatesDescend ==
    \A s : \E f :
        /\ Descends(f, s) /\ f[1] \in AbstractStates
        /\ s \in States => \A a \in AbstractStates : InRegion(s, regions[a]) <=> a = f[1]

LEMMA MapStateIsChosen ==
    ASSUME NEW s
    PROVE  MapState(s) = (CHOOSE f : Descends(f, s))[1]
    BY DEF MapState, Descends, Descent

\* Every set of natural numbers but the empty one has a least element.
LEMMA LeastNatural ==
    ASSUME NEW S \in SUBSET Nat, S # {}
    PROVE  \E m \in S : \A n \in S : m <= n
<1>1. \E m \in S : \A n \in S : ~(<<n, m>> \in OpToRel(<, Nat))
      BY WFMin, NatLessThanWellFounded
<1>2. \A m, n \in S : ~(<<n, m>> \in OpToRel(<, Nat)) => m <= n
      BY DEF OpToRel
<1>. QED BY <1>1, <1>2

\* Two functions that descend agree, since they do in the highest node.
LEMMA DescentIsUnique ==
    ASSUME HierarchyIsTree, Len(regions) \in Nat \ {0}, NEW s, NEW f, NEW g, Descends(f, s), Descends(g, s)
    PROVE  f = g
<1>1. \A n \in HierarchyNodes : f[n] = g[n]
  <2>. SUFFICES ASSUME \E n \in HierarchyNodes : f[n] # g[n] PROVE FALSE
       OBVIOUS
  <2>. DEFINE D == {m \in Nat : NodeCount - m \in HierarchyNodes /\ f[NodeCount - m] # g[NodeCount - m]}
  <2>1. NodeCount \in Nat /\ HierarchyNodes = 1..NodeCount
        BY DEF NodeCount, HierarchyIsTree
  <2>2. D # {}
    <3>1. PICK n \in 1..NodeCount : f[n] # g[n]
          BY <2>1
    <3>2. NodeCount - n \in Nat /\ NodeCount - (NodeCount - n) = n
          BY <2>1, <3>1
    <3>3. NodeCount - n \in D
          BY <2>1, <3>1, <3>2
    <3>. QED BY <3>3
  <2>3. PICK m \in D : \A k \in D : m <= k
        BY <2>2, LeastNatural
  <2>. DEFINE n == NodeCount - m
  <2>4. n \in 1..NodeCount /\ f[n] # g[n] /\ m = NodeCount - n
        BY <2>1, <2>3
  <2>5. \A c \in n + 1..NodeCount : f[c] = g[c]
    <3>. SUFFICES ASSUME NEW c \in n + 1..NodeCount, f[c] # g[c] PROVE FALSE
         OBVIOUS
    <3>1. NodeCount - c \in Nat /\ NodeCount - (NodeCount - c) = c /\ c \in 1..NodeCount /\ NodeCount - c < m
          BY <2>1, <2>3, <2>4
    <3>2. NodeCount - c \in D
          BY <2>1, <3>1
    <3>. QED BY <2>3, <3>1, <3>2
  <2>. HIDE DEF n, D
  <2>6. f[n] = Descent(f, s)[n] /\ g[n] = Descent(g, s)[n]
        BY DEF Descends
  <2>7. CASE n \in DOMAIN hierarchy.leafState
        BY <2>1, <2>4, <2>6, <2>7 DEF Descent
  <2>8. CASE n \notin DOMAIN hierarchy.leafState
    <3>1. n \in DOMAIN hierarchy.inner
          BY <2>1, <2>4, <2>8 DEF HierarchyNodes
    <3>2. /\ hierarchy.inner[n].children[1] \in n + 1..NodeCount
          /\ hierarchy.inner[n].children[2] \in n + 1..NodeCount
          BY <3>1 DEF HierarchyIsTree
    <3>. QED BY <2>1, <2>4, <2>5, <2>6, <2>8, <3>2 DEF Descent
  <2>. QED BY <2>7, <2>8
<1>2. Descent(f, s) = Descent(g, s)
  <2>1. \A n \in DOMAIN hierarchy.inner :
          /\ hierarchy.inner[n].children[1] \in HierarchyNodes
          /\ hierarchy.inner[n].children[2] \in HierarchyNodes
    <3>1. NodeCount \in Nat /\ HierarchyNodes = 1..NodeCount
          BY DEF NodeCount, HierarchyIsTree
    <3>. QED BY <3>1 DEF HierarchyIsTree, HierarchyNodes
  <2>. QED BY <1>1, <2>1 DEF Descent, HierarchyNodes
<1>. QED BY <1>2 DEF Descends

\* So MapState is the value of any function that descends.
LEMMA MapStateOfDescent ==
    ASSUME HierarchyIsTree, Len(regions) \in Nat \ {0}, NEW s, NEW f, Descends(f, s)
    PROVE  MapState(s) = f[1]
<1>1. Descends(CHOOSE g : Descends(g, s), s)
      OBVIOUS
<1>2. (CHOOSE g : Descends(g, s)) = f
      BY <1>1, DescentIsUnique
<1>. QED BY <1>2, MapStateIsChosen

LEMMA DescentMaps ==
    ASSUME HierarchyIsTree, Len(regions) \in Nat \ {0}, StatesDescend
    PROVE  /\ MapsToStates
           /\ \A s \in States : \A a \in AbstractStates : InRegion(s, regions[a]) <=> a = MapState(s)
<1>1. ASSUME NEW s
      PROVE  /\ MapState(s) \in AbstractStates
             /\ s \in States => \A a \in AbstractStates : InRegion(s, regions[a]) <=> a = MapState(s)
  <2>1. PICK f : /\ Descends(f, s) /\ f[1] \in AbstractStates
                 /\ s \in States => \A a \in AbstractStates : InRegion(s, regions[a]) <=> a = f[1]
        BY DEF StatesDescend
  <2>. QED BY <2>1, MapStateOfDescent
<1>. QED BY <1>1 DEF MapsToStates

-----------------------------------------------------------------------------
(* A split, its two halves and its two leaves *)

\* The new number of the values first of the split dimension, and that of the others.
Halves(sp) == {sp.state, Len(regions) + 1}
Half(sp, v) == IF (v \in sp.first) = WitnessIsFirst(sp) THEN sp.state ELSE Len(regions) + 1

LEMMA SplitRegionsFacts ==
    ASSUME NEW sp, IsSplit(sp), regions \in Seq(RegionType)
    PROVE  /\ SplitRegions(sp) \in Seq(RegionType)
           /\ Len(SplitRegions(sp)) = Len(regions) + 1
           /\ \A a \in AbstractStates : a # sp.state => SplitRegions(sp)[a] = regions[a]
           /\ \A x \in Halves(sp) : \A d \in Dimensions :
                  d # sp.dimension => SplitRegions(sp)[x][d] = regions[sp.state][d]
           /\ \A x \in Halves(sp) : \A v :
                  v \in SplitRegions(sp)[x][sp.dimension]
                      <=> v \in regions[sp.state][sp.dimension] /\ Half(sp, v) = x
<1>. DEFINE r == regions[sp.state]
            d == sp.dimension
            n == Len(regions)
            kept  == IF WitnessIsFirst(sp) THEN First(sp) ELSE Second(sp)
            other == IF WitnessIsFirst(sp) THEN Second(sp) ELSE First(sp)
            long  == [regions EXCEPT ![sp.state][d] = kept]
            last  == [r EXCEPT ![d] = other]
<1>1. n \in Nat /\ sp.state \in 1..n /\ d \in Dimensions /\ DOMAIN regions = 1..n
      BY DEF IsSplit, AbstractStates
<1>2. r \in RegionType /\ r[d] \in SUBSET Int
      BY <1>1 DEF RegionType
<1>3. kept \in SUBSET Int /\ other \in SUBSET Int
      BY <1>2 DEF First, Second
<1>4. \A v : /\ v \in kept <=> v \in r[d] /\ ((v \in sp.first) = WitnessIsFirst(sp))
             /\ v \in other <=> v \in r[d] /\ ~ ((v \in sp.first) = WitnessIsFirst(sp))
  <2>. HIDE DEF kept, other
  <2>1. CASE WitnessIsFirst(sp)
    <3>1. kept = r[d] \cap sp.first /\ other = r[d] \ sp.first
          BY <2>1 DEF kept, other, First, Second
    <3>. QED BY <2>1, <3>1
  <2>2. CASE ~ WitnessIsFirst(sp)
    <3>1. kept = r[d] \ sp.first /\ other = r[d] \cap sp.first
          BY <2>2 DEF kept, other, First, Second
    <3>2. \A v : ((v \in sp.first) = WitnessIsFirst(sp)) <=> v \notin sp.first
          BY <2>2 DEF WitnessIsFirst
    <3>. QED BY <3>1, <3>2
  <2>. QED BY <2>1, <2>2
<1>5. SplitRegions(sp) = Append(long, last)
      BY DEF SplitRegions
<1>. HIDE DEF kept, other
<1>6. /\ long = [regions EXCEPT ![sp.state] = [r EXCEPT ![d] = kept]]
      /\ [r EXCEPT ![d] = kept] \in RegionType /\ last \in RegionType
      BY <1>1, <1>2, <1>3 DEF RegionType
<1>7. long \in Seq(RegionType) /\ Len(long) = n
      BY <1>1, <1>6, ExceptSeq
<1>8. /\ [r EXCEPT ![d] = kept][d] = kept /\ last[d] = other
      /\ \A e \in Dimensions : e # d => [r EXCEPT ![d] = kept][e] = r[e] /\ last[e] = r[e]
      BY <1>1, <1>2 DEF RegionType
<1>9. /\ \A a \in 1..n : a # sp.state => long[a] = regions[a]
      /\ long[sp.state] = [r EXCEPT ![d] = kept]
      BY <1>1, <1>6
<1>. HIDE DEF long, last
<1>10. /\ SplitRegions(sp) \in Seq(RegionType) /\ Len(SplitRegions(sp)) = n + 1
       /\ SplitRegions(sp)[n + 1] = last
       /\ \A a \in 1..n : SplitRegions(sp)[a] = long[a]
       BY <1>5, <1>6, <1>7, AppendProperties
<1>11. ASSUME NEW x \in Halves(sp)
       PROVE  /\ \A e \in Dimensions : e # d => SplitRegions(sp)[x][e] = r[e]
              /\ \A v : v \in SplitRegions(sp)[x][d] <=> v \in r[d] /\ Half(sp, v) = x
  <2>1. CASE x = sp.state
    <3>1. SplitRegions(sp)[x] = [r EXCEPT ![d] = kept]
          BY <1>1, <1>9, <1>10, <2>1
    <3>2. \A v : Half(sp, v) = x <=> ((v \in sp.first) = WitnessIsFirst(sp))
          BY <1>1, <2>1 DEF Half
    <3>. QED BY <1>4, <1>8, <3>1, <3>2
  <2>2. CASE x = n + 1
    <3>1. \A v : Half(sp, v) = x <=> ~ ((v \in sp.first) = WitnessIsFirst(sp))
          BY <1>1, <2>2 DEF Half
    <3>. QED BY <1>4, <1>8, <1>10, <2>2, <3>1
  <2>. QED BY <2>1, <2>2 DEF Halves
<1>. QED BY <1>1, <1>9, <1>10, <1>11 DEF AbstractStates

LEMMA InitHierarchy == Init => HierarchyIsTree /\ StatesDescend
<1>. SUFFICES ASSUME Init PROVE HierarchyIsTree /\ StatesDescend
     OBVIOUS
<1>1. /\ regions = <<Values>> /\ Len(regions) = 1 /\ regions[1] = Values
      /\ DOMAIN hierarchy.inner = {} /\ hierarchy.leafState = [n \in {1} |-> 1] /\ hierarchy.leaf = <<1>>
      BY DEF Init, TrivialRegion, Empty
<1>2. AbstractStates = {1} /\ HierarchyNodes = {1} /\ NodeCount = 1
      BY <1>1 DEF AbstractStates, HierarchyNodes, NodeCount
<1>3. HierarchyIsTree
      BY <1>1, <1>2 DEF HierarchyIsTree
<1>4. ASSUME NEW s
      PROVE  \E f : /\ Descends(f, s) /\ f[1] \in AbstractStates
                    /\ s \in States => \A a \in AbstractStates : InRegion(s, regions[a]) <=> a = f[1]
  <2>1. Descends([n \in {1} |-> 1], s)
        BY <1>1, <1>2 DEF Descends, Descent
  <2>2. s \in States => InRegion(s, Values)
        BY DEF States, InRegion
  <2>. QED BY <1>1, <1>2, <2>1, <2>2
<1>. QED BY <1>3, <1>4 DEF StatesDescend

\* The parts of the hierarchy after a split: two leaves below the split one.
LEMMA SplitHierarchyParts ==
    ASSUME NEW sp, IsSplit(sp), HierarchyIsTree, Len(regions) \in Nat \ {0},
           hierarchy' = SplitHierarchy(sp)
    PROVE  LET leaf  == hierarchy.leaf[sp.state]
               kept  == IF WitnessIsFirst(sp) THEN NodeCount + 1 ELSE NodeCount + 2
               other == IF WitnessIsFirst(sp) THEN NodeCount + 2 ELSE NodeCount + 1
           IN  /\ NodeCount \in Nat /\ leaf \in 1..NodeCount
               /\ leaf \in DOMAIN hierarchy.leafState /\ hierarchy.leafState[leaf] = sp.state
               /\ DOMAIN hierarchy'.inner = DOMAIN hierarchy.inner \cup {leaf}
               /\ \A n \in DOMAIN hierarchy.inner : hierarchy'.inner[n] = hierarchy.inner[n]
               /\ hierarchy'.inner[leaf].dimension = sp.dimension
               /\ hierarchy'.inner[leaf].first = sp.first
               /\ hierarchy'.inner[leaf].children = <<NodeCount + 1, NodeCount + 2>>
               /\ DOMAIN hierarchy'.leafState
                      = (DOMAIN hierarchy.leafState \ {leaf}) \cup {NodeCount + 1, NodeCount + 2}
               /\ \A n \in DOMAIN hierarchy.leafState \ {leaf} : hierarchy'.leafState[n] = hierarchy.leafState[n]
               /\ hierarchy'.leafState[kept] = sp.state
               /\ hierarchy'.leafState[other] = Len(regions) + 1
               /\ hierarchy'.leaf = Append([hierarchy.leaf EXCEPT ![sp.state] = kept], other)
<1>. DEFINE leaf  == hierarchy.leaf[sp.state]
            kept  == IF WitnessIsFirst(sp) THEN NodeCount + 1 ELSE NodeCount + 2
            other == IF WitnessIsFirst(sp) THEN NodeCount + 2 ELSE NodeCount + 1
            node  == [dimension |-> sp.dimension, first |-> sp.first,
                      children |-> <<NodeCount + 1, NodeCount + 2>>]
            below == Without(hierarchy.leafState, leaf)
<1>1. NodeCount \in Nat /\ HierarchyNodes = 1..NodeCount
      BY DEF NodeCount, HierarchyIsTree
<1>2. Cardinality(HierarchyNodes) = NodeCount
      BY <1>1, FS_Interval
<1>3. leaf \in DOMAIN hierarchy.leafState /\ hierarchy.leafState[leaf] = sp.state /\ leaf \in 1..NodeCount
      BY <1>1 DEF HierarchyIsTree, IsSplit, HierarchyNodes
<1>4. /\ hierarchy'.inner = Put(hierarchy.inner, leaf, node)
      /\ hierarchy'.leafState = Put(Put(below, kept, sp.state), other, Len(regions) + 1)
      /\ hierarchy'.leaf = Append([hierarchy.leaf EXCEPT ![sp.state] = kept], other)
      BY <1>2 DEF SplitHierarchy
<1>5. kept # other /\ {kept, other} = {NodeCount + 1, NodeCount + 2}
      BY <1>1
<1>6. leaf \notin DOMAIN hierarchy.inner
      BY <1>3 DEF HierarchyIsTree
<1>7. \A n \in DOMAIN hierarchy.leafState : n # kept /\ n # other
      BY <1>1 DEF HierarchyNodes
<1>8. /\ node.dimension = sp.dimension /\ node.first = sp.first
      /\ node.children = <<NodeCount + 1, NodeCount + 2>>
      OBVIOUS
<1>. HIDE DEF leaf, kept, other, node, below
<1>9. /\ DOMAIN hierarchy'.inner = DOMAIN hierarchy.inner \cup {leaf}
      /\ hierarchy'.inner[leaf] = node
      /\ \A n \in DOMAIN hierarchy.inner : hierarchy'.inner[n] = hierarchy.inner[n]
      BY <1>4, <1>6 DEF Put
<1>10. /\ DOMAIN below = DOMAIN hierarchy.leafState \ {leaf}
       /\ \A n \in DOMAIN below : below[n] = hierarchy.leafState[n]
  <2>1. /\ DOMAIN Without(hierarchy.leafState, leaf) = DOMAIN hierarchy.leafState \ {leaf}
        /\ \A n \in DOMAIN hierarchy.leafState :
               n # leaf => Without(hierarchy.leafState, leaf)[n] = hierarchy.leafState[n]
        BY WithoutDomain
  <2>2. below = Without(hierarchy.leafState, leaf)
        BY DEF below
  <2>. QED BY <2>1, <2>2
<1>11. /\ DOMAIN hierarchy'.leafState = (DOMAIN below \cup {kept}) \cup {other}
       /\ hierarchy'.leafState[kept] = sp.state /\ hierarchy'.leafState[other] = Len(regions) + 1
       /\ \A n \in DOMAIN below : hierarchy'.leafState[n] = below[n]
  <2>. DEFINE one == Put(below, kept, sp.state)
  <2>1. /\ DOMAIN one = DOMAIN below \cup {kept} /\ one[kept] = sp.state
        /\ \A n \in DOMAIN below : n # kept => one[n] = below[n]
        BY DEF Put
  <2>. HIDE DEF one
  <2>2. hierarchy'.leafState = Put(one, other, Len(regions) + 1)
        BY <1>4 DEF one
  <2>3. /\ DOMAIN hierarchy'.leafState = DOMAIN one \cup {other}
        /\ hierarchy'.leafState[other] = Len(regions) + 1
        /\ \A n \in DOMAIN one : n # other => hierarchy'.leafState[n] = one[n]
        BY <2>2 DEF Put
  <2>. QED BY <1>5, <1>7, <1>10, <2>1, <2>3
<1>12. DOMAIN hierarchy'.leafState
          = (DOMAIN hierarchy.leafState \ {leaf}) \cup {NodeCount + 1, NodeCount + 2}
       BY <1>5, <1>10, <1>11
<1>. QED BY <1>1, <1>3, <1>4, <1>8, <1>9, <1>10, <1>11, <1>12 DEF leaf, kept, other

LEMMA SplitKeepsTree ==
    ASSUME NEW sp, IsSplit(sp), HierarchyIsTree, Len(regions) \in Nat \ {0},
           hierarchy' = SplitHierarchy(sp), Len(regions') = Len(regions) + 1
    PROVE  HierarchyIsTree'
<1>. DEFINE leaf  == hierarchy.leaf[sp.state]
            kept  == IF WitnessIsFirst(sp) THEN NodeCount + 1 ELSE NodeCount + 2
            other == IF WitnessIsFirst(sp) THEN NodeCount + 2 ELSE NodeCount + 1
            m     == Len(regions)
<1>1. /\ NodeCount \in Nat /\ leaf \in 1..NodeCount
      /\ leaf \in DOMAIN hierarchy.leafState /\ hierarchy.leafState[leaf] = sp.state
      /\ DOMAIN hierarchy'.inner = DOMAIN hierarchy.inner \cup {leaf}
      /\ \A n \in DOMAIN hierarchy.inner : hierarchy'.inner[n] = hierarchy.inner[n]
      /\ hierarchy'.inner[leaf].children = <<NodeCount + 1, NodeCount + 2>>
      /\ DOMAIN hierarchy'.leafState
             = (DOMAIN hierarchy.leafState \ {leaf}) \cup {NodeCount + 1, NodeCount + 2}
      /\ \A n \in DOMAIN hierarchy.leafState \ {leaf} : hierarchy'.leafState[n] = hierarchy.leafState[n]
      /\ hierarchy'.leafState[kept] = sp.state
      /\ hierarchy'.leafState[other] = m + 1
      /\ hierarchy'.leaf = Append([hierarchy.leaf EXCEPT ![sp.state] = kept], other)
      BY SplitHierarchyParts
<1>2. {kept, other} = {NodeCount + 1, NodeCount + 2} /\ kept # other /\ kept \in Nat /\ other \in Nat
      BY <1>1
<1>3. NodeCount' = NodeCount + 2 /\ m \in Nat \ {0} /\ sp.state \in 1..m
      BY DEF NodeCount, IsSplit, AbstractStates
<1>4. HierarchyNodes = 1..NodeCount /\ DOMAIN hierarchy.inner \cap DOMAIN hierarchy.leafState = {}
      BY DEF HierarchyIsTree
<1>. HIDE DEF leaf, kept, other
<1>5. HierarchyNodes' = 1..NodeCount'
  <2>1. HierarchyNodes' = HierarchyNodes \cup {NodeCount + 1, NodeCount + 2}
        BY <1>1 DEF HierarchyNodes
  <2>2. 1..NodeCount + 2 = (1..NodeCount) \cup {NodeCount + 1, NodeCount + 2}
        BY <1>1
  <2>. QED BY <1>3, <1>4, <2>1, <2>2
<1>6. DOMAIN hierarchy'.inner \cap DOMAIN hierarchy'.leafState = {}
      BY <1>1, <1>4 DEF HierarchyNodes
<1>7. ASSUME NEW n \in DOMAIN hierarchy'.inner
      PROVE  /\ hierarchy'.inner[n].children[1] \in n + 1..NodeCount'
             /\ hierarchy'.inner[n].children[2] \in n + 1..NodeCount'
  <2>1. CASE n = leaf
        BY <1>1, <1>3, <2>1
  <2>2. CASE n \in DOMAIN hierarchy.inner
    <3>1. /\ hierarchy.inner[n].children[1] \in n + 1..NodeCount
          /\ hierarchy.inner[n].children[2] \in n + 1..NodeCount
          BY <2>2 DEF HierarchyIsTree
    <3>2. n + 1..NodeCount \subseteq n + 1..NodeCount'
          BY <1>1, <1>3, <1>4, <2>2 DEF HierarchyNodes
    <3>. QED BY <1>1, <2>2, <3>1, <3>2
  <2>. QED BY <1>1, <2>1, <2>2
<1>8. hierarchy'.leaf \in Seq(Nat) /\ Len(hierarchy'.leaf) = m + 1
      /\ hierarchy'.leaf[m + 1] = other /\ hierarchy'.leaf[sp.state] = kept
      /\ \A a \in 1..m : a # sp.state => hierarchy'.leaf[a] = hierarchy.leaf[a]
  <2>. DEFINE moved == [hierarchy.leaf EXCEPT ![sp.state] = kept]
  <2>1. hierarchy.leaf \in Seq(Nat) /\ Len(hierarchy.leaf) = m
        BY DEF HierarchyIsTree
  <2>2. moved \in Seq(Nat) /\ Len(moved) = m
        BY <1>2, <1>3, <2>1, ExceptSeq
  <2>3. moved[sp.state] = kept /\ \A a \in 1..m : a # sp.state => moved[a] = hierarchy.leaf[a]
        BY <1>3, <2>1
  <2>. HIDE DEF moved
  <2>. QED BY <1>1, <1>2, <1>3, <2>2, <2>3, AppendProperties DEF moved
<1>9. AbstractStates' = 1..m + 1 /\ AbstractStates = 1..m
      BY <1>3 DEF AbstractStates
<1>10. ASSUME NEW a \in 1..m + 1
       PROVE  /\ hierarchy'.leaf[a] \in DOMAIN hierarchy'.leafState
              /\ hierarchy'.leafState[hierarchy'.leaf[a]] = a
  <2>1. CASE a \in {sp.state, m + 1}
        BY <1>1, <1>2, <1>8, <2>1
  <2>2. CASE a \in 1..m /\ a # sp.state
    <3>1. hierarchy.leaf[a] \in DOMAIN hierarchy.leafState /\ hierarchy.leafState[hierarchy.leaf[a]] = a
          BY <1>9, <2>2 DEF HierarchyIsTree
    <3>2. hierarchy'.leaf[a] = hierarchy.leaf[a]
          BY <1>8, <2>2
    <3>3. hierarchy.leaf[a] \in DOMAIN hierarchy.leafState \ {leaf}
          BY <1>1, <2>2, <3>1
    <3>. QED BY <1>1, <3>1, <3>2, <3>3
  <2>. QED BY <1>3, <2>1, <2>2
<1>11. ASSUME NEW n \in DOMAIN hierarchy'.leafState
       PROVE  hierarchy'.leafState[n] \in 1..m + 1 /\ hierarchy'.leaf[hierarchy'.leafState[n]] = n
  <2>1. CASE n \in {kept, other}
    <3>1. /\ hierarchy'.leafState[kept] = sp.state /\ hierarchy'.leaf[sp.state] = kept
          /\ hierarchy'.leafState[other] = m + 1 /\ hierarchy'.leaf[m + 1] = other
          BY <1>1, <1>8
    <3>2. sp.state \in 1..m + 1 /\ m + 1 \in 1..m + 1
          BY <1>3
    <3>. QED BY <2>1, <3>1, <3>2
  <2>2. CASE n \in DOMAIN hierarchy.leafState \ {leaf}
    <3>1. hierarchy.leafState[n] \in 1..m /\ hierarchy.leaf[hierarchy.leafState[n]] = n
          BY <1>9, <2>2 DEF HierarchyIsTree
    <3>2. hierarchy.leafState[n] # sp.state
          BY <2>2, <3>1 DEF leaf
    <3>3. hierarchy'.leafState[n] = hierarchy.leafState[n]
          BY <1>1, <2>2
    <3>4. hierarchy'.leaf[hierarchy.leafState[n]] = n
          BY <1>8, <3>1, <3>2
    <3>. QED BY <1>3, <3>1, <3>3, <3>4
  <2>. QED BY <1>1, <1>2, <2>1, <2>2
<1>. QED BY <1>5, <1>6, <1>7, <1>8, <1>9, <1>10, <1>11 DEF HierarchyIsTree

\* In a descent after the split the values on the far side of it lead to the new leaf
\* where they led to the split one, and everything else leads where it did.
LEMMA SplitMovesDescent ==
    ASSUME NEW sp, IsSplit(sp), HierarchyIsTree, Len(regions) \in Nat \ {0},
           hierarchy' = SplitHierarchy(sp), NEW s, NEW f, Descends(f, s)
    PROVE  \E g : /\ Descends(g, s)'
                  /\ g[1] = IF f[1] = sp.state THEN Half(sp, s[sp.dimension]) ELSE f[1]
<1>. DEFINE leaf  == hierarchy.leaf[sp.state]
            kept  == IF WitnessIsFirst(sp) THEN NodeCount + 1 ELSE NodeCount + 2
            other == IF WitnessIsFirst(sp) THEN NodeCount + 2 ELSE NodeCount + 1
            h     == Half(sp, s[sp.dimension])
            g     == [n \in HierarchyNodes' |->
                         IF n \in {NodeCount + 1, NodeCount + 2} THEN hierarchy'.leafState[n]
                         ELSE IF f[n] = sp.state THEN h ELSE f[n]]
<1>1. /\ NodeCount \in Nat /\ leaf \in 1..NodeCount
      /\ leaf \in DOMAIN hierarchy.leafState /\ hierarchy.leafState[leaf] = sp.state
      /\ DOMAIN hierarchy'.inner = DOMAIN hierarchy.inner \cup {leaf}
      /\ \A n \in DOMAIN hierarchy.inner : hierarchy'.inner[n] = hierarchy.inner[n]
      /\ hierarchy'.inner[leaf].dimension = sp.dimension
      /\ hierarchy'.inner[leaf].first = sp.first
      /\ hierarchy'.inner[leaf].children = <<NodeCount + 1, NodeCount + 2>>
      /\ DOMAIN hierarchy'.leafState
             = (DOMAIN hierarchy.leafState \ {leaf}) \cup {NodeCount + 1, NodeCount + 2}
      /\ \A n \in DOMAIN hierarchy.leafState \ {leaf} : hierarchy'.leafState[n] = hierarchy.leafState[n]
      /\ hierarchy'.leafState[kept] = sp.state
      /\ hierarchy'.leafState[other] = Len(regions) + 1
      BY SplitHierarchyParts
<1>2. HierarchyNodes = 1..NodeCount /\ DOMAIN hierarchy.inner \cap DOMAIN hierarchy.leafState = {}
      BY DEF HierarchyIsTree
<1>3. HierarchyNodes' = HierarchyNodes \cup {NodeCount + 1, NodeCount + 2}
      BY <1>1 DEF HierarchyNodes
<1>4. \A n \in HierarchyNodes :
        f[n] = IF n \in DOMAIN hierarchy.leafState
               THEN hierarchy.leafState[n]
               ELSE IF s[hierarchy.inner[n].dimension] \in hierarchy.inner[n].first
                    THEN f[hierarchy.inner[n].children[1]]
                    ELSE f[hierarchy.inner[n].children[2]]
      BY DEF Descends, Descent
<1>5. h = IF s[sp.dimension] \in sp.first
          THEN hierarchy'.leafState[NodeCount + 1] ELSE hierarchy'.leafState[NodeCount + 2]
  <2>1. CASE WitnessIsFirst(sp)
        BY <1>1, <2>1 DEF Half
  <2>2. CASE ~ WitnessIsFirst(sp)
    <3>1. \A v : ((v \in sp.first) = WitnessIsFirst(sp)) <=> v \notin sp.first
          BY <2>2 DEF WitnessIsFirst
    <3>. QED BY <1>1, <2>2, <3>1 DEF Half
  <2>. QED BY <2>1, <2>2
<1>. HIDE DEF leaf, kept, other, h
<1>6. \A n \in HierarchyNodes : n \notin {NodeCount + 1, NodeCount + 2}
      BY <1>1, <1>2
<1>7. ASSUME NEW n \in HierarchyNodes'
      PROVE  g[n] = IF n \in DOMAIN hierarchy'.leafState
                    THEN hierarchy'.leafState[n]
                    ELSE IF s[hierarchy'.inner[n].dimension] \in hierarchy'.inner[n].first
                         THEN g[hierarchy'.inner[n].children[1]]
                         ELSE g[hierarchy'.inner[n].children[2]]
  <2>1. CASE n \in {NodeCount + 1, NodeCount + 2}
        BY <1>1, <2>1
  <2>2. CASE n = leaf
    <3>1. n \notin DOMAIN hierarchy'.leafState /\ f[n] = sp.state /\ n \in HierarchyNodes
          BY <1>1, <1>2, <1>4, <2>2
    <3>2. g[n] = h
          BY <1>3, <1>6, <3>1
    <3>3. g[NodeCount + 1] = hierarchy'.leafState[NodeCount + 1]
          /\ g[NodeCount + 2] = hierarchy'.leafState[NodeCount + 2]
          BY <1>3
    <3>. HIDE DEF g
    <3>. QED BY <1>1, <1>5, <2>2, <3>1, <3>2, <3>3
  <2>3. CASE n \in DOMAIN hierarchy.leafState \ {leaf}
    <3>1. n \in HierarchyNodes /\ n \notin {NodeCount + 1, NodeCount + 2}
          BY <1>6, <2>3 DEF HierarchyNodes
    <3>2. f[n] = hierarchy.leafState[n] /\ hierarchy'.leafState[n] = hierarchy.leafState[n]
          /\ n \in DOMAIN hierarchy'.leafState
          BY <1>1, <1>4, <2>3, <3>1
    <3>3. hierarchy.leafState[n] # sp.state
          BY <2>3 DEF HierarchyIsTree, leaf
    <3>. QED BY <1>3, <3>1, <3>2, <3>3
  <2>4. CASE n \in DOMAIN hierarchy.inner
    <3>. DEFINE a == hierarchy.inner[n].children[1]
                b == hierarchy.inner[n].children[2]
                to(m) == IF f[m] = sp.state THEN h ELSE f[m]
    <3>1. n \in HierarchyNodes /\ n \notin DOMAIN hierarchy.leafState /\ n \notin DOMAIN hierarchy'.leafState
          BY <1>1, <1>2, <1>6, <2>4 DEF HierarchyNodes
    <3>2. a \in HierarchyNodes /\ b \in HierarchyNodes
      <4>1. a \in n + 1..NodeCount /\ b \in n + 1..NodeCount
            BY <2>4 DEF HierarchyIsTree
      <4>2. n \in 1..NodeCount /\ NodeCount \in Int
            BY <1>1, <1>2, <3>1
      <4>3. \A m \in n + 1..NodeCount : m \in 1..NodeCount
            BY <4>2
      <4>. HIDE DEF a, b
      <4>. QED BY <1>2, <4>1, <4>3
    <3>3. g[n] = to(n) /\ g[a] = to(a) /\ g[b] = to(b)
          BY <1>3, <1>6, <3>1, <3>2
    <3>4. hierarchy'.inner[n] = hierarchy.inner[n]
          BY <1>1, <2>4
    <3>5. f[n] = IF s[hierarchy.inner[n].dimension] \in hierarchy.inner[n].first THEN f[a] ELSE f[b]
          BY <1>4, <3>1
    <3>. HIDE DEF g, a, b
    <3>6. g[n] = IF s[hierarchy.inner[n].dimension] \in hierarchy.inner[n].first THEN g[a] ELSE g[b]
          BY <3>3, <3>5
    <3>. QED BY <3>1, <3>4, <3>6 DEF a, b
  <2>. QED BY <1>1, <1>3, <2>1, <2>2, <2>3, <2>4 DEF HierarchyNodes
<1>8. 1 \in HierarchyNodes
      BY <1>1, <1>2
<1>9. g[1] = IF f[1] = sp.state THEN h ELSE f[1]
      BY <1>3, <1>6, <1>8
<1>10. g = [n \in HierarchyNodes' |-> g[n]]
       OBVIOUS
<1>. HIDE DEF g
<1>11. g = [n \in HierarchyNodes' |->
               IF n \in DOMAIN hierarchy'.leafState
               THEN hierarchy'.leafState[n]
               ELSE IF s[hierarchy'.inner[n].dimension] \in hierarchy'.inner[n].first
                    THEN g[hierarchy'.inner[n].children[1]]
                    ELSE g[hierarchy'.inner[n].children[2]]]
       BY <1>7, <1>10
<1>12. PICK x : x = g
       OBVIOUS
<1>13. Descends(x, s)'
       BY <1>11, <1>12 DEF Descends, Descent
<1>. QED BY <1>9, <1>12, <1>13 DEF h

LEMMA SplitKeepsDescent ==
    ASSUME NEW sp, IsSplit(sp), HierarchyIsTree, StatesDescend, Len(regions) \in Nat \ {0},
           regions \in Seq(RegionType), UNCHANGED task,
           regions' = SplitRegions(sp), hierarchy' = SplitHierarchy(sp)
    PROVE  StatesDescend'
<1>. DEFINE n == Len(regions)
<1>1. /\ Len(regions') = n + 1
      /\ \A a \in AbstractStates : a # sp.state => regions'[a] = regions[a]
      /\ \A x \in Halves(sp) : \A d \in Dimensions :
             d # sp.dimension => regions'[x][d] = regions[sp.state][d]
      /\ \A x \in Halves(sp) : \A v :
             v \in regions'[x][sp.dimension]
                 <=> v \in regions[sp.state][sp.dimension] /\ Half(sp, v) = x
      BY SplitRegionsFacts
<1>2. AbstractStates = 1..n /\ AbstractStates' = 1..n + 1 /\ n \in Nat
      /\ sp.state \in 1..n /\ sp.dimension \in Dimensions
      BY <1>1 DEF AbstractStates, IsSplit
<1>3. ASSUME NEW s
      PROVE  \E g : /\ Descends(g, s)' /\ g[1] \in 1..n + 1
                    /\ s \in States => \A a \in 1..n + 1 : InRegion(s, regions'[a]) <=> a = g[1]
  <2>. DEFINE h == Half(sp, s[sp.dimension])
  <2>1. PICK f : /\ Descends(f, s) /\ f[1] \in 1..n
                 /\ s \in States => \A a \in 1..n : InRegion(s, regions[a]) <=> a = f[1]
        BY <1>2 DEF StatesDescend
  <2>2. PICK g : Descends(g, s)' /\ g[1] = IF f[1] = sp.state THEN h ELSE f[1]
        BY <2>1, SplitMovesDescent
  <2>3. h \in {sp.state, n + 1}
        BY DEF Half
  <2>4. \A x \in {sp.state, n + 1} :
           InRegion(s, regions'[x]) <=> InRegion(s, regions[sp.state]) /\ h = x
        BY <1>1, <1>2 DEF InRegion, Halves
  <2>. HIDE DEF h
  <2>5. ASSUME s \in States, NEW a \in 1..n + 1
        PROVE  InRegion(s, regions'[a]) <=> a = g[1]
    <3>1. CASE a \in {sp.state, n + 1}
          BY <1>2, <2>1, <2>2, <2>3, <2>4, <2>5, <3>1
    <3>2. CASE a \in 1..n /\ a # sp.state
      <4>1. InRegion(s, regions'[a]) <=> InRegion(s, regions[a])
            BY <1>1, <1>2, <3>2
      <4>. QED BY <1>2, <2>1, <2>2, <2>3, <2>5, <3>2, <4>1
    <3>. QED BY <1>2, <3>1, <3>2
  <2>6. g[1] \in 1..n + 1
        BY <1>2, <2>1, <2>2, <2>3
  <2>. QED BY <2>2, <2>5, <2>6
<1>4. ASSUME NEW s
      PROVE  \E g : /\ Descends(g, s)' /\ g[1] \in AbstractStates'
                    /\ s \in States => \A a \in AbstractStates' : InRegion(s, regions'[a]) <=> a = g[1]
      BY <1>2, <1>3
<1>. QED BY <1>4 DEF StatesDescend

-----------------------------------------------------------------------------
(***************************************************************************)
(* The table of a refinement.  It has a row for every abstract state; a    *)
(* split takes the transitions of the split state out of it and puts       *)
(* others between abstract states back in.                                 *)
(***************************************************************************)

TableMatches ==
    /\ TableInvariant
    /\ regions \in Seq(RegionType)
    /\ TableStates = AbstractStates
    /\ tableState = IF pc = "detach" THEN "removing" ELSE "stored"
    /\ LiveKeysAreSteps
    /\ \A a \in AbstractStates : loops[a] \subseteq Names
    /\ pc \in {"detach", "attach"} => \A k \in pending : k \in Keys /\ IsStep(k)
    /\ pc = "detach" => \A k \in removed : k \in Keys /\ IsStep(k)

RefinementInvariant == SplitsInvariant /\ TableMatches /\ HierarchyIsTree /\ StatesDescend

LEMMA KeyFields ==
    /\ \A a, o, b : Key(a, o, b).source = a /\ Key(a, o, b).operator = o /\ Key(a, o, b).target = b
    /\ \A k \in Keys : k = Key(k.source, k.operator, k.target)
    /\ \A a, b \in Nat \ {0} : \A o \in Operators : Key(a, o, b) \in Keys
    BY DEF Key, Keys

LEMMA InitTable == Init => TableInit /\ TableMatches
<1>. SUFFICES ASSUME Init PROVE TableInit /\ TableMatches
     OBVIOUS
<1>1. TableInit
      BY DEF Init
<1>2. TableInvariant
      BY <1>1, InitInvariant
<1>3. /\ regions = <<Values>> /\ Len(regions) = 1 /\ regions[1] = Values /\ pc = "initial"
      /\ task \in Tasks
      BY DEF Init, TrivialRegion
<1>4. AbstractStates = {1}
      BY <1>3 DEF AbstractStates
<1>5. regions \in Seq(RegionType)
      BY <1>3, TaskFacts
<1>6. TableStates = {1} /\ tableState = "stored" /\ LiveKeys = {}
      BY <1>1 DEF TableInit, TableStates, LiveKeys, Empty
<1>7. loops[1] \subseteq Names
      BY DEF Init
<1>. QED BY <1>1, <1>2, <1>3, <1>4, <1>5, <1>6, <1>7 DEF TableMatches, LiveKeysAreSteps

\* Every step of the refinement is a step of the table.
LEMMA StepIsTableStep ==
    ASSUME SplitsInvariant, TableMatches, [Next]_vars
    PROVE  [TableNext]_table
<1>1. CASE KeepsAbstraction
      BY <1>1 DEF KeepsAbstraction, abstraction, table
<1>2. CASE ApplySplit
  <2>. DEFINE kept == loops[split.state] \ SplitDependentOperators(split.dimension)
  <2>1. split.state \in TableStates /\ SplitState(split.state, kept)
        BY <1>2 DEF ApplySplit, SplitsInvariant, IsSplit, TableMatches
  <2>2. kept \in SUBSET loops[split.state]
        OBVIOUS
  <2>. HIDE DEF kept
  <2>. QED BY <2>1, <2>2 DEF TableNext
<1>3. CASE Detach
      BY <1>3 DEF Detach, TableNext
<1>4. CASE Attach
  <2>1. PICK k \in pending : AddTransition(k)
        BY <1>4 DEF Attach
  <2>2. k \in Keys /\ IsStep(k)
        BY <1>4, <2>1 DEF Attach, TableMatches
  <2>3. k = Key(k.source, k.operator, k.target) /\ k.operator \in Operators
        BY <2>2, KeyFields DEF Keys
  <2>4. k.source \in TableStates /\ k.target \in TableStates
        BY <2>2 DEF IsStep, TableMatches
  <2>. QED BY <2>1, <2>3, <2>4 DEF TableNext
<1>. QED BY <1>1, <1>2, <1>3, <1>4, StepCases

\* What adding a transition does to what the table contains.
LEMMA AddedIsContained ==
    ASSUME TableInvariant, NEW k \in Keys, k.source \in TableStates, k.target \in TableStates,
           AddTransition(k)
    PROVE  /\ TableStates' = TableStates /\ tableState' = tableState
           /\ LiveKeys' \subseteq LiveKeys \cup {k}
           /\ \A a \in TableStates : loops'[a] \subseteq loops[a] \cup {k.operator}
           /\ \A a, b \in TableStates : \A o :
                  ContainsTransition(Key(a, o, b))'
                      <=> ContainsTransition(Key(a, o, b)) \/ Key(a, o, b) = k
<1>1. TableStates = DOMAIN loops /\ TableStates = DOMAIN incoming /\ tableState' = tableState
      BY DEF TableInvariant, TableTypeOK, TableStates, AddTransition
<1>2. \A a, b, o : Key(a, o, b) = k <=> a = k.source /\ o = k.operator /\ b = k.target
      BY KeyFields
<1>3. CASE k.source = k.target
  <2>1. loops' = [loops EXCEPT ![k.source] = @ \cup {k.operator}] /\ UNCHANGED <<ids, outgoing>>
        BY <1>3 DEF AddTransition
  <2>2. \A a \in TableStates : loops'[a] = IF a = k.source THEN loops[a] \cup {k.operator} ELSE loops[a]
        BY <1>1, <2>1
  <2>3. TableStates' = TableStates /\ LiveKeys' = LiveKeys
        BY <2>1 DEF TableStates, LiveKeys
  <2>4. ASSUME NEW a \in TableStates, NEW b \in TableStates, NEW o
        PROVE  ContainsTransition(Key(a, o, b))'
                   <=> ContainsTransition(Key(a, o, b)) \/ Key(a, o, b) = k
    <3>1. /\ ContainsTransition(Key(a, o, b)) <=> IF a = b THEN o \in loops[a] ELSE Key(a, o, b) \in LiveKeys
          /\ ContainsTransition(Key(a, o, b))' <=> IF a = b THEN o \in loops'[a] ELSE Key(a, o, b) \in LiveKeys'
          BY KeyFields DEF ContainsTransition
    <3>2. Key(a, o, b) = k <=> a = k.source /\ o = k.operator /\ b = k.source
          BY <1>2, <1>3
    <3>. QED BY <2>2, <2>3, <3>1, <3>2
  <2>. QED BY <1>1, <2>2, <2>3, <2>4
<1>4. CASE k.source # k.target
  <2>1. /\ UNCHANGED loops
        /\ \/ k \in LiveKeys /\ UNCHANGED <<ids, outgoing>>
           \/ Store(k)
        BY <1>4 DEF AddTransition
  <2>2. TableStates' = TableStates
        BY <2>1 DEF Store, TableStates
  <2>3. LiveKeys' = LiveKeys \cup {k}
        BY <2>1 DEF LiveKeys, Store, Put
  <2>4. ASSUME NEW a \in TableStates, NEW b \in TableStates, NEW o
        PROVE  ContainsTransition(Key(a, o, b))'
                   <=> ContainsTransition(Key(a, o, b)) \/ Key(a, o, b) = k
        BY <1>2, <1>4, <2>1, <2>3, KeyFields DEF ContainsTransition
  <2>. QED BY <1>1, <2>1, <2>2, <2>3, <2>4
<1>. QED BY <1>3, <1>4

\* apply_split, up to the transitions.
LEMMA ApplySplitMatches ==
    ASSUME SplitsInvariant, TableMatches, ApplySplit, UNCHANGED <<setup, cegarVars>>
    PROVE  /\ SplitsInvariant' /\ TableMatches'
           /\ AbstractStates' = AbstractStates \cup {Len(regions) + 1}
           /\ Names' = Names
           /\ \A a \in AbstractStates' :
                  loops'[a] = IF a \in Halves(split)
                              THEN loops[split.state] \ SplitDependentOperators(split.dimension)
                              ELSE loops[a]
<1>. DEFINE s == split.state
            n == Len(regions)
            kept == loops[s] \ SplitDependentOperators(split.dimension)
<1>1. /\ regions' = SplitRegions(split) /\ SplitState(s, kept)
      /\ pending' = {Key(s, o, s) : o \in loops[s]}
      /\ pc = "apply" /\ pc' = "detach" /\ UNCHANGED <<split, task, options, initialSplits, scan, candidates, trace>>
      BY DEF ApplySplit, setup, cegarVars
<1>2. /\ IsSplit(split) /\ regions \in Seq(RegionType) /\ TableInvariant
      /\ TableStates = AbstractStates /\ LiveKeysAreSteps
      /\ \A a \in AbstractStates : loops[a] \subseteq Names
      BY <1>1 DEF SplitsInvariant, TableMatches
<1>3. regions' \in Seq(RegionType) /\ Len(regions') = n + 1
      BY <1>1, <1>2, SplitRegionsFacts
<1>4. n \in Nat \ {0} /\ s \in 1..n /\ AbstractStates = 1..n /\ AbstractStates' = 1..n + 1
      BY <1>2, <1>3 DEF SplitsInvariant, IsSplit, AbstractStates
<1>5. Names' = Names /\ AbstractStates' = AbstractStates \cup {n + 1}
      BY <1>1, <1>4 DEF Names
<1>6. \A k : IsStep(k) => IsStep(k)'
      BY <1>5 DEF IsStep
<1>7. TableInvariant'
      BY <1>1, <1>2, <1>4, SplitKeeps
<1>8. /\ outgoing' = Append(outgoing, {}) /\ loops' = Append([loops EXCEPT ![s] = kept], kept)
      /\ LiveKeys' = LiveKeys /\ tableState' = "removing" /\ removed' = {}
      BY <1>1 DEF SplitState, LiveKeys
<1>9. /\ outgoing \in Seq(SUBSET Nat) /\ loops \in Seq(SUBSET Operators)
      /\ DOMAIN outgoing = 1..n /\ Len(outgoing) = n /\ Len(loops) = n
      BY <1>2, <1>4 DEF TableInvariant, TableTypeOK, TableStates
<1>10. TableStates' = AbstractStates'
       BY <1>4, <1>8, <1>9, AppendProperties DEF TableStates
<1>11. ASSUME NEW a \in 1..n + 1
       PROVE  loops'[a] \subseteq Names /\ loops'[a] = IF a \in {s, n + 1} THEN kept ELSE loops[a]
  <2>. DEFINE moved == [loops EXCEPT ![s] = kept]
  <2>1. kept \in SUBSET Operators /\ kept \subseteq loops[s]
        BY <1>4, <1>9
  <2>. HIDE DEF kept
  <2>2. moved \in Seq(SUBSET Operators) /\ Len(moved) = n
        BY <1>4, <1>9, <2>1, ExceptSeq
  <2>3. \A b \in 1..n : moved[b] = IF b = s THEN kept ELSE loops[b]
        BY <1>4, <1>9
  <2>. HIDE DEF moved
  <2>4. loops'[n + 1] = kept /\ \A b \in 1..n : loops'[b] = moved[b]
        BY <1>8, <2>1, <2>2, AppendProperties DEF moved, kept
  <2>. QED BY <1>2, <1>4, <2>1, <2>3, <2>4
<1>12. ASSUME NEW k \in pending' PROVE k \in Keys /\ IsStep(k)'
  <2>1. PICK o \in loops[s] : k = Key(s, o, s)
        BY <1>1
  <2>2. o \in Names /\ o \in Operators
        BY <1>2, <1>4, <1>9, <2>1
  <2>. QED BY <1>4, <1>5, <2>1, <2>2, KeyFields DEF IsStep
<1>13. SplitsInvariant'
  <2>1. IsSplit(split)' /\ \A sp \in candidates : IsSplit(sp) => IsSplit(sp)'
        BY <1>1, <1>2, <1>5 DEF IsSplit
  <2>. QED BY <1>1, <1>3, <1>4, <1>6, <2>1 DEF SplitsInvariant
<1>14. LiveKeysAreSteps'
       BY <1>2, <1>6, <1>8 DEF LiveKeysAreSteps
<1>. HIDE DEF kept
<1>15. \A a \in AbstractStates' : loops'[a] = IF a \in Halves(split) THEN kept ELSE loops[a]
       BY <1>4, <1>11 DEF Halves
<1>16. TableMatches'
       BY <1>1, <1>3, <1>4, <1>5, <1>7, <1>8, <1>10, <1>11, <1>12, <1>14 DEF TableMatches
<1>. QED BY <1>5, <1>13, <1>15, <1>16 DEF kept

\* The states a transition that left or entered x may leave or enter after the split of s.
Ends(x, s, n) == IF x = s THEN {s, n} ELSE {x}
SplitEnd(k, s) == IF k.source = s THEN "source" ELSE "target"

LEMMA ReplacementMembers ==
    ASSUME NEW rs, NEW s, NEW n, NEW d, NEW keys, NEW parentLoops, NEW j
    PROVE  j \in ReplacementTransitions(rs, s, n, d, keys, parentLoops) <=>
               \/ \E k \in keys : \E x \in Ends(k.source, s, n), y \in Ends(k.target, s, n) :
                      /\ j = Key(x, k.operator, y)
                      /\ MayTransitionAfterSplit(rs[x], k.operator, rs[y], d, SplitEnd(k, s))
               \/ \E x, y \in {s, n} : \E o \in parentLoops \cap SplitDependentOperators(d) :
                      j = Key(x, o, y) /\ MayLoopAfterSplit(rs[x], o, rs[y], d)
<1>. DEFINE children(k) == {Key(x, k.operator, y) : x \in Ends(k.source, s, n), y \in Ends(k.target, s, n)}
            tested(k) == {i \in children(k) :
                             MayTransitionAfterSplit(rs[i.source], i.operator, rs[i.target], d, SplitEnd(k, s))}
            looping == {Key(x, o, y) : x \in {s, n}, y \in {s, n}, o \in parentLoops \cap SplitDependentOperators(d)}
            kept == {i \in looping : MayLoopAfterSplit(rs[i.source], i.operator, rs[i.target], d)}
<1>1. ReplacementTransitions(rs, s, n, d, keys, parentLoops) = (UNION {tested(k) : k \in keys}) \cup kept
      BY DEF ReplacementTransitions, Ends, SplitEnd
<1>2. ASSUME NEW k
      PROVE  j \in tested(k) <=> \E x \in Ends(k.source, s, n), y \in Ends(k.target, s, n) :
                 /\ j = Key(x, k.operator, y)
                 /\ MayTransitionAfterSplit(rs[x], k.operator, rs[y], d, SplitEnd(k, s))
      BY KeyFields
<1>3. j \in kept <=> \E x, y \in {s, n} : \E o \in parentLoops \cap SplitDependentOperators(d) :
          j = Key(x, o, y) /\ MayLoopAfterSplit(rs[x], o, rs[y], d)
      BY KeyFields
<1>4. (\E k \in keys : j \in tested(k)) <=>
          \E k \in keys : \E x \in Ends(k.source, s, n), y \in Ends(k.target, s, n) :
                 /\ j = Key(x, k.operator, y)
                 /\ MayTransitionAfterSplit(rs[x], k.operator, rs[y], d, SplitEnd(k, s))
  <2>. HIDE DEF tested
  <2>. QED BY <1>2
<1>. HIDE DEF tested, kept
<1>5. j \in UNION {tested(k) : k \in keys} <=> \E k \in keys : j \in tested(k)
      OBVIOUS
<1>6. j \in ReplacementTransitions(rs, s, n, d, keys, parentLoops) <=>
          (\E k \in keys : j \in tested(k)) \/ j \in kept
      BY <1>1, <1>5
<1>. QED BY <1>3, <1>4, <1>6

\* The replacement transitions are steps between abstract states.
LEMMA ReplacementsAreSteps ==
    ASSUME NEW rs, NEW s \in AbstractStates, NEW n \in AbstractStates, NEW d,
           NEW keys, \A k \in keys : k \in Keys /\ IsStep(k),
           NEW parentLoops \in SUBSET Names, Names \subseteq Operators, Len(regions) \in Nat,
           NEW j \in ReplacementTransitions(rs, s, n, d, keys, parentLoops)
    PROVE  j \in Keys /\ IsStep(j)
<1>1. AbstractStates \subseteq Nat \ {0}
      BY DEF AbstractStates
<1>2. \A a, b \in AbstractStates : \A o \in Names : Key(a, o, b) \in Keys /\ IsStep(Key(a, o, b))
      BY <1>1, KeyFields DEF IsStep
<1>3. \A x \in AbstractStates : Ends(x, s, n) \subseteq AbstractStates
      BY DEF Ends
<1>4. CASE \E k \in keys : \E x \in Ends(k.source, s, n), y \in Ends(k.target, s, n) : j = Key(x, k.operator, y)
  <2>1. PICK k \in keys : \E x \in Ends(k.source, s, n), y \in Ends(k.target, s, n) : j = Key(x, k.operator, y)
        BY <1>4
  <2>2. k.source \in AbstractStates /\ k.target \in AbstractStates /\ k.operator \in Names
        BY <2>1 DEF IsStep
  <2>. QED BY <1>2, <1>3, <2>1, <2>2
<1>5. CASE \E x, y \in {s, n} : \E o \in parentLoops : j = Key(x, o, y)
      BY <1>2, <1>5
<1>6. \/ \E k \in keys : \E x \in Ends(k.source, s, n), y \in Ends(k.target, s, n) :
             /\ j = Key(x, k.operator, y)
             /\ MayTransitionAfterSplit(rs[x], k.operator, rs[y], d, SplitEnd(k, s))
      \/ \E x, y \in {s, n} : \E o \in parentLoops \cap SplitDependentOperators(d) :
             j = Key(x, o, y) /\ MayLoopAfterSplit(rs[x], o, rs[y], d)
      BY ReplacementMembers
<1>. QED BY <1>4, <1>5, <1>6

\* Taking transitions out, and what is to be put in.
LEMMA DetachMatches ==
    ASSUME SplitsInvariant, TableMatches, Detach, UNCHANGED <<setup, cegarVars>>
    PROVE  SplitsInvariant' /\ TableMatches'
<1>1. /\ pc = "detach" /\ UNCHANGED <<split, regions, hierarchy, task, options, initialSplits, scan, candidates, trace>>
      BY DEF Detach, setup, cegarVars, stateVars
<1>2. /\ IsSplit(split) /\ regions \in Seq(RegionType) /\ TableInvariant /\ tableState = "removing"
      /\ TableStates = AbstractStates /\ LiveKeysAreSteps
      /\ \A a \in AbstractStates : loops[a] \subseteq Names
      /\ \A k \in pending : k \in Keys /\ IsStep(k)
      /\ \A k \in removed : k \in Keys /\ IsStep(k)
      BY <1>1 DEF SplitsInvariant, TableMatches
<1>3. /\ Names' = Names /\ AbstractStates' = AbstractStates
      /\ \A k : IsStep(k)' = IsStep(k)
      /\ \A sp : IsSplit(sp)' = IsSplit(sp)
      BY <1>1 DEF Names, AbstractStates, IsStep, IsSplit
<1>4. SplitsInvariant'
  <2>1. pc' \in {"detach", "attach"}
        BY <1>1 DEF Detach
  <2>. QED BY <1>1, <1>2, <1>3, <2>1 DEF SplitsInvariant
<1>5. CASE RemoveTransition /\ UNCHANGED <<pc, pending>>
  <2>1. PICK i \in incident : /\ ids' = Without(ids, slots[i]) /\ removed' = removed \cup {slots[i]}
                              /\ UNCHANGED <<outgoing, loops, tableState>>
        BY <1>5 DEF RemoveTransition
  <2>2. TableInvariant'
        BY <1>2, <1>5, RemoveKeeps
  <2>3. i \in DOMAIN slots /\ slots[i] \in LiveKeys /\ slots[i] \in Keys
        BY <1>2, <2>1 DEF TableInvariant, TableTypeOK, TableIsConsistent, IndexMatchesSlots
  <2>4. LiveKeys' \subseteq LiveKeys /\ TableStates' = TableStates
        BY <2>1 DEF LiveKeys, Without, TableStates
  <2>5. LiveKeysAreSteps' /\ IsStep(slots[i])
        BY <1>2, <1>3, <2>3, <2>4 DEF LiveKeysAreSteps
  <2>6. \A k \in removed' : k \in Keys /\ IsStep(k)'
        BY <1>2, <1>3, <2>1, <2>3, <2>5
  <2>. QED BY <1>1, <1>2, <1>3, <1>4, <1>5, <2>1, <2>2, <2>4, <2>5, <2>6 DEF TableMatches
<1>6. CASE /\ ForgetRemoved
           /\ pending' = ReplacementTransitions(regions, split.state, Len(regions), split.dimension,
                                                removed, {k.operator : k \in pending})
           /\ pc' = "attach"
  <2>1. TableInvariant' /\ tableState' = "stored" /\ UNCHANGED <<ids, loops>>
        BY <1>2, <1>6, ForgetKeeps DEF ForgetRemoved
  <2>2. TableStates' = TableStates /\ LiveKeys' = LiveKeys
        BY <1>6 DEF ForgetRemoved, TableStates, LiveKeys
  <2>3. LiveKeysAreSteps'
        BY <1>2, <1>3, <2>2 DEF LiveKeysAreSteps
  <2>4. ASSUME NEW j \in pending' PROVE j \in Keys /\ IsStep(j)'
    <3>1. {k.operator : k \in pending} \in SUBSET Names
          BY <1>2 DEF IsStep
    <3>2. split.state \in AbstractStates /\ Len(regions) \in AbstractStates /\ Len(regions) \in Nat
          BY <1>2 DEF IsSplit, AbstractStates, SplitsInvariant
    <3>3. Names \subseteq Operators
          BY TaskFacts DEF SplitsInvariant
    <3>4. j \in ReplacementTransitions(regions, split.state, Len(regions), split.dimension,
                                       removed, {k.operator : k \in pending})
          BY <1>6
    <3>. QED BY <1>2, <1>3, <3>1, <3>2, <3>3, <3>4, ReplacementsAreSteps
  <2>. QED BY <1>1, <1>2, <1>3, <1>4, <1>6, <2>1, <2>2, <2>3, <2>4 DEF TableMatches
<1>. QED BY <1>5, <1>6 DEF Detach

\* Putting one in.
LEMMA AttachMatches ==
    ASSUME SplitsInvariant, TableMatches, Attach, UNCHANGED <<setup, cegarVars>>
    PROVE  SplitsInvariant' /\ TableMatches'
<1>1. /\ pc = "attach" /\ pc' = "attach"
      /\ UNCHANGED <<split, regions, hierarchy, task, options, initialSplits, scan, candidates, trace>>
      BY DEF Attach, setup, cegarVars, stateVars
<1>2. /\ IsSplit(split) /\ regions \in Seq(RegionType) /\ TableInvariant /\ tableState = "stored"
      /\ TableStates = AbstractStates /\ LiveKeysAreSteps
      /\ \A a \in AbstractStates : loops[a] \subseteq Names
      /\ \A k \in pending : k \in Keys /\ IsStep(k)
      BY <1>1 DEF SplitsInvariant, TableMatches
<1>3. /\ Names' = Names /\ AbstractStates' = AbstractStates
      /\ \A k : IsStep(k)' = IsStep(k)
      /\ \A sp : IsSplit(sp)' = IsSplit(sp)
      BY <1>1 DEF Names, AbstractStates, IsStep, IsSplit
<1>4. SplitsInvariant'
      BY <1>1, <1>2, <1>3 DEF SplitsInvariant
<1>5. PICK k \in pending : AddTransition(k) /\ pending' = pending \ {k}
      BY DEF Attach
<1>6. k \in Keys /\ IsStep(k) /\ k.source \in TableStates /\ k.target \in TableStates
      BY <1>2, <1>5 DEF IsStep
<1>7. /\ TableStates' = TableStates /\ tableState' = tableState
      /\ LiveKeys' \subseteq LiveKeys \cup {k}
      /\ \A a \in TableStates : loops'[a] \subseteq loops[a] \cup {k.operator}
      BY <1>2, <1>5, <1>6, AddedIsContained
<1>8. TableInvariant'
  <2>1. k = Key(k.source, k.operator, k.target) /\ k.operator \in Operators
        BY <1>6, KeyFields DEF Keys
  <2>. QED BY <1>2, <1>5, <1>6, <2>1, AddKeeps
<1>9. LiveKeysAreSteps'
      BY <1>2, <1>3, <1>6, <1>7 DEF LiveKeysAreSteps
<1>10. \A a \in AbstractStates' : loops'[a] \subseteq Names'
       BY <1>2, <1>3, <1>6, <1>7 DEF IsStep
<1>. QED BY <1>1, <1>2, <1>3, <1>4, <1>5, <1>7, <1>8, <1>9, <1>10 DEF TableMatches

LEMMA KeepsMatches ==
    ASSUME TableMatches, KeepsAbstraction
    PROVE  TableMatches'
<1>1. UNCHANGED <<table, regions>> /\ Names' = Names /\ AbstractStates' = AbstractStates /\ LiveKeys' = LiveKeys
      BY SplitsStayWell DEF KeepsAbstraction, abstraction, stateVars
<1>2. TableInvariant'
      BY <1>1, StutterKeeps DEF TableMatches
<1>3. TableStates' = TableStates /\ UNCHANGED <<loops, removed, tableState>>
      BY <1>1 DEF TableStates, table
<1>4. LiveKeysAreSteps' /\ \A k : IsStep(k)' = IsStep(k)
      BY <1>1 DEF LiveKeysAreSteps, IsStep, TableMatches
<1>5. CASE UNCHANGED vars
      BY <1>1, <1>2, <1>3, <1>4, <1>5 DEF TableMatches, vars
<1>6. CASE pc # "detach" /\ pc' \notin {"detach", "attach"}
      BY <1>1, <1>2, <1>3, <1>4, <1>6 DEF TableMatches
<1>. QED BY <1>5, <1>6 DEF KeepsAbstraction

-----------------------------------------------------------------------------
(* What every step of the refinement keeps, and what follows. *)

LEMMA InitRefinement == Init => RefinementInvariant
    BY InitSplits, InitTable, InitHierarchy DEF RefinementInvariant

LEMMA RefinementStep == RefinementInvariant /\ [Next]_vars => RefinementInvariant'
<1>. SUFFICES ASSUME RefinementInvariant, [Next]_vars PROVE RefinementInvariant'
     OBVIOUS
<1>1. SplitsInvariant /\ TableMatches /\ HierarchyIsTree /\ StatesDescend
      BY DEF RefinementInvariant
<1>2. Len(regions) \in Nat \ {0} /\ regions \in Seq(RegionType)
      BY <1>1 DEF SplitsInvariant, TableMatches
<1>3. MapsToStates /\ TableTypeOK /\ LiveKeysAreSteps
      BY <1>1, <1>2, DescentMaps DEF TableMatches, TableInvariant
<1>4. ASSUME UNCHANGED stateVars, UNCHANGED task
      PROVE  HierarchyIsTree' /\ StatesDescend'
  <2>1. HierarchyIsTree'
        BY <1>1, <1>4 DEF HierarchyIsTree, HierarchyNodes, NodeCount, AbstractStates, stateVars
  <2>2. \A f, s : Descends(f, s)' = Descends(f, s)
        BY <1>4 DEF Descends, Descent, HierarchyNodes, stateVars
  <2>3. StatesDescend'
        BY <1>1, <1>4, <2>2 DEF StatesDescend, AbstractStates, stateVars
  <2>. QED BY <2>1, <2>3
<1>5. CASE (ApplySplit \/ Detach \/ Attach) /\ UNCHANGED <<setup, cegarVars>>
  <2>1. UNCHANGED task
        BY <1>5 DEF setup
  <2>2. CASE ApplySplit
    <3>1. SplitsInvariant' /\ TableMatches'
          BY <1>1, <1>5, <2>2, ApplySplitMatches
    <3>2. IsSplit(split) /\ regions' = SplitRegions(split) /\ hierarchy' = SplitHierarchy(split)
          BY <1>1, <2>2 DEF ApplySplit, SplitsInvariant
    <3>3. Len(regions') = Len(regions) + 1
          BY <1>2, <3>2, SplitRegionsFacts
    <3>. QED BY <1>1, <1>2, <2>1, <3>1, <3>2, <3>3, SplitKeepsTree, SplitKeepsDescent
             DEF RefinementInvariant
  <2>3. CASE Detach
    <3>1. UNCHANGED stateVars
          BY <2>3 DEF Detach
    <3>. QED BY <1>1, <1>4, <1>5, <2>1, <2>3, <3>1, DetachMatches DEF RefinementInvariant
  <2>4. CASE Attach
    <3>1. UNCHANGED stateVars
          BY <2>4 DEF Attach
    <3>. QED BY <1>1, <1>4, <1>5, <2>1, <2>4, <3>1, AttachMatches DEF RefinementInvariant
  <2>. QED BY <1>5, <2>2, <2>3, <2>4
<1>6. CASE ~ ((ApplySplit \/ Detach \/ Attach) /\ UNCHANGED <<setup, cegarVars>>)
  <2>1. KeepsAbstraction
        BY <1>6, StepCases
  <2>2. SplitsInvariant'
        BY <1>1, <1>3, <1>6, SplitsStep
  <2>3. TableMatches'
        BY <1>1, <2>1, KeepsMatches
  <2>4. UNCHANGED stateVars /\ UNCHANGED task
        BY <2>1 DEF KeepsAbstraction, abstraction, setup
  <2>. QED BY <1>4, <2>2, <2>3, <2>4 DEF RefinementInvariant
<1>. QED BY <1>5, <1>6

\* CartesianRefinementHierarchy: after any number of splits, of whatever task, following
\* the splits from the root leads every concrete state to the abstract state whose region
\* it is in, the only one.
THEOREM StatesAreMappedAlways == Spec => []StatesAreMapped
<1>1. Init => RefinementInvariant
      BY InitRefinement
<1>2. RefinementInvariant /\ [Next]_vars => RefinementInvariant'
      BY RefinementStep
<1>3. RefinementInvariant => StatesAreMapped
  <2>. SUFFICES ASSUME RefinementInvariant, NEW s \in States
                PROVE  {a \in AbstractStates : InRegion(s, regions[a])} = {MapState(s)}
       BY DEF StatesAreMapped
  <2>1. /\ MapState(s) \in AbstractStates
        /\ \A a \in AbstractStates : InRegion(s, regions[a]) <=> a = MapState(s)
        BY DescentMaps DEF RefinementInvariant, SplitsInvariant, MapsToStates
  <2>. QED BY <2>1
<1>. QED BY <1>1, <1>2, <1>3, PTL DEF Spec

\* The refinement uses its transition table as TransitionTable says it may be used.
THEOREM CegarImplementsTable == Spec => TableSpec
<1>1. Init => RefinementInvariant /\ TableInit
      BY InitRefinement, InitTable
<1>2. RefinementInvariant /\ [Next]_vars => RefinementInvariant' /\ [TableNext]_table
      BY RefinementStep, StepIsTableStep DEF RefinementInvariant
<1>. QED BY <1>1, <1>2, PTL DEF Spec, TableSpec

\* So its slots, index and lists agree in every state of a refinement.
THEOREM CegarTableIsConsistent == Spec => []TableIsConsistent
    BY CegarImplementsTable, TableStaysConsistent, PTL

-----------------------------------------------------------------------------
(***************************************************************************)
(* The transitions.  Between two splits they are those the operators may   *)
(* take between the regions.  While the transitions of a split state are   *)
(* taken out, that holds of the regions before the split and of the live   *)
(* and removed transitions together; while others are put in, it holds of  *)
(* the regions after it, of the live and the pending ones.                 *)
(***************************************************************************)

\* The regions before the split that is being applied.
Older == [a \in 1..Len(regions) - 1 |->
             IF a = split.state
             THEN [regions[a] EXCEPT ![split.dimension] = @ \cup regions[Len(regions)][split.dimension]]
             ELSE regions[a]]

HalvesDiffer ==
    /\ split.state \in 1..Len(regions) - 1
    /\ regions[split.state][split.dimension] # {}
    /\ regions[Len(regions)][split.dimension] # {}
    /\ regions[split.state][split.dimension] \cap regions[Len(regions)][split.dimension] = {}
    /\ \A e \in Dimensions : e # split.dimension => regions[Len(regions)][e] = regions[split.state][e]

ParentsAreExact ==
    /\ \A a, b \in 1..Len(regions) - 1 : \A o \in Names :
           a # b => (Key(a, o, b) \in LiveKeys \cup removed <=> MayTransition(Older[a], o, Older[b]))
    /\ \A a \in 1..Len(regions) - 1 : \A o \in Names :
           a # split.state => (o \in loops[a] <=> MayTransition(Older[a], o, Older[a]))
    /\ \A o \in Names :
           Key(split.state, o, split.state) \in pending
               <=> MayTransition(Older[split.state], o, Older[split.state])
    /\ \A k \in pending : k.source = split.state /\ k.target = split.state
    /\ \A x \in {split.state, Len(regions)} : \A o \in Names :
           o \in loops[x]
               <=> Key(split.state, o, split.state) \in pending /\ ~ DependsOnSplit(o, split.dimension)

RemovalIsLocal ==
    /\ \A k \in LiveKeys \cup removed :
           k.source \in 1..Len(regions) - 1 /\ k.target \in 1..Len(regions) - 1 /\ k.source # k.target
    /\ \A k \in removed : split.state \in {k.source, k.target}
    /\ \A k \in LiveKeys : split.state \in {k.source, k.target} => ids[k] \in incident
    /\ \A i \in incident : split.state \in {slots[i].source, slots[i].target}

StoredAreAllowed ==
    \A a, b \in AbstractStates : \A o \in Names :
        ContainsTransition(Key(a, o, b)) <=> MayTransition(regions[a], o, regions[b])

StoredOrPendingAreAllowed ==
    \A a, b \in AbstractStates : \A o \in Names :
        ContainsTransition(Key(a, o, b)) \/ Key(a, o, b) \in pending
            <=> MayTransition(regions[a], o, regions[b])

TransitionsInvariant ==
    /\ pc \notin {"detach", "attach"} => StoredAreAllowed
    /\ pc = "detach" => HalvesDiffer /\ ParentsAreExact /\ RemovalIsLocal
    /\ pc = "attach" => StoredOrPendingAreAllowed

-----------------------------------------------------------------------------
(* What an operator may do after a split *)

LEMMA AdmitsIsMonotone ==
    ASSUME NEW f, IsFact(f), NEW r, NEW r1, \A e \in Dimensions : r1[e] \subseteq r[e], Admits(r1, f)
    PROVE  Admits(r, f)
    BY DEF Admits, IsFact

LEMMA AdmitsWithoutSplit ==
    ASSUME NEW f, IsFact(f), NEW d, d \notin f.dims, NEW r, NEW r1,
           \A e \in Dimensions : e # d => r1[e] = r[e], Admits(r, f)
    PROVE  Admits(r1, f)
    BY DEF Admits, IsFact

\* A transition from parent regions r and t is one between the regions r1 and t1 that a
\* split along d made of them if the tests that involve d still hold.
LEMMA TestsOfSplitSuffice ==
    ASSUME task \in Tasks, NEW o \in Names, NEW d \in Dimensions,
           NEW r, NEW r1, NEW t, NEW t1,
           \A e \in Dimensions : e # d => r1[e] = r[e] /\ t1[e] = t[e],
           r1[d] \subseteq r[d], t1[d] \subseteq t[d]
    PROVE  MayTransition(r1, o, t1) <=> /\ MayTransition(r, o, t)
                                        /\ MayApplyAfterSplit(r1, o, d)
                                        /\ DimensionMayTransition(r1, o, t1, d)
<1>1. \A f \in Pre(o) : IsFact(f)
      BY TaskFacts
<1>2. \A e \in Dimensions : r1[e] \subseteq r[e] /\ t1[e] \subseteq t[e]
      OBVIOUS
<1>3. OperatorMayApply(r1, o) <=> OperatorMayApply(r, o) /\ MayApplyAfterSplit(r1, o, d)
  <2>1. ASSUME NEW f \in Pre(o), Admits(r1, f) PROVE Admits(r, f)
        BY <1>1, <1>2, <2>1, AdmitsIsMonotone
  <2>2. ASSUME NEW f \in Pre(o), Admits(r, f), d \notin f.dims PROVE Admits(r1, f)
        BY <1>1, <2>2, AdmitsWithoutSplit
  <2>. QED BY <2>1, <2>2 DEF OperatorMayApply, MayApplyAfterSplit
<1>4. \A e \in Dimensions : DimensionMayTransition(r1, o, t1, e) => DimensionMayTransition(r, o, t, e)
      BY <1>2 DEF DimensionMayTransition
<1>5. \A e \in Dimensions : e # d =>
          (DimensionMayTransition(r1, o, t1, e) <=> DimensionMayTransition(r, o, t, e))
      BY DEF DimensionMayTransition
<1>. QED BY <1>3, <1>4, <1>5 DEF MayTransition

\* An operator that does not depend on the split leaves its dimension alone.
LEMMA IndependentOfSplit ==
    ASSUME NEW o, NEW d, ~ DependsOnSplit(o, d), NEW r, NEW t
    PROVE  /\ DimensionMayTransition(r, o, t, d) <=> r[d] \cap t[d] # {}
           /\ MayApplyAfterSplit(r, o, d)
<1>1. d \notin Written(o) /\ \A f \in Pre(o) : d \notin f.dims
      BY DEF DependsOnSplit
<1>2. PrevailValues(o, d) = {}
      BY <1>1 DEF PrevailValues
<1>3. \A v : Image(o, d, v) = v
      BY <1>1 DEF Image
<1>. QED BY <1>1, <1>2, <1>3 DEF DimensionMayTransition, MayApplyAfterSplit

\* The same for the tests of replacement_transitions: of transitions that leave or enter
\* the split state, and of its loops.
LEMMA ReplacementTests ==
    ASSUME task \in Tasks, NEW o \in Names, NEW d \in Dimensions,
           NEW r, NEW r1, NEW t, NEW t1,
           \A e \in Dimensions : e # d => r1[e] = r[e] /\ t1[e] = t[e],
           r1[d] \subseteq r[d], t1[d] \subseteq t[d]
    PROVE  /\ t1 = t => (MayTransition(r1, o, t1)
                             <=> MayTransition(r, o, t) /\ MayTransitionAfterSplit(r1, o, t1, d, "source"))
           /\ r1 = r => (MayTransition(r1, o, t1)
                             <=> MayTransition(r, o, t) /\ MayTransitionAfterSplit(r1, o, t1, d, "target"))
           /\ DependsOnSplit(o, d) =>
                  (MayTransition(r1, o, t1) <=> MayTransition(r, o, t) /\ MayLoopAfterSplit(r1, o, t1, d))
           /\ ~ DependsOnSplit(o, d) =>
                  (MayTransition(r1, o, t1) <=> MayTransition(r, o, t) /\ r1[d] \cap t1[d] # {})
<1>1. MayTransition(r1, o, t1) <=> /\ MayTransition(r, o, t)
                                   /\ MayApplyAfterSplit(r1, o, d)
                                   /\ DimensionMayTransition(r1, o, t1, d)
      BY TestsOfSplitSuffice
<1>2. MayTransition(r, o, t) => MayApplyAfterSplit(r, o, d)
      BY DEF MayTransition, OperatorMayApply, MayApplyAfterSplit
<1>3. CASE DependsOnSplit(o, d)
      BY <1>1, <1>2, <1>3 DEF MayTransitionAfterSplit, MayLoopAfterSplit
<1>4. CASE ~ DependsOnSplit(o, d)
      BY <1>1, <1>4, IndependentOfSplit DEF MayTransitionAfterSplit
<1>. QED BY <1>3, <1>4

\* The transitions that stay and those that replace the removed ones are together those
\* that the operators may take between the regions after the split.
LEMMA ReplacementsAreAllowed ==
    ASSUME task \in Tasks, regions \in Seq(RegionType), IsSplit(split), TableInvariant,
           HalvesDiffer, ParentsAreExact, RemovalIsLocal, incident = {}, pending \subseteq Keys,
           NEW a \in 1..Len(regions), NEW b \in 1..Len(regions), NEW o \in Names
    PROVE  ContainsTransition(Key(a, o, b))
               \/ Key(a, o, b) \in ReplacementTransitions(regions, split.state, Len(regions), split.dimension,
                                                          removed, {k.operator : k \in pending})
           <=> MayTransition(regions[a], o, regions[b])
<1>. DEFINE s == split.state
            n == Len(regions)
            d == split.dimension
            halves == {s, n}
            old(x) == IF x = n THEN s ELSE x
            L == {k.operator : k \in pending}
            R == ReplacementTransitions(regions, s, n, d, removed, L)
            dependent == DependsOnSplit(o, d)
            wasAllowed == MayTransition(Older[old(a)], o, Older[old(b)])
            isAllowed == MayTransition(regions[a], o, regions[b])
<1>1. /\ n \in Nat /\ s \in 1..n - 1 /\ s # n /\ n - 1 \in Nat /\ d \in Dimensions
      /\ \A x \in 1..n : regions[x] \in RegionType /\ old(x) \in 1..n - 1
      BY DEF HalvesDiffer, IsSplit
<1>2. ASSUME NEW x \in 1..n
      PROVE  /\ \A e \in Dimensions : e # d => regions[x][e] = Older[old(x)][e]
             /\ regions[x][d] \subseteq Older[old(x)][d]
             /\ x \notin halves => Older[old(x)] = regions[x]
  <2>1. CASE x \in halves
    <3>1. Older[old(x)] = [regions[s] EXCEPT ![d] = @ \cup regions[n][d]]
          BY <1>1, <2>1 DEF Older
    <3>2. /\ Older[old(x)][d] = regions[s][d] \cup regions[n][d]
          /\ \A e \in Dimensions : e # d => Older[old(x)][e] = regions[s][e]
          BY <1>1, <3>1 DEF RegionType
    <3>. QED BY <2>1, <3>2 DEF HalvesDiffer
  <2>2. CASE x \notin halves
    <3>1. Older[old(x)] = regions[x]
          BY <1>1, <2>2 DEF Older
    <3>. QED BY <2>2, <3>1
  <2>. QED BY <2>1, <2>2
<1>3. /\ b \notin halves => (isAllowed <=> wasAllowed /\ MayTransitionAfterSplit(regions[a], o, regions[b], d, "source"))
      /\ a \notin halves => (isAllowed <=> wasAllowed /\ MayTransitionAfterSplit(regions[a], o, regions[b], d, "target"))
      /\ dependent => (isAllowed <=> wasAllowed /\ MayLoopAfterSplit(regions[a], o, regions[b], d))
      /\ ~ dependent => (isAllowed <=> wasAllowed /\ regions[a][d] \cap regions[b][d] # {})
  <2>. DEFINE r == Older[old(a)]
              t == Older[old(b)]
              r1 == regions[a]
              t1 == regions[b]
  <2>1. /\ \A e \in Dimensions : e # d => r1[e] = r[e] /\ t1[e] = t[e]
        /\ r1[d] \subseteq r[d] /\ t1[d] \subseteq t[d]
        /\ a \notin halves => r1 = r
        /\ b \notin halves => t1 = t
        BY <1>2
  <2>. HIDE DEF r, t, r1, t1
  <2>2. /\ t1 = t => (MayTransition(r1, o, t1)
                          <=> MayTransition(r, o, t) /\ MayTransitionAfterSplit(r1, o, t1, d, "source"))
        /\ r1 = r => (MayTransition(r1, o, t1)
                          <=> MayTransition(r, o, t) /\ MayTransitionAfterSplit(r1, o, t1, d, "target"))
        /\ dependent => (MayTransition(r1, o, t1) <=> MayTransition(r, o, t) /\ MayLoopAfterSplit(r1, o, t1, d))
        /\ ~ dependent => (MayTransition(r1, o, t1) <=> MayTransition(r, o, t) /\ r1[d] \cap t1[d] # {})
        BY <1>1, <2>1, ReplacementTests
  <2>. QED BY <2>1, <2>2 DEF r, t, r1, t1
<1>4. ContainsTransition(Key(a, o, b)) <=> IF a = b THEN o \in loops[a] ELSE Key(a, o, b) \in LiveKeys
      BY KeyFields DEF ContainsTransition
\* What is replaced.
<1>5. /\ \A k \in removed : k = Key(k.source, k.operator, k.target)
      /\ \A k \in removed : /\ k.source \in 1..n - 1 /\ k.target \in 1..n - 1 /\ k.source # k.target
                            /\ k.source = s \/ k.target = s
  <2>1. removed \subseteq Keys
        BY DEF TableInvariant, TableTypeOK
  <2>. QED BY <2>1, KeyFields DEF RemovalIsLocal
<1>6. \A k \in LiveKeys : k.source \in 1..n - 1 \ {s} /\ k.target \in 1..n - 1 \ {s}
      BY DEF RemovalIsLocal
<1>7. o \in L <=> Key(s, o, s) \in pending
  <2>1. \A k \in pending : k = Key(s, k.operator, s)
        BY KeyFields DEF ParentsAreExact
  <2>. QED BY <2>1, KeyFields
<1>8. Key(a, o, b) \in R <=>
          \/ \E k \in removed : /\ k.operator = o /\ a \in Ends(k.source, s, n) /\ b \in Ends(k.target, s, n)
                                /\ MayTransitionAfterSplit(regions[a], o, regions[b], d, SplitEnd(k, s))
          \/ a \in halves /\ b \in halves /\ o \in L /\ dependent /\ MayLoopAfterSplit(regions[a], o, regions[b], d)
  <2>1. \A x, p, y : Key(a, o, b) = Key(x, p, y) <=> x = a /\ p = o /\ y = b
        BY KeyFields
  <2>2. o \in SplitDependentOperators(d) <=> dependent
        BY DEF SplitDependentOperators
  <2>3. (\E k \in removed : \E x \in Ends(k.source, s, n), y \in Ends(k.target, s, n) :
            /\ Key(a, o, b) = Key(x, k.operator, y)
            /\ MayTransitionAfterSplit(regions[x], k.operator, regions[y], d, SplitEnd(k, s)))
        <=> \E k \in removed : /\ k.operator = o /\ a \in Ends(k.source, s, n) /\ b \in Ends(k.target, s, n)
                               /\ MayTransitionAfterSplit(regions[a], o, regions[b], d, SplitEnd(k, s))
        BY <2>1
  <2>4. (\E x, y \in halves : \E p \in L \cap SplitDependentOperators(d) :
            Key(a, o, b) = Key(x, p, y) /\ MayLoopAfterSplit(regions[x], p, regions[y], d))
        <=> a \in halves /\ b \in halves /\ o \in L /\ dependent /\ MayLoopAfterSplit(regions[a], o, regions[b], d)
        BY <2>1, <2>2
  <2>. HIDE DEF L, dependent
  <2>. QED BY <2>3, <2>4, ReplacementMembers
<1>. HIDE DEF R, L, isAllowed, dependent
<1>9. CASE a \notin halves /\ b \notin halves
  <2>1. Key(a, o, b) \notin R
        BY <1>5, <1>8, <1>9 DEF Ends
  <2>2. a \in 1..n - 1 /\ b \in 1..n - 1 /\ Older[a] = regions[a] /\ Older[b] = regions[b]
        BY <1>1, <1>2, <1>9
  <2>3. Key(a, o, b) \notin removed
        BY <1>5, <1>9, KeyFields
  <2>4. a # b => (Key(a, o, b) \in LiveKeys <=> isAllowed)
        BY <2>2, <2>3 DEF ParentsAreExact, isAllowed
  <2>5. a # s
        BY <1>9
  <2>6. a = b => (o \in loops[a] <=> isAllowed)
        BY <2>2, <2>5 DEF ParentsAreExact, isAllowed
  <2>. QED BY <1>4, <2>1, <2>4, <2>6 DEF R, isAllowed, L
<1>10. CASE a \in halves /\ b \notin halves
  <2>1. a # b /\ Key(a, o, b) \notin LiveKeys /\ ~ ContainsTransition(Key(a, o, b))
        BY <1>1, <1>4, <1>6, <1>10, KeyFields
  <2>2. b \in 1..n - 1 /\ old(a) = s /\ old(b) = b /\ s # b
        BY <1>1, <1>10
  <2>3. Key(s, o, b) \in removed <=> wasAllowed
    <3>1. Key(s, o, b) \notin LiveKeys
          BY <1>6, KeyFields
    <3>. QED BY <1>1, <2>2, <3>1 DEF ParentsAreExact
  <2>4. Key(a, o, b) \in R
            <=> Key(s, o, b) \in removed /\ MayTransitionAfterSplit(regions[a], o, regions[b], d, "source")
    <3>1. ASSUME NEW k \in removed, k.operator = o, a \in Ends(k.source, s, n), b \in Ends(k.target, s, n)
          PROVE  k = Key(s, o, b) /\ SplitEnd(k, s) = "source"
          BY <1>1, <1>5, <1>10, <3>1 DEF Ends, SplitEnd
    <3>2. ASSUME Key(s, o, b) \in removed
          PROVE  \E k \in removed : /\ k.operator = o /\ a \in Ends(k.source, s, n) /\ b \in Ends(k.target, s, n)
                                    /\ SplitEnd(k, s) = "source"
          BY <1>10, <2>2, <3>2, KeyFields DEF Ends, SplitEnd
    <3>. QED BY <1>8, <1>10, <3>1, <3>2
  <2>. QED BY <1>3, <1>10, <2>1, <2>3, <2>4 DEF R, isAllowed, L
<1>11. CASE a \notin halves /\ b \in halves
  <2>1. a # b /\ Key(a, o, b) \notin LiveKeys /\ ~ ContainsTransition(Key(a, o, b))
        BY <1>1, <1>4, <1>6, <1>11, KeyFields
  <2>2. a \in 1..n - 1 /\ old(b) = s /\ old(a) = a /\ s # a
        BY <1>1, <1>11
  <2>3. Key(a, o, s) \in removed <=> wasAllowed
    <3>1. Key(a, o, s) \notin LiveKeys
          BY <1>6, KeyFields
    <3>. QED BY <1>1, <2>2, <3>1 DEF ParentsAreExact
  <2>4. Key(a, o, b) \in R
            <=> Key(a, o, s) \in removed /\ MayTransitionAfterSplit(regions[a], o, regions[b], d, "target")
    <3>1. ASSUME NEW k \in removed, k.operator = o, a \in Ends(k.source, s, n), b \in Ends(k.target, s, n)
          PROVE  k = Key(a, o, s) /\ SplitEnd(k, s) = "target"
          BY <1>1, <1>5, <1>11, <3>1 DEF Ends, SplitEnd
    <3>2. ASSUME Key(a, o, s) \in removed
          PROVE  \E k \in removed : /\ k.operator = o /\ a \in Ends(k.source, s, n) /\ b \in Ends(k.target, s, n)
                                    /\ SplitEnd(k, s) = "target"
          BY <1>11, <2>2, <3>2, KeyFields DEF Ends, SplitEnd
    <3>. QED BY <1>8, <1>11, <3>1, <3>2
  <2>. QED BY <1>3, <1>11, <2>1, <2>3, <2>4 DEF R, isAllowed, L
<1>12. CASE a \in halves /\ b \in halves
  <2>1. old(a) = s /\ old(b) = s /\ (wasAllowed <=> o \in L)
        BY <1>1, <1>7, <1>12 DEF ParentsAreExact
  <2>2. \A k \in removed : ~ (a \in Ends(k.source, s, n) /\ b \in Ends(k.target, s, n))
        BY <1>1, <1>5, <1>12 DEF Ends
  <2>3. Key(a, o, b) \in R <=> o \in L /\ dependent /\ MayLoopAfterSplit(regions[a], o, regions[b], d)
        BY <1>8, <1>12, <2>2
  <2>4. a # b => ~ ContainsTransition(Key(a, o, b))
        BY <1>1, <1>4, <1>6, <1>12, KeyFields
  <2>5. a = b => (ContainsTransition(Key(a, o, b)) <=> o \in L /\ ~ dependent)
        BY <1>4, <1>7, <1>12 DEF ParentsAreExact, dependent
  <2>6. regions[a][d] \cap regions[b][d] # {} <=> a = b
        BY <1>12 DEF HalvesDiffer
  <2>7. CASE dependent
        BY <1>3, <2>1, <2>3, <2>4, <2>5, <2>7 DEF R, isAllowed, L
  <2>8. CASE ~ dependent
        BY <1>3, <2>1, <2>3, <2>4, <2>5, <2>6, <2>8 DEF R, isAllowed, L
  <2>. QED BY <2>7, <2>8
<1>. QED BY <1>9, <1>10, <1>11, <1>12

-----------------------------------------------------------------------------
(* The transitions along the steps of a refinement *)

LEMMA MayTransitionStays ==
    ASSUME UNCHANGED task
    PROVE  /\ \A r, o, t : MayTransition(r, o, t)' = MayTransition(r, o, t)
           /\ \A o, d : DependsOnSplit(o, d)' = DependsOnSplit(o, d)
<1>1. \A r, o, t : MayTransition(r, o, t)' = MayTransition(r, o, t)
      BY DEF MayTransition, OperatorMayApply, DimensionMayTransition, PrevailValues, Pre, Image, Written, Effects
<1>2. \A o, d : DependsOnSplit(o, d)' = DependsOnSplit(o, d)
      BY DEF DependsOnSplit, Pre, Written, Effects
<1>. QED BY <1>1, <1>2

LEMMA InitTransitions == Init => TransitionsInvariant
<1>. SUFFICES ASSUME Init PROVE StoredAreAllowed /\ pc = "initial"
     BY DEF TransitionsInvariant
<1>1. /\ pc = "initial" /\ Len(regions) = 1 /\ regions[1] = TrivialRegion
      /\ loops[1] = {o \in Names : MayTransition(TrivialRegion, o, TrivialRegion)}
      BY DEF Init
<1>2. AbstractStates = {1}
      BY <1>1 DEF AbstractStates
<1>3. \A o \in Names : ContainsTransition(Key(1, o, 1)) <=> o \in loops[1]
      BY KeyFields DEF ContainsTransition
<1>. QED BY <1>1, <1>2, <1>3 DEF StoredAreAllowed

\* A split begins where the transitions are exact.
LEMMA ApplySplitTransitions ==
    ASSUME RefinementInvariant, StoredAreAllowed, ApplySplit, UNCHANGED <<setup, cegarVars>>
    PROVE  HalvesDiffer' /\ ParentsAreExact' /\ RemovalIsLocal'
<1>. DEFINE s == split.state
            n == Len(regions)
            d == split.dimension
            kept == loops[s] \ SplitDependentOperators(d)
<1>1. /\ SplitsInvariant /\ TableMatches /\ pc = "apply" /\ IsStrict(split)
      /\ regions' = SplitRegions(split) /\ SplitState(s, kept)
      /\ pending' = {Key(s, o, s) : o \in loops[s]} /\ UNCHANGED <<split, task>>
      BY DEF ApplySplit, RefinementInvariant, setup
<1>2. /\ IsSplit(split) /\ regions \in Seq(RegionType) /\ n \in Nat \ {0} /\ s \in 1..n /\ d \in Dimensions
      /\ TableInvariant /\ AbstractStates = 1..n /\ TableStates = 1..n /\ LiveKeysAreSteps
      BY <1>1 DEF SplitsInvariant, TableMatches, IsSplit, AbstractStates
<1>3. /\ regions' \in Seq(RegionType) /\ Len(regions') = n + 1
      /\ \A a \in 1..n : a # s => regions'[a] = regions[a]
      /\ \A x \in {s, n + 1} : \A e \in Dimensions : e # d => regions'[x][e] = regions[s][e]
      /\ \A x \in {s, n + 1} : \A v : v \in regions'[x][d] <=> v \in regions[s][d] /\ Half(split, v) = x
  <2>. DEFINE r == SplitRegions(split)
  <2>1. IsSplit(split) /\ regions \in Seq(RegionType)
        BY <1>2
  <2>2. /\ r \in Seq(RegionType) /\ Len(r) = Len(regions) + 1
        /\ \A a \in AbstractStates : a # split.state => r[a] = regions[a]
        /\ \A x \in Halves(split) : \A e \in Dimensions :
               e # split.dimension => r[x][e] = regions[split.state][e]
        /\ \A x \in Halves(split) : \A v :
               v \in r[x][split.dimension]
                   <=> v \in regions[split.state][split.dimension] /\ Half(split, v) = x
        BY <2>1, SplitRegionsFacts
  <2>3. regions' = r
        BY <1>1
  <2>. HIDE DEF r
  <2>4. Halves(split) = {s, n + 1}
        BY DEF Halves
  <2>. QED BY <1>2, <2>2, <2>3, <2>4
<1>4. /\ LiveKeys' = LiveKeys /\ removed' = {} /\ UNCHANGED <<slots, ids>> /\ incident' = IncidentSlots(s)
      BY <1>1 DEF SplitState, LiveKeys
<1>5. /\ Names' = Names
      /\ \A a \in 1..n + 1 : loops'[a] = IF a \in {s, n + 1} THEN kept ELSE loops[a]
  <2>1. AbstractStates' = 1..n + 1
        BY <1>2, <1>3 DEF AbstractStates
  <2>. QED BY <1>1, <2>1, ApplySplitMatches DEF Halves
<1>. HIDE DEF kept
<1>6. HalvesDiffer'
  <2>1. regions'[s][d] # {} /\ regions'[n + 1][d] # {}
    <3>1. PICK v \in regions[s][d] : v \in split.first
          BY <1>1 DEF IsStrict, First
    <3>2. PICK w \in regions[s][d] : w \notin split.first
          BY <1>1 DEF IsStrict, Second
    <3>3. {Half(split, v), Half(split, w)} = {s, n + 1}
      <4>1. CASE WitnessIsFirst(split)
            BY <3>1, <3>2, <4>1 DEF Half
      <4>2. CASE ~ WitnessIsFirst(split)
        <5>1. \A x : ((x \in split.first) = WitnessIsFirst(split)) <=> x \notin split.first
              BY <4>2 DEF WitnessIsFirst
        <5>. QED BY <3>1, <3>2, <5>1 DEF Half
      <4>. QED BY <4>1, <4>2
    <3>4. ASSUME NEW x \in {s, n + 1} PROVE regions'[x][d] # {}
      <4>1. CASE Half(split, v) = x
            BY <1>3, <3>1, <4>1
      <4>2. CASE Half(split, w) = x
            BY <1>3, <3>2, <4>2
      <4>. QED BY <3>3, <4>1, <4>2
    <3>. QED BY <3>4
  <2>2. regions'[s][d] \cap regions'[n + 1][d] = {}
        BY <1>2, <1>3
  <2>3. s \in 1..(n + 1) - 1
        BY <1>2
  <2>. QED BY <1>1, <1>3, <2>1, <2>2, <2>3 DEF HalvesDiffer
<1>7. \A a \in 1..n : Older'[a] = regions[a]
  <2>1. Older' = [a \in 1..n |-> IF a = s THEN [regions'[a] EXCEPT ![d] = @ \cup regions'[n + 1][d]]
                                          ELSE regions'[a]]
        BY <1>1, <1>2, <1>3 DEF Older
  <2>2. [regions'[s] EXCEPT ![d] = @ \cup regions'[n + 1][d]] = regions[s]
    <3>1. regions'[s] \in RegionType /\ regions[s] \in RegionType
          BY <1>2, <1>3
    <3>2. regions'[s][d] \cup regions'[n + 1][d] = regions[s][d]
      <4>1. \A v : Half(split, v) \in {s, n + 1}
            BY DEF Half
      <4>. QED BY <1>3, <4>1
    <3>. QED BY <1>2, <1>3, <3>1, <3>2 DEF RegionType
  <2>. QED BY <1>2, <1>3, <2>1, <2>2
<1>8. ASSUME NEW a \in 1..n, NEW b \in 1..n, NEW o \in Names
      PROVE  /\ MayTransition(Older[a], o, Older[b])' <=> MayTransition(regions[a], o, regions[b])
             /\ (IF a = b THEN o \in loops[a] ELSE Key(a, o, b) \in LiveKeys)
                    <=> MayTransition(regions[a], o, regions[b])
  <2>1. MayTransition(Older[a], o, Older[b])' <=> MayTransition(regions[a], o, regions[b])
        BY <1>1, <1>7, MayTransitionStays
  <2>2. ContainsTransition(Key(a, o, b)) <=> IF a = b THEN o \in loops[a] ELSE Key(a, o, b) \in LiveKeys
        BY KeyFields DEF ContainsTransition
  <2>. QED BY <1>2, <2>1, <2>2 DEF StoredAreAllowed
<1>9. ParentsAreExact'
  <2>1. \A o : Key(s, o, s) \in pending' <=> o \in loops[s]
        BY <1>1, KeyFields
  <2>2. \A k \in pending' : k.source = s /\ k.target = s
        BY <1>1, KeyFields
  <2>3. \A x \in {s, n + 1} : \A o \in Names :
           o \in loops'[x] <=> Key(s, o, s) \in pending' /\ ~ DependsOnSplit(o, d)
    <3>1. \A x \in {s, n + 1} : loops'[x] = kept
          BY <1>2, <1>5
    <3>2. \A o \in Names : o \in kept <=> o \in loops[s] /\ ~ DependsOnSplit(o, d)
          BY DEF kept, SplitDependentOperators
    <3>. QED BY <2>1, <3>1, <3>2
  <2>4. \A x \in {s, n + 1} : \A o \in Names :
           o \in loops'[x] <=> Key(s, o, s) \in pending' /\ ~ DependsOnSplit(o, d)'
        BY <1>1, <2>3, MayTransitionStays
  <2>5. \A a \in 1..n : a # s => loops'[a] = loops[a]
        BY <1>2, <1>5
  <2>6. (n + 1) - 1 = n
        BY <1>2
  <2>7. \A a, b \in 1..n : \A o \in Names :
            a # b => (Key(a, o, b) \in LiveKeys' \cup removed' <=> MayTransition(Older[a], o, Older[b])')
        BY <1>4, <1>8
  <2>8. \A a \in 1..n : \A o \in Names :
            a # s => (o \in loops'[a] <=> MayTransition(Older[a], o, Older[a])')
        BY <1>8, <2>5
  <2>9. \A o \in Names : Key(s, o, s) \in pending' <=> MayTransition(Older[s], o, Older[s])'
        BY <1>1, <1>2, <1>8, <2>1
  <2>. QED BY <1>1, <1>3, <1>5, <2>2, <2>4, <2>6, <2>7, <2>8, <2>9 DEF ParentsAreExact
<1>10. RemovalIsLocal'
  <2>1. \A k \in LiveKeys : k.source \in 1..n /\ k.target \in 1..n /\ k.source # k.target
        BY <1>2 DEF LiveKeysAreSteps, IsStep, TableInvariant, TableIsConsistent, IndexMatchesSlots
  <2>2. ASSUME NEW k \in LiveKeys, s \in {k.source, k.target} PROVE ids[k] \in IncidentSlots(s)
    <3>1. ids[k] \in DOMAIN slots /\ slots[ids[k]] = k
          BY <1>2 DEF TableInvariant, TableIsConsistent, IndexMatchesSlots
    <3>. QED BY <1>2, <2>2, <3>1 DEF TableInvariant, TableIsConsistent, ListsMatchSlots, Occupied, IncidentSlots
  <2>3. ASSUME NEW i \in IncidentSlots(s) PROVE s \in {slots[i].source, slots[i].target}
    <3>1. outgoing[s] \subseteq DOMAIN slots /\ incoming[s] \subseteq DOMAIN slots
          BY <1>1, <1>2 DEF TableInvariant, TableIsConsistent, ListsMatchSlots, SplitState
    <3>. QED BY <1>2, <2>3, <3>1 DEF TableInvariant, TableIsConsistent, ListsMatchSlots, Occupied, IncidentSlots
  <2>4. (n + 1) - 1 = n
        BY <1>2
  <2>. QED BY <1>1, <1>3, <1>4, <2>1, <2>2, <2>3, <2>4 DEF RemovalIsLocal
<1>. QED BY <1>6, <1>9, <1>10

\* A transition that is taken out is counted as removed instead.
LEMMA RemoveTransitions ==
    ASSUME RefinementInvariant, HalvesDiffer, ParentsAreExact, RemovalIsLocal, pc = "detach",
           RemoveTransition, UNCHANGED <<pc, pending, task, regions, split>>
    PROVE  HalvesDiffer' /\ ParentsAreExact' /\ RemovalIsLocal'
<1>1. PICK i \in incident :
        /\ slots' = Without(slots, i) /\ ids' = Without(ids, slots[i])
        /\ removed' = removed \cup {slots[i]} /\ incident' = incident \ {i} /\ UNCHANGED loops
      BY DEF RemoveTransition
<1>2. /\ TableInvariant /\ i \in DOMAIN slots /\ incident \subseteq DOMAIN slots
      /\ \A j \in DOMAIN slots : slots[j] \in LiveKeys /\ ids[slots[j]] = j
      /\ \A k \in LiveKeys : slots[ids[k]] = k
      BY DEF RefinementInvariant, TableMatches, TableInvariant, TableTypeOK, TableIsConsistent, IndexMatchesSlots
<1>3. /\ LiveKeys' = LiveKeys \ {slots[i]} /\ \A k \in LiveKeys' : ids'[k] = ids[k]
      /\ \A j \in incident' : slots'[j] = slots[j]
      BY <1>1, <1>2 DEF LiveKeys, Without
<1>4. LiveKeys' \cup removed' = LiveKeys \cup removed
      BY <1>1, <1>2, <1>3
<1>5. Names' = Names /\ Older' = Older
      BY DEF Names, Older
<1>6. /\ \A a, b \in 1..Len(regions) - 1 : \A o :
             MayTransition(Older[a], o, Older[b])' = MayTransition(Older[a], o, Older[b])
      /\ \A o : DependsOnSplit(o, split.dimension)' = DependsOnSplit(o, split.dimension)
      BY <1>5, MayTransitionStays
<1>7. HalvesDiffer'
      BY DEF HalvesDiffer
<1>8. ParentsAreExact'
  <2>. DEFINE s == split.state
              m == Len(regions) - 1
  <2>1. ASSUME NEW a \in 1..m, NEW b \in 1..m, NEW o \in Names, a # b
        PROVE  Key(a, o, b) \in LiveKeys' \cup removed' <=> MayTransition(Older[a], o, Older[b])'
    <3>1. MayTransition(Older[a], o, Older[b])' <=> MayTransition(Older[a], o, Older[b])
          BY <1>5, MayTransitionStays
    <3>2. Key(a, o, b) \in LiveKeys \cup removed <=> MayTransition(Older[a], o, Older[b])
          BY <2>1 DEF ParentsAreExact
    <3>. QED BY <1>4, <3>1, <3>2
  <2>2. ASSUME NEW a \in 1..m, NEW o \in Names, a # s
        PROVE  o \in loops'[a] <=> MayTransition(Older[a], o, Older[a])'
    <3>1. MayTransition(Older[a], o, Older[a])' <=> MayTransition(Older[a], o, Older[a])
          BY <1>5, MayTransitionStays
    <3>2. o \in loops[a] <=> MayTransition(Older[a], o, Older[a])
          BY <2>2 DEF ParentsAreExact
    <3>. QED BY <1>1, <3>1, <3>2
  <2>3. \A o \in Names : Key(s, o, s) \in pending' <=> MayTransition(Older[s], o, Older[s])'
        BY <1>5, MayTransitionStays DEF ParentsAreExact
  <2>4. \A x \in {s, Len(regions)} : \A o \in Names :
           o \in loops'[x] <=> Key(s, o, s) \in pending' /\ ~ DependsOnSplit(o, split.dimension)'
        BY <1>1, <1>6 DEF ParentsAreExact
  <2>5. \A k \in pending' : k.source = s /\ k.target = s
        BY DEF ParentsAreExact
  <2>. QED BY <1>5, <2>1, <2>2, <2>3, <2>4, <2>5 DEF ParentsAreExact
<1>9. RemovalIsLocal'
  <2>1. slots[i] \in LiveKeys /\ split.state \in {slots[i].source, slots[i].target}
        BY <1>2 DEF RemovalIsLocal
  <2>2. \A k \in removed' : split.state \in {k.source, k.target}
        BY <1>1, <2>1 DEF RemovalIsLocal
  <2>3. \A k \in LiveKeys' : split.state \in {k.source, k.target} => ids'[k] \in incident'
        BY <1>1, <1>2, <1>3 DEF RemovalIsLocal
  <2>4. \A j \in incident' : split.state \in {slots'[j].source, slots'[j].target}
        BY <1>1, <1>3 DEF RemovalIsLocal
  <2>5. \A k \in LiveKeys' \cup removed' :
           k.source \in 1..Len(regions) - 1 /\ k.target \in 1..Len(regions) - 1 /\ k.source # k.target
        BY <1>4 DEF RemovalIsLocal
  <2>. QED BY <2>2, <2>3, <2>4, <2>5 DEF RemovalIsLocal
<1>. QED BY <1>7, <1>8, <1>9

LEMMA ForgetTransitions ==
    ASSUME RefinementInvariant, HalvesDiffer, ParentsAreExact, RemovalIsLocal, pc = "detach",
           ForgetRemoved, UNCHANGED <<task, regions, split>>,
           pending' = ReplacementTransitions(regions, split.state, Len(regions), split.dimension,
                                             removed, {k.operator : k \in pending})
    PROVE  StoredOrPendingAreAllowed'
<1>1. /\ task \in Tasks /\ regions \in Seq(RegionType) /\ IsSplit(split) /\ TableInvariant
      /\ incident = {} /\ pending \subseteq Keys
      BY DEF RefinementInvariant, SplitsInvariant, TableMatches, ForgetRemoved
<1>2. UNCHANGED <<ids, loops>> /\ AbstractStates = 1..Len(regions)
      BY DEF ForgetRemoved, AbstractStates
<1>3. Names' = Names /\ AbstractStates' = AbstractStates
      BY DEF Names, AbstractStates
<1>4. ASSUME NEW a \in AbstractStates, NEW b \in AbstractStates, NEW o \in Names
      PROVE  ContainsTransition(Key(a, o, b))' \/ Key(a, o, b) \in pending'
                 <=> MayTransition(regions[a], o, regions[b])'
  <2>1. ContainsTransition(Key(a, o, b))' = ContainsTransition(Key(a, o, b))
        BY <1>2 DEF ContainsTransition, LiveKeys
  <2>2. MayTransition(regions[a], o, regions[b])' = MayTransition(regions[a], o, regions[b])
        BY MayTransitionStays
  <2>3. ContainsTransition(Key(a, o, b)) \/ Key(a, o, b) \in pending'
            <=> MayTransition(regions[a], o, regions[b])
        BY <1>1, <1>2, ReplacementsAreAllowed
  <2>. QED BY <2>1, <2>2, <2>3
<1>. QED BY <1>3, <1>4 DEF StoredOrPendingAreAllowed

\* A transition that is put in is stored instead of pending.
LEMMA AttachTransitions ==
    ASSUME RefinementInvariant, StoredOrPendingAreAllowed, Attach, UNCHANGED task
    PROVE  StoredOrPendingAreAllowed'
<1>1. PICK k \in pending : AddTransition(k) /\ pending' = pending \ {k}
      BY DEF Attach
<1>2. UNCHANGED regions /\ pc = "attach"
      BY DEF Attach, stateVars
<1>3. k \in Keys /\ k.source \in TableStates /\ k.target \in TableStates /\ TableInvariant
      /\ TableStates = AbstractStates
      BY <1>1, <1>2 DEF RefinementInvariant, TableMatches, IsStep
<1>4. Names' = Names /\ AbstractStates' = AbstractStates
      BY <1>2 DEF Names, AbstractStates
<1>5. \A a, b \in AbstractStates : \A o :
          ContainsTransition(Key(a, o, b))' <=> ContainsTransition(Key(a, o, b)) \/ Key(a, o, b) = k
      BY <1>1, <1>3, AddedIsContained
<1>6. ASSUME NEW a \in AbstractStates, NEW b \in AbstractStates, NEW o \in Names
      PROVE  ContainsTransition(Key(a, o, b))' \/ Key(a, o, b) \in pending'
                 <=> MayTransition(regions[a], o, regions[b])'
  <2>1. MayTransition(regions[a], o, regions[b])' = MayTransition(regions[a], o, regions[b])
        BY <1>2, MayTransitionStays
  <2>2. ContainsTransition(Key(a, o, b)) \/ Key(a, o, b) \in pending
            <=> MayTransition(regions[a], o, regions[b])
        BY DEF StoredOrPendingAreAllowed
  <2>. QED BY <1>1, <1>5, <2>1, <2>2
<1>. QED BY <1>4, <1>6 DEF StoredOrPendingAreAllowed

LEMMA KeepsTransitions ==
    ASSUME TransitionsInvariant, KeepsAbstraction
    PROVE  TransitionsInvariant'
<1>1. UNCHANGED <<task, regions, ids, loops, slots, incident, removed>> /\ Names' = Names
      /\ AbstractStates' = AbstractStates /\ LiveKeys' = LiveKeys
      BY SplitsStayWell DEF KeepsAbstraction, abstraction, setup, stateVars, table
<1>2. ASSUME StoredAreAllowed PROVE StoredAreAllowed'
  <2>1. ASSUME NEW a \in AbstractStates, NEW b \in AbstractStates, NEW o \in Names
        PROVE  ContainsTransition(Key(a, o, b))' <=> MayTransition(regions[a], o, regions[b])'
    <3>1. ContainsTransition(Key(a, o, b))' = ContainsTransition(Key(a, o, b))
          BY <1>1 DEF ContainsTransition
    <3>2. MayTransition(regions[a], o, regions[b])' = MayTransition(regions[a], o, regions[b])
          BY <1>1, MayTransitionStays
    <3>. QED BY <1>2, <3>1, <3>2 DEF StoredAreAllowed
  <2>. QED BY <1>1, <2>1 DEF StoredAreAllowed
<1>3. CASE pc # "detach" /\ pc' \notin {"detach", "attach"} /\ (pc = "attach" => pending = {})
  <2>1. CASE pc = "attach"
    <3>1. StoredAreAllowed
          BY <1>3, <2>1 DEF TransitionsInvariant, StoredOrPendingAreAllowed, StoredAreAllowed
    <3>. QED BY <1>2, <1>3, <3>1 DEF TransitionsInvariant
  <2>2. CASE pc # "attach"
        BY <1>2, <1>3, <2>2 DEF TransitionsInvariant
  <2>. QED BY <2>1, <2>2
<1>4. CASE UNCHANGED vars
  <2>1. UNCHANGED <<pc, pending, split>>
        BY <1>4 DEF vars
  <2>2. Older' = Older
        BY <1>1, <2>1 DEF Older
  <2>3. CASE pc \notin {"detach", "attach"}
        BY <1>2, <2>1, <2>3 DEF TransitionsInvariant
  <2>4. CASE pc = "attach"
    <3>1. ASSUME NEW a \in AbstractStates, NEW b \in AbstractStates, NEW o \in Names
          PROVE  ContainsTransition(Key(a, o, b))' \/ Key(a, o, b) \in pending'
                     <=> MayTransition(regions[a], o, regions[b])'
      <4>1. ContainsTransition(Key(a, o, b))' = ContainsTransition(Key(a, o, b))
            BY <1>1 DEF ContainsTransition
      <4>2. MayTransition(regions[a], o, regions[b])' = MayTransition(regions[a], o, regions[b])
            BY <1>1, MayTransitionStays
      <4>. QED BY <2>1, <2>4, <4>1, <4>2 DEF TransitionsInvariant, StoredOrPendingAreAllowed
    <3>2. StoredOrPendingAreAllowed'
          BY <1>1, <3>1 DEF StoredOrPendingAreAllowed
    <3>. QED BY <2>1, <2>4, <3>2 DEF TransitionsInvariant
  <2>5. CASE pc = "detach"
    <3>. DEFINE s == split.state
                m == Len(regions) - 1
    <3>1. HalvesDiffer /\ ParentsAreExact /\ RemovalIsLocal
          BY <2>5 DEF TransitionsInvariant
    <3>2. HalvesDiffer' /\ RemovalIsLocal'
          BY <1>1, <2>1, <3>1 DEF HalvesDiffer, RemovalIsLocal
    <3>3. /\ \A a, b \in 1..m : \A o :
                 MayTransition(Older[a], o, Older[b])' = MayTransition(Older[a], o, Older[b])
          /\ \A o : DependsOnSplit(o, split.dimension)' = DependsOnSplit(o, split.dimension)
          BY <1>1, <2>1, <2>2, MayTransitionStays
    <3>4. ASSUME NEW a \in 1..m, NEW b \in 1..m, NEW o \in Names, a # b
          PROVE  Key(a, o, b) \in LiveKeys' \cup removed' <=> MayTransition(Older[a], o, Older[b])'
      <4>1. MayTransition(Older[a], o, Older[b])' <=> MayTransition(Older[a], o, Older[b])
            BY <1>1, <2>2, MayTransitionStays
      <4>2. Key(a, o, b) \in LiveKeys \cup removed <=> MayTransition(Older[a], o, Older[b])
            BY <3>1, <3>4 DEF ParentsAreExact
      <4>. QED BY <1>1, <4>1, <4>2
    <3>5. ASSUME NEW a \in 1..m, NEW o \in Names, a # s
          PROVE  o \in loops'[a] <=> MayTransition(Older[a], o, Older[a])'
      <4>1. MayTransition(Older[a], o, Older[a])' <=> MayTransition(Older[a], o, Older[a])
            BY <1>1, <2>2, MayTransitionStays
      <4>2. o \in loops[a] <=> MayTransition(Older[a], o, Older[a])
            BY <3>1, <3>5 DEF ParentsAreExact
      <4>. QED BY <1>1, <4>1, <4>2
    <3>6. \A o \in Names : Key(s, o, s) \in pending' <=> MayTransition(Older[s], o, Older[s])'
          BY <1>1, <2>1, <2>2, <3>1, MayTransitionStays DEF ParentsAreExact
    <3>7. \A x \in {s, Len(regions)} : \A o \in Names :
             o \in loops'[x] <=> Key(s, o, s) \in pending' /\ ~ DependsOnSplit(o, split.dimension)'
          BY <1>1, <2>1, <3>1, <3>3 DEF ParentsAreExact
    <3>8. ParentsAreExact'
          BY <1>1, <2>1, <3>1, <3>4, <3>5, <3>6, <3>7 DEF ParentsAreExact
    <3>. QED BY <2>1, <2>5, <3>2, <3>8 DEF TransitionsInvariant
  <2>. QED BY <2>3, <2>4, <2>5
<1>. QED BY <1>3, <1>4 DEF KeepsAbstraction

LEMMA TransitionsStep ==
    RefinementInvariant /\ TransitionsInvariant /\ [Next]_vars => TransitionsInvariant'
<1>. SUFFICES ASSUME RefinementInvariant, TransitionsInvariant, [Next]_vars PROVE TransitionsInvariant'
     OBVIOUS
<1>1. CASE KeepsAbstraction
      BY <1>1, KeepsTransitions
<1>2. CASE ApplySplit /\ UNCHANGED <<setup, cegarVars>>
  <2>1. pc = "apply" /\ pc' = "detach"
        BY <1>2 DEF ApplySplit
  <2>2. StoredAreAllowed
        BY <2>1 DEF TransitionsInvariant
  <2>. QED BY <1>2, <2>1, <2>2, ApplySplitTransitions DEF TransitionsInvariant
<1>3. CASE Detach /\ UNCHANGED <<setup, cegarVars>>
  <2>1. pc = "detach" /\ UNCHANGED <<task, regions, split>>
        BY <1>3 DEF Detach, setup, stateVars
  <2>2. HalvesDiffer /\ ParentsAreExact /\ RemovalIsLocal
        BY <2>1 DEF TransitionsInvariant
  <2>3. CASE RemoveTransition /\ UNCHANGED <<pc, pending>>
        BY <2>1, <2>2, <2>3, RemoveTransitions DEF TransitionsInvariant
  <2>4. CASE /\ ForgetRemoved /\ pc' = "attach"
             /\ pending' = ReplacementTransitions(regions, split.state, Len(regions), split.dimension,
                                                  removed, {k.operator : k \in pending})
        BY <2>1, <2>2, <2>4, ForgetTransitions DEF TransitionsInvariant
  <2>. QED BY <1>3, <2>3, <2>4 DEF Detach
<1>4. CASE Attach /\ UNCHANGED <<setup, cegarVars>>
  <2>1. pc = "attach" /\ pc' = "attach" /\ UNCHANGED task
        BY <1>4 DEF Attach, setup
  <2>. QED BY <1>4, <2>1, AttachTransitions DEF TransitionsInvariant
<1>. QED BY <1>1, <1>2, <1>3, <1>4, StepCases

\* replacement_transitions tests a split only along its dimension and only for the operators
\* that depend on it: still, after any number of splits of any task the transitions are
\* exactly those the operators may take between the regions as they are.
THEOREM TransitionsAreExactAlways == Spec => []TransitionsAreExact
<1>1. Init => RefinementInvariant /\ TransitionsInvariant
      BY InitRefinement, InitTransitions
<1>2. RefinementInvariant /\ TransitionsInvariant /\ [Next]_vars
          => RefinementInvariant' /\ TransitionsInvariant'
      BY RefinementStep, TransitionsStep
<1>3. RefinementInvariant /\ TransitionsInvariant => TransitionsAreExact
      BY DEF TransitionsInvariant, TransitionsAreExact, StoredAreAllowed, AtRest
<1>. QED BY <1>1, <1>2, <1>3, PTL DEF Spec

-----------------------------------------------------------------------------
(* The abstraction simulates the task                                       *)

\* A region admits what holds in one of its states, and an operator that applies there
\* may lead from it to the region of the successor.
LEMMA RegionsSimulate ==
    ASSUME NEW s \in States, NEW r, InRegion(s, r)
    PROVE  /\ \A f : IsFact(f) /\ Holds(f, s) => Admits(r, f)
           /\ \A o, u :
                 (\A f \in Pre(o) : IsFact(f) /\ Holds(f, s)) /\ InRegion(Successor(s, o), u)
                     => MayTransition(r, o, u)
<1>1. ASSUME NEW f, IsFact(f), Holds(f, s) PROVE Admits(r, f)
  <2>. DEFINE v == [d \in f.dims |-> s[d]]
  <2>1. v \in f.satisfying /\ \A d \in f.dims : v[d] \in r[d]
        BY <1>1 DEF Holds, IsFact, InRegion
  <2>. QED BY <2>1 DEF Admits
<1>2. ASSUME NEW o, NEW u, \A f \in Pre(o) : IsFact(f) /\ Holds(f, s), InRegion(Successor(s, o), u)
      PROVE  MayTransition(r, o, u)
  <2>1. OperatorMayApply(r, o)
        BY <1>1, <1>2 DEF OperatorMayApply
  <2>2. ASSUME NEW d \in Dimensions PROVE DimensionMayTransition(r, o, u, d)
    <3>1. s[d] \in r[d] /\ Image(o, d, s[d]) \in u[d]
          BY <1>2 DEF InRegion, Successor
    <3>2. CASE d \notin Written(o) /\ PrevailValues(o, d) # {}
      <4>1. PICK f \in Pre(o) : f.dims = {d} /\ f.satisfying # {} /\ d \notin Numeric
            BY <3>2 DEF PrevailValues
      <4>2. [e \in f.dims |-> s[e]] \in f.satisfying /\ [e \in f.dims |-> s[e]][d] = s[d]
            BY <1>2, <4>1 DEF Holds
      <4>3. s[d] \in PrevailValues(o, d)
            BY <4>1, <4>2 DEF PrevailValues
      <4>4. s[d] \in u[d]
            BY <3>1, <3>2 DEF Image
      <4>. QED BY <3>2, <4>3, <4>4 DEF DimensionMayTransition
    <3>3. CASE ~ (d \notin Written(o) /\ PrevailValues(o, d) # {})
          BY <3>1, <3>3 DEF DimensionMayTransition
    <3>. QED BY <3>2, <3>3
  <2>. QED BY <2>1, <2>2 DEF MayTransition
<1>. QED BY <1>1, <1>2

\* An applicable operator leads from the abstract state of a concrete state to that of its
\* successor, and the abstract state of a concrete goal state is a goal.
Simulates ==
    AtRest =>
        \A s \in States :
            /\ \A o \in Names :
                  Unsatisfied(Pre(o), s) = {} /\ Successor(s, o) \in States =>
                      ContainsTransition(Key(MapState(s), o, MapState(Successor(s, o))))
            /\ Unsatisfied(task.goals, s) = {} => IsGoal(regions[MapState(s)])

\* CartesianAbstraction: between two splits each step of the task is an abstract transition
\* and each goal state of the task is abstracted by a goal state, so that a distance in the
\* abstraction is never more than the concrete one.
THEOREM AbstractionSimulates == Spec => []Simulates
<1>1. ASSUME StatesAreMapped, TransitionsAreExact, task \in Tasks PROVE Simulates
  <2>. SUFFICES ASSUME AtRest, NEW s \in States
                PROVE  /\ \A o \in Names :
                             Unsatisfied(Pre(o), s) = {} /\ Successor(s, o) \in States =>
                                 ContainsTransition(Key(MapState(s), o, MapState(Successor(s, o))))
                       /\ Unsatisfied(task.goals, s) = {} => IsGoal(regions[MapState(s)])
       BY DEF Simulates
  <2>1. \A x \in States : MapState(x) \in AbstractStates /\ InRegion(x, regions[MapState(x)])
        BY <1>1 DEF StatesAreMapped, AtRest
  <2>2. /\ \A f \in task.goals : IsFact(f)
        /\ \A o \in Names : \A f \in Pre(o) : IsFact(f)
        BY <1>1, TaskAssumption DEF Names, Pre
  <2>3. ASSUME NEW o \in Names, Unsatisfied(Pre(o), s) = {}, Successor(s, o) \in States
        PROVE  ContainsTransition(Key(MapState(s), o, MapState(Successor(s, o))))
    <3>1. \A f \in Pre(o) : IsFact(f) /\ Holds(f, s)
          BY <2>2, <2>3 DEF Unsatisfied
    <3>2. MayTransition(regions[MapState(s)], o, regions[MapState(Successor(s, o))])
          BY <2>1, <2>3, <3>1, RegionsSimulate
    <3>. QED BY <1>1, <2>1, <2>3, <3>2 DEF TransitionsAreExact
  <2>4. ASSUME Unsatisfied(task.goals, s) = {} PROVE IsGoal(regions[MapState(s)])
    <3>1. \A f \in task.goals : Holds(f, s)
          BY <2>4 DEF Unsatisfied
    <3>. QED BY <2>1, <2>2, <3>1, RegionsSimulate DEF IsGoal
  <2>. QED BY <2>3, <2>4
<1>2. Spec => [](task \in Tasks)
  <2>1. Init => task \in Tasks
        BY DEF Init
  <2>2. RefinementInvariant => task \in Tasks
        BY DEF RefinementInvariant, SplitsInvariant
  <2>. QED BY <2>2, InitRefinement, RefinementStep, PTL DEF Spec
<1>. QED BY <1>1, <1>2, StatesAreMappedAlways, TransitionsAreExactAlways, PTL

-----------------------------------------------------------------------------
(* Resolved costs *)

LEMMA MultiplesAreApart ==
    ASSUME NEW m \in Nat \ {0}, NEW q \in Nat, NEW r \in Nat, q * m < r * m
    PROVE  q * m + m <= r * m
<1>1. q < r
  <2>1. SUFFICES ASSUME r <= q PROVE FALSE
        OBVIOUS
  <2>2. r * m <= q * m
        BY <2>1
  <2>. QED BY <2>2
<1>2. (q + 1) * m <= r * m
      BY <1>1
<1>3. (q + 1) * m = q * m + m
      OBVIOUS
<1>. QED BY <1>2, <1>3

\* Sums of resolved costs are resolved, and no two of them differ within the tolerance.
LEMMA ResolvedSums ==
    /\ Resolved(0)
    /\ \A a, b : Resolved(a) /\ Resolved(b) => Resolved(a + b)
    /\ \A a, b : Resolved(a) /\ Resolved(b) /\ a < b => a + Tolerance < b
<1>. DEFINE m == Tolerance + 1
<1>1. Tolerance \in Nat /\ m \in Nat \ {0}
      BY AbstractionAssumption
<1>2. Resolved(0)
  <2>1. 0 = 0 * m
        BY <1>1
  <2>. QED BY <2>1 DEF Resolved
<1>3. ASSUME NEW a, NEW b, Resolved(a), Resolved(b) PROVE Resolved(a + b)
  <2>1. PICK q \in 0..a : a = q * m
        BY <1>3 DEF Resolved
  <2>2. PICK r \in 0..b : b = r * m
        BY <1>3 DEF Resolved
  <2>3. a \in Nat /\ b \in Nat
        BY <1>3 DEF Resolved
  <2>4. a + b = (q + r) * m /\ q + r \in 0..a + b
    <3>. HIDE DEF m
    <3>. QED BY <1>1, <2>1, <2>2, <2>3
  <2>. QED BY <2>3, <2>4 DEF Resolved
<1>4. ASSUME NEW a, NEW b, Resolved(a), Resolved(b), a < b PROVE a + Tolerance < b
  <2>1. PICK q \in 0..a : a = q * m
        BY <1>4 DEF Resolved
  <2>2. PICK r \in 0..b : b = r * m
        BY <1>4 DEF Resolved
  <2>3. a \in Nat /\ b \in Nat
        BY <1>4 DEF Resolved
  <2>4. a + m <= b
    <3>. HIDE DEF m
    <3>1. q \in Nat /\ r \in Nat /\ q * m < r * m
          BY <1>4, <2>1, <2>2, <2>3
    <3>. QED BY <1>1, <2>1, <2>2, <3>1, MultiplesAreApart
  <2>. QED BY <1>1, <2>3, <2>4
<1>. QED BY <1>2, <1>3, <1>4

-----------------------------------------------------------------------------
(* The lists of dependents *)

\* The dependents of a state are the states whose path starts with a transition to it, each
\* at its position.
Links(gen, pos, dep) ==
    /\ dep \in Seq(Seq(Nat))
    /\ DOMAIN pos = DOMAIN gen
    /\ \A s \in DOMAIN gen :
           /\ gen[s].target \in DOMAIN dep
           /\ pos[s] \in DOMAIN dep[gen[s].target]
           /\ dep[gen[s].target][pos[s]] = s
    /\ \A t \in DOMAIN dep : \A i \in DOMAIN dep[t] :
           /\ dep[t][i] \in DOMAIN gen
           /\ gen[dep[t][i]].target = t
           /\ pos[dep[t][i]] = i

LinksMatch(p) == Links(p.generating, p.positions, p.dependents)

LEMMA FrontFacts ==
    ASSUME NEW S, NEW seq \in Seq(S), Len(seq) \in Nat \ {0}
    PROVE  /\ Front(seq) \in Seq(S) /\ Len(Front(seq)) = Len(seq) - 1
           /\ DOMAIN Front(seq) = 1..Len(seq) - 1
           /\ \A i \in 1..Len(seq) - 1 : Front(seq)[i] = seq[i]
<1>. DEFINE n == Len(seq) - 1
<1>1. Front(seq) = SubSeq(seq, 1, n) /\ n \in Nat
      BY DEF Front
<1>2. 1 \in Int /\ n \in Int /\ \A i \in 1..n : seq[i] \in S
      OBVIOUS
<1>. HIDE DEF n
<1>3. /\ Front(seq) \in Seq(S)
      /\ Len(Front(seq)) = IF 1 <= n THEN n - 1 + 1 ELSE 0
      /\ \A i \in 1..n - 1 + 1 : Front(seq)[i] = seq[1 + i - 1]
      BY <1>1, <1>2, SubSeqProperties
<1>4. /\ Len(Front(seq)) = n /\ DOMAIN Front(seq) = 1..n
      /\ \A i \in 1..n : Front(seq)[i] = seq[i]
      BY <1>1, <1>3
<1>. QED BY <1>3, <1>4 DEF n

LEMMA ChangedEntry ==
    ASSUME NEW S, NEW seq \in Seq(S), NEW n \in DOMAIN seq, NEW e \in S,
           NEW changed, changed = [seq EXCEPT ![n] = e]
    PROVE  /\ changed \in Seq(S) /\ DOMAIN changed = DOMAIN seq /\ changed[n] = e
           /\ \A u \in DOMAIN seq : u # n => changed[u] = seq[u]
<1>1. DOMAIN changed = DOMAIN seq /\ \A u \in DOMAIN seq : changed[u] = IF u = n THEN e ELSE seq[u]
      OBVIOUS
<1>2. changed \in Seq(S)
      OBVIOUS
<1>. QED BY <1>1, <1>2

LEMMA UnlinkedLinks ==
    ASSUME NEW gen, NEW pos, NEW dep, Links(gen, pos, dep), NEW s \in DOMAIN gen,
           NEW t, t = gen[s].target, NEW last, last = Last(dep[t]),
           NEW pos2, pos2 = Without(Put(pos, last, pos[s]), s),
           NEW dep2, dep2 = [dep EXCEPT ![t] = Front([dep[t] EXCEPT ![pos[s]] = last])]
    PROVE  Links(Without(gen, s), pos2, dep2)
<1>. DEFINE gen2 == Without(gen, s)
            at == pos[s]
            list == dep[t]
            m == Len(list)
            list2 == Front([list EXCEPT ![at] = last])
<1>1. t \in DOMAIN dep /\ list \in Seq(Nat) /\ m \in Nat /\ DOMAIN list = 1..m /\ at \in 1..m /\ list[at] = s
  <2>1. t \in DOMAIN dep /\ at \in DOMAIN list /\ list[at] = s
        BY DEF Links
  <2>2. dep \in Seq(Seq(Nat))
        BY DEF Links
  <2>3. list \in Seq(Nat)
        BY <2>1, <2>2
  <2>. QED BY <2>1, <2>3
<1>. HIDE DEF at, m
<1>2. last = list[m] /\ m \in 1..m /\ last \in Nat /\ Len(list) = m
      BY <1>1 DEF Last, m
<1>3. /\ \A i \in 1..m : list[i] \in DOMAIN gen /\ gen[list[i]].target = t /\ pos[list[i]] = i
      BY <1>1 DEF Links
<1>4. list2 \in Seq(Nat) /\ Len(list2) = m - 1 /\ DOMAIN list2 = 1..m - 1
      /\ \A i \in 1..m - 1 : list2[i] = IF i = at THEN last ELSE list[i]
  <2>. DEFINE mid == [list EXCEPT ![at] = last]
  <2>1. mid \in Seq(Nat) /\ Len(mid) = m /\ \A i \in 1..m : mid[i] = IF i = at THEN last ELSE list[i]
        BY <1>1, <1>2
  <2>2. list2 = Front(mid)
        OBVIOUS
  <2>3. m \in Nat \ {0}
        BY <1>1, <1>2
  <2>. HIDE DEF mid, list2
  <2>4. /\ Front(mid) \in Seq(Nat) /\ Len(Front(mid)) = m - 1 /\ DOMAIN Front(mid) = 1..m - 1
        /\ \A i \in 1..m - 1 : Front(mid)[i] = mid[i]
        BY <2>1, <2>3, FrontFacts
  <2>5. list2 \in Seq(Nat) /\ Len(list2) = m - 1 /\ DOMAIN list2 = 1..m - 1
        BY <2>2, <2>4
  <2>6. ASSUME NEW i \in 1..m - 1
        PROVE  list2[i] = IF i = at THEN last ELSE list[i]
    <3>1. i \in 1..m
          BY <2>3
    <3>2. list2[i] = mid[i]
          BY <2>2, <2>4
    <3>. QED BY <2>1, <3>1, <3>2
  <2>. QED BY <2>5, <2>6
<1>5. /\ DOMAIN dep2 = DOMAIN dep /\ dep2 \in Seq(Seq(Nat)) /\ dep2[t] = list2
      /\ \A u \in DOMAIN dep : u # t => dep2[u] = dep[u]
  <2>1. dep \in Seq(Seq(Nat))
        BY DEF Links
  <2>2. dep2 = [dep EXCEPT ![t] = list2]
        BY DEF at
  <2>3. list2 \in Seq(Nat)
        BY <1>4
  <2>. HIDE DEF list2, list
  <2>. QED BY <1>1, <2>1, <2>2, <2>3, ChangedEntry
<1>. HIDE DEF list2, list
<1>6. /\ DOMAIN gen2 = DOMAIN gen \ {s}
      /\ at = pos[s] /\ list = dep[t]
      /\ \A x \in DOMAIN gen2 : gen2[x] = gen[x]
      BY DEF Without, at, list
<1>7. /\ DOMAIN pos2 = DOMAIN gen \ {s}
      /\ \A x \in DOMAIN pos2 : pos2[x] = IF x = last THEN at ELSE pos[x]
  <2>1. DOMAIN pos = DOMAIN gen /\ last \in DOMAIN gen
        BY <1>2, <1>3 DEF Links
  <2>. QED BY <1>6, <2>1 DEF Without, Put
<1>8. ASSUME NEW x \in DOMAIN gen2
      PROVE  /\ gen2[x].target \in DOMAIN dep2
             /\ pos2[x] \in DOMAIN dep2[gen2[x].target]
             /\ dep2[gen2[x].target][pos2[x]] = x
  <2>1. /\ x \in DOMAIN gen /\ x # s /\ gen2[x] = gen[x] /\ gen[x].target \in DOMAIN dep
        /\ pos[x] \in DOMAIN dep[gen[x].target] /\ dep[gen[x].target][pos[x]] = x
        BY <1>6 DEF Links
  <2>2. CASE gen[x].target # t
    <3>1. x # last
          BY <1>2, <1>3, <2>2
    <3>. QED BY <1>5, <1>6, <1>7, <2>1, <2>2, <3>1
  <2>3. CASE gen[x].target = t
    <3>1. pos[x] \in 1..m /\ list[pos[x]] = x
          BY <1>1, <1>6, <2>1, <2>3
    <3>2. CASE x = last
      <4>1. pos[x] = m /\ at # m
            BY <1>1, <1>2, <1>3, <2>1, <3>2
      <4>2. at \in 1..m - 1 /\ pos2[x] = at
            BY <1>1, <1>6, <1>7, <3>2, <4>1
      <4>. QED BY <1>4, <1>5, <2>1, <2>3, <3>2, <4>2
    <3>3. CASE x # last
      <4>1. pos[x] # m /\ pos[x] # at
            BY <1>1, <1>2, <2>1, <3>1, <3>3
      <4>2. pos[x] \in 1..m - 1 /\ pos2[x] = pos[x]
            BY <1>1, <1>6, <1>7, <3>1, <3>3, <4>1
      <4>. QED BY <1>4, <1>5, <2>1, <2>3, <3>1, <4>1, <4>2
    <3>. QED BY <3>2, <3>3
  <2>. QED BY <2>2, <2>3
<1>9. ASSUME NEW u \in DOMAIN dep2, NEW i \in DOMAIN dep2[u]
      PROVE  /\ dep2[u][i] \in DOMAIN gen2
             /\ gen2[dep2[u][i]].target = u
             /\ pos2[dep2[u][i]] = i
  <2>1. CASE u # t
    <3>. DEFINE x == dep[u][i]
    <3>1. dep2[u] = dep[u] /\ x \in DOMAIN gen /\ gen[x].target = u /\ pos[x] = i
          BY <1>5, <2>1 DEF Links
    <3>2. x # s /\ x # last
          BY <1>2, <1>3, <2>1, <3>1
    <3>. HIDE DEF x
    <3>. QED BY <1>6, <1>7, <3>1, <3>2 DEF x
  <2>2. CASE u = t
    <3>1. i \in 1..m - 1 /\ i \in 1..m /\ dep2[u][i] = IF i = at THEN last ELSE list[i]
      <4>1. dep2[u] = list2
            BY <1>5, <2>2
      <4>2. i \in DOMAIN list2
            BY <4>1
      <4>3. i \in 1..m - 1
            BY <1>4, <4>2
      <4>4. i \in 1..m
            BY <1>1, <4>3
      <4>5. list2[i] = IF i = at THEN last ELSE list[i]
            BY <1>4, <4>3
      <4>. QED BY <4>1, <4>3, <4>4, <4>5, Zenon
    <3>2. CASE i = at
      <4>1. last # s
            BY <1>1, <1>2, <1>3, <3>1, <3>2
      <4>2. last \in DOMAIN gen /\ gen[last].target = t
            BY <1>2, <1>3
      <4>3. last \in DOMAIN gen2 /\ gen2[last] = gen[last] /\ last \in DOMAIN pos2 /\ pos2[last] = at
            BY <1>6, <1>7, <4>1, <4>2
      <4>4. dep2[u][i] = last
            BY <3>1, <3>2
      <4>. HIDE DEF gen2
      <4>. QED BY <2>2, <3>2, <4>2, <4>3, <4>4
    <3>3. CASE i # at
      <4>1. list[i] \in DOMAIN gen /\ gen[list[i]].target = t /\ pos[list[i]] = i
            BY <1>3, <3>1
      <4>2. list[i] # s /\ list[i] # last
        <5>1. pos[s] = at /\ pos[last] = m /\ i # m
              BY <1>1, <1>2, <1>3, <3>1
        <5>. QED BY <3>3, <4>1, <5>1
      <4>. QED BY <1>6, <1>7, <2>2, <3>1, <3>3, <4>1, <4>2
    <3>. QED BY <3>2, <3>3
  <2>. QED BY <2>1, <2>2
<1>. HIDE DEF gen2
<1>. QED BY <1>5, <1>6, <1>7, <1>8, <1>9 DEF Links, gen2

LEMMA LinkedLinks ==
    ASSUME NEW gen, NEW pos, NEW dep, Links(gen, pos, dep), NEW s \in Nat, s \notin DOMAIN gen,
           NEW k, k.target \in DOMAIN dep
    PROVE  Links(Put(gen, s, k), Put(pos, s, Len(dep[k.target]) + 1),
                 [dep EXCEPT ![k.target] = Append(@, s)])
<1>. DEFINE t == k.target
            list == dep[t]
            m == Len(list)
            gen2 == Put(gen, s, k)
            pos2 == Put(pos, s, m + 1)
            list2 == Append(list, s)
            dep2 == [dep EXCEPT ![t] = list2]
<1>1. t \in DOMAIN dep /\ list \in Seq(Nat) /\ m \in Nat /\ DOMAIN list = 1..m /\ dep \in Seq(Seq(Nat))
  <2>1. dep \in Seq(Seq(Nat)) /\ t \in DOMAIN dep
        BY DEF Links
  <2>2. list \in Seq(Nat)
        BY <2>1
  <2>. QED BY <2>1, <2>2
<1>2. list2 \in Seq(Nat) /\ DOMAIN list2 = 1..m + 1 /\ list2[m + 1] = s
      /\ \A i \in 1..m : list2[i] = list[i]
      BY <1>1
<1>3. /\ DOMAIN dep2 = DOMAIN dep /\ dep2[t] = list2
      /\ \A u \in DOMAIN dep : u # t => dep2[u] = dep[u]
  <2>. HIDE DEF list2, t
  <2>. QED BY <1>1, <1>2
<1>13. dep2 \in Seq(Seq(Nat))
  <2>. HIDE DEF list2, t
  <2>. QED BY <1>1, <1>2
<1>4. /\ DOMAIN gen2 = DOMAIN gen \cup {s} /\ DOMAIN pos2 = DOMAIN gen \cup {s}
      /\ gen2[s] = k /\ pos2[s] = m + 1
      /\ \A x \in DOMAIN gen : x # s /\ gen2[x] = gen[x] /\ pos2[x] = pos[x]
  <2>1. DOMAIN pos = DOMAIN gen
        BY DEF Links
  <2>. QED BY <2>1 DEF Put
<1>5. gen2[s].target = t
      BY <1>4
<1>6. /\ \A x \in DOMAIN gen : gen[x].target \in DOMAIN dep
                               /\ pos[x] \in DOMAIN dep[gen[x].target] /\ dep[gen[x].target][pos[x]] = x
      /\ \A u \in DOMAIN dep : \A i \in DOMAIN dep[u] :
             dep[u][i] \in DOMAIN gen /\ gen[dep[u][i]].target = u /\ pos[dep[u][i]] = i
      BY DEF Links
<1>7. dep2 = [dep EXCEPT ![k.target] = Append(@, s)] /\ pos2 = Put(pos, s, Len(dep[k.target]) + 1)
      /\ gen2 = Put(gen, s, k)
      OBVIOUS
<1>8. m + 1 \in 1..m + 1 /\ (\A i \in 1..m : i \in 1..m + 1) /\ \A i \in 1..m + 1 : i \in 1..m \/ i = m + 1
  <2>1. m \in Nat
        BY <1>1
  <2>. HIDE DEF m
  <2>. QED BY <2>1
<1>9. list = dep[t]
      OBVIOUS
<1>. HIDE DEF gen2, pos2, dep2, list2, list, m, t
<1>10. ASSUME NEW x \in DOMAIN gen2
       PROVE  /\ gen2[x].target \in DOMAIN dep2
              /\ pos2[x] \in DOMAIN dep2[gen2[x].target]
              /\ dep2[gen2[x].target][pos2[x]] = x
  <2>1. CASE x = s
        BY <1>1, <1>2, <1>3, <1>4, <1>5, <1>8, <2>1
  <2>2. CASE x # s /\ gen[x].target # t
    <3>1. x \in DOMAIN gen
          BY <1>4, <2>2
    <3>2. gen2[x].target = gen[x].target /\ pos2[x] = pos[x]
          BY <1>4, <3>1
    <3>3. gen[x].target \in DOMAIN dep /\ pos[x] \in DOMAIN dep[gen[x].target]
          /\ dep[gen[x].target][pos[x]] = x
          BY <1>6, <3>1
    <3>4. dep2[gen[x].target] = dep[gen[x].target]
          BY <1>3, <2>2, <3>3
    <3>. QED BY <1>3, <3>2, <3>3, <3>4
  <2>3. CASE x # s /\ gen[x].target = t
    <3>1. x \in DOMAIN gen
          BY <1>4, <2>3
    <3>2. pos[x] \in 1..m /\ list[pos[x]] = x
          BY <1>1, <1>6, <1>9, <2>3, <3>1
    <3>3. gen2[x].target = t /\ pos2[x] = pos[x]
          BY <1>4, <2>3, <3>1
    <3>4. pos[x] \in 1..m + 1 /\ list2[pos[x]] = x
          BY <1>2, <1>8, <3>2
    <3>5. t \in DOMAIN dep2 /\ dep2[t] = list2 /\ DOMAIN list2 = 1..m + 1
          BY <1>1, <1>2, <1>3
    <3>. QED BY <3>3, <3>4, <3>5
  <2>. QED BY <2>1, <2>2, <2>3
<1>11. ASSUME NEW u \in DOMAIN dep2, NEW i \in DOMAIN dep2[u]
       PROVE  dep2[u][i] \in DOMAIN gen2 /\ gen2[dep2[u][i]].target = u /\ pos2[dep2[u][i]] = i
  <2>1. CASE u # t
    <3>1. u \in DOMAIN dep /\ dep2[u] = dep[u]
          BY <1>3, <2>1
    <3>2. dep[u][i] \in DOMAIN gen /\ gen[dep[u][i]].target = u /\ pos[dep[u][i]] = i
          BY <1>6, <3>1
    <3>. QED BY <1>4, <3>1, <3>2
  <2>2. CASE u = t /\ i \in 1..m
    <3>1. dep2[u][i] = list[i] /\ list[i] \in DOMAIN gen /\ gen[list[i]].target = t /\ pos[list[i]] = i
      <4>1. dep2[u][i] = list[i] /\ t \in DOMAIN dep /\ i \in DOMAIN dep[t]
            BY <1>1, <1>2, <1>3, <1>9, <2>2
      <4>. QED BY <1>6, <1>9, <4>1
    <3>. QED BY <1>4, <2>2, <3>1
  <2>3. CASE u = t /\ i = m + 1
        BY <1>2, <1>3, <1>4, <1>5, <2>3
  <2>. QED BY <1>2, <1>3, <1>8, <2>1, <2>2, <2>3
<1>12. Links(gen2, pos2, dep2)
  <2>1. DOMAIN pos2 = DOMAIN gen2
        BY <1>4
  <2>2. \A x \in DOMAIN gen2 : /\ gen2[x].target \in DOMAIN dep2
                               /\ pos2[x] \in DOMAIN dep2[gen2[x].target]
                               /\ dep2[gen2[x].target][pos2[x]] = x
        BY <1>10
  <2>3. \A u \in DOMAIN dep2 : \A i \in DOMAIN dep2[u] :
            dep2[u][i] \in DOMAIN gen2 /\ gen2[dep2[u][i]].target = u /\ pos2[dep2[u][i]] = i
        BY <1>11
  <2>. QED BY <1>13, <2>1, <2>2, <2>3, Zenon DEF Links
<1>. QED BY <1>7, <1>12

\* g is f without the elements of R.
IsRest(f, g, R) == DOMAIN g = DOMAIN f \ R /\ \A x \in DOMAIN g : g[x] = f[x]
IsCleared(dep, dep2, t) == dep2 = [dep EXCEPT ![t] = <<>>]

\* When all dependents of t are forgotten.
LEMMA ForgottenLinks ==
    ASSUME NEW gen, NEW pos, NEW dep, Links(gen, pos, dep), NEW t \in DOMAIN dep,
           NEW R, R = Range(dep[t]),
           NEW gen2, IsRest(gen, gen2, R), NEW pos2, IsRest(pos, pos2, R),
           NEW dep2, IsCleared(dep, dep2, t)
    PROVE  /\ R = {s \in DOMAIN gen : gen[s].target = t}
           /\ Links(gen2, pos2, dep2)
<1>1. /\ dep \in Seq(Seq(Nat)) /\ DOMAIN pos = DOMAIN gen
      /\ \A x \in DOMAIN gen : gen[x].target \in DOMAIN dep
                               /\ pos[x] \in DOMAIN dep[gen[x].target] /\ dep[gen[x].target][pos[x]] = x
      /\ \A u \in DOMAIN dep : \A i \in DOMAIN dep[u] :
             dep[u][i] \in DOMAIN gen /\ gen[dep[u][i]].target = u /\ pos[dep[u][i]] = i
      BY DEF Links
<1>2. R = {s \in DOMAIN gen : gen[s].target = t}
  <2>1. R = {dep[t][i] : i \in DOMAIN dep[t]}
        BY DEF Range
  <2>. QED BY <1>1, <2>1
<1>3. /\ DOMAIN dep2 = DOMAIN dep /\ dep2[t] = <<>> /\ dep2 \in Seq(Seq(Nat))
      /\ \A u \in DOMAIN dep : u # t => dep2[u] = dep[u]
      BY <1>1 DEF IsCleared
<1>4. /\ DOMAIN gen2 = DOMAIN gen \ R /\ DOMAIN pos2 = DOMAIN gen \ R
      /\ \A s \in DOMAIN gen \ R : gen2[s] = gen[s] /\ pos2[s] = pos[s]
      BY <1>1 DEF IsRest
<1>5. DOMAIN dep2[t] = {}
      BY <1>3
<1>6. \A x \in DOMAIN gen2 : /\ gen2[x].target \in DOMAIN dep2
                             /\ pos2[x] \in DOMAIN dep2[gen2[x].target]
                             /\ dep2[gen2[x].target][pos2[x]] = x
      BY <1>1, <1>2, <1>3, <1>4
<1>7. \A u \in DOMAIN dep2 : \A i \in DOMAIN dep2[u] :
          dep2[u][i] \in DOMAIN gen2 /\ gen2[dep2[u][i]].target = u /\ pos2[dep2[u][i]] = i
  <2>. SUFFICES ASSUME NEW u \in DOMAIN dep2, NEW i \in DOMAIN dep2[u]
                PROVE  dep2[u][i] \in DOMAIN gen2 /\ gen2[dep2[u][i]].target = u /\ pos2[dep2[u][i]] = i
       OBVIOUS
  <2>1. u # t /\ u \in DOMAIN dep /\ dep2[u] = dep[u]
        BY <1>3, <1>5
  <2>2. dep[u][i] \in DOMAIN gen /\ gen[dep[u][i]].target = u /\ pos[dep[u][i]] = i
        BY <1>1, <2>1
  <2>3. dep[u][i] \notin R
        BY <1>2, <2>1, <2>2
  <2>. QED BY <1>4, <2>1, <2>2, <2>3
<1>. QED BY <1>2, <1>3, <1>4, <1>6, <1>7 DEF Links

-----------------------------------------------------------------------------
(* Linking a state *)

IsRecord(p) ==
    p = [distances |-> p.distances, generating |-> p.generating, dependents |-> p.dependents,
         positions |-> p.positions, goals |-> p.goals, invalid |-> p.invalid]

\* q has other links than p.
Relinked(p, q) ==
    /\ IsRecord(q) /\ LinksMatch(q)
    /\ q.distances = p.distances /\ q.goals = p.goals /\ q.invalid = p.invalid
    /\ DOMAIN q.dependents = DOMAIN p.dependents

LEMMA UnlinkKeepsLinks ==
    ASSUME NEW p, IsRecord(p), LinksMatch(p), NEW s
    PROVE  /\ Relinked(p, Unlink(p, s))
           /\ DOMAIN Unlink(p, s).generating = DOMAIN p.generating \ {s}
           /\ \A x \in DOMAIN p.generating \ {s} : Unlink(p, s).generating[x] = p.generating[x]
<1>1. CASE s \notin DOMAIN p.generating
  <2>1. Unlink(p, s) = p
        BY <1>1 DEF Unlink
  <2>. QED BY <1>1, <2>1 DEF Relinked
<1>2. CASE s \in DOMAIN p.generating
  <2>. DEFINE t    == p.generating[s].target
              last == Last(p.dependents[t])
              gen2 == Without(p.generating, s)
              pos2 == Without(Put(p.positions, last, p.positions[s]), s)
              dep2 == [p.dependents EXCEPT ![t] = Front([p.dependents[t] EXCEPT ![p.positions[s]] = last])]
              q    == [distances |-> p.distances, generating |-> gen2, dependents |-> dep2,
                       positions |-> pos2, goals |-> p.goals, invalid |-> p.invalid]
  <2>1. Unlink(p, s) = q
        BY <1>2 DEF Unlink, IsRecord
  <2>2. Links(gen2, pos2, dep2)
        BY <1>2, UnlinkedLinks DEF LinksMatch
  <2>3. DOMAIN gen2 = DOMAIN p.generating \ {s} /\ \A x \in DOMAIN gen2 : gen2[x] = p.generating[x]
        BY DEF Without
  <2>4. DOMAIN dep2 = DOMAIN p.dependents
        OBVIOUS
  <2>. HIDE DEF gen2, pos2, dep2
  <2>. QED BY <2>1, <2>2, <2>3, <2>4 DEF Relinked, IsRecord, LinksMatch
<1>. QED BY <1>1, <1>2

LEMMA LinkKeepsLinks ==
    ASSUME NEW p, IsRecord(p), LinksMatch(p), NEW s \in Nat, NEW k, k.target \in DOMAIN p.dependents
    PROVE  /\ Relinked(p, Link(p, s, k))
           /\ Link(p, s, k).generating = Put(p.generating, s, k)
<1>. DEFINE q    == Unlink(p, s)
            gen2 == Put(q.generating, s, k)
            pos2 == Put(q.positions, s, Len(q.dependents[k.target]) + 1)
            dep2 == [q.dependents EXCEPT ![k.target] = Append(@, s)]
            r    == [distances |-> q.distances, generating |-> gen2, dependents |-> dep2,
                     positions |-> pos2, goals |-> q.goals, invalid |-> q.invalid]
<1>1. /\ Relinked(p, q) /\ DOMAIN q.generating = DOMAIN p.generating \ {s}
      /\ \A x \in DOMAIN p.generating \ {s} : q.generating[x] = p.generating[x]
      BY UnlinkKeepsLinks
<1>. HIDE DEF q
<1>2. Links(gen2, pos2, dep2)
      BY <1>1, LinkedLinks DEF Relinked, LinksMatch
<1>3. Link(p, s, k) = r
  <2>1. q = [distances |-> q.distances, generating |-> q.generating, dependents |-> q.dependents,
             positions |-> q.positions, goals |-> q.goals, invalid |-> q.invalid]
        BY <1>1 DEF Relinked, IsRecord
  <2>2. Link(p, s, k) = [q EXCEPT !.generating = gen2, !.positions = pos2, !.dependents = dep2]
        BY <2>1 DEF Link, q
  <2>. HIDE DEF gen2, pos2, dep2
  <2>. QED BY <2>1, <2>2
<1>4. gen2 = Put(p.generating, s, k)
      BY <1>1 DEF Put
<1>5. DOMAIN dep2 = DOMAIN p.dependents
      BY <1>1 DEF Relinked
<1>. HIDE DEF gen2, pos2, dep2
<1>. QED BY <1>1, <1>2, <1>3, <1>4, <1>5 DEF Relinked, IsRecord, LinksMatch

\* Linking the states of via up to n, one after the other.
LinkNext(via, q, n) == IF n \in DOMAIN via THEN Link(q, n, via[n]) ELSE q
LinkStep(p, via, g, n) == IF n = 0 THEN p ELSE LinkNext(via, g[n - 1], n)
LinksUpTo(p, via, g, m) == g = [n \in 0..m |-> LinkStep(p, via, g, n)]

LEMMA LinksExist ==
    ASSUME NEW p, NEW via, NEW N \in Nat
    PROVE  \E g : LinksUpTo(p, via, g, N)
<1>. DEFINE Bad == {m \in Nat : ~ \E g : LinksUpTo(p, via, g, m)}
<1>. SUFFICES ASSUME Bad # {} PROVE FALSE
     OBVIOUS
<1>1. PICK m \in Bad : \A n \in Bad : m <= n
  <2>1. Bad \in SUBSET Nat
        OBVIOUS
  <2>. HIDE DEF Bad
  <2>. QED BY <2>1, LeastNatural
<1>2. m # 0
  <2>. DEFINE g == [n \in 0..0 |-> p]
  <2>1. LinksUpTo(p, via, g, 0)
        BY DEF LinksUpTo, LinkStep
  <2>. HIDE DEF g
  <2>. QED BY <2>1
<1>3. m - 1 \in Nat /\ m - 1 \notin Bad
  <2>1. m \in Nat
        OBVIOUS
  <2>. HIDE DEF Bad
  <2>. QED BY <1>1, <1>2, <2>1
<1>4. PICK f : LinksUpTo(p, via, f, m - 1)
      BY <1>3
<1>. DEFINE g == [n \in 0..m |-> IF n = m THEN LinkStep(p, via, f, n) ELSE f[n]]
<1>5. m \in Nat
      OBVIOUS
<1>. HIDE DEF Bad
<1>6. \A n \in 0..m : LinkStep(p, via, g, n) = LinkStep(p, via, f, n)
  <2>. SUFFICES ASSUME NEW n \in 0..m, n # 0 PROVE g[n - 1] = f[n - 1]
       BY DEF LinkStep
  <2>1. n - 1 \in 0..m /\ n - 1 # m
        BY <1>5
  <2>. QED BY <2>1
<1>7. \A n \in 0..m : n # m => f[n] = LinkStep(p, via, f, n)
  <2>1. \A n \in 0..m : n # m => n \in 0..m - 1
        BY <1>5
  <2>. QED BY <1>4, <2>1 DEF LinksUpTo
<1>8. g = [n \in 0..m |-> LinkStep(p, via, f, n)]
      BY <1>7
<1>. HIDE DEF g
<1>9. LinksUpTo(p, via, g, m)
      BY <1>6, <1>8 DEF LinksUpTo
<1>. QED BY <1>1, <1>9 DEF Bad

\* What has been linked up to n.
LinkedTo(p, via, q, n) ==
    /\ Relinked(p, q)
    /\ DOMAIN q.generating = DOMAIN p.generating \cup (DOMAIN via \cap 1..n)
    /\ \A x \in DOMAIN q.generating :
           q.generating[x] = IF x \in DOMAIN via \cap 1..n THEN via[x] ELSE p.generating[x]

LEMMA LinkNextLinks ==
    ASSUME NEW p, NEW via, NEW n \in Nat \ {0}, NEW q, LinkedTo(p, via, q, n - 1),
           \A x \in DOMAIN via : via[x].target \in DOMAIN p.dependents
    PROVE  LinkedTo(p, via, LinkNext(via, q, n), n)
<1>1. \A x : x \in 1..n <=> x \in 1..n - 1 \/ x = n
      OBVIOUS
<1>2. n \notin 1..n - 1
      OBVIOUS
<1>3. CASE n \notin DOMAIN via
  <2>1. DOMAIN via \cap 1..n = DOMAIN via \cap 1..n - 1 /\ LinkNext(via, q, n) = q
        BY <1>1, <1>3 DEF LinkNext
  <2>. QED BY <2>1 DEF LinkedTo
<1>4. CASE n \in DOMAIN via
  <2>. DEFINE r == Link(q, n, via[n])
  <2>1. Relinked(p, q) /\ IsRecord(q) /\ LinksMatch(q) /\ via[n].target \in DOMAIN q.dependents
        BY <1>4 DEF LinkedTo, Relinked
  <2>2. Relinked(q, r) /\ r.generating = Put(q.generating, n, via[n])
        BY <2>1, LinkKeepsLinks
  <2>3. Relinked(p, r)
        BY <2>1, <2>2 DEF Relinked
  <2>4. LinkNext(via, q, n) = r
        BY <1>4 DEF LinkNext
  <2>. HIDE DEF r
  <2>5. DOMAIN r.generating = DOMAIN p.generating \cup (DOMAIN via \cap 1..n)
        BY <1>1, <1>4, <2>2 DEF LinkedTo, Put
  <2>6. ASSUME NEW x \in DOMAIN r.generating
        PROVE  r.generating[x] = IF x \in DOMAIN via \cap 1..n THEN via[x] ELSE p.generating[x]
    <3>1. CASE x = n
          BY <1>1, <1>4, <2>2, <3>1 DEF Put
    <3>2. CASE x # n
      <4>1. x \in DOMAIN q.generating /\ r.generating[x] = q.generating[x]
            BY <2>2, <2>6, <3>2 DEF Put
      <4>2. x \in DOMAIN via \cap 1..n <=> x \in DOMAIN via \cap 1..n - 1
            BY <1>1, <3>2
      <4>. QED BY <4>1, <4>2 DEF LinkedTo
    <3>. QED BY <3>1, <3>2
  <2>. QED BY <2>3, <2>4, <2>5, <2>6 DEF LinkedTo
<1>. QED BY <1>3, <1>4

\* Linking all states of via gives them the transitions of via, and keeps the lists right.
LEMMA LinkAllLinks ==
    ASSUME NEW p, IsRecord(p), LinksMatch(p), Len(regions) \in Nat,
           NEW via, DOMAIN via \subseteq AbstractStates,
           \A x \in DOMAIN via : via[x].target \in DOMAIN p.dependents
    PROVE  /\ Relinked(p, LinkAll(p, via))
           /\ DOMAIN LinkAll(p, via).generating = DOMAIN p.generating \cup DOMAIN via
           /\ \A x \in DOMAIN p.generating \cup DOMAIN via :
                  LinkAll(p, via).generating[x] = IF x \in DOMAIN via THEN via[x] ELSE p.generating[x]
<1>. DEFINE N == Len(regions)
            g == CHOOSE f : LinksUpTo(p, via, f, N)
            Bad == {n \in Nat : n <= N /\ ~ LinkedTo(p, via, g[n], n)}
<1>1. LinkAll(p, via) = g[N]
      BY DEF LinkAll, LinksUpTo, LinkStep, LinkNext
<1>2. LinksUpTo(p, via, g, N)
      BY LinksExist
<1>3. N \in Nat
      OBVIOUS
<1>. HIDE DEF g, N
<1>4. \A n \in 0..N : g[n] = LinkStep(p, via, g, n)
      BY <1>2 DEF LinksUpTo
<1>5. Bad = {}
  <2>. SUFFICES ASSUME Bad # {} PROVE FALSE
       OBVIOUS
  <2>1. PICK m \in Bad : \A n \in Bad : m <= n
    <3>1. Bad \in SUBSET Nat
          OBVIOUS
    <3>. HIDE DEF Bad
    <3>. QED BY <3>1, LeastNatural
  <2>2. m \in 0..N /\ m \in Nat
        BY <1>3
  <2>3. m # 0
    <3>1. ASSUME m = 0 PROVE FALSE
      <4>1. g[0] = p
            BY <1>3, <1>4 DEF LinkStep
      <4>2. DOMAIN via \cap 1..0 = {}
            OBVIOUS
      <4>3. LinkedTo(p, via, p, 0)
            BY <4>2 DEF LinkedTo, Relinked
      <4>. QED BY <3>1, <4>1, <4>3
    <3>. QED BY <3>1
  <2>4. m - 1 \in Nat /\ m - 1 <= N /\ LinkedTo(p, via, g[m - 1], m - 1)
    <3>1. m - 1 \in Nat /\ m - 1 <= N /\ m - 1 \notin Bad
      <4>. HIDE DEF Bad
      <4>. QED BY <1>3, <2>1, <2>2, <2>3
    <3>. QED BY <3>1
  <2>5. g[m] = LinkNext(via, g[m - 1], m)
        BY <1>4, <2>2, <2>3 DEF LinkStep
  <2>6. LinkedTo(p, via, g[m], m)
        BY <2>2, <2>3, <2>4, <2>5, LinkNextLinks
  <2>. QED BY <2>6
<1>6. LinkedTo(p, via, g[N], N)
      BY <1>3, <1>5
<1>7. DOMAIN via \cap 1..N = DOMAIN via
      BY DEF AbstractStates, N
<1>. QED BY <1>1, <1>6, <1>7 DEF LinkedTo

-----------------------------------------------------------------------------
(***************************************************************************)
(* Shortest paths p, while they are repaired for the states O.  A state    *)
(* with a distance is known.                                               *)
(***************************************************************************)

Known(p) == DOMAIN p.distances

\* The source of k is no farther than over k.
Drops(p, k) ==
    k.target \in Known(p) =>
        k.source \in Known(p) /\ p.distances[k.source] <= p.distances[k.target] + Cost(k.operator)

\* Following next leads out of every set of states in the end.
IsForest(next) == \A T \in SUBSET DOMAIN next : T # {} => \E s \in T : next[s].target \notin T

\* s is left by the transition that its path starts with, and is no nearer than that says.
IsLeft(p, s) ==
    LET k == p.generating[s]
    IN  /\ IsStep(k) /\ k.source = s /\ k.target # s
        /\ k.target \in Known(p)
        /\ p.distances[s] >= p.distances[k.target] + Cost(k.operator)

ArePaths(p) ==
    /\ IsRecord(p)
    /\ Known(p) \subseteq AbstractStates
    /\ \A s \in Known(p) : Resolved(p.distances[s])
    /\ p.goals \subseteq AbstractStates /\ p.invalid \subseteq AbstractStates
    /\ DOMAIN p.generating \subseteq Known(p) \ p.goals
    /\ \A s \in DOMAIN p.generating : IsLeft(p, s)
    /\ IsForest(p.generating)

GoalsAreKnown(p) == \A s \in p.goals : s \in Known(p) /\ p.distances[s] = 0
GoalsAre(p, S) == \A s \in S : s \in p.goals <=> IsGoal(regions[s])
AreLed(p) == \A s \in Known(p) \ p.goals : s \in DOMAIN p.generating /\ p.generating[s] \in LiveKeys

\* f is below the distances, which only open states may exceed.
LowerBound(p, O, X, f) ==
    /\ Known(p) \subseteq X
    /\ \A k \in LiveKeys : k.target \in X => k.source \in X /\ f[k.source] <= f[k.target] + Cost(k.operator)
    /\ \A s \in Known(p) : f[s] <= p.distances[s]
    /\ \A s \in X \ O : s \in Known(p) /\ f[s] = p.distances[s]
IsBoundedBelow(p, O) == \E X \in SUBSET AbstractStates : \E f \in [X -> Nat] : LowerBound(p, O, X, f)

AreRepairable(p, O) ==
    /\ GoalsAreKnown(p) /\ GoalsAre(p, AbstractStates)
    /\ AreLed(p)
    /\ \A s \in DOMAIN p.generating : s \notin O => p.generating[s].target \notin O
    /\ IsBoundedBelow(p, O)

\* The transitions from open states into s and those of s to states that are not open
\* have been taken into account.
IsRelaxed(p, O, s) == \A k \in LiveKeys : k.target = s /\ k.source \in O => Drops(p, k)
IsBounded(p, O, s) == \A k \in LiveKeys : k.source = s /\ k.target \notin O => Drops(p, k)

LiveAreSteps == \A k \in LiveKeys : IsStep(k) /\ k.source # k.target

LEMMA CostFacts ==
    ASSUME CostsAreResolved, task \in Tasks, NEW o \in Names
    PROVE  Resolved(Cost(o)) /\ Cost(o) \in Nat
    BY DEF CostsAreResolved, Names, Cost, Resolved

\* The states of S are given a transition each to a state t, over which they are nearer.
\* Via is what they are given.
IsRelink(p, q, S, via, t) ==
    /\ IsRecord(q) /\ q.goals = p.goals /\ q.invalid = p.invalid
    /\ DOMAIN q.distances = DOMAIN p.distances \cup S
    /\ \A x \in DOMAIN q.distances :
           q.distances[x] = IF x \in S THEN p.distances[t] + Cost(via[x].operator) ELSE p.distances[x]
    /\ DOMAIN q.generating = DOMAIN p.generating \cup S
    /\ \A x \in DOMAIN q.generating : q.generating[x] = IF x \in S THEN via[x] ELSE p.generating[x]

IsNearerVia(p, S, via, t) ==
    \A s \in S :
        /\ via[s] \in LiveKeys /\ via[s].source = s /\ via[s].target = t
        /\ s \in Known(p) => p.distances[t] + Cost(via[s].operator) < p.distances[s]

\* What a relink does to the distances.
LEMMA RelinkDistances ==
    ASSUME CostsAreResolved, task \in Tasks, LiveAreSteps,
           NEW p, ArePaths(p), NEW S, NEW via, NEW t \in Known(p), IsNearerVia(p, S, via, t),
           NEW q, IsRelink(p, q, S, via, t)
    PROVE  /\ t \notin S
           /\ Known(q) = Known(p) \cup S
           /\ \A x \in Known(q) : Resolved(q.distances[x]) /\ q.distances[x] \in Nat
           /\ \A x \in Known(p) : p.distances[x] \in Nat /\ q.distances[x] <= p.distances[x]
           /\ \A x \in Known(p) \ S : q.distances[x] = p.distances[x]
           /\ \A x \in S : q.distances[x] = q.distances[t] + Cost(via[x].operator)
           /\ q.distances[t] = p.distances[t]
<1>1. \A x \in Known(p) : Resolved(p.distances[x]) /\ p.distances[x] \in Nat
      BY DEF ArePaths, Resolved
<1>2. \A x \in S : Resolved(Cost(via[x].operator)) /\ Cost(via[x].operator) \in Nat
      BY CostFacts DEF IsNearerVia, LiveAreSteps, IsStep
<1>3. t \notin S
      BY DEF IsNearerVia, LiveAreSteps
<1>4. Known(q) = Known(p) \cup S
      BY DEF Known, IsRelink
<1>5. \A x \in Known(q) : q.distances[x] = IF x \in S THEN p.distances[t] + Cost(via[x].operator)
                                                     ELSE p.distances[x]
      BY DEF Known, IsRelink
<1>6. ASSUME NEW x \in Known(q) PROVE Resolved(q.distances[x]) /\ q.distances[x] \in Nat
  <2>1. Resolved(q.distances[x])
        BY <1>1, <1>2, <1>4, <1>5, ResolvedSums
  <2>. QED BY <2>1 DEF Resolved
<1>7. ASSUME NEW x \in Known(p) PROVE q.distances[x] <= p.distances[x]
  <2>1. CASE x \in S
    <3>1. p.distances[t] + Cost(via[x].operator) < p.distances[x]
          BY <2>1 DEF IsNearerVia
    <3>. QED BY <1>1, <1>2, <1>4, <1>5, <2>1, <3>1
  <2>2. CASE x \notin S
        BY <1>1, <1>4, <1>5, <2>2
  <2>. QED BY <2>1, <2>2
<1>. QED BY <1>1, <1>3, <1>4, <1>5, <1>6, <1>7

\* Following the transitions still leads nowhere in a circle.
LEMMA RelinkForest ==
    ASSUME CostsAreResolved, task \in Tasks, LiveAreSteps,
           NEW p, ArePaths(p), NEW S, NEW via, NEW t \in Known(p), IsNearerVia(p, S, via, t),
           NEW q, IsRelink(p, q, S, via, t)
    PROVE  IsForest(q.generating)
<1>. SUFFICES ASSUME NEW T \in SUBSET DOMAIN q.generating, T # {}
              PROVE  \E s \in T : q.generating[s].target \notin T
     BY DEF IsForest
<1>1. /\ DOMAIN q.generating = DOMAIN p.generating \cup S
      /\ \A x \in S : q.generating[x] = via[x] /\ via[x].target = t
      /\ \A x \in DOMAIN p.generating \ S : q.generating[x] = p.generating[x]
      BY DEF IsRelink, IsNearerVia
<1>2. \A U \in SUBSET DOMAIN p.generating : U # {} => \E s \in U : p.generating[s].target \notin U
      BY DEF ArePaths, IsForest
<1>3. CASE t \notin T
  <2>1. CASE T \cap S # {}
        BY <1>1, <1>3, <2>1
  <2>2. CASE T \cap S = {}
    <3>1. T \in SUBSET DOMAIN p.generating
          BY <1>1, <2>2
    <3>2. PICK s \in T : p.generating[s].target \notin T
          BY <1>2, <3>1
    <3>. QED BY <1>1, <2>2, <3>1, <3>2
  <2>. QED BY <2>1, <2>2
<1>4. CASE t \in T
  <2>. DEFINE U == {x \in T \ S : x \in Known(p) /\ p.distances[x] <= p.distances[t]}
  <2>1. \A x \in Known(p) : p.distances[x] \in Nat
        BY DEF ArePaths, Resolved
  <2>2. t \in U
        BY <1>4, <2>1, RelinkDistances
  <2>3. U \in SUBSET DOMAIN p.generating
        BY <1>1
  <2>4. PICK s \in U : p.generating[s].target \notin U
    <3>. HIDE DEF U
    <3>. QED BY <1>2, <2>2, <2>3
  <2>. DEFINE k == p.generating[s]
  <2>5. /\ k.operator \in Names /\ k.target \in Known(p)
        /\ p.distances[s] >= p.distances[k.target] + Cost(k.operator)
        BY <2>3 DEF ArePaths, IsLeft, IsStep
  <2>6. Cost(k.operator) \in Nat
        BY <2>5, CostFacts
  <2>7. p.distances[k.target] <= p.distances[t]
        BY <2>1, <2>5, <2>6
  <2>8. k.target \notin S
    <3>1. ASSUME k.target \in S PROVE FALSE
      <4>1. p.distances[t] + Cost(via[k.target].operator) < p.distances[k.target]
            BY <2>5, <3>1 DEF IsNearerVia
      <4>2. Cost(via[k.target].operator) \in Nat
            BY <3>1, CostFacts DEF IsNearerVia, LiveAreSteps, IsStep
      <4>. QED BY <2>1, <2>5, <2>7, <4>1, <4>2
    <3>. QED BY <3>1
  <2>9. k.target \notin T
        BY <2>4, <2>5, <2>7, <2>8
  <2>10. s \in T /\ q.generating[s] = k
        BY <1>1, <2>3
  <2>. QED BY <2>9, <2>10
<1>. QED BY <1>3, <1>4

LEMMA RelinkKeepsPaths ==
    ASSUME CostsAreResolved, task \in Tasks, LiveAreSteps,
           NEW p, ArePaths(p), GoalsAreKnown(p),
           NEW S \in SUBSET AbstractStates, NEW via, NEW t \in Known(p), IsNearerVia(p, S, via, t),
           NEW q, IsRelink(p, q, S, via, t)
    PROVE  ArePaths(q)
<1>1. /\ t \notin S /\ Known(q) = Known(p) \cup S
      /\ \A x \in Known(q) : Resolved(q.distances[x]) /\ q.distances[x] \in Nat
      /\ \A x \in Known(p) : p.distances[x] \in Nat /\ q.distances[x] <= p.distances[x]
      /\ \A x \in Known(p) \ S : q.distances[x] = p.distances[x]
      /\ \A x \in S : q.distances[x] = q.distances[t] + Cost(via[x].operator)
      BY RelinkDistances
<1>2. /\ DOMAIN q.generating = DOMAIN p.generating \cup S
      /\ \A x \in S : q.generating[x] = via[x]
      /\ \A x \in DOMAIN p.generating \ S : q.generating[x] = p.generating[x]
      /\ q.goals = p.goals /\ q.invalid = p.invalid /\ IsRecord(q)
      BY DEF IsRelink
<1>3. S \cap p.goals = {}
  <2>. SUFFICES ASSUME NEW s \in S, s \in p.goals PROVE FALSE
       OBVIOUS
  <2>1. p.distances[t] + Cost(via[s].operator) < 0
        BY DEF GoalsAreKnown, IsNearerVia
  <2>2. p.distances[t] \in Nat /\ Cost(via[s].operator) \in Nat
        BY <1>1, CostFacts DEF IsNearerVia, LiveAreSteps, IsStep
  <2>. QED BY <2>1, <2>2
<1>4. DOMAIN q.generating \subseteq Known(q) \ q.goals
      BY <1>1, <1>2, <1>3 DEF ArePaths
<1>5. ASSUME NEW s \in DOMAIN q.generating PROVE IsLeft(q, s)
  <2>1. CASE s \in S
    <3>1. via[s] \in LiveKeys /\ via[s].source = s /\ via[s].target = t
          BY <2>1 DEF IsNearerVia
    <3>2. q.distances[s] >= q.distances[t] + Cost(via[s].operator)
          BY <1>1, <2>1
    <3>. QED BY <1>1, <1>2, <2>1, <3>1, <3>2 DEF IsLeft, LiveAreSteps
  <2>2. CASE s \notin S
    <3>. DEFINE k == p.generating[s]
    <3>1. s \in DOMAIN p.generating /\ q.generating[s] = k /\ s \in Known(p)
          BY <1>2, <2>2 DEF ArePaths
    <3>2. /\ IsStep(k) /\ k.source = s /\ k.target # s
          /\ k.target \in Known(p)
          /\ p.distances[s] >= p.distances[k.target] + Cost(k.operator)
          BY <3>1 DEF ArePaths, IsLeft
    <3>3. Cost(k.operator) \in Nat
          BY <3>2, CostFacts DEF IsStep
    <3>4. q.distances[s] = p.distances[s] /\ q.distances[k.target] <= p.distances[k.target]
          BY <1>1, <2>2, <3>1, <3>2
    <3>5. q.distances[s] >= q.distances[k.target] + Cost(k.operator)
          BY <1>1, <3>1, <3>2, <3>3, <3>4
    <3>. QED BY <1>1, <3>1, <3>2, <3>5 DEF IsLeft
  <2>. QED BY <2>1, <2>2
<1>6. IsForest(q.generating)
      BY RelinkForest
<1>7. Known(q) \subseteq AbstractStates
      BY <1>1 DEF ArePaths
<1>. QED BY <1>1, <1>2, <1>4, <1>5, <1>6, <1>7 DEF ArePaths

LEMMA RelinkKeepsRepair ==
    ASSUME CostsAreResolved, task \in Tasks, LiveAreSteps,
           NEW p, ArePaths(p), NEW O, AreRepairable(p, O),
           NEW S \in SUBSET AbstractStates, S \subseteq O,
           NEW via, NEW t \in Known(p), IsNearerVia(p, S, via, t),
           NEW q, IsRelink(p, q, S, via, t)
    PROVE  /\ AreRepairable(q, O)
           /\ \A x \in O \ S : IsBounded(p, O, x) => IsBounded(q, O, x)
           /\ \A x \in S : x \in Known(p) /\ IsBounded(p, O, x) => IsBounded(q, O, x)
<1>1. /\ t \notin S /\ Known(q) = Known(p) \cup S
      /\ \A x \in Known(q) : Resolved(q.distances[x]) /\ q.distances[x] \in Nat
      /\ \A x \in Known(p) : p.distances[x] \in Nat /\ q.distances[x] <= p.distances[x]
      /\ \A x \in Known(p) \ S : q.distances[x] = p.distances[x]
      /\ \A x \in S : q.distances[x] = q.distances[t] + Cost(via[x].operator)
      /\ q.distances[t] = p.distances[t]
      BY RelinkDistances
<1>2. /\ DOMAIN q.generating = DOMAIN p.generating \cup S
      /\ \A x \in S : q.generating[x] = via[x]
      /\ \A x \in DOMAIN p.generating \ S : q.generating[x] = p.generating[x]
      /\ q.goals = p.goals
      BY DEF IsRelink
<1>3. S \cap q.goals = {}
      BY <1>2, RelinkKeepsPaths DEF AreRepairable, ArePaths
<1>4. GoalsAreKnown(q) /\ GoalsAre(q, AbstractStates)
      BY <1>1, <1>2, <1>3 DEF AreRepairable, GoalsAreKnown, GoalsAre
<1>5. AreLed(q)
      BY <1>1, <1>2 DEF AreRepairable, AreLed, IsNearerVia
<1>6. \A s \in DOMAIN q.generating : s \notin O => q.generating[s].target \notin O
      BY <1>2 DEF AreRepairable
<1>7. IsBoundedBelow(q, O)
  <2>1. PICK X \in SUBSET AbstractStates : \E f \in [X -> Nat] : LowerBound(p, O, X, f)
        BY DEF AreRepairable, IsBoundedBelow
  <2>2. PICK f \in [X -> Nat] : LowerBound(p, O, X, f)
        BY <2>1
  <2>3. t \in X /\ f[t] <= p.distances[t]
        BY <2>2 DEF LowerBound
  <2>4. ASSUME NEW s \in S PROVE s \in X /\ f[s] <= q.distances[s]
    <3>1. via[s] \in LiveKeys /\ via[s].source = s /\ via[s].target = t
          BY DEF IsNearerVia
    <3>2. s \in X /\ f[s] <= f[t] + Cost(via[s].operator)
          BY <2>2, <2>3, <3>1 DEF LowerBound
    <3>3. Cost(via[s].operator) \in Nat
          BY <3>1, CostFacts DEF LiveAreSteps, IsStep
    <3>4. f[s] \in Nat /\ f[t] \in Nat /\ p.distances[t] \in Nat
          BY <1>1, <2>3, <3>2
    <3>. QED BY <1>1, <2>3, <3>2, <3>3, <3>4
  <2>5. \A s \in Known(q) : s \in X /\ f[s] <= q.distances[s]
        BY <1>1, <2>2, <2>4 DEF LowerBound
  <2>6. \A s \in X \ O : s \in Known(q) /\ f[s] = q.distances[s]
        BY <1>1, <2>2 DEF LowerBound
  <2>7. \A k \in LiveKeys : k.target \in X => k.source \in X /\ f[k.source] <= f[k.target] + Cost(k.operator)
        BY <2>2 DEF LowerBound
  <2>8. LowerBound(q, O, X, f)
        BY <2>5, <2>6, <2>7 DEF LowerBound
  <2>. QED BY <2>8 DEF IsBoundedBelow
<1>8. ASSUME NEW x \in O, x \in S => x \in Known(p), IsBounded(p, O, x) PROVE IsBounded(q, O, x)
  <2>. SUFFICES ASSUME NEW k \in LiveKeys, k.source = x, k.target \notin O, k.target \in Known(q)
                PROVE  k.source \in Known(q) /\ q.distances[k.source] <= q.distances[k.target] + Cost(k.operator)
       BY DEF IsBounded, Drops
  <2>1. k.target \in Known(p) \ S
        BY <1>1
  <2>2. x \in Known(p) /\ p.distances[x] <= p.distances[k.target] + Cost(k.operator)
        BY <1>8, <2>1 DEF IsBounded, Drops
  <2>3. Cost(k.operator) \in Nat
        BY CostFacts DEF LiveAreSteps, IsStep
  <2>4. q.distances[k.target] = p.distances[k.target] /\ q.distances[x] <= p.distances[x]
        BY <1>1, <2>1, <2>2
  <2>. QED BY <1>1, <2>1, <2>2, <2>3, <2>4
<1>9. \A x \in O \ S : IsBounded(p, O, x) => IsBounded(q, O, x)
      BY <1>8
<1>10. \A x \in S : x \in Known(p) /\ IsBounded(p, O, x) => IsBounded(q, O, x)
      BY <1>8
<1>. QED BY <1>4, <1>5, <1>6, <1>7, <1>9, <1>10 DEF AreRepairable

-----------------------------------------------------------------------------
(* One state's transitions, and the top of the heap *)

LEMMA RefinementFacts ==
    ASSUME RefinementInvariant
    PROVE  /\ task \in Tasks
           /\ Len(regions) \in Nat \ {0} /\ AbstractStates = 1..Len(regions)
           /\ LiveAreSteps
           /\ TableStates = AbstractStates
           /\ TableInvariant
           /\ pc # "detach" => tableState = "stored"
    BY DEF RefinementInvariant, SplitsInvariant, TableMatches, TableInvariant, TableIsConsistent,
           IndexMatchesSlots, AbstractStates, LiveAreSteps, LiveKeysAreSteps

LEMMA ListsAreLive ==
    ASSUME TableInvariant, tableState = "stored", NEW s \in TableStates
    PROVE  /\ OutOf(s) = {k \in LiveKeys : k.source = s}
           /\ IntoOpen(s) = {k \in LiveKeys : k.target = s /\ k.source \in Open}
<1>1. /\ \A i \in DOMAIN slots : slots[i] \in LiveKeys
      /\ \A k \in LiveKeys : ids[k] \in DOMAIN slots /\ slots[ids[k]] = k
      BY DEF TableInvariant, TableIsConsistent, IndexMatchesSlots
<1>2. /\ outgoing[s] = {i \in DOMAIN slots : slots[i].source = s}
      /\ incoming[s] = {i \in DOMAIN slots : slots[i].target = s}
      BY DEF TableInvariant, TableIsConsistent, ListsMatchSlots, Occupied
<1>3. \A k : k \in OutOf(s) <=> k \in LiveKeys /\ k.source = s
      BY <1>1, <1>2 DEF OutOf
<1>4. \A k : k \in IntoOpen(s) <=> k \in LiveKeys /\ k.target = s /\ k.source \in Open
      BY <1>1, <1>2 DEF IntoOpen
<1>. QED BY <1>3, <1>4

LEMMA TopFacts ==
    ASSUME Len(regions) \in Nat, heap # {}, \A e \in heap : e[1] \in Nat /\ e[2] \in AbstractStates
    PROVE  Top \in heap /\ \A f \in heap : Top[1] <= f[1]
<1>. DEFINE Firsts == {e[1] : e \in heap}
<1>1. PICK c \in Firsts : \A d \in Firsts : c <= d
  <2>1. Firsts \in SUBSET Nat /\ Firsts # {}
        OBVIOUS
  <2>. HIDE DEF Firsts
  <2>. QED BY <2>1, LeastNatural
<1>2. c \in Nat /\ \A f \in heap : c <= f[1]
      BY <1>1
<1>. DEFINE Behind == {Len(regions) - e[2] : e \in {f \in heap : f[1] = c}}
<1>3. PICK b \in Behind : \A d \in Behind : b <= d
  <2>1. Behind \in SUBSET Nat
        BY DEF AbstractStates
  <2>2. Behind # {}
        BY <1>1
  <2>. HIDE DEF Behind
  <2>. QED BY <2>1, <2>2, LeastNatural
<1>4. PICK e \in heap : e[1] = c /\ b = Len(regions) - e[2]
      BY <1>3
<1>5. ASSUME NEW f \in heap PROVE e[1] < f[1] \/ (e[1] = f[1] /\ e[2] >= f[2])
  <2>1. CASE f[1] = c
    <3>1. b <= Len(regions) - f[2]
          BY <1>3, <2>1
    <3>. QED BY <1>4, <2>1, <3>1 DEF AbstractStates
  <2>2. CASE f[1] # c
        BY <1>2, <1>4, <2>2
  <2>. QED BY <2>1, <2>2
<1>6. Top \in heap /\ \A f \in heap : Top[1] < f[1] \/ (Top[1] = f[1] /\ Top[2] >= f[2])
      BY <1>5 DEF Top
<1>. QED BY <1>6

-----------------------------------------------------------------------------
(* Expanding a state *)

HeapHolds(p, O, h) ==
    \A e \in h : /\ e = <<e[1], e[2]>> /\ e[2] \in Known(p) \cap O
                 /\ Resolved(e[1]) /\ e[1] >= p.distances[e[2]]

ExpandHolds(p, O, h) ==
    /\ HeapHolds(p, O, h)
    /\ \A s \in O : IsBounded(p, O, s)
    /\ \A s \in Known(p) \cap O : <<p.distances[s], s>> \in h \/ IsRelaxed(p, O, s)

\* The links, which are not kept before the first distances are complete.
LinksHold(p) ==
    IF iteration = 0
    THEN p.dependents = [s \in AbstractStates |-> <<>>] /\ DOMAIN p.positions = {} /\ p.invalid = {}
    ELSE LinksMatch(p) /\ DOMAIN p.dependents = AbstractStates

LEMMA RecordIsRelink ==
    ASSUME ArePaths(paths), LinksHold(paths), Len(regions) \in Nat, LiveAreSteps,
           NEW S \in SUBSET AbstractStates, NEW via, DOMAIN via = S,
           NEW t \in Known(paths), IsNearerVia(paths, S, via, t)
    PROVE  /\ IsRelink(paths, Record(via, paths.distances[t]), S, via, t)
           /\ LinksHold(Record(via, paths.distances[t]))
<1>. DEFINE c == paths.distances[t]
            gen == [s \in DOMAIN paths.generating \cup DOMAIN via |->
                       IF s \in DOMAIN via THEN via[s] ELSE paths.generating[s]]
            p == IF iteration = 0 THEN [paths EXCEPT !.generating = gen] ELSE LinkAll(paths, via)
            q == Record(via, c)
            dist == [s \in DOMAIN p.distances \cup S |->
                        IF s \in S THEN c + Cost(via[s].operator) ELSE p.distances[s]]
<1>1. IsRecord(paths)
      BY DEF ArePaths
<1>2. /\ IsRecord(p) /\ p.distances = paths.distances /\ p.goals = paths.goals /\ p.invalid = paths.invalid
      /\ DOMAIN p.generating = DOMAIN paths.generating \cup S
      /\ \A x \in DOMAIN p.generating : p.generating[x] = IF x \in S THEN via[x] ELSE paths.generating[x]
      /\ LinksHold(p)
  <2>1. CASE iteration = 0
    <3>1. p = [distances |-> paths.distances, generating |-> gen, dependents |-> paths.dependents,
               positions |-> paths.positions, goals |-> paths.goals, invalid |-> paths.invalid]
          BY <1>1, <2>1 DEF IsRecord
    <3>. HIDE DEF p
    <3>2. p.generating = gen /\ p.dependents = paths.dependents /\ p.positions = paths.positions
          BY <3>1
    <3>. QED BY <1>1, <2>1, <3>1, <3>2 DEF LinksHold, IsRecord
  <2>2. CASE iteration # 0
    <3>1. LinksMatch(paths) /\ DOMAIN paths.dependents = AbstractStates
          BY <2>2 DEF LinksHold
    <3>2. \A x \in DOMAIN via : via[x].target \in DOMAIN paths.dependents
          BY <3>1 DEF IsNearerVia, LiveAreSteps, IsStep
    <3>3. /\ Relinked(paths, LinkAll(paths, via))
          /\ DOMAIN LinkAll(paths, via).generating = DOMAIN paths.generating \cup DOMAIN via
          /\ \A x \in DOMAIN paths.generating \cup DOMAIN via :
                 LinkAll(paths, via).generating[x] = IF x \in DOMAIN via THEN via[x] ELSE paths.generating[x]
          BY <1>1, <3>1, <3>2, LinkAllLinks
    <3>4. p = LinkAll(paths, via)
          BY <2>2
    <3>. HIDE DEF p
    <3>. QED BY <2>2, <3>1, <3>3, <3>4 DEF Relinked, LinksHold
  <2>. QED BY <2>1, <2>2
<1>3. q = [p EXCEPT !.distances = dist]
  <2>1. q = [p EXCEPT !.distances = [s \in DOMAIN @ \cup DOMAIN via |->
                                        IF s \in DOMAIN via THEN c + Cost(via[s].operator) ELSE @[s]]]
        BY DEF Record
  <2>. HIDE DEF p, q, c
  <2>2. IsRecord(p)
        BY <1>2
  <2>. QED BY <2>1, <2>2 DEF IsRecord
<1>. HIDE DEF p, q
<1>4. /\ IsRecord(q) /\ q.distances = dist /\ q.generating = p.generating /\ q.goals = p.goals
      /\ q.invalid = p.invalid /\ q.dependents = p.dependents /\ q.positions = p.positions
  <2>. HIDE DEF dist
  <2>1. q = [distances |-> dist, generating |-> p.generating, dependents |-> p.dependents,
             positions |-> p.positions, goals |-> p.goals, invalid |-> p.invalid]
        BY <1>2, <1>3 DEF IsRecord
  <2>. QED BY <2>1 DEF IsRecord
<1>5. LinksHold(q)
      BY <1>2, <1>4 DEF LinksHold, LinksMatch
<1>6. IsRelink(paths, q, S, via, t)
      BY <1>2, <1>4 DEF IsRelink
<1>. QED BY <1>5, <1>6 DEF q, c

\* What an expansion takes from the heap.
LEMMA TopIsKnown ==
    ASSUME ArePaths(paths), HeapHolds(paths, Open, heap), heap # {}, Len(regions) \in Nat
    PROVE  /\ Top \in heap /\ Top = <<Top[1], Top[2]>> /\ Top[2] \in Known(paths) \cap Open
           /\ Resolved(Top[1]) /\ Top[1] \in Nat /\ paths.distances[Top[2]] \in Nat
           /\ Resolved(paths.distances[Top[2]])
           /\ \A f \in heap : Top[1] <= f[1]
           /\ ~ (Top[1] > paths.distances[Top[2]] + Tolerance) => Top[1] = paths.distances[Top[2]]
<1>1. \A e \in heap : e[1] \in Nat /\ e[2] \in AbstractStates
      BY DEF HeapHolds, ArePaths, Resolved
<1>2. Top \in heap /\ \A f \in heap : Top[1] <= f[1]
      BY <1>1, TopFacts
<1>3. /\ Top = <<Top[1], Top[2]>> /\ Top[2] \in Known(paths) \cap Open
      /\ Resolved(Top[1]) /\ Top[1] >= paths.distances[Top[2]]
      BY <1>2 DEF HeapHolds
<1>4. Resolved(paths.distances[Top[2]]) /\ paths.distances[Top[2]] \in Nat /\ Top[1] \in Nat
      BY <1>3 DEF ArePaths, Resolved
<1>5. paths.distances[Top[2]] < Top[1] => paths.distances[Top[2]] + Tolerance < Top[1]
      BY <1>3, <1>4, ResolvedSums
<1>. QED BY <1>2, <1>3, <1>4, <1>5

\* The states that an expansion improves, and by what.
LEMMA ImprovedFacts ==
    ASSUME CostsAreResolved, RefinementInvariant, ArePaths(paths), pc # "detach",
           NEW t \in Known(paths) \cap Open, NEW e, e[1] = paths.distances[t], e[2] = t,
           NEW via \in [Improved(e) -> IntoOpen(t)], \A s \in Improved(e) : via[s] \in Via(e, s)
    PROVE  /\ Improved(e) \subseteq Open /\ Improved(e) \subseteq AbstractStates
           /\ IsNearerVia(paths, Improved(e), via, t)
           /\ \A k \in LiveKeys :
                  k.target = t /\ k.source \in Open =>
                      IF k.source \in Improved(e) THEN Cost(via[k.source].operator) <= Cost(k.operator)
                      ELSE /\ k.source \in Known(paths)
                           /\ paths.distances[k.source] <= paths.distances[t] + Cost(k.operator)
<1>. DEFINE S == Improved(e)
            c == paths.distances[t]
<1>1. /\ task \in Tasks /\ LiveAreSteps /\ t \in TableStates /\ TableInvariant /\ tableState = "stored"
      BY RefinementFacts DEF ArePaths
<1>2. IntoOpen(t) = {k \in LiveKeys : k.target = t /\ k.source \in Open}
      BY <1>1, ListsAreLive
<1>3. c \in Nat /\ Resolved(c)
      BY DEF ArePaths, Resolved
<1>4. \A k \in LiveKeys : Resolved(Cost(k.operator)) /\ Cost(k.operator) \in Nat
      BY <1>1, CostFacts DEF LiveAreSteps, IsStep
<1>5. \A s \in Known(paths) : Resolved(paths.distances[s]) /\ paths.distances[s] \in Nat
      BY DEF ArePaths, Resolved
<1>6. \A s : s \in S <=> \E k \in IntoOpen(t) : k.source = s /\ Improves(c + Cost(k.operator), s)
      BY DEF Improved
<1>7. Tolerance \in Nat
      BY AbstractionAssumption
<1>. HIDE DEF S, c
<1>8. ASSUME NEW s \in S
      PROVE  /\ via[s] \in LiveKeys /\ via[s].source = s /\ via[s].target = t /\ s \in Open /\ s \in AbstractStates
             /\ \A k \in LiveKeys : k.target = t /\ k.source = s => Cost(via[s].operator) <= Cost(k.operator)
  <2>1. via[s] \in CheapestOf({k \in IntoOpen(t) : k.source = s})
        BY DEF Via, S
  <2>2. /\ via[s] \in IntoOpen(t) /\ via[s].source = s
        /\ \A j \in IntoOpen(t) : j.source = s => Cost(via[s].operator) <= Cost(j.operator) + Tolerance
        BY <2>1 DEF CheapestOf
  <2>3. via[s] \in LiveKeys /\ via[s].target = t /\ s \in Open /\ s \in AbstractStates
        BY <1>1, <1>2, <2>2 DEF LiveAreSteps, IsStep
  <2>4. ASSUME NEW k \in LiveKeys, k.target = t, k.source = s PROVE Cost(via[s].operator) <= Cost(k.operator)
    <3>1. Cost(via[s].operator) <= Cost(k.operator) + Tolerance
          BY <1>2, <2>2, <2>3, <2>4
    <3>2. Cost(k.operator) < Cost(via[s].operator) => Cost(k.operator) + Tolerance < Cost(via[s].operator)
          BY <1>4, <2>3, ResolvedSums
    <3>. QED BY <1>4, <1>7, <2>3, <3>1, <3>2
  <2>. QED BY <2>2, <2>3, <2>4
<1>9. ASSUME NEW s \in S, s \in Known(paths) PROVE c + Cost(via[s].operator) < paths.distances[s]
  <2>1. PICK k \in IntoOpen(t) : k.source = s /\ Improves(c + Cost(k.operator), s)
        BY <1>6
  <2>2. k \in LiveKeys /\ Cost(via[s].operator) <= Cost(k.operator)
        BY <1>2, <1>8, <2>1
  <2>3. c + Cost(k.operator) + Tolerance < paths.distances[s]
        BY <1>9, <2>1 DEF Improves, Known
  <2>. QED BY <1>3, <1>4, <1>5, <1>7, <1>8, <1>9, <2>2, <2>3
<1>10. IsNearerVia(paths, S, via, t)
       BY <1>8, <1>9 DEF IsNearerVia, c
<1>11. ASSUME NEW k \in LiveKeys, k.target = t, k.source \in Open, k.source \notin S
       PROVE  k.source \in Known(paths) /\ paths.distances[k.source] <= c + Cost(k.operator)
  <2>1. k \in IntoOpen(t)
        BY <1>2, <1>11
  <2>2. ~ Improves(c + Cost(k.operator), k.source)
        BY <1>6, <1>11, <2>1
  <2>3. k.source \in Known(paths) /\ ~ (c + Cost(k.operator) + Tolerance < paths.distances[k.source])
        BY <2>2 DEF Improves, Known
  <2>4. Resolved(c + Cost(k.operator)) /\ c + Cost(k.operator) \in Nat
        BY <1>3, <1>4, ResolvedSums
  <2>5. c + Cost(k.operator) < paths.distances[k.source] =>
            c + Cost(k.operator) + Tolerance < paths.distances[k.source]
        BY <1>5, <2>3, <2>4, ResolvedSums
  <2>. QED BY <1>5, <1>7, <2>3, <2>4, <2>5
<1>12. \A k \in LiveKeys :
           k.target = t /\ k.source \in Open =>
               IF k.source \in S THEN Cost(via[k.source].operator) <= Cost(k.operator)
               ELSE k.source \in Known(paths) /\ paths.distances[k.source] <= c + Cost(k.operator)
       BY <1>8, <1>11
<1>13. S \subseteq Open /\ S \subseteq AbstractStates
       BY <1>8
<1>. QED BY <1>10, <1>12, <1>13 DEF S, c

LEMMA ExpandKeepsPaths ==
    ASSUME CostsAreResolved, RefinementInvariant, ArePaths(paths), AreRepairable(paths, Open),
           LinksHold(paths), ExpandHolds(paths, Open, heap), Expand,
           NEW q, q = paths', NEW h, h = heap'
    PROVE  ArePaths(q) /\ AreRepairable(q, Open) /\ LinksHold(q) /\ ExpandHolds(q, Open, h)
           /\ q.invalid = paths.invalid
<1>. DEFINE e == Top
            t == Top[2]
            c == paths.distances[t]
<1>1. /\ task \in Tasks /\ LiveAreSteps /\ Len(regions) \in Nat /\ pc # "detach" /\ heap # {}
      BY RefinementFacts DEF Expand
<1>2. /\ e \in heap /\ e = <<e[1], t>> /\ t \in Known(paths) \cap Open
      /\ c \in Nat /\ Resolved(c) /\ e[1] \in Nat
      /\ ~ (e[1] > c + Tolerance) => e[1] = c
      BY <1>1, TopIsKnown DEF ExpandHolds
<1>3. CASE e[1] > c + Tolerance
  <2>1. q = paths /\ h = heap \ {e}
        BY <1>3 DEF Expand
  <2>2. <<c, t>> # e
        BY <1>2, <1>3, AbstractionAssumption
  <2>3. ASSUME NEW s \in Known(paths) \cap Open PROVE <<paths.distances[s], s>> # e
        BY <1>2, <2>2
  <2>4. ExpandHolds(q, Open, h)
        BY <2>1, <2>3 DEF ExpandHolds, HeapHolds
  <2>. QED BY <2>1, <2>4
<1>4. CASE ~ (e[1] > c + Tolerance)
  <2>. DEFINE S == Improved(e)
  <2>1. e[1] = c
        BY <1>2, <1>4
  <2>2. PICK via \in [S -> IntoOpen(t)] :
            /\ \A s \in S : via[s] \in Via(e, s)
            /\ q = Record(via, c)
            /\ h = (heap \ {e}) \cup {<<c + Cost(via[s].operator), s>> : s \in S}
        BY <1>4, <2>1 DEF Expand
  <2>3. /\ S \subseteq Open /\ S \subseteq AbstractStates
        /\ IsNearerVia(paths, S, via, t)
        /\ \A k \in LiveKeys :
               k.target = t /\ k.source \in Open =>
                   IF k.source \in S THEN Cost(via[k.source].operator) <= Cost(k.operator)
                   ELSE k.source \in Known(paths) /\ paths.distances[k.source] <= c + Cost(k.operator)
        BY <1>1, <1>2, <2>1, <2>2, ImprovedFacts
  <2>4. DOMAIN via = S
        BY <2>2
  <2>. HIDE DEF S, c, t, e
  <2>5. IsRelink(paths, q, S, via, t) /\ LinksHold(q)
        BY <1>1, <1>2, <2>2, <2>3, <2>4, RecordIsRelink DEF c
  <2>6. /\ t \notin S /\ Known(q) = Known(paths) \cup S
        /\ \A x \in Known(q) : Resolved(q.distances[x]) /\ q.distances[x] \in Nat
        /\ \A x \in Known(paths) : paths.distances[x] \in Nat /\ q.distances[x] <= paths.distances[x]
        /\ \A x \in Known(paths) \ S : q.distances[x] = paths.distances[x]
        /\ \A x \in S : q.distances[x] = q.distances[t] + Cost(via[x].operator)
        /\ q.distances[t] = c
        BY <1>1, <1>2, <2>3, <2>5, RelinkDistances DEF c
  <2>7. ArePaths(q)
        BY <1>1, <1>2, <2>3, <2>5, RelinkKeepsPaths DEF AreRepairable
  <2>8. /\ AreRepairable(q, Open)
        /\ \A x \in Open \ S : IsBounded(paths, Open, x) => IsBounded(q, Open, x)
        BY <1>1, <1>2, <2>3, <2>5, RelinkKeepsRepair
  <2>9. ASSUME NEW x \in S, IsBounded(paths, Open, x) PROVE IsBounded(q, Open, x)
    <3>. SUFFICES ASSUME NEW k \in LiveKeys, k.source = x, k.target \notin Open, k.target \in Known(q)
                  PROVE  k.source \in Known(q) /\ q.distances[k.source] <= q.distances[k.target] + Cost(k.operator)
         BY DEF IsBounded, Drops
    <3>1. k.target \in Known(paths)
          BY <2>3, <2>6
    <3>2. x \in Known(paths)
          BY <2>9, <3>1 DEF IsBounded, Drops
    <3>3. IsBounded(q, Open, x)
          BY <1>1, <1>2, <2>3, <2>5, <2>9, <3>2, RelinkKeepsRepair
    <3>. QED BY <3>3 DEF IsBounded, Drops
  <2>10. \A x \in Open : IsBounded(q, Open, x)
         BY <2>8, <2>9 DEF ExpandHolds
  <2>11. \A k \in LiveKeys : Cost(k.operator) \in Nat /\ Resolved(Cost(k.operator))
         BY <1>1, CostFacts DEF LiveAreSteps, IsStep
  <2>12. HeapHolds(q, Open, h)
    <3>. SUFFICES ASSUME NEW f \in h
                  PROVE  /\ f = <<f[1], f[2]>> /\ f[2] \in Known(q) \cap Open
                         /\ Resolved(f[1]) /\ f[1] >= q.distances[f[2]]
         BY DEF HeapHolds
    <3>1. CASE f \in heap
      <4>1. /\ f = <<f[1], f[2]>> /\ f[2] \in Known(paths) \cap Open
            /\ Resolved(f[1]) /\ f[1] >= paths.distances[f[2]]
            BY <3>1 DEF ExpandHolds, HeapHolds
      <4>2. f[1] \in Nat
            BY <4>1 DEF Resolved
      <4>. QED BY <2>6, <4>1, <4>2
    <3>2. CASE \E s \in S : f = <<c + Cost(via[s].operator), s>>
      <4>1. PICK s \in S : f = <<c + Cost(via[s].operator), s>>
            BY <3>2
      <4>2. q.distances[s] = c + Cost(via[s].operator) /\ s \in Known(q) \cap Open
            BY <2>3, <2>6
      <4>. QED BY <2>6, <4>1, <4>2
    <3>. QED BY <2>2, <3>1, <3>2
  <2>13. ASSUME NEW x \in Known(q) \cap Open PROVE <<q.distances[x], x>> \in h \/ IsRelaxed(q, Open, x)
    <3>1. CASE x \in S
          BY <2>2, <2>6, <3>1
    <3>2. CASE x \notin S /\ x # t
      <4>1. x \in Known(paths) /\ q.distances[x] = paths.distances[x]
            BY <2>6, <3>2
      <4>2. CASE <<paths.distances[x], x>> \in heap
        <5>1. <<paths.distances[x], x>> # e
              BY <1>2, <3>2
        <5>. QED BY <2>2, <4>1, <4>2, <5>1
      <4>3. CASE IsRelaxed(paths, Open, x)
        <5>. SUFFICES ASSUME NEW k \in LiveKeys, k.target = x, k.source \in Open
                      PROVE  k.source \in Known(q)
                             /\ q.distances[k.source] <= q.distances[x] + Cost(k.operator)
             BY DEF IsRelaxed, Drops
        <5>1. k.source \in Known(paths)
              /\ paths.distances[k.source] <= paths.distances[x] + Cost(k.operator)
              BY <4>1, <4>3 DEF IsRelaxed, Drops
        <5>. QED BY <2>6, <2>11, <4>1, <5>1
      <4>. QED BY <4>1, <4>2, <4>3 DEF ExpandHolds
    <3>3. CASE x = t
      <4>. SUFFICES ASSUME NEW k \in LiveKeys, k.target = t, k.source \in Open
                    PROVE  k.source \in Known(q) /\ q.distances[k.source] <= q.distances[t] + Cost(k.operator)
           BY <3>3 DEF IsRelaxed, Drops
      <4>1. CASE k.source \in S
        <5>1. Cost(via[k.source].operator) <= Cost(k.operator) /\ Cost(via[k.source].operator) \in Nat
              BY <2>3, <2>11, <4>1 DEF IsNearerVia
        <5>. QED BY <1>2, <2>6, <2>11, <4>1, <5>1
      <4>2. CASE k.source \notin S
        <5>1. k.source \in Known(paths) /\ paths.distances[k.source] <= c + Cost(k.operator)
              BY <2>3, <4>2
        <5>. QED BY <2>6, <4>2, <5>1
      <4>. QED BY <4>1, <4>2
    <3>. QED BY <3>1, <3>2, <3>3
  <2>14. ExpandHolds(q, Open, h)
         BY <2>10, <2>12, <2>13 DEF ExpandHolds
  <2>15. q.invalid = paths.invalid
         BY <2>5 DEF IsRelink
  <2>. QED BY <2>5, <2>7, <2>8, <2>14, <2>15
<1>. QED BY <1>3, <1>4

-----------------------------------------------------------------------------
(* A first distance for each invalid state *)

SeedHolds(p, O, td, h) ==
    /\ td \subseteq O
    /\ h = {<<p.distances[s], s>> : s \in Known(p) \cap O}
    /\ Known(p) \cap td \subseteq p.goals
    /\ \A s \in O \ td : IsBounded(p, O, s)
    /\ \A s \in DOMAIN p.generating : p.generating[s].target \notin O

BoundaryKeys(s) == {k \in LiveKeys : k.source = s /\ k.target \in Known(paths) \ Open}

LEMMA BoundaryFacts ==
    ASSUME CostsAreResolved, RefinementInvariant, ArePaths(paths), pc # "detach", iteration # 0,
           NEW s \in AbstractStates
    PROVE  /\ \A k \in BoundaryKeys(s) : BoundaryCost(k) \in Nat /\ Resolved(BoundaryCost(k))
           /\ Boundary(s) \subseteq BoundaryKeys(s)
           /\ \A k \in Boundary(s) : \A j \in BoundaryKeys(s) : BoundaryCost(k) <= BoundaryCost(j)
           /\ \A k \in Boundary(s) : s \in Known(paths) => BoundaryCost(k) < paths.distances[s]
           /\ Boundary(s) = {} /\ BoundaryKeys(s) # {} => s \in Known(paths)
<1>. DEFINE K == BoundaryKeys(s)
<1>1. /\ task \in Tasks /\ LiveAreSteps /\ s \in TableStates /\ TableInvariant /\ tableState = "stored"
      BY RefinementFacts
<1>2. {k \in OutOf(s) : k.target \in DOMAIN paths.distances \ paths.invalid} = K
  <2>1. OutOf(s) = {k \in LiveKeys : k.source = s} /\ Open = paths.invalid
        BY <1>1, ListsAreLive DEF Open
  <2>. QED BY <2>1 DEF BoundaryKeys, Known
<1>3. Boundary(s) = {k \in K : Improves(BoundaryCost(k), s) /\
                               \A j \in K : BoundaryCost(k) <= BoundaryCost(j) + Tolerance}
  <2>. HIDE DEF K
  <2>. QED BY <1>2 DEF Boundary
<1>4. ASSUME NEW k \in K PROVE BoundaryCost(k) \in Nat /\ Resolved(BoundaryCost(k))
  <2>1. Resolved(Cost(k.operator)) /\ Resolved(paths.distances[k.target])
        BY <1>1, CostFacts DEF BoundaryKeys, LiveAreSteps, IsStep, ArePaths
  <2>2. Resolved(BoundaryCost(k))
        BY <2>1, ResolvedSums DEF BoundaryCost
  <2>. QED BY <2>2 DEF Resolved
<1>5. Tolerance \in Nat
      BY AbstractionAssumption
<1>. HIDE DEF K
<1>6. ASSUME NEW k \in Boundary(s), NEW j \in K PROVE BoundaryCost(k) <= BoundaryCost(j)
  <2>1. k \in K /\ BoundaryCost(k) <= BoundaryCost(j) + Tolerance
        BY <1>3
  <2>2. BoundaryCost(j) < BoundaryCost(k) => BoundaryCost(j) + Tolerance < BoundaryCost(k)
        BY <1>4, <2>1, ResolvedSums
  <2>. QED BY <1>4, <1>5, <2>1, <2>2
<1>7. ASSUME NEW k \in Boundary(s), s \in Known(paths) PROVE BoundaryCost(k) < paths.distances[s]
  <2>1. k \in K /\ BoundaryCost(k) + Tolerance < paths.distances[s]
        BY <1>3, <1>7 DEF Improves, Known
  <2>2. paths.distances[s] \in Nat
        BY <1>7 DEF ArePaths, Resolved
  <2>. QED BY <1>4, <1>5, <2>1, <2>2
<1>8. ASSUME Boundary(s) = {}, K # {}, s \notin Known(paths) PROVE FALSE
  <2>. DEFINE Costs == {BoundaryCost(k) : k \in K}
  <2>1. PICK c \in Costs : \A d \in Costs : c <= d
    <3>1. Costs \in SUBSET Nat /\ Costs # {}
          BY <1>4, <1>8
    <3>. HIDE DEF Costs
    <3>. QED BY <3>1, LeastNatural
  <2>2. PICK k \in K : c = BoundaryCost(k)
        BY <2>1
  <2>3. ASSUME NEW j \in K PROVE BoundaryCost(k) <= BoundaryCost(j) + Tolerance
    <3>1. BoundaryCost(k) <= BoundaryCost(j)
          BY <2>1, <2>2
    <3>. QED BY <1>4, <1>5, <3>1
  <2>4. Improves(BoundaryCost(k), s)
        BY <1>8 DEF Improves, Known
  <2>5. k \in Boundary(s)
        BY <1>3, <2>3, <2>4
  <2>. QED BY <1>8, <2>5
<1>9. Boundary(s) \subseteq K
      BY <1>3
<1>. QED BY <1>4, <1>6, <1>7, <1>8, <1>9 DEF K

LEMMA LowIsMember ==
    ASSUME NEW S \in SUBSET Nat, S # {}
    PROVE  Low(S) \in S
    BY LeastNatural DEF Low, Min

\* A link and a distance.
Seeded(s, k) == [Link(paths, s, k) EXCEPT !.distances = Put(@, s, BoundaryCost(k))]

LEMMA SeedIsRelink ==
    ASSUME ArePaths(paths), LinksHold(paths), iteration # 0, LiveAreSteps,
           NEW s \in Nat, NEW k \in LiveKeys, k.source = s, k.target \in Known(paths),
           s \notin Known(paths)
    PROVE  /\ IsRelink(paths, Seeded(s, k), {s}, [x \in {s} |-> k], k.target)
           /\ IsNearerVia(paths, {s}, [x \in {s} |-> k], k.target)
           /\ LinksHold(Seeded(s, k))
<1>. DEFINE p == Link(paths, s, k)
            q == Seeded(s, k)
            dist == Put(p.distances, s, BoundaryCost(k))
<1>1. IsRecord(paths) /\ LinksMatch(paths) /\ DOMAIN paths.dependents = AbstractStates
      /\ k.target \in DOMAIN paths.dependents
      BY DEF ArePaths, LinksHold, LiveAreSteps, IsStep
<1>2. Relinked(paths, p) /\ p.generating = Put(paths.generating, s, k)
      BY <1>1, LinkKeepsLinks
<1>. HIDE DEF p
<1>3. /\ IsRecord(q) /\ q.distances = dist /\ q.generating = p.generating /\ q.goals = p.goals
      /\ q.invalid = p.invalid /\ q.dependents = p.dependents /\ q.positions = p.positions
  <2>1. IsRecord(p) /\ q = [p EXCEPT !.distances = dist]
        BY <1>2 DEF Relinked, p, Seeded
  <2>. HIDE DEF dist, q
  <2>2. q = [distances |-> dist, generating |-> p.generating, dependents |-> p.dependents,
             positions |-> p.positions, goals |-> p.goals, invalid |-> p.invalid]
        BY <2>1 DEF IsRecord
  <2>. QED BY <2>2 DEF IsRecord
<1>. HIDE DEF q
<1>4. LinksHold(q)
      BY <1>1, <1>2, <1>3 DEF LinksHold, LinksMatch, Relinked
<1>5. dist = Put(paths.distances, s, BoundaryCost(k))
      BY <1>2 DEF Relinked
<1>. HIDE DEF dist
<1>6. IsRelink(paths, q, {s}, [x \in {s} |-> k], k.target)
      BY <1>2, <1>3, <1>5 DEF IsRelink, Relinked, Put, BoundaryCost
<1>7. IsNearerVia(paths, {s}, [x \in {s} |-> k], k.target)
      BY DEF IsNearerVia
<1>. QED BY <1>4, <1>6, <1>7 DEF q

LEMMA SeedKeepsPaths ==
    ASSUME CostsAreResolved, RefinementInvariant, ArePaths(paths), AreRepairable(paths, Open),
           LinksHold(paths), iteration # 0, SeedHolds(paths, Open, todo, heap), Seed,
           NEW q, q = paths', NEW h, h = heap', NEW td, td = todo'
    PROVE  /\ ArePaths(q) /\ AreRepairable(q, Open) /\ LinksHold(q) /\ q.invalid = paths.invalid
           /\ pc' = "seed" => SeedHolds(q, Open, td, h)
           /\ pc' = "expand" => ExpandHolds(q, Open, h)
<1>1. /\ task \in Tasks /\ LiveAreSteps /\ Len(regions) \in Nat /\ pc # "detach"
      /\ pc = "seed" /\ AbstractStates \subseteq Nat
      BY RefinementFacts DEF Seed
<1>2. Open \subseteq AbstractStates
      BY DEF Open, ArePaths
<1>3. CASE todo = {} /\ pc' = "expand" /\ UNCHANGED <<paths, todo, heap>>
  <2>1. \A s \in Open : IsBounded(paths, Open, s)
        BY <1>3 DEF SeedHolds
  <2>2. \A s \in Known(paths) \cap Open : <<paths.distances[s], s>> \in heap
        BY DEF SeedHolds
  <2>3. HeapHolds(paths, Open, heap)
    <3>. SUFFICES ASSUME NEW e \in heap
                  PROVE  /\ e = <<e[1], e[2]>> /\ e[2] \in Known(paths) \cap Open
                         /\ Resolved(e[1]) /\ e[1] >= paths.distances[e[2]]
         BY DEF HeapHolds
    <3>1. PICK s \in Known(paths) \cap Open : e = <<paths.distances[s], s>>
          BY DEF SeedHolds
    <3>2. Resolved(paths.distances[s]) /\ paths.distances[s] \in Nat
          BY DEF ArePaths, Resolved
    <3>. QED BY <3>1, <3>2
  <2>. QED BY <1>3, <2>1, <2>2, <2>3 DEF ExpandHolds
<1>4. CASE todo # {} /\ pc' = pc
  <2>. DEFINE s == Low(todo)
  <2>1. s \in todo /\ s \in Open /\ s \in AbstractStates /\ s \in Nat
    <3>1. todo \in SUBSET Nat
          BY <1>1, <1>2 DEF SeedHolds
    <3>2. s \in todo
          BY <1>4, <3>1, LowIsMember
    <3>. QED BY <1>2, <3>1, <3>2 DEF SeedHolds
  <2>2. td = todo \ {s}
        BY <1>1, <1>4 DEF Seed
  <2>. HIDE DEF s
  <2>3. s \in Known(paths) => s \in paths.goals /\ paths.distances[s] = 0
        BY <2>1 DEF SeedHolds, AreRepairable, GoalsAreKnown
  <2>4. \A k \in LiveKeys : Cost(k.operator) \in Nat
        BY <1>1, CostFacts DEF LiveAreSteps, IsStep
  <2>5. \A x \in Known(paths) : paths.distances[x] \in Nat
        BY DEF ArePaths, Resolved
  <2>6. CASE Boundary(s) = {} /\ UNCHANGED <<paths, heap>>
    <3>1. IsBounded(paths, Open, s)
      <4>1. CASE s \in Known(paths)
            BY <2>3, <2>4, <2>5, <4>1 DEF IsBounded, Drops
      <4>2. CASE s \notin Known(paths)
        <5>1. BoundaryKeys(s) = {}
              BY <1>1, <2>1, <2>6, <4>2, BoundaryFacts
        <5>. QED BY <5>1 DEF BoundaryKeys, IsBounded, Drops
      <4>. QED BY <4>1, <4>2
    <3>2. SeedHolds(q, Open, td, h)
          BY <2>2, <2>6, <3>1 DEF SeedHolds
    <3>. QED BY <1>1, <1>4, <2>6, <3>2
  <2>7. CASE \E k \in Boundary(s) :
               /\ paths' = Seeded(s, k)
               /\ heap' = heap \cup {<<BoundaryCost(k), s>>}
    <3>1. PICK k \in Boundary(s) :
               /\ q = Seeded(s, k)
               /\ h = heap \cup {<<BoundaryCost(k), s>>}
          BY <2>7
    <3>. DEFINE t == k.target
                via == [x \in {s} |-> k]
    <3>2. /\ k \in LiveKeys /\ k.source = s /\ t \in Known(paths) \ Open
          /\ \A j \in BoundaryKeys(s) : BoundaryCost(k) <= BoundaryCost(j)
          /\ s \in Known(paths) => BoundaryCost(k) < paths.distances[s]
          /\ BoundaryCost(k) \in Nat
          BY <1>1, <2>1, BoundaryFacts DEF BoundaryKeys
    <3>3. s \notin Known(paths)
          BY <2>3, <3>2
    <3>4. IsRelink(paths, q, {s}, via, t) /\ IsNearerVia(paths, {s}, via, t) /\ LinksHold(q)
          BY <1>1, <2>1, <3>1, <3>2, <3>3, SeedIsRelink
    <3>5. via[s] = k
          OBVIOUS
    <3>. HIDE DEF via
    <3>6. /\ Known(q) = Known(paths) \cup {s}
          /\ \A x \in Known(q) : Resolved(q.distances[x]) /\ q.distances[x] \in Nat
          /\ \A x \in Known(paths) : x # s /\ q.distances[x] = paths.distances[x]
          /\ q.distances[s] = BoundaryCost(k)
      <4>1. /\ Known(q) = Known(paths) \cup {s}
            /\ \A x \in Known(q) : Resolved(q.distances[x]) /\ q.distances[x] \in Nat
            /\ \A x \in Known(paths) \ {s} : q.distances[x] = paths.distances[x]
            /\ \A x \in {s} : q.distances[x] = q.distances[t] + Cost(via[x].operator)
            /\ q.distances[t] = paths.distances[t]
            BY <1>1, <3>2, <3>4, RelinkDistances
      <4>. QED BY <3>3, <3>5, <4>1 DEF BoundaryCost
    <3>7. ArePaths(q)
          BY <1>1, <2>1, <3>2, <3>4, RelinkKeepsPaths DEF AreRepairable
    <3>8. /\ AreRepairable(q, Open)
          /\ \A x \in Open \ {s} : IsBounded(paths, Open, x) => IsBounded(q, Open, x)
          BY <1>1, <2>1, <3>2, <3>4, RelinkKeepsRepair
    <3>9. IsBounded(q, Open, s)
      <4>. SUFFICES ASSUME NEW j \in LiveKeys, j.source = s, j.target \notin Open, j.target \in Known(q)
                    PROVE  s \in Known(q) /\ q.distances[s] <= q.distances[j.target] + Cost(j.operator)
           BY DEF IsBounded, Drops
      <4>1. j.target \in Known(paths) /\ j \in BoundaryKeys(s)
            BY <2>1, <3>6 DEF BoundaryKeys
      <4>2. BoundaryCost(k) <= BoundaryCost(j) /\ q.distances[j.target] = paths.distances[j.target]
            BY <3>2, <3>6, <4>1
      <4>. QED BY <3>6, <4>2 DEF BoundaryCost
    <3>10. SeedHolds(q, Open, td, h)
      <4>1. h = {<<q.distances[x], x>> : x \in Known(q) \cap Open}
        <5>1. heap = {<<paths.distances[x], x>> : x \in Known(paths) \cap Open}
              BY DEF SeedHolds
        <5>2. \A e : e \in heap <=> \E x \in Known(paths) \cap Open : e = <<q.distances[x], x>>
              BY <3>6, <5>1
        <5>3. \A e : e \in h <=> e \in heap \/ e = <<q.distances[s], s>>
              BY <3>1, <3>6
        <5>4. \A e : e \in h <=> \E x \in Known(q) \cap Open : e = <<q.distances[x], x>>
              BY <2>1, <3>6, <5>2, <5>3
        <5>. QED BY <5>4
      <4>2. \A x \in Open \ td : IsBounded(q, Open, x)
            BY <2>2, <3>8, <3>9 DEF SeedHolds
      <4>3. Known(q) \cap td \subseteq q.goals
            BY <2>2, <3>4, <3>6 DEF SeedHolds, IsRelink
      <4>4. \A x \in DOMAIN q.generating : q.generating[x].target \notin Open
            BY <3>2, <3>4, <3>5 DEF SeedHolds, IsRelink
      <4>5. td \subseteq Open
            BY <2>2 DEF SeedHolds
      <4>. QED BY <4>1, <4>2, <4>3, <4>4, <4>5 DEF SeedHolds
    <3>11. q.invalid = paths.invalid
           BY <3>4 DEF IsRelink
    <3>. QED BY <1>1, <1>4, <3>4, <3>7, <3>8, <3>10, <3>11
  <2>8. \/ Boundary(s) = {} /\ UNCHANGED <<paths, heap>>
        \/ \E k \in Boundary(s) :
               /\ paths' = Seeded(s, k)
               /\ heap' = heap \cup {<<BoundaryCost(k), s>>}
        BY <1>1, <1>4 DEF Seed, Seeded, s
  <2>. QED BY <2>6, <2>7, <2>8
<1>. QED BY <1>3, <1>4 DEF Seed

-----------------------------------------------------------------------------
(***************************************************************************)
(* The phases.  Between two splits the distances are exact; while a state  *)
(* is split they are those of the abstraction before it, in which the      *)
(* split state stands for its halves; then the states whose path leads     *)
(* through a half are found, get a first distance and are expanded.        *)
(***************************************************************************)

Starting == {"initial", "apply", "detach", "attach", "compute"}
Settled  == {"check", "replay", "walk", "regress", "select", "done", "apply"}

ExactHolds(p) ==
    /\ LinksMatch(p) /\ DOMAIN p.dependents = AbstractStates
    /\ p.invalid = {}
    /\ GoalsAreKnown(p) /\ GoalsAre(p, AbstractStates)
    /\ AreLed(p)
    /\ \A k \in LiveKeys : Drops(p, k)

OldStates == 1..Len(regions) - 1
IsHalf(x) == x = split.state \/ x = Len(regions)
Parent(x) == IF x = Len(regions) THEN split.state ELSE x

\* As Drops, between the states before the split.
ParentDrops(p, k) ==
    Parent(k.target) \in Known(p) =>
        /\ Parent(k.source) \in Known(p)
        /\ p.distances[Parent(k.source)] <= p.distances[Parent(k.target)] + Cost(k.operator)

\* The path of s starts with a transition that is left, or the split has to do with it.
IsKept(p, s) == p.generating[s] \in LiveKeys \/ IsHalf(s) \/ IsHalf(p.generating[s].target)

OldHolds(p, K) ==
    /\ LinksMatch(p) /\ DOMAIN p.dependents = OldStates
    /\ split.state \in OldStates
    /\ Known(p) \subseteq OldStates /\ p.goals \subseteq OldStates
    /\ p.invalid = {}
    /\ GoalsAreKnown(p) /\ GoalsAre(p, OldStates \ {split.state})
    /\ \A s \in AbstractStates : IsHalf(s) /\ IsGoal(regions[s]) => split.state \in p.goals
    /\ \A s \in Known(p) \ p.goals : s \in DOMAIN p.generating /\ IsKept(p, s)
    /\ \A k \in K : ParentDrops(p, k)

InvalidatedHolds(p, Q) ==
    /\ LinksMatch(p) /\ DOMAIN p.dependents = AbstractStates
    /\ split.state \in OldStates
    /\ Known(p) \subseteq OldStates
    /\ GoalsAre(p, AbstractStates)
    /\ \A s \in p.goals : Parent(s) \in Known(p) /\ p.distances[Parent(s)] = 0
    /\ split.state \in p.invalid /\ Len(regions) \in p.invalid
    /\ Q \subseteq p.invalid
    /\ \A s \in DOMAIN p.generating :
           /\ s \in p.invalid => s \in Q
           /\ p.generating[s].target \in p.invalid => p.generating[s].target \in Q
           /\ IsKept(p, s)
    /\ \A s \in Known(p) \ (p.goals \cup p.invalid) : s \in DOMAIN p.generating
    /\ \A k \in LiveKeys : ParentDrops(p, k)

RepairHolds == AreRepairable(paths, Open) /\ LinksHold(paths)

PathsInvariant ==
    /\ iteration \in Nat
    /\ ArePaths(paths)
    /\ IF iteration = 0 THEN pc \in Starting \cup {"expand"}
                        ELSE pc \in Settled \cup {"detach", "attach", "invalidate", "seed", "expand"}
    /\ iteration = 0 /\ pc # "expand" =>
           Known(paths) = {} /\ DOMAIN paths.generating = {} /\ paths.goals = {} /\ paths.invalid = {}
    /\ iteration # 0 /\ pc \in Settled => ExactHolds(paths)
    /\ iteration # 0 /\ pc = "detach" => OldHolds(paths, LiveKeys \cup removed)
    /\ iteration # 0 /\ pc = "attach" => OldHolds(paths, LiveKeys \cup pending)
    /\ pc = "invalidate" => InvalidatedHolds(paths, queue)
    /\ pc = "seed" => RepairHolds /\ SeedHolds(paths, Open, todo, heap)
    /\ pc = "expand" => RepairHolds /\ ExpandHolds(paths, Open, heap)

\* Steps that leave the paths and the phase alone.
IsQuiet ==
    /\ UNCHANGED abstraction /\ UNCHANGED pathVars /\ UNCHANGED iteration
    /\ \/ UNCHANGED <<pc, split, pending>>
       \/ /\ pc = "initial" \/ (pc = "attach" /\ iteration = 0)
          /\ pc' \in {"initial", "compute", "apply"}
       \/ pc \in Settled \ {"apply"} /\ pc' \in Settled

IsRepair == BeginDistances \/ BeginRepair \/ Invalidate \/ Seed \/ Expand \/ FinishDistances

LEMMA StopIsQuiet ==
    ASSUME NEW reason, NEW cost, Stop(reason, cost), pc \in Settled \ {"apply"}
    PROVE  IsQuiet
    BY DEF Stop, IsQuiet, abstraction, stateVars, Settled

LEMMA OfferIsQuiet ==
    ASSUME NEW C, Offer(C), pc \in Settled \ {"apply"}
    PROVE  IsQuiet
    BY DEF Offer, IsQuiet, abstraction, stateVars, Settled

LEMMA SearchIsQuiet ==
    ASSUME StartIteration \/ ReplayPlan \/ ReplayWholePlan \/ Walk \/ Regress \/ Select
    PROVE  IsQuiet
<1>1. CASE StartIteration
  <2>1. pc \in Settled \ {"apply"}
        BY <1>1 DEF StartIteration, Settled
  <2>2. CASE pc' \in {"walk", "replay"} /\ UNCHANGED <<abstraction, pathVars, iteration>>
        BY <2>1, <2>2 DEF IsQuiet, Settled
  <2>3. CASE \E reason, cost : Stop(reason, cost)
        BY <2>1, <2>3, StopIsQuiet
  <2>. QED BY <1>1, <2>2, <2>3 DEF StartIteration, abstraction, stateVars
<1>2. CASE ReplayPlan
  <2>1. pc \in Settled \ {"apply"}
        BY <1>2 DEF ReplayPlan, Settled
  <2>2. ASSUME NEW C, Execute(C) PROVE IsQuiet
        BY <2>1, <2>2 DEF Execute, IsQuiet, abstraction, stateVars
  <2>. QED BY <1>2, <2>1, <2>2, OfferIsQuiet, StopIsQuiet DEF ReplayPlan, OfferFacts, Conclude
<1>3. CASE ReplayWholePlan
  <2>1. pc \in Settled \ {"apply"}
        BY <1>3 DEF ReplayWholePlan, Settled
  <2>2. ASSUME NEW C, Execute(C) PROVE IsQuiet
        BY <2>1, <2>2 DEF Execute, IsQuiet, abstraction, stateVars
  <2>. QED BY <1>3, <2>1, <2>2, OfferIsQuiet, StopIsQuiet DEF ReplayWholePlan, OfferFacts, Conclude
<1>4. CASE Walk
      BY <1>4 DEF Walk, Trace, IsQuiet, abstraction, stateVars, Settled
<1>5. CASE Regress
  <2>1. pc \in Settled \ {"apply"}
        BY <1>5 DEF Regress, Settled
  <2>2. ASSUME NEW t, Trace(t), pc' = "regress" PROVE IsQuiet
        BY <2>1, <2>2 DEF Trace, IsQuiet, abstraction, stateVars, Settled
  <2>. QED BY <1>5, <2>1, <2>2, OfferIsQuiet, StopIsQuiet DEF Regress, Conclude
<1>6. CASE Select
  <2>1. pc \in Settled \ {"apply"}
        BY <1>6 DEF Select, Settled
  <2>2. CASE \E reason : Stop(reason, 0)
        BY <2>1, <2>2, StopIsQuiet
  <2>3. CASE pc' = "apply" /\ UNCHANGED <<abstraction, pathVars, iteration>>
        BY <2>1, <2>3 DEF IsQuiet, Settled
  <2>. QED BY <1>6, <2>2, <2>3 DEF Select, abstraction, stateVars
<1>. QED BY <1>1, <1>2, <1>3, <1>4, <1>5, <1>6

LEMMA RepairCases ==
    ASSUME [Next]_vars
    PROVE  \/ IsQuiet
           \/ (ApplySplit \/ Detach \/ Attach \/ IsRepair) /\ UNCHANGED <<setup, cegarVars>>
<1>1. CASE UNCHANGED vars \/ Done
      BY <1>1 DEF Done, vars, IsQuiet, abstraction, stateVars
<1>2. CASE Refine
      BY <1>2 DEF Refine, IsRepair
<1>3. CASE InitialSplit
      BY <1>3 DEF InitialSplit, IsQuiet, abstraction, stateVars
<1>4. CASE InitialSplitDone
      BY <1>4 DEF InitialSplitDone, IsQuiet, abstraction, stateVars
<1>. QED BY <1>1, <1>2, <1>3, <1>4, SearchIsQuiet DEF Next

\* What is said of paths depends on the abstraction only.
LEMMA SameView ==
    ASSUME UNCHANGED abstraction
    PROVE  /\ \A p : /\ ArePaths(p)' = ArePaths(p)
                     /\ GoalsAreKnown(p)' = GoalsAreKnown(p)
                     /\ AreLed(p)' = AreLed(p)
                     /\ LinksMatch(p)' = LinksMatch(p)
                     /\ ExactHolds(p)' = ExactHolds(p)
           /\ \A p, S : GoalsAre(p, S)' = GoalsAre(p, S)
           /\ \A p, k : Drops(p, k)' = Drops(p, k)
           /\ \A p, O : AreRepairable(p, O)' = AreRepairable(p, O)
           /\ \A p, O, h : ExpandHolds(p, O, h)' = ExpandHolds(p, O, h)
           /\ \A p, O, td, h : SeedHolds(p, O, td, h)' = SeedHolds(p, O, td, h)
<1>1. UNCHANGED <<task, regions, ids>> /\ AbstractStates' = AbstractStates /\ Names' = Names
      /\ LiveKeys' = LiveKeys /\ \A k : IsStep(k)' = IsStep(k)
      BY SplitsStayWell DEF abstraction, setup, stateVars, table
<1>2. \A o : Cost(o)' = Cost(o)
      BY <1>1 DEF Cost
<1>3. \A r : IsGoal(r)' = IsGoal(r)
      BY <1>1 DEF IsGoal, Admits
<1>4. \A p, k : Drops(p, k)' = Drops(p, k)
      BY <1>2 DEF Drops, Known
<1>5. \A p, s : IsLeft(p, s)' = IsLeft(p, s)
      BY <1>1, <1>2 DEF IsLeft, Known
<1>6. \A p : ArePaths(p)' = ArePaths(p)
      BY <1>1, <1>5 DEF ArePaths, IsRecord, Known, IsForest, Resolved
<1>7. \A p : GoalsAreKnown(p)' = GoalsAreKnown(p)
      BY DEF GoalsAreKnown, Known
<1>8. \A p : AreLed(p)' = AreLed(p)
      BY <1>1 DEF AreLed, Known
<1>9. \A p : LinksMatch(p)' = LinksMatch(p)
      BY DEF LinksMatch, Links
<1>10. \A p, S : GoalsAre(p, S)' = GoalsAre(p, S)
       BY <1>1, <1>3 DEF GoalsAre
<1>11. \A p : ExactHolds(p)' = ExactHolds(p)
       BY <1>1, <1>4, <1>7, <1>8, <1>9, <1>10 DEF ExactHolds
<1>12. \A p, O, X, f : LowerBound(p, O, X, f)' = LowerBound(p, O, X, f)
       BY <1>1, <1>2 DEF LowerBound, Known
<1>13. \A p, O : IsBoundedBelow(p, O)' = IsBoundedBelow(p, O)
       BY <1>1, <1>12 DEF IsBoundedBelow
<1>14. \A p, O : AreRepairable(p, O)' = AreRepairable(p, O)
       BY <1>1, <1>7, <1>8, <1>10, <1>13 DEF AreRepairable
<1>15. \A p, O, s : IsRelaxed(p, O, s)' = IsRelaxed(p, O, s) /\ IsBounded(p, O, s)' = IsBounded(p, O, s)
       BY <1>1, <1>4 DEF IsRelaxed, IsBounded
<1>16. \A p, O, h : ExpandHolds(p, O, h)' = ExpandHolds(p, O, h)
       BY <1>15 DEF ExpandHolds, HeapHolds, Known, Resolved
<1>17. \A p, O, td, h : SeedHolds(p, O, td, h)' = SeedHolds(p, O, td, h)
       BY <1>15 DEF SeedHolds, Known
<1>. QED BY <1>4, <1>6, <1>7, <1>8, <1>9, <1>10, <1>11, <1>14, <1>16, <1>17

LEMMA SameSplitView ==
    ASSUME UNCHANGED abstraction, UNCHANGED split
    PROVE  /\ \A p, K : OldHolds(p, K)' = OldHolds(p, K)
           /\ \A p, Q : InvalidatedHolds(p, Q)' = InvalidatedHolds(p, Q)
           /\ \A p, k : ParentDrops(p, k)' = ParentDrops(p, k)
<1>1. UNCHANGED <<task, regions, ids>> /\ AbstractStates' = AbstractStates /\ LiveKeys' = LiveKeys
      /\ OldStates' = OldStates
      BY SplitsStayWell DEF abstraction, setup, stateVars, table, OldStates
<1>2. \A o : Cost(o)' = Cost(o)
      BY <1>1 DEF Cost
<1>3. \A r : IsGoal(r)' = IsGoal(r)
      BY <1>1 DEF IsGoal, Admits
<1>4. \A p, k : ParentDrops(p, k)' = ParentDrops(p, k)
      BY <1>1, <1>2 DEF ParentDrops, Parent, Known
<1>5. \A p, s : IsKept(p, s)' = IsKept(p, s)
      BY <1>1 DEF IsKept, IsHalf
<1>6. \A s : IsHalf(s)' = IsHalf(s)
      BY <1>1 DEF IsHalf
<1>7. \A p, K : OldHolds(p, K)' = OldHolds(p, K)
      BY <1>1, <1>3, <1>4, <1>5, <1>6, SameView DEF OldHolds, Known
<1>8. \A p, Q : InvalidatedHolds(p, Q)' = InvalidatedHolds(p, Q)
      BY <1>1, <1>4, <1>5, SameView DEF InvalidatedHolds, Known, Parent
<1>. QED BY <1>4, <1>7, <1>8

LEMMA QuietKeepsPaths ==
    ASSUME PathsInvariant, IsQuiet
    PROVE  PathsInvariant'
<1>1. UNCHANGED <<paths, queue, todo, heap, iteration, ids, removed>> /\ UNCHANGED abstraction
      BY DEF IsQuiet, abstraction, table, pathVars
<1>2. iteration' \in Nat /\ ArePaths(paths)'
      BY <1>1, SameView DEF PathsInvariant
<1>3. CASE UNCHANGED <<pc, split, pending>>
  <2>1. LiveKeys' = LiveKeys /\ Open' = Open /\ LinksHold(paths)' = LinksHold(paths)
        /\ Known(paths)' = Known(paths)
        BY <1>1, SplitsStayWell, SameView DEF LiveKeys, Open, LinksHold, Known
  <2>2. iteration # 0 /\ pc \in Settled => ExactHolds(paths)'
        BY <1>1, SameView DEF PathsInvariant
  <2>3. /\ iteration # 0 /\ pc = "detach" => OldHolds(paths, LiveKeys \cup removed)'
        /\ iteration # 0 /\ pc = "attach" => OldHolds(paths, LiveKeys \cup pending)'
        /\ pc = "invalidate" => InvalidatedHolds(paths, queue)'
        BY <1>1, <1>3, <2>1, SameSplitView DEF PathsInvariant
  <2>4. /\ pc = "seed" => RepairHolds' /\ SeedHolds(paths, Open, todo, heap)'
        /\ pc = "expand" => RepairHolds' /\ ExpandHolds(paths, Open, heap)'
        BY <1>1, <2>1, SameView DEF PathsInvariant, RepairHolds
  <2>. QED BY <1>1, <1>2, <1>3, <2>1, <2>2, <2>3, <2>4 DEF PathsInvariant
<1>4. CASE /\ pc = "initial" \/ (pc = "attach" /\ iteration = 0)
           /\ pc' \in {"initial", "compute", "apply"}
  <2>1. iteration = 0 /\ pc # "expand"
        BY <1>4 DEF PathsInvariant, Settled
  <2>. QED BY <1>1, <1>2, <1>4, <2>1 DEF PathsInvariant, Starting, Known
<1>5. CASE pc \in Settled \ {"apply"} /\ pc' \in Settled
  <2>1. iteration # 0 /\ pc' \notin {"detach", "attach", "invalidate", "seed", "expand"}
        BY <1>5 DEF PathsInvariant, Settled, Starting
  <2>2. ExactHolds(paths)'
        BY <1>1, <1>5, <2>1, SameView DEF PathsInvariant
  <2>. QED BY <1>1, <1>2, <1>5, <2>1, <2>2 DEF PathsInvariant
<1>. QED BY <1>3, <1>4, <1>5 DEF IsQuiet

LEMMA InitPaths == Init => PathsInvariant
<1>. SUFFICES ASSUME Init PROVE PathsInvariant
     OBVIOUS
<1>1. /\ pc = "initial" /\ iteration = 0
      /\ paths = [distances |-> Empty, generating |-> Empty, dependents |-> <<>>,
                  positions |-> Empty, goals |-> {}, invalid |-> {}]
      BY DEF Init
<1>2. DOMAIN paths.distances = {} /\ DOMAIN paths.generating = {} /\ paths.goals = {} /\ paths.invalid = {}
      /\ IsRecord(paths)
      BY <1>1 DEF Empty, IsRecord
<1>3. ArePaths(paths)
      BY <1>2 DEF ArePaths, Known, IsForest
<1>. QED BY <1>1, <1>2, <1>3 DEF PathsInvariant, Starting, Known

-----------------------------------------------------------------------------
(* While a state is split *)

LEMMA PathsStay ==
    ASSUME UNCHANGED task, AbstractStates \subseteq AbstractStates'
    PROVE  \A p : ArePaths(p) => ArePaths(p)'
<1>1. \A o : Cost(o)' = Cost(o)
      BY DEF Cost
<1>2. \A k : IsStep(k) => IsStep(k)'
      BY DEF IsStep, Names
<1>3. \A p, s : IsLeft(p, s) => IsLeft(p, s)'
      BY <1>1, <1>2 DEF IsLeft, Known
<1>. QED BY <1>3 DEF ArePaths, IsRecord, Known, IsForest, Resolved

LEMMA LiveFacts ==
    ASSUME RefinementInvariant
    PROVE  LiveKeys \subseteq Keys /\ \A k \in LiveKeys : k.source \in Nat /\ k.target \in Nat
    BY DEF RefinementInvariant, TableMatches, TableInvariant, TableTypeOK, LiveKeys, Keys

LEMMA ApplySplitPaths ==
    ASSUME PathsInvariant, RefinementInvariant, ApplySplit, UNCHANGED <<setup, cegarVars>>
    PROVE  PathsInvariant'
<1>. DEFINE n == Len(regions)
            s == split.state
            p == paths
<1>1. /\ pc = "apply" /\ pc' = "detach" /\ IsStrict(split) /\ regions' = SplitRegions(split)
      /\ UNCHANGED <<task, iteration, split, paths, ids>> /\ removed' = {}
      BY DEF ApplySplit, setup, pathVars, SplitState
<1>2. /\ IsSplit(split) /\ regions \in Seq(RegionType) /\ n \in Nat \ {0} /\ s \in 1..n /\ AbstractStates = 1..n
      /\ LiveKeys' = LiveKeys /\ task \in Tasks
      BY <1>1 DEF RefinementInvariant, SplitsInvariant, TableMatches, IsSplit, AbstractStates, LiveKeys
<1>3. /\ Len(regions') = n + 1
      /\ \A a \in 1..n : a # s => regions'[a] = regions[a]
      /\ \A x \in {s, n + 1} : \A e \in Dimensions : regions'[x][e] \subseteq regions[s][e]
  <2>1. /\ Len(SplitRegions(split)) = n + 1
        /\ \A a \in 1..n : a # s => SplitRegions(split)[a] = regions[a]
        /\ \A x \in {s, n + 1} : \A e \in Dimensions :
               e # split.dimension => SplitRegions(split)[x][e] = regions[s][e]
        /\ \A x \in {s, n + 1} : \A v : v \in SplitRegions(split)[x][split.dimension]
                                            => v \in regions[s][split.dimension]
        BY <1>2, SplitRegionsFacts DEF Halves
  <2>. QED BY <1>1, <2>1
<1>4. OldStates' = 1..n /\ AbstractStates' = 1..n + 1
      BY <1>2, <1>3 DEF OldStates, AbstractStates
<1>5. ArePaths(p)'
      BY <1>1, <1>2, <1>4, PathsStay DEF PathsInvariant
<1>6. CASE iteration = 0
      BY <1>1, <1>5, <1>6 DEF PathsInvariant, Starting, Known
<1>7. CASE iteration # 0
  <2>1. ExactHolds(p)
        BY <1>1, <1>7 DEF PathsInvariant, Settled
  <2>2. \A r : IsGoal(r)' = IsGoal(r)
        BY <1>1 DEF IsGoal, Admits
  <2>3. GoalsAre(p, OldStates \ {s})'
        BY <1>1, <1>2, <1>3, <1>4, <2>1, <2>2 DEF ExactHolds, GoalsAre
  <2>4. ASSUME NEW x \in {s, n + 1}, IsGoal(regions[x])' PROVE s \in p.goals
    <3>1. \A f \in task.goals : IsFact(f) /\ Admits(regions'[x], f)
      <4>1. IsGoal(regions[x])' <=> \A f \in task.goals : Admits(regions'[x], f)
            BY <1>1 DEF IsGoal, Admits
      <4>. QED BY <1>2, <2>4, <4>1, TaskAssumption
    <3>2. IsGoal(regions[s])
          BY <1>3, <3>1, AdmitsIsMonotone DEF IsGoal
    <3>. QED BY <1>2, <2>1, <3>2 DEF ExactHolds, GoalsAre
  <2>5. (\A x \in AbstractStates : IsHalf(x) /\ IsGoal(regions[x]) => split.state \in p.goals)'
    <3>. SUFFICES ASSUME NEW x \in AbstractStates', IsHalf(x)', IsGoal(regions[x])'
                  PROVE  split.state \in p.goals
         BY <1>1
    <3>1. x = s \/ x = n + 1
          BY <1>1, <1>3 DEF IsHalf
    <3>. QED BY <2>4, <3>1
  <2>6. LinksMatch(p)' /\ GoalsAreKnown(p)' /\ p.invalid = {} /\ DOMAIN p.dependents = 1..n
        /\ Known(p)' = Known(p)
        BY <1>1, <1>2, <2>1 DEF ExactHolds, LinksMatch, Links, GoalsAreKnown, Known
  <2>7. Known(p) \subseteq 1..n /\ p.goals \subseteq 1..n
        BY <1>2 DEF PathsInvariant, ArePaths
  <2>8. ASSUME NEW a \in Known(p) \ p.goals PROVE a \in DOMAIN p.generating /\ IsKept(p, a)'
        BY <1>1, <1>2, <2>1 DEF ExactHolds, AreLed, IsKept
  <2>9. ASSUME NEW k \in LiveKeys PROVE ParentDrops(p, k)'
    <3>1. k.source \in 1..n /\ k.target \in 1..n
          BY <1>2, RefinementFacts DEF LiveAreSteps, IsStep
    <3>2. Parent(k.source)' = k.source /\ Parent(k.target)' = k.target
          BY <1>2, <1>3, <3>1 DEF Parent
    <3>3. Cost(k.operator)' = Cost(k.operator)
          BY <1>1 DEF Cost
    <3>4. Drops(p, k)
          BY <2>1 DEF ExactHolds
    <3>. QED BY <1>1, <3>2, <3>3, <3>4 DEF ParentDrops, Drops, Known
  <2>10. s \in OldStates'
         BY <1>2, <1>4
  <2>11. OldHolds(p, LiveKeys \cup removed)'
         BY <1>1, <1>2, <1>4, <2>3, <2>5, <2>6, <2>7, <2>8, <2>9, <2>10 DEF OldHolds, Known
  <2>. QED BY <1>1, <1>5, <1>7, <2>11 DEF PathsInvariant, Settled
<1>. QED BY <1>6, <1>7

LEMMA RemovePaths ==
    ASSUME PathsInvariant, RefinementInvariant, HalvesDiffer, RemovalIsLocal, pc = "detach",
           RemoveTransition, UNCHANGED <<task, regions, split, paths, iteration>>
    PROVE  iteration # 0 => OldHolds(paths, LiveKeys \cup removed)'
<1>. SUFFICES ASSUME iteration # 0 PROVE OldHolds(paths, LiveKeys \cup removed)'
     OBVIOUS
<1>. DEFINE p == paths
<1>1. PICK i \in incident : /\ ids' = Without(ids, slots[i]) /\ removed' = removed \cup {slots[i]}
      BY DEF RemoveTransition
<1>2. slots[i] \in LiveKeys /\ split.state \in {slots[i].source, slots[i].target}
      BY <1>1 DEF RefinementInvariant, TableMatches, TableInvariant, TableTypeOK, TableIsConsistent,
                  IndexMatchesSlots, RemovalIsLocal
<1>3. LiveKeys' = LiveKeys \ {slots[i]} /\ LiveKeys' \cup removed' = LiveKeys \cup removed
      BY <1>1, <1>2 DEF LiveKeys, Without
<1>4. OldHolds(p, LiveKeys \cup removed)
      BY DEF PathsInvariant
<1>5. OldStates' = OldStates /\ AbstractStates' = AbstractStates
      /\ (\A r : IsGoal(r)' = IsGoal(r)) /\ (\A o : Cost(o)' = Cost(o))
      /\ (\A x : Parent(x)' = Parent(x)) /\ (\A x : IsHalf(x)' = IsHalf(x))
      BY DEF OldStates, AbstractStates, IsGoal, Admits, Cost, Parent, IsHalf
<1>6. ASSUME NEW s \in Known(p) \ p.goals PROVE s \in DOMAIN p.generating /\ IsKept(p, s)'
  <2>1. s \in DOMAIN p.generating /\ IsKept(p, s)
        BY <1>4 DEF OldHolds
  <2>2. p.generating[s].source = s
        BY <2>1 DEF PathsInvariant, ArePaths, IsLeft
  <2>3. CASE p.generating[s] = slots[i]
        BY <1>2, <2>1, <2>2, <2>3 DEF IsKept, IsHalf
  <2>4. CASE p.generating[s] # slots[i]
        BY <1>3, <1>5, <2>1, <2>4 DEF IsKept
  <2>. QED BY <2>1, <2>3, <2>4
<1>7. \A k : ParentDrops(p, k)' = ParentDrops(p, k)
      BY <1>5 DEF ParentDrops, Known
<1>8. LinksMatch(p)' = LinksMatch(p) /\ GoalsAreKnown(p)' = GoalsAreKnown(p) /\ Known(p)' = Known(p)
      /\ \A S : GoalsAre(p, S)' = GoalsAre(p, S)
      BY <1>5 DEF LinksMatch, Links, GoalsAreKnown, Known, GoalsAre
<1>. QED BY <1>3, <1>4, <1>5, <1>6, <1>7, <1>8 DEF OldHolds

\* A replacement of a transition that was taken out is no shorter a way, and one of a
\* loop is none at all.
LEMMA ForgetPaths ==
    ASSUME PathsInvariant, RefinementInvariant, RemovalIsLocal, CostsAreResolved, pc = "detach",
           ForgetRemoved, UNCHANGED <<task, regions, split, paths, iteration>>,
           pending' = ReplacementTransitions(regions, split.state, Len(regions), split.dimension,
                                             removed, {k.operator : k \in pending})
    PROVE  iteration # 0 => OldHolds(paths, LiveKeys \cup pending)'
<1>. SUFFICES ASSUME iteration # 0 PROVE OldHolds(paths, LiveKeys \cup pending)'
     OBVIOUS
<1>. DEFINE p == paths
            s == split.state
            n == Len(regions)
<1>1. /\ OldHolds(p, LiveKeys \cup removed) /\ ArePaths(p) /\ task \in Tasks /\ LiveKeys' = LiveKeys
      /\ \A k \in pending : IsStep(k)
      BY DEF PathsInvariant, RefinementInvariant, SplitsInvariant, TableMatches, ForgetRemoved, LiveKeys
<1>2. n \in Nat /\ s \in 1..n - 1
      BY <1>1 DEF OldHolds, OldStates, RefinementInvariant, SplitsInvariant
<1>3. OldStates' = OldStates /\ AbstractStates' = AbstractStates
      /\ (\A r : IsGoal(r)' = IsGoal(r)) /\ (\A o : Cost(o)' = Cost(o))
      /\ (\A x : Parent(x)' = Parent(x)) /\ (\A x : IsHalf(x)' = IsHalf(x))
      BY DEF OldStates, AbstractStates, IsGoal, Admits, Cost, Parent, IsHalf
<1>4. ASSUME NEW j \in pending' PROVE ParentDrops(p, j)
  <2>1. CASE \E k \in removed : \E x \in Ends(k.source, s, n), y \in Ends(k.target, s, n) :
                 j = Key(x, k.operator, y)
    <3>1. PICK k \in removed : \E x \in Ends(k.source, s, n), y \in Ends(k.target, s, n) :
                 j = Key(x, k.operator, y)
          BY <2>1
    <3>2. PICK x \in Ends(k.source, s, n), y \in Ends(k.target, s, n) : j = Key(x, k.operator, y)
          BY <3>1
    <3>3. k.source \in 1..n - 1 /\ k.target \in 1..n - 1
          BY DEF RemovalIsLocal
    <3>4. Parent(x) = k.source /\ Parent(y) = k.target /\ Parent(k.source) = k.source /\ Parent(k.target) = k.target
          BY <1>2, <3>2, <3>3 DEF Ends, Parent
    <3>5. ParentDrops(p, k)
          BY <1>1 DEF OldHolds
    <3>. QED BY <3>2, <3>4, <3>5, KeyFields DEF ParentDrops
  <2>2. CASE \E x, y \in {s, n} : \E o \in {k.operator : k \in pending} : j = Key(x, o, y)
    <3>1. PICK x \in {s, n}, y \in {s, n}, k \in pending : j = Key(x, k.operator, y)
          BY <2>2
    <3>2. Parent(x) = s /\ Parent(y) = s
          BY <1>2 DEF Parent
    <3>3. Cost(k.operator) \in Nat
          BY <1>1, CostFacts DEF IsStep
    <3>4. s \in Known(p) => p.distances[s] \in Nat
          BY <1>1 DEF ArePaths, Resolved
    <3>. QED BY <3>1, <3>2, <3>3, <3>4, KeyFields DEF ParentDrops
  <2>3. \/ \E k \in removed : \E x \in Ends(k.source, s, n), y \in Ends(k.target, s, n) :
               /\ j = Key(x, k.operator, y)
               /\ MayTransitionAfterSplit(regions[x], k.operator, regions[y], split.dimension, SplitEnd(k, s))
        \/ \E x, y \in {s, n} : \E o \in {k.operator : k \in pending} \cap SplitDependentOperators(split.dimension) :
               j = Key(x, o, y) /\ MayLoopAfterSplit(regions[x], o, regions[y], split.dimension)
    <3>1. j \in ReplacementTransitions(regions, s, n, split.dimension, removed, {k.operator : k \in pending})
          OBVIOUS
    <3>. QED BY <3>1, ReplacementMembers
  <2>. QED BY <2>1, <2>2, <2>3
<1>5. \A k \in LiveKeys : ParentDrops(p, k)
      BY <1>1 DEF OldHolds
<1>6. \A k : ParentDrops(p, k)' = ParentDrops(p, k)
      BY <1>3 DEF ParentDrops, Known
<1>7. LinksMatch(p)' = LinksMatch(p) /\ GoalsAreKnown(p)' = GoalsAreKnown(p) /\ Known(p)' = Known(p)
      /\ (\A S : GoalsAre(p, S)' = GoalsAre(p, S)) /\ \A x : IsKept(p, x)' = IsKept(p, x)
      BY <1>1, <1>3 DEF LinksMatch, Links, GoalsAreKnown, Known, GoalsAre, IsKept
<1>. QED BY <1>1, <1>3, <1>4, <1>5, <1>6, <1>7 DEF OldHolds

LEMMA DetachPaths ==
    ASSUME PathsInvariant, RefinementInvariant, TransitionsInvariant, CostsAreResolved,
           Detach, UNCHANGED <<setup, cegarVars>>
    PROVE  PathsInvariant'
<1>1. /\ pc = "detach" /\ UNCHANGED <<task, regions, split, paths, iteration>>
      /\ HalvesDiffer /\ RemovalIsLocal
      BY DEF Detach, setup, stateVars, pathVars, TransitionsInvariant
<1>2. AbstractStates \subseteq AbstractStates'
      BY <1>1 DEF AbstractStates
<1>3. ArePaths(paths)'
      BY <1>1, <1>2, PathsStay DEF PathsInvariant
<1>4. /\ pc' \in {"detach", "attach"} /\ iteration' \in Nat
      /\ iteration' # 0 /\ pc' = "detach" => OldHolds(paths, LiveKeys \cup removed)'
      /\ iteration' # 0 /\ pc' = "attach" => OldHolds(paths, LiveKeys \cup pending)'
      BY <1>1, RemovePaths, ForgetPaths DEF Detach, PathsInvariant
<1>5. iteration = 0 => Known(paths) = {} /\ DOMAIN paths.generating = {} /\ paths.goals = {} /\ paths.invalid = {}
      BY <1>1 DEF PathsInvariant
<1>. QED BY <1>1, <1>3, <1>4, <1>5 DEF PathsInvariant, Starting, Settled, Known

LEMMA AttachPaths ==
    ASSUME PathsInvariant, RefinementInvariant, Attach, UNCHANGED <<setup, cegarVars>>
    PROVE  PathsInvariant'
<1>. DEFINE p == paths
<1>1. /\ pc = "attach" /\ pc' = "attach" /\ UNCHANGED <<task, regions, split, paths, iteration>>
      BY DEF Attach, setup, stateVars, pathVars
<1>2. PICK k \in pending : AddTransition(k) /\ pending' = pending \ {k}
      BY DEF Attach
<1>3. LiveKeys \subseteq LiveKeys' /\ LiveKeys' \subseteq LiveKeys \cup {k}
      BY <1>2 DEF AddTransition, Store, LiveKeys, Put
<1>4. OldStates' = OldStates /\ AbstractStates' = AbstractStates
      /\ (\A r : IsGoal(r)' = IsGoal(r)) /\ (\A o : Cost(o)' = Cost(o))
      /\ (\A x : Parent(x)' = Parent(x)) /\ (\A x : IsHalf(x)' = IsHalf(x))
      BY <1>1 DEF OldStates, AbstractStates, IsGoal, Admits, Cost, Parent, IsHalf
<1>5. ArePaths(p)'
      BY <1>1, <1>4, PathsStay DEF PathsInvariant
<1>6. ASSUME iteration # 0 PROVE OldHolds(p, LiveKeys \cup pending)'
  <2>1. OldHolds(p, LiveKeys \cup pending)
        BY <1>1, <1>6 DEF PathsInvariant
  <2>2. \A j \in LiveKeys' \cup pending' : ParentDrops(p, j)
        BY <1>2, <1>3, <2>1 DEF OldHolds
  <2>3. \A j : ParentDrops(p, j)' = ParentDrops(p, j)
        BY <1>1, <1>4 DEF ParentDrops, Known
  <2>4. LinksMatch(p)' = LinksMatch(p) /\ GoalsAreKnown(p)' = GoalsAreKnown(p) /\ Known(p)' = Known(p)
        /\ (\A S : GoalsAre(p, S)' = GoalsAre(p, S)) /\ \A x : IsKept(p, x) => IsKept(p, x)'
        BY <1>1, <1>3, <1>4 DEF LinksMatch, Links, GoalsAreKnown, Known, GoalsAre, IsKept
  <2>. QED BY <1>1, <1>4, <2>1, <2>2, <2>3, <2>4 DEF OldHolds
<1>7. iteration = 0 => Known(p) = {} /\ DOMAIN p.generating = {} /\ p.goals = {} /\ p.invalid = {}
      BY <1>1 DEF PathsInvariant
<1>. QED BY <1>1, <1>5, <1>6, <1>7 DEF PathsInvariant, Starting, Settled, Known

-----------------------------------------------------------------------------
(* The first computation begins, and a repair *)

LEMMA BeginDistancesPaths ==
    ASSUME PathsInvariant, RefinementInvariant, CostsAreResolved, BeginDistances, UNCHANGED <<setup, cegarVars>>
    PROVE  PathsInvariant'
<1>. DEFINE goals == {s \in AbstractStates : IsGoal(regions[s])}
            q == [distances |-> [s \in goals |-> 0], generating |-> Empty,
                  dependents |-> [s \in AbstractStates |-> <<>>], positions |-> Empty,
                  goals |-> goals, invalid |-> {}]
            h == {<<0, s>> : s \in goals}
            f == [s \in AbstractStates |-> 0]
<1>1. /\ pc = "compute" /\ pc' = "expand" /\ paths' = q /\ heap' = h
      /\ iteration' = iteration /\ UNCHANGED abstraction
      BY DEF BeginDistances, abstraction
<1>2. iteration = 0
      BY <1>1 DEF PathsInvariant, Settled
<1>3. /\ task \in Tasks /\ LiveAreSteps
      BY RefinementFacts
<1>4. Open' = AbstractStates /\ AbstractStates' = AbstractStates
      BY <1>1, <1>2, SplitsStayWell DEF Open
<1>5. /\ Known(q) = goals /\ (\A s \in goals : q.distances[s] = 0) /\ DOMAIN q.generating = {}
      /\ q.goals = goals /\ q.invalid = {} /\ DOMAIN q.positions = {} /\ IsRecord(q)
      /\ q.dependents = [s \in AbstractStates |-> <<>>]
      BY DEF Known, Empty, IsRecord
<1>. HIDE DEF q
<1>6. ArePaths(q)
      BY <1>5, ResolvedSums DEF ArePaths, IsForest
<1>7. \A k \in LiveKeys : Cost(k.operator) \in Nat /\ k.source \in AbstractStates /\ k.target \in AbstractStates
      BY <1>3, CostFacts DEF LiveAreSteps, IsStep
<1>8. LowerBound(q, AbstractStates, AbstractStates, f)
      BY <1>5, <1>7 DEF LowerBound
<1>9. AreRepairable(q, AbstractStates)
  <2>1. IsBoundedBelow(q, AbstractStates)
    <3>1. f \in [AbstractStates -> Nat]
          OBVIOUS
    <3>. HIDE DEF f
    <3>. QED BY <1>8, <3>1 DEF IsBoundedBelow
  <2>. QED BY <1>5, <2>1 DEF AreRepairable, GoalsAreKnown, GoalsAre, AreLed
<1>10. ExpandHolds(q, AbstractStates, h)
  <2>1. HeapHolds(q, AbstractStates, h)
    <3>. SUFFICES ASSUME NEW e \in h
                  PROVE  /\ e = <<e[1], e[2]>> /\ e[2] \in Known(q) \cap AbstractStates
                         /\ Resolved(e[1]) /\ e[1] >= q.distances[e[2]]
         BY DEF HeapHolds
    <3>1. PICK s \in goals : e = <<0, s>>
          OBVIOUS
    <3>. QED BY <1>5, <3>1, ResolvedSums
  <2>2. \A s \in AbstractStates : IsBounded(q, AbstractStates, s)
        BY <1>7 DEF IsBounded
  <2>3. \A s \in Known(q) \cap AbstractStates : <<q.distances[s], s>> \in h
        BY <1>5
  <2>. QED BY <2>1, <2>2, <2>3 DEF ExpandHolds
<1>. HIDE DEF h
<1>11. ArePaths(paths)' /\ AreRepairable(paths, Open)' /\ ExpandHolds(paths, Open, heap)'
       BY <1>1, <1>4, <1>6, <1>9, <1>10, SameView
<1>12. LinksHold(paths)'
       BY <1>1, <1>2, <1>4, <1>5 DEF LinksHold
<1>. QED BY <1>1, <1>2, <1>11, <1>12 DEF PathsInvariant, RepairHolds

LEMMA BeginRepairPaths ==
    ASSUME PathsInvariant, RefinementInvariant, BeginRepair, UNCHANGED <<setup, cegarVars>>
    PROVE  PathsInvariant'
<1>. DEFINE s == split.state
            n == Len(regions)
            p == paths
            q == [distances |-> p.distances, generating |-> p.generating,
                  dependents |-> Append(p.dependents, <<>>), positions |-> p.positions,
                  goals |-> (p.goals \ {s}) \cup GoalHalves, invalid |-> {s, n}]
<1>1. /\ pc = "attach" /\ pending = {} /\ iteration # 0 /\ UNCHANGED iteration
      /\ queue' = {s, n} /\ pc' = "invalidate" /\ UNCHANGED abstraction /\ UNCHANGED split
      /\ paths' = [paths EXCEPT !.dependents = Append(@, <<>>),
                      !.goals = (@ \ {split.state}) \cup GoalHalves, !.invalid = {s, n}]
      BY DEF BeginRepair, abstraction, PathsInvariant
<1>2. ArePaths(p) /\ OldHolds(p, LiveKeys)
      BY <1>1 DEF PathsInvariant
<1>3. n \in Nat /\ s \in 1..n - 1 /\ AbstractStates = 1..n /\ OldStates = 1..n - 1
      BY <1>2 DEF OldHolds, OldStates, RefinementInvariant, SplitsInvariant, AbstractStates
<1>4. paths' = q
  <2>1. p = [distances |-> p.distances, generating |-> p.generating, dependents |-> p.dependents,
             positions |-> p.positions, goals |-> p.goals, invalid |-> p.invalid]
        BY <1>2 DEF ArePaths, IsRecord
  <2>. QED BY <1>1, <2>1
<1>5. /\ q.distances = p.distances /\ q.generating = p.generating /\ q.positions = p.positions
      /\ q.goals = (p.goals \ {s}) \cup GoalHalves /\ q.invalid = {s, n}
      /\ q.dependents = Append(p.dependents, <<>>) /\ IsRecord(q) /\ Known(q) = Known(p)
      BY DEF IsRecord, Known
<1>. HIDE DEF q
<1>6. LinksMatch(q) /\ DOMAIN q.dependents = AbstractStates
  <2>. DEFINE dep == p.dependents
              dep2 == q.dependents
  <2>1. Links(p.generating, p.positions, dep) /\ DOMAIN dep = 1..n - 1
        BY <1>2, <1>3 DEF OldHolds, LinksMatch
  <2>2. dep \in Seq(Seq(Nat)) /\ Len(dep) = n - 1
    <3>1. dep \in Seq(Seq(Nat))
          BY <2>1 DEF Links
    <3>. QED BY <1>3, <2>1, <3>1
  <2>3. <<>> \in Seq(Nat)
        OBVIOUS
  <2>4. dep2 \in Seq(Seq(Nat)) /\ DOMAIN dep2 = 1..n /\ dep2[n] = <<>> /\ \A t \in 1..n - 1 : dep2[t] = dep[t]
        BY <1>3, <1>5, <2>2, <2>3
  <2>5. DOMAIN dep2[n] = {} /\ \A t \in 1..n : t \in 1..n - 1 \/ t = n
        BY <1>3, <2>4
  <2>. DEFINE gen == p.generating
              pos == p.positions
  <2>. HIDE DEF dep, dep2, gen, pos
  <2>6. Links(gen, pos, dep2)
    <3>1. /\ DOMAIN pos = DOMAIN gen
          /\ \A x \in DOMAIN gen : gen[x].target \in DOMAIN dep
                                   /\ pos[x] \in DOMAIN dep[gen[x].target] /\ dep[gen[x].target][pos[x]] = x
          /\ \A t \in DOMAIN dep : \A i \in DOMAIN dep[t] :
                 dep[t][i] \in DOMAIN gen /\ gen[dep[t][i]].target = t /\ pos[dep[t][i]] = i
          BY <2>1 DEF Links, gen, pos
    <3>2. ASSUME NEW x \in DOMAIN gen
          PROVE  /\ gen[x].target \in DOMAIN dep2
                 /\ pos[x] \in DOMAIN dep2[gen[x].target]
                 /\ dep2[gen[x].target][pos[x]] = x
      <4>. DEFINE t == gen[x].target
      <4>1. t \in 1..n - 1 /\ pos[x] \in DOMAIN dep[t] /\ dep[t][pos[x]] = x
            BY <2>1, <3>1 DEF dep
      <4>. HIDE DEF t
      <4>2. t \in DOMAIN dep2 /\ dep2[t] = dep[t]
            BY <1>3, <2>4, <4>1
      <4>3. pos[x] \in DOMAIN dep2[t] /\ dep2[t][pos[x]] = x
            BY <4>1, <4>2
      <4>. QED BY <4>2, <4>3 DEF t
    <3>3. ASSUME NEW t \in DOMAIN dep2, NEW i \in DOMAIN dep2[t]
          PROVE  dep2[t][i] \in DOMAIN gen /\ gen[dep2[t][i]].target = t /\ pos[dep2[t][i]] = i
      <4>1. t \in DOMAIN dep /\ dep2[t] = dep[t]
            BY <2>1, <2>4, <2>5
      <4>. QED BY <3>1, <4>1
    <3>. QED BY <2>4, <3>1, <3>2, <3>3 DEF Links
  <2>. QED BY <1>3, <1>5, <2>4, <2>6 DEF LinksMatch, gen, pos, dep2
<1>7. \A x \in GoalHalves : x \in {s, n} /\ IsGoal(regions[x]) /\ s \in p.goals
      BY <1>2, <1>3 DEF GoalHalves, OldHolds, IsHalf
<1>8. q.goals \subseteq AbstractStates /\ q.goals \cap OldStates \subseteq p.goals
      BY <1>2, <1>3, <1>5, <1>7 DEF OldHolds
<1>9. ArePaths(q)
  <2>1. DOMAIN q.generating \subseteq Known(q) \ q.goals /\ Known(q) \subseteq OldStates
        BY <1>2, <1>5, <1>8 DEF ArePaths, OldHolds
  <2>2. \A x \in DOMAIN q.generating : IsLeft(q, x)
        BY <1>2, <1>5 DEF ArePaths, IsLeft
  <2>3. \A x \in Known(q) : Resolved(q.distances[x])
        BY <1>2, <1>5 DEF ArePaths
  <2>4. IsForest(q.generating)
        BY <1>2, <1>5 DEF ArePaths
  <2>. QED BY <1>3, <1>5, <1>8, <2>1, <2>2, <2>3, <2>4 DEF ArePaths
<1>10. GoalsAre(q, AbstractStates)
  <2>. SUFFICES ASSUME NEW x \in AbstractStates PROVE x \in q.goals <=> IsGoal(regions[x])
       BY DEF GoalsAre
  <2>1. CASE x \in {s, n}
    <3>1. x \in q.goals <=> x \in GoalHalves
          BY <1>2, <1>3, <1>5, <2>1 DEF OldHolds
    <3>. QED BY <2>1, <3>1 DEF GoalHalves
  <2>2. CASE x \notin {s, n}
    <3>1. x \in OldStates \ {s} /\ (x \in q.goals <=> x \in p.goals)
          BY <1>3, <1>5, <1>7, <2>2
    <3>. QED BY <1>2, <3>1 DEF OldHolds, GoalsAre
  <2>. QED BY <2>1, <2>2
<1>11. ASSUME NEW x \in q.goals PROVE Parent(x) \in Known(q) /\ q.distances[Parent(x)] = 0
  <2>1. Parent(x) \in p.goals
    <3>1. CASE x \in {s, n}
          BY <1>2, <1>3, <1>5, <1>7, <3>1 DEF Parent, OldHolds
    <3>2. CASE x \notin {s, n}
          BY <1>5, <1>7, <3>2 DEF Parent
    <3>. QED BY <3>1, <3>2
  <2>. QED BY <1>2, <1>5, <2>1 DEF OldHolds, GoalsAreKnown
<1>12. \A x \in DOMAIN q.generating : IsKept(q, x)
       BY <1>2, <1>5 DEF OldHolds, IsKept, ArePaths
<1>13. \A x \in Known(q) \ (q.goals \cup q.invalid) : x \in DOMAIN q.generating
       BY <1>2, <1>3, <1>5, <1>7 DEF OldHolds
<1>14. \A k \in LiveKeys : ParentDrops(q, k)
       BY <1>2, <1>5 DEF OldHolds, ParentDrops
<1>15. Known(q) \subseteq OldStates
       BY <1>2, <1>5 DEF OldHolds
<1>16. InvalidatedHolds(q, {s, n})
       BY <1>3, <1>5, <1>6, <1>10, <1>11, <1>12, <1>13, <1>14, <1>15 DEF InvalidatedHolds
<1>17. ArePaths(paths)' /\ InvalidatedHolds(paths, queue)'
       BY <1>1, <1>4, <1>9, <1>16, SameView, SameSplitView
<1>18. iteration' \in Nat
       BY <1>1 DEF PathsInvariant
<1>. QED BY <1>1, <1>17, <1>18 DEF PathsInvariant, Settled

-----------------------------------------------------------------------------
(* The states whose path leads through a half *)

LEMMA FewerPaths ==
    ASSUME NEW p, ArePaths(p), NEW q, IsRecord(q), q.distances = p.distances, q.goals = p.goals,
           q.invalid \subseteq AbstractStates, DOMAIN q.generating \subseteq DOMAIN p.generating,
           \A x \in DOMAIN q.generating : q.generating[x] = p.generating[x]
    PROVE  ArePaths(q)
<1>1. Known(q) = Known(p)
      BY DEF Known
<1>2. IsForest(q.generating)
  <2>. SUFFICES ASSUME NEW T \in SUBSET DOMAIN q.generating, T # {}
                PROVE  \E s \in T : q.generating[s].target \notin T
       BY DEF IsForest
  <2>1. T \in SUBSET DOMAIN p.generating
        OBVIOUS
  <2>. QED BY <2>1 DEF ArePaths, IsForest
<1>3. \A x \in DOMAIN q.generating : IsLeft(q, x)
      BY <1>1 DEF ArePaths, IsLeft
<1>. QED BY <1>1, <1>2, <1>3 DEF ArePaths

\* What is left of the paths when target is taken out of them and its dependents are forgotten.
Forgotten(target) ==
    LET p    == Unlink(paths, target)
        list == p.dependents[target]
    IN  [p EXCEPT !.generating = [s \in DOMAIN @ \ Range(list) |-> @[s]],
                  !.positions  = [s \in DOMAIN @ \ Range(list) |-> @[s]],
                  !.dependents[target] = <<>>,
                  !.invalid = @ \cup Range(list)]
Dependents(target) == Range(Unlink(paths, target).dependents[target])

LEMMA ForgottenFacts ==
    ASSUME ArePaths(paths), LinksMatch(paths), NEW t \in DOMAIN paths.dependents
    PROVE  /\ Dependents(t) = {s \in DOMAIN paths.generating \ {t} : paths.generating[s].target = t}
           /\ IsRecord(Forgotten(t)) /\ LinksMatch(Forgotten(t))
           /\ Forgotten(t).distances = paths.distances /\ Forgotten(t).goals = paths.goals
           /\ Forgotten(t).invalid = paths.invalid \cup Dependents(t)
           /\ DOMAIN Forgotten(t).dependents = DOMAIN paths.dependents
           /\ DOMAIN Forgotten(t).generating = DOMAIN paths.generating \ ({t} \cup Dependents(t))
           /\ \A x \in DOMAIN Forgotten(t).generating : Forgotten(t).generating[x] = paths.generating[x]
<1>. DEFINE p == Unlink(paths, t)
            R == Range(p.dependents[t])
            gen2 == [s \in DOMAIN p.generating \ R |-> p.generating[s]]
            pos2 == [s \in DOMAIN p.positions \ R |-> p.positions[s]]
            dep2 == [p.dependents EXCEPT ![t] = <<>>]
            q == [distances |-> p.distances, generating |-> gen2, dependents |-> dep2,
                  positions |-> pos2, goals |-> p.goals, invalid |-> p.invalid \cup R]
<1>1. Relinked(paths, p) /\ DOMAIN p.generating = DOMAIN paths.generating \ {t}
      /\ \A x \in DOMAIN paths.generating \ {t} : p.generating[x] = paths.generating[x]
      BY UnlinkKeepsLinks DEF ArePaths
<1>2. Forgotten(t) = [p EXCEPT !.generating = [s \in DOMAIN @ \ R |-> @[s]],
                               !.positions  = [s \in DOMAIN @ \ R |-> @[s]],
                               !.dependents[t] = <<>>,
                               !.invalid = @ \cup R]
      /\ Dependents(t) = R
      BY DEF Forgotten, Dependents
<1>. HIDE DEF p
<1>3. p = [distances |-> p.distances, generating |-> p.generating, dependents |-> p.dependents,
           positions |-> p.positions, goals |-> p.goals, invalid |-> p.invalid]
      /\ Links(p.generating, p.positions, p.dependents) /\ t \in DOMAIN p.dependents
      BY <1>1 DEF Relinked, IsRecord, LinksMatch
<1>4. R = {s \in DOMAIN p.generating : p.generating[s].target = t} /\ Links(gen2, pos2, dep2)
  <2>. DEFINE gen == p.generating
              pos == p.positions
              dep == p.dependents
  <2>1. Links(gen, pos, dep) /\ t \in DOMAIN dep /\ R = Range(dep[t])
        BY <1>3
  <2>2. IsRest(gen, gen2, R) /\ IsRest(pos, pos2, R) /\ IsCleared(dep, dep2, t)
        BY DEF IsRest, IsCleared
  <2>3. R = {s \in DOMAIN gen : gen[s].target = t} /\ Links(gen2, pos2, dep2)
    <3>. HIDE DEF gen, pos, dep, R, gen2, pos2, dep2
    <3>. QED BY <2>1, <2>2, ForgottenLinks
  <2>. QED BY <2>3
<1>5. Forgotten(t) = q
  <2>. HIDE DEF R
  <2>. QED BY <1>2, <1>3
<1>6. DOMAIN gen2 = DOMAIN p.generating \ R /\ (\A x \in DOMAIN gen2 : gen2[x] = p.generating[x])
      /\ DOMAIN dep2 = DOMAIN p.dependents
      OBVIOUS
<1>. HIDE DEF R, gen2, pos2, dep2
<1>7. IsRecord(q) /\ LinksMatch(q)
      BY <1>4 DEF IsRecord, LinksMatch
<1>8. /\ q.distances = p.distances /\ q.goals = p.goals /\ q.invalid = p.invalid \cup R
      /\ q.dependents = dep2 /\ q.generating = gen2
      OBVIOUS
<1>. HIDE DEF q
<1>9. R = {s \in DOMAIN paths.generating \ {t} : paths.generating[s].target = t}
      BY <1>1, <1>4
<1>. QED BY <1>1, <1>2, <1>5, <1>6, <1>7, <1>8, <1>9 DEF Relinked

LEMMA FollowPaths ==
    ASSUME PathsInvariant, RefinementInvariant, pc = "invalidate", NEW t \in queue
    PROVE  ArePaths(Forgotten(t)) /\ InvalidatedHolds(Forgotten(t), (queue \ {t}) \cup (Dependents(t) \ paths.invalid))
<1>. DEFINE p == paths
            q == Forgotten(t)
            R == Dependents(t)
            Q == (queue \ {t}) \cup (R \ paths.invalid)
<1>1. ArePaths(p) /\ InvalidatedHolds(p, queue)
      BY DEF PathsInvariant
<1>2. t \in AbstractStates /\ t \in p.invalid /\ LinksMatch(p) /\ DOMAIN p.dependents = AbstractStates
      BY <1>1 DEF InvalidatedHolds, ArePaths
<1>3. /\ R = {s \in DOMAIN p.generating \ {t} : p.generating[s].target = t}
      /\ IsRecord(q) /\ LinksMatch(q)
      /\ q.distances = p.distances /\ q.goals = p.goals /\ q.invalid = p.invalid \cup R
      /\ DOMAIN q.dependents = DOMAIN p.dependents
      /\ DOMAIN q.generating = DOMAIN p.generating \ ({t} \cup R)
      /\ \A x \in DOMAIN q.generating : q.generating[x] = p.generating[x]
      BY <1>1, <1>2, ForgottenFacts
<1>. HIDE DEF q, R
<1>4. R \subseteq AbstractStates
      BY <1>1, <1>3 DEF ArePaths
<1>5. ArePaths(q)
      BY <1>1, <1>3, <1>4, FewerPaths DEF ArePaths
<1>6. ASSUME NEW x \in DOMAIN q.generating
      PROVE  /\ x \in q.invalid => x \in Q
             /\ q.generating[x].target \in q.invalid => q.generating[x].target \in Q
             /\ IsKept(q, x)
  <2>1. /\ x \in DOMAIN p.generating /\ x # t /\ x \notin R /\ q.generating[x] = p.generating[x]
        /\ p.generating[x].target # t
        BY <1>3
  <2>2. /\ x \in p.invalid => x \in queue
        /\ p.generating[x].target \in p.invalid => p.generating[x].target \in queue
        /\ IsKept(p, x)
        BY <1>1, <2>1 DEF InvalidatedHolds
  <2>. QED BY <1>3, <2>1, <2>2 DEF IsKept
<1>7. \A x \in Known(q) \ (q.goals \cup q.invalid) : x \in DOMAIN q.generating
      BY <1>1, <1>2, <1>3 DEF InvalidatedHolds, Known
<1>8. \A k \in LiveKeys : ParentDrops(q, k)
      BY <1>1, <1>3 DEF InvalidatedHolds, ParentDrops, Known
<1>9. /\ GoalsAre(q, AbstractStates) /\ Known(q) \subseteq OldStates
      /\ \A x \in q.goals : Parent(x) \in Known(q) /\ q.distances[Parent(x)] = 0
      BY <1>1, <1>3 DEF InvalidatedHolds, GoalsAre, Known
<1>10. Q \subseteq q.invalid /\ split.state \in q.invalid /\ Len(regions) \in q.invalid /\ split.state \in OldStates
       BY <1>1, <1>3 DEF InvalidatedHolds
<1>11. InvalidatedHolds(q, Q)
       BY <1>2, <1>3, <1>6, <1>7, <1>8, <1>9, <1>10 DEF InvalidatedHolds
<1>. QED BY <1>5, <1>11 DEF q, R

\* When no state is left to follow, the others keep their distance, which is right.
BeginSeeding ==
    LET goals == paths.goals \cap paths.invalid
        valid == DOMAIN paths.distances \ paths.invalid
    IN  [paths EXCEPT !.distances = [s \in valid \cup goals |-> IF s \in goals THEN 0 ELSE @[s]]]

LEMMA SeedingPaths ==
    ASSUME PathsInvariant, RefinementInvariant, pc = "invalidate", queue = {},
           NEW q, q = BeginSeeding,
           NEW h, h = {<<0, s>> : s \in paths.goals \cap paths.invalid}
    PROVE  /\ ArePaths(q) /\ AreRepairable(q, paths.invalid) /\ q.invalid = paths.invalid
           /\ LinksMatch(q) /\ DOMAIN q.dependents = AbstractStates
           /\ SeedHolds(q, paths.invalid, paths.invalid, h)
<1>. DEFINE p == paths
            O == p.invalid
            goals == p.goals \cap O
            valid == Known(p) \ O
            dist == [s \in valid \cup goals |-> IF s \in goals THEN 0 ELSE p.distances[s]]
            n == Len(regions)
<1>1. ArePaths(p) /\ InvalidatedHolds(p, {})
      BY DEF PathsInvariant
<1>2. /\ IsRecord(q) /\ q.distances = dist /\ q.generating = p.generating /\ q.positions = p.positions
      /\ q.dependents = p.dependents /\ q.goals = p.goals /\ q.invalid = O
  <2>1. p = [distances |-> p.distances, generating |-> p.generating, dependents |-> p.dependents,
             positions |-> p.positions, goals |-> p.goals, invalid |-> p.invalid]
        BY <1>1 DEF ArePaths, IsRecord
  <2>2. q = [p EXCEPT !.distances = [s \in valid \cup goals |-> IF s \in goals THEN 0 ELSE @[s]]]
        BY DEF BeginSeeding, Known
  <2>. HIDE DEF valid, goals
  <2>3. q = [distances |-> dist, generating |-> p.generating, dependents |-> p.dependents,
             positions |-> p.positions, goals |-> p.goals, invalid |-> p.invalid]
        BY <2>1, <2>2
  <2>. HIDE DEF dist
  <2>. QED BY <2>3 DEF IsRecord
<1>3. /\ Known(q) = valid \cup goals
      /\ \A s \in goals : q.distances[s] = 0
      /\ \A s \in valid \ goals : q.distances[s] = p.distances[s]
      BY <1>2 DEF Known
<1>4. \A s \in valid : q.distances[s] = p.distances[s] /\ Resolved(q.distances[s]) /\ q.distances[s] \in Nat
      BY <1>1, <1>3 DEF ArePaths, Resolved
<1>5. n \in Nat /\ split.state \in 1..n - 1 /\ {split.state, n} \subseteq O /\ O \subseteq AbstractStates
      /\ Known(p) \subseteq 1..n - 1 /\ AbstractStates = 1..n
      BY <1>1, RefinementFacts DEF InvalidatedHolds, OldStates, ArePaths
<1>6. \A s : s \notin O => Parent(s) = s
      BY <1>5 DEF Parent
<1>7. \A s \in DOMAIN p.generating : /\ s \in valid \ p.goals /\ p.generating[s].target \in valid
                                     /\ p.generating[s] \in LiveKeys
      BY <1>1, <1>5 DEF InvalidatedHolds, ArePaths, IsLeft, IsKept, IsHalf
<1>8. \A s \in Known(q) : Resolved(q.distances[s]) /\ q.distances[s] \in Nat
      BY <1>3, <1>4, ResolvedSums
<1>9. ArePaths(q)
  <2>1. \A s \in DOMAIN q.generating : IsLeft(q, s)
        BY <1>1, <1>2, <1>3, <1>4, <1>7 DEF ArePaths, IsLeft
  <2>2. DOMAIN q.generating \subseteq Known(q) \ q.goals
        BY <1>2, <1>3, <1>7
  <2>3. Known(q) \subseteq AbstractStates /\ q.goals \subseteq AbstractStates
        BY <1>1, <1>2, <1>3 DEF ArePaths
  <2>4. IsForest(q.generating)
        BY <1>1, <1>2 DEF ArePaths
  <2>. QED BY <1>2, <1>5, <1>8, <2>1, <2>2, <2>3, <2>4 DEF ArePaths
<1>10. GoalsAreKnown(q) /\ GoalsAre(q, AbstractStates)
  <2>1. \A s \in p.goals : s \in Known(q) /\ q.distances[s] = 0
        BY <1>1, <1>3, <1>4, <1>6 DEF InvalidatedHolds
  <2>. QED BY <1>1, <1>2, <2>1 DEF GoalsAreKnown, GoalsAre, InvalidatedHolds
<1>11. AreLed(q)
       BY <1>1, <1>2, <1>3, <1>7 DEF AreLed, InvalidatedHolds
<1>12. IsBoundedBelow(q, O)
  <2>. DEFINE X == {s \in AbstractStates : Parent(s) \in Known(p)}
              f == [s \in X |-> p.distances[Parent(s)]]
  <2>1. f \in [X -> Nat]
        BY <1>1 DEF ArePaths, Resolved
  <2>2. \A s \in X : f[s] = p.distances[Parent(s)]
        OBVIOUS
  <2>3. \A s : s \in X <=> s \in AbstractStates /\ Parent(s) \in Known(p)
        OBVIOUS
  <2>. HIDE DEF f, X
  <2>4. Known(q) \subseteq X /\ \A s \in Known(q) : f[s] <= q.distances[s]
    <3>. SUFFICES ASSUME NEW s \in Known(q) PROVE s \in X /\ f[s] <= q.distances[s]
         OBVIOUS
    <3>1. CASE s \in goals
      <4>1. Parent(s) \in Known(p) /\ p.distances[Parent(s)] = 0 /\ s \in AbstractStates
            BY <1>1, <3>1 DEF InvalidatedHolds, ArePaths
      <4>. QED BY <1>3, <2>2, <2>3, <3>1, <4>1
    <3>2. CASE s \in valid
      <4>1. s \in AbstractStates /\ Parent(s) = s
            BY <1>1, <1>6, <3>2 DEF ArePaths
      <4>. QED BY <1>4, <2>2, <2>3, <3>2, <4>1
    <3>. QED BY <1>3, <3>1, <3>2
  <2>5. \A s \in X \ O : s \in Known(q) /\ f[s] = q.distances[s]
        BY <1>3, <1>4, <1>6, <2>2, <2>3
  <2>6. \A k \in LiveKeys : k.target \in X => k.source \in X /\ f[k.source] <= f[k.target] + Cost(k.operator)
    <3>. SUFFICES ASSUME NEW k \in LiveKeys, k.target \in X
                  PROVE  k.source \in X /\ f[k.source] <= f[k.target] + Cost(k.operator)
         OBVIOUS
    <3>1. ParentDrops(p, k) /\ k.source \in AbstractStates
          BY <1>1, RefinementFacts DEF InvalidatedHolds, LiveAreSteps, IsStep
    <3>2. Parent(k.source) \in Known(p)
          /\ p.distances[Parent(k.source)] <= p.distances[Parent(k.target)] + Cost(k.operator)
          BY <2>3, <3>1 DEF ParentDrops
    <3>. QED BY <2>2, <2>3, <3>1, <3>2
  <2>7. LowerBound(q, O, X, f)
        BY <2>4, <2>5, <2>6 DEF LowerBound
  <2>8. X \in SUBSET AbstractStates
        BY <2>3
  <2>. QED BY <2>1, <2>7, <2>8 DEF IsBoundedBelow
<1>13. AreRepairable(q, O)
  <2>1. \A s \in DOMAIN q.generating : s \notin O => q.generating[s].target \notin O
        BY <1>2, <1>7
  <2>. QED BY <1>10, <1>11, <1>12, <2>1 DEF AreRepairable
<1>14. SeedHolds(q, O, O, h)
  <2>1. h = {<<q.distances[s], s>> : s \in Known(q) \cap O}
    <3>1. Known(q) \cap O = goals
          BY <1>3
    <3>2. \A e : e \in h <=> \E s \in goals : e = <<0, s>>
          OBVIOUS
    <3>3. \A e : e \in h <=> \E s \in Known(q) \cap O : e = <<q.distances[s], s>>
      <4>. HIDE DEF goals
      <4>. QED BY <1>3, <3>1, <3>2
    <3>. QED BY <3>3
  <2>2. Known(q) \cap O \subseteq q.goals
        BY <1>2, <1>3
  <2>3. \A s \in DOMAIN q.generating : q.generating[s].target \notin O
        BY <1>2, <1>7
  <2>. QED BY <2>1, <2>2, <2>3 DEF SeedHolds
<1>15. LinksMatch(q) /\ DOMAIN q.dependents = AbstractStates
       BY <1>1, <1>2 DEF InvalidatedHolds, LinksMatch
<1>. QED BY <1>2, <1>9, <1>13, <1>14, <1>15

LEMMA InvalidatePaths ==
    ASSUME PathsInvariant, RefinementInvariant, Invalidate, UNCHANGED <<setup, cegarVars>>
    PROVE  PathsInvariant'
<1>1. /\ pc = "invalidate" /\ UNCHANGED abstraction /\ UNCHANGED <<split, iteration>> /\ iteration \in Nat
      /\ iteration # 0
      BY DEF Invalidate, abstraction, PathsInvariant, Starting
<1>2. CASE \E t \in queue : InvalidateDependents(t) /\ pc' = pc
  <2>1. PICK t \in queue : InvalidateDependents(t) /\ pc' = pc
        BY <1>2
  <2>2. paths' = Forgotten(t) /\ queue' = (queue \ {t}) \cup (Dependents(t) \ paths.invalid)
        BY <2>1 DEF InvalidateDependents, Forgotten, Dependents
  <2>3. ArePaths(paths') /\ InvalidatedHolds(paths', queue')
        BY <1>1, <2>2, FollowPaths
  <2>4. ArePaths(paths)' /\ InvalidatedHolds(paths, queue)'
        BY <1>1, <2>3, SameView, SameSplitView
  <2>. QED BY <1>1, <2>1, <2>4 DEF PathsInvariant, Settled
<1>3. CASE /\ queue = {} /\ paths' = BeginSeeding /\ todo' = paths.invalid /\ pc' = "seed"
           /\ heap' = {<<0, s>> : s \in paths.goals \cap paths.invalid}
  <2>1. /\ ArePaths(paths') /\ AreRepairable(paths', paths.invalid) /\ paths'.invalid = paths.invalid
        /\ LinksMatch(paths') /\ DOMAIN paths'.dependents = AbstractStates
        /\ SeedHolds(paths', paths.invalid, paths.invalid, heap')
        BY <1>1, <1>3, SeedingPaths
  <2>2. Open' = paths.invalid /\ AbstractStates' = AbstractStates
        BY <1>1, <2>1, SplitsStayWell DEF Open
  <2>3. ArePaths(paths)' /\ AreRepairable(paths, Open)' /\ SeedHolds(paths, Open, todo, heap)'
        BY <1>1, <1>3, <2>1, <2>2, SameView
  <2>4. LinksHold(paths)'
        BY <1>1, <2>1, <2>2, SameView DEF LinksHold
  <2>. QED BY <1>1, <1>3, <2>3, <2>4 DEF PathsInvariant, RepairHolds, Settled
<1>. QED BY <1>1, <1>2, <1>3 DEF Invalidate, BeginSeeding

-----------------------------------------------------------------------------
(* Until the distances are exact again *)

LEMMA SeedPaths ==
    ASSUME PathsInvariant, RefinementInvariant, CostsAreResolved, Seed, UNCHANGED <<setup, cegarVars>>
    PROVE  PathsInvariant'
<1>1. /\ pc = "seed" /\ UNCHANGED abstraction /\ UNCHANGED <<iteration, queue>> /\ iteration \in Nat
      /\ iteration # 0 /\ ArePaths(paths) /\ AreRepairable(paths, Open) /\ LinksHold(paths)
      /\ SeedHolds(paths, Open, todo, heap) /\ pc' \in {"seed", "expand"}
      BY DEF Seed, abstraction, PathsInvariant, Starting, RepairHolds
<1>2. /\ ArePaths(paths') /\ AreRepairable(paths', Open) /\ LinksHold(paths') /\ paths'.invalid = paths.invalid
      /\ pc' = "seed" => SeedHolds(paths', Open, todo', heap')
      /\ pc' = "expand" => ExpandHolds(paths', Open, heap')
      BY <1>1, SeedKeepsPaths
<1>3. Open' = Open /\ AbstractStates' = AbstractStates
      BY <1>1, <1>2, SplitsStayWell DEF Open
<1>4. /\ ArePaths(paths)' /\ AreRepairable(paths, Open)'
      /\ pc' = "seed" => SeedHolds(paths, Open, todo, heap)'
      /\ pc' = "expand" => ExpandHolds(paths, Open, heap)'
      BY <1>1, <1>2, <1>3, SameView
<1>5. LinksHold(paths)'
      BY <1>1, <1>2, <1>3, SameView DEF LinksHold
<1>. QED BY <1>1, <1>4, <1>5 DEF PathsInvariant, RepairHolds, Settled

LEMMA ExpandPaths ==
    ASSUME PathsInvariant, RefinementInvariant, CostsAreResolved, Expand, UNCHANGED <<setup, cegarVars>>
    PROVE  PathsInvariant'
<1>1. /\ pc = "expand" /\ pc' = "expand" /\ UNCHANGED abstraction /\ UNCHANGED iteration /\ iteration \in Nat
      /\ ArePaths(paths) /\ AreRepairable(paths, Open) /\ LinksHold(paths) /\ ExpandHolds(paths, Open, heap)
      BY DEF Expand, abstraction, PathsInvariant, RepairHolds
<1>2. /\ ArePaths(paths') /\ AreRepairable(paths', Open) /\ LinksHold(paths') /\ paths'.invalid = paths.invalid
      /\ ExpandHolds(paths', Open, heap')
      BY <1>1, ExpandKeepsPaths
<1>3. Open' = Open /\ AbstractStates' = AbstractStates
      BY <1>1, <1>2, SplitsStayWell DEF Open
<1>4. ArePaths(paths)' /\ AreRepairable(paths, Open)' /\ ExpandHolds(paths, Open, heap)'
      BY <1>1, <1>2, <1>3, SameView
<1>5. LinksHold(paths)'
      BY <1>1, <1>2, <1>3, SameView DEF LinksHold
<1>. QED BY <1>1, <1>4, <1>5 DEF PathsInvariant, RepairHolds, Settled

\* When the heap is empty every transition has been taken into account.
LEMMA ExpansionIsExact ==
    ASSUME RefinementInvariant, CostsAreResolved, ArePaths(paths), AreRepairable(paths, Open),
           ExpandHolds(paths, Open, {}), NEW k \in LiveKeys
    PROVE  Drops(paths, k)
<1>. DEFINE p == paths
            c == Cost(k.operator)
<1>. SUFFICES ASSUME k.target \in Known(p)
              PROVE  k.source \in Known(p) /\ p.distances[k.source] <= p.distances[k.target] + c
     BY DEF Drops
<1>1. CASE k.source \in Open /\ k.target \in Open
      BY <1>1 DEF ExpandHolds, IsRelaxed, Drops
<1>2. CASE k.source \in Open /\ k.target \notin Open
      BY <1>2 DEF ExpandHolds, IsBounded, Drops
<1>3. CASE k.source \notin Open
  <2>1. PICK X \in SUBSET AbstractStates : \E f \in [X -> Nat] : LowerBound(p, Open, X, f)
        BY DEF AreRepairable, IsBoundedBelow
  <2>2. PICK f \in [X -> Nat] : LowerBound(p, Open, X, f)
        BY <2>1
  <2>3. k.target \in X /\ f[k.target] <= p.distances[k.target]
        BY <2>2 DEF LowerBound
  <2>4. k.source \in X /\ f[k.source] <= f[k.target] + c
        BY <2>2, <2>3 DEF LowerBound
  <2>5. k.source \in Known(p) /\ f[k.source] = p.distances[k.source]
        BY <1>3, <2>2, <2>4 DEF LowerBound
  <2>6. c \in Nat
        BY CostFacts, RefinementFacts DEF LiveAreSteps, IsStep
  <2>7. f[k.source] \in Nat /\ f[k.target] \in Nat /\ p.distances[k.target] \in Nat
        BY <2>3, <2>4 DEF ArePaths, Resolved
  <2>. QED BY <2>3, <2>4, <2>5, <2>6, <2>7
<1>. QED BY <1>1, <1>2, <1>3

\* The first computation: the links of all states that have a transition.
LEMMA FirstLinks ==
    ASSUME RefinementInvariant, ArePaths(paths), LinksHold(paths), iteration = 0,
           NEW q, q = LinkAll([paths EXCEPT !.generating = Empty], paths.generating)
    PROVE  /\ IsRecord(q) /\ LinksMatch(q) /\ DOMAIN q.dependents = AbstractStates
           /\ q.distances = paths.distances /\ q.goals = paths.goals
           /\ DOMAIN q.generating = DOMAIN paths.generating
           /\ \A x \in DOMAIN q.generating : q.generating[x] = paths.generating[x]
<1>. DEFINE p == [paths EXCEPT !.generating = Empty]
            via == paths.generating
<1>1. p = [distances |-> paths.distances, generating |-> Empty, dependents |-> paths.dependents,
           positions |-> paths.positions, goals |-> paths.goals, invalid |-> paths.invalid]
      BY DEF ArePaths, IsRecord
<1>2. Len(regions) \in Nat \ {0} /\ AbstractStates = 1..Len(regions)
      BY RefinementFacts
<1>3. /\ IsRecord(p) /\ p.distances = paths.distances /\ p.goals = paths.goals
      /\ p.dependents = [s \in AbstractStates |-> <<>>] /\ p.generating = Empty /\ p.positions = paths.positions
      BY <1>1 DEF IsRecord, LinksHold
<1>. HIDE DEF p
<1>4. LinksMatch(p)
  <2>1. DOMAIN p.generating = {} /\ DOMAIN p.positions = {}
        BY <1>3 DEF Empty, LinksHold
  <2>2. p.dependents \in Seq(Seq(Nat))
    <3>1. <<>> \in Seq(Nat)
          OBVIOUS
    <3>. QED BY <1>2, <1>3, <3>1
  <2>3. \A t \in DOMAIN p.dependents : DOMAIN p.dependents[t] = {}
        BY <1>3
  <2>. QED BY <2>1, <2>2, <2>3 DEF LinksMatch, Links
<1>5. DOMAIN via \subseteq AbstractStates /\ \A x \in DOMAIN via : via[x].target \in DOMAIN p.dependents
  <2>1. DOMAIN p.dependents = AbstractStates
        BY <1>3
  <2>. QED BY <2>1 DEF ArePaths, IsLeft, IsStep
<1>. HIDE DEF via
<1>6. /\ Relinked(p, LinkAll(p, via))
      /\ DOMAIN LinkAll(p, via).generating = DOMAIN p.generating \cup DOMAIN via
      /\ \A x \in DOMAIN p.generating \cup DOMAIN via :
             LinkAll(p, via).generating[x] = IF x \in DOMAIN via THEN via[x] ELSE p.generating[x]
      BY <1>2, <1>3, <1>4, <1>5, LinkAllLinks
<1>7. q = LinkAll(p, via) /\ DOMAIN p.generating = {} /\ DOMAIN p.dependents = AbstractStates
      BY <1>3 DEF p, via, Empty
<1>. QED BY <1>3, <1>6, <1>7 DEF Relinked, via

LEMMA FinishPaths ==
    ASSUME PathsInvariant, RefinementInvariant, CostsAreResolved, FinishDistances, UNCHANGED <<setup, cegarVars>>
    PROVE  PathsInvariant'
<1>. DEFINE p == IF iteration = 0 THEN LinkAll([paths EXCEPT !.generating = Empty], paths.generating) ELSE paths
            q == [p EXCEPT !.invalid = {}]
<1>1. /\ pc = "expand" /\ pc' = "check" /\ UNCHANGED abstraction /\ iteration' = iteration + 1 /\ iteration \in Nat
      /\ heap = {} /\ paths' = q
      /\ ArePaths(paths) /\ AreRepairable(paths, Open) /\ LinksHold(paths) /\ ExpandHolds(paths, Open, {})
      BY DEF FinishDistances, abstraction, PathsInvariant, RepairHolds
<1>2. /\ IsRecord(p) /\ LinksMatch(p) /\ DOMAIN p.dependents = AbstractStates
      /\ p.distances = paths.distances /\ p.goals = paths.goals
      /\ DOMAIN p.generating = DOMAIN paths.generating
      /\ \A x \in DOMAIN p.generating : p.generating[x] = paths.generating[x]
  <2>1. CASE iteration = 0
        BY <1>1, <2>1, FirstLinks
  <2>2. CASE iteration # 0
        BY <1>1, <2>2 DEF ArePaths, LinksHold
  <2>. QED BY <2>1, <2>2
<1>. HIDE DEF p
<1>3. /\ IsRecord(q) /\ LinksMatch(q) /\ DOMAIN q.dependents = AbstractStates
      /\ q.distances = paths.distances /\ q.goals = paths.goals /\ q.invalid = {}
      /\ DOMAIN q.generating = DOMAIN paths.generating
      /\ \A x \in DOMAIN q.generating : q.generating[x] = paths.generating[x]
  <2>1. q = [distances |-> p.distances, generating |-> p.generating, dependents |-> p.dependents,
             positions |-> p.positions, goals |-> p.goals, invalid |-> {}]
        BY <1>2 DEF IsRecord
  <2>. HIDE DEF q
  <2>2. /\ q.distances = p.distances /\ q.generating = p.generating /\ q.dependents = p.dependents
        /\ q.positions = p.positions /\ q.goals = p.goals /\ q.invalid = {} /\ IsRecord(q)
        BY <2>1 DEF IsRecord
  <2>. QED BY <1>2, <2>2 DEF LinksMatch
<1>. HIDE DEF q
<1>4. ArePaths(q)
      BY <1>1, <1>3, FewerPaths
<1>5. \A k \in LiveKeys : Drops(q, k)
      BY <1>1, <1>3, ExpansionIsExact DEF Drops, Known
<1>6. GoalsAreKnown(q) /\ GoalsAre(q, AbstractStates) /\ AreLed(q)
      BY <1>1, <1>3 DEF AreRepairable, GoalsAreKnown, GoalsAre, AreLed, Known
<1>7. ExactHolds(q)
      BY <1>3, <1>5, <1>6 DEF ExactHolds
<1>8. ArePaths(paths)' /\ ExactHolds(paths)'
      BY <1>1, <1>4, <1>7, SameView
<1>9. iteration' \in Nat /\ iteration' # 0
      BY <1>1
<1>. QED BY <1>1, <1>8, <1>9 DEF PathsInvariant, Settled

LEMMA PathsStep ==
    ASSUME CostsAreResolved
    PROVE  RefinementInvariant /\ TransitionsInvariant /\ PathsInvariant /\ [Next]_vars => PathsInvariant'
<1>. SUFFICES ASSUME RefinementInvariant, TransitionsInvariant, PathsInvariant, [Next]_vars
              PROVE  PathsInvariant'
     OBVIOUS
<1>1. CASE IsQuiet
      BY <1>1, QuietKeepsPaths
<1>2. CASE (ApplySplit \/ Detach \/ Attach) /\ UNCHANGED <<setup, cegarVars>>
      BY <1>2, ApplySplitPaths, DetachPaths, AttachPaths
<1>3. CASE IsRepair /\ UNCHANGED <<setup, cegarVars>>
      BY <1>3, BeginDistancesPaths, BeginRepairPaths, InvalidatePaths, SeedPaths, ExpandPaths, FinishPaths
         DEF IsRepair
<1>. QED BY <1>1, <1>2, <1>3, RepairCases

\* Exact distances, in the words of the properties.
LEMMA ExactDistances ==
    ASSUME PathsInvariant, RefinementInvariant, CostsAreResolved, iteration # 0, pc \in Settled
    PROVE  NoPlanIsCheaper /\ PlansAreGenerated
<1>. DEFINE p == paths
            next == p.generating
<1>1. ArePaths(p) /\ ExactHolds(p)
      BY DEF PathsInvariant
<1>2. \A s \in AbstractStates : s \in p.goals <=> IsGoal(regions[s])
      BY <1>1 DEF ExactHolds, GoalsAre
<1>3. NoPlanIsCheaper
  <2>1. \A s \in AbstractStates : IsGoal(regions[s]) => s \in DOMAIN p.distances /\ p.distances[s] = 0
        BY <1>1, <1>2 DEF ExactHolds, GoalsAreKnown, Known
  <2>2. \A k \in LiveKeys : Drops(p, k)
        BY <1>1 DEF ExactHolds
  <2>. QED BY <2>1, <2>2 DEF NoPlanIsCheaper, Drops, Known
<1>4. DOMAIN next = {s \in DOMAIN p.distances : ~ IsGoal(regions[s])}
      BY <1>1, <1>2 DEF ExactHolds, AreLed, ArePaths, Known
<1>5. ASSUME NEW s \in DOMAIN next
      PROVE  /\ next[s] \in LiveKeys /\ next[s].source = s
             /\ next[s].target \in DOMAIN p.distances
             /\ p.distances[s] = p.distances[next[s].target] + Cost(next[s].operator)
  <2>. DEFINE k == next[s]
  <2>1. k \in LiveKeys
        BY <1>1 DEF ExactHolds, AreLed, ArePaths
  <2>2. k.source = s /\ k.target \in DOMAIN p.distances
        /\ p.distances[s] >= p.distances[k.target] + Cost(k.operator)
        BY <1>1 DEF ArePaths, IsLeft, Known
  <2>3. p.distances[s] <= p.distances[k.target] + Cost(k.operator)
        BY <1>3, <2>1, <2>2 DEF NoPlanIsCheaper
  <2>4. p.distances[s] \in Nat /\ p.distances[k.target] \in Nat /\ s \in DOMAIN p.distances
        BY <1>1, <1>4, <2>2 DEF ArePaths, Known, Resolved
  <2>5. Cost(k.operator) \in Nat
        BY <2>1, CostFacts, RefinementFacts DEF LiveAreSteps, IsStep
  <2>. QED BY <2>1, <2>2, <2>3, <2>4, <2>5
<1>. QED BY <1>1, <1>3, <1>4, <1>5 DEF PlansAreGenerated, ArePaths, IsForest

\* update_shortest_paths_after_split: if costs are far enough apart for the tolerance, then
\* whatever is split, in whatever order states are followed and whichever of equally good
\* transitions is taken, the repaired distances are those of the cheapest abstract plans, and
\* the generating transitions lead along one from each state that has a plan.
THEOREM DistancesAreExactAlways ==
    ASSUME CostsAreResolved
    PROVE  Spec => []DistancesAreExact
<1>1. Init => RefinementInvariant /\ TransitionsInvariant /\ PathsInvariant
      BY InitRefinement, InitTransitions, InitPaths
<1>2. RefinementInvariant /\ TransitionsInvariant /\ PathsInvariant /\ [Next]_vars
          => RefinementInvariant' /\ TransitionsInvariant' /\ PathsInvariant'
      BY RefinementStep, TransitionsStep, PathsStep
<1>3. PathsInvariant /\ Computed => iteration # 0 /\ pc \in Settled
      BY DEF PathsInvariant, Computed, Starting, Settled
<1>4. RefinementInvariant /\ PathsInvariant => DistancesAreExact
      BY <1>3, ExactDistances DEF DistancesAreExact
<1>. QED BY <1>1, <1>2, <1>4, PTL DEF Spec

-----------------------------------------------------------------------------
(***************************************************************************)
(* How the refinement ends                                                 *)
(***************************************************************************)

\* The costs of plans of at most n steps, for all n up to N.
PlansUpTo(t, N, g) == g = [n \in 0..N |-> IF n = 0 THEN PlansOfNoStep(t) ELSE LongerPlans(t, g[n - 1])]

LEMMA PlansExist ==
    ASSUME NEW t, NEW N \in Nat
    PROVE  \E g : PlansUpTo(t, N, g)
<1>. DEFINE Bad == {m \in Nat : ~ \E g : PlansUpTo(t, m, g)}
<1>. SUFFICES ASSUME Bad # {} PROVE FALSE
     OBVIOUS
<1>1. PICK m \in Bad : \A n \in Bad : m <= n
  <2>1. Bad \in SUBSET Nat
        OBVIOUS
  <2>. HIDE DEF Bad
  <2>. QED BY <2>1, LeastNatural
<1>2. m # 0
  <2>1. PlansUpTo(t, 0, [n \in 0..0 |-> PlansOfNoStep(t)])
        BY DEF PlansUpTo
  <2>. QED BY <2>1
<1>3. m \in Nat /\ m - 1 \in Nat /\ m - 1 \notin Bad
  <2>1. m \in Nat
        OBVIOUS
  <2>. HIDE DEF Bad
  <2>. QED BY <1>1, <1>2, <2>1
<1>4. PICK g : PlansUpTo(t, m - 1, g)
      BY <1>3
<1>. DEFINE h == [n \in 0..m |-> IF n = m THEN LongerPlans(t, g[m - 1]) ELSE g[n]]
<1>5. \A n \in 0..m - 1 : g[n] = IF n = 0 THEN PlansOfNoStep(t) ELSE LongerPlans(t, g[n - 1])
      BY <1>4 DEF PlansUpTo
<1>6. ASSUME NEW n \in 0..m
      PROVE  h[n] = IF n = 0 THEN PlansOfNoStep(t) ELSE LongerPlans(t, h[n - 1])
  <2>1. CASE n = m
    <3>1. h[n - 1] = g[m - 1]
          BY <1>2, <1>3, <2>1
    <3>. QED BY <1>2, <2>1, <3>1
  <2>2. CASE n # m
    <3>1. n \in 0..m - 1 /\ h[n] = g[n] /\ (n # 0 => h[n - 1] = g[n - 1])
          BY <1>3, <2>2
    <3>. QED BY <1>5, <3>1
  <2>. QED BY <2>1, <2>2
<1>7. PlansUpTo(t, m, h)
  <2>. HIDE DEF h
  <2>1. h = [n \in 0..m |-> h[n]]
        BY DEF h
  <2>2. h = [n \in 0..m |-> IF n = 0 THEN PlansOfNoStep(t) ELSE LongerPlans(t, h[n - 1])]
        BY <1>6, <2>1
  <2>. QED BY <2>2 DEF PlansUpTo
<1>. QED BY <1>7

\* Each plan from s costs at least as much as the abstraction says.
AreBounded(costs) ==
    \A s \in States : \A c \in costs[s] :
        c \in Nat /\ MapState(s) \in Known(paths) /\ paths.distances[MapState(s)] <= c

\* The abstraction simulates the task whenever it is not being split.
LEMMA SimulatesNow ==
    ASSUME RefinementInvariant, TransitionsInvariant, pc \notin {"detach", "attach"}, NEW s \in States
    PROVE  /\ MapState(s) \in AbstractStates
           /\ \A o \in Applicable(task, s) :
                  /\ Result(task, o, s) \in States
                  /\ ContainsTransition(Key(MapState(s), o, MapState(Result(task, o, s))))
           /\ (\A f \in task.goals : Holds(f, s)) => IsGoal(regions[MapState(s)])
<1>1. \A x \in States : MapState(x) \in AbstractStates /\ InRegion(x, regions[MapState(x)])
  <2>. SUFFICES ASSUME NEW x \in States
                PROVE  MapState(x) \in AbstractStates /\ InRegion(x, regions[MapState(x)])
       OBVIOUS
  <2>. QED BY DescentMaps DEF RefinementInvariant, SplitsInvariant, MapsToStates
<1>2. task \in Tasks
      BY RefinementFacts
<1>3. /\ \A f \in task.goals : IsFact(f)
      /\ \A o \in Names : \A f \in Pre(o) : IsFact(f)
      BY <1>2, TaskAssumption DEF Names, Pre
<1>4. ASSUME NEW o \in Applicable(task, s)
      PROVE  /\ Result(task, o, s) \in States
             /\ ContainsTransition(Key(MapState(s), o, MapState(Result(task, o, s))))
  <2>1. /\ o \in Names /\ \A f \in Pre(o) : IsFact(f) /\ Holds(f, s)
        /\ Result(task, o, s) \in States
        BY <1>3 DEF Applicable, Names, Pre
  <2>2. Result(task, o, s) = Successor(s, o)
        BY DEF Result, Successor, Image, Written, Effects
  <2>3. MayTransition(regions[MapState(s)], o, regions[MapState(Result(task, o, s))])
        BY <1>1, <2>1, <2>2, RegionsSimulate
  <2>. QED BY <1>1, <2>1, <2>3 DEF TransitionsInvariant, StoredAreAllowed
<1>5. ASSUME \A f \in task.goals : Holds(f, s) PROVE IsGoal(regions[MapState(s)])
      BY <1>1, <1>3, <1>5, RegionsSimulate DEF IsGoal
<1>. QED BY <1>1, <1>4, <1>5

LEMMA LongerPlansAreBounded ==
    ASSUME RefinementInvariant, TransitionsInvariant, CostsAreResolved,
           ArePaths(paths), ExactHolds(paths), pc \notin {"detach", "attach"},
           NEW costs, AreBounded(costs)
    PROVE  AreBounded(LongerPlans(task, costs))
<1>. SUFFICES ASSUME NEW s \in States, NEW o \in Applicable(task, s), NEW c \in costs[Result(task, o, s)]
              PROVE  /\ task.operators[o].cost + c \in Nat
                     /\ MapState(s) \in Known(paths)
                     /\ paths.distances[MapState(s)] <= task.operators[o].cost + c
     BY DEF AreBounded, LongerPlans
<1>. DEFINE u == Result(task, o, s)
            a == MapState(s)
            b == MapState(u)
            k == Key(a, o, b)
<1>1. u \in States /\ ContainsTransition(k)
      BY SimulatesNow
<1>2. c \in Nat /\ b \in Known(paths) /\ paths.distances[b] <= c
      BY <1>1 DEF AreBounded
<1>3. o \in Names /\ Cost(o) = task.operators[o].cost
      BY DEF Applicable, Names, Cost
<1>4. Cost(o) \in Nat /\ paths.distances[b] \in Nat
      BY <1>2, <1>3, CostFacts, RefinementFacts DEF ArePaths, Resolved
<1>5. a \in Known(paths) /\ paths.distances[a] \in Nat /\ paths.distances[a] <= paths.distances[b] + Cost(o)
  <2>1. CASE a = b
        BY <1>2, <1>4, <2>1
  <2>2. CASE a # b
    <3>1. k \in LiveKeys /\ k.source = a /\ k.target = b /\ k.operator = o
          BY <1>1, <2>2, KeyFields DEF ContainsTransition
    <3>2. a \in Known(paths) /\ paths.distances[a] <= paths.distances[b] + Cost(o)
          BY <1>2, <3>1 DEF ExactHolds, Drops
    <3>. QED BY <3>2 DEF ArePaths, Resolved
  <2>. QED BY <2>1, <2>2
<1>. QED BY <1>2, <1>3, <1>4, <1>5

LEMMA PlansAreBounded ==
    ASSUME RefinementInvariant, TransitionsInvariant, PathsInvariant, CostsAreResolved,
           iteration # 0, pc \in Settled
    PROVE  AreBounded(PlanCosts[task])
<1>1. /\ task \in Tasks /\ ArePaths(paths) /\ ExactHolds(paths) /\ pc \notin {"detach", "attach"}
      BY RefinementFacts DEF PathsInvariant, Settled
<1>. DEFINE g == CHOOSE f : PlansUpTo(task, MaxSteps, f)
            Bad == {n \in Nat : n <= MaxSteps /\ ~ AreBounded(g[n])}
<1>2. PlanCosts[task] = g[MaxSteps]
      BY <1>1 DEF PlanCosts, PlansUpTo
<1>3. MaxSteps \in Nat
      BY MaxStepsAssumption
<1>4. PlansUpTo(task, MaxSteps, g)
      BY <1>3, PlansExist
<1>. HIDE DEF g
<1>5. \A n \in 0..MaxSteps : g[n] = IF n = 0 THEN PlansOfNoStep(task) ELSE LongerPlans(task, g[n - 1])
      BY <1>4 DEF PlansUpTo
<1>6. AreBounded(PlansOfNoStep(task))
  <2>. SUFFICES ASSUME NEW s \in States, \A f \in task.goals : Holds(f, s)
                PROVE  MapState(s) \in Known(paths) /\ paths.distances[MapState(s)] = 0
       BY DEF AreBounded, PlansOfNoStep
  <2>1. MapState(s) \in AbstractStates /\ IsGoal(regions[MapState(s)])
        BY <1>1, SimulatesNow
  <2>. QED BY <1>1, <2>1 DEF ExactHolds, GoalsAre, GoalsAreKnown
<1>7. Bad = {}
  <2>. SUFFICES ASSUME Bad # {} PROVE FALSE
       OBVIOUS
  <2>1. PICK m \in Bad : \A n \in Bad : m <= n
    <3>1. Bad \in SUBSET Nat
          OBVIOUS
    <3>. HIDE DEF Bad
    <3>. QED BY <3>1, LeastNatural
  <2>2. m \in Nat /\ m \in 0..MaxSteps /\ ~ AreBounded(g[m])
        BY <1>3
  <2>3. m # 0
        BY <1>3, <1>5, <1>6, <2>2
  <2>4. m - 1 \in Nat /\ m - 1 <= MaxSteps /\ AreBounded(g[m - 1])
    <3>1. m - 1 \in Nat /\ m - 1 <= MaxSteps /\ m - 1 \notin Bad
      <4>. HIDE DEF Bad
      <4>. QED BY <1>3, <2>1, <2>2, <2>3
    <3>. QED BY <3>1
  <2>5. g[m] = LongerPlans(task, g[m - 1])
        BY <1>5, <2>2, <2>3
  <2>. QED BY <1>1, <2>2, <2>4, <2>5, LongerPlansAreBounded
<1>. QED BY <1>2, <1>3, <1>7

LEMMA ConclusionIsRight ==
    ASSUME RefinementInvariant, TransitionsInvariant, PathsInvariant, CostsAreResolved,
           iteration # 0, pc \in Settled, root \in States,
           NEW reason, NEW cost, Stop(reason, cost),
           reason = "ConcretePlan" => cost = paths.distances[Root],
           reason = "DeadEnd" => Root \notin DOMAIN paths.distances
    PROVE  OutcomeIsRight'
<1>1. outcome' = [reason |-> reason, cost |-> cost] /\ task' = task /\ root' = root
      BY DEF Stop, setup
<1>2. \A c \in PlanCosts[task][root] : Root \in DOMAIN paths.distances /\ paths.distances[Root] <= c
      BY PlansAreBounded DEF AreBounded, Known, Root
<1>3. reason = "ConcretePlan" => \A c \in PlanCosts[task][root] : cost <= c
      BY <1>2
<1>4. reason = "DeadEnd" => PlanCosts[task][root] = {}
      BY <1>2
<1>. HIDE DEF PlanCosts
<1>. QED BY <1>1, <1>3, <1>4 DEF OutcomeIsRight

LEMMA OutcomeStep ==
    ASSUME CostsAreResolved, RefinementInvariant, TransitionsInvariant, PathsInvariant,
           root \in States, OutcomeIsRight, [Next]_vars
    PROVE  OutcomeIsRight' /\ (root \in States)'
<1>1. UNCHANGED <<task, root>>
      BY DEF Next, vars, setup, InitialSplit, InitialSplitDone, Refine, StartIteration, Stop, ReplayPlan,
             ReplayWholePlan, Offer, OfferFacts, Conclude, Execute, Walk, Trace, Regress, Select, Done
<1>. SUFFICES OutcomeIsRight'
     BY <1>1
<1>2. CASE UNCHANGED outcome
      BY <1>1, <1>2 DEF OutcomeIsRight
<1>3. ASSUME NEW operators, NEW cost, Conclude(operators, cost), pc \in {"replay", "regress"}
      PROVE  OutcomeIsRight'
  <2>1. iteration # 0 /\ pc \in Settled
        BY <1>3 DEF PathsInvariant, Starting, Settled
  <2>2. Stop("ConcretePlan", cost) /\ cost = paths.distances[Root]
        BY <1>3 DEF Conclude, IsPlan
  <2>. QED BY <2>1, <2>2, ConclusionIsRight
<1>4. CASE StartIteration
  <2>1. iteration # 0 /\ pc \in Settled
        BY <1>4 DEF StartIteration, PathsInvariant, Starting, Settled
  <2>2. ASSUME NEW reason, Stop(reason, 0), reason # "ConcretePlan",
               reason = "DeadEnd" => Root \notin DOMAIN paths.distances
        PROVE  OutcomeIsRight'
        BY <2>1, <2>2, ConclusionIsRight
  <2>3. Stop("IterationLimit", 0) \/ Stop("MemoryLimit", 0) \/ Stop("TimeLimit", 0) => OutcomeIsRight'
        BY <2>2
  <2>4. Root \notin DOMAIN paths.distances /\ Stop("DeadEnd", 0) => OutcomeIsRight'
        BY <2>2
  <2>5. \/ Stop("IterationLimit", 0) \/ Stop("MemoryLimit", 0) \/ Stop("TimeLimit", 0)
        \/ Root \notin DOMAIN paths.distances /\ Stop("DeadEnd", 0)
        \/ UNCHANGED cegarVars
        BY <1>4 DEF StartIteration
  <2>. QED BY <1>2, <2>3, <2>4, <2>5 DEF cegarVars
<1>5. \A C : Offer(C) => UNCHANGED outcome
      BY DEF Offer
<1>6. \A C : Execute(C) => UNCHANGED outcome
      BY DEF Execute
<1>7. CASE ReplayPlan
  <2>1. \/ OfferFacts \/ Conclude(replay.operators, replay.cost) \/ Offer(Deviations) \/ Execute({})
        BY <1>7 DEF ReplayPlan
  <2>2. pc = "replay"
        BY <1>7 DEF ReplayPlan
  <2>3. OfferFacts => UNCHANGED outcome
        BY <1>5 DEF OfferFacts
  <2>. QED BY <1>2, <1>3, <1>5, <1>6, <2>1, <2>2, <2>3
<1>8. CASE ReplayWholePlan
  <2>1. \/ OfferFacts \/ Conclude(replay.operators, replay.cost) \/ Offer({})
        \/ \E choice \in FactChoices(Failed) : Execute(Chosen(choice) \cup Deviations)
        BY <1>8 DEF ReplayWholePlan
  <2>2. pc = "replay"
        BY <1>8 DEF ReplayWholePlan
  <2>3. OfferFacts => UNCHANGED outcome
        BY <1>5 DEF OfferFacts
  <2>. QED BY <1>2, <1>3, <1>5, <1>6, <2>1, <2>2, <2>3
<1>9. CASE Regress
  <2>1. \/ \E sp \in Flaws : Offer({sp})
        \/ Trace([trace EXCEPT !.step = @ - 1, !.partial = Regressed(Current, trace.partial)])
        \/ Conclude(PlanOperators, RunOf(PlanOperators).cost)
        BY <1>9 DEF Regress
  <2>2. pc = "regress"
        BY <1>9 DEF Regress
  <2>3. \A t : Trace(t) => UNCHANGED outcome
        BY DEF Trace
  <2>. QED BY <1>2, <1>3, <1>5, <2>1, <2>2, <2>3
<1>10. CASE Select
  <2>1. pc \in Settled /\ iteration # 0
        BY <1>10 DEF Select, PathsInvariant, Starting, Settled
  <2>2. ASSUME NEW sp, RefinementLimit(sp) # "none", Stop(RefinementLimit(sp), 0) PROVE OutcomeIsRight'
    <3>1. RefinementLimit(sp) \notin {"ConcretePlan", "DeadEnd"}
          BY DEF RefinementLimit
    <3>. QED BY <2>1, <2>2, <3>1, ConclusionIsRight
  <2>3. PICK sp \in SelectedSplits(candidates) :
            \/ RefinementLimit(sp) # "none" /\ Stop(RefinementLimit(sp), 0)
            \/ UNCHANGED outcome
        BY <1>10 DEF Select
  <2>. QED BY <1>2, <2>2, <2>3
<1>11. CASE InitialSplit \/ InitialSplitDone \/ Refine \/ Walk \/ Done \/ UNCHANGED vars
      BY <1>2, <1>11 DEF InitialSplit, InitialSplitDone, Refine, Walk, Trace, Done, vars, cegarVars
<1>. QED BY <1>1, <1>4, <1>5, <1>6, <1>7, <1>8, <1>9, <1>10, <1>11 DEF Next

\* CegarOutcome: a plan that the refinement returns is a cheapest one (of all that have no
\* more than MaxSteps steps, for every MaxSteps), and a task it calls a dead end has no plan.
THEOREM OutcomeIsRightAlways ==
    ASSUME CostsAreResolved
    PROVE  Spec => []OutcomeIsRight
<1>. DEFINE Inv == /\ RefinementInvariant /\ TransitionsInvariant /\ PathsInvariant
                   /\ root \in States /\ OutcomeIsRight
<1>1. Init => Inv
  <2>1. Init => root \in States /\ OutcomeIsRight
        BY TaskAssumption DEF Init, OutcomeIsRight
  <2>. QED BY <2>1, InitRefinement, InitTransitions, InitPaths
<1>2. Inv /\ [Next]_vars => Inv'
      BY RefinementStep, TransitionsStep, PathsStep, OutcomeStep
<1>. QED BY <1>1, <1>2, PTL DEF Spec

-----------------------------------------------------------------------------
(***************************************************************************)
(* The computations of distances are runs of the backward search           *)
(***************************************************************************)

SizeHolds == Len(regions) <= MaxStates /\ (pc = "apply" => Len(regions) < MaxStates)

LEMMA SizeStep ==
    ASSUME RefinementInvariant, SizeHolds, [Next]_vars
    PROVE  SizeHolds'
<1>1. Len(regions) \in Nat /\ MaxStates \in Nat
      BY RefinementFacts, AbstractionAssumption
<1>2. CASE ApplySplit
  <2>1. pc = "apply" /\ pc' = "detach" /\ regions' = SplitRegions(split)
        BY <1>2 DEF ApplySplit
  <2>2. Len(regions') = Len(regions) + 1
        BY <2>1 DEF RefinementInvariant, TableMatches, SplitRegions
  <2>. QED BY <1>1, <2>1, <2>2 DEF SizeHolds
<1>3. CASE UNCHANGED regions /\ (pc' = "apply" => pc = "apply")
      BY <1>3 DEF SizeHolds
<1>4. CASE InitialSplit
      BY <1>4 DEF InitialSplit, SizeHolds, stateVars
<1>5. CASE Select
  <2>1. CASE \E reason, cost : Stop(reason, cost)
        BY <1>3, <2>1 DEF Stop, stateVars
  <2>2. CASE UNCHANGED regions /\ \E sp \in SelectedSplits(candidates) : RefinementLimit(sp) = "none"
        BY <1>1, <2>2 DEF RefinementLimit, SizeHolds
  <2>. QED BY <1>5, <2>1, <2>2 DEF Select, stateVars
<1>6. CASE Detach \/ Attach \/ BeginDistances \/ BeginRepair \/ Invalidate \/ Seed \/ Expand \/ FinishDistances
      BY <1>3, <1>6 DEF Detach, Attach, BeginDistances, BeginRepair, Invalidate, Seed, Expand, FinishDistances, stateVars
<1>7. CASE InitialSplitDone \/ Done \/ UNCHANGED vars
      BY <1>3, <1>7 DEF InitialSplitDone, Done, vars, stateVars
<1>8. \A reason, cost : Stop(reason, cost) => UNCHANGED regions /\ pc' # "apply"
      BY DEF Stop, stateVars
<1>9. \A C : (Offer(C) => UNCHANGED regions /\ pc' # "apply") /\ (Execute(C) => UNCHANGED <<regions, pc>>)
      BY DEF Offer, Execute, stateVars
<1>10. \A t : Trace(t) => UNCHANGED regions
      BY DEF Trace, stateVars
<1>11. CASE StartIteration
  <2>1. \/ \E reason : Stop(reason, 0)
        \/ UNCHANGED regions /\ pc' \in {"walk", "replay"}
        BY <1>11 DEF StartIteration, stateVars
  <2>. QED BY <1>3, <1>8, <2>1
<1>12. \A operators, cost : Conclude(operators, cost) => UNCHANGED regions /\ pc' # "apply"
      BY <1>8 DEF Conclude
<1>13. OfferFacts => UNCHANGED regions /\ pc' # "apply"
      BY <1>9 DEF OfferFacts
<1>14. CASE ReplayPlan
  <2>1. \/ OfferFacts \/ Conclude(replay.operators, replay.cost) \/ Offer(Deviations) \/ Execute({})
        BY <1>14 DEF ReplayPlan
  <2>. QED BY <1>3, <1>9, <1>12, <1>13, <2>1
<1>15. CASE ReplayWholePlan
  <2>1. \/ OfferFacts \/ Conclude(replay.operators, replay.cost) \/ Offer({})
        \/ \E choice \in FactChoices(Failed) : Execute(Chosen(choice) \cup Deviations)
        BY <1>15 DEF ReplayWholePlan
  <2>. QED BY <1>3, <1>9, <1>12, <1>13, <2>1
<1>16. CASE Walk \/ Regress
  <2>1. \/ \E sp \in Flaws : Offer({sp})
        \/ Conclude(PlanOperators, RunOf(PlanOperators).cost)
        \/ pc' \in {"walk", "regress"} /\ \E t : Trace(t)
        BY <1>16 DEF Walk, Regress
  <2>. QED BY <1>3, <1>9, <1>10, <1>12, <2>1
<1>. QED BY <1>2, <1>4, <1>5, <1>6, <1>7, <1>11, <1>14, <1>15, <1>16 DEF Next, Refine

\* What the search starts with.
AtStart ==
    /\ Searching
    /\ heap = {<<paths.distances[s], s>> : s \in Known(paths) \cap Open}
    /\ \A s \in DOMAIN paths.generating : paths.generating[s].target \notin Open

IsBegun ==
    /\ OpenTransitions \in SUBSET GD!Transition
    /\ OpenSeeds \in SUBSET GD!Entry
    /\ OpenDistances \in [GD!Seeded(OpenSeeds) -> Nat]
    /\ \A s \in GD!Seeded(OpenSeeds) :
           /\ <<OpenDistances[s], s>> \in OpenSeeds
           /\ \A e \in OpenSeeds : e[2] = s => OpenDistances[s] <= e[1] + Tolerance
    /\ OpenGenerating = NoDistance
    /\ heap = {<<OpenDistances[s], s>> : s \in GD!Seeded(OpenSeeds)}

LEMMA OpenGraph ==
    ASSUME RefinementInvariant, CostsAreResolved, ArePaths(paths), SizeHolds
    PROVE  /\ Open \subseteq AbstractStates /\ AbstractStates \subseteq 1..MaxStates
           /\ \A k \in LiveKeys : Cost(k.operator) \in Nat
           /\ \A s \in Known(paths) : paths.distances[s] \in Nat
           /\ OpenTransitions \subseteq GD!Transition /\ OpenSeeds \subseteq GD!Entry
<1>1. Open \subseteq AbstractStates
      BY DEF Open, ArePaths
<1>2. AbstractStates \subseteq 1..MaxStates
      BY RefinementFacts, AbstractionAssumption DEF SizeHolds
<1>3. \A k \in LiveKeys : Cost(k.operator) \in Nat /\ k.operator \in Operators
      BY RefinementFacts, CostFacts DEF LiveAreSteps, IsStep, TableInvariant, TableTypeOK, Keys, LiveKeys
<1>4. \A s \in Known(paths) : paths.distances[s] \in Nat
      BY DEF ArePaths, Resolved
<1>5. OpenTransitions \subseteq GD!Transition
  <2>1. ASSUME NEW k \in LiveKeys, k.source \in Open, k.target \in Open
        PROVE  AsTransition(k) \in GD!Transition
    <3>1. k.source \in 1..MaxStates /\ k.target \in 1..MaxStates /\ k.operator \in Operators
          /\ Cost(k.operator) \in Nat
          BY <1>1, <1>2, <1>3, <2>1
    <3>. QED BY <3>1 DEF AsTransition, GD!Transition
  <2>. QED BY <2>1 DEF OpenTransitions
<1>6. OpenSeeds \subseteq GD!Entry
  <2>1. ASSUME NEW s \in Open PROVE s \in 1..MaxStates
        BY <1>1, <1>2
  <2>2. ASSUME NEW k \in LiveKeys, k.target \in Known(paths) PROVE BoundaryCost(k) \in Nat
    <3>1. paths.distances[k.target] \in Nat /\ Cost(k.operator) \in Nat
          BY <1>3, <1>4, <2>2
    <3>. QED BY <3>1 DEF BoundaryCost
  <2>. QED BY <2>1, <2>2 DEF OpenSeeds, GD!Entry, Known
<1>. QED BY <1>1, <1>2, <1>3, <1>4, <1>5, <1>6

LEMMA SearchBegins ==
    ASSUME RefinementInvariant, CostsAreResolved, PathsInvariant, SizeHolds, AtStart
    PROVE  IsBegun
<1>. DEFINE p == paths
            known == Known(paths) \cap Open
<1>1. ArePaths(p) /\ AreRepairable(p, Open) /\ ExpandHolds(p, Open, heap)
      BY DEF PathsInvariant, AtStart, Searching, RepairHolds
<1>2. /\ Open \subseteq AbstractStates /\ AbstractStates \subseteq 1..MaxStates
      /\ \A k \in LiveKeys : Cost(k.operator) \in Nat
      /\ \A s \in Known(p) : p.distances[s] \in Nat
      /\ OpenTransitions \subseteq GD!Transition /\ OpenSeeds \subseteq GD!Entry
      BY <1>1, OpenGraph
<1>3. DOMAIN OpenDistances = known /\ \A s \in known : OpenDistances[s] = p.distances[s]
      BY DEF OpenDistances, Known
<1>4. ASSUME NEW e \in OpenSeeds
      PROVE  e[2] \in known /\ OpenDistances[e[2]] <= e[1]
  <2>1. CASE \E s \in p.goals \cap Open : e = <<0, s>>
        BY <1>1, <1>2, <1>3, <2>1 DEF AreRepairable, GoalsAreKnown
  <2>2. CASE \E k \in LiveKeys : /\ k.source \in Open /\ k.target \in Known(p) \ Open
                                 /\ e = <<BoundaryCost(k), k.source>>
    <3>1. PICK k \in LiveKeys : /\ k.source \in Open /\ k.target \in Known(p) \ Open
                                /\ e = <<BoundaryCost(k), k.source>>
          BY <2>2
    <3>2. k.source \in Known(p) /\ p.distances[k.source] <= BoundaryCost(k)
          BY <1>1, <3>1 DEF ExpandHolds, IsBounded, Drops, BoundaryCost
    <3>. QED BY <1>3, <3>1, <3>2
  <2>. QED BY <2>1, <2>2 DEF OpenSeeds, Known
<1>5. ASSUME NEW s \in known PROVE <<p.distances[s], s>> \in OpenSeeds
  <2>1. CASE s \in p.goals
        BY <1>1, <2>1 DEF OpenSeeds, AreRepairable, GoalsAreKnown
  <2>2. CASE s \notin p.goals
    <3>. DEFINE k == p.generating[s]
    <3>1. s \in DOMAIN p.generating /\ k \in LiveKeys
          BY <1>1, <2>2 DEF AreRepairable, AreLed
    <3>2. k.source = s /\ k.target \in Known(p) \ Open /\ p.distances[s] >= BoundaryCost(k)
          BY <1>1, <3>1 DEF AtStart, ArePaths, IsLeft, BoundaryCost
    <3>3. p.distances[s] <= BoundaryCost(k)
          BY <1>1, <3>1, <3>2 DEF ExpandHolds, IsBounded, Drops, BoundaryCost
    <3>4. p.distances[s] = BoundaryCost(k)
          BY <1>2, <3>1, <3>2, <3>3 DEF BoundaryCost
    <3>. QED BY <3>1, <3>2, <3>4 DEF OpenSeeds, Known
  <2>. QED BY <2>1, <2>2
<1>6. GD!Seeded(OpenSeeds) = known
  <2>1. \A s \in known : <<p.distances[s], s>>[2] = s
        OBVIOUS
  <2>. QED BY <1>4, <1>5, <2>1 DEF GD!Seeded
<1>7. \A e \in OpenSeeds : e[1] \in Nat
      BY <1>2 DEF GD!Entry
<1>8. OpenDistances \in [known -> Nat]
      BY <1>2 DEF OpenDistances, Known
<1>9. ASSUME NEW s \in known
      PROVE  /\ <<OpenDistances[s], s>> \in OpenSeeds
             /\ \A e \in OpenSeeds : e[2] = s => OpenDistances[s] <= e[1] + Tolerance
      BY <1>2, <1>3, <1>4, <1>5, <1>7, AbstractionAssumption
<1>10. OpenGenerating = NoDistance
  <2>1. {x \in DOMAIN p.generating \cap Open : p.generating[x].target \in Open} = {}
        BY DEF AtStart
  <2>. QED BY <2>1 DEF OpenGenerating, NoDistance
<1>11. heap = {<<OpenDistances[s], s>> : s \in known}
      BY <1>3 DEF AtStart
<1>. QED BY <1>2, <1>6, <1>8, <1>9, <1>10, <1>11 DEF IsBegun

LEMMA StartIsBegin ==
    ASSUME ~ Searching, Searching', IsBegun'
    PROVE  GD!Begin
    BY DEF IsBegun, GD!Begin, GD!Nothing, NoDistance, GD!Seeded, GD!Entry, GD!Transition,
           SearchPhase, SearchTransitions, SearchSeeds, SearchDistances, SearchGenerating, SearchHeap

LEMMA SearchStarts ==
    ASSUME RefinementInvariant, PathsInvariant, CostsAreResolved, [Next]_vars, ~ Searching, Searching'
    PROVE  AtStart'
<1>1. BeginDistances \/ Seed
  <2>1. ~ IsQuiet
        BY DEF IsQuiet, Searching, Settled
  <2>. QED BY <2>1, RepairCases DEF Searching, ApplySplit, Detach, Attach, IsRepair, BeginRepair,
                                    Invalidate, Expand, FinishDistances
<1>2. CASE BeginDistances
  <2>. DEFINE goals == {s \in AbstractStates : IsGoal(regions[s])}
  <2>1. /\ paths'.distances = [s \in goals |-> 0] /\ paths'.generating = Empty
        /\ heap' = {<<0, s>> : s \in goals} /\ UNCHANGED <<iteration, regions>> /\ pc = "compute"
        BY <1>2 DEF BeginDistances, stateVars
  <2>2. iteration = 0
        BY <2>1 DEF PathsInvariant, Settled
  <2>3. Open' = AbstractStates
        BY <2>1, <2>2 DEF Open, AbstractStates
  <2>4. Known(paths)' = goals
        BY <2>1 DEF Known
  <2>5. DOMAIN paths'.generating = {}
        BY <2>1 DEF Empty
  <2>. HIDE DEF goals
  <2>6. \A s \in goals : paths'.distances[s] = 0
        BY <2>1
  <2>7. goals \cap AbstractStates = goals
        BY DEF goals
  <2>. QED BY <2>1, <2>3, <2>4, <2>5, <2>6, <2>7 DEF AtStart
<1>3. CASE Seed
  <2>1. /\ UNCHANGED <<paths, heap, iteration, regions>> /\ pc = "seed"
        BY <1>3 DEF Seed, Searching, stateVars
  <2>2. SeedHolds(paths, Open, todo, heap)
        BY <2>1 DEF PathsInvariant
  <2>3. Open' = Open
        BY <2>1 DEF Open, AbstractStates
  <2>. QED BY <2>1, <2>2, <2>3 DEF AtStart, SeedHolds, Known
<1>. QED BY <1>1, <1>2, <1>3

LEMMA ExpandIsExpand ==
    ASSUME RefinementInvariant, CostsAreResolved, PathsInvariant, SizeHolds,
           Expand, UNCHANGED <<setup, cegarVars>>
    PROVE  GD!Expand
<1>. DEFINE p == paths
            e == Top
            t == Top[2]
            S == Improved(e)
<1>1. /\ ArePaths(p) /\ AreRepairable(p, Open) /\ ExpandHolds(p, Open, heap) /\ LinksHold(p)
      /\ pc = "expand" /\ pc' = "expand" /\ heap # {} /\ Searching /\ Searching'
      BY DEF PathsInvariant, Expand, Searching, RepairHolds
<1>2. /\ Open \subseteq AbstractStates /\ AbstractStates \subseteq 1..MaxStates
      /\ \A k \in LiveKeys : Cost(k.operator) \in Nat
      BY <1>1, OpenGraph
<1>3. /\ task \in Tasks /\ LiveAreSteps /\ Len(regions) \in Nat /\ pc # "detach"
      /\ TableInvariant /\ tableState = "stored" /\ TableStates = AbstractStates
      BY <1>1, RefinementFacts
<1>4. /\ e \in heap /\ t \in Known(p) \cap Open /\ p.distances[t] \in Nat /\ e[1] \in Nat
      /\ \A f \in heap : e[1] <= f[1]
      /\ ~ (e[1] > p.distances[t] + Tolerance) => e[1] = p.distances[t]
      BY <1>1, <1>3, TopIsKnown DEF ExpandHolds
<1>5. UNCHANGED abstraction /\ UNCHANGED iteration
      BY DEF Expand, abstraction
<1>6. /\ AbstractStates' = AbstractStates /\ LiveKeys' = LiveKeys
      /\ \A o : Cost(o)' = Cost(o)
      BY <1>5, SplitsStayWell DEF abstraction, setup, Cost
<1>7. /\ SearchPhase = "searching" /\ SearchTransitions = OpenTransitions /\ SearchSeeds = OpenSeeds
      /\ SearchDistances = OpenDistances /\ SearchGenerating = OpenGenerating /\ SearchHeap = heap
      BY <1>1 DEF SearchPhase, SearchTransitions, SearchSeeds, SearchDistances, SearchGenerating, SearchHeap
<1>8. /\ SearchPhase' = "searching" /\ SearchTransitions' = OpenTransitions' /\ SearchSeeds' = OpenSeeds'
      /\ SearchDistances' = OpenDistances' /\ SearchGenerating' = OpenGenerating' /\ SearchHeap' = heap'
      BY <1>1 DEF SearchPhase, SearchTransitions, SearchSeeds, SearchDistances, SearchGenerating, SearchHeap
<1>9. \A k : AsTransition(k)' = AsTransition(k)
      BY <1>6 DEF AsTransition
<1>10. IntoOpen(t) = {k \in LiveKeys : k.target = t /\ k.source \in Open}
       BY <1>2, <1>3, <1>4, ListsAreLive
<1>11. \A k : /\ AsTransition(k).source = k.source /\ AsTransition(k).target = k.target
              /\ AsTransition(k).cost = Cost(k.operator)
       BY DEF AsTransition
<1>12. GD!Into(t) = {AsTransition(k) : k \in IntoOpen(t)}
  <2>1. ASSUME NEW tr \in GD!Into(t) PROVE \E k \in IntoOpen(t) : tr = AsTransition(k)
    <3>1. tr.target = t /\ tr \in OpenTransitions
          BY <1>7, <2>1 DEF GD!Into
    <3>2. PICK k \in LiveKeys : k.source \in Open /\ k.target \in Open /\ tr = AsTransition(k)
          BY <3>1 DEF OpenTransitions
    <3>. QED BY <1>10, <1>11, <3>1, <3>2
  <2>2. ASSUME NEW k \in IntoOpen(t) PROVE AsTransition(k) \in GD!Into(t)
    <3>1. AsTransition(k) \in OpenTransitions
          BY <1>4, <1>10 DEF OpenTransitions
    <3>. QED BY <1>7, <1>10, <1>11, <3>1 DEF GD!Into
  <2>. QED BY <2>1, <2>2
<1>13. ASSUME NEW s \in Open, NEW d PROVE GD!Improves(d, s, SearchDistances) <=> Improves(d, s)
       BY <1>7 DEF GD!Improves, Improves, OpenDistances
<1>14. SearchDistances[t] = p.distances[t]
       BY <1>4, <1>7 DEF OpenDistances, Known
<1>15. GD!Outdated(e) <=> e[1] > p.distances[t] + Tolerance
       BY <1>14 DEF GD!Outdated
<1>16. e[2] = t
       OBVIOUS
<1>17. Open' = Open /\ paths'.goals = p.goals /\ SearchTransitions' = SearchTransitions /\ SearchSeeds' = SearchSeeds
       => \/ GD!Expand
          \/ ~ (\/ GD!Outdated(e) /\ SearchHeap' = SearchHeap \ {e} /\ UNCHANGED <<SearchDistances, SearchGenerating>>
                \/ ~ GD!Outdated(e) /\ \E via \in [GD!Improvable(e) -> GD!Into(t)] : GD!Relax(e, via))
       BY <1>4, <1>7, <1>8 DEF GD!Expand
<1>. SUFFICES
        /\ Open' = Open /\ paths'.goals = p.goals /\ SearchTransitions' = SearchTransitions /\ SearchSeeds' = SearchSeeds
        /\ \/ GD!Outdated(e) /\ SearchHeap' = SearchHeap \ {e} /\ UNCHANGED <<SearchDistances, SearchGenerating>>
           \/ ~ GD!Outdated(e) /\ \E via \in [GD!Improvable(e) -> GD!Into(t)] : GD!Relax(e, via)
     BY <1>17
<1>18. Open' = Open => SearchTransitions' = SearchTransitions
       BY <1>6, <1>7, <1>8, <1>9 DEF OpenTransitions
<1>19. CASE e[1] > p.distances[t] + Tolerance
  <2>1. UNCHANGED paths /\ heap' = heap \ {e}
        BY <1>19 DEF Expand
  <2>2. Open' = Open
        BY <1>5, <1>6, <2>1 DEF Open
  <2>3. SearchSeeds' = SearchSeeds
        BY <1>6, <1>7, <1>8, <2>1, <2>2 DEF OpenSeeds, BoundaryCost
  <2>4. SearchDistances' = SearchDistances
        BY <1>7, <1>8, <2>1, <2>2 DEF OpenDistances
  <2>5. SearchGenerating' = SearchGenerating
        BY <1>7, <1>8, <1>9, <2>1, <2>2 DEF OpenGenerating
  <2>. QED BY <1>7, <1>8, <1>15, <1>18, <1>19, <2>1, <2>2, <2>3, <2>4, <2>5
<1>20. CASE ~ (e[1] > p.distances[t] + Tolerance)
  <2>1. e[1] = p.distances[t]
        BY <1>4, <1>20
  <2>2. PICK via \in [S -> IntoOpen(t)] :
            /\ \A s \in S : via[s] \in Via(e, s)
            /\ paths' = Record(via, p.distances[t])
            /\ heap' = (heap \ {e}) \cup {<<p.distances[t] + Cost(via[s].operator), s>> : s \in S}
        BY <1>20, <2>1 DEF Expand
  <2>3. S \subseteq Open /\ S \subseteq AbstractStates /\ IsNearerVia(p, S, via, t)
        BY <1>1, <1>3, <1>4, <2>1, <2>2, ImprovedFacts
  <2>4. DOMAIN via = S
        BY <2>2
  <2>. HIDE DEF S, t, e
  <2>5. IsRelink(p, paths', S, via, t)
        BY <1>1, <1>3, <1>4, <2>2, <2>3, <2>4, RecordIsRelink
  <2>6. Open' = Open /\ paths'.goals = p.goals
        BY <1>5, <1>6, <2>5 DEF Open, IsRelink
  <2>7. GD!Improvable(e) = S
    <3>1. ASSUME NEW s
          PROVE  s \in S <=> \E k \in IntoOpen(t) : k.source = s /\ Improves(e[1] + Cost(k.operator), s)
          BY <1>16 DEF S, Improved
    <3>2. ASSUME NEW s
          PROVE  s \in GD!Improvable(e) <=>
                     /\ s \in 1..MaxStates
                     /\ \E k \in IntoOpen(t) :
                            k.source = s /\ GD!Improves(e[1] + Cost(k.operator), s, SearchDistances)
      <4>1. s \in GD!Improvable(e) <=>
                /\ s \in 1..MaxStates
                /\ \E tr \in GD!Into(t) : tr.source = s /\ GD!Improves(e[1] + tr.cost, s, SearchDistances)
            BY <1>16 DEF GD!Improvable
      <4>. QED BY <1>11, <1>12, <4>1
    <3>3. ASSUME NEW k \in IntoOpen(t)
          PROVE  k.source \in Open /\ k.source \in 1..MaxStates
          BY <1>2, <1>10
    <3>. QED BY <1>13, <3>1, <3>2, <3>3
  <2>. DEFINE viaT == [s \in S |-> AsTransition(via[s])]
  <2>8. viaT \in [GD!Improvable(e) -> GD!Into(t)]
        BY <1>12, <2>2, <2>7
  <2>9. ASSUME NEW s \in S PROVE GD!Best(e, s, viaT[s])
    <3>1. via[s] \in IntoOpen(t) /\ via[s].source = s
          BY <2>2, <2>3 DEF IsNearerVia
    <3>2. viaT[s] \in GD!Into(t) /\ viaT[s].source = s /\ viaT[s].cost = Cost(via[s].operator)
          BY <1>11, <1>12, <3>1
    <3>3. ASSUME NEW other \in GD!Into(t), other.source = s PROVE viaT[s].cost <= other.cost + Tolerance
      <4>1. PICK k \in IntoOpen(t) : other = AsTransition(k)
            BY <1>12, <3>3
      <4>2. k.source = s /\ other.cost = Cost(k.operator)
            BY <1>11, <3>3, <4>1
      <4>3. via[s] \in CheapestOf({j \in IntoOpen(t) : j.source = s})
            BY <1>16, <2>2 DEF Via
      <4>4. Cost(via[s].operator) <= Cost(k.operator) + Tolerance
            BY <4>2, <4>3 DEF CheapestOf
      <4>. QED BY <3>2, <4>2, <4>4
    <3>4. GD!Improves(e[1] + viaT[s].cost, s, SearchDistances)
      <4>1. PICK k \in IntoOpen(t) : k.source = s /\ Improves(e[1] + Cost(k.operator), s)
            BY <1>16 DEF S, Improved
      <4>2. CASE s \notin Known(p)
            BY <1>13, <2>3, <3>2, <4>2 DEF Improves, Known
      <4>3. CASE s \in Known(p)
        <5>1. via[s] \in LiveKeys /\ Cost(via[s].operator) \in Nat /\ p.distances[s] \in Nat
              /\ p.distances[t] + Cost(via[s].operator) < p.distances[s]
              /\ Resolved(Cost(via[s].operator)) /\ Resolved(p.distances[s]) /\ Resolved(p.distances[t])
              BY <1>1, <1>2, <1>3, <1>4, <2>3, <4>3, CostFacts
                 DEF IsNearerVia, ArePaths, Resolved, LiveAreSteps, IsStep
        <5>2. p.distances[t] + Cost(via[s].operator) + Tolerance < p.distances[s]
              BY <5>1, ResolvedSums
        <5>3. Improves(e[1] + Cost(via[s].operator), s)
              BY <2>1, <5>2 DEF Improves
        <5>. QED BY <1>13, <2>3, <3>2, <5>3
      <4>. QED BY <4>2, <4>3
    <3>. QED BY <3>2, <3>3, <3>4, <1>16 DEF GD!Best
  <2>10. SearchDistances' = [s \in DOMAIN SearchDistances \cup S |->
                                IF s \in S THEN e[1] + viaT[s].cost ELSE SearchDistances[s]]
    <3>1. DOMAIN paths'.distances \cap Open = (DOMAIN p.distances \cap Open) \cup S
          BY <2>3, <2>5 DEF IsRelink
    <3>2. ASSUME NEW s \in (DOMAIN p.distances \cap Open) \cup S
          PROVE  paths'.distances[s] = IF s \in S THEN e[1] + viaT[s].cost ELSE OpenDistances[s]
          BY <1>11, <2>1, <2>5 DEF IsRelink, OpenDistances
    <3>3. SearchDistances' = [s \in (DOMAIN p.distances \cap Open) \cup S |-> paths'.distances[s]]
          BY <1>8, <2>6, <3>1 DEF OpenDistances
    <3>4. DOMAIN SearchDistances = DOMAIN p.distances \cap Open
          BY <1>7 DEF OpenDistances
    <3>. HIDE DEF viaT
    <3>. QED BY <1>7, <3>2, <3>3, <3>4
  <2>11. SearchGenerating' = [s \in DOMAIN SearchGenerating \cup S |->
                                 IF s \in S THEN viaT[s] ELSE SearchGenerating[s]]
    <3>. DEFINE old == {x \in DOMAIN p.generating \cap Open : p.generating[x].target \in Open}
                new == {x \in DOMAIN paths'.generating \cap Open : paths'.generating[x].target \in Open}
    <3>1. new = old \cup S
      <4>1. \A x \in S : paths'.generating[x].target \in Open /\ x \in Open /\ x \in DOMAIN paths'.generating
            BY <1>4, <2>3, <2>5 DEF IsRelink, IsNearerVia
      <4>2. \A x : x \notin S => (x \in DOMAIN paths'.generating <=> x \in DOMAIN p.generating)
            BY <2>5 DEF IsRelink
      <4>3. \A x \in DOMAIN paths'.generating \ S : paths'.generating[x] = p.generating[x]
            BY <2>5 DEF IsRelink
      <4>. QED BY <4>1, <4>2, <4>3
    <3>2. ASSUME NEW s \in old \cup S
          PROVE  AsTransition(paths'.generating[s]) = IF s \in S THEN viaT[s] ELSE OpenGenerating[s]
      <4>1. CASE s \in S
            BY <2>5, <4>1 DEF IsRelink
      <4>2. CASE s \notin S
        <5>1. s \in old /\ paths'.generating[s] = p.generating[s]
              BY <2>5, <4>2 DEF IsRelink
        <5>. QED BY <4>2, <5>1 DEF OpenGenerating
      <4>. QED BY <4>1, <4>2
    <3>3. SearchGenerating' = [s \in new |-> AsTransition(paths'.generating[s])]
          BY <1>8, <1>9, <2>6 DEF OpenGenerating
    <3>4. DOMAIN SearchGenerating = old
          BY <1>7 DEF OpenGenerating
    <3>. HIDE DEF viaT, old, new
    <3>. QED BY <1>7, <3>1, <3>2, <3>3, <3>4
  <2>12. SearchHeap' = (SearchHeap \ {e}) \cup {<<e[1] + viaT[s].cost, s>> : s \in S}
    <3>1. \A s \in S : viaT[s].cost = Cost(via[s].operator)
          BY <1>11
    <3>. HIDE DEF viaT
    <3>. QED BY <1>7, <1>8, <2>1, <2>2, <3>1
  <2>13. SearchSeeds' = SearchSeeds
    <3>1. \A x : x \notin Open =>
              /\ x \in DOMAIN paths'.distances <=> x \in DOMAIN p.distances
              /\ x \in DOMAIN p.distances => paths'.distances[x] = p.distances[x]
          BY <2>3, <2>5 DEF IsRelink
    <3>2. \A k \in LiveKeys : k.target \in DOMAIN p.distances \ Open => BoundaryCost(k)' = BoundaryCost(k)
          BY <1>6, <3>1 DEF BoundaryCost
    <3>. QED BY <1>6, <1>7, <1>8, <2>6, <3>1, <3>2 DEF OpenSeeds
  <2>14. GD!Relax(e, viaT)
    <3>. HIDE DEF viaT
    <3>. QED BY <2>7, <2>9, <2>10, <2>11, <2>12 DEF GD!Relax
  <2>. HIDE DEF viaT
  <2>. QED BY <1>15, <1>18, <1>20, <2>6, <2>8, <2>13, <2>14 DEF t, e
<1>. QED BY <1>19, <1>20

LEMMA SearchStep ==
    ASSUME RefinementInvariant, CostsAreResolved, PathsInvariant, SizeHolds, [Next]_vars, AtStart' => IsBegun'
    PROVE  [GD!GDNext]_(GD!gdvars)
<1>1. CASE ~ Searching /\ ~ Searching'
      BY <1>1 DEF GD!gdvars, SearchPhase, SearchTransitions, SearchSeeds, SearchDistances, SearchGenerating,
                  SearchHeap, NoDistance
<1>2. CASE ~ Searching /\ Searching'
      BY <1>2, SearchStarts, StartIsBegin DEF GD!GDNext
<1>3. CASE Searching /\ ~ Searching'
      BY <1>3 DEF GD!GDNext, GD!Return, GD!Nothing, SearchPhase, SearchTransitions, SearchSeeds, SearchDistances,
                  SearchGenerating, SearchHeap, NoDistance
<1>4. CASE Searching /\ Searching'
  <2>1. (Expand /\ UNCHANGED <<setup, cegarVars>>) \/ UNCHANGED vars
    <3>1. CASE Next
          BY <1>4, <3>1 DEF Next, Searching, InitialSplit, InitialSplitDone, Refine, StartIteration, ReplayPlan,
                 ReplayWholePlan, Walk, Regress, Select, Done, ApplySplit, Detach, Attach, BeginDistances,
                 BeginRepair, Invalidate, Seed, FinishDistances
    <3>. QED BY <3>1
  <2>2. CASE UNCHANGED vars
    <3>1. UNCHANGED <<task, regions, iteration, ids, paths, heap, pc>>
          BY <2>2 DEF vars, setup, table, stateVars, pathVars
    <3>2. UNCHANGED <<Open, LiveKeys>> /\ \A o : Cost(o)' = Cost(o)
          BY <3>1 DEF Open, AbstractStates, LiveKeys, Cost
    <3>3. /\ \A k : AsTransition(k)' = AsTransition(k)
          /\ \A k : BoundaryCost(k)' = BoundaryCost(k)
          BY <3>1, <3>2 DEF AsTransition, BoundaryCost
    <3>4. UNCHANGED OpenTransitions
          BY <3>2, <3>3 DEF OpenTransitions
    <3>5. UNCHANGED OpenSeeds
          BY <3>1, <3>2, <3>3 DEF OpenSeeds
    <3>6. UNCHANGED OpenDistances
          BY <3>1, <3>2 DEF OpenDistances
    <3>7. UNCHANGED OpenGenerating
          BY <3>1, <3>2, <3>3 DEF OpenGenerating
    <3>. QED BY <1>4, <3>1, <3>4, <3>5, <3>6, <3>7
             DEF GD!gdvars, SearchPhase, SearchTransitions, SearchSeeds, SearchDistances, SearchGenerating, SearchHeap
  <2>. QED BY <2>1, <2>2, ExpandIsExpand DEF GD!GDNext
<1>. QED BY <1>1, <1>2, <1>3, <1>4

\* compute_shortest_paths_with_goals, update_shortest_paths_after_split: the first computation
\* of distances and each repair is a backward search in the graph of the states that have no
\* valid distance, which starts from the goals among them and the transitions that leave it.
THEOREM RepairImplementsGoalDistances ==
    ASSUME CostsAreResolved
    PROVE  Spec => ImplementsGoalDistances
<1>. DEFINE Inv == RefinementInvariant /\ TransitionsInvariant /\ PathsInvariant /\ SizeHolds
<1>1. Init => Inv
  <2>1. Init => SizeHolds
        BY AbstractionAssumption DEF Init, SizeHolds
  <2>. QED BY <2>1, InitRefinement, InitTransitions, InitPaths
<1>2. Inv /\ [Next]_vars => Inv'
      BY RefinementStep, TransitionsStep, PathsStep, SizeStep
<1>3. Init => GD!GDInit
      BY DEF Init, GD!GDInit, GD!Nothing, Searching, SearchPhase, SearchTransitions, SearchSeeds, SearchDistances,
             SearchGenerating, SearchHeap, NoDistance
<1>4. Inv => (AtStart => IsBegun)
      BY SearchBegins
<1>5. Inv /\ [Next]_vars /\ (AtStart' => IsBegun') => [GD!GDNext]_(GD!gdvars)
      BY SearchStep
<1>6. Inv /\ [Next]_vars => [GD!GDNext]_(GD!gdvars)
      BY <1>2, <1>4, <1>5, PTL
<1>. QED BY <1>1, <1>2, <1>3, <1>6, PTL DEF Spec, ImplementsGoalDistances, GD!GDSpec
=============================================================================
