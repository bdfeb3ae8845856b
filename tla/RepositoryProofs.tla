-------------------------- MODULE RepositoryProofs --------------------------
(***************************************************************************)
(* The properties of Repository for any number of threads, keys, contents  *)
(* and capacities. Whoever is inside an operation holds the mutex, so      *)
(* while it goes through its loop nobody else changes the map; the rest is *)
(* what each step does to the map. That the least key of the map is one of *)
(* its keys is proved by counting the keys below each (LeastIsLeast).      *)
(***************************************************************************)
EXTENDS Repository, FiniteSetTheorems, WellFoundedInduction, TLAPS

NatBefore == {e \in Nat \X Nat : e[1] < e[2]}

\* A set of natural numbers that is not empty has a least element.
LEMMA LeastNumber ==
  ASSUME NEW T, T \subseteq Nat, T # {}
  PROVE  \E x \in T : \A y \in T : x <= y
<1>1. OpToRel(<, Nat) = NatBefore
  BY Zenon DEF OpToRel, NatBefore
<1>2. IsWellFoundedOn(NatBefore, Nat)
  BY <1>1, NatLessThanWellFounded, Zenon
<1>3. \E x \in T : \A y \in T : <<y, x>> \notin NatBefore
  BY <1>2, WFMin
<1>4. \A x, y \in Nat : <<y, x>> \in NatBefore <=> y < x
  BY DEF NatBefore
<1>5. \A x, y \in T : <<y, x>> \notin NatBefore => x <= y
  BY <1>4
<1> QED
  BY <1>3, <1>5

-----------------------------------------------------------------------------
(* The order of the keys                                                   *)

\* Any set of keys is finite.
LEMMA KeysFinite == \A S \in SUBSET Keys : IsFiniteSet(S) /\ Cardinality(S) \in Nat
<1>1. IsFiniteSet(Keys)
  BY RepositoryAssumption, FS_Product DEF Keys
<1> QED
  BY <1>1, FS_Subset, FS_CardinalityType

\* Keys are strictly and totally ordered, by identity and then by generation.
LEMMA KeyOrder ==
  /\ \A k \in Keys : ~Less(k, k)
  /\ \A j, k \in Keys : j # k => Less(j, k) \/ Less(k, j)
  /\ \A i, j, k \in Keys : Less(i, j) /\ Less(j, k) => Less(i, k)
<1>1. \A k \in Keys : k[1] \in Int /\ k[2] \in Int /\ k = <<k[1], k[2]>>
  <2>1. \A k \in Ids \X Generations : k[1] \in Ids /\ k[2] \in Generations /\ k = <<k[1], k[2]>>
    OBVIOUS
  <2> QED
    BY <2>1, RepositoryAssumption DEF Keys
<1> QED
  BY <1>1 DEF Less

\* The least of a set of keys exists: the one with the fewest keys below it.
LEMMA LeastIsLeast ==
  ASSUME NEW S, S \subseteq Keys, S # {}
  PROVE  Least(S) \in S /\ \A k \in S \ {Least(S)} : Less(Least(S), k)
<1> DEFINE Lower(k) == {j \in S : Less(j, k)}
           Counts == {Cardinality(Lower(k)) : k \in S}
<1>1. \A k \in S : Lower(k) \in SUBSET Keys /\ IsFiniteSet(Lower(k)) /\ Cardinality(Lower(k)) \in Nat
  BY KeysFinite
<1>2. Counts \subseteq Nat /\ Counts # {}
  BY <1>1
<1>3. PICK k \in S : \A j \in S : Cardinality(Lower(k)) <= Cardinality(Lower(j))
  <2>1. PICK x \in Counts : \A y \in Counts : x <= y
    <3> HIDE DEF Counts
    <3> QED
      BY <1>2, LeastNumber
  <2> QED
    BY <2>1
<1>4. ASSUME NEW j \in S, Less(j, k) PROVE FALSE
  <2>1. Lower(j) \in SUBSET Lower(k)
    BY <1>4, KeyOrder
  <2>2. j \in Lower(k) /\ j \notin Lower(j)
    BY <1>4, KeyOrder
  <2>3. Lower(j) # Lower(k)
    BY <2>2
  <2>4. Cardinality(Lower(j)) <= Cardinality(Lower(k)) /\ Cardinality(Lower(j)) # Cardinality(Lower(k))
    <3> HIDE DEF Lower
    <3> QED
      BY <1>1, <2>1, <2>3, FS_Subset
  <2> HIDE DEF Lower
  <2> QED
    BY <1>1, <1>3, <2>4
<1>5. \A j \in S \ {k} : Less(k, j)
  BY <1>4, KeyOrder
<1> QED
  BY <1>5 DEF Least

\* What the record of a call carries depends on the operation called.
LEMMA CallShapes ==
  ASSUME NEW c \in Calls
  PROVE  /\ c.op \in {"publish", "find", "list", "retire"}
         /\ c.op = "publish" => c.key \in Keys /\ c.content \in Contents
         /\ c.op = "retire" => c.bound \in Generations
BY DEF Calls

-----------------------------------------------------------------------------
(* The inductive invariant                                                 *)

\* A thread that waits or works does so for a call, and works at the operation called.
CallInv ==
  /\ \A t \in Threads : pc[t] # "idle" => call[t] \in Calls
  /\ \A t \in Threads : pc[t] \in Inside => call[t].op = IF pc[t] = "evict" THEN "publish" ELSE pc[t]

\* Slots are freed only for a key that is not held.
EvictInv == \A t \in Threads : pc[t] = "evict" => call[t].key \notin DOMAIN slots

\* Entries are copied only inside list().
CopyInv ==
  /\ copied = [t \in Threads |-> copied[t]]
  /\ \A t \in Threads : pc[t] # "list" => copied[t] = Nothing

\* What the iterator of retire_below() has left behind is not below the bound.
RetireInv ==
  \A t \in Threads :
    /\ pc[t] # "retire" => passed[t] = {}
    /\ pc[t] = "retire" => \A k \in DOMAIN slots \ InFront(t) : ~(k[2] < call[t].bound)

\* There are never more entries than slots.
SizeInv == Cardinality(DOMAIN slots) <= SlotCount(capacity)

\* Every key held has been reported as published.
StoredInv == DOMAIN slots \subseteq stored

RepositoryInv ==
  TypeOK /\ CallInv /\ EvictInv /\ CopyInv /\ RetireInv /\ SizeInv /\ StoredInv
    /\ AcceptedIsHeld /\ ListIsSnapshot /\ GreatestAreHeld

\* Init establishes the invariant.
LEMMA InitRepositoryInv == Init => RepositoryInv
<1> SUFFICES ASSUME Init PROVE RepositoryInv
  OBVIOUS
<1> USE DEF Init, Nothing
<1>1. TypeOK
  BY RepositoryAssumption DEF TypeOK, Inside
<1>2. CallInv /\ EvictInv
  BY DEF CallInv, EvictInv, Inside
<1>3. CopyInv /\ ListIsSnapshot
  BY DEF CopyInv, ListIsSnapshot
<1>4. SizeInv
  BY RepositoryAssumption, FS_EmptySet DEF SizeInv, SlotCount
<1>5. AcceptedIsHeld
  BY DEF AcceptedIsHeld
<1>6. RetireInv
  BY DEF RetireInv
<1>7. StoredInv /\ GreatestAreHeld
  BY DEF StoredInv, GreatestAreHeld
<1> QED
  BY <1>1, <1>2, <1>3, <1>4, <1>5, <1>6, <1>7 DEF RepositoryInv

\* The thread inside an operation is alone in it.
LEMMA AloneInside ==
  ASSUME TypeOK, NEW t \in Threads, pc[t] \in Inside
  PROVE  mutex = t /\ \A u \in Threads \ {t} : pc[u] \in {"idle", "waiting"}
BY DEF TypeOK

\* What the iterator of retire_below() looks at next is held.
LEMMA LeastInFront ==
  ASSUME TypeOK, NEW t \in Threads, RetireNext(t)
  PROVE  /\ Least(InFront(t)) \in DOMAIN slots /\ Least(InFront(t)) \in Keys
         /\ \A k \in InFront(t) \ {Least(InFront(t))} : Less(Least(InFront(t)), k)
<1>1. InFront(t) \subseteq DOMAIN slots /\ InFront(t) \subseteq Keys /\ InFront(t) # {}
  BY DEF RetireNext, InFront, Beyond, TypeOK
<1> QED
  BY <1>1, LeastIsLeast

\* Every step keeps the types, and only a thread with the mutex is inside an operation.
LEMMA NextTypes ==
  ASSUME RepositoryInv, [Next]_vars PROVE TypeOK'
<1> USE DEF RepositoryInv, TypeOK, counters, history
<1>1. ASSUME NEW t \in Threads, Begin(t) PROVE TypeOK'
  BY <1>1, RepositoryAssumption DEF Begin, Inside
<1>2. ASSUME NEW t \in Threads, Acquire(t) PROVE TypeOK'
  <2>1. call[t].op \in Inside
    BY <1>2, CallShapes DEF Acquire, CallInv, Inside
  <2>2. pc' \in [Threads -> {"idle", "waiting"} \cup Inside] /\ mutex' = t
    BY <1>2, <2>1 DEF Acquire
  <2>3. \A u \in Threads : (pc'[u] \in Inside) <=> (mutex' = u)
    BY <1>2, <2>1, RepositoryAssumption DEF Acquire
  <2> QED
    BY <1>2, <2>2, <2>3 DEF Acquire
<1>3. ASSUME NEW t \in Threads, NEW answer, Return(t, answer), pc[t] \in Inside
      PROVE  /\ mutex' \in Threads \cup {Nobody} /\ pc' \in [Threads -> {"idle", "waiting"} \cup Inside]
             /\ call' \in [Threads -> Calls \cup {None}]
             /\ \A u \in Threads : (pc'[u] \in Inside) <=> (mutex' = u)
             /\ \A u \in Threads : DOMAIN copied'[u] \subseteq Keys
             /\ passed' \in [Threads -> SUBSET Keys]
  BY <1>3, RepositoryAssumption DEF Return, Inside, CopyInv, Nothing
<1>4. ASSUME NEW t \in Threads, pc[t] \in {"publish", "evict"}
      PROVE  call[t].key \in Keys /\ call[t].content \in Contents
  BY <1>4, CallShapes DEF CallInv, Inside
<1>5. ASSUME NEW t \in Threads, Republish(t) PROVE TypeOK'
  <2>1. PICK answer : Return(t, answer)
    BY <1>5 DEF Republish
  <2>2. accepted' \in [Keys -> SUBSET Contents] /\ stored' \subseteq Keys /\ retired' \subseteq Keys
    BY <1>4, <1>5 DEF Republish, Accept
  <2>3. rejections' \in Nat
    BY <1>5 DEF Republish
  <2> QED
    BY <1>3, <1>5, <2>1, <2>2, <2>3 DEF Republish, Inside
<1>6. ASSUME NEW t \in Threads, FindAbsent(t) PROVE TypeOK'
  BY <1>6 DEF FindAbsent, Inside
<1>7. ASSUME NEW t \in Threads, Evict(t) PROVE TypeOK'
  <2>1. evictions' \in Nat
    BY <1>7 DEF Evict
  <2>3. accepted' \in [Keys -> SUBSET Contents]
    BY <1>7 DEF Evict, DropSlot
  <2>2. DOMAIN slots' \subseteq Keys /\ \A k \in DOMAIN slots' : slots'[k] \in Contents
    BY <1>7 DEF Evict, DropSlot
  <2> QED
    BY <1>7, <2>1, <2>2, <2>3 DEF Evict
<1>8. ASSUME NEW t \in Threads, Emplace(t) PROVE TypeOK'
  <2>1. accepted' \in [Keys -> SUBSET Contents] /\ stored' \subseteq Keys /\ retired' \subseteq Keys
    BY <1>4, <1>8 DEF Emplace, Accept
  <2>2. DOMAIN slots' \subseteq Keys /\ \A k \in DOMAIN slots' : slots'[k] \in Contents
    BY <1>4, <1>8 DEF Emplace
  <2> QED
    BY <1>3, <1>8, <2>1, <2>2 DEF Emplace, Inside
<1>9. ASSUME NEW t \in Threads, Find(t) PROVE TypeOK'
  BY <1>3, <1>9 DEF Find, Inside
<1>10. ASSUME NEW t \in Threads, CopyNext(t) PROVE TypeOK'
  <2>1. Least(Uncopied(t)) \in Keys
    BY <1>10, LeastIsLeast DEF CopyNext, Uncopied, Beyond
  <2>2. \A u \in Threads : DOMAIN copied'[u] \subseteq Keys
    BY <1>10, <2>1 DEF CopyNext, CopyInv
  <2> QED
    BY <1>10, <2>2 DEF CopyNext
<1>11. ASSUME NEW t \in Threads, ListDone(t) PROVE TypeOK'
  BY <1>3, <1>11 DEF ListDone, Inside
<1>12. ASSUME NEW t \in Threads, RetireNext(t) PROVE TypeOK'
  <2> DEFINE k == Least(InFront(t))
  <2>1. k \in Keys
    BY <1>12, LeastInFront
  <2>2. DOMAIN slots' \subseteq Keys /\ \A j \in DOMAIN slots' : slots'[j] \in Contents
    BY <1>12 DEF RetireNext, DropSlot
  <2>3. accepted' \in [Keys -> SUBSET Contents]
    BY <1>12 DEF RetireNext, DropSlot
  <2>4. passed' \in [Threads -> SUBSET Keys]
    BY <1>12, <2>1 DEF RetireNext
  <2>5. retired' \subseteq Keys /\ stored' \subseteq Keys
    BY <1>12, <2>1 DEF RetireNext
  <2>6. UNCHANGED <<capacity, counters, mutex, pc, call, result, copied, calls>>
    BY <1>12 DEF RetireNext
  <2> QED
    BY <2>2, <2>3, <2>4, <2>5, <2>6
<1>13. ASSUME NEW t \in Threads, RetireDone(t) PROVE TypeOK'
  BY <1>3, <1>13 DEF RetireDone, Inside
<1>14. CASE UNCHANGED vars
  BY <1>14 DEF vars
<1> QED
  BY <1>1, <1>2, <1>5, <1>6, <1>7, <1>8, <1>9, <1>10, <1>11, <1>12, <1>13, <1>14 DEF Next, Locked

\* Returning ends the work of one thread and leaves the others at theirs.
LEMMA ReturnKeepsCalls ==
  ASSUME RepositoryInv, NEW t \in Threads, pc[t] \in Inside, NEW answer, Return(t, answer)
  PROVE  CallInv' /\ EvictInv' /\ CopyInv'
<1>1. pc'[t] = "idle" /\ \A u \in Threads \ {t} : pc'[u] = pc[u] /\ pc[u] \in {"idle", "waiting"}
  BY AloneInside DEF RepositoryInv, TypeOK, Return
<1>2. CallInv'
  BY <1>1 DEF RepositoryInv, TypeOK, CallInv, Return, Inside
<1>3. EvictInv'
  BY <1>1 DEF EvictInv
<1>4. CopyInv'
  BY <1>1 DEF RepositoryInv, CopyInv, Return
<1> QED
  BY <1>2, <1>3, <1>4

\* Every step keeps threads at the operations they were called for.
LEMMA NextCalls ==
  ASSUME RepositoryInv, [Next]_vars PROVE CallInv' /\ EvictInv' /\ CopyInv'
<1> USE DEF RepositoryInv, TypeOK
<1>1. ASSUME NEW t \in Threads, Begin(t) PROVE CallInv' /\ EvictInv' /\ CopyInv'
  <2>1. CallInv'
    BY <1>1 DEF Begin, CallInv, Inside
  <2>2. EvictInv' /\ CopyInv'
    BY <1>1 DEF Begin, EvictInv, CopyInv
  <2> QED
    BY <2>1, <2>2
<1>2. ASSUME NEW t \in Threads, Acquire(t) PROVE CallInv' /\ EvictInv' /\ CopyInv'
  <2>1. call[t] \in Calls /\ call[t].op \in {"publish", "find", "list", "retire"}
    BY <1>2, CallShapes DEF Acquire, CallInv
  <2>2. CallInv'
    BY <1>2, <2>1 DEF Acquire, CallInv
  <2>3. EvictInv' /\ CopyInv'
    BY <1>2, <2>1 DEF Acquire, EvictInv, CopyInv
  <2> QED
    BY <2>2, <2>3
<1>3. ASSUME NEW t \in Threads, FindAbsent(t) PROVE CallInv' /\ EvictInv' /\ CopyInv'
  <2>1. CallInv'
    BY <1>3 DEF FindAbsent, CallInv, Inside
  <2>2. EvictInv'
    BY <1>3 DEF FindAbsent, EvictInv
  <2>3. CopyInv'
    BY <1>3 DEF FindAbsent, CopyInv
  <2> QED
    BY <2>1, <2>2, <2>3
<1>4. ASSUME NEW t \in Threads, Evict(t) \/ RetireNext(t) PROVE CallInv' /\ EvictInv' /\ CopyInv'
  <2>1. UNCHANGED <<pc, call, copied>> /\ DOMAIN slots' \subseteq DOMAIN slots
    BY <1>4 DEF Evict, RetireNext, DropSlot, counters
  <2> QED
    BY <2>1 DEF CallInv, EvictInv, CopyInv
<1>5. ASSUME NEW t \in Threads, CopyNext(t) PROVE CallInv' /\ EvictInv' /\ CopyInv'
  <2>1. CallInv' /\ EvictInv'
    BY <1>5 DEF CopyNext, CallInv, EvictInv
  <2>2. CopyInv'
    BY <1>5 DEF CopyNext, CopyInv
  <2> QED
    BY <2>1, <2>2
<1>6. ASSUME NEW t \in Threads, Republish(t) \/ Emplace(t) \/ Find(t) \/ ListDone(t) \/ RetireDone(t)
      PROVE  CallInv' /\ EvictInv' /\ CopyInv'
  <2>1. pc[t] \in Inside /\ \E answer : Return(t, answer)
    BY <1>6 DEF Republish, Emplace, Find, ListDone, RetireDone, Inside
  <2> QED
    BY <2>1, ReturnKeepsCalls
<1>7. CASE UNCHANGED vars
  BY <1>7 DEF vars, CallInv, EvictInv, CopyInv
<1> QED
  BY <1>1, <1>2, <1>3, <1>4, <1>5, <1>6, <1>7 DEF Next, Locked

-----------------------------------------------------------------------------
(* What the steps do to the map                                            *)

\* Dropping a key of the map takes that key out and forgets what was accepted for it.
LEMMA DropKeeps ==
  ASSUME RepositoryInv, NEW k \in DOMAIN slots, DropSlot(k), UNCHANGED <<capacity, stored>>
  PROVE  SizeInv' /\ StoredInv' /\ AcceptedIsHeld'
<1>1. /\ DOMAIN slots' = DOMAIN slots \ {k} /\ \A j \in DOMAIN slots' : slots'[j] = slots[j]
      /\ accepted' = [accepted EXCEPT ![k] = {}] /\ k \in Keys
  BY DEF DropSlot, RepositoryInv, TypeOK
<1>2. DOMAIN slots \in SUBSET Keys
  BY DEF RepositoryInv, TypeOK
<1>3. IsFiniteSet(DOMAIN slots) /\ Cardinality(DOMAIN slots) \in Nat
  BY <1>2, KeysFinite
<1>4. Cardinality(DOMAIN slots') \in Nat /\ Cardinality(DOMAIN slots') <= Cardinality(DOMAIN slots)
  <2>1. DOMAIN slots' \in SUBSET DOMAIN slots
    BY <1>1
  <2> QED
    BY <1>3, <2>1, FS_Subset, FS_CardinalityType
<1>5. SlotCount(capacity) \in Nat
  BY RepositoryAssumption DEF RepositoryInv, TypeOK, SlotCount
<1>6. SizeInv'
  BY <1>3, <1>4, <1>5 DEF RepositoryInv, SizeInv, SlotCount
<1>7. AcceptedIsHeld'
  BY <1>1 DEF RepositoryInv, TypeOK, AcceptedIsHeld
<1>8. StoredInv'
  BY <1>1 DEF RepositoryInv, StoredInv
<1> QED
  BY <1>6, <1>7, <1>8

\* A map with no slot free has an entry to evict, whatever the capacity asked for.
LEMMA FullIsNotEmpty ==
  ASSUME RepositoryInv, Full PROVE DOMAIN slots # {}
<1>1. Cardinality(DOMAIN slots) >= SlotCount(capacity)
  BY DEF Full
<1>2. SlotCount(capacity) >= 1 /\ SlotCount(capacity) \in Nat
  BY RepositoryAssumption DEF RepositoryInv, TypeOK, SlotCount
<1>3. Cardinality(DOMAIN slots) # 0
  BY <1>1, <1>2
<1> QED
  BY <1>3, FS_EmptySet

\* Every step keeps the map within its slots, and the accepted content of a key the one held.
LEMMA NextSlots ==
  ASSUME RepositoryInv, [Next]_vars PROVE SizeInv' /\ StoredInv' /\ AcceptedIsHeld'
<1> USE DEF RepositoryInv, counters, history
<1>1. ASSUME UNCHANGED <<capacity, slots, accepted>>, stored \subseteq stored'
      PROVE  SizeInv' /\ StoredInv' /\ AcceptedIsHeld'
  BY <1>1 DEF SizeInv, StoredInv, AcceptedIsHeld, SlotCount
<1>2. ASSUME NEW t \in Threads, pc[t] \in {"publish", "evict"}
      PROVE  call[t].key \in Keys /\ call[t].content \in Contents
  BY <1>2, CallShapes DEF CallInv, Inside
<1>3. ASSUME NEW t \in Threads, Republish(t) PROVE SizeInv' /\ StoredInv' /\ AcceptedIsHeld'
  <2>1. CASE slots[call[t].key] = call[t].content
    <3>1. accepted' = accepted
      <4>1. accepted' = [accepted EXCEPT ![call[t].key] = @ \cup {call[t].content}]
        BY <1>3, <2>1 DEF Republish, Accept
      <4>2. accepted[call[t].key] = {call[t].content}
        BY <1>2, <1>3, <2>1 DEF Republish, AcceptedIsHeld
      <4>3. accepted[call[t].key] \cup {call[t].content} = accepted[call[t].key]
        BY <4>2
      <4> QED
        BY <4>1, <4>3 DEF TypeOK
    <3> QED
      BY <1>1, <1>3, <2>1, <3>1 DEF Republish, Accept
  <2>2. CASE slots[call[t].key] # call[t].content
    BY <1>1, <1>3, <2>2 DEF Republish
  <2> QED
    BY <2>1, <2>2
<1>4. ASSUME NEW t \in Threads, Evict(t) PROVE SizeInv' /\ StoredInv' /\ AcceptedIsHeld'
  <2>1. DOMAIN slots # {} /\ DOMAIN slots \subseteq Keys
    BY <1>4, FullIsNotEmpty DEF Evict, TypeOK
  <2>2. Least(DOMAIN slots) \in DOMAIN slots
    BY <2>1, LeastIsLeast
  <2> QED
    BY <1>4, <2>2, DropKeeps DEF Evict
<1>5. ASSUME NEW t \in Threads, RetireNext(t) PROVE SizeInv' /\ StoredInv' /\ AcceptedIsHeld'
  <2> DEFINE k == Least(InFront(t))
  <2>1. k \in DOMAIN slots
    BY <1>5, LeastInFront
  <2>2. CASE k[2] < call[t].bound
    <3>1. DropSlot(k) /\ UNCHANGED <<capacity, stored>>
      BY <1>5, <2>2 DEF RetireNext
    <3> QED
      BY <2>1, <3>1, DropKeeps
  <2>3. CASE ~(k[2] < call[t].bound)
    BY <1>1, <1>5, <2>3 DEF RetireNext
  <2> QED
    BY <2>2, <2>3
<1>6. ASSUME NEW t \in Threads, Emplace(t) PROVE SizeInv' /\ StoredInv' /\ AcceptedIsHeld'
  <2> DEFINE key == call[t].key
  <2>1. key \in Keys /\ key \notin DOMAIN slots
    BY <1>2, <1>6 DEF Emplace, EvictInv
  <2>2. /\ DOMAIN slots' = DOMAIN slots \cup {key}
        /\ \A k \in DOMAIN slots' : slots'[k] = IF k = key THEN call[t].content ELSE slots[k]
    BY <1>6, <2>1 DEF Emplace
  <2>3. accepted' = [accepted EXCEPT ![key] = @ \cup {call[t].content}]
    BY <1>6 DEF Emplace, Accept
  <2>4. DOMAIN slots \in SUBSET Keys
    BY DEF TypeOK
  <2>5. SlotCount(capacity) \in Nat /\ UNCHANGED capacity
    BY <1>6, RepositoryAssumption DEF TypeOK, SlotCount, Emplace
  <2>6. SizeInv'
    <3>1. IsFiniteSet(DOMAIN slots) /\ Cardinality(DOMAIN slots) \in Nat
      BY <2>4, KeysFinite
    <3>2. Cardinality(DOMAIN slots') = Cardinality(DOMAIN slots) + 1
      BY <2>1, <2>2, <3>1, FS_AddElement
    <3>3. ~(Cardinality(DOMAIN slots) >= SlotCount(capacity))
      BY <1>6 DEF Emplace, Full
    <3>4. SlotCount(capacity)' = SlotCount(capacity)
      BY <2>5 DEF SlotCount
    <3> QED
      BY <2>5, <3>1, <3>2, <3>3, <3>4 DEF SizeInv
  <2>7. AcceptedIsHeld'
    BY <2>1, <2>2, <2>3 DEF AcceptedIsHeld, TypeOK
  <2>8. StoredInv'
    BY <1>6, <2>2 DEF StoredInv, Emplace, Accept
  <2> QED
    BY <2>6, <2>7, <2>8
<1>7. ASSUME NEW t \in Threads,
             Begin(t) \/ Acquire(t) \/ FindAbsent(t) \/ Find(t) \/ CopyNext(t) \/ ListDone(t) \/ RetireDone(t)
      PROVE  SizeInv' /\ StoredInv' /\ AcceptedIsHeld'
  BY <1>1, <1>7 DEF Begin, Acquire, FindAbsent, Find, CopyNext, ListDone, RetireDone
<1>8. CASE UNCHANGED vars
  BY <1>1, <1>8 DEF vars
<1> QED
  BY <1>3, <1>4, <1>5, <1>6, <1>7, <1>8 DEF Next, Locked

\* Every step keeps what the iterator of retire_below() has left behind free of what is to be
\* retired: only the thread that retires is inside, so nothing is published behind it.
LEMMA NextRetirement ==
  ASSUME RepositoryInv, [Next]_vars PROVE RetireInv'
<1> USE DEF RepositoryInv, TypeOK, counters, history
<1>1. ASSUME NEW t \in Threads, RetireNext(t) PROVE RetireInv'
  <2> DEFINE n == Least(InFront(t))
             bound == call[t].bound
  <2>1. pc[t] = "retire" /\ UNCHANGED <<pc, call>>
    BY <1>1 DEF RetireNext
  <2>2. n \in Keys /\ \A k \in InFront(t) \ {n} : Less(n, k)
    BY <1>1, LeastInFront
  <2>3. passed' = [passed EXCEPT ![t] = @ \cup {n}]
    BY <1>1 DEF RetireNext
  <2>4. DOMAIN slots' \subseteq DOMAIN slots /\ (n[2] < bound => n \notin DOMAIN slots')
    BY <1>1 DEF RetireNext, DropSlot
  <2>5. ASSUME NEW k \in DOMAIN slots' \ InFront(t)' PROVE ~(k[2] < bound)
    <3>1. k \in DOMAIN slots /\ k \in Keys
      BY <2>4
    <3>2. \E j \in passed[t] \cup {n} : ~Less(j, k)
      BY <2>3, <2>5 DEF InFront, Beyond
    <3>3. CASE k \notin InFront(t)
      BY <2>1, <3>1, <3>3 DEF RetireInv
    <3>4. CASE k = n
      BY <2>4, <2>5, <3>4
    <3>5. CASE k \in InFront(t) \ {n}
      <4>1. \A j \in passed[t] \cup {n} : Less(j, k)
        BY <2>2, <3>5 DEF InFront, Beyond
      <4> QED
        BY <3>2, <4>1
    <3> QED
      BY <3>3, <3>4, <3>5
  <2>6. ASSUME NEW u \in Threads \ {t} PROVE pc'[u] # "retire" /\ passed'[u] = {}
    BY <2>1, <2>3, AloneInside DEF RetireInv, Inside
  <2> HIDE DEF n
  <2> QED
    BY <2>1, <2>5, <2>6 DEF RetireInv
<1>2. ASSUME NEW t \in Threads, Acquire(t) PROVE RetireInv'
  <2>1. \A u \in Threads : pc[u] # "retire" /\ passed[u] = {}
    BY <1>2, RepositoryAssumption DEF Acquire, RetireInv, Inside
  <2>2. \A u \in Threads : passed'[u] = {} /\ UNCHANGED slots
    BY <1>2, <2>1 DEF Acquire
  <2>3. \A u \in Threads : InFront(u)' = DOMAIN slots'
    BY <2>2 DEF InFront, Beyond
  <2> QED
    BY <2>2, <2>3 DEF RetireInv
<1>3. ASSUME NEW t \in Threads, Begin(t) PROVE RetireInv'
  <2>1. UNCHANGED <<slots, passed>> /\ \A u \in Threads : pc'[u] = "retire" => pc[u] = "retire" /\ call'[u] = call[u]
    BY <1>3 DEF Begin
  <2>2. \A u \in Threads : pc[u] = "retire" => pc'[u] = "retire"
    BY <1>3 DEF Begin
  <2> QED
    BY <2>1, <2>2 DEF RetireInv, InFront, Beyond
<1>4. ASSUME NEW t \in Threads, Evict(t) \/ FindAbsent(t) \/ CopyNext(t) PROVE RetireInv'
  <2>1. pc[t] \in Inside \ {"retire"} /\ pc'[t] # "retire" /\ UNCHANGED passed
    BY <1>4 DEF Evict, FindAbsent, CopyNext, Inside
  <2>2. \A u \in Threads \ {t} : pc'[u] = pc[u]
    BY <1>4 DEF Evict, FindAbsent, CopyNext
  <2>3. \A u \in Threads : pc'[u] # "retire" /\ passed'[u] = {}
    BY <2>1, <2>2, AloneInside DEF RetireInv
  <2> QED
    BY <2>3 DEF RetireInv
<1>5. ASSUME NEW t \in Threads, Republish(t) \/ Emplace(t) \/ Find(t) \/ ListDone(t) \/ RetireDone(t)
      PROVE  RetireInv'
  <2>1. pc[t] \in Inside /\ pc' = [pc EXCEPT ![t] = "idle"] /\ passed' = [passed EXCEPT ![t] = {}]
    BY <1>5 DEF Republish, Emplace, Find, ListDone, RetireDone, Inside, Return
  <2>2. \A u \in Threads : pc'[u] # "retire" /\ passed'[u] = {}
    BY <2>1, AloneInside DEF RetireInv
  <2> QED
    BY <2>2 DEF RetireInv
<1>6. CASE UNCHANGED vars
  BY <1>6 DEF vars, RetireInv, InFront, Beyond
<1> QED
  BY <1>1, <1>2, <1>3, <1>4, <1>5, <1>6 DEF Next, Locked

\* Every step keeps the greatest keys ever published: an eviction leaves all the slots but
\* one filled with greater keys, and what is once outranked stays outranked.
LEMMA NextGreatest ==
  ASSUME RepositoryInv, [Next]_vars PROVE GreatestAreHeld'
<1> USE DEF RepositoryInv, TypeOK, counters, history
<1>1. SlotCount(capacity) \in Nat
  BY RepositoryAssumption DEF SlotCount
<1>2. UNCHANGED capacity /\ SlotCount(capacity)' = SlotCount(capacity)
  BY DEF Next, Locked, vars, Begin, Acquire, Republish, FindAbsent, Evict, Emplace,
         Find, CopyNext, ListDone, RetireNext, RetireDone, SlotCount
<1>3. TypeOK'
  BY NextTypes
<1>4. ASSUME NEW k \in Keys, stored \subseteq stored', Cardinality(Outranked(k)) >= SlotCount(capacity) - 1
      PROVE  Cardinality(Outranked(k)') >= SlotCount(capacity)' - 1
  <2>1. Outranked(k) \in SUBSET Outranked(k)' /\ Outranked(k)' \in SUBSET Keys
    BY <1>3, <1>4 DEF Outranked
  <2>2. Cardinality(Outranked(k)) <= Cardinality(Outranked(k)') /\ Cardinality(Outranked(k)) \in Nat
        /\ Cardinality(Outranked(k)') \in Nat
    BY <2>1, KeysFinite, FS_Subset
  <2> HIDE DEF Outranked
  <2> QED
    BY <1>1, <1>2, <1>4, <2>2
<1>5. ASSUME stored' \ (retired' \cup DOMAIN slots') \subseteq stored \ (retired \cup DOMAIN slots),
             stored \subseteq stored'
      PROVE  GreatestAreHeld'
  BY <1>4, <1>5 DEF GreatestAreHeld
<1>6. ASSUME NEW t \in Threads, Evict(t) PROVE GreatestAreHeld'
  <2> DEFINE least == Least(DOMAIN slots)
  <2>1. DOMAIN slots # {} /\ DOMAIN slots \in SUBSET Keys
    BY <1>6, FullIsNotEmpty DEF Evict
  <2>2. least \in DOMAIN slots /\ least \in Keys /\ \A k \in DOMAIN slots \ {least} : Less(least, k)
    BY <2>1, LeastIsLeast
  <2>3. Cardinality(Outranked(least)) >= SlotCount(capacity) - 1
    <3>1. IsFiniteSet(DOMAIN slots) /\ Cardinality(DOMAIN slots) \in Nat
      BY <2>1, KeysFinite
    <3>2. Cardinality(DOMAIN slots \ {least}) = Cardinality(DOMAIN slots) - 1
      <4> HIDE DEF least
      <4> QED
        BY <2>2, <3>1, FS_RemoveElement
    <3>3. DOMAIN slots \ {least} \in SUBSET Outranked(least) /\ Outranked(least) \in SUBSET Keys
      BY <2>2 DEF StoredInv, Outranked
    <3>4. Cardinality(DOMAIN slots \ {least}) <= Cardinality(Outranked(least))
          /\ Cardinality(Outranked(least)) \in Nat
      BY <3>3, KeysFinite, FS_Subset
    <3>5. Cardinality(DOMAIN slots) >= SlotCount(capacity)
      BY <1>6 DEF Evict, Full
    <3> HIDE DEF least
    <3> QED
      BY <1>1, <3>1, <3>2, <3>4, <3>5
  <2>4. DOMAIN slots' = DOMAIN slots \ {least} /\ UNCHANGED <<stored, retired>>
    BY <1>6 DEF Evict, DropSlot
  <2>5. ASSUME NEW k \in stored' \ (retired' \cup DOMAIN slots')
        PROVE  Cardinality(Outranked(k)') >= SlotCount(capacity)' - 1
    <3>1. k \in stored \ (retired \cup DOMAIN slots) \/ k = least
      BY <2>4, <2>5
    <3> HIDE DEF least
    <3>2. Cardinality(Outranked(k)) >= SlotCount(capacity) - 1
      BY <2>3, <3>1 DEF GreatestAreHeld
    <3>3. k \in Keys
      BY <1>3, <2>5
    <3> QED
      BY <1>4, <2>4, <3>2, <3>3
  <2> QED
    BY <2>5 DEF GreatestAreHeld
<1>7. ASSUME NEW t \in Threads, RetireNext(t) PROVE GreatestAreHeld'
  <2>1. stored' = stored /\ retired \subseteq retired'
        /\ DOMAIN slots \subseteq DOMAIN slots' \cup retired'
    BY <1>7 DEF RetireNext, DropSlot
  <2> QED
    BY <1>5, <2>1
<1>8. ASSUME NEW t \in Threads, Emplace(t) PROVE GreatestAreHeld'
  <2>1. call[t].key \in DOMAIN slots' /\ DOMAIN slots \subseteq DOMAIN slots'
        /\ stored' = stored \cup {call[t].key} /\ retired' = retired \ {call[t].key}
    BY <1>8 DEF Emplace, Accept
  <2> QED
    BY <1>5, <2>1
<1>9. ASSUME NEW t \in Threads, Republish(t) PROVE GreatestAreHeld'
  <2>1. call[t].key \in DOMAIN slots /\ slots' = slots
        /\ \/ stored' = stored \cup {call[t].key} /\ retired' = retired \ {call[t].key}
           \/ UNCHANGED <<stored, retired>>
    BY <1>9 DEF Republish, Accept
  <2> QED
    BY <1>5, <2>1
<1>10. ASSUME UNCHANGED <<slots, stored, retired>> PROVE GreatestAreHeld'
  BY <1>5, <1>10
<1>11. ASSUME NEW t \in Threads,
              Begin(t) \/ Acquire(t) \/ FindAbsent(t) \/ Find(t) \/ CopyNext(t) \/ ListDone(t) \/ RetireDone(t)
       PROVE  GreatestAreHeld'
  BY <1>10, <1>11 DEF Begin, Acquire, FindAbsent, Find, CopyNext, ListDone, RetireDone
<1>12. CASE UNCHANGED vars
  BY <1>10, <1>12 DEF vars
<1> QED
  BY <1>6, <1>7, <1>8, <1>9, <1>11, <1>12 DEF Next, Locked

\* Every step keeps what list() has copied in agreement with the map: only the thread
\* that copies is inside, so nobody else changes it.
LEMMA NextSnapshot ==
  ASSUME RepositoryInv, [Next]_vars PROVE ListIsSnapshot'
<1> USE DEF RepositoryInv, TypeOK, counters, history
<1>1. ASSUME NEW t \in Threads, CopyNext(t) PROVE ListIsSnapshot'
  <2> DEFINE next == Least(Uncopied(t))
  <2>1. next \in DOMAIN slots
    BY <1>1, LeastIsLeast DEF CopyNext, Uncopied, Beyond
  <2>2. copied'[t] = [j \in DOMAIN copied[t] \cup {next} |-> IF j = next THEN slots[next] ELSE copied[t][j]]
    BY <1>1 DEF CopyNext, CopyInv
  <2>3. \A u \in Threads \ {t} : copied'[u] = copied[u]
    BY <1>1 DEF CopyNext, CopyInv
  <2>4. UNCHANGED <<slots, pc>> /\ pc[t] = "list"
    BY <1>1 DEF CopyNext
  <2>5. \A k \in DOMAIN copied'[t] : k \in DOMAIN slots' /\ slots'[k] = copied'[t][k]
    <3> HIDE DEF next
    <3> QED
      BY <2>1, <2>2, <2>4 DEF ListIsSnapshot
  <2> QED
    BY <2>3, <2>4, <2>5 DEF ListIsSnapshot
<1>2. ASSUME NEW t \in Threads, Acquire(t) PROVE ListIsSnapshot'
  <2>1. copied[t] = Nothing
    BY <1>2 DEF Acquire, CopyInv
  <2> QED
    BY <1>2, <2>1 DEF Acquire, ListIsSnapshot, Nothing
<1>3. ASSUME NEW t \in Threads, Begin(t) PROVE ListIsSnapshot'
  BY <1>3 DEF Begin, ListIsSnapshot
<1>4. ASSUME NEW t \in Threads, FindAbsent(t) PROVE ListIsSnapshot'
  BY <1>4 DEF FindAbsent, ListIsSnapshot
<1>5. ASSUME NEW t \in Threads, Evict(t) \/ RetireNext(t) PROVE ListIsSnapshot'
  <2>1. pc[t] \in Inside /\ pc[t] # "list" /\ UNCHANGED pc
    BY <1>5 DEF Evict, RetireNext, Inside
  <2> QED
    BY <2>1, AloneInside DEF ListIsSnapshot
<1>6. ASSUME NEW t \in Threads, Republish(t) \/ Emplace(t) \/ Find(t) \/ ListDone(t) \/ RetireDone(t)
      PROVE  ListIsSnapshot'
  <2>1. pc[t] \in Inside /\ pc' = [pc EXCEPT ![t] = "idle"]
    BY <1>6 DEF Republish, Emplace, Find, ListDone, RetireDone, Inside, Return
  <2> QED
    BY <2>1, AloneInside DEF ListIsSnapshot
<1>7. CASE UNCHANGED vars
  BY <1>7 DEF vars, ListIsSnapshot
<1> QED
  BY <1>1, <1>2, <1>3, <1>4, <1>5, <1>6, <1>7 DEF Next, Locked

-----------------------------------------------------------------------------
(* Theorems                                                                *)

\* However many threads use a repository of whatever capacity, the invariant holds.
THEOREM RepositoryInvariant == Spec => []RepositoryInv
<1>1. RepositoryInv /\ [Next]_vars => RepositoryInv'
  <2> SUFFICES ASSUME RepositoryInv, [Next]_vars PROVE RepositoryInv'
    OBVIOUS
  <2>1. TypeOK'
    BY NextTypes
  <2>2. CallInv' /\ EvictInv' /\ CopyInv'
    BY NextCalls
  <2>3. SizeInv' /\ StoredInv' /\ AcceptedIsHeld'
    BY NextSlots
  <2>4. ListIsSnapshot' /\ RetireInv' /\ GreatestAreHeld'
    BY NextSnapshot, NextRetirement, NextGreatest
  <2> QED
    BY <2>1, <2>2, <2>3, <2>4 DEF RepositoryInv
<1> QED
  BY InitRepositoryInv, <1>1, PTL DEF Spec

\* A thread is inside an operation exactly when it holds the mutex, and everything held
\* is a plan (PlanRepository, every std::lock_guard).
THEOREM RepositoryTypes == Spec => []TypeOK
<1>1. RepositoryInv => TypeOK
  BY DEF RepositoryInv
<1> QED
  BY RepositoryInvariant, <1>1, PTL

\* At most one content of a key is reported as published until the key is dropped
\* (PlanRepository::publish).
THEOREM OneContentPerKey == Spec => []AcceptedIsHeld
<1>1. RepositoryInv => AcceptedIsHeld
  BY DEF RepositoryInv
<1> QED
  BY RepositoryInvariant, <1>1, PTL

\* A list is one moment of the repository (PlanRepository::list).
THEOREM ListsAreSnapshots == Spec => []ListIsSnapshot
<1>1. RepositoryInv => ListIsSnapshot
  BY DEF RepositoryInv
<1> QED
  BY RepositoryInvariant, <1>1, PTL

\* The greatest keys ever published, as many as there are slots but one, are held unless
\* they were retired (PlanRepository::publish, slots_.begin(), and retire_below).
THEOREM GreatestKeysStay == Spec => []GreatestAreHeld
<1>1. RepositoryInv => GreatestAreHeld
  BY DEF RepositoryInv
<1> QED
  BY RepositoryInvariant, <1>1, PTL

\* When retire_below returns, nothing below its bound is held: its one pass over the map
\* misses nothing, since nobody publishes behind the iterator (PlanRepository::retire_below).
THEOREM RetirementComplete == Spec => NothingBelowBound
<1> DEFINE Clean == \A t \in Threads : (pc[t] = "retire" /\ pc'[t] = "idle") =>
                      \A k \in DOMAIN slots' : k[2] >= call[t].bound
<1>1. ASSUME RepositoryInv, [Next]_vars PROVE [Clean]_vars
  <2> SUFFICES ASSUME NEW t \in Threads, pc[t] = "retire", pc'[t] = "idle",
                      NEW k \in DOMAIN slots'
               PROVE  k[2] >= call[t].bound
    BY DEF Clean
  <2>1. \A u \in Threads \ {t} : pc[u] \in {"idle", "waiting"}
    BY <1>1, AloneInside DEF RepositoryInv, Inside
  <2>2. \A u \in Threads : ~Republish(u) /\ ~FindAbsent(u) /\ ~Evict(u) /\ ~Emplace(u) /\ ~Find(u)
                           /\ ~CopyNext(u) /\ ~ListDone(u)
    BY <2>1 DEF Republish, FindAbsent, Evict, Emplace, Find, CopyNext, ListDone
  <2>3. \A u \in Threads : ~Begin(u) /\ ~Acquire(u) /\ ~RetireNext(u)
    BY <1>1, <2>1 DEF RepositoryInv, TypeOK, Begin, Acquire, RetireNext
  <2>4. PICK u \in Threads : RetireDone(u)
    BY <1>1, <2>2, <2>3 DEF Next, Locked, vars
  <2>5. u = t /\ InFront(t) = {} /\ slots' = slots
    BY <2>1, <2>4 DEF RetireDone
  <2>6. k[2] \in Int /\ call[t].bound \in Int
    <3>1. call[t].bound \in Generations
      BY <1>1, CallShapes DEF RepositoryInv, CallInv, Inside
    <3>2. k \in Ids \X Generations
      BY <1>1, <2>5 DEF RepositoryInv, TypeOK, Keys
    <3>3. k[2] \in Generations
      BY <3>2
    <3> QED
      BY <3>1, <3>3, RepositoryAssumption
  <2>7. ~(k[2] < call[t].bound)
    BY <1>1, <2>5 DEF RepositoryInv, RetireInv
  <2> QED
    BY <2>6, <2>7
<1> QED
  BY RepositoryInvariant, <1>1, PTL DEF Spec, NothingBelowBound

\* The abstract store counts its keys as the repository does.
LEMMA SameCount == \A S : Store!Cardinality(S) = Cardinality(S)
  BY DEF Store!Cardinality, Cardinality

\* A repository is a bounded write-once store (WriteOnceStore): no step changes the
\* content of a key that stays held, and there are never more keys than slots.
THEOREM RepositoryImplementsStore == Spec => ImplementsStore
<1>1. ASSUME Init PROVE Store!Init
  BY <1>1 DEF Init, Store!Init, Nothing, SlotCount
<1>2. ASSUME RepositoryInv, [Next]_vars PROVE [Store!Next]_<<slots, SlotCount(capacity)>>
  <2> USE DEF counters
  <2>1. UNCHANGED capacity
    BY <1>2 DEF Next, Locked, vars, counters, Begin, Acquire, Republish, FindAbsent, Evict, Emplace,
                Find, CopyNext, ListDone, RetireNext, RetireDone
  <2>2. SlotCount(capacity)' = SlotCount(capacity)
    BY <2>1 DEF SlotCount
  <2>3. ASSUME NEW t \in Threads, Evict(t) PROVE Store!Next
    <3>1. DOMAIN slots # {} /\ DOMAIN slots \subseteq Keys
      BY <1>2, <2>3, FullIsNotEmpty DEF Evict, RepositoryInv, TypeOK
    <3>2. Least(DOMAIN slots) \in DOMAIN slots
      BY <3>1, LeastIsLeast
    <3> QED
      BY <2>2, <2>3, <3>2 DEF Evict, DropSlot, Store!Next, Store!Forget
  <2>4. ASSUME NEW t \in Threads, RetireNext(t) PROVE Store!Next \/ UNCHANGED slots
    <3>1. Least(InFront(t)) \in DOMAIN slots
      BY <1>2, <2>4, LeastInFront DEF RepositoryInv
    <3>2. UNCHANGED slots \/ DropSlot(Least(InFront(t)))
      BY <2>4 DEF RetireNext
    <3> QED
      BY <2>2, <3>1, <3>2 DEF DropSlot, Store!Next, Store!Forget
  <2>5. ASSUME NEW t \in Threads, Emplace(t) PROVE Store!Next
    <3> DEFINE key == call[t].key
    <3>1. key \in Keys /\ call[t].content \in Contents /\ key \notin DOMAIN slots
      BY <1>2, <2>5, CallShapes DEF RepositoryInv, CallInv, EvictInv, Inside, Emplace
    <3>2. Cardinality(DOMAIN slots) < SlotCount(capacity)
      <4>1. Cardinality(DOMAIN slots) \in Nat
        BY <1>2, KeysFinite DEF RepositoryInv, TypeOK
      <4>2. SlotCount(capacity) \in Nat
        BY <1>2, RepositoryAssumption DEF RepositoryInv, TypeOK, SlotCount
      <4> QED
        BY <2>5, <4>1, <4>2 DEF Emplace, Full
    <3>3. slots' = [k \in DOMAIN slots \cup {key} |-> IF k = key THEN call[t].content ELSE slots[k]]
      BY <2>5, <3>1 DEF Emplace
    <3>4. Store!Remember(key, call[t].content)
      BY <3>1, <3>2, <3>3, SameCount DEF Store!Remember
    <3> QED
      BY <2>2, <3>1, <3>4 DEF Store!Next
  <2>6. ASSUME UNCHANGED slots PROVE UNCHANGED <<slots, SlotCount(capacity)>>
    BY <2>2, <2>6
  <2>7. ASSUME NEW t \in Threads,
               Begin(t) \/ Acquire(t) \/ Republish(t) \/ FindAbsent(t) \/ Find(t) \/ CopyNext(t)
               \/ ListDone(t) \/ RetireDone(t)
        PROVE  UNCHANGED slots
    BY <2>7 DEF Begin, Acquire, Republish, FindAbsent, Find, CopyNext, ListDone, RetireDone
  <2>8. CASE UNCHANGED vars
    BY <2>6, <2>8 DEF vars
  <2> QED
    BY <1>2, <2>3, <2>4, <2>5, <2>6, <2>7, <2>8 DEF Next, Locked
<1> QED
  BY <1>1, <1>2, RepositoryInvariant, PTL DEF Spec, ImplementsStore, Store!Spec

=============================================================================
