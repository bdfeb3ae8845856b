----------------------------- MODULE Repository -----------------------------
(***************************************************************************)
(* PlanRepository (src/src/persist/repository.cpp): a bounded map from     *)
(* (plan id, generation) to a plan, shared by threads. Every operation     *)
(* takes the one mutex; what it does while holding it is split into the    *)
(* iterations of its loops, so that mutual exclusion is something to check *)
(* and not to assume. A plan is reduced to its key and its content, which  *)
(* stands for the digest of its encoding; sound says whether               *)
(* verify_structure accepts it.                                            *)
(***************************************************************************)
EXTENDS Integers, FiniteSets

CONSTANTS
  Threads,
  Ids,          \* plan identities, numbers in the order of the identities
  Generations,
  Contents,
  Capacities,   \* the capacities a repository may be constructed with
  MaxCalls,     \* bound: calls made in one behaviour
  Nobody, None

Keys == Ids \X Generations

ASSUME RepositoryAssumption ==
  /\ Ids \subseteq Int /\ Generations \subseteq Int /\ Capacities \subseteq Nat
  /\ IsFiniteSet(Ids) /\ IsFiniteSet(Generations)
  /\ Nobody \notin Threads /\ None \notin Contents /\ MaxCalls \in Nat

VARIABLES
  capacity,    \* what the repository was constructed with
  slots,       \* the plans held: key -> content
  evictions, rejections,
  mutex,       \* the thread that holds the lock, or Nobody
  pc,          \* where each thread is: idle, waiting for the lock, or in an operation
  call,        \* the call each thread makes, or None
  result,      \* what the last call of each thread returned
  copied,      \* the entries list() has copied so far
  passed,      \* the keys the iterator of retire_below() has gone over so far
  calls,       \* calls made so far
  accepted,    \* history: contents reported as published since the key was last dropped
  stored,      \* history: the keys ever reported as published
  retired      \* history: the keys retire_below() dropped that were not published again

counters == <<evictions, rejections>>
history == <<accepted, stored, retired>>
vars == <<capacity, slots, counters, mutex, pc, call, result, copied, passed, calls, history>>

Nothing == [k \in {} |-> None]

\* The constructor replaces a capacity of zero.
SlotCountAsGiven(given) == given
SlotCount(given) == IF given = 0 THEN 1 ELSE given

Less(j, k) == j[1] < k[1] \/ (j[1] = k[1] /\ j[2] < k[2])
Least(S) == CHOOSE k \in S : \A j \in S \ {k} : Less(k, j)

Calls == [op : {"publish"}, key : Keys, content : Contents, sound : BOOLEAN]
           \cup [op : {"find"}, key : Keys] \cup [op : {"list"}] \cup [op : {"retire"}, bound : Generations]

Init ==
  /\ capacity \in Capacities
  /\ slots = Nothing /\ evictions = 0 /\ rejections = 0
  /\ mutex = Nobody
  /\ pc = [t \in Threads |-> "idle"]
  /\ call = [t \in Threads |-> None]
  /\ result = [t \in Threads |-> None]
  /\ copied = [t \in Threads |-> Nothing]
  /\ passed = [t \in Threads |-> {}]
  /\ calls = 0
  /\ accepted = [k \in Keys |-> {}]
  /\ stored = {} /\ retired = {}

-----------------------------------------------------------------------------
(* Before the lock                                                         *)

\* A publication checks and encodes its plan first; an unsound one never takes the lock.
Begin(t) ==
  /\ pc[t] = "idle" /\ calls < MaxCalls
  /\ calls' = calls + 1
  /\ \E request \in Calls :
       IF request.op = "publish" /\ ~request.sound
       THEN /\ result' = [result EXCEPT ![t] = "invalid"]
            /\ UNCHANGED <<pc, call>>
       ELSE /\ call' = [call EXCEPT ![t] = request]
            /\ pc' = [pc EXCEPT ![t] = "waiting"]
            /\ result' = [result EXCEPT ![t] = None]
  /\ UNCHANGED <<capacity, slots, counters, mutex, copied, passed, history>>

AcquireAnyway(t) ==
  /\ pc[t] = "waiting"
  /\ mutex' = t
  /\ pc' = [pc EXCEPT ![t] = call[t].op]
  /\ UNCHANGED <<capacity, slots, counters, call, result, copied, passed, calls, history>>
Acquire(t) ==
  /\ pc[t] = "waiting" /\ mutex = Nobody
  /\ mutex' = t
  /\ pc' = [pc EXCEPT ![t] = call[t].op]
  /\ UNCHANGED <<capacity, slots, counters, call, result, copied, passed, calls, history>>

-----------------------------------------------------------------------------
(* Holding the lock                                                        *)

Inside == {"publish", "evict", "find", "list", "retire"}

Return(t, answer) ==
  /\ result' = [result EXCEPT ![t] = answer]
  /\ pc' = [pc EXCEPT ![t] = "idle"]
  /\ mutex' = Nobody
  /\ call' = [call EXCEPT ![t] = None]
  /\ copied' = [copied EXCEPT ![t] = Nothing]
  /\ passed' = [passed EXCEPT ![t] = {}]

Accept(t) ==
  /\ accepted' = [accepted EXCEPT ![call[t].key] = @ \cup {call[t].content}]
  /\ stored' = stored \cup {call[t].key}
  /\ retired' = retired \ {call[t].key}

DropSlot(k) ==
  /\ slots' = [j \in DOMAIN slots \ {k} |-> slots[j]]
  /\ accepted' = [accepted EXCEPT ![k] = {}]

\* The key is held already: the same content is published again, any other is a conflict.
Republish(t) ==
  /\ pc[t] = "publish" /\ call[t].key \in DOMAIN slots
  /\ IF slots[call[t].key] = call[t].content
     THEN Return(t, "success") /\ Accept(t) /\ UNCHANGED rejections
     ELSE Return(t, "conflict") /\ rejections' = rejections + 1 /\ UNCHANGED history
  /\ UNCHANGED <<capacity, slots, evictions, calls>>

\* The key is new: slots are freed until there is room.
FindAbsent(t) ==
  /\ pc[t] = "publish" /\ call[t].key \notin DOMAIN slots
  /\ pc' = [pc EXCEPT ![t] = "evict"]
  /\ UNCHANGED <<capacity, slots, counters, mutex, call, result, copied, passed, calls, history>>

FullPastSize == Cardinality(DOMAIN slots) > SlotCount(capacity)
Full == Cardinality(DOMAIN slots) >= SlotCount(capacity)

EvictAny(t) ==
  /\ pc[t] = "evict" /\ Full
  /\ \E k \in DOMAIN slots : DropSlot(k)
  /\ evictions' = evictions + 1
  /\ UNCHANGED <<capacity, rejections, mutex, pc, call, result, copied, passed, calls, stored, retired>>
Evict(t) ==
  /\ pc[t] = "evict" /\ Full /\ slots # Nothing
  /\ DropSlot(Least(DOMAIN slots))
  /\ evictions' = evictions + 1
  /\ UNCHANGED <<capacity, rejections, mutex, pc, call, result, copied, passed, calls, stored, retired>>

\* emplace keeps an entry that is there already.
Emplace(t) ==
  /\ pc[t] = "evict" /\ ~Full
  /\ slots' = [k \in DOMAIN slots \cup {call[t].key} |->
                 IF k \in DOMAIN slots THEN slots[k] ELSE call[t].content]
  /\ Return(t, "success") /\ Accept(t)
  /\ UNCHANGED <<capacity, counters, calls>>

Find(t) ==
  /\ pc[t] = "find"
  /\ Return(t, IF call[t].key \in DOMAIN slots THEN slots[call[t].key] ELSE "not_found")
  /\ UNCHANGED <<capacity, slots, counters, calls, history>>

\* list() copies the entries one by one, in the order of their keys.
Beyond(S) == {k \in DOMAIN slots : \A j \in S : Less(j, k)}
Uncopied(t) == Beyond(DOMAIN copied[t])

CopyNext(t) ==
  /\ pc[t] = "list" /\ Uncopied(t) # {}
  /\ LET k == Least(Uncopied(t))
     IN  copied' = [copied EXCEPT ![t] = [j \in DOMAIN @ \cup {k} |-> IF j = k THEN slots[k] ELSE @[j]]]
  /\ UNCHANGED <<capacity, slots, counters, mutex, pc, call, result, passed, calls, history>>

ListDone(t) ==
  /\ pc[t] = "list" /\ Uncopied(t) = {}
  /\ Return(t, "listed")
  /\ UNCHANGED <<capacity, slots, counters, calls, history>>

\* retire_below() goes over the map once: it looks at the first key it has not passed,
\* and erases it or leaves it behind for good.
InFront(t) == Beyond(passed[t])

RetireNext(t) ==
  /\ pc[t] = "retire" /\ InFront(t) # {}
  /\ LET k == Least(InFront(t))
     IN  /\ passed' = [passed EXCEPT ![t] = @ \cup {k}]
         /\ IF k[2] < call[t].bound
            THEN DropSlot(k) /\ retired' = retired \cup {k}
            ELSE UNCHANGED <<slots, accepted, retired>>
  /\ UNCHANGED <<capacity, counters, mutex, pc, call, result, copied, calls, stored>>

RetireDone(t) ==
  /\ pc[t] = "retire" /\ InFront(t) = {}
  /\ Return(t, "retired")
  /\ UNCHANGED <<capacity, slots, counters, calls, history>>

Locked(t) ==
  \/ Republish(t) \/ FindAbsent(t) \/ Evict(t) \/ Emplace(t)
  \/ Find(t) \/ CopyNext(t) \/ ListDone(t) \/ RetireNext(t) \/ RetireDone(t)

Next == \E t \in Threads : Begin(t) \/ Acquire(t) \/ Locked(t)

\* A thread that holds the lock goes on; nothing is assumed about who gets it.
Spec == Init /\ [][Next]_vars /\ \A t \in Threads : WF_vars(Locked(t))

-----------------------------------------------------------------------------
(* Properties                                                              *)

\* Every record has its type, and the thread inside an operation is the one
\* that holds the lock.
TypeOK ==
  /\ capacity \in Capacities
  /\ DOMAIN slots \subseteq Keys /\ \A k \in DOMAIN slots : slots[k] \in Contents
  /\ evictions \in Nat /\ rejections \in Nat /\ calls \in 0 .. MaxCalls
  /\ mutex \in Threads \cup {Nobody}
  /\ pc \in [Threads -> {"idle", "waiting"} \cup Inside]
  /\ call \in [Threads -> Calls \cup {None}]
  /\ \A t \in Threads : (pc[t] \in Inside) <=> (mutex = t)
  /\ \A t \in Threads : DOMAIN copied[t] \subseteq Keys
  /\ passed \in [Threads -> SUBSET Keys]
  /\ accepted \in [Keys -> SUBSET Contents]
  /\ stored \subseteq Keys /\ retired \subseteq Keys

\* However publications of one key interleave, at most one content is reported
\* as published until the key is dropped, and that one is what is held: two
\* continuations of one plan, which carry the same id and generation
\* (replan.cpp:384), cannot both be taken for published.
AcceptedIsHeld ==
  \A k \in Keys : accepted[k] = IF k \in DOMAIN slots THEN {slots[k]} ELSE {}

\* list() returns one moment of the repository although it copies entry by entry.
ListIsSnapshot ==
  \A t \in Threads : pc[t] = "list" =>
    \A k \in DOMAIN copied[t] : k \in DOMAIN slots /\ slots[k] = copied[t][k]

\* What a publisher may rely on: of all the keys ever reported as published, the greatest
\* ones, as many as there are slots but one, are still held unless they were retired. The
\* one slot left goes to whatever was published last, however small its key; so a plan of
\* a small identity is not promised that its newest generation stays, and a capacity of one
\* promises nothing (the eviction of publish() and the sweep of retire_below() together).
Outranked(k) == {j \in stored : Less(k, j)}
GreatestAreHeld ==
  \A k \in stored \ (retired \cup DOMAIN slots) : Cardinality(Outranked(k)) >= SlotCount(capacity) - 1

\* When retire_below(g) returns, nothing below g is held, although it looks at each slot
\* once: the slots are ordered by plan first, so those to retire are scattered over the map,
\* and a publication that waits for the lock must not slip in behind the iterator. What is
\* below g later was published after it.
NothingBelowBound ==
  [][\A t \in Threads : (pc[t] = "retire" /\ pc'[t] = "idle") =>
       \A k \in DOMAIN slots' : k[2] >= call[t].bound]_vars

\* Whoever takes the lock gives it back: the eviction loop ends for every
\* capacity the repository can be constructed with.
LockReleased == \A t \in Threads : mutex = t ~> mutex # t

\* The repository is a bounded write-once store.
Store == INSTANCE WriteOnceStore
           WITH held <- slots, size <- SlotCount(capacity), Sizes <- {SlotCount(given) : given \in Capacities}
ImplementsStore == Store!Spec

=============================================================================
