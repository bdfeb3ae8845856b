--------------------------- MODULE PlannerProofs ---------------------------
(***************************************************************************)
(* What a call of generate_plan returns has been verified, for every       *)
(* fabric, every set of requests and every budget. The argument does not   *)
(* look into the search or into verify_stage: whatever order they produce  *)
(* and whatever stages they cut it into, a plan is returned only after     *)
(* every stage of it passed verify_plan, in the state the stages before    *)
(* it lead to and under the caller's own request.                          *)
(*                                                                         *)
(* Before that come the facts every proof about the planner needs. On      *)
(* replays: the recursive function Trajectory is what its definition says, *)
(* and two replays agree as long as they take the same steps. On orders:   *)
(* the lexicographic order is total, sorting a finite set by a total order *)
(* lists it once, and the ready operations and the interleavings of a      *)
(* stage are such sets. Inductions over the natural numbers take a least   *)
(* counterexample (LeastNat). At the end stand the types of everything a   *)
(* call computes.                                                          *)
(***************************************************************************)
EXTENDS Planner, SequenceTheorems, WellFoundedInduction, FiniteSetTheorems, TLAPS

-----------------------------------------------------------------------------
(* Replays                                                                 *)

Less == {e \in Nat \X Nat : e[1] < e[2]}

\* The order of the natural numbers is well founded.
LEMMA LessWellFounded == IsWellFoundedOn(Less, Nat)
<1>1. OpToRel(<, Nat) = Less
  BY Zenon DEF OpToRel, Less
<1> QED
  BY <1>1, NatLessThanWellFounded, Zenon

\* A set of natural numbers that is not empty has a least element.
LEMMA LeastNat ==
  ASSUME NEW T, T \subseteq Nat, T # {}
  PROVE  \E x \in T : \A y \in T : x <= y
<1>1. \E x \in T : \A y \in T : <<y, x>> \notin Less
  BY LessWellFounded, WFMin
<1>2. \A x, y \in Nat : <<y, x>> \in Less <=> y < x
  BY DEF Less
<1>3. \A x, y \in T : <<y, x>> \notin Less => x <= y
  BY <1>2
<1> QED
  BY <1>1, <1>3

-----------------------------------------------------------------------------
\* t lists the states the first n operations of seq lead through from s.
Unfold(r, s, seq, t, n) ==
  /\ DOMAIN t = 0 .. n
  /\ t = [i \in 0 .. n |-> IF i = 0 THEN s ELSE Apply(r, t[i - 1], seq[i])]

\* Such a list exists: a least n without one is refuted by extending the list of n - 1.
LEMMA UnfoldExists ==
  ASSUME NEW r, NEW s, NEW seq, NEW n \in Nat
  PROVE  \E t : Unfold(r, s, seq, t, n)
<1> DEFINE Missing == {k \in Nat : ~\E t : Unfold(r, s, seq, t, k)}
<1> SUFFICES Missing = {}
  OBVIOUS
<1> SUFFICES ASSUME Missing # {} PROVE FALSE
  OBVIOUS
<1>1. PICK k \in Missing : \A j \in Missing : k <= j
  BY LeastNat
<1>2. CASE k = 0
  <2> DEFINE t == [i \in 0 .. 0 |-> IF i = 0 THEN s ELSE Apply(r, s, seq[i])]
  <2>1. Unfold(r, s, seq, t, 0)
    BY DEF Unfold
  <2> QED
    BY <1>2, <2>1
<1>3. CASE k # 0
  <2>1. k - 1 \in Nat /\ k - 1 \notin Missing
    BY <1>1, <1>3
  <2>2. PICK t : Unfold(r, s, seq, t, k - 1)
    BY <2>1
  <2> DEFINE u == [i \in 0 .. k |-> IF i < k THEN t[i] ELSE Apply(r, t[k - 1], seq[k])]
  <2>3. \A i \in 0 .. k : u[i] = IF i = 0 THEN s ELSE Apply(r, u[i - 1], seq[i])
    BY <2>1, <2>2, <1>3 DEF Unfold
  <2>4. Unfold(r, s, seq, u, k)
    BY <2>3 DEF Unfold
  <2> QED
    BY <2>4
<1> QED
  BY <1>2, <1>3

\* Trajectory starts in s and entry i is the result of applying seq[i] to the entry
\* before it, whatever the operations do.
LEMMA TrajectoryUnfolds ==
  ASSUME NEW r, NEW s, NEW seq, Len(seq) \in Nat
  PROVE  /\ DOMAIN Trajectory(r, s, seq) = 0 .. Len(seq)
         /\ Trajectory(r, s, seq)[0] = s
         /\ \A i \in 1 .. Len(seq) :
              Trajectory(r, s, seq)[i] = Apply(r, Trajectory(r, s, seq)[i - 1], seq[i])
<1> DEFINE t == Trajectory(r, s, seq)
<1>1. PICK u : Unfold(r, s, seq, u, Len(seq))
  BY UnfoldExists
<1>2. t = [i \in 0 .. Len(seq) |-> IF i = 0 THEN s ELSE Apply(r, t[i - 1], seq[i])]
  BY <1>1 DEF Trajectory, Unfold
<1> QED
  BY <1>2


\* Two replays from one state that take the same first m steps agree on the states up
\* to there.
LEMMA TrajectoryPrefix ==
  ASSUME NEW r, NEW s, NEW u, NEW v, Len(u) \in Nat, Len(v) \in Nat,
         NEW m \in Nat, m <= Len(u), m <= Len(v),
         \A i \in 1 .. m : u[i] = v[i]
  PROVE  \A i \in 0 .. m : Trajectory(r, s, u)[i] = Trajectory(r, s, v)[i]
<1> DEFINE tu == Trajectory(r, s, u)
           tv == Trajectory(r, s, v)
           Differing == {i \in 0 .. m : tu[i] # tv[i]}
<1>1. /\ tu[0] = s
      /\ \A i \in 1 .. Len(u) : tu[i] = Apply(r, tu[i - 1], u[i])
  BY TrajectoryUnfolds
<1>2. /\ tv[0] = s
      /\ \A i \in 1 .. Len(v) : tv[i] = Apply(r, tv[i - 1], v[i])
  BY TrajectoryUnfolds
<1> HIDE DEF tu, tv
<1>3. SUFFICES ASSUME Differing # {} PROVE FALSE
  BY DEF tu, tv
<1>4. PICK i \in Differing : \A j \in Differing : i <= j
  <2>1. Differing \subseteq Nat
    OBVIOUS
  <2> HIDE DEF Differing
  <2> QED
    BY <1>3, <2>1, LeastNat
<1>5. i # 0
  BY <1>1, <1>2, <1>4
<1>6. tu[i - 1] = tv[i - 1]
  BY <1>4, <1>5
<1> QED
  BY <1>1, <1>2, <1>4, <1>5, <1>6

-----------------------------------------------------------------------------
\* x is a sequence. The safety argument needs no type of its elements.
IsSeq(x) == \E S : x \in Seq(S)

\* A sequence of length n has the entries 1..n.
LEMMA SeqShape ==
  ASSUME NEW x, IsSeq(x)
  PROVE  Len(x) \in Nat /\ DOMAIN x = 1 .. Len(x)
  BY DEF IsSeq

\* A function on 1..n is a sequence of length n.
LEMMA FunctionIsSeq ==
  ASSUME NEW n \in Nat, NEW f, f = [i \in 1 .. n |-> f[i]]
  PROVE  IsSeq(f) /\ Len(f) = n
<1>1. f \in [1 .. n -> {f[i] : i \in 1 .. n}]
  OBVIOUS
<1>2. f \in Seq({f[i] : i \in 1 .. n})
  BY <1>1
<1>3. Len(f) \in Nat /\ DOMAIN f = 1 .. Len(f) /\ DOMAIN f = 1 .. n
  BY <1>1, <1>2
<1>4. n \in 1 .. Len(f) \/ n = 0
  BY <1>3
<1>5. Len(f) \in 1 .. n \/ Len(f) = 0
  BY <1>3
<1>6. Len(f) = n
  BY <1>3, <1>4, <1>5
<1> QED
  BY <1>2, <1>6 DEF IsSeq

\* Append adds one entry at the end and leaves the others alone.
LEMMA AppendIsSeq ==
  ASSUME NEW x, NEW e, IsSeq(x)
  PROVE  /\ IsSeq(Append(x, e))
         /\ Len(Append(x, e)) = Len(x) + 1
         /\ \A i \in 1 .. Len(x) : Append(x, e)[i] = x[i]
         /\ Append(x, e)[Len(x) + 1] = e
<1>1. PICK S : x \in Seq(S)
  BY DEF IsSeq
<1>2. x \in Seq(S \cup {e}) /\ Append(x, e) \in Seq(S \cup {e})
  BY <1>1
<1> QED
  BY <1>2 DEF IsSeq

\* The empty sequence has no entries.
LEMMA EmptyIsSeq == IsSeq(<<>>) /\ Len(<<>>) = 0
<1>1. <<>> \in Seq({})
  OBVIOUS
<1> QED
  BY <1>1 DEF IsSeq

\* A sequence of one entry.
LEMMA SingletonIsSeq ==
  ASSUME NEW e
  PROVE  IsSeq(<<e>>) /\ Len(<<e>>) = 1 /\ <<e>>[1] = e
<1>1. <<e>> \in Seq({e})
  OBVIOUS
<1> QED
  BY <1>1 DEF IsSeq

\* An interleaving of a batch has the length of the batch.
LEMMA InterleavingIsSeq ==
  ASSUME NEW batch, NEW p, IsSeq(batch)
  PROVE  IsSeq(Interleaving(batch, p)) /\ Len(Interleaving(batch, p)) = Len(batch)
<1>1. Len(batch) \in Nat /\ DOMAIN batch = 1 .. Len(batch)
  BY SeqShape
<1> DEFINE f == Interleaving(batch, p)
<1>2. f = [i \in 1 .. Len(batch) |-> batch[p[i]]]
  BY <1>1 DEF Interleaving
<1>3. f = [i \in 1 .. Len(batch) |-> f[i]]
  BY <1>2
<1> QED
  BY <1>1, <1>3, FunctionIsSeq

-----------------------------------------------------------------------------
(* Orders                                                                  *)

\* before is a strict total order of S.
TotallyOrders(before, S) ==
  /\ \A x \in S : <<x, x>> \notin before
  /\ \A x, y, z \in S : <<x, y>> \in before /\ <<y, z>> \in before => <<x, z>> \in before
  /\ \A x, y \in S : x # y => <<x, y>> \in before \/ <<y, x>> \in before

\* No tuple comes before itself.
LEMMA LexIrreflexive == ASSUME NEW u, \A i \in DOMAIN u : u[i] \in Int
                        PROVE ~LexLess(u, u)
  BY DEF LexLess

\* The lexicographic order is transitive.
LEMMA LexTransitive ==
  ASSUME NEW k \in Nat, NEW u \in [1 .. k -> Int], NEW v \in [1 .. k -> Int],
         NEW w \in [1 .. k -> Int], LexLess(u, v), LexLess(v, w)
  PROVE  LexLess(u, w)
<1>1. PICK i \in 1 .. k : u[i] < v[i] /\ \A l \in 1 .. i - 1 : u[l] = v[l]
  BY DEF LexLess
<1>2. PICK j \in 1 .. k : v[j] < w[j] /\ \A l \in 1 .. j - 1 : v[l] = w[l]
  BY DEF LexLess
<1> DEFINE m == IF i <= j THEN i ELSE j
<1>3. m \in 1 .. k /\ u[m] < w[m]
  BY <1>1, <1>2
<1>4. \A l \in 1 .. m - 1 : u[l] = w[l]
  BY <1>1, <1>2
<1> HIDE DEF m
<1> QED
  BY <1>3, <1>4 DEF LexLess

\* Of two different tuples of one length one comes before the other.
LEMMA LexTotal ==
  ASSUME NEW k \in Nat, NEW u \in [1 .. k -> Int], NEW v \in [1 .. k -> Int], u # v
  PROVE  LexLess(u, v) \/ LexLess(v, u)
<1> DEFINE Differing == {i \in 1 .. k : u[i] # v[i]}
<1>1. Differing # {} /\ Differing \subseteq Nat
  OBVIOUS
<1>2. PICK i \in Differing : \A j \in Differing : i <= j
  <2> HIDE DEF Differing
  <2> QED
    BY <1>1, LeastNat
<1>3. \A j \in 1 .. i - 1 : u[j] = v[j]
  BY <1>2
<1>4. u[i] < v[i] \/ v[i] < u[i]
  BY <1>2
<1> QED
  BY <1>2, <1>3, <1>4 DEF LexLess

-----------------------------------------------------------------------------
\* Ascending lists a finite set under a total order: every element has a place of its
\* own, and places follow the order.
LEMMA AscendingSorts ==
  ASSUME NEW S, NEW before, IsFiniteSet(S), TotallyOrders(before, S)
  PROVE  /\ Cardinality(S) \in Nat
         /\ Ascending(S, before) \in [1 .. Cardinality(S) -> S]
         /\ \A i, j \in 1 .. Cardinality(S) :
              Ascending(S, before)[i] = Ascending(S, before)[j] => i = j
         /\ \A x \in S : \E i \in 1 .. Cardinality(S) : Ascending(S, before)[i] = x
<1> DEFINE n == Cardinality(S)
           below(x) == {y \in S : <<y, x>> \in before}
           rank == [x \in S |-> Cardinality(below(x))]
<1>1. n \in Nat
  BY FS_CardinalityType
<1>2. ASSUME NEW x \in S
      PROVE  IsFiniteSet(below(x)) /\ Cardinality(below(x)) \in 0 .. n - 1
  <2>1. below(x) \in SUBSET (S \ {x})
    BY DEF TotallyOrders
  <2>2. IsFiniteSet(S \ {x}) /\ Cardinality(S \ {x}) = n - 1
    BY FS_RemoveElement
  <2> HIDE DEF below
  <2>3. IsFiniteSet(below(x)) /\ Cardinality(below(x)) <= n - 1
    BY <2>1, <2>2, FS_Subset
  <2>4. Cardinality(below(x)) \in Nat
    BY <2>3, FS_CardinalityType
  <2> QED
    BY <1>1, <2>3, <2>4
<1>3. ASSUME NEW x \in S, NEW y \in S, <<x, y>> \in before
      PROVE  rank[x] < rank[y]
  <2>1. below(x) \in SUBSET below(y) /\ x \in below(y) /\ x \notin below(x)
    BY <1>3 DEF TotallyOrders
  <2>2. IsFiniteSet(below(y)) /\ rank[x] = Cardinality(below(x)) /\ rank[y] = Cardinality(below(y))
    BY <1>2
  <2>3. Cardinality(below(x)) \in Int /\ Cardinality(below(y)) \in Int
    <3> HIDE DEF below, n
    <3> QED
      BY <1>2
  <2> HIDE DEF below, rank
  <2>4. Cardinality(below(x)) <= Cardinality(below(y))
        /\ Cardinality(below(y)) # Cardinality(below(x))
    BY <2>1, <2>2, FS_Subset
  <2> QED
    BY <2>2, <2>3, <2>4
<1>4. rank \in [S -> 0 .. n - 1]
  BY <1>2
<1> HIDE DEF rank
<1>5. ASSUME NEW x \in S, NEW y \in S, rank[x] = rank[y] PROVE x = y
  <2>1. rank[x] \in Int
    BY <1>4
  <2>2. <<x, y>> \notin before /\ <<y, x>> \notin before
    BY <1>3, <1>5, <2>1
  <2> QED
    BY <2>2 DEF TotallyOrders
<1>6. rank \in Injection(S, 0 .. n - 1)
  BY <1>4, <1>5 DEF Injection, IsInjective
<1>7. IsFiniteSet(0 .. n - 1) /\ Cardinality(0 .. n - 1) = n
  BY <1>1, FS_Interval
<1>8. rank \in Surjection(S, 0 .. n - 1)
  BY <1>6, <1>7, FS_Injection
<1>9. \A i \in 1 .. n : \E x \in S : rank[x] = i - 1
  BY <1>1, <1>8 DEF Surjection
<1>10. \A x \in S : rank[x] = Cardinality({y \in S : <<y, x>> \in before})
  BY DEF rank
<1> DEFINE a == Ascending(S, before)
<1>11. ASSUME NEW i \in 1 .. n PROVE a[i] \in S /\ rank[a[i]] = i - 1
  <2>1. a[i] = CHOOSE x \in S : Cardinality({y \in S : <<y, x>> \in before}) = i - 1
    BY DEF Ascending
  <2>2. \E x \in S : Cardinality({y \in S : <<y, x>> \in before}) = i - 1
    BY <1>9, <1>10
  <2>3. a[i] \in S /\ Cardinality({y \in S : <<y, a[i]>> \in before}) = i - 1
    BY <2>1, <2>2
  <2> QED
    BY <1>10, <2>3
<1>12. a = [i \in 1 .. n |-> CHOOSE x \in S : Cardinality({y \in S : <<y, x>> \in before}) = i - 1]
  BY Zenon DEF Ascending
<1> HIDE DEF a, n
<1>13. a \in [1 .. n -> S]
  <2> DEFINE e(i) == CHOOSE x \in S : Cardinality({y \in S : <<y, x>> \in before}) = i - 1
  <2>1. a = [i \in 1 .. n |-> e(i)]
    BY <1>12
  <2> HIDE DEF e
  <2> QED
    BY <1>11, <2>1
<1>14. \A i, j \in 1 .. n : a[i] = a[j] => i = j
  BY <1>1, <1>11
<1>15. ASSUME NEW x \in S PROVE \E i \in 1 .. n : a[i] = x
  <2>1. rank[x] + 1 \in 1 .. n
    BY <1>1, <1>4
  <2>2. a[rank[x] + 1] \in S /\ rank[a[rank[x] + 1]] = rank[x]
    BY <1>1, <1>4, <1>11, <2>1
  <2> QED
    BY <1>5, <2>1, <2>2
<1> QED
  BY <1>1, <1>13, <1>14, <1>15 DEF a, n

-----------------------------------------------------------------------------
\* The elements of S in the lexicographic order of their keys.
KeyOrder(S, key) == {e \in S \X S : LexLess(key[e[1]], key[e[2]])}

\* No two elements of S have the same key.
Distinct(S, key) == \A x, y \in S : key[x] = key[y] => x = y

\* Keys that are different tuples of integers order what they belong to.
LEMMA KeysOrder ==
  ASSUME NEW S, NEW k \in Nat, NEW key \in [S -> [1 .. k -> Int]], Distinct(S, key)
  PROVE  TotallyOrders(KeyOrder(S, key), S)
<1> DEFINE before == KeyOrder(S, key)
<1>1. \A x, y \in S : <<x, y>> \in before <=> LexLess(key[x], key[y])
  BY DEF KeyOrder
<1>0. \A x, y \in S : key[x] = key[y] => x = y
  BY DEF Distinct
<1> HIDE DEF before
<1>2. ASSUME NEW x \in S PROVE <<x, x>> \notin before
  BY <1>1, LexIrreflexive
<1>3. ASSUME NEW x \in S, NEW y \in S, NEW z \in S, <<x, y>> \in before, <<y, z>> \in before
      PROVE  <<x, z>> \in before
  BY <1>1, <1>3, LexTransitive
<1>4. ASSUME NEW x \in S, NEW y \in S, x # y
      PROVE  <<x, y>> \in before \/ <<y, x>> \in before
  <2>1. key[x] # key[y]
    BY <1>0, <1>4
  <2> QED
    BY <1>1, <2>1, LexTotal
<1> QED
  BY <1>2, <1>3, <1>4 DEF TotallyOrders, before

\* There are finitely many functions between finite sets.
LEMMA FunctionsFinite ==
  ASSUME NEW A, NEW B, IsFiniteSet(A), IsFiniteSet(B)
  PROVE  IsFiniteSet([A -> B])
<1> DEFINE graph == [f \in [A -> B] |-> {<<x, f[x]>> : x \in A}]
<1>1. graph \in [[A -> B] -> SUBSET (A \X B)]
  OBVIOUS
<1>2. ASSUME NEW f \in [A -> B], NEW g \in [A -> B], graph[f] = graph[g]
      PROVE  f = g
  <2>1. {<<x, f[x]>> : x \in A} = {<<x, g[x]>> : x \in A}
    BY <1>2
  <2>2. \A x \in A : <<x, f[x]>> \in {<<y, g[y]>> : y \in A}
    BY <2>1
  <2>3. \A x \in A : f[x] = g[x]
    BY <2>2
  <2> QED
    BY <2>3
<1> HIDE DEF graph
<1>3. graph \in Injection([A -> B], SUBSET (A \X B))
  BY <1>1, <1>2 DEF Injection, IsInjective
<1>4. IsFiniteSet(SUBSET (A \X B))
  BY FS_Product, FS_SUBSET
<1> QED
  BY <1>3, <1>4, FS_Injection

\* The orders on k slots are finitely many, and the lexicographic order ranks them.
LEMMA SlotOrdersOrdered ==
  ASSUME NEW k \in Nat, NEW S \in SUBSET SlotOrders(k)
  PROVE  /\ IsFiniteSet(S)
         /\ TotallyOrders({e \in S \X S : LexLess(e[1], e[2])}, S)
<1>1. IsFiniteSet([1 .. k -> 1 .. k])
  <2>1. IsFiniteSet(1 .. k)
    BY FS_Interval
  <2> QED
    BY <2>1, FunctionsFinite
<1>2. S \subseteq [1 .. k -> 1 .. k]
  BY DEF SlotOrders
<1>3. IsFiniteSet(S)
  BY <1>1, <1>2, FS_Subset
<1> DEFINE key == [p \in S |-> p]
<1>4. key \in [S -> [1 .. k -> Int]]
  BY <1>2
<1>5. TotallyOrders(KeyOrder(S, key), S)
  <2>1. Distinct(S, key)
    BY DEF Distinct
  <2> HIDE DEF key
  <2> QED
    BY <1>4, <2>1, KeysOrder
<1>6. KeyOrder(S, key) = {e \in S \X S : LexLess(e[1], e[2])}
  BY DEF KeyOrder
<1> QED
  BY <1>3, <1>5, <1>6

-----------------------------------------------------------------------------
\* What relaxing a request leaves alone, and the types of its parts.
LEMMA RequestFacts ==
  ASSUME NEW r \in Requests, NEW q \in Relaxations(r)
  PROVE  /\ q.n = r.n /\ q.n \in Nat
         /\ q.state = r.state /\ q.state \in States
         /\ q.enforced \subseteq r.enforced /\ IsFiniteSet(q.enforced)
         /\ q.limits = r.limits
         /\ r.limits.candidates \in Nat /\ r.limits.core \in Nat
         /\ r.limits.perms \in Nat /\ r.limits.visits \in Nat /\ r.limits.width \in Nat
         /\ \A o \in 1 .. q.n : q.risk[o] \in Int /\ q.id[o] \in Int
         /\ \A s \in States, o \in 1 .. q.n : Apply(q, s, o) \in States
<1>1. PICK e \in SUBSET r.enforced : q = [r EXCEPT !.enforced = e]
  BY DEF Relaxations
<1>2. /\ q.n = r.n /\ q.state = r.state /\ q.limits = r.limits /\ q.risk = r.risk
      /\ q.id = r.id /\ q.enforced = e
  BY <1>1, RequestAssumption
<1>3. IsFiniteSet(e)
  BY RequestAssumption, FS_Subset
<1> QED
  BY <1>2, <1>3, RequestAssumption, ApplyAssumption

\* sort_ready lists the ready operations, each of them once.
LEMMA SortReadyLists ==
  ASSUME NEW r \in Requests, NEW q \in Relaxations(r), NEW how \in ToSet(Strategies),
         NEW ready \in SUBSET (1 .. q.n)
  PROVE  /\ IsFiniteSet(ready) /\ Cardinality(ready) \in Nat
         /\ SortReady(q, how, ready) \in [1 .. Cardinality(ready) -> ready]
         /\ \A i, j \in 1 .. Cardinality(ready) :
              SortReady(q, how, ready)[i] = SortReady(q, how, ready)[j] => i = j
         /\ \A o \in ready : \E i \in 1 .. Cardinality(ready) : SortReady(q, how, ready)[i] = o
<1>1. q.n \in Nat /\ \A o \in 1 .. q.n : q.risk[o] \in Int
  BY RequestFacts
<1>2. IsFiniteSet(1 .. q.n)
  BY <1>1, FS_Interval
<1>3. IsFiniteSet(ready)
  BY <1>2, FS_Subset
<1>4. \A o \in ready : Cardinality(Successors(q, o)) \in Int
  <2> TAKE o \in ready
  <2>1. Successors(q, o) \in SUBSET (1 .. q.n)
    BY DEF Successors, Nodes
  <2>2. IsFiniteSet(Successors(q, o))
    BY <1>2, <2>1, FS_Subset
  <2> QED
    BY <2>2, FS_CardinalityType
<1>5. ToSet(Strategies) = {"safety_first", "unlock_first", "maintenance_first",
                           "reverse_canonical"}
  BY DEF ToSet, Strategies
<1>6. ASSUME NEW o \in ready
      PROVE  /\ SortKey(q, how, o) \in [1 .. 3 -> Int]
             /\ SortKey(q, how, o)[3] = IF how = "reverse_canonical" THEN -o ELSE o
  <2> DEFINE window == IF o \in q.windowed THEN 1 ELSE 0
             unlocks == Cardinality(Successors(q, o))
  <2>1. window \in Int /\ unlocks \in Int /\ q.risk[o] \in Int /\ o \in Int
    BY <1>1, <1>4
  <2> HIDE DEF window, unlocks
  <2>2. SortKey(q, how, o) =
          CASE how = "safety_first"      -> <<window, q.risk[o], o>>
            [] how = "unlock_first"      -> <<-unlocks, q.risk[o], o>>
            [] how = "maintenance_first" -> <<-window, -q.risk[o], o>>
            [] how = "reverse_canonical" -> <<0, 0, -o>>
    BY Zenon DEF SortKey, window, unlocks
  <2> QED
    BY <1>5, <2>1, <2>2
<1> DEFINE key == [o \in ready |-> SortKey(q, how, o)]
           before == KeyOrder(ready, key)
<1>7. key \in [ready -> [1 .. 3 -> Int]]
  BY <1>6
<1>8. Distinct(ready, key)
  BY <1>1, <1>6 DEF Distinct
<1>9. TotallyOrders(before, ready)
  <2> DEFINE width == 3
  <2>1. width \in Nat /\ key \in [ready -> [1 .. width -> Int]]
    BY <1>7
  <2> HIDE DEF key, width
  <2> QED
    BY <1>8, <2>1, KeysOrder
<1>10. SortReady(q, how, ready) = Ascending(ready, before)
  <2>1. before = {e \in ready \X ready :
                    LexLess(SortKey(q, how, e[1]), SortKey(q, how, e[2]))}
    BY DEF KeyOrder
  <2> QED
    BY <2>1 DEF SortReady
<1> HIDE DEF before
<1> QED
  BY <1>3, <1>9, <1>10, AscendingSorts

-----------------------------------------------------------------------------
(* What has been verified, phase by phase.                                 *)

\* The state stage k of s is entered with; for the stage after the last, the
\* state the compression has reached.
Entry(s, k) == IF k <= Len(s.stages) THEN s.stages[k].basis ELSE s.state

\* What holds of the stages built so far: replayed from r.state, stage after
\* stage, they lead to the states their conditions were derived in.
Scheduled(r, s) ==
  /\ s = [pos |-> s.pos, batch |-> s.batch, at |-> s.at, state |-> s.state,
          stages |-> s.stages]
  /\ IsSeq(s.batch)
  /\ IsSeq(s.stages)
  /\ \A k \in 1 .. Len(s.stages) : IsSeq(s.stages[k].steps)
  /\ Entry(s, 1) = r.state
  /\ \A k \in 1 .. Len(s.stages) :
       Entry(s, k + 1) = Replay(r, s.stages[k].basis, s.stages[k].steps)

\* What verify_plan has established when the next stage is rep.next.
Replayed(r, s, rep) ==
  /\ Scheduled(r, s)
  /\ Safe(r, r.state)
  /\ PlanStructure(r, s.stages)
  /\ rep.next \in 1 .. Len(s.stages) + 1
  /\ IsSeq(rep.trace)
  /\ Len(rep.trace) = rep.next
  /\ \A k \in 1 .. rep.next : rep.trace[k] = Entry(s, k)
  /\ \A k \in 1 .. rep.next - 1 : StageVerified(r, rep.trace[k], s.stages[k])

\* A plan verify_plan accepts for r.
Verified(r, plan) ==
  /\ plan.kind = "plan"
  /\ Safe(r, r.state)
  /\ PlanStructure(r, plan.stages)
  /\ IsSeq(plan.stages)
  /\ IsSeq(plan.trace)
  /\ Len(plan.trace) = Len(plan.stages) + 1
  /\ plan.trace[1] = r.state
  /\ \A k \in 1 .. Len(plan.stages) :
       /\ IsSeq(plan.stages[k].steps)
       /\ plan.stages[k].basis = plan.trace[k]
       /\ StageVerified(r, plan.trace[k], plan.stages[k])
       /\ plan.trace[k + 1] = Replay(r, plan.trace[k], plan.stages[k].steps)

\* The inductive invariant: what has been verified so far, phase by phase. Only an
\* attempt made while core.mode is "off" plans for the caller's request, so only its
\* outcome has to be a plan for that request.
PlannerInv ==
  /\ request \in Requests
  /\ core = [mode |-> core.mode, disabled |-> core.disabled, trial |-> core.trial,
             next |-> core.next, attempts |-> core.attempts, code |-> core.code]
  /\ core.mode = "off" => req = request
  /\ pick = [candidate |-> pick.candidate, limit |-> pick.limit, best |-> pick.best,
             verified |-> pick.verified]
  /\ phase \in {"candidate", "search", "compress", "verify", "replay"} =>
       pick.best = Nothing \/ Verified(req, pick.best)
  /\ phase \in {"compress", "verify"} => Scheduled(req, sched)
  /\ phase = "replay" => Replayed(req, sched, report)
  /\ phase = "settle" /\ core.mode = "off" => attempt.kind = "failed" \/ Verified(req, attempt)
  /\ \/ phase # "done" /\ result = Nothing
     \/ phase = "done" /\ (result.kind = "refusal" \/ Verified(request, result))

\* PlannerInv holds when generate_plan is entered.
LEMMA InitPlannerInv == Init => PlannerInv
  BY DEF Init, PlannerInv, NoPick, NoCore

\* Flushing a batch adds a stage that starts where the stages before it end.
LEMMA FlushKeepsSchedule ==
  ASSUME Scheduled(req, sched), NEW permutations, NEW batch, NEW at, IsSeq(batch),
         Flush(permutations, batch, at)
  PROVE  Scheduled(req, sched')
<1> DEFINE steps == SortById(req, sched.batch)
           stage == [steps |-> steps, basis |-> sched.state, permutations |-> permutations]
           n == Len(sched.stages)
<1>1. IsSeq(steps)
  BY InterleavingIsSeq DEF Scheduled, SortById
<1>2. /\ sched'.stages = Append(sched.stages, stage)
      /\ sched'.state = Replay(req, sched.state, steps)
      /\ sched'.batch = batch
      /\ sched' = [pos |-> sched'.pos, batch |-> sched'.batch, at |-> sched'.at,
                   state |-> sched'.state, stages |-> sched'.stages]
  BY DEF Flush, Scheduled
<1> HIDE DEF steps
<1>3. /\ IsSeq(sched.stages) /\ n \in Nat
      /\ IsSeq(sched'.stages)
      /\ Len(sched'.stages) = n + 1
      /\ \A k \in 1 .. n : sched'.stages[k] = sched.stages[k]
      /\ sched'.stages[n + 1] = stage
  BY <1>2, AppendIsSeq, SeqShape DEF Scheduled
<1>4. \A k \in 1 .. n + 1 : Entry(sched', k) = Entry(sched, k)
  BY <1>3 DEF Entry
<1>5. Entry(sched', n + 2) = Replay(req, sched.state, steps)
  BY <1>2, <1>3 DEF Entry
<1>6. ASSUME NEW k \in 1 .. n + 1
      PROVE  /\ IsSeq(sched'.stages[k].steps)
             /\ Entry(sched', k + 1) = Replay(req, sched'.stages[k].basis, sched'.stages[k].steps)
  <2>1. CASE k = n + 1
    BY <1>1, <1>3, <1>5, <2>1
  <2>2. CASE k \in 1 .. n
    <3>1. k + 1 \in 1 .. n + 1
      BY <1>3, <2>2
    <3> QED
      BY <1>3, <1>4, <2>2, <3>1 DEF Scheduled
  <2> QED
    BY <1>3, <2>1, <2>2
<1> QED
  BY <1>2, <1>3, <1>4, <1>6 DEF Scheduled

\* One more verified stage extends the verified part of the candidate.
LEMMA StageKeepsReplay ==
  ASSUME NEW r, NEW s, NEW rep, Replayed(r, s, rep), rep.next <= Len(s.stages),
         StageVerified(r, Last(rep.trace), s.stages[rep.next])
  PROVE  Replayed(r, s, [next |-> rep.next + 1,
                         trace |-> Append(rep.trace,
                                     Replay(r, Last(rep.trace), s.stages[rep.next].steps))])
<1> DEFINE n == rep.next
           new == Append(rep.trace, Replay(r, Last(rep.trace), s.stages[n].steps))
<1>1. n \in Nat /\ Len(s.stages) \in Nat /\ n \in 1 .. Len(s.stages)
  BY SeqShape DEF Replayed, Scheduled
<1>2. Last(rep.trace) = rep.trace[n] /\ rep.trace[n] = Entry(s, n)
  BY <1>1 DEF Replayed, Last
<1>3. Entry(s, n) = s.stages[n].basis
  BY <1>1 DEF Entry
<1>4. /\ IsSeq(new) /\ Len(new) = n + 1
      /\ \A k \in 1 .. n : new[k] = rep.trace[k]
      /\ new[n + 1] = Replay(r, Last(rep.trace), s.stages[n].steps)
  BY AppendIsSeq DEF Replayed
<1> HIDE DEF new
<1>5. new[n + 1] = Entry(s, n + 1)
  BY <1>1, <1>2, <1>3, <1>4 DEF Replayed, Scheduled
<1>6. ASSUME NEW k \in 1 .. n + 1 PROVE new[k] = Entry(s, k)
  <2>1. CASE k = n + 1
    BY <1>5, <2>1
  <2>2. CASE k \in 1 .. n
    BY <1>4, <2>2 DEF Replayed
  <2> QED
    BY <1>1, <2>1, <2>2
<1>7. ASSUME NEW k \in 1 .. n PROVE StageVerified(r, new[k], s.stages[k])
  <2>1. CASE k = n
    <3>1. new[k] = Last(rep.trace)
      BY <1>2, <1>4, <2>1
    <3> QED
      BY <2>1, <3>1
  <2>2. CASE k \in 1 .. n - 1
    <3>1. StageVerified(r, rep.trace[k], s.stages[k])
      BY <2>2 DEF Replayed
    <3> QED
      BY <1>4, <3>1
  <2> QED
    BY <1>1, <2>1, <2>2
<1> QED
  BY <1>1, <1>4, <1>6, <1>7 DEF Replayed, new

\* When verify_plan is through with the last stage the candidate is verified.
LEMMA ReplayedIsVerified ==
  ASSUME NEW r, NEW s, NEW rep, Replayed(r, s, rep), rep.next > Len(s.stages)
  PROVE  Verified(r, PlanOf(s.stages, rep.trace))
<1> DEFINE n == Len(s.stages)
<1>1. n \in Nat /\ rep.next = n + 1
  BY SeqShape DEF Replayed, Scheduled
<1>2. \A k \in 1 .. n : Entry(s, k) = s.stages[k].basis
  BY <1>1 DEF Entry
<1>3. \A k \in 1 .. n :
        /\ s.stages[k].basis = rep.trace[k]
        /\ StageVerified(r, rep.trace[k], s.stages[k])
        /\ rep.trace[k + 1] = Replay(r, rep.trace[k], s.stages[k].steps)
  BY <1>1, <1>2 DEF Replayed, Scheduled
<1>4. rep.trace[1] = r.state
  BY <1>1 DEF Replayed, Scheduled
<1> QED
  BY <1>1, <1>3, <1>4 DEF Replayed, Scheduled, Verified, PlanOf

\* The plan without steps, returned when nothing has to change, is verified.
LEMMA ConvergedIsVerified ==
  ASSUME NEW r \in Requests, Gate(r) = "converged"
  PROVE  Verified(r, PlanOf(<<>>, <<r.state>>))
<1>1. Safe(r, r.state) /\ Nodes(r) = {}
  BY CodeAssumption DEF Gate
<1>2. Edges(r) = {}
  BY <1>1 DEF Edges
<1>3. PlanStructure(r, <<>>)
  BY <1>2 DEF PlanStructure, Places
<1> QED
  BY <1>1, <1>3, EmptyIsSeq, SingletonIsSeq DEF Verified, PlanOf


\* Every step of the planner and of its caller preserves PlannerInv.
LEMMA NextPlannerInv == PlannerInv /\ [Next]_vars => PlannerInv'
<1> SUFFICES ASSUME PlannerInv, [Next]_vars PROVE PlannerInv'
  OBVIOUS
<1> USE DEF Nothing, Failed, Refusal, PlanOf
<1>1. ASSUME Admit PROVE PlannerInv'
  BY <1>1 DEF PlannerInv, Admit, searchVars
<1>2. ASSUME RefuseInput PROVE PlannerInv'
  BY <1>2 DEF PlannerInv, RefuseInput, Return, searchVars
<1>3. ASSUME AttemptScheduled PROVE PlannerInv'
  BY <1>3 DEF PlannerInv, AttemptScheduled, NoPick, searchVars
<1>4. ASSUME AttemptConverged PROVE PlannerInv'
  BY <1>4, ConvergedIsVerified DEF PlannerInv, AttemptConverged, EndAttempt, searchVars
<1>5. ASSUME AttemptBarred PROVE PlannerInv'
  BY <1>5 DEF PlannerInv, AttemptBarred, EndAttempt, searchVars
<1>6. ASSUME LoopEnds PROVE PlannerInv'
  BY <1>6 DEF PlannerInv, LoopEnds, EndAttempt, searchVars
<1>7. ASSUME LoopCancelled PROVE PlannerInv'
  BY <1>7 DEF PlannerInv, LoopCancelled, EndAttempt, searchVars
<1>8. ASSUME LoopOutOfAttempts PROVE PlannerInv'
  BY <1>8 DEF PlannerInv, LoopOutOfAttempts, EndAttempt, searchVars
<1>9. ASSUME StartCandidate PROVE PlannerInv'
  BY <1>9 DEF PlannerInv, StartCandidate
<1>10. ASSUME Searching PROVE PlannerInv'
  <2>1. UNCHANGED <<req, request, phase, pick, sched, report, attempt, core, result>>
    BY <1>10 DEF Searching, SearchStep, SearchCancelled, SearchComplete, SearchLimit,
                 SearchCommit, SearchBacktrack
  <2> QED
    BY <2>1 DEF PlannerInv
<1>11. ASSUME OrderFound PROVE PlannerInv'
  BY <1>11, EmptyIsSeq
     DEF PlannerInv, OrderFound, NoSchedule, Scheduled, Entry, searchVars
<1>12. ASSUME SearchStopped PROVE PlannerInv'
  BY <1>12 DEF PlannerInv, SearchStopped, EndAttempt, searchVars
<1>13. ASSUME OrderMissing PROVE PlannerInv'
  BY <1>13 DEF PlannerInv, OrderMissing, RejectCandidate, searchVars
<1>14. ASSUME FlushBatch PROVE PlannerInv'
  <2> USE <1>14 DEF PlannerInv, FlushBatch, Compressing, compressUnchanged
  <2>1. CASE Check(sched.batch).verdict = "ok"
    BY <2>1, EmptyIsSeq, FlushKeepsSchedule
  <2>2. CASE Check(sched.batch).verdict # "ok"
    BY <2>2 DEF RejectCandidate
  <2> QED
    BY <2>1, <2>2
<1>15. ASSUME JoinBatch PROVE PlannerInv'
  <2> USE <1>15 DEF PlannerInv, JoinBatch, Compressing, compressUnchanged
  <2> DEFINE trial == Append(sched.batch, Operation)
  <2>1. CASE Check(trial).verdict = "ok"
    <3>1. IsSeq(trial)
      BY AppendIsSeq DEF Scheduled
    <3> HIDE DEF trial
    <3> QED
      BY <2>1, <3>1 DEF Scheduled, Entry, trial
  <2>2. CASE Check(trial).verdict = "unsafe" /\ sched.batch # <<>>
    BY <2>2 DEF Scheduled, Entry
  <2>3. CASE /\ Check(trial).verdict # "ok"
             /\ ~(Check(trial).verdict = "unsafe" /\ sched.batch # <<>>)
    BY <2>3 DEF RejectCandidate
  <2> QED
    BY <2>1, <2>2, <2>3
<1>16. ASSUME SplitBatch PROVE PlannerInv'
  <2> USE <1>16 DEF PlannerInv, SplitBatch, Compressing, compressUnchanged
  <2>1. CASE Check(sched.batch).verdict = "ok"
    BY <2>1, SingletonIsSeq, FlushKeepsSchedule
  <2>2. CASE Check(sched.batch).verdict # "ok"
    BY <2>2 DEF RejectCandidate
  <2> QED
    BY <2>1, <2>2
<1>17. ASSUME CheckSingle PROVE PlannerInv'
  <2> USE <1>17 DEF PlannerInv, CheckSingle, Compressing, compressUnchanged
  <2>1. CASE Check(sched.batch).verdict = "ok"
    BY <2>1 DEF Scheduled, Entry
  <2>2. CASE Check(sched.batch).verdict # "ok"
    BY <2>2 DEF RejectCandidate
  <2> QED
    BY <2>1, <2>2
<1>18. ASSUME FlushLast PROVE PlannerInv'
  <2> USE <1>18 DEF PlannerInv, FlushLast, Compressing, compressUnchanged
  <2>1. CASE Check(sched.batch).verdict = "ok"
    BY <2>1, EmptyIsSeq, FlushKeepsSchedule
  <2>2. CASE Check(sched.batch).verdict # "ok"
    BY <2>2 DEF RejectCandidate
  <2> QED
    BY <2>1, <2>2
<1>19. ASSUME VerifyStructure PROVE PlannerInv'
  <2> USE <1>19 DEF PlannerInv, VerifyStructure, searchVars
  <2>1. CASE PlanStructure(req, sched.stages) /\ Safe(req, req.state)
    <3>1. Replayed(req, sched, [next |-> 1, trace |-> <<req.state>>])
      BY <2>1, SingletonIsSeq, SeqShape DEF Replayed, Scheduled
    <3> QED
      BY <2>1, <3>1
  <2>2. CASE ~(PlanStructure(req, sched.stages) /\ Safe(req, req.state))
    BY <2>2 DEF RejectCandidate
  <2> QED
    BY <2>1, <2>2
<1>20. ASSUME VerifyStage PROVE PlannerInv'
  BY <1>20, StageKeepsReplay DEF PlannerInv, VerifyStage, RejectCandidate, searchVars
<1>21. ASSUME SelectPlan PROVE PlannerInv'
  <2>1. Verified(req, PlanOf(sched.stages, report.trace))
    BY <1>21, ReplayedIsVerified DEF PlannerInv, SelectPlan
  <2> HIDE DEF PlanOf
  <2>2. pick'.best = PlanOf(sched.stages, report.trace) \/ pick'.best = pick.best
    BY <1>21 DEF PlannerInv, SelectPlan
  <2>3. pick' = [candidate |-> pick'.candidate, limit |-> pick'.limit, best |-> pick'.best,
                 verified |-> pick'.verified]
    BY <1>21 DEF PlannerInv, SelectPlan
  <2> QED
    BY <1>21, <2>1, <2>2, <2>3 DEF PlannerInv, SelectPlan, searchVars
<1>22. ASSUME SettleMain PROVE PlannerInv'
  <2> USE <1>22 DEF PlannerInv, SettleMain, searchVars
  <2>1. CASE Succeeded
    <3>1. Verified(request, attempt)
      BY <2>1 DEF Succeeded
    <3> QED
      BY <2>1, <3>1 DEF Return
  <2>2. CASE ~Succeeded /\ phase' = "core"
    <3>1. core' = [NoCore EXCEPT !.mode = "grow", !.code = attempt.code]
      BY <2>2 DEF Return
    <3> QED
      BY <2>2, <3>1 DEF NoCore
  <2>3. CASE ~Succeeded /\ phase' # "core"
    BY <2>3 DEF Return
  <2> QED
    BY <2>1, <2>2, <2>3
<1>23. ASSUME GrowCore PROVE PlannerInv'
  BY <1>23 DEF PlannerInv, GrowCore, TryWithout, coreUnchanged
<1>24. ASSUME GrowthEnds PROVE PlannerInv'
  <2> USE <1>24 DEF PlannerInv, GrowthEnds, coreUnchanged
  <2>1. CASE core.disabled = <<>>
    BY <2>1 DEF CoreFinished, Return
  <2>2. CASE core.disabled # <<>>
    BY <2>2
  <2> QED
    BY <2>1, <2>2
<1>25. ASSUME ShrinkCore PROVE PlannerInv'
  BY <1>25 DEF PlannerInv, ShrinkCore, TryWithout, coreUnchanged
<1>26. ASSUME ShrinkEnds PROVE PlannerInv'
  BY <1>26 DEF PlannerInv, ShrinkEnds, CoreFinished, Return, coreUnchanged
<1>27. ASSUME SettleGrow PROVE PlannerInv'
  <2> USE <1>27 DEF PlannerInv, SettleGrow, coreUnchanged
  <2>1. CASE Cancelled
    BY <2>1 DEF CoreFinished, Return
  <2>2. CASE ~Cancelled
    BY <2>2
  <2> QED
    BY <2>1, <2>2
<1>28. ASSUME SettleShrink PROVE PlannerInv'
  <2> USE <1>28 DEF PlannerInv, SettleShrink, coreUnchanged
  <2>1. CASE Cancelled
    BY <2>1 DEF CoreFinished, Return
  <2>2. CASE ~Cancelled
    BY <2>2
  <2> QED
    BY <2>1, <2>2
<1>29. ASSUME RequestStop PROVE PlannerInv'
  BY <1>29 DEF PlannerInv, RequestStop
<1>30. ASSUME UNCHANGED vars PROVE PlannerInv'
  BY <1>30 DEF PlannerInv, vars
<1> QED
  BY <1>1, <1>2, <1>3, <1>4, <1>5, <1>6, <1>7, <1>8, <1>9, <1>10, <1>11, <1>12, <1>13,
     <1>14, <1>15, <1>16, <1>17, <1>18, <1>19, <1>20, <1>21, <1>22, <1>23, <1>24, <1>25,
     <1>26, <1>27, <1>28, <1>29, <1>30
     DEF Next, PlannerStep, Returned


\* No step changes the request the call was made with.
LEMMA NextRequest == Next => UNCHANGED request
  BY DEF Next, PlannerStep, Returned, vars, searchVars, compressUnchanged, coreUnchanged,
         Admit, RefuseInput, AttemptScheduled, AttemptConverged, AttemptBarred, LoopEnds,
         LoopCancelled, LoopOutOfAttempts, StartCandidate, Searching, OrderFound,
         SearchStopped, OrderMissing, FlushBatch, JoinBatch, SplitBatch, CheckSingle,
         FlushLast, VerifyStructure, VerifyStage, SelectPlan, SettleMain, GrowCore,
         GrowthEnds, ShrinkCore, ShrinkEnds, SettleGrow, SettleShrink, RequestStop

\* What the call returned stays.
LEMMA NextResult == PlannerInv /\ result # Nothing /\ Next => UNCHANGED result
<1> SUFFICES ASSUME PlannerInv, result # Nothing, Next PROVE UNCHANGED result
  OBVIOUS
<1>1. phase = "done"
  BY DEF PlannerInv
<1>2. ~PlannerStep
  BY <1>1 DEF PlannerStep, Admit, RefuseInput, AttemptScheduled, AttemptConverged,
         AttemptBarred, LoopEnds, LoopCancelled, LoopOutOfAttempts, StartCandidate, Searching,
         OrderFound, SearchStopped, OrderMissing, Compressing, FlushBatch, JoinBatch,
         SplitBatch, CheckSingle, FlushLast, VerifyStructure, VerifyStage, SelectPlan,
         SettleMain, GrowCore, GrowthEnds, ShrinkCore, ShrinkEnds, SettleGrow, SettleShrink
<1> QED
  BY <1>2 DEF Next, RequestStop, Returned, vars

\* PlannerInv holds throughout every call: what generate_plan returns is a refusal or
\* a plan that passed verify_plan under the caller's own request.
THEOREM PlannerInvariant == Spec => []PlannerInv
  BY InitPlannerInv, NextPlannerInv, PTL DEF Spec

\* ConditionsFresh for every instance: the conditions of a published step were derived
\* (schedule) in the state in which verify_plan entered the stage of that step.
THEOREM PublishedConditionsFresh == Spec => []ConditionsFresh
<1>1. PlannerInv => ConditionsFresh
  <2> SUFFICES ASSUME PlannerInv, Published PROVE ConditionsFresh
    BY DEF ConditionsFresh
  <2>1. Verified(request, result)
    BY DEF PlannerInv, Published, Nothing
  <2> QED
    BY <2>1, SeqShape DEF ConditionsFresh, Verified
<1> QED
  BY <1>1, PlannerInvariant, PTL

-----------------------------------------------------------------------------
(* Types: the counters stay natural numbers, the states the call works on *)
(* stay fabric states, and the search never runs on an empty stack. The    *)
(* state a step leads to is a fabric state only if the step is an          *)
(* operation of the request, so the argument follows the operations from   *)
(* the ready lists through the linear order into the batches.              *)

\* Min picks an element of a set of natural numbers that is not empty.
LEMMA MinInSet ==
  ASSUME NEW T, T \subseteq Nat, T # {}
  PROVE  Min(T) \in T /\ \A x \in T : Min(T) <= x
<1>1. \E x \in T : \A y \in T : x =< y
  BY LeastNat
<1> QED
  BY <1>1 DEF Min

\* Max of two natural numbers is one of them, and no less than either.
LEMMA MaxOfTwo ==
  ASSUME NEW a \in Nat, NEW b \in Nat
  PROVE  Max({a, b}) \in Nat /\ a <= Max({a, b}) /\ b <= Max({a, b})
<1>1. \E x \in {a, b} : \A y \in {a, b} : x >= y
  OBVIOUS
<1> QED
  BY <1>1 DEF Max

\* The entries of a sequence over S are elements of S.
LEMMA EntryOfSeq ==
  ASSUME NEW S, NEW seq \in Seq(S)
  PROVE  Len(seq) \in Nat /\ DOMAIN seq = 1 .. Len(seq) /\ \A i \in 1 .. Len(seq) : seq[i] \in S
  OBVIOUS

\* A function from 1..n to S is a sequence over S.
LEMMA FunctionInSeq ==
  ASSUME NEW S, NEW n \in Nat, NEW f \in [1 .. n -> S]
  PROVE  f \in Seq(S) /\ Len(f) = n
<1>1. f \in Seq(S)
  OBVIOUS
<1>2. f = [i \in 1 .. n |-> f[i]]
  OBVIOUS
<1> QED
  BY <1>1, <1>2, FunctionIsSeq

\* Only the empty sequence has length zero.
LEMMA EmptySeqLength == ASSUME NEW S, NEW seq \in Seq(S) PROVE Len(seq) = 0 <=> seq = <<>>
  OBVIOUS

\* Dropping the last entry, if there is one.
LEMMA FrontInSeq ==
  ASSUME NEW S, NEW seq \in Seq(S)
  PROVE  Front(seq) \in Seq(S) /\ (Len(seq) # 0 => Len(Front(seq)) = Len(seq) - 1)
<1>1. Len(seq) \in Nat
  OBVIOUS
<1>2. CASE Len(seq) = 0
  <2>1. SubSeq(seq, 1, Len(seq) - 1) = <<>>
    BY <1>2, SubSeqEmpty
  <2> QED
    BY <1>2, <2>1 DEF Front
<1>3. CASE Len(seq) # 0
  <2>1. Len(seq) - 1 \in 0 .. Len(seq)
    BY <1>1, <1>3
  <2> DEFINE m == Len(seq) - 1
  <2>2. SubSeq(seq, 1, m) = [i \in 1 .. m |-> seq[i]]
    BY <2>1, SubSeqRestrict DEF Restrict
  <2>3. m \in Nat /\ [i \in 1 .. m |-> seq[i]] \in [1 .. m -> S]
    BY <1>1, <2>1
  <2> HIDE DEF m
  <2>4. SubSeq(seq, 1, m) \in Seq(S) /\ Len(SubSeq(seq, 1, m)) = m
    BY <2>2, <2>3, FunctionInSeq
  <2> QED
    BY <2>4 DEF Front, m
<1> QED
  BY <1>2, <1>3

\* Adding an entry.
LEMMA AppendInSeq ==
  ASSUME NEW S, NEW seq \in Seq(S), NEW e \in S
  PROVE  Append(seq, e) \in Seq(S) /\ Append(seq, e) # <<>>
<1>1. Append(seq, e) \in Seq(S) /\ Len(Append(seq, e)) # 0
  OBVIOUS
<1> QED
  BY <1>1, EmptySeqLength

-----------------------------------------------------------------------------
\* A replay of operations of the request stays among the fabric states.
LEMMA TrajectoryInStates ==
  ASSUME NEW r \in Requests, NEW q \in Relaxations(r), NEW s \in States,
         NEW seq \in Seq(1 .. q.n)
  PROVE  \A i \in 0 .. Len(seq) : Trajectory(q, s, seq)[i] \in States
<1> DEFINE t == Trajectory(q, s, seq)
           Outside == {i \in 0 .. Len(seq) : t[i] \notin States}
<1>1. Len(seq) \in Nat /\ \A i \in 1 .. Len(seq) : seq[i] \in 1 .. q.n
  BY EntryOfSeq
<1>2. t[0] = s /\ \A i \in 1 .. Len(seq) : t[i] = Apply(q, t[i - 1], seq[i])
  BY <1>1, TrajectoryUnfolds
<1> HIDE DEF t
<1>3. SUFFICES ASSUME Outside # {} PROVE FALSE
  BY DEF t
<1>4. PICK i \in Outside : \A j \in Outside : i <= j
  <2>1. Outside \subseteq Nat
    OBVIOUS
  <2> HIDE DEF Outside
  <2> QED
    BY <1>3, <2>1, LeastNat
<1>5. i # 0 /\ i \in 1 .. Len(seq)
  BY <1>1, <1>2, <1>4
<1>6. t[i - 1] \in States
  BY <1>1, <1>4, <1>5
<1>7. t[i] \in States
  BY <1>1, <1>2, <1>5, <1>6, RequestFacts
<1> QED
  BY <1>4, <1>7

\* The state a sequence of operations leads to is a fabric state.
LEMMA ReplayInStates ==
  ASSUME NEW r \in Requests, NEW q \in Relaxations(r), NEW s \in States,
         NEW seq \in Seq(1 .. q.n)
  PROVE  Replay(q, s, seq) \in States
<1>1. Len(seq) \in 0 .. Len(seq)
  OBVIOUS
<1> QED
  BY <1>1, TrajectoryInStates DEF Replay

-----------------------------------------------------------------------------
\* t lists the running totals of the first n charges.
TotalUp(spent, charges, t, n) ==
  /\ DOMAIN t = 0 .. n
  /\ t = [i \in 0 .. n |-> IF i = 0 THEN spent ELSE t[i - 1] + charges[i]]

\* Such a list exists.
LEMMA TotalsExist ==
  ASSUME NEW spent, NEW charges, NEW n \in Nat
  PROVE  \E t : TotalUp(spent, charges, t, n)
<1> DEFINE Missing == {k \in Nat : ~\E t : TotalUp(spent, charges, t, k)}
<1> SUFFICES ASSUME Missing # {} PROVE FALSE
  OBVIOUS
<1>1. PICK k \in Missing : \A j \in Missing : k <= j
  BY LeastNat
<1>2. CASE k = 0
  <2> DEFINE t == [i \in 0 .. 0 |-> IF i = 0 THEN spent ELSE spent + charges[i]]
  <2>1. TotalUp(spent, charges, t, 0)
    BY DEF TotalUp
  <2> QED
    BY <1>2, <2>1
<1>3. CASE k # 0
  <2>1. k - 1 \in Nat /\ k - 1 \notin Missing
    BY <1>1, <1>3
  <2>2. PICK t : TotalUp(spent, charges, t, k - 1)
    BY <2>1
  <2> DEFINE u == [i \in 0 .. k |-> IF i < k THEN t[i] ELSE t[k - 1] + charges[k]]
  <2>3. \A i \in 0 .. k : u[i] = IF i = 0 THEN spent ELSE u[i - 1] + charges[i]
    BY <2>1, <2>2, <1>3 DEF TotalUp
  <2>4. TotalUp(spent, charges, u, k)
    BY <2>3 DEF TotalUp
  <2> QED
    BY <2>4
<1> QED
  BY <1>2, <1>3

\* Running totals of natural numbers are natural numbers, no less than the first.
LEMMA TotalsInNat ==
  ASSUME NEW spent \in Nat, NEW n \in Nat, NEW charges \in [1 .. n -> Nat]
  PROVE  \A i \in 0 .. n :
           Totals(spent, charges)[i] \in Nat /\ spent <= Totals(spent, charges)[i]
<1> DEFINE t == Totals(spent, charges)
           Outside == {i \in 0 .. n : ~(t[i] \in Nat /\ spent <= t[i])}
<1>1. Len(charges) = n
  BY FunctionIsSeq
<1>2. PICK u : TotalUp(spent, charges, u, n)
  BY TotalsExist
<1>3. t = [i \in 0 .. n |-> IF i = 0 THEN spent ELSE t[i - 1] + charges[i]]
  BY <1>1, <1>2 DEF Totals, TotalUp
<1>4. t[0] = spent /\ \A i \in 1 .. n : t[i] = t[i - 1] + charges[i]
  BY <1>3
<1> HIDE DEF t
<1>5. SUFFICES ASSUME Outside # {} PROVE FALSE
  BY DEF t
<1>6. PICK i \in Outside : \A j \in Outside : i <= j
  <2>1. Outside \subseteq Nat
    OBVIOUS
  <2> HIDE DEF Outside
  <2> QED
    BY <1>5, <2>1, LeastNat
<1>7. i \in 1 .. n
  BY <1>4, <1>6
<1>8. t[i - 1] \in Nat /\ spent <= t[i - 1]
  BY <1>6, <1>7
<1>9. charges[i] \in Nat
  BY <1>7
<1>10. t[i] \in Nat /\ spent <= t[i]
  BY <1>4, <1>7, <1>8, <1>9
<1> QED
  BY <1>6, <1>10

-----------------------------------------------------------------------------
\* The canonical slots of a batch are an order on its slots.
LEMMA CanonicalSlotsOrder ==
  ASSUME NEW r \in Requests, NEW q \in Relaxations(r), NEW batch \in Seq(1 .. q.n)
  PROVE  CanonicalSlots(q, batch) \in SlotOrders(Len(batch))
<1> DEFINE k == Len(batch)
           slots == DOMAIN batch
           key == [i \in slots |-> <<q.id[batch[i]], i>>]
           pairs == {e \in slots \X slots :
                       LexLess(<<q.id[batch[e[1]]], e[1]>>, <<q.id[batch[e[2]]], e[2]>>)}
<1>1. k \in Nat /\ slots = 1 .. k /\ \A i \in 1 .. k : batch[i] \in 1 .. q.n
  BY EntryOfSeq
<1>2. \A i \in 1 .. k : q.id[batch[i]] \in Int
  BY <1>1, RequestFacts
<1>3. IsFiniteSet(slots) /\ Cardinality(slots) = k
  <2>1. IsFiniteSet(1 .. k) /\ Cardinality(1 .. k) = IF 1 > k THEN 0 ELSE k - 1 + 1
    BY <1>1, FS_Interval
  <2> QED
    BY <1>1, <2>1
<1>4. KeyOrder(slots, key) = pairs
  BY DEF KeyOrder
<1>5. TotallyOrders(KeyOrder(slots, key), slots)
  <2> DEFINE width == 2
  <2>1. width \in Nat /\ key \in [slots -> [1 .. width -> Int]]
    BY <1>1, <1>2
  <2>2. Distinct(slots, key)
    BY DEF Distinct
  <2> HIDE DEF key, width, slots
  <2> QED
    BY <2>1, <2>2, KeysOrder
<1>6. CanonicalSlots(q, batch) = Ascending(slots, pairs)
  BY DEF CanonicalSlots
<1> HIDE DEF slots, pairs, k
<1>7. /\ CanonicalSlots(q, batch) \in [1 .. k -> slots]
      /\ \A i, j \in 1 .. k : CanonicalSlots(q, batch)[i] = CanonicalSlots(q, batch)[j] => i = j
  BY <1>3, <1>4, <1>5, <1>6, AscendingSorts
<1> QED
  BY <1>1, <1>7 DEF SlotOrders, IsInjective, k

\* A batch sorted by identity consists of operations of the request.
LEMMA SortByIdInSeq ==
  ASSUME NEW r \in Requests, NEW q \in Relaxations(r), NEW batch \in Seq(1 .. q.n)
  PROVE  SortById(q, batch) \in Seq(1 .. q.n)
<1> DEFINE p == CanonicalSlots(q, batch)
<1>1. Len(batch) \in Nat /\ DOMAIN batch = 1 .. Len(batch)
      /\ \A i \in 1 .. Len(batch) : batch[i] \in 1 .. q.n
  BY EntryOfSeq
<1>2. p \in [1 .. Len(batch) -> 1 .. Len(batch)]
  BY CanonicalSlotsOrder DEF SlotOrders
<1> HIDE DEF p
<1>3. Interleaving(batch, p) \in [1 .. Len(batch) -> 1 .. q.n]
  BY <1>1, <1>2 DEF Interleaving
<1> QED
  BY <1>1, <1>3, FunctionInSeq DEF SortById, p

\* verify_stage replays at least one order, and only orders of the slots.
LEMMA ReplayableOrders ==
  ASSUME NEW r \in Requests, NEW q \in Relaxations(r), NEW batch \in Seq(1 .. q.n)
  PROVE  \E n \in Nat \ {0} : Replayable(q, batch) \in [1 .. n -> SlotOrders(Len(batch))]
<1> DEFINE orders == Enumerated(q, batch)
           before == {e \in orders \X orders : LexLess(e[1], e[2])}
           n == Cardinality(orders)
<1>1. Len(batch) \in Nat
  BY EntryOfSeq
<1>2. orders \in SUBSET SlotOrders(Len(batch)) /\ orders # {}
  BY CanonicalSlotsOrder DEF Enumerated
<1>3. Replayable(q, batch) = Ascending(orders, before)
  BY DEF Replayable
<1> HIDE DEF orders
<1>4. IsFiniteSet(orders) /\ TotallyOrders(before, orders)
  BY <1>1, <1>2, SlotOrdersOrdered
<1> HIDE DEF before
<1>5. n \in Nat /\ Ascending(orders, before) \in [1 .. n -> orders]
  BY <1>4, AscendingSorts
<1>6. n # 0
  BY <1>2, <1>4, FS_EmptySet
<1> HIDE DEF n
<1> QED
  BY <1>2, <1>3, <1>5, <1>6

\* The operations a replay applied are counted by a natural number.
LEMMA ApplicationsInNat ==
  ASSUME NEW r, NEW basis, NEW entry, NEW seq, Len(seq) \in Nat, DOMAIN seq = 1 .. Len(seq)
  PROVE  Applications(r, basis, entry, seq) \in Nat
<1> DEFINE t == Trajectory(r, entry, seq)
           applied == {i \in DOMAIN seq :
                         /\ \A j \in 1 .. i - 1 : StepHolds(r, basis, t[j - 1], seq[j])
                         /\ Pre(r, basis, t[i - 1], seq[i])
                         /\ CanApply(r, t[i - 1], seq[i])}
<1>1. applied \in SUBSET (1 .. Len(seq))
  OBVIOUS
<1>2. Applications(r, basis, entry, seq) = Cardinality(applied)
  BY DEF Applications
<1> HIDE DEF applied
<1>3. IsFiniteSet(1 .. Len(seq))
  BY FS_Interval
<1>4. IsFiniteSet(applied)
  BY <1>1, <1>3, FS_Subset
<1> QED
  BY <1>2, <1>4, FS_CardinalityType

\* What a check of a stage that started from the budgets d leaves of them.
Charges(q, d, check) ==
  /\ check.diag \in Diagnostics
  /\ d.visits <= check.diag.visits /\ d.perms <= check.diag.perms
  /\ d.attempts = check.diag.attempts
  /\ check.verdict = "limit" =>
       check.diag.visits > q.limits.visits \/ check.diag.perms > q.limits.perms

\* A check of a stage leaves natural numbers in the budgets it charges, never gives
\* anything back, and says "limit" only when one of them has run out.
LEMMA StageCheckType ==
  ASSUME NEW r \in Requests, NEW q \in Relaxations(r), NEW batch \in Seq(1 .. q.n),
         NEW entry, NEW d \in Diagnostics
  PROVE  /\ Charges(q, d, StageCheck(q, entry, batch, d))
         /\ StageCheck(q, entry, batch, d).permutations \in Nat
<1> DEFINE orders == Replayable(q, batch)
           order(i) == Interleaving(batch, orders[i])
           charges == [i \in DOMAIN orders |-> Applications(q, entry, entry, order(i))]
           visits == Totals(d.visits, charges)
           unsafe(i) == \/ ~SafeReplay(q, entry, entry, order(i))
                        \/ Replay(q, entry, order(i)) # Replay(q, entry, order(1))
           unproven(i) == d.perms + i > q.limits.perms
           overrun(i) == visits[i] > Max({d.visits, q.limits.visits})
           stops == {i \in DOMAIN orders : unproven(i) \/ overrun(i) \/ unsafe(i)}
           last == Min(stops \cup {Len(orders)})
           spent == IF unproven(last) THEN visits[last - 1]
                    ELSE Min({visits[last], Exceeding(d.visits, q.limits.visits)})
<1>1. PICK n \in Nat \ {0} : orders \in [1 .. n -> SlotOrders(Len(batch))]
  BY ReplayableOrders
<1>2. Len(orders) = n /\ DOMAIN orders = 1 .. n
  BY <1>1, FunctionInSeq
<1>3. charges \in [1 .. n -> Nat]
  <2>1. Len(batch) \in Nat /\ DOMAIN batch = 1 .. Len(batch)
    BY EntryOfSeq
  <2>2. IsSeq(batch)
    BY DEF IsSeq
  <2> HIDE DEF orders
  <2>3. \A i \in 1 .. n : IsSeq(order(i))
    BY <2>2, InterleavingIsSeq
  <2>4. \A i \in 1 .. n : Applications(q, entry, entry, order(i)) \in Nat
    BY <2>3, SeqShape, ApplicationsInNat
  <2> HIDE DEF order
  <2> QED
    BY <1>2, <2>4
<1>4. /\ d.visits \in Nat /\ d.perms \in Nat /\ d.attempts \in Nat
      /\ q.limits.visits \in Nat /\ q.limits.perms \in Nat
  BY RequestFacts DEF Diagnostics
<1> HIDE DEF charges
<1>5. \A i \in 0 .. n : visits[i] \in Nat /\ d.visits <= visits[i]
  BY <1>3, <1>4, TotalsInNat
<1> HIDE DEF visits, unsafe
<1>6. last \in 1 .. n
  <2>1. stops \subseteq 1 .. n
    BY <1>2
  <2> HIDE DEF stops
  <2> DEFINE T == stops \cup {Len(orders)}
  <2>2. T \subseteq 1 .. n /\ T \subseteq Nat /\ T # {}
    BY <1>2, <2>1
  <2> HIDE DEF T
  <2>3. Min(T) \in 1 .. n
    BY <2>2, MinInSet
  <2> QED
    BY <2>3 DEF T
<1> HIDE DEF stops, last
<1>7. /\ spent \in Nat /\ d.visits <= spent
      /\ overrun(last) => unproven(last) \/ spent > q.limits.visits
  <2> DEFINE most == Max({d.visits, q.limits.visits})
  <2>1. most \in Nat /\ d.visits <= most /\ q.limits.visits <= most
    BY <1>4, MaxOfTwo
  <2> HIDE DEF most
  <2>2. Exceeding(d.visits, q.limits.visits) = most + 1
    BY DEF Exceeding, most
  <2>3. visits[last] \in Nat /\ d.visits <= visits[last]
    BY <1>5, <1>6
  <2> DEFINE T == {visits[last], most + 1}
  <2>4. Min(T) \in T
    <3>1. T \subseteq Nat /\ T # {}
      BY <2>1, <2>3
    <3> HIDE DEF T
    <3> QED
      BY <3>1, MinInSet
  <2>5. Min(T) = visits[last] \/ Min(T) = most + 1
    BY <2>4
  <2>6. visits[last - 1] \in Nat /\ d.visits <= visits[last - 1]
    BY <1>5, <1>6
  <2>7. spent = IF unproven(last) THEN visits[last - 1] ELSE Min(T)
    BY <2>2
  <2>8. overrun(last) <=> visits[last] > most
    BY DEF most
  <2> HIDE DEF T, spent, overrun, unproven
  <2> QED
    BY <1>4, <2>1, <2>3, <2>5, <2>6, <2>7, <2>8
<1>8. /\ StageCheck(q, entry, batch, d).permutations = last
      /\ StageCheck(q, entry, batch, d).diag = [d EXCEPT !.perms = @ + last, !.visits = spent]
      /\ StageCheck(q, entry, batch, d).verdict = "limit" => unproven(last) \/ overrun(last)
  BY DEF StageCheck, charges, visits, unsafe, stops, last
<1> DEFINE perms == d.perms + last
<1>9. last \in Nat /\ perms \in Nat /\ d.perms <= perms
      /\ (unproven(last) => perms > q.limits.perms)
  BY <1>4, <1>6
<1> HIDE DEF spent, overrun, unproven
<1>10. [d EXCEPT !.perms = @ + last, !.visits = spent]
        = [visits |-> spent, perms |-> perms, attempts |-> d.attempts]
  <2> HIDE DEF perms
  <2>1. d = [visits |-> d.visits, perms |-> d.perms, attempts |-> d.attempts]
    BY DEF Diagnostics
  <2>2. [d EXCEPT !.perms = perms]
          = [visits |-> d.visits, perms |-> perms, attempts |-> d.attempts]
    BY <2>1
  <2>3. [[visits |-> d.visits, perms |-> perms, attempts |-> d.attempts] EXCEPT !.visits = spent]
          = [visits |-> spent, perms |-> perms, attempts |-> d.attempts]
    OBVIOUS
  <2> QED
    BY <2>2, <2>3 DEF perms
<1> HIDE DEF perms
<1>11. Charges(q, d, StageCheck(q, entry, batch, d))
  BY <1>4, <1>7, <1>8, <1>9, <1>10 DEF Charges, Diagnostics
<1> QED
  BY <1>8, <1>9, <1>11

-----------------------------------------------------------------------------
(* The search                                                              *)

\* A new frame of the search has its type.
LEMMA NewFrameType ==
  ASSUME NEW r \in Requests, NEW q \in Relaxations(r), NEW how \in ToSet(Strategies),
         NEW applied, NEW state \in States
  PROVE  NewFrame(q, how, applied, state) \in Frame(q)
<1> DEFINE ready == ReadyCandidates(q, applied)
<1>1. ready \in SUBSET (1 .. q.n)
  BY DEF ReadyCandidates, Nodes
<1> HIDE DEF ready
<1>2. Cardinality(ready) \in Nat
      /\ SortReady(q, how, ready) \in [1 .. Cardinality(ready) -> ready]
  BY <1>1, SortReadyLists
<1>3. SortReady(q, how, ready) \in [1 .. Cardinality(ready) -> 1 .. q.n]
  BY <1>1, <1>2
<1>4. SortReady(q, how, ready) \in Seq(1 .. q.n)
  BY <1>2, <1>3, FunctionInSeq
<1>5. q.n \in Nat
  BY RequestFacts
<1> QED
  BY <1>4, <1>5 DEF NewFrame, Frame, ready

\* A search that starts has its type.
LEMMA StartSearchType ==
  ASSUME NEW r \in Requests, NEW q \in Relaxations(r), NEW how \in ToSet(Strategies)
  PROVE  /\ StartSearch(q, how) \in
              [stack : Seq(Frame(q)), applied : SUBSET (1 .. q.n), order : Seq(1 .. q.n),
               state : States, outcome : {"running", "found", "limit", "exhausted", "cancelled"}]
         /\ StartSearch(q, how).stack # <<>>
<1> DEFINE frame == NewFrame(q, how, {}, q.state)
<1>1. q.state \in States
  BY RequestFacts
<1>2. frame \in Frame(q)
  BY <1>1, NewFrameType
<1> HIDE DEF frame
<1>3. <<frame>> \in Seq(Frame(q)) /\ <<frame>> # <<>>
  BY <1>2
<1>4. StartSearch(q, how) = [stack |-> <<frame>>, applied |-> {}, order |-> <<>>,
                             state |-> q.state, outcome |-> "running"]
  BY DEF StartSearch, frame
<1> QED
  BY <1>1, <1>3, <1>4

\* What the steps of the search rely on.
SearchInv ==
  /\ request \in Requests /\ req \in Relaxations(request)
  /\ strategy \in ToSet(Strategies)
  /\ diag \in Diagnostics
  /\ SearchTypeOK

\* The slots the inner loop looks at are finitely many slots of the ready list, and what
\* they are charged is a natural number.
LEMMA SlotTypes ==
  ASSUME SearchInv, Running
  PROVE  /\ Top \in Frame(req) /\ Len(search.stack) \in Nat /\ Len(search.stack) # 0
         /\ Candidates \subseteq 1 .. Len(Top.ready)
         /\ Usable \subseteq Nat
         /\ \A k \in Candidates : Top.ready[k] \in 1 .. req.n
         /\ Charged \in Nat /\ diag.visits <= Charged
<1> USE DEF SearchInv
<1>1. search.stack \in Seq(Frame(req)) /\ search.stack # <<>>
  BY DEF SearchTypeOK
<1>2. Len(search.stack) \in Nat /\ Len(search.stack) # 0
  BY <1>1, EmptySeqLength
<1>3. Top \in Frame(req)
  BY <1>1, <1>2, EntryOfSeq DEF Top, Last
<1> HIDE DEF SearchInv
<1>4. Top.ready \in Seq(1 .. req.n) /\ Top.next \in Nat \ {0}
  BY <1>3 DEF Frame
<1>5. Len(Top.ready) \in Nat /\ \A k \in 1 .. Len(Top.ready) : Top.ready[k] \in 1 .. req.n
  BY <1>4, EntryOfSeq
<1>6. Candidates \subseteq 1 .. Len(Top.ready)
  BY <1>4, <1>5 DEF Candidates
<1>7. Visited \in SUBSET (1 .. Len(Top.ready)) /\ Usable \subseteq Nat
  <2>1. Visited \subseteq Candidates /\ Usable \subseteq Candidates
    BY DEF Visited, Usable
  <2> QED
    BY <1>5, <1>6, <2>1
<1>8. IsFiniteSet(Visited)
  <2>1. IsFiniteSet(1 .. Len(Top.ready))
    BY <1>5, FS_Interval
  <2> QED
    BY <1>7, <2>1, FS_Subset
<1>9. Cardinality(Visited) \in Nat
  BY <1>8, FS_CardinalityType
<1>10. Charged \in Nat /\ diag.visits <= Charged
  BY <1>9 DEF Charged, SearchInv, Diagnostics
<1> QED
  BY <1>2, <1>3, <1>5, <1>6, <1>7, <1>10

\* Every step of the search keeps its types.
LEMMA SearchStepType ==
  ASSUME SearchInv, SearchStep
  PROVE  /\ diag' \in Diagnostics /\ SearchTypeOK'
         /\ UNCHANGED <<req, strategy>>
<1> DEFINE n == req.n
           Outcomes == {"running", "found", "limit", "exhausted", "cancelled"}
<1>1. /\ search.stack \in Seq(Frame(req)) /\ search.applied \in SUBSET (1 .. n)
      /\ search.order \in Seq(1 .. n) /\ search.state \in States
      /\ search = [stack |-> search.stack, applied |-> search.applied,
                   order |-> search.order, state |-> search.state,
                   outcome |-> search.outcome]
  BY DEF SearchInv, SearchTypeOK
<1>2. /\ diag = [visits |-> diag.visits, perms |-> diag.perms, attempts |-> diag.attempts]
      /\ diag.visits \in Nat /\ diag.perms \in Nat /\ diag.attempts \in Nat
  BY DEF SearchInv, Diagnostics
<1>3. ASSUME NEW v \in Nat, diag' = [diag EXCEPT !.visits = v] PROVE diag' \in Diagnostics
  BY <1>2, <1>3 DEF Diagnostics
<1>4. ASSUME NEW o \in Outcomes \ {"running"}, search' = [search EXCEPT !.outcome = o],
             UNCHANGED req
      PROVE  SearchTypeOK'
  <2>1. search' = [stack |-> search.stack, applied |-> search.applied,
                   order |-> search.order, state |-> search.state, outcome |-> o]
    BY <1>1, <1>4
  <2> QED
    BY <1>1, <1>4, <2>1 DEF SearchTypeOK, Running
<1>5. CASE SearchCancelled
  BY <1>4, <1>5 DEF SearchCancelled, SearchInv
<1>6. CASE SearchComplete
  BY <1>4, <1>6 DEF SearchComplete, SearchInv
<1>7. CASE SearchLimit
  <2>1. Exceeding(diag.visits, req.limits.visits) \in Nat
    <3>1. req.limits.visits \in Nat
      BY RequestFacts DEF SearchInv
    <3>2. Max({diag.visits, req.limits.visits}) \in Nat
      BY <1>2, <3>1, MaxOfTwo
    <3> QED
      BY <3>2 DEF Exceeding
  <2>2. diag' \in Diagnostics
    BY <1>3, <1>7, <2>1 DEF SearchLimit
  <2> QED
    BY <1>4, <1>7, <2>2 DEF SearchLimit
<1>8. CASE SearchCommit
  <2> DEFINE slot == Min(Usable)
             o == Top.ready[slot]
             applied == search.applied \cup {o}
             state == Apply(req, search.state, o)
             closed == [Top EXCEPT
                          !.next = slot + 1,
                          !.chosen = o,
                          !.skipped = @ \cup {j \in slot + 1 .. Len(Top.ready) :
                                                Independent(req, o, Top.ready[j])}]
             frame == NewFrame(req, strategy, applied, state)
             stack == Append(Append(Front(search.stack), closed), frame)
  <2>1. /\ Running /\ UNCHANGED <<req, strategy>>
        /\ search' = [search EXCEPT !.stack = stack, !.applied = applied,
                                    !.order = Append(@, o), !.state = state]
        /\ diag' = [diag EXCEPT !.visits = Charged]
        /\ Usable # {}
    BY <1>8 DEF SearchCommit, Continues
  <2>2. /\ Top \in Frame(req) /\ Usable \subseteq Nat
        /\ \A k \in Candidates : Top.ready[k] \in 1 .. n
        /\ Charged \in Nat
    BY <2>1, SlotTypes
  <2>3. slot \in Usable /\ slot \in Candidates /\ slot \in Nat
    BY <2>1, <2>2, MinInSet DEF Usable
  <2> HIDE DEF slot
  <2>4. o \in 1 .. n
    BY <2>2, <2>3
  <2> HIDE DEF o
  <2>5. state \in States
    BY <1>1, <2>4, RequestFacts DEF SearchInv
  <2> HIDE DEF state
  <2>6. frame \in Frame(req)
    BY <2>5, NewFrameType DEF SearchInv
  <2>7. closed \in Frame(req)
    <3> DEFINE more == {j \in slot + 1 .. Len(Top.ready) : Independent(req, o, Top.ready[j])}
    <3>1. more \subseteq Nat
      <4>1. Len(Top.ready) \in Nat
        BY <2>2, EntryOfSeq DEF Frame
      <4> QED
        BY <2>3, <4>1
    <3> HIDE DEF more
    <3>2. closed = [Top EXCEPT !.next = slot + 1, !.chosen = o, !.skipped = @ \cup more]
      BY DEF more
    <3> HIDE DEF closed
    <3>3. /\ Top = [ready |-> Top.ready, skipped |-> Top.skipped, next |-> Top.next,
                    chosen |-> Top.chosen, entry |-> Top.entry]
          /\ Top.ready \in Seq(1 .. n) /\ Top.skipped \in SUBSET Nat /\ Top.entry \in States
      BY <2>2 DEF Frame
    <3>4. [[Top EXCEPT !.next = slot + 1] EXCEPT !.chosen = o]
            = [ready |-> Top.ready, skipped |-> Top.skipped, next |-> slot + 1,
               chosen |-> o, entry |-> Top.entry]
      <4>1. [Top EXCEPT !.next = slot + 1]
              = [ready |-> Top.ready, skipped |-> Top.skipped, next |-> slot + 1,
                 chosen |-> Top.chosen, entry |-> Top.entry]
        BY <3>3
      <4>2. [[ready |-> Top.ready, skipped |-> Top.skipped, next |-> slot + 1,
              chosen |-> Top.chosen, entry |-> Top.entry] EXCEPT !.chosen = o]
              = [ready |-> Top.ready, skipped |-> Top.skipped, next |-> slot + 1,
                 chosen |-> o, entry |-> Top.entry]
        OBVIOUS
      <4> QED
        BY <4>1, <4>2
    <3>5. closed = [ready |-> Top.ready, skipped |-> Top.skipped \cup more,
                    next |-> slot + 1, chosen |-> o, entry |-> Top.entry]
      BY <3>2, <3>4
    <3> QED
      BY <2>3, <2>4, <3>1, <3>3, <3>5 DEF Frame
  <2> HIDE DEF frame, closed
  <2>8. stack \in Seq(Frame(req)) /\ stack # <<>>
    <3>1. Front(search.stack) \in Seq(Frame(req))
      BY <1>1, <2>1, FrontInSeq DEF SearchTypeOK, SearchInv
    <3>2. Append(Front(search.stack), closed) \in Seq(Frame(req))
      BY <2>7, <3>1
    <3> QED
      BY <2>6, <3>2, AppendInSeq
  <2> HIDE DEF stack, applied
  <2>9. search' = [stack |-> stack, applied |-> applied, order |-> Append(search.order, o),
                   state |-> state, outcome |-> search.outcome]
    BY <1>1, <2>1
  <2>10. applied \in SUBSET (1 .. n) /\ Append(search.order, o) \in Seq(1 .. n)
    BY <1>1, <2>4, AppendInSeq DEF applied
  <2>11. SearchTypeOK'
    BY <2>1, <2>5, <2>8, <2>9, <2>10 DEF SearchTypeOK, Running
  <2>12. diag' \in Diagnostics
    BY <1>3, <2>1, <2>2
  <2> QED
    BY <2>1, <2>11, <2>12
<1>9. CASE SearchBacktrack
  <2> DEFINE outcome == IF Len(search.stack) = 1 THEN "exhausted" ELSE search.outcome
             order == IF Top.chosen = 0 THEN search.order ELSE Front(search.order)
  <2>1. /\ Running /\ UNCHANGED <<req, strategy>>
        /\ search' = [search EXCEPT !.stack = Front(@), !.state = Top.entry,
                                    !.applied = @ \ {Top.chosen}, !.order = order,
                                    !.outcome = outcome]
        /\ diag' = [diag EXCEPT !.visits = Charged]
    BY <1>9 DEF SearchBacktrack, Continues
  <2>2. /\ Top \in Frame(req) /\ Charged \in Nat
        /\ Len(search.stack) \in Nat /\ Len(search.stack) # 0
    BY <2>1, SlotTypes
  <2>3. /\ Front(search.stack) \in Seq(Frame(req))
        /\ Len(Front(search.stack)) = Len(search.stack) - 1
    BY <1>1, <2>2, FrontInSeq
  <2>4. order \in Seq(1 .. n)
    BY <1>1, FrontInSeq
  <2>5. outcome \in Outcomes /\ (outcome = "running" => Front(search.stack) # <<>>)
    <3>1. search.outcome \in Outcomes
      BY DEF SearchInv, SearchTypeOK
    <3>2. CASE Len(search.stack) = 1
      BY <3>2
    <3>3. CASE Len(search.stack) # 1
      <4>1. Front(search.stack) # <<>>
        <5> DEFINE front == Front(search.stack)
        <5>1. front \in Seq(Frame(req)) /\ Len(front) # 0
          BY <2>2, <2>3, <3>3
        <5> HIDE DEF front
        <5> QED
          BY <5>1, EmptySeqLength DEF front
      <4> QED
        BY <3>1, <3>3, <4>1
    <3> QED
      BY <3>2, <3>3
  <2> HIDE DEF order, outcome
  <2>6. search' = [stack |-> Front(search.stack), applied |-> search.applied \ {Top.chosen},
                   order |-> order, state |-> Top.entry, outcome |-> outcome]
    BY <1>1, <2>1
  <2>7. SearchTypeOK'
    <3>1. Top.entry \in States
      BY <2>2 DEF Frame
    <3>2. /\ search'.stack = Front(search.stack) /\ search'.applied = search.applied \ {Top.chosen}
          /\ search'.order = order /\ search'.state = Top.entry /\ search'.outcome = outcome
      BY <2>6
    <3>3. /\ search.applied \ {Top.chosen} \subseteq 1 .. n /\ req' = req
      BY <1>1, <2>1
    <3>4. search' \in [stack : Seq(Frame(req)), applied : SUBSET (1 .. n), order : Seq(1 .. n),
                       state : States, outcome : Outcomes]
      BY <2>3, <2>4, <2>5, <2>6, <3>1, <3>3
    <3>5. Running' => search'.stack # <<>>
      BY <2>5, <3>2 DEF Running
    <3> QED
      BY <3>3, <3>4, <3>5 DEF SearchTypeOK
  <2>8. diag' \in Diagnostics
    BY <1>3, <2>1, <2>2
  <2> QED
    BY <2>1, <2>7, <2>8
<1> QED
  BY <1>5, <1>6, <1>7, <1>8, <1>9 DEF SearchStep

-----------------------------------------------------------------------------
(* The call                                                                *)

\* What an attempt works on has its type.
WorkTypeOK ==
  /\ req \in Relaxations(request)
  /\ strategy \in ToSet(Strategies)
  /\ diag \in Diagnostics
  /\ SearchTypeOK
  /\ ScheduleTypeOK

\* The candidate counter and the core minimisation.
ControlTypeOK ==
  /\ phase \in Phases /\ stop \in BOOLEAN
  /\ pick.candidate \in 1 .. 5 /\ pick.limit \in BOOLEAN
  /\ core.mode \in {"off", "grow", "shrink"} /\ core.attempts \in Nat
  /\ phase \in {"search", "compress", "verify", "replay"} => pick.candidate \in 1 .. 4

\* The inductive invariant of the types: a candidate that is being worked on is one of
\* the four, and an operation that has to be split off has not been staged yet.
TypeInv ==
  /\ PlannerInv
  /\ WorkTypeOK
  /\ ControlTypeOK
  /\ phase = "compress" /\ sched.at = "split" => sched.pos <= Len(search.order)

\* There are four strategies.
LEMMA FourStrategies ==
  /\ Len(Strategies) = 4
  /\ \A i \in 1 .. 4 : Strategies[i] \in ToSet(Strategies)
  BY DEF Strategies, ToSet

\* TypeInv is stronger than TypeOK.
LEMMA TypeInvIsTypeOK == TypeInv => TypeOK
<1> SUFFICES ASSUME TypeInv PROVE TypeOK
  OBVIOUS
<1>1. (phase = "done") = (result # Nothing)
  BY DEF TypeInv, PlannerInv, Verified, Nothing
<1> QED
  BY <1>1, FourStrategies DEF TypeInv, WorkTypeOK, ControlTypeOK, TypeOK

\* An empty schedule has its type.
LEMMA NoScheduleType ==
  ASSUME NEW r \in Requests, req \in Relaxations(r)
  PROVE  NoSchedule \in [pos : Nat \ {0}, batch : Seq(1 .. req.n),
                         at : {"next", "split", "single"}, state : States,
                         stages : Seq([steps : Seq(1 .. req.n), basis : States,
                                       permutations : Nat])]
<1>1. req.state \in States
  BY RequestFacts
<1>2. \A S : <<>> \in Seq(S)
  OBVIOUS
<1> QED
  BY <1>1, <1>2 DEF NoSchedule

\* TypeInv holds when generate_plan is entered.
LEMMA InitTypeInv == Init => TypeInv
<1> SUFFICES ASSUME Init PROVE TypeInv
  OBVIOUS
<1>1. request \in Requests /\ req = request /\ req \in Relaxations(request)
  BY RequestAssumption DEF Init
<1>2. strategy \in ToSet(Strategies)
  BY FourStrategies DEF Init
<1>3. SearchTypeOK
  <2>1. search = StartSearch(req, strategy)
    BY DEF Init
  <2> QED
    BY <1>1, <1>2, <2>1, StartSearchType DEF SearchTypeOK
<1>4. ScheduleTypeOK
  BY <1>1, NoScheduleType DEF Init, ScheduleTypeOK
<1>5. diag \in Diagnostics
  BY DEF Init, NoDiag, Diagnostics
<1>6. ControlTypeOK /\ phase = "admit"
  <2>1. /\ phase = "admit" /\ stop = FALSE
        /\ pick.candidate = 1 /\ pick.limit = FALSE
        /\ core.mode = "off" /\ core.attempts = 0
    BY DEF Init, NoPick, NoCore
  <2>2. stop \in BOOLEAN /\ pick.limit \in BOOLEAN
    BY <2>1
  <2>3. pick.candidate \in 1 .. 4 /\ pick.candidate \in 1 .. 5 /\ core.attempts \in Nat
    BY <2>1
  <2> QED
    BY <2>1, <2>2, <2>3 DEF ControlTypeOK, Phases
<1> QED
  BY <1>1, <1>2, <1>3, <1>4, <1>5, <1>6, InitPlannerInv DEF TypeInv, WorkTypeOK

\* Flushing a batch keeps the type of the schedule.
LEMMA FlushType ==
  ASSUME request \in Requests, req \in Relaxations(request), ScheduleTypeOK,
         NEW permutations \in Nat, NEW batch \in Seq(1 .. req.n),
         NEW at \in {"next", "split", "single"}, UNCHANGED req,
         Flush(permutations, batch, at)
  PROVE  ScheduleTypeOK' /\ sched'.at = at
<1> DEFINE n == req.n
           Stage == [steps : Seq(1 .. n), basis : States, permutations : Nat]
           steps == SortById(req, sched.batch)
           stage == [steps |-> steps, basis |-> sched.state, permutations |-> permutations]
           state == Replay(req, sched.state, steps)
<1>1. /\ sched = [pos |-> sched.pos, batch |-> sched.batch, at |-> sched.at,
                  state |-> sched.state, stages |-> sched.stages]
      /\ sched.pos \in Nat \ {0} /\ sched.batch \in Seq(1 .. n) /\ sched.state \in States
      /\ sched.stages \in Seq(Stage)
  BY DEF ScheduleTypeOK
<1>2. steps \in Seq(1 .. n)
  BY <1>1, SortByIdInSeq
<1> HIDE DEF steps
<1>3. stage \in Stage
  BY <1>1, <1>2
<1>4. state \in States
  BY <1>1, <1>2, ReplayInStates
<1>5. sched' = [sched EXCEPT !.batch = batch, !.at = at, !.state = state,
                             !.stages = Append(@, stage)]
  BY DEF Flush, steps
<1> HIDE DEF stage, state
<1>6. sched' = [pos |-> sched.pos, batch |-> batch, at |-> at, state |-> state,
                stages |-> Append(sched.stages, stage)]
  BY <1>1, <1>5
<1>7. Append(sched.stages, stage) \in Seq(Stage)
  <2> HIDE DEF Stage
  <2> QED
    BY <1>1, <1>3, AppendInSeq
<1> QED
  BY <1>1, <1>4, <1>6, <1>7 DEF ScheduleTypeOK

-----------------------------------------------------------------------------
\* A step that leaves the attempt and its schedule alone keeps their types.
LEMMA WorkUnchanged ==
  ASSUME WorkTypeOK, UNCHANGED <<searchVars, request, sched>>
  PROVE  WorkTypeOK'
  BY DEF WorkTypeOK, searchVars, SearchTypeOK, ScheduleTypeOK, Running

\* A trial of the core minimisation changes which obligations are enforced, and nothing
\* the types depend on.
LEMMA TrialKeepsTypes ==
  ASSUME request \in Requests, WorkTypeOK, NEW disabled, req' = Relaxed(request, disabled),
         UNCHANGED <<strategy, diag, search, request, sched>>
  PROVE  WorkTypeOK'
<1>1. req' \in Relaxations(request)
  BY DEF Relaxed, Relaxations
<1>2. req'.n = request.n /\ req.n = request.n
  BY <1>1, RequestFacts DEF WorkTypeOK
<1>3. Frame(req') = Frame(req)
  BY <1>2 DEF Frame
<1>4. SearchTypeOK'
  BY <1>2, <1>3 DEF WorkTypeOK, SearchTypeOK, Running
<1>5. ScheduleTypeOK'
  BY <1>2 DEF WorkTypeOK, ScheduleTypeOK
<1> QED
  BY <1>1, <1>4, <1>5 DEF WorkTypeOK

\* A rejected candidate is followed by the next one.
LEMMA RejectType ==
  ASSUME PlannerInv, ControlTypeOK, NEW limit \in BOOLEAN, RejectCandidate(limit),
         pick.candidate \in 1 .. 4, UNCHANGED <<stop, core>>
  PROVE  ControlTypeOK' /\ phase' = "candidate"
<1>1. pick' = [candidate |-> pick.candidate + 1, limit |-> pick.limit \/ limit,
               best |-> pick.best, verified |-> pick.verified]
  BY DEF RejectCandidate, PlannerInv
<1>2. pick'.candidate \in 1 .. 5
  BY <1>1
<1>3. pick'.limit \in BOOLEAN
  BY <1>1
<1> QED
  BY <1>2, <1>3 DEF RejectCandidate, ControlTypeOK, Phases

\* The conditions on the control part that most steps satisfy at once.
LEMMA ControlMoves ==
  ASSUME ControlTypeOK, UNCHANGED <<stop, pick, core>>,
         phase' \in Phases \ {"search", "compress", "verify", "replay"}
         \/ (phase' \in {"search", "compress", "verify", "replay"} /\ pick.candidate \in 1 .. 4)
  PROVE  ControlTypeOK'
  BY DEF ControlTypeOK, Phases

\* A step of the compression charges the budgets and moves the schedule.
LEMMA CompressKeepsTypes ==
  ASSUME WorkTypeOK, UNCHANGED <<req, strategy, search, request>>, diag' \in Diagnostics,
         ScheduleTypeOK' \/ UNCHANGED sched
  PROVE  WorkTypeOK'
<1>1. SearchTypeOK'
  BY DEF WorkTypeOK, SearchTypeOK, Running
<1>2. ScheduleTypeOK'
  BY DEF WorkTypeOK, ScheduleTypeOK
<1> QED
  BY <1>1, <1>2 DEF WorkTypeOK

\* What a check of a batch of operations returns.
LEMMA CheckType ==
  ASSUME request \in Requests, WorkTypeOK, NEW batch \in Seq(1 .. req.n)
  PROVE  /\ Check(batch).diag \in Diagnostics /\ Check(batch).permutations \in Nat
         /\ Charges(req, diag, Check(batch))
  BY StageCheckType DEF WorkTypeOK, Check, Charges

\* The parts of the schedule, and the operation it is at.
LEMMA ScheduleParts ==
  ASSUME WorkTypeOK
  PROVE  /\ sched = [pos |-> sched.pos, batch |-> sched.batch, at |-> sched.at,
                     state |-> sched.state, stages |-> sched.stages]
         /\ sched.pos \in Nat \ {0} /\ sched.batch \in Seq(1 .. req.n)
         /\ sched.pos <= Len(search.order) => Operation \in 1 .. req.n
<1>1. sched.pos \in Nat \ {0} /\ search.order \in Seq(1 .. req.n)
  BY DEF WorkTypeOK, ScheduleTypeOK, SearchTypeOK
<1>2. sched.pos <= Len(search.order) => Operation \in 1 .. req.n
  <2> DEFINE S == 1 .. req.n
  <2>1. search.order \in Seq(S)
    BY <1>1
  <2> HIDE DEF S
  <2>2. Len(search.order) \in Nat /\ \A i \in 1 .. Len(search.order) : search.order[i] \in S
    BY <2>1, EntryOfSeq
  <2>3. sched.pos <= Len(search.order) => search.order[sched.pos] \in S
    BY <1>1, <2>2
  <2> QED
    BY <2>3 DEF Operation, S
<1> QED
  BY <1>1, <1>2 DEF WorkTypeOK, ScheduleTypeOK

\* What the four actions of the compression have to show.
CompressGoal == WorkTypeOK' /\ ControlTypeOK'
                /\ (phase' = "compress" /\ sched'.at = "split" => sched'.pos <= Len(search'.order))

\* A rejected candidate ends the compression.
LEMMA CompressRejects ==
  ASSUME TypeInv, phase = "compress", compressUnchanged, diag' \in Diagnostics,
         NEW limit \in BOOLEAN, RejectCandidate(limit), UNCHANGED sched
  PROVE  CompressGoal
<1>1. WorkTypeOK'
  BY CompressKeepsTypes DEF TypeInv, compressUnchanged
<1>2. ControlTypeOK' /\ phase' = "candidate"
  <2>1. pick.candidate \in 1 .. 4
    BY DEF TypeInv, ControlTypeOK
  <2> QED
    BY <2>1, RejectType DEF TypeInv, compressUnchanged
<1> QED
  BY <1>1, <1>2 DEF CompressGoal

\* Flushing a verified batch goes on with the compression, or ends it.
LEMMA CompressFlushes ==
  ASSUME TypeInv, phase = "compress", compressUnchanged, diag' \in Diagnostics,
         NEW permutations \in Nat, NEW batch \in Seq(1 .. req.n), NEW at \in {"next", "single"},
         Flush(permutations, batch, at), phase' \in {"compress", "verify"}, UNCHANGED pick
  PROVE  CompressGoal
<1>1. ScheduleTypeOK' /\ sched'.at = at
  BY FlushType DEF TypeInv, PlannerInv, WorkTypeOK, compressUnchanged
<1>2. WorkTypeOK'
  BY <1>1, CompressKeepsTypes DEF TypeInv, compressUnchanged
<1>3. ControlTypeOK'
  BY DEF TypeInv, ControlTypeOK, Phases, compressUnchanged
<1> QED
  BY <1>1, <1>2, <1>3 DEF CompressGoal

\* The actions of the compression keep the types.
LEMMA CompressType ==
  ASSUME TypeInv, FlushBatch \/ JoinBatch \/ SplitBatch \/ CheckSingle \/ FlushLast
  PROVE  CompressGoal
<1>1. request \in Requests /\ WorkTypeOK /\ req \in Relaxations(request)
  BY DEF TypeInv, PlannerInv, WorkTypeOK
<1>2. phase = "compress" /\ compressUnchanged
  BY DEF FlushBatch, JoinBatch, SplitBatch, CheckSingle, FlushLast, Compressing
<1>3. Check(sched.batch).diag \in Diagnostics /\ Check(sched.batch).permutations \in Nat
  BY <1>1, ScheduleParts, CheckType
<1>4. <<>> \in Seq(1 .. req.n)
  OBVIOUS
<1>5. CASE FlushBatch
  <2>1. CASE Check(sched.batch).verdict = "ok"
    BY <1>2, <1>3, <1>4, <1>5, <2>1, CompressFlushes DEF FlushBatch
  <2>2. CASE Check(sched.batch).verdict # "ok"
    BY <1>2, <1>3, <1>5, <2>2, CompressRejects DEF FlushBatch
  <2> QED
    BY <2>1, <2>2
<1>6. CASE JoinBatch
  <2> DEFINE trial == Append(sched.batch, Operation)
  <2>1. trial \in Seq(1 .. req.n)
    BY <1>1, <1>6, ScheduleParts, AppendInSeq DEF JoinBatch, Pending
  <2>2. Check(trial).diag \in Diagnostics
    BY <1>1, <2>1, CheckType
  <2>3. CASE Check(trial).verdict = "ok"
    <3>1. /\ diag' = Check(trial).diag /\ sched' = [sched EXCEPT !.batch = trial, !.pos = @ + 1]
          /\ UNCHANGED <<phase, pick>>
      BY <1>6, <2>3 DEF JoinBatch
    <3> HIDE DEF trial
    <3>2. [[sched EXCEPT !.batch = trial] EXCEPT !.pos = sched.pos + 1]
            = [pos |-> sched.pos + 1, batch |-> trial, at |-> sched.at,
               state |-> sched.state, stages |-> sched.stages]
      <4>1. [sched EXCEPT !.batch = trial]
              = [pos |-> sched.pos, batch |-> trial, at |-> sched.at,
                 state |-> sched.state, stages |-> sched.stages]
        BY <1>1, ScheduleParts
      <4>2. [[pos |-> sched.pos, batch |-> trial, at |-> sched.at,
              state |-> sched.state, stages |-> sched.stages] EXCEPT !.pos = sched.pos + 1]
              = [pos |-> sched.pos + 1, batch |-> trial, at |-> sched.at,
                 state |-> sched.state, stages |-> sched.stages]
        OBVIOUS
      <4> QED
        BY <4>1, <4>2
    <3>3. sched' = [pos |-> sched.pos + 1, batch |-> trial, at |-> sched.at,
                    state |-> sched.state, stages |-> sched.stages]
      BY <1>1, <3>1, <3>2, ScheduleParts
    <3>4. ScheduleTypeOK' /\ sched'.at = "next"
      BY <1>1, <1>2, <1>6, <2>1, <3>3
         DEF WorkTypeOK, ScheduleTypeOK, compressUnchanged, JoinBatch, Compressing
    <3>5. WorkTypeOK'
      BY <1>1, <1>2, <2>2, <3>1, <3>4, CompressKeepsTypes DEF compressUnchanged
    <3>6. ControlTypeOK'
      BY <1>2, <3>1 DEF TypeInv, ControlTypeOK, Phases, compressUnchanged
    <3> QED
      BY <3>4, <3>5, <3>6 DEF CompressGoal
  <2>4. CASE Check(trial).verdict = "unsafe" /\ sched.batch # <<>>
    <3>1. /\ diag' = Check(trial).diag /\ sched' = [sched EXCEPT !.at = "split"]
          /\ UNCHANGED <<phase, pick>> /\ sched.pos <= Len(search.order)
      BY <1>6, <2>4 DEF JoinBatch, Pending
    <3> HIDE DEF trial
    <3>2. sched' = [pos |-> sched.pos, batch |-> sched.batch, at |-> "split",
                    state |-> sched.state, stages |-> sched.stages]
      BY <1>1, <3>1, ScheduleParts
    <3>3. ScheduleTypeOK' /\ sched'.pos <= Len(search'.order)
      BY <1>1, <1>2, <3>1, <3>2 DEF WorkTypeOK, ScheduleTypeOK, compressUnchanged
    <3>4. WorkTypeOK'
      BY <1>1, <1>2, <2>2, <3>1, <3>3, CompressKeepsTypes DEF compressUnchanged
    <3>5. ControlTypeOK'
      BY <1>2, <3>1 DEF TypeInv, ControlTypeOK, Phases, compressUnchanged
    <3> QED
      BY <3>3, <3>4, <3>5 DEF CompressGoal
  <2>5. CASE /\ Check(trial).verdict # "ok"
             /\ ~(Check(trial).verdict = "unsafe" /\ sched.batch # <<>>)
    <3>1. /\ diag' = Check(trial).diag /\ UNCHANGED sched
          /\ RejectCandidate(Check(trial).verdict = "limit")
      BY <1>6, <2>5 DEF JoinBatch
    <3> HIDE DEF trial
    <3>2. (Check(trial).verdict = "limit") \in BOOLEAN
      OBVIOUS
    <3> QED
      BY <1>2, <2>2, <3>1, <3>2, CompressRejects
  <2> QED
    BY <2>3, <2>4, <2>5
<1>7. CASE SplitBatch
  <2>1. <<Operation>> \in Seq(1 .. req.n)
    <3>1. Operation \in 1 .. req.n
      BY <1>1, <1>7, ScheduleParts DEF SplitBatch, Compressing, TypeInv
    <3> QED
      BY <3>1
  <2>2. CASE Check(sched.batch).verdict = "ok"
    BY <1>2, <1>3, <1>7, <2>1, <2>2, CompressFlushes DEF SplitBatch
  <2>3. CASE Check(sched.batch).verdict # "ok"
    BY <1>2, <1>3, <1>7, <2>3, CompressRejects DEF SplitBatch
  <2> QED
    BY <2>2, <2>3
<1>8. CASE CheckSingle
  <2>1. CASE Check(sched.batch).verdict = "ok"
    <3>1. /\ diag' = Check(sched.batch).diag /\ UNCHANGED <<phase, pick>>
          /\ sched' = [[sched EXCEPT !.pos = sched.pos + 1] EXCEPT !.at = "next"]
      BY <1>8, <2>1 DEF CheckSingle
    <3>2. [sched EXCEPT !.pos = sched.pos + 1]
            = [pos |-> sched.pos + 1, batch |-> sched.batch, at |-> sched.at,
               state |-> sched.state, stages |-> sched.stages]
      BY <1>1, ScheduleParts
    <3>3. sched' = [pos |-> sched.pos + 1, batch |-> sched.batch, at |-> "next",
                    state |-> sched.state, stages |-> sched.stages]
      BY <3>1, <3>2
    <3>4. ScheduleTypeOK' /\ sched'.at = "next"
      BY <1>1, <1>2, <3>3 DEF WorkTypeOK, ScheduleTypeOK, compressUnchanged
    <3>5. WorkTypeOK'
      BY <1>1, <1>2, <1>3, <3>1, <3>4, CompressKeepsTypes DEF compressUnchanged
    <3>6. ControlTypeOK'
      BY <1>2, <3>1 DEF TypeInv, ControlTypeOK, Phases, compressUnchanged
    <3> QED
      BY <3>4, <3>5, <3>6 DEF CompressGoal
  <2>2. CASE Check(sched.batch).verdict # "ok"
    BY <1>2, <1>3, <1>8, <2>2, CompressRejects DEF CheckSingle
  <2> QED
    BY <2>1, <2>2
<1>9. CASE FlushLast
  <2>1. CASE Check(sched.batch).verdict = "ok"
    BY <1>2, <1>3, <1>4, <1>9, <2>1, CompressFlushes DEF FlushLast
  <2>2. CASE Check(sched.batch).verdict # "ok"
    BY <1>2, <1>3, <1>9, <2>2, CompressRejects DEF FlushLast
  <2> QED
    BY <2>1, <2>2
<1> QED
  BY <1>5, <1>6, <1>7, <1>8, <1>9

-----------------------------------------------------------------------------
\* Every step of the planner and of its caller preserves TypeInv.
LEMMA NextTypeInv == TypeInv /\ [Next]_vars => TypeInv'
<1> SUFFICES ASSUME TypeInv, [Next]_vars PROVE TypeInv'
  OBVIOUS
<1>1. PlannerInv' /\ PlannerInv /\ WorkTypeOK /\ ControlTypeOK
      /\ request \in Requests /\ req \in Relaxations(request)
  BY NextPlannerInv DEF TypeInv, PlannerInv, WorkTypeOK
<1>2. ASSUME UNCHANGED <<searchVars, request, sched>>, ControlTypeOK', phase' # "compress"
      PROVE  TypeInv'
  BY <1>1, <1>2, WorkUnchanged DEF TypeInv
<1>3. ASSUME UNCHANGED <<searchVars, request, pick, sched, core>>,
             phase' \in {"begin", "candidate", "settle", "core", "done"}
      PROVE  TypeInv'
  <2>1. ControlTypeOK'
    BY <1>1, <1>3, ControlMoves DEF Phases, searchVars
  <2> QED
    BY <1>2, <1>3, <2>1
<1>4. CASE Admit
  BY <1>3, <1>4 DEF Admit
<1>5. CASE RefuseInput
  BY <1>3, <1>5 DEF RefuseInput, Return
<1>6. CASE AttemptScheduled
  <2>1. pick' = NoPick
    BY <1>6 DEF AttemptScheduled
  <2>2. pick'.candidate \in 1 .. 5 /\ pick'.limit \in BOOLEAN
    <3>1. NoPick.candidate = 1
      BY DEF NoPick
    <3>2. NoPick.limit \in BOOLEAN
      BY DEF NoPick
    <3> QED
      BY <2>1, <3>1, <3>2
  <2>3. ControlTypeOK'
    BY <1>1, <1>6, <2>2 DEF AttemptScheduled, ControlTypeOK, Phases, searchVars
  <2> QED
    BY <1>2, <1>6, <2>3 DEF AttemptScheduled
<1>7. CASE AttemptConverged
  BY <1>3, <1>7 DEF AttemptConverged, EndAttempt
<1>8. CASE AttemptBarred
  BY <1>3, <1>8 DEF AttemptBarred, EndAttempt
<1>9. CASE LoopEnds
  BY <1>3, <1>9 DEF LoopEnds, EndAttempt
<1>10. CASE LoopCancelled
  BY <1>3, <1>10 DEF LoopCancelled, EndAttempt
<1>11. CASE LoopOutOfAttempts
  BY <1>3, <1>11 DEF LoopOutOfAttempts, EndAttempt
<1>12. CASE StartCandidate
  <2>1. pick.candidate \in 1 .. 4
    <3>1. CandidateCount <= 4 /\ CandidateCount \in Int
      <4>1. CASE core.mode = "off"
        <5> DEFINE T == {req.limits.candidates, 4}
        <5>1. T \subseteq Nat /\ 4 \in T
          BY <1>1, RequestFacts
        <5>2. CandidateCount = Min(T)
          BY <4>1, FourStrategies DEF CandidateCount
        <5> HIDE DEF T
        <5>3. Min(T) \in Nat /\ Min(T) <= 4
          BY <5>1, MinInSet
        <5> QED
          BY <5>2, <5>3
      <4>2. CASE core.mode # "off"
        BY <4>2 DEF CandidateCount
      <4> QED
        BY <4>1, <4>2
    <3> QED
      BY <1>1, <1>12, <3>1 DEF StartCandidate, MoreCandidates, ControlTypeOK
  <2>2. strategy' \in ToSet(Strategies)
    BY <1>12, <2>1, FourStrategies DEF StartCandidate
  <2>3. search' = StartSearch(req, strategy') /\ UNCHANGED <<req, request, sched>>
    BY <1>12 DEF StartCandidate
  <2>4. SearchTypeOK'
    BY <1>1, <2>2, <2>3, StartSearchType DEF SearchTypeOK
  <2>5. diag' \in Diagnostics
    <3>1. /\ diag = [visits |-> diag.visits, perms |-> diag.perms, attempts |-> diag.attempts]
          /\ diag.visits \in Nat /\ diag.perms \in Nat /\ diag.attempts \in Nat
      BY <1>1 DEF WorkTypeOK, Diagnostics
    <3> QED
      BY <1>12, <3>1 DEF StartCandidate, Diagnostics
  <2>6. WorkTypeOK'
    BY <1>1, <2>2, <2>3, <2>4, <2>5 DEF WorkTypeOK, ScheduleTypeOK
  <2>7. ControlTypeOK' /\ phase' = "search"
    BY <1>1, <1>12, <2>1, ControlMoves DEF StartCandidate
  <2> QED
    BY <1>1, <2>6, <2>7 DEF TypeInv
<1>13. CASE Searching
  <2>1. SearchInv /\ SearchStep /\ UNCHANGED <<request, phase, pick, sched, core>>
        /\ phase = "search"
    BY <1>1, <1>13 DEF Searching, SearchInv, WorkTypeOK
  <2>2. diag' \in Diagnostics /\ SearchTypeOK' /\ UNCHANGED <<req, strategy>>
    BY <2>1, SearchStepType
  <2>3. WorkTypeOK'
    BY <1>1, <2>1, <2>2 DEF WorkTypeOK, ScheduleTypeOK
  <2>4. UNCHANGED stop
    BY <2>1 DEF SearchStep, SearchCancelled, SearchComplete, SearchLimit, SearchCommit,
                SearchBacktrack
  <2>5. ControlTypeOK'
    BY <1>1, <2>1, <2>4 DEF ControlTypeOK
  <2> QED
    BY <1>1, <2>1, <2>3, <2>5 DEF TypeInv
<1>14. CASE OrderFound
  <2>1. UNCHANGED <<searchVars, request, pick, core>> /\ sched' = NoSchedule
        /\ phase = "search" /\ phase' = "compress"
    BY <1>14 DEF OrderFound
  <2>2. ScheduleTypeOK' /\ sched'.at = "next"
    <3>1. sched'.at = "next" /\ req' = req
      BY <2>1 DEF NoSchedule, searchVars
    <3> QED
      BY <1>1, <2>1, <3>1, NoScheduleType DEF ScheduleTypeOK
  <2>3. WorkTypeOK'
    BY <1>1, <2>1, <2>2 DEF WorkTypeOK, SearchTypeOK, Running, searchVars
  <2>4. ControlTypeOK'
    BY <1>1, <2>1, ControlMoves DEF ControlTypeOK, searchVars
  <2> QED
    BY <1>1, <2>2, <2>3, <2>4 DEF TypeInv
<1>15. CASE SearchStopped
  BY <1>3, <1>15 DEF SearchStopped, EndAttempt
<1>16. ASSUME NEW limit \in BOOLEAN, RejectCandidate(limit),
              phase \in {"search", "verify", "replay"},
              UNCHANGED <<searchVars, request, sched, core>>
       PROVE  TypeInv'
  <2>1. pick.candidate \in 1 .. 4
    BY <1>1, <1>16 DEF ControlTypeOK
  <2>2. ControlTypeOK' /\ phase' = "candidate"
    BY <1>1, <1>16, <2>1, RejectType DEF searchVars
  <2> QED
    BY <1>2, <1>16, <2>2
<1>17. CASE OrderMissing
  <2>1. (search.outcome = "limit") \in BOOLEAN
    OBVIOUS
  <2> QED
    BY <1>16, <1>17, <2>1 DEF OrderMissing
<1>18. CASE FlushBatch \/ JoinBatch \/ SplitBatch \/ CheckSingle \/ FlushLast
  BY <1>1, <1>18, CompressType DEF CompressGoal, TypeInv
<1>19. ASSUME phase \in {"verify", "replay"}, phase' \in {"verify", "replay"},
              UNCHANGED <<searchVars, request, sched, pick, core>>
       PROVE  TypeInv'
  <2>1. ControlTypeOK'
    BY <1>1, <1>19, ControlMoves DEF ControlTypeOK, searchVars
  <2> QED
    BY <1>2, <1>19, <2>1
<1>20. CASE VerifyStructure
  BY <1>16, <1>19, <1>20 DEF VerifyStructure
<1>21. CASE VerifyStage
  BY <1>16, <1>19, <1>21 DEF VerifyStage
<1>22. CASE SelectPlan
  <2>1. pick'.candidate = pick.candidate + 1 /\ pick'.limit = pick.limit
        /\ UNCHANGED <<searchVars, request, sched, core>>
        /\ phase = "replay" /\ phase' = "candidate"
    BY <1>1, <1>22 DEF SelectPlan, PlannerInv
  <2>2. ControlTypeOK'
    BY <1>1, <2>1 DEF ControlTypeOK, Phases, searchVars
  <2> QED
    BY <1>2, <2>1, <2>2
<1>23. ASSUME core'.mode \in {"off", "grow", "shrink"}, core'.attempts \in Nat,
              phase' \in {"begin", "core", "done"}, UNCHANGED <<stop, pick>>
       PROVE  ControlTypeOK'
  BY <1>1, <1>23 DEF ControlTypeOK, Phases
<1>24. ASSUME core'.mode \in {"off", "grow", "shrink"}, core'.attempts \in Nat,
              phase' \in {"begin", "core", "done"},
              UNCHANGED <<searchVars, request, sched, pick>>
       PROVE  TypeInv'
  BY <1>2, <1>23, <1>24 DEF searchVars
<1>25. /\ core.mode \in {"off", "grow", "shrink"} /\ core.attempts \in Nat
       /\ core = [mode |-> core.mode, disabled |-> core.disabled, trial |-> core.trial,
                  next |-> core.next, attempts |-> core.attempts, code |-> core.code]
  BY <1>1 DEF ControlTypeOK, PlannerInv
<1>26. CASE SettleMain
  <2>1. \/ /\ UNCHANGED <<searchVars, request, sched, pick, core>>
           /\ phase' = "done"
        \/ /\ UNCHANGED <<searchVars, request, sched, pick>> /\ phase' = "core"
           /\ core' = [NoCore EXCEPT !.mode = "grow", !.code = attempt.code]
    BY <1>26 DEF SettleMain, Return
  <2>2. CASE phase' = "done"
    BY <1>24, <1>25, <2>1, <2>2
  <2>3. CASE phase' # "done"
    <3>1. core'.mode = "grow" /\ core'.attempts = 0
      BY <2>1, <2>3 DEF NoCore
    <3> QED
      BY <1>24, <2>1, <2>3, <3>1
  <2> QED
    BY <2>2, <2>3
<1>27. ASSUME NEW disabled, NEW next, TryWithout(disabled, next), coreUnchanged
       PROVE  TypeInv'
  <2>1. AttemptBound \in Nat
    <3>1. IsFiniteSet(request.enforced) /\ request.limits.core \in Nat
      BY <1>1, RequestAssumption
    <3> QED
      BY <3>1, FS_CardinalityType DEF AttemptBound
  <2> DEFINE T == {core.attempts + 1, AttemptBound}
  <2>2. Min(T) \in Nat
    <3>1. T \subseteq Nat /\ T # {}
      BY <1>25, <2>1
    <3> HIDE DEF T
    <3> QED
      BY <3>1, MinInSet
  <2>3. core' = [[[core EXCEPT !.trial = disabled] EXCEPT !.next = next]
                    EXCEPT !.attempts = Min(T)]
        /\ phase' = "begin" /\ req' = Relaxed(request, disabled)
    BY <1>27 DEF TryWithout
  <2> HIDE DEF T
  <2>4. core'.mode = core.mode /\ core'.attempts = Min(T)
    BY <1>25, <2>3
  <2>5. ControlTypeOK'
    BY <1>23, <1>25, <1>27, <2>2, <2>3, <2>4 DEF coreUnchanged
  <2>6. WorkTypeOK'
    BY <1>1, <1>27, <2>3, TrialKeepsTypes DEF coreUnchanged
  <2> QED
    BY <1>1, <2>3, <2>5, <2>6 DEF TypeInv
<1>28. CASE GrowCore
  BY <1>27, <1>28 DEF GrowCore
<1>29. CASE ShrinkCore
  BY <1>27, <1>29 DEF ShrinkCore
<1>30. CASE GrowthEnds
  <2>1. core'.mode \in {"off", "grow", "shrink"} /\ core'.attempts = core.attempts
        /\ phase' \in {"core", "done"} /\ UNCHANGED <<searchVars, request, sched, pick>>
    BY <1>25, <1>30 DEF GrowthEnds, CoreFinished, Return, coreUnchanged, searchVars
  <2> QED
    BY <1>24, <1>25, <2>1
<1>31. CASE ShrinkEnds
  <2>1. core'.mode = core.mode /\ core'.attempts = core.attempts
        /\ phase' = "done" /\ UNCHANGED <<searchVars, request, sched, pick>>
    BY <1>25, <1>31 DEF ShrinkEnds, CoreFinished, Return, coreUnchanged, searchVars
  <2> QED
    BY <1>24, <1>25, <2>1
<1>32. CASE SettleGrow
  <2>1. core'.mode = core.mode /\ core'.attempts = core.attempts
        /\ phase' \in {"core", "done"} /\ UNCHANGED <<searchVars, request, sched, pick>>
    BY <1>25, <1>32 DEF SettleGrow, CoreFinished, Return, coreUnchanged, searchVars
  <2> QED
    BY <1>24, <1>25, <2>1
<1>33. CASE SettleShrink
  <2>1. core'.mode = core.mode /\ core'.attempts = core.attempts
        /\ phase' \in {"core", "done"} /\ UNCHANGED <<searchVars, request, sched, pick>>
    BY <1>25, <1>33 DEF SettleShrink, CoreFinished, Return, coreUnchanged, searchVars
  <2> QED
    BY <1>24, <1>25, <2>1
<1>34. CASE RequestStop
  <2>1. UNCHANGED <<req, strategy, diag, search, request, phase, pick, sched, core>>
        /\ stop' = TRUE
    BY <1>34 DEF RequestStop
  <2>2. WorkTypeOK'
    BY <1>1, <2>1 DEF WorkTypeOK, SearchTypeOK, ScheduleTypeOK, Running
  <2>3. ControlTypeOK'
    BY <1>1, <2>1 DEF ControlTypeOK
  <2> QED
    BY <1>1, <2>1, <2>2, <2>3 DEF TypeInv
<1>35. CASE UNCHANGED vars
  <2>1. UNCHANGED <<searchVars, request, phase, pick, sched, core>>
    BY <1>35 DEF vars, searchVars
  <2>2. WorkTypeOK'
    BY <1>1, <2>1, WorkUnchanged
  <2>3. ControlTypeOK'
    BY <1>1, <2>1 DEF ControlTypeOK, searchVars
  <2> QED
    BY <1>1, <2>1, <2>2, <2>3 DEF TypeInv, searchVars
<1> QED
  BY <1>4, <1>5, <1>6, <1>7, <1>8, <1>9, <1>10, <1>11, <1>12, <1>13, <1>14, <1>15, <1>17,
     <1>18, <1>20, <1>21, <1>22, <1>26, <1>28, <1>29, <1>30, <1>31, <1>32, <1>33, <1>34,
     <1>35 DEF Next, PlannerStep, Returned

\* The type invariant of the planner for every fabric, every set of requests and all
\* budgets: its counters stay natural numbers, its states fabric states, the search
\* never runs on an empty stack, every attempt plans for the caller's request or a
\* relaxation of it, and a result exists exactly when the call has returned.
THEOREM PlannerTypes == Spec => []TypeOK
<1>1. Spec => []TypeInv
  BY InitTypeInv, NextTypeInv, PTL DEF Spec
<1> QED
  BY <1>1, TypeInvIsTypeOK, PTL

=============================================================================
