--------------------------- MODULE ExecutionProofs ---------------------------
(***************************************************************************)
(* A verified plan is safe in every order its stages allow. verify_plan    *)
(* replays whole interleavings of a stage; an execution takes one open     *)
(* step after the other. The link is Position: the steps taken so far are  *)
(* the first slots of some complete order of the stage, so the fabric is   *)
(* in a state some replay of verify_plan went through. Whatever open step  *)
(* comes next, swapping it into the next slot gives another complete order *)
(* with the same beginning (NextSlot). So the executor moves a verified    *)
(* plan from one Position to the next, and planner and executor together   *)
(* implement ChangeControl.                                                *)
(***************************************************************************)
EXTENDS Rollout, OutcomeProofs

\* The orders of n slots, as bijections: every slot has its turn.

FullOrders(n) == {p \in SlotOrders(n) : \A x \in 1 .. n : \E i \in 1 .. n : p[i] = x}

\* There is such an order.
LEMMA FirstOrder ==
  ASSUME NEW n \in Nat
  PROVE  [i \in 1 .. n |-> i] \in FullOrders(n)
  BY DEF FullOrders, SlotOrders, IsInjective

\* The first m slots of p do not include x.
Unused(p, m, x) == \A i \in 1 .. m : p[i] # x

\* An order that starts with the first m slots of p and goes on with x.
GoesOn(n, p, m, x) ==
  \E q \in FullOrders(n) : q[m + 1] = x /\ \A i \in 1 .. m : q[i] = p[i]

\* A slot that has not had its turn can be the next one: exchange it with the slot
\* that was to come next.
LEMMA NextSlot ==
  ASSUME NEW n \in Nat, NEW p \in FullOrders(n), NEW m \in 0 .. n, NEW x \in 1 .. n,
         Unused(p, m, x)
  PROVE  m < n /\ GoesOn(n, p, m, x)
<1>1. /\ p \in [1 .. n -> 1 .. n]
      /\ \A i, j \in 1 .. n : p[i] = p[j] => i = j
      /\ \A y \in 1 .. n : \E i \in 1 .. n : p[i] = y
  BY DEF FullOrders, SlotOrders, IsInjective
<1>2. PICK y \in 1 .. n : p[y] = x
  BY <1>1
<1>3. m < y
  BY <1>2 DEF Unused
<1> DEFINE q == [i \in 1 .. n |-> IF i = m + 1 THEN x ELSE IF i = y THEN p[m + 1] ELSE p[i]]
<1>4. /\ m + 1 \in 1 .. n /\ p[m + 1] \in 1 .. n
      /\ q \in [1 .. n -> 1 .. n]
      /\ \A i \in 1 .. n : q[i] = IF i = m + 1 THEN x ELSE IF i = y THEN p[m + 1] ELSE p[i]
  <2>1. m + 1 \in 1 .. n
    BY <1>3
  <2>2. \A i \in 1 .. n : p[i] \in 1 .. n
    BY <1>1
  <2> QED
    BY <2>1, <2>2
<1> HIDE DEF q
<1>5. ASSUME NEW i \in 1 .. n, NEW j \in 1 .. n, q[i] = q[j] PROVE i = j
  <2> DEFINE old(l) == IF l = m + 1 THEN y ELSE IF l = y THEN m + 1 ELSE l
  <2>1. \A l \in 1 .. n : old(l) \in 1 .. n /\ q[l] = p[old(l)]
    BY <1>2, <1>4
  <2>2. \A l, k \in 1 .. n : old(l) = old(k) => l = k
    OBVIOUS
  <2> HIDE DEF old
  <2>3. old(i) \in 1 .. n /\ old(j) \in 1 .. n /\ p[old(i)] = p[old(j)]
    BY <1>5, <2>1
  <2>4. old(i) = old(j)
    BY <1>1, <2>3, Zenon
  <2> QED
    BY <2>2, <2>4
<1>6. ASSUME NEW z \in 1 .. n PROVE \E i \in 1 .. n : q[i] = z
  <2>1. PICK i \in 1 .. n : p[i] = z
    BY <1>1
  <2>2. q[m + 1] = x /\ q[y] = (IF y = m + 1 THEN x ELSE p[m + 1])
    BY <1>4
  <2>3. CASE i = y
    BY <1>2, <1>4, <2>1, <2>2, <2>3
  <2>4. CASE i = m + 1
    BY <1>2, <1>4, <2>1, <2>2, <2>4
  <2>5. CASE i # y /\ i # m + 1
    BY <1>4, <2>1, <2>5
  <2> QED
    BY <2>3, <2>4, <2>5, Zenon
<1>7. q \in FullOrders(n)
  <2>1. q \in SlotOrders(n)
    BY <1>4, <1>5, Zenon DEF SlotOrders, IsInjective
  <2> QED
    BY <1>6, <2>1 DEF FullOrders
<1>8. m < n /\ q[m + 1] = x
  BY <1>4
<1>9. ASSUME NEW i \in 1 .. m PROVE q[i] = p[i]
  <2>1. i \in 1 .. n /\ i # m + 1 /\ i # y
    BY <1>3
  <2> QED
    BY <1>4, <2>1
<1> QED
  BY <1>7, <1>8, <1>9 DEF GoesOn


-----------------------------------------------------------------------------
(* Where a plan is while it is carried out.                                *)

Steps(plan, k) == plan.stages[k].steps

\* The steps of plan that are in done are those of the first k - 1 stages and of the
\* first m slots of order p of stage k.
CarriedOut(plan, done, k, p, m) ==
  \A j \in 1 .. Len(plan.stages) : \A i \in 1 .. Len(Steps(plan, j)) :
    Steps(plan, j)[i] \in done <=> (j < k \/ (j = k /\ \E l \in 1 .. m : p[l] = i))

\* Moreover the fabric f is where verify_plan's replay of that order was.
Position(r, plan, f, done, k, p, m) ==
  /\ CarriedOut(plan, done, k, p, m)
  /\ f = Trajectory(r, plan.trace[k], Interleaving(Steps(plan, k), p))[m]

\* The plan is somewhere on its way.
Underway(r, plan, f, done) ==
  \/ plan.stages = <<>> /\ f = r.state
  \/ \E k \in 1 .. Len(plan.stages) :
       \E p \in FullOrders(Len(Steps(plan, k))), m \in 0 .. Len(Steps(plan, k)) :
         Position(r, plan, f, done, k, p, m)

\* The stages of a verified plan are sequences of at least one step.
LEMMA PlanShape ==
  ASSUME NEW r, NEW plan, Verified(r, plan)
  PROVE  /\ Len(plan.stages) \in Nat
         /\ DOMAIN plan.stages = 1 .. Len(plan.stages)
         /\ \A k \in 1 .. Len(plan.stages) :
              /\ Len(Steps(plan, k)) \in Nat \ {0}
              /\ DOMAIN Steps(plan, k) = 1 .. Len(Steps(plan, k))
              /\ IsSeq(Steps(plan, k))
<1>1. Len(plan.stages) \in Nat /\ DOMAIN plan.stages = 1 .. Len(plan.stages)
  BY SeqShape DEF Verified
<1>2. ASSUME NEW k \in 1 .. Len(plan.stages)
      PROVE  /\ Len(Steps(plan, k)) \in Nat \ {0}
             /\ DOMAIN Steps(plan, k) = 1 .. Len(Steps(plan, k))
             /\ IsSeq(Steps(plan, k))
  <2>1. IsSeq(Steps(plan, k)) /\ Steps(plan, k) # <<>>
    BY <1>1 DEF Verified, PlanStructure, Steps
  <2>2. PICK S : Steps(plan, k) \in Seq(S)
    BY <2>1 DEF IsSeq
  <2> QED
    BY <2>1, <2>2
<1> QED
  BY <1>1, <1>2

\* No operation is in a verified plan twice.
LEMMA StepsDistinct ==
  ASSUME NEW r, NEW plan, Verified(r, plan),
         NEW j \in 1 .. Len(plan.stages), NEW k \in 1 .. Len(plan.stages),
         NEW x \in 1 .. Len(Steps(plan, j)), NEW y \in 1 .. Len(Steps(plan, k)),
         Steps(plan, j)[x] = Steps(plan, k)[y]
  PROVE  j = k /\ x = y
<1>1. <<j, x>> \in Places(plan.stages) /\ <<k, y>> \in Places(plan.stages)
  BY PlanShape DEF Places, Steps
<1>2. At(plan.stages, <<j, x>>) = At(plan.stages, <<k, y>>)
  BY DEF At, Steps
<1>3. <<j, x>> = <<k, y>>
  BY <1>1, <1>2 DEF Verified, PlanStructure
<1> QED
  BY <1>3

\* Whatever order a stage is carried out in, every step of it holds what verify_plan
\* checks, and it ends in the state the next stage is entered with.
LEMMA StageReplay ==
  ASSUME NEW r, NEW plan, Verified(r, plan), NEW k \in 1 .. Len(plan.stages),
         NEW p \in FullOrders(Len(Steps(plan, k)))
  PROVE  LET t == Trajectory(r, plan.trace[k], Interleaving(Steps(plan, k), p))
         IN  /\ t[0] = plan.trace[k]
             /\ t[Len(Steps(plan, k))] = plan.trace[k + 1]
             /\ \A i \in 1 .. Len(Steps(plan, k)) :
                  /\ StepHolds(r, plan.stages[k].basis, t[i - 1], Steps(plan, k)[p[i]])
                  /\ t[i] = Apply(r, t[i - 1], Steps(plan, k)[p[i]])
<1> DEFINE n == Len(Steps(plan, k))
           order == Interleaving(Steps(plan, k), p)
           t == Trajectory(r, plan.trace[k], order)
<1>1. n \in Nat /\ IsSeq(Steps(plan, k)) /\ DOMAIN Steps(plan, k) = 1 .. n
  BY PlanShape
<1>2. IsSeq(order) /\ Len(order) = n
  BY <1>1, InterleavingIsSeq
<1>3. DOMAIN order = 1 .. n /\ \A i \in 1 .. n : order[i] = Steps(plan, k)[p[i]]
  BY <1>1 DEF Interleaving
<1>4. p \in SlotOrders(n) /\ StageVerified(r, plan.trace[k], plan.stages[k])
  BY DEF FullOrders, Verified
<1>5. /\ SafeReplay(r, plan.stages[k].basis, plan.trace[k], order)
      /\ Replay(r, plan.trace[k], order) = Replay(r, plan.trace[k], Steps(plan, k))
  BY <1>4 DEF StageVerified, Steps
<1>6. plan.trace[k + 1] = Replay(r, plan.trace[k], Steps(plan, k))
  BY DEF Verified, Steps
<1> HIDE DEF order
<1>7. /\ t[0] = plan.trace[k]
      /\ \A i \in 1 .. n : t[i] = Apply(r, t[i - 1], order[i])
  BY <1>1, <1>2, TrajectoryUnfolds
<1>8. \A i \in 1 .. n : StepHolds(r, plan.stages[k].basis, t[i - 1], order[i])
  BY <1>3, <1>5 DEF SafeReplay
<1>9. t[n] = plan.trace[k + 1]
  BY <1>2, <1>5, <1>6 DEF Replay
<1> QED
  BY <1>3, <1>7, <1>8, <1>9 DEF order

\* Every stage is entered in a safe state: the first in the state verify_plan checks,
\* the others after a step that was checked.
LEMMA SafeEntries ==
  ASSUME NEW r, NEW plan, Verified(r, plan), NEW k \in 1 .. Len(plan.stages)
  PROVE  Safe(r, plan.trace[k])
<1>1. CASE k = 1
  BY <1>1 DEF Verified
<1>2. CASE k # 1
  <2> DEFINE j == k - 1
             n == Len(Steps(plan, j))
             p == [i \in 1 .. n |-> i]
             t == Trajectory(r, plan.trace[j], Interleaving(Steps(plan, j), p))
  <2>1. j \in 1 .. Len(plan.stages) /\ n \in Nat \ {0}
    BY <1>2, PlanShape
  <2>2. p \in FullOrders(n)
    BY <2>1, FirstOrder
  <2> HIDE DEF p
  <2>3. t[n] = plan.trace[k]
    BY <2>1, <2>2, StageReplay
  <2>4. \A i \in 1 .. n :
          /\ StepHolds(r, plan.stages[j].basis, t[i - 1], Steps(plan, j)[p[i]])
          /\ t[i] = Apply(r, t[i - 1], Steps(plan, j)[p[i]])
    BY <2>1, <2>2, StageReplay
  <2>5. n \in 1 .. n
    BY <2>1
  <2> HIDE DEF n, t
  <2> QED
    BY <2>3, <2>4, <2>5 DEF StepHolds
<1> QED
  BY <1>1, <1>2

\* A plan on its way has the fabric in a safe state.
LEMMA SafePosition ==
  ASSUME NEW r, NEW plan, Verified(r, plan), NEW f, NEW done, Underway(r, plan, f, done)
  PROVE  Safe(r, f)
<1>1. CASE plan.stages = <<>> /\ f = r.state
  BY <1>1 DEF Verified
<1>2. CASE \E k \in 1 .. Len(plan.stages) :
             \E p \in FullOrders(Len(Steps(plan, k))), m \in 0 .. Len(Steps(plan, k)) :
               Position(r, plan, f, done, k, p, m)
  <2>1. PICK k \in 1 .. Len(plan.stages) :
               \E p \in FullOrders(Len(Steps(plan, k))), m \in 0 .. Len(Steps(plan, k)) :
                 Position(r, plan, f, done, k, p, m)
    BY <1>2
  <2>2. PICK p \in FullOrders(Len(Steps(plan, k))), m \in 0 .. Len(Steps(plan, k)) :
               Position(r, plan, f, done, k, p, m)
    BY <2>1
  <2>3. CASE m = 0
    BY <2>2, <2>3, SafeEntries, StageReplay DEF Position
  <2>4. CASE m # 0
    <3>1. m \in 1 .. Len(Steps(plan, k))
      BY <2>4, PlanShape
    <3> QED
      BY <2>2, <3>1, StageReplay DEF Position, StepHolds
  <2> QED
    BY <2>3, <2>4
<1> QED
  BY <1>1, <1>2 DEF Underway


\* If every stage before k is finished and the step in slot x of k is still to come,
\* the plan is in stage k, in an order that has x next.
LEMMA OpenIsNext ==
  ASSUME NEW r, NEW plan, Verified(r, plan), NEW f, NEW done, Underway(r, plan, f, done),
         NEW k \in 1 .. Len(plan.stages), NEW x \in 1 .. Len(Steps(plan, k)),
         Steps(plan, k)[x] \notin done,
         \A j \in 1 .. k - 1 : \A i \in 1 .. Len(Steps(plan, j)) : Steps(plan, j)[i] \in done
  PROVE  \E p \in FullOrders(Len(Steps(plan, k))), m \in 0 .. Len(Steps(plan, k)) - 1 :
           p[m + 1] = x /\ Position(r, plan, f, done, k, p, m)
<1> DEFINE n(j) == Len(Steps(plan, j))
<1>1. /\ Len(plan.stages) \in Nat
      /\ \A j \in 1 .. Len(plan.stages) : n(j) \in Nat \ {0}
  BY PlanShape
<1>2. plan.stages # <<>>
  BY <1>1, EmptyIsSeq
<1>3. PICK h \in 1 .. Len(plan.stages) :
             \E p \in FullOrders(n(h)), m \in 0 .. n(h) : Position(r, plan, f, done, h, p, m)
  BY <1>2 DEF Underway
<1>4. PICK p \in FullOrders(n(h)), m \in 0 .. n(h) : Position(r, plan, f, done, h, p, m)
  BY <1>3
<1>5. /\ \A i \in 1 .. n(h) : p[i] \in 1 .. n(h)
      /\ \A i, j \in 1 .. n(h) : p[i] = p[j] => i = j
      /\ \A y \in 1 .. n(h) : \E i \in 1 .. n(h) : p[i] = y
  BY <1>4 DEF FullOrders, SlotOrders, IsInjective
<1>6. h <= k
  BY <1>4 DEF Position, CarriedOut
<1>7. CASE h = k
  <2>1. Unused(p, m, x)
    BY <1>4, <1>7 DEF Position, CarriedOut, Unused
  <2>2. m < n(k) /\ GoesOn(n(k), p, m, x)
    <3>1. n(k) \in Nat /\ p \in FullOrders(n(k)) /\ m \in 0 .. n(k) /\ x \in 1 .. n(k)
      BY <1>1, <1>4, <1>7
    <3> HIDE DEF n
    <3> QED
      BY <2>1, <3>1, NextSlot
  <2>3. PICK q \in FullOrders(n(k)) : q[m + 1] = x /\ \A i \in 1 .. m : q[i] = p[i]
    BY <2>2 DEF GoesOn
  <2>4. CarriedOut(plan, done, k, q, m)
    <3>1. CarriedOut(plan, done, k, p, m)
      BY <1>4, <1>7 DEF Position
    <3>2. ASSUME NEW i PROVE (\E l \in 1 .. m : p[l] = i) <=> (\E l \in 1 .. m : q[l] = i)
      BY <2>3
    <3> QED
      BY <3>1, <3>2, Zenon DEF CarriedOut
  <2> DEFINE u == Interleaving(Steps(plan, k), p)
             v == Interleaving(Steps(plan, k), q)
  <2>5. Len(u) = n(k) /\ Len(v) = n(k)
    BY PlanShape, InterleavingIsSeq
  <2>6. \A i \in 1 .. m : u[i] = v[i]
    BY <1>1, <2>2, <2>3, PlanShape DEF Interleaving
  <2> HIDE DEF u, v
  <2>7. Trajectory(r, plan.trace[k], u)[m] = Trajectory(r, plan.trace[k], v)[m]
    <3>1. n(k) \in Nat /\ m \in Nat /\ m <= n(k) /\ m \in 0 .. m
      BY <1>1, <1>4, <1>7, <2>2
    <3> HIDE DEF n
    <3>2. \A i \in 0 .. m :
            Trajectory(r, plan.trace[k], u)[i] = Trajectory(r, plan.trace[k], v)[i]
      BY <2>5, <2>6, <3>1, TrajectoryPrefix
    <3> QED
      BY <3>1, <3>2
  <2>8. Position(r, plan, f, done, k, q, m)
    BY <1>4, <1>7, <2>4, <2>7 DEF Position, u, v
  <2>9. m \in 0 .. n(k) - 1
    BY <1>1, <1>4, <1>7, <2>2
  <2> QED
    BY <2>3, <2>8, <2>9
<1>8. CASE h < k
  <2>1. m = n(h)
    <3>1. SUFFICES ASSUME m < n(h) PROVE FALSE
      BY <1>1, <1>4
    <3>2. m + 1 \in 1 .. n(h) /\ p[m + 1] \in 1 .. n(h)
      BY <1>1, <1>4, <1>5, <3>1
    <3>3. Steps(plan, h)[p[m + 1]] \in done
      BY <1>8, <3>2
    <3>4. PICK l \in 1 .. m : p[l] = p[m + 1]
      BY <1>4, <3>2, <3>3 DEF Position, CarriedOut
    <3> QED
      BY <1>4, <1>5, <3>2, <3>4
  <2>2. h + 1 \in 1 .. Len(plan.stages)
    BY <1>1, <1>8
  <2>3. k = h + 1
    <3>1. SUFFICES ASSUME h + 1 < k PROVE FALSE
      BY <1>8
    <3>2. Steps(plan, h + 1)[1] \in done
      BY <1>1, <2>2, <3>1
    <3> QED
      BY <1>1, <1>4, <2>2, <3>2 DEF Position, CarriedOut
  <2> DEFINE first == [i \in 1 .. n(k) |-> i]
  <2>4. first \in FullOrders(n(k))
    BY <1>1, FirstOrder
  <2> HIDE DEF first
  <2>5. PICK q \in FullOrders(n(k)) : q[1] = x
    <3>1. n(k) \in Nat /\ 0 \in 0 .. n(k) /\ x \in 1 .. n(k) /\ Unused(first, 0, x)
      BY <1>1 DEF Unused
    <3> HIDE DEF n
    <3>2. GoesOn(n(k), first, 0, x)
      BY <2>4, <3>1, NextSlot
    <3> QED
      BY <3>2 DEF GoesOn
  <2>6. f = plan.trace[k]
    BY <1>4, <2>1, <2>3, StageReplay DEF Position
  <2>7. f = Trajectory(r, plan.trace[k], Interleaving(Steps(plan, k), q))[0]
    BY <2>5, <2>6, StageReplay
  <2>8. CarriedOut(plan, done, k, q, 0)
    <3> SUFFICES ASSUME NEW j \in 1 .. Len(plan.stages), NEW i \in 1 .. n(j)
                 PROVE  Steps(plan, j)[i] \in done <=> j < k
      BY DEF CarriedOut
    <3>1. Steps(plan, j)[i] \in done <=> (j < h \/ (j = h /\ \E l \in 1 .. m : p[l] = i))
      BY <1>4 DEF Position, CarriedOut
    <3>2. j = h => \E l \in 1 .. m : p[l] = i
      BY <1>5, <2>1
    <3> QED
      BY <2>3, <3>1, <3>2
  <2>9. Position(r, plan, f, done, k, q, 0)
    BY <2>7, <2>8 DEF Position
  <2> QED
    BY <1>1, <2>5, <2>9
<1> QED
  BY <1>6, <1>7, <1>8

\* Taking the next step of the order: the fabric accepts it and the plan moves on.
LEMMA TakeNext ==
  ASSUME NEW r, NEW plan, Verified(r, plan), NEW f, NEW done,
         NEW k \in 1 .. Len(plan.stages), NEW p \in FullOrders(Len(Steps(plan, k))),
         NEW m \in 0 .. Len(Steps(plan, k)) - 1,
         Position(r, plan, f, done, k, p, m)
  PROVE  LET o == Steps(plan, k)[p[m + 1]]
         IN  /\ StepHolds(r, plan.stages[k].basis, f, o)
             /\ Underway(r, plan, Apply(r, f, o), done \cup {o})
<1> DEFINE n == Len(Steps(plan, k))
           o == Steps(plan, k)[p[m + 1]]
           t == Trajectory(r, plan.trace[k], Interleaving(Steps(plan, k), p))
<1>1. /\ n \in Nat /\ m + 1 \in 1 .. n /\ m + 1 \in 0 .. n
      /\ p[m + 1] \in 1 .. n
  <2>1. n \in Nat \ {0} /\ m \in 0 .. n - 1
    BY PlanShape
  <2>2. p \in [1 .. n -> 1 .. n]
    BY DEF FullOrders, SlotOrders
  <2> HIDE DEF n
  <2> QED
    BY <2>1, <2>2
<1>2. f = t[m]
  BY DEF Position
<1>3. /\ StepHolds(r, plan.stages[k].basis, t[m], o)
      /\ t[m + 1] = Apply(r, t[m], o)
  <2>1. \A i \in 1 .. n : /\ StepHolds(r, plan.stages[k].basis, t[i - 1], Steps(plan, k)[p[i]])
                          /\ t[i] = Apply(r, t[i - 1], Steps(plan, k)[p[i]])
    BY StageReplay
  <2>2. (m + 1) - 1 = m
    OBVIOUS
  <2> HIDE DEF t, n
  <2> QED
    BY <1>1, <2>1, <2>2
<1>4. CarriedOut(plan, done \cup {o}, k, p, m + 1)
  <2> SUFFICES ASSUME NEW j \in 1 .. Len(plan.stages), NEW i \in 1 .. Len(Steps(plan, j))
               PROVE  Steps(plan, j)[i] \in done \cup {o}
                        <=> (j < k \/ (j = k /\ \E l \in 1 .. m + 1 : p[l] = i))
    BY DEF CarriedOut
  <2>1. Steps(plan, j)[i] \in done <=> (j < k \/ (j = k /\ \E l \in 1 .. m : p[l] = i))
    BY DEF Position, CarriedOut
  <2>2. Steps(plan, j)[i] = o <=> (j = k /\ i = p[m + 1])
    BY <1>1, StepsDistinct
  <2>3. (\E l \in 1 .. m + 1 : p[l] = i) <=> ((\E l \in 1 .. m : p[l] = i) \/ p[m + 1] = i)
    <3>1. \A l \in 1 .. m + 1 : l \in 1 .. m \/ l = m + 1
      BY <1>1
    <3>2. \A l \in 1 .. m : l \in 1 .. m + 1
      BY <1>1
    <3> QED
      BY <1>1, <3>1, <3>2
  <2> QED
    BY <2>1, <2>2, <2>3
<1>5. Position(r, plan, Apply(r, f, o), done \cup {o}, k, p, m + 1)
  BY <1>2, <1>3, <1>4 DEF Position
<1> QED
  BY <1>1, <1>2, <1>3, <1>5 DEF Underway

\* Nothing has been carried out of a plan that is new.
LEMMA NewPlan ==
  ASSUME NEW r, NEW plan, Verified(r, plan)
  PROVE  Underway(r, plan, r.state, {})
<1>1. CASE plan.stages = <<>>
  BY <1>1 DEF Underway
<1>2. CASE plan.stages # <<>>
  <2> DEFINE n == Len(Steps(plan, 1))
             p == [i \in 1 .. n |-> i]
  <2>1. 1 \in 1 .. Len(plan.stages)
    <3>1. IsSeq(plan.stages)
      BY DEF Verified
    <3>2. PICK S : plan.stages \in Seq(S)
      BY <3>1 DEF IsSeq
    <3> QED
      BY <1>2, <3>2
  <2>2. n \in Nat /\ 0 \in 0 .. n /\ p \in FullOrders(n)
    BY <2>1, PlanShape, FirstOrder
  <2> HIDE DEF p
  <2>3. CarriedOut(plan, {}, 1, p, 0)
    BY PlanShape DEF CarriedOut
  <2>4. r.state = Trajectory(r, plan.trace[1], Interleaving(Steps(plan, 1), p))[0]
    <3>1. plan.trace[1] = r.state
      BY DEF Verified
    <3> QED
      BY <2>1, <2>2, <3>1, StageReplay
  <2>5. Position(r, plan, r.state, {}, 1, p, 0)
    BY <2>3, <2>4 DEF Position
  <2> QED
    BY <2>1, <2>2, <2>5 DEF Underway
<1> QED
  BY <1>1, <1>2

\* After exactly the first h stages the fabric is where verify_plan was after them.
LEMMA BetweenStages ==
  ASSUME NEW r, NEW plan, Verified(r, plan), NEW f, NEW done, Underway(r, plan, f, done),
         NEW h \in 0 .. Len(plan.stages),
         \A j \in 1 .. Len(plan.stages) : \A i \in 1 .. Len(Steps(plan, j)) :
           Steps(plan, j)[i] \in done <=> j <= h
  PROVE  f = plan.trace[h + 1]
<1> DEFINE n(j) == Len(Steps(plan, j))
<1>1. /\ Len(plan.stages) \in Nat
      /\ \A j \in 1 .. Len(plan.stages) : n(j) \in Nat \ {0}
  BY PlanShape
<1>2. CASE plan.stages = <<>> /\ f = r.state
  BY <1>2, EmptyIsSeq DEF Verified
<1>3. CASE \E k \in 1 .. Len(plan.stages) :
             \E p \in FullOrders(n(k)), m \in 0 .. n(k) : Position(r, plan, f, done, k, p, m)
  <2>1. PICK k \in 1 .. Len(plan.stages) :
               \E p \in FullOrders(n(k)), m \in 0 .. n(k) : Position(r, plan, f, done, k, p, m)
    BY <1>3
  <2>2. PICK p \in FullOrders(n(k)), m \in 0 .. n(k) : Position(r, plan, f, done, k, p, m)
    BY <2>1
  <2>3. /\ \A i \in 1 .. n(k) : p[i] \in 1 .. n(k)
        /\ \A i, j \in 1 .. n(k) : p[i] = p[j] => i = j
    BY <2>2 DEF FullOrders, SlotOrders, IsInjective
  <2>4. \A i \in 1 .. n(k) : k <= h <=> \E l \in 1 .. m : p[l] = i
    BY <2>2 DEF Position, CarriedOut
  <2>5. k <= h => m = n(k)
    <3>1. SUFFICES ASSUME k <= h, m < n(k) PROVE FALSE
      BY <1>1, <2>2
    <3>2. m + 1 \in 1 .. n(k) /\ p[m + 1] \in 1 .. n(k)
      BY <1>1, <2>2, <2>3, <3>1
    <3>3. PICK l \in 1 .. m : p[l] = p[m + 1]
      BY <2>4, <3>1, <3>2
    <3> QED
      BY <2>2, <2>3, <3>2, <3>3
  <2>6. k > h => m = 0
    <3>1. SUFFICES ASSUME k > h, m # 0 PROVE FALSE
      OBVIOUS
    <3>2. 1 \in 1 .. m /\ 1 \in 1 .. n(k) /\ p[1] \in 1 .. n(k)
      BY <1>1, <2>2, <2>3, <3>1
    <3> QED
      BY <2>4, <3>1, <3>2
  <2>7. h <= k
    <3>1. SUFFICES ASSUME h > k PROVE FALSE
      OBVIOUS
    <3>2. h \in 1 .. Len(plan.stages) /\ 1 \in 1 .. n(h)
      BY <1>1, <3>1
    <3>3. Steps(plan, h)[1] \in done
      BY <3>2
    <3> QED
      BY <2>2, <3>1, <3>2, <3>3 DEF Position, CarriedOut
  <2>8. k - 1 <= h
    <3>1. SUFFICES ASSUME h < k - 1 PROVE FALSE
      BY <1>1
    <3>2. k - 1 \in 1 .. Len(plan.stages) /\ 1 \in 1 .. n(k - 1)
      BY <1>1, <3>1
    <3>3. Steps(plan, k - 1)[1] \in done
      BY <2>2, <3>2 DEF Position, CarriedOut
    <3> QED
      BY <3>1, <3>2, <3>3
  <2>9. CASE k = h
    BY <2>2, <2>5, <2>9, StageReplay DEF Position
  <2>10. CASE k = h + 1
    BY <2>2, <2>6, <2>10, StageReplay DEF Position
  <2> QED
    BY <2>7, <2>8, <2>9, <2>10
<1> QED
  BY <1>2, <1>3 DEF Underway

-----------------------------------------------------------------------------
(* Every execution of a published plan is safe. An execution is a whole    *)
(* order of the operations; the first i of them leave the plan underway.   *)

\* The executions of a plan that carries out the whole change take every operation once.
LEMMA ExecutionShape ==
  ASSUME NEW r, NEW plan, IsFiniteSet(Nodes(r)), NEW q \in Executions(r, plan)
  PROVE  /\ Len(q) \in Nat /\ DOMAIN q = 1 .. Len(q) /\ Len(q) = Cardinality(Nodes(r))
         /\ \A i \in 1 .. Len(q) : q[i] \in Nodes(r)
         /\ \A i, j \in 1 .. Len(q) : q[i] = q[j] => i = j
         /\ \A o \in Nodes(r) : \E i \in 1 .. Len(q) : q[i] = o
<1> DEFINE c == Cardinality(Nodes(r))
           N == Nodes(r)
<1>1. c \in Nat
  BY FS_CardinalityType
<1>2. q \in [1 .. c -> N] /\ IsInjective(q)
  BY DEF Executions, Orders
<1> HIDE DEF c, N
<1>3. Len(q) = c /\ DOMAIN q = 1 .. c
  BY <1>1, <1>2, FunctionInSeq
<1>4. q \in Injection(1 .. c, N)
  BY <1>2 DEF Injection, IsInjective
<1>5. Cardinality(1 .. c) = Cardinality(N)
  BY <1>1, FS_Interval DEF c, N
<1>6. IsFiniteSet(N)
  BY DEF N
<1>7. q \in Surjection(1 .. c, N)
  BY <1>4, <1>5, <1>6, FS_Injection
<1> QED
  BY <1>1, <1>2, <1>3, <1>7 DEF Surjection, IsInjective, c, N

\* An operation the plan carries out has a stage and a slot there.
LEMMA StagedAt ==
  ASSUME NEW r, NEW plan, Verified(r, plan), Complete(r, plan.stages), NEW o \in Nodes(r)
  PROVE  \E k \in 1 .. Len(plan.stages) : \E x \in 1 .. Len(Steps(plan, k)) :
           Steps(plan, k)[x] = o
<1>1. PICK k \in 1 .. Len(plan.stages) : o \in ToSet(plan.stages[k].steps)
  BY DEF Complete, StagedOps
<1>2. DOMAIN Steps(plan, k) = 1 .. Len(Steps(plan, k))
  BY PlanShape
<1> QED
  BY <1>1, <1>2 DEF ToSet, Steps

\* The steps of a verified plan are those its stages hold.
LEMMA StepIsStaged ==
  ASSUME NEW r, NEW plan, Verified(r, plan), Complete(r, plan.stages),
         NEW k \in 1 .. Len(plan.stages), NEW x \in 1 .. Len(Steps(plan, k))
  PROVE  Staged(plan, Steps(plan, k)[x], k) /\ Steps(plan, k)[x] \in Nodes(r)
<1>1. DOMAIN Steps(plan, k) = 1 .. Len(Steps(plan, k)) /\ DOMAIN plan.stages = 1 .. Len(plan.stages)
  BY PlanShape
<1>2. Steps(plan, k)[x] \in ToSet(plan.stages[k].steps)
  BY <1>1 DEF ToSet, Steps
<1> QED
  BY <1>1, <1>2 DEF Staged, Complete, StagedOps

\* If the first i operations of an execution leave the plan underway, the next one is
\* accepted with all its conditions and leaves it underway.
LEMMA ExecutionStep ==
  ASSUME NEW r, NEW plan, Verified(r, plan), Complete(r, plan.stages),
         IsFiniteSet(Nodes(r)), NEW q \in Executions(r, plan),
         NEW i \in 1 .. Len(q), NEW f, Underway(r, plan, f, Placed(q, i - 1))
  PROVE  /\ \E k \in 1 .. Len(plan.stages) : StepHolds(r, plan.stages[k].basis, f, q[i])
         /\ Underway(r, plan, Apply(r, f, q[i]), Placed(q, i))
<1> DEFINE done == Placed(q, i - 1)
           o == q[i]
<1>1. /\ Len(q) \in Nat /\ DOMAIN q = 1 .. Len(q) /\ o \in Nodes(r)
      /\ \A a, b \in 1 .. Len(q) : q[a] = q[b] => a = b
      /\ \A e \in Nodes(r) : \E a \in 1 .. Len(q) : q[a] = e
  BY ExecutionShape
<1>2. PICK k \in 1 .. Len(plan.stages) : \E x \in 1 .. Len(Steps(plan, k)) : Steps(plan, k)[x] = o
  BY <1>1, StagedAt
<1>3. PICK x \in 1 .. Len(Steps(plan, k)) : Steps(plan, k)[x] = o
  BY <1>2
<1>4. o \notin done
  BY <1>1 DEF Placed
<1>5. ASSUME NEW j \in 1 .. k - 1, NEW y \in 1 .. Len(Steps(plan, j))
      PROVE  Steps(plan, j)[y] \in done
  <2>1. j \in 1 .. Len(plan.stages) /\ j < k
    BY PlanShape
  <2>2. Staged(plan, Steps(plan, j)[y], j) /\ Steps(plan, j)[y] \in Nodes(r)
    BY <2>1, StepIsStaged
  <2>3. PICK a \in 1 .. Len(q) : q[a] = Steps(plan, j)[y]
    BY <1>1, <2>2
  <2>4. Staged(plan, o, k)
    BY <1>3, StepIsStaged
  <2>5. ~(i < a)
    <3>1. SUFFICES ASSUME i < a PROVE FALSE
      OBVIOUS
    <3>2. i \in DOMAIN q /\ a \in DOMAIN q /\ j \in DOMAIN plan.stages /\ k \in DOMAIN plan.stages
      BY <1>1, <2>1, PlanShape
    <3>3. k <= j
      BY <2>2, <2>3, <2>4, <3>1, <3>2 DEF Executions
    <3> QED
      BY <2>1, <3>3, PlanShape
  <2>6. a # i
    BY <1>3, <2>1, <2>3, PlanShape, StepsDistinct
  <2>7. a \in 1 .. i - 1
    BY <1>1, <2>5, <2>6
  <2> QED
    BY <2>3, <2>7 DEF Placed
<1>6. PICK p \in FullOrders(Len(Steps(plan, k))), m \in 0 .. Len(Steps(plan, k)) - 1 :
        p[m + 1] = x /\ Position(r, plan, f, done, k, p, m)
  <2>1. Steps(plan, k)[x] \notin done
    BY <1>3, <1>4
  <2>2. Underway(r, plan, f, done)
    OBVIOUS
  <2> HIDE DEF done
  <2> QED
    BY <1>5, <2>1, <2>2, OpenIsNext
<1>7. StepHolds(r, plan.stages[k].basis, f, o) /\ Underway(r, plan, Apply(r, f, o), done \cup {o})
  <2>1. Steps(plan, k)[p[m + 1]] = o
    BY <1>3, <1>6
  <2> HIDE DEF done, o
  <2> QED
    BY <1>6, <2>1, TakeNext
<1>8. Placed(q, i) = done \cup {o}
  <2>1. \A a \in 1 .. i : a \in 1 .. i - 1 \/ a = i
    OBVIOUS
  <2>2. \A a \in 1 .. i - 1 : a \in 1 .. i
    OBVIOUS
  <2>3. i \in 1 .. i
    BY <1>1
  <2> QED
    BY <2>1, <2>2, <2>3 DEF Placed
<1> QED
  BY <1>7, <1>8

\* After any number of operations of an execution the plan is underway, in the state
\* they lead to. A least number for which it is not is refuted by ExecutionStep.
LEMMA ExecutionUnderway ==
  ASSUME NEW r, NEW plan, Verified(r, plan), Complete(r, plan.stages),
         IsFiniteSet(Nodes(r)), NEW q \in Executions(r, plan)
  PROVE  \A i \in 0 .. Len(q) : Underway(r, plan, Trajectory(r, r.state, q)[i], Placed(q, i))
<1> DEFINE t == Trajectory(r, r.state, q)
           Lost == {i \in 0 .. Len(q) : ~Underway(r, plan, t[i], Placed(q, i))}
<1>1. Len(q) \in Nat
  BY ExecutionShape
<1>2. t[0] = r.state /\ \A i \in 1 .. Len(q) : t[i] = Apply(r, t[i - 1], q[i])
  BY <1>1, TrajectoryUnfolds
<1> HIDE DEF t
<1>3. SUFFICES ASSUME Lost # {} PROVE FALSE
  BY DEF t
<1>4. PICK i \in Lost : \A j \in Lost : i <= j
  <2>1. Lost \subseteq Nat
    BY <1>1
  <2> HIDE DEF Lost
  <2> QED
    BY <1>3, <2>1, LeastNat
<1>5. i # 0
  <2>1. Placed(q, 0) = {}
    BY DEF Placed
  <2>2. Underway(r, plan, t[0], Placed(q, 0))
    BY <1>2, <2>1, NewPlan
  <2> QED
    BY <1>4, <2>2
<1>6. i \in 1 .. Len(q) /\ i - 1 \in 0 .. Len(q) /\ i - 1 < i
  BY <1>1, <1>4, <1>5
<1>7. Underway(r, plan, t[i - 1], Placed(q, i - 1))
  BY <1>4, <1>6
<1>8. Underway(r, plan, t[i], Placed(q, i))
  BY <1>2, <1>6, <1>7, ExecutionStep
<1> QED
  BY <1>4, <1>8

\* What every execution of a verified plan that carries out the whole change holds: safe
\* states, steps that are accepted with the conditions of their stage, and one end state.
LEMMA ExecutionHolds ==
  ASSUME NEW r, NEW plan, Verified(r, plan), Complete(r, plan.stages),
         IsFiniteSet(Nodes(r)), NEW q \in Executions(r, plan)
  PROVE  LET t == Trajectory(r, r.state, q)
         IN  /\ \A i \in 0 .. Len(q) : Safe(r, t[i])
             /\ \A i \in 1 .. Len(q) :
                  \E k \in 1 .. Len(plan.stages) :
                    StepHolds(r, plan.stages[k].basis, t[i - 1], q[i])
             /\ t[Len(q)] = plan.trace[Len(plan.stages) + 1]
<1> DEFINE t == Trajectory(r, r.state, q)
<1>1. /\ Len(q) \in Nat /\ \A i \in 1 .. Len(q) : q[i] \in Nodes(r)
      /\ \A o \in Nodes(r) : \E i \in 1 .. Len(q) : q[i] = o
  BY ExecutionShape
<1>2. \A i \in 0 .. Len(q) : Underway(r, plan, t[i], Placed(q, i))
  BY ExecutionUnderway
<1> HIDE DEF t
<1>3. \A i \in 0 .. Len(q) : Safe(r, t[i])
  BY <1>2, SafePosition
<1>4. ASSUME NEW i \in 1 .. Len(q)
      PROVE  \E k \in 1 .. Len(plan.stages) : StepHolds(r, plan.stages[k].basis, t[i - 1], q[i])
  <2>1. i - 1 \in 0 .. Len(q)
    BY <1>1
  <2> QED
    BY <1>2, <2>1, ExecutionStep
<1>5. t[Len(q)] = plan.trace[Len(plan.stages) + 1]
  <2>1. Len(q) \in 0 .. Len(q) /\ Len(plan.stages) \in 0 .. Len(plan.stages)
    BY <1>1, PlanShape
  <2>2. ASSUME NEW j \in 1 .. Len(plan.stages), NEW x \in 1 .. Len(Steps(plan, j))
        PROVE  Steps(plan, j)[x] \in Placed(q, Len(q)) /\ j <= Len(plan.stages)
    <3>1. Steps(plan, j)[x] \in Nodes(r)
      BY StepIsStaged
    <3> QED
      BY <1>1, <3>1 DEF Placed
  <2>3. Underway(r, plan, t[Len(q)], Placed(q, Len(q)))
    BY <1>2, <2>1
  <2> QED
    BY <2>1, <2>2, <2>3, BetweenStages
<1> QED
  BY <1>3, <1>4, <1>5 DEF t

\* A request has finitely many operations.
LEMMA FiniteNodes ==
  ASSUME NEW r \in Requests, NEW q \in Relaxations(r)
  PROVE  IsFiniteSet(Nodes(q))
<1>1. q.n \in Nat /\ Nodes(q) \in SUBSET (1 .. q.n)
  BY RequestFacts DEF Nodes
<1>2. IsFiniteSet(1 .. q.n)
  BY <1>1, FS_Interval
<1> QED
  BY <1>1, <1>2, FS_Subset

\* PublishedPlanSafe for every instance: verify_plan replays the interleavings of one stage
\* at a time, and yet every execution of a published plan, stage after stage and in any
\* order within a stage, keeps every obligation of the request before and after every
\* step, has every step accepted, and ends in the last state of the trace.
THEOREM PublishedPlansAreSafe == Spec => []PublishedPlanSafe
<1>1. Init => TypeInv /\ OrderInv /\ CoverInv
  BY InitTypeInv DEF Init, OrderInv, CoverInv
<1>2. TypeInv /\ OrderInv /\ CoverInv /\ [Next]_vars => TypeInv' /\ OrderInv' /\ CoverInv'
  BY NextTypeInv, NextOrderInv, NextCoverInv
<1>3. TypeInv /\ CoverInv => PublishedPlanSafe
  <2> SUFFICES ASSUME TypeInv, CoverInv, Published, NEW q \in Executions(request, result)
               PROVE  LET t == Trajectory(request, request.state, q)
                      IN  /\ \A i \in DOMAIN t : Safe(request, t[i])
                          /\ \A i \in DOMAIN q : CanApply(request, t[i - 1], q[i])
                          /\ t[Len(q)] = Last(result.trace)
    BY DEF PublishedPlanSafe
  <2>1. request \in Requests /\ Verified(request, result) /\ Complete(request, result.stages)
    BY DEF TypeInv, PlannerInv, CoverInv, Published, Nothing
  <2>2. request \in Relaxations(request)
    BY <2>1, RequestAssumption
  <2>3. IsFiniteSet(Nodes(request))
    BY <2>1, <2>2, FiniteNodes
  <2> DEFINE t == Trajectory(request, request.state, q)
  <2>4. /\ \A i \in 0 .. Len(q) : Safe(request, t[i])
        /\ \A i \in 1 .. Len(q) :
             \E k \in 1 .. Len(result.stages) :
               StepHolds(request, result.stages[k].basis, t[i - 1], q[i])
        /\ t[Len(q)] = result.trace[Len(result.stages) + 1]
    BY <2>1, <2>3, ExecutionHolds
  <2>5. Len(q) \in Nat /\ DOMAIN q = 1 .. Len(q)
    BY <2>3, ExecutionShape
  <2>6. DOMAIN t = 0 .. Len(q)
    BY <2>5, TrajectoryUnfolds
  <2>7. Last(result.trace) = result.trace[Len(result.stages) + 1]
    BY <2>1 DEF Last, Verified
  <2> HIDE DEF t
  <2>8. \A i \in DOMAIN q : CanApply(request, t[i - 1], q[i])
    BY <2>4, <2>5 DEF StepHolds
  <2> QED
    BY <2>4, <2>6, <2>7, <2>8 DEF t
<1> QED
  BY <1>1, <1>2, <1>3, PTL DEF Spec

-----------------------------------------------------------------------------
(* Relaxing the core a refusal reports unblocks the change. A trial of the *)
(* minimisation succeeds with a verified plan, and the order the search    *)
(* found for it is one of its executions: the operations had their         *)
(* preconditions where the search took them (Taken), and cutting the order *)
(* into stages did not change who comes first (InOrder).                   *)

\* The preconditions of every operation of seq, derived where it is taken, hold there.
Taken(r, seq) ==
  \A i \in 1 .. Len(seq) :
    Pre(r, Trajectory(r, r.state, seq)[i - 1], Trajectory(r, r.state, seq)[i - 1], seq[i])

\* No operation of seq comes up twice.
AllOnce(seq) == \A i, j \in 1 .. Len(seq) : seq[i] = seq[j] => i = j

\* What is staged comes in the order of its stages, and what is in the batch comes after.
InOrder(order, stages, batch) ==
  \A i, j \in 1 .. Len(order) : i < j =>
    /\ \A k, l \in 1 .. Len(stages) :
         order[i] \in ToSet(stages[k].steps) /\ order[j] \in ToSet(stages[l].steps) => k <= l
    /\ order[i] \in ToSet(batch) => order[j] \notin StagedOps(stages)

\* The order a candidate is made from, and what the plans found so far say of the request.
WorkOrdered ==
  /\ phase = "search" => Taken(req, search.order)
  /\ phase \in {"compress", "verify", "replay"} =>
       /\ ToSet(search.order) = Nodes(req) /\ AllOnce(search.order)
       /\ Taken(req, search.order)
       /\ InOrder(search.order, sched.stages, sched.batch)
  /\ phase \in {"candidate", "search", "compress", "verify", "replay"} =>
       pick.best = Nothing \/ Orderable(req)
  /\ phase = "settle" /\ Succeeded => Orderable(req)

\* What the minimisation has disabled suffices.
CoreOrdered ==
  /\ core.mode = "off" => core.disabled = <<>>
  /\ Trying => req = Relaxed(request, core.trial)
  /\ core.disabled # <<>> => Orderable(Relaxed(request, core.disabled))
  /\ phase = "done" => CoreUnblocks

\* The search takes an operation where its preconditions hold, and takes operations back
\* from the end.
LEMMA SearchTaken ==
  ASSUME SearchInv, OrderKept(req, search), Taken(req, search.order), SearchStep
  PROVE  Taken(req, search'.order)
<1> DEFINE order == search.order
           n == Len(order)
           t == Trajectory(req, req.state, order)
<1>1. /\ order \in Seq(1 .. req.n) /\ n \in Nat /\ IsSeq(order)
      /\ search = [stack |-> search.stack, applied |-> search.applied, order |-> search.order,
                   state |-> search.state, outcome |-> search.outcome]
  BY EntryOfSeq DEF SearchInv, SearchTypeOK, IsSeq
<1>2. CASE SearchCancelled \/ SearchComplete \/ SearchLimit
  <2>1. search'.order = search.order
    BY <1>1, <1>2 DEF SearchCancelled, SearchComplete, SearchLimit
  <2> QED
    BY <2>1
<1>3. CASE SearchCommit
  <2> DEFINE slot == Min(Usable)
             o == Top.ready[slot]
             more == Append(order, o)
             u == Trajectory(req, req.state, more)
  <2>1. Running /\ Usable # {}
    BY <1>3 DEF SearchCommit, Continues
  <2>2. slot \in Usable
    BY <2>1, SlotTypes, MinInSet
  <2> HIDE DEF slot
  <2>3. Pre(req, search.state, search.state, o)
    BY <2>2 DEF Usable, Viable
  <2>4. search'.order = more
    BY <1>1, <1>3 DEF SearchCommit, slot
  <2> HIDE DEF o
  <2>5. search.state = t[n]
    BY DEF OrderKept, Replay
  <2>6. \A i \in 0 .. n : u[i] = t[i]
    BY <1>1, TrajectoryAppend
  <2>7. Len(more) = n + 1 /\ more[n + 1] = o /\ \A i \in 1 .. n : more[i] = order[i]
    BY <1>1, AppendIsSeq
  <2>8. \A i \in 1 .. n : Pre(req, t[i - 1], t[i - 1], order[i])
    BY DEF Taken
  <2> HIDE DEF more, u, t
  <2>9. ASSUME NEW i \in 1 .. n + 1 PROVE Pre(req, u[i - 1], u[i - 1], more[i])
    <3>1. CASE i \in 1 .. n
      <4>1. i - 1 \in 0 .. n
        BY <1>1, <3>1
      <4> QED
        BY <2>6, <2>7, <2>8, <3>1, <4>1
    <3>2. CASE i = n + 1
      <4>1. i - 1 = n /\ n \in 0 .. n
        BY <1>1, <3>2
      <4>2. u[i - 1] = search.state /\ more[i] = o
        BY <2>5, <2>6, <2>7, <3>2, <4>1
      <4> QED
        BY <2>3, <4>2
    <3> QED
      BY <1>1, <3>1, <3>2
  <2> QED
    BY <2>4, <2>7, <2>9 DEF Taken, u
<1>4. CASE SearchBacktrack
  <2>1. search'.order = order \/ search'.order = Front(order)
    BY <1>1, <1>4 DEF SearchBacktrack
  <2>2. CASE n = 0
    <3>1. order = <<>>
      BY <1>1, <2>2, EmptySeqLength
    <3>2. Front(order) = <<>>
      BY <3>1, EmptyIsSeq DEF Front
    <3> QED
      BY <2>1, <3>1, <3>2
  <2>3. CASE n # 0
    <3> DEFINE less == Front(order)
               u == Trajectory(req, req.state, less)
    <3>1. Len(less) = n - 1 /\ \A i \in 1 .. n - 1 : less[i] = order[i]
      BY <1>1, <2>3, FrontEntries
    <3>2. \A i \in 0 .. n - 1 : u[i] = t[i]
      BY <1>1, <2>3, TrajectoryFront
    <3>3. \A i \in 1 .. n : Pre(req, t[i - 1], t[i - 1], order[i])
      BY DEF Taken
    <3> HIDE DEF less, u, t
    <3>4. ASSUME NEW i \in 1 .. n - 1 PROVE Pre(req, u[i - 1], u[i - 1], less[i])
      <4>1. i \in 1 .. n /\ i - 1 \in 0 .. n - 1
        BY <1>1
      <4> QED
        BY <3>1, <3>2, <3>3, <4>1
    <3>5. Taken(req, less)
      BY <3>1, <3>4 DEF Taken, u
    <3> QED
      BY <2>1, <3>5 DEF less
  <2> QED
    BY <2>2, <2>3
<1> QED
  BY <1>2, <1>3, <1>4 DEF SearchStep

\* Append adds one element.
LEMMA AppendToSet ==
  ASSUME NEW x, IsSeq(x), NEW e
  PROVE  ToSet(Append(x, e)) = ToSet(x) \cup {e}
<1>1. /\ Len(x) \in Nat /\ DOMAIN x = 1 .. Len(x)
      /\ DOMAIN Append(x, e) = 1 .. Len(x) + 1
      /\ \A i \in 1 .. Len(x) : Append(x, e)[i] = x[i]
      /\ Append(x, e)[Len(x) + 1] = e
  BY AppendIsSeq, SeqShape
<1>2. \A i \in 1 .. Len(x) + 1 : i \in 1 .. Len(x) \/ i = Len(x) + 1
  BY <1>1
<1>3. ToSet(Append(x, e)) \subseteq ToSet(x) \cup {e}
  BY <1>1, <1>2 DEF ToSet
<1>4. \A i \in 1 .. Len(x) : i \in 1 .. Len(x) + 1
  BY <1>1
<1>5. Len(x) + 1 \in 1 .. Len(x) + 1
  BY <1>1
<1>6. ToSet(x) \cup {e} \subseteq ToSet(Append(x, e))
  BY <1>1, <1>4, <1>5 DEF ToSet
<1> QED
  BY <1>3, <1>6

\* What comes after position i is not among the first i operations of an order.
LEMMA LaterNotPlaced ==
  ASSUME NEW order, Len(order) \in Nat, AllOnce(order),
         NEW i \in Nat, NEW j \in 1 .. Len(order), i < j
  PROVE  order[j] \notin Placed(order, i)
  BY DEF AllOnce, Placed

\* A batch becomes a stage after those there are; what is in the next batch comes after
\* everything that is staged then.
LEMMA FlushInOrder ==
  ASSUME NEW order, Len(order) \in Nat, NEW stages, IsSeq(stages), NEW batch,
         InOrder(order, stages, batch),
         NEW stage, ToSet(stage.steps) = ToSet(batch), NEW next,
         \A i, j \in 1 .. Len(order) :
           i < j /\ order[i] \in ToSet(next) => order[j] \notin StagedOps(stages) \cup ToSet(batch)
  PROVE  InOrder(order, Append(stages, stage), next)
<1> DEFINE n == Len(stages)
           more == Append(stages, stage)
<1>1. /\ n \in Nat /\ Len(more) = n + 1 /\ more[n + 1] = stage
      /\ \A k \in 1 .. n : more[k] = stages[k]
  BY SeqShape, AppendIsSeq
<1>2. StagedOps(more) = StagedOps(stages) \cup ToSet(batch)
  BY StageAdds
<1> HIDE DEF more
<1>3. ASSUME NEW i \in 1 .. Len(order), NEW j \in 1 .. Len(order), i < j,
             NEW k \in 1 .. n + 1, NEW l \in 1 .. n + 1,
             order[i] \in ToSet(more[k].steps), order[j] \in ToSet(more[l].steps)
      PROVE  k <= l
  <2>1. CASE l = n + 1
    BY <1>1, <2>1
  <2>2. CASE l \in 1 .. n /\ k \in 1 .. n
    BY <1>1, <1>3, <2>2 DEF InOrder
  <2>3. CASE l \in 1 .. n /\ k = n + 1
    <3>1. order[i] \in ToSet(batch)
      BY <1>1, <1>3, <2>3
    <3>2. order[j] \in StagedOps(stages)
      BY <1>1, <1>3, <2>3 DEF StagedOps
    <3> QED
      BY <1>3, <3>1, <3>2 DEF InOrder
  <2> QED
    BY <1>1, <2>1, <2>2, <2>3
<1> QED
  BY <1>1, <1>2, <1>3 DEF InOrder, more

\* Every action of the compression keeps what is staged in the order of the search, or
\* rejects the candidate.
LEMMA CompressInOrder ==
  ASSUME TypeInv, CoverInv, AllOnce(search.order),
         InOrder(search.order, sched.stages, sched.batch),
         FlushBatch \/ JoinBatch \/ SplitBatch \/ CheckSingle \/ FlushLast
  PROVE  \/ phase' = "candidate" /\ pick'.best = pick.best
         \/ /\ phase' \in {"compress", "verify"} /\ UNCHANGED pick
            /\ InOrder(search.order, sched'.stages, sched'.batch)
<1> DEFINE order == search.order
<1>1. phase = "compress"
  BY DEF FlushBatch, JoinBatch, SplitBatch, CheckSingle, FlushLast, Compressing
<1>2. /\ sched = [pos |-> sched.pos, batch |-> sched.batch, at |-> sched.at,
                  state |-> sched.state, stages |-> sched.stages]
      /\ sched.pos \in Nat \ {0} /\ sched.pos - 1 \in Nat /\ Len(order) \in Nat
      /\ IsSeq(sched.batch) /\ Cut(req, order, sched)
  BY <1>1, CutFacts
<1>3. IsSeq(sched.stages)
  BY <1>1 DEF TypeInv, PlannerInv, Scheduled
<1>4. ASSUME NEW limit, RejectCandidate(limit)
      PROVE  phase' = "candidate" /\ pick'.best = pick.best
  BY <1>4 DEF RejectCandidate, TypeInv, PlannerInv
<1>5. ToSet(<<>>) = {}
  BY DEF ToSet
<1>6. ASSUME sched.at # "single",
             NEW i \in 1 .. Len(order), NEW j \in 1 .. Len(order), i < j,
             order[i] = order[sched.pos], sched.pos <= Len(order)
      PROVE  order[j] \notin StagedOps(sched.stages) \cup ToSet(sched.batch)
  <2>1. sched.pos \in 1 .. Len(order)
    BY <1>2, <1>6
  <2>2. i = sched.pos
    BY <1>6, <2>1 DEF AllOnce
  <2>3. sched.pos - 1 < j
    BY <1>2, <1>6, <2>2
  <2>4. order[j] \notin Placed(order, sched.pos - 1)
    BY <1>2, <2>3, LaterNotPlaced
  <2> QED
    BY <1>2, <1>6, <2>4 DEF Cut
<1>7. ASSUME NEW permutations, NEW batch, NEW at, Flush(permutations, batch, at),
             batch = <<>> \/ (sched.at = "split" /\ batch = <<order[sched.pos]>>)
      PROVE  InOrder(order, sched'.stages, sched'.batch)
  <2>1. PICK stage : /\ sched'.stages = Append(sched.stages, stage)
                     /\ ToSet(stage.steps) = ToSet(sched.batch)
    BY <1>1, <1>2, <1>7, FlushCovers
  <2>2. sched'.batch = batch
    BY <1>1, <1>2, <1>7, FlushCovers
  <2>3. ASSUME NEW i \in 1 .. Len(order), NEW j \in 1 .. Len(order), i < j,
               order[i] \in ToSet(batch)
        PROVE  order[j] \notin StagedOps(sched.stages) \cup ToSet(sched.batch)
    <3>1. sched.at = "split" /\ batch = <<order[sched.pos]>>
      BY <1>5, <1>7, <2>3
    <3>2. order[i] = order[sched.pos]
      BY <2>3, <3>1 DEF ToSet
    <3>3. sched.pos <= Len(order) /\ sched.at # "single"
      BY <1>2, <3>1 DEF Cut
    <3> QED
      BY <1>6, <2>3, <3>2, <3>3
  <2> QED
    BY <1>2, <1>3, <2>1, <2>2, <2>3, FlushInOrder
<1>8. CASE FlushBatch
  <2>1. CASE Check(sched.batch).verdict = "ok"
    <3>1. /\ Flush(Check(sched.batch).permutations, <<>>, "next")
          /\ UNCHANGED <<phase, pick>>
      BY <1>8, <2>1 DEF FlushBatch
    <3> QED
      BY <1>1, <1>7, <3>1
  <2>2. CASE Check(sched.batch).verdict # "ok"
    BY <1>4, <1>8, <2>2 DEF FlushBatch
  <2> QED
    BY <2>1, <2>2
<1>9. CASE JoinBatch
  <2> DEFINE trial == Append(sched.batch, Operation)
  <2>0. sched.at = "next" /\ sched.pos <= Len(order)
    BY <1>9 DEF JoinBatch, Compressing, Pending
  <2>1. CASE Check(trial).verdict = "ok"
    <3>1. sched' = [sched EXCEPT !.batch = trial, !.pos = @ + 1] /\ UNCHANGED <<phase, pick>>
      BY <1>9, <2>1 DEF JoinBatch
    <3>2. sched'.stages = sched.stages /\ sched'.batch = trial
      BY <1>2, <3>1
    <3>3. ToSet(trial) = ToSet(sched.batch) \cup {order[sched.pos]}
      BY <1>2, AppendToSet DEF Operation
    <3> HIDE DEF trial
    <3>4. ASSUME NEW i \in 1 .. Len(order), NEW j \in 1 .. Len(order), i < j,
                 order[i] \in ToSet(trial)
          PROVE  order[j] \notin StagedOps(sched.stages)
      <4>1. CASE order[i] \in ToSet(sched.batch)
        BY <3>4, <4>1 DEF InOrder
      <4>2. CASE order[i] = order[sched.pos]
        BY <1>6, <2>0, <3>4, <4>2
      <4> QED
        BY <3>3, <3>4, <4>1, <4>2
    <3>5. InOrder(order, sched.stages, trial)
      BY <3>4 DEF InOrder
    <3> QED
      BY <1>1, <3>1, <3>2, <3>5
  <2>2. CASE Check(trial).verdict = "unsafe" /\ sched.batch # <<>>
    <3>1. sched' = [sched EXCEPT !.at = "split"] /\ UNCHANGED <<phase, pick>>
      BY <1>9, <2>2 DEF JoinBatch
    <3>2. sched'.stages = sched.stages /\ sched'.batch = sched.batch
      BY <1>2, <3>1
    <3> QED
      BY <1>1, <3>1, <3>2
  <2>3. CASE /\ Check(trial).verdict # "ok"
             /\ ~(Check(trial).verdict = "unsafe" /\ sched.batch # <<>>)
    BY <1>4, <1>9, <2>3 DEF JoinBatch
  <2> QED
    BY <2>1, <2>2, <2>3
<1>10. CASE SplitBatch
  <2>1. CASE Check(sched.batch).verdict = "ok"
    <3>1. /\ Flush(Check(sched.batch).permutations, <<order[sched.pos]>>, "single")
          /\ UNCHANGED <<phase, pick>> /\ sched.at = "split"
      BY <1>10, <2>1 DEF SplitBatch, Compressing, Operation
    <3> QED
      BY <1>1, <1>7, <3>1
  <2>2. CASE Check(sched.batch).verdict # "ok"
    BY <1>4, <1>10, <2>2 DEF SplitBatch
  <2> QED
    BY <2>1, <2>2
<1>11. CASE CheckSingle
  <2>1. CASE Check(sched.batch).verdict = "ok"
    <3>1. sched' = [sched EXCEPT !.pos = @ + 1, !.at = "next"] /\ UNCHANGED <<phase, pick>>
      BY <1>11, <2>1 DEF CheckSingle
    <3>2. sched'.stages = sched.stages /\ sched'.batch = sched.batch
      BY <1>2, <3>1
    <3> QED
      BY <1>1, <3>1, <3>2
  <2>2. CASE Check(sched.batch).verdict # "ok"
    BY <1>4, <1>11, <2>2 DEF CheckSingle
  <2> QED
    BY <2>1, <2>2
<1>12. CASE FlushLast
  BY <1>4, <1>7, <1>12 DEF FlushLast
<1> QED
  BY <1>8, <1>9, <1>10, <1>11, <1>12

\* The order a verified plan was cut from is one of its executions.
LEMMA OrderIsExecution ==
  ASSUME NEW r, NEW plan, Verified(r, plan), NEW S, NEW order \in Seq(S),
         ToSet(order) = Nodes(r), AllOnce(order), NEW batch, InOrder(order, plan.stages, batch)
  PROVE  order \in Executions(r, plan)
<1>1. Len(order) \in Nat /\ DOMAIN order = 1 .. Len(order)
  BY EntryOfSeq
<1>2. Cardinality(Nodes(r)) = Len(order)
  BY DistinctCount DEF AllOnce
<1>3. order \in [1 .. Len(order) -> Nodes(r)]
  <2>1. \A i \in 1 .. Len(order) : order[i] \in Nodes(r)
    BY <1>1 DEF ToSet
  <2> QED
    BY <1>1, <2>1
<1>4. IsInjective(order)
  BY <1>1 DEF AllOnce, IsInjective
<1>5. order \in Orders(r)
  BY <1>2, <1>3, <1>4 DEF Orders
<1>6. DOMAIN plan.stages = 1 .. Len(plan.stages)
  BY PlanShape
<1>7. \A i, j \in DOMAIN order, k, l \in DOMAIN plan.stages :
        i < j /\ Staged(plan, order[i], k) /\ Staged(plan, order[j], l) => k <= l
  BY <1>1, <1>6 DEF InOrder, Staged
<1> QED
  BY <1>5, <1>7 DEF Executions

\* An execution of a verified plan whose operations had their preconditions where they
\* were taken is a safe order of the request.
LEMMA OrderableBy ==
  ASSUME NEW r, NEW plan, Verified(r, plan), Complete(r, plan.stages), IsFiniteSet(Nodes(r)),
         NEW q \in Executions(r, plan), Taken(r, q)
  PROVE  Orderable(r)
<1> DEFINE t == Trajectory(r, r.state, q)
<1>1. /\ Len(q) \in Nat /\ DOMAIN q = 1 .. Len(q)
      /\ \A i \in 1 .. Len(q) : q[i] \in Nodes(r)
  BY ExecutionShape
<1>2. \A i \in 1 .. Len(q) :
        \E k \in 1 .. Len(plan.stages) : StepHolds(r, plan.stages[k].basis, t[i - 1], q[i])
  BY ExecutionHolds
<1>3. \A i \in 1 .. Len(q) : Pre(r, t[i - 1], t[i - 1], q[i])
  BY DEF Taken
<1> HIDE DEF t
<1>4. \A i \in 1 .. Len(q) : StepHolds(r, t[i - 1], t[i - 1], q[i])
  BY <1>2, <1>3 DEF StepHolds
<1>5. ASSUME NEW e \in Edges(r), NEW i \in 1 .. Len(q), NEW j \in 1 .. Len(q),
             q[i] = e[1], q[j] = e[2]
      PROVE  i < j
  <2>1. PICK a, b \in Places(plan.stages) :
          a[1] < b[1] /\ At(plan.stages, a) = e[1] /\ At(plan.stages, b) = e[2]
    BY DEF Verified, PlanStructure
  <2>2. /\ a[1] \in DOMAIN plan.stages /\ b[1] \in DOMAIN plan.stages
        /\ Staged(plan, e[1], a[1]) /\ Staged(plan, e[2], b[1])
    <3>1. ASSUME NEW p \in Places(plan.stages)
          PROVE  p[1] \in DOMAIN plan.stages /\ Staged(plan, At(plan.stages, p), p[1])
      <4>0. PICK k \in DOMAIN plan.stages :
              \E x \in DOMAIN plan.stages[k].steps : p = <<k, x>>
        BY DEF Places
      <4>1. PICK x \in DOMAIN plan.stages[k].steps : p = <<k, x>>
        BY <4>0
      <4>2. At(plan.stages, p) = plan.stages[k].steps[x] /\ p[1] = k
        BY <4>1 DEF At
      <4> QED
        BY <4>1, <4>2 DEF Staged, ToSet
    <3> QED
      BY <2>1, <3>1
  <2>3. i # j
    <3>1. SUFFICES ASSUME i = j PROVE FALSE
      OBVIOUS
    <3>2. a = b
      BY <1>5, <2>1, <3>1 DEF Verified, PlanStructure
    <3>3. a[1] \in Nat
      BY <2>2, PlanShape
    <3> QED
      BY <2>1, <3>2, <3>3
  <2>4. ~(j < i)
    <3>1. SUFFICES ASSUME j < i PROVE FALSE
      OBVIOUS
    <3>2. b[1] <= a[1]
      BY <1>1, <1>5, <2>2, <3>1 DEF Executions
    <3>3. a[1] \in Nat /\ b[1] \in Nat
      BY <2>2, PlanShape
    <3> QED
      BY <2>1, <3>2, <3>3
  <2> QED
    BY <2>3, <2>4
<1>6. SafeOrder(r, q)
  BY <1>1, <1>4, <1>5 DEF SafeOrder, t
<1>7. q \in Orders(r) /\ Safe(r, r.state)
  BY DEF Executions, Verified
<1> QED
  BY <1>6, <1>7 DEF Orderable

\* A request with nothing to do is orderable if its state is safe.
LEMMA NothingToDo ==
  ASSUME NEW r \in Requests, NEW q \in Relaxations(r), Gate(q) = "converged"
  PROVE  Orderable(q)
<1>1. q.derives = r.derives /\ q.ordered = r.ordered
  BY CodeAssumption DEF Relaxations
<1>2. Safe(q, q.state) /\ Nodes(q) = {}
  BY <1>1, CodeAssumption DEF Gate
<1> DEFINE order == [i \in 1 .. 0 |-> i]
<1>3. Cardinality(Nodes(q)) = 0
  BY <1>2, FS_EmptySet
<1>4. order \in Orders(q)
  <2>1. order \in [1 .. 0 -> Nodes(q)]
    OBVIOUS
  <2>2. IsInjective(order)
    BY DEF IsInjective
  <2> QED
    BY <1>3, <2>1, <2>2 DEF Orders
<1>5. SafeOrder(q, order)
  <2>1. DOMAIN order = {}
    OBVIOUS
  <2> HIDE DEF order
  <2> QED
    BY <2>1 DEF SafeOrder
<1> QED
  BY <1>2, <1>4, <1>5 DEF Orderable

\* Every step keeps the order of a candidate a safe order of the request planned for.
LEMMA NextWorkOrdered ==
  TypeInv /\ OrderInv /\ CoverInv /\ WorkOrdered /\ [Next]_vars => WorkOrdered'
<1> SUFFICES ASSUME TypeInv, OrderInv, CoverInv, WorkOrdered, [Next]_vars PROVE WorkOrdered'
  OBVIOUS
<1> USE DEF Nothing, Failed, PlanOf
<1>0. /\ request \in Requests /\ req \in Relaxations(request)
      /\ search.order \in Seq(1 .. req.n) /\ Len(search.order) \in Nat
      /\ DOMAIN search.order = 1 .. Len(search.order)
  BY EntryOfSeq DEF TypeInv, PlannerInv, WorkTypeOK, SearchTypeOK
<1>1. ASSUME phase' \in {"begin", "core", "done"} PROVE WorkOrdered'
  BY <1>1 DEF WorkOrdered
<1>2. ASSUME phase' = "settle", attempt'.kind = "failed" PROVE WorkOrdered'
  BY <1>2 DEF WorkOrdered, Succeeded
<1>3. ASSUME phase \in {"candidate", "search", "compress", "verify", "replay"},
             phase' = "candidate", pick'.best = pick.best, UNCHANGED req
      PROVE  WorkOrdered'
  BY <1>3 DEF WorkOrdered
<1>4. CASE Admit \/ RefuseInput
  BY <1>1, <1>4 DEF Admit, RefuseInput, Return
<1>5. CASE AttemptScheduled
  BY <1>5 DEF AttemptScheduled, NoPick, WorkOrdered
<1>6. CASE AttemptConverged
  <2>1. phase' = "settle" /\ Gate(req) = "converged" /\ UNCHANGED req
    BY <1>6 DEF AttemptConverged, EndAttempt, searchVars
  <2>2. Orderable(req)
    BY <1>0, <2>1, NothingToDo
  <2> QED
    BY <2>1, <2>2 DEF WorkOrdered
<1>7. CASE AttemptBarred
  BY <1>2, <1>7 DEF AttemptBarred, EndAttempt
<1>8. CASE LoopEnds
  <2>1. phase = "candidate" /\ phase' = "settle" /\ UNCHANGED req
        /\ ((attempt' = pick.best /\ pick.best # Nothing) \/ attempt'.kind = "failed")
    BY <1>8 DEF LoopEnds, EndAttempt, searchVars
  <2> QED
    BY <1>2, <2>1 DEF WorkOrdered
<1>9. CASE LoopCancelled \/ LoopOutOfAttempts
  BY <1>2, <1>9 DEF LoopCancelled, LoopOutOfAttempts, EndAttempt
<1>10. CASE StartCandidate
  <2>1. /\ phase = "candidate" /\ phase' = "search" /\ UNCHANGED <<req, pick>>
        /\ search'.order = <<>>
    BY <1>10 DEF StartCandidate, StartSearch
  <2>2. Taken(req, <<>>)
    BY EmptyIsSeq DEF Taken
  <2> QED
    BY <2>1, <2>2 DEF WorkOrdered
<1>11. CASE Searching
  <2>1. /\ phase = "search" /\ SearchStep /\ SearchInv /\ OrderKept(req, search)
        /\ Taken(req, search.order) /\ UNCHANGED <<phase, pick>>
    BY <1>11 DEF Searching, TypeInv, PlannerInv, WorkTypeOK, SearchInv, OrderInv, WorkOrdered
  <2>2. UNCHANGED req
    BY <2>1 DEF SearchStep, SearchCancelled, SearchComplete, SearchLimit, SearchCommit,
           SearchBacktrack
  <2>3. Taken(req, search'.order)
    BY <2>1, SearchTaken
  <2> QED
    BY <2>1, <2>2, <2>3 DEF WorkOrdered
<1>12. CASE OrderFound
  <2>1. /\ phase = "search" /\ phase' = "compress" /\ search.outcome = "found"
        /\ sched' = NoSchedule /\ UNCHANGED <<req, search, pick>>
    BY <1>12 DEF OrderFound, searchVars
  <2>2. ToSet(search.order) = Nodes(req) /\ AllOnce(search.order)
    BY <2>1 DEF CoverInv, OrderInv, OrderKept, AllOnce
  <2>3. sched'.stages = <<>> /\ sched'.batch = <<>>
    BY <2>1 DEF NoSchedule
  <2>4. InOrder(search.order, <<>>, <<>>)
    BY EmptyIsSeq DEF InOrder, ToSet
  <2> QED
    BY <2>1, <2>2, <2>3, <2>4 DEF WorkOrdered
<1>13. CASE SearchStopped
  BY <1>2, <1>13 DEF SearchStopped, EndAttempt
<1>14. CASE OrderMissing
  BY <1>3, <1>14 DEF OrderMissing, RejectCandidate, TypeInv, PlannerInv, searchVars
<1>15. CASE FlushBatch \/ JoinBatch \/ SplitBatch \/ CheckSingle \/ FlushLast
  <2>1. phase = "compress" /\ UNCHANGED <<req, search>>
    BY <1>15 DEF FlushBatch, JoinBatch, SplitBatch, CheckSingle, FlushLast, Compressing,
                 compressUnchanged
  <2>2. \/ phase' = "candidate" /\ pick'.best = pick.best
        \/ /\ phase' \in {"compress", "verify"} /\ UNCHANGED pick
           /\ InOrder(search.order, sched'.stages, sched'.batch)
    BY <1>15, <2>1, CompressInOrder DEF WorkOrdered
  <2>3. CASE phase' = "candidate" /\ pick'.best = pick.best
    BY <1>3, <2>1, <2>3
  <2>4. CASE /\ phase' \in {"compress", "verify"} /\ UNCHANGED pick
             /\ InOrder(search.order, sched'.stages, sched'.batch)
    BY <2>1, <2>4 DEF WorkOrdered
  <2> QED
    BY <2>2, <2>3, <2>4
<1>16. CASE VerifyStructure \/ VerifyStage
  <2>1. /\ phase \in {"verify", "replay"} /\ UNCHANGED <<req, search, sched>>
        /\ \/ phase' = "replay" /\ UNCHANGED pick
           \/ phase' = "candidate" /\ pick'.best = pick.best
    BY <1>16 DEF VerifyStructure, VerifyStage, RejectCandidate, searchVars, TypeInv, PlannerInv
  <2> QED
    BY <1>3, <2>1 DEF WorkOrdered
<1>17. CASE SelectPlan
  <2>1. /\ phase = "replay" /\ phase' = "candidate" /\ UNCHANGED req
        /\ report.next > Len(sched.stages)
    BY <1>17 DEF SelectPlan, searchVars
  <2> DEFINE plan == PlanOf(sched.stages, report.trace)
  <2>2. Verified(req, plan)
    BY <2>1, ReplayedIsVerified DEF TypeInv, PlannerInv
  <2>3. plan.stages = sched.stages
    OBVIOUS
  <2>4. Complete(req, plan.stages)
    BY <2>1, <2>3 DEF CoverInv
  <2>5. /\ ToSet(search.order) = Nodes(req) /\ AllOnce(search.order)
        /\ Taken(req, search.order)
        /\ InOrder(search.order, plan.stages, sched.batch)
    BY <2>1, <2>3 DEF WorkOrdered
  <2> HIDE DEF plan
  <2>6. search.order \in Executions(req, plan)
    BY <1>0, <2>2, <2>5, OrderIsExecution
  <2>7. Orderable(req)
    BY <1>0, <2>2, <2>4, <2>5, <2>6, FiniteNodes, OrderableBy
  <2> QED
    BY <2>1, <2>7 DEF WorkOrdered
<1>18. CASE SettleMain
  BY <1>1, <1>18 DEF SettleMain, Return
<1>19. CASE GrowCore \/ ShrinkCore
  BY <1>1, <1>19 DEF GrowCore, ShrinkCore, TryWithout
<1>20. CASE GrowthEnds \/ ShrinkEnds
  BY <1>1, <1>20 DEF GrowthEnds, ShrinkEnds, CoreFinished, Return
<1>21. CASE SettleGrow \/ SettleShrink
  BY <1>1, <1>21 DEF SettleGrow, SettleShrink, CoreFinished, Return
<1>22. CASE RequestStop \/ Returned \/ UNCHANGED vars
  <2>1. UNCHANGED <<req, search, phase, pick, sched, attempt>>
    BY <1>22 DEF RequestStop, Returned, vars
  <2> QED
    BY <2>1 DEF WorkOrdered, Succeeded
<1> QED
  BY <1>4, <1>5, <1>6, <1>7, <1>8, <1>9, <1>10, <1>11, <1>12, <1>13, <1>14, <1>15, <1>16,
     <1>17, <1>18, <1>19, <1>20, <1>21, <1>22 DEF Next, PlannerStep

\* Every step keeps what is disabled sufficient.
LEMMA NextCoreOrdered ==
  PlannerInv /\ WorkOrdered /\ CoreOrdered /\ [Next]_vars => CoreOrdered'
<1> SUFFICES ASSUME PlannerInv, WorkOrdered, CoreOrdered, [Next]_vars PROVE CoreOrdered'
  OBVIOUS
<1> USE DEF Nothing, Refusal
<1>0. UNCHANGED request
  BY NextRequest DEF vars
<1>1. core = [mode |-> core.mode, disabled |-> core.disabled, trial |-> core.trial,
              next |-> core.next, attempts |-> core.attempts, code |-> core.code]
  BY DEF PlannerInv
<1>2. ToSet(<<>>) = {}
  BY DEF ToSet
<1>3. ASSUME UNCHANGED <<core, req>>, phase \notin {"core", "done"}, phase' # "done"
      PROVE  CoreOrdered'
  BY <1>0, <1>3 DEF CoreOrdered, Trying
<1>4. ASSUME UNCHANGED core, phase' = "done", result'.kind # "refusal" \/ result'.blocking = {}
      PROVE  CoreOrdered'
  BY <1>0, <1>4 DEF CoreOrdered, Trying, CoreUnblocks
<1>5. ASSUME NEW disabled, disabled = <<>> \/ disabled = core.disabled, core.mode # "off",
             CoreFinished(disabled)
      PROVE  CoreOrdered'
  <2>1. /\ phase' = "done" /\ result'.blocking = ToSet(disabled)
        /\ core'.mode = core.mode /\ core'.disabled = disabled
    BY <1>1, <1>5 DEF CoreFinished, Return
  <2>2. disabled # <<>> => Orderable(Relaxed(request, disabled))
    BY <1>5 DEF CoreOrdered
  <2>3. result'.blocking # {} => Orderable(Relaxed(request, disabled))
    BY <1>2, <2>1, <2>2
  <2>4. Relaxed(request, disabled) = [request EXCEPT !.enforced = @ \ result'.blocking]
    BY <2>1 DEF Relaxed
  <2>5. CoreUnblocks'
    BY <1>0, <2>3, <2>4 DEF CoreUnblocks
  <2> QED
    BY <1>0, <1>5, <2>1, <2>2, <2>5 DEF CoreOrdered, Trying
<1>6. ASSUME NEW disabled, NEW next, core.mode # "off", TryWithout(disabled, next)
      PROVE  CoreOrdered'
  <2>1. /\ phase' = "begin" /\ req' = Relaxed(request, disabled)
        /\ core'.mode = core.mode /\ core'.disabled = core.disabled /\ core'.trial = disabled
    <3>1. core' = [core EXCEPT !.trial = disabled, !.next = next,
                               !.attempts = Min({@ + 1, AttemptBound})]
      BY <1>6 DEF TryWithout
    <3> QED
      BY <1>1, <1>6, <3>1 DEF TryWithout
  <2> QED
    BY <1>0, <1>6, <2>1 DEF CoreOrdered, Trying
<1>7. CASE Admit
  BY <1>3, <1>7 DEF Admit, searchVars
<1>8. CASE RefuseInput
  <2>1. UNCHANGED core /\ phase' = "done" /\ result' = Refusal(request.admit, {})
    BY <1>8 DEF RefuseInput, Return
  <2>2. result'.blocking = {}
    BY <2>1
  <2> QED
    BY <1>4, <2>1, <2>2
<1>9. CASE \/ AttemptScheduled \/ AttemptConverged \/ AttemptBarred
           \/ LoopEnds \/ LoopCancelled \/ LoopOutOfAttempts \/ StartCandidate
  BY <1>3, <1>9 DEF AttemptScheduled, AttemptConverged, AttemptBarred, LoopEnds, LoopCancelled,
     LoopOutOfAttempts, StartCandidate, EndAttempt, searchVars
<1>10. CASE Searching \/ OrderFound \/ SearchStopped \/ OrderMissing
  <2>1. Searching => UNCHANGED req
    BY DEF Searching, SearchStep, SearchCancelled, SearchComplete, SearchLimit, SearchCommit,
           SearchBacktrack
  <2> QED
    BY <1>3, <1>10, <2>1 DEF Searching, OrderFound, SearchStopped, OrderMissing, EndAttempt,
       RejectCandidate, searchVars
<1>11. CASE FlushBatch \/ JoinBatch \/ SplitBatch \/ CheckSingle \/ FlushLast
  <2>1. /\ phase = "compress" /\ UNCHANGED <<core, req>> /\ phase' # "done"
    BY <1>11 DEF FlushBatch, JoinBatch, SplitBatch, CheckSingle, FlushLast, Compressing,
                 compressUnchanged, RejectCandidate
  <2> QED
    BY <1>3, <2>1
<1>12. CASE VerifyStructure \/ VerifyStage \/ SelectPlan
  BY <1>3, <1>12 DEF VerifyStructure, VerifyStage, SelectPlan, RejectCandidate, searchVars
<1>13. CASE SettleMain
  <2>1. phase = "settle" /\ core.mode = "off"
    BY <1>13 DEF SettleMain
  <2>2. CASE Succeeded
    <3>1. phase' = "done" /\ result' = attempt /\ UNCHANGED core /\ attempt.kind = "plan"
      BY <1>13, <2>2 DEF SettleMain, Return, Succeeded
    <3> QED
      BY <1>4, <3>1
  <2>3. CASE ~Succeeded /\ attempt.code \in OrderingFailures /\ request.enforced # {}
    <3>1. phase' = "core" /\ core' = [NoCore EXCEPT !.mode = "grow", !.code = attempt.code]
      BY <1>13, <2>3 DEF SettleMain
    <3>2. core'.mode = "grow" /\ core'.disabled = <<>>
      BY <3>1 DEF NoCore
    <3> QED
      BY <3>1, <3>2 DEF CoreOrdered, Trying
  <2>4. CASE ~Succeeded /\ ~(attempt.code \in OrderingFailures /\ request.enforced # {})
    <3>1. phase' = "done" /\ result' = Refusal(attempt.code, {}) /\ UNCHANGED core
      BY <1>13, <2>4 DEF SettleMain, Return
    <3>2. result'.blocking = {}
      BY <3>1
    <3> QED
      BY <1>4, <3>1, <3>2
  <2> QED
    BY <2>2, <2>3, <2>4
<1>14. CASE GrowCore \/ ShrinkCore
  BY <1>6, <1>14 DEF GrowCore, ShrinkCore
<1>15. CASE GrowthEnds
  <2>1. CASE core.disabled = <<>>
    BY <1>5, <1>15, <2>1 DEF GrowthEnds
  <2>2. CASE core.disabled # <<>>
    <3>1. UNCHANGED phase /\ phase = "core" /\ core.mode = "grow"
          /\ core' = [core EXCEPT !.mode = "shrink", !.next = 1]
      BY <1>15, <2>2 DEF GrowthEnds
    <3>2. core'.mode = "shrink" /\ core'.disabled = core.disabled
      BY <1>1, <3>1
    <3> QED
      BY <1>0, <3>1, <3>2 DEF CoreOrdered, Trying
  <2> QED
    BY <2>1, <2>2
<1>16. CASE ShrinkEnds
  BY <1>5, <1>16 DEF ShrinkEnds
<1>17. CASE SettleGrow \/ SettleShrink
  <2>1. phase = "settle" /\ core.mode # "off"
    BY <1>17 DEF SettleGrow, SettleShrink
  <2>2. CASE Cancelled
    BY <1>5, <1>17, <2>1, <2>2 DEF SettleGrow, SettleShrink
  <2>3. CASE ~Cancelled
    <3>1. Succeeded => Orderable(Relaxed(request, core.trial))
      BY <2>1 DEF WorkOrdered, CoreOrdered, Trying
    <3>2. /\ phase' = "core" /\ core'.mode = core.mode
          /\ \/ Succeeded /\ core'.disabled = core.trial
             \/ core'.disabled = core.disabled
      BY <1>1, <1>17, <2>3 DEF SettleGrow, SettleShrink
    <3> QED
      BY <1>0, <2>1, <3>1, <3>2 DEF CoreOrdered, Trying
  <2> QED
    BY <2>2, <2>3
<1>18. CASE RequestStop
  BY <1>0, <1>18 DEF RequestStop, CoreOrdered, Trying
<1>19. CASE Returned \/ UNCHANGED vars
  BY <1>19 DEF Returned, vars, CoreOrdered, Trying, CoreUnblocks
<1> QED
  BY <1>7, <1>8, <1>9, <1>10, <1>11, <1>12, <1>13, <1>14, <1>15, <1>16, <1>17, <1>18, <1>19
     DEF Next, PlannerStep

\* CoreUnblocks for every instance: whenever minimise_blocking_core ends, at its end, on a
\* budget or on a stop, the change can be ordered safely without the obligations it
\* reports, if it reports any.
THEOREM CoresUnblock == Spec => []CoreUnblocks
<1> DEFINE Inv == TypeInv /\ OrderInv /\ CoverInv /\ WorkOrdered /\ CoreOrdered
<1>1. Init => Inv
  <2> SUFFICES ASSUME Init PROVE Inv
    OBVIOUS
  <2>1. phase = "admit" /\ core.mode = "off" /\ core.disabled = <<>>
    BY DEF Init, NoCore
  <2> QED
    BY <2>1, InitTypeInv DEF OrderInv, CoverInv, WorkOrdered, CoreOrdered, Trying
<1>2. Inv /\ [Next]_vars => Inv'
  <2> SUFFICES ASSUME Inv, [Next]_vars PROVE Inv'
    OBVIOUS
  <2>1. PlannerInv
    BY DEF TypeInv
  <2> QED
    BY <2>1, NextTypeInv, NextOrderInv, NextCoverInv, NextWorkOrdered, NextCoreOrdered
<1>3. Inv => CoreUnblocks
  <2> SUFFICES ASSUME Inv PROVE CoreUnblocks
    OBVIOUS
  <2>1. CASE phase = "done"
    BY <2>1 DEF CoreOrdered
  <2>2. CASE phase # "done"
    BY <2>2 DEF TypeInv, PlannerInv, Nothing, CoreUnblocks
  <2> QED
    BY <2>1, <2>2
<1> HIDE DEF Inv
<1> QED
  BY <1>1, <1>2, <1>3, PTL DEF Spec

-----------------------------------------------------------------------------
(* Planner and executor together                                           *)

\* The fabric and the steps carried out match the plan as long as there is one.
RolloutInv ==
  /\ PlannerInv
  /\ fabric \in States
  /\ IsSeq(carried)
  /\ ~Published => fabric = request.state /\ carried = <<>>
  /\ Published => Underway(request, result, fabric, ToSet(carried))

\* A published plan is a verified plan of the caller's request.
LEMMA PublishedIsVerified == PlannerInv /\ Published => Verified(request, result)
  BY DEF PlannerInv, Published, Nothing

\* The empty sequence has no elements.
LEMMA EmptySet == ToSet(<<>>) = {}
  BY DEF ToSet

\* RolloutInv holds before anything is planned.
LEMMA InitRolloutInv == RolloutInit => RolloutInv
<1> SUFFICES ASSUME RolloutInit PROVE RolloutInv
  OBVIOUS
<1>1. PlannerInv /\ result.kind = "none" /\ request \in Requests
  BY InitPlannerInv DEF RolloutInit, Init, Nothing
<1> QED
  BY <1>1, RequestAssumption, EmptyIsSeq DEF RolloutInit, RolloutInv, Published

\* An open step of a stage that has begun is accepted, and the plan moves on with it.
LEMMA OpenStep ==
  ASSUME PlannerInv, Published, Underway(request, result, fabric, ToSet(carried)),
         NEW k, Begun(k), NEW o \in Open(k)
  PROVE  /\ Accepts(k, o)
         /\ Underway(request, result, Apply(request, fabric, o), ToSet(carried) \cup {o})
<1>1. Verified(request, result)
  BY PublishedIsVerified
<1>2. k \in 1 .. Len(result.stages)
  BY <1>1, PlanShape DEF Begun
<1>3. PICK x \in 1 .. Len(Steps(result, k)) : o = Steps(result, k)[x]
  BY <1>1, <1>2, PlanShape DEF Open, ToSet, Steps
<1>4. o \notin ToSet(carried)
  BY DEF Open
<1>5. ASSUME NEW j \in 1 .. k - 1, NEW i \in 1 .. Len(Steps(result, j))
      PROVE  Steps(result, j)[i] \in ToSet(carried)
  <2>1. ToSet(Steps(result, j)) \subseteq ToSet(carried)
    BY DEF Begun, Steps
  <2>2. j \in 1 .. Len(result.stages)
    BY <1>1, <1>2, PlanShape
  <2>3. Steps(result, j)[i] \in ToSet(Steps(result, j))
    BY <1>1, <2>2, PlanShape DEF ToSet
  <2> QED
    BY <2>1, <2>3
<1>6. \E p \in FullOrders(Len(Steps(result, k))), m \in 0 .. Len(Steps(result, k)) - 1 :
        p[m + 1] = x /\ Position(request, result, fabric, ToSet(carried), k, p, m)
  BY <1>1, <1>2, <1>3, <1>4, <1>5, OpenIsNext
<1>7. PICK p \in FullOrders(Len(Steps(result, k))), m \in 0 .. Len(Steps(result, k)) - 1 :
        p[m + 1] = x /\ Position(request, result, fabric, ToSet(carried), k, p, m)
  BY <1>6
<1> QED
  BY <1>1, <1>2, <1>3, <1>7, TakeNext DEF Accepts, StepHolds

\* Every step of the planner and of the executor preserves RolloutInv.
LEMMA NextRolloutInv == RolloutInv /\ [RolloutNext]_rolloutVars => RolloutInv'
<1> SUFFICES ASSUME RolloutInv, [RolloutNext]_rolloutVars PROVE RolloutInv'
  OBVIOUS
<1>1. ASSUME Planning PROVE RolloutInv'
  <2>1. PlannerInv'
    BY <1>1, NextPlannerInv DEF Planning, RolloutInv
  <2>2. UNCHANGED <<fabric, carried, request>>
    BY <1>1, NextRequest DEF Planning
  <2>3. CASE Published
    <3>1. result' = result
      BY <1>1, <2>3, NextResult DEF Planning, RolloutInv, Published, Nothing
    <3> QED
      BY <2>1, <2>2, <2>3, <3>1 DEF RolloutInv, Published
  <2>4. CASE ~Published /\ ~Published'
    BY <2>1, <2>2, <2>4 DEF RolloutInv
  <2>5. CASE ~Published /\ Published'
    <3>1. Verified(request', result')
      BY <2>1, <2>5 DEF PlannerInv, Published, Nothing
    <3>2. Underway(request', result', request'.state, {})
      BY <3>1, NewPlan
    <3> QED
      BY <2>1, <2>2, <2>5, <3>2, EmptySet DEF RolloutInv
  <2> QED
    BY <2>3, <2>4, <2>5
<1>2. ASSUME NEW o \in Nodes(request), NEW k \in 1 .. request.n, CarryOut(k, o)
      PROVE  RolloutInv'
  <2>1. PlannerInv' /\ Published' /\ Published /\ UNCHANGED <<request, result>>
    BY <1>2, NextPlannerInv DEF CarryOut, RolloutInv, vars, Published
  <2>2. Underway(request, result, fabric', ToSet(carried) \cup {o})
    BY <1>2, OpenStep DEF CarryOut, RolloutInv
  <2>3. IsSeq(carried') /\ ToSet(carried') = ToSet(carried) \cup {o}
    BY <1>2, AppendIsSeq, AppendToSet DEF CarryOut, RolloutInv
  <2>4. fabric' \in States
    <3>1. request \in Requests /\ request \in Relaxations(request)
      BY RequestAssumption DEF RolloutInv, PlannerInv
    <3> QED
      BY <1>2, <3>1, ApplyAssumption DEF CarryOut, RolloutInv, Nodes
  <2> QED
    BY <2>1, <2>2, <2>3, <2>4 DEF RolloutInv
<1>3. ASSUME UNCHANGED rolloutVars PROVE RolloutInv'
  <2>1. PlannerInv' /\ UNCHANGED <<request, result, fabric, carried>>
    BY <1>3, NextPlannerInv DEF rolloutVars, RolloutInv, vars
  <2> QED
    BY <2>1 DEF RolloutInv, Published
<1> QED
  BY <1>1, <1>2, <1>3 DEF RolloutNext

\* RolloutInv holds throughout planning and rollout.
THEOREM RolloutInvariant == RolloutSpec => []RolloutInv
  BY InitRolloutInv, NextRolloutInv, PTL DEF RolloutSpec


\* RolloutSafe for every instance: while a published plan is carried out, in whatever
\* order its stages allow, every obligation of the request holds in the fabric
\* (verify_plan and the stage semantics of docs/SAFETY_MODEL.md).
THEOREM RolloutIsSafe == RolloutSpec => []RolloutSafe
<1>1. RolloutInv => RolloutSafe
  BY PublishedIsVerified, SafePosition DEF RolloutInv, RolloutSafe
<1> QED
  BY <1>1, RolloutInvariant, PTL

\* RolloutAccepted for every instance: the preconditions recorded for a step hold and
\* the fabric accepts it at every moment the rollout can get to it.
THEOREM RolloutIsAccepted == RolloutSpec => []RolloutAccepted
<1>1. RolloutInv => RolloutAccepted
  BY OpenStep DEF RolloutInv, RolloutAccepted
<1> QED
  BY <1>1, RolloutInvariant, PTL

\* RolloutConverges for every instance: between two stages the fabric is in the state
\* verify_plan recorded there, in whatever order the steps before were taken.
THEOREM RolloutIsConvergent == RolloutSpec => []RolloutConverges
<1>1. ASSUME RolloutInv, Published, NEW h \in 0 .. Len(result.stages),
             ToSet(carried) = UNION {ToSet(result.stages[j].steps) : j \in 1 .. h}
      PROVE  fabric = result.trace[h + 1]
  <2>1. Verified(request, result) /\ Underway(request, result, fabric, ToSet(carried))
    BY <1>1, PublishedIsVerified DEF RolloutInv
  <2>2. \A o : o \in ToSet(carried) <=> \E j \in 1 .. h : o \in ToSet(Steps(result, j))
    BY <1>1 DEF Steps
  <2>3. ASSUME NEW j \in 1 .. Len(result.stages), NEW i \in 1 .. Len(Steps(result, j))
        PROVE  Steps(result, j)[i] \in ToSet(carried) <=> j <= h
    <3>1. Steps(result, j)[i] \in ToSet(Steps(result, j))
      BY <2>1, PlanShape DEF ToSet
    <3>2. j <= h => Steps(result, j)[i] \in ToSet(carried)
      BY <2>2, <3>1
    <3>3. ASSUME Steps(result, j)[i] \in ToSet(carried) PROVE j <= h
      <4>1. PICK l \in 1 .. h : Steps(result, j)[i] \in ToSet(Steps(result, l))
        BY <2>2, <3>3
      <4>2. l \in 1 .. Len(result.stages)
        BY <2>1, PlanShape
      <4>3. PICK x \in 1 .. Len(Steps(result, l)) : Steps(result, j)[i] = Steps(result, l)[x]
        BY <2>1, <4>1, <4>2, PlanShape DEF ToSet
      <4> QED
        BY <2>1, <4>2, <4>3, StepsDistinct
    <3> QED
      BY <3>2, <3>3
  <2> QED
    BY <2>1, <2>3, BetweenStages
<1>2. RolloutInv => RolloutConverges
  BY <1>1 DEF RolloutConverges
<1> QED
  BY <1>2, RolloutInvariant, PTL

-----------------------------------------------------------------------------
\* The planner followed by any rollout of its plan implements ChangeControl: a change
\* is decided once, on a fabric in an allowed state, and only a published change moves
\* the fabric, from one allowed state to another.
THEOREM RolloutImplementsChangeControl == RolloutSpec => ImplementsChangeControl
<1>1. ASSUME RolloutInit PROVE Control!Init
  <2>1. result.kind = "none" /\ fabric \in States
    BY <1>1, InitRolloutInv DEF RolloutInit, Init, Nothing, RolloutInv
  <2> QED
    BY <2>1 DEF Control!Init
<1>2. ASSUME RolloutInv, [RolloutNext]_rolloutVars, RolloutInv' PROVE [Control!Next]_Control!vars
  <2>1. CASE Planning
    <3>1. UNCHANGED <<fabric, request>>
      BY <2>1, NextRequest DEF Planning
    <3>2. CASE result' = result
      BY <3>1, <3>2 DEF Control!vars
    <3>3. CASE result' # result
      <4>1. result = Nothing
        BY <1>2, <2>1, <3>3, NextResult DEF Planning, RolloutInv
      <4>2. CASE Published'
        <5>1. Safe(request, fabric)
          BY <1>2, <3>1, <4>1, <4>2, PublishedIsVerified
             DEF RolloutInv, PlannerInv, Published, Nothing, Verified
        <5> QED
          BY <1>2, <3>1, <4>1, <4>2, <5>1
             DEF Control!Next, Control!Publish, RolloutInv, Published, Nothing
      <4>3. CASE ~Published'
        <5>1. result'.kind = "refusal"
          BY <1>2, <3>3, <4>1, <4>3 DEF RolloutInv, PlannerInv, Published, Verified
        <5> QED
          BY <3>1, <4>1, <5>1 DEF Control!Next, Control!Refuse, Nothing
      <4> QED
        BY <4>2, <4>3
    <3> QED
      BY <3>2, <3>3
  <2>2. CASE \E o \in Nodes(request), k \in 1 .. request.n : CarryOut(k, o)
    <3>1. UNCHANGED <<request, result>> /\ Published
      BY <2>2 DEF CarryOut, vars
    <3>2. fabric' \in States /\ Safe(request, fabric')
      BY <1>2, <3>1, PublishedIsVerified, SafePosition DEF RolloutInv, Published
    <3> QED
      BY <3>1, <3>2 DEF Control!Next, Control!Move, Published
  <2>3. CASE UNCHANGED rolloutVars
    BY <2>3 DEF rolloutVars, vars, Control!vars
  <2> QED
    BY <1>2, <2>1, <2>2, <2>3 DEF RolloutNext
<1> QED
  BY <1>1, <1>2, RolloutInvariant, PTL DEF RolloutSpec, ImplementsChangeControl, Control!Spec

=============================================================================
