------------------------- MODULE StageVerification -------------------------
(***************************************************************************)
(* Replaying the interleavings of a stage. verify_stage of                 *)
(* src/src/plan/generate.cpp decides whether a step may join the stage     *)
(* being built and is charged to the budgets of the call; the loop of      *)
(* verify_plan in src/src/plan/verify.cpp replays every stage of the       *)
(* finished candidate and is charged to nothing.                           *)
(*                                                                         *)
(* A batch is a sequence of operations; an interleaving of it is an order  *)
(* on its slots. verify_stage starts std::next_permutation from the slots  *)
(* sorted by step identity, so the permutations it replays are the ones    *)
(* that do not come before that one lexicographically.                     *)
(***************************************************************************)
EXTENDS OrderSearch

\* The states seq leads through from s: entry 0 is s, entry i follows seq[i].
Trajectory(r, s, seq) ==
  LET t[i \in 0 .. Len(seq)] == IF i = 0 THEN s ELSE Apply(r, t[i - 1], seq[i])
  IN  t

Replay(r, s, seq) == Trajectory(r, s, seq)[Len(seq)]

\* Mutant: the preconditions are not looked at.
StepHoldsAnyway(r, basis, s, o) ==
  /\ CanApply(r, s, o)
  /\ Post(r, Apply(r, s, o), o)
  /\ Safe(r, Apply(r, s, o))

\* Mutant: the obligations are not checked after the application.
StepHoldsUnchecked(r, basis, s, o) ==
  /\ Pre(r, basis, s, o)
  /\ CanApply(r, s, o)
  /\ Post(r, Apply(r, s, o), o)

\* One application as both loops check it: the preconditions before, the
\* postconditions and the obligations after.
StepHolds(r, basis, s, o) ==
  /\ Pre(r, basis, s, o)
  /\ CanApply(r, s, o)
  /\ Post(r, Apply(r, s, o), o)
  /\ Safe(r, Apply(r, s, o))

SafeReplay(r, basis, entry, seq) ==
  \A i \in DOMAIN seq : StepHolds(r, basis, Trajectory(r, entry, seq)[i - 1], seq[i])

\* How often the loop applied an operation before it stopped on seq.
Applications(r, basis, entry, seq) ==
  LET t == Trajectory(r, entry, seq)
  IN  Cardinality({i \in DOMAIN seq :
        /\ \A j \in 1 .. i - 1 : StepHolds(r, basis, t[j - 1], seq[j])
        /\ Pre(r, basis, t[i - 1], seq[i])
        /\ CanApply(r, t[i - 1], seq[i])})

SlotOrders(k) == {p \in [1 .. k -> 1 .. k] : IsInjective(p)}

Interleaving(batch, p) == [i \in DOMAIN batch |-> batch[p[i]]]

\* The slots of a batch sorted by the identity of their operations. (Identities
\* are distinct; equal ones would stay in batch order.)
CanonicalSlots(r, batch) ==
  LET slots == DOMAIN batch
  IN  Ascending(slots, {e \in slots \X slots :
                          LexLess(<<r.id[batch[e[1]]], e[1]>>, <<r.id[batch[e[2]]], e[2]>>)})

SortById(r, batch) == Interleaving(batch, CanonicalSlots(r, batch))

\* std::next_permutation from the canonical slots up to the last permutation.
Enumerated(r, batch) ==
  LET first == CanonicalSlots(r, batch)
  IN  {p \in SlotOrders(Len(batch)) : p = first \/ LexLess(first, p)}

\* The permutations verify_stage replays, in its order.
Replayable(r, batch) ==
  LET orders == Enumerated(r, batch)
  IN  Ascending(orders, {e \in orders \X orders : LexLess(e[1], e[2])})

\* The running totals of a sequence of charges, from what was spent before.
Totals(spent, charges) ==
  LET t[i \in 0 .. Len(charges)] == IF i = 0 THEN spent ELSE t[i - 1] + charges[i]
  IN  t

\* verify_stage: replay the permutations in lexicographic order, up to the first
\* that is unsafe or that a budget does not afford.
StageCheck(r, entry, batch, d) ==
  LET orders == Replayable(r, batch)
      order(i) == Interleaving(batch, orders[i])
      charges == [i \in DOMAIN orders |-> Applications(r, entry, entry, order(i))]
      visits == Totals(d.visits, charges)
      unsafe(i) == \/ ~SafeReplay(r, entry, entry, order(i))
                   \/ Replay(r, entry, order(i)) # Replay(r, entry, order(1))
      unproven(i) == d.perms + i > r.limits.perms
      overrun(i) == visits[i] > Max({d.visits, r.limits.visits})
      stops == {i \in DOMAIN orders : unproven(i) \/ overrun(i) \/ unsafe(i)}
      last == Min(stops \cup {Len(orders)})
  IN  [verdict |-> IF stops = {} THEN "ok"
                   ELSE IF unproven(last) \/ overrun(last) THEN "limit" ELSE "unsafe",
       permutations |-> last,
       diag |-> [d EXCEPT
                   !.perms = @ + last,
                   !.visits = IF unproven(last) THEN visits[last - 1]
                              ELSE Min({visits[last], Exceeding(@, r.limits.visits)})]]

-----------------------------------------------------------------------------
(* What verify_plan establishes for a candidate. A stage holds its steps   *)
(* sorted by identity and the state their conditions were derived in.      *)

\* Mutant: the end states of the interleavings are not compared.
StageVerifiedDiverging(r, entry, stage) ==
  \A p \in SlotOrders(Len(stage.steps)) :
    SafeReplay(r, stage.basis, entry, Interleaving(stage.steps, p))

\* Mutant: verify_plan without exhaustive_interleavings.
StageVerifiedOnce(r, entry, stage) ==
  SafeReplay(r, stage.basis, entry, stage.steps)

StageVerified(r, entry, stage) ==
  \A p \in SlotOrders(Len(stage.steps)) :
    LET order == Interleaving(stage.steps, p)
    IN  /\ SafeReplay(r, stage.basis, entry, order)
        /\ Replay(r, entry, order) = Replay(r, entry, stage.steps)

\* The places of a list of stages, and the operation staged at each.
Places(stages) ==
  UNION {{<<k, i>> : i \in DOMAIN stages[k].steps} : k \in DOMAIN stages}
At(stages, place) == stages[place[1]].steps[place[2]]

\* Plan::verify_structure: no step twice, no empty stage, every dependency
\* edge from an earlier stage to a later one.
PlanStructure(r, stages) ==
  /\ \A a, b \in Places(stages) : At(stages, a) = At(stages, b) => a = b
  /\ \A k \in DOMAIN stages : stages[k].steps # <<>>
  /\ \A e \in Edges(r) :
       \E a, b \in Places(stages) :
         a[1] < b[1] /\ At(stages, a) = e[1] /\ At(stages, b) = e[2]

=============================================================================
