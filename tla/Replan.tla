------------------------------- MODULE Replan -------------------------------
(***************************************************************************)
(* Plans made from inputs, and new plans made from what was observed of    *)
(* the execution of an old one: generate_plan as it is seen from outside,  *)
(* and replan and build_rollback_plan of src/src/plan/replan.cpp.          *)
(*                                                                         *)
(* Stages hold one step each (limits.max_stage_width = 1), so the steps of *)
(* a plan are a sequence; only the compensations in front of a             *)
(* continuation share a stage, whatever the width. Which safe order the    *)
(* search returns, and whether it gives up at a limit, is left open here   *)
(* (Planner models it). A report is what an execution looked like: the     *)
(* plan and attempt, the stamp and state observed, and the outcomes of the *)
(* operations tried, as pairs <<operation, outcome>>.                      *)
(***************************************************************************)
EXTENDS Validity, SequencesExt

\* PlanRequest::binding: all of the inputs but the planning instant.
Bound(q) == [q EXCEPT !.instant = 0]

-----------------------------------------------------------------------------
(* generate_plan                                                           *)

\* check_generation_binding: target, evidence and constraints belong to the snapshot.
GenerationBound(q) ==
  LET based == q.target.based
      Same(field) == based[field] = q.stamp[field]
  IN  /\ Same("authority") /\ Same("topology") /\ Same("epoch")
      /\ q.evidence.based.topology = q.stamp.topology
      /\ q.evidence.based.incarnation = q.stamp.incarnation
      /\ "generation_binding" \in q.rules.enforced => q.rules.authority = q.stamp.authority

PlannableUnsafe(q) ==
  /\ Valid(q.state) /\ TargetValid(q.target.goal) /\ GenerationBound(q)
  /\ Derivable(q.state, q.target.goal) /\ Capable(ContextOf(q), q.state, q.target.goal)
Plannable(q) ==
  LET c == ContextOf(q)
      goal == q.target.goal
  IN  /\ Valid(q.state) /\ TargetValid(goal)
      /\ GenerationBound(q)
      /\ Derivable(q.state, goal) /\ Capable(c, q.state, goal)
      /\ StateIsSafe(c, q.state)

\* The windows a step is bound to: those open at the planning instant.
WindowsOf(c, s, o) ==
  IF o.kind \in WindowOps /\ o.id \in DOMAIN s.device
  THEN {w.id : w \in {x \in s.device[o.id].maint : Within({x}, c.instant)}}
  ELSE {}

\* A step carries what was derived from the snapshot it was planned in.
StepFor(c, s, o) ==
  [op |-> o, pre |-> Preconditions(s, o), post |-> Postconditions(o),
   undo |-> Compensation(s, o), windows |-> WindowsOf(c, s, o)]

Accepts(c, s, step) == AllSatisfied(c, s, step.pre) /\ Applies(c, s, step.op)

Verified(c, s, step) ==
  /\ Accepts(c, s, step)
  /\ AllSatisfied(c, Changed(s, step.op), step.post)
  /\ StateIsSafe(c, Changed(s, step.op))

\* Walks through the steps made by At(i, s), while they are verified.
Walked(c, s, n, At(_, _)) ==
  LET walk[i \in 0 .. n] ==
        IF i = 0 THEN [ok |-> TRUE, at |-> s, steps |-> <<>>]
        ELSE LET so == walk[i - 1]
                 step == At(i, so.at)
             IN  IF so.ok /\ Verified(c, so.at, step)
                 THEN [ok |-> TRUE, at |-> Changed(so.at, step.op), steps |-> Append(so.steps, step)]
                 ELSE [so EXCEPT !.ok = FALSE]
  IN  walk[n]

\* Deriving the steps of an order, and replaying recorded ones.
Derive(c, s, order) == Walked(c, s, Len(order), LAMBDA i, at : StepFor(c, at, order[i]))
Replay(c, s, steps) == Walked(c, s, Len(steps), LAMBDA i, at : steps[i])

\* The step sequences that may come out: every order that keeps the edges and
\* is verified step by step.
Schedules(q) ==
  LET c == ContextOf(q)
      orders == {order \in SetToSeqs(Derived(c, q.state, q.target.goal)) :
                   \A i, j \in DOMAIN order : i < j => ~Precedes(q.state, order[j], order[i])}
  IN  IF ~Plannable(q) THEN {}
      ELSE {w.steps : w \in {x \in {Derive(c, q.state, order) : order \in orders} : x.ok}}

-----------------------------------------------------------------------------
(* replan                                                                  *)

\* fence_observation: the report is about this plan, and not older than it.
Fenced(prior, r) ==
  /\ r.plan = prior.id /\ r.generation = prior.generation
  /\ r.stamp.authority >= prior.request.stamp.authority
  /\ r.stamp.topology >= prior.request.stamp.topology
  /\ r.stamp.incarnation = prior.request.stamp.incarnation
  /\ Valid(r.state)

\* replan_request_for: the snapshot is the observed one, target and evidence are rebased.
Rebased(base, r) ==
  [base EXCEPT !.state = r.state, !.stamp = r.stamp,
               !.target.based = r.stamp, !.evidence.based = r.stamp]

\* steps_to_compensate: partially applied, and with a known inverse.
ToCompensate(prior, r, compensate) ==
  {step \in {prior.steps[i] : i \in DOMAIN prior.steps} :
     compensate /\ <<step.op, "partially_applied">> \in r.outcomes /\ step.undo # {}}

\* A compensating step is bound to no window, and what would undo it is derived from
\* the observed snapshot.
CompensatingStep(c, observed, s, o) ==
  [StepFor(c, s, o) EXCEPT !.undo = Compensation(observed, o), !.windows = {}]

\* The operations in the order of their digests.
Sorted(ops) ==
  {list \in SetToSeqs(ops) : \A i, j \in DOMAIN list : i < j => DigestLess(list[i], list[j])}

\* The inverses as steps derived from the observed state one after the other, in front
\* of the others, and the whole verified in every order of the inverses; {} when it is
\* refused.
Fronted(q, steps, inverses) ==
  LET c == ContextOf(q)
      front == Walked(c, q.state, Len(inverses), LAMBDA i, at : CompensatingStep(c, q.state, at, inverses[i]))
      all == front.steps \o steps
      swaps == {p \in [DOMAIN inverses -> DOMAIN inverses] :
                  \A i, j \in DOMAIN inverses : p[i] = p[j] => i = j}
      Shuffled(p) == Replay(c, q.state, [i \in DOMAIN inverses |-> front.steps[p[i]]])
      distinct == \A i, j \in DOMAIN all : all[i].op = all[j].op => i = j
  IN  IF /\ front.ok /\ distinct
         /\ \A p \in swaps : Shuffled(p).ok /\ Shuffled(p).at = front.at
         /\ Replay(c, q.state, all).ok
      THEN {all} ELSE {}

\* prepend_compensations: one stage of inverses in front.
Compensated(q, steps, toUndo) ==
  UNION {Fronted(q, steps, inverses) : inverses \in Sorted(UNION {step.undo : step \in toUndo})}

WrittenBy(steps) == {Written(step.op) : step \in steps}

PlanOf(prior, q, kind, steps, undone, origin) ==
  [id |-> prior.id, generation |-> prior.generation + 1, request |-> q, kind |-> kind,
   steps |-> steps, undone |-> undone, origin |-> origin]

Continuations(prior, r, base, compensate) ==
  LET q == Rebased(base, r)
      toUndo == ToCompensate(prior, r, compensate)
      steps == UNION {IF toUndo = {} THEN {plain} ELSE Compensated(q, plain, toUndo) : plain \in Schedules(q)}
  IN  IF ~Fenced(prior, r) THEN {}
      ELSE {PlanOf(prior, q, "replan", found, WrittenBy(toUndo), prior.origin) : found \in steps}

-----------------------------------------------------------------------------
(* build_rollback_plan                                                     *)

DescribesOriginUnchecked(prior, base) == TRUE
DescribesOrigin(prior, base) == Bound(prior.request) = Bound(base)

Rollbacks(prior, r, base) ==
  LET goal == [goal |-> TargetFromState(base.state), revision |-> base.target.revision + 1,
               based |-> r.stamp]
      q == [Rebased(base, r) EXCEPT !.target = goal]
  IN  IF ~Fenced(prior, r) \/ ~DescribesOrigin(prior, base) THEN {}
      ELSE {PlanOf(prior, q, "rollback", found, {}, prior.request.state) : found \in Schedules(q)}

=============================================================================
