----------------------------- MODULE Lifecycle -----------------------------
(***************************************************************************)
(* A plan between its generation and its replacement: the fabric and the   *)
(* inputs drift while it waits, it is validated before it is carried out,  *)
(* its steps succeed, fail or are left half done, reports of attempts come *)
(* late, and continuations and rollbacks are planned from them             *)
(* (generate_plan, evaluate_validity, replan, build_rollback_plan).        *)
(* Carrying a plan out, observing the fabric and changing the inputs is    *)
(* done by others: the library prescribes only the records they exchange.  *)
(***************************************************************************)
EXTENDS Replan

CONSTANT
  Worlds  \* records [now, goals, evidence, changes, rules, compensate, persistent, bounds]: the
          \* start, what may happen (evidence: what devices may be observed to be capable of),
          \* whether executors go on after a partial step, and the bounds [generations,
          \* attempts, drifts] on the generations of the plan, the attempts to carry one of
          \* them out and the changes made by others

\* PolicyScope: what a policy may be about.
IsScope(target) ==
  target = Everything \/ (target = <<target[1], target[2]>> /\ target[1] \in Summarised)

IsDevice(d) ==
  /\ d = [domain |-> d.domain, state |-> d.state, cap |-> d.cap, res |-> d.res, caps |-> d.caps,
          budget |-> d.budget, excl |-> d.excl, maint |-> d.maint]
  /\ d.state \in DeviceStates

IsLink(l) ==
  l = [a |-> l.a, b |-> l.b, cap |-> l.cap, res |-> l.res, transit |-> l.transit, state |-> l.state]

IsRoute(r) ==
  r = [source |-> r.source, sink |-> r.sink, path |-> r.path, policy |-> r.policy, state |-> r.state]

IsWorkload(w) == w = [bind |-> w.bind, req |-> w.req]

IsSnapshot(s) ==
  /\ IsFunction(s) /\ DOMAIN s = EntityKinds
  /\ \A kind \in EntityKinds : IsFunction(s[kind]) /\ IsFiniteSet(DOMAIN s[kind])
  /\ \A d \in DOMAIN s.device : IsDevice(s.device[d])
  /\ \A l \in DOMAIN s.link : IsLink(s.link[l])
  /\ \A r \in DOMAIN s.route : IsRoute(s.route[r])
  /\ \A w \in DOMAIN s.workload : IsWorkload(s.workload[w])
  /\ \A p \in DOMAIN s.policy : IsScope(s.policy[p].target)
  /\ \A e \in DOMAIN s.config : s.config[e].revision \in Nat

IsGoal(goal) ==
  /\ \A kind \in EntityKinds : IsFiniteSet(DOMAIN goal.ensure[kind]) /\ IsFiniteSet(goal.remove[kind])
  /\ \A d \in DOMAIN goal.ensure.device : IsDevice(goal.ensure.device[d])
  /\ \A r \in DOMAIN goal.ensure.route : IsRoute(goal.ensure.route[r])
  /\ \A w \in DOMAIN goal.ensure.workload : IsWorkload(goal.ensure.workload[w])
  /\ \A p \in DOMAIN goal.ensure.policy : IsScope(goal.ensure.policy[p].target)

IsStamp(p) == p \in [topology : Nat, authority : Nat, incarnation : Nat, epoch : Nat]

\* The rules name everything a check looks up in its context.
IsRules(rules) ==
  {"instant", "enforced", "headroom", "changes", "domains", "contracts", "evidence", "baseline",
   "tolerance"} \subseteq DOMAIN rules

IsInputs(q) ==
  /\ q = [state |-> q.state, stamp |-> q.stamp, target |-> q.target, evidence |-> q.evidence,
          rules |-> q.rules, instant |-> q.instant]
  /\ IsSnapshot(q.state) /\ IsStamp(q.stamp) /\ IsRules(q.rules)
  /\ q.target = [goal |-> q.target.goal, revision |-> q.target.revision, based |-> q.target.based]
  /\ IsGoal(q.target.goal)
  /\ q.evidence = [caps |-> q.evidence.caps, version |-> q.evidence.version, based |-> q.evidence.based]

IsOperation(o) ==
  /\ o.kind \in DeviceOps \cup LinkOps \cup RouteOps \cup WorkloadOps \cup PolicyOps \cup ConfigOps
  /\ o.kind = "device_add" => IsDevice(o.new)
  /\ o.kind = "device_set_state" => o.new.state \in DeviceStates
  /\ o.kind = "route_add" => IsRoute(o.new)
  /\ o.kind = "workload_add" => IsWorkload(o.new)
  /\ o.kind \in PolicyOps => IsScope(o.new.target)

ASSUME WorldAssumption ==
  \A w \in Worlds :
    /\ IsInputs(w.now) /\ Valid(w.now.state)
    /\ \A goal \in w.goals : IsGoal(goal)
    /\ \A o \in w.changes : IsOperation(o)
    /\ \A rules \in w.rules : IsRules(rules)
    /\ w.bounds \in [generations : Nat \ {0}, attempts : Nat, drifts : Nat]

VARIABLES
  world,    \* the world of this behaviour
  now,      \* the inputs as they are: snapshot, stamp, target, evidence, rules, instant
  first,    \* the inputs the first generation was planned from
  plan,     \* the plan in force
  run,      \* its execution: [on, attempt, outcomes]
  reports,  \* the reports written so far; none is ever lost, and any may come late
  drifts    \* how often others changed something

vars == <<world, now, first, plan, run, reports, drifts>>

Idle == [on |-> FALSE, attempt |-> 0, outcomes |-> <<>>]
NoPlan == [id |-> 0, generation |-> 0]
Planned == plan.id # 0

Init ==
  /\ world \in Worlds
  /\ now = world.now /\ first = world.now
  /\ plan = NoPlan /\ run = Idle /\ reports = {} /\ drifts = 0

-----------------------------------------------------------------------------
(* The planner                                                             *)

Install(p) == plan' = p /\ run' = Idle

Generate ==
  /\ ~Planned
  /\ \E steps \in Schedules(now) :
       Install(PlanOf([id |-> 1, generation |-> 0], now, "initial", steps, {}, now.state))
  /\ first' = now
  /\ UNCHANGED <<world, now, reports, drifts>>

\* The caller has the request of the plan in force, or still the first one; it
\* takes over the target of the new plan. A report may be of any attempt.
Bases == {first, plan.request}

Adopt(p) ==
  /\ Install(p)
  /\ now' = [now EXCEPT !.target = p.request.target]
  /\ UNCHANGED <<world, first, reports, drifts>>

Continue ==
  /\ Planned /\ ~run.on /\ plan.generation < world.bounds.generations
  /\ \E r \in reports, base \in Bases, compensate \in world.compensate :
       \E p \in Continuations(plan, r, base, compensate) : Adopt(p)

RollBack ==
  /\ Planned /\ ~run.on /\ plan.generation < world.bounds.generations
  /\ \E r \in reports, base \in Bases : \E p \in Rollbacks(plan, r, base) : Adopt(p)

-----------------------------------------------------------------------------
(* Carrying the plan out                                                   *)

Validated == Planned /\ StillValid(plan.request, plan.steps, now)

Begin ==
  /\ ~run.on /\ run.attempt < world.bounds.attempts
  /\ Validated /\ plan.steps # <<>>
  /\ run' = [on |-> TRUE, attempt |-> run.attempt + 1, outcomes |-> <<>>]
  /\ UNCHANGED <<world, now, first, plan, reports, drifts>>

\* Some executors go on after a step that was only partially applied.
Succeeding ==
  \A i \in DOMAIN run.outcomes :
    run.outcomes[i] \in {"succeeded"} \cup (IF world.persistent THEN {"partially_applied"} ELSE {})
Pending == run.on /\ Succeeding /\ Len(run.outcomes) < Len(plan.steps)
NextStep == plan.steps[Len(run.outcomes) + 1]

Noted(outcome) == [run EXCEPT !.outcomes = Append(@, outcome)]
NowPerformed(o) == [now EXCEPT !.state = Changed(@, o), !.stamp.topology = @ + 1]

Perform ==
  /\ Pending
  /\ Accepts(ContextOf(now), now.state, NextStep)
  /\ now' = NowPerformed(NextStep.op)
  /\ run' = Noted("succeeded")
  /\ UNCHANGED <<world, first, plan, reports, drifts>>

\* A step that went wrong, with or without an effect.
Stumble ==
  /\ Pending
  /\ \/ \E outcome \in {"failed", "partially_applied"} : now' = now /\ run' = Noted(outcome)
     \/ /\ Accepts(ContextOf(now), now.state, NextStep)
        /\ now' = NowPerformed(NextStep.op)
        /\ \E outcome \in {"unknown", "partially_applied"} : run' = Noted(outcome)
  /\ UNCHANGED <<world, first, plan, reports, drifts>>

\* The attempt is over: what happened and what the fabric is like are written down.
Report ==
  /\ run.on /\ ~Pending
  /\ reports' = reports \cup
       {[plan |-> plan.id, generation |-> plan.generation, attempt |-> run.attempt,
         stamp |-> now.stamp, state |-> now.state,
         outcomes |-> {<<plan.steps[i].op, run.outcomes[i]>> : i \in DOMAIN run.outcomes}]}
  /\ run' = [run EXCEPT !.on = FALSE, !.outcomes = <<>>]
  /\ UNCHANGED <<world, now, first, plan, drifts>>

-----------------------------------------------------------------------------
(* The others                                                              *)

Drift(new) ==
  /\ drifts < world.bounds.drifts
  /\ now' = new /\ drifts' = drifts + 1
  /\ UNCHANGED <<world, first, plan, run, reports>>

FabricDrifts ==
  \E o \in world.changes : Applies(ContextOf(now), now.state, o) /\ Drift(NowPerformed(o))

AuthorityMoves ==
  \E field \in {"authority", "incarnation", "epoch"} : Drift([now EXCEPT !.stamp[field] = @ + 1])

\* The target, the evidence or both are issued anew, for the fabric as it is. Nothing ties
\* what the evidence says to its version: it may change while the version stays, and the
\* version may go either way while it says the same.
NewTargets ==
  {[goal |-> goal, revision |-> now.target.revision + 1, based |-> now.stamp] : goal \in world.goals}
NewEvidence ==
  [caps : world.evidence, version : (now.evidence.version - 1) .. (now.evidence.version + 1),
   based : {now.stamp}]

Reissue ==
  \E target \in {now.target} \cup NewTargets, evidence \in {now.evidence} \cup NewEvidence :
    Drift([now EXCEPT !.target = target, !.evidence = evidence])

RulesChange == \E rules \in world.rules : Drift([now EXCEPT !.rules = rules])

TimePasses == Drift([now EXCEPT !.instant = @ + 1])

Next ==
  \/ Generate \/ Continue \/ RollBack
  \/ Begin \/ Perform \/ Stumble \/ Report
  \/ FabricDrifts \/ AuthorityMoves \/ Reissue \/ RulesChange \/ TimePasses

Spec == Init /\ [][Next]_vars

-----------------------------------------------------------------------------
(* Properties                                                              *)

Strictest == [added |-> 0, removed |-> 0, capacity |-> 0, demand |-> 0,
              growth |-> FALSE, shrink |-> FALSE, exempt |-> {}]

Unmoved(kind) == now.state[kind] = plan.request.state[kind]

\* The plan passes validation, at its own instant and with evidence for the same devices,
\* whatever it says of them: its digest is in the plan's binding, but is not compared.
\* Where drift is tolerated, none has come to what the plan's summary holds.
Fresh ==
  /\ Validated /\ now.instant = plan.request.instant
  /\ DOMAIN now.evidence.caps = DOMAIN plan.request.evidence.caps
  /\ now.rules.tolerance = Strictest \/ \A kind \in Summarised : Unmoved(kind)

Ahead == Replay(ContextOf(now), now.state, plan.steps)

\* The policies and configuration entries the steps change or refer to.
Named(kind) ==
  LET ops == {plan.steps[i].op : i \in DOMAIN plan.steps}
  IN  {o.id : o \in {p \in ops : EntityKind(p) = kind}}
      \cup (IF kind = "policy"
            THEN {o.new.policy : o \in {p \in ops : p.kind \in {"route_add", "route_set_path"}}} ELSE {})

\* Plans, reports and attempts keep their numbers, and a plan is never ahead of
\* the fabric: no step is listed twice (a step's identity is its operation), each plan
\* starts from a safe snapshot that existed, and a step that needs a maintenance
\* window is bound to one, unless it takes back what was created (a compensation that
\* removes a device is bound to none).
TypeOK ==
  /\ plan.generation \in 0 .. world.bounds.generations
  /\ run.attempt \in 0 .. world.bounds.attempts /\ drifts \in 0 .. world.bounds.drifts
  /\ \A r \in reports : r.generation <= plan.generation /\ r.stamp.topology <= now.stamp.topology
  /\ Planned =>
       LET c == ContextOf(plan.request)
       IN  /\ Valid(plan.request.state) /\ StateIsSafe(c, plan.request.state)
           /\ GenerationBound(plan.request)
           /\ plan.request.stamp.topology <= now.stamp.topology
           /\ Len(run.outcomes) <= Len(plan.steps)
           /\ \A i, j \in DOMAIN plan.steps : plan.steps[i].op = plan.steps[j].op => i = j
           /\ \A i \in DOMAIN plan.steps :
                (plan.steps[i].op.kind \in WindowOps /\ "maintenance_window" \in c.enforced)
                => plan.steps[i].windows # {} \/ Written(plan.steps[i].op) \in plan.undone

\* The entities a step erases.
Erased == {Written(o) : o \in {plan.steps[i].op : i \in {j \in DOMAIN plan.steps :
                                                         plan.steps[j].op.kind \in EraseOps}}}

\* Policies and configuration have changed in no way that concerns the steps: those
\* they name are there or not as before, no policy has come to be about what a step
\* erases, and every entry they set has revisions left for all of them.
Undisturbed ==
  /\ \A kind \in {"policy", "config"} :
       Named(kind) \cap DOMAIN now.state[kind] = Named(kind) \cap DOMAIN plan.request.state[kind]
  /\ \A p \in DOMAIN now.state.policy :
       now.state.policy[p].target \in Erased =>
         /\ p \in DOMAIN plan.request.state.policy
         /\ plan.request.state.policy[p].target = now.state.policy[p].target
  /\ \A e \in Named("config") \cap DOMAIN now.state.config :
       now.state.config[e].revision + Len(plan.steps) <= MaxRevision

\* What passing evaluate_validity is good for: the plan can be carried out from the fabric
\* as it is, every step accepted and every snapshot safe, however generations, versions,
\* evidence, policies and configuration have moved. Fresh and Undisturbed are what has to
\* be known besides: that no device has lost its evidence, which is not compared, and of
\* policies and configuration, which the summary leaves out, what concerns the steps.
ValidPlanReplays == Fresh /\ Undisturbed => Ahead.ok

\* "A plan is never valid against materially different state. evaluate_validity compares
\* the plan binding with current inputs" (README.md:54-56): where no drift is tolerated, a
\* plan that is valid at its own instant can be carried out. The code does not compare the
\* digest of the evidence it has in the binding (invalidate.cpp:211-233), so a device may
\* have lost its evidence meanwhile.
ValidMeansSame ==
  Validated /\ now.rules.tolerance = Strictest /\ now.instant = plan.request.instant => Ahead.ok

\* The wanted fields of an entity are there, reservations left aside, which no operation
\* sets, and the state of a link, which a target does not ask for.
Matches(kind, there, want) ==
  CASE kind = "device" -> [there EXCEPT !.res = want.res] = want
    [] kind \in {"workload", "policy"} -> there = want
    [] kind = "link" ->
         there.state # "removed"
         /\ <<there.a, there.b, there.transit, there.cap>> = <<want.a, want.b, want.transit, want.cap>>
    [] kind = "route" -> there = want
    [] kind = "config" -> there.value = want.value

Missed(s, goal) ==
  {e \in UNION {Refs(kind, DOMAIN goal.ensure[kind]) : kind \in EntityKinds} :
     ~Known(s, e) \/ ~Matches(e[1], s[e[1]][e[2]], goal.ensure[e[1]][e[2]])}
  \cup {e \in UNION {Refs(k, goal.remove[k]) : k \in EntityKinds} : Exists(s, e)}

Carried == Fresh /\ Unmoved("policy") /\ Unmoved("config") /\ Ahead.ok

\* "reaches the target" (README.md:8): carrying a valid plan out brings the fabric to
\* its target. Only what a partially applied step wrote may be missing, because its inverse
\* comes after the continuation was planned and is not followed by a retry.
EveryTargetReached == Carried => Missed(Ahead.at, now.target.goal) \subseteq plan.undone

\* Workloads with bindings of their own in a goal that removes a route they are bound to: two
\* operations set the bindings, and the greater digest has the last word.
Contested ==
  {<<"workload", w>> : w \in
     {v \in DOMAIN now.target.goal.ensure.workload \cap DOMAIN plan.request.state.workload :
        now.target.goal.remove.route \cap DOMAIN plan.request.state.workload[v].bind # {}}}

\* Everything else of a target is reached, whatever was observed of earlier attempts and
\* however late: "no prior step effect is assumed" (replan.cpp).
TargetReached == Carried => Missed(Ahead.at, now.target.goal) \subseteq plan.undone \cup Contested

Live(s, kind) == {i \in DOMAIN s[kind] : Exists(s, <<kind, i>>)}
Shown(kind, entry) == IF kind = "config" THEN entry.value ELSE entry

\* A rollback that is carried out restores every entity of the snapshot the prior
\* plan started from; nothing is left beside it but what was created since.
RollbackRestores ==
  (Fresh /\ plan.kind = "rollback" /\ Unmoved("policy") /\ Unmoved("config") /\ Ahead.ok)
  => \A kind \in EntityKinds :
       /\ \A i \in Live(plan.origin, kind) :
            /\ i \in Live(Ahead.at, kind)
            /\ Shown(kind, Ahead.at[kind][i]) = Shown(kind, plan.origin[kind][i])
       /\ Live(Ahead.at, kind) \ Live(plan.origin, kind)
            \subseteq Live(plan.request.state, kind) \ DOMAIN plan.origin[kind]

=============================================================================
