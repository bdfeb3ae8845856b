------------------------------ MODULE Planner ------------------------------
(***************************************************************************)
(* One call of generate_plan (src/src/plan/generate.cpp): admission, the   *)
(* planning attempt with its four candidate strategies, stage compression, *)
(* verification and selection of candidates, and, after an ordering        *)
(* failure, the attempts that minimise the blocking core. The call runs on *)
(* one thread; the caller may raise its stop token at any moment.          *)
(*                                                                         *)
(* A request carries what the earlier passes hand to the scheduler:        *)
(*   admit    "ok" or the code validation, binding or window shift refuse  *)
(*   derives  "ok" or the code derive_operations fails with                *)
(*   capable  every capability gate of the derived operations is open      *)
(*   ordered  "ok" or the code derive_dependencies fails with              *)
(*   n, because, edges, id, risk, windowed   the derived operations        *)
(*   state, enforced, limits, priority   as in PlanRequest                 *)
(***************************************************************************)
EXTENDS StageVerification

\* No pass fails with what Gate says of a request that has nothing to do or is too
\* large; validation admits no stage width of zero (PlanningLimits::validate). An
\* objective is a list of metrics.
ASSUME CodeAssumption ==
  \A r \in Requests :
    /\ {"derives", "ordered", "priority"} \subseteq DOMAIN r
    /\ r.priority \in Seq(STRING)
    /\ r.derives # "converged" /\ r.ordered # "converged"
    /\ "search_limit_exceeded" \notin {r.admit, r.derives, r.ordered}
    /\ r.admit = "ok" => r.limits.width # 0

VARIABLES
  request,  \* the request generate_plan was called with
  phase,    \* where the call is
  pick,     \* the candidate loop: position, limit flag, best plan, plans verified
  sched,    \* stage compression of one linear order
  report,   \* verification of one candidate: next stage and states replayed
  attempt,  \* how the last run_attempt ended
  core,     \* minimise_blocking_core
  result    \* what the call returned

vars == <<req, strategy, stop, diag, search, request, phase, pick, sched,
          report, attempt, core, result>>

\* Values of result and of pick.best before there is one.
Nothing == [kind |-> "none"]

NoDiag == [visits |-> 0, perms |-> 0, attempts |-> 0]
NoSchedule == [pos |-> 1, batch |-> <<>>, at |-> "next", state |-> req.state,
               stages |-> <<>>]
NoPick == [candidate |-> 1, limit |-> FALSE, best |-> Nothing, verified |-> {}]
NoCore == [mode |-> "off", disabled |-> <<>>, trial |-> <<>>, next |-> 1,
           attempts |-> 0, code |-> "none"]

Refusal(code, blocking) == [kind |-> "refusal", code |-> code, blocking |-> blocking]

Init ==
  /\ request \in Requests
  /\ phase = "admit"
  /\ req = request
  /\ strategy = Strategies[1]
  /\ stop = FALSE
  /\ diag = NoDiag
  /\ search = StartSearch(req, strategy)
  /\ pick = NoPick
  /\ sched = NoSchedule
  /\ report = [next |-> 1, trace |-> <<>>]
  /\ attempt = Nothing
  /\ core = NoCore
  /\ result = Nothing

-----------------------------------------------------------------------------
(* Admission and the prologue of an attempt                                *)

\* The call returns what x says.
Return(x) ==
  /\ phase' = "done"
  /\ result' = x

Admit ==
  /\ phase = "admit"
  /\ request.admit = "ok"
  /\ phase' = "begin"
  /\ UNCHANGED <<searchVars, request, pick, sched, report, attempt, core, result>>

RefuseInput ==
  /\ phase = "admit"
  /\ request.admit # "ok"
  /\ Return(Refusal(request.admit, {}))
  /\ UNCHANGED <<searchVars, request, pick, sched, report, attempt, core>>

\* What stops an attempt before it schedules anything, in the order of the code.
Gate(r) ==
  IF r.derives # "ok" THEN r.derives
  ELSE IF Cardinality(Nodes(r)) > r.limits.steps THEN "search_limit_exceeded"
  ELSE IF ~r.capable THEN "capability_missing"
  ELSE IF ~Safe(r, r.state) THEN "unsafe_initial_state"
  ELSE IF Nodes(r) = {} THEN "converged"
  ELSE r.ordered

\* run_attempt returns: a plan, or the code of a failure.
EndAttempt(outcome) ==
  /\ phase' = "settle"
  /\ attempt' = outcome

PlanOf(stages, trace) == [kind |-> "plan", stages |-> stages, trace |-> trace]
Failed(code) == [kind |-> "failed", code |-> code]

AttemptScheduled ==
  /\ phase = "begin"
  /\ Gate(req) = "ok"
  /\ phase' = "candidate"
  /\ pick' = NoPick
  /\ UNCHANGED <<searchVars, request, sched, report, attempt, core, result>>

AttemptConverged ==
  /\ phase = "begin"
  /\ Gate(req) = "converged"
  /\ EndAttempt(PlanOf(<<>>, <<req.state>>))
  /\ UNCHANGED <<searchVars, request, pick, sched, report, core, result>>

AttemptBarred ==
  /\ phase = "begin"
  /\ Gate(req) \notin {"ok", "converged"}
  /\ EndAttempt(Failed(Gate(req)))
  /\ UNCHANGED <<searchVars, request, pick, sched, report, core, result>>

-----------------------------------------------------------------------------
(* The candidate loop                                                      *)

CandidateCount ==
  IF core.mode = "off" THEN Min({req.limits.candidates, Len(Strategies)}) ELSE 1

MoreCandidates == pick.candidate <= CandidateCount

LoopEnds ==
  /\ phase = "candidate"
  /\ ~MoreCandidates
  /\ EndAttempt(IF pick.best # Nothing THEN pick.best
                ELSE IF pick.limit THEN Failed("search_limit_exceeded")
                ELSE Failed("no_safe_ordering"))
  /\ UNCHANGED <<searchVars, request, pick, sched, report, core, result>>

LoopCancelled ==
  /\ phase = "candidate"
  /\ MoreCandidates
  /\ stop
  /\ EndAttempt(Failed("cancelled"))
  /\ UNCHANGED <<searchVars, request, pick, sched, report, core, result>>

LoopOutOfAttempts ==
  /\ phase = "candidate"
  /\ MoreCandidates
  /\ ~stop
  /\ diag.attempts >= req.limits.attempts
  /\ EndAttempt(Failed("search_limit_exceeded"))
  /\ UNCHANGED <<searchVars, request, pick, sched, report, core, result>>

StartCandidate ==
  /\ phase = "candidate"
  /\ MoreCandidates
  /\ ~stop
  /\ diag.attempts < req.limits.attempts
  /\ phase' = "search"
  /\ strategy' = Strategies[pick.candidate]
  /\ diag' = [diag EXCEPT !.attempts = @ + 1]
  /\ search' = StartSearch(req, Strategies[pick.candidate])
  /\ UNCHANGED <<req, stop, request, pick, sched, report, attempt, core, result>>

\* Mutant: every rejected candidate counts as a victim of the budgets.
RejectAsLimit(limit) ==
  /\ phase' = "candidate"
  /\ pick' = [pick EXCEPT !.candidate = @ + 1, !.limit = TRUE]

\* The current candidate is out, because of a budget or because it is unsafe.
RejectCandidate(limit) ==
  /\ phase' = "candidate"
  /\ pick' = [pick EXCEPT !.candidate = @ + 1, !.limit = @ \/ limit]

Searching ==
  /\ phase = "search"
  /\ SearchStep
  /\ UNCHANGED <<request, phase, pick, sched, report, attempt, core, result>>

OrderFound ==
  /\ phase = "search"
  /\ search.outcome = "found"
  /\ phase' = "compress"
  /\ sched' = NoSchedule
  /\ UNCHANGED <<searchVars, request, pick, report, attempt, core, result>>

SearchStopped ==
  /\ phase = "search"
  /\ search.outcome = "cancelled"
  /\ EndAttempt(Failed("cancelled"))
  /\ UNCHANGED <<searchVars, request, pick, sched, report, core, result>>

OrderMissing ==
  /\ phase = "search"
  /\ search.outcome \in {"limit", "exhausted"}
  /\ RejectCandidate(search.outcome = "limit")
  /\ UNCHANGED <<searchVars, request, sched, report, attempt, core, result>>

-----------------------------------------------------------------------------
(* Stage compression: the linear order is cut into verified stages. Each   *)
(* action makes one call of verify_stage. Only the trial of JoinBatch      *)
(* looks at the limit flag of that call.                                   *)

Operation == search.order[sched.pos]
Check(batch) == StageCheck(req, sched.state, batch, diag)

\* Mutant: the conditions are derived after the batch has been applied.
FlushLate(permutations, batch, at) ==
  LET steps == SortById(req, sched.batch)
  IN  sched' = [sched EXCEPT
                  !.batch = batch,
                  !.at = at,
                  !.state = Replay(req, @, steps),
                  !.stages = Append(@, [steps |-> steps,
                                        basis |-> Replay(req, sched.state, steps),
                                        permutations |-> permutations])]

\* The batch becomes a stage and is applied in canonical step order.
Flush(permutations, batch, at) ==
  LET steps == SortById(req, sched.batch)
  IN  sched' = [sched EXCEPT
                  !.batch = batch,
                  !.at = at,
                  !.state = Replay(req, @, steps),
                  !.stages = Append(@, [steps |-> steps, basis |-> sched.state,
                                        permutations |-> permutations])]

Linked(o) == \E b \in ToSet(sched.batch) : ~Independent(req, b, o)

\* Mutant: one step too many fits in.
MustFlushLate ==
  /\ sched.batch # <<>>
  /\ \/ Len(sched.batch) > req.limits.width
     \/ Linked(Operation)

MustFlush ==
  /\ sched.batch # <<>>
  /\ \/ Len(sched.batch) >= req.limits.width
     \/ Linked(Operation)

Compressing(at) == phase = "compress" /\ sched.at = at
Pending == sched.pos <= Len(search.order)

compressUnchanged ==
  UNCHANGED <<req, strategy, stop, search, request, report, attempt, core, result>>

FlushBatch ==
  /\ Compressing("next")
  /\ Pending
  /\ MustFlush
  /\ LET check == Check(sched.batch)
     IN  /\ diag' = check.diag
         /\ IF check.verdict = "ok"
              THEN Flush(check.permutations, <<>>, "next") /\ UNCHANGED <<phase, pick>>
              ELSE RejectCandidate(FALSE) /\ UNCHANGED sched
  /\ compressUnchanged

JoinBatch ==
  /\ Compressing("next")
  /\ Pending
  /\ ~MustFlush
  /\ LET trial == Append(sched.batch, Operation)
         check == Check(trial)
     IN  /\ diag' = check.diag
         /\ IF check.verdict = "ok"
              THEN /\ sched' = [sched EXCEPT !.batch = trial, !.pos = @ + 1]
                   /\ UNCHANGED <<phase, pick>>
            ELSE IF check.verdict = "unsafe" /\ sched.batch # <<>>
              THEN /\ sched' = [sched EXCEPT !.at = "split"]
                   /\ UNCHANGED <<phase, pick>>
            ELSE RejectCandidate(check.verdict = "limit") /\ UNCHANGED sched
  /\ compressUnchanged

SplitBatch ==
  /\ Compressing("split")
  /\ LET check == Check(sched.batch)
     IN  /\ diag' = check.diag
         /\ IF check.verdict = "ok"
              THEN Flush(check.permutations, <<Operation>>, "single") /\ UNCHANGED <<phase, pick>>
              ELSE RejectCandidate(FALSE) /\ UNCHANGED sched
  /\ compressUnchanged

CheckSingle ==
  /\ Compressing("single")
  /\ LET check == Check(sched.batch)
     IN  /\ diag' = check.diag
         /\ IF check.verdict = "ok"
              THEN /\ sched' = [sched EXCEPT !.pos = @ + 1, !.at = "next"]
                   /\ UNCHANGED <<phase, pick>>
              ELSE RejectCandidate(FALSE) /\ UNCHANGED sched
  /\ compressUnchanged

FlushLast ==
  /\ Compressing("next")
  /\ ~Pending
  /\ LET check == Check(sched.batch)
     IN  /\ diag' = check.diag
         /\ IF check.verdict = "ok"
              THEN /\ Flush(check.permutations, <<>>, "next")
                   /\ phase' = "verify"
                   /\ UNCHANGED pick
              ELSE RejectCandidate(FALSE) /\ UNCHANGED sched
  /\ compressUnchanged

-----------------------------------------------------------------------------
(* verify_plan on the finished candidate, one stage per action. The trace  *)
(* is the list of states its digest covers: the start state, then the      *)
(* state after every stage.                                                *)

VerifyStructure ==
  /\ phase = "verify"
  /\ IF PlanStructure(req, sched.stages) /\ Safe(req, req.state)
       THEN /\ phase' = "replay"
            /\ report' = [next |-> 1, trace |-> <<req.state>>]
            /\ UNCHANGED pick
       ELSE RejectCandidate(FALSE) /\ UNCHANGED report
  /\ UNCHANGED <<searchVars, request, sched, attempt, core, result>>

VerifyStage ==
  /\ phase = "replay"
  /\ report.next <= Len(sched.stages)
  /\ LET stage == sched.stages[report.next]
         entry == Last(report.trace)
     IN  IF StageVerified(req, entry, stage)
           THEN /\ report' = [next |-> report.next + 1,
                              trace |-> Append(report.trace, Replay(req, entry, stage.steps))]
                /\ UNCHANGED <<phase, pick>>
           ELSE RejectCandidate(FALSE) /\ UNCHANGED report
  /\ UNCHANGED <<searchVars, request, sched, attempt, core, result>>

-----------------------------------------------------------------------------
(* Selection. Churn and maintenance duration depend only on the set of     *)
(* steps, so they are equal for all candidates of a request.               *)

StageRisk(r, stage) ==
  Totals(0, [i \in DOMAIN stage.steps |-> r.risk[stage.steps[i]]])[Len(stage.steps)]

Metric(r, metric, plan) ==
  CASE metric = "minimum_stages" -> Len(plan.stages)
    [] metric = "risk_exposure"  ->
         Max({0} \cup {StageRisk(r, plan.stages[k]) : k \in DOMAIN plan.stages})
    [] OTHER -> 0

ObjectiveVector(r, plan) == [i \in DOMAIN r.priority |-> Metric(r, r.priority[i], plan)]

Prefers(r, a, b) == LexLess(ObjectiveVector(r, a), ObjectiveVector(r, b))

\* Mutant: the last verified candidate wins.
VerdictsForLast(r, plan, best) == {TRUE}

\* Whether plan replaces best. Equal vectors are decided by a content digest,
\* that is, arbitrarily.
Verdicts(r, plan, best) ==
  IF best = Nothing \/ Prefers(r, plan, best) THEN {TRUE}
  ELSE IF Prefers(r, best, plan) THEN {FALSE}
  ELSE BOOLEAN

SelectPlan ==
  /\ phase = "replay"
  /\ report.next > Len(sched.stages)
  /\ LET plan == PlanOf(sched.stages, report.trace)
     IN  \E wins \in Verdicts(req, plan, pick.best) :
           pick' = [pick EXCEPT !.candidate = @ + 1,
                                !.verified = @ \cup {plan},
                                !.best = IF wins THEN plan ELSE @]
  /\ phase' = "candidate"
  /\ UNCHANGED <<searchVars, request, sched, report, attempt, core, result>>

-----------------------------------------------------------------------------
(* After an attempt: return, or look for the obligations that block.       *)

Succeeded == attempt.kind = "plan"
Cancelled == attempt = Failed("cancelled")

OrderingFailures == {"no_safe_ordering", "unsafe_initial_state", "contradictory_constraints"}

SettleMain ==
  /\ phase = "settle"
  /\ core.mode = "off"
  /\ IF Succeeded
       THEN Return(attempt) /\ UNCHANGED core
     ELSE IF attempt.code \in OrderingFailures /\ request.enforced # {}
       THEN /\ phase' = "core"
            /\ core' = [NoCore EXCEPT !.mode = "grow", !.code = attempt.code]
            /\ UNCHANGED result
     ELSE Return(Refusal(attempt.code, {})) /\ UNCHANGED core
  /\ UNCHANGED <<searchVars, request, pick, sched, report, attempt>>

\* Mutant: an attempt with one obligation disabled enforces none.
RelaxedFully(r, disabled) == [r EXCEPT !.enforced = {}]

\* attempt_with: the same request with some obligations not enforced.
Relaxed(r, disabled) == [r EXCEPT !.enforced = @ \ ToSet(disabled)]

\* The counter stops one above what CoreOverrunBounded allows.
AttemptBound == request.limits.core + Cardinality(request.enforced) + 1

TryWithout(disabled, next) ==
  /\ phase' = "begin"
  /\ req' = Relaxed(request, disabled)
  /\ core' = [core EXCEPT !.trial = disabled, !.next = next,
                          !.attempts = Min({@ + 1, AttemptBound})]

CoreFinished(disabled) ==
  /\ Return(Refusal(core.code, ToSet(disabled)))
  /\ core' = [core EXCEPT !.disabled = disabled]

coreUnchanged ==
  UNCHANGED <<strategy, stop, diag, search, request, pick, sched, report, attempt>>

\* The enabled obligations the growing pass has yet to try to disable next.
Untried == {c \in request.enforced : c >= core.next /\ c \notin ToSet(core.disabled)}

\* Mutant: the growing pass is not charged to its budget.
MayGrow == core.attempts < request.limits.core /\ Untried # {}

GrowCore ==
  /\ phase = "core"
  /\ core.mode = "grow"
  /\ MayGrow
  /\ TryWithout(Append(core.disabled, Min(Untried)), Min(Untried))
  /\ UNCHANGED result
  /\ coreUnchanged

GrowthEnds ==
  /\ phase = "core"
  /\ core.mode = "grow"
  /\ ~MayGrow
  /\ IF core.disabled = <<>>
       THEN CoreFinished(<<>>)
       ELSE /\ core' = [core EXCEPT !.mode = "shrink", !.next = 1]
            /\ UNCHANGED <<phase, result>>
  /\ UNCHANGED req
  /\ coreUnchanged

ShrinkCore ==
  /\ phase = "core"
  /\ core.mode = "shrink"
  /\ core.next <= Len(core.disabled)
  /\ TryWithout(RemoveAt(core.disabled, core.next), core.next)
  /\ UNCHANGED result
  /\ coreUnchanged

ShrinkEnds ==
  /\ phase = "core"
  /\ core.mode = "shrink"
  /\ core.next > Len(core.disabled)
  /\ CoreFinished(core.disabled)
  /\ UNCHANGED req
  /\ coreUnchanged

\* A successful trial stays disabled and the growing pass starts over.
SettleGrow ==
  /\ phase = "settle"
  /\ core.mode = "grow"
  /\ IF Cancelled
       THEN CoreFinished(<<>>)
       ELSE /\ phase' = "core"
            /\ core' = IF Succeeded
                         THEN [core EXCEPT !.disabled = core.trial, !.next = 1]
                         ELSE [core EXCEPT !.next = @ + 1]
            /\ UNCHANGED result
  /\ UNCHANGED req
  /\ coreUnchanged

\* Mutant: an obligation that has to stay disabled is tried again.
SettleShrinkAgain ==
  /\ phase = "settle"
  /\ core.mode = "shrink"
  /\ IF Cancelled
       THEN CoreFinished(core.disabled)
       ELSE /\ phase' = "core"
            /\ core' = IF Succeeded
                         THEN [core EXCEPT !.disabled = core.trial]
                         ELSE core
            /\ UNCHANGED result
  /\ UNCHANGED req
  /\ coreUnchanged

\* An obligation planning succeeds with is enforced again.
SettleShrink ==
  /\ phase = "settle"
  /\ core.mode = "shrink"
  /\ IF Cancelled
       THEN CoreFinished(core.disabled)
       ELSE /\ phase' = "core"
            /\ core' = IF Succeeded
                         THEN [core EXCEPT !.disabled = core.trial]
                         ELSE [core EXCEPT !.next = @ + 1]
            /\ UNCHANGED result
  /\ UNCHANGED req
  /\ coreUnchanged

-----------------------------------------------------------------------------
RequestStop ==
  /\ phase # "done"
  /\ ~stop
  /\ stop' = TRUE
  /\ UNCHANGED <<req, strategy, diag, search, request, phase, pick, sched,
                 report, attempt, core, result>>

PlannerStep ==
  \/ Admit \/ RefuseInput
  \/ AttemptScheduled \/ AttemptConverged \/ AttemptBarred
  \/ LoopEnds \/ LoopCancelled \/ LoopOutOfAttempts \/ StartCandidate
  \/ Searching \/ OrderFound \/ SearchStopped \/ OrderMissing
  \/ FlushBatch \/ JoinBatch \/ SplitBatch \/ CheckSingle \/ FlushLast
  \/ VerifyStructure \/ VerifyStage \/ SelectPlan
  \/ SettleMain \/ GrowCore \/ GrowthEnds \/ ShrinkCore \/ ShrinkEnds
  \/ SettleGrow \/ SettleShrink

Returned ==
  /\ phase = "done"
  /\ UNCHANGED vars

Next == PlannerStep \/ RequestStop \/ Returned

\* The planning thread is never descheduled for ever; the caller need not stop it.
Spec == Init /\ [][Next]_vars /\ WF_vars(PlannerStep)

-----------------------------------------------------------------------------
(* Properties                                                              *)

Phases == {"admit", "begin", "candidate", "search", "compress", "verify", "replay",
           "settle", "core", "done"}

\* A batch or a stage is a sequence of operations, entered in a fabric state.
ScheduleTypeOK ==
  sched \in [pos : Nat \ {0}, batch : Seq(1 .. req.n), at : {"next", "split", "single"},
             state : States,
             stages : Seq([steps : Seq(1 .. req.n), basis : States, permutations : Nat])]

\* Every variable has its type: the search never runs on an empty stack, the
\* candidate counter stays among the four strategies, every attempt plans for the
\* caller's request or a relaxation of it, and a result exists exactly when the
\* call has returned.
TypeOK ==
  /\ phase \in Phases /\ stop \in BOOLEAN
  /\ req \in Relaxations(request)
  /\ strategy \in ToSet(Strategies)
  /\ diag \in Diagnostics
  /\ SearchTypeOK
  /\ ScheduleTypeOK
  /\ pick.candidate \in 1 .. Len(Strategies) + 1 /\ pick.limit \in BOOLEAN
  /\ core.mode \in {"off", "grow", "shrink"} /\ core.attempts \in Nat
  /\ (phase = "done") = (result # Nothing)

\* What the search mutates in step never drifts apart (search_order): the
\* applied flags are the recorded order, the current state is what that order
\* leads to, and the order is a safe prefix that respects the dependencies.
SearchConsistent ==
  phase = "search" =>
  LET order == search.order
  IN  /\ search.applied = ToSet(order) /\ Cardinality(search.applied) = Len(order)
      /\ search.state = Replay(req, req.state, order)
      /\ \A i \in DOMAIN order :
           /\ Predecessors(req, order[i]) \subseteq {order[j] : j \in 1 .. i - 1}
           /\ Safe(req, Trajectory(req, req.state, order)[i])

Published == result.kind = "plan"

Staged(plan, o, k) == k \in DOMAIN plan.stages /\ o \in ToSet(plan.stages[k].steps)

\* A published plan carries out the whole change and nothing else
\* (schedule, Plan::verify_structure): every derived operation is staged once,
\* no stage is wider than the request allows, and both ends of a dependency
\* are in different stages, the source first.
PlanComplete ==
  Published =>
    /\ {At(result.stages, p) : p \in Places(result.stages)} = Nodes(request)
    /\ Cardinality(Places(result.stages)) = Cardinality(Nodes(request))
    /\ \A k \in DOMAIN result.stages :
         Len(result.stages[k].steps) \in 1 .. request.limits.width
    /\ \A e \in Edges(request), k, l \in DOMAIN result.stages :
         Staged(result, e[1], k) /\ Staged(result, e[2], l) => k < l

\* The orders in which a plan may be carried out: its stages one after the
\* other, the steps of a stage in any order.
Orders(r) == {q \in [1 .. Cardinality(Nodes(r)) -> Nodes(r)] : IsInjective(q)}

Executions(r, plan) ==
  {q \in Orders(r) : \A i, j \in DOMAIN q, k, l \in DOMAIN plan.stages :
     i < j /\ Staged(plan, q[i], k) /\ Staged(plan, q[j], l) => k <= l}

\* A published plan is safe however its stages are carried out
\* (docs/SAFETY_MODEL.md, "Stage semantics"): in every execution every
\* obligation of the caller's own request holds at the start and after every
\* step, every step is accepted, and all executions end in one state.
PublishedPlanSafe ==
  Published =>
    \A q \in Executions(request, result) :
      LET t == Trajectory(request, request.state, q)
      IN  /\ \A i \in DOMAIN t : Safe(request, t[i])
          /\ \A i \in DOMAIN q : CanApply(request, t[i - 1], q[i])
          /\ t[Len(q)] = Last(result.trace)

\* The conditions of a published step were derived in the state its stage is
\* entered with when the plan is carried out, although schedule and verify_plan
\* compute these states separately.
ConditionsFresh ==
  Published =>
    \A k \in DOMAIN result.stages : result.stages[k].basis = result.trace[k]

\* No candidate this call verified is better than the one it published
\* (objective_prefers and the selection at the end of run_attempt).
BestPublished ==
  Published /\ result.stages # <<>> =>
    /\ result \in pick.verified
    /\ \A plan \in pick.verified : ~Prefers(request, plan, result)

\* An order of the operations in which every step can be taken safely.
SafeOrder(r, q) ==
  LET t == Trajectory(r, r.state, q)
  IN  /\ \A i \in DOMAIN q : StepHolds(r, t[i - 1], t[i - 1], q[i])
      /\ \A e \in Edges(r), i, j \in DOMAIN q : q[i] = e[1] /\ q[j] = e[2] => i < j

Orderable(r) == Safe(r, r.state) /\ \E q \in Orders(r) : SafeOrder(r, q)

\* Relaxing the blocking core a refusal reports really unblocks the change
\* (minimise_blocking_core), however far the budgets or the stop token let the
\* minimisation get.
CoreUnblocks ==
  result.kind = "refusal" /\ result.blocking # {} =>
    Orderable([request EXCEPT !.enforced = @ \ result.blocking])

\* A change is refused for its size only when some budget of the call really ran out.
LimitRefusalTruthful ==
  result = Refusal("search_limit_exceeded", {}) =>
    \/ diag.visits > request.limits.visits
    \/ diag.perms > request.limits.perms
    \/ diag.attempts >= request.limits.attempts
    \/ Cardinality(Nodes(request)) > request.limits.steps

\* How far the minimisation overruns its budget. maxCoreMinimisationAttempts is said to bound
\* it: "The reported core stops shrinking" (docs/CLI.md:629). The second pass checks no
\* budget (generate.cpp:1390-1406) and goes on shrinking, by at most one attempt per
\* obligation more than the documentation allows.
CoreOverrunBounded ==
  core.attempts <= request.limits.core + Cardinality(request.enforced)

\* An order is being looked for, or another candidate is about to be started.
Undecided ==
  \/ phase = "search" /\ Running
  \/ phase = "candidate" /\ MoreCandidates

\* A stop that is raised while an order is still being looked for, or before a
\* candidate is started, keeps the call from publishing anything.
StopHonoured == [](stop /\ Undecided => [](~Published))

\* Every call returns.
Termination == <>(phase = "done")

-----------------------------------------------------------------------------
(* What the documentation says and the code does not keep. Each of these   *)
(* is the property of a run that TLC refutes.                              *)

\* "If no ordering exists, the planner refuses" (README.md), and a refusal
\* no_safe_ordering says that none does. The symmetry test makes the search
\* greedy: once an operation is committed every later sibling is skipped.
NoSafeOrderingTruthful ==
  result.kind = "refusal" /\ result.code = "no_safe_ordering" => ~Orderable(request)

\* "A cancelled run [...] never publishes a plan" (docs/ARCHITECTURE.md): a call
\* that was stopped before it returned publishes no steps. Nothing polls the stop
\* token after the search of the last candidate.
StopNeverPublishes == Published /\ result.stages # <<>> => ~stop

\* "A step joins the current stage only if exhaustive permutation replay proves
\* that every interleaving" is safe and converges (docs/ARCHITECTURE.md): a stage
\* verify_stage accepted is one verify_plan accepts.
StagesSurviveVerification ==
  phase = "replay" /\ report.next <= Len(sched.stages) =>
    StageVerified(req, Last(report.trace), sched.stages[report.next])

=============================================================================
