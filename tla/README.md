# Change Planner: a verification development

TLA+ models of the Change Planner library, the TLC instances that check them,
and proofs of the properties that matter most for every instance. Paths below
are relative to the repository root unless they start with `tla/`.

Change Planner takes a snapshot of a network fabric, a target, declared safety
obligations and capability evidence, and returns either a *plan* (stages of
steps, the steps of a stage executable in any order) or a *refusal*. Nothing is
executed by the library: its whole promise is about what it publishes.

## 1. The system

| component | state it keeps | operations | interacts with |
|---|---|---|---|
| scheduling search (`plan/generate.cpp`, `search_order`) | explicit stack, applied flags, order, working state | take a ready operation, skip symmetric siblings, backtrack, poll the stop token, charge the visit budget | called per candidate strategy; reads conditions, applies operations, checks obligations |
| stage verification (`verify_stage`, loop of `verify_plan` in `plan/verify.cpp`) | none (charges budgets of the call) | replay the interleavings of a batch or stage | called by stage compression, by selection, by replanning |
| planner (`generate_plan`) | diagnostics (shared budgets), best candidate, blocking core | admission, attempt prologue, four strategies, compression, verification, selection, core minimisation | everything above; the caller's `StopToken` from another thread |
| carrying out a plan (`replay_prefix`) | the fabric, the steps done | next step of the current stage | reads a published plan; the executor is outside the repository |
| plan structure (`plan/plan.cpp`) | the plan record | `verify_structure`, encoding, digests | publication, persistence, verification |
| derivation (`plan/graph.cpp`) | none | operations, dependencies, compensation, risk from state and target | feeds the scheduler |
| fabric (`model/evaluate.cpp`, `state.cpp`, `operation.cpp`) | snapshot of devices, links, routes, workloads, policies, configuration | `apply_operation`, pre- and postconditions, `evaluate_condition` | search, verification, replay, replanning |
| safety (`safety/checker.cpp`) | none | `check_invariants` | everywhere a state is judged |
| replanning (`plan/replan.cpp`) | none | fence an observation, compensate, replan, roll back | prior plan, observed execution, `generate_plan` |
| validity (`plan/invalidate.cpp`) | none | `evaluate_validity` of a bound plan under drift | plan binding, current inputs |
| repository (`persist/repository.cpp`) | bounded map of plans behind a mutex, counters | publish, find, list, retire | concurrent callers |
| artifact store (`persist/artifact.cpp`) | files and partial files | write and rename, read, scan | several processes, crashes |
| target, constraints, evidence, refusals, comparison, core library, command line | input and output records | validation, encoding, formatting, I/O | the library's callers |

What is hard here: budgets that one call shares between candidates, attempts and
replays; a search that mutates state in place and backtracks; stages whose steps
may be carried out in any order although their conditions are derived once; a
stop token raised at any moment; trial attempts under relaxed obligations that
share all their code with the real one; executors that stop half way; conditions,
gates, effects and inverses of 23 kinds of operations that have to agree with each
other in every snapshot; reports of attempts that come late or repeatedly, and
inputs that drift while a plan waits; a bounded map that several threads publish
to, evict from and retire; processes that die between writing a file and renaming
it, and come back under a process id that was used before. `PROJECT.json` lists
each hazard at its line with the properties that watch it.

What makes each component correct: the search keeps its records in step and tries
only safe, ordered prefixes; stage verification leaves no interleaving unreplayed;
the planner publishes complete plans that are safe in every execution, refuses
truthfully, honours a stop and returns; carrying out a plan never leaves the
allowed states; a replan never acts on a stale observation, and reaches what it is
asked for except where a compensated step wrote or two operations of one workload contend;
a plan judged valid can still be carried out; a repository never holds two
contents for a key at once and keeps the greatest keys (plan identity, then generation)
rather than the newest plans; a reader of the artifact store never sees a torn plan.

## 2. Modules

The planner, over a fabric given as parameters:

| module | what it models |
|---|---|
| `OrderSearch` | `search_order`: the frame stack, four strategies, the symmetry test, the visit budget, the stop poll. Declares the fabric as parameters. |
| `StageVerification` | `verify_stage` (permutation order, budgets), the stage loop of `verify_plan`, `Plan::verify_structure`. |
| `Planner` | one call of `generate_plan`, and its properties. |
| `Rollout` | planner and fabric together: a published plan carried out step by step. |
| `ChangeControl` | the abstract specification `Rollout` implements. |
| `SmallFabric` | a small fabric the runs bind the parameters to. |

The fabric itself, and what is decided about it:

| module | what it models |
|---|---|
| `Fabric` | snapshots, `validate`, `apply_operation` with its gates, pre- and postconditions, `evaluate_condition`. |
| `Safety` | `check_invariants`: one operator per obligation, the search for disjoint paths included. |
| `Derivation` | `derive_operations`, `derive_dependencies`, `derive_compensation`, the capability gate. |
| `FabricWalk` | a fabric under any sequence of accepted operations, and the properties of the three modules above. |
| `Validity` | `evaluate_validity` with its summary and tolerances. |
| `Replan` | `generate_plan` seen from outside, `fence_observation`, `replan` with compensation, `build_rollback_plan`. |
| `Lifecycle` | a plan from its generation to its replacement: drift, validation, execution that fails half way, late reports, continuation and rollback. |

What is kept:

| module | what it models |
|---|---|
| `Repository` | `PlanRepository`, step by step under its mutex. |
| `WriteOnceStore` | the abstract specification `Repository` implements. |
| `ArtifactStore` | `write_plan_artifact`, `read_plan_artifact`, `scan_plan_directory` by several processes that crash. |

Proofs and instances:

| module | what it holds |
|---|---|
| `PlannerProofs` | what `verify_plan` guarantees, the types of `Planner`, and the lemmas on replays, interleavings and sorted lists. |
| `OutcomeProofs` | what a call keeps, counts, prefers and says. |
| `ExecutionProofs` | every execution of what a call publishes, and the theorems about `Rollout` with the refinement of `ChangeControl`. |
| `FabricLemmas` | what each kind of operation changes in a snapshot and what it leaves alone. |
| `FabricProofs` | theorems about `FabricWalk`. |
| `LifecycleProofs` | theorems about `Lifecycle`, and what derivation, replay and replanning give. |
| `RepositoryProofs`, `ArtifactProofs` | theorems about `Repository` (with the refinement of `WriteOnceStore`) and `ArtifactStore`. |
| `MCPlanner`, `MCGreedy`, `MCRollout`, `MCFabric`, `MCLifecycle`, `MCRepository`, `MCArtifacts` | what the runs give the constants. |

`Rollout` composes the planner with an executor over a fabric of parameters;
`Lifecycle` composes the concrete fabric, derivation, safety, validity and
replanning. The two meet in what a plan is: the first shows that any plan
`verify_plan` accepted is safe in every order, whatever the fabric does; the second
leaves the search out (any verified order may come back) and follows plans
through failure and drift on the real operations.

### Correspondence with the code: planner

*Parameters.* `Pre`, `Post`, `CanApply`, `Apply` and `Holds` stand for
`derive_preconditions` with `evaluate_condition`, `derive_postconditions`, success
and result of `apply_operation`, and one declared obligation of `check_invariants`.
`Pre` has two states, the one the conditions are derived in and the one they are
evaluated in, because `schedule` derives a stage's conditions once and evaluates
them later; `Post` has one, because `derive_postconditions` discards the state and
the context it is given and goes by the operation alone. `check_invariants` also tests the generations of the
evidence against the snapshot; admission has established those and no operation
changes them, so they are not among the obligations. Nothing is assumed of the
fabric but that `Apply` maps states to states.

*Requests.* A request is a record: what admission says (`admit`), what
`derive_operations` and `derive_dependencies` say (`derives`, `ordered`, `n`,
`edges`, `because`, `id`, `risk`, `windowed`), whether the capability gates are open
(`capable`), and `state`, `enforced`, `limits`, `priority` as in `PlanRequest`.
`because[o]` names the obligation without which operation `o` would not be derived
(the drain of `drain_before_maintenance`), since a trial of the core minimisation
plans a different set of operations when it is disabled.

*State.* `search` is `SearchContext` with the stack of `search_order`; `diag` the
counters of `PlanDiagnostics` that are budgets; `pick` the locals of the candidate
loop; `sched` those of `schedule`; `report` those of `verify_plan`; `attempt` the
`Attempt` an attempt ends with; `core` the locals of `minimise_blocking_core`;
`phase` says which of these functions is running. `req` is the request of the
current attempt (relaxed in the core minimisation), `request` the caller's.
`pick.verified` is a history variable: the candidates verified so far.

*Actions.* One iteration of the search loop, one call of `verify_stage`, one stage of
`verify_plan` and one iteration of each outer loop is an action. The only
concurrent event is the stop token, which `RequestStop` may raise between any two
of them. This is coarser than the code in one place: inside one iteration of the
search loop the token is polled once at the start, so a stop during an iteration
is seen by the next one, in the model as in the code.

*Sorting.* `Ascending` lists a set by rank: the `i`-th element is the one with `i - 1`
before it. It stands for the `std::sort` and `std::stable_sort` calls, whose orders are
total here (ties are broken by the canonical index, as `left < right` does in the
code), and unlike a sort by comparison operator it can be reasoned about.

*Abstractions.* Violations, messages and explanations are left out: no property is
about them. A tie between two objective vectors is decided by a digest in the
code and arbitrarily in the model. Churn and maintenance duration depend on the
set of steps alone and are equal for all candidates of one request. The counter
of core attempts stops one above the bound `CoreOverrunBounded` states.

### Correspondence with the code: fabric

*Snapshots.* A record of functions from identities to entities, as the sorted vectors
of `CurrentStateSnapshot` are read by `find_*`. Devices and links are marked `removed`
and stay; the rest is erased. A configuration value is identified by device and
key. Identities are numbers because several results depend on their order (the
guarantee check, the eviction order, the canonical order of operations).
Reservations, demand and capacities are small numbers.

*Operations.* `[kind, id, new]`, where `new` is the payload. `Applies` and `Changed` are
success and result of `apply_operation` (existence, exclusion and window gates
first, then one case per kind); `Preconditions`, `Postconditions` and `Satisfied` are
`derive_preconditions`, `derive_postconditions` and `evaluate_condition`.
`MaxRevision` is the value at which `config_set` reports overflow; it is the only
number whose width matters.

*The walk.* `FabricWalk` lets any operation of a catalogue happen wherever its
preconditions hold and `apply_operation` takes it. That is more than any plan does,
which is what makes the properties hold for all plans. `WorldAssumption` says what a
catalogue is: operations as `derive_operations` makes them for the start, no two of which
share a digest.

*Derivation.* `Derived` is the set `derive_operations` returns, since it removes
duplicates; `Precedes` is the edge relation of `derive_dependencies` with its two
sources, prerequisites and conflicts in the canonical order. The last criterion of
that order, the digest, is the parameter `DigestLess`. The edge
`contract_serialization` (`graph.cpp:1104-1149`) needs two operations that take a
device of one failure domain out of service, and those have a
`domain_serialization` edge already; it adds no order and is left out.

*Inputs.* `Validity` puts what a plan is bound to into one record (snapshot, stamp, target,
evidence, rules, instant) and what is true now into another of the same shape.
Digests are the values they are computed from, the identity of the authority is folded into
its generation, a report carries one stamp. What evidence says and the version it carries are apart:
the authority may issue it anew with other contents under the same version, as nothing in
the code ties the two, and `evaluate_validity` compares the version alone. The same goes for
targets, whose digest is compared when the revision is the same.

*Life cycle.* `Generate`, `Continue` and `RollBack` are the library's calls; `Begin`,
`Perform`, `Stumble` and `Report` are an executor that does what the records ask for:
it validates, carries steps out in order until one goes wrong (some, the
`persistent` ones, go on after a step that was only partially applied), and writes down
outcomes and an observed snapshot; the remaining actions change the fabric and the inputs
behind the plan's back. A report, once written, may be used at any later time and any number of
times. Target and evidence are issued anew separately
or together. The caller passes to `replan` either the first request or the prior plan's own, and
adopts the rebased target. `max_stage_width` is 1, so a plan is a sequence; the
stage of compensations is verified in every order, as the code does.

*Left out.* Device profiles, latency and contract codes as values of their own,
durations, the state `absent` (nothing creates it), the condition
`invariant_satisfied` (nothing derives it), calls without constraints,
saturation of 64-bit load sums, the `allow_window_shift` option, and all text.

### Correspondence with the code: what is kept

*Repository.* Every public operation is `Begin` (the call, and the checks made before the lock
is taken), `Acquire` (the `lock_guard`), one action per iteration of its loop, and a
last one that returns and unlocks. Mutual exclusion is thus checked
and not assumed. `retire_below` is one forward pass of an iterator: the model remembers
the slots that lie behind it, and what would slip in there would be missed. `accepted`,
`stored` and `retired` are history variables: what callers were told was published, and what was
dropped because it was retired. A plan is its key and its content. Nothing else in the library uses
the repository; the threads are those of its tests.

*Artifacts.* A file is a sequence of chunks, a directory maps names to files, a rename is atomic
and leaves the old file to those who have it open. `Begin` draws the partial name,
then open, one action per chunk, rename with its retries, each of which may fail for whatever
reason the file system has; a reader takes the size,
opens, and reads that many bytes in three steps; a scan lists the directory at once and
then does that for each name. `Crash` ends all threads of a process at any point;
the process comes back under any free process id, also one used before, with its
counter at zero. The file system is external: removing a partial file
succeeds, a directory is listed atomically, and what a power loss does to
unflushed data is not modelled.

## 3. What the runs check

`tlc -config X.cfg M` in `tla/`; times are for two workers.

| run | module, configuration | shows |
|---|---|---|
| `planner` | `MCRollout`, `MCRollout.cfg` | eleven invariants of the planner and of carrying its plans out, `StopHonoured`, `Termination`, refinement of `ChangeControl`, 456,658 states, about 85 s |
| `fabric` | `MCFabric`, `MCFabric.cfg` | six invariants and two action properties, 7,904 states, about 35 s |
| `lifecycle` | `MCLifecycle`, `MCLifecycle.cfg` | four invariants, 232,363 states, about 45 s |
| `repository` | `MCRepository`, `MCRepository.cfg` | four invariants, one action property, `LockReleased`, refinement of `WriteOnceStore`, 349,221 states, about 35 s |
| `artifacts` | `MCArtifacts`, `MCArtifacts.cfg` | four invariants and `WritesEnd`, 639,820 states, about 55 s |
| `greedy_search` | `MCGreedy`, `MCGreedy.cfg` | refutes `NoSafeOrderingTruthful` |
| `stop_after_search` | `MCPlanner`, `MCStop.cfg` | refutes `StopNeverPublishes` |
| `stage_enumeration` | `MCPlanner`, `MCStages.cfg` | refutes `StagesSurviveVerification` |
| `guarantee_order` | `MCFabric`, `MCGuarantee.cfg` | refutes `GuaranteesHold` |
| `rebinding` | `MCLifecycle`, `MCRebind.cfg` | refutes `EveryTargetReached` |
| `route_addition` | `MCFabric`, `MCRouteAdd.cfg` | refutes `RoutesCanBeAdded` |
| `stale_evidence` | `MCLifecycle`, `MCEvidence.cfg` | refutes `ValidMeansSame` |

*Planner.* `SearchConsistent` (the records the search mutates never
drift apart), `PlanComplete` (the whole change, stage width, edges across stages),
`PublishedPlanSafe` (every execution keeps every obligation and all end in one
state), `ConditionsFresh`, `BestPublished`, `CoreUnblocks` (relaxing the reported core
makes the change orderable), `LimitRefusalTruthful`, and over
behaviours `StopHonoured` and `Termination`. The same run carries the published plans out:
`RolloutSafe`, `RolloutAccepted`, `RolloutConverges`, `ImplementsChangeControl`. A budget can be
spent and the refusal still name another reason, and a verified best plan can be thrown away
when a budget ends (see below); `LimitRefusalTruthful` says only that a refusal that
names a limit is right.

*Fabric.* `EffectsAsserted` (postconditions are derived without looking at the snapshot, and
have to be right in every one), `ExclusionRespected` (the exclusion gate finds the
devices an operation concerns through links, routes and bindings),
`TombstonesFinal`, `SurvivesDomainLoss` (the redundancy check, which counts domains
touched, against the loss of a domain), `DiversityExact` (the pruned and budgeted
search against the definition of disjointness), `UnorderedStepsCommute` (operations
without an edge may share a stage), `CompensationUndoes`.

*Lifecycle.* `ValidPlanReplays` (a plan that passes `evaluate_validity` can be carried out from
the fabric as it is, however generations, versions, contents of the evidence, policies and
configuration have moved since, under conditions it names: it is judged at its own instant; evidence is
there for the same devices; where drift is tolerated, none has come to what the summary
holds; what the steps need of policies and configuration is `Undisturbed`. What the code lets through
beyond these is in "Where the code departs"), `TargetReached` (and that brings
the fabric to the target, whatever was reported of earlier attempts and however late, except
for the bindings of a workload in `Contested`; see the `rebinding` run),
`RollbackRestores`.

*Repository.* `AcceptedIsHeld` (two contents of one key are never both reported as
published while the key is held), `ListIsSnapshot`, `GreatestAreHeld` (of all keys ever
published and not retired, the greatest are still there, as many as there are slots but one),
`NothingBelowBound` (the single pass of `retire_below` misses nothing), `LockReleased`,
`ImplementsStore`.

*Artifacts.* `DestinationComplete`, `ReadsPublished`, `OrphansFromCrashes`, `WritesEnd`.

Every property has a mutant in `PROJECT.json`, a plausible bug in a mapped definition
that breaks it.

### Bounds, and why they are enough

*Planner.* `SmallFabric` has three operations (four for `MCGreedy`). A state is the set of
applied operations and the last writer of one shared field, which is what it takes
for two operations not to commute. Obligations forbid any family of intermediate
sets, so every pattern of dead ends, of unsafe interleavings and of detours that
three operations allow occurs; edges, identity orders that differ from the
canonical one, preconditions and races are crossed with them. Three operations
are the least for which a stage has an interleaving that `verify_stage` skips and
`verify_plan` must catch, for which a batch splits after it has grown, and for which
backtracking passes a frame with a committed operation; two obligations are the
least for which growing and shrinking the core differ. `Tight` sets each budget so
that it runs out in the search, in a trial batch, in a flush, between candidates
and in the core minimisation. `Special` holds the requests that end before the
scheduler, preconditions that order steps, and a drain no state allows. The requests of
`MCRollout` add races and forbidden sets in stages of two and three steps; every plan that is
published is carried out in every order. Four
operations are needed to refute `NoSafeOrderingTruthful`, because four strategies try
different first choices. No symmetry is used: operations are numbers, since the
strategies order them.

*Fabric.* Four fabrics, each with the catalogue that makes one family of rules
interact. Maintenance: three devices, one free to be maintained, one outside its
windows, one in an exclusion, with operations that reach the excluded one only
through a link, a route or a binding; with and without window and drain rules.
Paths: three failure domains, links that pass through one, two routes on the same
links, operations that remove, resize and rebind them; enough routes that the path
limit and the budget of the disjoint-path search both run out (`DiversityPaths` 3,
`DiversityBudget` 14 instead of 24 and 200,000). Policies and configuration:
revisions up to the maximum. The fourth, for `guarantee_order`, has two workloads on one link.
All sequences of accepted operations are explored to their end (depth 14). All
23 kinds occur.

*Lifecycle.* Seven kinds of worlds: values of existing entities change, no tolerance; the same
with a goal the summary does not see (policies and configuration alone); maintenance with windows and
tolerances, and a new link; entities that go and come, with a policy that may come to be about one that
goes; a new device in its window, which a compensation takes back; a workload that gives up a route and asks for
more on the other; evidence issued anew with other contents, for both devices or for one. Plans have one to four steps, enough for
an attempt to break off before, between and after two of them. Two or three generations, one
or two attempts each, and at most one change by others, which is what it takes for a late
report of an earlier attempt, or of an earlier generation, to meet a plan it does not belong to.
Worlds with two attempts leave out the changes by others, and the reverse; no property needs both at once
to be broken.
Three worlds have executors that go on after a partial step, so that several steps have
to be compensated at once, in one stage that is verified in every order.

*Repository.* Two threads, two plans of two generations, two contents per key, capacities 0 (which
the constructor replaces by 1), 2 and 3, four calls: a publication beyond the capacity evicts, with one
slot, two or three to choose from; publications of one key race; a publication can wait for the lock while
another thread lists or retires; and slots to retire lie on both sides of one that stays. The proofs below cover every other size.

*Artifacts.* A writer in each of two processes with two process ids, so that a process that died comes
back under its old one and draws the name of its orphan again; plans of two chunks and one; two attempts to rename; three
writes, one read or scan, one crash. A shorter plan replacing a longer one, and the
reverse, between a reader's `Stat` and `Read`, are both there.

### Fairness

`Spec` has weak fairness of `PlannerStep`: the planning thread runs ordinary code
without locks or I/O and is never descheduled for ever. `RequestStop` has none: no
caller has to stop a call. `FairRollout` in `MCRollout` states the same fairness with
`ENABLED` written out as `phase # "done"`, which TLC would otherwise evaluate for a
second per state; the run checks for deadlock, so a state outside `done`
without a step would be reported. Of the executor nothing is assumed. A state whose only step is `RequestStop`
would be no deadlock; the guards that read `stop` are those of `LoopCancelled`,
`LoopOutOfAttempts`, `StartCandidate` and the search steps, and each of these groups
covers both values of it.

`Repository` has weak fairness of each thread's steps while it holds the lock:
the code inside the lock does no I/O and cannot block. Nothing is said about who
gets the lock, so nothing is claimed about threads that wait. `ArtifactStore` has weak
fairness of a write that has begun; which of its steps succeed is left open, so
`WritesEnd` rests on the bound of the retries alone. Readers, crashes and
everything in `FabricWalk` and `Lifecycle` have no fairness: those runs check safety.
`CHECK_DEADLOCK FALSE` stands where the model may stop: an operation sequence that
is exhausted, a life cycle at its bounds, callers that make no more calls.

### Where the code departs from its documentation

* **The search is greedy** (`greedy_search`). Ready siblings are never joined by a direct
  edge, so `independent` always holds between them and the first commit at a level
  skips all later ones (`generate.cpp:364`). `README.md:49`, `docs/ARCHITECTURE.md` step 8.
* **A stopped call can publish** (`stop_after_search`). Neither `verify_stage` nor
  `verify_plan` polls the token. `docs/ARCHITECTURE.md:161`.
* **`verify_stage` does not replay every interleaving** (`stage_enumeration`), because
  `std::next_permutation` starts from the id order (`generate.cpp:510`). Published plans
  are safe all the same, since `verify_plan` replays all of them: that is what
  `PublishedPlanSafe` and the theorems rest on. Candidates are lost, though.
* **Guarantees depend on the order of identities** (`guarantee_order`). `check_invariants`
  checks the guaranteed headroom of a workload before the load of workloads with
  greater identities is added (`checker.cpp:476-515`). `docs/SAFETY_MODEL.md:32`.
* **A published plan can miss its target** (`rebinding`). A route that goes has the
  bindings of its workloads set to what remains (`graph.cpp:781`); a target that also asks
  for other bindings of such a workload sets them as well (`graph.cpp:858`). Only the digests
  order the two, and if the remaining bindings come last they stay. `README.md:5-8`.
* **No plan adds a route** (`route_addition`). `derive_preconditions` asks of a `route_add` that the
  route it is about to create can be walked, and a route that is not there cannot
  (`evaluate.cpp:563`). `README.md:91-94` and `docs/SAFETY_MODEL.md:70-71` list the operation.
* **A valid plan can be stale in its evidence** (`stale_evidence`). The digest of the evidence is
  bound into the plan and never compared; `evaluate_validity` looks at the version alone
  (`invalidate.cpp:211-233`). A device that has lost its evidence under the same version
  leaves the plan "valid", and its first step breaks `capability_evidence`. `README.md:54`,
  `docs/CLI.md:681-687`.

Met on the way and not the subject of a run:

* For the same reason no target can be planned that removes two routes of one workload and
  says nothing else of that workload: what remains without the one still binds the other, so
  whichever comes last puts back a route that has to go, and the refusal says
  `no_safe_ordering`.
* A target that differs in the reserved capacity of a device or a link alone derives
  a `device_set_capacity` or `link_set_capacity` (`graph.cpp:663`, `758`) that leaves
  the reservation as it was (`evaluate.cpp:158`, `231`). `Matches` does not compare it, nor the
  state of a link, which a target does not ask for.
* A permutation or visit budget that runs out while a batch is verified again before it
  becomes a stage (`generate.cpp:643-718`) is not looked at, and the attempt ends as
  `no_safe_ordering` where `docs/SAFETY_MODEL.md:118` names `search_limit_exceeded`.
* The core minimisation overruns its budget. `docs/CLI.md:629` says that
  `maxCoreMinimisationAttempts` bounds it and that the core "stops shrinking" when it is spent; the
  pass that shrinks consults no budget (`generate.cpp:1390-1406`) and makes up to one attempt
  per obligation beyond it. So the documented bound does not hold; `CoreOverrunBounded` is the one that
  does, and `CoreOverrunIsBounded` proves it.
* With any of the tolerances for capacity, added or removed entities above zero, changes of existing
  entities that no other check covers are passed (`invalidate.cpp:312`). The plan is then valid against a fabric that differs in what
  its steps rely on, which is what a tolerance asks for; nothing is promised of such a plan, and
  `ValidPlanReplays` excludes it.
* A plan may be judged at a later instant than it was made for. Only the windows its own steps
  are bound to are looked at again, so what else depends on the time may have changed; `ValidPlanReplays`
  speaks of the plan's own instant.
* The summary `evaluate_validity` compares leaves out policies and configuration. A plan
  that touches them can be "valid" and fail at its first step, and a plan
  that changes nothing else stays valid after it was carried out. `ValidPlanReplays` and
  `TargetReached` are stated with that exception.
* A continuation planned from the observed snapshot gets the compensation stage put in front
  of it. What a compensated step wrote may then be missing at the end
  (`docs/ARCHITECTURE.md:117-119`); `TargetReached` excepts just that.
* Compensating steps bypass the capability gate and are bound to no windows.
* An observation is fenced by generation, topology and incarnation, and not by attempt or by
  the identity of the authority.
* The recorded inverse of `route_set_state` restores the path and not the state
  (`graph.cpp:511`).
* `repository.hpp:37-38` speaks of authority generations; `retire_below` compares plan
  generations.
* `docs/CLI.md:628` says `maxSchedulingAttempts` is not consulted, but
  `generate.cpp:1116` consults it and throws away a verified best plan.
* A candidate that fails `verify_plan` counts towards `no_safe_ordering`, where
  `docs/ARCHITECTURE.md:77` names `internal_verification_failed`.
* The core that minimisation reports is not always irreducible when a stop or a
  budget cuts it short (`docs/ARCHITECTURE.md:104`).

## 4. What is proved

`tlapm` checks every proof from nothing. Assumed are only conditions on the constants:

* `ApplyAssumption` (`OrderSearch`): the fabric maps states to states, also under a relaxed request;
* `RequestAssumption` (`OrderSearch`): the types of a request's fields, with finitely many
  obligations that are numbers, and budgets that are natural numbers;
* `CodeAssumption` (`Planner`): derivation and ordering do not report `converged`, no pass
  before the search reports an exhausted limit, admission refuses a stage width of zero, and an
  objective is a list of metrics;
* `DiversityAssumption` (`Safety`): the limits of the disjoint-path search are natural numbers;
* `WorldAssumption` (`FabricWalk`): a fabric starts as a valid snapshot, and its catalogue
  holds operations as `derive_operations` makes them for it (one that moves a route or resizes a
  link finds it and carries its ends; payloads have the fields of their kind), which the canonical
  order tells apart, because no two of them share a digest; there are finitely many routes, their
  identities are numbers, their paths are sequences of link identities, and the redundancy and
  diversity a workload asks for are natural numbers;
* `WorldAssumption` (`Lifecycle`): a world starts as a valid snapshot; devices, links, routes and workloads
  have the fields of their records, devices one of the states, policies a scope, and the tables are finite, in
  the snapshot, the goals and the operations of others; rules have the fields a check reads; the bounds are natural numbers;
* `RevisionAssumption` (`Fabric`): the last revision of a configuration value is a natural number;
* `RepositoryAssumption`, `ArtifactAssumption`: finite sets of keys, at least one attempt to rename,
  plans of at least one chunk, and the like.

Nothing is assumed of conditions, obligations, edges or identities; the set of
states may be infinite, and so may the sets of operations, threads, writers and readers.

| theorem | statement |
|---|---|
| `PlannerTypes` | `Spec => []TypeOK` |
| `PlannerInvariant` | `Spec => []PlannerInv`: what is returned is a refusal, or a plan every stage of which `verify_plan` replayed under the caller's own request |
| `PublishedConditionsFresh` | `Spec => []ConditionsFresh` |
| `SearchKeepsItsRecords` | `Spec => []SearchConsistent` |
| `PlansAreComplete` | `Spec => []PlanComplete` |
| `LimitRefusalsAreTruthful` | `Spec => []LimitRefusalTruthful` |
| `CoreOverrunIsBounded` | `Spec => []CoreOverrunBounded`, which no run checks: by how much the core minimisation exceeds its budget |
| `StopsAreHonoured` | `Spec => StopHonoured` |
| `BestIsPublished` | `Spec => []BestPublished` |
| `PublishedPlansAreSafe` | `Spec => []PublishedPlanSafe` |
| `CoresUnblock` | `Spec => []CoreUnblocks` |
| `RolloutInvariant`, `RolloutIsSafe`, `RolloutIsAccepted`, `RolloutIsConvergent` | the invariants of `Rollout` and what makes them inductive |
| `RolloutImplementsChangeControl` | `RolloutSpec => Control!Spec` |
| `FabricTypes`, `EffectsHold` | `Spec => []TypeOK`, `Spec => []EffectsAsserted` of `FabricWalk` |
| `TombstonesStay`, `ExclusionsHold` | `Spec => TombstonesFinal`, `Spec => ExclusionRespected` |
| `CompensationUndone`, `UnorderedCommute` | `Spec => []CompensationUndoes`, `Spec => []UnorderedStepsCommute` |
| `DomainLossSurvived` | `Spec => []SurvivesDomainLoss` |
| `DiversityIsExact` | `Spec => []DiversityExact` |
| `LifecycleTypes` | `Spec => []TypeOK` of `Lifecycle` |
| `ValidPlansReplay` | `Spec => []ValidPlanReplays` |
| `TargetsReached` | `Spec => []TargetReached` |
| `RollbacksRestore` | `Spec => []RollbackRestores` |
| `RepositoryInvariant`, `RepositoryTypes`, `OneContentPerKey`, `ListsAreSnapshots` | the invariants of `Repository` |
| `GreatestKeysStay`, `RetirementComplete` | `Spec => []GreatestAreHeld`, `Spec => NothingBelowBound` |
| `RepositoryImplementsStore` | `Spec => ImplementsStore` |
| `ArtifactInvariant`, `ArtifactTypes`, `NoPartialAtDestination`, `ReadersSeePublished`, `OnlyCrashesLeaveOrphans` | the invariants of `ArtifactStore` |

*What makes a published plan safe.* These proofs never look into the search or into `verify_stage`:
what keeps a published plan safe is `verify_plan`, and the proofs say exactly that. Whatever
order, batch or stage the scheduler comes up with, a plan gets into `pick.best` only
through `VerifyStructure` and one `VerifyStage` per stage.

`PlannerInv` follows that phase by phase. `ConditionsFresh` is not inductive, because
nothing in it says how a published plan came about. The strengthening says: while
no core is being minimised, `req` is `request`; while a candidate is replayed, the
stages before `report.next` are verified from the states in `report.trace`; the best
plan is verified as a whole; an attempt that succeeded ended with such a plan. In
the minimisation attempts may succeed with plans verified under a relaxed request,
and the invariant says instead that none of these reaches `result`.

`RolloutInv` adds where the execution is: a position `(k, p, m)`, meaning that the
stages before `k` are done, that `p` is a complete order of the steps of stage `k`, and
that the steps of it taken so far are the first `m` slots of `p`, so that the fabric is
state `m` of a trajectory `verify_plan` replayed. An executor picks any open step;
`NextSlot` swaps it into slot `m + 1` and leaves the first `m` alone, and
`TrajectoryPrefix` says that the states up to `m` do not change. From a position,
safety, acceptance and convergence are read off what `StageVerified` says of the
order. `PlannerProofs` has the facts on trajectories and interleavings; its
inductions on positions are by least counterexample.

*Every execution.* `PublishedPlanSafe` says the same without an executor: of every order of the operations
that carries out the stages one after the other. `ExecutionHolds` walks along such an order and
keeps `Underway`: the steps taken so far are a `Position`. The largest slot the walk
reaches is the last one, again by least counterexample.

*Cores unblock.* A core is named only after an attempt without it succeeded, with a plan `verify_plan`
accepted. But that plan has its conditions derived where a stage starts, and `Orderable` asks for an
order in which each operation's conditions hold where it is taken. The witness is the order the
search found: `WorkOrdered` follows it through compression and verification (`Taken`: each operation had
its conditions met where it was taken; `InOrder`: stages and batch are its slots in order). It
is an execution of the plan (`OrderIsExecution`), so what verification says of executions holds of
it, and `CoreOrdered` keeps that through the minimisation. Effects carry over because
postconditions do not depend on a state.

*The best is published.* `BestInv`: no plan verified so far is preferred to `pick.best`. A
new candidate may win or lose every tie, since ties are decided by a digest, and the best one must stay
the best against all earlier ones. That is transitivity of the lexicographic order on
vectors of one length, which in turn needs the vectors to be integers: `TotalsInInt` says so of the running
sums of risks, `LargestExists` of the maxima.

*Types of the planner.* `TypeOK` says more than it looks: that `1 .. n` holds every operation
the search ever lists, that the stack is not empty while the search runs, and that
every index into an order, a batch, a stage list or a trace is in range. Types move
with the data: the sorted ready list of a frame holds operations (`SortReadyLists`,
because ranks in a strict total order are distinct), so a committed operation is one,
so the linear order holds only operations, so the batches and stages cut from it do.
`TypeInv` adds to `TypeOK` what a step needs of the one before it: `PlannerInv`, which
operation a compression is at, and where the candidate loop and the core
minimisation stand.

*The search keeps its records.* `SearchConsistent` speaks of the whole order and the state at its
end; a step that takes back an operation needs to know what was before it. `OrderInv`
says it of every frame: frame `i` remembers the state the first `i - 1` operations lead
to and, once it has committed one, which is the `i`-th. A frame that committed once has
nothing left to try: operations that are ready together are never joined by an
edge, so `independent` holds between them and the commit skips all later
siblings. That is the greediness above, used here as a lemma.

*Counting and telling.* `CoreInv`: trials made and those still to come stay within the budget
plus the number of obligations, because the shrinking pass tries each once.
`CoverInv`: the operations staged so far and the batch are those before the one the compression
is at, without repetition and no wider than allowed; it is carried through verification,
selection and result. `LimitInv`: a limit flag, outcome or failure implies that some
counter is past its budget, and counters never go down. `StopHonoured` is a property
of behaviours, proved without fairness: `Doomed` (the token is set and nothing decided)
is kept by every step until the call ends, and a call that ends from there publishes nothing.

*The fabric.* `ChangesOneEntry` says that every operation puts one entry in place or drops one,
and which; everything else follows kind by kind. `EffectsAsserted` and `ExclusionRespected`
are not inductive: the postcondition of `route_set_path` speaks of the ends of
the route, which `apply_operation` takes from the payload and the condition reads in
the snapshot, and the exclusion gate looks at the ends a payload carries. `WalkInv`
closes the gap: the routes are those of the start with the ends they had there
(because `route_add` is never accepted), and the links of the start keep their ends.

`CompensationUndoes` is proved by what the inverse leaves under the identity (`PutBack`):
an entry that was created is dropped, or is a tombstone nobody sees; an entry that was
erased or edited is put back field by field; a configuration value comes back under a
later revision, which is not seen either. The inverse of `device_remove` or `link_remove`
is refused because the tombstone holds the identity, that of `route_remove` because
`route_add` always is. `UnorderedStepsCommute` follows in two cases: operations
that write different entries find the same entry in either order (`EntryDepends`), and the
three pairs that the derivation exempts set different fields of one entry
(`FieldsCommute`). That there is no third case is the derivation's doing: in a total canonical
order, two operations on one entry always get an edge.

*Losing a domain.* The redundancy check counts flows by the domains they touch, and
`SurvivesDomainLoss` counts routes that can still be walked. A walk is a recursive function of
the path; it is shown to exist, and to be the same after the loss of a domain the route does
not touch (`WalkSame`), so such a route stays eligible (`LossSpares`). The rest is counting:
what `Redundancy` computes is no more than the flows that avoid any one domain, touched or not
(`RedundancyBounds`).

*The diversity search.* `Explored` is a recursive function of the call (path, paths taken, links used,
best so far, budget). A call depends only on calls one path further on, so the recursion has a solution,
built from the last path to the first (`SearchExists`), and what it answers is shown in the other
direction of the same induction (`SearchRight`). `Right` is what makes it go through: a count better than
the one a call was given belongs to a choice of disjoint paths from here on, and unless the search broke
off, no such choice beats the count it answers or the one asked for. Pruning is sound because a choice
holds no more paths than are left (`SelectionSize`); an improvement found below a skipped or a taken
path is a choice of this call (`LeavingSelects`, `TakingSelects`). `InOrderLists` says that the routes are
listed one by one, so that choices of places are sets of routes.

*A plan that is still valid.* `LifeInv` says of the plan in force what it was when it was made (`IsPlan`): its
steps, each with conditions and inverses derived for its operation, can be replayed from the snapshot it is bound to.
For the first plan that is `SchedulesAre`; a continuation joins compensations, derived from the state observed, to a
schedule, and is replayed as a whole (`FrontedAre`). Reports are snapshots, stamps never ahead of the fabric,
so a plan made from any of them is not ahead either. Everything derived for a goal or an inverse is an operation again
(`DerivedAre`, `InversesAre`), and an operation that applies leaves a snapshot (`SnapshotKept`).

`ValidPlanReplays` compares two walks: the plan's steps from its own snapshot and from the fabric as it is. Evidence
may say something else meanwhile: carrying a plan out asks only whether a device has any, so the same
devices are enough. No drift at all, or a tolerance of zero, which lets none through (`FreshIsAlike`),
makes the two equal in all the summary holds (`NoDriftIsAlike`: no entity added, removed or changed), but not in
policies and configuration. `Abreast` is the relation the walks keep, with one revision less to spare after each step:
equal devices, links, routes and workloads; the policies and configuration entries the steps name are there in
both or in neither; no policy is about an entity the steps erase unless it was before. What obligations,
gates and conditions read of a snapshot is within that (`AlikeSafe`, `PossibleKept`, `ValidKept`, `PreKept`), so each
step is accepted in the one because it was in the other (`VerifiedAbreast`, `ReplayAbreast`). Conditions are those recorded in the plan, not
derived anew: a recorded precondition compares no revision and no policy but those the step names.

*Targets and rollbacks.* Steps that can be carried out lead along a `Way`: a sequence of snapshots,
each the one before it after one operation (`ReplayedWay`). What such a way leaves of one entity
depends only on the operations that write it (`Leads`), and `OwnIsMeant` says which these are: of
all that is derived for a target, only what is derived for that entity itself, plus, for a workload,
the bindings that remain when a route goes. So each kind of entity is taken on its own
(`EnsuredDevice`, `EnsuredLink`, `EnsuredRoute`, `EnsuredWorkload`, `EnsuredPolicy`,
`EnsuredConfig`, and `RemovedGone` for what is to go). Routes and workloads have two operations that
set different fields and may come in either order. Of the operations that change the state of a
device, the one that leads out of maintenance can only come first (`LeavesFirst`), so the last one
leaves the wanted state (`StateReached`). That the steps of a plan are what is derived for its goal,
each once, together with operations that write what is `undone`, is part of `IsPlan` (`Aims`), kept
by continuations and rollbacks. `Missed` then follows by cases, and `Contested` is exactly the case
of a workload in which two operations set one field.

A rollback's target is made from a snapshot (`TargetFromState`), but no operation sets a reservation
or the state of a link back; that these are right in the end is a fact about the history and not
about the plan, and needs an invariant of its own. `HistInv` says that the fabric has `Outlived`
every report, each report of the plan in force the snapshot that plan was made from, and a
rollback's snapshot its origin: devices and links are never erased, reservations stay, and a link's
state changes to removed at most. In a rollback nothing is undone, and nothing is contested because
its target removes no routes. So every wanted entity is there as the origin has it
(`RestoredEntity`), and what is left beside them was created since (`LeftBeside`).

*The repository.* `RepositoryInv` adds to the invariants which call each thread inside an operation
makes, that a publisher in its eviction loop has found its key absent, that what `list`
has copied lies below what it has not, and that there are never more slots than the capacity
allows. All of it holds because a thread inside an operation has the mutex, which is
part of `TypeOK`. `RetireInv` is what the single pass of `retire_below` needs: every slot behind the
iterator that is still there is one to keep. Without the mutex a publication could put a
slot there. `GreatestAreHeld` follows with `StoredInv` (what is held was published): an
eviction happens in a full map and takes its least key, so all other slots hold greater keys, which were
published too. That the least key exists is proved by counting the keys below each
one (`LeastIsLeast`).

*The artifact store.* `ArtifactInv` says whose file is whose: living writers have different
partial names, since process ids in use are distinct and counters only grow; a partial
file belongs to one writer; a file under the destination's name or opened by a reader is
complete and no partial name leads to it, so nobody changes it any more. A reader
whose size belongs to an older file gets a proper prefix or an error, and `Intact` accepts neither.

*Only model-checked.* Liveness (`Termination`, `LockReleased`, `WritesEnd`) is out of reach of the prover; it stays
with TLC. Every other property of the passing runs is a theorem.

Looking for the proofs showed that two properties of `Lifecycle` said too much, which the worlds of the
run did not show; both worlds are in the run now. A summary holds no policies, so `evaluate_validity` passes a
plan that erases a workload after somebody bound a policy to that workload, and the plan then
leaves a dangling target (`Undisturbed` excludes it, and a configuration value whose revisions run out).
And a `device_remove` that compensates a `device_add` is bound to no maintenance window, because it
does not come from the derivation of a target (`TypeOK` excepts it). In `StateSteps` and `RequiredCapability` two
arms of a `CASE` overlapped; TLC takes the first, but TLA+ leaves the value open, so nothing could be proved of
them. The arms are disjoint now, and TLC finds the same states as before.

A note for whoever edits the modules: `tlapm` 1.4.5 reads `UNION A \cup B` as `UNION (A \cup B)`, TLC as
`(UNION A) \cup B`. `Derivation` therefore has the parentheses written out.

## 5. Plan

Done: the scheduler core and its composition with the executor; the fabric with
derivation and safety; replanning, rollback and validity in their life cycle; the
repository and the artifact store; two abstract specifications with their refinements;
the theorems above. What could follow:

1. Bind `Planner` to `Fabric` and `Derivation` in place of `SmallFabric`, so that one run searches,
   publishes and carries out real operations. Today the two halves meet only in what
   a plan is.
2. Stages wider than one in `Lifecycle`, with executors that take the steps of a stage in any
   order.
3. Risk and objective (`plan/objective.cpp`): the ranking of candidates from the fabric.

### Not modelled

* Canonical encoding, digests, JSON and UTF-8 handling, step identities: pure functions on
  bytes. A digest is the value it is computed from; that two values never share one is taken
  for granted.
* Explanations of refusals and comparisons of plans: formatting.
* The command line: argument and file handling around the calls above.
* Parsing and default values of targets, constraints and evidence; what they mean to the checks
  is modelled.
