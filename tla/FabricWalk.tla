----------------------------- MODULE FabricWalk -----------------------------
(***************************************************************************)
(* Every way a fabric can be changed by a catalogue of operations: a step  *)
(* takes any operation whose conditions, derived from the fabric it meets, *)
(* hold, and which apply_operation accepts. This is how the steps of a     *)
(* plan are replayed one by one (verify_plan in src/src/plan/verify.cpp)   *)
(* when nothing else is asked of their order, so what holds here holds for *)
(* every plan over the catalogue.                                          *)
(***************************************************************************)
EXTENDS Derivation

CONSTANT Worlds  \* records [context, catalogue, start]: what may be done to what, under which rules

\* The fields of an entity that the rules or the operations look into; a route has
\* no others.
IsEntity(kind, e) ==
  CASE kind = "device"   -> /\ IsFunction(e) /\ {"state", "cap", "excl", "maint"} \subseteq DOMAIN e
                            /\ e.state \in DeviceStates
    [] kind = "link"     -> /\ IsFunction(e) /\ {"state", "cap"} \subseteq DOMAIN e
                            /\ e.state \in {"present", "removed"}
    [] kind = "route"    -> /\ e = [source |-> e.source, sink |-> e.sink, path |-> e.path,
                                    policy |-> e.policy, state |-> e.state]
                            /\ e.path \in Seq(Nat) /\ e.state \in {"active", "inactive"}
    [] kind = "workload" -> /\ IsFunction(e) /\ {"bind", "req"} \subseteq DOMAIN e
                            /\ {e.req.domains, e.req.paths} \subseteq Nat
    [] kind = "policy"   -> TRUE
    [] kind = "config"   -> e.revision \in 0 .. MaxRevision

AreEntities(kind, f) == IsFunction(f) /\ \A i \in DOMAIN f : IsEntity(kind, f[i])

IsSnapshot(s) ==
  IsFunction(s) /\ DOMAIN s = EntityKinds /\ \A kind \in EntityKinds : AreEntities(kind, s[kind])

\* An operation as derive_operations makes them for the snapshot s: one that moves a
\* route or resizes a link finds it in s and carries its ends, one that sets
\* requirements carries no bindings.
IsOperation(s, o) ==
  /\ o.kind \in DeviceOps \cup LinkOps \cup RouteOps \cup WorkloadOps \cup PolicyOps \cup ConfigOps
  /\ o.kind \in {"device_add", "route_add", "workload_add"} => IsEntity(EntityKind(o), o.new)
  /\ o.kind \in {"device_add", "device_set_capacity", "link_set_capacity"} => o.new.cap \in Nat
  /\ o.kind = "device_set_state" => o.new.state \in DeviceStates
  /\ o.kind = "route_set_state" => o.new.state \in {"active", "inactive"}
  /\ o.kind = "route_set_path" =>
       /\ o.id \in DOMAIN s.route /\ o.new.path \in Seq(Nat)
       /\ o.new.source = s.route[o.id].source /\ o.new.sink = s.route[o.id].sink
  /\ o.kind = "link_set_capacity" =>
       o.id \in DOMAIN s.link /\ o.new.a = s.link[o.id].a /\ o.new.b = s.link[o.id].b
  /\ o.kind = "workload_set_requirements" =>
       DOMAIN o.new.bind = {} /\ {o.new.req.domains, o.new.req.paths} \subseteq Nat

\* The canonical order is total: operations of one kind on one entity differ in
\* their digests (SHA-256 of what they carry).
Canonical(catalogue) == \A o, p \in catalogue : o # p => Before(o, p) \/ Before(p, o)

ASSUME WorldAssumption ==
  \A w \in Worlds :
    /\ IsSnapshot(w.start) /\ Valid(w.start)
    /\ IsFiniteSet(DOMAIN w.start.route) /\ DOMAIN w.start.route \subseteq Nat
    /\ Canonical(w.catalogue)
    /\ \A o \in w.catalogue : IsOperation(w.start, o)

VARIABLES
  world,  \* the world of this behaviour
  fabric  \* the current snapshot

vars == <<world, fabric>>

\* An operation is taken with the conditions derived from the snapshot s.
Accepted(s, o) ==
  AllSatisfied(world.context, s, Preconditions(s, o)) /\ Applies(world.context, s, o)

Init == world \in Worlds /\ fabric = world.start

Perform(o) ==
  /\ Accepted(fabric, o)
  /\ fabric' = Changed(fabric, o)
  /\ UNCHANGED world

Next == \E o \in world.catalogue : Perform(o)

Spec == Init /\ [][Next]_vars

-----------------------------------------------------------------------------
(* Properties                                                              *)

\* Identities, states and revisions stay in range and every snapshot an operation
\* leaves behind is one CurrentStateSnapshot::validate accepts; a revision that
\* runs over would make a stale configuration look current.
TypeOK ==
  /\ Valid(fabric)
  /\ \A d \in DOMAIN fabric.device : fabric.device[d].state \in DeviceStates
  /\ \A l \in DOMAIN fabric.link : fabric.link[l].state \in {"present", "removed"}
  /\ \A r \in DOMAIN fabric.route : fabric.route[r].state \in {"active", "inactive"}
  /\ \A e \in DOMAIN fabric.config : fabric.config[e].revision \in 0 .. MaxRevision

\* A removed device or link stays removed and keeps its record: no operation
\* (none of them looks for a tombstone by name) revives, resizes or moves it, so an
\* identity is never used a second time.
TombstonesFinal ==
  [][\A kind \in {"device", "link"} : \A i \in DOMAIN fabric[kind] :
       fabric[kind][i].state = "removed" => fabric'[kind][i] = fabric[kind][i]]_vars

Touching(s, d) ==
  LET links == {l \in DOMAIN s.link : d \in {s.link[l].a, s.link[l].b}}
      routes == {r \in DOMAIN s.route : d \in {s.route[r].source, s.route[r].sink}}
  IN  [device   |-> s.device[d],
       config   |-> {<<e, s.config[e]>> : e \in {x \in DOMAIN s.config : x[1] = d}},
       link     |-> {<<l, s.link[l]>> : l \in links},
       route    |-> {<<r, s.route[r]>> : r \in routes},
       bindings |-> UNION {{<<w, r, s.workload[w].bind[r]>> : r \in routes \cap DOMAIN s.workload[w].bind} :
                             w \in DOMAIN s.workload}]

\* While a device is inside one of its exclusion windows, nothing that concerns
\* it changes: neither its record nor its configuration, no link or route that ends
\* at it, no binding of a workload to such a route. (A policy may be moved away from
\* it: apply_operation looks only at the target a policy operation carries.)
ExclusionRespected ==
  [][\A d \in DOMAIN fabric.device :
       ("maintenance_exclusion" \in world.context.enforced
          /\ ~ChangePermitted(world.context, fabric.device[d]))
       => Touching(fabric', d) = Touching(fabric, d)]_vars

\* Whatever state a step meets: when its preconditions hold and it is applied,
\* what its postconditions promise is true. derive_postconditions never looks at the
\* snapshot, so it has to be right for every one.
EffectsAsserted ==
  \A o \in world.catalogue :
    Accepted(fabric, o) => AllSatisfied(world.context, Changed(fabric, o), Postconditions(o))

\* A route can be added wherever apply_operation would add it, that is, where it is missing
\* and its path can be walked, with its ends and its links in service: "route
\* operations require their endpoints and path links, and creating a route or changing its
\* path requires a walkable path" (docs/SAFETY_MODEL.md:70-71). The precondition derived
\* asks whether the route of that identity can be walked, the one that is about to be
\* created (evaluate.cpp:563), so no plan ever adds a route.
RoutesCanBeAdded ==
  \A o \in {q \in world.catalogue : q.kind = "route_add"} :
    (Applies(world.context, fabric, o) /\ \A ref \in ReadSet(o) : Exists(fabric, ref))
      => Accepted(fabric, o)

\* What is left of a snapshot when a failure domain is lost: its devices, the
\* links that end at one of them and the links that pass through the domain.
WithoutDomain(s, domain) ==
  LET lost == {d \in DOMAIN s.device : s.device[d].domain = domain}
      cut == {l \in DOMAIN s.link : {s.link[l].a, s.link[l].b} \cap lost # {} \/ domain \in s.link[l].transit}
  IN  [s EXCEPT !.device = [d \in DOMAIN s.device |->
                              IF d \in lost THEN [s.device[d] EXCEPT !.state = "removed"] ELSE s.device[d]],
                !.link = [l \in DOMAIN s.link |->
                            IF l \in cut THEN [s.link[l] EXCEPT !.state = "removed"] ELSE s.link[l]]]

AllDomains(s) == DomainsOf(s) \cup UNION {s.link[l].transit : l \in DOMAIN s.link}

\* The redundancy check counts paths by the domains they touch; what it promises
\* is that after any one domain is really lost, the workload still has as many routes
\* in service as it asked for.
SurvivesDomainLoss ==
  \A w \in DOMAIN fabric.workload \ UnderRedundant(fabric) : \A domain \in AllDomains(fabric) :
    Cardinality(Eligible(WithoutDomain(fabric, domain), w)) >= fabric.workload[w].req.domains

LinkDisjoint(s, R) ==
  \A q, r \in R : q # r => PathLinks(s.route[q].path) \cap PathLinks(s.route[r].path) = {}

\* The pruned, budgeted search for disjoint paths against its definition: a
\* workload it lets pass has that many pairwise disjoint eligible routes, and one it
\* reports has not, unless the search ran out of calls or of paths it may look at.
DiversityExact ==
  \A w \in DOMAIN fabric.workload :
    LET routes == Eligible(fabric, w)
        required == fabric.workload[w].req.paths
        enough == \E R \in SUBSET routes : Cardinality(R) = required /\ LinkDisjoint(fabric, R)
        cutShort == Cardinality(routes) > DiversityPaths \/ MaximumDisjoint(fabric, w, required).exhausted
    IN  /\ w \notin UnderDiverse(fabric) => enough
        /\ (w \in UnderDiverse(fabric) /\ ~cutShort) => ~enough

\* Two operations without an edge between them may be reordered and put into
\* one stage. When the conditions derived where the stage starts hold in both orders,
\* both orders must lead to the same snapshot.
UnorderedStepsCommute ==
  \A o, p \in world.catalogue :
    LET Takes(s, q) == AllSatisfied(world.context, s, Preconditions(fabric, q))
                         /\ Applies(world.context, s, q)
    IN  (/\ o # p
         /\ ~Precedes(fabric, o, p) /\ ~Precedes(fabric, p, o)
         /\ Takes(fabric, o) /\ Takes(fabric, p)
         /\ Takes(Changed(fabric, o), p) /\ Takes(Changed(fabric, p), o))
        => Changed(Changed(fabric, o), p) = Changed(Changed(fabric, p), o)

\* What an operator sees of a snapshot: no tombstones and no revision counters.
Visible(s) ==
  LET Live(kind) == {i \in DOMAIN s[kind] : s[kind][i].state # "removed"}
  IN  [s EXCEPT !.device = [d \in Live("device") |-> s.device[d]],
                !.link = [l \in Live("link") |-> s.link[l]],
                !.config = [e \in DOMAIN s.config |-> s.config[e].value]]

\* A step that is undone right away by the inverse recorded for it leaves no
\* trace. The state of a route is the exception: its recorded inverse restores the
\* path (graph.cpp:511) and not the state.
CompensationUndoes ==
  \A o \in {q \in world.catalogue : q.kind # "route_set_state" /\ Accepted(fabric, q)} :
    LET done == Changed(fabric, o)
    IN  \A u \in Compensation(fabric, o) :
          Accepted(done, u) => Visible(Changed(done, u)) = Visible(fabric)

\* With no shortfall reported, every route of a workload has the headroom the
\* workload is guaranteed on top of all demand: "A workload's `min_guaranteed_capacity`
\* additionally requires that much headroom on each of its active paths"
\* (docs/SAFETY_MODEL.md:32). The code checks it before the load of the workloads
\* with greater identities is added (checker.cpp).
GuaranteesHold ==
  GuaranteeShortfalls(fabric) = {} =>
    \A w \in DOMAIN fabric.workload : \A r \in Eligible(fabric, w) :
      Spare(fabric, r, Flows(fabric, DOMAIN fabric.workload)) >= fabric.workload[w].req.guarantee

=============================================================================
