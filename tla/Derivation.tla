----------------------------- MODULE Derivation -----------------------------
(***************************************************************************)
(* From a target to steps: the operations that lead from a snapshot to a   *)
(* target intent, the edges that order them, the capabilities they need,   *)
(* and what would undo each of them (src/src/plan/graph.cpp, target.cpp,   *)
(* and the capability gate of run_attempt in generate.cpp).                *)
(*                                                                         *)
(* A target t is [ensure, remove]: t.ensure has the shape of a snapshot    *)
(* and holds the wanted entities, t.remove[kind] the identities to remove. *)
(***************************************************************************)
EXTENDS Safety

CONSTANT DigestLess(_, _)  \* compares the digests of two operations

EntityKinds == {"device", "link", "route", "workload", "policy", "config"}

NoBindings == [r \in {} |-> r]

\* An operation that carries no fields of its own.
Bare(kind, id) == [kind |-> kind, id |-> id, new |-> [bind |-> NoBindings, target |-> Everything]]
Carrying(kind, id, new) == [kind |-> kind, id |-> id, new |-> new]

\* TargetIntent::validate; an identity is named once, so it is not both ensured and removed.
TargetValid(t) ==
  /\ \A d \in DOMAIN t.ensure.device :
       \A w \in t.ensure.device[d].excl \cup t.ensure.device[d].maint : w.begin < w.end
  /\ \A l \in DOMAIN t.ensure.link : t.ensure.link[l].a # t.ensure.link[l].b
  /\ \A r \in DOMAIN t.ensure.route : t.ensure.route[r].path # <<>>
  /\ \A kind \in EntityKinds : DOMAIN t.ensure[kind] \cap t.remove[kind] = {}

\* target_from_state: keep everything as it is, tombstones removed.
TargetFromState(s) ==
  LET Live(kind) == {i \in DOMAIN s[kind] : s[kind][i].state # "removed"}
      None == [kind \in EntityKinds |-> {}]
  IN  [ensure |-> [s EXCEPT !.device = [d \in Live("device") |-> s.device[d]],
                            !.link = [l \in Live("link") |-> s.link[l]]],
       remove |-> [None EXCEPT !.device = DOMAIN s.device \ Live("device"),
                               !.link = DOMAIN s.link \ Live("link")]]

\* An entity is there, or the target creates it.
Has(s, t, kind, id) == Exists(s, <<kind, id>>) \/ id \in DOMAIN t.ensure[kind]

-----------------------------------------------------------------------------
(* derive_operations                                                       *)

Strict(c) == "drain_before_maintenance" \in c.enforced

StateStepsFirst(c, from, to) ==
  IF to = from THEN {}
  ELSE CASE to = "present" -> {"exit_maintenance"}
         [] to \in {"draining", "in_maintenance"} ->
              {IF from = "present" THEN "drain_resource" ELSE "enter_maintenance"}
         [] to = "removed" -> {"device_remove"}

\* The operations that take a device from one state to another.
StateSteps(c, from, to) ==
  IF to = from THEN {}
  ELSE CASE to = "present"     -> {"exit_maintenance"}
         [] to = "draining"    -> {"drain_resource"}
                                  \cup (IF from = "in_maintenance" THEN {"exit_maintenance"} ELSE {})
         [] to = "in_maintenance" -> {"enter_maintenance"}
                                  \cup (IF from = "present" THEN {"drain_resource"} ELSE {})
         [] to = "removed"     -> {"device_remove"}
                                  \cup (IF Strict(c) /\ from = "present" THEN {"drain_resource"} ELSE {})

\* A field that no operation can change in place: the target is refused.
InConflict(s, t) ==
  \/ \E d \in DOMAIN t.ensure.device \cap DOMAIN s.device :
       LET now == s.device[d]
           want == t.ensure.device[d]
       IN  \/ now.state = "removed"
           \/ <<now.domain, now.caps, now.budget>> # <<want.domain, want.caps, want.budget>>
  \/ \E l \in DOMAIN t.ensure.link \cap DOMAIN s.link :
       LET now == s.link[l]
           want == t.ensure.link[l]
       IN  now.state = "removed" \/ <<now.a, now.b, now.transit>> # <<want.a, want.b, want.transit>>
  \/ \E r \in DOMAIN t.ensure.route \cap DOMAIN s.route :
       LET now == s.route[r]
           want == t.ensure.route[r]
       IN  <<now.source, now.sink>> # <<want.source, want.sink>>

\* A wanted entity refers to something neither there nor wanted.
Dangling(s, t) ==
  \/ \E l \in DOMAIN t.ensure.link \ DOMAIN s.link :
       \E d \in {t.ensure.link[l].a, t.ensure.link[l].b} : ~Has(s, t, "device", d)
  \/ \E r \in DOMAIN t.ensure.route :
       LET want == t.ensure.route[r]
           fresh == r \notin DOMAIN s.route
           moved == ~fresh /\ <<want.path, want.policy>> # <<s.route[r].path, s.route[r].policy>>
       IN  \/ fresh /\ \E d \in {want.source, want.sink} : ~Has(s, t, "device", d)
           \/ (fresh \/ moved) /\ \E l \in PathLinks(want.path) : ~Has(s, t, "link", l)
  \/ \E w \in DOMAIN t.ensure.workload \ DOMAIN s.workload :
       \E r \in DOMAIN t.ensure.workload[w].bind : ~Has(s, t, "route", r)
  \/ \E e \in DOMAIN t.ensure.config : ~Has(s, t, "device", e[1])

Derivable(s, t) == ~InConflict(s, t) /\ ~Dangling(s, t)

When(condition, o) == IF condition THEN {o} ELSE {}

DeviceChanges(c, s, d, want) ==
  LET now == s.device[d]
  IN  IF d \notin DOMAIN s.device THEN {Carrying("device_add", d, want)}
      ELSE {Bare(kind, d) : kind \in StateSteps(c, now.state, want.state)}
           \cup When(<<now.cap, now.res>> # <<want.cap, want.res>>,
                     Carrying("device_set_capacity", d, want))
           \cup When(<<now.excl, now.maint>> # <<want.excl, want.maint>>,
                     Carrying("device_set_windows", d, want))

LinkChanges(s, l, want) ==
  IF l \notin DOMAIN s.link THEN {Carrying("link_add", l, want)}
  ELSE When(<<s.link[l].cap, s.link[l].res>> # <<want.cap, want.res>>,
            Carrying("link_set_capacity", l, want))

RouteChanges(s, r, want) ==
  LET now == s.route[r]
  IN  IF r \notin DOMAIN s.route THEN {Carrying("route_add", r, want)}
      ELSE When(<<now.path, now.policy>> # <<want.path, want.policy>>,
                Carrying("route_set_path", r, want))
           \cup When(now.state # want.state, Carrying("route_set_state", r, [state |-> want.state]))

Bindings(w, bind) == Carrying("workload_set_bindings", w, [bind |-> bind])

WorkloadChanges(s, w, want) ==
  LET now == s.workload[w]
  IN  IF w \notin DOMAIN s.workload THEN {Carrying("workload_add", w, want)}
      ELSE When(now.bind # want.bind, Bindings(w, want.bind))
           \cup When(now.req # want.req, Carrying("workload_set_requirements", w,
                                                  [bind |-> NoBindings, req |-> want.req]))

\* Removing a route first takes it out of each workload that binds it.
RouteRemoval(s, r) ==
  LET Without(bind) == [q \in DOMAIN bind \ {r} |-> bind[q]]
  IN  {Bindings(w, Without(s.workload[w].bind)) :
         w \in {v \in DOMAIN s.workload : r \in DOMAIN s.workload[v].bind}}
      \cup {Bare("route_remove", r)}

Removals(c, s, t) ==
  LET There(kind) == {i \in t.remove[kind] : Exists(s, <<kind, i>>)}
  IN  (UNION {{Bare(kind, d) : kind \in StateSteps(c, s.device[d].state, "removed")} : d \in There("device")})
      \cup {Bare("link_remove", l) : l \in There("link")}
      \cup (UNION {RouteRemoval(s, r) : r \in There("route")})
      \cup {Bare("workload_remove", w) : w \in There("workload")}
      \cup {Bare("policy_unbind", p) : p \in There("policy")}
      \cup {Bare("config_clear", e) : e \in There("config")}

\* derive_operations: identical operations are derived once.
Derived(c, s, t) ==
  LET want == t.ensure
      Differs(kind, i) == i \notin DOMAIN s[kind] \/ s[kind][i] # want[kind][i]
  IN  Removals(c, s, t)
      \cup (UNION {DeviceChanges(c, s, d, want.device[d]) : d \in DOMAIN want.device})
      \cup (UNION {LinkChanges(s, l, want.link[l]) : l \in DOMAIN want.link})
      \cup (UNION {RouteChanges(s, r, want.route[r]) : r \in DOMAIN want.route})
      \cup (UNION {WorkloadChanges(s, w, want.workload[w]) : w \in DOMAIN want.workload})
      \cup {Carrying("policy_bind", p, want.policy[p]) : p \in {x \in DOMAIN want.policy : Differs("policy", x)}}
      \cup {Carrying("config_set", e, [value |-> want.config[e].value]) :
              e \in {x \in DOMAIN want.config :
                       x \notin DOMAIN s.config \/ s.config[x].value # want.config[x].value}}

-----------------------------------------------------------------------------
(* The capability gate                                                     *)

RequiredCapability(o) ==
  CASE o.kind = "device_set_capacity" -> "device_capacity"
    [] o.kind = "device_set_state" -> "device_state"
    [] o.kind \in {"device_set_windows", "enter_maintenance", "exit_maintenance"} -> "device_maintenance"
    [] o.kind = "drain_resource" -> "device_drain"
    [] o.kind = "link_set_capacity" -> "link_capacity"
    [] o.kind \in {"route_add", "route_set_path"} -> "route_add"
    [] o.kind = "route_set_state" -> "route_state"
    [] o.kind = "workload_set_requirements" -> "workload_requirements"
    [] o.kind \in WorkloadOps \ {"workload_set_requirements"} -> "workload_binding"
    [] o.kind \in PolicyOps -> "policy_bind"
    [] o.kind \in ConfigOps -> "config_set"
    [] OTHER -> o.kind  \* device_add, device_remove, link_add, link_remove, route_remove

\* What a device can do: declared, and evidenced where evidence is asked for;
\* a device the plan creates only has what the target declares for it.
EffectiveCapabilities(c, s, t, d) ==
  IF d \in DOMAIN s.device
  THEN IF "capability_evidence" \notin c.enforced THEN s.device[d].caps
       ELSE IF d \in DOMAIN c.evidence THEN s.device[d].caps \cap c.evidence[d]
       ELSE {}
  ELSE IF d \in DOMAIN t.ensure.device THEN t.ensure.device[d].caps
  ELSE {}

Capable(c, s, t) ==
  \A o \in Derived(c, s, t) : \A d \in Subjects(s, o) :
    RequiredCapability(o) \in EffectiveCapabilities(c, s, t, d)

-----------------------------------------------------------------------------
(* derive_dependencies                                                     *)

KindOrder ==
  <<"device_add", "device_remove", "device_set_capacity", "device_set_state", "device_set_windows",
    "link_add", "link_remove", "link_set_capacity",
    "route_add", "route_remove", "route_set_path", "route_set_state",
    "workload_add", "workload_remove", "workload_set_bindings", "workload_set_requirements",
    "policy_bind", "policy_unbind", "config_set", "config_clear",
    "drain_resource", "enter_maintenance", "exit_maintenance">>

Rank(kind) == CHOOSE i \in DOMAIN KindOrder : KindOrder[i] = kind

IdBefore(o, p) ==
  IF o.kind \in ConfigOps
  THEN o.id[1] < p.id[1] \/ (o.id[1] = p.id[1] /\ o.id[2] < p.id[2])
  ELSE o.id < p.id

\* The canonical order of operations: kind, target, digest.
Before(o, p) ==
  \/ Rank(o.kind) < Rank(p.kind)
  \/ o.kind = p.kind /\ (IdBefore(o, p) \/ (o.id = p.id /\ DigestLess(o, p)))

\* is_prerequisite: the second operation needs what the first one brings about.
Prerequisite(s, first, second) ==
  \/ /\ first.kind = "drain_resource" \/ (first.kind = "device_set_state" /\ first.new.state = "draining")
     /\ second.kind \in {"device_remove", "enter_maintenance"} /\ first.id = second.id
  \/ first.kind = "enter_maintenance" /\ second.kind = "exit_maintenance" /\ first.id = second.id
  \/ /\ first.kind = "device_add"
     /\ \/ second.kind \in DeviceOps /\ second.id = first.id
        \/ second.kind \in ConfigOps /\ second.id[1] = first.id
        \/ second.kind = "link_add" /\ first.id \in {second.new.a, second.new.b}
        \/ second.kind \in {"route_add", "route_set_path"} /\ first.id \in {second.new.source, second.new.sink}
        \/ second.kind \in PolicyOps /\ second.new.target = <<"device", first.id>>
  \/ /\ first.kind = "link_add" /\ second.kind \in {"route_add", "route_set_path"}
     /\ first.id \in PathLinks(second.new.path)
  \/ /\ first.kind = "route_add" /\ second.kind \in {"workload_add", "workload_set_bindings"}
     /\ first.id \in DOMAIN second.new.bind
  \/ /\ second.kind = "route_remove"
     /\ \/ /\ first.kind \in {"workload_set_bindings", "workload_set_requirements"}
           /\ second.id \notin DOMAIN first.new.bind
        \/ /\ first.kind = "workload_remove" /\ first.id \in DOMAIN s.workload
           /\ second.id \in DOMAIN s.workload[first.id].bind

\* Updates of different fields of one entity are left to the search.
IndependentUpdatesOfOne(o, p) == Written(o) = Written(p)
IndependentUpdates(o, p) ==
  /\ {o.kind, p.kind} \in {{"device_set_capacity", "device_set_windows"},
                           {"workload_set_bindings", "workload_set_requirements"},
                           {"route_set_path", "route_set_state"}}
  /\ o.id = p.id

\* The domains an operation takes a device of out of service.
TouchedDomains(s, o) ==
  LET takesOut == \/ o.kind \in {"drain_resource", "enter_maintenance", "device_remove"}
                  \/ o.kind = "device_set_state" /\ o.new.state \in Drained
  IN  IF takesOut /\ o.id \in DOMAIN s.device THEN {s.device[o.id].domain} ELSE {}

\* The operations conflict, so that their canonical order is kept.
Conflicting(s, o, p) ==
  /\ ~IndependentUpdates(o, p)
  /\ \/ Written(o) = Written(p)
     \/ Written(p) \in ReadSet(o) \/ Written(o) \in ReadSet(p)
     \/ TouchedDomains(s, o) \cap TouchedDomains(s, p) # {}

\* There is an edge from o to p.
Precedes(s, o, p) ==
  \/ Prerequisite(s, o, p) /\ (Before(o, p) \/ ~Prerequisite(s, p, o))
  \/ /\ ~Prerequisite(s, o, p) /\ ~Prerequisite(s, p, o)
     /\ Before(o, p) /\ Conflicting(s, o, p)

-----------------------------------------------------------------------------
(* derive_compensation                                                     *)

\* The kind of operation that puts back what is already there.
UndoKindCrossed(kind) ==
  CASE kind = "workload_set_bindings" -> "workload_set_requirements"
    [] OTHER -> kind
UndoKind(kind) ==
  CASE kind = "device_remove" -> "device_add"
    [] kind = "link_remove" -> "link_add"
    [] kind = "route_remove" -> "route_add"
    [] kind = "workload_remove" -> "workload_add"
    [] kind \in MaintenanceOps -> "device_set_state"
    [] kind = "route_set_state" -> "route_set_path"
    [] kind = "policy_unbind" -> "policy_bind"
    [] kind = "config_clear" -> "config_set"
    [] OTHER -> kind

\* The kind of operation that takes back what was created.
Withdrawal(kind) ==
  CASE kind = "device_add" -> "device_remove"
    [] kind = "link_add" -> "link_remove"
    [] kind = "route_add" -> "route_remove"
    [] kind = "workload_add" -> "workload_remove"
    [] kind = "policy_bind" -> "policy_unbind"
    [] kind = "config_set" -> "config_clear"

\* What undoes o, from the snapshot its stage starts in; {} when only an
\* operator knows.
Compensation(s, o) ==
  LET known == Known(s, Written(o))
  IN  IF o.kind \in AddOps \/ (o.kind \in {"policy_bind", "config_set"} /\ ~known)
      THEN {Bare(Withdrawal(o.kind), o.id)}
      ELSE IF known THEN {Carrying(UndoKind(o.kind), o.id, s[EntityKind(o)][o.id])}
      ELSE {}

=============================================================================
