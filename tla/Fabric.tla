------------------------------- MODULE Fabric -------------------------------
(***************************************************************************)
(* The fabric a plan changes: a snapshot of devices, links, routes,        *)
(* workloads, policies and configuration values, the operations on it      *)
(* (apply_operation), and the conditions a step carries                    *)
(* (src/src/model/evaluate.cpp, state.cpp, operation.cpp).                 *)
(*                                                                         *)
(* A snapshot s is a record of functions, one per kind of entity, from the *)
(* identities it holds: s.device[d], s.link[l], ... A configuration value  *)
(* is identified by <<device, key>>. Removed devices and links stay in the *)
(* snapshot as tombstones; the other entities are erased. Identities are   *)
(* positive numbers, because several results depend on their order.        *)
(* An operation is [kind, id, new]: what it does, to which entity, and the *)
(* fields it carries. The context c holds the planning instant, the        *)
(* enforced constraint kinds with their parameters, and the evidence.      *)
(***************************************************************************)
EXTENDS Integers, FiniteSets, Sequences

CONSTANT MaxRevision  \* the largest configuration revision (2^64 - 1 in the code)

ASSUME RevisionAssumption == MaxRevision \in Nat

\* f is a function, whatever its values are.
IsFunction(f) == f = [x \in DOMAIN f |-> f[x]]

DeviceStates == {"present", "draining", "in_maintenance", "removed"}
Drained == {"draining", "in_maintenance"}

MaintenanceOps == {"drain_resource", "enter_maintenance", "exit_maintenance"}
DeviceOps == {"device_add", "device_remove", "device_set_capacity", "device_set_state",
              "device_set_windows"} \cup MaintenanceOps
LinkOps == {"link_add", "link_remove", "link_set_capacity"}
RouteOps == {"route_add", "route_remove", "route_set_path", "route_set_state"}
WorkloadOps == {"workload_add", "workload_remove", "workload_set_bindings",
                "workload_set_requirements"}
PolicyOps == {"policy_bind", "policy_unbind"}
ConfigOps == {"config_set", "config_clear"}

WindowOps == MaintenanceOps \cup {"device_remove"}  \* requires_maintenance_window
AddOps == {"device_add", "link_add", "route_add", "workload_add"}
EraseOps == {"route_remove", "workload_remove", "policy_unbind", "config_clear"}

EntityKind(o) ==
  CASE o.kind \in DeviceOps   -> "device"
    [] o.kind \in LinkOps     -> "link"
    [] o.kind \in RouteOps    -> "route"
    [] o.kind \in WorkloadOps -> "workload"
    [] o.kind \in PolicyOps   -> "policy"
    [] o.kind \in ConfigOps   -> "config"

\* What an operation writes, and what else it names.
Written(o) == <<EntityKind(o), o.id>>

Refs(kind, ids) == {<<kind, i>> : i \in ids}
PathLinks(path) == {path[i] : i \in DOMAIN path}
Everything == <<"global", 0>>

ReadSet(o) ==
  CASE o.kind \in {"link_add", "link_set_capacity"} -> Refs("device", {o.new.a, o.new.b})
    [] o.kind \in {"route_add", "route_set_path"} ->
         Refs("device", {o.new.source, o.new.sink}) \cup Refs("link", PathLinks(o.new.path))
    [] o.kind \in WorkloadOps -> Refs("route", DOMAIN o.new.bind)
    [] o.kind \in PolicyOps -> {o.new.target} \ {Everything}
    [] o.kind \in ConfigOps -> {<<"device", o.id[1]>>}
    [] OTHER -> {}

-----------------------------------------------------------------------------
(* The snapshot                                                            *)

Known(s, ref) == ref[2] \in DOMAIN s[ref[1]]

\* entity_exists: tombstones do not count.
ExistsOrRemoved(s, ref) == IF ref[1] = "global" THEN TRUE ELSE Known(s, ref)
Exists(s, ref) ==
  CASE ref[1] = "global" -> TRUE
    [] ref[1] \in {"device", "link"} -> Known(s, ref) /\ s[ref[1]][ref[2]].state # "removed"
    [] OTHER -> Known(s, ref)

\* Where the walk along a route is after its first i links; 0 when it is lost.
Walk(s, r) ==
  LET Hop(at, l) ==
        IF l \notin DOMAIN s.link THEN 0
        ELSE IF s.link[l].a = at THEN s.link[l].b
        ELSE IF s.link[l].b = at THEN s.link[l].a
        ELSE 0
      walk[i \in 0 .. Len(r.path)] == IF i = 0 THEN r.source ELSE Hop(walk[i - 1], r.path[i])
  IN  walk

RouteWalkable(s, r) == r.path # <<>> /\ Walk(s, r)[Len(r.path)] = r.sink

RouteDomainsOfEnds(s, r) == {s.device[d].domain : d \in {r.source, r.sink} \cap DOMAIN s.device}
RouteDomains(s, r) ==
  LET links == PathLinks(r.path) \cap DOMAIN s.link
      ends == {r.source, r.sink} \cup UNION {{s.link[l].a, s.link[l].b} : l \in links}
  IN  {s.device[d].domain : d \in ends \cap DOMAIN s.device}
        \cup UNION {s.link[l].transit : l \in links}

\* CurrentStateSnapshot::validate: references resolve, windows last, capacity covers reservations.
Valid(s) ==
  /\ \A d \in DOMAIN s.device : \A w \in s.device[d].excl \cup s.device[d].maint : w.begin < w.end
  /\ \A l \in DOMAIN s.link :
       /\ s.link[l].a # s.link[l].b
       /\ {s.link[l].a, s.link[l].b} \subseteq DOMAIN s.device
       /\ s.link[l].cap >= s.link[l].res
  /\ \A r \in DOMAIN s.route :
       /\ {s.route[r].source, s.route[r].sink} \subseteq DOMAIN s.device
       /\ s.route[r].path # <<>>
       /\ PathLinks(s.route[r].path) \subseteq DOMAIN s.link
       /\ s.route[r].policy \in DOMAIN s.policy \cup {0}
  /\ \A w \in DOMAIN s.workload : DOMAIN s.workload[w].bind \subseteq DOMAIN s.route
  /\ \A p \in DOMAIN s.policy : LET target == s.policy[p].target
                                IN  target = Everything \/ Known(s, target)
  /\ \A e \in DOMAIN s.config : e[1] \in DOMAIN s.device

-----------------------------------------------------------------------------
(* Applying an operation                                                   *)

Within(windows, instant) == \E w \in windows : w.begin <= instant /\ instant < w.end
ChangePermitted(c, d) == ~Within(d.excl, c.instant)
MaintenancePermitted(c, d) == Within(d.maint, c.instant)

RouteEnds(s, ids) ==
  UNION {{s.route[r].source, s.route[r].sink} : r \in ids \cap DOMAIN s.route}
LinkEnds(s, ids) == UNION {{s.link[l].a, s.link[l].b} : l \in ids \cap DOMAIN s.link}

\* The devices whose runtime an operation concerns.
SubjectsByIdentity(s, o) ==
  CASE o.kind \in DeviceOps \ {"device_add"} -> {o.id}
    [] o.kind \in ConfigOps -> {o.id[1]}
    [] o.kind \in LinkOps -> LinkEnds(s, {o.id})
    [] OTHER -> {}
Subjects(s, o) ==
  CASE o.kind = "device_add" -> {}
    [] o.kind \in DeviceOps \ {"device_add"} -> {o.id}
    [] o.kind \in ConfigOps -> {o.id[1]}
    [] o.kind \in {"link_add", "link_set_capacity"} -> {o.new.a, o.new.b}
    [] o.kind = "link_remove" -> LinkEnds(s, {o.id})
    [] o.kind \in {"route_add", "route_set_path"} -> {o.new.source, o.new.sink}
    [] o.kind \in {"route_remove", "route_set_state"} -> RouteEnds(s, {o.id})
    [] o.kind \in WorkloadOps ->
         RouteEnds(s, DOMAIN o.new.bind
                        \cup (IF o.id \in DOMAIN s.workload THEN DOMAIN s.workload[o.id].bind ELSE {}))
    [] o.kind \in PolicyOps ->
         LET scope == o.new.target[1]
             id == o.new.target[2]
         IN  CASE scope = "device" -> {id}
               [] scope = "link"   -> LinkEnds(s, {id})
               [] scope = "route"  -> RouteEnds(s, {id})
               [] OTHER            -> {}

\* The gates: no change inside an exclusion, no maintenance outside a window.
Permitted(c, s, o) ==
  /\ "maintenance_exclusion" \in c.enforced =>
       \A d \in Subjects(s, o) \cap DOMAIN s.device : ChangePermitted(c, s.device[d])
  /\ ("maintenance_window" \in c.enforced /\ o.kind \in WindowOps /\ o.id \in DOMAIN s.device) =>
       MaintenancePermitted(c, s.device[o.id])

\* A route that an operation creates, moves or activates can be walked.
PathPossible(s, r) == PathLinks(r.path) \subseteq DOMAIN s.link /\ RouteWalkable(s, r)

\* A configuration entry counts its revisions and refuses to wrap around.
RevisionUnchecked(entry) == TRUE
RevisionLeft(entry) == entry.revision < MaxRevision

\* What each kind of operation asks of the snapshot, besides that what it adds is
\* new and what it changes is there.
DevicePossible(strict, state, o) ==
  CASE o.kind = "device_add" -> o.new.state # "removed"
    [] o.kind = "device_remove" -> state # "removed" /\ (strict => state \in Drained)
    [] o.kind = "device_set_state" ->
         /\ o.new.state # "removed"
         /\ (strict /\ o.new.state = "in_maintenance") => state # "present"
    [] OTHER -> TRUE

MaintenancePossible(strict, state, o) ==
  CASE o.kind = "drain_resource" -> state = "present"
    [] o.kind = "enter_maintenance" ->
         state \notin {"in_maintenance", "removed"} /\ (strict => state = "draining")
    [] o.kind = "exit_maintenance" -> state \in Drained

LinkPossible(s, o) ==
  CASE o.kind = "link_add" -> {o.new.a, o.new.b} \subseteq DOMAIN s.device /\ o.new.a # o.new.b
    [] o.kind = "link_remove" -> s.link[o.id].state # "removed"
    [] o.kind = "link_set_capacity" -> o.new.cap >= s.link[o.id].res

RoutePossible(s, o) ==
  CASE o.kind = "route_add" ->
         {o.new.source, o.new.sink} \subseteq DOMAIN s.device /\ PathPossible(s, o.new)
    [] o.kind = "route_remove" -> \A w \in DOMAIN s.workload : o.id \notin DOMAIN s.workload[w].bind
    [] o.kind = "route_set_path" -> PathPossible(s, o.new)
    [] o.kind = "route_set_state" -> o.new.state = "active" => RouteWalkable(s, s.route[o.id])

WorkloadPossible(s, o) ==
  o.kind \in {"workload_add", "workload_set_bindings"} => DOMAIN o.new.bind \subseteq DOMAIN s.route

ConfigPossible(s, o) ==
  o.kind = "config_set" =>
    o.id[1] \in DOMAIN s.device /\ (Known(s, Written(o)) => RevisionLeft(s.config[o.id]))

Possible(c, s, o) ==
  LET strict == "drain_before_maintenance" \in c.enforced
      known == Known(s, Written(o))
      state == IF known THEN s.device[o.id].state ELSE "removed"
  IN  /\ o.kind \in AddOps => ~known
      /\ known \/ o.kind \in AddOps \cup {"policy_bind", "config_set"}
      /\ CASE o.kind \in MaintenanceOps -> MaintenancePossible(strict, state, o)
           [] o.kind \in DeviceOps \ MaintenanceOps -> DevicePossible(strict, state, o)
           [] o.kind \in LinkOps     -> LinkPossible(s, o)
           [] o.kind \in RouteOps    -> RoutePossible(s, o)
           [] o.kind \in WorkloadOps -> WorkloadPossible(s, o)
           [] o.kind \in PolicyOps   -> TRUE
           [] o.kind \in ConfigOps   -> ConfigPossible(s, o)

Put(s, kind, id, entry) ==
  [s EXCEPT ![kind] = [i \in DOMAIN s[kind] \cup {id} |-> IF i = id THEN entry ELSE s[kind][i]]]
Drop(s, kind, id) == [s EXCEPT ![kind] = [i \in DOMAIN s[kind] \ {id} |-> s[kind][i]]]

\* The state a device is left in by the operations that change it.
StateAfter(o) ==
  CASE o.kind = "device_set_state"  -> o.new.state
    [] o.kind = "device_remove"     -> "removed"
    [] o.kind = "drain_resource"    -> "draining"
    [] o.kind = "enter_maintenance" -> "in_maintenance"
    [] o.kind = "exit_maintenance"  -> "present"

Changed(s, o) ==
  CASE o.kind \in {"device_add", "route_add", "workload_add", "policy_bind"} ->
         Put(s, EntityKind(o), o.id, o.new)
    [] o.kind = "link_add" ->
         Put(s, "link", o.id, [a |-> o.new.a, b |-> o.new.b, cap |-> o.new.cap, res |-> o.new.res,
                               transit |-> o.new.transit, state |-> "present"])
    [] o.kind = "config_set" ->
         Put(s, "config", o.id,
             [value |-> o.new.value,
              revision |-> IF Known(s, Written(o)) THEN s.config[o.id].revision + 1 ELSE 0])
    [] o.kind \in EraseOps -> Drop(s, EntityKind(o), o.id)
    [] o.kind = "device_set_capacity" -> [s EXCEPT !.device[o.id].cap = o.new.cap]
    [] o.kind = "device_set_windows" ->
         [s EXCEPT !.device[o.id].excl = o.new.excl, !.device[o.id].maint = o.new.maint]
    [] o.kind \in WindowOps \cup {"device_set_state"} ->
         [s EXCEPT !.device[o.id].state = StateAfter(o)]
    [] o.kind = "link_remove" -> [s EXCEPT !.link[o.id].state = "removed"]
    [] o.kind = "link_set_capacity" -> [s EXCEPT !.link[o.id].cap = o.new.cap]
    [] o.kind = "route_set_path" ->
         Put(s, "route", o.id, [source |-> o.new.source, sink |-> o.new.sink, path |-> o.new.path,
                                policy |-> o.new.policy, state |-> s.route[o.id].state])
    [] o.kind = "route_set_state" -> [s EXCEPT !.route[o.id].state = o.new.state]
    [] o.kind = "workload_set_bindings" -> [s EXCEPT !.workload[o.id].bind = o.new.bind]
    [] o.kind = "workload_set_requirements" -> [s EXCEPT !.workload[o.id].req = o.new.req]

Applies(c, s, o) == Permitted(c, s, o) /\ Possible(c, s, o) /\ Valid(Changed(s, o))

-----------------------------------------------------------------------------
(* Conditions: <<kind, entity, argument>>                                  *)

Cond(kind, refs) == {<<kind, ref, 0>> : ref \in refs}
PresentButLinks(kind, ids) == IF kind = "link" THEN {} ELSE Cond("entity_present", Refs(kind, ids))
Present(kind, ids) == Cond("entity_present", Refs(kind, ids))
ExclusionInactive(ids) == Cond("exclusion_inactive", Refs("device", ids))

\* derive_preconditions: what has to hold before o, as seen from the snapshot s.
Preconditions(s, o) ==
  LET self == {Written(o)}
      known == Known(s, Written(o))
      old == s[EntityKind(o)][o.id]
      absent == Cond("entity_absent", self)
      present == Cond("entity_present", self)
      bound(ids) == Present("route", ids)
  IN
  CASE o.kind = "device_add" -> absent
    [] o.kind \in DeviceOps \ {"device_add"} ->
         present \cup ExclusionInactive({o.id})
         \cup (IF known THEN {<<"entity_state_is", Written(o), old.state>>} ELSE {})
         \cup (IF o.kind \in WindowOps THEN Cond("maintenance_window_open", self) ELSE {})
         \cup (IF o.kind \in {"enter_maintenance", "device_remove"} THEN Cond("device_drained", self) ELSE {})
    [] o.kind = "link_add" -> absent \cup Present("device", {o.new.a, o.new.b})
    [] o.kind \in {"link_remove", "link_set_capacity"} ->
         LET ends == IF known THEN {old.a, old.b}
                     ELSE IF o.kind = "link_set_capacity" THEN {o.new.a, o.new.b} ELSE {0}
         IN  present \cup Present("device", ends) \cup ExclusionInactive(ends)
    [] o.kind = "route_add" ->
         absent \cup Present("device", {o.new.source, o.new.sink})
         \cup Present("link", PathLinks(o.new.path)) \cup Cond("route_walkable", self)
    [] o.kind \in {"route_remove", "route_set_state", "route_set_path"} ->
         present
         \cup (IF known THEN Present("device", {old.source, old.sink}) ELSE {})
         \cup (IF o.kind = "route_set_path"
               THEN Present("link", PathLinks(o.new.path)) \cup Cond("route_walkable", self)
               ELSE {})
    [] o.kind = "workload_add" -> absent \cup bound(DOMAIN o.new.bind)
    [] o.kind = "workload_remove" -> present
    [] o.kind = "workload_set_bindings" -> present \cup bound(DOMAIN o.new.bind)
    [] o.kind = "workload_set_requirements" ->
         present \cup bound(DOMAIN (IF known THEN old ELSE o.new).bind)
    [] o.kind = "policy_bind" ->
         (IF known THEN Cond("policy_bound", self) ELSE absent)
         \cup Cond("entity_present", {o.new.target} \ {Everything})
    [] o.kind = "policy_unbind" -> Cond("policy_bound", self)
    [] o.kind \in ConfigOps -> Present("device", {o.id[1]}) \cup ExclusionInactive({o.id[1]})

\* derive_postconditions: what has to hold after o.
Postconditions(o) ==
  LET self == {Written(o)}
      With(kind, arg) == {<<kind, Written(o), arg>>}
      absent == Cond("entity_absent", self)
      present == Cond("entity_present", self)
  IN
  CASE o.kind = "device_add" -> present \cup With("capacity_at_least", o.new.cap)
    [] o.kind \in {"device_remove", "link_remove", "route_remove", "workload_remove",
                   "policy_unbind", "config_clear"} -> absent
    [] o.kind \in {"device_set_capacity", "link_set_capacity"} -> With("capacity_at_least", o.new.cap)
    [] o.kind \in MaintenanceOps \cup {"device_set_state"} -> With("entity_state_is", StateAfter(o))
    [] o.kind \in {"device_set_windows", "link_add"} -> present
    [] o.kind = "route_add" -> present \cup Cond("route_walkable", self)
                               \cup With("route_state_is", o.new.state)
    [] o.kind = "route_set_path" -> Cond("route_walkable", self)
    [] o.kind = "route_set_state" -> With("route_state_is", o.new.state)
    [] o.kind \in {"workload_add", "workload_set_bindings", "workload_set_requirements"} ->
         present \cup UNION {With("binding_active", r) : r \in {q \in DOMAIN o.new.bind : o.new.bind[q].active}}
    [] o.kind = "policy_bind" -> Cond("policy_bound", self)
    [] o.kind = "config_set" -> With("config_equals", o.new.value)

\* evaluate_condition: whether a condition holds in a snapshot.
Satisfied(c, s, condition) ==
  LET kind == condition[1]
      ref == condition[2]
      arg == condition[3]
      it == s[ref[1]][ref[2]]
  IN
  CASE kind = "entity_present" -> Exists(s, ref)
    [] kind = "entity_absent" -> ~Exists(s, ref)
    [] OTHER ->
       /\ Known(s, ref)
       /\ CASE kind \in {"entity_state_is", "route_state_is"} -> it.state = arg
            [] kind = "route_walkable" ->
                 /\ RouteWalkable(s, it)
                 /\ \A l \in PathLinks(it.path) : s.link[l].state = "present"
                 /\ Exists(s, <<"device", it.source>>) /\ Exists(s, <<"device", it.sink>>)
            [] kind = "config_equals" -> it.value = arg
            [] kind = "policy_bound" -> TRUE
            [] kind = "binding_active" -> arg \in DOMAIN it.bind /\ it.bind[arg].active
            [] kind = "capacity_at_least" -> it.cap >= arg
            [] kind = "maintenance_window_open" -> MaintenancePermitted(c, it)
            [] kind = "exclusion_inactive" -> ChangePermitted(c, it)
            [] kind = "device_drained" -> it.state \in Drained

AllSatisfied(c, s, conditions) == \A condition \in conditions : Satisfied(c, s, condition)

=============================================================================
