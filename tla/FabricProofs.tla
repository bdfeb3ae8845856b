---------------------------- MODULE FabricProofs ----------------------------
(***************************************************************************)
(* What apply_operation and the conditions of a step promise, for every    *)
(* fabric and every catalogue of operations derived for it. An operation   *)
(* puts one entry in place or drops one (FabricLemmas); the rest is one    *)
(* case per kind of operation.                                             *)
(***************************************************************************)
EXTENDS FabricWalk, FabricLemmas

-----------------------------------------------------------------------------
(* Snapshots stay snapshots                                                *)

LEMMA SnapshotShaped == ASSUME NEW s, IsSnapshot(s) PROVE Shaped(s)
  BY DEF IsSnapshot, AreEntities, Shaped

\* Both keep the entities of a kind entities.
LEMMA EntitiesKept ==
  ASSUME NEW kind, NEW f, AreEntities(kind, f), NEW i, NEW e
  PROVE  /\ AreEntities(kind, Without(f, i))
         /\ IsEntity(kind, e) => AreEntities(kind, With(f, i, e))
<1>0. \A j \in DOMAIN f : IsEntity(kind, f[j])
  BY DEF AreEntities
<1>1. AreEntities(kind, Without(f, i))
  BY <1>0 DEF AreEntities, IsFunction, Without
<1>2. ASSUME IsEntity(kind, e) PROVE AreEntities(kind, With(f, i, e))
  <2>1. IsFunction(With(f, i, e)) /\ DOMAIN With(f, i, e) = DOMAIN f \cup {i}
    BY WithGives
  <2>2. \A j \in DOMAIN f \cup {i} : IsEntity(kind, With(f, i, e)[j])
    BY <1>0, <1>2 DEF With
  <2> QED
    BY <2>1, <2>2 DEF AreEntities
<1> QED
  BY <1>1, <1>2

\* What an operation leaves behind has the fields an entity has to have.
LEMMA EntryIsEntity ==
  ASSUME NEW c, NEW s, NEW start, NEW o, IsSnapshot(s), IsOperation(start, o), Possible(c, s, o),
         o.kind \notin EraseOps
  PROVE  IsEntity(EntityKind(o), EntryAfter(s, o))
<1>0. /\ o.kind \in AllKinds
      /\ o.kind \in {"device_add", "route_add", "workload_add"} => IsEntity(EntityKind(o), o.new)
      /\ o.kind = "device_set_state" => o.new.state \in DeviceStates
      /\ o.kind = "route_set_state" => o.new.state \in {"active", "inactive"}
      /\ o.kind = "route_set_path" => o.new.path \in Seq(Nat)
      /\ o.kind = "workload_set_requirements" => {o.new.req.domains, o.new.req.paths} \subseteq Nat
  BY DEF IsOperation, AllKinds
<1>1. CASE o.kind \in {"device_add", "route_add", "workload_add"}
  BY <1>0, <1>1 DEF EntryAfter, EraseOps, WindowOps, MaintenanceOps
<1>2. CASE o.kind \in PolicyOps
  BY <1>2, KindsSplit DEF IsEntity
<1>3. CASE o.kind = "link_add"
  <2>1. EntityKind(o) = "link"
    BY <1>3, KindsSplit DEF LinkOps
  <2>2. EntryAfter(s, o) = [a |-> o.new.a, b |-> o.new.b, cap |-> o.new.cap, res |-> o.new.res,
                            transit |-> o.new.transit, state |-> "present"]
    BY <1>3 DEF EntryAfter, EraseOps, WindowOps, MaintenanceOps
  <2> QED
    BY <2>1, <2>2 DEF IsEntity, IsFunction
<1>4. CASE o.kind = "config_set"
  <2>1. EntityKind(o) = "config" /\ Written(o) = <<"config", o.id>>
    BY <1>4, KindsSplit DEF ConfigOps, Written
  <2>2. EntryAfter(s, o) = [value |-> o.new.value,
                            revision |-> IF Known(s, Written(o)) THEN s.config[o.id].revision + 1 ELSE 0]
    BY <1>4 DEF EntryAfter, EraseOps, WindowOps, MaintenanceOps
  <2>3. CASE Known(s, Written(o))
    <3>1. o.id \in DOMAIN s["config"]
      BY <2>1, <2>3 DEF Known
    <3>2. s.config[o.id].revision \in 0 .. MaxRevision
      BY <3>1 DEF IsSnapshot, AreEntities, IsEntity, EntityKinds
    <3>3. ConfigPossible(s, o)
      BY <1>4 DEF Possible, MaintenanceOps, DeviceOps, LinkOps, RouteOps, WorkloadOps, PolicyOps, ConfigOps
    <3>4. s.config[o.id].revision < MaxRevision
      BY <1>4, <2>3, <3>3 DEF ConfigPossible, RevisionLeft
    <3>5. EntryAfter(s, o).revision = s.config[o.id].revision + 1
      BY <2>2, <2>3
    <3>6. EntryAfter(s, o).revision \in 0 .. MaxRevision
      BY <3>2, <3>4, <3>5, RevisionAssumption
    <3> QED
      BY <2>1, <3>6 DEF IsEntity
  <2>4. CASE ~Known(s, Written(o))
    <3>1. EntryAfter(s, o).revision = 0
      BY <2>2, <2>4
    <3>2. EntryAfter(s, o).revision \in 0 .. MaxRevision
      BY <3>1, RevisionAssumption
    <3> QED
      BY <2>1, <3>2 DEF IsEntity
  <2> QED
    BY <2>3, <2>4
<1>5. CASE o.kind \in DeviceOps \ {"device_add"}
  <2>1. EntityKind(o) = "device" /\ o.kind \notin AddOps \cup {"policy_bind", "config_set"}
    BY <1>5, KindsSplit DEF AddOps, DeviceOps, MaintenanceOps
  <2>2. o.id \in DOMAIN s["device"]
    BY <1>0, <2>1, ChangedIsKnown
  <2>3. PICK e : e = s.device[o.id] /\ IsEntity("device", e)
    BY <2>2 DEF IsSnapshot, AreEntities, EntityKinds
  <2>4. CASE o.kind = "device_set_capacity"
    <3>1. EntryAfter(s, o) = [e EXCEPT !.cap = o.new.cap]
      BY <2>3, <2>4 DEF EntryAfter, EraseOps, WindowOps, MaintenanceOps
    <3> QED
      BY <2>1, <2>3, <3>1 DEF IsEntity, IsFunction
  <2>5. CASE o.kind = "device_set_windows"
    <3>1. EntryAfter(s, o) = [e EXCEPT !.excl = o.new.excl, !.maint = o.new.maint]
      BY <2>3, <2>5 DEF EntryAfter, EraseOps, WindowOps, MaintenanceOps
    <3>2. PICK x, y, f : /\ x = o.new.excl /\ y = o.new.maint
                         /\ f = [e EXCEPT !.excl = x, !.maint = y]
      OBVIOUS
    <3>3. DOMAIN f = DOMAIN e /\ f = [i \in DOMAIN f |-> f[i]] /\ f.state = e.state
      <4>1. PICK g : g = [e EXCEPT !.excl = x]
        OBVIOUS
      <4>2. DOMAIN g = DOMAIN e /\ g.state = e.state
        BY <2>3, <4>1 DEF IsEntity
      <4>3. f = [g EXCEPT !.maint = y]
        BY <3>2, <4>1
      <4> QED
        BY <2>3, <4>2, <4>3 DEF IsEntity
    <3>4. IsEntity("device", f)
      BY <2>3, <3>3 DEF IsEntity, IsFunction
    <3> QED
      BY <2>1, <3>1, <3>2, <3>4, Zenon
  <2>6. CASE o.kind \in WindowOps \cup {"device_set_state"}
    <3>1. EntryAfter(s, o) = [e EXCEPT !.state = StateAfter(o)]
      BY <2>3, <2>6 DEF EntryAfter, EraseOps, WindowOps, MaintenanceOps
    <3>2. StateAfter(o) \in DeviceStates
      BY <1>0, <2>6 DEF StateAfter, DeviceStates, WindowOps, MaintenanceOps
    <3> QED
      BY <2>1, <2>3, <3>1, <3>2 DEF IsEntity, IsFunction
  <2> QED
    BY <1>5, <2>4, <2>5, <2>6 DEF DeviceOps, MaintenanceOps, WindowOps
<1>6. CASE o.kind \in {"link_remove", "link_set_capacity"}
  <2>1. EntityKind(o) = "link" /\ o.kind \notin AddOps \cup {"policy_bind", "config_set"}
    BY <1>6, KindsSplit DEF AddOps, LinkOps
  <2>2. o.id \in DOMAIN s["link"]
    BY <1>0, <2>1, ChangedIsKnown
  <2>3. PICK e : e = s.link[o.id] /\ IsEntity("link", e)
    BY <2>2 DEF IsSnapshot, AreEntities, EntityKinds
  <2>4. CASE o.kind = "link_remove"
    <3>1. EntryAfter(s, o) = [e EXCEPT !.state = "removed"]
      BY <2>3, <2>4 DEF EntryAfter, EraseOps, WindowOps, MaintenanceOps
    <3> QED
      BY <2>1, <2>3, <3>1 DEF IsEntity, IsFunction
  <2>5. CASE o.kind = "link_set_capacity"
    <3>1. EntryAfter(s, o) = [e EXCEPT !.cap = o.new.cap]
      BY <2>3, <2>5 DEF EntryAfter, EraseOps, WindowOps, MaintenanceOps
    <3> QED
      BY <2>1, <2>3, <3>1 DEF IsEntity, IsFunction
  <2> QED
    BY <1>6, <2>4, <2>5
<1>7. CASE o.kind \in {"route_set_path", "route_set_state"}
  <2>1. EntityKind(o) = "route" /\ o.kind \notin AddOps \cup {"policy_bind", "config_set"}
    BY <1>7, KindsSplit DEF AddOps, RouteOps
  <2>2. o.id \in DOMAIN s["route"]
    BY <1>0, <2>1, ChangedIsKnown
  <2>3. PICK e : e = s.route[o.id] /\ IsEntity("route", e)
    BY <2>2 DEF IsSnapshot, AreEntities, EntityKinds
  <2>4. CASE o.kind = "route_set_path"
    <3>1. EntryAfter(s, o) = [source |-> o.new.source, sink |-> o.new.sink, path |-> o.new.path,
                              policy |-> o.new.policy, state |-> s.route[o.id].state]
      BY <2>3, <2>4 DEF EntryAfter, EraseOps, WindowOps, MaintenanceOps
    <3> QED
      BY <1>0, <2>1, <2>3, <2>4, <3>1 DEF IsEntity
  <2>5. CASE o.kind = "route_set_state"
    <3>1. EntryAfter(s, o) = [e EXCEPT !.state = o.new.state]
      BY <2>3, <2>5 DEF EntryAfter, EraseOps, WindowOps, MaintenanceOps
    <3> QED
      BY <1>0, <2>1, <2>3, <2>5, <3>1 DEF IsEntity, IsFunction
  <2> QED
    BY <1>7, <2>4, <2>5
<1>8. CASE o.kind \in {"workload_set_bindings", "workload_set_requirements"}
  <2>1. EntityKind(o) = "workload" /\ o.kind \notin AddOps \cup {"policy_bind", "config_set"}
    BY <1>8, KindsSplit DEF AddOps, WorkloadOps
  <2>2. o.id \in DOMAIN s["workload"]
    BY <1>0, <2>1, ChangedIsKnown
  <2>3. PICK e : e = s.workload[o.id] /\ IsEntity("workload", e)
    BY <2>2 DEF IsSnapshot, AreEntities, EntityKinds
  <2>4. CASE o.kind = "workload_set_bindings"
    <3>1. EntryAfter(s, o) = [e EXCEPT !.bind = o.new.bind]
      BY <2>3, <2>4 DEF EntryAfter, EraseOps, WindowOps, MaintenanceOps
    <3> QED
      BY <2>1, <2>3, <3>1 DEF IsEntity, IsFunction
  <2>5. CASE o.kind = "workload_set_requirements"
    <3>1. EntryAfter(s, o) = [e EXCEPT !.req = o.new.req]
      BY <2>3, <2>5 DEF EntryAfter, EraseOps, WindowOps, MaintenanceOps
    <3>2. {o.new.req.domains, o.new.req.paths} \subseteq Nat
      BY <1>0, <2>5
    <3>3. IsFunction(e) /\ {"bind", "req"} \subseteq DOMAIN e
      BY <2>3 DEF IsEntity
    <3>4. PICK req, f : req = o.new.req /\ f = [e EXCEPT !.req = req]
      OBVIOUS
    <3>5. IsFunction(f) /\ {"bind", "req"} \subseteq DOMAIN f /\ f.req = req
      BY <3>3, <3>4 DEF IsFunction
    <3>6. IsEntity("workload", f)
      BY <3>2, <3>4, <3>5 DEF IsEntity
    <3> QED
      BY <2>1, <3>1, <3>4, <3>6, Zenon
  <2> QED
    BY <1>8, <2>4, <2>5
<1> QED
  BY <1>0, <1>1, <1>2, <1>3, <1>4, <1>5, <1>6, <1>7, <1>8
     DEF AllKinds, DeviceOps, LinkOps, RouteOps, WorkloadOps, PolicyOps, ConfigOps, EraseOps

\* An operation turns a snapshot into a snapshot.
LEMMA SnapshotKept ==
  ASSUME NEW c, NEW s, NEW start, NEW o, IsSnapshot(s), IsOperation(start, o), Possible(c, s, o),
         NEW t, t = Changed(s, o)
  PROVE  IsSnapshot(t)
<1>1. PICK kind, f : kind = EntityKind(o) /\ f = s[kind]
  OBVIOUS
<1>2. o.kind \in AllKinds /\ kind \in EntityKinds
  BY <1>1, KindsSplit DEF IsOperation, AllKinds
<1>3. Replaced(s, t, kind, OwnAfter(s, o))
  BY <1>1, <1>2, SnapshotShaped, OneKindChanged
<1>4. AreEntities(kind, f)
  BY <1>1, <1>2 DEF IsSnapshot
<1>5. AreEntities(kind, OwnAfter(s, o))
  <2>1. CASE o.kind \in EraseOps
    <3>1. OwnAfter(s, o) = Without(f, o.id)
      BY <1>1, <2>1 DEF OwnAfter
    <3> QED
      BY <1>4, <3>1, EntitiesKept
  <2>2. CASE o.kind \notin EraseOps
    <3>1. OwnAfter(s, o) = With(f, o.id, EntryAfter(s, o))
      BY <1>1, <2>2 DEF OwnAfter
    <3>2. IsEntity(kind, EntryAfter(s, o))
      BY <1>1, <2>2, EntryIsEntity
    <3> QED
      BY <1>4, <3>1, <3>2, EntitiesKept
  <2> QED
    BY <2>1, <2>2
<1>6. \A k \in EntityKinds : AreEntities(k, t[k])
  BY <1>2, <1>3, <1>5 DEF IsSnapshot, Replaced
<1> QED
  BY <1>3, <1>6 DEF IsSnapshot, Replaced

-----------------------------------------------------------------------------
(* What the conditions of a step say                                       *)

\* A step that changes something finds it there, and not as a tombstone.
LEMMA PresentAsked ==
  ASSUME NEW c, NEW s, NEW o, AllSatisfied(c, s, Preconditions(s, o)),
         o.kind \in (DeviceOps \ {"device_add"})
                      \cup {"link_remove", "link_set_capacity", "route_remove", "route_set_state", "route_set_path",
                            "workload_remove", "workload_set_bindings", "workload_set_requirements"}
  PROVE  Exists(s, Written(o))
<1>1. <<"entity_present", Written(o), 0>> \in Cond("entity_present", {Written(o)})
  BY DEF Cond
<1>2. Cond("entity_present", {Written(o)}) \subseteq Preconditions(s, o)
  BY DEF Preconditions, DeviceOps, MaintenanceOps, WindowOps, ConfigOps
<1>3. Satisfied(c, s, <<"entity_present", Written(o), 0>>)
  BY <1>1, <1>2 DEF AllSatisfied
<1> QED
  BY <1>3 DEF Satisfied

\* Adding a route asks for a route that is not there and can be walked.
LEMMA RouteAddRefused ==
  ASSUME NEW c, NEW s, NEW o, o.kind = "route_add"
  PROVE  ~AllSatisfied(c, s, Preconditions(s, o))
<1>1. Written(o) = <<"route", o.id>>
  BY KindsSplit DEF Written, RouteOps
<1>2. /\ <<"entity_absent", Written(o), 0>> \in Preconditions(s, o)
      /\ <<"route_walkable", Written(o), 0>> \in Preconditions(s, o)
  BY DEF Preconditions, Cond, DeviceOps, MaintenanceOps, WindowOps, ConfigOps
<1>3. ~(Satisfied(c, s, <<"entity_absent", Written(o), 0>>) /\ Satisfied(c, s, <<"route_walkable", Written(o), 0>>))
  BY <1>1 DEF Satisfied, Exists
<1> QED
  BY <1>2, <1>3 DEF AllSatisfied

-----------------------------------------------------------------------------
(* The invariant of the walk                                               *)

\* The routes are those of the start, with the ends they had there.
RoutesKept(s, start) ==
  /\ DOMAIN s.route \subseteq DOMAIN start.route
  /\ \A r \in DOMAIN s.route :
       s.route[r].source = start.route[r].source /\ s.route[r].sink = start.route[r].sink

\* The links of the start are still there, with their ends.
LinksKept(s, start) ==
  \A l \in DOMAIN start.link :
    l \in DOMAIN s.link /\ s.link[l].a = start.link[l].a /\ s.link[l].b = start.link[l].b

WalkInv ==
  /\ world \in Worlds
  /\ IsSnapshot(fabric)
  /\ Valid(fabric)
  /\ RoutesKept(fabric, world.start)
  /\ LinksKept(fabric, world.start)

\* An operation of the catalogue, where it is accepted.
LEMMA AcceptedFacts ==
  ASSUME WalkInv, NEW o \in world.catalogue, Accepted(fabric, o)
  PROVE  /\ IsOperation(world.start, o) /\ o.kind \in AllKinds /\ EntityKind(o) \in EntityKinds
         /\ AllSatisfied(world.context, fabric, Preconditions(fabric, o))
         /\ Permitted(world.context, fabric, o) /\ Possible(world.context, fabric, o)
         /\ Valid(Changed(fabric, o))
<1>1. IsOperation(world.start, o)
  BY WorldAssumption DEF WalkInv
<1>2. o.kind \in AllKinds
  BY <1>1 DEF IsOperation, AllKinds
<1> QED
  BY <1>1, <1>2, KindsSplit DEF Accepted, Applies

\* A step takes such an operation.
LEMMA StepFacts ==
  ASSUME WalkInv, NEW o \in world.catalogue, Perform(o)
  PROVE  /\ IsOperation(world.start, o) /\ o.kind \in AllKinds /\ EntityKind(o) \in EntityKinds
         /\ AllSatisfied(world.context, fabric, Preconditions(fabric, o))
         /\ Permitted(world.context, fabric, o) /\ Possible(world.context, fabric, o)
         /\ fabric' = Changed(fabric, o) /\ Valid(fabric') /\ world' = world
  BY AcceptedFacts DEF Perform

\* Routes keep their ends, and no route is added.
LEMMA RoutesKeptByStep ==
  ASSUME WalkInv, NEW o \in world.catalogue, Perform(o)
  PROVE  RoutesKept(fabric', world.start) /\ DOMAIN fabric'.route \subseteq DOMAIN fabric.route
<1> DEFINE s == fabric
           t == fabric'
<1>1. "route" \in EntityKinds
  BY DEF EntityKinds
<1>2. CASE EntityKind(o) # "route"
  <2>1. t["route"] = s["route"]
    BY <1>1, <1>2, StepFacts, SnapshotShaped, OtherKindsAfter DEF WalkInv
  <2> QED
    BY <2>1 DEF RoutesKept, WalkInv
<1>3. CASE EntityKind(o) = "route"
  <2>1. o.kind \in RouteOps \ {"route_add"}
    BY <1>3, StepFacts, KindsSplit, RouteAddRefused DEF AllKinds
  <2>2. /\ \A i \in DOMAIN s["route"] \ {o.id} : i \in DOMAIN t["route"] /\ t["route"][i] = s["route"][i]
        /\ DOMAIN t["route"] \subseteq DOMAIN s["route"] \cup {o.id}
        /\ o.kind \in EraseOps => o.id \notin DOMAIN t["route"]
        /\ o.kind \notin EraseOps =>
             o.id \in DOMAIN t["route"] /\ t["route"][o.id] = EntryAfter(s, o)
    BY <1>3, StepFacts, SnapshotShaped, OwnKindAfter DEF WalkInv
  <2>3. o.kind \notin EraseOps => o.id \in DOMAIN s["route"]
    BY <1>3, <2>1, StepFacts, ChangedIsKnown DEF RouteOps, AddOps, EraseOps
  <2>4. DOMAIN t.route \subseteq DOMAIN s.route
    BY <2>2, <2>3
  <2>5. ASSUME o.kind \notin EraseOps
        PROVE  /\ t.route[o.id].source = world.start.route[o.id].source
               /\ t.route[o.id].sink = world.start.route[o.id].sink
    <3>1. /\ s.route[o.id].source = world.start.route[o.id].source
          /\ s.route[o.id].sink = world.start.route[o.id].sink
          /\ o.id \in DOMAIN world.start.route
      BY <2>3, <2>5 DEF WalkInv, RoutesKept
    <3>2. t.route[o.id] = EntryAfter(s, o)
      BY <2>2, <2>5
    <3>3. CASE o.kind = "route_set_path"
      <4>1. o.new.source = world.start.route[o.id].source /\ o.new.sink = world.start.route[o.id].sink
        BY <3>1, <3>3, StepFacts DEF IsOperation
      <4>2. EntryAfter(s, o) = [source |-> o.new.source, sink |-> o.new.sink, path |-> o.new.path,
                                policy |-> o.new.policy, state |-> s.route[o.id].state]
        BY <3>3 DEF EntryAfter, EraseOps, WindowOps, MaintenanceOps
      <4> QED
        BY <3>2, <4>1, <4>2
    <3>4. CASE o.kind = "route_set_state"
      <4>1. EntryAfter(s, o) = [s.route[o.id] EXCEPT !.state = o.new.state]
        BY <3>4 DEF EntryAfter, EraseOps, WindowOps, MaintenanceOps
      <4>2. /\ EntryAfter(s, o).source = s.route[o.id].source
            /\ EntryAfter(s, o).sink = s.route[o.id].sink
        BY <4>1
      <4> QED
        BY <3>1, <3>2, <4>2
    <3> QED
      BY <2>1, <2>5, <3>3, <3>4 DEF RouteOps, EraseOps
  <2> QED
    BY <2>2, <2>4, <2>5 DEF RoutesKept, WalkInv
<1> QED
  BY <1>2, <1>3

\* An edited or a removed link keeps its ends.
LEMMA LinkEndsAfter ==
  ASSUME NEW s, NEW o, o.kind \in {"link_remove", "link_set_capacity"}
  PROVE  EntryAfter(s, o).a = s.link[o.id].a /\ EntryAfter(s, o).b = s.link[o.id].b
<1>1. CASE o.kind = "link_remove"
  <2>1. EntryAfter(s, o) = [s.link[o.id] EXCEPT !.state = "removed"]
    BY <1>1 DEF EntryAfter, EraseOps, WindowOps, MaintenanceOps
  <2> QED
    BY <2>1
<1>2. CASE o.kind = "link_set_capacity"
  <2>1. EntryAfter(s, o) = [s.link[o.id] EXCEPT !.cap = o.new.cap]
    BY <1>2 DEF EntryAfter, EraseOps, WindowOps, MaintenanceOps
  <2> QED
    BY <2>1
<1> QED
  BY <1>1, <1>2

\* Links keep their ends, and none is dropped.
LEMMA LinksKeptByStep ==
  ASSUME WalkInv, NEW o \in world.catalogue, Perform(o)
  PROVE  LinksKept(fabric', world.start)
<1> DEFINE s == fabric
           t == fabric'
<1>1. "link" \in EntityKinds
  BY DEF EntityKinds
<1>2. CASE EntityKind(o) # "link"
  <2>1. t["link"] = s["link"]
    BY <1>1, <1>2, StepFacts, SnapshotShaped, OtherKindsAfter DEF WalkInv
  <2> QED
    BY <2>1 DEF LinksKept, WalkInv
<1>3. CASE EntityKind(o) = "link"
  <2>1. o.kind \in LinkOps /\ o.kind \notin EraseOps
    BY <1>3, StepFacts, KindsSplit DEF AllKinds, LinkOps, EraseOps
  <2>2. /\ \A i \in DOMAIN s["link"] \ {o.id} : i \in DOMAIN t["link"] /\ t["link"][i] = s["link"][i]
        /\ o.id \in DOMAIN t["link"] /\ t["link"][o.id] = EntryAfter(s, o)
    BY <1>3, <2>1, StepFacts, SnapshotShaped, OwnKindAfter DEF WalkInv
  <2>3. CASE o.kind = "link_add"
    <3>1. o.id \notin DOMAIN s["link"]
      BY <1>3, <2>3, StepFacts DEF Possible, AddOps, Known, Written
    <3> QED
      BY <2>2, <3>1 DEF LinksKept, WalkInv
  <2>4. CASE o.kind \in {"link_remove", "link_set_capacity"}
    BY <2>2, <2>4, LinkEndsAfter DEF LinksKept, WalkInv
  <2> QED
    BY <2>1, <2>3, <2>4 DEF LinkOps
<1> QED
  BY <1>2, <1>3

\* The invariant holds all along.
THEOREM WalkInvariant == Spec => []WalkInv
<1>1. Init => WalkInv
  BY WorldAssumption DEF Init, WalkInv, RoutesKept, LinksKept
<1>2. WalkInv /\ [Next]_vars => WalkInv'
  <2>1. ASSUME WalkInv, NEW o \in world.catalogue, Perform(o)
        PROVE  WalkInv'
    <3>1. IsSnapshot(fabric')
      BY <2>1, StepFacts, SnapshotKept DEF WalkInv
    <3> QED
      BY <2>1, <3>1, StepFacts, RoutesKeptByStep, LinksKeptByStep DEF WalkInv
  <2>2. ASSUME WalkInv, UNCHANGED vars
        PROVE  WalkInv'
    BY <2>2 DEF WalkInv, vars
  <2> QED
    BY <2>1, <2>2 DEF Next
<1> QED
  BY <1>1, <1>2, PTL DEF Spec

\* Every state of a device or a link, and every revision, stays in its range, and
\* every snapshot is one CurrentStateSnapshot::validate accepts.
THEOREM FabricTypes == Spec => []TypeOK
<1>1. WalkInv => TypeOK
  BY DEF WalkInv, TypeOK, IsSnapshot, AreEntities, IsEntity, EntityKinds
<1> QED
  BY <1>1, WalkInvariant, PTL

\* A step leaves tombstones alone.
LEMMA TombstonesKept ==
  ASSUME WalkInv, NEW o \in world.catalogue, Perform(o), NEW kind \in {"device", "link"},
         NEW i \in DOMAIN fabric[kind], fabric[kind][i].state = "removed"
  PROVE  fabric'[kind][i] = fabric[kind][i]
<1>1. kind \in EntityKinds
  BY DEF EntityKinds
<1>2. CASE EntityKind(o) # kind
  BY <1>1, <1>2, StepFacts, SnapshotShaped, OtherKindsAfter DEF WalkInv
<1>3. CASE EntityKind(o) = kind
  <2>1. i # o.id
    <3>1. SUFFICES ASSUME i = o.id PROVE FALSE
      OBVIOUS
    <3>2. Written(o) = <<kind, i>> /\ Known(fabric, Written(o)) /\ ~Exists(fabric, Written(o))
      BY <1>3, <3>1 DEF Written, Known, Exists
    <3>3. o.kind \notin AddOps
      BY <3>2, StepFacts DEF Possible
    <3>4. o.kind \in (DeviceOps \ {"device_add"}) \cup {"link_remove", "link_set_capacity"}
      BY <1>3, <3>3, StepFacts, KindsSplit DEF AllKinds, AddOps, LinkOps
    <3> QED
      BY <3>2, <3>4, StepFacts, PresentAsked
  <2> QED
    BY <1>3, <2>1, StepFacts, SnapshotShaped, OwnKindAfter DEF WalkInv
<1> QED
  BY <1>2, <1>3

\* A removed device or link stays removed and keeps its record.
THEOREM TombstonesStay == Spec => TombstonesFinal
<1> DEFINE Kept == \A kind \in {"device", "link"} : \A i \in DOMAIN fabric[kind] :
                     fabric[kind][i].state = "removed" => fabric'[kind][i] = fabric[kind][i]
<1>1. WalkInv /\ [Next]_vars => [Kept]_vars
  BY TombstonesKept DEF Next, vars
<1> QED
  BY <1>1, WalkInvariant, PTL DEF Spec, TombstonesFinal

-----------------------------------------------------------------------------
(* What a step promises                                                    *)

\* What an accepted operation leaves under the identity it writes.
LEMMA WrittenAfter ==
  ASSUME WalkInv, NEW o \in world.catalogue, Accepted(fabric, o),
         NEW t, t = Changed(fabric, o), NEW kind, kind = EntityKind(o)
  PROVE  /\ Written(o) = <<kind, o.id>>
         /\ o.kind \in EraseOps => ~Known(t, Written(o))
         /\ o.kind \notin EraseOps => Known(t, Written(o)) /\ t[kind][o.id] = EntryAfter(fabric, o)
  BY AcceptedFacts, SnapshotShaped, OwnKindAfter DEF WalkInv, Written, Known

\* An entry that an operation edits has the fields of its kind.
LEMMA EditedEntry ==
  ASSUME WalkInv, NEW o \in world.catalogue, Accepted(fabric, o),
         o.kind \notin AddOps \cup {"policy_bind", "config_set"}, NEW kind, kind = EntityKind(o)
  PROVE  /\ o.id \in DOMAIN fabric[kind]
         /\ IsEntity(kind, fabric[kind][o.id])
<1>1. o.id \in DOMAIN fabric[kind]
  BY AcceptedFacts, ChangedIsKnown
<1> QED
  BY <1>1, AcceptedFacts DEF WalkInv, IsSnapshot, AreEntities

\* Operations on devices make their postconditions true.
LEMMA DeviceEffects ==
  ASSUME WalkInv, NEW o \in world.catalogue, Accepted(fabric, o), o.kind \in DeviceOps
  PROVE  AllSatisfied(world.context, Changed(fabric, o), Postconditions(o))
<1> DEFINE s == fabric
           c == world.context
<1>1. PICK t, e : t = Changed(s, o) /\ e = EntryAfter(s, o)
  OBVIOUS
<1>2. /\ EntityKind(o) = "device" /\ Written(o) = <<"device", o.id>>
      /\ Known(t, Written(o)) /\ t.device[o.id] = e
  <2>1. EntityKind(o) = "device" /\ o.kind \notin EraseOps
    BY KindsSplit DEF DeviceOps, MaintenanceOps, EraseOps
  <2> QED
    BY <1>1, <2>1, WrittenAfter
<1>3. ASSUME o.kind # "device_add"
      PROVE  {"state", "cap", "excl", "maint"} \subseteq DOMAIN s.device[o.id]
  BY <1>2, <1>3, EditedEntry DEF DeviceOps, MaintenanceOps, AddOps, IsEntity
<1>4. \A arg : /\ Satisfied(c, t, <<"entity_absent", Written(o), arg>>) <=> e.state = "removed"
               /\ Satisfied(c, t, <<"entity_present", Written(o), arg>>) <=> e.state # "removed"
               /\ Satisfied(c, t, <<"entity_state_is", Written(o), arg>>) <=> e.state = arg
               /\ Satisfied(c, t, <<"capacity_at_least", Written(o), arg>>) <=> e.cap >= arg
  BY <1>2 DEF Satisfied, Exists
<1>5. CASE o.kind = "device_add"
  <2>1. e = o.new
    BY <1>1, <1>5 DEF EntryAfter, EraseOps, WindowOps, MaintenanceOps
  <2>2. o.new.cap \in Nat
    BY <1>5, AcceptedFacts DEF IsOperation
  <2>3. o.new.state # "removed"
    BY <1>5, AcceptedFacts DEF Possible, DevicePossible, DeviceOps, MaintenanceOps, LinkOps, RouteOps,
         WorkloadOps, PolicyOps, ConfigOps
  <2>4. Postconditions(o) = Cond("entity_present", {Written(o)})
                              \cup {<<"capacity_at_least", Written(o), o.new.cap>>}
    BY <1>5 DEF Postconditions, MaintenanceOps
  <2>5. e.cap >= o.new.cap
    BY <2>1, <2>2
  <2> QED
    BY <1>1, <1>4, <2>1, <2>3, <2>4, <2>5 DEF AllSatisfied, Cond
<1>6. CASE o.kind = "device_remove"
  <2>1. e = [s.device[o.id] EXCEPT !.state = "removed"]
    BY <1>1, <1>6 DEF EntryAfter, StateAfter, EraseOps, WindowOps, MaintenanceOps
  <2>2. Postconditions(o) = Cond("entity_absent", {Written(o)})
    BY <1>6 DEF Postconditions, MaintenanceOps
  <2>3. e.state = "removed"
    BY <1>3, <1>6, <2>1
  <2> QED
    BY <1>1, <1>4, <2>2, <2>3 DEF AllSatisfied, Cond
<1>7. CASE o.kind = "device_set_capacity"
  <2>1. e = [s.device[o.id] EXCEPT !.cap = o.new.cap]
    BY <1>1, <1>7 DEF EntryAfter, EraseOps, WindowOps, MaintenanceOps
  <2>2. o.new.cap \in Nat
    BY <1>7, AcceptedFacts DEF IsOperation
  <2>3. Postconditions(o) = {<<"capacity_at_least", Written(o), o.new.cap>>}
    BY <1>7 DEF Postconditions, MaintenanceOps
  <2>4. e.cap = o.new.cap
    BY <1>3, <1>7, <2>1
  <2>5. e.cap >= o.new.cap
    BY <2>2, <2>4
  <2> QED
    BY <1>1, <1>4, <2>3, <2>5 DEF AllSatisfied
<1>8. CASE o.kind \in MaintenanceOps \cup {"device_set_state"}
  <2>1. e = [s.device[o.id] EXCEPT !.state = StateAfter(o)]
    BY <1>1, <1>8 DEF EntryAfter, EraseOps, WindowOps, MaintenanceOps
  <2>2. Postconditions(o) = {<<"entity_state_is", Written(o), StateAfter(o)>>}
    BY <1>8 DEF Postconditions, MaintenanceOps
  <2>3. e.state = StateAfter(o)
    BY <1>3, <1>8, <2>1 DEF MaintenanceOps
  <2> QED
    BY <1>1, <1>4, <2>2, <2>3 DEF AllSatisfied
<1>9. CASE o.kind = "device_set_windows"
  <2>1. e = [s.device[o.id] EXCEPT !.excl = o.new.excl, !.maint = o.new.maint]
    BY <1>1, <1>9 DEF EntryAfter, EraseOps, WindowOps, MaintenanceOps
  <2>2. Postconditions(o) = Cond("entity_present", {Written(o)})
    BY <1>9 DEF Postconditions, MaintenanceOps
  <2>3. Exists(s, Written(o))
    BY <1>9, AcceptedFacts, PresentAsked DEF DeviceOps
  <2>4. e.state = s.device[o.id].state /\ s.device[o.id].state # "removed"
    BY <1>2, <1>3, <1>9, <2>1, <2>3 DEF Exists
  <2> QED
    BY <1>1, <1>4, <2>2, <2>4 DEF AllSatisfied, Cond
<1> QED
  BY <1>5, <1>6, <1>7, <1>8, <1>9 DEF DeviceOps

\* So do operations on links.
LEMMA LinkEffects ==
  ASSUME WalkInv, NEW o \in world.catalogue, Accepted(fabric, o), o.kind \in LinkOps
  PROVE  AllSatisfied(world.context, Changed(fabric, o), Postconditions(o))
<1> DEFINE s == fabric
           c == world.context
<1>1. PICK t, e : t = Changed(s, o) /\ e = EntryAfter(s, o)
  OBVIOUS
<1>2. /\ EntityKind(o) = "link" /\ Written(o) = <<"link", o.id>>
      /\ Known(t, Written(o)) /\ t.link[o.id] = e
  <2>1. EntityKind(o) = "link" /\ o.kind \notin EraseOps
    BY KindsSplit DEF LinkOps, EraseOps
  <2> QED
    BY <1>1, <2>1, WrittenAfter
<1>3. ASSUME o.kind # "link_add"
      PROVE  {"state", "cap"} \subseteq DOMAIN s.link[o.id]
  BY <1>2, <1>3, EditedEntry DEF LinkOps, AddOps, IsEntity
<1>4. \A arg : /\ Satisfied(c, t, <<"entity_absent", Written(o), arg>>) <=> e.state = "removed"
               /\ Satisfied(c, t, <<"entity_present", Written(o), arg>>) <=> e.state # "removed"
               /\ Satisfied(c, t, <<"capacity_at_least", Written(o), arg>>) <=> e.cap >= arg
  BY <1>2 DEF Satisfied, Exists
<1>5. CASE o.kind = "link_add"
  <2>1. e.state = "present"
    BY <1>1, <1>5 DEF EntryAfter, EraseOps, WindowOps, MaintenanceOps
  <2>2. Postconditions(o) = Cond("entity_present", {Written(o)})
    BY <1>5 DEF Postconditions, MaintenanceOps
  <2> QED
    BY <1>1, <1>4, <2>1, <2>2 DEF AllSatisfied, Cond
<1>6. CASE o.kind = "link_remove"
  <2>1. e = [s.link[o.id] EXCEPT !.state = "removed"]
    BY <1>1, <1>6 DEF EntryAfter, EraseOps, WindowOps, MaintenanceOps
  <2>2. Postconditions(o) = Cond("entity_absent", {Written(o)})
    BY <1>6 DEF Postconditions, MaintenanceOps
  <2>3. e.state = "removed"
    BY <1>3, <1>6, <2>1
  <2> QED
    BY <1>1, <1>4, <2>2, <2>3 DEF AllSatisfied, Cond
<1>7. CASE o.kind = "link_set_capacity"
  <2>1. e = [s.link[o.id] EXCEPT !.cap = o.new.cap]
    BY <1>1, <1>7 DEF EntryAfter, EraseOps, WindowOps, MaintenanceOps
  <2>2. o.new.cap \in Nat
    BY <1>7, AcceptedFacts DEF IsOperation
  <2>3. Postconditions(o) = {<<"capacity_at_least", Written(o), o.new.cap>>}
    BY <1>7 DEF Postconditions, MaintenanceOps
  <2>4. e.cap = o.new.cap
    BY <1>3, <1>7, <2>1
  <2>5. e.cap >= o.new.cap
    BY <2>2, <2>4
  <2> QED
    BY <1>1, <1>4, <2>3, <2>5 DEF AllSatisfied
<1> QED
  BY <1>5, <1>6, <1>7 DEF LinkOps

\* The walk along a route depends on the links and on its source and path only.
LEMMA WalkDepends ==
  ASSUME NEW s, NEW t, NEW q, NEW r, s.link = t.link, q.source = r.source, q.path = r.path
  PROVE  Walk(s, q) = Walk(t, r)
<1> DEFINE Along(link, source, path) ==
             LET Hop(at, l) ==
                   IF l \notin DOMAIN link THEN 0
                   ELSE IF link[l].a = at THEN link[l].b
                   ELSE IF link[l].b = at THEN link[l].a
                   ELSE 0
                 walk[i \in 0 .. Len(path)] == IF i = 0 THEN source ELSE Hop(walk[i - 1], path[i])
             IN  walk
<1>1. Walk(s, q) = Along(s.link, q.source, q.path)
  BY Zenon DEF Walk
<1>2. Walk(t, r) = Along(t.link, r.source, r.path)
  BY Zenon DEF Walk
<1> HIDE DEF Along
<1> QED
  BY <1>1, <1>2

\* So do operations on routes: a moved route can be walked, in service, where it is
\* moved to, because its links were asked for and its ends stay.
LEMMA RouteEffects ==
  ASSUME WalkInv, NEW o \in world.catalogue, Accepted(fabric, o), o.kind \in RouteOps
  PROVE  AllSatisfied(world.context, Changed(fabric, o), Postconditions(o))
<1> DEFINE s == fabric
           c == world.context
<1>0. EntityKind(o) = "route"
  BY KindsSplit
<1>1. PICK t, e : t = Changed(s, o) /\ e = EntryAfter(s, o)
  OBVIOUS
<1>2. CASE o.kind = "route_add"
  BY <1>2, AcceptedFacts, RouteAddRefused
<1>3. CASE o.kind = "route_remove"
  <2>1. Written(o) = <<"route", o.id>> /\ ~Known(t, Written(o))
    BY <1>0, <1>1, <1>3, WrittenAfter DEF EraseOps
  <2>2. Satisfied(c, t, <<"entity_absent", Written(o), 0>>)
    BY <2>1 DEF Satisfied, Exists
  <2>3. Postconditions(o) = Cond("entity_absent", {Written(o)})
    BY <1>3 DEF Postconditions, MaintenanceOps
  <2> QED
    BY <1>1, <2>2, <2>3 DEF AllSatisfied, Cond
<1>4. ASSUME o.kind \in {"route_set_state", "route_set_path"}
      PROVE  /\ Written(o) = <<"route", o.id>> /\ Known(t, Written(o)) /\ t.route[o.id] = e
             /\ o.id \in DOMAIN s.route /\ "state" \in DOMAIN s.route[o.id]
  <2>1. Written(o) = <<"route", o.id>> /\ Known(t, Written(o)) /\ t.route[o.id] = e
    BY <1>0, <1>1, <1>4, WrittenAfter DEF EraseOps
  <2>2. o.id \in DOMAIN s["route"] /\ IsEntity("route", s["route"][o.id])
    BY <1>0, <1>4, EditedEntry DEF AddOps
  <2> QED
    BY <2>1, <2>2 DEF IsEntity
<1>5. CASE o.kind = "route_set_state"
  <2>1. e = [s.route[o.id] EXCEPT !.state = o.new.state]
    BY <1>1, <1>5 DEF EntryAfter, EraseOps, WindowOps, MaintenanceOps
  <2>2. e.state = o.new.state
    BY <1>4, <1>5, <2>1
  <2>3. Satisfied(c, t, <<"route_state_is", Written(o), o.new.state>>)
    BY <1>4, <1>5, <2>2 DEF Satisfied
  <2>4. Postconditions(o) = {<<"route_state_is", Written(o), o.new.state>>}
    BY <1>5 DEF Postconditions, MaintenanceOps
  <2> QED
    BY <1>1, <2>3, <2>4 DEF AllSatisfied
<1>6. CASE o.kind = "route_set_path"
  <2>1. e = [source |-> o.new.source, sink |-> o.new.sink, path |-> o.new.path,
             policy |-> o.new.policy, state |-> s.route[o.id].state]
    BY <1>1, <1>6 DEF EntryAfter, EraseOps, WindowOps, MaintenanceOps
  <2>2. t.link = s.link /\ t.device = s.device
    <3>1. t["link"] = s["link"] /\ t["device"] = s["device"]
      BY <1>0, <1>1, AcceptedFacts, SnapshotShaped, OtherKindsAfter DEF WalkInv, EntityKinds
    <3> QED
      BY <3>1
  <2>3. PathPossible(s, o.new)
    BY <1>6, AcceptedFacts DEF Possible, RoutePossible, DeviceOps, MaintenanceOps, LinkOps, RouteOps,
         WorkloadOps, PolicyOps, ConfigOps
  <2>4. RouteWalkable(t, e)
    <3>1. Walk(t, e) = Walk(s, o.new)
      BY <2>1, <2>2, WalkDepends
    <3> QED
      BY <2>1, <2>3, <3>1 DEF PathPossible, RouteWalkable
  <2>5. \A l \in PathLinks(o.new.path) : Exists(s, <<"link", l>>)
    <3>1. Present("link", PathLinks(o.new.path)) \subseteq Preconditions(s, o)
      BY <1>6 DEF Preconditions, DeviceOps, MaintenanceOps, WindowOps, ConfigOps
    <3>2. \A l \in PathLinks(o.new.path) :
            <<"entity_present", <<"link", l>>, 0>> \in Present("link", PathLinks(o.new.path))
      BY DEF Present, Cond, Refs
    <3>3. \A l \in PathLinks(o.new.path) : Satisfied(c, s, <<"entity_present", <<"link", l>>, 0>>)
      BY <3>1, <3>2, AcceptedFacts DEF AllSatisfied
    <3> QED
      BY <3>3 DEF Satisfied
  <2>6. \A l \in PathLinks(o.new.path) : t.link[l].state = "present"
    <3>1. TAKE l \in PathLinks(o.new.path)
    <3>2. l \in DOMAIN s["link"] /\ s.link[l].state # "removed"
      BY <2>5 DEF Exists, Known
    <3>3. IsEntity("link", s["link"][l])
      BY <3>2 DEF WalkInv, IsSnapshot, AreEntities, EntityKinds
    <3> QED
      BY <2>2, <3>2, <3>3 DEF IsEntity
  <2>7. Exists(t, <<"device", o.new.source>>) /\ Exists(t, <<"device", o.new.sink>>)
    <3>1. o.new.source = s.route[o.id].source /\ o.new.sink = s.route[o.id].sink
      BY <1>4, <1>6, AcceptedFacts DEF IsOperation, WalkInv, RoutesKept
    <3>2. Known(s, Written(o))
      BY <1>4, <1>6 DEF Known
    <3>3. Present("device", {s.route[o.id].source, s.route[o.id].sink}) \subseteq Preconditions(s, o)
      BY <1>0, <1>6, <3>2 DEF Preconditions, DeviceOps, MaintenanceOps, WindowOps, ConfigOps
    <3>4. \A d \in {s.route[o.id].source, s.route[o.id].sink} :
            <<"entity_present", <<"device", d>>, 0>>
              \in Present("device", {s.route[o.id].source, s.route[o.id].sink})
      BY DEF Present, Cond, Refs
    <3>5. \A d \in {s.route[o.id].source, s.route[o.id].sink} :
            Satisfied(c, s, <<"entity_present", <<"device", d>>, 0>>)
      BY <3>3, <3>4, AcceptedFacts DEF AllSatisfied
    <3>6. Exists(s, <<"device", o.new.source>>) /\ Exists(s, <<"device", o.new.sink>>)
      BY <3>1, <3>5 DEF Satisfied
    <3> QED
      BY <2>2, <3>6 DEF Exists, Known
  <2>8. Satisfied(c, t, <<"route_walkable", Written(o), 0>>)
    BY <1>4, <1>6, <2>1, <2>4, <2>6, <2>7 DEF Satisfied
  <2>9. Postconditions(o) = Cond("route_walkable", {Written(o)})
    BY <1>6 DEF Postconditions, MaintenanceOps
  <2> QED
    BY <1>1, <2>8, <2>9 DEF AllSatisfied, Cond
<1> QED
  BY <1>2, <1>3, <1>5, <1>6 DEF RouteOps

\* So do operations on workloads.
LEMMA WorkloadEffects ==
  ASSUME WalkInv, NEW o \in world.catalogue, Accepted(fabric, o), o.kind \in WorkloadOps
  PROVE  AllSatisfied(world.context, Changed(fabric, o), Postconditions(o))
<1> DEFINE s == fabric
           c == world.context
           active == {q \in DOMAIN o.new.bind : o.new.bind[q].active}
<1>0. EntityKind(o) = "workload"
  BY KindsSplit
<1>1. PICK t, e : t = Changed(s, o) /\ e = EntryAfter(s, o)
  OBVIOUS
<1>2. CASE o.kind = "workload_remove"
  <2>1. Written(o) = <<"workload", o.id>> /\ ~Known(t, Written(o))
    BY <1>0, <1>1, <1>2, WrittenAfter DEF EraseOps
  <2>2. Satisfied(c, t, <<"entity_absent", Written(o), 0>>)
    BY <2>1 DEF Satisfied, Exists
  <2>3. Postconditions(o) = Cond("entity_absent", {Written(o)})
    BY <1>2 DEF Postconditions, MaintenanceOps
  <2> QED
    BY <1>1, <2>2, <2>3 DEF AllSatisfied, Cond
<1>3. CASE o.kind \in {"workload_add", "workload_set_bindings", "workload_set_requirements"}
  <2>1. Written(o) = <<"workload", o.id>> /\ Known(t, Written(o)) /\ t.workload[o.id] = e
    BY <1>0, <1>1, <1>3, WrittenAfter DEF EraseOps
  <2>2. Satisfied(c, t, <<"entity_present", Written(o), 0>>)
    BY <2>1 DEF Satisfied, Exists
  <2>3. \A r \in active : e.bind[r].active /\ r \in DOMAIN e.bind
    <3>1. CASE o.kind = "workload_add"
      BY <1>1, <3>1 DEF EntryAfter, EraseOps, WindowOps, MaintenanceOps
    <3>2. CASE o.kind = "workload_set_bindings"
      <4>1. e = [s.workload[o.id] EXCEPT !.bind = o.new.bind]
        BY <1>1, <3>2 DEF EntryAfter, EraseOps, WindowOps, MaintenanceOps
      <4>2. "bind" \in DOMAIN s.workload[o.id]
        BY <1>0, <3>2, EditedEntry DEF AddOps, IsEntity
      <4>3. e.bind = o.new.bind
        BY <4>1, <4>2
      <4> QED
        BY <4>3
    <3>3. CASE o.kind = "workload_set_requirements"
      BY <3>3, AcceptedFacts DEF IsOperation
    <3> QED
      BY <1>3, <3>1, <3>2, <3>3
  <2>4. \A r \in active : Satisfied(c, t, <<"binding_active", Written(o), r>>)
    BY <2>1, <2>3 DEF Satisfied
  <2>5. Postconditions(o) = Cond("entity_present", {Written(o)})
                              \cup UNION {{<<"binding_active", Written(o), r>>} : r \in active}
    BY <1>3 DEF Postconditions, MaintenanceOps
  <2>6. ASSUME NEW x \in Postconditions(o) PROVE Satisfied(c, t, x)
    <3>1. x = <<"entity_present", Written(o), 0>> \/ \E r \in active : x = <<"binding_active", Written(o), r>>
      BY <2>5 DEF Cond
    <3> QED
      BY <2>2, <2>4, <3>1
  <2> QED
    BY <1>1, <2>6 DEF AllSatisfied
<1> QED
  BY <1>2, <1>3 DEF WorkloadOps

\* So do operations on policies and configuration values.
LEMMA SettingEffects ==
  ASSUME WalkInv, NEW o \in world.catalogue, Accepted(fabric, o), o.kind \in PolicyOps \cup ConfigOps
  PROVE  AllSatisfied(world.context, Changed(fabric, o), Postconditions(o))
<1> DEFINE s == fabric
           c == world.context
<1>0. PICK kind : kind = EntityKind(o) /\ kind \in {"policy", "config"}
  BY KindsSplit
<1>1. PICK t, e : t = Changed(s, o) /\ e = EntryAfter(s, o)
  OBVIOUS
<1>2. CASE o.kind \in {"policy_unbind", "config_clear"}
  <2>1. Written(o) = <<kind, o.id>> /\ ~Known(t, Written(o))
    BY <1>0, <1>1, <1>2, WrittenAfter DEF EraseOps
  <2>2. Satisfied(c, t, <<"entity_absent", Written(o), 0>>)
    BY <1>0, <2>1 DEF Satisfied, Exists
  <2>3. Postconditions(o) = Cond("entity_absent", {Written(o)})
    BY <1>2 DEF Postconditions, MaintenanceOps
  <2> QED
    BY <1>1, <2>2, <2>3 DEF AllSatisfied, Cond
<1>3. CASE o.kind \in {"policy_bind", "config_set"}
  <2>1. Written(o) = <<kind, o.id>> /\ Known(t, Written(o)) /\ t[kind][o.id] = e
    BY <1>0, <1>1, <1>3, WrittenAfter DEF EraseOps
  <2>2. CASE o.kind = "policy_bind"
    <3>1. Satisfied(c, t, <<"policy_bound", Written(o), 0>>)
      BY <1>0, <2>1 DEF Satisfied
    <3>2. Postconditions(o) = Cond("policy_bound", {Written(o)})
      BY <2>2 DEF Postconditions, MaintenanceOps
    <3> QED
      BY <1>1, <3>1, <3>2 DEF AllSatisfied, Cond
  <2>3. CASE o.kind = "config_set"
    <3>1. e.value = o.new.value
      BY <1>1, <2>3 DEF EntryAfter, EraseOps, WindowOps, MaintenanceOps
    <3>2. Satisfied(c, t, <<"config_equals", Written(o), o.new.value>>)
      BY <1>0, <2>1, <3>1 DEF Satisfied
    <3>3. Postconditions(o) = {<<"config_equals", Written(o), o.new.value>>}
      BY <2>3 DEF Postconditions, MaintenanceOps
    <3> QED
      BY <1>1, <3>2, <3>3 DEF AllSatisfied
  <2> QED
    BY <1>3, <2>2, <2>3
<1> QED
  BY <1>2, <1>3 DEF PolicyOps, ConfigOps

\* Whatever snapshot an accepted step meets, what its postconditions promise is
\* true afterwards.
THEOREM EffectsHold == Spec => []EffectsAsserted
<1>1. ASSUME WalkInv, NEW o \in world.catalogue, Accepted(fabric, o)
      PROVE  AllSatisfied(world.context, Changed(fabric, o), Postconditions(o))
  <2>1. o.kind \in AllKinds
    BY <1>1, AcceptedFacts
  <2> QED
    BY <1>1, <2>1, DeviceEffects, LinkEffects, RouteEffects, WorkloadEffects, SettingEffects DEF AllKinds
<1>2. WalkInv => EffectsAsserted
  BY <1>1 DEF EffectsAsserted
<1> QED
  BY <1>2, WalkInvariant, PTL

-----------------------------------------------------------------------------
(* What an exclusion protects                                              *)

\* The parts of Touching.
LinksAt(s, d) == {l \in DOMAIN s.link : d \in {s.link[l].a, s.link[l].b}}
RoutesAt(s, d) == {r \in DOMAIN s.route : d \in {s.route[r].source, s.route[r].sink}}
ConfigAt(s, d) == {x \in DOMAIN s.config : x[1] = d}
Pairs(f, S) == {<<x, f[x]>> : x \in S}
BindingsOf(s, w, R) == {<<w, r, s.workload[w].bind[r]>> : r \in R \cap DOMAIN s.workload[w].bind}
BindingsAt(s, d) == UNION {BindingsOf(s, w, RoutesAt(s, d)) : w \in DOMAIN s.workload}

LEMMA TouchingIs ==
  ASSUME NEW s, NEW d
  PROVE  Touching(s, d) = [device |-> s.device[d], config |-> Pairs(s.config, ConfigAt(s, d)),
                           link |-> Pairs(s.link, LinksAt(s, d)), route |-> Pairs(s.route, RoutesAt(s, d)),
                           bindings |-> BindingsAt(s, d)]
  BY Zenon DEF Touching, Pairs, ConfigAt, LinksAt, RoutesAt, BindingsAt, BindingsOf

\* The same identities with the same entries give the same pairs.
LEMMA PairsSame ==
  ASSUME NEW f, NEW g, NEW S, \A x \in S : f[x] = g[x]
  PROVE  Pairs(f, S) = Pairs(g, S)
  BY DEF Pairs

\* What is the same part by part is the same.
LEMMA TouchingSame ==
  ASSUME NEW s, NEW t, NEW d, t.device[d] = s.device[d],
         ConfigAt(t, d) = ConfigAt(s, d), \A x \in ConfigAt(s, d) : t.config[x] = s.config[x],
         LinksAt(t, d) = LinksAt(s, d), \A x \in LinksAt(s, d) : t.link[x] = s.link[x],
         RoutesAt(t, d) = RoutesAt(s, d), \A x \in RoutesAt(s, d) : t.route[x] = s.route[x],
         BindingsAt(t, d) = BindingsAt(s, d)
  PROVE  Touching(t, d) = Touching(s, d)
<1>1. Pairs(t.config, ConfigAt(t, d)) = Pairs(s.config, ConfigAt(s, d))
  BY PairsSame DEF Pairs
<1>2. Pairs(t.link, LinksAt(t, d)) = Pairs(s.link, LinksAt(s, d))
  BY PairsSame DEF Pairs
<1>3. Pairs(t.route, RoutesAt(t, d)) = Pairs(s.route, RoutesAt(s, d))
  BY PairsSame DEF Pairs
<1> QED
  BY <1>1, <1>2, <1>3, TouchingIs

\* Bindings depend on workloads and on the routes at the device.
LEMMA BindingsDepend ==
  ASSUME NEW s, NEW t, NEW d, t.workload = s.workload, RoutesAt(t, d) = RoutesAt(s, d)
  PROVE  BindingsAt(t, d) = BindingsAt(s, d)
  BY DEF BindingsAt, BindingsOf

\* Which devices an operation concerns, kind by kind.
LEMMA SubjectsAre ==
  ASSUME NEW s, NEW o
  PROVE  /\ o.kind \in DeviceOps \ {"device_add"} => Subjects(s, o) = {o.id}
         /\ o.kind \in ConfigOps => Subjects(s, o) = {o.id[1]}
         /\ o.kind \in {"link_add", "link_set_capacity"} => Subjects(s, o) = {o.new.a, o.new.b}
         /\ o.kind = "link_remove" => Subjects(s, o) = LinkEnds(s, {o.id})
         /\ o.kind = "route_set_path" => Subjects(s, o) = {o.new.source, o.new.sink}
         /\ o.kind \in {"route_remove", "route_set_state"} => Subjects(s, o) = RouteEnds(s, {o.id})
         /\ o.kind \in WorkloadOps =>
              Subjects(s, o) =
                RouteEnds(s, DOMAIN o.new.bind \cup (IF o.id \in DOMAIN s.workload
                                                     THEN DOMAIN s.workload[o.id].bind ELSE {}))
<1> USE DEF Subjects, DeviceOps, MaintenanceOps, ConfigOps, WorkloadOps, PolicyOps
<1>1. o.kind \in DeviceOps \ {"device_add"} => Subjects(s, o) = {o.id}
  OBVIOUS
<1>2. o.kind \in ConfigOps => Subjects(s, o) = {o.id[1]}
  OBVIOUS
<1>3. o.kind \in {"link_add", "link_set_capacity"} => Subjects(s, o) = {o.new.a, o.new.b}
  OBVIOUS
<1>4. o.kind = "link_remove" => Subjects(s, o) = LinkEnds(s, {o.id})
  OBVIOUS
<1>5. o.kind = "route_set_path" => Subjects(s, o) = {o.new.source, o.new.sink}
  OBVIOUS
<1>6. o.kind \in {"route_remove", "route_set_state"} => Subjects(s, o) = RouteEnds(s, {o.id})
  OBVIOUS
<1>7. o.kind \in WorkloadOps =>
        Subjects(s, o) =
          RouteEnds(s, DOMAIN o.new.bind \cup (IF o.id \in DOMAIN s.workload
                                               THEN DOMAIN s.workload[o.id].bind ELSE {}))
  OBVIOUS
<1> QED
  BY <1>1, <1>2, <1>3, <1>4, <1>5, <1>6, <1>7

\* The ends of the links and routes concerned are among the devices concerned.
LEMMA EndsConcerned ==
  ASSUME NEW s, NEW ids
  PROVE  /\ \A l \in ids \cap DOMAIN s.link : {s.link[l].a, s.link[l].b} \subseteq LinkEnds(s, ids)
         /\ \A r \in ids \cap DOMAIN s.route :
              {s.route[r].source, s.route[r].sink} \subseteq RouteEnds(s, ids)
  BY DEF LinkEnds, RouteEnds

\* A change of another device.
LEMMA OtherDevice ==
  ASSUME NEW c, NEW s, NEW o, IsSnapshot(s), o.kind \in DeviceOps, Possible(c, s, o),
         NEW t, t = Changed(s, o), NEW d, d \in DOMAIN s.device, d \notin Subjects(s, o)
  PROVE  Touching(t, d) = Touching(s, d)
<1>1. EntityKind(o) = "device" /\ o.kind \in AllKinds
  BY KindsSplit DEF AllKinds
<1>2. d # o.id
  <2>1. CASE o.kind = "device_add"
    <3>1. o.id \notin DOMAIN s["device"]
      BY <1>1, <2>1 DEF Possible, AddOps, Known, Written
    <3> QED
      BY <3>1
  <2>2. CASE o.kind # "device_add"
    BY <2>2, SubjectsAre
  <2> QED
    BY <2>1, <2>2
<1>3. t["device"][d] = s["device"][d]
  BY <1>1, <1>2, SnapshotShaped, OwnKindAfter
<1>4. t["config"] = s["config"] /\ t["link"] = s["link"] /\ t["route"] = s["route"]
        /\ t["workload"] = s["workload"]
  BY <1>1, SnapshotShaped, OtherKindsAfter DEF EntityKinds
<1>5. /\ ConfigAt(t, d) = ConfigAt(s, d) /\ LinksAt(t, d) = LinksAt(s, d)
      /\ RoutesAt(t, d) = RoutesAt(s, d)
  BY <1>4 DEF ConfigAt, LinksAt, RoutesAt
<1> QED
  BY <1>3, <1>4, <1>5, TouchingSame, BindingsDepend

\* A change of the configuration of another device.
LEMMA OtherConfig ==
  ASSUME NEW c, NEW s, NEW o, IsSnapshot(s), o.kind \in ConfigOps, Possible(c, s, o),
         NEW t, t = Changed(s, o), NEW d, d \notin Subjects(s, o)
  PROVE  Touching(t, d) = Touching(s, d)
<1>1. EntityKind(o) = "config" /\ o.kind \in AllKinds
  BY KindsSplit DEF AllKinds
<1>2. d # o.id[1]
  BY SubjectsAre
<1>3. PICK f, g : f = s["config"] /\ g = t["config"]
  OBVIOUS
<1>4. /\ \A i \in DOMAIN f \ {o.id} : i \in DOMAIN g /\ g[i] = f[i]
      /\ DOMAIN g \subseteq DOMAIN f \cup {o.id}
  BY <1>1, <1>3, SnapshotShaped, OwnKindAfter
<1>5. /\ {x \in DOMAIN g : x[1] = d} = {x \in DOMAIN f : x[1] = d}
      /\ \A x \in {y \in DOMAIN f : y[1] = d} : g[x] = f[x]
  BY <1>2, <1>4
<1>6. ConfigAt(t, d) = ConfigAt(s, d) /\ \A x \in ConfigAt(s, d) : t.config[x] = s.config[x]
  BY <1>3, <1>5 DEF ConfigAt
<1>7. t["device"] = s["device"] /\ t["link"] = s["link"] /\ t["route"] = s["route"]
        /\ t["workload"] = s["workload"]
  BY <1>1, SnapshotShaped, OtherKindsAfter DEF EntityKinds
<1>8. LinksAt(t, d) = LinksAt(s, d) /\ RoutesAt(t, d) = RoutesAt(s, d)
  BY <1>7 DEF LinksAt, RoutesAt
<1> QED
  BY <1>6, <1>7, <1>8, TouchingSame, BindingsDepend

\* A change of a link that does not end at the device.
LEMMA OtherLink ==
  ASSUME NEW c, NEW s, NEW o, IsSnapshot(s), o.kind \in LinkOps, Possible(c, s, o),
         o.kind = "link_set_capacity" => o.new.a = s.link[o.id].a /\ o.new.b = s.link[o.id].b,
         NEW t, t = Changed(s, o), NEW d, d \notin Subjects(s, o)
  PROVE  Touching(t, d) = Touching(s, d)
<1>1. EntityKind(o) = "link" /\ o.kind \in AllKinds /\ o.kind \notin EraseOps
  BY KindsSplit DEF AllKinds, LinkOps, EraseOps
<1>2. PICK f, g : f = s["link"] /\ g = t["link"]
  OBVIOUS
<1>3. /\ \A i \in DOMAIN f \ {o.id} : i \in DOMAIN g /\ g[i] = f[i]
      /\ DOMAIN g \subseteq DOMAIN f \cup {o.id}
      /\ g[o.id] = EntryAfter(s, o)
  BY <1>1, <1>2, SnapshotShaped, OwnKindAfter
<1>4. o.id \in DOMAIN f => d \notin {f[o.id].a, f[o.id].b}
  <2>1. CASE o.kind = "link_add"
    <3>1. o.id \notin DOMAIN s["link"]
      BY <1>1, <2>1 DEF Possible, AddOps, Known, Written
    <3> QED
      BY <1>2, <3>1
  <2>2. CASE o.kind = "link_remove"
    <3>1. o.id \in DOMAIN s.link => {s.link[o.id].a, s.link[o.id].b} \subseteq LinkEnds(s, {o.id})
      BY EndsConcerned
    <3>2. Subjects(s, o) = LinkEnds(s, {o.id})
      BY <2>2, SubjectsAre
    <3> QED
      BY <1>2, <3>1, <3>2
  <2>3. CASE o.kind = "link_set_capacity"
    BY <1>2, <2>3, SubjectsAre
  <2> QED
    BY <2>1, <2>2, <2>3 DEF LinkOps
<1>5. d \notin {g[o.id].a, g[o.id].b}
  <2>1. CASE o.kind = "link_add"
    <3>1. g[o.id].a = o.new.a /\ g[o.id].b = o.new.b
      BY <1>3, <2>1 DEF EntryAfter, EraseOps, WindowOps, MaintenanceOps
    <3> QED
      BY <2>1, <3>1, SubjectsAre
  <2>2. CASE o.kind \in {"link_remove", "link_set_capacity"}
    <3>1. o.id \in DOMAIN f
      BY <1>1, <1>2, <2>2, ChangedIsKnown DEF AddOps
    <3>2. g[o.id].a = f[o.id].a /\ g[o.id].b = f[o.id].b
      BY <1>2, <1>3, <2>2, LinkEndsAfter
    <3> QED
      BY <1>4, <3>1, <3>2
  <2> QED
    BY <2>1, <2>2 DEF LinkOps
<1>6. /\ {l \in DOMAIN g : d \in {g[l].a, g[l].b}} = {l \in DOMAIN f : d \in {f[l].a, f[l].b}}
      /\ \A l \in {m \in DOMAIN f : d \in {f[m].a, f[m].b}} : g[l] = f[l]
  BY <1>3, <1>4, <1>5
<1>7. LinksAt(t, d) = LinksAt(s, d) /\ \A x \in LinksAt(s, d) : t.link[x] = s.link[x]
  BY <1>2, <1>6 DEF LinksAt
<1>8. t["device"] = s["device"] /\ t["config"] = s["config"] /\ t["route"] = s["route"]
        /\ t["workload"] = s["workload"]
  BY <1>1, SnapshotShaped, OtherKindsAfter DEF EntityKinds
<1>9. ConfigAt(t, d) = ConfigAt(s, d) /\ RoutesAt(t, d) = RoutesAt(s, d)
  BY <1>8 DEF ConfigAt, RoutesAt
<1> QED
  BY <1>7, <1>8, <1>9, TouchingSame, BindingsDepend

\* A change of a route that does not end at the device.
LEMMA OtherRoute ==
  ASSUME NEW c, NEW s, NEW o, IsSnapshot(s), o.kind \in RouteOps \ {"route_add"}, Possible(c, s, o),
         o.kind = "route_set_path" =>
           o.new.source = s.route[o.id].source /\ o.new.sink = s.route[o.id].sink,
         NEW t, t = Changed(s, o), NEW d, d \notin Subjects(s, o)
  PROVE  Touching(t, d) = Touching(s, d)
<1>1. EntityKind(o) = "route" /\ o.kind \in AllKinds
  BY KindsSplit DEF AllKinds
<1>2. PICK f, g : f = s["route"] /\ g = t["route"]
  OBVIOUS
<1>3. /\ \A i \in DOMAIN f \ {o.id} : i \in DOMAIN g /\ g[i] = f[i]
      /\ DOMAIN g \subseteq DOMAIN f \cup {o.id}
      /\ o.kind \in EraseOps => o.id \notin DOMAIN g
      /\ o.kind \notin EraseOps => g[o.id] = EntryAfter(s, o)
  BY <1>1, <1>2, SnapshotShaped, OwnKindAfter
<1>4. o.id \in DOMAIN f
  BY <1>1, <1>2, ChangedIsKnown DEF Possible, Known, Written, RouteOps, AddOps
<1>5. d \notin {f[o.id].source, f[o.id].sink}
  <2>1. CASE o.kind = "route_set_path"
    BY ZenonT(60), <1>2, <2>1, SubjectsAre
  <2>2. CASE o.kind \in {"route_remove", "route_set_state"}
    <3>1. o.id \in DOMAIN s.route
            => {s.route[o.id].source, s.route[o.id].sink} \subseteq RouteEnds(s, {o.id})
      BY EndsConcerned
    <3>2. Subjects(s, o) = RouteEnds(s, {o.id})
      BY ZenonT(60), <2>2, SubjectsAre
    <3> QED
      BY <1>2, <1>4, <3>1, <3>2
  <2> QED
    BY <2>1, <2>2 DEF RouteOps
<1>6. o.id \in DOMAIN g => d \notin {g[o.id].source, g[o.id].sink}
  <2>1. CASE o.kind = "route_set_path"
    <3>1. g[o.id].source = o.new.source /\ g[o.id].sink = o.new.sink
      BY <1>3, <2>1 DEF EntryAfter, EraseOps, WindowOps, MaintenanceOps
    <3> QED
      BY <1>2, <1>5, <2>1, <3>1
  <2>2. CASE o.kind = "route_set_state"
    <3>1. g[o.id] = [f[o.id] EXCEPT !.state = o.new.state]
      BY <1>2, <1>3, <2>2 DEF EntryAfter, EraseOps, WindowOps, MaintenanceOps
    <3>2. g[o.id].source = f[o.id].source /\ g[o.id].sink = f[o.id].sink
      BY <3>1
    <3> QED
      BY <1>5, <3>2
  <2>3. CASE o.kind = "route_remove"
    BY <1>3, <2>3 DEF EraseOps
  <2> QED
    BY <2>1, <2>2, <2>3 DEF RouteOps
<1>7. /\ {r \in DOMAIN g : d \in {g[r].source, g[r].sink}} = {r \in DOMAIN f : d \in {f[r].source, f[r].sink}}
      /\ \A r \in {q \in DOMAIN f : d \in {f[q].source, f[q].sink}} : g[r] = f[r]
  BY <1>3, <1>5, <1>6
<1>8. RoutesAt(t, d) = RoutesAt(s, d) /\ \A x \in RoutesAt(s, d) : t.route[x] = s.route[x]
  BY <1>2, <1>7 DEF RoutesAt
<1>9. t["device"] = s["device"] /\ t["config"] = s["config"] /\ t["link"] = s["link"]
        /\ t["workload"] = s["workload"]
  BY <1>1, SnapshotShaped, OtherKindsAfter DEF EntityKinds
<1>10. ConfigAt(t, d) = ConfigAt(s, d) /\ LinksAt(t, d) = LinksAt(s, d)
  BY <1>9 DEF ConfigAt, LinksAt
<1> QED
  BY <1>8, <1>9, <1>10, TouchingSame, BindingsDepend

\* A change of a workload that binds no route which ends at the device.
LEMMA OtherWorkload ==
  ASSUME NEW c, NEW s, NEW o, IsSnapshot(s), o.kind \in WorkloadOps, Possible(c, s, o),
         NEW t, t = Changed(s, o), NEW d, d \notin Subjects(s, o)
  PROVE  Touching(t, d) = Touching(s, d)
<1>1. EntityKind(o) = "workload" /\ o.kind \in AllKinds
  BY KindsSplit DEF AllKinds
<1>2. t["device"] = s["device"] /\ t["config"] = s["config"] /\ t["link"] = s["link"]
        /\ t["route"] = s["route"]
  BY <1>1, SnapshotShaped, OtherKindsAfter DEF EntityKinds
<1>3. ConfigAt(t, d) = ConfigAt(s, d) /\ LinksAt(t, d) = LinksAt(s, d) /\ RoutesAt(t, d) = RoutesAt(s, d)
  BY <1>2 DEF ConfigAt, LinksAt, RoutesAt
<1>4. PICK f, g, R : f = s["workload"] /\ g = t["workload"] /\ R = RoutesAt(s, d)
  OBVIOUS
<1>5. /\ \A i \in DOMAIN f \ {o.id} : i \in DOMAIN g /\ g[i] = f[i]
      /\ DOMAIN g \subseteq DOMAIN f \cup {o.id}
      /\ o.kind \in EraseOps => o.id \notin DOMAIN g
      /\ o.kind \notin EraseOps => g[o.id] = EntryAfter(s, o)
  BY <1>1, <1>4, SnapshotShaped, OwnKindAfter
<1>6. /\ R \cap DOMAIN o.new.bind = {}
      /\ o.id \in DOMAIN f => R \cap DOMAIN f[o.id].bind = {}
  <2>1. PICK ids : ids = DOMAIN o.new.bind \cup (IF o.id \in DOMAIN s.workload
                                                 THEN DOMAIN s.workload[o.id].bind ELSE {})
    OBVIOUS
  <2>2. d \notin RouteEnds(s, ids)
    BY <2>1, SubjectsAre
  <2>3. R \cap ids = {}
    BY <1>4, <2>2, EndsConcerned DEF RoutesAt
  <2> QED
    BY <1>4, <2>1, <2>3
<1>7. o.id \in DOMAIN g => R \cap DOMAIN g[o.id].bind = {}
  <2>1. CASE o.kind = "workload_add"
    <3>1. g[o.id] = o.new
      BY <1>5, <2>1 DEF EntryAfter, EraseOps, WindowOps, MaintenanceOps
    <3> QED
      BY <1>6, <3>1
  <2>2. CASE o.kind = "workload_remove"
    BY <1>5, <2>2 DEF EraseOps
  <2>3. CASE o.kind \in {"workload_set_bindings", "workload_set_requirements"}
    <3>1. o.id \in DOMAIN f
      BY <1>1, <1>4, <2>3, ChangedIsKnown DEF AddOps
    <3>2. {"bind", "req"} \subseteq DOMAIN f[o.id]
      BY <1>4, <3>1 DEF IsSnapshot, AreEntities, EntityKinds, IsEntity
    <3>3. CASE o.kind = "workload_set_bindings"
      <4>1. g[o.id] = [f[o.id] EXCEPT !.bind = o.new.bind]
        BY <1>4, <1>5, <3>3 DEF EntryAfter, EraseOps, WindowOps, MaintenanceOps
      <4>2. g[o.id].bind = o.new.bind
        BY <3>2, <4>1
      <4> QED
        BY <1>6, <4>2
    <3>4. CASE o.kind = "workload_set_requirements"
      <4>1. g[o.id] = [f[o.id] EXCEPT !.req = o.new.req]
        BY <1>4, <1>5, <3>4 DEF EntryAfter, EraseOps, WindowOps, MaintenanceOps
      <4>2. g[o.id].bind = f[o.id].bind
        BY <3>2, <4>1
      <4> QED
        BY <1>6, <3>1, <4>2
    <3> QED
      BY <2>3, <3>3, <3>4
  <2> QED
    BY <2>1, <2>2, <2>3 DEF WorkloadOps
<1>8. BindingsAt(t, d) = BindingsAt(s, d)
  <2> DEFINE Of(h, w) == {<<w, r, h[w].bind[r]>> : r \in R \cap DOMAIN h[w].bind}
  <2>1. BindingsAt(s, d) = UNION {Of(f, w) : w \in DOMAIN f}
    BY <1>4 DEF BindingsAt, BindingsOf
  <2>2. BindingsAt(t, d) = UNION {Of(g, w) : w \in DOMAIN g}
    BY <1>3, <1>4 DEF BindingsAt, BindingsOf
  <2>3. \A w \in DOMAIN f \ {o.id} : w \in DOMAIN g /\ Of(g, w) = Of(f, w)
    BY <1>5
  <2>4. /\ o.id \in DOMAIN f => Of(f, o.id) = {}
        /\ o.id \in DOMAIN g => Of(g, o.id) = {}
    BY <1>6, <1>7
  <2> HIDE DEF Of
  <2>5. UNION {Of(g, w) : w \in DOMAIN g} = UNION {Of(f, w) : w \in DOMAIN f}
    BY <1>5, <2>3, <2>4
  <2> QED
    BY <2>1, <2>2, <2>5
<1> QED
  BY <1>2, <1>3, <1>8, TouchingSame

\* A change of a policy touches no device.
LEMMA OtherPolicy ==
  ASSUME NEW c, NEW s, NEW o, IsSnapshot(s), o.kind \in PolicyOps, Possible(c, s, o),
         NEW t, t = Changed(s, o), NEW d
  PROVE  Touching(t, d) = Touching(s, d)
<1>1. EntityKind(o) = "policy" /\ o.kind \in AllKinds
  BY KindsSplit DEF AllKinds
<1>2. t["device"] = s["device"] /\ t["config"] = s["config"] /\ t["link"] = s["link"]
        /\ t["route"] = s["route"] /\ t["workload"] = s["workload"]
  BY <1>1, SnapshotShaped, OtherKindsAfter DEF EntityKinds
<1>3. ConfigAt(t, d) = ConfigAt(s, d) /\ LinksAt(t, d) = LinksAt(s, d) /\ RoutesAt(t, d) = RoutesAt(s, d)
  BY <1>2 DEF ConfigAt, LinksAt, RoutesAt
<1> QED
  BY <1>2, <1>3, TouchingSame, BindingsDepend

\* Nothing that concerns a device changes while it is in an exclusion window.
THEOREM ExclusionsHold == Spec => ExclusionRespected
<1> DEFINE Kept == \A d \in DOMAIN fabric.device :
                     ("maintenance_exclusion" \in world.context.enforced
                        /\ ~ChangePermitted(world.context, fabric.device[d]))
                     => Touching(fabric', d) = Touching(fabric, d)
<1>1. ASSUME WalkInv, NEW o \in world.catalogue, Perform(o), NEW d \in DOMAIN fabric.device,
             "maintenance_exclusion" \in world.context.enforced,
             ~ChangePermitted(world.context, fabric.device[d])
      PROVE  Touching(fabric', d) = Touching(fabric, d)
  <2>1. PICK c, s, t : c = world.context /\ s = fabric /\ t = fabric'
    OBVIOUS
  <2>2. /\ IsSnapshot(s) /\ Possible(c, s, o) /\ t = Changed(s, o) /\ o.kind \in AllKinds
        /\ d \in DOMAIN s.device
    BY <1>1, <2>1, StepFacts DEF WalkInv
  <2>3. d \notin Subjects(s, o)
    BY <1>1, <2>1, StepFacts DEF Permitted
  <2>4. o.kind # "route_add"
    BY <1>1, StepFacts, RouteAddRefused
  <2>5. /\ o.kind = "route_set_path" =>
             o.new.source = s.route[o.id].source /\ o.new.sink = s.route[o.id].sink
        /\ o.kind = "link_set_capacity" => o.new.a = s.link[o.id].a /\ o.new.b = s.link[o.id].b
    <3>1. IsOperation(world.start, o) /\ RoutesKept(s, world.start) /\ LinksKept(s, world.start)
      BY <1>1, <2>1, StepFacts DEF WalkInv
    <3>2. o.kind = "route_set_path" => o.id \in DOMAIN s.route
      <4>1. ASSUME o.kind = "route_set_path" PROVE o.id \in DOMAIN s["route"]
        BY <2>2, <4>1, ChangedIsKnown, KindsSplit DEF AddOps, RouteOps
      <4> QED
        BY <4>1
    <3> QED
      BY <3>1, <3>2 DEF IsOperation, RoutesKept, LinksKept
  <2>6. Touching(t, d) = Touching(s, d)
    BY <2>2, <2>3, <2>4, <2>5, OtherDevice, OtherConfig, OtherLink, OtherRoute, OtherWorkload, OtherPolicy
       DEF AllKinds
  <2> QED
    BY <2>1, <2>6
<1>2. WalkInv /\ [Next]_vars => [Kept]_vars
  BY <1>1 DEF Next, vars
<1> QED
  BY <1>2, WalkInvariant, PTL DEF Spec, ExclusionRespected

-----------------------------------------------------------------------------
(* Undoing a step                                                          *)

\* What an operator sees of the entities of one kind.
Seen(kind, f) ==
  CASE kind \in {"device", "link"} -> [i \in {j \in DOMAIN f : f[j].state # "removed"} |-> f[i]]
    [] kind = "config" -> [i \in DOMAIN f |-> f[i].value]
    [] OTHER -> f

\* A snapshot is seen kind by kind.
LEMMA SeenByKind ==
  ASSUME NEW s, IsFunction(s), DOMAIN s = EntityKinds
  PROVE  Visible(s) = [kind \in EntityKinds |-> Seen(kind, s[kind])]
<1>1. PICK x, y, z : /\ x = [d \in {i \in DOMAIN s.device : s.device[i].state # "removed"} |-> s.device[d]]
                     /\ y = [l \in {i \in DOMAIN s.link : s.link[i].state # "removed"} |-> s.link[l]]
                     /\ z = [e \in DOMAIN s.config |-> s.config[e].value]
  OBVIOUS
<1>2. Visible(s) = [s EXCEPT !.device = x, !.link = y, !.config = z]
  BY <1>1, Zenon DEF Visible
<1>3. [s EXCEPT !.device = x, !.link = y, !.config = z] =
        [kind \in EntityKinds |-> IF kind = "device" THEN x ELSE IF kind = "link" THEN y
                                  ELSE IF kind = "config" THEN z ELSE s[kind]]
  BY DEF IsFunction, EntityKinds
<1>4. /\ Seen("device", s["device"]) = x /\ Seen("link", s["link"]) = y
      /\ Seen("config", s["config"]) = z
  BY <1>1 DEF Seen
<1>5. \A kind \in EntityKinds \ {"device", "link", "config"} : Seen(kind, s[kind]) = s[kind]
  BY DEF Seen
<1> QED
  BY <1>2, <1>3, <1>4, <1>5

\* Nothing is seen of a change of one entry that goes back, or was never seen.
LEMMA SameSeen ==
  ASSUME NEW kind, NEW f, NEW g, IsFunction(f), IsFunction(g), NEW i,
         \A j \in DOMAIN f \ {i} : j \in DOMAIN g /\ g[j] = f[j],
         DOMAIN g \subseteq DOMAIN f \cup {i},
         \/ i \in DOMAIN f /\ i \in DOMAIN g /\ g[i] = f[i]
         \/ i \notin DOMAIN f /\ i \notin DOMAIN g
         \/ i \notin DOMAIN f /\ kind \in {"device", "link"} /\ g[i].state = "removed"
         \/ i \in DOMAIN f /\ i \in DOMAIN g /\ kind = "config" /\ g[i].value = f[i].value
  PROVE  Seen(kind, g) = Seen(kind, f)
<1>1. CASE kind \in {"device", "link"}
  <2>1. {j \in DOMAIN g : g[j].state # "removed"} = {j \in DOMAIN f : f[j].state # "removed"}
    BY <1>1
  <2>2. \A j \in {k \in DOMAIN f : f[k].state # "removed"} : g[j] = f[j]
    BY <1>1
  <2> QED
    BY <1>1, <2>1, <2>2 DEF Seen
<1>2. CASE kind = "config"
  <2>1. DOMAIN g = DOMAIN f /\ \A j \in DOMAIN f : g[j].value = f[j].value
    BY <1>2
  <2> QED
    BY <1>2, <2>1 DEF Seen
<1>3. CASE kind \notin {"device", "link", "config"}
  <2>1. DOMAIN g = DOMAIN f /\ \A j \in DOMAIN f : g[j] = f[j]
    BY <1>3
  <2>2. g = f
    BY <2>1 DEF IsFunction
  <2> QED
    BY <2>2
<1> QED
  BY <1>1, <1>2, <1>3

\* What the undoing operation u leaves under the identity i, compared with the
\* snapshot s before both steps.
PutBack(s, t, u, kind, i) ==
  \/ i \notin DOMAIN s[kind] /\ u.kind \in EraseOps
  \/ i \notin DOMAIN s[kind] /\ kind \in {"device", "link"} /\ u.kind \notin EraseOps
       /\ EntryAfter(t, u).state = "removed"
  \/ i \in DOMAIN s[kind] /\ u.kind \notin EraseOps /\ EntryAfter(t, u) = s[kind][i]
  \/ i \in DOMAIN s[kind] /\ u.kind \notin EraseOps /\ kind = "config"
       /\ EntryAfter(t, u).value = s[kind][i].value

\* Two operations on one identity, the second of which puts it back.
LEMMA ThereAndBack ==
  ASSUME NEW c, NEW s, NEW start, NEW o, IsSnapshot(s), IsOperation(start, o), Possible(c, s, o),
         NEW t, t = Changed(s, o), NEW kind, kind = EntityKind(o),
         NEW u, u.kind \in AllKinds, EntityKind(u) = kind, u.id = o.id, Possible(c, t, u),
         NEW v, v = Changed(t, u), PutBack(s, t, u, kind, o.id)
  PROVE  Visible(v) = Visible(s)
<1>1. o.kind \in AllKinds /\ kind \in EntityKinds
  BY KindsSplit DEF IsOperation, AllKinds
<1>2. IsSnapshot(t)
  BY SnapshotKept
<1>3. PICK f, g, h, i : f = s[kind] /\ g = t[kind] /\ h = v[kind] /\ i = o.id
  OBVIOUS
<1>4. /\ \A j \in DOMAIN f \ {i} : j \in DOMAIN g /\ g[j] = f[j]
      /\ DOMAIN g \subseteq DOMAIN f \cup {i}
  BY <1>1, <1>3, SnapshotShaped, OwnKindAfter
<1>5. /\ \A j \in DOMAIN g \ {i} : j \in DOMAIN h /\ h[j] = g[j]
      /\ DOMAIN h \subseteq DOMAIN g \cup {i}
      /\ u.kind \in EraseOps => i \notin DOMAIN h
      /\ u.kind \notin EraseOps => i \in DOMAIN h /\ h[i] = EntryAfter(t, u)
  BY <1>2, <1>3, SnapshotShaped, OwnKindAfter
<1>6. /\ \A j \in DOMAIN f \ {i} : j \in DOMAIN h /\ h[j] = f[j]
      /\ DOMAIN h \subseteq DOMAIN f \cup {i}
  BY <1>4, <1>5
<1>7. Replaced(s, t, kind, OwnAfter(s, o)) /\ Replaced(t, v, kind, OwnAfter(t, u))
  BY <1>1, <1>2, SnapshotShaped, OneKindChanged
<1>8. IsFunction(f) /\ IsFunction(h)
  <2>1. IsFunction(f)
    BY <1>1, <1>3 DEF IsSnapshot, AreEntities
  <2>2. h = OwnAfter(t, u)
    BY <1>3, <1>7 DEF Replaced
  <2>3. IsFunction(OwnAfter(t, u))
    BY WithGives, WithoutGives DEF OwnAfter
  <2> QED
    BY <2>1, <2>2, <2>3
<1>9. Seen(kind, h) = Seen(kind, f)
  <2>1. \/ i \in DOMAIN f /\ i \in DOMAIN h /\ h[i] = f[i]
        \/ i \notin DOMAIN f /\ i \notin DOMAIN h
        \/ i \notin DOMAIN f /\ kind \in {"device", "link"} /\ h[i].state = "removed"
        \/ i \in DOMAIN f /\ i \in DOMAIN h /\ kind = "config" /\ h[i].value = f[i].value
    BY <1>3, <1>5 DEF PutBack
  <2> QED
    BY <1>6, <1>8, <2>1, SameSeen
<1>10. /\ IsFunction(s) /\ DOMAIN s = EntityKinds /\ IsFunction(v) /\ DOMAIN v = EntityKinds
       /\ \A k \in EntityKinds \ {kind} : v[k] = s[k]
  BY <1>7 DEF Replaced, IsSnapshot
<1>11. \A k \in EntityKinds : Seen(k, v[k]) = Seen(k, s[k])
  BY <1>3, <1>9, <1>10
<1> QED
  BY <1>10, <1>11, SeenByKind

\* The inverse recorded for an operation that creates something.
LEMMA Withdrawn ==
  ASSUME NEW s, NEW o, NEW u, u \in Compensation(s, o),
         o.kind \in AddOps \/ (o.kind \in {"policy_bind", "config_set"} /\ ~Known(s, Written(o)))
  PROVE  u.kind = Withdrawal(o.kind) /\ u.id = o.id
  BY DEF Compensation, Bare

\* The inverse recorded for an operation that finds something carries what it finds.
LEMMA Restored ==
  ASSUME NEW s, NEW o, NEW u, u \in Compensation(s, o),
         o.kind \notin AddOps, Known(s, Written(o))
  PROVE  u.kind = UndoKind(o.kind) /\ u.id = o.id /\ u.new = s[EntityKind(o)][o.id]
  BY DEF Compensation, Carrying

\* An operation that adds something finds nothing there.
LEMMA AddedIsNew ==
  ASSUME NEW c, NEW s, NEW o, o.kind \in AddOps, Possible(c, s, o)
  PROVE  o.id \notin DOMAIN s[EntityKind(o)]
  BY DEF Possible, Known, Written

\* What is created is dropped, or left as a tombstone.
LEMMA CreationUndone ==
  ASSUME NEW c, NEW s, NEW start, NEW o, IsSnapshot(s), IsOperation(start, o),
         AllSatisfied(c, s, Preconditions(s, o)), Possible(c, s, o),
         NEW t, t = Changed(s, o), NEW u \in Compensation(s, o),
         AllSatisfied(c, t, Preconditions(t, u)), Possible(c, t, u),
         NEW kind, kind = EntityKind(o),
         o.kind \in AddOps \/ (o.kind \in {"policy_bind", "config_set"} /\ ~Known(s, Written(o)))
  PROVE  /\ u.kind \in AllKinds /\ EntityKind(u) = kind /\ u.id = o.id
         /\ PutBack(s, t, u, kind, o.id)
<1>1. u.kind = Withdrawal(o.kind) /\ u.id = o.id
  BY Withdrawn
<1>2. o.id \notin DOMAIN s[kind]
  BY AddedIsNew DEF Known, Written
<1>3. o.kind # "route_add"
  BY RouteAddRefused
<1>4. CASE o.kind \in {"workload_add", "policy_bind", "config_set"}
  <2>1. u.kind = IF o.kind = "workload_add" THEN "workload_remove"
                 ELSE IF o.kind = "policy_bind" THEN "policy_unbind" ELSE "config_clear"
    BY <1>1, <1>4 DEF Withdrawal
  <2>2. u.kind \in EraseOps
    BY <2>1 DEF EraseOps
  <2>3. u.kind \in AllKinds /\ EntityKind(u) = kind
    BY <1>4, <2>1, KindsSplit DEF AllKinds, WorkloadOps, PolicyOps, ConfigOps
  <2> QED
    BY <1>1, <1>2, <2>2, <2>3 DEF PutBack
<1>5. CASE o.kind \in {"device_add", "link_add"}
  <2>1. u.kind = IF o.kind = "device_add" THEN "device_remove" ELSE "link_remove"
    BY <1>1, <1>5 DEF Withdrawal
  <2>2. /\ u.kind \notin EraseOps \cup AddOps \cup {"policy_bind", "config_set"}
        /\ u.kind \in AllKinds /\ EntityKind(u) = kind /\ kind \in {"device", "link"}
    BY <1>5, <2>1, KindsSplit DEF AllKinds, DeviceOps, LinkOps, EraseOps, AddOps
  <2>3. IsSnapshot(t)
    BY SnapshotKept
  <2>4. PICK e : e = t[kind][o.id] /\ IsEntity(kind, e)
    <3>1. u.id \in DOMAIN t[EntityKind(u)]
      BY <2>2, ChangedIsKnown
    <3> QED
      BY <1>1, <2>2, <2>3, <3>1 DEF IsSnapshot, AreEntities, EntityKinds
  <2>5. EntryAfter(t, u) = [e EXCEPT !.state = "removed"]
    BY <1>1, <1>5, <2>1, <2>2, <2>4, KindsSplit
       DEF EntryAfter, StateAfter, EraseOps, WindowOps, MaintenanceOps, DeviceOps, LinkOps
  <2>6. "state" \in DOMAIN e
    BY <2>2, <2>4 DEF IsEntity
  <2>7. EntryAfter(t, u).state = "removed"
    BY <2>5, <2>6
  <2> QED
    BY <1>1, <1>2, <2>2, <2>7 DEF PutBack
<1> QED
  BY <1>3, <1>4, <1>5 DEF AddOps

\* What was taken out of service for good is not brought back: the operation
\* that would is never accepted.
LEMMA RemovalStays ==
  ASSUME NEW c, NEW s, NEW start, NEW o, IsSnapshot(s), IsOperation(start, o),
         AllSatisfied(c, s, Preconditions(s, o)), Possible(c, s, o),
         NEW t, t = Changed(s, o), NEW u \in Compensation(s, o),
         AllSatisfied(c, t, Preconditions(t, u)), Possible(c, t, u),
         NEW kind, kind = EntityKind(o),
         o.kind \in {"device_remove", "link_remove", "route_remove"}
  PROVE  FALSE
<1>1. /\ kind \in {"device", "link", "route"} /\ o.kind \in AllKinds
      /\ o.kind \notin AddOps \cup {"policy_bind", "config_set"}
      /\ o.kind # "route_remove" => o.kind \notin EraseOps
  BY KindsSplit DEF AllKinds, DeviceOps, LinkOps, RouteOps, AddOps, EraseOps
<1>2. Known(s, Written(o))
  BY <1>1, ChangedIsKnown DEF Known, Written
<1>3. u.kind = UndoKind(o.kind) /\ u.id = o.id
  BY <1>1, <1>2, Restored
<1>4. u.kind = IF o.kind = "device_remove" THEN "device_add"
               ELSE IF o.kind = "link_remove" THEN "link_add" ELSE "route_add"
  BY <1>3 DEF UndoKind, MaintenanceOps
<1>5. o.kind # "route_remove"
  BY <1>4, RouteAddRefused
<1>6. EntityKind(u) = kind /\ u.kind \in AddOps
  BY <1>4, <1>5, KindsSplit DEF DeviceOps, LinkOps, AddOps
<1>7. o.id \in DOMAIN t[kind]
  BY <1>1, <1>5, SnapshotShaped, OwnKindAfter
<1> QED
  BY <1>3, <1>6, <1>7, AddedIsNew

\* Workloads and policies are put back as they were, configuration with its value.
LEMMA ErasureUndone ==
  ASSUME NEW c, NEW s, NEW start, NEW o, IsSnapshot(s), IsOperation(start, o),
         AllSatisfied(c, s, Preconditions(s, o)), Possible(c, s, o),
         NEW t, t = Changed(s, o), NEW u \in Compensation(s, o),
         AllSatisfied(c, t, Preconditions(t, u)), Possible(c, t, u),
         NEW kind, kind = EntityKind(o),
         \/ o.kind \in {"workload_remove", "policy_unbind", "config_clear"}
         \/ o.kind \in {"policy_bind", "config_set"} /\ Known(s, Written(o))
  PROVE  /\ u.kind \in AllKinds /\ EntityKind(u) = kind /\ u.id = o.id
         /\ PutBack(s, t, u, kind, o.id)
<1>1. o.kind \in AllKinds /\ o.kind \notin AddOps
  BY DEF AllKinds, WorkloadOps, PolicyOps, ConfigOps, AddOps
<1>2. Known(s, Written(o)) /\ o.id \in DOMAIN s[kind]
  BY <1>1, ChangedIsKnown DEF Known, Written
<1>3. u.kind = UndoKind(o.kind) /\ u.id = o.id /\ u.new = s[kind][o.id]
  BY <1>1, <1>2, Restored
<1>4. u.kind = IF o.kind = "workload_remove" THEN "workload_add"
               ELSE IF o.kind \in PolicyOps THEN "policy_bind" ELSE "config_set"
  BY <1>3 DEF UndoKind, MaintenanceOps, PolicyOps
<1>5. u.kind \in AllKinds \ EraseOps /\ EntityKind(u) = kind
  BY <1>4, KindsSplit DEF AllKinds, WorkloadOps, PolicyOps, ConfigOps, EraseOps
<1>6. CASE u.kind = "config_set"
  <2>1. kind = "config"
    BY <1>5, <1>6, KindsSplit DEF ConfigOps
  <2>2. EntryAfter(t, u) =
          [value |-> u.new.value,
           revision |-> IF Known(t, Written(u)) THEN t.config[u.id].revision + 1 ELSE 0]
    BY <1>6 DEF EntryAfter, EraseOps, WindowOps, MaintenanceOps
  <2>3. EntryAfter(t, u).value = s[kind][o.id].value
    BY <1>3, <2>2
  <2> QED
    BY <1>2, <1>3, <1>5, <2>1, <2>3 DEF PutBack
<1>7. CASE u.kind \in {"workload_add", "policy_bind"}
  <2>1. EntryAfter(t, u) = u.new
    BY <1>7 DEF EntryAfter, EraseOps, WindowOps, MaintenanceOps
  <2> QED
    BY <1>2, <1>3, <1>5, <2>1 DEF PutBack
<1> QED
  BY <1>4, <1>6, <1>7

\* The operations that edit an entry in place, or mark it as removed.
EditOps == AllKinds \ (AddOps \cup EraseOps \cup {"policy_bind", "config_set"})

\* What such an operation makes of its entry, and what its inverse carries.
LEMMA EditFacts ==
  ASSUME NEW c, NEW s, NEW o, IsSnapshot(s), o.kind \in EditOps, Possible(c, s, o),
         NEW u \in Compensation(s, o), NEW kind, kind = EntityKind(o)
  PROVE  /\ o.id \in DOMAIN s[kind] /\ IsEntity(kind, s[kind][o.id])
         /\ Changed(s, o)[kind][o.id] = EntryAfter(s, o)
         /\ u.kind = UndoKind(o.kind) /\ u.id = o.id /\ u.new = s[kind][o.id]
<1>0. o.kind \in AllKinds /\ o.kind \notin AddOps \cup EraseOps \cup {"policy_bind", "config_set"}
  BY DEF EditOps
<1>1. kind \in EntityKinds
  BY <1>0, KindsSplit
<1>2. o.id \in DOMAIN s[kind]
  BY <1>0, <1>1, ChangedIsKnown
<1>3. IsEntity(kind, s[kind][o.id])
  BY <1>1, <1>2 DEF IsSnapshot, AreEntities
<1>4. Changed(s, o)[kind][o.id] = EntryAfter(s, o)
  BY <1>0, <1>1, SnapshotShaped, OwnKindAfter
<1>5. Known(s, Written(o))
  BY <1>2 DEF Known, Written
<1> QED
  BY <1>0, <1>2, <1>3, <1>4, <1>5, Restored

\* An edited device is given back its fields, ...
LEMMA DeviceEditUndone ==
  ASSUME NEW c, NEW s, NEW start, NEW o, IsSnapshot(s), IsOperation(start, o),
         AllSatisfied(c, s, Preconditions(s, o)), Possible(c, s, o),
         NEW t, t = Changed(s, o), NEW u \in Compensation(s, o),
         AllSatisfied(c, t, Preconditions(t, u)), Possible(c, t, u),
         NEW kind, kind = EntityKind(o),
         o.kind \in DeviceOps \ {"device_add", "device_remove"}
  PROVE  /\ u.kind \in AllKinds /\ EntityKind(u) = kind /\ u.id = o.id
         /\ PutBack(s, t, u, kind, o.id)
<1>0. o.kind \in EditOps
  BY DEF EditOps, AllKinds, DeviceOps, MaintenanceOps, AddOps, EraseOps
<1>1. kind = "device"
  BY KindsSplit DEF DeviceOps, MaintenanceOps
<1>2. PICK e, f : /\ e = s.device[o.id] /\ f = t.device[o.id]
                  /\ IsEntity("device", e) /\ f = EntryAfter(s, o) /\ o.id \in DOMAIN s.device
  <2>1. /\ o.id \in DOMAIN s[kind] /\ IsEntity(kind, s[kind][o.id])
        /\ t[kind][o.id] = EntryAfter(s, o)
    BY <1>0, EditFacts
  <2> QED
    BY <1>1, <2>1
<1>3. u.kind = UndoKind(o.kind) /\ u.id = o.id /\ u.new = e
  <2>1. u.kind = UndoKind(o.kind) /\ u.id = o.id /\ u.new = s[kind][o.id]
    BY <1>0, EditFacts
  <2> QED
    BY <1>1, <1>2, <2>1
<1>4. ASSUME EntryAfter(t, u) = e, u.kind \in {"device_set_capacity", "device_set_state", "device_set_windows"}
      PROVE  /\ u.kind \in AllKinds /\ EntityKind(u) = kind /\ u.id = o.id
             /\ PutBack(s, t, u, kind, o.id)
  <2>1. u.kind \in DeviceOps \ EraseOps
    BY <1>4 DEF DeviceOps, MaintenanceOps, EraseOps
  <2>2. EntityKind(u) = kind /\ u.kind \in AllKinds
    BY <1>1, <2>1, KindsSplit DEF AllKinds
  <2> QED
    BY <1>1, <1>2, <1>3, <1>4, <2>1, <2>2 DEF PutBack
<1>5. CASE o.kind = "device_set_capacity"
  <2>1. PICK x : f = [e EXCEPT !.cap = x]
    <3>1. EntryAfter(s, o) = [s.device[o.id] EXCEPT !.cap = o.new.cap]
      BY <1>5 DEF EntryAfter, EraseOps, WindowOps, MaintenanceOps
    <3> QED
      BY <1>2, <3>1
  <2>2. u.kind = "device_set_capacity"
    BY <1>3, <1>5 DEF UndoKind, MaintenanceOps
  <2>3. EntryAfter(t, u) = [f EXCEPT !.cap = e.cap]
    <3>1. EntryAfter(t, u) = [t.device[u.id] EXCEPT !.cap = u.new.cap]
      BY <2>2 DEF EntryAfter, EraseOps, WindowOps, MaintenanceOps
    <3> QED
      BY <1>2, <1>3, <3>1
  <2>4. EntryAfter(t, u) = e
    BY <1>2, <2>1, <2>3 DEF IsEntity, IsFunction
  <2> QED
    BY <1>4, <2>2, <2>4
<1>6. CASE o.kind \in MaintenanceOps \cup {"device_set_state"}
  <2>1. PICK x : f = [e EXCEPT !.state = x]
    <3>1. EntryAfter(s, o) = [s.device[o.id] EXCEPT !.state = StateAfter(o)]
      BY <1>6 DEF EntryAfter, EraseOps, WindowOps, MaintenanceOps
    <3> QED
      BY <1>2, <3>1
  <2>2. u.kind = "device_set_state"
    BY <1>3, <1>6 DEF UndoKind, MaintenanceOps
  <2>3. EntryAfter(t, u) = [f EXCEPT !.state = e.state]
    <3>1. EntryAfter(t, u) = [t.device[u.id] EXCEPT !.state = u.new.state]
      BY <2>2 DEF EntryAfter, EraseOps, WindowOps, MaintenanceOps, StateAfter
    <3> QED
      BY <1>2, <1>3, <3>1
  <2>4. EntryAfter(t, u) = e
    BY <1>2, <2>1, <2>3 DEF IsEntity, IsFunction
  <2> QED
    BY <1>4, <2>2, <2>4
<1>7. CASE o.kind = "device_set_windows"
  <2>1. PICK x, y : f = [e EXCEPT !.excl = x, !.maint = y]
    <3>1. PICK x, y : x = o.new.excl /\ y = o.new.maint
      OBVIOUS
    <3>2. EntryAfter(s, o) = [s.device[o.id] EXCEPT !.excl = o.new.excl, !.maint = o.new.maint]
      BY <1>7 DEF EntryAfter, EraseOps, WindowOps, MaintenanceOps
    <3>3. f = [e EXCEPT !.excl = x, !.maint = y]
      BY <1>2, <3>1, <3>2
    <3> QED
      BY <3>3
  <2>2. u.kind = "device_set_windows"
    BY <1>3, <1>7 DEF UndoKind, MaintenanceOps
  <2>3. EntryAfter(t, u) = [f EXCEPT !.excl = e.excl, !.maint = e.maint]
    <3>1. EntryAfter(t, u) = [t.device[u.id] EXCEPT !.excl = u.new.excl, !.maint = u.new.maint]
      BY <2>2 DEF EntryAfter, EraseOps, WindowOps, MaintenanceOps
    <3> QED
      BY <1>2, <1>3, <3>1
  <2>4. EntryAfter(t, u) = e
    <3>1. /\ e = [i \in DOMAIN e |-> e[i]] /\ DOMAIN f = DOMAIN e
          /\ \A i \in DOMAIN e \ {"excl", "maint"} : f[i] = e[i]
      BY <1>2, <2>1 DEF IsEntity, IsFunction
    <3> QED
      BY <2>3, <3>1
  <2> QED
    BY <1>4, <2>2, <2>4
<1> QED
  BY <1>5, <1>6, <1>7 DEF DeviceOps, MaintenanceOps

\* ... so is an edited workload, ...
LEMMA WorkloadEditUndone ==
  ASSUME NEW c, NEW s, NEW start, NEW o, IsSnapshot(s), IsOperation(start, o),
         AllSatisfied(c, s, Preconditions(s, o)), Possible(c, s, o),
         NEW t, t = Changed(s, o), NEW u \in Compensation(s, o),
         AllSatisfied(c, t, Preconditions(t, u)), Possible(c, t, u),
         NEW kind, kind = EntityKind(o),
         o.kind \in {"workload_set_bindings", "workload_set_requirements"}
  PROVE  /\ u.kind \in AllKinds /\ EntityKind(u) = kind /\ u.id = o.id
         /\ PutBack(s, t, u, kind, o.id)
<1>0. o.kind \in EditOps
  BY DEF EditOps, AllKinds, WorkloadOps, MaintenanceOps, AddOps, EraseOps
<1>1. kind = "workload"
  BY KindsSplit DEF WorkloadOps, MaintenanceOps
<1>2. PICK e, f : /\ e = s.workload[o.id] /\ f = t.workload[o.id]
                  /\ IsEntity("workload", e) /\ f = EntryAfter(s, o) /\ o.id \in DOMAIN s.workload
  <2>1. /\ o.id \in DOMAIN s[kind] /\ IsEntity(kind, s[kind][o.id])
        /\ t[kind][o.id] = EntryAfter(s, o)
    BY <1>0, EditFacts
  <2> QED
    BY <1>1, <2>1
<1>3. u.kind = UndoKind(o.kind) /\ u.id = o.id /\ u.new = e
  <2>1. u.kind = UndoKind(o.kind) /\ u.id = o.id /\ u.new = s[kind][o.id]
    BY <1>0, EditFacts
  <2> QED
    BY <1>1, <1>2, <2>1
<1>4. ASSUME EntryAfter(t, u) = e, u.kind \in {"workload_set_bindings", "workload_set_requirements"}
      PROVE  /\ u.kind \in AllKinds /\ EntityKind(u) = kind /\ u.id = o.id
             /\ PutBack(s, t, u, kind, o.id)
  <2>1. u.kind \in WorkloadOps \ EraseOps
    BY <1>4 DEF WorkloadOps, MaintenanceOps, EraseOps
  <2>2. EntityKind(u) = kind /\ u.kind \in AllKinds
    BY <1>1, <2>1, KindsSplit DEF AllKinds
  <2> QED
    BY <1>1, <1>2, <1>3, <1>4, <2>1, <2>2 DEF PutBack
<1>5. CASE o.kind = "workload_set_bindings"
  <2>1. PICK x : f = [e EXCEPT !.bind = x]
    <3>1. EntryAfter(s, o) = [s.workload[o.id] EXCEPT !.bind = o.new.bind]
      BY <1>5 DEF EntryAfter, EraseOps, WindowOps, MaintenanceOps
    <3> QED
      BY <1>2, <3>1
  <2>2. u.kind = "workload_set_bindings"
    BY <1>3, <1>5 DEF UndoKind, MaintenanceOps
  <2>3. EntryAfter(t, u) = [f EXCEPT !.bind = e.bind]
    <3>1. EntryAfter(t, u) = [t.workload[u.id] EXCEPT !.bind = u.new.bind]
      BY <2>2 DEF EntryAfter, EraseOps, WindowOps, MaintenanceOps
    <3> QED
      BY <1>2, <1>3, <3>1
  <2>4. EntryAfter(t, u) = e
    BY <1>2, <2>1, <2>3 DEF IsEntity, IsFunction
  <2> QED
    BY <1>4, <2>2, <2>4
<1>6. CASE o.kind = "workload_set_requirements"
  <2>1. PICK x : f = [e EXCEPT !.req = x]
    <3>1. EntryAfter(s, o) = [s.workload[o.id] EXCEPT !.req = o.new.req]
      BY <1>6 DEF EntryAfter, EraseOps, WindowOps, MaintenanceOps
    <3> QED
      BY <1>2, <3>1
  <2>2. u.kind = "workload_set_requirements"
    BY <1>3, <1>6 DEF UndoKind, MaintenanceOps
  <2>3. EntryAfter(t, u) = [f EXCEPT !.req = e.req]
    <3>1. EntryAfter(t, u) = [t.workload[u.id] EXCEPT !.req = u.new.req]
      BY <2>2 DEF EntryAfter, EraseOps, WindowOps, MaintenanceOps
    <3> QED
      BY <1>2, <1>3, <3>1
  <2>4. EntryAfter(t, u) = e
    BY <1>2, <2>1, <2>3 DEF IsEntity, IsFunction
  <2> QED
    BY <1>4, <2>2, <2>4
<1> QED
  BY <1>5, <1>6

\* ... and a link its capacity; ...
LEMMA LinkEditUndone ==
  ASSUME NEW c, NEW s, NEW start, NEW o, IsSnapshot(s), IsOperation(start, o),
         AllSatisfied(c, s, Preconditions(s, o)), Possible(c, s, o),
         NEW t, t = Changed(s, o), NEW u \in Compensation(s, o),
         AllSatisfied(c, t, Preconditions(t, u)), Possible(c, t, u),
         NEW kind, kind = EntityKind(o),
         o.kind = "link_set_capacity"
  PROVE  /\ u.kind \in AllKinds /\ EntityKind(u) = kind /\ u.id = o.id
         /\ PutBack(s, t, u, kind, o.id)
<1>0. o.kind \in EditOps
  BY DEF EditOps, AllKinds, LinkOps, MaintenanceOps, AddOps, EraseOps
<1>1. kind = "link"
  BY KindsSplit DEF LinkOps, MaintenanceOps
<1>2. PICK e, f : /\ e = s.link[o.id] /\ f = t.link[o.id]
                  /\ IsEntity("link", e) /\ f = EntryAfter(s, o) /\ o.id \in DOMAIN s.link
  <2>1. /\ o.id \in DOMAIN s[kind] /\ IsEntity(kind, s[kind][o.id])
        /\ t[kind][o.id] = EntryAfter(s, o)
    BY <1>0, EditFacts
  <2> QED
    BY <1>1, <2>1
<1>3. u.kind = UndoKind(o.kind) /\ u.id = o.id /\ u.new = e
  <2>1. u.kind = UndoKind(o.kind) /\ u.id = o.id /\ u.new = s[kind][o.id]
    BY <1>0, EditFacts
  <2> QED
    BY <1>1, <1>2, <2>1
<1>4. ASSUME EntryAfter(t, u) = e, u.kind \in {"link_set_capacity"}
      PROVE  /\ u.kind \in AllKinds /\ EntityKind(u) = kind /\ u.id = o.id
             /\ PutBack(s, t, u, kind, o.id)
  <2>1. u.kind \in LinkOps \ EraseOps
    BY <1>4 DEF LinkOps, MaintenanceOps, EraseOps
  <2>2. EntityKind(u) = kind /\ u.kind \in AllKinds
    BY <1>1, <2>1, KindsSplit DEF AllKinds
  <2> QED
    BY <1>1, <1>2, <1>3, <1>4, <2>1, <2>2 DEF PutBack
<1>5. CASE o.kind = "link_set_capacity"
  <2>1. PICK x : f = [e EXCEPT !.cap = x]
    <3>1. EntryAfter(s, o) = [s.link[o.id] EXCEPT !.cap = o.new.cap]
      BY <1>5 DEF EntryAfter, EraseOps, WindowOps, MaintenanceOps
    <3> QED
      BY <1>2, <3>1
  <2>2. u.kind = "link_set_capacity"
    BY <1>3, <1>5 DEF UndoKind, MaintenanceOps
  <2>3. EntryAfter(t, u) = [f EXCEPT !.cap = e.cap]
    <3>1. EntryAfter(t, u) = [t.link[u.id] EXCEPT !.cap = u.new.cap]
      BY <2>2 DEF EntryAfter, EraseOps, WindowOps, MaintenanceOps
    <3> QED
      BY <1>2, <1>3, <3>1
  <2>4. EntryAfter(t, u) = e
    BY <1>2, <2>1, <2>3 DEF IsEntity, IsFunction
  <2> QED
    BY <1>4, <2>2, <2>4
<1> QED
  BY <1>5

\* ... and a route goes back to its path.
LEMMA RoutePathUndone ==
  ASSUME NEW c, NEW s, NEW start, NEW o, IsSnapshot(s), IsOperation(start, o),
         AllSatisfied(c, s, Preconditions(s, o)), Possible(c, s, o),
         NEW t, t = Changed(s, o), NEW u \in Compensation(s, o),
         AllSatisfied(c, t, Preconditions(t, u)), Possible(c, t, u),
         NEW kind, kind = EntityKind(o),
         o.kind = "route_set_path"
  PROVE  /\ u.kind \in AllKinds /\ EntityKind(u) = kind /\ u.id = o.id
         /\ PutBack(s, t, u, kind, o.id)
<1>0. o.kind \in EditOps
  BY DEF EditOps, AllKinds, RouteOps, MaintenanceOps, AddOps, EraseOps
<1>1. kind = "route"
  BY KindsSplit DEF RouteOps, MaintenanceOps
<1>2. PICK e, f : /\ e = s.route[o.id] /\ f = t.route[o.id]
                  /\ IsEntity("route", e) /\ f = EntryAfter(s, o) /\ o.id \in DOMAIN s.route
  <2>1. /\ o.id \in DOMAIN s[kind] /\ IsEntity(kind, s[kind][o.id])
        /\ t[kind][o.id] = EntryAfter(s, o)
    BY <1>0, EditFacts
  <2> QED
    BY <1>1, <2>1
<1>3. u.kind = UndoKind(o.kind) /\ u.id = o.id /\ u.new = e
  <2>1. u.kind = UndoKind(o.kind) /\ u.id = o.id /\ u.new = s[kind][o.id]
    BY <1>0, EditFacts
  <2> QED
    BY <1>1, <1>2, <2>1
<1>4. ASSUME EntryAfter(t, u) = e, u.kind \in {"route_set_path"}
      PROVE  /\ u.kind \in AllKinds /\ EntityKind(u) = kind /\ u.id = o.id
             /\ PutBack(s, t, u, kind, o.id)
  <2>1. u.kind \in RouteOps \ EraseOps
    BY <1>4 DEF RouteOps, MaintenanceOps, EraseOps
  <2>2. EntityKind(u) = kind /\ u.kind \in AllKinds
    BY <1>1, <2>1, KindsSplit DEF AllKinds
  <2> QED
    BY <1>1, <1>2, <1>3, <1>4, <2>1, <2>2 DEF PutBack
<1>5. u.kind = "route_set_path"
  BY <1>3 DEF UndoKind, MaintenanceOps
<1>6. f = [source |-> o.new.source, sink |-> o.new.sink, path |-> o.new.path,
           policy |-> o.new.policy, state |-> e.state]
  BY <1>2 DEF EntryAfter, EraseOps, WindowOps, MaintenanceOps
<1>7. EntryAfter(t, u) = [source |-> e.source, sink |-> e.sink, path |-> e.path,
                          policy |-> e.policy, state |-> f.state]
  BY <1>2, <1>3, <1>5 DEF EntryAfter, EraseOps, WindowOps, MaintenanceOps
<1>8. EntryAfter(t, u) = e
  BY <1>2, <1>6, <1>7 DEF IsEntity
<1> QED
  BY <1>4, <1>5, <1>8

\* A step that is undone right away by the inverse recorded for it leaves no
\* trace an operator sees.
THEOREM CompensationUndone == Spec => []CompensationUndoes
<1>1. ASSUME WalkInv, NEW o \in world.catalogue, o.kind # "route_set_state", Accepted(fabric, o),
             NEW u \in Compensation(fabric, o), Accepted(Changed(fabric, o), u)
      PROVE  Visible(Changed(Changed(fabric, o), u)) = Visible(fabric)
  <2>1. PICK c, s, t, start, kind : /\ c = world.context /\ s = fabric /\ t = Changed(s, o)
                                    /\ start = world.start /\ kind = EntityKind(o)
    OBVIOUS
  <2>2. /\ IsSnapshot(s) /\ IsOperation(start, o) /\ o.kind \in AllKinds
        /\ AllSatisfied(c, s, Preconditions(s, o)) /\ Possible(c, s, o)
    BY <1>1, <2>1, AcceptedFacts DEF WalkInv
  <2>3. /\ u \in Compensation(s, o)
        /\ AllSatisfied(c, t, Preconditions(t, u)) /\ Possible(c, t, u)
    BY <1>1, <2>1 DEF Accepted, Applies
  <2>4. /\ u.kind \in AllKinds /\ EntityKind(u) = kind /\ u.id = o.id
        /\ PutBack(s, t, u, kind, o.id)
    <3>1. CASE o.kind \in AddOps \/ (o.kind \in {"policy_bind", "config_set"} /\ ~Known(s, Written(o)))
      BY <2>1, <2>2, <2>3, <3>1, CreationUndone
    <3>2. CASE o.kind \in {"device_remove", "link_remove", "route_remove"}
      BY <2>1, <2>2, <2>3, <3>2, RemovalStays
    <3>3. CASE \/ o.kind \in {"workload_remove", "policy_unbind", "config_clear"}
               \/ o.kind \in {"policy_bind", "config_set"} /\ Known(s, Written(o))
      BY <2>1, <2>2, <2>3, <3>3, ErasureUndone
    <3>4. CASE o.kind \in DeviceOps \ {"device_add", "device_remove"}
      BY <2>1, <2>2, <2>3, <3>4, DeviceEditUndone
    <3>5. CASE o.kind \in {"workload_set_bindings", "workload_set_requirements"}
      BY <2>1, <2>2, <2>3, <3>5, WorkloadEditUndone
    <3>6. CASE o.kind = "link_set_capacity"
      BY <2>1, <2>2, <2>3, <3>6, LinkEditUndone
    <3>7. CASE o.kind = "route_set_path"
      BY <2>1, <2>2, <2>3, <3>7, RoutePathUndone
    <3> QED
      BY <1>1, <2>2, <3>1, <3>2, <3>3, <3>4, <3>5, <3>6, <3>7
         DEF AllKinds, DeviceOps, LinkOps, RouteOps, WorkloadOps, PolicyOps, ConfigOps, AddOps
  <2>5. Visible(Changed(t, u)) = Visible(s)
    BY <2>1, <2>2, <2>3, <2>4, ThereAndBack
  <2> QED
    BY <2>1, <2>5
<1>2. WalkInv => CompensationUndoes
  BY <1>1 DEF CompensationUndoes
<1> QED
  BY <1>2, WalkInvariant, PTL

-----------------------------------------------------------------------------
(* Steps without an edge between them                                      *)

\* Two different operations of a catalogue without an edge do not conflict.
LEMMA UnorderedAgree ==
  ASSUME NEW s, NEW o, NEW p, Before(o, p) \/ Before(p, o), ~Precedes(s, o, p), ~Precedes(s, p, o)
  PROVE  Written(o) # Written(p) \/ IndependentUpdates(o, p)
<1>1. ~Prerequisite(s, o, p) /\ ~Prerequisite(s, p, o)
  BY DEF Precedes
<1>2. ~Conflicting(s, o, p) \/ ~Conflicting(s, p, o)
  BY <1>1 DEF Precedes
<1>3. IndependentUpdates(p, o) => IndependentUpdates(o, p)
  BY DEF IndependentUpdates
<1> QED
  BY <1>2, <1>3 DEF Conflicting

\* What an operation leaves behind depends on the entry it finds, and on nothing else.
LEMMA EntryDepends ==
  ASSUME NEW s, NEW u, NEW o, o.kind \in AllKinds \ EraseOps, NEW kind, kind = EntityKind(o),
         o.kind \notin AddOps \cup {"policy_bind", "config_set"} => o.id \in DOMAIN s[kind],
         o.id \in DOMAIN s[kind] <=> o.id \in DOMAIN u[kind],
         o.id \in DOMAIN s[kind] => u[kind][o.id] = s[kind][o.id]
  PROVE  EntryAfter(u, o) = EntryAfter(s, o)
<1>1. CASE o.kind \in {"device_add", "route_add", "workload_add", "policy_bind", "link_add"}
  BY <1>1 DEF EntryAfter, EraseOps, WindowOps, MaintenanceOps
<1>2. CASE o.kind = "config_set"
  <2>1. kind = "config" /\ Written(o) = <<"config", o.id>>
    BY <1>2, KindsSplit DEF ConfigOps, Written
  <2>2. \A x : /\ EntryAfter(x, o) =
                    [value |-> o.new.value,
                     revision |-> IF Known(x, Written(o)) THEN x.config[o.id].revision + 1 ELSE 0]
               /\ Known(x, Written(o)) <=> o.id \in DOMAIN x.config
    BY <1>2, <2>1 DEF EntryAfter, Known, EraseOps, WindowOps, MaintenanceOps
  <2> QED
    BY <2>1, <2>2
<1>3. CASE o.kind \in DeviceOps \ {"device_add"}
  <2>1. u.device[o.id] = s.device[o.id]
    BY <1>3, KindsSplit DEF AddOps, DeviceOps, MaintenanceOps
  <2>2. PICK e : e = s.device[o.id]
    OBVIOUS
  <2>3. \A x : x.device[o.id] = e =>
          EntryAfter(x, o) =
            IF o.kind = "device_set_capacity" THEN [e EXCEPT !.cap = o.new.cap]
            ELSE IF o.kind = "device_set_windows" THEN [e EXCEPT !.excl = o.new.excl, !.maint = o.new.maint]
            ELSE [e EXCEPT !.state = StateAfter(o)]
    BY <1>3 DEF EntryAfter, EraseOps, DeviceOps, WindowOps, MaintenanceOps
  <2> QED
    BY <2>1, <2>2, <2>3
<1>4. CASE o.kind \in {"link_remove", "link_set_capacity"}
  <2>1. u.link[o.id] = s.link[o.id]
    BY <1>4, KindsSplit DEF AddOps, LinkOps
  <2>2. PICK e : e = s.link[o.id]
    OBVIOUS
  <2>3. \A x : x.link[o.id] = e =>
          EntryAfter(x, o) = IF o.kind = "link_remove" THEN [e EXCEPT !.state = "removed"]
                             ELSE [e EXCEPT !.cap = o.new.cap]
    BY <1>4 DEF EntryAfter, EraseOps, WindowOps, MaintenanceOps
  <2> QED
    BY <2>1, <2>2, <2>3
<1>5. CASE o.kind \in {"route_set_path", "route_set_state"}
  <2>1. u.route[o.id] = s.route[o.id]
    BY <1>5, KindsSplit DEF AddOps, RouteOps
  <2>2. PICK e : e = s.route[o.id]
    OBVIOUS
  <2>3. \A x : x.route[o.id] = e =>
          EntryAfter(x, o) = IF o.kind = "route_set_state" THEN [e EXCEPT !.state = o.new.state]
                             ELSE [source |-> o.new.source, sink |-> o.new.sink, path |-> o.new.path,
                                   policy |-> o.new.policy, state |-> e.state]
    BY <1>5 DEF EntryAfter, EraseOps, WindowOps, MaintenanceOps
  <2> QED
    BY <2>1, <2>2, <2>3
<1>6. CASE o.kind \in {"workload_set_bindings", "workload_set_requirements"}
  <2>1. u.workload[o.id] = s.workload[o.id]
    BY <1>6, KindsSplit DEF AddOps, WorkloadOps
  <2>2. PICK e : e = s.workload[o.id]
    OBVIOUS
  <2>3. \A x : x.workload[o.id] = e =>
          EntryAfter(x, o) = IF o.kind = "workload_set_bindings" THEN [e EXCEPT !.bind = o.new.bind]
                             ELSE [e EXCEPT !.req = o.new.req]
    BY <1>6 DEF EntryAfter, EraseOps, WindowOps, MaintenanceOps
  <2> QED
    BY <2>1, <2>2, <2>3
<1> QED
  BY <1>1, <1>2, <1>3, <1>4, <1>5, <1>6
     DEF AllKinds, DeviceOps, LinkOps, RouteOps, WorkloadOps, PolicyOps, ConfigOps, EraseOps

\* Snapshots are equal when their entities are, identity by identity.
LEMMA SameSnapshot ==
  ASSUME NEW x, NEW y, IsSnapshot(x), IsSnapshot(y),
         \A kind \in EntityKinds : /\ DOMAIN x[kind] = DOMAIN y[kind]
                                   /\ \A i \in DOMAIN x[kind] : x[kind][i] = y[kind][i]
  PROVE  x = y
<1>1. \A kind \in EntityKinds : x[kind] = y[kind]
  <2>1. ASSUME NEW kind \in EntityKinds PROVE x[kind] = y[kind]
    <3>1. PICK f, g : f = x[kind] /\ g = y[kind]
      OBVIOUS
    <3>2. IsFunction(f) /\ IsFunction(g) /\ DOMAIN f = DOMAIN g /\ \A i \in DOMAIN f : f[i] = g[i]
      BY <3>1 DEF IsSnapshot, AreEntities
    <3> QED
      BY <3>1, <3>2 DEF IsFunction
  <2> QED
    BY <2>1
<1>2. IsFunction(x) /\ IsFunction(y) /\ DOMAIN x = EntityKinds /\ DOMAIN y = EntityKinds
  BY DEF IsSnapshot
<1> QED
  BY <1>1, <1>2 DEF IsFunction

\* A snapshot after an operation, entry by entry.
LEMMA EntriesAfter ==
  ASSUME NEW c, NEW s, NEW o, IsSnapshot(s), o.kind \in AllKinds, Possible(c, s, o),
         NEW t, t = Changed(s, o), NEW k \in EntityKinds, NEW i
  PROVE  /\ <<k, i>> # Written(o) => /\ i \in DOMAIN t[k] <=> i \in DOMAIN s[k]
                                     /\ i \in DOMAIN s[k] => t[k][i] = s[k][i]
         /\ <<k, i>> = Written(o) => /\ i \in DOMAIN t[k] <=> o.kind \notin EraseOps
                                     /\ o.kind \notin EraseOps => t[k][i] = EntryAfter(s, o)
<1>1. CASE k # EntityKind(o)
  <2>1. t[k] = s[k]
    BY <1>1, SnapshotShaped, OtherKindsAfter
  <2> QED
    BY <1>1, <2>1 DEF Written
<1>2. CASE k = EntityKind(o)
  <2>1. /\ \A j \in DOMAIN s[k] \ {o.id} : j \in DOMAIN t[k] /\ t[k][j] = s[k][j]
        /\ DOMAIN t[k] \subseteq DOMAIN s[k] \cup {o.id}
        /\ o.kind \in EraseOps => o.id \notin DOMAIN t[k]
        /\ o.kind \notin EraseOps => o.id \in DOMAIN t[k] /\ t[k][o.id] = EntryAfter(s, o)
    BY <1>2, SnapshotShaped, OwnKindAfter
  <2>2. <<k, i>> = Written(o) <=> i = o.id
    BY <1>2 DEF Written
  <2> QED
    BY <2>1, <2>2
<1> QED
  BY <1>1, <1>2

\* An operation finds the same entry after one that wrote another.
LEMMA EntryUndisturbed ==
  ASSUME NEW c, NEW s, NEW o, NEW p, IsSnapshot(s), o.kind \in AllKinds, p.kind \in AllKinds \ EraseOps,
         Possible(c, s, o), Possible(c, s, p), Written(o) # Written(p), NEW u, u = Changed(s, o)
  PROVE  EntryAfter(u, p) = EntryAfter(s, p)
<1>1. PICK k : k = EntityKind(p) /\ k \in EntityKinds
  BY KindsSplit
<1>2. Written(p) = <<k, p.id>>
  BY <1>1 DEF Written
<1>3. /\ p.id \in DOMAIN u[k] <=> p.id \in DOMAIN s[k]
      /\ p.id \in DOMAIN s[k] => u[k][p.id] = s[k][p.id]
  BY <1>1, <1>2, EntriesAfter
<1>4. p.kind \notin AddOps \cup {"policy_bind", "config_set"} => p.id \in DOMAIN s[k]
  BY <1>1, ChangedIsKnown
<1> QED
  BY <1>1, <1>3, <1>4, EntryDepends

\* Operations that write different entries commute.
LEMMA ApartCommute ==
  ASSUME NEW c, NEW s, NEW start, NEW o, NEW p, IsSnapshot(s),
         IsOperation(start, o), IsOperation(start, p), Possible(c, s, o), Possible(c, s, p),
         NEW u, u = Changed(s, o), NEW v, v = Changed(s, p), Possible(c, u, p), Possible(c, v, o),
         Written(o) # Written(p), NEW x, x = Changed(u, p), NEW y, y = Changed(v, o)
  PROVE  x = y
<1>1. o.kind \in AllKinds /\ p.kind \in AllKinds
  BY DEF IsOperation, AllKinds
<1>2. IsSnapshot(u) /\ IsSnapshot(v)
  BY SnapshotKept
<1>3. IsSnapshot(x) /\ IsSnapshot(y)
  BY <1>2, SnapshotKept
<1>4. /\ p.kind \notin EraseOps => EntryAfter(u, p) = EntryAfter(s, p)
      /\ o.kind \notin EraseOps => EntryAfter(v, o) = EntryAfter(s, o)
  BY <1>1, EntryUndisturbed
<1>5. ASSUME NEW k \in EntityKinds, NEW i
      PROVE  /\ i \in DOMAIN x[k] <=> i \in DOMAIN y[k]
             /\ i \in DOMAIN x[k] => x[k][i] = y[k][i]
  <2>1. /\ <<k, i>> # Written(o) => /\ i \in DOMAIN u[k] <=> i \in DOMAIN s[k]
                                    /\ i \in DOMAIN s[k] => u[k][i] = s[k][i]
        /\ <<k, i>> = Written(o) => /\ i \in DOMAIN u[k] <=> o.kind \notin EraseOps
                                    /\ o.kind \notin EraseOps => u[k][i] = EntryAfter(s, o)
    BY <1>1, EntriesAfter
  <2>2. /\ <<k, i>> # Written(p) => /\ i \in DOMAIN v[k] <=> i \in DOMAIN s[k]
                                    /\ i \in DOMAIN s[k] => v[k][i] = s[k][i]
        /\ <<k, i>> = Written(p) => /\ i \in DOMAIN v[k] <=> p.kind \notin EraseOps
                                    /\ p.kind \notin EraseOps => v[k][i] = EntryAfter(s, p)
    BY <1>1, EntriesAfter
  <2>3. /\ <<k, i>> # Written(p) => /\ i \in DOMAIN x[k] <=> i \in DOMAIN u[k]
                                    /\ i \in DOMAIN u[k] => x[k][i] = u[k][i]
        /\ <<k, i>> = Written(p) => /\ i \in DOMAIN x[k] <=> p.kind \notin EraseOps
                                    /\ p.kind \notin EraseOps => x[k][i] = EntryAfter(u, p)
    BY <1>1, <1>2, EntriesAfter
  <2>4. /\ <<k, i>> # Written(o) => /\ i \in DOMAIN y[k] <=> i \in DOMAIN v[k]
                                    /\ i \in DOMAIN v[k] => y[k][i] = v[k][i]
        /\ <<k, i>> = Written(o) => /\ i \in DOMAIN y[k] <=> o.kind \notin EraseOps
                                    /\ o.kind \notin EraseOps => y[k][i] = EntryAfter(v, o)
    BY <1>1, <1>2, EntriesAfter
  <2>5. PICK w : w = <<k, i>>
    OBVIOUS
  <2>6. CASE w = Written(o)
    BY <1>4, <2>1, <2>3, <2>4, <2>5, <2>6
  <2>7. CASE w = Written(p)
    BY <1>4, <2>2, <2>3, <2>4, <2>5, <2>7
  <2>8. CASE w # Written(o) /\ w # Written(p)
    BY <2>1, <2>2, <2>3, <2>4, <2>5, <2>8
  <2> QED
    BY <2>6, <2>7, <2>8
<1>6. \A k \in EntityKinds : /\ DOMAIN x[k] = DOMAIN y[k]
                             /\ \A i \in DOMAIN x[k] : x[k][i] = y[k][i]
  BY <1>5
<1> QED
  BY <1>3, <1>6, SameSnapshot

\* A capacity and the windows of an entry can be set in either order.
LEMMA FieldsApart ==
  ASSUME NEW e, NEW x, NEW y, NEW z,
         NEW f, f = [e EXCEPT !.cap = x], NEW g, g = [e EXCEPT !.excl = y, !.maint = z]
  PROVE  [f EXCEPT !.excl = y, !.maint = z] = [g EXCEPT !.cap = x]
<1>1. PICK h, k, a : /\ h = [e EXCEPT !.excl = y] /\ k = [f EXCEPT !.excl = y]
                     /\ a = [k EXCEPT !.maint = z]
  OBVIOUS
<1>2. g = [h EXCEPT !.maint = z] /\ a = [f EXCEPT !.excl = y, !.maint = z]
  BY <1>1
<1>3. /\ DOMAIN f = DOMAIN e /\ DOMAIN h = DOMAIN e /\ DOMAIN k = DOMAIN e
      /\ \A i \in DOMAIN e : /\ f[i] = IF i = "cap" THEN x ELSE e[i]
                             /\ h[i] = IF i = "excl" THEN y ELSE e[i]
                             /\ k[i] = IF i = "excl" THEN y ELSE f[i]
  BY <1>1
<1>4. k = [h EXCEPT !.cap = x]
  BY <1>1, <1>3
<1>5. a = [g EXCEPT !.cap = x]
  BY ZenonT(60), <1>1, <1>2, <1>3, <1>4
<1> QED
  BY <1>2, <1>5

\* The pairs of kinds that set different fields of one entry, with the kind of entity.
FieldPairs == {<<"device", "device_set_capacity", "device_set_windows">>,
               <<"workload", "workload_set_bindings", "workload_set_requirements">>,
               <<"route", "route_set_path", "route_set_state">>}

\* Operations that set different fields of one entry leave the same entry in either order.
LEMMA FieldsCommute ==
  ASSUME NEW s, NEW u, NEW v, NEW o, NEW p, o.id = p.id, NEW kind,
         u[kind][o.id] = EntryAfter(s, o), v[kind][o.id] = EntryAfter(s, p),
         IsEntity(kind, s[kind][o.id]),
         <<kind, o.kind, p.kind>> \in FieldPairs
  PROVE  EntryAfter(u, p) = EntryAfter(v, o)
<1>1. CASE kind = "device" /\ o.kind = "device_set_capacity" /\ p.kind = "device_set_windows"
  <2>1. PICK e, f, g : /\ e = s.device[o.id] /\ f = u.device[p.id] /\ g = v.device[o.id]
                       /\ f = EntryAfter(s, o) /\ g = EntryAfter(s, p) /\ e = s.device[p.id]
    BY <1>1
  <2>2. /\ EntryAfter(s, o) = [s.device[o.id] EXCEPT !.cap = o.new.cap]
        /\ EntryAfter(v, o) = [v.device[o.id] EXCEPT !.cap = o.new.cap]
    BY <1>1 DEF EntryAfter, EraseOps, WindowOps, MaintenanceOps
  <2>3. /\ EntryAfter(s, p) = [s.device[p.id] EXCEPT !.excl = p.new.excl, !.maint = p.new.maint]
        /\ EntryAfter(u, p) = [u.device[p.id] EXCEPT !.excl = p.new.excl, !.maint = p.new.maint]
    BY <1>1 DEF EntryAfter, EraseOps, WindowOps, MaintenanceOps
  <2>4. f = [e EXCEPT !.cap = o.new.cap] /\ EntryAfter(v, o) = [g EXCEPT !.cap = o.new.cap]
    BY <2>1, <2>2
  <2>5. g = [e EXCEPT !.excl = p.new.excl, !.maint = p.new.maint] /\ EntryAfter(u, p) = [f EXCEPT !.excl = p.new.excl, !.maint = p.new.maint]
    BY <2>1, <2>3
  <2>6. PICK x, y, z : x = o.new.cap /\ y = p.new.excl /\ z = p.new.maint
    OBVIOUS
  <2>7. [f EXCEPT !.excl = y, !.maint = z] = [g EXCEPT !.cap = x]
    BY <2>4, <2>5, <2>6, FieldsApart
  <2> QED
    BY <2>4, <2>5, <2>6, <2>7
<1>2. CASE kind = "workload" /\ o.kind = "workload_set_bindings" /\ p.kind = "workload_set_requirements"
  <2>1. PICK e, f, g : /\ e = s.workload[o.id] /\ f = u.workload[p.id] /\ g = v.workload[o.id]
                       /\ f = EntryAfter(s, o) /\ g = EntryAfter(s, p) /\ e = s.workload[p.id]
    BY <1>2
  <2>2. /\ EntryAfter(s, o) = [s.workload[o.id] EXCEPT !.bind = o.new.bind]
        /\ EntryAfter(v, o) = [v.workload[o.id] EXCEPT !.bind = o.new.bind]
    BY <1>2 DEF EntryAfter, EraseOps, WindowOps, MaintenanceOps
  <2>3. /\ EntryAfter(s, p) = [s.workload[p.id] EXCEPT !.req = p.new.req]
        /\ EntryAfter(u, p) = [u.workload[p.id] EXCEPT !.req = p.new.req]
    BY <1>2 DEF EntryAfter, EraseOps, WindowOps, MaintenanceOps
  <2>4. f = [e EXCEPT !.bind = o.new.bind] /\ EntryAfter(v, o) = [g EXCEPT !.bind = o.new.bind]
    BY <2>1, <2>2
  <2>5. g = [e EXCEPT !.req = p.new.req] /\ EntryAfter(u, p) = [f EXCEPT !.req = p.new.req]
    BY <2>1, <2>3
  <2>6. [f EXCEPT !.req = p.new.req] = [g EXCEPT !.bind = o.new.bind]
    BY <2>4, <2>5
  <2> QED
    BY <2>4, <2>5, <2>6
<1>3. CASE kind = "route" /\ o.kind = "route_set_path" /\ p.kind = "route_set_state"
  <2>1. PICK e, f, g : /\ e = s.route[o.id] /\ f = u.route[p.id] /\ g = v.route[o.id]
                       /\ f = EntryAfter(s, o) /\ g = EntryAfter(s, p) /\ e = s.route[p.id]
    BY <1>3
  <2>2. /\ EntryAfter(s, o) = [source |-> o.new.source, sink |-> o.new.sink, path |-> o.new.path,
                            policy |-> o.new.policy, state |-> s.route[o.id].state]
        /\ EntryAfter(v, o) = [source |-> o.new.source, sink |-> o.new.sink, path |-> o.new.path,
                            policy |-> o.new.policy, state |-> v.route[o.id].state]
    BY <1>3 DEF EntryAfter, EraseOps, WindowOps, MaintenanceOps
  <2>3. /\ EntryAfter(s, p) = [s.route[p.id] EXCEPT !.state = p.new.state]
        /\ EntryAfter(u, p) = [u.route[p.id] EXCEPT !.state = p.new.state]
    BY <1>3 DEF EntryAfter, EraseOps, WindowOps, MaintenanceOps
  <2>4. f = [source |-> o.new.source, sink |-> o.new.sink, path |-> o.new.path,
                            policy |-> o.new.policy, state |-> e.state] /\ EntryAfter(v, o) = [source |-> o.new.source, sink |-> o.new.sink, path |-> o.new.path,
                            policy |-> o.new.policy, state |-> g.state]
    BY <2>1, <2>2
  <2>5. g = [e EXCEPT !.state = p.new.state] /\ EntryAfter(u, p) = [f EXCEPT !.state = p.new.state]
    BY <2>1, <2>3
  <2>6. EntryAfter(u, p) = EntryAfter(v, o)
    <3>1. "state" \in DOMAIN e
      BY <1>3, <2>1 DEF IsEntity
    <3> QED
      BY <2>4, <2>5, <3>1
  <2> QED
    BY <2>4, <2>5, <2>6
<1> QED
  BY <1>1, <1>2, <1>3 DEF FieldPairs

\* What two such operations leave in either order.
LEMMA TogetherEntry ==
  ASSUME NEW c, NEW s, NEW o, NEW p, IsSnapshot(s), Possible(c, s, o), Possible(c, s, p),
         NEW u, u = Changed(s, o), NEW v, v = Changed(s, p), o.id = p.id,
         NEW kind, <<kind, o.kind, p.kind>> \in FieldPairs
  PROVE  /\ EntryAfter(u, p) = EntryAfter(v, o)
         /\ EntityKind(o) = kind /\ EntityKind(p) = kind
         /\ o.kind \notin EraseOps /\ p.kind \notin EraseOps
<1>1. /\ EntityKind(o) = kind /\ EntityKind(p) = kind /\ kind \in EntityKinds
      /\ o.kind \in AllKinds \ (EraseOps \cup AddOps \cup {"policy_bind", "config_set"})
      /\ p.kind \in AllKinds \ EraseOps
  BY KindsSplit DEF FieldPairs, AllKinds, EraseOps, AddOps, DeviceOps, WorkloadOps, RouteOps, EntityKinds
<1>2. o.id \in DOMAIN s[kind] /\ IsEntity(kind, s[kind][o.id])
  BY <1>1, ChangedIsKnown DEF IsSnapshot, AreEntities
<1>3. u[kind][o.id] = EntryAfter(s, o)
  BY <1>1, SnapshotShaped, OwnKindAfter
<1>4. v[kind][p.id] = EntryAfter(s, p)
  BY <1>1, SnapshotShaped, OwnKindAfter
<1>5. EntryAfter(u, p) = EntryAfter(v, o)
  BY <1>2, <1>3, <1>4, FieldsCommute
<1> QED
  BY <1>1, <1>5

\* Operations that set different fields of one entry commute.
LEMMA TogetherCommute ==
  ASSUME NEW c, NEW s, NEW start, NEW o, NEW p, IsSnapshot(s),
         IsOperation(start, o), IsOperation(start, p), Possible(c, s, o), Possible(c, s, p),
         NEW u, u = Changed(s, o), NEW v, v = Changed(s, p), Possible(c, u, p), Possible(c, v, o),
         IndependentUpdates(o, p), NEW x, x = Changed(u, p), NEW y, y = Changed(v, o)
  PROVE  x = y
<1>1. o.kind \in AllKinds /\ p.kind \in AllKinds /\ o.id = p.id
  BY DEF IsOperation, AllKinds, IndependentUpdates
<1>2. IsSnapshot(u) /\ IsSnapshot(v)
  BY SnapshotKept
<1>3. IsSnapshot(x) /\ IsSnapshot(y)
  BY <1>2, SnapshotKept
<1>4. PICK kind : <<kind, o.kind, p.kind>> \in FieldPairs \/ <<kind, p.kind, o.kind>> \in FieldPairs
  BY DEF IndependentUpdates, FieldPairs
<1>5. /\ EntryAfter(u, p) = EntryAfter(v, o)
      /\ EntityKind(o) = kind /\ EntityKind(p) = kind
      /\ o.kind \notin EraseOps /\ p.kind \notin EraseOps
  BY <1>1, <1>4, TogetherEntry
<1>6. Written(o) = <<kind, o.id>> /\ Written(p) = <<kind, o.id>>
  BY <1>1, <1>5 DEF Written
<1>7. ASSUME NEW k \in EntityKinds, NEW i
      PROVE  /\ i \in DOMAIN x[k] <=> i \in DOMAIN y[k]
             /\ i \in DOMAIN x[k] => x[k][i] = y[k][i]
  <2>1. CASE <<k, i>> # <<kind, o.id>>
    <3>1. <<k, i>> # Written(o) /\ <<k, i>> # Written(p)
      BY <1>6, <2>1
    <3>2. /\ i \in DOMAIN u[k] <=> i \in DOMAIN s[k]
          /\ i \in DOMAIN s[k] => u[k][i] = s[k][i]
      BY <1>1, <3>1, EntriesAfter
    <3>3. /\ i \in DOMAIN v[k] <=> i \in DOMAIN s[k]
          /\ i \in DOMAIN s[k] => v[k][i] = s[k][i]
      BY <1>1, <3>1, EntriesAfter
    <3>4. /\ i \in DOMAIN x[k] <=> i \in DOMAIN u[k]
          /\ i \in DOMAIN u[k] => x[k][i] = u[k][i]
      BY <1>1, <1>2, <3>1, EntriesAfter
    <3>5. /\ i \in DOMAIN y[k] <=> i \in DOMAIN v[k]
          /\ i \in DOMAIN v[k] => y[k][i] = v[k][i]
      BY <1>1, <1>2, <3>1, EntriesAfter
    <3> QED
      BY <3>2, <3>3, <3>4, <3>5
  <2>2. CASE <<k, i>> = <<kind, o.id>>
    <3>1. <<k, i>> = Written(o) /\ <<k, i>> = Written(p)
      BY <1>6, <2>2
    <3>2. i \in DOMAIN x[k] /\ x[k][i] = EntryAfter(u, p)
      BY <1>1, <1>2, <1>5, <3>1, EntriesAfter
    <3>3. i \in DOMAIN y[k] /\ y[k][i] = EntryAfter(v, o)
      BY <1>1, <1>2, <1>5, <3>1, EntriesAfter
    <3> QED
      BY <1>5, <3>2, <3>3
  <2> QED
    BY <2>1, <2>2
<1>8. \A k \in EntityKinds : /\ DOMAIN x[k] = DOMAIN y[k]
                             /\ \A i \in DOMAIN x[k] : x[k][i] = y[k][i]
  BY <1>7
<1> QED
  BY <1>3, <1>8, SameSnapshot

\* Two operations without an edge between them lead to the same snapshot in
\* either order, whatever the snapshot, so a stage may hold both.
THEOREM UnorderedCommute == Spec => []UnorderedStepsCommute
<1>1. ASSUME WalkInv, NEW o \in world.catalogue, NEW p \in world.catalogue, o # p,
             ~Precedes(fabric, o, p), ~Precedes(fabric, p, o),
             Possible(world.context, fabric, o), Possible(world.context, fabric, p),
             Possible(world.context, Changed(fabric, o), p), Possible(world.context, Changed(fabric, p), o)
      PROVE  Changed(Changed(fabric, o), p) = Changed(Changed(fabric, p), o)
  <2>1. PICK c, s, start, u, v, x, y : /\ c = world.context /\ s = fabric /\ start = world.start
                                       /\ u = Changed(s, o) /\ v = Changed(s, p)
                                       /\ x = Changed(u, p) /\ y = Changed(v, o)
    OBVIOUS
  <2>2. /\ IsSnapshot(s) /\ IsOperation(start, o) /\ IsOperation(start, p)
        /\ Before(o, p) \/ Before(p, o)
    BY <1>1, <2>1, WorldAssumption DEF WalkInv, Canonical
  <2>3. Possible(c, s, o) /\ Possible(c, s, p) /\ Possible(c, u, p) /\ Possible(c, v, o)
    BY <1>1, <2>1
  <2>4. Written(o) # Written(p) \/ IndependentUpdates(o, p)
    BY <1>1, <2>1, <2>2, UnorderedAgree
  <2>5. CASE Written(o) # Written(p)
    BY <2>1, <2>2, <2>3, <2>5, ApartCommute
  <2>6. CASE IndependentUpdates(o, p)
    BY <2>1, <2>2, <2>3, <2>6, TogetherCommute
  <2> QED
    BY <2>1, <2>4, <2>5, <2>6
<1>2. WalkInv => UnorderedStepsCommute
  BY <1>1 DEF UnorderedStepsCommute, Applies
<1> QED
  BY <1>2, WalkInvariant, PTL

-----------------------------------------------------------------------------
(* The redundancy check.                                                   *)

\* Where a walk at the point at goes along link l.
Hop(s, at, l) ==
  IF l \notin DOMAIN s.link THEN 0
  ELSE IF s.link[l].a = at THEN s.link[l].b
  ELSE IF s.link[l].b = at THEN s.link[l].a
  ELSE 0

\* f lists the points of a walk along the first n links of r.
WalkUp(s, r, f, n) ==
  f = [i \in 0 .. n |-> IF i = 0 THEN r.source ELSE Hop(s, f[i - 1], r.path[i])]

\* Such a list exists.
LEMMA WalkExists == ASSUME NEW s, NEW r, NEW n \in Nat PROVE \E f : WalkUp(s, r, f, n)
<1> DEFINE Missing == {k \in Nat : ~\E f : WalkUp(s, r, f, k)}
<1> SUFFICES ASSUME Missing # {} PROVE FALSE
  OBVIOUS
<1>1. PICK k \in Missing : \A j \in Missing : k <= j
  BY LeastNat
<1>2. CASE k = 0
  <2> DEFINE f == [i \in 0 .. 0 |-> IF i = 0 THEN r.source ELSE Hop(s, 0, r.path[i])]
  <2>1. WalkUp(s, r, f, 0)
    BY DEF WalkUp
  <2> QED
    BY <1>2, <2>1
<1>3. CASE k # 0
  <2>1. k - 1 \in Nat /\ k - 1 \notin Missing
    BY <1>1, <1>3
  <2>2. PICK f : WalkUp(s, r, f, k - 1)
    BY <2>1
  <2> DEFINE g == [i \in 0 .. k |-> IF i < k THEN f[i] ELSE Hop(s, f[k - 1], r.path[k])]
  <2>3. \A i \in 0 .. k : g[i] = IF i = 0 THEN r.source ELSE Hop(s, g[i - 1], r.path[i])
    BY <2>1, <2>2, <1>3 DEF WalkUp
  <2>4. WalkUp(s, r, g, k)
    BY <2>3 DEF WalkUp
  <2> QED
    BY <2>4
<1> QED
  BY <1>2, <1>3

\* Walk is that list.
LEMMA WalkIs ==
  ASSUME NEW s, NEW r, Len(r.path) \in Nat
  PROVE  WalkUp(s, r, Walk(s, r), Len(r.path))
<1>1. PICK f : WalkUp(s, r, f, Len(r.path))
  BY WalkExists
<1> QED
  BY <1>1 DEF Walk, WalkUp, Hop

\* The walk along a route looks at the ends of links only.
LEMMA WalkSame ==
  ASSUME NEW s, NEW t, NEW r, Len(r.path) \in Nat,
         DOMAIN t.link = DOMAIN s.link,
         \A l \in DOMAIN s.link : t.link[l].a = s.link[l].a /\ t.link[l].b = s.link[l].b
  PROVE  RouteWalkable(t, r) <=> RouteWalkable(s, r)
<1> DEFINE f == Walk(s, r)
           g == Walk(t, r)
           n == Len(r.path)
           Differing == {i \in 0 .. n : f[i] # g[i]}
<1>1. WalkUp(s, r, f, n) /\ WalkUp(t, r, g, n)
  BY WalkIs
<1>2. \A at, l : Hop(t, at, l) = Hop(s, at, l)
  BY DEF Hop
<1>3. RouteWalkable(t, r) <=> r.path # <<>> /\ g[n] = r.sink
  BY DEF RouteWalkable
<1>4. RouteWalkable(s, r) <=> r.path # <<>> /\ f[n] = r.sink
  BY DEF RouteWalkable
<1> HIDE DEF f, g
<1>5. Differing = {}
  <2> SUFFICES ASSUME Differing # {} PROVE FALSE
    OBVIOUS
  <2>1. Differing \subseteq Nat
    OBVIOUS
  <2>2. PICK i \in Differing : \A j \in Differing : i <= j
    <3> HIDE DEF Differing
    <3> QED
      BY <2>1, LeastNat
  <2>3. f[0] = g[0]
    BY <1>1 DEF WalkUp
  <2>4. i \in 1 .. n /\ i - 1 \in 0 .. n /\ i - 1 \notin Differing
    <3>1. i \in 1 .. n
      BY <2>3
    <3>2. i - 1 \in 0 .. n /\ ~(i <= i - 1)
      BY <3>1
    <3> QED
      BY <2>2, <3>1, <3>2
  <2>5. f[i - 1] = g[i - 1]
    BY <2>4
  <2>6. f[i] = Hop(s, f[i - 1], r.path[i]) /\ g[i] = Hop(t, g[i - 1], r.path[i])
    BY <1>1, <2>4 DEF WalkUp
  <2>7. f[i] = g[i]
    BY <1>2, <2>5, <2>6
  <2> QED
    BY <2>7
<1>6. f[n] = g[n]
  BY <1>5
<1> QED
  BY <1>3, <1>4, <1>6

\* What is lost with a domain.
Lost(s, domain) == {d \in DOMAIN s.device : s.device[d].domain = domain}
CutOff(s, domain) ==
  {l \in DOMAIN s.link : {s.link[l].a, s.link[l].b} \cap Lost(s, domain) # {} \/ domain \in s.link[l].transit}

\* Losing a domain takes devices and links out of service and changes nothing else.
LEMMA LossGives ==
  ASSUME NEW s, IsSnapshot(s), NEW domain, NEW t, t = WithoutDomain(s, domain)
  PROVE  /\ t.workload = s.workload /\ t.route = s.route
         /\ DOMAIN t.device = DOMAIN s.device /\ DOMAIN t.link = DOMAIN s.link
         /\ \A d \in DOMAIN s.device :
              /\ t.device[d].domain = s.device[d].domain
              /\ d \notin Lost(s, domain) => t.device[d] = s.device[d]
         /\ \A l \in DOMAIN s.link :
              /\ t.link[l].a = s.link[l].a /\ t.link[l].b = s.link[l].b
              /\ t.link[l].transit = s.link[l].transit
              /\ l \notin CutOff(s, domain) => t.link[l] = s.link[l]
<1> DEFINE device == [d \in DOMAIN s.device |->
                        IF d \in Lost(s, domain) THEN [s.device[d] EXCEPT !.state = "removed"]
                        ELSE s.device[d]]
           link == [l \in DOMAIN s.link |->
                      IF l \in CutOff(s, domain) THEN [s.link[l] EXCEPT !.state = "removed"]
                      ELSE s.link[l]]
<1>1. t = [s EXCEPT !.device = device, !.link = link]
  BY DEF WithoutDomain, Lost, CutOff
<1>2. /\ DOMAIN device = DOMAIN s.device
      /\ \A d \in DOMAIN s.device :
           /\ device[d].domain = s.device[d].domain
           /\ d \notin Lost(s, domain) => device[d] = s.device[d]
  OBVIOUS
<1>3. /\ DOMAIN link = DOMAIN s.link
      /\ \A l \in DOMAIN s.link :
           /\ link[l].a = s.link[l].a /\ link[l].b = s.link[l].b
           /\ link[l].transit = s.link[l].transit
           /\ l \notin CutOff(s, domain) => link[l] = s.link[l]
  OBVIOUS
<1> HIDE DEF device, link
<1>4. {"device", "link"} \subseteq DOMAIN s
  BY DEF IsSnapshot, EntityKinds
<1>5. t.device = device /\ t.link = link /\ t.workload = s.workload /\ t.route = s.route
  BY <1>1, <1>4
<1> QED
  BY <1>2, <1>3, <1>5

\* A route that touches a domain nowhere serves its workload after the loss of it.
LEMMA LossSpares ==
  ASSUME NEW s, IsSnapshot(s), Valid(s), NEW domain, NEW w \in DOMAIN s.workload,
         NEW r \in Eligible(s, w), domain \notin RouteDomains(s, s.route[r])
  PROVE  r \in Eligible(WithoutDomain(s, domain), w)
<1>1. PICK t : t = WithoutDomain(s, domain)
  OBVIOUS
<1>2. PICK e : e = s.route[r]
  OBVIOUS
<1>3. /\ r \in DOMAIN s.workload[w].bind /\ s.workload[w].bind[r].active /\ r \in DOMAIN s.route
      /\ CarriesTraffic(s, e) /\ RouteDomains(s, e) \cap s.workload[w].req.forbidden = {}
  BY <1>2 DEF Eligible
<1>4. /\ PathLinks(e.path) \subseteq DOMAIN s.link
      /\ {e.source, e.sink} \subseteq DOMAIN s.device
      /\ \A l \in DOMAIN s.link : {s.link[l].a, s.link[l].b} \subseteq DOMAIN s.device
  BY <1>2, <1>3 DEF Valid
<1>5. e.path \in Seq(Nat)
  BY <1>2, <1>3 DEF IsSnapshot, AreEntities, IsEntity, EntityKinds
<1>6. Len(e.path) \in Nat
  BY <1>5
<1>7. RouteDomains(t, e) = RouteDomains(s, e)
  <2>1. PathLinks(e.path) \cap DOMAIN t.link = PathLinks(e.path) \cap DOMAIN s.link
    BY <1>1, LossGives
  <2>2. PICK links : links = PathLinks(e.path) \cap DOMAIN s.link
    OBVIOUS
  <2>3. UNION {{t.link[l].a, t.link[l].b} : l \in links} = UNION {{s.link[l].a, s.link[l].b} : l \in links}
    BY <1>1, <2>2, LossGives
  <2>4. UNION {t.link[l].transit : l \in links} = UNION {s.link[l].transit : l \in links}
    BY <1>1, <2>2, LossGives
  <2>5. PICK ends : ends = ({e.source, e.sink} \cup UNION {{s.link[l].a, s.link[l].b} : l \in links})
                             \cap DOMAIN s.device
    OBVIOUS
  <2>6. {t.device[d].domain : d \in ends} = {s.device[d].domain : d \in ends}
    BY <1>1, <2>5, LossGives
  <2>7. DOMAIN t.device = DOMAIN s.device
    BY <1>1, LossGives
  <2>8. RouteDomains(s, e) = {s.device[d].domain : d \in ends} \cup UNION {s.link[l].transit : l \in links}
    BY <2>2, <2>5 DEF RouteDomains
  <2>9. RouteDomains(t, e) = {t.device[d].domain : d \in ends} \cup UNION {t.link[l].transit : l \in links}
    BY <2>1, <2>2, <2>3, <2>5, <2>7 DEF RouteDomains
  <2> QED
    BY <2>4, <2>6, <2>8, <2>9
<1>8. e.source \notin Lost(s, domain) /\ e.sink \notin Lost(s, domain)
  BY <1>2, <1>4 DEF Lost, RouteDomains
<1>9. \A l \in PathLinks(e.path) : l \notin CutOff(s, domain)
  <2> SUFFICES ASSUME NEW l \in PathLinks(e.path), l \in CutOff(s, domain) PROVE FALSE
    OBVIOUS
  <2>1. l \in DOMAIN s.link
    BY <1>4
  <2>2. domain \notin s.link[l].transit
    BY <1>2, <2>1 DEF RouteDomains
  <2>3. PICK d \in {s.link[l].a, s.link[l].b} : d \in Lost(s, domain)
    BY <2>2 DEF CutOff
  <2>4. d \in DOMAIN s.device /\ s.device[d].domain = domain
    BY <2>3 DEF Lost
  <2>5. domain \in RouteDomains(s, e)
    BY <2>1, <2>3, <2>4 DEF RouteDomains
  <2> QED
    BY <1>2, <2>5
<1>10. CarriesTraffic(t, e)
  <2>1. e.state = "active" /\ RouteWalkable(s, e)
        /\ (\A l \in PathLinks(e.path) : s.link[l].state = "present")
        /\ InService(s, e.source) /\ InService(s, e.sink)
    BY <1>3 DEF CarriesTraffic
  <2>2. RouteWalkable(t, e)
    BY <1>1, <1>6, <2>1, LossGives, WalkSame
  <2>3. \A l \in PathLinks(e.path) : t.link[l].state = "present"
    BY <1>1, <1>4, <1>9, <2>1, LossGives
  <2>4. InService(t, e.source) /\ InService(t, e.sink)
    BY <1>1, <1>4, <1>8, <2>1, LossGives DEF InService
  <2> QED
    BY <2>1, <2>2, <2>3, <2>4 DEF CarriesTraffic
<1>11. t.workload = s.workload /\ t.route = s.route
  BY <1>1, LossGives
<1> QED
  BY <1>1, <1>2, <1>3, <1>7, <1>10, <1>11 DEF Eligible

\* The flows of one workload are as many as its routes.
LEMMA FlowCount ==
  ASSUME NEW w, NEW R, IsFiniteSet(R)
  PROVE  IsFiniteSet({<<w, r>> : r \in R}) /\ Cardinality({<<w, r>> : r \in R}) = Cardinality(R)
<1> DEFINE T == {<<w, r>> : r \in R}
           f == [r \in R |-> <<w, r>>]
<1>1. f \in Bijection(R, T)
  BY DEF Bijection, Injection, Surjection, IsInjective
<1> QED
  BY <1>1, FS_Bijection DEF ExistsBijection

\* Whatever the domain that is lost, as many flows as the redundancy check counts do not
\* touch it.
LEMMA RedundancyBounds ==
  ASSUME NEW s, NEW flows, IsFiniteSet(flows), NEW domain
  PROVE  /\ Redundancy(s, flows) \in Nat
         /\ Redundancy(s, flows) <=
              Cardinality({f \in flows : domain \notin RouteDomains(s, s.route[f[2]])})
<1> DEFINE Surviving(d) == Cardinality({f \in flows : d \notin RouteDomains(s, s.route[f[2]])})
           domains == UNION {RouteDomains(s, s.route[f[2]]) : f \in flows}
           counts == {Surviving(d) : d \in domains}
<1>1. \A d : Surviving(d) \in Nat /\ Surviving(d) <= Cardinality(flows)
  BY FS_Subset, FS_CardinalityType
<1>2. domain \notin domains => Surviving(domain) = Cardinality(flows)
  <2> SUFFICES ASSUME domain \notin domains
               PROVE  {f \in flows : domain \notin RouteDomains(s, s.route[f[2]])} = flows
    OBVIOUS
  <2> QED
    OBVIOUS
<1>3. Redundancy(s, flows) = IF domains = {} THEN Cardinality(flows) ELSE Min(counts)
  BY DEF Redundancy
<1>4. Cardinality(flows) \in Nat
  BY FS_CardinalityType
<1> HIDE DEF Surviving, domains
<1>5. CASE domains = {}
  BY <1>2, <1>3, <1>4, <1>5 DEF Surviving
<1>6. CASE domains # {}
  <2>1. counts \subseteq Nat /\ counts # {}
    BY <1>1, <1>6
  <2>2. Min(counts) \in counts /\ \A x \in counts : Min(counts) <= x
    <3> HIDE DEF counts
    <3>1. \E x \in counts : \A y \in counts : x <= y
      BY <2>1, LeastNat
    <3> QED
      BY <3>1 DEF Min
  <2>3. Min(counts) <= Surviving(domain)
    <3>1. CASE domain \in domains
      BY <2>2, <3>1
    <3>2. CASE domain \notin domains
      <4>1. Min(counts) \in Nat /\ Min(counts) <= Cardinality(flows)
        BY <1>1, <2>2
      <4> QED
        BY <1>2, <3>2, <4>1
    <3> QED
      BY <3>1, <3>2
  <2>4. Min(counts) \in Nat
    BY <2>1, <2>2
  <2> HIDE DEF counts
  <2> QED
    BY <1>3, <1>6, <2>3, <2>4 DEF Surviving
<1> QED
  BY <1>5, <1>6

\* SurvivesDomainLoss for every fabric and every catalogue: a workload the redundancy
\* check lets pass has, after the loss of any one failure domain, as many routes in service
\* as it asked for.
THEOREM DomainLossSurvived == Spec => []SurvivesDomainLoss
<1>1. ASSUME NEW s, IsSnapshot(s), Valid(s), IsFiniteSet(DOMAIN s.route),
             NEW w \in DOMAIN s.workload \ UnderRedundant(s), NEW domain
      PROVE  Cardinality(Eligible(WithoutDomain(s, domain), w)) >= s.workload[w].req.domains
  <2> DEFINE R == Eligible(s, w)
             After == Eligible(WithoutDomain(s, domain), w)
             Spared == {r \in R : domain \notin RouteDomains(s, s.route[r])}
             flows == {<<w, r>> : r \in R}
  <2>1. IsFiniteSet(R) /\ IsFiniteSet(After) /\ IsFiniteSet(Spared)
    <3>1. After \subseteq DOMAIN s.route
      <4>1. WithoutDomain(s, domain).route = s.route
        BY <1>1, LossGives
      <4> QED
        BY <4>1 DEF Eligible
    <3>2. R \subseteq DOMAIN s.route /\ Spared \subseteq DOMAIN s.route
      BY DEF Eligible
    <3> QED
      BY <1>1, <3>1, <3>2, FS_Subset
  <2>2. Flows(s, {w}) = flows
    BY DEF Flows
  <2>3. IsFiniteSet(flows)
    BY <2>1, FlowCount
  <2>4. {f \in flows : domain \notin RouteDomains(s, s.route[f[2]])} = {<<w, r>> : r \in Spared}
    OBVIOUS
  <2>5. /\ Redundancy(s, flows) \in Nat
        /\ Redundancy(s, flows) <= Cardinality(Spared)
    <3>1. Cardinality({<<w, r>> : r \in Spared}) = Cardinality(Spared)
      <4> HIDE DEF Spared
      <4> QED
        BY <2>1, FlowCount
    <3> HIDE DEF flows, Spared
    <3> QED
      BY ZenonT(60), <2>3, <2>4, <3>1, RedundancyBounds
  <2>6. Spared \subseteq After
    BY <1>1, LossSpares
  <2>7. /\ Cardinality(Spared) \in Nat /\ Cardinality(After) \in Nat
        /\ Cardinality(Spared) <= Cardinality(After)
    BY <2>1, <2>6, FS_Subset, FS_CardinalityType
  <2>8. s.workload[w].req.domains \in Nat
    BY <1>1 DEF IsSnapshot, AreEntities, IsEntity, EntityKinds
  <2>9. ~(Redundancy(s, flows) < s.workload[w].req.domains)
    BY <2>2 DEF UnderRedundant
  <2> HIDE DEF R, After, Spared, flows
  <2> QED
    BY <2>5, <2>7, <2>8, <2>9 DEF After
<1>2. WalkInv => SurvivesDomainLoss
  <2> SUFFICES ASSUME WalkInv PROVE SurvivesDomainLoss
    OBVIOUS
  <2>1. IsSnapshot(fabric) /\ Valid(fabric)
    BY DEF WalkInv
  <2>2. IsFiniteSet(DOMAIN fabric.route)
    BY WorldAssumption, FS_Subset DEF WalkInv, RoutesKept
  <2> QED
    BY <1>1, <2>1, <2>2 DEF SurvivesDomainLoss
<1> QED
  BY <1>2, WalkInvariant, PTL

-----------------------------------------------------------------------------
(* The diversity check.                                                    *)

\* What explore_disjoint has found after a call, and the calls left of its budget.
Results == [best : Nat, budget : Nat, exhausted : BOOLEAN]

\* The call with one path less to look at.
Onward(p, taken, used, acc) ==
  [at |-> p.at + 1, taken |-> taken, used |-> used, acc |-> acc]

\* A call costs one of the budget.
Paid(acc) == [acc EXCEPT !.budget = @ - 1]

\* What the branch that takes the path brings back.
Took(paths, f, p) ==
  IF PathLinks(paths[p.at]) \cap p.used = {}
  THEN f[Onward(p, p.taken + 1, p.used \cup PathLinks(paths[p.at]), Paid(p.acc))]
  ELSE Paid(p.acc)

\* One call of explore_disjoint, the calls below it answered by f.
Result(paths, required, f, p) ==
  CASE p.acc.exhausted -> p.acc
    [] ~p.acc.exhausted /\ p.acc.budget = 0 -> [p.acc EXCEPT !.exhausted = TRUE]
    [] OTHER ->
       IF Paid(p.acc).best >= required THEN Paid(p.acc)
       ELSE IF p.at > Len(paths) THEN [Paid(p.acc) EXCEPT !.best = Max({@, p.taken})]
       ELSE IF Hopeless(p.taken, Len(paths) - p.at + 1, Paid(p.acc).best) THEN Paid(p.acc)
       ELSE f[Onward(p, p.taken, p.used, Took(paths, f, p))]

\* f is the search.
IsSearch(paths, required, f) ==
  f = [p \in Calls(paths) |-> Result(paths, required, f, p)]

\* The larger of two counts.
LEMMA MaxOfTwo ==
  ASSUME NEW a \in Nat, NEW b \in Nat
  PROVE  Max({a, b}) \in Nat /\ Max({a, b}) >= a /\ Max({a, b}) >= b /\ Max({a, b}) \in {a, b}
<1>1. \E x \in {a, b} : \A y \in {a, b} : x >= y
  OBVIOUS
<1> QED
  BY <1>1 DEF Max

\* Explored asks a search for its first call.
LEMMA FirstCall ==
  ASSUME NEW paths, NEW required, NEW f, IsSearch(paths, required, f)
  PROVE  \E g : IsSearch(paths, required, g) /\
          Explored(paths, required) = g[[at |-> 1, taken |-> 0, used |-> {},
               acc |-> [best |-> 0, budget |-> DiversityBudget, exhausted |-> FALSE]]]
<1> DEFINE g == CHOOSE h : IsSearch(paths, required, h)
<1>1. IsSearch(paths, required, g)
  BY Zenon
<1>2. Explored(paths, required) = g[[at |-> 1, taken |-> 0, used |-> {},
               acc |-> [best |-> 0, budget |-> DiversityBudget, exhausted |-> FALSE]]]
  BY Zenon DEF Explored, IsSearch, Result, Took, Onward, Paid
<1> QED
  BY <1>1, <1>2, Zenon

\* What a call pays and passes on are results and calls again.
LEMMA Passing ==
  ASSUME NEW paths, Len(paths) \in Nat, NEW p \in Calls(paths)
  PROVE  /\ p.acc \in Results
         /\ p.acc.budget # 0 => /\ Paid(p.acc) \in Results /\ Paid(p.acc).best = p.acc.best
                                /\ Paid(p.acc).exhausted = p.acc.exhausted
         /\ p.at <= Len(paths) => \A acc \in Results :
              /\ Onward(p, p.taken, p.used, acc) \in Calls(paths)
              /\ Onward(p, p.taken + 1, p.used \cup PathLinks(paths[p.at]), acc) \in Calls(paths)
<1>1. /\ p.at \in 1 .. Len(paths) + 1 /\ p.taken \in Nat /\ p.acc \in Results
      /\ p.used \subseteq UNION {PathLinks(paths[j]) : j \in 1 .. Len(paths)}
  BY DEF Calls, Results
<1>2. p.acc.budget # 0 => /\ Paid(p.acc) \in Results /\ Paid(p.acc).best = p.acc.best
                          /\ Paid(p.acc).exhausted = p.acc.exhausted
  <2>1. PICK acc : acc = p.acc
    OBVIOUS
  <2>2. acc.budget # 0 => /\ Paid(acc) \in Results /\ Paid(acc).best = acc.best
                          /\ Paid(acc).exhausted = acc.exhausted
    BY <1>1, <2>1 DEF Paid, Results
  <2> QED
    BY <2>1, <2>2
<1>3. ASSUME p.at <= Len(paths), NEW acc \in Results
      PROVE  /\ Onward(p, p.taken, p.used, acc) \in Calls(paths)
             /\ Onward(p, p.taken + 1, p.used \cup PathLinks(paths[p.at]), acc) \in Calls(paths)
  <2>1. p.at + 1 \in 1 .. Len(paths) + 1 /\ p.at \in 1 .. Len(paths) /\ p.taken + 1 \in Nat
    BY <1>1, <1>3
  <2>2. PathLinks(paths[p.at]) \subseteq UNION {PathLinks(paths[j]) : j \in 1 .. Len(paths)}
    BY <2>1
  <2>3. \A i \in 1 .. Len(paths) + 1, k \in Nat,
           u \in SUBSET UNION {PathLinks(paths[j]) : j \in 1 .. Len(paths)} :
          [at |-> i, taken |-> k, used |-> u, acc |-> acc] \in Calls(paths)
    BY <1>3 DEF Calls, Results
  <2> QED
    BY <1>1, <2>1, <2>2, <2>3 DEF Onward
<1> QED
  BY <1>1, <1>2, <1>3

\* A call depends on the calls one path further on only, and what it gives is a result
\* if theirs are.
LEMMA ResultDepends ==
  ASSUME NEW paths, Len(paths) \in Nat, NEW required, NEW f, NEW g, NEW p \in Calls(paths),
         \A q \in Calls(paths) : q.at = p.at + 1 => f[q] = g[q] /\ f[q] \in Results
  PROVE  /\ Result(paths, required, f, p) = Result(paths, required, g, p)
         /\ Result(paths, required, f, p) \in Results
<1>1. p.at \in Nat /\ p.taken \in Nat /\ p.acc \in Results
  BY DEF Calls, Results
<1>2. CASE p.acc.exhausted
  BY <1>1, <1>2 DEF Result
<1>3. CASE ~p.acc.exhausted /\ p.acc.budget = 0
  <2>1. [p.acc EXCEPT !.exhausted = TRUE] \in Results
    BY <1>1 DEF Results
  <2> QED
    BY <1>3, <2>1 DEF Result
<1>4. CASE ~p.acc.exhausted /\ p.acc.budget # 0
  <2>1. Paid(p.acc) \in Results
    BY <1>4, Passing
  <2>2. CASE Paid(p.acc).best >= required
    BY <1>4, <2>1, <2>2 DEF Result
  <2>3. CASE ~(Paid(p.acc).best >= required) /\ p.at > Len(paths)
    <3>1. Paid(p.acc).best \in Nat
      BY <2>1 DEF Results
    <3>2. Max({Paid(p.acc).best, p.taken}) \in Nat
      BY <1>1, <3>1, MaxOfTwo
    <3>3. [Paid(p.acc) EXCEPT !.best = Max({Paid(p.acc).best, p.taken})] \in Results
      BY <2>1, <3>2 DEF Results
    <3> QED
      BY <1>4, <2>3, <3>3 DEF Result
  <2>4. CASE /\ ~(Paid(p.acc).best >= required) /\ ~(p.at > Len(paths))
             /\ Hopeless(p.taken, Len(paths) - p.at + 1, Paid(p.acc).best)
    BY <1>4, <2>1, <2>4 DEF Result
  <2>5. CASE /\ ~(Paid(p.acc).best >= required) /\ ~(p.at > Len(paths))
             /\ ~Hopeless(p.taken, Len(paths) - p.at + 1, Paid(p.acc).best)
    <3>1. p.at <= Len(paths)
      BY <1>1, <2>5
    <3>2. \A k, u, acc : Onward(p, k, u, acc).at = p.at + 1
      BY DEF Onward
    <3>3. Took(paths, f, p) = Took(paths, g, p) /\ Took(paths, f, p) \in Results
      BY ZenonT(60), <2>1, <3>1, <3>2, Passing DEF Took
    <3>4. Onward(p, p.taken, p.used, Took(paths, f, p)) \in Calls(paths)
      BY <3>1, <3>3, Passing
    <3>5. /\ Result(paths, required, f, p) = f[Onward(p, p.taken, p.used, Took(paths, f, p))]
          /\ Result(paths, required, g, p) = g[Onward(p, p.taken, p.used, Took(paths, g, p))]
      BY <1>4, <2>5 DEF Result
    <3> QED
      BY <3>2, <3>3, <3>4, <3>5
  <2> QED
    BY <2>2, <2>3, <2>4, <2>5
<1> QED
  BY <1>2, <1>3, <1>4

\* f answers the calls from path i on.
AnswersFrom(paths, required, f, i) ==
  \A p \in Calls(paths) : p.at >= i =>
    f[p] = Result(paths, required, f, p) /\ f[p] \in Results

\* The recursion has a solution: the calls are answered from the last path to the first.
LEMMA SearchExists ==
  ASSUME NEW paths, Len(paths) \in Nat, NEW required
  PROVE  \E f : IsSearch(paths, required, f) /\ \A p \in Calls(paths) : f[p] \in Results
<1> DEFINE n == Len(paths)
           Missing == {k \in 0 .. n + 1 : ~\E f : AnswersFrom(paths, required, f, n + 2 - k)}
<1>1. Missing = {}
  <2> SUFFICES ASSUME Missing # {} PROVE FALSE
    OBVIOUS
  <2>1. PICK k \in Missing : \A j \in Missing : k <= j
    <3>1. Missing \subseteq Nat
      OBVIOUS
    <3> HIDE DEF Missing
    <3> QED
      BY <3>1, LeastNat
  <2>2. k \in 0 .. n + 1 /\ ~\E f : AnswersFrom(paths, required, f, n + 2 - k)
    OBVIOUS
  <2>3. \A p \in Calls(paths) : p.at \in 1 .. n + 1
    BY DEF Calls
  <2>4. k # 0
    <3>1. \A p \in Calls(paths) : ~(p.at >= n + 2)
      BY <2>3
    <3>2. \A f : AnswersFrom(paths, required, f, n + 2)
      BY <3>1, Zenon DEF AnswersFrom
    <3>3. n + 2 - 0 = n + 2
      OBVIOUS
    <3> QED
      BY <2>2, <3>2, <3>3
  <2>5. k - 1 \in 0 .. n + 1 /\ k - 1 \notin Missing
    BY <2>1, <2>2, <2>4
  <2>6. PICK f : AnswersFrom(paths, required, f, n + 2 - (k - 1))
    BY <2>5
  <2>7. PICK i \in 1 .. n + 1 : i = n + 2 - k
    BY SMTT(60), <2>2, <2>4
  <2>8. AnswersFrom(paths, required, f, i + 1)
    <3>1. n + 2 - (k - 1) = i + 1
      BY <2>2, <2>7
    <3> QED
      BY <2>6, <3>1
  <2> DEFINE g == [p \in Calls(paths) |-> IF p.at >= i + 1 THEN f[p] ELSE Result(paths, required, f, p)]
  <2>9. \A p \in Calls(paths) : g[p] = IF p.at >= i + 1 THEN f[p] ELSE Result(paths, required, f, p)
    OBVIOUS
  <2> HIDE DEF g, n
  <2>10. AnswersFrom(paths, required, g, i)
    <3> SUFFICES ASSUME NEW p \in Calls(paths), p.at >= i
                 PROVE  g[p] = Result(paths, required, g, p) /\ g[p] \in Results
      BY DEF AnswersFrom
    <3>1. \A q \in Calls(paths) : q.at = p.at + 1 => q.at >= i + 1
      BY <2>3, <2>7 DEF n
    <3>2. \A q \in Calls(paths) : q.at = p.at + 1 => f[q] = g[q] /\ f[q] \in Results
      BY <2>8, <2>9, <3>1 DEF AnswersFrom
    <3>3. /\ Result(paths, required, f, p) = Result(paths, required, g, p)
          /\ Result(paths, required, f, p) \in Results
      BY <3>2, ResultDepends
    <3>4. g[p] = Result(paths, required, f, p)
      <4>1. CASE p.at >= i + 1
        BY <2>8, <2>9, <4>1 DEF AnswersFrom
      <4>2. CASE ~(p.at >= i + 1)
        BY <2>9, <4>2
      <4> QED
        BY <4>1, <4>2
    <3> QED
      BY <3>3, <3>4
  <2> QED
    BY <2>2, <2>7, <2>10 DEF n
<1>2. PICK f : AnswersFrom(paths, required, f, 1)
  <2>1. n + 1 \in 0 .. n + 1 /\ n + 2 - (n + 1) = 1
    OBVIOUS
  <2>2. n + 1 \notin Missing
    BY <1>1
  <2> QED
    BY <2>1, <2>2
<1> DEFINE g == [p \in Calls(paths) |-> f[p]]
<1>3. \A p \in Calls(paths) : p.at >= 1
  BY DEF Calls
<1>4. ASSUME NEW p \in Calls(paths)
      PROVE  Result(paths, required, g, p) = g[p] /\ g[p] \in Results
  <2>1. \A q \in Calls(paths) : q.at = p.at + 1 => f[q] = g[q] /\ f[q] \in Results
    BY <1>2, <1>3 DEF AnswersFrom
  <2>2. Result(paths, required, f, p) = Result(paths, required, g, p)
    <3> HIDE DEF g
    <3> QED
      BY <2>1, ResultDepends
  <2> QED
    BY <1>2, <1>3, <2>2 DEF AnswersFrom
<1>5. g = [p \in Calls(paths) |-> Result(paths, required, g, p)]
  <2> DEFINE h == [p \in Calls(paths) |-> Result(paths, required, g, p)]
  <2>1. DOMAIN g = Calls(paths) /\ g = [p \in Calls(paths) |-> g[p]]
    OBVIOUS
  <2> HIDE DEF g
  <2> QED
    BY <1>4, <2>1
<1> QED
  BY <1>4, <1>5 DEF IsSearch

\* Paths that use no link of used and no link twice.
Apart(paths, used, C) ==
  /\ \A j \in C : PathLinks(paths[j]) \cap used = {}
  /\ \A j, k \in C : j # k => PathLinks(paths[j]) \cap PathLinks(paths[k]) = {}

\* The choices a call may still make.
Selections(paths, p) == {C \in SUBSET (p.at .. Len(paths)) : Apart(paths, p.used, C)}

\* What a call answers: a better count than it was given belongs to a choice, and
\* unless the search broke off no choice beats the count it answers or the one asked for.
Right(paths, required, p, out) ==
  /\ out \in Results
  /\ p.acc.best <= out.best
  /\ p.acc.exhausted => out.exhausted
  /\ out.best > p.acc.best => \E C \in Selections(paths, p) : p.taken + Cardinality(C) = out.best
  /\ ~out.exhausted /\ out.best < required =>
       \A C \in Selections(paths, p) : p.taken + Cardinality(C) <= out.best

\* Selections are finite and no larger than the paths that are left.
LEMMA SelectionSize ==
  ASSUME NEW paths, Len(paths) \in Nat, NEW p \in Calls(paths), NEW C \in Selections(paths, p)
  PROVE  /\ IsFiniteSet(C) /\ Cardinality(C) \in Nat
         /\ Cardinality(C) <= Len(paths) - p.at + 1
<1>1. p.at \in 1 .. Len(paths) + 1 /\ C \subseteq p.at .. Len(paths)
  BY DEF Calls, Selections
<1>2. IsFiniteSet(p.at .. Len(paths)) /\ Cardinality(p.at .. Len(paths)) = Len(paths) - p.at + 1
  <2>1. PICK a \in Int, b \in Int : a = p.at /\ b = Len(paths) /\ a <= b + 1
    BY <1>1
  <2>2. IsFiniteSet(a .. b) /\ Cardinality(a .. b) = IF a > b THEN 0 ELSE b - a + 1
    BY FS_Interval
  <2> QED
    BY <2>1, <2>2
<1>3. IsFiniteSet(C) /\ Cardinality(C) <= Cardinality(p.at .. Len(paths))
  BY <1>1, <1>2, FS_Subset
<1> QED
  BY <1>2, <1>3, FS_CardinalityType

\* Leaving the path leaves the choices without it; taking it leaves those that go with it.
LEMMA LeavingSelects ==
  ASSUME NEW paths, Len(paths) \in Nat, NEW p \in Calls(paths), p.at <= Len(paths), NEW acc
  PROVE  /\ \A C \in Selections(paths, Onward(p, p.taken, p.used, acc)) : C \in Selections(paths, p)
         /\ \A C \in Selections(paths, p) : p.at \notin C =>
              C \in Selections(paths, Onward(p, p.taken, p.used, acc))
<1>1. p.at \in 1 .. Len(paths)
  BY DEF Calls
<1>2. p.at + 1 .. Len(paths) = (p.at .. Len(paths)) \ {p.at}
  BY <1>1
<1> QED
  BY <1>2 DEF Selections, Onward

\* A choice after taking a path is a choice with that path, and the other way round.
LEMMA TakingSelects ==
  ASSUME NEW paths, Len(paths) \in Nat, NEW p \in Calls(paths), p.at <= Len(paths), NEW q,
         q.at = p.at + 1, q.used = p.used \cup PathLinks(paths[p.at])
  PROVE  /\ \A C \in Selections(paths, q) : PathLinks(paths[p.at]) \cap p.used = {} =>
              C \cup {p.at} \in Selections(paths, p)
         /\ \A C \in Selections(paths, p) : p.at \in C => PathLinks(paths[p.at]) \cap p.used = {}
         /\ \A C \in Selections(paths, p) : p.at \in C => C \ {p.at} \in Selections(paths, q)
<1> DEFINE i == p.at
           n == Len(paths)
<1>1. i \in 1 .. n /\ n \in Nat /\ p.taken \in Nat
  BY DEF Calls
<1>2. i + 1 .. n = (i .. n) \ {i}
  BY <1>1
<1>3. q.at = i + 1 /\ q.used = p.used \cup PathLinks(paths[i])
  OBVIOUS
<1> HIDE DEF i, n
<1>4. ASSUME NEW C \in Selections(paths, q)
      PROVE  PathLinks(paths[i]) \cap p.used = {} => C \cup {i} \in Selections(paths, p)
  <2>1. /\ C \subseteq (i .. n) \ {i} /\ i \notin C
        /\ \A j \in C : PathLinks(paths[j]) \cap p.used = {} /\ PathLinks(paths[j]) \cap PathLinks(paths[i]) = {}
        /\ \A j, k \in C : j # k => PathLinks(paths[j]) \cap PathLinks(paths[k]) = {}
    BY <1>2, <1>3 DEF Selections, Apart, n
  <2>2. C \cup {i} \subseteq i .. n
    <3>1. i \in i .. n
      BY <1>1
    <3> QED
      BY <2>1, <3>1, Zenon
  <2>3. PathLinks(paths[i]) \cap p.used = {} => Apart(paths, p.used, C \cup {i})
    BY <2>1 DEF Apart
  <2> QED
    BY <1>1, <1>3, <2>2, <2>3 DEF Selections, i, n
<1>5. ASSUME NEW C \in Selections(paths, p), i \in C
      PROVE  /\ PathLinks(paths[i]) \cap p.used = {}
             /\ C \ {i} \in Selections(paths, q)
  <2>1. /\ C \subseteq i .. n
        /\ \A j \in C : PathLinks(paths[j]) \cap p.used = {}
        /\ \A j, k \in C : j # k => PathLinks(paths[j]) \cap PathLinks(paths[k]) = {}
    BY DEF Selections, Apart, i, n
  <2>2. C \ {i} \subseteq i + 1 .. n
    BY <1>2, <2>1
  <2>3. Apart(paths, q.used, C \ {i})
    BY <1>3, <1>5, <2>1 DEF Apart
  <2>6. C \ {i} \in Selections(paths, q)
    BY <1>3, <2>2, <2>3 DEF Selections, n
  <2>8. PathLinks(paths[i]) \cap p.used = {}
    BY <1>5, <2>1
  <2> QED
    BY <2>6, <2>8
<1> QED
  BY <1>4, <1>5 DEF i

\* If the calls one path further on answer right, so does this one.
LEMMA CallRight ==
  ASSUME NEW paths, Len(paths) \in Nat, NEW required \in Nat, NEW f, NEW p \in Calls(paths),
         \A q \in Calls(paths) : q.at = p.at + 1 => Right(paths, required, q, f[q])
  PROVE  Right(paths, required, p, Result(paths, required, f, p))
<1>1. p.at \in 1 .. Len(paths) + 1 /\ p.taken \in Nat /\ p.acc \in Results /\ p.acc.best \in Nat
      /\ p.acc.exhausted \in BOOLEAN
  BY DEF Calls, Results
<1>2. CASE p.acc.exhausted
  <2>1. Result(paths, required, f, p) = p.acc
    BY <1>2 DEF Result
  <2> QED
    BY <1>1, <1>2, <2>1 DEF Right
<1>3. CASE ~p.acc.exhausted /\ p.acc.budget = 0
  <2>1. PICK out : out = [p.acc EXCEPT !.exhausted = TRUE]
    OBVIOUS
  <2>2. out \in Results /\ out.best = p.acc.best /\ out.exhausted
    BY <1>1, <2>1 DEF Results
  <2>3. Result(paths, required, f, p) = out
    BY <1>3, <2>1 DEF Result
  <2> QED
    BY <1>1, <1>3, <2>2, <2>3 DEF Right
<1>4. CASE ~p.acc.exhausted /\ p.acc.budget # 0
  <2>1. PICK paid : paid = Paid(p.acc)
    OBVIOUS
  <2>2. paid \in Results /\ paid.best = p.acc.best /\ ~paid.exhausted
    BY <1>1, <1>4, <2>1, Passing
  <2>3. CASE paid.best >= required
    <3>1. Result(paths, required, f, p) = paid
      BY <1>4, <2>1, <2>3 DEF Result
    <3> QED
      BY <1>1, <1>4, <2>2, <2>3, <3>1 DEF Right
  <2>4. CASE ~(paid.best >= required) /\ p.at > Len(paths)
    <3>1. PICK out : out = [paid EXCEPT !.best = Max({paid.best, p.taken})]
      OBVIOUS
    <3>2. Result(paths, required, f, p) = out
      BY <1>4, <2>1, <2>4, <3>1, Zenon DEF Result
    <3>3. PICK m \in Nat : m = Max({paid.best, p.taken}) /\ m >= paid.best /\ m >= p.taken
                           /\ m \in {paid.best, p.taken}
      BY <1>1, <2>2, MaxOfTwo
    <3>4. out \in Results /\ out.best = m /\ ~out.exhausted
      BY <2>2, <3>1, <3>3 DEF Results
    <3>5. \A C \in Selections(paths, p) : C = {}
      <4>1. p.at .. Len(paths) = {}
        BY <1>1, <2>4
      <4> QED
        BY <4>1 DEF Selections
    <3>6. {} \in Selections(paths, p)
      BY DEF Selections, Apart
    <3>7. p.taken + Cardinality({}) = p.taken
      BY <1>1, FS_EmptySet
    <3>8. m > p.acc.best => \E C \in Selections(paths, p) : p.taken + Cardinality(C) = m
      BY <1>1, <2>2, <3>3, <3>6, <3>7
    <3>9. \A C \in Selections(paths, p) : p.taken + Cardinality(C) <= m
      BY <1>1, <3>3, <3>5, <3>7
    <3> QED
      BY <1>1, <1>4, <2>2, <3>2, <3>3, <3>4, <3>8, <3>9 DEF Right
  <2>5. CASE /\ ~(paid.best >= required) /\ ~(p.at > Len(paths))
             /\ Hopeless(p.taken, Len(paths) - p.at + 1, paid.best)
    <3>1. Result(paths, required, f, p) = paid
      BY <1>4, <2>1, <2>5 DEF Result
    <3>2. ASSUME NEW C \in Selections(paths, p) PROVE p.taken + Cardinality(C) <= paid.best
      <4>1. Cardinality(C) \in Nat /\ Cardinality(C) <= Len(paths) - p.at + 1
        BY SelectionSize
      <4>2. p.taken + (Len(paths) - p.at + 1) <= paid.best /\ paid.best \in Nat
        BY <1>1, <2>2, <2>5 DEF Hopeless
      <4> QED
        BY <1>1, <4>1, <4>2
    <3> QED
      BY <1>1, <1>4, <2>2, <3>1, <3>2 DEF Right
  <2>6. CASE /\ ~(paid.best >= required) /\ ~(p.at > Len(paths))
             /\ ~Hopeless(p.taken, Len(paths) - p.at + 1, paid.best)
    <3>1. p.at <= Len(paths)
      BY <1>1, <2>6
    <3> DEFINE free == PathLinks(paths[p.at]) \cap p.used = {}
    <3>0. PICK deep : deep = Onward(p, p.taken + 1, p.used \cup PathLinks(paths[p.at]), paid)
      OBVIOUS
    <3>2. PICK took : took = IF free THEN f[deep] ELSE paid
      OBVIOUS
    <3>3. deep \in Calls(paths) /\ deep.at = p.at + 1 /\ deep.acc = paid
      <4>1. deep.at = p.at + 1 /\ deep.acc = paid
        BY <3>0 DEF Onward
      <4> QED
        BY <2>2, <3>0, <3>1, <4>1, Passing
    <3>4. Right(paths, required, deep, f[deep])
      BY <3>3
    <3>5. took \in Results /\ took.best >= paid.best
      BY <2>2, <3>2, <3>3, <3>4 DEF Right, Results
    <3> DEFINE flat == Onward(p, p.taken, p.used, took)
    <3>6. flat \in Calls(paths) /\ flat.at = p.at + 1 /\ flat.acc = took /\ flat.taken = p.taken
      <4>1. flat.at = p.at + 1 /\ flat.acc = took /\ flat.taken = p.taken
        BY DEF Onward
      <4> QED
        BY <3>1, <3>5, <4>1, Passing
    <3>7. PICK out : out = f[flat]
      OBVIOUS
    <3>8. Result(paths, required, f, p) = out
      <4>1. Took(paths, f, p) = took
        BY <2>1, <3>0, <3>2 DEF Took
      <4> QED
        BY <1>4, <2>1, <2>6, <3>7, <4>1 DEF Result
    <3>9. Right(paths, required, flat, out)
      BY <3>6, <3>7
    <3>10. /\ out \in Results /\ out.best \in Nat /\ took.best \in Nat /\ took.best <= out.best
           /\ took.exhausted => out.exhausted
           /\ out.best > took.best => \E C \in Selections(paths, flat) : p.taken + Cardinality(C) = out.best
           /\ ~out.exhausted /\ out.best < required =>
                \A C \in Selections(paths, flat) : p.taken + Cardinality(C) <= out.best
      BY <3>5, <3>6, <3>9 DEF Right, Results
    <3>11. /\ free => /\ took.exhausted \in BOOLEAN
                      /\ took.best > paid.best =>
                           \E C \in Selections(paths, deep) : deep.taken + Cardinality(C) = took.best
                      /\ ~took.exhausted /\ took.best < required =>
                           \A C \in Selections(paths, deep) : deep.taken + Cardinality(C) <= took.best
           /\ ~free => took = paid
      BY <3>2, <3>3, <3>4, <3>5 DEF Right, Results
    <3>12. /\ \A C \in Selections(paths, flat) : C \in Selections(paths, p)
           /\ \A C \in Selections(paths, p) : p.at \notin C => C \in Selections(paths, flat)
      BY <3>1, LeavingSelects
    <3>13. /\ free => \A C \in Selections(paths, deep) :
                /\ C \cup {p.at} \in Selections(paths, p)
                /\ deep.taken + Cardinality(C) = p.taken + Cardinality(C \cup {p.at})
           /\ \A C \in Selections(paths, p) : p.at \in C =>
                /\ free
                /\ C \ {p.at} \in Selections(paths, deep)
                /\ deep.taken + Cardinality(C \ {p.at}) = p.taken + Cardinality(C)
      <4>1. deep.at = p.at + 1 /\ deep.taken = p.taken + 1
            /\ deep.used = p.used \cup PathLinks(paths[p.at])
        BY <3>0 DEF Onward
      <4>2. \A C \in Selections(paths, deep) : PathLinks(paths[p.at]) \cap p.used = {} =>
              C \cup {p.at} \in Selections(paths, p)
        BY <3>1, <4>1, TakingSelects, Zenon
      <4>3. ASSUME NEW C \in Selections(paths, deep)
            PROVE  deep.taken + Cardinality(C) = p.taken + Cardinality(C \cup {p.at})
        <5>1. p.at \notin C
          BY <1>1, <4>1 DEF Selections
        <5>2. IsFiniteSet(C) /\ Cardinality(C) \in Nat
          BY <3>3, SelectionSize
        <5>3. Cardinality(C \cup {p.at}) = Cardinality(C) + 1
          BY <5>1, <5>2, FS_AddElement
        <5> QED
          BY SMTT(60), <1>1, <4>1, <5>2, <5>3
      <4>4. \A C \in Selections(paths, p) : p.at \in C => PathLinks(paths[p.at]) \cap p.used = {}
        BY <3>1, <4>1, TakingSelects, Zenon
      <4>5. \A C \in Selections(paths, p) : p.at \in C => C \ {p.at} \in Selections(paths, deep)
        BY <3>1, <4>1, TakingSelects, Zenon
      <4>6. ASSUME NEW C \in Selections(paths, p), p.at \in C
            PROVE  deep.taken + Cardinality(C \ {p.at}) = p.taken + Cardinality(C)
        <5>1. IsFiniteSet(C) /\ Cardinality(C) \in Nat
          BY SelectionSize
        <5>2. Cardinality(C \ {p.at}) = Cardinality(C) - 1
          BY <4>6, <5>1, FS_RemoveElement
        <5> QED
          BY SMTT(60), <1>1, <4>1, <5>1, <5>2
      <4> QED
        BY <4>2, <4>3, <4>4, <4>5, <4>6
    <3> HIDE DEF free, flat
    <3>14. p.acc.best <= out.best
      BY <1>1, <2>2, <3>5, <3>10
    <3>15. ASSUME out.best > p.acc.best
           PROVE  \E C \in Selections(paths, p) : p.taken + Cardinality(C) = out.best
      <4>1. CASE out.best > took.best
        BY <3>10, <3>12, <4>1
      <4>2. CASE ~(out.best > took.best)
        <5>1. out.best = took.best /\ took.best > paid.best
          BY <1>1, <2>2, <3>10, <3>15, <4>2
        <5>2. free
          BY <1>1, <2>2, <3>11, <5>1
        <5>3. PICK C \in Selections(paths, deep) : deep.taken + Cardinality(C) = took.best
          BY <3>11, <5>1, <5>2
        <5> QED
          BY <3>13, <5>1, <5>2, <5>3
      <4> QED
        BY <4>1, <4>2
    <3>16. ASSUME ~out.exhausted, out.best < required, NEW C \in Selections(paths, p)
           PROVE  p.taken + Cardinality(C) <= out.best
      <4>1. CASE p.at \notin C
        BY <3>10, <3>12, <3>16, <4>1
      <4>2. CASE p.at \in C
        <5>1. free /\ C \ {p.at} \in Selections(paths, deep)
              /\ deep.taken + Cardinality(C \ {p.at}) = p.taken + Cardinality(C)
          BY <3>13, <4>2
        <5>2. ~took.exhausted /\ took.best < required
          BY <3>10, <3>16
        <5>3. deep.taken + Cardinality(C \ {p.at}) <= took.best
          BY <3>11, <5>1, <5>2
        <5>4. p.taken + Cardinality(C) <= took.best
          BY <5>1, <5>3
        <5>5. Cardinality(C) \in Nat
          BY SelectionSize
        <5> QED
          BY <1>1, <3>10, <5>4, <5>5
      <4> QED
        BY <4>1, <4>2
    <3> QED
      BY <1>4, <3>8, <3>10, <3>14, <3>15, <3>16 DEF Right
  <2> QED
    BY <2>3, <2>4, <2>5, <2>6
<1> QED
  BY <1>2, <1>3, <1>4

\* Every call answers right.
LEMMA SearchRight ==
  ASSUME NEW paths, Len(paths) \in Nat, NEW required \in Nat, NEW f, IsSearch(paths, required, f),
         NEW p \in Calls(paths)
  PROVE  Right(paths, required, p, f[p])
<1> DEFINE n == Len(paths)
           Wrong == {k \in Nat : \E q \in Calls(paths) : q.at = n + 1 - k /\ ~Right(paths, required, q, f[q])}
<1>1. \A q \in Calls(paths) : q.at \in 1 .. n + 1
  BY DEF Calls
<1>2. Wrong = {}
  <2> SUFFICES ASSUME Wrong # {} PROVE FALSE
    OBVIOUS
  <2>1. PICK k \in Wrong : \A j \in Wrong : k <= j
    <3>1. Wrong \subseteq Nat
      OBVIOUS
    <3> HIDE DEF Wrong
    <3> QED
      BY <3>1, LeastNat
  <2>2. k \in Nat
    OBVIOUS
  <2>3. PICK q \in Calls(paths) : q.at = n + 1 - k /\ ~Right(paths, required, q, f[q])
    OBVIOUS
  <2>4. f[q] = Result(paths, required, f, q)
    BY DEF IsSearch
  <2>5. ASSUME NEW o \in Calls(paths), o.at = q.at + 1 PROVE Right(paths, required, o, f[o])
    <3>1. k - 1 \in Nat /\ o.at = n + 1 - (k - 1)
      BY <1>1, <2>2, <2>3, <2>5
    <3>2. k - 1 \notin Wrong
      <4> HIDE DEF Wrong
      <4> QED
        BY <2>1, <2>2
    <3> QED
      BY <3>1, <3>2
  <2>6. Right(paths, required, q, Result(paths, required, f, q))
    BY <2>5, CallRight
  <2> QED
    BY <2>3, <2>4, <2>6
<1>3. n + 1 - p.at \in Nat /\ p.at = n + 1 - (n + 1 - p.at)
  BY <1>1
<1> QED
  BY <1>2, <1>3

\* The bindings come in the order of their identities: each has a place of its own.
LEMMA InOrderLists ==
  ASSUME NEW S, IsFiniteSet(S), S \subseteq Nat
  PROVE  /\ Cardinality(S) \in Nat
         /\ InOrder(S) \in [1 .. Cardinality(S) -> S]
         /\ \A i, j \in 1 .. Cardinality(S) : InOrder(S)[i] = InOrder(S)[j] => i = j
         /\ \A x \in S : \E i \in 1 .. Cardinality(S) : InOrder(S)[i] = x
<1> DEFINE n == Cardinality(S)
           below(x) == {y \in S : y < x}
           rank == [x \in S |-> Cardinality(below(x))]
<1>1. n \in Nat
  BY FS_CardinalityType
<1>2. ASSUME NEW x \in S
      PROVE  IsFiniteSet(below(x)) /\ Cardinality(below(x)) \in 0 .. n - 1
  <2>1. below(x) \in SUBSET (S \ {x})
    OBVIOUS
  <2>2. IsFiniteSet(S \ {x}) /\ Cardinality(S \ {x}) = n - 1
    BY FS_RemoveElement
  <2> HIDE DEF below
  <2>3. IsFiniteSet(below(x)) /\ Cardinality(below(x)) <= n - 1
    BY <2>1, <2>2, FS_Subset
  <2>4. Cardinality(below(x)) \in Nat
    BY <2>3, FS_CardinalityType
  <2> QED
    BY <1>1, <2>3, <2>4
<1>3. ASSUME NEW x \in S, NEW y \in S, x < y
      PROVE  rank[x] < rank[y]
  <2>1. below(x) \in SUBSET below(y) /\ x \in below(y) /\ x \notin below(x)
    <3>1. x \in Nat /\ y \in Nat /\ \A z \in S : z \in Nat
      OBVIOUS
    <3>2. ~(x < x) /\ \A z \in S : z < x => z < y
      BY <1>3, <3>1
    <3>3. x \in below(y) /\ x \notin below(x)
      BY <1>3, <3>2
    <3>4. below(x) \subseteq below(y)
      BY <3>2
    <3> QED
      BY <3>3, <3>4
  <2>2. IsFiniteSet(below(y)) /\ rank[x] = Cardinality(below(x)) /\ rank[y] = Cardinality(below(y))
    BY <1>2
  <2>3. Cardinality(below(x)) \in Int /\ Cardinality(below(y)) \in Int
    <3> HIDE DEF below, n
    <3> QED
      BY <1>2
  <2> HIDE DEF below, rank
  <2>4. Cardinality(below(x)) <= Cardinality(below(y))
        /\ Cardinality(below(y)) # Cardinality(below(x))
    BY <2>1, <2>2, FS_Subset
  <2> QED
    BY <2>2, <2>3, <2>4
<1>4. rank \in [S -> 0 .. n - 1]
  BY <1>2
<1> HIDE DEF rank
<1>5. ASSUME NEW x \in S, NEW y \in S, rank[x] = rank[y] PROVE x = y
  <2>1. rank[x] \in Int
    BY <1>4
  <2>2. ~(x < y) /\ ~(y < x)
    BY <1>3, <1>5, <2>1
  <2> QED
    BY <2>2
<1>6. rank \in Injection(S, 0 .. n - 1)
  BY <1>4, <1>5 DEF Injection, IsInjective
<1>7. IsFiniteSet(0 .. n - 1) /\ Cardinality(0 .. n - 1) = n
  <2>1. PICK k \in Nat : k = n
    BY <1>1
  <2>2. PICK a \in Int, b \in Int : a = 0 /\ b = k - 1
    OBVIOUS
  <2>3. IsFiniteSet(a .. b) /\ Cardinality(a .. b) = IF a > b THEN 0 ELSE b - a + 1
    BY FS_Interval
  <2>4. (IF a > b THEN 0 ELSE b - a + 1) = k
    BY <2>2
  <2> QED
    BY <2>1, <2>2, <2>3, <2>4
<1>8. rank \in Surjection(S, 0 .. n - 1)
  BY <1>6, <1>7, FS_Injection
<1>9. \A i \in 1 .. n : \E x \in S : rank[x] = i - 1
  BY <1>1, <1>8 DEF Surjection
<1>10. \A x \in S : rank[x] = Cardinality({y \in S : y < x})
  BY DEF rank
<1> DEFINE a == InOrder(S)
<1>11. ASSUME NEW i \in 1 .. n PROVE a[i] \in S /\ rank[a[i]] = i - 1
  <2>1. a[i] = CHOOSE x \in S : Cardinality({y \in S : y < x}) = i - 1
    BY DEF InOrder
  <2>2. \E x \in S : Cardinality({y \in S : y < x}) = i - 1
    BY <1>9, <1>10
  <2>3. a[i] \in S /\ Cardinality({y \in S : y < a[i]}) = i - 1
    BY <2>1, <2>2
  <2> QED
    BY <1>10, <2>3
<1>12. a = [i \in 1 .. n |-> CHOOSE x \in S : Cardinality({y \in S : y < x}) = i - 1]
  BY Zenon DEF InOrder
<1> HIDE DEF a, n
<1>13. a \in [1 .. n -> S]
  <2> DEFINE e(i) == CHOOSE x \in S : Cardinality({y \in S : y < x}) = i - 1
  <2>1. a = [i \in 1 .. n |-> e(i)]
    BY <1>12
  <2> HIDE DEF e
  <2> QED
    BY <1>11, <2>1
<1>14. \A i, j \in 1 .. n : a[i] = a[j] => i = j
  BY <1>1, <1>11
<1>15. ASSUME NEW x \in S PROVE \E i \in 1 .. n : a[i] = x
  <2>1. rank[x] + 1 \in 1 .. n
    BY <1>1, <1>4
  <2>2. a[rank[x] + 1] \in S /\ rank[a[rank[x] + 1]] = rank[x]
    BY <1>1, <1>4, <1>11, <2>1
  <2> QED
    BY <1>5, <2>1, <2>2
<1> QED
  BY <1>1, <1>13, <1>14, <1>15 DEF a, n

\* A finite set has a subset of every smaller size.
LEMMA SubsetOfSize ==
  ASSUME NEW C, IsFiniteSet(C), NEW k \in Nat, k <= Cardinality(C)
  PROVE  \E D \in SUBSET C : Cardinality(D) = k
<1> DEFINE Sizes == {m \in Nat : m >= k /\ \E D \in SUBSET C : Cardinality(D) = m}
<1>1. Cardinality(C) \in Sizes
  BY FS_CardinalityType
<1>2. PICK m \in Sizes : \A j \in Sizes : m <= j
  <2>1. Sizes \subseteq Nat /\ Sizes # {}
    BY <1>1
  <2> HIDE DEF Sizes
  <2> QED
    BY <2>1, LeastNat
<1>3. PICK D \in SUBSET C : Cardinality(D) = m /\ m >= k /\ m \in Nat
  OBVIOUS
<1>4. IsFiniteSet(D)
  BY FS_Subset
<1>5. CASE m = k
  BY <1>3, <1>5
<1>6. CASE m # k
  <2>1. PICK x : x \in D
    BY <1>3, <1>6, FS_EmptySet
  <2>2. Cardinality(D \ {x}) = m - 1
    BY <1>3, <1>4, <2>1, FS_RemoveElement
  <2>3. m - 1 \in Sizes
    <3>1. m - 1 \in Nat /\ m - 1 >= k
      BY <1>3, <1>6
    <3>2. D \ {x} \in SUBSET C
      OBVIOUS
    <3> QED
      BY <2>2, <3>1, <3>2
  <2> HIDE DEF Sizes
  <2> QED
    BY <1>2, <1>3, <2>3
<1> QED
  BY <1>5, <1>6

\* A list of sets of routes, as many of them as of places.
LEMMA SameCount ==
  ASSUME NEW C, NEW order, IsFiniteSet(C), \A i, j \in C : order[i] = order[j] => i = j
  PROVE  Cardinality({order[i] : i \in C}) = Cardinality(C)
<1> DEFINE T == {order[i] : i \in C}
           f == [i \in C |-> order[i]]
<1>1. f \in Bijection(C, T)
  BY DEF Bijection, Injection, Surjection, IsInjective
<1> QED
  BY <1>1, FS_Bijection DEF ExistsBijection

\* The smaller of two counts.
LEMMA LesserOfTwo ==
  ASSUME NEW a \in Nat, NEW b \in Nat
  PROVE  Min({a, b}) \in Nat /\ Min({a, b}) <= a /\ (a <= b => Min({a, b}) = a)
<1>1. \E x \in {a, b} : \A y \in {a, b} : x <= y
  OBVIOUS
<1>2. Min({a, b}) \in {a, b} /\ \A y \in {a, b} : Min({a, b}) <= y
  BY <1>1 DEF Min
<1> QED
  BY <1>2

\* What an answer found of the search says of the routes R.
Telling(s, required, R, found) ==
  /\ found.exhausted \in BOOLEAN /\ found.best \in Nat
  /\ found.best >= required =>
       \E D \in SUBSET R : Cardinality(D) = required /\ LinkDisjoint(s, D)
  /\ ~found.exhausted /\ Cardinality(R) <= DiversityPaths /\ found.best < required =>
       ~\E D \in SUBSET R : Cardinality(D) = required /\ LinkDisjoint(s, D)

\* The search tells of the eligible routes of a workload.
LEMMA DiversityFound ==
  ASSUME NEW s, NEW w, NEW required \in Nat, NEW R, R = Eligible(s, w), IsFiniteSet(R), R \subseteq Nat,
         NEW found, found = MaximumDisjoint(s, w, required)
  PROVE  Telling(s, required, R, found)
<1>a. PICK order : order = InOrder(R)
  OBVIOUS
<1>b. PICK n : n = Cardinality(R)
  OBVIOUS
<1>1. /\ n \in Nat
      /\ order \in [1 .. n -> R]
      /\ \A i, j \in 1 .. n : order[i] = order[j] => i = j
      /\ \A x \in R : \E i \in 1 .. n : order[i] = x
  BY <1>a, <1>b, InOrderLists
<1>2. Len(order) = n
  BY <1>1
<1>3. PICK considered \in Nat :
        /\ considered = Min({Len(order), DiversityPaths})
        /\ considered <= n /\ (n <= DiversityPaths => considered = n)
  BY <1>1, <1>2, LesserOfTwo, DiversityAssumption
<1>4. PICK paths : paths = [i \in 1 .. considered |-> s.route[order[i]].path]
  OBVIOUS
<1>5. found = Explored(paths, required)
  BY <1>a, <1>3, <1>4 DEF MaximumDisjoint
<1>6. Len(paths) = considered /\ \A i \in 1 .. considered : paths[i] = s.route[order[i]].path
  BY <1>3, <1>4
<1>7. PICK start : start = [at |-> 1, taken |-> 0, used |-> {},
                            acc |-> [best |-> 0, budget |-> DiversityBudget, exhausted |-> FALSE]]
  OBVIOUS
<1>8. start \in Calls(paths)
  <2>1. 1 \in 1 .. Len(paths) + 1
    BY <1>3, <1>6
  <2> QED
    BY <1>7, <2>1, DiversityAssumption DEF Calls
<1>9. PICK g : IsSearch(paths, required, g) /\ found = g[start]
  <2>1. PICK f : IsSearch(paths, required, f)
    BY <1>3, <1>6, SearchExists
  <2> QED
    BY <1>5, <1>7, <2>1, FirstCall
<1>10. Right(paths, required, start, found)
  BY <1>3, <1>6, <1>8, <1>9, SearchRight
<1>11. /\ start.at = 1 /\ start.taken = 0 /\ start.used = {} /\ start.acc.best = 0
  BY <1>7
<1>12. \A C : C \in Selections(paths, start) <=>
         /\ C \in SUBSET (1 .. considered)
         /\ \A i, j \in C : i # j => PathLinks(paths[i]) \cap PathLinks(paths[j]) = {}
  BY <1>6, <1>11 DEF Selections, Apart
<1>13. found.exhausted \in BOOLEAN /\ found.best \in Nat
  BY <1>10 DEF Right, Results
<1>14. \A C \in SUBSET (1 .. considered) : IsFiniteSet(C) /\ Cardinality(C) \in Nat
  <2>1. IsFiniteSet(1 .. considered)
    BY <1>3, FS_Interval
  <2> QED
    BY <2>1, FS_Subset, FS_CardinalityType
<1>15. 1 .. considered \subseteq 1 .. n
  BY <1>1, <1>3
<1>16. ASSUME found.best >= required
       PROVE  \E D \in SUBSET R : Cardinality(D) = required /\ LinkDisjoint(s, D)
  <2>1. CASE required = 0
    <3>1. Cardinality({}) = 0 /\ LinkDisjoint(s, {})
      BY FS_EmptySet DEF LinkDisjoint
    <3> QED
      BY <2>1, <3>1
  <2>2. CASE required # 0
    <3>1. PICK C \in Selections(paths, start) : 0 + Cardinality(C) = found.best
      BY <1>10, <1>11, <1>13, <1>16, <2>2 DEF Right
    <3>2. C \in SUBSET (1 .. considered) /\ IsFiniteSet(C) /\ Cardinality(C) \in Nat
      BY <1>12, <1>14
    <3>3. PICK B \in SUBSET C : Cardinality(B) = required
      BY <1>16, <3>1, <3>2, SubsetOfSize
    <3>4. IsFiniteSet(B) /\ B \in SUBSET (1 .. considered)
      BY <3>2, FS_Subset
    <3> DEFINE D == {order[i] : i \in B}
    <3>5. \A i, j \in B : order[i] = order[j] => i = j
      BY <1>1, <1>15, <3>4
    <3>6. Cardinality(D) = required
      BY <3>3, <3>4, <3>5, SameCount
    <3>7. D \in SUBSET R
      BY <1>1, <1>15, <3>4
    <3>8. LinkDisjoint(s, D)
      <4> SUFFICES ASSUME NEW i \in B, NEW j \in B, order[i] # order[j]
                   PROVE  PathLinks(s.route[order[i]].path) \cap PathLinks(s.route[order[j]].path) = {}
        BY DEF LinkDisjoint
      <4>1. i \in C /\ j \in C /\ i # j
        BY <3>3
      <4>2. PathLinks(paths[i]) \cap PathLinks(paths[j]) = {}
        BY <1>12, <4>1
      <4> QED
        BY <1>6, <3>4, <4>2
    <3> QED
      BY <3>6, <3>7, <3>8
  <2> QED
    BY <2>1, <2>2
<1>17. ASSUME ~found.exhausted, n <= DiversityPaths, found.best < required,
              NEW D \in SUBSET R, Cardinality(D) = required, LinkDisjoint(s, D)
       PROVE  FALSE
  <2> DEFINE C == {i \in 1 .. n : order[i] \in D}
  <2>1. considered = n
    BY <1>3, <1>17
  <2>2. C \in SUBSET (1 .. considered) /\ IsFiniteSet(C)
    BY <1>14, <2>1
  <2>3. D = {order[i] : i \in C}
    <3>1. \A i \in C : order[i] \in D
      OBVIOUS
    <3>2. \A x \in D : \E i \in C : order[i] = x
      <4> SUFFICES ASSUME NEW x \in D PROVE \E i \in C : order[i] = x
        OBVIOUS
      <4>1. PICK i \in 1 .. n : order[i] = x
        BY <1>1
      <4> QED
        BY <4>1
    <3> HIDE DEF C
    <3> QED
      BY <3>1, <3>2
  <2>4. \A i, j \in C : order[i] = order[j] => i = j
    BY <1>1
  <2>5. Cardinality(C) = required
    <3> HIDE DEF C
    <3> QED
      BY <1>17, <2>2, <2>3, <2>4, SameCount
  <2>6. ASSUME NEW i \in C, NEW j \in C, i # j
        PROVE  PathLinks(paths[i]) \cap PathLinks(paths[j]) = {}
    <3>1. order[i] \in D /\ order[j] \in D /\ order[i] # order[j]
      BY <2>4, <2>6
    <3>2. PathLinks(s.route[order[i]].path) \cap PathLinks(s.route[order[j]].path) = {}
      BY <1>17, <3>1 DEF LinkDisjoint
    <3> QED
      BY <1>6, <2>1, <3>2
  <2>7. C \in Selections(paths, start)
    BY <1>12, <2>2, <2>6
  <2> HIDE DEF C
  <2>8. start.taken + Cardinality(C) <= found.best
    BY <1>10, <1>17, <2>7 DEF Right
  <2> QED
    BY <1>11, <1>13, <1>17, <2>5, <2>8
<1> QED
  BY <1>1, <1>b, <1>13, <1>16, <1>17 DEF Telling

\* DiversityExact: a workload the diversity check lets pass has as many eligible routes
\* without a common link as it asks for, and one it reports has not, unless the search
\* was cut short (max_disjoint_paths, check_invariants).
THEOREM DiversityIsExact == Spec => []DiversityExact
<1>1. ASSUME NEW s, IsSnapshot(s), IsFiniteSet(DOMAIN s.route), DOMAIN s.route \subseteq Nat,
             NEW w \in DOMAIN s.workload
      PROVE  LET routes == Eligible(s, w)
                 required == s.workload[w].req.paths
                 enough == \E R \in SUBSET routes : Cardinality(R) = required /\ LinkDisjoint(s, R)
                 cutShort == Cardinality(routes) > DiversityPaths \/ MaximumDisjoint(s, w, required).exhausted
             IN  /\ w \notin UnderDiverse(s) => enough
                 /\ (w \in UnderDiverse(s) /\ ~cutShort) => ~enough
  <2>1. PICK required \in Nat : required = s.workload[w].req.paths
    BY <1>1 DEF IsSnapshot, AreEntities, IsEntity, EntityKinds
  <2>2. PICK R : R = Eligible(s, w)
    OBVIOUS
  <2>3. IsFiniteSet(R) /\ R \subseteq Nat
    <3>1. R \subseteq DOMAIN s.route
      BY <2>2 DEF Eligible
    <3> QED
      BY <1>1, <3>1, FS_Subset
  <2>4. PICK found : found = MaximumDisjoint(s, w, required)
    OBVIOUS
  <2>5. Telling(s, required, R, found)
    BY <2>2, <2>3, <2>4, DiversityFound
  <2>6. w \in UnderDiverse(s) <=> required > 0 /\ (found.exhausted \/ found.best < required)
    BY <2>1, <2>4 DEF UnderDiverse
  <2>7. Cardinality(R) \in Nat /\ DiversityPaths \in Nat
    BY <2>3, FS_CardinalityType, DiversityAssumption
  <2>8. ASSUME w \notin UnderDiverse(s)
        PROVE  \E D \in SUBSET R : Cardinality(D) = required /\ LinkDisjoint(s, D)
    <3>1. found.best >= required
      BY <2>5, <2>6, <2>8 DEF Telling
    <3> QED
      BY <2>5, <3>1 DEF Telling
  <2>9. ASSUME w \in UnderDiverse(s), ~(Cardinality(R) > DiversityPaths), ~found.exhausted
        PROVE  ~\E D \in SUBSET R : Cardinality(D) = required /\ LinkDisjoint(s, D)
    <3>1. Cardinality(R) <= DiversityPaths /\ found.best < required
      BY <2>6, <2>7, <2>9
    <3> QED
      BY <2>5, <2>9, <3>1 DEF Telling
  <2> QED
    BY <2>1, <2>2, <2>4, <2>8, <2>9
<1>2. WalkInv => DiversityExact
  <2> SUFFICES ASSUME WalkInv PROVE DiversityExact
    OBVIOUS
  <2>1. IsSnapshot(fabric)
    BY DEF WalkInv
  <2>2. IsFiniteSet(DOMAIN fabric.route) /\ DOMAIN fabric.route \subseteq Nat
    BY WorldAssumption, FS_Subset DEF WalkInv, RoutesKept
  <2> QED
    BY <1>1, <2>1, <2>2 DEF DiversityExact
<1> QED
  BY <1>2, WalkInvariant, PTL

=============================================================================
