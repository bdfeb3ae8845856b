---------------------------- MODULE FabricLemmas ----------------------------
(***************************************************************************)
(* What apply_operation does to a snapshot, whatever its entities are: an  *)
(* operation puts one entry in place or drops one (ChangesOneEntry). The   *)
(* proofs about FabricWalk and about Lifecycle both start from here.       *)
(* Inductions over the natural numbers take a least counterexample         *)
(* (LeastNat).                                                             *)
(***************************************************************************)
EXTENDS Derivation, WellFoundedInduction, FiniteSetTheorems, TLAPS

Less == {e \in Nat \X Nat : e[1] < e[2]}

\* The order of the natural numbers is well founded.
LEMMA LessWellFounded == IsWellFoundedOn(Less, Nat)
<1>1. OpToRel(<, Nat) = Less
  BY Zenon DEF OpToRel, Less
<1> QED
  BY <1>1, NatLessThanWellFounded, Zenon

\* A set of natural numbers that is not empty has a least element.
LEMMA LeastNat ==
  ASSUME NEW T, T \subseteq Nat, T # {}
  PROVE  \E x \in T : \A y \in T : x <= y
<1>1. \E x \in T : \A y \in T : <<y, x>> \notin Less
  BY LessWellFounded, WFMin
<1>2. \A x, y \in Nat : <<y, x>> \in Less <=> y < x
  BY DEF Less
<1>3. \A x, y \in T : <<y, x>> \notin Less => x <= y
  BY <1>2
<1> QED
  BY <1>1, <1>3

\* A snapshot holds a function from identities for every kind of entity.
Shaped(s) ==
  IsFunction(s) /\ DOMAIN s = EntityKinds /\ \A kind \in EntityKinds : IsFunction(s[kind])

\* The entry an operation leaves behind, for the kinds that leave one.
EntryAfter(s, o) ==
  CASE o.kind \in {"device_add", "route_add", "workload_add", "policy_bind"} -> o.new
    [] o.kind = "link_add" -> [a |-> o.new.a, b |-> o.new.b, cap |-> o.new.cap, res |-> o.new.res,
                               transit |-> o.new.transit, state |-> "present"]
    [] o.kind = "config_set" ->
         [value |-> o.new.value,
          revision |-> IF Known(s, Written(o)) THEN s.config[o.id].revision + 1 ELSE 0]
    [] o.kind = "device_set_capacity" -> [s.device[o.id] EXCEPT !.cap = o.new.cap]
    [] o.kind = "device_set_windows" ->
         [s.device[o.id] EXCEPT !.excl = o.new.excl, !.maint = o.new.maint]
    [] o.kind \in WindowOps \cup {"device_set_state"} -> [s.device[o.id] EXCEPT !.state = StateAfter(o)]
    [] o.kind = "link_remove" -> [s.link[o.id] EXCEPT !.state = "removed"]
    [] o.kind = "link_set_capacity" -> [s.link[o.id] EXCEPT !.cap = o.new.cap]
    [] o.kind = "route_set_path" -> [source |-> o.new.source, sink |-> o.new.sink, path |-> o.new.path,
                                     policy |-> o.new.policy, state |-> s.route[o.id].state]
    [] o.kind = "route_set_state" -> [s.route[o.id] EXCEPT !.state = o.new.state]
    [] o.kind = "workload_set_bindings" -> [s.workload[o.id] EXCEPT !.bind = o.new.bind]
    [] o.kind = "workload_set_requirements" -> [s.workload[o.id] EXCEPT !.req = o.new.req]

AllKinds == DeviceOps \cup LinkOps \cup RouteOps \cup WorkloadOps \cup PolicyOps \cup ConfigOps

\* Changing an entry that is there is putting a changed entry in its place.
LEMMA ChangedIsPut ==
  ASSUME NEW s, Shaped(s), NEW kind \in EntityKinds, NEW i \in DOMAIN s[kind], NEW e
  PROVE  [s EXCEPT ![kind] = [@ EXCEPT ![i] = e]] = Put(s, kind, i, e)
<1>1. IsFunction(s[kind])
  BY DEF Shaped
<1>2. [s[kind] EXCEPT ![i] = e] = [j \in DOMAIN s[kind] \cup {i} |-> IF j = i THEN e ELSE s[kind][j]]
  BY <1>1 DEF IsFunction
<1> QED
  BY <1>2 DEF Put

\* Two fields of one entry, changed one after the other.
LEMMA EditedTwice ==
  ASSUME NEW s, Shaped(s), NEW i \in DOMAIN s.device, NEW x, NEW y
  PROVE  [s EXCEPT !.device[i].excl = x, !.device[i].maint = y] =
           [s EXCEPT !["device"] = [@ EXCEPT ![i] = [s.device[i] EXCEPT !.excl = x, !.maint = y]]]
<1> DEFINE d == s.device
           e == [d[i] EXCEPT !.excl = x]
           f == [e EXCEPT !.maint = y]
           t == [s EXCEPT !.device = [d EXCEPT ![i] = e]]
<1>1. /\ s = [kind \in EntityKinds |-> s[kind]] /\ d = [j \in DOMAIN d |-> d[j]]
  BY DEF Shaped, IsFunction, EntityKinds
<1>2. t.device = [d EXCEPT ![i] = e] /\ t.device[i] = e
  BY <1>1 DEF EntityKinds
<1>3. [t.device EXCEPT ![i] = f] = [d EXCEPT ![i] = f]
  BY <1>1, <1>2
<1>4. [t EXCEPT !.device = [d EXCEPT ![i] = f]] = [s EXCEPT !.device = [d EXCEPT ![i] = f]]
  BY <1>1 DEF EntityKinds
<1>5. [t EXCEPT !.device = [t.device EXCEPT ![i] = [t.device[i] EXCEPT !.maint = y]]]
        = [s EXCEPT !.device = [d EXCEPT ![i] = f]]
  BY <1>2, <1>3, <1>4
<1> QED
  BY <1>5, Zenon

\* Which kind of entity an operation is about.
LEMMA KindsSplit ==
  ASSUME NEW o
  PROVE  /\ o.kind \in DeviceOps => EntityKind(o) = "device"
         /\ o.kind \in LinkOps => EntityKind(o) = "link"
         /\ o.kind \in RouteOps => EntityKind(o) = "route"
         /\ o.kind \in WorkloadOps => EntityKind(o) = "workload"
         /\ o.kind \in PolicyOps => EntityKind(o) = "policy"
         /\ o.kind \in ConfigOps => EntityKind(o) = "config"
         /\ o.kind \in AllKinds => EntityKind(o) \in EntityKinds
  BY DEF EntityKind, EntityKinds, AllKinds, DeviceOps, MaintenanceOps, LinkOps, RouteOps, WorkloadOps,
         PolicyOps, ConfigOps

\* What an operation changes is there.
LEMMA ChangedIsKnown ==
  ASSUME NEW c, NEW s, NEW o, o.kind \in AllKinds, Possible(c, s, o),
         o.kind \notin AddOps \cup {"policy_bind", "config_set"}
  PROVE  o.id \in DOMAIN s[EntityKind(o)]
  BY DEF Possible, Known, Written

\* An operation writes one entry of the snapshot, or drops one.
LEMMA ChangesOneEntry ==
  ASSUME NEW c, NEW s, NEW o, Shaped(s), o.kind \in AllKinds, Possible(c, s, o)
  PROVE  Changed(s, o) = IF o.kind \in EraseOps THEN Drop(s, EntityKind(o), o.id)
                         ELSE Put(s, EntityKind(o), o.id, EntryAfter(s, o))
<1>1. CASE o.kind \in {"device_add", "route_add", "workload_add", "policy_bind"}
  <2>1. Changed(s, o) = Put(s, EntityKind(o), o.id, o.new)
    BY <1>1 DEF Changed, EraseOps, WindowOps, MaintenanceOps
  <2>2. EntryAfter(s, o) = o.new /\ o.kind \notin EraseOps
    BY <1>1 DEF EntryAfter, EraseOps, WindowOps, MaintenanceOps
  <2> QED
    BY <2>1, <2>2
<1>2. CASE o.kind \in EraseOps
  BY <1>2 DEF Changed, EraseOps, WindowOps, MaintenanceOps
<1>3. CASE o.kind \in {"link_add", "config_set", "route_set_path"}
  <2>1. CASE o.kind = "link_add"
    BY <2>1, KindsSplit DEF Changed, EntryAfter, EraseOps, WindowOps, MaintenanceOps, LinkOps
  <2>2. CASE o.kind = "config_set"
    BY <2>2, KindsSplit DEF Changed, EntryAfter, EraseOps, WindowOps, MaintenanceOps, ConfigOps
  <2>3. CASE o.kind = "route_set_path"
    BY <2>3, KindsSplit DEF Changed, EntryAfter, EraseOps, WindowOps, MaintenanceOps, RouteOps
  <2> QED
    BY <1>3, <2>1, <2>2, <2>3
<1>4. CASE o.kind \in DeviceOps \ {"device_add"}
  <2>1. EntityKind(o) = "device" /\ o.kind \notin EraseOps \cup AddOps \cup {"policy_bind", "config_set"}
    BY <1>4, KindsSplit DEF EraseOps, AddOps, DeviceOps, MaintenanceOps
  <2>2. o.id \in DOMAIN s["device"]
    BY <2>1, ChangedIsKnown
  <2> DEFINE Edited == [s EXCEPT !["device"] = [@ EXCEPT ![o.id] = EntryAfter(s, o)]]
  <2>3. ASSUME o.kind = "device_set_capacity" PROVE Changed(s, o) = Edited
    <3>1. EntryAfter(s, o) = [s.device[o.id] EXCEPT !.cap = o.new.cap]
      BY <2>3 DEF EntryAfter, EraseOps, WindowOps, MaintenanceOps
    <3>2. Changed(s, o) = [s EXCEPT !.device[o.id].cap = o.new.cap]
      BY <2>3 DEF Changed, EraseOps, WindowOps, MaintenanceOps
    <3> QED
      BY <3>1, <3>2, Zenon
  <2>4. ASSUME o.kind \in WindowOps \cup {"device_set_state"} PROVE Changed(s, o) = Edited
    <3>1. EntryAfter(s, o) = [s.device[o.id] EXCEPT !.state = StateAfter(o)]
      BY <2>4 DEF EntryAfter, EraseOps, WindowOps, MaintenanceOps
    <3>2. Changed(s, o) = [s EXCEPT !.device[o.id].state = StateAfter(o)]
      BY <2>4 DEF Changed, EraseOps, WindowOps, MaintenanceOps
    <3> QED
      BY <3>1, <3>2, Zenon
  <2>5. ASSUME o.kind = "device_set_windows" PROVE Changed(s, o) = Edited
    <3>1. EntryAfter(s, o) = [s.device[o.id] EXCEPT !.excl = o.new.excl, !.maint = o.new.maint]
      BY <2>5 DEF EntryAfter, EraseOps, WindowOps, MaintenanceOps
    <3>2. Changed(s, o) = [s EXCEPT !.device[o.id].excl = o.new.excl, !.device[o.id].maint = o.new.maint]
      BY <2>5 DEF Changed, EraseOps, WindowOps, MaintenanceOps
    <3> QED
      BY ZenonT(60), <2>2, <3>1, <3>2, EditedTwice
  <2>6. Changed(s, o) = Edited
    BY <1>4, <2>3, <2>4, <2>5 DEF DeviceOps, MaintenanceOps, WindowOps
  <2>7. "device" \in EntityKinds
    BY DEF EntityKinds
  <2>8. Edited = Put(s, "device", o.id, EntryAfter(s, o))
    BY <2>2, <2>7, ChangedIsPut
  <2> QED
    BY <2>1, <2>6, <2>8
<1>5. CASE o.kind \in {"link_remove", "link_set_capacity"}
  <2>1. EntityKind(o) = "link" /\ o.kind \notin EraseOps \cup AddOps \cup {"policy_bind", "config_set"}
    BY <1>5, KindsSplit DEF EraseOps, AddOps, LinkOps
  <2>2. o.id \in DOMAIN s["link"]
    BY <2>1, ChangedIsKnown
  <2> DEFINE Edited == [s EXCEPT !["link"] = [@ EXCEPT ![o.id] = EntryAfter(s, o)]]
  <2>3. ASSUME o.kind = "link_remove" PROVE Changed(s, o) = Edited
    <3>1. EntryAfter(s, o) = [s.link[o.id] EXCEPT !.state = "removed"]
      BY <2>3 DEF EntryAfter, EraseOps, WindowOps, MaintenanceOps
    <3>2. Changed(s, o) = [s EXCEPT !.link[o.id].state = "removed"]
      BY <2>3 DEF Changed, EraseOps, WindowOps, MaintenanceOps
    <3> QED
      BY <3>1, <3>2, Zenon
  <2>4. ASSUME o.kind = "link_set_capacity" PROVE Changed(s, o) = Edited
    <3>1. EntryAfter(s, o) = [s.link[o.id] EXCEPT !.cap = o.new.cap]
      BY <2>4 DEF EntryAfter, EraseOps, WindowOps, MaintenanceOps
    <3>2. Changed(s, o) = [s EXCEPT !.link[o.id].cap = o.new.cap]
      BY <2>4 DEF Changed, EraseOps, WindowOps, MaintenanceOps
    <3> QED
      BY <3>1, <3>2, Zenon
  <2>5. Changed(s, o) = Edited
    BY <1>5, <2>3, <2>4
  <2>6. "link" \in EntityKinds
    BY DEF EntityKinds
  <2>7. Edited = Put(s, "link", o.id, EntryAfter(s, o))
    BY <2>2, <2>6, ChangedIsPut
  <2> QED
    BY <2>1, <2>5, <2>7
<1>6. CASE o.kind \in {"route_set_state"}
  <2>1. EntityKind(o) = "route" /\ o.kind \notin EraseOps \cup AddOps \cup {"policy_bind", "config_set"}
    BY <1>6, KindsSplit DEF EraseOps, AddOps, RouteOps
  <2>2. o.id \in DOMAIN s["route"]
    BY <2>1, ChangedIsKnown
  <2> DEFINE Edited == [s EXCEPT !["route"] = [@ EXCEPT ![o.id] = EntryAfter(s, o)]]
  <2>3. ASSUME o.kind = "route_set_state" PROVE Changed(s, o) = Edited
    <3>1. EntryAfter(s, o) = [s.route[o.id] EXCEPT !.state = o.new.state]
      BY <2>3 DEF EntryAfter, EraseOps, WindowOps, MaintenanceOps
    <3>2. Changed(s, o) = [s EXCEPT !.route[o.id].state = o.new.state]
      BY <2>3 DEF Changed, EraseOps, WindowOps, MaintenanceOps
    <3> QED
      BY <3>1, <3>2, Zenon
  <2>4. Changed(s, o) = Edited
    BY <1>6, <2>3
  <2>5. "route" \in EntityKinds
    BY DEF EntityKinds
  <2>6. Edited = Put(s, "route", o.id, EntryAfter(s, o))
    BY <2>2, <2>5, ChangedIsPut
  <2> QED
    BY <2>1, <2>4, <2>6
<1>7. CASE o.kind \in {"workload_set_bindings", "workload_set_requirements"}
  <2>1. EntityKind(o) = "workload" /\ o.kind \notin EraseOps \cup AddOps \cup {"policy_bind", "config_set"}
    BY <1>7, KindsSplit DEF EraseOps, AddOps, WorkloadOps
  <2>2. o.id \in DOMAIN s["workload"]
    BY <2>1, ChangedIsKnown
  <2> DEFINE Edited == [s EXCEPT !["workload"] = [@ EXCEPT ![o.id] = EntryAfter(s, o)]]
  <2>3. ASSUME o.kind = "workload_set_bindings" PROVE Changed(s, o) = Edited
    <3>1. EntryAfter(s, o) = [s.workload[o.id] EXCEPT !.bind = o.new.bind]
      BY <2>3 DEF EntryAfter, EraseOps, WindowOps, MaintenanceOps
    <3>2. Changed(s, o) = [s EXCEPT !.workload[o.id].bind = o.new.bind]
      BY <2>3 DEF Changed, EraseOps, WindowOps, MaintenanceOps
    <3> QED
      BY <3>1, <3>2, Zenon
  <2>4. ASSUME o.kind = "workload_set_requirements" PROVE Changed(s, o) = Edited
    <3>1. EntryAfter(s, o) = [s.workload[o.id] EXCEPT !.req = o.new.req]
      BY <2>4 DEF EntryAfter, EraseOps, WindowOps, MaintenanceOps
    <3>2. Changed(s, o) = [s EXCEPT !.workload[o.id].req = o.new.req]
      BY <2>4 DEF Changed, EraseOps, WindowOps, MaintenanceOps
    <3> QED
      BY <3>1, <3>2, Zenon
  <2>5. Changed(s, o) = Edited
    BY <1>7, <2>3, <2>4
  <2>6. "workload" \in EntityKinds
    BY DEF EntityKinds
  <2>7. Edited = Put(s, "workload", o.id, EntryAfter(s, o))
    BY <2>2, <2>6, ChangedIsPut
  <2> QED
    BY <2>1, <2>5, <2>7
<1> QED
  BY <1>1, <1>2, <1>3, <1>4, <1>5, <1>6, <1>7
     DEF AllKinds, DeviceOps, LinkOps, RouteOps, WorkloadOps, PolicyOps, ConfigOps, EraseOps

-----------------------------------------------------------------------------
(* Entries                                                                 *)

\* A function with one value set, or without one argument.
With(f, i, e) == [j \in DOMAIN f \cup {i} |-> IF j = i THEN e ELSE f[j]]
Without(f, i) == [j \in DOMAIN f \ {i} |-> f[j]]

\* Values and domain of both.
LEMMA WithGives ==
  ASSUME NEW f, NEW i, NEW e
  PROVE  /\ IsFunction(With(f, i, e)) /\ DOMAIN With(f, i, e) = DOMAIN f \cup {i}
         /\ With(f, i, e)[i] = e
         /\ \A j \in DOMAIN f \ {i} : With(f, i, e)[j] = f[j]
  BY DEF With, IsFunction

LEMMA WithoutGives ==
  ASSUME NEW f, NEW i
  PROVE  /\ IsFunction(Without(f, i)) /\ DOMAIN Without(f, i) = DOMAIN f \ {i}
         /\ \A j \in DOMAIN f \ {i} : Without(f, i)[j] = f[j]
  BY DEF Without, IsFunction

\* t is s but for the entities of one kind, which are f.
Replaced(s, t, kind, f) ==
  /\ IsFunction(t) /\ DOMAIN t = EntityKinds
  /\ \A k \in EntityKinds \ {kind} : t[k] = s[k]
  /\ t[kind] = f

\* Replacing one kind of entity leaves the others alone.
LEMMA ReplacedGives ==
  ASSUME NEW s, Shaped(s), NEW kind \in EntityKinds, NEW f
  PROVE  Replaced(s, [s EXCEPT ![kind] = f], kind, f)
<1>1. s = [x \in DOMAIN s |-> s[x]] /\ DOMAIN s = EntityKinds
  BY DEF Shaped, IsFunction
<1> QED
  BY <1>1 DEF Replaced, IsFunction

\* An operation replaces one kind of entity: by the same entities with one
\* entry put in place, or without one.
OwnAfter(s, o) ==
  LET own == s[EntityKind(o)]
  IN  IF o.kind \in EraseOps THEN Without(own, o.id) ELSE With(own, o.id, EntryAfter(s, o))

LEMMA OneKindChanged ==
  ASSUME NEW c, NEW s, NEW o, Shaped(s), o.kind \in AllKinds, Possible(c, s, o),
         NEW t, t = Changed(s, o), NEW kind, kind = EntityKind(o)
  PROVE  Replaced(s, t, kind, OwnAfter(s, o))
<1>1. kind \in EntityKinds
  BY KindsSplit
<1>2. t = [s EXCEPT ![kind] = OwnAfter(s, o)]
  <2>1. CASE o.kind \in EraseOps
    BY <2>1, ChangesOneEntry DEF Drop, OwnAfter, Without
  <2>2. CASE o.kind \notin EraseOps
    <3>1. t = Put(s, kind, o.id, EntryAfter(s, o))
      BY <2>2, ChangesOneEntry
    <3>2. t = [s EXCEPT ![kind] = With(s[kind], o.id, EntryAfter(s, o))]
      BY <3>1, Zenon DEF Put, With
    <3> QED
      BY <2>2, <3>2 DEF OwnAfter
  <2> QED
    BY <2>1, <2>2
<1>3. PICK f : f = OwnAfter(s, o)
  OBVIOUS
<1>4. Replaced(s, [s EXCEPT ![kind] = f], kind, f)
  BY <1>1, ReplacedGives
<1> QED
  BY <1>2, <1>3, <1>4

\* What an operation leaves of its own kind of entity, identity by identity.
LEMMA OwnKindAfter ==
  ASSUME NEW c, NEW s, NEW o, Shaped(s), o.kind \in AllKinds, Possible(c, s, o),
         NEW t, t = Changed(s, o), NEW kind, kind = EntityKind(o)
  PROVE  /\ \A i \in DOMAIN s[kind] \ {o.id} : i \in DOMAIN t[kind] /\ t[kind][i] = s[kind][i]
         /\ DOMAIN t[kind] \subseteq DOMAIN s[kind] \cup {o.id}
         /\ o.kind \in EraseOps => o.id \notin DOMAIN t[kind]
         /\ o.kind \notin EraseOps => o.id \in DOMAIN t[kind] /\ t[kind][o.id] = EntryAfter(s, o)
<1>1. PICK f, g : f = s[kind] /\ g = t[kind]
  OBVIOUS
<1>2. g = OwnAfter(s, o)
  BY <1>1, OneKindChanged DEF Replaced
<1>3. CASE o.kind \in EraseOps
  <2>1. g = Without(f, o.id)
    BY <1>1, <1>2, <1>3 DEF OwnAfter
  <2>2. DOMAIN g = DOMAIN f \ {o.id} /\ \A j \in DOMAIN f \ {o.id} : g[j] = f[j]
    BY <2>1 DEF Without
  <2> QED
    BY <1>1, <1>3, <2>2
<1>4. CASE o.kind \notin EraseOps
  <2>1. g = With(f, o.id, EntryAfter(s, o))
    BY <1>1, <1>2, <1>4 DEF OwnAfter
  <2>2. /\ DOMAIN g = DOMAIN f \cup {o.id} /\ g[o.id] = EntryAfter(s, o)
        /\ \A j \in DOMAIN f \ {o.id} : g[j] = f[j]
    BY <2>1 DEF With
  <2> QED
    BY <1>1, <1>4, <2>2
<1> QED
  BY <1>3, <1>4

\* What it leaves of the other kinds.
LEMMA OtherKindsAfter ==
  ASSUME NEW c, NEW s, NEW o, Shaped(s), o.kind \in AllKinds, Possible(c, s, o),
         NEW t, t = Changed(s, o), NEW kind \in EntityKinds, kind # EntityKind(o)
  PROVE  t[kind] = s[kind]
  BY OneKindChanged DEF Replaced

=============================================================================
