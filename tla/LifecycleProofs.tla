-------------------------- MODULE LifecycleProofs --------------------------
(***************************************************************************)
(* What the life cycle of a plan keeps, for every fabric, every target and *)
(* every drift.                                                            *)
(***************************************************************************)
EXTENDS Lifecycle, FabricLemmas, SequenceTheorems

-----------------------------------------------------------------------------
(* Snapshots that agree                                                    *)

\* The snapshots agree on what the summary of a snapshot holds.
Alike(t, u) ==
  t.device = u.device /\ t.link = u.link /\ t.route = u.route /\ t.workload = u.workload

\* The contexts differ at most in the policies and the configuration of the baseline, and in
\* what the evidence says of the devices it is there for.
SameRules(c, d) ==
  /\ c.enforced = d.enforced /\ c.instant = d.instant /\ c.headroom = d.headroom
  /\ c.changes = d.changes /\ c.domains = d.domains /\ c.contracts = d.contracts
  /\ DOMAIN c.evidence = DOMAIN d.evidence /\ c.baseline.device = d.baseline.device

\* Neither policies nor configuration count for what a route carries.
LEMMA AlikeRoutes ==
  ASSUME NEW t, NEW u, Alike(t, u), NEW r
  PROVE  /\ Walk(t, r) = Walk(u, r)
         /\ RouteWalkable(t, r) <=> RouteWalkable(u, r)
         /\ RouteDomains(t, r) = RouteDomains(u, r)
         /\ CarriesTraffic(t, r) <=> CarriesTraffic(u, r)
<1>1. Walk(t, r) = Walk(u, r)
  BY SMT DEF Alike, Walk
<1>2. RouteWalkable(t, r) <=> RouteWalkable(u, r)
  BY <1>1, Zenon DEF RouteWalkable
<1>3. RouteDomains(t, r) = RouteDomains(u, r)
  BY SMT DEF Alike, RouteDomains
<1>4. CarriesTraffic(t, r) <=> CarriesTraffic(u, r)
  BY <1>2, SMT DEF Alike, CarriesTraffic, InService
<1> QED
  BY <1>1, <1>2, <1>3, <1>4

\* Neither do they count for what flows over a route.
LEMMA AlikeFlows ==
  ASSUME NEW t, NEW u, Alike(t, u)
  PROVE  /\ \A w : Eligible(t, w) = Eligible(u, w)
         /\ \A ws : Flows(t, ws) = Flows(u, ws)
         /\ \A f : Demand(t, f) = Demand(u, f)
<1>1. ASSUME NEW w PROVE Eligible(t, w) = Eligible(u, w)
  <2>1. \A r : CarriesTraffic(t, r) <=> CarriesTraffic(u, r)
    BY AlikeRoutes
  <2>2. \A r : RouteDomains(t, r) = RouteDomains(u, r)
    BY AlikeRoutes
  <2> QED
    BY <2>1, <2>2 DEF Alike, Eligible
<1>2. ASSUME NEW ws PROVE Flows(t, ws) = Flows(u, ws)
  BY <1>1 DEF Alike, Flows
<1> QED
  BY <1>1, <1>2 DEF Alike, Demand

\* Routes that are the same in two snapshots load their links alike,
LEMMA LinkLoadKept ==
  ASSUME NEW t, NEW u, t.route = u.route, t.workload = u.workload, NEW l, NEW flows
  PROVE  LinkLoad(t, l, flows) = LinkLoad(u, l, flows)
  BY SMT DEF LinkLoad, Demand, MapThenSumSet, MapThenFoldSet
\* and their devices;
LEMMA DeviceLoadKept ==
  ASSUME NEW t, NEW u, t.route = u.route, t.workload = u.workload, NEW l, NEW flows
  PROVE  DeviceLoad(t, l, flows) = DeviceLoad(u, l, flows)
  BY SMT DEF DeviceLoad, Demand, MapThenSumSet, MapThenFoldSet
\* where the loads are the same, as much is to spare on a route,
LEMMA SpareKept ==
  ASSUME NEW t, NEW u, t.device = u.device, t.link = u.link, t.route = u.route, NEW r, NEW flows,
     \A l : LinkLoad(t, l, flows) = LinkLoad(u, l, flows),
     \A l : DeviceLoad(t, l, flows) = DeviceLoad(u, l, flows)
  PROVE  Spare(t, r, flows) = Spare(u, r, flows)
<1> DEFINE A(s) == {Usable(Usable(s.link[l].cap, s.link[l].res), LinkLoad(s, l, flows)) : l \in PathLinks(s.route[r].path)}
           B(s) == {Usable(Usable(s.device[l].cap, s.device[l].res), DeviceLoad(s, l, flows)) : l \in {s.route[r].source, s.route[r].sink}}
<1>1. A(t) = A(u)
  OBVIOUS
<1>2. B(t) = B(u)
  OBVIOUS
<1>3. Spare(t, r, flows) = Min(A(t) \cup B(t)) /\ Spare(u, r, flows) = Min(A(u) \cup B(u))
  BY Zenon DEF Spare
<1> HIDE DEF A, B
<1> QED
  BY <1>1, <1>2, <1>3
\* and where the domains are the same, flows are as redundant.
LEMMA RedundancyKept ==
  ASSUME NEW t, NEW u, t.route = u.route, NEW flows,
     \A r : RouteDomains(t, r) = RouteDomains(u, r)
  PROVE  Redundancy(t, flows) = Redundancy(u, flows)
<1> DEFINE Through(s, f) == RouteDomains(s, s.route[f[2]])
           Surviving(s, d) == Cardinality({f \in flows : d \notin Through(s, f)})
           domains(s) == UNION {Through(s, f) : f \in flows}
           Worst(s) == Min({Surviving(s, d) : d \in domains(s)})
<1>1. \A f : Through(t, f) = Through(u, f)
  OBVIOUS
<1> HIDE DEF Through
<1>2. domains(t) = domains(u)
  BY <1>1
<1>3. \A d : {f \in flows : d \notin Through(t, f)} = {f \in flows : d \notin Through(u, f)}
  BY <1>1
<1>4. \A d : Surviving(t, d) = Surviving(u, d)
  BY <1>3
<1> HIDE DEF Surviving, domains
<1>5. Worst(t) = Worst(u)
  BY <1>2, <1>4
<1> HIDE DEF Worst
<1>6. Redundancy(t, flows) = (IF domains(t) = {} THEN Cardinality(flows) ELSE Worst(t))
  BY Zenon DEF Redundancy, Worst, domains, Surviving, Through
<1>7. Redundancy(u, flows) = (IF domains(u) = {} THEN Cardinality(flows) ELSE Worst(u))
  BY Zenon DEF Redundancy, Worst, domains, Surviving, Through
<1> QED
  BY <1>2, <1>5, <1>6, <1>7

\* Neither do they count for the loads.
LEMMA AlikeLoads ==
  ASSUME NEW t, NEW u, Alike(t, u), NEW flows
  PROVE  /\ \A l : LinkLoad(t, l, flows) = LinkLoad(u, l, flows)
         /\ \A d : DeviceLoad(t, d, flows) = DeviceLoad(u, d, flows)
         /\ \A r : Spare(t, r, flows) = Spare(u, r, flows)
         /\ Redundancy(t, flows) = Redundancy(u, flows)
<1>1. /\ t.device = u.device /\ t.link = u.link /\ t.route = u.route /\ t.workload = u.workload
  BY DEF Alike
<1>2. \A l : LinkLoad(t, l, flows) = LinkLoad(u, l, flows)
  BY <1>1, LinkLoadKept
<1>3. \A d : DeviceLoad(t, d, flows) = DeviceLoad(u, d, flows)
  BY <1>1, DeviceLoadKept
<1>4. \A r : Spare(t, r, flows) = Spare(u, r, flows)
  BY <1>1, <1>2, <1>3, SpareKept
<1>5. \A r : RouteDomains(t, r) = RouteDomains(u, r)
  BY AlikeRoutes
<1>6. Redundancy(t, flows) = Redundancy(u, flows)
  BY <1>1, <1>5, RedundancyKept
<1> QED
  BY <1>2, <1>3, <1>4, <1>6

\* The obligations do not look at policies or configuration.
LEMMA AlikeServed ==
  ASSUME NEW t, NEW u, Alike(t, u)
  PROVE  /\ DisconnectedWorkloads(t) = DisconnectedWorkloads(u)
         /\ UnderRedundant(t) = UnderRedundant(u)
         /\ UnderDiverse(t) = UnderDiverse(u)
         /\ GuaranteeShortfalls(t) = GuaranteeShortfalls(u)
<1>1. t.workload = u.workload
  BY DEF Alike
<1>2. \A w : Eligible(t, w) = Eligible(u, w)
  BY AlikeFlows
<1>3. \A ws : Flows(t, ws) = Flows(u, ws)
  BY AlikeFlows
<1>4. \A flows : Redundancy(t, flows) = Redundancy(u, flows)
  BY AlikeLoads
<1>5. \A flows, r : Spare(t, r, flows) = Spare(u, r, flows)
  BY AlikeLoads
<1>6. DisconnectedWorkloads(t) = DisconnectedWorkloads(u)
  BY <1>1, <1>2 DEF DisconnectedWorkloads
<1>7. UnderRedundant(t) = UnderRedundant(u)
  BY <1>1, <1>3, <1>4 DEF UnderRedundant
<1>8. ASSUME NEW w, NEW required
      PROVE  MaximumDisjoint(t, w, required) = MaximumDisjoint(u, w, required)
  <2>1. t.route = u.route
    BY DEF Alike
  <2>2. PICK order : order = InOrder(Eligible(t, w)) /\ order = InOrder(Eligible(u, w))
    BY <1>2
  <2>3. PICK n : n = Min({Len(order), DiversityPaths})
    OBVIOUS
  <2>4. MaximumDisjoint(t, w, required) = Explored([i \in 1 .. n |-> t.route[order[i]].path], required)
    BY <2>2, <2>3, Zenon DEF MaximumDisjoint
  <2>5. MaximumDisjoint(u, w, required) = Explored([i \in 1 .. n |-> u.route[order[i]].path], required)
    BY <2>2, <2>3, Zenon DEF MaximumDisjoint
  <2> QED
    BY <2>1, <2>4, <2>5
<1>9. UnderDiverse(t) = UnderDiverse(u)
  BY <1>1, <1>8 DEF UnderDiverse
<1>10. GuaranteeShortfalls(t) = GuaranteeShortfalls(u)
  BY <1>1, <1>2, <1>3, <1>5 DEF GuaranteeShortfalls
<1> QED
  BY <1>6, <1>7, <1>9, <1>10

\* What is asked of devices comes out alike.
LEMMA AlikeDevices ==
  ASSUME NEW t, NEW u, Alike(t, u), NEW c, NEW d, SameRules(c, d)
  PROVE  /\ OverCommitted(c, t) = OverCommitted(d, u)
         /\ ChangedInExclusion(c, t) = ChangedInExclusion(d, u)
         /\ MaintainedOutsideWindow(c, t) = MaintainedOutsideWindow(d, u)
         /\ Unevidenced(c, t) = Unevidenced(d, u)
         /\ DomainsInChange(t) = DomainsInChange(u)
         /\ OverSerialized(c, t) = OverSerialized(d, u)
         /\ \A x : OutOfService(t, x) = OutOfService(u, x)
<1>1. t.device = u.device /\ t.link = u.link /\ t.workload = u.workload
  BY DEF Alike
<1>2. c.instant = d.instant /\ c.headroom = d.headroom /\ c.changes = d.changes
      /\ DOMAIN c.evidence = DOMAIN d.evidence /\ c.baseline.device = d.baseline.device
  BY DEF SameRules
<1>3. Flows(t, DOMAIN t.workload) = Flows(u, DOMAIN u.workload)
  BY <1>1, AlikeFlows
<1>4. \A flows, x : LinkLoad(t, x, flows) = LinkLoad(u, x, flows)
  BY AlikeLoads
<1>5. \A flows, x : DeviceLoad(t, x, flows) = DeviceLoad(u, x, flows)
  BY AlikeLoads
<1>6. \A e, load : WithinHeadroom(c, e, load) <=> WithinHeadroom(d, e, load)
  BY <1>2 DEF WithinHeadroom
<1>7. OverCommitted(c, t) = OverCommitted(d, u)
  <2>1. PICK flows : flows = Flows(t, DOMAIN t.workload) /\ flows = Flows(u, DOMAIN u.workload)
    BY <1>3
  <2> DEFINE Links(e, s) == {x \in DOMAIN s.link : /\ s.link[x].state # "removed"
                                                   /\ ~WithinHeadroom(e, s.link[x], LinkLoad(s, x, flows))}
             Devices(e, s) == {x \in DOMAIN s.device : /\ s.device[x].state # "removed"
                                                       /\ ~WithinHeadroom(e, s.device[x], DeviceLoad(s, x, flows))}
  <2>2. Links(c, t) = Links(d, u)
    BY <1>1, <1>4, <1>6
  <2>3. Devices(c, t) = Devices(d, u)
    BY <1>1, <1>5, <1>6
  <2>4. OverCommitted(c, t) = {<<"link", l>> : l \in Links(c, t)} \cup {<<"device", x>> : x \in Devices(c, t)}
    BY <2>1, Zenon DEF OverCommitted
  <2>5. OverCommitted(d, u) = {<<"link", l>> : l \in Links(d, u)} \cup {<<"device", x>> : x \in Devices(d, u)}
    BY <2>1, Zenon DEF OverCommitted
  <2> HIDE DEF Links, Devices
  <2> QED
    BY <2>2, <2>3, <2>4, <2>5
<1>8. ChangedInExclusion(c, t) = ChangedInExclusion(d, u)
  BY <1>1, <1>2 DEF ChangedInExclusion, ChangePermitted
<1>9. MaintainedOutsideWindow(c, t) = MaintainedOutsideWindow(d, u)
  BY <1>1, <1>2 DEF MaintainedOutsideWindow, MaintenancePermitted
<1>10. Unevidenced(c, t) = Unevidenced(d, u)
  BY <1>1, <1>2 DEF Unevidenced
<1>11. \A x : OutOfService(t, x) = OutOfService(u, x)
  BY <1>1 DEF OutOfService
<1>12. DomainsInChange(t) = DomainsInChange(u)
  BY <1>1, <1>11 DEF DomainsInChange, DomainsOf
<1>13. OverSerialized(c, t) = OverSerialized(d, u)
  <2>1. ASSUME NEW x
        PROVE  {t.device[i].budget : i \in OutOfService(t, x)} = {u.device[i].budget : i \in OutOfService(u, x)}
    BY <1>1, <1>11
  <2>2. \A x : Min({c.changes} \cup {t.device[i].budget : i \in OutOfService(t, x)})
             = Min({d.changes} \cup {u.device[i].budget : i \in OutOfService(u, x)})
    BY <1>2, <2>1
  <2> QED
    BY <1>11, <1>12, <2>2 DEF OverSerialized
<1> QED
  BY <1>7, <1>8, <1>9, <1>10, <1>11, <1>12, <1>13

\* So do the contracts of workloads.
LEMMA AlikeContracts ==
  ASSUME NEW t, NEW u, Alike(t, u), NEW k
  PROVE  ContractBroken(t, k) <=> ContractBroken(u, k)
<1>1. t.workload = u.workload /\ t.route = u.route
  BY DEF Alike
<1>2. PICK flows : flows = Flows(t, k.workloads) /\ flows = Flows(u, k.workloads)
  BY AlikeFlows
<1>3. MapThenSumSet(LAMBDA f : Demand(t, f), flows) = MapThenSumSet(LAMBDA f : Demand(u, f), flows)
  <2>1. t.workload = u.workload
    BY <1>1
  <2> QED
    BY <2>1, SMT DEF Demand, MapThenSumSet, MapThenFoldSet
<1>4. Redundancy(t, flows) = Redundancy(u, flows)
  BY AlikeLoads
<1>5. \A x : OutOfService(t, x) = OutOfService(u, x)
  BY DEF Alike, OutOfService
<1>6. \A r : RouteDomains(t, r) = RouteDomains(u, r)
  BY AlikeRoutes
<1> DEFINE touched(s) == UNION {RouteDomains(s, s.route[f[2]]) : f \in flows}
           inChange(s) == {x \in touched(s) : OutOfService(s, x) # {}}
<1>7. touched(t) = touched(u)
  BY <1>1, <1>6
<1> HIDE DEF touched
<1>8. inChange(t) = inChange(u)
  BY <1>5, <1>7
<1> HIDE DEF inChange
<1> DEFINE Short(s) == MapThenSumSet(LAMBDA f : Demand(s, f), flows) < k.units
           Rest(s) == \/ Redundancy(s, flows) < k.domains
                      \/ k.maintained > 0 /\ Cardinality(inChange(s)) > k.maintained
                      \/ k.exclusive /\ \E x \in inChange(s) : Cardinality(OutOfService(s, x)) > 1
<1>9. Short(t) <=> Short(u)
  BY <1>3
<1>10. Rest(t) <=> Rest(u)
  BY <1>4, <1>5, <1>8
<1>11. ContractBroken(t, k) <=> ~(k.workloads \subseteq DOMAIN t.workload) \/ Short(t) \/ Rest(t)
  BY <1>2, Zenon DEF ContractBroken, inChange, touched
<1>12. ContractBroken(u, k) <=> ~(k.workloads \subseteq DOMAIN u.workload) \/ Short(u) \/ Rest(u)
  BY <1>2, Zenon DEF ContractBroken, inChange, touched
<1> HIDE DEF Short, Rest
<1> QED
  BY <1>1, <1>9, <1>10, <1>11, <1>12

\* So an obligation holds in both or in neither.
LEMMA AlikeSafe ==
  ASSUME NEW t, NEW u, Alike(t, u), NEW c, NEW d, SameRules(c, d)
  PROVE  StateIsSafe(c, t) <=> StateIsSafe(d, u)
<1>1. c.enforced = d.enforced /\ c.domains = d.domains /\ c.contracts = d.contracts
  BY DEF SameRules
<1>2. ASSUME NEW kind \in c.enforced PROVE kind \in Violations(c, t) <=> kind \in Violations(d, u)
  BY <1>1, AlikeServed, AlikeDevices, AlikeContracts DEF Violations
<1>3. Violations(c, t) \subseteq c.enforced /\ Violations(d, u) \subseteq d.enforced
  BY DEF Violations
<1> QED
  BY <1>1, <1>2, <1>3 DEF StateIsSafe

-----------------------------------------------------------------------------
(* What an operation does to them                                          *)

\* A snapshot has a table for each kind of entity.
LEMMA SnapshotShaped == ASSUME NEW s, IsSnapshot(s) PROVE Shaped(s)
  BY DEF IsSnapshot, Shaped

\* An operation is of one of the kinds there are.
LEMMA OperationKind == ASSUME NEW o, IsOperation(o) PROVE o.kind \in AllKinds
  BY DEF IsOperation, AllKinds

\* An entry added or dropped leaves finitely many.
LEMMA OwnFinite ==
  ASSUME NEW s, NEW o, IsFiniteSet(DOMAIN s[EntityKind(o)])
  PROVE  IsFiniteSet(DOMAIN OwnAfter(s, o))
<1>1. PICK f : f = s[EntityKind(o)]
  OBVIOUS
<1>2. CASE o.kind \in EraseOps
  <2>1. DOMAIN OwnAfter(s, o) = DOMAIN f \ {o.id}
    BY <1>1, <1>2 DEF OwnAfter, Without
  <2> QED
    BY <1>1, <2>1, FS_RemoveElement
<1>3. CASE o.kind \notin EraseOps
  <2>1. DOMAIN OwnAfter(s, o) = DOMAIN f \cup {o.id}
    BY <1>1, <1>3 DEF OwnAfter, With
  <2> QED
    BY <1>1, <2>1, FS_AddElement
<1> QED
  BY <1>2, <1>3

\* What an operation leaves of a device that is there, field by field.
LEMMA DeviceAfter ==
  ASSUME NEW s, NEW o, o.kind \in DeviceOps \ {"device_add"}, NEW e, e = s.device[o.id], IsDevice(e)
  PROVE  EntryAfter(s, o) =
           [domain |-> e.domain,
            state |-> IF o.kind \in WindowOps \cup {"device_set_state"} THEN StateAfter(o) ELSE e.state,
            cap |-> IF o.kind = "device_set_capacity" THEN o.new.cap ELSE e.cap,
            res |-> e.res, caps |-> e.caps, budget |-> e.budget,
            excl |-> IF o.kind = "device_set_windows" THEN o.new.excl ELSE e.excl,
            maint |-> IF o.kind = "device_set_windows" THEN o.new.maint ELSE e.maint]
<1>1. PICK domain, state, cap, res, caps, budget, excl, maint :
        e = [domain |-> domain, state |-> state, cap |-> cap, res |-> res, caps |-> caps,
             budget |-> budget, excl |-> excl, maint |-> maint]
  BY DEF IsDevice
<1>2. CASE o.kind = "device_set_capacity"
  <2>1. EntryAfter(s, o) = [e EXCEPT !.cap = o.new.cap]
    BY <1>2 DEF EntryAfter, EraseOps, WindowOps, MaintenanceOps
  <2>2. o.kind \notin WindowOps \cup {"device_set_state"}
    BY <1>2 DEF WindowOps, MaintenanceOps
  <2> QED
    BY <1>1, <1>2, <2>1, <2>2
<1>3. CASE o.kind = "device_set_windows"
  <2>1. EntryAfter(s, o) = [e EXCEPT !.excl = o.new.excl, !.maint = o.new.maint]
    BY <1>3 DEF EntryAfter, EraseOps, WindowOps, MaintenanceOps
  <2>2. o.kind \notin WindowOps \cup {"device_set_state"}
    BY <1>3 DEF WindowOps, MaintenanceOps
  <2>3. PICK g, x, y : x = o.new.excl /\ y = o.new.maint /\ g = [e EXCEPT !.excl = x]
    OBVIOUS
  <2>4. EntryAfter(s, o) = [g EXCEPT !.maint = y]
    BY <2>1, <2>3
  <2> QED
    BY <1>1, <1>3, <2>2, <2>3, <2>4
<1>4. CASE o.kind \in WindowOps \cup {"device_set_state"}
  <2>1. EntryAfter(s, o) = [e EXCEPT !.state = StateAfter(o)]
    BY <1>4 DEF EntryAfter, EraseOps, WindowOps, MaintenanceOps
  <2>2. o.kind \notin {"device_set_capacity", "device_set_windows"}
    BY <1>4 DEF WindowOps, MaintenanceOps
  <2>3. PICK x : x = StateAfter(o)
    OBVIOUS
  <2> QED
    BY <1>1, <1>4, <2>1, <2>2, <2>3
<1> QED
  BY <1>2, <1>3, <1>4 DEF DeviceOps, MaintenanceOps, WindowOps

\* An operation turns a snapshot into a snapshot.
LEMMA SnapshotKept ==
  ASSUME NEW c, NEW s, NEW o, IsSnapshot(s), IsOperation(o), Possible(c, s, o),
         NEW t, t = Changed(s, o)
  PROVE  IsSnapshot(t)
<1>1. PICK kind : kind = EntityKind(o)
  OBVIOUS
<1>2. Shaped(s) /\ o.kind \in AllKinds /\ kind \in EntityKinds
  BY <1>1, SnapshotShaped, OperationKind, KindsSplit
<1>3. Replaced(s, t, kind, OwnAfter(s, o))
  BY <1>1, <1>2, OneKindChanged
<1>4. IsFunction(OwnAfter(s, o)) /\ IsFiniteSet(DOMAIN OwnAfter(s, o))
  <2>1. IsFunction(OwnAfter(s, o))
    BY WithGives, WithoutGives DEF OwnAfter
  <2>2. IsFiniteSet(DOMAIN s[EntityKind(o)])
    BY <1>1, <1>2 DEF IsSnapshot
  <2> QED
    BY <2>1, <2>2, OwnFinite
<1>5. IsFunction(t) /\ DOMAIN t = EntityKinds
      /\ \A k \in EntityKinds : IsFunction(t[k]) /\ IsFiniteSet(DOMAIN t[k])
  BY <1>2, <1>3, <1>4 DEF Replaced, IsSnapshot
<1>6. \A k \in EntityKinds \ {kind} : t[k] = s[k]
  BY <1>3 DEF Replaced
<1>0. /\ \A i \in DOMAIN s[kind] \ {o.id} : t[kind][i] = s[kind][i]
      /\ DOMAIN t[kind] \subseteq DOMAIN s[kind] \cup {o.id}
      /\ o.kind \in EraseOps => o.id \notin DOMAIN t[kind]
      /\ o.kind \notin EraseOps => t[kind][o.id] = EntryAfter(s, o)
  BY <1>1, <1>2, OwnKindAfter
<1>7. ASSUME NEW p \in DOMAIN t.policy PROVE IsScope(t.policy[p].target)
  <2>1. CASE kind # "policy"
    BY <1>6, <2>1 DEF IsSnapshot, EntityKinds
  <2>2. CASE kind = "policy"
    <3>1. o.kind \in PolicyOps
      BY <1>1, <1>2, <2>2, KindsSplit DEF AllKinds
    <3>2. CASE p \in DOMAIN s.policy \ {o.id}
      <4>1. t.policy[p] = s.policy[p]
        BY <1>0, <2>2, <3>2
      <4> QED
        BY <3>2, <4>1 DEF IsSnapshot
    <3>3. CASE p \notin DOMAIN s.policy \ {o.id}
      <4>1. p = o.id /\ o.kind \notin EraseOps /\ t.policy[o.id] = EntryAfter(s, o)
        BY <1>0, <2>2, <3>3
      <4>2. EntryAfter(s, o) = o.new
        BY <3>1, <4>1 DEF EntryAfter, PolicyOps, EraseOps, WindowOps, MaintenanceOps
      <4> QED
        BY <3>1, <4>1, <4>2 DEF IsOperation
    <3> QED
      BY <3>2, <3>3
  <2> QED
    BY <2>1, <2>2
<1>8. ASSUME NEW e \in DOMAIN t.config PROVE t.config[e].revision \in Nat
  <2>1. CASE kind # "config"
    BY <1>6, <2>1 DEF IsSnapshot, EntityKinds
  <2>2. CASE kind = "config"
    <3>1. o.kind \in ConfigOps
      BY <1>1, <1>2, <2>2, KindsSplit DEF AllKinds
    <3>2. CASE e \in DOMAIN s.config \ {o.id}
      <4>1. t.config[e] = s.config[e]
        BY <1>0, <2>2, <3>2
      <4> QED
        BY <3>2, <4>1 DEF IsSnapshot
    <3>3. CASE e \notin DOMAIN s.config \ {o.id}
      <4>1. e = o.id /\ o.kind \notin EraseOps /\ t.config[o.id] = EntryAfter(s, o)
        BY <1>0, <2>2, <3>3
      <4>2. o.kind = "config_set"
        BY <3>1, <4>1 DEF ConfigOps, EraseOps
      <4>3. EntryAfter(s, o).revision = IF Known(s, Written(o)) THEN s.config[o.id].revision + 1 ELSE 0
        BY <4>2 DEF EntryAfter, EraseOps, WindowOps, MaintenanceOps
      <4>4. CASE Known(s, Written(o))
        <5>1. o.id \in DOMAIN s.config
          BY <1>1, <2>2, <4>4 DEF Known, Written
        <5>2. s.config[o.id].revision \in Nat
          BY <5>1 DEF IsSnapshot
        <5>3. EntryAfter(s, o).revision = s.config[o.id].revision + 1
          BY <4>3, <4>4
        <5> QED
          BY <4>1, <5>2, <5>3
      <4>5. CASE ~Known(s, Written(o))
        BY <4>1, <4>3, <4>5
      <4> QED
        BY <4>4, <4>5
    <3> QED
      BY <3>2, <3>3
  <2> QED
    BY <2>1, <2>2
<1>9. ASSUME NEW r \in DOMAIN t.route PROVE IsRoute(t.route[r])
  <2>1. CASE kind # "route"
    BY <1>6, <2>1 DEF IsSnapshot, EntityKinds
  <2>2. CASE kind = "route"
    <3>1. o.kind \in RouteOps
      BY <1>1, <1>2, <2>2, KindsSplit DEF AllKinds
    <3>2. CASE r \in DOMAIN s.route \ {o.id}
      <4>1. t.route[r] = s.route[r]
        BY <1>0, <2>2, <3>2
      <4> QED
        BY <3>2, <4>1 DEF IsSnapshot
    <3>3. CASE r \notin DOMAIN s.route \ {o.id}
      <4>1. r = o.id /\ o.kind \notin EraseOps /\ t.route[o.id] = EntryAfter(s, o)
        BY <1>0, <2>2, <3>3
      <4>2. CASE o.kind = "route_add"
        BY <4>1, <4>2 DEF EntryAfter, EraseOps, WindowOps, MaintenanceOps, IsOperation
      <4>3. CASE o.kind = "route_set_path"
        <5>1. EntryAfter(s, o) = [source |-> o.new.source, sink |-> o.new.sink, path |-> o.new.path,
                                  policy |-> o.new.policy, state |-> s.route[o.id].state]
          BY <4>3 DEF EntryAfter, EraseOps, WindowOps, MaintenanceOps
        <5> QED
          BY <4>1, <5>1 DEF IsRoute
      <4>4. CASE o.kind = "route_set_state"
        <5>1. o.id \in DOMAIN s.route
          BY <1>1, <1>2, <2>2, <4>4, ChangedIsKnown DEF AddOps
        <5>2. PICK e : e = s.route[o.id] /\ IsRoute(e)
          BY <5>1 DEF IsSnapshot
        <5>3. EntryAfter(s, o) = [e EXCEPT !.state = o.new.state]
          BY <4>4, <5>2 DEF EntryAfter, EraseOps, WindowOps, MaintenanceOps
        <5> QED
          BY <4>1, <5>2, <5>3 DEF IsRoute
      <4> QED
        BY <3>1, <4>1, <4>2, <4>3, <4>4 DEF RouteOps, EraseOps
    <3> QED
      BY <3>2, <3>3
  <2> QED
    BY <2>1, <2>2
<1>10. ASSUME NEW d \in DOMAIN t.device PROVE IsDevice(t.device[d])
  <2>1. CASE kind # "device"
    BY <1>6, <2>1 DEF IsSnapshot, EntityKinds
  <2>2. CASE kind = "device"
    <3>1. o.kind \in DeviceOps
      BY <1>1, <1>2, <2>2, KindsSplit DEF AllKinds
    <3>2. CASE d \in DOMAIN s.device \ {o.id}
      <4>1. t.device[d] = s.device[d]
        BY <1>0, <2>2, <3>2
      <4> QED
        BY <3>2, <4>1 DEF IsSnapshot
    <3>3. CASE d \notin DOMAIN s.device \ {o.id}
      <4>1. d = o.id /\ t.device[o.id] = EntryAfter(s, o)
        BY <1>0, <2>2, <3>1, <3>3 DEF DeviceOps, MaintenanceOps, EraseOps
      <4>2. CASE o.kind = "device_add"
        BY <4>1, <4>2 DEF EntryAfter, EraseOps, WindowOps, MaintenanceOps, IsOperation
      <4>3. CASE o.kind # "device_add"
        <5>1. o.kind \notin AddOps \cup {"policy_bind", "config_set"}
          BY <3>1, <4>3 DEF AddOps, DeviceOps, MaintenanceOps
        <5>2. o.id \in DOMAIN s.device
          BY <1>1, <1>2, <2>2, <5>1, ChangedIsKnown
        <5>3. PICK e : e = s.device[o.id] /\ IsDevice(e)
          BY <5>2 DEF IsSnapshot
        <5>4. PICK f : f = EntryAfter(s, o) /\ t.device[d] = f
          BY <4>1
        <5>5. f = [domain |-> e.domain,
                   state |-> IF o.kind \in WindowOps \cup {"device_set_state"} THEN StateAfter(o) ELSE e.state,
                   cap |-> IF o.kind = "device_set_capacity" THEN o.new.cap ELSE e.cap,
                   res |-> e.res, caps |-> e.caps, budget |-> e.budget,
                   excl |-> IF o.kind = "device_set_windows" THEN o.new.excl ELSE e.excl,
                   maint |-> IF o.kind = "device_set_windows" THEN o.new.maint ELSE e.maint]
          BY <3>1, <4>3, <5>3, <5>4, DeviceAfter
        <5>6. o.kind \in WindowOps \cup {"device_set_state"} => StateAfter(o) \in DeviceStates
          BY DEF StateAfter, DeviceStates, WindowOps, MaintenanceOps, IsOperation
        <5>7. f.state \in DeviceStates
          BY <5>3, <5>5, <5>6 DEF IsDevice
        <5>8. IsDevice(f)
          BY <5>5, <5>7 DEF IsDevice
        <5> QED
          BY <5>4, <5>8
      <4> QED
        BY <4>2, <4>3
    <3> QED
      BY <3>2, <3>3
  <2> QED
    BY <2>1, <2>2
<1>11. ASSUME NEW l \in DOMAIN t.link PROVE IsLink(t.link[l])
  <2>1. CASE kind # "link"
    BY <1>6, <2>1 DEF IsSnapshot, EntityKinds
  <2>2. CASE kind = "link"
    <3>1. o.kind \in LinkOps
      BY <1>1, <1>2, <2>2, KindsSplit DEF AllKinds
    <3>2. CASE l \in DOMAIN s.link \ {o.id}
      <4>1. t.link[l] = s.link[l]
        BY <1>0, <2>2, <3>2
      <4> QED
        BY <3>2, <4>1 DEF IsSnapshot
    <3>3. CASE l \notin DOMAIN s.link \ {o.id}
      <4>1. l = o.id /\ t.link[o.id] = EntryAfter(s, o)
        BY <1>0, <2>2, <3>1, <3>3 DEF LinkOps, EraseOps
      <4>2. CASE o.kind = "link_add"
        BY <4>1, <4>2 DEF EntryAfter, EraseOps, WindowOps, MaintenanceOps, IsLink
      <4>3. CASE o.kind # "link_add"
        <5>1. o.kind \notin AddOps \cup {"policy_bind", "config_set"}
          BY <3>1, <4>3 DEF AddOps, LinkOps
        <5>2. o.id \in DOMAIN s.link
          BY <1>1, <1>2, <2>2, <5>1, ChangedIsKnown
        <5>3. PICK e : e = s.link[o.id] /\ IsLink(e)
          BY <5>2 DEF IsSnapshot
        <5>4. PICK x : EntryAfter(s, o) = [e EXCEPT !.cap = x] \/ EntryAfter(s, o) = [e EXCEPT !.state = x]
          BY <3>1, <4>3, <5>3 DEF EntryAfter, LinkOps, EraseOps, WindowOps, MaintenanceOps
        <5>5. IsLink(EntryAfter(s, o))
          BY <5>3, <5>4 DEF IsLink
        <5> QED
          BY <4>1, <5>5
      <4> QED
        BY <4>2, <4>3
    <3> QED
      BY <3>2, <3>3
  <2> QED
    BY <2>1, <2>2
<1>12. ASSUME NEW w \in DOMAIN t.workload PROVE IsWorkload(t.workload[w])
  <2>1. CASE kind # "workload"
    BY <1>6, <2>1 DEF IsSnapshot, EntityKinds
  <2>2. CASE kind = "workload"
    <3>1. o.kind \in WorkloadOps
      BY <1>1, <1>2, <2>2, KindsSplit DEF AllKinds
    <3>2. CASE w \in DOMAIN s.workload \ {o.id}
      <4>1. t.workload[w] = s.workload[w]
        BY <1>0, <2>2, <3>2
      <4> QED
        BY <3>2, <4>1 DEF IsSnapshot
    <3>3. CASE w \notin DOMAIN s.workload \ {o.id}
      <4>1. w = o.id /\ o.kind \notin EraseOps /\ t.workload[o.id] = EntryAfter(s, o)
        BY <1>0, <2>2, <3>3
      <4>2. CASE o.kind = "workload_add"
        BY <4>1, <4>2 DEF EntryAfter, EraseOps, WindowOps, MaintenanceOps, IsOperation
      <4>3. CASE o.kind # "workload_add"
        <5>1. o.kind \in {"workload_set_bindings", "workload_set_requirements"}
          BY <3>1, <4>1, <4>3 DEF WorkloadOps, EraseOps
        <5>2. o.id \in DOMAIN s.workload
          BY <1>1, <1>2, <2>2, <5>1, ChangedIsKnown DEF AddOps
        <5>3. PICK e : e = s.workload[o.id] /\ IsWorkload(e)
          BY <5>2 DEF IsSnapshot
        <5>4. PICK x : EntryAfter(s, o) = [e EXCEPT !.bind = x] \/ EntryAfter(s, o) = [e EXCEPT !.req = x]
          BY <5>1, <5>3 DEF EntryAfter, EraseOps, WindowOps, MaintenanceOps
        <5>5. IsWorkload(EntryAfter(s, o))
          BY <5>3, <5>4 DEF IsWorkload
        <5> QED
          BY <4>1, <5>5
      <4> QED
        BY <4>2, <4>3
    <3> QED
      BY <3>2, <3>3
  <2> QED
    BY <2>1, <2>2
<1> QED
  BY <1>5, <1>7, <1>8, <1>9, <1>10, <1>11, <1>12 DEF IsSnapshot

\* Alike snapshots stay alike under one operation.
LEMMA AlikeAfter ==
  ASSUME NEW t, NEW u, NEW c, NEW d, NEW o, Shaped(t), Shaped(u), Alike(t, u), o.kind \in AllKinds,
         Possible(c, t, o), Possible(d, u, o), NEW v, v = Changed(t, o), NEW w, w = Changed(u, o)
  PROVE  Alike(v, w)
<1>1. \A kind \in Summarised : t[kind] = u[kind]
  BY DEF Alike, Summarised
<1>2. ASSUME NEW kind \in Summarised, kind # EntityKind(o) PROVE v[kind] = w[kind]
  <2>1. kind \in EntityKinds
    BY DEF Summarised, EntityKinds
  <2>2. v[kind] = t[kind]
    BY <1>2, <2>1, OtherKindsAfter
  <2>3. w[kind] = u[kind]
    BY <1>2, <2>1, OtherKindsAfter
  <2> QED
    BY <1>1, <2>2, <2>3
<1>3. ASSUME NEW kind \in Summarised, kind = EntityKind(o) PROVE v[kind] = w[kind]
  <2>1. EntryAfter(t, o) = EntryAfter(u, o)
    <3>1. o.kind \in AllKinds \ ConfigOps
      BY <1>3, KindsSplit DEF Summarised
    <3> QED
      BY <3>1, SMT DEF Alike, EntryAfter, AllKinds, ConfigOps
  <2>2. PICK x : x = EntryAfter(t, o) /\ x = EntryAfter(u, o)
    BY <2>1
  <2>3. OwnAfter(t, o) = OwnAfter(u, o)
    <3>1. t[EntityKind(o)] = u[EntityKind(o)]
      BY <1>1, <1>3
    <3> QED
      BY <2>1, <3>1, Zenon DEF OwnAfter
  <2>4. v[kind] = OwnAfter(t, o)
    BY <1>3, OneKindChanged DEF Replaced
  <2>5. w[kind] = OwnAfter(u, o)
    BY <1>3, OneKindChanged DEF Replaced
  <2> QED
    BY <2>3, <2>4, <2>5
<1>4. \A kind \in Summarised : v[kind] = w[kind]
  BY <1>2, <1>3
<1> QED
  BY <1>4 DEF Alike, Summarised

-----------------------------------------------------------------------------
(* Conditions                                                              *)

\* A precondition is about an entity the summary holds, or asks whether the policy
\* the operation writes is there.
Plain(o, x) ==
  \/ x[2][1] \in Summarised
  \/ x[1] \in {"policy_bound", "entity_absent"} /\ x[2] = <<"policy", o.id>> /\ o.kind \in PolicyOps

\* A condition about an entity of the operation's own is plain.
LEMMA CondPlain ==
  ASSUME NEW o, NEW name, NEW refs, \A ref \in refs : ref[1] \in Summarised
  PROVE  \A x \in Cond(name, refs) : Plain(o, x)
  BY DEF Cond, Plain

\* So are those about the entities it refers to,
LEMMA RefsPlain ==
  ASSUME NEW o, NEW kind \in Summarised, NEW ids
  PROVE  /\ \A x \in Present(kind, ids) : Plain(o, x)
         /\ \A x \in ExclusionInactive(ids) : Plain(o, x)
<1>1. \A ref \in Refs(kind, ids) \cup Refs("device", ids) : ref[1] \in Summarised
  BY DEF Refs, Summarised
<1> QED
  BY <1>1, CondPlain DEF Present, ExclusionInactive

\* and all preconditions of an operation.
LEMMA PreconditionsPlain ==
  ASSUME NEW s, NEW o, IsOperation(o), NEW x \in Preconditions(s, o)
  PROVE  Plain(o, x)
<1> DEFINE self == {Written(o)}
<1>0. \A i \in Summarised : i \in {"device", "link", "route", "workload"}
  BY DEF Summarised
<1>1. CASE o.kind \in DeviceOps \cup LinkOps \cup RouteOps \cup WorkloadOps
  <2>1. Written(o)[1] \in Summarised
    BY <1>1, KindsSplit DEF Written, Summarised
  <2>2. \A name : \A y \in Cond(name, self) : Plain(o, y)
    BY <2>1, CondPlain
  <2>3. \A ids : (\A y \in ExclusionInactive(ids) : Plain(o, y)) /\ (\A y \in Present("device", ids) : Plain(o, y))
    BY RefsPlain DEF Summarised
  <2>4. \A ids : (\A y \in Present("link", ids) : Plain(o, y)) /\ (\A y \in Present("route", ids) : Plain(o, y))
    BY RefsPlain DEF Summarised
  <2>5. \A name, arg : Plain(o, <<name, Written(o), arg>>)
    BY <2>1 DEF Plain
  <2>6. CASE o.kind \in DeviceOps
    <3>1. CASE o.kind = "device_add"
      <4>1. Preconditions(s, o) = Cond("entity_absent", self)
        BY <3>1 DEF Preconditions, DeviceOps, MaintenanceOps, WindowOps, ConfigOps
      <4> QED
        BY <2>2, <4>1
    <3>2. CASE o.kind # "device_add"
      <4>1. x \in Cond("entity_present", self) \cup ExclusionInactive({o.id}) \cup {<<"entity_state_is", Written(o), s[EntityKind(o)][o.id].state>>}
                  \cup Cond("maintenance_window_open", self) \cup Cond("device_drained", self)
        BY <2>6, <3>2, SMTT(30) DEF Preconditions, DeviceOps, MaintenanceOps, WindowOps, ConfigOps
      <4> QED
        BY <2>2, <2>3, <2>5, <4>1
    <3> QED
      BY <3>1, <3>2
  <2>7. CASE o.kind \in LinkOps
    <3>1. \E ids : x \in Cond("entity_absent", self) \cup Cond("entity_present", self) \cup Present("device", ids)
                         \cup ExclusionInactive(ids)
      BY <2>7, SMTT(30) DEF Preconditions, DeviceOps, MaintenanceOps, WindowOps, ConfigOps, LinkOps
    <3> QED
      BY <2>2, <2>3, <3>1
  <2>8. CASE o.kind \in RouteOps
    <3>1. \E ids, links : x \in Cond("entity_absent", self) \cup Cond("entity_present", self) \cup Present("device", ids)
                                \cup Present("link", links) \cup Cond("route_walkable", self)
      BY <2>8, SMTT(30) DEF Preconditions, DeviceOps, MaintenanceOps, WindowOps, ConfigOps, RouteOps
    <3> QED
      BY <2>2, <2>3, <2>4, <3>1
  <2>9. CASE o.kind \in WorkloadOps
    <3>1. \E ids : x \in Cond("entity_absent", self) \cup Cond("entity_present", self) \cup Present("route", ids)
      BY <2>9, SMTT(30) DEF Preconditions, DeviceOps, MaintenanceOps, WindowOps, ConfigOps, WorkloadOps
    <3> QED
      BY <2>2, <2>4, <3>1
  <2> QED
    BY <1>1, <2>6, <2>7, <2>8, <2>9
<1>2. CASE o.kind \in PolicyOps
  <2>1. Written(o) = <<"policy", o.id>>
    BY <1>2, KindsSplit DEF Written
  <2>2. x \in Cond("policy_bound", self) \cup Cond("entity_absent", self)
              \cup (IF o.kind = "policy_bind" THEN Cond("entity_present", {o.new.target} \ {Everything}) ELSE {})
    BY <1>2, SMTT(30) DEF Preconditions, DeviceOps, MaintenanceOps, WindowOps, ConfigOps, PolicyOps
  <2>3. \A y \in Cond("policy_bound", self) \cup Cond("entity_absent", self) : Plain(o, y)
    BY <1>2, <2>1 DEF Cond, Plain
  <2>4. \A ref \in {o.new.target} \ {Everything} : ref[1] \in Summarised
    BY <1>2 DEF IsOperation, IsScope
  <2>5. \A y \in Cond("entity_present", {o.new.target} \ {Everything}) : Plain(o, y)
    BY <2>4, CondPlain
  <2> QED
    BY <2>2, <2>3, <2>5
<1>3. CASE o.kind \in ConfigOps
  <2>1. x \in Present("device", {o.id[1]}) \cup ExclusionInactive({o.id[1]})
    BY <1>3, SMTT(30) DEF Preconditions, DeviceOps, MaintenanceOps, WindowOps, ConfigOps
  <2> QED
    BY <2>1, RefsPlain DEF Summarised
<1> QED
  BY <1>1, <1>2, <1>3 DEF IsOperation

\* Entities the summary holds meet a condition in both of two alike snapshots.
LEMMA SatisfiedAlike ==
  ASSUME NEW t, NEW u, NEW c, NEW d, Alike(t, u), c.instant = d.instant, NEW x, x[2][1] \in Summarised
  PROVE  Satisfied(c, t, x) <=> Satisfied(d, u, x)
<1>1. PICK ref : ref = x[2]
  OBVIOUS
<1>2. \A kind \in Summarised : t[kind] = u[kind]
  BY DEF Alike, Summarised
<1>3. ASSUME NEW e, e[1] \in Summarised PROVE Known(t, e) = Known(u, e) /\ Exists(t, e) = Exists(u, e)
  <2>1. t[e[1]] = u[e[1]]
    BY <1>2, <1>3
  <2>2. Known(t, e) = Known(u, e)
    BY <2>1, Zenon DEF Known
  <2>3. Exists(t, e) = Exists(u, e)
    BY <2>1, <2>2, Zenon DEF Exists
  <2> QED
    BY <2>2, <2>3
<1>4. ASSUME NEW r PROVE RouteWalkable(t, r) = RouteWalkable(u, r)
  <2>1. Walk(t, r) = Walk(u, r)
    BY AlikeRoutes
  <2> QED
    BY <2>1, Zenon DEF RouteWalkable
<1>5. PICK it : it = t[ref[1]][ref[2]] /\ it = u[ref[1]][ref[2]]
  BY <1>1, <1>2
<1>6. Known(t, ref) = Known(u, ref)
  BY <1>1, <1>3
<1>7. Exists(t, ref) = Exists(u, ref)
  BY <1>1, <1>3
<1>8. \A i : Exists(t, <<"device", i>>) = Exists(u, <<"device", i>>)
  BY <1>3 DEF Summarised
<1>9. t.link = u.link
  BY DEF Alike
<1>10. MaintenancePermitted(c, it) = MaintenancePermitted(d, it)
  BY Zenon DEF MaintenancePermitted
<1>11. ChangePermitted(c, it) = ChangePermitted(d, it)
  BY Zenon DEF ChangePermitted
<1> DEFINE Usual(s) ==
       /\ RouteWalkable(s, it)
       /\ \A l \in PathLinks(it.path) : s.link[l].state = "present"
       /\ Exists(s, <<"device", it.source>>) /\ Exists(s, <<"device", it.sink>>)
<1>12. Usual(t) = Usual(u)
  BY <1>4, <1>8, <1>9, Zenon
<1>13. Satisfied(c, t, x) = Satisfied(d, u, x)
  BY <1>1, <1>5, <1>6, <1>7, <1>10, <1>11, <1>12, Zenon DEF Satisfied
<1> QED
  BY <1>13, Zenon

\* What a step promises it promises in alike snapshots alike.
LEMMA PostKept ==
  ASSUME NEW c, NEW d, c.instant = d.instant, NEW u, Shaped(u), NEW o, o.kind \in AllKinds, Possible(d, u, o),
         NEW v, NEW w, w = Changed(u, o), Alike(v, w), AllSatisfied(c, v, Postconditions(o))
  PROVE  AllSatisfied(d, w, Postconditions(o))
<1> SUFFICES ASSUME NEW x \in Postconditions(o) PROVE Satisfied(d, w, x)
  BY DEF AllSatisfied
<1>1. CASE o.kind \in AllKinds \ (PolicyOps \cup ConfigOps)
  <2>1. Written(o)[1] \in Summarised
    BY <1>1, KindsSplit DEF Written, Summarised, AllKinds
  <2>2. x[2] = Written(o)
    BY <1>1, SMTT(60)
       DEF Postconditions, Cond, AllKinds, DeviceOps, LinkOps, RouteOps, WorkloadOps, PolicyOps, ConfigOps, MaintenanceOps
  <2>3. Satisfied(c, v, x)
    BY DEF AllSatisfied
  <2> QED
    BY <2>1, <2>2, <2>3, SatisfiedAlike
<1>2. CASE o.kind \in PolicyOps \cup ConfigOps
  <2>1. PICK kind : kind = EntityKind(o) /\ kind \in {"policy", "config"}
    BY <1>2, KindsSplit
  <2>2. /\ o.kind \in EraseOps => o.id \notin DOMAIN w[kind]
        /\ o.kind \notin EraseOps => o.id \in DOMAIN w[kind] /\ w[kind][o.id] = EntryAfter(u, o)
    BY <2>1, OwnKindAfter
  <2>3. Written(o) = <<kind, o.id>>
    BY <2>1 DEF Written
  <2>4. CASE o.kind \in EraseOps
    <3>1. x = <<"entity_absent", <<kind, o.id>>, 0>>
      BY <1>2, <2>3, <2>4, SMTT(60) DEF Postconditions, Cond, EraseOps, PolicyOps, ConfigOps, MaintenanceOps
    <3>2. ~Exists(w, <<kind, o.id>>)
      BY <2>1, <2>2, <2>4 DEF Exists, Known
    <3> QED
      BY <3>1, <3>2 DEF Satisfied
  <2>5. CASE o.kind = "policy_bind"
    <3>1. x = <<"policy_bound", <<kind, o.id>>, 0>>
      BY <2>3, <2>5, SMTT(60) DEF Postconditions, Cond, MaintenanceOps
    <3>2. Known(w, <<kind, o.id>>)
      BY <2>2, <2>5 DEF Known, EraseOps
    <3> QED
      BY <3>1, <3>2 DEF Satisfied
  <2>6. CASE o.kind = "config_set"
    <3>1. x = <<"config_equals", <<kind, o.id>>, o.new.value>>
      BY <2>3, <2>6, SMTT(60) DEF Postconditions, Cond, MaintenanceOps
    <3>2. Known(w, <<kind, o.id>>)
      BY <2>2, <2>6 DEF Known, EraseOps
    <3>3. w[kind][o.id].value = o.new.value
      BY <2>2, <2>6 DEF EntryAfter, EraseOps, WindowOps, MaintenanceOps
    <3> QED
      BY <3>1, <3>2, <3>3 DEF Satisfied
  <2> QED
    BY <1>2, <2>4, <2>5, <2>6 DEF PolicyOps, ConfigOps, EraseOps
<1> QED
  BY <1>1, <1>2

\* Which devices an operation concerns, and whether the gates let it pass.
LEMMA PermittedAlike ==
  ASSUME NEW t, NEW u, Alike(t, u), NEW c, NEW d, SameRules(c, d), NEW o
  PROVE  Permitted(c, t, o) = Permitted(d, u, o)
<1>1. t.device = u.device /\ t.link = u.link /\ t.route = u.route /\ t.workload = u.workload
  BY DEF Alike
<1>2. c.enforced = d.enforced /\ c.instant = d.instant
  BY DEF SameRules
<1>3. \A ids : RouteEnds(t, ids) = RouteEnds(u, ids)
  BY <1>1, Zenon DEF RouteEnds
<1>4. \A ids : LinkEnds(t, ids) = LinkEnds(u, ids)
  BY <1>1, Zenon DEF LinkEnds
<1>5. Subjects(t, o) = Subjects(u, o)
  BY <1>1, <1>3, <1>4, SMTT(30) DEF Subjects
<1>6. \A x : ChangePermitted(c, x) = ChangePermitted(d, x)
  BY <1>2, Zenon DEF ChangePermitted
<1>7. \A x : MaintenancePermitted(c, x) = MaintenancePermitted(d, x)
  BY <1>2, Zenon DEF MaintenancePermitted
<1> QED
  BY <1>1, <1>2, <1>5, <1>6, <1>7, Zenon DEF Permitted

-----------------------------------------------------------------------------
(* A plan's steps in two snapshots                                         *)

\* The snapshots t and u agree in all that steps can tell which name the policies P and
\* the configuration entries C, erase the entities E, and are n in number.
Abreast(t, u, P, C, E, n) ==
  /\ IsSnapshot(t) /\ IsSnapshot(u) /\ Alike(t, u) /\ Valid(u)
  /\ P \cap DOMAIN t.policy = P \cap DOMAIN u.policy
  /\ C \cap DOMAIN t.config = C \cap DOMAIN u.config
  /\ \A p \in DOMAIN u.policy :
       u.policy[p].target \in E => p \in DOMAIN t.policy /\ t.policy[p].target = u.policy[p].target
  /\ \A e \in C \cap DOMAIN u.config :
       u.config[e].revision = t.config[e].revision \/ u.config[e].revision + n <= MaxRevision

\* An operation names nothing else.
Covered(P, C, E, o) ==
  /\ o.kind \in PolicyOps => o.id \in P
  /\ o.kind \in {"route_add", "route_set_path"} => o.new.policy \in P
  /\ o.kind \in ConfigOps => o.id \in C
  /\ o.kind \in EraseOps => Written(o) \in E

\* What one of them can do the other can.
LEMMA PossibleKept ==
  ASSUME NEW t, NEW u, NEW P, NEW C, NEW E, NEW n \in Nat, n > 0, Abreast(t, u, P, C, E, n),
         NEW c, NEW d, SameRules(c, d), NEW o, IsOperation(o), Covered(P, C, E, o), Possible(c, t, o)
  PROVE  Possible(d, u, o)
<1>1. t.device = u.device /\ t.link = u.link /\ t.route = u.route /\ t.workload = u.workload
  BY DEF Abreast, Alike
<1>2. c.enforced = d.enforced
  BY DEF SameRules
<1>3. o.kind \in AllKinds
  BY OperationKind
<1>4. Known(t, Written(o)) = Known(u, Written(o))
  <2>1. PICK kind : kind = EntityKind(o) /\ kind \in EntityKinds
    BY <1>3, KindsSplit
  <2>2. CASE kind \in Summarised
    <3>1. t[kind] = u[kind]
      BY <1>1, <2>2 DEF Summarised
    <3> QED
      BY <2>1, <3>1 DEF Known, Written
  <2>3. CASE kind = "policy"
    <3>1. o.id \in P
      BY <1>3, <2>1, <2>3, KindsSplit DEF Covered, AllKinds
    <3> QED
      BY <2>1, <2>3, <3>1 DEF Known, Written, Abreast
  <2>4. CASE kind = "config"
    <3>1. o.id \in C
      BY <1>3, <2>1, <2>4, KindsSplit DEF Covered, AllKinds
    <3> QED
      BY <2>1, <2>4, <3>1 DEF Known, Written, Abreast
  <2> QED
    BY <2>1, <2>2, <2>3, <2>4 DEF EntityKinds, Summarised
<1>5. LinkPossible(t, o) = LinkPossible(u, o)
  BY <1>1, Zenon DEF LinkPossible
<1>6. \A r : RouteWalkable(t, r) = RouteWalkable(u, r)
  <2> SUFFICES ASSUME NEW r PROVE RouteWalkable(t, r) = RouteWalkable(u, r)
    OBVIOUS
  <2>1. Walk(t, r) = Walk(u, r)
    BY AlikeRoutes DEF Abreast
  <2> QED
    BY <2>1, Zenon DEF RouteWalkable
<1>7. \A r : PathPossible(t, r) = PathPossible(u, r)
  BY <1>1, <1>6, Zenon DEF PathPossible
<1>8. RoutePossible(t, o) = RoutePossible(u, o)
  <2>1. PathPossible(t, o.new) = PathPossible(u, o.new)
    BY <1>7
  <2>2. RouteWalkable(t, t.route[o.id]) = RouteWalkable(u, t.route[o.id])
    BY <1>6
  <2> QED
    BY <1>1, <2>1, <2>2, Zenon DEF RoutePossible
<1>9. WorkloadPossible(t, o) = WorkloadPossible(u, o)
  BY <1>1, Zenon DEF WorkloadPossible
<1>10. CASE o.kind \notin ConfigOps
  <2> DEFINE Fits(e, s) ==
        CASE o.kind \in MaintenanceOps -> MaintenancePossible("drain_before_maintenance" \in e.enforced,
                                            IF Known(s, Written(o)) THEN s.device[o.id].state ELSE "removed", o)
          [] o.kind \in DeviceOps \ MaintenanceOps -> DevicePossible("drain_before_maintenance" \in e.enforced,
                                            IF Known(s, Written(o)) THEN s.device[o.id].state ELSE "removed", o)
          [] o.kind \in LinkOps     -> LinkPossible(s, o)
          [] o.kind \in RouteOps    -> RoutePossible(s, o)
          [] o.kind \in WorkloadOps -> WorkloadPossible(s, o)
          [] o.kind \in PolicyOps   -> TRUE
          [] o.kind \in ConfigOps   -> ConfigPossible(t, o)
  <2>1. Fits(c, t) = Fits(d, u)
    BY <1>1, <1>2, <1>4, <1>5, <1>8, <1>9, Zenon
  <2>2. Fits(c, t)
    BY DEF Possible
  <2>3. Fits(d, u)
    BY <2>1, <2>2, Zenon
  <2> HIDE DEF Fits
  <2>4. CASE o.kind \in MaintenanceOps
    BY <1>4, <2>3, <2>4 DEF Possible, Fits, MaintenanceOps, DeviceOps, LinkOps, RouteOps, WorkloadOps, PolicyOps, ConfigOps
  <2>5. CASE o.kind \in DeviceOps \ MaintenanceOps
    BY <1>4, <2>3, <2>5 DEF Possible, Fits, MaintenanceOps, DeviceOps, LinkOps, RouteOps, WorkloadOps, PolicyOps, ConfigOps
  <2>6. CASE o.kind \in LinkOps \cup RouteOps \cup WorkloadOps \cup PolicyOps
    BY <1>4, <2>3, <2>6 DEF Possible, Fits, MaintenanceOps, DeviceOps, LinkOps, RouteOps, WorkloadOps, PolicyOps, ConfigOps
  <2> QED
    BY <1>3, <1>10, <2>4, <2>5, <2>6 DEF AllKinds
<1>11. CASE o.kind \in ConfigOps
  <2>1. ConfigPossible(t, o)
    BY <1>11 DEF Possible, MaintenanceOps, DeviceOps, LinkOps, RouteOps, WorkloadOps, PolicyOps, ConfigOps
  <2>2. ConfigPossible(u, o)
    <3> SUFFICES ASSUME o.kind = "config_set", Known(u, Written(o)) PROVE RevisionLeft(u.config[o.id])
      BY <1>1, <2>1 DEF ConfigPossible
    <3>1. Written(o) = <<"config", o.id>>
      BY KindsSplit DEF Written, ConfigOps
    <3>2. o.id \in C \cap DOMAIN u.config
      BY <3>1 DEF Known, Covered, ConfigOps
    <3>3. t.config[o.id].revision < MaxRevision
      BY <1>4, <2>1 DEF ConfigPossible, RevisionLeft
    <3>4. u.config[o.id].revision \in Nat
      BY <3>2 DEF Abreast, IsSnapshot
    <3>5. u.config[o.id].revision = t.config[o.id].revision \/ u.config[o.id].revision + n <= MaxRevision
      BY <3>2 DEF Abreast
    <3>6. u.config[o.id].revision < MaxRevision
      BY <3>3, <3>4, <3>5, RevisionAssumption
    <3> QED
      BY <3>6 DEF RevisionLeft
  <2> QED
    BY <1>4, <1>11, <2>2 DEF Possible, MaintenanceOps, DeviceOps, LinkOps, RouteOps, WorkloadOps, PolicyOps, ConfigOps
<1> QED
  BY <1>10, <1>11

\* If one of them is valid after an operation, so is the other.
LEMMA ValidKept ==
  ASSUME NEW t, NEW u, NEW P, NEW C, NEW E, NEW n, Abreast(t, u, P, C, E, n),
         NEW c, NEW d, NEW o, IsOperation(o), Covered(P, C, E, o), Possible(c, t, o), Possible(d, u, o),
         NEW v, v = Changed(t, o), NEW w, w = Changed(u, o), Valid(v)
  PROVE  Valid(w)
<1>1. PICK kind : kind = EntityKind(o) /\ kind \in EntityKinds /\ o.kind \in AllKinds
  BY OperationKind, KindsSplit
<1>2. Shaped(t) /\ Shaped(u) /\ Alike(t, u) /\ Valid(u)
  BY SnapshotShaped DEF Abreast
<1>3. v.device = w.device /\ v.link = w.link /\ v.route = w.route /\ v.workload = w.workload
  BY <1>1, <1>2, AlikeAfter DEF Alike
<1>4. \A k \in EntityKinds \ {kind} : v[k] = t[k] /\ w[k] = u[k]
  BY <1>1, <1>2, OtherKindsAfter
<1>5. /\ \A i \in DOMAIN u[kind] \ {o.id} : i \in DOMAIN w[kind] /\ w[kind][i] = u[kind][i]
      /\ DOMAIN w[kind] \subseteq DOMAIN u[kind] \cup {o.id}
      /\ o.kind \notin EraseOps => o.id \in DOMAIN w[kind] /\ w[kind][o.id] = EntryAfter(u, o)
      /\ o.kind \in EraseOps => o.id \notin DOMAIN w[kind]
  BY <1>1, <1>2, OwnKindAfter
<1>6. /\ DOMAIN v[kind] \subseteq DOMAIN t[kind] \cup {o.id}
      /\ o.kind \notin EraseOps => o.id \in DOMAIN v[kind] /\ v[kind][o.id] = EntryAfter(t, o)
      /\ o.kind \in EraseOps => o.id \notin DOMAIN v[kind]
  BY <1>1, <1>2, OwnKindAfter
<1>7. ASSUME NEW r \in DOMAIN w.route PROVE w.route[r].policy \in DOMAIN w.policy \cup {0}
  <2>1. PICK q : q = w.route[r].policy
    OBVIOUS
  <2>2. q \in DOMAIN v.policy \cup {0}
    BY <1>3, <2>1 DEF Valid
  <2>3. \A x \in DOMAIN u.route : u.route[x].policy \in DOMAIN u.policy \cup {0}
    BY <1>2 DEF Valid
  <2>4. CASE kind = "policy"
    <3>1. w.route = u.route
      BY <1>4, <2>4 DEF EntityKinds
    <3>2. q \in DOMAIN u.policy \cup {0}
      BY <2>1, <2>3, <3>1
    <3>3. CASE q = o.id
      BY <1>5, <1>6, <2>1, <2>2, <2>4, <3>3
    <3>4. CASE q # o.id
      BY <1>5, <2>1, <2>4, <3>2, <3>4
    <3> QED
      BY <3>3, <3>4
  <2>5. CASE kind # "policy"
    <3>1. w.policy = u.policy /\ v.policy = t.policy
      BY <1>4, <2>5 DEF EntityKinds
    <3>2. CASE kind # "route"
      <4>1. w.route = u.route
        BY <1>4, <3>2 DEF EntityKinds
      <4> QED
        BY <2>1, <2>3, <3>1, <4>1
    <3>3. CASE kind = "route" /\ r # o.id
      <4>1. r \in DOMAIN u.route /\ w.route[r] = u.route[r]
        BY <1>5, <3>3
      <4> QED
        BY <2>1, <2>3, <3>1, <4>1
    <3>4. CASE kind = "route" /\ r = o.id
      <4>1. o.kind \notin EraseOps /\ w.route[r] = EntryAfter(u, o)
        BY <1>5, <3>4
      <4>2. o.kind \in {"route_add", "route_set_path", "route_set_state"}
        BY <1>1, <3>4, <4>1, KindsSplit DEF AllKinds, RouteOps, EraseOps
      <4>3. CASE o.kind \in {"route_add", "route_set_path"}
        <5>1. q = o.new.policy
          <6>1. CASE o.kind = "route_add"
            <7>1. EntryAfter(u, o) = o.new
              BY <6>1, SMTT(30) DEF EntryAfter, WindowOps, MaintenanceOps
            <7> QED
              BY <2>1, <4>1, <7>1
          <6>2. CASE o.kind = "route_set_path"
            <7>1. EntryAfter(u, o) = [source |-> o.new.source, sink |-> o.new.sink, path |-> o.new.path,
                                      policy |-> o.new.policy, state |-> u.route[o.id].state]
              BY <6>2, SMTT(30) DEF EntryAfter, WindowOps, MaintenanceOps
            <7> QED
              BY <2>1, <4>1, <7>1
          <6> QED
            BY <4>3, <6>1, <6>2
        <5>2. q \in P
          BY <4>3, <5>1 DEF Covered
        <5>3. P \cap DOMAIN t.policy = P \cap DOMAIN u.policy
          BY DEF Abreast
        <5> QED
          BY <2>1, <2>2, <3>1, <5>2, <5>3
      <4>4. CASE o.kind = "route_set_state"
        <5>1. o.id \in DOMAIN u.route
          BY <1>1, <3>4, <4>4, ChangedIsKnown DEF AddOps
        <5>2. PICK e : e = u.route[o.id] /\ IsRoute(e)
          BY <5>1 DEF Abreast, IsSnapshot
        <5>3. EntryAfter(u, o) = [e EXCEPT !.state = o.new.state]
          BY <4>4, <5>2 DEF EntryAfter, EraseOps, WindowOps, MaintenanceOps
        <5>4. q = e.policy
          BY <2>1, <4>1, <5>2, <5>3 DEF IsRoute
        <5> QED
          BY <2>1, <2>3, <3>1, <5>1, <5>2, <5>4
      <4> QED
        BY <4>2, <4>3, <4>4
    <3> QED
      BY <3>2, <3>3, <3>4
  <2> QED
    BY <2>4, <2>5
<1>8. ASSUME NEW p \in DOMAIN w.policy
      PROVE  w.policy[p].target = Everything \/ Known(w, w.policy[p].target)
  <2>1. PICK target : target = w.policy[p].target
    OBVIOUS
  <2>2. CASE kind = "policy" /\ p = o.id
    <3>1. /\ o.kind \notin EraseOps /\ w.policy[p] = EntryAfter(u, o)
          /\ p \in DOMAIN v.policy /\ v.policy[p] = EntryAfter(t, o)
      BY <1>5, <1>6, <2>2
    <3>2. o.kind = "policy_bind"
      BY <1>1, <2>2, <3>1, KindsSplit DEF AllKinds, PolicyOps, EraseOps
    <3>3. w.policy[p] = o.new /\ v.policy[p] = o.new
      BY <3>1, <3>2 DEF EntryAfter, EraseOps, WindowOps, MaintenanceOps
    <3>4. target = Everything \/ Known(v, target)
      BY <2>1, <3>1, <3>3 DEF Valid
    <3>5. target = Everything \/ target[1] \in Summarised
      BY <2>1, <3>2, <3>3 DEF IsOperation, IsScope, PolicyOps
    <3>6. ASSUME target[1] \in Summarised PROVE v[target[1]] = w[target[1]]
      BY <1>3, <3>6 DEF Summarised
    <3> QED
      BY <2>1, <3>4, <3>5, <3>6 DEF Known
  <2>3. CASE ~(kind = "policy" /\ p = o.id)
    <3>1. p \in DOMAIN u.policy /\ w.policy[p] = u.policy[p]
      BY <1>4, <1>5, <2>3 DEF EntityKinds
    <3>2. target = Everything \/ Known(u, target)
      BY <1>2, <2>1, <3>1 DEF Valid
    <3>3. target = Everything \/ (target = <<target[1], target[2]>> /\ target[1] \in Summarised)
      BY <2>1, <3>1 DEF Abreast, IsSnapshot, IsScope
    <3> SUFFICES ASSUME target # Everything PROVE Known(w, target)
      BY <2>1
    <3>4. target[2] \in DOMAIN u[target[1]] /\ target[1] \in EntityKinds
      BY <3>2, <3>3 DEF Known, Summarised, EntityKinds
    <3>5. CASE target[1] # kind
      BY <1>4, <3>4, <3>5 DEF Known
    <3>6. CASE target[1] = kind /\ target[2] # o.id
      BY <1>5, <3>4, <3>6 DEF Known
    <3>7. CASE target[1] = kind /\ target[2] = o.id /\ o.kind \notin EraseOps
      BY <1>5, <3>7 DEF Known
    <3>8. CASE target[1] = kind /\ target[2] = o.id /\ o.kind \in EraseOps
      <4>1. target \in E
        BY <1>1, <3>3, <3>8 DEF Covered, Written
      <4>2. p \in DOMAIN t.policy /\ t.policy[p].target = target
        BY <2>1, <3>1, <4>1 DEF Abreast
      <4>3. kind # "policy"
        BY <3>3, <3>8 DEF Summarised
      <4>4. v.policy = t.policy
        BY <1>4, <4>3 DEF EntityKinds
      <4>5. Known(v, target)
        BY <4>2, <4>4 DEF Valid
      <4> QED
        BY <1>6, <3>8, <4>5 DEF Known
    <3> QED
      BY <3>5, <3>6, <3>7, <3>8
  <2> QED
    BY <2>2, <2>3
<1>9. ASSUME NEW e \in DOMAIN w.config PROVE e[1] \in DOMAIN w.device
  <2>1. CASE e \in DOMAIN u.config
    <3>1. e[1] \in DOMAIN u.device
      BY <1>2, <2>1 DEF Valid
    <3>2. CASE kind # "device"
      BY <1>4, <3>1, <3>2 DEF EntityKinds
    <3>3. CASE kind = "device"
      <4>1. o.kind \notin EraseOps
        BY <1>1, <3>3, KindsSplit DEF EraseOps, RouteOps, WorkloadOps, PolicyOps, ConfigOps
      <4> QED
        BY <1>5, <3>1, <3>3, <4>1
    <3> QED
      BY <3>2, <3>3
  <2>2. CASE e \notin DOMAIN u.config
    <3>1. kind = "config" /\ e = o.id /\ o.kind \notin EraseOps
      BY <1>4, <1>5, <2>2 DEF EntityKinds
    <3>2. e \in DOMAIN v.config
      BY <1>6, <3>1
    <3> QED
      BY <1>3, <3>2 DEF Valid
  <2> QED
    BY <2>1, <2>2
<1>10. /\ \A x \in DOMAIN w.device : \A y \in w.device[x].excl \cup w.device[x].maint : y.begin < y.end
       /\ \A l \in DOMAIN w.link :
            /\ w.link[l].a # w.link[l].b
            /\ {w.link[l].a, w.link[l].b} \subseteq DOMAIN w.device
            /\ w.link[l].cap >= w.link[l].res
       /\ \A r \in DOMAIN w.route :
            /\ {w.route[r].source, w.route[r].sink} \subseteq DOMAIN w.device
            /\ w.route[r].path # <<>>
            /\ PathLinks(w.route[r].path) \subseteq DOMAIN w.link
       /\ \A x \in DOMAIN w.workload : DOMAIN w.workload[x].bind \subseteq DOMAIN w.route
  <2>1. Valid(v)
    OBVIOUS
  <2> QED
    BY <1>3, <2>1 DEF Valid
<1> QED
  BY <1>7, <1>8, <1>9, <1>10 DEF Valid

\* They stay abreast.
LEMMA AbreastKept ==
  ASSUME NEW t, NEW u, NEW P, NEW C, NEW E, NEW n \in Nat, n > 0, Abreast(t, u, P, C, E, n),
         NEW c, NEW d, NEW o, IsOperation(o), Covered(P, C, E, o), Possible(c, t, o), Possible(d, u, o),
         NEW v, v = Changed(t, o), NEW w, w = Changed(u, o), Valid(v)
  PROVE  Abreast(v, w, P, C, E, n - 1)
<1>1. PICK kind : kind = EntityKind(o) /\ kind \in EntityKinds /\ o.kind \in AllKinds
  BY OperationKind, KindsSplit
<1>2. Shaped(t) /\ Shaped(u) /\ Alike(t, u)
  BY SnapshotShaped DEF Abreast
<1>3. IsSnapshot(v) /\ IsSnapshot(w)
  BY SnapshotKept DEF Abreast
<1>4. Alike(v, w)
  BY <1>1, <1>2, AlikeAfter
<1>5. Valid(w)
  BY ValidKept
<1>6. \A k \in EntityKinds \ {kind} : v[k] = t[k] /\ w[k] = u[k]
  BY <1>1, <1>2, OtherKindsAfter
<1>7. /\ \A i \in DOMAIN u[kind] \ {o.id} : i \in DOMAIN w[kind] /\ w[kind][i] = u[kind][i]
      /\ DOMAIN w[kind] \subseteq DOMAIN u[kind] \cup {o.id}
      /\ o.kind \notin EraseOps => o.id \in DOMAIN w[kind] /\ w[kind][o.id] = EntryAfter(u, o)
      /\ o.kind \in EraseOps => o.id \notin DOMAIN w[kind]
  BY <1>1, <1>2, OwnKindAfter
<1>8. /\ \A i \in DOMAIN t[kind] \ {o.id} : i \in DOMAIN v[kind] /\ v[kind][i] = t[kind][i]
      /\ DOMAIN v[kind] \subseteq DOMAIN t[kind] \cup {o.id}
      /\ o.kind \notin EraseOps => o.id \in DOMAIN v[kind] /\ v[kind][o.id] = EntryAfter(t, o)
      /\ o.kind \in EraseOps => o.id \notin DOMAIN v[kind]
  BY <1>1, <1>2, OwnKindAfter
<1>9. /\ P \cap DOMAIN t.policy = P \cap DOMAIN u.policy
      /\ C \cap DOMAIN t.config = C \cap DOMAIN u.config
  BY DEF Abreast
<1>10. P \cap DOMAIN v.policy = P \cap DOMAIN w.policy
  <2>1. CASE kind # "policy"
    BY <1>6, <1>9, <2>1 DEF EntityKinds
  <2>2. CASE kind = "policy"
    BY <1>7, <1>8, <1>9, <2>2
  <2> QED
    BY <2>1, <2>2
<1>11. C \cap DOMAIN v.config = C \cap DOMAIN w.config
  <2>1. CASE kind # "config"
    BY <1>6, <1>9, <2>1 DEF EntityKinds
  <2>2. CASE kind = "config"
    BY <1>7, <1>8, <1>9, <2>2
  <2> QED
    BY <2>1, <2>2
<1>12. ASSUME NEW p \in DOMAIN w.policy, w.policy[p].target \in E
       PROVE  p \in DOMAIN v.policy /\ v.policy[p].target = w.policy[p].target
  <2>0. \A q \in DOMAIN u.policy :
          u.policy[q].target \in E => q \in DOMAIN t.policy /\ t.policy[q].target = u.policy[q].target
    BY DEF Abreast
  <2>1. CASE kind # "policy"
    <3>1. w.policy = u.policy /\ v.policy = t.policy
      BY <1>6, <2>1 DEF EntityKinds
    <3> QED
      BY <1>12, <2>0, <3>1
  <2>2. CASE kind = "policy" /\ p # o.id
    <3>1. p \in DOMAIN u.policy /\ w.policy[p] = u.policy[p]
      BY <1>7, <2>2
    <3>2. p \in DOMAIN t.policy /\ t.policy[p].target = u.policy[p].target
      BY <1>12, <2>0, <3>1
    <3> QED
      BY <1>8, <2>2, <3>1, <3>2
  <2>3. CASE kind = "policy" /\ p = o.id
    <3>1. o.kind \notin EraseOps
      BY <1>7, <2>3
    <3>2. o.kind = "policy_bind"
      BY <1>1, <2>3, <3>1, KindsSplit DEF AllKinds, PolicyOps, EraseOps
    <3>3. EntryAfter(u, o) = o.new /\ EntryAfter(t, o) = o.new
      BY <3>2 DEF EntryAfter, EraseOps, WindowOps, MaintenanceOps
    <3> QED
      BY <1>7, <1>8, <2>3, <3>1, <3>3
  <2> QED
    BY <2>1, <2>2, <2>3
<1>13. ASSUME NEW e \in C \cap DOMAIN w.config
       PROVE  w.config[e].revision = v.config[e].revision \/ w.config[e].revision + (n - 1) <= MaxRevision
  <2>0. \A x \in C \cap DOMAIN u.config :
          /\ u.config[x].revision \in Nat
          /\ u.config[x].revision = t.config[x].revision \/ u.config[x].revision + n <= MaxRevision
    BY DEF Abreast, IsSnapshot
  <2>1. CASE kind # "config" \/ e # o.id
    <3>1. e \in DOMAIN u.config /\ w.config[e] = u.config[e]
      BY <1>6, <1>7, <2>1 DEF EntityKinds
    <3>2. e \in DOMAIN t.config
      BY <1>9, <3>1
    <3>3. v.config[e] = t.config[e]
      BY <1>6, <1>8, <2>1, <3>2 DEF EntityKinds
    <3>4. PICK a, b : a = u.config[e].revision /\ b = t.config[e].revision
      OBVIOUS
    <3>5. a \in Nat /\ (a = b \/ a + n <= MaxRevision)
      BY <2>0, <3>1, <3>4
    <3>6. a = b \/ a + (n - 1) <= MaxRevision
      BY <3>5, RevisionAssumption
    <3> QED
      BY <3>1, <3>3, <3>4, <3>6
  <2>2. CASE kind = "config" /\ e = o.id
    <3>1. o.kind \notin EraseOps
      BY <1>7, <2>2
    <3>2. o.kind = "config_set"
      BY <1>1, <2>2, <3>1, KindsSplit DEF AllKinds, ConfigOps, EraseOps
    <3>3. w.config[e] = EntryAfter(u, o) /\ v.config[e] = EntryAfter(t, o)
      BY <1>7, <1>8, <2>2, <3>1
    <3>4. Written(o) = <<"config", e>>
      BY <1>1, <2>2 DEF Written
    <3>5. /\ Known(u, Written(o)) <=> e \in DOMAIN u.config
          /\ Known(t, Written(o)) <=> e \in DOMAIN t.config
      BY <3>4 DEF Known
    <3>6. EntryAfter(u, o).revision = IF Known(u, Written(o)) THEN u.config[o.id].revision + 1 ELSE 0
      BY <3>2 DEF EntryAfter, EraseOps, WindowOps, MaintenanceOps
    <3>7. EntryAfter(t, o).revision = IF Known(t, Written(o)) THEN t.config[o.id].revision + 1 ELSE 0
      BY <3>2 DEF EntryAfter, EraseOps, WindowOps, MaintenanceOps
    <3>8. CASE e \in DOMAIN u.config
      <4>1. e \in DOMAIN t.config
        BY <1>9, <3>8
      <4>2. PICK a, b : a = u.config[e].revision /\ b = t.config[e].revision
        OBVIOUS
      <4>3. a \in Nat /\ (a = b \/ a + n <= MaxRevision)
        BY <2>0, <3>8, <4>2
      <4>4. a + 1 = b + 1 \/ (a + 1) + (n - 1) <= MaxRevision
        BY <4>3, RevisionAssumption
      <4>5. w.config[e].revision = a + 1 /\ v.config[e].revision = b + 1
        BY <2>2, <3>3, <3>5, <3>6, <3>7, <3>8, <4>1, <4>2
      <4> QED
        BY <4>4, <4>5
    <3>9. CASE e \notin DOMAIN u.config
      <4>1. e \notin DOMAIN t.config
        BY <1>9, <3>9
      <4> QED
        BY <3>3, <3>5, <3>6, <3>7, <3>9, <4>1
    <3> QED
      BY <3>8, <3>9
  <2> QED
    BY <2>1, <2>2
<1> QED
  BY <1>3, <1>4, <1>5, <1>10, <1>11, <1>12, <1>13 DEF Abreast

\* What the steps of a plan carry: an operation with the conditions and the inverses
\* derived for it.
IsStep(step) ==
  /\ IsOperation(step.op) /\ step.post = Postconditions(step.op)
  /\ \A x \in step.pre : Plain(step.op, x)
  /\ IsFiniteSet(step.undo)
  /\ \A o \in step.undo : IsOperation(o) /\ Written(o) = Written(step.op)

\* Preconditions derived in one snapshot hold in both or in neither.
LEMMA PreKept ==
  ASSUME NEW t, NEW u, NEW P, NEW C, NEW E, NEW n, Abreast(t, u, P, C, E, n),
         NEW c, NEW d, c.instant = d.instant, NEW step, IsStep(step), Covered(P, C, E, step.op),
         AllSatisfied(c, t, step.pre)
  PROVE  AllSatisfied(d, u, step.pre)
<1> SUFFICES ASSUME NEW x \in step.pre PROVE Satisfied(d, u, x)
  BY DEF AllSatisfied
<1>1. Satisfied(c, t, x) /\ Plain(step.op, x) /\ Alike(t, u)
  BY DEF AllSatisfied, IsStep, Abreast
<1>2. CASE x[2][1] \in Summarised
  BY <1>1, <1>2, SatisfiedAlike
<1>3. CASE x[2][1] \notin Summarised
  <2>1. /\ x[1] \in {"policy_bound", "entity_absent"} /\ x[2] = <<"policy", step.op.id>>
        /\ step.op.kind \in PolicyOps
    BY <1>1, <1>3 DEF Plain
  <2>2. step.op.id \in P
    BY <2>1 DEF Covered
  <2>3. step.op.id \in DOMAIN t.policy <=> step.op.id \in DOMAIN u.policy
    BY <2>2 DEF Abreast
  <2>4. PICK ref : ref = x[2] /\ ref = <<"policy", step.op.id>>
    BY <2>1
  <2>5. Known(t, ref) <=> Known(u, ref)
    BY <2>3, <2>4 DEF Known
  <2>6. CASE x[1] = "policy_bound"
    <3>1. \A e, s : Satisfied(e, s, x) <=> Known(s, ref)
      BY <2>4, <2>6 DEF Satisfied
    <3> QED
      BY <1>1, <2>5, <3>1
  <2>7. CASE x[1] = "entity_absent"
    <3>1. \A e, s : Satisfied(e, s, x) <=> ~Exists(s, ref)
      BY <2>4, <2>7 DEF Satisfied
    <3>2. \A s : Exists(s, ref) <=> Known(s, ref)
      BY <2>4 DEF Exists
    <3> QED
      BY <1>1, <2>5, <3>1, <3>2
  <2> QED
    BY <2>1, <2>6, <2>7
<1> QED
  BY <1>2, <1>3

\* A step that is verified in one of them is verified in the other.
LEMMA VerifiedAbreast ==
  ASSUME NEW t, NEW u, NEW P, NEW C, NEW E, NEW n \in Nat, n > 0, Abreast(t, u, P, C, E, n),
         NEW c, NEW d, SameRules(c, d), NEW step, IsStep(step), Covered(P, C, E, step.op),
         Verified(c, t, step)
  PROVE  /\ Verified(d, u, step)
         /\ Abreast(Changed(t, step.op), Changed(u, step.op), P, C, E, n - 1)
<1> DEFINE o == step.op
<1>1. PICK v, w : v = Changed(t, o) /\ w = Changed(u, o)
  OBVIOUS
<1>2. /\ AllSatisfied(c, t, step.pre) /\ Permitted(c, t, o) /\ Possible(c, t, o) /\ Valid(v)
      /\ AllSatisfied(c, v, step.post) /\ StateIsSafe(c, v)
  BY <1>1, Zenon DEF Verified, Accepts, Applies
<1>3. IsOperation(o) /\ o.kind \in AllKinds /\ step.post = Postconditions(o)
  BY OperationKind DEF IsStep
<1>4. Shaped(t) /\ Shaped(u) /\ Alike(t, u) /\ c.instant = d.instant
  BY SnapshotShaped DEF Abreast, SameRules
<1> HIDE DEF o
<1>5. Possible(d, u, o)
  BY <1>2, <1>3, PossibleKept DEF o
<1>6. Permitted(d, u, o)
  BY <1>2, <1>4, PermittedAlike
<1>7. Abreast(v, w, P, C, E, n - 1)
  BY <1>1, <1>2, <1>3, <1>5, AbreastKept DEF o
<1>8. Alike(v, w) /\ Valid(w)
  BY <1>7 DEF Abreast
<1>9. AllSatisfied(d, u, step.pre)
  BY <1>2, <1>4, PreKept DEF o
<1>10. AllSatisfied(d, w, step.post)
  BY <1>1, <1>2, <1>3, <1>4, <1>5, <1>8, PostKept
<1>11. StateIsSafe(d, w)
  BY <1>2, <1>8, AlikeSafe
<1>12. Verified(d, u, step)
  BY <1>1, <1>5, <1>6, <1>8, <1>9, <1>10, <1>11, Zenon DEF Verified, Accepts, Applies, o
<1> QED
  BY <1>1, <1>7, <1>12 DEF o

-----------------------------------------------------------------------------
(* Walks through steps                                                     *)

\* Where the steps of a walk come from: they are recorded, derived on the way for an
\* order of operations, or inverses in front of a continuation.
Recorded(list) == [how |-> "recorded", list |-> list, observed |-> 0]
InOrderOf(list) == [how |-> "derived", list |-> list, observed |-> 0]
InverseMaker(list, s) == [how |-> "inverse", list |-> list, observed |-> s]

Made(m, c, i, at) ==
  CASE m.how = "recorded" -> m.list[i]
    [] m.how = "derived" -> StepFor(c, at, m.list[i])
    [] m.how = "inverse" -> CompensatingStep(c, m.observed, at, m.list[i])

FrontOf(q, inverses) ==
  Walked(ContextOf(q), q.state, Len(inverses),
         LAMBDA i, at : CompensatingStep(ContextOf(q), q.state, at, inverses[i]))

Start(s) == [ok |-> TRUE, at |-> s, steps |-> <<>>]
Onward(c, so, step) ==
  IF so.ok /\ Verified(c, so.at, step)
  THEN [ok |-> TRUE, at |-> Changed(so.at, step.op), steps |-> Append(so.steps, step)]
  ELSE [so EXCEPT !.ok = FALSE]

\* f lists where the walk is after each of n steps.
Walking(c, s, m, f, n) ==
  f = [i \in 0 .. n |-> IF i = 0 THEN Start(s) ELSE Onward(c, f[i - 1], Made(m, c, i, f[i - 1].at))]

\* Such a list exists.
LEMMA WalkingExists ==
  ASSUME NEW c, NEW s, NEW m, NEW n \in Nat
  PROVE  \E f : Walking(c, s, m, f, n)
<1> DEFINE Missing == {k \in Nat : ~\E f : Walking(c, s, m, f, k)}
           Next1(f, i) == Onward(c, f[i - 1], Made(m, c, i, f[i - 1].at))
<1> SUFFICES ASSUME Missing # {} PROVE FALSE
  OBVIOUS
<1>1. PICK k \in Missing : \A j \in Missing : k <= j
  BY LeastNat
<1>2. CASE k = 0
  <2> DEFINE f == [i \in 0 .. 0 |-> IF i = 0 THEN Start(s) ELSE Onward(c, Start(s), Made(m, c, i, s))]
  <2>1. Walking(c, s, m, f, 0)
    BY DEF Walking
  <2> QED
    BY <1>2, <2>1
<1>3. CASE k # 0
  <2>1. k - 1 \in Nat /\ k - 1 \notin Missing
    BY <1>1, <1>3
  <2>2. PICK f : Walking(c, s, m, f, k - 1)
    BY <2>1
  <2>3. f = [i \in 0 .. k - 1 |-> IF i = 0 THEN Start(s) ELSE Next1(f, i)]
    BY <2>2, Zenon DEF Walking
  <2> DEFINE g == [i \in 0 .. k |-> IF i < k THEN f[i] ELSE Next1(f, k)]
  <2>4. \A i \in 0 .. k - 1 : g[i] = f[i]
    BY <2>1
  <2>5. \A i \in 1 .. k : Next1(g, i) = Next1(f, i)
    <3> SUFFICES ASSUME NEW i \in 1 .. k PROVE Next1(g, i) = Next1(f, i)
      OBVIOUS
    <3>1. g[i - 1] = f[i - 1]
      BY <2>1, <2>4
    <3> HIDE DEF g
    <3> QED
      BY <3>1, Zenon
  <2>6. g[k] = Next1(f, k) /\ g[0] = f[0] /\ f[0] = Start(s)
    BY <2>1, <2>3, <1>3
  <2>7. \A i \in 1 .. k - 1 : f[i] = Next1(f, i)
    BY <2>1, <2>3
  <2> HIDE DEF Next1
  <2>8. \A i \in 0 .. k : g[i] = IF i = 0 THEN Start(s) ELSE Next1(g, i)
    <3> SUFFICES ASSUME NEW i \in 0 .. k PROVE g[i] = IF i = 0 THEN Start(s) ELSE Next1(g, i)
      OBVIOUS
    <3> HIDE DEF g
    <3>1. CASE i = 0
      BY <2>6, <3>1
    <3>2. CASE i = k
      BY <1>3, <2>5, <2>6, <3>2
    <3>3. CASE i \in 1 .. k - 1
      BY <2>4, <2>5, <2>7, <3>3
    <3> QED
      BY <3>1, <3>2, <3>3
  <2>9. g = [i \in 0 .. k |-> IF i = 0 THEN Start(s) ELSE Next1(g, i)]
    BY <2>8
  <2>10. Walking(c, s, m, g, k)
    BY <2>9, Zenon DEF Walking, Next1
  <2> QED
    BY <2>10
<1> QED
  BY <1>2, <1>3

\* The walks of the planner are such lists.
LEMMA ReplayWalks ==
  ASSUME NEW c, NEW s, NEW steps, Len(steps) \in Nat
  PROVE  \E f : Walking(c, s, Recorded(steps), f, Len(steps)) /\ Replay(c, s, steps) = f[Len(steps)]
<1>1. PICK n : n = Len(steps) /\ n \in Nat
  OBVIOUS
<1>2. PICK g : Walking(c, s, Recorded(steps), g, n)
  BY <1>1, WalkingExists
<1>3. \A i, at : Made(Recorded(steps), c, i, at) = steps[i]
  BY DEF Made, Recorded
<1> DEFINE Further(f) ==
      [i \in 0 .. n |->
         IF i = 0 THEN [ok |-> TRUE, at |-> s, steps |-> <<>>]
         ELSE LET so == f[i - 1]
                  step == steps[i]
              IN  IF so.ok /\ Verified(c, so.at, step)
                  THEN [ok |-> TRUE, at |-> Changed(so.at, step.op), steps |-> Append(so.steps, step)]
                  ELSE [so EXCEPT !.ok = FALSE]]
           walk == CHOOSE f : f = Further(f)
<1>4. \A f : Walking(c, s, Recorded(steps), f, n) <=> f = Further(f)
  BY <1>3 DEF Walking, Start, Onward
<1>5. Replay(c, s, steps) = walk[n]
  BY <1>1, Zenon DEF Replay, Walked
<1>6. walk = Further(walk)
  <2> HIDE DEF Further
  <2> QED
    BY <1>2, <1>4
<1> HIDE DEF Further, walk
<1> QED
  BY <1>1, <1>4, <1>5, <1>6

\* Deriving the steps of an order is a walk,
LEMMA DeriveWalks ==
  ASSUME NEW c, NEW s, NEW order, Len(order) \in Nat
  PROVE  \E f : Walking(c, s, InOrderOf(order), f, Len(order)) /\ Derive(c, s, order) = f[Len(order)]
<1>1. PICK n : n = Len(order) /\ n \in Nat
  OBVIOUS
<1>2. PICK g : Walking(c, s, InOrderOf(order), g, n)
  BY <1>1, WalkingExists
<1>3. \A i, at : Made(InOrderOf(order), c, i, at) = StepFor(c, at, order[i])
  BY DEF Made, InOrderOf
<1> DEFINE Further(f) ==
      [i \in 0 .. n |->
         IF i = 0 THEN [ok |-> TRUE, at |-> s, steps |-> <<>>]
         ELSE LET so == f[i - 1]
                  step == StepFor(c, so.at, order[i])
              IN  IF so.ok /\ Verified(c, so.at, step)
                  THEN [ok |-> TRUE, at |-> Changed(so.at, step.op), steps |-> Append(so.steps, step)]
                  ELSE [so EXCEPT !.ok = FALSE]]
           walk == CHOOSE f : f = Further(f)
<1>4. \A f : Walking(c, s, InOrderOf(order), f, n) <=> f = Further(f)
  BY <1>3, SMTT(30) DEF Walking, Start, Onward
<1>5. Derive(c, s, order) = walk[n]
  BY <1>1, Zenon DEF Derive, Walked
<1>6. walk = Further(walk)
  <2> HIDE DEF Further
  <2> QED
    BY <1>2, <1>4
<1> HIDE DEF Further, walk
<1> QED
  BY <1>1, <1>4, <1>5, <1>6

\* and so is deriving compensations in front.
LEMMA FrontWalks ==
  ASSUME NEW q, NEW list, Len(list) \in Nat
  PROVE  \E f : Walking(ContextOf(q), q.state, InverseMaker(list, q.state), f, Len(list)) /\ FrontOf(q, list) = f[Len(list)]
<1>1. PICK n : n = Len(list) /\ n \in Nat
  OBVIOUS
<1>2. PICK g : Walking(ContextOf(q), q.state, InverseMaker(list, q.state), g, n)
  BY <1>1, WalkingExists
<1>3. \A i, at : Made(InverseMaker(list, q.state), ContextOf(q), i, at) = CompensatingStep(ContextOf(q), q.state, at, list[i])
  BY DEF Made, InverseMaker
<1> DEFINE Further(f) ==
      [i \in 0 .. n |->
         IF i = 0 THEN [ok |-> TRUE, at |-> q.state, steps |-> <<>>]
         ELSE LET so == f[i - 1]
                  step == CompensatingStep(ContextOf(q), q.state, so.at, list[i])
              IN  IF so.ok /\ Verified(ContextOf(q), so.at, step)
                  THEN [ok |-> TRUE, at |-> Changed(so.at, step.op), steps |-> Append(so.steps, step)]
                  ELSE [so EXCEPT !.ok = FALSE]]
           walk == CHOOSE f : f = Further(f)
<1>4. \A f : Walking(ContextOf(q), q.state, InverseMaker(list, q.state), f, n) <=> f = Further(f)
  BY <1>3, SMTT(30) DEF Walking, Start, Onward
<1>5. FrontOf(q, list) = walk[n]
  BY <1>1, Zenon DEF FrontOf, Walked
<1>6. walk = Further(walk)
  <2> HIDE DEF Further
  <2> QED
    BY <1>2, <1>4
<1> HIDE DEF Further, walk
<1> QED
  BY <1>1, <1>4, <1>5, <1>6

\* One step of a walk.
LEMMA WalkingStep ==
  ASSUME NEW c, NEW s, NEW m, NEW f, NEW n \in Nat, Walking(c, s, m, f, n)
  PROVE  /\ f[0] = Start(s)
         /\ \A i \in 1 .. n : f[i] = Onward(c, f[i - 1], Made(m, c, i, f[i - 1].at))
  BY DEF Walking

\* Where a walk is is a record.
IsPlace(so) == so = [ok |-> so.ok, at |-> so.at, steps |-> so.steps]

\* A walk that goes on has accepted its next step.
LEMMA OnwardGives ==
  ASSUME NEW c, NEW so, IsPlace(so), NEW step
  PROVE  LET next == Onward(c, so, step)
         IN  /\ IsPlace(next)
             /\ next.ok => so.ok /\ Verified(c, so.at, step)
             /\ so.ok /\ Verified(c, so.at, step) =>
                  next.ok /\ next.at = Changed(so.at, step.op) /\ next.steps = Append(so.steps, step)
<1>0. PICK next : next = Onward(c, so, step)
  OBVIOUS
<1>1. CASE so.ok /\ Verified(c, so.at, step)
  <2>1. next = [ok |-> TRUE, at |-> Changed(so.at, step.op), steps |-> Append(so.steps, step)]
    BY <1>0, <1>1 DEF Onward
  <2> QED
    BY <1>0, <1>1, <2>1 DEF IsPlace
<1>2. CASE ~(so.ok /\ Verified(c, so.at, step))
  <2>1. next = [so EXCEPT !.ok = FALSE]
    BY <1>0, <1>2 DEF Onward
  <2>2. PICK at, steps : at = so.at /\ steps = so.steps /\ so = [ok |-> so.ok, at |-> at, steps |-> steps]
    BY DEF IsPlace
  <2>3. next = [ok |-> FALSE, at |-> at, steps |-> steps]
    BY <2>1, <2>2
  <2> QED
    BY <1>0, <1>2, <2>3 DEF IsPlace
<1> QED
  BY <1>1, <1>2

\* A walk goes from place to place.
LEMMA WalkingPlaces ==
  ASSUME NEW c, NEW s, NEW m, NEW f, NEW n \in Nat, Walking(c, s, m, f, n)
  PROVE  \A i \in 0 .. n : IsPlace(f[i])
<1> DEFINE Bad == {i \in 0 .. n : ~IsPlace(f[i])}
<1> SUFFICES ASSUME Bad # {} PROVE FALSE
  OBVIOUS
<1>1. PICK k \in Bad : \A j \in Bad : k <= j
  <2>1. Bad \subseteq Nat
    OBVIOUS
  <2> HIDE DEF Bad
  <2> QED
    BY <2>1, LeastNat
<1>2. k # 0
  <2>1. f[0] = Start(s)
    BY WalkingStep
  <2> QED
    BY <1>1, <2>1 DEF IsPlace, Start
<1>3. k \in 1 .. n /\ k - 1 \in 0 .. n /\ ~(k <= k - 1)
  BY <1>1, <1>2
<1>4. IsPlace(f[k - 1])
  BY <1>1, <1>3
<1>5. f[k] = Onward(c, f[k - 1], Made(m, c, k, f[k - 1].at))
  BY <1>3, WalkingStep
<1>6. IsPlace(f[k])
  BY <1>4, <1>5, OnwardGives
<1> QED
  BY <1>1, <1>6

\* A walk that arrives was verified at every step.
LEMMA WalkingVerified ==
  ASSUME NEW c, NEW s, NEW m, NEW f, NEW n \in Nat, Walking(c, s, m, f, n), f[n].ok
  PROVE  /\ f[0].at = s /\ f[0].steps = <<>>
         /\ \A i \in 0 .. n : f[i].ok
         /\ \A i \in 1 .. n :
              /\ Verified(c, f[i - 1].at, Made(m, c, i, f[i - 1].at))
              /\ f[i].at = Changed(f[i - 1].at, Made(m, c, i, f[i - 1].at).op)
              /\ f[i].steps = Append(f[i - 1].steps, Made(m, c, i, f[i - 1].at))
<1> DEFINE Bad == {k \in Nat : k <= n /\ ~f[n - k].ok}
<1>1. Bad = {}
  <2> SUFFICES ASSUME Bad # {} PROVE FALSE
    OBVIOUS
  <2>1. PICK k \in Bad : \A j \in Bad : k <= j
    <3>1. Bad \subseteq Nat
      OBVIOUS
    <3> HIDE DEF Bad
    <3> QED
      BY <3>1, LeastNat
  <2>2. PICK i : i = n - (k - 1)
    OBVIOUS
  <2>3. k # 0
    <3>1. n - 0 = n
      OBVIOUS
    <3> QED
      BY <2>1, <3>1
  <2>4. k - 1 \in Nat /\ k - 1 <= n /\ i \in 1 .. n /\ i - 1 = n - k /\ ~(k <= k - 1)
    BY <2>1, <2>2, <2>3
  <2>5. f[i].ok
    BY <2>1, <2>2, <2>4
  <2>6. IsPlace(f[i - 1])
    BY <2>4, WalkingPlaces
  <2>7. f[i] = Onward(c, f[i - 1], Made(m, c, i, f[i - 1].at))
    BY <2>4, WalkingStep
  <2>8. f[i - 1].ok
    <3>1. PICK so, next, step : so = f[i - 1] /\ next = f[i] /\ step = Made(m, c, i, so.at)
      OBVIOUS
    <3>2. IsPlace(so) /\ next = Onward(c, so, step) /\ next.ok
      BY <2>5, <2>6, <2>7, <3>1
    <3>3. Onward(c, so, step).ok => so.ok
      BY <3>2, OnwardGives
    <3> QED
      BY <3>1, <3>2, <3>3
  <2> QED
    BY <2>1, <2>4, <2>8
<1>2. ASSUME NEW i \in 0 .. n PROVE f[i].ok
  <2>1. n - i \in Nat /\ n - i <= n /\ n - (n - i) = i
    OBVIOUS
  <2> QED
    BY <1>1, <2>1
<1>3. ASSUME NEW i \in 1 .. n
      PROVE  /\ Verified(c, f[i - 1].at, Made(m, c, i, f[i - 1].at))
             /\ f[i].at = Changed(f[i - 1].at, Made(m, c, i, f[i - 1].at).op)
             /\ f[i].steps = Append(f[i - 1].steps, Made(m, c, i, f[i - 1].at))
  <2>1. i - 1 \in 0 .. n /\ i \in 0 .. n
    OBVIOUS
  <2>2. IsPlace(f[i - 1]) /\ f[i - 1].ok /\ f[i].ok
    BY <1>2, <2>1, WalkingPlaces
  <2>3. f[i] = Onward(c, f[i - 1], Made(m, c, i, f[i - 1].at))
    BY WalkingStep
  <2>4. PICK so, next, step : so = f[i - 1] /\ next = f[i] /\ step = Made(m, c, i, so.at)
    OBVIOUS
  <2>5. IsPlace(so) /\ next = Onward(c, so, step) /\ so.ok /\ next.ok
    BY <2>2, <2>3, <2>4
  <2>6. Verified(c, so.at, step) /\ next.at = Changed(so.at, step.op) /\ next.steps = Append(so.steps, step)
    <3>1. Onward(c, so, step).ok => Verified(c, so.at, step)
      BY <2>5, OnwardGives
    <3>2. Verified(c, so.at, step)
      BY <2>5, <3>1
    <3>3. /\ Onward(c, so, step).at = Changed(so.at, step.op)
          /\ Onward(c, so, step).steps = Append(so.steps, step)
      BY <2>5, <3>2 DEF Onward
    <3> QED
      BY <2>5, <3>2, <3>3
  <2> QED
    BY <2>4, <2>6
<1>4. f[0].at = s /\ f[0].steps = <<>>
  <2>1. f[0] = Start(s)
    BY WalkingStep
  <2> QED
    BY <2>1 DEF Start
<1> QED
  BY <1>2, <1>3, <1>4

\* And it has noted every step.
Taken(c, m, f, n) == {Made(m, c, i, f[i - 1].at) : i \in 1 .. n}

\* A walk that arrives has noted the steps it took, in their order.
LEMMA WalkingNotes ==
  ASSUME NEW c, NEW s, NEW m, NEW f, NEW n \in Nat, Walking(c, s, m, f, n), f[n].ok
  PROVE  /\ f[n].steps \in Seq(Taken(c, m, f, n)) /\ Len(f[n].steps) = n
         /\ \A i \in 1 .. n : f[n].steps[i] = Made(m, c, i, f[i - 1].at)
<1>0. PICK S : S = Taken(c, m, f, n)
  OBVIOUS
<1> DEFINE St(i) == Made(m, c, i, f[i - 1].at)
           Good(k) == /\ f[k].steps \in Seq(S) /\ Len(f[k].steps) = k
                      /\ \A i \in 1 .. k : f[k].steps[i] = St(i)
           Bad == {k \in 0 .. n : ~Good(k)}
<1>1. Bad = {}
  <2> SUFFICES ASSUME Bad # {} PROVE FALSE
    OBVIOUS
  <2>1. PICK k \in Bad : \A j \in Bad : k <= j
    <3>1. Bad \subseteq Nat
      OBVIOUS
    <3> HIDE DEF Bad
    <3> QED
      BY <3>1, LeastNat
  <2>2. k # 0
    <3>1. f[0].steps = <<>>
      BY WalkingVerified
    <3>2. Good(0)
      BY <3>1
    <3> QED
      BY <2>1, <3>2
  <2>3. k \in 1 .. n /\ k - 1 \in 0 .. n /\ ~(k <= k - 1)
    BY <2>1, <2>2
  <2>4. Good(k - 1)
    BY <2>1, <2>3
  <2>5. f[k].steps = Append(f[k - 1].steps, St(k)) /\ St(k) \in S
    <3>1. \A i \in 1 .. n : f[i].steps = Append(f[i - 1].steps, St(i))
      <4> HIDE DEF Bad, Good
      <4> QED
        BY WalkingVerified
    <3>2. St(k) \in S
      BY <1>0, <2>3 DEF Taken
    <3> HIDE DEF St, Bad, Good
    <3> QED
      BY <2>3, <3>1, <3>2
  <2> HIDE DEF St
  <2>6. PICK before, after : before = f[k - 1].steps /\ after = f[k].steps
    OBVIOUS
  <2>7. /\ before \in Seq(S) /\ Len(before) = k - 1 /\ \A i \in 1 .. k - 1 : before[i] = St(i)
        /\ after = Append(before, St(k))
    BY <2>4, <2>5, <2>6
  <2>8. after \in Seq(S) /\ Len(after) = k /\ \A i \in 1 .. k : after[i] = St(i)
    <3>1. PICK step : step = St(k) /\ step \in S
      BY <2>5
    <3>2. after = Append(before, step)
      BY <2>7, <3>1
    <3>3. after \in Seq(S) /\ Len(after) = k /\ after[k] = step /\ \A i \in 1 .. k - 1 : after[i] = before[i]
      BY <2>3, <2>7, <3>1, <3>2
    <3>4. \A i \in 1 .. k : i = k \/ i \in 1 .. k - 1
      BY <2>3
    <3>5. ASSUME NEW i \in 1 .. k PROVE after[i] = St(i)
      BY <2>7, <3>1, <3>3, <3>4
    <3> QED
      BY <3>3, <3>5
  <2>9. Good(k)
    BY <2>6, <2>8
  <2> QED
    BY <2>1, <2>9
<1>2. Good(n)
  <2> HIDE DEF Good
  <2> QED
    BY <1>1
<1> QED
  BY <1>0, <1>2


\* A walk goes on as long as its steps are verified.
LEMMA WalkingForward ==
  ASSUME NEW c, NEW s, NEW m, NEW f, NEW n \in Nat, Walking(c, s, m, f, n), NEW i \in 1 .. n, f[i - 1].ok,
         NEW step, step = Made(m, c, i, f[i - 1].at), Verified(c, f[i - 1].at, step)
  PROVE  f[i].ok /\ f[i].at = Changed(f[i - 1].at, step.op)
<1>1. f[i] = Onward(c, f[i - 1], step)
  BY WalkingStep
<1> QED
  BY <1>1 DEF Onward

\* Steps derived on the way can be replayed.
LEMMA DerivedReplays ==
  ASSUME NEW c, NEW s, NEW order, Len(order) \in Nat, Derive(c, s, order).ok,
         NEW steps, steps = Derive(c, s, order).steps
  PROVE  Replay(c, s, steps).ok
<1>1. PICK n : n = Len(order) /\ n \in Nat
  OBVIOUS
<1>2. PICK f : Walking(c, s, InOrderOf(order), f, n) /\ Derive(c, s, order) = f[n]
  BY <1>1, DeriveWalks
<1>3. f[n].ok /\ steps = f[n].steps
  BY <1>2
<1> DEFINE St(i) == Made(InOrderOf(order), c, i, f[i - 1].at)
<1>4. /\ Len(steps) = n /\ \A i \in 1 .. n : steps[i] = St(i)
  <2>1. f[n].ok /\ Walking(c, s, InOrderOf(order), f, n) /\ n \in Nat
    BY <1>1, <1>2, <1>3
  <2>4. /\ Len(f[n].steps) = n
        /\ \A i \in 1 .. n : f[n].steps[i] = Made(InOrderOf(order), c, i, f[i - 1].at)
    BY <2>1, WalkingNotes
  <2> QED
    BY <1>3, <2>4 DEF St
<1>5. PICK g : Walking(c, s, Recorded(steps), g, n) /\ Replay(c, s, steps) = g[n]
  BY <1>1, <1>4, ReplayWalks
<1>6. /\ f[0].at = s
      /\ \A i \in 1 .. n : Verified(c, f[i - 1].at, St(i)) /\ f[i].at = Changed(f[i - 1].at, St(i).op)
  BY <1>1, <1>2, <1>3, WalkingVerified
<1> HIDE DEF St
<1>7. g[0].ok /\ g[0].at = s
  <2>1. g[0] = Start(s)
    BY <1>1, <1>5, WalkingStep
  <2> QED
    BY <2>1 DEF Start
<1> DEFINE Bad == {i \in 0 .. n : ~(g[i].ok /\ g[i].at = f[i].at)}
<1>8. Bad = {}
  <2> SUFFICES ASSUME Bad # {} PROVE FALSE
    OBVIOUS
  <2>1. PICK k \in Bad : \A j \in Bad : k <= j
    <3>1. Bad \subseteq Nat
      BY <1>1
    <3> HIDE DEF Bad
    <3> QED
      BY <3>1, LeastNat
  <2>2. k \in 1 .. n /\ k - 1 \in 0 .. n /\ ~(k <= k - 1)
    <3>1. k # 0
      BY <1>6, <1>7, <2>1
    <3> QED
      BY <1>1, <2>1, <3>1
  <2>3. g[k - 1].ok /\ g[k - 1].at = f[k - 1].at
    BY <2>1, <2>2
  <2>4. St(k) = Made(Recorded(steps), c, k, g[k - 1].at)
    BY <1>4, <2>2 DEF Made, Recorded
  <2>5. PICK step : step = St(k) /\ step = Made(Recorded(steps), c, k, g[k - 1].at)
    BY <2>4
  <2>6. Verified(c, g[k - 1].at, step) /\ f[k].at = Changed(f[k - 1].at, step.op)
    BY <1>6, <2>2, <2>3, <2>5
  <2>7. g[k].ok /\ g[k].at = Changed(g[k - 1].at, step.op)
    BY <1>1, <1>5, <2>2, <2>3, <2>5, <2>6, WalkingForward
  <2> QED
    BY <2>1, <2>3, <2>6, <2>7
<1>9. n \in 0 .. n
  BY <1>1
<1> QED
  BY <1>5, <1>8, <1>9

\* Steps that can be carried out in one of two snapshots that are abreast of each other
\* can be carried out in the other.
LEMMA ReplayAbreast ==
  ASSUME NEW steps, Len(steps) \in Nat, NEW t, NEW u, NEW P, NEW C, NEW E,
         Abreast(t, u, P, C, E, Len(steps)), NEW c, NEW d, SameRules(c, d),
         \A i \in 1 .. Len(steps) : IsStep(steps[i]) /\ Covered(P, C, E, steps[i].op),
         Replay(c, t, steps).ok
  PROVE  Replay(d, u, steps).ok
<1>1. PICK n : n = Len(steps) /\ n \in Nat
  OBVIOUS
<1>2. PICK f : Walking(c, t, Recorded(steps), f, n) /\ Replay(c, t, steps) = f[n]
  BY <1>1, ReplayWalks
<1>3. PICK g : Walking(d, u, Recorded(steps), g, n) /\ Replay(d, u, steps) = g[n]
  BY <1>1, ReplayWalks
<1>4. \A e, i, at : Made(Recorded(steps), e, i, at) = steps[i]
  BY DEF Made, Recorded
<1>5. /\ f[0].at = t
      /\ \A i \in 1 .. n : Verified(c, f[i - 1].at, steps[i]) /\ f[i].at = Changed(f[i - 1].at, steps[i].op)
  <2>1. f[n].ok
    BY <1>2
  <2>2. /\ f[0].at = t
        /\ \A i \in 1 .. n :
             /\ Verified(c, f[i - 1].at, Made(Recorded(steps), c, i, f[i - 1].at))
             /\ f[i].at = Changed(f[i - 1].at, Made(Recorded(steps), c, i, f[i - 1].at).op)
    BY <1>1, <1>2, <2>1, WalkingVerified
  <2> QED
    BY <1>4, <2>2
<1>6. g[0].ok /\ g[0].at = u
  <2>1. g[0] = Start(u)
    BY <1>1, <1>3, WalkingStep
  <2> QED
    BY <2>1 DEF Start
<1> DEFINE Good(i) == g[i].ok /\ Abreast(f[i].at, g[i].at, P, C, E, n - i)
           Bad == {i \in 0 .. n : ~Good(i)}
<1>7. Good(0)
  <2>1. n - 0 = n
    BY <1>1
  <2> QED
    BY <1>1, <1>5, <1>6, <2>1
<1>8. Bad = {}
  <2> SUFFICES ASSUME Bad # {} PROVE FALSE
    OBVIOUS
  <2>1. PICK k \in Bad : \A j \in Bad : k <= j
    <3>1. Bad \subseteq Nat
      BY <1>1
    <3> HIDE DEF Bad
    <3> QED
      BY <3>1, LeastNat
  <2>2. k \in 1 .. n /\ k - 1 \in 0 .. n /\ ~(k <= k - 1)
    <3>1. k # 0
      BY <1>7, <2>1
    <3> QED
      BY <1>1, <2>1, <3>1
  <2>3. Good(k - 1)
    BY <2>1, <2>2
  <2>4. PICK left : left = n - (k - 1) /\ left \in Nat /\ left > 0 /\ left - 1 = n - k
    BY <1>1, <2>2
  <2>5. PICK step, v, w : step = steps[k] /\ v = f[k - 1].at /\ w = g[k - 1].at
    OBVIOUS
  <2>6. /\ Abreast(v, w, P, C, E, left) /\ IsStep(step) /\ Covered(P, C, E, step.op)
        /\ Verified(c, v, step) /\ f[k].at = Changed(v, step.op)
    BY <1>1, <1>5, <2>2, <2>3, <2>4, <2>5
  <2>7. Verified(d, w, step) /\ Abreast(Changed(v, step.op), Changed(w, step.op), P, C, E, left - 1)
    BY <2>4, <2>6, VerifiedAbreast
  <2>8. step = Made(Recorded(steps), d, k, g[k - 1].at) /\ g[k - 1].ok
    BY <1>4, <2>3, <2>5
  <2>9. g[k].ok /\ g[k].at = Changed(w, step.op)
    BY <1>1, <1>3, <2>2, <2>5, <2>7, <2>8, WalkingForward
  <2> QED
    BY <2>1, <2>4, <2>6, <2>7, <2>9
<1>9. n \in 0 .. n /\ Good(n)
  BY <1>1, <1>8
<1> QED
  BY <1>3, <1>9

-----------------------------------------------------------------------------
(* The steps a walk makes                                                  *)

\* What undoes an operation is one operation on the same entity, or none.
LEMMA CompensationIs ==
  ASSUME NEW s, IsSnapshot(s), NEW o, IsOperation(o)
  PROVE  /\ IsFiniteSet(Compensation(s, o))
         /\ \A p \in Compensation(s, o) : IsOperation(p) /\ Written(p) = Written(o)
<1>0. o.kind \in AllKinds
  BY OperationKind
<1> DEFINE created == o.kind \in AddOps \/ (o.kind \in {"policy_bind", "config_set"} /\ ~Known(s, Written(o)))
<1>1. CASE created
  <2>1. PICK kind, p : kind = Withdrawal(o.kind) /\ p = Bare(kind, o.id)
    OBVIOUS
  <2>2. Compensation(s, o) = {p}
    BY <1>1, <2>1 DEF Compensation
  <2>3. kind \in {"device_remove", "link_remove", "route_remove", "workload_remove", "policy_unbind", "config_clear"}
    BY <1>1, <2>1 DEF Withdrawal, AddOps
  <2>4. p.kind = kind /\ p.id = o.id /\ p.new.target = Everything
    BY <2>1 DEF Bare
  <2>5. IsOperation(p)
    BY <2>3, <2>4 DEF IsOperation, IsScope, DeviceOps, MaintenanceOps, LinkOps, RouteOps, WorkloadOps, PolicyOps, ConfigOps
  <2>6. EntityKind(p) = EntityKind(o)
    <3>1. o.kind \in {"device_add", "link_add", "route_add", "workload_add", "policy_bind", "config_set"}
      BY <1>1 DEF AddOps
    <3> QED
      BY <2>1, <2>4, <3>1 DEF Withdrawal, EntityKind, DeviceOps, MaintenanceOps, LinkOps, RouteOps, WorkloadOps,
         PolicyOps, ConfigOps
  <2> QED
    BY <2>2, <2>4, <2>5, <2>6, FS_Singleton DEF Written
<1>2. CASE ~created /\ Known(s, Written(o))
  <2>1. PICK kind, e, p : kind = UndoKind(o.kind) /\ e = s[EntityKind(o)][o.id] /\ p = Carrying(kind, o.id, e)
    OBVIOUS
  <2>2. Compensation(s, o) = {p}
    BY <1>2, <2>1 DEF Compensation
  <2>3. p.kind = kind /\ p.id = o.id /\ p.new = e
    BY <2>1 DEF Carrying
  <2>4. o.id \in DOMAIN s[EntityKind(o)]
    BY <1>2 DEF Known, Written
  <2>5. /\ o.kind \in DeviceOps => EntityKind(o) = "device" /\ kind \in DeviceOps
        /\ o.kind \in LinkOps => EntityKind(o) = "link" /\ kind \in LinkOps
        /\ o.kind \in RouteOps => EntityKind(o) = "route" /\ kind \in RouteOps
        /\ o.kind \in WorkloadOps => EntityKind(o) = "workload" /\ kind \in WorkloadOps
        /\ o.kind \in PolicyOps => EntityKind(o) = "policy" /\ kind \in PolicyOps
        /\ o.kind \in ConfigOps => EntityKind(o) = "config" /\ kind \in ConfigOps
    BY <2>1, KindsSplit DEF UndoKind, DeviceOps, MaintenanceOps, LinkOps, RouteOps, WorkloadOps, PolicyOps, ConfigOps
  <2>6. kind \in AllKinds /\ EntityKind(p) = EntityKind(o)
    BY <1>0, <2>3, <2>5, KindsSplit DEF AllKinds
  <2>7. o.kind \in DeviceOps => IsDevice(e)
    BY <2>1, <2>4, <2>5 DEF IsSnapshot
  <2>8. o.kind \in RouteOps => IsRoute(e)
    BY <2>1, <2>4, <2>5 DEF IsSnapshot
  <2>9. o.kind \in PolicyOps => IsScope(e.target)
    BY <2>1, <2>4, <2>5 DEF IsSnapshot
  <2>12. o.kind \in WorkloadOps => IsWorkload(e)
    BY <2>1, <2>4, <2>5 DEF IsSnapshot
  <2>10. /\ kind \in DeviceOps => o.kind \in DeviceOps
         /\ kind \in RouteOps => o.kind \in RouteOps
         /\ kind \in WorkloadOps => o.kind \in WorkloadOps
         /\ kind \in PolicyOps => o.kind \in PolicyOps
    BY <1>0, <2>5 DEF AllKinds, DeviceOps, MaintenanceOps, LinkOps, RouteOps, WorkloadOps, PolicyOps, ConfigOps
  <2>11. IsOperation(p)
    <3>1. kind \in {"device_add", "device_set_state"} => IsDevice(e)
      BY <2>7, <2>10 DEF DeviceOps
    <3>2. kind = "route_add" => IsRoute(e)
      BY <2>8, <2>10 DEF RouteOps
    <3>3. kind \in PolicyOps => IsScope(e.target)
      BY <2>9, <2>10
    <3>4. kind = "workload_add" => IsWorkload(e)
      BY <2>10, <2>12 DEF WorkloadOps
    <3> QED
      BY <2>3, <2>6, <3>1, <3>2, <3>3, <3>4 DEF IsOperation, AllKinds, IsDevice
  <2> QED
    BY <2>2, <2>3, <2>6, <2>11, FS_Singleton DEF Written
<1>3. CASE ~created /\ ~Known(s, Written(o))
  <2>1. Compensation(s, o) = {}
    BY <1>3 DEF Compensation
  <2> QED
    BY <2>1, FS_EmptySet
<1> QED
  BY <1>1, <1>2, <1>3

\* A step that is derived, for an order or as an inverse, is well formed.
LEMMA StepForIs ==
  ASSUME NEW c, NEW s, IsSnapshot(s), NEW o, IsOperation(o)
  PROVE  IsStep(StepFor(c, s, o)) /\ StepFor(c, s, o).op = o /\ StepFor(c, s, o).windows = WindowsOf(c, s, o)
<1>1. PICK step : step = StepFor(c, s, o)
  OBVIOUS
<1>2. /\ step.op = o /\ step.pre = Preconditions(s, o) /\ step.post = Postconditions(o)
      /\ step.undo = Compensation(s, o) /\ step.windows = WindowsOf(c, s, o)
  BY <1>1 DEF StepFor
<1>3. \A x \in step.pre : Plain(o, x)
  BY <1>2, PreconditionsPlain
<1>4. IsFiniteSet(step.undo) /\ \A p \in step.undo : IsOperation(p) /\ Written(p) = Written(o)
  BY <1>2, CompensationIs
<1> QED
  BY <1>1, <1>2, <1>3, <1>4 DEF IsStep

\* A compensating step is a step of a plan,
LEMMA CompensatingStepIs ==
  ASSUME NEW c, NEW observed, IsSnapshot(observed), NEW s, IsSnapshot(s), NEW o, IsOperation(o)
  PROVE  /\ IsStep(CompensatingStep(c, observed, s, o)) /\ CompensatingStep(c, observed, s, o).op = o
         /\ CompensatingStep(c, observed, s, o).windows = {}
<1>1. PICK step, undo : step = CompensatingStep(c, observed, s, o) /\ undo = Compensation(observed, o)
  OBVIOUS
<1>2. step = [op |-> o, pre |-> Preconditions(s, o), post |-> Postconditions(o), undo |-> undo, windows |-> {}]
  BY <1>1 DEF StepFor, CompensatingStep
<1>3. \A x \in step.pre : Plain(o, x)
  BY <1>2, PreconditionsPlain
<1>4. IsFiniteSet(undo) /\ \A p \in undo : IsOperation(p) /\ Written(p) = Written(o)
  BY <1>1, CompensationIs
<1> QED
  BY <1>1, <1>2, <1>3, <1>4 DEF IsStep

\* and so is whatever a walk makes of an operation.
LEMMA MadeIs ==
  ASSUME NEW m, m.how \in {"derived", "inverse"}, NEW c, NEW i, IsOperation(m.list[i]),
         m.how = "inverse" => IsSnapshot(m.observed), NEW at, IsSnapshot(at)
  PROVE  /\ IsStep(Made(m, c, i, at)) /\ Made(m, c, i, at).op = m.list[i]
         /\ m.how = "derived" => Made(m, c, i, at).windows = WindowsOf(c, at, m.list[i])
         /\ m.how = "inverse" => Made(m, c, i, at).windows = {}
<1>1. CASE m.how = "derived"
  <2>1. Made(m, c, i, at) = StepFor(c, at, m.list[i])
    BY <1>1 DEF Made
  <2> QED
    BY <1>1, <2>1, StepForIs
<1>2. CASE m.how = "inverse"
  <2>1. Made(m, c, i, at) = CompensatingStep(c, m.observed, at, m.list[i])
    BY <1>2 DEF Made
  <2> QED
    BY <1>2, <2>1, CompensatingStepIs
<1> QED
  BY <1>1, <1>2

\* Steps in a sequence.
IsSteps(steps) == \E S : steps \in Seq(S) /\ \A step \in S : IsStep(step)

\* The members of a sequence of steps.
LEMMA StepsAre ==
  ASSUME NEW steps, IsSteps(steps)
  PROVE  Len(steps) \in Nat /\ DOMAIN steps = 1 .. Len(steps) /\ \A i \in 1 .. Len(steps) : IsStep(steps[i])
  BY DEF IsSteps

\* f is a walk that arrives, for steps that are derived on the way.
Arrives(c, s, m, f, n) ==
  /\ n \in Nat /\ Walking(c, s, m, f, n) /\ f[n].ok
  /\ IsSnapshot(s) /\ m.how \in {"derived", "inverse"} /\ (m.how = "inverse" => IsSnapshot(m.observed))
  /\ \A i \in 1 .. n : IsOperation(m.list[i])

\* Such steps are well formed, and each of them was derived from a snapshot.
LEMMA WalkingSteps ==
  ASSUME NEW c, NEW s, NEW m, NEW f, NEW n, Arrives(c, s, m, f, n)
  PROVE  /\ IsSteps(f[n].steps) /\ Len(f[n].steps) = n
         /\ \A i \in 1 .. n :
              /\ f[n].steps[i].op = m.list[i]
              /\ m.how = "derived" =>
                   \E at : IsSnapshot(at) /\ Verified(c, at, f[n].steps[i])
                           /\ f[n].steps[i].windows = WindowsOf(c, at, m.list[i])
              /\ m.how = "inverse" => f[n].steps[i].windows = {}
<1>0. /\ n \in Nat /\ Walking(c, s, m, f, n) /\ f[n].ok
      /\ IsSnapshot(s) /\ m.how \in {"derived", "inverse"} /\ (m.how = "inverse" => IsSnapshot(m.observed))
      /\ \A i \in 1 .. n : IsOperation(m.list[i])
  BY DEF Arrives
<1> DEFINE St(i) == Made(m, c, i, f[i - 1].at)
           Bad == {i \in 0 .. n : ~IsSnapshot(f[i].at)}
<1>1. /\ f[0].at = s
      /\ \A i \in 1 .. n : Verified(c, f[i - 1].at, St(i)) /\ f[i].at = Changed(f[i - 1].at, St(i).op)
  BY <1>0, WalkingVerified
<1>2. ASSUME NEW i \in 1 .. n, IsSnapshot(f[i - 1].at)
      PROVE  /\ IsStep(St(i)) /\ St(i).op = m.list[i]
             /\ m.how = "derived" => St(i).windows = WindowsOf(c, f[i - 1].at, m.list[i])
             /\ m.how = "inverse" => St(i).windows = {}
  <2>1. PICK at : at = f[i - 1].at /\ IsSnapshot(at)
    BY <1>2
  <2>2. IsOperation(m.list[i])
    BY <1>0
  <2>3. m.how \in {"derived", "inverse"} /\ (m.how = "inverse" => IsSnapshot(m.observed))
    BY <1>0
  <2> QED
    BY <2>1, <2>2, <2>3, MadeIs
<1> HIDE DEF St
<1>3. Bad = {}
  <2> SUFFICES ASSUME Bad # {} PROVE FALSE
    OBVIOUS
  <2>1. PICK k \in Bad : \A j \in Bad : k <= j
    <3>1. Bad \subseteq Nat
      BY <1>0
    <3> HIDE DEF Bad
    <3> QED
      BY <3>1, LeastNat
  <2>2. k \in 1 .. n /\ k - 1 \in 0 .. n /\ ~(k <= k - 1)
    <3>1. k # 0
      BY <1>0, <1>1, <2>1
    <3> QED
      BY <1>0, <2>1, <3>1
  <2>3. IsSnapshot(f[k - 1].at)
    BY <2>1, <2>2
  <2>4. PICK at, o : at = f[k - 1].at /\ o = St(k).op
    OBVIOUS
  <2>5. IsOperation(o)
    BY <1>0, <1>2, <2>2, <2>3, <2>4
  <2>6. Possible(c, at, o) /\ f[k].at = Changed(at, o)
    BY <1>1, <2>2, <2>4 DEF Verified, Accepts, Applies
  <2>7. IsSnapshot(f[k].at)
    BY <2>3, <2>4, <2>5, <2>6, SnapshotKept
  <2> QED
    BY <2>1, <2>7
<1>4. ASSUME NEW i \in 1 .. n PROVE IsSnapshot(f[i - 1].at)
  <2>1. i - 1 \in 0 .. n
    BY <1>0
  <2> QED
    BY <1>3, <2>1
<1>5. /\ f[n].steps \in Seq(Taken(c, m, f, n)) /\ Len(f[n].steps) = n
      /\ \A i \in 1 .. n : f[n].steps[i] = St(i)
  BY <1>0, WalkingNotes DEF St
<1>6. \A step \in Taken(c, m, f, n) : IsStep(step)
  BY <1>2, <1>4 DEF Taken, St
<1>7. IsSteps(f[n].steps)
  BY <1>5, <1>6 DEF IsSteps
<1>8. ASSUME NEW i \in 1 .. n
      PROVE  /\ f[n].steps[i].op = m.list[i]
             /\ m.how = "derived" =>
                  \E at : IsSnapshot(at) /\ Verified(c, at, f[n].steps[i])
                          /\ f[n].steps[i].windows = WindowsOf(c, at, m.list[i])
             /\ m.how = "inverse" => f[n].steps[i].windows = {}
  <2>1. PICK at, step : at = f[i - 1].at /\ step = St(i)
    OBVIOUS
  <2>2. f[n].steps[i] = step /\ IsSnapshot(at) /\ Verified(c, at, step) /\ step.op = m.list[i]
    BY <1>1, <1>2, <1>4, <1>5, <2>1
  <2>3. /\ m.how = "derived" => step.windows = WindowsOf(c, at, m.list[i])
        /\ m.how = "inverse" => step.windows = {}
    BY <1>2, <1>4, <2>1
  <2> QED
    BY <2>2, <2>3
<1> QED
  BY <1>5, <1>7, <1>8

-----------------------------------------------------------------------------
(* What is derived from a snapshot and a goal                              *)

\* The values of a function on a finite set are finitely many.
LEMMA ValuesFinite ==
  ASSUME NEW S, IsFiniteSet(S), NEW f, DOMAIN f = S
  PROVE  IsFiniteSet({f[x] : x \in S})
<1> DEFINE T == {f[x] : x \in S}
           g == [x \in S |-> f[x]]
<1>1. g \in Surjection(S, T)
  BY DEF Surjection
<1> HIDE DEF g, T
<1>2. IsFiniteSet(T)
  BY <1>1, FS_Surjection
<1> QED
  BY <1>2 DEF T

\* The union of finitely many finite values is finite.
LEMMA UnionFinite ==
  ASSUME NEW S, IsFiniteSet(S), NEW f, DOMAIN f = S, \A x \in S : IsFiniteSet(f[x])
  PROVE  IsFiniteSet(UNION {f[x] : x \in S})
<1>1. PICK T : T = {f[x] : x \in S}
  OBVIOUS
<1>2. IsFiniteSet(T)
  BY <1>1, ValuesFinite
<1>3. \A U \in T : IsFiniteSet(U)
  BY <1>1
<1>4. IsFiniteSet(UNION T)
  BY <1>2, <1>3, FS_UNION
<1> QED
  BY <1>1, <1>4

\* When gives one operation at most.
LEMMA WhenGives ==
  ASSUME NEW condition, NEW o
  PROVE  IsFiniteSet(When(condition, o)) /\ When(condition, o) \subseteq {o}
  BY FS_EmptySet, FS_Singleton DEF When

\* Unions of two and of three finite sets are finite.
LEMMA ThreeFinite ==
  ASSUME NEW S, IsFiniteSet(S), NEW T, IsFiniteSet(T), NEW U, IsFiniteSet(U)
  PROVE  IsFiniteSet(S \cup T) /\ IsFiniteSet(S \cup T \cup U)
<1>1. IsFiniteSet(S \cup T)
  BY FS_Union
<1>2. PICK V : V = S \cup T
  OBVIOUS
<1>3. IsFiniteSet(V \cup U)
  BY <1>1, <1>2, FS_Union
<1> QED
  BY <1>1, <1>2, <1>3

\* Operations that carry no fields, or none that an operation needs checked.
Plainly == {"device_remove", "device_set_capacity", "device_set_windows", "drain_resource", "enter_maintenance",
            "exit_maintenance"} \cup LinkOps \cup (RouteOps \ {"route_add"})
           \cup (WorkloadOps \ {"workload_add"}) \cup ConfigOps

\* An operation of such a kind needs nothing else checked.
LEMMA PlainlyIs ==
  ASSUME NEW o, o.kind \in Plainly
  PROVE  IsOperation(o)
  BY DEF Plainly, IsOperation, DeviceOps, MaintenanceOps, LinkOps, RouteOps, WorkloadOps, PolicyOps, ConfigOps

\* The changes of a device's state are operations, finitely many,
LEMMA StateChanges ==
  ASSUME NEW c, NEW from, NEW to \in DeviceStates, NEW d
  PROVE  /\ IsFiniteSet({Bare(kind, d) : kind \in StateSteps(c, from, to)})
         /\ \A o \in {Bare(kind, d) : kind \in StateSteps(c, from, to)} : IsOperation(o)
<1> DEFINE Kinds == {"device_remove", "drain_resource", "enter_maintenance", "exit_maintenance"}
           ops == {Bare(kind, d) : kind \in StateSteps(c, from, to)}
           all == {Bare("device_remove", d)} \cup {Bare("drain_resource", d)} \cup {Bare("enter_maintenance", d)}
                  \cup {Bare("exit_maintenance", d)}
<1>1. StateSteps(c, from, to) \subseteq Kinds
  BY DEF StateSteps, DeviceStates
<1>2. ops \subseteq all
  BY <1>1
<1>3. IsFiniteSet(all)
  <2>1. \A x : IsFiniteSet({x})
    BY FS_Singleton
  <2>2. IsFiniteSet({Bare("device_remove", d)} \cup {Bare("drain_resource", d)} \cup {Bare("enter_maintenance", d)})
    BY <2>1, ThreeFinite
  <2> QED
    BY <2>2, FS_AddElement
<1>4. IsFiniteSet(ops)
  <2> HIDE DEF ops, all
  <2> QED
    BY <1>2, <1>3, FS_Subset
<1>5. ASSUME NEW o \in ops PROVE IsOperation(o)
  <2>1. PICK kind \in Kinds : o = Bare(kind, d)
    BY <1>1
  <2>2. o.kind = kind
    BY <2>1 DEF Bare
  <2> QED
    BY <2>1, <2>2, PlainlyIs DEF Plainly
<1> QED
  BY <1>4, <1>5

\* and so is everything derived for a device,
LEMMA DeviceChangesAre ==
  ASSUME NEW c, NEW s, NEW d, NEW want, IsDevice(want)
  PROVE  /\ IsFiniteSet(DeviceChanges(c, s, d, want))
         /\ \A o \in DeviceChanges(c, s, d, want) : IsOperation(o)
<1>1. CASE d \notin DOMAIN s.device
  <2>1. PICK o : o = Carrying("device_add", d, want)
    OBVIOUS
  <2>2. DeviceChanges(c, s, d, want) = {o}
    BY <1>1, <2>1 DEF DeviceChanges
  <2>3. o.kind = "device_add" /\ o.new = want
    BY <2>1 DEF Carrying
  <2>4. IsOperation(o)
    BY <2>3 DEF IsOperation, DeviceOps, PolicyOps
  <2> QED
    BY <2>2, <2>4, FS_Singleton
<1>2. CASE d \in DOMAIN s.device
  <2>1. PICK S, T, U : /\ S = {Bare(kind, d) : kind \in StateSteps(c, s.device[d].state, want.state)}
                       /\ T = When(<<s.device[d].cap, s.device[d].res>> # <<want.cap, want.res>>,
                                   Carrying("device_set_capacity", d, want))
                       /\ U = When(<<s.device[d].excl, s.device[d].maint>> # <<want.excl, want.maint>>,
                                   Carrying("device_set_windows", d, want))
    OBVIOUS
  <2>2. DeviceChanges(c, s, d, want) = S \cup T \cup U
    BY <1>2, <2>1 DEF DeviceChanges
  <2>3. IsFiniteSet(S) /\ \A o \in S : IsOperation(o)
    BY <2>1, StateChanges DEF IsDevice
  <2>4. IsFiniteSet(T) /\ IsFiniteSet(U)
    BY <2>1, WhenGives
  <2>5. \A o \in T \cup U : o.kind \in Plainly
    BY <2>1 DEF When, Carrying, Plainly
  <2>6. \A o \in S \cup T \cup U : IsOperation(o)
    BY <2>3, <2>5, PlainlyIs
  <2>7. IsFiniteSet(S \cup T \cup U)
    BY <2>3, <2>4, ThreeFinite
  <2> QED
    BY <2>2, <2>6, <2>7
<1> QED
  BY <1>1, <1>2

\* for a link,
LEMMA LinkChangesAre ==
  ASSUME NEW s, NEW l, NEW want
  PROVE  IsFiniteSet(LinkChanges(s, l, want)) /\ \A o \in LinkChanges(s, l, want) : IsOperation(o)
<1>1. IsFiniteSet(LinkChanges(s, l, want))
  BY WhenGives, FS_Singleton DEF LinkChanges
<1>2. \A o \in LinkChanges(s, l, want) : o.kind \in Plainly
  BY DEF LinkChanges, When, Carrying, Plainly, LinkOps
<1> QED
  BY <1>1, <1>2, PlainlyIs

\* for a route,
LEMMA RouteChangesAre ==
  ASSUME NEW s, NEW r, NEW want, IsRoute(want)
  PROVE  IsFiniteSet(RouteChanges(s, r, want)) /\ \A o \in RouteChanges(s, r, want) : IsOperation(o)
<1>1. CASE r \notin DOMAIN s.route
  <2>1. PICK o : o = Carrying("route_add", r, want)
    OBVIOUS
  <2>2. RouteChanges(s, r, want) = {o}
    BY <1>1, <2>1 DEF RouteChanges
  <2>3. o.kind = "route_add" /\ o.new = want
    BY <2>1 DEF Carrying
  <2>4. IsOperation(o)
    BY <2>3 DEF IsOperation, RouteOps, PolicyOps
  <2> QED
    BY <2>2, <2>4, FS_Singleton
<1>2. CASE r \in DOMAIN s.route
  <2>1. PICK S, T : /\ S = When(<<s.route[r].path, s.route[r].policy>> # <<want.path, want.policy>>,
                                Carrying("route_set_path", r, want))
                    /\ T = When(s.route[r].state # want.state, Carrying("route_set_state", r, [state |-> want.state]))
    OBVIOUS
  <2>2. RouteChanges(s, r, want) = S \cup T
    BY <1>2, <2>1 DEF RouteChanges
  <2>3. IsFiniteSet(S) /\ IsFiniteSet(T)
    BY <2>1, WhenGives
  <2>4. \A o \in S \cup T : o.kind \in Plainly
    BY <2>1 DEF When, Carrying, Plainly, RouteOps
  <2> QED
    BY <2>2, <2>3, <2>4, PlainlyIs, FS_Union
<1> QED
  BY <1>1, <1>2

\* for a workload,
LEMMA WorkloadChangesAre ==
  ASSUME NEW s, NEW w, NEW want, IsWorkload(want)
  PROVE  IsFiniteSet(WorkloadChanges(s, w, want)) /\ \A o \in WorkloadChanges(s, w, want) : IsOperation(o)
<1>1. CASE w \notin DOMAIN s.workload
  <2>1. PICK o : o = Carrying("workload_add", w, want)
    OBVIOUS
  <2>2. WorkloadChanges(s, w, want) = {o}
    BY <1>1, <2>1 DEF WorkloadChanges
  <2>3. o.kind = "workload_add" /\ o.new = want
    BY <2>1 DEF Carrying
  <2>4. IsOperation(o)
    BY <2>3 DEF IsOperation, WorkloadOps, PolicyOps
  <2> QED
    BY <2>2, <2>4, FS_Singleton
<1>2. CASE w \in DOMAIN s.workload
  <2>1. PICK S, T : /\ S = When(s.workload[w].bind # want.bind, Bindings(w, want.bind))
                    /\ T = When(s.workload[w].req # want.req,
                                Carrying("workload_set_requirements", w, [bind |-> NoBindings, req |-> want.req]))
    OBVIOUS
  <2>2. WorkloadChanges(s, w, want) = S \cup T
    BY <1>2, <2>1 DEF WorkloadChanges
  <2>3. IsFiniteSet(S) /\ IsFiniteSet(T)
    BY <2>1, WhenGives
  <2>4. \A o \in S \cup T : o.kind \in Plainly
    BY <2>1 DEF When, Carrying, Bindings, Plainly, WorkloadOps
  <2> QED
    BY <2>2, <2>3, <2>4, PlainlyIs, FS_Union
<1> QED
  BY <1>1, <1>2

\* and for a route that goes.
LEMMA RouteRemovalIs ==
  ASSUME NEW s, IsSnapshot(s), NEW r
  PROVE  IsFiniteSet(RouteRemoval(s, r)) /\ \A o \in RouteRemoval(s, r) : IsOperation(o)
<1> DEFINE Rest(bind) == [q \in DOMAIN bind \ {r} |-> bind[q]]
           users == {v \in DOMAIN s.workload : r \in DOMAIN s.workload[v].bind}
           f == [w \in users |-> Bindings(w, Rest(s.workload[w].bind))]
           ops == {f[w] : w \in users}
<1>1. RouteRemoval(s, r) = ops \cup {Bare("route_remove", r)}
  BY DEF RouteRemoval
<1>2. IsFiniteSet(users)
  <2>1. IsFiniteSet(DOMAIN s.workload)
    BY DEF IsSnapshot, EntityKinds
  <2> QED
    BY <2>1, FS_Subset
<1>3. ASSUME NEW o \in ops \cup {Bare("route_remove", r)} PROVE o.kind \in Plainly
  <2>1. CASE o = Bare("route_remove", r)
    <3>1. o.kind = "route_remove"
      BY <2>1 DEF Bare
    <3> QED
      BY <3>1 DEF Plainly, RouteOps
  <2>2. CASE o \in ops
    <3>1. PICK w \in users : o = Bindings(w, Rest(s.workload[w].bind))
      BY <2>2
    <3>2. o.kind = "workload_set_bindings"
      BY <3>1 DEF Bindings, Carrying
    <3> QED
      BY <3>2 DEF Plainly, WorkloadOps
  <2> QED
    BY <2>1, <2>2
<1>4. DOMAIN f = users
  OBVIOUS
<1> HIDE DEF f, users
<1>5. IsFiniteSet(ops)
  BY <1>2, <1>4, ValuesFinite
<1> HIDE DEF ops
<1>6. IsFiniteSet(ops \cup {Bare("route_remove", r)})
  BY <1>5, FS_AddElement
<1> QED
  BY <1>1, <1>3, <1>6, PlainlyIs

\* Finitely many operations.
Operations(S) == IsFiniteSet(S) /\ \A o \in S : IsOperation(o)

\* Two finite sets of operations make one,
LEMMA OperationsJoined ==
  ASSUME NEW S, Operations(S), NEW T, Operations(T)
  PROVE  Operations(S \cup T)
  BY FS_Union DEF Operations

\* and so do those of every entity of a finite set,
LEMMA OperationsOfAll ==
  ASSUME NEW S, IsFiniteSet(S), NEW f, DOMAIN f = S, \A x \in S : Operations(f[x])
  PROVE  Operations(UNION {f[x] : x \in S})
<1>1. \A x \in S : IsFiniteSet(f[x])
  BY DEF Operations
<1>2. IsFiniteSet(UNION {f[x] : x \in S})
  BY <1>1, UnionFinite
<1>3. \A o \in UNION {f[x] : x \in S} : IsOperation(o)
  BY DEF Operations
<1> QED
  BY <1>2, <1>3 DEF Operations

\* one operation for each entity,
LEMMA OperationForEach ==
  ASSUME NEW S, IsFiniteSet(S), NEW f, DOMAIN f = S, \A x \in S : IsOperation(f[x])
  PROVE  Operations({f[x] : x \in S})
<1>1. IsFiniteSet({f[x] : x \in S})
  BY ValuesFinite
<1> QED
  BY <1>1 DEF Operations

\* and one without fields for each entity.
LEMMA BareForEach ==
  ASSUME NEW S, IsFiniteSet(S),
         NEW kind \in {"link_remove", "workload_remove", "policy_unbind", "config_clear"}
  PROVE  Operations({Bare(kind, x) : x \in S})
<1> DEFINE f == [x \in S |-> Bare(kind, x)]
<1>1. ASSUME NEW x \in S PROVE IsOperation(f[x])
  <2>1. PICK o : o = Bare(kind, x) /\ f[x] = o
    OBVIOUS
  <2>2. o.kind = kind /\ o.new.target = Everything
    BY <2>1 DEF Bare
  <2>3. IsOperation(o)
    BY <2>2 DEF IsOperation, IsScope, DeviceOps, LinkOps, RouteOps, WorkloadOps, PolicyOps, ConfigOps, MaintenanceOps
  <2> QED
    BY <2>1, <2>3
<1>2. {Bare(kind, x) : x \in S} = {f[x] : x \in S} /\ DOMAIN f = S
  OBVIOUS
<1> HIDE DEF f
<1> QED
  BY <1>1, <1>2, OperationForEach

\* What is derived for the removals of a goal.
LEMMA RemovalsAre ==
  ASSUME NEW c, NEW s, IsSnapshot(s), NEW t, \A kind \in EntityKinds : IsFiniteSet(t.remove[kind])
  PROVE  Operations(Removals(c, s, t))
<1> DEFINE There(kind) == {i \in t.remove[kind] : Exists(s, <<kind, i>>)}
           Going(d) == {Bare(kind, d) : kind \in StateSteps(c, s.device[d].state, "removed")}
           device == [d \in There("device") |-> Going(d)]
           route == [r \in There("route") |-> RouteRemoval(s, r)]
           A == UNION {device[d] : d \in There("device")}
           B == {Bare("link_remove", l) : l \in There("link")}
           C == UNION {route[r] : r \in There("route")}
           D == {Bare("workload_remove", w) : w \in There("workload")}
           E == {Bare("policy_unbind", p) : p \in There("policy")}
           F == {Bare("config_clear", e) : e \in There("config")}
<1>1. Removals(c, s, t) = A \cup B \cup C \cup D \cup E \cup F
  <2> DEFINE A1 == UNION {Going(d) : d \in There("device")}
             C1 == UNION {RouteRemoval(s, r) : r \in There("route")}
  <2>1. A = A1
    <3> HIDE DEF Going, There
    <3> QED
      OBVIOUS
  <2>2. C = C1
    OBVIOUS
  <2>3. Removals(c, s, t) = A1 \cup B \cup C1 \cup D \cup E \cup F
    BY Zenon DEF Removals
  <2> HIDE DEF A, A1, C, C1
  <2> QED
    BY <2>1, <2>2, <2>3
<1>2. ASSUME NEW kind \in EntityKinds PROVE IsFiniteSet(There(kind))
  <2>1. There(kind) \subseteq t.remove[kind]
    OBVIOUS
  <2> QED
    BY <2>1, FS_Subset
<1>3. ASSUME NEW d \in There("device") PROVE Operations(device[d])
  <2>1. "removed" \in DeviceStates
    BY DEF DeviceStates
  <2>2. PICK ops : ops = {Bare(kind, d) : kind \in StateSteps(c, s.device[d].state, "removed")}
    OBVIOUS
  <2>3. Operations(ops)
    BY <2>1, <2>2, StateChanges DEF Operations
  <2> QED
    BY <2>2, <2>3
<1>4. \A r \in There("route") : Operations(route[r])
  BY RouteRemovalIs DEF Operations
<1>5. DOMAIN device = There("device") /\ DOMAIN route = There("route")
  OBVIOUS
<1>6. {"device", "link", "route", "workload", "policy", "config"} \subseteq EntityKinds
  BY DEF EntityKinds
<1> HIDE DEF There, device, route
<1>7. Operations(A)
  BY <1>2, <1>3, <1>5, <1>6, OperationsOfAll
<1>8. Operations(B)
  BY <1>2, <1>6, BareForEach
<1>9. Operations(C)
  BY <1>2, <1>4, <1>5, <1>6, OperationsOfAll
<1>10. Operations(D)
  BY <1>2, <1>6, BareForEach
<1>11. Operations(E)
  BY <1>2, <1>6, BareForEach
<1>12. Operations(F)
  BY <1>2, <1>6, BareForEach
<1> HIDE DEF A, B, C, D, E, F
<1>13. Operations(A \cup B) /\ Operations(C \cup D) /\ Operations(E \cup F)
  BY <1>7, <1>8, <1>9, <1>10, <1>11, <1>12, OperationsJoined
<1>14. Operations((A \cup B) \cup (C \cup D))
  BY <1>13, OperationsJoined
<1>15. Operations(((A \cup B) \cup (C \cup D)) \cup (E \cup F))
  BY <1>13, <1>14, OperationsJoined
<1>16. Removals(c, s, t) = ((A \cup B) \cup (C \cup D)) \cup (E \cup F)
  BY <1>1
<1> QED
  BY <1>15, <1>16

\* What is derived is finitely many operations.
LEMMA DerivedAre ==
  ASSUME NEW c, NEW s, IsSnapshot(s), NEW t, IsGoal(t)
  PROVE  Operations(Derived(c, s, t))
<1> DEFINE want == t.ensure
           policies == {x \in DOMAIN want.policy : x \notin DOMAIN s.policy \/ s.policy[x] # want.policy[x]}
           entries == {x \in DOMAIN want.config :
                         x \notin DOMAIN s.config \/ s.config[x].value # want.config[x].value}
           device == [d \in DOMAIN want.device |-> DeviceChanges(c, s, d, want.device[d])]
           link == [l \in DOMAIN want.link |-> LinkChanges(s, l, want.link[l])]
           route == [r \in DOMAIN want.route |-> RouteChanges(s, r, want.route[r])]
           workload == [w \in DOMAIN want.workload |-> WorkloadChanges(s, w, want.workload[w])]
           policy == [p \in policies |-> Carrying("policy_bind", p, want.policy[p])]
           config == [e \in entries |-> Carrying("config_set", e, [value |-> want.config[e].value])]
           R == Removals(c, s, t)
           A == UNION {device[d] : d \in DOMAIN want.device}
           B == UNION {link[l] : l \in DOMAIN want.link}
           C == UNION {route[r] : r \in DOMAIN want.route}
           D == UNION {workload[w] : w \in DOMAIN want.workload}
           E == {policy[p] : p \in policies}
           F == {config[e] : e \in entries}
<1>1. Derived(c, s, t) = R \cup A \cup B \cup C \cup D \cup E \cup F
  <2> DEFINE A1 == UNION {DeviceChanges(c, s, d, want.device[d]) : d \in DOMAIN want.device}
             B1 == UNION {LinkChanges(s, l, want.link[l]) : l \in DOMAIN want.link}
             C1 == UNION {RouteChanges(s, r, want.route[r]) : r \in DOMAIN want.route}
             D1 == UNION {WorkloadChanges(s, w, want.workload[w]) : w \in DOMAIN want.workload}
             E1 == {Carrying("policy_bind", p, want.policy[p]) : p \in policies}
             F1 == {Carrying("config_set", e, [value |-> want.config[e].value]) : e \in entries}
  <2>1. A = A1 /\ B = B1 /\ C = C1 /\ D = D1 /\ E = E1 /\ F = F1
    OBVIOUS
  <2>2. Derived(c, s, t) = R \cup A1 \cup B1 \cup C1 \cup D1 \cup E1 \cup F1
    BY Zenon DEF Derived
  <2> HIDE DEF A, A1, B, B1, C, C1, D, D1, E, E1, F, F1, R
  <2> QED
    BY <2>1, <2>2
<1>2. /\ IsFiniteSet(DOMAIN want.device) /\ IsFiniteSet(DOMAIN want.link) /\ IsFiniteSet(DOMAIN want.route)
      /\ IsFiniteSet(DOMAIN want.workload) /\ IsFiniteSet(DOMAIN want.policy) /\ IsFiniteSet(DOMAIN want.config)
  BY DEF IsGoal, EntityKinds
<1>3. IsFiniteSet(policies) /\ IsFiniteSet(entries)
  <2>1. policies \subseteq DOMAIN want.policy /\ entries \subseteq DOMAIN want.config
    OBVIOUS
  <2> HIDE DEF policies, entries, want
  <2> QED
    BY <1>2, <2>1, FS_Subset
<1>4. \A d \in DOMAIN want.device : Operations(device[d])
  BY DeviceChangesAre DEF Operations, IsGoal
<1>5. \A l \in DOMAIN want.link : Operations(link[l])
  BY LinkChangesAre DEF Operations
<1>6. \A r \in DOMAIN want.route : Operations(route[r])
  BY RouteChangesAre DEF Operations, IsGoal
<1>7. \A w \in DOMAIN want.workload : Operations(workload[w])
  BY WorkloadChangesAre DEF Operations, IsGoal
<1>8. ASSUME NEW p \in policies PROVE IsOperation(policy[p])
  <2>1. PICK o : o = Carrying("policy_bind", p, want.policy[p]) /\ policy[p] = o
    OBVIOUS
  <2>2. o.kind = "policy_bind" /\ IsScope(o.new.target)
    BY <2>1 DEF Carrying, IsGoal
  <2>3. IsOperation(o)
    BY <2>2 DEF IsOperation, PolicyOps
  <2> QED
    BY <2>1, <2>3
<1>9. ASSUME NEW e \in entries PROVE IsOperation(config[e])
  <2>1. PICK o : o = Carrying("config_set", e, [value |-> want.config[e].value]) /\ config[e] = o
    OBVIOUS
  <2>2. o.kind = "config_set"
    BY <2>1 DEF Carrying
  <2>3. IsOperation(o)
    BY <2>2, PlainlyIs DEF Plainly, ConfigOps
  <2> QED
    BY <2>1, <2>3
<1>10. /\ DOMAIN device = DOMAIN want.device /\ DOMAIN link = DOMAIN want.link /\ DOMAIN route = DOMAIN want.route
       /\ DOMAIN workload = DOMAIN want.workload /\ DOMAIN policy = policies /\ DOMAIN config = entries
  OBVIOUS
<1>11. Operations(R)
  BY RemovalsAre DEF IsGoal
<1> HIDE DEF want, policies, entries, device, link, route, workload, policy, config
<1>12. Operations(A)
  BY <1>2, <1>4, <1>10, OperationsOfAll
<1>13. Operations(B)
  BY <1>2, <1>5, <1>10, OperationsOfAll
<1>14. Operations(C)
  BY <1>2, <1>6, <1>10, OperationsOfAll
<1>15. Operations(D)
  BY <1>2, <1>7, <1>10, OperationsOfAll
<1>16. Operations(E)
  BY <1>3, <1>8, <1>10, OperationForEach
<1>17. Operations(F)
  BY <1>3, <1>9, <1>10, OperationForEach
<1> HIDE DEF R, A, B, C, D, E, F
<1>18. Operations(R \cup A) /\ Operations(B \cup C) /\ Operations(D \cup E)
  BY <1>11, <1>12, <1>13, <1>14, <1>15, <1>16, OperationsJoined
<1>19. Operations((R \cup A) \cup (B \cup C)) /\ Operations((D \cup E) \cup F)
  BY <1>17, <1>18, OperationsJoined
<1>20. Operations(((R \cup A) \cup (B \cup C)) \cup ((D \cup E) \cup F))
  BY <1>19, OperationsJoined
<1>21. Derived(c, s, t) = ((R \cup A) \cup (B \cup C)) \cup ((D \cup E) \cup F)
  BY <1>1
<1> QED
  BY <1>20, <1>21

-----------------------------------------------------------------------------
(* What the planner makes                                                  *)

\* An order of finitely many operations.
LEMMA OrderOf ==
  ASSUME NEW S, Operations(S), NEW order \in SetToSeqs(S)
  PROVE  /\ Len(order) \in Nat /\ DOMAIN order = 1 .. Len(order)
         /\ \A i \in 1 .. Len(order) : order[i] \in S /\ IsOperation(order[i])
         /\ \A i, j \in 1 .. Len(order) : order[i] = order[j] => i = j
         /\ \A o \in S : \E i \in 1 .. Len(order) : order[i] = o
<1>1. PICK n : n = Cardinality(S) /\ n \in Nat
  BY FS_CardinalityType DEF Operations
<1>2. order \in [1 .. n -> S] /\ \A i, j \in 1 .. n : i # j => order[i] # order[j]
  BY <1>1 DEF SetToSeqs
<1>3. Len(order) = n
  <2>1. order \in Seq(S)
    BY <1>1, <1>2
  <2> QED
    BY <1>1, <1>2, <2>1
<1>4. ASSUME NEW o \in S PROVE \E i \in 1 .. n : order[i] = o
  <2>1. order \in Injection(1 .. n, S) /\ IsFiniteSet(S) /\ Cardinality(S) = n
    BY <1>1, <1>2 DEF Injection, IsInjective, Operations
  <2>2. Cardinality(1 .. n) = n
    <3>1. PICK a, b : a = 1 /\ b = n /\ a \in Int /\ b \in Int
      BY <1>1
    <3>2. Cardinality(a .. b) = IF a > b THEN 0 ELSE b - a + 1
      BY <3>1, FS_Interval
    <3> QED
      BY <1>1, <3>1, <3>2
  <2>3. order \in Surjection(1 .. n, S)
    BY <2>1, <2>2, FS_Injection
  <2> QED
    BY <2>3 DEF Surjection
<1> QED
  BY <1>1, <1>2, <1>3, <1>4 DEF Operations

\* A step that needs a maintenance window is bound to one, or takes something back.
Bounded(c, steps, undone) ==
  \A i \in DOMAIN steps :
    (steps[i].op.kind \in WindowOps /\ "maintenance_window" \in c.enforced)
    => steps[i].windows # {} \/ Written(steps[i].op) \in undone

Distinct(steps) == \A i, j \in DOMAIN steps : steps[i].op = steps[j].op => i = j

\* The steps carry out what is derived for the goal, and besides only write what is undone.
Aims(q, steps, undone) ==
  /\ TargetValid(q.target.goal) /\ Derivable(q.state, q.target.goal)
  /\ \A o \in Derived(ContextOf(q), q.state, q.target.goal) : \E i \in DOMAIN steps : steps[i].op = o
  /\ \A i \in DOMAIN steps :
       steps[i].op \in Derived(ContextOf(q), q.state, q.target.goal) \/ Written(steps[i].op) \in undone

\* A step that could be carried out where windows are enforced found one open.
LEMMA WindowFound ==
  ASSUME NEW c, NEW at, NEW step, IsOperation(step.op), Verified(c, at, step), step.windows = WindowsOf(c, at, step.op),
         step.op.kind \in WindowOps, "maintenance_window" \in c.enforced
  PROVE  step.windows # {}
<1>1. PICK o : o = step.op
  OBVIOUS
<1>2. Permitted(c, at, o) /\ Possible(c, at, o)
  BY <1>1, Zenon DEF Verified, Accepts, Applies
<1>3. o.id \in DOMAIN at.device
  <2>1. o.kind \in AllKinds /\ o.kind \in DeviceOps /\ o.kind \notin AddOps \cup {"policy_bind", "config_set"}
    BY <1>1 DEF AllKinds, DeviceOps, WindowOps, MaintenanceOps, AddOps
  <2>2. EntityKind(o) = "device"
    BY <2>1, KindsSplit
  <2> QED
    BY <1>2, <2>1, <2>2, ChangedIsKnown
<1>4. MaintenancePermitted(c, at.device[o.id])
  BY <1>1, <1>2, <1>3 DEF Permitted
<1>5. PICK w \in at.device[o.id].maint : w.begin <= c.instant /\ c.instant < w.end
  BY <1>4 DEF MaintenancePermitted, Within
<1>6. Within({w}, c.instant)
  BY <1>5 DEF Within
<1>7. w.id \in WindowsOf(c, at, o)
  BY <1>1, <1>3, <1>5, <1>6 DEF WindowsOf
<1> QED
  BY <1>1, <1>7

\* What may come out of the planner: steps that can be carried out from a safe snapshot.
LEMMA SchedulesAre ==
  ASSUME NEW q, IsSnapshot(q.state), IsGoal(q.target.goal), NEW steps \in Schedules(q)
  PROVE  /\ Valid(q.state) /\ GenerationBound(q) /\ StateIsSafe(ContextOf(q), q.state)
         /\ IsSteps(steps) /\ Replay(ContextOf(q), q.state, steps).ok
         /\ Distinct(steps) /\ Bounded(ContextOf(q), steps, {}) /\ Aims(q, steps, {})
<1>1. PICK c, ops : c = ContextOf(q) /\ ops = Derived(c, q.state, q.target.goal)
  OBVIOUS
<1>2. Plannable(q) /\ \E order \in SetToSeqs(ops) : Derive(c, q.state, order).ok /\ steps = Derive(c, q.state, order).steps
  BY <1>1 DEF Schedules
<1>3. PICK order \in SetToSeqs(ops) : Derive(c, q.state, order).ok /\ steps = Derive(c, q.state, order).steps
  BY <1>2
<1>4. Valid(q.state) /\ GenerationBound(q) /\ StateIsSafe(c, q.state)
  BY <1>1, <1>2 DEF Plannable
<1>5. Operations(ops)
  BY <1>1, DerivedAre
<1>6. PICK n : n = Len(order) /\ n \in Nat
  BY <1>5, OrderOf
<1>7. \A i \in 1 .. n : IsOperation(order[i])
  BY <1>5, <1>6, OrderOf
<1>8. \A i, j \in 1 .. n : order[i] = order[j] => i = j
  BY <1>5, <1>6, OrderOf
<1>9. PICK f : Walking(c, q.state, InOrderOf(order), f, n) /\ Derive(c, q.state, order) = f[n]
  BY <1>6, DeriveWalks
<1>10. PICK m, s : m = InOrderOf(order) /\ s = q.state
  OBVIOUS
<1>11. Arrives(c, s, m, f, n) /\ m.how = "derived" /\ m.list = order
  <2>1. f[n].ok
    BY <1>3, <1>9, Zenon
  <2>2. m.how = "derived" /\ m.list = order
    BY <1>10 DEF InOrderOf
  <2>3. Walking(c, s, m, f, n)
    BY <1>9, <1>10, Zenon
  <2>4. IsSnapshot(s) /\ \A i \in 1 .. n : IsOperation(m.list[i])
    BY <1>7, <1>10, <2>2
  <2>5. m.how \in {"derived", "inverse"} /\ (m.how = "inverse" => IsSnapshot(m.observed))
    BY <2>2
  <2> QED
    BY <1>6, <2>1, <2>2, <2>3, <2>4, <2>5, Zenon DEF Arrives
<1>12. IsSteps(f[n].steps) /\ Len(f[n].steps) = n
  BY <1>11, WalkingSteps
<1>13. ASSUME NEW i \in 1 .. n
       PROVE  /\ f[n].steps[i].op = order[i]
              /\ \E at : IsSnapshot(at) /\ Verified(c, at, f[n].steps[i])
                         /\ f[n].steps[i].windows = WindowsOf(c, at, order[i])
  BY <1>11, WalkingSteps
<1>14. IsSteps(steps) /\ Len(steps) = n /\ DOMAIN steps = 1 .. n
  BY <1>3, <1>9, <1>12, StepsAre
<1>15. \A i \in 1 .. n : steps[i].op = order[i]
  BY <1>3, <1>9, <1>11, <1>13
<1>16. Distinct(steps)
  BY <1>8, <1>14, <1>15 DEF Distinct
<1>17. Bounded(c, steps, {})
  <2> SUFFICES ASSUME NEW i \in 1 .. n, steps[i].op.kind \in WindowOps, "maintenance_window" \in c.enforced
               PROVE  steps[i].windows # {}
    BY <1>14 DEF Bounded
  <2>1. PICK at : Verified(c, at, steps[i]) /\ steps[i].windows = WindowsOf(c, at, order[i])
    BY <1>3, <1>9, <1>11, <1>13
  <2> QED
    BY <1>7, <1>15, <2>1, WindowFound
<1>18. Replay(c, q.state, steps).ok
  BY <1>3, <1>6, DerivedReplays
<1>19. Aims(q, steps, {})
  <2>1. TargetValid(q.target.goal) /\ Derivable(q.state, q.target.goal)
    BY <1>2, Zenon DEF Plannable
  <2>2. /\ \A i \in 1 .. n : order[i] \in ops
        /\ \A o \in ops : \E i \in 1 .. n : order[i] = o
    BY <1>5, <1>6, OrderOf
  <2>3. /\ \A o \in ops : \E i \in DOMAIN steps : steps[i].op = o
        /\ \A i \in DOMAIN steps : steps[i].op \in ops
    BY <1>14, <1>15, <2>2
  <2> QED
    BY <1>1, <2>1, <2>3 DEF Aims
<1> QED
  BY <1>1, <1>4, <1>14, <1>16, <1>17, <1>18, <1>19

\* What may come out of putting inverses in front of a schedule.
LEMMA FrontedGives ==
  ASSUME NEW q, NEW steps, NEW inverses, NEW all \in Fronted(q, steps, inverses)
  PROVE  /\ FrontOf(q, inverses).ok /\ all = FrontOf(q, inverses).steps \o steps
         /\ Replay(ContextOf(q), q.state, all).ok /\ Distinct(all)
<1> DEFINE c == ContextOf(q)
           front == FrontOf(q, inverses)
           new == front.steps \o steps
           swaps == {p \in [DOMAIN inverses -> DOMAIN inverses] : \A i, j \in DOMAIN inverses : p[i] = p[j] => i = j}
           Shuffled(p) == Replay(c, q.state, [i \in DOMAIN inverses |-> front.steps[p[i]]])
           distinct == \A i, j \in DOMAIN new : new[i].op = new[j].op => i = j
           accepted == /\ front.ok /\ distinct
                       /\ \A p \in swaps : Shuffled(p).ok /\ Shuffled(p).at = front.at
                       /\ Replay(c, q.state, new).ok
<1>1. Fronted(q, steps, inverses) = IF accepted THEN {new} ELSE {}
  BY Zenon DEF Fronted, FrontOf
<1>2. accepted => front.ok /\ distinct /\ Replay(c, q.state, new).ok
  OBVIOUS
<1> HIDE DEF accepted, new, distinct
<1>3. accepted /\ all = new
  BY <1>1
<1>4. Distinct(new)
  BY <1>2, <1>3 DEF Distinct, distinct
<1> QED
  BY <1>2, <1>3, <1>4 DEF new

\* Steps in front of steps.
LEMMA StepsJoined ==
  ASSUME NEW s, NEW t, IsSteps(s), IsSteps(t)
  PROVE  /\ IsSteps(s \o t)
         /\ \A i \in DOMAIN (s \o t) :
              \/ i \in 1 .. Len(s) /\ (s \o t)[i] = s[i]
              \/ i - Len(s) \in 1 .. Len(t) /\ (s \o t)[i] = t[i - Len(s)]
<1>1. PICK S : s \in Seq(S) /\ \A step \in S : IsStep(step)
  BY DEF IsSteps
<1>2. PICK T : t \in Seq(T) /\ \A step \in T : IsStep(step)
  BY DEF IsSteps
<1>3. PICK U : U = S \cup T
  OBVIOUS
<1>0. s \in Seq(U) /\ t \in Seq(U)
  BY <1>1, <1>2, <1>3, SeqMonotonic
<1>4. PICK u, m, n : u = s \o t /\ m = Len(s) /\ n = Len(t)
  OBVIOUS
<1>9. m \in Nat /\ n \in Nat
  BY <1>1, <1>2, <1>4
<1>5. u \in Seq(U) /\ Len(u) = m + n /\ \A i \in 1 .. m + n : u[i] = IF i <= m THEN s[i] ELSE t[i - m]
  BY <1>0, <1>4, ConcatProperties
<1>6. DOMAIN u = 1 .. m + n
  BY <1>5
<1>7. IsSteps(u)
  BY <1>1, <1>2, <1>3, <1>5 DEF IsSteps
<1>8. ASSUME NEW i \in DOMAIN u
      PROVE  \/ i \in 1 .. m /\ u[i] = s[i]
             \/ i - m \in 1 .. n /\ u[i] = t[i - m]
  BY <1>5, <1>6, <1>9
<1> QED
  BY <1>4, <1>7, <1>8

\* None of those behind is left out.
LEMMA StepsBehind ==
  ASSUME NEW s, NEW t, IsSteps(s), IsSteps(t), NEW j \in DOMAIN t
  PROVE  \E i \in DOMAIN (s \o t) : (s \o t)[i] = t[j]
<1>1. PICK S : s \in Seq(S) /\ \A step \in S : IsStep(step)
  BY DEF IsSteps
<1>2. PICK T : t \in Seq(T) /\ \A step \in T : IsStep(step)
  BY DEF IsSteps
<1>3. PICK U : U = S \cup T
  OBVIOUS
<1>4. s \in Seq(U) /\ t \in Seq(U)
  BY <1>1, <1>2, <1>3, SeqMonotonic
<1>5. PICK u, m, n : u = s \o t /\ m = Len(s) /\ n = Len(t)
  OBVIOUS
<1>6. m \in Nat /\ n \in Nat /\ j \in 1 .. n
  BY <1>1, <1>2, <1>5
<1>7. u \in Seq(U) /\ Len(u) = m + n /\ \A i \in 1 .. m + n : u[i] = IF i <= m THEN s[i] ELSE t[i - m]
  BY <1>4, <1>5, ConcatProperties
<1>8. m + j \in 1 .. m + n /\ ~(m + j <= m) /\ (m + j) - m = j
  BY <1>6
<1> QED
  BY <1>5, <1>7, <1>8

\* The inverses of the steps to compensate write what those steps wrote.
LEMMA InversesAre ==
  ASSUME NEW prior, IsSteps(prior.steps), NEW r, NEW compensate, NEW toUndo, toUndo = ToCompensate(prior, r, compensate)
  PROVE  /\ Operations(UNION {step.undo : step \in toUndo})
         /\ \A o \in UNION {step.undo : step \in toUndo} : Written(o) \in WrittenBy(toUndo)
<1>1. PICK n : n = Len(prior.steps) /\ n \in Nat /\ DOMAIN prior.steps = 1 .. n
               /\ \A i \in 1 .. n : IsStep(prior.steps[i])
  BY StepsAre
<1> DEFINE picked == {i \in 1 .. n : prior.steps[i] \in toUndo}
           f == [i \in picked |-> prior.steps[i].undo]
<1>2. IsFiniteSet(picked)
  <2>1. picked \subseteq 1 .. n
    OBVIOUS
  <2>2. PICK a, b : a = 1 /\ b = n /\ a \in Int /\ b \in Int
    BY <1>1
  <2>3. IsFiniteSet(1 .. n)
    BY <2>2, FS_Interval
  <2> QED
    BY <2>1, <2>3, FS_Subset
<1>3. toUndo \subseteq {prior.steps[i] : i \in 1 .. n}
  BY <1>1 DEF ToCompensate
<1>4. UNION {f[i] : i \in picked} = UNION {step.undo : step \in toUndo}
  <2>1. ASSUME NEW step \in toUndo PROVE \E i \in picked : f[i] = step.undo
    BY <1>3
  <2>2. ASSUME NEW i \in picked PROVE \E step \in toUndo : f[i] = step.undo
    OBVIOUS
  <2> HIDE DEF f, picked
  <2>3. {f[i] : i \in picked} = {step.undo : step \in toUndo}
    BY <2>1, <2>2
  <2> QED
    BY <2>3
<1>5. \A i \in picked : Operations(f[i])
  BY <1>1 DEF IsStep, Operations
<1>6. DOMAIN f = picked
  OBVIOUS
<1>7. \A step \in toUndo : \A o \in step.undo : Written(o) = Written(step.op)
  BY <1>1, <1>3 DEF IsStep
<1> HIDE DEF f, picked
<1>8. Operations(UNION {f[i] : i \in picked})
  BY <1>2, <1>5, <1>6, OperationsOfAll
<1>9. \A o \in UNION {step.undo : step \in toUndo} : Written(o) \in WrittenBy(toUndo)
  BY <1>7 DEF WrittenBy
<1> QED
  BY <1>4, <1>8, <1>9

\* Compensating steps in front of a schedule.
LEMMA FrontedAre ==
  ASSUME NEW q, IsSnapshot(q.state), NEW steps, IsSteps(steps), Bounded(ContextOf(q), steps, {}),
         NEW undone, NEW inverses, Len(inverses) \in Nat,
         \A i \in 1 .. Len(inverses) : IsOperation(inverses[i]) /\ Written(inverses[i]) \in undone,
         Aims(q, steps, {}), NEW all \in Fronted(q, steps, inverses)
  PROVE  /\ IsSteps(all) /\ Replay(ContextOf(q), q.state, all).ok /\ Distinct(all)
         /\ Bounded(ContextOf(q), all, undone) /\ Aims(q, all, undone)
<1>1. PICK c, s, m, n : c = ContextOf(q) /\ s = q.state /\ m = InverseMaker(inverses, q.state) /\ n = Len(inverses)
  OBVIOUS
<1>2. /\ FrontOf(q, inverses).ok /\ all = FrontOf(q, inverses).steps \o steps
      /\ Replay(ContextOf(q), q.state, all).ok /\ Distinct(all)
  BY FrontedGives
<1>3. PICK f : Walking(c, s, m, f, n) /\ FrontOf(q, inverses) = f[n]
  BY <1>1, FrontWalks
<1>4. Arrives(c, s, m, f, n) /\ m.how = "inverse" /\ m.list = inverses
  <2>1. f[n].ok
    BY <1>2, <1>3, Zenon
  <2>2. m.how = "inverse" /\ m.list = inverses /\ m.observed = s
    BY <1>1 DEF InverseMaker
  <2>3. IsSnapshot(s) /\ n \in Nat /\ \A i \in 1 .. n : IsOperation(m.list[i])
    BY <1>1, <2>2
  <2>4. m.how \in {"derived", "inverse"} /\ (m.how = "inverse" => IsSnapshot(m.observed))
    BY <2>2, <2>3
  <2> QED
    BY <1>3, <2>1, <2>2, <2>3, <2>4, Zenon DEF Arrives
<1>5. PICK front : front = f[n].steps /\ all = front \o steps
  BY <1>2, <1>3
<1>6. IsSteps(front) /\ Len(front) = n
  BY <1>4, <1>5, WalkingSteps
<1>7. ASSUME NEW i \in 1 .. n PROVE front[i].op = inverses[i]
  BY <1>4, <1>5, WalkingSteps
<1>8. /\ IsSteps(all)
      /\ \A i \in DOMAIN all :
           \/ i \in 1 .. n /\ all[i] = front[i]
           \/ i - n \in 1 .. Len(steps) /\ all[i] = steps[i - n]
      /\ \A j \in DOMAIN steps : \E i \in DOMAIN all : all[i] = steps[j]
  <2>1. IsSteps(front \o steps)
    BY <1>6, StepsJoined
  <2>2. \A i \in DOMAIN (front \o steps) :
          \/ i \in 1 .. Len(front) /\ (front \o steps)[i] = front[i]
          \/ i - Len(front) \in 1 .. Len(steps) /\ (front \o steps)[i] = steps[i - Len(front)]
    BY <1>6, StepsJoined
  <2>3. \A j \in DOMAIN steps : \E i \in DOMAIN (front \o steps) : (front \o steps)[i] = steps[j]
    BY <1>6, StepsBehind
  <2> QED
    BY <1>5, <1>6, <2>1, <2>2, <2>3
<1>9. Bounded(c, all, undone)
  <2> SUFFICES ASSUME NEW i \in DOMAIN all, all[i].op.kind \in WindowOps, "maintenance_window" \in c.enforced
               PROVE  all[i].windows # {} \/ Written(all[i].op) \in undone
    BY DEF Bounded
  <2>1. CASE i \in 1 .. n /\ all[i] = front[i]
    BY <1>1, <1>7, <2>1
  <2>2. CASE i - n \in 1 .. Len(steps) /\ all[i] = steps[i - n]
    <3>1. PICK j : j = i - n /\ j \in DOMAIN steps /\ all[i] = steps[j]
      BY <2>2, StepsAre
    <3>2. steps[j].windows # {}
      BY <1>1, <3>1 DEF Bounded
    <3> QED
      BY <3>1, <3>2
  <2> QED
    BY <1>8, <2>1, <2>2
<1>10. Aims(q, all, undone)
  <2>1. PICK D : D = Derived(ContextOf(q), q.state, q.target.goal)
    OBVIOUS
  <2>2. /\ TargetValid(q.target.goal) /\ Derivable(q.state, q.target.goal)
        /\ \A o \in D : \E j \in DOMAIN steps : steps[j].op = o
        /\ \A j \in DOMAIN steps : steps[j].op \in D
    BY <2>1 DEF Aims
  <2>3. \A o \in D : \E i \in DOMAIN all : all[i].op = o
    BY <1>8, <2>2
  <2>4. ASSUME NEW i \in DOMAIN all PROVE all[i].op \in D \/ Written(all[i].op) \in undone
    <3>1. CASE i \in 1 .. n /\ all[i] = front[i]
      BY <1>1, <1>7, <3>1
    <3>2. CASE i - n \in 1 .. Len(steps) /\ all[i] = steps[i - n]
      BY <2>2, <3>2, StepsAre
    <3> QED
      BY <1>8, <3>1, <3>2
  <2> QED
    BY <2>1, <2>2, <2>3, <2>4 DEF Aims
<1> QED
  BY <1>1, <1>2, <1>8, <1>9, <1>10

\* What a plan is: it starts from a safe snapshot, and its steps can be carried out there and
\* aim at its target; that of a rollback restores its origin.
IsPlan(p) ==
  /\ IsInputs(p.request) /\ Valid(p.request.state) /\ StateIsSafe(ContextOf(p.request), p.request.state)
  /\ GenerationBound(p.request)
  /\ IsSteps(p.steps) /\ Replay(ContextOf(p.request), p.request.state, p.steps).ok /\ Distinct(p.steps)
  /\ Bounded(ContextOf(p.request), p.steps, p.undone) /\ Aims(p.request, p.steps, p.undone)
  /\ p.kind = "rollback" =>
       IsSnapshot(p.origin) /\ p.undone = {} /\ p.request.target.goal = TargetFromState(p.origin)

IsReport(r) == IsStamp(r.stamp) /\ IsSnapshot(r.state)

\* Inputs based on a report are inputs still.
LEMMA RebasedIs ==
  ASSUME NEW base, IsInputs(base), NEW r, IsReport(r)
  PROVE  /\ IsInputs(Rebased(base, r))
         /\ Rebased(base, r).stamp = r.stamp /\ Rebased(base, r).state = r.state
<1>1. PICK state, stamp, target, evidence, rules, instant, goal, revision, based, caps, version, seen :
        /\ base = [state |-> state, stamp |-> stamp, target |-> target, evidence |-> evidence,
                   rules |-> rules, instant |-> instant]
        /\ target = [goal |-> goal, revision |-> revision, based |-> based]
        /\ evidence = [caps |-> caps, version |-> version, based |-> seen]
        /\ IsRules(rules) /\ IsGoal(goal)
  BY DEF IsInputs
<1>2. PICK q : q = Rebased(base, r)
  OBVIOUS
<1>3. q = [state |-> r.state, stamp |-> r.stamp,
           target |-> [goal |-> goal, revision |-> revision, based |-> r.stamp],
           evidence |-> [caps |-> caps, version |-> version, based |-> r.stamp],
           rules |-> rules, instant |-> instant]
  BY <1>1, <1>2 DEF Rebased
<1>4. IsInputs(q)
  BY <1>1, <1>3 DEF IsInputs, IsReport
<1>5. q.stamp = r.stamp /\ q.state = r.state
  BY <1>1, <1>3
<1> QED
  BY <1>2, <1>4, <1>5

\* The goal of a rollback is a goal.
LEMMA RestoringGoal ==
  ASSUME NEW s, IsSnapshot(s)
  PROVE  IsGoal(TargetFromState(s))
<1> DEFINE Standing(kind) == {i \in DOMAIN s[kind] : s[kind][i].state # "removed"}
           None == [kind \in EntityKinds |-> {}]
<1>1. PICK devices, links, d, l :
        /\ devices = Standing("device") /\ links = Standing("link")
        /\ d = [i \in devices |-> s.device[i]] /\ l = [i \in links |-> s.link[i]]
  OBVIOUS
<1>2. TargetFromState(s) = [ensure |-> [s EXCEPT !.device = d, !.link = l],
                            remove |-> [None EXCEPT !.device = DOMAIN s.device \ devices,
                                                    !.link = DOMAIN s.link \ links]]
  BY <1>1 DEF TargetFromState
<1>3. devices \subseteq DOMAIN s.device /\ links \subseteq DOMAIN s.link
  BY <1>1
<1>4. IsFiniteSet(DOMAIN s.device) /\ IsFiniteSet(DOMAIN s.link)
  BY DEF IsSnapshot, EntityKinds
<1>5. /\ IsFiniteSet(devices) /\ IsFiniteSet(links)
      /\ IsFiniteSet(DOMAIN s.device \ devices) /\ IsFiniteSet(DOMAIN s.link \ links)
  <2>1. DOMAIN s.device \ devices \subseteq DOMAIN s.device /\ DOMAIN s.link \ links \subseteq DOMAIN s.link
    OBVIOUS
  <2> QED
    BY <1>3, <1>4, <2>1, FS_Subset
<1>6. PICK goal, ensure, remove :
        /\ goal = TargetFromState(s) /\ ensure = [s EXCEPT !.device = d, !.link = l]
        /\ remove = [None EXCEPT !.device = DOMAIN s.device \ devices, !.link = DOMAIN s.link \ links]
  OBVIOUS
<1>7. goal.ensure = ensure /\ goal.remove = remove
  BY <1>2, <1>6
<1>8. /\ ensure.device = d /\ ensure.link = l
      /\ \A kind \in EntityKinds \ {"device", "link"} : ensure[kind] = s[kind]
  BY <1>6 DEF IsSnapshot, IsFunction, EntityKinds
<1>9. /\ remove.device = DOMAIN s.device \ devices /\ remove.link = DOMAIN s.link \ links
      /\ \A kind \in EntityKinds \ {"device", "link"} : remove[kind] = {}
  BY <1>6 DEF EntityKinds
<1>10. \A kind \in EntityKinds : IsFiniteSet(DOMAIN ensure[kind])
  BY <1>1, <1>5, <1>8 DEF IsSnapshot
<1>11. \A kind \in EntityKinds : IsFiniteSet(remove[kind])
  BY <1>5, <1>9, FS_EmptySet
<1>12. \A i \in DOMAIN ensure.device : IsDevice(ensure.device[i])
  BY <1>1, <1>3, <1>8 DEF IsSnapshot
<1>13. ensure.route = s.route /\ ensure.workload = s.workload /\ ensure.policy = s.policy
  BY <1>8 DEF EntityKinds
<1>14. /\ \A r \in DOMAIN ensure.route : IsRoute(ensure.route[r])
       /\ \A w \in DOMAIN ensure.workload : IsWorkload(ensure.workload[w])
       /\ \A p \in DOMAIN ensure.policy : IsScope(ensure.policy[p].target)
  BY <1>13 DEF IsSnapshot
<1>15. IsGoal(goal)
  BY <1>7, <1>10, <1>11, <1>12, <1>14 DEF IsGoal
<1> QED
  BY <1>6, <1>15

\* A continuation is a plan of the next generation, from the state that was observed.
LEMMA ContinuationsAre ==
  ASSUME NEW prior, IsSteps(prior.steps), NEW r, IsReport(r), NEW base, IsInputs(base), NEW compensate,
         NEW p \in Continuations(prior, r, base, compensate)
  PROVE  /\ IsPlan(p) /\ p.id = prior.id /\ p.generation = prior.generation + 1
         /\ p.request.stamp = r.stamp
         /\ p.kind = "replan" /\ p.request.state = r.state /\ r.generation = prior.generation
<1>1. PICK q, c, toUndo, undone : /\ q = Rebased(base, r) /\ c = ContextOf(q)
                                  /\ toUndo = ToCompensate(prior, r, compensate) /\ undone = WrittenBy(toUndo)
  OBVIOUS
<1>2. IsInputs(q) /\ q.stamp = r.stamp /\ q.state = r.state
  BY <1>1, RebasedIs
<1>8. r.generation = prior.generation
  BY DEF Continuations, Fenced
<1>3. PICK found, plain :
        /\ plain \in Schedules(q)
        /\ found \in IF toUndo = {} THEN {plain} ELSE Compensated(q, plain, toUndo)
        /\ p = PlanOf(prior, q, "replan", found, undone, prior.origin)
  BY <1>1 DEF Continuations
<1>4. /\ Valid(q.state) /\ GenerationBound(q) /\ StateIsSafe(c, q.state)
      /\ IsSteps(plain) /\ Replay(c, q.state, plain).ok /\ Distinct(plain) /\ Bounded(c, plain, {})
      /\ Aims(q, plain, {})
  <2>1. IsSnapshot(q.state) /\ IsGoal(q.target.goal)
    BY <1>2 DEF IsInputs
  <2> QED
    BY <1>1, <1>3, <2>1, SchedulesAre
<1>5. /\ IsSteps(found) /\ Replay(c, q.state, found).ok /\ Distinct(found) /\ Bounded(c, found, undone)
      /\ Aims(q, found, undone)
  <2>1. CASE toUndo = {}
    <3>1. found = plain
      BY <1>3, <2>1
    <3> QED
      BY <1>4, <3>1 DEF Bounded, Aims
  <2>2. CASE toUndo # {}
    <3>1. PICK ops : ops = UNION {step.undo : step \in toUndo}
      OBVIOUS
    <3>2. Operations(ops) /\ \A o \in ops : Written(o) \in undone
      BY <1>1, <3>1, InversesAre
    <3>3. PICK inverses \in Sorted(ops) : found \in Fronted(q, plain, inverses)
      BY <1>3, <2>2, <3>1 DEF Compensated
    <3>4. inverses \in SetToSeqs(ops)
      BY <3>3 DEF Sorted
    <3>5. Len(inverses) \in Nat /\ \A i \in 1 .. Len(inverses) : inverses[i] \in ops /\ IsOperation(inverses[i])
      BY <3>2, <3>4, OrderOf
    <3>6. \A i \in 1 .. Len(inverses) : IsOperation(inverses[i]) /\ Written(inverses[i]) \in undone
      BY <3>2, <3>5
    <3>7. IsSnapshot(q.state)
      BY <1>2 DEF IsInputs
    <3> QED
      BY <1>1, <1>4, <3>3, <3>5, <3>6, <3>7, FrontedAre
  <2> QED
    BY <2>1, <2>2
<1>6. /\ p.id = prior.id /\ p.generation = prior.generation + 1 /\ p.request = q /\ p.steps = found
      /\ p.undone = undone /\ p.kind = "replan"
  BY <1>3 DEF PlanOf
<1>7. IsPlan(p)
  BY <1>1, <1>2, <1>4, <1>5, <1>6 DEF IsPlan
<1> QED
  BY <1>2, <1>6, <1>7, <1>8

\* So is a rollback.
LEMMA RollbacksAre ==
  ASSUME NEW prior, IsInputs(prior.request), NEW r, IsReport(r), NEW base, IsInputs(base),
         NEW p \in Rollbacks(prior, r, base)
  PROVE  /\ IsPlan(p) /\ p.id = prior.id /\ p.generation = prior.generation + 1
         /\ p.request.stamp = r.stamp
         /\ p.request.state = r.state /\ r.generation = prior.generation /\ p.origin = prior.request.state
<1>1. PICK near, goal, q, c :
        /\ near = Rebased(base, r)
        /\ goal = [goal |-> TargetFromState(base.state), revision |-> base.target.revision + 1, based |-> r.stamp]
        /\ q = [near EXCEPT !.target = goal] /\ c = ContextOf(q)
  OBVIOUS
<1>2. IsInputs(near) /\ near.stamp = r.stamp /\ near.state = r.state
  BY <1>1, RebasedIs
<1>9. r.generation = prior.generation /\ Bound(prior.request) = Bound(base)
  BY DEF Rollbacks, Fenced, DescribesOrigin
<1>10. base.state = prior.request.state
  <2>1. PICK x : x = prior.request /\ IsInputs(x) /\ Bound(x) = Bound(base)
    BY <1>9
  <2>2. Bound(x).state = x.state /\ Bound(base).state = base.state
    BY <2>1 DEF Bound, IsInputs
  <2> QED
    BY <2>1, <2>2
<1>3. IsGoal(TargetFromState(base.state))
  BY RestoringGoal DEF IsInputs
<1>4. /\ IsInputs(q) /\ q.stamp = r.stamp /\ q.state = r.state
      /\ q.target.goal = TargetFromState(base.state)
  <2>1. PICK state, stamp, evidence, rules, instant, target :
          near = [state |-> state, stamp |-> stamp, target |-> target, evidence |-> evidence, rules |-> rules,
                  instant |-> instant]
    BY <1>2 DEF IsInputs
  <2>2. q = [state |-> state, stamp |-> stamp, target |-> goal, evidence |-> evidence, rules |-> rules,
             instant |-> instant]
    BY <1>1, <2>1
  <2> QED
    BY <1>1, <1>2, <1>3, <2>1, <2>2 DEF IsInputs
<1>5. PICK found \in Schedules(q) : p = PlanOf(prior, q, "rollback", found, {}, prior.request.state)
  BY <1>1 DEF Rollbacks
<1>6. /\ Valid(q.state) /\ GenerationBound(q) /\ StateIsSafe(c, q.state)
      /\ IsSteps(found) /\ Replay(c, q.state, found).ok /\ Distinct(found) /\ Bounded(c, found, {})
      /\ Aims(q, found, {})
  <2>1. IsSnapshot(q.state) /\ IsGoal(q.target.goal)
    BY <1>4 DEF IsInputs
  <2> QED
    BY <1>1, <1>5, <2>1, SchedulesAre
<1>7. /\ p.id = prior.id /\ p.generation = prior.generation + 1 /\ p.request = q /\ p.steps = found
      /\ p.undone = {} /\ p.origin = prior.request.state
  BY <1>5 DEF PlanOf
<1>11. IsSnapshot(p.origin) /\ q.target.goal = TargetFromState(p.origin)
  BY <1>4, <1>7, <1>10 DEF IsInputs
<1>8. IsPlan(p)
  BY <1>1, <1>4, <1>6, <1>7, <1>11 DEF IsPlan
<1> QED
  BY <1>4, <1>7, <1>8, <1>9

-----------------------------------------------------------------------------
(* The invariant                                                           *)

Bounds == world.bounds

\* What is true in the fabric.
NowInv ==
  /\ world \in Worlds
  /\ IsInputs(now) /\ Valid(now.state)
  /\ IsInputs(first)
  /\ drifts \in 0 .. Bounds.drifts

\* What is true of the plan in force and its execution.
PlanInv ==
  /\ plan.generation \in 0 .. Bounds.generations
  /\ ~Planned => plan.generation = 0
  /\ Planned => /\ IsPlan(plan)
                /\ plan.request.stamp.topology <= now.stamp.topology
                /\ Len(run.outcomes) <= Len(plan.steps)

RunInv ==
  /\ run = [on |-> run.on, attempt |-> run.attempt, outcomes |-> run.outcomes]
  /\ run.attempt \in 0 .. Bounds.attempts
  /\ \E S : run.outcomes \in Seq(S)
  /\ ~Planned => run = Idle

ReportsInv ==
  \A r \in reports :
    /\ IsReport(r)
    /\ r.generation \in Int /\ r.generation <= plan.generation /\ r.stamp.topology <= now.stamp.topology

LifeInv == NowInv /\ PlanInv /\ RunInv /\ ReportsInv

\* The bounds of a world are numbers.
LEMMA LifeBounds ==
  ASSUME NowInv
  PROVE  /\ Bounds.generations \in Nat \ {0} /\ Bounds.attempts \in Nat /\ Bounds.drifts \in Nat
         /\ now.stamp.topology \in Nat
<1>1. Bounds \in [generations : Nat \ {0}, attempts : Nat, drifts : Nat]
  BY WorldAssumption DEF NowInv, Bounds
<1> QED
  BY <1>1 DEF NowInv, IsInputs, IsStamp

\* The invariant holds in the beginning.
LEMMA LifeInit == Init => LifeInv
<1> SUFFICES ASSUME Init PROVE LifeInv
  OBVIOUS
<1>1. world \in Worlds /\ now = world.now /\ first = world.now /\ plan = NoPlan /\ run = Idle /\ reports = {} /\ drifts = 0
  BY DEF Init
<1>2. IsInputs(world.now) /\ Valid(world.now.state) /\ Bounds \in [generations : Nat \ {0}, attempts : Nat, drifts : Nat]
  BY <1>1, WorldAssumption DEF Bounds
<1>3. NowInv
  BY <1>1, <1>2 DEF NowInv
<1>4. PlanInv
  BY <1>1, <1>2 DEF PlanInv, NoPlan, Planned
<1>5. RunInv
  <2>1. run.outcomes = <<>> /\ <<>> \in Seq({})
    BY <1>1 DEF Idle
  <2>2. \E S : run.outcomes \in Seq(S)
    BY <2>1
  <2> QED
    BY <1>1, <1>2, <2>2 DEF RunInv, Idle
<1>6. ReportsInv
  BY <1>1 DEF ReportsInv
<1> QED
  BY <1>3, <1>4, <1>5, <1>6 DEF LifeInv

\* An operation that applies leaves inputs, with a topology generation more.
LEMMA PerformedIs ==
  ASSUME NEW c, IsInputs(now), NEW o, IsOperation(o), Applies(c, now.state, o)
  PROVE  /\ IsInputs(NowPerformed(o)) /\ Valid(NowPerformed(o).state)
         /\ NowPerformed(o).evidence = now.evidence
         /\ NowPerformed(o).stamp.topology = now.stamp.topology + 1
<1>1. PICK state, stamp, target, evidence, rules, instant, new :
        /\ now = [state |-> state, stamp |-> stamp, target |-> target, evidence |-> evidence,
                  rules |-> rules, instant |-> instant]
        /\ new = Changed(state, o)
  BY DEF IsInputs
<1>2. IsSnapshot(new) /\ Valid(new)
  <2>1. IsSnapshot(state) /\ Possible(c, state, o) /\ Valid(new)
    BY <1>1 DEF IsInputs, Applies
  <2> QED
    BY <1>1, <2>1, SnapshotKept
<1>3. PICK t : t = [stamp EXCEPT !.topology = @ + 1]
  OBVIOUS
<1>4. IsStamp(t) /\ t.topology = now.stamp.topology + 1
  BY <1>1, <1>3 DEF IsStamp, IsInputs
<1>5. NowPerformed(o) = [state |-> new, stamp |-> t, target |-> target, evidence |-> evidence,
                         rules |-> rules, instant |-> instant]
  <2>1. PICK mid : mid = [state |-> new, stamp |-> stamp, target |-> target, evidence |-> evidence,
                          rules |-> rules, instant |-> instant]
    OBVIOUS
  <2>2. mid = [now EXCEPT !.state = Changed(@, o)]
    BY <1>1, <2>1
  <2>3. NowPerformed(o) = [mid EXCEPT !.stamp.topology = @ + 1]
    BY <2>2 DEF NowPerformed
  <2>4. [mid EXCEPT !.stamp.topology = @ + 1] = [mid EXCEPT !.stamp = t]
    BY <1>3, <2>1
  <2> QED
    BY <2>1, <2>3, <2>4
<1>6. PICK q : q = NowPerformed(o)
  OBVIOUS
<1>7. /\ q = [state |-> new, stamp |-> t, target |-> target, evidence |-> evidence, rules |-> rules, instant |-> instant]
      /\ IsRules(rules) /\ target = [goal |-> target.goal, revision |-> target.revision, based |-> target.based]
      /\ IsGoal(target.goal)
      /\ evidence = [caps |-> evidence.caps, version |-> evidence.version, based |-> evidence.based]
  BY <1>1, <1>5, <1>6 DEF IsInputs
<1>8. IsInputs(q) /\ Valid(q.state) /\ q.evidence = now.evidence /\ q.stamp.topology = now.stamp.topology + 1
  BY <1>1, <1>2, <1>4, <1>7 DEF IsInputs
<1> QED
  BY <1>6, <1>8

\* What others change leaves inputs in force.
LEMMA DriftKeeps ==
  ASSUME LifeInv, NEW new, Drift(new), IsInputs(new), Valid(new.state),
         new.stamp.topology >= now.stamp.topology
  PROVE  LifeInv'
<1>1. /\ drifts < Bounds.drifts /\ now' = new /\ drifts' = drifts + 1
      /\ UNCHANGED <<world, first, plan, run, reports>>
  BY DEF Drift, Bounds
<1>2. NowInv /\ PlanInv /\ RunInv /\ ReportsInv
  BY DEF LifeInv
<1>3. Bounds' = Bounds /\ Bounds.drifts \in Nat /\ Planned' = Planned /\ now.stamp.topology \in Nat
  BY <1>1, <1>2, LifeBounds DEF Bounds, Planned
<1>4. new.stamp.topology \in Nat
  BY DEF IsInputs, IsStamp
<1>5. NowInv'
  BY <1>1, <1>2, <1>3 DEF NowInv
<1>6. PlanInv'
  <2>1. Planned => plan.request.stamp.topology <= new.stamp.topology
    <3>1. Planned => plan.request.stamp.topology \in Nat
      BY <1>2 DEF PlanInv, IsPlan, IsInputs, IsStamp
    <3> QED
      BY <1>2, <1>3, <1>4, <3>1 DEF PlanInv
  <2> QED
    BY <1>1, <1>2, <1>3, <2>1 DEF PlanInv
<1>7. RunInv'
  BY <1>1, <1>2, <1>3 DEF RunInv
<1>8. ReportsInv'
  <2>1. ASSUME NEW r \in reports PROVE r.stamp.topology <= new.stamp.topology
    <3>1. r.stamp.topology \in Nat
      BY <1>2 DEF ReportsInv, IsReport, IsStamp
    <3> QED
      BY <1>2, <1>3, <1>4, <3>1 DEF ReportsInv
  <2> QED
    BY <1>1, <1>2, <2>1 DEF ReportsInv
<1> QED
  BY <1>5, <1>6, <1>7, <1>8 DEF LifeInv

\* An operation of another keeps the invariant,
LEMMA FabricDriftsKeeps == LifeInv /\ FabricDrifts => LifeInv'
<1> SUFFICES ASSUME LifeInv, FabricDrifts PROVE LifeInv'
  OBVIOUS
<1>1. PICK o \in world.changes : Applies(ContextOf(now), now.state, o) /\ Drift(NowPerformed(o))
  BY DEF FabricDrifts
<1>2. NowInv /\ IsInputs(now) /\ world \in Worlds
  BY DEF LifeInv, NowInv
<1>3. IsOperation(o)
  BY <1>1, <1>2, WorldAssumption
<1>4. PICK new : new = NowPerformed(o)
  OBVIOUS
<1>5. /\ IsInputs(new) /\ Valid(new.state) /\ new.evidence = now.evidence
      /\ new.stamp.topology = now.stamp.topology + 1
  BY <1>1, <1>2, <1>3, <1>4, PerformedIs
<1>6. now.stamp.topology \in Nat
  BY <1>2, LifeBounds
<1>7. new.stamp.topology >= now.stamp.topology
  BY <1>5, <1>6
<1> QED
  BY <1>1, <1>4, <1>5, <1>7, DriftKeeps

\* The parts of inputs.
Inputs6(state, stamp, target, evidence, rules, instant) ==
  [state |-> state, stamp |-> stamp, target |-> target, evidence |-> evidence, rules |-> rules, instant |-> instant]

\* What inputs are, part by part.
LEMMA InputsParts ==
  ASSUME NEW q
  PROVE  IsInputs(q) <=>
           /\ q = Inputs6(q.state, q.stamp, q.target, q.evidence, q.rules, q.instant)
           /\ IsSnapshot(q.state) /\ IsStamp(q.stamp) /\ IsRules(q.rules)
           /\ q.target = [goal |-> q.target.goal, revision |-> q.target.revision, based |-> q.target.based]
           /\ IsGoal(q.target.goal)
           /\ q.evidence = [caps |-> q.evidence.caps, version |-> q.evidence.version, based |-> q.evidence.based]
  BY Zenon DEF IsInputs, Inputs6

\* The authority's moves keep the invariant,
LEMMA AuthorityMovesKeeps == LifeInv /\ AuthorityMoves => LifeInv'
<1> SUFFICES ASSUME LifeInv, AuthorityMoves PROVE LifeInv'
  OBVIOUS
<1>1. PICK field \in {"authority", "incarnation", "epoch"} : Drift([now EXCEPT !.stamp[field] = @ + 1])
  BY DEF AuthorityMoves
<1>2. NowInv /\ IsInputs(now) /\ Valid(now.state) /\ now.stamp.topology \in Nat
  BY LifeBounds DEF LifeInv, NowInv
<1>3. PICK new, stamp : new = [now EXCEPT !.stamp[field] = @ + 1] /\ stamp = [now.stamp EXCEPT ![field] = @ + 1]
  OBVIOUS
<1>4. new = Inputs6(now.state, stamp, now.target, now.evidence, now.rules, now.instant)
  <2>1. now = Inputs6(now.state, now.stamp, now.target, now.evidence, now.rules, now.instant)
    BY <1>2, InputsParts
  <2>2. new = [now EXCEPT !.stamp = stamp]
    BY <1>3
  <2> QED
    BY <2>1, <2>2 DEF Inputs6
<1>5. IsStamp(stamp) /\ stamp.topology = now.stamp.topology
  BY <1>2, <1>3 DEF IsInputs, IsStamp
<1>6. /\ new.state = now.state /\ new.stamp = stamp /\ new.target = now.target /\ new.evidence = now.evidence
      /\ new.rules = now.rules /\ new.instant = now.instant
  BY <1>4 DEF Inputs6
<1>7. IsInputs(new)
  BY <1>2, <1>4, <1>5, <1>6, InputsParts
<1>8. Valid(new.state) /\ new.stamp.topology >= now.stamp.topology
  BY <1>2, <1>5, <1>6
<1> QED
  BY <1>1, <1>3, <1>7, <1>8, DriftKeeps

\* so do a new target and new evidence,
LEMMA ReissueKeeps == LifeInv /\ Reissue => LifeInv'
<1> SUFFICES ASSUME LifeInv, Reissue PROVE LifeInv'
  OBVIOUS
<1>1. PICK target \in {now.target} \cup NewTargets, evidence \in {now.evidence} \cup NewEvidence :
        Drift([now EXCEPT !.target = target, !.evidence = evidence])
  BY Zenon DEF Reissue
<1>2. NowInv /\ IsInputs(now) /\ Valid(now.state) /\ now.stamp.topology \in Nat /\ world \in Worlds
  BY LifeBounds DEF LifeInv, NowInv
<1>3. PICK new : new = [now EXCEPT !.target = target, !.evidence = evidence] /\ Drift(new)
  BY <1>1
<1>4. new = Inputs6(now.state, now.stamp, target, evidence, now.rules, now.instant)
  BY <1>2, <1>3, InputsParts DEF Inputs6
<1>5. target = [goal |-> target.goal, revision |-> target.revision, based |-> target.based] /\ IsGoal(target.goal)
  <2>1. \A goal \in world.goals : IsGoal(goal)
    BY <1>2, WorldAssumption
  <2>2. CASE target = now.target
    BY <1>2, <2>2, InputsParts
  <2>3. CASE target \in NewTargets
    BY <2>1, <2>3 DEF NewTargets
  <2> QED
    BY <2>2, <2>3
<1>6. evidence = [caps |-> evidence.caps, version |-> evidence.version, based |-> evidence.based]
  <2>1. CASE evidence = now.evidence
    BY <1>2, <2>1, InputsParts
  <2>2. CASE evidence \in NewEvidence
    BY <2>2 DEF NewEvidence
  <2> QED
    BY <2>1, <2>2
<1>7. /\ new.state = now.state /\ new.stamp = now.stamp /\ new.target = target /\ new.evidence = evidence
      /\ new.rules = now.rules /\ new.instant = now.instant
  BY <1>4 DEF Inputs6
<1>8. IsInputs(new)
  BY <1>2, <1>4, <1>5, <1>6, <1>7, InputsParts
<1>9. Valid(new.state) /\ new.stamp.topology >= now.stamp.topology
  BY <1>2, <1>7
<1> QED
  BY <1>3, <1>8, <1>9, DriftKeeps

\* so do other rules,
LEMMA RulesChangeKeeps == LifeInv /\ RulesChange => LifeInv'
<1> SUFFICES ASSUME LifeInv, RulesChange PROVE LifeInv'
  OBVIOUS
<1>0. PICK rules \in world.rules : Drift([now EXCEPT !.rules = rules])
  BY DEF RulesChange
<1>1. PICK new : new = [now EXCEPT !.rules = rules] /\ Drift(new)
  BY <1>0
<1>2. NowInv /\ IsInputs(now) /\ Valid(now.state) /\ now.stamp.topology \in Nat /\ world \in Worlds
  BY LifeBounds DEF LifeInv, NowInv
<1>3. now = Inputs6(now.state, now.stamp, now.target, now.evidence, now.rules, now.instant)
  BY <1>2, InputsParts
<1>4. new = Inputs6(now.state, now.stamp, now.target, now.evidence, rules, now.instant)
  BY <1>1, <1>3 DEF Inputs6
<1>5. IsRules(rules)
  BY <1>1, <1>2, WorldAssumption
<1>6. /\ new.state = now.state /\ new.stamp = now.stamp /\ new.target = now.target /\ new.evidence = now.evidence
      /\ new.rules = rules /\ new.instant = now.instant
  BY <1>4 DEF Inputs6
<1>7. IsInputs(new)
  BY <1>2, <1>4, <1>5, <1>6, InputsParts
<1>8. Valid(new.state) /\ new.stamp.topology >= now.stamp.topology
  BY <1>2, <1>6
<1> QED
  BY <1>1, <1>7, <1>8, DriftKeeps

\* and so does time.
LEMMA TimePassesKeeps == LifeInv /\ TimePasses => LifeInv'
<1> SUFFICES ASSUME LifeInv, TimePasses PROVE LifeInv'
  OBVIOUS
<1>1. PICK new, instant : new = [now EXCEPT !.instant = instant] /\ Drift(new)
  BY DEF TimePasses
<1>2. NowInv /\ IsInputs(now) /\ Valid(now.state) /\ now.stamp.topology \in Nat
  BY LifeBounds DEF LifeInv, NowInv
<1>3. now = Inputs6(now.state, now.stamp, now.target, now.evidence, now.rules, now.instant)
  BY <1>2, InputsParts
<1>4. new = Inputs6(now.state, now.stamp, now.target, now.evidence, now.rules, instant)
  BY <1>1, <1>3 DEF Inputs6
<1>6. /\ new.state = now.state /\ new.stamp = now.stamp /\ new.target = now.target /\ new.evidence = now.evidence
      /\ new.rules = now.rules /\ new.instant = instant
  BY <1>4 DEF Inputs6
<1>7. IsInputs(new)
  BY <1>2, <1>4, <1>6, InputsParts
<1>8. Valid(new.state) /\ new.stamp.topology >= now.stamp.topology
  BY <1>2, <1>6
<1> QED
  BY <1>1, <1>7, <1>8, DriftKeeps

-----------------------------------------------------------------------------
(* The planner and the executor                                            *)

\* A first plan is one, from the inputs as they are.
LEMMA GenerateKeeps == LifeInv /\ Generate => LifeInv'
<1> SUFFICES ASSUME LifeInv, Generate PROVE LifeInv'
  OBVIOUS
<1>1. /\ ~Planned /\ first' = now /\ UNCHANGED <<world, now, reports, drifts>>
      /\ \E steps \in Schedules(now) :
           Install(PlanOf([id |-> 1, generation |-> 0], now, "initial", steps, {}, now.state))
  BY DEF Generate
<1>2. PICK steps \in Schedules(now) :
        Install(PlanOf([id |-> 1, generation |-> 0], now, "initial", steps, {}, now.state))
  BY <1>1
<1>3. PICK p : p = PlanOf([id |-> 1, generation |-> 0], now, "initial", steps, {}, now.state) /\ Install(p)
  BY <1>2
<1>4. plan' = p /\ run' = Idle
  BY <1>3 DEF Install
<1>5. p.id = 1 /\ p.generation = 1 /\ p.request = now /\ p.steps = steps /\ p.undone = {} /\ p.kind = "initial"
  BY <1>3 DEF PlanOf
<1>6. NowInv /\ PlanInv /\ RunInv /\ ReportsInv
  BY DEF LifeInv
<1>7. IsInputs(now) /\ Valid(now.state)
  BY <1>6 DEF NowInv
<1>8. IsPlan(p)
  <2>1. IsSnapshot(now.state) /\ IsGoal(now.target.goal)
    BY <1>7 DEF IsInputs
  <2>2. /\ GenerationBound(now) /\ StateIsSafe(ContextOf(now), now.state)
        /\ IsSteps(steps) /\ Replay(ContextOf(now), now.state, steps).ok /\ Distinct(steps)
        /\ Bounded(ContextOf(now), steps, {}) /\ Aims(now, steps, {})
    BY <1>2, <2>1, SchedulesAre
  <2> QED
    BY <1>5, <1>7, <2>2 DEF IsPlan
<1>9. Bounds' = Bounds /\ Bounds.generations \in Nat \ {0} /\ Bounds.attempts \in Nat /\ now.stamp.topology \in Nat
  BY <1>1, <1>6, LifeBounds DEF Bounds
<1>10. NowInv'
  BY <1>1, <1>6, <1>9 DEF NowInv
<1>11. run'.outcomes = <<>> /\ run'.attempt = 0 /\ Len(run'.outcomes) = 0
  BY <1>4 DEF Idle
<1>12. PlanInv'
  <2>1. Len(p.steps) \in Nat
    BY <1>8, StepsAre DEF IsPlan
  <2> QED
    BY <1>1, <1>4, <1>5, <1>7, <1>8, <1>9, <1>11, <2>1 DEF PlanInv, Planned
<1>13. RunInv'
  <2>1. \E S : run'.outcomes \in Seq(S)
    BY <1>11, EmptySeq
  <2> QED
    BY <1>4, <1>9, <1>11, <2>1 DEF RunInv, Idle
<1>14. ReportsInv'
  <2>1. plan.generation = 0
    BY <1>1, <1>6 DEF PlanInv
  <2>2. ASSUME NEW r \in reports
        PROVE  IsReport(r) /\ r.generation \in Int /\ r.generation <= plan.generation /\ r.stamp.topology <= now.stamp.topology
    BY <1>6 DEF ReportsInv
  <2> QED
    BY <1>1, <1>4, <1>5, <2>1, <2>2 DEF ReportsInv
<1> QED
  BY <1>10, <1>12, <1>13, <1>14 DEF LifeInv

\* A later plan takes the place of the one in force, and its target that of the inputs.
LEMMA AdoptKeeps ==
  ASSUME LifeInv, Planned, plan.generation < Bounds.generations, NEW p, Adopt(p), NEW r \in reports,
         IsPlan(p), p.id = plan.id, p.generation = plan.generation + 1, p.request.stamp = r.stamp
  PROVE  LifeInv'
<1>1. /\ plan' = p /\ run' = Idle /\ now' = [now EXCEPT !.target = p.request.target]
      /\ UNCHANGED <<world, first, reports, drifts>>
  BY DEF Adopt, Install
<1>2. NowInv /\ PlanInv /\ RunInv /\ ReportsInv
  BY DEF LifeInv
<1>3. IsInputs(now) /\ Valid(now.state) /\ IsInputs(p.request)
  BY <1>2 DEF NowInv, IsPlan
<1>4. PICK new, target : new = now' /\ target = p.request.target
  OBVIOUS
<1>5. new = Inputs6(now.state, now.stamp, target, now.evidence, now.rules, now.instant)
  <2>1. now = Inputs6(now.state, now.stamp, now.target, now.evidence, now.rules, now.instant)
    BY <1>3, InputsParts
  <2> QED
    BY <1>1, <1>4, <2>1 DEF Inputs6
<1>6. /\ new.state = now.state /\ new.stamp = now.stamp /\ new.target = target /\ new.evidence = now.evidence
      /\ new.rules = now.rules /\ new.instant = now.instant
  BY <1>5 DEF Inputs6
<1>7. IsInputs(new)
  <2>1. target = [goal |-> target.goal, revision |-> target.revision, based |-> target.based] /\ IsGoal(target.goal)
    BY <1>3, <1>4, InputsParts
  <2> QED
    BY <1>3, <1>5, <1>6, <2>1, InputsParts
<1>8. Bounds' = Bounds /\ Bounds.generations \in Nat \ {0} /\ Bounds.attempts \in Nat /\ now.stamp.topology \in Nat
  BY <1>1, <1>2, LifeBounds DEF Bounds
<1>9. NowInv'
  BY <1>1, <1>2, <1>4, <1>6, <1>7, <1>8 DEF NowInv
<1>10. run'.outcomes = <<>> /\ run'.attempt = 0 /\ Len(run'.outcomes) = 0
  BY <1>1 DEF Idle
<1>11. plan.generation \in 0 .. Bounds.generations /\ p.id # 0
  BY <1>2 DEF PlanInv, Planned
<1>12. PlanInv'
  <2>1. Len(p.steps) \in Nat
    BY StepsAre DEF IsPlan
  <2>2. p.request.stamp.topology <= now.stamp.topology
    BY <1>2 DEF ReportsInv
  <2> QED
    BY <1>1, <1>4, <1>6, <1>8, <1>10, <1>11, <2>1, <2>2 DEF PlanInv, Planned
<1>13. RunInv'
  <2>1. \E S : run'.outcomes \in Seq(S)
    BY <1>10, EmptySeq
  <2> QED
    BY <1>1, <1>8, <1>10, <2>1 DEF RunInv, Idle
<1>14. ReportsInv'
  <2>1. ASSUME NEW x \in reports
        PROVE  /\ IsReport(x) /\ x.generation \in Int /\ x.generation <= p.generation
               /\ x.stamp.topology <= new.stamp.topology
    BY <1>2, <1>6, <1>8, <1>11 DEF ReportsInv
  <2> QED
    BY <1>1, <1>4, <2>1 DEF ReportsInv
<1> QED
  BY <1>9, <1>12, <1>13, <1>14 DEF LifeInv

\* What a base and a report are when a new plan is made.
LEMMA BasesAre ==
  ASSUME LifeInv, Planned, NEW base \in Bases
  PROVE  IsInputs(base)
  BY DEF LifeInv, NowInv, PlanInv, Bases, IsPlan

\* A continuation keeps the invariant,
LEMMA ContinueKeeps == LifeInv /\ Continue => LifeInv'
<1> SUFFICES ASSUME LifeInv, Continue PROVE LifeInv'
  OBVIOUS
<1>1. /\ Planned /\ plan.generation < Bounds.generations
      /\ \E r \in reports, base \in Bases, compensate \in world.compensate :
           \E p \in Continuations(plan, r, base, compensate) : Adopt(p)
  BY DEF Continue, Bounds
<1>2. PICK r \in reports, base \in Bases, compensate \in world.compensate :
        \E p \in Continuations(plan, r, base, compensate) : Adopt(p)
  BY <1>1
<1>3. PICK p \in Continuations(plan, r, base, compensate) : Adopt(p)
  BY <1>2
<1>4. IsInputs(base)
  BY <1>1, BasesAre
<1>5. IsSteps(plan.steps) /\ IsReport(r)
  BY <1>1 DEF LifeInv, PlanInv, ReportsInv, IsPlan
<1>6. /\ IsPlan(p) /\ p.id = plan.id /\ p.generation = plan.generation + 1
      /\ p.request.stamp = r.stamp
  BY <1>4, <1>5, ContinuationsAre
<1> QED
  BY <1>1, <1>3, <1>4, <1>6, AdoptKeeps

\* and so does a rollback.
LEMMA RollBackKeeps == LifeInv /\ RollBack => LifeInv'
<1> SUFFICES ASSUME LifeInv, RollBack PROVE LifeInv'
  OBVIOUS
<1>1. /\ Planned /\ plan.generation < Bounds.generations
      /\ \E r \in reports, base \in Bases : \E p \in Rollbacks(plan, r, base) : Adopt(p)
  BY DEF RollBack, Bounds
<1>2. PICK r \in reports, base \in Bases : \E p \in Rollbacks(plan, r, base) : Adopt(p)
  BY <1>1
<1>3. PICK p \in Rollbacks(plan, r, base) : Adopt(p)
  BY <1>2
<1>4. IsInputs(base)
  BY <1>1, BasesAre
<1>5. IsReport(r) /\ IsInputs(plan.request)
  BY <1>1 DEF LifeInv, ReportsInv, PlanInv, IsPlan
<1>6. /\ IsPlan(p) /\ p.id = plan.id /\ p.generation = plan.generation + 1
      /\ p.request.stamp = r.stamp
  BY <1>4, <1>5, RollbacksAre
<1> QED
  BY <1>1, <1>3, <1>4, <1>6, AdoptKeeps

\* Beginning an attempt and writing one down touch neither plan nor fabric.
LEMMA BeginKeeps == LifeInv /\ Begin => LifeInv'
<1> SUFFICES ASSUME LifeInv, Begin PROVE LifeInv'
  OBVIOUS
<1>1. /\ run.attempt < Bounds.attempts /\ Planned
      /\ run' = [on |-> TRUE, attempt |-> run.attempt + 1, outcomes |-> <<>>]
      /\ UNCHANGED <<world, now, first, plan, reports, drifts>>
  BY DEF Begin, Validated, Bounds
<1>2. NowInv /\ PlanInv /\ RunInv /\ ReportsInv
  BY DEF LifeInv
<1>3. Bounds' = Bounds /\ Bounds.attempts \in Nat /\ Planned' = Planned
  BY <1>1, <1>2, LifeBounds DEF Bounds, Planned
<1>4. NowInv' /\ ReportsInv'
  BY <1>1, <1>2, <1>3 DEF NowInv, ReportsInv
<1>5. run'.outcomes = <<>> /\ Len(run'.outcomes) = 0 /\ run'.on = TRUE /\ run'.attempt = run.attempt + 1
  BY <1>1
<1>6. PlanInv'
  <2>1. Len(plan.steps) \in Nat
    BY <1>1, <1>2, StepsAre DEF IsPlan, PlanInv
  <2> QED
    BY <1>1, <1>2, <1>3, <1>5, <2>1 DEF PlanInv
<1>7. RunInv'
  <2>1. \E S : run'.outcomes \in Seq(S)
    BY <1>5, EmptySeq
  <2> QED
    BY <1>1, <1>2, <1>3, <1>5, <2>1 DEF RunInv
<1> QED
  BY <1>4, <1>6, <1>7 DEF LifeInv

\* A report is never ahead of the fabric, and keeps the invariant.
LEMMA ReportKeeps == LifeInv /\ Report => LifeInv'
<1> SUFFICES ASSUME LifeInv, Report PROVE LifeInv'
  OBVIOUS
<1>1. PICK r :
        /\ r = [plan |-> plan.id, generation |-> plan.generation, attempt |-> run.attempt,
                stamp |-> now.stamp, state |-> now.state,
                outcomes |-> {<<plan.steps[i].op, run.outcomes[i]>> : i \in DOMAIN run.outcomes}]
        /\ run.on /\ reports' = reports \cup {r}
        /\ run' = [run EXCEPT !.on = FALSE, !.outcomes = <<>>]
        /\ UNCHANGED <<world, now, first, plan, drifts>>
  BY DEF Report
<1>2. NowInv /\ PlanInv /\ RunInv /\ ReportsInv
  BY DEF LifeInv
<1>3. Planned
  BY <1>1, <1>2 DEF RunInv, Idle
<1>4. Bounds' = Bounds /\ Bounds.attempts \in Nat /\ Planned' /\ now.stamp.topology \in Nat
      /\ Bounds.generations \in Nat
  BY <1>1, <1>2, <1>3, LifeBounds DEF Bounds, Planned
<1>5. NowInv'
  BY <1>1, <1>2, <1>4 DEF NowInv
<1>6. run' = [on |-> FALSE, attempt |-> run.attempt, outcomes |-> <<>>]
  BY <1>1, <1>2 DEF RunInv
<1>7. run'.outcomes = <<>> /\ Len(run'.outcomes) = 0 /\ run'.on = FALSE /\ run'.attempt = run.attempt
  BY <1>6
<1>8. PlanInv'
  <2>1. Len(plan.steps) \in Nat
    BY <1>3, <1>2, StepsAre DEF IsPlan, PlanInv
  <2> QED
    BY <1>1, <1>2, <1>3, <1>4, <1>7, <2>1 DEF PlanInv
<1>9. RunInv'
  <2>1. \E S : run'.outcomes \in Seq(S)
    BY <1>7, EmptySeq
  <2> QED
    BY <1>2, <1>4, <1>6, <1>7, <2>1 DEF RunInv
<1>10. ReportsInv'
  <2>1. IsStamp(now.stamp) /\ IsSnapshot(now.state)
    BY <1>2 DEF NowInv, IsInputs
  <2>2. r.stamp = now.stamp /\ r.state = now.state /\ r.generation = plan.generation
    BY <1>1
  <2>3. IsReport(r)
    BY <2>1, <2>2 DEF IsReport
  <2>4. r.generation \in Int /\ r.generation <= plan.generation /\ r.stamp.topology <= now.stamp.topology
    BY <1>2, <1>4, <2>2 DEF PlanInv
  <2> QED
    BY <1>1, <1>2, <2>3, <2>4 DEF ReportsInv
<1> QED
  BY <1>5, <1>8, <1>9, <1>10 DEF LifeInv

\* An outcome of the next step is noted, and what it did is in the fabric or is not.
LEMMA NotedKeeps ==
  ASSUME LifeInv, Pending, NEW outcome, run' = Noted(outcome),
         now' = now \/ (Accepts(ContextOf(now), now.state, NextStep) /\ now' = NowPerformed(NextStep.op)),
         UNCHANGED <<world, first, plan, reports, drifts>>
  PROVE  LifeInv'
<1>1. NowInv /\ PlanInv /\ RunInv /\ ReportsInv
  BY DEF LifeInv
<1>2. Planned /\ IsPlan(plan) /\ run.on /\ Len(run.outcomes) < Len(plan.steps)
  BY <1>1 DEF RunInv, Idle, Pending, PlanInv
<1>3. PICK S : run.outcomes \in Seq(S)
  BY <1>1 DEF RunInv
<1>4. PICK noted, n : noted = Append(run.outcomes, outcome) /\ n = Len(run.outcomes)
  OBVIOUS
<1>5. n \in Nat /\ (\E T : noted \in Seq(T)) /\ Len(noted) = n + 1
  <2>1. PICK T : T = S \cup {outcome}
    OBVIOUS
  <2>2. run.outcomes \in Seq(T)
    BY <1>3, <2>1, SeqMonotonic
  <2>3. noted \in Seq(T) /\ Len(noted) = n + 1
    BY <1>4, <2>1, <2>2, AppendProperties
  <2> QED
    BY <1>4, <2>2, <2>3, LenProperties
<1>6. run' = [on |-> run.on, attempt |-> run.attempt, outcomes |-> noted]
  BY <1>1, <1>4 DEF Noted, RunInv
<1>7. run'.on = run.on /\ run'.attempt = run.attempt /\ run'.outcomes = noted
  BY <1>6
<1>8. Bounds' = Bounds /\ Bounds.attempts \in Nat /\ Planned' /\ now.stamp.topology \in Nat
      /\ Bounds.generations \in Nat
  BY <1>1, <1>2, LifeBounds DEF Bounds, Planned
<1>9. IsInputs(now) /\ Valid(now.state)
  BY <1>1 DEF NowInv
<1>10. PICK new : new = now'
  OBVIOUS
<1>11. /\ IsInputs(new) /\ Valid(new.state) /\ new.evidence = now.evidence
       /\ new.stamp.topology \in Nat /\ new.stamp.topology >= now.stamp.topology
  <2>1. CASE now' = now
    BY <1>8, <1>9, <1>10, <2>1
  <2>2. CASE Accepts(ContextOf(now), now.state, NextStep) /\ now' = NowPerformed(NextStep.op)
    <3>1. PICK o : o = NextStep.op
      OBVIOUS
    <3>2. IsOperation(o)
      <4>1. Len(plan.steps) \in Nat /\ \A i \in 1 .. Len(plan.steps) : IsStep(plan.steps[i])
        BY <1>2, StepsAre DEF IsPlan
      <4>2. n + 1 \in 1 .. Len(plan.steps)
        BY <1>2, <1>4, <1>5, <4>1
      <4> QED
        BY <1>4, <3>1, <4>1, <4>2 DEF NextStep, IsStep
    <3>3. Applies(ContextOf(now), now.state, o)
      BY <2>2, <3>1, Zenon DEF Accepts
    <3>4. new = NowPerformed(o)
      BY <1>10, <2>2, <3>1
    <3>5. /\ IsInputs(new) /\ Valid(new.state) /\ new.evidence = now.evidence
          /\ new.stamp.topology = now.stamp.topology + 1
      BY <1>9, <3>2, <3>3, <3>4, PerformedIs
    <3> QED
      BY <1>8, <3>5
  <2> QED
    BY <2>1, <2>2
<1>12. NowInv'
  BY <1>1, <1>8, <1>10, <1>11 DEF NowInv
<1>13. PlanInv'
  <2>1. Len(plan.steps) \in Nat
    BY <1>2, StepsAre DEF IsPlan
  <2>2. plan.request.stamp.topology \in Nat
    BY <1>2 DEF IsPlan, IsInputs, IsStamp
  <2>3. plan.request.stamp.topology <= new.stamp.topology
    BY <1>1, <1>2, <1>8, <1>11, <2>2 DEF PlanInv
  <2>4. Len(noted) <= Len(plan.steps)
    BY <1>2, <1>4, <1>5, <2>1
  <2> QED
    BY <1>1, <1>2, <1>7, <1>8, <1>10, <2>3, <2>4 DEF PlanInv
<1>14. RunInv'
  BY <1>1, <1>5, <1>6, <1>7, <1>8 DEF RunInv
<1>15. ReportsInv'
  <2>1. ASSUME NEW r \in reports PROVE r.stamp.topology <= new.stamp.topology
    <3>1. r.stamp.topology \in Nat
      BY <1>1 DEF ReportsInv, IsReport, IsStamp
    <3> QED
      BY <1>1, <1>8, <1>11, <3>1 DEF ReportsInv
  <2> QED
    BY <1>1, <1>10, <2>1 DEF ReportsInv
<1> QED
  BY <1>12, <1>13, <1>14, <1>15 DEF LifeInv

\* A step that succeeds keeps the invariant,
LEMMA PerformKeeps == LifeInv /\ Perform => LifeInv'
  BY NotedKeeps DEF Perform

\* and so does one that goes wrong.
LEMMA StumbleKeeps == LifeInv /\ Stumble => LifeInv'
<1> SUFFICES ASSUME LifeInv, Stumble PROVE LifeInv'
  OBVIOUS
<1>1. PICK outcome :
        /\ run' = Noted(outcome)
        /\ now' = now \/ (Accepts(ContextOf(now), now.state, NextStep) /\ now' = NowPerformed(NextStep.op))
  BY DEF Stumble
<1>2. Pending /\ UNCHANGED <<world, first, plan, reports, drifts>>
  BY DEF Stumble
<1> QED
  BY <1>1, <1>2, NotedKeeps

\* Every step keeps the invariant.
LEMMA LifeStep == LifeInv /\ [Next]_vars => LifeInv'
<1> SUFFICES ASSUME LifeInv, [Next]_vars PROVE LifeInv'
  OBVIOUS
<1>1. CASE Generate
  BY <1>1, GenerateKeeps
<1>2. CASE Continue
  BY <1>2, ContinueKeeps
<1>3. CASE RollBack
  BY <1>3, RollBackKeeps
<1>4. CASE Begin
  BY <1>4, BeginKeeps
<1>5. CASE Perform
  BY <1>5, PerformKeeps
<1>6. CASE Stumble
  BY <1>6, StumbleKeeps
<1>7. CASE Report
  BY <1>7, ReportKeeps
<1>8. CASE FabricDrifts
  BY <1>8, FabricDriftsKeeps
<1>9. CASE AuthorityMoves
  BY <1>9, AuthorityMovesKeeps
<1>10. CASE Reissue
  BY <1>10, ReissueKeeps
<1>11. CASE RulesChange
  BY <1>11, RulesChangeKeeps
<1>12. CASE TimePasses
  BY <1>12, TimePassesKeeps
<1>13. CASE UNCHANGED vars
  BY <1>13 DEF vars, LifeInv, NowInv, PlanInv, RunInv, ReportsInv, Bounds, Planned
<1> QED
  BY <1>1, <1>2, <1>3, <1>4, <1>5, <1>6, <1>7, <1>8, <1>9, <1>10, <1>11, <1>12, <1>13 DEF Next


-----------------------------------------------------------------------------
(* What follows                                                            *)

\* The invariant holds in every behaviour.
LEMMA LifeReached == Spec => []LifeInv
  BY LifeInit, LifeStep, PTL DEF Spec

\* The invariant implies the type invariant.
LEMMA LifeTyped == LifeInv => TypeOK
<1> SUFFICES ASSUME LifeInv PROVE TypeOK
  OBVIOUS
<1>1. NowInv /\ PlanInv /\ RunInv /\ ReportsInv
  BY DEF LifeInv
<1>2. /\ plan.generation \in 0 .. world.bounds.generations
      /\ run.attempt \in 0 .. world.bounds.attempts /\ drifts \in 0 .. world.bounds.drifts
      /\ \A r \in reports : r.generation <= plan.generation /\ r.stamp.topology <= now.stamp.topology
  BY <1>1 DEF NowInv, PlanInv, RunInv, ReportsInv, Bounds
<1>3. ASSUME Planned
      PROVE  /\ Valid(plan.request.state) /\ StateIsSafe(ContextOf(plan.request), plan.request.state)
             /\ GenerationBound(plan.request)
             /\ plan.request.stamp.topology <= now.stamp.topology
             /\ Len(run.outcomes) <= Len(plan.steps)
             /\ \A i, j \in DOMAIN plan.steps : plan.steps[i].op = plan.steps[j].op => i = j
             /\ \A i \in DOMAIN plan.steps :
                  (plan.steps[i].op.kind \in WindowOps /\ "maintenance_window" \in ContextOf(plan.request).enforced)
                  => plan.steps[i].windows # {} \/ Written(plan.steps[i].op) \in plan.undone
  <2>1. IsPlan(plan) /\ plan.request.stamp.topology <= now.stamp.topology /\ Len(run.outcomes) <= Len(plan.steps)
    BY <1>1, <1>3 DEF PlanInv
  <2>2. Distinct(plan.steps) /\ Bounded(ContextOf(plan.request), plan.steps, plan.undone)
    BY <2>1 DEF IsPlan
  <2> QED
    BY <2>1, <2>2 DEF IsPlan, Distinct, Bounded
<1> QED
  BY <1>2, <1>3 DEF TypeOK

\* In every behaviour, whatever drifts, fails or comes late: no plan is ahead of the fabric,
\* each starts from a valid, safe snapshot its inputs are bound to, lists no step twice and
\* binds each to a window that needs one.
THEOREM LifecycleTypes == Spec => []TypeOK
  BY LifeReached, LifeTyped, PTL

\* The summary of a snapshot is finite.
LEMMA FingerprintsFinite ==
  ASSUME NEW s, IsSnapshot(s)
  PROVE  IsFiniteSet(Fingerprints(s))
<1>1. PICK f : f = [kind \in Summarised |-> Refs(kind, DOMAIN s[kind])]
  OBVIOUS
<1>2. ASSUME NEW kind \in Summarised PROVE IsFiniteSet(f[kind])
  <2>1. PICK ids : ids = DOMAIN s[kind] /\ IsFiniteSet(ids)
    BY DEF IsSnapshot, Summarised, EntityKinds
  <2>2. PICK g : g = [i \in ids |-> <<kind, i>>]
    OBVIOUS
  <2>3. IsFiniteSet({g[i] : i \in ids})
    BY <2>1, <2>2, ValuesFinite
  <2>4. {g[i] : i \in ids} = Refs(kind, ids)
    BY <2>2 DEF Refs
  <2> QED
    BY <1>1, <2>1, <2>3, <2>4
<1>3. IsFiniteSet(Summarised)
  <2>1. \A x : IsFiniteSet({x})
    BY FS_Singleton
  <2>2. IsFiniteSet({"device"} \cup {"link"} \cup {"route"})
    BY <2>1, ThreeFinite
  <2>3. IsFiniteSet(({"device"} \cup {"link"} \cup {"route"}) \cup {"workload"})
    BY <2>2, FS_AddElement
  <2>4. ({"device"} \cup {"link"} \cup {"route"}) \cup {"workload"} = Summarised
    BY DEF Summarised
  <2> QED
    BY <2>3, <2>4
<1>4. DOMAIN f = Summarised
  BY <1>1
<1>5. IsFiniteSet(UNION {f[kind] : kind \in Summarised})
  BY <1>2, <1>3, <1>4, UnionFinite
<1>6. UNION {f[kind] : kind \in Summarised} = Fingerprints(s)
  <2>1. {f[kind] : kind \in Summarised} = {Refs(kind, DOMAIN s[kind]) : kind \in Summarised}
    BY <1>1
  <2> QED
    BY <2>1 DEF Fingerprints
<1> QED
  BY <1>5, <1>6

\* Where no drift is tolerated and nothing counts as drifted, nothing that is summarised has changed.
LEMMA NoDriftIsAlike ==
  ASSUME NEW b, NEW v, IsSnapshot(b.state), IsSnapshot(v.state), v.rules.tolerance = Strictest, ~TopologyDrift(b, v)
  PROVE  Alike(b.state, v.state)
<1>1. PICK t, u : t = b.state /\ u = v.state /\ IsSnapshot(t) /\ IsSnapshot(u)
  OBVIOUS
<1>2. PICK before, after : before = Fingerprints(t) /\ after = Fingerprints(u)
  OBVIOUS
<1>3. IsFiniteSet(before) /\ IsFiniteSet(after)
  BY <1>1, <1>2, FingerprintsFinite
<1>4. /\ ~(Cardinality(after \ before) > 0) /\ ~(Cardinality(before \ after) > 0)
      /\ {e \in before \cap after : t[e[1]][e[2]] # u[e[1]][e[2]]} = {}
  <2>1. PICK tolerance : tolerance = v.rules.tolerance
    OBVIOUS
  <2>2. /\ tolerance.added = 0 /\ tolerance.removed = 0 /\ tolerance.capacity = 0 /\ tolerance.exempt = {}
    BY <2>1 DEF Strictest
  <2>3. before \ tolerance.exempt = before /\ after \ tolerance.exempt = after
    BY <2>2
  <2>4. /\ ~(Cardinality((after \ tolerance.exempt) \ (before \ tolerance.exempt)) > tolerance.added)
        /\ ~(Cardinality((before \ tolerance.exempt) \ (after \ tolerance.exempt)) > tolerance.removed)
        /\ ~(/\ {e \in (before \ tolerance.exempt) \cap (after \ tolerance.exempt) : t[e[1]][e[2]] # u[e[1]][e[2]]} # {}
             /\ {tolerance.capacity, tolerance.added, tolerance.removed} = {0})
    BY <1>1, <1>2, <2>1, Zenon DEF TopologyDrift
  <2>5. {tolerance.capacity, tolerance.added, tolerance.removed} = {0}
    BY <2>2
  <2> QED
    BY <2>2, <2>3, <2>4, <2>5
<1>5. before = after
  <2>1. IsFiniteSet(after \ before) /\ IsFiniteSet(before \ after)
    BY <1>3, FS_Difference
  <2>2. Cardinality(after \ before) \in Nat /\ Cardinality(before \ after) \in Nat
    BY <2>1, FS_CardinalityType
  <2>3. Cardinality(after \ before) = 0 /\ Cardinality(before \ after) = 0
    BY <1>4, <2>2
  <2>4. after \ before = {} /\ before \ after = {}
    BY <2>1, <2>3, FS_EmptySet
  <2> QED
    BY <2>4
<1>6. ASSUME NEW kind \in Summarised PROVE t[kind] = u[kind]
  <2>1. ASSUME NEW i PROVE i \in DOMAIN t[kind] <=> i \in DOMAIN u[kind]
    <3>1. <<kind, i>> \in Fingerprints(t) <=> i \in DOMAIN t[kind]
      BY DEF Fingerprints, Refs
    <3>2. <<kind, i>> \in Fingerprints(u) <=> i \in DOMAIN u[kind]
      BY DEF Fingerprints, Refs
    <3> QED
      BY <1>2, <1>5, <3>1, <3>2
  <2>2. ASSUME NEW i \in DOMAIN t[kind] PROVE t[kind][i] = u[kind][i]
    <3>1. PICK e : e = <<kind, i>>
      OBVIOUS
    <3>2. e = <<kind, i>> /\ e[1] = kind /\ e[2] = i
      BY <3>1
    <3>3. e \in before
      BY <1>2, <3>2 DEF Fingerprints, Refs
    <3>4. t[e[1]][e[2]] = u[e[1]][e[2]]
      BY <1>4, <1>5, <3>3
    <3> QED
      BY <3>2, <3>4
  <2>3. IsFunction(t[kind]) /\ IsFunction(u[kind])
    BY <1>1 DEF IsSnapshot, Summarised, EntityKinds
  <2>4. DOMAIN t[kind] = DOMAIN u[kind]
    BY <2>1
  <2>5. t[kind] = [i \in DOMAIN t[kind] |-> t[kind][i]] /\ u[kind] = [i \in DOMAIN u[kind] |-> u[kind][i]]
    BY <2>3 DEF IsFunction
  <2> QED
    BY <2>2, <2>4, <2>5
<1> QED
  BY <1>1, <1>6 DEF Alike, Summarised

\* So nothing that is summarised has changed when a plan is fresh.
LEMMA FreshIsAlike ==
  ASSUME IsSnapshot(plan.request.state), IsSnapshot(now.state), Fresh
  PROVE  Alike(plan.request.state, now.state)
<1>1. now.rules.tolerance = Strictest \/ \A kind \in Summarised : Unmoved(kind)
  BY DEF Fresh
<1>2. ~TopologyDrift(plan.request, now)
  BY Zenon DEF Fresh, Validated, StillValid
<1>3. CASE now.rules.tolerance = Strictest
  BY <1>2, <1>3, NoDriftIsAlike
<1>4. CASE \A kind \in Summarised : Unmoved(kind)
  BY <1>4 DEF Unmoved, Summarised, Alike
<1> QED
  BY <1>1, <1>3, <1>4

\* The contexts of inputs that have not drifted judge alike.
LEMMA SameContext ==
  ASSUME NEW b, IsInputs(b), NEW v, IsInputs(v), ~AuthorityDrift(b, v), b.instant = v.instant,
         DOMAIN b.evidence.caps = DOMAIN v.evidence.caps, b.state.device = v.state.device
  PROVE  SameRules(ContextOf(b), ContextOf(v))
<1>1. PICK rules : rules = b.rules /\ rules = v.rules
  BY DEF AuthorityDrift
<1>2. {"instant", "enforced", "headroom", "changes", "domains", "contracts", "evidence", "baseline",
       "tolerance"} \subseteq DOMAIN rules
  BY <1>1 DEF IsInputs, IsRules
<1>3. PICK c, d : c = ContextOf(b) /\ d = ContextOf(v)
  OBVIOUS
<1>4. /\ c = [[[rules EXCEPT !.instant = b.instant] EXCEPT !.baseline = b.state] EXCEPT !.evidence = b.evidence.caps]
      /\ d = [[[rules EXCEPT !.instant = v.instant] EXCEPT !.baseline = v.state] EXCEPT !.evidence = v.evidence.caps]
  BY <1>1, <1>3 DEF ContextOf
<1>5. /\ c.enforced = rules.enforced /\ c.instant = b.instant /\ c.headroom = rules.headroom
      /\ c.changes = rules.changes /\ c.domains = rules.domains /\ c.contracts = rules.contracts
      /\ c.evidence = b.evidence.caps /\ c.baseline = b.state
  BY <1>2, <1>4
<1>6. /\ d.enforced = rules.enforced /\ d.instant = v.instant /\ d.headroom = rules.headroom
      /\ d.changes = rules.changes /\ d.domains = rules.domains /\ d.contracts = rules.contracts
      /\ d.evidence = v.evidence.caps /\ d.baseline = v.state
  BY <1>2, <1>4
<1> QED
  BY <1>3, <1>5, <1>6 DEF SameRules

\* The steps of a plan name what Named and Erased collect.
LEMMA StepsCovered ==
  ASSUME NEW i \in DOMAIN plan.steps
  PROVE  Covered(Named("policy"), Named("config"), Erased, plan.steps[i].op)
<1>1. PICK o, ops : o = plan.steps[i].op /\ ops = {plan.steps[j].op : j \in DOMAIN plan.steps}
  OBVIOUS
<1>2. o = plan.steps[i].op /\ ops = {plan.steps[j].op : j \in DOMAIN plan.steps} /\ o \in ops
  BY <1>1
<1>3. /\ Named("policy") = {p.id : p \in {q \in ops : EntityKind(q) = "policy"}}
                           \cup {p.new.policy : p \in {q \in ops : q.kind \in {"route_add", "route_set_path"}}}
      /\ {p.id : p \in {q \in ops : EntityKind(q) = "config"}} \subseteq Named("config")
  BY <1>2 DEF Named
<1>4. o.kind \in PolicyOps => o.id \in Named("policy")
  BY <1>2, <1>3, KindsSplit
<1>5. o.kind \in {"route_add", "route_set_path"} => o.new.policy \in Named("policy")
  BY <1>2, <1>3
<1>6. o.kind \in ConfigOps => o.id \in Named("config")
  BY <1>2, <1>3, KindsSplit
<1>7. o.kind \in EraseOps => Written(o) \in Erased
  <2> SUFFICES ASSUME o.kind \in EraseOps PROVE Written(o) \in Erased
    OBVIOUS
  <2>1. i \in {j \in DOMAIN plan.steps : plan.steps[j].op.kind \in EraseOps}
    BY <1>2
  <2>2. o \in {plan.steps[j].op : j \in {k \in DOMAIN plan.steps : plan.steps[k].op.kind \in EraseOps}}
    BY <1>2, <2>1
  <2> QED
    BY <2>2 DEF Erased
<1> QED
  BY <1>2, <1>4, <1>5, <1>6, <1>7 DEF Covered

\* The invariant makes a plan that is valid, with nothing summarised changed, one that can be carried out.
LEMMA FreshReplays == LifeInv /\ Fresh /\ Undisturbed => Ahead.ok
<1> SUFFICES ASSUME LifeInv, Fresh, Undisturbed PROVE Ahead.ok
  OBVIOUS
<1>1. /\ Planned /\ StillValid(plan.request, plan.steps, now)
      /\ now.instant = plan.request.instant
      /\ DOMAIN now.evidence.caps = DOMAIN plan.request.evidence.caps
  BY DEF Fresh, Validated
<1>2. IsInputs(now) /\ Valid(now.state) /\ IsPlan(plan)
  BY <1>1 DEF LifeInv, NowInv, PlanInv
<1>3. PICK b, v, steps, P, C, E :
        /\ b = plan.request /\ v = now /\ steps = plan.steps
        /\ P = Named("policy") /\ C = Named("config") /\ E = Erased
  OBVIOUS
<1>4. /\ IsInputs(b) /\ IsInputs(v) /\ IsSnapshot(b.state) /\ IsSnapshot(v.state)
      /\ IsSteps(steps) /\ Replay(ContextOf(b), b.state, steps).ok
  BY <1>2, <1>3 DEF IsPlan, IsInputs
<1>5. ~AuthorityDrift(b, v)
  BY <1>1, <1>3, Zenon DEF StillValid
<1>6. Alike(b.state, v.state)
  BY <1>3, <1>4, FreshIsAlike
<1>7. SameRules(ContextOf(b), ContextOf(v))
  <2>1. b.instant = v.instant /\ DOMAIN b.evidence.caps = DOMAIN v.evidence.caps
    BY <1>1, <1>3
  <2>2. b.state.device = v.state.device
    BY <1>6 DEF Alike
  <2> QED
    BY <1>4, <1>5, <2>1, <2>2, SameContext
<1>8. Len(steps) \in Nat /\ DOMAIN steps = 1 .. Len(steps) /\ \A i \in 1 .. Len(steps) : IsStep(steps[i])
  BY <1>4, StepsAre
<1>9. Abreast(b.state, v.state, P, C, E, Len(steps))
  <2>1. /\ P \cap DOMAIN v.state.policy = P \cap DOMAIN b.state.policy
        /\ C \cap DOMAIN v.state.config = C \cap DOMAIN b.state.config
    BY <1>3 DEF Undisturbed
  <2>2. \A p \in DOMAIN v.state.policy :
          v.state.policy[p].target \in E =>
            p \in DOMAIN b.state.policy /\ b.state.policy[p].target = v.state.policy[p].target
    BY <1>3 DEF Undisturbed
  <2>3. \A e \in C \cap DOMAIN v.state.config : v.state.config[e].revision + Len(steps) <= MaxRevision
    BY <1>3 DEF Undisturbed
  <2>4. Valid(v.state)
    BY <1>2, <1>3
  <2> QED
    BY <1>4, <1>6, <2>1, <2>2, <2>3, <2>4 DEF Abreast
<1>10. \A i \in 1 .. Len(steps) : IsStep(steps[i]) /\ Covered(P, C, E, steps[i].op)
  BY <1>3, <1>8, StepsCovered
<1>11. Replay(ContextOf(v), v.state, steps).ok
  BY <1>4, <1>7, <1>8, <1>9, <1>10, ReplayAbreast
<1> QED
  BY <1>3, <1>11 DEF Ahead

\* For every fabric, every target and every history: a plan that passes evaluate_validity at
\* its own instant can be carried out from the fabric as it is, every step accepted and every
\* snapshot safe, unless a device has lost its evidence, policies or configuration have changed in
\* what concerns the steps, or a tolerance let the entities of its summary change.
THEOREM ValidPlansReplay == Spec => []ValidPlanReplays
<1>1. LifeInv => ValidPlanReplays
  BY FreshReplays DEF ValidPlanReplays
<1> QED
  BY <1>1, LifeReached, PTL

-----------------------------------------------------------------------------
(* Ways: what steps that can be carried out do to one entity               *)

\* A way through snapshots: each is left by an operation that is possible there.
Way(c, at, ops, n) ==
  /\ n \in Nat
  /\ \A i \in 0 .. n : IsSnapshot(at[i])
  /\ \A i \in 1 .. n : /\ IsOperation(ops[i]) /\ Possible(c, at[i - 1], ops[i])
                       /\ at[i] = Changed(at[i - 1], ops[i])

\* The way the steps take.
Along(c, s, steps, at, ops) ==
  /\ Way(c, at, ops, Len(steps)) /\ at[0] = s /\ at[Len(steps)] = Replay(c, s, steps).at
  /\ \A i \in 1 .. Len(steps) : ops[i] = steps[i].op

\* Steps that can be carried out lead along such a way.
LEMMA ReplayedWay ==
  ASSUME NEW c, NEW s, NEW steps, IsSnapshot(s), IsSteps(steps), Replay(c, s, steps).ok
  PROVE  \E at, ops : Along(c, s, steps, at, ops)
<1>1. PICK n : n = Len(steps) /\ n \in Nat
  BY StepsAre
<1>2. \A i \in 1 .. n : IsStep(steps[i])
  BY <1>1, StepsAre
<1>3. PICK f : Walking(c, s, Recorded(steps), f, n) /\ Replay(c, s, steps) = f[n]
  BY <1>1, ReplayWalks
<1>4. \A i, at : Made(Recorded(steps), c, i, at) = steps[i]
  BY DEF Made, Recorded
<1>5. /\ f[0].at = s
      /\ \A i \in 1 .. n : Verified(c, f[i - 1].at, steps[i]) /\ f[i].at = Changed(f[i - 1].at, steps[i].op)
  <2>1. f[n].ok
    BY <1>3
  <2>2. /\ f[0].at = s
        /\ \A i \in 1 .. n :
             /\ Verified(c, f[i - 1].at, Made(Recorded(steps), c, i, f[i - 1].at))
             /\ f[i].at = Changed(f[i - 1].at, Made(Recorded(steps), c, i, f[i - 1].at).op)
    BY <1>1, <1>3, <2>1, WalkingVerified
  <2> QED
    BY <1>4, <2>2
<1>6. PICK at, ops : at = [i \in 0 .. n |-> f[i].at] /\ ops = [i \in 1 .. n |-> steps[i].op]
  OBVIOUS
<1>7. ASSUME NEW i \in 1 .. n
      PROVE  /\ IsOperation(ops[i]) /\ Possible(c, at[i - 1], ops[i]) /\ at[i] = Changed(at[i - 1], ops[i])
             /\ i - 1 \in 0 .. n
  <2>1. i \in 0 .. n /\ i - 1 \in 0 .. n
    BY <1>1
  <2>2. PICK v, step : v = f[i - 1].at /\ step = steps[i]
    OBVIOUS
  <2>3. Verified(c, v, step) /\ f[i].at = Changed(v, step.op) /\ IsOperation(step.op)
    BY <1>2, <1>5, <2>2 DEF IsStep
  <2>4. Possible(c, v, step.op)
    BY <2>3, Zenon DEF Verified, Accepts, Applies
  <2> QED
    BY <1>6, <2>1, <2>2, <2>3, <2>4
<1> DEFINE Bad == {i \in 0 .. n : ~IsSnapshot(at[i])}
<1>8. Bad = {}
  <2> SUFFICES ASSUME Bad # {} PROVE FALSE
    OBVIOUS
  <2>1. PICK k \in Bad : \A j \in Bad : k <= j
    <3>1. Bad \subseteq Nat
      BY <1>1
    <3> HIDE DEF Bad
    <3> QED
      BY <3>1, LeastNat
  <2>2. k \in 1 .. n /\ k - 1 \in 0 .. n /\ ~(k <= k - 1)
    <3>1. 0 \in 0 .. n /\ at[0] = s
      BY <1>1, <1>5, <1>6
    <3>2. k # 0
      BY <2>1, <3>1
    <3> QED
      BY <1>1, <2>1, <3>2
  <2>3. IsSnapshot(at[k - 1])
    BY <2>1, <2>2
  <2>4. IsSnapshot(at[k])
    BY <1>7, <2>2, <2>3, SnapshotKept
  <2> QED
    BY <2>1, <2>4
<1>9. Way(c, at, ops, n)
  BY <1>1, <1>7, <1>8 DEF Way
<1>10. at[0] = s /\ at[n] = Replay(c, s, steps).at /\ \A i \in 1 .. n : ops[i] = steps[i].op
  BY <1>1, <1>3, <1>5, <1>6
<1>11. Along(c, s, steps, at, ops)
  BY <1>1, <1>9, <1>10 DEF Along
<1> QED
  BY <1>11

\* What a step of a way does to one entity: nothing, unless its operation writes it.
LEMMA WayStep ==
  ASSUME NEW c, NEW at, NEW ops, NEW n, Way(c, at, ops, n), NEW i \in 1 .. n,
         NEW kind \in EntityKinds, NEW id
  PROVE  /\ Written(ops[i]) # <<kind, id>> =>
              /\ id \in DOMAIN at[i][kind] <=> id \in DOMAIN at[i - 1][kind]
              /\ at[i - 1][kind][id] = at[i][kind][id] \/ id \notin DOMAIN at[i][kind]
         /\ Written(ops[i]) = <<kind, id>> =>
              /\ ops[i].id = id /\ EntityKind(ops[i]) = kind
              /\ ops[i].kind \in EraseOps => id \notin DOMAIN at[i][kind]
              /\ ops[i].kind \notin EraseOps =>
                   id \in DOMAIN at[i][kind] /\ at[i][kind][id] = EntryAfter(at[i - 1], ops[i])
              /\ ops[i].kind \notin AddOps \cup {"policy_bind", "config_set"} => id \in DOMAIN at[i - 1][kind]
              /\ ops[i].kind \in AddOps => id \notin DOMAIN at[i - 1][kind]
<1>1. PICK s, o, t : s = at[i - 1] /\ o = ops[i] /\ t = at[i]
  OBVIOUS
<1>2. i - 1 \in 0 .. n
  BY DEF Way
<1>3. Shaped(s) /\ o.kind \in AllKinds /\ Possible(c, s, o) /\ t = Changed(s, o)
  BY <1>1, <1>2, SnapshotShaped, OperationKind DEF Way
<1>4. Written(o) = <<EntityKind(o), o.id>>
  BY DEF Written
<1>5. CASE EntityKind(o) # kind
  BY <1>1, <1>3, <1>4, <1>5, OtherKindsAfter
<1>6. CASE EntityKind(o) = kind
  <2>1. /\ \A j \in DOMAIN s[kind] \ {o.id} : j \in DOMAIN t[kind] /\ t[kind][j] = s[kind][j]
        /\ DOMAIN t[kind] \subseteq DOMAIN s[kind] \cup {o.id}
        /\ o.kind \in EraseOps => o.id \notin DOMAIN t[kind]
        /\ o.kind \notin EraseOps => o.id \in DOMAIN t[kind] /\ t[kind][o.id] = EntryAfter(s, o)
    BY <1>3, <1>6, OwnKindAfter
  <2>2. o.kind \notin AddOps \cup {"policy_bind", "config_set"} => o.id \in DOMAIN s[kind]
    BY <1>3, <1>6, ChangedIsKnown
  <2>3. o.kind \in AddOps => o.id \notin DOMAIN s[kind]
    BY <1>3, <1>4, <1>6 DEF Possible, Known
  <2> QED
    BY <1>1, <1>4, <1>6, <2>1, <2>2, <2>3
<1> QED
  BY <1>5, <1>6

\* What holds at one point of a way and is kept from there on holds to its end.
LEMMA Onwards ==
  ASSUME NEW n \in Nat, NEW J, NEW m \in J, m \in 0 .. n, \A j \in (m + 1) .. n : j - 1 \in J => j \in J
  PROVE  \A j \in m .. n : j \in J
<1> DEFINE Bad == {j \in m .. n : j \notin J}
<1> SUFFICES ASSUME Bad # {} PROVE FALSE
  OBVIOUS
<1>1. PICK k \in Bad : \A j \in Bad : k <= j
  <2>1. Bad \subseteq Nat
    OBVIOUS
  <2> HIDE DEF Bad
  <2> QED
    BY <2>1, LeastNat
<1>2. k # m /\ k \in (m + 1) .. n /\ k - 1 \in m .. n /\ ~(k <= k - 1)
  BY <1>1
<1>3. k - 1 \in J
  BY <1>1, <1>2
<1> QED
  BY <1>1, <1>2, <1>3

\* A value that every step leaves alone or sets to w is w in the end, once it has been w.
LEMMA Settles ==
  ASSUME NEW n \in Nat, NEW v, NEW w, NEW m \in 0 .. n, v[m] = w,
         \A j \in 1 .. n : v[j] = v[j - 1] \/ v[j] = w
  PROVE  v[n] = w
<1> DEFINE J == {j \in 0 .. n : v[j] = w}
<1>1. \A j \in (m + 1) .. n : j - 1 \in J => j \in J
  OBVIOUS
<1>2. m \in J /\ n \in m .. n
  OBVIOUS
<1>3. \A j \in m .. n : j \in J
  <2> HIDE DEF J
  <2> QED
    BY <1>1, <1>2, Onwards
<1> QED
  BY <1>2, <1>3

\* An entity that no operation writes between two points of a way is the same at both.
LEMMA LeftAlone ==
  ASSUME NEW c, NEW at, NEW ops, NEW n, Way(c, at, ops, n), NEW kind \in EntityKinds, NEW id,
         NEW m \in 0 .. n, NEW k \in m .. n, \A i \in (m + 1) .. k : Written(ops[i]) # <<kind, id>>
  PROVE  /\ id \in DOMAIN at[k][kind] <=> id \in DOMAIN at[m][kind]
         /\ id \in DOMAIN at[k][kind] => at[k][kind][id] = at[m][kind][id]
<1> DEFINE Same(j) == /\ id \in DOMAIN at[j][kind] <=> id \in DOMAIN at[m][kind]
                      /\ id \in DOMAIN at[j][kind] => at[j][kind][id] = at[m][kind][id]
           J == {j \in 0 .. n : Same(j)}
<1>1. n \in Nat /\ m \in Nat /\ k \in Nat /\ k <= n /\ m <= k
  BY DEF Way
<1>2. m \in J /\ k \in m .. k /\ m \in 0 .. k
  BY <1>1
<1>3. ASSUME NEW j \in (m + 1) .. k, j - 1 \in J PROVE j \in J
  <2>1. j \in 1 .. n /\ j \in 0 .. n /\ Written(ops[j]) # <<kind, id>>
    BY <1>1
  <2>2. /\ id \in DOMAIN at[j][kind] <=> id \in DOMAIN at[j - 1][kind]
        /\ at[j - 1][kind][id] = at[j][kind][id] \/ id \notin DOMAIN at[j][kind]
    BY <2>1, WayStep
  <2>3. Same(j - 1)
    BY <1>3
  <2> QED
    BY <2>1, <2>2, <2>3
<1>4. \A j \in m .. k : j \in J
  <2> HIDE DEF J
  <2> QED
    BY <1>1, <1>2, <1>3, Onwards
<1> QED
  BY <1>2, <1>4

\* An entity that is there stays while nothing erases it,
LEMMA StaysKnown ==
  ASSUME NEW c, NEW at, NEW ops, NEW n, Way(c, at, ops, n), NEW kind \in EntityKinds, NEW id,
         NEW m \in 0 .. n, id \in DOMAIN at[m][kind],
         \A i \in (m + 1) .. n : Written(ops[i]) = <<kind, id>> => ops[i].kind \notin EraseOps
  PROVE  \A j \in m .. n : id \in DOMAIN at[j][kind]
<1> DEFINE J == {j \in 0 .. n : id \in DOMAIN at[j][kind]}
<1>1. n \in Nat /\ m \in J
  BY DEF Way
<1>2. ASSUME NEW j \in (m + 1) .. n, j - 1 \in J PROVE j \in J
  <2>1. j \in 1 .. n /\ j \in 0 .. n
    BY <1>1
  <2>2. CASE Written(ops[j]) = <<kind, id>>
    BY <2>1, <2>2, WayStep
  <2>3. CASE Written(ops[j]) # <<kind, id>>
    BY <1>2, <2>1, <2>3, WayStep
  <2> QED
    BY <2>2, <2>3
<1>3. \A j \in m .. n : j \in J
  <2> HIDE DEF J
  <2> QED
    BY <1>1, <1>2, Onwards
<1> QED
  BY <1>3

\* and one that is not stays away while nothing creates it.
LEMMA StaysAway ==
  ASSUME NEW c, NEW at, NEW ops, NEW n, Way(c, at, ops, n), NEW kind \in EntityKinds, NEW id,
         NEW m \in 0 .. n, id \notin DOMAIN at[m][kind],
         \A i \in (m + 1) .. n :
           Written(ops[i]) = <<kind, id>> => ops[i].kind \notin AddOps \cup {"policy_bind", "config_set"}
  PROVE  id \notin DOMAIN at[n][kind]
<1> DEFINE J == {j \in 0 .. n : id \notin DOMAIN at[j][kind]}
<1>1. n \in Nat /\ m \in J /\ n \in m .. n
  BY DEF Way
<1>2. ASSUME NEW j \in (m + 1) .. n, j - 1 \in J PROVE j \in J
  <2>1. j \in 1 .. n /\ j \in 0 .. n
    BY <1>1
  <2>2. CASE Written(ops[j]) = <<kind, id>>
    BY <1>2, <2>1, <2>2, WayStep
  <2>3. CASE Written(ops[j]) # <<kind, id>>
    BY <1>2, <2>1, <2>3, WayStep
  <2> QED
    BY <2>2, <2>3
<1>3. \A j \in m .. n : j \in J
  <2> HIDE DEF J
  <2> QED
    BY <1>1, <1>2, Onwards
<1> QED
  BY <1>1, <1>3

\* The operations on an entity along a way are those of M, each of them once.
Leads(c, at, ops, n, kind, id, M) ==
  /\ kind \in EntityKinds /\ Way(c, at, ops, n)
  /\ \A i \in 1 .. n : Written(ops[i]) = <<kind, id>> => ops[i] \in M
  /\ \A o \in M : Written(o) = <<kind, id>> /\ \E i \in 1 .. n : ops[i] = o
  /\ \A i, j \in 1 .. n : ops[i] = ops[j] => i = j

\* Without operations on it, an entity is the same in the end.
LEMMA Never ==
  ASSUME NEW c, NEW at, NEW ops, NEW n, NEW kind, NEW id, NEW M,
         Leads(c, at, ops, n, kind, id, M), M = {}
  PROVE  /\ id \in DOMAIN at[n][kind] <=> id \in DOMAIN at[0][kind]
         /\ id \in DOMAIN at[0][kind] => at[n][kind][id] = at[0][kind][id]
<1>1. kind \in EntityKinds /\ Way(c, at, ops, n) /\ n \in Nat /\ \A i \in 1 .. n : Written(ops[i]) # <<kind, id>>
  BY DEF Leads, Way
<1>2. 0 \in 0 .. n /\ n \in 0 .. n /\ \A i \in (0 + 1) .. n : i \in 1 .. n
  BY <1>1
<1> QED
  BY <1>1, <1>2, LeftAlone

\* With one operation on it, an entity is what that operation leaves of what it was.
LEMMA Once ==
  ASSUME NEW c, NEW at, NEW ops, NEW n, NEW kind, NEW id, NEW o, NEW M,
         Leads(c, at, ops, n, kind, id, M), M = {o}
  PROVE  /\ o.kind \in EraseOps => id \notin DOMAIN at[n][kind]
         /\ o.kind \notin EraseOps =>
              \E k \in 1 .. n :
                /\ id \in DOMAIN at[n][kind] /\ at[n][kind][id] = EntryAfter(at[k - 1], o)
                /\ Possible(c, at[k - 1], o) /\ IsSnapshot(at[k - 1])
                /\ id \in DOMAIN at[k - 1][kind] <=> id \in DOMAIN at[0][kind]
                /\ id \in DOMAIN at[0][kind] => at[k - 1][kind][id] = at[0][kind][id]
<1>1. PICK k \in 1 .. n : ops[k] = o
  BY DEF Leads
<1>2. kind \in EntityKinds /\ Way(c, at, ops, n) /\ n \in Nat /\ Written(o) = <<kind, id>>
  BY DEF Leads, Way
<1>3. \A i \in 1 .. n : i # k => Written(ops[i]) # <<kind, id>>
  BY <1>1 DEF Leads
<1>4. /\ o.kind \in EraseOps => id \notin DOMAIN at[k][kind]
      /\ o.kind \notin EraseOps =>
           id \in DOMAIN at[k][kind] /\ at[k][kind][id] = EntryAfter(at[k - 1], o)
  BY <1>1, <1>2, WayStep
<1>5. /\ id \in DOMAIN at[n][kind] <=> id \in DOMAIN at[k][kind]
      /\ id \in DOMAIN at[n][kind] => at[n][kind][id] = at[k][kind][id]
  <2>1. k \in 0 .. n /\ n \in k .. n /\ \A i \in (k + 1) .. n : Written(ops[i]) # <<kind, id>>
    BY <1>2, <1>3
  <2> QED
    BY <1>2, <2>1, LeftAlone
<1>6. /\ id \in DOMAIN at[k - 1][kind] <=> id \in DOMAIN at[0][kind]
      /\ id \in DOMAIN at[k - 1][kind] => at[k - 1][kind][id] = at[0][kind][id]
  <2>1. 0 \in 0 .. n /\ k - 1 \in 0 .. n /\ \A i \in (0 + 1) .. (k - 1) : Written(ops[i]) # <<kind, id>>
    BY <1>2, <1>3
  <2> QED
    BY <1>2, <2>1, LeftAlone
<1>7. Possible(c, at[k - 1], o) /\ IsSnapshot(at[k - 1])
  <2>1. k - 1 \in 0 .. n
    BY <1>2
  <2> QED
    BY <1>1, <1>2, <2>1 DEF Way
<1> QED
  BY <1>4, <1>5, <1>6, <1>7

-----------------------------------------------------------------------------
(* What a way leaves of an entity that is to be set                        *)

\* An entity that is there and that no operation on it erases is changed by each of them in turn.
LEMMA InTurn ==
  ASSUME NEW c, NEW at, NEW ops, NEW n, NEW kind, NEW id, NEW M,
         Leads(c, at, ops, n, kind, id, M), id \in DOMAIN at[0][kind], \A o \in M : o.kind \notin EraseOps
  PROVE  /\ n \in Nat
         /\ \A j \in 0 .. n : id \in DOMAIN at[j][kind] /\ IsSnapshot(at[j])
         /\ \A j \in 1 .. n :
              \/ at[j][kind][id] = at[j - 1][kind][id]
              \/ /\ ops[j] \in M /\ at[j][kind][id] = EntryAfter(at[j - 1], ops[j])
                 /\ Possible(c, at[j - 1], ops[j])
         /\ \A o \in M : \E k \in 1 .. n :
              /\ ops[k] = o /\ at[k][kind][id] = EntryAfter(at[k - 1], o)
              /\ Possible(c, at[k - 1], o)
<1>1. kind \in EntityKinds /\ Way(c, at, ops, n) /\ n \in Nat
  BY DEF Leads, Way
<1>2. \A i \in 1 .. n : Written(ops[i]) = <<kind, id>> => ops[i] \in M
  BY DEF Leads
<1>3. \A j \in 0 .. n : id \in DOMAIN at[j][kind]
  <2>1. 0 \in 0 .. n /\ \A i \in (0 + 1) .. n : Written(ops[i]) = <<kind, id>> => ops[i].kind \notin EraseOps
    BY <1>1, <1>2
  <2> QED
    BY <1>1, <2>1, StaysKnown
<1>4. \A j \in 0 .. n : IsSnapshot(at[j])
  BY <1>1 DEF Way
<1>5. ASSUME NEW j \in 1 .. n
      PROVE  /\ \/ at[j][kind][id] = at[j - 1][kind][id]
                \/ ops[j] \in M /\ at[j][kind][id] = EntryAfter(at[j - 1], ops[j])
             /\ ops[j] \in M => at[j][kind][id] = EntryAfter(at[j - 1], ops[j])
             /\ Possible(c, at[j - 1], ops[j])
  <2>1. j \in 0 .. n /\ id \in DOMAIN at[j][kind]
    BY <1>1, <1>3
  <2>2. ops[j] \in M => Written(ops[j]) = <<kind, id>>
    BY DEF Leads
  <2>3. Possible(c, at[j - 1], ops[j])
    BY <1>1 DEF Way
  <2>4. CASE Written(ops[j]) = <<kind, id>>
    <3>1. ops[j] \in M /\ ops[j].kind \notin EraseOps
      BY <1>2, <2>4
    <3>2. at[j][kind][id] = EntryAfter(at[j - 1], ops[j])
      BY <1>1, <2>4, <3>1, WayStep
    <3> QED
      BY <2>3, <3>1, <3>2
  <2>5. CASE Written(ops[j]) # <<kind, id>>
    <3>1. at[j - 1][kind][id] = at[j][kind][id]
      BY <1>1, <2>1, <2>5, WayStep
    <3> QED
      BY <2>2, <2>3, <2>5, <3>1
  <2> QED
    BY <2>4, <2>5
<1>6. ASSUME NEW o \in M
      PROVE  \E k \in 1 .. n : /\ ops[k] = o /\ at[k][kind][id] = EntryAfter(at[k - 1], o)
                               /\ Possible(c, at[k - 1], o)
  <2>1. PICK k \in 1 .. n : ops[k] = o
    BY DEF Leads
  <2> QED
    BY <1>5, <2>1
<1> QED
  BY <1>1, <1>3, <1>4, <1>5, <1>6

\* A way starts at a snapshot.
Starts(at, s) == at[0] = s /\ IsSnapshot(s)

\* What a policy or a configuration entry that is wanted needs.
PolicyChanges(s, p, want) ==
  When(p \notin DOMAIN s.policy \/ s.policy[p] # want, Carrying("policy_bind", p, want))
ConfigChanges(s, e, value) ==
  When(e \notin DOMAIN s.config \/ s.config[e].value # value, Carrying("config_set", e, [value |-> value]))

\* A policy that is wanted ends as it is wanted.
LEMMA PolicySet ==
  ASSUME NEW c, NEW at, NEW ops, NEW n, NEW p, NEW want, NEW M, NEW s, Starts(at, s),
         Leads(c, at, ops, n, "policy", p, M), M = PolicyChanges(s, p, want)
  PROVE  p \in DOMAIN at[n].policy /\ at[n].policy[p] = want
<1> SUFFICES ASSUME M = When(p \notin DOMAIN at[0].policy \/ at[0].policy[p] # want,
                             Carrying("policy_bind", p, want))
             PROVE  p \in DOMAIN at[n].policy /\ at[n].policy[p] = want
  BY DEF Starts, PolicyChanges
<1>1. CASE M = {}
  <2>1. p \in DOMAIN at[0].policy /\ at[0].policy[p] = want
    BY <1>1 DEF When
  <2> QED
    BY <1>1, <2>1, Never
<1>2. CASE M # {}
  <2>1. PICK o : o = Carrying("policy_bind", p, want) /\ M = {o}
    BY <1>2 DEF When
  <2>2. o.kind = "policy_bind" /\ o.kind \notin EraseOps /\ o.new = want
    BY <2>1 DEF Carrying, EraseOps
  <2>3. \A u : EntryAfter(u, o) = want
    BY <2>2 DEF EntryAfter, EraseOps, WindowOps, MaintenanceOps
  <2> QED
    BY <2>1, <2>2, <2>3, Once
<1> QED
  BY <1>1, <1>2

\* A configuration entry that is wanted ends with the value it is wanted with.
LEMMA ConfigSet ==
  ASSUME NEW c, NEW at, NEW ops, NEW n, NEW e, NEW value, NEW M, NEW s, Starts(at, s),
         Leads(c, at, ops, n, "config", e, M), M = ConfigChanges(s, e, value)
  PROVE  e \in DOMAIN at[n].config /\ at[n].config[e].value = value
<1> SUFFICES ASSUME M = When(e \notin DOMAIN at[0].config \/ at[0].config[e].value # value,
                             Carrying("config_set", e, [value |-> value]))
             PROVE  e \in DOMAIN at[n].config /\ at[n].config[e].value = value
  BY DEF Starts, ConfigChanges
<1>1. CASE M = {}
  <2>1. e \in DOMAIN at[0].config /\ at[0].config[e].value = value
    BY <1>1 DEF When
  <2> QED
    BY <1>1, <2>1, Never
<1>2. CASE M # {}
  <2>1. PICK o : o = Carrying("config_set", e, [value |-> value]) /\ M = {o}
    BY <1>2 DEF When
  <2>2. o.kind = "config_set" /\ o.kind \notin EraseOps /\ o.new.value = value
    BY <2>1 DEF Carrying, EraseOps
  <2>3. \A u : EntryAfter(u, o).value = value
    BY <2>2 DEF EntryAfter, EraseOps, WindowOps, MaintenanceOps
  <2> QED
    BY <2>1, <2>2, <2>3, Once
<1> QED
  BY <1>1, <1>2

\* A link has the ends, domains and capacity of another.
LikeLink(there, want) ==
  <<there.a, there.b, there.transit, there.cap>> = <<want.a, want.b, want.transit, want.cap>>

\* A link that is wanted ends with the capacity it is wanted with, and nothing else of it changes;
\* a new one is as it is wanted.
LEMMA LinkSet ==
  ASSUME NEW c, NEW at, NEW ops, NEW n, NEW l, NEW want, NEW M, NEW s, Starts(at, s),
         Leads(c, at, ops, n, "link", l, M), M = LinkChanges(s, l, want)
  PROVE  /\ l \in DOMAIN at[n].link
         /\ l \in DOMAIN s.link => at[n].link[l] = [s.link[l] EXCEPT !.cap = want.cap]
         /\ l \notin DOMAIN s.link => at[n].link[l].state = "present" /\ LikeLink(at[n].link[l], want)
<1> SUFFICES ASSUME Leads(c, at, ops, n, "link", l, LinkChanges(at[0], l, want)), IsSnapshot(at[0])
             PROVE  /\ l \in DOMAIN at[n].link
                    /\ l \in DOMAIN at[0].link => at[n].link[l] = [at[0].link[l] EXCEPT !.cap = want.cap]
                    /\ l \notin DOMAIN at[0].link =>
                         at[n].link[l].state = "present" /\ LikeLink(at[n].link[l], want)
  BY DEF Starts
<1>1. CASE l \notin DOMAIN at[0].link
  <2>1. PICK o : o = Carrying("link_add", l, want)
    OBVIOUS
  <2>2. LinkChanges(at[0], l, want) = {o}
    BY <1>1, <2>1 DEF LinkChanges
  <2>3. o.kind = "link_add" /\ o.kind \notin EraseOps /\ o.new = want
    BY <2>1 DEF Carrying, EraseOps
  <2>4. \A u : EntryAfter(u, o).state = "present" /\ LikeLink(EntryAfter(u, o), want)
    BY <2>3 DEF EntryAfter, LikeLink, EraseOps, WindowOps, MaintenanceOps
  <2> QED
    BY <1>1, <2>2, <2>3, <2>4, Once
<1>2. CASE l \in DOMAIN at[0].link
  <2>1. PICK e : e = at[0].link[l] /\ IsLink(e)
    BY <1>2 DEF IsSnapshot
  <2>2. CASE LinkChanges(at[0], l, want) = {}
    <3>1. e.cap = want.cap
      BY <1>2, <2>1, <2>2 DEF LinkChanges, When
    <3>2. [e EXCEPT !.cap = want.cap] = e
      BY <2>1, <3>1 DEF IsLink
    <3> QED
      BY <1>2, <2>1, <2>2, <3>2, Never
  <2>3. CASE LinkChanges(at[0], l, want) # {}
    <3>1. PICK o : o = Carrying("link_set_capacity", l, want) /\ LinkChanges(at[0], l, want) = {o}
      BY <1>2, <2>3 DEF LinkChanges, When
    <3>2. o.kind = "link_set_capacity" /\ o.kind \notin EraseOps /\ o.new = want /\ o.id = l
      BY <3>1 DEF Carrying, EraseOps
    <3>3. \A u : EntryAfter(u, o) = [u.link[l] EXCEPT !.cap = want.cap]
      BY <3>2 DEF EntryAfter, EraseOps, WindowOps, MaintenanceOps
    <3>4. \E k \in 1 .. n :
            /\ l \in DOMAIN at[n].link /\ at[n].link[l] = EntryAfter(at[k - 1], o)
            /\ at[k - 1].link[l] = e
      BY <1>2, <2>1, <3>1, <3>2, Once
    <3> QED
      BY <1>2, <2>1, <3>3, <3>4
  <2> QED
    BY <2>2, <2>3
<1> QED
  BY <1>1, <1>2

\* One field of a route is changed, and the others are kept.
LEMMA RouteFields ==
  ASSUME NEW x, IsRoute(x), NEW y
  PROVE  [x EXCEPT !.state = y]
           = [source |-> x.source, sink |-> x.sink, path |-> x.path, policy |-> x.policy, state |-> y]
<1>1. PICK a, b, p, q, s : a = x.source /\ b = x.sink /\ p = x.path /\ q = x.policy /\ s = x.state
  OBVIOUS
<1>2. x = [source |-> a, sink |-> b, path |-> p, policy |-> q, state |-> s]
  BY <1>1 DEF IsRoute
<1>3. [x EXCEPT !.state = y] = [source |-> a, sink |-> b, path |-> p, policy |-> q, state |-> y]
  BY <1>2
<1> QED
  BY <1>1, <1>3

\* The fields that cannot be changed are as they are wanted.
RouteFits(s, r, want) ==
  r \in DOMAIN s.route => <<s.route[r].source, s.route[r].sink>> = <<want.source, want.sink>>

\* A route that is wanted between the ends it has ends as it is wanted.
LEMMA RouteSet ==
  ASSUME NEW c, NEW at, NEW ops, NEW n, NEW r, NEW want, IsRoute(want), NEW M, NEW s, Starts(at, s),
         Leads(c, at, ops, n, "route", r, M), M = RouteChanges(s, r, want), RouteFits(s, r, want)
  PROVE  r \in DOMAIN at[n].route /\ at[n].route[r] = want
<1> SUFFICES ASSUME Leads(c, at, ops, n, "route", r, RouteChanges(at[0], r, want)), IsSnapshot(at[0]),
                    r \in DOMAIN at[0].route =>
                      <<at[0].route[r].source, at[0].route[r].sink>> = <<want.source, want.sink>>
             PROVE  r \in DOMAIN at[n].route /\ at[n].route[r] = want
  BY DEF Starts, RouteFits
<1>1. CASE r \notin DOMAIN at[0].route
  <2>1. PICK o : o = Carrying("route_add", r, want)
    OBVIOUS
  <2>2. RouteChanges(at[0], r, want) = {o}
    BY <1>1, <2>1 DEF RouteChanges
  <2>3. o.kind = "route_add" /\ o.kind \notin EraseOps /\ o.new = want
    BY <2>1 DEF Carrying, EraseOps
  <2>4. \A u : EntryAfter(u, o) = want
    BY <2>3 DEF EntryAfter, EraseOps, WindowOps, MaintenanceOps
  <2> QED
    BY <1>1, <2>2, <2>3, <2>4, Once
<1>2. CASE r \in DOMAIN at[0].route
  <2>1. PICK O, e, path, state :
          /\ O = RouteChanges(at[0], r, want) /\ e = at[0].route[r]
          /\ path = Carrying("route_set_path", r, want)
          /\ state = Carrying("route_set_state", r, [state |-> want.state])
    OBVIOUS
  <2>2. O = When(<<e.path, e.policy>> # <<want.path, want.policy>>, path) \cup When(e.state # want.state, state)
    BY <1>2, <2>1 DEF RouteChanges
  <2>3. /\ path.kind = "route_set_path" /\ path.new = want /\ path.id = r
        /\ state.kind = "route_set_state" /\ state.new.state = want.state /\ state.id = r
    BY <2>1 DEF Carrying
  <2>4. \A o \in O : o.kind \notin EraseOps /\ o \in {path, state}
    BY <2>2, <2>3 DEF When, EraseOps
  <2>5. /\ \A u : EntryAfter(u, path) = [source |-> want.source, sink |-> want.sink, path |-> want.path,
                                         policy |-> want.policy, state |-> u.route[r].state]
        /\ \A u : EntryAfter(u, state) = [u.route[r] EXCEPT !.state = want.state]
    BY <2>3 DEF EntryAfter, EraseOps, WindowOps, MaintenanceOps
  <2>6. Leads(c, at, ops, n, "route", r, O)
    BY <2>1
  <2>7. /\ n \in Nat
        /\ \A j \in 0 .. n : r \in DOMAIN at[j]["route"] /\ IsSnapshot(at[j])
        /\ \A j \in 1 .. n :
             \/ at[j]["route"][r] = at[j - 1]["route"][r]
             \/ ops[j] \in O /\ at[j]["route"][r] = EntryAfter(at[j - 1], ops[j])
        /\ \A o \in O : \E k \in 1 .. n : at[k]["route"][r] = EntryAfter(at[k - 1], o)
    BY <1>2, <2>4, <2>6, InTurn
  <2>8. PICK v : v = [j \in 0 .. n |-> at[j].route[r]]
    OBVIOUS
  <2>9. /\ \A j \in 0 .. n : IsRoute(v[j]) /\ v[j] = at[j].route[r]
        /\ v[0] = e
    BY <2>1, <2>7, <2>8 DEF IsSnapshot
  <2> DEFINE rest(x) == <<x.source, x.sink, x.path, x.policy>>
  <2>10. ASSUME NEW j \in 1 .. n
         PROVE  /\ \/ v[j] = v[j - 1]
                   \/ rest(v[j]) = rest(want) /\ v[j].state = v[j - 1].state
                   \/ rest(v[j]) = rest(v[j - 1]) /\ v[j].state = want.state
                /\ j \in 0 .. n /\ j - 1 \in 0 .. n
    <3>1. j \in 0 .. n /\ j - 1 \in 0 .. n
      BY <2>7
    <3>2. v[j] = at[j].route[r] /\ v[j - 1] = at[j - 1].route[r] /\ IsRoute(v[j - 1])
      BY <2>9, <3>1
    <3>3. \/ v[j] = v[j - 1]
          \/ v[j] = [source |-> want.source, sink |-> want.sink, path |-> want.path,
                     policy |-> want.policy, state |-> v[j - 1].state]
          \/ v[j] = [v[j - 1] EXCEPT !.state = want.state]
      BY <2>4, <2>5, <2>7, <3>1, <3>2
    <3>4. [v[j - 1] EXCEPT !.state = want.state]
            = [source |-> v[j - 1].source, sink |-> v[j - 1].sink, path |-> v[j - 1].path,
               policy |-> v[j - 1].policy, state |-> want.state]
      BY <3>2, RouteFields
    <3> QED
      BY <3>1, <3>3, <3>4
  <2> DEFINE vs == [j \in 0 .. n |-> v[j].state]
             vr == [j \in 0 .. n |-> rest(v[j])]
  <2>11. \A j \in 1 .. n : vs[j] = vs[j - 1] \/ vs[j] = want.state
    BY <2>10
  <2>12. \A j \in 1 .. n : vr[j] = vr[j - 1] \/ vr[j] = rest(want)
    BY <2>10
  <2>13. \E m \in 0 .. n : vs[m] = want.state
    <3>1. CASE e.state = want.state
      BY <2>7, <2>9, <3>1
    <3>2. CASE e.state # want.state
      <4>1. state \in O
        BY <2>2, <3>2 DEF When
      <4>2. PICK k \in 1 .. n : at[k]["route"][r] = EntryAfter(at[k - 1], state)
        BY <2>7, <4>1
      <4>6. at[k].route[r] = [at[k - 1].route[r] EXCEPT !.state = want.state]
        BY <2>5, <4>2
      <4>3. k \in 0 .. n /\ k - 1 \in 0 .. n
        BY <2>7
      <4>4. v[k].state = want.state
        <5>1. v[k] = [v[k - 1] EXCEPT !.state = want.state] /\ IsRoute(v[k - 1])
          BY <2>9, <4>6, <4>3
        <5> QED
          BY <5>1, RouteFields
      <4> QED
        BY <4>3, <4>4
    <3> QED
      BY <3>1, <3>2
  <2>14. \E m \in 0 .. n : vr[m] = rest(want)
    <3>1. CASE <<e.path, e.policy>> = <<want.path, want.policy>>
      BY <1>2, <2>1, <2>7, <2>9, <3>1
    <3>2. CASE <<e.path, e.policy>> # <<want.path, want.policy>>
      <4>1. path \in O
        BY <2>2, <3>2 DEF When
      <4>2. PICK k \in 1 .. n : at[k]["route"][r] = EntryAfter(at[k - 1], path)
        BY <2>7, <4>1
      <4>6. at[k].route[r] = [source |-> want.source, sink |-> want.sink, path |-> want.path,
                           policy |-> want.policy, state |-> at[k - 1].route[r].state]
        BY <2>5, <4>2
      <4>3. k \in 0 .. n
        BY <2>7
      <4> QED
        BY <2>9, <4>6, <4>3
    <3> QED
      BY <3>1, <3>2
  <2>15. n \in Nat /\ n \in 0 .. n
    BY <2>7
  <2> HIDE DEF vs, vr
  <2>16. vs[n] = want.state
    BY <2>11, <2>13, <2>15, Settles
  <2>17. vr[n] = rest(want)
    BY <2>12, <2>14, <2>15, Settles
  <2>18. v[n] = want
    <3>1. v[n].state = want.state /\ rest(v[n]) = rest(want)
      BY <2>15, <2>16, <2>17 DEF vs, vr
    <3> QED
      BY <2>9, <2>15, <3>1 DEF IsRoute
  <2> QED
    BY <2>7, <2>9, <2>15, <2>18
<1> QED
  BY <1>1, <1>2

\* One field of a workload is changed, and the other one is kept.
LEMMA WorkloadFields ==
  ASSUME NEW x, IsWorkload(x), NEW y
  PROVE  /\ [x EXCEPT !.bind = y] = [bind |-> y, req |-> x.req]
         /\ [x EXCEPT !.req = y] = [bind |-> x.bind, req |-> y]
<1>1. PICK b, r : b = x.bind /\ r = x.req
  OBVIOUS
<1>2. x = [bind |-> b, req |-> r]
  BY <1>1 DEF IsWorkload
<1>3. [x EXCEPT !.bind = y] = [bind |-> y, req |-> r]
  BY <1>2
<1>4. [x EXCEPT !.req = y] = [bind |-> b, req |-> y]
  BY <1>2
<1> QED
  BY <1>1, <1>3, <1>4

\* A workload that is wanted ends as it is wanted.
LEMMA WorkloadSet ==
  ASSUME NEW c, NEW at, NEW ops, NEW n, NEW w, NEW want, IsWorkload(want), NEW M, NEW s, Starts(at, s),
         Leads(c, at, ops, n, "workload", w, M), M = WorkloadChanges(s, w, want)
  PROVE  w \in DOMAIN at[n].workload /\ at[n].workload[w] = want
<1> SUFFICES ASSUME Leads(c, at, ops, n, "workload", w, WorkloadChanges(at[0], w, want)), IsSnapshot(at[0])
             PROVE  w \in DOMAIN at[n].workload /\ at[n].workload[w] = want
  BY DEF Starts
<1>1. CASE w \notin DOMAIN at[0].workload
  <2>1. PICK o : o = Carrying("workload_add", w, want)
    OBVIOUS
  <2>2. WorkloadChanges(at[0], w, want) = {o}
    BY <1>1, <2>1 DEF WorkloadChanges
  <2>3. o.kind = "workload_add" /\ o.kind \notin EraseOps /\ o.new = want
    BY <2>1 DEF Carrying, EraseOps
  <2>4. \A u : EntryAfter(u, o) = want
    BY <2>3 DEF EntryAfter, EraseOps, WindowOps, MaintenanceOps
  <2> QED
    BY <1>1, <2>2, <2>3, <2>4, Once
<1>2. CASE w \in DOMAIN at[0].workload
  <2>1. PICK O, e, bind, req :
          /\ O = WorkloadChanges(at[0], w, want) /\ e = at[0].workload[w]
          /\ bind = Bindings(w, want.bind)
          /\ req = Carrying("workload_set_requirements", w, [bind |-> NoBindings, req |-> want.req])
    OBVIOUS
  <2>2. O = When(e.bind # want.bind, bind) \cup When(e.req # want.req, req)
    BY <1>2, <2>1 DEF WorkloadChanges
  <2>3. /\ bind.kind = "workload_set_bindings" /\ bind.new.bind = want.bind /\ bind.id = w
        /\ req.kind = "workload_set_requirements" /\ req.new.req = want.req /\ req.id = w
    BY <2>1 DEF Carrying, Bindings
  <2>4. \A o \in O : o.kind \notin EraseOps /\ o \in {bind, req}
    BY <2>2, <2>3 DEF When, EraseOps
  <2>5. /\ \A u : EntryAfter(u, bind) = [u.workload[w] EXCEPT !.bind = want.bind]
        /\ \A u : EntryAfter(u, req) = [u.workload[w] EXCEPT !.req = want.req]
    BY <2>3 DEF EntryAfter, EraseOps, WindowOps, MaintenanceOps
  <2>6. Leads(c, at, ops, n, "workload", w, O)
    BY <2>1
  <2>7. /\ n \in Nat
        /\ \A j \in 0 .. n : w \in DOMAIN at[j]["workload"] /\ IsSnapshot(at[j])
        /\ \A j \in 1 .. n :
             \/ at[j]["workload"][w] = at[j - 1]["workload"][w]
             \/ ops[j] \in O /\ at[j]["workload"][w] = EntryAfter(at[j - 1], ops[j])
        /\ \A o \in O : \E k \in 1 .. n : at[k]["workload"][w] = EntryAfter(at[k - 1], o)
    BY <1>2, <2>4, <2>6, InTurn
  <2>8. PICK v : v = [j \in 0 .. n |-> at[j].workload[w]]
    OBVIOUS
  <2>9. /\ \A j \in 0 .. n : IsWorkload(v[j]) /\ v[j] = at[j].workload[w]
        /\ v[0] = e
    BY <2>1, <2>7, <2>8 DEF IsSnapshot
  <2>10. ASSUME NEW j \in 1 .. n
         PROVE  /\ \/ v[j] = v[j - 1]
                   \/ v[j].bind = want.bind /\ v[j].req = v[j - 1].req
                   \/ v[j].bind = v[j - 1].bind /\ v[j].req = want.req
                /\ j \in 0 .. n /\ j - 1 \in 0 .. n
    <3>1. j \in 0 .. n /\ j - 1 \in 0 .. n
      BY <2>7
    <3>2. v[j] = at[j].workload[w] /\ v[j - 1] = at[j - 1].workload[w] /\ IsWorkload(v[j - 1])
      BY <2>9, <3>1
    <3>3. \/ v[j] = v[j - 1]
          \/ v[j] = [v[j - 1] EXCEPT !.bind = want.bind]
          \/ v[j] = [v[j - 1] EXCEPT !.req = want.req]
      BY <2>4, <2>5, <2>7, <3>1, <3>2
    <3>4. /\ [v[j - 1] EXCEPT !.bind = want.bind] = [bind |-> want.bind, req |-> v[j - 1].req]
          /\ [v[j - 1] EXCEPT !.req = want.req] = [bind |-> v[j - 1].bind, req |-> want.req]
      BY <3>2, WorkloadFields
    <3> QED
      BY <3>1, <3>3, <3>4
  <2> DEFINE vb == [j \in 0 .. n |-> v[j].bind]
             vr == [j \in 0 .. n |-> v[j].req]
  <2>11. \A j \in 1 .. n : vb[j] = vb[j - 1] \/ vb[j] = want.bind
    BY <2>10
  <2>12. \A j \in 1 .. n : vr[j] = vr[j - 1] \/ vr[j] = want.req
    BY <2>10
  <2>13. \E m \in 0 .. n : vb[m] = want.bind
    <3>1. CASE e.bind = want.bind
      BY <2>7, <2>9, <3>1
    <3>2. CASE e.bind # want.bind
      <4>1. bind \in O
        BY <2>2, <3>2 DEF When
      <4>2. PICK k \in 1 .. n : at[k]["workload"][w] = EntryAfter(at[k - 1], bind)
        BY <2>7, <4>1
      <4>6. at[k].workload[w] = [at[k - 1].workload[w] EXCEPT !.bind = want.bind]
        BY <2>5, <4>2
      <4>3. k \in 0 .. n /\ k - 1 \in 0 .. n
        BY <2>7
      <4>4. v[k] = [v[k - 1] EXCEPT !.bind = want.bind] /\ IsWorkload(v[k - 1])
        BY <2>9, <4>6, <4>3
      <4>5. v[k].bind = want.bind
        BY <4>4, WorkloadFields
      <4> QED
        BY <4>3, <4>5
    <3> QED
      BY <3>1, <3>2
  <2>14. \E m \in 0 .. n : vr[m] = want.req
    <3>1. CASE e.req = want.req
      BY <2>7, <2>9, <3>1
    <3>2. CASE e.req # want.req
      <4>1. req \in O
        BY <2>2, <3>2 DEF When
      <4>2. PICK k \in 1 .. n : at[k]["workload"][w] = EntryAfter(at[k - 1], req)
        BY <2>7, <4>1
      <4>6. at[k].workload[w] = [at[k - 1].workload[w] EXCEPT !.req = want.req]
        BY <2>5, <4>2
      <4>3. k \in 0 .. n /\ k - 1 \in 0 .. n
        BY <2>7
      <4>4. v[k] = [v[k - 1] EXCEPT !.req = want.req] /\ IsWorkload(v[k - 1])
        BY <2>9, <4>6, <4>3
      <4>5. v[k].req = want.req
        BY <4>4, WorkloadFields
      <4> QED
        BY <4>3, <4>5
    <3> QED
      BY <3>1, <3>2
  <2>15. n \in Nat /\ n \in 0 .. n
    BY <2>7
  <2> HIDE DEF vb, vr
  <2>16. vb[n] = want.bind
    BY <2>11, <2>13, <2>15, Settles
  <2>17. vr[n] = want.req
    BY <2>12, <2>14, <2>15, Settles
  <2>18. v[n] = want
    <3>1. v[n].bind = want.bind /\ v[n].req = want.req
      BY <2>15, <2>16, <2>17 DEF vb, vr
    <3> QED
      BY <2>9, <2>15, <3>1 DEF IsWorkload
  <2> QED
    BY <2>7, <2>9, <2>15, <2>18
<1> QED
  BY <1>1, <1>2

\* What an operation makes of a device.
DeviceNext(e, o) ==
  [domain |-> e.domain,
   state |-> IF o.kind \in WindowOps \cup {"device_set_state"} THEN StateAfter(o) ELSE e.state,
   cap |-> IF o.kind = "device_set_capacity" THEN o.new.cap ELSE e.cap,
   res |-> e.res, caps |-> e.caps, budget |-> e.budget,
   excl |-> IF o.kind = "device_set_windows" THEN o.new.excl ELSE e.excl,
   maint |-> IF o.kind = "device_set_windows" THEN o.new.maint ELSE e.maint]

\* The operations that lead a device from state to state.
StateMoves == {"drain_resource", "enter_maintenance", "exit_maintenance", "device_remove"}
Move(from, kind, to) ==
  \/ kind = "drain_resource" /\ from = "present" /\ to = "draining"
  \/ kind = "enter_maintenance" /\ from \notin {"in_maintenance", "removed"} /\ to = "in_maintenance"
  \/ kind = "exit_maintenance" /\ from \in Drained /\ to = "present"
  \/ kind = "device_remove" /\ from # "removed" /\ to = "removed"

\* An operation of one of these kinds is such a move where it is possible.
LEMMA MovePossible ==
  ASSUME NEW c, NEW s, NEW o, NEW d, Possible(c, s, o), o.kind \in StateMoves, o.id = d, d \in DOMAIN s.device
  PROVE  Move(s.device[d].state, o.kind, StateAfter(o))
<1>1. EntityKind(o) = "device"
  BY KindsSplit DEF StateMoves, DeviceOps, MaintenanceOps
<1>2. Known(s, Written(o))
  BY <1>1 DEF Known, Written
<1> DEFINE strict == "drain_before_maintenance" \in c.enforced
           state == IF Known(s, Written(o)) THEN s.device[o.id].state ELSE "removed"
<1>3. state = s.device[d].state
  BY <1>2
<1>4. CASE o.kind \in MaintenanceOps
  <2>1. MaintenancePossible(strict, state, o)
    BY <1>4 DEF Possible, MaintenanceOps, DeviceOps, LinkOps, RouteOps, WorkloadOps, PolicyOps, ConfigOps
  <2>2. StateAfter(o) = CASE o.kind = "drain_resource" -> "draining" [] o.kind = "enter_maintenance" -> "in_maintenance"
                          [] o.kind = "exit_maintenance" -> "present"
    BY <1>4 DEF StateAfter, MaintenanceOps
  <2> QED
    BY <1>3, <1>4, <2>1, <2>2 DEF MaintenancePossible, MaintenanceOps, Move
<1>5. CASE o.kind = "device_remove"
  <2>1. o.kind \in DeviceOps \ MaintenanceOps /\ o.kind \notin MaintenanceOps
    BY <1>5 DEF DeviceOps, MaintenanceOps
  <2>2. DevicePossible(strict, state, o)
    BY <2>1 DEF Possible, MaintenanceOps, DeviceOps, LinkOps, RouteOps, WorkloadOps, PolicyOps, ConfigOps
  <2>3. StateAfter(o) = "removed"
    BY <1>5 DEF StateAfter
  <2> QED
    BY <1>3, <1>5, <2>2, <2>3 DEF DevicePossible, Move
<1> QED
  BY <1>4, <1>5 DEF StateMoves, MaintenanceOps

\* Values that lead from one state to another along the kinds in K, each taken once.
Trail(n, st, at, K) ==
  /\ n \in Nat
  /\ \A j \in 1 .. n : st[j] = st[j - 1] \/ (at[j] \in K /\ Move(st[j - 1], at[j], st[j]))
  /\ \A kind \in K : \E k \in 1 .. n : at[k] = kind /\ Move(st[k - 1], kind, st[k])
  /\ \A i, j \in 1 .. n : at[i] = at[j] /\ at[i] \in K => i = j

\* A device that is drained out of maintenance leaves maintenance first.
LEMMA LeavesFirst ==
  ASSUME NEW n, NEW st, NEW at, Trail(n, st, at, {"drain_resource", "exit_maintenance"}), st[0] = "in_maintenance"
  PROVE  st[n] = "draining"
<1>1. n \in Nat
  BY DEF Trail
<1>2. PICK k \in 1 .. n : at[k] = "drain_resource" /\ st[k - 1] = "present" /\ st[k] = "draining"
  BY DEF Trail, Move
<1>3. PICK x \in 1 .. n : at[x] = "exit_maintenance"
  BY DEF Trail
<1>4. \A j \in 1 .. n : j # k /\ j # x => st[j] = st[j - 1]
  BY <1>2, <1>3 DEF Trail
<1>5. x < k
  <2> SUFFICES ASSUME ~(x < k) PROVE FALSE
    OBVIOUS
  <2>1. k < x
    BY <1>1, <1>2, <1>3
  <2> DEFINE J == {j \in 0 .. n : st[j] = "in_maintenance"}
  <2>2. k - 1 \in Nat /\ 0 \in J /\ 0 \in 0 .. (k - 1) /\ k - 1 \in 0 .. (k - 1)
    BY <1>1
  <2>3. \A j \in (0 + 1) .. (k - 1) : j - 1 \in J => j \in J
    BY <1>1, <1>4, <2>1
  <2>4. \A j \in 0 .. (k - 1) : j \in J
    <3> HIDE DEF J
    <3> QED
      BY <2>2, <2>3, Onwards
  <2> QED
    BY <1>2, <2>2, <2>4
<1> DEFINE J == {j \in 0 .. n : st[j] = "draining"}
<1>6. k \in J /\ k \in 0 .. n /\ n \in k .. n
  BY <1>1, <1>2
<1>7. \A j \in (k + 1) .. n : j - 1 \in J => j \in J
  BY <1>1, <1>4, <1>5
<1>8. \A j \in k .. n : j \in J
  <2> HIDE DEF J
  <2> QED
    BY <1>1, <1>6, <1>7, Onwards
<1> QED
  BY <1>6, <1>8

\* The state that the derived operations lead to is reached.
LEMMA StateReached ==
  ASSUME NEW n, NEW st, NEW at, NEW c, NEW to \in DeviceStates, Trail(n, st, at, StateSteps(c, st[0], to)),
         st[0] \in DeviceStates \ {"removed"}
  PROVE  st[n] = to
<1> DEFINE K == StateSteps(c, st[0], to)
           J == {j \in 0 .. n : st[j] = to}
<1>1. n \in Nat /\ n \in 0 .. n /\ 0 \in 0 .. n
  BY DEF Trail
<1>2. ASSUME \E m \in 0 .. n : st[m] = to,
             \A j \in 1 .. n : at[j] \in K /\ Move(st[j - 1], at[j], st[j]) /\ st[j - 1] = to => st[j] = to
      PROVE  st[n] = to
  <2>1. PICK m \in 0 .. n : st[m] = to
    BY <1>2
  <2>2. \A j \in (m + 1) .. n : j - 1 \in J => j \in J
    BY <1>1, <1>2 DEF Trail
  <2>3. m \in J /\ n \in m .. n
    BY <1>1, <2>1
  <2>4. \A j \in m .. n : j \in J
    <3> HIDE DEF J
    <3> QED
      BY <1>1, <2>2, <2>3, Onwards
  <2> QED
    BY <2>3, <2>4
<1>3. ASSUME NEW kind \in K, \A from, x : Move(from, kind, x) => x = to
      PROVE  \E m \in 0 .. n : st[m] = to
  <2>1. PICK k \in 1 .. n : Move(st[k - 1], kind, st[k])
    BY DEF Trail
  <2>2. k \in 0 .. n /\ st[k] = to
    BY <1>1, <1>3, <2>1
  <2> QED
    BY <2>2
<1>4. CASE to = st[0]
  <2>1. K = {}
    BY <1>4 DEF StateSteps
  <2> QED
    BY <1>1, <1>2, <1>4, <2>1
<1>5. CASE to # st[0] /\ to = "present"
  <2>1. K = {"exit_maintenance"}
    BY <1>5 DEF StateSteps
  <2>2. \A from, x : Move(from, "exit_maintenance", x) => x = to
    BY <1>5 DEF Move
  <2> HIDE DEF K
  <2> QED
    BY <1>2, <1>3, <2>1, <2>2
<1>6. CASE to # st[0] /\ to = "draining" /\ st[0] = "in_maintenance"
  <2>1. K = {"drain_resource", "exit_maintenance"}
    BY <1>6 DEF StateSteps
  <2> QED
    BY <1>6, <2>1, LeavesFirst
<1>7. CASE to # st[0] /\ to = "draining" /\ st[0] # "in_maintenance"
  <2>1. K = {"drain_resource"}
    BY <1>7 DEF StateSteps
  <2>2. \A from, x : Move(from, "drain_resource", x) => x = to
    BY <1>7 DEF Move
  <2> HIDE DEF K
  <2> QED
    BY <1>2, <1>3, <2>1, <2>2
<1>8. CASE to # st[0] /\ to = "in_maintenance"
  <2>1. "enter_maintenance" \in K /\ K \subseteq {"enter_maintenance", "drain_resource"}
    BY <1>8 DEF StateSteps
  <2>2. /\ \A from, x : Move(from, "enter_maintenance", x) => x = to
        /\ \A x : ~Move(to, "drain_resource", x)
    BY <1>8 DEF Move
  <2>3. \A j \in 1 .. n : at[j] \in K /\ Move(st[j - 1], at[j], st[j]) /\ st[j - 1] = to => st[j] = to
    <3> HIDE DEF K
    <3> QED
      BY <2>1, <2>2
  <2> HIDE DEF K
  <2> QED
    BY <1>2, <1>3, <2>1, <2>2, <2>3
<1>9. CASE to # st[0] /\ to = "removed"
  <2>1. "device_remove" \in K /\ K \subseteq {"device_remove", "drain_resource"}
    BY <1>9 DEF StateSteps
  <2>2. /\ \A from, x : Move(from, "device_remove", x) => x = to
        /\ \A x : ~Move(to, "drain_resource", x)
    BY <1>9 DEF Move
  <2>3. \A j \in 1 .. n : at[j] \in K /\ Move(st[j - 1], at[j], st[j]) /\ st[j - 1] = to => st[j] = to
    <3> HIDE DEF K
    <3> QED
      BY <2>1, <2>2
  <2> HIDE DEF K
  <2> QED
    BY <1>2, <1>3, <2>1, <2>2, <2>3
<1> QED
  BY <1>4, <1>5, <1>6, <1>7, <1>8, <1>9 DEF DeviceStates

\* A device that is there and only has operations that change it goes through them in turn.
LEMMA DeviceTrail ==
  ASSUME NEW c, NEW at, NEW ops, NEW n, NEW d, NEW M, Leads(c, at, ops, n, "device", d, M),
         d \in DOMAIN at[0].device, \A o \in M : o.kind \in DeviceOps \ {"device_add"} /\ o.id = d
  PROVE  /\ n \in Nat /\ d \in DOMAIN at[n].device
         /\ \E v : /\ v[0] = at[0].device[d] /\ v[n] = at[n].device[d]
                   /\ \A j \in 0 .. n : IsDevice(v[j])
                   /\ \A j \in 1 .. n :
                        \/ v[j] = v[j - 1]
                        \/ /\ ops[j] \in M /\ v[j] = DeviceNext(v[j - 1], ops[j])
                           /\ ops[j].kind \in StateMoves => Move(v[j - 1].state, ops[j].kind, v[j].state)
                   /\ \A o \in M : \E k \in 1 .. n :
                        /\ ops[k] = o /\ v[k] = DeviceNext(v[k - 1], o)
                        /\ o.kind \in StateMoves => Move(v[k - 1].state, o.kind, v[k].state)
<1>1. \A o \in M : o.kind \notin EraseOps
  BY DEF DeviceOps, MaintenanceOps, EraseOps
<1>2. /\ n \in Nat
      /\ \A j \in 0 .. n : d \in DOMAIN at[j]["device"] /\ IsSnapshot(at[j])
      /\ \A j \in 1 .. n :
           \/ at[j]["device"][d] = at[j - 1]["device"][d]
           \/ /\ ops[j] \in M /\ at[j]["device"][d] = EntryAfter(at[j - 1], ops[j])
              /\ Possible(c, at[j - 1], ops[j])
      /\ \A o \in M : \E k \in 1 .. n :
           /\ ops[k] = o /\ at[k]["device"][d] = EntryAfter(at[k - 1], o)
           /\ Possible(c, at[k - 1], o)
  <2>1. d \in DOMAIN at[0]["device"]
    OBVIOUS
  <2> QED
    BY <1>1, <2>1, InTurn
<1>3. PICK v : v = [j \in 0 .. n |-> at[j].device[d]]
  OBVIOUS
<1>4. ASSUME NEW j \in 0 .. n
      PROVE  v[j] = at[j].device[d] /\ IsDevice(v[j]) /\ d \in DOMAIN at[j].device
  BY <1>2, <1>3 DEF IsSnapshot
<1>5. ASSUME NEW j \in 1 .. n, NEW o \in M, at[j]["device"][d] = EntryAfter(at[j - 1], o), Possible(c, at[j - 1], o)
      PROVE  /\ v[j] = DeviceNext(v[j - 1], o)
             /\ o.kind \in StateMoves => Move(v[j - 1].state, o.kind, v[j].state)
  <2>1. j \in 0 .. n /\ j - 1 \in 0 .. n
    BY <1>2
  <2>2. PICK s, e : s = at[j - 1] /\ e = v[j - 1]
    OBVIOUS
  <2>3. e = s.device[d] /\ IsDevice(e) /\ v[j] = EntryAfter(s, o) /\ d \in DOMAIN s.device /\ Possible(c, s, o)
    BY <1>4, <1>5, <2>1, <2>2
  <2>4. v[j] = DeviceNext(e, o)
    BY <2>3, DeviceAfter DEF DeviceNext
  <2>5. ASSUME o.kind \in StateMoves PROVE Move(e.state, o.kind, v[j].state)
    <3>1. Move(e.state, o.kind, StateAfter(o))
      BY <2>3, <2>5, MovePossible
    <3>2. v[j].state = StateAfter(o)
      BY <2>4, <2>5 DEF DeviceNext, StateMoves, WindowOps, MaintenanceOps
    <3> QED
      BY <3>1, <3>2
  <2> QED
    BY <2>2, <2>4, <2>5
<1>6. \A j \in 1 .. n :
        \/ v[j] = v[j - 1]
        \/ /\ ops[j] \in M /\ v[j] = DeviceNext(v[j - 1], ops[j])
           /\ ops[j].kind \in StateMoves => Move(v[j - 1].state, ops[j].kind, v[j].state)
  <2> SUFFICES ASSUME NEW j \in 1 .. n, v[j] # v[j - 1]
               PROVE  /\ ops[j] \in M /\ v[j] = DeviceNext(v[j - 1], ops[j])
                      /\ ops[j].kind \in StateMoves => Move(v[j - 1].state, ops[j].kind, v[j].state)
    OBVIOUS
  <2>1. j \in 0 .. n /\ j - 1 \in 0 .. n
    BY <1>2
  <2>2. at[j]["device"][d] # at[j - 1]["device"][d]
    BY <1>4, <2>1
  <2>3. ops[j] \in M /\ at[j]["device"][d] = EntryAfter(at[j - 1], ops[j]) /\ Possible(c, at[j - 1], ops[j])
    BY <1>2, <2>2
  <2> QED
    BY <1>5, <2>3
<1>7. \A o \in M : \E k \in 1 .. n :
        /\ ops[k] = o /\ v[k] = DeviceNext(v[k - 1], o)
        /\ o.kind \in StateMoves => Move(v[k - 1].state, o.kind, v[k].state)
  <2> SUFFICES ASSUME NEW o \in M
               PROVE  \E k \in 1 .. n :
                        /\ ops[k] = o /\ v[k] = DeviceNext(v[k - 1], o)
                        /\ o.kind \in StateMoves => Move(v[k - 1].state, o.kind, v[k].state)
    OBVIOUS
  <2>1. PICK k \in 1 .. n : /\ ops[k] = o /\ at[k]["device"][d] = EntryAfter(at[k - 1], o)
                            /\ Possible(c, at[k - 1], o)
    BY <1>2
  <2> QED
    BY <1>5, <2>1
<1>8. 0 \in 0 .. n /\ n \in 0 .. n
  BY <1>2
<1>9. v[0] = at[0].device[d] /\ v[n] = at[n].device[d] /\ d \in DOMAIN at[n].device
  BY <1>4, <1>8
<1> QED
  BY <1>2, <1>4, <1>6, <1>7, <1>9

\* The operations on a device that change its state are those that lead from one state to another,
\* without fields of their own.
Leading(c, from, to, d) == {Bare(kind, d) : kind \in StateSteps(c, from, to)}

\* Their kinds are moves, and an operation of them is known by its kind.
LEMMA LeadingIs ==
  ASSUME NEW c, NEW from, NEW to, NEW d, to \in DeviceStates
  PROVE  /\ StateSteps(c, from, to) \subseteq StateMoves
         /\ \A o \in Leading(c, from, to, d) :
              o.kind \in StateSteps(c, from, to) /\ o.kind \in StateMoves /\ o.id = d /\ o = Bare(o.kind, d)
         /\ \A kind \in StateSteps(c, from, to) :
              Bare(kind, d) \in Leading(c, from, to, d) /\ Bare(kind, d).kind = kind
<1>1. StateSteps(c, from, to) \subseteq StateMoves
  BY DEF StateSteps, DeviceStates, StateMoves
<1> QED
  BY <1>1 DEF Leading, Bare

\* A device is there, in this state.
InState(s, d, state) == d \in DOMAIN s.device /\ s.device[d].state = state

\* Where the state of a device is changed by these operations only, they bring it to what they lead to.
LEMMA StateBrought ==
  ASSUME NEW c, NEW c0, NEW at, NEW ops, NEW n, NEW d, NEW M, NEW from, NEW to, NEW L,
         Leads(c, at, ops, n, "device", d, M), to \in DeviceStates, IsSnapshot(at[0]),
         InState(at[0], d, from), from # "removed",
         L = Leading(c0, from, to, d), L \subseteq M,
         \A o \in M : \/ o \in L
                      \/ o.kind \in {"device_set_capacity", "device_set_windows"} /\ o.id = d
  PROVE  InState(at[n], d, to)
<1>0. d \in DOMAIN at[0].device /\ at[0].device[d].state = from
  BY DEF InState
<1>1. PICK K : K = StateSteps(c0, from, to)
  OBVIOUS
<1>2. from \in DeviceStates \ {"removed"}
  BY <1>0 DEF IsSnapshot, IsDevice
<1>4. /\ K \subseteq StateMoves
      /\ \A o \in L : o.kind \in K /\ o.id = d /\ o = Bare(o.kind, d)
      /\ \A kind \in K : Bare(kind, d) \in L /\ Bare(kind, d).kind = kind
  BY <1>1, LeadingIs
<1>5. /\ L \subseteq M
      /\ \A o \in M : o \in L \/ (o.kind \in {"device_set_capacity", "device_set_windows"} /\ o.id = d)
  OBVIOUS
<1>6. \A o \in M : o.kind \in DeviceOps \ {"device_add"} /\ o.id = d
  BY <1>4, <1>5 DEF StateMoves, DeviceOps, MaintenanceOps
<1>7. PICK v :
        /\ n \in Nat /\ d \in DOMAIN at[n].device
        /\ v[0] = at[0].device[d] /\ v[n] = at[n].device[d]
        /\ \A j \in 1 .. n :
             \/ v[j] = v[j - 1]
             \/ /\ ops[j] \in M /\ v[j] = DeviceNext(v[j - 1], ops[j])
                /\ ops[j].kind \in StateMoves => Move(v[j - 1].state, ops[j].kind, v[j].state)
        /\ \A o \in M : \E k \in 1 .. n :
             /\ ops[k] = o
             /\ o.kind \in StateMoves => Move(v[k - 1].state, o.kind, v[k].state)
  BY <1>0, <1>6, DeviceTrail
<1>8. PICK st, kinds : /\ st = [j \in 0 .. n |-> v[j].state]
                       /\ kinds = [j \in 1 .. n |-> IF ops[j] \in M THEN ops[j].kind ELSE "none"]
  OBVIOUS
<1>9. ASSUME NEW j \in 1 .. n
      PROVE  st[j] = v[j].state /\ st[j - 1] = v[j - 1].state /\ kinds[j] = IF ops[j] \in M THEN ops[j].kind ELSE "none"
  <2>1. j \in 0 .. n /\ j - 1 \in 0 .. n
    BY <1>7
  <2> QED
    BY <1>8, <2>1
<1>10. \A j \in 1 .. n : st[j] = st[j - 1] \/ (kinds[j] \in K /\ Move(st[j - 1], kinds[j], st[j]))
  <2> SUFFICES ASSUME NEW j \in 1 .. n, st[j] # st[j - 1]
               PROVE  kinds[j] \in K /\ Move(st[j - 1], kinds[j], st[j])
    OBVIOUS
  <2>1. /\ ops[j] \in M /\ v[j] = DeviceNext(v[j - 1], ops[j])
        /\ ops[j].kind \in StateMoves => Move(v[j - 1].state, ops[j].kind, v[j].state)
    BY <1>7, <1>9
  <2>2. ops[j].kind \notin {"device_set_capacity", "device_set_windows"}
    <3> SUFFICES ASSUME ops[j].kind \in {"device_set_capacity", "device_set_windows"} PROVE FALSE
      OBVIOUS
    <3>1. v[j].state = v[j - 1].state
      BY <2>1 DEF DeviceNext, WindowOps, MaintenanceOps
    <3> QED
      BY <1>9, <3>1
  <2>3. ops[j].kind \in K
    BY <1>4, <1>5, <2>1, <2>2
  <2> QED
    BY <1>4, <1>9, <2>1, <2>3
<1>11. \A kind \in K : \E k \in 1 .. n : kinds[k] = kind /\ Move(st[k - 1], kind, st[k])
  <2> SUFFICES ASSUME NEW kind \in K
               PROVE  \E k \in 1 .. n : kinds[k] = kind /\ Move(st[k - 1], kind, st[k])
    OBVIOUS
  <2>1. PICK o : o = Bare(kind, d) /\ o \in M /\ o.kind = kind /\ kind \in StateMoves
    BY <1>4, <1>5
  <2>2. PICK k \in 1 .. n : ops[k] = o /\ Move(v[k - 1].state, kind, v[k].state)
    BY <1>7, <2>1
  <2> QED
    BY <1>9, <2>1, <2>2
<1>12. \A i, j \in 1 .. n : kinds[i] = kinds[j] /\ kinds[i] \in K => i = j
  <2> SUFFICES ASSUME NEW i \in 1 .. n, NEW j \in 1 .. n, kinds[i] = kinds[j], kinds[i] \in K PROVE i = j
    OBVIOUS
  <2>1. kinds[i] \in StateMoves /\ "none" \notin StateMoves /\ "device_set_capacity" \notin StateMoves
        /\ "device_set_windows" \notin StateMoves
    BY <1>4 DEF StateMoves
  <2>2. ops[i] \in L /\ ops[j] \in L /\ ops[i].kind = ops[j].kind
    BY <1>5, <1>9, <2>1
  <2>3. ops[i] = ops[j]
    BY <1>4, <2>2
  <2> QED
    BY <2>3 DEF Leads
<1>13. Trail(n, st, kinds, K)
  BY <1>7, <1>10, <1>11, <1>12 DEF Trail
<1>14. st[0] = from /\ st[n] = at[n].device[d].state
  <2>1. 0 \in 0 .. n /\ n \in 0 .. n
    BY <1>7
  <2> QED
    BY <1>0, <1>7, <1>8, <2>1
<1>15. st[n] = to
  BY <1>1, <1>2, <1>13, <1>14, StateReached
<1> QED
  BY <1>7, <1>14, <1>15 DEF InState

-----------------------------------------------------------------------------
(* What a way leaves of an entity that is to go                            *)

\* A device that can be as it is wanted: the fields that cannot be changed are.
DeviceFits(s, d, want) ==
  d \in DOMAIN s.device =>
    /\ s.device[d].state # "removed"
    /\ <<s.device[d].domain, s.device[d].caps, s.device[d].budget>> = <<want.domain, want.caps, want.budget>>

\* A device that is wanted, with the fields that cannot be changed as they are, ends as it is
\* wanted, but for its reservations: they stay as they were.
LEMMA DeviceSet ==
  ASSUME NEW c, NEW c0, NEW at, NEW ops, NEW n, NEW d, NEW want, IsDevice(want), NEW M,
         NEW s, Starts(at, s), Leads(c, at, ops, n, "device", d, M), M = DeviceChanges(c0, s, d, want),
         DeviceFits(s, d, want)
  PROVE  /\ d \in DOMAIN at[n].device
         /\ at[n].device[d] = [want EXCEPT !.res = at[n].device[d].res]
         /\ d \in DOMAIN s.device => at[n].device[d].res = s.device[d].res
<1> SUFFICES ASSUME M = DeviceChanges(c0, at[0], d, want), IsSnapshot(at[0]),
                    d \in DOMAIN at[0].device =>
                      /\ at[0].device[d].state # "removed"
                      /\ <<at[0].device[d].domain, at[0].device[d].caps, at[0].device[d].budget>>
                           = <<want.domain, want.caps, want.budget>>
             PROVE  /\ d \in DOMAIN at[n].device
                    /\ at[n].device[d] = [want EXCEPT !.res = at[n].device[d].res]
                    /\ d \in DOMAIN at[0].device => at[n].device[d].res = at[0].device[d].res
  BY DEF Starts, DeviceFits
<1>1. PICK wd, ws, wc, wr, wp, wb, we, wm :
        want = [domain |-> wd, state |-> ws, cap |-> wc, res |-> wr, caps |-> wp, budget |-> wb,
                excl |-> we, maint |-> wm]
  BY DEF IsDevice
<1>2. CASE d \notin DOMAIN at[0].device
  <2>1. PICK o : o = Carrying("device_add", d, want)
    OBVIOUS
  <2>2. M = {o}
    BY <1>2, <2>1 DEF DeviceChanges
  <2>3. o.kind = "device_add" /\ o.kind \notin EraseOps /\ o.new = want
    BY <2>1 DEF Carrying, EraseOps
  <2>4. \A u : EntryAfter(u, o) = want
    BY <2>3 DEF EntryAfter, EraseOps, WindowOps, MaintenanceOps
  <2>5. d \in DOMAIN at[n]["device"] /\ at[n]["device"][d] = want
    BY <2>2, <2>3, <2>4, Once
  <2>6. [want EXCEPT !.res = want.res] = want
    BY <1>1
  <2> QED
    BY <1>2, <2>5, <2>6
<1>3. CASE d \in DOMAIN at[0].device
  <2>1. PICK e, L, cap, win :
          /\ e = at[0].device[d] /\ L = Leading(c0, e.state, want.state, d)
          /\ cap = Carrying("device_set_capacity", d, want)
          /\ win = Carrying("device_set_windows", d, want)
    OBVIOUS
  <2>2. PICK T, U : /\ T = When(<<e.cap, e.res>> # <<want.cap, want.res>>, cap)
                    /\ U = When(<<e.excl, e.maint>> # <<want.excl, want.maint>>, win)
    OBVIOUS
  <2>3. M = L \cup T \cup U
    BY <1>3, <2>1, <2>2, Zenon DEF DeviceChanges, Leading
  <2>4. /\ cap.kind = "device_set_capacity" /\ cap.id = d /\ cap.new = want
        /\ win.kind = "device_set_windows" /\ win.id = d /\ win.new = want
        /\ T \subseteq {cap} /\ U \subseteq {win}
        /\ e.cap # want.cap => cap \in T
        /\ e.excl # want.excl \/ e.maint # want.maint => win \in U
    BY <2>1, <2>2 DEF Carrying, When
  <2>5. IsDevice(e) /\ want.state \in DeviceStates
    BY <1>3, <2>1 DEF IsSnapshot, IsDevice
  <2>6. \A o \in L : o.kind \in StateMoves /\ o.id = d
    <3>1. \A o \in Leading(c0, e.state, want.state, d) : o.kind \in StateMoves /\ o.id = d
      BY <2>5, LeadingIs
    <3> QED
      BY <2>1, <3>1
  <2>7. \A o \in M : o.kind \in DeviceOps \ {"device_add"} /\ o.id = d
    BY <2>3, <2>4, <2>6 DEF StateMoves, DeviceOps, MaintenanceOps
  <2>8. d \in DOMAIN at[n].device /\ at[n].device[d].state = want.state
    <3>1. PICK from, to : from = e.state /\ to = want.state
      OBVIOUS
    <3>2. InState(at[0], d, from) /\ from # "removed" /\ to \in DeviceStates
      BY <1>3, <2>1, <2>5, <3>1 DEF InState
    <3>3. L = Leading(c0, from, to, d) /\ L \subseteq M
      BY <2>1, <2>3, <3>1
    <3>4. \A o \in M : o \in L \/ (o.kind \in {"device_set_capacity", "device_set_windows"} /\ o.id = d)
      BY <2>3, <2>4
    <3>5. InState(at[n], d, to)
      BY <3>2, <3>3, <3>4, StateBrought
    <3> QED
      BY <3>1, <3>5 DEF InState
  <2>9. PICK v :
          /\ n \in Nat
          /\ v[0] = at[0].device[d] /\ v[n] = at[n].device[d]
          /\ \A j \in 0 .. n : IsDevice(v[j])
          /\ \A j \in 1 .. n :
               \/ v[j] = v[j - 1]
               \/ ops[j] \in M /\ v[j] = DeviceNext(v[j - 1], ops[j])
          /\ \A o \in M : \E k \in 1 .. n : v[k] = DeviceNext(v[k - 1], o)
    BY <1>3, <2>7, DeviceTrail
  <2> DEFINE rest(x) == <<x.domain, x.res, x.caps, x.budget>>
             wins(x) == <<x.excl, x.maint>>
             vr == [j \in 0 .. n |-> rest(v[j])]
             vc == [j \in 0 .. n |-> v[j].cap]
             vw == [j \in 0 .. n |-> wins(v[j])]
  <2>10. ASSUME NEW j \in 1 .. n
         PROVE  /\ j \in 0 .. n /\ j - 1 \in 0 .. n
                /\ rest(v[j]) = rest(v[j - 1])
                /\ v[j].cap = v[j - 1].cap \/ v[j].cap = want.cap
                /\ wins(v[j]) = wins(v[j - 1]) \/ wins(v[j]) = wins(want)
    <3>1. j \in 0 .. n /\ j - 1 \in 0 .. n
      BY <2>9
    <3>2. CASE v[j] = v[j - 1]
      BY <3>1, <3>2
    <3>3. CASE v[j] # v[j - 1]
      <4>1. PICK o \in M : v[j] = DeviceNext(v[j - 1], o)
        BY <2>9, <3>3
      <4>2. PICK x, y : x = v[j - 1] /\ y = v[j]
        OBVIOUS
      <4>3. y = DeviceNext(x, o)
        BY <4>1, <4>2
      <4>4. rest(y) = rest(x)
        BY <4>3 DEF DeviceNext
      <4>5. y.cap = x.cap \/ y.cap = want.cap
        <5>1. o.kind = "device_set_capacity" => o.new = want
          BY <2>3, <2>4, <2>6 DEF StateMoves
        <5> QED
          BY <4>3, <5>1 DEF DeviceNext
      <4>6. wins(y) = wins(x) \/ wins(y) = wins(want)
        <5>1. o.kind = "device_set_windows" => o.new = want
          BY <2>3, <2>4, <2>6 DEF StateMoves
        <5> QED
          BY <4>3, <5>1 DEF DeviceNext
      <4> QED
        BY <3>1, <4>2, <4>4, <4>5, <4>6
    <3> QED
      BY <3>2, <3>3
  <2>11. n \in 0 .. n /\ 0 \in 0 .. n /\ v[0] = e
    BY <2>1, <2>9
  <2>12. vr[n] = rest(e)
    <3>1. vr[0] = rest(e)
      BY <2>11
    <3>2. \A j \in 1 .. n : vr[j] = vr[j - 1]
      BY <2>10
    <3> HIDE DEF vr
    <3> QED
      BY <2>9, <2>11, <3>1, <3>2, Settles
  <2>13. vc[n] = want.cap
    <3>1. \A j \in 1 .. n : vc[j] = vc[j - 1] \/ vc[j] = want.cap
      BY <2>10
    <3>2. \E m \in 0 .. n : vc[m] = want.cap
      <4>1. CASE e.cap = want.cap
        BY <2>11, <4>1
      <4>2. CASE e.cap # want.cap
        <5>1. cap \in M
          BY <2>3, <2>4, <4>2
        <5>2. PICK k \in 1 .. n : v[k] = DeviceNext(v[k - 1], cap)
          BY <2>9, <5>1
        <5>3. v[k].cap = want.cap
          BY <2>4, <5>2 DEF DeviceNext
        <5> QED
          BY <2>10, <5>3
      <4> QED
        BY <4>1, <4>2
    <3> HIDE DEF vc
    <3> QED
      BY <2>9, <3>1, <3>2, Settles
  <2>14. vw[n] = wins(want)
    <3>1. \A j \in 1 .. n : vw[j] = vw[j - 1] \/ vw[j] = wins(want)
      BY <2>10
    <3>2. \E m \in 0 .. n : vw[m] = wins(want)
      <4>1. CASE e.excl = want.excl /\ e.maint = want.maint
        BY <2>11, <4>1
      <4>2. CASE e.excl # want.excl \/ e.maint # want.maint
        <5>1. win \in M
          BY <2>3, <2>4, <4>2
        <5>2. PICK k \in 1 .. n : v[k] = DeviceNext(v[k - 1], win)
          BY <2>9, <5>1
        <5>3. wins(v[k]) = wins(want)
          BY <2>4, <5>2 DEF DeviceNext
        <5> QED
          BY <2>10, <5>3
      <4> QED
        BY <4>1, <4>2
    <3>3. PICK w : w = wins(want)
      OBVIOUS
    <3> HIDE DEF vw
    <3>4. /\ \A j \in 1 .. n : vw[j] = vw[j - 1] \/ vw[j] = w
          /\ \E m \in 0 .. n : vw[m] = w
      BY <3>1, <3>2, <3>3
    <3> HIDE DEF wins
    <3>5. vw[n] = w
      BY <2>9, <3>4, Settles
    <3> QED
      BY <3>3, <3>5
  <2>22. v[n] = at[n].device[d] /\ IsDevice(v[n])
    BY <2>9, <2>11
  <2>15. PICK z : z = at[n].device[d] /\ IsDevice(z)
    BY <2>22
  <2>21. rest(z) = rest(e) /\ z.cap = want.cap /\ wins(z) = wins(want) /\ z.state = want.state
    BY <2>8, <2>9, <2>11, <2>12, <2>13, <2>14, <2>15
  <2>16. /\ z.state = want.state /\ z.cap = want.cap
         /\ z.domain = e.domain /\ z.res = e.res /\ z.caps = e.caps /\ z.budget = e.budget
         /\ z.excl = want.excl /\ z.maint = want.maint
    BY <2>21
  <2>17. e.domain = want.domain /\ e.caps = want.caps /\ e.budget = want.budget
    BY <1>3, <2>1
  <2>18. PICK r : r = z.res
    OBVIOUS
  <2>19. z = [domain |-> wd, state |-> ws, cap |-> wc, res |-> r, caps |-> wp, budget |-> wb,
              excl |-> we, maint |-> wm]
    BY <1>1, <2>15, <2>16, <2>17, <2>18 DEF IsDevice
  <2>20. z = [want EXCEPT !.res = r]
    BY <1>1, <2>19
  <2> QED
    BY <1>3, <2>1, <2>8, <2>15, <2>16, <2>18, <2>20
<1> QED
  BY <1>2, <1>3

\* A device that is to be removed ends removed.
LEMMA DeviceGone ==
  ASSUME NEW c, NEW c0, NEW at, NEW ops, NEW n, NEW d, NEW M, NEW from,
         Leads(c, at, ops, n, "device", d, M), IsSnapshot(at[0]), Exists(at[0], <<"device", d>>),
         from = at[0].device[d].state, M = Leading(c0, from, "removed", d)
  PROVE  ~Exists(at[n], <<"device", d>>)
<1>1. InState(at[0], d, from) /\ from # "removed"
  BY DEF Exists, Known, InState
<1>2. "removed" \in DeviceStates
  BY DEF DeviceStates
<1>3. \A o \in M : o \in M \/ (o.kind \in {"device_set_capacity", "device_set_windows"} /\ o.id = d)
  OBVIOUS
<1>4. PICK L : L = M
  OBVIOUS
<1>5. InState(at[n], d, "removed")
  BY <1>1, <1>2, <1>3, <1>4, StateBrought
<1> QED
  BY <1>5 DEF Exists, InState

\* So does a link,
LEMMA LinkGone ==
  ASSUME NEW c, NEW at, NEW ops, NEW n, NEW l, NEW M, M = {Bare("link_remove", l)},
         Leads(c, at, ops, n, "link", l, M), IsSnapshot(at[0]), Exists(at[0], <<"link", l>>)
  PROVE  ~Exists(at[n], <<"link", l>>)
<1>1. PICK o : o = Bare("link_remove", l) /\ M = {o}
  OBVIOUS
<1>2. o.kind = "link_remove" /\ o.kind \notin EraseOps /\ o.id = l
  BY <1>1 DEF Bare, EraseOps
<1>3. l \in DOMAIN at[0]["link"]
  BY DEF Exists, Known
<1>4. PICK k \in 1 .. n :
        /\ at[n]["link"][l] = EntryAfter(at[k - 1], o)
        /\ l \in DOMAIN at[k - 1]["link"] /\ IsSnapshot(at[k - 1])
  BY <1>1, <1>2, <1>3, Once
<1>5. PICK e : e = at[k - 1].link[l] /\ IsLink(e)
  BY <1>4 DEF IsSnapshot
<1>6. EntryAfter(at[k - 1], o) = [e EXCEPT !.state = "removed"]
  BY <1>2, <1>5 DEF EntryAfter, EraseOps, WindowOps, MaintenanceOps
<1>7. at[n].link[l].state = "removed"
  BY <1>4, <1>5, <1>6 DEF IsLink
<1> QED
  BY <1>7 DEF Exists

\* and what is erased once is not there.
LEMMA ErasedGone ==
  ASSUME NEW c, NEW at, NEW ops, NEW n, NEW kind, NEW id, NEW o, NEW M,
         kind \in {"route", "policy", "config"}, M = {o},
         Leads(c, at, ops, n, kind, id, M), o.kind \in EraseOps
  PROVE  ~Exists(at[n], <<kind, id>>)
<1>1. id \notin DOMAIN at[n][kind]
  BY Once
<1> QED
  BY <1>1 DEF Exists, Known

\* A workload may have its bindings set besides, before it is removed.
LEMMA WorkloadGone ==
  ASSUME NEW c, NEW at, NEW ops, NEW n, NEW w, NEW M,
         Leads(c, at, ops, n, "workload", w, M), Bare("workload_remove", w) \in M,
         \A o \in M : o.kind \in {"workload_remove", "workload_set_bindings"}
  PROVE  ~Exists(at[n], <<"workload", w>>)
<1>1. Way(c, at, ops, n) /\ n \in Nat /\ "workload" \in EntityKinds
  BY DEF Leads, Way
<1>2. PICK o : o = Bare("workload_remove", w) /\ o \in M /\ o.kind \in EraseOps
  BY DEF Bare, EraseOps
<1>3. PICK k \in 1 .. n : ops[k] = o /\ Written(ops[k]) = <<"workload", w>>
  BY <1>2 DEF Leads
<1>4. w \notin DOMAIN at[k]["workload"] /\ k \in 0 .. n
  BY <1>1, <1>2, <1>3, WayStep
<1>5. \A i \in (k + 1) .. n :
        Written(ops[i]) = <<"workload", w>> => ops[i].kind \notin AddOps \cup {"policy_bind", "config_set"}
  BY <1>1 DEF Leads, AddOps
<1>6. w \notin DOMAIN at[n]["workload"]
  BY <1>1, <1>4, <1>5, StaysAway
<1> QED
  BY <1>6 DEF Exists, Known

-----------------------------------------------------------------------------
(* What is derived for one entity                                          *)

\* What is to be removed, where it is there.
Goes(s, t, kind, id) == id \in t.remove[kind] /\ Exists(s, <<kind, id>>)

\* What is derived for an entity that is wanted, and for one that goes.
PolicyWanted(s, t, p, o) ==
  /\ p \in DOMAIN t.ensure.policy
  /\ o \in When(p \notin DOMAIN s.policy \/ s.policy[p] # t.ensure.policy[p],
                Carrying("policy_bind", p, t.ensure.policy[p]))
ConfigWanted(s, t, e, o) ==
  /\ e \in DOMAIN t.ensure.config
  /\ o \in When(e \notin DOMAIN s.config \/ s.config[e].value # t.ensure.config[e].value,
                Carrying("config_set", e, [value |-> t.ensure.config[e].value]))
Rebinds(s, r, o) ==
  \E w \in DOMAIN s.workload :
    /\ r \in DOMAIN s.workload[w].bind
    /\ o = Bindings(w, [q \in DOMAIN s.workload[w].bind \ {r} |-> s.workload[w].bind[q]])

Wanted(c, s, t, o) ==
  \/ \E d \in DOMAIN t.ensure.device : o \in DeviceChanges(c, s, d, t.ensure.device[d])
  \/ \E l \in DOMAIN t.ensure.link : o \in LinkChanges(s, l, t.ensure.link[l])
  \/ \E r \in DOMAIN t.ensure.route : o \in RouteChanges(s, r, t.ensure.route[r])
  \/ \E w \in DOMAIN t.ensure.workload : o \in WorkloadChanges(s, w, t.ensure.workload[w])
  \/ \E p : PolicyWanted(s, t, p, o)
  \/ \E e : ConfigWanted(s, t, e, o)

Going(c, s, t, o) ==
  \/ \E d : Goes(s, t, "device", d) /\ o \in Leading(c, s.device[d].state, "removed", d)
  \/ \E l : Goes(s, t, "link", l) /\ o = Bare("link_remove", l)
  \/ \E r : Goes(s, t, "route", r) /\ (Rebinds(s, r, o) \/ o = Bare("route_remove", r))
  \/ \E w : Goes(s, t, "workload", w) /\ o = Bare("workload_remove", w)
  \/ \E p : Goes(s, t, "policy", p) /\ o = Bare("policy_unbind", p)
  \/ \E e : Goes(s, t, "config", e) /\ o = Bare("config_clear", e)

\* What removes a route from a snapshot.
LEMMA RouteRemovalHolds ==
  ASSUME NEW s, NEW r, NEW o
  PROVE  o \in RouteRemoval(s, r) <=> Rebinds(s, r, o) \/ o = Bare("route_remove", r)
<1> DEFINE users == {v \in DOMAIN s.workload : r \in DOMAIN s.workload[v].bind}
           Rest(w) == [q \in DOMAIN s.workload[w].bind \ {r} |-> s.workload[w].bind[q]]
           ops == {Bindings(w, Rest(w)) : w \in users}
<1>1. RouteRemoval(s, r) = ops \cup {Bare("route_remove", r)}
  BY Zenon DEF RouteRemoval
<1>2. o \in ops <=> Rebinds(s, r, o)
  BY Zenon DEF Rebinds
<1> HIDE DEF ops
<1> QED
  BY <1>1, <1>2

\* An operation is derived for something that goes
LEMMA GoingIs ==
  ASSUME NEW c, NEW s, NEW t, NEW o
  PROVE  o \in Removals(c, s, t) <=> Going(c, s, t, o)
<1> DEFINE There(kind) == {i \in t.remove[kind] : Exists(s, <<kind, i>>)}
           A == UNION {{Bare(kind, d) : kind \in StateSteps(c, s.device[d].state, "removed")} : d \in There("device")}
           B == {Bare("link_remove", l) : l \in There("link")}
           C == UNION {RouteRemoval(s, r) : r \in There("route")}
           D == {Bare("workload_remove", w) : w \in There("workload")}
           E == {Bare("policy_unbind", p) : p \in There("policy")}
           F == {Bare("config_clear", e) : e \in There("config")}
<1>1. Removals(c, s, t) = A \cup B \cup C \cup D \cup E \cup F
  BY Zenon DEF Removals
<1>2. \A kind, i : i \in There(kind) <=> Goes(s, t, kind, i)
  BY DEF Goes
<1> HIDE DEF There
<1>3. o \in A <=> \E d : Goes(s, t, "device", d) /\ o \in Leading(c, s.device[d].state, "removed", d)
  BY <1>2, Zenon DEF Leading
<1>4. o \in B <=> \E l : Goes(s, t, "link", l) /\ o = Bare("link_remove", l)
  BY <1>2, Zenon
<1>5. o \in C <=> \E r : Goes(s, t, "route", r) /\ (Rebinds(s, r, o) \/ o = Bare("route_remove", r))
  <2>1. o \in C <=> \E r : Goes(s, t, "route", r) /\ o \in RouteRemoval(s, r)
    BY <1>2, Zenon
  <2> QED
    BY <2>1, RouteRemovalHolds, Zenon
<1>6. o \in D <=> \E w : Goes(s, t, "workload", w) /\ o = Bare("workload_remove", w)
  BY <1>2, Zenon
<1>7. o \in E <=> \E p : Goes(s, t, "policy", p) /\ o = Bare("policy_unbind", p)
  BY <1>2, Zenon
<1>8. o \in F <=> \E e : Goes(s, t, "config", e) /\ o = Bare("config_clear", e)
  BY <1>2, Zenon
<1> HIDE DEF A, B, C, D, E, F
<1>9. o \in Removals(c, s, t) <=> o \in A \/ o \in B \/ o \in C \/ o \in D \/ o \in E \/ o \in F
  BY <1>1
<1> QED
  BY <1>3, <1>4, <1>5, <1>6, <1>7, <1>8, <1>9, Zenon DEF Going

\* or for something that is wanted.
LEMMA DerivedIs ==
  ASSUME NEW c, NEW s, NEW t, NEW o
  PROVE  o \in Derived(c, s, t) <=> Going(c, s, t, o) \/ Wanted(c, s, t, o)
<1> DEFINE want == t.ensure
           policies == {x \in DOMAIN want.policy : x \notin DOMAIN s.policy \/ s.policy[x] # want.policy[x]}
           entries == {x \in DOMAIN want.config :
                         x \notin DOMAIN s.config \/ s.config[x].value # want.config[x].value}
           R == Removals(c, s, t)
           A == UNION {DeviceChanges(c, s, d, want.device[d]) : d \in DOMAIN want.device}
           B == UNION {LinkChanges(s, l, want.link[l]) : l \in DOMAIN want.link}
           C == UNION {RouteChanges(s, r, want.route[r]) : r \in DOMAIN want.route}
           D == UNION {WorkloadChanges(s, w, want.workload[w]) : w \in DOMAIN want.workload}
           E == {Carrying("policy_bind", p, want.policy[p]) : p \in policies}
           F == {Carrying("config_set", e, [value |-> want.config[e].value]) : e \in entries}
<1>1. Derived(c, s, t) = R \cup A \cup B \cup C \cup D \cup E \cup F
  BY Zenon DEF Derived
<1>2. o \in R <=> Going(c, s, t, o)
  BY GoingIs
<1>3. o \in A <=> \E d \in DOMAIN t.ensure.device : o \in DeviceChanges(c, s, d, t.ensure.device[d])
  BY Zenon
<1>4. o \in B <=> \E l \in DOMAIN t.ensure.link : o \in LinkChanges(s, l, t.ensure.link[l])
  BY Zenon
<1>5. o \in C <=> \E r \in DOMAIN t.ensure.route : o \in RouteChanges(s, r, t.ensure.route[r])
  BY Zenon
<1>6. o \in D <=> \E w \in DOMAIN t.ensure.workload : o \in WorkloadChanges(s, w, t.ensure.workload[w])
  BY Zenon
<1>7. o \in E <=> \E p : PolicyWanted(s, t, p, o)
  <2>1. \A p : PolicyWanted(s, t, p, o) <=> p \in policies /\ o = Carrying("policy_bind", p, want.policy[p])
    BY DEF PolicyWanted, When
  <2> HIDE DEF policies
  <2> QED
    BY <2>1, Zenon
<1>8. o \in F <=> \E e : ConfigWanted(s, t, e, o)
  <2>1. \A e : ConfigWanted(s, t, e, o)
                 <=> e \in entries /\ o = Carrying("config_set", e, [value |-> want.config[e].value])
    BY DEF ConfigWanted, When
  <2> HIDE DEF entries
  <2> QED
    BY <2>1, Zenon
<1> HIDE DEF R, A, B, C, D, E, F
<1>9. o \in Derived(c, s, t)
        <=> o \in R \/ o \in A \/ o \in B \/ o \in C \/ o \in D \/ o \in E \/ o \in F
  BY <1>1
<1> QED
  BY <1>2, <1>3, <1>4, <1>5, <1>6, <1>7, <1>8, <1>9, Zenon DEF Wanted

\* The entity an operation is for.
For(o, kind, id) == EntityKind(o) = kind /\ o.id = id

\* It is the one that the operation writes.
LEMMA ForIs ==
  ASSUME NEW o, NEW kind, NEW id
  PROVE  For(o, kind, id) <=> Written(o) = <<kind, id>>
  BY DEF For, Written

\* What is derived for an entity is for that entity.
LEMMA BareFor ==
  ASSUME NEW id
  PROVE  /\ For(Bare("link_remove", id), "link", id) /\ For(Bare("route_remove", id), "route", id)
         /\ For(Bare("workload_remove", id), "workload", id) /\ For(Bare("policy_unbind", id), "policy", id)
         /\ For(Bare("config_clear", id), "config", id)
<1>1. \A kind : Bare(kind, id).kind = kind /\ Bare(kind, id).id = id
  BY DEF Bare
<1>2. /\ EntityKind(Bare("link_remove", id)) = "link" /\ EntityKind(Bare("route_remove", id)) = "route"
      /\ EntityKind(Bare("workload_remove", id)) = "workload" /\ EntityKind(Bare("policy_unbind", id)) = "policy"
      /\ EntityKind(Bare("config_clear", id)) = "config"
  BY <1>1, KindsSplit DEF LinkOps, RouteOps, WorkloadOps, PolicyOps, ConfigOps
<1> QED
  BY <1>1, <1>2 DEF For

\* So it is for the leading operations of a device,
LEMMA LeadingFor ==
  ASSUME NEW c, NEW from, NEW to, NEW d, NEW o, to \in DeviceStates, o \in Leading(c, from, to, d)
  PROVE  For(o, "device", d)
<1>1. o.kind \in StateMoves /\ o.id = d
  BY LeadingIs
<1>2. o.kind \in DeviceOps
  BY <1>1 DEF StateMoves, DeviceOps, MaintenanceOps
<1> QED
  BY <1>1, <1>2, KindsSplit DEF For

\* the operations a wanted device needs,
LEMMA DeviceFor ==
  ASSUME NEW c, NEW s, NEW d, NEW want, NEW o, want.state \in DeviceStates, o \in DeviceChanges(c, s, d, want)
  PROVE  For(o, "device", d)
<1>1. \/ o \in Leading(c, s.device[d].state, want.state, d)
      \/ o = Carrying("device_add", d, want) \/ o = Carrying("device_set_capacity", d, want)
      \/ o = Carrying("device_set_windows", d, want)
  <2>1. CASE d \notin DOMAIN s.device
    BY <2>1 DEF DeviceChanges
  <2>2. CASE d \in DOMAIN s.device
    <3> DEFINE here == s.device[d]
               S == {Bare(kind, d) : kind \in StateSteps(c, here.state, want.state)}
               T == When(<<here.cap, here.res>> # <<want.cap, want.res>>, Carrying("device_set_capacity", d, want))
               U == When(<<here.excl, here.maint>> # <<want.excl, want.maint>>, Carrying("device_set_windows", d, want))
    <3>1. DeviceChanges(c, s, d, want) = S \cup T \cup U
      BY <2>2, Zenon DEF DeviceChanges
    <3>2. T \subseteq {Carrying("device_set_capacity", d, want)}
      BY DEF When
    <3>3. U \subseteq {Carrying("device_set_windows", d, want)}
      BY DEF When
    <3>4. S = Leading(c, s.device[d].state, want.state, d)
      BY DEF Leading
    <3> HIDE DEF S, T, U
    <3> QED
      BY <3>1, <3>2, <3>3, <3>4
  <2> QED
    BY <2>1, <2>2
<1>2. CASE o \in Leading(c, s.device[d].state, want.state, d)
  <2>1. PICK from, to : from = s.device[d].state /\ to = want.state
    OBVIOUS
  <2>2. o \in Leading(c, from, to, d) /\ to \in DeviceStates
    BY <1>2, <2>1
  <2> QED
    BY <2>2, LeadingFor
<1>3. CASE o \notin Leading(c, s.device[d].state, want.state, d)
  <2>1. o.kind \in {"device_add", "device_set_capacity", "device_set_windows"} /\ o.id = d
    BY <1>1, <1>3 DEF Carrying
  <2>2. o.kind \in DeviceOps
    BY <2>1 DEF DeviceOps
  <2> QED
    BY <2>1, <2>2, KindsSplit DEF For
<1> QED
  BY <1>2, <1>3

\* and those the other wanted entities need.
LEMMA ChangesFor ==
  ASSUME NEW s, NEW t, NEW i, NEW want, NEW o
  PROVE  /\ o \in LinkChanges(s, i, want) => For(o, "link", i)
         /\ o \in RouteChanges(s, i, want) => For(o, "route", i)
         /\ o \in WorkloadChanges(s, i, want) => For(o, "workload", i)
         /\ PolicyWanted(s, t, i, o) => For(o, "policy", i)
         /\ ConfigWanted(s, t, i, o) => For(o, "config", i)
<1>1. \A kind, new : Carrying(kind, i, new).kind = kind /\ Carrying(kind, i, new).id = i
  BY DEF Carrying
<1>2. ASSUME o \in LinkChanges(s, i, want) PROVE For(o, "link", i)
  <2>1. o.kind \in {"link_add", "link_set_capacity"} /\ o.id = i
    BY <1>2 DEF LinkChanges, When, Carrying
  <2> QED
    BY <2>1, KindsSplit DEF For, LinkOps
<1>3. ASSUME o \in RouteChanges(s, i, want) PROVE For(o, "route", i)
  <2>1. o.kind \in {"route_add", "route_set_path", "route_set_state"} /\ o.id = i
    BY <1>3 DEF RouteChanges, When, Carrying
  <2> QED
    BY <2>1, KindsSplit DEF For, RouteOps
<1>4. ASSUME o \in WorkloadChanges(s, i, want) PROVE For(o, "workload", i)
  <2>1. o.kind \in {"workload_add", "workload_set_bindings", "workload_set_requirements"} /\ o.id = i
    BY <1>4 DEF WorkloadChanges, When, Carrying, Bindings
  <2> QED
    BY <2>1, KindsSplit DEF For, WorkloadOps
<1>5. ASSUME PolicyWanted(s, t, i, o) PROVE For(o, "policy", i)
  <2>1. o.kind = "policy_bind" /\ o.id = i
    BY <1>5 DEF PolicyWanted, When, Carrying
  <2> QED
    BY <2>1, KindsSplit DEF For, PolicyOps
<1>6. ASSUME ConfigWanted(s, t, i, o) PROVE For(o, "config", i)
  <2>1. o.kind = "config_set" /\ o.id = i
    BY <1>6 DEF ConfigWanted, When, Carrying
  <2> QED
    BY <2>1, KindsSplit DEF For, ConfigOps
<1> QED
  BY <1>2, <1>3, <1>4, <1>5, <1>6

\* What a route that goes takes out of a workload is for the workload.
LEMMA RebindsFor ==
  ASSUME NEW s, NEW r, NEW o, Rebinds(s, r, o)
  PROVE  /\ For(o, "workload", o.id) /\ o.kind = "workload_set_bindings"
         /\ o.id \in DOMAIN s.workload /\ r \in DOMAIN s.workload[o.id].bind
<1>1. PICK w \in DOMAIN s.workload :
        /\ r \in DOMAIN s.workload[w].bind
        /\ o = Bindings(w, [q \in DOMAIN s.workload[w].bind \ {r} |-> s.workload[w].bind[q]])
  BY Zenon DEF Rebinds
<1>2. o.kind = "workload_set_bindings" /\ o.id = w
  BY <1>1 DEF Bindings, Carrying
<1>3. EntityKind(o) = "workload"
  BY <1>2, KindsSplit DEF WorkloadOps
<1> QED
  BY <1>1, <1>2, <1>3 DEF For

\* What is derived that writes an entity.
Own(c, s, t, kind, id) == {o \in Derived(c, s, t) : Written(o) = <<kind, id>>}

\* An operation is derived for the entity it writes: for what is wanted of it, because it
\* goes, or, for a workload, because a route it is bound to goes.
Meant(c, s, t, kind, id, o) ==
  \/ /\ kind = "device"
     /\ \/ id \in DOMAIN t.ensure.device /\ o \in DeviceChanges(c, s, id, t.ensure.device[id])
        \/ Goes(s, t, "device", id) /\ o \in Leading(c, s.device[id].state, "removed", id)
  \/ /\ kind = "link"
     /\ \/ id \in DOMAIN t.ensure.link /\ o \in LinkChanges(s, id, t.ensure.link[id])
        \/ Goes(s, t, "link", id) /\ o = Bare("link_remove", id)
  \/ /\ kind = "route"
     /\ \/ id \in DOMAIN t.ensure.route /\ o \in RouteChanges(s, id, t.ensure.route[id])
        \/ Goes(s, t, "route", id) /\ o = Bare("route_remove", id)
  \/ /\ kind = "workload"
     /\ \/ id \in DOMAIN t.ensure.workload /\ o \in WorkloadChanges(s, id, t.ensure.workload[id])
        \/ Goes(s, t, "workload", id) /\ o = Bare("workload_remove", id)
        \/ (\E r : Goes(s, t, "route", r) /\ Rebinds(s, r, o)) /\ o.id = id
  \/ /\ kind = "policy"
     /\ PolicyWanted(s, t, id, o) \/ (Goes(s, t, "policy", id) /\ o = Bare("policy_unbind", id))
  \/ /\ kind = "config"
     /\ ConfigWanted(s, t, id, o) \/ (Goes(s, t, "config", id) /\ o = Bare("config_clear", id))

\* An operation is for one entity.
LEMMA ForOne ==
  ASSUME NEW o, NEW kind, NEW id, NEW k, NEW i, For(o, kind, id), For(o, k, i)
  PROVE  kind = k /\ id = i
  BY DEF For

\* What is meant for an entity is for it, and is derived.
LEMMA MeantDerived ==
  ASSUME NEW c, NEW s, NEW t, IsGoal(t), NEW kind, NEW id, NEW o, Meant(c, s, t, kind, id, o)
  PROVE  For(o, kind, id) /\ o \in Derived(c, s, t)
<1>1. CASE kind = "device" /\ id \in DOMAIN t.ensure.device /\ o \in DeviceChanges(c, s, id, t.ensure.device[id])
  <2>1. PICK want : want = t.ensure.device[id] /\ want.state \in DeviceStates /\ o \in DeviceChanges(c, s, id, want)
    BY <1>1 DEF IsGoal, IsDevice
  <2>2. For(o, "device", id)
    BY <2>1, DeviceFor
  <2>3. Wanted(c, s, t, o)
    BY <1>1, Zenon DEF Wanted
  <2> QED
    BY <1>1, <2>2, <2>3, DerivedIs
<1>2. CASE kind = "device" /\ Goes(s, t, "device", id) /\ o \in Leading(c, s.device[id].state, "removed", id)
  <2>1. PICK from, to : from = s.device[id].state /\ to = "removed"
    OBVIOUS
  <2>2. to \in DeviceStates /\ o \in Leading(c, from, to, id)
    BY <1>2, <2>1 DEF DeviceStates
  <2>3. For(o, "device", id)
    BY <2>2, LeadingFor
  <2>4. Going(c, s, t, o)
    BY <1>2, Zenon DEF Going
  <2> QED
    BY <1>2, <2>3, <2>4, DerivedIs
<1>3. CASE kind = "link" /\ id \in DOMAIN t.ensure.link /\ o \in LinkChanges(s, id, t.ensure.link[id])
  <2>1. Wanted(c, s, t, o)
    BY <1>3, Zenon DEF Wanted
  <2> QED
    BY <1>3, <2>1, ChangesFor, DerivedIs
<1>4. CASE kind = "link" /\ Goes(s, t, "link", id) /\ o = Bare("link_remove", id)
  <2>1. Going(c, s, t, o)
    BY <1>4, Zenon DEF Going
  <2> QED
    BY <1>4, <2>1, BareFor, DerivedIs
<1>5. CASE kind = "route" /\ id \in DOMAIN t.ensure.route /\ o \in RouteChanges(s, id, t.ensure.route[id])
  <2>1. Wanted(c, s, t, o)
    BY <1>5, Zenon DEF Wanted
  <2> QED
    BY <1>5, <2>1, ChangesFor, DerivedIs
<1>6. CASE kind = "route" /\ Goes(s, t, "route", id) /\ o = Bare("route_remove", id)
  <2>1. Going(c, s, t, o)
    BY <1>6, Zenon DEF Going
  <2> QED
    BY <1>6, <2>1, BareFor, DerivedIs
<1>7. CASE kind = "workload" /\ id \in DOMAIN t.ensure.workload /\ o \in WorkloadChanges(s, id, t.ensure.workload[id])
  <2>1. Wanted(c, s, t, o)
    BY <1>7, Zenon DEF Wanted
  <2> QED
    BY <1>7, <2>1, ChangesFor, DerivedIs
<1>8. CASE kind = "workload" /\ Goes(s, t, "workload", id) /\ o = Bare("workload_remove", id)
  <2>1. Going(c, s, t, o)
    BY <1>8, Zenon DEF Going
  <2> QED
    BY <1>8, <2>1, BareFor, DerivedIs
<1>9. CASE kind = "workload" /\ (\E r : Goes(s, t, "route", r) /\ Rebinds(s, r, o)) /\ o.id = id
  <2>1. PICK r : Goes(s, t, "route", r) /\ Rebinds(s, r, o)
    BY <1>9
  <2>2. Going(c, s, t, o)
    BY <2>1, Zenon DEF Going
  <2>3. For(o, "workload", o.id)
    BY <2>1, RebindsFor
  <2> QED
    BY <1>9, <2>2, <2>3, DerivedIs
<1>10. CASE kind = "policy" /\ PolicyWanted(s, t, id, o)
  <2>1. Wanted(c, s, t, o)
    BY <1>10, Zenon DEF Wanted
  <2> QED
    BY <1>10, <2>1, ChangesFor, DerivedIs
<1>11. CASE kind = "policy" /\ Goes(s, t, "policy", id) /\ o = Bare("policy_unbind", id)
  <2>1. Going(c, s, t, o)
    BY <1>11, Zenon DEF Going
  <2> QED
    BY <1>11, <2>1, BareFor, DerivedIs
<1>12. CASE kind = "config" /\ ConfigWanted(s, t, id, o)
  <2>1. Wanted(c, s, t, o)
    BY <1>12, Zenon DEF Wanted
  <2> QED
    BY <1>12, <2>1, ChangesFor, DerivedIs
<1>13. CASE kind = "config" /\ Goes(s, t, "config", id) /\ o = Bare("config_clear", id)
  <2>1. Going(c, s, t, o)
    BY <1>13, Zenon DEF Going
  <2> QED
    BY <1>13, <2>1, BareFor, DerivedIs
<1> QED
  BY <1>1, <1>2, <1>3, <1>4, <1>5, <1>6, <1>7, <1>8, <1>9, <1>10, <1>11, <1>12, <1>13, Zenon DEF Meant

\* And what is derived for an entity is meant for it.
LEMMA DerivedMeant ==
  ASSUME NEW c, NEW s, NEW t, IsGoal(t), NEW kind, NEW id, NEW o, For(o, kind, id), o \in Derived(c, s, t)
  PROVE  Meant(c, s, t, kind, id, o)
<1>1. Going(c, s, t, o) \/ Wanted(c, s, t, o)
  BY DerivedIs
<1>2. ASSUME NEW d, Goes(s, t, "device", d), o \in Leading(c, s.device[d].state, "removed", d)
      PROVE  Meant(c, s, t, kind, id, o)
  <2>1. PICK from, to : from = s.device[d].state /\ to = "removed"
    OBVIOUS
  <2>2. to \in DeviceStates /\ o \in Leading(c, from, to, d)
    BY <1>2, <2>1 DEF DeviceStates
  <2>3. kind = "device" /\ id = d
    BY <2>2, LeadingFor, ForOne
  <2> QED
    BY <1>2, <2>3, Zenon DEF Meant
<1>3. ASSUME NEW l, Goes(s, t, "link", l), o = Bare("link_remove", l) PROVE Meant(c, s, t, kind, id, o)
  <2>1. kind = "link" /\ id = l
    BY <1>3, BareFor, ForOne
  <2> QED
    BY <1>3, <2>1, Zenon DEF Meant
<1>4. ASSUME NEW r, Goes(s, t, "route", r), o = Bare("route_remove", r) PROVE Meant(c, s, t, kind, id, o)
  <2>1. kind = "route" /\ id = r
    BY <1>4, BareFor, ForOne
  <2> QED
    BY <1>4, <2>1, Zenon DEF Meant
<1>5. ASSUME NEW r, Goes(s, t, "route", r), Rebinds(s, r, o) PROVE Meant(c, s, t, kind, id, o)
  <2>1. For(o, "workload", o.id)
    BY <1>5, RebindsFor
  <2>2. kind = "workload" /\ id = o.id
    BY <2>1, ForOne
  <2> QED
    BY <1>5, <2>2, Zenon DEF Meant
<1>6. ASSUME NEW w, Goes(s, t, "workload", w), o = Bare("workload_remove", w) PROVE Meant(c, s, t, kind, id, o)
  <2>1. kind = "workload" /\ id = w
    BY <1>6, BareFor, ForOne
  <2> QED
    BY <1>6, <2>1, Zenon DEF Meant
<1>7. ASSUME NEW p, Goes(s, t, "policy", p), o = Bare("policy_unbind", p) PROVE Meant(c, s, t, kind, id, o)
  <2>1. kind = "policy" /\ id = p
    BY <1>7, BareFor, ForOne
  <2> QED
    BY <1>7, <2>1, Zenon DEF Meant
<1>8. ASSUME NEW e, Goes(s, t, "config", e), o = Bare("config_clear", e) PROVE Meant(c, s, t, kind, id, o)
  <2>1. kind = "config" /\ id = e
    BY <1>8, BareFor, ForOne
  <2> QED
    BY <1>8, <2>1, Zenon DEF Meant
<1>9. ASSUME NEW d \in DOMAIN t.ensure.device, o \in DeviceChanges(c, s, d, t.ensure.device[d])
      PROVE  Meant(c, s, t, kind, id, o)
  <2>1. PICK want : want = t.ensure.device[d] /\ want.state \in DeviceStates /\ o \in DeviceChanges(c, s, d, want)
    BY <1>9 DEF IsGoal, IsDevice
  <2>2. kind = "device" /\ id = d
    BY <2>1, DeviceFor, ForOne
  <2> QED
    BY <1>9, <2>2, Zenon DEF Meant
<1>10. ASSUME NEW l \in DOMAIN t.ensure.link, o \in LinkChanges(s, l, t.ensure.link[l])
       PROVE  Meant(c, s, t, kind, id, o)
  <2>1. kind = "link" /\ id = l
    BY <1>10, ChangesFor, ForOne
  <2> QED
    BY <1>10, <2>1, Zenon DEF Meant
<1>11. ASSUME NEW r \in DOMAIN t.ensure.route, o \in RouteChanges(s, r, t.ensure.route[r])
       PROVE  Meant(c, s, t, kind, id, o)
  <2>1. kind = "route" /\ id = r
    BY <1>11, ChangesFor, ForOne
  <2> QED
    BY <1>11, <2>1, Zenon DEF Meant
<1>12. ASSUME NEW w \in DOMAIN t.ensure.workload, o \in WorkloadChanges(s, w, t.ensure.workload[w])
       PROVE  Meant(c, s, t, kind, id, o)
  <2>1. kind = "workload" /\ id = w
    BY <1>12, ChangesFor, ForOne
  <2> QED
    BY <1>12, <2>1, Zenon DEF Meant
<1>13. ASSUME NEW p, PolicyWanted(s, t, p, o) PROVE Meant(c, s, t, kind, id, o)
  <2>1. kind = "policy" /\ id = p
    BY <1>13, ChangesFor, ForOne
  <2> QED
    BY <1>13, <2>1, Zenon DEF Meant
<1>14. ASSUME NEW e, ConfigWanted(s, t, e, o) PROVE Meant(c, s, t, kind, id, o)
  <2>1. kind = "config" /\ id = e
    BY <1>14, ChangesFor, ForOne
  <2> QED
    BY <1>14, <2>1, Zenon DEF Meant
<1>15. CASE Going(c, s, t, o)
  BY <1>2, <1>3, <1>4, <1>5, <1>6, <1>7, <1>8, <1>15, Zenon DEF Going
<1>16. CASE Wanted(c, s, t, o)
  BY <1>9, <1>10, <1>11, <1>12, <1>13, <1>14, <1>16, Zenon DEF Wanted
<1> QED
  BY <1>1, <1>15, <1>16

\* So the operations that write an entity are those meant for it.
LEMMA OwnIsMeant ==
  ASSUME NEW c, NEW s, NEW t, IsGoal(t), NEW kind, NEW id
  PROVE  \A o : o \in Own(c, s, t, kind, id) <=> Meant(c, s, t, kind, id, o)
<1> SUFFICES ASSUME NEW o PROVE o \in Own(c, s, t, kind, id) <=> Meant(c, s, t, kind, id, o)
  OBVIOUS
<1>1. o \in Own(c, s, t, kind, id) <=> o \in Derived(c, s, t) /\ For(o, kind, id)
  BY ForIs DEF Own
<1> QED
  BY <1>1, MeantDerived, DerivedMeant

-----------------------------------------------------------------------------
(* What a way that delivers a target reaches                               *)

\* A way that carries out what is derived for a target, each operation once, and besides
\* only operations that write what is undone.
Delivers(c, c0, s, t, undone, at, ops, n) ==
  /\ Way(c, at, ops, n) /\ at[0] = s
  /\ \A o \in Derived(c0, s, t) : \E i \in 1 .. n : ops[i] = o
  /\ \A i \in 1 .. n : ops[i] \in Derived(c0, s, t) \/ Written(ops[i]) \in undone
  /\ \A i, j \in 1 .. n : ops[i] = ops[j] => i = j

\* It leads an entity through what is derived for it.
LEMMA OwnLeads ==
  ASSUME NEW c, NEW c0, NEW s, NEW t, NEW undone, NEW at, NEW ops, NEW n, NEW kind, NEW id,
         Delivers(c, c0, s, t, undone, at, ops, n), kind \in EntityKinds, <<kind, id>> \notin undone
  PROVE  Leads(c, at, ops, n, kind, id, Own(c0, s, t, kind, id))
<1>1. PICK D : D = Derived(c0, s, t)
  OBVIOUS
<1>2. PICK M : M = Own(c0, s, t, kind, id)
  OBVIOUS
<1>3. \A o : o \in M <=> o \in D /\ Written(o) = <<kind, id>>
  BY <1>1, <1>2 DEF Own
<1>4. /\ Way(c, at, ops, n)
      /\ \A o \in D : \E i \in 1 .. n : ops[i] = o
      /\ \A i \in 1 .. n : ops[i] \in D \/ Written(ops[i]) \in undone
      /\ \A i, j \in 1 .. n : ops[i] = ops[j] => i = j
  BY <1>1 DEF Delivers
<1>5. Leads(c, at, ops, n, kind, id, M)
  BY <1>3, <1>4 DEF Leads
<1> QED
  BY <1>2, <1>5

\* The start of such a way.
LEMMA DeliversFrom ==
  ASSUME NEW c, NEW c0, NEW s, NEW t, NEW undone, NEW at, NEW ops, NEW n,
         Delivers(c, c0, s, t, undone, at, ops, n)
  PROVE  Starts(at, s) /\ IsSnapshot(s) /\ IsSnapshot(at[n]) /\ n \in Nat
<1>1. n \in Nat /\ 0 \in 0 .. n /\ n \in 0 .. n
  BY DEF Delivers, Way
<1> QED
  BY <1>1 DEF Delivers, Way, Starts

\* What a target wants of an entity.
Asks(t, kind, id, want) == id \in DOMAIN t.ensure[kind] /\ want = t.ensure[kind][id]

\* A device as it is wanted, with the reservations it had,
DeviceShown(u, s, d, want) ==
  /\ d \in DOMAIN u.device
  /\ u.device[d] = [want EXCEPT !.res = u.device[d].res]
  /\ d \in DOMAIN s.device => u.device[d].res = s.device[d].res

\* a link, which is new or differs from what it was in its capacity,
LinkShown(u, s, l, want) ==
  /\ l \in DOMAIN u.link
  /\ l \in DOMAIN s.link => u.link[l] = [s.link[l] EXCEPT !.cap = want.cap]
  /\ l \notin DOMAIN s.link => u.link[l].state = "present" /\ LikeLink(u.link[l], want)

\* another entity,
EntryShown(u, kind, id, want) == id \in DOMAIN u[kind] /\ u[kind][id] = want

\* and a configuration entry, whatever its revision.
EntryValued(u, e, value) == e \in DOMAIN u.config /\ u.config[e].value = value

\* No route that goes is one a workload is bound to.
Unaffected(s, t, w) == w \in DOMAIN s.workload => t.remove.route \cap DOMAIN s.workload[w].bind = {}

\* What is wanted of a device is brought about.
LEMMA EnsuredDevice ==
  ASSUME NEW c, NEW c0, NEW s, NEW t, NEW undone, NEW at, NEW ops, NEW n, NEW d, NEW want,
         Delivers(c, c0, s, t, undone, at, ops, n), IsGoal(t), TargetValid(t), ~InConflict(s, t),
         Asks(t, "device", d, want), <<"device", d>> \notin undone
  PROVE  DeviceShown(at[n], s, d, want)
<1>1. d \in DOMAIN t.ensure.device /\ want = t.ensure.device[d] /\ IsDevice(want)
  BY DEF Asks, IsGoal
<1>2. Starts(at, s) /\ "device" \in EntityKinds
  BY DeliversFrom DEF EntityKinds
<1>3. PICK M : M = Own(c0, s, t, "device", d)
  OBVIOUS
<1>4. Leads(c, at, ops, n, "device", d, M)
  BY <1>2, <1>3, OwnLeads
<1>5. M = DeviceChanges(c0, s, d, want)
  <2>1. d \notin t.remove["device"]
    BY <1>1, <1>2 DEF TargetValid
  <2>2. \A o : o \in M <=> Meant(c0, s, t, "device", d, o)
    BY <1>3, OwnIsMeant
  <2>3. \A o : Meant(c0, s, t, "device", d, o) <=> o \in DeviceChanges(c0, s, d, want)
    BY <1>1, <2>1, Zenon DEF Meant, Goes
  <2> QED
    BY <2>2, <2>3
<1>6. DeviceFits(s, d, want)
  BY <1>1, Zenon DEF InConflict, DeviceFits
<1>7. /\ d \in DOMAIN at[n].device
      /\ at[n].device[d] = [want EXCEPT !.res = at[n].device[d].res]
      /\ d \in DOMAIN s.device => at[n].device[d].res = s.device[d].res
  BY <1>1, <1>2, <1>4, <1>5, <1>6, DeviceSet
<1> QED
  BY <1>7, Zenon DEF DeviceShown

\* So it is for a link,
LEMMA EnsuredLink ==
  ASSUME NEW c, NEW c0, NEW s, NEW t, NEW undone, NEW at, NEW ops, NEW n, NEW l, NEW want,
         Delivers(c, c0, s, t, undone, at, ops, n), IsGoal(t), TargetValid(t),
         Asks(t, "link", l, want), <<"link", l>> \notin undone
  PROVE  LinkShown(at[n], s, l, want)
<1>1. l \in DOMAIN t.ensure.link /\ want = t.ensure.link[l]
  BY DEF Asks, IsGoal
<1>2. Starts(at, s) /\ "link" \in EntityKinds
  BY DeliversFrom DEF EntityKinds
<1>3. PICK M : M = Own(c0, s, t, "link", l)
  OBVIOUS
<1>4. Leads(c, at, ops, n, "link", l, M)
  BY <1>2, <1>3, OwnLeads
<1>5. M = LinkChanges(s, l, want)
  <2>1. l \notin t.remove["link"]
    BY <1>1, <1>2 DEF TargetValid
  <2>2. \A o : o \in M <=> Meant(c0, s, t, "link", l, o)
    BY <1>3, OwnIsMeant
  <2>3. \A o : Meant(c0, s, t, "link", l, o) <=> o \in LinkChanges(s, l, want)
    BY <1>1, <2>1, Zenon DEF Meant, Goes
  <2> QED
    BY <2>2, <2>3
<1>6. /\ l \in DOMAIN at[n].link
      /\ l \in DOMAIN s.link => at[n].link[l] = [s.link[l] EXCEPT !.cap = want.cap]
      /\ l \notin DOMAIN s.link => at[n].link[l].state = "present" /\ LikeLink(at[n].link[l], want)
  BY <1>2, <1>4, <1>5, LinkSet
<1> QED
  BY <1>6, Zenon DEF LinkShown

\* a route,
LEMMA EnsuredRoute ==
  ASSUME NEW c, NEW c0, NEW s, NEW t, NEW undone, NEW at, NEW ops, NEW n, NEW r, NEW want,
         Delivers(c, c0, s, t, undone, at, ops, n), IsGoal(t), TargetValid(t), ~InConflict(s, t),
         Asks(t, "route", r, want), <<"route", r>> \notin undone
  PROVE  EntryShown(at[n], "route", r, want)
<1>1. r \in DOMAIN t.ensure.route /\ want = t.ensure.route[r] /\ IsRoute(want)
  BY DEF Asks, IsGoal
<1>2. Starts(at, s) /\ "route" \in EntityKinds
  BY DeliversFrom DEF EntityKinds
<1>3. PICK M : M = Own(c0, s, t, "route", r)
  OBVIOUS
<1>4. Leads(c, at, ops, n, "route", r, M)
  BY <1>2, <1>3, OwnLeads
<1>5. M = RouteChanges(s, r, want)
  <2>1. r \notin t.remove["route"]
    BY <1>1, <1>2 DEF TargetValid
  <2>2. \A o : o \in M <=> Meant(c0, s, t, "route", r, o)
    BY <1>3, OwnIsMeant
  <2>3. \A o : Meant(c0, s, t, "route", r, o) <=> o \in RouteChanges(s, r, want)
    BY <1>1, <2>1, Zenon DEF Meant, Goes
  <2> QED
    BY <2>2, <2>3
<1>6. RouteFits(s, r, want)
  BY <1>1, Zenon DEF InConflict, RouteFits
<1>7. r \in DOMAIN at[n].route /\ at[n].route[r] = want
  BY <1>1, <1>2, <1>4, <1>5, <1>6, RouteSet
<1> QED
  BY <1>7, Zenon DEF EntryShown

\* a workload that is bound to no route that goes,
LEMMA EnsuredWorkload ==
  ASSUME NEW c, NEW c0, NEW s, NEW t, NEW undone, NEW at, NEW ops, NEW n, NEW w, NEW want,
         Delivers(c, c0, s, t, undone, at, ops, n), IsGoal(t), TargetValid(t),
         Asks(t, "workload", w, want), <<"workload", w>> \notin undone,
         Unaffected(s, t, w)
  PROVE  EntryShown(at[n], "workload", w, want)
<1>1. w \in DOMAIN t.ensure.workload /\ want = t.ensure.workload[w] /\ IsWorkload(want)
  BY DEF Asks, IsGoal
<1>2. Starts(at, s) /\ "workload" \in EntityKinds
  BY DeliversFrom DEF EntityKinds
<1>3. PICK M : M = Own(c0, s, t, "workload", w)
  OBVIOUS
<1>4. Leads(c, at, ops, n, "workload", w, M)
  BY <1>2, <1>3, OwnLeads
<1>5. M = WorkloadChanges(s, w, want)
  <2>1. w \notin t.remove["workload"]
    BY <1>1, <1>2 DEF TargetValid
  <2>2. \A o : o \in M <=> Meant(c0, s, t, "workload", w, o)
    BY <1>3, OwnIsMeant
  <2>3. \A o, r : ~(Goes(s, t, "route", r) /\ Rebinds(s, r, o) /\ o.id = w)
    <3> SUFFICES ASSUME NEW o, NEW r, Goes(s, t, "route", r), Rebinds(s, r, o), o.id = w PROVE FALSE
      OBVIOUS
    <3>1. w \in DOMAIN s.workload /\ r \in DOMAIN s.workload[w].bind
      BY RebindsFor
    <3>2. r \in t.remove.route
      BY DEF Goes
    <3> QED
      BY <3>1, <3>2 DEF Unaffected
  <2>4. \A o : Meant(c0, s, t, "workload", w, o) <=> o \in WorkloadChanges(s, w, want)
    BY <1>1, <2>1, <2>3, Zenon DEF Meant, Goes
  <2> QED
    BY <2>2, <2>4
<1>6. w \in DOMAIN at[n].workload /\ at[n].workload[w] = want
  BY <1>1, <1>2, <1>4, <1>5, WorkloadSet
<1> QED
  BY <1>6, Zenon DEF EntryShown

\* a policy
LEMMA EnsuredPolicy ==
  ASSUME NEW c, NEW c0, NEW s, NEW t, NEW undone, NEW at, NEW ops, NEW n, NEW p, NEW want,
         Delivers(c, c0, s, t, undone, at, ops, n), IsGoal(t), TargetValid(t),
         Asks(t, "policy", p, want), <<"policy", p>> \notin undone
  PROVE  EntryShown(at[n], "policy", p, want)
<1>1. p \in DOMAIN t.ensure.policy /\ want = t.ensure.policy[p]
  BY DEF Asks, IsGoal
<1>2. Starts(at, s) /\ "policy" \in EntityKinds
  BY DeliversFrom DEF EntityKinds
<1>3. PICK M : M = Own(c0, s, t, "policy", p)
  OBVIOUS
<1>4. Leads(c, at, ops, n, "policy", p, M)
  BY <1>2, <1>3, OwnLeads
<1>5. M = PolicyChanges(s, p, want)
  <2>1. p \notin t.remove["policy"]
    BY <1>1, <1>2 DEF TargetValid
  <2>2. \A o : o \in M <=> Meant(c0, s, t, "policy", p, o)
    BY <1>3, OwnIsMeant
  <2>3. PICK W : W = When(p \notin DOMAIN s.policy \/ s.policy[p] # want, Carrying("policy_bind", p, want))
    OBVIOUS
  <2>4. \A o : PolicyWanted(s, t, p, o) <=> o \in W
    BY <1>1, <2>3 DEF PolicyWanted
  <2>5. \A o : Meant(c0, s, t, "policy", p, o) <=> o \in W
    BY <2>1, <2>4 DEF Meant, Goes
  <2>6. M = W
    BY <2>2, <2>5
  <2> QED
    BY <2>3, <2>6 DEF PolicyChanges
<1>6. p \in DOMAIN at[n].policy /\ at[n].policy[p] = want
  BY <1>2, <1>4, <1>5, PolicySet
<1> QED
  BY <1>6, Zenon DEF EntryShown

\* and a configuration entry.
LEMMA EnsuredConfig ==
  ASSUME NEW c, NEW c0, NEW s, NEW t, NEW undone, NEW at, NEW ops, NEW n, NEW e, NEW want,
         Delivers(c, c0, s, t, undone, at, ops, n), IsGoal(t), TargetValid(t),
         Asks(t, "config", e, want), <<"config", e>> \notin undone
  PROVE  EntryValued(at[n], e, want.value)
<1>1. PICK value : value = want.value /\ value = t.ensure.config[e].value /\ e \in DOMAIN t.ensure.config
  BY DEF Asks
<1>2. Starts(at, s) /\ "config" \in EntityKinds
  BY DeliversFrom DEF EntityKinds
<1>3. PICK M : M = Own(c0, s, t, "config", e)
  OBVIOUS
<1>4. Leads(c, at, ops, n, "config", e, M)
  BY <1>2, <1>3, OwnLeads
<1>5. M = ConfigChanges(s, e, value)
  <2>1. e \notin t.remove["config"]
    BY <1>1, <1>2 DEF TargetValid
  <2>2. \A o : o \in M <=> Meant(c0, s, t, "config", e, o)
    BY <1>3, OwnIsMeant
  <2>3. PICK W : W = When(e \notin DOMAIN s.config \/ s.config[e].value # value,
                          Carrying("config_set", e, [value |-> value]))
    OBVIOUS
  <2>4. \A o : ConfigWanted(s, t, e, o) <=> o \in W
    BY <1>1, <2>3 DEF ConfigWanted
  <2>5. \A o : Meant(c0, s, t, "config", e, o) <=> o \in W
    BY <2>1, <2>4 DEF Meant, Goes
  <2>6. M = W
    BY <2>2, <2>5
  <2> QED
    BY <2>3, <2>6 DEF ConfigChanges
<1>6. e \in DOMAIN at[n].config /\ at[n].config[e].value = value
  BY <1>2, <1>4, <1>5, ConfigSet
<1> QED
  BY <1>1, <1>6, Zenon DEF EntryValued

\* What is to be removed is gone in the end.
LEMMA RemovedGone ==
  ASSUME NEW c, NEW c0, NEW s, NEW t, NEW undone, NEW at, NEW ops, NEW n, NEW kind, NEW id,
         Delivers(c, c0, s, t, undone, at, ops, n), IsGoal(t), TargetValid(t),
         kind \in EntityKinds, id \in t.remove[kind], <<kind, id>> \notin undone
  PROVE  ~Exists(at[n], <<kind, id>>)
<1>1. at[0] = s /\ IsSnapshot(s) /\ IsSnapshot(at[0])
  BY DeliversFrom DEF Starts
<1>2. PICK M : M = Own(c0, s, t, kind, id)
  OBVIOUS
<1>3. Leads(c, at, ops, n, kind, id, M)
  BY <1>2, OwnLeads
<1>4. \A o : o \in M <=> Meant(c0, s, t, kind, id, o)
  BY <1>2, OwnIsMeant
<1>5. id \notin DOMAIN t.ensure[kind]
  BY DEF TargetValid
<1>6. /\ kind = "device" => id \notin DOMAIN t.ensure.device
      /\ kind = "link" => id \notin DOMAIN t.ensure.link
      /\ kind = "route" => id \notin DOMAIN t.ensure.route
      /\ kind = "workload" => id \notin DOMAIN t.ensure.workload
      /\ \A o : kind = "policy" => ~PolicyWanted(s, t, id, o)
      /\ \A o : kind = "config" => ~ConfigWanted(s, t, id, o)
  BY <1>5 DEF PolicyWanted, ConfigWanted
<1>7. CASE ~Exists(s, <<kind, id>>)
  <2>1. \A k, i : k = kind /\ i = id => ~Goes(s, t, k, i)
    BY <1>7 DEF Goes
  <2>2. CASE kind # "workload"
    <3>1. M = {}
      BY <1>4, <1>6, <2>1, <2>2, Zenon DEF Meant
    <3>2. /\ id \in DOMAIN at[n][kind] <=> id \in DOMAIN at[0][kind]
          /\ id \in DOMAIN at[0][kind] => at[n][kind][id] = at[0][kind][id]
      BY <1>3, <3>1, Never
    <3> QED
      BY <1>1, <1>7, <3>2 DEF Exists, Known
  <2>3. CASE kind = "workload"
    <3>1. id \notin DOMAIN s.workload
      BY <1>7, <2>3 DEF Exists, Known
    <3>2. \A o, r : Rebinds(s, r, o) => o.id # id
      BY <3>1, RebindsFor
    <3>3. M = {}
      BY <1>4, <1>6, <2>1, <2>3, <3>2, Zenon DEF Meant
    <3>4. /\ id \in DOMAIN at[n][kind] <=> id \in DOMAIN at[0][kind]
          /\ id \in DOMAIN at[0][kind] => at[n][kind][id] = at[0][kind][id]
      BY <1>3, <3>3, Never
    <3> QED
      BY <1>1, <1>7, <2>3, <3>4 DEF Exists, Known
  <2> QED
    BY <2>2, <2>3
<1>8. CASE Exists(s, <<kind, id>>)
  <2>1. Goes(s, t, kind, id) /\ Exists(at[0], <<kind, id>>)
    BY <1>1, <1>8 DEF Goes
  <2>2. CASE kind = "device"
    <3>1. PICK from : from = s.device[id].state
      OBVIOUS
    <3>2. \A o : o \in M <=> o \in Leading(c0, s.device[id].state, "removed", id)
      BY <1>4, <1>6, <2>1, <2>2, Zenon DEF Meant
    <3>3. M = Leading(c0, from, "removed", id)
      BY <3>1, <3>2
    <3>4. from = at[0].device[id].state
      BY <1>1, <3>1
    <3> QED
      BY <1>1, <1>3, <2>1, <2>2, <3>3, <3>4, DeviceGone
  <2>3. CASE kind = "link"
    <3>1. \A o : o \in M <=> o = Bare("link_remove", id)
      BY <1>4, <1>6, <2>1, <2>3, Zenon DEF Meant
    <3>2. M = {Bare("link_remove", id)}
      BY <3>1
    <3> QED
      BY <1>1, <1>3, <2>1, <2>3, <3>2, LinkGone
  <2>4. CASE kind = "route"
    <3>1. PICK o : o = Bare("route_remove", id)
      OBVIOUS
    <3>2. \A p : p \in M <=> p = o
      BY <1>4, <1>6, <2>1, <2>4, <3>1, Zenon DEF Meant
    <3>3. M = {o} /\ o.kind \in EraseOps
      BY <3>1, <3>2 DEF Bare, EraseOps
    <3> QED
      BY <1>3, <2>4, <3>3, ErasedGone
  <2>5. CASE kind = "policy"
    <3>1. PICK o : o = Bare("policy_unbind", id)
      OBVIOUS
    <3>2. \A p : p \in M <=> p = o
      BY <1>4, <1>6, <2>1, <2>5, <3>1, Zenon DEF Meant
    <3>3. M = {o} /\ o.kind \in EraseOps
      BY <3>1, <3>2 DEF Bare, EraseOps
    <3> QED
      BY <1>3, <2>5, <3>3, ErasedGone
  <2>6. CASE kind = "config"
    <3>1. PICK o : o = Bare("config_clear", id)
      OBVIOUS
    <3>2. \A p : p \in M <=> p = o
      BY <1>4, <1>6, <2>1, <2>6, <3>1, Zenon DEF Meant
    <3>3. M = {o} /\ o.kind \in EraseOps
      BY <3>1, <3>2 DEF Bare, EraseOps
    <3> QED
      BY <1>3, <2>6, <3>3, ErasedGone
  <2>7. CASE kind = "workload"
    <3>1. Bare("workload_remove", id) \in M
      BY <1>4, <2>1, <2>7, Zenon DEF Meant
    <3>2. \A o \in M : o = Bare("workload_remove", id) \/ \E r : Rebinds(s, r, o)
      BY <1>4, <1>6, <2>7, Zenon DEF Meant
    <3>3. \A o, r : Rebinds(s, r, o) => o.kind = "workload_set_bindings"
      BY RebindsFor
    <3>4. Bare("workload_remove", id).kind = "workload_remove"
      BY DEF Bare
    <3>5. \A o \in M : o.kind \in {"workload_remove", "workload_set_bindings"}
      BY <3>2, <3>3, <3>4
    <3>6. Leads(c, at, ops, n, "workload", id, M)
      BY <1>3, <2>7
    <3> QED
      BY <2>7, <3>1, <3>5, <3>6, WorkloadGone
  <2> QED
    BY <2>2, <2>3, <2>4, <2>5, <2>6, <2>7 DEF EntityKinds
<1> QED
  BY <1>7, <1>8

\* A target does not name an entity.
Omits(t, kind, id) == id \notin DOMAIN t.ensure[kind] /\ id \notin t.remove[kind]

\* An entity is there or not, and as it is.
Untouched(u, s, kind, id) ==
  /\ id \in DOMAIN u[kind] <=> id \in DOMAIN s[kind]
  /\ id \in DOMAIN s[kind] => u[kind][id] = s[kind][id]

\* What the target does not name, and no route that goes is bound to, stays as it is.
LEMMA Unnamed ==
  ASSUME NEW c, NEW c0, NEW s, NEW t, NEW undone, NEW at, NEW ops, NEW n, NEW kind, NEW id,
         Delivers(c, c0, s, t, undone, at, ops, n), IsGoal(t),
         kind \in EntityKinds, Omits(t, kind, id), <<kind, id>> \notin undone, t.remove["route"] = {}
  PROVE  Untouched(at[n], s, kind, id)
<1>1. at[0] = s
  BY DeliversFrom DEF Starts
<1>2. PICK M : M = Own(c0, s, t, kind, id)
  OBVIOUS
<1>3. Leads(c, at, ops, n, kind, id, M)
  BY <1>2, OwnLeads
<1>4. \A o : o \in M <=> Meant(c0, s, t, kind, id, o)
  BY <1>2, OwnIsMeant
<1>5. /\ kind = "device" => id \notin DOMAIN t.ensure.device
      /\ kind = "link" => id \notin DOMAIN t.ensure.link
      /\ kind = "route" => id \notin DOMAIN t.ensure.route
      /\ kind = "workload" => id \notin DOMAIN t.ensure.workload
      /\ \A o : kind = "policy" => ~PolicyWanted(s, t, id, o)
      /\ \A o : kind = "config" => ~ConfigWanted(s, t, id, o)
  BY DEF Omits, PolicyWanted, ConfigWanted
<1>6. /\ \A k, i : k = kind /\ i = id => ~Goes(s, t, k, i)
      /\ \A i : ~Goes(s, t, "route", i)
  BY DEF Goes, Omits
<1>7. M = {}
  BY <1>4, <1>5, <1>6, Zenon DEF Meant
<1>8. /\ id \in DOMAIN at[n][kind] <=> id \in DOMAIN at[0][kind]
      /\ id \in DOMAIN at[0][kind] => at[n][kind][id] = at[0][kind][id]
  BY <1>3, <1>7, Never
<1> QED
  BY <1>1, <1>8 DEF Untouched

-----------------------------------------------------------------------------
(* What the fabric outlives                                                *)

\* Devices and links are never erased, their reservations never change, and a link's state
\* only to removed.
Outlived(s, u) ==
  /\ \A d \in DOMAIN s.device : d \in DOMAIN u.device /\ u.device[d].res = s.device[d].res
  /\ \A l \in DOMAIN s.link :
       /\ l \in DOMAIN u.link /\ u.link[l].res = s.link[l].res
       /\ u.link[l].state \in {s.link[l].state, "removed"}

\* That is so over no operation,
LEMMA OutlivedSame == ASSUME NEW s PROVE Outlived(s, s)
  BY DEF Outlived

\* over two spans when it is over each,
LEMMA OutlivedBoth ==
  ASSUME NEW s, NEW u, NEW v, Outlived(s, u), Outlived(u, v)
  PROVE  Outlived(s, v)
  BY DEF Outlived

\* and over every operation that is possible.
LEMMA OutlivedChange ==
  ASSUME NEW c, NEW s, NEW o, IsSnapshot(s), IsOperation(o), Possible(c, s, o)
  PROVE  Outlived(s, Changed(s, o))
<1>1. PICK t, kind : t = Changed(s, o) /\ kind = EntityKind(o)
  OBVIOUS
<1>2. Shaped(s) /\ o.kind \in AllKinds
  BY SnapshotShaped, OperationKind
<1>3. /\ \A i \in DOMAIN s[kind] \ {o.id} : i \in DOMAIN t[kind] /\ t[kind][i] = s[kind][i]
      /\ o.kind \notin EraseOps => o.id \in DOMAIN t[kind] /\ t[kind][o.id] = EntryAfter(s, o)
  BY <1>1, <1>2, OwnKindAfter
<1>4. ASSUME NEW k \in EntityKinds, k # kind PROVE t[k] = s[k]
  BY <1>1, <1>2, <1>4, OtherKindsAfter
<1>5. "device" \in EntityKinds /\ "link" \in EntityKinds
  BY DEF EntityKinds
<1>6. o.kind \in AddOps => o.id \notin DOMAIN s[kind]
  BY <1>1 DEF Possible, Known, Written
<1>7. ASSUME NEW d \in DOMAIN s.device PROVE d \in DOMAIN t.device /\ t.device[d].res = s.device[d].res
  <2>1. CASE kind # "device"
    BY <1>4, <1>5, <2>1
  <2>2. CASE kind = "device" /\ o.id # d
    BY <1>3, <2>2
  <2>3. CASE kind = "device" /\ o.id = d
    <3>1. o.kind \in DeviceOps \ {"device_add"} /\ o.kind \notin EraseOps
      BY <1>1, <1>2, <1>6, <2>3, KindsSplit DEF AllKinds, AddOps, EraseOps, DeviceOps, MaintenanceOps
    <3>2. PICK e : e = s.device[o.id] /\ IsDevice(e)
      BY <2>3 DEF IsSnapshot
    <3>3. EntryAfter(s, o).res = e.res
      BY <3>1, <3>2, DeviceAfter
    <3> QED
      BY <1>3, <2>3, <3>1, <3>2, <3>3
  <2> QED
    BY <2>1, <2>2, <2>3
<1>8. ASSUME NEW l \in DOMAIN s.link
      PROVE  /\ l \in DOMAIN t.link /\ t.link[l].res = s.link[l].res
             /\ t.link[l].state \in {s.link[l].state, "removed"}
  <2>1. CASE kind # "link"
    BY <1>4, <1>5, <2>1
  <2>2. CASE kind = "link" /\ o.id # l
    BY <1>3, <2>2
  <2>3. CASE kind = "link" /\ o.id = l
    <3>1. o.kind \in {"link_remove", "link_set_capacity"} /\ o.kind \notin EraseOps
      BY <1>1, <1>2, <1>6, <2>3, KindsSplit DEF AllKinds, AddOps, EraseOps, LinkOps
    <3>2. PICK e : e = s.link[o.id] /\ IsLink(e)
      BY <2>3 DEF IsSnapshot
    <3>3. EntryAfter(s, o) = [e EXCEPT !.state = "removed"] \/ EntryAfter(s, o) = [e EXCEPT !.cap = o.new.cap]
      BY <3>1, <3>2 DEF EntryAfter, EraseOps, WindowOps, MaintenanceOps
    <3>4. EntryAfter(s, o).res = e.res /\ EntryAfter(s, o).state \in {e.state, "removed"}
      BY <3>2, <3>3 DEF IsLink
    <3> QED
      BY <1>3, <2>3, <3>1, <3>2, <3>4
  <2> QED
    BY <2>1, <2>2, <2>3
<1> QED
  BY <1>1, <1>7, <1>8 DEF Outlived

\* The fabric outlives what reports and plans have seen of it, a report what its plan was made
\* from, and a rollback's snapshot the one to be restored.
HistInv ==
  /\ \A r \in reports : /\ Outlived(r.state, now.state)
                        /\ Planned /\ r.generation = plan.generation => Outlived(plan.request.state, r.state)
  /\ Planned => /\ Outlived(plan.request.state, now.state)
                /\ plan.kind = "rollback" => Outlived(plan.origin, plan.request.state)

\* In the beginning there is nothing to outlive.
LEMMA HistInit == Init => HistInv
  BY DEF Init, HistInv, Planned, NoPlan

\* An operation that applies is outlived by what it was applied to.
LEMMA OutlivedPerformed ==
  ASSUME NEW c, IsInputs(now), NEW o, IsOperation(o), Applies(c, now.state, o), now' = NowPerformed(o)
  PROVE  Outlived(now.state, now'.state)
<1>1. PICK state, stamp, target, evidence, rules, instant :
        now = [state |-> state, stamp |-> stamp, target |-> target, evidence |-> evidence,
               rules |-> rules, instant |-> instant]
  BY DEF IsInputs
<1>2. PICK mid : mid = [now EXCEPT !.state = Changed(@, o)]
  OBVIOUS
<1>3. mid = [state |-> Changed(state, o), stamp |-> stamp, target |-> target, evidence |-> evidence,
             rules |-> rules, instant |-> instant]
  BY <1>1, <1>2
<1>4. now' = [mid EXCEPT !.stamp.topology = @ + 1]
  BY <1>2 DEF NowPerformed
<1>5. now'.state = Changed(state, o)
  BY <1>3, <1>4
<1>6. IsSnapshot(now.state) /\ Possible(c, now.state, o) /\ now.state = state
  BY <1>1 DEF IsInputs, Applies
<1> QED
  BY <1>5, <1>6, OutlivedChange

\* Every step is one the fabric outlives.
LEMMA StepOutlived == LifeInv /\ [Next]_vars => Outlived(now.state, now'.state)
<1> SUFFICES ASSUME LifeInv, [Next]_vars PROVE Outlived(now.state, now'.state)
  OBVIOUS
<1>1. NowInv /\ PlanInv /\ RunInv /\ IsInputs(now) /\ world \in Worlds
  BY DEF LifeInv, NowInv
<1>2. IsSnapshot(now.state) /\ now = Inputs6(now.state, now.stamp, now.target, now.evidence, now.rules, now.instant)
  BY <1>1, InputsParts
<1>3. CASE now'.state = now.state
  BY <1>3, OutlivedSame
<1>4. CASE FabricDrifts
  <2>1. PICK o \in world.changes : Applies(ContextOf(now), now.state, o) /\ now' = NowPerformed(o)
    BY <1>4 DEF FabricDrifts, Drift
  <2>2. IsOperation(o)
    BY <1>1, <2>1, WorldAssumption
  <2> QED
    BY <1>1, <2>1, <2>2, OutlivedPerformed
<1>5. ASSUME Pending, Accepts(ContextOf(now), now.state, NextStep), now' = NowPerformed(NextStep.op)
      PROVE  Outlived(now.state, now'.state)
  <2>1. PICK o, n : o = NextStep.op /\ n = Len(run.outcomes)
    OBVIOUS
  <2>2. Planned /\ IsPlan(plan) /\ n < Len(plan.steps)
    BY <1>1, <1>5, <2>1 DEF RunInv, Idle, Pending, PlanInv
  <2>3. n \in Nat
    BY <1>1, <2>1, LenProperties DEF RunInv
  <2>4. Len(plan.steps) \in Nat /\ \A i \in 1 .. Len(plan.steps) : IsStep(plan.steps[i])
    BY <2>2, StepsAre DEF IsPlan
  <2>5. n + 1 \in 1 .. Len(plan.steps)
    BY <2>2, <2>3, <2>4
  <2>6. IsOperation(o)
    BY <2>1, <2>4, <2>5 DEF NextStep, IsStep
  <2>7. Applies(ContextOf(now), now.state, o)
    BY <1>5, <2>1, Zenon DEF Accepts
  <2> QED
    BY <1>1, <1>5, <2>1, <2>6, <2>7, OutlivedPerformed
<1>6. CASE Perform
  BY <1>5, <1>6 DEF Perform
<1>7. CASE Stumble
  BY <1>3, <1>5, <1>7 DEF Stumble
<1>8. CASE Generate \/ Begin \/ Report \/ UNCHANGED vars
  <2>1. now' = now
    BY <1>8 DEF Generate, Begin, Report, vars
  <2> QED
    BY <1>3, <2>1
<1>9. CASE Continue \/ RollBack
  <2>1. PICK x : now' = [now EXCEPT !.target = x]
    BY <1>9 DEF Continue, RollBack, Adopt
  <2>2. now'.state = now.state
    BY <1>2, <2>1 DEF Inputs6
  <2> QED
    BY <1>3, <2>2
<1>10. CASE AuthorityMoves
  <2>1. PICK field : now' = [now EXCEPT !.stamp[field] = @ + 1]
    BY <1>10 DEF AuthorityMoves, Drift
  <2>2. now'.state = now.state
    BY <1>2, <2>1 DEF Inputs6
  <2> QED
    BY <1>3, <2>2
<1>11. CASE Reissue
  <2>1. PICK target, evidence : now' = [now EXCEPT !.target = target, !.evidence = evidence]
    BY <1>11, Zenon DEF Reissue, Drift
  <2>2. now'.state = now.state
    BY <1>2, <2>1 DEF Inputs6
  <2> QED
    BY <1>3, <2>2
<1>12. CASE RulesChange \/ TimePasses
  <2>1. now'.state = now.state
    BY <1>2, <1>12 DEF RulesChange, TimePasses, Drift, Inputs6
  <2> QED
    BY <1>3, <2>1
<1> QED
  BY <1>4, <1>6, <1>7, <1>8, <1>9, <1>10, <1>11, <1>12 DEF Next

\* A later plan is made from a report of the plan in force.
LEMMA AdoptedOutlived ==
  ASSUME LifeInv, HistInv, Planned, NEW p, Adopt(p), NEW r \in reports, IsPlan(p), p.generation = plan.generation + 1,
         p.request.state = r.state, r.generation = plan.generation,
         p.kind = "rollback" => p.origin = plan.request.state, Outlived(now.state, now'.state)
  PROVE  HistInv'
<1>1. plan' = p /\ reports' = reports
  BY DEF Adopt, Install
<1>2. Outlived(r.state, now'.state)
  BY OutlivedBoth DEF HistInv
<1>3. p.kind = "rollback" => Outlived(p.origin, p.request.state)
  BY DEF HistInv
<1>4. ASSUME NEW x \in reports
      PROVE  Outlived(x.state, now'.state) /\ x.generation # p.generation
  <2>1. plan.generation \in Int /\ x.generation \in Int /\ x.generation <= plan.generation
    BY DEF LifeInv, PlanInv, ReportsInv
  <2> QED
    BY <2>1, OutlivedBoth DEF HistInv
<1> QED
  BY <1>1, <1>2, <1>3, <1>4 DEF HistInv, Planned

\* The history is kept by every step.
LEMMA HistStep == LifeInv /\ HistInv /\ [Next]_vars => HistInv'
<1> SUFFICES ASSUME LifeInv, HistInv, [Next]_vars PROVE HistInv'
  OBVIOUS
<1>1. Outlived(now.state, now'.state)
  BY StepOutlived
<1>2. PlanInv /\ ReportsInv
  BY DEF LifeInv
<1>3. \A r \in reports : Outlived(r.state, now'.state)
  BY <1>1, OutlivedBoth DEF HistInv
<1>4. CASE Generate
  <2>1. /\ ~Planned /\ now' = now /\ reports' = reports
        /\ \E steps \in Schedules(now) :
             Install(PlanOf([id |-> 1, generation |-> 0], now, "initial", steps, {}, now.state))
    BY <1>4 DEF Generate
  <2>2. PICK steps : plan' = PlanOf([id |-> 1, generation |-> 0], now, "initial", steps, {}, now.state)
    BY <2>1 DEF Install
  <2>3. plan'.generation = 1 /\ plan'.request = now /\ plan'.kind = "initial"
    BY <2>2 DEF PlanOf
  <2>4. ASSUME NEW r \in reports PROVE r.generation # 1
    BY <1>2, <2>1 DEF PlanInv, ReportsInv
  <2> QED
    BY <1>3, <2>1, <2>3, <2>4, OutlivedSame DEF HistInv
<1>5. CASE Continue
  <2>1. PICK r \in reports, base \in Bases, compensate \in world.compensate :
          Planned /\ \E p \in Continuations(plan, r, base, compensate) : Adopt(p)
    BY <1>5 DEF Continue
  <2>2. PICK p \in Continuations(plan, r, base, compensate) : Adopt(p)
    BY <2>1
  <2>3. IsInputs(base) /\ IsSteps(plan.steps) /\ IsReport(r)
    BY <2>1, BasesAre DEF LifeInv, PlanInv, ReportsInv, IsPlan
  <2>4. /\ IsPlan(p) /\ p.generation = plan.generation + 1
        /\ p.kind = "replan" /\ p.request.state = r.state /\ r.generation = plan.generation
    BY <2>3, ContinuationsAre
  <2> QED
    BY <1>1, <2>1, <2>2, <2>4, AdoptedOutlived
<1>6. CASE RollBack
  <2>1. PICK r \in reports, base \in Bases : Planned /\ \E p \in Rollbacks(plan, r, base) : Adopt(p)
    BY <1>6 DEF RollBack
  <2>2. PICK p \in Rollbacks(plan, r, base) : Adopt(p)
    BY <2>1
  <2>3. IsInputs(base) /\ IsInputs(plan.request) /\ IsReport(r)
    BY <2>1, BasesAre DEF LifeInv, PlanInv, ReportsInv, IsPlan
  <2>4. /\ IsPlan(p) /\ p.generation = plan.generation + 1
        /\ p.request.state = r.state /\ r.generation = plan.generation /\ p.origin = plan.request.state
    BY <2>3, RollbacksAre
  <2> QED
    BY <1>1, <2>1, <2>2, <2>4, AdoptedOutlived
<1>7. CASE Report
  <2>1. PICK r : /\ r = [plan |-> plan.id, generation |-> plan.generation, attempt |-> run.attempt,
                         stamp |-> now.stamp, state |-> now.state,
                         outcomes |-> {<<plan.steps[i].op, run.outcomes[i]>> : i \in DOMAIN run.outcomes}]
                 /\ reports' = reports \cup {r} /\ now' = now /\ plan' = plan
    BY <1>7 DEF Report
  <2>2. r.state = now.state
    BY <2>1
  <2> QED
    BY <2>1, <2>2, OutlivedSame DEF HistInv, Planned
<1>8. CASE plan' = plan /\ reports' = reports
  <2>1. Planned => Outlived(plan.request.state, now'.state)
    BY <1>1, OutlivedBoth DEF HistInv
  <2> QED
    BY <1>3, <1>8, <2>1 DEF HistInv, Planned
<1>9. CASE Begin \/ Perform \/ Stumble \/ FabricDrifts \/ AuthorityMoves \/ Reissue \/ RulesChange \/ TimePasses
           \/ UNCHANGED vars
  <2>1. plan' = plan /\ reports' = reports
    BY <1>9 DEF Begin, Perform, Stumble, FabricDrifts, AuthorityMoves, Reissue, RulesChange, TimePasses, Drift, vars
  <2> QED
    BY <1>8, <2>1
<1> QED
  BY <1>4, <1>5, <1>6, <1>7, <1>9 DEF Next

\* So it is in every behaviour.
LEMMA HistReached == Spec => [](LifeInv /\ HistInv)
<1>1. Init => LifeInv /\ HistInv
  BY LifeInit, HistInit
<1>2. LifeInv /\ HistInv /\ [Next]_vars => LifeInv' /\ HistInv'
  BY LifeStep, HistStep
<1> QED
  BY <1>1, <1>2, PTL DEF Spec

-----------------------------------------------------------------------------
(* Targets reached, snapshots restored                                     *)

\* Snapshots that are alike, and in whose policies and configuration nothing moved, are the same.
LEMMA AlikeSame ==
  ASSUME NEW s, NEW t, IsSnapshot(s), IsSnapshot(t), Alike(s, t), s.policy = t.policy, s.config = t.config
  PROVE  s = t
<1>1. \A kind \in EntityKinds : s[kind] = t[kind]
  BY DEF Alike, EntityKinds
<1>2. s = [kind \in EntityKinds |-> s[kind]] /\ t = [kind \in EntityKinds |-> t[kind]]
  BY DEF IsSnapshot, IsFunction
<1> QED
  BY <1>1, <1>2

\* What is carried out goes from the snapshot of its plan along a way that delivers the target.
LEMMA CarriedDelivers ==
  ASSUME LifeInv, Carried
  PROVE  /\ IsPlan(plan) /\ Planned
         /\ now.target.goal = plan.request.target.goal
         /\ \E at, ops, n :
              /\ Delivers(ContextOf(now), ContextOf(plan.request), plan.request.state, plan.request.target.goal,
                          plan.undone, at, ops, n)
              /\ at[n] = Ahead.at
<1>1. /\ Planned /\ StillValid(plan.request, plan.steps, now) /\ Fresh
      /\ Unmoved("policy") /\ Unmoved("config") /\ Ahead.ok
  BY DEF Carried, Fresh, Validated
<1>2. IsInputs(now) /\ IsPlan(plan)
  BY <1>1 DEF LifeInv, NowInv, PlanInv
<1>3. PICK b, v, steps : b = plan.request /\ v = now /\ steps = plan.steps
  OBVIOUS
<1>4. IsSnapshot(b.state) /\ IsSnapshot(v.state) /\ IsSteps(steps) /\ Distinct(steps) /\ Aims(b, steps, plan.undone)
  BY <1>2, <1>3 DEF IsPlan, IsInputs
<1>5. b.target = v.target
  BY <1>1, <1>3, Zenon DEF StillValid, TargetDrift
<1>6. b.state = v.state
  <2>1. Alike(b.state, v.state)
    BY <1>1, <1>3, <1>4, FreshIsAlike
  <2>2. v.state.policy = b.state.policy /\ v.state.config = b.state.config
    BY <1>1, <1>3 DEF Unmoved
  <2> QED
    BY <1>4, <2>1, <2>2, AlikeSame
<1>7. PICK c, c0, s, t, undone :
        /\ c = ContextOf(v) /\ c0 = ContextOf(b) /\ s = b.state /\ t = b.target.goal /\ undone = plan.undone
  OBVIOUS
<1>8. Replay(c, s, steps).ok /\ Ahead = Replay(c, s, steps)
  BY <1>1, <1>3, <1>6, <1>7 DEF Ahead
<1>12. IsSnapshot(s)
  BY <1>4, <1>7
<1>13. PICK at, ops : Along(c, s, steps, at, ops)
  BY <1>4, <1>8, <1>12, ReplayedWay
<1>14. PICK n : n = Len(steps)
  OBVIOUS
<1>9. /\ Way(c, at, ops, n) /\ at[0] = s /\ at[n] = Replay(c, s, steps).at
      /\ \A i \in 1 .. n : ops[i] = steps[i].op
  BY <1>13, <1>14 DEF Along
<1>10. DOMAIN steps = 1 .. n
  BY <1>4, <1>14, StepsAre
<1>11. Delivers(c, c0, s, t, undone, at, ops, n)
  <2>1. /\ \A o \in Derived(c0, s, t) : \E i \in DOMAIN steps : steps[i].op = o
        /\ \A i \in DOMAIN steps : steps[i].op \in Derived(c0, s, t) \/ Written(steps[i].op) \in undone
    BY <1>4, <1>7 DEF Aims
  <2>2. \A i, j \in DOMAIN steps : steps[i].op = steps[j].op => i = j
    BY <1>4 DEF Distinct
  <2> QED
    BY <1>9, <1>10, <2>1, <2>2 DEF Delivers
<1> QED
  BY <1>1, <1>2, <1>3, <1>5, <1>7, <1>8, <1>9, <1>11

\* What a plan aims at can be reached from where it starts.
LEMMA PlanAims ==
  ASSUME NEW p, IsPlan(p)
  PROVE  /\ IsGoal(p.request.target.goal) /\ TargetValid(p.request.target.goal)
         /\ ~InConflict(p.request.state, p.request.target.goal)
         /\ IsSnapshot(p.request.state)
<1>1. IsInputs(p.request) /\ Aims(p.request, p.steps, p.undone)
  BY DEF IsPlan
<1>2. TargetValid(p.request.target.goal) /\ Derivable(p.request.state, p.request.target.goal)
  BY <1>1 DEF Aims
<1> QED
  BY <1>1, <1>2 DEF IsInputs, Derivable

\* An entity is there, with what is wanted of it.
EntryMatches(u, kind, id, want) == id \in DOMAIN u[kind] /\ Matches(kind, u[kind][id], want)

\* A link that is wanted is there in the end, with the wanted ends, domains and capacity.
LEMMA LinkReached ==
  ASSUME NEW c, NEW c0, NEW s, NEW t, NEW undone, NEW at, NEW ops, NEW n, NEW l, NEW want,
         Delivers(c, c0, s, t, undone, at, ops, n), IsGoal(t), TargetValid(t), ~InConflict(s, t),
         Asks(t, "link", l, want), <<"link", l>> \notin undone
  PROVE  EntryMatches(at[n], "link", l, want)
<1>1. LinkShown(at[n], s, l, want)
  BY EnsuredLink
<1>5. PICK there : there = at[n].link[l]
  OBVIOUS
<1>2. /\ l \in DOMAIN at[n].link
      /\ l \in DOMAIN s.link => there = [s.link[l] EXCEPT !.cap = want.cap]
      /\ l \notin DOMAIN s.link => there.state = "present" /\ LikeLink(there, want)
  BY <1>1, <1>5, Zenon DEF LinkShown
<1>3. l \in DOMAIN s.link => there.state # "removed" /\ LikeLink(there, want)
  <2> SUFFICES ASSUME l \in DOMAIN s.link PROVE there.state # "removed" /\ LikeLink(there, want)
    OBVIOUS
  <2>1. IsSnapshot(s) /\ l \in DOMAIN t.ensure.link
    BY DeliversFrom DEF Asks
  <2>2. PICK here : here = s.link[l] /\ IsLink(here)
    BY <2>1 DEF IsSnapshot
  <2>3. want = t.ensure.link[l]
    BY DEF Asks
  <2>4. here.state # "removed" /\ <<here.a, here.b, here.transit>> = <<want.a, want.b, want.transit>>
    BY <2>1, <2>2, <2>3, Zenon DEF InConflict
  <2>5. there = [here EXCEPT !.cap = want.cap]
    BY <1>2, <2>2
  <2>6. /\ there.state = here.state /\ there.cap = want.cap
        /\ there.a = here.a /\ there.b = here.b /\ there.transit = here.transit
    BY <2>2, <2>5 DEF IsLink
  <2> QED
    BY <2>4, <2>6 DEF LikeLink
<1>4. there.state # "removed" /\ LikeLink(there, want)
  BY <1>2, <1>3
<1>6. Matches("link", there, want)
  BY <1>4 DEF Matches, LikeLink
<1> QED
  BY <1>2, <1>5, <1>6, Zenon DEF EntryMatches

\* What is wanted and neither undone nor contested is there as it is wanted.
LEMMA EnsuredMatches ==
  ASSUME NEW c, NEW c0, NEW s, NEW t, NEW undone, NEW at, NEW ops, NEW n, NEW kind, NEW id, NEW want,
         Delivers(c, c0, s, t, undone, at, ops, n), IsGoal(t), TargetValid(t), ~InConflict(s, t),
         kind \in EntityKinds, Asks(t, kind, id, want), <<kind, id>> \notin undone,
         kind = "workload" => Unaffected(s, t, id)
  PROVE  EntryMatches(at[n], kind, id, want)
<1>1. CASE kind = "device"
  <2>1. DeviceShown(at[n], s, id, want)
    BY <1>1, EnsuredDevice
  <2>2. PICK there : /\ there = at[n].device[id] /\ id \in DOMAIN at[n].device
                     /\ there = [want EXCEPT !.res = there.res]
    BY <2>1, Zenon DEF DeviceShown
  <2>3. IsDevice(want)
    BY <1>1 DEF Asks, IsGoal
  <2>4. [there EXCEPT !.res = want.res] = want
    BY <2>2, <2>3 DEF IsDevice
  <2>5. Matches("device", there, want)
    BY <2>4 DEF Matches
  <2> QED
    BY <1>1, <2>2, <2>5, Zenon DEF EntryMatches
<1>2. CASE kind = "link"
  BY <1>2, LinkReached
<1>3. CASE kind \in {"route", "workload", "policy"}
  <2>1. EntryShown(at[n], kind, id, want)
    <3>1. CASE kind = "route"
      BY <3>1, EnsuredRoute
    <3>2. CASE kind = "workload"
      BY <3>2, EnsuredWorkload
    <3>3. CASE kind = "policy"
      BY <3>3, EnsuredPolicy
    <3> QED
      BY <1>3, <3>1, <3>2, <3>3
  <2>2. PICK there : there = at[n][kind][id] /\ id \in DOMAIN at[n][kind] /\ there = want
    BY <2>1, Zenon DEF EntryShown
  <2>3. Matches("route", want, want) /\ Matches("workload", want, want) /\ Matches("policy", want, want)
    BY DEF Matches
  <2> QED
    BY <1>3, <2>2, <2>3 DEF EntryMatches
<1>4. CASE kind = "config"
  <2>1. EntryValued(at[n], id, want.value)
    BY <1>4, EnsuredConfig
  <2>2. PICK there : there = at[n].config[id] /\ id \in DOMAIN at[n].config /\ there.value = want.value
    BY <2>1, Zenon DEF EntryValued
  <2>3. Matches("config", there, want)
    BY <2>2 DEF Matches
  <2> QED
    BY <1>4, <2>2, <2>3, Zenon DEF EntryMatches
<1> QED
  BY <1>1, <1>2, <1>3, <1>4 DEF EntityKinds

\* Carrying a plan out reaches its target, but for what is undone or contested.
LEMMA CarriedReaches ==
  ASSUME LifeInv, Carried
  PROVE  Missed(Ahead.at, now.target.goal) \subseteq plan.undone \cup Contested
<1>1. PICK s, t, undone, g : /\ s = plan.request.state /\ t = plan.request.target.goal /\ undone = plan.undone
                             /\ g = Ahead.at
  OBVIOUS
<1>2. IsPlan(plan) /\ now.target.goal = t
  BY <1>1, CarriedDelivers
<1>3. PICK c, c0, at, ops, n : Delivers(c, c0, s, t, undone, at, ops, n) /\ at[n] = g
  BY <1>1, CarriedDelivers
<1>4. IsGoal(t) /\ TargetValid(t) /\ ~InConflict(s, t)
  BY <1>1, <1>2, PlanAims
<1>5. ASSUME NEW kind \in EntityKinds, NEW id \in DOMAIN t.ensure[kind],
             ~(id \in DOMAIN g[kind] /\ Matches(kind, g[kind][id], t.ensure[kind][id])), <<kind, id>> \notin undone
      PROVE  <<kind, id>> \in Contested
  <2>1. PICK want : want = t.ensure[kind][id] /\ Asks(t, kind, id, want)
    BY DEF Asks
  <2>2. ~(kind = "workload" => Unaffected(s, t, id))
    <3> SUFFICES ASSUME kind = "workload" => Unaffected(s, t, id) PROVE FALSE
      OBVIOUS
    <3>1. EntryMatches(at[n], kind, id, want)
      BY <1>3, <1>4, <1>5, <2>1, EnsuredMatches
    <3> QED
      BY <1>3, <1>5, <2>1, <3>1 DEF EntryMatches
  <2>3. kind = "workload" /\ id \in {v \in DOMAIN t.ensure.workload \cap DOMAIN s.workload :
                                       t.remove.route \cap DOMAIN s.workload[v].bind # {}}
    BY <1>5, <2>2 DEF Unaffected
  <2> QED
    BY <1>1, <1>2, <2>3 DEF Contested
<1>6. ASSUME NEW kind \in EntityKinds, NEW id \in t.remove[kind], Exists(g, <<kind, id>>)
      PROVE  <<kind, id>> \in undone
  BY <1>3, <1>4, <1>6, RemovedGone
<1>7. ASSUME NEW e \in Missed(g, t) PROVE e \in undone \cup Contested
  <2>1. CASE /\ e \in UNION {Refs(kind, DOMAIN t.ensure[kind]) : kind \in EntityKinds}
             /\ ~Known(g, e) \/ ~Matches(e[1], g[e[1]][e[2]], t.ensure[e[1]][e[2]])
    <3>1. PICK kind \in EntityKinds : e \in Refs(kind, DOMAIN t.ensure[kind])
      BY <2>1
    <3>2. PICK id \in DOMAIN t.ensure[kind] : e = <<kind, id>>
      BY <3>1 DEF Refs
    <3>3. e[1] = kind /\ e[2] = id
      BY <3>2
    <3>4. ~(id \in DOMAIN g[kind] /\ Matches(kind, g[kind][id], t.ensure[kind][id]))
      BY <2>1, <3>3 DEF Known
    <3> QED
      BY <1>5, <3>2, <3>4
  <2>2. CASE e \in UNION {Refs(kind, t.remove[kind]) : kind \in EntityKinds} /\ Exists(g, e)
    <3>1. PICK kind \in EntityKinds : e \in Refs(kind, t.remove[kind])
      BY <2>2
    <3>2. PICK id \in t.remove[kind] : e = <<kind, id>>
      BY <3>1 DEF Refs
    <3> QED
      BY <1>6, <2>2, <3>2
  <2> QED
    BY <1>7, <2>1, <2>2, Zenon DEF Missed
<1> QED
  BY <1>1, <1>2, <1>7

\* "reaches the target" (README.md:8): in every behaviour, whatever failed, was left half done,
\* drifted or came late before, a plan that is valid and is carried out brings the fabric to its
\* target, but for what its compensations undo and what two of its operations contend for.
THEOREM TargetsReached == Spec => []TargetReached
<1>1. LifeInv => TargetReached
  BY CarriedReaches DEF TargetReached
<1> QED
  BY <1>1, LifeReached, PTL

\* The goal of a rollback wants the live entities of its snapshot and removes the tombstones.
LEMMA RestoringAsks ==
  ASSUME NEW s, NEW t, NEW kind, IsSnapshot(s), t = TargetFromState(s), kind \in EntityKinds
  PROVE  /\ DOMAIN t.ensure[kind] = Live(s, kind)
         /\ \A i \in Live(s, kind) : t.ensure[kind][i] = s[kind][i]
         /\ t.remove[kind] = DOMAIN s[kind] \ Live(s, kind)
<1> DEFINE Standing(k) == {i \in DOMAIN s[k] : s[k][i].state # "removed"}
           None == [k \in EntityKinds |-> {}]
<1>1. PICK devices, links, d, l, ensure, remove :
        /\ devices = Standing("device") /\ links = Standing("link")
        /\ d = [i \in devices |-> s.device[i]] /\ l = [i \in links |-> s.link[i]]
        /\ ensure = [s EXCEPT !.device = d, !.link = l]
        /\ remove = [None EXCEPT !.device = DOMAIN s.device \ devices, !.link = DOMAIN s.link \ links]
  OBVIOUS
<1>2. t = [ensure |-> ensure, remove |-> remove]
  BY <1>1 DEF TargetFromState
<1>3. t.ensure = ensure /\ t.remove = remove
  BY <1>2
<1>4. /\ ensure.device = d /\ ensure.link = l
      /\ \A k \in EntityKinds \ {"device", "link"} : ensure[k] = s[k]
  BY <1>1 DEF IsSnapshot, IsFunction, EntityKinds
<1>5. /\ remove.device = DOMAIN s.device \ devices /\ remove.link = DOMAIN s.link \ links
      /\ \A k \in EntityKinds \ {"device", "link"} : remove[k] = {}
  BY <1>1 DEF EntityKinds
<1>6. Live(s, "device") = devices /\ Live(s, "link") = links
  <2>1. ASSUME NEW k, k \in {"device", "link"}, NEW i PROVE i \in Live(s, k) <=> i \in Standing(k)
    <3>1. Exists(s, <<k, i>>) <=> i \in DOMAIN s[k] /\ s[k][i].state # "removed"
      BY <2>1 DEF Exists, Known
    <3> QED
      BY <3>1 DEF Live
  <2> HIDE DEF Standing
  <2> QED
    BY <1>1, <2>1
<1>7. ASSUME NEW k \in EntityKinds \ {"device", "link"} PROVE Live(s, k) = DOMAIN s[k]
  <2>1. \A i : Exists(s, <<k, i>>) <=> i \in DOMAIN s[k]
    BY DEF Exists, Known, EntityKinds
  <2> QED
    BY <2>1 DEF Live
<1>11. /\ DOMAIN d = devices /\ DOMAIN l = links
       /\ \A i \in devices : d[i] = s.device[i]
       /\ \A i \in links : l[i] = s.link[i]
  BY <1>1
<1>8. CASE kind = "device"
  BY <1>3, <1>4, <1>5, <1>6, <1>8, <1>11
<1>9. CASE kind = "link"
  BY <1>3, <1>4, <1>5, <1>6, <1>9, <1>11
<1>10. CASE kind \in EntityKinds \ {"device", "link"}
  BY <1>3, <1>4, <1>5, <1>7, <1>10
<1> QED
  BY <1>8, <1>9, <1>10

\* An entity is live and as it was.
Restored(u, kind, id, want) == id \in Live(u, kind) /\ Shown(kind, u[kind][id]) = Shown(kind, want)

\* Carrying out a goal that restores a snapshot, from one the first outlived, restores a device
LEMMA RestoredDevice ==
  ASSUME NEW c, NEW c0, NEW s, NEW t, NEW at, NEW ops, NEW n, NEW origin, NEW id, NEW want,
         Delivers(c, c0, s, t, {}, at, ops, n), IsGoal(t), TargetValid(t), ~InConflict(s, t),
         Outlived(origin, s), Asks(t, "device", id, want), want = origin.device[id],
         id \in DOMAIN origin.device, want.state # "removed"
  PROVE  Restored(at[n], "device", id, want)
<1>1. DeviceShown(at[n], s, id, want)
  BY EnsuredDevice
<1>2. PICK there : there = at[n].device[id]
  OBVIOUS
<1>3. /\ id \in DOMAIN at[n].device /\ there = [want EXCEPT !.res = there.res]
      /\ id \in DOMAIN s.device => there.res = s.device[id].res
  BY <1>1, <1>2, Zenon DEF DeviceShown
<1>4. id \in DOMAIN s.device /\ s.device[id].res = want.res
  BY Zenon DEF Outlived
<1>5. IsDevice(want)
  BY DEF Asks, IsGoal
<1>6. there = want
  <2>1. there.res = want.res
    BY <1>3, <1>4
  <2>2. there = [want EXCEPT !.res = want.res]
    BY <1>3, <2>1
  <2> QED
    BY <1>5, <2>2 DEF IsDevice
<1>7. id \in Live(at[n], "device")
  BY <1>2, <1>3, <1>6 DEF Live, Exists, Known
<1> QED
  BY <1>2, <1>6, <1>7 DEF Restored, Shown

\* and a link,
LEMMA RestoredLink ==
  ASSUME NEW c, NEW c0, NEW s, NEW t, NEW at, NEW ops, NEW n, NEW origin, NEW id, NEW want,
         Delivers(c, c0, s, t, {}, at, ops, n), IsGoal(t), TargetValid(t), ~InConflict(s, t),
         Outlived(origin, s), Asks(t, "link", id, want), want = origin.link[id], IsLink(want),
         id \in DOMAIN origin.link, want.state # "removed"
  PROVE  Restored(at[n], "link", id, want)
<1>1. LinkShown(at[n], s, id, want)
  BY EnsuredLink
<1>2. PICK there, here : there = at[n].link[id] /\ here = s.link[id]
  OBVIOUS
<1>3. /\ id \in DOMAIN at[n].link
      /\ id \in DOMAIN s.link => there = [here EXCEPT !.cap = want.cap]
  BY <1>1, <1>2, Zenon DEF LinkShown
<1>4. id \in DOMAIN s.link /\ here.res = want.res /\ here.state \in {want.state, "removed"}
  BY <1>2, Zenon DEF Outlived
<1>5. IsLink(here)
  BY <1>2, <1>4, DeliversFrom DEF IsSnapshot
<1>6. here.state # "removed" /\ <<here.a, here.b, here.transit>> = <<want.a, want.b, want.transit>>
  <2>1. id \in DOMAIN t.ensure.link /\ want = t.ensure.link[id]
    BY DEF Asks
  <2> QED
    BY <1>2, <1>4, <2>1, Zenon DEF InConflict
<1>7. here.a = want.a /\ here.b = want.b /\ here.transit = want.transit /\ here.state = want.state
  BY <1>4, <1>6
<1>8. there = want
  <2>1. there = [here EXCEPT !.cap = want.cap]
    BY <1>3, <1>4
  <2> QED
    BY <1>4, <1>5, <1>7, <2>1 DEF IsLink
<1>9. id \in Live(at[n], "link")
  BY <1>2, <1>3, <1>8 DEF Live, Exists, Known
<1> QED
  BY <1>2, <1>8, <1>9 DEF Restored, Shown

\* and what else there is.
LEMMA RestoredEntity ==
  ASSUME NEW c, NEW c0, NEW s, NEW t, NEW at, NEW ops, NEW n, NEW origin, NEW kind, NEW id,
         Delivers(c, c0, s, t, {}, at, ops, n), IsGoal(t), TargetValid(t), ~InConflict(s, t),
         IsSnapshot(origin), t = TargetFromState(origin), Outlived(origin, s),
         kind \in EntityKinds, id \in Live(origin, kind)
  PROVE  Restored(at[n], kind, id, origin[kind][id])
<1>1. PICK want : want = origin[kind][id]
  OBVIOUS
<1>2. Asks(t, kind, id, want)
  BY <1>1, RestoringAsks DEF Asks
<1>3. id \in DOMAIN origin[kind] /\ (kind \in {"device", "link"} => want.state # "removed")
  BY <1>1 DEF Live, Exists
<1>4. \A w : Unaffected(s, t, w)
  <2>1. "route" \in EntityKinds /\ Live(origin, "route") = DOMAIN origin["route"]
    BY DEF EntityKinds, Live, Exists, Known
  <2>2. t.remove["route"] = {}
    BY <2>1, RestoringAsks
  <2> QED
    BY <2>2 DEF Unaffected
<1>5. CASE kind = "device"
  BY <1>1, <1>2, <1>3, <1>5, RestoredDevice
<1>6. CASE kind = "link"
  <2>1. IsLink(want)
    BY <1>1, <1>3, <1>6 DEF IsSnapshot
  <2> QED
    BY <1>1, <1>2, <1>3, <1>6, <2>1, RestoredLink
<1>7. CASE kind \in {"route", "workload", "policy"}
  <2>1. EntryShown(at[n], kind, id, want)
    <3>1. CASE kind = "route"
      BY <1>2, <3>1, EnsuredRoute
    <3>2. CASE kind = "workload"
      BY <1>2, <1>4, <3>2, EnsuredWorkload
    <3>3. CASE kind = "policy"
      BY <1>2, <3>3, EnsuredPolicy
    <3> QED
      BY <1>7, <3>1, <3>2, <3>3
  <2>2. id \in DOMAIN at[n][kind] /\ at[n][kind][id] = want
    BY <2>1 DEF EntryShown
  <2>3. id \in Live(at[n], kind)
    BY <1>7, <2>2 DEF Live, Exists, Known
  <2> QED
    BY <1>1, <1>7, <2>2, <2>3 DEF Restored
<1>8. CASE kind = "config"
  <2>1. EntryValued(at[n], id, want.value)
    BY <1>2, <1>8, EnsuredConfig
  <2>2. id \in DOMAIN at[n].config /\ at[n].config[id].value = want.value
    BY <2>1 DEF EntryValued
  <2>3. id \in Live(at[n], "config")
    BY <2>2 DEF Live, Exists, Known
  <2> QED
    BY <1>1, <1>8, <2>2, <2>3 DEF Restored, Shown
<1> QED
  BY <1>5, <1>6, <1>7, <1>8 DEF EntityKinds

\* Nothing is left beside it but what was there before and is none of its entities.
LEMMA LeftBeside ==
  ASSUME NEW c, NEW c0, NEW s, NEW t, NEW at, NEW ops, NEW n, NEW origin, NEW kind, NEW id,
         Delivers(c, c0, s, t, {}, at, ops, n), IsGoal(t), TargetValid(t),
         IsSnapshot(origin), t = TargetFromState(origin),
         kind \in EntityKinds, id \in Live(at[n], kind), id \notin Live(origin, kind)
  PROVE  id \in Live(s, kind) \ DOMAIN origin[kind]
<1>1. /\ DOMAIN t.ensure[kind] = Live(origin, kind)
      /\ t.remove[kind] = DOMAIN origin[kind] \ Live(origin, kind)
  BY RestoringAsks
<1>2. id \in DOMAIN at[n][kind] /\ Exists(at[n], <<kind, id>>)
  BY DEF Live
<1>3. id \notin DOMAIN origin[kind]
  <2> SUFFICES ASSUME id \in DOMAIN origin[kind] PROVE FALSE
    OBVIOUS
  <2>1. id \in t.remove[kind]
    BY <1>1
  <2> QED
    BY <1>2, <2>1, RemovedGone
<1>4. t.remove["route"] = {}
  <2>1. "route" \in EntityKinds /\ Live(origin, "route") = DOMAIN origin["route"]
    BY DEF EntityKinds, Live, Exists, Known
  <2> QED
    BY <2>1, RestoringAsks
<1>5. Omits(t, kind, id)
  BY <1>1, <1>3 DEF Omits
<1>6. Untouched(at[n], s, kind, id)
  BY <1>4, <1>5, Unnamed
<1>7. id \in DOMAIN s[kind] /\ at[n][kind][id] = s[kind][id]
  BY <1>2, <1>6 DEF Untouched
<1>8. Exists(s, <<kind, id>>)
  <2>1. PICK u, e : u = at[n] /\ e = u[kind][id] /\ e = s[kind][id]
    BY <1>7
  <2>2. CASE kind \in {"device", "link"}
    <3>1. e.state # "removed"
      BY <1>2, <2>1, <2>2 DEF Exists
    <3> QED
      BY <1>7, <2>1, <2>2, <3>1 DEF Exists, Known
  <2>3. CASE kind \notin {"device", "link"}
    BY <1>7, <2>3 DEF Exists, Known
  <2> QED
    BY <2>2, <2>3
<1> QED
  BY <1>3, <1>7, <1>8 DEF Live

\* A rollback that is carried out restores its snapshot.
LEMMA CarriedRestores ==
  ASSUME LifeInv, HistInv, Carried, plan.kind = "rollback", NEW kind \in EntityKinds
  PROVE  /\ \A i \in Live(plan.origin, kind) : Restored(Ahead.at, kind, i, plan.origin[kind][i])
         /\ Live(Ahead.at, kind) \ Live(plan.origin, kind)
              \subseteq Live(plan.request.state, kind) \ DOMAIN plan.origin[kind]
<1>1. PICK s, t, origin, g : /\ s = plan.request.state /\ t = plan.request.target.goal
                             /\ origin = plan.origin /\ g = Ahead.at
  OBVIOUS
<1>2. IsPlan(plan) /\ Planned
  BY CarriedDelivers
<1>3. PICK c, c0, at, ops, n : Delivers(c, c0, s, t, plan.undone, at, ops, n) /\ at[n] = g
  BY <1>1, CarriedDelivers
<1>4. IsGoal(t) /\ TargetValid(t) /\ ~InConflict(s, t)
  BY <1>1, <1>2, PlanAims
<1>5. IsSnapshot(origin) /\ plan.undone = {} /\ t = TargetFromState(origin)
  BY <1>1, <1>2 DEF IsPlan
<1>6. Outlived(origin, s)
  BY <1>1, <1>2 DEF HistInv
<1>7. Delivers(c, c0, s, t, {}, at, ops, n)
  BY <1>3, <1>5
<1>8. ASSUME NEW i \in Live(origin, kind) PROVE Restored(g, kind, i, origin[kind][i])
  BY <1>3, <1>4, <1>5, <1>6, <1>7, RestoredEntity
<1>9. ASSUME NEW i \in Live(g, kind) \ Live(origin, kind) PROVE i \in Live(s, kind) \ DOMAIN origin[kind]
  BY <1>3, <1>4, <1>5, <1>7, LeftBeside
<1> QED
  BY <1>1, <1>8, <1>9

\* In every behaviour: a rollback that is valid and is carried out restores every entity of the
\* snapshot the prior plan started from, and leaves nothing beside it but what was created since.
THEOREM RollbacksRestore == Spec => []RollbackRestores
<1>1. LifeInv /\ HistInv => RollbackRestores
  <2> SUFFICES ASSUME LifeInv, HistInv, Carried, plan.kind = "rollback", NEW kind \in EntityKinds
               PROVE  /\ \A i \in Live(plan.origin, kind) :
                           /\ i \in Live(Ahead.at, kind)
                           /\ Shown(kind, Ahead.at[kind][i]) = Shown(kind, plan.origin[kind][i])
                      /\ Live(Ahead.at, kind) \ Live(plan.origin, kind)
                           \subseteq Live(plan.request.state, kind) \ DOMAIN plan.origin[kind]
    BY DEF RollbackRestores, Carried
  <2> QED
    BY CarriedRestores, Zenon DEF Restored
<1> QED
  BY <1>1, HistReached, PTL

=============================================================================
