------------------------------- MODULE Safety -------------------------------
(***************************************************************************)
(* The declared obligations on a snapshot: check_invariants of             *)
(* src/src/safety/checker.cpp, one operator per obligation. The context c  *)
(* names the enforced constraint kinds and carries their parameters:       *)
(* headroom in permille, the devices (changes) and domains (domains) that  *)
(* may be out of service at once, the contracts, the devices with          *)
(* capability evidence, and the baseline snapshot of the plan.             *)
(***************************************************************************)
EXTENDS Fabric, FiniteSetsExt

CONSTANTS
  DiversityBudget,  \* calls the disjoint-path search may make (200000 in the code)
  DiversityPaths    \* eligible paths it looks at (24 in the code)

ASSUME DiversityAssumption == DiversityBudget \in Nat /\ DiversityPaths \in Nat

InService(s, d) == d \in DOMAIN s.device /\ s.device[d].state = "present"

\* Active, connected, on links in service and between endpoints in service;
\* the state of a device in the middle of the path is not looked at.
CarriesTraffic(s, r) ==
  /\ r.state = "active"
  /\ RouteWalkable(s, r)
  /\ \A l \in PathLinks(r.path) : s.link[l].state = "present"
  /\ InService(s, r.source) /\ InService(s, r.sink)

\* The routes that serve workload w: bound, active, in service and permitted.
Eligible(s, w) ==
  {r \in DOMAIN s.workload[w].bind :
     /\ s.workload[w].bind[r].active
     /\ r \in DOMAIN s.route
     /\ CarriesTraffic(s, s.route[r])
     /\ RouteDomains(s, s.route[r]) \cap s.workload[w].req.forbidden = {}}

\* What a set of workloads sends: <<workload, route>>.
Flows(s, ws) == UNION {{<<w, r>> : r \in Eligible(s, w)} : w \in ws \cap DOMAIN s.workload}
Demand(s, f) == s.workload[f[1]].bind[f[2]].demand

-----------------------------------------------------------------------------
(* Connectivity, redundancy, diversity                                     *)

DisconnectedWorkloads(s) ==
  {w \in DOMAIN s.workload : s.workload[w].req.connect /\ Eligible(s, w) = {}}

\* domain_redundancy: the flows left after losing any one domain they touch.
Redundancy(s, flows) ==
  LET Through(f) == RouteDomains(s, s.route[f[2]])
      Surviving(d) == Cardinality({f \in flows : d \notin Through(f)})
      domains == UNION {Through(f) : f \in flows}
  IN  IF domains = {} THEN Cardinality(flows) ELSE Min({Surviving(d) : d \in domains})

UnderRedundant(s) ==
  {w \in DOMAIN s.workload : Redundancy(s, Flows(s, {w})) < s.workload[w].req.domains}

\* The rest of the paths cannot beat the best choice found.
HopelessEarly(taken, left, best) == taken + left <= best + 1
Hopeless(taken, left, best) == taken + left <= best

\* The calls of explore_disjoint: at which path, what has been taken and uses which
\* links, and what the search has found and may still spend.
Calls(paths) ==
  [at : 1 .. Len(paths) + 1, taken : Nat, used : SUBSET UNION {PathLinks(paths[j]) : j \in 1 .. Len(paths)},
   acc : [best : Nat, budget : Nat, exhausted : BOOLEAN]]

\* explore_disjoint: take or leave the path, with pruning and a budget of calls.
Explored(paths, required) ==
  LET Total == Len(paths)
      explore[p \in Calls(paths)] ==
        LET paid == [p.acc EXCEPT !.budget = @ - 1]
            links == PathLinks(paths[p.at])
            Deeper(taken, used, acc) ==
              explore[[at |-> p.at + 1, taken |-> taken, used |-> used, acc |-> acc]]
            took == IF links \cap p.used = {} THEN Deeper(p.taken + 1, p.used \cup links, paid) ELSE paid
        IN  CASE p.acc.exhausted -> p.acc
              [] ~p.acc.exhausted /\ p.acc.budget = 0 -> [p.acc EXCEPT !.exhausted = TRUE]
              [] OTHER ->
                 IF paid.best >= required THEN paid
                 ELSE IF p.at > Total THEN [paid EXCEPT !.best = Max({@, p.taken})]
                 ELSE IF Hopeless(p.taken, Total - p.at + 1, paid.best) THEN paid
                 ELSE Deeper(p.taken, p.used, took)
  IN  explore[[at |-> 1, taken |-> 0, used |-> {},
               acc |-> [best |-> 0, budget |-> DiversityBudget, exhausted |-> FALSE]]]

\* The paths in the order of their bindings, which is that of the route identities.
InOrder(S) == [i \in 1 .. Cardinality(S) |-> CHOOSE x \in S : Cardinality({y \in S : y < x}) = i - 1]

MaximumDisjoint(s, w, required) ==
  LET order == InOrder(Eligible(s, w))
      considered == Min({Len(order), DiversityPaths})
  IN  Explored([i \in 1 .. considered |-> s.route[order[i]].path], required)

UnderDiverse(s) ==
  {w \in DOMAIN s.workload :
     LET required == s.workload[w].req.paths
         found == MaximumDisjoint(s, w, required)
     IN  required > 0 /\ (found.exhausted \/ found.best < required)}

-----------------------------------------------------------------------------
(* Load, headroom, guarantees                                              *)

Usable(cap, res) == IF cap > res THEN cap - res ELSE 0

LinkLoad(s, l, flows) ==
  MapThenSumSet(LAMBDA f : LET path == s.route[f[2]].path
                           IN  Demand(s, f) * Cardinality({i \in DOMAIN path : path[i] = l}), flows)

DeviceLoad(s, d, flows) ==
  MapThenSumSet(LAMBDA f : Demand(s, f) * Cardinality({e \in {"source", "sink"} : s.route[f[2]][e] = d}),
                flows)

\* What is left on route r once the flows are carried.
Spare(s, r, flows) ==
  LET Left(e, load) == Usable(Usable(e.cap, e.res), load)
  IN  Min({Left(s.link[l], LinkLoad(s, l, flows)) : l \in PathLinks(s.route[r].path)}
          \cup {Left(s.device[d], DeviceLoad(s, d, flows)) : d \in {s.route[r].source, s.route[r].sink}})

\* The workloads are walked in the order of their identities: a guarantee is
\* checked against the load of the workloads up to its own only.
GuaranteeShortfalls(s) ==
  {w \in DOMAIN s.workload :
     LET upto == Flows(s, {v \in DOMAIN s.workload : v <= w})
     IN  /\ s.workload[w].req.guarantee > 0
         /\ \E r \in Eligible(s, w) : Spare(s, r, upto) < s.workload[w].req.guarantee}

WithinHeadroom(c, e, load) == load <= (Usable(e.cap, e.res) * (1000 - c.headroom)) \div 1000

OverCommitted(c, s) ==
  LET flows == Flows(s, DOMAIN s.workload)
  IN  {<<"link", l>> : l \in {x \in DOMAIN s.link : /\ s.link[x].state # "removed"
                                                    /\ ~WithinHeadroom(c, s.link[x], LinkLoad(s, x, flows))}}
      \cup {<<"device", d>> : d \in {x \in DOMAIN s.device :
                                       /\ s.device[x].state # "removed"
                                       /\ ~WithinHeadroom(c, s.device[x], DeviceLoad(s, x, flows))}}

-----------------------------------------------------------------------------
(* Windows, serialization, contracts, evidence                             *)

ChangedInExclusion(c, s) ==
  {d \in DOMAIN s.device : s.device[d].state \in Drained /\ ~ChangePermitted(c, s.device[d])}

MaintainedOutsideWindow(c, s) ==
  {d \in DOMAIN s.device : s.device[d].state = "in_maintenance" /\ ~MaintenancePermitted(c, s.device[d])}

\* devices_out_of_service: tombstones count as well.
OutOfService(s, domain) ==
  {d \in DOMAIN s.device : s.device[d].domain = domain /\ s.device[d].state # "present"}

DomainsOf(s) == {s.device[d].domain : d \in DOMAIN s.device}
DomainsInChange(s) == {x \in DomainsOf(s) : OutOfService(s, x) # {}}

OverSerialized(c, s) ==
  {x \in DomainsInChange(s) :
     LET out == OutOfService(s, x)
     IN  Cardinality(out) > Min({c.changes} \cup {s.device[d].budget : d \in out})}

ContractBroken(s, k) ==
  LET flows == Flows(s, k.workloads)
      touched == UNION {RouteDomains(s, s.route[f[2]]) : f \in flows}
      inChange == {x \in touched : OutOfService(s, x) # {}}
  IN  \/ ~(k.workloads \subseteq DOMAIN s.workload)
      \/ MapThenSumSet(LAMBDA f : Demand(s, f), flows) < k.units
      \/ Redundancy(s, flows) < k.domains
      \/ k.maintained > 0 /\ Cardinality(inChange) > k.maintained
      \/ k.exclusive /\ \E x \in inChange : Cardinality(OutOfService(s, x)) > 1

\* Devices the plan itself creates need no evidence.
Unevidenced(c, s) ==
  {d \in DOMAIN s.device \cap DOMAIN c.baseline.device : s.device[d].state # "removed" /\ d \notin DOMAIN c.evidence}

\* check_invariants: the declared obligations the snapshot breaks.
Violations(c, s) ==
  {kind \in c.enforced :
     CASE kind = "connectivity"              -> DisconnectedWorkloads(s) # {}
       [] kind = "failure_domain_redundancy" -> UnderRedundant(s) # {}
       [] kind = "path_diversity"            -> UnderDiverse(s) # {}
       [] kind = "capacity_headroom"         -> OverCommitted(c, s) # {}
       [] kind = "maintenance_exclusion"     -> ChangedInExclusion(c, s) # {}
       [] kind = "maintenance_window"        -> MaintainedOutsideWindow(c, s) # {}
       [] kind = "change_serialization"      -> \/ OverSerialized(c, s) # {}
                                                \/ Cardinality(DomainsInChange(s)) > c.domains
       [] kind = "workload_contract"         -> \/ GuaranteeShortfalls(s) # {}
                                                \/ \E k \in c.contracts : ContractBroken(s, k)
       [] kind = "capability_evidence"       -> Unevidenced(c, s) # {}
       [] OTHER                              -> FALSE}

StateIsSafe(c, s) == Violations(c, s) = {}

=============================================================================
