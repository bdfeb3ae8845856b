------------------------------ MODULE MCFabric ------------------------------
(***************************************************************************)
(* Small fabrics and catalogues for FabricWalk: maintenance of devices     *)
(* with windows and exclusions, rerouting of workloads over links that     *)
(* come and go, and policies and configuration beside both.                *)
(***************************************************************************)
EXTENDS FabricWalk, TLC

Nothing == [i \in {} |-> i]
Window(begin, end) == [begin |-> begin, end |-> end]

Dev(domain, excl, maint) ==
  [domain |-> domain, state |-> "present", cap |-> 9, res |-> 0, caps |-> {}, budget |-> 1,
   excl |-> excl, maint |-> maint]
Lnk(a, b, transit) == [a |-> a, b |-> b, cap |-> 9, res |-> 1, transit |-> transit, state |-> "present"]
Rte(source, sink, path) ==
  [source |-> source, sink |-> sink, path |-> path, policy |-> 0, state |-> "active"]
Bound(routes) == [r \in routes |-> [active |-> TRUE, demand |-> 2]]
Req(domains, paths, guarantee) ==
  [connect |-> TRUE, domains |-> domains, paths |-> paths, guarantee |-> guarantee, forbidden |-> {}]
Snapshot(device, link, route, workload, policy, config) ==
  [device |-> device, link |-> link, route |-> route, workload |-> workload, policy |-> policy,
   config |-> config]

Rules(enforced) ==
  [instant |-> 5, enforced |-> enforced, headroom |-> 100, changes |-> 1, domains |-> 1,
   contracts |-> {}, evidence |-> Nothing, baseline |-> Nothing]

-----------------------------------------------------------------------------
\* Device 1 may be maintained now, device 2 not yet, device 3 is in an exclusion.
MaintStart ==
  Snapshot(<<Dev(1, {}, {Window(0, 9)}), Dev(1, {}, {}), Dev(2, {Window(3, 8)}, {Window(0, 9)})>>,
           <<Lnk(1, 2, {}), Lnk(2, 3, {})>>,
           <<Rte(1, 2, <<1>>), Rte(2, 3, <<2>>)>>,
           <<[bind |-> Bound({1, 2}), req |-> Req(0, 0, 0)]>>,
           Nothing, Nothing)

MaintCatalogue == <<
  Bare("drain_resource", 1), Bare("enter_maintenance", 1), Bare("exit_maintenance", 1),
  Carrying("device_set_state", 1, [state |-> "draining"]), Bare("device_remove", 1),
  Bare("drain_resource", 2), Bare("enter_maintenance", 2),
  Carrying("device_set_windows", 2, Dev(1, {}, {Window(0, 9)})),
  Carrying("device_set_windows", 2, Dev(1, {Window(5, 6)}, {Window(0, 9)})),
  Carrying("device_set_capacity", 2, [Dev(1, {}, {}) EXCEPT !.cap = 5]),
  Bare("drain_resource", 3), Carrying("link_set_capacity", 2, [Lnk(2, 3, {}) EXCEPT !.cap = 5]),
  Carrying("link_add", 3, Lnk(1, 3, {})), Bare("link_remove", 1), Bare("link_remove", 2),
  Carrying("link_set_capacity", 1, [Lnk(1, 2, {}) EXCEPT !.cap = 5]),
  Carrying("route_set_state", 2, [state |-> "inactive"]), Bare("route_remove", 2),
  Carrying("workload_set_bindings", 1, [bind |-> Bound({1})]),
  Carrying("config_set", <<3, 1>>, [value |-> 1]), Carrying("config_set", <<2, 1>>, [value |-> 1]),
  Carrying("device_add", 4, Dev(2, {}, {}))>>

\* Routes from 1 to 2 in domain 1 and from 3 over 5 to 4 in domain 2. Link 4 runs
\* through domain 2, two routes use the same links; link 6 and route 5 do not exist yet.
PathStart ==
  Snapshot(<<Dev(1, {}, {}), Dev(1, {}, {}), Dev(2, {}, {}), Dev(2, {}, {}), Dev(3, {}, {})>>,
           <<Lnk(1, 2, {}), Lnk(3, 5, {}), Lnk(5, 4, {}), Lnk(1, 2, {2}), Lnk(3, 4, {})>>,
           <<Rte(1, 2, <<1>>), Rte(3, 4, <<2, 3>>), Rte(1, 2, <<4>>), Rte(3, 4, <<2, 3>>)>>,
           <<[bind |-> Bound({1, 2, 3, 4}), req |-> Req(1, 2, 0)]>>,
           Nothing, Nothing)

PathCatalogue == <<
  Bare("link_remove", 1), Carrying("link_add", 6, Lnk(1, 2, {3})), Bare("link_remove", 5),
  Carrying("route_set_path", 1, Rte(1, 2, <<6>>)), Carrying("route_set_path", 2, Rte(3, 4, <<5>>)),
  Carrying("route_set_state", 3, [state |-> "inactive"]),
  Carrying("route_set_state", 3, [state |-> "active"]),
  Carrying("route_set_state", 4, [state |-> "inactive"]), Bare("route_remove", 4),
  Carrying("workload_set_bindings", 1, [bind |-> Bound({1, 2, 3})]),
  Carrying("workload_set_bindings", 1, [bind |-> Bound({1, 2, 3, 4})]),
  Carrying("workload_set_requirements", 1, [bind |-> NoBindings, req |-> Req(0, 3, 0)]),
  Carrying("route_add", 5, Rte(1, 2, <<6>>)),
  Carrying("workload_add", 2, [bind |-> Bound({1}), req |-> Req(0, 1, 0)]),
  Bare("workload_remove", 2)>>

\* Policies and configuration values on two devices and a link.
PolicyStart ==
  Snapshot(<<Dev(1, {}, {}), Dev(2, {}, {})>>, <<Lnk(1, 2, {})>>, <<Rte(1, 2, <<1>>)>>,
           <<[bind |-> Bound({1}), req |-> Req(0, 0, 0)]>>,
           <<[target |-> <<"device", 1>>, value |-> 1, enforced |-> TRUE]>>,
           (<<1, 1>> :> [value |-> 1, revision |-> 0]))

PolicyCatalogue == <<
  Carrying("policy_bind", 1, [target |-> <<"link", 1>>, value |-> 2, enforced |-> TRUE]),
  Carrying("policy_bind", 2, [target |-> <<"device", 2>>, value |-> 1, enforced |-> FALSE]),
  Bare("policy_unbind", 1), Bare("policy_unbind", 2),
  Carrying("config_set", <<1, 1>>, [value |-> 1]), Carrying("config_set", <<1, 1>>, [value |-> 2]),
  Bare("config_clear", <<1, 1>>), Carrying("config_set", <<2, 1>>, [value |-> 1]),
  Bare("config_clear", <<2, 1>>), Bare("link_remove", 1), Bare("device_remove", 2),
  Bare("drain_resource", 2), Carrying("device_set_state", 2, [state |-> "draining"]),
  Carrying("policy_bind", 3, [target |-> <<"route", 1>>, value |-> 1, enforced |-> TRUE]),
  Bare("workload_remove", 1), Bare("route_remove", 1)>>

\* Two workloads share a link; the second one is about to be bound to it.
ShareStart ==
  Snapshot(<<Dev(1, {}, {}), Dev(2, {}, {})>>, <<Lnk(1, 2, {})>>, <<Rte(1, 2, <<1>>)>>,
           <<[bind |-> Bound({1}), req |-> Req(0, 0, 5)], [bind |-> NoBindings, req |-> Req(0, 0, 0)]>>,
           Nothing, Nothing)

ShareCatalogue == <<Carrying("workload_set_bindings", 2, [bind |-> Bound({1})])>>

-----------------------------------------------------------------------------
Catalogue == MaintCatalogue \o PathCatalogue \o PolicyCatalogue \o ShareCatalogue

\* Any total order of the digests will do: the place in the catalogue.
MCDigestLess(o, p) ==
  LET Place(q) == CHOOSE i \in DOMAIN Catalogue : Catalogue[i] = q
  IN  Place(o) < Place(p)

Ordered == {"maintenance_exclusion", "maintenance_window", "drain_before_maintenance"}
World(enforced, catalogue, start) ==
  [context |-> Rules(enforced), catalogue |-> {catalogue[i] : i \in DOMAIN catalogue}, start |-> start]

MCWorlds == {World(Ordered, MaintCatalogue, MaintStart),
             World({"maintenance_exclusion"}, MaintCatalogue, MaintStart),
             World({}, PathCatalogue, PathStart),
             World({}, PolicyCatalogue, PolicyStart)}

ShareWorlds == {World({}, ShareCatalogue, ShareStart)}

PathWorlds == {World({}, PathCatalogue, PathStart)}

=============================================================================
