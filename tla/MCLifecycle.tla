---------------------------- MODULE MCLifecycle ----------------------------
(***************************************************************************)
(* Small plans for Lifecycle: one that changes values of what is there,    *)
(* without any tolerance for drift, one that takes a device into           *)
(* maintenance and adds a link, with tolerances, one that removes and adds *)
(* entities, and one whose evidence comes to say something else.           *)
(***************************************************************************)
EXTENDS Lifecycle, TLC

Nothing == [i \in {} |-> i]
AllCaps == {RequiredCapability([kind |-> kind]) :
              kind \in DeviceOps \cup LinkOps \cup RouteOps \cup WorkloadOps \cup PolicyOps \cup ConfigOps}
Window(id, begin, end) == [id |-> id, begin |-> begin, end |-> end]

Dev(domain, state, excl, maint) ==
  [domain |-> domain, state |-> state, cap |-> 9, res |-> 0, caps |-> AllCaps, budget |-> 1,
   excl |-> excl, maint |-> maint]
Lnk(cap) == [a |-> 1, b |-> 2, cap |-> cap, res |-> 0, transit |-> {}, state |-> "present"]
Rte(links) == [source |-> 1, sink |-> 2, path |-> links, policy |-> 0, state |-> "active"]
Load(routes, demand) ==
  [bind |-> [r \in routes |-> [active |-> TRUE, demand |-> demand]],
   req |-> [connect |-> TRUE, domains |-> 0, paths |-> 0, guarantee |-> 0, forbidden |-> {}]]
Policy(value) == [target |-> <<"device", 1>>, value |-> value, enforced |-> TRUE]
Value(value) == [value |-> value, revision |-> 0]

Snapshot(device, link, route, workload, policy, config) ==
  [device |-> device, link |-> link, route |-> route, workload |-> workload, policy |-> policy,
   config |-> config]
None == Snapshot(Nothing, Nothing, Nothing, Nothing, Nothing, Nothing)
NoRemoval == [kind \in EntityKinds |-> {}]

Tolerant == [added |-> 1, removed |-> 0, capacity |-> 500, demand |-> 0,
             growth |-> TRUE, shrink |-> FALSE, exempt |-> {}]
Rules(enforced, tolerance) ==
  [instant |-> 0, enforced |-> enforced, headroom |-> 100, changes |-> 1, domains |-> 1,
   contracts |-> {}, evidence |-> Nothing, baseline |-> Nothing, authority |-> 1,
   tolerance |-> tolerance]

Start == [topology |-> 1, authority |-> 1, incarnation |-> 1, epoch |-> 1]
Inputs(state, goal, rules, caps) ==
  [state |-> state, stamp |-> Start, rules |-> rules, instant |-> 5,
   target |-> [goal |-> goal, revision |-> 1, based |-> Start],
   evidence |-> [caps |-> caps, version |-> 1, based |-> Start]]

-----------------------------------------------------------------------------
\* Values: a link's capacity, a policy and a configuration value are changed.
ValueStart ==
  Snapshot(<<Dev(1, "present", {}, {}), Dev(2, "present", {}, {})>>, <<Lnk(9)>>, <<Rte(<<1>>)>>,
           <<Load({1}, 2)>>, <<Policy(1)>>, (<<1, 1>> :> Value(1)))
ValueGoal(policy) ==
  [ensure |-> [None EXCEPT !.link = <<Lnk(5)>>, !.policy = <<Policy(policy)>>,
                           !.config = (<<1, 1>> :> Value(2))],
   remove |-> NoRemoval]
ValueRules == Rules({"connectivity", "capacity_headroom", "maintenance_exclusion", "generation_binding"},
                    Strictest)
ValueChanges ==
  <<Carrying("link_set_capacity", 1, Lnk(7)),
    Carrying("workload_set_bindings", 1, Load({}, 1)), Bare("workload_remove", 1),
    Carrying("device_set_windows", 1, Dev(1, "present", {Window(1, 4, 6)}, {})),
    Bare("policy_unbind", 1), Carrying("config_set", <<1, 1>>, Value(3))>>

Bounds(generations, attempts, changes) ==
  [generations |-> generations, attempts |-> attempts, drifts |-> changes]

ValueWorld(goal, bounds) ==
  [now |-> Inputs(ValueStart, goal, ValueRules, Nothing), goals |-> {ValueGoal(3)}, evidence |-> {Nothing},
   changes |-> {ValueChanges[i] : i \in DOMAIN ValueChanges},
   rules |-> {[ValueRules EXCEPT !.headroom = 200]}, compensate |-> {TRUE}, persistent |-> FALSE,
   bounds |-> bounds]

\* The same without the link, which is nothing that the summary of a snapshot holds;
\* without the configuration value; and with the policy alone.
QuietGoal == [ValueGoal(2) EXCEPT !.ensure.link = Nothing]
LinkGoal == [ValueGoal(2) EXCEPT !.ensure.config = Nothing]
PolicyGoal == [QuietGoal EXCEPT !.ensure.config = Nothing]

\* Maintenance of device 2 in one of its windows, and a new link.
CareStart ==
  Snapshot(<<Dev(1, "present", {}, {}),
             Dev(2, "present", {}, {Window(1, 4, 6), Window(2, 5, 9)})>>,
           <<Lnk(9)>>, <<Rte(<<1>>)>>, Nothing, Nothing, Nothing)
CareGoal ==
  [ensure |-> [None EXCEPT !.device = (2 :> [CareStart.device[2] EXCEPT !.state = "in_maintenance"]),
                           !.link = (2 :> Lnk(4))],
   remove |-> NoRemoval]
CareChanges ==
  <<Carrying("link_set_capacity", 1, Lnk(7)), Carrying("link_add", 3, Lnk(1)),
    Carrying("device_set_windows", 2, Dev(2, "present", {}, {Window(2, 5, 9)})),
    Carrying("config_set", <<1, 1>>, Value(3))>>
CareRules(tolerance) ==
  Rules({"maintenance_window", "maintenance_exclusion", "drain_before_maintenance",
         "change_serialization", "capacity_headroom"}, tolerance)
CareWorld(tolerance, attempts, changes) ==
  [now |-> Inputs(CareStart, CareGoal, CareRules(tolerance), Nothing), goals |-> {}, evidence |-> {Nothing},
   changes |-> {CareChanges[i] : i \in DOMAIN CareChanges}, rules |-> {}, compensate |-> {TRUE, FALSE},
   persistent |-> FALSE, bounds |-> Bounds(2, attempts, changes)]

\* Workload 1 and a configuration value go, workload 2 comes.
SwapStart ==
  Snapshot(<<Dev(1, "present", {}, {}), Dev(2, "present", {}, {})>>, <<Lnk(9)>>,
           <<Rte(<<1>>), Rte(<<1>>)>>, <<Load({1}, 2)>>, Nothing, (<<1, 1>> :> Value(1)))
SwapGoal ==
  [ensure |-> [None EXCEPT !.workload = (2 :> Load({2}, 3))],
   remove |-> [NoRemoval EXCEPT !.workload = {1}, !.config = {<<1, 1>>}]]
SwapChanges ==
  <<Carrying("workload_set_bindings", 1, Load({1}, 1)), Bare("link_remove", 1),
    Carrying("policy_bind", 1, [Policy(1) EXCEPT !.target = <<"workload", 1>>])>>
SwapRules == Rules({"connectivity", "capacity_headroom"}, Strictest)
SwapWorld == [now |-> Inputs(SwapStart, SwapGoal, SwapRules, Nothing), goals |-> {}, evidence |-> {},
              changes |-> {SwapChanges[i] : i \in DOMAIN SwapChanges}, rules |-> {},
              compensate |-> {TRUE}, persistent |-> FALSE, bounds |-> Bounds(2, 1, 1)]

\* A new device in the middle of its window, which a compensation may have to take back.
NewGoal ==
  [ensure |-> [None EXCEPT !.device = (1 :> [CareStart.device[1] EXCEPT !.cap = 8, !.res = 1])
                                      @@ (3 :> Dev(1, "draining", {}, {Window(2, 5, 9)}))],
   remove |-> NoRemoval]
NewWorld == [now |-> Inputs(CareStart, NewGoal, Rules({"maintenance_window"}, Strictest), Nothing),
             goals |-> {}, evidence |-> {}, changes |-> {}, rules |-> {}, compensate |-> {TRUE}, persistent |-> FALSE,
             bounds |-> Bounds(2, 1, 0)]

\* A workload gives up one of its routes, which goes, and asks for more on the other.
RebindGoal ==
  [ensure |-> [None EXCEPT !.workload = <<Load({1}, 3)>>], remove |-> [NoRemoval EXCEPT !.route = {2}]]
RebindWorld ==
  [now |-> Inputs([SwapStart EXCEPT !.workload = <<Load({1, 2}, 2)>>], RebindGoal, SwapRules, Nothing),
   goals |-> {}, evidence |-> {}, changes |-> {}, rules |-> {}, compensate |-> {TRUE}, persistent |-> FALSE,
   bounds |-> Bounds(2, 1, 0)]
RebindWorlds == {RebindWorld}

\* The values again, with a device that may be observed to have lost its evidence, or all it
\* was capable of. What is needed for a change of device 2 is not asked for.
Evidenced == <<AllCaps, AllCaps>>
EvidenceRules == Rules({"capability_evidence", "connectivity"}, Strictest)
EvidenceWorld ==
  [now |-> Inputs(ValueStart, LinkGoal, EvidenceRules, Evidenced), goals |-> {},
   evidence |-> {Evidenced, <<AllCaps>>, <<AllCaps, {}>>}, changes |-> {Carrying("config_set", <<1, 1>>, Value(3))},
   rules |-> {}, compensate |-> {TRUE}, persistent |-> FALSE, bounds |-> Bounds(2, 1, 1)]
EvidenceWorlds == {EvidenceWorld}

\* Several steps of one attempt may have to be compensated.
Persistent(w) == [w EXCEPT !.persistent = TRUE, !.bounds.drifts = 0]

MCWorlds ==
  {ValueWorld(QuietGoal, Bounds(2, 1, 1)), ValueWorld(LinkGoal, Bounds(2, 1, 1)),
   ValueWorld(PolicyGoal, Bounds(2, 2, 0)), ValueWorld(QuietGoal, Bounds(3, 1, 0)),
   CareWorld(Tolerant, 1, 1), CareWorld(Strictest, 1, 1), CareWorld(Tolerant, 2, 0), SwapWorld, NewWorld,
   RebindWorld, EvidenceWorld,
   Persistent(ValueWorld(LinkGoal, Bounds(2, 1, 0))), Persistent(CareWorld(Tolerant, 1, 0)),
   Persistent(SwapWorld)}

Asked(o) == MapThenSumSet(LAMBDA r : o.new.bind[r].demand, DOMAIN o.new.bind)

\* Any total order of the digests will do; two operations of one kind in one place
\* are the inverses of the steps that drain a device and enter maintenance, and the bindings
\* of a workload when a route of it goes.
MCDigestLess(o, p) ==
  \/ Rank(o.kind) < Rank(p.kind)
  \/ o.kind = p.kind /\ o.kind = "device_set_state" /\ o.new.state = "draining" /\ p.new.state = "present"
  \/ o.kind = p.kind /\ o.kind = "workload_set_bindings" /\ Asked(o) > Asked(p)

=============================================================================
