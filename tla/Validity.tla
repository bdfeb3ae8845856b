------------------------------ MODULE Validity ------------------------------
(***************************************************************************)
(* Whether a plan may still be used: evaluate_validity of                  *)
(* src/src/plan/invalidate.cpp.                                            *)
(*                                                                         *)
(* The inputs of a plan, and what is true now, are records                 *)
(* [state, stamp, target, evidence, rules, instant]. A stamp holds the     *)
(* topology generation, the authority's generation, the boot incarnation   *)
(* and the epoch; a target holds a goal (see Derivation), its revision and *)
(* the stamp it is based on; evidence holds the capabilities of devices,   *)
(* their version and the stamp they are based on; rules are the governing  *)
(* constraints, with the tolerances and the authority that issued them. A  *)
(* digest is the value it is computed from.                                *)
(***************************************************************************)
EXTENDS Derivation

\* The evaluation context that inputs give rise to.
ContextOf(q) == [q.rules EXCEPT !.instant = q.instant, !.baseline = q.state, !.evidence = q.evidence.caps]

-----------------------------------------------------------------------------
(* summarize: policies and configuration values are left out               *)

Summarised == {"device", "link", "route", "workload"}

\* The fingerprints of the entities: tombstones count like the others.
Fingerprints(s) == UNION {Refs(kind, DOMAIN s[kind]) : kind \in Summarised}

LinkCapacity(s) == MapThenSumSet(LAMBDA l : s.link[l].cap, DOMAIN s.link)

ActiveDemand(s) ==
  LET bound == UNION {{<<w, r>> : r \in DOMAIN s.workload[w].bind} : w \in DOMAIN s.workload}
  IN  MapThenSumSet(LAMBDA f : Demand(s, f), {f \in bound : s.workload[f[1]].bind[f[2]].active})

PermilleChange(previous, current) ==
  LET difference == IF previous > current THEN previous - current ELSE current - previous
  IN  IF previous = 0 THEN IF current = 0 THEN 0 ELSE 1000
      ELSE Min({(difference * 1000) \div previous, 1000000})

-----------------------------------------------------------------------------
(* The five ways to drift; b is what the plan is bound to, v what is true  *)

AuthorityDrift(b, v) ==
  \/ b.stamp.authority # v.stamp.authority
  \/ b.stamp.incarnation # v.stamp.incarnation
  \/ b.stamp.epoch # v.stamp.epoch
  \/ b.rules # v.rules

CapabilityDrift(b, v) ==
  \/ v.evidence.version > b.evidence.version /\ ~v.rules.tolerance.growth
  \/ v.evidence.version < b.evidence.version /\ ~v.rules.tolerance.shrink

TopologyDriftByTotals(b, v) ==
  \/ PermilleChange(LinkCapacity(b.state), LinkCapacity(v.state)) > v.rules.tolerance.capacity
  \/ PermilleChange(ActiveDemand(b.state), ActiveDemand(v.state)) > v.rules.tolerance.demand

\* Changed entities count only when no drift at all is tolerated.
TopologyDrift(b, v) ==
  LET tolerance == v.rules.tolerance
      before == Fingerprints(b.state) \ tolerance.exempt
      after == Fingerprints(v.state) \ tolerance.exempt
      changed == {e \in before \cap after : b.state[e[1]][e[2]] # v.state[e[1]][e[2]]}
      capacity == PermilleChange(LinkCapacity(b.state), LinkCapacity(v.state))
      demand == PermilleChange(ActiveDemand(b.state), ActiveDemand(v.state))
  IN  \/ Cardinality(after \ before) > tolerance.added
      \/ Cardinality(before \ after) > tolerance.removed
      \/ capacity > tolerance.capacity
      \/ demand > tolerance.demand
      \/ changed # {} /\ {tolerance.capacity, tolerance.added, tolerance.removed} = {0}

TargetDrift(b, v) == b.target # v.target

\* A step bound to maintenance windows needs one of them open, and no exclusion.
WindowDrift(steps, v) ==
  \E i \in DOMAIN steps :
    LET d == steps[i].op.id
        device == v.state.device[d]
    IN  /\ steps[i].windows # {}
        /\ \/ d \notin DOMAIN v.state.device
           \/ Within(device.excl, v.instant)
           \/ ~Within({w \in device.maint : w.id \in steps[i].windows}, v.instant)

\* evaluate_validity, for a plan bound to b with the given steps.
StillValid(b, steps, v) ==
  /\ ~AuthorityDrift(b, v)
  /\ ~CapabilityDrift(b, v)
  /\ ~TopologyDrift(b, v)
  /\ ~TargetDrift(b, v)
  /\ ~WindowDrift(steps, v)

=============================================================================
