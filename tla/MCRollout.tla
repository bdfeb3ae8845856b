----------------------------- MODULE MCRollout -----------------------------
(* The planner and the execution of what it publishes, over the requests of *)
(* MCPlanner and those below: at most two forbidden sets, racing writers    *)
(* and preconditions, in stages of two and three steps.                     *)
EXTENDS Rollout, MCPlanner

Forbidden == {f \in SUBSET Middle : Cardinality(f) <= 2}

RolloutRequests ==
  {[Forbidding(Plain, 1, f) EXCEPT !.edges = e, !.id = i, !.racing = w, !.limits.width = b] :
     f \in Forbidden, e \in {{}, {<<1, 3>>}}, i \in {<<1, 2, 3>>, <<3, 1, 2>>},
     w \in {{}, {1, 2}}, b \in {2, 3}}
  \cup {[Plain EXCEPT !.needs = n, !.id = i] :
          n \in {<<{2}, {}, {}>>, <<{3}, {}, {2}>>}, i \in {<<1, 2, 3>>, <<3, 1, 2>>}}

AllRequests == PlannerRequests \cup RolloutRequests

\* The weak fairness of the planning thread (Planner!Spec), written out: ENABLED
\* <<PlannerStep>>_vars is phase # "done" (a state that refutes it would be a deadlock),
\* and TLC takes long to find that out by itself. Of the executor nothing is assumed.
FairRollout ==
  /\ RolloutSpec
  /\ []<>(phase = "done") \/ []<><<PlannerStep>>_vars

=============================================================================
