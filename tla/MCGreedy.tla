------------------------------ MODULE MCGreedy ------------------------------
(* Planner over the small abstract fabric with four operations, for the     *)
(* question whether a refused request could have been ordered.              *)
EXTENDS Planner, SmallFabric

\* Four operations: every choice the four strategies make first is a dead end
\* for some of these, and the orders that start with 2 or 3 are not.
GreedyRequests ==
  {Forbidding(Forbidding(Plain, 1, f), 2, g) :
     f \in SUBSET {{1, 2}, {1, 3}, {1, 4}}, g \in SUBSET {{2, 4}, {3, 4}}}

=============================================================================
