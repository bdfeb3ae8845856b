----------------------------- MODULE MCPlanner -----------------------------
(* Planner over the small abstract fabric: every family of forbidden sets  *)
(* of three operations, crossed with dependency edges, identity orders,    *)
(* racing writers and budgets.                                             *)
EXTENDS Planner, SmallFabric

Middle == (SUBSET Ops) \ {{}, Ops}

\* Obligation 1 forbids any family of intermediate sets, obligation 2 a few.
Families ==
  {Forbidding(Forbidding(Plain, 1, f), 2, g) :
     f \in SUBSET Middle, g \in {{}, {{2, 3}}}}

\* Edges and identity orders of the derived operations.
Shapes(r) ==
  {[r EXCEPT !.edges = e, !.id = i, !.racing = w, !.windowed = {2}] :
     e \in {{}, {<<1, 2>>}, {<<1, 3>>, <<2, 3>>}},
     i \in {<<1, 2, 3>>, <<3, 1, 2>>},
     w \in {{}, {1, 2}}}

Ordinary == UNION {Shapes(r) : r \in Families}

\* Tight budgets, on the requests obligation 1 leaves free but for two sets.
Budgets ==
  {[Ample EXCEPT !.width = 1], [Ample EXCEPT !.width = 2],
   [Ample EXCEPT !.perms = 1, !.candidates = 1], [Ample EXCEPT !.perms = 3], [Ample EXCEPT !.perms = 9],
   [Ample EXCEPT !.visits = 2], [Ample EXCEPT !.visits = 12],
   [Ample EXCEPT !.attempts = 1], [Ample EXCEPT !.attempts = 5],
   [Ample EXCEPT !.candidates = 2, !.core = 1], [Ample EXCEPT !.steps = 2]}

Tight ==
  {[Forbidding(Plain, 1, f) EXCEPT !.limits = b, !.edges = e] :
     f \in {{}, {{1}}, {{2}, {3}}, {{1, 2}, {2, 3}, {1, 3}}},
     b \in Budgets, e \in {{}, {<<1, 2>>}}}

\* Requests that end before the scheduler, and preconditions that order steps.
Special ==
  {[Plain EXCEPT !.admit = a] : a \in {"input_invalid", "stale_input", "contradictory_constraints"}}
  \cup {[Plain EXCEPT !.derives = c, !.n = 0] :
          c \in {"unsatisfiable_target", "contradictory_constraints"}}
  \cup {[Plain EXCEPT !.capable = FALSE], [Plain EXCEPT !.n = 0],
        [Plain EXCEPT !.ordered = "impossible_transition"],
        [Plain EXCEPT !.needs[1] = {2}, !.needs[2] = {3}],
        [Plain EXCEPT !.needs[1] = {2}, !.edges = {<<1, 2>>}],
        [Plain EXCEPT !.racing = {1, 2}, !.forbids[1].last = {1}],
        \* Obligation 1 asks for a drain that no state allows.
        [Forbidding(Plain, 2, {{1}}) EXCEPT !.because[1] = 1, !.edges = {<<1, 2>>, <<1, 3>>}]}
  \cup {Forbidding(Plain, c, {d}) : c \in {1, 2}, d \in {{}, Ops}}
  \cup {Forbidding(Forbidding(Plain, 1, {{}}), 2, {{}, {1}})}

PlannerRequests == Ordinary \cup Tight \cup Special

=============================================================================
