---------------------------- MODULE OrderSearch ----------------------------
(***************************************************************************)
(* The scheduling search of the planner: the loop that turns the derived   *)
(* operations of a request into one linear order, every prefix of which is *)
(* supposed to be safe (search_order of src/src/plan/generate.cpp).        *)
(*                                                                         *)
(* The operations of a request are numbered 1..n in their canonical order; *)
(* the fabric they act on is a parameter: Pre, Post, CanApply, Apply and   *)
(* Holds stand for derive_preconditions + evaluate_condition,              *)
(* derive_postconditions, the success and the result of apply_operation,   *)
(* and one declared obligation of check_invariants.                        *)
(***************************************************************************)
EXTENDS Integers, FiniteSets, SequencesExt

CONSTANTS
  Requests,           \* the planning requests the caller may submit
  States,             \* fabric states
  Pre(_, _, _, _),    \* Pre(r, basis, s, o): o's preconditions, derived at basis, hold in s
  Post(_, _, _),      \* Post(r, s, o): o's postconditions hold in s; they look at no basis
  CanApply(_, _, _),  \* CanApply(r, s, o): apply_operation accepts o in s
  Apply(_, _, _),     \* Apply(r, s, o): the state apply_operation returns
  Holds(_, _, _)      \* Holds(r, c, s): declared obligation c is satisfied in s

\* The same request with some of its obligations not enforced.
Relaxations(r) == {[r EXCEPT !.enforced = e] : e \in SUBSET r.enforced}

ASSUME ApplyAssumption ==
  \A r \in Requests : \A q \in Relaxations(r), s \in States, o \in 1 .. r.n :
    Apply(q, s, o) \in States

\* A request is a record; what the search and its budgets look at has its type.
ASSUME RequestAssumption ==
  \A r \in Requests :
    /\ {"n", "state", "enforced", "edges", "windowed", "risk", "id", "limits"} \subseteq DOMAIN r
    /\ r \in Relaxations(r)
    /\ r.n \in Nat
    /\ r.state \in States
    /\ r.edges \subseteq (1 .. r.n) \X (1 .. r.n)
    /\ r.enforced \subseteq Nat /\ IsFiniteSet(r.enforced)
    /\ \A o \in 1 .. r.n : r.risk[o] \in Int /\ r.id[o] \in Int
    /\ \A budget \in {"candidates", "core", "perms", "visits", "width"} : r.limits[budget] \in Nat

VARIABLES
  req,       \* the request the current attempt plans for
  strategy,  \* the candidate strategy in use
  stop,      \* the caller's stop token
  diag,      \* PlanDiagnostics: budgets shared by everything one call does
  search     \* SearchContext and the stack local to search_order

searchVars == <<req, strategy, stop, diag, search>>

\* The derived operations. A drain that only drain_before_maintenance asks for
\* (r.because[o] names the obligation, 0 is none) goes when that is not enforced.
Nodes(r) == {o \in 1 .. r.n : r.because[o] \in r.enforced \cup {0}}
Edges(r) == {e \in r.edges : e[1] \in Nodes(r) /\ e[2] \in Nodes(r)}

\* A state is safe when every enforced obligation holds in it.
\* The evidence generations check_invariants compares as well are settled at admission.
Safe(r, s) == \A c \in r.enforced : Holds(r, c, s)

Predecessors(r, o) == {p \in Nodes(r) : <<p, o>> \in Edges(r)}
Successors(r, o) == {p \in Nodes(r) : <<o, p>> \in Edges(r)}

-----------------------------------------------------------------------------
(* Candidate strategies: each is a total order on the operations.          *)

Strategies == <<"safety_first", "unlock_first", "maintenance_first",
                "reverse_canonical">>

SortKey(r, how, o) ==
  LET window == IF o \in r.windowed THEN 1 ELSE 0
      unlocks == Cardinality(Successors(r, o))
  IN  CASE how = "safety_first"      -> <<window, r.risk[o], o>>
        [] how = "unlock_first"      -> <<-unlocks, r.risk[o], o>>
        [] how = "maintenance_first" -> <<-window, -r.risk[o], o>>
        [] how = "reverse_canonical" -> <<0, 0, -o>>

\* Lexicographic order on tuples of integers of one length.
LexLess(u, v) ==
  \E i \in DOMAIN u : /\ u[i] < v[i]
                      /\ \A j \in 1 .. i - 1 : u[j] = v[j]

ReadyCandidates(r, applied) ==
  {o \in Nodes(r) \ applied : Predecessors(r, o) \subseteq applied}

\* The elements of S from the first to the last: the i-th has i - 1 before it.
Ascending(S, before) ==
  [i \in 1 .. Cardinality(S) |->
     CHOOSE x \in S : Cardinality({y \in S : <<y, x>> \in before}) = i - 1]

SortReady(r, how, ready) ==
  Ascending(ready, {e \in ready \X ready :
                      LexLess(SortKey(r, how, e[1]), SortKey(r, how, e[2]))})

\* The symmetry test: no dependency edge joins the two operations directly.
Independent(r, a, b) == <<a, b>> \notin r.edges /\ <<b, a>> \notin r.edges

-----------------------------------------------------------------------------
(* The search                                                              *)

\* A frame of the explicit stack; chosen = 0 while nothing is committed.
NewFrame(r, how, applied, state) ==
  [ready |-> SortReady(r, how, ReadyCandidates(r, applied)),
   skipped |-> {}, next |-> 1, chosen |-> 0, entry |-> state]

StartSearch(r, how) ==
  [stack |-> <<NewFrame(r, how, {}, r.state)>>,
   applied |-> {}, order |-> <<>>, state |-> r.state, outcome |-> "running"]

Running == search.outcome = "running"
Top == Last(search.stack)

\* The slots the inner loop still visits, and those whose operation can be taken.
Candidates ==
  {k \in Top.next .. Len(Top.ready) :
     k \notin Top.skipped /\ Top.ready[k] \notin search.applied}

Viable(s, o) ==
  /\ Pre(req, s, s, o)
  /\ CanApply(req, s, o)
  /\ Safe(req, Apply(req, s, o))

Usable == {k \in Candidates : Viable(search.state, Top.ready[k])}

\* The inner loop stops at the first usable slot; every slot it evaluates is charged.
Visited == {k \in Candidates : \A u \in Usable : k <= u}
Charged == diag.visits + Cardinality(Visited)
WithinBudget == Visited = {} \/ Charged <= req.limits.visits

\* A budget counter when its check stops the loop: one charge too many.
Exceeding(spent, limit) == Max({spent, limit}) + 1

Continues == Running /\ ~stop /\ search.applied # Nodes(req)

SearchCancelled ==
  /\ Running
  /\ stop
  /\ search' = [search EXCEPT !.outcome = "cancelled"]
  /\ UNCHANGED <<req, strategy, stop, diag>>

\* Mutant: a finished order is returned without looking at the stop token.
SearchCompleteUnpolled ==
  /\ Running
  /\ search.applied = Nodes(req)
  /\ search' = [search EXCEPT !.outcome = "found"]
  /\ UNCHANGED <<req, strategy, stop, diag>>

SearchComplete ==
  /\ Running
  /\ ~stop
  /\ search.applied = Nodes(req)
  /\ search' = [search EXCEPT !.outcome = "found"]
  /\ UNCHANGED <<req, strategy, stop, diag>>

SearchLimit ==
  /\ Continues
  /\ ~WithinBudget
  /\ diag' = [diag EXCEPT !.visits = Exceeding(diag.visits, req.limits.visits)]
  /\ search' = [search EXCEPT !.outcome = "limit"]
  /\ UNCHANGED <<req, strategy, stop>>

\* Commit the first usable slot, skip the siblings symmetric to it, go deeper.
SearchCommit ==
  /\ Continues
  /\ WithinBudget
  /\ Usable # {}
  /\ LET slot == Min(Usable)
         o == Top.ready[slot]
         applied == search.applied \cup {o}
         state == Apply(req, search.state, o)
         closed == [Top EXCEPT
                      !.next = slot + 1,
                      !.chosen = o,
                      !.skipped = @ \cup {j \in slot + 1 .. Len(Top.ready) :
                                            Independent(req, o, Top.ready[j])}]
     IN  search' = [search EXCEPT
                      !.stack = Append(Append(Front(@), closed),
                                       NewFrame(req, strategy, applied, state)),
                      !.applied = applied,
                      !.order = Append(@, o),
                      !.state = state]
  /\ diag' = [diag EXCEPT !.visits = Charged]
  /\ UNCHANGED <<req, strategy, stop>>

\* Mutant: the state stays where the abandoned operations left it.
SearchBacktrackInPlace ==
  /\ Continues
  /\ WithinBudget
  /\ Usable = {}
  /\ search' = [search EXCEPT
                  !.stack = Front(@),
                  !.applied = @ \ {Top.chosen},
                  !.order = IF Top.chosen = 0 THEN @ ELSE Front(@),
                  !.outcome = IF Len(search.stack) = 1 THEN "exhausted" ELSE @]
  /\ diag' = [diag EXCEPT !.visits = Charged]
  /\ UNCHANGED <<req, strategy, stop>>

\* Mutant: the loop goes on with an empty stack.
SearchBacktrackUnended ==
  /\ Continues
  /\ WithinBudget
  /\ Usable = {}
  /\ search' = [search EXCEPT
                  !.stack = Front(@),
                  !.state = Top.entry,
                  !.applied = @ \ {Top.chosen},
                  !.order = IF Top.chosen = 0 THEN @ ELSE Front(@)]
  /\ diag' = [diag EXCEPT !.visits = Charged]
  /\ UNCHANGED <<req, strategy, stop>>

\* No slot is left: restore the state the frame was entered with and take back
\* the operation it committed last, if any. The last frame ends the search.
SearchBacktrack ==
  /\ Continues
  /\ WithinBudget
  /\ Usable = {}
  /\ search' = [search EXCEPT
                  !.stack = Front(@),
                  !.state = Top.entry,
                  !.applied = @ \ {Top.chosen},
                  !.order = IF Top.chosen = 0 THEN @ ELSE Front(@),
                  !.outcome = IF Len(search.stack) = 1 THEN "exhausted" ELSE @]
  /\ diag' = [diag EXCEPT !.visits = Charged]
  /\ UNCHANGED <<req, strategy, stop>>

SearchStep ==
  \/ SearchCancelled
  \/ SearchComplete
  \/ SearchLimit
  \/ SearchCommit
  \/ SearchBacktrack

-----------------------------------------------------------------------------
(* Types                                                                   *)

Diagnostics == [visits : Nat, perms : Nat, attempts : Nat]

Frame(r) == [ready : Seq(1 .. r.n), skipped : SUBSET Nat, next : Nat \ {0},
             chosen : 0 .. r.n, entry : States]

\* The search holds operations of the request and states of the fabric, and it
\* never runs on an empty stack.
SearchTypeOK ==
  /\ search \in [stack : Seq(Frame(req)), applied : SUBSET (1 .. req.n),
                 order : Seq(1 .. req.n), state : States,
                 outcome : {"running", "found", "limit", "exhausted", "cancelled"}]
  /\ Running => search.stack # <<>>

=============================================================================
