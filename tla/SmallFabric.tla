---------------------------- MODULE SmallFabric ----------------------------
(***************************************************************************)
(* A small abstract fabric for the model-checking instances of the         *)
(* planner: a state is the set of operations applied so far and the last   *)
(* writer of one shared field. Operations in r.racing write that field, so *)
(* two of them do not commute; r.needs[o] is what o's preconditions ask    *)
(* for; an obligation forbids a set of states.                             *)
(***************************************************************************)
EXTENDS Integers, FiniteSets

CONSTANT N  \* operations per request

ASSUME OperationCount == N \in Nat

Ops == 1 .. N

FabricStates == [done : SUBSET Ops, last : 0 .. N]

Blank == [done |-> {}, last |-> 0]

OpPre(r, basis, s, o) == r.needs[o] \subseteq s.done
OpPost(r, s, o) == o \in s.done
OpCanApply(r, s, o) == o \notin s.done
OpApply(r, s, o) == [done |-> s.done \cup {o},
                     last |-> IF o \in r.racing THEN o ELSE s.last]

\* Obligation c forbids the states whose applied set it lists, and, when it
\* lists a writer, being fully applied after that writer was last.
OpHolds(r, c, s) ==
  /\ s.done \notin r.forbids[c].sets
  /\ s.done = 1 .. r.n => s.last \notin r.forbids[c].last

Ample == [steps |-> 10, candidates |-> 4, width |-> 3, attempts |-> 12, core |-> 64,
          perms |-> 1000, visits |-> 1000]

\* A request over these operations with nothing unusual about it.
Plain ==
  [admit |-> "ok", derives |-> "ok", capable |-> TRUE, ordered |-> "ok",
   n |-> N, because |-> [o \in Ops |-> 0], edges |-> {}, id |-> [o \in Ops |-> o], risk |-> [o \in Ops |-> 10 * o],
   windowed |-> {}, state |-> Blank, enforced |-> {1, 2}, limits |-> Ample,
   priority |-> <<"minimum_stages", "risk_exposure">>,
   needs |-> [o \in Ops |-> {}], racing |-> {},
   forbids |-> [c \in 1 .. 2 |-> [sets |-> {}, last |-> {}]]]

Forbidding(r, c, sets) == [r EXCEPT !.forbids[c].sets = sets]

=============================================================================
