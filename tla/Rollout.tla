------------------------------ MODULE Rollout ------------------------------
(***************************************************************************)
(* A plan and the fabric it is carried out on. The planner decides a       *)
(* request; once a plan is published its steps are carried out, the stages *)
(* one after the other and the steps of a stage in any order, each one     *)
(* as replay_prefix of src/src/plan/verify.cpp replays a step: conditions, *)
(* application. The executor is not part of the repository; it may stop    *)
(* after any step.                                                         *)
(***************************************************************************)
EXTENDS Planner

VARIABLES
  fabric,   \* the state of the fabric
  carried   \* the steps carried out so far, in that order

rolloutVars == <<vars, fabric, carried>>

RolloutInit ==
  /\ Init
  /\ fabric = request.state
  /\ carried = <<>>

\* Stage k has begun to be carried out, and its steps that are still to come.
Begun(k) ==
  /\ k \in DOMAIN result.stages
  /\ \A j \in 1 .. k - 1 : ToSet(result.stages[j].steps) \subseteq ToSet(carried)

Open(k) == ToSet(result.stages[k].steps) \ ToSet(carried)

Accepts(k, o) ==
  /\ Pre(request, result.stages[k].basis, fabric, o)
  /\ CanApply(request, fabric, o)

CarryOut(k, o) ==
  /\ Published
  /\ Begun(k)
  /\ o \in Open(k)
  /\ Accepts(k, o)
  /\ fabric' = Apply(request, fabric, o)
  /\ carried' = Append(carried, o)
  /\ UNCHANGED vars

Planning == Next /\ UNCHANGED <<fabric, carried>>

RolloutNext ==
  \/ Planning
  \/ \E o \in Nodes(request), k \in 1 .. request.n : CarryOut(k, o)

RolloutSpec == RolloutInit /\ [][RolloutNext]_rolloutVars

-----------------------------------------------------------------------------
\* While a published plan is carried out, every obligation of the request
\* holds in the fabric, whichever open step of a stage is taken next and
\* wherever the executor stops.
RolloutSafe == Published => Safe(request, fabric)

\* No step is rejected on the way: its recorded preconditions hold and the
\* fabric accepts it whenever its stage has begun, however far that stage is.
RolloutAccepted ==
  Published =>
    \A k \in DOMAIN result.stages : Begun(k) => \A o \in Open(k) : Accepts(k, o)

\* Between two stages the fabric is in the state verify_plan recorded there,
\* in whatever order the steps before were taken.
RolloutConverges ==
  Published =>
    \A k \in 0 .. Len(result.stages) :
      ToSet(carried) = UNION {ToSet(result.stages[j].steps) : j \in 1 .. k}
        => fabric = result.trace[k + 1]

\* The planner and the executor together implement ChangeControl.
Control ==
  INSTANCE ChangeControl WITH
    allowed <- {s \in States : Safe(request, s)},
    verdict <- CASE result.kind = "none"    -> "pending"
                 [] result.kind = "refusal" -> "refused"
                 [] result.kind = "plan"    -> "published"

ImplementsChangeControl == Control!Spec

=============================================================================
