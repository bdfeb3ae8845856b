--------------------------- MODULE ChangeControl ---------------------------
(***************************************************************************)
(* What a planned change promises, without saying how plans are found: a   *)
(* change is decided once, it is decided on a fabric in an allowed state   *)
(* or refused, and only a published change moves the fabric, always        *)
(* from one allowed state to another.                                      *)
(***************************************************************************)
CONSTANT States  \* fabric states

VARIABLES
  fabric,   \* the state the fabric is in
  allowed,  \* the states that satisfy every obligation of the request
  verdict   \* what was decided about the change

vars == <<fabric, allowed, verdict>>

Init ==
  /\ fabric \in States
  /\ allowed \in SUBSET States
  /\ verdict = "pending"

Refuse ==
  /\ verdict = "pending"
  /\ verdict' = "refused"
  /\ UNCHANGED <<fabric, allowed>>

Publish ==
  /\ verdict = "pending"
  /\ fabric \in allowed
  /\ verdict' = "published"
  /\ UNCHANGED <<fabric, allowed>>

Move ==
  /\ verdict = "published"
  /\ fabric' \in allowed
  /\ UNCHANGED <<allowed, verdict>>

Next == Refuse \/ Publish \/ Move

Spec == Init /\ [][Next]_vars

=============================================================================
