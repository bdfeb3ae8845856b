--------------------------- MODULE WriteOnceStore ---------------------------
(***************************************************************************)
(* What a plan repository promises about the plans it holds: there are at  *)
(* most size of them, and the content of a key does not change for as long *)
(* as the key is held. It may forget a key at any time.                    *)
(***************************************************************************)
EXTENDS Integers, FiniteSets

CONSTANTS Keys, Contents, Sizes

VARIABLES
  held,  \* the content of each key that is held
  size   \* how many keys may be held, fixed from the start

Init == held = [k \in {} |-> k] /\ size \in Sizes

Remember(k, content) ==
  /\ k \notin DOMAIN held
  /\ Cardinality(DOMAIN held) < size
  /\ held' = [j \in DOMAIN held \cup {k} |-> IF j = k THEN content ELSE held[j]]

Forget(k) == held' = [j \in DOMAIN held \ {k} |-> held[j]]

Next ==
  /\ \/ \E k \in Keys, content \in Contents : Remember(k, content)
     \/ \E k \in DOMAIN held : Forget(k)
  /\ UNCHANGED size

Spec == Init /\ [][Next]_<<held, size>>

=============================================================================
