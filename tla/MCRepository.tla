---------------------------- MODULE MCRepository ----------------------------
(* Two threads, two plans of two generations, two contents per key. *)
EXTENDS Repository

=============================================================================
