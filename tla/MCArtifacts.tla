----------------------------- MODULE MCArtifacts ----------------------------
(* Two processes with a writer each and a reader, plans of one and two chunks. *)
EXTENDS ArtifactStore

MCProcessOf == [w \in Writers |-> w]
MCLength == [p \in Plans |-> IF p = "long" THEN 2 ELSE 1]

\* Spec, with ENABLED of a writer's steps written out: a writer that has begun always
\* has one, because every step of the call either succeeds or fails.
LiveSpec ==
  Init /\ [][Next]_vars /\ \A w \in Writers : []<>(pc[w] = "idle") \/ []<><<Continue(w)>>_vars

=============================================================================
