--------------------------- MODULE ArtifactStore ----------------------------
(***************************************************************************)
(* Plan artifacts on disk (src/src/persist/artifact.cpp): processes write  *)
(* one destination path through partial files of their own and a rename,   *)
(* others read the destination or scan its directory, and a process may    *)
(* die between any two of its steps. A file is the sequence of its chunks, *)
(* each marked with the plan it belongs to: a header with length and       *)
(* digest makes exactly the complete files of one plan readable. The file  *)
(* system (directory entries, files, atomic rename) is external.           *)
(***************************************************************************)
EXTENDS Integers, Sequences, FiniteSets

CONSTANTS
  Writers, Readers,
  Processes, ProcessOf,  \* the process each writer is a thread of
  Pids,                  \* process ids the operating system hands out
  Plans, Length,         \* the chunks the encoding of each plan takes
  MaxAttempts,           \* attempts to rename (25 in the code)
  MaxWrites, MaxReads, MaxCrashes,  \* bounds: calls and crashes in one behaviour
  None

ASSUME ArtifactAssumption ==
  /\ ProcessOf \in [Writers -> Processes]
  /\ Length \in [Plans -> Nat \ {0}]
  /\ MaxAttempts \in Nat \ {0} /\ MaxWrites \in Nat /\ MaxReads \in Nat /\ MaxCrashes \in Nat
  /\ None \notin Plans

VARIABLES
  dir,      \* directory entry -> file
  files,    \* file -> its chunks
  pid,      \* the process id of each process
  counter,  \* the partial-file counter of each process
  pc,       \* where each writer is in write_plan_artifact
  job,      \* what it writes and how often it has tried to rename
  reading,  \* what each reader is doing
  bounds,   \* calls and crashes so far
  orphans,  \* history: partial names left behind by a crash
  shown,    \* history: plans at the destination since a reader began
  taken     \* history: plans a reader took for published since it began

disk == <<dir, files>>
writing == <<pid, counter, pc, job, orphans>>
vars == <<disk, writing, reading, bounds, shown, taken>>

Dest == <<"plan">>
IsPartialNever(name) == FALSE
IsPartial(name) == name # Dest

Complete(plan) == [i \in 1 .. Length[plan] |-> plan]

\* parse_plan_artifact: length and digest have to match.
Intact(bytes) == \E plan \in Plans : bytes = Complete(plan)

Idle == [at |-> "idle", todo |-> {}, name |-> Dest, size |-> 0, file |-> 0]

Init ==
  /\ dir = [n \in {} |-> 0] /\ files = <<>>
  /\ pid \in {f \in [Processes -> Pids] : \A p, q \in Processes : f[p] = f[q] => p = q}
  /\ counter = [p \in Processes |-> 0]
  /\ pc = [w \in Writers |-> "idle"]
  /\ job = [w \in Writers |-> None]
  /\ reading = [r \in Readers |-> Idle]
  /\ bounds = [writes |-> 0, reads |-> 0, crashes |-> 0]
  /\ orphans = {}
  /\ shown = [r \in Readers |-> {}]
  /\ taken = [r \in Readers |-> {}]

\* The plan that is now at the destination, if any.
Current(d, f) == IF Dest \in DOMAIN d THEN {plan \in Plans : f[d[Dest]] = Complete(plan)} ELSE {}

-----------------------------------------------------------------------------
(* write_plan_artifact                                                     *)

\* partial_path_for: unique within a process by the counter, across processes by the id.
NameForCounter(w) == <<"partial", 0, counter[ProcessOf[w]]>>
NameFor(w) == <<"partial", pid[ProcessOf[w]], counter[ProcessOf[w]]>>

Begin(w) ==
  /\ pc[w] = "idle" /\ bounds.writes < MaxWrites
  /\ \E plan \in Plans : job' = [job EXCEPT ![w] = [plan |-> plan, name |-> NameFor(w),
                                                     file |-> 0, attempt |-> 0]]
  /\ counter' = [counter EXCEPT ![ProcessOf[w]] = @ + 1]
  /\ pc' = [pc EXCEPT ![w] = "open"]
  /\ bounds' = [bounds EXCEPT !.writes = @ + 1]
  /\ UNCHANGED <<disk, pid, reading, orphans, shown, taken>>

\* Opening creates the file, or empties the one a dead process has left under that name.
OpenPartial(w) ==
  LET name == job[w].name
      there == name \in DOMAIN dir
      file == IF there THEN dir[name] ELSE Len(files) + 1
  IN  /\ pc[w] = "open"
      /\ files' = IF there THEN [files EXCEPT ![file] = <<>>] ELSE Append(files, <<>>)
      /\ dir' = [n \in DOMAIN dir \cup {name} |-> IF n = name THEN file ELSE dir[n]]
      /\ job' = [job EXCEPT ![w].file = file]
      /\ pc' = [pc EXCEPT ![w] = "write"]
      /\ orphans' = orphans \ {name}
      /\ UNCHANGED <<pid, counter, reading, bounds, shown, taken>>

\* The call returns, with or without an error.
Finish(w) ==
  /\ pc' = [pc EXCEPT ![w] = "idle"]
  /\ job' = [job EXCEPT ![w] = None]

OpenFails(w) ==
  /\ pc[w] = "open"
  /\ Finish(w)
  /\ UNCHANGED <<disk, pid, counter, reading, bounds, orphans, shown, taken>>

\* The last chunk is flushed and the stream closed.
WriteChunk(w) ==
  LET plan == job[w].plan
      grown == Append(files[job[w].file], plan)
  IN  /\ pc[w] = "write"
      /\ files' = [files EXCEPT ![job[w].file] = grown]
      /\ pc' = [pc EXCEPT ![w] = IF Len(grown) < Length[plan] THEN "write" ELSE "rename"]
      /\ UNCHANGED <<dir, pid, counter, job, reading, bounds, orphans, shown, taken>>

Without(name) == [n \in DOMAIN dir \ {name} |-> dir[n]]

\* The writer gives up and removes its partial file.
GiveUpOnly(w) == Finish(w) /\ UNCHANGED dir
GiveUp(w) == Finish(w) /\ dir' = Without(job[w].name)

WriteFails(w) ==
  /\ pc[w] = "write"
  /\ GiveUp(w)
  /\ UNCHANGED <<files, pid, counter, reading, bounds, orphans, shown, taken>>

Publish(w) ==
  LET renamed == [n \in DOMAIN Without(job[w].name) \cup {Dest} |->
                    IF n = Dest THEN dir[job[w].name] ELSE dir[n]]
  IN  /\ pc[w] = "rename" /\ job[w].name \in DOMAIN dir
      /\ dir' = renamed
      /\ shown' = [r \in Readers |-> shown[r] \cup Current(renamed, files)]
      /\ Finish(w)
      /\ UNCHANGED <<files, pid, counter, reading, bounds, orphans, taken>>

\* A rename may fail for many reasons, a reader or another writer at the destination among
\* them, and is tried again a bounded number of times.
CountedInCircles(attempt) == (attempt + 1) % MaxAttempts
CountedTry(attempt) == attempt + 1

RenameFails(w) ==
  /\ pc[w] = "rename"
  /\ IF CountedTry(job[w].attempt) < MaxAttempts
     THEN job' = [job EXCEPT ![w].attempt = CountedTry(@)] /\ UNCHANGED <<dir, pc>>
     ELSE GiveUp(w)
  /\ UNCHANGED <<files, pid, counter, reading, bounds, orphans, shown, taken>>

-----------------------------------------------------------------------------
(* Crashes                                                                 *)

\* A process dies with its threads and is started again under a free process id.
Crash(p) ==
  LET dead == {w \in Writers : ProcessOf[w] = p /\ pc[w] # "idle"}
  IN  /\ bounds.crashes < MaxCrashes /\ dead # {}
      /\ bounds' = [bounds EXCEPT !.crashes = @ + 1]
      /\ orphans' = orphans \cup ({job[w].name : w \in dead} \cap DOMAIN dir)
      /\ pc' = [w \in Writers |-> IF w \in dead THEN "idle" ELSE pc[w]]
      /\ job' = [w \in Writers |-> IF w \in dead THEN None ELSE job[w]]
      /\ counter' = [counter EXCEPT ![p] = 0]
      /\ \E free \in Pids \ {pid[q] : q \in Processes \ {p}} : pid' = [pid EXCEPT ![p] = free]
      /\ UNCHANGED <<disk, reading, shown, taken>>

-----------------------------------------------------------------------------
(* read_plan_artifact, scan_plan_directory                                 *)

Start(r, names) ==
  /\ reading[r].at = "idle" /\ bounds.reads < MaxReads
  /\ bounds' = [bounds EXCEPT !.reads = @ + 1]
  /\ reading' = [reading EXCEPT ![r] = [Idle EXCEPT !.at = "next", !.todo = names]]
  /\ shown' = [shown EXCEPT ![r] = Current(dir, files)]
  /\ taken' = [taken EXCEPT ![r] = {}]
  /\ UNCHANGED <<disk, writing>>

ReadPlan(r) == Start(r, {Dest})
ScanDirectory(r) == Start(r, DOMAIN dir)

Move(r, next) ==
  /\ reading' = [reading EXCEPT ![r] = next]
  /\ UNCHANGED <<disk, writing, bounds, shown>>

\* A scan reports a partial file as an incomplete publication and does not open it.
Turn(r) ==
  /\ reading[r].at = "next" /\ reading[r].todo # {}
  /\ \E n \in reading[r].todo :
       Move(r, [reading[r] EXCEPT !.todo = @ \ {n}, !.name = n,
                                  !.at = IF IsPartial(n) THEN "next" ELSE "stat"])
  /\ UNCHANGED taken

Done(r) ==
  /\ reading[r].at = "next" /\ reading[r].todo = {}
  /\ Move(r, Idle)
  /\ UNCHANGED taken

\* The size is taken first; the file may be replaced before it is opened.
Stat(r) ==
  LET n == reading[r].name
  IN  /\ reading[r].at = "stat"
      /\ Move(r, IF n \in DOMAIN dir THEN [reading[r] EXCEPT !.at = "open", !.size = Len(files[dir[n]])]
                 ELSE [reading[r] EXCEPT !.at = "next"])
      /\ UNCHANGED taken

Open(r) ==
  LET n == reading[r].name
  IN  /\ reading[r].at = "open"
      /\ Move(r, IF n \in DOMAIN dir THEN [reading[r] EXCEPT !.at = "read", !.file = dir[n]]
                 ELSE [reading[r] EXCEPT !.at = "next"])
      /\ UNCHANGED taken

\* As many bytes as the size said are read and parsed; fewer of them are an error.
Read(r) ==
  LET contents == files[reading[r].file]
      bytes == SubSeq(contents, 1, reading[r].size)
  IN  /\ reading[r].at = "read"
      /\ Move(r, [reading[r] EXCEPT !.at = "next", !.size = 0, !.file = 0])
      /\ taken' = IF Len(contents) >= reading[r].size /\ Intact(bytes)
                  THEN [taken EXCEPT ![r] = @ \cup {bytes[1]}]
                  ELSE taken

Write(w) ==
  \/ Begin(w) \/ OpenPartial(w) \/ OpenFails(w) \/ WriteChunk(w)
  \/ WriteFails(w) \/ Publish(w) \/ RenameFails(w)

Access(r) ==
  ReadPlan(r) \/ ScanDirectory(r) \/ Turn(r) \/ Done(r) \/ Stat(r) \/ Open(r) \/ Read(r)

Next ==
  \/ \E w \in Writers : Write(w)
  \/ \E r \in Readers : Access(r)
  \/ \E p \in Processes : Crash(p)

\* A writer that has begun goes on; nothing is assumed about how its renames fare.
Continue(w) == pc[w] # "idle" /\ Write(w)
Spec == Init /\ [][Next]_vars /\ \A w \in Writers : WF_vars(Continue(w))

-----------------------------------------------------------------------------
(* Properties                                                              *)

\* Every record has its type, every entry leads to a file, and a writer that has
\* opened its partial file has it for itself.
TypeOK ==
  /\ \A n \in DOMAIN dir : dir[n] \in 1 .. Len(files)
  /\ \A i \in 1 .. Len(files) : \A j \in 1 .. Len(files[i]) : files[i][j] \in Plans
  /\ pid \in [Processes -> Pids] /\ counter \in [Processes -> Nat]
  /\ pc \in [Writers -> {"idle", "open", "write", "rename"}]
  /\ \A w \in Writers : pc[w] # "idle" => /\ job[w].plan \in Plans
                                          /\ job[w].attempt \in 0 .. MaxAttempts - 1
  /\ \A v, w \in {u \in Writers : pc[u] \in {"write", "rename"}} :
       /\ job[w].name \in DOMAIN dir /\ dir[job[w].name] = job[w].file
       /\ v # w => job[v].file # job[w].file
  /\ \A r \in Readers : reading[r].file \in 0 .. Len(files)

\* What stands at the destination is always the complete artifact of one plan,
\* whoever writes, crashes, restarts under an old process id or retries a rename:
\* "A partially written artifact is never observable at the destination path."
DestinationComplete ==
  Dest \in DOMAIN dir => \E plan \in Plans : files[dir[Dest]] = Complete(plan)

\* A reader or a scan takes for a plan only what stood at the destination at some
\* moment since it began, although the size it reads belongs to an older file, and never
\* an orphan, even one that is complete but was not renamed.
ReadsPublished == \A r \in Readers : taken[r] \subseteq shown[r]

\* A partial file is being written by somebody or was left behind by a crash;
\* a call that reports a failure leaves none.
OrphansFromCrashes ==
  \A n \in DOMAIN dir \ {Dest} :
    n \in orphans \/ \E w \in Writers : pc[w] \in {"write", "rename"} /\ job[w].name = n

\* Every call to write ends, by itself or with its process, however often its
\* renames fail: the retries are bounded.
WritesEnd == \A w \in Writers : pc[w] # "idle" ~> pc[w] = "idle"

=============================================================================
