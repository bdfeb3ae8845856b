--------------------------- MODULE ArtifactProofs ---------------------------
(***************************************************************************)
(* The safety of ArtifactStore for any number of processes, writers,       *)
(* readers, plans and crashes. No two writers that are alive have the same *)
(* partial name, since process ids are distinct and counters only grow; so *)
(* a file under a partial name has one writer, and by the time it is       *)
(* renamed it is complete. A reader holds on to the file it opened, which  *)
(* no partial name leads to, so nobody writes it any more.                 *)
(***************************************************************************)
EXTENDS ArtifactStore, TLAPS

Names == {"partial"} \X Pids \X Nat
Jobs == [plan : Plans, name : Names, file : Nat, attempt : 0 .. MaxAttempts - 1]
ReaderStates == [at : {"idle", "next", "stat", "open", "read"}, todo : SUBSET (Names \cup {Dest}),
                 name : Names \cup {Dest}, size : Nat, file : Nat]

Types ==
  /\ files \in Seq(Seq(Plans))
  /\ DOMAIN dir \subseteq Names \cup {Dest} /\ \A n \in DOMAIN dir : dir[n] \in 1 .. Len(files)
  /\ pid \in [Processes -> Pids] /\ counter \in [Processes -> Nat]
  /\ pc \in [Writers -> {"idle", "open", "write", "rename"}]
  /\ job \in [Writers -> Jobs \cup {None}] /\ \A w \in Writers : pc[w] # "idle" => job[w] \in Jobs
  /\ reading \in [Readers -> ReaderStates]
  /\ shown \in [Readers -> SUBSET Plans] /\ taken \in [Readers -> SUBSET Plans]

\* Process ids are distinct, a writer's partial name carries the id of its process and a
\* count that is used up, and writers that are alive have different names.
OwnNames ==
  /\ \A p, q \in Processes : pid[p] = pid[q] => p = q
  /\ \A w \in Writers : pc[w] # "idle" =>
       \E c \in Nat : c < counter[ProcessOf[w]] /\ job[w].name = <<"partial", pid[ProcessOf[w]], c>>
  /\ \A v, w \in Writers : v # w /\ pc[v] # "idle" /\ pc[w] # "idle" => job[v].name # job[w].name

\* No file has two entries; a writer's file has the chunks written so far.
OwnFiles ==
  /\ \A m, n \in DOMAIN dir : dir[m] = dir[n] => m = n
  /\ \A w \in Writers : pc[w] \in {"write", "rename"} =>
       /\ job[w].name \in DOMAIN dir /\ dir[job[w].name] = job[w].file
       /\ \A i \in 1 .. Len(files[job[w].file]) : files[job[w].file][i] = job[w].plan
       /\ pc[w] = "write" => Len(files[job[w].file]) < Length[job[w].plan]
       /\ pc[w] = "rename" => Len(files[job[w].file]) = Length[job[w].plan]
  /\ DestinationComplete

\* A reader opens the destination only; the file it has open is a complete plan that
\* stood there since it began, and no partial name leads to it.
ReaderInv ==
  \A r \in Readers :
    /\ reading[r].at \in {"stat", "open", "read"} => reading[r].name = Dest
    /\ reading[r].at # "idle" => Current(dir, files) \subseteq shown[r]
    /\ reading[r].at = "read" =>
         /\ reading[r].file \in 1 .. Len(files)
         /\ \E plan \in shown[r] : files[reading[r].file] = Complete(plan)
         /\ \A n \in DOMAIN dir \ {Dest} : dir[n] # reading[r].file
    /\ reading[r].at # "read" => reading[r].file = 0
    /\ taken[r] \subseteq shown[r]

ArtifactInv == Types /\ OwnNames /\ OwnFiles /\ ReaderInv /\ OrphansFromCrashes

-----------------------------------------------------------------------------
(* Names and contents                                                      *)

\* A partial name is never the destination, and it determines process id and count.
LEMMA PartialNames ==
  /\ \A a, c : <<"partial", a, c>> # Dest
  /\ \A a, b, c, d : <<"partial", a, c>> = <<"partial", b, d>> => a = b /\ c = d
  /\ \A n \in Names : n # Dest
  /\ \A a \in Pids, c \in Nat : <<"partial", a, c>> \in Names
<1>1. \A a, c : <<"partial", a, c>> # Dest
  <2>1. Dest[1] = "plan" /\ \A a, c : <<"partial", a, c>>[1] = "partial"
    BY DEF Dest
  <2> QED
    BY <2>1
<1>2. \A a, b, c, d : <<"partial", a, c>> = <<"partial", b, d>> => a = b /\ c = d
  OBVIOUS
<1>3. \A n \in Names : n # Dest
  <2>1. Dest[1] = "plan" /\ \A n \in Names : n[1] = "partial"
    BY DEF Dest, Names
  <2> QED
    BY <2>1
<1>4. \A a \in Pids, c \in Nat : <<"partial", a, c>> \in Names
  BY DEF Names
<1> QED
  BY <1>1, <1>2, <1>3, <1>4

\* A sequence with all the chunks of a plan is the plan's complete artifact.
LEMMA AllChunks ==
  ASSUME NEW s \in Seq(Plans), NEW plan \in Plans, Len(s) = Length[plan],
         \A i \in 1 .. Len(s) : s[i] = plan
  PROVE  s = Complete(plan)
BY DEF Complete

\* Complete artifacts of different plans differ, in their first chunk.
LEMMA FirstChunk ==
  ASSUME NEW plan \in Plans
  PROVE  /\ Complete(plan) \in Seq(Plans) /\ Len(Complete(plan)) = Length[plan]
         /\ Length[plan] \in Nat /\ Length[plan] >= 1 /\ Complete(plan)[1] = plan
BY ArtifactAssumption DEF Complete

\* The invariant contains the types of ArtifactStore.
LEMMA InvImpliesTypeOK == ArtifactInv => TypeOK
<1> SUFFICES ASSUME ArtifactInv PROVE TypeOK
  OBVIOUS
<1> USE DEF ArtifactInv, Types
<1>1. \A i \in 1 .. Len(files) : \A j \in 1 .. Len(files[i]) : files[i][j] \in Plans
  OBVIOUS
<1>2. \A w \in Writers : pc[w] # "idle" => job[w].plan \in Plans /\ job[w].attempt \in 0 .. MaxAttempts - 1
  BY DEF Jobs
<1>3. \A v, w \in {u \in Writers : pc[u] \in {"write", "rename"}} :
        /\ job[w].name \in DOMAIN dir /\ dir[job[w].name] = job[w].file
        /\ v # w => job[v].file # job[w].file
  <2> TAKE v, w \in {u \in Writers : pc[u] \in {"write", "rename"}}
  <2>1. job[w].name \in DOMAIN dir /\ dir[job[w].name] = job[w].file
    BY DEF OwnFiles
  <2>2. job[v].name \in DOMAIN dir /\ dir[job[v].name] = job[v].file
    BY DEF OwnFiles
  <2>3. v # w => job[v].name # job[w].name
    BY DEF OwnNames
  <2> QED
    BY <2>1, <2>2, <2>3 DEF OwnFiles
<1>4. \A r \in Readers : reading[r].file \in 0 .. Len(files)
  BY DEF ReaderInv
<1> QED
  BY <1>1, <1>2, <1>3, <1>4 DEF TypeOK

\* Init establishes the invariant.
LEMMA InitArtifactInv == Init => ArtifactInv
<1> SUFFICES ASSUME Init PROVE ArtifactInv
  OBVIOUS
<1> USE DEF Init
<1>1. Types
  <2>1. Idle \in ReaderStates
    BY DEF Idle, ReaderStates
  <2> QED
    BY <2>1 DEF Types
<1>2. OwnNames /\ OwnFiles
  BY DEF OwnNames, OwnFiles, DestinationComplete
<1>3. ReaderInv
  BY DEF ReaderInv, Idle, Current
<1>4. OrphansFromCrashes
  BY DEF OrphansFromCrashes
<1> QED
  BY <1>1, <1>2, <1>3, <1>4 DEF ArtifactInv

-----------------------------------------------------------------------------
(* One step: types and names                                               *)

\* A reader's step leaves the disk and the writers alone.
LEMMA AccessKeepsWriters ==
  ASSUME NEW r \in Readers, Access(r) PROVE UNCHANGED <<disk, writing>>
BY DEF Access, ReadPlan, ScanDirectory, Start, Turn, Done, Stat, Open, Read, Move

\* A reader's step keeps the types.
LEMMA AccessTypes ==
  ASSUME Types, NEW r \in Readers, Access(r) PROVE Types'
<1> USE DEF Types
<1>1. UNCHANGED <<files, dir, pid, counter, pc, job>>
  BY AccessKeepsWriters DEF disk, writing
<1>2. ASSUME NEW next \in ReaderStates, reading' = [reading EXCEPT ![r] = next],
             shown' \in [Readers -> SUBSET Plans], taken' \in [Readers -> SUBSET Plans]
      PROVE  Types'
  BY <1>1, <1>2
<1>3. Idle \in ReaderStates
  BY DEF Idle, ReaderStates
<1>4. \A d, f : Current(d, f) \subseteq Plans
  BY DEF Current
<1>5. ASSUME NEW names \in SUBSET (Names \cup {Dest}), Start(r, names) PROVE Types'
  <2>1. [Idle EXCEPT !.at = "next", !.todo = names] \in ReaderStates
    BY DEF Idle, ReaderStates
  <2>2. shown' \in [Readers -> SUBSET Plans] /\ taken' \in [Readers -> SUBSET Plans]
    BY <1>4, <1>5 DEF Start
  <2> QED
    BY <1>2, <1>5, <2>1, <2>2 DEF Start
<1>6. CASE ReadPlan(r) \/ ScanDirectory(r)
  BY <1>5, <1>6 DEF ReadPlan, ScanDirectory
<1>7. ASSUME NEW next \in ReaderStates, Move(r, next), taken' = taken PROVE Types'
  BY <1>2, <1>7 DEF Move
<1>8. CASE Turn(r)
  <2>1. PICK n \in reading[r].todo :
          Move(r, [reading[r] EXCEPT !.todo = @ \ {n}, !.name = n, !.at = IF IsPartial(n) THEN "next" ELSE "stat"])
    BY <1>8 DEF Turn
  <2>2. [reading[r] EXCEPT !.todo = @ \ {n}, !.name = n, !.at = IF IsPartial(n) THEN "next" ELSE "stat"]
          \in ReaderStates
    BY ZenonT(60) DEF ReaderStates
  <2> QED
    BY <1>7, <1>8, <2>1, <2>2 DEF Turn
<1>9. CASE Done(r)
  BY <1>3, <1>7, <1>9 DEF Done
<1>10. CASE Stat(r)
  <2>1. [reading[r] EXCEPT !.at = "next"] \in ReaderStates
    BY DEF ReaderStates
  <2>2. reading[r].name \in DOMAIN dir =>
          [reading[r] EXCEPT !.at = "open", !.size = Len(files[dir[reading[r].name]])] \in ReaderStates
    <3>1. reading[r].name \in DOMAIN dir => Len(files[dir[reading[r].name]]) \in Nat
      OBVIOUS
    <3>2. \A k \in Nat : [reading[r] EXCEPT !.at = "open", !.size = k] \in ReaderStates
      BY DEF ReaderStates
    <3> QED
      BY <3>1, <3>2
  <2> QED
    BY <1>7, <1>10, <2>1, <2>2 DEF Stat
<1>11. CASE Open(r)
  <2>1. [reading[r] EXCEPT !.at = "next"] \in ReaderStates
    BY DEF ReaderStates
  <2>2. reading[r].name \in DOMAIN dir =>
          [reading[r] EXCEPT !.at = "read", !.file = dir[reading[r].name]] \in ReaderStates
    <3>1. reading[r].name \in DOMAIN dir => dir[reading[r].name] \in Nat
      OBVIOUS
    <3>2. \A k \in Nat : [reading[r] EXCEPT !.at = "read", !.file = k] \in ReaderStates
      BY DEF ReaderStates
    <3> QED
      BY <3>1, <3>2
  <2> QED
    BY <1>7, <1>11, <2>1, <2>2 DEF Open
<1>12. CASE Read(r)
  <2>1. [reading[r] EXCEPT !.at = "next", !.size = 0, !.file = 0] \in ReaderStates
    BY DEF ReaderStates
  <2>2. \A bytes : Intact(bytes) => bytes[1] \in Plans
    BY FirstChunk DEF Intact
  <2>3. taken' \in [Readers -> SUBSET Plans]
    BY ZenonT(60), <1>12, <2>2 DEF Read
  <2> QED
    BY <1>2, <1>12, <2>1, <2>3 DEF Read, Move
<1> QED
  BY <1>6, <1>8, <1>9, <1>10, <1>11, <1>12 DEF Access

\* A writer's step keeps the types.
LEMMA WriteTypes ==
  ASSUME ArtifactInv, NEW w \in Writers, Write(w) PROVE Types'
<1> USE DEF ArtifactInv, Types
<1>1. \A plan \in Plans : Len(Complete(plan)) = Length[plan]
  BY FirstChunk
<1>2. ProcessOf[w] \in Processes
  BY ArtifactAssumption
<1>3. CASE Begin(w)
  <2>1. NameFor(w) \in Names
    BY <1>2 DEF NameFor, Names
  <2>2. PICK plan \in Plans : job' = [job EXCEPT ![w] = [plan |-> plan, name |-> NameFor(w), file |-> 0, attempt |-> 0]]
    BY <1>3 DEF Begin
  <2>3. [plan |-> plan, name |-> NameFor(w), file |-> 0, attempt |-> 0] \in Jobs
    BY <2>1, ArtifactAssumption DEF Jobs
  <2>4. job' \in [Writers -> Jobs \cup {None}] /\ \A v \in Writers : pc'[v] # "idle" => job'[v] \in Jobs
    BY <1>3, <2>2, <2>3 DEF Begin
  <2>5. counter' \in [Processes -> Nat] /\ pc' \in [Writers -> {"idle", "open", "write", "rename"}]
    BY <1>2, <1>3 DEF Begin
  <2> QED
    BY <1>3, <2>4, <2>5 DEF Begin, disk
<1>4. ASSUME Finish(w), UNCHANGED <<files, pid, counter, reading, taken>>,
             DOMAIN dir' \subseteq Names \cup {Dest}, \A n \in DOMAIN dir' : dir'[n] \in 1 .. Len(files),
             shown' \in [Readers -> SUBSET Plans]
      PROVE  Types'
  BY <1>4 DEF Finish
<1>5. CASE OpenFails(w)
  BY <1>4, <1>5 DEF OpenFails, disk
<1>6. CASE OpenPartial(w)
  <2> DEFINE name == job[w].name
             file == IF name \in DOMAIN dir THEN dir[name] ELSE Len(files) + 1
  <2>1. job[w] \in Jobs /\ name \in Names /\ file \in Nat
    BY <1>6 DEF OpenPartial, Jobs
  <2>2. files' = (IF name \in DOMAIN dir THEN [files EXCEPT ![file] = <<>>] ELSE Append(files, <<>>))
    BY <1>6 DEF OpenPartial
  <2>3. files' \in Seq(Seq(Plans)) /\ Len(files') >= Len(files) /\ file \in 1 .. Len(files')
    BY <2>2
  <2>4. DOMAIN dir' = DOMAIN dir \cup {name} /\ \A n \in DOMAIN dir' : dir'[n] = IF n = name THEN file ELSE dir[n]
    BY <1>6 DEF OpenPartial
  <2>5. DOMAIN dir' \subseteq Names \cup {Dest} /\ \A n \in DOMAIN dir' : dir'[n] \in 1 .. Len(files')
    <3> HIDE DEF file
    <3> QED
      BY <2>1, <2>3, <2>4
  <2>6. [job[w] EXCEPT !.file = file] \in Jobs
    BY <2>1 DEF Jobs
  <2>7. job' = [job EXCEPT ![w] = [job[w] EXCEPT !.file = file]]
    BY <1>6 DEF OpenPartial
  <2>8. job' \in [Writers -> Jobs \cup {None}] /\ \A v \in Writers : pc'[v] # "idle" => job'[v] \in Jobs
    <3> HIDE DEF file
    <3> QED
      BY <1>6, <2>6, <2>7 DEF OpenPartial
  <2>9. UNCHANGED <<pid, counter, reading, shown, taken>> /\ pc' \in [Writers -> {"idle", "open", "write", "rename"}]
    BY <1>6 DEF OpenPartial
  <2> QED
    BY <2>3, <2>5, <2>8, <2>9
<1>7. CASE WriteChunk(w)
  <2>1. job[w] \in Jobs /\ job[w].plan \in Plans /\ job[w].file \in 1 .. Len(files)
    BY <1>7 DEF WriteChunk, Jobs, OwnFiles
  <2>2. files[job[w].file] \in Seq(Plans)
    BY <2>1
  <2>3. files' = [files EXCEPT ![job[w].file] = Append(files[job[w].file], job[w].plan)]
    BY <1>7 DEF WriteChunk
  <2>4. files' \in Seq(Seq(Plans)) /\ Len(files') = Len(files)
    BY <2>1, <2>2, <2>3
  <2>5. pc' \in [Writers -> {"idle", "open", "write", "rename"}] /\ \A v \in Writers : pc'[v] # "idle" => pc[v] # "idle"
    BY <1>7 DEF WriteChunk
  <2>6. UNCHANGED <<dir, pid, counter, job, reading, shown, taken>>
    BY <1>7 DEF WriteChunk
  <2> QED
    BY <2>4, <2>5, <2>6
<1>8. CASE WriteFails(w)
  <2>1. DOMAIN dir' \subseteq DOMAIN dir /\ \A n \in DOMAIN dir' : dir'[n] = dir[n]
    BY <1>8 DEF WriteFails, GiveUp, Without
  <2> QED
    BY <1>4, <1>8, <2>1 DEF WriteFails, GiveUp
<1>9. CASE Publish(w)
  <2>1. /\ DOMAIN dir' \subseteq DOMAIN dir \cup {Dest}
        /\ \A n \in DOMAIN dir' : dir'[n] = IF n = Dest THEN dir[job[w].name] ELSE dir[n]
        /\ job[w].name \in DOMAIN dir
    BY <1>9 DEF Publish, Without
  <2>2. \A d, f : Current(d, f) \subseteq Plans
    BY DEF Current
  <2>3. shown' \in [Readers -> SUBSET Plans]
    BY <1>9, <2>2 DEF Publish
  <2>4. DOMAIN dir' \subseteq Names \cup {Dest} /\ \A n \in DOMAIN dir' : dir'[n] \in 1 .. Len(files)
    BY <2>1
  <2> QED
    BY <1>4, <1>9, <2>3, <2>4 DEF Publish
<1>10. CASE RenameFails(w)
  <2>1. CASE CountedTry(job[w].attempt) < MaxAttempts
    <3>1. job[w] \in Jobs
      BY <1>10 DEF RenameFails
    <3>5. job[w].attempt + 1 \in 0 .. MaxAttempts - 1
      BY <2>1, <3>1, ArtifactAssumption DEF Jobs, CountedTry
    <3>2. [job[w] EXCEPT !.attempt = @ + 1] \in Jobs
      BY <3>1, <3>5 DEF Jobs
    <3>3. job' = [job EXCEPT ![w] = [job[w] EXCEPT !.attempt = @ + 1]]
      BY <1>10, <2>1, <3>1 DEF RenameFails, CountedTry
    <3>4. job' \in [Writers -> Jobs \cup {None}] /\ \A v \in Writers : pc[v] # "idle" => job'[v] \in Jobs
      BY <3>2, <3>3
    <3> QED
      BY <1>10, <2>1, <3>4 DEF RenameFails
  <2>2. CASE ~(CountedTry(job[w].attempt) < MaxAttempts)
    <3>1. DOMAIN dir' \subseteq DOMAIN dir /\ \A n \in DOMAIN dir' : dir'[n] = dir[n]
      BY <1>10, <2>2 DEF RenameFails, GiveUp, Without
    <3> QED
      BY <1>4, <1>10, <2>2, <3>1 DEF RenameFails, GiveUp
  <2> QED
    BY <2>1, <2>2
<1> QED
  BY <1>3, <1>5, <1>6, <1>7, <1>8, <1>9, <1>10 DEF Write

\* A crash keeps the types.
LEMMA CrashTypes ==
  ASSUME ArtifactInv, NEW p \in Processes, Crash(p) PROVE Types'
<1> USE DEF ArtifactInv, Types
<1>1. pid' \in [Processes -> Pids] /\ counter' \in [Processes -> Nat]
  BY DEF Crash
<1>2. pc' \in [Writers -> {"idle", "open", "write", "rename"}] /\ job' \in [Writers -> Jobs \cup {None}]
  BY DEF Crash
<1>3. \A w \in Writers : pc'[w] # "idle" => job'[w] \in Jobs
  BY DEF Crash
<1> QED
  BY <1>1, <1>2, <1>3 DEF Crash, disk

\* Names stay apart: a new name takes a count its process has not used, and a restarted
\* process, whose counter starts again, has no writer left.
LEMMA NextNames ==
  ASSUME ArtifactInv, [Next]_vars PROVE OwnNames'
<1> USE DEF ArtifactInv, Types
<1>1. \A w \in Writers : ProcessOf[w] \in Processes
  BY ArtifactAssumption
\* Apart from Begin and Crash, writers keep their names or end.
<1>2. ASSUME UNCHANGED <<pid, counter>>,
             \A w \in Writers : pc'[w] # "idle" => pc[w] # "idle" /\ job'[w].name = job[w].name
      PROVE  OwnNames'
  BY <1>2 DEF OwnNames
<1>3. ASSUME NEW r \in Readers, Access(r) PROVE OwnNames'
  <2>1. UNCHANGED writing
    BY <1>3, AccessKeepsWriters
  <2> QED
    BY <1>2, <2>1 DEF writing
<1>4. ASSUME NEW w \in Writers, Begin(w) PROVE OwnNames'
  <2> DEFINE p == ProcessOf[w]
  <2>1. p \in Processes /\ counter[p] \in Nat
    BY <1>1
  <2>2. /\ pc'[w] = "open" /\ \A v \in Writers \ {w} : pc'[v] = pc[v] /\ job'[v] = job[v]
        /\ job'[w].name = <<"partial", pid[p], counter[p]>>
        /\ pid' = pid /\ counter' = [counter EXCEPT ![p] = @ + 1]
    BY <1>4 DEF Begin, NameFor
  <2>3. ASSUME NEW v \in Writers \ {w}, pc[v] # "idle" PROVE job[v].name # job'[w].name
    <3>1. PICK c \in Nat : c < counter[ProcessOf[v]] /\ job[v].name = <<"partial", pid[ProcessOf[v]], c>>
      BY <2>3 DEF OwnNames
    <3>2. ASSUME job[v].name = job'[w].name PROVE FALSE
      <4>1. pid[ProcessOf[v]] = pid[p] /\ c = counter[p]
        BY <2>2, <3>1, <3>2, PartialNames
      <4>2. ProcessOf[v] = p
        BY <1>1, <4>1 DEF OwnNames
      <4> QED
        BY <2>1, <3>1, <4>1, <4>2
    <3> QED
      BY <3>2
  <2>4. \A q \in Processes : counter'[q] \in Nat /\ counter'[q] >= counter[q] /\ counter[p] < counter'[p]
    BY <2>1, <2>2
  <2>5. ASSUME NEW v \in Writers, pc'[v] # "idle"
        PROVE  \E c \in Nat : c < counter'[ProcessOf[v]] /\ job'[v].name = <<"partial", pid'[ProcessOf[v]], c>>
    <3>1. CASE v = w
      BY <2>1, <2>2, <2>4, <3>1
    <3>2. CASE v # w
      <4>1. PICK c \in Nat : c < counter[ProcessOf[v]] /\ job[v].name = <<"partial", pid[ProcessOf[v]], c>>
        BY <2>2, <2>5, <3>2 DEF OwnNames
      <4>2. c < counter'[ProcessOf[v]]
        BY <1>1, <2>4, <4>1
      <4> QED
        BY <2>2, <3>2, <4>1, <4>2
    <3> QED
      BY <3>1, <3>2
  <2>6. \A u, v \in Writers : u # v /\ pc'[u] # "idle" /\ pc'[v] # "idle" => job'[u].name # job'[v].name
    BY SMTT(60), <2>2, <2>3 DEF OwnNames
  <2> QED
    BY <2>2, <2>5, <2>6 DEF OwnNames
<1>5. ASSUME NEW w \in Writers, OpenPartial(w) PROVE OwnNames'
  <2>1. job[w] \in Jobs /\ \E file : job' = [job EXCEPT ![w].file = file]
    BY <1>5 DEF OpenPartial
  <2>2. \A v \in Writers : job'[v].name = job[v].name
    BY <2>1 DEF Jobs
  <2> QED
    BY <1>2, <1>5, <2>2 DEF OpenPartial
<1>6. ASSUME NEW w \in Writers, WriteChunk(w) PROVE OwnNames'
  BY <1>2, <1>6 DEF WriteChunk
<1>7. ASSUME NEW w \in Writers, Finish(w), UNCHANGED <<pid, counter>> PROVE OwnNames'
  BY <1>2, <1>7 DEF Finish
<1>8. ASSUME NEW w \in Writers, OpenFails(w) \/ WriteFails(w) \/ Publish(w) PROVE OwnNames'
  BY <1>7, <1>8 DEF OpenFails, WriteFails, Publish, GiveUp
<1>9. ASSUME NEW w \in Writers, RenameFails(w) PROVE OwnNames'
  <2>1. CASE job' = [job EXCEPT ![w].attempt = CountedTry(@)] /\ UNCHANGED pc
    <3>1. job[w] \in Jobs
      BY <1>9 DEF RenameFails
    <3>2. \A v \in Writers : job'[v].name = job[v].name
      BY <2>1, <3>1 DEF Jobs
    <3> QED
      BY <1>2, <1>9, <2>1, <3>2 DEF RenameFails
  <2> QED
    BY <1>7, <1>9, <2>1 DEF RenameFails, GiveUp
<1>10. ASSUME NEW p \in Processes, Crash(p) PROVE OwnNames'
  <2>1. PICK free \in Pids : (\A q \in Processes \ {p} : pid[q] # free) /\ pid' = [pid EXCEPT ![p] = free]
    BY <1>10 DEF Crash
  <2>2. \A q \in Processes \ {p} : pid'[q] = pid[q] /\ counter'[q] = counter[q] /\ pid'[p] # pid'[q]
    BY <1>10, <2>1 DEF Crash
  <2>3. \A w \in Writers : pc'[w] # "idle" => ProcessOf[w] # p /\ pc[w] # "idle" /\ job'[w] = job[w]
    BY <1>10 DEF Crash
  <2>4. \A w \in Writers : pc'[w] # "idle" =>
          /\ pid'[ProcessOf[w]] = pid[ProcessOf[w]] /\ counter'[ProcessOf[w]] = counter[ProcessOf[w]]
          /\ job'[w] = job[w] /\ pc[w] # "idle"
    BY <1>1, <2>2, <2>3
  <2>5. \A q, o \in Processes : pid'[q] = pid'[o] => q = o
    BY SMTT(60), <2>2 DEF OwnNames
  <2>6. ASSUME NEW w \in Writers, pc'[w] # "idle"
        PROVE  \E c \in Nat : c < counter'[ProcessOf[w]] /\ job'[w].name = <<"partial", pid'[ProcessOf[w]], c>>
    <3>1. PICK c \in Nat : c < counter[ProcessOf[w]] /\ job[w].name = <<"partial", pid[ProcessOf[w]], c>>
      BY <2>4, <2>6 DEF OwnNames
    <3> QED
      BY <2>4, <2>6, <3>1
  <2>7. \A u, v \in Writers : u # v /\ pc'[u] # "idle" /\ pc'[v] # "idle" => job'[u].name # job'[v].name
    BY <2>4 DEF OwnNames
  <2> QED
    BY <2>5, <2>6, <2>7 DEF OwnNames
<1>11. CASE UNCHANGED vars
  BY <1>2, <1>11 DEF vars, writing
<1> QED
  BY <1>3, <1>4, <1>5, <1>6, <1>8, <1>9, <1>10, <1>11 DEF Next, Write

-----------------------------------------------------------------------------
(* One step: files                                                         *)

\* A name that is not a writer's own leads to another file than the writer's.
LEMMA FilesApart ==
  ASSUME ArtifactInv, NEW w \in Writers, pc[w] \in {"write", "rename"},
         NEW n \in DOMAIN dir, n # job[w].name
  PROVE  dir[n] # job[w].file
BY DEF ArtifactInv, OwnFiles

\* The partial name of a writer that is alive is a name of its own, not the destination.
LEMMA OwnName ==
  ASSUME ArtifactInv, NEW w \in Writers, pc[w] # "idle"
  PROVE  job[w].name \in Names /\ job[w].name # Dest
BY PartialNames DEF ArtifactInv, Types, Jobs

\* Opening leads the writer to an empty file and everybody else to the file as it was.
LEMMA OpenFiles ==
  ASSUME ArtifactInv, NEW w \in Writers, OpenPartial(w)
  PROVE  LET name == job[w].name
             file == dir'[name]
         IN  /\ DOMAIN dir' = DOMAIN dir \cup {name}
             /\ \A n \in DOMAIN dir : dir'[n] = dir[n]
             /\ job'[w].file = file /\ job'[w].name = name /\ job'[w].plan = job[w].plan
             /\ \A v \in Writers \ {w} : job'[v] = job[v] /\ pc'[v] = pc[v]
             /\ pc'[w] = "write" /\ files'[file] = <<>>
             /\ \A i \in 1 .. Len(files) : i # file => files'[i] = files[i]
             /\ \A n \in DOMAIN dir : n # name => dir[n] # file
             /\ Len(files') >= Len(files)
             /\ name \notin DOMAIN dir => file = Len(files) + 1
<1> USE DEF ArtifactInv, Types
<1> DEFINE name == job[w].name
           file == IF name \in DOMAIN dir THEN dir[name] ELSE Len(files) + 1
<1>1. job[w] \in Jobs /\ file \in Nat
  BY DEF OpenPartial
<1>2. DOMAIN dir' = DOMAIN dir \cup {name} /\ \A n \in DOMAIN dir' : dir'[n] = IF n = name THEN file ELSE dir[n]
  BY DEF OpenPartial
<1>3. job' = [job EXCEPT ![w].file = file] /\ pc' = [pc EXCEPT ![w] = "write"]
  BY DEF OpenPartial
<1>4. job'[w].file = file /\ job'[w].name = name /\ job'[w].plan = job[w].plan
  BY <1>1, <1>3 DEF Jobs
<1>5. \A v \in Writers \ {w} : job'[v] = job[v] /\ pc'[v] = pc[v]
  BY <1>3
<1>6. files' = IF name \in DOMAIN dir THEN [files EXCEPT ![file] = <<>>] ELSE Append(files, <<>>)
  BY DEF OpenPartial
<1>7. /\ files'[file] = <<>> /\ \A i \in 1 .. Len(files) : i # file => files'[i] = files[i]
      /\ Len(files') >= Len(files)
  BY <1>6
<1>8. \A n \in DOMAIN dir : n # name => dir[n] # file
  BY DEF OwnFiles
<1>9. \A n \in DOMAIN dir : dir'[n] = dir[n]
  BY <1>2
<1>10. dir'[name] = file /\ pc'[w] = "write"
  BY <1>2, <1>3
<1> HIDE DEF file
<1>11. name \notin DOMAIN dir => file = Len(files) + 1
  BY DEF file
<1> QED
  BY <1>2, <1>4, <1>5, <1>7, <1>8, <1>9, <1>10, <1>11

\* Writing a chunk adds it to the writer's file and changes no other.
LEMMA ChunkFiles ==
  ASSUME ArtifactInv, NEW w \in Writers, WriteChunk(w)
  PROVE  LET old == files[job[w].file]
             new == files'[job[w].file]
         IN  /\ job[w].file \in 1 .. Len(files) /\ job[w].plan \in Plans
             /\ Len(new) = Len(old) + 1 /\ Len(old) \in Nat
             /\ \A i \in 1 .. Len(new) : new[i] = job[w].plan
             /\ \A i \in 1 .. Len(files) : i # job[w].file => files'[i] = files[i]
             /\ Len(files') = Len(files)
             /\ pc'[w] = IF Len(new) < Length[job[w].plan] THEN "write" ELSE "rename"
             /\ \A v \in Writers \ {w} : pc'[v] = pc[v]
<1> USE DEF ArtifactInv, Types
<1>1. job[w].file \in 1 .. Len(files) /\ job[w].plan \in Plans
  BY DEF WriteChunk, OwnFiles, Jobs
<1>2. files[job[w].file] \in Seq(Plans)
  BY <1>1
<1>3. files' = [files EXCEPT ![job[w].file] = Append(files[job[w].file], job[w].plan)]
  BY DEF WriteChunk
<1>4. files'[job[w].file] = Append(files[job[w].file], job[w].plan)
  BY <1>1, <1>3
<1>5. Len(files'[job[w].file]) = Len(files[job[w].file]) + 1 /\ Len(files[job[w].file]) \in Nat
  BY <1>2, <1>4
<1>6. \A i \in 1 .. Len(files[job[w].file]) : files[job[w].file][i] = job[w].plan
  BY DEF WriteChunk, OwnFiles
<1>7. \A i \in 1 .. Len(files'[job[w].file]) : files'[job[w].file][i] = job[w].plan
  BY <1>2, <1>4, <1>6
<1>8. Len(files') = Len(files) /\ \A i \in 1 .. Len(files) : i # job[w].file => files'[i] = files[i]
  BY <1>1, <1>3
<1>9. /\ pc'[w] = IF Len(files'[job[w].file]) < Length[job[w].plan] THEN "write" ELSE "rename"
      /\ \A v \in Writers \ {w} : pc'[v] = pc[v]
  BY <1>4 DEF WriteChunk
<1> QED
  BY <1>1, <1>5, <1>7, <1>8, <1>9

\* What is renamed is complete.
LEMMA RenamedIsComplete ==
  ASSUME ArtifactInv, NEW w \in Writers, pc[w] = "rename"
  PROVE  job[w].plan \in Plans /\ files[job[w].file] = Complete(job[w].plan)
<1>1. job[w].plan \in Plans /\ job[w].file \in 1 .. Len(files)
  BY DEF ArtifactInv, Types, OwnFiles, Jobs
<1>2. files[job[w].file] \in Seq(Plans)
  BY <1>1 DEF ArtifactInv, Types
<1>3. /\ Len(files[job[w].file]) = Length[job[w].plan]
      /\ \A i \in 1 .. Len(files[job[w].file]) : files[job[w].file][i] = job[w].plan
  BY DEF ArtifactInv, OwnFiles
<1> QED
  BY <1>1, <1>2, <1>3, AllChunks

\* Publishing leads the destination to the writer's file and frees the partial name.
LEMMA PublishedEntry ==
  ASSUME ArtifactInv, NEW w \in Writers, Publish(w)
  PROVE  /\ DOMAIN dir' = (DOMAIN dir \ {job[w].name}) \cup {Dest}
         /\ dir'[Dest] = job[w].file
         /\ \A n \in DOMAIN dir' \ {Dest} : n \in DOMAIN dir \ {job[w].name} /\ dir'[n] = dir[n]
         /\ dir[job[w].name] = job[w].file /\ pc[w] = "rename" /\ files' = files
<1>1. dir[job[w].name] = job[w].file /\ pc[w] = "rename" /\ files' = files
  BY DEF Publish, ArtifactInv, OwnFiles
<1>2. dir' = [n \in (DOMAIN dir \ {job[w].name}) \cup {Dest} |-> IF n = Dest THEN dir[job[w].name] ELSE dir[n]]
  BY DEF Publish, Without
<1> QED
  BY <1>1, <1>2

\* Files stay apart, written files stay a beginning of their plan, and the destination complete.
LEMMA NextFiles ==
  ASSUME ArtifactInv, [Next]_vars PROVE OwnFiles'
<1> USE DEF ArtifactInv, Types
\* Writers that end, and entries that are removed, disturb nothing.
<1>1. ASSUME UNCHANGED files, DOMAIN dir' \subseteq DOMAIN dir, \A n \in DOMAIN dir' : dir'[n] = dir[n],
             \A v \in Writers : pc'[v] \in {"write", "rename"} =>
               pc'[v] = pc[v] /\ job'[v].plan = job[v].plan /\ job'[v].name = job[v].name
               /\ job'[v].file = job[v].file /\ job[v].name \in DOMAIN dir'
      PROVE  OwnFiles'
  <2>1. \A m, n \in DOMAIN dir' : dir'[m] = dir'[n] => m = n
    BY <1>1 DEF OwnFiles
  <2>2. DestinationComplete'
    BY <1>1 DEF OwnFiles, DestinationComplete
  <2>3. \A v \in Writers : pc'[v] \in {"write", "rename"} =>
          /\ job'[v].name \in DOMAIN dir' /\ dir'[job'[v].name] = job'[v].file
          /\ \A i \in 1 .. Len(files'[job'[v].file]) : files'[job'[v].file][i] = job'[v].plan
          /\ pc'[v] = "write" => Len(files'[job'[v].file]) < Length[job'[v].plan]
          /\ pc'[v] = "rename" => Len(files'[job'[v].file]) = Length[job'[v].plan]
    <3> TAKE v \in Writers
    <3> HAVE pc'[v] \in {"write", "rename"}
    <3>1. /\ pc'[v] = pc[v] /\ job'[v].plan = job[v].plan /\ job'[v].name = job[v].name
          /\ job'[v].file = job[v].file /\ job[v].name \in DOMAIN dir' /\ files' = files
      BY <1>1
    <3>2. dir'[job[v].name] = dir[job[v].name]
      BY <1>1, <3>1
    <3> QED
      BY <3>1, <3>2 DEF OwnFiles
  <2> QED
    BY <2>1, <2>2, <2>3 DEF OwnFiles
<1>2. ASSUME UNCHANGED disk,
             \A v \in Writers : pc'[v] \in {"write", "rename"} => pc'[v] = pc[v] /\ job'[v] = job[v]
      PROVE  OwnFiles'
  <2>1. UNCHANGED <<dir, files>>
    BY <1>2 DEF disk
  <2>2. \A v \in Writers : pc'[v] \in {"write", "rename"} => job[v].name \in DOMAIN dir
    BY <1>2 DEF OwnFiles
  <2> QED
    BY <1>1, <1>2, <2>1, <2>2
<1>3. ASSUME NEW w \in Writers, GiveUp(w), UNCHANGED files, pc[w] # "idle" PROVE OwnFiles'
  <2>1. /\ pc'[w] = "idle" /\ \A v \in Writers \ {w} : pc'[v] = pc[v] /\ job'[v] = job[v]
        /\ DOMAIN dir' = DOMAIN dir \ {job[w].name} /\ \A n \in DOMAIN dir' : dir'[n] = dir[n]
    BY <1>3 DEF GiveUp, Finish, Without
  <2>2. \A v \in Writers \ {w} : pc[v] \in {"write", "rename"} => job[v].name \in DOMAIN dir'
    BY <1>3, <2>1 DEF OwnFiles, OwnNames
  <2> QED
    BY <1>1, <1>3, <2>1, <2>2
<1>4. ASSUME NEW r \in Readers, Access(r) PROVE OwnFiles'
  BY <1>2, <1>4, AccessKeepsWriters DEF writing
<1>5. ASSUME NEW w \in Writers, Begin(w) PROVE OwnFiles'
  BY <1>2, <1>5 DEF Begin
<1>6. ASSUME NEW w \in Writers, OpenFails(w) PROVE OwnFiles'
  BY <1>2, <1>6 DEF OpenFails, Finish
<1>7. ASSUME NEW w \in Writers, WriteFails(w) PROVE OwnFiles'
  BY <1>3, <1>7 DEF WriteFails
<1>8. ASSUME NEW w \in Writers, RenameFails(w) PROVE OwnFiles'
  <2>1. CASE job' = [job EXCEPT ![w].attempt = CountedTry(@)] /\ UNCHANGED <<dir, pc>>
    <3>1. job[w] \in Jobs /\ UNCHANGED files
      BY <1>8 DEF RenameFails
    <3>2. \A v \in Writers : job'[v].plan = job[v].plan /\ job'[v].name = job[v].name /\ job'[v].file = job[v].file
      BY <2>1, <3>1 DEF Jobs
    <3>3. \A v \in Writers : pc[v] \in {"write", "rename"} => job[v].name \in DOMAIN dir
      BY DEF OwnFiles
    <3> QED
      BY <1>1, <2>1, <3>1, <3>2, <3>3
  <2> QED
    BY <1>3, <1>8, <2>1 DEF RenameFails
<1>9. ASSUME NEW p \in Processes, Crash(p) PROVE OwnFiles'
  BY <1>2, <1>9 DEF Crash
<1>10. CASE UNCHANGED vars
  BY <1>2, <1>10 DEF vars, writing
<1>11. ASSUME NEW w \in Writers, OpenPartial(w) PROVE OwnFiles'
  <2> DEFINE name == job[w].name
             file == dir'[name]
  <2>1. /\ DOMAIN dir' = DOMAIN dir \cup {name}
        /\ \A n \in DOMAIN dir : dir'[n] = dir[n]
        /\ job'[w].file = file /\ job'[w].name = name /\ job'[w].plan = job[w].plan
        /\ \A v \in Writers \ {w} : job'[v] = job[v] /\ pc'[v] = pc[v]
        /\ pc'[w] = "write" /\ files'[file] = <<>>
        /\ \A i \in 1 .. Len(files) : i # file => files'[i] = files[i]
        /\ \A n \in DOMAIN dir : n # name => dir[n] # file
        /\ name \notin DOMAIN dir => file = Len(files) + 1
    BY <1>11, OpenFiles
  <2>2. pc[w] = "open" /\ name # Dest /\ job[w].plan \in Plans
    BY <1>11, OwnName DEF OpenPartial, Jobs
  <2> HIDE DEF file, name
  <2>3. \A m, n \in DOMAIN dir' : dir'[m] = dir'[n] => m = n
    <3>1. \A n \in DOMAIN dir' : n # name => n \in DOMAIN dir /\ dir'[n] = dir[n] /\ dir'[n] # file
      BY <2>1
    <3>2. dir'[name] = file
      BY DEF file
    <3> QED
      BY <3>1, <3>2 DEF OwnFiles
  <2>4. DestinationComplete'
    <3>1. Dest \in DOMAIN dir' => Dest \in DOMAIN dir /\ dir'[Dest] = dir[Dest] /\ dir[Dest] # file
      BY <2>1, <2>2
    <3>2. Dest \in DOMAIN dir' => files'[dir'[Dest]] = files[dir[Dest]]
      BY <2>1, <3>1
    <3> QED
      BY <3>1, <3>2 DEF OwnFiles, DestinationComplete
  <2>5. ASSUME NEW v \in Writers \ {w}, pc'[v] \in {"write", "rename"}
        PROVE  /\ job'[v].name \in DOMAIN dir' /\ dir'[job'[v].name] = job'[v].file
               /\ \A i \in 1 .. Len(files'[job'[v].file]) : files'[job'[v].file][i] = job'[v].plan
               /\ pc'[v] = "write" => Len(files'[job'[v].file]) < Length[job'[v].plan]
               /\ pc'[v] = "rename" => Len(files'[job'[v].file]) = Length[job'[v].plan]
    <3>1. pc[v] \in {"write", "rename"} /\ pc'[v] = pc[v] /\ job'[v] = job[v]
      BY <2>1, <2>5
    <3>2. job[v].name \in DOMAIN dir /\ dir[job[v].name] = job[v].file
      BY <3>1 DEF OwnFiles
    <3>3. job[v].name # name
      BY <2>2, <3>1 DEF OwnNames, name
    <3>4. files'[job[v].file] = files[job[v].file]
      BY <2>1, <3>2, <3>3
    <3> QED
      BY <2>1, <3>1, <3>2, <3>4 DEF OwnFiles
  <2>6. Len(files'[file]) = 0 /\ Length[job[w].plan] > 0
    BY <2>1, <2>2, FirstChunk
  <2>7. /\ job'[w].name \in DOMAIN dir' /\ dir'[job'[w].name] = job'[w].file
        /\ \A i \in 1 .. Len(files'[job'[w].file]) : files'[job'[w].file][i] = job'[w].plan
        /\ Len(files'[job'[w].file]) < Length[job'[w].plan]
    BY <2>1, <2>2, <2>6, FirstChunk DEF file
  <2> QED
    BY <2>1, <2>3, <2>4, <2>5, <2>7 DEF OwnFiles
<1>12. ASSUME NEW w \in Writers, WriteChunk(w) PROVE OwnFiles'
  <2> DEFINE file == job[w].file
             new == files'[file]
  <2>1. /\ file \in 1 .. Len(files) /\ job[w].plan \in Plans
        /\ Len(new) = Len(files[file]) + 1 /\ Len(files[file]) \in Nat
        /\ \A i \in 1 .. Len(new) : new[i] = job[w].plan
        /\ \A i \in 1 .. Len(files) : i # file => files'[i] = files[i]
        /\ pc'[w] = IF Len(new) < Length[job[w].plan] THEN "write" ELSE "rename"
        /\ \A v \in Writers \ {w} : pc'[v] = pc[v]
    BY <1>12, ChunkFiles
  <2>2. UNCHANGED <<dir, job>> /\ pc[w] = "write"
    BY <1>12 DEF WriteChunk
  <2>3. \A m, n \in DOMAIN dir' : dir'[m] = dir'[n] => m = n
    BY <2>2 DEF OwnFiles
  <2>4. DestinationComplete'
    <3>1. Dest \in DOMAIN dir => dir[Dest] # file
      BY <2>2, FilesApart, OwnName
    <3>2. Dest \in DOMAIN dir => files'[dir[Dest]] = files[dir[Dest]]
      BY <2>1, <3>1
    <3> QED
      BY <2>2, <3>2 DEF OwnFiles, DestinationComplete
  <2>5. Len(files[file]) < Length[job[w].plan] /\ Length[job[w].plan] \in Nat
    BY <2>1, <2>2, FirstChunk DEF OwnFiles
  <2>6. ASSUME NEW v \in Writers \ {w}, pc'[v] \in {"write", "rename"}
        PROVE  /\ job'[v].name \in DOMAIN dir' /\ dir'[job'[v].name] = job'[v].file
               /\ \A i \in 1 .. Len(files'[job'[v].file]) : files'[job'[v].file][i] = job'[v].plan
               /\ pc'[v] = "write" => Len(files'[job'[v].file]) < Length[job'[v].plan]
               /\ pc'[v] = "rename" => Len(files'[job'[v].file]) = Length[job'[v].plan]
    <3>1. pc[v] \in {"write", "rename"} /\ pc'[v] = pc[v] /\ job'[v] = job[v]
      BY <2>1, <2>2, <2>6
    <3>2. job[v].name \in DOMAIN dir /\ dir[job[v].name] = job[v].file
      BY <3>1 DEF OwnFiles
    <3>3. job[v].file # file
      BY <2>2, <3>1, <3>2, FilesApart DEF OwnNames
    <3>4. files'[job[v].file] = files[job[v].file]
      BY <2>1, <3>2, <3>3
    <3> QED
      BY <2>2, <3>1, <3>2, <3>4 DEF OwnFiles
  <2>7. job[w].name \in DOMAIN dir /\ dir[job[w].name] = file
    BY <2>2 DEF OwnFiles
  <2>8. pc'[w] = "rename" => Len(new) = Length[job[w].plan]
    <3> HIDE DEF new, file
    <3> QED
      BY <2>1, <2>5
  <2>9. pc'[w] = "write" => Len(new) < Length[job[w].plan]
    BY <2>1
  <2>10. /\ job'[w].name \in DOMAIN dir' /\ dir'[job'[w].name] = job'[w].file
         /\ \A i \in 1 .. Len(files'[job'[w].file]) : files'[job'[w].file][i] = job'[w].plan
         /\ pc'[w] = "write" => Len(files'[job'[w].file]) < Length[job'[w].plan]
         /\ pc'[w] = "rename" => Len(files'[job'[w].file]) = Length[job'[w].plan]
    BY <2>1, <2>2, <2>7, <2>8, <2>9
  <2> QED
    BY <2>3, <2>4, <2>6, <2>10 DEF OwnFiles
<1>13. ASSUME NEW w \in Writers, Publish(w) PROVE OwnFiles'
  <2> DEFINE name == job[w].name
             file == job[w].file
  <2>1. /\ DOMAIN dir' = (DOMAIN dir \ {name}) \cup {Dest}
        /\ dir'[Dest] = file
        /\ \A n \in DOMAIN dir' \ {Dest} : n \in DOMAIN dir \ {name} /\ dir'[n] = dir[n]
        /\ pc[w] = "rename" /\ files' = files
    BY <1>13, PublishedEntry
  <2>2. /\ pc'[w] = "idle" /\ \A v \in Writers \ {w} : pc'[v] = pc[v] /\ job'[v] = job[v]
    BY <1>13 DEF Publish, Finish
  <2>3. DestinationComplete'
    BY <2>1, RenamedIsComplete DEF DestinationComplete
  <2>4. \A n \in DOMAIN dir' \ {Dest} : dir'[n] # file
    BY <2>1, FilesApart
  <2>5. \A m, n \in DOMAIN dir' : dir'[m] = dir'[n] => m = n
    BY <2>1, <2>4 DEF OwnFiles
  <2>6. ASSUME NEW v \in Writers \ {w}, pc'[v] \in {"write", "rename"}
        PROVE  /\ job'[v].name \in DOMAIN dir' /\ dir'[job'[v].name] = job'[v].file
               /\ \A i \in 1 .. Len(files'[job'[v].file]) : files'[job'[v].file][i] = job'[v].plan
               /\ pc'[v] = "write" => Len(files'[job'[v].file]) < Length[job'[v].plan]
               /\ pc'[v] = "rename" => Len(files'[job'[v].file]) = Length[job'[v].plan]
    <3>1. pc[v] \in {"write", "rename"} /\ pc'[v] = pc[v] /\ job'[v] = job[v]
      BY <2>2, <2>6
    <3>2. job[v].name \in DOMAIN dir /\ job[v].name # name /\ job[v].name # Dest
      BY <2>1, <3>1, OwnName DEF OwnFiles, OwnNames
    <3> QED
      BY <2>1, <3>1, <3>2 DEF OwnFiles
  <2> QED
    BY <2>2, <2>3, <2>5, <2>6 DEF OwnFiles
<1> QED
  BY <1>4, <1>5, <1>6, <1>7, <1>8, <1>9, <1>10, <1>11, <1>12, <1>13 DEF Next, Write

-----------------------------------------------------------------------------
(* One step: readers and orphans                                           *)

\* A step of somebody else leaves readers right if it changes no file without a partial
\* name, gives no partial name to such a file, and publishes only what it shows.
LEMMA OthersKeepReaders ==
  ASSUME ArtifactInv, UNCHANGED <<reading, taken>>, Len(files') \in Nat, Len(files') >= Len(files),
         \A r \in Readers : shown[r] \subseteq shown'[r],
         \A i \in 1 .. Len(files) : (\A n \in DOMAIN dir \ {Dest} : dir[n] # i) =>
           files'[i] = files[i] /\ \A n \in DOMAIN dir' \ {Dest} : dir'[n] # i,
         \A r \in Readers : Current(dir', files') \subseteq Current(dir, files) \cup shown'[r]
  PROVE  ReaderInv'
<1> SUFFICES ASSUME NEW r \in Readers
             PROVE  /\ reading'[r].at \in {"stat", "open", "read"} => reading'[r].name = Dest
                    /\ reading'[r].at # "idle" => Current(dir', files') \subseteq shown'[r]
                    /\ reading'[r].at = "read" =>
                         /\ reading'[r].file \in 1 .. Len(files')
                         /\ \E plan \in shown'[r] : files'[reading'[r].file] = Complete(plan)
                         /\ \A n \in DOMAIN dir' \ {Dest} : dir'[n] # reading'[r].file
                    /\ reading'[r].at # "read" => reading'[r].file = 0
                    /\ taken'[r] \subseteq shown'[r]
  BY DEF ReaderInv
<1>1. Len(files) \in Nat
  BY DEF ArtifactInv, Types
<1>2. /\ reading[r].at \in {"stat", "open", "read"} => reading[r].name = Dest
      /\ reading[r].at # "idle" => Current(dir, files) \subseteq shown[r]
      /\ reading[r].at # "read" => reading[r].file = 0
      /\ taken[r] \subseteq shown[r]
  BY DEF ArtifactInv, ReaderInv
<1>3. ASSUME reading[r].at = "read"
      PROVE  /\ reading[r].file \in 1 .. Len(files')
             /\ \E plan \in shown'[r] : files'[reading[r].file] = Complete(plan)
             /\ \A n \in DOMAIN dir' \ {Dest} : dir'[n] # reading[r].file
  <2>1. /\ reading[r].file \in 1 .. Len(files)
        /\ \E plan \in shown[r] : files[reading[r].file] = Complete(plan)
        /\ \A n \in DOMAIN dir \ {Dest} : dir[n] # reading[r].file
    BY <1>3 DEF ArtifactInv, ReaderInv
  <2> QED
    BY <1>1, <2>1
<1> QED
  BY <1>2, <1>3

\* A writer's step or a crash leaves the readers right.
LEMMA OthersReaders ==
  ASSUME ArtifactInv, (\E w \in Writers : Write(w)) \/ (\E p \in Processes : Crash(p))
  PROVE  ReaderInv'
<1> USE DEF ArtifactInv, Types
<1>1. Len(files) \in Nat
  OBVIOUS
<1>2. ASSUME UNCHANGED <<files, reading, taken, shown>>, DOMAIN dir' \subseteq DOMAIN dir,
             \A n \in DOMAIN dir' : dir'[n] = dir[n]
      PROVE  ReaderInv'
  <2>1. Current(dir', files') \subseteq Current(dir, files)
    BY <1>2 DEF Current
  <2> QED
    BY <1>1, <1>2, <2>1, OthersKeepReaders
<1>3. ASSUME NEW w \in Writers, GiveUp(w) PROVE DOMAIN dir' \subseteq DOMAIN dir /\ \A n \in DOMAIN dir' : dir'[n] = dir[n]
  BY <1>3 DEF GiveUp, Without
<1>4. ASSUME NEW w \in Writers, Begin(w) \/ OpenFails(w) \/ WriteFails(w) \/ RenameFails(w) PROVE ReaderInv'
  <2>1. UNCHANGED <<files, reading, taken, shown>>
    BY <1>4 DEF Begin, OpenFails, WriteFails, RenameFails, disk
  <2>2. UNCHANGED dir \/ GiveUp(w)
    BY <1>4 DEF Begin, OpenFails, WriteFails, RenameFails, disk
  <2> QED
    BY <1>2, <1>3, <2>1, <2>2
<1>5. ASSUME NEW p \in Processes, Crash(p) PROVE ReaderInv'
  BY <1>2, <1>5 DEF Crash, disk
<1>6. ASSUME NEW w \in Writers, OpenPartial(w) PROVE ReaderInv'
  <2> DEFINE name == job[w].name
             file == dir'[name]
  <2>1. /\ DOMAIN dir' = DOMAIN dir \cup {name}
        /\ \A n \in DOMAIN dir : dir'[n] = dir[n]
        /\ \A i \in 1 .. Len(files) : i # file => files'[i] = files[i]
        /\ \A n \in DOMAIN dir : n # name => dir[n] # file
        /\ Len(files') >= Len(files)
        /\ name \notin DOMAIN dir => file = Len(files) + 1
    BY <1>6, OpenFiles
  <2>2. UNCHANGED <<reading, taken, shown>> /\ pc[w] = "open" /\ name # Dest
    BY <1>6, OwnName DEF OpenPartial
  <2>3. ASSUME NEW i \in 1 .. Len(files), \A n \in DOMAIN dir \ {Dest} : dir[n] # i
        PROVE  files'[i] = files[i] /\ \A n \in DOMAIN dir' \ {Dest} : dir'[n] # i
    <3>1. file # i
      <4>1. CASE name \in DOMAIN dir
        BY <2>1, <2>2, <2>3, <4>1
      <4>2. CASE name \notin DOMAIN dir
        BY <1>1, <2>1, <4>2
      <4> QED
        BY <4>1, <4>2
    <3> QED
      BY <2>1, <2>3, <3>1
  <2>4. Current(dir', files') \subseteq Current(dir, files)
    <3>1. Dest \in DOMAIN dir' => Dest \in DOMAIN dir /\ files'[dir'[Dest]] = files[dir[Dest]]
      BY <2>1, <2>2
    <3> QED
      BY <3>1 DEF Current
  <2>5. Len(files') \in Nat
    BY <1>6, WriteTypes DEF Write
  <2> QED
    BY <2>1, <2>2, <2>3, <2>4, <2>5, OthersKeepReaders
<1>7. ASSUME NEW w \in Writers, WriteChunk(w) PROVE ReaderInv'
  <2> DEFINE file == job[w].file
  <2>1. Len(files') = Len(files) /\ \A i \in 1 .. Len(files) : i # file => files'[i] = files[i]
    BY <1>7, ChunkFiles
  <2>2. UNCHANGED <<dir, reading, taken, shown>> /\ pc[w] = "write"
    BY <1>7 DEF WriteChunk
  <2>3. job[w].name \in DOMAIN dir \ {Dest} /\ dir[job[w].name] = file
    BY <2>2, OwnName DEF OwnFiles
  <2>4. Dest \in DOMAIN dir => dir[Dest] # file
    BY <2>2, FilesApart, OwnName
  <2>5. Current(dir', files') \subseteq Current(dir, files)
    BY <2>1, <2>2, <2>4 DEF Current
  <2> QED
    BY <1>1, <2>1, <2>2, <2>3, <2>5, OthersKeepReaders
<1>8. ASSUME NEW w \in Writers, Publish(w) PROVE ReaderInv'
  <2>1. /\ \A n \in DOMAIN dir' \ {Dest} : n \in DOMAIN dir /\ dir'[n] = dir[n]
        /\ UNCHANGED <<files, reading, taken>>
    BY <1>8, PublishedEntry DEF Publish
  <2>2. shown' = [r \in Readers |-> shown[r] \cup Current(dir', files)]
    BY <1>8 DEF Publish
  <2>3. \A r \in Readers : shown[r] \subseteq shown'[r] /\ Current(dir', files') \subseteq shown'[r]
    BY <2>1, <2>2
  <2> QED
    BY <1>1, <2>1, <2>3, OthersKeepReaders
<1> QED
  BY <1>4, <1>5, <1>6, <1>7, <1>8 DEF Write

\* What a reader may be: the conjuncts of ReaderInv for one reader.
ReaderRight(reader, seen, kept, d, f) ==
  /\ reader.at \in {"stat", "open", "read"} => reader.name = Dest
  /\ reader.at # "idle" => Current(d, f) \subseteq seen
  /\ reader.at = "read" =>
       /\ reader.file \in 1 .. Len(f)
       /\ \E plan \in seen : f[reader.file] = Complete(plan)
       /\ \A n \in DOMAIN d \ {Dest} : d[n] # reader.file
  /\ reader.at # "read" => reader.file = 0
  /\ kept \subseteq seen

\* A reader's step leaves the reader right: what it opens stands at the destination, and
\* what it reads is all of one plan, whatever size it was told before.
LEMMA AccessReaders ==
  ASSUME ArtifactInv, NEW r \in Readers, Access(r) PROVE ReaderInv'
<1> USE DEF ArtifactInv, Types
<1>1. UNCHANGED <<dir, files>>
  BY AccessKeepsWriters DEF disk
<1>2. ReaderInv <=> \A x \in Readers : ReaderRight(reading[x], shown[x], taken[x], dir, files)
  BY DEF ReaderInv, ReaderRight
<1>3. ReaderInv' <=> \A x \in Readers : ReaderRight(reading'[x], shown'[x], taken'[x], dir', files')
  BY DEF ReaderInv, ReaderRight
<1>4. ASSUME \A x \in Readers \ {r} : UNCHANGED <<reading[x], shown[x], taken[x]>>,
             ReaderRight(reading'[r], shown'[r], taken'[r], dir, files)
      PROVE  ReaderInv'
  BY <1>1, <1>2, <1>3, <1>4
<1>5. ReaderRight(reading[r], shown[r], taken[r], dir, files)
  BY <1>2
<1>6. reading[r] \in ReaderStates
  OBVIOUS
<1>7. ASSUME NEW next \in ReaderStates, Move(r, next), taken' = taken,
             ReaderRight(next, shown[r], taken[r], dir, files)
      PROVE  ReaderInv'
  BY <1>4, <1>7 DEF Move
<1>8. ASSUME NEW names \in SUBSET (Names \cup {Dest}), Start(r, names) PROVE ReaderInv'
  <2>1. reading'[r].at = "next" /\ reading'[r].file = 0 /\ shown'[r] = Current(dir, files) /\ taken'[r] = {}
    BY <1>8 DEF Start, Idle
  <2>2. ReaderRight(reading'[r], shown'[r], taken'[r], dir, files)
    BY <2>1 DEF ReaderRight
  <2> QED
    BY <1>4, <1>8, <2>2 DEF Start
<1>9. CASE ReadPlan(r) \/ ScanDirectory(r)
  BY <1>8, <1>9 DEF ReadPlan, ScanDirectory
<1>10. CASE Turn(r)
  <2>1. PICK n \in reading[r].todo :
          Move(r, [reading[r] EXCEPT !.todo = @ \ {n}, !.name = n, !.at = IF IsPartial(n) THEN "next" ELSE "stat"])
    BY <1>10 DEF Turn
  <2> DEFINE next == [reading[r] EXCEPT !.todo = @ \ {n}, !.name = n, !.at = IF IsPartial(n) THEN "next" ELSE "stat"]
  <2>2. next \in ReaderStates /\ next.name = n /\ next.file = reading[r].file
        /\ next.at = IF IsPartial(n) THEN "next" ELSE "stat"
    BY <1>6 DEF ReaderStates
  <2>3. ReaderRight(next, shown[r], taken[r], dir, files)
    <3> HIDE DEF next
    <3> QED
      BY <1>5, <1>10, <2>2 DEF ReaderRight, IsPartial, Turn
  <2> QED
    BY <1>7, <1>10, <2>1, <2>2, <2>3 DEF Turn
<1>11. CASE Done(r)
  <2>1. Idle \in ReaderStates /\ Idle.at = "idle" /\ Idle.file = 0
    BY DEF Idle, ReaderStates
  <2>2. ReaderRight(Idle, shown[r], taken[r], dir, files)
    BY <1>5, <2>1 DEF ReaderRight
  <2> QED
    BY <1>7, <1>11, <2>1, <2>2 DEF Done
<1>12. CASE Stat(r)
  <2>1. CASE reading[r].name \in DOMAIN dir
    <3> DEFINE next == [reading[r] EXCEPT !.at = "open", !.size = Len(files[dir[reading[r].name]])]
    <3>1. Len(files[dir[reading[r].name]]) \in Nat
      BY <2>1
    <3>2. next \in ReaderStates /\ next.at = "open" /\ next.name = reading[r].name /\ next.file = reading[r].file
      BY <1>6, <3>1 DEF ReaderStates
    <3>3. ReaderRight(next, shown[r], taken[r], dir, files)
      <4> HIDE DEF next
      <4> QED
        BY <1>5, <1>12, <3>2 DEF ReaderRight, Stat
    <3> QED
      BY <1>7, <1>12, <2>1, <3>2, <3>3 DEF Stat
  <2>2. CASE reading[r].name \notin DOMAIN dir
    <3> DEFINE next == [reading[r] EXCEPT !.at = "next"]
    <3>1. next \in ReaderStates /\ next.at = "next" /\ next.file = reading[r].file
      BY <1>6 DEF ReaderStates
    <3>2. ReaderRight(next, shown[r], taken[r], dir, files)
      <4> HIDE DEF next
      <4> QED
        BY <1>5, <1>12, <3>1 DEF ReaderRight, Stat
    <3> QED
      BY <1>7, <1>12, <2>2, <3>1, <3>2 DEF Stat
  <2> QED
    BY <2>1, <2>2
<1>13. CASE Open(r)
  <2>1. CASE reading[r].name \in DOMAIN dir
    <3> DEFINE next == [reading[r] EXCEPT !.at = "read", !.file = dir[reading[r].name]]
    <3>1. reading[r].name = Dest /\ dir[Dest] \in 1 .. Len(files) /\ Current(dir, files) \subseteq shown[r]
      BY <1>5, <1>13, <2>1 DEF ReaderRight, Open
    <3>6. dir[Dest] \in Nat
      BY <3>1
    <3>2. next \in ReaderStates /\ next.at = "read" /\ next.name = Dest /\ next.file = dir[Dest]
      BY <1>6, <3>1, <3>6 DEF ReaderStates
    <3>3. \E plan \in shown[r] : files[dir[Dest]] = Complete(plan)
      BY <2>1, <3>1 DEF OwnFiles, DestinationComplete, Current
    <3>4. \A n \in DOMAIN dir \ {Dest} : dir[n] # dir[Dest]
      BY <2>1, <3>1 DEF OwnFiles
    <3>5. ReaderRight(next, shown[r], taken[r], dir, files)
      <4> HIDE DEF next
      <4> QED
        BY <1>5, <3>1, <3>2, <3>3, <3>4 DEF ReaderRight
    <3> QED
      BY <1>7, <1>13, <2>1, <3>2, <3>5 DEF Open
  <2>2. CASE reading[r].name \notin DOMAIN dir
    <3> DEFINE next == [reading[r] EXCEPT !.at = "next"]
    <3>1. next \in ReaderStates /\ next.at = "next" /\ next.file = reading[r].file
      BY <1>6 DEF ReaderStates
    <3>2. ReaderRight(next, shown[r], taken[r], dir, files)
      <4> HIDE DEF next
      <4> QED
        BY <1>5, <1>13, <3>1 DEF ReaderRight, Open
    <3> QED
      BY <1>7, <1>13, <2>2, <3>1, <3>2 DEF Open
  <2> QED
    BY <2>1, <2>2
<1>14. CASE Read(r)
  <2> DEFINE contents == files[reading[r].file]
             size == reading[r].size
             bytes == SubSeq(contents, 1, size)
             next == [reading[r] EXCEPT !.at = "next", !.size = 0, !.file = 0]
  <2>1. PICK plan \in shown[r] : contents = Complete(plan)
    BY <1>5, <1>14 DEF ReaderRight, Read
  <2>2. plan \in Plans /\ size \in Nat
    BY <1>6 DEF ReaderStates
  <2>3. contents \in Seq(Plans) /\ Len(contents) \in Nat /\ contents[1] = plan
    BY <2>1, <2>2, FirstChunk
  <2>4. ASSUME Len(contents) >= size, Intact(bytes) PROVE bytes[1] = plan
    <3>1. PICK q \in Plans : bytes = Complete(q)
      BY <2>4 DEF Intact
    <3>2. Len(bytes) >= 1
      BY <3>1, FirstChunk
    <3> HIDE DEF contents, size
    <3>3. Len(bytes) = size
      BY <2>2, <2>3, <2>4
    <3>4. size >= 1
      BY <3>2, <3>3
    <3>5. bytes[1] = contents[1]
      BY <2>2, <2>3, <2>4, <3>4
    <3> QED
      BY <2>3, <3>5
  <2>5. taken'[r] \subseteq shown[r]
    <3>1. taken' = IF Len(contents) >= size /\ Intact(bytes)
                   THEN [taken EXCEPT ![r] = @ \cup {bytes[1]}] ELSE taken
      BY <1>14 DEF Read
    <3>2. taken[r] \subseteq shown[r]
      BY <1>5 DEF ReaderRight
    <3> HIDE DEF bytes, contents, size
    <3> QED
      BY <2>4, <3>1, <3>2
  <2>6. Move(r, next)
    BY <1>14 DEF Read
  <2>7. next.at = "next" /\ next.file = 0
    BY <1>6 DEF ReaderStates
  <2>8. ReaderRight(next, shown[r], taken'[r], dir, files)
    <3> HIDE DEF next
    <3> QED
      BY <1>5, <1>14, <2>5, <2>7 DEF ReaderRight, Read
  <2>9. \A x \in Readers \ {r} : taken'[x] = taken[x]
    BY <1>14 DEF Read
  <2> HIDE DEF next
  <2> QED
    BY <1>4, <2>6, <2>8, <2>9 DEF Move
<1> QED
  BY <1>9, <1>10, <1>11, <1>12, <1>13, <1>14 DEF Access

\* A partial name stays explained: a writer that ends takes its name away or hands it on
\* to the destination, and one that dies leaves an orphan.
LEMMA NextOrphans ==
  ASSUME ArtifactInv, [Next]_vars PROVE OrphansFromCrashes'
<1> USE DEF ArtifactInv, Types
<1>1. ASSUME NEW n \in DOMAIN dir \ {Dest}
      PROVE  n \in orphans \/ \E w \in Writers : pc[w] \in {"write", "rename"} /\ job[w].name = n
  BY <1>1 DEF OrphansFromCrashes
\* One writer at a time changes the directory; the others still explain their names.
<1>2. ASSUME NEW w \in Writers,
             \A v \in Writers \ {w} : pc[v] \in {"write", "rename"} => pc'[v] = pc[v] /\ job'[v].name = job[v].name,
             pc[w] \in {"write", "rename"} =>
               \/ pc'[w] \in {"write", "rename"} /\ job'[w].name = job[w].name
               \/ job[w].name \notin DOMAIN dir',
             \A n \in DOMAIN dir' \ {Dest} :
               \/ pc'[w] \in {"write", "rename"} /\ job'[w].name = n
               \/ n \in DOMAIN dir /\ (n \in orphans => n \in orphans')
      PROVE  OrphansFromCrashes'
  <2> SUFFICES ASSUME NEW n \in DOMAIN dir' \ {Dest},
                      ~(pc'[w] \in {"write", "rename"} /\ job'[w].name = n), n \notin orphans'
               PROVE  \E v \in Writers : pc'[v] \in {"write", "rename"} /\ job'[v].name = n
    BY DEF OrphansFromCrashes
  <2>1. n \in DOMAIN dir \ {Dest} /\ n \notin orphans
    BY <1>2
  <2>2. PICK v \in Writers : pc[v] \in {"write", "rename"} /\ job[v].name = n
    BY <1>1, <2>1
  <2>3. v # w
    BY <1>2, <2>2
  <2> QED
    BY <1>2, <2>2, <2>3
<1>3. ASSUME UNCHANGED <<dir, orphans>>,
             \A v \in Writers : pc[v] \in {"write", "rename"} => pc'[v] \in {"write", "rename"} /\ job'[v].name = job[v].name
      PROVE  OrphansFromCrashes'
  BY <1>3 DEF OrphansFromCrashes
<1>4. ASSUME NEW r \in Readers, Access(r) PROVE OrphansFromCrashes'
  BY <1>3, <1>4, AccessKeepsWriters DEF disk, writing
<1>5. ASSUME NEW w \in Writers, Begin(w) PROVE OrphansFromCrashes'
  <2>1. \A v \in Writers : pc[v] \in {"write", "rename"} => v # w
    BY <1>5 DEF Begin
  <2> QED
    BY <1>3, <1>5, <2>1 DEF Begin, disk
<1>6. ASSUME NEW w \in Writers, OpenFails(w) PROVE OrphansFromCrashes'
  <2>1. \A v \in Writers : pc[v] \in {"write", "rename"} => v # w
    BY <1>6 DEF OpenFails
  <2> QED
    BY <1>3, <1>6, <2>1 DEF OpenFails, Finish, disk
<1>7. ASSUME NEW w \in Writers, OpenPartial(w) PROVE OrphansFromCrashes'
  <2> DEFINE name == job[w].name
  <2>1. /\ DOMAIN dir' = DOMAIN dir \cup {name} /\ job'[w].name = name /\ pc'[w] = "write"
        /\ \A v \in Writers \ {w} : job'[v] = job[v] /\ pc'[v] = pc[v]
    BY <1>7, OpenFiles
  <2>2. pc[w] = "open" /\ orphans' = orphans \ {name}
    BY <1>7 DEF OpenPartial
  <2> HIDE DEF name
  <2> QED
    BY <1>2, <2>1, <2>2
<1>8. ASSUME NEW w \in Writers, WriteChunk(w) PROVE OrphansFromCrashes'
  BY <1>3, <1>8 DEF WriteChunk
<1>9. ASSUME NEW w \in Writers, GiveUp(w), UNCHANGED orphans PROVE OrphansFromCrashes'
  <2>1. /\ DOMAIN dir' = DOMAIN dir \ {job[w].name}
        /\ \A v \in Writers \ {w} : job'[v] = job[v] /\ pc'[v] = pc[v]
    BY <1>9 DEF GiveUp, Finish, Without
  <2> QED
    BY <1>2, <1>9, <2>1
<1>10. ASSUME NEW w \in Writers, WriteFails(w) PROVE OrphansFromCrashes'
  BY <1>9, <1>10 DEF WriteFails
<1>11. ASSUME NEW w \in Writers, RenameFails(w) PROVE OrphansFromCrashes'
  <2>1. CASE job' = [job EXCEPT ![w].attempt = CountedTry(@)] /\ UNCHANGED <<dir, pc>>
    <3>1. job[w] \in Jobs /\ UNCHANGED orphans
      BY <1>11 DEF RenameFails
    <3>2. \A v \in Writers : job'[v].name = job[v].name
      BY <2>1, <3>1 DEF Jobs
    <3> QED
      BY <1>3, <2>1, <3>1, <3>2
  <2> QED
    BY <1>9, <1>11, <2>1 DEF RenameFails
<1>12. ASSUME NEW w \in Writers, Publish(w) PROVE OrphansFromCrashes'
  <2>1. /\ DOMAIN dir' = (DOMAIN dir \ {job[w].name}) \cup {Dest}
        /\ pc[w] = "rename"
    BY <1>12, PublishedEntry
  <2>2. job[w].name # Dest
    BY <2>1, OwnName
  <2>3. /\ orphans' = orphans /\ \A v \in Writers \ {w} : job'[v] = job[v] /\ pc'[v] = pc[v]
    BY <1>12 DEF Publish, Finish
  <2>4. job[w].name \notin DOMAIN dir'
    BY <2>1, <2>2
  <2> QED
    BY <1>2, <2>1, <2>3, <2>4
<1>13. ASSUME NEW p \in Processes, Crash(p) PROVE OrphansFromCrashes'
  <2> DEFINE dead == {w \in Writers : ProcessOf[w] = p /\ pc[w] # "idle"}
  <2>1. /\ dir' = dir /\ orphans' = orphans \cup ({job[w].name : w \in dead} \cap DOMAIN dir)
        /\ \A w \in Writers \ dead : pc'[w] = pc[w] /\ job'[w] = job[w]
    BY <1>13 DEF Crash, disk
  <2> HIDE DEF dead
  <2> SUFFICES ASSUME NEW n \in DOMAIN dir \ {Dest}, n \notin orphans'
               PROVE  \E w \in Writers : pc'[w] \in {"write", "rename"} /\ job'[w].name = n
    BY <2>1 DEF OrphansFromCrashes
  <2>2. PICK w \in Writers : pc[w] \in {"write", "rename"} /\ job[w].name = n
    BY <1>1, <2>1
  <2>3. w \notin dead
    BY <2>1, <2>2
  <2> QED
    BY <2>1, <2>2, <2>3
<1>14. CASE UNCHANGED vars
  BY <1>3, <1>14 DEF vars, disk, writing
<1> QED
  BY <1>4, <1>5, <1>6, <1>7, <1>8, <1>10, <1>11, <1>12, <1>13, <1>14 DEF Next, Write

-----------------------------------------------------------------------------
(* Theorems                                                                *)

\* However many processes write, crash and restart, the invariant holds.
THEOREM ArtifactInvariant == Spec => []ArtifactInv
<1>1. ArtifactInv /\ [Next]_vars => ArtifactInv'
  <2> SUFFICES ASSUME ArtifactInv, [Next]_vars PROVE ArtifactInv'
    OBVIOUS
  <2>1. CASE UNCHANGED vars
    <3>1. Types' /\ ReaderInv'
      BY <2>1 DEF vars, disk, writing, ArtifactInv, Types, ReaderInv, Current
    <3> QED
      BY <3>1, NextNames, NextFiles, NextOrphans DEF ArtifactInv
  <2>2. ASSUME NEW r \in Readers, Access(r) PROVE ArtifactInv'
    BY <2>2, AccessTypes, AccessReaders, NextNames, NextFiles, NextOrphans DEF ArtifactInv
  <2>3. ASSUME NEW w \in Writers, Write(w) PROVE ArtifactInv'
    BY <2>3, WriteTypes, OthersReaders, NextNames, NextFiles, NextOrphans DEF ArtifactInv
  <2>4. ASSUME NEW p \in Processes, Crash(p) PROVE ArtifactInv'
    BY <2>4, CrashTypes, OthersReaders, NextNames, NextFiles, NextOrphans DEF ArtifactInv
  <2> QED
    BY <2>1, <2>2, <2>3, <2>4 DEF Next
<1> QED
  BY InitArtifactInv, <1>1, PTL DEF Spec

\* Every entry leads to a file, and a writer that has opened its partial file has it for
\* itself, whatever process ids are used again (partial_path_for).
THEOREM ArtifactTypes == Spec => []TypeOK
BY ArtifactInvariant, InvImpliesTypeOK, PTL

\* What stands at the destination is the complete artifact of one plan (write_plan_artifact).
THEOREM NoPartialAtDestination == Spec => []DestinationComplete
<1>1. ArtifactInv => DestinationComplete
  BY DEF ArtifactInv, OwnFiles
<1> QED
  BY ArtifactInvariant, <1>1, PTL

\* A reader takes for a plan only what stood at the destination since it began
\* (read_plan_artifact, scan_plan_directory).
THEOREM ReadersSeePublished == Spec => []ReadsPublished
<1>1. ArtifactInv => ReadsPublished
  BY DEF ArtifactInv, ReaderInv, ReadsPublished
<1> QED
  BY ArtifactInvariant, <1>1, PTL

\* Partial files without a writer come from crashes only: a failed call leaves none.
THEOREM OnlyCrashesLeaveOrphans == Spec => []OrphansFromCrashes
<1>1. ArtifactInv => OrphansFromCrashes
  BY DEF ArtifactInv
<1> QED
  BY ArtifactInvariant, <1>1, PTL

=============================================================================
