-------------------------- MODULE FileWriterProofs --------------------------
(***************************************************************************)
(* What FileWriter guarantees for every number of files, names, workers,   *)
(* chunks, attempts, jobs and crashes.                                     *)
(***************************************************************************)
EXTENDS FileWriter, TLAPS

(***************************************************************************)
(* The contents of files.                                                  *)
(***************************************************************************)
\* Writing a chunk and syncing give a file.
LEMMA PutType ==
  ASSUME NEW c \in Content, NEW pos \in Nat, NEW f \in File
  PROVE  Put(c, pos, f) \in Content
<1> DEFINE len == IF pos < Len(c.data) THEN Len(c.data) ELSE pos + 1
           d   == [k \in 1..len |-> IF k = pos + 1 THEN f
                                    ELSE IF k <= Len(c.data) THEN c.data[k] ELSE None]
<1>1. c.data \in Seq(File \cup {None}) /\ c.synced \in Nat /\ Len(c.data) \in Nat
  BY DEF Content
<1>2. len \in Nat
  BY <1>1
<1>3. d \in [1..len -> File \cup {None}]
  BY <1>1, <1>2
<1>4. Put(c, pos, f) = [c EXCEPT !.data = d]
  BY DEF Put
<1> HIDE DEF len, d
<1>5. d \in Seq(File \cup {None})
  BY <1>2, <1>3
<1> QED
  BY <1>4, <1>5 DEF Content

LEMMA SyncType ==
  ASSUME NEW c \in Content
  PROVE  Sync(c) \in Content
BY DEF Sync, Content

\* The next chunk behind a prefix of a body gives the next prefix.
LEMMA PutNext ==
  ASSUME NEW c \in Content, NEW pos \in Nat, NEW f \in File,
         c.data = [k \in 1..pos |-> f]
  PROVE  Put(c, pos, f).data = [k \in 1..(pos + 1) |-> f]
<1>1. Len(c.data) = pos
  BY DEF Content
<1> QED
  BY <1>1 DEF Put, Content

\* A crash leaves a file where there was one.
LEMMA KeptType ==
  ASSUME NEW c \in Content \cup {None}, NEW d \in Kept(c)
  PROVE  d \in Content \cup {None} /\ (d = None <=> c = None)
<1>1. CASE c = None
  BY <1>1 DEF Kept
<1>2. CASE c \in Content
  <2>1. PICK k \in c.synced..Len(c.data) : d = [data |-> SubSeq(c.data, 1, k), synced |-> k]
    BY <1>2, FileWriterAssumption DEF Kept
  <2>2. c.data \in Seq(File \cup {None}) /\ k \in Nat /\ k <= Len(c.data)
    BY <1>2, <2>1 DEF Content
  <2>3. SubSeq(c.data, 1, k) \in Seq(File \cup {None})
    BY <2>2
  <2> QED
    BY <1>2, <2>1, <2>2, <2>3, FileWriterAssumption DEF Content
<1> QED
  BY <1>1, <1>2

\* And it leaves a whole body that is synced as it is.
LEMMA KeptSynced ==
  ASSUME NEW c \in Content, NEW f \in File, Synced(c, f), NEW d \in Kept(c)
  PROVE  Synced(d, f)
<1>1. c # None /\ c.data = [k \in 1..Chunks |-> f] /\ c.synced = Chunks /\ Chunks \in Nat
  BY FileWriterAssumption DEF Synced, Whole, Body
<1>2. Len(c.data) = Chunks
  BY <1>1 DEF Content
<1>3. d = [data |-> SubSeq(c.data, 1, Chunks), synced |-> Chunks]
  BY <1>1, <1>2 DEF Kept
<1>4. SubSeq(c.data, 1, Chunks) = c.data
  BY <1>1, <1>2 DEF Content
<1>5. d \in Content /\ d # None
  BY KeptType, <1>1
<1> QED
  BY <1>1, <1>3, <1>4, <1>5 DEF Synced, Whole, Body

(***************************************************************************)
(* Steps of one worker that touch no file: it may give up what it writes,  *)
(* change the status of its file, or take a job.                           *)
(***************************************************************************)
StatusStep(w) ==
  \A f \in File : status'[f] = "completed" =>
    status[f] = "completed" \/ (worker[w].at = "complete" /\ worker[w].file = f)

LocalStep(w) ==
  /\ worker' = [worker EXCEPT ![w] = worker'[w]]
  /\ worker'[w] \in WorkerRec
  /\ worker'[w].fd = "none"
  /\ worker'[w].at # "idle" => worker'[w].file \in File
  /\ worker'[w].at \in {"try", "open"} => worker'[w].pos = 0
  /\ worker'[w].at \notin {"copy", "rename", "complete"}
  /\ worker'[w].at \in Active <=> worker[w].at \in Active
  /\ worker[w].at \in Active => worker'[w].file = worker[w].file
  /\ jobs' \in 0..MaxJobs
  /\ status' \in [File -> FileStatus]
  /\ StatusStep(w)
  /\ nameOf' = nameOf /\ tmp' = tmp /\ final' = final
  /\ cancelled' = cancelled /\ crashes' = crashes /\ clash' = clash /\ left' = left

\* What Writing says of worker v, in the next state.
Writes(v) ==
  /\ Writers(NameFor(v))' = {v}
  /\ worker'[v].at = "copy" =>
       /\ worker'[v].fd = "tmp"
       /\ tmp'[NameFor(v)].data = [k \in 1..worker'[v].pos |-> worker'[v].file]
  /\ worker'[v].at = "rename" => Synced(tmp'[NameFor(v)], worker'[v].file)

\* Where the workers keep their names, Writing is shown for one worker after another.
LEMMA WritingNext ==
  ASSUME \A v \in Worker : NameFor(v)' = NameFor(v),
         \A v \in Worker :
           worker'[v].at \in Active /\ NameFor(v) \notin clash' => Writes(v)
  PROVE  Writing'
<1> SUFFICES ASSUME NEW v \in Worker, worker'[v].at \in Active, NameFor(v) \notin clash'
             PROVE  /\ Writers(NameFor(v))' = {v}
                    /\ worker'[v].at = "copy" =>
                         /\ worker'[v].fd = "tmp"
                         /\ tmp'[NameFor(v)].data = [k \in 1..worker'[v].pos |-> worker'[v].file]
                    /\ worker'[v].at = "rename" => Synced(tmp'[NameFor(v)], worker'[v].file)
  BY DEF Writing, Synced, Whole, Body
<1> QED
  BY DEF Writes

LEMMA LocalIInv ==
  ASSUME IInv, NEW w \in Worker, LocalStep(w)
  PROVE  IInv'
<1> USE DEF LocalStep, StatusStep
<1>1. worker \in [Worker -> WorkerRec]
  BY DEF IInv, TypeOK
<1>2. \A v \in Worker \ {w} : worker'[v] = worker[v]
  BY <1>1
<1>3. TypeOK'
  BY <1>1 DEF IInv, TypeOK
<1>4. Descriptors'
  BY <1>1, <1>2 DEF IInv, Descriptors, NameFor
<1>5. \A n : Writers(n)' = Writers(n)
  BY <1>1, <1>2 DEF Writers, NameFor
<1>6. Writing'
  <2> SUFFICES ASSUME NEW v \in Worker, worker'[v].at \in Active, NameFor(v)' \notin clash
               PROVE  /\ Writers(NameFor(v))' = {v}
                      /\ worker'[v].at = "copy" =>
                           /\ worker'[v].fd = "tmp"
                           /\ tmp[NameFor(v)'].data = [k \in 1..worker'[v].pos |-> worker'[v].file]
                      /\ worker'[v].at = "rename" => Synced(tmp[NameFor(v)'], worker'[v].file)
    BY DEF Writing, Synced, Whole, Body
  <2>1. worker[v].at \in Active /\ NameFor(v)' = NameFor(v)
    BY <1>2 DEF NameFor
  <2>2. v # w => worker'[v] = worker[v]
    BY <1>2
  <2>3. Writers(NameFor(v)) = {v} /\ Writers(NameFor(v)') = {v}
    BY <2>1 DEF IInv, Writing
  <2>4. Writers(NameFor(v))' = {v}
    BY <1>5, <2>1, <2>3
  <2>5. CASE v = w
    BY <2>4, <2>5
  <2>6. CASE v # w
    BY <2>1, <2>2, <2>4, <2>6 DEF IInv, Writing, NameFor
  <2> QED
    BY <2>5, <2>6
<1>7. FinalSynced'
  BY DEF IInv, FinalSynced, Synced, Whole, Body
<1>8. CompletedNamed'
  BY <1>1, <1>2 DEF IInv, CompletedNamed, NameFor
<1>9. NoLeftover'
  BY <1>5 DEF IInv, NoLeftover
<1> QED
  BY <1>3, <1>4, <1>6, <1>7, <1>8, <1>9 DEF IInv

\* What a failed attempt makes of a worker.
LEMMA FailedWorker ==
  ASSUME NEW ws \in [Worker -> WorkerRec], NEW w \in Worker, ws[w].file \in File
  PROVE  /\ Failed(w, ws) = [ws EXCEPT ![w] = Failed(w, ws)[w]]
         /\ Failed(w, ws)[w] \in WorkerRec
         /\ Failed(w, ws)[w].at \in {"try", "report"}
         /\ Failed(w, ws)[w].fd = "none" /\ Failed(w, ws)[w].pos = 0
         /\ Failed(w, ws)[w].file = ws[w].file
<1>1. ws[w] \in WorkerRec /\ Chunks \in Nat /\ Attempts \in Nat
  BY FileWriterAssumption
<1>2. CASE ws[w].attempt = Attempts
  <2> DEFINE new == [ws[w] EXCEPT !.at = "report", !.fd = "none", !.pos = 0]
  <2>1. /\ new \in WorkerRec /\ new.at = "report"
        /\ new.fd = "none" /\ new.pos = 0 /\ new.file = ws[w].file
    <3>1. "report" \in At /\ 0 \in 0..Chunks
      BY <1>1 DEF At
    <3> QED
      BY <1>1, <3>1 DEF WorkerRec
  <2>2. Failed(w, ws) = [ws EXCEPT ![w] = new]
    BY <1>2 DEF Failed
  <2> QED
    BY <2>1, <2>2
<1>3. CASE ws[w].attempt # Attempts
  <2> DEFINE new == [ws[w] EXCEPT !.at = "try", !.attempt = ws[w].attempt + 1,
                                  !.fd = "none", !.pos = 0]
  <2>1. /\ new.at = "try" /\ new.fd = "none" /\ new.pos = 0 /\ new.file = ws[w].file
        /\ new.attempt = ws[w].attempt + 1
    BY <1>1 DEF WorkerRec
  <2>2. ws[w].attempt + 1 \in 0..Attempts
    BY <1>1, <1>3 DEF WorkerRec
  <2>3. new \in WorkerRec
    <3>1. "try" \in At /\ 0 \in 0..Chunks
      BY <1>1 DEF At
    <3> QED
      BY <1>1, <2>2, <3>1 DEF WorkerRec
  <2>4. Failed(w, ws) = [ws EXCEPT ![w] = new]
    BY <1>3 DEF Failed
  <2> QED
    BY <2>1, <2>3, <2>4
<1> QED
  BY <1>2, <1>3

LEMMA LocalSteps ==
  ASSUME IInv, NEW w \in Worker,
         \/ Request(w) \/ OpenFails(w) \/ CopyFails(w) \/ RenameFails(w)
         \/ Complete(w) \/ CompleteFails(w) \/ Report(w) \/ \E f \in File : Take(w, f)
  PROVE  IInv'
<1>1. /\ worker \in [Worker -> WorkerRec] /\ worker[w] \in WorkerRec
      /\ jobs \in 0..MaxJobs /\ status \in [File -> FileStatus]
      /\ 0 \in 0..Attempts /\ 1 \in 0..Attempts /\ 0 \in 0..Chunks /\ MaxJobs \in Nat
  BY FileWriterAssumption DEF IInv, TypeOK
<1>2. /\ worker[w].at # "idle" => worker[w].file \in File
      /\ worker[w].at # "copy" => worker[w].fd = "none"
      /\ worker[w].at \in {"try", "open"} => worker[w].pos = 0
  BY DEF IInv, Descriptors
\* An attempt that fails outside writeFile, and one that goes on.
<1>3. ASSUME worker[w].at \in {"try", "open"},
             worker' = Failed(w, worker), KeepDisk, KeepStore,
             UNCHANGED <<nameOf, cancelled, crashes, left>>
      PROVE  IInv'
  <2>1. /\ worker'[w] \in WorkerRec /\ worker' = [worker EXCEPT ![w] = worker'[w]]
        /\ worker'[w].at \in {"try", "report"} /\ worker'[w].fd = "none" /\ worker'[w].pos = 0
        /\ worker'[w].file \in File
    BY <1>1, <1>2, <1>3, FailedWorker
  <2>2. /\ nameOf' = nameOf /\ tmp' = tmp /\ final' = final
        /\ cancelled' = cancelled /\ crashes' = crashes /\ clash' = clash /\ left' = left
        /\ jobs' = jobs /\ status' = status
    BY <1>3 DEF KeepDisk, KeepStore
  <2>4. StatusStep(w)
    BY <2>2 DEF StatusStep
  <2>3. worker'[w].at \notin Active /\ worker[w].at \notin Active
    BY <1>3, <2>1 DEF Active
  <2> LocalStep(w)
    BY <1>1, <2>1, <2>2, <2>3, <2>4 DEF LocalStep
  <2> QED
    BY LocalIInv
\* A worker that moves on and closes its descriptor.
<1>4. ASSUME NEW from, NEW to \in {"open", "report", "remove"},
             worker[w].at = from, from # "idle", from # "complete" \/ to = "report",
             to = "open" => from = "try",
             from \in Active <=> to \in Active,
             worker' = [worker EXCEPT ![w] = [@ EXCEPT !.at = to, !.fd = "none"]],
             KeepDisk, KeepStore, UNCHANGED <<nameOf, cancelled, crashes, left>>
      PROVE  IInv'
  <2>1. worker'[w] = [worker[w] EXCEPT !.at = to, !.fd = "none"]
    BY <1>1, <1>4
  <2>2. worker' = [worker EXCEPT ![w] = worker'[w]]
    BY <1>1, <1>4, <2>1
  <2>3. /\ worker'[w] \in WorkerRec /\ worker'[w].at = to /\ worker'[w].fd = "none"
        /\ worker'[w].file = worker[w].file /\ worker'[w].pos = worker[w].pos
    BY <1>1, <2>1 DEF WorkerRec, At
  <2>4. /\ nameOf' = nameOf /\ tmp' = tmp /\ final' = final
        /\ cancelled' = cancelled /\ crashes' = crashes /\ clash' = clash /\ left' = left
        /\ jobs' = jobs /\ status' = status
    BY <1>4 DEF KeepDisk, KeepStore
  <2>6. StatusStep(w)
    BY <2>4 DEF StatusStep
  <2>5. /\ worker'[w].at \notin {"copy", "rename", "complete", "idle"}
        /\ worker'[w].file \in File
        /\ worker'[w].at \in {"try", "open"} => worker'[w].pos = 0
        /\ worker'[w].at \in Active <=> worker[w].at \in Active
    BY <1>2, <1>4, <2>3
  <2> LocalStep(w)
    BY <1>1, <2>2, <2>3, <2>4, <2>5, <2>6 DEF LocalStep
  <2> QED
    BY LocalIInv
<1>5. ASSUME NEW to, worker[w].fd = "none"
      PROVE  Goto(w, to) = [worker EXCEPT ![w] = [@ EXCEPT !.at = to, !.fd = "none"]]
  BY <1>1, <1>5 DEF Goto, WorkerRec
\* A worker whose Handle returns.
<1>6. ASSUME worker[w].at \in {"complete", "report"}, worker' = Done(w),
             status' \in [File -> FileStatus],
             StatusStep(w), KeepDisk, UNCHANGED <<jobs, nameOf, cancelled, crashes, left>>
      PROVE  IInv'
  <2>1. worker'[w] = Idle /\ worker' = [worker EXCEPT ![w] = worker'[w]]
    BY <1>1, <1>6 DEF Done
  <2>2. worker'[w] \in WorkerRec /\ worker'[w].at = "idle" /\ worker'[w].fd = "none"
    BY <1>1, <2>1 DEF WorkerRec, At, Idle
  <2>3. /\ nameOf' = nameOf /\ tmp' = tmp /\ final' = final
        /\ cancelled' = cancelled /\ crashes' = crashes /\ clash' = clash /\ left' = left
        /\ jobs' = jobs
    BY <1>6 DEF KeepDisk
  <2>4. worker'[w].at \notin Active /\ worker[w].at \notin Active
    BY <1>6, <2>2 DEF Active
  <2> LocalStep(w)
    BY <1>1, <1>6, <2>1, <2>2, <2>3, <2>4 DEF LocalStep
  <2> QED
    BY LocalIInv
<1>7. CASE Request(w)
  <2>1. CASE WorkerStep(w, "try", Failed(w, worker))
    BY <1>3, <1>7, <2>1 DEF Request, WorkerStep
  <2>2. ASSUME NEW to \in {"open", "report"}, WorkerStep(w, "try", Goto(w, to)) PROVE IInv'
    BY <1>2, <1>4, <1>5, <1>7, <2>2 DEF Request, WorkerStep, Active
  <2> QED
    BY <1>7, <2>1, <2>2 DEF Request
<1>8. CASE OpenFails(w)
  BY <1>3, <1>8 DEF OpenFails, WorkerStep
<1>9. CASE CopyFails(w)
  BY <1>4, <1>9 DEF CopyFails, WorkerStep, Closed, Active
<1>10. CASE RenameFails(w)
  BY <1>2, <1>4, <1>5, <1>10 DEF RenameFails, WorkerStep, Active
<1>11. CASE CompleteFails(w)
  BY <1>2, <1>4, <1>5, <1>11 DEF CompleteFails, WorkerStep, Active
<1>12. CASE Complete(w)
  <2>1. status' \in [File -> FileStatus]
    BY <1>1, <1>12 DEF Complete, FileStatus
  <2>2. StatusStep(w)
    BY <1>1, <1>12 DEF Complete, WorkerStep, StatusStep
  <2> QED
    BY <1>6, <1>12, <2>1, <2>2 DEF Complete, WorkerStep, KeepDisk
<1>13. CASE Report(w)
  <2>1. status' \in [File -> FileStatus]
    BY <1>1, <1>13 DEF Report, FileStatus
  <2>2. StatusStep(w)
    <3>1. CASE status' = status
      BY <3>1 DEF StatusStep
    <3>2. CASE status' = [status EXCEPT ![worker[w].file] = "error"]
      BY <1>1, <3>2 DEF StatusStep
    <3> QED
      BY <1>13, <3>1, <3>2 DEF Report
  <2> QED
    BY <1>6, <1>13, <2>1, <2>2 DEF Report, WorkerStep, KeepDisk
<1>14. ASSUME NEW f \in File, Take(w, f) PROVE IInv'
  <2> DEFINE new == [Idle EXCEPT !.at = "try", !.file = f, !.attempt = 1]
  <2>1. worker[w].at = "idle" /\ worker'[w] = new /\ worker' = [worker EXCEPT ![w] = worker'[w]]
    BY <1>1, <1>14 DEF Take, WorkerStep
  <2>2. /\ new \in WorkerRec /\ new.at = "try" /\ new.fd = "none" /\ new.pos = 0
        /\ new.file = f
    BY <1>1 DEF WorkerRec, At, Idle
  <2>3. status' = [status EXCEPT ![f] = "downloading"] /\ "downloading" \in FileStatus
    BY <1>14 DEF Take, FileStatus
  <2>4. status' \in [File -> FileStatus] /\ StatusStep(w)
    BY <1>1, <2>3 DEF StatusStep
  <2>5. jobs' \in 0..MaxJobs
    <3>1. jobs' = jobs - 1 /\ jobs > 0
      BY <1>14 DEF Take
    <3> QED
      BY <1>1, <3>1
  <2>6. nameOf' = nameOf /\ tmp' = tmp /\ final' = final
        /\ cancelled' = cancelled /\ crashes' = crashes /\ clash' = clash /\ left' = left
    BY <1>14 DEF Take, WorkerStep, KeepDisk
  <2>7. worker'[w].at \notin Active /\ worker[w].at \notin Active
    BY <2>1, <2>2 DEF Active
  <2> HIDE DEF new
  <2> LocalStep(w)
    BY <1>1, <2>1, <2>2, <2>4, <2>5, <2>6, <2>7 DEF LocalStep
  <2> QED
    BY LocalIInv
<1> QED
  BY <1>7, <1>8, <1>9, <1>10, <1>11, <1>12, <1>13, <1>14

(***************************************************************************)
(* Steps of a worker on its temporary file.                                *)
(***************************************************************************)
\* What an active worker has; the facts every step below starts from.
LEMMA Facts ==
  ASSUME IInv
  PROVE  /\ worker \in [Worker -> WorkerRec] /\ nameOf \in [File -> Name]
         /\ tmp \in [Name -> Content \cup {None}] /\ final \in [Name -> Content \cup {None}]
         /\ \A v \in Worker :
              /\ worker[v] \in WorkerRec
              /\ worker[v].at # "idle" => worker[v].file \in File /\ NameFor(v) \in Name
              /\ worker[v].at # "copy" => worker[v].fd = "none"
              /\ worker[v].fd = "tmp" => tmp[NameFor(v)] \in Content
              /\ worker[v].fd = "final" => final[NameFor(v)] \in Content
         /\ [data |-> <<>>, synced |-> 0] \in Content
         /\ None \notin Content
<1>1. /\ worker \in [Worker -> WorkerRec] /\ nameOf \in [File -> Name]
      /\ tmp \in [Name -> Content \cup {None}] /\ final \in [Name -> Content \cup {None}]
      /\ None \notin Content
  BY FileWriterAssumption DEF IInv, TypeOK
<1>2. [data |-> <<>>, synced |-> 0] \in Content
  BY DEF Content
<1>3. ASSUME NEW v \in Worker
      PROVE  /\ worker[v] \in WorkerRec
             /\ worker[v].at # "idle" => worker[v].file \in File /\ NameFor(v) \in Name
             /\ worker[v].at # "copy" => worker[v].fd = "none"
             /\ worker[v].fd = "tmp" => tmp[NameFor(v)] \in Content
             /\ worker[v].fd = "final" => final[NameFor(v)] \in Content
  <2>1. worker[v] \in WorkerRec
    BY <1>1
  <2>2. /\ worker[v].at # "idle" => worker[v].file \in File
        /\ worker[v].at # "copy" => worker[v].fd = "none"
        /\ worker[v].fd = "tmp" => tmp[NameFor(v)] # None
        /\ worker[v].fd = "final" => final[NameFor(v)] # None
    BY DEF IInv, Descriptors
  <2>3. worker[v].at # "idle" => NameFor(v) \in Name
    BY <1>1, <2>2 DEF NameFor
  <2>4. worker[v].fd # "none" => NameFor(v) \in Name
    BY <2>2, <2>3
  <2> QED
    BY <1>1, <2>1, <2>2, <2>3, <2>4
<1> QED
  BY <1>1, <1>2, <1>3

LEMMA OpenIInv ==
  ASSUME IInv, NEW w \in Worker, Open(w)
  PROVE  IInv'
<1> DEFINE n     == NameFor(w)
           empty == [data |-> <<>>, synced |-> 0]
           r     == [worker[w] EXCEPT !.at = "copy", !.fd = "tmp"]
<1>1. /\ worker[w].at = "open" /\ worker' = [worker EXCEPT ![w] = r]
      /\ tmp' = [tmp EXCEPT ![n] = empty]
      /\ clash' = IF Writers(n) = {} THEN clash ELSE clash \cup {n}
      /\ final' = final /\ jobs' = jobs /\ status' = status
      /\ nameOf' = nameOf /\ cancelled' = cancelled /\ crashes' = crashes /\ left' = left
  BY DEF Open, WorkerStep, KeepStore
<1>2. /\ worker[w] \in WorkerRec /\ worker \in [Worker -> WorkerRec]
      /\ worker[w].file \in File /\ n \in Name /\ worker[w].pos = 0
      /\ tmp \in [Name -> Content \cup {None}] /\ empty \in Content /\ empty # None
  BY <1>1, Facts DEF IInv, Descriptors
<1>3. /\ r \in WorkerRec /\ r.at = "copy" /\ r.fd = "tmp" /\ r.file = worker[w].file /\ r.pos = 0
  BY <1>2 DEF WorkerRec, At
<1> HIDE DEF r, empty
<1>4. worker'[w] = r /\ \A v \in Worker \ {w} : worker'[v] = worker[v]
  BY <1>1, <1>2
<1>5. \A v \in Worker : NameFor(v)' = NameFor(v)
  BY <1>1, <1>3, <1>4 DEF NameFor
<1>6. tmp'[n] = empty /\ \A m \in Name \ {n} : tmp'[m] = tmp[m]
  BY <1>1, <1>2
<1>7. /\ \A m : m # n => Writers(m)' = Writers(m)
      /\ \A m : m = n => Writers(m)' = Writers(m) \cup {w}
  BY <1>1, <1>3, <1>4, <1>5 DEF Writers, Active, n
<1>8. clash \subseteq clash' /\ clash' \subseteq Name /\ (n \notin clash' => Writers(n) = {})
  BY <1>1, <1>2 DEF IInv, TypeOK
<1>9. TypeOK'
  <2>1. tmp' \in [Name -> Content \cup {None}]
    BY <1>1, <1>2
  <2>2. worker' \in [Worker -> WorkerRec]
    BY <1>1, <1>2, <1>3
  <2> QED
    BY <1>1, <1>8, <2>1, <2>2 DEF IInv, TypeOK
<1>10. Descriptors'
  <2> SUFFICES ASSUME NEW v \in Worker
               PROVE  /\ worker'[v].at # "idle" => worker'[v].file \in File
                      /\ worker'[v].at # "copy" => worker'[v].fd = "none"
                      /\ worker'[v].at \in {"try", "open"} => worker'[v].pos = 0
                      /\ worker'[v].fd = "tmp" => tmp'[NameFor(v)'] # None
                      /\ worker'[v].fd = "final" => final'[NameFor(v)'] # None
    BY DEF Descriptors
  <2>1. CASE v = w
    BY <1>2, <1>3, <1>4, <1>5, <1>6, <2>1
  <2>2. CASE v # w
    <3>1. worker'[v] = worker[v] /\ NameFor(v)' = NameFor(v)
      BY <1>4, <1>5, <2>2
    <3>2. worker[v].fd = "tmp" => tmp'[NameFor(v)] # None
      BY <1>2, <1>6, Facts
    <3> QED
      BY <1>1, <3>1, <3>2 DEF IInv, Descriptors
  <2> QED
    BY <2>1, <2>2
<1>11. Writing'
  <2> SUFFICES ASSUME NEW v \in Worker, worker'[v].at \in Active, NameFor(v) \notin clash'
               PROVE  Writes(v)
    BY <1>5, WritingNext
  <2> USE DEF Writes
  <2>1. CASE v = w
    <3>1. Writers(NameFor(v))' = {v}
      BY <1>5, <1>7, <1>8, <2>1
    <3>2. tmp'[NameFor(v)].data = [k \in 1..worker'[v].pos |-> worker'[v].file]
      <4>1. tmp'[NameFor(v)].data = <<>> /\ worker'[v].pos = 0
        BY <1>3, <1>4, <1>6, <2>1 DEF empty
      <4> QED
        BY <4>1
    <3> QED
      BY <1>3, <1>4, <2>1, <3>1, <3>2
  <2>2. CASE v # w
    <3>1. worker'[v] = worker[v] /\ v \in Writers(NameFor(v))
      BY <1>4, <2>2 DEF Writers
    <3>2. NameFor(v) # n
      BY <1>8, <3>1
    <3>3. NameFor(v) \in Name
      BY <3>1, Facts DEF Active
    <3>4. tmp'[NameFor(v)] = tmp[NameFor(v)] /\ NameFor(v) \notin clash
      BY <1>6, <1>8, <3>2, <3>3
    <3>5. Writers(NameFor(v))' = Writers(NameFor(v))
      BY <1>5, <1>7, <3>2
    <3> QED
      BY <3>1, <3>4, <3>5 DEF IInv, Writing
  <2> QED
    BY <2>1, <2>2
<1>12. FinalSynced'
  BY <1>1, <1>8 DEF IInv, FinalSynced, Synced, Whole, Body
<1>13. CompletedNamed'
  BY <1>1, <1>3, <1>4, <1>5 DEF IInv, CompletedNamed
<1>14. NoLeftover'
  <2> SUFFICES ASSUME crashes = 0, NEW m \in Name \ left, tmp'[m] # None
               PROVE  Writers(m)' # {}
    BY <1>1 DEF NoLeftover
  <2>1. CASE m = n
    <3>1. w \in Writers(m)'
      BY <1>7, <2>1
    <3> QED
      BY <3>1
  <2>2. CASE m # n
    <3>1. tmp[m] # None /\ Writers(m)' = Writers(m)
      BY <1>6, <1>7, <2>2
    <3> QED
      BY <3>1 DEF IInv, NoLeftover
  <2> QED
    BY <2>1, <2>2
<1> QED
  BY <1>9, <1>10, <1>11, <1>12, <1>13, <1>14 DEF IInv

\* A worker that writes c into the temporary file, or d into the final one, according
\* to where its descriptor leads, and goes on with r.
LEMMA WriteIInv ==
  ASSUME IInv, NEW w \in Worker, NEW r \in WorkerRec, NEW c, NEW d,
         worker[w].at = "copy", r.at \in {"copy", "rename"}, r.file = worker[w].file,
         r.fd = worker[w].fd \/ r.fd = "none", r.at = "rename" => r.fd = "none",
         r.at = "copy" => r.fd = worker[w].fd,
         worker' = [worker EXCEPT ![w] = r],
         worker[w].fd = "tmp" => c \in Content,
         worker[w].fd = "final" => d \in Content,
         tmp' = IF worker[w].fd = "tmp" THEN [tmp EXCEPT ![NameFor(w)] = c] ELSE tmp,
         final' = IF worker[w].fd = "final" THEN [final EXCEPT ![NameFor(w)] = d] ELSE final,
         worker[w].fd = "tmp" /\ NameFor(w) \notin clash =>
           /\ r.at = "copy" => c.data = [k \in 1..r.pos |-> r.file]
           /\ r.at = "rename" => Synced(c, r.file),
         nameOf' = nameOf, jobs' = jobs, status' = status,
         cancelled' = cancelled, crashes' = crashes, clash' = clash, left' = left
  PROVE  IInv'
<1> DEFINE n == NameFor(w)
<1>1. /\ worker \in [Worker -> WorkerRec] /\ worker[w].file \in File /\ n \in Name
      /\ tmp \in [Name -> Content \cup {None}] /\ final \in [Name -> Content \cup {None}]
      /\ worker[w].fd = "tmp" => tmp[n] # None
      /\ worker[w].fd = "final" => final[n] # None
      /\ worker[w].fd = "tmp" => c # None
      /\ worker[w].fd = "final" => d # None
  BY Facts
<1>2. worker'[w] = r /\ \A v \in Worker \ {w} : worker'[v] = worker[v]
  BY <1>1
<1>3. \A v \in Worker : NameFor(v)' = NameFor(v)
  BY <1>2 DEF NameFor
<1>4. /\ \A m \in Name \ {n} : tmp'[m] = tmp[m] /\ final'[m] = final[m]
      /\ worker[w].fd = "tmp" => tmp'[n] = c /\ final'[n] = final[n]
      /\ worker[w].fd = "final" => final'[n] = d
  BY <1>1
<1>5. \A m \in Name : (tmp'[m] = None <=> tmp[m] = None) /\ (final'[m] = None <=> final[m] = None)
  BY <1>1
<1>6. \A m : Writers(m)' = Writers(m)
  BY <1>2, <1>3 DEF Writers, Active
<1>7. n \notin clash => worker[w].fd = "tmp" /\ Writers(n) = {w}
  BY DEF IInv, Writing, Active
<1>8. TypeOK'
  <2>1. tmp' \in [Name -> Content \cup {None}] /\ final' \in [Name -> Content \cup {None}]
    BY <1>1
  <2>2. worker' \in [Worker -> WorkerRec]
    BY <1>1
  <2> QED
    BY <2>1, <2>2 DEF IInv, TypeOK
<1>9. Descriptors'
  <2> SUFFICES ASSUME NEW v \in Worker
               PROVE  /\ worker'[v].at # "idle" => worker'[v].file \in File
                      /\ worker'[v].at # "copy" => worker'[v].fd = "none"
                      /\ worker'[v].at \in {"try", "open"} => worker'[v].pos = 0
                      /\ worker'[v].fd = "tmp" => tmp'[NameFor(v)'] # None
                      /\ worker'[v].fd = "final" => final'[NameFor(v)'] # None
    BY DEF Descriptors
  <2>1. CASE v = w
    BY <1>1, <1>2, <1>3, <1>5, <2>1
  <2>2. CASE v # w
    <3>1. worker'[v] = worker[v] /\ NameFor(v)' = NameFor(v)
      BY <1>2, <1>3, <2>2
    <3>2. worker[v].fd # "none" => NameFor(v) \in Name
      BY Facts
    <3> QED
      BY <1>5, <3>1, <3>2 DEF IInv, Descriptors
  <2> QED
    BY <2>1, <2>2
<1>10. Writing'
  <2> SUFFICES ASSUME NEW v \in Worker, worker'[v].at \in Active, NameFor(v) \notin clash
               PROVE  Writes(v)
    BY <1>3, WritingNext
  <2> USE DEF Writes
  <2>1. CASE v = w
    <3>1. Writers(NameFor(v))' = {v}
      BY <1>3, <1>6, <1>7, <2>1
    <3> QED
      BY <1>2, <1>4, <1>7, <2>1, <3>1
  <2>2. CASE v # w
    <3>1. worker'[v] = worker[v] /\ v \in Writers(NameFor(v))
      BY <1>2, <2>2 DEF Writers
    <3>2. NameFor(v) # n
      BY <1>7, <2>2, <3>1
    <3>3. NameFor(v) \in Name
      BY <3>1, Facts DEF Active
    <3>4. tmp'[NameFor(v)] = tmp[NameFor(v)]
      BY <1>4, <3>2, <3>3
    <3>5. Writers(NameFor(v))' = Writers(NameFor(v))
      BY <1>3, <1>6
    <3> QED
      BY <3>1, <3>4, <3>5 DEF IInv, Writing
  <2> QED
    BY <2>1, <2>2
<1>11. FinalSynced'
  <2> SUFFICES ASSUME NEW m \in Name \ clash, final'[m] # None
               PROVE  \E f \in File : nameOf[f] = m /\ Synced(final'[m], f)
    BY DEF FinalSynced, Synced, Whole, Body
  <2>1. final'[m] = final[m]
    BY <1>4, <1>7
  <2> QED
    BY <2>1 DEF IInv, FinalSynced
<1>12. CompletedNamed'
  <2>1. ASSUME NEW v \in Worker, worker'[v].at = "complete" PROVE final'[NameFor(v)'] # None
    <3>1. worker[v].at = "complete" /\ NameFor(v)' = NameFor(v)
      BY <1>2, <1>3, <2>1
    <3>2. NameFor(v) \in Name /\ final[NameFor(v)] # None
      BY <3>1, Facts DEF IInv, CompletedNamed
    <3> QED
      BY <1>5, <3>1, <3>2
  <2>2. ASSUME NEW f \in File, status[f] = "completed" PROVE final'[nameOf[f]] # None
    BY <1>5, <2>2 DEF IInv, TypeOK, CompletedNamed
  <2> QED
    BY <2>1, <2>2 DEF CompletedNamed
<1>13. NoLeftover'
  <2> SUFFICES ASSUME crashes = 0, NEW m \in Name \ left, tmp'[m] # None
               PROVE  Writers(m)' # {}
    BY DEF NoLeftover
  <2> QED
    BY <1>5, <1>6 DEF IInv, NoLeftover
<1> QED
  BY <1>8, <1>9, <1>10, <1>11, <1>12, <1>13 DEF IInv

LEMMA CopyIInv ==
  ASSUME IInv, NEW w \in Worker, Copy(w)
  PROVE  IInv'
<1> DEFINE n == NameFor(w)
           r == [worker[w] EXCEPT !.pos = worker[w].pos + 1]
           c == Put(tmp[n], worker[w].pos, worker[w].file)
           d == Put(final[n], worker[w].pos, worker[w].file)
<1>1. /\ worker[w].at = "copy" /\ worker[w].pos < Chunks
      /\ worker' = [worker EXCEPT ![w].pos = @ + 1]
      /\ nameOf' = nameOf /\ jobs' = jobs /\ status' = status
      /\ cancelled' = cancelled /\ crashes' = crashes /\ clash' = clash /\ left' = left
  BY DEF Copy, WorkerStep, KeepStore
<1>2. /\ tmp' = IF worker[w].fd = "tmp" THEN [tmp EXCEPT ![n] = c] ELSE tmp
      /\ final' = IF worker[w].fd = "final" THEN [final EXCEPT ![n] = d] ELSE final
  BY DEF Copy
<1>3. /\ worker \in [Worker -> WorkerRec] /\ worker[w] \in WorkerRec /\ worker[w].file \in File
      /\ worker[w].fd = "tmp" => tmp[n] \in Content
      /\ worker[w].fd = "final" => final[n] \in Content
  BY <1>1, Facts
<1>4. worker[w].pos \in Nat /\ worker[w].pos + 1 \in 0..Chunks
  BY <1>1, <1>3, FileWriterAssumption DEF WorkerRec
<1>5. /\ r \in WorkerRec /\ r.at = "copy" /\ r.fd = worker[w].fd /\ r.file = worker[w].file
      /\ r.pos = worker[w].pos + 1
  BY <1>1, <1>3, <1>4 DEF WorkerRec
<1>6. worker' = [worker EXCEPT ![w] = r]
  BY <1>1
<1>7. /\ worker[w].fd = "tmp" => c \in Content
      /\ worker[w].fd = "final" => d \in Content
  BY <1>3, <1>4, PutType
<1>8. ASSUME worker[w].fd = "tmp", n \notin clash
      PROVE  c.data = [k \in 1..(worker[w].pos + 1) |-> worker[w].file]
  <2>1. tmp[n].data = [k \in 1..worker[w].pos |-> worker[w].file]
    BY <1>1, <1>8 DEF IInv, Writing, Active
  <2>2. tmp[n] \in Content /\ worker[w].pos \in Nat /\ worker[w].file \in File
    BY <1>3, <1>4, <1>8
  <2>3. Put(tmp[n], worker[w].pos, worker[w].file).data
          = [k \in 1..(worker[w].pos + 1) |-> worker[w].file]
    BY ONLY <2>1, <2>2, PutNext
  <2> QED
    BY <2>3
<1> HIDE DEF r, c, d
<1>9. worker[w].fd = "tmp" /\ n \notin clash =>
        /\ r.at = "copy" => c.data = [k \in 1..r.pos |-> r.file]
        /\ r.at = "rename" => Synced(c, r.file)
  BY <1>5, <1>8
<1> QED
  BY <1>1, <1>2, <1>5, <1>6, <1>7, <1>9, WriteIInv

LEMMA CloseIInv ==
  ASSUME IInv, NEW w \in Worker, Close(w)
  PROVE  IInv'
<1> DEFINE n == NameFor(w)
           r == [worker[w] EXCEPT !.at = "rename", !.fd = "none"]
           c == Sync(tmp[n])
           d == Sync(final[n])
<1>1. /\ worker[w].at = "copy" /\ worker[w].pos = Chunks
      /\ worker' = [worker EXCEPT ![w] = r]
      /\ nameOf' = nameOf /\ jobs' = jobs /\ status' = status
      /\ cancelled' = cancelled /\ crashes' = crashes /\ clash' = clash /\ left' = left
  BY DEF Close, Closed, WorkerStep, KeepStore
<1>2. /\ tmp' = IF worker[w].fd = "tmp" THEN [tmp EXCEPT ![n] = c] ELSE tmp
      /\ final' = IF worker[w].fd = "final" THEN [final EXCEPT ![n] = d] ELSE final
  BY DEF Close
<1>3. /\ worker \in [Worker -> WorkerRec] /\ worker[w] \in WorkerRec /\ worker[w].file \in File
      /\ worker[w].fd = "tmp" => tmp[n] \in Content
      /\ worker[w].fd = "final" => final[n] \in Content
  BY <1>1, Facts
<1>4. r \in WorkerRec /\ r.at = "rename" /\ r.fd = "none" /\ r.file = worker[w].file
  BY <1>3 DEF WorkerRec, At
<1>5. /\ worker[w].fd = "tmp" => c \in Content
      /\ worker[w].fd = "final" => d \in Content
  BY <1>3, SyncType
<1>6. ASSUME worker[w].fd = "tmp", n \notin clash
      PROVE  Synced(c, worker[w].file)
  <2>1. tmp[n].data = [k \in 1..Chunks |-> worker[w].file] /\ Chunks \in Nat
    BY <1>1, <1>6, FileWriterAssumption DEF IInv, Writing, Active
  <2>2. c.data = tmp[n].data /\ c.synced = Len(tmp[n].data) /\ c # None
    BY <1>3, <1>5, <1>6, Facts DEF Sync, Content
  <2>3. Len(tmp[n].data) = Chunks
    BY <1>3, <1>6, <2>1 DEF Content
  <2> QED
    BY <2>1, <2>2, <2>3 DEF Synced, Whole, Body
<1>7. worker[w].fd = "tmp" /\ n \notin clash =>
        /\ r.at = "copy" => c.data = [k \in 1..r.pos |-> r.file]
        /\ r.at = "rename" => Synced(c, r.file)
  BY <1>4, <1>6
<1> HIDE DEF r, c, d
<1> QED
  BY <1>1, <1>2, <1>4, <1>5, <1>7, WriteIInv

\* Where the descriptors of a name lead once its temporary file has lost its name.
LEMMA MovedFacts ==
  ASSUME IInv, NEW n, NEW to \in {"final", "gone"}
  PROVE  /\ Moved(n, to) \in [Worker -> WorkerRec]
         /\ \A v \in Worker :
              /\ Moved(n, to)[v].at = worker[v].at /\ Moved(n, to)[v].file = worker[v].file
              /\ Moved(n, to)[v].pos = worker[v].pos
              /\ worker[v].fd = "none" => Moved(n, to)[v].fd = "none"
              /\ v \notin Writers(n) => Moved(n, to)[v] = worker[v]
              /\ v \in Writers(n) =>
                   /\ Moved(n, to)[v].fd # "tmp"
                   /\ Moved(n, to)[v].fd = "final" =>
                        (worker[v].fd = "tmp" /\ to = "final") \/ (worker[v].fd = "final" /\ to = "gone")
<1>1. ASSUME NEW v \in Worker
      PROVE  /\ Moved(n, to)[v] \in WorkerRec
             /\ Moved(n, to)[v].at = worker[v].at /\ Moved(n, to)[v].file = worker[v].file
             /\ Moved(n, to)[v].pos = worker[v].pos
             /\ worker[v].fd = "none" => Moved(n, to)[v].fd = "none"
             /\ v \notin Writers(n) => Moved(n, to)[v] = worker[v]
             /\ v \in Writers(n) =>
                  /\ Moved(n, to)[v].fd # "tmp"
                  /\ Moved(n, to)[v].fd = "final" =>
                       (worker[v].fd = "tmp" /\ to = "final") \/ (worker[v].fd = "final" /\ to = "gone")
  <2>1. worker[v] \in WorkerRec
    BY Facts
  <2>2. CASE v \notin Writers(n)
    BY <2>1, <2>2 DEF Moved
  <2>3. CASE v \in Writers(n)
    <3> DEFINE fd == IF worker[v].fd = "tmp" THEN to
                     ELSE IF worker[v].fd = "final" /\ to = "final" THEN "gone" ELSE worker[v].fd
               r  == [worker[v] EXCEPT !.fd = fd]
    <3>1. Moved(n, to)[v] = r
      BY <2>3 DEF Moved
    <3>2. /\ fd \in {"none", "tmp", "final", "gone"} /\ fd # "tmp"
          /\ worker[v].fd = "none" => fd = "none"
          /\ fd = "final" =>
               (worker[v].fd = "tmp" /\ to = "final") \/ (worker[v].fd = "final" /\ to = "gone")
      BY <2>1 DEF WorkerRec
    <3> HIDE DEF fd
    <3>3. /\ r \in WorkerRec /\ r.fd = fd
          /\ r.at = worker[v].at /\ r.file = worker[v].file /\ r.pos = worker[v].pos
      BY <2>1, <3>2 DEF WorkerRec
    <3> HIDE DEF r
    <3> QED
      BY <2>3, <3>1, <3>2, <3>3
  <2> QED
    BY <2>2, <2>3
<1>2. Moved(n, to) \in [Worker -> WorkerRec]
  <2>1. Moved(n, to) = [v \in Worker |-> Moved(n, to)[v]]
    BY DEF Moved
  <2> QED
    BY <1>1, <2>1
<1> QED
  BY <1>1, <1>2

\* A worker that is done with its temporary file, which has got the final name or is
\* removed, and goes on with r.
LEMMA LeaveIInv ==
  ASSUME IInv, NEW w \in Worker, NEW r \in WorkerRec, NEW to \in {"final", "gone"},
         worker[w].at \in Active, r.fd = "none", r.file = worker[w].file,
         r.at \notin Active, r.at \in {"try", "open"} => r.pos = 0,
         r.at = "complete" => to = "final",
         worker' = [Moved(NameFor(w), to) EXCEPT ![w] = r],
         tmp' = [tmp EXCEPT ![NameFor(w)] = None],
         to = "final" => worker[w].at = "rename" /\ tmp[NameFor(w)] # None,
         final' = IF to = "final" THEN [final EXCEPT ![NameFor(w)] = tmp[NameFor(w)]] ELSE final,
         nameOf' = nameOf, jobs' = jobs, status' = status,
         cancelled' = cancelled, crashes' = crashes, clash' = clash, left' = left
  PROVE  IInv'
<1> DEFINE n == NameFor(w)
           M == Moved(n, to)
<1>1. /\ worker \in [Worker -> WorkerRec] /\ worker[w].file \in File /\ n \in Name
      /\ tmp \in [Name -> Content \cup {None}] /\ final \in [Name -> Content \cup {None}]
  BY Facts DEF Active
<1>2. M \in [Worker -> WorkerRec] /\ worker' = [M EXCEPT ![w] = r]
  BY MovedFacts
<1>3. worker'[w] = r /\ \A v \in Worker \ {w} : worker'[v] = M[v]
  BY <1>2
<1>4. \A v \in Worker : M[v].file = worker[v].file /\ M[v].at = worker[v].at
  BY MovedFacts
<1>5. \A v \in Worker : worker'[v].file = worker[v].file /\ NameFor(v)' = NameFor(v)
  BY <1>3, <1>4 DEF NameFor
<1>6. /\ \A m : m # n => Writers(m)' = Writers(m)
      /\ \A m : m = n => Writers(m)' = Writers(m) \ {w}
  BY <1>3, <1>4, <1>5 DEF Writers
<1>7. /\ \A m \in Name \ {n} : tmp'[m] = tmp[m] /\ final'[m] = final[m]
      /\ tmp'[n] = None
      /\ to = "final" => final'[n] = tmp[n]
      /\ to = "gone" => final'[n] = final[n]
  BY <1>1
<1>8. \A m \in Name : final[m] # None => final'[m] # None
  BY <1>1
<1>9. w \in Writers(n)
  BY DEF Writers
<1> HIDE DEF M
<1>10. TypeOK'
  <2>1. tmp' \in [Name -> Content \cup {None}] /\ final' \in [Name -> Content \cup {None}]
    BY <1>1
  <2>2. worker' \in [Worker -> WorkerRec]
    BY <1>2
  <2> QED
    BY <2>1, <2>2 DEF IInv, TypeOK
<1>11. Descriptors'
  <2> SUFFICES ASSUME NEW v \in Worker
               PROVE  /\ worker'[v].at # "idle" => worker'[v].file \in File
                      /\ worker'[v].at # "copy" => worker'[v].fd = "none"
                      /\ worker'[v].at \in {"try", "open"} => worker'[v].pos = 0
                      /\ worker'[v].fd = "tmp" => tmp'[NameFor(v)'] # None
                      /\ worker'[v].fd = "final" => final'[NameFor(v)'] # None
    BY DEF Descriptors
  <2>1. CASE v = w
    BY <1>1, <1>3, <2>1
  <2>2. CASE v # w
    <3>1. /\ worker'[v] = M[v] /\ NameFor(v)' = NameFor(v)
          /\ M[v].at = worker[v].at /\ M[v].file = worker[v].file /\ M[v].pos = worker[v].pos
          /\ worker[v].fd = "none" => M[v].fd = "none"
      BY <1>3, <1>5, <2>2, MovedFacts DEF M
    <3>2. /\ worker[v].at # "idle" => worker[v].file \in File
          /\ worker[v].at # "copy" => worker[v].fd = "none"
          /\ worker[v].at \in {"try", "open"} => worker[v].pos = 0
          /\ worker[v].fd = "tmp" => tmp[NameFor(v)] # None
          /\ worker[v].fd = "final" => final[NameFor(v)] # None
      BY DEF IInv, Descriptors
    <3>3. worker[v].fd # "none" => worker[v].at = "copy" /\ NameFor(v) \in Name
      BY <3>2, Facts
    <3>4. CASE v \in Writers(n)
      <4>1. NameFor(v) = n
        BY <3>4 DEF Writers
      <4>2. /\ M[v].fd # "tmp"
            /\ M[v].fd = "final" =>
                 (worker[v].fd = "tmp" /\ to = "final") \/ (worker[v].fd = "final" /\ to = "gone")
        BY <3>4, MovedFacts DEF M
      <4>3. M[v].fd = "final" => final'[n] # None
        BY <1>7, <3>2, <4>1, <4>2
      <4> QED
        BY <3>1, <3>2, <4>1, <4>2, <4>3
    <3>5. CASE v \notin Writers(n)
      <4>1. M[v] = worker[v]
        BY <3>5, MovedFacts DEF M
      <4>2. worker[v].fd # "none" => NameFor(v) # n
        BY <3>3, <3>5 DEF Writers, Active
      <4>3. worker[v].fd = "tmp" => tmp'[NameFor(v)] # None
        BY <1>7, <3>2, <3>3, <4>2
      <4>4. worker[v].fd = "final" => final'[NameFor(v)] # None
        BY <1>8, <3>2, <3>3
      <4> QED
        BY <3>1, <3>2, <4>1, <4>3, <4>4
    <3> QED
      BY <3>4, <3>5
  <2> QED
    BY <2>1, <2>2
<1>12. n \notin clash =>
         /\ Writers(n) = {w}
         /\ worker[w].at = "rename" => Synced(tmp[n], worker[w].file)
  BY DEF IInv, Writing
<1>13. Writing'
  <2> SUFFICES ASSUME NEW v \in Worker, worker'[v].at \in Active, NameFor(v) \notin clash
               PROVE  Writes(v)
    BY <1>5, WritingNext
  <2> USE DEF Writes
  <2>1. v # w
    BY <1>3
  <2>2. worker[v].at \in Active /\ v \in Writers(NameFor(v))
    BY <1>3, <1>4, <2>1 DEF Writers
  <2>3. NameFor(v) # n
    BY <1>12, <2>1, <2>2
  <2>4. worker'[v] = worker[v]
    <3>1. v \notin Writers(n)
      BY <2>3 DEF Writers
    <3> QED
      BY <1>3, <2>1, <3>1, MovedFacts DEF M
  <2>5. tmp'[NameFor(v)] = tmp[NameFor(v)]
    BY <1>7, <2>2, <2>3, Facts DEF Active
  <2>6. Writers(NameFor(v))' = Writers(NameFor(v))
    BY <1>5, <1>6, <2>3
  <2> QED
    BY <2>2, <2>4, <2>5, <2>6 DEF IInv, Writing
<1>14. FinalSynced'
  <2> SUFFICES ASSUME NEW m \in Name \ clash, final'[m] # None
               PROVE  \E f \in File : nameOf[f] = m /\ Synced(final'[m], f)
    BY DEF FinalSynced, Synced, Whole, Body
  <2>1. CASE m = n /\ to = "final"
    <3>1. Synced(final'[m], worker[w].file) /\ nameOf[worker[w].file] = m
      BY <1>7, <1>12, <2>1 DEF NameFor
    <3> QED
      BY <1>1, <3>1
  <2>2. CASE ~(m = n /\ to = "final")
    <3>1. final'[m] = final[m]
      BY <1>7, <2>2
    <3> QED
      BY <3>1 DEF IInv, FinalSynced
  <2> QED
    BY <2>1, <2>2
<1>15. CompletedNamed'
  <2>1. ASSUME NEW v \in Worker, worker'[v].at = "complete" PROVE final'[NameFor(v)'] # None
    <3>1. CASE v = w
      BY <1>3, <1>5, <1>7, <2>1, <3>1
    <3>2. CASE v # w
      <4>1. worker[v].at = "complete" /\ NameFor(v)' = NameFor(v)
        BY <1>3, <1>4, <1>5, <2>1, <3>2
      <4>2. NameFor(v) \in Name /\ final[NameFor(v)] # None
        BY <4>1, Facts DEF IInv, CompletedNamed
      <4> QED
        BY <1>8, <4>1, <4>2
    <3> QED
      BY <3>1, <3>2
  <2>2. ASSUME NEW f \in File, status[f] = "completed" PROVE final'[nameOf[f]] # None
    BY <1>8, <2>2 DEF IInv, TypeOK, CompletedNamed
  <2> QED
    BY <2>1, <2>2 DEF CompletedNamed
<1>16. NoLeftover'
  <2> SUFFICES ASSUME crashes = 0, NEW m \in Name \ left, tmp'[m] # None
               PROVE  Writers(m)' # {}
    BY DEF NoLeftover
  <2>1. m # n
    BY <1>7
  <2>2. tmp[m] # None /\ Writers(m)' = Writers(m)
    BY <1>6, <1>7, <2>1
  <2> QED
    BY <2>2 DEF IInv, NoLeftover
<1> QED
  BY <1>10, <1>11, <1>13, <1>14, <1>15, <1>16 DEF IInv

LEMMA RenameIInv ==
  ASSUME IInv, NEW w \in Worker, Rename(w)
  PROVE  IInv'
<1> DEFINE n == NameFor(w)
           M == Moved(n, "final")
           r == [M[w] EXCEPT !.at = "complete"]
<1>1. /\ worker[w].at = "rename" /\ tmp[n] # None
      /\ worker' = [M EXCEPT ![w].at = "complete"]
      /\ final' = [final EXCEPT ![n] = tmp[n]] /\ tmp' = [tmp EXCEPT ![n] = None]
      /\ nameOf' = nameOf /\ jobs' = jobs /\ status' = status
      /\ cancelled' = cancelled /\ crashes' = crashes /\ clash' = clash /\ left' = left
  BY DEF Rename, WorkerStep, KeepStore
<1>2. /\ M \in [Worker -> WorkerRec] /\ M[w].file = worker[w].file
      /\ M[w].fd = "none"
  BY <1>1, Facts, MovedFacts
<1>3. r \in WorkerRec /\ r.at = "complete" /\ r.fd = "none" /\ r.file = worker[w].file
  BY <1>2 DEF WorkerRec, At
<1>4. worker' = [M EXCEPT ![w] = r]
  BY <1>1
<1>5. worker[w].at \in Active /\ r.at \notin Active
  BY <1>1, <1>3 DEF Active
<1> HIDE DEF r
<1> QED
  BY <1>1, <1>3, <1>4, <1>5, LeaveIInv

LEMMA RemoveIInv ==
  ASSUME IInv, NEW w \in Worker, Remove(w)
  PROVE  IInv'
<1> DEFINE n == NameFor(w)
           M == Moved(n, "gone")
           r == Failed(w, M)[w]
<1>1. /\ worker[w].at = "remove" /\ worker' = Failed(w, M)
      /\ final' = final /\ tmp' = [tmp EXCEPT ![n] = None]
      /\ nameOf' = nameOf /\ jobs' = jobs /\ status' = status
      /\ cancelled' = cancelled /\ crashes' = crashes /\ clash' = clash /\ left' = left
  BY DEF Remove, WorkerStep, KeepStore
<1>2. M \in [Worker -> WorkerRec] /\ M[w].file = worker[w].file /\ worker[w].file \in File
  BY <1>1, Facts, MovedFacts
<1>3. /\ Failed(w, M) = [M EXCEPT ![w] = r]
      /\ r \in WorkerRec /\ r.at \in {"try", "report"} /\ r.fd = "none" /\ r.pos = 0
      /\ r.file = worker[w].file
  <2> HIDE DEF M
  <2> QED
    BY <1>2, FailedWorker
<1>4. worker[w].at \in Active /\ r.at \notin Active /\ r.at # "complete"
  BY <1>1, <1>3 DEF Active
<1> HIDE DEF r
<1> QED
  BY <1>1, <1>3, <1>4, LeaveIInv

LEMMA RemoveFailsIInv ==
  ASSUME IInv, NEW w \in Worker, RemoveFails(w)
  PROVE  IInv'
<1> DEFINE n == NameFor(w)
           r == Failed(w, worker)[w]
<1>1. /\ worker[w].at = "remove" /\ worker' = Failed(w, worker)
      /\ tmp' = tmp /\ final' = final /\ clash' = clash /\ left' = left \cup {n}
      /\ nameOf' = nameOf /\ jobs' = jobs /\ status' = status
      /\ cancelled' = cancelled /\ crashes' = crashes
  BY DEF RemoveFails, KeepDisk, KeepStore
<1>2. worker \in [Worker -> WorkerRec] /\ worker[w].file \in File /\ n \in Name
  BY <1>1, Facts
<1>3. /\ worker' = [worker EXCEPT ![w] = r]
      /\ r \in WorkerRec /\ r.at \in {"try", "report"} /\ r.fd = "none" /\ r.pos = 0
      /\ r.file = worker[w].file
  BY <1>1, <1>2, FailedWorker
<1> HIDE DEF r
<1>4. worker'[w] = r /\ \A v \in Worker \ {w} : worker'[v] = worker[v]
  BY <1>2, <1>3
<1>5. \A v \in Worker : NameFor(v)' = NameFor(v)
  BY <1>1, <1>3, <1>4 DEF NameFor
<1>6. \A m : m # n => Writers(m)' = Writers(m)
  BY <1>3, <1>4, <1>5 DEF Writers, Active
<1>7. TypeOK'
  <2>1. worker' \in [Worker -> WorkerRec]
    BY <1>2, <1>3
  <2>2. left' \subseteq Name
    BY <1>1, <1>2 DEF IInv, TypeOK
  <2> QED
    BY <1>1, <2>1, <2>2 DEF IInv, TypeOK
<1>8. Descriptors'
  <2> SUFFICES ASSUME NEW v \in Worker
               PROVE  /\ worker'[v].at # "idle" => worker'[v].file \in File
                      /\ worker'[v].at # "copy" => worker'[v].fd = "none"
                      /\ worker'[v].at \in {"try", "open"} => worker'[v].pos = 0
                      /\ worker'[v].fd = "tmp" => tmp[NameFor(v)] # None
                      /\ worker'[v].fd = "final" => final[NameFor(v)] # None
    BY <1>1, <1>5 DEF Descriptors
  <2>1. CASE v = w
    BY <1>2, <1>3, <1>4, <2>1
  <2>2. CASE v # w
    BY <1>4, <2>2 DEF IInv, Descriptors
  <2> QED
    BY <2>1, <2>2
<1>9. Writing'
  <2> SUFFICES ASSUME NEW v \in Worker, worker'[v].at \in Active, NameFor(v) \notin clash
               PROVE  Writes(v)
    BY <1>1, <1>5, WritingNext
  <2>1. v # w
    BY <1>3, <1>4 DEF Active
  <2>2. worker'[v] = worker[v]
    BY <1>4, <2>1
  <2>3. Writers(NameFor(v)) = {v}
    BY <2>2 DEF IInv, Writing
  <2>4. NameFor(v) # n
    <3>1. w \in Writers(n)
      BY <1>1 DEF Writers, Active
    <3> QED
      BY <2>1, <2>3, <3>1
  <2>5. Writers(NameFor(v))' = {v}
    BY <1>5, <1>6, <2>3, <2>4
  <2> QED
    BY <1>1, <2>2, <2>5 DEF IInv, Writing, Writes
<1>10. FinalSynced'
  BY <1>1 DEF IInv, FinalSynced, Synced, Whole, Body
<1>11. CompletedNamed'
  <2>1. \A v \in Worker : worker'[v].at = "complete" => worker[v].at = "complete"
    BY <1>3, <1>4
  <2> QED
    BY <1>1, <1>5, <2>1 DEF IInv, CompletedNamed
<1>12. NoLeftover'
  <2> SUFFICES ASSUME crashes = 0, NEW m \in Name \ left', tmp[m] # None
               PROVE  Writers(m)' # {}
    BY <1>1 DEF NoLeftover
  <2>1. m # n /\ m \notin left
    BY <1>1
  <2> QED
    BY <1>6, <2>1 DEF IInv, NoLeftover
<1> QED
  BY <1>7, <1>8, <1>9, <1>10, <1>11, <1>12 DEF IInv

(***************************************************************************)
(* The other steps.                                                        *)
(***************************************************************************)
LEMMA CrashIInv ==
  ASSUME IInv, Crash
  PROVE  IInv'
<1>1. /\ crashes < MaxCrash /\ crashes' = crashes + 1
      /\ worker' = [w \in Worker |-> Idle] /\ cancelled' = FALSE
      /\ nameOf' = nameOf /\ jobs' = jobs /\ status' = status
      /\ clash' = clash /\ left' = left
  BY DEF Crash
<1>2. /\ tmp \in [Name -> Content \cup {None}] /\ final \in [Name -> Content \cup {None}]
      /\ nameOf \in [File -> Name] /\ crashes \in Nat
  BY Facts, FileWriterAssumption DEF IInv, TypeOK
<1>3. ASSUME NEW files \in [Name -> Content \cup {None}], NEW kept \in AfterCrash(files)
      PROVE  /\ kept \in [Name -> Content \cup {None}]
             /\ \A n \in Name : kept[n] \in Kept(files[n])
             /\ \A n \in Name : kept[n] = None <=> files[n] = None
  <2>1. \A n \in Name : kept[n] \in Kept(files[n])
    BY DEF AfterCrash
  <2>2. kept = [n \in Name |-> kept[n]]
    BY DEF AfterCrash
  <2>3. \A n \in Name : kept[n] \in Content \cup {None} /\ (kept[n] = None <=> files[n] = None)
    BY <2>1, KeptType
  <2> QED
    BY <2>1, <2>2, <2>3
<1>4. /\ tmp' \in [Name -> Content \cup {None}] /\ final' \in [Name -> Content \cup {None}]
      /\ \A n \in Name : final'[n] \in Kept(final[n])
      /\ \A n \in Name : final'[n] = None <=> final[n] = None
  BY <1>2, <1>3 DEF Crash
<1>5. \A w \in Worker : worker'[w].at = "idle" /\ worker'[w].fd = "none"
  BY <1>1 DEF Idle
<1>6. TypeOK'
  <2>1. Idle \in WorkerRec
    BY FileWriterAssumption DEF Idle, WorkerRec, At
  <2>2. worker' \in [Worker -> WorkerRec]
    BY <1>1, <2>1
  <2>3. crashes' \in 0..MaxCrash
    BY <1>1, <1>2, FileWriterAssumption
  <2> QED
    BY <1>1, <1>4, <2>2, <2>3 DEF IInv, TypeOK
<1>7. Descriptors'
  BY <1>5 DEF Descriptors
<1>8. Writing'
  BY <1>5 DEF Writing, Active
<1>9. FinalSynced'
  <2> SUFFICES ASSUME NEW n \in Name \ clash, final'[n] # None
               PROVE  \E f \in File : nameOf[f] = n /\ Synced(final'[n], f)
    BY <1>1 DEF FinalSynced, Synced, Whole, Body
  <2>1. final[n] \in Content /\ final[n] # None
    BY <1>2, <1>4, FileWriterAssumption
  <2>2. PICK f \in File : nameOf[f] = n /\ Synced(final[n], f)
    BY <2>1 DEF IInv, FinalSynced
  <2>3. Synced(final'[n], f)
    BY <1>4, <2>1, <2>2, KeptSynced
  <2> QED
    BY <2>2, <2>3
<1>10. CompletedNamed'
  BY <1>1, <1>2, <1>4, <1>5 DEF IInv, CompletedNamed
<1>11. NoLeftover'
  BY <1>1, <1>2 DEF NoLeftover
<1> QED
  BY <1>6, <1>7, <1>8, <1>9, <1>10, <1>11 DEF IInv

LEMMA StutterIInv ==
  ASSUME IInv, cancelled' \in BOOLEAN,
         UNCHANGED <<nameOf, tmp, final, worker, jobs, status, crashes, clash, left>>
  PROVE  IInv'
<1>1. TypeOK' /\ Descriptors'
  BY DEF IInv, TypeOK, Descriptors, NameFor
<1>2. \A n : Writers(n)' = Writers(n)
  BY DEF Writers, NameFor
<1>3. Writing'
  <2>1. \A v \in Worker : NameFor(v)' = NameFor(v)
    BY DEF NameFor
  <2>2. ASSUME NEW v \in Worker, worker'[v].at \in Active, NameFor(v) \notin clash' PROVE Writes(v)
    <3>1. worker[v].at \in Active /\ NameFor(v) \notin clash
      BY <2>2
    <3>2. Writers(NameFor(v))' = Writers(NameFor(v))
      BY <1>2, <2>1
    <3> QED
      BY <3>1, <3>2 DEF IInv, Writing, Writes
  <2> QED
    BY <2>1, <2>2, WritingNext
<1>4. FinalSynced'
  BY DEF IInv, FinalSynced, Synced, Whole, Body
<1>5. CompletedNamed'
  BY DEF IInv, CompletedNamed, NameFor
<1>6. NoLeftover'
  BY <1>2 DEF IInv, NoLeftover
<1> QED
  BY <1>1, <1>3, <1>4, <1>5, <1>6 DEF IInv

LEMMA InitIInv == Init => IInv
<1> SUFFICES ASSUME Init PROVE IInv
  OBVIOUS
<1>1. /\ \A w \in Worker : worker[w] = Idle
      /\ \A n \in Name : tmp[n] = None /\ final[n] = None
      /\ \A f \in File : status[f] = "queued"
  BY DEF Init
<1>2. TypeOK
  <2>1. Idle \in WorkerRec
    BY FileWriterAssumption DEF Idle, WorkerRec, At
  <2>2. worker \in [Worker -> WorkerRec] /\ status \in [File -> FileStatus]
    BY <2>1 DEF Init, FileStatus
  <2>3. jobs \in 0..MaxJobs /\ crashes \in 0..MaxCrash
    BY FileWriterAssumption DEF Init
  <2> QED
    BY <2>2, <2>3 DEF Init, TypeOK
<1>3. Descriptors /\ Writing
  BY <1>1 DEF Descriptors, Writing, Active, Idle
<1>4. FinalSynced /\ CompletedNamed /\ NoLeftover
  BY <1>1 DEF FinalSynced, CompletedNamed, NoLeftover, Idle
<1> QED
  BY <1>2, <1>3, <1>4 DEF IInv

LEMMA NextIInv == IInv /\ [Next]_vars => IInv'
<1> SUFFICES ASSUME IInv, [Next]_vars PROVE IInv'
  OBVIOUS
<1>1. ASSUME NEW w \in Worker, WorkerNext(w) PROVE IInv'
  BY <1>1, LocalSteps, OpenIInv, CopyIInv, CloseIInv, RenameIInv, RemoveIInv,
     RemoveFailsIInv DEF WorkerNext
<1>2. ASSUME NEW w \in Worker, NEW f \in File, Take(w, f) PROVE IInv'
  BY <1>2, LocalSteps
<1>3. CASE Cancel
  BY <1>3, StutterIInv DEF Cancel
<1>4. CASE Crash
  BY <1>4, CrashIInv
<1>5. CASE UNCHANGED vars
  BY <1>5, StutterIInv DEF vars, IInv, TypeOK
<1> QED
  BY <1>1, <1>2, <1>3, <1>4, <1>5 DEF Next

(***************************************************************************)
(* The theorems.                                                           *)
(***************************************************************************)
\* Where no two workers met, a writer is alone and renames only what is whole and
\* synced; the inductive invariant.
THEOREM Invariant == Spec => []IInv
<1> QED
  BY InitIInv, NextIInv, PTL DEF Spec

\* Every variable stays in its type, whatever several workers write into one file and
\* whatever a crash leaves of it (downloader.go:265-297).
THEOREM TypeCorrect == Spec => []TypeOK
<1>1. IInv => TypeOK
  BY DEF IInv
<1> QED
  BY <1>1, Invariant, PTL

\* Under a final name there is a whole body or nothing, at any moment and after a
\* crash, where no two workers wrote at once.
THEOREM FinalIsWhole == Spec => []FinalWhole
<1>1. IInv => FinalWhole
  BY DEF IInv, FinalSynced, Synced, FinalWhole
<1> QED
  BY <1>1, Invariant, PTL

\* A file marked completed has its own body under its name.
THEOREM CompletedIsThere == Spec => []CompletedHasBody
<1>1. IInv => CompletedHasBody
  <2> SUFFICES ASSUME IInv, NEW f \in File, status[f] = "completed", nameOf[f] \notin clash,
                      \A g \in File : nameOf[g] = nameOf[f] => g = f
               PROVE  Whole(final[nameOf[f]], f)
    BY DEF CompletedHasBody
  <2>1. nameOf[f] \in Name \ clash /\ final[nameOf[f]] # None
    BY DEF IInv, TypeOK, CompletedNamed
  <2>2. PICK g \in File : nameOf[g] = nameOf[f] /\ Synced(final[nameOf[f]], g)
    BY <2>1 DEF IInv, FinalSynced
  <2> QED
    BY <2>2 DEF Synced
<1> QED
  BY <1>1, Invariant, PTL

\* Only a crash leaves a temporary file behind.
THEOREM NoTmpLeft == Spec => []NoLeftover
<1>1. IInv => NoLeftover
  BY DEF IInv
<1> QED
  BY <1>1, Invariant, PTL
=============================================================================
