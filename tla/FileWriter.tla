----------------------------- MODULE FileWriter -----------------------------
(***************************************************************************)
(* worker.Downloader on disk: the attempts of Handle, and how writeFile    *)
(* brings the body of a file under its final name, through a temporary     *)
(* file that it syncs and renames, in the directory of one task.  Workers  *)
(* share the directory: two files may have the same name, since a name is  *)
(* the last part of a URL or what the server says, and two workers may     *)
(* have a job of the same file (see Downloads).                            *)
(*                                                                         *)
(* A body is a number of chunks, each known by the file it belongs to.  As *)
(* on a POSIX system a file that is open keeps its contents when its name  *)
(* is taken away: a worker's descriptor leads to the temporary file, to    *)
(* the final one, or to none that still has a name.  A rename is durable   *)
(* at once; of what is not synced a crash keeps a prefix.                  *)
(***************************************************************************)
EXTENDS TaskStatus, Sequences

CONSTANTS
  File,      \* the files of the task
  Name,      \* their possible names
  Worker,
  Chunks,    \* the length of a body
  Attempts,  \* maxAttempts + 1
  MaxJobs,   \* bound on the jobs, this process's and later ones'
  MaxCrash,  \* bound on the crashes
  None

VARIABLES
  nameOf,     \* the name extractFilename gives to each file
  tmp,        \* what each name's .tmp holds, or None
  final,      \* what each name holds, or None
  worker,     \* where each worker is in Handle
  jobs,       \* how many jobs may still come
  status,     \* the status of each file in the store
  cancelled,  \* the workers' context is
  crashes,    \* crashes so far
  clash,      \* history: names two workers have written at once
  left        \* history: names whose .tmp could not be removed

vars == <<nameOf, tmp, final, worker, jobs, status, cancelled, crashes, clash, left>>

\* The chunks of a file on disk (None is a hole) and how many of them are synced.
Content == [data : Seq(File \cup {None}), synced : Nat]

ASSUME FileWriterAssumption ==
  /\ Chunks \in Nat \ {0} /\ Attempts \in Nat \ {0}
  /\ MaxJobs \in Nat /\ MaxCrash \in Nat
  /\ None \notin File \cup Content

At        == {"idle", "try", "open", "copy", "rename", "remove", "complete", "report"}
Active    == {"copy", "rename", "remove"}
WorkerRec == [at : At, file : File \cup {None}, attempt : 0..Attempts,
              fd : {"none", "tmp", "final", "gone"}, pos : 0..Chunks]
Idle      == [at |-> "idle", file |-> None, attempt |-> 0, fd |-> "none", pos |-> 0]

TypeOK ==
  /\ nameOf \in [File -> Name]
  /\ tmp \in [Name -> Content \cup {None}]
  /\ final \in [Name -> Content \cup {None}]
  /\ worker \in [Worker -> WorkerRec]
  /\ jobs \in 0..MaxJobs
  /\ status \in [File -> FileStatus]
  /\ cancelled \in BOOLEAN /\ crashes \in 0..MaxCrash
  /\ clash \subseteq Name /\ left \subseteq Name

Init ==
  /\ nameOf \in [File -> Name]
  /\ tmp = [n \in Name |-> None]
  /\ final = [n \in Name |-> None]
  /\ worker = [w \in Worker |-> Idle]
  /\ jobs = MaxJobs
  /\ status = [f \in File |-> "queued"]
  /\ cancelled = FALSE /\ crashes = 0
  /\ clash = {} /\ left = {}

-----------------------------------------------------------------------------
NameFor(w)    == nameOf[worker[w].file]
Writers(n)    == {w \in Worker : worker[w].at \in Active /\ NameFor(w) = n}
Body(f)       == [k \in 1..Chunks |-> f]
Whole(c, f)   == c # None /\ c.data = Body(f)

\* The descriptors of name n, after those of the temporary file lead to `to`.
Moved(n, to) ==
  [w \in Worker |->
     IF w \notin Writers(n) THEN worker[w]
     ELSE [worker[w] EXCEPT !.fd = IF @ = "tmp" THEN to
                                   ELSE IF @ = "final" /\ to = "final" THEN "gone" ELSE @]]

\* A chunk of f written at offset pos; a gap before it is a hole.
Put(c, pos, f) ==
  LET len == IF pos < Len(c.data) THEN Len(c.data) ELSE pos + 1
  IN  [c EXCEPT !.data = [k \in 1..len |-> IF k = pos + 1 THEN f
                                           ELSE IF k <= Len(c.data) THEN c.data[k] ELSE None]]

\* What fsync makes of a file, and a crash: a prefix with what was synced.
Sync(c) == [c EXCEPT !.synced = Len(c.data)]
Kept(c) == IF c = None THEN {None}
           ELSE {[data |-> SubSeq(c.data, 1, k), synced |-> k] : k \in c.synced..Len(c.data)}
AfterCrash(files) ==
  {kept \in [Name -> UNION {Kept(files[n]) : n \in Name}] : \A n \in Name : kept[n] \in Kept(files[n])}

-----------------------------------------------------------------------------
WorkerStep(w, from, ws) ==
  /\ worker[w].at = from
  /\ worker' = ws
  /\ UNCHANGED <<nameOf, cancelled, crashes, left>>

Goto(w, to) == [worker EXCEPT ![w].at = to]
KeepDisk    == UNCHANGED <<tmp, final, clash>>
KeepStore   == UNCHANGED <<jobs, status>>

\* Mutant of Failed: the attempts are not counted.
FailedUncounted(w, ws) ==
  [ws EXCEPT ![w] = [@ EXCEPT !.at = "try", !.fd = "none", !.pos = 0]]

\* Mutant of Failed: one attempt too many.
FailedOneMore(w, ws) ==
  [ws EXCEPT ![w] =
     IF @.attempt > Attempts THEN [@ EXCEPT !.at = "report", !.fd = "none", !.pos = 0]
     ELSE [@ EXCEPT !.at = "try", !.attempt = @ + 1, !.fd = "none", !.pos = 0]]

\* The attempt failed: the last one is reported, else the next one follows.
Failed(w, ws) ==
  LET r == ws[w] IN
  [ws EXCEPT ![w] =
     IF r.attempt = Attempts THEN [r EXCEPT !.at = "report", !.fd = "none", !.pos = 0]
     ELSE [r EXCEPT !.at = "try", !.attempt = @ + 1, !.fd = "none", !.pos = 0]]

\* A worker gets a job of f and MarkFileStarted accepts it.
Take(w, f) ==
  /\ jobs > 0 /\ ~cancelled /\ status[f] # "completed"
  /\ WorkerStep(w, "idle", [worker EXCEPT ![w] = [Idle EXCEPT !.at = "try", !.file = f, !.attempt = 1]])
  /\ jobs' = jobs - 1
  /\ status' = [status EXCEPT ![f] = "downloading"]
  /\ KeepDisk

\* The request is answered.  A context that is done by now, during the wait for the
\* next attempt too, ends the attempts.
Request(w) ==
  /\ IF cancelled THEN WorkerStep(w, "try", Goto(w, "report"))
     ELSE WorkerStep(w, "try", Goto(w, "open")) \/ WorkerStep(w, "try", Failed(w, worker))
  /\ KeepDisk /\ KeepStore

\* writeFile creates the temporary file, or empties the one that is there.
Open(w) ==
  /\ WorkerStep(w, "open", [worker EXCEPT ![w] = [@ EXCEPT !.at = "copy", !.fd = "tmp"]])
  /\ tmp' = [tmp EXCEPT ![NameFor(w)] = [data |-> <<>>, synced |-> 0]]
  /\ clash' = IF Writers(NameFor(w)) = {} THEN clash ELSE clash \cup {NameFor(w)}
  /\ UNCHANGED final
  /\ KeepStore

\* It cannot: the directory or the file is not created, or the context is done.
OpenFails(w) ==
  /\ WorkerStep(w, "open", Failed(w, worker))
  /\ KeepDisk /\ KeepStore

\* io.Copy writes the next chunk.
Copy(w) ==
  /\ worker[w].pos < Chunks
  /\ WorkerStep(w, "copy", [worker EXCEPT ![w].pos = @ + 1])
  /\ LET n == NameFor(w)
         Write(c) == Put(c, worker[w].pos, worker[w].file)
     IN  /\ tmp' = IF worker[w].fd = "tmp" THEN [tmp EXCEPT ![n] = Write(@)] ELSE tmp
         /\ final' = IF worker[w].fd = "final" THEN [final EXCEPT ![n] = Write(@)] ELSE final
  /\ UNCHANGED clash
  /\ KeepStore

\* The descriptor of a worker leads to nothing once it is closed.
Closed(w, to) == [worker EXCEPT ![w] = [@ EXCEPT !.at = to, !.fd = "none"]]

\* Mutant of Close: f.Sync is left out.
CloseUnsynced(w) ==
  /\ worker[w].pos = Chunks
  /\ WorkerStep(w, "copy", Closed(w, "rename"))
  /\ KeepDisk /\ KeepStore

\* The body has ended: Sync and Close.
Close(w) ==
  /\ worker[w].pos = Chunks
  /\ WorkerStep(w, "copy", Closed(w, "rename"))
  /\ LET n == NameFor(w) IN
     /\ tmp' = IF worker[w].fd = "tmp" THEN [tmp EXCEPT ![n] = Sync(@)] ELSE tmp
     /\ final' = IF worker[w].fd = "final" THEN [final EXCEPT ![n] = Sync(@)] ELSE final
  /\ UNCHANGED clash
  /\ KeepStore

\* Mutant of CopyFails: the error of io.Copy is not looked at.
CopyFailsIgnored(w) ==
  /\ WorkerStep(w, "copy", Closed(w, "rename"))
  /\ KeepDisk /\ KeepStore

\* Reading, writing, syncing or closing fails, or the context is done.
CopyFails(w) ==
  /\ WorkerStep(w, "copy", Closed(w, "remove"))
  /\ KeepDisk /\ KeepStore

\* What is the temporary file by now gets the final name.
Rename(w) ==
  LET n == NameFor(w) IN
  /\ worker[w].at = "rename" /\ tmp[n] # None
  /\ WorkerStep(w, "rename", [Moved(n, "final") EXCEPT ![w].at = "complete"])
  /\ final' = [final EXCEPT ![n] = tmp[n]]
  /\ tmp' = [tmp EXCEPT ![n] = None]
  /\ UNCHANGED clash
  /\ KeepStore

\* os.Rename fails, because the temporary file is gone or for another reason, or the
\* context is done just before it.
RenameFails(w) ==
  /\ WorkerStep(w, "rename", Goto(w, "remove"))
  /\ KeepDisk /\ KeepStore

\* Mutant of Remove: the temporary file stays.
RemoveNot(w) ==
  /\ WorkerStep(w, "remove", Failed(w, worker))
  /\ KeepDisk /\ KeepStore

\* os.Remove of the temporary file, whoever has created it.
Remove(w) ==
  LET n == NameFor(w) IN
  /\ WorkerStep(w, "remove", Failed(w, Moved(n, "gone")))
  /\ tmp' = [tmp EXCEPT ![n] = None]
  /\ UNCHANGED <<final, clash>>
  /\ KeepStore

\* It fails, and its error is ignored.
RemoveFails(w) ==
  /\ worker[w].at = "remove"
  /\ worker' = Failed(w, worker)
  /\ left' = left \cup {NameFor(w)}
  /\ UNCHANGED <<nameOf, cancelled, crashes>>
  /\ KeepDisk /\ KeepStore

\* Handle returns.
Done(w) == [worker EXCEPT ![w] = Idle]

\* MarkFileCompleted, which refuses a file that is completed already.
Complete(w) ==
  /\ WorkerStep(w, "complete", Done(w))
  /\ status[worker[w].file] # "completed"
  /\ status' = [status EXCEPT ![worker[w].file] = "completed"]
  /\ KeepDisk
  /\ UNCHANGED jobs

CompleteFails(w) ==
  /\ WorkerStep(w, "complete", Goto(w, "report"))
  /\ KeepDisk /\ KeepStore

\* markFailed, with the same check; its own failure is ignored.
Report(w) ==
  /\ WorkerStep(w, "report", Done(w))
  /\ \/ UNCHANGED status
     \/ /\ status[worker[w].file] # "completed"
        /\ status' = [status EXCEPT ![worker[w].file] = "error"]
  /\ KeepDisk
  /\ UNCHANGED jobs

WorkerNext(w) ==
  \/ Request(w) \/ Open(w) \/ OpenFails(w)
  \/ Copy(w) \/ Close(w) \/ CopyFails(w)
  \/ Rename(w) \/ RenameFails(w) \/ Remove(w) \/ RemoveFails(w)
  \/ Complete(w) \/ CompleteFails(w) \/ Report(w)

\* A restart or an exit cancels the workers' context.
Cancel ==
  /\ ~cancelled
  /\ cancelled' = TRUE
  /\ UNCHANGED <<nameOf, tmp, final, worker, jobs, status, crashes, clash, left>>

\* The machine stops, and the process starts again on the same directory.
Crash ==
  /\ crashes < MaxCrash
  /\ crashes' = crashes + 1
  /\ worker' = [w \in Worker |-> Idle]
  /\ tmp' \in AfterCrash(tmp) /\ final' \in AfterCrash(final)
  /\ cancelled' = FALSE
  /\ UNCHANGED <<nameOf, jobs, status, clash, left>>

Next ==
  \/ \E w \in Worker : WorkerNext(w) \/ \E f \in File : Take(w, f)
  \/ Cancel \/ Crash

Spec == Init /\ [][Next]_vars

\* A worker goes on: its requests, reads and waits have timeouts.
FairSpec == Spec /\ \A w \in Worker : WF_vars(WorkerNext(w))

-----------------------------------------------------------------------------
\* Under a final name there is one whole body or nothing, at any moment, after any
\* failed attempt and after a crash (downloader.go:265-297).  This needs that no two
\* workers ever wrote under the name at once.
FinalWhole ==
  \A n \in Name \ clash : final[n] # None =>
    \E f \in File : nameOf[f] = n /\ Whole(final[n], f)

\* A completed file has its body under its name, also after a crash, unless another
\* file of the task has the same name, or two workers wrote it at once.
CompletedHasBody ==
  \A f \in File :
    /\ status[f] = "completed"
    /\ nameOf[f] \notin clash
    /\ \A g \in File : nameOf[g] = nameOf[f] => g = f
    => Whole(final[nameOf[f]], f)

\* A temporary file belongs to a worker that will rename or remove it: only a crash, or a
\* removal that fails, leaves one behind, although workers remove each other's
\* (downloader.go:278-296).
NoLeftover ==
  crashes = 0 => \A n \in Name \ left : tmp[n] # None => Writers(n) # {}

\* A worker in Handle has a file; its descriptor is open while it copies, and leads to
\* what is there; it has written nothing before.
Descriptors ==
  \A w \in Worker :
    /\ worker[w].at # "idle" => worker[w].file \in File
    /\ worker[w].at # "copy" => worker[w].fd = "none"
    /\ worker[w].at \in {"try", "open"} => worker[w].pos = 0
    /\ worker[w].fd = "tmp" => tmp[NameFor(w)] # None
    /\ worker[w].fd = "final" => final[NameFor(w)] # None

\* Where no two workers have met, a writer is alone, it copies a prefix of its body
\* into the temporary file, and it renames a whole one that is synced.
Synced(c, f) == Whole(c, f) /\ c.synced = Chunks

Writing ==
  \A w \in Worker :
    worker[w].at \in Active /\ NameFor(w) \notin clash =>
      /\ Writers(NameFor(w)) = {w}
      /\ worker[w].at = "copy" =>
           /\ worker[w].fd = "tmp"
           /\ tmp[NameFor(w)].data = [k \in 1..worker[w].pos |-> worker[w].file]
      /\ worker[w].at = "rename" => Synced(tmp[NameFor(w)], worker[w].file)

FinalSynced ==
  \A n \in Name \ clash : final[n] # None =>
    \E f \in File : nameOf[f] = n /\ Synced(final[n], f)

\* Something is under the name of a file before it is marked completed.
CompletedNamed ==
  /\ \A w \in Worker : worker[w].at = "complete" => final[NameFor(w)] # None
  /\ \A f \in File : status[f] = "completed" => final[nameOf[f]] # None

\* The inductive invariant behind the theorems of FileWriterProofs.
IInv ==
  /\ TypeOK
  /\ Descriptors
  /\ Writing
  /\ FinalSynced
  /\ CompletedNamed
  /\ NoLeftover

\* Handle ends, whatever fails and however often: what Pool and Downloads assume of
\* the handler of their workers.
HandleEnds == \A w \in Worker : worker[w].at # "idle" ~> worker[w].at = "idle"
=============================================================================
