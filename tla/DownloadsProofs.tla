--------------------------- MODULE DownloadsProofs ---------------------------
(***************************************************************************)
(* What Downloads guarantees for every number of workers, enqueuers, tasks *)
(* and files and every size of the queue: first that the goroutines use    *)
(* the service as TaskService says, so that what is proved about that      *)
(* module holds here, then that no file is forgotten.                      *)
(***************************************************************************)
EXTENDS Downloads, TLAPS

P == INSTANCE TaskServiceProofs WITH Proc <- Worker \cup Enqueuer

(***************************************************************************)
(* Downloads takes the steps of the service from the module TaskService,   *)
(* TaskServiceProofs from its own copy of it.  They are the same.          *)
(***************************************************************************)
LEMMA SameSets ==
  /\ P!FileStatus = FileStatus /\ Svc!FileStatus = FileStatus
  /\ P!TaskStatusSet = TaskStatusSet /\ Svc!TaskStatusSet = TaskStatusSet
  /\ P!FileMap = Svc!FileMap /\ P!TaskRec = Svc!TaskRec
  /\ P!MarkCall = Svc!MarkCall /\ P!OpRec = Svc!OpRec
<1>1. P!FileStatus = FileStatus /\ Svc!FileStatus = FileStatus
  BY DEF P!FileStatus, Svc!FileStatus, FileStatus
<1>2. P!TaskStatusSet = TaskStatusSet /\ Svc!TaskStatusSet = TaskStatusSet
  BY DEF P!TaskStatusSet, Svc!TaskStatusSet, TaskStatusSet
<1>3. P!FileMap = Svc!FileMap
  BY <1>1 DEF P!FileMap, Svc!FileMap
<1>4. P!TaskRec = Svc!TaskRec /\ P!MarkCall = Svc!MarkCall
  BY <1>2, <1>3 DEF P!TaskRec, Svc!TaskRec, P!MarkCall, Svc!MarkCall
<1>5. P!OpRec = Svc!OpRec
  BY <1>4 DEF P!OpRec, Svc!OpRec
<1> QED
  BY <1>1, <1>2, <1>3, <1>4, <1>5

LEMMA ServiceAssumed == P!ServiceAssumption
BY SameSets, DownloadsAssumption DEF P!ServiceAssumption

LEMMA SameFunctions ==
  /\ \A fs : P!ObtainStatus(fs) = Svc!ObtainStatus(fs)
  /\ \A n : P!NewTask(n) = Svc!NewTask(n)
  /\ \A rec, i, st : P!SetFile(rec, i, st) = Svc!SetFile(rec, i, st)
  /\ \A from, to : P!MayMark(from, to) = Svc!MayMark(from, to)
  /\ P!View = Svc!View /\ (P!Readable <=> Svc!Readable)
<1>1. \A fs : P!ObtainStatus(fs) = Svc!ObtainStatus(fs)
  BY DEF P!ObtainStatus, Svc!ObtainStatus, P!Finished, Svc!Finished
<1>2. \A n : P!NewTask(n) = Svc!NewTask(n)
  BY DEF P!NewTask, Svc!NewTask
<1>3. \A rec, i, st : P!SetFile(rec, i, st) = Svc!SetFile(rec, i, st)
  BY <1>1 DEF P!SetFile, Svc!SetFile
<1>4. \A from, to : P!MayMark(from, to) = Svc!MayMark(from, to)
  BY DEF P!MayMark, Svc!MayMark
<1>5. P!View = Svc!View /\ (P!Readable <=> Svc!Readable)
  BY DEF P!View, Svc!View, P!Readable, Svc!Readable
<1> QED
  BY <1>1, <1>2, <1>3, <1>4, <1>5

LEMMA SameSteps ==
  ASSUME NEW p
  PROVE  /\ P!InMark(p) <=> Svc!InMark(p)
         /\ \A c : P!InCall(p, c) <=> Svc!InCall(p, c)
         /\ \A t, n : P!CreateTask(p, t, n) <=> Svc!CreateTask(p, t, n)
         /\ P!InsertCache(p) <=> Svc!InsertCache(p)
         /\ \A c, t, i : P!Load(p, c, t, i) <=> Svc!Load(p, c, t, i)
         /\ P!Commit(p) <=> Svc!Commit(p)
         /\ P!Refuse(p) <=> Svc!Refuse(p)
         /\ P!StoreError(p) <=> Svc!StoreError(p)
<1>1. (P!InMark(p) <=> Svc!InMark(p)) /\ \A c : P!InCall(p, c) <=> Svc!InCall(p, c)
  BY SameSets DEF P!InMark, Svc!InMark, P!InCall, Svc!InCall
<1>2. P!Return(p) <=> Svc!Return(p)
  BY DEF P!Return, Svc!Return
<1>3. \A t, rec : /\ P!StoreCreate(t, rec) <=> Svc!StoreCreate(t, rec)
                  /\ P!StoreUpdate(t, rec) <=> Svc!StoreUpdate(t, rec)
  BY DEF P!StoreCreate, Svc!StoreCreate, P!StoreUpdate, Svc!StoreUpdate
<1>4. \A t, n : P!CreateTask(p, t, n) <=> Svc!CreateTask(p, t, n)
  BY <1>3, SameFunctions DEF P!CreateTask, Svc!CreateTask
<1>5. P!InsertCache(p) <=> Svc!InsertCache(p)
  BY <1>1 DEF P!InsertCache, Svc!InsertCache
<1>6. \A c, t, i : P!Load(p, c, t, i) <=> Svc!Load(p, c, t, i)
  BY SameFunctions DEF P!Load, Svc!Load
<1>7. P!Commit(p) <=> Svc!Commit(p)
  BY <1>1, <1>2, <1>3, SameFunctions DEF P!Commit, Svc!Commit
<1>8. P!Refuse(p) <=> Svc!Refuse(p)
  BY <1>1, <1>2, SameFunctions DEF P!Refuse, Svc!Refuse
<1>9. P!StoreError(p) <=> Svc!StoreError(p)
  BY <1>1, <1>2, SameFunctions DEF P!StoreError, Svc!StoreError
<1> QED
  BY <1>1, <1>4, <1>5, <1>6, <1>7, <1>8, <1>9

(***************************************************************************)
(* The goroutines make only calls that exist.                              *)
(***************************************************************************)
\* A worker in Handle has a job; an enqueuer that has listed or created tasks finds
\* them, and the copy it decides on is the files of one.
Jobs ==
  /\ queue \in Seq(JobRec) /\ Len(queue) <= QueueSize
  /\ stage \in [Worker -> Stage]
  /\ job \in [Worker -> JobRec \cup {None}]
  /\ detached \in [Worker -> BOOLEAN]
  /\ \A w \in Worker : stage[w] # "idle" => job[w] \in JobRec

\* An enqueuer at the files of a task, and what it knows of the tasks on its list.
Scanning == {"scan", "submitted", "marking"}

ListOf(e) ==
  /\ enq[e].at \in Scanning \cup {"next"} => \A t \in enq[e].todo : Svc!View[t] # None
  /\ enq[e].at \in Scanning => /\ enq[e].task \in Task /\ enq[e].files \in Svc!FileMap
                               /\ enq[e].i \in Nat \ {0}
  /\ enq[e].at \in {"submitted", "marking"} => enq[e].i \in DOMAIN enq[e].files
  /\ enq[e].at = "creating" =>
       UseCache /\ Svc!InCall(e, "create") /\ enq[e].todo = {op[e].task}

Lists ==
  /\ enq \in [Enqueuer -> EnqRec]
  /\ \A e \in Enqueuer : ListOf(e)

\* The inductive invariant behind UsesService.
CallInv ==
  /\ P!IInv
  /\ Jobs
  /\ Lists
  /\ cancelled \in BOOLEAN
  /\ closing \in {"open", "disabled", "stopping", "draining", "over"}

\* What the service has is what its types say.
LEMMA ServiceFacts ==
  ASSUME P!IInv
  PROVE  /\ store \in [Task -> Svc!TaskRec \cup {None}]
         /\ cache \in [Task -> Svc!TaskRec \cup {None}]
         /\ op \in [Worker \cup Enqueuer -> Svc!OpRec \cup {None}]
         /\ Svc!View \in [Task -> Svc!TaskRec \cup {None}]
         /\ None \notin Svc!TaskRec /\ None \notin Svc!OpRec
<1>1. /\ store \in [Task -> Svc!TaskRec \cup {None}] /\ cache \in [Task -> Svc!TaskRec \cup {None}]
      /\ op \in [Worker \cup Enqueuer -> Svc!OpRec \cup {None}]
  BY SameSets DEF P!IInv, P!TypeOK
<1> QED
  BY <1>1, DownloadsAssumption DEF Svc!View

\* A step of the service: it is one of TaskService, and forgets no task.
LEMMA ServiceStep ==
  ASSUME P!IInv, NEW p \in Worker \cup Enqueuer, Svc!Step(p)
  PROVE  Svc!Next /\ P!IInv'
<1>1. P!Step(p)
  BY SameSteps, SameSets DEF Svc!Step, P!Step
<1> QED
  BY <1>1, P!NextIInv, ServiceAssumed DEF Svc!Next, P!Next

LEMMA ServiceStutter ==
  ASSUME P!IInv, UNCHANGED svcVars
  PROVE  P!IInv'
BY P!NextIInv, ServiceAssumed DEF svcVars, P!svcVars

\* A task that is found stays found, and another goroutine's call stays as it is.
LEMMA ViewGrows ==
  ASSUME P!IInv, P!IInv', NEW p \in Worker \cup Enqueuer, Svc!Step(p)
  PROVE  /\ \A t \in Task : Svc!View[t] # None => Svc!View'[t] # None
         /\ \A t \in Task : store[t] # None => store'[t] # None
         /\ \A q \in Worker \cup Enqueuer : q # p => op'[q] = op[q]
<1> USE ServiceFacts
<1>1. ASSUME NEW t \in Task, NEW n \in 1..MaxFiles, Svc!CreateTask(p, t, n)
      PROVE  /\ \A u \in Task : u # t => store'[u] = store[u]
             /\ store[t] = None /\ cache' = cache
             /\ \A q \in Worker \cup Enqueuer : q # p => op'[q] = op[q]
  BY <1>1 DEF Svc!CreateTask, Svc!StoreCreate
<1>2. ASSUME Svc!InsertCache(p)
      PROVE  /\ store' = store
             /\ \A u \in Task : cache[u] # None => cache'[u] # None
             /\ \A q \in Worker \cup Enqueuer : q # p => op'[q] = op[q]
  <2>1. op[p] \in Svc!OpRec /\ op[p].clone # None
    BY <1>2 DEF Svc!InsertCache, Svc!InCall, Svc!OpRec
  <2> QED
    BY <1>2, <2>1 DEF Svc!InsertCache
<1>3. ASSUME \/ \E c \in Svc!MarkCall, t \in Task, i \in 1..MaxFiles : Svc!Load(p, c, t, i)
             \/ Svc!Refuse(p) \/ Svc!StoreError(p)
      PROVE  /\ store' = store /\ cache' = cache
             /\ \A q \in Worker \cup Enqueuer : q # p => op'[q] = op[q]
  BY <1>3 DEF Svc!Load, Svc!Refuse, Svc!StoreError, Svc!Return
<1>4. ASSUME Svc!Commit(p)
      PROVE  /\ \A t \in Task : store[t] # None => store'[t] # None
             /\ \A t \in Task : cache[t] # None => cache'[t] # None
             /\ \A q \in Worker \cup Enqueuer : q # p => op'[q] = op[q]
  <2>1. Svc!SetFile(op[p].clone, op[p].file, op[p].call) # None
    <3>1. Svc!InMark(p) /\ P!InMark(p)
      BY <1>4, SameSteps DEF Svc!Commit
    <3>2. /\ op[p].clone \in P!TaskRec /\ op[p].call \in P!FileStatus
          /\ op[p].file \in DOMAIN op[p].clone.files
      BY <3>1, SameSets DEF P!IInv, P!FileInRange, Svc!InMark, Svc!OpRec, Svc!MarkCall, FileStatus
    <3>3. P!SetFile(op[p].clone, op[p].file, op[p].call) \in P!TaskRec
      BY <3>2, P!SetFileType, ServiceAssumed
    <3> QED
      BY <3>3, SameFunctions, SameSets
  <2> QED
    BY <1>4, <2>1 DEF Svc!Commit, Svc!StoreUpdate, Svc!Return
<1> QED
  BY <1>1, <1>2, <1>3, <1>4 DEF Svc!Step, Svc!View

\* A step of p makes one step of a call to the service, or none.
ServiceCall(p) == Svc!Step(p) \/ UNCHANGED svcVars

LEMMA CallFacts ==
  ASSUME P!IInv, NEW p \in Worker \cup Enqueuer, ServiceCall(p)
  PROVE  /\ Svc!Next \/ UNCHANGED svcVars
         /\ P!IInv'
         /\ \A t \in Task : Svc!View[t] # None => Svc!View'[t] # None
         /\ \A q \in Worker \cup Enqueuer : q # p => op'[q] = op[q]
<1>1. CASE Svc!Step(p)
  BY <1>1, ServiceStep, ViewGrows
<1>2. CASE UNCHANGED svcVars
  BY <1>2, ServiceStutter DEF svcVars, Svc!View
<1> QED
  BY <1>1, <1>2 DEF ServiceCall

\* The list of an enqueuer outlives the calls of the others.
LEMMA ListOfKept ==
  ASSUME CallInv, NEW p \in Worker \cup Enqueuer, ServiceCall(p),
         NEW e \in Enqueuer, e # p, enq'[e] = enq[e]
  PROVE  ListOf(e)'
<1>1. ListOf(e) /\ enq[e] \in EnqRec /\ op'[e] = op[e]
  BY CallFacts DEF CallInv, Lists
<1>2. \A t \in enq[e].todo : Svc!View[t] # None => Svc!View'[t] # None
  BY <1>1, CallFacts DEF CallInv, EnqRec
<1> QED
  BY <1>1, <1>2 DEF ListOf, Svc!InCall

LEMMA FileMapDomain ==
  ASSUME NEW fs \in Svc!FileMap
  PROVE  \E n \in 1..MaxFiles : n \in Nat /\ DOMAIN fs = 1..n /\ fs \in [1..n -> FileStatus]
BY SameSets, DownloadsAssumption DEF Svc!FileMap

(***************************************************************************)
(* Steps of a worker.                                                      *)
(***************************************************************************)
LEMMA WorkerStepInv ==
  ASSUME CallInv, NEW w \in Worker, ServiceCall(w),
         NEW from, NEW to \in Stage, WorkerStep(w, from, to),
         NEW j \in JobRec \cup {None}, job' = [job EXCEPT ![w] = j],
         to # "idle" => j \in JobRec,
         queue' \in Seq(JobRec), Len(queue') <= QueueSize,
         detached' \in [Worker -> BOOLEAN]
  PROVE  CallInv' /\ (Svc!Next \/ UNCHANGED svcVars)
<1>1. /\ stage' = [stage EXCEPT ![w] = to] /\ enq' = enq
      /\ cancelled' = cancelled /\ closing' = closing
  BY DEF WorkerStep
<1>2. Jobs'
  BY <1>1 DEF CallInv, Jobs
<1>3. Lists'
  <2>1. \A e \in Enqueuer : e # w
    BY DownloadsAssumption
  <2> QED
    BY <1>1, <2>1, ListOfKept DEF CallInv, Lists
<1> QED
  BY <1>1, <1>2, <1>3, CallFacts DEF CallInv

\* A worker that keeps its job, and one that drops it.
LEMMA WorkerKeeps ==
  ASSUME CallInv, NEW w \in Worker, ServiceCall(w),
         NEW from, NEW to \in Stage, from # "idle", WorkerStep(w, from, to),
         queue' = queue, job' = job,
         detached' \in [Worker -> BOOLEAN]
  PROVE  CallInv' /\ (Svc!Next \/ UNCHANGED svcVars)
<1>1. job[w] \in JobRec /\ job' = [job EXCEPT ![w] = job[w]]
  BY DEF CallInv, Jobs, WorkerStep
<1>2. queue' \in Seq(JobRec) /\ Len(queue') <= QueueSize
  BY DEF CallInv, Jobs
<1> QED
  BY <1>1, <1>2, WorkerStepInv

LEMMA WorkerDrops ==
  ASSUME CallInv, NEW w \in Worker, ServiceCall(w), NEW from, Drop(w, from)
  PROVE  CallInv' /\ (Svc!Next \/ UNCHANGED svcVars)
<1>1. /\ WorkerStep(w, from, "idle") /\ job' = [job EXCEPT ![w] = None]
      /\ detached' \in [Worker -> BOOLEAN]
      /\ queue' \in Seq(JobRec) /\ Len(queue') <= QueueSize
  BY DEF Drop, CallInv, Jobs
<1>2. "idle" \in Stage
  BY DEF Stage
<1> QED
  BY <1>1, <1>2, WorkerStepInv

LEMMA WorkerNextInv ==
  ASSUME CallInv, NEW w \in Worker, WorkerNext(w)
  PROVE  CallInv' /\ (Svc!Next \/ UNCHANGED svcVars)
<1>1. /\ queue \in Seq(JobRec) /\ Len(queue) <= QueueSize
      /\ detached \in [Worker -> BOOLEAN]
      /\ cancelled \in BOOLEAN
      /\ stage[w] # "idle" => job[w] \in JobRec
  BY DEF CallInv, Jobs
\* A Mark call is a call of the service.
<1>2. ASSUME NEW c \in {"downloading", "completed", "error"}, Call(w, c), stage[w] # "idle"
      PROVE  ServiceCall(w) /\ queue' = queue /\ job' = job /\ detached' = detached
  <2>1. c \in Svc!MarkCall /\ job[w].task \in Task /\ job[w].file \in 1..MaxFiles
    BY <1>1, <1>2 DEF Svc!MarkCall, JobRec
  <2> QED
    BY <1>2, <2>1 DEF Call, KeepJob, ServiceCall, Svc!Step
<1>3. ASSUME Svc!Commit(w) \/ Svc!Refuse(w) \/ StoreError(w) \/ UNCHANGED svcVars
      PROVE  ServiceCall(w)
  BY <1>3 DEF ServiceCall, StoreError, Svc!Step
<1>4. CASE Take(w)
  <2>1. /\ queue # <<>> /\ WorkerStep(w, "idle", "took")
        /\ job' = [job EXCEPT ![w] = Head(queue)] /\ queue' = Tail(queue)
        /\ UNCHANGED svcVars /\ detached' = detached
    BY <1>4 DEF Take
  <2>2. Head(queue) \in JobRec /\ Tail(queue) \in Seq(JobRec) /\ Len(Tail(queue)) <= Len(queue)
    BY <1>1, <2>1
  <2>3. Len(Tail(queue)) <= QueueSize
    <3>1. Len(queue) \in Nat /\ Len(Tail(queue)) \in Nat /\ QueueSize \in Nat
      BY <1>1, <2>2, DownloadsAssumption
    <3> QED
      BY <1>1, <2>2, <3>1
  <2>4. "took" \in Stage
    BY DEF Stage
  <2> QED
    BY <1>1, <1>3, <2>1, <2>2, <2>3, <2>4, WorkerStepInv
<1>5. CASE BeginStart(w)
  BY <1>1, <1>2, <1>5, WorkerKeeps DEF BeginStart, WorkerStep, Stage
<1>6. CASE Started(w)
  BY <1>1, <1>3, <1>6, WorkerKeeps DEF Started, KeepJob, Stage
<1>7. CASE StartRefused(w)
  BY <1>3, <1>7, WorkerDrops DEF StartRefused
<1>8. CASE Download(w)
  BY <1>1, <1>3, <1>8, WorkerKeeps DEF Download, KeepJob, Stage
<1>9. CASE Abort(w)
  BY <1>1, <1>3, <1>9, WorkerKeeps DEF Abort, KeepJob, Stage
<1>10. CASE NewStatusContext(w)
  <2>1. ASSUME NEW from \in {"downloaded", "failed", "aborted"}, NEW to \in {"complete", "fail"},
               StatusContext(w, from, to)
        PROVE  CallInv' /\ (Svc!Next \/ UNCHANGED svcVars)
    <3>1. detached' \in [Worker -> BOOLEAN] /\ UNCHANGED svcVars /\ queue' = queue /\ job' = job
      BY <1>1, <2>1 DEF StatusContext
    <3>2. WorkerStep(w, from, to) /\ to \in Stage /\ from # "idle"
      BY <2>1 DEF StatusContext, Stage
    <3> QED
      BY <1>3, <3>1, <3>2, WorkerKeeps
  <2> QED
    BY <1>10, <2>1 DEF NewStatusContext
<1>11. CASE BeginComplete(w)
  BY <1>1, <1>2, <1>11, WorkerKeeps DEF BeginComplete, WorkerStep, Stage
<1>12. CASE Completed(w)
  BY <1>3, <1>12, WorkerDrops DEF Completed
<1>13. CASE CompleteRefused(w)
  <2>1. ServiceCall(w) /\ queue' = queue /\ job' = job /\ detached' = detached
    BY <1>3, <1>13 DEF CompleteRefused, KeepJob
  <2>2. \E from \in {"complete", "completing"} : WorkerStep(w, from, "failed")
    BY <1>13 DEF CompleteRefused
  <2>3. "failed" \in Stage
    BY DEF Stage
  <2> QED
    BY <1>1, <2>1, <2>2, <2>3, WorkerKeeps
<1>14. CASE BeginFail(w)
  BY <1>1, <1>2, <1>14, WorkerKeeps DEF BeginFail, WorkerStep, Stage
<1>15. CASE Failed(w)
  BY <1>3, <1>15, WorkerDrops DEF Failed
<1> QED
  BY <1>4, <1>5, <1>6, <1>7, <1>8, <1>9, <1>10, <1>11, <1>12, <1>13, <1>14, <1>15
     DEF WorkerNext

(***************************************************************************)
(* Steps of an enqueuer.                                                   *)
(***************************************************************************)
LEMMA EnqStepInv ==
  ASSUME CallInv, NEW e \in Enqueuer, ServiceCall(e),
         NEW from, NEW new \in EnqRec, EnqStep(e, from, new),
         queue' \in Seq(JobRec), Len(queue') <= QueueSize,
         closing' = closing, ListOf(e)'
  PROVE  CallInv' /\ (Svc!Next \/ UNCHANGED svcVars)
<1>1. /\ enq' = [enq EXCEPT ![e] = new]
      /\ stage' = stage /\ job' = job /\ detached' = detached /\ cancelled' = cancelled
  BY DEF EnqStep
<1>2. Jobs'
  BY <1>1 DEF CallInv, Jobs
<1>3. Lists'
  BY <1>1, ListOfKept DEF CallInv, Lists
<1> QED
  BY <1>1, <1>2, <1>3, CallFacts DEF CallInv

\* An enqueuer that goes on in its scan, goes on to the next task, or returns.
LEMMA EnqMoves ==
  ASSUME CallInv, NEW e \in Enqueuer, ServiceCall(e),
         NEW from, NEW new \in EnqRec, EnqStep(e, from, new),
         queue' \in Seq(JobRec), Len(queue') <= QueueSize,
         \/ new.at \in {"idle", "gone"}
         \/ new.at = "next" /\ \A t \in new.todo : Svc!View'[t] # None
         \/ /\ new.at \in Scanning /\ from \in Scanning
            /\ new.todo = enq[e].todo /\ new.task = enq[e].task /\ new.files = enq[e].files
            /\ new.i \in Nat \ {0} /\ (new.at # "scan" => new.i \in DOMAIN new.files)
  PROVE  CallInv' /\ (Svc!Next \/ UNCHANGED svcVars)
<1>1. enq[e] \in EnqRec /\ enq'[e] = new /\ enq[e].at = from /\ ListOf(e) /\ closing' = closing
  BY DEF CallInv, Lists, EnqStep
<1>2. CASE new.at \in {"idle", "gone"}
  <2>1. ListOf(e)'
    BY <1>1, <1>2 DEF ListOf, Scanning
  <2> QED
    BY <1>1, <2>1, EnqStepInv
<1>3. CASE new.at = "next" /\ \A t \in new.todo : Svc!View'[t] # None
  <2>1. ListOf(e)'
    BY <1>1, <1>3 DEF ListOf, Scanning
  <2> QED
    BY <1>1, <2>1, EnqStepInv
<1>4. CASE /\ new.at \in Scanning /\ from \in Scanning
           /\ new.todo = enq[e].todo /\ new.task = enq[e].task /\ new.files = enq[e].files
           /\ new.i \in Nat \ {0} /\ (new.at # "scan" => new.i \in DOMAIN new.files)
  <2>1. \A t \in new.todo : Svc!View[t] # None /\ t \in Task
    BY <1>1, <1>4 DEF ListOf, EnqRec
  <2>2. \A t \in new.todo : Svc!View'[t] # None
    BY <2>1, CallFacts DEF CallInv
  <2>3. ListOf(e)'
    BY <1>1, <1>4, <2>2 DEF ListOf, Scanning
  <2> QED
    BY <1>1, <2>3, EnqStepInv
<1> QED
  BY <1>2, <1>3, <1>4

LEMMA EnqFacts ==
  ASSUME CallInv, NEW e \in Enqueuer
  PROVE  /\ enq[e] \in EnqRec /\ ListOf(e)
         /\ queue \in Seq(JobRec) /\ Len(queue) <= QueueSize
         /\ Idle \in EnqRec
         /\ \A todo \in SUBSET Task : [Idle EXCEPT !.at = "next", !.todo = todo] \in EnqRec
         /\ \A todo \in SUBSET Task : [Idle EXCEPT !.at = "next", !.todo = todo].todo = todo
         /\ \A at \in EnqAt : [enq[e] EXCEPT !.at = at] \in EnqRec
<1>1. enq[e] \in EnqRec /\ ListOf(e) /\ queue \in Seq(JobRec) /\ Len(queue) <= QueueSize
  BY DEF CallInv, Jobs, Lists
<1>2. 0 \in 0..(MaxFiles + 1)
  BY DownloadsAssumption
<1> QED
  BY <1>1, <1>2 DEF EnqRec, EnqAt, Idle

\* Where the next file is in EnqRec's range.
LEMMA NextFileMoves ==
  ASSUME CallInv, NEW e \in Enqueuer, ServiceCall(e), NEW from \in Scanning, NextFile(e, from),
         enq[e].i \in DOMAIN enq[e].files,
         queue' = queue
  PROVE  CallInv' /\ (Svc!Next \/ UNCHANGED svcVars)
<1> DEFINE new == [enq[e] EXCEPT !.at = "scan", !.i = enq[e].i + 1]
<1>1. EnqStep(e, from, new) /\ enq[e].at \in Scanning
  BY DEF NextFile, EnqStep
<1>2. PICK n \in 1..MaxFiles : n \in Nat /\ DOMAIN enq[e].files = 1..n
  BY <1>1, EnqFacts, FileMapDomain DEF ListOf
<1>3. enq[e].i + 1 \in 0..(MaxFiles + 1) /\ enq[e].i + 1 \in Nat \ {0} /\ "scan" \in EnqAt
  BY <1>2, DownloadsAssumption DEF EnqAt
<1>4. enq[e] \in EnqRec
  BY EnqFacts
<1>5. /\ new \in EnqRec /\ new.at = "scan" /\ new.todo = enq[e].todo /\ new.task = enq[e].task
      /\ new.files = enq[e].files /\ new.i \in Nat \ {0}
  BY <1>3, <1>4 DEF EnqRec
<1> HIDE DEF new
<1>6. queue' \in Seq(JobRec) /\ Len(queue') <= QueueSize /\ "scan" \in Scanning
  BY EnqFacts DEF Scanning
<1> QED
  BY <1>1, <1>5, <1>6, EnqMoves

LEMMA FailMoves ==
  ASSUME CallInv, NEW e \in Enqueuer, ServiceCall(e), NEW from, Fail(e, from), queue' = queue
  PROVE  CallInv' /\ (Svc!Next \/ UNCHANGED svcVars)
BY EnqFacts, EnqMoves DEF Fail, Idle

LEMMA EnqNextInv ==
  ASSUME CallInv, NEW e \in Enqueuer, EnqNext(e)
  PROVE  CallInv' /\ (Svc!Next \/ UNCHANGED svcVars)
<1>0. /\ enq[e] \in EnqRec /\ ListOf(e) /\ Idle \in EnqRec
      /\ queue \in Seq(JobRec) /\ Len(queue) <= QueueSize
  BY EnqFacts
<1>1. P!IInv /\ Svc!View \in [Task -> Svc!TaskRec \cup {None}]
  BY ServiceFacts DEF CallInv
<1>2. ASSUME \/ UNCHANGED svcVars \/ Svc!Commit(e) \/ Svc!Refuse(e)
             \/ Svc!StoreError(e) \/ Svc!InsertCache(e)
      PROVE  ServiceCall(e)
  BY <1>2 DEF ServiceCall, Svc!Step
<1>3. CASE Created(e)
  <2> DEFINE new == [enq[e] EXCEPT !.at = "next"]
  <2>1. EnqStep(e, "creating", new) /\ Svc!InsertCache(e) /\ queue' = queue
    BY <1>3 DEF Created
  <2>2. UseCache /\ Svc!InCall(e, "create") /\ enq[e].todo = {op[e].task}
    BY <1>0, <2>1 DEF ListOf, EnqStep
  <2>3. new \in EnqRec /\ new.at = "next" /\ new.todo = enq[e].todo
    BY <1>0 DEF EnqAt, EnqRec
  <2>4. op[e] \in Svc!OpRec /\ op[e].task \in Task /\ op[e].clone \in Svc!TaskRec
    BY <1>1, <2>2, ServiceFacts DEF Svc!InCall, Svc!OpRec
  <2>5. Svc!View'[op[e].task] # None
    BY <1>1, <2>1, <2>2, <2>4, ServiceFacts DEF Svc!InsertCache, Svc!View
  <2> HIDE DEF new
  <2> QED
    BY <1>0, <1>2, <2>1, <2>2, <2>3, <2>5, EnqMoves
<1>4. ASSUME NEW t \in Task, GetTask(e, t) PROVE CallInv' /\ (Svc!Next \/ UNCHANGED svcVars)
  <2>1. t \in enq[e].todo /\ enq[e].at = "next" /\ UNCHANGED svcVars /\ queue' = queue
    BY <1>4 DEF GetTask, EnqStep
  <2>2. \A u \in enq[e].todo : Svc!View[u] # None /\ Svc!View'[u] # None
    BY <1>0, <2>1 DEF ListOf, svcVars, Svc!View
  <2>3. CASE Disabled
    <3> DEFINE new == [enq[e] EXCEPT !.todo = enq[e].todo \ {t}]
    <3>1. EnqStep(e, "next", new)
      BY <1>4, <2>3 DEF GetTask
    <3>2. new \in EnqRec /\ new.at = "next" /\ new.todo = enq[e].todo \ {t}
      BY <1>0, <2>1 DEF EnqRec
    <3> HIDE DEF new
    <3> QED
      BY <1>0, <1>2, <2>1, <2>2, <3>1, <3>2, EnqMoves
  <2>4. CASE ~Disabled
    <3> DEFINE new == [at |-> "scan", todo |-> enq[e].todo \ {t}, task |-> t,
                       files |-> Svc!View[t].files, i |-> 1]
    <3>1. EnqStep(e, "next", new)
      BY <1>4, <2>4 DEF GetTask
    <3>2. Svc!View[t].files \in Svc!FileMap
      BY <1>1, <2>1, <2>2 DEF Svc!TaskRec
    <3>3. 1 \in 0..(MaxFiles + 1) /\ "scan" \in EnqAt
      BY DownloadsAssumption DEF EnqAt
    <3>4. new \in EnqRec
      BY <1>0, <3>2, <3>3 DEF EnqRec
    <3>5. enq'[e] = new /\ closing' = closing
      BY <1>4, <3>1 DEF EnqStep, GetTask, CallInv, Lists
    <3>6. ListOf(e)'
      BY <2>2, <3>2, <3>5 DEF ListOf, Scanning
    <3> HIDE DEF new
    <3> QED
      BY <1>0, <1>2, <2>1, <3>1, <3>4, <3>5, <3>6, EnqStepInv
  <2> QED
    BY <2>3, <2>4
<1>5. CASE Skip(e)
  BY <1>2, <1>5, NextFileMoves DEF Skip, InScan, Scanning
<1>6. CASE Submit(e)
  <2> DEFINE new == [enq[e] EXCEPT !.at = "submitted"]
             j   == [task |-> enq[e].task, file |-> enq[e].i]
  <2>1. /\ enq[e].at = "scan" /\ enq[e].i \in DOMAIN enq[e].files
        /\ EnqStep(e, "scan", new) /\ queue' = Append(queue, j)
        /\ Len(queue) < QueueSize /\ UNCHANGED svcVars
    BY <1>6 DEF Submit, InScan
  <2>2. enq[e].task \in Task /\ enq[e].i \in 1..MaxFiles /\ enq[e].i \in Nat \ {0}
    <3>1. enq[e].task \in Task /\ enq[e].files \in Svc!FileMap
      BY <1>0, <2>1 DEF ListOf, Scanning
    <3>2. PICK n \in 1..MaxFiles : n \in Nat /\ DOMAIN enq[e].files = 1..n
      BY <3>1, FileMapDomain
    <3> QED
      BY <2>1, <3>1, <3>2, DownloadsAssumption
  <2>3. j \in JobRec
    BY <2>2 DEF JobRec
  <2>4. queue' \in Seq(JobRec) /\ Len(queue') <= QueueSize
    <3>1. queue' \in Seq(JobRec) /\ Len(queue') = Len(queue) + 1
      BY <1>0, <2>1, <2>3
    <3>2. Len(queue) \in Nat /\ QueueSize \in Nat
      BY DownloadsAssumption
    <3> QED
      BY <2>1, <3>1, <3>2
  <2>5. /\ new \in EnqRec /\ new.at = "submitted" /\ new.todo = enq[e].todo
        /\ new.task = enq[e].task /\ new.files = enq[e].files /\ new.i = enq[e].i
    BY <1>0 DEF EnqAt, EnqRec
  <2>6. "submitted" \in Scanning /\ "scan" \in Scanning
    BY DEF Scanning
  <2> HIDE DEF new
  <2> QED
    BY <1>2, <2>1, <2>2, <2>4, <2>5, <2>6, EnqMoves
<1>7. CASE SubmitFails(e)
  BY <1>2, <1>7, FailMoves DEF SubmitFails
<1>8. CASE BeginMark(e)
  <2> DEFINE new == [enq[e] EXCEPT !.at = "marking"]
  <2>1. /\ enq[e].at = "submitted" /\ EnqStep(e, "submitted", new) /\ queue' = queue
        /\ Svc!Load(e, "queued", enq[e].task, enq[e].i)
    BY <1>8 DEF BeginMark, EnqStep
  <2>2. /\ enq[e].task \in Task /\ enq[e].i \in 1..MaxFiles /\ enq[e].i \in Nat \ {0}
        /\ enq[e].i \in DOMAIN enq[e].files
    <3>1. /\ enq[e].task \in Task /\ enq[e].files \in Svc!FileMap
          /\ enq[e].i \in DOMAIN enq[e].files
      BY <1>0, <2>1 DEF ListOf, Scanning
    <3>2. PICK n \in 1..MaxFiles : n \in Nat /\ DOMAIN enq[e].files = 1..n
      BY <3>1, FileMapDomain
    <3> QED
      BY <3>1, <3>2, DownloadsAssumption
  <2>3. ServiceCall(e)
    BY <2>1, <2>2 DEF ServiceCall, Svc!Step, Svc!MarkCall
  <2>4. /\ new \in EnqRec /\ new.at = "marking" /\ new.todo = enq[e].todo
        /\ new.task = enq[e].task /\ new.files = enq[e].files /\ new.i = enq[e].i
    BY <1>0 DEF EnqAt, EnqRec
  <2>5. "submitted" \in Scanning /\ "marking" \in Scanning
    BY DEF Scanning
  <2> HIDE DEF new
  <2> QED
    BY <1>0, <2>1, <2>2, <2>3, <2>4, <2>5, EnqMoves
<1>9. CASE Marked(e)
  <2>1. NextFile(e, "marking") /\ queue' = queue /\ ServiceCall(e)
    BY <1>2, <1>9 DEF Marked
  <2>2. "marking" \in Scanning /\ enq[e].i \in DOMAIN enq[e].files
    BY <1>0, <2>1 DEF Scanning, ListOf, NextFile, EnqStep
  <2> QED
    BY <2>1, <2>2, NextFileMoves
<1>10. CASE MarkFails(e)
  BY <1>2, <1>10, FailMoves DEF MarkFails
<1>11. CASE TaskDone(e)
  <2> DEFINE new == [Idle EXCEPT !.at = "next", !.todo = enq[e].todo]
  <2>1. EnqStep(e, "scan", new) /\ UNCHANGED svcVars /\ queue' = queue /\ enq[e].at = "scan"
    BY <1>11 DEF TaskDone
  <2>2. enq[e].todo \in SUBSET Task
    BY <1>0 DEF EnqRec
  <2>3. new \in EnqRec /\ new.at = "next" /\ new.todo = enq[e].todo
    BY <2>2, EnqFacts DEF Idle
  <2>4. \A t \in enq[e].todo : Svc!View'[t] # None
    BY <1>0, <2>1 DEF ListOf, Scanning, svcVars, Svc!View
  <2> HIDE DEF new
  <2> QED
    BY <1>0, <1>2, <2>1, <2>3, <2>4, EnqMoves
<1>12. CASE Return(e)
  BY <1>2, <1>12, FailMoves DEF Return
<1> QED
  BY <1>3, <1>4, <1>5, <1>6, <1>7, <1>8, <1>9, <1>10, <1>11, <1>12 DEF EnqNext

LEMMA StartEnqInv ==
  ASSUME CallInv, NEW e \in Enqueuer,
         \/ \E t \in Task, n \in 1..MaxFiles : Create(e, t, n)
         \/ Tick(e) \/ RetryExit(e)
  PROVE  CallInv' /\ (Svc!Next \/ UNCHANGED svcVars)
<1>0. /\ enq[e] \in EnqRec /\ ListOf(e) /\ Idle \in EnqRec
      /\ queue \in Seq(JobRec) /\ Len(queue) <= QueueSize
  BY EnqFacts
<1>1. ASSUME NEW t \in Task, NEW n \in 1..MaxFiles, Create(e, t, n)
      PROVE  CallInv' /\ (Svc!Next \/ UNCHANGED svcVars)
  <2> DEFINE at  == IF UseCache THEN "creating" ELSE "next"
             new == [Idle EXCEPT !.at = at, !.todo = {t}]
  <2>1. EnqStep(e, "idle", new) /\ Svc!CreateTask(e, t, n) /\ queue' = queue
    BY <1>1 DEF Create
  <2>2. ServiceCall(e)
    BY <2>1 DEF ServiceCall, Svc!Step
  <2>3. new \in EnqRec /\ new.at = at /\ new.todo = {t}
    BY <1>0 DEF EnqRec, EnqAt, Idle
  <2>4. enq'[e] = new /\ closing' = closing
    BY <2>1, <1>1 DEF EnqStep, Create, CallInv, Lists
  <2>5. ListOf(e)'
    <3>1. CASE UseCache
      <4>1. op'[e] = [call |-> "create", task |-> t, file |-> 1, clone |-> Svc!NewTask(n)]
        BY <2>1, <3>1, ServiceFacts DEF Svc!CreateTask, CallInv
      <4>2. op' [e] # None
        <5>1. op' \in [Worker \cup Enqueuer -> Svc!OpRec \cup {None}] /\ None \notin Svc!OpRec
          BY <2>2, CallFacts, SameSets, DownloadsAssumption DEF CallInv, P!IInv, P!TypeOK
        <5>2. 1 \in 1..MaxFiles /\ Svc!NewTask(n) \in Svc!TaskRec
          BY P!NewTaskType, ServiceAssumed, SameFunctions, SameSets, DownloadsAssumption
        <5>3. op'[e] \in Svc!OpRec
          BY <4>1, <5>2 DEF Svc!OpRec
        <5> QED
          BY <5>1, <5>3
      <4> QED
        BY <2>3, <2>4, <3>1, <4>1, <4>2 DEF ListOf, Svc!InCall, Scanning
    <3>2. CASE ~UseCache
      <4>1. store'[t] = Svc!NewTask(n) /\ Svc!NewTask(n) \in Svc!TaskRec
        BY <2>1, ServiceFacts, P!NewTaskType, ServiceAssumed, SameFunctions, SameSets
           DEF Svc!CreateTask, Svc!StoreCreate, CallInv
      <4>2. Svc!View'[t] # None
        BY <3>2, <4>1, DownloadsAssumption DEF Svc!View
      <4> QED
        BY <2>3, <2>4, <3>2, <4>2 DEF ListOf, Scanning
    <3> QED
      BY <3>1, <3>2, DownloadsAssumption
  <2> HIDE DEF new
  <2> QED
    BY <1>0, <2>1, <2>2, <2>3, <2>4, <2>5, EnqStepInv
<1>2. CASE Tick(e)
  <2> DEFINE todo == {t \in Task : Svc!View[t] # None}
             new  == [Idle EXCEPT !.at = "next", !.todo = todo]
  <2>1. EnqStep(e, "idle", new) /\ UNCHANGED svcVars /\ queue' = queue
    BY <1>2 DEF Tick
  <2>2. todo \in SUBSET Task /\ \A t \in todo : Svc!View'[t] # None
    BY <2>1 DEF svcVars, Svc!View
  <2>3. new \in EnqRec /\ new.at = "next" /\ new.todo = todo
    BY <2>2, EnqFacts DEF Idle
  <2> HIDE DEF new, todo
  <2> QED
    BY <1>0, <2>1, <2>2, <2>3, EnqMoves DEF ServiceCall
<1>3. CASE RetryExit(e)
  <2>1. [Idle EXCEPT !.at = "gone"] \in EnqRec /\ [Idle EXCEPT !.at = "gone"].at = "gone"
    BY <1>0 DEF EnqRec, EnqAt, Idle
  <2> QED
    BY <1>0, <1>3, <2>1, EnqMoves DEF RetryExit, ServiceCall
<1> QED
  BY <1>1, <1>2, <1>3

(***************************************************************************)
(* The steps of the rest, and the theorem about the service.               *)
(***************************************************************************)
LEMMA RestInv ==
  ASSUME CallInv, UNCHANGED <<svcVars, queue, stage, job, detached, enq>>,
         cancelled' \in BOOLEAN,
         closing' \in {"open", "disabled", "stopping", "draining", "over"}
  PROVE  CallInv'
<1>1. P!IInv'
  BY ServiceStutter DEF CallInv
<1>2. Jobs'
  BY DEF CallInv, Jobs
<1>3. Lists'
  BY DEF CallInv, Lists, ListOf, svcVars, Svc!View, Svc!InCall
<1> QED
  BY <1>1, <1>2, <1>3 DEF CallInv

LEMMA InitCallInv == Init => CallInv
<1> SUFFICES ASSUME Init PROVE CallInv
  OBVIOUS
<1>1. P!IInv
  <2>1. P!Loaded = Svc!Loaded
    BY SameSets, SameFunctions DEF P!Loaded, Svc!Loaded
  <2>2. P!Init
    BY <2>1 DEF Init, Svc!Init, P!Init
  <2> QED
    BY <2>2, P!InitIInv, ServiceAssumed
<1>2. Jobs
  <2>1. <<>> \in Seq(JobRec) /\ Len(<<>>) = 0 /\ QueueSize \in Nat
    BY DownloadsAssumption
  <2> QED
    BY <2>1 DEF Init, Jobs, Stage
<1>3. Lists
  <2>1. Idle \in EnqRec /\ Idle.at = "idle"
    <3>1. 0 \in 0..(MaxFiles + 1)
      BY DownloadsAssumption
    <3> QED
      BY <3>1 DEF EnqRec, EnqAt, Idle
  <2>2. enq \in [Enqueuer -> EnqRec] /\ \A e \in Enqueuer : enq[e].at = "idle"
    BY <2>1 DEF Init
  <2> QED
    BY <2>2 DEF Lists, ListOf, Scanning
<1> QED
  BY <1>1, <1>2, <1>3 DEF Init, CallInv

LEMMA NextCallInv ==
  CallInv /\ [Next]_vars => CallInv' /\ [Svc!Next]_Svc!svcVars
<1> SUFFICES ASSUME CallInv, [Next]_vars PROVE CallInv' /\ (Svc!Next \/ UNCHANGED svcVars)
  BY DEF svcVars, Svc!svcVars
<1>1. ASSUME NEW w \in Worker, WorkerNext(w) PROVE CallInv' /\ (Svc!Next \/ UNCHANGED svcVars)
  BY <1>1, WorkerNextInv
<1>2. ASSUME NEW e \in Enqueuer, EnqNext(e) PROVE CallInv' /\ (Svc!Next \/ UNCHANGED svcVars)
  BY <1>2, EnqNextInv
<1>3. ASSUME NEW e \in Enqueuer,
             \/ \E t \in Task, n \in 1..MaxFiles : Create(e, t, n)
             \/ Tick(e) \/ RetryExit(e)
      PROVE  CallInv' /\ (Svc!Next \/ UNCHANGED svcVars)
  BY <1>3, StartEnqInv
<1>4. CASE DisableEnqueue \/ Cancel \/ CloseNext
  <2>1. UNCHANGED <<svcVars, queue, stage, job, detached, enq>>
    BY <1>4 DEF DisableEnqueue, Cancel, CloseNext, StopRetry, ClosePool, Drained, CloseStep
  <2>2. /\ cancelled' \in BOOLEAN
        /\ closing' \in {"open", "disabled", "stopping", "draining", "over"}
    BY <1>4 DEF DisableEnqueue, Cancel, CloseNext, StopRetry, ClosePool, Drained, CloseStep, CallInv
  <2> QED
    BY <2>1, <2>2, RestInv
<1>5. CASE UNCHANGED vars
  <2>1. /\ UNCHANGED <<svcVars, queue, stage, job, detached, enq>>
        /\ cancelled' \in BOOLEAN
        /\ closing' \in {"open", "disabled", "stopping", "draining", "over"}
    BY <1>5 DEF vars, svcVars, CallInv
  <2> QED
    BY <2>1, RestInv
<1> QED
  BY <1>1, <1>2, <1>3, <1>4, <1>5 DEF Next, Enqueuer

\* Workers, handlers and retry loops use the service as the module TaskService says,
\* so that what holds of its callers holds of them.
THEOREM UsesService == Spec => Svc!Spec
<1>1. Init => Svc!Init
  BY DEF Init
<1> QED
  BY <1>1, InitCallInv, NextCallInv, PTL DEF Spec, Svc!Spec

\* In memory mode a completed file stays completed, whatever handlers, retry loops and
\* workers do at once: TaskServiceProofs shows it for any callers (service.go:276, :496).
THEOREM CompletedStaysCompleted ==
  ASSUME UseCache
  PROVE  Spec => CompletedIsFinal
<1>1. Init => P!Init
  <2>1. P!Loaded = Svc!Loaded
    BY SameSets, SameFunctions DEF P!Loaded, Svc!Loaded
  <2> QED
    BY <2>1 DEF Init, Svc!Init, P!Init
<1>2. [Svc!Next]_Svc!svcVars => [P!Next]_P!svcVars
  BY SameSteps, SameSets DEF Svc!Next, P!Next, Svc!Step, P!Step, Svc!svcVars, P!svcVars
<1>3. P!Spec => P!CompletedIsFinal
  BY P!CompletedStays, ServiceAssumed
<1>4. Spec => P!Spec
  BY <1>1, <1>2, InitCallInv, NextCallInv, PTL DEF Spec, P!Spec
<1> QED
  BY <1>3, <1>4 DEF CompletedIsFinal, Svc!CompletedIsFinal, P!CompletedIsFinal,
                    Svc!svcVars, P!svcVars

\* Every variable stays in its type: the queue within its capacity, each job of a file
\* that a task can have.
THEOREM TypeCorrect == Spec => []TypeOK
<1>1. CallInv => TypeOK
  BY SameSets DEF CallInv, P!IInv, P!TypeOK, Svc!TypeOK, Jobs, Lists, TypeOK
<1> QED
  BY <1>1, InitCallInv, NextCallInv, PTL DEF Spec

(***************************************************************************)
(* No file is forgotten.  In memory mode, with a store that fails nothing  *)
(* and before a cancellation.                                              *)
(***************************************************************************)
\* The conditions of QueuedHasJob.
Calm == UseCache /\ ~StoreFaults /\ ~cancelled

\* No task is stored with a file queued or downloading when the process starts.
FreshStart ==
  \A rec \in AtStart : \A i \in DOMAIN rec.files : rec.files[i] \notin {"queued", "downloading"}

\* Inside a Mark call a goroutine has the call its program counter says.
CallIs(p, c, t, i) ==
  op[p] # None /\ op[p].call = c /\ op[p].task = t /\ op[p].file = i

WorkerCalls(w) ==
  /\ stage[w] = "starting"   => CallIs(w, "downloading", job[w].task, job[w].file)
  /\ stage[w] = "completing" => CallIs(w, "completed", job[w].task, job[w].file)
  /\ stage[w] = "failing"    => CallIs(w, "error", job[w].task, job[w].file)

EnqCalls(e) == enq[e].at = "marking" => CallIs(e, "queued", enq[e].task, enq[e].i)

\* The copy that Enqueue decides on is an older version of the task.
CopyOld(e) ==
  UseCache /\ enq[e].at \in Scanning =>
    LET t == enq[e].task IN
    /\ store[t] # None /\ DOMAIN store[t].files = DOMAIN enq[e].files
    /\ \A k \in DOMAIN enq[e].files : enq[e].files[k] # "waiting" => ~Is(t, k, "waiting")

\* Of the files that it has passed, those that still wait have a job.
Passed(e) ==
  Calm /\ enq[e].at \in Scanning =>
    \A k \in DOMAIN enq[e].files :
      /\ k < enq[e].i \/ (k = enq[e].i /\ enq[e].at # "scan")
      /\ Is(enq[e].task, k, "waiting")
      => JobWaits(enq[e].task, k)

\* The inductive invariant behind the theorems about files.
FileInv ==
  /\ CallInv
  /\ \A w \in Worker : WorkerCalls(w)
  /\ \A e \in Enqueuer : EnqCalls(e) /\ CopyOld(e) /\ Passed(e)
  /\ QueuedHasJob
  /\ DownloadingHasWorker

\* In memory mode a call works on the stored task.
LEMMA CloneStored ==
  ASSUME CallInv, UseCache, NEW p \in Worker \cup Enqueuer, Svc!InMark(p)
  PROVE  /\ op[p].task \in Task /\ op[p].call \in Svc!MarkCall
         /\ op[p].clone \in Svc!TaskRec
         /\ store[op[p].task] = op[p].clone /\ store[op[p].task] # None
         /\ op[p].file \in DOMAIN op[p].clone.files
<1>1. P!InMark(p) /\ op[p] \in Svc!OpRec /\ P!IInv
  BY SameSteps, ServiceFacts DEF CallInv, Svc!InMark
<1>2. op[p].task \in Task /\ op[p].clone \in Svc!TaskRec /\ op[p].call \in Svc!MarkCall
  BY <1>1 DEF Svc!OpRec, Svc!InMark
<1>3. op[p].file \in DOMAIN op[p].clone.files
  BY <1>1 DEF P!IInv, P!FileInRange
<1>4. cache[op[p].task] = op[p].clone /\ op[p].clone # None
  BY <1>1, <1>2, DownloadsAssumption DEF P!IInv, P!CloneFresh
<1>5. store[op[p].task] = cache[op[p].task]
  BY <1>1, <1>2, <1>4 DEF P!IInv, P!CacheMatchesStore
<1> QED
  BY <1>2, <1>3, <1>4, <1>5

\* A Commit changes one file of it, from a status that the call accepts.
LEMMA CommitFile ==
  ASSUME CallInv, UseCache, NEW p \in Worker \cup Enqueuer, Svc!Commit(p),
         NEW c, NEW t, NEW i, CallIs(p, c, t, i)
  PROVE  /\ t \in Task /\ i \in DOMAIN store[t].files
         /\ c = "queued" => Is(t, i, "waiting")
         /\ \A u \in Task : store[u] # None =>
              store'[u] # None /\ DOMAIN store'[u].files = DOMAIN store[u].files
         /\ \A u \in Task : \A k, st :
              Is(u, k, st)' <=> IF u = t /\ k = i THEN st = c ELSE Is(u, k, st)
<1> DEFINE new == Svc!SetFile(op[p].clone, op[p].file, op[p].call)
<1>1. /\ Svc!InMark(p) /\ op[p].task = t /\ op[p].file = i /\ op[p].call = c
      /\ Svc!MayMark(op[p].clone.files[op[p].file], op[p].call)
      /\ store' = [store EXCEPT ![t] = new]
  BY DEF Svc!Commit, CallIs, Svc!StoreUpdate
<1>2. /\ t \in Task /\ c \in Svc!MarkCall /\ op[p].clone \in Svc!TaskRec
      /\ store[t] = op[p].clone /\ store[t] # None /\ i \in DOMAIN store[t].files
  BY <1>1, CloneStored
<1>3. /\ new \in Svc!TaskRec /\ new.files = [store[t].files EXCEPT ![i] = c]
  <2>1. c \in P!FileStatus
    BY <1>2, SameSets DEF Svc!MarkCall, FileStatus
  <2>2. /\ P!SetFile(op[p].clone, i, c) \in P!TaskRec
        /\ P!SetFile(op[p].clone, i, c).files = [op[p].clone.files EXCEPT ![i] = c]
    BY <1>2, <2>1, P!SetFileType, ServiceAssumed, SameSets
  <2> QED
    BY <1>1, <1>2, <2>2, SameFunctions, SameSets
<1>4. new # None
  BY <1>3, DownloadsAssumption
<1> HIDE DEF new
<1>5. store \in [Task -> Svc!TaskRec \cup {None}]
  BY ServiceFacts DEF CallInv
<1>6. store'[t] = new /\ \A u \in Task : u # t => store'[u] = store[u]
  BY <1>1, <1>2, <1>5
<1>7. DOMAIN new.files = DOMAIN store[t].files
  BY <1>3
<1>8. c = "queued" => Is(t, i, "waiting")
  BY <1>1, <1>2 DEF Svc!MayMark, Is
<1>9. \A u \in Task : store[u] # None =>
        store'[u] # None /\ DOMAIN store'[u].files = DOMAIN store[u].files
  BY <1>4, <1>6, <1>7
<1>10. ASSUME NEW u \in Task, NEW k, NEW st
       PROVE  Is(u, k, st)' <=> IF u = t /\ k = i THEN st = c ELSE Is(u, k, st)
  <2>1. CASE u # t
    BY <1>6, <2>1 DEF Is
  <2>2. CASE u = t
    <3>1. \A j \in DOMAIN store[t].files :
            new.files[j] = IF j = i THEN c ELSE store[t].files[j]
      BY <1>3
    <3>2. Is(u, k, st)' <=> k \in DOMAIN store[t].files /\ new.files[k] = st
      BY <1>4, <1>6, <1>7, <2>2 DEF Is
    <3>3. Is(u, k, st) <=> k \in DOMAIN store[t].files /\ store[t].files[k] = st
      BY <1>2, <2>2 DEF Is
    <3> QED
      BY <1>2, <2>2, <3>1, <3>2, <3>3
  <2> QED
    BY <2>1, <2>2
<1> QED
  BY <1>2, <1>8, <1>9, <1>10

\* A Mark call that is refused found the file already queued, or completed.
LEMMA RefuseFile ==
  ASSUME CallInv, UseCache, NEW p \in Worker \cup Enqueuer, Svc!Refuse(p),
         NEW c, NEW t, NEW i, CallIs(p, c, t, i)
  PROVE  /\ store' = store
         /\ c # "queued" => Is(t, i, "completed")
<1>1. /\ Svc!InMark(p) /\ op[p].task = t /\ op[p].file = i /\ op[p].call = c
      /\ ~Svc!MayMark(op[p].clone.files[op[p].file], op[p].call)
      /\ store' = store
  BY DEF Svc!Refuse, CallIs
<1>2. store[t] = op[p].clone /\ store[t] # None /\ i \in DOMAIN store[t].files
  BY <1>1, CloneStored
<1> QED
  BY <1>1, <1>2 DEF Svc!MayMark, Is

\* The step gives file i of t the status c, or finds it so; it is all it changes.
Sets(t, i, c) ==
  /\ \A u \in Task : store[u] # None =>
       store'[u] # None /\ DOMAIN store'[u].files = DOMAIN store[u].files
  /\ \A u \in Task : \A k, st :
       Is(u, k, st)' <=> IF u = t /\ k = i THEN st = c ELSE Is(u, k, st)

\* A task that is stored stays, with its files, and none of them waits again.
Stays ==
  UseCache => \A t \in Task : store[t] # None =>
    /\ store'[t] # None /\ DOMAIN store'[t].files = DOMAIN store[t].files
    /\ \A k : Is(t, k, "waiting")' => Is(t, k, "waiting")

\* What a step does to a file that has a job or a worker.
Handed ==
  Calm' => \A t \in Task, k \in 1..MaxFiles :
    /\ (Is(t, k, "waiting")' \/ Is(t, k, "queued")') => (JobWaits(t, k) => JobWaits(t, k)')
    /\ Is(t, k, "queued")' => Is(t, k, "queued") \/ JobWaits(t, k)
    /\ Is(t, k, "downloading")' =>
         WorkerHas(t, k)' \/ (Is(t, k, "downloading") /\ ~WorkerHas(t, k))

\* What every step is shown to do, whoever takes it.
Effect == (Calm' => Calm) /\ Stays /\ Handed

LEMMA FileStep ==
  ASSUME FileInv, Effect
  PROVE  /\ QueuedHasJob' /\ DownloadingHasWorker'
         /\ \A e \in Enqueuer : enq'[e] = enq[e] => CopyOld(e)' /\ Passed(e)'
<1>1. QueuedHasJob'
  <2> SUFFICES ASSUME Calm', NEW t \in Task, NEW k \in 1..MaxFiles, Is(t, k, "queued")'
               PROVE  JobWaits(t, k)'
    BY DEF QueuedHasJob, Calm
  <2>1. Is(t, k, "queued") \/ JobWaits(t, k)
    BY DEF Effect, Handed
  <2>2. JobWaits(t, k)
    BY <2>1 DEF Effect, FileInv, QueuedHasJob, Calm
  <2> QED
    BY <2>2 DEF Effect, Handed
<1>2. DownloadingHasWorker'
  <2> SUFFICES ASSUME Calm', NEW t \in Task, NEW k \in 1..MaxFiles, Is(t, k, "downloading")'
               PROVE  WorkerHas(t, k)'
    BY DEF DownloadingHasWorker, Calm
  <2>1. Is(t, k, "downloading") => WorkerHas(t, k)
    BY DEF Effect, FileInv, DownloadingHasWorker, Calm
  <2> QED
    BY <2>1 DEF Effect, Handed
<1>3. ASSUME NEW e \in Enqueuer, enq'[e] = enq[e] PROVE CopyOld(e)' /\ Passed(e)'
  <2>1. CASE ~UseCache \/ enq[e].at \notin Scanning
    BY <1>3, <2>1 DEF CopyOld, Passed, Calm
  <2>2. CASE UseCache /\ enq[e].at \in Scanning
    <3>1. enq[e].task \in Task /\ enq[e].files \in Svc!FileMap
      BY <2>2, EnqFacts DEF FileInv, ListOf
    <3>2. CopyOld(e)
      BY DEF FileInv
    <3>3. CopyOld(e)'
      BY <1>3, <2>2, <3>1, <3>2 DEF CopyOld, Effect, Stays
    <3>4. ASSUME Calm', NEW k \in DOMAIN enq[e].files,
                 k < enq[e].i \/ (k = enq[e].i /\ enq[e].at # "scan"),
                 Is(enq[e].task, k, "waiting")'
          PROVE  JobWaits(enq[e].task, k)'
      <4>1. Is(enq[e].task, k, "waiting") /\ Calm
        BY <1>3, <2>2, <3>1, <3>2, <3>4 DEF CopyOld, Effect, Stays
      <4>2. JobWaits(enq[e].task, k)
        BY <2>2, <3>4, <4>1 DEF FileInv, Passed
      <4>3. k \in 1..MaxFiles
        BY <3>1, <3>4, FileMapDomain, DownloadsAssumption
      <4> QED
        BY <1>3, <3>1, <3>4, <4>2, <4>3 DEF Effect, Handed
    <3>5. Passed(e)'
      BY <1>3, <3>4 DEF Passed
    <3> QED
      BY <3>3, <3>5
  <2> QED
    BY <2>1, <2>2
<1> QED
  BY <1>1, <1>2, <1>3

\* A step of a worker leaves the calls of the others alone.
LEMMA WorkerFiles ==
  ASSUME FileInv, CallInv', NEW w \in Worker, ServiceCall(w),
         NEW from, NEW to, WorkerStep(w, from, to),
         NEW j, job' = [job EXCEPT ![w] = j],
         Effect, WorkerCalls(w)'
  PROVE  FileInv'
<1>1. /\ enq' = enq /\ stage' = [stage EXCEPT ![w] = to]
      /\ stage \in [Worker -> Stage] /\ job \in [Worker -> JobRec \cup {None}]
  BY DEF WorkerStep, FileInv, CallInv, Jobs
<1>2. \A q \in Worker \cup Enqueuer : q # w => op'[q] = op[q]
  BY CallFacts DEF FileInv, CallInv
<1>3. ASSUME NEW v \in Worker, v # w PROVE WorkerCalls(v)'
  <2>1. stage'[v] = stage[v] /\ job'[v] = job[v] /\ op'[v] = op[v] /\ WorkerCalls(v)
    BY <1>1, <1>2, <1>3 DEF FileInv
  <2> QED
    BY <2>1 DEF WorkerCalls, CallIs
<1>4. ASSUME NEW e \in Enqueuer PROVE EnqCalls(e)'
  <2>1. op'[e] = op[e] /\ enq'[e] = enq[e] /\ EnqCalls(e)
    BY <1>1, <1>2, DownloadsAssumption DEF FileInv
  <2> QED
    BY <2>1 DEF EnqCalls, CallIs
<1> QED
  BY <1>1, <1>3, <1>4, FileStep DEF FileInv

LEMMA EnqFiles ==
  ASSUME FileInv, CallInv', NEW e \in Enqueuer, ServiceCall(e),
         NEW from, NEW new, EnqStep(e, from, new),
         Effect, EnqCalls(e)', CopyOld(e)', Passed(e)'
  PROVE  FileInv'
<1>1. /\ enq' = [enq EXCEPT ![e] = new] /\ stage' = stage /\ job' = job
      /\ enq \in [Enqueuer -> EnqRec]
  BY DEF EnqStep, FileInv, CallInv, Lists
<1>2. \A q \in Worker \cup Enqueuer : q # e => op'[q] = op[q]
  BY CallFacts DEF FileInv, CallInv
<1>3. ASSUME NEW w \in Worker PROVE WorkerCalls(w)'
  <2>1. op'[w] = op[w] /\ stage'[w] = stage[w] /\ job'[w] = job[w] /\ WorkerCalls(w)
    BY <1>1, <1>2, DownloadsAssumption DEF FileInv
  <2> QED
    BY <2>1 DEF WorkerCalls, CallIs
<1>4. ASSUME NEW d \in Enqueuer, d # e PROVE EnqCalls(d)' /\ CopyOld(d)' /\ Passed(d)'
  <2>1. op'[d] = op[d] /\ enq'[d] = enq[d] /\ EnqCalls(d)
    BY <1>1, <1>2, <1>4 DEF FileInv
  <2>2. EnqCalls(d)'
    BY <2>1 DEF EnqCalls, CallIs
  <2> QED
    BY <2>1, <2>2, FileStep
<1> QED
  BY <1>3, <1>4, FileStep DEF FileInv

(***************************************************************************)
(* Where the jobs go.                                                      *)
(***************************************************************************)
\* The stages before and after MarkFileStarted.
Waits(st) == st \in {"took", "starting"}
Has(st)   == st \in Stage \ {"idle", "took", "starting"}

\* A job that is not the worker's stays where it is; so does the worker's, if its
\* stage stays on the same side of MarkFileStarted.
LEMMA JobsKept ==
  ASSUME FileInv, NEW w \in Worker, NEW from, NEW to, WorkerStep(w, from, to),
         NEW j, job' = [job EXCEPT ![w] = j], queue' = queue,
         NEW t, NEW k
  PROVE  LET mine == job[w] = [task |-> t, file |-> k]
             same == j = job[w] IN
         /\ JobWaits(t, k) /\ (mine /\ Waits(from) => same /\ Waits(to)) => JobWaits(t, k)'
         /\ WorkerHas(t, k)' \/ (mine /\ Has(from) /\ ~(same /\ Has(to))) \/ ~WorkerHas(t, k)
<1> DEFINE rec == [task |-> t, file |-> k]
<1>1. /\ stage' = [stage EXCEPT ![w] = to] /\ stage[w] = from
      /\ stage \in [Worker -> Stage] /\ job \in [Worker -> JobRec \cup {None}]
  BY DEF WorkerStep, FileInv, CallInv, Jobs
<1>2. \A v \in Worker : v # w => stage'[v] = stage[v] /\ job'[v] = job[v]
  BY <1>1
<1>3. stage'[w] = to /\ job'[w] = j
  BY <1>1
<1> HIDE DEF rec
<1>4. ASSUME JobWaits(t, k), job[w] = rec /\ Waits(from) => j = job[w] /\ Waits(to)
      PROVE  JobWaits(t, k)'
  <2>1. CASE \E n \in DOMAIN queue : queue[n] = rec
    BY <2>1 DEF JobWaits, rec
  <2>2. CASE \E v \in Worker : Waits(stage[v]) /\ job[v] = rec
    <3>1. PICK v \in Worker : Waits(stage[v]) /\ job[v] = rec
      BY <2>2
    <3>2. Waits(stage'[v]) /\ job'[v] = rec
      BY <1>1, <1>2, <1>3, <1>4, <3>1
    <3> QED
      BY <3>2 DEF JobWaits, rec, Waits
  <2> QED
    BY <1>4, <2>1, <2>2 DEF JobWaits, rec, Waits
<1>5. ASSUME WorkerHas(t, k), ~(job[w] = rec /\ Has(from) /\ ~(j = job[w] /\ Has(to)))
      PROVE  WorkerHas(t, k)'
  <2>1. PICK v \in Worker : Has(stage[v]) /\ job[v] = rec
    BY <1>5 DEF WorkerHas, rec, Has
  <2>2. Has(stage'[v]) /\ job'[v] = rec
    BY <1>1, <1>2, <1>3, <1>5, <2>1
  <2> QED
    BY <2>2 DEF WorkerHas, rec, Has
<1> QED
  BY <1>4, <1>5 DEF rec

LEMMA SetsStays ==
  ASSUME store' = store \/ \E t, i, c : c # "waiting" /\ Sets(t, i, c)
  PROVE  Stays
<1>1. CASE store' = store
  BY <1>1 DEF Stays, Is
<1>2. ASSUME NEW t, NEW i, NEW c, c # "waiting", Sets(t, i, c) PROVE Stays
  <2>1. ASSUME NEW u \in Task, NEW k, Is(u, k, "waiting")' PROVE Is(u, k, "waiting")
    BY <1>2, <2>1 DEF Sets
  <2> QED
    BY <1>2, <2>1 DEF Sets, Stays
<1> QED
  BY <1>1, <1>2

\* A worker that keeps its job on the same side of MarkFileStarted.
LEMMA KeepEffect ==
  ASSUME FileInv, NEW w \in Worker, NEW from, NEW to, WorkerStep(w, from, to),
         job' = job, queue' = queue, store' = store,
         Waits(from) => Waits(to), Has(from) => Has(to)
  PROVE  Effect
<1>1. job' = [job EXCEPT ![w] = job[w]]
  BY DEF FileInv, CallInv, Jobs
<1>2. (Calm' => Calm) /\ Stays
  BY SetsStays DEF Calm, WorkerStep
<1>3. ASSUME NEW t \in Task, NEW k \in 1..MaxFiles
      PROVE  /\ JobWaits(t, k) => JobWaits(t, k)'
             /\ WorkerHas(t, k)' \/ ~WorkerHas(t, k)
             /\ \A st : Is(t, k, st)' <=> Is(t, k, st)
  BY <1>1, JobsKept DEF Is
<1> QED
  BY <1>2, <1>3 DEF Effect, Handed

\* A worker that ends a job whose file is completed or failed by then.
LEMMA DropEffect ==
  ASSUME FileInv, NEW w \in Worker, NEW from, Drop(w, from),
         \/ store' = store /\ ~Calm'
         \/ \E c \in {"completed", "error"} : Sets(job[w].task, job[w].file, c)
  PROVE  Effect
<1>1. /\ WorkerStep(w, from, "idle") /\ job' = [job EXCEPT ![w] = None] /\ queue' = queue
  BY DEF Drop
<1>2. (Calm' => Calm) /\ Stays
  BY <1>1, SetsStays DEF Calm, WorkerStep
<1>3. ASSUME Calm', NEW t \in Task, NEW k \in 1..MaxFiles
      PROVE  /\ (Is(t, k, "waiting")' \/ Is(t, k, "queued")') => (JobWaits(t, k) => JobWaits(t, k)')
             /\ Is(t, k, "queued")' => Is(t, k, "queued")
             /\ Is(t, k, "downloading")' =>
                  WorkerHas(t, k)' \/ (Is(t, k, "downloading") /\ ~WorkerHas(t, k))
  <2>1. PICK c \in {"completed", "error"} : Sets(job[w].task, job[w].file, c)
    BY <1>3
  <2>2. CASE t = job[w].task /\ k = job[w].file
    <3>1. \A st : Is(t, k, st)' <=> st = c
      BY <2>1, <2>2 DEF Sets
    <3> QED
      BY <3>1
  <2>3. CASE ~(t = job[w].task /\ k = job[w].file)
    <3>1. \A st : Is(t, k, st)' <=> Is(t, k, st)
      BY <2>1, <2>3 DEF Sets
    <3>2. job[w] # [task |-> t, file |-> k]
      BY <2>3
    <3>3. (JobWaits(t, k) => JobWaits(t, k)') /\ (WorkerHas(t, k)' \/ ~WorkerHas(t, k))
      BY <1>1, <3>2, JobsKept
    <3> QED
      BY <3>1, <3>3
  <2> QED
    BY <2>2, <2>3
<1> QED
  BY <1>2, <1>3 DEF Effect, Handed

\* A worker that has marked its file as downloading, and keeps it.
LEMMA StartEffect ==
  ASSUME FileInv, NEW w \in Worker, WorkerStep(w, "starting", "downloading"),
         job' = job, queue' = queue,
         Sets(job[w].task, job[w].file, "downloading")
  PROVE  Effect
<1>1. /\ job[w] \in JobRec /\ job' = [job EXCEPT ![w] = job[w]]
      /\ stage' = [stage EXCEPT ![w] = "downloading"] /\ stage \in [Worker -> Stage]
  BY DEF FileInv, CallInv, Jobs, WorkerStep
<1>2. (Calm' => Calm) /\ Stays
  BY SetsStays DEF Calm, WorkerStep
<1>3. ASSUME NEW t \in Task, NEW k \in 1..MaxFiles
      PROVE  /\ (Is(t, k, "waiting")' \/ Is(t, k, "queued")') => (JobWaits(t, k) => JobWaits(t, k)')
             /\ Is(t, k, "queued")' => Is(t, k, "queued")
             /\ Is(t, k, "downloading")' =>
                  WorkerHas(t, k)' \/ (Is(t, k, "downloading") /\ ~WorkerHas(t, k))
  <2>1. CASE t = job[w].task /\ k = job[w].file
    <3>1. \A st : Is(t, k, st)' <=> st = "downloading"
      BY <2>1 DEF Sets
    <3>2. job[w] = [task |-> t, file |-> k]
      BY <1>1, <2>1 DEF JobRec
    <3>3. WorkerHas(t, k)'
      BY <1>1, <3>2 DEF WorkerHas, Stage
    <3> QED
      BY <3>1, <3>3
  <2>2. CASE ~(t = job[w].task /\ k = job[w].file)
    <3>1. \A st : Is(t, k, st)' <=> Is(t, k, st)
      BY <2>2 DEF Sets
    <3>2. job[w] # [task |-> t, file |-> k]
      BY <2>2
    <3>3. (JobWaits(t, k) => JobWaits(t, k)') /\ (WorkerHas(t, k)' \/ ~WorkerHas(t, k))
      BY <1>1, <3>2, JobsKept
    <3> QED
      BY <3>1, <3>3
  <2> QED
    BY <2>1, <2>2
<1> QED
  BY <1>2, <1>3 DEF Effect, Handed

\* A job leaves the queue for the hands of a worker.
LEMMA TakeEffect ==
  ASSUME FileInv, NEW w \in Worker, Take(w)
  PROVE  Effect
<1>1. /\ queue # <<>> /\ queue \in Seq(JobRec) /\ stage[w] = "idle"
      /\ stage' = [stage EXCEPT ![w] = "took"] /\ stage \in [Worker -> Stage]
      /\ job' = [job EXCEPT ![w] = Head(queue)] /\ job \in [Worker -> JobRec \cup {None}]
      /\ queue' = Tail(queue) /\ store' = store /\ cancelled' = cancelled
  BY DEF Take, WorkerStep, FileInv, CallInv, Jobs, svcVars
<1>2. (Calm' => Calm) /\ Stays
  BY <1>1, SetsStays DEF Calm
<1>3. ASSUME NEW t \in Task, NEW k \in 1..MaxFiles
      PROVE  /\ JobWaits(t, k) => JobWaits(t, k)'
             /\ WorkerHas(t, k) => WorkerHas(t, k)'
             /\ \A st : Is(t, k, st)' <=> Is(t, k, st)
  <2> DEFINE rec == [task |-> t, file |-> k]
  <2>1. \A v \in Worker : v # w => stage'[v] = stage[v] /\ job'[v] = job[v]
    BY <1>1
  <2>2. stage'[w] = "took" /\ job'[w] = queue[1]
    BY <1>1
  <2> HIDE DEF rec
  <2>3. ASSUME NEW n \in DOMAIN queue, queue[n] = rec PROVE JobWaits(t, k)'
    <3>1. CASE n = 1
      BY <2>2, <2>3, <3>1 DEF JobWaits, rec
    <3>2. CASE n # 1
      <4>1. n - 1 \in DOMAIN queue' /\ queue'[n - 1] = rec
        BY <1>1, <2>3, <3>2
      <4> QED
        BY <4>1 DEF JobWaits, rec
    <3> QED
      BY <3>1, <3>2
  <2>4. ASSUME NEW v \in Worker, stage[v] \in {"took", "starting"}, job[v] = rec
        PROVE  JobWaits(t, k)'
    BY <1>1, <2>1, <2>4 DEF JobWaits, rec
  <2>5. JobWaits(t, k) => JobWaits(t, k)'
    BY <2>3, <2>4 DEF JobWaits, rec
  <2>6. WorkerHas(t, k) => WorkerHas(t, k)'
    BY <1>1, <2>1 DEF WorkerHas
  <2> QED
    BY <1>1, <2>5, <2>6 DEF Is
<1> QED
  BY <1>2, <1>3 DEF Effect, Handed

(***************************************************************************)
(* Steps of a worker.                                                      *)
(***************************************************************************)
LEMMA LoadCall ==
  ASSUME CallInv, NEW p \in Worker \cup Enqueuer,
         NEW c \in Svc!MarkCall, NEW t \in Task, NEW i \in 1..MaxFiles, Svc!Load(p, c, t, i)
  PROVE  /\ op'[p] # None /\ op'[p].call = c /\ op'[p].task = t /\ op'[p].file = i
         /\ store' = store
<1>1. /\ op' = [op EXCEPT ![p] = [call |-> c, task |-> t, file |-> i, clone |-> Svc!View[t]]]
      /\ Svc!View[t] # None /\ store' = store
  BY DEF Svc!Load
<1>2. /\ op \in [Worker \cup Enqueuer -> Svc!OpRec \cup {None}]
      /\ Svc!View[t] \in Svc!TaskRec /\ None \notin Svc!OpRec
  BY <1>1, ServiceFacts DEF CallInv
<1>3. [call |-> c, task |-> t, file |-> i, clone |-> Svc!View[t]] \in Svc!OpRec
  BY <1>2 DEF Svc!OpRec
<1> QED
  BY <1>1, <1>2, <1>3

\* What a Mark call of a worker does to the file when it returns.
LEMMA MarkReturns ==
  ASSUME FileInv, NEW w \in Worker, NEW c \in {"downloading", "completed", "error"},
         CallIs(w, c, job[w].task, job[w].file),
         Svc!Commit(w) \/ Svc!Refuse(w) \/ StoreError(w)
  PROVE  /\ ServiceCall(w)
         /\ UseCache /\ Svc!Commit(w) => Sets(job[w].task, job[w].file, c)
         /\ UseCache /\ Svc!Refuse(w) => Sets(job[w].task, job[w].file, "completed")
         /\ StoreError(w) => ~Calm
         /\ ~Svc!Commit(w) => store' = store
<1>1. ServiceCall(w)
  BY DEF ServiceCall, StoreError, Svc!Step
<1>2. UseCache /\ Svc!Commit(w) => Sets(job[w].task, job[w].file, c)
  <2> SUFFICES ASSUME UseCache, Svc!Commit(w) PROVE Sets(job[w].task, job[w].file, c)
    OBVIOUS
  <2> QED
    BY CommitFile DEF FileInv, Sets
<1>3. UseCache /\ Svc!Refuse(w) => Sets(job[w].task, job[w].file, "completed")
  <2> SUFFICES ASSUME UseCache, Svc!Refuse(w) PROVE Sets(job[w].task, job[w].file, "completed")
    OBVIOUS
  <2>1. store' = store /\ Is(job[w].task, job[w].file, "completed")
    BY RefuseFile DEF FileInv
  <2> QED
    BY <2>1 DEF Sets, Is
<1>4. StoreError(w) => ~Calm
  BY DEF StoreError, CtxDone, Calm
<1>5. ~Svc!Commit(w) => store' = store
  BY DEF StoreError, Svc!StoreError, Svc!Refuse
<1> QED
  BY <1>1, <1>2, <1>3, <1>4, <1>5

LEMMA NoCacheEffect == ~UseCache => Effect
BY DEF Effect, Stays, Handed, Calm

LEMMA WorkerNextFiles ==
  ASSUME FileInv, NEW w \in Worker, WorkerNext(w)
  PROVE  FileInv'
<1>1. CallInv' /\ CallInv /\ WorkerCalls(w)
  BY WorkerNextInv DEF FileInv
<1>2. /\ stage \in [Worker -> Stage] /\ job \in [Worker -> JobRec \cup {None}]
      /\ \A from, to : WorkerStep(w, from, to) => stage[w] = from /\ stage'[w] = to
      /\ stage[w] # "idle" => job[w] \in JobRec
  BY <1>1 DEF CallInv, Jobs, WorkerStep
\* A step that keeps the job and the store.
<1>3. ASSUME NEW from, NEW to, WorkerStep(w, from, to), KeepJob \/ (queue' = queue /\ job' = job),
             ServiceCall(w), store' = store, Waits(from) => Waits(to), Has(from) => Has(to),
             WorkerCalls(w)'
      PROVE  FileInv'
  <2>1. queue' = queue /\ job' = job /\ job' = [job EXCEPT ![w] = job[w]]
    BY <1>2, <1>3 DEF KeepJob
  <2>2. Effect
    BY <1>3, <2>1, KeepEffect
  <2> QED
    BY <1>1, <1>3, <2>1, <2>2, WorkerFiles
\* A step that drops the job.
<1>4. ASSUME NEW from, Drop(w, from), ServiceCall(w), Effect PROVE FileInv'
  <2>1. WorkerStep(w, from, "idle") /\ job' = [job EXCEPT ![w] = None]
    BY <1>4 DEF Drop
  <2>2. WorkerCalls(w)'
    BY <1>2, <2>1 DEF WorkerCalls
  <2> QED
    BY <1>1, <1>4, <2>1, <2>2, WorkerFiles
\* The start of a Mark call.
<1>5. ASSUME NEW c \in {"downloading", "completed", "error"}, Call(w, c), stage[w] # "idle"
      PROVE  /\ ServiceCall(w) /\ store' = store /\ KeepJob
             /\ CallIs(w, c, job[w].task, job[w].file)'
  <2>1. c \in Svc!MarkCall /\ job[w].task \in Task /\ job[w].file \in 1..MaxFiles
    BY <1>2, <1>5 DEF Svc!MarkCall, JobRec
  <2>2. Svc!Load(w, c, job[w].task, job[w].file) /\ KeepJob
    BY <1>5 DEF Call
  <2>3. ServiceCall(w)
    BY <2>1, <2>2 DEF ServiceCall, Svc!Step
  <2>4. /\ op'[w] # None /\ op'[w].call = c /\ op'[w].task = job[w].task
        /\ op'[w].file = job[w].file /\ store' = store
    BY <1>1, <2>1, <2>2, LoadCall
  <2> QED
    BY <2>2, <2>3, <2>4 DEF CallIs, KeepJob
<1>6. ASSUME UNCHANGED svcVars PROVE ServiceCall(w) /\ store' = store
  BY <1>6 DEF ServiceCall, svcVars
<1>7. CASE Take(w)
  <2>1. /\ WorkerStep(w, "idle", "took") /\ job' = [job EXCEPT ![w] = Head(queue)]
        /\ UNCHANGED svcVars
    BY <1>7 DEF Take
  <2>2. Effect
    BY <1>7, TakeEffect
  <2>3. WorkerCalls(w)'
    BY <1>2, <2>1 DEF WorkerCalls
  <2> QED
    BY <1>1, <1>6, <2>1, <2>2, <2>3, WorkerFiles
<1>8. CASE BeginStart(w)
  <2>1. WorkerStep(w, "took", "starting") /\ Call(w, "downloading")
    BY <1>8 DEF BeginStart
  <2>2. /\ ServiceCall(w) /\ store' = store /\ KeepJob
        /\ CallIs(w, "downloading", job[w].task, job[w].file)'
    BY <1>2, <1>5, <2>1
  <2>3. WorkerCalls(w)'
    BY <1>2, <2>1, <2>2 DEF WorkerCalls
  <2> QED
    BY <1>3, <2>1, <2>2, <2>3 DEF Waits, Has
<1>9. CASE Started(w)
  <2>1. WorkerStep(w, "starting", "downloading") /\ Svc!Commit(w) /\ KeepJob
    BY <1>9 DEF Started
  <2>2. CallIs(w, "downloading", job[w].task, job[w].file)
    BY <1>1, <1>2, <2>1 DEF WorkerCalls
  <2>3. ServiceCall(w) /\ (UseCache => Sets(job[w].task, job[w].file, "downloading"))
    BY <2>1, <2>2, MarkReturns
  <2>4. queue' = queue /\ job' = job /\ job' = [job EXCEPT ![w] = job[w]]
    BY <1>2, <2>1 DEF KeepJob
  <2>5. Effect
    BY <2>1, <2>3, <2>4, StartEffect, NoCacheEffect
  <2>6. WorkerCalls(w)'
    BY <1>2, <2>1 DEF WorkerCalls
  <2> QED
    BY <1>1, <2>1, <2>3, <2>4, <2>5, <2>6, WorkerFiles
<1>10. CASE StartRefused(w)
  <2>1. CASE CtxDone(w) /\ Drop(w, "took") /\ UNCHANGED svcVars
    <3>1. ~Calm' /\ store' = store /\ ServiceCall(w)
      BY <1>6, <2>1 DEF CtxDone, Calm, Drop, WorkerStep
    <3> QED
      BY <1>4, <2>1, <3>1, DropEffect
  <2>2. CASE Drop(w, "starting") /\ (Svc!Refuse(w) \/ StoreError(w))
    <3>1. CallIs(w, "downloading", job[w].task, job[w].file) /\ (Calm' => Calm)
      BY <1>1, <1>2, <2>2 DEF WorkerCalls, Drop, WorkerStep, Calm
    <3>2. /\ ServiceCall(w)
          /\ UseCache /\ Svc!Refuse(w) => Sets(job[w].task, job[w].file, "completed")
          /\ StoreError(w) => ~Calm
          /\ ~Svc!Commit(w) => store' = store
      BY <2>2, <3>1, MarkReturns
    <3>3. StoreError(w) => store' = store
      BY DEF StoreError, Svc!StoreError
    <3>4. Effect
      BY <2>2, <3>1, <3>2, <3>3, DropEffect, NoCacheEffect
    <3> QED
      BY <1>4, <2>2, <3>2, <3>4
  <2> QED
    BY <1>10, <2>1, <2>2 DEF StartRefused
<1>11. CASE Download(w)
  <2>1. PICK to \in {"downloaded", "failed"} : WorkerStep(w, "downloading", to)
    BY <1>11 DEF Download
  <2>2. KeepJob /\ UNCHANGED svcVars
    BY <1>11 DEF Download
  <2>3. WorkerCalls(w)'
    BY <1>2, <2>1 DEF WorkerCalls
  <2> QED
    BY <1>3, <1>6, <2>1, <2>2, <2>3 DEF Waits, Has, Stage
<1>12. CASE Abort(w)
  <2>1. WorkerStep(w, "downloading", "aborted") /\ KeepJob /\ UNCHANGED svcVars
    BY <1>12 DEF Abort
  <2>2. WorkerCalls(w)'
    BY <1>2, <2>1 DEF WorkerCalls
  <2> QED
    BY <1>3, <1>6, <2>1, <2>2 DEF Waits, Has, Stage
<1>13. CASE NewStatusContext(w)
  <2>1. PICK from \in {"downloaded", "failed", "aborted"}, to \in {"complete", "fail"} :
          StatusContext(w, from, to)
    BY <1>13 DEF NewStatusContext
  <2>2. WorkerStep(w, from, to) /\ UNCHANGED svcVars /\ queue' = queue /\ job' = job
    BY <2>1 DEF StatusContext
  <2>3. WorkerCalls(w)'
    BY <1>2, <2>2 DEF WorkerCalls
  <2> QED
    BY <1>3, <1>6, <2>2, <2>3 DEF Waits, Has, Stage
<1>14. CASE BeginComplete(w)
  <2>1. WorkerStep(w, "complete", "completing") /\ Call(w, "completed")
    BY <1>14 DEF BeginComplete
  <2>2. /\ ServiceCall(w) /\ store' = store /\ KeepJob
        /\ CallIs(w, "completed", job[w].task, job[w].file)'
    BY <1>2, <1>5, <2>1
  <2>3. WorkerCalls(w)'
    BY <1>2, <2>1, <2>2 DEF WorkerCalls
  <2> QED
    BY <1>3, <2>1, <2>2, <2>3 DEF Waits, Has, Stage
<1>15. CASE Completed(w)
  <2>1. Drop(w, "completing") /\ Svc!Commit(w)
    BY <1>15 DEF Completed
  <2>2. CallIs(w, "completed", job[w].task, job[w].file)
    BY <1>1, <1>2, <2>1 DEF WorkerCalls, Drop
  <2>3. ServiceCall(w) /\ (UseCache => Sets(job[w].task, job[w].file, "completed"))
    BY <2>1, <2>2, MarkReturns
  <2>4. Effect
    BY <2>1, <2>3, DropEffect, NoCacheEffect
  <2> QED
    BY <1>4, <2>1, <2>3, <2>4
<1>16. CASE CompleteRefused(w)
  <2>1. CASE CtxDone(w) /\ WorkerStep(w, "complete", "failed") /\ UNCHANGED svcVars
    <3>1. WorkerCalls(w)'
      BY <1>2, <2>1 DEF WorkerCalls
    <3> QED
      BY <1>3, <1>6, <1>16, <2>1, <3>1 DEF CompleteRefused, Waits, Has, Stage
  <2>2. CASE WorkerStep(w, "completing", "failed") /\ (Svc!Refuse(w) \/ StoreError(w))
    <3>1. WorkerCalls(w)'
      BY <1>2, <2>2 DEF WorkerCalls
    <3>2. store' = store /\ ServiceCall(w)
      BY <2>2 DEF StoreError, Svc!StoreError, Svc!Refuse, ServiceCall, Svc!Step
    <3> QED
      BY <1>3, <1>16, <2>2, <3>1, <3>2 DEF CompleteRefused, Waits, Has, Stage
  <2> QED
    BY <1>16, <2>1, <2>2 DEF CompleteRefused
<1>17. CASE BeginFail(w)
  <2>1. WorkerStep(w, "fail", "failing") /\ Call(w, "error")
    BY <1>17 DEF BeginFail
  <2>2. /\ ServiceCall(w) /\ store' = store /\ KeepJob
        /\ CallIs(w, "error", job[w].task, job[w].file)'
    BY <1>2, <1>5, <2>1
  <2>3. WorkerCalls(w)'
    BY <1>2, <2>1, <2>2 DEF WorkerCalls
  <2> QED
    BY <1>3, <2>1, <2>2, <2>3 DEF Waits, Has, Stage
<1>18. CASE Failed(w)
  <2>1. CASE CtxDone(w) /\ Drop(w, "fail") /\ UNCHANGED svcVars
    <3>1. ~Calm' /\ store' = store /\ ServiceCall(w)
      BY <1>6, <2>1 DEF CtxDone, Calm, Drop, WorkerStep
    <3> QED
      BY <1>4, <2>1, <3>1, DropEffect
  <2>2. CASE Drop(w, "failing") /\ (Svc!Commit(w) \/ Svc!Refuse(w) \/ StoreError(w))
    <3>1. CallIs(w, "error", job[w].task, job[w].file) /\ (Calm' => Calm)
      BY <1>1, <1>2, <2>2 DEF WorkerCalls, Drop, WorkerStep, Calm
    <3>2. /\ ServiceCall(w)
          /\ UseCache /\ Svc!Commit(w) => Sets(job[w].task, job[w].file, "error")
          /\ UseCache /\ Svc!Refuse(w) => Sets(job[w].task, job[w].file, "completed")
          /\ StoreError(w) => ~Calm
      BY <2>2, <3>1, MarkReturns
    <3>3. StoreError(w) => store' = store
      BY DEF StoreError, Svc!StoreError
    <3>4. Effect
      BY <2>2, <3>1, <3>2, <3>3, DropEffect, NoCacheEffect
    <3> QED
      BY <1>4, <2>2, <3>2, <3>4
  <2> QED
    BY <1>18, <2>1, <2>2 DEF Failed
<1> QED
  BY <1>7, <1>8, <1>9, <1>10, <1>11, <1>12, <1>13, <1>14, <1>15, <1>16, <1>17, <1>18
     DEF WorkerNext

(***************************************************************************)
(* Steps of an enqueuer.                                                   *)
(***************************************************************************)
\* An enqueuer takes no job from anybody: it only adds to the queue.
LEMMA EnqJobs ==
  ASSUME CallInv, NEW e \in Enqueuer, NEW from, NEW new, EnqStep(e, from, new),
         queue' = queue \/ \E j \in JobRec : queue' = Append(queue, j)
  PROVE  /\ cancelled' = cancelled
         /\ \A t, k : (JobWaits(t, k) => JobWaits(t, k)') /\ (WorkerHas(t, k)' <=> WorkerHas(t, k))
<1>1. stage' = stage /\ job' = job /\ cancelled' = cancelled /\ queue \in Seq(JobRec)
  BY DEF EnqStep, CallInv, Jobs
<1>2. ASSUME NEW n \in DOMAIN queue PROVE n \in DOMAIN queue' /\ queue'[n] = queue[n]
  BY <1>1, <1>2
<1>3. ASSUME NEW t, NEW k, JobWaits(t, k) PROVE JobWaits(t, k)'
  BY <1>1, <1>2, <1>3 DEF JobWaits
<1>4. ASSUME NEW t, NEW k PROVE WorkerHas(t, k)' <=> WorkerHas(t, k)
  BY <1>1 DEF WorkerHas
<1> QED
  BY <1>1, <1>3, <1>4

LEMMA EnqEffect ==
  ASSUME FileInv, NEW e \in Enqueuer, NEW from, NEW new, EnqStep(e, from, new),
         queue' = queue \/ \E j \in JobRec : queue' = Append(queue, j),
         Stays,
         \A t \in Task, k \in 1..MaxFiles :
           /\ Calm' /\ Is(t, k, "queued")' => Is(t, k, "queued") \/ JobWaits(t, k)
           /\ UseCache /\ Is(t, k, "downloading")' => Is(t, k, "downloading")
  PROVE  Effect
<1>1. /\ cancelled' = cancelled
      /\ \A t, k : (JobWaits(t, k) => JobWaits(t, k)') /\ (WorkerHas(t, k)' <=> WorkerHas(t, k))
  BY EnqJobs DEF FileInv
<1>2. (Calm' => Calm) /\ (Calm' => UseCache)
  BY <1>1 DEF Calm
<1> QED
  BY <1>1, <1>2 DEF Effect, Handed

\* Most steps of an enqueuer leave the store alone.
LEMMA EnqQuiet ==
  ASSUME FileInv, NEW e \in Enqueuer, NEW from, NEW new, EnqStep(e, from, new),
         queue' = queue \/ \E j \in JobRec : queue' = Append(queue, j),
         store' = store
  PROVE  Effect
<1>1. \A t, k, st : Is(t, k, st)' <=> Is(t, k, st)
  BY DEF Is
<1>2. Stays
  BY SetsStays
<1> QED
  BY <1>1, <1>2, EnqEffect

\* CreateTask adds a task whose files wait.
LEMMA CreateEffect ==
  ASSUME FileInv, NEW e \in Enqueuer, NEW from, NEW new, EnqStep(e, from, new), queue' = queue,
         NEW t \in Task, NEW n \in 1..MaxFiles, Svc!CreateTask(e, t, n)
  PROVE  Effect
<1>1. /\ store[t] = None /\ store' = [store EXCEPT ![t] = Svc!NewTask(n)]
      /\ store \in [Task -> Svc!TaskRec \cup {None}]
  BY ServiceFacts DEF FileInv, CallInv, Svc!CreateTask, Svc!StoreCreate
<1>2. store'[t] = Svc!NewTask(n) /\ \A u \in Task : u # t => store'[u] = store[u]
  BY <1>1
<1>3. \A k \in DOMAIN Svc!NewTask(n).files : Svc!NewTask(n).files[k] = "waiting"
  BY DEF Svc!NewTask
<1>4. ASSUME NEW u \in Task, NEW k, NEW st, st # "waiting", Is(u, k, st)' PROVE Is(u, k, st)
  BY <1>2, <1>3, <1>4 DEF Is
<1>5. ASSUME NEW u \in Task, store[u] # None
      PROVE  store'[u] = store[u] /\ \A k : Is(u, k, "waiting")' => Is(u, k, "waiting")
  BY <1>1, <1>2, <1>5 DEF Is
<1>6. Stays
  BY <1>5 DEF Stays
<1> QED
  BY <1>4, <1>6, EnqEffect

\* An enqueuer that is between two tasks afterwards.
LEMMA EnqLeaves ==
  ASSUME FileInv, CallInv', NEW e \in Enqueuer, ServiceCall(e),
         NEW from, NEW new, EnqStep(e, from, new), new.at \notin Scanning, Effect
  PROVE  FileInv'
<1>1. enq'[e] = new
  BY DEF EnqStep, FileInv, CallInv, Lists
<1>2. EnqCalls(e)' /\ CopyOld(e)' /\ Passed(e)'
  BY <1>1 DEF EnqCalls, CopyOld, Passed, Scanning
<1> QED
  BY <1>2, EnqFiles

\* An enqueuer that goes on with the same copy.
LEMMA EnqScans ==
  ASSUME FileInv, CallInv', NEW e \in Enqueuer, ServiceCall(e),
         NEW from \in Scanning, NEW new, EnqStep(e, from, new), Effect, EnqCalls(e)',
         new.task = enq[e].task, new.files = enq[e].files,
         Calm' => \A k \in DOMAIN enq[e].files :
           /\ k < new.i \/ (k = new.i /\ new.at # "scan")
           /\ Is(new.task, k, "waiting")'
           => \/ k < enq[e].i \/ (k = enq[e].i /\ enq[e].at # "scan")
              \/ JobWaits(new.task, k)'
  PROVE  FileInv'
<1>1. /\ enq'[e] = new /\ enq[e].at \in Scanning
      /\ enq[e].task \in Task /\ enq[e].files \in Svc!FileMap
  BY EnqFacts DEF EnqStep, FileInv, CallInv, Lists, ListOf
<1>2. CopyOld(e)'
  <2> SUFFICES ASSUME UseCache
               PROVE  /\ store'[new.task] # None
                      /\ DOMAIN store'[new.task].files = DOMAIN new.files
                      /\ \A k \in DOMAIN new.files :
                           new.files[k] # "waiting" => ~Is(new.task, k, "waiting")'
    BY <1>1 DEF CopyOld
  <2>1. CopyOld(e)
    BY DEF FileInv
  <2> QED
    BY <1>1, <2>1 DEF CopyOld, Effect, Stays
<1>3. Passed(e)'
  <2> SUFFICES ASSUME Calm', NEW k \in DOMAIN enq[e].files,
                      k < new.i \/ (k = new.i /\ new.at # "scan"),
                      Is(new.task, k, "waiting")'
               PROVE  JobWaits(new.task, k)'
    BY <1>1 DEF Passed
  <2>1. CASE k < enq[e].i \/ (k = enq[e].i /\ enq[e].at # "scan")
    <3>1. Calm /\ CopyOld(e) /\ Passed(e) /\ UseCache
      BY DEF FileInv, Effect, Calm
    <3>2. Is(enq[e].task, k, "waiting")
      BY <1>1, <3>1 DEF CopyOld, Effect, Stays
    <3>3. JobWaits(enq[e].task, k)
      BY <1>1, <2>1, <3>1, <3>2 DEF Passed
    <3>4. k \in 1..MaxFiles
      BY <1>1, FileMapDomain, DownloadsAssumption
    <3> QED
      BY <1>1, <3>3, <3>4 DEF Effect, Handed
  <2> QED
    BY <2>1
<1> QED
  BY <1>2, <1>3, EnqFiles

\* The calls of an enqueuer's step.
LEMMA EnqCallsService ==
  ASSUME NEW e \in Enqueuer
  PROVE  /\ UNCHANGED svcVars => ServiceCall(e) /\ store' = store
         /\ Svc!InsertCache(e) => ServiceCall(e) /\ store' = store
         /\ Svc!StoreError(e) => ServiceCall(e) /\ store' = store
         /\ Svc!Refuse(e) => ServiceCall(e) /\ store' = store
         /\ Svc!Commit(e) => ServiceCall(e)
BY DEF ServiceCall, svcVars, Svc!Step, Svc!InsertCache, Svc!StoreError, Svc!Refuse

LEMMA GetTaskFiles ==
  ASSUME FileInv, CallInv', NEW e \in Enqueuer, NEW t \in Task, GetTask(e, t)
  PROVE  FileInv'
<1>1. /\ CallInv /\ enq[e] \in EnqRec /\ ListOf(e)
      /\ t \in enq[e].todo /\ enq[e].at = "next" /\ UNCHANGED svcVars /\ queue' = queue
      /\ ServiceCall(e) /\ store' = store
  BY EnqFacts, EnqCallsService DEF FileInv, GetTask, EnqStep
<1>2. CASE Disabled
  <2> DEFINE new == [enq[e] EXCEPT !.todo = enq[e].todo \ {t}]
  <2>1. EnqStep(e, "next", new) /\ new.at = "next"
    BY <1>1, <1>2 DEF GetTask, EnqRec
  <2>2. new.at \notin Scanning
    BY <2>1 DEF Scanning
  <2> HIDE DEF new
  <2> QED
    BY <1>1, <2>1, <2>2, EnqQuiet, EnqLeaves
<1>3. CASE ~Disabled
  <2> DEFINE new == [at |-> "scan", todo |-> enq[e].todo \ {t}, task |-> t,
                     files |-> Svc!View[t].files, i |-> 1]
  <2>1. EnqStep(e, "next", new)
    BY <1>1, <1>3 DEF GetTask
  <2>2. enq'[e] = new
    BY <1>1, <2>1 DEF EnqStep, CallInv, Lists
  <2>3. Svc!View[t] # None /\ Svc!View[t] \in Svc!TaskRec
    BY <1>1, ServiceFacts DEF ListOf, CallInv
  <2>4. Effect
    BY <1>1, <2>1, EnqQuiet
  <2>5. EnqCalls(e)'
    BY <2>2 DEF EnqCalls
  <2>6. UseCache => store[t] = Svc!View[t]
    BY <1>1, <2>3 DEF Svc!View, CallInv, P!IInv, P!CacheMatchesStore
  <2>7. CopyOld(e)'
    BY <1>1, <2>2, <2>3, <2>6 DEF CopyOld, Is
  <2>8. \A k \in DOMAIN Svc!View[t].files : ~(k < 1) /\ k \in Nat
    <3>1. Svc!View[t].files \in Svc!FileMap
      BY <2>3 DEF Svc!TaskRec
    <3> QED
      BY <3>1, FileMapDomain
  <2>9. Passed(e)'
    BY <2>2, <2>8 DEF Passed
  <2> HIDE DEF new
  <2> QED
    BY <1>1, <2>1, <2>4, <2>5, <2>7, <2>9, EnqFiles
<1> QED
  BY <1>2, <1>3

\* An enqueuer in its scan, at one file of the task.
LEMMA ScanFacts ==
  ASSUME FileInv, NEW e \in Enqueuer, enq[e].at \in Scanning, enq[e].i \in DOMAIN enq[e].files
  PROVE  /\ enq[e] \in EnqRec /\ enq[e].task \in Task /\ enq[e].files \in Svc!FileMap
         /\ enq[e].i \in 1..MaxFiles /\ enq[e].i \in Nat
         /\ \A k \in DOMAIN enq[e].files : k \in Nat /\ k \in 1..MaxFiles
         /\ [task |-> enq[e].task, file |-> enq[e].i] \in JobRec
         /\ CopyOld(e) /\ Passed(e) /\ EnqCalls(e)
<1>1. /\ enq[e] \in EnqRec /\ enq[e].task \in Task /\ enq[e].files \in Svc!FileMap
      /\ CopyOld(e) /\ Passed(e) /\ EnqCalls(e)
  BY EnqFacts DEF FileInv, ListOf
<1>2. PICK n \in 1..MaxFiles : n \in Nat /\ DOMAIN enq[e].files = 1..n
  BY <1>1, FileMapDomain
<1>3. \A k \in DOMAIN enq[e].files : k \in Nat /\ k \in 1..MaxFiles
  BY <1>2, DownloadsAssumption
<1> QED
  BY <1>1, <1>3 DEF JobRec

LEMMA SkipFiles ==
  ASSUME FileInv, CallInv', NEW e \in Enqueuer, Skip(e)
  PROVE  FileInv'
<1>0. PICK new : new = [enq[e] EXCEPT !.at = "scan", !.i = enq[e].i + 1]
  OBVIOUS
<1>1. /\ EnqStep(e, "scan", new) /\ enq[e].at = "scan" /\ enq[e].i \in DOMAIN enq[e].files
      /\ enq[e].files[enq[e].i] # "waiting" /\ queue' = queue
      /\ ServiceCall(e) /\ store' = store
  BY <1>0, EnqCallsService DEF Skip, InScan, WaitsHere, NextFile
<1>2. /\ enq[e] \in EnqRec /\ enq[e].i \in Nat /\ CopyOld(e)
      /\ \A k \in DOMAIN enq[e].files : k \in Nat
  BY <1>1, ScanFacts DEF Scanning
<1>3. /\ new.task = enq[e].task /\ new.files = enq[e].files /\ new.at = "scan"
      /\ new.i = enq[e].i + 1
  BY <1>0, <1>2 DEF EnqRec
<1>4. Effect
  BY <1>1, EnqQuiet
<1>5. EnqCalls(e)'
  BY <1>1, <1>3 DEF EnqCalls, EnqStep, FileInv, CallInv, Lists
<1>6. UseCache => ~Is(enq[e].task, enq[e].i, "waiting")
  BY <1>1, <1>2 DEF CopyOld, Scanning
<1>7. Calm' => \A k \in DOMAIN enq[e].files :
        /\ k < new.i \/ (k = new.i /\ new.at # "scan")
        /\ Is(new.task, k, "waiting")'
        => k < enq[e].i
  <2> SUFFICES ASSUME Calm', NEW k \in DOMAIN enq[e].files, k < new.i,
                      Is(new.task, k, "waiting")'
               PROVE  k < enq[e].i
    BY <1>3
  <2>1. k # enq[e].i
    BY <1>1, <1>3, <1>6 DEF Is, Calm
  <2> QED
    BY <1>2, <1>3, <2>1
<1> QED
  BY <1>1, <1>3, <1>4, <1>5, <1>7, EnqScans DEF Scanning

LEMMA SubmitFiles ==
  ASSUME FileInv, CallInv', NEW e \in Enqueuer, Submit(e)
  PROVE  FileInv'
<1>0. PICK new : new = [enq[e] EXCEPT !.at = "submitted"]
  OBVIOUS
<1> DEFINE j == [task |-> enq[e].task, file |-> enq[e].i]
<1>1. /\ EnqStep(e, "scan", new) /\ enq[e].at = "scan" /\ enq[e].i \in DOMAIN enq[e].files
      /\ queue' = Append(queue, j)
      /\ ServiceCall(e) /\ store' = store
  BY <1>0, EnqCallsService DEF Submit, InScan
<1>2. enq[e] \in EnqRec /\ j \in JobRec /\ queue \in Seq(JobRec)
  BY <1>1, ScanFacts DEF Scanning, FileInv, CallInv, Jobs
<1>3. /\ new.task = enq[e].task /\ new.files = enq[e].files /\ new.at = "submitted"
      /\ new.i = enq[e].i
  BY <1>0, <1>2 DEF EnqRec
<1> HIDE DEF j
<1>4. Effect
  BY <1>1, <1>2, EnqQuiet
<1>5. EnqCalls(e)'
  BY <1>1, <1>3 DEF EnqCalls, EnqStep, FileInv, CallInv, Lists
<1>6. Len(queue) + 1 \in DOMAIN queue' /\ queue'[Len(queue) + 1] = j
  BY <1>1, <1>2
<1>7. \A k : k = enq[e].i => JobWaits(new.task, k)'
  BY <1>3, <1>6 DEF JobWaits, j
<1> QED
  BY <1>1, <1>3, <1>4, <1>5, <1>7, EnqScans DEF Scanning

LEMMA BeginMarkFiles ==
  ASSUME FileInv, CallInv', NEW e \in Enqueuer, BeginMark(e)
  PROVE  FileInv'
<1>0. PICK new : new = [enq[e] EXCEPT !.at = "marking"]
  OBVIOUS
<1>1. /\ EnqStep(e, "submitted", new) /\ enq[e].at = "submitted" /\ queue' = queue
      /\ Svc!Load(e, "queued", enq[e].task, enq[e].i)
  BY <1>0 DEF BeginMark, EnqStep
<1>2. CallInv /\ enq[e].i \in DOMAIN enq[e].files
  BY <1>1, EnqFacts DEF ListOf, FileInv
<1>3. enq[e] \in EnqRec /\ enq[e].task \in Task /\ enq[e].i \in 1..MaxFiles
  BY <1>1, <1>2, ScanFacts DEF Scanning
<1>4. "queued" \in Svc!MarkCall
  BY DEF Svc!MarkCall
<1>5. /\ op'[e] # None /\ op'[e].call = "queued" /\ op'[e].task = enq[e].task
      /\ op'[e].file = enq[e].i /\ store' = store
  BY <1>1, <1>2, <1>3, <1>4, LoadCall
<1>6. ServiceCall(e)
  BY <1>1, <1>3, <1>4 DEF ServiceCall, Svc!Step
<1>7. /\ new.task = enq[e].task /\ new.files = enq[e].files /\ new.at = "marking"
      /\ new.i = enq[e].i /\ enq'[e] = new
  BY <1>0, <1>1, <1>2, <1>3 DEF EnqRec, EnqStep, CallInv, Lists
<1>8. Effect
  BY <1>1, <1>5, EnqQuiet
<1>9. EnqCalls(e)'
  BY <1>5, <1>7 DEF EnqCalls, CallIs
<1> QED
  BY <1>1, <1>6, <1>7, <1>8, <1>9, EnqScans DEF Scanning

\* The mark that Enqueue makes after the job is in the queue: the file has a job.
LEMMA MarkedFiles ==
  ASSUME FileInv, CallInv', NEW e \in Enqueuer, Marked(e)
  PROVE  FileInv'
<1>0. PICK new, t, i : /\ new = [enq[e] EXCEPT !.at = "scan", !.i = enq[e].i + 1]
                       /\ t = enq[e].task /\ i = enq[e].i
  OBVIOUS
<1>1. /\ EnqStep(e, "marking", new) /\ enq[e].at = "marking" /\ queue' = queue
      /\ Svc!Commit(e) \/ Svc!Refuse(e)
  BY <1>0 DEF Marked, NextFile, EnqStep
<1>2. CallInv /\ i \in DOMAIN enq[e].files /\ ServiceCall(e)
  BY <1>0, <1>1, EnqFacts, EnqCallsService DEF ListOf, FileInv
<1>3. /\ enq[e] \in EnqRec /\ t \in Task /\ i \in Nat /\ i \in 1..MaxFiles
      /\ \A k \in DOMAIN enq[e].files : k \in Nat
      /\ Passed(e) /\ CallIs(e, "queued", t, i)
  BY <1>0, <1>1, <1>2, ScanFacts DEF Scanning, EnqCalls
<1>4. new.task = t /\ new.files = enq[e].files /\ new.at = "scan" /\ new.i = i + 1
  BY <1>0, <1>3 DEF EnqRec
<1>5. enq'[e] = new
  BY <1>1, <1>2 DEF EnqStep, CallInv, Lists
<1>6. Calm /\ Is(t, i, "waiting") => JobWaits(t, i)
  BY <1>0, <1>1, <1>2, <1>3 DEF Passed, Scanning
<1>7. ASSUME Svc!Commit(e), UseCache PROVE Effect
  <2>1. Sets(t, i, "queued") /\ Is(t, i, "waiting")
    BY <1>2, <1>3, <1>7, CommitFile DEF Sets
  <2>2. Stays
    BY <2>1, SetsStays
  <2>3. ASSUME NEW u \in Task, NEW k \in 1..MaxFiles
        PROVE  /\ Calm' /\ Is(u, k, "queued")' => Is(u, k, "queued") \/ JobWaits(u, k)
               /\ Is(u, k, "downloading")' => Is(u, k, "downloading")
    <3>1. Calm' => Calm
      BY <1>1 DEF Calm, EnqStep
    <3> QED
      BY <1>6, <2>1, <3>1 DEF Sets
  <2> QED
    BY <1>1, <2>2, <2>3, EnqEffect
<1>8. ASSUME Svc!Refuse(e) \/ ~UseCache PROVE Effect
  BY <1>1, <1>8, EnqCallsService, EnqQuiet, NoCacheEffect
<1>9. Effect
  BY <1>1, <1>7, <1>8, DownloadsAssumption
<1>10. EnqCalls(e)'
  BY <1>4, <1>5 DEF EnqCalls
<1>11. \A k \in DOMAIN enq[e].files : k < new.i => k < i \/ k = i
  BY <1>3, <1>4
<1> QED
  BY <1>0, <1>1, <1>2, <1>4, <1>9, <1>10, <1>11, EnqScans DEF Scanning

LEMMA EnqNextFiles ==
  ASSUME FileInv, NEW e \in Enqueuer,
         \/ EnqNext(e) \/ \E t \in Task, n \in 1..MaxFiles : Create(e, t, n)
         \/ Tick(e) \/ RetryExit(e)
  PROVE  FileInv'
<1>1. CallInv' /\ CallInv /\ enq[e] \in EnqRec
  BY EnqNextInv, StartEnqInv, EnqFacts DEF FileInv
\* A step after which the enqueuer is between two tasks.
<1>2. ASSUME NEW from, NEW new, EnqStep(e, from, new),
             new.at \in {"idle", "next", "creating", "gone"},
             queue' = queue, ServiceCall(e), store' = store
      PROVE  FileInv'
  BY <1>1, <1>2, EnqQuiet, EnqLeaves DEF Scanning
<1>3. ASSUME NEW from, Fail(e, from), queue' = queue, ServiceCall(e), store' = store
      PROVE  FileInv'
  BY <1>2, <1>3 DEF Fail, Idle
<1>4. CASE Created(e)
  <2>1. [enq[e] EXCEPT !.at = "next"].at = "next"
    BY <1>1 DEF EnqRec
  <2> QED
    BY <1>2, <1>4, <2>1, EnqCallsService DEF Created
<1>5. CASE \E t \in Task : GetTask(e, t)
  BY <1>1, <1>5, GetTaskFiles
<1>6. CASE Skip(e)
  BY <1>1, <1>6, SkipFiles
<1>7. CASE Submit(e)
  BY <1>1, <1>7, SubmitFiles
<1>8. CASE SubmitFails(e)
  BY <1>3, <1>8, EnqCallsService DEF SubmitFails
<1>9. CASE BeginMark(e)
  BY <1>1, <1>9, BeginMarkFiles
<1>10. CASE Marked(e)
  BY <1>1, <1>10, MarkedFiles
<1>11. CASE MarkFails(e)
  BY <1>3, <1>11, EnqCallsService DEF MarkFails
<1>12. CASE TaskDone(e)
  <2>1. [Idle EXCEPT !.at = "next", !.todo = enq[e].todo].at = "next"
    BY DEF Idle
  <2> QED
    BY <1>2, <1>12, <2>1, EnqCallsService DEF TaskDone
<1>13. CASE Return(e)
  BY <1>3, <1>13, EnqCallsService DEF Return
<1>14. ASSUME NEW t \in Task, NEW n \in 1..MaxFiles, Create(e, t, n) PROVE FileInv'
  <2> DEFINE at  == IF UseCache THEN "creating" ELSE "next"
             new == [Idle EXCEPT !.at = at, !.todo = {t}]
  <2>1. EnqStep(e, "idle", new) /\ Svc!CreateTask(e, t, n) /\ queue' = queue
    BY <1>14 DEF Create
  <2>2. new.at \notin Scanning
    BY DEF Idle, Scanning
  <2>3. ServiceCall(e)
    BY <2>1 DEF ServiceCall, Svc!Step
  <2> HIDE DEF new
  <2> QED
    BY <1>1, <2>1, <2>2, <2>3, CreateEffect, EnqLeaves
<1>15. CASE Tick(e)
  <2> DEFINE todo == {t \in Task : Svc!View[t] # None}
  <2>1. [Idle EXCEPT !.at = "next", !.todo = todo].at = "next"
    BY DEF Idle
  <2> QED
    BY <1>2, <1>15, <2>1, EnqCallsService DEF Tick
<1>16. CASE RetryExit(e)
  <2>1. [Idle EXCEPT !.at = "gone"].at = "gone"
    BY DEF Idle
  <2> QED
    BY <1>2, <1>16, <2>1, EnqCallsService DEF RetryExit
<1> QED
  BY <1>4, <1>5, <1>6, <1>7, <1>8, <1>9, <1>10, <1>11, <1>12, <1>13, <1>14, <1>15, <1>16
     DEF EnqNext

(***************************************************************************)
(* The invariant, and the theorems about files.                            *)
(***************************************************************************)
\* A shutdown moves no job and no file.
LEMMA RestFiles ==
  ASSUME FileInv, CallInv', UNCHANGED <<svcVars, queue, stage, job, detached, enq>>,
         cancelled' = cancelled \/ cancelled' = TRUE
  PROVE  FileInv'
<1>1. store' = store /\ op' = op
  BY DEF svcVars
<1>2. ASSUME NEW t, NEW k
      PROVE  /\ JobWaits(t, k)' <=> JobWaits(t, k)
             /\ WorkerHas(t, k)' <=> WorkerHas(t, k)
             /\ \A st : Is(t, k, st)' <=> Is(t, k, st)
  BY <1>1 DEF JobWaits, WorkerHas, Is
<1>3. Calm' => Calm
  BY DEF Calm
<1>4. Stays
  BY <1>1, SetsStays
<1>5. Effect
  BY <1>2, <1>3, <1>4 DEF Effect, Handed
<1>6. \A w \in Worker : WorkerCalls(w)'
  BY <1>1 DEF FileInv, WorkerCalls, CallIs
<1>7. \A e \in Enqueuer : EnqCalls(e)'
  BY <1>1 DEF FileInv, EnqCalls, CallIs
<1> QED
  BY <1>5, <1>6, <1>7, FileStep DEF FileInv

LEMMA InitFileInv ==
  ASSUME FreshStart
  PROVE  Init => FileInv
<1> SUFFICES ASSUME Init PROVE FileInv
  OBVIOUS
<1>1. CallInv
  BY InitCallInv
<1>2. ASSUME NEW w \in Worker PROVE WorkerCalls(w)
  BY DEF Init, WorkerCalls
<1>3. ASSUME NEW e \in Enqueuer PROVE EnqCalls(e) /\ CopyOld(e) /\ Passed(e)
  <2>1. enq[e].at = "idle"
    BY DEF Init, Idle
  <2> QED
    BY <2>1 DEF EnqCalls, CopyOld, Passed, Scanning
<1>4. \A t \in Task, k \in 1..MaxFiles : ~Is(t, k, "queued") /\ ~Is(t, k, "downloading")
  BY DEF Init, FreshStart, Is
<1> QED
  BY <1>1, <1>2, <1>3, <1>4 DEF FileInv, QueuedHasJob, DownloadingHasWorker

LEMMA NextFileInv == FileInv /\ [Next]_vars => FileInv'
<1> SUFFICES ASSUME FileInv, [Next]_vars PROVE FileInv'
  OBVIOUS
<1>1. CallInv'
  BY NextCallInv DEF FileInv
<1>2. ASSUME NEW w \in Worker, WorkerNext(w) PROVE FileInv'
  BY <1>2, WorkerNextFiles
<1>3. ASSUME NEW e \in Enqueuer,
             \/ EnqNext(e) \/ \E t \in Task, n \in 1..MaxFiles : Create(e, t, n)
             \/ Tick(e) \/ RetryExit(e)
      PROVE  FileInv'
  BY <1>3, EnqNextFiles
<1>4. CASE DisableEnqueue \/ Cancel \/ CloseNext
  <2>1. /\ UNCHANGED <<svcVars, queue, stage, job, detached, enq>>
        /\ cancelled' = cancelled \/ cancelled' = TRUE
    BY <1>4 DEF DisableEnqueue, Cancel, CloseNext, StopRetry, ClosePool, Drained, CloseStep
  <2> QED
    BY <1>1, <2>1, RestFiles
<1>5. CASE UNCHANGED vars
  <2>1. UNCHANGED <<svcVars, queue, stage, job, detached, enq>> /\ cancelled' = cancelled
    BY <1>5 DEF vars, svcVars
  <2> QED
    BY <1>1, <2>1, RestFiles
<1> QED
  BY <1>2, <1>3, <1>4, <1>5 DEF Next, Enqueuer

\* A queued file always has a job on its way, although Enqueue submits the job before
\* it marks the file, and a worker may have finished it by then.
THEOREM QueuedIsServed ==
  ASSUME FreshStart
  PROVE  Spec => []QueuedHasJob
<1>1. FileInv => QueuedHasJob
  BY DEF FileInv
<1> QED
  BY <1>1, InitFileInv, NextFileInv, PTL DEF Spec

\* A downloading file always has a worker that will report how it ended.
THEOREM DownloadingIsServed ==
  ASSUME FreshStart
  PROVE  Spec => []DownloadingHasWorker
<1>1. FileInv => DownloadingHasWorker
  BY DEF FileInv
<1> QED
  BY <1>1, InitFileInv, NextFileInv, PTL DEF Spec

\* When Enqueue is through with a task in memory mode, no file of it is left out.
LEMMA TaskDoneServed ==
  ASSUME FileInv, UseCache, NEW e \in Enqueuer, TaskDone(e), ~StoreFaults, ~cancelled,
         NEW i \in DOMAIN enq[e].files
  PROVE  \/ Is(enq[e].task, i, "completed") \/ Is(enq[e].task, i, "error")
         \/ JobWaits(enq[e].task, i) \/ WorkerHas(enq[e].task, i)
<1> DEFINE t == enq[e].task
<1>1. Calm /\ enq[e].at = "scan" /\ enq[e].i \notin DOMAIN enq[e].files
  BY DEF Calm, TaskDone
<1>2. /\ t \in Task /\ enq[e].files \in Svc!FileMap /\ enq[e].i \in Nat \ {0}
      /\ CopyOld(e) /\ Passed(e)
  BY <1>1, EnqFacts DEF FileInv, ListOf, Scanning
<1>3. PICK n \in 1..MaxFiles : n \in Nat /\ DOMAIN enq[e].files = 1..n
  BY <1>2, FileMapDomain
<1>4. i < enq[e].i /\ i \in 1..MaxFiles
  BY <1>1, <1>2, <1>3, DownloadsAssumption
<1>5. store[t] # None /\ i \in DOMAIN store[t].files
  BY <1>1, <1>2 DEF CopyOld, Scanning
<1>6. store[t].files[i] \in FileStatus
  <2>1. store[t].files \in Svc!FileMap
    BY <1>2, <1>5, ServiceFacts DEF FileInv, CallInv, Svc!TaskRec
  <2> QED
    BY <1>5, <2>1, FileMapDomain
<1>7. \E st \in FileStatus : Is(t, i, st)
  BY <1>5, <1>6 DEF Is
<1>8. Is(t, i, "waiting") => JobWaits(t, i)
  BY <1>1, <1>2, <1>4 DEF Passed, Scanning
<1>9. Is(t, i, "queued") => JobWaits(t, i)
  BY <1>1, <1>2, <1>4 DEF FileInv, QueuedHasJob, Calm
<1>10. Is(t, i, "downloading") => WorkerHas(t, i)
  BY <1>1, <1>2, <1>4 DEF FileInv, DownloadingHasWorker, Calm
<1> QED
  BY <1>7, <1>8, <1>9, <1>10 DEF FileStatus

\* Enqueue leaves out no file of a task that an earlier process did not leave queued or
\* downloading: each is finished, has a job on its way, or is being downloaded.
THEOREM EnqueueLeavesNoneOut ==
  ASSUME FreshStart, UseCache
  PROVE  Spec => EnqueueQueuesAll
<1> DEFINE Served ==
      \A e \in Enqueuer : TaskDone(e) /\ ~StoreFaults /\ ~cancelled =>
        \A i \in DOMAIN enq[e].files :
          \/ Is(enq[e].task, i, "completed") \/ Is(enq[e].task, i, "error")
          \/ JobWaits(enq[e].task, i) \/ WorkerHas(enq[e].task, i)
<1>1. FileInv => Served
  BY TaskDoneServed
<1>2. FileInv /\ [Next]_vars => [Served]_vars
  BY <1>1
<1>3. EnqueueQueuesAll <=> [][Served]_vars
  BY PTL DEF EnqueueQueuesAll
<1> HIDE DEF Served
<1> QED
  BY <1>2, <1>3, InitFileInv, NextFileInv, PTL DEF Spec
=============================================================================
