----------------------------- MODULE Downloads -----------------------------
(***************************************************************************)
(* service.DownloadManager with the goroutines around it: HTTP handlers    *)
(* that create a task and enqueue it, retry loops that enqueue every task  *)
(* again, and download workers.  They share the TaskService (Svc), one     *)
(* step of a call at a time, and the queue of the pool.                    *)
(*                                                                         *)
(* The pool is the queue that Pool implements: it accepts a job unless it  *)
(* is full or closed, and its workers drain it.  The attempts of one       *)
(* download are one outcome: the file is written, or the last attempt      *)
(* failed, or the workers' context was cancelled.                          *)
(***************************************************************************)
EXTENDS TaskStatus, Sequences

CONSTANTS
  Task, MaxFiles, UseCache, None,  \* as in TaskService
  Worker,      \* workers of the pool
  Api,         \* HTTP handlers of POST /tasks
  Retry,       \* loops over EnqueueAll: retryLoop, and main at startup
  QueueSize,   \* capacity of the pool's queue
  AtStart,     \* records that tasks may have in the store when the process starts
  StoreFaults, \* TRUE: the store may refuse an update
  MayClose     \* TRUE: the process may be told to restart or to exit

VARIABLES
  store, cache, mu, op,  \* as in TaskService
  queue,      \* the pool's queue of jobs
  stage,      \* where each worker is in Handle
  job,        \* the job it handles
  detached,   \* its status context is not a child of the workers' context
  enq,        \* where each enqueuer is
  cancelled,  \* the workers' context is cancelled
  closing     \* progress of DownloadManager.Close

svcVars == <<store, cache, mu, op>>
vars    == <<store, cache, mu, op, queue, stage, job, detached, enq, cancelled, closing>>

Enqueuer == Api \cup Retry
Svc      == INSTANCE TaskService WITH Proc <- Worker \cup Enqueuer

ASSUME DownloadsAssumption ==
  /\ MaxFiles \in Nat \ {0} /\ UseCache \in BOOLEAN
  /\ None \notin Task \cup Worker \cup Enqueuer \cup Svc!TaskRec \cup Svc!OpRec \cup Svc!FileMap
  /\ QueueSize \in Nat \ {0}
  /\ StoreFaults \in BOOLEAN /\ MayClose \in BOOLEAN
  /\ AtStart \subseteq Svc!Loaded
  /\ Worker \cap Enqueuer = {} /\ Api \cap Retry = {}

JobRec == [task : Task, file : 1..MaxFiles]
Stage  == {"idle", "took", "starting", "downloading", "downloaded", "complete", "completing",
           "failed", "aborted", "fail", "failing"}
EnqAt  == {"idle", "creating", "next", "scan", "submitted", "marking", "gone"}
EnqRec == [at : EnqAt, todo : SUBSET Task, task : Task \cup {None},
           files : Svc!FileMap \cup {None}, i : 0..(MaxFiles + 1)]
Idle   == [at |-> "idle", todo |-> {}, task |-> None, files |-> None, i |-> 0]

TypeOK ==
  /\ Svc!TypeOK
  /\ queue \in Seq(JobRec) /\ Len(queue) <= QueueSize
  /\ stage \in [Worker -> Stage]
  /\ job \in [Worker -> JobRec \cup {None}]
  /\ detached \in [Worker -> BOOLEAN]
  /\ enq \in [Enqueuer -> EnqRec]
  /\ cancelled \in BOOLEAN
  /\ closing \in {"open", "disabled", "stopping", "draining", "over"}

Init ==
  /\ Svc!Init
  /\ \A t \in Task : store[t] \in AtStart \cup {None}
  /\ queue = <<>>
  /\ stage = [w \in Worker |-> "idle"]
  /\ job = [w \in Worker |-> None]
  /\ detached = [w \in Worker |-> FALSE]
  /\ enq = [e \in Enqueuer |-> Idle]
  /\ cancelled = FALSE
  /\ closing = "open"

-----------------------------------------------------------------------------
(***************************************************************************)
(* Downloader.Handle, run by the workers.                                  *)
(***************************************************************************)
\* The context a worker passes to the service is done.
CtxDone(w) == cancelled /\ ~detached[w]

\* The store refuses the update: an I/O error, or the context is done by now.
StoreError(w) ==
  /\ StoreFaults \/ CtxDone(w)
  /\ Svc!StoreError(w)

WorkerStep(w, from, to) ==
  /\ stage[w] = from
  /\ stage' = [stage EXCEPT ![w] = to]
  /\ UNCHANGED <<enq, cancelled, closing>>

KeepJob == UNCHANGED <<queue, job, detached>>

\* Handle returns.
Drop(w, from) ==
  /\ WorkerStep(w, from, "idle")
  /\ job' = [job EXCEPT ![w] = None]
  /\ detached' = [detached EXCEPT ![w] = FALSE]
  /\ UNCHANGED queue

\* run takes the next job of the queue and calls Handle.
Take(w) ==
  /\ queue # <<>>
  /\ WorkerStep(w, "idle", "took")
  /\ job' = [job EXCEPT ![w] = Head(queue)]
  /\ queue' = Tail(queue)
  /\ UNCHANGED <<svcVars, detached>>

\* A Mark call checks its context before it takes the lock or reads the task.
Call(w, c) ==
  /\ ~CtxDone(w)
  /\ Svc!Load(w, c, job[w].task, job[w].file)
  /\ KeepJob

\* MarkFileStarted.
BeginStart(w) == WorkerStep(w, "took", "starting") /\ Call(w, "downloading")

Started(w) ==
  /\ WorkerStep(w, "starting", "downloading")
  /\ Svc!Commit(w)
  /\ KeepJob

\* An error of MarkFileStarted drops the job: its context was done, the file was
\* completed already, or the store failed.
StartRefused(w) ==
  \/ CtxDone(w) /\ Drop(w, "took") /\ UNCHANGED svcVars
  \/ Drop(w, "starting") /\ (Svc!Refuse(w) \/ StoreError(w))

\* Mutant of Download: after the last attempt Handle returns without markFailed.
DownloadUnreported(w) ==
  /\ \/ WorkerStep(w, "downloading", "downloaded") /\ KeepJob
     \/ Drop(w, "downloading")
  /\ UNCHANGED svcVars

\* The attempt loop ends: the file is written, or the last attempt failed.
Download(w) ==
  /\ \E to \in {"downloaded", "failed"} : WorkerStep(w, "downloading", to)
  /\ KeepJob
  /\ UNCHANGED svcVars

\* The attempt loop ends because the workers' context was cancelled.
Abort(w) ==
  /\ cancelled
  /\ WorkerStep(w, "downloading", "aborted")
  /\ KeepJob
  /\ UNCHANGED svcVars

\* statusContext: a child of the workers' context, unless that is cancelled already.
StatusContext(w, from, to) ==
  /\ WorkerStep(w, from, to)
  /\ detached' = [detached EXCEPT ![w] = cancelled]
  /\ UNCHANGED <<svcVars, queue, job>>

NewStatusContext(w) ==
  \/ StatusContext(w, "downloaded", "complete")
  \/ \E from \in {"failed", "aborted"} : StatusContext(w, from, "fail")

\* MarkFileCompleted; when it fails, the attempt loop ends with its error.
BeginComplete(w) == WorkerStep(w, "complete", "completing") /\ Call(w, "completed")

Completed(w) == Drop(w, "completing") /\ Svc!Commit(w)

CompleteRefused(w) ==
  /\ \/ CtxDone(w) /\ WorkerStep(w, "complete", "failed") /\ UNCHANGED svcVars
     \/ WorkerStep(w, "completing", "failed") /\ (Svc!Refuse(w) \/ StoreError(w))
  /\ KeepJob

\* markFailed: MarkFileFailed, whose result Handle ignores.
BeginFail(w) == WorkerStep(w, "fail", "failing") /\ Call(w, "error")

Failed(w) ==
  \/ CtxDone(w) /\ Drop(w, "fail") /\ UNCHANGED svcVars
  \/ Drop(w, "failing") /\ (Svc!Commit(w) \/ Svc!Refuse(w) \/ StoreError(w))

WorkerNext(w) ==
  \/ Take(w)
  \/ BeginStart(w) \/ Started(w) \/ StartRefused(w)
  \/ Download(w) \/ Abort(w) \/ NewStatusContext(w)
  \/ BeginComplete(w) \/ Completed(w) \/ CompleteRefused(w)
  \/ BeginFail(w) \/ Failed(w)

-----------------------------------------------------------------------------
(***************************************************************************)
(* Enqueue and EnqueueAll, run by the handlers and the retry loops.        *)
(***************************************************************************)
Disabled   == closing # "open"
PoolClosed == closing \in {"draining", "over"}

EnqStep(e, from, new) ==
  /\ enq[e].at = from
  /\ enq' = [enq EXCEPT ![e] = new]
  /\ UNCHANGED <<stage, job, detached, cancelled, closing>>

\* Enqueue goes on with the next file, or it returns an error, and so does the
\* EnqueueAll that called it.
NextFile(e, from) == EnqStep(e, from, [enq[e] EXCEPT !.at = "scan", !.i = @ + 1])
Fail(e, from)     == EnqStep(e, from, Idle)

\* createTask: CreateTask, in memory mode with the insertion in the cache.
Create(e, t, n) ==
  /\ EnqStep(e, "idle", [Idle EXCEPT !.at = IF UseCache THEN "creating" ELSE "next",
                                     !.todo = {t}])
  /\ Svc!CreateTask(e, t, n)
  /\ UNCHANGED queue

Created(e) ==
  /\ EnqStep(e, "creating", [enq[e] EXCEPT !.at = "next"])
  /\ Svc!InsertCache(e)
  /\ UNCHANGED queue

\* A tick of retryTicker: EnqueueAll lists the tasks, unless it is disabled.
Tick(e) ==
  /\ ~Disabled
  /\ Svc!Readable
  /\ EnqStep(e, "idle", [Idle EXCEPT !.at = "next", !.todo = {t \in Task : Svc!View[t] # None}])
  /\ UNCHANGED <<svcVars, queue>>

\* Enqueue of the next task: GetTask, unless enqueueing was disabled meanwhile.
GetTask(e, t) ==
  /\ t \in enq[e].todo
  /\ IF Disabled
     THEN EnqStep(e, "next", [enq[e] EXCEPT !.todo = @ \ {t}])
     ELSE /\ Svc!Readable
          /\ EnqStep(e, "next", [at |-> "scan", todo |-> enq[e].todo \ {t}, task |-> t,
                                 files |-> Svc!View[t].files, i |-> 1])
  /\ UNCHANGED <<svcVars, queue>>

InScan(e)   == enq[e].at = "scan" /\ enq[e].i \in DOMAIN enq[e].files
WaitsHere(e) == enq[e].files[enq[e].i] = "waiting"

Skip(e) ==
  /\ InScan(e) /\ ~WaitsHere(e)
  /\ NextFile(e, "scan")
  /\ UNCHANGED <<svcVars, queue>>

\* Mutant of Submit: a full queue is no error, the job is dropped.
SubmitDropped(e) ==
  /\ InScan(e) /\ WaitsHere(e)
  /\ EnqStep(e, "scan", [enq[e] EXCEPT !.at = "submitted"])
  /\ queue' = IF Len(queue) < QueueSize
              THEN Append(queue, [task |-> enq[e].task, file |-> enq[e].i])
              ELSE queue
  /\ UNCHANGED svcVars

\* Mutant of Submit: the queue takes more jobs than its capacity.
SubmitUnbounded(e) ==
  /\ InScan(e) /\ WaitsHere(e)
  /\ ~PoolClosed
  /\ EnqStep(e, "scan", [enq[e] EXCEPT !.at = "submitted"])
  /\ queue' = Append(queue, [task |-> enq[e].task, file |-> enq[e].i])
  /\ UNCHANGED svcVars

\* pool.Submit takes the job; the file is marked only afterwards.
Submit(e) ==
  /\ InScan(e) /\ WaitsHere(e)
  /\ ~PoolClosed /\ Len(queue) < QueueSize
  /\ EnqStep(e, "scan", [enq[e] EXCEPT !.at = "submitted"])
  /\ queue' = Append(queue, [task |-> enq[e].task, file |-> enq[e].i])
  /\ UNCHANGED svcVars

\* pool.Submit fails: the queue is full, the pool closed or the context done.
SubmitFails(e) ==
  /\ InScan(e) /\ WaitsHere(e)
  /\ Fail(e, "scan")
  /\ UNCHANGED <<svcVars, queue>>

\* MarkFileQueued, with the error of a context that is done or a store that fails.
BeginMark(e) ==
  /\ EnqStep(e, "submitted", [enq[e] EXCEPT !.at = "marking"])
  /\ Svc!Load(e, "queued", enq[e].task, enq[e].i)
  /\ UNCHANGED queue

Marked(e) ==
  /\ NextFile(e, "marking")
  /\ Svc!Commit(e) \/ Svc!Refuse(e)
  /\ UNCHANGED queue

MarkFails(e) ==
  /\ \/ Fail(e, "submitted") /\ UNCHANGED svcVars
     \/ Fail(e, "marking") /\ Svc!StoreError(e)
  /\ UNCHANGED queue

TaskDone(e) ==
  /\ enq[e].at = "scan" /\ enq[e].i \notin DOMAIN enq[e].files
  /\ EnqStep(e, "scan", [Idle EXCEPT !.at = "next", !.todo = enq[e].todo])
  /\ UNCHANGED <<svcVars, queue>>

\* Enqueue, or EnqueueAll, returns: no task is left, or GetTask fails because the
\* context is done.
Return(e) == Fail(e, "next") /\ UNCHANGED <<svcVars, queue>>

\* Mutant of RetryExit: retryStop is closed only after retryWG.Wait.
RetryExitLate(e) ==
  /\ closing = "draining"
  /\ EnqStep(e, "idle", [Idle EXCEPT !.at = "gone"])
  /\ UNCHANGED <<svcVars, queue>>

\* retryLoop ends: retryStop is closed, or the workers' context is cancelled.
RetryExit(e) ==
  /\ cancelled \/ closing = "stopping"
  /\ EnqStep(e, "idle", [Idle EXCEPT !.at = "gone"])
  /\ UNCHANGED <<svcVars, queue>>

\* The steps of an Enqueue or EnqueueAll that was called.
EnqNext(e) ==
  \/ Created(e)
  \/ \E t \in Task : GetTask(e, t)
  \/ Skip(e) \/ Submit(e) \/ SubmitFails(e)
  \/ BeginMark(e) \/ Marked(e) \/ MarkFails(e)
  \/ TaskDone(e) \/ Return(e)

-----------------------------------------------------------------------------
(***************************************************************************)
(* stopNewDownloads and DownloadManager.Close.                             *)
(***************************************************************************)
CloseStep(from, to) ==
  /\ closing = from
  /\ closing' = to
  /\ UNCHANGED <<svcVars, queue, stage, job, detached, enq, cancelled>>

\* A restart (SIGHUP) leaves the handlers running on the old component meanwhile; an
\* exit (SIGTERM) has waited for them and lets no new one in, which is fewer behaviours.
DisableEnqueue == MayClose /\ CloseStep("open", "disabled")

\* workCanc, after DisableEnqueue (SIGHUP), or the signal itself, which cancels
\* the parent context before it (SIGTERM).
Cancel ==
  /\ MayClose
  /\ ~cancelled
  /\ closing \in {"open", "disabled"}
  /\ cancelled' = TRUE
  /\ UNCHANGED <<svcVars, queue, stage, job, detached, enq, closing>>

\* Close: retryStop is closed; retryWG.Wait; pool.Stop closes the queue and waits
\* until the workers have drained it.
StopRetry == cancelled /\ CloseStep("disabled", "stopping")

ClosePool == (\A e \in Retry : enq[e].at = "gone") /\ CloseStep("stopping", "draining")

Drained ==
  /\ queue = <<>> /\ \A w \in Worker : stage[w] = "idle"
  /\ CloseStep("draining", "over")

CloseNext == StopRetry \/ ClosePool \/ Drained

-----------------------------------------------------------------------------
Next ==
  \/ \E w \in Worker : WorkerNext(w)
  \/ \E e \in Enqueuer : EnqNext(e)
  \/ \E e \in Api, t \in Task, n \in 1..MaxFiles : Create(e, t, n)
  \/ \E e \in Retry : Tick(e) \/ RetryExit(e)
  \/ DisableEnqueue \/ Cancel \/ CloseNext

Spec == Init /\ [][Next]_vars

\* A goroutine that can run does run.  The ticker never stops, and the contexts
\* of the retry loop do not expire every time: it lists the tasks, reaches each of
\* them, and submits a job when there is room, if it can do so again and again.
\* Nothing is assumed of the contexts of the handlers.
Fairness ==
  /\ \A w \in Worker : WF_vars(WorkerNext(w))
  /\ \A e \in Enqueuer : WF_vars(EnqNext(e))
  /\ \A e \in Retry : /\ SF_vars(Tick(e))
                      /\ SF_vars(Submit(e))
                      /\ \A t \in Task : SF_vars(GetTask(e, t))
                      /\ WF_vars(RetryExit(e))
  /\ WF_vars(CloseNext)

FairSpec == Spec /\ Fairness

-----------------------------------------------------------------------------
Is(t, i, st) == store[t] # None /\ i \in DOMAIN store[t].files /\ store[t].files[i] = st

\* A job for file i of t that MarkFileStarted has not reached yet.
JobWaits(t, i) ==
  \/ \E k \in DOMAIN queue : queue[k] = [task |-> t, file |-> i]
  \/ \E w \in Worker : stage[w] \in {"took", "starting"} /\ job[w] = [task |-> t, file |-> i]

\* A worker that has started file i of t and has not reported its end.
WorkerHas(t, i) ==
  \E w \in Worker : /\ job[w] = [task |-> t, file |-> i]
                    /\ stage[w] \in Stage \ {"idle", "took", "starting"}

\* Memory mode, no store faults, not cancelled: a queued file has a job on its
\* way, so it is never forgotten, although the job is submitted before the file
\* is marked and a worker may overtake the mark (download_manager.go:151-157).
QueuedHasJob ==
  UseCache /\ ~StoreFaults /\ ~cancelled =>
    \A t \in Task, i \in 1..MaxFiles : Is(t, i, "queued") => JobWaits(t, i)

\* Under the same conditions a downloading file has a worker that will report its
\* end, even when two jobs for it run at once (downloader.go:94-156).
DownloadingHasWorker ==
  UseCache /\ ~StoreFaults /\ ~cancelled =>
    \A t \in Task, i \in 1..MaxFiles : Is(t, i, "downloading") => WorkerHas(t, i)

\* "Enqueue queues all files of a task that are not completed or in error state"
\* (download_manager.go:126), although it skips every file it does not find waiting:
\* when it gets through the files, each of them is finished, has a job on its way, or
\* is being downloaded.  The store fails no update and nothing is cancelled.  It does
\* not hold of the files an earlier process left queued or downloading (AtStart).
EnqueueQueuesAll ==
  [][\A e \in Enqueuer : TaskDone(e) /\ ~StoreFaults /\ ~cancelled =>
       \A i \in DOMAIN enq[e].files :
         \/ Is(enq[e].task, i, "completed") \/ Is(enq[e].task, i, "error")
         \/ JobWaits(enq[e].task, i) \/ WorkerHas(enq[e].task, i)]_vars

\* Every file of every created task is completed or failed sooner or later, unless
\* the manager is shut down: what a handler could not enqueue, because the queue
\* was full or its context was done, the retry loop enqueues (download_manager.go:187).
EventuallyFinished ==
  \A t \in Task, i \in 1..MaxFiles :
    Is(t, i, "waiting") ~>
      (Is(t, i, "completed") \/ Is(t, i, "error") \/ cancelled \/ Disabled)

\* Close returns: the retry loop ends, and the workers drain the queue and end
\* every download (download_manager.go:102).
CloseReturns == (closing = "stopping") ~> (closing = "over")

\* "file already completed" (service.go:276, :496): the checks of the Mark calls
\* mean that a completed file stays completed.
CompletedIsFinal == Svc!CompletedIsFinal
=============================================================================
