-------------------------------- MODULE Pool --------------------------------
(***************************************************************************)
(* worker.Pool: a channel of jobs, the workers that range over it, and the *)
(* calls of Start, Submit and Stop.  Every atomic load or store, channel   *)
(* operation and select of those calls is a step.                          *)
(*                                                                         *)
(* A job is one submission; one that was refused may be submitted again.   *)
(* The context of a Submit may be done at either select, or never: that is *)
(* a choice.  Stop is called only once Start has returned, as in *)
(* NewDownloadManager, which starts the pool before anyone can stop it.    *)
(***************************************************************************)
EXTENDS Naturals, Sequences

CONSTANTS
  Job,        \* submissions
  Worker,     \* the workers of the pool
  Submitter,  \* goroutines that call Submit
  Stopper,    \* goroutines that call Stop
  QueueSize,  \* capacity of the channel jobs
  None

ASSUME PoolAssumption ==
  /\ QueueSize \in Nat \ {0}
  /\ Worker # {}
  /\ None \notin Job

VARIABLES
  started,   \* Pool.started
  closed,    \* Pool.closed
  done,      \* the channel done is closed
  chClosed,  \* the channel jobs is closed
  jobs,      \* buffer of the channel jobs
  worker,    \* each worker: "new", "ready" for the next job, "busy" or "gone"
  hand,      \* the job a busy worker handles
  submit,    \* where each submitter is in Submit: "out" of it, or at a step
  arg,       \* the job it submits
  stop,      \* where each stopper is in Stop
  once,      \* stopOnce: "fresh", "running" or "over"
  accepted,  \* history: jobs whose Submit returned nil
  handled    \* history: jobs whose Handle returned

vars == <<started, closed, done, chClosed, jobs, worker, hand, submit, arg,
          stop, once, accepted, handled>>

startVars  == <<started>>
flagVars   == <<closed, done, chClosed>>
workVars   == <<worker, hand, handled>>
submitVars == <<submit, arg>>
stopVars   == <<stop, once>>

TypeOK ==
  /\ started \in BOOLEAN /\ closed \in BOOLEAN /\ done \in BOOLEAN /\ chClosed \in BOOLEAN
  /\ jobs \in Seq(Job) /\ Len(jobs) <= QueueSize
  /\ worker \in [Worker -> {"new", "ready", "busy", "gone"}]
  /\ hand \in [Worker -> Job \cup {None}]
  /\ submit \in [Submitter -> {"out", "closed?", "select1", "select2"}]
  /\ arg \in [Submitter -> Job \cup {None}]
  /\ stop \in [Stopper -> {"out", "once", "store", "done", "jobs", "wait", "back"}]
  /\ once \in {"fresh", "running", "over"}
  /\ accepted \subseteq Job
  /\ handled \subseteq Job

Init ==
  /\ started = FALSE /\ closed = FALSE /\ done = FALSE /\ chClosed = FALSE
  /\ jobs = <<>>
  /\ worker = [w \in Worker |-> "new"]
  /\ hand = [w \in Worker |-> None]
  /\ submit = [s \in Submitter |-> "out"]
  /\ arg = [s \in Submitter |-> None]
  /\ stop = [s \in Stopper |-> "out"]
  /\ once = "fresh"
  /\ accepted = {}
  /\ handled = {}

-----------------------------------------------------------------------------
\* Start: the compare-and-swap, then one goroutine after another.  A second
\* Start finds started set and does nothing.
Start ==
  /\ ~started
  /\ started' = TRUE
  /\ UNCHANGED <<flagVars, jobs, workVars, submitVars, stopVars, accepted>>

Spawn(w) ==
  /\ started
  /\ worker[w] = "new"
  /\ worker' = [worker EXCEPT ![w] = "ready"]
  /\ UNCHANGED <<startVars, flagVars, jobs, hand, handled, submitVars, stopVars, accepted>>

-----------------------------------------------------------------------------
\* run: range over jobs, which drains a closed channel before it ends.
Take(w) ==
  /\ worker[w] = "ready"
  /\ jobs # <<>>
  /\ worker' = [worker EXCEPT ![w] = "busy"]
  /\ hand' = [hand EXCEPT ![w] = Head(jobs)]
  /\ jobs' = Tail(jobs)
  /\ UNCHANGED <<startVars, flagVars, handled, submitVars, stopVars, accepted>>

\* Handle returns; run only logs its error.
Finish(w) ==
  /\ worker[w] = "busy"
  /\ worker' = [worker EXCEPT ![w] = "ready"]
  /\ hand' = [hand EXCEPT ![w] = None]
  /\ handled' = handled \cup {hand[w]}
  /\ UNCHANGED <<startVars, flagVars, jobs, submitVars, stopVars, accepted>>

\* Mutant of Exit: the worker leaves as soon as the channel is closed.
ExitUndrained(w) ==
  /\ worker[w] = "ready"
  /\ chClosed
  /\ worker' = [worker EXCEPT ![w] = "gone"]
  /\ UNCHANGED <<startVars, flagVars, jobs, hand, handled, submitVars, stopVars, accepted>>

\* The channel is closed and empty: wg.Done.
Exit(w) ==
  /\ worker[w] = "ready"
  /\ chClosed
  /\ jobs = <<>>
  /\ worker' = [worker EXCEPT ![w] = "gone"]
  /\ UNCHANGED <<startVars, flagVars, jobs, hand, handled, submitVars, stopVars, accepted>>

-----------------------------------------------------------------------------
SubmitStep(s, from, to) ==
  /\ submit[s] = from
  /\ submit' = [submit EXCEPT ![s] = to]
  /\ UNCHANGED <<startVars, flagVars, workVars, stopVars>>

SubmitReturn(s, from) ==
  /\ SubmitStep(s, from, "out")
  /\ arg' = [arg EXCEPT ![s] = None]

Submitting(j) == \E s \in Submitter : arg[s] = j

\* Submit before Start returns ErrPoolNotStarted and changes nothing.
CallSubmit(s, j) ==
  /\ started
  /\ j \notin accepted /\ ~Submitting(j)
  /\ SubmitStep(s, "out", "closed?")
  /\ arg' = [arg EXCEPT ![s] = j]
  /\ UNCHANGED <<jobs, accepted>>

CheckClosed(s) ==
  /\ IF closed THEN SubmitReturn(s, "closed?")
               ELSE SubmitStep(s, "closed?", "select1") /\ UNCHANGED arg
  /\ UNCHANGED <<jobs, accepted>>

\* Neither ctx.Done nor done is ready.
FirstDefault(s) ==
  /\ ~done
  /\ SubmitStep(s, "select1", "select2")
  /\ UNCHANGED <<arg, jobs, accepted>>

\* Either select finds done closed and returns ErrPoolClosed.
DoneClosed(s) ==
  /\ done
  /\ SubmitReturn(s, "select1") \/ SubmitReturn(s, "select2")
  /\ UNCHANGED <<jobs, accepted>>

\* Either select finds the context done and returns ctx.Err().
GiveUp(s) ==
  /\ SubmitReturn(s, "select1") \/ SubmitReturn(s, "select2")
  /\ UNCHANGED <<jobs, accepted>>

\* Mutant of Send: Submit returns nil for a job the channel did not take.
SendDropped(s) ==
  /\ ~chClosed
  /\ Len(jobs) < QueueSize
  /\ SubmitReturn(s, "select2")
  /\ accepted' = accepted \cup {arg[s]}
  /\ UNCHANGED jobs

Send(s) ==
  /\ ~chClosed
  /\ Len(jobs) < QueueSize
  /\ SubmitReturn(s, "select2")
  /\ jobs' = Append(jobs, arg[s])
  /\ accepted' = accepted \cup {arg[s]}

\* Mutant of SendOnClosed: no recover, so the goroutine never returns.
SendPanics(s) ==
  /\ chClosed
  /\ SubmitStep(s, "select2", "panicked")
  /\ UNCHANGED <<arg, jobs, accepted>>

\* The select may choose the send on the closed channel even though done is
\* ready; it panics, and the deferred recover returns ErrPoolClosed.
SendOnClosed(s) ==
  /\ chClosed
  /\ SubmitReturn(s, "select2")
  /\ UNCHANGED <<jobs, accepted>>

\* Mutant of QueueFull: no default, so the select waits until a worker has made room.
QueueFullWaits(s) ==
  /\ ~done /\ ~chClosed
  /\ Len(jobs) = QueueSize
  /\ SubmitStep(s, "select2", "select2")
  /\ UNCHANGED <<arg, jobs, accepted>>

\* default: ErrPoolFull.
QueueFull(s) ==
  /\ ~done /\ ~chClosed
  /\ Len(jobs) = QueueSize
  /\ SubmitReturn(s, "select2")
  /\ UNCHANGED <<jobs, accepted>>

-----------------------------------------------------------------------------
StopStep(s, from, to) ==
  /\ stop[s] = from
  /\ stop' = [stop EXCEPT ![s] = to]
  /\ UNCHANGED <<startVars, jobs, workVars, submitVars, accepted>>

CallStop(s) ==
  /\ \A w \in Worker : worker[w] # "new"
  /\ StopStep(s, "out", "once")
  /\ UNCHANGED <<flagVars, once>>

\* stopOnce.Do: the first caller runs the body, the others wait until it is over.
EnterOnce(s) ==
  /\ once = "fresh"
  /\ StopStep(s, "once", "store")
  /\ once' = "running"
  /\ UNCHANGED flagVars

\* Mutant of PassOnce: a flag instead of sync.Once, so later callers do not wait.
PassOnceEarly(s) ==
  /\ once # "fresh"
  /\ StopStep(s, "once", "back")
  /\ UNCHANGED <<flagVars, once>>

PassOnce(s) ==
  /\ once = "over"
  /\ StopStep(s, "once", "back")
  /\ UNCHANGED <<flagVars, once>>

StoreClosed(s) ==
  /\ StopStep(s, "store", "done")
  /\ closed' = TRUE
  /\ UNCHANGED <<done, chClosed, once>>

CloseDone(s) ==
  /\ StopStep(s, "done", "jobs")
  /\ done' = TRUE
  /\ UNCHANGED <<closed, chClosed, once>>

\* Mutant of CloseJobs: the channel is left open and the workers wait forever.
CloseJobsForgotten(s) ==
  /\ StopStep(s, "jobs", "wait")
  /\ UNCHANGED <<flagVars, once>>

CloseJobs(s) ==
  /\ StopStep(s, "jobs", "wait")
  /\ chClosed' = TRUE
  /\ UNCHANGED <<closed, done, once>>

\* wg.Wait
WaitWorkers(s) ==
  /\ \A w \in Worker : worker[w] = "gone"
  /\ StopStep(s, "wait", "back")
  /\ once' = "over"
  /\ UNCHANGED flagVars

-----------------------------------------------------------------------------
WorkerNext(w) == Spawn(w) \/ Take(w) \/ Finish(w) \/ Exit(w)

\* The steps of a Submit that was called, while its context is not done.
SubmitNext(s) ==
  \/ CheckClosed(s) \/ FirstDefault(s) \/ DoneClosed(s)
  \/ Send(s) \/ SendOnClosed(s) \/ QueueFull(s)

\* The steps of a Stop that was called.
StopNext(s) ==
  EnterOnce(s) \/ PassOnce(s) \/ StoreClosed(s) \/ CloseDone(s) \/ CloseJobs(s) \/ WaitWorkers(s)

Next ==
  \/ Start
  \/ \E w \in Worker : WorkerNext(w)
  \/ \E s \in Submitter : SubmitNext(s) \/ GiveUp(s) \/ \E j \in Job : CallSubmit(s, j)
  \/ \E s \in Stopper : CallStop(s) \/ StopNext(s)

\* A goroutine that can run does run, and Handle returns: its attempts are
\* bounded in number and each is bounded by the download timeout.  A context
\* need never be done.
Fairness ==
  /\ \A w \in Worker : WF_vars(WorkerNext(w))
  /\ \A s \in Submitter : WF_vars(SubmitNext(s))
  /\ \A s \in Stopper : WF_vars(StopNext(s))

Spec     == Init /\ [][Next]_vars
FairSpec == Spec /\ Fairness

-----------------------------------------------------------------------------
Queued  == {jobs[i] : i \in DOMAIN jobs}
InHand  == {hand[w] : w \in Worker} \ {None}
Stopped == \E s \in Stopper : stop[s] = "back"

\* An accepted job is in exactly one place: in the channel once, in the hand of
\* one worker, or handled.  No job is lost, duplicated or made up (pool.go:120, :129).
NoJobLost ==
  /\ accepted = Queued \cup InHand \cup handled
  /\ Queued \cap InHand = {} /\ Queued \cap handled = {} /\ InHand \cap handled = {}
  /\ \A i, k \in DOMAIN jobs : jobs[i] = jobs[k] => i = k
  /\ \A v, w \in Worker : hand[v] = hand[w] /\ hand[v] # None => v = w

\* When any call of Stop has returned, every job ever accepted was handled and
\* no worker runs, although Submit calls may race with it (pool.go:70-77).
StoppedDrained ==
  Stopped => accepted = handled /\ \A w \in Worker : worker[w] = "gone"

\* What the invariants rest on: a submitter inside Submit holds a job of its own,
\* the workers inside Handle are those with a job, a worker leaves only a closed
\* and empty channel, and Stop is over only when all have left.
ArgFresh ==
  /\ \A s \in Submitter : IF submit[s] = "out" THEN arg[s] = None
                                               ELSE arg[s] \in Job \ accepted
  /\ \A r, s \in Submitter : arg[r] = arg[s] /\ arg[r] # None => r = s
BusyHand == \A w \in Worker : worker[w] = "busy" <=> hand[w] # None
GoneLast == \A w \in Worker : worker[w] = "gone" => chClosed /\ jobs = <<>>
OverLast == once = "over" \/ Stopped => \A w \in Worker : worker[w] = "gone"

\* The inductive invariant behind the theorems of PoolProofs.
IInv == TypeOK /\ NoJobLost /\ ArgFresh /\ BusyHand /\ GoneLast /\ OverLast

\* The pool implements the queue it promises: in particular nothing is accepted
\* once Stop returned, and every accepted job is handled eventually.
Queue == INSTANCE JobQueue WITH stopped <- Stopped
ImplementsQueue == Queue!Spec
JobsHandled     == Queue!Fairness

\* Stop returns to every caller: no worker waits for a channel that is never closed.
StopReturns == \A s \in Stopper : (stop[s] = "once") ~> (stop[s] = "back")

\* Submit never blocks its caller: with a channel that is full, open or closed, and with
\* its context not done, it can always go on by itself.  It waits for no worker, and for
\* no Stop that is half-way (pool.go:108-124).  Its steps are three at most.
SubmitNeverBlocks == \A s \in Submitter : submit[s] # "out" => ENABLED <<SubmitNext(s)>>_vars
=============================================================================
