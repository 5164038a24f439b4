----------------------------- MODULE Lifecycle -----------------------------
(***************************************************************************)
(* cmd/server/main.go: one main goroutine builds the component that serves *)
(* (service, manager, store), replaces it on SIGHUP and takes it down on   *)
(* SIGTERM, while handlers reach the component through the holder, and     *)
(* each component has goroutines of its own: its workers, its retry loop   *)
(* and, in memory mode, the one that takes periodic snapshots.             *)
(*                                                                         *)
(* A task has one file.  What the components share is on disk, so a status *)
(* belongs to the task and not to a component; FileStore says how far that *)
(* is so in memory mode.  An Enqueue and the end of a download are single  *)
(* steps here, and one job of a file runs at a time: Downloads takes them  *)
(* apart.  Handlers that only read are left out.                           *)
(***************************************************************************)
EXTENDS TaskStatus

CONSTANTS
  Task,     \* tasks
  Handler,  \* goroutines that serve POST /tasks
  Modes,    \* the storage modes considered: "memory", "bbolt"
  MaxHup,   \* bound on the number of SIGHUPs sent
  None      \* nil, absent

VARIABLES
  mode,     \* STORAGE_MODE
  main,     \* where the main goroutine is, for which signal, on which component
  hups,     \* SIGHUPs sent so far
  hup,      \* restartCh holds one
  term,     \* SIGTERM or SIGINT was sent: ctx is done
  serving,  \* the server takes requests
  holder,   \* h.comp
  lock,     \* h.mu, as its one writer, the main goroutine, has it
  newest,   \* number of components built
  comp,     \* the components
  status,   \* the status of each task's file on disk, or None
  handler   \* where each handler is

vars == <<mode, main, hups, hup, term, serving, holder, lock, newest, comp, status, handler>>

ASSUME LifecycleAssumption ==
  /\ Modes \subseteq {"memory", "bbolt"}
  /\ MaxHup \in Nat
  /\ None \notin Nat \cup FileStatus

Comp == 1..(MaxHup + 1)

\* The goroutine of periodic snapshots: about to evaluate its select, waiting on the
\* stop channel, waiting on a nil channel in its place, in FlushSnapshot, ended.
SnapAt  == {"none", "top", "waits", "deaf", "flush", "gone"}
CompRec == [open      : BOOLEAN,       \* its store is
            disabled  : BOOLEAN,       \* enqueueDisabled
            cancelled : BOOLEAN,       \* workCanc was called
            loop      : BOOLEAN,       \* its retry loop runs
            poolOpen  : BOOLEAN,       \* the pool takes jobs
            jobs      : SUBSET Task,   \* in the pool's queue
            run       : SUBSET Task,   \* being downloaded
            snap      : SnapAt,
            snapStop  : {"nil", "chan"},  \* the field, which is reset
            closed    : BOOLEAN]          \* the channel, which is closed

HandlerRec == [at : {"idle", "creating", "created", "enqueuing"},
               comp : Comp \cup {None}, task : Task \cup {None}]

\* What main does, in this order for a restart; an exit starts with "take" and passes
\* "shutdown" instead of "locking".
Stopping == {"disable", "cancel", "waitRetry", "drain", "locking", "shutdown",
             "snap", "snapWait", "close"}
MainAt   == Stopping \cup {"build", "enqueue", "serve", "take", "down", "dead", "panic"}

TypeOK ==
  /\ mode \in Modes
  /\ main \in [at : MainAt, why : {"start", "restart", "exit"}, comp : Comp \cup {None}]
  /\ main.at \in Stopping => main.comp \in 1..newest
  /\ hups \in 0..MaxHup /\ hup \in BOOLEAN /\ term \in BOOLEAN /\ serving \in BOOLEAN
  /\ newest \in 0..(MaxHup + 1)
  /\ holder \in Comp \cup {None}
  /\ lock \in {"free", "pending", "held"}
  /\ comp \in [Comp -> CompRec \cup {None}]
  /\ status \in [Task -> FileStatus \cup {None}]
  /\ handler \in [Handler -> HandlerRec]

Idle == [at |-> "idle", comp |-> None, task |-> None]

\* The process starts on what an earlier one has left.
Init ==
  /\ mode \in Modes
  /\ main = [at |-> "build", why |-> "start", comp |-> None]
  /\ hups = 0 /\ hup = FALSE /\ term = FALSE /\ serving = FALSE
  /\ holder = None /\ lock = "free" /\ newest = 0
  /\ comp = [c \in Comp |-> None]
  /\ status \in [Task -> FileStatus \cup {None}]
  /\ handler = [h \in Handler |-> Idle]

Alive   == main.at \notin {"down", "dead", "panic"}
Built   == 1..newest
Readers == {h \in Handler : handler[h].at \in {"creating", "enqueuing"}}

\* The context of the workers and of the retry loop: cancelled by workCanc, or with
\* its parent by SIGTERM.
Cancelled(c) == comp[c].cancelled \/ term

-----------------------------------------------------------------------------
(***************************************************************************)
(* The main goroutine.                                                     *)
(***************************************************************************)
MainStep(from, to) ==
  /\ main.at = from
  /\ main' = [main EXCEPT !.at = to]
  /\ UNCHANGED <<mode, hups, term, status, handler>>

KeepHolder == UNCHANGED <<hup, serving, holder, lock, newest>>

\* The fields that one of main's steps on its component changes.
Set(c, rec) == comp' = [comp EXCEPT ![c] = rec]

\* Mutant of NewComponent: the retry loop is not started.
NewComponentNoLoop ==
  [open |-> TRUE, disabled |-> FALSE, cancelled |-> FALSE, loop |-> FALSE, poolOpen |-> TRUE,
   jobs |-> {}, run |-> {}, closed |-> FALSE,
   snap     |-> IF mode = "memory" THEN "top" ELSE "none",
   snapStop |-> IF mode = "memory" THEN "chan" ELSE "nil"]

\* newAppComponent, setup and what they start.
NewComponent ==
  [open |-> TRUE, disabled |-> FALSE, cancelled |-> FALSE, loop |-> TRUE, poolOpen |-> TRUE,
   jobs |-> {}, run |-> {}, closed |-> FALSE,
   snap     |-> IF mode = "memory" THEN "top" ELSE "none",
   snapStop |-> IF mode = "memory" THEN "chan" ELSE "nil"]

\* newAppComponent returns a component, and it is put into the holder.
Build ==
  /\ MainStep("build", "enqueue")
  /\ newest' = newest + 1
  /\ Set(newest + 1, NewComponent)
  /\ holder' = newest + 1
  /\ UNCHANGED <<hup, serving, lock>>

\* Mutant of BuildFails: the holder is emptied before the new component is built.
BuildFailsEmpty ==
  /\ MainStep("build", IF main.why = "start" THEN "dead" ELSE "serve")
  /\ lock' = "free"
  /\ holder' = None
  /\ UNCHANGED <<hup, serving, newest, comp>>

\* Mutant of BuildFails: the error return does not unlock the holder.
BuildFailsLocked ==
  /\ MainStep("build", IF main.why = "start" THEN "dead" ELSE "serve")
  /\ UNCHANGED <<hup, serving, holder, lock, newest, comp>>

\* newAppComponent fails: at the start the process gives up, a restart leaves the
\* closed component in the holder.  It leaves no store open, unless NewDownloadManager
\* fails (main.go:393), which is up to the configuration: that is the same on a restart.
BuildFails ==
  /\ MainStep("build", IF main.why = "start" THEN "dead" ELSE "serve")
  /\ lock' = "free"
  /\ UNCHANGED <<hup, serving, holder, newest, comp>>

Waiting == {t \in Task : status[t] = "waiting"}

\* Enqueue of the tasks S on component c, given up after any of them: it submits the
\* jobs of `taken` and marks the files of `marked`.
Submits(c, S, taken, marked) ==
  /\ taken \subseteq S \cap Waiting /\ marked \subseteq taken
  /\ taken # {} => comp[c].poolOpen /\ ~comp[c].disabled
  /\ comp' = [comp EXCEPT ![c].jobs = @ \cup taken]
  /\ status' = [t \in Task |-> IF t \in marked THEN "queued" ELSE status[t]]

\* EnqueueAll after the component was built; then main serves.
EnqueueAll ==
  /\ main.at = "enqueue"
  /\ \E taken, marked \in SUBSET Task : Submits(holder, Task, taken, marked)
  /\ main' = [main EXCEPT !.at = "serve"]
  /\ serving' = TRUE
  /\ lock' = "free"
  /\ UNCHANGED <<mode, hups, hup, term, holder, newest, handler>>

\* restartComponent reads the holder.
TakeRestart ==
  /\ main.at = "serve" /\ hup
  /\ hup' = FALSE
  /\ main' = [at |-> "disable", why |-> "restart", comp |-> holder]
  /\ UNCHANGED <<mode, hups, term, serving, holder, lock, newest, comp, status, handler>>

\* h.get waits for the handlers in the component, and empties the holder.
AskHolder ==
  /\ term
  /\ MainStep("serve", "take")
  /\ lock' = "pending"
  /\ UNCHANGED <<hup, serving, holder, newest, comp>>

TakeHolder ==
  /\ main.at = "take" /\ Readers = {}
  /\ main' = [at |-> "disable", why |-> "exit", comp |-> holder]
  /\ holder' = None
  /\ lock' = "free"
  /\ UNCHANGED <<mode, hups, hup, term, serving, newest, comp, status, handler>>

\* stopNewDownloads: DisableEnqueue, workCanc, Close of the manager.
Disable ==
  /\ MainStep("disable", "cancel")
  /\ Set(main.comp, [comp[main.comp] EXCEPT !.disabled = TRUE])
  /\ KeepHolder

Cancel ==
  /\ MainStep("cancel", "waitRetry")
  /\ Set(main.comp, [comp[main.comp] EXCEPT !.cancelled = TRUE])
  /\ KeepHolder

\* Close waits for the retry loop, then pool.Stop closes the queue.
ClosePool ==
  /\ MainStep("waitRetry", "drain")
  /\ ~comp[main.comp].loop
  /\ Set(main.comp, [comp[main.comp] EXCEPT !.poolOpen = FALSE])
  /\ KeepHolder

\* pool.Stop returns; a restart goes on with h.mu.Lock.
Drained ==
  /\ MainStep("drain", IF main.why = "restart" THEN "locking" ELSE "shutdown")
  /\ comp[main.comp].jobs = {} /\ comp[main.comp].run = {}
  /\ lock' = IF main.why = "restart" THEN "pending" ELSE lock
  /\ UNCHANGED <<hup, serving, holder, newest, comp>>

\* Mutant of Locked: h.mu.RLock instead of h.mu.Lock.
LockedShared ==
  /\ MainStep("locking", "snap")
  /\ lock' = "held"
  /\ UNCHANGED <<hup, serving, holder, newest, comp>>

\* Lock keeps new readers out and waits for those inside.
Locked ==
  /\ MainStep("locking", "snap")
  /\ Readers = {}
  /\ lock' = "held"
  /\ UNCHANGED <<hup, serving, holder, newest, comp>>

\* srv.Shutdown takes no more requests and waits for the handlers, for 30 seconds.
Shutdown ==
  /\ MainStep("shutdown", "snap")
  /\ serving' = FALSE
  /\ UNCHANGED <<hup, holder, lock, newest, comp>>

\* Mutant of StopSnapshot: the field keeps the closed channel.
StopSnapshotKept ==
  /\ MainStep("snap", IF comp[main.comp].snapStop = "chan" /\ comp[main.comp].closed
                      THEN "panic" ELSE "snapWait")
  /\ Set(main.comp, [comp[main.comp] EXCEPT !.closed = @ \/ comp[main.comp].snapStop = "chan"])
  /\ KeepHolder

\* stopSnapshot: closes the channel, a panic if it is closed already, and forgets it.
StopSnapshot ==
  /\ MainStep("snap", IF comp[main.comp].snapStop = "chan" /\ comp[main.comp].closed
                      THEN "panic" ELSE "snapWait")
  /\ Set(main.comp, [comp[main.comp] EXCEPT !.closed = @ \/ comp[main.comp].snapStop = "chan",
                                            !.snapStop = "nil"])
  /\ KeepHolder

\* Mutant of SnapshotStopped: snapWG.Wait is left out.
SnapshotStoppedEarly ==
  /\ MainStep("snapWait", "close")
  /\ UNCHANGED comp
  /\ KeepHolder

\* snapWG.Wait returns.
SnapshotStopped ==
  /\ MainStep("snapWait", "close")
  /\ comp[main.comp].snap \in {"none", "gone"}
  /\ UNCHANGED comp
  /\ KeepHolder

\* Mutant of CloseStore: a restart leaves the old store open.
CloseStoreOnExit ==
  /\ MainStep("close", IF main.why = "restart" THEN "build" ELSE "down")
  /\ Set(main.comp, [comp[main.comp] EXCEPT !.open = @ /\ main.why = "restart"])
  /\ KeepHolder

\* flushSnapshot, and closeStore unless an earlier restart has closed it.
CloseStore ==
  /\ MainStep("close", IF main.why = "restart" THEN "build" ELSE "down")
  /\ Set(main.comp, [comp[main.comp] EXCEPT !.open = FALSE])
  /\ KeepHolder

MainNext ==
  \/ Build \/ BuildFails \/ EnqueueAll
  \/ TakeRestart \/ AskHolder \/ TakeHolder
  \/ Disable \/ Cancel \/ ClosePool \/ Drained \/ Locked \/ Shutdown
  \/ StopSnapshot \/ SnapshotStopped \/ CloseStore

-----------------------------------------------------------------------------
(***************************************************************************)
(* The signals.  signal.Notify drops a SIGHUP while one is in restartCh.   *)
(***************************************************************************)
SigHup ==
  /\ Alive /\ hups < MaxHup
  /\ hups' = hups + 1
  /\ hup' = TRUE
  /\ UNCHANGED <<mode, main, term, serving, holder, lock, newest, comp, status, handler>>

SigTerm ==
  /\ Alive /\ ~term
  /\ term' = TRUE
  /\ UNCHANGED <<mode, main, hups, hup, serving, holder, lock, newest, comp, status, handler>>

-----------------------------------------------------------------------------
(***************************************************************************)
(* The goroutines of component c.                                          *)
(***************************************************************************)
Background(c) ==
  /\ Alive
  /\ UNCHANGED <<mode, main, hups, hup, term, serving, holder, lock, newest, handler>>

\* The next evaluation of the select reads the field, which stopSnapshot may have
\* reset; nothing orders the two, so the old value may still be seen.
SnapRead(c) ==
  /\ Background(c)
  /\ comp[c].snap = "top"
  /\ \E to \in IF comp[c].snapStop = "chan" THEN {"waits"} ELSE {"waits", "deaf"} :
       Set(c, [comp[c] EXCEPT !.snap = to])
  /\ UNCHANGED status

SnapTick(c) ==
  /\ Background(c)
  /\ comp[c].snap \in {"waits", "deaf"}
  /\ Set(c, [comp[c] EXCEPT !.snap = "flush"])
  /\ UNCHANGED status

SnapFlushed(c) ==
  /\ Background(c)
  /\ comp[c].snap = "flush"
  /\ Set(c, [comp[c] EXCEPT !.snap = "top"])
  /\ UNCHANGED status

\* Mutant of SnapExit: the select has no case for ctx.
SnapExitNoCtx(c) ==
  /\ Background(c)
  /\ comp[c].snap = "waits" /\ comp[c].closed
  /\ Set(c, [comp[c] EXCEPT !.snap = "gone"])
  /\ UNCHANGED status

\* It ends when the channel it waits on is closed, or with ctx.
SnapExit(c) ==
  /\ Background(c)
  /\ \/ comp[c].snap = "waits" /\ comp[c].closed
     \/ comp[c].snap \in {"waits", "deaf"} /\ term
  /\ Set(c, [comp[c] EXCEPT !.snap = "gone"])
  /\ UNCHANGED status

\* retryLoop: a tick that submits at least the job of t.
RetryTick(c, t) ==
  /\ Background(c)
  /\ comp[c].loop
  /\ \E taken, marked \in SUBSET Task : t \in taken /\ Submits(c, Task, taken, marked)

\* Mutant of RetryExit: the loop is given ctx, not the context that workCanc cancels.
RetryExitLate(c) ==
  /\ Background(c)
  /\ comp[c].loop /\ term
  /\ Set(c, [comp[c] EXCEPT !.loop = FALSE])
  /\ UNCHANGED status

\* It ends with its context; retryStop is closed after that is cancelled.
RetryExit(c) ==
  /\ Background(c)
  /\ comp[c].loop /\ Cancelled(c)
  /\ Set(c, [comp[c] EXCEPT !.loop = FALSE])
  /\ UNCHANGED status

\* A worker takes the job of t: MarkFileStarted, unless its context is done or the
\* file is completed, which drop the job.
Start(c, t) ==
  /\ Background(c)
  /\ t \in comp[c].jobs \ comp[c].run
  /\ \/ /\ Cancelled(c) \/ status[t] = "completed"
        /\ Set(c, [comp[c] EXCEPT !.jobs = @ \ {t}])
        /\ UNCHANGED status
     \/ /\ ~Cancelled(c) /\ status[t] # "completed"
        /\ Set(c, [comp[c] EXCEPT !.jobs = @ \ {t}, !.run = @ \cup {t}])
        /\ status' = [status EXCEPT ![t] = "downloading"]

\* Handle ends; a cancelled worker may fail to report it.
End(c, t) ==
  /\ Background(c)
  /\ t \in comp[c].run
  /\ Set(c, [comp[c] EXCEPT !.run = @ \ {t}])
  /\ \/ \E st \in Finished : status' = [status EXCEPT ![t] = st]
     \/ Cancelled(c) /\ UNCHANGED status

ComponentNext(c) ==
  \/ SnapRead(c) \/ SnapTick(c) \/ SnapFlushed(c) \/ SnapExit(c)
  \/ RetryExit(c)
  \/ \E t \in Task : RetryTick(c, t) \/ Start(c, t) \/ End(c, t)

-----------------------------------------------------------------------------
(***************************************************************************)
(* The handlers of POST /tasks, which reach the component through the      *)
(* proxies: withService and withDownloader hold the read lock of h.mu for  *)
(* the whole call.                                                         *)
(***************************************************************************)
HandlerStep(h, from, new) ==
  /\ Alive
  /\ handler[h].at = from
  /\ handler' = [handler EXCEPT ![h] = new]
  /\ UNCHANGED <<mode, main, hups, hup, term, serving, holder, lock, newest>>

\* A new task enters CreateTask; with no component in the holder it gets an error.
Post(h, t) ==
  /\ serving /\ lock = "free" /\ holder # None
  /\ status[t] = None /\ \A g \in Handler : handler[g].task # t
  /\ HandlerStep(h, "idle", [at |-> "creating", comp |-> holder, task |-> t])
  /\ UNCHANGED <<comp, status>>

\* The store takes the task.
Create(h) ==
  /\ HandlerStep(h, "creating", [handler[h] EXCEPT !.at = "created", !.comp = None])
  /\ comp[handler[h].comp].open
  /\ status' = [status EXCEPT ![handler[h].task] = "waiting"]
  /\ UNCHANGED comp

\* The store does not, or it is closed.
CreateFails(h) == HandlerStep(h, "creating", Idle) /\ UNCHANGED <<comp, status>>

\* withDownloader, perhaps on another component than the one that created the task.
BeginEnqueue(h) ==
  /\ lock = "free"
  /\ HandlerStep(h, "created", IF holder = None THEN Idle
                               ELSE [handler[h] EXCEPT !.at = "enqueuing", !.comp = holder])
  /\ UNCHANGED <<comp, status>>

Enqueue(h) ==
  /\ HandlerStep(h, "enqueuing", Idle)
  /\ \E taken, marked \in SUBSET {handler[h].task} :
       Submits(handler[h].comp, {handler[h].task}, taken, marked)

HandlerNext(h) == Create(h) \/ CreateFails(h) \/ BeginEnqueue(h) \/ Enqueue(h)

-----------------------------------------------------------------------------
Next ==
  \/ MainNext
  \/ SigHup \/ SigTerm
  \/ \E c \in Built : ComponentNext(c)
  \/ \E h \in Handler : HandlerNext(h) \/ \E t \in Task : Post(h, t)

Spec == Init /\ [][Next]_vars

\* A goroutine that can run does run, and a download ends.  The select of the
\* snapshot goroutine chooses at random, so it does not take its ticker for ever when
\* it could end.  A tick of the retry loop submits a waiting file sooner or later:
\* Downloads has the details.
Fairness ==
  /\ WF_vars(MainNext)
  /\ \A h \in Handler : WF_vars(HandlerNext(h))
  /\ \A c \in Comp :
       /\ WF_vars(c \in Built /\ SnapRead(c))
       /\ WF_vars(c \in Built /\ SnapFlushed(c))
       /\ SF_vars(c \in Built /\ SnapExit(c))
       /\ WF_vars(c \in Built /\ RetryExit(c))
       /\ \A t \in Task : /\ WF_vars(c \in Built /\ RetryTick(c, t))
                          /\ WF_vars(c \in Built /\ Start(c, t))
                          /\ WF_vars(c \in Built /\ End(c, t))

FairSpec == Spec /\ Fairness

-----------------------------------------------------------------------------
\* Two stores never have the same files open: the old one is closed before the next
\* one is opened, whatever a restart before has failed at (main.go:417, :419).
OneOpen ==
  \A c, d \in Built : comp[c].open /\ comp[d].open => c = d

\* A component whose store is closed has no goroutine left that could use it: no job
\* waits or runs, the retry loop and the snapshot goroutine have ended.
Ended(rec) ==
  /\ rec.jobs = {} /\ rec.run = {}
  /\ ~rec.loop
  /\ rec.snap \in {"none", "gone"}

ClosedIdle == \A c \in Built : ~comp[c].open => Ended(comp[c])

\* No store is closed under a handler that is inside its component, although handlers
\* go on during a restart (main.go:407-417) and a shutdown may time out (:131).
ClosedUnused ==
  [][\A c \in Built : comp[c].open /\ ~comp'[c].open =>
       \A h \in Readers : handler[h].comp # c]_vars

\* stopSnapshot never closes a channel twice, which would end the process, also when
\* a restart failed and the next signal stops the same component again (main.go:223).
NoPanic == main.at # "panic"

\* What main has done to the newest component by the time it is where it is.
Stopped ==
  /\ main.at \in Stopping \ {"disable"} => comp[newest].disabled
  /\ main.at \in Stopping \ {"disable", "cancel", "waitRetry"} =>
       ~comp[newest].loop /\ ~comp[newest].poolOpen
  /\ main.at \in {"locking", "shutdown", "snap", "snapWait", "close"} =>
       comp[newest].jobs = {} /\ comp[newest].run = {}
  /\ main.at = "close" => comp[newest].snap \in {"none", "gone"}

\* Main works on the newest component, which is in the holder until an exit takes it;
\* each component was built for the start or for one SIGHUP.
Restarting == main.at \in Stopping \cup {"build"} /\ main.why # "exit"
Current ==
  /\ main.at \in Stopping => main.comp = newest
  /\ \/ main.at \in {"enqueue", "serve", "take"}
     \/ Restarting /\ main.why = "restart"
     => holder = newest
  /\ holder \in {newest, None}
  /\ main.at \in Stopping => main.why # "start"
  /\ main.at = "build" => main.why # "exit"
  /\ newest + (IF hup THEN 1 ELSE 0) + (IF Restarting THEN 1 ELSE 0) <= hups + 1

\* Only the newest component can be open, and none while the next one is built; a
\* closed one cannot be given work again.
OnlyNewest ==
  /\ \A c \in Built : comp[c].open => c = newest /\ main.at # "build"
  /\ \A c \in Built : ~comp[c].open => comp[c].disabled /\ ~comp[c].poolOpen

\* The holder's lock, or an empty holder, keeps the handlers out of a component that
\* is being closed.
LockedOut ==
  /\ \A h \in Readers : handler[h].comp \in Built
  /\ lock = "held" => Readers = {}
  /\ main.at \in {"snap", "snapWait", "close", "build"} /\ main.why = "restart" => lock = "held"
  /\ main.at = "shutdown" => main.why = "exit"
  /\ main.at \in Stopping /\ main.why = "exit" => Readers = {} /\ holder = None

\* The field is reset whenever its channel is closed.
ResetStop == \A c \in Built : comp[c].snapStop = "chan" => ~comp[c].closed

\* The inductive invariant behind the theorems of LifecycleProofs.
IInv ==
  /\ TypeOK
  /\ \A c \in Built : comp[c] \in CompRec
  /\ Stopped
  /\ Current
  /\ OnlyNewest
  /\ LockedOut
  /\ ResetStop
  /\ NoPanic
  /\ ClosedIdle

\* The snapshot goroutine was in a snapshot when stopSnapshot reset the field, so it
\* waits on a nil channel now, and main waits for it.
Hung == main.at = "snapWait" /\ comp[main.comp].snap = "deaf" /\ ~term

\* Apart from that, a restart ends: the component is replaced, or the old one stays
\* because the new one could not be built.
RestartEnds ==
  (main.at = "disable" /\ main.why = "restart") ~> (main.at \in {"serve", "down"} \/ Hung)

\* After SIGTERM the process ends, whatever restart is under way or hung.
ExitEnds == term ~> ~Alive

\* Every request that was taken gets its answer.
HandlersReturn ==
  \A h \in Handler : handler[h].at # "idle" ~> (handler[h].at = "idle" \/ ~Alive \/ Hung)

\* A stop came between the mark of a file and the end of its download: its job was dropped
\* (downloader.go:99), or its end was not reported, and the component that follows does not
\* enqueue a file that is stored as queued or downloading (download_manager.go:146).
Stranded(t) ==
  /\ status[t] \in {"queued", "downloading"}
  /\ \A c \in Built : t \notin comp[c].jobs \cup comp[c].run
  /\ \E c \in Built : Cancelled(c)

\* "new POST /tasks are accepted anyway (only write tasks for future)" (README.md:147):
\* a task that waits, on whichever component it was created, whatever its handler could
\* enqueue and however many components drop its job before they mark it, is downloaded in
\* the end, unless no component works any more, or a stop strands it.
WrittenForFuture ==
  \A t \in Task : status[t] = "waiting" ~>
    \/ status[t] \in Finished \/ Stranded(t)
    \/ term \/ ~Alive \/ Hung
    \/ main.at = "serve" /\ ~comp[holder].open

-----------------------------------------------------------------------------
\* "SIGHUP restarts app" (README.md:147): it does not hang.
RestartsApp ==
  (main.at = "disable" /\ main.why = "restart") ~> (main.at = "serve" \/ ~Alive)
=============================================================================
