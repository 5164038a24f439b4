# Specifications of the web downloader

TLA+ models of the web downloader in `src/`, the TLC runs that check them on small
instances, and TLAPS proofs of what must hold on every instance. Line numbers refer to
the Go files under `src/`.

## The system

A client posts a list of URLs and gets a task; workers download its files; the client
polls the task. A task has files, each *waiting*, *queued*, *downloading*, *completed*
or *error*; the status of the task is derived from them.

| Component | State it keeps | Operations |
|---|---|---|
| `core` (`core/task.go`, `core/status.go`) | none | status of a task from its files, cloning, sorting |
| `TaskService` (`service/service.go`) | the cache of tasks and its mutex (memory mode only) | CreateTask, GetTask, SortedTasks, MarkFileQueued / Started / Completed / Failed, FlushSnapshot |
| `FileTaskStore` (`storage/file_task_store.go`, `wal/`, `snapshot/`) | tasks, log buffer, log file, snapshot file | CreateTask, UpdateTask, LoadAll, FlushSnapshot, Close |
| `BoltTaskStore` (`storage/bolt_task_store.go`) | a bbolt file | the same, and GetTaskByID |
| `Pool` (`worker/pool.go`) | the channel of jobs, its flags, the workers | Start, Submit, Stop |
| `Downloader` (`worker/downloader.go`) | the workers' context | Handle: mark started, attempts, mark completed or failed |
| `DownloadManager` (`service/download_manager.go`) | the pool, the retry ticker, `enqueueDisabled` | Enqueue, EnqueueAll, the retry loop, Close |
| HTTP handlers (`api/`) | none | POST /tasks: CreateTask, then Enqueue; reads |
| lifecycle (`cmd/server/main.go`) | the holder of the current component, the snapshot goroutine | start, restart on SIGHUP, exit on SIGINT and SIGTERM |
| configuration, identifiers, errors, utilities | none | |

How they interact. Handlers, the retry loop and workers are goroutines that call
`TaskService` concurrently; in memory mode its mutex covers a whole Mark call, store
write included, in bbolt mode nothing does. Enqueuers and workers share the queue of
the pool. `TaskService` calls the store, which writes the log and, from the snapshot
goroutine, the snapshot. A signal disables enqueueing, cancels the workers' context and
closes manager, snapshot goroutine and store, in this order (`main.go:209-235`); SIGHUP
then builds a new component, behind the lock of the holder through which handlers reach
the current one. Workers share the directory of a task.

What is hard: a job is submitted before its file is marked (`download_manager.go:151`,
`:157`); Enqueue decides on a copy of the task; bbolt's read and write are two
transactions; Submit races Stop on two channels; a worker's context may be cancelled
between any two of its steps; a crash, an expired context or a failing file operation
may end an update or a snapshot half way, and what a refused update left in the log stays
there; handlers go on during a restart, a restart may
fail half way and be tried again, and the snapshot goroutine shares a field with main
without a lock; two workers may write under one name. `PROJECT.json` lists the hazards by line,
each with the properties that cover it.

What makes each component correct:

- `TaskService`: cache and store agree, statuses are derived, every call is one atomic
  transition, a completed file stays completed.
- `Pool`: an accepted job is handled exactly once; after Stop none is pending; Stop
  returns to every caller and Submit blocks none.
- `DownloadManager` with `Downloader`: a queued file has a job, a downloading file has
  a worker, every file is finished sooner or later, Close returns and leaves nothing
  half done.
- `FileTaskStore`: what was acknowledged is found by the next restart, and nothing that
  was not offered.
- `Downloader` on disk: under the name of a file there is one whole body or nothing, a
  completed file has its body, nothing temporary is left behind, Handle ends.
- lifecycle: two stores are never open at once, no store is closed while something still
  uses it, a task that waits is taken up by the next component, every restart, exit and
  request comes to an end.

## The modules

| Module | Models |
|---|---|
| `TaskStatus` | statuses and `obtainStatus` |
| `TaskStatusProofs` | `obtainStatus` with its counters, and that they decide what `TaskStatus` says |
| `TaskLedger` | abstract: what the service promises, one atomic transition per call |
| `TaskService` | the calls of the service over an atomic store |
| `TaskServiceProofs` | theorems about `TaskService` |
| `JobQueue` | abstract: what the pool promises |
| `Pool` | `Start`, `Submit`, `Stop`, `run`, one step per atomic, channel operation or select |
| `PoolProofs` | theorems about `Pool` |
| `Downloads` | workers, enqueuers and Close around the service and the queue |
| `DownloadsProofs` | theorems about `Downloads`: its use of the service, and that no file is forgotten |
| `Lifecycle` | start, restart and exit of `main.go`, over the components, their goroutines and the handlers |
| `LifecycleProofs` | theorems about `Lifecycle` |
| `FileWriter` | the attempts of `Handle` and `writeFile`, in one directory, with crashes |
| `FileWriterProofs` | theorems about `FileWriter` |
| `DurableMap` | abstract: what `TaskStore` promises |
| `FileStore` | log, snapshot, crashes and faults of `FileTaskStore` |
| `FileStoreProofs` | theorems about `FileStore` |
| `MC...` | instances for TLC |

`Downloads` composes: it instantiates `TaskService`, with workers and enqueuers as its
callers, and takes the steps of a Mark call (`Load`, then `Commit`, `Refuse` or
`StoreError`) from it. For the pool it uses the queue that `Pool` is shown to implement:
a bounded sequence, refused when full or closed, drained by Stop. `TaskService` takes
the store to be atomic; `FileStore` shows how far memory mode's store is. `Downloads` is
about one component, from its start on what an earlier process left (`AtStart`);
`Lifecycle` is about several, one after the other, and abstracts what `Downloads` and
`Pool` have in detail: an Enqueue or a tick of the retry loop submits any part of what it
should, and a download ends in one step. `FileWriter` opens up the step `Download` of
`Downloads`; that its Handle ends, which it shows, is what the fairness of a worker there
stands for.

### State and actions

*TaskService.* `store` and `cache` map a task to its files' statuses and its status;
`mu` is the holder of the mutex; `op` is the call a goroutine is in, with its clone.
`Load` is `cloneForUpdate` or, without a cache, `loadTaskForUpdateNoCache`; `Commit` is
the rest of a Mark call that succeeds. The four Mark calls differ in the status they set
and in the statuses they refuse (`MayMark`). Between Load and Commit a goroutine holds
`mu` in memory mode, so readers are disabled then. `normalizeURLs` shows as the number of
distinct URLs; names, sizes, times and error texts are left out.

*Pool.* `worker`, `submit` and `stop` are program counters. `closed`, `done` and
`chClosed` are the atomic flag and the two closed channels, which Stop sets one after
the other. The choice a `select` makes among ready cases is nondeterministic, also the
send on a closed channel that `recover` turns into `ErrPoolClosed`. A context may be done
at any moment (`GiveUp`), and need never be: what Submit does by itself is `SubmitNext`.
`accepted` and `handled` are history variables.

*Downloads.* `stage` follows a worker through `Handle`; `detached` says that
`statusContext` gave it a context of its own because the workers' context was cancelled
by then; `enq` follows an enqueuer through Enqueue or EnqueueAll: the tasks still to do,
the copy of the files it decides on, the index of its loop. EnqueueAll goes through the
tasks in any order: SortTasks orders by creation time, and which task is older does not
matter here. `cancelled` is the workers' context and `closing` the progress of
stopNewDownloads and Close.

*Lifecycle.* `main` is the program counter of the main goroutine, with the signal it
works for and the component it works on. `comp` has the components built so far, each
with what belongs to it: its store, the flags of its manager, its retry loop, its pool's
jobs, the snapshot goroutine and the channel that ends it. `lock` is the read-write lock
of the holder, whose readers are the handlers inside a component: as in Go, a writer that
waits (`pending`) keeps new readers out. `snapStop` is the field and `closed` the channel
it held; the goroutine is at `waits` when its select has read the channel and `deaf` when
it has read nil, on which it waits for ever (`main.go:196`). The field is read and reset
without synchronisation: after the reset either value may be seen. `status` is the one
file of each task, on disk. A SIGHUP that comes while one is in the channel is dropped.

*FileWriter.* `worker` has where each worker is in Handle, its attempt, how far it has
written and where its descriptor leads, which another worker's rename or removal changes
(`Moved`). `tmp` and `final` are the directory: for each name the chunks of the file and
how many of them are synced. Which names the files get is any choice. `clash` is history:
the names under which a worker opened the temporary file while another one was at it, and
so is `left`, the names whose temporary file could not be removed: that error is ignored.

*FileStore.* `pc` and `call` follow the one call that holds the store's mutex. The content
of a task is a function on cells: for every file its status (with the error message), size,
times and name, and one cell more, `Told`, for a status that a `task_status` record has told
the task and that its files have not overruled since. A cell holds the value of the call
that set it. The calls are those of the service: `CreateTask`, and `UpdateTask` for a Mark
call, which sets some fields of one file (`Sets`) if its status allows it (`MayMark`). What
the service works on is the cached task, which is the stored one (`CacheMatchesStore`).
`Events` are the records of a call as `buildFileEvents` makes them: `file_status`, which
has a size only if it is not zero; `file_meta`, not for MarkFileQueued, which has a name
only if there is one; `task_status`, only where the status changes. `ApplyEvents` replays
them: a `file_status` derives the task's status anew, a `task_status` overrides it.

A line of the log file is an event, or a torn piece of one, with or without its newline.
`log` tells an open log from one whose buffered writer keeps an error, one that is `Closed`,
and none. `unsure` is history: for each task and cell, the values that records of calls
offered which did not return nil. A call that returns nil settles the cells of its own
records and no others (`Acknowledge`). `Crash` ends the process and leaves the file as it is,
synced or not; `PowerLoss`, which may come later, keeps a prefix of what was not synced.
`Close` may fail to write or to sync. `Load(k)` is what a restart would find if `k` of the
records in the file and in the buffer (`All`) had reached the disk, and `Tidy(k)` says that
none before the last of them is torn.

*DurableMap.* What a call that returned nil wrote is found by every restart, cell by cell,
unless a later call has written the cell. A call that failed or was cut short may be found
in whole or in part, until later calls have written its cells or a snapshot has settled all.

## What TLC checks

| Run | Instance | Properties |
|---|---|---|
| `task_service` | 2 goroutines, 2 tasks of up to 2 files, any stored tasks at the start, memory mode | the inductive invariant and its parts, `CompletedIsFinal`, refinement of `TaskLedger` |
| `pool` | 2 workers, 2 submitters, 2 stoppers, 3 jobs, capacity 1 | `NoJobLost`, `StoppedDrained`, the inductive invariant, refinement of `JobQueue` with its fairness, `StopReturns`, `SubmitNeverBlocks` |
| `downloads` | 2 workers, a handler, a retry loop, 1 task of up to 2 files, capacity 1 | `QueuedHasJob`, `DownloadingHasWorker`, `EnqueueQueuesAll` |
| `downloads_fair` | 1 worker, a retry loop, a stored task of 2 waiting files, closing, fair | `EventuallyFinished`, `CloseReturns` |
| `file_store` | 1 task of 2 files, 4 values (waiting, queued, completed, error), at most 5 records, crashes, failing fsyncs and file operations | refinement of `DurableMap`, `NoGap` |
| `file_store_heal` | 1 task of 1 file, 3 values, at most 4 records, every fault, failing closes and torn records included | `Healed` |
| `lifecycle` | 1 task, 1 handler, 2 SIGHUPs, SIGTERM, both modes, fair | `OneOpen`, `ClosedIdle`, `NoPanic`, `ClosedUnused`, the inductive invariant, `RestartEnds`, `ExitEnds`, `HandlersReturn`, `WrittenForFuture` |
| `file_writer` | 2 workers, 2 files under 1 or 2 names, bodies of 2 chunks, 2 attempts, 2 jobs, 1 crash, steps and removals that fail, fair | `FinalWhole`, `CompletedHasBody`, `NoLeftover`, the inductive invariant, `HandleEnds` |
| `bolt_lost_update` | as `downloads`, bbolt mode, capacity 2 | violates `CompletedIsFinal` |
| `stranded_files` | 1 worker, a retry loop, any stored task of up to 2 files | violates `EnqueueQueuesAll` |
| `restart_hangs` | as `lifecycle`, memory mode, 1 SIGHUP | violates `RestartsApp` |
| `torn_record` | 1 task of 1 file, 3 values, at most 4 records, torn records | violates `Durable` |

Bounds. Two goroutines are enough for a call to come between the two steps of another;
two files are enough for a task status to depend on a file the call does not touch, and
for a full queue to cut Enqueue in the middle. Capacity 1 with two submitters makes the
pool full and racing; three jobs let one be refused while one waits and one is handled.
Two workers let two jobs for one file run at once. In `FileStore` two files of one task let
the records of a refused call on one survive an acknowledged call on the other; the values
are those the Mark calls treat differently: *queued* writes no `file_meta`, *completed* sets
every field and ends the file, *error* may be set again and again, and what *downloading*
does to the store *error* does too. Five records hold a creation, an update with all three of
its records and one more, or after a snapshot the updates of both files. A full log is
emptied by a snapshot, so that the store goes on for any number of calls. In `file_store` a
failing fsync leaves the records of a refused call in the file, a crash any part of them, and
a failing file operation leaves the store without a log. An expired context and a short write
leave a part of a call's records as well; they are in `file_store_heal`, which has one file
because it is about the log as a whole, and in the theorems about both. `torn_record` needs a
torn update and one behind it.
`MaxLog` bounds the log in the guard of `Begin`, `MaxFiles` the files of a task. Two
SIGHUPs (`MaxHup`) make three components, or a restart that fails and is tried again on
the closed component; one task is enough for a handler to create it on one component and
enqueue it on the next. Two workers in one directory are enough for one to rename or
remove the other's file; two chunks leave a body half written and two attempts a failed
one behind. `MaxJobs` bounds the jobs of all processes together and `MaxCrash` the
crashes: with one crash and two jobs a file is written again over what the crash left.
Symmetry is used in runs that check no liveness.

Deadlock is not checked: each system has an end that is no error (all jobs handled and
the pool stopped; all files finished and the manager closed; a log that is full up to
`MaxLog`). That nobody waits forever is stated as liveness instead.

Fairness. Weak fairness of a worker, of a submitter inside Submit (whose context need never
be done), of a stopper inside Stop and of an enqueuer inside Enqueue: a goroutine that can
run does run, and the attempts of a download are bounded in number and in time
(`downloader.go:103`, `:113`; `HandleEnds`). In `Lifecycle`: weak fairness of main, of a handler inside a request and of
the goroutines of a component. The select of the snapshot goroutine chooses at random
among the cases that are ready, so that it does not take its ticker for ever: strong
fairness of `SnapExit`. Its ticker, signals and new requests are assumed nothing of.
Strong fairness of `Tick`, `GetTask` and `Submit` of the retry loop: its ticker never
stops, and `EnqueueAll` is given a fresh timeout each time (`download_manager.go:200`);
what is assumed is that these timeouts do not expire every time before the same task,
and that the loop finds room in the queue once in a while if there is room again and
again. In memory mode a reader waits for the mutex, so these actions are enabled only
now and then: that is why weak fairness does not do. Nothing is assumed of handlers:
they may give up each time. Nothing makes a signal arrive.

Conditions. `QueuedHasJob`, `DownloadingHasWorker`, `EnqueueQueuesAll` and
`EventuallyFinished` are about memory mode, a store that refuses no update, a context
that is not cancelled, and a process that finds no file queued or downloading when it
starts. Without the first, see `bolt_lost_update`, without the last `stranded_files`;
with a failing store a worker that cannot mark its file started drops the job
(`downloader.go:99`), and the mark that Enqueue makes afterwards leaves a queued file
without one; after a cancellation a file may stay downloading. `FinalWhole` and
`CompletedHasBody` are about names under which no two workers were at the temporary file
at once (`clash`), and the second about a file whose name no other file of the task has.
`RestartEnds`, `HandlersReturn` and `WrittenForFuture` except the hang that
`restart_hangs` shows. `WrittenForFuture` says that a task which waits is finished in the
end, unless no component works any more or a stop strands it (`Stranded`): the old component
marked its file queued and dropped the job after its context was cancelled
(`downloader.go:99`), or could not write the end of a download, and the new one skips a file
that is stored as queued or downloading (`download_manager.go:146`). So an ordinary SIGHUP
may strand a task, and what is checked is that this is the only way: a handler or a retry
loop that races the restart, a failed restart, or a job that is dropped before its file is
marked forgets none. `SubmitNeverBlocks` is an invariant with ENABLED: inside Submit one of
the steps that need neither a done context nor anybody else is always possible. `NoLeftover`
is about the time before a crash, and not about a name whose removal failed (`left`).

### Where the code departs from what it says

- In bbolt mode a Mark call can undo a change made since its read, a completed file
  included (`service.go:269`; `bolt_lost_update`).
- A file that a crash, a status that could not be written, or an ordinary SIGHUP leaves
  queued or downloading is never submitted again, although Enqueue "queues all files of a
  task that are not completed or in error state" (`download_manager.go:126`;
  `stranded_files`), and although new tasks during a restart are to be written "for future"
  (`src/README.md:147`).
- "SIGHUP restarts app" (`src/README.md:147`), but in memory mode a restart that comes
  while the periodic snapshot is taken may wait for ever, and every request with it
  (`main.go:225`; `restart_hangs`).
- A torn record at the end of the log is not cut off when the log is reopened, and hides
  every record appended behind it (`wal.go:45`, `:169`; `torn_record`).

Seen in the models without a run of their own:

- A file in error, which `IsFinished` calls final, is downloaded again when two jobs for
  it were submitted (`download_manager.go:151`).
- Close may return while a file is stored as downloading: a status context chosen just
  before the cancellation is cancelled with it (`downloader.go:302`).
- The text at `src/README.md:147` has a restart wait for downloads in progress, but
  `workCanc` aborts them first (`main.go:214`), and they end in error.
- A log whose close failed stays in use and drops every record silently (`wal.go:70`);
  the next snapshot repairs it, as `file_store_heal` shows.
- The records of a call that was refused because its fsync failed stay in the log, and a
  later call that is acknowledged settles only its own file: MarkFileFailed of one file
  refused, MarkFileCompleted of another acknowledged, and a restart finds the first in
  error (`service.go:661`, `file_task_store.go:93`). Likewise StartedAt of a refused
  MarkFileStarted survives a MarkFileQueued, which writes no `file_meta`.
- After a crash between the records of such a call a restart may load a task with a status
  that its files do not give, because `task_status` is replayed as it was written
  (`file_task_store.go:228`). `StatusDerived` does not cover that: `TaskService` starts on
  tasks whose status is derived.
- Two files of a task with one base name, or two jobs of one file, write to one temporary
  file: the final name may get a mixture (`downloader.go:265`; the exception of
  `FinalWhole`).

## What is proved

The proofs hold for every value of the constants: any number of tasks, files,
goroutines, workers and any capacity, under the assumptions named in the modules
(`ServiceAssumption`, `PoolAssumption`, `DownloadsAssumption`, `LifecycleAssumption`,
`FileWriterAssumption`, `FileStoreAssumption`: bounds are numbers, positive where they must
be, sentinels are not elements of the sets they complete, goroutines of different kinds are
different, the faults are among those named).

*TaskStatusProofs.* `obtainStatus` counts the files by status and returns early; the models
use its meaning, with quantifiers (`ObtainStatus`). `CountersDecide` proves that the two
agree for any number of files: `CountDecides` says what a counter of 0 or of all files
means, `CountSum` what two of them count together.

*TaskServiceProofs.* `Invariant` proves `IInv` in both storage modes. The properties of
interest are not inductive alone: that cache and store agree after a Commit needs that
the clone it writes back is the cached task (`CloneFresh`), which needs that whoever is
inside a Mark call holds the mutex (`LockOwner`); that a task is inserted in the cache
as the store has it needs that nobody changed it meanwhile, because no Mark call can find
it before it is in the cache (`Creating`), and that nobody else is creating it
(`OneCreator`). `FileInRange` keeps the file index of a call within its clone. There is
one lemma per action. `CacheCorrect`, `StatusCorrect` and `TypeCorrect` follow;
`CompletedStays` and `ServiceImplementsLedger` use the lemma that a Commit in memory mode
changes one file of the task as it is now, and so does `CompletedTaskStays`, that a completed
task is never written again. They assume `UseCache`, and the run `bolt_lost_update` shows
that the first must. `NotPendingAgain` holds in both modes: what bbolt mode writes back may
be old, but one file of it is not waiting. The last two action properties are checked by TLC
as well when they are added to the PROPERTIES of `MCTaskService.cfg`.

*PoolProofs.* `Invariant` proves `IInv`: that no job is lost rests on each submitter's
job being its own and not accepted yet (`ArgFresh`), on the busy workers being those with
a job (`BusyHand`); that Stop drains rests on workers leaving only a closed and empty
channel (`GoneLast`) and on Stop being over only when all have left (`OverLast`). Lemmas
say what appending to and taking from the channel does to the set of its elements.
`NoJobIsLost`, `StopDrains` and `PoolImplementsQueue` follow; the last shows in
particular that nothing is accepted after Stop has returned.

*DownloadsProofs.* It instantiates `TaskServiceProofs`, with workers and enqueuers as the
callers. `UsesService` proves that each step of `Downloads` is one step of `TaskService`
or none, in both modes: `CallInv` says that a worker in Handle has a job, and that an
enqueuer finds the tasks it has listed and indexes files that its copy has. So what is
proved about the service holds of the goroutines: `CompletedStaysCompleted`, and, inside
the next proof, that a call in memory mode works on the task as it is stored. `FileInv` is
about files. `QueuedHasJob` is not inductive alone: that the mark which Enqueue makes
after the submission finds a job needs that every file it has passed and that still waits
has one (`Passed`), and that its copy of the task is old only in one direction: a file
that did not wait then does not wait now (`CopyOld`). `WorkerCalls` and `EnqCalls` tie
the call a goroutine is in to its program counter. Every step is shown to have one
`Effect` on files and jobs, whoever takes it: no file waits again, and a job leaves the
queue or a worker's hands only when its file is no longer waiting for it. `QueuedIsServed`,
`DownloadingIsServed` and `EnqueueLeavesNoneOut` follow. They assume `FreshStart`, that
the process finds no file queued or downloading, and `stranded_files` shows that the last
one must; the conditions that the properties themselves state are those above.

*LifecycleProofs.* `Invariant` proves `IInv`, for any number of restarts, tasks and
handlers. It says what main has done to the newest component by the time it is where it
is (`Stopped`), that main works on the newest one and has built no more than it was told
to (`Current`), that only that one can be open, and that what is closed can be given no
work (`OnlyNewest`), that the lock or an empty holder keeps handlers out of what is being
closed (`LockedOut`), and that the field is reset whenever its channel is closed
(`ResetStop`). The steps of the goroutines of a component only let it fade, which is one
lemma; main's steps while it stops a component share another. `OneStore`,
`StoreClosedLast`, `StopTwice` and `NotUnderAHandler` follow.

*FileWriterProofs.* `Invariant` proves `IInv`, for any number of files, names, workers,
chunks, attempts, jobs and crashes. While a name is not in `clash` its writer is alone,
has a descriptor of the temporary file, has written a prefix of its body there, and
renames only a whole body that is synced (`Writing`); so what is under a final name is
whole and synced (`FinalSynced`), and a crash, which keeps what is synced, leaves it so.
Something is under the name of a file before it is marked (`CompletedNamed`). There is a
lemma for the steps that touch no file, one for writing and one for each way to give up the
temporary file, which follow the descriptors of the other workers. `FinalIsWhole`,
`CompletedIsThere` and `NoTmpLeft` follow.

*FileStoreProofs.* `Invariant` proves `IInv` for any tasks, files, values, length of the log
and set of faults, torn records and failing closes included. At its centre is `Recoverable`:
however many of the records that are not synced a power loss leaves, those in the buffer
too, a restart loads in each cell what was acknowledged or what a call has offered for it
since, as long as no record before the last is torn. `NoGap`, about this moment and what is
synced, is not inductive: that a Flush, a short write or a crash keeps it needs to know of
every longer prefix. `Progress` says what a call has done by the time it is where it is,
among it that a snapshot is written only over an empty buffer and a log that is all synced,
and that the log is renamed only when the snapshot is what the store holds. `Present` says
that a task which the store knows is created by the snapshot or the log, since an update of
an unknown task would be ignored. `Offered` says that the records of a call, read last, put
its values in the cells they are about, which Sync needs to acknowledge it. `Trusted` leaves
out the time between a close that failed and the next new log.

LoadAll is a fold over the log, and induction over a definition is out of reach; what is
needed is had from the least element of a set of numbers instead: that applying one record
more is one step of `ApplyEvent` after the others, that the result has the type of the
tasks, and that the log applied to the tasks themselves instead of the old snapshot gives,
cell by cell, what it gave before or what the tasks hold. So a crash between
`WriteSnapshot` and `RenameLog`, after which the log is applied once more to a snapshot that
has its events already, loses nothing. A piece of a record is read as its event or not at
all, so a cut inside a record leaves what a cut before or behind it would.

What follows, and under which faults: `TypeCorrect` and `HealedAgain` under all;
`DurableAcrossOneTear` if closing the log does not fail; `GapFree`, `DurableAcrossRestarts`
and `Refinement`, that the store implements `DurableMap`, if no record is torn either. The
last condition is needed, as `torn_record` shows, and so is the first: a log that is
`Closed` acknowledges updates that it drops. A torn record needs a second restart to do
harm: the first one that meets it loses nothing, which is `DurableAcrossOneTear`.
The assumptions are in the module: names and sizes that a call sets are not empty (a size of
0 is not written, and an empty name neither), an identifier is not used again, and a rename
takes effect at once. TLC checks `IInv` and `DurableOnce` as well, when they are added to
the INVARIANTs of `MCFileStoreHeal.cfg`, the second with `Faults <- MCTear`, since a close
must not fail.

Only model-checked: all liveness under fairness (`JobsHandled`, `StopReturns`,
`EventuallyFinished`, `CloseReturns`, `RestartEnds`, `ExitEnds`, `HandlersReturn`,
`WrittenForFuture`, `HandleEnds`) and `SubmitNeverBlocks`, which is about ENABLED; the
prover reaches neither. Each other invariant, action property and refinement of a passing run is stated by a theorem.

## What is not modelled

- Configuration, identifiers, error kinds, logging, JSON, routing: pure or formatting.
- The bytes of files and of records; the limit of 6 MB on a line of the log
  (`wal.go:35`), beyond which LoadAll fails.
- The file system is assumed to make a rename durable at once, to keep a prefix of what
  was appended and not synced, and to sync at a later fsync what an earlier one failed to.
  No code syncs a directory (`downloader.go:297`).
- `BoltTaskStore` beyond the atomicity of its transactions. `GetTaskByID` of a task that
  does not exist answers with an empty one (`bolt_task_store.go:175`), which `GET
  /tasks/:id` in bbolt mode passes on: a read that changes no state.
- NewDownloadManager may fail when a component is built and leave the store that was just
  opened open (`main.go:393`). It fails only on its configuration, which a restart does not
  read again, so that only the start of the process can meet it, and it ends there.
- The start of the process before the first component, and a server that fails to listen
  (`main.go:117`): one branch that changes no state.
- In `Lifecycle`, handlers that only read, and two jobs of one file at once. In
  `FileWriter`, directories of different tasks, which share nothing.

## Plan

Done, in this order: `TaskStatus`, `TaskService` with its ledger and proofs, `Pool` with
its queue and proofs, `Downloads`, `FileStore`, `Lifecycle` and `FileWriter` with their
proofs, the proofs about `Downloads`, `FileStore` and `TaskStatus`. Left: `normalizeURLs`,
of which the models keep the number of distinct URLs.
