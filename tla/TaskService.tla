---------------------------- MODULE TaskService ----------------------------
(***************************************************************************)
(* service.TaskService over a TaskStore.  A caller p of Proc (a download   *)
(* worker, an HTTP handler, the retry loop) runs one call at a time:       *)
(*   - CreateTask writes the store, then, in memory mode, the cache;       *)
(*   - each Mark call loads a clone of the task (Load) and later writes    *)
(*     the modified clone back as a whole (Commit), or gives up.           *)
(* In memory mode (UseCache) the clone comes from the cache and the mutex  *)
(* mu is held from Load until the call returns; in bbolt mode the clone    *)
(* comes from one bbolt transaction and is written by another, and nothing *)
(* is held in between.                                                     *)
(*                                                                         *)
(* The store is abstract here: a map that a call changes atomically or     *)
(* leaves alone.  FileStore models how memory mode keeps it on disk.       *)
(***************************************************************************)
EXTENDS TaskStatus

CONSTANTS
  Task,      \* task identifiers; NewID never returns one twice
  Proc,      \* goroutines that call the service
  MaxFiles,  \* bound on the number of files of a task
  UseCache,  \* TRUE: STORAGE_MODE=memory, FALSE: STORAGE_MODE=bbolt
  None       \* nil, absent

VARIABLES
  store,   \* the tasks the TaskStore holds
  cache,   \* ts.tasks; unused in bbolt mode
  mu,      \* the holder of ts.mu, or None
  op       \* the call each goroutine is in, or None

svcVars == <<store, cache, mu, op>>

FileMap == UNION {[1..n -> FileStatus] : n \in 1..MaxFiles}
TaskRec == [files : FileMap, status : TaskStatusSet]

\* The Mark calls, each named by the status it sets.
MarkCall == {"queued", "downloading", "completed", "error"}
OpRec == [call : MarkCall \cup {"create"}, task : Task,
          file : 1..MaxFiles, clone : TaskRec]

ASSUME ServiceAssumption ==
  /\ MaxFiles \in Nat \ {0}
  /\ UseCache \in BOOLEAN
  /\ None \notin Proc \cup TaskRec \cup OpRec \cup FileMap

-----------------------------------------------------------------------------
\* The task a reader finds.  GetTask and SortedTasks take the read lock in
\* memory mode, so they are enabled only while no call holds mu.
Readable == UseCache => mu = None
View     == IF UseCache THEN cache ELSE store

\* Mutant of NewTask: a duplicate URL kept by normalizeURLs.
NewTaskExtraURL(n) == [files |-> [i \in 1..(n + 1) |-> "waiting"], status |-> "pending"]

\* core.NewTask over the n distinct URLs that normalizeURLs leaves.
NewTask(n) == [files |-> [i \in 1..n |-> "waiting"], status |-> "pending"]

\* Mutant of SetFile: the task status not derived again.
SetFileKeepStatus(rec, i, st) ==
  [files |-> [rec.files EXCEPT ![i] = st], status |-> rec.status]

\* f.Status = st; t.UpdateStatus(&now)
SetFile(rec, i, st) ==
  LET fs == [rec.files EXCEPT ![i] = st]
  IN  [files |-> fs, status |-> ObtainStatus(fs)]

\* Mutant of MayMark: no status check.
MayMarkUnguarded(from, to) == TRUE

\* The status checks of the Mark calls: a completed file is refused by
\* MarkFileStarted, MarkFileCompleted and MarkFileFailed, and MarkFileQueued
\* returns at once unless the file waits.
MayMark(from, to) ==
  IF to = "queued" THEN from = "waiting" ELSE from # "completed"

TypeOK ==
  /\ store \in [Task -> TaskRec \cup {None}]
  /\ cache \in [Task -> TaskRec \cup {None}]
  /\ mu \in Proc \cup {None}
  /\ op \in [Proc -> OpRec \cup {None}]

\* The records an earlier run of the process can have left: any file may be in any
\* status, and both stores give back the status that the files give.
Loaded == {rec \in TaskRec : rec.status = ObtainStatus(rec.files)}

\* Mutant of Init: the tasks of the store are not put into the cache.
InitNoLoad ==
  /\ store \in [Task -> Loaded \cup {None}]
  /\ cache = [t \in Task |-> None]
  /\ mu = None
  /\ op = [p \in Proc |-> None]

\* NewTaskService: memory mode loads the tasks of the store into the cache.
Init ==
  /\ store \in [Task -> Loaded \cup {None}]
  /\ cache = IF UseCache THEN store ELSE [t \in Task |-> None]
  /\ mu = None
  /\ op = [p \in Proc |-> None]

-----------------------------------------------------------------------------
InCall(p, c) == op[p] # None /\ op[p].call = c
InMark(p)    == op[p] # None /\ op[p].call \in MarkCall

Return(p) ==
  /\ op' = [op EXCEPT ![p] = None]
  /\ mu' = IF UseCache THEN None ELSE mu

\* The store's CreateTask and UpdateTask, which bbolt mode runs in one transaction each.
StoreCreate(t, rec) ==
  /\ store[t] = None
  /\ store' = [store EXCEPT ![t] = rec]

StoreUpdate(t, rec) ==
  /\ store[t] # None
  /\ store' = [store EXCEPT ![t] = rec]

\* CreateTask of n distinct URLs, up to the store write; bbolt mode returns.
CreateTask(p, t, n) ==
  /\ op[p] = None
  /\ StoreCreate(t, NewTask(n))
  /\ op' = IF UseCache
           THEN [op EXCEPT ![p] = [call |-> "create", task |-> t, file |-> 1,
                                   clone |-> NewTask(n)]]
           ELSE op
  /\ UNCHANGED <<cache, mu>>

\* CreateTask, memory mode: the new task enters the cache under mu.
InsertCache(p) ==
  /\ InCall(p, "create")
  /\ mu = None
  /\ cache' = [cache EXCEPT ![op[p].task] = op[p].clone]
  /\ op' = [op EXCEPT ![p] = None]
  /\ UNCHANGED <<store, mu>>

\* Mutant of Load: the lock released before the clone is written back.
LoadUnlocked(p, c, t, i) ==
  /\ op[p] = None
  /\ mu = None
  /\ View[t] # None
  /\ i \in DOMAIN View[t].files
  /\ op' = [op EXCEPT ![p] = [call |-> c, task |-> t, file |-> i,
                              clone |-> View[t]]]
  /\ UNCHANGED <<store, cache, mu>>

\* cloneForUpdate (memory) or loadTaskForUpdateNoCache (bbolt).
Load(p, c, t, i) ==
  /\ op[p] = None
  /\ UseCache => mu = None
  /\ View[t] # None
  /\ i \in DOMAIN View[t].files
  /\ mu' = IF UseCache THEN p ELSE mu
  /\ op' = [op EXCEPT ![p] = [call |-> c, task |-> t, file |-> i,
                              clone |-> View[t]]]
  /\ UNCHANGED <<store, cache>>

\* Mutant of Commit: finish(nil) after the store write.
CommitNoCache(p) ==
  LET o == op[p] IN
  /\ InMark(p)
  /\ MayMark(o.clone.files[o.file], o.call)
  /\ StoreUpdate(o.task, SetFile(o.clone, o.file, o.call))
  /\ UNCHANGED cache
  /\ Return(p)

\* The status check passes and the store takes the update.
Commit(p) ==
  LET o == op[p] IN
  /\ InMark(p)
  /\ MayMark(o.clone.files[o.file], o.call)
  /\ StoreUpdate(o.task, SetFile(o.clone, o.file, o.call))
  /\ cache' = IF UseCache
              THEN [cache EXCEPT ![o.task] = SetFile(o.clone, o.file, o.call)]
              ELSE cache
  /\ Return(p)

\* The status check fails: a validation error, or MarkFileQueued's early return.
Refuse(p) ==
  /\ InMark(p)
  /\ ~MayMark(op[p].clone.files[op[p].file], op[p].call)
  /\ Return(p)
  /\ UNCHANGED <<store, cache>>

\* The store refuses the update: an I/O error or an expired context.
StoreError(p) ==
  /\ InMark(p)
  /\ MayMark(op[p].clone.files[op[p].file], op[p].call)
  /\ Return(p)
  /\ UNCHANGED <<store, cache>>

Step(p) ==
  \/ \E t \in Task, n \in 1..MaxFiles : CreateTask(p, t, n)
  \/ InsertCache(p)
  \/ \E c \in MarkCall, t \in Task, i \in 1..MaxFiles : Load(p, c, t, i)
  \/ Commit(p)
  \/ Refuse(p)
  \/ StoreError(p)

Next == \E p \in Proc : Step(p)

\* The service under callers that may make any call at any time.
Spec == Init /\ [][Next]_svcVars

-----------------------------------------------------------------------------
\* The cache and the store agree on every cached task, so what GetTask shows
\* in memory mode is what the store would restore (service.go:133, :263, :739).
CacheMatchesStore ==
  UseCache => \A t \in Task : cache[t] # None => cache[t] = store[t]

\* The status stored with a task is always the one its files give: no call
\* leaves a status computed from another version of the files.
StatusDerived ==
  \A t \in Task : store[t] # None => store[t].status = ObtainStatus(store[t].files)

\* A call that holds mu works on the task as it is now: the clone is the cached
\* task, exactly one call holds mu, and a task being created is in the store, not
\* yet in the cache, and no other caller is creating it.
FileInRange == \A p \in Proc : InMark(p) => op[p].file \in DOMAIN op[p].clone.files
LockOwner   == UseCache => \A p \in Proc : InMark(p) <=> mu = p
CloneFresh  == UseCache => \A p \in Proc : InMark(p) => cache[op[p].task] = op[p].clone
Creating    == UseCache => \A p \in Proc : InCall(p, "create") =>
                 /\ store[op[p].task] = op[p].clone
                 /\ cache[op[p].task] = None
OneCreator  == UseCache => \A p, q \in Proc :
                 InCall(p, "create") /\ InCall(q, "create") /\ op[p].task = op[q].task => p = q

\* The inductive invariant behind the theorems of TaskServiceProofs.
IInv ==
  /\ TypeOK
  /\ FileInRange
  /\ LockOwner
  /\ CloneFresh
  /\ Creating
  /\ OneCreator
  /\ CacheMatchesStore
  /\ StatusDerived

\* A file that was completed stays completed: "file completed, it cant be
\* failed" (service.go:559, :605) and its siblings, across all callers.
CompletedIsFinal ==
  [][\A t \in Task : store[t] # None =>
       \A i \in DOMAIN store[t].files :
         store[t].files[i] = "completed" => store'[t].files[i] = "completed"
    ]_svcVars

\* A completed task is never written again: no call finds a file in it that it may mark
\* (service.go:496, :559), and its status is the one its files give.
CompletedTaskFrozen ==
  [][\A t \in Task : store[t] # None /\ store[t].status = "completed" => store'[t] = store[t]
    ]_svcVars

\* A task that has left pending is not pending again, not even when bbolt mode loses an
\* update: whatever else it writes back, a Mark call marks its own file (core/task.go:36).
PendingOnce ==
  [][\A t \in Task : store[t] # None /\ store'[t].status = "pending" =>
       store[t].status = "pending"
    ]_svcVars

\* Every call is one atomic transition of one file: TaskService implements
\* TaskLedger, with the files in the store as the ledger.
Files  == [t \in Task |-> IF store[t] = None THEN None ELSE store[t].files]
Ledger == INSTANCE TaskLedger WITH ledger <- Files
ImplementsLedger == Ledger!Spec
=============================================================================
