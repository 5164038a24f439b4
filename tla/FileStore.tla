----------------------------- MODULE FileStore -----------------------------
(***************************************************************************)
(* storage.FileTaskStore, the TaskStore of memory mode: the tasks in       *)
(* memory, the log of events (wal.FileLog: a buffer over a file), and the  *)
(* snapshot.  A process may crash before any step, the machine with it or  *)
(* later: what was not synced then survives as a prefix.                   *)
(*                                                                         *)
(* The mutex of the store makes its calls sequential, so one call is in    *)
(* progress at most.  The content of a task is one value for every field   *)
(* of every file: the call that set it, or None.  A call writes records of *)
(* its own file only, with the fields it sets and some that it does not.   *)
(* Names and sizes that a call sets are not empty, ids are not reused, and *)
(* a rename takes effect at once.                                          *)
(***************************************************************************)
EXTENDS TaskStatus, SequencesExt

CONSTANTS
  Task, File, Value, None,
  StatusOf, \* the file status that a value stands for
  New,      \* the value of a file in a new task
  MaxLog,   \* bound on the records in the log
  Faults    \* what may fail: see AllFaults

\* ctx: a context expires; write: the file takes only a part of the buffer; sync:
\* fsync fails; close: closing the log fails; file: creating or renaming a file
\* fails; tear: a record may be cut in the middle.
AllFaults == {"ctx", "write", "sync", "close", "file", "tear"}

VARIABLES
  tasks,     \* FileTaskStore.tasks; when the process is down, its last value
  snapshot,  \* the snapshot file: the tasks it holds
  wal,       \* the log file: its records
  synced,    \* how many of them fsync has reached
  buf,       \* the buffer of the log's writer
  log,       \* FileTaskStore.log: "open", "stuck" (the writer keeps an error),
             \* "closed" (FileLog.Closed) or "nil"
  pc,        \* where the call in progress is, "idle", or "down"
  call,      \* the call: its task, file and value, or None in FlushSnapshot
  unsure     \* history: what a restart may find instead, for each task and cell

vars == <<tasks, snapshot, wal, synced, buf, log, pc, call, unsure>>

\* The fields of a file (its status with the error message), and the status that a
\* task_status record has told a task since its files last gave it one.
Field == {"status", "size", "times", "name"}
Told  == <<None, "told">>
Cell  == (File \X Field) \cup {Told}
Val   == Value \cup TaskStatusSet \cup {None}

\* A task has a status for every file; one that is not known has nothing.
Content == {x \in [Cell -> Val] : \A f \in File : x[<<f, "status">>] \in Value}
Nothing == [c \in Cell |-> None]
Held    == [Task -> Content \cup {Nothing}]

\* An event puts values in some cells of a task and keeps the others.
Keep   == "keep"
Puts   ==
  {p \in [Cell -> Val \cup {Keep}] : \A f \in File : p[<<f, "status">>] \in Value \cup {Keep}}
Event  == [task : Task, new : {TRUE}, puts : Content] \cup [task : Task, new : {FALSE}, puts : Puts]
\* A line of the file: an event, or a piece of one (None); the newline may be missing.
Record == [event : Event \cup {None}, newline : BOOLEAN]
PC     == {"down", "idle", "append", "flush", "sync", "write", "close", "rename", "create"}
\* CreateTask has no file.
Call   == [task : Task, file : File \cup {None}, value : Value]

Sure == [t \in Task |-> [c \in Cell |-> {}]]

ASSUME FileStoreAssumption ==
  /\ MaxLog \in Nat \ {0}
  /\ Faults \subseteq AllFaults
  /\ StatusOf \in [Value -> FileStatus]
  /\ New \in Value /\ StatusOf[New] = "waiting"
  /\ File # {}
  /\ None \notin File \cup Value \cup TaskStatusSet \cup {Keep} \cup Event \cup Call
  /\ Keep \notin Value

TypeOK ==
  /\ tasks \in Held
  /\ snapshot \in Held
  /\ wal \in Seq(Record) /\ buf \in Seq(Event)
  /\ Len(wal) <= MaxLog
  /\ log # "stuck" => Len(wal) + Len(buf) <= MaxLog
  /\ synced \in 0..Len(wal)
  /\ log \in {"open", "stuck", "closed", "nil"}
  /\ pc \in PC
  /\ call \in Call \cup {None}
  /\ unsure \in [Task -> [Cell -> SUBSET Val]]

Init ==
  /\ tasks = [t \in Task |-> Nothing]
  /\ snapshot = [t \in Task |-> Nothing]
  /\ wal = <<>> /\ synced = 0
  /\ buf = <<>>
  /\ log = "nil"
  /\ pc = "down"
  /\ call = None
  /\ unsure = Sure

-----------------------------------------------------------------------------
Lines(evs) == [i \in DOMAIN evs |-> [event |-> evs[i], newline |-> TRUE]]

\* wal.ReadAll: a line that is no event ends the log.  A record without its newline
\* is read only while it is the last one; what is appended later is glued to it.
ReadAll(lines) ==
  LET cut == {i \in DOMAIN lines : ~lines[i].newline}
  IN  IF \/ cut = {}
         \/ cut = {Len(lines)} /\ lines[Len(lines)].event # None
      THEN lines
      ELSE SubSeq(lines, 1, (CHOOSE i \in cut : \A j \in cut : i <= j) - 1)

\* One step of applyEvents; an update of an unknown task is ignored.
Put(x, puts) == [c \in Cell |-> IF puts[c] = Keep THEN x[c] ELSE puts[c]]

ApplyEvent(ts, r) ==
  LET e == r.event IN
  IF e.new THEN [ts EXCEPT ![e.task] = e.puts]
  ELSE IF ts[e.task] = Nothing THEN ts
  ELSE [ts EXCEPT ![e.task] = Put(@, e.puts)]

ApplyEvents(ts, lines) == FoldLeft(ApplyEvent, ts, lines)

\* LoadAll: the snapshot, then the events of the log on top of it.
Recovered == ApplyEvents(snapshot, ReadAll(wal))

Goto(from, to) == pc = from /\ pc' = to

\* NewFileTaskStore and LoadAll: the log is opened for appending, as it is.  What fsync has
\* not reached is loaded all the same, and may still be lost.
Open ==
  /\ Goto("down", "idle")
  /\ log' = "open"
  /\ tasks' = Recovered
  /\ unsure' = IF synced = Len(wal) THEN Sure
               ELSE [t \in Task |-> [c \in Cell |-> unsure[t][c] \cup {tasks[t][c]}]]
  /\ UNCHANGED <<snapshot, wal, synced, buf, call>>

-----------------------------------------------------------------------------
\* UpdateStatus, and the status that a task is loaded with.
Derived(x) == ObtainStatus([f \in File |-> StatusOf[x[<<f, "status">>]]])
Status(x)  == IF x[Told] = None THEN Derived(x) ELSE x[Told]

\* The task of core.NewTask.
Created == [c \in Cell |-> IF c[2] = "status" THEN New ELSE None]

\* Which values the Mark calls may give a file, and the fields of it that they set.
MayMark(x, f, v) ==
  LET now == StatusOf[x[<<f, "status">>]] IN
  CASE StatusOf[v] = "waiting" -> FALSE
    [] StatusOf[v] = "queued"  -> now = "waiting"
    [] OTHER                   -> now # "completed"

Sets(v) ==
  CASE StatusOf[v] = "queued"    -> {"status"}
    [] StatusOf[v] = "completed" -> Field
    [] OTHER                     -> {"status", "times"}

\* What a call makes of its task; Told is the new status if that is not the old one.
Marked(x, f, v) ==
  LET m == [c \in Cell |-> IF c \in {f} \X Sets(v) THEN v ELSE x[c]]
  IN  [m EXCEPT ![Told] = IF Derived(m) # Status(x) THEN Derived(m) ELSE None]

Result(k) ==
  IF k.file = None THEN Created ELSE Marked(tasks[k.task], k.file, k.value)

\* The records of a call, with the values of the result.  task_created has all of it;
\* file_status the status, a size that is not zero, and it has the status of the task
\* derived anew; file_meta, but for MarkFileQueued, the times and a name that is not empty;
\* task_status the status of the task, where that changes.
Events(k) ==
  LET m == Result(k)
      Some(cells) == [c \in Cell |-> IF c \in cells THEN m[c] ELSE Keep]
      Filled(field) == {c \in {<<k.file, field>>} : m[c] # None}
      Update(puts)  == <<[task |-> k.task, new |-> FALSE, puts |-> puts]>>
  IN  IF k.file = None THEN <<[task |-> k.task, new |-> TRUE, puts |-> m]>>
      ELSE Update([Some({<<k.file, "status">>} \cup Filled("size")) EXCEPT ![Told] = None])
           \o (IF StatusOf[k.value] = "queued" THEN <<>>
               ELSE Update(Some({<<k.file, "times">>} \cup Filled("name"))))
           \o (IF m[Told] = None THEN <<>> ELSE Update(Some({Told})))

\* The values that records put in a cell.
PutIn(evs, c) == {evs[i].puts[c] : i \in DOMAIN evs} \ {Keep}

\* The call returns an error.
Fail(from) == Goto(from, "idle") /\ call' = None

\* The call returns nil: its task is what it made of it, and the log has nothing behind
\* the values of its own records.
Acknowledge ==
  /\ tasks' = [tasks EXCEPT ![call.task] = Result(call)]
  /\ unsure' = [unsure EXCEPT ![call.task] =
                  [c \in Cell |-> IF PutIn(Events(call), c) = {} THEN @[c] ELSE {}]]
  /\ call' = None

Begin(k) ==
  /\ Len(wal) + Len(buf) + Len(Events(k)) <= MaxLog
  /\ Goto("idle", "append")
  /\ call' = k
  /\ unsure' = [unsure EXCEPT ![k.task] = [c \in Cell |-> @[c] \cup PutIn(Events(k), c)]]
  /\ UNCHANGED <<tasks, snapshot, wal, synced, buf, log>>

\* CreateTask of a task that has a new id.
CreateTask(t) ==
  /\ tasks[t] = Nothing /\ unsure[t] = Sure[t]
  /\ Begin([task |-> t, file |-> None, value |-> New])

\* UpdateTask, for a Mark call of the service.
UpdateTask(t, f, v) ==
  /\ tasks[t] # Nothing
  /\ MayMark(tasks[t], f, v)
  /\ Begin([task |-> t, file |-> f, value |-> v])

\* FileLog.Append; a log that is Closed takes nothing and returns nil.
AppendAll ==
  /\ log \in {"open", "closed"}
  /\ Goto("append", "flush")
  /\ buf' = IF log = "closed" THEN buf ELSE buf \o Events(call)
  /\ UNCHANGED <<tasks, snapshot, wal, synced, log, call, unsure>>

\* There is no log, its writer keeps an earlier error, or the context expires after
\* some of the records, which stay in the buffer.
AppendFails ==
  /\ Fail("append")
  /\ \/ log \in {"nil", "stuck"} /\ UNCHANGED buf
     \/ /\ log = "open" /\ "ctx" \in Faults
        /\ \E k \in 0..(Len(Events(call)) - 1) : buf' = buf \o SubSeq(Events(call), 1, k)
  /\ UNCHANGED <<tasks, snapshot, wal, synced, log, unsure>>

\* FlushSnapshot: the log is flushed first.
BeginSnapshot ==
  /\ log # "nil"
  /\ Goto("idle", "flush")
  /\ UNCHANGED <<tasks, snapshot, wal, synced, buf, log, call, unsure>>

\* After FileLog.Flush: UpdateTask returns, FlushSnapshot writes the snapshot.
Flushed(from) ==
  \/ /\ call # None
     /\ Goto(from, "idle")
     /\ Acknowledge
  \/ /\ call = None
     /\ Goto(from, "write")
     /\ UNCHANGED <<tasks, call, unsure>>

\* Mutant of Flush: the buffer is written and not emptied.
FlushTwice ==
  /\ log = "open"
  /\ Goto("flush", "sync")
  /\ wal' = wal \o Lines(buf)
  /\ UNCHANGED <<tasks, snapshot, synced, buf, log, call, unsure>>

\* FileLog.Flush: the buffer goes to the file, and Sync follows.
Flush ==
  /\ log = "open"
  /\ Goto("flush", "sync")
  /\ wal' = wal \o Lines(buf)
  /\ buf' = <<>>
  /\ UNCHANGED <<tasks, snapshot, synced, log, call, unsure>>

\* Mutant of Sync: the call returns once the file has the records.
SyncSkipped ==
  /\ Flushed("sync")
  /\ UNCHANGED <<snapshot, wal, synced, buf, log>>

Sync ==
  /\ Flushed("sync")
  /\ synced' = Len(wal)
  /\ UNCHANGED <<snapshot, wal, buf, log>>

\* A log that is Closed flushes nothing and returns nil.
FlushClosed ==
  /\ log = "closed"
  /\ Flushed("flush")
  /\ UNCHANGED <<snapshot, wal, synced, buf, log>>

\* What a cut in the middle of record r leaves: a piece, or all but the newline.
Torn(r) ==
  IF "tear" \in Faults
  THEN {<<>>, <<[event |-> None, newline |-> FALSE]>>, <<[r EXCEPT !.newline = FALSE]>>}
  ELSE {<<>>}

\* What may be left behind the first k of the lines.
Pieces(lines, k) == IF k < Len(lines) THEN Torn(lines[k + 1]) ELSE {<<>>}

\* The file takes a part of the buffer; bufio.Writer keeps the error for good.  An Append
\* that overflows the buffer and fails to write it comes to the same.
FlushShort ==
  /\ log = "open" /\ "write" \in Faults
  /\ Fail("flush")
  /\ \E k \in 0..(Len(buf) - 1) :
       /\ \E piece \in Pieces(Lines(buf), k) : wal' = wal \o SubSeq(Lines(buf), 1, k) \o piece
       /\ buf' = SubSeq(buf, k + 1, Len(buf))
  /\ log' = "stuck"
  /\ UNCHANGED <<tasks, snapshot, synced, unsure>>

FlushFails ==
  /\ \/ Fail("flush") /\ (log = "stuck" \/ (log = "open" /\ "ctx" \in Faults))
     \/ Fail("sync") /\ "sync" \in Faults
  /\ UNCHANGED <<tasks, snapshot, wal, synced, buf, log, unsure>>

-----------------------------------------------------------------------------
\* Mutant of WriteSnapshot: the log is reset although writing the snapshot failed.
WriteSnapshotLost ==
  /\ Goto("write", "close")
  /\ UNCHANGED <<snapshot, tasks, wal, synced, buf, log, call, unsure>>

\* snapshot.Write: a temporary file, synced, takes the place of the snapshot.
WriteSnapshot ==
  /\ Goto("write", "close")
  /\ snapshot' = tasks
  /\ UNCHANGED <<tasks, wal, synced, buf, log, call, unsure>>

\* backupAndResetLog, step by step: close the log, move it away, open a new one.
CloseLog ==
  /\ Goto("close", "rename")
  /\ log' = "nil"
  /\ UNCHANGED <<tasks, snapshot, wal, synced, buf, call, unsure>>

\* FileLog.Close fails after it has set Closed; the store keeps the log.
CloseLogFails ==
  /\ log = "open" /\ "close" \in Faults
  /\ Goto("close", "idle")
  /\ log' = "closed"
  /\ UNCHANGED <<tasks, snapshot, wal, synced, buf, call, unsure>>

\* Mutant of RenameLog: the new log is opened over the old one.
RenameSkipped ==
  /\ Goto("rename", "create")
  /\ unsure' = Sure
  /\ UNCHANGED <<tasks, snapshot, wal, synced, buf, log, call>>

RenameLog ==
  /\ Goto("rename", "create")
  /\ wal' = <<>>
  /\ synced' = 0
  /\ unsure' = Sure
  /\ UNCHANGED <<tasks, snapshot, buf, log, call>>

CreateLog ==
  /\ Goto("create", "idle")
  /\ log' = "open"
  /\ UNCHANGED <<tasks, snapshot, wal, synced, buf, call, unsure>>

\* A step of FlushSnapshot after the flush fails; without a log every later write
\* is refused until a restart.
SnapshotFails ==
  /\ \/ Fail("write") /\ {"ctx", "file"} \cap Faults # {}
     \/ \E from \in {"rename", "create"} : Fail(from) /\ "file" \in Faults
  /\ UNCHANGED <<tasks, snapshot, wal, synced, buf, log, unsure>>

-----------------------------------------------------------------------------
\* Close, before a restart or the exit: an open log writes its buffer, all of it or a part,
\* and what the file has is synced, unless that fails too.
Close ==
  /\ Goto("idle", "down")
  /\ \/ log # "open" /\ UNCHANGED wal
     \/ log = "open" /\ \E k \in 0..Len(buf) :
          /\ k < Len(buf) => "write" \in Faults
          /\ \E piece \in Pieces(Lines(buf), k) : wal' = wal \o SubSeq(Lines(buf), 1, k) \o piece
  /\ synced' = Len(wal') \/ ("sync" \in Faults /\ log \in {"open", "stuck"} /\ synced' = synced)
  /\ buf' = <<>>
  /\ log' = "nil"
  /\ UNCHANGED <<tasks, snapshot, call, unsure>>

\* The process ends, and the file stays as it is.
Crash ==
  /\ pc # "down"
  /\ pc' = "down"
  /\ buf' = <<>>
  /\ log' = "nil"
  /\ call' = None
  /\ UNCHANGED <<tasks, snapshot, wal, synced, unsure>>

\* The machine stops: the records fsync has not reached survive as a prefix.
PowerLoss ==
  /\ pc' = "down"
  /\ \E k \in synced..Len(wal) : \E piece \in Pieces(wal, k) : wal' = SubSeq(wal, 1, k) \o piece
  /\ synced' = Len(wal')
  /\ buf' = <<>>
  /\ log' = "nil"
  /\ call' = None
  /\ UNCHANGED <<tasks, snapshot, unsure>>

Next ==
  \/ Open
  \/ \E t \in Task : CreateTask(t) \/ \E f \in File, v \in Value : UpdateTask(t, f, v)
  \/ AppendAll \/ AppendFails
  \/ Flush \/ Sync \/ FlushClosed \/ FlushShort \/ FlushFails
  \/ BeginSnapshot \/ WriteSnapshot \/ CloseLog \/ CloseLogFails \/ RenameLog \/ CreateLog
  \/ SnapshotFails
  \/ Close \/ Crash \/ PowerLoss

Spec == Init /\ [][Next]_vars

-----------------------------------------------------------------------------
\* The store implements the durable map it promises: whatever a crash, an expired
\* context or a failed write cut short, a restart finds every acknowledged call, and
\* nothing that was not offered since (file_task_store.go:54-135).
Map == INSTANCE DurableMap WITH up <- pc # "down"
ImplementsMap == Map!Spec

\* While the process runs, a restart at this very moment from what is synced would
\* bring back every acknowledged task: no step of FlushSnapshot leaves a gap between
\* the snapshot and the log (file_task_store.go:158-166).
SyncedState == ApplyEvents(snapshot, ReadAll(SubSeq(wal, 1, synced)))

NoGap == pc # "down" => \A t \in Task : SyncedState[t] \in Map!Possible(t)

\* The records in the file and those in the buffer; what a restart would load if the first
\* k of them had reached the disk; and whether only the last of those may be torn.
All     == wal \o Lines(buf)
Load(k) == ApplyEvents(snapshot, ReadAll(SubSeq(All, 1, k)))
Tidy(k) == \A i \in 1..(k - 1) : All[i].newline

\* Whatever fails: a log that is Closed loses what the store acknowledges, and a record
\* behind a torn one is lost; but as soon as a snapshot or a restart has opened a new log,
\* all of it is durable again: the old log no longer overrides the snapshot, and a record
\* torn since hides nothing before it (file_task_store.go:158-213).
Healed ==
  pc # "down" /\ log = "open" /\ Tidy(synced) =>
    \A t \in Task : Load(synced)[t] \in Map!Possible(t)

\* "Implementations MUST be ... durable across restarts" (store.go:11): what a restart
\* loads holds every task that was acknowledged.
Durable == pc = "down" => \A t \in Task : Recovered[t] \in Map!Possible(t)

\* The restart that finds a torn record at the end of the log does find them.
DurableOnce ==
  pc = "down" /\ Tidy(Len(wal)) => \A t \in Task : Recovered[t] \in Map!Possible(t)

-----------------------------------------------------------------------------
(***************************************************************************)
(* The inductive invariant behind the theorems of FileStoreProofs.         *)
(***************************************************************************)
\* A line that ends in a newline is an event.
Readable == \A i \in DOMAIN wal : wal[i].newline => wal[i].event # None

\* What a call has done by the time it is where it is.  The buffer is empty and all of
\* the log is synced from the moment a snapshot is written, and as long as no log is
\* open; the snapshot is what the store holds until the log is a new one.
Progress ==
  /\ pc = "append" => call # None /\ Len(wal) + Len(buf) + Len(Events(call)) <= MaxLog
  /\ pc \notin {"append", "flush", "sync"} => call = None
  /\ call # None => /\ \A c \in Cell : PutIn(Events(call), c) \subseteq unsure[call.task][c]
                    /\ call.file # None => tasks[call.task] # Nothing
  /\ pc = "sync" => log = "open" /\ buf = <<>>
  /\ pc \in {"write", "close"} => log \in {"open", "closed"}
  /\ pc \in {"rename", "create", "down"} => log = "nil"
  /\ pc = "flush" /\ call # None => log # "stuck"
  /\ log \in {"closed", "nil"} \/ pc \in {"write", "close"} =>
       buf = <<>> /\ (pc # "down" => synced = Len(wal))
  /\ pc \in {"close", "rename", "create"} => snapshot = tasks
  /\ pc = "create" => wal = <<>>
  /\ log = "closed" => "close" \in Faults

\* The log can be relied on, unless closing it failed.
Trusted ==
  "close" \notin Faults \/ pc = "create" \/ log \in {"open", "stuck"} \/ synced < Len(wal)

\* Whatever a crash leaves of the records that are not synced, a restart would find
\* what was acknowledged, or what a later call has offered, unless a record is torn that
\* is not the last one.
Recoverable ==
  \A k \in synced..Len(All) : Tidy(k) => \A t \in Task : Load(k)[t] \in Map!Possible(t)

\* A task that the store knows is created by the snapshot or by the log.
Present ==
  pc # "down" /\ Tidy(Len(All)) =>
    \A t \in Task : tasks[t] # Nothing => Load(Len(All))[t] # Nothing

\* When the records of a call are in the log, they give its values to its task.
Offered ==
  pc \in {"flush", "sync"} /\ call # None /\ log = "open" /\ Tidy(Len(All)) =>
    LET x == Load(Len(All))[call.task]
    IN  /\ x # Nothing
        /\ \A c \in Cell : PutIn(Events(call), c) # {} => x[c] = Result(call)[c]

\* No record is torn, unless records can be.
Whole == \A i \in DOMAIN wal : wal[i].newline

IInv ==
  /\ TypeOK /\ Readable /\ Progress
  /\ Trusted => Recoverable /\ Present
  /\ Offered
  /\ "tear" \notin Faults => Whole
=============================================================================
