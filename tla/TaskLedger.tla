----------------------------- MODULE TaskLedger -----------------------------
(***************************************************************************)
(* What TaskService promises its callers, whatever the store behind it:    *)
(* a ledger of tasks in which every call is one atomic transition of one   *)
(* file of one task, a completed file never moves again, and only a        *)
(* waiting file can be queued.                                             *)
(***************************************************************************)
EXTENDS TaskStatus

CONSTANTS
  Task,      \* task identifiers
  MaxFiles,  \* bound on the number of files of a task
  None       \* "no such task"

VARIABLE ledger  \* what a reader of the service sees: the files of each task

FileMap == UNION {[1..n -> FileStatus] : n \in 1..MaxFiles}

\* May a file in status `from` be marked `to`?
Allowed(from, to) ==
  IF to = "queued" THEN from = "waiting" ELSE from # "completed"

Create(t, n) ==
  /\ ledger[t] = None
  /\ ledger' = [ledger EXCEPT ![t] = [i \in 1..n |-> "waiting"]]

Mark(t, i, st) ==
  /\ ledger[t] # None
  /\ i \in DOMAIN ledger[t]
  /\ Allowed(ledger[t][i], st)
  /\ ledger' = [ledger EXCEPT ![t] = [@ EXCEPT ![i] = st]]

\* It opens with the tasks that were entered before.
Init == ledger \in [Task -> FileMap \cup {None}]

Next ==
  \E t \in Task :
    \/ \E n \in 1..MaxFiles : Create(t, n)
    \/ \E i \in 1..MaxFiles, st \in FileStatus \ {"waiting"} : Mark(t, i, st)

Spec == Init /\ [][Next]_ledger
=============================================================================
