----------------------------- MODULE DurableMap -----------------------------
(***************************************************************************)
(* What storage.TaskStore promises: implementations are "durable across    *)
(* restarts" (store.go:11).  What a call that returned nil wrote is there  *)
(* after every restart.  A call that failed, or was cut short by a crash,  *)
(* may be there, in whole or in part, cell by cell, until later calls have *)
(* written the same cells.                                                 *)
(***************************************************************************)
CONSTANTS
  Task, Cell, Val,
  Content,  \* what a known task may hold: functions from Cell to Val
  Nothing   \* what an unknown task holds

VARIABLES
  tasks,   \* the contents that the store answers with
  unsure,  \* for each task and cell, what a restart may find instead
  up       \* the process runs

mapVars == <<tasks, unsure, up>>

Sure == [t \in Task |-> [c \in Cell |-> {}]]

Init ==
  /\ tasks = [t \in Task |-> Nothing]
  /\ unsure = Sure
  /\ up = FALSE

\* A call offers values for cells of task t.
Offer(t) ==
  /\ up
  /\ unsure' \in [Task -> [Cell -> SUBSET Val]]
  /\ \A c \in Cell : unsure[t][c] \subseteq unsure'[t][c]
  /\ \A u \in Task \ {t} : unsure'[u] = unsure[u]
  /\ UNCHANGED <<tasks, up>>

\* The call returns nil: every cell has a value that was offered and is sure from now on,
\* or is left as it was.
Acknowledge(t) ==
  /\ up
  /\ tasks'[t] \in Content
  /\ \A c \in Cell :
       \/ unsure'[t][c] = {} /\ tasks'[t][c] \in unsure[t][c]
       \/ unsure'[t][c] = unsure[t][c] /\ tasks'[t][c] = tasks[t][c]
  /\ tasks' = [tasks EXCEPT ![t] = tasks'[t]]
  /\ unsure' = [unsure EXCEPT ![t] = unsure'[t]]
  /\ UNCHANGED up

\* A snapshot is complete: what was not acknowledged is gone.
Settle ==
  /\ up
  /\ unsure' = Sure
  /\ UNCHANGED <<tasks, up>>

Crash ==
  /\ up
  /\ up' = FALSE
  /\ UNCHANGED <<tasks, unsure>>

\* What a restart may find of t.
Possible(t) ==
  {x \in Content \cup {Nothing} : \A c \in Cell : x[c] \in {tasks[t][c]} \cup unsure[t][c]}

\* What it finds is what the store answers with, and is sure once it is on the disk.
Restart ==
  /\ ~up
  /\ up' = TRUE
  /\ tasks' \in [Task -> Content \cup {Nothing}]
  /\ \A t \in Task : tasks'[t] \in Possible(t)
  /\ \/ unsure' = Sure
     \/ unsure' = [t \in Task |-> [c \in Cell |-> unsure[t][c] \cup {tasks[t][c]}]]

Next ==
  \/ \E t \in Task : Offer(t) \/ Acknowledge(t)
  \/ Settle \/ Crash \/ Restart

Spec == Init /\ [][Next]_mapVars
=============================================================================
