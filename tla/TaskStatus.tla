----------------------------- MODULE TaskStatus -----------------------------
(***************************************************************************)
(* Package core: the statuses of a file and of a task, and the status a    *)
(* task derives from its files.  A task's files are a function from        *)
(* positions (1 is the code's index 0) to file statuses; names, sizes,     *)
(* URLs and times are left out.                                            *)
(***************************************************************************)
EXTENDS Naturals

FileStatus == {"waiting", "queued", "downloading", "completed", "error"}

TaskStatusSet ==
  {"pending", "in_progress", "failed", "partially_completed", "completed"}

\* File.IsFinished
Finished == {"completed", "error"}

\* obtainStatus: its counters compared with n say "every file is in S"; what is
\* left over has a queued or downloading file, or both waiting and finished ones.
ObtainStatus(files) ==
  LET Every(S) == \A i \in DOMAIN files : files[i] \in S
  IN  IF Every({"completed"})    THEN "completed"
      ELSE IF Every({"waiting"}) THEN "pending"
      ELSE IF Every({"error"})   THEN "failed"
      ELSE IF Every(Finished)    THEN "partially_completed"
      ELSE "in_progress"
=============================================================================
