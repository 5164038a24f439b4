---------------------------- MODULE MCFileStore ----------------------------
(***************************************************************************)
(* FileStore with one task of one or two files, and a value for each       *)
(* status that the Mark calls treat differently.                           *)
(***************************************************************************)
EXTENDS FileStore

CONSTANTS t1, f1, f2, waitingV, queuedV, completedV, errorV

MCTask    == {t1}
MCFiles   == {f1, f2}
MCFile    == {f1}
MCValues  == {waitingV, queuedV, completedV, errorV}
MCValue   == {waitingV, completedV, errorV}
Symmetry  == Permutations(MCFiles)

MCStatusOf(values) ==
  [v \in values |-> IF v = waitingV THEN "waiting"
                    ELSE IF v = queuedV THEN "queued"
                    ELSE IF v = completedV THEN "completed" ELSE "error"]
MCStatuses  == MCStatusOf(MCValues)
MCFewStatus == MCStatusOf(MCValue)

\* The faults that leave records of a refused call in the log, or the store without a log.
MCLoss == {"sync", "file"}
MCTear == {"tear"}
=============================================================================
