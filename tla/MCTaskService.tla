--------------------------- MODULE MCTaskService ---------------------------
(***************************************************************************)
(* TaskService with two tasks of up to two files and two callers.          *)
(***************************************************************************)
EXTENDS TaskService, TLC

CONSTANTS t1, t2, p1, p2

MCTask == {t1, t2}
MCProc == {p1, p2}
Symmetry == Permutations(MCTask) \cup Permutations(MCProc)
=============================================================================
