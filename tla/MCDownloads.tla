---------------------------- MODULE MCDownloads ----------------------------
(***************************************************************************)
(* Downloads with one task of up to two files, two workers, one handler    *)
(* and one retry loop.                                                     *)
(***************************************************************************)
EXTENDS Downloads, TLC

CONSTANTS t1, w1, w2, a1, r1

MCTask   == {t1}
MCWorker == {w1, w2}
MCOneWorker == {w1}
MCApi    == {a1}
MCNoApi  == {}
MCRetry  == {r1}

\* What the process finds when it starts: no task, a task nobody has enqueued yet, or
\* whatever a task of up to two files can have been left as.
MCFresh   == {}
MCWaiting == {[files |-> <<"waiting", "waiting">>, status |-> "pending"]}
MCAny     == Svc!Loaded

Symmetry == Permutations(MCWorker)
=============================================================================
