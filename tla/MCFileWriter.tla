---------------------------- MODULE MCFileWriter ----------------------------
(***************************************************************************)
(* FileWriter with two files, which have two names or share one, and two   *)
(* workers.                                                                *)
(***************************************************************************)
EXTENDS FileWriter

CONSTANTS f1, f2, n1, n2, w1, w2

MCFile   == {f1, f2}
MCName   == {n1, n2}
MCWorker == {w1, w2}
=============================================================================
