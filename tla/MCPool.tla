------------------------------- MODULE MCPool -------------------------------
(***************************************************************************)
(* Two workers, a channel of one job, two submitters with three jobs       *)
(* between them and two calls of Stop.                                     *)
(***************************************************************************)
EXTENDS Pool

CONSTANTS w1, w2, s1, s2, c1, c2, j1, j2, j3

MCWorker    == {w1, w2}
MCSubmitter == {s1, s2}
MCStopper   == {c1, c2}
MCJob       == {j1, j2, j3}
=============================================================================
