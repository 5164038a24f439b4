---------------------------- MODULE MCLifecycle ----------------------------
(***************************************************************************)
(* Lifecycle with one task and one handler: at most two restarts, so three *)
(* components, or a failed restart that is tried again.                    *)
(***************************************************************************)
EXTENDS Lifecycle

CONSTANTS t1, h1

MCTask    == {t1}
MCHandler == {h1}
MCModes   == {"memory", "bbolt"}
MCMemory  == {"memory"}
=============================================================================
