------------------------------ MODULE JobQueue ------------------------------
(***************************************************************************)
(* What worker.Pool promises: a job it accepts is handled, once, and when  *)
(* Stop has returned every accepted job was handled and no other is ever   *)
(* accepted.  A job here is one successful submission: two submissions     *)
(* with the same content are two jobs.                                     *)
(***************************************************************************)
CONSTANT Job

VARIABLES
  accepted,  \* jobs whose Submit returned nil
  handled,   \* jobs whose Handle returned
  stopped    \* a call of Stop returned

qvars == <<accepted, handled, stopped>>

Init ==
  /\ accepted = {}
  /\ handled = {}
  /\ stopped = FALSE

Accept(j) ==
  /\ ~stopped
  /\ j \notin accepted
  /\ accepted' = accepted \cup {j}
  /\ UNCHANGED <<handled, stopped>>

Handle(j) ==
  /\ j \in accepted \ handled
  /\ handled' = handled \cup {j}
  /\ UNCHANGED <<accepted, stopped>>

Stop ==
  /\ accepted = handled
  /\ stopped' = TRUE
  /\ UNCHANGED <<accepted, handled>>

Next == Stop \/ \E j \in Job : Accept(j) \/ Handle(j)

Spec == Init /\ [][Next]_qvars

\* An accepted job is handled, sooner or later.
Fairness == \A j \in Job : WF_qvars(Handle(j))

FairSpec == Spec /\ Fairness
=============================================================================
