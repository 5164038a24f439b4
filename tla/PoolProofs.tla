----------------------------- MODULE PoolProofs -----------------------------
(***************************************************************************)
(* What the pool guarantees for every number of jobs, workers, submitters  *)
(* and callers of Stop, and every capacity of the channel.                 *)
(***************************************************************************)
EXTENDS Pool, TLAPS

(***************************************************************************)
(* The channel's buffer.                                                   *)
(***************************************************************************)
LEMMA AppendElements ==
  ASSUME NEW S, NEW s \in Seq(S), NEW x \in S
  PROVE  /\ Append(s, x) \in Seq(S)
         /\ DOMAIN Append(s, x) = DOMAIN s \cup {Len(s) + 1}
         /\ Len(s) + 1 \notin DOMAIN s
         /\ \A i \in DOMAIN s : Append(s, x)[i] = s[i]
         /\ Append(s, x)[Len(s) + 1] = x
OBVIOUS

LEMMA TailElements ==
  ASSUME NEW S, NEW s \in Seq(S), s # <<>>
  PROVE  /\ Tail(s) \in Seq(S) /\ Head(s) \in S
         /\ Len(Tail(s)) = Len(s) - 1
         /\ Head(s) = s[1] /\ 1 \in DOMAIN s
         /\ \A i \in DOMAIN Tail(s) : Tail(s)[i] = s[i + 1] /\ i + 1 \in DOMAIN s /\ i \in Nat \ {0}
         /\ \A i \in DOMAIN s : i = 1 \/ (i - 1 \in DOMAIN Tail(s) /\ Tail(s)[i - 1] = s[i])
OBVIOUS

LEMMA InitIInv == Init => IInv
<1> SUFFICES ASSUME Init PROVE IInv
  OBVIOUS
<1> USE PoolAssumption DEF Init
<1>1. TypeOK
  <2>1. jobs \in Seq(Job) /\ Len(jobs) = 0 /\ 0 <= QueueSize
    OBVIOUS
  <2>2. /\ worker \in [Worker -> {"new", "ready", "busy", "gone"}]
        /\ hand \in [Worker -> Job \cup {None}]
        /\ submit \in [Submitter -> {"out", "closed?", "select1", "select2"}]
        /\ arg \in [Submitter -> Job \cup {None}]
        /\ stop \in [Stopper -> {"out", "once", "store", "done", "jobs", "wait", "back"}]
    OBVIOUS
  <2> QED
    BY <2>1, <2>2 DEF TypeOK
<1>2. Queued = {} /\ InHand = {} /\ DOMAIN jobs = {}
  BY DEF Queued, InHand
<1>3. NoJobLost
  BY <1>2 DEF NoJobLost
<1>4. ArgFresh /\ BusyHand /\ GoneLast
  BY DEF ArgFresh, BusyHand, GoneLast
<1>5. OverLast
  BY DEF OverLast, Stopped
<1> QED
  BY <1>1, <1>3, <1>4, <1>5 DEF IInv

(***************************************************************************)
(* Workers.                                                                *)
(***************************************************************************)
LEMMA SpawnIInv ==
  ASSUME IInv, NEW w \in Worker, Spawn(w) PROVE IInv'
<1>1. /\ worker[w] = "new" /\ worker' = [worker EXCEPT ![w] = "ready"]
      /\ UNCHANGED <<started, closed, done, chClosed, jobs, hand, handled, submit, arg,
                     stop, once, accepted>>
  BY DEF Spawn, startVars, flagVars, submitVars, stopVars
<1>2. TypeOK'
  BY <1>1 DEF IInv, TypeOK
<1>3. NoJobLost' /\ ArgFresh'
  BY <1>1 DEF IInv, NoJobLost, ArgFresh, Queued, InHand
<1>4. worker'[w] = "ready" /\ \A v \in Worker : v # w => worker'[v] = worker[v]
  BY <1>1 DEF IInv, TypeOK
<1>5. BusyHand' /\ GoneLast'
  BY <1>1, <1>4 DEF IInv, BusyHand, GoneLast
<1>6. OverLast'
  BY <1>1, <1>4 DEF IInv, OverLast, Stopped
<1> QED
  BY <1>2, <1>3, <1>5, <1>6 DEF IInv

LEMMA TakeIInv ==
  ASSUME IInv, NEW w \in Worker, Take(w) PROVE IInv'
<1>1. /\ worker[w] = "ready" /\ worker' = [worker EXCEPT ![w] = "busy"]
      /\ jobs # <<>> /\ jobs' = Tail(jobs)
      /\ hand' = [hand EXCEPT ![w] = Head(jobs)]
      /\ UNCHANGED <<started, closed, done, chClosed, handled, submit, arg,
                     stop, once, accepted>>
  BY DEF Take, startVars, flagVars, submitVars, stopVars
<1>2. /\ jobs \in Seq(Job) /\ jobs' \in Seq(Job) /\ Head(jobs) \in Job
      /\ Len(jobs') = Len(jobs) - 1 /\ Len(jobs') <= QueueSize
      /\ Head(jobs) = jobs[1] /\ 1 \in DOMAIN jobs
      /\ \A i \in DOMAIN jobs' : jobs'[i] = jobs[i + 1] /\ i + 1 \in DOMAIN jobs /\ i \in Nat \ {0}
      /\ \A i \in DOMAIN jobs : i = 1 \/ (i - 1 \in DOMAIN jobs' /\ jobs'[i - 1] = jobs[i])
  BY <1>1, TailElements, PoolAssumption DEF IInv, TypeOK
<1>3. TypeOK'
  BY <1>1, <1>2 DEF IInv, TypeOK
<1>4. /\ worker'[w] = "busy" /\ hand'[w] = Head(jobs) /\ hand[w] = None
      /\ \A v \in Worker : v # w => worker'[v] = worker[v] /\ hand'[v] = hand[v]
  BY <1>1 DEF IInv, TypeOK, BusyHand
<1>5. Head(jobs) \in Queued /\ Head(jobs) # None
  BY <1>2, PoolAssumption DEF Queued
<1>6. Queued' = Queued \ {Head(jobs)}
  <2>1. ASSUME NEW i \in DOMAIN jobs' PROVE jobs'[i] \in Queued \ {Head(jobs)}
    <3>1. jobs'[i] = jobs[i + 1] /\ i + 1 \in DOMAIN jobs /\ i + 1 # 1
      BY <1>2
    <3> QED
      BY <1>2, <3>1 DEF IInv, NoJobLost, Queued
  <2>2. ASSUME NEW x \in Queued \ {Head(jobs)} PROVE \E i \in DOMAIN jobs' : jobs'[i] = x
    <3>1. PICK i \in DOMAIN jobs : x = jobs[i]
      BY DEF Queued
    <3>2. i # 1
      BY <1>2, <3>1
    <3> QED
      BY <1>2, <3>1, <3>2
  <2> QED
    BY <2>1, <2>2 DEF Queued
<1>7. InHand' = InHand \cup {Head(jobs)}
  BY <1>4, <1>5 DEF InHand
<1>8. \A i, k \in DOMAIN jobs' : jobs'[i] = jobs'[k] => i = k
  <2> TAKE i, k \in DOMAIN jobs'
  <2>1. i \in Nat /\ k \in Nat /\ i + 1 \in DOMAIN jobs /\ k + 1 \in DOMAIN jobs
    BY <1>2
  <2>2. jobs'[i] = jobs'[k] => i + 1 = k + 1
    BY <1>2, <2>1 DEF IInv, NoJobLost
  <2> QED
    BY <2>1, <2>2
<1>9. \A u, v \in Worker : hand'[u] = hand'[v] /\ hand'[u] # None => u = v
  <2>1. Head(jobs) \notin InHand
    BY <1>5 DEF IInv, NoJobLost
  <2>2. \A v \in Worker : hand[v] # Head(jobs)
    BY <1>5, <2>1 DEF InHand
  <2> QED
    BY <1>4, <2>2 DEF IInv, NoJobLost
<1>10. NoJobLost'
  BY <1>1, <1>5, <1>6, <1>7, <1>8, <1>9 DEF IInv, NoJobLost
<1>11. ArgFresh'
  BY <1>1 DEF IInv, ArgFresh
<1>12. BusyHand'
  BY <1>4, <1>5 DEF IInv, BusyHand
<1>13. GoneLast'
  BY <1>1, <1>4 DEF IInv, GoneLast
<1>14. OverLast'
  BY <1>1 DEF IInv, OverLast, Stopped
<1> QED
  BY <1>3, <1>10, <1>11, <1>12, <1>13, <1>14 DEF IInv

LEMMA FinishIInv ==
  ASSUME IInv, NEW w \in Worker, Finish(w) PROVE IInv'
<1>1. /\ worker[w] = "busy" /\ worker' = [worker EXCEPT ![w] = "ready"]
      /\ hand' = [hand EXCEPT ![w] = None] /\ handled' = handled \cup {hand[w]}
      /\ UNCHANGED <<started, closed, done, chClosed, jobs, submit, arg,
                     stop, once, accepted>>
  BY DEF Finish, startVars, flagVars, submitVars, stopVars
<1>2. hand[w] # None /\ hand[w] \in Job
  BY <1>1 DEF IInv, TypeOK, BusyHand
<1>3. TypeOK'
  BY <1>1, <1>2 DEF IInv, TypeOK
<1>4. /\ worker'[w] = "ready" /\ hand'[w] = None
      /\ \A v \in Worker : v # w => worker'[v] = worker[v] /\ hand'[v] = hand[v]
  BY <1>1 DEF IInv, TypeOK
<1>5. Queued' = Queued
  BY <1>1 DEF Queued
<1>6. InHand' = InHand \ {hand[w]} /\ hand[w] \in InHand
  BY <1>2, <1>4 DEF InHand, IInv, NoJobLost
<1>7. NoJobLost'
  BY <1>1, <1>4, <1>5, <1>6 DEF IInv, NoJobLost
<1>8. ArgFresh' /\ OverLast'
  BY <1>1 DEF IInv, ArgFresh, OverLast, Stopped
<1>9. BusyHand' /\ GoneLast'
  BY <1>1, <1>4 DEF IInv, BusyHand, GoneLast
<1> QED
  BY <1>3, <1>7, <1>8, <1>9 DEF IInv

LEMMA ExitIInv ==
  ASSUME IInv, NEW w \in Worker, Exit(w) PROVE IInv'
<1>1. /\ worker[w] = "ready" /\ chClosed /\ jobs = <<>>
      /\ worker' = [worker EXCEPT ![w] = "gone"]
      /\ UNCHANGED <<started, closed, done, chClosed, jobs, hand, handled, submit, arg,
                     stop, once, accepted>>
  BY DEF Exit, startVars, flagVars, submitVars, stopVars
<1>2. TypeOK'
  BY <1>1 DEF IInv, TypeOK
<1>3. NoJobLost' /\ ArgFresh'
  BY <1>1 DEF IInv, NoJobLost, ArgFresh, Queued, InHand
<1>4. worker'[w] = "gone" /\ \A v \in Worker : v # w => worker'[v] = worker[v]
  BY <1>1 DEF IInv, TypeOK
<1>5. BusyHand' /\ GoneLast' /\ OverLast'
  BY <1>1, <1>4 DEF IInv, BusyHand, GoneLast, OverLast, Stopped
<1> QED
  BY <1>2, <1>3, <1>5 DEF IInv

(***************************************************************************)
(* Submit.                                                                 *)
(***************************************************************************)
\* What every submit step leaves alone, and what a call or a return changes.
LEMMA CallSubmitIInv ==
  ASSUME IInv, NEW s \in Submitter, NEW j \in Job, CallSubmit(s, j) PROVE IInv'
<1>1. /\ j \notin accepted /\ \A r \in Submitter : arg[r] # j
      /\ submit[s] = "out" /\ submit' = [submit EXCEPT ![s] = "closed?"]
      /\ arg' = [arg EXCEPT ![s] = j]
      /\ UNCHANGED <<started, closed, done, chClosed, jobs, worker, hand, handled,
                     stop, once, accepted>>
  BY DEF CallSubmit, SubmitStep, Submitting, startVars, flagVars, workVars, stopVars
<1>2. TypeOK'
  BY <1>1 DEF IInv, TypeOK
<1>3. NoJobLost' /\ BusyHand' /\ GoneLast' /\ OverLast'
  BY <1>1 DEF IInv, NoJobLost, BusyHand, GoneLast, OverLast, Queued, InHand, Stopped
<1>4. /\ submit'[s] = "closed?" /\ arg'[s] = j
      /\ \A r \in Submitter : r # s => submit'[r] = submit[r] /\ arg'[r] = arg[r]
  BY <1>1 DEF IInv, TypeOK
<1>5. ArgFresh'
  BY <1>1, <1>4 DEF IInv, ArgFresh
<1> QED
  BY <1>2, <1>3, <1>5 DEF IInv

\* A submit step that touches neither the channel nor the history.
LEMMA SubmitQuietIInv ==
  ASSUME IInv, NEW s \in Submitter,
         \/ CheckClosed(s) \/ FirstDefault(s) \/ DoneClosed(s) \/ GiveUp(s)
         \/ SendOnClosed(s) \/ QueueFull(s)
  PROVE  IInv'
<1>1. /\ UNCHANGED <<started, closed, done, chClosed, jobs, worker, hand, handled,
                     stop, once, accepted>>
      /\ submit[s] # "out"
      /\ \/ \E to \in {"select1", "select2"} :
              submit' = [submit EXCEPT ![s] = to] /\ arg' = arg
         \/ submit' = [submit EXCEPT ![s] = "out"] /\ arg' = [arg EXCEPT ![s] = None]
  BY DEF CheckClosed, FirstDefault, DoneClosed, GiveUp, SendOnClosed, QueueFull, SubmitStep,
     SubmitReturn, startVars, flagVars, workVars, stopVars
<1>2. TypeOK'
  BY <1>1 DEF IInv, TypeOK
<1>3. NoJobLost' /\ BusyHand' /\ GoneLast' /\ OverLast'
  BY <1>1 DEF IInv, NoJobLost, BusyHand, GoneLast, OverLast, Queued, InHand, Stopped
<1>4. ArgFresh'
  <2>1. \A r \in Submitter : r # s => submit'[r] = submit[r] /\ arg'[r] = arg[r]
    BY <1>1 DEF IInv, TypeOK
  <2>2. \/ submit'[s] # "out" /\ arg'[s] = arg[s]
        \/ submit'[s] = "out" /\ arg'[s] = None
    BY <1>1 DEF IInv, TypeOK
  <2> QED
    BY <1>1, <2>1, <2>2 DEF IInv, ArgFresh
<1> QED
  BY <1>2, <1>3, <1>4 DEF IInv

LEMMA SendIInv ==
  ASSUME IInv, NEW s \in Submitter, Send(s) PROVE IInv'
<1> DEFINE j == arg[s]
<1>1. /\ ~chClosed /\ Len(jobs) < QueueSize /\ submit[s] = "select2"
      /\ submit' = [submit EXCEPT ![s] = "out"] /\ arg' = [arg EXCEPT ![s] = None]
      /\ jobs' = Append(jobs, j) /\ accepted' = accepted \cup {j}
      /\ UNCHANGED <<started, closed, done, chClosed, worker, hand, handled, stop, once>>
  BY DEF Send, SubmitReturn, SubmitStep, startVars, flagVars, workVars, stopVars
<1>2. j \in Job \ accepted
  BY <1>1 DEF IInv, ArgFresh
<1>3. /\ jobs' \in Seq(Job) /\ DOMAIN jobs' = DOMAIN jobs \cup {Len(jobs) + 1}
      /\ Len(jobs) + 1 \notin DOMAIN jobs
      /\ \A i \in DOMAIN jobs : jobs'[i] = jobs[i]
      /\ jobs'[Len(jobs) + 1] = j
  BY <1>1, <1>2, AppendElements DEF IInv, TypeOK
<1>4. TypeOK'
  <2>1. Len(jobs') <= QueueSize
    BY <1>1, <1>2, PoolAssumption DEF IInv, TypeOK
  <2> QED
    BY <1>1, <1>2, <1>3, <2>1 DEF IInv, TypeOK
<1>5. Queued' = Queued \cup {j} /\ InHand' = InHand
  BY <1>1, <1>3 DEF Queued, InHand
<1>6. \A i, k \in DOMAIN jobs' : jobs'[i] = jobs'[k] => i = k
  <2>1. \A i \in DOMAIN jobs : jobs[i] # j
    BY <1>2 DEF IInv, NoJobLost, Queued
  <2> QED
    BY <1>3, <2>1 DEF IInv, NoJobLost
<1>7. NoJobLost'
  BY <1>1, <1>2, <1>5, <1>6 DEF IInv, NoJobLost
<1>8. ArgFresh'
  <2>1. /\ submit'[s] = "out" /\ arg'[s] = None
        /\ \A r \in Submitter : r # s => submit'[r] = submit[r] /\ arg'[r] = arg[r]
    BY <1>1 DEF IInv, TypeOK
  <2>2. j # None
    BY <1>2, PoolAssumption
  <2>3. \A r \in Submitter : r # s => arg[r] # j
    BY <2>2 DEF IInv, ArgFresh
  <2> QED
    BY <1>1, <2>1, <2>3 DEF IInv, ArgFresh
<1>9. BusyHand' /\ GoneLast' /\ OverLast'
  BY <1>1 DEF IInv, BusyHand, GoneLast, OverLast, Stopped
<1> QED
  BY <1>4, <1>7, <1>8, <1>9 DEF IInv

(***************************************************************************)
(* Start and Stop.                                                         *)
(***************************************************************************)
LEMMA StartIInv == ASSUME IInv, Start PROVE IInv'
<1>1. /\ started' = TRUE
      /\ UNCHANGED <<closed, done, chClosed, jobs, worker, hand, handled, submit, arg,
                     stop, once, accepted>>
  BY DEF Start, flagVars, workVars, submitVars, stopVars
<1>2. TypeOK'
  BY <1>1 DEF IInv, TypeOK
<1>3. NoJobLost'
  BY <1>1 DEF IInv, NoJobLost, Queued, InHand
<1>4. ArgFresh' /\ BusyHand' /\ GoneLast' /\ OverLast'
  BY <1>1 DEF IInv, ArgFresh, BusyHand, GoneLast, OverLast, Stopped
<1> QED
  BY <1>2, <1>3, <1>4 DEF IInv

LEMMA StopIInv ==
  ASSUME IInv, NEW s \in Stopper, CallStop(s) \/ StopNext(s) PROVE IInv'
<1>1. /\ UNCHANGED <<started, jobs, worker, hand, handled, submit, arg, accepted>>
      /\ chClosed => chClosed'
  BY DEF CallStop, StopNext, EnterOnce, PassOnce, StoreClosed, CloseDone, CloseJobs, WaitWorkers,
     StopStep, startVars, flagVars, workVars, submitVars
<1>2. /\ closed' \in BOOLEAN /\ done' \in BOOLEAN /\ chClosed' \in BOOLEAN
      /\ once' \in {"fresh", "running", "over"}
      /\ \E to \in {"once", "store", "done", "jobs", "wait", "back"} :
           stop' = [stop EXCEPT ![s] = to]
  BY DEF CallStop, StopNext, EnterOnce, PassOnce, StoreClosed, CloseDone, CloseJobs, WaitWorkers,
     StopStep, flagVars, IInv, TypeOK
<1>3. TypeOK'
  BY <1>1, <1>2 DEF IInv, TypeOK
<1>4. NoJobLost' /\ ArgFresh' /\ BusyHand'
  BY <1>1 DEF IInv, NoJobLost, ArgFresh, BusyHand, Queued, InHand
<1>5. GoneLast'
  BY <1>1 DEF IInv, GoneLast
<1>6. OverLast'
  <2>1. CASE PassOnce(s) \/ WaitWorkers(s)
    <3>1. \A w \in Worker : worker[w] = "gone"
      BY <2>1 DEF PassOnce, WaitWorkers, IInv, OverLast
    <3> QED
      BY <1>1, <3>1 DEF OverLast
  <2>2. CASE ~(PassOnce(s) \/ WaitWorkers(s))
    <3>1. \E to \in {"once", "store", "done", "jobs", "wait"} :
            stop' = [stop EXCEPT ![s] = to]
      BY <2>2 DEF CallStop, StopNext, EnterOnce, StoreClosed, CloseDone, CloseJobs, StopStep
    <3>2. once' = "over" => once = "over"
      BY <2>2 DEF CallStop, StopNext, EnterOnce, StoreClosed, CloseDone, CloseJobs
    <3>3. Stopped' => Stopped
      BY <3>1 DEF Stopped, IInv, TypeOK
    <3> QED
      BY <1>1, <3>2, <3>3 DEF IInv, OverLast
  <2> QED
    BY <2>1, <2>2
<1> QED
  BY <1>3, <1>4, <1>5, <1>6 DEF IInv

LEMMA NextIInv == IInv /\ [Next]_vars => IInv'
<1> SUFFICES ASSUME IInv, [Next]_vars PROVE IInv'
  OBVIOUS
<1>1. CASE UNCHANGED vars
  <2> USE <1>1 DEF vars
  <2>1. TypeOK'
    BY DEF IInv, TypeOK
  <2>2. Queued' = Queued /\ InHand' = InHand /\ Stopped' = Stopped
    BY DEF Queued, InHand, Stopped
  <2>3. NoJobLost' /\ ArgFresh' /\ BusyHand'
    BY <2>2 DEF IInv, NoJobLost, ArgFresh, BusyHand
  <2>4. GoneLast' /\ OverLast'
    BY <2>2 DEF IInv, GoneLast, OverLast
  <2> QED
    BY <2>1, <2>3, <2>4 DEF IInv
<1>2. CASE Start
  BY <1>2, StartIInv
<1>3. ASSUME NEW w \in Worker, WorkerNext(w) PROVE IInv'
  BY <1>3, SpawnIInv, TakeIInv, FinishIInv, ExitIInv DEF WorkerNext
<1>4. ASSUME NEW s \in Submitter, SubmitNext(s) \/ GiveUp(s) PROVE IInv'
  BY <1>4, SubmitQuietIInv, SendIInv DEF SubmitNext
<1>5. ASSUME NEW s \in Submitter, NEW j \in Job, CallSubmit(s, j) PROVE IInv'
  BY <1>5, CallSubmitIInv
<1>6. ASSUME NEW s \in Stopper, CallStop(s) \/ StopNext(s) PROVE IInv'
  BY <1>6, StopIInv
<1> QED
  BY <1>1, <1>2, <1>3, <1>4, <1>5, <1>6 DEF Next

\* Every state of the pool satisfies the inductive invariant.
THEOREM Invariant == Spec => []IInv
BY InitIInv, NextIInv, PTL DEF Spec

\* Every variable keeps its type, and the channel of jobs never holds more than its
\* capacity (pool.go:23-31).
THEOREM TypeCorrect == Spec => []TypeOK
<1>1. IInv => TypeOK
  BY DEF IInv
<1> QED
  BY <1>1, Invariant, PTL

\* No job that Submit accepted is lost, duplicated or handled twice, however
\* Submit, Stop and the workers interleave (pool.go:79-134).
THEOREM NoJobIsLost == Spec => []NoJobLost
<1>1. IInv => NoJobLost
  BY DEF IInv
<1> QED
  BY <1>1, Invariant, PTL

LEMMA AllGoneDrained ==
  ASSUME IInv, \A w \in Worker : worker[w] = "gone" PROVE accepted = handled
<1>1. jobs = <<>>
  BY PoolAssumption DEF IInv, GoneLast
<1>2. Queued = {}
  BY <1>1 DEF Queued
<1>3. InHand = {}
  BY DEF IInv, BusyHand, InHand
<1> QED
  BY <1>2, <1>3 DEF IInv, NoJobLost

\* When a call of Stop has returned, to whichever caller, the pool is drained.
THEOREM StopDrains == Spec => []StoppedDrained
<1>1. IInv => StoppedDrained
  BY AllGoneDrained DEF StoppedDrained, IInv, OverLast
<1> QED
  BY <1>1, Invariant, PTL

\* The pool implements JobQueue: every step of it is a step of the queue it promises.
THEOREM PoolImplementsQueue == Spec => ImplementsQueue
<1>1. Init => Queue!Init
  BY DEF Init, Queue!Init, Stopped
<1>2. IInv /\ [Next]_vars => [Queue!Next]_(Queue!qvars)
  <2> SUFFICES ASSUME IInv, [Next]_vars PROVE [Queue!Next]_(Queue!qvars)
    OBVIOUS
  <2> USE DEF Queue!qvars
  <2>1. CASE UNCHANGED <<accepted, handled, stop>>
    BY <2>1 DEF Stopped
  <2>2. ASSUME NEW w \in Worker, Finish(w) PROVE Queue!Next
    <3>1. hand[w] \in InHand /\ hand[w] \in Job
      BY <2>2 DEF Finish, IInv, TypeOK, BusyHand, InHand
    <3>2. Queue!Handle(hand[w])
      BY <2>2, <3>1 DEF Queue!Handle, Finish, IInv, NoJobLost, stopVars, Stopped
    <3> QED
      BY <3>1, <3>2 DEF Queue!Next
  <2>3. ASSUME NEW s \in Submitter, Send(s) PROVE Queue!Next
    <3>1. arg[s] \in Job \ accepted
      BY <2>3 DEF Send, SubmitReturn, SubmitStep, IInv, ArgFresh
    <3>2. ~Stopped
      BY <2>3, PoolAssumption DEF Send, IInv, OverLast, GoneLast
    <3>3. Queue!Accept(arg[s])
      BY <2>3, <3>1, <3>2 DEF Queue!Accept, Send, SubmitReturn, SubmitStep, workVars, stopVars, Stopped
    <3> QED
      BY <3>1, <3>3 DEF Queue!Next
  <2>4. ASSUME NEW s \in Stopper, CallStop(s) \/ StopNext(s) PROVE [Queue!Next]_(Queue!qvars)
    <3>1. accepted' = accepted /\ handled' = handled
      BY <2>4 DEF CallStop, StopNext, EnterOnce, PassOnce, StoreClosed, CloseDone, CloseJobs,
         WaitWorkers, StopStep, workVars
    <3>2. Stopped => Stopped'
      BY <2>4 DEF CallStop, StopNext, EnterOnce, PassOnce, StoreClosed, CloseDone, CloseJobs,
         WaitWorkers, StopStep, Stopped, IInv, TypeOK
    <3>3. ~Stopped /\ Stopped' => accepted = handled
      <4>1. IInv'
        BY <2>4, StopIInv
      <4>2. worker' = worker
        BY <2>4 DEF CallStop, StopNext, EnterOnce, PassOnce, StoreClosed, CloseDone, CloseJobs,
           WaitWorkers, StopStep, workVars
      <4> QED
        BY <4>1, <4>2, AllGoneDrained DEF IInv, OverLast
    <3>4. Stopped \in BOOLEAN /\ Stopped' \in BOOLEAN
      BY DEF Stopped
    <3>5. CASE ~Stopped /\ Stopped'
      BY <3>1, <3>3, <3>5 DEF Queue!Next, Queue!Stop
    <3>6. CASE Stopped <=> Stopped'
      BY <3>1, <3>6
    <3> QED
      BY <3>2, <3>5, <3>6
  <2>5. CASE Next
    BY <2>1, <2>2, <2>3, <2>4, <2>5 DEF Next, WorkerNext, SubmitNext, Start, Spawn, Take, Exit,
       CallSubmit, CheckClosed, FirstDefault, DoneClosed, GiveUp, SendOnClosed, QueueFull,
       SubmitStep, SubmitReturn, workVars, stopVars
  <2> QED
    BY <2>1, <2>5 DEF vars
<1> QED
  BY <1>1, <1>2, Invariant, PTL DEF Spec, ImplementsQueue, Queue!Spec
=============================================================================
