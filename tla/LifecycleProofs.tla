-------------------------- MODULE LifecycleProofs --------------------------
(***************************************************************************)
(* What Lifecycle guarantees for every number of restarts, tasks and       *)
(* handlers, in both storage modes.                                        *)
(***************************************************************************)
EXTENDS Lifecycle, TLAPS

(***************************************************************************)
(* Steps of a component.  They leave main alone, and only lessen the work  *)
(* of a component that takes no more.                                      *)
(***************************************************************************)
Fades(r, s) ==
  /\ s \in CompRec
  /\ s.open = r.open /\ s.disabled = r.disabled /\ s.poolOpen = r.poolOpen
  /\ s.snapStop = r.snapStop /\ s.closed = r.closed
  /\ s.loop => r.loop
  /\ r.snap \in {"none", "gone"} => s.snap = r.snap
  /\ (r.disabled \/ ~r.poolOpen) /\ r.jobs = {} /\ r.run = {} => s.jobs = {} /\ s.run = {}

MainAlone == UNCHANGED <<mode, main, hups, hup, term, serving, holder, lock, newest>>

LEMMA FadesIInv ==
  ASSUME IInv, MainAlone, NEW c \in Built,
         comp' = [comp EXCEPT ![c] = comp'[c]],
         Fades(comp[c], comp'[c]),
         status' \in [Task -> FileStatus \cup {None}],
         handler' \in [Handler -> HandlerRec],
         \A g \in Readers' : g \in Readers /\ handler'[g] = handler[g]
  PROVE  IInv'
<1> USE DEF MainAlone
<1>1. comp \in [Comp -> CompRec \cup {None}] /\ Built' = Built /\ Built \subseteq Comp
  BY LifecycleAssumption DEF IInv, TypeOK, Built, Comp
<1>2. comp'[c] \in CompRec
  BY DEF Fades
<1>3. \A d \in Built : comp[d] \in CompRec /\ comp'[d] \in CompRec /\ Fades(comp[d], comp'[d])
  BY <1>1, <1>2 DEF IInv, Fades
<1>4. TypeOK'
  BY <1>1, <1>2 DEF IInv, TypeOK
<1>5. main.at \in Stopping => newest \in Built
  BY DEF IInv, Current, TypeOK, Built
<1>6. Stopped'
  <2>1. main.at \in Stopping => Fades(comp[newest], comp'[newest])
    BY <1>3, <1>5
  <2>2. ASSUME main.at \in Stopping PROVE Stopped'
    BY <2>1, <2>2 DEF IInv, Stopped, Stopping, Fades
  <2> QED
    BY <2>2 DEF Stopped, Stopping
<1>7. Current'
  BY DEF IInv, Current, Restarting
<1>8. OnlyNewest'
  BY <1>1, <1>3 DEF IInv, OnlyNewest, Fades
<1>9. LockedOut'
  BY <1>1 DEF IInv, LockedOut
<1>10. ResetStop'
  BY <1>1, <1>3 DEF IInv, ResetStop, Fades
<1>11. NoPanic'
  BY DEF IInv, NoPanic
<1>12. ClosedIdle'
  <2> SUFFICES ASSUME NEW d \in Built, ~comp'[d].open PROVE Ended(comp'[d])
    BY <1>1 DEF ClosedIdle
  <2>1. Fades(comp[d], comp'[d]) /\ ~comp[d].open
    BY <1>3 DEF Fades
  <2>2. Ended(comp[d]) /\ comp[d].disabled
    BY <2>1 DEF IInv, ClosedIdle, OnlyNewest
  <2> QED
    BY <2>1, <2>2, <1>3 DEF Fades, Ended, CompRec
<1> QED
  BY <1>1, <1>3, <1>4, <1>6, <1>7, <1>8, <1>9, <1>10, <1>11, <1>12 DEF IInv

LEMMA ComponentIInv ==
  ASSUME IInv, NEW c \in Built, ComponentNext(c)
  PROVE  IInv'
<1>1. c \in Comp /\ comp[c] \in CompRec /\ comp \in [Comp -> CompRec \cup {None}]
  BY LifecycleAssumption DEF IInv, TypeOK, Built, Comp
<1>2. /\ status \in [Task -> FileStatus \cup {None}]
      /\ UNCHANGED handler => /\ handler' \in [Handler -> HandlerRec]
                              /\ Readers' = Readers
                              /\ \A g \in Readers : handler'[g] = handler[g]
  BY DEF IInv, TypeOK, Readers
<1>3. ASSUME NEW to \in {"waits", "deaf", "flush", "top", "gone"},
             comp[c].snap \notin {"none", "gone"},
             Background(c), Set(c, [comp[c] EXCEPT !.snap = to]), UNCHANGED status
      PROVE  IInv'
  <2>1. comp'[c] = [comp[c] EXCEPT !.snap = to]
    BY <1>1, <1>3 DEF Set
  <2>2. Fades(comp[c], comp'[c])
    BY <1>1, <1>3, <2>1 DEF Fades, CompRec, SnapAt
  <2>3. comp' = [comp EXCEPT ![c] = comp'[c]]
    BY <1>1, <1>3, <2>1 DEF Set
  <2> QED
    BY <1>2, <1>3, <2>2, <2>3, FadesIInv DEF Background, MainAlone
<1>4. ASSUME SnapRead(c) PROVE IInv'
  BY <1>3, <1>4 DEF SnapRead
<1>5. ASSUME SnapTick(c) PROVE IInv'
  BY <1>3, <1>5 DEF SnapTick
<1>6. ASSUME SnapFlushed(c) PROVE IInv'
  BY <1>3, <1>6 DEF SnapFlushed
<1>7. ASSUME SnapExit(c) PROVE IInv'
  BY <1>3, <1>7 DEF SnapExit
<1>8. ASSUME RetryExit(c) PROVE IInv'
  <2>1. comp'[c] = [comp[c] EXCEPT !.loop = FALSE]
    BY <1>1, <1>8 DEF RetryExit, Set
  <2>2. Fades(comp[c], comp'[c])
    BY <1>1, <2>1 DEF Fades, CompRec
  <2>3. comp' = [comp EXCEPT ![c] = comp'[c]]
    BY <1>1, <1>8, <2>1 DEF RetryExit, Set
  <2> QED
    BY <1>2, <1>8, <2>2, <2>3, FadesIInv DEF RetryExit, Background, MainAlone
<1>9. ASSUME NEW t \in Task, RetryTick(c, t) PROVE IInv'
  <2>1. PICK taken \in SUBSET Task, marked \in SUBSET Task : t \in taken /\ Submits(c, Task, taken, marked)
    BY <1>9 DEF RetryTick
  <2>2. comp'[c] = [comp[c] EXCEPT !.jobs = @ \cup taken]
    BY <1>1, <2>1 DEF Submits
  <2>3. Fades(comp[c], comp'[c])
    BY <1>1, <2>1, <2>2 DEF Fades, CompRec, Submits
  <2>4. comp' = [comp EXCEPT ![c] = comp'[c]]
    BY <1>1, <2>1, <2>2 DEF Submits
  <2>5. status' \in [Task -> FileStatus \cup {None}]
    BY <1>2, <2>1 DEF Submits, FileStatus
  <2> QED
    BY <1>2, <1>9, <2>3, <2>4, <2>5, FadesIInv DEF RetryTick, Background, MainAlone
<1>10. ASSUME NEW t \in Task, Start(c, t) PROVE IInv'
  <2>1. /\ t \in comp[c].jobs
        /\ \E run \in {comp[c].run, comp[c].run \cup {t}} :
             comp' = [comp EXCEPT ![c] = [comp[c] EXCEPT !.jobs = @ \ {t}, !.run = run]]
    BY <1>1, <1>10 DEF Start, Set, CompRec
  <2>2. PICK run \in SUBSET Task :
          comp' = [comp EXCEPT ![c] = [comp[c] EXCEPT !.jobs = @ \ {t}, !.run = run]]
    BY <1>1, <2>1 DEF CompRec
  <2>3. comp'[c] = [comp[c] EXCEPT !.jobs = @ \ {t}, !.run = run]
    BY <1>1, <2>2
  <2>4. Fades(comp[c], comp'[c])
    <3>1. comp'[c] \in CompRec
      BY <1>1, <2>3 DEF CompRec
    <3>2. comp'[c].jobs = comp[c].jobs \ {t} /\ comp[c].jobs # {}
      BY <1>1, <2>1, <2>3 DEF CompRec
    <3> QED
      BY <1>1, <2>3, <3>1, <3>2 DEF Fades, CompRec
  <2>5. comp' = [comp EXCEPT ![c] = comp'[c]]
    BY <2>2, <2>3
  <2>6. status' \in [Task -> FileStatus \cup {None}]
    BY <1>2, <1>10 DEF Start, FileStatus
  <2> QED
    BY <1>2, <1>10, <2>4, <2>5, <2>6, FadesIInv DEF Start, Background, MainAlone
<1>11. ASSUME NEW t \in Task, End(c, t) PROVE IInv'
  <2>1. comp'[c] = [comp[c] EXCEPT !.run = @ \ {t}]
    BY <1>1, <1>11 DEF End, Set
  <2>2. Fades(comp[c], comp'[c])
    BY <1>1, <2>1 DEF Fades, CompRec
  <2>3. comp' = [comp EXCEPT ![c] = comp'[c]]
    BY <1>1, <1>11, <2>1 DEF End, Set
  <2>4. status' \in [Task -> FileStatus \cup {None}]
    BY <1>2, <1>11 DEF End, Finished, FileStatus
  <2> QED
    BY <1>2, <1>11, <2>2, <2>3, <2>4, FadesIInv DEF End, Background, MainAlone
<1> QED
  BY <1>4, <1>5, <1>6, <1>7, <1>8, <1>9, <1>10, <1>11 DEF ComponentNext

(***************************************************************************)
(* Steps of the handlers.                                                  *)
(***************************************************************************)
LEMMA HandlerIInv ==
  ASSUME IInv, NEW h \in Handler, HandlerNext(h) \/ \E t \in Task : Post(h, t)
  PROVE  IInv'
<1>1. /\ comp \in [Comp -> CompRec \cup {None}] /\ Built \subseteq Comp
      /\ status \in [Task -> FileStatus \cup {None}]
      /\ holder \in Comp \cup {None}
  BY LifecycleAssumption DEF IInv, TypeOK, Built, Comp
<1>2. Idle \in HandlerRec /\ Idle.at \notin {"creating", "enqueuing"}
  BY DEF Idle, HandlerRec
\* A handler that moves, and the components and statuses stay.
<1>3. ASSUME NEW from, NEW new \in HandlerRec,
             HandlerStep(h, from, new),
             new.at \in {"creating", "enqueuing"} =>
               lock = "free" /\ holder # None /\ new.comp = holder,
             UNCHANGED comp, status' \in [Task -> FileStatus \cup {None}]
      PROVE  IInv'
  <2> USE DEF HandlerStep
  <2>1. Built' = Built
    BY <1>3 DEF Built
  <2>2. TypeOK'
    BY <1>3 DEF IInv, TypeOK
  <2>3. Readers' \subseteq Readers \cup {h} /\ (new.at \notin {"creating", "enqueuing"} => Readers' \subseteq Readers)
    BY <1>3 DEF IInv, TypeOK, Readers
  <2>4. \A g \in Readers' : handler'[g].comp \in Built
    <3> SUFFICES ASSUME NEW g \in Readers' PROVE handler'[g].comp \in Built
      OBVIOUS
    <3>1. CASE g # h
      BY <1>3, <2>3, <3>1 DEF IInv, TypeOK, LockedOut
    <3>2. CASE g = h
      <4>1. handler'[h] = new /\ new.at \in {"creating", "enqueuing"}
        BY <1>3, <3>2 DEF IInv, TypeOK, Readers
      <4>2. holder = newest /\ newest \in Built
        BY <1>3, <4>1, LifecycleAssumption DEF IInv, Current, TypeOK, Built, Comp
      <4> QED
        BY <1>3, <3>2, <4>1, <4>2
    <3> QED
      BY <3>1, <3>2
  <2>5. LockedOut'
    BY <1>3, <2>1, <2>3, <2>4 DEF IInv, LockedOut
  <2>6. Stopped' /\ Current' /\ OnlyNewest' /\ ResetStop' /\ NoPanic' /\ ClosedIdle'
    BY <1>3, <2>1 DEF IInv, Stopped, Current, Restarting, OnlyNewest, ResetStop, NoPanic, ClosedIdle
  <2> QED
    BY <1>3, <2>1, <2>2, <2>5, <2>6 DEF IInv
<1>4. ASSUME NEW t \in Task, Post(h, t) PROVE IInv'
  <2> DEFINE new == [at |-> "creating", comp |-> holder, task |-> t]
  <2>1. new \in HandlerRec /\ new.comp = holder
    BY <1>1 DEF HandlerRec
  <2>2. /\ HandlerStep(h, "idle", new)
        /\ lock = "free" /\ holder # None
        /\ UNCHANGED comp /\ status' = status
    BY <1>4 DEF Post
  <2> HIDE DEF new
  <2> QED
    BY <1>1, <1>3, <2>1, <2>2
<1>5. handler[h] \in HandlerRec
  BY DEF IInv, TypeOK
<1>6. ASSUME Create(h) PROVE IInv'
  <2> DEFINE new == [handler[h] EXCEPT !.at = "created", !.comp = None]
  <2>1. new \in HandlerRec /\ new.at \notin {"creating", "enqueuing"}
    BY <1>5 DEF HandlerRec
  <2>2. /\ HandlerStep(h, "creating", new)
        /\ UNCHANGED comp /\ status' \in [Task -> FileStatus \cup {None}]
    BY <1>1, <1>6 DEF Create, FileStatus
  <2> HIDE DEF new
  <2> QED
    BY <1>3, <2>1, <2>2
<1>7. ASSUME CreateFails(h) PROVE IInv'
  <2>1. HandlerStep(h, "creating", Idle) /\ UNCHANGED comp /\ status' = status
    BY <1>7 DEF CreateFails
  <2> QED
    BY <1>1, <1>2, <1>3, <2>1
<1>8. ASSUME BeginEnqueue(h) PROVE IInv'
  <2>1. CASE holder = None
    BY <1>1, <1>2, <1>3, <1>8, <2>1 DEF BeginEnqueue
  <2>2. CASE holder # None
    <3> DEFINE new == [handler[h] EXCEPT !.at = "enqueuing", !.comp = holder]
    <3>1. new \in HandlerRec /\ new.comp = holder
      BY <1>1, <1>5, <2>2 DEF HandlerRec
    <3>2. /\ HandlerStep(h, "created", new) /\ lock = "free"
          /\ UNCHANGED comp /\ status' = status
      BY <1>8, <2>2 DEF BeginEnqueue
    <3> HIDE DEF new
    <3> QED
      BY <1>1, <1>3, <2>2, <3>1, <3>2
  <2> QED
    BY <2>1, <2>2
<1>9. ASSUME Enqueue(h) PROVE IInv'
  <2> DEFINE c == handler[h].comp
  <2>1. PICK taken \in SUBSET {handler[h].task}, marked \in SUBSET {handler[h].task} :
          Submits(c, {handler[h].task}, taken, marked)
    BY <1>9 DEF Enqueue
  <2>2. h \in Readers /\ c \in Built
    BY <1>9 DEF Enqueue, HandlerStep, Readers, IInv, LockedOut
  <2>3. c \in Comp /\ comp[c] \in CompRec
    BY <1>1, <2>2 DEF IInv
  <2>4. taken \subseteq Task
    BY <2>1 DEF Submits, Waiting
  <2>5. comp'[c] = [comp[c] EXCEPT !.jobs = @ \cup taken]
    BY <1>1, <2>1, <2>3 DEF Submits
  <2>6. Fades(comp[c], comp'[c])
    BY <2>1, <2>3, <2>4, <2>5 DEF Fades, CompRec, Submits
  <2>7. comp' = [comp EXCEPT ![c] = comp'[c]]
    BY <1>1, <2>1, <2>5 DEF Submits
  <2>8. status' \in [Task -> FileStatus \cup {None}]
    BY <1>1, <2>1 DEF Submits, FileStatus
  <2>9. handler' = [handler EXCEPT ![h] = Idle] /\ MainAlone
    BY <1>9 DEF Enqueue, HandlerStep, MainAlone
  <2>10. handler' \in [Handler -> HandlerRec]
    BY <1>2, <2>9 DEF IInv, TypeOK
  <2>11. \A g \in Readers' : g \in Readers /\ handler'[g] = handler[g]
    BY <2>9 DEF IInv, TypeOK, Readers, Idle
  <2> QED
    BY <2>2, <2>6, <2>7, <2>8, <2>9, <2>10, <2>11, FadesIInv
<1> QED
  BY <1>4, <1>6, <1>7, <1>8, <1>9 DEF HandlerNext

(***************************************************************************)
(* Steps of the main goroutine.                                            *)
(***************************************************************************)
\* Main takes down the newest component, one step after the other.
LEMMA Main ==
  ASSUME IInv, main.at \in Stopping
  PROVE  /\ main.comp = newest /\ newest \in Built /\ newest \in Comp
         /\ comp[newest] \in CompRec
         /\ main.why \in {"restart", "exit"}
BY LifecycleAssumption DEF IInv, TypeOK, Current, Built, Comp

\* What a step of taking it down has to see to.
LEMMA StopIInv ==
  ASSUME IInv, main.at \in Stopping,
         main'.at \in Stopping \cup {"build", "down"},
         main' = [main EXCEPT !.at = main'.at],
         main'.at = "build" => main.why = "restart",
         comp' = [comp EXCEPT ![newest] = comp'[newest]],
         comp'[newest] \in CompRec,
         UNCHANGED <<mode, hups, hup, term, holder, newest, status, handler>>,
         serving' \in BOOLEAN, lock' \in {"free", "pending", "held"},
         comp'[newest].open => comp[newest].open /\ main'.at # "build",
         ~comp'[newest].open => /\ Ended(comp'[newest])
                                /\ comp'[newest].disabled /\ ~comp'[newest].poolOpen,
         comp'[newest].snapStop = "chan" => ~comp'[newest].closed,
         Stopped', LockedOut'
  PROVE  IInv'
<1>1. /\ main.comp = newest /\ newest \in Comp /\ newest \in Built /\ Built' = Built
      /\ Built \subseteq Comp
      /\ main.why \in {"restart", "exit"}
      /\ comp \in [Comp -> CompRec \cup {None}]
      /\ main \in [at : MainAt, why : {"start", "restart", "exit"}, comp : Comp \cup {None}]
  BY Main, LifecycleAssumption DEF IInv, TypeOK, Built, Comp
<1>2. comp'[newest] \in CompRec /\ \A d \in Built \ {newest} : comp'[d] = comp[d]
  BY <1>1
<1>3. main'.why = main.why /\ main'.comp = newest
  BY <1>1
<1>4. TypeOK'
  <2>1. main' \in [at : MainAt, why : {"start", "restart", "exit"}, comp : Comp \cup {None}]
    BY <1>1 DEF MainAt
  <2>2. main'.comp \in 1..newest'
    BY <1>1, <1>3 DEF Built
  <2> QED
    BY <1>1, <2>1, <2>2 DEF IInv, TypeOK
<1>5. \A d \in Built : comp'[d] \in CompRec
  BY <1>2 DEF IInv
<1>6. Current'
  BY <1>1, <1>3 DEF IInv, TypeOK, Current, Restarting, Stopping
<1>7. OnlyNewest'
  <2>1. \A d \in Built \ {newest} : ~comp[d].open
    BY DEF IInv, OnlyNewest
  <2> QED
    BY <1>1, <1>2, <1>3, <2>1 DEF IInv, OnlyNewest
<1>8. ResetStop'
  BY <1>1, <1>2 DEF IInv, ResetStop
<1>9. NoPanic'
  BY <1>3 DEF NoPanic, Stopping
<1>10. ClosedIdle'
  BY <1>1, <1>2 DEF IInv, ClosedIdle
<1> QED
  BY <1>1, <1>4, <1>5, <1>6, <1>7, <1>8, <1>9, <1>10 DEF IInv


\* The steps from stopNewDownloads to closeStore.
LEMMA StopSteps ==
  ASSUME IInv,
         \/ Disable \/ Cancel \/ ClosePool \/ Drained \/ Locked \/ Shutdown
         \/ StopSnapshot \/ SnapshotStopped \/ CloseStore
  PROVE  IInv'
<1> DEFINE rec == comp[newest]
           new == comp'[newest]
<1>1. /\ main \in [at : MainAt, why : {"start", "restart", "exit"}, comp : Comp \cup {None}]
      /\ comp \in [Comp -> CompRec \cup {None}]
      /\ lock \in {"free", "pending", "held"} /\ serving \in BOOLEAN
      /\ \A d \in Built : comp[d] \in CompRec
  BY DEF IInv, TypeOK
<1>2. main.at \in Stopping
  BY DEF MainStep, Disable, Cancel, ClosePool, Drained, Locked, Shutdown,
         StopSnapshot, SnapshotStopped, CloseStore, Stopping
<1>3. /\ main.comp = newest /\ newest \in Built /\ newest \in Comp
      /\ rec \in CompRec
      /\ main.why \in {"restart", "exit"}
  BY <1>2, Main
<1>4. /\ rec.snapStop = "chan" => ~rec.closed
      /\ ~rec.open => Ended(rec) /\ rec.disabled /\ ~rec.poolOpen
      /\ comp = [comp EXCEPT ![newest] = rec]
  BY <1>1, <1>3 DEF IInv, ResetStop, OnlyNewest, ClosedIdle
<1>5. CASE Disable
  <2>1. /\ main' = [main EXCEPT !.at = "cancel"]
        /\ UNCHANGED <<mode, hups, hup, term, holder, newest, status, handler>>
        /\ comp' = [comp EXCEPT ![newest] = [rec EXCEPT !.disabled = TRUE]]
    BY <1>3, <1>4, <1>5 DEF Disable, MainStep, Set, KeepHolder
  <2>2. /\ main'.at = "cancel" /\ main' = [main EXCEPT !.at = main'.at]
        /\ main'.why = main.why
        /\ new = [rec EXCEPT !.disabled = TRUE] /\ comp' = [comp EXCEPT ![newest] = new]
    BY <1>1, <1>3, <2>1
  <2>3. /\ new \in CompRec /\ new.open = rec.open
        /\ ~new.open => Ended(new) /\ new.disabled /\ ~new.poolOpen
        /\ new.snapStop = "chan" => ~new.closed
    <3>1. new \in CompRec
      BY <1>3, <2>2 DEF CompRec
    <3>2. new.open = rec.open /\ (new.snapStop = "chan" => ~new.closed)
      BY <1>3, <1>4, <2>2 DEF CompRec
    <3>3. ~rec.open => Ended(new) /\ new.disabled /\ ~new.poolOpen
      BY <1>3, <1>4, <2>2 DEF CompRec, Ended
    <3> QED
      BY <3>1, <3>2, <3>3
  <2>4. /\ serving' \in BOOLEAN /\ lock' \in {"free", "pending", "held"}
    BY <1>1, <1>5 DEF Disable, KeepHolder
  <2>5. Stopped'
    BY <1>3, <1>5, <2>1, <2>2 DEF IInv, Stopped, Stopping, Disable, MainStep, CompRec
  <2>6. LockedOut'
    BY <1>3, <1>5, <2>1, <2>2 DEF IInv, LockedOut, Stopping, Disable, MainStep, KeepHolder, Readers, Built
  <2> QED
    BY <1>2, <2>1, <2>2, <2>3, <2>4, <2>5, <2>6, StopIInv DEF Stopping
<1>6. CASE Cancel
  <2>1. /\ main' = [main EXCEPT !.at = "waitRetry"]
        /\ UNCHANGED <<mode, hups, hup, term, holder, newest, status, handler>>
        /\ comp' = [comp EXCEPT ![newest] = [rec EXCEPT !.cancelled = TRUE]]
    BY <1>3, <1>4, <1>6 DEF Cancel, MainStep, Set, KeepHolder
  <2>2. /\ main'.at = "waitRetry" /\ main' = [main EXCEPT !.at = main'.at]
        /\ main'.why = main.why
        /\ new = [rec EXCEPT !.cancelled = TRUE] /\ comp' = [comp EXCEPT ![newest] = new]
    BY <1>1, <1>3, <2>1
  <2>3. /\ new \in CompRec /\ new.open = rec.open
        /\ ~new.open => Ended(new) /\ new.disabled /\ ~new.poolOpen
        /\ new.snapStop = "chan" => ~new.closed
    <3>1. new \in CompRec
      BY <1>3, <2>2 DEF CompRec
    <3>2. new.open = rec.open /\ (new.snapStop = "chan" => ~new.closed)
      BY <1>3, <1>4, <2>2 DEF CompRec
    <3>3. ~rec.open => Ended(new) /\ new.disabled /\ ~new.poolOpen
      BY <1>3, <1>4, <2>2 DEF CompRec, Ended
    <3> QED
      BY <3>1, <3>2, <3>3
  <2>4. /\ serving' \in BOOLEAN /\ lock' \in {"free", "pending", "held"}
    BY <1>1, <1>6 DEF Cancel, KeepHolder
  <2>5. Stopped'
    BY <1>3, <1>6, <2>1, <2>2 DEF IInv, Stopped, Stopping, Cancel, MainStep, CompRec
  <2>6. LockedOut'
    BY <1>3, <1>6, <2>1, <2>2 DEF IInv, LockedOut, Stopping, Cancel, MainStep, KeepHolder, Readers, Built
  <2> QED
    BY <1>2, <2>1, <2>2, <2>3, <2>4, <2>5, <2>6, StopIInv DEF Stopping
<1>7. CASE ClosePool
  <2>1. /\ main' = [main EXCEPT !.at = "drain"]
        /\ UNCHANGED <<mode, hups, hup, term, holder, newest, status, handler>>
        /\ comp' = [comp EXCEPT ![newest] = [rec EXCEPT !.poolOpen = FALSE]]
    BY <1>3, <1>4, <1>7 DEF ClosePool, MainStep, Set, KeepHolder
  <2>2. /\ main'.at = "drain" /\ main' = [main EXCEPT !.at = main'.at]
        /\ main'.why = main.why
        /\ new = [rec EXCEPT !.poolOpen = FALSE] /\ comp' = [comp EXCEPT ![newest] = new]
    BY <1>1, <1>3, <2>1
  <2>3. /\ new \in CompRec /\ new.open = rec.open
        /\ ~new.open => Ended(new) /\ new.disabled /\ ~new.poolOpen
        /\ new.snapStop = "chan" => ~new.closed
    <3>1. new \in CompRec
      BY <1>3, <2>2 DEF CompRec
    <3>2. new.open = rec.open /\ (new.snapStop = "chan" => ~new.closed)
      BY <1>3, <1>4, <2>2 DEF CompRec
    <3>3. ~rec.open => Ended(new) /\ new.disabled /\ ~new.poolOpen
      BY <1>3, <1>4, <2>2 DEF CompRec, Ended
    <3> QED
      BY <3>1, <3>2, <3>3
  <2>4. /\ serving' \in BOOLEAN /\ lock' \in {"free", "pending", "held"}
    BY <1>1, <1>7 DEF ClosePool, KeepHolder
  <2>5. Stopped'
    BY <1>3, <1>7, <2>1, <2>2 DEF IInv, Stopped, Stopping, ClosePool, MainStep, CompRec
  <2>6. LockedOut'
    BY <1>3, <1>7, <2>1, <2>2 DEF IInv, LockedOut, Stopping, ClosePool, MainStep, KeepHolder, Readers, Built
  <2> QED
    BY <1>2, <2>1, <2>2, <2>3, <2>4, <2>5, <2>6, StopIInv DEF Stopping
<1>8. CASE Drained
  <2>1. /\ main' = [main EXCEPT !.at = (IF main.why = "restart" THEN "locking" ELSE "shutdown")]
        /\ UNCHANGED <<mode, hups, hup, term, holder, newest, status, handler>>
        /\ comp' = [comp EXCEPT ![newest] = rec]
    BY <1>3, <1>4, <1>8 DEF Drained, MainStep, Set, KeepHolder
  <2>2. /\ main'.at = (IF main.why = "restart" THEN "locking" ELSE "shutdown") /\ main' = [main EXCEPT !.at = main'.at]
        /\ main'.why = main.why
        /\ new = rec /\ comp' = [comp EXCEPT ![newest] = new]
    BY <1>1, <1>3, <2>1
  <2>3. /\ new \in CompRec /\ new.open = rec.open
        /\ ~new.open => Ended(new) /\ new.disabled /\ ~new.poolOpen
        /\ new.snapStop = "chan" => ~new.closed
    <3>1. new \in CompRec
      BY <1>3, <2>2 DEF CompRec
    <3>2. new.open = rec.open /\ (new.snapStop = "chan" => ~new.closed)
      BY <1>3, <1>4, <2>2 DEF CompRec
    <3>3. ~rec.open => Ended(new) /\ new.disabled /\ ~new.poolOpen
      BY <1>3, <1>4, <2>2 DEF CompRec, Ended
    <3> QED
      BY <3>1, <3>2, <3>3
  <2>4. /\ serving' \in BOOLEAN /\ lock' \in {"free", "pending", "held"}
    BY <1>1, <1>8 DEF Drained, KeepHolder
  <2>5. Stopped'
    BY <1>3, <1>8, <2>1, <2>2 DEF IInv, Stopped, Stopping, Drained, MainStep, CompRec
  <2>6. LockedOut'
    BY <1>3, <1>8, <2>1, <2>2 DEF IInv, LockedOut, Stopping, Drained, MainStep, KeepHolder, Readers, Built
  <2> QED
    BY <1>2, <2>1, <2>2, <2>3, <2>4, <2>5, <2>6, StopIInv DEF Stopping
<1>9. CASE Locked
  <2>1. /\ main' = [main EXCEPT !.at = "snap"]
        /\ UNCHANGED <<mode, hups, hup, term, holder, newest, status, handler>>
        /\ comp' = [comp EXCEPT ![newest] = rec]
    BY <1>3, <1>4, <1>9 DEF Locked, MainStep, Set, KeepHolder
  <2>2. /\ main'.at = "snap" /\ main' = [main EXCEPT !.at = main'.at]
        /\ main'.why = main.why
        /\ new = rec /\ comp' = [comp EXCEPT ![newest] = new]
    BY <1>1, <1>3, <2>1
  <2>3. /\ new \in CompRec /\ new.open = rec.open
        /\ ~new.open => Ended(new) /\ new.disabled /\ ~new.poolOpen
        /\ new.snapStop = "chan" => ~new.closed
    <3>1. new \in CompRec
      BY <1>3, <2>2 DEF CompRec
    <3>2. new.open = rec.open /\ (new.snapStop = "chan" => ~new.closed)
      BY <1>3, <1>4, <2>2 DEF CompRec
    <3>3. ~rec.open => Ended(new) /\ new.disabled /\ ~new.poolOpen
      BY <1>3, <1>4, <2>2 DEF CompRec, Ended
    <3> QED
      BY <3>1, <3>2, <3>3
  <2>4. /\ serving' \in BOOLEAN /\ lock' \in {"free", "pending", "held"}
    BY <1>1, <1>9 DEF Locked, KeepHolder
  <2>5. Stopped'
    BY <1>3, <1>9, <2>1, <2>2 DEF IInv, Stopped, Stopping, Locked, MainStep, CompRec
  <2>6. LockedOut'
    BY <1>3, <1>9, <2>1, <2>2 DEF IInv, LockedOut, Stopping, Locked, MainStep, KeepHolder, Readers, Built
  <2> QED
    BY <1>2, <2>1, <2>2, <2>3, <2>4, <2>5, <2>6, StopIInv DEF Stopping
<1>10. CASE Shutdown
  <2>1. /\ main' = [main EXCEPT !.at = "snap"]
        /\ UNCHANGED <<mode, hups, hup, term, holder, newest, status, handler>>
        /\ comp' = [comp EXCEPT ![newest] = rec]
    BY <1>3, <1>4, <1>10 DEF Shutdown, MainStep, Set, KeepHolder
  <2>2. /\ main'.at = "snap" /\ main' = [main EXCEPT !.at = main'.at]
        /\ main'.why = main.why
        /\ new = rec /\ comp' = [comp EXCEPT ![newest] = new]
    BY <1>1, <1>3, <2>1
  <2>3. /\ new \in CompRec /\ new.open = rec.open
        /\ ~new.open => Ended(new) /\ new.disabled /\ ~new.poolOpen
        /\ new.snapStop = "chan" => ~new.closed
    <3>1. new \in CompRec
      BY <1>3, <2>2 DEF CompRec
    <3>2. new.open = rec.open /\ (new.snapStop = "chan" => ~new.closed)
      BY <1>3, <1>4, <2>2 DEF CompRec
    <3>3. ~rec.open => Ended(new) /\ new.disabled /\ ~new.poolOpen
      BY <1>3, <1>4, <2>2 DEF CompRec, Ended
    <3> QED
      BY <3>1, <3>2, <3>3
  <2>4. /\ serving' \in BOOLEAN /\ lock' \in {"free", "pending", "held"}
    BY <1>1, <1>10 DEF Shutdown, KeepHolder
  <2>5. Stopped'
    BY <1>3, <1>10, <2>1, <2>2 DEF IInv, Stopped, Stopping, Shutdown, MainStep, CompRec
  <2>6. LockedOut'
    BY <1>3, <1>10, <2>1, <2>2 DEF IInv, LockedOut, Stopping, Shutdown, MainStep, KeepHolder, Readers, Built
  <2> QED
    BY <1>2, <2>1, <2>2, <2>3, <2>4, <2>5, <2>6, StopIInv DEF Stopping
<1>11. CASE StopSnapshot
  <2>1. /\ main' = [main EXCEPT !.at = "snapWait"]
        /\ UNCHANGED <<mode, hups, hup, term, holder, newest, status, handler>>
        /\ comp' = [comp EXCEPT ![newest] = [rec EXCEPT !.closed = @ \/ rec.snapStop = "chan", !.snapStop = "nil"]]
    BY <1>3, <1>4, <1>11 DEF StopSnapshot, MainStep, Set, KeepHolder
  <2>2. /\ main'.at = "snapWait" /\ main' = [main EXCEPT !.at = main'.at]
        /\ main'.why = main.why
        /\ new = [rec EXCEPT !.closed = @ \/ rec.snapStop = "chan", !.snapStop = "nil"] /\ comp' = [comp EXCEPT ![newest] = new]
    BY <1>1, <1>3, <2>1
  <2>3. /\ new \in CompRec /\ new.open = rec.open
        /\ ~new.open => Ended(new) /\ new.disabled /\ ~new.poolOpen
        /\ new.snapStop = "chan" => ~new.closed
    <3>1. new \in CompRec
      BY <1>3, <2>2 DEF CompRec
    <3>2. new.open = rec.open /\ (new.snapStop = "chan" => ~new.closed)
      BY <1>3, <1>4, <2>2 DEF CompRec
    <3>3. ~rec.open => Ended(new) /\ new.disabled /\ ~new.poolOpen
      BY <1>3, <1>4, <2>2 DEF CompRec, Ended
    <3> QED
      BY <3>1, <3>2, <3>3
  <2>4. /\ serving' \in BOOLEAN /\ lock' \in {"free", "pending", "held"}
    BY <1>1, <1>11 DEF StopSnapshot, KeepHolder
  <2>5. Stopped'
    BY <1>3, <1>11, <2>1, <2>2 DEF IInv, Stopped, Stopping, StopSnapshot, MainStep, CompRec
  <2>6. LockedOut'
    BY <1>3, <1>11, <2>1, <2>2 DEF IInv, LockedOut, Stopping, StopSnapshot, MainStep, KeepHolder, Readers, Built
  <2> QED
    BY <1>2, <2>1, <2>2, <2>3, <2>4, <2>5, <2>6, StopIInv DEF Stopping
<1>12. CASE SnapshotStopped
  <2>1. /\ main' = [main EXCEPT !.at = "close"]
        /\ UNCHANGED <<mode, hups, hup, term, holder, newest, status, handler>>
        /\ comp' = [comp EXCEPT ![newest] = rec]
    BY <1>3, <1>4, <1>12 DEF SnapshotStopped, MainStep, Set, KeepHolder
  <2>2. /\ main'.at = "close" /\ main' = [main EXCEPT !.at = main'.at]
        /\ main'.why = main.why
        /\ new = rec /\ comp' = [comp EXCEPT ![newest] = new]
    BY <1>1, <1>3, <2>1
  <2>3. /\ new \in CompRec /\ new.open = rec.open
        /\ ~new.open => Ended(new) /\ new.disabled /\ ~new.poolOpen
        /\ new.snapStop = "chan" => ~new.closed
    <3>1. new \in CompRec
      BY <1>3, <2>2 DEF CompRec
    <3>2. new.open = rec.open /\ (new.snapStop = "chan" => ~new.closed)
      BY <1>3, <1>4, <2>2 DEF CompRec
    <3>3. ~rec.open => Ended(new) /\ new.disabled /\ ~new.poolOpen
      BY <1>3, <1>4, <2>2 DEF CompRec, Ended
    <3> QED
      BY <3>1, <3>2, <3>3
  <2>4. /\ serving' \in BOOLEAN /\ lock' \in {"free", "pending", "held"}
    BY <1>1, <1>12 DEF SnapshotStopped, KeepHolder
  <2>5. Stopped'
    BY <1>3, <1>12, <2>1, <2>2 DEF IInv, Stopped, Stopping, SnapshotStopped, MainStep, CompRec
  <2>6. LockedOut'
    BY <1>3, <1>12, <2>1, <2>2 DEF IInv, LockedOut, Stopping, SnapshotStopped, MainStep, KeepHolder, Readers, Built
  <2> QED
    BY <1>2, <2>1, <2>2, <2>3, <2>4, <2>5, <2>6, StopIInv DEF Stopping
<1>13. CASE CloseStore
  <2>1. /\ main' = [main EXCEPT !.at = (IF main.why = "restart" THEN "build" ELSE "down")]
        /\ UNCHANGED <<mode, hups, hup, term, holder, newest, status, handler>>
        /\ comp' = [comp EXCEPT ![newest] = [rec EXCEPT !.open = FALSE]]
    BY <1>3, <1>4, <1>13 DEF CloseStore, MainStep, Set, KeepHolder
  <2>2. /\ main'.at = (IF main.why = "restart" THEN "build" ELSE "down") /\ main' = [main EXCEPT !.at = main'.at]
        /\ main'.why = main.why
        /\ new = [rec EXCEPT !.open = FALSE] /\ comp' = [comp EXCEPT ![newest] = new]
    BY <1>1, <1>3, <2>1
  <2>3. /\ new \in CompRec /\ ~new.open
        /\ new.disabled /\ ~new.poolOpen
        /\ new.snapStop = "chan" => ~new.closed
    BY <1>3, <1>4, <1>13, <2>2 DEF CompRec, CloseStore, MainStep, IInv, Stopped, Stopping
  <2>7. Ended(new)
    BY <1>3, <1>13, <2>2 DEF CompRec, Ended, CloseStore, MainStep, IInv, Stopped, Stopping
  <2>4. /\ serving' \in BOOLEAN /\ lock' \in {"free", "pending", "held"}
    BY <1>1, <1>13 DEF CloseStore, KeepHolder
  <2>5. Stopped'
    BY <1>3, <1>13, <2>1, <2>2 DEF IInv, Stopped, Stopping, CloseStore, MainStep, CompRec
  <2>6. LockedOut'
    BY <1>3, <1>13, <2>1, <2>2 DEF IInv, LockedOut, Stopping, CloseStore, MainStep, KeepHolder, Readers, Built
  <2> QED
    BY <1>2, <2>1, <2>2, <2>3, <2>4, <2>5, <2>6, <2>7, StopIInv DEF Stopping
<1> QED
  BY <1>5, <1>6, <1>7, <1>8, <1>9, <1>10, <1>11, <1>12, <1>13

\* The other steps of main, which build a component and read the holder.
LEMMA ServeSteps ==
  ASSUME IInv, Build \/ BuildFails \/ EnqueueAll \/ TakeRestart \/ AskHolder \/ TakeHolder
  PROVE  IInv'
<1>1. /\ main \in [at : MainAt, why : {"start", "restart", "exit"}, comp : Comp \cup {None}]
      /\ comp \in [Comp -> CompRec \cup {None}]
      /\ status \in [Task -> FileStatus \cup {None}]
      /\ lock \in {"free", "pending", "held"}
      /\ newest \in Nat /\ hups \in Nat /\ hups <= MaxHup /\ MaxHup \in Nat
      /\ \A d \in Built : comp[d] \in CompRec
      /\ Built = 1..newest /\ Built \subseteq Comp
  BY LifecycleAssumption DEF IInv, TypeOK, Built, Comp
<1>2. ASSUME Build PROVE IInv'
  <2> DEFINE n == newest + 1
  <2>1. /\ main.at = "build" /\ main' = [main EXCEPT !.at = "enqueue"]
        /\ newest' = n /\ holder' = n
        /\ comp' = [comp EXCEPT ![n] = NewComponent]
        /\ UNCHANGED <<mode, hups, hup, term, serving, lock, status, handler>>
    BY <1>2 DEF Build, MainStep, Set
  <2>2. n \in Comp /\ n \notin Built /\ Built' = Built \cup {n}
    BY <1>1, <2>1 DEF IInv, Current, Restarting, Built, Comp
  <2>3. NewComponent \in CompRec /\ NewComponent.open /\ ~NewComponent.closed
    BY DEF NewComponent, CompRec, SnapAt
  <2>4. comp'[n] = NewComponent /\ \A d \in Built : comp'[d] = comp[d]
    BY <1>1, <2>1, <2>2
  <2>5. main'.at = "enqueue" /\ main'.why = main.why
    BY <1>1, <2>1
  <2>6. TypeOK'
    BY <1>1, <2>1, <2>2, <2>3, <2>5 DEF IInv, TypeOK, MainAt, Stopping, Comp
  <2>7. \A d \in Built' : comp'[d] \in CompRec
    BY <1>1, <2>2, <2>3, <2>4
  <2>8. Stopped' /\ NoPanic'
    BY <2>5 DEF Stopped, Stopping, NoPanic
  <2>9. Current'
    BY <1>1, <2>1, <2>5 DEF IInv, Current, Restarting, Stopping
  <2>10. OnlyNewest' /\ ResetStop' /\ ClosedIdle'
    BY <2>1, <2>2, <2>3, <2>4, <2>5 DEF IInv, OnlyNewest, ResetStop, ClosedIdle
  <2>11. LockedOut'
    BY <2>1, <2>2, <2>5 DEF IInv, LockedOut, Readers, Stopping
  <2> QED
    BY <2>6, <2>7, <2>8, <2>9, <2>10, <2>11 DEF IInv
\* The other five keep the components there are.
<1>3. ASSUME newest' = newest, comp' = comp,
             TypeOK', Stopped', Current', OnlyNewest', LockedOut', main'.at # "panic"
      PROVE  IInv'
  BY <1>3 DEF IInv, Built, ResetStop, NoPanic, ClosedIdle
<1>4. ASSUME BuildFails PROVE IInv'
  <2>1. /\ main.at = "build" /\ main'.at \in {"dead", "serve"}
        /\ main' = [main EXCEPT !.at = main'.at]
        /\ main'.at = "serve" => main.why = "restart"
        /\ lock' = "free"
        /\ UNCHANGED <<mode, hups, hup, term, serving, holder, newest, comp, status, handler>>
    BY <1>1, <1>4 DEF BuildFails, MainStep, IInv, Current
  <2>2. main'.why = main.why /\ main'.comp = main.comp
    BY <1>1, <2>1
  <2>3. TypeOK'
    BY <1>1, <2>1 DEF IInv, TypeOK, MainAt, Stopping
  <2>4. Stopped' /\ Current' /\ OnlyNewest' /\ LockedOut'
    BY <1>1, <2>1, <2>2
    DEF IInv, Stopped, Stopping, Current, Restarting, OnlyNewest, LockedOut, Readers, Built
  <2> QED
    BY <1>3, <2>1, <2>3, <2>4
<1>5. ASSUME EnqueueAll PROVE IInv'
  <2>1. /\ main.at = "enqueue" /\ main' = [main EXCEPT !.at = "serve"]
        /\ lock' = "free" /\ serving' = TRUE
        /\ UNCHANGED <<mode, hups, hup, term, holder, newest, handler>>
        /\ holder = newest /\ main'.at = "serve" /\ main'.why = main.why
    BY <1>1, <1>5 DEF EnqueueAll, IInv, Current
  <2>2. PICK taken \in SUBSET Task, marked \in SUBSET Task : Submits(holder, Task, taken, marked)
    BY <1>5 DEF EnqueueAll
  <2>3. newest \in Built /\ newest \in Comp /\ Built' = Built
    BY <1>1, <2>1, LifecycleAssumption DEF IInv, TypeOK, Comp, Built
  <2>4. /\ comp' = [comp EXCEPT ![newest] = [comp[newest] EXCEPT !.jobs = @ \cup taken]]
        /\ taken # {} => comp[newest].poolOpen
        /\ status' \in [Task -> FileStatus \cup {None}]
    BY <1>1, <2>1, <2>2 DEF Submits, FileStatus
  <2>5. /\ comp'[newest] = [comp[newest] EXCEPT !.jobs = @ \cup taken]
        /\ \A d \in Built \ {newest} : comp'[d] = comp[d]
        /\ comp[newest] \in CompRec /\ comp'[newest] \in CompRec
    BY <1>1, <2>3, <2>4 DEF CompRec
  <2>6. TypeOK'
    BY <1>1, <2>1, <2>3, <2>4, <2>5 DEF IInv, TypeOK, MainAt, Stopping
  <2>7. Stopped' /\ Current' /\ LockedOut' /\ NoPanic'
    BY <1>1, <2>1
    DEF IInv, Stopped, Stopping, Current, Restarting, LockedOut, Readers, Built, NoPanic
  <2>8. OnlyNewest' /\ ResetStop'
    BY <1>1, <2>1, <2>3, <2>5 DEF IInv, OnlyNewest, ResetStop, CompRec
  <2>9. ClosedIdle'
    <3>1. ~comp[newest].open => Ended(comp'[newest])
      BY <2>3, <2>4, <2>5 DEF IInv, OnlyNewest, ClosedIdle, Ended, CompRec
    <3> QED
      BY <1>1, <2>1, <2>3, <2>5, <3>1 DEF IInv, ClosedIdle, CompRec
  <2> QED
    BY <2>3, <2>5, <2>6, <2>7, <2>8, <2>9 DEF IInv
<1>6. ASSUME TakeRestart PROVE IInv'
  <2>1. /\ main.at = "serve" /\ hup /\ hup' = FALSE
        /\ main' = [at |-> "disable", why |-> "restart", comp |-> newest]
        /\ UNCHANGED <<mode, hups, term, serving, holder, lock, newest, comp, status, handler>>
        /\ holder = newest
    BY <1>6 DEF TakeRestart, IInv, Current
  <2>2. newest \in Built /\ newest \in Comp
    BY <1>1, <2>1, LifecycleAssumption DEF IInv, TypeOK, Comp
  <2>3. TypeOK'
    BY <1>1, <2>1, <2>2 DEF IInv, TypeOK, MainAt, Stopping
  <2>4. Stopped' /\ Current' /\ OnlyNewest' /\ LockedOut'
    BY <1>1, <2>1, <2>2
    DEF IInv, Stopped, Stopping, Current, Restarting, OnlyNewest, LockedOut, Readers, Built
  <2> QED
    BY <1>3, <2>1, <2>3, <2>4
<1>7. ASSUME AskHolder PROVE IInv'
  <2>1. /\ main.at = "serve" /\ main' = [main EXCEPT !.at = "take"]
        /\ lock' = "pending"
        /\ UNCHANGED <<mode, hups, hup, term, serving, holder, newest, comp, status, handler>>
        /\ main'.at = "take" /\ main'.why = main.why
    BY <1>1, <1>7 DEF AskHolder, MainStep
  <2>2. TypeOK'
    BY <1>1, <2>1 DEF IInv, TypeOK, MainAt, Stopping
  <2>3. Stopped' /\ Current' /\ OnlyNewest' /\ LockedOut'
    BY <1>1, <2>1
    DEF IInv, Stopped, Stopping, Current, Restarting, OnlyNewest, LockedOut, Readers, Built
  <2> QED
    BY <1>3, <2>1, <2>2, <2>3
<1>8. ASSUME TakeHolder PROVE IInv'
  <2>1. /\ main.at = "take" /\ Readers = {}
        /\ main' = [at |-> "disable", why |-> "exit", comp |-> newest]
        /\ holder' = None /\ lock' = "free"
        /\ UNCHANGED <<mode, hups, hup, term, serving, newest, comp, status, handler>>
        /\ holder = newest
    BY <1>8 DEF TakeHolder, IInv, Current
  <2>2. newest \in Built /\ newest \in Comp
    BY <1>1, <2>1, LifecycleAssumption DEF IInv, TypeOK, Comp
  <2>3. TypeOK'
    BY <1>1, <2>1, <2>2 DEF IInv, TypeOK, MainAt, Stopping
  <2>4. Stopped' /\ Current' /\ OnlyNewest' /\ LockedOut'
    BY <1>1, <2>1, <2>2
    DEF IInv, Stopped, Stopping, Current, Restarting, OnlyNewest, LockedOut, Readers, Built
  <2> QED
    BY <1>3, <2>1, <2>3, <2>4
<1> QED
  BY <1>2, <1>4, <1>5, <1>6, <1>7, <1>8

(***************************************************************************)
(* The invariant and what follows from it.                                 *)
(***************************************************************************)
LEMMA InitIInv == Init => IInv
<1> SUFFICES ASSUME Init PROVE IInv
  OBVIOUS
<1>1. Built = {} /\ Readers = {}
  BY DEF Init, Built, Readers, Idle
<1>2. TypeOK
  <2>1. /\ main \in [at : MainAt, why : {"start", "restart", "exit"}, comp : Comp \cup {None}]
        /\ main.at \notin Stopping
    BY DEF Init, MainAt, Stopping
  <2>2. Idle \in HandlerRec
    BY DEF Idle, HandlerRec
  <2>3. handler \in [Handler -> HandlerRec] /\ comp \in [Comp -> CompRec \cup {None}]
    BY <2>2 DEF Init
  <2>4. 0 \in 0..MaxHup /\ 0 \in 0..(MaxHup + 1)
    BY LifecycleAssumption
  <2> QED
    BY <2>1, <2>3, <2>4 DEF Init, TypeOK
<1>3. Stopped /\ Current /\ NoPanic
  BY LifecycleAssumption DEF Init, Stopped, Stopping, Current, Restarting, NoPanic
<1>4. OnlyNewest /\ LockedOut /\ ResetStop /\ ClosedIdle
  BY <1>1 DEF Init, OnlyNewest, LockedOut, ResetStop, ClosedIdle, Stopping
<1> QED
  BY <1>1, <1>2, <1>3, <1>4 DEF IInv

\* A signal that arrives, and a step of something else.
LEMMA SignalIInv ==
  ASSUME IInv, SigHup \/ SigTerm \/ UNCHANGED vars
  PROVE  IInv'
<1>1. /\ UNCHANGED <<mode, main, serving, holder, lock, newest, comp, status, handler>>
      /\ Built' = Built /\ Readers' = Readers
  BY DEF SigHup, SigTerm, vars, Built, Readers
<1>2. TypeOK'
  <2>1. hups' \in 0..MaxHup /\ hup' \in BOOLEAN /\ term' \in BOOLEAN
    <3>1. hups \in 0..MaxHup /\ hup \in BOOLEAN /\ term \in BOOLEAN /\ MaxHup \in Nat
      BY LifecycleAssumption DEF IInv, TypeOK
    <3>2. CASE SigHup
      BY <3>1, <3>2 DEF SigHup
    <3>3. CASE SigTerm
      BY <3>1, <3>3 DEF SigTerm
    <3>4. CASE UNCHANGED vars
      BY <3>1, <3>4 DEF vars
    <3> QED
      BY <3>2, <3>3, <3>4
  <2> QED
    BY <1>1, <2>1 DEF IInv, TypeOK
<1>3. Current'
  BY <1>1, LifecycleAssumption DEF IInv, TypeOK, Current, Restarting, SigHup, SigTerm, vars
<1>4. /\ \A d \in Built' : comp'[d] \in CompRec
      /\ Stopped' /\ OnlyNewest' /\ LockedOut' /\ ResetStop' /\ NoPanic' /\ ClosedIdle'
  BY <1>1 DEF IInv, Stopped, OnlyNewest, LockedOut, ResetStop, NoPanic, ClosedIdle
<1> QED
  BY <1>2, <1>3, <1>4 DEF IInv

\* Whatever signals arrive and whatever fails, the inductive invariant holds.
THEOREM Invariant == Spec => []IInv
<1>1. IInv /\ [Next]_vars => IInv'
  BY ComponentIInv, HandlerIInv, StopSteps, ServeSteps, SignalIInv DEF Next, MainNext
<1> QED
  BY <1>1, InitIInv, PTL DEF Spec

\* The variables keep their types, through any number of restarts, those that fail half way
\* included (main.go:209-429).
THEOREM TypeCorrect == Spec => []TypeOK
<1>1. IInv => TypeOK
  BY DEF IInv
<1> QED
  BY <1>1, Invariant, PTL

\* A restart closes the old store before it opens the next one: no two components
\* write the same files, however many restarts there are and whichever of them fail.
THEOREM OneStore == Spec => []OneOpen
<1>1. IInv => OneOpen
  BY DEF IInv, OnlyNewest, OneOpen
<1> QED
  BY <1>1, Invariant, PTL

\* Nothing of a component still runs once its store is closed.
THEOREM StoreClosedLast == Spec => []ClosedIdle
<1>1. IInv => ClosedIdle
  BY DEF IInv
<1> QED
  BY <1>1, Invariant, PTL

\* stopSnapshot can be called again on a component that it has stopped.
THEOREM StopTwice == Spec => []NoPanic
<1>1. IInv => NoPanic
  BY DEF IInv
<1> QED
  BY <1>1, Invariant, PTL

\* No handler is inside a component at the moment its store is closed: a restart keeps
\* them out with the lock, an exit with an empty holder.
THEOREM NotUnderAHandler == Spec => ClosedUnused
<1> DEFINE Unused == \A c \in Built : comp[c].open /\ ~comp'[c].open =>
                       \A h \in Readers : handler[h].comp # c
<1>1. ASSUME IInv, [Next]_vars PROVE Unused
  <2> SUFFICES ASSUME NEW c \in Built, comp[c].open, ~comp'[c].open
               PROVE  Readers = {}
    OBVIOUS
  <2>1. comp \in [Comp -> CompRec \cup {None}] /\ c \in Comp /\ comp[c] \in CompRec
    BY <1>1, LifecycleAssumption DEF IInv, TypeOK, Built, Comp
  <2>2. CASE CloseStore
    BY <1>1, <2>2, Main DEF CloseStore, MainStep, IInv, LockedOut, Stopping
  <2>3. CASE Build
    <3>1. newest + 1 # c /\ comp' = [comp EXCEPT ![newest + 1] = NewComponent]
      BY <1>1, <2>3 DEF Build, Set, Built, IInv, TypeOK
    <3> QED
      BY <2>1, <3>1
  \* The other steps leave alone whether a store is open.
  <2>4. CASE BuildFails \/ TakeRestart \/ AskHolder \/ TakeHolder \/ Drained \/ Locked
             \/ Shutdown \/ SnapshotStopped \/ SigHup \/ SigTerm \/ UNCHANGED vars
    BY <2>4 DEF BuildFails, TakeRestart, AskHolder, TakeHolder, Drained, Locked,
                Shutdown, SnapshotStopped, SigHup, SigTerm, vars
  <2>5. CASE Disable \/ Cancel \/ ClosePool \/ StopSnapshot
    <3>1. main.at \in Stopping
      BY <2>5 DEF Disable, Cancel, ClosePool, StopSnapshot, MainStep, Stopping
    <3>2. main.comp \in Comp /\ comp[main.comp] \in CompRec
      BY <1>1, <3>1, Main
    <3>3. PICK rec \in {[comp[main.comp] EXCEPT !.disabled = TRUE],
                       [comp[main.comp] EXCEPT !.cancelled = TRUE],
                       [comp[main.comp] EXCEPT !.poolOpen = FALSE],
                       [comp[main.comp] EXCEPT !.closed = @ \/ comp[main.comp].snapStop = "chan",
                                               !.snapStop = "nil"]} :
                 comp' = [comp EXCEPT ![main.comp] = rec]
      BY <2>5 DEF Disable, Cancel, ClosePool, StopSnapshot, Set
    <3>4. rec.open = comp[main.comp].open
      BY <3>2, <3>3 DEF CompRec
    <3>5. comp'[c].open = comp[c].open
      BY <2>1, <3>2, <3>3, <3>4
    <3> QED
      BY <3>5
  <2>6. CASE EnqueueAll
    BY <2>1, <2>6 DEF EnqueueAll, Submits
  <2>7. ASSUME NEW d \in Built, ComponentNext(d) PROVE FALSE
    <3>1. d \in Comp /\ comp[d] \in CompRec
      BY <1>1, LifecycleAssumption DEF IInv, TypeOK, Built, Comp
    <3>2. CASE SnapRead(d) \/ SnapTick(d) \/ SnapFlushed(d) \/ SnapExit(d) \/ RetryExit(d)
      <4>1. \/ \E to : Set(d, [comp[d] EXCEPT !.snap = to])
            \/ Set(d, [comp[d] EXCEPT !.loop = FALSE])
        BY <3>2 DEF SnapRead, SnapTick, SnapFlushed, SnapExit, RetryExit
      <4>2. CASE Set(d, [comp[d] EXCEPT !.loop = FALSE])
        BY <2>1, <3>1, <4>2 DEF Set, CompRec
      <4>3. ASSUME NEW to, Set(d, [comp[d] EXCEPT !.snap = to]) PROVE FALSE
        BY <2>1, <3>1, <4>3 DEF Set, CompRec
      <4> QED
        BY <4>1, <4>2, <4>3
    <3>3. ASSUME NEW t \in Task, RetryTick(d, t) \/ Start(d, t) \/ End(d, t) PROVE FALSE
      <4>1. CASE RetryTick(d, t)
        BY <2>1, <3>1, <4>1 DEF RetryTick, Submits, CompRec
      <4>2. CASE Start(d, t)
        <5>1. \/ comp' = [comp EXCEPT ![d] = [comp[d] EXCEPT !.jobs = @ \ {t}]]
              \/ comp' = [comp EXCEPT ![d] = [comp[d] EXCEPT !.jobs = @ \ {t}, !.run = @ \cup {t}]]
          BY <4>2 DEF Start, Set
        <5>2. CASE comp' = [comp EXCEPT ![d] = [comp[d] EXCEPT !.jobs = @ \ {t}]]
          BY <2>1, <3>1, <5>2 DEF CompRec
        <5>3. CASE comp' = [comp EXCEPT ![d] = [comp[d] EXCEPT !.jobs = @ \ {t}, !.run = @ \cup {t}]]
          BY <2>1, <3>1, <5>3 DEF CompRec
        <5> QED
          BY <5>1, <5>2, <5>3
      <4>3. CASE End(d, t)
        BY <2>1, <3>1, <4>3 DEF End, Set, CompRec
      <4> QED
        BY <3>3, <4>1, <4>2, <4>3
    <3> QED
      BY <2>7, <3>2, <3>3 DEF ComponentNext
  <2>8. ASSUME NEW h \in Handler, HandlerNext(h) \/ \E t \in Task : Post(h, t) PROVE FALSE
    <3>1. CASE Enqueue(h)
      BY <2>1, <3>1 DEF Enqueue, Submits
    <3>2. CASE Create(h) \/ CreateFails(h) \/ BeginEnqueue(h)
      BY <3>2 DEF Create, CreateFails, BeginEnqueue
    <3>3. CASE \E t \in Task : Post(h, t)
      BY <3>3 DEF Post
    <3> QED
      BY <2>8, <3>1, <3>2, <3>3 DEF HandlerNext
  <2> QED
    BY <1>1, <2>2, <2>3, <2>4, <2>5, <2>6, <2>7, <2>8 DEF Next, MainNext
<1> QED
  BY <1>1, Invariant, PTL DEF Spec, ClosedUnused
=============================================================================
