------------------------- MODULE TaskServiceProofs -------------------------
(***************************************************************************)
(* What TaskService guarantees for every set of tasks and callers, and     *)
(* every number of files.                                                  *)
(***************************************************************************)
EXTENDS TaskService, TLAPS

(***************************************************************************)
(* Operators.                                                              *)
(***************************************************************************)
LEMMA ObtainStatusType ==
  ASSUME NEW fs PROVE ObtainStatus(fs) \in TaskStatusSet
BY DEF ObtainStatus, TaskStatusSet

LEMMA NewTaskType ==
  ASSUME NEW n \in 1..MaxFiles
  PROVE  /\ NewTask(n) \in TaskRec
         /\ NewTask(n).status = ObtainStatus(NewTask(n).files)
<1> DEFINE fs == [i \in 1..n |-> "waiting"]
<1>1. n \in Nat /\ 1 \in 1..n
  BY ServiceAssumption
<1>2. fs \in [1..n -> FileStatus]
  BY DEF FileStatus
<1>3. fs \in FileMap
  BY <1>2 DEF FileMap
<1>4. NewTask(n) = [files |-> fs, status |-> "pending"]
  BY DEF NewTask
<1>5. ObtainStatus(fs) = "pending"
  BY <1>1 DEF ObtainStatus
<1>6. QED
  BY <1>3, <1>4, <1>5 DEF TaskRec, TaskStatusSet

LEMMA SetFileType ==
  ASSUME NEW rec \in TaskRec, NEW i \in DOMAIN rec.files, NEW st \in FileStatus
  PROVE  /\ SetFile(rec, i, st) \in TaskRec
         /\ SetFile(rec, i, st).status = ObtainStatus(SetFile(rec, i, st).files)
         /\ SetFile(rec, i, st).files = [rec.files EXCEPT ![i] = st]
<1> DEFINE fs == [rec.files EXCEPT ![i] = st]
<1>1. PICK n \in 1..MaxFiles : rec.files \in [1..n -> FileStatus]
  BY DEF TaskRec, FileMap
<1>2. fs \in [1..n -> FileStatus]
  BY <1>1
<1>3. fs \in FileMap
  BY <1>2 DEF FileMap
<1>4. SetFile(rec, i, st) = [files |-> fs, status |-> ObtainStatus(fs)]
  BY DEF SetFile
<1>5. QED
  BY <1>3, <1>4, ObtainStatusType DEF TaskRec

(***************************************************************************)
(* The inductive invariant.                                                *)
(***************************************************************************)
LEMMA MayMarkStatus ==
  ASSUME NEW p \in Proc, TypeOK, InMark(p)
  PROVE  /\ op[p] \in OpRec
         /\ op[p].call \in FileStatus
         /\ op[p].clone \in TaskRec
         /\ op[p].task \in Task
         /\ op[p] # None
BY DEF TypeOK, InMark, OpRec, MarkCall, FileStatus

LEMMA InitIInv == Init => IInv
<1> SUFFICES ASSUME Init PROVE IInv
  OBVIOUS
<1> USE DEF Init
<1>1. TypeOK
  BY DEF TypeOK, Loaded
<1>2. \A p \in Proc : ~InMark(p) /\ ~InCall(p, "create") /\ mu # p
  BY ServiceAssumption DEF InMark, InCall
<1>3. FileInRange /\ LockOwner /\ CloneFresh /\ Creating /\ OneCreator
  BY <1>2 DEF FileInRange, LockOwner, CloneFresh, Creating, OneCreator
<1>4. CacheMatchesStore /\ StatusDerived
  BY DEF CacheMatchesStore, StatusDerived, Loaded
<1> QED
  BY <1>1, <1>3, <1>4 DEF IInv

LEMMA CreateTaskIInv ==
  ASSUME IInv, NEW p \in Proc, NEW t \in Task, NEW n \in 1..MaxFiles,
         CreateTask(p, t, n)
  PROVE  IInv'
<1> DEFINE rec == [call |-> "create", task |-> t, file |-> 1, clone |-> NewTask(n)]
<1>1. /\ op[p] = None /\ store[t] = None /\ cache' = cache /\ mu' = mu
      /\ store' = [store EXCEPT ![t] = NewTask(n)]
      /\ op' = IF UseCache THEN [op EXCEPT ![p] = rec] ELSE op
  BY DEF CreateTask, StoreCreate
<1>2. NewTask(n) \in TaskRec /\ NewTask(n).status = ObtainStatus(NewTask(n).files)
  BY NewTaskType
<1>3. NewTask(n) # None /\ rec # None
  <2>1. rec \in OpRec
    BY <1>2, ServiceAssumption DEF OpRec
  <2> QED
    BY <1>2, <2>1, ServiceAssumption
<1>4. TypeOK'
  <2>1. rec \in OpRec
    BY <1>2, ServiceAssumption DEF OpRec
  <2> QED
    BY <1>1, <1>2, <2>1 DEF IInv, TypeOK
<1>5. \A q \in Proc : q # p => op'[q] = op[q]
  BY <1>1 DEF IInv, TypeOK
<1>6. ~InMark(p) /\ ~InMark(p)' /\ ~InCall(p, "create")
  <2>1. op'[p] = None \/ op'[p] = rec
    BY <1>1 DEF IInv, TypeOK
  <2> QED
    BY <1>1, <2>1 DEF InMark, InCall, MarkCall
<1>7. \A q \in Proc : (InMark(q)' <=> InMark(q)) /\ (InMark(q) => op'[q] = op[q])
  BY <1>5, <1>6 DEF InMark
<1>8. FileInRange' /\ LockOwner' /\ CloneFresh'
  BY <1>1, <1>7 DEF IInv, FileInRange, LockOwner, CloneFresh
<1>9. UseCache => cache[t] = None
  BY <1>1 DEF IInv, CacheMatchesStore
<1>10. Creating'
  <2> SUFFICES ASSUME UseCache, NEW q \in Proc, InCall(q, "create")'
               PROVE  store'[op'[q].task] = op'[q].clone /\ cache'[op'[q].task] = None
    BY DEF Creating
  <2>1. CASE q = p
    BY <1>1, <1>9, <2>1 DEF IInv, TypeOK
  <2>2. CASE q # p
    <3>1. op'[q] = op[q] /\ InCall(q, "create")
      BY <1>5, <2>2 DEF InCall
    <3>2. /\ store[op[q].task] = op[q].clone /\ cache[op[q].task] = None
      BY <3>1 DEF IInv, Creating
    <3>3. op[q] \in OpRec
      BY <3>1 DEF IInv, TypeOK, InCall
    <3>4. op[q].clone \in TaskRec
      BY <3>3 DEF OpRec
    <3>5. op[q].task # t
      BY <1>1, <3>2, <3>4, ServiceAssumption
    <3> QED
      BY <1>1, <3>1, <3>2, <3>3, <3>5 DEF IInv, TypeOK, OpRec
  <2> QED
    BY <2>1, <2>2
<1>11. OneCreator'
  <2> SUFFICES ASSUME UseCache, NEW q \in Proc, InCall(q, "create")', q # p,
                      op'[q].task = op'[p].task, InCall(p, "create")'
               PROVE  FALSE
    BY <1>5 DEF IInv, OneCreator, InCall
  <2>1. op'[q] = op[q] /\ InCall(q, "create") /\ op'[p].task = t
    BY <1>1, <1>5 DEF InCall, IInv, TypeOK
  <2>2. store[t] = op[q].clone /\ op[q].clone \in TaskRec
    BY <2>1 DEF IInv, Creating, TypeOK, InCall, OpRec
  <2> QED
    BY <1>1, <2>2, ServiceAssumption
<1>12. CacheMatchesStore' /\ StatusDerived'
  BY <1>1, <1>2, <1>9 DEF IInv, CacheMatchesStore, StatusDerived, TypeOK
<1> QED
  BY <1>4, <1>8, <1>10, <1>11, <1>12 DEF IInv

LEMMA InsertCacheIInv ==
  ASSUME IInv, NEW p \in Proc, InsertCache(p)
  PROVE  IInv'
<1> DEFINE t == op[p].task
<1>1. /\ InCall(p, "create") /\ mu = None /\ store' = store /\ mu' = mu
      /\ cache' = [cache EXCEPT ![t] = op[p].clone]
      /\ op' = [op EXCEPT ![p] = None]
  BY DEF InsertCache
<1>2. op[p] \in OpRec /\ t \in Task /\ op[p].clone \in TaskRec
  BY <1>1 DEF IInv, TypeOK, InCall, OpRec
<1>3. TypeOK'
  BY <1>1, <1>2 DEF IInv, TypeOK
<1>4. UseCache => \A q \in Proc : ~InMark(q)
  BY <1>1, ServiceAssumption DEF IInv, LockOwner
<1>5. op'[p] = None /\ \A q \in Proc : q # p => op'[q] = op[q]
  BY <1>1 DEF IInv, TypeOK
<1>6. \A q \in Proc : InMark(q)' => InMark(q) /\ op'[q] = op[q]
  BY <1>5 DEF InMark
<1>7. FileInRange' /\ LockOwner' /\ CloneFresh'
  BY <1>1, <1>4, <1>6, ServiceAssumption DEF IInv, FileInRange, LockOwner, CloneFresh
<1>8. \A q \in Proc : InCall(q, "create")' => InCall(q, "create") /\ op'[q] = op[q] /\ q # p
  BY <1>5 DEF InCall
<1>9. OneCreator'
  BY <1>8 DEF IInv, OneCreator
<1>10. Creating'
  <2> SUFFICES ASSUME UseCache, NEW q \in Proc, InCall(q, "create")'
               PROVE  store'[op'[q].task] = op'[q].clone /\ cache'[op'[q].task] = None
    BY DEF Creating
  <2>1. InCall(q, "create") /\ op'[q] = op[q] /\ q # p
    BY <1>8
  <2>2. op[q].task # t
    BY <1>1, <2>1 DEF IInv, OneCreator
  <2>3. op[q].task \in Task
    BY <2>1 DEF IInv, TypeOK, InCall, OpRec
  <2> QED
    BY <1>1, <2>1, <2>2, <2>3 DEF IInv, Creating, TypeOK
<1>11. UseCache => store[t] = op[p].clone
  BY <1>1 DEF IInv, Creating
<1>12. CacheMatchesStore' /\ StatusDerived'
  BY <1>1, <1>2, <1>11 DEF IInv, CacheMatchesStore, StatusDerived, TypeOK
<1> QED
  BY <1>3, <1>7, <1>9, <1>10, <1>12 DEF IInv

LEMMA LoadIInv ==
  ASSUME IInv, NEW p \in Proc, NEW c \in MarkCall, NEW t \in Task, NEW i \in 1..MaxFiles,
         Load(p, c, t, i)
  PROVE  IInv'
<1> DEFINE rec == [call |-> c, task |-> t, file |-> i, clone |-> View[t]]
<1>1. /\ op[p] = None /\ (UseCache => mu = None) /\ i \in DOMAIN View[t].files
      /\ View[t] # None /\ op' = [op EXCEPT ![p] = rec]
      /\ mu' = (IF UseCache THEN p ELSE mu)
      /\ store' = store /\ cache' = cache
  BY DEF Load
<1>2. View[t] \in TaskRec
  BY <1>1 DEF IInv, TypeOK, View
<1>3. rec \in OpRec /\ rec # None
  BY <1>2, ServiceAssumption DEF OpRec
<1>4. TypeOK'
  BY <1>1, <1>3 DEF IInv, TypeOK
<1>5. op'[p] = rec /\ \A q \in Proc : q # p => op'[q] = op[q]
  BY <1>1 DEF IInv, TypeOK
<1>6. InMark(p)' /\ ~InCall(p, "create")'
  BY <1>3, <1>5 DEF InMark, InCall, MarkCall
<1>7. \A q \in Proc : q # p => (InMark(q)' <=> InMark(q))
  BY <1>5 DEF InMark
<1>8. FileInRange'
  BY <1>1, <1>5, <1>7 DEF IInv, FileInRange
<1>9. UseCache => \A q \in Proc : q # p => ~InMark(q)'
  BY <1>1, <1>7, ServiceAssumption DEF IInv, LockOwner
<1>10. LockOwner'
  BY <1>1, <1>6, <1>9 DEF LockOwner
<1>11. CloneFresh'
  BY <1>1, <1>5, <1>6, <1>9 DEF CloneFresh, View
<1>12. \A q \in Proc : InCall(q, "create")' => InCall(q, "create") /\ op'[q] = op[q]
  BY <1>5, <1>6 DEF InCall
<1>13. Creating' /\ OneCreator'
  BY <1>1, <1>12 DEF IInv, Creating, OneCreator
<1>14. CacheMatchesStore' /\ StatusDerived'
  BY <1>1 DEF IInv, CacheMatchesStore, StatusDerived
<1> QED
  BY <1>4, <1>8, <1>10, <1>11, <1>13, <1>14 DEF IInv

(***************************************************************************)
(* The end of a Mark call: p leaves it and releases mu.                    *)
(***************************************************************************)
LEMMA ReturnKeeps ==
  ASSUME IInv, NEW p \in Proc, InMark(p), Return(p)
  PROVE  /\ op' \in [Proc -> OpRec \cup {None}] /\ mu' \in Proc \cup {None}
         /\ FileInRange' /\ LockOwner' /\ OneCreator'
         /\ \A q \in Proc : InCall(q, "create")' => InCall(q, "create") /\ op'[q] = op[q]
         /\ UseCache => \A q \in Proc : ~InMark(q)'
<1>1. op' = [op EXCEPT ![p] = None] /\ mu' = (IF UseCache THEN None ELSE mu)
  BY DEF Return
<1>2. op'[p] = None /\ \A q \in Proc : q # p => op'[q] = op[q]
  BY <1>1 DEF IInv, TypeOK
<1>3. op' \in [Proc -> OpRec \cup {None}] /\ mu' \in Proc \cup {None}
  BY <1>1 DEF IInv, TypeOK
<1>4. \A q \in Proc : InMark(q)' => InMark(q) /\ op'[q] = op[q] /\ q # p
  BY <1>2 DEF InMark
<1>5. UseCache => \A q \in Proc : ~InMark(q)'
  BY <1>4 DEF IInv, LockOwner
<1>6. FileInRange'
  BY <1>4 DEF IInv, FileInRange
<1>7. LockOwner'
  BY <1>1, <1>5, ServiceAssumption DEF LockOwner
<1>8. \A q \in Proc : InCall(q, "create")' => InCall(q, "create") /\ op'[q] = op[q]
  BY <1>2 DEF InCall
<1>9. OneCreator'
  BY <1>8 DEF IInv, OneCreator
<1> QED
  BY <1>3, <1>5, <1>6, <1>7, <1>8, <1>9

LEMMA GiveUpIInv ==
  ASSUME IInv, NEW p \in Proc, Refuse(p) \/ StoreError(p)
  PROVE  IInv'
<1>1. InMark(p) /\ Return(p) /\ store' = store /\ cache' = cache
  BY DEF Refuse, StoreError
<1>2. TypeOK'
  BY <1>1, ReturnKeeps DEF IInv, TypeOK
<1>3. CloneFresh' /\ Creating'
  BY <1>1, ReturnKeeps DEF IInv, CloneFresh, Creating
<1>4. CacheMatchesStore' /\ StatusDerived'
  BY <1>1 DEF IInv, CacheMatchesStore, StatusDerived
<1> QED
  BY <1>1, <1>2, <1>3, <1>4, ReturnKeeps DEF IInv

LEMMA CommitIInv ==
  ASSUME IInv, NEW p \in Proc, Commit(p)
  PROVE  IInv'
<1> DEFINE o == op[p]
           new == SetFile(o.clone, o.file, o.call)
<1>1. /\ InMark(p) /\ Return(p)
      /\ store' = [store EXCEPT ![o.task] = new]
      /\ cache' = IF UseCache THEN [cache EXCEPT ![o.task] = new] ELSE cache
  BY DEF Commit, StoreUpdate
<1>2. /\ o.call \in FileStatus /\ o.clone \in TaskRec /\ o.task \in Task
      /\ o.file \in DOMAIN o.clone.files
  BY <1>1, MayMarkStatus DEF IInv, FileInRange
<1>3. new \in TaskRec /\ new.status = ObtainStatus(new.files)
  <2>1. \A rec \in TaskRec : \A i \in DOMAIN rec.files : \A st \in FileStatus :
          /\ SetFile(rec, i, st) \in TaskRec
          /\ SetFile(rec, i, st).status = ObtainStatus(SetFile(rec, i, st).files)
    BY SetFileType
  <2> QED
    BY <1>2, <2>1
<1>4. TypeOK'
  BY <1>1, <1>2, <1>3, ReturnKeeps DEF IInv, TypeOK
<1>5. CloneFresh'
  BY <1>1, ReturnKeeps DEF CloneFresh
<1>6. Creating'
  <2> SUFFICES ASSUME UseCache, NEW q \in Proc, InCall(q, "create")'
               PROVE  store'[op'[q].task] = op'[q].clone /\ cache'[op'[q].task] = None
    BY DEF Creating
  <2>1. InCall(q, "create") /\ op'[q] = op[q]
    BY <1>1, ReturnKeeps
  <2>2. store[op[q].task] = op[q].clone /\ cache[op[q].task] = None /\ op[q].task \in Task
    BY <2>1 DEF IInv, Creating, TypeOK, InCall, OpRec
  <2>3. cache[o.task] = o.clone
    BY <1>1 DEF IInv, CloneFresh
  <2>4. op[q].task # o.task
    BY <1>2, <2>2, <2>3, ServiceAssumption
  <2> QED
    BY <1>1, <2>1, <2>2, <2>4 DEF IInv, TypeOK
<1>7. CacheMatchesStore' /\ StatusDerived'
  BY <1>1, <1>2, <1>3 DEF IInv, CacheMatchesStore, StatusDerived, TypeOK
<1> QED
  BY <1>1, <1>4, <1>5, <1>6, <1>7, ReturnKeeps DEF IInv

LEMMA NextIInv == IInv /\ [Next]_svcVars => IInv'
<1> SUFFICES ASSUME IInv, [Next]_svcVars PROVE IInv'
  OBVIOUS
<1>1. CASE UNCHANGED svcVars
  BY <1>1 DEF svcVars, IInv, TypeOK, FileInRange, LockOwner, CloneFresh, Creating,
     OneCreator, CacheMatchesStore, StatusDerived, InMark, InCall
<1>2. ASSUME NEW p \in Proc, Step(p) PROVE IInv'
  <2>1. CASE \E t \in Task, n \in 1..MaxFiles : CreateTask(p, t, n)
    BY <2>1, CreateTaskIInv
  <2>2. CASE InsertCache(p)
    BY <2>2, InsertCacheIInv
  <2>3. CASE \E c \in MarkCall, t \in Task, i \in 1..MaxFiles : Load(p, c, t, i)
    BY <2>3, LoadIInv
  <2>4. CASE Commit(p)
    BY <2>4, CommitIInv
  <2>5. CASE Refuse(p) \/ StoreError(p)
    BY <2>5, GiveUpIInv
  <2> QED
    BY <1>2, <2>1, <2>2, <2>3, <2>4, <2>5 DEF Step
<1> QED
  BY <1>1, <1>2 DEF Next

\* Every state of the service satisfies the inductive invariant.
THEOREM Invariant == Spec => []IInv
BY InitIInv, NextIInv, PTL DEF Spec

\* The state of the service keeps its types, in both storage modes.
THEOREM TypeCorrect == Spec => []TypeOK
<1>1. IInv => TypeOK
  BY DEF IInv
<1> QED
  BY <1>1, Invariant, PTL

\* A cached task and its stored copy never differ (service.go:133, :263, :739).
THEOREM CacheCorrect == Spec => []CacheMatchesStore
<1>1. IInv => CacheMatchesStore
  BY DEF IInv
<1> QED
  BY <1>1, Invariant, PTL

\* A stored task carries the status its own files give, in both storage modes.
THEOREM StatusCorrect == Spec => []StatusDerived
<1>1. IInv => StatusDerived
  BY DEF IInv
<1> QED
  BY <1>1, Invariant, PTL

(***************************************************************************)
(* Memory mode.  The clone a call writes back is the stored task, so a     *)
(* Commit changes one file of the task the store holds.                    *)
(***************************************************************************)
LEMMA CommitOneFile ==
  ASSUME IInv, UseCache, NEW p \in Proc, Commit(p)
  PROVE  \E t \in Task, i \in 1..MaxFiles, st \in FileStatus \ {"waiting"} :
           /\ store[t] \in TaskRec
           /\ i \in DOMAIN store[t].files
           /\ MayMark(store[t].files[i], st)
           /\ store' = [store EXCEPT ![t] = SetFile(store[t], i, st)]
<1>1. /\ InMark(p) /\ MayMark(op[p].clone.files[op[p].file], op[p].call)
      /\ store' = [store EXCEPT ![op[p].task] =
                     SetFile(op[p].clone, op[p].file, op[p].call)]
  BY DEF Commit, StoreUpdate
<1>2. /\ op[p].clone \in TaskRec /\ op[p].task \in Task
      /\ op[p].file \in DOMAIN op[p].clone.files
  BY <1>1, MayMarkStatus DEF IInv, FileInRange
<1>3. op[p].file \in 1..MaxFiles /\ op[p].call \in FileStatus \ {"waiting"}
  BY <1>1 DEF IInv, TypeOK, InMark, OpRec, MarkCall, FileStatus
<1>4. cache[op[p].task] = op[p].clone
  BY <1>1 DEF IInv, CloneFresh
<1>5. op[p].clone # None
  BY <1>2, ServiceAssumption
<1>6. store[op[p].task] = op[p].clone
  BY <1>2, <1>4, <1>5 DEF IInv, CacheMatchesStore
<1> QED
  BY <1>1, <1>2, <1>3, <1>6

\* No step of any caller takes a completed file to another status, in memory
\* mode ("file completed, it cant be failed", service.go:559).
THEOREM CompletedStays == ASSUME UseCache PROVE Spec => CompletedIsFinal
<1> DEFINE Kept == \A t \in Task : store[t] # None =>
             \A i \in DOMAIN store[t].files :
               store[t].files[i] = "completed" => store'[t].files[i] = "completed"
<1>1. IInv /\ [Next]_svcVars => [Kept]_svcVars
  <2> SUFFICES ASSUME IInv, Next PROVE Kept
    OBVIOUS
  <2>1. CASE store' = store
    BY <2>1
  <2>2. ASSUME NEW p \in Proc, NEW t \in Task, NEW n \in 1..MaxFiles, CreateTask(p, t, n)
        PROVE  Kept
    BY <2>2 DEF CreateTask, StoreCreate, IInv, TypeOK
  <2>3. ASSUME NEW p \in Proc, Commit(p) PROVE Kept
    <3>1. PICK t \in Task, i \in 1..MaxFiles, st \in FileStatus \ {"waiting"} :
            /\ store[t] \in TaskRec
            /\ i \in DOMAIN store[t].files
            /\ MayMark(store[t].files[i], st)
            /\ store' = [store EXCEPT ![t] = SetFile(store[t], i, st)]
      BY <2>3, CommitOneFile
    <3>2. SetFile(store[t], i, st).files = [store[t].files EXCEPT ![i] = st]
      BY DEF SetFile
    <3>3. store[t].files[i] # "completed"
      BY <3>1 DEF MayMark
    <3>4. store'[t].files = [store[t].files EXCEPT ![i] = st]
      BY <3>1, <3>2 DEF IInv, TypeOK
    <3>5. \A u \in Task : u # t => store'[u] = store[u]
      BY <3>1 DEF IInv, TypeOK
    <3> SUFFICES ASSUME NEW u \in Task, store[u] # None,
                        NEW j \in DOMAIN store[u].files, store[u].files[j] = "completed"
                 PROVE  store'[u].files[j] = "completed"
      OBVIOUS
    <3>6. CASE u # t
      BY <3>5, <3>6
    <3>7. CASE u = t
      BY <3>3, <3>4, <3>7
    <3> QED
      BY <3>6, <3>7
  <2>4. PICK p \in Proc : Step(p)
    BY DEF Next
  <2> QED
    BY <2>1, <2>2, <2>3, <2>4 DEF Step, InsertCache, Load, Refuse, StoreError
<1>2. Spec => [][Kept]_svcVars
  BY <1>1, Invariant, PTL DEF Spec
<1> QED
  BY <1>2 DEF CompletedIsFinal

\* In memory mode a task whose files are all completed is never written again: its status
\* is the one its files give, and a Commit is of one file that is not completed.
THEOREM CompletedTaskStays == ASSUME UseCache PROVE Spec => CompletedTaskFrozen
<1> DEFINE Kept == \A t \in Task :
             store[t] # None /\ store[t].status = "completed" => store'[t] = store[t]
<1>1. IInv /\ [Next]_svcVars => [Kept]_svcVars
  <2> SUFFICES ASSUME IInv, Next PROVE Kept
    OBVIOUS
  <2>1. CASE store' = store
    BY <2>1
  <2>2. ASSUME NEW p \in Proc, NEW t \in Task, NEW n \in 1..MaxFiles, CreateTask(p, t, n)
        PROVE  Kept
    BY <2>2 DEF CreateTask, StoreCreate, IInv, TypeOK
  <2>3. ASSUME NEW p \in Proc, Commit(p) PROVE Kept
    <3>1. PICK t \in Task, i \in 1..MaxFiles, st \in FileStatus \ {"waiting"} :
            /\ store[t] \in TaskRec
            /\ i \in DOMAIN store[t].files
            /\ MayMark(store[t].files[i], st)
            /\ store' = [store EXCEPT ![t] = SetFile(store[t], i, st)]
      BY <2>3, CommitOneFile
    <3>2. store[t] # None /\ store[t].files[i] # "completed"
      BY <3>1, ServiceAssumption DEF MayMark
    <3>3. store[t].status = ObtainStatus(store[t].files)
      BY <3>1, <3>2 DEF IInv, StatusDerived
    <3>4. store[t].status # "completed"
      BY <3>1, <3>2, <3>3 DEF ObtainStatus
    <3>5. \A u \in Task : u # t => store'[u] = store[u]
      BY <3>1 DEF IInv, TypeOK
    <3> QED
      BY <3>4, <3>5
  <2>4. PICK p \in Proc : Step(p)
    BY DEF Next
  <2> QED
    BY <2>1, <2>2, <2>3, <2>4 DEF Step, InsertCache, Load, Refuse, StoreError
<1>2. Spec => [][Kept]_svcVars
  BY <1>1, Invariant, PTL DEF Spec
<1> QED
  BY <1>2 DEF CompletedTaskFrozen

\* In both storage modes no task becomes pending again.
THEOREM NotPendingAgain == Spec => PendingOnce
<1> DEFINE Kept == \A t \in Task :
             store[t] # None /\ store'[t].status = "pending" => store[t].status = "pending"
<1>1. IInv /\ [Next]_svcVars => [Kept]_svcVars
  <2> SUFFICES ASSUME IInv, Next PROVE Kept
    OBVIOUS
  <2>1. CASE store' = store
    BY <2>1
  <2>2. ASSUME NEW p \in Proc, NEW t \in Task, NEW n \in 1..MaxFiles, CreateTask(p, t, n)
        PROVE  Kept
    BY <2>2 DEF CreateTask, StoreCreate, IInv, TypeOK
  <2>3. ASSUME NEW p \in Proc, Commit(p) PROVE Kept
    <3>1. PICK rec, i, st : rec = op[p].clone /\ i = op[p].file /\ st = op[p].call
      OBVIOUS
    <3>2. InMark(p) /\ store' = [store EXCEPT ![op[p].task] = SetFile(rec, i, st)]
      BY <2>3, <3>1 DEF Commit, StoreUpdate
    <3>3. rec \in TaskRec /\ i \in DOMAIN rec.files /\ st \in FileStatus \ {"waiting"}
      BY <3>1, <3>2, MayMarkStatus DEF IInv, FileInRange, TypeOK, InMark, OpRec, MarkCall,
                                      FileStatus
    <3>4. /\ SetFile(rec, i, st).status = ObtainStatus(SetFile(rec, i, st).files)
          /\ SetFile(rec, i, st).files = [rec.files EXCEPT ![i] = st]
      BY <3>3, SetFileType
    <3>5. SetFile(rec, i, st).status # "pending"
      BY <3>3, <3>4 DEF ObtainStatus
    <3>6. \A t \in Task : store'[t] = store[t] \/ store'[t] = SetFile(rec, i, st)
      BY <3>2 DEF IInv, TypeOK
    <3> QED
      BY <3>5, <3>6
  <2>4. PICK p \in Proc : Step(p)
    BY DEF Next
  <2> QED
    BY <2>1, <2>2, <2>3, <2>4 DEF Step, InsertCache, Load, Refuse, StoreError
<1>2. Spec => [][Kept]_svcVars
  BY <1>1, Invariant, PTL DEF Spec
<1> QED
  BY <1>2 DEF PendingOnce

\* In memory mode every call, however the callers interleave, is one transition
\* of the ledger: TaskService implements TaskLedger.
THEOREM ServiceImplementsLedger == ASSUME UseCache PROVE Spec => ImplementsLedger
<1>1. Init => Ledger!Init
  <2> SUFFICES ASSUME Init PROVE Files \in [Task -> Ledger!FileMap \cup {None}]
    BY DEF Ledger!Init
  <2>1. \A t \in Task : store[t] # None => store[t].files \in FileMap
    BY DEF Init, Loaded, TaskRec
  <2> QED
    BY <2>1 DEF Files, FileMap, Ledger!FileMap, FileStatus, Ledger!FileStatus
<1>2. IInv /\ [Next]_svcVars => [Ledger!Next]_Files
  <2> SUFFICES ASSUME IInv, [Next]_svcVars PROVE [Ledger!Next]_Files
    OBVIOUS
  <2>1. CASE store' = store
    BY <2>1 DEF Files
  <2>2. ASSUME NEW p \in Proc, NEW t \in Task, NEW n \in 1..MaxFiles, CreateTask(p, t, n)
        PROVE  Ledger!Next
    <3>1. store[t] = None /\ store' = [store EXCEPT ![t] = NewTask(n)]
      BY <2>2 DEF CreateTask, StoreCreate
    <3>2. NewTask(n) # None /\ NewTask(n).files = [i \in 1..n |-> "waiting"]
      BY NewTaskType, ServiceAssumption DEF NewTask
    <3>3. Files[t] = None
      BY <3>1 DEF Files
    <3>4. store'[t] = NewTask(n) /\ \A u \in Task : u # t => store'[u] = store[u]
      BY <3>1 DEF IInv, TypeOK
    <3>5. Files' = [Files EXCEPT ![t] = [i \in 1..n |-> "waiting"]]
      BY <3>2, <3>4 DEF Files
    <3>6. Ledger!Create(t, n)
      BY <3>3, <3>5 DEF Ledger!Create
    <3> QED
      BY <3>6 DEF Ledger!Next
  <2>3. ASSUME NEW p \in Proc, Commit(p) PROVE Ledger!Next
    <3>1. PICK t \in Task, i \in 1..MaxFiles, st \in FileStatus \ {"waiting"} :
            /\ store[t] \in TaskRec
            /\ i \in DOMAIN store[t].files
            /\ MayMark(store[t].files[i], st)
            /\ store' = [store EXCEPT ![t] = SetFile(store[t], i, st)]
      BY <2>3, CommitOneFile
    <3>2. SetFile(store[t], i, st) \in TaskRec
      BY <3>1, SetFileType
    <3>3. SetFile(store[t], i, st).files = [store[t].files EXCEPT ![i] = st]
      BY DEF SetFile
    <3>4. store[t] # None /\ SetFile(store[t], i, st) # None
      BY <3>1, <3>2, ServiceAssumption
    <3>5. Files[t] = store[t].files /\ Files[t] # None
      <4>1. store[t].files \in FileMap
        BY <3>1 DEF TaskRec
      <4> QED
        BY <3>4, <4>1, ServiceAssumption DEF Files
    <3>6. Files' = [Files EXCEPT ![t] = [@ EXCEPT ![i] = st]]
      <4>1. /\ store'[t] = SetFile(store[t], i, st)
            /\ \A u \in Task : u # t => store'[u] = store[u]
        BY <3>1 DEF IInv, TypeOK
      <4> QED
        BY <3>3, <3>4, <3>5, <4>1 DEF Files
    <3>7. Ledger!Mark(t, i, st)
      BY <3>1, <3>5, <3>6 DEF Ledger!Mark, Ledger!Allowed, MayMark
    <3> QED
      BY <3>7 DEF Ledger!Next, Ledger!FileStatus, FileStatus
  <2>4. CASE Next
    <3>1. PICK p \in Proc : Step(p)
      BY <2>4 DEF Next
    <3> QED
      BY <2>1, <2>2, <2>3, <3>1 DEF Step, InsertCache, Load, Refuse, StoreError
  <2> QED
    BY <2>1, <2>4 DEF svcVars
<1> QED
  BY <1>1, <1>2, Invariant, PTL DEF Spec, ImplementsLedger, Ledger!Spec
=============================================================================
