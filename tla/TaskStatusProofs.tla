-------------------------- MODULE TaskStatusProofs --------------------------
(***************************************************************************)
(* obtainStatus counts the files by their status; TaskStatus says with     *)
(* quantifiers what the counters decide.  The two agree for every number   *)
(* of files.                                                               *)
(***************************************************************************)
EXTENDS TaskStatus, FiniteSets, FiniteSetTheorems, TLAPS

\* The counters of obtainStatus: how many files have a status in S.
Holding(files, S) == {i \in DOMAIN files : files[i] \in S}
Count(files, S)   == Cardinality(Holding(files, S))

\* obtainStatus as the code has it, its returns in their order.
CountedStatus(files) ==
  LET n        == Cardinality(DOMAIN files)
      wait     == Count(files, {"waiting"})
      download == Count(files, {"queued", "downloading"})
      complete == Count(files, {"completed"})
      error    == Count(files, {"error"})
      finish   == complete + error
  IN  IF n = 0 THEN "completed"
      ELSE IF download > 0 THEN "in_progress"
      ELSE IF n = wait THEN "pending"
      ELSE IF wait > 0 /\ finish > 0 THEN "in_progress"
      ELSE IF n # finish THEN "in_progress"
      ELSE IF n = complete THEN "completed"
      ELSE IF n = error THEN "failed"
      ELSE "partially_completed"

\* A counter is n if it counts every file, and 0 if it counts none.
LEMMA CountDecides ==
  ASSUME NEW n \in Nat, NEW files \in [1..n -> FileStatus], NEW S
  PROVE  /\ Count(files, S) \in Nat
         /\ Cardinality(DOMAIN files) = n
         /\ Count(files, S) = n <=> \A i \in 1..n : files[i] \in S
         /\ Count(files, S) > 0 <=> \E i \in 1..n : files[i] \in S
<1>1. DOMAIN files = 1..n /\ IsFiniteSet(1..n) /\ Cardinality(1..n) = n
  BY FS_Interval
<1>2. Holding(files, S) \in SUBSET (1..n)
  BY <1>1 DEF Holding
<1>3. IsFiniteSet(Holding(files, S)) /\ (Count(files, S) = n => Holding(files, S) = 1..n)
  BY <1>1, <1>2, FS_Subset DEF Count
<1>4. Count(files, S) \in Nat
  BY <1>3, FS_CardinalityType DEF Count
<1>5. Count(files, S) = 0 <=> Holding(files, S) = {}
  BY <1>3, FS_EmptySet DEF Count
<1>6. Holding(files, S) = 1..n <=> \A i \in 1..n : files[i] \in S
  BY <1>1 DEF Holding
<1>7. Holding(files, S) = {} <=> ~ \E i \in 1..n : files[i] \in S
  BY <1>1 DEF Holding
<1>8. Count(files, S) = n <=> \A i \in 1..n : files[i] \in S
  BY <1>1, <1>3, <1>6 DEF Count
<1>9. Count(files, S) > 0 <=> Count(files, S) # 0
  BY <1>4
<1> QED
  BY <1>1, <1>4, <1>5, <1>7, <1>8, <1>9

\* What two counters of different statuses count together.
LEMMA CountSum ==
  ASSUME NEW n \in Nat, NEW files \in [1..n -> FileStatus]
  PROVE  Count(files, {"completed"}) + Count(files, {"error"}) = Count(files, Finished)
<1>1. DOMAIN files = 1..n /\ IsFiniteSet(1..n)
  BY FS_Interval
<1> DEFINE C == Holding(files, {"completed"})
           E == Holding(files, {"error"})
<1>2. C \in SUBSET (1..n) /\ E \in SUBSET (1..n)
  BY <1>1 DEF Holding
<1>3. IsFiniteSet(C) /\ IsFiniteSet(E)
  BY <1>1, <1>2, FS_Subset
<1>4. C \cap E = {} /\ C \cup E = Holding(files, Finished)
  BY DEF Holding, Finished
<1>5. Cardinality(C \cup E) = Cardinality(C) + Cardinality(E) - Cardinality(C \cap E)
  BY <1>3, FS_Union
<1>6. Cardinality({}) = 0 /\ Cardinality(C) \in Nat /\ Cardinality(E) \in Nat
  BY <1>3, FS_EmptySet, FS_CardinalityType
<1> HIDE DEF C, E
<1>7. Cardinality(C \cup E) = Cardinality(C) + Cardinality(E)
  <2>1. Cardinality(C \cap E) = 0
    BY <1>4, <1>6
  <2> QED
    BY <1>5, <1>6, <2>1
<1> QED
  BY <1>4, <1>7 DEF Count, C, E

\* The counters decide what TaskStatus says, for every number of files and whatever their
\* statuses: no combination of the counters falls through to a wrong return (status.go:30).
THEOREM CountersDecide ==
  ASSUME NEW n \in Nat, NEW files \in [1..n -> FileStatus]
  PROVE  CountedStatus(files) = ObtainStatus(files)
<1> DEFINE Some(S)  == \E i \in 1..n : files[i] \in S
           Every(S) == \A i \in 1..n : files[i] \in S
<1>1. DOMAIN files = 1..n /\ Cardinality(DOMAIN files) = n
  BY CountDecides
<1>2. CountedStatus(files) =
        IF n = 0 THEN "completed"
        ELSE IF Some({"queued", "downloading"}) THEN "in_progress"
        ELSE IF Every({"waiting"}) THEN "pending"
        ELSE IF Some({"waiting"}) /\ Some(Finished) THEN "in_progress"
        ELSE IF ~Every(Finished) THEN "in_progress"
        ELSE IF Every({"completed"}) THEN "completed"
        ELSE IF Every({"error"}) THEN "failed"
        ELSE "partially_completed"
  <2>1. \A S : /\ Count(files, S) = n <=> Every(S)
               /\ Count(files, S) > 0 <=> Some(S)
    BY CountDecides
  <2> HIDE DEF Some, Every
  <2> QED
    BY <1>1, <2>1, CountSum DEF CountedStatus
<1>3. CASE n = 0
  BY <1>1, <1>2, <1>3 DEF ObtainStatus
<1>4. CASE n # 0
  <2>1. \A i \in 1..n : files[i] \in FileStatus
    OBVIOUS
  <2>2. 1 \in 1..n
    BY <1>4
  <2> QED
    BY <1>1, <1>2, <1>4, <2>1, <2>2 DEF ObtainStatus, FileStatus, Finished
<1> QED
  BY <1>3, <1>4
=============================================================================
