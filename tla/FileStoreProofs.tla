-------------------------- MODULE FileStoreProofs --------------------------
(***************************************************************************)
(* What the store of memory mode guarantees for every number of tasks and  *)
(* values and every length of the log, whatever fails.                     *)
(***************************************************************************)
EXTENDS FileStore, TLAPS, WellFoundedInduction

(***************************************************************************)
(* ApplyEvents is a fold: the recursion of the library is well-founded, so *)
(* that loading nothing changes nothing, and one more record is one more   *)
(* ApplyEvent.                                                             *)
(***************************************************************************)
\* A set of naturals has a least element, which is all the induction used below.
LEMMA LeastNat ==
  ASSUME NEW T \in SUBSET Nat, T # {}
  PROVE  \E m \in T : \A k \in T : m <= k
<1>1. \E m \in T : \A k \in T : ~ (<<k, m>> \in OpToRel(<, Nat))
  BY WFMin, NatLessThanWellFounded, Zenon
<1>2. \A k, m \in T : k < m => <<k, m>> \in OpToRel(<, Nat)
  BY Zenon DEF OpToRel
<1>3. \E m \in T : \A k \in T : ~(k < m)
  BY <1>1, <1>2, Zenon
<1> QED
  BY <1>3

\* The function that the library chooses for a fold over the first n records.
Step(iter, base, lines, S) ==
  IF S = {} THEN base ELSE ApplyEvent(iter[S \ {Max(S)}], lines[Max(S)])

Iterates(iter, base, lines, n) ==
  iter = [S \in SUBSET (1..n) |-> Step(iter, base, lines, S)]

LEMMA MaxOf ==
  ASSUME NEW m \in Nat, NEW S \in SUBSET (1..m), m \in S
  PROVE  Max(S) = m
<1>1. \A x \in S : (\A y \in S : x >= y) <=> x = m
  OBVIOUS
<1> QED
  BY <1>1 DEF Max

\* There is one,
LEMMA IterExists ==
  ASSUME NEW base, NEW lines, NEW n \in Nat
  PROVE  \E iter : Iterates(iter, base, lines, n)
<1> DEFINE T == {m \in Nat : ~ \E iter : Iterates(iter, base, lines, m)}
<1> SUFFICES ASSUME T # {} PROVE FALSE
  OBVIOUS
<1>1. PICK m \in T : \A k \in T : m <= k
  BY LeastNat
<1>2. m # 0
  <2> DEFINE iter == [S \in SUBSET (1..0) |-> base]
  <2>1. Iterates(iter, base, lines, 0)
    BY DEF Iterates, Step
  <2> QED
    BY <1>1, <2>1
<1>3. PICK g : Iterates(g, base, lines, m - 1)
  BY <1>1, <1>2
<1> DEFINE h == [S \in SUBSET (1..m) |-> IF m \in S THEN ApplyEvent(g[S \ {m}], lines[m]) ELSE g[S]]
<1>4. ASSUME NEW S \in SUBSET (1..m) PROVE h[S] = Step(h, base, lines, S)
  <2>1. CASE m \in S
    <3>1. Max(S) = m
      BY <1>1, <2>1, MaxOf
    <3>2. h[S] = ApplyEvent(g[S \ {m}], lines[m]) /\ h[S \ {m}] = g[S \ {m}]
      BY <2>1
    <3> QED
      BY <2>1, <3>1, <3>2 DEF Step
  <2>2. CASE m \notin S
    <3>1. S \in SUBSET (1..(m - 1))
      BY <1>1, <2>2
    <3>2. h[S] = g[S] /\ h[S \ {Max(S)}] = g[S \ {Max(S)}]
      BY <2>2
    <3>3. g[S] = Step(g, base, lines, S)
      BY <1>3, <3>1 DEF Iterates
    <3> QED
      BY <3>2, <3>3 DEF Step
  <2> QED
    BY <2>1, <2>2
<1>5. h = [S \in SUBSET (1..m) |-> h[S]]
  OBVIOUS
<1> HIDE DEF h
<1>6. Iterates(h, base, lines, m)
  BY <1>4, <1>5 DEF Iterates
<1> QED
  BY <1>1, <1>6

\* and two of them agree where the records do.
LEMMA IterAgree ==
  ASSUME NEW base, NEW l1, NEW l2, NEW n \in Nat, NEW p \in Nat, n <= p,
         NEW i1, NEW i2, Iterates(i1, base, l1, n), Iterates(i2, base, l2, p),
         \A i \in 1..n : l1[i] = l2[i]
  PROVE  i1[1..n] = i2[1..n]
<1> DEFINE T == {m \in 0..n : \E S \in SUBSET (1..m) : i1[S] # i2[S]}
<1> SUFFICES ASSUME T # {} PROVE FALSE
  <2>1. n \notin T => i1[1..n] = i2[1..n]
    OBVIOUS
  <2> QED
    BY <2>1
<1>0. T \in SUBSET Nat
  OBVIOUS
<1>1. PICK m \in T : \A k \in T : m <= k
  <2> HIDE DEF T
  <2> QED
    BY <1>0, LeastNat
<1>2. PICK S \in SUBSET (1..m) : i1[S] # i2[S]
  BY <1>1
<1>3. S \in SUBSET (1..n) /\ S \in SUBSET (1..p) /\ m \in 0..n
  BY <1>1
<1>4. i1[S] = Step(i1, base, l1, S) /\ i2[S] = Step(i2, base, l2, S)
  BY <1>3 DEF Iterates
<1>5. S # {}
  BY <1>2, <1>4 DEF Step
<1>6. m \in 1..n
  <2>1. PICK x \in S : TRUE
    BY <1>5
  <2>2. x \in 1..m
    BY <1>2, <2>1
  <2> QED
    BY <1>3, <2>2
<1>7. m - 1 \notin T /\ m - 1 \in 0..n
  <2>1. m - 1 \in 0..n /\ ~(m <= m - 1)
    BY <1>6
  <2> QED
    BY <1>1, <2>1
<1>8. \A R \in SUBSET (1..(m - 1)) : i1[R] = i2[R]
  BY <1>7
<1>9. m \in S
  BY <1>2, <1>6, <1>8
<1>10. Max(S) = m /\ S \ {m} \in SUBSET (1..(m - 1))
  BY <1>6, <1>9, MaxOf
<1>11. i1[S \ {m}] = i2[S \ {m}] /\ l1[m] = l2[m]
  BY <1>6, <1>8, <1>10
<1> QED
  BY <1>2, <1>4, <1>5, <1>10, <1>11 DEF Step

\* The fold is its value at all the records.
LEMMA FoldIter ==
  ASSUME NEW base, NEW lines, NEW n \in Nat, DOMAIN lines = 1..n
  PROVE  \E iter : Iterates(iter, base, lines, n) /\ ApplyEvents(base, lines) = iter[1..n]
<1> DEFINE iter == CHOOSE i : i = [S \in SUBSET DOMAIN lines |-> Step(i, base, lines, S)]
<1>1. ApplyEvents(base, lines) = iter[DOMAIN lines]
  BY DEF ApplyEvents, FoldLeft, MapThenFoldSet, Step
<1>2. \E i : i = [S \in SUBSET DOMAIN lines |-> Step(i, base, lines, S)]
  <2>1. PICK i : Iterates(i, base, lines, n)
    BY IterExists
  <2> QED
    BY <2>1 DEF Iterates
<1>3. iter = [S \in SUBSET DOMAIN lines |-> Step(iter, base, lines, S)]
  BY <1>2
<1> HIDE DEF iter
<1> QED
  BY <1>1, <1>3 DEF Iterates

\* Loading no record changes nothing.
LEMMA ApplyNone ==
  ASSUME NEW base, NEW lines
  PROVE  ApplyEvents(base, SubSeq(lines, 1, 0)) = base
<1>1. DOMAIN SubSeq(lines, 1, 0) = 1..0
  OBVIOUS
<1>2. PICK iter : /\ Iterates(iter, base, SubSeq(lines, 1, 0), 0)
                  /\ ApplyEvents(base, SubSeq(lines, 1, 0)) = iter[1..0]
  BY <1>1, FoldIter
<1>3. iter[{}] = Step(iter, base, SubSeq(lines, 1, 0), {})
  BY <1>2 DEF Iterates
<1> QED
  BY <1>2, <1>3 DEF Step

\* Loading one more record is one more ApplyEvent.
LEMMA ApplyNext ==
  ASSUME NEW base, NEW R, NEW lines \in Seq(R), NEW k \in 0..(Len(lines) - 1)
  PROVE  ApplyEvents(base, SubSeq(lines, 1, k + 1))
           = ApplyEvent(ApplyEvents(base, SubSeq(lines, 1, k)), lines[k + 1])
<1> DEFINE s == SubSeq(lines, 1, k)
           u == SubSeq(lines, 1, k + 1)
<1>1. /\ DOMAIN s = 1..k /\ DOMAIN u = 1..(k + 1) /\ k \in Nat /\ k + 1 \in Nat
      /\ \A i \in 1..k : s[i] = u[i]
      /\ u[k + 1] = lines[k + 1]
  OBVIOUS
<1> HIDE DEF s, u
<1>2. PICK i1 : Iterates(i1, base, s, k) /\ ApplyEvents(base, s) = i1[1..k]
  BY <1>1, FoldIter
<1>3. PICK i2 : Iterates(i2, base, u, k + 1) /\ ApplyEvents(base, u) = i2[1..(k + 1)]
  BY <1>1, FoldIter
<1>4. Max(1..(k + 1)) = k + 1 /\ (1..(k + 1)) \ {k + 1} = 1..k
  BY <1>1, MaxOf
<1>5. i1[1..k] = i2[1..k]
  <2>1. PICK n, p : n = k /\ p = k + 1
    OBVIOUS
  <2>2. n \in Nat /\ p \in Nat /\ n <= p /\ \A i \in 1..n : s[i] = u[i]
    BY <1>1, <2>1
  <2>3. Iterates(i1, base, s, n) /\ Iterates(i2, base, u, p)
    BY <1>2, <1>3, <2>1
  <2>4. i1[1..n] = i2[1..n]
    BY ONLY <2>2, <2>3, IterAgree
  <2> QED
    BY <2>1, <2>4
<1>6. i2[1..(k + 1)] = Step(i2, base, u, 1..(k + 1))
  BY <1>1, <1>3 DEF Iterates
<1>7. i2[1..(k + 1)] = ApplyEvent(i2[1..k], u[k + 1])
  <2>1. k + 1 \in 1..(k + 1)
    BY <1>1
  <2> QED
    BY <1>4, <1>6, <2>1 DEF Step
<1>8. ApplyEvents(base, u) = ApplyEvent(ApplyEvents(base, s), lines[k + 1])
  BY <1>1, <1>2, <1>3, <1>5, <1>7
<1> QED
  BY <1>8 DEF s, u

\* Induction up to n, for a set instead of a predicate.
LEMMA UpTo ==
  ASSUME NEW n \in Nat, NEW G, 0 \in G, \A k \in 0..(n - 1) : k \in G => k + 1 \in G
  PROVE  \A k \in 0..n : k \in G
<1> DEFINE T == {m \in 0..n : m \notin G}
<1> SUFFICES ASSUME T # {} PROVE FALSE
  OBVIOUS
<1>1. T \in SUBSET Nat
  OBVIOUS
<1>2. PICK m \in T : \A k \in T : m <= k
  <2> HIDE DEF T
  <2> QED
    BY <1>1, LeastNat
<1>3. m \in 0..n /\ m \notin G /\ m # 0
  BY <1>2
<1>4. m - 1 \in 0..(n - 1) /\ ~(m <= m - 1)
  BY <1>3
<1>5. m - 1 \in G
  BY <1>2, <1>4
<1>6. (m - 1) + 1 \in G
  BY <1>4, <1>5
<1> QED
  BY <1>3, <1>6

(***************************************************************************)
(* Reading the log.                                                        *)
(***************************************************************************)
Line == [event : Event, newline : BOOLEAN]

\* A log of whole lines is read as it is.
LEMMA ReadWhole ==
  ASSUME NEW lines, \A i \in DOMAIN lines : lines[i].newline
  PROVE  ReadAll(lines) = lines
BY DEF ReadAll

\* What is read are events, if a line that ends in a newline is one.
LEMMA ReadType ==
  ASSUME NEW lines \in Seq(Record),
         \A i \in DOMAIN lines : lines[i].newline => lines[i].event # None
  PROVE  ReadAll(lines) \in Seq(Line)
<1> DEFINE cut == {i \in DOMAIN lines : ~lines[i].newline}
           first == CHOOSE i \in cut : \A j \in cut : i <= j
<1>0. ReadAll(lines) = IF cut = {} \/ (cut = {Len(lines)} /\ lines[Len(lines)].event # None)
                       THEN lines ELSE SubSeq(lines, 1, first - 1)
  BY DEF ReadAll
<1>1. \A i \in DOMAIN lines : lines[i] \in Record
  OBVIOUS
<1>2. \A i \in DOMAIN lines : lines[i].event # None => lines[i] \in Line
  BY <1>1 DEF Record, Line
<1>3. CASE cut = {} \/ (cut = {Len(lines)} /\ lines[Len(lines)].event # None)
  <2>1. \A i \in DOMAIN lines : lines[i] \in Line
    BY <1>2, <1>3
  <2>2. lines \in Seq(Line)
    BY <2>1
  <2>3. ReadAll(lines) = lines
    BY <1>0, <1>3
  <2> QED
    BY <2>2, <2>3
<1>4. CASE ~(cut = {} \/ (cut = {Len(lines)} /\ lines[Len(lines)].event # None))
  <2>1. cut \in SUBSET Nat /\ cut # {}
    <3>1. DOMAIN lines \in SUBSET Nat
      OBVIOUS
    <3>2. cut # {}
      BY <1>4
    <3> QED
      BY <3>1, <3>2
  <2>2. \E i \in cut : \A j \in cut : i <= j
    <3> HIDE DEF cut
    <3> QED
      BY <2>1, LeastNat
  <2>3. first \in cut /\ \A j \in cut : first <= j
    BY <2>2
  <2> HIDE DEF first
  <2>4. ReadAll(lines) = SubSeq(lines, 1, first - 1)
    BY <1>0, <1>4
  <2>5. first \in 1..Len(lines)
    BY <2>3
  <2>6. \A i \in 1..(first - 1) : lines[i] \in Line
    <3> SUFFICES ASSUME NEW i \in 1..(first - 1) PROVE lines[i] \in Line
      OBVIOUS
    <3>1. i \in DOMAIN lines /\ i \notin cut
      BY <2>3, <2>5
    <3> QED
      BY <1>2, <3>1
  <2>7. SubSeq(lines, 1, first - 1) \in Seq(Line)
    BY <2>5, <2>6
  <2> QED
    BY <2>4, <2>7
<1> QED
  BY <1>3, <1>4

(***************************************************************************)
(* Contents, and what one event makes of them.                             *)
(***************************************************************************)
LEMMA ContentFacts ==
  /\ Nothing \notin Content /\ Nothing \in [Cell -> Val]
  /\ \A c \in Cell : Nothing[c] = None
  /\ Content \subseteq [Cell -> Val]
  /\ Told \in Cell /\ \A f \in File, fld \in Field : <<f, fld>> \in Cell /\ <<f, fld>> # Told
<1>1. PICK f \in File : TRUE
  BY FileStoreAssumption
<1>2. \A g \in File, fld \in Field : <<g, fld>> \in Cell /\ <<g, fld>> # Told
  BY FileStoreAssumption DEF Cell, Told
<1>3. <<f, "status">> \in Cell
  BY <1>2 DEF Field
<1>4. Nothing[<<f, "status">>] = None
  BY <1>3 DEF Nothing
<1>5. Nothing \notin Content
  BY <1>4, FileStoreAssumption DEF Content
<1>6. Nothing \in [Cell -> Val]
  BY DEF Nothing, Val
<1> QED
  BY <1>2, <1>5, <1>6 DEF Nothing, Content, Cell

LEMMA KeepNotVal == Keep \notin Val /\ None # Keep
BY FileStoreAssumption DEF Val, TaskStatusSet, Keep

LEMMA PutContent ==
  ASSUME NEW x \in Content, NEW puts \in Puts
  PROVE  /\ Put(x, puts) \in Content
         /\ \A c \in Cell : Put(x, puts)[c] = IF puts[c] = Keep THEN x[c] ELSE puts[c]
<1>1. \A c \in Cell : Put(x, puts)[c] = IF puts[c] = Keep THEN x[c] ELSE puts[c]
  BY DEF Put
<1>2. \A c \in Cell : Put(x, puts)[c] \in Val
  BY <1>1 DEF Content, Puts
<1>3. Put(x, puts) \in [Cell -> Val]
  BY <1>2 DEF Put
<1>4. ASSUME NEW f \in File PROVE Put(x, puts)[<<f, "status">>] \in Value
  <2>1. <<f, "status">> \in Cell /\ <<f, "status">> # Told
    BY ContentFacts DEF Field
  <2>2. x[<<f, "status">>] \in Value
    BY DEF Content
  <2>3. puts[<<f, "status">>] = Keep \/ puts[<<f, "status">>] \in Value
    BY <2>1 DEF Puts
  <2> QED
    BY <1>1, <2>1, <2>2, <2>3
<1> QED
  BY <1>1, <1>3, <1>4 DEF Content

LEMMA EventType ==
  ASSUME NEW e \in Event
  PROVE  /\ e.task \in Task /\ e.new \in BOOLEAN
         /\ e.new => e.puts \in Content /\ \A c \in Cell : e.puts[c] # Keep
         /\ ~e.new => e.puts \in Puts
<1>1. CASE e \in [task : Task, new : {TRUE}, puts : Content]
  <2>1. e.task \in Task /\ e.new = TRUE /\ e.puts \in Content
    BY <1>1
  <2>2. \A c \in Cell : e.puts[c] \in Val
    BY <2>1 DEF Content
  <2> QED
    BY <2>1, <2>2, KeepNotVal
<1>2. CASE e \in [task : Task, new : {FALSE}, puts : Puts]
  BY <1>2
<1> QED
  BY <1>1, <1>2 DEF Event

\* What one event makes of task t.
LEMMA EventAt ==
  ASSUME NEW ts \in Held, NEW r \in Line, NEW t \in Task
  PROVE  LET e   == r.event
             new == ApplyEvent(ts, r)[t]
         IN  /\ ApplyEvent(ts, r) \in Held
             /\ e.task # t => new = ts[t]
             /\ e.task = t /\ e.new => new = e.puts /\ e.puts \in Content
             /\ e.task = t /\ ~e.new /\ ts[t] = Nothing => new = Nothing
             /\ e.task = t /\ ~e.new /\ ts[t] # Nothing =>
                  /\ new \in Content
                  /\ \A c \in Cell : new[c] = IF e.puts[c] = Keep THEN ts[t][c] ELSE e.puts[c]
<1>1. PICK e : e = r.event
  OBVIOUS
<1>2. e \in Event
  BY <1>1 DEF Line
<1>3. /\ e.task \in Task /\ e.new \in BOOLEAN
      /\ e.new => e.puts \in Content
      /\ ~e.new => e.puts \in Puts
  BY <1>2, EventType
<1>4. CASE e.new
  BY <1>1, <1>3, <1>4 DEF ApplyEvent, Held
<1>5. CASE ~e.new /\ ts[e.task] = Nothing
  BY <1>1, <1>3, <1>5 DEF ApplyEvent
<1>6. CASE ~e.new /\ ts[e.task] # Nothing
  <2>1. ts[e.task] \in Content
    BY <1>3, <1>6 DEF Held
  <2>2. PICK y : y = Put(ts[e.task], e.puts)
    OBVIOUS
  <2>3. /\ y \in Content
        /\ \A c \in Cell : y[c] = IF e.puts[c] = Keep THEN ts[e.task][c] ELSE e.puts[c]
    BY <1>3, <1>6, <2>1, <2>2, PutContent
  <2>4. ApplyEvent(ts, r) = [ts EXCEPT ![e.task] = y]
    BY <1>1, <1>6, <2>2 DEF ApplyEvent
  <2> QED
    BY <1>1, <1>3, <1>6, <2>3, <2>4 DEF Held
<1> QED
  BY <1>4, <1>5, <1>6

\* A task that is known stays known.
LEMMA EventKeeps ==
  ASSUME NEW ts \in Held, NEW r \in Line, NEW t \in Task, ts[t] # Nothing
  PROVE  ApplyEvent(ts, r)[t] # Nothing
<1>1. PICK e, x : e = r.event /\ x = ApplyEvent(ts, r)[t]
  OBVIOUS
<1>2. e \in Event
  BY <1>1 DEF Line
<1>3. e.new \in BOOLEAN
  BY <1>2, EventType
<1>4. x = ts[t] \/ x \in Content
  BY <1>1, <1>3, EventAt
<1> QED
  BY <1>1, <1>4, ContentFacts

\* What is loaded is tasks, and those that the snapshot knows.
LEMMA ApplyEventsType ==
  ASSUME NEW base \in Held, NEW lines \in Seq(Line)
  PROVE  /\ \A k \in 0..Len(lines) : ApplyEvents(base, SubSeq(lines, 1, k)) \in Held
         /\ ApplyEvents(base, lines) \in Held
         /\ \A t \in Task : base[t] # Nothing => ApplyEvents(base, lines)[t] # Nothing
<1> DEFINE A(k) == ApplyEvents(base, SubSeq(lines, 1, k))
           G == {k \in 0..Len(lines) :
                   A(k) \in Held /\ \A t \in Task : base[t] # Nothing => A(k)[t] # Nothing}
<1>1. 0 \in G
  BY ApplyNone
<1>2. ASSUME NEW k \in 0..(Len(lines) - 1), k \in G PROVE k + 1 \in G
  <2>1. lines[k + 1] \in Line /\ k + 1 \in 0..Len(lines)
    OBVIOUS
  <2>2. A(k + 1) = ApplyEvent(A(k), lines[k + 1])
    BY ApplyNext
  <2>3. A(k) \in Held /\ \A t \in Task : base[t] # Nothing => A(k)[t] # Nothing
    BY <1>2
  <2> HIDE DEF A
  <2>4. \A t \in Task : base[t] # Nothing => A(k + 1)[t] # Nothing
    BY <2>1, <2>2, <2>3, EventKeeps
  <2>5. A(k + 1) \in Held
    <3>1. CASE Task = {}
      <4>1. A(k + 1) = A(k)
        <5>1. lines[k + 1].event.task \in Task
          <6>1. lines[k + 1].event \in Event
            BY <2>1 DEF Line
          <6> QED
            BY <6>1, EventType
        <5> QED
          BY <3>1, <5>1
      <4> QED
        BY <2>3, <4>1
    <3>2. CASE Task # {}
      BY <2>1, <2>2, <2>3, <3>2, EventAt
    <3> QED
      BY <3>1, <3>2
  <2> QED
    BY <2>1, <2>4, <2>5
<1>3. \A k \in 0..Len(lines) : k \in G
  <2> HIDE DEF G
  <2> QED
    BY <1>1, <1>2, UpTo
<1>4. SubSeq(lines, 1, Len(lines)) = lines /\ Len(lines) \in 0..Len(lines)
  OBVIOUS
<1>5. \A k \in 0..Len(lines) : A(k) \in Held
  BY <1>3
<1>6. \A t \in Task : base[t] # Nothing => A(Len(lines))[t] # Nothing
  BY <1>3, <1>4
<1> QED
  BY <1>4, <1>5, <1>6

\* A log applied to other tasks, which hold b for a task, gives y instead of x for it: an
\* update is ignored where the task is unknown, and sets some cells where it is known.
Overlays(b, x, y) ==
  \/ y = x
  \/ y = Nothing /\ b = Nothing
  \/ x = Nothing /\ b # Nothing
  \/ x # Nothing /\ y # Nothing /\ b # Nothing /\ \A c \in Cell : y[c] \in {x[c], b[c]}

LEMMA OverlayNext ==
  ASSUME NEW ts \in Held, NEW us \in Held, NEW r \in Line, NEW t \in Task, NEW b,
         Overlays(b, ts[t], us[t])
  PROVE  Overlays(b, ApplyEvent(ts, r)[t], ApplyEvent(us, r)[t])
<1>1. PICK e, x, y : e = r.event /\ x = ApplyEvent(ts, r)[t] /\ y = ApplyEvent(us, r)[t]
  OBVIOUS
<1>2. e \in Event
  BY <1>1 DEF Line
<1>3. e.new \in BOOLEAN
  BY <1>2, EventType
<1>4. /\ e.task # t => x = ts[t]
      /\ e.task = t /\ e.new => x = e.puts
      /\ e.task = t /\ ~e.new /\ ts[t] = Nothing => x = Nothing
      /\ e.task = t /\ ~e.new /\ ts[t] # Nothing =>
           /\ x \in Content
           /\ \A c \in Cell : x[c] = IF e.puts[c] = Keep THEN ts[t][c] ELSE e.puts[c]
  BY <1>1, EventAt
<1>5. /\ e.task # t => y = us[t]
      /\ e.task = t /\ e.new => y = e.puts
      /\ e.task = t /\ ~e.new /\ us[t] = Nothing => y = Nothing
      /\ e.task = t /\ ~e.new /\ us[t] # Nothing =>
           /\ y \in Content
           /\ \A c \in Cell : y[c] = IF e.puts[c] = Keep THEN us[t][c] ELSE e.puts[c]
  BY <1>1, EventAt
<1>6. Nothing \notin Content /\ Content \subseteq [Cell -> Val]
  BY ContentFacts
<1> SUFFICES Overlays(b, x, y)
  BY <1>1
<1>7. CASE e.task # t \/ e.new
  BY <1>3, <1>4, <1>5, <1>7 DEF Overlays
<1>8. CASE e.task = t /\ ~e.new
  <2>1. CASE ts[t] = Nothing \/ us[t] = Nothing
    BY <1>4, <1>5, <1>8, <2>1 DEF Overlays
  <2>2. CASE ts[t] # Nothing /\ us[t] # Nothing
    <3>1. x \in Content /\ y \in Content /\ x # Nothing /\ y # Nothing
      BY <1>4, <1>5, <1>6, <1>8, <2>2
    <3>2. CASE us[t] = ts[t]
      <4>1. \A c \in Cell : x[c] = y[c]
        BY <1>4, <1>5, <1>8, <2>2, <3>2
      <4>2. x \in [Cell -> Val] /\ y \in [Cell -> Val]
        BY <1>6, <3>1
      <4> QED
        BY <4>1, <4>2 DEF Overlays
    <3>3. CASE us[t] # ts[t]
      <4>1. b # Nothing /\ \A c \in Cell : us[t][c] \in {ts[t][c], b[c]}
        BY <2>2, <3>3 DEF Overlays
      <4>2. \A c \in Cell : y[c] \in {x[c], b[c]}
        BY <1>4, <1>5, <1>8, <2>2, <4>1
      <4> QED
        BY <3>1, <4>1, <4>2 DEF Overlays
    <3> QED
      BY <3>2, <3>3
  <2> QED
    BY <2>1, <2>2
<1> QED
  BY <1>7, <1>8

\* The log of a store that has written a snapshot, on top of the old snapshot and of the
\* new one.
LEMMA OverlayAll ==
  ASSUME NEW old \in Held, NEW new \in Held, NEW lines \in Seq(Line), NEW t \in Task
  PROVE  Overlays(new[t], ApplyEvents(old, lines)[t], ApplyEvents(new, lines)[t])
<1> DEFINE O(k) == ApplyEvents(old, SubSeq(lines, 1, k))
           N(k) == ApplyEvents(new, SubSeq(lines, 1, k))
           G    == {k \in 0..Len(lines) : Overlays(new[t], O(k)[t], N(k)[t])}
<1>1. 0 \in G
  <2>1. O(0) = old /\ N(0) = new
    BY ApplyNone
  <2>2. Overlays(new[t], old[t], new[t])
    BY DEF Overlays
  <2> QED
    BY <2>1, <2>2
<1>2. ASSUME NEW k \in 0..(Len(lines) - 1), k \in G PROVE k + 1 \in G
  <2>1. lines[k + 1] \in Line /\ k + 1 \in 0..Len(lines) /\ k \in 0..Len(lines)
    OBVIOUS
  <2>2. O(k) \in Held /\ N(k) \in Held
    BY <2>1, ApplyEventsType
  <2>3. O(k + 1) = ApplyEvent(O(k), lines[k + 1]) /\ N(k + 1) = ApplyEvent(N(k), lines[k + 1])
    BY ApplyNext
  <2>4. Overlays(new[t], O(k)[t], N(k)[t])
    BY <1>2
  <2> HIDE DEF O, N
  <2>5. Overlays(new[t], O(k + 1)[t], N(k + 1)[t])
    BY <2>1, <2>2, <2>3, <2>4, OverlayNext
  <2> QED
    BY <2>1, <2>5
<1>3. \A k \in 0..Len(lines) : k \in G
  <2> HIDE DEF G
  <2> QED
    BY <1>1, <1>2, UpTo
<1>4. SubSeq(lines, 1, Len(lines)) = lines /\ Len(lines) \in 0..Len(lines)
  OBVIOUS
<1>5. \A k \in 0..Len(lines) : Overlays(new[t], O(k)[t], N(k)[t])
  BY <1>3
<1> QED
  BY <1>4, <1>5

(***************************************************************************)
(* What a restart may find.                                                *)
(***************************************************************************)
LEMMA PossibleIs ==
  ASSUME NEW t \in Task, NEW x
  PROVE  x \in Map!Possible(t) <=>
           x \in Content \cup {Nothing} /\ \A c \in Cell : x[c] \in {tasks[t][c]} \cup unsure[t][c]
BY DEF Map!Possible

\* An event with values that a call has offered keeps it that way.
LEMMA EventFits ==
  ASSUME NEW ts \in Held, NEW r \in Line, NEW t \in Task, ts[t] \in Map!Possible(t),
         \A c \in Cell : r.event.puts[c] = Keep \/ r.event.puts[c] \in unsure[r.event.task][c]
  PROVE  ApplyEvent(ts, r)[t] \in Map!Possible(t)
<1>1. PICK e, x : e = r.event /\ x = ApplyEvent(ts, r)[t]
  OBVIOUS
<1>2. e \in Event
  BY <1>1 DEF Line
<1>3. e.new \in BOOLEAN /\ (e.new => \A c \in Cell : e.puts[c] # Keep)
  BY <1>2, EventType
<1>4. /\ e.task # t => x = ts[t]
      /\ e.task = t /\ e.new => x = e.puts /\ x \in Content
      /\ e.task = t /\ ~e.new /\ ts[t] = Nothing => x = Nothing
      /\ e.task = t /\ ~e.new /\ ts[t] # Nothing =>
           /\ x \in Content
           /\ \A c \in Cell : x[c] = IF e.puts[c] = Keep THEN ts[t][c] ELSE e.puts[c]
  BY <1>1, EventAt
<1>5. \A c \in Cell : e.puts[c] = Keep \/ e.puts[c] \in unsure[e.task][c]
  BY <1>1
<1>6. ts[t] \in Content \cup {Nothing} /\ \A c \in Cell : ts[t][c] \in {tasks[t][c]} \cup unsure[t][c]
  BY PossibleIs
<1>7. CASE x = ts[t]
  BY <1>1, <1>7
<1>8. CASE e.task = t /\ e.new
  <2>1. x \in Content /\ \A c \in Cell : x[c] \in {tasks[t][c]} \cup unsure[t][c]
    BY <1>3, <1>4, <1>5, <1>8
  <2> QED
    BY <1>1, <2>1, PossibleIs
<1>9. CASE e.task = t /\ ~e.new /\ ts[t] # Nothing
  <2>1. x \in Content /\ \A c \in Cell : x[c] \in {tasks[t][c]} \cup unsure[t][c]
    BY <1>4, <1>5, <1>6, <1>9
  <2> QED
    BY <1>1, <2>1, PossibleIs
<1> QED
  BY <1>3, <1>4, <1>7, <1>8, <1>9

\* A log applied to the tasks of the store instead of older ones, too.
LEMMA OverlayFits ==
  ASSUME tasks \in Held, NEW t \in Task, NEW x, NEW y \in Content \cup {Nothing},
         x \in Map!Possible(t), tasks[t] # Nothing => x # Nothing, Overlays(tasks[t], x, y)
  PROVE  y \in Map!Possible(t)
<1>1. \A c \in Cell : x[c] \in {tasks[t][c]} \cup unsure[t][c]
  BY PossibleIs
<1>2. CASE y = x
  BY <1>2
<1>3. CASE y = tasks[t]
  BY <1>3, PossibleIs
<1>4. CASE \A c \in Cell : y[c] \in {x[c], tasks[t][c]}
  <2>1. \A c \in Cell : y[c] \in {tasks[t][c]} \cup unsure[t][c]
    BY <1>1, <1>4
  <2> QED
    BY <2>1, PossibleIs
<1> QED
  BY <1>2, <1>3, <1>4 DEF Overlays

(***************************************************************************)
(* The records of a call.                                                  *)
(***************************************************************************)
\* A call that may be in progress.
Calls(k) ==
  k \in Call /\ (k.file # None => tasks[k.task] # Nothing)

LEMMA CreatedContent == Created \in Content /\ \A c \in Cell : Created[c] \in {New, None}
<1>1. \A c \in Cell : Created[c] = IF c[2] = "status" THEN New ELSE None
  BY DEF Created
<1>2. Created \in [Cell -> Val]
  BY FileStoreAssumption DEF Created, Val
<1>3. \A f \in File : Created[<<f, "status">>] = New
  BY <1>1, ContentFacts DEF Field
<1> QED
  BY <1>1, <1>2, <1>3, FileStoreAssumption DEF Content

\* What a Mark call makes of a task.
LEMMA MarkedIs ==
  ASSUME NEW x \in Content, NEW f \in File, NEW v \in Value
  PROVE  /\ Marked(x, f, v) \in Content
         /\ \A c \in Cell \ {Told} : Marked(x, f, v)[c] = IF c \in {f} \X Sets(v) THEN v ELSE x[c]
         /\ Marked(x, f, v)[Told] \in TaskStatusSet \cup {None}
<1> DEFINE m == [c \in Cell |-> IF c \in {f} \X Sets(v) THEN v ELSE x[c]]
           s == IF Derived(m) # Status(x) THEN Derived(m) ELSE None
<1>1. Marked(x, f, v) = [m EXCEPT ![Told] = s]
  BY DEF Marked
<1>2. Derived(m) \in TaskStatusSet
  BY DEF Derived, ObtainStatus, TaskStatusSet
<1>3. s \in TaskStatusSet \cup {None} /\ s \in Val
  BY <1>2 DEF Val
<1>4. \A c \in Cell : m[c] \in Val
  BY DEF Content, Val
<1>5. m \in [Cell -> Val]
  BY <1>4
<1>6. ASSUME NEW g \in File
      PROVE  /\ <<g, "status">> \in Cell /\ <<g, "status">> # Told
             /\ m[<<g, "status">>] \in Value
  <2>1. <<g, "status">> \in Cell /\ <<g, "status">> # Told
    BY ContentFacts DEF Field
  <2>2. x[<<g, "status">>] \in Value
    BY DEF Content
  <2> QED
    BY <2>1, <2>2
<1>7. \A c \in Cell \ {Told} : m[c] = IF c \in {f} \X Sets(v) THEN v ELSE x[c]
  OBVIOUS
<1> HIDE DEF m, s
<1>8. PICK y : y = [m EXCEPT ![Told] = s]
  OBVIOUS
<1>9. /\ y \in [Cell -> Val] /\ y[Told] = s
      /\ \A c \in Cell \ {Told} : y[c] = m[c]
  BY <1>3, <1>5, <1>8, ContentFacts
<1>10. y \in Content
  BY <1>6, <1>9 DEF Content
<1> QED
  BY <1>1, <1>3, <1>7, <1>8, <1>9, <1>10

LEMMA ResultContent ==
  ASSUME tasks \in Held, NEW k, Calls(k)
  PROVE  Result(k) \in Content
<1>1. k.file = None \/ (k.file \in File /\ k.value \in Value /\ tasks[k.task] \in Content)
  BY DEF Calls, Call, Held
<1> QED
  BY <1>1, CreatedContent, MarkedIs DEF Result

\* The three records of a Mark call.
StatusRecord(k) ==
  [task |-> k.task, new |-> FALSE,
   puts |-> [[c \in Cell |->
                IF c \in {<<k.file, "status">>} \cup {d \in {<<k.file, "size">>} : Result(k)[d] # None}
                THEN Result(k)[c] ELSE Keep] EXCEPT ![Told] = None]]

MetaRecord(k) ==
  [task |-> k.task, new |-> FALSE,
   puts |-> [c \in Cell |->
               IF c \in {<<k.file, "times">>} \cup {d \in {<<k.file, "name">>} : Result(k)[d] # None}
               THEN Result(k)[c] ELSE Keep]]

TaskRecord(k) ==
  [task |-> k.task, new |-> FALSE,
   puts |-> [c \in Cell |-> IF c \in {Told} THEN Result(k)[c] ELSE Keep]]

LEMMA EventsAre ==
  ASSUME NEW k
  PROVE  /\ k.file = None => Events(k) = <<[task |-> k.task, new |-> TRUE, puts |-> Result(k)]>>
         /\ k.file # None => Events(k) =
              <<StatusRecord(k)>>
              \o (IF StatusOf[k.value] = "queued" THEN <<>> ELSE <<MetaRecord(k)>>)
              \o (IF Result(k)[Told] = None THEN <<>> ELSE <<TaskRecord(k)>>)
BY DEF Events, StatusRecord, MetaRecord, TaskRecord

\* They are events, and put the values of the result in cells other than Told.
LEMMA RecordTypes ==
  ASSUME tasks \in Held, NEW k, Calls(k), k.file # None
  PROVE  LET m == Result(k)
             a == StatusRecord(k)
             b == MetaRecord(k)
             d == TaskRecord(k)
         IN  /\ a \in Event /\ b \in Event /\ d \in Event
             /\ a.task = k.task /\ b.task = k.task /\ d.task = k.task
             /\ ~a.new /\ ~b.new /\ ~d.new
             /\ \A c \in Cell \ {Told} :
                  /\ a.puts[c] = IF \/ c = <<k.file, "status">>
                                    \/ c = <<k.file, "size">> /\ m[c] # None THEN m[c] ELSE Keep
                  /\ b.puts[c] = IF \/ c = <<k.file, "times">>
                                    \/ c = <<k.file, "name">> /\ m[c] # None THEN m[c] ELSE Keep
                  /\ d.puts[c] = Keep
             /\ a.puts[Told] = None /\ b.puts[Told] = Keep /\ d.puts[Told] = m[Told]
<1> DEFINE m == Result(k)
           f == k.file
           A == {<<f, "status">>} \cup {c \in {<<f, "size">>} : m[c] # None}
           B == {<<f, "times">>} \cup {c \in {<<f, "name">>} : m[c] # None}
           S(cells) == [c \in Cell |-> IF c \in cells THEN m[c] ELSE Keep]
<1>1. m \in Content /\ f \in File /\ k.task \in Task
  BY ResultContent DEF Calls, Call
<1>2. /\ \A c \in Cell : m[c] \in Val
      /\ \A g \in File : m[<<g, "status">>] \in Value
  BY <1>1 DEF Content
<1>3. ASSUME NEW cells PROVE S(cells) \in Puts /\ [S(cells) EXCEPT ![Told] = None] \in Puts
  <2>1. S(cells) \in [Cell -> Val \cup {Keep}]
    BY <1>2
  <2>2. \A g \in File : S(cells)[<<g, "status">>] \in Value \cup {Keep}
    <3>1. \A g \in File : <<g, "status">> \in Cell
      BY ContentFacts DEF Field
    <3> QED
      BY <1>2, <3>1
  <2>3. [S(cells) EXCEPT ![Told] = None] \in [Cell -> Val \cup {Keep}]
    BY <2>1 DEF Val
  <2>4. \A g \in File :
          [S(cells) EXCEPT ![Told] = None][<<g, "status">>] = S(cells)[<<g, "status">>]
    <3>1. \A g \in File : <<g, "status">> # Told /\ <<g, "status">> \in Cell
      BY ContentFacts DEF Field
    <3> QED
      BY <2>1, <3>1
  <2> QED
    BY <2>1, <2>2, <2>3, <2>4 DEF Puts
<1>4. /\ StatusRecord(k) = [task |-> k.task, new |-> FALSE, puts |-> [S(A) EXCEPT ![Told] = None]]
      /\ MetaRecord(k) = [task |-> k.task, new |-> FALSE, puts |-> S(B)]
      /\ TaskRecord(k) = [task |-> k.task, new |-> FALSE, puts |-> S({Told})]
  BY DEF StatusRecord, MetaRecord, TaskRecord
<1>5. \A p \in Puts : [task |-> k.task, new |-> FALSE, puts |-> p] \in Event
  BY <1>1 DEF Event
<1>6. Told \in Cell /\ Told \notin B /\ Told \in {Told}
  BY <1>1, ContentFacts DEF Field
<1>7. ASSUME NEW cells, NEW c \in Cell PROVE S(cells)[c] = IF c \in cells THEN m[c] ELSE Keep
  OBVIOUS
<1>8. \A c \in Cell \ {Told} :
        /\ c \in A <=> c = <<f, "status">> \/ (c = <<f, "size">> /\ m[c] # None)
        /\ c \in B <=> c = <<f, "times">> \/ (c = <<f, "name">> /\ m[c] # None)
  OBVIOUS
<1>9. PICK pa, pb, pd : pa = [S(A) EXCEPT ![Told] = None] /\ pb = S(B) /\ pd = S({Told})
  OBVIOUS
<1>10. pa \in Puts /\ pb \in Puts /\ pd \in Puts
  BY <1>3, <1>9
<1>11. /\ pa[Told] = None /\ pb[Told] = Keep /\ pd[Told] = m[Told]
       /\ \A c \in Cell \ {Told} :
            /\ pa[c] = IF c \in A THEN m[c] ELSE Keep
            /\ pb[c] = IF c \in B THEN m[c] ELSE Keep
            /\ pd[c] = Keep
  <2>1. pa[Told] = None /\ \A c \in Cell \ {Told} : pa[c] = S(A)[c]
    BY <1>6, <1>9
  <2>2. \A c \in Cell \ {Told} : c \in Cell /\ c \notin {Told}
    OBVIOUS
  <2> HIDE DEF S, A, B
  <2>3. /\ pb[Told] = Keep /\ pd[Told] = m[Told]
        /\ \A c \in Cell \ {Told} : pd[c] = Keep
    BY <1>6, <1>7, <1>9, <2>2
  <2>4. \A c \in Cell \ {Told} : /\ pa[c] = IF c \in A THEN m[c] ELSE Keep
                                 /\ pb[c] = IF c \in B THEN m[c] ELSE Keep
    BY <1>7, <1>9, <2>1, <2>2
  <2> QED
    BY <2>1, <2>3, <2>4
<1>12. /\ StatusRecord(k) = [task |-> k.task, new |-> FALSE, puts |-> pa]
       /\ MetaRecord(k) = [task |-> k.task, new |-> FALSE, puts |-> pb]
       /\ TaskRecord(k) = [task |-> k.task, new |-> FALSE, puts |-> pd]
  BY <1>4, <1>9
<1> HIDE DEF m, f, A, B, S
<1>13. /\ StatusRecord(k) \in Event /\ MetaRecord(k) \in Event /\ TaskRecord(k) \in Event
  BY <1>5, <1>10, <1>12
<1>14. /\ StatusRecord(k).task = k.task /\ ~StatusRecord(k).new /\ StatusRecord(k).puts = pa
       /\ MetaRecord(k).task = k.task /\ ~MetaRecord(k).new /\ MetaRecord(k).puts = pb
       /\ TaskRecord(k).task = k.task /\ ~TaskRecord(k).new /\ TaskRecord(k).puts = pd
  BY <1>12
<1>15. \A c \in Cell \ {Told} :
         /\ pa[c] = IF \/ c = <<f, "status">>
                       \/ c = <<f, "size">> /\ m[c] # None THEN m[c] ELSE Keep
         /\ pb[c] = IF \/ c = <<f, "times">>
                       \/ c = <<f, "name">> /\ m[c] # None THEN m[c] ELSE Keep
         /\ pd[c] = Keep
  BY <1>8, <1>11
<1>16. pa[Told] = None /\ pb[Told] = Keep /\ pd[Told] = m[Told]
  BY <1>11
<1> QED
  BY <1>13, <1>14, <1>15, <1>16 DEF m, f

\* Two sequences of the same length with the same elements.
LEMMA SeqEqual ==
  ASSUME NEW S, NEW u \in Seq(S), NEW v \in Seq(S), NEW n \in Nat, Len(u) = n, Len(v) = n,
         \A i \in 1..n : u[i] = v[i]
  PROVE  u = v
<1>1. u = [i \in 1..n |-> u[i]] /\ v = [i \in 1..n |-> v[i]]
  OBVIOUS
<1> QED
  BY <1>1

LEMMA AppendOne ==
  ASSUME NEW a, NEW x
  PROVE  Append(<<a>>, x) = <<a, x>>
<1> DEFINE S == {a, x}
<1>1. PICK u, v : u = Append(<<a>>, x) /\ v = <<a, x>>
  OBVIOUS
<1>2. u \in Seq(S) /\ Len(u) = 2 /\ u[1] = a /\ u[2] = x
  BY <1>1
<1>3. v \in Seq(S) /\ Len(v) = 2 /\ v[1] = a /\ v[2] = x
  BY <1>1
<1>4. \A i \in 1..2 : i = 1 \/ i = 2
  OBVIOUS
<1>5. u = v
  BY <1>2, <1>3, <1>4, SeqEqual
<1> QED
  BY <1>1, <1>5

LEMMA AppendTwo ==
  ASSUME NEW a, NEW b, NEW x
  PROVE  Append(<<a, b>>, x) = <<a, b, x>>
<1> DEFINE S == {a, b, x}
<1>1. PICK u, v : u = Append(<<a, b>>, x) /\ v = <<a, b, x>>
  OBVIOUS
<1>2. u \in Seq(S) /\ Len(u) = 3 /\ u[1] = a /\ u[2] = b /\ u[3] = x
  BY <1>1
<1>3. v \in Seq(S) /\ Len(v) = 3 /\ v[1] = a /\ v[2] = b /\ v[3] = x
  BY <1>1
<1>4. \A i \in 1..3 : i = 1 \/ i = 2 \/ i = 3
  OBVIOUS
<1>5. u = v
  BY <1>2, <1>3, <1>4, SeqEqual
<1> QED
  BY <1>1, <1>5

LEMMA Concats ==
  ASSUME NEW a, NEW b, NEW d
  PROVE  /\ <<a>> \o <<>> \o <<>> = <<a>> /\ <<a>> \o <<b>> \o <<>> = <<a, b>>
         /\ <<a>> \o <<>> \o <<d>> = <<a, d>> /\ <<a>> \o <<b>> \o <<d>> = <<a, b, d>>
<1> DEFINE S == {a, b, d}
<1>1. <<a>> \in Seq(S) /\ <<a, b>> \in Seq(S) /\ b \in S /\ d \in S
  OBVIOUS
<1> HIDE DEF S
<1>2. ASSUME NEW s \in Seq(S) PROVE s \o <<>> = s
  OBVIOUS
<1>3. ASSUME NEW s \in Seq(S), NEW x \in S PROVE s \o <<x>> = Append(s, x)
  OBVIOUS
<1>4. /\ Append(<<a>>, b) = <<a, b>> /\ Append(<<a>>, d) = <<a, d>>
      /\ Append(<<a, b>>, d) = <<a, b, d>>
  BY AppendOne, AppendTwo
<1> QED
  BY <1>1, <1>2, <1>3, <1>4

\* The records of a call are one to three, and fit the calls that the model has.
LEMMA EventsType ==
  ASSUME tasks \in Held, NEW k, Calls(k)
  PROVE  /\ Events(k) \in Seq(Event) /\ Len(Events(k)) \in {1, 2, 3}
         /\ \A i \in 1..Len(Events(k)) : Events(k)[i].task = k.task
<1>1. CASE k.file = None
  <2>1. PICK e : e = [task |-> k.task, new |-> TRUE, puts |-> Result(k)]
    OBVIOUS
  <2>2. e \in Event /\ e.task = k.task
    BY <2>1, ResultContent DEF Event, Calls, Call
  <2>3. Events(k) = <<e>>
    BY <1>1, <2>1, EventsAre
  <2> QED
    BY <2>2, <2>3
<1>2. CASE k.file # None
  <2>1. PICK a, b, d : a = StatusRecord(k) /\ b = MetaRecord(k) /\ d = TaskRecord(k)
    OBVIOUS
  <2>2. /\ a \in Event /\ b \in Event /\ d \in Event
        /\ a.task = k.task /\ b.task = k.task /\ d.task = k.task
    BY <1>2, <2>1, RecordTypes
  <2>3. Events(k) = <<a>> \o (IF StatusOf[k.value] = "queued" THEN <<>> ELSE <<b>>)
                         \o (IF Result(k)[Told] = None THEN <<>> ELSE <<d>>)
    BY <1>2, <2>1, EventsAre
  <2>4. Events(k) = IF StatusOf[k.value] = "queued"
                    THEN IF Result(k)[Told] = None THEN <<a>> ELSE <<a, d>>
                    ELSE IF Result(k)[Told] = None THEN <<a, b>> ELSE <<a, b, d>>
    BY <2>3, Concats
  <2>5. PICK evs : evs = Events(k)
    OBVIOUS
  <2>6. evs = <<a>> \/ evs = <<a, b>> \/ evs = <<a, d>> \/ evs = <<a, b, d>>
    BY <2>4, <2>5
  <2>7. /\ evs \in Seq(Event) /\ Len(evs) \in {1, 2, 3}
        /\ \A i \in 1..Len(evs) : evs[i].task = k.task
    <3>1. CASE evs = <<a>>
      BY <2>2, <3>1
    <3>2. CASE evs = <<a, b>>
      BY <2>2, <3>2
    <3>3. CASE evs = <<a, d>>
      BY <2>2, <3>3
    <3>4. CASE evs = <<a, b, d>>
      BY <2>2, <3>4
    <3> QED
      BY <2>6, <3>1, <3>2, <3>3, <3>4
  <2> QED
    BY <2>5, <2>7
<1> QED
  BY <1>1, <1>2

\* What the records put in a cell in the end is what the result has there; a cell that they
\* leave alone is as it was.
LEMMA EventsLast ==
  ASSUME tasks \in Held, NEW k, Calls(k)
  PROVE  LET evs == Events(k)
         IN  \A c \in Cell :
               \/ /\ PutIn(evs, c) = {} /\ Result(k)[c] = tasks[k.task][c]
                  /\ \A i \in 1..Len(evs) : evs[i].puts[c] = Keep
               \/ /\ PutIn(evs, c) # {}
                  /\ \E i \in 1..Len(evs) : /\ evs[i].puts[c] = Result(k)[c]
                                            /\ \A j \in (i + 1)..Len(evs) : evs[j].puts[c] = Keep
<1> SUFFICES ASSUME NEW c \in Cell
             PROVE  LET evs == Events(k) IN
               \/ /\ PutIn(evs, c) = {} /\ Result(k)[c] = tasks[k.task][c]
                  /\ \A i \in 1..Len(evs) : evs[i].puts[c] = Keep
               \/ /\ PutIn(evs, c) # {}
                  /\ \E i \in 1..Len(evs) : /\ evs[i].puts[c] = Result(k)[c]
                                            /\ \A j \in (i + 1)..Len(evs) : evs[j].puts[c] = Keep
  BY Zenon
<1>1. PICK evs, m : evs = Events(k) /\ m = Result(k)
  OBVIOUS
<1>2. /\ evs \in Seq(Event) /\ Len(evs) \in {1, 2, 3} /\ DOMAIN evs = 1..Len(evs)
      /\ m \in Content /\ m[c] # Keep
  <2>1. m \in Content /\ m[c] \in Val
    BY <1>1, ResultContent DEF Content
  <2>2. evs \in Seq(Event) /\ Len(evs) \in {1, 2, 3}
    BY <1>1, EventsType
  <2> QED
    BY <2>1, <2>2, KeepNotVal
<1>3. PutIn(evs, c) = {} <=> \A i \in 1..Len(evs) : evs[i].puts[c] = Keep
  BY <1>2 DEF PutIn
<1>4. ASSUME NEW i \in 1..Len(evs), evs[i].puts[c] = m[c],
             \A j \in (i + 1)..Len(evs) : evs[j].puts[c] = Keep
      PROVE  /\ PutIn(evs, c) # {}
             /\ \E l \in 1..Len(evs) : /\ evs[l].puts[c] = m[c]
                                       /\ \A j \in (l + 1)..Len(evs) : evs[j].puts[c] = Keep
  BY <1>2, <1>3, <1>4
<1>5. CASE k.file = None
  <2>1. Len(evs) = 1 /\ evs[1].puts = m
    <3>1. PICK e : e = [task |-> k.task, new |-> TRUE, puts |-> m]
      OBVIOUS
    <3>2. evs = <<e>> /\ e.puts = m
      BY <1>1, <1>5, <3>1, EventsAre
    <3> QED
      BY <3>2
  <2>2. 1 \in 1..Len(evs) /\ \A j \in (1 + 1)..Len(evs) : evs[j].puts[c] = Keep
    BY <2>1
  <2> QED
    BY <1>1, <1>4, <2>1, <2>2
<1>6. CASE k.file # None
  <2>1. PICK a, b, d : a = StatusRecord(k) /\ b = MetaRecord(k) /\ d = TaskRecord(k)
    OBVIOUS
  <2>2. evs = <<a>> \o (IF StatusOf[k.value] = "queued" THEN <<>> ELSE <<b>>)
                    \o (IF m[Told] = None THEN <<>> ELSE <<d>>)
    BY <1>1, <1>6, <2>1, EventsAre
  <2>3. /\ c # Told =>
             /\ a.puts[c] = IF \/ c = <<k.file, "status">>
                               \/ c = <<k.file, "size">> /\ m[c] # None THEN m[c] ELSE Keep
             /\ b.puts[c] = IF \/ c = <<k.file, "times">>
                               \/ c = <<k.file, "name">> /\ m[c] # None THEN m[c] ELSE Keep
             /\ d.puts[c] = Keep
        /\ a.puts[Told] = None /\ b.puts[Told] = Keep /\ d.puts[Told] = m[Told]
    BY <1>1, <1>6, <2>1, RecordTypes
  <2>4. /\ evs = IF StatusOf[k.value] = "queued"
                 THEN IF m[Told] = None THEN <<a>> ELSE <<a, d>>
                 ELSE IF m[Told] = None THEN <<a, b>> ELSE <<a, b, d>>
    BY <2>2, Concats
  <2>5. CASE c = Told
    <3>1. CASE m[Told] # None
      <4>1. evs[Len(evs)] = d /\ Len(evs) \in 1..Len(evs)
        BY <2>4, <3>1
      <4>2. \A j \in (Len(evs) + 1)..Len(evs) : evs[j].puts[c] = Keep
        BY <1>2
      <4> QED
        BY <1>1, <1>4, <2>3, <2>5, <4>1, <4>2
    <3>2. CASE m[Told] = None
      <4>1. evs = <<a>> \/ evs = <<a, b>>
        BY <2>4, <3>2
      <4>2. evs[1] = a /\ 1 \in 1..Len(evs) /\ \A j \in (1 + 1)..Len(evs) : evs[j] = b
        BY <4>1
      <4> QED
        BY <1>1, <1>4, <2>3, <2>5, <3>2, <4>2
    <3> QED
      BY <3>1, <3>2
  <2>6. CASE c # Told /\ a.puts[c] # Keep
    <3>1. evs[1] = a /\ 1 \in 1..Len(evs)
      BY <2>4
    <3>2. b.puts[c] = Keep /\ d.puts[c] = Keep /\ a.puts[c] = m[c]
      BY <2>3, <2>6
    <3>3. \A j \in (1 + 1)..Len(evs) : evs[j] = b \/ evs[j] = d
      BY <2>4
    <3> QED
      BY <1>1, <1>4, <3>1, <3>2, <3>3
  <2>7. CASE c # Told /\ a.puts[c] = Keep
    <3>1. \A i \in 1..Len(evs) : evs[i] = a \/ evs[i] = d \/ (i = 2 /\ evs[i] = b)
      BY <2>4
    <3>2. CASE StatusOf[k.value] # "queued" /\ b.puts[c] # Keep
      <4>1. evs[2] = b /\ 2 \in 1..Len(evs) /\ b.puts[c] = m[c] /\ d.puts[c] = Keep
        BY <2>3, <2>4, <2>7, <3>2
      <4>2. \A j \in (2 + 1)..Len(evs) : evs[j] = d
        BY <2>4, <3>2
      <4> QED
        BY <1>1, <1>4, <4>1, <4>2
    <3>3. CASE StatusOf[k.value] = "queued" \/ b.puts[c] = Keep
      <4>1. \A i \in 1..Len(evs) : evs[i].puts[c] = Keep
        <5>1. d.puts[c] = Keep
          BY <2>3, <2>7
        <5>2. CASE StatusOf[k.value] = "queued"
          <6>1. \A i \in 1..Len(evs) : evs[i] = a \/ evs[i] = d
            BY <2>4, <5>2
          <6> QED
            BY <2>7, <5>1, <6>1
        <5>3. CASE b.puts[c] = Keep
          BY <2>7, <3>1, <5>1, <5>3
        <5> QED
          BY <3>3, <5>2, <5>3
      <4>2. m[c] = tasks[k.task][c]
        <5>1. k.file \in File /\ k.value \in Value /\ tasks[k.task] \in Content
          BY <1>6 DEF Calls, Call, Held
        <5>2. m[c] = IF c \in {k.file} \X Sets(k.value) THEN k.value ELSE tasks[k.task][c]
          BY <1>1, <1>6, <2>7, <5>1, MarkedIs DEF Result
        <5>3. c \notin {k.file} \X Sets(k.value) \/ m[c] = None
          <6>1. SUFFICES ASSUME c \in {k.file} \X Sets(k.value) PROVE m[c] = None
            OBVIOUS
          <6>2. PICK fld \in Sets(k.value) : c = <<k.file, fld>>
            BY <6>1
          <6>3. fld \in Field /\ (StatusOf[k.value] = "queued" => fld = "status")
            BY <6>2 DEF Sets, Field
          <6>4. fld # "status"
            BY <1>2, <2>3, <2>7, <6>2
          <6>5. StatusOf[k.value] # "queued" /\ b.puts[c] = Keep
            BY <3>3, <6>3, <6>4
          <6>6. fld = "size" \/ fld = "times" \/ fld = "name"
            BY <6>3, <6>4 DEF Field
          <6> QED
            BY <1>2, <2>3, <2>7, <6>2, <6>5, <6>6
        <5>4. k.value # None
          BY <5>1, FileStoreAssumption
        <5> QED
          BY <5>2, <5>3, <5>4
      <4> QED
        BY <1>1, <1>3, <4>1, <4>2
    <3> QED
      BY <3>2, <3>3
  <2> QED
    BY <2>5, <2>6, <2>7
<1> QED
  BY <1>5, <1>6

LEMMA Prefix ==
  ASSUME NEW S, NEW s \in Seq(S), NEW k \in 0..Len(s)
  PROVE  /\ SubSeq(s, 1, k) \in Seq(S) /\ Len(SubSeq(s, 1, k)) = k
         /\ \A i \in 1..k : SubSeq(s, 1, k)[i] = s[i]
OBVIOUS

Base == TypeOK /\ Readable /\ Progress

LEMMA LinesType ==
  ASSUME NEW evs \in Seq(Event)
  PROVE  /\ Lines(evs) \in Seq(Line) /\ Lines(evs) \in Seq(Record)
         /\ Len(Lines(evs)) = Len(evs)
         /\ \A i \in 1..Len(evs) : /\ Lines(evs)[i] = [event |-> evs[i], newline |-> TRUE]
                                   /\ Lines(evs)[i].newline /\ Lines(evs)[i].event # None
         /\ \A i \in DOMAIN Lines(evs) : Lines(evs)[i].newline => Lines(evs)[i].event # None
<1>1. \A i \in DOMAIN evs : evs[i] \in Event /\ evs[i] # None
  BY FileStoreAssumption
<1>2. Lines(evs) = [i \in 1..Len(evs) |-> [event |-> evs[i], newline |-> TRUE]]
  BY DEF Lines
<1>3. \A i \in 1..Len(evs) : [event |-> evs[i], newline |-> TRUE] \in Line
  BY <1>1 DEF Line
<1>4. \A i \in 1..Len(evs) : [event |-> evs[i], newline |-> TRUE] \in Record
  BY <1>1 DEF Record
<1>5. Lines(evs) \in Seq(Line) /\ Lines(evs) \in Seq(Record)
  BY <1>2, <1>3, <1>4
<1> QED
  BY <1>1, <1>2, <1>5

\* What a step adds to the file is readable, then so is the file.
LEMMA Joined ==
  ASSUME NEW s \in Seq(Record), NEW u \in Seq(Record),
         \A i \in DOMAIN s : s[i].newline => s[i].event # None,
         \A i \in DOMAIN u : u[i].newline => u[i].event # None
  PROVE  /\ s \o u \in Seq(Record) /\ Len(s \o u) = Len(s) + Len(u)
         /\ \A i \in DOMAIN (s \o u) : (s \o u)[i].newline => (s \o u)[i].event # None
<1>1. s \o u \in Seq(Record) /\ Len(s \o u) = Len(s) + Len(u)
  OBVIOUS
<1>2. ASSUME NEW i \in DOMAIN (s \o u)
      PROVE  \/ i \in DOMAIN s /\ (s \o u)[i] = s[i]
             \/ i - Len(s) \in DOMAIN u /\ (s \o u)[i] = u[i - Len(s)]
  OBVIOUS
<1> QED
  BY <1>1, <1>2

LEMMA Cut ==
  ASSUME NEW s \in Seq(Record), NEW k \in 0..Len(s),
         \A i \in DOMAIN s : s[i].newline => s[i].event # None
  PROVE  /\ SubSeq(s, 1, k) \in Seq(Record) /\ Len(SubSeq(s, 1, k)) = k
         /\ \A i \in DOMAIN SubSeq(s, 1, k) :
              SubSeq(s, 1, k)[i].newline => SubSeq(s, 1, k)[i].event # None
<1>1. SubSeq(s, 1, k) \in Seq(Record) /\ Len(SubSeq(s, 1, k)) = k
  OBVIOUS
<1>2. \A i \in 1..k : SubSeq(s, 1, k)[i] = s[i] /\ i \in DOMAIN s
  OBVIOUS
<1> QED
  BY <1>1, <1>2

\* A piece of a torn record is one line without its newline.
LEMMA TornType ==
  ASSUME NEW r \in Record, NEW piece \in Torn(r)
  PROVE  /\ piece \in Seq(Record) /\ Len(piece) \in {0, 1}
         /\ \A i \in DOMAIN piece : ~piece[i].newline /\ piece[i].event \in {None, r.event}
         /\ "tear" \notin Faults => piece = <<>>
<1>1. [event |-> None, newline |-> FALSE] \in Record /\ [r EXCEPT !.newline = FALSE] \in Record
  BY DEF Record
<1>2. [r EXCEPT !.newline = FALSE].newline = FALSE /\ [r EXCEPT !.newline = FALSE].event = r.event
  BY DEF Record
<1>3. piece \in {<<>>, <<[event |-> None, newline |-> FALSE]>>, <<[r EXCEPT !.newline = FALSE]>>}
  BY DEF Torn
<1>4. "tear" \notin Faults => piece = <<>>
  BY DEF Torn
<1>5. \/ piece = <<>>
      \/ \E l \in Record : piece = <<l>> /\ ~l.newline /\ l.event \in {None, r.event}
  BY <1>1, <1>2, <1>3
<1>6. CASE piece = <<>>
  BY <1>6
<1>7. ASSUME NEW l \in Record, piece = <<l>>, ~l.newline, l.event \in {None, r.event}
      PROVE  /\ piece \in Seq(Record) /\ Len(piece) = 1
             /\ \A i \in DOMAIN piece : ~piece[i].newline /\ piece[i].event \in {None, r.event}
  BY <1>7
<1> QED
  BY <1>4, <1>5, <1>6, <1>7


LEMMA PieceType ==
  ASSUME NEW lines \in Seq(Record), NEW k \in 0..Len(lines), NEW piece \in Pieces(lines, k)
  PROVE  /\ piece \in Seq(Record) /\ k + Len(piece) <= Len(lines) /\ Len(piece) \in {0, 1}
         /\ \A i \in DOMAIN piece : ~piece[i].newline /\ piece[i].event \in {None, lines[k + 1].event}
         /\ \A i \in DOMAIN piece : piece[i].newline => piece[i].event # None
         /\ "tear" \notin Faults => piece = <<>>
<1>1. CASE k < Len(lines)
  <2>1. lines[k + 1] \in Record /\ piece \in Torn(lines[k + 1])
    BY <1>1 DEF Pieces
  <2>2. /\ piece \in Seq(Record) /\ Len(piece) \in {0, 1}
        /\ \A i \in DOMAIN piece : ~piece[i].newline /\ piece[i].event \in {None, lines[k + 1].event}
        /\ "tear" \notin Faults => piece = <<>>
    BY <2>1, TornType
  <2> QED
    BY <1>1, <2>2
<1>2. CASE ~(k < Len(lines))
  <2>1. piece = <<>>
    BY <1>2 DEF Pieces
  <2> QED
    BY <1>2, <2>1
<1> QED
  BY <1>1, <1>2

\* A part of the lines, with a piece of the next one, behind those of the file.
LEMMA PartJoined ==
  ASSUME NEW s \in Seq(Record), NEW lines \in Seq(Record), NEW k \in 0..Len(lines),
         NEW piece \in Pieces(lines, k),
         \A i \in DOMAIN s : s[i].newline => s[i].event # None,
         \A i \in DOMAIN lines : lines[i].newline => lines[i].event # None
  PROVE  LET w == s \o SubSeq(lines, 1, k) \o piece
         IN  /\ w \in Seq(Record) /\ Len(w) \in Len(s)..(Len(s) + Len(lines))
             /\ \A i \in DOMAIN w : w[i].newline => w[i].event # None
<1>1. /\ piece \in Seq(Record) /\ k + Len(piece) <= Len(lines) /\ Len(piece) \in {0, 1}
      /\ \A i \in DOMAIN piece : piece[i].newline => piece[i].event # None
  BY PieceType
<1>2. PICK c : c = SubSeq(lines, 1, k)
  OBVIOUS
<1>3. /\ c \in Seq(Record) /\ Len(c) = k
      /\ \A i \in DOMAIN c : c[i].newline => c[i].event # None
  BY <1>2, Cut
<1>4. PICK u : u = s \o c
  OBVIOUS
<1>5. /\ u \in Seq(Record) /\ Len(u) = Len(s) + k
      /\ \A i \in DOMAIN u : u[i].newline => u[i].event # None
  BY <1>3, <1>4, Joined
<1>6. PICK w : w = u \o piece
  OBVIOUS
<1>7. /\ w \in Seq(Record) /\ Len(w) = Len(u) + Len(piece)
      /\ \A i \in DOMAIN w : w[i].newline => w[i].event # None
  BY <1>1, <1>5, <1>6, Joined
<1>8. Len(w) \in Len(s)..(Len(s) + Len(lines))
  <2>1. PICK a, b, p : a = Len(s) /\ b = Len(lines) /\ p = Len(piece)
    OBVIOUS
  <2>2. a \in Nat /\ b \in Nat /\ p \in {0, 1} /\ k + p <= b /\ k \in Nat /\ Len(w) = a + k + p
    BY <1>1, <1>5, <1>7, <2>1
  <2>3. a + k + p \in a..(a + b)
    BY ONLY <2>2
  <2> QED
    BY <2>1, <2>2, <2>3
<1> QED
  BY <1>2, <1>4, <1>6, <1>7, <1>8

LEMMA InitBase == Init => Base
<1> SUFFICES ASSUME Init PROVE Base
  OBVIOUS
<1> USE FileStoreAssumption DEF Init
<1>1. TypeOK
  BY DEF TypeOK, PC, Held, Sure
<1>2. Readable
  BY DEF Readable
<1>3. Progress
  BY DEF Progress
<1> QED
  BY <1>1, <1>2, <1>3 DEF Base

\* The values that tasks may have are those of a cell.
LEMMA TaskCells ==
  ASSUME tasks \in Held, NEW t \in Task, NEW c \in Cell
  PROVE  tasks[t][c] \in Val
BY ContentFacts DEF Held

LEMMA OpenBase == ASSUME Base, Open PROVE Base'
<1>1. ReadAll(wal) \in Seq(Line)
  BY ReadType DEF Base, TypeOK, Readable
<1>2. Recovered \in Held
  BY <1>1, ApplyEventsType DEF Base, TypeOK, Recovered
<1>3. unsure' \in [Task -> [Cell -> SUBSET Val]]
  <2>1. CASE synced = Len(wal)
    BY <2>1 DEF Open, Sure
  <2>2. CASE synced # Len(wal)
    <3>1. unsure' = [t \in Task |-> [c \in Cell |-> unsure[t][c] \cup {tasks[t][c]}]]
      BY <2>2 DEF Open
    <3>2. \A t \in Task, c \in Cell : unsure[t][c] \cup {tasks[t][c]} \in SUBSET Val
      BY TaskCells DEF Base, TypeOK
    <3> QED
      BY <3>1, <3>2
  <2> QED
    BY <2>1, <2>2
<1>4. TypeOK'
  BY <1>2, <1>3 DEF Open, Goto, Base, TypeOK, PC, Progress
<1>5. Readable'
  BY DEF Open, Base, Readable
<1>6. Progress'
  BY DEF Open, Goto, Base, Progress, TypeOK
<1> QED
  BY <1>4, <1>5, <1>6 DEF Base

\* The records of a call depend on the tasks alone.
LEMMA EventsSame ==
  ASSUME NEW k, tasks' = tasks, call' = k
  PROVE  Events(call)' = Events(k) /\ Result(call)' = Result(k)
<1>1. Result(call)' = Result(k)
  BY DEF Result
<1> QED
  BY <1>1 DEF Events

LEMMA PutInVal ==
  ASSUME NEW evs \in Seq(Event), NEW c \in Cell
  PROVE  PutIn(evs, c) \subseteq Val
<1>1. ASSUME NEW i \in DOMAIN evs PROVE evs[i].puts[c] \in Val \cup {Keep}
  <2>1. PICK e \in Event : e = evs[i]
    OBVIOUS
  <2>2. e.new \in BOOLEAN /\ (e.new => e.puts \in Content) /\ (~e.new => e.puts \in Puts)
    BY EventType
  <2>3. e.puts \in [Cell -> Val \cup {Keep}]
    BY <2>2 DEF Content, Puts
  <2> QED
    BY <2>1, <2>3
<1> QED
  BY <1>1 DEF PutIn

LEMMA BeginBase == ASSUME Base, NEW k, Calls(k), Begin(k) PROVE Base'
<1>1. k \in Call /\ k.task \in Task /\ (k.file # None => tasks[k.task] # Nothing)
  BY DEF Calls, Call
<1>2. PICK evs : evs = Events(k)
  OBVIOUS
<1>3. evs \in Seq(Event) /\ Len(evs) \in {1, 2, 3} /\ tasks \in Held
  BY <1>1, <1>2, EventsType DEF Base, TypeOK
<1>4. PICK p : p = [c \in Cell |-> unsure[k.task][c] \cup PutIn(evs, c)]
  OBVIOUS
<1>5. p \in [Cell -> SUBSET Val] /\ \A c \in Cell : PutIn(evs, c) \subseteq p[c]
  <2>1. \A c \in Cell : unsure[k.task][c] \cup PutIn(evs, c) \in SUBSET Val
    BY <1>1, <1>3, PutInVal DEF Base, TypeOK
  <2> QED
    BY <1>4, <2>1
<1>6. unsure' = [unsure EXCEPT ![k.task] = p]
  BY <1>2, <1>4 DEF Begin
<1>7. unsure' \in [Task -> [Cell -> SUBSET Val]] /\ unsure'[k.task] = p
  BY <1>1, <1>5, <1>6 DEF Base, TypeOK
<1>8. /\ pc = "idle" /\ pc' = "append" /\ call' = k /\ call = None
      /\ UNCHANGED <<tasks, snapshot, wal, synced, buf, log>>
      /\ Len(wal) + Len(buf) + Len(evs) <= MaxLog
  BY <1>2 DEF Begin, Goto, Base, Progress
<1>9. TypeOK'
  BY <1>1, <1>7, <1>8 DEF Base, TypeOK, PC
<1>10. Readable'
  BY <1>8 DEF Base, Readable
<1>11. Events(call)' = evs
  BY <1>2, <1>8, EventsSame
<1>12. Progress'
  <2>1. call' # None /\ call'.task = k.task /\ call'.file = k.file
    BY <1>1, <1>8, FileStoreAssumption
  <2>2. \A c \in Cell : PutIn(Events(call), c)' \subseteq unsure'[call'.task][c]
    <3>1. \A c \in Cell : PutIn(Events(call), c)' = PutIn(evs, c)
      BY <1>11 DEF PutIn
    <3> QED
      BY <1>5, <1>7, <2>1, <3>1
  <2>3. Len(wal') + Len(buf') + Len(Events(call)') <= MaxLog
    BY <1>8, <1>11
  <2> QED
    BY <1>1, <1>8, <2>1, <2>2, <2>3 DEF Base, Progress
<1> QED
  BY <1>9, <1>10, <1>12 DEF Base

LEMMA CreateTaskCall ==
  ASSUME NEW t \in Task
  PROVE  /\ Calls([task |-> t, file |-> None, value |-> New])
         /\ [task |-> t, file |-> None, value |-> New].task = t
BY FileStoreAssumption DEF Calls, Call

LEMMA UpdateTaskCall ==
  ASSUME NEW t \in Task, NEW f \in File, NEW v \in Value, tasks[t] # Nothing
  PROVE  Calls([task |-> t, file |-> f, value |-> v])
BY DEF Calls, Call

LEMMA CreateTaskBase == ASSUME Base, NEW t \in Task, CreateTask(t) PROVE Base'
BY CreateTaskCall, BeginBase DEF CreateTask

LEMMA UpdateTaskBase ==
  ASSUME Base, NEW t \in Task, NEW f \in File, NEW v \in Value, UpdateTask(t, f, v)
  PROVE  Base'
BY UpdateTaskCall, BeginBase DEF UpdateTask

\* The call in progress, and its records.
LEMMA CallType ==
  ASSUME Base, call # None
  PROVE  /\ Calls(call) /\ call.task \in Task /\ tasks \in Held
         /\ Events(call) \in Seq(Event) /\ Len(Events(call)) \in {1, 2, 3}
         /\ \A i \in 1..Len(Events(call)) : Events(call)[i].task = call.task
<1>1. call \in Call /\ tasks \in Held /\ (call.file # None => tasks[call.task] # Nothing)
  BY DEF Base, TypeOK, Progress
<1>2. Calls(call) /\ call.task \in Task
  BY <1>1 DEF Calls, Call
<1> QED
  BY <1>1, <1>2, EventsType

\* A call in progress that goes on.
LEMMA CallStays ==
  ASSUME Base, call # None, call' = call, tasks' = tasks, unsure' = unsure
  PROVE  /\ \A c \in Cell : PutIn(Events(call), c)' \subseteq unsure'[call'.task][c]
         /\ call'.file # None => tasks'[call'.task] # Nothing
<1>1. Events(call)' = Events(call)
  BY EventsSame
<1>2. \A c \in Cell : PutIn(Events(call), c)' = PutIn(Events(call), c)
  BY <1>1 DEF PutIn
<1> QED
  BY <1>2 DEF Base, Progress

LEMMA AppendAllBase == ASSUME Base, AppendAll PROVE Base'
<1>1. /\ Events(call) \in Seq(Event) /\ Len(Events(call)) \in {1, 2, 3} /\ call # None
      /\ Len(wal) + Len(buf) + Len(Events(call)) <= MaxLog
  BY CallType DEF AppendAll, Goto, Base, Progress
<1>2. buf \in Seq(Event) /\ wal \in Seq(Record)
  BY DEF Base, TypeOK
<1>3. buf' \in Seq(Event) /\ Len(wal') + Len(buf') <= MaxLog
  BY <1>1, <1>2, FileStoreAssumption DEF AppendAll
<1>4. TypeOK'
  BY <1>3 DEF AppendAll, Goto, Base, TypeOK, PC
<1>5. Readable'
  BY DEF AppendAll, Base, Readable
<1>6. /\ \A c \in Cell : PutIn(Events(call), c)' \subseteq unsure'[call'.task][c]
      /\ call'.file # None => tasks'[call'.task] # Nothing
  BY <1>1, CallStays DEF AppendAll
<1>7. Progress'
  BY <1>1, <1>6 DEF AppendAll, Goto, Base, Progress
<1> QED
  BY <1>4, <1>5, <1>7 DEF Base

LEMMA AppendFailsBase == ASSUME Base, AppendFails PROVE Base'
<1>1. PICK evs : evs = Events(call)
  OBVIOUS
<1>2. /\ evs \in Seq(Event) /\ Len(evs) \in {1, 2, 3} /\ pc = "append" /\ call # None
      /\ Len(wal) + Len(buf) + Len(evs) <= MaxLog
  BY <1>1, CallType DEF AppendFails, Fail, Goto, Base, Progress
<1>3. buf \in Seq(Event) /\ wal \in Seq(Record)
  BY DEF Base, TypeOK
<1>4. /\ buf' \in Seq(Event) /\ Len(wal') + Len(buf') <= MaxLog
      /\ buf' = buf \/ log = "open"
  <2>1. CASE UNCHANGED buf
    BY <1>2, <1>3, <2>1, FileStoreAssumption DEF AppendFails
  <2>2. CASE ~UNCHANGED buf
    <3>1. /\ log = "open" /\ wal' = wal
          /\ \E k \in 0..(Len(evs) - 1) : buf' = buf \o SubSeq(evs, 1, k)
      BY <1>1, <2>2 DEF AppendFails
    <3>2. PICK k \in 0..(Len(evs) - 1) : buf' = buf \o SubSeq(evs, 1, k)
      BY <3>1
    <3>3. SubSeq(evs, 1, k) \in Seq(Event) /\ Len(SubSeq(evs, 1, k)) = k
      BY <1>2, <3>2, Prefix
    <3>4. buf' \in Seq(Event) /\ Len(buf') = Len(buf) + k
      BY <1>3, <3>2, <3>3
    <3>5. Len(wal) + Len(buf') <= MaxLog
      BY <1>2, <1>3, <3>2, <3>4, FileStoreAssumption
    <3> QED
      BY <3>1, <3>4, <3>5
  <2> QED
    BY <2>1, <2>2
<1>5. TypeOK'
  BY <1>4 DEF AppendFails, Fail, Goto, Base, TypeOK, PC
<1>6. Readable'
  BY DEF AppendFails, Base, Readable
<1>7. Progress'
  BY <1>2, <1>4 DEF AppendFails, Fail, Goto, Base, Progress
<1> QED
  BY <1>5, <1>6, <1>7 DEF Base

LEMMA FlushBase == ASSUME Base, Flush PROVE Base'
<1>1. /\ wal \in Seq(Record) /\ buf \in Seq(Event) /\ synced \in 0..Len(wal)
      /\ Len(wal) + Len(buf) <= MaxLog
  BY DEF Flush, Base, TypeOK
<1>2. wal' \in Seq(Record) /\ Len(wal') = Len(wal) + Len(buf) /\ Readable'
  <2>1. /\ Lines(buf) \in Seq(Record) /\ Len(Lines(buf)) = Len(buf)
        /\ \A i \in DOMAIN Lines(buf) : Lines(buf)[i].newline => Lines(buf)[i].event # None
    BY <1>1, LinesType
  <2>2. wal' = wal \o Lines(buf) /\ \A i \in DOMAIN wal : wal[i].newline => wal[i].event # None
    BY DEF Flush, Base, Readable
  <2>3. /\ wal \o Lines(buf) \in Seq(Record) /\ Len(wal \o Lines(buf)) = Len(wal) + Len(buf)
        /\ \A i \in DOMAIN (wal \o Lines(buf)) :
             (wal \o Lines(buf))[i].newline => (wal \o Lines(buf))[i].event # None
    BY <1>1, <2>1, <2>2, Joined
  <2> QED
    BY <2>2, <2>3 DEF Readable
<1>3. buf' \in Seq(Event) /\ Len(buf') = 0 /\ synced' \in 0..Len(wal')
  BY <1>1, <1>2 DEF Flush
<1>4. TypeOK'
  BY <1>1, <1>2, <1>3 DEF Flush, Goto, Base, TypeOK, PC
<1>5. call # None => /\ \A c \in Cell : PutIn(Events(call), c)' \subseteq unsure'[call'.task][c]
                     /\ call'.file # None => tasks'[call'.task] # Nothing
  BY CallStays DEF Flush
<1>6. Progress'
  BY <1>5 DEF Flush, Goto, Base, Progress
<1> QED
  BY <1>2, <1>4, <1>6 DEF Base

\* What a call that returns nil makes of the tasks.
LEMMA Acknowledged ==
  ASSUME Base, call # None, Acknowledge
  PROVE  /\ tasks' \in Held /\ tasks'[call.task] = Result(call) /\ Result(call) \in Content
         /\ \A t \in Task \ {call.task} : tasks'[t] = tasks[t] /\ unsure'[t] = unsure[t]
         /\ \A c \in Cell : unsure'[call.task][c] =
              IF PutIn(Events(call), c) = {} THEN unsure[call.task][c] ELSE {}
         /\ unsure' \in [Task -> [Cell -> SUBSET Val]]
<1>1. Calls(call) /\ call.task \in Task /\ tasks \in Held
  BY CallType
<1>2. PICK t, x, p :
        /\ t = call.task /\ x = Result(call)
        /\ p = [c \in Cell |-> IF PutIn(Events(call), c) = {} THEN unsure[t][c] ELSE {}]
  OBVIOUS
<1>3. t \in Task /\ x \in Content
  BY <1>1, <1>2, ResultContent
<1>4. unsure \in [Task -> [Cell -> SUBSET Val]]
  BY DEF Base, TypeOK
<1>5. p \in [Cell -> SUBSET Val]
  BY <1>2, <1>3, <1>4
<1>6. tasks' = [tasks EXCEPT ![t] = x] /\ unsure' = [unsure EXCEPT ![t] = p]
  BY <1>2 DEF Acknowledge
<1> QED
  BY <1>1, <1>2, <1>3, <1>4, <1>5, <1>6 DEF Held

LEMMA FlushedBase ==
  ASSUME Base, NEW from \in {"flush", "sync"}, Flushed(from),
         synced' = Len(wal) \/ synced' = synced,
         \/ from = "sync" /\ log = "open" /\ synced' = Len(wal)
         \/ from = "flush" /\ log = "closed",
         UNCHANGED <<snapshot, wal, buf, log>>
  PROVE  Base'
<1>1. tasks' \in Held /\ unsure' \in [Task -> [Cell -> SUBSET Val]]
  <2>1. CASE call # None
    BY <2>1, Acknowledged DEF Flushed
  <2>2. CASE call = None
    BY <2>2 DEF Flushed, Base, TypeOK
  <2> QED
    BY <2>1, <2>2
<1>2. call' = None /\ pc' \in {"idle", "write"} /\ pc = from
  BY DEF Flushed, Acknowledge, Goto
<1>3. TypeOK'
  BY <1>1, <1>2 DEF Base, TypeOK, PC
<1>4. Readable'
  BY DEF Base, Readable
<1>5. Progress'
  BY <1>2 DEF Base, Progress, TypeOK
<1> QED
  BY <1>3, <1>4, <1>5 DEF Base

LEMMA FlushShortBase == ASSUME Base, FlushShort PROVE Base'
<1> DEFINE lines == Lines(buf)
<1>1. /\ wal \in Seq(Record) /\ buf \in Seq(Event) /\ synced \in 0..Len(wal) /\ MaxLog \in Nat
      /\ Len(wal) + Len(buf) <= MaxLog /\ Readable
  BY FileStoreAssumption DEF FlushShort, Base, TypeOK
<1>2. PICK k \in 0..(Len(buf) - 1) :
        /\ \E piece \in Pieces(lines, k) : wal' = wal \o SubSeq(lines, 1, k) \o piece
        /\ buf' = SubSeq(buf, k + 1, Len(buf))
  BY DEF FlushShort
<1>3. PICK piece \in Pieces(lines, k) : wal' = wal \o SubSeq(lines, 1, k) \o piece
  BY <1>2
<1>4. /\ lines \in Seq(Record) /\ Len(lines) = Len(buf) /\ k \in 0..Len(lines)
      /\ \A i \in DOMAIN lines : lines[i].newline => lines[i].event # None
  BY <1>1, LinesType
<1> HIDE DEF lines
<1>5. /\ wal' \in Seq(Record) /\ Len(wal') \in Len(wal)..(Len(wal) + Len(buf))
      /\ \A i \in DOMAIN wal' : wal'[i].newline => wal'[i].event # None
  BY <1>1, <1>3, <1>4, PartJoined DEF Readable
<1>6. Len(wal') <= MaxLog /\ synced \in 0..Len(wal')
  BY <1>1, <1>5
<1>7. buf' \in Seq(Event)
  BY <1>1, <1>2
<1>8. TypeOK'
  BY <1>5, <1>6, <1>7 DEF FlushShort, Fail, Goto, Base, TypeOK, PC
<1>9. Readable'
  BY <1>5 DEF Readable
<1>10. Progress'
  BY DEF FlushShort, Fail, Goto, Base, Progress
<1> QED
  BY <1>8, <1>9, <1>10 DEF Base

\* The steps that touch neither the file of the log nor its buffer.
LEMMA QuietBase ==
  ASSUME Base,
         \/ FlushFails \/ BeginSnapshot \/ WriteSnapshot \/ CloseLog \/ CloseLogFails
         \/ CreateLog \/ SnapshotFails \/ UNCHANGED vars
  PROVE  Base'
<1>1. wal' = wal /\ buf' = buf /\ synced' = synced /\ unsure' = unsure /\ tasks' = tasks
  BY DEF FlushFails, BeginSnapshot, WriteSnapshot, CloseLog, CloseLogFails, CreateLog,
         SnapshotFails, vars
<1>2. Readable'
  BY <1>1 DEF Base, Readable
<1>3. CASE FlushFails
  BY <1>1, <1>2, <1>3 DEF FlushFails, Fail, Goto, Base, TypeOK, PC, Progress
<1>4. CASE BeginSnapshot
  BY <1>1, <1>2, <1>4 DEF BeginSnapshot, Goto, Base, TypeOK, PC, Progress
<1>5. CASE WriteSnapshot
  BY <1>1, <1>2, <1>5 DEF WriteSnapshot, Goto, Base, TypeOK, PC, Progress
<1>6. CASE CloseLog
  BY <1>1, <1>2, <1>6 DEF CloseLog, Goto, Base, TypeOK, PC, Progress
<1>7. CASE CloseLogFails
  BY <1>1, <1>2, <1>7 DEF CloseLogFails, Goto, Base, TypeOK, PC, Progress
<1>8. CASE CreateLog
  BY <1>1, <1>2, <1>8 DEF CreateLog, Goto, Base, TypeOK, PC, Progress
<1>9. CASE SnapshotFails
  BY <1>1, <1>2, <1>9 DEF SnapshotFails, Fail, Goto, Base, TypeOK, PC, Progress
<1>10. CASE UNCHANGED vars
  <2>1. call' = call /\ UNCHANGED <<pc, log, snapshot>>
    BY <1>10 DEF vars
  <2>2. TypeOK'
    BY <1>10 DEF vars, Base, TypeOK
  <2>3. call # None => /\ Events(call)' = Events(call)
                       /\ \A c \in Cell : PutIn(Events(call), c)' \subseteq unsure'[call'.task][c]
                       /\ call'.file # None => tasks'[call'.task] # Nothing
    BY <1>1, <2>1, EventsSame, CallStays
  <2>4. Progress'
    BY <1>1, <2>1, <2>3 DEF Base, Progress
  <2> QED
    BY <1>2, <2>2, <2>4 DEF Base
<1> QED
  BY <1>3, <1>4, <1>5, <1>6, <1>7, <1>8, <1>9, <1>10

LEMMA RenameLogBase == ASSUME Base, RenameLog PROVE Base'
<1>1. wal' = <<>> /\ synced' = 0 /\ Len(wal') = 0 /\ wal' \in Seq(Record)
  BY DEF RenameLog
<1>2. /\ log = "nil" /\ buf = <<>> /\ Len(buf) = 0 /\ MaxLog \in Nat
      /\ unsure' \in [Task -> [Cell -> SUBSET Val]]
  BY FileStoreAssumption DEF RenameLog, Goto, Base, Progress, Sure
<1>3. TypeOK'
  BY <1>1, <1>2 DEF RenameLog, Goto, Base, TypeOK, PC
<1>4. Readable'
  BY <1>1 DEF Readable
<1>5. Progress'
  BY <1>1, <1>2 DEF RenameLog, Goto, Base, Progress
<1> QED
  BY <1>3, <1>4, <1>5 DEF Base

\* The process ends, and leaves a log of type Record.
LEMMA DownBase ==
  ASSUME Base, pc' = "down", wal' \in Seq(Record), Len(wal') <= MaxLog, Readable',
         synced' \in 0..Len(wal'), buf' = <<>>, log' = "nil", call' = None,
         UNCHANGED <<tasks, snapshot, unsure>>
  PROVE  Base'
<1>1. Len(buf') = 0 /\ buf' \in Seq(Event) /\ Len(wal') \in Nat
  OBVIOUS
<1>2. TypeOK'
  BY <1>1 DEF Base, TypeOK, PC
<1>3. Progress'
  BY DEF Progress
<1> QED
  BY <1>2, <1>3 DEF Base

LEMMA CloseBase == ASSUME Base, Close PROVE Base'
<1>1. /\ wal \in Seq(Record) /\ buf \in Seq(Event) /\ Len(wal) <= MaxLog /\ Readable
      /\ synced \in 0..Len(wal)
  BY DEF Base, TypeOK
<1>2. wal' \in Seq(Record) /\ Len(wal') \in Len(wal)..MaxLog /\ Readable'
  <2>1. CASE log = "open"
    <3>1. PICK lines : lines = Lines(buf)
      OBVIOUS
    <3>2. /\ lines \in Seq(Record) /\ Len(lines) = Len(buf)
          /\ \A i \in DOMAIN lines : lines[i].newline => lines[i].event # None
      BY <1>1, <3>1, LinesType
    <3>3. PICK k \in 0..Len(buf) :
            \E piece \in Pieces(lines, k) : wal' = wal \o SubSeq(lines, 1, k) \o piece
      BY <2>1, <3>1 DEF Close
    <3>4. PICK piece \in Pieces(lines, k) : wal' = wal \o SubSeq(lines, 1, k) \o piece
      BY <3>3
    <3>5. /\ wal' \in Seq(Record) /\ Len(wal') \in Len(wal)..(Len(wal) + Len(buf))
          /\ \A i \in DOMAIN wal' : wal'[i].newline => wal'[i].event # None
      BY <1>1, <3>2, <3>4, PartJoined DEF Readable
    <3>6. Len(wal) + Len(buf) <= MaxLog
      BY <2>1 DEF Base, TypeOK
    <3> QED
      BY <1>1, <3>5, <3>6, FileStoreAssumption DEF Readable
  <2>2. CASE log # "open"
    BY <1>1, <2>2, FileStoreAssumption DEF Close, Readable
  <2> QED
    BY <2>1, <2>2
<1>3. call' = None
  BY DEF Close, Goto, Base, Progress
<1>4. synced' \in 0..Len(wal')
  BY <1>1, <1>2 DEF Close
<1>5. Len(wal') <= MaxLog
  BY <1>1, <1>2, FileStoreAssumption
<1> QED
  BY <1>2, <1>3, <1>4, <1>5, DownBase DEF Close, Goto

LEMMA CrashBase == ASSUME Base, Crash PROVE Base'
<1>1. wal \in Seq(Record) /\ Len(wal) <= MaxLog /\ Readable /\ synced \in 0..Len(wal)
  BY DEF Base, TypeOK
<1>2. wal' = wal /\ synced' = synced /\ Readable'
  BY <1>1 DEF Crash, Readable
<1> QED
  BY <1>1, <1>2, DownBase DEF Crash

LEMMA PowerLossBase == ASSUME Base, PowerLoss PROVE Base'
<1>1. wal \in Seq(Record) /\ Len(wal) <= MaxLog /\ Readable /\ synced \in 0..Len(wal)
  BY DEF Base, TypeOK
<1>2. PICK k \in synced..Len(wal) :
        \E piece \in Pieces(wal, k) : wal' = SubSeq(wal, 1, k) \o piece
  BY DEF PowerLoss
<1>3. PICK piece \in Pieces(wal, k) : wal' = SubSeq(wal, 1, k) \o piece
  BY <1>2
<1>4. k \in 0..Len(wal)
  BY <1>1
<1>5. /\ piece \in Seq(Record) /\ k + Len(piece) <= Len(wal)
      /\ \A i \in DOMAIN piece : piece[i].newline => piece[i].event # None
  BY <1>1, <1>4, PieceType
<1>6. PICK u : u = SubSeq(wal, 1, k)
  OBVIOUS
<1>7. /\ u \in Seq(Record) /\ Len(u) = k
      /\ \A i \in DOMAIN u : u[i].newline => u[i].event # None
  BY <1>1, <1>4, <1>6, Cut DEF Readable
<1>8. /\ wal' = u \o piece
      /\ u \o piece \in Seq(Record) /\ Len(u \o piece) = Len(u) + Len(piece)
      /\ \A i \in DOMAIN (u \o piece) : (u \o piece)[i].newline => (u \o piece)[i].event # None
  BY <1>3, <1>5, <1>6, <1>7, Joined
<1>9. wal' \in Seq(Record) /\ Len(wal') <= MaxLog /\ Readable'
  <2>1. Len(wal') = k + Len(piece)
    BY <1>7, <1>8
  <2>2. Len(wal') <= MaxLog
    BY <1>1, <1>5, <2>1, FileStoreAssumption
  <2> QED
    BY <1>8, <2>2 DEF Readable
<1>10. synced' \in 0..Len(wal')
  BY <1>9 DEF PowerLoss
<1> QED
  BY <1>9, <1>10, DownBase DEF PowerLoss

LEMMA NextBase == Base /\ [Next]_vars => Base'
<1> SUFFICES ASSUME Base, [Next]_vars PROVE Base'
  OBVIOUS
<1>1. CASE Sync
  BY <1>1, FlushedBase DEF Sync, Flushed, Goto, Base, Progress
<1>2. CASE FlushClosed
  BY <1>2, FlushedBase DEF FlushClosed
<1>3. ASSUME NEW t \in Task, CreateTask(t) PROVE Base'
  BY <1>3, CreateTaskBase
<1>4. ASSUME NEW t \in Task, NEW f \in File, NEW v \in Value, UpdateTask(t, f, v) PROVE Base'
  BY <1>4, UpdateTaskBase
<1> QED
  BY <1>1, <1>2, <1>3, <1>4, OpenBase, AppendAllBase, AppendFailsBase, FlushBase,
     FlushShortBase, QuietBase, RenameLogBase, CloseBase, CrashBase, PowerLossBase DEF Next

\* Every variable keeps its type, the file of the log readable lines and pieces of lines,
\* whatever is cut and whatever fails.
THEOREM TypeCorrect == Spec => []TypeOK
<1>1. Spec => []Base
  BY InitBase, NextBase, PTL DEF Spec
<1>2. Base => TypeOK
  BY DEF Base
<1> QED
  BY <1>1, <1>2, PTL

(***************************************************************************)
(* The records of the log: those in the file and those that still are in   *)
(* the buffer.                                                             *)
(***************************************************************************)
LEMMA LogType ==
  ASSUME NEW file \in Seq(Record), NEW rest \in Seq(Event),
         \A i \in DOMAIN file : file[i].newline => file[i].event # None
  PROVE  LET all == file \o Lines(rest)
         IN  /\ Len(file) \in Nat /\ Len(rest) \in Nat
             /\ all \in Seq(Record) /\ Len(all) = Len(file) + Len(rest) /\ Len(all) \in Nat
             /\ \A i \in DOMAIN all : all[i].newline => all[i].event # None
             /\ \A i \in 1..Len(file) : all[i] = file[i]
             /\ \A i \in 1..Len(rest) : all[Len(file) + i] = [event |-> rest[i], newline |-> TRUE]
<1>1. PICK lines : lines = Lines(rest)
  OBVIOUS
<1>2. /\ lines \in Seq(Record) /\ Len(lines) = Len(rest)
      /\ \A i \in 1..Len(rest) : lines[i] = [event |-> rest[i], newline |-> TRUE]
      /\ \A i \in DOMAIN lines : lines[i].newline => lines[i].event # None
  BY <1>1, LinesType
<1>3. /\ file \o lines \in Seq(Record) /\ Len(file \o lines) = Len(file) + Len(lines)
      /\ \A i \in DOMAIN (file \o lines) :
           (file \o lines)[i].newline => (file \o lines)[i].event # None
  BY <1>2, Joined
<1>4. Len(file) \in Nat /\ Len(rest) \in Nat /\ Len(file) + Len(rest) \in Nat
  OBVIOUS
<1>5. \A i \in 1..Len(file) : (file \o lines)[i] = file[i]
  BY <1>2
<1>6. \A i \in 1..Len(rest) : (file \o lines)[Len(file) + i] = lines[i]
  BY <1>2, <1>4
<1> QED
  BY <1>1, <1>2, <1>3, <1>4, <1>5, <1>6

LEMMA AllType ==
  ASSUME Base
  PROVE  /\ All \in Seq(Record) /\ Len(All) = Len(wal) + Len(buf) /\ Len(All) \in Nat
         /\ \A i \in DOMAIN All : All[i].newline => All[i].event # None
         /\ wal \in Seq(Record) /\ \A i \in 1..Len(wal) : All[i] = wal[i]
         /\ \A i \in 1..Len(buf) : All[Len(wal) + i] = [event |-> buf[i], newline |-> TRUE]
         /\ Len(wal) \in Nat /\ Len(buf) \in Nat /\ synced \in 0..Len(wal)
<1>1. /\ wal \in Seq(Record) /\ buf \in Seq(Event) /\ synced \in 0..Len(wal)
      /\ \A i \in DOMAIN wal : wal[i].newline => wal[i].event # None
  BY DEF Base, TypeOK, Readable
<1> QED
  BY <1>1, LogType DEF All

LEMMA AllTypeNext ==
  ASSUME Base'
  PROVE  /\ All' \in Seq(Record) /\ Len(All') = Len(wal') + Len(buf') /\ Len(All') \in Nat
         /\ \A i \in DOMAIN All' : All'[i].newline => All'[i].event # None
         /\ wal' \in Seq(Record) /\ \A i \in 1..Len(wal') : All'[i] = wal'[i]
         /\ \A i \in 1..Len(buf') : All'[Len(wal') + i] = [event |-> buf'[i], newline |-> TRUE]
         /\ Len(wal') \in Nat /\ Len(buf') \in Nat /\ synced' \in 0..Len(wal')
<1>1. /\ wal' \in Seq(Record) /\ buf' \in Seq(Event) /\ synced' \in 0..Len(wal')
      /\ \A i \in DOMAIN wal' : wal'[i].newline => wal'[i].event # None
  BY DEF Base, TypeOK, Readable
<1> QED
  BY <1>1, LogType DEF All

\* A prefix depends on its own elements only.
LEMMA PrefixEqual ==
  ASSUME NEW S, NEW s \in Seq(S), NEW u \in Seq(S), NEW k \in Nat, k <= Len(s), k <= Len(u),
         \A i \in 1..k : s[i] = u[i]
  PROVE  SubSeq(s, 1, k) = SubSeq(u, 1, k)
OBVIOUS

(***************************************************************************)
(* What a restart would load from the first records.                       *)
(***************************************************************************)
Clean(k) == \A i \in 1..k : All[i].newline

\* Whole records are all read.
LEMMA LoadClean ==
  ASSUME NEW base, NEW lines \in Seq(Record), NEW k \in 0..Len(lines),
         \A i \in 1..k : lines[i].newline
  PROVE  ReadAll(SubSeq(lines, 1, k)) = SubSeq(lines, 1, k)
<1>1. /\ DOMAIN SubSeq(lines, 1, k) = 1..k
      /\ \A i \in 1..k : SubSeq(lines, 1, k)[i] = lines[i]
  OBVIOUS
<1> QED
  BY <1>1, ReadWhole

LEMMA LoadedType ==
  ASSUME NEW base \in Held, NEW all \in Seq(Record), NEW k \in 0..Len(all),
         \A i \in DOMAIN all : all[i].newline => all[i].event # None
  PROVE  /\ ReadAll(SubSeq(all, 1, k)) \in Seq(Line)
         /\ ApplyEvents(base, ReadAll(SubSeq(all, 1, k))) \in Held
<1>1. PICK lines : lines = SubSeq(all, 1, k)
  OBVIOUS
<1>2. /\ lines \in Seq(Record)
      /\ \A i \in DOMAIN lines : lines[i].newline => lines[i].event # None
  BY <1>1, Cut
<1>3. ReadAll(lines) \in Seq(Line)
  BY <1>2, ReadType
<1> QED
  BY <1>1, <1>3, ApplyEventsType

LEMMA LoadType ==
  ASSUME Base
  PROVE  /\ tasks \in Held /\ snapshot \in Held /\ unsure \in [Task -> [Cell -> SUBSET Val]]
         /\ \A k \in 0..Len(All) : /\ ReadAll(SubSeq(All, 1, k)) \in Seq(Line)
                                    /\ Load(k) \in Held
         /\ Load(Len(wal)) = Recovered
         /\ Load(synced) = SyncedState
<1>1. tasks \in Held /\ snapshot \in Held /\ unsure \in [Task -> [Cell -> SUBSET Val]]
  BY DEF Base, TypeOK
<1>2. ASSUME NEW k \in 0..Len(All)
      PROVE  ReadAll(SubSeq(All, 1, k)) \in Seq(Line) /\ Load(k) \in Held
  <2>1. PICK all, base : all = All /\ base = snapshot
    OBVIOUS
  <2>2. /\ base \in Held /\ all \in Seq(Record) /\ k \in 0..Len(all)
        /\ \A i \in DOMAIN all : all[i].newline => all[i].event # None
    BY <1>1, <2>1, AllType
  <2> QED
    BY <2>1, <2>2, LoadedType DEF Load
<1>3. /\ SubSeq(All, 1, Len(wal)) = wal
      /\ SubSeq(All, 1, synced) = SubSeq(wal, 1, synced)
  <2>1. /\ All \in Seq(Record) /\ wal \in Seq(Record) /\ Len(wal) \in Nat /\ synced \in Nat
        /\ synced <= Len(wal) /\ Len(wal) <= Len(All) /\ synced <= Len(All)
        /\ \A i \in 1..Len(wal) : All[i] = wal[i]
        /\ \A i \in 1..synced : All[i] = wal[i]
    BY AllType
  <2>2. SubSeq(wal, 1, Len(wal)) = wal
    BY <2>1
  <2> QED
    BY <2>1, <2>2, PrefixEqual
<1>4. Load(Len(wal)) = Recovered
  BY <1>3 DEF Load, Recovered
<1>5. Load(synced) = SyncedState
  BY <1>3 DEF Load, SyncedState
<1> QED
  BY <1>1, <1>2, <1>4, <1>5

LEMMA LoadTypeNext ==
  ASSUME Base', NEW k \in 0..Len(All')
  PROVE  Load(k)' \in Held
<1>1. PICK all, base : all = All' /\ base = snapshot'
  OBVIOUS
<1>2. base \in Held
  BY <1>1 DEF Base, TypeOK
<1>3. /\ all \in Seq(Record) /\ k \in 0..Len(all)
      /\ \A i \in DOMAIN all : all[i].newline => all[i].event # None
  BY <1>1, AllTypeNext
<1> QED
  BY <1>1, <1>2, <1>3, LoadedType DEF Load

\* The same is loaded after a step that keeps the snapshot and those records.
LEMMA LoadKept ==
  ASSUME Base, Base', snapshot' = snapshot,
         NEW k \in Nat, k <= Len(All), k <= Len(All'), \A i \in 1..k : All'[i] = All[i]
  PROVE  Load(k)' = Load(k) /\ (Tidy(k)' <=> Tidy(k)) /\ (Clean(k)' <=> Clean(k))
<1>1. All \in Seq(Record) /\ All' \in Seq(Record)
  BY AllType, AllTypeNext
<1>2. SubSeq(All', 1, k) = SubSeq(All, 1, k)
  BY <1>1, PrefixEqual
<1>3. \A i \in 1..(k - 1) : All'[i] = All[i]
  OBVIOUS
<1> QED
  BY <1>2, <1>3 DEF Load, Tidy, Clean

\* The tasks stay, and calls may offer values.
Grown ==
  /\ tasks' = tasks
  /\ \A t \in Task : \A c \in Cell : unsure[t][c] \subseteq unsure'[t][c]

LEMMA PossibleGrows ==
  ASSUME Grown, NEW t \in Task, NEW x \in Map!Possible(t)
  PROVE  x \in Map!Possible(t)'
<1>1. /\ x \in Content \cup {Nothing}
      /\ \A c \in Cell : x[c] \in {tasks[t][c]} \cup unsure[t][c]
  BY PossibleIs
<1>2. \A c \in Cell : x[c] \in {tasks'[t][c]} \cup unsure'[t][c]
  BY <1>1 DEF Grown
<1> QED
  BY <1>1, <1>2 DEF Map!Possible

\* A log from which nothing else could be loaded after the step than before it.
LEMMA Covered ==
  ASSUME Base, Recoverable, Grown,
         \A k \in synced'..Len(All') :
           Tidy(k)' => \E j \in synced..Len(All) : Tidy(j) /\ Load(k)' = Load(j)
  PROVE  Recoverable'
<1>1. ASSUME NEW k \in synced'..Len(All'), Tidy(k)', NEW t \in Task
      PROVE  Load(k)'[t] \in Map!Possible(t)'
  <2>1. PICK j \in synced..Len(All) : Tidy(j) /\ Load(k)' = Load(j)
    BY <1>1
  <2>2. PICK x : x = Load(j)[t]
    OBVIOUS
  <2>3. x \in Map!Possible(t)
    BY <2>1, <2>2 DEF Recoverable
  <2>4. x \in Map!Possible(t)'
    BY <2>3, PossibleGrows
  <2> QED
    BY <2>1, <2>2, <2>4
<1> QED
  BY <1>1 DEF Recoverable

\* Steps that lose no record but those that a crash may lose, and that add none.
LEMMA Kept ==
  ASSUME Base, Base', Recoverable,
         snapshot' = snapshot, Grown,
         synced <= synced', Len(All') <= Len(All), \A i \in 1..Len(All') : All'[i] = All[i]
  PROVE  Recoverable'
<1>1. Len(All) \in Nat /\ Len(All') \in Nat /\ synced \in Nat /\ synced' \in Nat
  BY AllType, AllTypeNext
<1>2. ASSUME NEW k \in synced'..Len(All'), Tidy(k)'
      PROVE  \E j \in synced..Len(All) : Tidy(j) /\ Load(k)' = Load(j)
  <2>1. k \in Nat /\ k <= Len(All) /\ k <= Len(All') /\ k \in synced..Len(All)
    BY <1>1
  <2>2. \A i \in 1..k : All'[i] = All[i]
    BY <1>1, <2>1
  <2>3. Load(k)' = Load(k) /\ Tidy(k)
    BY <1>2, <2>1, <2>2, LoadKept
  <2> QED
    BY <2>1, <2>3
<1> QED
  BY <1>2, Covered

(***************************************************************************)
(* No record is torn unless records can be: Whole is kept.                 *)
(***************************************************************************)
LEMMA WholeJoined ==
  ASSUME NEW s \in Seq(Record), NEW u \in Seq(Record),
         \A i \in DOMAIN s : s[i].newline, \A i \in DOMAIN u : u[i].newline
  PROVE  /\ s \o u \in Seq(Record)
         /\ \A i \in DOMAIN (s \o u) : (s \o u)[i].newline
<1>1. ASSUME NEW i \in DOMAIN (s \o u)
      PROVE  \/ i \in DOMAIN s /\ (s \o u)[i] = s[i]
             \/ i - Len(s) \in DOMAIN u /\ (s \o u)[i] = u[i - Len(s)]
  OBVIOUS
<1> QED
  BY <1>1

\* Where no record is torn, a part of the lines is whole records.
LEMMA WholePart ==
  ASSUME NEW s \in Seq(Record), NEW lines \in Seq(Record), NEW k \in 0..Len(lines),
         NEW piece \in Pieces(lines, k), "tear" \notin Faults,
         \A i \in DOMAIN s : s[i].newline, \A i \in DOMAIN lines : lines[i].newline
  PROVE  LET w == s \o SubSeq(lines, 1, k) \o piece IN \A i \in DOMAIN w : w[i].newline
<1>1. piece = <<>> /\ <<>> \in Seq(Record)
  BY PieceType
<1>2. PICK u : u = SubSeq(lines, 1, k)
  OBVIOUS
<1>3. u \in Seq(Record) /\ \A i \in DOMAIN u : u[i].newline
  BY <1>2
<1>4. PICK v : v = s \o u
  OBVIOUS
<1>5. v \in Seq(Record) /\ \A i \in DOMAIN v : v[i].newline
  BY <1>3, <1>4, WholeJoined
<1>6. v \o <<>> = v
  BY <1>5
<1> QED
  BY <1>1, <1>2, <1>4, <1>5, <1>6

LEMMA WholeNext ==
  ASSUME Base, Whole, [Next]_vars, "tear" \notin Faults
  PROVE  Whole'
<1>1. PICK lines, file : lines = Lines(buf) /\ file = wal
  OBVIOUS
<1>2. /\ file \in Seq(Record) /\ lines \in Seq(Record) /\ Len(lines) = Len(buf) /\ Len(buf) \in Nat
      /\ \A i \in DOMAIN lines : lines[i].newline
      /\ \A i \in DOMAIN file : file[i].newline
      /\ synced \in 0..Len(file)
  <2>1. buf \in Seq(Event) /\ wal \in Seq(Record) /\ synced \in 0..Len(wal)
    BY DEF Base, TypeOK
  <2>2. /\ lines \in Seq(Record) /\ Len(lines) = Len(buf)
        /\ \A i \in 1..Len(buf) : lines[i].newline
    BY <1>1, <2>1, LinesType
  <2> QED
    BY <1>1, <2>1, <2>2 DEF Whole
<1>3. CASE UNCHANGED wal
  BY <1>3 DEF Whole
<1>4. CASE wal' = wal \o Lines(buf)
  BY <1>1, <1>2, <1>4, WholeJoined DEF Whole
<1>5. ASSUME NEW k \in 0..Len(lines), NEW piece \in Pieces(lines, k),
             wal' = file \o SubSeq(lines, 1, k) \o piece
      PROVE  Whole'
  BY <1>2, <1>5, WholePart DEF Whole
<1>6. CASE FlushShort
  <2>1. PICK k \in 0..(Len(buf) - 1) :
          \E piece \in Pieces(Lines(buf), k) : wal' = wal \o SubSeq(Lines(buf), 1, k) \o piece
    BY <1>6 DEF FlushShort
  <2>2. k \in 0..Len(lines)
    BY <1>2
  <2> QED
    BY <1>1, <1>5, <2>1, <2>2
<1>7. CASE Close /\ log = "open"
  <2>1. PICK k \in 0..Len(buf) :
          \E piece \in Pieces(Lines(buf), k) : wal' = wal \o SubSeq(Lines(buf), 1, k) \o piece
    BY <1>7 DEF Close
  <2> QED
    BY <1>1, <1>2, <1>5, <2>1
<1>8. CASE PowerLoss
  <2>1. PICK k \in synced..Len(wal) :
          \E piece \in Pieces(wal, k) : wal' = SubSeq(wal, 1, k) \o piece
    BY <1>8 DEF PowerLoss
  <2>2. PICK piece \in Pieces(file, k) : wal' = SubSeq(file, 1, k) \o piece
    BY <1>1, <2>1
  <2>3. k \in 0..Len(file)
    BY <1>1, <1>2
  <2>4. /\ <<>> \in Seq(Record) /\ \A i \in DOMAIN <<>> : <<>>[i].newline
        /\ <<>> \o SubSeq(file, 1, k) = SubSeq(file, 1, k)
    BY <1>2, <2>3
  <2>5. PICK w : w = <<>> \o SubSeq(file, 1, k) \o piece
    OBVIOUS
  <2>6. \A i \in DOMAIN w : w[i].newline
    BY <1>2, <2>3, <2>4, <2>5, WholePart
  <2> QED
    BY <2>2, <2>4, <2>5, <2>6 DEF Whole
<1>9. CASE RenameLog
  BY <1>9 DEF RenameLog, Whole
<1>10. \/ UNCHANGED wal \/ wal' = wal \o Lines(buf) \/ FlushShort \/ RenameLog
       \/ (Close /\ log = "open") \/ PowerLoss
  BY DEF Next, vars, Open, CreateTask, UpdateTask, Begin, AppendAll, AppendFails, Flush, Sync,
         FlushClosed, FlushFails, BeginSnapshot, WriteSnapshot, CloseLog, CloseLogFails,
         CreateLog, SnapshotFails, Close, Crash
<1> QED
  BY <1>3, <1>4, <1>6, <1>7, <1>8, <1>9, <1>10

(***************************************************************************)
(* What a cut in the middle of a record costs.                             *)
(***************************************************************************)
\* Applying a record takes its event only.
LEMMA SameEvent ==
  ASSUME NEW ts, NEW r, NEW q, r.event = q.event
  PROVE  ApplyEvent(ts, r) = ApplyEvent(ts, q)
BY DEF ApplyEvent

\* A piece of a record is read as its event, or not at all.
LEMMA PieceRead ==
  ASSUME NEW base, NEW lines \in Seq(Record), NEW torn \in Seq(Record), NEW p \in Nat,
         p < Len(lines), p < Len(torn),
         \A i \in 1..p : lines[i].newline /\ torn[i] = lines[i],
         lines[p + 1].newline => lines[p + 1].event # None,
         ~torn[p + 1].newline, torn[p + 1].event \in {None, lines[p + 1].event}
  PROVE  \E j \in {p, p + 1} : ApplyEvents(base, ReadAll(SubSeq(torn, 1, p + 1)))
                                 = ApplyEvents(base, ReadAll(SubSeq(lines, 1, j)))
<1> DEFINE s == SubSeq(torn, 1, p + 1)
           u == SubSeq(lines, 1, p + 1)
<1>1. /\ p \in 0..Len(lines) /\ p + 1 \in 0..Len(lines) /\ p \in 0..(Len(lines) - 1)
      /\ p + 1 \in 0..Len(torn) /\ p \in 0..(Len(torn) - 1) /\ p <= Len(lines) /\ p <= Len(torn)
  OBVIOUS
<1>2. /\ Len(s) = p + 1 /\ DOMAIN s = 1..(p + 1) /\ \A i \in 1..(p + 1) : s[i] = torn[i]
      /\ Len(u) = p + 1 /\ DOMAIN u = 1..(p + 1) /\ \A i \in 1..(p + 1) : u[i] = lines[i]
      /\ s \in Seq(Record) /\ u \in Seq(Record)
  BY <1>1, Prefix
<1>3. SubSeq(torn, 1, p) = SubSeq(lines, 1, p) /\ SubSeq(s, 1, p) = SubSeq(lines, 1, p)
  <2>1. SubSeq(torn, 1, p) = SubSeq(lines, 1, p)
    BY <1>1, PrefixEqual
  <2>2. \A i \in 1..p : s[i] = lines[i]
    BY <1>2
  <2>3. p <= Len(s)
    BY <1>2
  <2> HIDE DEF s
  <2>4. SubSeq(s, 1, p) = SubSeq(lines, 1, p)
    BY <1>1, <1>2, <2>2, <2>3, PrefixEqual
  <2> QED
    BY <2>1, <2>4
<1>4. ReadAll(SubSeq(lines, 1, p)) = SubSeq(lines, 1, p)
  BY <1>1, LoadClean
<1> HIDE DEF s, u
<1>5. {i \in DOMAIN s : ~s[i].newline} = {p + 1}
  <2>1. \A i \in 1..p : s[i].newline
    BY <1>2
  <2>2. ~s[p + 1].newline
    BY <1>2
  <2>3. \A i \in 1..(p + 1) : i \in 1..p \/ i = p + 1
    OBVIOUS
  <2> QED
    BY <1>2, <2>1, <2>2, <2>3
<1>6. CASE s[p + 1].event = None
  <2>1. ReadAll(s) = SubSeq(s, 1, (CHOOSE i \in {p + 1} : \A j \in {p + 1} : i <= j) - 1)
    BY <1>2, <1>5, <1>6 DEF ReadAll
  <2>2. (CHOOSE i \in {p + 1} : \A j \in {p + 1} : i <= j) - 1 = p
    OBVIOUS
  <2>3. ReadAll(s) = SubSeq(lines, 1, p)
    BY <1>3, <2>1, <2>2
  <2> QED
    BY <1>4, <2>3 DEF s
<1>7. CASE s[p + 1].event # None
  <2>1. ReadAll(s) = s
    BY <1>2, <1>5, <1>7 DEF ReadAll
  <2>2. s[p + 1].event = lines[p + 1].event
    BY <1>2, <1>7
  <2>3. ReadAll(u) = u
    <3>1. \A i \in 1..p : u[i].newline
      BY <1>2
    <3>2. CASE u[p + 1].newline
      <4>1. \A i \in 1..(p + 1) : i \in 1..p \/ i = p + 1
        OBVIOUS
      <4> QED
        BY <1>2, <3>1, <3>2, <4>1, ReadWhole
    <3>3. CASE ~u[p + 1].newline
      <4>1. {i \in DOMAIN u : ~u[i].newline} = {p + 1}
        <5>1. \A i \in 1..(p + 1) : i \in 1..p \/ i = p + 1
          OBVIOUS
        <5> QED
          BY <1>2, <3>1, <3>3, <5>1
      <4>2. u[p + 1].event # None
        BY <1>2, <1>7, <2>2
      <4> QED
        BY <1>2, <4>1, <4>2 DEF ReadAll
    <3> QED
      BY <3>2, <3>3
  <2>4. ApplyEvents(base, s) = ApplyEvent(ApplyEvents(base, SubSeq(lines, 1, p)), s[p + 1])
    <3>1. ApplyEvents(base, SubSeq(torn, 1, p + 1))
            = ApplyEvent(ApplyEvents(base, SubSeq(torn, 1, p)), torn[p + 1])
      BY <1>1, ApplyNext
    <3>2. s[p + 1] = torn[p + 1]
      BY <1>2
    <3>3. s = SubSeq(torn, 1, p + 1)
      BY DEF s
    <3> QED
      BY ONLY <1>3, <3>1, <3>2, <3>3
  <2>5. ApplyEvents(base, u) = ApplyEvent(ApplyEvents(base, SubSeq(lines, 1, p)), lines[p + 1])
    BY <1>1, ApplyNext DEF u
  <2>6. ApplyEvents(base, s) = ApplyEvents(base, u)
    <3>1. ApplyEvent(ApplyEvents(base, SubSeq(lines, 1, p)), s[p + 1])
            = ApplyEvent(ApplyEvents(base, SubSeq(lines, 1, p)), lines[p + 1])
      BY <2>2, SameEvent
    <3> QED
      BY ONLY <2>4, <2>5, <3>1
  <2> QED
    BY <2>1, <2>3, <2>6 DEF s, u
<1> QED
  BY <1>6, <1>7

\* Cutting the log in the middle of a record loses what a crash may lose.
LEMMA CutCovered ==
  ASSUME Base, Base', Recoverable, snapshot' = snapshot, tasks' = tasks, unsure' = unsure,
         synced <= synced', NEW p \in Nat, synced <= p, p < Len(All), p < Len(All'),
         \A i \in 1..p : All'[i] = All[i],
         ~All'[p + 1].newline, All'[p + 1].event \in {None, All[p + 1].event}
  PROVE  Recoverable'
<1>1. /\ Len(All) \in Nat /\ Len(All') \in Nat /\ synced \in Nat /\ synced' \in Nat
      /\ All \in Seq(Record) /\ All' \in Seq(Record)
  BY AllType, AllTypeNext
<1>2. ASSUME NEW k \in synced'..Len(All'), Tidy(k)'
      PROVE  \E j \in synced..Len(All) : Tidy(j) /\ Load(k)' = Load(j)
  <2>1. k \in Nat /\ k <= Len(All') /\ synced <= k
    BY <1>1
  <2>2. CASE k <= p
    <3>1. k <= Len(All) /\ k \in synced..Len(All) /\ \A i \in 1..k : All'[i] = All[i]
      BY <1>1, <2>1, <2>2
    <3>2. Load(k)' = Load(k) /\ Tidy(k)
      BY <1>2, <2>1, <3>1, LoadKept
    <3> QED
      BY <3>1, <3>2
  <2>3. CASE k = p + 1
    <3>1. \A i \in 1..p : All'[i].newline
      BY <1>2, <2>3 DEF Tidy
    <3>2. \A i \in 1..p : All[i].newline /\ All'[i] = All[i]
      BY <3>1
    <3>3. All[p + 1].newline => All[p + 1].event # None
      <4>1. p + 1 \in DOMAIN All
        BY <1>1
      <4> QED
        BY <4>1, AllType
    <3>4. PICK base, lines, torn : base = snapshot /\ lines = All /\ torn = All'
      OBVIOUS
    <3>5. PICK j \in {p, p + 1} : ApplyEvents(base, ReadAll(SubSeq(torn, 1, p + 1)))
                                    = ApplyEvents(base, ReadAll(SubSeq(lines, 1, j)))
      BY <1>1, <3>2, <3>3, <3>4, PieceRead
    <3>6. Load(k)' = Load(j)
      BY <2>3, <3>4, <3>5 DEF Load
    <3>7. Tidy(j) /\ j \in synced..Len(All)
      <4>1. j - 1 <= p /\ j \in Nat /\ j \in synced..Len(All)
        BY <1>1
      <4>2. \A i \in 1..(j - 1) : i \in 1..p
        BY <4>1
      <4> QED
        BY <3>2, <4>1, <4>2 DEF Tidy
    <3> QED
      BY <3>6, <3>7
  <2>4. CASE k > p + 1
    <3>1. p + 1 \in 1..(k - 1)
      BY <2>1, <2>4
    <3> QED
      BY <1>2, <3>1 DEF Tidy
  <2> QED
    BY <2>1, <2>2, <2>3, <2>4
<1>3. Grown
  BY DEF Grown
<1> QED
  BY <1>2, <1>3, Covered

(***************************************************************************)
(* Every step keeps the log recoverable.                                   *)
(***************************************************************************)
\* Records of a call in progress are appended to the buffer.
LEMMA Extends ==
  ASSUME Base, Base', UNCHANGED <<tasks, snapshot, wal, synced, unsure>>,
         NEW n, n = Len(All), NEW evs \in Seq(Event), buf' = buf \o evs
  PROVE  /\ n \in Nat /\ Len(All') = n + Len(evs)
         /\ \A k \in 0..n : Load(k)' = Load(k) /\ (Tidy(k)' <=> Tidy(k))
         /\ \A j \in 0..(Len(evs) - 1) : Tidy(n + (j + 1))' => Clean(n)
         /\ Clean(n) => \A j \in 0..(Len(evs) - 1) :
              Load(n + (j + 1))'
                = ApplyEvent(Load(n + j)', [event |-> evs[j + 1], newline |-> TRUE])
<1>1. /\ n \in Nat /\ n = Len(wal) + Len(buf) /\ wal' = wal /\ Len(wal) \in Nat /\ Len(buf) \in Nat
      /\ Len(buf') = Len(buf) + Len(evs) /\ Len(evs) \in Nat
      /\ \A i \in 1..Len(buf) : buf'[i] = buf[i]
      /\ \A i \in 1..Len(evs) : buf'[Len(buf) + i] = evs[i]
  <2>1. buf \in Seq(Event)
    BY DEF Base, TypeOK
  <2> QED
    BY <2>1, AllType
<1>2. /\ Len(All') = n + Len(evs) /\ All' \in Seq(Record)
      /\ \A i \in 1..Len(wal) : All'[i] = wal[i]
      /\ \A i \in 1..Len(buf') : All'[Len(wal) + i] = [event |-> buf'[i], newline |-> TRUE]
  <2>1. /\ All' \in Seq(Record) /\ Len(All') = Len(wal) + Len(buf')
        /\ \A i \in 1..Len(wal) : All'[i] = wal[i]
        /\ \A i \in 1..Len(buf') : All'[Len(wal) + i] = [event |-> buf'[i], newline |-> TRUE]
    BY AllTypeNext, Zenon
  <2>2. Len(All') = n + Len(evs)
    <3>1. Len(All') = Len(wal) + (Len(buf) + Len(evs)) /\ Len(evs) \in Nat
      BY <1>1, <2>1
    <3> QED
      BY ONLY <1>1, <3>1
  <2> QED
    BY <2>1, <2>2
<1>3. \A i \in 1..n : All'[i] = All[i]
  <2> SUFFICES ASSUME NEW i \in 1..n PROVE All'[i] = All[i]
    OBVIOUS
  <2>1. CASE i <= Len(wal)
    BY <1>1, <1>2, <2>1, AllType
  <2>2. CASE i > Len(wal)
    <3>1. PICK j \in 1..Len(buf) : i = Len(wal) + j
      <4>1. i - Len(wal) \in 1..Len(buf) /\ i = Len(wal) + (i - Len(wal))
        BY <1>1, <2>2
      <4> QED
        BY <4>1
    <3>2. j \in 1..Len(buf') /\ buf'[j] = buf[j]
      BY <1>1, <3>1
    <3>3. All'[Len(wal) + j] = [event |-> buf'[j], newline |-> TRUE]
      BY <1>2, <3>2
    <3>4. All[Len(wal) + j] = [event |-> buf[j], newline |-> TRUE]
      BY <3>1, AllType
    <3> QED
      BY <3>1, <3>2, <3>3, <3>4
  <2> QED
    BY <1>1, <2>1, <2>2
<1>4. \A k \in 0..n : Load(k)' = Load(k) /\ (Tidy(k)' <=> Tidy(k))
  <2> SUFFICES ASSUME NEW k \in 0..n PROVE Load(k)' = Load(k) /\ (Tidy(k)' <=> Tidy(k))
    OBVIOUS
  <2>1. k \in Nat /\ k <= Len(All) /\ k <= Len(All')
    <3>1. k \in Nat /\ k <= n /\ k <= n + Len(evs)
      BY <1>1
    <3> QED
      BY <1>2, <3>1
  <2>2. \A i \in 1..k : All'[i] = All[i]
    <3>1. \A i \in 1..k : i \in 1..n
      BY <1>1
    <3> QED
      BY <1>3, <3>1
  <2> QED
    BY <2>1, <2>2, LoadKept
<1>5. ASSUME NEW j \in 0..(Len(evs) - 1), Tidy(n + (j + 1))' PROVE Clean(n)
  <2>1. \A i \in 1..n : i \in 1..((n + (j + 1)) - 1)
    BY <1>1
  <2>2. \A i \in 1..n : All'[i].newline
    BY <1>5, <2>1 DEF Tidy
  <2> QED
    BY <1>3, <2>2 DEF Clean
<1>6. ASSUME NEW j \in 0..(Len(evs) - 1)
      PROVE  /\ n + j \in 0..(Len(All') - 1) /\ j + 1 \in 1..Len(evs)
             /\ All'[(n + j) + 1] = [event |-> evs[j + 1], newline |-> TRUE]
  <2>1. n + j \in 0..(Len(All') - 1) /\ Len(buf) + (j + 1) \in 1..Len(buf') /\ j + 1 \in 1..Len(evs)
    BY <1>1, <1>2
  <2>2. All'[Len(wal) + (Len(buf) + (j + 1))]
          = [event |-> buf'[Len(buf) + (j + 1)], newline |-> TRUE]
    BY <1>2, <2>1
  <2>3. buf'[Len(buf) + (j + 1)] = evs[j + 1]
    BY <1>1, <2>1
  <2>4. Len(wal) + (Len(buf) + (j + 1)) = (n + j) + 1
    BY <1>1
  <2> QED
    BY <2>1, <2>2, <2>3, <2>4
<1>7. ASSUME Clean(n), NEW j \in 0..(Len(evs) - 1)
      PROVE  Load(n + (j + 1))' = ApplyEvent(Load(n + j)', [event |-> evs[j + 1], newline |-> TRUE])
  <2>1. PICK base, all : base = snapshot' /\ all = All'
    OBVIOUS
  <2>2. PICK k : k = n + j
    OBVIOUS
  <2>3. /\ all \in Seq(Record) /\ k \in 0..(Len(all) - 1)
        /\ k \in 0..Len(all) /\ k + 1 \in 0..Len(all)
        /\ n + (j + 1) = k + 1 /\ k < n + Len(evs) /\ k \in Nat
    BY <1>1, <1>2, <1>6, <2>1, <2>2
  <2>4. \A i \in 1..(k + 1) : all[i].newline
    <3> SUFFICES ASSUME NEW i \in 1..(k + 1) PROVE all[i].newline
      OBVIOUS
    <3>1. CASE i <= n
      <4>1. i \in 1..n
        BY <1>1, <3>1
      <4> QED
        BY <1>3, <1>7, <2>1, <4>1 DEF Clean
    <3>2. CASE i > n
      <4>1. PICK l \in 0..(Len(evs) - 1) : i = (n + l) + 1
        <5>1. i - (n + 1) \in 0..(Len(evs) - 1) /\ i = (n + (i - (n + 1))) + 1
          BY <1>1, <2>3, <3>2
        <5> QED
          BY <5>1
      <4>2. all[(n + l) + 1] = [event |-> evs[l + 1], newline |-> TRUE]
        BY <1>6, <2>1
      <4> QED
        BY <4>1, <4>2
    <3> QED
      BY <1>1, <2>3, <3>1, <3>2
  <2>5. /\ ReadAll(SubSeq(all, 1, k)) = SubSeq(all, 1, k)
        /\ ReadAll(SubSeq(all, 1, k + 1)) = SubSeq(all, 1, k + 1)
    <3>1. \A i \in 1..k : all[i].newline
      BY <2>3, <2>4
    <3> QED
      BY <2>3, <2>4, <3>1, LoadClean
  <2>6. ApplyEvents(base, SubSeq(all, 1, k + 1))
          = ApplyEvent(ApplyEvents(base, SubSeq(all, 1, k)), all[k + 1])
    BY <2>3, ApplyNext
  <2>7. all[k + 1] = [event |-> evs[j + 1], newline |-> TRUE]
    BY <1>6, <2>1, <2>2
  <2>8. Load(k + 1)' = ApplyEvent(Load(k)', [event |-> evs[j + 1], newline |-> TRUE])
    BY <2>1, <2>5, <2>6, <2>7 DEF Load
  <2> QED
    BY <2>2, <2>3, <2>8
<1> QED
  BY <1>1, <1>2, <1>4, <1>5, <1>7

LEMMA ExtendsFits ==
  ASSUME Base, Base', Recoverable, Present, pc # "down",
         UNCHANGED <<tasks, snapshot, wal, synced, unsure>>,
         NEW evs \in Seq(Event), buf' = buf \o evs,
         \A i \in 1..Len(evs) : \A c \in Cell :
           evs[i].puts[c] = Keep \/ evs[i].puts[c] \in unsure[evs[i].task][c]
  PROVE  Recoverable' /\ Present'
<1>1. PICK n : n = Len(All)
  OBVIOUS
<1>2. /\ n \in Nat /\ Len(All') = n + Len(evs)
      /\ \A k \in 0..n : Load(k)' = Load(k) /\ (Tidy(k)' <=> Tidy(k))
      /\ \A j \in 0..(Len(evs) - 1) : Tidy(n + (j + 1))' => Clean(n)
      /\ Clean(n) => \A j \in 0..(Len(evs) - 1) :
           Load(n + (j + 1))' = ApplyEvent(Load(n + j)', [event |-> evs[j + 1], newline |-> TRUE])
  BY <1>1, Extends
<1>3. synced \in 0..n /\ synced' = synced /\ Len(evs) \in Nat
  BY <1>1, AllType
<1>4. \A t \in Task : Map!Possible(t)' = Map!Possible(t)
  BY DEF Map!Possible
<1>5. \A k \in 0..n : k \in synced..n /\ Tidy(k) => \A t \in Task : Load(k)'[t] \in Map!Possible(t)
  BY <1>1, <1>2 DEF Recoverable
<1>6. ASSUME Clean(n)
      PROVE  \A j \in 0..Len(evs) :
               /\ Load(n + j)' \in Held
               /\ \A t \in Task : /\ Load(n + j)'[t] \in Map!Possible(t)
                                  /\ tasks[t] # Nothing => Load(n + j)'[t] # Nothing
  <2> DEFINE G == {j \in 0..Len(evs) :
                     /\ Load(n + j)' \in Held
                     /\ \A t \in Task : /\ Load(n + j)'[t] \in Map!Possible(t)
                                        /\ tasks[t] # Nothing => Load(n + j)'[t] # Nothing}
  <2>1. 0 \in G
    <3>1. n + 0 = n /\ n \in 0..n /\ n \in synced..n /\ 0 \in 0..Len(evs)
      BY <1>2, <1>3
    <3>2. Tidy(n)
      <4>1. \A i \in 1..(n - 1) : i \in 1..n
        BY <1>2
      <4> QED
        BY <1>6, <4>1 DEF Clean, Tidy
    <3>3. Load(n)' = Load(n) /\ Load(n) \in Held
      BY <1>1, <1>2, <3>1, LoadType
    <3>4. \A t \in Task : tasks[t] # Nothing => Load(n)[t] # Nothing
      BY <1>1, <3>2 DEF Present
    <3> QED
      BY <1>5, <3>1, <3>2, <3>3, <3>4
  <2>2. ASSUME NEW j \in 0..(Len(evs) - 1), j \in G PROVE j + 1 \in G
    <3>1. j + 1 \in 0..Len(evs) /\ j + 1 \in 1..Len(evs)
      BY <1>3
    <3>2. PICK r : r = [event |-> evs[j + 1], newline |-> TRUE]
      OBVIOUS
    <3>3. r \in Line /\ \A c \in Cell : \/ r.event.puts[c] = Keep
                                         \/ r.event.puts[c] \in unsure[r.event.task][c]
      BY <3>1, <3>2 DEF Line
    <3>4. PICK ts, us : ts = Load(n + j)' /\ us = ApplyEvent(ts, r)
      OBVIOUS
    <3>5. Load(n + (j + 1))' = us
      BY <1>2, <1>6, <3>2, <3>4
    <3>6. /\ ts \in Held
          /\ \A t \in Task : ts[t] \in Map!Possible(t) /\ (tasks[t] # Nothing => ts[t] # Nothing)
      BY <2>2, <3>4
    <3>7. r.event.task \in Task
      <4>1. r.event \in Event
        BY <3>3 DEF Line
      <4> QED
        BY <4>1, EventType
    <3>8. us \in Held
      BY <3>3, <3>4, <3>6, <3>7, EventAt
    <3>9. \A t \in Task : us[t] \in Map!Possible(t)
      BY <3>3, <3>4, <3>6, EventFits
    <3>10. \A t \in Task : tasks[t] # Nothing => us[t] # Nothing
      BY <3>3, <3>4, <3>6, EventKeeps
    <3> QED
      BY <3>1, <3>5, <3>8, <3>9, <3>10
  <2>3. \A j \in 0..Len(evs) : j \in G
    <3> HIDE DEF G
    <3> QED
      BY <1>3, <2>1, <2>2, UpTo
  <2> QED
    BY <2>3
<1>7. ASSUME NEW k \in 0..Len(All'), k > n
      PROVE  \E j \in 0..(Len(evs) - 1) : k = n + (j + 1)
  <2>1. k - (n + 1) \in 0..(Len(evs) - 1) /\ k = n + ((k - (n + 1)) + 1)
    BY <1>2, <1>3, <1>7
  <2> QED
    BY <2>1
<1>8. ASSUME NEW k \in synced'..Len(All'), Tidy(k)', NEW t \in Task
      PROVE  Load(k)'[t] \in Map!Possible(t)'
  <2>1. CASE k <= n
    <3>1. k \in 0..n /\ k \in synced..n
      BY <1>2, <1>3, <2>1
    <3> QED
      BY <1>2, <1>4, <1>5, <1>8, <3>1
  <2>2. CASE k > n
    <3>1. PICK j \in 0..(Len(evs) - 1) : k = n + (j + 1)
      BY <1>2, <1>3, <1>7, <2>2
    <3>2. Clean(n) /\ j + 1 \in 0..Len(evs)
      BY <1>2, <1>3, <1>8, <3>1
    <3>3. \A u \in Task : Load(n + (j + 1))'[u] \in Map!Possible(u)
      BY <1>6, <3>2
    <3> QED
      BY <1>4, <3>1, <3>3
  <2> QED
    BY <1>2, <1>3, <2>1, <2>2
<1>9. Recoverable'
  BY <1>8 DEF Recoverable
<1>10. ASSUME NEW m, m = Len(All'), Tidy(m)', NEW t \in Task, tasks[t] # Nothing
       PROVE  Load(m)'[t] # Nothing
  <2>1. CASE Len(evs) = 0
    <3>1. m = n /\ n \in 0..n
      BY <1>2, <1>10, <2>1
    <3>2. Tidy(n) /\ Load(n)' = Load(n)
      BY <1>2, <1>10, <3>1
    <3> QED
      BY <1>1, <1>10, <3>1, <3>2 DEF Present
  <2>2. CASE Len(evs) # 0
    <3>1. /\ Len(evs) - 1 \in 0..(Len(evs) - 1) /\ n + ((Len(evs) - 1) + 1) = m
          /\ Len(evs) \in 0..Len(evs) /\ m = n + Len(evs)
      BY <1>2, <1>3, <1>10, <2>2
    <3>2. Clean(n)
      BY <1>2, <1>10, <3>1
    <3> QED
      BY <1>6, <1>10, <3>1, <3>2
  <2> QED
    BY <2>1, <2>2
<1>11. Present'
  <2>1. PICK m : m = Len(All')
    OBVIOUS
  <2>2. (Tidy(Len(All))' <=> Tidy(m)') /\ Load(Len(All))' = Load(m)'
    BY <2>1 DEF Tidy, Load
  <2> QED
    BY <1>10, <2>1, <2>2 DEF Present
<1> QED
  BY <1>9, <1>11

\* What the theorems rest on, besides the types.
Sound == (Trusted => Recoverable /\ Present) /\ Offered

\* Steps that leave tasks, snapshot and records as they are.
LEMMA PresentKept ==
  ASSUME Present, pc # "down", UNCHANGED <<tasks, snapshot>>, All' = All
  PROVE  Present'
<1>1. Load(Len(All))' = Load(Len(All)) /\ (Tidy(Len(All))' <=> Tidy(Len(All)))
  BY DEF Load, Tidy
<1> QED
  BY <1>1 DEF Present

\* Steps of a call that leave file and buffer as they are and return an error, or go on.
LEMMA SameSound ==
  ASSUME Base, Sound, Base', UNCHANGED <<tasks, snapshot, wal, synced, buf>>, Grown,
         pc # "down", Trusted' => Trusted,
         pc' \notin {"flush", "sync"} \/ call' = None
  PROVE  Sound'
<1>1. All' = All
  BY DEF All
<1>2. Trusted' => Recoverable' /\ Present'
  <2> SUFFICES ASSUME Trusted' PROVE Recoverable' /\ Present'
    OBVIOUS
  <2>1. Recoverable /\ Present /\ synced <= synced' /\ Len(All') <= Len(All)
    BY <1>1, AllType DEF Sound
  <2> QED
    BY <1>1, <2>1, Kept, PresentKept
<1>3. Offered'
  BY DEF Offered
<1> QED
  BY <1>2, <1>3 DEF Sound

LEMMA BeginSound ==
  ASSUME Base, Sound, Base', NEW k, Calls(k), Begin(k)
  PROVE  Sound'
<1>1. k.task \in Task /\ unsure \in [Task -> [Cell -> SUBSET Val]]
  BY DEF Calls, Call, Base, TypeOK
<1>2. PICK evs : evs = Events(k)
  OBVIOUS
<1>3. unsure' = [unsure EXCEPT ![k.task] = [c \in Cell |-> @[c] \cup PutIn(evs, c)]]
  BY <1>2 DEF Begin
<1>4. Grown
  BY <1>1, <1>3 DEF Grown, Begin
<1>5. Trusted' => Trusted
  BY DEF Begin, Goto, Trusted
<1> QED
  BY <1>4, <1>5, SameSound DEF Begin, Goto

LEMMA CreateTaskSound ==
  ASSUME Base, Sound, Base', NEW t \in Task, CreateTask(t) PROVE Sound'
BY CreateTaskCall, BeginSound DEF CreateTask

LEMMA UpdateTaskSound ==
  ASSUME Base, Sound, Base', NEW t \in Task, NEW f \in File, NEW v \in Value, UpdateTask(t, f, v)
  PROVE  Sound'
BY UpdateTaskCall, BeginSound DEF UpdateTask

\* The records of a call create its task, or update it; which an update needs.
LEMMA EventsKind ==
  ASSUME tasks \in Held, NEW k, Calls(k)
  PROVE  /\ k.file = None => Events(k)[1].new
         /\ Events(k)[1].new \/ tasks[k.task] # Nothing
<1>1. CASE k.file = None
  <2>1. PICK e : e = [task |-> k.task, new |-> TRUE, puts |-> Result(k)]
    OBVIOUS
  <2>2. Events(k) = <<e>> /\ e.new
    BY <1>1, <2>1, EventsAre
  <2> QED
    BY <2>2
<1>2. CASE k.file # None
  BY <1>2 DEF Calls
<1> QED
  BY <1>1, <1>2

\* Applied one after the other, where the task is known unless they create it, they give
\* the values of the call to its task.
LEMMA EventsGive ==
  ASSUME tasks \in Held, NEW k, Calls(k), NEW evs, evs = Events(k), NEW L \in [0..Len(evs) -> Held],
         \A j \in 0..(Len(evs) - 1) :
           L[j + 1] = ApplyEvent(L[j], [event |-> evs[j + 1], newline |-> TRUE]),
         tasks[k.task] # Nothing => L[0][k.task] # Nothing
  PROVE  LET x == L[Len(evs)][k.task]
         IN  /\ x # Nothing
             /\ \A c \in Cell : PutIn(evs, c) # {} => x[c] = Result(k)[c]
<1>1. /\ evs \in Seq(Event) /\ Len(evs) \in {1, 2, 3} /\ k.task \in Task
      /\ \A i \in 1..Len(evs) : evs[i].task = k.task
      /\ evs[1].new \/ L[0][k.task] # Nothing
  BY EventsType, EventsKind DEF Calls, Call
<1>2. PICK n, t : n = Len(evs) /\ t = k.task
  OBVIOUS
<1>3. n \in Nat /\ n \in 0..n /\ 1 <= n
  BY <1>1, <1>2
<1>4. ASSUME NEW j \in 0..(n - 1), evs[j + 1].new \/ L[j][t] # Nothing
      PROVE  /\ L[j + 1][t] \in Content
             /\ \A c \in Cell :
                  L[j + 1][t][c] = IF evs[j + 1].puts[c] = Keep THEN L[j][t][c]
                                   ELSE evs[j + 1].puts[c]
  <2>1. PICK e, r, ts, us : /\ e = evs[j + 1] /\ r = [event |-> e, newline |-> TRUE]
                            /\ ts = L[j] /\ us = L[j + 1]
    OBVIOUS
  <2>2. j + 1 \in 1..n /\ j \in 0..n /\ j + 1 \in 0..n
    BY <1>3
  <2>3. e \in Event /\ e.task = t /\ ts \in Held /\ r.event = e /\ t \in Task
    BY <1>1, <1>2, <2>1, <2>2
  <2>4. r \in Line
    BY <2>1, <2>3 DEF Line
  <2>5. us = ApplyEvent(ts, r)
    BY <1>2, <2>1
  <2>6. e.new \in BOOLEAN /\ (e.new => \A c \in Cell : e.puts[c] # Keep)
    BY <2>3, EventType
  <2>7. CASE e.new
    <3>1. us[t] = e.puts /\ e.puts \in Content
      BY <2>3, <2>4, <2>5, <2>7, EventAt
    <3> QED
      BY <2>1, <2>6, <2>7, <3>1
  <2>8. CASE ~e.new
    <3>1. ts[t] # Nothing
      BY <1>4, <2>1, <2>8
    <3>2. /\ us[t] \in Content
          /\ \A c \in Cell : us[t][c] = IF e.puts[c] = Keep THEN ts[t][c] ELSE e.puts[c]
      BY <2>3, <2>4, <2>5, <2>6, <2>8, <3>1, EventAt
    <3> QED
      BY <2>1, <3>2
  <2> QED
    BY <2>6, <2>7, <2>8
<1>5. \A j \in 0..n : j >= 1 => L[j][t] \in Content
  <2> DEFINE G == {j \in 0..n : j >= 1 => L[j][t] \in Content}
  <2>1. 0 \in G
    BY <1>3
  <2>2. ASSUME NEW j \in 0..(n - 1), j \in G PROVE j + 1 \in G
    <3>1. j + 1 \in 0..n
      BY <1>3
    <3>2. evs[j + 1].new \/ L[j][t] # Nothing
      <4>1. CASE j = 0
        BY <1>1, <1>2, <4>1
      <4>2. CASE j # 0
        <5>1. j >= 1
          BY <4>2
        <5> QED
          BY <2>2, <5>1, ContentFacts
      <4> QED
        BY <4>1, <4>2
    <3> QED
      BY <1>4, <3>1, <3>2
  <2>3. \A j \in 0..n : j \in G
    <3> HIDE DEF G
    <3> QED
      BY <1>3, <2>1, <2>2, UpTo
  <2> QED
    BY <2>3
<1>6. \A j \in 0..(n - 1) : \A c \in Cell :
        L[j + 1][t][c] = IF evs[j + 1].puts[c] = Keep THEN L[j][t][c] ELSE evs[j + 1].puts[c]
  <2> SUFFICES ASSUME NEW j \in 0..(n - 1), NEW c \in Cell
               PROVE  L[j + 1][t][c] = IF evs[j + 1].puts[c] = Keep THEN L[j][t][c]
                                       ELSE evs[j + 1].puts[c]
    OBVIOUS
  <2>1. evs[j + 1].new \/ L[j][t] # Nothing
    <3>1. CASE j = 0
      BY <1>1, <1>2, <3>1
    <3>2. CASE j # 0
      <4>1. j >= 1 /\ j \in 0..n
        BY <1>3, <3>2
      <4> QED
        BY <1>5, <4>1, ContentFacts
    <3> QED
      BY <3>1, <3>2
  <2> QED
    BY <1>4, <2>1
<1>7. L[n][t] # Nothing
  BY <1>3, <1>5, ContentFacts
<1>8. ASSUME NEW c \in Cell, PutIn(evs, c) # {} PROVE L[n][t][c] = Result(k)[c]
  <2>1. PICK i \in 1..n : /\ evs[i].puts[c] = Result(k)[c]
                          /\ \A j \in (i + 1)..n : evs[j].puts[c] = Keep
    BY <1>2, <1>8, EventsLast
  <2>2. Result(k)[c] # Keep
    <3>1. Result(k) \in Content
      BY ResultContent
    <3>2. Result(k)[c] \in Val
      BY <3>1 DEF Content
    <3> QED
      BY <3>2, KeepNotVal
  <2>3. PICK m : m = Result(k)[c]
    OBVIOUS
  <2> DEFINE G == {j \in 0..n : j >= i => L[j][t][c] = m}
  <2>4. 0 \in G
    BY <1>3
  <2>5. ASSUME NEW j \in 0..(n - 1), j \in G PROVE j + 1 \in G
    <3>1. j + 1 \in 0..n
      BY <1>3
    <3>2. CASE j + 1 < i
      BY <1>3, <3>1, <3>2
    <3>3. CASE j + 1 = i
      BY <1>6, <2>1, <2>2, <2>3, <3>1, <3>3
    <3>4. CASE j + 1 > i
      <4>1. j + 1 \in (i + 1)..n /\ j >= i
        BY <1>3, <3>4
      <4>2. evs[j + 1].puts[c] = Keep /\ L[j][t][c] = m
        BY <2>1, <2>5, <4>1
      <4> QED
        BY <1>6, <3>1, <4>2
    <3> QED
      BY <1>3, <3>2, <3>3, <3>4
  <2>6. \A j \in 0..n : j \in G
    <3> HIDE DEF G
    <3> QED
      BY <1>3, <2>4, <2>5, UpTo
  <2>7. n >= i
    BY <1>3
  <2> QED
    BY <1>3, <2>3, <2>6, <2>7
<1> QED
  BY <1>2, <1>7, <1>8

\* The records of the call in progress put what it has offered.
LEMMA EventsOffered ==
  ASSUME Base, call # None
  PROVE  \A i \in 1..Len(Events(call)) : \A c \in Cell :
           \/ Events(call)[i].puts[c] = Keep
           \/ Events(call)[i].puts[c] \in unsure[Events(call)[i].task][c]
<1>1. PICK evs, k : evs = Events(call) /\ k = call
  OBVIOUS
<1>2. /\ evs \in Seq(Event) /\ DOMAIN evs = 1..Len(evs)
      /\ \A i \in 1..Len(evs) : evs[i].task = k.task
  <2>1. evs \in Seq(Event) /\ \A i \in 1..Len(evs) : evs[i].task = k.task
    BY <1>1, CallType
  <2> QED
    BY <2>1
<1>3. \A c \in Cell : PutIn(evs, c) \subseteq unsure[k.task][c]
  BY <1>1 DEF Base, Progress
<1>4. ASSUME NEW i \in 1..Len(evs), NEW c \in Cell
      PROVE  evs[i].puts[c] = Keep \/ evs[i].puts[c] \in unsure[evs[i].task][c]
  <2>1. evs[i].puts[c] = Keep \/ evs[i].puts[c] \in PutIn(evs, c)
    BY <1>2 DEF PutIn
  <2> QED
    BY <1>2, <1>3, <2>1
<1> QED
  BY <1>1, <1>4

LEMMA AppendAllSound ==
  ASSUME Base, Sound, Base', AppendAll
  PROVE  Sound'
<1>1. /\ pc = "append" /\ pc' = "flush" /\ log' = log /\ log \in {"open", "closed"}
      /\ UNCHANGED <<tasks, snapshot, wal, synced, call, unsure>>
  BY DEF AppendAll, Goto
<1>2. call # None
  BY <1>1 DEF Base, Progress
<1>3. CASE log = "closed"
  <2>1. ~Trusted'
    BY <1>1, <1>3 DEF Base, Progress, Trusted
  <2>2. Offered'
    BY <1>1, <1>3 DEF Offered
  <2> QED
    BY <2>1, <2>2 DEF Sound
<1>4. CASE log = "open"
  <2>1. PICK evs, n, k : evs = Events(call) /\ n = Len(All) /\ k = call
    OBVIOUS
  <2>2. /\ Recoverable /\ Present /\ buf' = buf \o evs
        /\ evs \in Seq(Event) /\ Len(evs) \in {1, 2, 3}
        /\ Calls(k) /\ k.task \in Task /\ tasks \in Held
    BY <1>1, <1>2, <1>4, <2>1, CallType DEF AppendAll, Sound, Trusted
  <2>3. \A i \in 1..Len(evs) : \A c \in Cell :
          evs[i].puts[c] = Keep \/ evs[i].puts[c] \in unsure[evs[i].task][c]
    BY <1>2, <2>1, EventsOffered
  <2>4. Recoverable' /\ Present'
    BY <1>1, <2>2, <2>3, ExtendsFits
  <2>5. /\ n \in Nat /\ Len(All') = n + Len(evs)
        /\ \A j \in 0..n : Load(j)' = Load(j) /\ (Tidy(j)' <=> Tidy(j))
        /\ \A j \in 0..(Len(evs) - 1) : Tidy(n + (j + 1))' => Clean(n)
        /\ Clean(n) => \A j \in 0..(Len(evs) - 1) :
             Load(n + (j + 1))' = ApplyEvent(Load(n + j)', [event |-> evs[j + 1], newline |-> TRUE])
    BY <1>1, <2>1, <2>2, Extends
  <2>6. ASSUME Tidy(n + Len(evs))'
        PROVE  LET x == Load(n + Len(evs))'[k.task]
               IN  /\ x # Nothing
                   /\ \A c \in Cell : PutIn(evs, c) # {} => x[c] = Result(k)[c]
    <3>1. Clean(n) /\ Tidy(n)
      <4>1. Len(evs) - 1 \in 0..(Len(evs) - 1) /\ Len(evs) = (Len(evs) - 1) + 1
        <5>1. Len(evs) = 1 \/ Len(evs) = 2 \/ Len(evs) = 3
          BY <2>2
        <5> QED
          BY <5>1
      <4>2. Clean(n)
        BY <2>5, <2>6, <4>1
      <4>3. \A i \in 1..(n - 1) : i \in 1..n
        BY <2>5
      <4> QED
        BY <4>2, <4>3 DEF Clean, Tidy
    <3>2. PICK L : L = [j \in 0..Len(evs) |-> Load(n + j)']
      OBVIOUS
    <3>3. L \in [0..Len(evs) -> Held]
      <4>1. ASSUME NEW j \in 0..Len(evs) PROVE Load(n + j)' \in Held
        <5>1. n + j \in 0..Len(All')
          BY <2>2, <2>5
        <5> QED
          BY <5>1, LoadTypeNext
      <4> QED
        BY <3>2, <4>1
    <3>4. \A j \in 0..(Len(evs) - 1) :
            L[j + 1] = ApplyEvent(L[j], [event |-> evs[j + 1], newline |-> TRUE])
      <4> SUFFICES ASSUME NEW j \in 0..(Len(evs) - 1)
                   PROVE  L[j + 1] = ApplyEvent(L[j], [event |-> evs[j + 1], newline |-> TRUE])
        OBVIOUS
      <4>1. j \in 0..Len(evs) /\ j + 1 \in 0..Len(evs)
        BY <2>2
      <4>2. L[j] = Load(n + j)' /\ L[j + 1] = Load(n + (j + 1))'
        BY <3>2, <4>1
      <4> QED
        BY <2>5, <3>1, <4>2
    <3>5. tasks[k.task] # Nothing => L[0][k.task] # Nothing
      <4>1. n + 0 = n /\ n \in 0..n /\ 0 \in 0..Len(evs)
        BY <2>2, <2>5
      <4>2. L[0] = Load(n)
        BY <2>5, <3>2, <4>1
      <4> QED
        BY <1>1, <2>1, <2>2, <3>1, <4>2 DEF Present
    <3>6. LET x == L[Len(evs)][k.task]
          IN  x # Nothing /\ \A c \in Cell : PutIn(evs, c) # {} => x[c] = Result(k)[c]
      BY <2>1, <2>2, <3>3, <3>4, <3>5, EventsGive
    <3>7. Len(evs) \in 0..Len(evs)
      BY <2>2
    <3>8. L[Len(evs)] = Load(n + Len(evs))'
      BY <3>2, <3>7
    <3> QED
      BY <3>6, <3>8
  <2>7. Offered'
    <3>1. /\ call' = k /\ Len(All') = n + Len(evs)
          /\ Events(call)' = evs /\ Result(call)' = Result(k)
      BY <1>1, <2>1, <2>5, EventsSame
    <3>2. \A c \in Cell : PutIn(Events(call), c)' = PutIn(evs, c)
      BY <3>1 DEF PutIn
    <3>3. /\ Tidy(Len(All))' <=> Tidy(n + Len(evs))'
          /\ Load(Len(All))' = Load(n + Len(evs))'
      BY <3>1 DEF Tidy, Load
    <3> QED
      BY <2>6, <3>1, <3>2, <3>3 DEF Offered
  <2> QED
    BY <2>4, <2>7 DEF Sound
<1> QED
  BY <1>1, <1>3, <1>4

LEMMA AppendFailsSound ==
  ASSUME Base, Sound, Base', AppendFails
  PROVE  Sound'
<1>1. /\ pc = "append" /\ pc' = "idle" /\ log' = log
      /\ UNCHANGED <<tasks, snapshot, wal, synced, unsure>>
  BY DEF AppendFails, Fail, Goto
<1>2. CASE UNCHANGED buf
  <2>1. Grown
    BY <1>1 DEF Grown
  <2> QED
    BY <1>1, <1>2, <2>1, SameSound DEF Trusted
<1>3. CASE ~UNCHANGED buf
  <2>1. PICK all : all = Events(call)
    OBVIOUS
  <2>2. PICK k \in 0..(Len(all) - 1) : buf' = buf \o SubSeq(all, 1, k)
    BY <1>3, <2>1 DEF AppendFails
  <2>3. call # None /\ all \in Seq(Event) /\ Len(all) \in {1, 2, 3}
    BY <1>1, <2>1, CallType DEF Base, Progress
  <2>4. PICK evs : evs = SubSeq(all, 1, k)
    OBVIOUS
  <2>5. k \in 0..Len(all)
    BY <2>3
  <2>6. /\ evs \in Seq(Event) /\ Len(evs) = k /\ \A i \in 1..k : evs[i] = all[i]
    BY <2>3, <2>4, <2>5, Prefix
  <2>7. \A i \in 1..Len(evs) : \A c \in Cell :
          evs[i].puts[c] = Keep \/ evs[i].puts[c] \in unsure[evs[i].task][c]
    <3>1. \A i \in 1..k : i \in 1..Len(all)
      BY <2>3, <2>5
    <3>2. \A i \in 1..Len(all) : \A c \in Cell :
            all[i].puts[c] = Keep \/ all[i].puts[c] \in unsure[all[i].task][c]
      BY <2>1, <2>3, EventsOffered
    <3> QED
      BY <2>6, <3>1, <3>2
  <2>8. Recoverable /\ Present
    BY <1>3 DEF AppendFails, Sound, Trusted
  <2>9. Recoverable' /\ Present'
    BY <1>1, <2>2, <2>4, <2>6, <2>7, <2>8, ExtendsFits
  <2>10. Offered'
    BY <1>1 DEF Offered
  <2> QED
    BY <2>9, <2>10 DEF Sound
<1> QED
  BY <1>2, <1>3


\* A flush moves the first records of the buffer to the file: all of them, or those before
\* the one at which it fails, and maybe a piece of that.
Moved(k, piece) ==
  /\ wal' = wal \o SubSeq(Lines(buf), 1, k) \o piece
  /\ buf' = SubSeq(buf, k + 1, Len(buf))

LEMMA MovedAll ==
  ASSUME Base, Base', NEW k \in 0..Len(buf), NEW piece \in Seq(Record), Len(piece) \in {0, 1},
         Moved(k, piece)
  PROVE  /\ Len(wal') = Len(wal) + k + Len(piece) /\ Len(buf') = Len(buf) - k
         /\ Len(All') = Len(All) + Len(piece)
         /\ \A i \in 1..(Len(wal) + k) : All'[i] = All[i]
         /\ Len(piece) = 0 => All' = All
         /\ Len(piece) = 1 => All'[(Len(wal) + k) + 1] = piece[1]
<1>1. /\ wal \in Seq(Record) /\ buf \in Seq(Event) /\ Len(wal) \in Nat /\ Len(buf) \in Nat
      /\ Lines(buf) \in Seq(Record) /\ Len(Lines(buf)) = Len(buf)
      /\ \A i \in 1..Len(buf) : Lines(buf)[i] = [event |-> buf[i], newline |-> TRUE]
  <2>1. wal \in Seq(Record) /\ buf \in Seq(Event)
    BY DEF Base, TypeOK
  <2> QED
    BY <2>1, LinesType
<1>2. PICK u : u = SubSeq(Lines(buf), 1, k)
  OBVIOUS
<1>3. /\ u \in Seq(Record) /\ Len(u) = k /\ k \in Nat /\ k <= Len(buf)
      /\ \A i \in 1..k : u[i] = [event |-> buf[i], newline |-> TRUE]
  <2>1. PICK lines : lines = Lines(buf)
    OBVIOUS
  <2>2. lines \in Seq(Record) /\ Len(lines) = Len(buf) /\ k \in 0..Len(lines)
    BY <1>1, <2>1
  <2>3. u \in Seq(Record) /\ Len(u) = k /\ \A i \in 1..k : u[i] = lines[i]
    BY <1>2, <2>1, <2>2, Prefix
  <2>4. k \in Nat /\ k <= Len(buf) /\ \A i \in 1..k : i \in 1..Len(buf)
    BY <1>1
  <2>5. \A i \in 1..Len(buf) : lines[i] = [event |-> buf[i], newline |-> TRUE]
    BY <1>1, <2>1
  <2> QED
    BY <2>3, <2>4, <2>5
<1>4. PICK file, s : file = wal /\ s = file \o u
  OBVIOUS
<1>5. /\ s \in Seq(Record) /\ Len(s) = Len(file) + k
      /\ \A i \in 1..Len(file) : s[i] = file[i]
      /\ \A i \in 1..k : s[Len(file) + i] = u[i]
  <2>1. file \in Seq(Record) /\ u \in Seq(Record)
    BY <1>1, <1>3, <1>4
  <2>2. /\ file \o u \in Seq(Record) /\ Len(file \o u) = Len(file) + Len(u)
        /\ \A i \in 1..Len(file) : (file \o u)[i] = file[i]
        /\ \A i \in 1..Len(u) : (file \o u)[Len(file) + i] = u[i]
    BY ONLY <2>1
  <2> QED
    BY <1>3, <1>4, <2>2
<1>6. wal' = s \o piece
  BY <1>2, <1>4 DEF Moved
<1>7. /\ Len(s \o piece) = Len(s) + Len(piece)
      /\ \A i \in 1..Len(s) : (s \o piece)[i] = s[i]
      /\ Len(piece) = 1 => (s \o piece)[Len(s) + 1] = piece[1]
  <2>1. Len(piece) = 1 => 1 \in 1..Len(piece)
    OBVIOUS
  <2>2. s \in Seq(Record) /\ piece \in Seq(Record)
    BY <1>5
  <2>3. /\ Len(s \o piece) = Len(s) + Len(piece)
        /\ \A i \in 1..Len(s) : (s \o piece)[i] = s[i]
        /\ \A i \in 1..Len(piece) : (s \o piece)[Len(s) + i] = piece[i]
    BY ONLY <2>2
  <2> QED
    BY <2>1, <2>3
<1>8. /\ Len(buf') = Len(buf) - k
      /\ \A i \in 1..(Len(buf) - k) : buf'[i] = buf[k + i]
  BY <1>1, <1>3 DEF Moved
<1>9. Len(wal') = Len(wal) + k + Len(piece)
  BY <1>4, <1>5, <1>6, <1>7
<1>10. \A i \in 1..(Len(wal) + k) : All'[i] = All[i]
  <2> SUFFICES ASSUME NEW i \in 1..(Len(wal) + k) PROVE All'[i] = All[i]
    OBVIOUS
  <2>1. i \in 1..Len(wal') /\ i \in 1..Len(s)
    BY <1>1, <1>3, <1>4, <1>5, <1>9
  <2>2. All'[i] = wal'[i] /\ wal'[i] = s[i]
    BY <1>6, <1>7, <2>1, AllTypeNext
  <2>3. CASE i <= Len(wal)
    <3>1. i \in 1..Len(wal)
      BY <1>1, <2>3
    <3>2. s[i] = wal[i] /\ All[i] = wal[i]
      BY <1>4, <1>5, <3>1, AllType
    <3> QED
      BY <2>2, <3>2
  <2>4. CASE i > Len(wal)
    <3>1. PICK j \in 1..k : i = Len(wal) + j
      <4>1. i - Len(wal) \in 1..k /\ i = Len(wal) + (i - Len(wal))
        BY <1>1, <1>3, <2>4
      <4> QED
        BY <4>1
    <3>2. s[Len(wal) + j] = [event |-> buf[j], newline |-> TRUE] /\ j \in 1..Len(buf)
      <4>1. j \in 1..Len(buf)
        BY <1>1, <1>3
      <4>2. s[Len(wal) + j] = u[j] /\ u[j] = [event |-> buf[j], newline |-> TRUE]
        BY <1>3, <1>4, <1>5
      <4> QED
        BY <4>1, <4>2
    <3>3. All[Len(wal) + j] = [event |-> buf[j], newline |-> TRUE]
      BY <3>2, AllType
    <3> QED
      BY <2>2, <3>1, <3>2, <3>3
  <2> QED
    BY <1>1, <2>3, <2>4
<1>11. Len(All') = Len(All) + Len(piece)
  <2>1. Len(All') = Len(wal') + Len(buf') /\ Len(All) = Len(wal) + Len(buf)
    BY AllType, AllTypeNext
  <2>2. PICK w, b, p : w = Len(wal) /\ b = Len(buf) /\ p = Len(piece)
    OBVIOUS
  <2>3. w \in Nat /\ b \in Nat /\ p \in {0, 1} /\ k \in Nat
    BY <1>1, <1>3, <2>2
  <2>4. (w + k + p) + (b - k) = (w + b) + p
    BY ONLY <2>3
  <2> QED
    BY <1>8, <1>9, <2>1, <2>2, <2>4
<1>12. ASSUME Len(piece) = 0 PROVE All' = All
  <2>1. Len(All') = Len(All) /\ Len(wal') = Len(wal) + k
    BY <1>1, <1>3, <1>9, <1>11, <1>12, AllType
  <2>2. ASSUME NEW i \in 1..Len(All') PROVE All'[i] = All[i]
    <3>1. CASE i <= Len(wal) + k
      <4>1. i \in 1..(Len(wal) + k)
        BY <1>1, <1>3, <3>1
      <4> QED
        BY <1>10, <4>1
    <3>2. CASE i > Len(wal) + k
      <4>1. PICK j \in 1..(Len(buf) - k) : i = (Len(wal) + k) + j
        <5>1. Len(All') = Len(wal) + Len(buf)
          BY <2>1, AllType
        <5>2. i - (Len(wal) + k) \in 1..(Len(buf) - k) /\ i = (Len(wal) + k) + (i - (Len(wal) + k))
          BY <1>1, <1>3, <3>2, <5>1
        <5> QED
          BY <5>2
      <4>2. /\ j \in 1..Len(buf') /\ k + j \in 1..Len(buf)
            /\ i = Len(wal') + j /\ i = Len(wal) + (k + j)
        BY <1>1, <1>3, <1>8, <2>1, <4>1
      <4>3. All'[Len(wal') + j] = [event |-> buf'[j], newline |-> TRUE]
        BY <4>2, AllTypeNext
      <4>4. All[Len(wal) + (k + j)] = [event |-> buf[k + j], newline |-> TRUE]
        BY <4>2, AllType
      <4> QED
        BY <1>8, <4>1, <4>2, <4>3, <4>4
    <3> QED
      BY <1>1, <1>3, <3>1, <3>2
  <2> QED
    BY <2>1, <2>2, SeqEqual, AllType, AllTypeNext
<1>13. ASSUME Len(piece) = 1 PROVE All'[(Len(wal) + k) + 1] = piece[1]
  <2>1. (Len(wal) + k) + 1 \in 1..Len(wal') /\ (Len(wal) + k) + 1 = Len(s) + 1
    BY <1>1, <1>3, <1>4, <1>5, <1>9, <1>13
  <2>2. All'[(Len(wal) + k) + 1] = wal'[(Len(wal) + k) + 1]
    BY <2>1, AllTypeNext
  <2> QED
    BY <1>6, <1>7, <1>13, <2>1, <2>2
<1> QED
  BY <1>8, <1>9, <1>10, <1>11, <1>12, <1>13

LEMMA FlushSound ==
  ASSUME Base, Sound, Base', Flush
  PROVE  Sound'
<1>1. /\ log = "open" /\ pc = "flush" /\ pc' = "sync" /\ log' = log /\ call' = call
      /\ tasks' = tasks /\ snapshot' = snapshot /\ unsure' = unsure /\ synced' = synced
  BY DEF Flush, Goto
<1>2. All' = All
  <2>1. /\ wal \in Seq(Record) /\ buf \in Seq(Event) /\ Len(buf) \in 0..Len(buf)
        /\ Lines(buf) \in Seq(Record) /\ Len(Lines(buf)) = Len(buf)
    <3>1. wal \in Seq(Record) /\ buf \in Seq(Event)
      BY DEF Base, TypeOK
    <3> QED
      BY <3>1, LinesType
  <2>2. PICK lines : lines = Lines(buf)
    OBVIOUS
  <2>3. /\ SubSeq(lines, 1, Len(buf)) = lines /\ SubSeq(buf, Len(buf) + 1, Len(buf)) = <<>>
        /\ (wal \o lines) \o <<>> = wal \o lines
        /\ <<>> \in Seq(Record) /\ Len(<<>>) = 0
    BY <2>1, <2>2
  <2>4. Moved(Len(buf), <<>>)
    BY <2>2, <2>3 DEF Flush, Moved
  <2> QED
    BY <2>1, <2>3, <2>4, MovedAll
<1>3. Recoverable /\ Present /\ synced <= synced' /\ Len(All') <= Len(All) /\ Grown
  BY <1>1, <1>2, AllType DEF Sound, Trusted, Grown
<1>4. Recoverable' /\ Present'
  BY <1>1, <1>2, <1>3, Kept, PresentKept
<1>5. Offered'
  <2>1. Events(call)' = Events(call) /\ Result(call)' = Result(call)
    BY <1>1, EventsSame
  <2>2. \A c \in Cell : PutIn(Events(call), c)' = PutIn(Events(call), c)
    BY <2>1 DEF PutIn
  <2>3. (Tidy(Len(All))' <=> Tidy(Len(All))) /\ Load(Len(All))' = Load(Len(All))
    BY <1>1, <1>2 DEF Tidy, Load
  <2> QED
    BY <1>1, <2>1, <2>2, <2>3 DEF Sound, Offered
<1> QED
  BY <1>4, <1>5 DEF Sound

\* A flush that fails half-way leaves records in the file, a piece of one, and the rest in
\* the buffer.
LEMMA FlushShortSound ==
  ASSUME Base, Sound, Base', FlushShort
  PROVE  Sound'
<1>1. /\ log = "open" /\ pc = "flush" /\ pc' = "idle"
      /\ tasks' = tasks /\ snapshot' = snapshot /\ unsure' = unsure /\ synced' = synced
  BY DEF FlushShort, Fail, Goto
<1>2. Recoverable /\ Present /\ Grown
  BY <1>1 DEF Sound, Trusted, Grown
<1>3. PICK k \in 0..(Len(buf) - 1) :
        /\ \E piece \in Pieces(Lines(buf), k) : wal' = wal \o SubSeq(Lines(buf), 1, k) \o piece
        /\ buf' = SubSeq(buf, k + 1, Len(buf))
  BY DEF FlushShort
<1>4. PICK piece \in Pieces(Lines(buf), k) : Moved(k, piece)
  BY <1>3 DEF Moved
<1>5. k \in 0..Len(buf) /\ k + 1 \in 1..Len(buf) /\ k \in Nat /\ k < Len(buf)
  BY AllType
<1>6. PICK lines : lines = Lines(buf)
  OBVIOUS
<1>7. /\ lines \in Seq(Record) /\ Len(lines) = Len(buf) /\ k \in 0..Len(lines)
      /\ lines[k + 1] = [event |-> buf[k + 1], newline |-> TRUE]
  <2>1. buf \in Seq(Event)
    BY DEF Base, TypeOK
  <2> QED
    BY <1>5, <1>6, <2>1, LinesType
<1>8. /\ piece \in Seq(Record) /\ Len(piece) \in {0, 1}
      /\ \A i \in DOMAIN piece : ~piece[i].newline /\ piece[i].event \in {None, buf[k + 1]}
  <2>1. /\ piece \in Seq(Record) /\ Len(piece) \in {0, 1}
        /\ \A i \in DOMAIN piece : ~piece[i].newline /\ piece[i].event \in {None, lines[k + 1].event}
    BY <1>4, <1>6, <1>7, PieceType
  <2>2. lines[k + 1].event = buf[k + 1]
    BY <1>7
  <2> QED
    BY <2>1, <2>2
<1>9. /\ Len(All') = Len(All) + Len(piece)
      /\ \A i \in 1..(Len(wal) + k) : All'[i] = All[i]
      /\ Len(piece) = 0 => All' = All
      /\ Len(piece) = 1 => All'[(Len(wal) + k) + 1] = piece[1]
  BY <1>4, <1>5, <1>8, MovedAll
<1>10. CASE Len(piece) = 0
  <2>1. synced <= synced' /\ Len(All') <= Len(All)
    BY <1>1, <1>9, <1>10, AllType
  <2>2. Recoverable' /\ Present'
    BY <1>1, <1>2, <1>9, <1>10, <2>1, Kept, PresentKept
  <2> QED
    BY <1>1, <2>2 DEF Sound, Offered
<1>11. CASE Len(piece) = 1
  <2>1. PICK p : p = Len(wal) + k
    OBVIOUS
  <2>2. /\ p \in Nat /\ synced <= p /\ p < Len(All) /\ p < Len(All') /\ synced <= synced'
        /\ p + 1 \in 1..(Len(All') - 1)
    <3>1. /\ Len(wal) \in Nat /\ Len(buf) \in Nat /\ synced \in 0..Len(wal)
          /\ Len(All) = Len(wal) + Len(buf) /\ Len(All') = (Len(wal) + Len(buf)) + 1
      BY <1>9, <1>11, AllType
    <3> QED
      BY <1>1, <1>5, <2>1, <3>1
  <2>3. All[p + 1] = [event |-> buf[k + 1], newline |-> TRUE]
    <3>1. All[Len(wal) + (k + 1)] = [event |-> buf[k + 1], newline |-> TRUE]
      BY <1>5, AllType
    <3>2. Len(wal) + (k + 1) = p + 1
      BY <1>5, <2>1, AllType
    <3> QED
      BY <3>1, <3>2
  <2>4. ~All'[p + 1].newline /\ All'[p + 1].event \in {None, All[p + 1].event}
    <3>1. 1 \in DOMAIN piece
      BY <1>8, <1>11
    <3> QED
      BY <1>8, <1>9, <1>11, <2>1, <2>3, <3>1
  <2>5. \A i \in 1..p : All'[i] = All[i]
    BY <1>9, <2>1
  <2>6. Recoverable'
    BY <1>1, <1>2, <2>2, <2>4, <2>5, CutCovered
  <2>7. ~Tidy(Len(All))'
    BY <2>2, <2>4 DEF Tidy
  <2> QED
    BY <1>1, <2>6, <2>7 DEF Sound, Offered, Present
<1> QED
  BY <1>8, <1>10, <1>11

\* The steps of a call that change neither the log nor the snapshot, or fail.
LEMMA QuietSound ==
  ASSUME Base, Sound, Base',
         \/ FlushFails \/ BeginSnapshot \/ CloseLog \/ CloseLogFails \/ CreateLog \/ SnapshotFails
         \/ UNCHANGED vars
  PROVE  Sound'
<1>1. /\ UNCHANGED <<tasks, snapshot, wal, synced, buf, unsure>> /\ Grown
  BY DEF FlushFails, BeginSnapshot, CloseLog, CloseLogFails, CreateLog, SnapshotFails, vars, Grown
<1>2. CASE FlushFails \/ SnapshotFails
  BY <1>1, <1>2, SameSound DEF FlushFails, SnapshotFails, Fail, Goto, Trusted
<1>3. CASE BeginSnapshot
  BY <1>1, <1>3, SameSound DEF BeginSnapshot, Goto, Trusted, Base, Progress
<1>4. CASE CloseLog \/ CloseLogFails \/ CreateLog
  BY <1>1, <1>4, SameSound DEF CloseLog, CloseLogFails, CreateLog, Goto, Trusted
<1>5. CASE UNCHANGED vars
  <2>1. All' = All /\ (Trusted' <=> Trusted) /\ UNCHANGED <<pc, call, log>>
    BY <1>5 DEF vars, All, Trusted
  <2>2. (Tidy(Len(All))' <=> Tidy(Len(All))) /\ Load(Len(All))' = Load(Len(All))
    BY <1>1, <2>1 DEF Tidy, Load
  <2>3. Trusted' => Recoverable'
    <3> SUFFICES ASSUME Trusted' PROVE Recoverable'
      OBVIOUS
    <3>1. Recoverable /\ synced <= synced' /\ Len(All') <= Len(All)
      BY <1>1, <2>1, AllType DEF Sound
    <3> QED
      BY <1>1, <2>1, <3>1, Kept
  <2>4. Trusted' => Present'
    BY <1>1, <2>1, <2>2 DEF Sound, Present
  <2>5. Offered'
    <3>1. Events(call)' = Events(call) /\ Result(call)' = Result(call)
      BY <1>1, <2>1, EventsSame
    <3>2. \A c \in Cell : PutIn(Events(call), c)' = PutIn(Events(call), c)
      BY <3>1 DEF PutIn
    <3> QED
      BY <2>1, <2>2, <3>1, <3>2 DEF Sound, Offered
  <2> QED
    BY <2>3, <2>4, <2>5 DEF Sound
<1> QED
  BY <1>2, <1>3, <1>4, <1>5

\* All of the log is synced, and loading it gives the acknowledged tasks.
LEMMA SettledSound ==
  ASSUME Base', NEW n, n = Len(All'), synced' = n,
         Tidy(n)' => \A t \in Task : Load(n)'[t] \in Map!Possible(t)'
  PROVE  Recoverable'
<1>1. n \in Nat
  BY AllTypeNext
<1>2. ASSUME NEW k \in synced'..Len(All') PROVE k = n
  BY <1>1
<1> QED
  BY <1>2 DEF Recoverable

\* And every task that is known.
LEMMA PresentSettled ==
  ASSUME NEW n, n = Len(All'),
         Tidy(n)' => \A t \in Task : tasks'[t] # Nothing => Load(n)'[t] # Nothing
  PROVE  Present'
<1>1. (Tidy(Len(All))' <=> Tidy(n)') /\ Load(Len(All))' = Load(n)'
  BY DEF Tidy, Load
<1> QED
  BY <1>1 DEF Present

LEMMA PossibleNow ==
  ASSUME tasks' \in Held, NEW t \in Task
  PROVE  tasks'[t] \in Map!Possible(t)'
BY DEF Map!Possible, Held

\* A restart loads the whole file: what is synced is settled, and what is not may be lost.
LEMMA OpenSound ==
  ASSUME Base, Sound, Base', Open
  PROVE  Sound'
<1>1. /\ pc = "down" /\ pc' = "idle" /\ tasks' = Recovered /\ log' = "open"
      /\ UNCHANGED <<snapshot, wal, synced, buf>> /\ All' = All
  BY DEF Open, Goto, All
<1>2. PICK n : n = Len(wal)
  OBVIOUS
<1>3. n = Len(All) /\ n = Len(All') /\ n \in Nat
  <2>1. buf = <<>>
    BY <1>1 DEF Base, Progress
  <2> QED
    BY <1>1, <1>2, <2>1, AllType
<1>4. Load(n)' = tasks' /\ (\A k \in Nat : Load(k)' = Load(k) /\ (Tidy(k)' <=> Tidy(k)))
  <2>1. Load(n) = Recovered
    BY <1>2, LoadType
  <2> QED
    BY <1>1, <1>3, <2>1 DEF Load, Tidy
<1>5. tasks' \in Held /\ tasks \in Held /\ unsure \in [Task -> [Cell -> SUBSET Val]]
  BY DEF Base, TypeOK
<1>6. Present'
  BY <1>3, <1>4, PresentSettled
<1>7. CASE synced = Len(wal)
  <2>1. \A t \in Task : tasks'[t] \in Map!Possible(t)'
    BY <1>5, PossibleNow
  <2> QED
    BY <1>1, <1>2, <1>3, <1>4, <1>6, <1>7, <2>1, SettledSound DEF Sound, Offered
<1>8. CASE synced # Len(wal)
  <2>1. synced < Len(wal) /\ synced \in Nat
    BY <1>2, <1>3, <1>8, AllType
  <2>2. Recoverable
    BY <2>1 DEF Sound, Trusted
  <2>3. unsure' = [t \in Task |-> [c \in Cell |-> unsure[t][c] \cup {tasks[t][c]}]]
    BY <1>8 DEF Open
  <2>4. ASSUME NEW k \in synced..n, Tidy(k), NEW t \in Task PROVE Load(k)[t] \in Map!Possible(t)'
    <3>1. PICK x : x = Load(k)[t]
      OBVIOUS
    <3>2. x \in Map!Possible(t)
      BY <1>3, <2>2, <2>4, <3>1 DEF Recoverable
    <3>3. x \in Content \cup {Nothing} /\ \A c \in Cell : x[c] \in {tasks[t][c]} \cup unsure[t][c]
      BY <3>2, PossibleIs
    <3>4. \A c \in Cell : x[c] \in {tasks'[t][c]} \cup unsure'[t][c]
      BY <2>3, <3>3
    <3>5. x \in Map!Possible(t)'
      BY <3>3, <3>4 DEF Map!Possible
    <3> QED
      BY <3>1, <3>5
  <2>5. Recoverable'
    <3>1. \A k \in synced..n : k \in Nat
      BY <1>3, <2>1
    <3> QED
      BY <1>1, <1>3, <1>4, <2>4, <3>1 DEF Recoverable
  <2> QED
    BY <1>1, <1>6, <2>5 DEF Sound, Offered
<1> QED
  BY <1>7, <1>8

\* A call returns nil when its records are synced, and a snapshot goes on.
LEMMA SyncSound ==
  ASSUME Base, Sound, Base', Sync
  PROVE  Sound'
<1>1. /\ pc = "sync" /\ log = "open" /\ buf = <<>> /\ log' = log /\ synced' = Len(wal)
      /\ UNCHANGED <<snapshot, wal, buf>> /\ All' = All
  BY DEF Sync, Flushed, Goto, Base, Progress, All
<1>2. /\ Recoverable /\ Present /\ Len(All) = Len(wal) /\ Len(wal) \in Nat /\ synced \in 0..Len(wal)
  BY <1>1, AllType DEF Sound, Trusted
<1>3. Offered'
  BY DEF Sync, Flushed, Acknowledge, Goto, Offered
<1>4. CASE call = None
  <2>1. tasks' = tasks /\ unsure' = unsure /\ snapshot' = snapshot
    BY <1>4 DEF Sync, Flushed
  <2>2. synced <= synced' /\ Len(All') <= Len(All) /\ Grown
    BY <1>1, <1>2, <2>1 DEF Grown
  <2>3. Recoverable' /\ Present'
    BY <1>1, <1>2, <2>1, <2>2, Kept, PresentKept
  <2> QED
    BY <1>3, <2>3 DEF Sound
<1>5. CASE call # None
  <2>1. PICK k, m : k = call.task /\ m = Result(call)
    OBVIOUS
  <2>2. PICK P : P = [c \in Cell |-> PutIn(Events(call), c)]
    OBVIOUS
  <2>3. /\ k \in Task /\ tasks' \in Held /\ tasks'[k] = m /\ m \in Content
        /\ \A t \in Task \ {k} : tasks'[t] = tasks[t] /\ unsure'[t] = unsure[t]
        /\ \A c \in Cell : unsure'[k][c] = IF P[c] = {} THEN unsure[k][c] ELSE {}
    BY <1>5, <2>1, <2>2, Acknowledged, CallType DEF Sync, Flushed
  <2>4. \A c \in Cell : P[c] = {} => m[c] = tasks[k][c]
    BY <1>5, <2>1, <2>2, CallType, EventsLast
  <2>5. PICK n, ts : n = Len(wal) /\ ts = Load(n)
    OBVIOUS
  <2>6. Load(n)' = ts /\ (Tidy(n)' <=> Tidy(n)) /\ n = Len(All') /\ n \in synced..Len(All)
        /\ n \in 0..Len(All) /\ Load(Len(All)) = ts /\ (Tidy(Len(All)) <=> Tidy(n))
    BY <1>1, <1>2, <2>5 DEF Load, Tidy
  <2>7. ts \in Held
    BY <2>5, <2>6, LoadType
  <2>8. ASSUME Tidy(n)
        PROVE  ts[k] # Nothing /\ \A c \in Cell : P[c] # {} => ts[k][c] = m[c]
    BY <1>1, <1>5, <2>1, <2>2, <2>6, <2>8 DEF Sound, Offered
  <2>9. ASSUME Tidy(n), NEW t \in Task PROVE ts[t] \in Map!Possible(t)'
    <3>1. PICK x : x = ts[t]
      OBVIOUS
    <3>2. x \in Map!Possible(t)
      BY <1>2, <2>5, <2>6, <2>9, <3>1 DEF Recoverable
    <3>3. /\ x \in Content \cup {Nothing}
          /\ \A c \in Cell : x[c] \in {tasks[t][c]} \cup unsure[t][c]
      BY <3>2, PossibleIs
    <3>4. \A c \in Cell : x[c] \in {tasks'[t][c]} \cup unsure'[t][c]
      <4>1. CASE t # k
        BY <2>3, <3>3, <4>1
      <4>2. CASE t = k
        <5> SUFFICES ASSUME NEW c \in Cell PROVE x[c] \in {tasks'[t][c]} \cup unsure'[t][c]
          OBVIOUS
        <5>1. CASE P[c] = {}
          BY <2>3, <2>4, <3>3, <4>2, <5>1
        <5>2. CASE P[c] # {}
          BY <2>3, <2>8, <2>9, <3>1, <4>2, <5>2
        <5> QED
          BY <5>1, <5>2
      <4> QED
        BY <4>1, <4>2
    <3>5. x \in Map!Possible(t)'
      BY <3>3, <3>4 DEF Map!Possible
    <3> QED
      BY <3>1, <3>5
  <2>10. Recoverable'
    BY <1>1, <2>5, <2>6, <2>9, SettledSound
  <2>11. Present'
    <3>1. ASSUME Tidy(n), NEW t \in Task, tasks'[t] # Nothing PROVE ts[t] # Nothing
      <4>1. CASE t = k
        BY <2>8, <3>1, <4>1
      <4>2. CASE t # k
        BY <1>1, <1>2, <2>3, <2>6, <3>1, <4>2 DEF Present
      <4> QED
        BY <4>1, <4>2
    <3> QED
      BY <2>6, <3>1, PresentSettled
  <2> QED
    BY <1>3, <2>10, <2>11 DEF Sound
<1> QED
  BY <1>4, <1>5

\* A log whose closing failed acknowledges what it does not hold: it is not trusted.
LEMMA FlushClosedSound ==
  ASSUME Base, FlushClosed
  PROVE  Sound'
<1>1. /\ log' = "closed" /\ pc' # "create" /\ "close" \in Faults /\ synced' = synced /\ wal' = wal
      /\ synced = Len(wal) /\ log = "closed"
  BY DEF FlushClosed, Flushed, Goto, Base, Progress
<1>2. ~(synced' < Len(wal'))
  <2>1. synced \in Nat
    BY AllType
  <2> QED
    BY <1>1, <2>1
<1> QED
  BY <1>1, <1>2 DEF Sound, Trusted, Offered

\* The snapshot is on the disk, and the log not reset yet.
LEMMA WriteSnapshotSound ==
  ASSUME Base, Sound, Base', WriteSnapshot
  PROVE  Sound'
<1>1. /\ pc = "write" /\ pc' = "close" /\ log' = log /\ snapshot' = tasks
      /\ UNCHANGED <<tasks, wal, synced, buf, unsure>> /\ All' = All
  BY DEF WriteSnapshot, Goto, All
<1>2. synced = Len(wal) /\ Len(All) = Len(wal) /\ Len(wal) \in Nat
  <2>1. buf = <<>> /\ synced = Len(wal)
    BY <1>1 DEF Base, Progress
  <2> QED
    BY <2>1, AllType
<1>3. Offered'
  BY <1>1 DEF Offered
<1>4. Trusted' => Recoverable' /\ Present'
  <2> SUFFICES ASSUME Trusted' PROVE Recoverable' /\ Present'
    OBVIOUS
  <2>1. Recoverable /\ Present
    BY <1>1 DEF Sound, Trusted
  <2>2. PICK n, lines : n = Len(wal) /\ lines = ReadAll(SubSeq(All, 1, n))
    OBVIOUS
  <2>3. PICK ts, us : ts = ApplyEvents(snapshot, lines) /\ us = ApplyEvents(tasks, lines)
    OBVIOUS
  <2>4. /\ n \in 0..Len(All) /\ n \in synced..Len(All) /\ lines \in Seq(Line)
        /\ tasks \in Held /\ snapshot \in Held /\ unsure \in [Task -> [Cell -> SUBSET Val]]
    BY <1>2, <2>2, LoadType
  <2>5. us \in Held /\ \A t \in Task : tasks[t] # Nothing => us[t] # Nothing
    BY <2>3, <2>4, ApplyEventsType
  <2>6. /\ Load(n)' = us /\ Load(n) = ts /\ (Tidy(n)' <=> Tidy(n)) /\ n = Len(All')
        /\ Load(Len(All)) = ts /\ (Tidy(Len(All)) <=> Tidy(n))
    BY <1>1, <1>2, <2>2, <2>3 DEF Load, Tidy
  <2>7. ASSUME Tidy(n), NEW t \in Task PROVE us[t] \in Map!Possible(t)
    <3>1. PICK x, y : x = ts[t] /\ y = us[t]
      OBVIOUS
    <3>2. x \in Map!Possible(t)
      BY <2>1, <2>4, <2>6, <2>7, <3>1 DEF Recoverable
    <3>3. Overlays(tasks[t], x, y)
      BY <2>3, <2>4, <3>1, OverlayAll
    <3>4. y \in Content \cup {Nothing}
      BY <2>5, <3>1 DEF Held
    <3>5. tasks[t] # Nothing => x # Nothing
      BY <1>1, <2>1, <2>6, <2>7, <3>1 DEF Present
    <3> QED
      BY <2>4, <3>1, <3>2, <3>3, <3>4, <3>5, OverlayFits
  <2>8. \A t \in Task : Map!Possible(t)' = Map!Possible(t)
    BY <1>1 DEF Map!Possible
  <2>9. Recoverable'
    BY <1>1, <1>2, <2>2, <2>6, <2>7, <2>8, SettledSound
  <2>10. Present'
    BY <1>1, <2>5, <2>6, PresentSettled
  <2> QED
    BY <2>9, <2>10
<1> QED
  BY <1>3, <1>4 DEF Sound

\* The log starts anew, and the snapshot is all there is.
LEMMA RenameLogSound ==
  ASSUME Base, Base', RenameLog
  PROVE  Sound'
<1>1. /\ pc = "rename" /\ pc' = "create" /\ wal' = <<>> /\ synced' = 0
      /\ UNCHANGED <<tasks, snapshot, buf>> /\ buf = <<>> /\ snapshot = tasks
  BY DEF RenameLog, Goto, Base, Progress
<1>2. Len(All') = 0 /\ All' \in Seq(Record)
  BY <1>1, AllTypeNext
<1>3. Load(0)' = tasks'
  <2>1. ReadAll(SubSeq(All', 1, 0)) = SubSeq(All', 1, 0)
    <3>1. PICK all : all = All'
      OBVIOUS
    <3>2. all \in Seq(Record) /\ 0 \in 0..Len(all) /\ \A i \in 1..0 : all[i].newline
      BY <1>2, <3>1
    <3> QED
      BY <3>1, <3>2, LoadClean
  <2> QED
    BY <1>1, <2>1, ApplyNone DEF Load
<1>4. tasks' \in Held
  BY DEF Base, TypeOK
<1>5. \A t \in Task : tasks'[t] \in Map!Possible(t)'
  BY <1>4, PossibleNow
<1>6. Recoverable'
  BY <1>1, <1>2, <1>3, <1>5, SettledSound
<1>7. Present'
  BY <1>2, <1>3, PresentSettled
<1>8. Offered'
  BY <1>1 DEF Offered
<1> QED
  BY <1>6, <1>7, <1>8 DEF Sound

LEMMA Concat ==
  ASSUME NEW s \in Seq(Record), NEW u \in Seq(Record)
  PROVE  /\ Len(s \o u) = Len(s) + Len(u)
         /\ \A i \in 1..Len(s) : (s \o u)[i] = s[i]
         /\ \A i \in 1..Len(u) : (s \o u)[Len(s) + i] = u[i]
<1>1. Len(s \o u) = Len(s) + Len(u)
  OBVIOUS
<1>2. \A i \in 1..Len(s) : (s \o u)[i] = s[i]
  OBVIOUS
<1>3. \A i \in 1..Len(u) : (s \o u)[Len(s) + i] = u[i]
  OBVIOUS
<1> QED
  BY <1>1, <1>2, <1>3

\* A crash leaves the first k records of the file, and perhaps a piece of the next one.
\* The file ends up with the first k of the lines, and perhaps a piece of the next one.
PartLeft(w, s, lines, k, m) ==
  /\ \A i \in 1..Len(s) : w[i] = s[i]
  /\ \A i \in 1..k : w[Len(s) + i] = lines[i]
  /\ \/ Len(w) = m
     \/ /\ k < Len(lines) /\ Len(w) = m + 1
        /\ ~w[m + 1].newline /\ w[m + 1].event \in {None, lines[k + 1].event}

LEMMA PartLeaves ==
  ASSUME NEW s \in Seq(Record), NEW lines \in Seq(Record), NEW k \in 0..Len(lines),
         NEW piece \in Pieces(lines, k), NEW w, w = s \o SubSeq(lines, 1, k) \o piece,
         NEW m, m = Len(s) + k
  PROVE  PartLeft(w, s, lines, k, m)
<1>1. /\ piece \in Seq(Record) /\ k + Len(piece) <= Len(lines) /\ Len(piece) \in {0, 1}
      /\ \A i \in DOMAIN piece : ~piece[i].newline /\ piece[i].event \in {None, lines[k + 1].event}
  BY PieceType
<1>2. PICK u : u = SubSeq(lines, 1, k)
  OBVIOUS
<1>3. u \in Seq(Record) /\ Len(u) = k /\ \A i \in 1..k : u[i] = lines[i]
  BY <1>2, Prefix
<1>4. PICK v : v = s \o u
  OBVIOUS
<1>5. /\ v \in Seq(Record) /\ Len(v) = m
      /\ \A i \in 1..Len(s) : v[i] = s[i]
      /\ \A i \in 1..k : v[Len(s) + i] = lines[i]
  <2>1. v \in Seq(Record)
    BY <1>3, <1>4
  <2>2. /\ Len(s \o u) = Len(s) + Len(u)
        /\ \A i \in 1..Len(s) : (s \o u)[i] = s[i]
        /\ \A i \in 1..Len(u) : (s \o u)[Len(s) + i] = u[i]
    BY ONLY s \in Seq(Record), <1>3, Concat
  <2> QED
    BY <1>3, <1>4, <2>1, <2>2
<1>6. w = v \o piece
  BY <1>2, <1>4
<1>7. /\ Len(w) = m + Len(piece)
      /\ \A i \in 1..m : w[i] = v[i]
      /\ \A i \in 1..Len(piece) : w[m + i] = piece[i]
  <2>1. /\ Len(v \o piece) = Len(v) + Len(piece)
        /\ \A i \in 1..Len(v) : (v \o piece)[i] = v[i]
        /\ \A i \in 1..Len(piece) : (v \o piece)[Len(v) + i] = piece[i]
    BY ONLY <1>1, <1>5, Concat
  <2> QED
    BY <1>5, <1>6, <2>1
<1>8. Len(s) \in Nat /\ k \in Nat /\ m \in Nat /\ Len(piece) \in Nat /\ Len(lines) \in Nat
  OBVIOUS
<1>9. /\ \A i \in 1..Len(s) : i \in 1..m
      /\ \A i \in 1..k : Len(s) + i \in 1..m
  BY <1>8
<1>10. /\ \A i \in 1..Len(s) : w[i] = s[i]
       /\ \A i \in 1..k : w[Len(s) + i] = lines[i]
  BY <1>5, <1>7, <1>9
<1>11. CASE Len(piece) = 0
  <2>1. Len(w) = m
    BY <1>7, <1>8, <1>11
  <2> QED
    BY <1>10, <2>1 DEF PartLeft
<1>12. CASE Len(piece) = 1
  <2>1. 1 \in 1..Len(piece) /\ 1 \in DOMAIN piece
    BY <1>1, <1>12
  <2>2. Len(w) = m + 1 /\ k < Len(lines)
    BY <1>1, <1>7, <1>8, <1>12
  <2>3. w[m + 1] = piece[1]
    BY <1>7, <2>1
  <2>4. ~piece[1].newline /\ piece[1].event \in {None, lines[k + 1].event}
    BY <1>1, <2>1
  <2> QED
    BY <1>10, <2>2, <2>3, <2>4 DEF PartLeft
<1> QED
  BY <1>1, <1>11, <1>12

\* The process ends: what the log is then could have been left of it before.
LEMMA DownSound ==
  ASSUME Base, Sound, Base', Trusted' => Trusted, pc' = "down", buf' = <<>>,
         UNCHANGED <<tasks, snapshot, unsure>>, synced <= synced',
         NEW p \in Nat, synced <= p, p <= Len(All), \A i \in 1..p : wal'[i] = All[i],
         \/ Len(wal') = p
         \/ /\ p < Len(All) /\ Len(wal') = p + 1
            /\ ~wal'[p + 1].newline /\ wal'[p + 1].event \in {None, All[p + 1].event}
  PROVE  Sound'
<1>1. /\ Len(All') = Len(wal') /\ Len(wal') \in Nat
      /\ \A i \in 1..Len(wal') : All'[i] = wal'[i]
  <2>1. Len(buf') = 0
    OBVIOUS
  <2> QED
    BY <2>1, AllTypeNext
<1>2. Grown
  BY DEF Grown
<1>3. p <= Len(All') /\ \A i \in 1..p : All'[i] = All[i]
  BY <1>1
<1>4. Recoverable => Recoverable'
  <2> SUFFICES ASSUME Recoverable PROVE Recoverable'
    OBVIOUS
  <2>1. CASE Len(wal') = p
    BY <1>1, <1>2, <1>3, <2>1, Kept
  <2>2. CASE /\ p < Len(All) /\ Len(wal') = p + 1
             /\ ~wal'[p + 1].newline /\ wal'[p + 1].event \in {None, All[p + 1].event}
    <3>1. p < Len(All') /\ p + 1 \in 1..Len(wal')
      BY <1>1, <2>2
    <3>2. All'[p + 1] = wal'[p + 1]
      BY <1>1, <3>1
    <3> QED
      BY <1>3, <2>2, <3>1, <3>2, CutCovered
  <2> QED
    BY <2>1, <2>2
<1>5. Present' /\ Offered'
  BY DEF Present, Offered
<1> QED
  BY <1>4, <1>5 DEF Sound

LEMMA CloseSound ==
  ASSUME Base, Sound, Base', Close
  PROVE  Sound'
<1>1. /\ pc = "idle" /\ pc' = "down" /\ log' = "nil" /\ buf' = <<>>
      /\ UNCHANGED <<tasks, snapshot, unsure>>
      /\ synced' = Len(wal') \/ (synced' = synced /\ log \in {"open", "stuck"})
  BY DEF Close, Goto
<1>2. PICK file, w, lines : file = wal /\ w = wal' /\ lines = Lines(buf)
  OBVIOUS
<1>3. /\ file \in Seq(Record) /\ lines \in Seq(Record) /\ Len(lines) = Len(buf)
      /\ Len(file) \in Nat /\ Len(buf) \in Nat /\ synced \in 0..Len(file)
      /\ Len(All) = Len(file) + Len(buf) /\ Len(w) \in Nat /\ synced' \in 0..Len(w)
      /\ \A i \in 1..Len(file) : All[i] = file[i]
      /\ \A i \in 1..Len(buf) : All[Len(file) + i] = lines[i]
  <2>1. buf \in Seq(Event)
    BY DEF Base, TypeOK
  <2>2. /\ lines \in Seq(Record) /\ Len(lines) = Len(buf)
        /\ \A i \in 1..Len(buf) : lines[i] = [event |-> buf[i], newline |-> TRUE]
    BY <1>2, <2>1, LinesType
  <2> QED
    BY <1>2, <2>2, AllType, AllTypeNext
<1>4. Trusted' => Trusted
  BY <1>1, <1>2, <1>3 DEF Trusted
<1>5. CASE log # "open"
  <2>1. w = file
    BY <1>2, <1>5 DEF Close
  <2>2. synced <= synced' /\ Len(file) <= Len(All) /\ synced <= Len(file)
    BY <1>1, <1>2, <1>3, <2>1
  <2> QED
    BY <1>1, <1>2, <1>3, <1>4, <2>1, <2>2, DownSound
<1>6. CASE log = "open"
  <2>1. PICK k \in 0..Len(buf) :
          \E piece \in Pieces(lines, k) : w = file \o SubSeq(lines, 1, k) \o piece
    BY <1>2, <1>6 DEF Close
  <2>2. PICK piece \in Pieces(lines, k) : w = file \o SubSeq(lines, 1, k) \o piece
    BY <2>1
  <2>3. PICK p : p = Len(file) + k
    OBVIOUS
  <2>4. /\ \A i \in 1..Len(file) : w[i] = file[i]
        /\ \A i \in 1..k : w[Len(file) + i] = lines[i]
        /\ \/ Len(w) = p
           \/ /\ k < Len(lines) /\ Len(w) = p + 1
              /\ ~w[p + 1].newline /\ w[p + 1].event \in {None, lines[k + 1].event}
    <3>1. k \in 0..Len(lines)
      BY <1>3
    <3>2. PartLeft(w, file, lines, k, p)
      BY <1>3, <2>2, <2>3, <3>1, PartLeaves
    <3> QED
      BY <3>2 DEF PartLeft
  <2>5. /\ p \in Nat /\ synced <= p /\ p <= Len(All) /\ synced <= synced'
        /\ k < Len(lines) => p < Len(All) /\ k + 1 \in 1..Len(buf) /\ p + 1 = Len(file) + (k + 1)
    <3>1. p \in Nat /\ p >= Len(file) /\ p <= Len(All) /\ Len(w) >= Len(file)
      BY <1>3, <2>3, <2>4
    <3> QED
      BY <1>1, <1>2, <1>3, <2>3, <3>1
  <2>6. \A i \in 1..p : w[i] = All[i]
    <3> SUFFICES ASSUME NEW i \in 1..p PROVE w[i] = All[i]
      OBVIOUS
    <3>1. CASE i <= Len(file)
      BY <1>3, <2>4, <3>1
    <3>2. CASE i > Len(file)
      <4>1. i - Len(file) \in 1..k /\ i - Len(file) \in 1..Len(buf)
            /\ i = Len(file) + (i - Len(file))
        BY <1>3, <2>3, <3>2
      <4> QED
        BY <1>3, <2>4, <4>1
    <3> QED
      BY <1>3, <2>5, <3>1, <3>2
  <2>7. k < Len(lines) => All[p + 1] = lines[k + 1]
    BY <1>3, <2>5
  <2>8. \/ Len(w) = p
        \/ /\ p < Len(All) /\ Len(w) = p + 1
           /\ ~w[p + 1].newline /\ w[p + 1].event \in {None, All[p + 1].event}
    BY <2>4, <2>5, <2>7
  <2> QED
    BY <1>1, <1>2, <1>4, <2>5, <2>6, <2>8, DownSound
<1> QED
  BY <1>5, <1>6

LEMMA CrashSound ==
  ASSUME Base, Sound, Base', Crash
  PROVE  Sound'
<1>1. /\ pc' = "down" /\ log' = "nil" /\ buf' = <<>> /\ wal' = wal /\ synced' = synced
      /\ UNCHANGED <<tasks, snapshot, unsure>>
  BY DEF Crash
<1>2. Trusted' => Trusted
  BY <1>1 DEF Trusted
<1>3. PICK p : p = Len(wal)
  OBVIOUS
<1>4. /\ p \in Nat /\ synced <= p /\ synced <= synced' /\ p <= Len(All) /\ Len(wal') = p
      /\ \A i \in 1..p : wal'[i] = All[i]
  <2>1. synced \in Nat /\ Len(buf) \in Nat
    BY AllType
  <2> QED
    BY <1>1, <1>3, <2>1, AllType
<1> QED
  BY <1>1, <1>2, <1>4, DownSound

LEMMA PowerLossSound ==
  ASSUME Base, Sound, Base', PowerLoss
  PROVE  Sound'
<1>1. /\ pc' = "down" /\ log' = "nil" /\ buf' = <<>> /\ synced' = Len(wal')
      /\ UNCHANGED <<tasks, snapshot, unsure>>
  BY DEF PowerLoss
<1>2. PICK file, w : file = wal /\ w = wal'
  OBVIOUS
<1>3. /\ file \in Seq(Record) /\ Len(file) \in Nat /\ synced \in 0..Len(file) /\ Len(w) \in Nat
      /\ Len(All) = Len(file) + Len(buf) /\ Len(buf) \in Nat
      /\ \A i \in 1..Len(file) : All[i] = file[i]
  BY <1>2, AllType, AllTypeNext
<1>4. Trusted' => Trusted
  BY <1>1, <1>2, <1>3 DEF Trusted
<1>5. PICK k \in synced..Len(file) :
        \E piece \in Pieces(file, k) : w = SubSeq(file, 1, k) \o piece
  BY <1>2 DEF PowerLoss
<1>6. PICK piece \in Pieces(file, k) : w = SubSeq(file, 1, k) \o piece
  BY <1>5
<1>7. k \in 0..Len(file) /\ k \in Nat /\ synced <= k /\ k <= Len(All)
  BY <1>3
<1>8. PICK s : s = <<>>
  OBVIOUS
<1>9. s \in Seq(Record) /\ Len(s) = 0 /\ w = s \o SubSeq(file, 1, k) \o piece
  <2>1. SubSeq(file, 1, k) \in Seq(Record)
    BY <1>3, <1>7, Prefix
  <2>2. \A u \in Seq(Record) : <<>> \o u = u
    OBVIOUS
  <2> QED
    BY <1>6, <1>8, <2>1, <2>2
<1>10. /\ \A i \in 1..k : w[0 + i] = file[i]
       /\ \/ Len(w) = k
          \/ /\ k < Len(file) /\ Len(w) = k + 1
             /\ ~w[k + 1].newline /\ w[k + 1].event \in {None, file[k + 1].event}
  <2>1. k = Len(s) + k
    BY <1>7, <1>9
  <2>2. PartLeft(w, s, file, k, k)
    BY <1>3, <1>6, <1>7, <1>9, <2>1, PartLeaves
  <2> QED
    BY <1>9, <2>2 DEF PartLeft
<1>11. 0 + k = k /\ \A i \in 1..k : 0 + i = i /\ i \in 1..Len(file)
  BY <1>3, <1>7
<1>12. /\ \A i \in 1..k : w[i] = All[i]
       /\ \/ Len(w) = k
          \/ /\ k < Len(All) /\ Len(w) = k + 1
             /\ ~w[k + 1].newline /\ w[k + 1].event \in {None, All[k + 1].event}
  <2>1. k < Len(file) => k + 1 \in 1..Len(file) /\ k < Len(All)
    BY <1>3, <1>7
  <2> QED
    BY <1>3, <1>10, <1>11, <2>1
<1>13. synced <= synced'
  BY <1>1, <1>2, <1>3, <1>7, <1>12
<1> QED
  BY <1>1, <1>2, <1>4, <1>7, <1>12, <1>13, DownSound

(***************************************************************************)
(* The inductive invariant.                                                *)
(***************************************************************************)
LEMMA InitIInv == Init => IInv
<1> SUFFICES ASSUME Init PROVE IInv
  OBVIOUS
<1>1. Base
  BY InitBase
<1>2. /\ wal = <<>> /\ buf = <<>> /\ synced = 0 /\ pc = "down" /\ snapshot = [t \in Task |-> Nothing]
      /\ tasks = snapshot /\ unsure = Sure
  BY DEF Init
<1>3. All \in Seq(Record) /\ Len(All) = 0
  BY <1>1, <1>2, AllType
<1>4. Load(0) = tasks
  <2>1. PICK all : all = All
    OBVIOUS
  <2>2. all \in Seq(Record) /\ 0 \in 0..Len(all) /\ \A i \in 1..0 : all[i].newline
    BY <1>3, <2>1
  <2>3. ReadAll(SubSeq(All, 1, 0)) = SubSeq(All, 1, 0)
    BY <2>1, <2>2, LoadClean
  <2> QED
    BY <1>2, <2>3, ApplyNone DEF Load
<1>5. Recoverable
  <2>1. \A k \in synced..Len(All) : k = 0
    BY <1>2, <1>3
  <2>2. \A t \in Task : tasks[t] \in Map!Possible(t)
    <3> SUFFICES ASSUME NEW t \in Task PROVE tasks[t] \in Map!Possible(t)
      OBVIOUS
    <3>1. tasks[t] \in Content \cup {Nothing}
      BY <1>2
    <3> QED
      BY <3>1, PossibleIs
  <2> QED
    BY <1>4, <2>1, <2>2 DEF Recoverable
<1>6. Present /\ Offered
  BY <1>2 DEF Present, Offered
<1>7. Whole
  BY <1>2 DEF Whole
<1> QED
  BY <1>1, <1>5, <1>6, <1>7 DEF IInv, Base

LEMMA NextIInv == IInv /\ [Next]_vars => IInv'
<1> SUFFICES ASSUME IInv, [Next]_vars PROVE IInv'
  OBVIOUS
<1>1. Base /\ Sound /\ ("tear" \notin Faults => Whole)
  BY DEF IInv, Base, Sound
<1>2. Base'
  BY <1>1, NextBase
<1>3. "tear" \notin Faults => Whole'
  BY <1>1, WholeNext
<1>4. Sound'
  <2>1. ASSUME NEW t \in Task, CreateTask(t) PROVE Sound'
    BY <1>1, <1>2, <2>1, CreateTaskSound
  <2>2. ASSUME NEW t \in Task, NEW f \in File, NEW v \in Value, UpdateTask(t, f, v) PROVE Sound'
    BY <1>1, <1>2, <2>2, UpdateTaskSound
  <2>3. CASE Open \/ AppendAll \/ AppendFails
    BY <1>1, <1>2, <2>3, OpenSound, AppendAllSound, AppendFailsSound
  <2>4. CASE Flush \/ Sync \/ FlushClosed \/ FlushShort
    BY <1>1, <1>2, <2>4, FlushSound, SyncSound, FlushClosedSound, FlushShortSound
  <2>5. CASE WriteSnapshot \/ RenameLog
    BY <1>1, <1>2, <2>5, WriteSnapshotSound, RenameLogSound
  <2>6. CASE \/ FlushFails \/ BeginSnapshot \/ CloseLog \/ CloseLogFails \/ CreateLog
             \/ SnapshotFails \/ UNCHANGED vars
    BY <1>1, <1>2, <2>6, QuietSound
  <2>7. CASE Close \/ Crash \/ PowerLoss
    BY <1>1, <1>2, <2>7, CloseSound, CrashSound, PowerLossSound
  <2> QED
    BY <2>1, <2>2, <2>3, <2>4, <2>5, <2>6, <2>7 DEF Next
<1> QED
  BY <1>2, <1>3, <1>4 DEF IInv, Base, Sound

\* Whatever a crash leaves of the log at any moment, a restart finds what was acknowledged,
\* or what a call has offered for the same field since: whichever steps fail, up to a record
\* torn before the last one, and while no log is in use whose closing failed.
THEOREM Invariant == Spec => []IInv
<1> QED
  BY InitIInv, NextIInv, PTL DEF Spec

\* Where no record is torn.
LEMMA TidyWhole ==
  ASSUME IInv, "tear" \notin Faults
  PROVE  Tidy(synced) /\ Tidy(Len(wal))
<1>1. Base /\ Whole
  BY DEF IInv, Base
<1>2. \A i \in 1..Len(wal) : All[i].newline
  BY <1>1, AllType DEF Whole
<1>3. Len(wal) \in Nat /\ synced \in 0..Len(wal)
  BY <1>1, AllType
<1> QED
  BY <1>2, <1>3 DEF Tidy

\* No step of FlushSnapshot leaves a gap between the snapshot and the log, whichever of
\* its steps fails, as long as no record is torn and closing the log does not fail.
THEOREM GapFree ==
  ASSUME Faults \cap {"tear", "close"} = {}
  PROVE  Spec => []NoGap
<1>1. IInv => NoGap
  <2> SUFFICES ASSUME IInv, NEW t \in Task PROVE SyncedState[t] \in Map!Possible(t)
    BY DEF NoGap
  <2>1. Base /\ Recoverable /\ Tidy(synced)
    BY TidyWhole DEF IInv, Base, Trusted
  <2>2. synced \in synced..Len(All) /\ Load(synced) = SyncedState
    BY <2>1, AllType, LoadType
  <2> QED
    BY <2>1, <2>2 DEF Recoverable
<1> QED
  BY <1>1, Invariant, PTL

\* A restart that finds a torn record at the end of the log, and no other, finds every
\* acknowledged task: the only thing that must not fail is closing the log.
THEOREM DurableAcrossOneTear ==
  ASSUME "close" \notin Faults
  PROVE  Spec => []DurableOnce
<1>1. IInv => DurableOnce
  <2> SUFFICES ASSUME IInv, Tidy(Len(wal)), NEW t \in Task PROVE Recovered[t] \in Map!Possible(t)
    BY DEF DurableOnce
  <2>1. Base /\ Recoverable
    BY DEF IInv, Base, Trusted
  <2>2. Len(wal) \in synced..Len(All) /\ Load(Len(wal)) = Recovered
    BY <2>1, AllType, LoadType
  <2> QED
    BY <2>1, <2>2 DEF Recoverable
<1> QED
  BY <1>1, Invariant, PTL

\* Where no record is torn, what a restart loads always holds every acknowledged task: the
\* store is durable across restarts, whichever of its other steps fail.
THEOREM DurableAcrossRestarts ==
  ASSUME Faults \cap {"tear", "close"} = {}
  PROVE  Spec => []Durable
<1>1. IInv /\ DurableOnce => Durable
  BY TidyWhole DEF DurableOnce, Durable
<1>2. "close" \notin Faults
  OBVIOUS
<1>3. Spec => []DurableOnce
  BY <1>2, DurableAcrossOneTear
<1> QED
  BY <1>1, <1>3, Invariant, PTL

\* Closing the log may fail as well, and what the store acknowledges from then on is lost in
\* a crash: but as soon as a snapshot or a restart has opened a new log, all of it is durable,
\* whatever else fails.
THEOREM HealedAgain == Spec => []Healed
<1>1. IInv => Healed
  <2> SUFFICES ASSUME IInv, log = "open", Tidy(synced), NEW t \in Task
               PROVE  Load(synced)[t] \in Map!Possible(t)
    BY DEF Healed
  <2>1. Base /\ Recoverable
    BY DEF IInv, Base, Trusted
  <2>2. synced \in synced..Len(All)
    BY <2>1, AllType
  <2> QED
    BY <2>1, <2>2 DEF Recoverable
<1> QED
  BY <1>1, Invariant, PTL

(***************************************************************************)
(* The refinement: a call that begins is an offer, one that returns nil an *)
(* acknowledgement of the cells it wrote, a log that starts anew settles   *)
(* what was not acknowledged, and the end of the process is a crash.       *)
(***************************************************************************)
LEMMA InitRefines == Init => Map!Init
BY DEF Init, Map!Init, Sure, Map!Sure

LEMMA RestartRefines ==
  ASSUME Base, Tidy(Len(wal)), Recoverable, Base', Open
  PROVE  Map!Restart
<1>1. Len(wal) \in synced..Len(All) /\ Load(Len(wal)) = Recovered
  BY AllType, LoadType
<1>2. \A t \in Task : tasks'[t] \in Map!Possible(t)
  BY <1>1 DEF Open, Recoverable
<1>3. tasks' \in [Task -> Content \cup {Nothing}]
  BY DEF Base, TypeOK, Held
<1> QED
  BY <1>2, <1>3 DEF Open, Goto, Map!Restart, Sure, Map!Sure

LEMMA BeginRefines ==
  ASSUME Base, NEW k, Calls(k), Begin(k)
  PROVE  Map!Offer(k.task)
<1>1. Base'
  BY BeginBase
<1>2. unsure \in [Task -> [Cell -> SUBSET Val]] /\ unsure' \in [Task -> [Cell -> SUBSET Val]]
  BY <1>1 DEF Base, TypeOK
<1>3. PICK t, p : t = k.task /\ p = [c \in Cell |-> unsure[t][c] \cup PutIn(Events(k), c)]
  OBVIOUS
<1>4. t \in Task
  BY <1>3 DEF Calls, Call
<1>5. unsure' = [unsure EXCEPT ![t] = p]
  BY <1>3 DEF Begin
<1>6. unsure'[t] = p /\ \A u \in Task \ {t} : unsure'[u] = unsure[u]
  BY <1>2, <1>4, <1>5
<1>7. \A c \in Cell : unsure[t][c] \subseteq unsure'[t][c]
  BY <1>3, <1>6
<1>8. pc = "idle" /\ pc' = "append" /\ tasks' = tasks
  BY DEF Begin, Goto
<1> QED
  BY <1>2, <1>3, <1>6, <1>7, <1>8 DEF Map!Offer

LEMMA FlushedRefines ==
  ASSUME Base, NEW from \in {"flush", "sync"}, Flushed(from)
  PROVE  [Map!Next]_Map!mapVars
<1>1. CASE call = None
  BY <1>1 DEF Flushed, Goto, Map!mapVars
<1>2. CASE call # None
  <2>1. pc = from /\ pc' = "idle" /\ Acknowledge
    BY <1>2 DEF Flushed, Goto
  <2>2. PICK t, x : t = call.task /\ x = Result(call)
    OBVIOUS
  <2>3. /\ t \in Task /\ tasks \in Held /\ x \in Content /\ tasks'[t] = x
        /\ \A c \in Cell : unsure'[t][c] = IF PutIn(Events(call), c) = {} THEN unsure[t][c] ELSE {}
    BY <1>2, <2>1, <2>2, CallType, Acknowledged
  <2>4. \A c \in Cell :
          \/ unsure'[t][c] = {} /\ tasks'[t][c] \in unsure[t][c]
          \/ unsure'[t][c] = unsure[t][c] /\ tasks'[t][c] = tasks[t][c]
    <3> SUFFICES ASSUME NEW c \in Cell
                 PROVE  \/ unsure'[t][c] = {} /\ tasks'[t][c] \in unsure[t][c]
                        \/ unsure'[t][c] = unsure[t][c] /\ tasks'[t][c] = tasks[t][c]
      OBVIOUS
    <3>1. PICK evs : evs = Events(call)
      OBVIOUS
    <3>2. Calls(call) /\ evs \in Seq(Event)
      BY <1>2, <3>1, CallType
    <3>3. \/ PutIn(evs, c) = {} /\ x[c] = tasks[t][c]
          \/ /\ PutIn(evs, c) # {}
             /\ \E i \in 1..Len(evs) : evs[i].puts[c] = x[c]
      BY <2>2, <2>3, <3>1, <3>2, EventsLast
    <3>4. PutIn(evs, c) \subseteq unsure[t][c]
      BY <1>2, <2>2, <3>1 DEF Base, Progress
    <3>5. CASE PutIn(evs, c) = {}
      BY <2>3, <3>1, <3>3, <3>5
    <3>6. CASE PutIn(evs, c) # {}
      <4>1. PICK i \in 1..Len(evs) : evs[i].puts[c] = x[c]
        BY <3>3, <3>6
      <4>2. x[c] # Keep
        BY <2>3, KeepNotVal DEF Content
      <4>3. x[c] \in PutIn(evs, c)
        BY <3>2, <4>1, <4>2 DEF PutIn
      <4> QED
        BY <2>3, <3>1, <3>4, <3>6, <4>3
    <3> QED
      BY <3>5, <3>6
  <2>5. /\ tasks' = [tasks EXCEPT ![t] = tasks'[t]]
        /\ unsure' = [unsure EXCEPT ![t] = unsure'[t]]
    <3>1. PICK p : unsure' = [unsure EXCEPT ![t] = p]
      BY <2>1, <2>2 DEF Acknowledge
    <3>2. unsure'[t] = p
      BY <2>3, <3>1 DEF Base, TypeOK
    <3>3. tasks' = [tasks EXCEPT ![t] = x]
      BY <2>1, <2>2 DEF Acknowledge
    <3> QED
      BY <2>3, <3>1, <3>2, <3>3
  <2>6. Map!Acknowledge(t)
    BY <2>1, <2>3, <2>4, <2>5 DEF Map!Acknowledge
  <2> QED
    BY <2>3, <2>6 DEF Map!Next
<1> QED
  BY <1>1, <1>2

LEMMA NextRefines ==
  ASSUME Base, Tidy(Len(wal)), Recoverable, Base', [Next]_vars
  PROVE  [Map!Next]_Map!mapVars
<1>1. CASE Open
  BY <1>1, RestartRefines DEF Map!Next
<1>2. ASSUME NEW t \in Task, CreateTask(t) PROVE [Map!Next]_Map!mapVars
  <2>1. PICK k : k = [task |-> t, file |-> None, value |-> New]
    OBVIOUS
  <2>2. Calls(k) /\ k.task = t /\ Begin(k)
    BY <1>2, <2>1, CreateTaskCall DEF CreateTask
  <2> QED
    BY <2>2, BeginRefines DEF Map!Next
<1>3. ASSUME NEW t \in Task, NEW f \in File, NEW v \in Value, UpdateTask(t, f, v)
      PROVE  [Map!Next]_Map!mapVars
  <2>1. PICK k : k = [task |-> t, file |-> f, value |-> v]
    OBVIOUS
  <2>2. Calls(k) /\ k.task = t /\ Begin(k)
    BY <1>3, <2>1, UpdateTaskCall DEF UpdateTask
  <2> QED
    BY <2>2, BeginRefines DEF Map!Next
<1>4. CASE Sync \/ FlushClosed
  BY <1>4, FlushedRefines DEF Sync, FlushClosed
<1>5. CASE RenameLog
  <2>1. Map!Settle
    BY <1>5 DEF RenameLog, Goto, Map!Settle, Sure, Map!Sure
  <2> QED
    BY <2>1 DEF Map!Next
<1>6. CASE Close \/ Crash \/ PowerLoss
  <2>1. pc' = "down" /\ UNCHANGED <<tasks, unsure>>
    BY <1>6 DEF Close, Crash, PowerLoss, Goto
  <2>2. CASE pc = "down"
    BY <2>1, <2>2 DEF Map!mapVars
  <2>3. CASE pc # "down"
    BY <2>1, <2>3 DEF Map!Crash, Map!Next
  <2> QED
    BY <2>2, <2>3
<1>7. CASE AppendAll \/ AppendFails \/ Flush \/ FlushShort \/ FlushFails
  BY <1>7 DEF AppendAll, AppendFails, Flush, FlushShort, FlushFails, Fail, Goto, Map!mapVars
<1>8. CASE BeginSnapshot \/ WriteSnapshot \/ CloseLog \/ CloseLogFails \/ CreateLog \/ SnapshotFails
  BY <1>8 DEF BeginSnapshot, WriteSnapshot, CloseLog, CloseLogFails, CreateLog, SnapshotFails,
              Fail, Goto, Map!mapVars
<1>9. CASE UNCHANGED vars
  BY <1>9 DEF vars, Map!mapVars
<1> QED
  BY <1>1, <1>2, <1>3, <1>4, <1>5, <1>6, <1>7, <1>8, <1>9 DEF Next

\* The store implements the durable map it promises, field by field, as long as no record
\* is torn and closing the log does not fail.
THEOREM Refinement ==
  ASSUME Faults \cap {"tear", "close"} = {}
  PROVE  Spec => ImplementsMap
<1>1. Init => Map!Init
  BY InitRefines
<1>2. IInv /\ IInv' /\ [Next]_vars => [Map!Next]_Map!mapVars
  <2> SUFFICES ASSUME IInv, IInv', [Next]_vars PROVE [Map!Next]_Map!mapVars
    OBVIOUS
  <2>1. Base /\ Tidy(Len(wal)) /\ Recoverable /\ Base'
    BY TidyWhole DEF IInv, Base, Trusted
  <2> QED
    BY <2>1, NextRefines
<1> QED
  BY <1>1, <1>2, Invariant, PTL DEF Spec, ImplementsMap, Map!Spec
=====
