------------------------- MODULE ThreadSchedulerProofs -------------------------
(***************************************************************************)
(* For any threads, works, tasks and limits: the scheduler's collections   *)
(* agree on who occupies a lane, so a thread is executed once at a time,   *)
(* whatever waits has a waker, no promise and no hint is forgotten, and an *)
(* ambiguous claim keeps its run id and its thread to itself.              *)
(***************************************************************************)
EXTENDS ThreadScheduler, FiniteSetTheorems, SequenceTheorems, WellFoundedInduction, TLAPS

Shut == {"stopping", "closed"}

T(w) == work[w].thread

\* w stands for a ScheduledWork object.
Object(w) == work[w].kind # "free"

IsRun(w) == work[w].kind = "run"

InLane(w, t) == queued[t] = w \/ active[t] = w \/ retained[t] = w

\* A lane refers to works of its thread. A retained run waits behind exclusive
\* work, a reserved operation is queued behind active work and nothing else is,
\* and what is queued with a certain outcome has no execution to end.
LaneSafe(t) ==
    /\ queued[t] # None => Object(queued[t]) /\ T(queued[t]) = t
    /\ active[t] # None => Object(active[t]) /\ T(active[t]) = t
    /\ retained[t] # None =>
          /\ IsRun(retained[t]) /\ T(retained[t]) = t /\ work[retained[t]].uncertain
          /\ active[t] = None => queued[t] # None /\ ~IsRun(queued[t])
          /\ active[t] # None => ~IsRun(active[t])
    /\ reserved[t] # None =>
          reserved[t] = queued[t] /\ active[t] # None /\ ~IsRun(queued[t])
    /\ queued[t] # None /\ active[t] # None => reserved[t] = queued[t]
    /\ queued[t] # None /\ ~work[queued[t]].uncertain => ~HeldByTask(queued[t])

\* The runnable queue and the retry queue hold the next work of a lane in which
\* nothing executes; what shutdown replays is no run that executes; a promise and
\* a claim without an answer are held by the lane, by shutdown or by a task.
ObjectSafe(w, t) ==
    /\ Contains(queue, w) => queued[t] = w /\ active[t] = None /\ w \notin retry
    /\ w \in retry => queued[t] = w /\ active[t] = None /\ IsRun(w) /\ work[w].uncertain
    /\ w \in drains => IsRun(w) /\ (active[t] # None => ~IsRun(active[t]))
    /\ w \in unsettled =>
          \/ InLane(w, t) \/ w \in drains
          \/ \E k \in Tasks : task[k].work = w /\ task[k].stage # "idle" /\ ~task[k].again
    /\ ~gaveUp /\ w \in unresolved =>
          /\ IsRun(w) /\ work[w].uncertain
          /\ \/ InLane(w, t) \/ w \in drains
             \/ \E k \in Tasks : task[k].work = w /\ task[k].stage = "replay"

\* What executes is the active work of its lane; claims are replayed after a stop.
TaskSafe(k, t) ==
    /\ task[k].stage = "running" => active[t] = task[k].work
    /\ task[k].stage = "replay" => state \in Shut /\ IsRun(task[k].work) /\ active[t] = None

ActiveSafe(t) ==
    /\ \A j, k \in Executing : ThreadOf(j) = t /\ ThreadOf(k) = t => j = k
    /\ active[t] # None => \E k \in Executing : task[k].work = active[t]

WaitSafe(t) ==
    state \notin Shut =>
       /\ retained[t] # None \/ t \in rerun => active[t] # None \/ queued[t] # None
       /\ queued[t] # None =>
             queued[t] = reserved[t] \/ queued[t] \in retry \/ Contains(queue, queued[t])

Covered(t) ==
    \/ queued[t] # None /\ IsRun(queued[t])
    \/ t \in rerun \/ retained[t] # None
    \/ \E k \in Tasks : task[k].stage \in Reconciling /\ ThreadOf(k) = t

ThreadSafe(t) ==
    /\ LaneSafe(t)
    /\ \A w \in Works : Object(w) /\ T(w) = t => ObjectSafe(w, t)
    /\ \A k \in Tasks : task[k].stage # "idle" /\ ThreadOf(k) = t => TaskSafe(k, t)
    /\ ActiveSafe(t)
    /\ WaitSafe(t)
    /\ state \notin Shut /\ t \in owed => Covered(t)

\* The program refers to objects only, and every object belongs to a thread.
ObjectsKnown ==
    /\ \A w \in Works :
          /\ Object(w) => T(w) \in Threads
          /\ ~IsRun(w) => ~work[w].uncertain
          /\ Object(w) => (IsRun(w) <=> work[w].priority # "control")
          /\ \/ Contains(queue, w) \/ w \in retry \cup drains \cup unsettled
             \/ w \in unresolved /\ ~gaveUp
             => Object(w)
    /\ \A k \in Tasks : task[k].stage # "idle" => task[k].work \in Works /\ Object(task[k].work)

Distinct(q) == \A i, j \in 1..Len(q) : q[i] = q[j] => i = j

LanesBounded == IsFiniteSet(ActiveLanes) /\ Cardinality(ActiveLanes) <= MaxRuns

Awake ==
    /\ HasCapacity => kicked
    /\ retry # {} => timer

StateSafe ==
    /\ state = "idle" =>
          /\ \A k \in Tasks : task[k].stage = "idle"
          /\ \A t \in Threads : active[t] = None /\ retained[t] = None
          /\ \A w \in Works : ~work[w].uncertain
          /\ unresolved = {}
    /\ state \in Shut =>
          /\ queue = <<>> /\ retry = {}
          /\ \A t \in Threads : queued[t] = None /\ reserved[t] = None /\ retained[t] = None
    /\ state \notin Shut => drains = {}
    /\ state = "closed" /\ ~gaveUp =>
          drains = {} /\ \A k \in Tasks : task[k].stage = "idle"

IInv ==
    /\ TypeOK
    /\ \A t \in Threads : ThreadSafe(t)
    /\ ObjectsKnown
    /\ Distinct(queue) /\ QueueByPriority
    /\ LanesBounded /\ Awake /\ StateSafe

-------------------------------------------------------------------------------
\* Lemmas about the queue: what is in it, each once, and in order.

LEMMA LeastNat ==
  ASSUME NEW S, S \subseteq Nat, S # {}
  PROVE  \E x \in S : \A y \in S : x <= y
<1>. DEFINE R == {ss \in Nat \X Nat : ss[1] < ss[2]}
<1>1. IsWellFoundedOn(R, Nat)
  BY NatLessThanWellFounded DEF OpToRel
<1>. HIDE DEF R
<1>2. PICK x \in S : \A y \in S : <<y, x>> \notin R
  BY <1>1, WFMin
<1>3. \A y \in Nat : <<y, x>> \in R <=> y < x
  BY DEF R
<1>4. ASSUME NEW y \in S PROVE x <= y
  <2>1. x \in Nat /\ y \in Nat /\ ~(y < x)
    BY <1>2, <1>3
  <2>. QED BY <2>1
<1>. QED BY <1>4

LEMMA MinIs ==
  ASSUME NEW S, S \subseteq Nat, S # {}
  PROVE  Min(S) \in S /\ \A y \in S : Min(S) <= y
  BY LeastNat DEF Min

LEMMA FirstBacklogIs ==
  ASSUME NEW q \in Seq(Works)
  PROVE  /\ FirstBacklog(q) \in 0 .. Len(q)
         /\ FirstBacklog(q) # 0 => IsBacklog(q[FirstBacklog(q)])
         /\ \A i \in 1 .. Len(q) : i < FirstBacklog(q) \/ FirstBacklog(q) = 0 => ~IsBacklog(q[i])
<1>. DEFINE I == {i \in 1 .. Len(q) : IsBacklog(q[i])}
<1>1. Len(q) \in Nat
  BY LenProperties
<1>2. FirstBacklog(q) = IF I # {} THEN Min(I) ELSE 0
  BY DEF FirstBacklog, SelectInSeq
<1>3. I \subseteq Nat
  OBVIOUS
<1>4. CASE I # {}
  <2>. PICK m \in I : m = FirstBacklog(q) /\ \A y \in I : m <= y
    BY <1>2, <1>3, <1>4, MinIs
  <2>1. m \in 1 .. Len(q) /\ IsBacklog(q[m])
    OBVIOUS
  <2>2. ASSUME NEW i \in 1 .. Len(q), i < m PROVE ~IsBacklog(q[i])
    <3>1. i \notin I
      BY <1>1, <2>1, <2>2
    <3>. QED BY <3>1
  <2>. QED BY <1>1, <2>1, <2>2
<1>5. CASE I = {}
  BY <1>1, <1>2, <1>5
<1>. QED BY <1>4, <1>5

Inserted(r, q, i, w) ==
    /\ r \in Seq(Works) /\ Len(r) = Len(q) + 1
    /\ \A j \in 1 .. Len(q) + 1 : r[j] = IF j < i THEN q[j] ELSE IF j = i THEN w ELSE q[j - 1]

Removed(r, q, i) ==
    /\ r \in Seq(Works) /\ Len(r) = Len(q) - 1
    /\ \A j \in 1 .. Len(q) - 1 : r[j] = IF j < i THEN q[j] ELSE q[j + 1]

LEMMA ConsInserts ==
  ASSUME NEW q \in Seq(Works), NEW w \in Works
  PROVE  Inserted(Cons(w, q), q, 1, w)
<1>1. <<w>> \in Seq(Works) /\ Len(<<w>>) = 1 /\ <<w>>[1] = w /\ Len(q) \in Nat
  BY LenProperties
<1>2. Cons(w, q) = <<w>> \o q
  BY DEF Cons
<1>. QED BY <1>1, <1>2, ConcatProperties DEF Inserted

LEMMA AppendInserts ==
  ASSUME NEW q \in Seq(Works), NEW w \in Works
  PROVE  Inserted(Append(q, w), q, Len(q) + 1, w)
<1>1. Len(q) \in Nat
  BY LenProperties
<1>. QED BY <1>1, AppendProperties DEF Inserted

LEMMA InsertAtInserts ==
  ASSUME NEW q \in Seq(Works), NEW w \in Works, NEW i \in 1 .. Len(q)
  PROVE  Inserted(InsertAt(q, i, w), q, i, w)
<1>. DEFINE n == Len(q)
            a == SubSeq(q, 1, i - 1)
            b == SubSeq(q, i, n)
<1>1. n \in Nat /\ i \in 1 .. n /\ \A j \in 1 .. n : q[j] \in Works
  BY LenProperties, ElementOfSeq
<1>2. a \in Seq(Works) /\ Len(a) = i - 1 /\ \A j \in 1 .. i - 1 : a[j] = q[j]
  BY <1>1, SubSeqProperties
<1>3. b \in Seq(Works) /\ Len(b) = n - i + 1 /\ \A j \in 1 .. n - i + 1 : b[j] = q[i + j - 1]
  BY <1>1, SubSeqProperties
<1>4. <<w>> \in Seq(Works) /\ Len(<<w>>) = 1 /\ <<w>>[1] = w
  OBVIOUS
<1>5. InsertAt(q, i, w) = (a \o <<w>>) \o b
  BY DEF InsertAt
<1>. HIDE DEF a, b, n
<1>. DEFINE c == a \o <<w>>
<1>6. /\ c \in Seq(Works) /\ Len(c) = i
      /\ \A j \in 1 .. i : c[j] = IF j <= i - 1 THEN a[j] ELSE <<w>>[j - (i - 1)]
  BY <1>1, <1>2, <1>4, ConcatProperties
<1>. HIDE DEF c
<1>7. /\ c \o b \in Seq(Works) /\ Len(c \o b) = n + 1
      /\ \A j \in 1 .. n + 1 : (c \o b)[j] = IF j <= i THEN c[j] ELSE b[j - i]
  <2>1. /\ c \o b \in Seq(Works) /\ Len(c \o b) = Len(c) + Len(b)
        /\ \A j \in 1 .. Len(c) + Len(b) :
              (c \o b)[j] = IF j <= Len(c) THEN c[j] ELSE b[j - Len(c)]
    BY <1>3, <1>6, ConcatProperties
  <2>2. Len(c) = i /\ Len(c) + Len(b) = n + 1
    BY <1>1, <1>3, <1>6
  <2>. QED BY <2>1, <2>2
<1>8. ASSUME NEW j \in 1 .. n + 1
      PROVE  (c \o b)[j] = IF j < i THEN q[j] ELSE IF j = i THEN w ELSE q[j - 1]
  <2>1. CASE j < i
    <3>1. j \in 1 .. i - 1 /\ j \in 1 .. i /\ j <= i - 1
      BY <1>1, <2>1
    <3>. QED BY <1>2, <1>6, <1>7, <2>1, <3>1
  <2>2. CASE j = i
    BY <1>1, <1>4, <1>6, <1>7, <2>2
  <2>3. CASE j > i
    <3>1. j - i \in 1 .. n - i + 1 /\ i + (j - i) - 1 = j - 1 /\ ~(j <= i) /\ ~(j < i) /\ j # i
      BY <1>1, <2>3
    <3>2. (c \o b)[j] = b[j - i] /\ b[j - i] = q[i + (j - i) - 1]
      BY <1>3, <1>7, <3>1
    <3>. QED BY <3>1, <3>2
  <2>4. j < i \/ j = i \/ j > i
    BY <1>1
  <2>. QED BY <2>1, <2>2, <2>3, <2>4
<1>. QED BY <1>5, <1>7, <1>8 DEF Inserted, n, c

LEMMA RemoveAtRemoves ==
  ASSUME NEW q \in Seq(Works), NEW i \in 1 .. Len(q)
  PROVE  Removed(RemoveAt(q, i), q, i)
<1>. DEFINE n == Len(q)
            a == SubSeq(q, 1, i - 1)
            b == SubSeq(q, i + 1, n)
<1>1. n \in Nat /\ i \in 1 .. n /\ \A j \in 1 .. n : q[j] \in Works
  BY LenProperties, ElementOfSeq
<1>2. a \in Seq(Works) /\ Len(a) = i - 1 /\ \A j \in 1 .. i - 1 : a[j] = q[j]
  BY <1>1, SubSeqProperties
<1>3. b \in Seq(Works) /\ Len(b) = n - i /\ \A j \in 1 .. n - i : b[j] = q[i + j]
  BY <1>1, SubSeqProperties
<1>4. RemoveAt(q, i) = a \o b
  BY DEF RemoveAt
<1>. HIDE DEF a, b, n
<1>5. /\ a \o b \in Seq(Works) /\ Len(a \o b) = n - 1
      /\ \A j \in 1 .. n - 1 : (a \o b)[j] = IF j <= i - 1 THEN a[j] ELSE b[j - (i - 1)]
  <2>1. /\ a \o b \in Seq(Works) /\ Len(a \o b) = Len(a) + Len(b)
        /\ \A j \in 1 .. Len(a) + Len(b) :
              (a \o b)[j] = IF j <= Len(a) THEN a[j] ELSE b[j - Len(a)]
    BY <1>2, <1>3, ConcatProperties
  <2>2. Len(a) = i - 1 /\ Len(a) + Len(b) = n - 1
    BY <1>1, <1>2, <1>3
  <2>. QED BY <2>1, <2>2
<1>6. \A j \in 1 .. n - 1 : (a \o b)[j] = IF j < i THEN q[j] ELSE q[j + 1]
  BY <1>1, <1>2, <1>3, <1>5
<1>. QED BY <1>4, <1>5, <1>6 DEF Removed, n

Sorted(q, f) == \A i, j \in 1 .. Len(q) : i <= j => f[q[i]] <= f[q[j]]

LEMMA InsertedHolds ==
  ASSUME NEW q \in Seq(Works), NEW w \in Works, NEW i \in 1 .. Len(q) + 1, NEW r, Inserted(r, q, i, w)
  PROVE  /\ r \in Seq(Works) /\ r # <<>>
         /\ \A v : Contains(r, v) <=> Contains(q, v) \/ v = w
         /\ Distinct(q) /\ ~Contains(q, w) => Distinct(r)
         /\ \A f \in [Works -> 1 .. 3] :
               /\ Sorted(q, f)
               /\ \A j \in 1 .. Len(q) : IF j < i THEN f[q[j]] <= f[w] ELSE f[w] <= f[q[j]]
               => Sorted(r, f)
<1>1. Len(q) \in Nat /\ i \in Nat /\ \A j \in 1 .. Len(q) : q[j] \in Works
  BY LenProperties, ElementOfSeq
<1>2. r \in Seq(Works) /\ r # <<>>
  <2>1. Len(r) # 0
    BY <1>1 DEF Inserted
  <2>. QED BY <2>1 DEF Inserted
<1>3. r[i] = w /\ \A j \in 1 .. Len(q) : q[j] = r[IF j < i THEN j ELSE j + 1]
  BY <1>1 DEF Inserted
<1>4. ASSUME NEW v PROVE Contains(r, v) <=> Contains(q, v) \/ v = w
  <2>1. ASSUME Contains(r, v) PROVE Contains(q, v) \/ v = w
    <3>. PICK j \in 1 .. Len(q) + 1 : r[j] = v
      BY <2>1 DEF Inserted, Contains
    <3>1. CASE j < i
      BY <1>1, <3>1 DEF Inserted, Contains
    <3>2. CASE j > i
      BY <1>1, <3>2 DEF Inserted, Contains
    <3>. QED BY <1>1, <1>3, <3>1, <3>2
  <2>2. ASSUME Contains(q, v) PROVE Contains(r, v)
    <3>. PICK j \in 1 .. Len(q) : q[j] = v
      BY <2>2 DEF Contains
    <3>. PICK m \in 1 .. Len(q) + 1 : m = IF j < i THEN j ELSE j + 1
      BY <1>1
    <3>. QED BY <1>3 DEF Inserted, Contains
  <2>3. Contains(r, w)
    BY <1>1, <1>3 DEF Inserted, Contains
  <2>. QED BY <2>1, <2>2, <2>3
<1>5. ASSUME Distinct(q), ~Contains(q, w),
             NEW j \in 1 .. Len(q) + 1, NEW k \in 1 .. Len(q) + 1, r[j] = r[k], j < k
      PROVE  FALSE
  <2>1. \A m \in 1 .. Len(q) : q[m] # w
    BY <1>5 DEF Contains
  <2>2. CASE k < i
    BY <1>1, <1>5, <2>2 DEF Inserted, Distinct
  <2>3. CASE k = i
    BY <1>1, <1>5, <2>1, <2>3 DEF Inserted
  <2>4. CASE k > i /\ j < i
    BY <1>1, <1>5, <2>4 DEF Inserted, Distinct
  <2>5. CASE k > i /\ j = i
    BY <1>1, <1>5, <2>1, <2>5 DEF Inserted
  <2>6. CASE k > i /\ j > i
    BY <1>1, <1>5, <2>6 DEF Inserted, Distinct
  <2>. QED BY <1>1, <2>2, <2>3, <2>4, <2>5, <2>6
<1>7. ASSUME Distinct(q), ~Contains(q, w) PROVE Distinct(r)
  <2>. SUFFICES ASSUME NEW j \in 1 .. Len(q) + 1, NEW k \in 1 .. Len(q) + 1, r[j] = r[k]
                PROVE  ~(j < k) /\ ~(k < j)
    BY <1>1 DEF Distinct, Inserted
  <2>. QED BY <1>5, <1>7
<1>6. ASSUME NEW f \in [Works -> 1 .. 3], Sorted(q, f),
             \A j \in 1 .. Len(q) : IF j < i THEN f[q[j]] <= f[w] ELSE f[w] <= f[q[j]],
             NEW j \in 1 .. Len(r), NEW k \in 1 .. Len(r), j <= k
      PROVE  f[r[j]] <= f[r[k]]
  <2>1. f[w] \in 1 .. 3 /\ \A m \in 1 .. Len(q) : f[q[m]] \in 1 .. 3
    BY <1>1
  <2>2. CASE k < i
    <3>1. r[j] = q[j] /\ r[k] = q[k] /\ j \in 1 .. Len(q) /\ k \in 1 .. Len(q)
      BY <1>1, <1>6, <2>2 DEF Inserted
    <3>. QED BY <1>6, <3>1 DEF Sorted
  <2>3. CASE j < i /\ k = i
    BY <1>1, <1>6, <2>3 DEF Inserted
  <2>4. CASE j < i /\ k > i
    BY <1>1, <1>6, <2>4 DEF Inserted, Sorted
  <2>5. CASE j = i
    BY <1>1, <1>6, <2>1, <2>5 DEF Inserted
  <2>6. CASE j > i
    <3>1. /\ r[j] = q[j - 1] /\ r[k] = q[k - 1] /\ j - 1 <= k - 1
          /\ j - 1 \in 1 .. Len(q) /\ k - 1 \in 1 .. Len(q)
      BY <1>1, <1>6, <2>6 DEF Inserted
    <3>. QED BY <1>6, <3>1 DEF Sorted
  <2>. QED BY <1>1, <1>6, <2>2, <2>3, <2>4, <2>5, <2>6 DEF Inserted
<1>. QED BY <1>2, <1>4, <1>6, <1>7 DEF Sorted

LEMMA RemovedHolds ==
  ASSUME NEW q \in Seq(Works), NEW i \in 1 .. Len(q), NEW r, Removed(r, q, i), Distinct(q)
  PROVE  /\ r \in Seq(Works) /\ Distinct(r)
         /\ \A v : Contains(r, v) <=> Contains(q, v) /\ v # q[i]
         /\ \A f \in [Works -> 1 .. 3] : Sorted(q, f) => Sorted(r, f)
<1>1. Len(q) \in Nat /\ i \in Nat /\ Len(q) - 1 \in Nat
  BY LenProperties
<1>2. \A j \in 1 .. Len(q) : j # i => q[j] = r[IF j < i THEN j ELSE j - 1]
  BY <1>1 DEF Removed
<1>3. ASSUME NEW v PROVE Contains(r, v) <=> Contains(q, v) /\ v # q[i]
  <2>1. ASSUME Contains(r, v) PROVE Contains(q, v) /\ v # q[i]
    BY <1>1, <2>1 DEF Removed, Contains, Distinct
  <2>2. ASSUME Contains(q, v), v # q[i] PROVE Contains(r, v)
    <3>. PICK j \in 1 .. Len(q) : q[j] = v
      BY <2>2 DEF Contains
    <3>1. j # i
      BY <2>2
    <3>. QED BY <1>1, <1>2, <3>1 DEF Removed, Contains
  <2>. QED BY <2>1, <2>2
<1>4. Distinct(r)
  BY <1>1 DEF Removed, Distinct
<1>5. ASSUME NEW f \in [Works -> 1 .. 3], Sorted(q, f) PROVE Sorted(r, f)
  BY <1>1, <1>5 DEF Removed, Sorted
<1>. QED BY <1>3, <1>4, <1>5 DEF Removed
Ranks == [w \in Works |-> Rank(w)]

LEMMA RankIs ==
  ASSUME work \in [Works -> WorkType]
  PROVE  /\ Ranks \in [Works -> 1 .. 3]
         /\ \A w \in Works : Ranks[w] = Rank(w)
         /\ \A w \in Works : /\ Rank(w) = 1 <=> work[w].priority = "control"
                             /\ Rank(w) = 2 <=> work[w].priority = "interactive"
                             /\ Rank(w) = 3 <=> work[w].priority = "backlog"
  BY DEF Ranks, Rank, WorkType

LEMMA QueueIsSorted ==
  ASSUME work \in [Works -> WorkType], queue \in Seq(Works)
  PROVE  QueueByPriority <=> Sorted(queue, Ranks)
<1>1. DOMAIN queue = 1 .. Len(queue) /\ \A i \in 1 .. Len(queue) : queue[i] \in Works
  BY LenProperties, ElementOfSeq
<1>. QED BY <1>1, RankIs DEF QueueByPriority, Sorted

\* insertRunWork keeps an order that knows what is backlog and what w is.
LEMMA RunWorkInserted ==
  ASSUME NEW q \in Seq(Works), NEW w \in Works, NEW p \in {"interactive", "backlog"},
         NEW r, r = InsertRunWork(q, w, p), Distinct(q), ~Contains(q, w),
         NEW f \in [Works -> 1 .. 3], Sorted(q, f),
         f[w] = IF p = "interactive" THEN 2 ELSE 3,
         \A v \in Works : Contains(q, v) => (IsBacklog(v) <=> f[v] = 3)
  PROVE  /\ r \in Seq(Works) /\ r # <<>> /\ Distinct(r) /\ Sorted(r, f)
         /\ \A v : Contains(r, v) <=> Contains(q, v) \/ v = w
<1>. DEFINE b == FirstBacklog(q)
<1>1. /\ Len(q) \in Nat /\ b \in 0 .. Len(q)
      /\ \A i \in 1 .. Len(q) : q[i] \in Works /\ f[q[i]] \in 1 .. 3
  BY LenProperties, ElementOfSeq, FirstBacklogIs
<1>2. \A i \in 1 .. Len(q) : IsBacklog(q[i]) <=> f[q[i]] = 3
  BY <1>1 DEF Contains
<1>3. CASE p = "backlog" \/ b = 0
  <2>1. r = Append(q, w)
    BY <1>3 DEF InsertRunWork
  <2>2. \A j \in 1 .. Len(q) : j < Len(q) + 1 /\ f[q[j]] <= f[w]
    <3>1. CASE p = "backlog"
      BY <1>1, <3>1
    <3>2. CASE p = "interactive" /\ b = 0
      <4>1. \A j \in 1 .. Len(q) : f[q[j]] # 3
        BY <1>2, <3>2, FirstBacklogIs
      <4>. QED BY <1>1, <3>2, <4>1
    <3>. QED BY <1>3, <3>1, <3>2
  <2>3. Len(q) + 1 \in 1 .. Len(q) + 1
    BY <1>1
  <2>4. Inserted(r, q, Len(q) + 1, w)
    BY <2>1, AppendInserts
  <2>5. \A j \in 1 .. Len(q) : IF j < Len(q) + 1 THEN f[q[j]] <= f[w] ELSE f[w] <= f[q[j]]
    BY <2>2
  <2>. HIDE DEF b
  <2>. QED BY <2>3, <2>4, <2>5, InsertedHolds
<1>4. CASE p = "interactive" /\ b # 0
  <2>1. r = InsertAt(q, b, w) /\ b \in 1 .. Len(q) /\ b \in 1 .. Len(q) + 1
    BY <1>1, <1>4 DEF InsertRunWork
  <2>2. f[q[b]] = 3 /\ f[w] = 2
    BY <1>2, <1>4, <2>1, FirstBacklogIs
  <2>3. ASSUME NEW j \in 1 .. Len(q) PROVE IF j < b THEN f[q[j]] <= f[w] ELSE f[w] <= f[q[j]]
    <3>1. CASE j < b
      <4>1. f[q[j]] # 3
        BY <1>2, <3>1, FirstBacklogIs
      <4>. QED BY <1>1, <2>2, <3>1, <4>1
    <3>2. CASE ~(j < b)
      <4>1. f[q[b]] <= f[q[j]]
        BY <1>1, <2>1, <3>2 DEF Sorted
      <4>. QED BY <1>1, <2>2, <3>2, <4>1
    <3>. QED BY <3>1, <3>2
  <2>4. Inserted(r, q, b, w)
    BY <2>1, InsertAtInserts
  <2>. HIDE DEF b
  <2>. QED BY <2>1, <2>3, <2>4, InsertedHolds
<1>. QED BY <1>3, <1>4

LEMMA ControlInserted ==
  ASSUME NEW q \in Seq(Works), NEW w \in Works, NEW r, r = Cons(w, q),
         Distinct(q), ~Contains(q, w),
         NEW f \in [Works -> 1 .. 3], Sorted(q, f), f[w] = 1
  PROVE  /\ r \in Seq(Works) /\ r # <<>> /\ Distinct(r) /\ Sorted(r, f)
         /\ \A v : Contains(r, v) <=> Contains(q, v) \/ v = w
<1>1. 1 \in 1 .. Len(q) + 1 /\ \A j \in 1 .. Len(q) : ~(j < 1) /\ f[w] <= f[q[j]]
  BY LenProperties, ElementOfSeq
<1>. QED BY <1>1, ConsInserts, InsertedHolds

LEMMA FirstRemoved ==
  ASSUME NEW q \in Seq(Works), NEW w \in Works, Distinct(q)
  PROVE  LET r == RemoveFirst(q, w) IN
         /\ r \in Seq(Works) /\ Distinct(r)
         /\ \A v : Contains(r, v) <=> Contains(q, v) /\ v # w
         /\ \A f \in [Works -> 1 .. 3] : Sorted(q, f) => Sorted(r, f)
<1>1. CASE Contains(q, w)
  <2>. DEFINE I == {i \in 1 .. Len(q) : q[i] = w}
  <2>1. I # {} /\ I \subseteq Nat
    BY <1>1 DEF Contains
  <2>2. RemoveFirst(q, w) = RemoveAt(q, Min(I))
    BY <1>1, <2>1 DEF RemoveFirst, SelectInSeq, Contains
  <2>3. Min(I) \in 1 .. Len(q) /\ q[Min(I)] = w
    BY <2>1, MinIs
  <2>. HIDE DEF I
  <2>. QED BY <2>2, <2>3, RemoveAtRemoves, RemovedHolds
<1>2. CASE ~Contains(q, w)
  <2>1. RemoveFirst(q, w) = q
    BY <1>2 DEF RemoveFirst, Contains
  <2>. QED BY <1>2, <2>1
<1>. QED BY <1>1, <1>2

-------------------------------------------------------------------------------
\* What IInv says of the properties.

LEMMA Typed ==
  ASSUME TypeOK
  PROVE  /\ \A w \in Works : work[w] \in WorkType
         /\ \A k \in Tasks : task[k] \in TaskType
         /\ \A t \in Threads : /\ queued[t] \in Works \cup {None} /\ active[t] \in Works \cup {None}
                               /\ reserved[t] \in Works \cup {None}
                               /\ retained[t] \in Works \cup {None}
         /\ None \notin Works /\ None \notin Threads
  BY ThreadSchedulerAssumption DEF TypeOK, Lane

LEMMA ExecutionsAreSafe == IInv => OneExecutionPerThread
<1>. SUFFICES ASSUME IInv PROVE OneExecutionPerThread
  OBVIOUS
<1>1. ASSUME NEW j \in Executing, NEW k \in Executing, ThreadOf(j) = ThreadOf(k) PROVE j = k
  <2>1. j \in Tasks /\ k \in Tasks /\ ThreadOf(j) \in Threads
    BY DEF IInv, ObjectsKnown, Executing, ThreadOf, T
  <2>. QED BY <1>1, <2>1 DEF IInv, ThreadSafe, ActiveSafe
<1>2. Cardinality(Executing) <= MaxRuns
  <2>. DEFINE f == [t \in ActiveLanes |-> CHOOSE k \in Executing : ThreadOf(k) = t]
  <2>1. ASSUME NEW t \in ActiveLanes PROVE f[t] \in Executing /\ ThreadOf(f[t]) = t
    <3>1. \E k \in Executing : task[k].work = active[t]
      BY DEF IInv, ThreadSafe, ActiveSafe, ActiveLanes
    <3>2. T(active[t]) = t
      BY DEF IInv, ThreadSafe, LaneSafe, ActiveLanes
    <3>3. \E k \in Executing : ThreadOf(k) = t
      BY <3>1, <3>2 DEF ThreadOf, T
    <3>. QED BY <3>3
  <2>2. ASSUME NEW k \in Executing PROVE \E t \in ActiveLanes : f[t] = k
    <3>1. k \in Tasks /\ task[k].stage = "running" /\ task[k].work \in Works
          /\ ThreadOf(k) \in Threads
      BY DEF IInv, ObjectsKnown, Executing, ThreadOf, T
    <3>2. active[ThreadOf(k)] = task[k].work
      BY <3>1 DEF IInv, ThreadSafe, TaskSafe
    <3>3. ThreadOf(k) \in ActiveLanes
      BY <3>1, <3>2, Typed DEF IInv, ActiveLanes
    <3>. QED BY <1>1, <2>1, <3>3
  <2>3. f \in Surjection(ActiveLanes, Executing)
    BY <2>1, <2>2 DEF Surjection
  <2>. HIDE DEF f
  <2>4. IsFiniteSet(ActiveLanes) /\ Cardinality(ActiveLanes) <= MaxRuns
    BY DEF IInv, LanesBounded
  <2>5. IsFiniteSet(Executing) /\ Cardinality(Executing) <= Cardinality(ActiveLanes)
    BY <2>3, <2>4, FS_Surjection DEF ExistsSurjection
  <2>6. Cardinality(Executing) \in Nat /\ Cardinality(ActiveLanes) \in Nat /\ MaxRuns \in Nat
    BY <2>4, <2>5, FS_CardinalityType, ThreadSchedulerAssumption
  <2>. QED BY <2>4, <2>5, <2>6
<1>. QED BY <1>1, <1>2 DEF OneExecutionPerThread

LEMMA WaitsAreSafe == IInv => EveryWaitHasAWaker
  BY DEF IInv, Shut, ThreadSafe, WaitSafe, LaneSafe, Awake, EveryWaitHasAWaker

LEMMA HintsAreSafe == IInv => HintsAreCovered
<1>. SUFFICES ASSUME IInv, state = "running", NEW t \in owed PROVE Covered(t)
  BY DEF HintsAreCovered, Covered, IsRun
<1>1. t \in Threads /\ state \notin Shut
  BY DEF IInv, TypeOK, Shut
<1>. QED BY <1>1 DEF IInv, ThreadSafe

LEMMA PromisesAreSafe == IInv => NoForgottenPromise
<1>. SUFFICES ASSUME IInv, NEW w \in unsettled
              PROVE  \/ w \in Values(queued) \cup Values(active) \cup Values(retained) \cup drains
                     \/ \E k \in Tasks : task[k].work = w /\ task[k].stage # "idle" /\ ~task[k].again
  BY DEF NoForgottenPromise
<1>1. w \in Works /\ Object(w) /\ T(w) \in Threads /\ w # None
  BY Typed DEF IInv, TypeOK, ObjectsKnown
<1>2. ObjectSafe(w, T(w))
  BY <1>1 DEF IInv, ThreadSafe
<1>. QED BY <1>1, <1>2 DEF ObjectSafe, InLane, Values

\* At most one of the places a run waits or executes in is taken.
LEMMA OneRun ==
  ASSUME IInv, NEW t \in Threads, NEW v \in RunsOf(t)
  PROVE  /\ v \in Works
         /\ state \in Shut => active[t] = v
         /\ \A w : InLane(w, t) /\ w \in Works /\ IsRun(w) => v = w
<1>1. LaneSafe(t) /\ v # None /\ IsRun(v) /\ T(v) = t
  BY DEF IInv, ThreadSafe, RunsOf, Values, IsRun, T
<1>2. PICK s \in Threads : queued[s] = v \/ active[s] = v \/ retained[s] = v
  BY DEF RunsOf, Values
<1>3. s = t
  BY <1>1, <1>2 DEF IInv, ThreadSafe, LaneSafe
<1>4. v \in Works
  BY <1>1, <1>2, Typed DEF IInv
<1>5. ASSUME NEW w \in Works, InLane(w, t), IsRun(w) PROVE v = w
  BY <1>1, <1>2, <1>3, <1>5, Typed DEF IInv, LaneSafe, InLane
<1>6. state \in Shut => active[t] = v
  BY <1>1, <1>2, <1>3 DEF IInv, StateSafe
<1>. QED BY <1>4, <1>5, <1>6

LEMMA ClaimsAreSafe == IInv => AmbiguousClaimIsKept
<1>. SUFFICES ASSUME IInv, ~gaveUp, NEW w \in unresolved
              PROVE  /\ \/ w \in Values(queued) \cup Values(active) \cup Values(retained) \cup drains
                        \/ \E k \in Tasks : task[k].stage = "replay" /\ task[k].work = w
                     /\ RunsOf(work[w].thread) \subseteq {w}
  BY DEF AmbiguousClaimIsKept
<1>. DEFINE t == T(w)
<1>1. w \in Works /\ Object(w) /\ t \in Threads /\ w # None
  BY Typed DEF IInv, TypeOK, ObjectsKnown
<1>2. ObjectSafe(w, t) /\ LaneSafe(t) /\ \A k \in Tasks : task[k].stage # "idle" /\ ThreadOf(k) = t => TaskSafe(k, t)
  BY <1>1 DEF IInv, ThreadSafe
<1>3. \/ w \in Values(queued) \cup Values(active) \cup Values(retained) \cup drains
      \/ \E k \in Tasks : task[k].stage = "replay" /\ task[k].work = w
  BY <1>1, <1>2 DEF ObjectSafe, InLane, Values
<1>4. ASSUME NEW v \in RunsOf(t) PROVE v = w
  <2>1. IsRun(v) /\ v # None /\ IsRun(w)
    BY <1>2 DEF RunsOf, Values, IsRun, ObjectSafe
  <2>2. CASE InLane(w, t)
    BY <1>1, <2>1, <2>2, OneRun
  <2>3. CASE w \in drains
    <3>1. state \in Shut
      BY <2>3 DEF IInv, StateSafe
    <3>2. active[t] = v
      BY <1>1, <3>1, OneRun
    <3>. QED BY <1>2, <2>1, <2>3, <3>2 DEF ObjectSafe
  <2>4. ASSUME NEW k \in Tasks, task[k].stage = "replay", task[k].work = w PROVE FALSE
    <3>1. TaskSafe(k, t)
      BY <1>2, <2>4 DEF ThreadOf, T
    <3>2. state \in Shut /\ active[t] = None
      BY <2>4, <3>1 DEF TaskSafe
    <3>. QED BY <1>1, <2>1, <3>2, OneRun
  <2>. QED BY <1>2, <2>2, <2>3, <2>4 DEF ObjectSafe
<1>. QED BY <1>3, <1>4 DEF T
-------------------------------------------------------------------------------
\* A step at the lane of one thread leaves the other threads as they are.

Local(t) ==
    /\ UNCHANGED state /\ (gaveUp => gaveUp')
    /\ \A s \in Threads \ {t} :
          /\ queued'[s] = queued[s] /\ active'[s] = active[s]
          /\ reserved'[s] = reserved[s] /\ retained'[s] = retained[s]
          /\ s \in rerun' <=> s \in rerun
          /\ s \in owed' => s \in owed
    /\ \A w \in Works : Object(w) /\ T(w) # t =>
          /\ work'[w] = work[w]
          /\ Contains(queue', w) <=> Contains(queue, w)
          /\ w \in retry' <=> w \in retry
          /\ w \in drains' <=> w \in drains
          /\ w \in unsettled' => w \in unsettled
          /\ w \in unresolved' => w \in unresolved
    /\ \A w \in Works : Object(w)' /\ T(w)' # t => Object(w) /\ T(w) # t
    /\ \A k \in Tasks :
          \/ task'[k] = task[k]
          \/ /\ task[k].stage = "idle" \/ ThreadOf(k) = t
             /\ task'[k].stage = "idle" \/ ThreadOf(k)' = t

LEMMA ElsewhereKept ==
  ASSUME IInv, TypeOK', ObjectsKnown', NEW t \in Threads, Local(t), NEW s \in Threads \ {t}
  PROVE  ThreadSafe(s)'
<1>1. ThreadSafe(s)
  BY DEF IInv
<1>2. ASSUME NEW w \in Works
      PROVE  /\ Object(w) /\ T(w) = s <=> Object(w)' /\ T(w)' = s
             /\ Object(w) /\ T(w) = s => work'[w] = work[w]
  BY DEF Local, Object, T
<1>3. ASSUME NEW k \in Tasks
      PROVE  /\ task[k].stage # "idle" /\ ThreadOf(k) = s
                <=> task'[k].stage # "idle" /\ ThreadOf(k)' = s
             /\ task[k].stage # "idle" /\ ThreadOf(k) = s
                => task'[k] = task[k] /\ task[k].work \in Works /\ Object(task[k].work)
  <2>1. task[k].stage # "idle" => task[k].work \in Works /\ Object(task[k].work)
    BY DEF IInv, ObjectsKnown
  <2>2. task'[k].stage # "idle" => task'[k].work \in Works /\ Object(task[k].work)'
    BY DEF ObjectsKnown
  <2>3. CASE task'[k] = task[k]
    BY <1>2, <2>1, <2>2, <2>3 DEF ThreadOf, T
  <2>4. CASE task'[k] # task[k]
    BY <2>4 DEF Local
  <2>. QED BY <2>1, <2>3, <2>4
<1>4. /\ queued'[s] = queued[s] /\ active'[s] = active[s] /\ reserved'[s] = reserved[s]
      /\ retained'[s] = retained[s] /\ (s \in rerun' <=> s \in rerun) /\ state' = state
      /\ s \in owed' => s \in owed
  BY DEF Local
<1>5. /\ queued[s] \in Works \cup {None} /\ active[s] \in Works \cup {None}
      /\ retained[s] \in Works \cup {None} /\ None \notin Works
  BY Typed DEF IInv
<1>6. \A w \in {queued[s], active[s], retained[s]} \ {None} :
         /\ w \in Works /\ work'[w] = work[w]
         /\ \A k \in Tasks : task'[k].stage # "idle" /\ task'[k].work = w
                             => task[k].stage # "idle" /\ task[k].work = w
  <2>. SUFFICES ASSUME NEW w \in {queued[s], active[s], retained[s]} \ {None}
                PROVE  /\ w \in Works /\ work'[w] = work[w]
                       /\ \A k \in Tasks : task'[k].stage # "idle" /\ task'[k].work = w
                                           => task[k].stage # "idle" /\ task[k].work = w
    OBVIOUS
  <2>1. w \in Works /\ Object(w) /\ T(w) = s
    BY <1>1, <1>5 DEF ThreadSafe, LaneSafe, IsRun, Object
  <2>2. work'[w] = work[w] /\ T(w)' = s
    BY <1>2, <2>1
  <2>3. ASSUME NEW k \in Tasks, task'[k].stage # "idle", task'[k].work = w
        PROVE  task[k].stage # "idle" /\ task[k].work = w
    BY <1>3, <2>2, <2>3 DEF ThreadOf, T
  <2>. QED BY <2>1, <2>2, <2>3
<1>7. LaneSafe(s)'
  BY <1>1, <1>4, <1>6 DEF ThreadSafe, LaneSafe, IsRun, Object, T, HeldByTask
<1>8. ASSUME NEW w \in Works, Object(w)', T(w)' = s PROVE ObjectSafe(w, s)'
  <2>1. /\ Object(w) /\ T(w) = s /\ work'[w] = work[w] /\ ObjectSafe(w, s)
        /\ Contains(queue', w) <=> Contains(queue, w)
        /\ w \in retry' <=> w \in retry
        /\ w \in drains' <=> w \in drains
        /\ w \in unsettled' => w \in unsettled
        /\ w \in unresolved' => w \in unresolved
    BY <1>1, <1>2, <1>8 DEF Local, ThreadSafe
  <2>2. \A k \in Tasks : task[k].work = w /\ task[k].stage # "idle" => task'[k] = task[k]
    BY <1>3, <2>1 DEF ThreadOf, T
  <2>3. InLane(w, s)' <=> InLane(w, s)
    BY <1>4 DEF InLane
  <2>4. active[s] # None => (IsRun(active[s])' <=> IsRun(active[s]))
    BY <1>4, <1>6 DEF IsRun
  <2>5. gaveUp => gaveUp'
    BY DEF Local
  <2>6. IsRun(w)' <=> IsRun(w)
    BY <2>1 DEF IsRun
  <2>. QED BY <1>4, <2>1, <2>2, <2>3, <2>4, <2>5, <2>6 DEF ObjectSafe
<1>9. ASSUME NEW k \in Tasks, task'[k].stage # "idle", ThreadOf(k)' = s PROVE TaskSafe(k, s)'
  <2>1. task'[k] = task[k] /\ TaskSafe(k, s) /\ work'[task[k].work] = work[task[k].work]
    BY <1>1, <1>2, <1>3, <1>9 DEF ThreadSafe, ThreadOf, T
  <2>. QED BY <1>4, <2>1 DEF TaskSafe, IsRun
<1>10. ActiveSafe(s)'
  <2>1. \A k \in Tasks : k \in Executing /\ ThreadOf(k) = s <=> k \in Executing' /\ ThreadOf(k)' = s
    BY <1>3 DEF Executing
  <2>2. \A j, k \in Executing' : ThreadOf(j)' = s /\ ThreadOf(k)' = s => j = k
    BY <1>1, <2>1 DEF ThreadSafe, ActiveSafe, Executing
  <2>3. ASSUME active'[s] # None PROVE \E k \in Executing' : task'[k].work = active'[s]
    <3>. PICK k \in Executing : task[k].work = active[s]
      BY <1>1, <1>4, <2>3 DEF ThreadSafe, ActiveSafe
    <3>1. ThreadOf(k) = s /\ k \in Tasks /\ task[k].stage # "idle"
      BY <1>1, <1>4, <2>3 DEF ThreadSafe, LaneSafe, ThreadOf, T, Executing
    <3>. QED BY <1>3, <1>4, <2>1, <3>1
  <2>. QED BY <2>2, <2>3 DEF ActiveSafe
<1>11. WaitSafe(s)'
  <2>1. queued[s] # None => Object(queued[s]) /\ T(queued[s]) = s
    BY <1>1 DEF ThreadSafe, LaneSafe
  <2>2. queued[s] # None => /\ Contains(queue', queued[s]) <=> Contains(queue, queued[s])
                            /\ queued[s] \in retry' <=> queued[s] \in retry
    BY <1>5, <2>1 DEF Local
  <2>. QED BY <1>1, <1>4, <2>2 DEF ThreadSafe, WaitSafe
<1>12. ASSUME state' \notin Shut, s \in owed' PROVE Covered(s)'
  <2>1. Covered(s)
    BY <1>1, <1>4, <1>12 DEF ThreadSafe
  <2>2. ASSUME NEW k \in Tasks, task[k].stage \in Reconciling, ThreadOf(k) = s
        PROVE  task'[k].stage \in Reconciling /\ ThreadOf(k)' = s
    BY <1>3, <2>2 DEF Reconciling
  <2>3. queued[s] # None => (IsRun(queued[s])' <=> IsRun(queued[s]))
    BY <1>4, <1>6 DEF IsRun
  <2>. QED BY <1>4, <2>1, <2>2, <2>3 DEF Covered
<1>. QED BY <1>7, <1>8, <1>9, <1>10, <1>11, <1>12 DEF ThreadSafe
-------------------------------------------------------------------------------
\* The initial states, and steps that move no work.

LEMMA BlankTyped == Blank \in WorkType /\ Blank.kind = "free" /\ Idle \in TaskType
  BY DEF Blank, WorkType, Idle, TaskType

LEMMA InitInvariant == Init => IInv
<1>. SUFFICES ASSUME Init PROVE IInv
  OBVIOUS
<1>1. work \in [Works -> WorkType] /\ task \in [Tasks -> TaskType]
  BY BlankTyped DEF Init
<1>2. TypeOK
  <2>1. queued \in Lane /\ active \in Lane /\ reserved \in Lane /\ retained \in Lane
    BY DEF Init, Lane
  <2>2. burst \in 0 .. MaxBurst /\ exclusives \in 0 .. MaxExclusive
    BY ThreadSchedulerAssumption DEF Init
  <2>3. queue \in Seq(Works)
    BY EmptySeq DEF Init
  <2>. QED BY <1>1, <2>1, <2>2, <2>3 DEF Init, TypeOK
<1>3. /\ \A w \in Works : ~Object(w) /\ ~work[w].uncertain /\ ~IsRun(w) /\ ~Contains(queue, w)
      /\ \A k \in Tasks : task[k].stage = "idle"
      /\ Executing = {} /\ ActiveLanes = {} /\ queue = <<>>
  BY DEF Init, Blank, Idle, Object, IsRun, Contains, Executing, ActiveLanes
<1>4. ASSUME NEW t \in Threads PROVE ThreadSafe(t)
  BY <1>3 DEF Init, ThreadSafe, LaneSafe, ActiveSafe, WaitSafe
<1>5. ObjectsKnown /\ StateSafe
  BY <1>3 DEF Init, ObjectsKnown, StateSafe, Shut
<1>6. Distinct(queue) /\ QueueByPriority
  BY <1>3 DEF Distinct, QueueByPriority
<1>7. LanesBounded
  BY <1>3, FS_EmptySet, ThreadSchedulerAssumption DEF LanesBounded
<1>8. Awake
  BY DEF Init, Awake, HasCapacity
<1>. QED BY <1>2, <1>4, <1>5, <1>6, <1>7, <1>8 DEF IInv

\* Nothing but the scheduler's state, the drain's flag and the deadline changes.
LEMMA StateStep ==
  ASSUME IInv, UNCHANGED <<work, lanes, burst, task, drains, unsettled, exclusives, unresolved, owed>>,
         state' \in {"idle", "running", "stopping", "closed"},
         state \in Shut <=> state' \in Shut, state' = "idle" => state = "idle",
         kicked' \in BOOLEAN, HasCapacity' => kicked',
         gaveUp' \in BOOLEAN, gaveUp => gaveUp',
         state' = "closed" /\ ~gaveUp' => drains = {} /\ \A k \in Tasks : task[k].stage = "idle"
  PROVE  IInv'
<1>. USE DEF lanes
<1>1. TypeOK'
  BY DEF IInv, TypeOK
<1>2. ASSUME NEW t \in Threads PROVE ThreadSafe(t)'
  <2>. ThreadSafe(t)
    BY DEF IInv
  <2>1. LaneSafe(t)' /\ ActiveSafe(t)' /\ WaitSafe(t)'
    BY DEF ThreadSafe, LaneSafe, Object, IsRun, T, HeldByTask, ActiveSafe, Executing, ThreadOf,
           WaitSafe
  <2>2. ASSUME NEW w \in Works, Object(w)', T(w)' = t PROVE ObjectSafe(w, t)'
    <3>1. ObjectSafe(w, t)
      BY <2>2 DEF ThreadSafe, Object, T
    <3>. QED BY <3>1 DEF ObjectSafe, IsRun, InLane
  <2>3. ASSUME NEW k \in Tasks, task'[k].stage # "idle", ThreadOf(k)' = t PROVE TaskSafe(k, t)'
    <3>1. TaskSafe(k, t)
      BY <2>3 DEF ThreadSafe, ThreadOf
    <3>. QED BY <3>1 DEF TaskSafe, IsRun
  <2>4. ASSUME state' \notin Shut, t \in owed' PROVE Covered(t)'
    <3>1. Covered(t)
      BY <2>4 DEF ThreadSafe
    <3>. QED BY <3>1 DEF Covered, IsRun, ThreadOf
  <2>. QED BY <2>1, <2>2, <2>3, <2>4 DEF ThreadSafe
<1>3. ObjectsKnown'
  BY DEF IInv, ObjectsKnown, Object, T, IsRun
<1>4. Distinct(queue)' /\ QueueByPriority'
  BY DEF IInv, Distinct, QueueByPriority, Rank
<1>5. LanesBounded' /\ Awake'
  BY DEF IInv, LanesBounded, ActiveLanes, Awake
<1>6. StateSafe'
  BY DEF IInv, StateSafe
<1>. QED BY <1>1, <1>2, <1>3, <1>4, <1>5, <1>6 DEF IInv

LEMMA StartKeeps == ASSUME IInv, Start PROVE IInv'
  BY StateStep DEF Start, ghosts, IInv, TypeOK, Shut, StateSafe

LEMMA CloseKeeps == ASSUME IInv, Close PROVE IInv'
<1>1. ~HasCapacity'
  BY DEF Close, HasCapacity
<1>. QED BY <1>1, StateStep DEF Close, IInv, TypeOK, Shut

LEMMA EndOfDrainKeeps == ASSUME IInv, EndOfDrain PROVE IInv'
<1>1. HasCapacity' = HasCapacity
  BY DEF EndOfDrain, HasCapacity, ActiveLanes, lanes
<1>. QED BY <1>1, StateStep DEF EndOfDrain, ghosts, IInv, TypeOK, StateSafe

LEMMA StutterKeeps == ASSUME IInv, UNCHANGED vars PROVE IInv'
<1>1. HasCapacity' = HasCapacity
  BY DEF vars, HasCapacity, ActiveLanes, lanes
<1>. QED BY <1>1, StateStep DEF vars, ghosts, IInv, TypeOK, StateSafe, Awake
-------------------------------------------------------------------------------
\* The awaited callbacks.

LEMMA LocalStep ==
  ASSUME IInv, NEW t \in Threads, Local(t), TypeOK', ObjectsKnown', ThreadSafe(t)',
         Distinct(queue)', QueueByPriority', LanesBounded', Awake', StateSafe'
  PROVE  IInv'
<1>1. \A s \in Threads \ {t} : ThreadSafe(s)'
  BY ElsewhereKept
<1>2. \A s \in Threads : ThreadSafe(s)'
  BY <1>1
<1>. QED BY <1>2 DEF IInv

\* What a step that changes no lane and no queue leaves as it is.
LEMMA LanesUnchanged ==
  ASSUME IInv, UNCHANGED <<state, work, queue, queued, active, retry, timer, kicked>>
  PROVE  /\ Distinct(queue)' /\ QueueByPriority' /\ LanesBounded' /\ Awake'
<1>1. Distinct(queue)' /\ QueueByPriority'
  BY DEF IInv, Distinct, QueueByPriority, Rank
<1>2. LanesBounded' /\ Awake'
  BY DEF IInv, LanesBounded, ActiveLanes, Awake, HasCapacity
<1>. QED BY <1>1, <1>2

LEMMA TaskThread ==
  ASSUME IInv, NEW k \in Tasks, task[k].stage # "idle"
  PROVE  /\ task[k].work \in Works /\ Object(task[k].work) /\ task[k].work # None
         /\ ThreadOf(k) \in Threads /\ ThreadOf(k) = T(task[k].work)
         /\ ThreadSafe(ThreadOf(k)) /\ TaskSafe(k, ThreadOf(k))
         /\ state # "idle" /\ (state = "closed" => gaveUp)
<1>1. task[k].work \in Works /\ Object(task[k].work) /\ ThreadOf(k) = T(task[k].work)
  BY DEF IInv, ObjectsKnown, ThreadOf, T
<1>2. ThreadOf(k) \in Threads /\ task[k].work # None
  BY <1>1, Typed DEF IInv, ObjectsKnown
<1>3. ThreadSafe(ThreadOf(k)) /\ TaskSafe(k, ThreadOf(k))
  BY <1>2 DEF IInv, ThreadSafe
<1>4. state # "idle" /\ (state = "closed" => gaveUp)
  BY DEF IInv, StateSafe
<1>. QED BY <1>1, <1>2, <1>3, <1>4

LEMMA TaskMoves ==
  ASSUME IInv, NEW k \in Tasks, task[k].stage \in {"reconcile", "runnable", "replay"},
         NEW x \in {"runnable", "capacity"}, task' = [task EXCEPT ![k].stage = x],
         UNCHANGED <<state, work, lanes, kicked, burst, drains, unsettled, exclusives>>,
         owed' \subseteq owed, owed \ owed' \subseteq {ThreadOf(k)},
         unresolved' \subseteq unresolved, unresolved \ unresolved' \subseteq {task[k].work},
         gaveUp' \in BOOLEAN, gaveUp => gaveUp',
         task[k].stage = "replay" => gaveUp' \/ task[k].work \notin unresolved',
         task[k].stage # "replay" => x = "runnable" \/ state \in Shut \/ ThreadOf(k) \notin owed'
  PROVE  IInv'
<1>. PICK t \in Threads, w \in Works : t = ThreadOf(k) /\ w = task[k].work
  BY TaskThread
<1>1. /\ Object(w) /\ t = T(w)
      /\ ThreadSafe(t) /\ state # "idle" /\ (state = "closed" => gaveUp)
  BY TaskThread
<1>2. /\ task' \in [Tasks -> TaskType] /\ task'[k].stage = x /\ task'[k].work = w
      /\ task'[k].again = task[k].again
      /\ \A j \in Tasks \ {k} : task'[j] = task[j]
  BY Typed DEF IInv, TypeOK, TaskType
<1>3. TypeOK'
  BY <1>2 DEF IInv, TypeOK, lanes
<1>4. ObjectsKnown'
  <2>1. \A j \in Tasks : task'[j].work = task[j].work /\ (task'[j].stage # "idle" => task[j].stage # "idle")
    BY <1>2
  <2>. QED BY <2>1 DEF IInv, ObjectsKnown, Object, T, IsRun, lanes
<1>5. \A j \in Tasks : /\ task'[j].work = task[j].work /\ task'[j].again = task[j].again
                       /\ ThreadOf(j)' = ThreadOf(j)
                       /\ task'[j].stage = "idle" <=> task[j].stage = "idle"
                       /\ j \in Executing' <=> j \in Executing
                       /\ j # k => task'[j].stage = task[j].stage
  BY <1>2 DEF ThreadOf, Executing
<1>6. Local(t)
  BY <1>1, <1>2, <1>5 DEF Local, Object, T, lanes
<1>7. ThreadSafe(t)'
  <2>1. LaneSafe(t)'
    <3>1. \A v : HeldByTask(v)' <=> HeldByTask(v)
      BY <1>5 DEF HeldByTask
    <3>. QED BY <1>1, <3>1 DEF ThreadSafe, LaneSafe, Object, IsRun, T, lanes
  <2>2. ASSUME NEW v \in Works, Object(v)', T(v)' = t PROVE ObjectSafe(v, t)'
    <3>1. ObjectSafe(v, t)
      BY <1>1, <2>2 DEF ThreadSafe, Object, T
    <3>2. ASSUME ~gaveUp', v \in unresolved', NEW j \in Tasks, task[j].work = v, task[j].stage = "replay"
          PROVE  task'[j].stage = "replay"
      BY <1>5, <3>2
    <3>. QED BY <1>5, <3>1, <3>2 DEF ObjectSafe, InLane, IsRun, lanes
  <2>3. ASSUME NEW j \in Tasks, task'[j].stage # "idle", ThreadOf(j)' = t PROVE TaskSafe(j, t)'
    <3>1. TaskSafe(j, t)
      BY <1>1, <1>5, <2>3 DEF ThreadSafe
    <3>. QED BY <1>2, <1>5, <3>1 DEF TaskSafe, IsRun, lanes
  <2>4. ActiveSafe(t)' /\ WaitSafe(t)'
    <3>1. Executing' = Executing
      BY <1>5 DEF Executing
    <3>2. \A j \in Executing : j \in Tasks
      BY DEF Executing
    <3>3. ActiveSafe(t)'
      BY <1>1, <1>5, <3>1, <3>2 DEF ThreadSafe, ActiveSafe, lanes
    <3>. QED BY <1>1, <3>3 DEF ThreadSafe, WaitSafe, lanes
  <2>5. ASSUME state' \notin Shut, t \in owed' PROVE Covered(t)'
    <3>1. Covered(t) /\ task[k].stage # "replay"
      BY <1>1, <2>5, TaskThread DEF ThreadSafe, TaskSafe
    <3>2. x = "runnable"
      BY <2>5, <3>1
    <3>3. \A j \in Tasks : task[j].stage \in Reconciling => task'[j].stage \in Reconciling
      BY <1>2, <1>5, <3>2 DEF Reconciling
    <3>. QED BY <1>5, <3>1, <3>3 DEF Covered, IsRun, lanes
  <2>. QED BY <2>1, <2>2, <2>3, <2>4, <2>5 DEF ThreadSafe
<1>8. StateSafe'
  BY <1>1 DEF IInv, StateSafe, lanes
<1>. QED BY <1>1, <1>3, <1>4, <1>6, <1>7, <1>8, LanesUnchanged, LocalStep DEF lanes

LEMMA ReadKeeps == ASSUME IInv, NEW k \in Tasks, NEW runnable \in BOOLEAN, Read(k, runnable) PROVE IInv'
<1>1. PICK x \in {"runnable", "capacity"} :
         x = (IF runnable THEN "runnable" ELSE "capacity") /\ task' = [task EXCEPT ![k].stage = x]
  BY DEF Read
<1>2. gaveUp \in BOOLEAN
  BY DEF IInv, TypeOK
<1>. QED BY <1>1, <1>2, TaskMoves DEF Read, ThreadOf

LEMMA ReplayKeeps == ASSUME IInv, NEW k \in Tasks, Replay(k) PROVE IInv'
<1>1. gaveUp' \in BOOLEAN /\ gaveUp \in BOOLEAN
  BY DEF IInv, TypeOK, Replay, Answered
<1>. QED BY <1>1, TaskMoves DEF Replay, Answered

\* The scheduler has been stopped meanwhile.
LEMMA ReconcileLateKeeps == ASSUME IInv, NEW k \in Tasks, Reconcile(k), state # "running" PROVE IInv'
<1>1. state \in Shut /\ gaveUp \in BOOLEAN
  BY TaskThread DEF IInv, TypeOK, Reconcile, Shut
<1>2. UNCHANGED lanes
  BY DEF Reconcile, lanes
<1>. QED BY <1>1, <1>2, TaskMoves DEF Reconcile

\* A settled promise and the execution that held it are gone.
LEMMA SettleKeeps == ASSUME IInv, NEW k \in Tasks, Settle(k) PROVE IInv'
<1>. PICK t \in Threads, w \in Works : t = ThreadOf(k) /\ w = task[k].work
  BY TaskThread DEF Settle
<1>. DEFINE gone == w \notin unsettled' /\ Forgotten(w, k)
<1>1. /\ task[k].stage = "capacity" /\ Object(w) /\ T(w) = t /\ ThreadSafe(t) /\ w # None
      /\ state # "idle" /\ (state = "closed" => gaveUp)
  BY TaskThread DEF Settle
<1>2. /\ UNCHANGED <<state, queue, retry, timer, queued, active, reserved, retained, rerun,
                     kicked, burst, drains, exclusives, unresolved, owed, gaveUp>>
      /\ settling' = settling \ {w} /\ task' = [task EXCEPT ![k] = Idle]
      /\ unsettled' = IF task[k].again THEN unsettled ELSE unsettled \ {w}
      /\ work' = IF gone THEN [work EXCEPT ![w] = Blank] ELSE work
  BY DEF Settle, ghosts
<1>3. /\ task' \in [Tasks -> TaskType] /\ task'[k] = Idle /\ task'[k].stage = "idle"
      /\ \A j \in Tasks \ {k} : task'[j] = task[j]
  BY <1>2, BlankTyped DEF IInv, TypeOK, Idle
<1>4. /\ work' \in [Works -> WorkType]
      /\ \A v \in Works : v # w \/ ~gone => work'[v] = work[v]
      /\ gone => work'[w] = Blank
  BY <1>2, BlankTyped DEF IInv, TypeOK
<1>5. gone => /\ ~Contains(queue, w) /\ w \notin retry \cup drains \cup unsettled'
              /\ \A s \in Threads : queued[s] # w /\ active[s] # w /\ reserved[s] # w /\ retained[s] # w
              /\ \A j \in Tasks \ {k} : task[j].work # w
              /\ ~(w \in unresolved /\ ~gaveUp)
  <2>. SUFFICES ASSUME gone
                PROVE  /\ ~Contains(queue, w) /\ w \notin retry \cup drains \cup unsettled'
                       /\ \A s \in Threads : queued[s] # w /\ active[s] # w /\ reserved[s] # w /\ retained[s] # w
                       /\ \A j \in Tasks \ {k} : task[j].work # w
                       /\ ~(w \in unresolved /\ ~gaveUp)
    OBVIOUS
  <2>1. \A s \in Threads : queued[s] # w /\ active[s] # w /\ reserved[s] # w /\ retained[s] # w
    BY <1>1 DEF Forgotten, Values
  <2>2. ~Contains(queue, w)
    BY LenProperties DEF Forgotten, ToSet, Contains, IInv, TypeOK
  <2>3. w \notin retry \cup drains \cup unsettled' /\ \A j \in Tasks \ {k} : task[j].work # w
    BY DEF Forgotten
  <2>4. ~(w \in unresolved /\ ~gaveUp)
    BY <1>1, <2>1, <2>3 DEF ThreadSafe, ObjectSafe, InLane
  <2>. QED BY <2>1, <2>2, <2>3, <2>4
<1>6. \A v \in Works : Object(v)' => Object(v) /\ work'[v] = work[v]
  BY <1>4, BlankTyped DEF Object
<1>. HIDE DEF gone
<1>7. TypeOK'
  BY <1>2, <1>3, <1>4 DEF IInv, TypeOK
<1>8. ASSUME NEW j \in Tasks, task'[j].stage # "idle"
      PROVE  /\ j # k /\ task'[j] = task[j] /\ task[j].work \in Works /\ Object(task[j].work)
             /\ work'[task[j].work] = work[task[j].work] /\ ThreadOf(j)' = ThreadOf(j)
  <2>1. j # k /\ task'[j] = task[j] /\ task[j].work \in Works /\ Object(task[j].work)
    BY <1>3, <1>8 DEF IInv, ObjectsKnown
  <2>2. work'[task[j].work] = work[task[j].work]
    BY <1>4, <1>5, <2>1
  <2>. QED BY <2>1, <2>2 DEF ThreadOf
<1>9. ObjectsKnown'
  <2>1. ASSUME NEW v \in Works
        PROVE  /\ Object(v)' => T(v)' \in Threads
               /\ ~IsRun(v)' => ~work'[v].uncertain
               /\ Object(v)' => (IsRun(v)' <=> work'[v].priority # "control")
    BY <1>4, <1>6 DEF IInv, ObjectsKnown, Object, T, IsRun, Blank
  <2>2. ASSUME NEW v \in Works,
               \/ Contains(queue', v) \/ v \in retry' \cup drains' \cup unsettled'
               \/ v \in unresolved' /\ ~gaveUp'
        PROVE  Object(v)'
    <3>1. Object(v)
      BY <1>2, <2>2 DEF IInv, ObjectsKnown
    <3>2. ~gone \/ v # w
      BY <1>2, <1>5, <2>2
    <3>. QED BY <1>4, <3>1, <3>2 DEF Object
  <2>3. \A j \in Tasks : task'[j].stage # "idle" => task'[j].work \in Works /\ Object(task[j].work)'
    BY <1>8 DEF Object
  <2>. QED BY <2>1, <2>2, <2>3 DEF ObjectsKnown
<1>10. Local(t)
  <2>1. \A v \in Works : T(v) # t \/ v # w \/ ~gone => work'[v] = work[v]
    BY <1>1, <1>4
  <2>2. task[k].stage # "idle" /\ ThreadOf(k) = t
    BY <1>1
  <2>. QED BY <1>2, <1>3, <1>6, <2>1, <2>2 DEF Local, Object, T
<1>11. \A s \in Threads : /\ queued[s] # None => work'[queued[s]] = work[queued[s]]
                          /\ active[s] # None => work'[active[s]] = work[active[s]]
                          /\ retained[s] # None => work'[retained[s]] = work[retained[s]]
  BY <1>4, <1>5, Typed DEF IInv
<1>12. ThreadSafe(t)'
  <2>1. LaneSafe(t)'
    <3>1. \A v : HeldByTask(v)' => HeldByTask(v)
      BY <1>8 DEF HeldByTask
    <3>. QED BY <1>1, <1>2, <1>11, <3>1 DEF ThreadSafe, LaneSafe, Object, IsRun, T
  <2>2. ASSUME NEW v \in Works, Object(v)', T(v)' = t PROVE ObjectSafe(v, t)'
    <3>1. ObjectSafe(v, t) /\ work'[v] = work[v]
      BY <1>1, <1>6, <2>2 DEF ThreadSafe, T
    <3>2. ASSUME v \in unsettled', NEW j \in Tasks,
                 task[j].work = v, task[j].stage # "idle", ~task[j].again
          PROVE  task'[j] = task[j]
      BY <1>2, <1>3, <3>2
    <3>3. \A j \in Tasks : task[j].stage = "replay" => task'[j] = task[j]
      BY <1>1, <1>3
    <3>. QED BY <1>2, <1>11, <3>1, <3>2, <3>3 DEF ObjectSafe, InLane, IsRun
  <2>3. ASSUME NEW j \in Tasks, task'[j].stage # "idle", ThreadOf(j)' = t PROVE TaskSafe(j, t)'
    <3>1. TaskSafe(j, t)
      BY <1>1, <1>8, <2>3 DEF ThreadSafe
    <3>. QED BY <1>2, <1>8, <2>3, <3>1 DEF TaskSafe, IsRun
  <2>4. ActiveSafe(t)' /\ WaitSafe(t)'
    <3>1. Executing' = Executing /\ \A j \in Executing : task'[j] = task[j] /\ ThreadOf(j)' = ThreadOf(j)
      BY <1>1, <1>3, <1>8 DEF Executing
    <3>2. ActiveSafe(t)'
      BY <1>1, <1>2, <3>1 DEF ThreadSafe, ActiveSafe
    <3>. QED BY <1>1, <1>2, <3>2 DEF ThreadSafe, WaitSafe
  <2>5. ASSUME state' \notin Shut, t \in owed' PROVE Covered(t)'
    <3>1. Covered(t)
      BY <1>1, <1>2, <2>5 DEF ThreadSafe
    <3>2. ASSUME NEW j \in Tasks, task[j].stage \in Reconciling, ThreadOf(j) = t
          PROVE  task'[j].stage \in Reconciling /\ ThreadOf(j)' = t
      <4>1. task'[j] = task[j] /\ task[j].stage # "idle"
        BY <1>1, <1>3, <3>2 DEF Reconciling
      <4>. QED BY <1>8, <3>2, <4>1
    <3>. QED BY <1>2, <1>11, <3>1, <3>2 DEF Covered, IsRun
  <2>. QED BY <2>1, <2>2, <2>3, <2>4, <2>5 DEF ThreadSafe
<1>13. Distinct(queue)' /\ QueueByPriority'
  <2>1. \A i \in DOMAIN queue : Rank(queue[i])' = Rank(queue[i])
    <3>1. \A i \in DOMAIN queue : queue[i] \in Works /\ Contains(queue, queue[i])
      BY LenProperties, ElementOfSeq DEF IInv, TypeOK, Contains
    <3>. QED BY <1>2, <1>4, <1>5, <3>1 DEF Rank
  <2>. QED BY <1>2, <2>1 DEF IInv, Distinct, QueueByPriority
<1>14. LanesBounded' /\ Awake'
  BY <1>2 DEF IInv, LanesBounded, ActiveLanes, Awake, HasCapacity
<1>15. StateSafe'
  BY <1>1, <1>2 DEF IInv, StateSafe
<1>. QED BY <1>7, <1>9, <1>10, <1>12, <1>13, <1>14, <1>15, LocalStep

-------------------------------------------------------------------------------
\* Delayed admissions.

\* A replayed admission: the scheduler has been stopped and its lanes are empty.
LEMMA DrainAdmissionKeeps == ASSUME IInv, NEW w \in Works, DrainAdmission(w) PROVE IInv'
<1>1. /\ Object(w) /\ T(w) \in Threads /\ w # None /\ state \in Shut
      /\ queue = <<>> /\ retry = {} /\ gaveUp \in BOOLEAN
      /\ \A s \in Threads : queued[s] = None /\ reserved[s] = None /\ retained[s] = None
  BY Typed DEF IInv, TypeOK, ObjectsKnown, StateSafe, DrainAdmission
<1>. PICK t \in Threads : t = T(w)
  BY <1>1
<1>. DEFINE gone == unresolved' # unresolved /\ ~HeldByTask(w)
<1>2. /\ UNCHANGED <<state, queue, retry, timer, queued, active, settling, reserved, retained, rerun,
                     kicked, burst, task, exclusives, owed>>
      /\ drains' = drains \ {w} /\ unsettled' = unsettled \ {w}
      /\ work' = IF gone THEN [work EXCEPT ![w] = Blank] ELSE work
      /\ \/ unresolved' = unresolved \ {w} /\ gaveUp' = gaveUp
         \/ gaveUp' = TRUE /\ unresolved' = unresolved
  BY DEF DrainAdmission, Answered, lanes
<1>3. /\ work' \in [Works -> WorkType]
      /\ \A v \in Works : v # w \/ ~gone => work'[v] = work[v]
      /\ gone => work'[w] = Blank
  BY <1>2, BlankTyped DEF IInv, TypeOK
<1>4. ThreadSafe(t) /\ ObjectSafe(w, t)
  BY <1>1 DEF IInv, ThreadSafe
<1>5. /\ gone => w \notin unresolved' /\ ~HeldByTask(w)
      /\ active[t] # w
  <2>1. active[t] # w
    BY <1>1, <1>4 DEF ObjectSafe, DrainAdmission
  <2>. QED BY <1>2, <2>1
<1>6. \A v \in Works : Object(v)' => Object(v) /\ work'[v] = work[v]
  BY <1>3, BlankTyped DEF Object
<1>. HIDE DEF gone
<1>7. TypeOK'
  BY <1>1, <1>2, <1>3 DEF IInv, TypeOK
<1>8. ASSUME NEW j \in Tasks, task[j].stage # "idle"
      PROVE  /\ task[j].work \in Works /\ Object(task[j].work)
             /\ work'[task[j].work] = work[task[j].work] /\ ThreadOf(j)' = ThreadOf(j)
  <2>1. task[j].work \in Works /\ Object(task[j].work)
    BY <1>8 DEF IInv, ObjectsKnown
  <2>2. work'[task[j].work] = work[task[j].work]
    BY <1>3, <1>5, <1>8, <2>1 DEF HeldByTask
  <2>. QED BY <1>2, <2>1, <2>2 DEF ThreadOf
<1>9. ObjectsKnown'
  <2>1. ASSUME NEW v \in Works
        PROVE  /\ Object(v)' => T(v)' \in Threads
               /\ ~IsRun(v)' => ~work'[v].uncertain
               /\ Object(v)' => (IsRun(v)' <=> work'[v].priority # "control")
    BY <1>3, <1>6 DEF IInv, ObjectsKnown, Object, T, IsRun, Blank
  <2>2. ASSUME NEW v \in Works,
               \/ Contains(queue', v) \/ v \in retry' \cup drains' \cup unsettled'
               \/ v \in unresolved' /\ ~gaveUp'
        PROVE  Object(v)'
    <3>1. Object(v)
      BY <1>2, <2>2 DEF IInv, ObjectsKnown
    <3>2. ~gone \/ v # w
      BY <1>1, <1>2, <1>5, <2>2 DEF Contains
    <3>. QED BY <1>3, <3>1, <3>2 DEF Object
  <2>3. \A j \in Tasks : task'[j].stage # "idle" => task'[j].work \in Works /\ Object(task[j].work)'
    BY <1>2, <1>8 DEF Object
  <2>. QED BY <1>2, <2>1, <2>2, <2>3 DEF ObjectsKnown
<1>10. Local(t)
  <2>1. \A v \in Works : T(v) # t \/ v # w \/ ~gone => work'[v] = work[v]
    BY <1>1, <1>3
  <2>2. \A v \in Works : v # w => (v \in unresolved' => v \in unresolved)
    BY <1>2
  <2>. QED BY <1>2, <1>6, <2>1, <2>2 DEF Local, Object, T
<1>11. active[t] # None => work'[active[t]] = work[active[t]]
  BY <1>3, <1>5, Typed DEF IInv
<1>12. ThreadSafe(t)'
  <2>1. LaneSafe(t)' /\ WaitSafe(t)'
    BY <1>1, <1>2, <1>4, <1>11 DEF ThreadSafe, LaneSafe, WaitSafe, Object, T
  <2>2. ASSUME NEW v \in Works, Object(v)', T(v)' = t PROVE ObjectSafe(v, t)'
    <3>1. ObjectSafe(v, t) /\ work'[v] = work[v]
      BY <1>4, <1>6, <2>2 DEF ThreadSafe, T
    <3>2. ~gaveUp' /\ v \in unresolved' => ~gaveUp /\ v \in unresolved /\ v # w
      BY <1>1, <1>2
    <3>. QED BY <1>2, <1>11, <3>1, <3>2 DEF ObjectSafe, InLane, IsRun
  <2>3. ASSUME NEW j \in Tasks, task'[j].stage # "idle", ThreadOf(j)' = t PROVE TaskSafe(j, t)'
    <3>1. TaskSafe(j, t)
      BY <1>2, <1>4, <1>8, <2>3 DEF ThreadSafe
    <3>. QED BY <1>2, <1>8, <2>3, <3>1 DEF TaskSafe, IsRun
  <2>4. ActiveSafe(t)'
    <3>1. Executing' = Executing /\ \A j \in Executing : task'[j] = task[j] /\ ThreadOf(j)' = ThreadOf(j)
      BY <1>2, <1>8 DEF Executing
    <3>. QED BY <1>2, <1>4, <3>1 DEF ThreadSafe, ActiveSafe
  <2>. QED BY <1>1, <1>2, <2>1, <2>2, <2>3, <2>4 DEF ThreadSafe
<1>13. Distinct(queue)' /\ QueueByPriority'
  BY <1>1, <1>2 DEF Distinct, QueueByPriority
<1>14. LanesBounded' /\ Awake'
  BY <1>2 DEF IInv, LanesBounded, ActiveLanes, Awake, HasCapacity
<1>15. StateSafe'
  BY <1>1, <1>2 DEF IInv, StateSafe, Shut
<1>. QED BY <1>7, <1>9, <1>10, <1>12, <1>13, <1>14, <1>15, LocalStep


\* The order of the next queue is the order of the next priorities.
LEMMA QueueIsSortedNext ==
  ASSUME work' \in [Works -> WorkType], queue' \in Seq(Works), Sorted(queue', Ranks')
  PROVE  QueueByPriority'
<1>. PICK r \in Seq(Works) : r = queue'
  OBVIOUS
<1>1. DOMAIN r = 1 .. Len(r) /\ \A i \in 1 .. Len(r) : r[i] \in Works
  BY LenProperties, ElementOfSeq
<1>2. \A i \in 1 .. Len(r) : Ranks'[r[i]] = Rank(r[i])'
  BY <1>1 DEF Ranks, Rank
<1>3. ASSUME NEW i \in 1 .. Len(r), NEW j \in 1 .. Len(r), i <= j
      PROVE  Rank(r[i])' <= Rank(r[j])'
  BY <1>2, <1>3 DEF Sorted
<1>4. \A i, j \in DOMAIN queue' : i <= j => Rank(queue[i])' <= Rank(queue[j])'
  BY <1>1, <1>3 DEF Rank
<1>. QED BY <1>4 DEF QueueByPriority

LEMMA RanksNext ==
  ASSUME work \in [Works -> WorkType], work' \in [Works -> WorkType],
         NEW q \in Seq(Works), Sorted(q, Ranks),
         \A v \in Works : Contains(q, v) => work'[v].priority = work[v].priority
  PROVE  /\ Ranks' \in [Works -> 1 .. 3] /\ Sorted(q, Ranks')
         /\ \A w \in Works : /\ Ranks'[w] = 1 <=> work'[w].priority = "control"
                             /\ Ranks'[w] = 2 <=> work'[w].priority = "interactive"
                             /\ Ranks'[w] = 3 <=> work'[w].priority = "backlog"
<1>1. \A w \in Works : Ranks'[w] = CASE work'[w].priority = "control"     -> 1
                                     [] work'[w].priority = "interactive" -> 2
                                     [] work'[w].priority = "backlog"     -> 3
  BY DEF Ranks, Rank
<1>2. \A w \in Works : work'[w].priority \in {"control", "interactive", "backlog"}
  BY DEF WorkType
<1>3. /\ Ranks' \in [Works -> 1 .. 3]
      /\ \A w \in Works : /\ Ranks'[w] = 1 <=> work'[w].priority = "control"
                          /\ Ranks'[w] = 2 <=> work'[w].priority = "interactive"
                          /\ Ranks'[w] = 3 <=> work'[w].priority = "backlog"
  <2>1. \A w \in Works : /\ Ranks'[w] \in 1 .. 3
                         /\ Ranks'[w] = 1 <=> work'[w].priority = "control"
                         /\ Ranks'[w] = 2 <=> work'[w].priority = "interactive"
                         /\ Ranks'[w] = 3 <=> work'[w].priority = "backlog"
    BY <1>1, <1>2
  <2>. QED BY <2>1 DEF Ranks
<1>4. \A i \in 1 .. Len(q) : q[i] \in Works /\ Contains(q, q[i])
  BY LenProperties, ElementOfSeq DEF Contains
<1>5. \A i \in 1 .. Len(q) : Ranks'[q[i]] = Ranks[q[i]]
  <2>1. \A w \in Works : Ranks[w] \in 1 .. 3
    BY RankIs
  <2>. QED BY <1>3, <1>4, <2>1, RankIs
<1>6. Sorted(q, Ranks')
  BY <1>5 DEF Sorted
<1>. QED BY <1>3, <1>6

\* What a step that changes the queue leaves in it, each once and in order.
LEMMA QueueKept ==
  ASSUME work \in [Works -> WorkType], work' \in [Works -> WorkType],
         NEW q \in Seq(Works), Distinct(q), Sorted(q, Ranks), queue' = q,
         \A v \in Works : Contains(q, v) => work'[v].priority = work[v].priority
  PROVE  Distinct(queue)' /\ QueueByPriority'
  BY RanksNext, QueueIsSortedNext DEF Distinct

LEMMA RunWorkQueued ==
  ASSUME work \in [Works -> WorkType], work' \in [Works -> WorkType],
         NEW q \in Seq(Works), Distinct(q), Sorted(q, Ranks),
         NEW w \in Works, ~Contains(q, w), NEW p \in {"interactive", "backlog"},
         queue' = InsertRunWork(q, w, p), work'[w].priority = p,
         \A v \in Works : Contains(q, v) => work'[v].priority = work[v].priority
  PROVE  /\ queue' \in Seq(Works) /\ queue' # <<>> /\ Distinct(queue)' /\ QueueByPriority'
         /\ \A v : Contains(queue', v) <=> Contains(q, v) \/ v = w
<1>1. PICK f \in [Works -> 1 .. 3] : f = Ranks'
  BY RanksNext
<1>2. Sorted(q, f)
  BY <1>1, RanksNext
<1>3. f[w] = IF p = "interactive" THEN 2 ELSE 3
  BY <1>1, RanksNext
<1>4. \A v \in Works : Contains(q, v) => (IsBacklog(v) <=> f[v] = 3)
  BY <1>1, RanksNext DEF IsBacklog
<1>5. PICK r : r = queue'
  OBVIOUS
<1>6. /\ r \in Seq(Works) /\ r # <<>> /\ Distinct(r) /\ Sorted(r, f)
      /\ \A v : Contains(r, v) <=> Contains(q, v) \/ v = w
  BY <1>2, <1>3, <1>4, <1>5, RunWorkInserted
<1>. QED BY <1>1, <1>5, <1>6, QueueIsSortedNext DEF Distinct

LEMMA ControlQueued ==
  ASSUME work \in [Works -> WorkType], work' \in [Works -> WorkType],
         NEW q \in Seq(Works), Distinct(q), Sorted(q, Ranks),
         NEW w \in Works, ~Contains(q, w),
         queue' = Cons(w, q), work'[w].priority = "control",
         \A v \in Works : Contains(q, v) => work'[v].priority = work[v].priority
  PROVE  /\ queue' \in Seq(Works) /\ queue' # <<>> /\ Distinct(queue)' /\ QueueByPriority'
         /\ \A v : Contains(queue', v) <=> Contains(q, v) \/ v = w
<1>1. PICK f \in [Works -> 1 .. 3] : f = Ranks'
  BY RanksNext
<1>2. Sorted(q, f) /\ f[w] = 1
  BY <1>1, RanksNext
<1>3. PICK r : r = queue'
  OBVIOUS
<1>4. /\ r \in Seq(Works) /\ r # <<>> /\ Distinct(r) /\ Sorted(r, f)
      /\ \A v : Contains(r, v) <=> Contains(q, v) \/ v = w
  BY <1>2, <1>3, ControlInserted
<1>. QED BY <1>1, <1>3, <1>4, QueueIsSortedNext DEF Distinct


\* A delayed admission becomes runnable again.
LEMMA ReleaseKeeps == ASSUME IInv, NEW w \in Works, Release(w) PROVE IInv'
<1>1. /\ Object(w) /\ T(w) \in Threads /\ w # None /\ state = "running"
      /\ work \in [Works -> WorkType] /\ queue \in Seq(Works)
  BY Typed DEF IInv, TypeOK, ObjectsKnown, Release
<1>. PICK t \in Threads : t = T(w)
  BY <1>1
<1>2. /\ ThreadSafe(t) /\ ObjectSafe(w, t) /\ w \in retry
      /\ queued[t] = w /\ active[t] = None /\ IsRun(w) /\ work[w].uncertain /\ ~Contains(queue, w)
  BY <1>1 DEF IInv, ThreadSafe, ObjectSafe, Release
<1>3. /\ UNCHANGED <<state, work, queued, active, settling, reserved, retained, rerun,
                     burst, task, drains, unsettled, exclusives, unresolved, owed, gaveUp>>
      /\ queue' = InsertRunWork(queue, w, work[w].priority)
      /\ retry' = retry \ {w} /\ timer' = (retry' # {}) /\ kicked' = TRUE
  BY <1>1, <1>2 DEF Release, Kick, ghosts, T, IInv, TypeOK
<1>4. work[w].priority \in {"interactive", "backlog"}
  BY <1>1, <1>2 DEF IInv, ObjectsKnown, WorkType
<1>5. /\ queue' \in Seq(Works) /\ Distinct(queue)' /\ QueueByPriority'
      /\ \A v : Contains(queue', v) <=> Contains(queue, v) \/ v = w
  BY <1>1, <1>2, <1>3, <1>4, RunWorkQueued, QueueIsSorted DEF IInv
<1>6. TypeOK'
  BY <1>3, <1>5 DEF IInv, TypeOK
<1>7. ObjectsKnown'
  BY <1>1, <1>3, <1>5 DEF IInv, ObjectsKnown, Object, T, IsRun
<1>8. Local(t)
  <2>1. \A v \in Works : T(v) # t => v # w
    OBVIOUS
  <2>. QED BY <1>3, <1>5, <2>1 DEF Local, Object, T
<1>9. ThreadSafe(t)'
  <2>1. LaneSafe(t)' /\ ActiveSafe(t)'
    BY <1>2, <1>3 DEF ThreadSafe, LaneSafe, ActiveSafe, Executing, ThreadOf, Object, IsRun, T, HeldByTask
  <2>2. ASSUME NEW v \in Works, Object(v)', T(v)' = t PROVE ObjectSafe(v, t)'
    <3>1. ObjectSafe(v, t)
      BY <1>2, <1>3, <2>2 DEF ThreadSafe, T, Object
    <3>2. v \in retry' => v \in retry /\ v # w
      BY <1>3
    <3>3. Contains(queue', v) => queued'[t] = v /\ active'[t] = None /\ v \notin retry'
      BY <1>2, <1>3, <1>5, <3>1 DEF ObjectSafe
    <3>. QED BY <1>3, <3>1, <3>2, <3>3 DEF ObjectSafe, InLane, IsRun
  <2>3. ASSUME NEW j \in Tasks, task'[j].stage # "idle", ThreadOf(j)' = t PROVE TaskSafe(j, t)'
    <3>1. TaskSafe(j, t)
      BY <1>2, <1>3, <2>3 DEF ThreadSafe, ThreadOf
    <3>. QED BY <1>3, <3>1 DEF TaskSafe, IsRun
  <2>4. WaitSafe(t)'
    BY <1>2, <1>3, <1>5 DEF ThreadSafe, WaitSafe
  <2>5. ASSUME state' \notin Shut, t \in owed' PROVE Covered(t)'
    <3>1. Covered(t)
      BY <1>2, <1>3, <2>5 DEF ThreadSafe
    <3>. QED BY <1>3, <3>1 DEF Covered, IsRun, ThreadOf
  <2>. QED BY <2>1, <2>2, <2>3, <2>4, <2>5 DEF ThreadSafe
<1>10. LanesBounded' /\ Awake'
  BY <1>3 DEF IInv, LanesBounded, ActiveLanes, Awake
<1>11. StateSafe'
  BY <1>1, <1>3 DEF IInv, StateSafe, Shut
<1>. QED BY <1>5, <1>6, <1>7, <1>8, <1>9, <1>10, <1>11, LocalStep
-------------------------------------------------------------------------------
\* Hints.

\* What has not been drawn yet is nowhere.
LEMMA FreshWork ==
  ASSUME IInv, NEW w \in Works, ~Object(w)
  PROVE  /\ ~Contains(queue, w) /\ w \notin retry \cup drains \cup unsettled
         /\ ~(w \in unresolved /\ ~gaveUp) /\ ~HeldByTask(w)
         /\ \A s \in Threads : queued[s] # w /\ active[s] # w /\ reserved[s] # w /\ retained[s] # w
<1>1. /\ ~Contains(queue, w) /\ w \notin retry \cup drains \cup unsettled
      /\ ~(w \in unresolved /\ ~gaveUp) /\ ~HeldByTask(w) /\ w # None
  BY Typed DEF IInv, ObjectsKnown, HeldByTask
<1>2. \A s \in Threads : queued[s] # w /\ active[s] # w /\ reserved[s] # w /\ retained[s] # w
  BY <1>1 DEF IInv, ThreadSafe, LaneSafe, IsRun, Object
<1>. QED BY <1>1, <1>2

LEMMA NewWorkIs ==
  ASSUME IInv, NEW w \in Works, NEW t \in Threads, NEW kind \in {"run", "exclusive"},
         NEW p \in {"control", "interactive", "backlog"}, NewWork(w, t, kind, p)
  PROVE  /\ ~Object(w) /\ work' \in [Works -> WorkType]
         /\ work'[w] = [thread |-> t, kind |-> kind, priority |-> p, uncertain |-> FALSE]
         /\ \A v \in Works \ {w} : work'[v] = work[v]
<1>1. ~Object(w)
  BY DEF NewWork, IsNew, Unused, Object
<1>. DEFINE r == [thread |-> t, kind |-> kind, priority |-> p, uncertain |-> FALSE]
<1>2. r \in WorkType /\ work' = [work EXCEPT ![w] = r]
  BY DEF WorkType, NewWork
<1>. HIDE DEF r
<1>3. work \in [Works -> WorkType]
  BY DEF IInv, TypeOK
<1>. QED BY <1>1, <1>2, <1>3 DEF r


\* A hint opens the lane of t with the new work n, or there is no new work and at
\* most the priority of the run that waits is raised.
Hinted(t, n) ==
    /\ work' \in [Works -> WorkType] /\ queued' \in Lane
    /\ queue' \in Seq(Works) /\ Distinct(queue)' /\ QueueByPriority'
    /\ \A v : Contains(queue', v) <=> Contains(queue, v) \/ (v = n /\ n # None)
    /\ \A v \in Works \ {n} :
          /\ T(v)' = T(v) /\ (IsRun(v)' <=> IsRun(v)) /\ (Object(v)' <=> Object(v))
          /\ work'[v].uncertain = work[v].uncertain
          /\ \/ work'[v] = work[v]
             \/ T(v) = t /\ IsRun(v) /\ work'[v].priority = "interactive"
    /\ queued'[t] = IF n = None THEN queued[t] ELSE n
    /\ \A s \in Threads \ {t} : queued'[s] = queued[s]
    /\ unsettled' = unsettled \cup ({n} \ {None})
    /\ n # None => /\ ~Object(n) /\ work'[n].thread = t /\ work'[n].kind = "run"
                   /\ work'[n].priority # "control" /\ work'[n].uncertain = FALSE
                   /\ queued[t] = None /\ queue' # <<>>

LEMMA NewLaneIs ==
  ASSUME IInv, NEW t \in Threads, queued[t] = None, NEW p \in {"interactive", "backlog"}, NEW hints,
         NewLane(t, p, hints)
  PROVE  /\ rerun' = hints
         /\ \E n \in Works : Hinted(t, n) /\ \A v \in Works \ {n} : work'[v] = work[v]
<1>. PICK n \in Works : /\ NewWork(n, t, "run", p)
                        /\ queue' = InsertRunWork(queue, n, p)
                        /\ queued' = [queued EXCEPT ![t] = n]
                        /\ unsettled' = unsettled \cup {n}
                        /\ rerun' = hints
  BY DEF NewLane
<1>1. /\ ~Object(n) /\ work' \in [Works -> WorkType]
      /\ work'[n].thread = t /\ work'[n].kind = "run" /\ work'[n].priority = p
      /\ work'[n].uncertain = FALSE
      /\ \A v \in Works \ {n} : work'[v] = work[v]
  <2>1. p \in {"control", "interactive", "backlog"}
    OBVIOUS
  <2>2. /\ ~Object(n) /\ work' \in [Works -> WorkType]
        /\ work'[n] = [thread |-> t, kind |-> "run", priority |-> p, uncertain |-> FALSE]
        /\ \A v \in Works \ {n} : work'[v] = work[v]
    BY <2>1, NewWorkIs
  <2>. QED BY <2>2
<1>2. ~Contains(queue, n) /\ n # None
  BY <1>1, FreshWork, Typed DEF IInv
<1>3. work \in [Works -> WorkType] /\ queue \in Seq(Works) /\ Sorted(queue, Ranks) /\ Distinct(queue)
  BY QueueIsSorted DEF IInv, TypeOK
<1>4. /\ queue' \in Seq(Works) /\ queue' # <<>> /\ Distinct(queue)' /\ QueueByPriority'
      /\ \A v : Contains(queue', v) <=> Contains(queue, v) \/ v = n
  BY <1>1, <1>2, <1>3, RunWorkQueued
<1>5. queued' \in Lane /\ queued'[t] = n /\ \A s \in Threads \ {t} : queued'[s] = queued[s]
  BY DEF IInv, TypeOK, Lane
<1>6. Hinted(t, n)
  BY <1>1, <1>2, <1>4, <1>5 DEF Hinted, T, IsRun, Object
<1>. QED BY <1>1, <1>6

LEMMA CoalesceIs ==
  ASSUME IInv, NEW t \in Threads, queued[t] # None, NEW p \in {"interactive", "backlog"}, NEW hints,
         Coalesce(t, p, hints)
  PROVE  rerun' = hints /\ Hinted(t, None) /\ IsRun(queued[t])'
<1>. PICK w \in Works : w = queued[t]
  BY Typed DEF IInv
<1>1. /\ IsRun(w) /\ T(w) = t /\ Object(w) /\ rerun' = hints /\ queued' = queued /\ unsettled' = unsettled
  BY DEF Coalesce, IsRun, IInv, ThreadSafe, LaneSafe
<1>2. /\ work \in [Works -> WorkType] /\ queue \in Seq(Works) /\ Sorted(queue, Ranks)
      /\ Distinct(queue) /\ None \notin Works /\ queued \in Lane
  BY QueueIsSorted, Typed DEF IInv, TypeOK
<1>5. ASSUME work' \in [Works -> WorkType], queue' \in Seq(Works), Distinct(queue)', QueueByPriority',
             \A v : Contains(queue', v) <=> Contains(queue, v),
             \A v \in Works : /\ T(v)' = T(v) /\ (IsRun(v)' <=> IsRun(v)) /\ (Object(v)' <=> Object(v))
                              /\ work'[v].uncertain = work[v].uncertain
                              /\ \/ work'[v] = work[v]
                                 \/ T(v) = t /\ IsRun(v) /\ work'[v].priority = "interactive"
      PROVE  rerun' = hints /\ Hinted(t, None) /\ IsRun(queued[t])'
  <2>1. Hinted(t, None)
    <3>1. \A v \in Works \ {None} :
             /\ T(v)' = T(v) /\ (IsRun(v)' <=> IsRun(v)) /\ (Object(v)' <=> Object(v))
             /\ work'[v].uncertain = work[v].uncertain
             /\ \/ work'[v] = work[v]
                \/ T(v) = t /\ IsRun(v) /\ work'[v].priority = "interactive"
      BY <1>5
    <3>2. queued' \in Lane /\ unsettled' = unsettled \cup ({None} \ {None})
      BY <1>1, <1>2
    <3>3. \A v : Contains(queue', v) <=> Contains(queue, v) \/ (v = None /\ None # None)
      BY <1>5
    <3>4. queued'[t] = (IF None = None THEN queued[t] ELSE None)
      BY <1>1
    <3>5. \A s \in Threads \ {t} : queued'[s] = queued[s]
      BY <1>1
    <3>. QED BY <1>5, <3>1, <3>2, <3>3, <3>4, <3>5 DEF Hinted
  <2>2. IsRun(w)'
    BY <1>1, <1>5
  <2>. QED BY <1>1, <2>1, <2>2 DEF IsRun
<1>3. CASE ~(p = "interactive" /\ IsBacklog(w))
  <2>1. work' = work /\ queue' = queue
    BY <1>3 DEF Coalesce
  <2>2. Distinct(queue)' /\ QueueByPriority'
    BY <1>2, <2>1, QueueKept
  <2>. QED BY <1>1, <1>2, <1>5, <2>1, <2>2 DEF T, IsRun, Object
<1>4. CASE p = "interactive" /\ IsBacklog(w)
  <2>1. /\ work' = [work EXCEPT ![w].priority = "interactive"]
        /\ queue' = IF Contains(queue, w)
                    THEN InsertRunWork(RemoveFirst(queue, w), w, "interactive") ELSE queue
    BY <1>4 DEF Coalesce
  <2>2. /\ work' \in [Works -> WorkType] /\ \A v \in Works \ {w} : work'[v] = work[v]
        /\ work'[w].priority = "interactive" /\ work'[w].thread = work[w].thread
        /\ work'[w].kind = work[w].kind /\ work'[w].uncertain = work[w].uncertain
    BY <1>2, <2>1 DEF WorkType
  <2>3. CASE Contains(queue, w)
    <3>. PICK q : q = RemoveFirst(queue, w)
      OBVIOUS
    <3>1. /\ q \in Seq(Works) /\ Distinct(q) /\ Sorted(q, Ranks)
          /\ \A v : Contains(q, v) <=> Contains(queue, v) /\ v # w
      BY <1>2, FirstRemoved, RankIs
    <3>2. \A v \in Works : Contains(q, v) => work'[v].priority = work[v].priority
      BY <2>2, <3>1
    <3>3. queue' = InsertRunWork(q, w, "interactive")
      BY <2>1, <2>3
    <3>4. /\ queue' \in Seq(Works) /\ Distinct(queue)' /\ QueueByPriority'
          /\ \A v : Contains(queue', v) <=> Contains(q, v) \/ v = w
      BY <1>2, <2>2, <3>1, <3>2, <3>3, RunWorkQueued
    <3>5. \A v : Contains(queue', v) <=> Contains(queue, v)
      BY <2>3, <3>1, <3>4
    <3>. QED BY <1>1, <1>2, <1>5, <2>2, <3>4, <3>5 DEF T, IsRun, Object
  <2>4. CASE ~Contains(queue, w)
    <3>1. Distinct(queue)' /\ QueueByPriority' /\ queue' = queue
      BY <1>2, <2>1, <2>2, <2>4, QueueKept
    <3>. QED BY <1>1, <1>2, <1>5, <2>2, <3>1 DEF T, IsRun, Object
  <2>. QED BY <2>3, <2>4
<1>. QED BY <1>3, <1>4


\* A settlement callback of t may end with the hint.
TasksStay(t) ==
    /\ task' \in [Tasks -> TaskType]
    /\ \A j \in Tasks :
          /\ task'[j].work = task[j].work /\ task'[j].again = task[j].again
          /\ \/ task'[j] = task[j]
             \/ task[j].stage = "runnable" /\ task'[j].stage = "capacity" /\ ThreadOf(j) = t

LEMMA HintIs ==
  ASSUME IInv, NEW t \in Threads, NEW p \in {"interactive", "backlog"}, Hint(t, p)
  PROVE  \E n \in Works \cup {None} :
            /\ Hinted(t, n) /\ (n # None => active[t] = None)
            /\ kicked' = (kicked \/ (n # None /\ state = "running"))
            /\ \/ rerun' = rerun /\ queued'[t] # None /\ IsRun(queued[t])'
               \/ rerun' = rerun \cup {t} /\ n = None /\ (active[t] # None \/ queued[t] # None)
<1>1. kicked' = (IF queued[t] = None /\ active[t] = None THEN (kicked \/ state = "running") ELSE kicked)
  BY DEF Hint, Kick
<1>2. None \notin Works /\ kicked \in BOOLEAN
  BY Typed DEF IInv, TypeOK
<1>3. ASSUME Remember(t, rerun) PROVE Hinted(t, None) /\ rerun' = rerun \cup {t}
  <2>1. UNCHANGED <<work, queue, queued, unsettled>> /\ rerun' = rerun \cup {t}
    BY <1>3 DEF Remember
  <2>2. /\ work \in [Works -> WorkType] /\ queue \in Seq(Works) /\ queued \in Lane
        /\ Distinct(queue)' /\ QueueByPriority'
    BY <2>1 DEF IInv, TypeOK, Distinct, QueueByPriority, Rank
  <2>. QED BY <1>2, <2>1, <2>2 DEF Hinted, T, IsRun, Object
<1>4. CASE queued[t] # None /\ work[queued[t]].kind = "exclusive"
  <2>1. Remember(t, rerun)
    BY <1>4 DEF Hint, Scheduled
  <2>. QED BY <1>1, <1>2, <1>3, <1>4, <2>1
<1>5. CASE queued[t] # None /\ work[queued[t]].kind # "exclusive"
  <2>1. Coalesce(t, p, rerun)
    BY <1>5 DEF Hint, Scheduled
  <2>2. rerun' = rerun /\ Hinted(t, None) /\ IsRun(queued[t])'
    BY <1>5, <2>1, CoalesceIs
  <2>3. queued'[t] = queued[t]
    BY <2>2 DEF Hinted
  <2>. QED BY <1>1, <1>2, <1>5, <2>2, <2>3
<1>6. CASE queued[t] = None /\ active[t] # None
  <2>1. Remember(t, rerun)
    BY <1>6 DEF Hint, Scheduled
  <2>. QED BY <1>1, <1>2, <1>3, <1>6, <2>1
<1>7. CASE queued[t] = None /\ active[t] = None
  <2>1. NewLane(t, p, rerun)
    BY <1>7 DEF Hint, Scheduled
  <2>. PICK n \in Works : Hinted(t, n) /\ rerun' = rerun
    BY <1>7, <2>1, NewLaneIs
  <2>2. queued'[t] = n /\ n # None /\ work'[n].kind = "run"
    BY <1>2 DEF Hinted
  <2>3. IsRun(queued[t])'
    BY <2>2 DEF IsRun
  <2>. QED BY <1>1, <1>2, <1>7, <2>2, <2>3
<1>. QED BY <1>4, <1>5, <1>6, <1>7

LEMMA HintKeeps ==
  ASSUME IInv, NEW t \in Threads, NEW p \in {"interactive", "backlog"}, Hint(t, p), TasksStay(t),
         state \in {"idle", "running"},
         UNCHANGED <<state, retry, timer, active, settling, reserved, retained, burst,
                     drains, exclusives, unresolved, gaveUp>>
  PROVE  IInv'
<1>. PICK n \in Works \cup {None} :
         /\ Hinted(t, n) /\ (n # None => active[t] = None)
         /\ kicked' = (kicked \/ (n # None /\ state = "running"))
         /\ \/ rerun' = rerun /\ queued'[t] # None /\ IsRun(queued[t])'
            \/ rerun' = rerun \cup {t} /\ n = None /\ (active[t] # None \/ queued[t] # None)
  BY HintIs
<1>1. /\ ThreadSafe(t) /\ state \notin Shut /\ owed' = owed \cup {t} /\ None \notin Works
      /\ kicked \in BOOLEAN
  BY Typed DEF IInv, TypeOK, Shut, Hint
<1>2. n # None => /\ n \in Works /\ ~Contains(queue, n) /\ n \notin retry \cup drains \cup unsettled
                  /\ ~(n \in unresolved /\ ~gaveUp) /\ ~HeldByTask(n)
                  /\ \A s \in Threads : queued[s] # n /\ active[s] # n /\ reserved[s] # n /\ retained[s] # n
  BY FreshWork DEF Hinted
<1>3. TypeOK'
  <2>1. rerun' \subseteq Threads /\ owed' \subseteq Threads /\ unsettled' \subseteq Works /\ kicked' \in BOOLEAN
    BY <1>1 DEF IInv, TypeOK, Hinted
  <2>. QED BY <2>1 DEF IInv, TypeOK, Hinted, TasksStay
<1>4. ASSUME NEW v \in Works, v # n
      PROVE  /\ T(v)' = T(v) /\ (IsRun(v)' <=> IsRun(v)) /\ (Object(v)' <=> Object(v))
             /\ work'[v].uncertain = work[v].uncertain
             /\ work'[v] = work[v] \/ (T(v) = t /\ IsRun(v) /\ work'[v].priority = "interactive")
  BY <1>4 DEF Hinted
<1>5. ASSUME NEW j \in Tasks, task[j].stage # "idle"
      PROVE  task[j].work \in Works /\ task[j].work # n /\ Object(task[j].work)
             /\ ThreadOf(j)' = ThreadOf(j) /\ Object(task[j].work)'
  <2>1. task[j].work \in Works /\ Object(task[j].work)
    BY <1>5 DEF IInv, ObjectsKnown
  <2>2. task[j].work # n
    BY <1>1, <1>2, <1>5, <2>1 DEF HeldByTask
  <2>3. task'[j].work = task[j].work
    BY DEF TasksStay
  <2>. QED BY <1>4, <2>1, <2>2, <2>3 DEF ThreadOf, T
<1>6. ASSUME NEW j \in Tasks
      PROVE  /\ task'[j].work = task[j].work /\ task'[j].again = task[j].again
             /\ task'[j].stage = "idle" <=> task[j].stage = "idle"
             /\ task'[j].stage = "running" <=> task[j].stage = "running"
             /\ task'[j].stage = "replay" <=> task[j].stage = "replay"
  BY DEF TasksStay
<1>7. ObjectsKnown'
  <2>1. ASSUME NEW v \in Works
        PROVE  /\ Object(v)' => T(v)' \in Threads
               /\ ~IsRun(v)' => ~work'[v].uncertain
               /\ Object(v)' => (IsRun(v)' <=> work'[v].priority # "control")
    <3>1. CASE v = n
      BY <1>1, <3>1 DEF Hinted, Object, T, IsRun
    <3>2. CASE v # n
      BY <1>4, <3>2 DEF IInv, ObjectsKnown
    <3>. QED BY <3>1, <3>2
  <2>2. ASSUME NEW v \in Works,
               \/ Contains(queue', v) \/ v \in retry' \cup drains' \cup unsettled'
               \/ v \in unresolved' /\ ~gaveUp'
        PROVE  Object(v)'
    <3>1. CASE v = n
      BY <1>1, <3>1 DEF Hinted, Object
    <3>2. CASE v # n
      BY <1>4, <2>2, <3>2 DEF IInv, ObjectsKnown, Hinted
    <3>. QED BY <3>1, <3>2
  <2>3. \A j \in Tasks : task'[j].stage # "idle" => task'[j].work \in Works /\ Object(task[j].work)'
    BY <1>5, <1>6
  <2>4. \A j \in Tasks : task'[j].stage # "idle" => task'[j].work \in Works /\ work'[task'[j].work].kind # "free"
    BY <1>6, <2>3 DEF Object
  <2>. QED BY <2>1, <2>2, <2>4 DEF ObjectsKnown, Object
<1>8. Local(t)
  <2>1. ASSUME NEW v \in Works, Object(v), T(v) # t
        PROVE  /\ v # n /\ work'[v] = work[v] /\ (Contains(queue', v) <=> Contains(queue, v))
               /\ v \in unsettled' => v \in unsettled
    <3>1. v # n
      BY <1>1, <2>1 DEF Hinted
    <3>. QED BY <1>4, <2>1, <3>1 DEF Hinted
  <2>2. \A v \in Works : Object(v)' /\ T(v)' # t => Object(v) /\ T(v) # t
    BY <1>1, <1>4 DEF Hinted, T
  <2>3. ASSUME NEW j \in Tasks
        PROVE  \/ task'[j] = task[j]
               \/ /\ task[j].stage = "idle" \/ ThreadOf(j) = t
                  /\ task'[j].stage = "idle" \/ ThreadOf(j)' = t
    BY <1>5 DEF TasksStay
  <2>. QED BY <1>1, <2>1, <2>2, <2>3 DEF Local, Hinted
<1>9. ThreadSafe(t)'
  <2>1. \A v : HeldByTask(v)' <=> HeldByTask(v)
    BY <1>6 DEF HeldByTask
  <2>2. LaneSafe(t)'
    <3>1. CASE n = None
      BY <1>1, <1>4, <2>1, <3>1, Typed DEF IInv, ThreadSafe, LaneSafe, Hinted, IsRun, Object, T
    <3>2. CASE n # None
      BY <1>1, <1>2, <1>4, <2>1, <3>2, Typed DEF IInv, ThreadSafe, LaneSafe, Hinted, IsRun, Object, T
    <3>. QED BY <3>1, <3>2
  <2>3. ASSUME NEW v \in Works, Object(v)', T(v)' = t PROVE ObjectSafe(v, t)'
    <3>1. CASE v = n
      <4>1. /\ queued'[t] = v /\ active'[t] = None /\ v \notin retry' /\ v \notin drains'
            /\ ~(~gaveUp' /\ v \in unresolved')
        BY <1>1, <1>2, <3>1 DEF Hinted
      <4>. QED BY <4>1 DEF ObjectSafe, InLane
    <3>2. CASE v # n
      <4>1. ObjectSafe(v, t) /\ (Contains(queue', v) <=> Contains(queue, v))
            /\ (v \in unsettled' <=> v \in unsettled)
        BY <1>1, <1>4, <2>3, <3>2 DEF ThreadSafe, Hinted
      <4>2. active[t] # None => (IsRun(active[t])' <=> IsRun(active[t]))
        <5>1. active[t] # None => active[t] \in Works /\ active[t] # n
          BY <1>2, Typed DEF IInv
        <5>. QED BY <1>4, <5>1 DEF IsRun
      <4>3. InLane(v, t) => InLane(v, t)'
        BY <1>1, <3>2, Typed DEF InLane, Hinted, IInv
      <4>4. queued[t] = v => queued'[t] = v
        BY <1>1, Typed DEF Hinted, IInv
      <4>5. IsRun(v)' <=> IsRun(v)
        BY <1>4, <3>2
      <4>6. work'[v].uncertain = work[v].uncertain
        BY <1>4, <3>2
      <4>. QED BY <1>6, <4>1, <4>2, <4>3, <4>4, <4>5, <4>6 DEF ObjectSafe
    <3>. QED BY <3>1, <3>2
  <2>4. ASSUME NEW j \in Tasks, task'[j].stage # "idle", ThreadOf(j)' = t PROVE TaskSafe(j, t)'
    <3>1. TaskSafe(j, t)
      BY <1>1, <1>5, <1>6, <2>4 DEF ThreadSafe
    <3>. QED BY <1>1, <1>6, <3>1 DEF TaskSafe
  <2>5. ActiveSafe(t)'
    <3>1. Executing' = Executing
      BY <1>6 DEF Executing
    <3>2. \A j \in Executing : j \in Tasks /\ task'[j].work = task[j].work /\ ThreadOf(j)' = ThreadOf(j)
      BY <1>5, <1>6 DEF Executing
    <3>. QED BY <1>1, <3>1, <3>2 DEF ThreadSafe, ActiveSafe
  <2>6. WaitSafe(t)'
    <3>1. CASE n = None
      BY <1>1, <3>1 DEF ThreadSafe, WaitSafe, Hinted
    <3>2. CASE n # None
      BY <1>1, <3>2 DEF WaitSafe, Hinted
    <3>. QED BY <3>1, <3>2
  <2>7. Covered(t)'
    BY DEF Covered
  <2>. QED BY <2>2, <2>3, <2>4, <2>5, <2>6, <2>7 DEF ThreadSafe
<1>10. LanesBounded' /\ Awake'
  <2>1. ActiveLanes' = ActiveLanes
    BY DEF ActiveLanes
  <2>2. n = None /\ queue' # <<>> => queue # <<>>
    <3>. SUFFICES ASSUME n = None, queue' # <<>> PROVE queue # <<>>
      OBVIOUS
    <3>1. Len(queue') \in Nat /\ Len(queue') # 0
      BY <1>3, LenProperties, EmptySeq DEF TypeOK
    <3>2. Contains(queue', queue'[1])
      BY <3>1 DEF Contains
    <3>3. Contains(queue, queue'[1])
      BY <3>2 DEF Hinted
    <3>. QED BY <3>3 DEF Contains
  <2>. QED BY <1>1, <2>1, <2>2 DEF IInv, LanesBounded, Awake, HasCapacity
<1>11. StateSafe'
  <2>1. state = "idle" => \A v \in Works : ~work'[v].uncertain
    BY <1>1, <1>4 DEF IInv, StateSafe, Hinted
  <2>. QED BY <1>1, <1>6, <2>1 DEF IInv, StateSafe, Shut
<1>12. Distinct(queue)' /\ QueueByPriority'
  BY DEF Hinted
<1>. QED BY <1>3, <1>7, <1>8, <1>9, <1>10, <1>11, <1>12, LocalStep


LEMMA ScheduleKeeps ==
  ASSUME IInv, NEW t \in Threads, NEW p \in {"interactive", "backlog"}, Schedule(t, p)
  PROVE  IInv'
<1>1. TasksStay(t)
  BY DEF TasksStay, Schedule, IInv, TypeOK
<1>. QED BY <1>1, HintKeeps DEF Schedule

LEMMA ReconcileKeeps == ASSUME IInv, NEW k \in Tasks, Reconcile(k) PROVE IInv'
<1>1. CASE state # "running"
  BY <1>1, ReconcileLateKeeps
<1>2. CASE state = "running"
  <2>. PICK t \in Threads : t = ThreadOf(k)
    BY TaskThread DEF Reconcile
  <2>1. Hint(t, "interactive") /\ task' = [task EXCEPT ![k].stage = "capacity"] /\ task[k].stage = "runnable"
    BY <1>2 DEF Reconcile, ThreadOf
  <2>2. TasksStay(t)
    BY <2>1 DEF TasksStay, IInv, TypeOK, TaskType
  <2>. QED BY <1>2, <2>1, <2>2, HintKeeps DEF Reconcile
<1>. QED BY <1>1, <1>2
-------------------------------------------------------------------------------
\* Exclusive operations.

\* The exclusive operation w takes the lane of t or waits behind its run, and a run
\* that waits gives way: it is retained, or forgotten with its hint remembered.
LEMMA ExclusiveTakes ==
  ASSUME IInv, NEW t \in Threads, RunExclusively(t)
  PROVE  \E w \in Works :
           /\ ~Object(w) /\ work' \in [Works -> WorkType]
           /\ work'[w] = [thread |-> t, kind |-> "exclusive", priority |-> "control", uncertain |-> FALSE]
           /\ queued' = [queued EXCEPT ![t] = w] /\ w \in unsettled'
           /\ queue' \in Seq(Works) /\ Distinct(queue)' /\ QueueByPriority'
           /\ retained[t] = None /\ reserved[t] = None
           /\ \/ /\ active[t] # None /\ IsRun(active[t]) /\ queued[t] = None
                 /\ \A v \in Works \ {w} : work'[v] = work[v]
                 /\ reserved' = [reserved EXCEPT ![t] = w]
                 /\ unsettled' = unsettled \cup {w}
                 /\ UNCHANGED <<queue, retry, timer, retained, rerun>>
              \/ /\ active[t] = None /\ queued[t] = None
                 /\ \A v \in Works \ {w} : work'[v] = work[v]
                 /\ \A v : Contains(queue', v) <=> Contains(queue, v) \/ v = w
                 /\ unsettled' = unsettled \cup {w}
                 /\ UNCHANGED <<retry, timer, reserved, retained, rerun>>
              \/ /\ active[t] = None /\ queued[t] \in Works /\ IsRun(queued[t])
                 /\ \A v \in Works \ {w, queued[t]} : work'[v] = work[v]
                 /\ \A v : Contains(queue', v) <=> (Contains(queue, v) /\ v # queued[t]) \/ v = w
                 /\ retry' = retry \ {queued[t]} /\ (retry' # {} => timer') /\ timer' \in BOOLEAN
                 /\ reserved' = reserved
                 /\ \/ /\ work[queued[t]].uncertain
                       /\ retained' = [retained EXCEPT ![t] = queued[t]]
                       /\ work'[queued[t]] = work[queued[t]]
                       /\ unsettled' = unsettled \cup {w}
                       /\ rerun' = rerun
                    \/ /\ ~work[queued[t]].uncertain
                       /\ retained' = retained
                       /\ work'[queued[t]] = Blank
                       /\ unsettled' = (unsettled \ {queued[t]}) \cup {w}
                       /\ rerun' = rerun \cup {t}
<1>. PICK w \in Works : /\ ReserveLane(t, w) \/ Supersede(t, w) \/ TakeIdleLane(t, w)
                        /\ queued' = [queued EXCEPT ![t] = w]
  BY DEF RunExclusively
<1>. DEFINE new == [thread |-> t, kind |-> "exclusive", priority |-> "control", uncertain |-> FALSE]
<1>1. /\ LaneSafe(t) /\ reserved[t] = None /\ None \notin Works /\ state = "running"
      /\ work \in [Works -> WorkType] /\ queue \in Seq(Works) /\ Sorted(queue, Ranks) /\ Distinct(queue)
      /\ retry \subseteq Works /\ timer \in BOOLEAN /\ (retry # {} => timer)
      /\ queued[t] \in Works \cup {None} /\ active[t] \in Works \cup {None}
      /\ new \in WorkType /\ new.priority = "control"
      /\ active[t] # None => work[active[t]].kind # "exclusive"
      /\ queued[t] # None => work[queued[t]].kind # "exclusive"
  BY QueueIsSorted, Typed DEF IInv, TypeOK, ThreadSafe, RunExclusively, WorkType, Awake
<1>2. /\ active[t] # None => IsRun(active[t]) /\ queued[t] = None /\ retained[t] = None
      /\ queued[t] # None => IsRun(queued[t]) /\ (active[t] = None => retained[t] = None)
      /\ queued[t] = None /\ active[t] = None => retained[t] = None
  BY <1>1, Typed DEF LaneSafe, IsRun, Object, WorkType, IInv
<1>3. CASE ReserveLane(t, w)
  <2>1. /\ ~Object(w) /\ work' \in [Works -> WorkType] /\ work'[w] = new
        /\ \A v \in Works \ {w} : work'[v] = work[v]
    BY <1>3, NewWorkIs DEF ReserveLane
  <2>2. queue' = queue /\ active[t] # None
    BY <1>3 DEF ReserveLane
  <2>3. ~Contains(queue, w)
    BY <2>1, FreshWork
  <2>4. Distinct(queue)' /\ QueueByPriority'
    BY <1>1, <2>1, <2>2, <2>3, QueueKept
  <2>. QED BY <1>1, <1>2, <1>3, <2>1, <2>2, <2>4 DEF ReserveLane
<1>4. CASE TakeIdleLane(t, w)
  <2>1. /\ ~Object(w) /\ work' \in [Works -> WorkType] /\ work'[w] = new
        /\ \A v \in Works \ {w} : work'[v] = work[v]
    BY <1>4, NewWorkIs DEF TakeIdleLane
  <2>2. queue' = Cons(w, queue) /\ active[t] = None /\ queued[t] = None
    BY <1>4 DEF TakeIdleLane
  <2>3. ~Contains(queue, w)
    BY <2>1, FreshWork
  <2>4. \A v \in Works : Contains(queue, v) => work'[v].priority = work[v].priority
    BY <2>1, <2>3
  <2>5. /\ queue' \in Seq(Works) /\ Distinct(queue)' /\ QueueByPriority'
        /\ \A v : Contains(queue', v) <=> Contains(queue, v) \/ v = w
    BY <1>1, <2>1, <2>2, <2>3, <2>4, ControlQueued
  <2>. QED BY <1>1, <1>2, <1>4, <2>1, <2>2, <2>5 DEF TakeIdleLane
<1>5. CASE Supersede(t, w)
  <2>. PICK run \in Works : run = queued[t]
    BY <1>1, <1>5 DEF Supersede
  <2>1. /\ active[t] = None /\ IsNew(w) /\ queue' = Cons(w, RemoveFirst(queue, run))
        /\ retry' = retry \ {run} /\ timer' = (IF run \in retry THEN retry' # {} ELSE timer)
        /\ reserved' = reserved
        /\ IF work[run].uncertain
           THEN /\ retained' = [retained EXCEPT ![t] = run]
                /\ work' = [work EXCEPT ![w] = new]
                /\ unsettled' = unsettled \cup {w}
                /\ rerun' = rerun
           ELSE /\ rerun' = rerun \cup {t}
                /\ work' = [work EXCEPT ![w] = new, ![run] = Blank]
                /\ unsettled' = (unsettled \ {run}) \cup {w}
                /\ retained' = retained
    BY <1>5 DEF Supersede
  <2>2. ~Object(w) /\ ~Contains(queue, w) /\ w # run
    BY <1>1, <2>1, FreshWork DEF IsNew, Unused, Object
  <2>. HIDE DEF new
  <2>3. /\ work' \in [Works -> WorkType] /\ work'[w] = new
        /\ \A v \in Works \ {w, run} : work'[v] = work[v]
        /\ work'[run] = IF work[run].uncertain THEN work[run] ELSE Blank
    BY <1>1, <2>1, <2>2, BlankTyped
  <2>. PICK q : q = RemoveFirst(queue, run)
    OBVIOUS
  <2>4. /\ q \in Seq(Works) /\ Distinct(q) /\ Sorted(q, Ranks)
        /\ \A v : Contains(q, v) <=> Contains(queue, v) /\ v # run
    BY <1>1, FirstRemoved, RankIs
  <2>5. \A v \in Works : Contains(q, v) => work'[v].priority = work[v].priority
    BY <2>2, <2>3, <2>4
  <2>6. ~Contains(q, w) /\ queue' = Cons(w, q) /\ work'[w].priority = "control"
    BY <1>1, <2>1, <2>2, <2>3, <2>4
  <2>7. /\ queue' \in Seq(Works) /\ Distinct(queue)' /\ QueueByPriority'
        /\ \A v : Contains(queue', v) <=> Contains(q, v) \/ v = w
    BY <1>1, <2>3, <2>4, <2>5, <2>6, ControlQueued
  <2>8. (retry' # {} => timer') /\ timer' \in BOOLEAN
    BY <1>1, <2>1
  <2>9. \A v : Contains(queue', v) <=> (Contains(queue, v) /\ v # run) \/ v = w
    BY <2>4, <2>7
  <2>10. w \in unsettled' /\ retained[t] = None /\ IsRun(run)
    BY <1>1, <1>2, <2>1
  <2>. QED BY <1>1, <2>1, <2>2, <2>3, <2>7, <2>8, <2>9, <2>10 DEF new
<1>. QED BY <1>3, <1>4, <1>5


LEMMA ExclusiveKeeps == ASSUME IInv, NEW t \in Threads, RunExclusively(t) PROVE IInv'
<1>. PICK w \in Works :
       /\ ~Object(w) /\ work' \in [Works -> WorkType]
       /\ work'[w] = [thread |-> t, kind |-> "exclusive", priority |-> "control", uncertain |-> FALSE]
       /\ queued' = [queued EXCEPT ![t] = w] /\ w \in unsettled'
       /\ queue' \in Seq(Works) /\ Distinct(queue)' /\ QueueByPriority'
       /\ retained[t] = None /\ reserved[t] = None
       /\ \/ /\ active[t] # None /\ IsRun(active[t]) /\ queued[t] = None
             /\ \A v \in Works \ {w} : work'[v] = work[v]
             /\ reserved' = [reserved EXCEPT ![t] = w]
             /\ unsettled' = unsettled \cup {w}
             /\ UNCHANGED <<queue, retry, timer, retained, rerun>>
          \/ /\ active[t] = None /\ queued[t] = None
             /\ \A v \in Works \ {w} : work'[v] = work[v]
             /\ \A v : Contains(queue', v) <=> Contains(queue, v) \/ v = w
             /\ unsettled' = unsettled \cup {w}
             /\ UNCHANGED <<retry, timer, reserved, retained, rerun>>
          \/ /\ active[t] = None /\ queued[t] \in Works /\ IsRun(queued[t])
             /\ \A v \in Works \ {w, queued[t]} : work'[v] = work[v]
             /\ \A v : Contains(queue', v) <=> (Contains(queue, v) /\ v # queued[t]) \/ v = w
             /\ retry' = retry \ {queued[t]} /\ (retry' # {} => timer') /\ timer' \in BOOLEAN
             /\ reserved' = reserved
             /\ \/ /\ work[queued[t]].uncertain
                   /\ retained' = [retained EXCEPT ![t] = queued[t]]
                   /\ work'[queued[t]] = work[queued[t]]
                   /\ unsettled' = unsettled \cup {w}
                   /\ rerun' = rerun
                \/ /\ ~work[queued[t]].uncertain
                   /\ retained' = retained
                   /\ work'[queued[t]] = Blank
                   /\ unsettled' = (unsettled \ {queued[t]}) \cup {w}
                   /\ rerun' = rerun \cup {t}
  BY ExclusiveTakes
<1>. DEFINE WaitsBehind == /\ active[t] # None /\ queued[t] = None
                           /\ UNCHANGED <<queue, retry, timer, retained, rerun>>
                           /\ reserved'[t] = w
            TakesIdle   == /\ active[t] = None /\ queued[t] = None
                           /\ UNCHANGED <<retry, timer, reserved, retained, rerun>>
            Retains     == /\ active[t] = None /\ queued[t] # None /\ work[queued[t]].uncertain
                           /\ retained'[t] = queued[t] /\ UNCHANGED <<reserved, rerun>>
            Forgets     == /\ active[t] = None /\ queued[t] # None /\ ~work[queued[t]].uncertain
                           /\ rerun' = rerun \cup {t} /\ UNCHANGED <<reserved, retained>>
                           /\ queued[t] \notin unsettled'
            Gone(v)     == v = queued[t] /\ Forgets
<1>1. /\ ThreadSafe(t) /\ state = "running" /\ drains = {} /\ None \notin Works /\ work \in [Works -> WorkType]
      /\ ~Contains(queue, w) /\ w \notin retry \cup drains \cup unsettled
      /\ ~(w \in unresolved /\ ~gaveUp) /\ ~HeldByTask(w)
      /\ \A s \in Threads : queued[s] # w /\ active[s] # w /\ reserved[s] # w /\ retained[s] # w
  BY FreshWork, Typed DEF IInv, StateSafe, Shut, TypeOK, RunExclusively
<1>2. /\ UNCHANGED <<state, active, settling, burst, task, drains, unresolved, owed, gaveUp>>
      /\ exclusives' \in 0 .. MaxExclusive /\ kicked' = TRUE
      /\ queued'[t] = w /\ queued' \in Lane /\ reserved' \in Lane /\ retained' \in Lane
      /\ retry' \subseteq retry /\ timer' \in BOOLEAN /\ (retry' # {} => timer')
      /\ unsettled' \subseteq unsettled \cup {w} /\ rerun' \subseteq Threads
  <2>1. exclusives' \in 0 .. MaxExclusive /\ kicked' = TRUE
    <3>1. kicked' = TRUE
      BY <1>1 DEF RunExclusively, Kick
    <3>2. exclusives \in 0 .. MaxExclusive /\ exclusives < MaxExclusive /\ exclusives' = exclusives + 1
      BY DEF RunExclusively, IInv, TypeOK
    <3>. QED BY <3>1, <3>2, ThreadSchedulerAssumption
  <2>2. queued \in Lane /\ reserved \in Lane /\ retained \in Lane
    BY DEF IInv, TypeOK
  <2>3. queued'[t] = w /\ queued' \in Lane /\ reserved' \in Lane /\ retained' \in Lane
    BY <2>2 DEF Lane
  <2>4. timer \in BOOLEAN /\ (retry # {} => timer) /\ rerun \subseteq Threads
    BY DEF IInv, TypeOK, Awake
  <2>. QED BY <2>1, <2>3, <2>4 DEF RunExclusively
<1>3. \A s \in Threads \ {t} : /\ queued'[s] = queued[s] /\ reserved'[s] = reserved[s]
                               /\ retained'[s] = retained[s] /\ (s \in rerun' <=> s \in rerun)
  BY DEF IInv, TypeOK, Lane
<1>4. WaitsBehind \/ TakesIdle \/ Retains \/ Forgets
  BY <1>1 DEF IInv, TypeOK, Lane
<1>5. /\ \A v \in Works : v # w /\ ~Gone(v) => work'[v] = work[v]
      /\ \A v \in Works : Gone(v) => ~Object(v)' /\ IsRun(v) /\ ~work[v].uncertain /\ work'[v] = Blank
      /\ \A v : Contains(queue', v) => v = w \/ (Contains(queue, v) /\ v # queued[t])
      /\ \A v : Contains(queue, v) /\ v # queued[t] => Contains(queue', v)
      /\ active[t] = None => Contains(queue', w)
      /\ \A v \in retry : v \in retry' <=> v # queued[t]
      /\ active[t] # None => IsRun(active[t])
  <2>1. \A v : Contains(queue, v) /\ queued[t] = None => v # queued[t]
    BY <1>1 DEF IInv, ObjectsKnown, Contains, TypeOK
  <2>2. \A v \in retry : v # None
    BY <1>1 DEF IInv, TypeOK
  <2>. QED BY <1>1, <2>1, <2>2, BlankTyped DEF Object
<1>. HIDE DEF WaitsBehind, TakesIdle, Retains, Forgets, Gone
<1>6. TypeOK'
  <2>1. unsettled' \subseteq Works /\ retry' \subseteq Works
    BY <1>2 DEF IInv, TypeOK
  <2>. QED BY <1>2, <2>1 DEF IInv, TypeOK
<1>7. ASSUME NEW j \in Tasks, task[j].stage # "idle"
      PROVE  /\ task[j].work \in Works /\ Object(task[j].work) /\ ~Gone(task[j].work)
             /\ work'[task[j].work] = work[task[j].work] /\ ThreadOf(j)' = ThreadOf(j)
  <2>1. task[j].work \in Works /\ Object(task[j].work)
    BY <1>7 DEF IInv, ObjectsKnown
  <2>2. task[j].work # w /\ HeldByTask(task[j].work)
    BY <1>1, <1>7 DEF HeldByTask
  <2>3. ~Gone(task[j].work)
    BY <1>1, <1>5, <2>1, <2>2 DEF ThreadSafe, LaneSafe, Gone, Forgets
  <2>. QED BY <1>2, <1>5, <2>1, <2>2, <2>3 DEF ThreadOf
<1>8. ASSUME NEW v \in Works, Object(v)', v # w
      PROVE  Object(v) /\ ~Gone(v) /\ work'[v] = work[v]
  BY <1>5, <1>8 DEF Object
<1>9. ASSUME NEW v \in Works, Object(v), v # w, ~Gone(v) PROVE Object(v)'
  BY <1>5, <1>9 DEF Object
<1>10. \A v \in Works : Gone(v) =>
          T(v) = t /\ ~Contains(queue', v) /\ v \notin retry' \cup drains' \cup unsettled'
                   /\ ~(v \in unresolved' /\ ~gaveUp')
  <2>. SUFFICES ASSUME NEW v \in Works, Gone(v)
                PROVE  T(v) = t /\ ~Contains(queue', v) /\ v \notin retry' \cup drains' \cup unsettled'
                                /\ ~(v \in unresolved' /\ ~gaveUp')
    OBVIOUS
  <2>1. v = queued[t] /\ v # w /\ ~work[v].uncertain /\ v \notin unsettled'
    BY <1>1, <1>5 DEF Gone, Forgets
  <2>2. T(v) = t /\ Object(v)
    BY <1>1, <2>1 DEF ThreadSafe, LaneSafe
  <2>3. ~Contains(queue', v)
    BY <1>5, <2>1
  <2>4. v \notin retry'
    BY <1>2, <1>5, <2>1
  <2>5. ~(v \in unresolved' /\ ~gaveUp')
    BY <1>1, <1>2, <2>1, <2>2 DEF ThreadSafe, ObjectSafe
  <2>. QED BY <1>1, <1>2, <2>1, <2>2, <2>3, <2>4, <2>5
<1>11. ObjectsKnown'
  <2>1. ASSUME NEW v \in Works
        PROVE  /\ Object(v)' => T(v)' \in Threads
               /\ ~IsRun(v)' => ~work'[v].uncertain
               /\ Object(v)' => (IsRun(v)' <=> work'[v].priority # "control")
    <3>1. CASE v = w
      BY <3>1 DEF Object, T, IsRun
    <3>2. CASE Gone(v)
      BY <1>5, <3>2 DEF Blank
    <3>3. CASE v # w /\ ~Gone(v)
      BY <1>5, <3>3 DEF IInv, ObjectsKnown, Object, T, IsRun
    <3>. QED BY <3>1, <3>2, <3>3
  <2>2. ASSUME NEW v \in Works,
               \/ Contains(queue', v) \/ v \in retry' \cup drains' \cup unsettled'
               \/ v \in unresolved' /\ ~gaveUp'
        PROVE  Object(v)'
    <3>1. CASE v = w
      BY <3>1 DEF Object
    <3>2. CASE v # w
      <4>1. ~Gone(v)
        BY <1>10, <2>2
      <4>2. Object(v)
        BY <1>2, <1>5, <2>2, <3>2 DEF IInv, ObjectsKnown
      <4>. QED BY <1>9, <3>2, <4>1, <4>2
    <3>. QED BY <3>1, <3>2
  <2>3. \A j \in Tasks : task'[j].stage # "idle" => task'[j].work \in Works /\ Object(task[j].work)'
    BY <1>2, <1>7 DEF Object
  <2>. QED BY <1>2, <2>1, <2>2, <2>3 DEF ObjectsKnown
<1>12. Local(t)
  <2>1. ASSUME NEW v \in Works, Object(v), T(v) # t
        PROVE  /\ work'[v] = work[v] /\ (Contains(queue', v) <=> Contains(queue, v))
               /\ (v \in retry' <=> v \in retry) /\ (v \in unsettled' => v \in unsettled)
    <3>1. v # w /\ ~Gone(v)
      BY <1>10, <2>1
    <3>2. v # queued[t]
      BY <1>1, <2>1 DEF ThreadSafe, LaneSafe, IInv, TypeOK
    <3>. QED BY <1>2, <1>5, <3>1, <3>2
  <2>2. \A v \in Works : Object(v)' /\ T(v)' # t => Object(v) /\ T(v) # t
    BY <1>8 DEF T
  <2>. QED BY <1>2, <1>3, <2>1, <2>2 DEF Local
<1>13. ThreadSafe(t)'
  <2>1. \A v : HeldByTask(v)' <=> HeldByTask(v)
    BY <1>2 DEF HeldByTask
  <2>2. LaneSafe(t)'
    <3>1. Object(w)' /\ ~IsRun(w)' /\ T(w)' = t /\ ~HeldByTask(w)'
      BY <1>1, <2>1 DEF Object, IsRun, T
    <3>2. active[t] # None => /\ active[t] \in Works /\ work'[active[t]] = work[active[t]]
                              /\ Object(active[t]) /\ T(active[t]) = t
      <4>1. active[t] # None => active[t] \in Works /\ Object(active[t]) /\ T(active[t]) = t
        BY <1>1, Typed DEF IInv, ThreadSafe, LaneSafe
      <4>2. active[t] # None => ~Gone(active[t])
        BY DEF Gone, Forgets
      <4>. QED BY <1>1, <1>5, <4>1, <4>2
    <3>3. reserved'[t] # None => reserved'[t] = w /\ active[t] # None
      BY <1>4 DEF WaitsBehind, TakesIdle, Retains, Forgets
    <3>4. active[t] # None => reserved'[t] = w
      BY <1>4 DEF WaitsBehind, TakesIdle, Retains, Forgets
    <3>5. retained'[t] # None =>
             /\ retained'[t] = queued[t] /\ active[t] = None /\ queued[t] # None /\ ~Gone(queued[t])
             /\ work[queued[t]].uncertain
      BY <1>4 DEF WaitsBehind, TakesIdle, Retains, Forgets, Gone
    <3>6. retained'[t] # None =>
             /\ queued[t] \in Works /\ work'[queued[t]] = work[queued[t]] /\ IsRun(queued[t]) /\ T(queued[t]) = t
      <4>1. queued[t] # None => queued[t] \in Works /\ Object(queued[t]) /\ T(queued[t]) = t
        BY <1>1, Typed DEF IInv, ThreadSafe, LaneSafe
      <4>2. queued[t] # None /\ work[queued[t]].uncertain => IsRun(queued[t])
        BY <4>1 DEF IInv, ObjectsKnown
      <4>. QED BY <1>1, <1>5, <3>5, <4>1, <4>2
    <3>7. active'[t] # None => Object(active[t])' /\ T(active[t])' = t
      BY <1>2, <3>2 DEF Object, T
    <3>8. retained'[t] # None => IsRun(retained[t])' /\ T(retained[t])' = t /\ work'[retained'[t]].uncertain
      BY <3>5, <3>6 DEF IsRun, T
    <3>. QED BY <1>1, <1>2, <3>1, <3>3, <3>4, <3>5, <3>7, <3>8 DEF LaneSafe, Object, IsRun, T, HeldByTask
  <2>3. ASSUME NEW v \in Works, Object(v)', T(v)' = t PROVE ObjectSafe(v, t)'
    <3>1. CASE v = w
      <4>1. /\ queued'[t] = v /\ v \notin retry' /\ v \notin drains' /\ ~(v \in unresolved' /\ ~gaveUp')
            /\ Contains(queue', v) => active'[t] = None
        <5>1. Contains(queue', v) => active[t] = None
          BY <1>1, <1>4, <3>1 DEF WaitsBehind, TakesIdle, Retains, Forgets
        <5>. QED BY <1>1, <1>2, <3>1, <5>1
      <4>. QED BY <4>1 DEF ObjectSafe, InLane
    <3>2. CASE v # w
      <4>1. Object(v) /\ T(v) = t /\ ~Gone(v) /\ ObjectSafe(v, t) /\ work'[v] = work[v]
        <5>1. Object(v) /\ ~Gone(v) /\ work'[v] = work[v]
          BY <1>8, <2>3, <3>2
        <5>. QED BY <1>1, <2>3, <5>1 DEF ThreadSafe, T
      <4>2. ~Contains(queue', v)
        BY <1>5, <3>2, <4>1 DEF ObjectSafe
      <4>3. v \notin retry'
        BY <1>2, <1>5, <4>1 DEF ObjectSafe
      <4>4. v \in unsettled' => v \in unsettled
        BY <1>2, <3>2
      <4>5. InLane(v, t) => InLane(v, t)'
        <5>1. CASE queued[t] = v
          <6>1. Retains
            BY <1>1, <1>4, <4>1, <5>1 DEF WaitsBehind, TakesIdle, Gone, Forgets
          <6>. QED BY <5>1, <6>1 DEF Retains, InLane
        <5>2. CASE active[t] = v
          BY <1>2, <5>2 DEF InLane
        <5>3. CASE retained[t] = v
          BY <1>1, <5>3
        <5>. QED BY <5>1, <5>2, <5>3 DEF InLane
      <4>. QED BY <1>1, <1>2, <4>1, <4>2, <4>3, <4>4, <4>5 DEF ObjectSafe, IsRun
    <3>. QED BY <3>1, <3>2
  <2>4. ASSUME NEW j \in Tasks, task'[j].stage # "idle", ThreadOf(j)' = t PROVE TaskSafe(j, t)'
    <3>1. TaskSafe(j, t) /\ work'[task[j].work] = work[task[j].work]
      BY <1>1, <1>2, <1>7, <2>4 DEF ThreadSafe
    <3>. QED BY <1>2, <3>1 DEF TaskSafe, IsRun
  <2>5. ActiveSafe(t)'
    <3>1. Executing' = Executing
      BY <1>2 DEF Executing
    <3>2. \A j \in Executing : j \in Tasks /\ ThreadOf(j)' = ThreadOf(j)
      BY <1>7 DEF Executing
    <3>. QED BY <1>1, <1>2, <3>1, <3>2 DEF ThreadSafe, ActiveSafe
  <2>6. WaitSafe(t)'
    <3>1. queued'[t] # None
      BY <1>1, <1>2
    <3>2. queued'[t] = reserved'[t] \/ Contains(queue', queued'[t])
      BY <1>2, <1>4, <1>5 DEF WaitsBehind, TakesIdle, Retains, Forgets
    <3>. QED BY <3>1, <3>2 DEF WaitSafe
  <2>7. ASSUME t \in owed' PROVE Covered(t)'
    <3>1. Covered(t)
      BY <1>1, <1>2, <2>7 DEF ThreadSafe, Shut
    <3>2. CASE Retains \/ Forgets
      BY <3>2 DEF Retains, Forgets, Covered
    <3>3. CASE WaitsBehind \/ TakesIdle
      <4>1. queued[t] = None /\ retained'[t] = retained[t] /\ rerun' = rerun
        BY <3>3 DEF WaitsBehind, TakesIdle
      <4>2. ASSUME NEW j \in Tasks, task[j].stage \in Reconciling
            PROVE  task'[j].stage \in Reconciling /\ ThreadOf(j)' = ThreadOf(j)
        BY <1>2, <1>7, <4>2 DEF Reconciling
      <4>. QED BY <3>1, <4>1, <4>2 DEF Covered
    <3>. QED BY <1>4, <3>2, <3>3
  <2>. QED BY <2>2, <2>3, <2>4, <2>5, <2>6, <2>7 DEF ThreadSafe
<1>14. LanesBounded' /\ Awake'
  BY <1>2 DEF IInv, LanesBounded, ActiveLanes, Awake
<1>15. StateSafe'
  BY <1>1, <1>2 DEF IInv, StateSafe, Shut
<1>. QED BY <1>6, <1>11, <1>12, <1>13, <1>14, <1>15, LocalStep

-------------------------------------------------------------------------------
\* One turn of the drain loop.

LEMMA BurstBounded ==
  ASSUME burst \in 0 .. MaxBurst, NEW i, TakeNext(i) PROVE burst' \in 0 .. MaxBurst
<1>1. MaxBurst \in Nat \ {0}
  BY ThreadSchedulerAssumption
<1>2. \/ burst' = burst \/ burst' = 0
      \/ ~(burst >= MaxBurst) /\ burst' = burst + 1
  BY DEF TakeNext
<1>. QED BY <1>1, <1>2

LEMMA DrainKeeps == ASSUME IInv, Drain PROVE IInv'
<1>. PICK i \in 1..Len(queue), k \in Tasks :
       LET w == queue[i]
           t == work[w].thread IN
         /\ TakeNext(i)
         /\ IsNewTask(k)
         /\ queue' = RemoveAt(queue, i)
         /\ queued' = [queued EXCEPT ![t] = None]
         /\ active' = [active EXCEPT ![t] = w]
         /\ task' = [task EXCEPT ![k] = [work |-> w, stage |-> "running", again |-> FALSE]]
         /\ owed' = IF work[w].kind = "run" THEN owed \ {t} ELSE owed
  BY DEF Drain
<1>1. /\ queue \in Seq(Works) /\ queue[i] \in Works /\ Contains(queue, queue[i]) /\ None \notin Works
      /\ Distinct(queue) /\ Sorted(queue, Ranks) /\ work \in [Works -> WorkType] /\ Ranks \in [Works -> 1 .. 3]
  BY QueueIsSorted, RankIs, LenProperties, ElementOfSeq, Typed DEF IInv, TypeOK, Contains
<1>. PICK w \in Works : w = queue[i]
  BY <1>1
<1>2. Contains(queue, w) /\ Object(w) /\ T(w) \in Threads
  BY <1>1 DEF IInv, ObjectsKnown
<1>. PICK t \in Threads : t = T(w)
  BY <1>2
<1>3. /\ ThreadSafe(t) /\ ObjectSafe(w, t) /\ state = "running" /\ drains = {} /\ kicked
      /\ queued[t] = w /\ active[t] = None /\ w \notin retry /\ w # None
  BY <1>1, <1>2 DEF IInv, ThreadSafe, ObjectSafe, StateSafe, Shut, Drain, HasCapacity
<1>4. /\ UNCHANGED <<state, work, retry, timer, settling, reserved, retained, rerun,
                     kicked, drains, unsettled, exclusives, unresolved, gaveUp>>
      /\ queued' = [queued EXCEPT ![t] = None] /\ active' = [active EXCEPT ![t] = w]
      /\ task' = [task EXCEPT ![k] = [work |-> w, stage |-> "running", again |-> FALSE]]
      /\ owed' = (IF IsRun(w) THEN owed \ {t} ELSE owed)
  BY DEF Drain, T, IsRun
<1>5. /\ queued' \in Lane /\ active' \in Lane /\ queued'[t] = None /\ active'[t] = w
      /\ \A s \in Threads \ {t} : queued'[s] = queued[s] /\ active'[s] = active[s]
  BY <1>4 DEF IInv, TypeOK, Lane
<1>6. /\ task' \in [Tasks -> TaskType] /\ task[k].stage = "idle"
      /\ task'[k] = [work |-> w, stage |-> "running", again |-> FALSE]
      /\ \A j \in Tasks \ {k} : task'[j] = task[j]
  <2>. DEFINE r == [work |-> w, stage |-> "running", again |-> FALSE]
  <2>1. r \in TaskType /\ task' = [task EXCEPT ![k] = r] /\ task \in [Tasks -> TaskType]
    BY <1>4 DEF TaskType, IInv, TypeOK
  <2>2. task[k].stage = "idle"
    BY DEF IsNewTask, NewTasks
  <2>. HIDE DEF r
  <2>3. /\ task' \in [Tasks -> TaskType] /\ task'[k] = r
        /\ \A j \in Tasks \ {k} : task'[j] = task[j]
    BY <2>1
  <2>. QED BY <2>2, <2>3 DEF r
<1>7. /\ queue' \in Seq(Works) /\ Distinct(queue)' /\ QueueByPriority'
      /\ \A v : Contains(queue', v) <=> Contains(queue, v) /\ v # w
  <2>. PICK q : q = RemoveAt(queue, i)
    OBVIOUS
  <2>1. /\ q \in Seq(Works) /\ Distinct(q) /\ Sorted(q, Ranks)
        /\ \A v : Contains(q, v) <=> Contains(queue, v) /\ v # w
    BY <1>1, RemoveAtRemoves, RemovedHolds
  <2>2. queue' = q
    OBVIOUS
  <2>. QED BY <1>1, <1>4, <2>1, <2>2, QueueKept
<1>8. TypeOK'
  <2>1. burst' \in 0 .. MaxBurst
    BY BurstBounded DEF IInv, TypeOK
  <2>. QED BY <1>4, <1>5, <1>6, <1>7, <2>1 DEF IInv, TypeOK
<1>9. ASSUME NEW j \in Tasks \ {k}
      PROVE  task'[j] = task[j] /\ ThreadOf(j)' = ThreadOf(j)
  BY <1>4, <1>6 DEF ThreadOf
<1>10. ThreadOf(k)' = t /\ task'[k].work = w /\ task'[k].stage = "running" /\ ~task'[k].again
  BY <1>4, <1>6 DEF ThreadOf, T
<1>11. ObjectsKnown'
  <2>1. \A j \in Tasks : task'[j].stage # "idle" => task'[j].work \in Works /\ work[task'[j].work].kind # "free"
    BY <1>2, <1>6, <1>10 DEF IInv, ObjectsKnown, Object
  <2>2. \A v \in Works : Contains(queue', v) => Contains(queue, v)
    BY <1>7
  <2>. QED BY <1>4, <2>1, <2>2 DEF IInv, ObjectsKnown, Object, T, IsRun
<1>12. Local(t)
  <2>1. \A v \in Works : T(v) # t => v # w
    OBVIOUS
  <2>2. \A s \in Threads \ {t} : s \in owed' => s \in owed
    BY <1>4
  <2>. QED BY <1>4, <1>5, <1>6, <1>7, <1>10, <2>1, <2>2 DEF Local, Object, T
<1>13. ThreadSafe(t)'
  <2>1. LaneSafe(t)'
    <3>1. reserved[t] = None
      BY <1>3 DEF ThreadSafe, LaneSafe
    <3>2. retained[t] # None => /\ IsRun(retained[t]) /\ T(retained[t]) = t /\ work[retained[t]].uncertain
                                /\ ~IsRun(w)
      BY <1>3 DEF ThreadSafe, LaneSafe
    <3>. QED BY <1>2, <1>3, <1>4, <1>5, <3>1, <3>2 DEF LaneSafe, Object, IsRun, T
  <2>2. ASSUME NEW v \in Works, Object(v)', T(v)' = t PROVE ObjectSafe(v, t)'
    <3>1. ObjectSafe(v, t)
      BY <1>3, <1>4, <2>2 DEF ThreadSafe, Object, T
    <3>2. ~Contains(queue', v)
      BY <1>3, <1>7, <3>1 DEF ObjectSafe
    <3>3. v \notin retry'
      BY <1>3, <1>4, <3>1 DEF ObjectSafe
    <3>4. v \notin drains'
      BY <1>3, <1>4
    <3>5. InLane(v, t) => InLane(v, t)'
      BY <1>3, <1>4, <1>5 DEF InLane
    <3>6. \A j \in Tasks : task[j].stage # "idle" => task'[j] = task[j]
      BY <1>6
    <3>7. v \in unsettled' =>
             \/ InLane(v, t)' \/ v \in drains'
             \/ \E j \in Tasks : task'[j].work = v /\ task'[j].stage # "idle" /\ ~task'[j].again
      BY <1>4, <3>1, <3>5, <3>6 DEF ObjectSafe
    <3>8. ~gaveUp' /\ v \in unresolved' =>
             /\ IsRun(v)' /\ work'[v].uncertain
             /\ \/ InLane(v, t)' \/ v \in drains'
                \/ \E j \in Tasks : task'[j].work = v /\ task'[j].stage = "replay"
      BY <1>4, <3>1, <3>5, <3>6 DEF ObjectSafe, IsRun
    <3>. QED BY <3>2, <3>3, <3>4, <3>7, <3>8 DEF ObjectSafe
  <2>3. ASSUME NEW j \in Tasks, task[j].stage # "idle", ThreadOf(j) = t
        PROVE  task[j].stage # "running" /\ task[j].stage # "replay"
    <3>1. TaskSafe(j, t) /\ task[j].work # None
      BY <1>3, <2>3, TaskThread DEF ThreadSafe
    <3>. QED BY <1>3, <3>1 DEF TaskSafe, Shut
  <2>4. ASSUME NEW j \in Tasks, task'[j].stage # "idle", ThreadOf(j)' = t PROVE TaskSafe(j, t)'
    <3>1. CASE j = k
      BY <1>5, <1>10, <3>1 DEF TaskSafe
    <3>2. CASE j # k
      BY <1>9, <2>3, <2>4, <3>2 DEF TaskSafe
    <3>. QED BY <3>1, <3>2
  <2>5. ActiveSafe(t)'
    <3>1. k \in Executing' /\ task'[k].work = active'[t]
      BY <1>5, <1>10 DEF Executing
    <3>2. ASSUME NEW j \in Executing', ThreadOf(j)' = t PROVE j = k
      <4>1. j \in Tasks /\ task'[j].stage = "running"
        BY DEF Executing
      <4>. QED BY <1>9, <2>3, <3>2, <4>1
    <3>. QED BY <3>1, <3>2 DEF ActiveSafe
  <2>6. WaitSafe(t)'
    BY <1>3, <1>5 DEF WaitSafe
  <2>7. ASSUME t \in owed' PROVE Covered(t)'
    <3>1. Covered(t) /\ ~IsRun(w)
      BY <1>3, <1>4, <2>7 DEF ThreadSafe, Shut
    <3>2. ASSUME NEW j \in Tasks, task[j].stage \in Reconciling
          PROVE  task'[j].stage \in Reconciling /\ ThreadOf(j)' = ThreadOf(j)
      BY <1>6, <1>9, <3>2 DEF Reconciling
    <3>. QED BY <1>3, <1>4, <3>1, <3>2 DEF Covered
  <2>. QED BY <2>1, <2>2, <2>4, <2>5, <2>6, <2>7 DEF ThreadSafe
<1>14. LanesBounded'
  <2>1. ActiveLanes' = ActiveLanes \cup {t} /\ t \notin ActiveLanes
    BY <1>3, <1>5 DEF ActiveLanes
  <2>2. IsFiniteSet(ActiveLanes) /\ Cardinality(ActiveLanes) < MaxRuns
    BY DEF IInv, LanesBounded, Drain, HasCapacity
  <2>3. IsFiniteSet(ActiveLanes') /\ Cardinality(ActiveLanes') = Cardinality(ActiveLanes) + 1
    BY <2>1, <2>2, FS_AddElement
  <2>4. Cardinality(ActiveLanes) \in Nat /\ MaxRuns \in Nat
    BY <2>2, FS_CardinalityType, ThreadSchedulerAssumption
  <2>. QED BY <2>2, <2>3, <2>4 DEF LanesBounded
<1>15. Awake'
  BY <1>3, <1>4 DEF IInv, Awake
<1>16. StateSafe'
  BY <1>3, <1>4 DEF IInv, StateSafe, Shut
<1>. QED BY <1>7, <1>8, <1>11, <1>12, <1>13, <1>14, <1>15, <1>16, LocalStep

-------------------------------------------------------------------------------
\* The end of an execution.

\* Where the lane of t stands while k executes its active work w.
LEMMA EndingLane ==
  ASSUME IInv, NEW k \in Tasks, task[k].stage = "running",
         NEW w \in Works, w = task[k].work, NEW t \in Threads, t = T(w)
  PROVE  /\ active[t] = w /\ Object(w) /\ ThreadSafe(t) /\ state # "idle" /\ w # None
         /\ state = "closed" => gaveUp
         /\ queued[t] # None => reserved[t] = queued[t] /\ ~IsRun(queued[t]) /\ Object(queued[t])
                                /\ T(queued[t]) = t /\ queued[t] # w /\ ~HeldByTask(queued[t])
                                /\ queued[t] \in Works
         /\ reserved[t] # None => queued[t] = reserved[t]
         /\ retained[t] # None => /\ ~IsRun(w) /\ IsRun(retained[t]) /\ T(retained[t]) = t
                                  /\ work[retained[t]].uncertain /\ retained[t] # w
                                  /\ retained[t] \in Works
         /\ state \in Shut => queued[t] = None /\ reserved[t] = None /\ retained[t] = None
                              /\ queue = <<>> /\ retry = {}
         /\ \A v \in Works : Object(v) /\ T(v) = t =>
               ~Contains(queue, v) /\ v \notin retry /\ ObjectSafe(v, t)
         /\ \A j \in Executing : ThreadOf(j) = t => j = k
<1>1. /\ Object(w) /\ ThreadOf(k) = t /\ ThreadSafe(t) /\ TaskSafe(k, t) /\ state # "idle"
      /\ state = "closed" => gaveUp
      /\ w # None
  BY TaskThread
<1>2. active[t] = w /\ HeldByTask(w) /\ k \in Executing
  BY <1>1 DEF TaskSafe, HeldByTask, Executing
<1>3. queued[t] # None => reserved[t] = queued[t] /\ ~IsRun(queued[t]) /\ Object(queued[t])
                          /\ T(queued[t]) = t /\ queued[t] # w /\ ~HeldByTask(queued[t])
                          /\ queued[t] \in Works
  <2>1. queued[t] # None => reserved[t] = queued[t] /\ ~IsRun(queued[t]) /\ Object(queued[t])
                            /\ T(queued[t]) = t /\ queued[t] \in Works
    BY <1>1, <1>2, Typed DEF IInv, ThreadSafe, LaneSafe
  <2>2. queued[t] # None => ~work[queued[t]].uncertain
    BY <2>1 DEF IInv, ObjectsKnown
  <2>3. queued[t] # None => ~HeldByTask(queued[t])
    BY <1>1, <2>2 DEF ThreadSafe, LaneSafe
  <2>. QED BY <1>2, <2>1, <2>3
<1>4. reserved[t] # None => queued[t] = reserved[t]
  BY <1>1 DEF ThreadSafe, LaneSafe
<1>5. retained[t] # None => /\ ~IsRun(w) /\ IsRun(retained[t]) /\ T(retained[t]) = t
                            /\ work[retained[t]].uncertain /\ retained[t] # w
                            /\ retained[t] \in Works
  BY <1>1, <1>2, Typed DEF IInv, ThreadSafe, LaneSafe
<1>6. state \in Shut => queued[t] = None /\ reserved[t] = None /\ retained[t] = None
                        /\ queue = <<>> /\ retry = {}
  BY DEF IInv, StateSafe
<1>7. \A v \in Works : Object(v) /\ T(v) = t =>
         ~Contains(queue, v) /\ v \notin retry /\ ObjectSafe(v, t)
  BY <1>1, <1>2 DEF ThreadSafe, ObjectSafe
<1>8. \A j \in Executing : ThreadOf(j) = t => j = k
  BY <1>1, <1>2 DEF ThreadSafe, ActiveSafe
<1>. QED BY <1>1, <1>2, <1>3, <1>4, <1>5, <1>6, <1>7, <1>8

\* The execution of w by k has ended and n is new work; whatever the lane, shutdown
\* or a promise still needs of w is where it is looked for.
Ended(k, t, w, n) ==
    /\ UNCHANGED <<state, burst, drains, exclusives, gaveUp>>
    /\ active' = [active EXCEPT ![t] = None] /\ settling' \subseteq Works
    /\ task' \in [Tasks -> TaskType] /\ \A j \in Tasks \ {k} : task'[j] = task[j]
    /\ task'[k].work = w /\ task'[k].stage \in {"reconcile", "replay", "capacity"}
    /\ task'[k].stage = "replay" => state \in Shut /\ IsRun(w)
    /\ work' \in [Works -> WorkType] /\ \A v \in Works \ {w, n} : work'[v] = work[v]
    /\ T(w)' = T(w) /\ (IsRun(w)' <=> IsRun(w)) /\ (Object(w)' <=> Object(w))
    /\ work'[w].priority = work[w].priority /\ (work'[w].uncertain => work[w].uncertain \/ IsRun(w))
    /\ n # None => /\ ~Object(n) /\ work'[n].thread = t /\ work'[n].kind = "run"
                   /\ work'[n].priority # "control" /\ ~work'[n].uncertain /\ queued'[t] = n
    /\ queue' \in Seq(Works) /\ Distinct(queue)' /\ QueueByPriority'
    /\ \A v : Contains(queue, v) => Contains(queue', v)
    /\ \A v : Contains(queue', v) => Contains(queue, v) \/ (v = queued'[t] /\ v # None)
    /\ queued' \in Lane /\ reserved' \in Lane /\ retained' \in Lane
    /\ \A s \in Threads \ {t} :
          /\ queued'[s] = queued[s] /\ reserved'[s] = reserved[s] /\ retained'[s] = retained[s]
          /\ (s \in rerun' <=> s \in rerun) /\ (s \in owed' => s \in owed)
    /\ rerun' \subseteq Threads /\ owed' \subseteq Threads
    /\ retry \subseteq retry' /\ retry' \subseteq retry \cup {w}
    /\ w \in retry' => /\ queued'[t] = w /\ IsRun(w) /\ work'[w].uncertain
                       /\ ~Contains(queue', w)
    /\ timer' \in BOOLEAN /\ (retry' # {} => timer')
    /\ kicked' \in BOOLEAN /\ (state = "running" => kicked')
    /\ unsettled' \subseteq unsettled \cup ({n} \ {None})
    /\ unresolved' \subseteq unresolved \cup {w}
    /\ queued[t] # None => queued'[t] = queued[t]
    /\ retained[t] # None => retained[t] \in {retained'[t], queued'[t]}
    /\ w \in {queued'[t], retained'[t]} \/ ~task'[k].again
    /\ w \in unresolved' =>
          /\ IsRun(w)
          /\ state # "closed" =>
                /\ work'[w].uncertain
                /\ w \in {queued'[t], retained'[t]} \/ task'[k].stage = "replay"
    /\ state \in Shut => /\ queue' = <<>> /\ retry' = {}
                         /\ queued'[t] = None /\ reserved'[t] = None /\ retained'[t] = None

LEMMA EndedKeeps ==
  ASSUME IInv, NEW k \in Tasks, task[k].stage = "running",
         NEW w \in Works, w = task[k].work, NEW t \in Threads, t = T(w),
         NEW n \in Works \cup {None}, Ended(k, t, w, n),
         LaneSafe(t)', WaitSafe(t)', state \notin Shut /\ t \in owed' => Covered(t)'
  PROVE  IInv'
<1>1. /\ active[t] = w /\ Object(w) /\ ThreadSafe(t) /\ state # "idle" /\ w # None
      /\ state = "closed" => gaveUp
      /\ \A v \in Works : Object(v) /\ T(v) = t =>
            ~Contains(queue, v) /\ v \notin retry /\ ObjectSafe(v, t)
      /\ \A j \in Executing : ThreadOf(j) = t => j = k
      /\ None \notin Works
  BY EndingLane, Typed DEF IInv
<1>2. n # None => /\ n \in Works /\ ~Contains(queue, n) /\ n \notin retry \cup drains \cup unsettled
                  /\ ~(n \in unresolved /\ ~gaveUp) /\ ~HeldByTask(n) /\ n # w
  <2>1. n # None => ~Object(n) /\ n \in Works
    BY DEF Ended
  <2>. QED BY <1>1, <2>1, FreshWork
<1>3. TypeOK'
  <2>1. active' \in Lane
    BY DEF Ended, IInv, TypeOK, Lane
  <2>2. retry' \subseteq Works /\ unsettled' \subseteq Works /\ unresolved' \subseteq Works
    BY <1>1 DEF Ended, IInv, TypeOK
  <2>. QED BY <2>1, <2>2 DEF Ended, IInv, TypeOK
<1>4. /\ active'[t] = None /\ \A s \in Threads \ {t} : active'[s] = active[s]
  BY DEF Ended, IInv, TypeOK, Lane
<1>5. ASSUME NEW v \in Works, v # n
      PROVE  /\ T(v)' = T(v) /\ (IsRun(v)' <=> IsRun(v)) /\ (Object(v)' <=> Object(v))
             /\ work'[v].priority = work[v].priority /\ (v # w => work'[v] = work[v])
             /\ (work'[v].uncertain => work[v].uncertain \/ (v = w /\ IsRun(w)))
  BY <1>5 DEF Ended, T, IsRun, Object
<1>6. ASSUME NEW j \in Tasks, task[j].stage # "idle"
      PROVE  /\ task[j].work \in Works /\ task[j].work # n /\ task'[j].work = task[j].work
             /\ ThreadOf(j)' = ThreadOf(j) /\ Object(task[j].work)'
             /\ (j # k => task'[j] = task[j])
  <2>1. task[j].work \in Works /\ Object(task[j].work)
    BY <1>6 DEF IInv, ObjectsKnown
  <2>2. task[j].work # n
    BY <1>1, <1>2, <1>6, <2>1 DEF HeldByTask
  <2>3. task'[j].work = task[j].work /\ (j # k => task'[j] = task[j])
    BY DEF Ended
  <2>. QED BY <1>5, <2>1, <2>2, <2>3 DEF ThreadOf, T
<1>7. \A j \in Tasks : task'[j].stage # "idle" => task[j].stage # "idle"
  BY DEF Ended
<1>8. queued'[t] # None => Object(queued[t])' /\ T(queued[t])' = t
  BY DEF LaneSafe
<1>9. ObjectsKnown'
  <2>1. ASSUME NEW v \in Works
        PROVE  /\ Object(v)' => T(v)' \in Threads
               /\ ~IsRun(v)' => ~work'[v].uncertain
               /\ Object(v)' => (IsRun(v)' <=> work'[v].priority # "control")
    <3>1. CASE v = n
      BY <1>1, <3>1 DEF Ended, Object, T, IsRun
    <3>2. CASE v # n
      BY <1>5, <3>2 DEF IInv, ObjectsKnown
    <3>. QED BY <3>1, <3>2
  <2>2. ASSUME NEW v \in Works,
               \/ Contains(queue', v) \/ v \in retry' \cup drains' \cup unsettled'
               \/ v \in unresolved' /\ ~gaveUp'
        PROVE  Object(v)'
    <3>1. CASE v = n
      BY <1>1, <3>1 DEF Ended, Object
    <3>2. CASE v = w
      BY <1>1, <1>2, <1>5, <3>2
    <3>3. CASE v # n /\ v # w
      <4>1. CASE Contains(queue', v)
        <5>1. CASE Contains(queue, v)
          BY <1>5, <3>3, <5>1 DEF IInv, ObjectsKnown
        <5>2. CASE v = queued'[t] /\ v # None
          BY <1>8, <5>2 DEF Object
        <5>. QED BY <4>1, <5>1, <5>2 DEF Ended
      <4>2. CASE ~Contains(queue', v)
        <5>1. v \in retry \cup drains \cup unsettled \/ (v \in unresolved /\ ~gaveUp)
          BY <2>2, <3>3, <4>2 DEF Ended
        <5>. QED BY <1>5, <3>3, <5>1 DEF IInv, ObjectsKnown
      <4>. QED BY <4>1, <4>2
    <3>. QED BY <3>1, <3>2, <3>3
  <2>3. \A j \in Tasks : task'[j].stage # "idle" => task'[j].work \in Works /\ work'[task'[j].work].kind # "free"
    BY <1>6, <1>7 DEF Object
  <2>. QED BY <2>1, <2>2, <2>3 DEF ObjectsKnown, Object
<1>10. Local(t)
  <2>1. ASSUME NEW v \in Works, Object(v), T(v) # t
        PROVE  /\ work'[v] = work[v] /\ (Contains(queue', v) <=> Contains(queue, v))
               /\ (v \in retry' <=> v \in retry) /\ (v \in drains' <=> v \in drains)
               /\ (v \in unsettled' => v \in unsettled) /\ (v \in unresolved' => v \in unresolved)
    <3>1. v # n /\ v # w
      BY <1>1, <2>1 DEF Ended
    <3>2. work'[v] = work[v] /\ T(v)' # t
      BY <1>5, <2>1, <3>1
    <3>3. ~(v = queued'[t] /\ v # None)
      BY <1>8, <3>2 DEF T
    <3>. QED BY <3>1, <3>2, <3>3 DEF Ended
  <2>2. \A v \in Works : Object(v)' /\ T(v)' # t => Object(v) /\ T(v) # t
    <3>. SUFFICES ASSUME NEW v \in Works, Object(v)', T(v)' # t PROVE Object(v) /\ T(v) # t
      OBVIOUS
    <3>1. v # n
      BY <1>1 DEF Ended, T
    <3>. QED BY <1>5, <3>1
  <2>3. ASSUME NEW j \in Tasks
        PROVE  \/ task'[j] = task[j]
               \/ /\ task[j].stage = "idle" \/ ThreadOf(j) = t
                  /\ task'[j].stage = "idle" \/ ThreadOf(j)' = t
    <3>1. ThreadOf(k) = t
      BY DEF ThreadOf, T
    <3>. QED BY <1>6, <3>1 DEF Ended
  <2>. QED BY <1>4, <2>1, <2>2, <2>3 DEF Local, Ended
<1>11. ASSUME NEW v \in Works, Object(v)', T(v)' = t PROVE ObjectSafe(v, t)'
  <2>1. Contains(queue', v) => queued'[t] = v /\ active'[t] = None /\ v \notin retry'
    <3>. SUFFICES ASSUME Contains(queue', v) PROVE queued'[t] = v /\ active'[t] = None /\ v \notin retry'
      OBVIOUS
    <3>1. ~Contains(queue, v) /\ v \notin retry
      BY <1>1, <1>2, <1>5, <1>11
    <3>. QED BY <1>4, <3>1 DEF Ended
  <2>2. v \in retry' => queued'[t] = v /\ active'[t] = None /\ IsRun(v)' /\ work'[v].uncertain
    <3>. SUFFICES ASSUME v \in retry' PROVE queued'[t] = v /\ active'[t] = None /\ IsRun(v)' /\ work'[v].uncertain
      OBVIOUS
    <3>1. v \notin retry
      BY <1>1, <1>2, <1>5, <1>11
    <3>2. v = w
      BY <3>1 DEF Ended
    <3>. QED BY <1>4, <3>2 DEF Ended
  <2>3. v \in drains' => IsRun(v)'
    <3>. SUFFICES ASSUME v \in drains' PROVE IsRun(v)'
      OBVIOUS
    <3>1. v \in drains /\ v # n
      BY <1>1, <1>2 DEF Ended
    <3>. QED BY <1>1, <1>5, <1>11, <3>1 DEF ObjectSafe
  <2>4. CASE v = n
    <3>1. queued'[t] = v /\ v \notin drains' /\ ~(v \in unresolved' /\ ~gaveUp')
      BY <1>1, <1>2, <2>4 DEF Ended
    <3>. QED BY <2>1, <2>2, <3>1 DEF ObjectSafe, InLane
  <2>5. CASE v # n
    <3>1. ObjectSafe(v, t)
      BY <1>1, <1>5, <1>11, <2>5
    <3>2. InLane(v, t) /\ v # w => InLane(v, t)'
      <4>1. queued[t] = v => queued'[t] = v
        BY <1>1 DEF Ended
      <4>2. retained[t] = v => v \in {retained'[t], queued'[t]}
        BY <1>1 DEF Ended
      <4>. QED BY <1>1, <4>1, <4>2 DEF InLane
    <3>3. v \in unsettled' =>
             \/ InLane(v, t)' \/ v \in drains'
             \/ \E j \in Tasks : task'[j].work = v /\ task'[j].stage # "idle" /\ ~task'[j].again
      <4>1. CASE v = w
        BY <4>1 DEF Ended, InLane
      <4>2. CASE v # w /\ v \in unsettled'
        <5>1. v \in unsettled
          BY <2>5, <4>2 DEF Ended
        <5>2. \/ InLane(v, t) \/ v \in drains
              \/ \E j \in Tasks \ {k} : task[j].work = v /\ task[j].stage # "idle" /\ ~task[j].again
          BY <3>1, <4>2, <5>1 DEF ObjectSafe
        <5>. QED BY <3>2, <4>2, <5>2 DEF Ended
      <4>. QED BY <4>1, <4>2
    <3>4. ~gaveUp' /\ v \in unresolved' =>
             /\ IsRun(v)' /\ work'[v].uncertain
             /\ \/ InLane(v, t)' \/ v \in drains'
                \/ \E j \in Tasks : task'[j].work = v /\ task'[j].stage = "replay"
      <4>1. CASE v = w /\ ~gaveUp' /\ v \in unresolved'
        <5>1. state # "closed"
          BY <1>1, <4>1 DEF Ended
        <5>. QED BY <4>1, <5>1 DEF Ended, InLane
      <4>2. CASE v # w /\ ~gaveUp' /\ v \in unresolved'
        <5>1. ~gaveUp /\ v \in unresolved
          BY <4>2 DEF Ended
        <5>2. /\ IsRun(v) /\ work[v].uncertain
              /\ \/ InLane(v, t) \/ v \in drains
                 \/ \E j \in Tasks \ {k} : task[j].work = v /\ task[j].stage = "replay"
          BY <3>1, <4>2, <5>1 DEF ObjectSafe
        <5>3. IsRun(v)' /\ work'[v].uncertain
          BY <1>5, <2>5, <4>2, <5>2
        <5>. QED BY <3>2, <4>2, <5>2, <5>3 DEF Ended
      <4>. QED BY <4>1, <4>2
    <3>. QED BY <1>4, <2>1, <2>2, <2>3, <3>3, <3>4 DEF ObjectSafe
  <2>. QED BY <2>4, <2>5
<1>12. ASSUME NEW j \in Tasks, task'[j].stage # "idle", ThreadOf(j)' = t PROVE TaskSafe(j, t)'
  <2>1. CASE j = k
    BY <1>2, <1>4, <1>5, <2>1 DEF Ended, TaskSafe
  <2>2. CASE j # k
    <3>1. task'[j] = task[j] /\ task[j].stage # "idle" /\ ThreadOf(j) = t /\ TaskSafe(j, t)
      BY <1>1, <1>6, <1>7, <1>12, <2>2 DEF ThreadSafe
    <3>2. task[j].stage # "running"
      BY <1>1, <2>2, <3>1 DEF Executing
    <3>3. task[j].stage # "replay"
      BY <1>1, <3>1 DEF TaskSafe
    <3>. QED BY <3>1, <3>2, <3>3 DEF TaskSafe
  <2>. QED BY <2>1, <2>2
<1>13. ActiveSafe(t)'
  <2>1. \A j \in Executing' : j \in Executing /\ j # k /\ j \in Tasks /\ ThreadOf(j)' = ThreadOf(j)
    BY <1>6, <1>7 DEF Ended, Executing
  <2>2. \A j \in Executing' : ThreadOf(j)' # t
    BY <1>1, <2>1
  <2>. QED BY <1>4, <2>2 DEF ActiveSafe
<1>14. ThreadSafe(t)'
  BY <1>11, <1>12, <1>13 DEF ThreadSafe, Ended
<1>15. LanesBounded' /\ Awake'
  <2>1. ActiveLanes' = ActiveLanes \ {t} /\ t \in ActiveLanes
    BY <1>1, <1>4 DEF ActiveLanes
  <2>2. IsFiniteSet(ActiveLanes) /\ Cardinality(ActiveLanes) <= MaxRuns
    BY DEF IInv, LanesBounded
  <2>3. IsFiniteSet(ActiveLanes') /\ Cardinality(ActiveLanes') = Cardinality(ActiveLanes) - 1
    BY <2>1, <2>2, FS_RemoveElement
  <2>4. Cardinality(ActiveLanes) \in Nat /\ MaxRuns \in Nat
    BY <2>2, FS_CardinalityType, ThreadSchedulerAssumption
  <2>5. LanesBounded'
    BY <2>2, <2>3, <2>4 DEF LanesBounded
  <2>6. Awake'
    BY DEF Ended, Awake, HasCapacity
  <2>. QED BY <2>5, <2>6
<1>16. StateSafe'
  <2>1. state \in Shut => \A s \in Threads : queued'[s] = None /\ reserved'[s] = None /\ retained'[s] = None
    BY DEF IInv, StateSafe, Ended
  <2>. QED BY <1>1, <2>1 DEF IInv, StateSafe, Ended
<1>17. Distinct(queue)' /\ QueueByPriority'
  BY DEF Ended
<1>. QED BY <1>3, <1>9, <1>10, <1>14, <1>15, <1>16, <1>17, LocalStep


\* What every end of an execution has in common.
LEMMA FinishIs ==
  ASSUME IInv, NEW k \in Tasks, NEW outcome, Finish(k, outcome),
         NEW w \in Works, w = task[k].work, NEW t \in Threads, t = T(w)
  PROVE  /\ task[k].stage = "running" /\ task' \in [Tasks -> TaskType]
         /\ \A j \in Tasks \ {k} : task'[j] = task[j]
         /\ task'[k].work = w /\ task'[k].stage \in {"reconcile", "replay", "capacity"}
         /\ task'[k].stage = "replay" => state = "stopping" /\ IsRun(w)
         /\ outcome \in {"completed", "no_claim", "aborted"} => task'[k].stage = "reconcile"
         /\ outcome = "admission_failed" /\ state = "stopping" => task'[k].stage = "replay"
         /\ task'[k].again => outcome = "admission_failed" /\ state = "running"
         /\ outcome = "admission_failed" => IsRun(w)
         /\ outcome \in RunOutcomes
         /\ unresolved' \subseteq unresolved \cup {w}
         /\ w \in unresolved' => outcome = "admission_failed"
         /\ UNCHANGED <<state, burst, drains, exclusives, gaveUp>>
         /\ active' = [active EXCEPT ![t] = None] /\ settling' \subseteq Works
<1>1. /\ task[k].stage = "running"
      /\ outcome \in IF IsRun(w) THEN RunOutcomes ELSE ExclusiveOutcomes
      /\ active' = [active EXCEPT ![t] = None] /\ settling' = settling \cup {w}
      /\ UNCHANGED <<state, burst, drains, exclusives, gaveUp>>
      /\ unresolved' = (IF outcome = "admission_failed" THEN unresolved \cup {w} ELSE unresolved \ {w})
      /\ task' = [task EXCEPT ![k].stage = AwaitedAfter(outcome),
                              ![k].again = outcome = "admission_failed" /\ state = "running"]
  BY DEF Finish, T, IsRun
<1>2. outcome \in RunOutcomes /\ (outcome = "admission_failed" => IsRun(w))
  BY <1>1 DEF RunOutcomes, ExclusiveOutcomes
<1>3. PICK x : x = AwaitedAfter(outcome)
  OBVIOUS
<1>4. /\ x \in {"reconcile", "replay", "capacity"}
      /\ x = "replay" => state = "stopping" /\ outcome = "admission_failed"
      /\ outcome \in {"completed", "no_claim", "aborted"} => x = "reconcile"
      /\ outcome = "admission_failed" /\ state = "stopping" => x = "replay"
  BY <1>2, <1>3 DEF AwaitedAfter, RunOutcomes
<1>5. PICK b \in BOOLEAN : b = (outcome = "admission_failed" /\ state = "running")
  OBVIOUS
<1>6. task' = [task EXCEPT ![k].stage = x, ![k].again = b] /\ task \in [Tasks -> TaskType]
  BY <1>1, <1>3, <1>5 DEF IInv, TypeOK
<1>7. /\ task' \in [Tasks -> TaskType] /\ task'[k].work = w /\ task'[k].stage = x /\ task'[k].again = b
      /\ \A j \in Tasks \ {k} : task'[j] = task[j]
  <2>1. task[k] \in TaskType
    BY <1>6
  <2>2. PICK r : r = [task[k] EXCEPT !.stage = x, !.again = b]
    OBVIOUS
  <2>3. r \in TaskType /\ r.work = w /\ r.stage = x /\ r.again = b
    BY <1>4, <2>1, <2>2 DEF TaskType
  <2>4. task' = [task EXCEPT ![k] = r]
    BY <1>6, <2>2
  <2>. QED BY <1>6, <2>3, <2>4
<1>. QED BY <1>1, <1>2, <1>4, <1>5, <1>7 DEF IInv, TypeOK


\* The outcome of w has become uncertain, or it has not.
LEMMA MarkUncertain ==
  ASSUME work \in [Works -> WorkType], NEW w \in Works,
         work' = [work EXCEPT ![w].uncertain = TRUE]
  PROVE  /\ work' \in [Works -> WorkType] /\ \A v \in Works \ {w} : work'[v] = work[v]
         /\ work'[w].uncertain /\ T(w)' = T(w) /\ (IsRun(w)' <=> IsRun(w)) /\ (Object(w)' <=> Object(w))
         /\ work'[w].priority = work[w].priority
  BY DEF WorkType, T, IsRun, Object

\* A reserved operation comes next.
LEMMA YieldKeeps ==
  ASSUME IInv, NEW k \in Tasks, NEW outcome, Finish(k, outcome),
         NEW w \in Works, w = task[k].work, NEW t \in Threads, t = T(w),
         state = "running", reserved[t] # None
  PROVE  IInv'
<1>1. /\ task[k].stage = "running" /\ task' \in [Tasks -> TaskType]
      /\ \A j \in Tasks \ {k} : task'[j] = task[j]
      /\ task'[k].work = w /\ task'[k].stage \in {"reconcile", "replay", "capacity"}
      /\ task'[k].stage # "replay"
      /\ outcome \in {"completed", "no_claim", "aborted"} => task'[k].stage = "reconcile"
      /\ task'[k].again => outcome = "admission_failed" /\ state = "running"
      /\ outcome = "admission_failed" => IsRun(w)
      /\ unresolved' \subseteq unresolved \cup {w}
      /\ w \in unresolved' => outcome = "admission_failed"
      /\ UNCHANGED <<state, burst, drains, exclusives, gaveUp>>
      /\ active' = [active EXCEPT ![t] = None] /\ settling' \subseteq Works
  BY FinishIs
<1>2. /\ active[t] = w /\ Object(w) /\ ThreadSafe(t) /\ w # None
      /\ queued[t] # None => reserved[t] = queued[t] /\ ~IsRun(queued[t]) /\ Object(queued[t])
                             /\ T(queued[t]) = t /\ queued[t] # w /\ ~HeldByTask(queued[t])
                             /\ queued[t] \in Works
      /\ queued[t] = reserved[t]
      /\ retained[t] # None => /\ ~IsRun(w) /\ IsRun(retained[t]) /\ T(retained[t]) = t
                               /\ work[retained[t]].uncertain /\ retained[t] # w
                               /\ retained[t] \in Works
      /\ \A v \in Works : Object(v) /\ T(v) = t => ~Contains(queue, v) /\ v \notin retry
  BY <1>1, EndingLane
<1>. PICK r \in Works : r = queued[t]
  BY <1>2
<1>3. /\ queue' = Cons(r, queue)
      /\ reserved' = [reserved EXCEPT ![t] = None]
      /\ IF outcome = "admission_failed"
         THEN /\ work' = [work EXCEPT ![w].uncertain = TRUE]
              /\ retained' = [retained EXCEPT ![t] = w]
         ELSE UNCHANGED <<work, retained>>
      /\ rerun' = (IF outcome = "completed" /\ work[w].kind = "run" THEN rerun \ {t} ELSE rerun)
      /\ kicked' = (kicked \/ state = "running")
      /\ UNCHANGED <<retry, timer, queued, unsettled, owed>>
  BY <1>2 DEF Finish, YieldToReserved, Kick, T
<1>4. /\ work \in [Works -> WorkType] /\ queue \in Seq(Works) /\ Distinct(queue) /\ Sorted(queue, Ranks)
      /\ None \notin Works /\ queued \in Lane /\ reserved \in Lane /\ retained \in Lane
      /\ timer \in BOOLEAN /\ (retry # {} => timer) /\ rerun \subseteq Threads /\ owed \subseteq Threads
  BY QueueIsSorted, Typed DEF IInv, TypeOK, Awake
<1>5. /\ work' \in [Works -> WorkType] /\ \A v \in Works \ {w} : work'[v] = work[v]
      /\ outcome = "admission_failed" => work'[w].uncertain
      /\ T(w)' = T(w) /\ (IsRun(w)' <=> IsRun(w)) /\ (Object(w)' <=> Object(w))
      /\ work'[w].priority = work[w].priority
      /\ (work'[w].uncertain => work[w].uncertain \/ IsRun(w))
  <2>1. CASE outcome = "admission_failed"
    BY <1>1, <1>3, <1>4, <2>1, MarkUncertain
  <2>2. CASE outcome # "admission_failed"
    BY <1>3, <1>4, <2>2 DEF T, IsRun, Object
  <2>. QED BY <2>1, <2>2
<1>6. /\ reserved' \in Lane /\ reserved'[t] = None /\ retained' \in Lane /\ queued' = queued
      /\ \A s \in Threads \ {t} : reserved'[s] = reserved[s] /\ retained'[s] = retained[s]
      /\ retained'[t] = (IF outcome = "admission_failed" THEN w ELSE retained[t])
  BY <1>3, <1>4 DEF Lane
<1>7. r # w /\ Object(r) /\ ~IsRun(r) /\ T(r) = t /\ ~Contains(queue, r) /\ ~HeldByTask(r) /\ r # None
  BY <1>2, <1>4
<1>8. /\ queue' \in Seq(Works) /\ queue' # <<>> /\ Distinct(queue)' /\ QueueByPriority'
      /\ \A v : Contains(queue', v) <=> Contains(queue, v) \/ v = r
  <2>1. work'[r].priority = "control"
    BY <1>5, <1>7 DEF IInv, ObjectsKnown
  <2>2. \A v \in Works : Contains(queue, v) => work'[v].priority = work[v].priority
    BY <1>5
  <2>. QED BY <1>3, <1>4, <1>5, <1>7, <2>1, <2>2, ControlQueued
<1>9. Ended(k, t, w, None)
  <2>1. rerun' \subseteq Threads /\ \A s \in Threads \ {t} : s \in rerun' <=> s \in rerun
    BY <1>3, <1>4
  <2>2. kicked' = TRUE
    BY <1>3
  <2>3. w \notin retry
    BY <1>2
  <2>4. retained[t] # None => retained'[t] = retained[t]
    BY <1>1, <1>2, <1>6
  <2>5. state \notin Shut
    BY DEF Shut
  <2>6. \A v \in Works \ {w, None} : work'[v] = work[v]
    BY <1>5
  <2>. QED BY <1>1, <1>3, <1>4, <1>5, <1>6, <1>7, <1>8, <2>1, <2>2, <2>3, <2>4, <2>5, <2>6 DEF Ended
<1>10. /\ work'[r] = work[r] /\ (retained[t] # None => work'[retained[t]] = work[retained[t]])
       /\ active'[t] = None
  BY <1>1, <1>2, <1>5, <1>7 DEF IInv, TypeOK, Lane
<1>11. LaneSafe(t)'
  <2>1. ~HeldByTask(r)'
    BY <1>1, <1>7 DEF HeldByTask
  <2>2. retained'[t] # None => IsRun(retained[t])' /\ T(retained[t])' = t /\ work'[retained'[t]].uncertain
    <3>1. CASE outcome = "admission_failed"
      BY <1>1, <1>5, <1>6, <3>1 DEF IsRun, T
    <3>2. CASE outcome # "admission_failed"
      <4>1. retained'[t] = retained[t]
        BY <1>6, <3>2
      <4>2. retained[t] # None => /\ work[retained[t]].kind = "run" /\ work[retained[t]].thread = t
                                  /\ work[retained[t]].uncertain
        BY <1>2 DEF IsRun, T
      <4>. QED BY <1>10, <4>1, <4>2 DEF IsRun, T
    <3>. QED BY <3>1, <3>2
  <2>3. Object(queued[t])' /\ T(queued[t])' = t /\ ~IsRun(queued[t])'
    BY <1>6, <1>7, <1>10 DEF Object, T, IsRun
  <2>. QED BY <1>6, <1>7, <1>10, <2>1, <2>2, <2>3 DEF LaneSafe, HeldByTask
<1>12. WaitSafe(t)'
  BY <1>6, <1>7, <1>8 DEF WaitSafe
<1>13. ASSUME t \in owed' PROVE Covered(t)'
  <2>1. Covered(t)
    BY <1>2, <1>3, <1>13 DEF ThreadSafe, Shut
  <2>2. CASE outcome = "completed"
    <3>1. task'[k].stage = "reconcile" /\ ThreadOf(k)' = t
      BY <1>1, <1>5, <2>2 DEF ThreadOf, T
    <3>. QED BY <3>1 DEF Covered, Reconciling
  <2>3. CASE outcome # "completed" /\ retained[t] # None
    BY <1>2, <1>6, <2>3 DEF Covered
  <2>4. CASE outcome # "completed" /\ t \in rerun
    BY <1>3, <2>4 DEF Covered
  <2>5. ASSUME NEW j \in Tasks, task[j].stage \in Reconciling, ThreadOf(j) = t
        PROVE  task'[j].stage \in Reconciling /\ ThreadOf(j)' = t
    <3>1. j # k /\ task[j].stage # "idle"
      BY <1>1, <2>5 DEF Reconciling
    <3>2. task'[j] = task[j] /\ task[j].work \in Works
      BY <1>1, <3>1, TaskThread
    <3>. QED BY <1>5, <2>5, <3>2 DEF ThreadOf, T
  <2>. QED BY <1>7, <2>1, <2>2, <2>3, <2>4, <2>5 DEF Covered
<1>. QED BY <1>1, <1>9, <1>11, <1>12, <1>13, EndedKeeps


\* The run that exclusive work held back returns to the queue.
LEMMA ReturnKeeps ==
  ASSUME IInv, NEW k \in Tasks, NEW outcome, Finish(k, outcome),
         NEW w \in Works, w = task[k].work, NEW t \in Threads, t = T(w),
         state = "running", reserved[t] = None, ~IsRun(w), retained[t] # None
  PROVE  IInv'
<1>1. /\ task[k].stage = "running" /\ task' \in [Tasks -> TaskType]
      /\ \A j \in Tasks \ {k} : task'[j] = task[j]
      /\ task'[k].work = w /\ task'[k].stage \in {"reconcile", "replay", "capacity"}
      /\ task'[k].stage # "replay" /\ ~task'[k].again
      /\ unresolved' \subseteq unresolved \cup {w} /\ w \notin unresolved'
      /\ UNCHANGED <<state, burst, drains, exclusives, gaveUp>>
      /\ active' = [active EXCEPT ![t] = None] /\ settling' \subseteq Works
  BY FinishIs
<1>2. /\ active[t] = w /\ Object(w) /\ ThreadSafe(t) /\ w # None /\ queued[t] = None
      /\ retained[t] # None => /\ IsRun(retained[t]) /\ T(retained[t]) = t
                               /\ work[retained[t]].uncertain /\ retained[t] # w
                               /\ retained[t] \in Works
      /\ \A v \in Works : Object(v) /\ T(v) = t => ~Contains(queue, v) /\ v \notin retry
  BY <1>1, EndingLane
<1>. PICK r \in Works : r = retained[t]
  BY <1>2
<1>3. /\ retained' = [retained EXCEPT ![t] = None]
      /\ queue' = InsertRunWork(queue, r, work[r].priority)
      /\ queued' = [queued EXCEPT ![t] = r]
      /\ rerun' = rerun \ {t}
      /\ kicked' = (kicked \/ state = "running")
      /\ UNCHANGED <<retry, timer, reserved, work, unsettled, owed>>
  BY DEF Finish, ReturnRetained, Kick, T, IsRun
<1>4. /\ work \in [Works -> WorkType] /\ queue \in Seq(Works) /\ Distinct(queue) /\ Sorted(queue, Ranks)
      /\ None \notin Works /\ queued \in Lane /\ reserved \in Lane /\ retained \in Lane
      /\ timer \in BOOLEAN /\ (retry # {} => timer) /\ rerun \subseteq Threads /\ owed \subseteq Threads
  BY QueueIsSorted, Typed DEF IInv, TypeOK, Awake
<1>5. r # w /\ Object(r) /\ IsRun(r) /\ T(r) = t /\ work[r].uncertain /\ ~Contains(queue, r) /\ r # None
  BY <1>2, <1>4 DEF Object, IsRun
<1>6. /\ queued' \in Lane /\ queued'[t] = r /\ retained' \in Lane /\ retained'[t] = None /\ active'[t] = None
      /\ \A s \in Threads \ {t} : queued'[s] = queued[s] /\ retained'[s] = retained[s]
  BY <1>1, <1>3, <1>4 DEF Lane, IInv, TypeOK
<1>7. /\ queue' \in Seq(Works) /\ queue' # <<>> /\ Distinct(queue)' /\ QueueByPriority'
      /\ \A v : Contains(queue', v) <=> Contains(queue, v) \/ v = r
  <2>. PICK p \in {"interactive", "backlog"} : p = work[r].priority
    BY <1>4, <1>5 DEF IInv, ObjectsKnown, WorkType
  <2>. QED BY <1>3, <1>4, <1>5, RunWorkQueued
<1>8. Ended(k, t, w, None)
  <2>1. rerun' \subseteq Threads /\ \A s \in Threads \ {t} : s \in rerun' <=> s \in rerun
    BY <1>3, <1>4
  <2>2. kicked' = TRUE /\ state \notin Shut
    BY <1>3 DEF Shut
  <2>3. w \notin retry
    BY <1>2
  <2>4. T(w)' = T(w) /\ (IsRun(w)' <=> IsRun(w)) /\ (Object(w)' <=> Object(w))
    BY <1>3 DEF T, IsRun, Object
  <2>5. retained[t] \in {retained'[t], queued'[t]} /\ (queued[t] # None => queued'[t] = queued[t])
    BY <1>2, <1>6
  <2>. QED BY <1>1, <1>3, <1>4, <1>5, <1>6, <1>7, <2>1, <2>2, <2>3, <2>4, <2>5 DEF Ended
<1>9. LaneSafe(t)'
  BY <1>3, <1>4, <1>5, <1>6 DEF LaneSafe, Object, IsRun, T
<1>10. WaitSafe(t)' /\ Covered(t)'
  BY <1>3, <1>5, <1>6, <1>7 DEF WaitSafe, Covered, IsRun
<1>. QED BY <1>1, <1>8, <1>9, <1>10, EndedKeeps

\* An admission without an answer waits for its timer, or for shutdown to replay it.
LEMMA BackOffKeeps ==
  ASSUME IInv, NEW k \in Tasks, NEW outcome, Finish(k, outcome),
         NEW w \in Works, w = task[k].work, NEW t \in Threads, t = T(w),
         outcome = "admission_failed", ~(state = "running" /\ reserved[t] # None)
  PROVE  IInv'
<1>1. /\ task[k].stage = "running" /\ task' \in [Tasks -> TaskType]
      /\ \A j \in Tasks \ {k} : task'[j] = task[j]
      /\ task'[k].work = w /\ task'[k].stage \in {"reconcile", "replay", "capacity"}
      /\ task'[k].stage = "replay" => state = "stopping"
      /\ state = "stopping" => task'[k].stage = "replay"
      /\ task'[k].again => state = "running"
      /\ unresolved' \subseteq unresolved \cup {w} /\ IsRun(w)
      /\ UNCHANGED <<state, burst, drains, exclusives, gaveUp>>
      /\ active' = [active EXCEPT ![t] = None] /\ settling' \subseteq Works
  BY FinishIs
<1>2. /\ active[t] = w /\ Object(w) /\ ThreadSafe(t) /\ w # None /\ state # "idle"
      /\ retained[t] = None /\ queued[t] = None /\ reserved[t] = None
      /\ state \in Shut => queue = <<>> /\ retry = {}
      /\ \A v \in Works : Object(v) /\ T(v) = t => ~Contains(queue, v) /\ v \notin retry
  <2>1. /\ active[t] = w /\ Object(w) /\ ThreadSafe(t) /\ w # None /\ state # "idle"
        /\ queued[t] # None => reserved[t] = queued[t]
        /\ reserved[t] # None => queued[t] = reserved[t]
        /\ retained[t] # None => ~IsRun(w)
        /\ state \in Shut => queued[t] = None /\ reserved[t] = None /\ retained[t] = None
                             /\ queue = <<>> /\ retry = {}
        /\ \A v \in Works : Object(v) /\ T(v) = t => ~Contains(queue, v) /\ v \notin retry
    BY <1>1, EndingLane
  <2>2. state = "running" \/ state \in Shut
    BY <2>1 DEF IInv, TypeOK, Shut
  <2>. QED BY <1>1, <2>1, <2>2
<1>3. /\ work' = (IF state = "closed" THEN work ELSE [work EXCEPT ![w].uncertain = TRUE])
      /\ IF state = "running"
         THEN /\ retry' = retry \cup {w}
              /\ queued' = [queued EXCEPT ![t] = w]
              /\ timer' = TRUE
         ELSE UNCHANGED <<retry, queued, timer>>
      /\ rerun' = rerun \ {t}
      /\ kicked' = (kicked \/ state = "running")
      /\ UNCHANGED <<queue, reserved, retained, unsettled, owed>>
  BY <1>1, <1>2 DEF Finish, BackOff, Kick, T, IsRun
<1>4. /\ work \in [Works -> WorkType] /\ queue \in Seq(Works) /\ Distinct(queue) /\ Sorted(queue, Ranks)
      /\ None \notin Works /\ queued \in Lane /\ reserved \in Lane /\ retained \in Lane
      /\ timer \in BOOLEAN /\ (retry # {} => timer) /\ rerun \subseteq Threads /\ owed \subseteq Threads
      /\ kicked \in BOOLEAN
  BY QueueIsSorted, Typed DEF IInv, TypeOK, Awake
<1>5. /\ work' \in [Works -> WorkType] /\ \A v \in Works \ {w} : work'[v] = work[v]
      /\ state # "closed" => work'[w].uncertain
      /\ T(w)' = T(w) /\ (IsRun(w)' <=> IsRun(w)) /\ (Object(w)' <=> Object(w))
      /\ work'[w].priority = work[w].priority
  <2>1. CASE state # "closed"
    BY <1>3, <1>4, <2>1, MarkUncertain
  <2>2. CASE state = "closed"
    BY <1>3, <1>4, <2>2 DEF T, IsRun, Object
  <2>. QED BY <2>1, <2>2
<1>6. /\ queued' \in Lane /\ \A s \in Threads \ {t} : queued'[s] = queued[s]
      /\ queued'[t] = (IF state = "running" THEN w ELSE None)
      /\ active'[t] = None /\ reserved'[t] = None /\ retained'[t] = None
  BY <1>1, <1>2, <1>3, <1>4 DEF Lane, IInv, TypeOK
<1>7. Distinct(queue)' /\ QueueByPriority'
  BY <1>3, <1>4, <1>5, QueueKept
<1>8. Ended(k, t, w, None)
  <2>1. rerun' \subseteq Threads /\ \A s \in Threads \ {t} : s \in rerun' <=> s \in rerun
    BY <1>3, <1>4
  <2>2. kicked' \in BOOLEAN /\ (state = "running" => kicked')
    BY <1>3, <1>4
  <2>3. /\ retry \subseteq retry' /\ retry' \subseteq retry \cup {w} /\ timer' \in BOOLEAN
        /\ (retry' # {} => timer')
        /\ state \in Shut => queue' = <<>> /\ retry' = {}
    BY <1>2, <1>3, <1>4 DEF Shut
  <2>4. w \in retry' => queued'[t] = w /\ IsRun(w) /\ work'[w].uncertain /\ ~Contains(queue', w)
    BY <1>1, <1>2, <1>3, <1>5, <1>6
  <2>5. w \in {queued'[t], retained'[t]} \/ ~task'[k].again
    BY <1>1, <1>6
  <2>6. w \in unresolved' =>
          /\ IsRun(w)
          /\ state # "closed" =>
                /\ work'[w].uncertain
                /\ w \in {queued'[t], retained'[t]} \/ task'[k].stage = "replay"
    <3>1. state \in {"running", "stopping", "closed"}
      BY <1>2 DEF IInv, TypeOK
    <3>. QED BY <1>1, <1>5, <1>6, <3>1
  <2>7. state \in Shut => queued'[t] = None
    BY <1>6 DEF Shut
  <2>8. \A v \in Works \ {w, None} : work'[v] = work[v]
    BY <1>5
  <2>9. state = "stopping" => state \in Shut
    BY DEF Shut
  <2>10. UNCHANGED <<queue, reserved, retained, unsettled, owed>>
    BY <1>3
  <2>11. \A s \in Threads \ {t} : reserved'[s] = reserved[s] /\ retained'[s] = retained[s]
    BY <1>3
  <2>. QED BY <1>1, <1>2, <1>4, <1>5, <1>6, <1>7, <2>1, <2>2, <2>3, <2>4, <2>5, <2>6, <2>7, <2>8,
              <2>9, <2>10, <2>11 DEF Ended
<1>9. LaneSafe(t)'
  BY <1>2, <1>5, <1>6 DEF LaneSafe, Object, IsRun, T
<1>10. WaitSafe(t)' /\ (state \notin Shut => Covered(t)')
  <2>1. state' \notin Shut => state = "running"
    BY <1>1, <1>2 DEF IInv, TypeOK, Shut
  <2>2. state = "running" => queued'[t] = w /\ w \in retry'
    BY <1>3, <1>6
  <2>3. IsRun(w)' /\ w # None
    BY <1>1, <1>2, <1>5
  <2>4. state = state'
    BY <1>1
  <2>. QED BY <2>1, <2>2, <2>3, <2>4 DEF WaitSafe, Covered, IsRun
<1>. QED BY <1>1, <1>8, <1>9, <1>10, EndedKeeps


\* The work is done, or has failed with no hint to replay, or its hint opens the
\* lane again.
LEMMA HintReplayKeeps ==
  ASSUME IInv, NEW k \in Tasks, NEW outcome, Finish(k, outcome),
         NEW w \in Works, w = task[k].work, NEW t \in Threads, t = T(w),
         outcome # "admission_failed", ~(state = "running" /\ reserved[t] # None),
         ~(~IsRun(w) /\ state = "running" /\ retained[t] # None)
  PROVE  IInv'
<1>1. /\ task[k].stage = "running" /\ task' \in [Tasks -> TaskType]
      /\ \A j \in Tasks \ {k} : task'[j] = task[j]
      /\ task'[k].work = w /\ task'[k].stage \in {"reconcile", "replay", "capacity"}
      /\ task'[k].stage = "replay" => state = "stopping" /\ IsRun(w)
      /\ outcome \in {"completed", "no_claim", "aborted"} => task'[k].stage = "reconcile"
      /\ ~task'[k].again
      /\ outcome \in RunOutcomes
      /\ unresolved' \subseteq unresolved \cup {w} /\ w \notin unresolved'
      /\ UNCHANGED <<state, burst, drains, exclusives, gaveUp>>
      /\ active' = [active EXCEPT ![t] = None] /\ settling' \subseteq Works
  BY FinishIs
<1>2. /\ active[t] = w /\ Object(w) /\ ThreadSafe(t) /\ w # None /\ state # "idle"
      /\ retained[t] = None /\ queued[t] = None /\ reserved[t] = None
      /\ state \in Shut => queue = <<>> /\ retry = {}
      /\ \A v \in Works : Object(v) /\ T(v) = t => ~Contains(queue, v) /\ v \notin retry
  <2>1. /\ active[t] = w /\ Object(w) /\ ThreadSafe(t) /\ w # None /\ state # "idle"
        /\ queued[t] # None => reserved[t] = queued[t]
        /\ reserved[t] # None => queued[t] = reserved[t]
        /\ retained[t] # None => ~IsRun(w)
        /\ state \in Shut => queued[t] = None /\ reserved[t] = None /\ retained[t] = None
                             /\ queue = <<>> /\ retry = {}
        /\ \A v \in Works : Object(v) /\ T(v) = t => ~Contains(queue, v) /\ v \notin retry
    BY <1>1, EndingLane
  <2>2. state = "running" \/ state \in Shut
    BY <2>1 DEF IInv, TypeOK, Shut
  <2>. QED BY <2>1, <2>2
<1>3. ReplayHint(t, outcome)
  BY <1>2 DEF Finish, T, IsRun
<1>4. /\ work \in [Works -> WorkType] /\ queue \in Seq(Works) /\ Distinct(queue) /\ Sorted(queue, Ranks)
      /\ None \notin Works /\ queued \in Lane /\ reserved \in Lane /\ retained \in Lane
      /\ timer \in BOOLEAN /\ (retry # {} => timer) /\ rerun \subseteq Threads /\ owed \subseteq Threads
      /\ kicked \in BOOLEAN
  BY QueueIsSorted, Typed DEF IInv, TypeOK, Awake
<1>5. active'[t] = None
  BY <1>1 DEF Lane, IInv, TypeOK
<1>6. CASE state = "running" /\ outcome = "threw" /\ t \in rerun
  <2>1. /\ NewLane(t, "interactive", rerun \ {t}) /\ kicked' = TRUE
        /\ UNCHANGED <<retry, timer, reserved, retained, owed>>
    BY <1>2, <1>3, <1>6 DEF ReplayHint, Scheduled, Kick
  <2>. PICK n \in Works : Hinted(t, n) /\ \A v \in Works \ {n} : work'[v] = work[v]
    BY <1>2, <2>1, NewLaneIs
  <2>2. rerun' = rerun \ {t}
    BY <1>2, <2>1, NewLaneIs
  <2>3. n # w /\ n # None /\ ~Object(n) /\ ~HeldByTask(n)
    <3>1. n # None /\ ~Object(n)
      BY <1>4 DEF Hinted
    <3>. QED BY <1>2, <3>1, FreshWork
  <2>4. Ended(k, t, w, n)
    <3>1. /\ work'[n].thread = t /\ work'[n].kind = "run"
          /\ work'[n].priority # "control" /\ ~work'[n].uncertain /\ queued'[t] = n
      BY <2>3 DEF Hinted
    <3>2. T(w)' = T(w) /\ (IsRun(w)' <=> IsRun(w)) /\ (Object(w)' <=> Object(w)) /\ work'[w] = work[w]
      BY <2>3 DEF T, IsRun, Object
    <3>3. /\ queue' \in Seq(Works) /\ Distinct(queue)' /\ QueueByPriority'
          /\ \A v : Contains(queue', v) <=> Contains(queue, v) \/ v = n
          /\ queued' \in Lane /\ work' \in [Works -> WorkType]
          /\ \A s \in Threads \ {t} : queued'[s] = queued[s]
          /\ unsettled' = unsettled \cup {n}
      BY <2>3 DEF Hinted
    <3>4. state \notin Shut /\ w \notin retry /\ unsettled' \subseteq unsettled \cup ({n} \ {None})
      BY <1>2, <1>6, <2>3, <3>3 DEF Shut
    <3>5. rerun' \subseteq Threads /\ \A s \in Threads \ {t} : s \in rerun' <=> s \in rerun
      BY <1>4, <2>2
    <3>6. /\ \A v : Contains(queue, v) => Contains(queue', v)
          /\ \A v : Contains(queue', v) => Contains(queue, v) \/ (v = queued'[t] /\ v # None)
      BY <2>3, <3>1, <3>3
    <3>7. \A v \in Works \ {w, n} : work'[v] = work[v]
      OBVIOUS
    <3>8. \A s \in Threads \ {t} : reserved'[s] = reserved[s] /\ retained'[s] = retained[s]
      BY <2>1
    <3>9. task'[k].stage # "replay" /\ w \notin retry' /\ w \notin unresolved' /\ ~task'[k].again
      BY <1>1, <1>6, <2>1, <3>4
    <3>. QED BY <1>1, <1>2, <1>4, <2>1, <2>3, <3>1, <3>2, <3>3, <3>4, <3>5, <3>6, <3>7, <3>8, <3>9
             DEF Ended
  <2>5. queued'[t] = n /\ work'[n].kind = "run" /\ work'[n].thread = t /\ Contains(queue', n)
    BY <2>3 DEF Hinted
  <2>6. ~HeldByTask(n)'
    BY <1>1, <2>3 DEF HeldByTask
  <2>7. LaneSafe(t)'
    BY <1>2, <1>5, <2>1, <2>3, <2>5, <2>6 DEF LaneSafe, Object, T, HeldByTask
  <2>8. WaitSafe(t)' /\ Covered(t)'
    BY <2>3, <2>5 DEF WaitSafe, Covered, IsRun
  <2>. QED BY <1>1, <2>4, <2>7, <2>8, EndedKeeps
<1>7. CASE ~(state = "running" /\ outcome = "threw" /\ t \in rerun)
  <2>1. /\ rerun' = rerun \ {t} /\ kicked' = (kicked \/ state = "running")
        /\ owed' = (IF outcome = "lost" THEN owed \ {t} ELSE owed)
        /\ UNCHANGED <<queue, queued, retry, timer, reserved, retained, work, unsettled>>
    BY <1>3, <1>7 DEF ReplayHint, DropHint, Kick
  <2>2. Distinct(queue)' /\ QueueByPriority'
    BY <1>4, <2>1, QueueKept
  <2>3. Ended(k, t, w, None)
    <3>1. rerun' \subseteq Threads /\ \A s \in Threads \ {t} : s \in rerun' <=> s \in rerun
      BY <1>4, <2>1
    <3>2. kicked' \in BOOLEAN /\ (state = "running" => kicked')
      BY <1>4, <2>1
    <3>3. owed' \subseteq owed
      BY <2>1
    <3>4. T(w)' = T(w) /\ (IsRun(w)' <=> IsRun(w)) /\ (Object(w)' <=> Object(w))
      BY <2>1 DEF T, IsRun, Object
    <3>5. w \notin retry /\ (task'[k].stage = "replay" => state \in Shut)
      BY <1>1, <1>2 DEF Shut
    <3>. QED BY <1>1, <1>2, <1>4, <2>1, <2>2, <3>1, <3>2, <3>3, <3>4, <3>5 DEF Ended
  <2>4. LaneSafe(t)'
    BY <1>2, <1>5, <2>1 DEF LaneSafe
  <2>5. WaitSafe(t)'
    BY <1>2, <2>1 DEF WaitSafe
  <2>6. ASSUME state \notin Shut, t \in owed' PROVE Covered(t)'
    <3>1. Covered(t) /\ state = "running" /\ outcome # "lost"
      BY <1>2, <2>1, <2>6 DEF ThreadSafe, IInv, TypeOK, Shut
    <3>2. CASE task'[k].stage = "reconcile"
      <4>1. ThreadOf(k)' = t
        BY <1>1, <2>1 DEF ThreadOf, T
      <4>. QED BY <3>2, <4>1 DEF Covered, Reconciling
    <3>3. CASE task'[k].stage # "reconcile"
      <4>1. outcome = "threw"
        BY <1>1, <3>1, <3>3 DEF RunOutcomes
      <4>2. PICK j \in Tasks : task[j].stage \in Reconciling /\ ThreadOf(j) = t
        BY <1>2, <1>7, <3>1, <4>1 DEF Covered
      <4>3. task'[j] = task[j]
        BY <1>1, <4>2 DEF Reconciling
      <4>. QED BY <2>1, <4>2, <4>3 DEF Covered, ThreadOf
    <3>. QED BY <3>2, <3>3
  <2>. QED BY <1>1, <2>3, <2>4, <2>5, <2>6, EndedKeeps
<1>. QED BY <1>6, <1>7

LEMMA FinishKeeps == ASSUME IInv, NEW k \in Tasks, NEW outcome, Finish(k, outcome) PROVE IInv'
<1>1. task[k].stage = "running"
  BY DEF Finish
<1>. PICK w \in Works, t \in Threads : w = task[k].work /\ t = T(w)
  BY <1>1, TaskThread
<1>. QED BY YieldKeeps, ReturnKeeps, BackOffKeeps, HintReplayKeeps

-------------------------------------------------------------------------------
\* Shutdown.

\* What shutdown takes back waits in a lane in which no run executes, and whatever a
\* task holds stays an object.
LEMMA RejectableIs ==
  ASSUME IInv, state \in {"idle", "running"}, NEW w \in Rejectable
  PROVE  /\ w \in Works /\ Object(w) /\ T(w) \in Threads /\ w # None
         /\ \A t \in Threads : active[t] # w
         /\ IsRun(w) => active[T(w)] = None \/ ~IsRun(active[T(w)])
         /\ ~(IsRun(w) /\ work[w].uncertain) => queued[T(w)] = w /\ ~HeldByTask(w)
<1>. PICK t \in Threads : w # None /\ (queued[t] = w \/ retained[t] = w)
  BY DEF Rejectable, Values
<1>1. /\ w \in Works /\ Object(w) /\ T(w) = t /\ LaneSafe(t) /\ ActiveSafe(t)
  BY Typed DEF IInv, ThreadSafe, LaneSafe, Object, IsRun
<1>2. ~IsRun(w) => ~work[w].uncertain
  BY <1>1 DEF IInv, ObjectsKnown
<1>3. ~(IsRun(w) /\ work[w].uncertain) => queued[t] = w /\ ~HeldByTask(w)
  BY <1>1, <1>2 DEF LaneSafe
<1>4. IsRun(w) => active[t] = None \/ ~IsRun(active[t])
  BY <1>1 DEF LaneSafe
<1>5. active[t] # w
  <2>1. CASE IsRun(w)
    BY <1>4, <2>1
  <2>2. CASE ~IsRun(w) /\ active[t] = w
    <3>1. HeldByTask(w)
      BY <1>1, <2>2 DEF ActiveSafe, HeldByTask, Executing
    <3>. QED BY <1>3, <2>2, <3>1
  <2>. QED BY <2>1, <2>2
<1>6. \A s \in Threads : active[s] # w
  BY <1>1, <1>5 DEF IInv, ThreadSafe, LaneSafe
<1>. QED BY <1>1, <1>3, <1>4, <1>6

LEMMA StopKeeps == ASSUME IInv, Stop PROVE IInv'
<1>. DEFINE replayed == {w \in Rejectable : work[w].kind = "run" /\ work[w].uncertain}
            Gone(w)  == w \in Rejectable \ replayed /\ ~HeldByTask(w)
<1>1. /\ state \in {"idle", "running"} /\ state' \in Shut /\ drains = {}
      /\ state' = "closed" => state = "idle"
      /\ queue' = <<>> /\ retry' = {} /\ timer' = FALSE /\ rerun' = {}
      /\ reserved' = [t \in Threads |-> None] /\ retained' = [t \in Threads |-> None]
      /\ queued' = [t \in Threads |->
                      IF \E w \in Rejectable : work[w].thread = t THEN None ELSE queued[t]]
      /\ drains' = (IF state = "idle" THEN {} ELSE replayed)
      /\ unsettled' = unsettled \ (Rejectable \ replayed)
      /\ work' = [w \in Works |-> IF Gone(w) THEN Blank ELSE work[w]]
      /\ UNCHANGED <<active, settling, kicked, burst, task, exclusives, unresolved, owed, gaveUp>>
  BY DEF Stop, RejectQueued, ghosts, IInv, StateSafe, Shut
<1>2. /\ work' \in [Works -> WorkType] /\ \A w \in Works : work'[w] = IF Gone(w) THEN Blank ELSE work[w]
      /\ work \in [Works -> WorkType] /\ None \notin Works
  BY <1>1, BlankTyped, Typed DEF IInv, TypeOK
<1>3. ASSUME NEW t \in Threads
      PROVE  queued'[t] = None /\ reserved'[t] = None /\ retained'[t] = None /\ ThreadSafe(t)
  <2>1. queued[t] # None => queued[t] \in Rejectable /\ work[queued[t]].thread = t
    BY DEF Rejectable, Values, IInv, ThreadSafe, LaneSafe, T
  <2>. QED BY <1>1, <2>1 DEF IInv
<1>4. ASSUME NEW w \in Works, Gone(w)
      PROVE  /\ queued[T(w)] = w /\ T(w) \in Threads /\ ~(IsRun(w) /\ work[w].uncertain)
             /\ w \notin drains' \cup unsettled' /\ ~(w \in unresolved /\ ~gaveUp)
             /\ \A s \in Threads : active[s] # w
  <2>1. w \in Rejectable /\ ~(IsRun(w) /\ work[w].uncertain)
    BY <1>4 DEF IsRun
  <2>2. queued[T(w)] = w /\ T(w) \in Threads /\ Object(w) /\ \A s \in Threads : active[s] # w
    BY <1>1, <2>1, RejectableIs
  <2>3. ~(w \in unresolved /\ ~gaveUp)
    BY <2>1, <2>2 DEF IInv, ThreadSafe, ObjectSafe
  <2>. QED BY <1>1, <1>4, <2>1, <2>2, <2>3
<1>5. ASSUME NEW j \in Tasks, task[j].stage # "idle"
      PROVE  /\ task[j].work \in Works /\ work'[task[j].work] = work[task[j].work]
             /\ Object(task[j].work) /\ ThreadOf(j)' = ThreadOf(j)
  <2>1. task[j].work \in Works /\ Object(task[j].work) /\ HeldByTask(task[j].work)
    BY <1>5 DEF IInv, ObjectsKnown, HeldByTask
  <2>. QED BY <1>1, <1>2, <2>1 DEF ThreadOf
<1>6. ASSUME NEW w \in Works, Object(w)' PROVE Object(w) /\ ~Gone(w) /\ work'[w] = work[w]
  BY <1>2, <1>6, BlankTyped DEF Object
<1>7. ASSUME NEW w \in replayed
      PROVE  /\ w \in Works /\ Object(w) /\ IsRun(w) /\ ~Gone(w)
             /\ active[T(w)] = None \/ ~IsRun(active[T(w)])
  BY <1>1, RejectableIs DEF IsRun
<1>8. \A s \in Threads : active[s] # None =>
         active[s] \in Works /\ work'[active[s]] = work[active[s]] /\ Object(active[s]) /\ T(active[s]) = s
  <2>1. \A s \in Threads : active[s] # None => active[s] \in Works /\ Object(active[s]) /\ T(active[s]) = s
    BY Typed DEF IInv, ThreadSafe, LaneSafe
  <2>. QED BY <1>2, <1>4, <2>1
<1>9. state = "idle" => replayed = {}
  <2>1. \A w \in replayed : w \in Works /\ work[w].uncertain
    BY <1>7
  <2>. QED BY <2>1 DEF IInv, StateSafe
<1>10. drains' = replayed
  BY <1>1, <1>9
<1>11. ASSUME NEW w \in Works, InLane(w, T(w)), T(w) \in Threads,
              w \in unsettled' \/ (IsRun(w) /\ work[w].uncertain)
       PROVE  active[T(w)] = w \/ w \in drains'
  <2>1. CASE queued[T(w)] = w \/ retained[T(w)] = w
    <3>1. w \in Rejectable
      BY <1>2, <1>11, <2>1 DEF Rejectable, Values
    <3>. QED BY <1>1, <1>10, <1>11, <3>1 DEF IsRun
  <2>. QED BY <1>11, <2>1 DEF InLane
<1>. HIDE DEF Gone, replayed
<1>12. TypeOK'
  <2>1. queued' \in Lane /\ reserved' \in Lane /\ retained' \in Lane
    <3>1. queued' = [t \in Threads |-> None]
      BY <1>1, <1>3
    <3>. QED BY <1>1, <3>1 DEF Lane
  <2>2. drains' \subseteq Works /\ unsettled' \subseteq Works /\ queue' \in Seq(Works)
    BY <1>1, <1>7, <1>10, EmptySeq DEF IInv, TypeOK
  <2>. QED BY <1>1, <1>2, <2>1, <2>2 DEF IInv, TypeOK, Shut
<1>13. ObjectsKnown'
  <2>1. ASSUME NEW v \in Works
        PROVE  /\ Object(v)' => T(v)' \in Threads
               /\ ~IsRun(v)' => ~work'[v].uncertain
               /\ Object(v)' => (IsRun(v)' <=> work'[v].priority # "control")
    BY <1>2 DEF IInv, ObjectsKnown, Object, T, IsRun, Blank
  <2>2. ASSUME NEW v \in Works,
               \/ Contains(queue', v) \/ v \in retry' \cup drains' \cup unsettled'
               \/ v \in unresolved' /\ ~gaveUp'
        PROVE  Object(v)'
    <3>1. ~Contains(queue', v) /\ v \notin retry'
      BY <1>1 DEF Contains
    <3>2. ~Gone(v)
      BY <1>1, <1>4, <2>2, <3>1
    <3>3. Object(v)
      BY <1>1, <1>7, <1>10, <2>2, <3>1 DEF IInv, ObjectsKnown
    <3>. QED BY <1>2, <3>2, <3>3 DEF Object
  <2>3. \A j \in Tasks : task'[j].stage # "idle" => task'[j].work \in Works /\ Object(task[j].work)'
    BY <1>1, <1>5 DEF Object
  <2>. QED BY <1>1, <2>1, <2>2, <2>3 DEF ObjectsKnown
<1>14. ASSUME NEW t \in Threads PROVE ThreadSafe(t)'
  <2>1. LaneSafe(t)'
    BY <1>1, <1>3, <1>8 DEF LaneSafe, Object, T
  <2>2. ASSUME NEW v \in Works, Object(v)', T(v)' = t PROVE ObjectSafe(v, t)'
    <3>1. Object(v) /\ work'[v] = work[v] /\ T(v) = t
      BY <1>6, <2>2 DEF T
    <3>2. ObjectSafe(v, t)
      BY <1>3, <3>1 DEF ThreadSafe
    <3>3. v \in drains' => IsRun(v)' /\ (active'[t] # None => ~IsRun(active[t])')
      BY <1>1, <1>7, <1>8, <1>10, <3>1 DEF IsRun
    <3>4. v \in unsettled' =>
             \/ InLane(v, t)' \/ v \in drains'
             \/ \E j \in Tasks : task'[j].work = v /\ task'[j].stage # "idle" /\ ~task'[j].again
      BY <1>1, <1>11, <3>1, <3>2 DEF ObjectSafe, InLane
    <3>5. ~gaveUp' /\ v \in unresolved' =>
             /\ IsRun(v)' /\ work'[v].uncertain
             /\ \/ InLane(v, t)' \/ v \in drains'
                \/ \E j \in Tasks : task'[j].work = v /\ task'[j].stage = "replay"
      <4>. SUFFICES ASSUME ~gaveUp', v \in unresolved'
                    PROVE  /\ IsRun(v)' /\ work'[v].uncertain
                           /\ \/ InLane(v, t)' \/ v \in drains'
                              \/ \E j \in Tasks : task'[j].work = v /\ task'[j].stage = "replay"
        OBVIOUS
      <4>1. IsRun(v) /\ work[v].uncertain
        BY <1>1, <3>2 DEF ObjectSafe
      <4>2. InLane(v, t) => active'[t] = v \/ v \in drains'
        BY <1>1, <1>11, <3>1, <4>1
      <4>3. \/ InLane(v, t)' \/ v \in drains'
            \/ \E j \in Tasks : task'[j].work = v /\ task'[j].stage = "replay"
        BY <1>1, <3>2, <4>2 DEF ObjectSafe, InLane
      <4>. QED BY <3>1, <4>1, <4>3 DEF IsRun
    <3>6. ~Contains(queue', v) /\ v \notin retry'
      BY <1>1 DEF Contains
    <3>. QED BY <3>3, <3>4, <3>5, <3>6 DEF ObjectSafe
  <2>3. ASSUME NEW j \in Tasks, task'[j].stage # "idle", ThreadOf(j)' = t PROVE TaskSafe(j, t)'
    <3>1. TaskSafe(j, t)
      BY <1>1, <1>3, <1>5, <2>3 DEF ThreadSafe
    <3>. QED BY <1>1, <3>1 DEF TaskSafe, Shut
  <2>4. ActiveSafe(t)'
    <3>1. Executing' = Executing
      BY <1>1 DEF Executing
    <3>2. \A j \in Executing : j \in Tasks /\ ThreadOf(j)' = ThreadOf(j)
      BY <1>5 DEF Executing
    <3>. QED BY <1>1, <1>3, <3>1, <3>2 DEF ThreadSafe, ActiveSafe
  <2>. QED BY <1>1, <2>1, <2>2, <2>3, <2>4 DEF ThreadSafe, WaitSafe
<1>15. Distinct(queue)' /\ QueueByPriority'
  BY <1>1 DEF Distinct, QueueByPriority
<1>16. LanesBounded' /\ Awake'
  BY <1>1 DEF IInv, LanesBounded, ActiveLanes, Awake, HasCapacity
<1>17. StateSafe'
  <2>1. state = "idle" => drains' = {} /\ \A k \in Tasks : task'[k].stage = "idle"
    BY <1>1 DEF IInv, StateSafe
  <2>. QED BY <1>1, <1>3, <2>1 DEF StateSafe, Shut
<1>. QED BY <1>12, <1>13, <1>14, <1>15, <1>16, <1>17 DEF IInv
-------------------------------------------------------------------------------
\* The theorems.

LEMMA NextInvariant == IInv /\ [Next]_vars => IInv'
<1>. SUFFICES ASSUME IInv, [Next]_vars PROVE IInv'
  OBVIOUS
<1>. USE DEF Next
<1>1. ASSUME NEW t \in Threads, NEW p \in {"interactive", "backlog"}, Schedule(t, p) PROVE IInv'
  BY <1>1, ScheduleKeeps
<1>2. ASSUME NEW t \in Threads, RunExclusively(t) PROVE IInv'
  BY <1>2, ExclusiveKeeps
<1>3. ASSUME NEW k \in Tasks, NEW outcome \in RunOutcomes, Finish(k, outcome) PROVE IInv'
  BY <1>3, FinishKeeps
<1>4. ASSUME NEW k \in Tasks, NEW runnable \in BOOLEAN, Read(k, runnable) PROVE IInv'
  BY <1>4, ReadKeeps
<1>5. ASSUME NEW k \in Tasks, Reconcile(k) \/ Replay(k) \/ Settle(k) PROVE IInv'
  BY <1>5, ReconcileKeeps, ReplayKeeps, SettleKeeps
<1>6. ASSUME NEW w \in Works, Release(w) \/ DrainAdmission(w) PROVE IInv'
  BY <1>6, ReleaseKeeps, DrainAdmissionKeeps
<1>7. CASE Start \/ Stop \/ Close \/ Drain \/ EndOfDrain \/ UNCHANGED vars
  BY <1>7, StartKeeps, StopKeeps, CloseKeeps, DrainKeeps, EndOfDrainKeeps, StutterKeeps
<1>. QED BY <1>1, <1>2, <1>3, <1>4, <1>5, <1>6, <1>7

LEMMA Invariance == Spec => []IInv
<1>. QED BY InitInvariant, NextInvariant, PTL DEF Spec

\* Type correctness of the scheduler's collections (thread-scheduler.ts: the maps
\* and arrays of a ThreadExecutionScheduler).
THEOREM TypeCorrect == Spec => []TypeOK
<1>1. IInv => TypeOK
  BY DEF IInv
<1>. QED BY <1>1, Invariance, PTL

\* However hints, exclusive operations, retries and shutdown interleave, a thread is
\* executed by one task at a time, and at most maxConcurrentRuns tasks execute.
THEOREM ThreadsExecuteOnce == Spec => []OneExecutionPerThread
<1>. QED BY ExecutionsAreSafe, Invariance, PTL

\* The order insertRunWork and takeNextWork rely on: control work is before
\* interactive work, and interactive work before backlog.
THEOREM PriorityOrder == Spec => []QueueByPriority
<1>1. IInv => QueueByPriority
  BY DEF IInv
<1>. QED BY <1>1, Invariance, PTL

\* No lost wake-up: while the scheduler runs, the queue, a delayed admission, a
\* reserved operation, a retained run and a remembered hint each have what wakes them.
THEOREM WaitsHaveWakers == Spec => []EveryWaitHasAWaker
<1>. QED BY WaitsAreSafe, Invariance, PTL

\* Every promise that runExclusively() or a run has left unsettled belongs to work
\* the scheduler, its shutdown or an execution still holds.
THEOREM PromisesAreKept == Spec => []NoForgottenPromise
<1>. QED BY PromisesAreSafe, Invariance, PTL

\* A claim that may have committed keeps its run id until it is answered or the
\* shutdown deadline has passed, and its thread starts no other run meanwhile.
THEOREM ClaimsKeepTheirIds == Spec => []AmbiguousClaimIsKept
<1>. QED BY ClaimsAreSafe, Invariance, PTL

\* schedule() is never forgotten while the scheduler runs: a hint is represented
\* until an execution begins or the durable state has been read after it.
THEOREM HintsAreKept == Spec => []HintsAreCovered
<1>. QED BY HintsAreSafe, Invariance, PTL
================================================================================
