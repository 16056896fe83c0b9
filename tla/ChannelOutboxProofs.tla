-------------------------- MODULE ChannelOutboxProofs --------------------------
(***************************************************************************)
(* For any rows, processes, receipt attempts and faults: a row is claimed  *)
(* once, so it is transmitted at most once, and what its terminal status   *)
(* says is what the adapter said of it.                                    *)
(***************************************************************************)
EXTENDS ChannelOutbox, TLAPS

Answering(p) == worker[p].phase \in {"write", "read", "mark", "check"}

Sending(p) == worker[p].phase \in {"claimed", "sending", "sent"}

\* The worker of p has been given a row by a claim.
Engaged(p) == Sending(p) \/ Answering(p)

\* A row is claimed once in its life; the one token it ever had is 1, and a row
\* without a token never left the queue.
RowSafe(r) ==
    /\ row[r].claims \in {0, 1} /\ row[r].token \in {0, row[r].claims}
    /\ row[r].status \in {"absent", "pending"} => row[r].claims = 0
    /\ row[r].status \in {"sending", "unknown", "sent"} => row[r].token = 1
    /\ row[r].status = "expired" => row[r].token = 0
    /\ row[r].token = 0 => sends[r] = 0 /\ answer[r] = {}
    /\ sends[r] <= 1
    /\ row[r].status = "sent" => "sent" \in answer[r]
    /\ row[r].status = "failed" /\ row[r].token # 0 => "failed" \in answer[r]

\* An engaged worker holds its row's token, and how far it is tells what has
\* been transmitted and answered.
WorkerSafe(p) ==
    /\ worker[p].phase \notin {"off", "idle"} => worker[p].row \in Row
    /\ Engaged(p) => worker[p].token = 1 /\ row[worker[p].row].token = 1
    /\ Sending(p) => answer[worker[p].row] = {}
    /\ worker[p].phase \in {"claimed", "sending"} => sends[worker[p].row] = 0
    /\ Answering(p) => worker[p].outcome \in answer[worker[p].row]

OneClaimant ==
    \A p, q \in Process :
        Engaged(p) /\ Engaged(q) /\ worker[p].row = worker[q].row => p = q

\* A delayed receipt says what the adapter said; a delayed mark is an unknown.
LateSafe(s) == s.token = 1 /\ (s.status # "unknown" => s.status \in answer[s.row])

\* Whoever holds the session's lock found it live, and a row whose insert holds
\* the lock is not in the table.
LockSafe ==
    /\ locker # None => ~archived
    /\ locker \in Row => row[locker].status = "absent"

IInv ==
    /\ TypeOK
    /\ \A r \in Row : RowSafe(r)
    /\ \A p \in Process : WorkerSafe(p)
    /\ OneClaimant
    /\ \A s \in late : LateSafe(s)
    /\ LockSafe /\ ArchivedSessionIsQuiet

-------------------------------------------------------------------------------
LEMMA IdleTyped == Idle \in WorkerType /\ Off \in WorkerType /\ Idle.phase = "idle" /\ Off.phase = "off"
  BY OutboxAssumption DEF Idle, Off, WorkerType

LEMMA InitInvariant == Init => IInv
<1>. SUFFICES ASSUME Init PROVE IInv
  OBVIOUS
<1>1. TypeOK
  <2>1. row \in [Row -> RowType] /\ sends \in [Row -> Nat]
        /\ answer \in [Row -> SUBSET {"sent", "failed"}]
    BY DEF Init, RowType, Settled
  <2>2. worker \in [Process -> WorkerType]
    BY IdleTyped DEF Init
  <2>3. archived \in BOOLEAN
    BY DEF Init
  <2>4. /\ due \subseteq Expiring /\ locker \in Row \cup Process \cup {None}
        /\ holder \in Process \cup {None} /\ faults \in 0 .. MaxFaults
        /\ late \subseteq [row : Row, token : Nat, status : {"sent", "failed", "unknown"}]
    BY OutboxAssumption DEF Init
  <2>5. process \in [Process -> {"up", "stopping", "down"}]
    BY DEF Init
  <2>. QED BY <2>1, <2>2, <2>3, <2>4, <2>5 DEF TypeOK
<1>2. \A p \in Process : worker[p].phase = "off"
  BY DEF Init, Off
<1>3. \A r \in Row : /\ row[r] = [status |-> "absent", claims |-> 0, token |-> 0]
                     /\ sends[r] = 0 /\ answer[r] = {}
  BY DEF Init
<1>4. late = {} /\ locker = None /\ archived = FALSE
  BY DEF Init
<1>. QED
  BY <1>1, <1>2, <1>3, <1>4, OutboxAssumption
     DEF IInv, RowSafe, WorkerSafe, OneClaimant, LateSafe, LockSafe, ArchivedSessionIsQuiet,
         Engaged, Sending, Answering

LEMMA StutterInvariant == IInv /\ UNCHANGED vars => IInv'
  BY DEF vars, IInv, TypeOK, RowSafe, WorkerSafe, OneClaimant, LateSafe, LockSafe,
         ArchivedSessionIsQuiet, Engaged, Sending, Answering

\* What TypeOK says of one row and one worker.
LEMMA Typed ==
  ASSUME TypeOK
  PROVE  /\ \A r \in Row : row[r] \in RowType /\ sends[r] \in Nat
                           /\ answer[r] \in SUBSET {"sent", "failed"}
         /\ \A p \in Process : worker[p] \in WorkerType
         /\ row \in [Row -> RowType] /\ worker \in [Process -> WorkerType]
  BY DEF TypeOK

LEMMA Override ==
  ASSUME NEW S, NEW T, NEW f \in [S -> T], NEW x \in S, NEW y \in T
  PROVE  LET g == [f EXCEPT ![x] = y] IN
         g \in [S -> T] /\ g[x] = y /\ \A z \in S \ {x} : g[z] = f[z]
  OBVIOUS

\* SetWorker replaces one worker.
LEMMA SetWorkerEffect ==
  ASSUME TypeOK, NEW p \in Process, NEW w \in WorkerType, SetWorker(p, w)
  PROVE  /\ worker' \in [Process -> WorkerType]
         /\ worker'[p] = w
         /\ \A q \in Process \ {p} : worker'[q] = worker[q]
  BY Typed, Override DEF SetWorker

Phases == {"off", "idle", "overdue", "picked", "locked", "claimed", "sending", "sent",
           "write", "read", "mark", "check"}

\* Phase moves one worker and keeps its work.
LEMMA PhaseEffect ==
  ASSUME TypeOK, NEW p \in Process, NEW x \in Phases, Phase(p, x)
  PROVE  /\ worker' \in [Process -> WorkerType]
         /\ worker'[p].phase = x /\ worker'[p].row = worker[p].row
         /\ worker'[p].token = worker[p].token /\ worker'[p].outcome = worker[p].outcome
         /\ \A q \in Process \ {p} : worker'[q] = worker[q]
<1>. DEFINE w == [worker[p] EXCEPT !.phase = x]
<1>1. w \in WorkerType /\ w.phase = x /\ w.row = worker[p].row
      /\ w.token = worker[p].token /\ w.outcome = worker[p].outcome
  BY Typed DEF WorkerType, Phases
<1>2. SetWorker(p, w)
  BY DEF Phase
<1>. HIDE DEF w
<1>. QED BY <1>1, <1>2, SetWorkerEffect

-------------------------------------------------------------------------------
\* A step of one worker on one row keeps the invariant if it keeps it for both
\* and either nobody else can hold the row or what others know of it is kept.
LEMMA WorkerStep ==
  ASSUME IInv, TypeOK', NEW p \in Process, NEW r,
         \A q \in Process \ {p} : worker'[q] = worker[q],
         \A x \in Row \ {r} :
            row'[x] = row[x] /\ sends'[x] = sends[x] /\ answer'[x] = answer[x],
         answer[r] \subseteq answer'[r],
         \/ Engaged(p) /\ worker[p].row = r
         \/ row[r].token # 1
         \/ row'[r].token = row[r].token /\ sends'[r] = sends[r] /\ answer'[r] = answer[r],
         Engaged(p)' => \/ Engaged(p) /\ worker'[p].row = worker[p].row
                        \/ worker'[p].row = r /\ row[r].token # 1,
         r \in Row => RowSafe(r)', WorkerSafe(p)',
         \A s \in late' : s \in late \/ LateSafe(s)',
         LockSafe', ArchivedSessionIsQuiet'
  PROVE  IInv'
<1>1. ASSUME NEW x \in Row PROVE RowSafe(x)'
  BY DEF IInv, RowSafe
<1>2. ASSUME NEW q \in Process, q # p, Engaged(q), worker[q].row = r
      PROVE  /\ row'[r].token = row[r].token
             /\ sends'[r] = sends[r] /\ answer'[r] = answer[r]
  <2>1. row[r].token = 1
    BY <1>2 DEF IInv, WorkerSafe
  <2>2. ~(Engaged(p) /\ worker[p].row = r)
    BY <1>2 DEF IInv, OneClaimant
  <2>. QED BY <2>1, <2>2
<1>3. ASSUME NEW q \in Process PROVE WorkerSafe(q)'
  <2>1. CASE q = p
    BY <2>1
  <2>2. CASE q # p
    <3>1. WorkerSafe(q) /\ worker'[q] = worker[q]
      BY <2>2 DEF IInv
    <3>2. Engaged(q)' = Engaged(q) /\ Sending(q)' = Sending(q) /\ Answering(q)' = Answering(q)
      BY <3>1 DEF Engaged, Sending, Answering
    <3>3. ASSUME Engaged(q)
          PROVE  LET x == worker[q].row IN
                 /\ x \in Row
                 /\ row'[x].token = row[x].token
                 /\ sends'[x] = sends[x] /\ answer'[x] = answer[x]
      BY <1>2, <2>2, <3>1, <3>3 DEF WorkerSafe, Engaged, Sending, Answering
    <3>. QED BY <3>1, <3>2, <3>3 DEF WorkerSafe, Engaged, Sending
  <2>. QED BY <2>1, <2>2
<1>4. OneClaimant'
  <2>1. ASSUME NEW q \in Process, q # p, Engaged(q)', Engaged(p)', worker'[p].row = worker'[q].row
        PROVE  FALSE
    <3>1. Engaged(q) /\ worker'[q].row = worker[q].row
      BY <2>1 DEF Engaged, Sending, Answering
    <3>2. row[worker[q].row].token = 1
      BY <3>1 DEF IInv, WorkerSafe
    <3>. QED BY <2>1, <3>1, <3>2 DEF IInv, OneClaimant
  <2>2. ASSUME NEW q \in Process, NEW k \in Process, q # p, k # p, Engaged(q)', Engaged(k)',
               worker'[q].row = worker'[k].row
        PROVE  q = k
    BY <2>2 DEF IInv, OneClaimant, Engaged, Sending, Answering
  <2>. QED BY <2>1, <2>2 DEF OneClaimant
<1>5. ASSUME NEW s \in late' PROVE LateSafe(s)'
  <2>1. CASE s \in late
    <3>1. LateSafe(s) /\ s.row \in Row
      BY <2>1 DEF IInv, TypeOK
    <3>. QED BY <3>1 DEF LateSafe
  <2>. QED BY <1>5, <2>1
<1>. QED BY <1>1, <1>3, <1>4, <1>5 DEF IInv

\* A step of one worker that leaves the rows alone.
LEMMA WorkerOnly ==
  ASSUME IInv, TypeOK', NEW p \in Process,
         \A q \in Process \ {p} : worker'[q] = worker[q],
         UNCHANGED <<row, archived, sends, answer>>,
         locker' \in {locker, None},
         Engaged(p)' => Engaged(p) /\ worker'[p].row = worker[p].row,
         WorkerSafe(p)',
         \A s \in late' : s \in late \/ LateSafe(s)'
  PROVE  IInv'
<1>1. \A r \in Row : RowSafe(r)'
  BY DEF IInv, RowSafe
<1>2. LockSafe' /\ ArchivedSessionIsQuiet'
  BY OutboxAssumption DEF IInv, LockSafe, ArchivedSessionIsQuiet
<1>. QED BY <1>1, <1>2, WorkerStep, Zenon

\* SetWorker with another phase and count of attempts keeps the work.
LEMMA AttemptEffect ==
  ASSUME TypeOK, NEW p \in Process, NEW x \in Phases, NEW n \in 0 .. ReceiptAttempts,
         SetWorker(p, [worker[p] EXCEPT !.phase = x, !.tries = n])
  PROVE  /\ worker' \in [Process -> WorkerType]
         /\ worker'[p].phase = x /\ worker'[p].row = worker[p].row
         /\ worker'[p].token = worker[p].token /\ worker'[p].outcome = worker[p].outcome
         /\ \A q \in Process \ {p} : worker'[q] = worker[q]
<1>. DEFINE w == [worker[p] EXCEPT !.phase = x, !.tries = n]
<1>1. w \in WorkerType /\ w.phase = x /\ w.row = worker[p].row
      /\ w.token = worker[p].token /\ w.outcome = worker[p].outcome
  BY Typed DEF WorkerType, Phases
<1>2. SetWorker(p, w)
  OBVIOUS
<1>. HIDE DEF w
<1>. QED BY <1>1, <1>2, SetWorkerEffect

\* The next attempt, or what follows the last one: the work is kept or dropped.
LEMMA AgainEffect ==
  ASSUME TypeOK, NEW p \in Process, NEW x \in Phases, NEW y \in Phases, Again(p, x, y)
  PROVE  /\ worker' \in [Process -> WorkerType]
         /\ \/ worker'[p] = Idle
            \/ /\ worker'[p].phase \in {x, y} /\ worker'[p].row = worker[p].row
               /\ worker'[p].token = worker[p].token /\ worker'[p].outcome = worker[p].outcome
         /\ \A q \in Process \ {p} : worker'[q] = worker[q]
<1>1. CASE worker[p].tries < ReceiptAttempts
  <2>1. worker[p].tries + 1 \in 0 .. ReceiptAttempts
    BY <1>1, Typed, OutboxAssumption DEF WorkerType
  <2>2. SetWorker(p, [worker[p] EXCEPT !.phase = x, !.tries = worker[p].tries + 1])
    BY <1>1 DEF Again
  <2>. QED BY <2>1, <2>2, AttemptEffect
<1>2. CASE ~(worker[p].tries < ReceiptAttempts) /\ y = "idle"
  <2>1. SetWorker(p, Idle)
    BY <1>2 DEF Again
  <2>. QED BY <2>1, IdleTyped, SetWorkerEffect
<1>3. CASE ~(worker[p].tries < ReceiptAttempts) /\ y # "idle"
  <2>1. SetWorker(p, [worker[p] EXCEPT !.phase = y, !.tries = 1]) /\ 1 \in 0 .. ReceiptAttempts
    BY <1>3, OutboxAssumption DEF Again
  <2>. QED BY <2>1, AttemptEffect
<1>. QED BY <1>1, <1>2, <1>3

\* The worker gives its row up, or goes on answering for it.
KeepsAnswering(p) ==
  /\ worker' \in [Process -> WorkerType]
  /\ \/ worker'[p].phase = "idle"
     \/ /\ Answering(p) /\ Answering(p)'
        /\ worker'[p].row = worker[p].row /\ worker'[p].token = worker[p].token
        /\ worker'[p].outcome = worker[p].outcome
  /\ \A q \in Process \ {p} : worker'[q] = worker[q]

LEMMA IdleStep ==
  ASSUME TypeOK, NEW p \in Process, SetWorker(p, Idle)
  PROVE  KeepsAnswering(p)
  BY IdleTyped, SetWorkerEffect DEF KeepsAnswering

LEMMA AnsweringStep ==
  ASSUME TypeOK, NEW p \in Process, Answering(p),
         \/ SetWorker(p, Idle)
         \/ Phase(p, "read") \/ Phase(p, "check")
         \/ Again(p, "write", "mark") \/ Again(p, "mark", "idle")
         \/ SetWorker(p, [worker[p] EXCEPT !.phase = "mark", !.tries = 1])
  PROVE  KeepsAnswering(p)
<1>1. CASE Phase(p, "read") \/ Phase(p, "check")
  BY <1>1, PhaseEffect DEF KeepsAnswering, Answering, Phases
<1>2. CASE Again(p, "write", "mark") \/ Again(p, "mark", "idle")
  BY <1>2, AgainEffect, IdleTyped DEF KeepsAnswering, Answering, Phases
<1>3. CASE SetWorker(p, [worker[p] EXCEPT !.phase = "mark", !.tries = 1])
  <2>1. 1 \in 0 .. ReceiptAttempts /\ "mark" \in Phases
    BY OutboxAssumption DEF Phases
  <2>. QED BY <1>3, <2>1, AttemptEffect DEF KeepsAnswering, Answering
<1>. QED BY <1>1, <1>2, <1>3, IdleStep

LEMMA AnsweringSafe ==
  ASSUME IInv, NEW p \in Process, KeepsAnswering(p), sends' = sends, answer' = answer,
         Answering(p) => row'[worker[p].row].token = row[worker[p].row].token
  PROVE  WorkerSafe(p)' /\ (Engaged(p)' => Engaged(p) /\ worker'[p].row = worker[p].row)
  BY DEF IInv, WorkerSafe, KeepsAnswering, Engaged, Sending, Answering

-------------------------------------------------------------------------------
\* A step that keeps every token, under which workers go on as they were or stop.
LEMMA TableStep ==
  ASSUME IInv, TypeOK', sends' = sends, answer' = answer, late' \subseteq late,
         \A p \in Process : worker'[p] = worker[p] \/ worker'[p].phase \in {"off", "idle"},
         \A r \in Row : row'[r].token = row[r].token /\ RowSafe(r)',
         LockSafe', ArchivedSessionIsQuiet'
  PROVE  IInv'
<1>1. ASSUME NEW p \in Process PROVE WorkerSafe(p)'
  BY DEF IInv, WorkerSafe, Engaged, Sending, Answering
<1>2. OneClaimant'
  BY DEF IInv, OneClaimant, Engaged, Sending, Answering
<1>3. \A s \in late' : LateSafe(s)'
  BY DEF IInv, LateSafe
<1>. QED BY <1>1, <1>2, <1>3 DEF IInv

\* Nor does a step change what is safe of the rows when it leaves them alone.
LEMMA RowsKept ==
  ASSUME IInv, row' = row, sends' = sends, answer' = answer
  PROVE  \A r \in Row : row'[r].token = row[r].token /\ RowSafe(r)'
  BY DEF IInv, RowSafe

LEMMA ProducerInvariant ==
  ASSUME IInv, NEW r \in Row, BeginEnqueue(r) \/ FallDue(r) \/ Restore PROVE IInv'
<1>1. /\ row' = row /\ sends' = sends /\ answer' = answer /\ late' = late /\ worker' = worker
  BY DEF BeginEnqueue, FallDue, Restore, World, Host
<1>2. TypeOK'
  BY DEF IInv, TypeOK, BeginEnqueue, FallDue, Restore, World, Host
<1>3. LockSafe' /\ ArchivedSessionIsQuiet'
  BY OutboxAssumption
     DEF IInv, LockSafe, ArchivedSessionIsQuiet, BeginEnqueue, FallDue, Restore, World, Host
<1>. QED BY <1>1, <1>2, <1>3, RowsKept, TableStep

\* One row takes another status and keeps its columns.
LEMMA StatusEffect ==
  ASSUME TypeOK, NEW r \in Row,
         NEW x \in {"absent", "pending", "sending", "unknown"} \cup Settled,
         row' = [row EXCEPT ![r].status = x]
  PROVE  /\ row' \in [Row -> RowType]
         /\ row'[r] = [row[r] EXCEPT !.status = x]
         /\ row'[r].status = x
         /\ row'[r].claims = row[r].claims /\ row'[r].token = row[r].token
         /\ \A q \in Row \ {r} : row'[q] = row[q]
<1>. DEFINE v == [row[r] EXCEPT !.status = x]
<1>1. v \in RowType /\ v.status = x /\ v.claims = row[r].claims /\ v.token = row[r].token
  BY Typed DEF RowType
<1>2. row' = [row EXCEPT ![r] = v]
  OBVIOUS
<1>. HIDE DEF v
<1>3. row' \in [Row -> RowType] /\ row'[r] = v /\ \A q \in Row \ {r} : row'[q] = row[q]
  BY <1>1, <1>2, Typed, Override
<1>4. v = [row[r] EXCEPT !.status = x]
  BY DEF v
<1>. QED BY <1>1, <1>3, <1>4

LEMMA CommitEnqueueInvariant ==
  ASSUME IInv, NEW r \in Row, CommitEnqueue(r) PROVE IInv'
<1>. DEFINE x == IF r \in due THEN "expired" ELSE "pending"
<1>1. /\ row' = [row EXCEPT ![r].status = x]
      /\ x \in {"expired", "pending"}
      /\ sends' = sends /\ answer' = answer /\ late' = late /\ worker' = worker
      /\ locker = r /\ locker' = None /\ archived' = archived
  BY DEF CommitEnqueue, World, Host
<1>. HIDE DEF x
<1>2. row[r].status = "absent" /\ ~archived
  BY <1>1, OutboxAssumption DEF IInv, LockSafe
<1>3. /\ row' \in [Row -> RowType] /\ row'[r].status = x
      /\ row'[r].claims = row[r].claims /\ row'[r].token = row[r].token
      /\ \A q \in Row \ {r} : row'[q] = row[q]
  BY <1>1, StatusEffect DEF IInv, Settled
<1>4. TypeOK'
  BY <1>1, <1>3 DEF IInv, TypeOK, CommitEnqueue, World, Host
<1>5. ASSUME NEW q \in Row PROVE row'[q].token = row[q].token /\ RowSafe(q)'
  BY <1>1, <1>2, <1>3 DEF IInv, RowSafe
<1>6. LockSafe' /\ ArchivedSessionIsQuiet'
  BY <1>1, <1>2, OutboxAssumption DEF LockSafe, ArchivedSessionIsQuiet
<1>. QED BY <1>1, <1>4, <1>5, <1>6, TableStep

LEMMA ArchiveInvariant ==
  ASSUME IInv, Archive PROVE IInv'
<1>1. /\ row' = [r \in Row |->
            IF row[r].status = "pending" THEN [row[r] EXCEPT !.status = "failed"] ELSE row[r]]
      /\ sends' = sends /\ answer' = answer /\ late' = late /\ worker' = worker
      /\ locker = None /\ locker' = None
  BY DEF Archive, World, Host
<1>2. ASSUME NEW r \in Row
      PROVE  /\ row'[r] \in RowType /\ row'[r].status # "pending"
             /\ row'[r].claims = row[r].claims /\ row'[r].token = row[r].token
             /\ IF row[r].status = "pending" THEN row'[r].status = "failed"
                                            ELSE row'[r].status = row[r].status
  BY <1>1, Typed DEF IInv, RowType, Settled
<1>3. TypeOK'
  <2>1. row' \in [Row -> RowType]
    BY <1>1, <1>2
  <2>2. archived' \in BOOLEAN /\ faults' \in 0 .. MaxFaults
    BY OutboxAssumption DEF IInv, TypeOK, Archive, Fault
  <2>. QED BY <2>1, <2>2 DEF IInv, TypeOK, Archive, World, Host
<1>4. ASSUME NEW r \in Row PROVE row'[r].token = row[r].token /\ RowSafe(r)'
  BY <1>1, <1>2 DEF IInv, RowSafe
<1>5. LockSafe' /\ ArchivedSessionIsQuiet'
  BY <1>1, <1>2, OutboxAssumption DEF LockSafe, ArchivedSessionIsQuiet
<1>. QED BY <1>1, <1>3, <1>4, <1>5, TableStep

LEMMA HostInvariant ==
  ASSUME IInv, NEW p \in Process, Acquire(p) \/ LoseLease(p) \/ Stop(p) PROVE IInv'
<1>1. /\ UNCHANGED <<row, sends, answer, late, worker, locker, archived, due>>
      /\ holder' \in Process \cup {None}
      /\ process' \in [Process -> {"up", "stopping", "down"}]
      /\ faults' \in 0 .. MaxFaults
  BY OutboxAssumption DEF IInv, TypeOK, Acquire, LoseLease, Stop, Fault, Queue, World
<1>2. TypeOK'
  BY <1>1 DEF IInv, TypeOK
<1>3. LockSafe' /\ ArchivedSessionIsQuiet'
  BY <1>1 DEF IInv, LockSafe, ArchivedSessionIsQuiet
<1>. QED BY <1>1, <1>2, <1>3, RowsKept, TableStep

LEMMA LeaveInvariant ==
  ASSUME IInv, NEW p \in Process, Exit(p) \/ Crash(p) PROVE IInv'
<1>1. /\ UNCHANGED <<row, sends, answer, late, archived, due>>
      /\ SetWorker(p, Off)
      /\ locker' = IF locker = p THEN None ELSE locker
      /\ holder' \in Process \cup {None}
      /\ process' \in [Process -> {"up", "stopping", "down"}]
      /\ faults' \in 0 .. MaxFaults
  BY OutboxAssumption DEF IInv, TypeOK, Exit, Crash, Vanish, Fault, World
<1>2. /\ worker' \in [Process -> WorkerType] /\ worker'[p].phase = "off"
      /\ \A q \in Process \ {p} : worker'[q] = worker[q]
  BY <1>1, IdleTyped, SetWorkerEffect DEF IInv
<1>3. TypeOK'
  BY <1>1, <1>2 DEF IInv, TypeOK
<1>4. LockSafe' /\ ArchivedSessionIsQuiet'
  BY <1>1, OutboxAssumption DEF IInv, LockSafe, ArchivedSessionIsQuiet
<1>. QED BY <1>1, <1>2, <1>3, <1>4, RowsKept, TableStep

LEMMA StartWorkerInvariant ==
  ASSUME IInv, NEW p \in Process, StartWorker(p) PROVE IInv'
<1>1. /\ row' = [r \in Row |-> IF row[r].status = "sending" THEN Abandoned(r) ELSE row[r]]
      /\ SetWorker(p, Idle)
      /\ UNCHANGED <<due, archived, locker, holder, process, late, sends, answer, faults>>
  BY DEF StartWorker, World, Host
<1>2. ASSUME NEW r \in Row
      PROVE  /\ row'[r] \in RowType
             /\ row'[r].claims = row[r].claims /\ row'[r].token = row[r].token
             /\ IF row[r].status = "sending" THEN row'[r].status = "unknown"
                                            ELSE row'[r].status = row[r].status
  BY <1>1, Typed DEF IInv, RowType, Settled, Abandoned
<1>3. /\ worker' \in [Process -> WorkerType] /\ worker'[p].phase = "idle"
      /\ \A q \in Process \ {p} : worker'[q] = worker[q]
  BY <1>1, IdleTyped, SetWorkerEffect DEF IInv
<1>4. row' \in [Row -> RowType]
  BY <1>1, <1>2
<1>5. TypeOK'
  BY <1>1, <1>3, <1>4 DEF IInv, TypeOK
<1>6. ASSUME NEW r \in Row PROVE row'[r].token = row[r].token /\ RowSafe(r)'
  BY <1>1, <1>2 DEF IInv, RowSafe
<1>7. LockSafe' /\ ArchivedSessionIsQuiet'
  BY <1>1, <1>2 DEF IInv, LockSafe, ArchivedSessionIsQuiet
<1>. QED BY <1>1, <1>3, <1>5, <1>6, <1>7, TableStep

-------------------------------------------------------------------------------
\* What a receipt statement does to its row: it keeps the token and, since it says
\* what the adapter said, the truth; rows outside a claim it does not touch.
LEMMA ReceiptEffect ==
  ASSUME IInv, NEW s, s.row \in Row, s.token = 1, NEW x \in {"sent", "failed", "unknown"},
         x # "unknown" => x \in answer[s.row],
         row' = [row EXCEPT ![s.row] = After(s, x)],
         sends' = sends, answer' = answer
  PROVE  /\ row' \in [Row -> RowType]
         /\ \A r \in Row \ {s.row} : row'[r] = row[r]
         /\ row'[s.row].token = row[s.row].token /\ RowSafe(s.row)'
         /\ \A r \in Row : /\ row'[r].status = "absent" <=> row[r].status = "absent"
                           /\ row'[r].status = "pending" => row[r].status = "pending"
         /\ \A r \in Row : row[r].status \in Settled => row'[r].status = row[r].status
<1>. DEFINE v == After(s, x)
            r == s.row
<1>1. row[r] \in RowType /\ RowSafe(r)
  BY Typed DEF IInv
<1>2. CASE Writable(s, x)
  <2>1. /\ row[r].token = 1
        /\ row[r].status \in {"sending", "unknown"}
    BY <1>2 DEF Writable
  <2>2. row' = [row EXCEPT ![r].status = x]
    BY <1>2 DEF After
  <2>3. /\ row' \in [Row -> RowType] /\ row'[r].status = x
        /\ row'[r].claims = row[r].claims /\ row'[r].token = row[r].token
        /\ \A q \in Row \ {r} : row'[q] = row[q]
    BY <2>2, StatusEffect DEF IInv, Settled
  <2>. HIDE DEF v, r
  <2>4. RowSafe(r)'
    BY <1>1, <2>1, <2>3 DEF RowSafe, r
  <2>. QED BY <2>1, <2>3, <2>4 DEF r, Settled
<1>3. CASE ~Writable(s, x)
  <2>1. row' = row
    BY <1>3, Typed DEF After, IInv
  <2>. QED BY <1>1, <2>1, Typed DEF RowSafe, IInv
<1>. QED BY <1>2, <1>3

LEMMA RunLateInvariant ==
  ASSUME IInv, NEW s \in late, RunLate(s) PROVE IInv'
<1>1. /\ s.row \in Row /\ s.status \in {"sent", "failed", "unknown"} /\ LateSafe(s)
      /\ row' = [row EXCEPT ![s.row] = After(s, s.status)]
      /\ late' = late \ {s}
      /\ UNCHANGED <<due, archived, locker, holder, process, worker, sends, answer, faults>>
  BY DEF IInv, TypeOK, RunLate, Host
<1>2. /\ row' \in [Row -> RowType]
      /\ \A r \in Row \ {s.row} : row'[r] = row[r]
      /\ row'[s.row].token = row[s.row].token /\ RowSafe(s.row)'
      /\ \A r \in Row : /\ row'[r].status = "absent" <=> row[r].status = "absent"
                        /\ row'[r].status = "pending" => row[r].status = "pending"
  BY <1>1, ReceiptEffect DEF LateSafe
<1>3. TypeOK'
  BY <1>1, <1>2 DEF IInv, TypeOK
<1>4. \A r \in Row : row'[r].token = row[r].token /\ RowSafe(r)'
  BY <1>1, <1>2 DEF IInv, RowSafe
<1>5. LockSafe' /\ ArchivedSessionIsQuiet'
  BY <1>1, <1>2 DEF IInv, LockSafe, ArchivedSessionIsQuiet
<1>. QED BY <1>1, <1>3, <1>4, <1>5, TableStep

\* A claimed worker's row, its outcome and its statements.
LEMMA AnsweringFacts ==
  ASSUME IInv, NEW p \in Process, Answering(p)
  PROVE  /\ worker[p].row \in Row /\ worker[p].token = 1
         /\ worker[p].outcome \in {"sent", "failed"}
         /\ worker[p].outcome \in answer[worker[p].row]
         /\ \A x : /\ Statement(p, x).row = worker[p].row
                  /\ Statement(p, x).token = 1 /\ Statement(p, x).status = x
<1>1. worker[p].row \in Row /\ worker[p].token = 1 /\ worker[p].outcome \in answer[worker[p].row]
  BY DEF IInv, WorkerSafe, Engaged, Answering
<1>2. worker[p].outcome \in {"sent", "failed"}
  BY <1>1, Typed DEF IInv
<1>. QED BY <1>1, <1>2 DEF Statement

LEMMA SettleInvariant ==
  ASSUME IInv, NEW p \in Process, Write(p) \/ Mark(p) PROVE IInv'
<1>0. Answering(p)
  BY DEF Answering, Write, Mark
<1>1. PICK x \in {"sent", "failed", "unknown"} :
        /\ x # "unknown" => x \in answer[worker[p].row]
        /\ row' = [row EXCEPT ![worker[p].row] = After(Statement(p, x), x)]
  <2>1. CASE Write(p)
    <3>1. row' = [row EXCEPT ![worker[p].row] = After(Statement(p, worker[p].outcome), worker[p].outcome)]
      BY <2>1 DEF Write
    <3>. QED BY <3>1, <1>0, AnsweringFacts, Zenon
  <2>2. CASE Mark(p)
    BY <2>2 DEF Mark, MarkStatus
  <2>. QED BY <2>1, <2>2
<1>2. PICK s : s = Statement(p, x)
  OBVIOUS
<1>3. s.row = worker[p].row /\ s.row \in Row /\ s.token = 1
  BY <1>0, <1>2, AnsweringFacts
<1>4. /\ UNCHANGED <<due, archived, locker, holder, process, late, sends, answer, faults>>
      /\ SetWorker(p, Idle) \/ Phase(p, "read") \/ Phase(p, "check")
  BY DEF Write, Mark, Host, World
<1>5. KeepsAnswering(p)
  BY <1>0, <1>4, AnsweringStep DEF IInv
<1>6. /\ row' \in [Row -> RowType]
      /\ \A q \in Row \ {s.row} : row'[q] = row[q]
      /\ row'[s.row].token = row[s.row].token /\ RowSafe(s.row)'
      /\ \A q \in Row : /\ row'[q].status = "absent" <=> row[q].status = "absent"
                        /\ row'[q].status = "pending" => row[q].status = "pending"
  <2>1. row' = [row EXCEPT ![s.row] = After(s, x)] /\ (x # "unknown" => x \in answer[s.row])
    BY <1>1, <1>2, <1>3
  <2>. QED BY <1>3, <1>4, <2>1, ReceiptEffect
<1>7. TypeOK'
  BY <1>4, <1>5, <1>6 DEF IInv, TypeOK, KeepsAnswering
<1>8. WorkerSafe(p)' /\ (Engaged(p)' => Engaged(p) /\ worker'[p].row = worker[p].row)
  BY <1>3, <1>4, <1>5, <1>6, AnsweringSafe
<1>9. LockSafe' /\ ArchivedSessionIsQuiet'
  BY <1>4, <1>6 DEF IInv, LockSafe, ArchivedSessionIsQuiet
<1>10. \A q \in Process \ {p} : worker'[q] = worker[q]
  BY <1>5 DEF KeepsAnswering
<1>. QED BY <1>4, <1>6, <1>7, <1>8, <1>9, <1>10, WorkerStep

LEMMA ReadInvariant ==
  ASSUME IInv, NEW p \in Process, Read(p) \/ LoseRead(p) \/ Check(p) \/ LoseCheck(p)
  PROVE  IInv'
<1>0. Answering(p)
  BY DEF Answering, Read, LoseRead, Check, LoseCheck
<1>1. UNCHANGED <<row, due, archived, locker, holder, process, late, sends, answer, faults>>
  BY DEF Read, LoseRead, Check, LoseCheck, Queue, Host, World
<1>2. KeepsAnswering(p)
  BY <1>0, AnsweringStep DEF IInv, Read, LoseRead, Check, LoseCheck
<1>3. TypeOK'
  BY <1>1, <1>2 DEF IInv, TypeOK, KeepsAnswering
<1>4. WorkerSafe(p)' /\ (Engaged(p)' => Engaged(p) /\ worker'[p].row = worker[p].row)
  BY <1>1, <1>2, AnsweringSafe
<1>. QED BY <1>1, <1>2, <1>3, <1>4, WorkerOnly DEF KeepsAnswering

LEMMA LoseReceiptInvariant ==
  ASSUME IInv, NEW p \in Process, LoseWrite(p) \/ LoseMark(p) PROVE IInv'
<1>0. Answering(p)
  BY DEF Answering, LoseWrite, LoseMark
<1>1. PICK x \in {"sent", "failed", "unknown"} :
        /\ x # "unknown" => x \in answer[worker[p].row]
        /\ late' = late \cup {Statement(p, x)}
  <2>1. CASE LoseWrite(p)
    <3>1. late' = late \cup {Statement(p, worker[p].outcome)}
      BY <2>1 DEF LoseWrite
    <3>. QED BY <3>1, <1>0, AnsweringFacts, Zenon
  <2>2. CASE LoseMark(p)
    BY <2>2 DEF LoseMark, MarkStatus
  <2>. QED BY <2>1, <2>2
<1>2. /\ UNCHANGED <<row, due, archived, locker, holder, process, sends, answer>>
      /\ faults' \in 0 .. MaxFaults
  BY OutboxAssumption DEF IInv, TypeOK, LoseWrite, LoseMark, Queue, Host, Fault
<1>3. KeepsAnswering(p)
  BY <1>0, AnsweringStep DEF IInv, LoseWrite, LoseMark
<1>4. PICK s : s = Statement(p, x)
  OBVIOUS
<1>5. /\ s.row \in Row /\ LateSafe(s)'
      /\ s \in [row : Row, token : Nat, status : {"sent", "failed", "unknown"}]
  BY <1>0, <1>1, <1>2, <1>4, AnsweringFacts DEF LateSafe, Statement
<1>6. late' = late \cup {s}
  BY <1>1, <1>4
<1>7. TypeOK'
  BY <1>2, <1>3, <1>5, <1>6 DEF IInv, TypeOK, KeepsAnswering
<1>8. WorkerSafe(p)' /\ (Engaged(p)' => Engaged(p) /\ worker'[p].row = worker[p].row)
  BY <1>2, <1>3, AnsweringSafe
<1>9. \A z \in late' : z \in late \/ LateSafe(z)'
  BY <1>5, <1>6
<1>. QED BY <1>2, <1>3, <1>7, <1>8, <1>9, WorkerOnly DEF KeepsAnswering

-------------------------------------------------------------------------------
\* Claiming and sending.

LEMMA PickInvariant ==
  ASSUME IInv, NEW p \in Process, Pick(p) PROVE IInv'
<1>1. UNCHANGED <<row, due, archived, locker, holder, process, late, sends, answer, faults>>
  BY DEF Pick, Queue, Host, World
<1>2. PICK r \in Row, x \in {"overdue", "picked"} :
        SetWorker(p, [Idle EXCEPT !.phase = x, !.row = r])
  BY DEF Pick
<1>3. PICK w : w = [Idle EXCEPT !.phase = x, !.row = r]
  OBVIOUS
<1>4. w \in WorkerType /\ w.phase \in {"overdue", "picked"} /\ w.row \in Row
  BY <1>3, IdleTyped DEF WorkerType
<1>5. /\ worker' \in [Process -> WorkerType] /\ worker'[p] = w
      /\ \A q \in Process \ {p} : worker'[q] = worker[q]
  BY <1>2, <1>3, <1>4, SetWorkerEffect DEF IInv
<1>6. TypeOK'
  BY <1>1, <1>5 DEF IInv, TypeOK
<1>7. WorkerSafe(p)' /\ ~Engaged(p)'
  BY <1>4, <1>5 DEF WorkerSafe, Engaged, Sending, Answering
<1>. QED BY <1>1, <1>5, <1>6, <1>7, WorkerOnly

\* A candidate that is pending when its status changes has never been claimed.
LEMMA DropInvariant ==
  ASSUME IInv, NEW p \in Process, NEW x \in {"expired", "failed"}, NEW r \in Row,
         row' = [row EXCEPT ![r].status = IF @ = "pending" THEN x ELSE @],
         SetWorker(p, Idle),
         UNCHANGED <<due, archived, locker, Host, World, faults>>
  PROVE  IInv'
<1>1. PICK v : v = IF row[r].status = "pending" THEN x ELSE row[r].status
  OBVIOUS
<1>2. v \in {"absent", "pending", "sending", "unknown"} \cup Settled
  BY <1>1, Typed DEF IInv, RowType, Settled
<1>3. row' = [row EXCEPT ![r].status = v]
  BY <1>1
<1>4. /\ row' \in [Row -> RowType] /\ row'[r].status = v
      /\ row'[r].claims = row[r].claims /\ row'[r].token = row[r].token
      /\ \A q \in Row \ {r} : row'[q] = row[q]
  BY <1>2, <1>3, StatusEffect DEF IInv
<1>5. UNCHANGED <<due, archived, locker, holder, process, late, sends, answer, faults>>
  BY DEF Host, World
<1>6. /\ worker' \in [Process -> WorkerType] /\ worker'[p].phase = "idle"
      /\ \A q \in Process \ {p} : worker'[q] = worker[q]
  BY IdleTyped, SetWorkerEffect DEF IInv
<1>7. TypeOK'
  BY <1>4, <1>5, <1>6 DEF IInv, TypeOK
<1>8. ASSUME NEW q \in Row PROVE row'[q].token = row[q].token /\ RowSafe(q)'
  BY <1>1, <1>4, <1>5 DEF IInv, RowSafe
<1>9. LockSafe' /\ ArchivedSessionIsQuiet'
  BY <1>1, <1>4, <1>5 DEF IInv, LockSafe, ArchivedSessionIsQuiet
<1>. QED BY <1>5, <1>6, <1>7, <1>8, <1>9, TableStep

LEMMA LockInvariant ==
  ASSUME IInv, NEW p \in Process, LockSession(p), ~archived PROVE IInv'
<1>1. /\ UNCHANGED <<row, due, archived, holder, process, late, sends, answer, faults>>
      /\ Phase(p, "locked") /\ locker' = p
  BY DEF LockSession, Host, World
<1>2. /\ worker' \in [Process -> WorkerType] /\ worker'[p].phase = "locked"
      /\ worker'[p].row = worker[p].row
      /\ \A q \in Process \ {p} : worker'[q] = worker[q]
  BY <1>1, PhaseEffect DEF IInv, Phases
<1>3. worker[p].row \in Row
  BY DEF IInv, WorkerSafe, LockSession
<1>4. TypeOK'
  BY <1>1, <1>2 DEF IInv, TypeOK
<1>5. WorkerSafe(p)' /\ ~Engaged(p)'
  BY <1>2, <1>3 DEF WorkerSafe, Engaged, Sending, Answering
<1>6. LockSafe' /\ ArchivedSessionIsQuiet'
  BY <1>1, OutboxAssumption DEF IInv, LockSafe, ArchivedSessionIsQuiet
<1>7. None \notin Row
  BY OutboxAssumption
<1>. QED BY <1>1, <1>2, <1>4, <1>5, <1>6, <1>7, WorkerStep

LEMMA LockSessionInvariant ==
  ASSUME IInv, NEW p \in Process, LockSession(p) PROVE IInv'
<1>1. CASE archived
  <2>1. PICK r \in Row : r = worker[p].row
    BY DEF IInv, WorkerSafe, LockSession
  <2>2. /\ row' = [row EXCEPT ![r].status = IF @ = "pending" THEN "failed" ELSE @]
        /\ SetWorker(p, Idle)
        /\ UNCHANGED <<due, archived, locker, Host, World, faults>>
    BY <1>1, <2>1 DEF LockSession
  <2>. QED BY <2>2, DropInvariant
<1>. QED BY <1>1, LockInvariant

LEMMA ExpireCandidateInvariant ==
  ASSUME IInv, NEW p \in Process, ExpireCandidate(p) PROVE IInv'
<1>1. PICK r \in Row : r = worker[p].row
  BY DEF IInv, WorkerSafe, ExpireCandidate
<1>2. /\ row' = [row EXCEPT ![r].status = IF @ = "pending" THEN "expired" ELSE @]
      /\ SetWorker(p, Idle)
      /\ UNCHANGED <<due, archived, locker, Host, World, faults>>
  BY <1>1 DEF ExpireCandidate
<1>. QED BY <1>2, DropInvariant

\* The worker gives up what it had not sent, and the lock if it had it.
LEMMA LetGoInvariant ==
  ASSUME IInv, NEW p \in Process, SetWorker(p, Idle), locker' \in {locker, None},
         UNCHANGED <<row, due, archived, Host, World>>, faults' \in 0 .. MaxFaults
  PROVE  IInv'
<1>1. UNCHANGED <<holder, process, late, sends, answer>>
  BY DEF Host, World
<1>2. /\ worker' \in [Process -> WorkerType] /\ worker'[p].phase = "idle"
      /\ \A q \in Process \ {p} : worker'[q] = worker[q]
  BY IdleTyped, SetWorkerEffect DEF IInv
<1>3. TypeOK'
  BY <1>1, <1>2 DEF IInv, TypeOK
<1>4. WorkerSafe(p)' /\ ~Engaged(p)'
  BY <1>2 DEF WorkerSafe, Engaged, Sending, Answering
<1>. QED BY <1>1, <1>2, <1>3, <1>4, WorkerOnly

LEMMA LoseClaimInvariant ==
  ASSUME IInv, NEW p \in Process, LoseClaim(p) PROVE IInv'
<1>1. faults' \in 0 .. MaxFaults
  BY OutboxAssumption DEF LoseClaim, Fault, IInv, TypeOK
<1>. QED BY <1>1, LetGoInvariant DEF LoseClaim

\* The first and only claim of a row: nobody can be engaged with it.
LEMMA ClaimInvariant ==
  ASSUME IInv, NEW p \in Process, CommitClaim(p), row[worker[p].row].status = "pending",
         worker[p].row \notin due
  PROVE  IInv'
<1>1. PICK r \in Row : r = worker[p].row
  BY DEF IInv, WorkerSafe, CommitClaim
<1>2. /\ row[r].claims = 0 /\ row[r].token = 0 /\ row[r].status = "pending"
      /\ sends[r] = 0 /\ answer[r] = {}
  BY <1>1 DEF IInv, RowSafe
<1>3. /\ row' = [row EXCEPT ![r] = [status |-> "sending", claims |-> 1, token |-> 1]]
      /\ SetWorker(p, [worker[p] EXCEPT !.phase = "claimed", !.token = 1])
      /\ locker' = None
      /\ UNCHANGED <<due, archived, holder, process, late, sends, answer, faults>>
  BY <1>1, <1>2 DEF CommitClaim, Host, World
<1>4. /\ row' \in [Row -> RowType]
      /\ row'[r] = [status |-> "sending", claims |-> 1, token |-> 1]
      /\ \A q \in Row \ {r} : row'[q] = row[q]
  <2>1. [status |-> "sending", claims |-> 1, token |-> 1] \in RowType
    BY DEF RowType
  <2>. QED BY <1>3, <2>1, Typed, Override DEF IInv
<1>5. PICK w : w = [worker[p] EXCEPT !.phase = "claimed", !.token = 1]
  OBVIOUS
<1>6. w \in WorkerType /\ w.phase = "claimed" /\ w.row = r /\ w.token = 1
  BY <1>1, <1>5, Typed DEF IInv, WorkerType
<1>7. /\ worker' \in [Process -> WorkerType] /\ worker'[p] = w
      /\ \A q \in Process \ {p} : worker'[q] = worker[q]
  BY <1>3, <1>5, <1>6, SetWorkerEffect DEF IInv
<1>8. TypeOK'
  BY <1>3, <1>4, <1>7 DEF IInv, TypeOK
<1>9. RowSafe(r)'
  BY <1>2, <1>3, <1>4 DEF RowSafe
<1>10. WorkerSafe(p)'
  BY <1>1, <1>2, <1>3, <1>4, <1>6, <1>7 DEF IInv, WorkerSafe, Engaged, Sending, Answering
<1>11. LockSafe' /\ ArchivedSessionIsQuiet'
  BY <1>3, <1>4, OutboxAssumption DEF IInv, LockSafe, ArchivedSessionIsQuiet
<1>. QED BY <1>2, <1>3, <1>4, <1>6, <1>7, <1>8, <1>9, <1>10, <1>11, WorkerStep

LEMMA CommitClaimInvariant ==
  ASSUME IInv, NEW p \in Process, CommitClaim(p) PROVE IInv'
<1>1. CASE row[worker[p].row].status = "pending" /\ worker[p].row \notin due
  BY <1>1, ClaimInvariant
<1>2. CASE ~(row[worker[p].row].status = "pending" /\ worker[p].row \notin due)
  <2>1. /\ SetWorker(p, Idle) /\ locker' = None
        /\ UNCHANGED <<row, due, archived, Host, World>> /\ faults' \in 0 .. MaxFaults
    BY <1>2 DEF CommitClaim, IInv, TypeOK
  <2>. QED BY <2>1, LetGoInvariant
<1>. QED BY <1>1, <1>2

LEMMA ExpireClaimedInvariant ==
  ASSUME IInv, NEW p \in Process, ExpireClaimed(p) PROVE IInv'
<1>1. PICK r \in Row : r = worker[p].row
  BY DEF IInv, WorkerSafe, ExpireClaimed
<1>2. Engaged(p) /\ sends[r] = 0 /\ answer[r] = {} /\ row[r].claims = 1
      /\ row[r].status = "sending"
  BY <1>1 DEF IInv, WorkerSafe, RowSafe, Engaged, Sending, ExpireClaimed
<1>3. /\ row' = [row EXCEPT ![r].status = "expired", ![r].token = 0]
      /\ SetWorker(p, Idle)
      /\ UNCHANGED <<due, archived, locker, holder, process, late, sends, answer, faults>>
  BY <1>1 DEF ExpireClaimed, Host, World
<1>4. PICK v : v = [row[r] EXCEPT !.status = "expired", !.token = 0]
  OBVIOUS
<1>5. v \in RowType /\ v.status = "expired" /\ v.token = 0 /\ v.claims = 1
  BY <1>2, <1>4, Typed DEF IInv, RowType, Settled
<1>6. row' \in [Row -> RowType] /\ row'[r] = v /\ \A q \in Row \ {r} : row'[q] = row[q]
  <2>1. row' = [row EXCEPT ![r] = v]
    BY <1>3, <1>4
  <2>. QED BY <1>5, <2>1, Typed, Override DEF IInv
<1>7. /\ worker' \in [Process -> WorkerType] /\ worker'[p].phase = "idle"
      /\ \A q \in Process \ {p} : worker'[q] = worker[q]
  BY <1>3, IdleTyped, SetWorkerEffect DEF IInv
<1>8. TypeOK'
  BY <1>3, <1>6, <1>7 DEF IInv, TypeOK
<1>9. RowSafe(r)'
  BY <1>2, <1>3, <1>5, <1>6 DEF RowSafe
<1>10. WorkerSafe(p)' /\ ~Engaged(p)'
  BY <1>7 DEF WorkerSafe, Engaged, Sending, Answering
<1>11. LockSafe' /\ ArchivedSessionIsQuiet'
  BY <1>2, <1>3, <1>5, <1>6 DEF IInv, LockSafe, ArchivedSessionIsQuiet
<1>. QED BY <1>1, <1>2, <1>3, <1>6, <1>7, <1>8, <1>9, <1>10, <1>11, WorkerStep

LEMMA DispatchInvariant ==
  ASSUME IInv, NEW p \in Process, Dispatch(p) PROVE IInv'
<1>1. /\ UNCHANGED <<row, due, archived, locker, holder, process, late, sends, answer, faults>>
      /\ worker[p].phase = "claimed" /\ Phase(p, "sending")
  BY DEF Dispatch, Queue, Host, World
<1>2. /\ worker' \in [Process -> WorkerType] /\ worker'[p].phase = "sending"
      /\ worker'[p].row = worker[p].row /\ worker'[p].token = worker[p].token
      /\ \A q \in Process \ {p} : worker'[q] = worker[q]
  BY <1>1, PhaseEffect DEF IInv, Phases
<1>3. TypeOK'
  BY <1>1, <1>2 DEF IInv, TypeOK
<1>4. WorkerSafe(p)' /\ Engaged(p)
  BY <1>1, <1>2 DEF IInv, WorkerSafe, Engaged, Sending, Answering
<1>. QED BY <1>1, <1>2, <1>3, <1>4, WorkerOnly

\* The only transmission of the row: its holder had not sent it before.
LEMMA TransmitInvariant ==
  ASSUME IInv, NEW p \in Process, Transmit(p) PROVE IInv'
<1>1. PICK r \in Row : r = worker[p].row
  BY DEF IInv, WorkerSafe, Transmit
<1>2. Engaged(p) /\ sends[r] = 0 /\ answer[r] = {} /\ row[r].token = 1 /\ worker[p].token = 1
  BY <1>1 DEF IInv, WorkerSafe, Engaged, Sending, Transmit
<1>3. /\ UNCHANGED <<row, due, archived, locker, holder, process, late, answer, faults>>
      /\ sends' = [sends EXCEPT ![r] = 1] /\ Phase(p, "sent")
  BY <1>1, <1>2 DEF Transmit, Queue, Host
<1>4. /\ worker' \in [Process -> WorkerType] /\ worker'[p].phase = "sent"
      /\ worker'[p].row = worker[p].row /\ worker'[p].token = worker[p].token
      /\ \A q \in Process \ {p} : worker'[q] = worker[q]
  BY <1>3, PhaseEffect DEF IInv, Phases
<1>5. sends' \in [Row -> Nat] /\ sends'[r] = 1 /\ \A q \in Row \ {r} : sends'[q] = sends[q]
  BY <1>3 DEF IInv, TypeOK
<1>6. TypeOK'
  BY <1>3, <1>4, <1>5 DEF IInv, TypeOK
<1>7. RowSafe(r)'
  BY <1>2, <1>3, <1>5 DEF IInv, RowSafe
<1>8. WorkerSafe(p)'
  BY <1>1, <1>2, <1>3, <1>4 DEF IInv, WorkerSafe, Engaged, Sending, Answering
<1>9. LockSafe' /\ ArchivedSessionIsQuiet'
  BY <1>3 DEF IInv, LockSafe, ArchivedSessionIsQuiet
<1>. QED BY <1>1, <1>2, <1>3, <1>4, <1>5, <1>6, <1>7, <1>8, <1>9, WorkerStep

LEMMA AnsweredInvariant ==
  ASSUME IInv, NEW p \in Process, AdapterReturns(p) \/ AdapterThrows(p) PROVE IInv'
<1>1. PICK x \in {"sent", "failed"} : Answered(p, x)
  BY DEF AdapterReturns, AdapterThrows
<1>2. Sending(p)
  BY DEF AdapterReturns, AdapterThrows, Sending
<1>3. PICK r \in Row : r = worker[p].row
  BY <1>2 DEF IInv, WorkerSafe, Sending
<1>4. Engaged(p) /\ row[r].token = 1 /\ worker[p].token = 1
  BY <1>2, <1>3 DEF IInv, WorkerSafe, Engaged
<1>5. /\ UNCHANGED <<row, due, archived, locker, holder, process, late, sends, faults>>
      /\ answer' = [answer EXCEPT ![r] = @ \cup {x}]
      /\ SetWorker(p, [worker[p] EXCEPT !.phase = "write", !.outcome = x, !.tries = 1])
  BY <1>1, <1>3 DEF Answered, Queue, Host
<1>6. PICK w : w = [worker[p] EXCEPT !.phase = "write", !.outcome = x, !.tries = 1]
  OBVIOUS
<1>7. w \in WorkerType /\ w.phase = "write" /\ w.row = r /\ w.token = 1 /\ w.outcome = x
  <2>1. PICK n \in 0 .. ReceiptAttempts : n = 1
    BY OutboxAssumption
  <2>2. w = [worker[p] EXCEPT !.phase = "write", !.outcome = x, !.tries = n]
    BY <1>6, <2>1
  <2>. QED BY <1>3, <1>4, <2>2, Typed DEF IInv, WorkerType
<1>8. /\ worker' \in [Process -> WorkerType] /\ worker'[p] = w
      /\ \A q \in Process \ {p} : worker'[q] = worker[q]
  BY <1>5, <1>6, <1>7, SetWorkerEffect DEF IInv
<1>9. /\ answer' \in [Row -> SUBSET {"sent", "failed"}]
      /\ answer[r] \subseteq answer'[r] /\ x \in answer'[r]
      /\ \A q \in Row \ {r} : answer'[q] = answer[q]
  BY <1>5 DEF IInv, TypeOK
<1>10. TypeOK'
  BY <1>5, <1>8, <1>9 DEF IInv, TypeOK
<1>11. RowSafe(r)'
  BY <1>4, <1>5, <1>9 DEF IInv, RowSafe
<1>12. WorkerSafe(p)'
  BY <1>4, <1>5, <1>7, <1>8, <1>9 DEF WorkerSafe, Engaged, Sending, Answering
<1>13. LockSafe' /\ ArchivedSessionIsQuiet'
  BY <1>5 DEF IInv, LockSafe, ArchivedSessionIsQuiet
<1>. QED BY <1>3, <1>4, <1>5, <1>7, <1>8, <1>9, <1>10, <1>11, <1>12, <1>13, WorkerStep

-------------------------------------------------------------------------------
LEMMA StepInvariant == IInv /\ [Next]_vars => IInv'
<1>. SUFFICES ASSUME IInv, [Next]_vars PROVE IInv'
  OBVIOUS
<1>1. ASSUME NEW r \in Row, BeginEnqueue(r) \/ CommitEnqueue(r) \/ FallDue(r) PROVE IInv'
  BY <1>1, ProducerInvariant, CommitEnqueueInvariant
<1>2. CASE Archive
  BY <1>2, ArchiveInvariant
<1>3. CASE Restore
  <2>1. /\ row' = row /\ sends' = sends /\ answer' = answer /\ late' = late /\ worker' = worker
    BY <1>3 DEF Restore, World, Host
  <2>2. TypeOK' /\ LockSafe' /\ ArchivedSessionIsQuiet'
    BY <1>3 DEF IInv, TypeOK, LockSafe, ArchivedSessionIsQuiet, Restore, World, Host
  <2>. QED BY <2>1, <2>2, RowsKept, TableStep
<1>4. ASSUME NEW p \in Process,
             \/ Acquire(p) \/ StartWorker(p) \/ LoseLease(p) \/ Stop(p) \/ Exit(p) \/ Crash(p)
      PROVE  IInv'
  BY <1>4, HostInvariant, LeaveInvariant, StartWorkerInvariant
<1>5. ASSUME NEW p \in Process, Drain(p) PROVE IInv'
  BY <1>5, PickInvariant, ExpireCandidateInvariant, LockSessionInvariant, CommitClaimInvariant,
     ExpireClaimedInvariant, DispatchInvariant, TransmitInvariant, AnsweredInvariant,
     SettleInvariant, ReadInvariant DEF Drain
<1>6. ASSUME NEW p \in Process, LoseAnswer(p) PROVE IInv'
  BY <1>6, LoseClaimInvariant, LoseReceiptInvariant, ReadInvariant DEF LoseAnswer
<1>7. ASSUME NEW s \in late, RunLate(s) PROVE IInv'
  BY <1>7, RunLateInvariant
<1>8. CASE UNCHANGED vars
  BY <1>8, StutterInvariant
<1>. QED BY <1>1, <1>2, <1>3, <1>4, <1>5, <1>6, <1>7, <1>8 DEF Next

LEMMA Invariant == Spec => []IInv
<1>. QED BY InitInvariant, StepInvariant, PTL DEF Spec

\* Rows, workers and delayed statements keep their types, and no receipt is
\* written or marked more than RECEIPT_ATTEMPTS times (receipt-settlement.ts).
THEOREM TypeCorrect == Spec => []TypeOK
<1>1. IInv => TypeOK
  BY DEF IInv
<1>. QED BY <1>1, Invariant, PTL

\* A row is transmitted at most once, whatever its worker, its receipt and the
\* processes that took the connector over went through.
THEOREM AtMostOnce == Spec => []TransmittedAtMostOnce
<1>1. IInv => TransmittedAtMostOnce
  BY DEF IInv, RowSafe, TransmittedAtMostOnce
<1>. QED BY <1>1, Invariant, PTL

\* The terminal status of a row is what the adapter said of it, and an expired
\* row was never transmitted.
THEOREM TruthfulReceipts == Spec => []ReceiptIsTrue
<1>1. IInv => ReceiptIsTrue
  BY DEF IInv, RowSafe, ReceiptIsTrue
<1>. QED BY <1>1, Invariant, PTL

\* An archived session has no pending row: enqueues, claims and the archive
\* exclude one another by the session's row lock.
THEOREM QuietArchive == Spec => []ArchivedSessionIsQuiet
<1>1. IInv => ArchivedSessionIsQuiet
  BY DEF IInv
<1>. QED BY <1>1, Invariant, PTL

\* sent, failed and expired are final: no recovery, expiry, archive, claim or
\* delayed statement changes the status of a settled row.
THEOREM Finality == Spec => SettledIsFinal
<1>. DEFINE Kept == \A r \in Row : row[r].status \in Settled => row'[r].status = row[r].status
<1>1. ASSUME IInv, [Next]_vars PROVE Kept
  <2>. USE <1>1
  <2>1. ASSUME row' = row PROVE Kept
    BY <2>1
  <2>2. ASSUME NEW r \in Row, CommitEnqueue(r) PROVE Kept
    <3>1. row[r].status = "absent"
      BY <2>2, OutboxAssumption DEF CommitEnqueue, IInv, LockSafe
    <3>2. \A q \in Row \ {r} : row'[q] = row[q]
      BY <2>2 DEF CommitEnqueue, IInv, TypeOK
    <3>. QED BY <3>1, <3>2 DEF Settled
  <2>3. CASE Archive
    BY <2>3 DEF Archive, Settled
  <2>4. ASSUME NEW p \in Process, StartWorker(p) PROVE Kept
    BY <2>4 DEF StartWorker, Settled
  <2>5. ASSUME NEW r \in Row, NEW x \in {"expired", "failed"},
               row' = [row EXCEPT ![r].status = IF @ = "pending" THEN x ELSE @]
        PROVE  Kept
    BY <2>5, Typed DEF IInv, RowType, Settled
  <2>6. ASSUME NEW p \in Process, ExpireCandidate(p) \/ LockSession(p) PROVE Kept
    <3>1. worker[p].row \in Row
      BY <2>6 DEF IInv, WorkerSafe, ExpireCandidate, LockSession
    <3>. QED BY <2>1, <2>5, <2>6, <3>1 DEF ExpireCandidate, LockSession
  <2>7. ASSUME NEW p \in Process, CommitClaim(p) \/ ExpireClaimed(p) PROVE Kept
    BY <2>1, <2>7, Typed DEF IInv, RowType, Settled, CommitClaim, ExpireClaimed
  <2>8. ASSUME NEW s, s.row \in Row, NEW x, row' = [row EXCEPT ![s.row] = After(s, x)]
        PROVE  Kept
    <3>1. After(s, x).status = row[s.row].status \/ row[s.row].status \in {"sending", "unknown"}
      BY DEF After, Writable
    <3>. QED BY <2>8, <3>1, Typed DEF IInv, Settled
  <2>9. ASSUME NEW p \in Process, Write(p) \/ Mark(p) PROVE Kept
    <3>1. Answering(p)
      BY <2>9 DEF Answering, Write, Mark
    <3>2. PICK s, x : s = Statement(p, x) /\ row' = [row EXCEPT ![worker[p].row] = After(s, x)]
      BY <2>9, Zenon DEF Write, Mark
    <3>3. s.row = worker[p].row /\ s.row \in Row
      BY <3>1, <3>2, AnsweringFacts
    <3>. QED BY <2>8, <3>2, <3>3
  <2>10. ASSUME NEW s \in late, RunLate(s) PROVE Kept
    <3>1. s.row \in Row /\ row' = [row EXCEPT ![s.row] = After(s, s.status)]
      BY <2>10 DEF IInv, TypeOK, RunLate
    <3>. QED BY <2>8, <3>1
  <2>. QED
    BY <2>1, <2>2, <2>3, <2>4, <2>6, <2>7, <2>9, <2>10
       DEF Next, Drain, LoseAnswer, vars, Queue, World, Host,
           BeginEnqueue, FallDue, Restore, Acquire, LoseLease, Stop, Exit, Crash, Vanish,
           Pick, Dispatch, Transmit, Answered, AdapterReturns, AdapterThrows, Read, Check,
           LoseClaim, LoseWrite, LoseRead, LoseMark, LoseCheck
<1>. QED BY <1>1, Invariant, PTL DEF Spec, SettledIsFinal
===============================================================================
