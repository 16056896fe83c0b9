----------------------------- MODULE ChannelOutbox -----------------------------
(***************************************************************************)
(* One durable queue of a connector: its outbound deliveries or its        *)
(* channel actions (domain/channels/{deliveries,actions}), the workers of  *)
(* the processes that take the connector over from one another, and the    *)
(* receipts of what they sent (receipt-settlement.ts). The two queues run  *)
(* the same protocol; only actions expire, so Expiring is empty for        *)
(* deliveries. The rows are the queue's positions by (created_at, id): an  *)
(* insert may commit after a later one.                                    *)
(***************************************************************************)
EXTENDS Naturals, FiniteSets

CONSTANTS
    Row,              \* rows that may be enqueued, numbered by created_at
    Expiring,         \* those with an expires_at
    Process,          \* processes that run a worker of the connector
    ReceiptAttempts,  \* RECEIPT_ATTEMPTS
    MaxFaults,        \* bound on crashes, stops, leases and statements lost, archives
    None

ASSUME OutboxAssumption ==
    /\ Row \subseteq Nat /\ Expiring \subseteq Row
    /\ None \notin Row \cup Process /\ Row \cap Process = {}
    /\ ReceiptAttempts \in Nat \ {0}
    /\ MaxFaults \in Nat

VARIABLES
    row,       \* status, claims made so far and claim_token (0: NULL) of each row
    due,       \* rows whose expires_at has passed
    archived,  \* sessions.archived_at of the session that owns the rows
    locker,    \* who holds the session's row lock: an enqueue, a claim or nobody
    holder,    \* the process that owns the connector lease
    process,   \* up, stopping or down
    worker,    \* of each process: its drain
    late,      \* receipt statements whose answer was lost, not executed yet
    sends,     \* external: how often the transport carried each row
    answer,    \* what the adapter said of each row's dispatch
    faults     \* how much of MaxFaults is spent

vars == <<row, due, archived, locker, holder, process, worker, late, sends, answer, faults>>

Off == [phase |-> "off", row |-> None, token |-> 0, outcome |-> None, tries |-> 0]
Idle == [Off EXCEPT !.phase = "idle"]

Fault == faults < MaxFaults /\ faults' = faults + 1

Queue == <<row, due, archived, locker>>        \* the database
Host == <<holder, process>>                    \* the connector's owner
World == <<late, sends, answer>>               \* statements and messages in flight

SetWorker(p, record) == worker' = [worker EXCEPT ![p] = record]
Phase(p, phase) == SetWorker(p, [worker[p] EXCEPT !.phase = phase])

-------------------------------------------------------------------------------
\* Producers and the session's lifecycle. Enqueueing locks the session first,
\* as claiming and archiving do.

BeginEnqueue(r) ==
    /\ row[r].status = "absent" /\ locker = None /\ ~archived
    /\ locker' = r
    /\ UNCHANGED <<row, due, archived, Host, worker, World, faults>>

\* Mutant: the row is inserted after the session's lock was given up.
CommitUnlocked(r) ==
    /\ row[r].status = "absent"
    /\ row' = [row EXCEPT ![r].status = "pending"]
    /\ locker' = IF locker = r THEN None ELSE locker
    /\ UNCHANGED <<due, archived, Host, worker, World, faults>>

\* an action that is due already is stored as expired
CommitEnqueue(r) ==
    /\ locker = r
    /\ row' = [row EXCEPT ![r].status = IF r \in due THEN "expired" ELSE "pending"]
    /\ locker' = None
    /\ UNCHANGED <<due, archived, Host, worker, World, faults>>

FallDue(r) ==
    /\ r \in Expiring \ due
    /\ due' = due \cup {r}
    /\ UNCHANGED <<row, archived, locker, Host, worker, World, faults>>

Archive ==
    /\ ~archived /\ locker = None /\ Fault
    /\ archived' = TRUE
    /\ row' = [r \in Row |->
          IF row[r].status = "pending" THEN [row[r] EXCEPT !.status = "failed"] ELSE row[r]]
    /\ UNCHANGED <<due, locker, Host, worker, World>>

Restore ==
    /\ archived /\ locker = None
    /\ archived' = FALSE
    /\ UNCHANGED <<row, due, locker, Host, worker, World, faults>>

-------------------------------------------------------------------------------
\* The connector changes hands.

Acquire(p) ==
    /\ process[p] = "down" /\ holder = None
    /\ holder' = p
    /\ process' = [process EXCEPT ![p] = "up"]
    /\ UNCHANGED <<Queue, worker, World, faults>>

\* Mutant: an interrupted send is queued again.
Requeued(r) == [row[r] EXCEPT !.status = "pending", !.token = 0]

Abandoned(r) == [row[r] EXCEPT !.status = "unknown"]

\* markSendingDeliveriesUnknown, then the drain loop starts
StartWorker(p) ==
    /\ process[p] = "up" /\ worker[p].phase = "off"
    /\ row' = [r \in Row |-> IF row[r].status = "sending" THEN Abandoned(r) ELSE row[r]]
    /\ SetWorker(p, Idle)
    /\ UNCHANGED <<due, archived, locker, Host, World, faults>>

\* the lease runs out, under its holder or after it went down
LoseLease(p) ==
    /\ holder = p
    /\ holder' = None
    /\ IF process[p] = "down" THEN UNCHANGED faults ELSE Fault
    /\ UNCHANGED <<Queue, process, worker, World>>

\* asked to, or by onLeaseLost
Stop(p) ==
    /\ process[p] = "up"
    /\ process' = [process EXCEPT ![p] = "stopping"]
    /\ IF holder = p THEN Fault ELSE UNCHANGED faults
    /\ UNCHANGED <<Queue, holder, worker, World>>

Vanish(p) ==
    /\ process' = [process EXCEPT ![p] = "down"]
    /\ SetWorker(p, Off)
    /\ locker' = IF locker = p THEN None ELSE locker
    /\ UNCHANGED <<row, due, archived, World>>

\* the drain has ended, the lease is released
Exit(p) ==
    /\ process[p] = "stopping" /\ worker[p].phase \in {"off", "idle"}
    /\ Vanish(p)
    /\ holder' = IF holder = p THEN None ELSE holder
    /\ UNCHANGED faults

\* the lease outlives the process until it runs out
Crash(p) ==
    /\ process[p] # "down"
    /\ Vanish(p) /\ Fault
    /\ UNCHANGED holder

-------------------------------------------------------------------------------
\* Claiming: the candidate is read without a lock, then the session is locked,
\* then the row.

\* Mutant: rows being sent stay at the head of the queue.
Unfinished(r) == row[r].status \in {"pending", "sending"}

Queued(r) == row[r].status = "pending"

Pick(p) ==
    /\ process[p] = "up" /\ worker[p].phase = "idle"
    /\ \E r \in Row :
         /\ Queued(r) /\ \A q \in Row : Queued(q) => r <= q
         /\ SetWorker(p, [Idle EXCEPT !.phase = IF r \in due THEN "overdue" ELSE "picked",
                                      !.row = r])
    /\ UNCHANGED <<Queue, Host, World, faults>>

ExpireCandidate(p) ==
    LET r == worker[p].row IN
    /\ worker[p].phase = "overdue"
    /\ row' = [row EXCEPT ![r].status = IF @ = "pending" THEN "expired" ELSE @]
    /\ SetWorker(p, Idle)
    /\ UNCHANGED <<due, archived, locker, Host, World, faults>>

LockSession(p) ==
    LET r == worker[p].row IN
    /\ worker[p].phase = "picked" /\ locker = None
    /\ IF archived
       THEN /\ row' = [row EXCEPT ![r].status = IF @ = "pending" THEN "failed" ELSE @]
            /\ SetWorker(p, Idle)
            /\ UNCHANGED locker
       ELSE /\ locker' = p
            /\ Phase(p, "locked")
            /\ UNCHANGED row
    /\ UNCHANGED <<due, archived, Host, World, faults>>

CommitClaim(p) ==
    LET r == worker[p].row
        token == row[r].claims + 1
    IN
    /\ worker[p].phase = "locked"
    /\ IF row[r].status = "pending" /\ r \notin due
       THEN /\ row' = [row EXCEPT ![r] = [status |-> "sending", claims |-> token, token |-> token]]
            /\ SetWorker(p, [worker[p] EXCEPT !.phase = "claimed", !.token = token])
       ELSE /\ UNCHANGED row
            /\ SetWorker(p, Idle)
    /\ locker' = None
    /\ UNCHANGED <<due, archived, Host, World, faults>>

\* the answer of the claim, or of expireActionIfDue, is lost: the drain throws
LoseClaim(p) ==
    /\ worker[p].phase \in {"locked", "claimed"}
    /\ SetWorker(p, Idle)
    /\ locker' = IF locker = p THEN None ELSE locker
    /\ Fault
    /\ UNCHANGED <<row, due, archived, Host, World>>

HoldsToken(p) == row[worker[p].row].token = worker[p].token

ExpireClaimed(p) ==
    LET r == worker[p].row IN
    /\ worker[p].phase = "claimed" /\ r \in due
    /\ HoldsToken(p) /\ row[r].status = "sending"
    /\ row' = [row EXCEPT ![r].status = "expired", ![r].token = 0]
    /\ SetWorker(p, Idle)
    /\ UNCHANGED <<due, archived, locker, Host, World, faults>>

-------------------------------------------------------------------------------
\* Sending: adapter.send, or dispatch.

Dispatch(p) ==
    LET r == worker[p].row IN
    /\ worker[p].phase = "claimed"
    /\ ~(r \in due /\ HoldsToken(p) /\ row[r].status = "sending")
    /\ Phase(p, "sending")
    /\ UNCHANGED <<Queue, Host, World, faults>>

Transmit(p) ==
    /\ worker[p].phase = "sending"
    /\ sends' = [sends EXCEPT ![worker[p].row] = @ + 1]
    /\ Phase(p, "sent")
    /\ UNCHANGED <<Queue, Host, late, answer, faults>>

Answered(p, outcome) ==
    /\ answer' = [answer EXCEPT ![worker[p].row] = @ \cup {outcome}]
    /\ SetWorker(p, [worker[p] EXCEPT !.phase = "write", !.outcome = outcome, !.tries = 1])
    /\ UNCHANGED <<Queue, Host, late, sends, faults>>

AdapterReturns(p) == worker[p].phase = "sent" /\ Answered(p, "sent")

\* the adapter may throw after the message went out
AdapterThrows(p) == worker[p].phase \in {"sending", "sent"} /\ Answered(p, "failed")

-------------------------------------------------------------------------------
\* Receipts: settleChannelReceipt.

\* Mutant: a lost receipt may overwrite a settled one.
WritableAnyway(s, status) == s.row \in Row

\* markDeliverySent and markDeliveryFailed, or markDeliveryUnknown
Writable(s, status) ==
    /\ row[s.row].token = s.token
    /\ row[s.row].status \in IF status = "unknown" THEN {"sending"} ELSE {"sending", "unknown"}

After(s, status) ==
    IF Writable(s, status) THEN [row[s.row] EXCEPT !.status = status] ELSE row[s.row]

Statement(p, status) == [row |-> worker[p].row, token |-> worker[p].token, status |-> status]

Matches(p, receipt) == receipt.token = worker[p].token /\ receipt.status = worker[p].outcome

GiveUp(p, receipt) == receipt.token # worker[p].token \/ receipt.status = "unknown"

\* the statement runs and its answer arrives
Write(p) ==
    LET receipt == After(Statement(p, worker[p].outcome), worker[p].outcome) IN
    /\ worker[p].phase = "write"
    /\ row' = [row EXCEPT ![worker[p].row] = receipt]
    /\ IF Matches(p, receipt) THEN SetWorker(p, Idle) ELSE Phase(p, "read")
    /\ UNCHANGED <<due, archived, locker, Host, World, faults>>

\* the answer is lost: the statement may run later, or never
LoseWrite(p) ==
    /\ worker[p].phase = "write" /\ Fault
    /\ late' = late \cup {Statement(p, worker[p].outcome)}
    /\ Phase(p, "read")
    /\ UNCHANGED <<Queue, Host, sends, answer>>

\* Mutant: one attempt too many.
AgainOnceMore(p, phase, last) ==
    SetWorker(p, IF worker[p].tries <= ReceiptAttempts
                 THEN [worker[p] EXCEPT !.phase = phase, !.tries = @ + 1]
                 ELSE IF last = "idle" THEN Idle
                 ELSE [worker[p] EXCEPT !.phase = last, !.tries = 1])

\* the next of the attempts, or what follows the last one
Again(p, phase, last) ==
    SetWorker(p, IF worker[p].tries < ReceiptAttempts
                 THEN [worker[p] EXCEPT !.phase = phase, !.tries = @ + 1]
                 ELSE IF last = "idle" THEN Idle
                 ELSE [worker[p] EXCEPT !.phase = last, !.tries = 1])

Read(p) ==
    LET receipt == row[worker[p].row] IN
    /\ worker[p].phase = "read"
    /\ IF Matches(p, receipt) THEN SetWorker(p, Idle)
       ELSE IF receipt.token # worker[p].token
       THEN SetWorker(p, [worker[p] EXCEPT !.phase = "mark", !.tries = 1])
       ELSE Again(p, "write", "mark")
    /\ UNCHANGED <<Queue, Host, World, faults>>

\* lost reads change nothing: the attempts bound them, not MaxFaults
LoseRead(p) ==
    /\ worker[p].phase = "read"
    /\ Again(p, "write", "mark")
    /\ UNCHANGED <<Queue, Host, World, faults>>

\* Mutant: an unconfirmed receipt is recorded as a failure.
MarkFailed == "failed"

MarkStatus == "unknown"

Mark(p) ==
    LET receipt == After(Statement(p, MarkStatus), MarkStatus) IN
    /\ worker[p].phase = "mark"
    /\ row' = [row EXCEPT ![worker[p].row] = receipt]
    /\ IF Matches(p, receipt) \/ GiveUp(p, receipt) THEN SetWorker(p, Idle) ELSE Phase(p, "check")
    /\ UNCHANGED <<due, archived, locker, Host, World, faults>>

LoseMark(p) ==
    /\ worker[p].phase = "mark" /\ Fault
    /\ late' = late \cup {Statement(p, MarkStatus)}
    /\ Phase(p, "check")
    /\ UNCHANGED <<Queue, Host, sends, answer>>

Check(p) ==
    LET receipt == row[worker[p].row] IN
    /\ worker[p].phase = "check"
    /\ IF Matches(p, receipt) \/ GiveUp(p, receipt) THEN SetWorker(p, Idle)
       ELSE Again(p, "mark", "idle")
    /\ UNCHANGED <<Queue, Host, World, faults>>

LoseCheck(p) ==
    /\ worker[p].phase = "check"
    /\ Again(p, "mark", "idle")
    /\ UNCHANGED <<Queue, Host, World, faults>>

\* a statement whose answer was lost runs after all
RunLate(s) ==
    /\ s \in late
    /\ row' = [row EXCEPT ![s.row] = After(s, s.status)]
    /\ late' = late \ {s}
    /\ UNCHANGED <<due, archived, locker, Host, worker, sends, answer, faults>>

-------------------------------------------------------------------------------
Init ==
    /\ row = [r \in Row |-> [status |-> "absent", claims |-> 0, token |-> 0]]
    /\ due = {} /\ archived = FALSE /\ locker = None
    /\ holder = None
    /\ process = [p \in Process |-> "down"]
    /\ worker = [p \in Process |-> Off]
    /\ late = {}
    /\ sends = [r \in Row |-> 0]
    /\ answer = [r \in Row |-> {}]
    /\ faults = 0

Drain(p) ==
    \/ Pick(p) \/ ExpireCandidate(p) \/ LockSession(p) \/ CommitClaim(p)
    \/ ExpireClaimed(p) \/ Dispatch(p) \/ Transmit(p) \/ AdapterReturns(p) \/ AdapterThrows(p)
    \/ Write(p) \/ Read(p) \/ Mark(p) \/ Check(p)

LoseAnswer(p) == LoseClaim(p) \/ LoseWrite(p) \/ LoseRead(p) \/ LoseMark(p) \/ LoseCheck(p)

Next ==
    \/ \E r \in Row : BeginEnqueue(r) \/ CommitEnqueue(r) \/ FallDue(r)
    \/ Archive \/ Restore
    \/ \E p \in Process :
         \/ Acquire(p) \/ StartWorker(p) \/ LoseLease(p) \/ Stop(p) \/ Exit(p) \/ Crash(p)
         \/ Drain(p) \/ LoseAnswer(p)
    \/ \E s \in late : RunLate(s)

\* The poll timer starts a drain, a stopped or crashed process is started again
\* or its lease expires and another takes over, and every statement is answered.
Fairness ==
    /\ \A r \in Row : WF_vars(CommitEnqueue(r))
    /\ \A p \in Process :
         /\ WF_vars(Acquire(p)) /\ WF_vars(StartWorker(p)) /\ WF_vars(Exit(p))
         /\ WF_vars(process[p] = "down" /\ LoseLease(p))
         /\ WF_vars(holder # p /\ Stop(p))
         /\ WF_vars(Drain(p))

Spec == Init /\ [][Next]_vars

FairSpec == Spec /\ Fairness
-------------------------------------------------------------------------------
\* Properties.

Settled == {"sent", "failed", "expired"}

RowType == [status : {"absent", "pending", "sending", "unknown"} \cup Settled,
            claims : Nat, token : Nat]

WorkerType ==
    [phase : {"off", "idle", "overdue", "picked", "locked", "claimed", "sending", "sent",
              "write", "read", "mark", "check"},
     row : Row \cup {None}, token : Nat, outcome : {None, "sent", "failed"},
     tries : 0 .. ReceiptAttempts]

\* Every variable holds values of its kind, and a receipt is written, and marked
\* unknown, at most RECEIPT_ATTEMPTS times (receipt-settlement.ts:18-52).
TypeOK ==
    /\ row \in [Row -> RowType]
    /\ due \subseteq Expiring
    /\ archived \in BOOLEAN
    /\ locker \in Row \cup Process \cup {None}
    /\ holder \in Process \cup {None}
    /\ process \in [Process -> {"up", "stopping", "down"}]
    /\ worker \in [Process -> WorkerType]
    /\ late \subseteq [row : Row, token : Nat, status : {"sent", "failed", "unknown"}]
    /\ sends \in [Row -> Nat]
    /\ answer \in [Row -> SUBSET {"sent", "failed"}]
    /\ faults \in 0 .. MaxFaults

\* No row is transmitted twice: not by a worker whose receipt was lost, not by a
\* process that starts while its predecessor still sends, not after a crash
\* between the send and its receipt (docs/developers/architecture.md:415-422).
TransmittedAtMostOnce == \A r \in Row : sends[r] <= 1

\* What a row's terminal status says happened: sent and failed are what the
\* adapter said of this row, except that archiving fails rows nobody claimed,
\* and an expired row was never transmitted.
ReceiptIsTrue ==
    \A r \in Row :
        /\ row[r].status = "sent" => "sent" \in answer[r]
        /\ row[r].status = "failed" /\ row[r].token # 0 => "failed" \in answer[r]
        /\ row[r].status = "expired" \/ row[r].token = 0 => sends[r] = 0

\* sent, failed and expired are final: neither startup recovery nor a receipt or
\* an unknown mark that was delayed, of this worker or an earlier one, changes them.
SettledIsFinal ==
    [][\A r \in Row : row[r].status \in Settled => row'[r].status = row[r].status]_vars

\* An archived session has nothing left to send, whatever was being enqueued or
\* claimed when it was archived (sessions/archive.ts, the session row's lock).
ArchivedSessionIsQuiet == archived => \A r \in Row : row[r].status # "pending"

\* A pending row leaves the queue, through crashes and handovers, whatever became
\* of the rows ahead of it.
PendingIsResolved == \A r \in Row : row[r].status = "pending" ~> row[r].status # "pending"
===============================================================================
