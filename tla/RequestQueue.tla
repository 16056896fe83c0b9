----------------------------- MODULE RequestQueue -----------------------------
(***************************************************************************)
(* The durable runtime request queue (domain/threads/requests/repo.ts) and *)
(* the drains that empty it (app/runtime/request-drain.ts): requests are   *)
(* rows with an ordering key and a creation time; a drain claims the head  *)
(* of a stream under a token and a lease, a handler works on it, renews    *)
(* the lease, and settles, defers or releases the row.                     *)
(*                                                                         *)
(* A token is the attempt number its claim wrote: every claim increments   *)
(* execution_attempts, so the number is as fresh as the code's UUID.       *)
(* Instants are distances to now: what is left of a row's lease, what is   *)
(* left until a handler's deadline, and the age of a statement in flight.  *)
(*                                                                         *)
(* A statement fixes NOW() when it begins and may commit later: a claim    *)
(* begins when it locks its candidate, a renewal at any moment since it    *)
(* was sent.  A renewal whose handler gave up on it (a client error, a     *)
(* crash) stays at the server and may commit behind newer ones.            *)
(***************************************************************************)
EXTENDS Naturals, FiniteSets, Sequences

CONSTANTS
    Request,     \* rows that may be enqueued
    KeyOf,       \* ordering_key of each of them
    Malformed,   \* those whose stored payload not every version of the code parses
    Daemon,      \* processes that run a drain
    Slot,        \* maxConcurrency handlers of a drain
    TTL,         \* claimLeaseMs, in ticks
    RetryAfter,  \* retryAfterMs of a deferral, in ticks
    MaxFaults,   \* bound on crashes, stops, errors, deferrals and leases run out
    None

ASSUME QueueAssumption ==
    /\ Malformed \subseteq Request
    /\ TTL \in Nat \ {0}
    /\ RetryAfter \in 1 .. TTL
    /\ MaxFaults \in Nat
    /\ IsFiniteSet(Daemon) /\ IsFiniteSet(Slot)

VARIABLES
    row,      \* runtime_requests: status, execution_attempts, lease left
    order,    \* the requests by (created_at, id)
    ahead,    \* history: of each request, the stream's rows visible when its insert began
    daemon,   \* up, stopping or down
    claim,    \* of each daemon: its claim statement in flight
    handler,  \* of each slot of each daemon: processClaimedRequest
    faults,   \* how much of MaxFaults is spent
    late,     \* abandoned renewals that have not committed
    cut       \* history: the claims whose lease an abandoned renewal has shortened

vars == <<row, order, ahead, daemon, claim, handler, faults, late, cut>>

Handler == Daemon \X Slot

NoClaim == [phase |-> "idle", req |-> None, attempt |-> 0, age |-> 0]

IdleHandler ==
    [phase |-> "idle", req |-> None, attempt |-> 0, deadline |-> 0,
     signal |-> "live", outcome |-> None, renewal |-> "none", age |-> 0]

-------------------------------------------------------------------------------
\* Reading the table.

Visible(r) == row[r].status \notin {"absent", "inserting"}
Unsettled(r) == row[r].status \in {"pending", "running"}
Settled(r) == row[r].status \in {"completed", "failed", "pruned"}
Expired(r) == row[r].status = "running" /\ row[r].left = 0

Earlier(q, r) == \E i, j \in DOMAIN order : i < j /\ order[i] = q /\ order[j] = r

SameStream(q, r) == q # r /\ KeyOf[q] = KeyOf[r]

\* FOR UPDATE: the candidate of a claim that has not committed
Locked(r) == \E d \in Daemon : claim[d].phase = "locked" /\ claim[d].req = r

\* Mutant: pending predecessors do not count.
HasRunningPredecessor(r) ==
    \E q \in Request : SameStream(q, r) /\ row[q].status = "running" /\ Earlier(q, r)

HasPredecessor(r) ==
    \E q \in Request : SameStream(q, r) /\ Unsettled(q) /\ Earlier(q, r)

StreamIsRunning(r) == \E q \in Request : SameStream(q, r) /\ row[q].status = "running"

\* Mutant: expired claims are left alone.
ClaimableIfPending(r) ==
    row[r].status = "pending" /\ ~HasPredecessor(r) /\ ~StreamIsRunning(r)

Claimable(r) ==
    /\ row[r].status = "pending" \/ Expired(r)
    /\ ~HasPredecessor(r) /\ ~StreamIsRunning(r)

\* Mutant: any running row will do, whoever claimed it.
HoldsAnyToken(h) == row[handler[h].req].status = "running"

\* WHERE id = .. AND claim_token = .. AND status = 'running'
HoldsToken(h) ==
    /\ row[handler[h].req].status = "running"
    /\ row[handler[h].req].attempt = handler[h].attempt

\* A claim, by its request and its token; an abandoned renewal has both.
TokenCurrent(s) == row[s.req].status = "running" /\ row[s.req].attempt = s.attempt

\* Mutants: the deadline counts from the answer; the age is added.
DeadlineFromAnswer(age) == TTL
DeadlineAhead(age) == TTL + age

\* claimStartedAt or renewalStartedAt plus claimTtlMs, seen from now
OwnershipDeadline(age) == TTL - age

SetRow(r, status, left) ==
    row' = [row EXCEPT ![r].status = status, ![r].left = left]

Fault == faults < MaxFaults /\ faults' = faults + 1

-------------------------------------------------------------------------------
\* Producers. created_at is the start of the inserting transaction, which may
\* wait for a session lock before it commits.

BeginEnqueue(r) ==
    /\ row[r].status = "absent"
    /\ SetRow(r, "inserting", 0)
    /\ order' = Append(order, r)
    /\ ahead' = [ahead EXCEPT ![r] = {q \in Request : SameStream(q, r) /\ Visible(q)}]
    /\ UNCHANGED <<daemon, claim, handler, faults, late, cut>>

CommitEnqueue(r) ==
    /\ row[r].status = "inserting"
    /\ SetRow(r, "pending", 0)
    /\ UNCHANGED <<order, ahead, daemon, claim, handler, faults, late, cut>>

Prune(r) ==
    /\ row[r].status \in {"completed", "failed"}
    /\ SetRow(r, "pruned", 0)
    /\ UNCHANGED <<order, ahead, daemon, claim, handler, faults, late, cut>>

-------------------------------------------------------------------------------
\* The drain: claimNextPendingRequest, one statement at a time per daemon.

\* the statement fixes NOW(), reads its snapshot and locks the oldest candidate
BeginClaim(d) ==
    /\ daemon[d] = "up" /\ claim[d].phase = "idle"
    /\ \E s \in Slot : handler[<<d, s>>].phase = "idle"
    /\ \E r \in Request :
         /\ Claimable(r) /\ ~Locked(r)
         /\ \A q \in Request : Claimable(q) /\ Earlier(q, r) => Locked(q)
         /\ claim' = [claim EXCEPT ![d] = [NoClaim EXCEPT !.phase = "locked", !.req = r]]
    /\ UNCHANGED <<row, order, ahead, daemon, handler, faults, late, cut>>

\* Mutant: the partial unique index is not there.
NeverRefused(r) == FALSE

\* runtime_requests_running_key_idx: the update is a unique violation
IndexRefuses(r) == StreamIsRunning(r)

CommitClaim(d) ==
    LET r == claim[d].req IN
    /\ claim[d].phase = "locked"
    /\ IF IndexRefuses(r)
       THEN /\ claim' = [claim EXCEPT ![d] = NoClaim]
            /\ UNCHANGED row
       ELSE /\ row' = [row EXCEPT ![r] =
                  [status |-> "running", attempt |-> @.attempt + 1, left |-> TTL - claim[d].age]]
            /\ claim' = [claim EXCEPT ![d].phase = "claimed",
                                      ![d].attempt = row[r].attempt + 1]
    /\ UNCHANGED <<order, ahead, daemon, handler, faults, late, cut>>

AcceptClaim(d) ==
    /\ claim[d].phase = "claimed" /\ daemon[d] = "up"
    /\ \E s \in Slot :
         /\ handler[<<d, s>>].phase = "idle"
         /\ handler' = [handler EXCEPT ![<<d, s>>] =
              [IdleHandler EXCEPT !.phase = "working", !.req = claim[d].req,
                                  !.attempt = claim[d].attempt,
                                  !.deadline = OwnershipDeadline(claim[d].age)]]
    /\ claim' = [claim EXCEPT ![d] = NoClaim]
    /\ UNCHANGED <<row, order, ahead, daemon, faults, late, cut>>

ClaimIsCurrent(d) ==
    /\ row[claim[d].req].status = "running"
    /\ row[claim[d].req].attempt = claim[d].attempt

\* a drain stopped while it claimed gives the row back
ReturnClaim(d) ==
    /\ claim[d].phase = "claimed" /\ daemon[d] = "stopping"
    /\ ~Locked(claim[d].req)
    /\ IF ClaimIsCurrent(d) THEN SetRow(claim[d].req, "pending", 0) ELSE UNCHANGED row
    /\ claim' = [claim EXCEPT ![d] = NoClaim]
    /\ UNCHANGED <<order, ahead, daemon, handler, faults, late, cut>>

\* a row that does not parse is failed under the claim's token
Quarantine(d) ==
    /\ claim[d].phase = "claimed" /\ claim[d].req \in Malformed
    /\ ~Locked(claim[d].req)
    /\ IF ClaimIsCurrent(d) THEN SetRow(claim[d].req, "failed", 0) ELSE UNCHANGED row
    /\ claim' = [claim EXCEPT ![d] = NoClaim]
    /\ UNCHANGED <<order, ahead, daemon, handler, faults, late, cut>>

\* the answer of the statement is lost: before its commit or after it
LoseClaimAnswer(d) ==
    /\ claim[d].phase # "idle"
    /\ claim' = [claim EXCEPT ![d] = NoClaim]
    /\ Fault
    /\ UNCHANGED <<row, order, ahead, daemon, handler, late, cut>>

-------------------------------------------------------------------------------
\* The handler: renewals, the ownership timer and the end of the work.

RenewSend(h) ==
    /\ handler[h].phase = "working" /\ handler[h].signal = "live"
    /\ handler[h].renewal = "none"
    /\ handler' = [handler EXCEPT ![h].renewal = "sent", ![h].age = 0]
    /\ UNCHANGED <<row, order, ahead, daemon, claim, faults, late, cut>>

\* WHERE .. AND claim_expires_at > NOW(), fixed a ticks ago. When a lease that
\* has run out did so is not kept: a NOW() of the past may have met it alive.
MayBeUnexpired(r, a) == row[r].left > 0 \/ a > 0

RenewApply(h) ==
    /\ handler[h].renewal = "sent" /\ ~Locked(handler[h].req)
    /\ \/ \E a \in 0 .. handler[h].age :
            /\ HoldsToken(h) /\ MayBeUnexpired(handler[h].req, a)
            /\ SetRow(handler[h].req, "running", TTL - a)
            /\ handler' = [handler EXCEPT ![h].renewal = "renewed"]
            /\ cut' = cut \ {<<handler[h].req, handler[h].attempt>>}
       \/ /\ ~(HoldsToken(h) /\ row[handler[h].req].left > 0)
          /\ handler' = [handler EXCEPT ![h].renewal = "refused", ![h].age = 0]
          /\ UNCHANGED <<row, cut>>
    /\ UNCHANGED <<order, ahead, daemon, claim, faults, late>>

\* The renewals that these handlers leave at the server, told apart by the faults
\* before them.
Unanswered(H) ==
    {[req |-> handler[h].req, attempt |-> handler[h].attempt,
      age |-> handler[h].age, id |-> faults] : h \in {k \in H : handler[k].renewal = "sent"}}

\* The same statement, when nobody waits for it any more. It shortens the lease
\* when its NOW() is older than that of the last renewal.
LateRenewal(s) ==
    /\ s \in late /\ ~Locked(s.req)
    /\ late' = late \ {s}
    /\ \/ \E a \in 0 .. s.age :
            /\ TokenCurrent(s) /\ MayBeUnexpired(s.req, a)
            /\ SetRow(s.req, "running", TTL - a)
            /\ cut' = IF TTL - a < row[s.req].left THEN cut \cup {<<s.req, s.attempt>>} ELSE cut
       \/ /\ ~(TokenCurrent(s) /\ row[s.req].left > 0)
          /\ UNCHANGED <<row, cut>>
    /\ UNCHANGED <<order, ahead, daemon, claim, handler, faults>>

NoRenewal(h) == [handler[h] EXCEPT !.renewal = "none", !.age = 0]

LoseClaim(h, record) ==
    handler' = [handler EXCEPT ![h] =
        [record EXCEPT !.signal = "lost", !.deadline = 0, !.outcome = None]]

RenewAnswer(h) ==
    /\ \/ /\ handler[h].renewal = "renewed"
          /\ handler' = [handler EXCEPT ![h] =
               IF handler[h].phase = "working" /\ handler[h].signal # "lost"
               THEN [NoRenewal(h) EXCEPT !.deadline = OwnershipDeadline(handler[h].age)]
               ELSE NoRenewal(h)]
       \/ /\ handler[h].renewal = "refused"
          /\ LoseClaim(h, NoRenewal(h))
    /\ UNCHANGED <<row, order, ahead, daemon, claim, faults, late, cut>>

\* The error is swallowed and the next interval renews again; the statement, if it
\* has not committed, goes on without its handler.
RenewError(h) ==
    /\ handler[h].renewal # "none"
    /\ handler' = [handler EXCEPT ![h] = NoRenewal(h)]
    /\ late' = late \cup Unanswered({h})
    /\ Fault
    /\ UNCHANGED <<row, order, ahead, daemon, claim, cut>>

TimerDue(h) ==
    handler[h].phase = "working" /\ handler[h].signal # "lost" /\ handler[h].deadline = 0

OwnershipTimer(h) ==
    /\ TimerDue(h)
    /\ LoseClaim(h, handler[h])
    /\ UNCHANGED <<row, order, ahead, daemon, claim, faults, late, cut>>

\* processRequest returns or throws; both timers are stopped
FinishWork(h, outcome) ==
    /\ handler[h].phase = "working"
    /\ handler[h].signal = "live" \/ outcome = "ok"
    /\ handler' = [handler EXCEPT ![h].phase = "finished", ![h].deadline = 0,
          ![h].outcome = IF handler[h].signal = "live" THEN outcome ELSE None]
    /\ IF handler[h].signal = "live" /\ outcome = "retry" THEN Fault ELSE UNCHANGED faults
    /\ UNCHANGED <<row, order, ahead, daemon, claim, late, cut>>

\* await renewalInFlight has returned
Settling(h) == handler[h].phase = "finished" /\ handler[h].renewal = "none"

EndHandler(h) == handler' = [handler EXCEPT ![h] = IdleHandler]

DropLostClaim(h) ==
    /\ Settling(h) /\ handler[h].signal = "lost"
    /\ EndHandler(h)
    /\ UNCHANGED <<row, order, ahead, daemon, claim, faults, late, cut>>

\* one token-guarded statement: it finds the row or it finds nothing
WriteUnderToken(h, guard, status, left) ==
    /\ ~Locked(handler[h].req)
    /\ IF HoldsToken(h) /\ guard THEN SetRow(handler[h].req, status, left) ELSE UNCHANGED row
    /\ EndHandler(h)
    /\ UNCHANGED <<order, ahead, daemon, claim, faults, late, cut>>

Release(h) ==
    /\ Settling(h) /\ handler[h].signal = "stopped"
    /\ WriteUnderToken(h, TRUE, "pending", 0)

Defer(h) ==
    /\ Settling(h) /\ handler[h].outcome = "retry"
    /\ WriteUnderToken(h, row[handler[h].req].left > 0, "running", RetryAfter)

Fail(h) ==
    /\ Settling(h) /\ handler[h].outcome = "error"
    /\ WriteUnderToken(h, TRUE, "failed", 0)

Complete(h) ==
    /\ Settling(h) /\ handler[h].outcome = "ok"
    /\ WriteUnderToken(h, TRUE, "completed", 0)

SettleError(h) ==
    /\ Settling(h) /\ handler[h].signal # "lost"
    /\ EndHandler(h)
    /\ Fault
    /\ UNCHANGED <<row, order, ahead, daemon, claim, late, cut>>

-------------------------------------------------------------------------------
\* Daemons stop, exit, crash and start again.

Stop(d) ==
    /\ daemon[d] = "up"
    /\ daemon' = [daemon EXCEPT ![d] = "stopping"]
    /\ handler' = [h \in Handler |->
          IF h[1] = d /\ handler[h].phase # "idle" /\ handler[h].signal = "live"
          THEN [handler[h] EXCEPT !.signal = "stopped", !.outcome = None] ELSE handler[h]]
    /\ Fault
    /\ UNCHANGED <<row, order, ahead, claim, late, cut>>

Vanish(d) ==
    /\ daemon' = [daemon EXCEPT ![d] = "down"]
    /\ claim' = [claim EXCEPT ![d] = NoClaim]
    /\ handler' = [h \in Handler |-> IF h[1] = d THEN IdleHandler ELSE handler[h]]
    /\ late' = late \cup Unanswered({h \in Handler : h[1] = d})
    /\ UNCHANGED <<row, order, ahead, cut>>

\* drained, or the shutdown timeout has passed
Exit(d) == daemon[d] = "stopping" /\ Vanish(d) /\ UNCHANGED faults

Crash(d) == daemon[d] = "up" /\ Vanish(d) /\ Fault

Start(d) ==
    /\ daemon[d] = "down"
    /\ daemon' = [daemon EXCEPT ![d] = "up"]
    /\ UNCHANGED <<row, order, ahead, claim, handler, faults, late, cut>>

-------------------------------------------------------------------------------
\* Time. A due timer fires before the next tick, and a lease that runs out
\* under a handler or a claim in flight counts as a fault.

Down(n) == IF n > 0 THEN n - 1 ELSE 0
Older(n) == IF n < TTL THEN n + 1 ELSE n

AgedHandler(h) ==
    [handler[h] EXCEPT !.deadline = Down(@),
                       !.age = IF handler[h].renewal \in {"sent", "renewed"} THEN Older(@) ELSE @]

AgedClaim(d) ==
    IF claim[d].phase = "idle" THEN claim[d] ELSE [claim[d] EXCEPT !.age = Older(@)]

RunOut ==
    Cardinality({h \in Handler : \/ handler[h].deadline = 1
                                 \/ /\ handler[h].phase = "finished" /\ HoldsToken(h)
                                    /\ row[handler[h].req].left = 1})
        + Cardinality({d \in Daemon : claim[d].phase # "idle" /\ claim[d].age = TTL - 1})

Tick ==
    /\ \A h \in Handler : ~TimerDue(h)
    /\ faults' = faults + RunOut /\ faults' <= MaxFaults
    /\ row' = [r \in Request |-> [row[r] EXCEPT !.left = Down(@)]]
    /\ handler' = [h \in Handler |-> AgedHandler(h)]
    /\ claim' = [d \in Daemon |-> AgedClaim(d)]
    /\ late' = {[s EXCEPT !.age = Older(@)] : s \in late}
    /\ UNCHANGED <<order, ahead, daemon, cut>>

-------------------------------------------------------------------------------
Init ==
    /\ row = [r \in Request |-> [status |-> "absent", attempt |-> 0, left |-> 0]]
    /\ order = <<>>
    /\ ahead = [r \in Request |-> {}]
    /\ daemon = [d \in Daemon |-> "up"]
    /\ claim = [d \in Daemon |-> NoClaim]
    /\ handler = [h \in Handler |-> IdleHandler]
    /\ faults = 0
    /\ late = {} /\ cut = {}

Settle(h) == Release(h) \/ Defer(h) \/ Fail(h) \/ Complete(h) \/ DropLostClaim(h)

Next ==
    \/ \E r \in Request : BeginEnqueue(r) \/ CommitEnqueue(r) \/ Prune(r)
    \/ \E d \in Daemon :
         \/ BeginClaim(d) \/ CommitClaim(d) \/ AcceptClaim(d)
         \/ ReturnClaim(d) \/ Quarantine(d) \/ LoseClaimAnswer(d)
         \/ Stop(d) \/ Exit(d) \/ Crash(d) \/ Start(d)
    \/ \E h \in Handler :
         \/ RenewSend(h) \/ RenewApply(h) \/ RenewAnswer(h) \/ RenewError(h)
         \/ OwnershipTimer(h)
         \/ \E outcome \in {"ok", "error", "retry"} : FinishWork(h, outcome)
         \/ Settle(h) \/ SettleError(h)
    \/ \E s \in late : LateRenewal(s)
    \/ Tick

Fairness ==
    /\ \A d \in Daemon :
         /\ WF_vars(BeginClaim(d)) /\ WF_vars(CommitClaim(d))
         /\ WF_vars(AcceptClaim(d) \/ ReturnClaim(d) \/ Quarantine(d))
         /\ WF_vars(Exit(d)) /\ WF_vars(Start(d))
    /\ \A h \in Handler :
         /\ WF_vars(RenewApply(h)) /\ WF_vars(RenewAnswer(h)) /\ WF_vars(OwnershipTimer(h))
         /\ WF_vars(\E outcome \in {"ok", "error", "retry"} : FinishWork(h, outcome))
         /\ WF_vars(Settle(h))
    /\ WF_vars(Tick)

Spec == Init /\ [][Next]_vars

FairSpec == Spec /\ Fairness
-------------------------------------------------------------------------------
\* Properties.

RowType == [status : {"absent", "inserting", "pending", "running", "completed", "failed", "pruned"},
            attempt : Nat, left : 0 .. TTL]

ClaimType == [phase : {"idle", "locked", "claimed"}, req : Request \cup {None},
              attempt : Nat, age : 0 .. TTL]

HandlerType == [phase : {"idle", "working", "finished"}, req : Request \cup {None},
                attempt : Nat, deadline : 0 .. TTL, signal : {"live", "stopped", "lost"},
                outcome : {None, "ok", "error", "retry"},
                renewal : {"none", "sent", "renewed", "refused"}, age : 0 .. TTL]

LateType == [req : Request, attempt : Nat, age : 0 .. TTL, id : 0 .. MaxFaults]

\* Every variable holds values of its kind: the table's rows, the drains'
\* claims and the handlers of request-drain.ts.
TypeOK ==
    /\ row \in [Request -> RowType]
    /\ order \in Seq(Request)
    /\ ahead \in [Request -> SUBSET Request]
    /\ daemon \in [Daemon -> {"up", "stopping", "down"}]
    /\ claim \in [Daemon -> ClaimType]
    /\ handler \in [Handler -> HandlerType]
    /\ faults \in 0 .. MaxFaults
    /\ late \subseteq LateType /\ cut \subseteq Request \X Nat

\* its signal is not aborted and its deadline has not passed
Trusted(h) ==
    handler[h].phase = "working" /\ handler[h].signal = "live" /\ handler[h].deadline > 0

\* An abandoned renewal has committed behind a newer one of the handler's claim.
LeaseCut(h) == <<handler[h].req, handler[h].attempt>> \in cut

Owns(h) == HoldsToken(h) /\ row[handler[h].req].left >= handler[h].deadline

\* While a handler may produce side effects its claim is the one the table
\* holds, and the lease there outlasts the handler's own deadline, however long
\* the answers of its claim and of its renewals took, unless one of its abandoned
\* renewals has committed behind a newer one since its last renewal
\* (request-drain.ts:146-247).
OwnershipHoldsUnlessCut ==
    \A h \in Handler : Trusted(h) /\ ~LeaseCut(h) => Owns(h)

\* Two handlers of one causal stream never both believe that they own it, in one
\* daemon or in two, even when a row with an earlier created_at becomes visible
\* behind a running one (claim query and running_key_idx), unless an abandoned
\* renewal of one of them has shortened its lease.
StreamHasOneOwnerUnlessCut ==
    \A h, k \in Handler :
        /\ h # k /\ Trusted(h) /\ Trusted(k)
        /\ ~LeaseCut(h) /\ ~LeaseCut(k)
        => KeyOf[handler[h].req] # KeyOf[handler[k].req]

\* A handler whose request was claimed again since ends without changing any
\* row: late completions, failures, deferrals and releases are fenced by the
\* token (repo.ts:1010-1135).
StaleHandlerChangesNothing ==
    [][\A h \in Handler :
          /\ handler[h].phase = "finished" /\ handler'[h].phase = "idle"
          /\ row[handler[h].req].attempt # handler[h].attempt
          => row' = row]_vars

Delivery == INSTANCE OrderedDelivery WITH
    submitted <- {r \in Request : row[r].status # "absent"},
    accepted <- {r \in Request : Visible(r)},
    ahead <- ahead,
    begun <- {r \in Request : row[r].attempt > 0},
    settled <- {r \in Request : Settled(r)}

\* The queue delivers its streams in order: it implements OrderedDelivery, so no
\* claim begins a request before every request its producer could see ahead of
\* it is settled, and no settled row is ever settled or reopened again.
DeliversInOrder == Delivery!Spec

\* a row became visible behind a later-created one that was already claimed
Overtaken(k) ==
    \E q, r \in Request :
        /\ KeyOf[q] = k /\ SameStream(q, r) /\ Earlier(q, r)
        /\ Unsettled(q) /\ row[r].attempt > 0

\* Every accepted request is settled, through crashes, stops, lost answers,
\* refused renewals and deferrals, unless an insert of its stream was overtaken
\* by a later one (see FreeStreamIsClaimable).
EveryRequestSettles ==
    \A r \in Request : row[r].status = "pending" ~> Settled(r) \/ Overtaken(KeyOf[r])

Abandoned(r) ==
    /\ \A d \in Daemon : claim[d].req # r
    /\ \A h \in Handler : handler[h].req = r => ~HoldsToken(h)

Free(k) ==
    \A r \in Request :
        KeyOf[r] = k /\ row[r].status = "running" => Expired(r) /\ Abandoned(r)

\* A stream that nobody works on is not wedged: when every running row of it has
\* expired and is abandoned, one of its rows can be claimed
\* (docs/developers/daemon.md:178-179), unless an insert was overtaken. Then the
\* expired row waits for its predecessor and the predecessor for the running
\* row, whose expiry the claim query does not look at (repo.ts:741-783).
FreeStreamIsClaimable ==
    \A r \in Request :
        Unsettled(r) /\ Free(KeyOf[r]) /\ ~Overtaken(KeyOf[r])
        => \E q \in Request : KeyOf[q] = KeyOf[r] /\ Claimable(q)
===============================================================================
