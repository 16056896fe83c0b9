----------------------------- MODULE RunClaims -----------------------------
(***************************************************************************)
(* The durable run protocol of one Panda session: who may execute a        *)
(* thread, which prefix of its inbox a run owns, and when the session's    *)
(* wake latch is armed and consumed.                                       *)
(*                                                                         *)
(* The state is the PostgreSQL rows (connector_leases, agent_sessions,     *)
(* session_runtime_config, threads, inputs, runs, thread_abort_operations) *)
(* and, per run id, the program counter of ThreadRuntimeCoordinator        *)
(* .runUntilIdle in the daemon that drew the id.                           *)
(*                                                                         *)
(* Claim, apply, boundary and abort receipts are statements that read a    *)
(* READ COMMITTED snapshot first and recheck only the rows they lock when  *)
(* they write; each is two actions here, so that any other writer can      *)
(* commit in between.  Statements that decide on locked rows alone are one *)
(* action.                                                                 *)
(***************************************************************************)
EXTENDS Naturals, FiniteSets

CONSTANTS
  Daemons,        \* daemon incarnations: each start draws a fresh holder id
  Threads,        \* thread ids, one of which is current at any time
  InitialThread,  \* the thread the session was created with
  Orders,         \* input_order values, allocated in increasing order
  Runs,           \* run ids, drawn once by a scheduler lane
  Operations,     \* abort operation ids
  PageSize,       \* MAX_INPUTS_PER_APPLY
  MaxGeneration,  \* bound: explicit wakes stop at this generation
  Nobody          \* no daemon, no run

ASSUME RunClaimsAssumption ==
  /\ InitialThread \in Threads
  /\ Orders \subseteq Nat \ {0}
  /\ PageSize \in Nat \ {0}
  /\ MaxGeneration \in Nat
  /\ Nobody \notin Daemons \cup Runs

VARIABLES
  lease,       \* holder of the daemon lease row, or Nobody
  live,        \* leased_until > NOW()
  phase,       \* daemon -> "new", "recovering", "serving", "stopping", "stopped"
  current,     \* agent_sessions.current_thread_id
  used,        \* threads created so far
  archived,    \* agent_sessions.archived_at IS NOT NULL
  blocked,     \* threads whose run_claims_blocked_at is set
  armed,       \* session_runtime_config.pending_wake_at IS NOT NULL
  generation,  \* session_runtime_config.pending_wake_generation
  compaction,  \* a session_compaction_requests row exists
  input,       \* order -> input row, with the wake it is owed (see Woken)
  run,         \* run id -> runs row
  attempt,     \* run id -> the executor that drew the id
  stmt,        \* run id -> snapshot of the executor's statement in flight
  late,        \* run id -> snapshot of a claim its client gave up on
  op           \* operation id -> abort receipt and the call serving it

leaseVars   == <<lease, live, phase>>
sessionVars == <<current, used, archived, blocked>>
wakeVars    == <<armed, generation, compaction, input>>
attemptVars == <<attempt, stmt, late>>
vars == <<leaseVars, sessionVars, wakeVars, run, attemptVars, op>>

Phases   == {"new", "recovering", "serving", "stopping", "stopped"}
Programs == {"idle", "admitting", "retrying", "claiming", "rereading",
             "unstarted", "apply", "applying", "prepare", "step", "boundary",
             "bounding", "complete", "failing", "over"}

InFlight == {"claiming", "applying", "bounding"}  \* a statement is at the server

(* What an input is owed: nothing yet, a run, a run by a wake that came     *)
(* after an abort was requested, nothing because an abort made it dormant,  *)
(* or nothing although such a later wake had covered it.                    *)
Owed == {"none", "owed", "renewed", "dormant", "swallowed"}

NoSnapshot == [wake |-> 0, pending |-> {}]

Init ==
  /\ lease = Nobody /\ live = FALSE
  /\ phase = [d \in Daemons |-> "new"]
  /\ current = InitialThread /\ used = {InitialThread}
  /\ archived = FALSE /\ blocked = {}
  /\ armed = FALSE /\ generation = 0 /\ compaction = FALSE
  /\ input = [o \in Orders |->
                [status |-> "absent", thread |-> InitialThread, wake |-> "none"]]
  /\ run = [r \in Runs |-> [status |-> "absent", thread |-> InitialThread,
                            owner |-> Nobody, cutoff |-> 0, abort |-> FALSE]]
  /\ attempt = [r \in Runs |->
                  [pc |-> "idle", daemon |-> Nobody, thread |-> InitialThread,
                   drain |-> FALSE]]
  /\ stmt = [r \in Runs |-> NoSnapshot]
  /\ late = [r \in Runs |-> NoSnapshot]
  /\ op = [x \in Operations |-> [phase |-> "new", blocks |-> FALSE,
                                 thread |-> InitialThread, run |-> Nobody]]

----------------------------------------------------------------------------
(* Predicates of the SQL.                                                  *)

Pending(t) ==
  {o \in Orders : input[o].status = "pending" /\ input[o].thread = t}

Running(t) == {r \in Runs : run[r].status = "running" /\ run[r].thread = t}

IsOwner(d) == lease = d /\ live

\* buildActiveThreadRunGuardCte at its snapshot, and after its row locks:
\* an unchanged lease row is not re-evaluated against the clock.
ActiveRun(r)       == run[r].status = "running" /\ IsOwner(run[r].owner)

\* Mutant: the lease is not locked and rechecked with the run.
LockedRun(r) == run[r].status = "running"

LockedActiveRun(r) == run[r].status = "running" /\ lease = run[r].owner

Claimable(t) == current = t /\ ~archived /\ t \notin blocked

\* Mutant: a missing wake is read as the database null.
SnapshotWithNull(t, observed) ==
  [wake |-> IF observed THEN generation ELSE Nobody, pending |-> Pending(t)]

Snapshot(t, observed) ==
  [wake |-> IF observed THEN generation ELSE 0, pending |-> Pending(t)]

IsGreatest(n, S) == n \in S /\ \A m \in S : m <= n

\* GREATEST(admitted_through_input_order, MAX(pending)) when a wake was seen.
ExtendedCutoff(n, r, s) ==
  IF s.wake = 0 THEN n = run[r].cutoff
                ELSE IsGreatest(n, s.pending \cup {run[r].cutoff})

\* Mutant: the page is ordered by descending input_order.
LastPage(S) == {o \in S : Cardinality({q \in S : q >= o}) <= PageSize}

FirstPage(S) == {o \in S : Cardinality({q \in S : q <= o}) <= PageSize}

\* Mutant: the latch is cleared without comparing generations.
ConsumeAnyWake(s) == armed' = (armed /\ s.wake = 0)

\* Only the generation the snapshot saw is cleared.
ConsumeWake(s) == armed' = (armed /\ ~(s.wake # 0 /\ s.wake = generation))

(* The wake latch covers every input pending when it is armed.             *)
Woken(inputs) ==
  [o \in Orders |->
     IF inputs[o].status = "pending" /\ inputs[o].thread = current
     THEN [inputs[o] EXCEPT !.wake =
             IF \E r \in Running(current) : run[r].abort THEN "renewed" ELSE "owed"]
     ELSE inputs[o]]

Arm(inputs) ==
  /\ armed' = TRUE
  /\ generation' = generation + 1
  /\ input' = Woken(inputs)

\* Nothing follows the response of a statement whose process is gone.
Goto(r, pc) ==
  attempt' = [attempt EXCEPT
                ![r].pc = IF phase[attempt[r].daemon] = "stopped" THEN "over" ELSE pc]

Up(d) == phase[d] \in {"serving", "stopping"}

----------------------------------------------------------------------------
(* Daemon incarnations and their lease.                                    *)

\* A fresh holder id wins the lease only when the row is absent or expired.
Start(d) ==
  /\ phase[d] = "new"
  /\ lease = Nobody \/ ~live
  /\ lease' = d /\ live' = TRUE
  /\ phase' = [phase EXCEPT ![d] = "recovering"]
  /\ UNCHANGED <<sessionVars, wakeVars, run, attemptVars, op>>

\* Renewals stop (crash, partition, stall) until leased_until passes.
Expire ==
  /\ live
  /\ live' = FALSE
  /\ UNCHANGED <<lease, phase, sessionVars, wakeVars, run, attemptVars, op>>

\* stopOnce: no new admission; running executors settle or are abandoned.
Stop(d) ==
  /\ phase[d] = "serving"
  /\ phase' = [phase EXCEPT ![d] = "stopping"]
  /\ UNCHANGED <<lease, live, sessionVars, wakeVars, run, attemptVars, op>>

\* The process is gone; statements it sent may still commit.
Exit(d) ==
  /\ phase[d] \in {"recovering", "serving", "stopping"}
  /\ phase' = [phase EXCEPT ![d] = "stopped"]
  /\ attempt' = [r \in Runs |->
                   IF attempt[r].daemon = d /\ attempt[r].pc \notin InFlight
                   THEN [attempt[r] EXCEPT !.pc = "over"] ELSE attempt[r]]
  /\ UNCHANGED <<lease, live, sessionVars, wakeVars, run, stmt, late, op>>

Release(d) ==
  /\ phase[d] = "stopped" /\ lease = d
  /\ lease' = Nobody /\ live' = FALSE
  /\ UNCHANGED <<phase, sessionVars, wakeVars, run, attemptVars, op>>

----------------------------------------------------------------------------
(* Inputs and wakes.                                                       *)

Enqueue(o, mode) ==
  /\ \A q \in Orders : input[q].status # "absent" <=> q < o
  /\ Claimable(current)
  /\ LET inputs == [input EXCEPT ![o] =
                      [status |-> "pending", thread |-> current, wake |-> "none"]]
     IN IF mode = "wake"
        THEN generation < MaxGeneration /\ Arm(inputs)
        ELSE input' = inputs /\ UNCHANGED <<armed, generation>>
  /\ UNCHANGED <<leaseVars, sessionVars, compaction, run, attemptVars, op>>

\* A retry with the same input id re-arms the wake of a still pending input.
ResolveDuplicate(o) ==
  /\ Claimable(current) /\ o \in Pending(current)
  /\ generation < MaxGeneration
  /\ Arm(input)
  /\ UNCHANGED <<leaseVars, sessionVars, compaction, run, attemptVars, op>>

RequestWake ==
  /\ generation < MaxGeneration
  /\ Arm(input)
  /\ UNCHANGED <<leaseVars, sessionVars, compaction, run, attemptVars, op>>

\* wakePendingInputs: an already armed latch is left alone.
Flush ==
  /\ Pending(current) # {} /\ ~armed
  /\ generation < MaxGeneration
  /\ Arm(input)
  /\ UNCHANGED <<leaseVars, sessionVars, compaction, run, attemptVars, op>>

----------------------------------------------------------------------------
(* Claiming a run.                                                         *)

Executing(d, t) ==
  \E r \in Runs : /\ attempt[r].daemon = d /\ attempt[r].thread = t
                  /\ attempt[r].pc \notin {"idle", "over"}

\* A scheduler lane draws a run id; the hint for t may be stale.
Admit(d, t, r) ==
  /\ phase[d] = "serving" /\ t \in used
  /\ attempt[r].pc = "idle" /\ ~Executing(d, t)
  /\ attempt' = [attempt EXCEPT ![r] = [pc |-> "admitting", daemon |-> d,
                                          thread |-> t, drain |-> FALSE]]
  /\ UNCHANGED <<leaseVars, sessionVars, wakeVars, run, stmt, late, op>>

\* The row the caller's own id committed earlier, seen under the same fences.
Recoverable(r) ==
  /\ ActiveRun(r) /\ run[r].owner = attempt[r].daemon
  /\ Claimable(attempt[r].thread)

\* What the shutdown drain recovers is failed before execution.
Claimed(drain) == IF drain THEN "unstarted" ELSE "apply"

SendClaim(r) ==
  LET a     == attempt[r]
      drain == phase[a.daemon] = "stopping"
      Send(pc) == attempt' = [attempt EXCEPT ![r] =
                    [pc |-> pc, daemon |-> a.daemon, thread |-> a.thread, drain |-> drain]]
  IN
  /\ \/ a.pc = "admitting" /\ phase[a.daemon] = "serving"
     \/ a.pc = "retrying" /\ Up(a.daemon)
  /\ \/ Recoverable(r) /\ Send(Claimed(drain)) /\ UNCHANGED stmt
     \/ /\ ~Recoverable(r) /\ IsOwner(a.daemon) /\ Claimable(a.thread) /\ armed
        /\ stmt' = [stmt EXCEPT ![r] = Snapshot(a.thread, TRUE)]
        /\ Send("claiming")
     \/ /\ ~Recoverable(r) /\ ~(IsOwner(a.daemon) /\ Claimable(a.thread) /\ armed)
        /\ Send("rereading") /\ UNCHANGED stmt
  /\ UNCHANGED <<leaseVars, sessionVars, wakeVars, run, late, op>>

\* Mutant: the fences are trusted from the statement's snapshot.
InsertableUnchecked(r) ==
  /\ lease = attempt[r].daemon
  /\ Running(attempt[r].thread) = {}
  /\ run[r].status = "absent"

\* The locked predicates and the unique index, rechecked when the row is inserted.
Insertable(r) ==
  /\ lease = attempt[r].daemon
  /\ Claimable(attempt[r].thread)
  /\ Running(attempt[r].thread) = {}
  /\ run[r].status = "absent"

InsertRun(r, s) ==
  \E n \in Orders \cup {0} :
    /\ IsGreatest(n, s.pending \cup {0})
    /\ run' = [run EXCEPT ![r] = [status |-> "running", thread |-> attempt[r].thread,
                                  owner |-> attempt[r].daemon, cutoff |-> n,
                                  abort |-> FALSE]]
    /\ ConsumeWake(s)

CommitClaim(r) ==
  /\ attempt[r].pc = "claiming"
  /\ stmt' = [stmt EXCEPT ![r] = NoSnapshot]
  /\ \/ Insertable(r) /\ InsertRun(r, stmt[r]) /\ Goto(r, Claimed(attempt[r].drain))
     \/ ~Insertable(r) /\ Goto(r, "rereading") /\ UNCHANGED <<run, armed>>
  /\ UNCHANGED <<leaseVars, sessionVars, generation, compaction, input, late, op>>

\* The client sees an error first; its backend may still commit.
LoseClaim(r) ==
  /\ attempt[r].pc = "claiming" /\ late[r] = NoSnapshot
  /\ Goto(r, "retrying")
  /\ late' = [late EXCEPT ![r] = stmt[r]]
  /\ stmt' = [stmt EXCEPT ![r] = NoSnapshot]
  /\ UNCHANGED <<leaseVars, sessionVars, wakeVars, run, op>>

CommitLateClaim(r) ==
  /\ late[r] # NoSnapshot
  /\ late' = [late EXCEPT ![r] = NoSnapshot]
  /\ \/ Insertable(r) /\ InsertRun(r, late[r])
     \/ ~Insertable(r) /\ UNCHANGED <<run, armed>>
  /\ UNCHANGED <<leaseVars, sessionVars, generation, compaction, input,
                 attempt, stmt, op>>

\* findThreadRunAdmission: only a fresh statement can see a winner that
\* committed behind the claim's snapshot.
Reread(r) ==
  /\ attempt[r].pc = "rereading" /\ Up(attempt[r].daemon)
  /\ \/ Recoverable(r) /\ Goto(r, Claimed(attempt[r].drain))
     \/ ~Recoverable(r) /\ Goto(r, "over")
     \/ Goto(r, "retrying")
  /\ UNCHANGED <<leaseVars, sessionVars, wakeVars, run, stmt, late, op>>

----------------------------------------------------------------------------
(* Ending a run.                                                           *)

EndedRun(r, status) == run' = [run EXCEPT ![r].status = status]

Forgotten(wake) ==
  IF wake = "owed" THEN "dormant" ELSE IF wake = "renewed" THEN "swallowed" ELSE wake

\* An aborted run leaves the prefix it admitted dormant.
Dormant(r) ==
  [o \in Orders |->
     IF o \in Pending(run[r].thread) /\ o <= run[r].cutoff /\ run[r].abort /\ ~armed
     THEN [input[o] EXCEPT !.wake = Forgotten(@)]
     ELSE input[o]]

\* Mutant: the last admitted input does not count as unfinished.
RearmsBelowCutoff(r, force) ==
  /\ run[r].thread = current /\ ~archived /\ ~run[r].abort
  /\ \/ force
     \/ compaction
     \/ \E o \in Pending(run[r].thread) : o < run[r].cutoff

Rearms(r, force) ==
  /\ run[r].thread = current /\ ~archived /\ ~run[r].abort
  /\ \/ force
     \/ compaction
     \/ \E o \in Pending(run[r].thread) : o <= run[r].cutoff

FailRun(r, force) ==
  /\ EndedRun(r, "failed")
  /\ IF Rearms(r, force)
     THEN Arm(input)
     ELSE input' = Dormant(r) /\ UNCHANGED <<armed, generation>>
  /\ UNCHANGED compaction

\* completeOwnedThreadRun turns a requested abort into a failure.
CompleteRun(r) ==
  /\ EndedRun(r, IF run[r].abort THEN "failed" ELSE "completed")
  /\ input' = Dormant(r)
  /\ UNCHANGED <<armed, generation, compaction>>

\* settleRun retries until the row is terminal or the claim is lost.
Settle(r, pc, ending) ==
  /\ attempt[r].pc = pc /\ Up(attempt[r].daemon)
  /\ Goto(r, "over")
  /\ \/ ActiveRun(r) /\ ending
     \/ ~ActiveRun(r) /\ UNCHANGED <<run, wakeVars>>
  /\ UNCHANGED <<leaseVars, sessionVars, stmt, late, op>>

Complete(r)            == Settle(r, "complete", CompleteRun(r))
Fail(r)                == Settle(r, "failing", FailRun(r, FALSE))
FailBeforeExecution(r) == Settle(r, "unstarted", FailRun(r, TRUE))

\* The startup pass skips runs whose row an abort statement has locked.
Orphans == {r \in Runs : run[r].status = "running" /\ ~IsOwner(run[r].owner)}

LockedByAbort(r) == \E x \in Operations : op[x].phase = "observed" /\ op[x].run = r

RecoverOrphan(d, r) ==
  /\ phase[d] = "recovering" /\ IsOwner(d)
  /\ r \in Orphans
  /\ FailRun(r, FALSE)
  /\ UNCHANGED <<leaseVars, sessionVars, attemptVars, op>>

\* Mutant: the daemon serves without waiting for the recovery loop.
FinishRecoveryEarly(d) ==
  /\ phase[d] = "recovering"
  /\ phase' = [phase EXCEPT ![d] = "serving"]
  /\ UNCHANGED <<lease, live, sessionVars, wakeVars, run, attemptVars, op>>

FinishRecovery(d) ==
  /\ phase[d] = "recovering"
  /\ IsOwner(d) => \A r \in Orphans : LockedByAbort(r)
  /\ phase' = [phase EXCEPT ![d] = "serving"]
  /\ UNCHANGED <<lease, live, sessionVars, wakeVars, run, attemptVars, op>>

----------------------------------------------------------------------------
(* Executing a claimed run: apply, prepare, step, boundary.                *)

SendGuarded(r, from, to, observed) ==
  /\ attempt[r].pc = from /\ Up(attempt[r].daemon)
  /\ \/ /\ ActiveRun(r) /\ Goto(r, to)
        /\ stmt' = [stmt EXCEPT ![r] = Snapshot(attempt[r].thread, observed)]
     \/ ~ActiveRun(r) /\ Goto(r, "over") /\ UNCHANGED stmt
  /\ UNCHANGED <<leaseVars, sessionVars, wakeVars, run, late, op>>

SendApply(r) == SendGuarded(r, "apply", "applying", armed)

CommitApply(r) ==
  LET s == stmt[r]
  IN
  /\ attempt[r].pc = "applying"
  /\ stmt' = [stmt EXCEPT ![r] = NoSnapshot]
  /\ \/ /\ LockedActiveRun(r)
        /\ \E n \in Orders \cup {0} :
             LET page == FirstPage({o \in s.pending \cap Pending(attempt[r].thread) : o <= n})
             IN  /\ ExtendedCutoff(n, r, s)
                 /\ run' = [run EXCEPT ![r].cutoff = n]
                 /\ input' = [o \in Orders |-> IF o \in page
                                 THEN [input[o] EXCEPT !.status = "applied"]
                                 ELSE input[o]]
        /\ ConsumeWake(s)
        /\ \E pc \in {"prepare", "failing"} : Goto(r, pc)
     \/ ~LockedActiveRun(r) /\ Goto(r, "over") /\ UNCHANGED <<run, input, armed>>
  /\ UNCHANGED <<leaseVars, sessionVars, generation, compaction, late, op>>

\* activeSessionCte of the compaction store.
CompactionAllowed(r) ==
  ActiveRun(r) /\ ~run[r].abort /\ Claimable(run[r].thread)

\* A pending compaction request is settled and the loop restarts.
SettleCompaction(r) ==
  /\ attempt[r].pc = "prepare" /\ Up(attempt[r].daemon) /\ compaction
  /\ \/ CompactionAllowed(r) /\ compaction' = FALSE /\ Goto(r, "apply")
     \/ ~CompactionAllowed(r) /\ Goto(r, "over") /\ UNCHANGED compaction
  /\ UNCHANGED <<leaseVars, sessionVars, armed, generation, input, run, stmt, late, op>>

\* The preflight may restart the loop; assertRunActive precedes the model call.
Prepare(r) ==
  /\ attempt[r].pc = "prepare" /\ Up(attempt[r].daemon) /\ ~compaction
  /\ \/ Goto(r, "apply")
     \/ ActiveRun(r) /\ Goto(r, "step")
     \/ ~ActiveRun(r) /\ Goto(r, "over")
  /\ UNCHANGED <<leaseVars, sessionVars, wakeVars, run, stmt, late, op>>

RequestCompaction(r) ==
  /\ attempt[r].pc = "step" /\ Up(attempt[r].daemon)
  /\ CompactionAllowed(r) /\ generation < MaxGeneration
  /\ compaction' = TRUE
  /\ Arm(input)
  /\ UNCHANGED <<leaseVars, sessionVars, run, attemptVars, op>>

\* Each message is appended under the run guard; an overflow restarts the loop.
Step(r) ==
  /\ attempt[r].pc = "step" /\ Up(attempt[r].daemon)
  /\ \/ ActiveRun(r) /\ \E pc \in {"boundary", "apply"} : Goto(r, pc)
     \/ ~ActiveRun(r) /\ Goto(r, "over")
  /\ UNCHANGED <<leaseVars, sessionVars, wakeVars, run, stmt, late, op>>

SendBoundary(r) ==
  SendGuarded(r, "boundary", "bounding",
              armed /\ current = attempt[r].thread /\ ~archived)

\* Mutant: only the wake decides; unapplied pages of the prefix are forgotten.
CommitBoundaryOnWake(r) ==
  LET s == stmt[r] IN
  /\ attempt[r].pc = "bounding" /\ LockedActiveRun(r)
  /\ stmt' = [stmt EXCEPT ![r] = NoSnapshot]
  /\ \E n \in Orders \cup {0} :
       /\ ExtendedCutoff(n, r, s)
       /\ run' = [run EXCEPT ![r].cutoff = n]
  /\ Goto(r, IF s.wake = 0 THEN "complete" ELSE "apply")
  /\ ConsumeWake(s)
  /\ UNCHANGED <<leaseVars, sessionVars, generation, compaction, input, late, op>>

\* Nothing admitted and no wake: the run ends, unless the model wants another
\* turn or the idle reroll is available.
CommitBoundary(r) ==
  LET s == stmt[r] IN
  /\ attempt[r].pc = "bounding"
  /\ stmt' = [stmt EXCEPT ![r] = NoSnapshot]
  /\ \/ /\ LockedActiveRun(r)
        /\ \E n \in Orders \cup {0} :
             /\ ExtendedCutoff(n, r, s)
             /\ run' = [run EXCEPT ![r].cutoff = n]
             /\ \/ Goto(r, "apply")
                \/ Goto(r, "failing")
                \/ /\ s.wake = 0 /\ \A o \in s.pending : o > n
                   /\ Goto(r, "complete")
        /\ ConsumeWake(s)
     \/ ~LockedActiveRun(r) /\ Goto(r, "over") /\ UNCHANGED <<run, armed>>
  /\ UNCHANGED <<leaseVars, sessionVars, generation, compaction, input, late, op>>

\* Any other error, an aborted signal included, settles the run as failed. An apply
\* or a boundary that was given up commits as long as the run has not been settled:
\* that is the commit first, and then this error.
Throw(r) ==
  /\ attempt[r].pc \in {"apply", "applying", "prepare", "step", "boundary", "bounding"}
  /\ Up(attempt[r].daemon)
  /\ Goto(r, "failing")
  /\ stmt' = [stmt EXCEPT ![r] = NoSnapshot]
  /\ UNCHANGED <<leaseVars, sessionVars, wakeVars, run, late, op>>

----------------------------------------------------------------------------
(* Aborts.                                                                 *)

Aborted(runs) == [r \in Runs |-> [run[r] EXCEPT !.abort = @ \/ r \in runs]]

\* Without an operation id: abort whatever runs on the thread now.
AbortDirect(t) ==
  /\ Running(t) # {}
  /\ run' = Aborted(Running(t))
  /\ UNCHANGED <<leaseVars, sessionVars, wakeVars, attemptVars, op>>

ObserveAbort(x, t, blocks) ==
  /\ op[x].phase = "new" /\ t \in used
  /\ \E r \in Runs \cup {Nobody} :
       /\ IF Running(t) = {} THEN r = Nobody ELSE r \in Running(t)
       /\ op' = [op EXCEPT ![x] = [phase |-> "observed", blocks |-> blocks,
                                   thread |-> t, run |-> r]]
  /\ UNCHANGED <<leaseVars, sessionVars, wakeVars, run, attemptVars>>

Receipt(x, stage, target) ==
  [phase |-> stage, blocks |-> op[x].blocks, thread |-> op[x].thread,
   run |-> IF target = {} THEN Nobody ELSE op[x].run]

\* Mutant: the fence is not followed by a fresh abort.
RecordAbortOnly(x) ==
  LET target == {op[x].run} \cap Running(op[x].thread) IN
  /\ op[x].phase = "observed"
  /\ run' = Aborted(target)
  /\ blocked' = IF op[x].blocks THEN blocked \cup {op[x].thread} ELSE blocked
  /\ op' = [op EXCEPT ![x] = Receipt(x, "done", target)]
  /\ UNCHANGED <<leaseVars, current, used, archived, wakeVars, attemptVars>>

\* The receipt names the observed run only if it is still running once locked.
RecordAbort(x) ==
  LET target == {op[x].run} \cap Running(op[x].thread) IN
  /\ op[x].phase = "observed"
  /\ run' = Aborted(target)
  /\ blocked' = IF op[x].blocks THEN blocked \cup {op[x].thread} ELSE blocked
  /\ op' = [op EXCEPT ![x] = Receipt(x, IF op[x].blocks THEN "fenced" ELSE "done", target)]
  /\ UNCHANGED <<leaseVars, current, used, archived, wakeVars, attemptVars>>

\* A blocking abort, and each replay of it, aborts the run a fresh statement
\* finds.
ReconcileAbort(x) ==
  /\ op[x].blocks /\ op[x].phase \in {"fenced", "done"}
  /\ run' = Aborted(Running(op[x].thread))
  /\ op' = [op EXCEPT ![x].phase = "done"]
  /\ UNCHANGED <<leaseVars, sessionVars, wakeVars, attemptVars>>

----------------------------------------------------------------------------
(* Replacing, archiving and restoring the session's thread.                *)

\* Reset and archive run after their own run-blocking abort returned, under
\* the owner, session and thread locks, with no run left on the thread.
ExclusiveAfterFence(d) ==
  /\ phase[d] = "serving" /\ IsOwner(d)
  /\ \E x \in Operations : /\ op[x].phase = "done" /\ op[x].blocks
                           /\ op[x].thread = current
  /\ Running(current) = {}

Discarded ==
  [o \in Orders |-> IF o \in Pending(current)
                    THEN [input[o] EXCEPT !.status = "discarded"] ELSE input[o]]

Reset(d, t) ==
  /\ ExclusiveAfterFence(d) /\ t \notin used
  /\ input' = Discarded /\ armed' = FALSE
  /\ current' = t /\ used' = used \cup {t}
  /\ UNCHANGED <<leaseVars, archived, blocked, generation, compaction, run,
                 attemptVars, op>>

Archive(d) ==
  /\ ExclusiveAfterFence(d)
  /\ input' = Discarded /\ armed' = FALSE /\ compaction' = FALSE
  /\ archived' = TRUE
  /\ UNCHANGED <<leaseVars, current, used, blocked, generation, run, attemptVars, op>>

Restore(d) ==
  /\ phase[d] = "serving" /\ IsOwner(d)
  /\ Running(current) = {} /\ archived
  /\ archived' = FALSE /\ blocked' = blocked \ {current}
  /\ UNCHANGED <<leaseVars, current, used, wakeVars, run, attemptVars, op>>

----------------------------------------------------------------------------
DaemonStep ==
  \/ Expire
  \/ \E d \in Daemons : Start(d) \/ Stop(d) \/ Exit(d) \/ Release(d) \/ FinishRecovery(d)
  \/ \E d \in Daemons, r \in Runs : RecoverOrphan(d, r)

WakeStep ==
  \/ \E o \in Orders : Enqueue(o, "wake") \/ Enqueue(o, "queue") \/ ResolveDuplicate(o)
  \/ RequestWake \/ Flush

ClaimStep ==
  \/ \E d \in Daemons, t \in Threads, r \in Runs : Admit(d, t, r)
  \/ \E r \in Runs : SendClaim(r) \/ CommitClaim(r) \/ LoseClaim(r)
                     \/ CommitLateClaim(r) \/ Reread(r)

ExecutorStep ==
  \E r \in Runs :
    \/ SendApply(r) \/ CommitApply(r) \/ SettleCompaction(r) \/ Prepare(r)
    \/ RequestCompaction(r) \/ Step(r) \/ SendBoundary(r) \/ CommitBoundary(r)
    \/ Throw(r) \/ Complete(r) \/ Fail(r) \/ FailBeforeExecution(r)

ControlStep ==
  \/ \E t \in Threads : AbortDirect(t)
  \/ \E x \in Operations, t \in Threads, b \in BOOLEAN : ObserveAbort(x, t, b)
  \/ \E x \in Operations : RecordAbort(x) \/ ReconcileAbort(x)
  \/ \E d \in Daemons, t \in Threads : Reset(d, t)
  \/ \E d \in Daemons : Archive(d) \/ Restore(d)

Next == DaemonStep \/ WakeStep \/ ClaimStep \/ ExecutorStep \/ ControlStep

Spec == Init /\ [][Next]_vars

----------------------------------------------------------------------------
(* Properties.                                                             *)

SnapshotType == [wake : Nat, pending : SUBSET Orders]

\* Every row, executor and statement in flight has its type.
TypeOK ==
  /\ lease \in Daemons \cup {Nobody} /\ live \in BOOLEAN
  /\ phase \in [Daemons -> Phases]
  /\ current \in Threads /\ used \subseteq Threads
  /\ archived \in BOOLEAN /\ blocked \subseteq Threads
  /\ armed \in BOOLEAN /\ generation \in Nat /\ compaction \in BOOLEAN
  /\ input \in [Orders -> [status : {"absent", "pending", "applied", "discarded"},
                           thread : Threads, wake : Owed]]
  /\ run \in [Runs -> [status : {"absent", "running", "completed", "failed"},
                       thread : Threads, owner : Daemons \cup {Nobody},
                       cutoff : Orders \cup {0}, abort : BOOLEAN]]
  /\ attempt \in [Runs -> [pc : Programs, daemon : Daemons \cup {Nobody},
                           thread : Threads, drain : BOOLEAN]]
  /\ stmt \in [Runs -> SnapshotType] /\ late \in [Runs -> SnapshotType]
  /\ op \in [Operations -> [phase : {"new", "observed", "fenced", "done"},
                            blocks : BOOLEAN, thread : Threads,
                            run : Runs \cup {Nobody}]]

\* No run is left executing on a thread a reset replaced or on an archived
\* session, and no thread has two: claims hold against every concurrent
\* reset, archive and competing claim.
RunningOnlyWhereAllowed ==
  \A r \in Runs : run[r].status = "running" =>
    /\ run[r].thread = current /\ ~archived
    /\ Running(current) = {r}

\* A wake is never lost: while an input it covered is pending, the latch is
\* armed for the next claim or a running run has admitted the input.
NoLostWake ==
  \A o \in Pending(current) : input[o].wake \in {"owed", "renewed"} =>
    \/ armed
    \/ \E r \in Running(current) : o <= run[r].cutoff

\* A completed run left nothing behind in the prefix it had admitted.
CompletedRunDrained ==
  \A r \in Runs : run[r].status = "completed" =>
    \A o \in Pending(run[r].thread) : o > run[r].cutoff

\* Pages of the inbox are applied in input order: nothing applied overtakes a
\* pending input of the same thread.
AppliedInOrder ==
  \A o, q \in Orders :
    /\ o < q /\ input[o].thread = input[q].thread
    /\ input[q].status = "applied"
    => input[o].status # "pending"

\* Once the run-blocking aborts of a thread have returned, whatever still runs
\* behind their fence has been told to abort: no claim slipped past it.
FencedRunsAborted ==
  \A t \in blocked :
    (\A x \in Operations : op[x].thread = t => op[x].phase # "fenced")
    => \A r \in Running(t) : run[r].abort

\* When a daemon serves under a live lease, every run still running is its
\* own; only a run an abort had locked can have escaped the startup pass.
OrphansRecovered ==
  \A d \in Daemons : phase[d] \in {"serving", "stopping"} /\ IsOwner(d) =>
    \A r \in Runs : run[r].status = "running" /\ run[r].owner # d =>
      run[r].abort \/ LockedByAbort(r)

\* Inputs are applied, and a run's cutoff and outcome written, only for the
\* holder of the lease row, or by the orphan pass of the holder: an expired
\* daemon's late statement changes nothing once another daemon took over.
StaleOwnerWritesNothing ==
  [][\A r \in Runs :
       run[r].status = "running" /\ lease \notin {run[r].owner, Nobody} =>
         /\ run'[r].cutoff = run[r].cutoff
         /\ run'[r].status \in {"running", "failed"}
         /\ \A o \in Pending(run[r].thread) : input'[o].status # "applied"]_vars

\* A genuinely new wake that covers an input after the abort was requested
\* outlives that abort.
WakeAfterAbortSurvives ==
  \A o \in Pending(current) : input[o].wake = "swallowed" => armed

\* A committed claim whose response was lost is recovered by the lane that
\* kept its id: a live daemon's running run always has an executor.
CommittedClaimHasExecutor ==
  \A r \in Runs : ActiveRun(r) /\ phase[run[r].owner] = "serving" =>
    attempt[r].pc \notin {"idle", "over"}
=============================================================================
