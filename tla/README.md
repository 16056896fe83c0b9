# Panda's durable runtime in TLA+

Panda is a daemon that runs agent sessions. A session has one current thread;
inputs for the thread are rows of a durable inbox, a *run* is one execution of
the thread by one daemon, and PostgreSQL holds everything that has to survive a
crash. This directory holds TLA+ models of that runtime, the TLC runs that check
them on small instances, and TLAPS proofs that hold for every instance. Source
paths are relative to the repository.

## Inventory

| Component | State | Operations | What is hard about it |
|---|---|---|---|
| Run claims and wake latch (`domain/threads/runtime/postgres-run-claims.ts`, `postgres-inputs.ts`, `postgres.ts`) | `runs`, `inputs`, `session_runtime_config.pending_wake_at/_generation`, `threads.run_claims_blocked_at`, abort receipts | enqueue, wake, flush, claim, replay, apply, boundary, complete, fail, orphan recovery, abort | READ COMMITTED statements that read a snapshot and write later; lost responses; two daemons around a lease expiry |
| Run executor (`coordinator.ts`) | program counter, run id, abort signal | `runUntilIdle`, `settleRun`, `reconcileAdmissionDuringShutdown`, orphan recovery, notification handling | every database call may fail after it committed; shutdown between any two |
| Thread scheduler (`scheduler.ts`) | queues, active lanes, reserved exclusive work, delayed admissions | schedule, drain, settle, `runExclusively`, stop | a hint that arrives between two states of a lane; exclusive work against a backing-off admission |
| Connector leases (`domain/connector-leases/repo.ts`) | one row per connector; per holder a monotonic deadline and a timer | acquire, renew, release, mark lost | delayed statements and answers, two clocks |
| Session lifecycle (`domain/sessions/lifecycle.ts`, `archive.ts`) | current thread, archive marks and receipts | reset, archive, restore | races with claims and executors of the thread it retires |
| Session compaction (`domain/sessions/compaction-postgres.ts`) | request row | request, commit, clear | settles a request of a run that may have been aborted |
| Daemon lifecycle (`app/runtime/daemon-lifecycle.ts`) | lease holder id, service states | start, recover, serve, stop | crash and restart between any two steps |
| Runtime requests (`domain/threads/requests/repo.ts`, `app/runtime/request-drain.ts`) | request rows with status, token, ordering key | enqueue, claim, renew, complete, fail, defer, release, prune | FIFO per key with a worker that may be gone |
| Outbound deliveries and channel actions (`domain/channels`) | delivery rows, worker claims | enqueue, claim, send, complete, mark unknown | a crash between the send and its record |
| Scheduled work and watches (`domain/scheduling`, `domain/watches`) | due times, claims, run records | claim, renew, complete, reschedule | two runners and one due time |
| Background tool jobs, live voice (`tool-job-service.ts`, `domain/live-voice`) | job and session rows | start, finish, cancel, recover | completion racing cancellation and daemon loss |
| Kernel, providers, integrations, UI, CLI, migrations | outside the models | | opaque turns and I/O |

The components meet in the database. A producer commits an input and arms the
session's wake latch in one transaction, then sends a `NOTIFY` hint; the
scheduler of the daemon that holds the `daemon` connector lease draws a run id
and its executor claims a run, which consumes the latch and fixes the prefix of
the inbox the run may apply. Control operations (abort, reset, archive) write
receipts and fences in the same tables. The lease row appears in the guard of
every statement that writes for a run, so losing the lease fences an executor
without a message to it.

## Modules

| Module | Models | State and actions |
|---|---|---|
| `RunClaims` | the run protocol of one session, with the executors and daemon incarnations that drive it | one variable per column or row set; one action per statement, two for the statements that read a snapshot before they lock (`SendClaim`/`CommitClaim`, `SendApply`/`CommitApply`, `SendBoundary`/`CommitBoundary`, `ObserveAbort`/`RecordAbort`/`ReconcileAbort`) |
| `MCRunClaims` | symmetry for TLC | |
| `RunClaimsProofs` | the type invariant of `RunClaims` | one step per action |
| `RunClaimsSafety` | theorems on who may run: fences, current thread, startup pass | effect lemmas (`RunEffect`, `SessionEffect`, `FenceEffect`, `LeaseEffect`) that say what any step may do to one group of variables |
| `RunClaimsInbox` | theorems on what runs do to the inbox: order, completion, stale owners, wakes | the invariant `InboxInv` |
| `ConnectorLease` | one lease row and the managed leases of any number of holders, in discrete time | a statement is sent, begins (`NOW()` is fixed), commits and is answered in separate actions; `Granted`, `Refused`, `Lost`, `AcquireError` and `RenewError` are the continuations of `acquireManagedConnectorLease`; a renewal its holder gave up goes to `late`, where `BeginLate` and `CommitLate` execute it any time later |
| `MCConnectorLease` | symmetry for TLC | |
| `ConnectorLeaseProofs` | the lease's inductive invariant and theorems | |
| `ThreadScheduler` | one `ThreadRunScheduler` with the callbacks the coordinator gives it | one variable per collection; one action per synchronous stretch of the code: `Schedule`, `RunExclusively`, `Start`, `Stop`, a turn of `Drain`, `Finish` (the end of an execution up to its first await), `Read`/`Reconcile`, `Replay`, `Settle`, `Release` (the retry timer), `DrainAdmission`, `Close` |
| `MCThreadScheduler` | symmetry for TLC | |
| `ThreadSchedulerProofs` | the scheduler's inductive invariant and theorems | one lemma per action, under the frame that an action touches one thread |
| `OrderedDelivery` | abstract: what the request queue promises | `Submit`, `Accept`, `Begin`, `Settle` of a request; no table, lease or daemon |
| `RequestQueue` | `runtime_requests` and the drains that empty it | one variable per table or collection; one action per statement, two for the claim (`BeginClaim`/`CommitClaim`) and three for a renewal (`RenewSend`/`RenewApply`/`RenewAnswer`), with the ownership timer, settlement, stop, crash and time; `LateRenewal` executes a renewal whose handler gave up on it |
| `MCRequestQueue` | ordering keys for TLC | |
| `RequestQueueProofs` | the queue's inductive invariant and theorems, and the proof that it implements `OrderedDelivery` | lemmas per kind of statement (`HandlerStep`, `FencedWrite`, `UnclaimedRowWrite`), then one per action |
| `ChannelOutbox` | the delivery queue or the action queue of one connector, its successive workers, `settleChannelReceipt` | one action per statement of the claim and of the receipt; `LoseWrite`, `LoseMark` put the statement into `late`, whence `RunLate` executes it any time later |
| `ChannelOutboxProofs` | the outbox's inductive invariant and theorems | |
| `ScheduledTasks` | definitions, occurrences, their runners and inputs, the lifecycle of their session | one action per statement of `tasks/postgres.ts` and of `processClaim`; `stray` holds submissions and links that outlived their claim |
| `ScheduledTasksProofs` | the tasks' inductive invariant and theorems | |

### How RunClaims reads the code

* `attempt[r].pc` is where `runUntilIdle` stands for the run id `r`:
  `admitting`, `retrying` (an admission whose outcome is unknown), `claiming`
  (the statement is at the server), `rereading` (`findThreadRunAdmission`),
  `unstarted` (recovered by the shutdown drain), `apply`, `applying`, `prepare`,
  `step` (the provider call), `boundary`, `bounding`, `complete`, `failing`,
  `over`.
* `stmt[r]` is the snapshot of the statement in flight: the wake generation it
  observed (0 for none) and the pending inputs it saw. `late[r]` is the snapshot
  of a claim whose client has already seen an error; it may commit at any later
  time, after the process has gone as well.
* A data-modifying statement rechecks the rows it locks (`Insertable`,
  `LockedActiveRun`), and only those; the lease row is locked `FOR SHARE` but an
  unchanged row is not re-evaluated against the clock, hence `lease` without
  `live` in the rechecks.
* `input[o].wake` is bookkeeping the database does not have: what the input is
  owed by the wakes that covered it. It is `owed` or `renewed` once a wake has
  covered the pending input, and turns `dormant` or `swallowed` when an aborted
  run ends that had admitted it. No guard reads it.

Choices, all on the side of more behaviours unless stated:

* One session. Sessions share nothing but the daemon lease.
* `Expire` is final for the holder: a renewal that had started before the expiry
  and is still waiting is not modelled here (`ConnectorLease` models statements
  in flight). This leaves behaviours out and is listed under the hazards.
  It may come at any time, the executor knowing or not, which covers a lease that an
  abandoned renewal has cut short.
* A run-blocking abort and every replay of it reconcile unconditionally, whether
  or not the thread is still fenced. One abandoned claim per run id is in flight
  at a time.
* A step of the model (`Step`) is opaque: it ends at a boundary, restarts the
  loop after an overflow, or throws. Transcript rows are left out.

* An apply or a boundary whose client saw an error may still commit, as long as its
  run is running, which is until the executor has settled it. The rows are then
  those of `CommitApply` or `CommitBoundary` to `failing`, so `Throw` keeps no such
  statement in flight. A claim has no settlement behind it and is kept (`late`).

### How ConnectorLease reads the code

* The error of a renewal says nothing about its statement: the connection broke,
  and the server may not have begun it, may have begun it and wait, or may have
  committed it. `RenewError` is possible at each of these points, and the holder
  sends the next renewal while the first is in `late`. Any number may be there.
* A renewal compares `leased_until` with its own `NOW()` only, so a late one of the
  holder that owns the row always finds it. `cut` records that it has moved the row
  back. It is history, as is `taken`, the time of the last takeover: no guard reads
  them. `cut` is cleared when the holder's next statement commits in order.
* A failed acquisition is not retried under its holder id, so its statement may
  stay in `query`.

### How ThreadScheduler reads the code

* JavaScript runs one callback at a time, so what happens between two awaits is
  one action. The drain loop runs within one microtask; the model takes one turn
  of it per action and lets anything happen between turns, which adds behaviours.
* A member of `Works` is a `ScheduledWork` object, and for a run also its run id,
  which is drawn with the object. It may stand for a new object once the program
  refers to the old one nowhere (`Forgotten`). Unused members, and idle members
  of `Tasks`, are interchangeable, so `NewWork` and `Drain` take any one of them:
  the choice is invisible and the symmetry of the runs stays sound.
* `task[k]` is one promise of `execute()`: `running`, then what it awaits
  (`reconcile`, `runnable`, `replay`, `capacity`). `runnable` is the time between
  the database's answer to the settlement read and its arrival. A failed read is
  retried by the coordinator and is the time before `Read`. The reads of
  `onAttemptSettled` and `onExclusiveSettled` differ in their query only.
* `settling` is the set of works in `settlingByThreadId`: as in the code, two
  attempts of one work share one entry.
* The retry queue is a set: any delayed work may be due next (`Release`), since
  delays are random and failures counted per work. `timer` says that it is armed.
* `lost` stands for `claim_lost` and `stopped`, after which the scheduler and the
  coordinator both leave the hint to the durable latch.
* Bookkeeping that no guard reads: `unresolved` (claims that may have committed
  and have not been answered), `owed` (threads with a hint since the last attempt
  or read began), `gaveUp` (the shutdown deadline has passed). `exclusives` counts
  exclusive operations towards `MaxExclusive`.
* Left out: `lastErrors`, snapshot ages, logging (`onAdmissionRetry` only logs),
  the length of delays, and the abort signal, which changes no scheduler state: an
  aborted execution is one that ends.

### How RequestQueue reads the code

* A token is the attempt number its claim wrote: `execution_attempts` is
  incremented by every claim, so the number is as fresh as the code's UUID.
* Time is relative. `row[r].left` is what is left of the lease, `deadline` what is
  left of a handler's own clock, `age` how long a statement has been under way. A
  claim's `NOW()` is its beginning, a renewal's is any moment since its sending
  (`RenewApply` chooses its age), and the handler counts from the sending in both
  cases (`OwnershipDeadline`).
* Nothing records when a lease ran out that has run out. A renewal whose `NOW()` is
  in the past may have met it alive (`MayBeUnexpired`), which adds behaviours.
* A renewal whose handler caught an error, or whose daemon is gone, stays in `late`
  under its request and token and may commit behind newer ones (`LateRenewal`).
  `cut` records which claims were shortened that way and no guard reads it.
  A claim or a settlement that was given up is the same as one of another daemon or
  slot that is slow, since both are fenced by nothing but the row and its token.
* `BeginClaim` evaluates the candidate query and takes the row lock; `CommitClaim`
  updates without looking again, as the statement does, and the unique index is
  all that can refuse it. Statements on a locked row wait for it.
* `BeginEnqueue` fixes `created_at`; the row becomes visible at `CommitEnqueue`. A
  plain insert does both at once; a live voice delegation waits for the session's
  lock in between, and any producer's commit may be slow.
* Handlers are opaque and return after their signal. `MaxFaults` bounds crashes,
  stops, errors, deferrals and leases that run out under their handler; daemons
  that do none of it are not bounded.
* A drain is woken by its poll timer, so notifications are not modelled.

### How ChannelOutbox reads the code

* `Row` is a set of positions by `(created_at, id)`. Deliveries and actions run
  one protocol; `Expiring` is empty for deliveries.
* `locker` is the row lock of the session, which enqueueing, claiming and
  archiving take first. A claim is `Pick` (read without lock), `LockSession` and
  `CommitClaim`.
* A process may hold the lease no longer and still send: `LoseLease` takes the
  lease only, and the process learns of it by `Stop`. Statements of the former
  worker are fenced by nothing but the row's token and status.
* `sends` and `answer` are what the transport did and what the adapter said; no
  guard reads them. An adapter may throw after the message went out.
* Rows belong to one session.

### How ScheduledTasks reads the code

* Time is the number of fire times that have passed, and a cron schedule fires at
  each. What matters is which fire time comes next and which have passed.
* A lease is renewed silently while its holder lives; `LapseClaim` is its end,
  `LoseClaim` the holder's discovery. A claim without a holder lapses freely, one
  with a holder counts as a fault.
* The claim statement locks the session and is one action. The list of due tasks
  is read in one action and used in another (`ListDue`, `Materialize`), and the next
  fire time the second writes is computed from the schedule the first has read.
* A runner has one slot; its drain and `processClaim` share it. Two runners stand
  for two slots of one daemon as well.
* The input's course is that of any input of the thread and the subject of
  `RunClaims`: pending, applied by a run, and the run completed or failed; behind
  a fence it is not applied.
* `lost` and `refused` are history: no guard reads them.

## Properties

* `NoLostWake`: while an input a wake covered is pending, the latch is armed or a
  running run has admitted the input. Generation compare-and-clear, the cutoff
  and the failure re-arm all have to be right for it.
* `CompletedRunDrained`, `AppliedInOrder`: a completed run left nothing in its
  prefix; pages never overtake.
* `RunningOnlyWhereAllowed`: no run survives on a replaced thread or an archived
  session, and none has company.
* `FencedRunsAborted`: once a run-blocking abort has returned, whatever still
  runs behind its fence has been told to abort.
* `OrphansRecovered`: a serving daemon sees no running run of another owner
  except one an abort had locked when the startup pass skipped it.
* `StaleOwnerWritesNothing` (action property): after a takeover, a statement of
  the former owner applies no input, moves no cutoff and completes no run.
* `DeadlineHoldsUnlessCut`: a holder that trusts its local deadline owns the row for
  at least as long, whatever delays and errors statements meet, with one exception:
  an abandoned renewal of the holder has committed behind a newer one (see Findings).
  `OverlapIsBounded`: only then do two holders trust the lease at once, and the one
  that was cut stops within one time to live of the takeover.

* `OneExecutionPerThread`: lanes are counted, not tasks, and still no thread runs
  twice at a time and no more than `maxConcurrentRuns` execute.
* `EveryWaitHasAWaker`: in the running scheduler the queue has a pending drain
  whenever there is capacity, the retry queue has its timer, and a reserved
  operation, a retained run and a coalesced hint have work in their lane whose end
  will look at them.
* `AmbiguousClaimIsKept`: the run id of a claim that may have committed is held
  somewhere until it has been answered, and no other run of its thread exists
  meanwhile, through backoff, exclusive work and shutdown.
* `HintsAreCovered` (and `HintsAreActedUpon` under fairness): a hint that nothing
  has acted upon is represented by a waiting run, a remembered hint, a retained
  run or a settlement read that is still to come.
* `NoForgottenPromise`, `ExclusivesAreAnswered`: whoever awaits a work's promise
  awaits something the scheduler holds; exclusive operations are answered.
* `QueueByPriority`, `BacklogIsAdmitted`: the queue's order, on which insertion and
  the burst rule rest, and freedom from starvation.

* `OwnershipHoldsUnlessCut`, `StreamHasOneOwnerUnlessCut`: a request's handler that
  may still act owns the row for at least as long as its own clock says, and no two
  act for one stream, even when an insert was overtaken, with the same exception.
* `StaleHandlerChangesNothing`: late completions, failures, deferrals and releases
  find nothing.
* `DeliversInOrder`: `RequestQueue` implements `OrderedDelivery`: a request begins
  only after every request its producer could see ahead of it is settled, and is
  settled once, after it began. The mapping reads the table only.
* `FreeStreamIsClaimable`, `EveryRequestSettles`: abandoned claims are replayed.
  Both exclude streams in which an insert was overtaken, see Findings.
* `TransmittedAtMostOnce`, `ReceiptIsTrue`, `SettledIsFinal`: a message goes out at
  most once, and its receipt is what the adapter said, for ever.
* `ArchivedSessionIsQuiet`, `PendingIsResolved`: nothing pending behind an archive;
  no head of the queue blocks it.
* `FiresOnSchedule`: an occurrence is created from the definition as it is, not as
  it was listed, and no fire time is skipped.
* `OnlyHolderSettles`, `EndsTruthfully`, `EveryOccurrenceSettles`: an occurrence is
  settled by its last holder, with what became of its input, and always.

## Runs

| Run | Instance | Shows |
|---|---|---|
| `connector_lease` | 2 holders, TTL 3, renewal 1, clock to 4 | exclusion and the deadline's lower bound with every delay of statements and answers; the time to live leaves room for two renewals under one lease, and the clock for a lease that is cut short, a takeover, an overlap of two trusted leases, and a deadline at the bound of `OverlapIsBounded` |
| `run_claims_wakes` | 1 daemon, 1 thread, 2 inputs in pages of 1, 2 runs, 3 wakes | no wake lost, drained prefixes, order; two runs and three generations are the least in which a newer wake can meet an older snapshot twice |
| `run_claims_takeover` | 2 daemons, 2 threads, 1 input, 2 runs, 1 wake, 1 abort operation | stale owners, orphan recovery and its skipped locks, and fences, reset, archive and restore against claims and executors of either daemon |
| `thread_scheduler_lanes` | 2 threads, 4 works, 2 tasks, 2 executions, burst 1, 1 exclusive operation | the scheduler's safety properties; a lane can hold an active or delayed run, a reserved operation and a successor while the other lane competes for the queue |
| `thread_scheduler_progress` | 2 threads, 4 works, 1 task, 1 execution, burst 1, 1 exclusive operation, fair | exclusive operations are answered, hints acted upon, and a backlog lane is admitted beside interactive hints without end |
| `request_queue` | 2 daemons with 1 slot, 2 requests of one stream, one of them malformed, TTL 2, 1 fault, fair | the request queue; two drains, two rows and one abandoned claim or renewal are the least in which a token, an order, an overtaken insert and a shortened lease matter |
| `channel_outbox` | 2 processes, 2 rows of which 1 expires, 2 receipt attempts, 3 faults, fair | deliveries and actions; with two attempts the retry, the last attempt and what follows both loops occur, and three faults let a receipt be lost, its worker be replaced and the successor lose one too |
| `scheduled_tasks` | 2 runners, 1 definition, 2 fire times, 1 reset or archive, 1 fault, fair | scheduled tasks; two fire times let an occurrence run late while the next is due |
| `scheduled_tasks_archive` | the same | violated, see Findings |
| `thread_scheduler_settling` | 1 thread, 1 work, 2 tasks | violated, see Findings |
| `run_claims_aborted_wake` | 1 daemon, 1 input, 1 run, 2 wakes | violated, see Findings |
| `run_claims_stranded` | 1 daemon, 1 input, 1 run, 1 wake, 1 abort | violated, see Findings |

Bounds: the constants above. `MaxGeneration`, `MaxTime` and `MaxExclusive` stand
in guards: a wake, a tick or an exclusive operation beyond the bound does not
happen. Run ids, daemon incarnations and operations of `RunClaims` are used once
each. `Works` and `Tasks` bound how many objects and promises are alive at one
time, and are used again: hints, attempts, failures and retries are unbounded.
New work waits when all are in use. `MaxFaults` and `MaxRequests` stand in guards:
a fault or a lifecycle request beyond the bound does not happen, while restarts,
lapses of abandoned leases and retries are unbounded. Attempts and claims are
bounded by the faults.

`RECEIPT_ATTEMPTS` is 3 in the code; the run takes 2. A lost answer of a receipt read
spends no fault: the attempts bound those.

The runs of `ConnectorLease` and `RunClaims` do not check for deadlock (with their
ids used up the system may stop), nor do those of `ThreadScheduler` (shutdown) and
of `ChannelOutbox` and `ScheduledTasks` (their rows run out). `request_queue` does.

Fairness is assumed by four runs only, in `Fairness` of their modules.

* `thread_scheduler_progress`: the event loop drains the queue, timers fire, an
  execution ends, the database eventually answers a settlement read or the
  deadline passes, and callbacks return.
* `request_queue`: the poll timer starts a drain (`drain-loop.ts:45-52`),
  statements are executed and answered, due timers fire, handlers return, time
  passes, and a daemon that is down or stopping is started again. Renewals are
  not assumed to be sent.
* `channel_outbox`: the same of the channel's process, a lease whose process is
  down runs out, a process that lost its lease stops, and an insert that holds
  the session's lock commits.
* `scheduled_tasks`: the same of the runners, inputs are applied when nothing
  fences them and their runs end, resets and archives proceed once nothing runs.
  The claim is strongly fair: every turn of the drain claims before it lists due
  tasks (`runner.ts:129-147`), so a runner with a free slot that comes round again
  and again claims again and again.

Nothing requires that a hint, an exclusive operation, a request, a `start` or a
`stop` ever comes, or that a fire time passes. All other properties are safety
properties. `Runs`, `Daemons` and `Holders` are symmetric, and so are `Threads`,
`Works` and `Tasks` in the safety run of the scheduler.

Each property has a mutant of a mapped definition (marked `Mutant:` in the
modules) that breaks it; they are not part of the specification.

## Findings

1. *A wake after an abort request is swallowed* (`postgres-run-claims.ts:635`,
   run `run_claims_aborted_wake`). `applyPendingThreadInputs` and
   `takeOwnedThreadRunBoundary` do not read `abort_requested_at`. A run that was
   asked to abort but has not settled consumes a wake that arrived after the
   request and moves its cutoff over the inputs; it then ends as aborted and
   re-arms nothing. `docs/developers/daemon.md:106-109` promises that a genuinely
   new wake ends the dormancy.
2. *A committed claim is stranded* (`postgres-run-claims.ts:134`, run
   `run_claims_stranded`). The replay of a claim that committed before its
   response was lost returns nothing once a run-blocking abort has fenced the
   thread, the lane drops its id, and the run stays `running` under the live
   owner; the reset or archive that fenced the thread then fails its exclusivity
   check until the daemon restarts. `docs/developers/daemon.md:81-86` and the
   comment in the statement say such a claim is recovered.

3. *A settling lane is reported idle* (`scheduler.ts:610`, run
   `thread_scheduler_settling`). A work whose admission failed is retried as the
   same object, possibly while the first attempt still awaits
   `onCapacityAvailable`. If the retry ends in that time both attempts settle under
   one entry of `settlingByThreadId`, and the first to end removes it:
   `isBusy` and `waitForIdle` then report the lane idle although the second
   attempt's settlement read has not answered. `docs/developers/daemon.md:73-74`
   says that the lane is not reported idle while a coalesced wake is still
   uncertain.

4. *Archiving with an occurrence in progress is refused* (`archive.ts:137`, run
   `scheduled_tasks_archive`). The archive cancels claimed and running occurrences
   and clears `claimed_at`, `claimed_by` and `claim_expires_at`, but not
   `claim_token`, which `scheduled_task_runs_lifecycle_check`
   (`tasks/postgres-schema.ts:542-546`) demands to be NULL. The transaction is
   rolled back after the thread has been fenced (`session-archive-service.ts:36`).
   An occurrence whose input is still pending cannot run behind the fence, so the
   retry is refused as well, until a reset discards the input.
   `docs/developers/sessions.md:140` says that archiving cancels pending, claimed
   or running occurrences. `EveryOccurrenceSettles` therefore allows a state in
   which an archive was refused.

Not runs of their own, but exceptions in the properties of `connector_lease` and
`request_queue`:

*An abandoned renewal shortens a lease* (`connector-leases/repo.ts:261`). After a
client error the holder renews again while the first UPDATE may still run at the
server. If it commits behind the second, with the older `NOW()`, `leased_until`
moves back below the local deadline that the second answer has set, the row expires,
and another holder takes it while the first still trusts it. The comment at
`repo.ts:206-208` calls the deadline a safe lower bound for the expiry "even when
clocks differ or the response is delayed in transit". Without the exception `cut`,
TLC refutes `DeadlineHoldsUnlessCut` in 15 states: acquired at 0, a renewal begun at
1 is abandoned, the next is granted at 2 until 5, the first commits and the row ends
at 4. A renewal that keeps the later of the two times would restore the bound.

*The same of a request's claim* (`request-drain.ts:235`). The handler swallows the
error, renews again, and the first UPDATE (`requests/repo.ts:992-1001`) may commit
last. `docs/developers/daemon.md:175-177` says that "a failed renewal can therefore
never let side effects continue past known ownership". Without the exception, TLC
refutes `OwnershipHoldsUnlessCut` in 13 states. Tokens still fence the row:
`StaleHandlerChangesNothing` and `DeliversInOrder` hold without exception; what
overlaps is the work of two handlers.

*An overtaken insert can wedge its stream*
(`requests/repo.ts:760-766`). A request whose transaction began earlier may commit
after a later one of its stream has been claimed. If that claim is abandoned, the
expired row waits for its pending predecessor, and the predecessor for the running
row, whose expiry that predicate does not look at; nothing can be claimed until
someone changes the rows. `docs/developers/daemon.md:178-179` says that an
abandoned claim "becomes replayable after lease expiry". Without the exception
`Overtaken`, TLC refutes `FreeStreamIsClaimable` and `EveryRequestSettles`; order
and exclusion survive.

## Proofs

Each group of theorems rests on an inductive invariant: the initial states have
it, every action keeps it (one lemma per action or kind of action), and the
theorems follow from it. The queues, the lease and the scheduler call it `IInv`;
`RunClaims` has one per module, of which `InboxInv` is the largest.

### ConnectorLease

`ConnectorLeaseProofs` proves, for every set of holders, time to live and renewal
interval, and for an unbounded clock:

* `TypeCorrect`: `Spec => []TypeOK`;
* `DeadlineSafe`: `Spec => []DeadlineHoldsUnlessCut`;
* `OverlapBounded`: `Spec => []OverlapIsBounded`.

Neither property is inductive. A grant that is about to be answered has to be known to back the
deadline it will set, so `DeadlineBacked` speaks about what a holder has been told
or will be (`ToldSoon`), and `StampInOrder` says that `NOW()` lies between the
sending and the present, which makes a deadline counted from the sending safe. Both
say nothing of a holder in `cut`: an abandoned renewal has moved its row back, and
its next commit takes it out. `AskedBeforeTaken` holds for those as well: whoever
has lost the row asked for it before it was taken, so its deadline is at most
`taken + TTL`. The assumptions are those of `ConnectorLeaseAssumption`. The step
lemmas follow the statements: a commit takes the row from another holder only if
it has expired at the commit's timestamp, and a late commit only ever moves the row
of the holder that owns it.

### RunClaims

The proofs about `RunClaims` hold for every set of run ids, daemons, threads,
inputs and operations, infinite ones included, and for every page size and
generation bound that `RunClaimsAssumption` admits:

* `RunClaimsProofs!TypeCorrect`: `Spec => []TypeOK`.
* `RunClaimsSafety!OneRunOnTheCurrentThread`: `Spec => []RunningOnlyWhereAllowed`.
  The argument is `RunEffect`: a step starts at most one run, and only under the
  fences and the emptiness the commit rechecks; every action that moves the
  current thread or marks an archive requires that nothing runs.
* `FenceAbortsWhatRuns`: `Spec => []FencedRunsAborted`, and
  `TakeoverLeavesNoOrphan`: `Spec => []OrphansRecovered`. The second needs
  `ObservedRuns`: the run an abort has locked and not yet recorded exists and is a
  run of the thread the abort is for.
* `RunClaimsInbox!CompletionDrains`: `Spec => []CompletedRunDrained`;
  `PagesInOrder`: `Spec => []AppliedInOrder`; `WakesAreKept`: `Spec =>
  []NoLostWake`; and `StaleOwnerIsFenced`, the action property
  `StaleOwnerWritesNothing`.

None of the inbox properties is inductive. A claim or a boundary commits a cutoff
computed from a snapshot taken earlier, so an invariant over the rows alone cannot
say that the cutoff covers what the latch it clears was about. `InboxInv`
therefore also speaks about statements in flight (`SnapshotsSound`): a snapshot
holds inputs that exist, its generation is not ahead of the row's, an input that
is owed a wake is in the snapshot if the generation has not moved since, and a
pending input it did not see is later than all it did. The last two are what
compare-and-clear of the generation and the ordering of input ids give, and
together they carry `NoLostWake` over the commit. `RowsMatchAttempts` ties an
executor's program counter to the row of its run, `CutoffPresent` says a run's
cutoff is unset or an input that exists, and `PrefixDrained` says an executor
about to complete has nothing left in its prefix, and one whose boundary is in
flight has nothing the boundary did not see.

### RequestQueue

For every set of requests, every assignment of ordering keys, every finite set of
daemons and slots, and every time to live and fault budget:

* `TypeCorrect`, `Ownership` (`[]OwnershipHoldsUnlessCut`), `OneOwnerPerStream`
  (`[]StreamHasOneOwnerUnlessCut`), `NoWedgedStream` (`[]FreeStreamIsClaimable`);
* `StaleHandlersAreFenced`, the action property `StaleHandlerChangesNothing`;
* `OrderedDeliveryImplemented`: `Spec => DeliversInOrder`.

`IInv` says what a statement in flight may still grant. A claim that has locked
its candidate keeps it claimable; a claim that has committed, and a renewal that
has been applied, are backed by the row's token, and as long as they are younger
than the lease, the row's lease outlasts what the handler would count from the
sending (`ClaimSafe`, `HandlerSafe`). Without this part, the deadline a handler
sets when its answer arrives could be later than the lease. `HandlerSafe` exempts a
claim in `cut`, and says that a deadline never exceeds what the renewal under way
would give, so that a renewal which commits in order takes its claim out of `cut`.
`LateSafe` says that an abandoned renewal has a token no claim in flight has, so a
new claim is never shortened by a renewal of an older one. `TokensUnique` says
that no two holders have one attempt of one request; it is why a stale write
matches no row. `OneOwnerPerStream` then follows from the unique index
(`RowsSafe`), and `NoWedgedStream` by taking either the stream's running row or
its earliest open request in the order (`OrderSafe`). Daemons and slots are
assumed finite because `Tick` charges the fault budget with the number of leases
that run out under their handlers (`RunOut`), and that has to be a number.

The refinement is proved from `IInv` with one lemma per abstract action
(`SubmitStep`, `AcceptStep`, `BeginStep`, `TokenWriteStep`); `DeliveryStep` shows
that every other step leaves the abstract state alone. `DeliversInOrder` is a
safety specification; that every request is settled in the end is
`EveryRequestSettles`, which a run checks.

### ChannelOutbox

For every set of rows and processes, number of receipt attempts and fault budget:
`TypeCorrect`, `AtMostOnce` (`[]TransmittedAtMostOnce`), `TruthfulReceipts`
(`[]ReceiptIsTrue`), `QuietArchive` (`[]ArchivedSessionIsQuiet`) and `Finality`,
the action property `SettledIsFinal`.

`IInv` rests on `RowSafe`: a row is claimed once in its life, a pending row never
was, and a row without a token was never sent. `WorkerSafe` ties a worker's phase
to what has been transmitted and answered for its row (between the claim and the
send nothing has), `OneClaimant` says that no two processes work on one row, and
`LateSafe` says of every abandoned statement that the outcome it would write is
one the adapter gave. The last one carries `TruthfulReceipts` and `Finality` over
a receipt that was reported as failed and is executed later. Besides the ranges of
the constants, the assumptions say that row positions and process names are
different values, since `locker` may hold either.

### ScheduledTasks

For every set of tasks and runners, number of fire times, lifecycle requests and
faults: `TypeCorrect`, `TruthfulEnds` (`[]EndsTruthfully`), and the action
properties `HolderSettles` (`OnlyHolderSettles`) and `OnSchedule`
(`FiresOnSchedule`).

`EndsTruthfully` is not inductive: a fallback may fail an occurrence, so one has
to know that a fallback which still holds the claim has an input or a submission
that was never answered (`WorkSafe`), and the tokens of runners and of stray
statements have to be among the claims the row has had (`WorkSafe`, `StraySafe`).
The two action properties go by effect: `OnlySettlementsEnd` and
`OnlyMaterializeFires` name the only actions that can write `succeeded` or
`failed`, and create an occurrence; `NextFireTime` is the fact about the schedule
operator that `FiresOnSchedule` needs. `None` is assumed to be neither a runner
nor a result.

### ThreadScheduler

For every set of threads, works and tasks, infinite ones included, and every limit
that `ThreadSchedulerAssumption` admits, all seven safety properties of the runs:
`TypeCorrect`, `ThreadsExecuteOnce` (`[]OneExecutionPerThread`), `PriorityOrder`
(`[]QueueByPriority`), `WaitsHaveWakers` (`[]EveryWaitHasAWaker`),
`PromisesAreKept` (`[]NoForgottenPromise`), `ClaimsKeepTheirIds`
(`[]AmbiguousClaimIsKept`) and `HintsAreKept` (`[]HintsAreCovered`).

The code keeps the state of a thread in a dozen maps, arrays and sets, and no
property is inductive unless one says how they agree. `ThreadSafe(t)` does so for
one thread:

* `LaneSafe`: what may occupy the lane together. A retained run waits behind
  exclusive work; a reserved operation is the queued work, behind active work, and
  nothing else is queued behind active work; what is queued with a certain outcome
  has no execution left to end.
* `ObjectSafe`: where each work object may be. The runnable queue and the retry
  queue are disjoint and hold queued works of lanes in which nothing is active; a
  promise and an unanswered claim are held by the lane, by the shutdown drain or
  by a task.
* `TaskSafe`, `ActiveSafe`: an execution is that of the active work, an active
  work is executed by one task, and claims are replayed only after a stop.
* `WaitSafe`, `Covered`: the wakers and the representation of a hint.

`IInv` adds to it that the program refers to live objects only (`ObjectsKnown`),
that the queue has no duplicates and is sorted, that the active lanes are finite
and within the limit (`LanesBounded`), that a runnable queue under capacity has
been kicked and a retry queue has its timer (`Awake`), and what each scheduler
state empties (`StateSafe`).

Every action but `Stop` touches one thread. `LocalStep` proves the invariant of
all others from a frame (`ElsewhereKept`), so that the lemma of an action
(`DrainKeeps`, `ReplayKeeps`, ...) is about its own thread and the queue. The
lemmas at the head of the module say of `InsertAt`, `RemoveAt` and `RemoveFirst`
what they keep: contents, uniqueness and order. The bound on executions follows
from the one on lanes: a map from active lanes onto executing tasks exists.

### What stays with TLC

* The promises under Findings: they are violated.
* Liveness under fairness, which the prover cannot reach: `BacklogIsAdmitted`,
  `ExclusivesAreAnswered`, `HintsAreActedUpon`, `EveryRequestSettles`,
  `PendingIsResolved`, `EveryOccurrenceSettles`. `ENABLED`, and with it fairness,
  is out of reach for the same reason.

Every other property of a passing run is stated by a theorem.

## Not modelled

The kernel's turns, provider calls and tools; transcript contents and
compaction's text; rendering, CLI, control API and UI; migrations and schema
text; media, credentials, identity, wiki, MCP and gateway I/O. Most of the
repository's lines are of this kind: they keep no state that several actors
change, and the models cover a small share of them.

Of the durable runtime, watches, heartbeats, scheduled commands, background tool
jobs and live voice are not modelled. Heartbeats and commands repeat the claim of
scheduled tasks; the others are planned.

Inside the modelled parts: idempotency keys of requests and deliveries,
`canSend`, `afterSettle` and `onTerminalFailure` clean-ups, subagents of an
archived session, and a handler or adapter that never returns.

## Plan

1. `RunClaims`, `ConnectorLease`, and the proofs of both: done.
2. `ThreadScheduler`, `RequestQueue` with its abstract specification,
   `ChannelOutbox`, `ScheduledTasks`: modelled and checked.
3. Proofs of the queues, with the refinement of `OrderedDelivery`: done.
4. Proofs of `ThreadScheduler`: done.
5. `Coordinator`: `RunClaims` with `NOTIFY` hints, settlement reconciliation and
   backlog scans, for liveness: an armed latch is eventually claimed.
6. Watches, tool jobs and live voice.
