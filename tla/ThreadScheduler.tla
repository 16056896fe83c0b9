--------------------------- MODULE ThreadScheduler ---------------------------
(***************************************************************************)
(* The process-local scheduler of thread runs: one lane per thread, a      *)
(* bounded number of executions, one queue ordered control < interactive < *)
(* backlog, a backoff for admissions whose outcome is unknown, exclusive   *)
(* operations that reserve a lane, and a shutdown that replays every       *)
(* ambiguous admission.                                                    *)
(*                                                                         *)
(* JavaScript runs one callback at a time, so each synchronous stretch of  *)
(* the code is one action: a call of schedule, runExclusively or stop, a   *)
(* timer, one turn of the drain loop, the end of an execution up to its    *)
(* first await, and the continuation after each awaited callback.          *)
(*                                                                         *)
(* A ScheduledWork object is an element of Works; for a run it stands for  *)
(* its run id too, which is drawn once per object.  An element is used     *)
(* again when the program holds no reference to the object it stood for.   *)
(***************************************************************************)
EXTENDS Naturals, SequencesExt

CONSTANTS
  Threads,
  Works,         \* ScheduledWork objects (and run ids) alive at one time
  Tasks,         \* promises of execute() alive at one time
  MaxRuns,       \* maxConcurrentRuns
  MaxBurst,      \* maxInteractiveBurst
  MaxExclusive,  \* bound: exclusive operations requested in a behaviour
  None           \* no work, no thread

ASSUME ThreadSchedulerAssumption ==
  /\ MaxRuns \in Nat \ {0}
  /\ MaxBurst \in Nat \ {0}
  /\ MaxExclusive \in Nat
  /\ None \notin Works \cup Threads

VARIABLES
  state,       \* "idle", "running", "stopping", "closed"
  work,        \* the ScheduledWork objects
  queue,       \* runnable work, in the order it is looked at
  retry,       \* admissionRetryQueue
  timer,       \* the admission retry timer is armed
  queued,      \* queuedByThreadId
  active,      \* activeByThreadId
  settling,    \* the works of settlingByThreadId
  reserved,    \* exclusiveAfterActive
  retained,    \* runAfterExclusive
  rerun,       \* rerunRequested
  kicked,      \* drainQueued
  burst,       \* interactiveStartsSinceBacklog
  task,        \* activeTasks, and where each execute() stands
  drains,      \* delayed admissions that shutdown is replaying
  unsettled,   \* works whose deferred is neither resolved nor rejected
  exclusives,  \* exclusive operations requested so far
  unresolved,  \* run ids of claims that may have committed unseen
  owed,        \* threads with a hint that nothing has acted upon
  gaveUp       \* shutdown passed its deadline

lanes   == <<queue, retry, timer, queued, active, settling, reserved, retained, rerun>>
ghosts  == <<exclusives, unresolved, owed, gaveUp>>
vars    == <<state, work, lanes, kicked, burst, task, drains, unsettled, ghosts>>

Blank == [thread |-> None, kind |-> "free", priority |-> "backlog", uncertain |-> FALSE]
Idle  == [work |-> None, stage |-> "idle", again |-> FALSE]

Init ==
  /\ state = "idle"
  /\ work = [w \in Works |-> Blank]
  /\ queue = <<>> /\ retry = {} /\ timer = FALSE
  /\ queued = [t \in Threads |-> None]
  /\ active = [t \in Threads |-> None]
  /\ settling = {}
  /\ reserved = [t \in Threads |-> None]
  /\ retained = [t \in Threads |-> None]
  /\ rerun = {} /\ kicked = FALSE /\ burst = 0
  /\ task = [k \in Tasks |-> Idle]
  /\ drains = {} /\ unsettled = {}
  /\ exclusives = 0 /\ unresolved = {} /\ owed = {} /\ gaveUp = FALSE

----------------------------------------------------------------------------
(* The lanes.                                                              *)

Values(f) == {f[t] : t \in Threads} \ {None}

Executing == {k \in Tasks : task[k].stage = "running"}

HeldByTask(w) == \E k \in Tasks : task[k].stage # "idle" /\ task[k].work = w

IsBacklog(w) == work[w].priority = "backlog"

FirstBacklog(q) == SelectInSeq(q, IsBacklog)

\* Mutant: interactive work is appended like backlog.
AppendRunWork(q, w, priority) == Append(q, w)

\* Interactive work goes in front of the first backlog work.
InsertRunWork(q, w, priority) ==
  IF priority = "backlog" \/ FirstBacklog(q) = 0 THEN Append(q, w)
                                                ELSE InsertAt(q, FirstBacklog(q), w)

\* Mutant: the queue is looked at before the work is inserted.
KickIfQueued == kicked' = (kicked \/ (state = "running" /\ queue # <<>>))

\* A microtask that drains the queue is pending, if the scheduler runs.
Kick == kicked' = (kicked \/ state = "running")

Unused == {w \in Works : work[w].kind = "free"}

\* w stands for a new object; which of the unused elements it is makes no
\* difference.
IsNew(w) == Unused # {} /\ w = CHOOSE v \in Unused : TRUE

NewWork(w, t, kind, priority) ==
  /\ IsNew(w)
  /\ work' = [work EXCEPT ![w] = [thread |-> t, kind |-> kind,
                                  priority |-> priority, uncertain |-> FALSE]]

(* schedule(): hints is what rerunRequested holds before the call, busy     *)
(* whether the lane has an active work.                                     *)
NewLane(t, priority, hints) ==
  \E w \in Works :
    /\ NewWork(w, t, "run", priority)
    /\ queue' = InsertRunWork(queue, w, priority)
    /\ queued' = [queued EXCEPT ![t] = w]
    /\ unsettled' = unsettled \cup {w}
    /\ rerun' = hints

\* A queued or delayed run represents the hint; an interactive hint moves it up.
Coalesce(t, priority, hints) ==
  LET w == queued[t] IN
    /\ work[w].kind = "run"
    /\ rerun' = hints
    /\ IF priority = "interactive" /\ IsBacklog(w)
       THEN /\ work' = [work EXCEPT ![w].priority = "interactive"]
            /\ queue' = IF Contains(queue, w)
                        THEN InsertRunWork(RemoveFirst(queue, w), w, "interactive") ELSE queue
       ELSE UNCHANGED <<work, queue>>
    /\ UNCHANGED <<queued, unsettled>>

\* The hint waits for the end of the lane's active or exclusive work.
Remember(t, hints) ==
  /\ rerun' = hints \cup {t}
  /\ UNCHANGED <<work, queue, queued, unsettled>>

\* Mutant: a hint that finds active work is dropped.
ForgetfulScheduled(t, priority, busy, hints) ==
  IF queued[t] # None
  THEN IF work[queued[t]].kind = "exclusive" THEN Remember(t, hints)
                                             ELSE Coalesce(t, priority, hints)
  ELSE IF busy THEN rerun' = hints /\ UNCHANGED <<work, queue, queued, unsettled>>
       ELSE NewLane(t, priority, hints)

\* Mutant: a hint opens a second lane beside active work.
ParallelScheduled(t, priority, busy, hints) ==
  IF queued[t] # None
  THEN IF work[queued[t]].kind = "exclusive" THEN Remember(t, hints)
                                             ELSE Coalesce(t, priority, hints)
  ELSE NewLane(t, priority, hints)

Scheduled(t, priority, busy, hints) ==
  IF queued[t] # None
  THEN IF work[queued[t]].kind = "exclusive" THEN Remember(t, hints)
                                             ELSE Coalesce(t, priority, hints)
  ELSE IF busy THEN Remember(t, hints)
               ELSE NewLane(t, priority, hints)

\* Only new work needs another turn of the drain loop.
Hint(t, priority) ==
  /\ Scheduled(t, priority, active[t] # None, rerun)
  /\ IF queued[t] = None /\ active[t] = None THEN Kick ELSE UNCHANGED kicked
  /\ owed' = owed \cup {t}

Schedule(t, priority) ==
  /\ state \in {"idle", "running"}
  /\ Hint(t, priority)
  /\ UNCHANGED <<state, retry, timer, active, settling, reserved, retained, burst,
                 task, drains, exclusives, unresolved, gaveUp>>

----------------------------------------------------------------------------
(* runExclusively().                                                       *)

\* Behind an active run the lane is reserved and nothing else can take it.
ReserveLane(t, w) ==
  /\ active[t] # None
  /\ NewWork(w, t, "exclusive", "control")
  /\ reserved' = [reserved EXCEPT ![t] = w]
  /\ unsettled' = unsettled \cup {w}
  /\ UNCHANGED <<queue, retry, timer, retained, rerun>>

(* A queued run gives way.  If its claim may have committed it is retained; *)
(* otherwise its hint is remembered and the work is rejected.               *)
Supersede(t, w) ==
  LET run == queued[t] IN
    /\ active[t] = None /\ run # None
    /\ IsNew(w)
    /\ queue' = Cons(w, RemoveFirst(queue, run))
    /\ retry' = retry \ {run}
    /\ timer' = IF run \in retry THEN retry' # {} ELSE timer
    /\ LET new == [thread |-> t, kind |-> "exclusive",
                   priority |-> "control", uncertain |-> FALSE] IN
       IF work[run].uncertain
       THEN /\ retained' = [retained EXCEPT ![t] = run]
            /\ work' = [work EXCEPT ![w] = new]
            /\ unsettled' = unsettled \cup {w}
            /\ rerun' = rerun
       ELSE /\ rerun' = rerun \cup {t}
            /\ work' = [work EXCEPT ![w] = new, ![run] = Blank]
            /\ unsettled' = (unsettled \ {run}) \cup {w}
            /\ retained' = retained
    /\ UNCHANGED reserved

TakeIdleLane(t, w) ==
  /\ active[t] = None /\ queued[t] = None
  /\ NewWork(w, t, "exclusive", "control")
  /\ queue' = Cons(w, queue)
  /\ unsettled' = unsettled \cup {w}
  /\ UNCHANGED <<retry, timer, reserved, retained, rerun>>

RunExclusively(t) ==
  /\ state = "running"
  /\ exclusives < MaxExclusive
  /\ active[t] # None => work[active[t]].kind # "exclusive"
  /\ queued[t] # None => work[queued[t]].kind # "exclusive"
  /\ reserved[t] = None
  /\ \E w \in Works :
       /\ ReserveLane(t, w) \/ Supersede(t, w) \/ TakeIdleLane(t, w)
       /\ queued' = [queued EXCEPT ![t] = w]
  /\ exclusives' = exclusives + 1
  /\ Kick
  /\ UNCHANGED <<state, active, settling, burst, task, drains, unresolved, owed, gaveUp>>

----------------------------------------------------------------------------
(* The drain loop.                                                         *)

ActiveLanes == {t \in Threads : active[t] # None}

HasCapacity ==
  state = "running" /\ Cardinality(ActiveLanes) < MaxRuns /\ queue # <<>>

\* Mutant: backlog waits until there is no interactive work.
TakeFirst(i) == i = 1 /\ burst' = 0

\* Mutant: one interactive start too many is let through.
TakeLate(i) ==
  LET first == work[queue[1]].priority
      backlog == FirstBacklog(queue) IN
    IF first # "control" /\ backlog # 0 /\ burst > MaxBurst THEN i = backlog /\ burst' = 0
    ELSE i = 1 /\ burst' = IF first = "interactive" /\ backlog # 0 THEN burst + 1 ELSE burst

(* takeNextWork(): the index it removes.  Control work is always first; a  *)
(* burst of interactive starts lets the oldest backlog work through.       *)
TakeNext(i) ==
  LET first == work[queue[1]].priority
      backlog == FirstBacklog(queue) IN
    \/ first = "control" /\ i = 1 /\ burst' = burst
    \/ first # "control" /\ backlog = 0 /\ i = 1 /\ burst' = 0
    \/ /\ first # "control" /\ backlog # 0
       /\ IF burst >= MaxBurst THEN i = backlog /\ burst' = 0
          ELSE i = 1 /\ burst' = IF first = "interactive" THEN burst + 1 ELSE 0

NewTasks == {k \in Tasks : task[k].stage = "idle"}

IsNewTask(k) == NewTasks # {} /\ k = CHOOSE j \in NewTasks : TRUE

\* One turn of the loop: a work leaves the queue and its execution begins.
Drain ==
  /\ kicked /\ HasCapacity
  /\ \E i \in 1..Len(queue), k \in Tasks :
       LET w == queue[i]
           t == work[w].thread IN
         /\ TakeNext(i)
         /\ IsNewTask(k)
         /\ queue' = RemoveAt(queue, i)
         /\ queued' = [queued EXCEPT ![t] = None]
         /\ active' = [active EXCEPT ![t] = w]
         /\ task' = [task EXCEPT ![k] = [work |-> w, stage |-> "running", again |-> FALSE]]
         /\ owed' = IF work[w].kind = "run" THEN owed \ {t} ELSE owed
  /\ UNCHANGED <<state, work, retry, timer, settling, reserved, retained, rerun,
                 kicked, drains, unsettled, exclusives, unresolved, gaveUp>>

EndOfDrain ==
  /\ kicked /\ ~HasCapacity
  /\ kicked' = FALSE
  /\ UNCHANGED <<state, work, lanes, burst, task, drains, unsettled, ghosts>>

----------------------------------------------------------------------------
(* The end of an execution: work.execute() has returned or thrown, and the  *)
(* code runs up to its first await in the finally block.                   *)

RunOutcomes == {"completed", "no_claim", "aborted", "lost", "threw", "admission_failed"}
ExclusiveOutcomes == {"completed", "threw"}

\* What is awaited next: an authoritative read, the replay of a claim, or the
\* refill of capacity.  onAdmissionRetry only logs.
AwaitedAfter(outcome) ==
  CASE outcome \in {"completed", "no_claim", "aborted"} -> "reconcile"
    [] outcome = "admission_failed" /\ state = "stopping" -> "replay"
    [] OTHER -> "capacity"

\* The reserved operation comes next; an ambiguous claim is retained behind it.
YieldToReserved(w, t, outcome) ==
  /\ queue' = Cons(reserved[t], queue)
  /\ reserved' = [reserved EXCEPT ![t] = None]
  /\ IF outcome = "admission_failed"
     THEN /\ work' = [work EXCEPT ![w].uncertain = TRUE]
          /\ retained' = [retained EXCEPT ![t] = w]
     ELSE UNCHANGED <<work, retained>>
  /\ rerun' = IF outcome = "completed" /\ work[w].kind = "run" THEN rerun \ {t} ELSE rerun
  /\ Kick
  /\ UNCHANGED <<retry, timer, queued, unsettled, owed>>

\* The run an exclusive operation held back returns to the queue.
ReturnRetained(t) ==
  /\ retained' = [retained EXCEPT ![t] = None]
  /\ queue' = InsertRunWork(queue, retained[t], work[retained[t]].priority)
  /\ queued' = [queued EXCEPT ![t] = retained[t]]
  /\ rerun' = rerun \ {t}
  /\ Kick
  /\ UNCHANGED <<retry, timer, reserved, work, unsettled, owed>>

\* Mutant: delayed work is not found by its thread.
BackOffUnlisted(w, t) ==
  /\ work' = [work EXCEPT ![w].uncertain = TRUE]
  /\ IF state = "running" THEN retry' = retry \cup {w} /\ timer' = TRUE
                         ELSE UNCHANGED <<retry, timer>>
  /\ rerun' = rerun \ {t}
  /\ Kick
  /\ UNCHANGED <<queue, queued, reserved, retained, unsettled, owed>>

\* The same work and run id wait for the retry timer; hints are part of it.
BackOff(w, t) ==
  /\ work' = IF state = "closed" THEN work ELSE [work EXCEPT ![w].uncertain = TRUE]
  /\ IF state = "running"
     THEN /\ retry' = retry \cup {w}
          /\ queued' = [queued EXCEPT ![t] = w]
          /\ timer' = TRUE
     ELSE UNCHANGED <<retry, queued, timer>>
  /\ rerun' = rerun \ {t}
  /\ Kick
  /\ UNCHANGED <<queue, reserved, retained, unsettled, owed>>

\* The hint is left to the settlement callback (as a mutant: always).
DropHint(t, outcome) ==
  /\ rerun' = rerun \ {t}
  /\ Kick
  /\ owed' = IF outcome = "lost" THEN owed \ {t} ELSE owed
  /\ UNCHANGED <<queue, queued, retry, timer, reserved, retained, work, unsettled>>

(* Work that threw replays the hint it coalesced; every other outcome      *)
(* drops it, for the settlement callback to read the durable state.        *)
ReplayHint(t, outcome) ==
  IF state = "running" /\ outcome = "threw" /\ t \in rerun
  THEN /\ Scheduled(t, "interactive", FALSE, rerun \ {t})
       /\ Kick
       /\ UNCHANGED <<retry, timer, reserved, retained, owed>>
  ELSE DropHint(t, outcome)

Finish(k, outcome) ==
  LET w == task[k].work
      t == work[w].thread
      run == work[w].kind = "run" IN
    /\ task[k].stage = "running"
    /\ outcome \in IF run THEN RunOutcomes ELSE ExclusiveOutcomes
    /\ active' = [active EXCEPT ![t] = None]
    /\ settling' = settling \cup {w}
    /\ IF state = "running" /\ reserved[t] # None THEN YieldToReserved(w, t, outcome)
       ELSE IF ~run /\ state = "running" /\ retained[t] # None THEN ReturnRetained(t)
       ELSE IF outcome = "admission_failed" THEN BackOff(w, t)
       ELSE ReplayHint(t, outcome)
    /\ task' = [task EXCEPT ![k].stage = AwaitedAfter(outcome),
                            ![k].again = outcome = "admission_failed" /\ state = "running"]
    /\ unresolved' = IF outcome = "admission_failed" THEN unresolved \cup {w}
                                                     ELSE unresolved \ {w}
    /\ UNCHANGED <<state, burst, drains, exclusives, gaveUp>>

----------------------------------------------------------------------------
(* The awaited callbacks.                                                  *)

(* onAttemptSettled and onExclusiveSettled: the coordinator reads whether   *)
(* the thread is runnable, until the database answers.  What the read finds *)
(* stands for every hint before it.                                         *)
Read(k, runnable) ==
  /\ task[k].stage = "reconcile"
  /\ task' = [task EXCEPT ![k].stage = IF runnable THEN "runnable" ELSE "capacity"]
  /\ owed' = IF runnable THEN owed ELSE owed \ {work[task[k].work].thread}
  /\ UNCHANGED <<state, work, lanes, kicked, burst, drains, unsettled, exclusives,
                 unresolved, gaveUp>>

\* The answer has arrived; schedule() ignores it once shutdown has begun.
Reconcile(k) ==
  /\ task[k].stage = "runnable"
  /\ task' = [task EXCEPT ![k].stage = "capacity"]
  /\ IF state = "running" THEN Hint(work[task[k].work].thread, "interactive")
     ELSE UNCHANGED <<queue, queued, work, rerun, unsettled, kicked, owed>>
  /\ UNCHANGED <<state, retry, timer, active, settling, reserved, retained, burst,
                 drains, exclusives, unresolved, gaveUp>>

\* onAdmissionShutdown replays the claim until it is answered or the shared
\* deadline has passed.
Answered(w) ==
  \/ unresolved' = unresolved \ {w} /\ UNCHANGED gaveUp
  \/ gaveUp' = TRUE /\ UNCHANGED unresolved

Replay(k) ==
  /\ task[k].stage = "replay"
  /\ Answered(task[k].work)
  /\ task' = [task EXCEPT ![k].stage = "capacity"]
  /\ UNCHANGED <<state, work, lanes, kicked, burst, drains, unsettled, exclusives, owed>>

\* Nothing refers to the object any more once its last task has ended.
Forgotten(w, k) ==
  /\ \A j \in Tasks \ {k} : task[j].work # w
  /\ w \notin ToSet(queue) \cup retry \cup drains \cup Values(queued) \cup Values(active)
                \cup Values(reserved) \cup Values(retained)

\* onCapacityAvailable has returned: the lane stops settling, and the promise
\* is settled unless the same work is to be tried again.
Settle(k) ==
  LET w == task[k].work IN
    /\ task[k].stage = "capacity"
    /\ settling' = settling \ {w}
    /\ task' = [task EXCEPT ![k] = Idle]
    /\ unsettled' = IF task[k].again THEN unsettled ELSE unsettled \ {w}
    /\ work' = IF w \notin unsettled' /\ Forgotten(w, k) THEN [work EXCEPT ![w] = Blank] ELSE work
    /\ UNCHANGED <<state, queue, retry, timer, queued, active, reserved, retained, rerun,
                   kicked, burst, drains, ghosts>>

----------------------------------------------------------------------------
(* The retry timer, start and stop.                                        *)

\* Mutant: the timer is not armed again for the work that is left.
ReleaseOnce(w) ==
  LET t == work[w].thread IN
    /\ state = "running" /\ timer /\ w \in retry
    /\ retry' = retry \ {w}
    /\ queue' = IF queued[t] = w THEN InsertRunWork(queue, w, work[w].priority) ELSE queue
    /\ timer' = FALSE
    /\ Kick
    /\ UNCHANGED <<state, work, queued, active, settling, reserved, retained, rerun,
                   burst, task, drains, unsettled, ghosts>>

\* releaseAdmissionRetries(), one work at a time: any of them may be due.
Release(w) ==
  LET t == work[w].thread IN
    /\ state = "running" /\ timer /\ w \in retry
    /\ retry' = retry \ {w}
    /\ queue' = IF queued[t] = w THEN InsertRunWork(queue, w, work[w].priority) ELSE queue
    /\ timer' = (retry' # {})
    /\ Kick
    /\ UNCHANGED <<state, work, queued, active, settling, reserved, retained, rerun,
                   burst, task, drains, unsettled, ghosts>>

Start ==
  /\ state = "idle" /\ state' = "running"
  /\ kicked' = TRUE
  /\ UNCHANGED <<work, lanes, burst, task, drains, unsettled, ghosts>>

\* Mutant: the runs that wait behind exclusive work are overlooked.
QueuedOnly == Values(queued)

\* The works rejectQueued() looks at.
Rejectable == Values(queued) \cup Values(retained)

\* rejectQueued(): ambiguous claims are kept for the shutdown to replay.
RejectQueued ==
  LET replayed == {w \in Rejectable : work[w].kind = "run" /\ work[w].uncertain}
      rejected == Rejectable \ replayed IN
    /\ queue' = <<>> /\ retry' = {} /\ timer' = FALSE
    /\ queued' = [t \in Threads |->
                    IF \E w \in Rejectable : work[w].thread = t THEN None ELSE queued[t]]
    /\ reserved' = [t \in Threads |-> None]
    /\ retained' = [t \in Threads |-> None]
    /\ rerun' = {}
    /\ drains' = IF state = "idle" THEN {} ELSE replayed
    /\ unsettled' = unsettled \ rejected
    /\ work' = [w \in Works |->
                  IF w \in rejected /\ ~HeldByTask(w) THEN Blank ELSE work[w]]

Stop ==
  /\ state \in {"idle", "running"}
  /\ state' = IF state = "idle" THEN "closed" ELSE "stopping"
  /\ RejectQueued
  /\ UNCHANGED <<active, settling, kicked, burst, task, ghosts>>

\* A delayed admission has been replayed.
DrainAdmission(w) ==
  /\ w \in drains
  /\ Answered(w)
  /\ drains' = drains \ {w}
  /\ unsettled' = unsettled \ {w}
  /\ work' = IF unresolved' # unresolved /\ ~HeldByTask(w) THEN [work EXCEPT ![w] = Blank] ELSE work
  /\ UNCHANGED <<state, lanes, kicked, burst, task, exclusives, owed>>

Close ==
  /\ state = "stopping" /\ state' = "closed"
  /\ \/ (\A k \in Tasks : task[k].stage = "idle") /\ drains = {} /\ UNCHANGED gaveUp
     \/ gaveUp' = TRUE
  /\ UNCHANGED <<work, lanes, kicked, burst, task, drains, unsettled, exclusives,
                 unresolved, owed>>

----------------------------------------------------------------------------
Next ==
  \/ Start \/ Stop \/ Close
  \/ \E t \in Threads : \/ \E p \in {"interactive", "backlog"} : Schedule(t, p)
                        \/ RunExclusively(t)
  \/ Drain \/ EndOfDrain
  \/ \E k \in Tasks : \/ \E outcome \in RunOutcomes : Finish(k, outcome)
                      \/ \E runnable \in BOOLEAN : Read(k, runnable)
                      \/ Reconcile(k) \/ Replay(k) \/ Settle(k)
  \/ \E w \in Works : Release(w) \/ DrainAdmission(w)

Spec == Init /\ [][Next]_vars

\* The event loop turns, timers fire, executions and callbacks end.
Fairness ==
  /\ WF_vars(Drain) /\ WF_vars(Close)
  /\ \A k \in Tasks :
       /\ WF_vars(\E outcome \in RunOutcomes : Finish(k, outcome))
       /\ WF_vars(\E runnable \in BOOLEAN : Read(k, runnable))
       /\ WF_vars(Reconcile(k)) /\ WF_vars(Replay(k)) /\ WF_vars(Settle(k))
  /\ \A w \in Works : WF_vars(Release(w)) /\ WF_vars(DrainAdmission(w))

FairSpec == Spec /\ Fairness

----------------------------------------------------------------------------
(* Properties.                                                             *)

Lane == [Threads -> Works \cup {None}]

WorkType == [thread : Threads \cup {None}, kind : {"free", "run", "exclusive"},
             priority : {"control", "interactive", "backlog"}, uncertain : BOOLEAN]

TaskType == [work : Works \cup {None},
             stage : {"idle", "running", "reconcile", "runnable", "replay", "capacity"},
             again : BOOLEAN]

\* The type invariant of the scheduler's collections.
TypeOK ==
  /\ state \in {"idle", "running", "stopping", "closed"}
  /\ work \in [Works -> WorkType]
  /\ queue \in Seq(Works) /\ retry \subseteq Works /\ timer \in BOOLEAN
  /\ queued \in Lane /\ active \in Lane /\ reserved \in Lane /\ retained \in Lane
  /\ settling \subseteq Works /\ rerun \subseteq Threads
  /\ kicked \in BOOLEAN /\ burst \in 0..MaxBurst
  /\ task \in [Tasks -> TaskType]
  /\ drains \subseteq Works /\ unsettled \subseteq Works
  /\ exclusives \in 0..MaxExclusive
  /\ unresolved \subseteq Works /\ owed \subseteq Threads /\ gaveUp \in BOOLEAN

\* The answer of the settlement callback is still to come.
Reconciling == {"reconcile", "runnable"}

ThreadOf(k) == work[task[k].work].thread

\* A thread is executed by one task at a time, and no more tasks execute than
\* maxConcurrentRuns, although the scheduler only counts its lanes.
OneExecutionPerThread ==
  /\ \A j, k \in Executing : ThreadOf(j) = ThreadOf(k) => j = k
  /\ Cardinality(Executing) <= MaxRuns

Rank(w) == CASE work[w].priority = "control"     -> 1
             [] work[w].priority = "interactive" -> 2
             [] work[w].priority = "backlog"     -> 3

\* The queue holds control work, then interactive, then backlog, whatever was
\* superseded, moved up, retained or delayed meanwhile (insertRunWork and
\* takeNextWork look for the first backlog work and trust this order).
QueueByPriority ==
  \A i, j \in DOMAIN queue : i <= j => Rank(queue[i]) <= Rank(queue[j])

(* While the scheduler runs, everything that waits has something that will  *)
(* wake it: the queue a pending drain, a delayed admission its timer, a     *)
(* reserved operation the active work, a retained run and a remembered hint *)
(* the work that occupies the lane.                                         *)
EveryWaitHasAWaker ==
  state = "running" =>
    /\ HasCapacity => kicked
    /\ retry # {} => timer
    /\ \A t \in Threads :
         /\ reserved[t] # None => active[t] # None
         /\ retained[t] # None \/ t \in rerun => active[t] # None \/ queued[t] # None
         /\ queued[t] # None =>
              \/ queued[t] = reserved[t]
              \/ queued[t] \in retry
              \/ Contains(queue, queued[t])

RunsOf(t) ==
  {w \in Values(queued) \cup Values(active) \cup Values(retained) :
     work[w].kind = "run" /\ work[w].thread = t}

(* The id of a claim that may have committed is never dropped before it has *)
(* been answered, and no other run of its thread is started meanwhile: a    *)
(* fresh id would take the committed row for another owner's.               *)
AmbiguousClaimIsKept ==
  ~gaveUp => \A w \in unresolved :
    /\ \/ w \in Values(queued) \cup Values(active) \cup Values(retained) \cup drains
       \/ \E k \in Tasks : task[k].stage = "replay" /\ task[k].work = w
    /\ RunsOf(work[w].thread) \subseteq {w}

(* A hint that no execution has acted upon is still represented: by a run   *)
(* that waits, by a remembered or retained one, or by a settlement callback *)
(* that has yet to read the durable state.                                  *)
HintsAreCovered ==
  state = "running" => \A t \in owed :
    \/ queued[t] # None /\ work[queued[t]].kind = "run"
    \/ t \in rerun \/ retained[t] # None
    \/ \E k \in Tasks : task[k].stage \in Reconciling /\ ThreadOf(k) = t

\* Whoever awaits a work's promise awaits something the scheduler still holds.
NoForgottenPromise ==
  \A w \in unsettled :
    \/ w \in Values(queued) \cup Values(active) \cup Values(retained) \cup drains
    \/ \E k \in Tasks : task[k].work = w /\ task[k].stage # "idle" /\ ~task[k].again

\* isBusy(), and the condition under which waitForIdle() keeps waiting.
IsBusy(t) ==
  queued[t] # None \/ active[t] # None \/ \E w \in settling : work[w].thread = t

\* docs/developers/daemon.md:73: the lane is not reported idle while a coalesced
\* wake is still uncertain.
BusyUntilReconciled ==
  \A k \in Tasks : task[k].stage \in Reconciling => IsBusy(ThreadOf(k))

\* Every exclusive operation is answered, whatever occupied its lane.
ExclusivesAreAnswered ==
  \A w \in Works : w \in unsettled /\ work[w].kind = "exclusive" ~> w \notin unsettled

Backlogged(t) == queued[t] # None /\ IsBacklog(queued[t]) /\ Contains(queue, queued[t])

\* Interactive traffic without end does not starve a backlog lane.
BacklogIsAdmitted ==
  \A t \in Threads : Backlogged(t) /\ state = "running" ~> ~Backlogged(t)

\* Every hint is acted upon: an attempt starts or the durable state is read.
HintsAreActedUpon ==
  \A t \in Threads : t \in owed /\ state = "running" ~> t \notin owed \/ state # "running"

=============================================================================
