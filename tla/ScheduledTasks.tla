----------------------------- MODULE ScheduledTasks -----------------------------
(***************************************************************************)
(* The scheduled tasks of one session (domain/scheduling/tasks): their     *)
(* definitions, the occurrences a runner materializes from them and claims *)
(* under a token and a lease, the stable input each occurrence submits,    *)
(* and the session's reset, archive and restore.                           *)
(*                                                                         *)
(* Time is the number of fire times that have passed; cron fires at every  *)
(* one. A token is the number of the claim that wrote it. A lease is       *)
(* renewed silently while its holder lives; lapsed is claim_expires_at <=  *)
(* NOW(). How a thread run comes about is the subject of RunClaims: here   *)
(* an input is applied by a run, and the run ends completed or failed.     *)
(***************************************************************************)
EXTENDS Naturals, FiniteSets

CONSTANTS
    Task,       \* definitions of the session
    Runner,     \* processes with a ScheduledTaskRunner, one claim slot each
    MaxFire,    \* bound: fire times considered
    MaxRequests,  \* bound on resets and archives
    MaxFaults,  \* bound on crashes, stops, lost answers, leases run out under a holder
    None

ASSUME TaskAssumption ==
    /\ None \notin Runner \cup {"completed", "failed"}
    /\ MaxFire \in Nat \ {0}
    /\ MaxRequests \in Nat
    /\ MaxFaults \in Nat

Fire == 1 .. MaxFire
Occurrence == Task \X Fire

VARIABLES
    now,      \* the last fire time that has passed
    task,     \* scheduled_tasks: schedule_kind, enabled, completed or cancelled, next_fire_at
              \* (0: NULL), run_at (0: NULL)
    occ,      \* scheduled_task_runs: status, claims made so far, claim_token (0: NULL),
              \* whether the lease has lapsed and whether the input is linked
    input,    \* the input with the occurrence's id, and the run that applied it
    session,  \* archived, its thread's claim fence, the lifecycle request in progress,
              \* and how many there have been
    runner,   \* up, stopping or down
    work,     \* of each runner: its drain or processClaim
    stray,    \* submissions and links that outlived the claim they were made for
    lost,     \* history: occurrences with a submission that was never answered
    refused,  \* history: the archive transaction was rolled back by a constraint
    faults    \* how much of MaxFaults is spent

vars == <<now, task, occ, input, session, runner, work, stray, lost, refused, faults>>

Table == <<now, task, occ, input, session>>
Host == <<runner, work, stray>>
History == <<lost, refused>>

Idle == [phase |-> "idle", occ |-> None, next |-> 0, token |-> 0, result |-> None]

Fault == faults < MaxFaults /\ faults' = faults + 1

Active(o) == occ[o].status \in {"pending", "claimed", "running"}
Busy(t) == \E f \in Fire : Active(<<t, f>>)
Over(t) == task[t].ended # "no"
Recurring(t) == task[t].kind = "recurring"

-------------------------------------------------------------------------------
\* Definitions.

Advance ==
    /\ now < MaxFire
    /\ now' = now + 1
    /\ UNCHANGED <<task, occ, input, session, Host, History, faults>>

\* computeInitialNextFireAt of a kept or a new schedule
Update(t, kind, f, on) ==
    /\ ~Over(t) /\ ~Busy(t)
    /\ kind = "recurring" => f = now + 1
    /\ f \in Fire => occ[<<t, f>>].status = "absent"
    /\ task' = [task EXCEPT ![t] =
          [@ EXCEPT !.kind = kind, !.enabled = on, !.next = f,
                !.runAt = IF kind = "once" THEN f ELSE 0]]
    /\ UNCHANGED <<now, occ, input, session, Host, History, faults>>

\* Mutant: occurrences in progress are cancelled like pending ones.
CancelBusy(t) ==
    /\ ~Over(t)
    /\ task' = [task EXCEPT ![t] = [@ EXCEPT !.ended = "cancelled", !.next = 0]]
    /\ occ' = [o \in Occurrence |->
          IF o[1] = t /\ Active(o) THEN [occ[o] EXCEPT !.status = "cancelled"] ELSE occ[o]]
    /\ UNCHANGED <<now, input, session, Host, History, faults>>

Cancel(t) ==
    /\ ~Over(t)
    /\ task' = [task EXCEPT ![t] = [@ EXCEPT !.ended = "cancelled", !.next = 0]]
    /\ occ' = [o \in Occurrence |->
          IF o[1] = t /\ occ[o].status = "pending"
          THEN [occ[o] EXCEPT !.status = "cancelled"] ELSE occ[o]]
    /\ UNCHANGED <<now, input, session, Host, History, faults>>

-------------------------------------------------------------------------------
\* The drain: due definitions are listed, then materialized.

Ready(t) == task[t].enabled /\ ~Over(t) /\ ~Busy(t) /\ ~session.archived

\* computeClaimNextFireAt of the schedule that was listed
After(t) == IF Recurring(t) THEN task[t].next + 1 ELSE 0

ListDue(p) ==
    /\ runner[p] = "up" /\ work[p].phase = "idle"
    /\ \E t \in Task :
         /\ Ready(t) /\ task[t].next \in 1 .. now
         /\ work' = [work EXCEPT ![p] =
              [Idle EXCEPT !.phase = "listed", !.occ = <<t, task[t].next>>, !.next = After(t)]]
    /\ UNCHANGED <<Table, runner, stray, History, faults>>

\* Mutant: the statement trusts the list it was given.
ReadyAnyway(o) == ~Busy(o[1]) /\ ~session.archived

\* the locked definition still fires then
StillDue(o) == Ready(o[1]) /\ task[o[1]].next = o[2]

Materialize(p) ==
    LET o == work[p].occ
        t == o[1]
    IN
    /\ work[p].phase = "listed"
    /\ IF StillDue(o) /\ occ[o].status = "absent"
       THEN /\ occ' = [occ EXCEPT ![o].status = "pending"]
            /\ task' = [task EXCEPT ![t].next = work[p].next]
       ELSE UNCHANGED <<occ, task>>
    /\ work' = [work EXCEPT ![p] = Idle]
    /\ UNCHANGED <<now, input, session, runner, stray, History, faults>>

-------------------------------------------------------------------------------
\* Claims.

\* Mutant: claims of runners that are gone are not taken over.
ClaimableIfFresh(o) == occ[o].status = "pending" /\ task[o[1]].ended # "cancelled"

Claimable(o) ==
    /\ Active(o)
    /\ occ[o].status = "pending" => task[o[1]].ended # "cancelled"
    /\ occ[o].token = 0 \/ occ[o].lapsed

\* a fresh token; a running occurrence goes on running
ClaimedRow(o) ==
    [occ[o] EXCEPT !.status = IF @ = "pending" THEN "claimed" ELSE @,
                   !.claims = @ + 1, !.token = occ[o].claims + 1, !.lapsed = FALSE]

ClaimTaskRun(p) ==
    /\ runner[p] = "up" /\ work[p].phase = "idle" /\ ~session.archived
    /\ \E o \in Occurrence :
         /\ Claimable(o) /\ \A q \in Occurrence : Claimable(q) => o[2] <= q[2]
         /\ occ' = [occ EXCEPT ![o] = ClaimedRow(o)]
         /\ work' = [work EXCEPT ![p] =
              [Idle EXCEPT !.phase = IF occ[o].linked THEN "wait" ELSE "submit",
                           !.occ = o, !.token = occ[o].claims + 1]]
    /\ UNCHANGED <<now, task, input, session, runner, stray, History, faults>>

\* Mutant: any live claim will do.
HoldsAnyToken(o, token) == occ[o].status \in {"claimed", "running"} /\ ~occ[o].lapsed

HoldsToken(o, token) ==
    /\ occ[o].status \in {"claimed", "running"}
    /\ occ[o].token = token /\ ~occ[o].lapsed

Supervised(p) == work[p].phase \in {"submit", "link", "wait"}

Held(o) == \E p \in Runner : work[p].occ = o /\ work[p].token = occ[o].token

LapseClaim(o) ==
    /\ occ[o].token # 0 /\ ~occ[o].lapsed
    /\ occ' = [occ EXCEPT ![o].lapsed = TRUE]
    /\ IF Held(o) THEN Fault ELSE UNCHANGED faults
    /\ UNCHANGED <<now, task, input, session, Host, History>>

Detached(p) == [owner |-> p, occ |-> work[p].occ, token |-> work[p].token, phase |-> work[p].phase]

\* a renewal is refused, or fails: the work goes on without its claim
LoseClaim(p) ==
    /\ Supervised(p)
    /\ IF HoldsToken(work[p].occ, work[p].token) THEN Fault ELSE UNCHANGED faults
    /\ stray' = IF work[p].phase = "wait" THEN stray ELSE stray \cup {Detached(p)}
    /\ work' = [work EXCEPT ![p] = Idle]
    /\ UNCHANGED <<Table, runner, History>>

-------------------------------------------------------------------------------
\* executeClaim: submit the stable input, link it, wait for its run.

Goto(p, phase, result) ==
    work' = [work EXCEPT ![p] = [@ EXCEPT !.phase = phase, !.result = result]]

\* submitSessionInput under the occurrence's id: one input, however often it is sent
Submitted(o) ==
    IF session.archived \/ input[o] # "none" THEN input ELSE [input EXCEPT ![o] = "pending"]

Accepted(o) == ~session.archived /\ input[o] # "discarded"

Submit(p) ==
    /\ work[p].phase = "submit"
    /\ input' = Submitted(work[p].occ)
    /\ Goto(p, IF Accepted(work[p].occ) THEN "link" ELSE "fallback", None)
    /\ UNCHANGED <<now, task, occ, session, runner, stray, History, faults>>

\* the connection breaks while the statement runs or waits for the session's lock
LoseSubmit(p) ==
    /\ work[p].phase = "submit"
    /\ lost' = lost \cup {work[p].occ}
    /\ stray' = stray \cup {[Detached(p) EXCEPT !.owner = None]}
    /\ Goto(p, "fallback", None)
    /\ Fault
    /\ UNCHANGED <<Table, runner, refused>>

Linkable(o, token) == HoldsToken(o, token) /\ input[o] # "none"

Linked(o, token) ==
    IF Linkable(o, token)
    THEN [occ EXCEPT ![o] = [@ EXCEPT !.status = "running", !.linked = TRUE]] ELSE occ

Link(p) ==
    LET o == work[p].occ IN
    /\ work[p].phase = "link"
    /\ occ' = Linked(o, work[p].token)
    /\ Goto(p, IF Linkable(o, work[p].token) THEN "wait" ELSE "fallback", None)
    /\ UNCHANGED <<now, task, input, session, runner, stray, History, faults>>

LoseLink(p) ==
    /\ work[p].phase = "link"
    /\ stray' = stray \cup {[Detached(p) EXCEPT !.owner = None]}
    /\ Goto(p, "fallback", None)
    /\ Fault
    /\ UNCHANGED <<Table, runner, History>>

\* waitForInputRun: the run's receipt, a discarded input, or the coordinator stops
Wait(p) ==
    LET o == work[p].occ IN
    /\ work[p].phase = "wait"
    /\ \/ input[o] \in {"completed", "failed"} /\ Goto(p, "record", input[o])
       \/ input[o] = "discarded" /\ Goto(p, "fallback", None)
       \/ runner[p] = "stopping" /\ Goto(p, "fallback", None)
    /\ UNCHANGED <<Table, runner, stray, History, faults>>

StraySubmit(s) ==
    /\ s \in stray /\ s.phase = "submit"
    /\ input' = Submitted(s.occ)
    /\ stray' = (stray \ {s}) \cup
          IF s.owner # None /\ Accepted(s.occ) THEN {[s EXCEPT !.phase = "link"]} ELSE {}
    /\ UNCHANGED <<now, task, occ, session, runner, work, History, faults>>

StrayLink(s) ==
    /\ s \in stray /\ s.phase = "link"
    /\ occ' = Linked(s.occ, s.token)
    /\ stray' = stray \ {s}
    /\ UNCHANGED <<now, task, input, session, runner, work, History, faults>>

-------------------------------------------------------------------------------
\* settleTaskRun.

\* Mutant: a failure without a run needs no receipt.
ReceiptUnread(o, status, result) == result = None => status = "failed"

\* the receipt its predicate asks for: the run that applied the input, or no delivery
Receipt(o, status, result) ==
    \/ /\ status = "failed" /\ result = None
       /\ \/ occ[o].status = "claimed" /\ input[o] \in {"none", "discarded"}
          \/ occ[o].status = "running" /\ input[o] = "discarded"
    \/ /\ result # None /\ occ[o].linked
       /\ input[o] = IF status = "succeeded" THEN "completed" ELSE "failed"

Settles(p, status) ==
    HoldsToken(work[p].occ, work[p].token) /\ Receipt(work[p].occ, status, work[p].result)

Finished(t) ==
    IF Recurring(t) THEN task[t]
    ELSE [task[t] EXCEPT !.next = 0, !.ended = IF @ = "cancelled" THEN @ ELSE "completed"]

SettleTaskRun(p, status) ==
    LET o == work[p].occ IN
    IF Settles(p, status)
    THEN /\ occ' = [occ EXCEPT ![o] = [@ EXCEPT !.status = status, !.token = 0, !.lapsed = FALSE]]
         /\ task' = [task EXCEPT ![o[1]] = Finished(o[1])]
    ELSE UNCHANGED <<occ, task>>

\* completeTaskRun or failTaskRun; if it throws, failTaskRun once more
Record(p) ==
    LET status == IF work[p].result = "failed" THEN "failed" ELSE "succeeded" IN
    /\ work[p].phase = "record"
    /\ SettleTaskRun(p, status)
    /\ IF Settles(p, status) THEN work' = [work EXCEPT ![p] = Idle]
       ELSE Goto(p, "fallback", work[p].result)
    /\ UNCHANGED <<now, input, session, runner, stray, History, faults>>

LoseRecord(p) ==
    /\ work[p].phase = "record"
    /\ \/ SettleTaskRun(p, IF work[p].result = "failed" THEN "failed" ELSE "succeeded")
       \/ UNCHANGED <<occ, task>>
    /\ Goto(p, "fallback", work[p].result)
    /\ Fault
    /\ UNCHANGED <<now, input, session, runner, stray, History>>

Fallback(p) ==
    /\ work[p].phase = "fallback"
    /\ SettleTaskRun(p, "failed")
    /\ work' = [work EXCEPT ![p] = Idle]
    /\ UNCHANGED <<now, input, session, runner, stray, History, faults>>

LoseFallback(p) ==
    /\ work[p].phase = "fallback"
    /\ work' = [work EXCEPT ![p] = Idle]
    /\ Fault
    /\ UNCHANGED <<Table, runner, stray, History>>

-------------------------------------------------------------------------------
\* External: runs of the session's thread (see RunClaims).

Apply(o) ==
    /\ input[o] = "pending" /\ ~session.fenced /\ ~session.archived
    /\ input' = [input EXCEPT ![o] = "running"]
    /\ UNCHANGED <<now, task, occ, session, Host, History, faults>>

EndRun(o, result) ==
    /\ input[o] = "running"
    /\ input' = [input EXCEPT ![o] = result]
    /\ UNCHANGED <<now, task, occ, session, Host, History, faults>>

-------------------------------------------------------------------------------
\* The session's lifecycle: a run-blocking abort, then one transaction under the
\* thread's exclusive lane.

Fence(request) ==
    /\ session.request = "none" /\ ~session.archived /\ session.requests < MaxRequests
    /\ session' = [session EXCEPT !.fenced = TRUE, !.request = request, !.requests = @ + 1]
    /\ UNCHANGED <<now, task, occ, input, Host, History, faults>>

Exclusive == \A o \in Occurrence : input[o] # "running"

Discarded == [o \in Occurrence |-> IF input[o] = "pending" THEN "discarded" ELSE input[o]]

\* the new thread has no fence
Reset ==
    /\ session.request = "reset" /\ Exclusive
    /\ input' = Discarded
    /\ session' = [session EXCEPT !.fenced = FALSE, !.request = "none"]
    /\ UNCHANGED <<now, task, occ, Host, History, faults>>

\* scheduled_task_runs_lifecycle_check: a terminal row has no claim_token, and
\* the archive's update keeps it
Refused == \E o \in Occurrence : Active(o) /\ occ[o].token # 0

Archive ==
    /\ session.request = "archive" /\ Exclusive
    /\ IF Refused
       THEN /\ refused' = TRUE
            /\ session' = [session EXCEPT !.request = "none"]
            /\ UNCHANGED <<occ, input>>
       ELSE /\ session' = [session EXCEPT !.archived = TRUE, !.request = "none"]
            /\ occ' = [o \in Occurrence |->
                  IF Active(o) THEN [occ[o] EXCEPT !.status = "cancelled"] ELSE occ[o]]
            /\ input' = Discarded
            /\ UNCHANGED refused
    /\ UNCHANGED <<now, task, Host, lost, faults>>

\* a one-shot that was missed is recorded as cancelled
Missed(t) == ~Recurring(t) /\ task[t].runAt <= now

Restored(t) ==
    IF Over(t) \/ ~task[t].enabled THEN task[t]
    ELSE IF Missed(t) THEN [task[t] EXCEPT !.ended = "cancelled", !.next = 0]
    ELSE [task[t] EXCEPT !.next = IF Recurring(t) THEN now + 1 ELSE task[t].runAt]

Restore ==
    /\ session.archived
    /\ session' = [session EXCEPT !.archived = FALSE, !.fenced = FALSE]
    /\ task' = [t \in Task |-> Restored(t)]
    /\ occ' = [o \in Occurrence |->
          IF ~Over(o[1]) /\ task[o[1]].enabled /\ Missed(o[1]) /\ task[o[1]].runAt = o[2]
             /\ occ[o].status = "absent"
          THEN [occ[o] EXCEPT !.status = "cancelled"] ELSE occ[o]]
    /\ UNCHANGED <<now, input, Host, History, faults>>

-------------------------------------------------------------------------------
\* Processes.

Stop(p) ==
    /\ runner[p] = "up"
    /\ runner' = [runner EXCEPT ![p] = "stopping"]
    /\ Fault
    /\ UNCHANGED <<Table, work, stray, History>>

Vanish(p) ==
    /\ runner' = [runner EXCEPT ![p] = "down"]
    /\ work' = [work EXCEPT ![p] = Idle]
    /\ stray' = {s \in stray : s.owner # p}
    /\ UNCHANGED <<Table, History>>

\* its claims are settled, or the shutdown deadline has passed
Exit(p) == runner[p] = "stopping" /\ Vanish(p) /\ UNCHANGED faults

Crash(p) == runner[p] = "up" /\ Vanish(p) /\ Fault

Start(p) ==
    /\ runner[p] = "down"
    /\ runner' = [runner EXCEPT ![p] = "up"]
    /\ UNCHANGED <<Table, work, stray, History, faults>>

-------------------------------------------------------------------------------
\* createTask has stored every definition, due at the first fire time.
Init ==
    /\ now = 0
    /\ \E kind \in [Task -> {"once", "recurring"}] :
         task = [t \in Task |->
            [kind |-> kind[t], enabled |-> TRUE, ended |-> "no", next |-> 1,
             runAt |-> IF kind[t] = "once" THEN 1 ELSE 0]]
    /\ occ = [o \in Occurrence |->
          [status |-> "absent", claims |-> 0, token |-> 0, lapsed |-> FALSE, linked |-> FALSE]]
    /\ input = [o \in Occurrence |-> "none"]
    /\ session = [archived |-> FALSE, fenced |-> FALSE, request |-> "none", requests |-> 0]
    /\ runner = [p \in Runner |-> "up"]
    /\ work = [p \in Runner |-> Idle]
    /\ stray = {}
    /\ lost = {} /\ refused = FALSE
    /\ faults = 0

Drain(p) == ListDue(p) \/ Materialize(p) \/ ClaimTaskRun(p)

Process(p) == Submit(p) \/ Link(p) \/ Wait(p) \/ Record(p) \/ Fallback(p)

LoseAnswer(p) == LoseSubmit(p) \/ LoseLink(p) \/ LoseRecord(p) \/ LoseFallback(p)

Next ==
    \/ Advance
    \/ \E t \in Task :
         \/ Cancel(t)
         \/ \E kind \in {"once", "recurring"}, f \in 1 .. MaxFire + 1, on \in BOOLEAN :
              Update(t, kind, f, on)
    \/ \E p \in Runner :
         \/ Drain(p) \/ Process(p) \/ LoseAnswer(p) \/ LoseClaim(p)
         \/ Stop(p) \/ Exit(p) \/ Crash(p) \/ Start(p)
    \/ \E s \in stray : StraySubmit(s) \/ StrayLink(s)
    \/ \E o \in Occurrence :
         LapseClaim(o) \/ Apply(o) \/ \E result \in {"completed", "failed"} : EndRun(o, result)
    \/ \E request \in {"reset", "archive"} : Fence(request)
    \/ Reset \/ Archive \/ Restore

Fairness ==
    /\ \A p \in Runner :
         /\ SF_vars(ClaimTaskRun(p)) /\ WF_vars(Materialize(p)) /\ WF_vars(Process(p))
         /\ WF_vars(LoseClaim(p) /\ UNCHANGED faults)
         /\ WF_vars(Exit(p)) /\ WF_vars(Start(p))
    /\ \A o \in Occurrence :
         /\ WF_vars(LapseClaim(o) /\ UNCHANGED faults)
         /\ WF_vars(Apply(o)) /\ WF_vars(\E result \in {"completed", "failed"} : EndRun(o, result))
    /\ WF_vars(Reset) /\ WF_vars(Archive)

Spec == Init /\ [][Next]_vars

FairSpec == Spec /\ Fairness
-------------------------------------------------------------------------------
\* Properties.

Unended == {"absent", "pending", "claimed", "running"}
Ended == {"succeeded", "failed", "cancelled"}

TaskType == [kind : {"once", "recurring"}, enabled : BOOLEAN,
             ended : {"no", "completed", "cancelled"},
             next : 0 .. MaxFire + 1, runAt : 0 .. MaxFire + 1]

OccType == [status : Unended \cup Ended, claims : Nat, token : Nat,
            lapsed : BOOLEAN, linked : BOOLEAN]

SessionType == [archived : BOOLEAN, fenced : BOOLEAN, request : {"none", "reset", "archive"},
                requests : 0 .. MaxRequests]

WorkType == [phase : {"idle", "listed", "submit", "link", "wait", "record", "fallback"},
             occ : Occurrence \cup {None}, next : 0 .. MaxFire + 1,
             token : Nat, result : {None, "completed", "failed"}]

StrayType == [owner : Runner \cup {None}, occ : Occurrence, token : Nat,
              phase : {"submit", "link"}]

\* Every variable holds values of its kind, and a row's columns agree with its
\* status as the table's lifecycle check demands.
TypeOK ==
    /\ now \in 0 .. MaxFire
    /\ task \in [Task -> TaskType]
    /\ occ \in [Occurrence -> OccType]
    /\ \A o \in Occurrence : occ[o].token # 0 <=> occ[o].status \in {"claimed", "running"}
    /\ input \in [Occurrence ->
                    {"none", "pending", "running", "completed", "failed", "discarded"}]
    /\ session \in SessionType
    /\ runner \in [Runner -> {"up", "stopping", "down"}]
    /\ work \in [Runner -> WorkType]
    /\ stray \subseteq StrayType
    /\ lost \subseteq Occurrence /\ refused \in BOOLEAN
    /\ faults \in 0 .. MaxFaults

Settled(o) == occ[o].status \in Ended

\* An ended occurrence tells what became of its input: it succeeded with the run
\* that applied the input, it failed with that run or without any execution, and
\* a cancelled one never executes. The exception is a submission whose answer was
\* lost: it may commit after the failure was recorded (postgres.ts:849-931).
EndsTruthfully ==
    \A o \in Occurrence :
        /\ occ[o].status = "succeeded" => input[o] = "completed"
        /\ occ[o].status = "failed" => input[o] \in {"none", "discarded", "failed"} \/ o \in lost
        /\ occ[o].status = "cancelled" => input[o] \in {"none", "discarded"}

\* An occurrence comes from an enabled, unfinished definition of a live session
\* at the fire time it is due, and no other occurrence of the definition is
\* active; a fire time passes only with an occurrence, or with an update or a
\* restore that schedules the next one from now on (postgres.ts:587-680), however
\* old the list of due tasks is that a runner works from.
FiresOnSchedule ==
    [][\A t \in Task, f \in Fire :
          /\ occ[<<t, f>>].status = "absent" /\ occ'[<<t, f>>].status = "pending"
             => Ready(t) /\ task[t].next = f /\ f <= now
          /\ Recurring(t) /\ task'[t].kind = "recurring"
             /\ task[t].next = f /\ task'[t].next > f
             => occ'[<<t, f>>].status # "absent" \/ task'[t].next = now + 1]_vars

\* A claim is settled by its holder alone: an occurrence that ends in success or
\* failure was claimed last by the runner that says so, and that claim has not
\* run out (docs/developers/sessions.md:262-276).
OnlyHolderSettles ==
    [][\A o \in Occurrence :
          occ'[o].status \in {"succeeded", "failed"} /\ ~Settled(o)
          => \E p \in Runner :
                /\ work[p].occ = o /\ work'[p] # work[p]
                /\ work[p].token = occ[o].claims /\ ~occ[o].lapsed]_vars

\* Every occurrence ends, through crashes, stops, lost answers, lost claims and
\* resets, unless an archive of its session was refused: that leaves the thread
\* fenced, and an input waiting behind the fence (see ArchiveCancelsOccurrences).
EveryOccurrenceSettles ==
    \A o \in Occurrence : Active(o) ~> Settled(o) \/ refused

\* Archiving cancels pending, claimed or running scheduled occurrences
\* (docs/developers/sessions.md:140): the transaction of archive.ts:137-147 is not
\* refused by the table's lifecycle check.
ArchiveCancelsOccurrences == ~refused
===============================================================================
