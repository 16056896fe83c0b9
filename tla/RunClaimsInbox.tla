---------------------------- MODULE RunClaimsInbox ----------------------------
(***************************************************************************)
(* Safety theorems about RunClaims: the inbox prefix a run owns and the    *)
(* wake latch.  What a statement in flight has read may be overtaken by    *)
(* other writers before it commits; Sound says what is left of it.         *)
(***************************************************************************)
EXTENDS RunClaimsSafety, FiniteSetTheorems

\* Program counters only an attempt whose row exists can have.
Holding == {"unstarted", "apply", "applying", "prepare", "step", "boundary",
            "bounding", "complete", "failing"}

RowsMatchAttempts ==
  \A r \in Runs :
    /\ run[r].status # "absent" =>
         run[r].thread = attempt[r].thread /\ run[r].owner = attempt[r].daemon
    /\ attempt[r].pc = "idle" =>
         run[r].status = "absent" /\ stmt[r] = NoSnapshot /\ late[r] = NoSnapshot
    /\ attempt[r].pc \in Holding => run[r].status # "absent"

KnownThreads ==
  /\ current \in used
  /\ \A r \in Runs : attempt[r].thread \in used
  /\ \A o \in Orders : input[o].thread \in used

Present == {o \in Orders : input[o].status # "absent"}

\* The input is pending and a wake has covered it.
Waiting(o) == input[o].status = "pending" /\ input[o].wake \in {"owed", "renewed"}

\* A snapshot s of thread t's inbox, read by a statement not yet committed.
Sound(s, t) ==
  /\ s.pending \subseteq Present
  /\ s.wake <= generation
  /\ s.wake # 0 /\ s.wake = generation /\ t = current =>
       \A o \in Pending(t) : Waiting(o) => o \in s.pending
  /\ \A o \in Pending(t) \ s.pending, p \in s.pending : o > p

SnapshotsSound ==
  \A r \in Runs : Sound(stmt[r], attempt[r].thread) /\ Sound(late[r], attempt[r].thread)

CutoffPresent == \A r \in Runs : run[r].cutoff \in Present \cup {0}

\* What a boundary in flight has not seen lies beyond the run's prefix, and
\* a run that is about to complete has emptied its prefix.
PrefixDrained ==
  \A r \in Runs :
    /\ attempt[r].pc = "bounding" =>
         \A o \in Pending(attempt[r].thread) \ stmt[r].pending : o > run[r].cutoff
    /\ attempt[r].pc = "complete" =>
         \A o \in Pending(attempt[r].thread) : o > run[r].cutoff

InboxInv ==
  /\ TypeOK /\ RunningOnlyWhereAllowed
  /\ RowsMatchAttempts /\ KnownThreads /\ SnapshotsSound /\ CutoffPresent /\ PrefixDrained

----------------------------------------------------------------------------
(* What a step does to the inbox.                                          *)

StatusKept(o) ==
  /\ input'[o].thread = input[o].thread
  /\ input'[o].status = "absent" <=> input[o].status = "absent"
  /\ input'[o].status = "pending" => input[o].status = "pending"

Enqueued(o) ==
  /\ \A q \in Orders : input[q].status # "absent" <=> q < o
  /\ input'[o].status = "pending" /\ input'[o].thread = current
  /\ \A q \in Orders \ {o} : StatusKept(q)

LEMMA WokenRow ==
  ASSUME NEW inputs \in [Orders -> InputRow]
  PROVE  \A o \in Orders : /\ Woken(inputs)[o].status = inputs[o].status
                           /\ Woken(inputs)[o].thread = inputs[o].thread
<1>1. \A o \in Orders, w \in Owed : /\ [inputs[o] EXCEPT !.wake = w].status = inputs[o].status
                                    /\ [inputs[o] EXCEPT !.wake = w].thread = inputs[o].thread
  BY DEF InputRow
<1>. QED BY <1>1 DEF Woken, Owed

LEMMA DormantRow ==
  ASSUME TypeOK, NEW r \in Runs
  PROVE  \A o \in Orders : /\ Dormant(r)[o].status = input[o].status
                           /\ Dormant(r)[o].thread = input[o].thread
                           /\ Dormant(r)[o].wake \in {"owed", "renewed"} =>
                                Dormant(r)[o].wake = input[o].wake
<1>0. \A o \in Orders : input[o] \in InputRow
  BY TypeParts DEF Typed, WakeTyped
<1>1. \A w : \A o \in Orders : /\ [input[o] EXCEPT !.wake = w].status = input[o].status
                               /\ [input[o] EXCEPT !.wake = w].thread = input[o].thread
                               /\ [input[o] EXCEPT !.wake = w].wake = w
  BY <1>0 DEF InputRow
<1>2. \A w : Forgotten(w) \in {"owed", "renewed"} => Forgotten(w) = w
  BY DEF Forgotten
<1>. QED BY <1>1, <1>2 DEF Dormant

\* The inputs of a run that ends keep their status.
LEMMA EndInput ==
  ASSUME TypeOK, NEW r \in Runs,
         CompleteRun(r) \/ \E force \in BOOLEAN : FailRun(r, force)
  PROVE  /\ \A o \in Orders : StatusKept(o)
         /\ \/ generation' = generation + 1 /\ armed' = TRUE
            \/ generation' = generation /\ \A o \in Orders : Waiting(o)' => Waiting(o)
<1>0. input \in [Orders -> InputRow]
  BY TypeParts DEF Typed, WakeTyped
<1>1. CASE Arm(input)
  BY <1>0, <1>1, WokenRow DEF Arm, StatusKept
<1>2. CASE input' = Dormant(r) /\ generation' = generation
  BY <1>2, DormantRow DEF StatusKept, Waiting
<1>. QED BY <1>1, <1>2 DEF CompleteRun, FailRun

LEMMA ArmInput ==
  ASSUME TypeOK, Arm(input)
  PROVE  (\A o \in Orders : StatusKept(o)) /\ generation' = generation + 1 /\ armed' = TRUE
  BY TypeParts, WokenRow DEF Typed, WakeTyped, Arm, StatusKept

\* An input that is not new keeps its place, and unless the step is a wake
\* (which bumps the generation) no input starts waiting for one.
Same == /\ \A o \in Orders : StatusKept(o)
        /\ generation' = generation
        /\ \A o \in Orders : Waiting(o)' => Waiting(o)
Woke == (\A o \in Orders : StatusKept(o)) /\ generation' = generation + 1 /\ armed' = TRUE

LEMMA InputEffect ==
  ASSUME TypeOK, [Next]_vars
  PROVE  /\ (\A o \in Orders : StatusKept(o)) \/ \E o \in Orders : Enqueued(o)
         /\ \/ generation' = generation + 1 /\ armed' = TRUE
            \/ generation' = generation /\ \A o \in Orders : Waiting(o)' => Waiting(o)
<1>. USE DEF leaseVars, sessionVars, wakeVars, attemptVars
<1>0. input \in [Orders -> InputRow]
  BY TypeParts DEF Typed, WakeTyped
<1>1. UNCHANGED <<generation, input>> => Same
  BY DEF StatusKept, Waiting, Same
<1>2. Arm(input) => Woke
  BY ArmInput DEF Woke
<1>3. ASSUME NEW r \in Runs, CompleteRun(r) \/ \E force \in BOOLEAN : FailRun(r, force)
      PROVE  Same \/ Woke
  BY <1>3, EndInput DEF Same, Woke
<1>4. ASSUME NEW S, NEW status \in {"applied", "discarded"}, generation' = generation,
             input' = [o \in Orders |-> IF o \in S
                         THEN [input[o] EXCEPT !.status = status] ELSE input[o]],
             \A o \in Orders : o \in S => input[o].status = "pending"
      PROVE  Same
  <2>1. \A o \in Orders : /\ [input[o] EXCEPT !.status = status].status = status
                          /\ [input[o] EXCEPT !.status = status].thread = input[o].thread
                          /\ [input[o] EXCEPT !.status = status].wake = input[o].wake
    BY <1>0 DEF InputRow
  <2>. QED BY <1>4, <2>1 DEF StatusKept, Waiting, Same
<1>5. CASE ClaimStep
  <2>1. Same
    BY <1>1, <1>5 DEF ClaimStep, Admit, SendClaim, CommitClaim, LoseClaim, CommitLateClaim, Reread
  <2>. QED BY <2>1 DEF Same
<1>6. CASE DaemonStep
  <2>1. ASSUME NEW d \in Daemons, NEW r \in Runs, RecoverOrphan(d, r) PROVE Same \/ Woke
    BY <1>3, <2>1 DEF RecoverOrphan
  <2>2. Same \/ Woke
    BY <1>1, <1>6, <2>1
       DEF DaemonStep, Expire, Start, Stop, Exit, Release, FinishRecovery
  <2>. QED BY <2>2 DEF Same, Woke
<1>7. CASE WakeStep
  <2>1. ASSUME NEW o \in Orders, NEW mode \in {"wake", "queue"}, Enqueue(o, mode)
        PROVE  /\ Enqueued(o)
               /\ \/ generation' = generation + 1 /\ armed' = TRUE
                  \/ generation' = generation /\ \A q \in Orders : Waiting(q)' => Waiting(q)
    <3>. DEFINE inputs == [input EXCEPT ![o] = [status |-> "pending", thread |-> current, wake |-> "none"]]
    <3>1. inputs \in [Orders -> InputRow]
      BY <1>0, TypeParts DEF Typed, SessionTyped, InputRow, Owed
    <3>2. \/ Arm(inputs)
          \/ input' = inputs /\ UNCHANGED <<armed, generation>>
      BY <2>1 DEF Enqueue
    <3>3. \A q \in Orders : /\ input'[q].status = inputs[q].status
                            /\ input'[q].thread = inputs[q].thread
      BY <3>1, <3>2, WokenRow DEF Arm
    <3>4. Enqueued(o)
      BY <1>0, <2>1, <3>3 DEF Enqueue, Enqueued, StatusKept
    <3>5. CASE Arm(inputs)
      BY <3>4, <3>5 DEF Arm
    <3>6. CASE input' = inputs /\ generation' = generation
      BY <1>0, <3>4, <3>6 DEF Waiting
    <3>. QED BY <3>2, <3>5, <3>6
  <2>2. CASE Woke
    BY <2>2 DEF Woke
  <2>. QED BY <1>2, <1>7, <2>1, <2>2 DEF WakeStep, ResolveDuplicate, RequestWake, Flush
<1>8. CASE ExecutorStep
  <2>1. ASSUME NEW r \in Runs, CommitApply(r) PROVE Same
    <3>1. CASE UNCHANGED input
      BY <1>1, <2>1, <3>1 DEF CommitApply
    <3>2. CASE LockedActiveRun(r)
      <4>1. PICK n \in Orders \cup {0} :
              input' = [o \in Orders |->
                          IF o \in FirstPage({q \in stmt[r].pending \cap Pending(attempt[r].thread) : q <= n})
                          THEN [input[o] EXCEPT !.status = "applied"] ELSE input[o]]
        BY <2>1, <3>2 DEF CommitApply
      <4>. QED BY <1>4, <2>1, <4>1 DEF CommitApply, FirstPage, Pending
    <3>. QED BY <2>1, <3>1, <3>2 DEF CommitApply
  <2>2. ASSUME NEW r \in Runs, Complete(r) \/ Fail(r) \/ FailBeforeExecution(r) PROVE Same \/ Woke
    <3>1. \/ UNCHANGED <<generation, input>>
          \/ CompleteRun(r) \/ \E force \in BOOLEAN : FailRun(r, force)
      BY <2>2 DEF Complete, Fail, FailBeforeExecution, Settle
    <3>. QED BY <1>1, <1>3, <3>1
  <2>3. Same \/ Woke
    BY <1>1, <1>2, <1>8, <2>1, <2>2
       DEF ExecutorStep, SendApply, SendBoundary, SendGuarded, SettleCompaction, Prepare,
           RequestCompaction, Step, Throw, CommitBoundary
  <2>. QED BY <2>3 DEF Same, Woke
<1>9. CASE ControlStep
  <2>1. ASSUME input' = Discarded, generation' = generation PROVE Same
    <3>1. \A o \in Orders : o \in Pending(current) => input[o].status = "pending"
      BY DEF Pending
    <3>2. input' = [o \in Orders |-> IF o \in Pending(current)
                      THEN [input[o] EXCEPT !.status = "discarded"] ELSE input[o]]
      BY <2>1 DEF Discarded
    <3>. QED BY <1>4, <2>1, <3>1, <3>2
  <2>2. Same
    BY <1>1, <1>9, <2>1
       DEF ControlStep, AbortDirect, ObserveAbort, RecordAbort, ReconcileAbort, Reset,
           Archive, Restore
  <2>. QED BY <2>2 DEF Same
<1>10. CASE UNCHANGED vars
  BY <1>1, <1>10 DEF vars, Same
<1>. QED BY <1>5, <1>6, <1>7, <1>8, <1>9, <1>10 DEF Next

----------------------------------------------------------------------------
(* What a step does to an attempt, its statements and its cutoff.          *)

Placed(r) == attempt'[r].thread = attempt[r].thread /\ attempt'[r].daemon = attempt[r].daemon

\* The row may end or be aborted; nothing else of it moves.
Kept(r) ==
  /\ Placed(r)
  /\ attempt'[r].pc = "idle" => attempt[r].pc = "idle"
  /\ stmt'[r] \in {stmt[r], NoSnapshot} /\ late'[r] \in {late[r], stmt[r], NoSnapshot}
  /\ run'[r].cutoff = run[r].cutoff
  /\ attempt'[r].pc = "bounding" => attempt[r].pc = "bounding" /\ stmt'[r] = stmt[r]
  /\ attempt'[r].pc = "complete" => attempt[r].pc = "complete"
  /\ attempt'[r].pc \in Holding => attempt[r].pc \in Holding \/ run[r].status # "absent"

Inserted(r) ==
  /\ Placed(r)
  /\ attempt[r].pc = "claiming" \/ late[r] # NoSnapshot
  /\ attempt'[r].pc \in {attempt[r].pc, "unstarted", "apply", "over"}
  /\ stmt'[r] \in {stmt[r], NoSnapshot} /\ late'[r] \in {late[r], NoSnapshot}
  /\ run[r].status = "absent" /\ run'[r].status # "absent"
  /\ run'[r].thread = attempt[r].thread /\ run'[r].owner = attempt[r].daemon
  /\ run'[r].cutoff \in stmt[r].pending \cup late[r].pending \cup {0}

Extended(r) ==
  /\ Placed(r)
  /\ LockedActiveRun(r) /\ attempt[r].pc \in {"applying", "bounding"}
  /\ attempt'[r].pc \notin {"idle", "bounding"}
  /\ stmt'[r] = NoSnapshot /\ late'[r] = late[r]
  /\ ExtendedCutoff(run'[r].cutoff, r, stmt[r])
  /\ attempt'[r].pc = "complete" =>
       /\ attempt[r].pc = "bounding" /\ UNCHANGED input
       /\ stmt[r].wake = 0
       /\ \A o \in stmt[r].pending : o > run'[r].cutoff

Snapped(r) ==
  /\ Placed(r)
  /\ attempt[r].pc # "idle" /\ attempt'[r].pc \notin {"idle", "complete"}
  /\ attempt'[r].pc \in Holding => attempt[r].pc \in Holding \/ run[r].status # "absent"
  /\ late'[r] = late[r]
  /\ stmt'[r].wake \in {0, generation} /\ stmt'[r].pending = Pending(attempt[r].thread)
  /\ UNCHANGED <<wakeVars, sessionVars, run>>

Admitted(r) ==
  /\ attempt[r].pc = "idle" /\ attempt'[r].pc = "admitting"
  /\ attempt'[r].thread \in used
  /\ UNCHANGED <<wakeVars, sessionVars, run, stmt, late>>

Moved(r) == Kept(r) \/ Inserted(r) \/ Extended(r) \/ Snapped(r) \/ Admitted(r)

LEMMA GotoEffect ==
  ASSUME TypeOK, NEW q \in Runs, NEW pc, Goto(q, pc)
  PROVE  /\ \A r \in Runs : Placed(r)
         /\ \A r \in Runs \ {q} : attempt'[r].pc = attempt[r].pc
         /\ attempt'[q].pc \in {pc, "over"}
<1>1. attempt \in [Runs -> AttemptRow]
  BY TypeParts DEF Typed, AttemptTyped
<1>2. PICK goal \in {pc, "over"} : attempt' = [attempt EXCEPT ![q].pc = goal]
  BY Zenon DEF Goto
<1>. QED BY <1>1, <1>2 DEF AttemptRow, Placed

\* An attempt the step does not touch.
LEMMA OtherKept ==
  ASSUME NEW r \in Runs, Placed(r), attempt'[r].pc = attempt[r].pc,
         stmt'[r] = stmt[r], late'[r] = late[r], run'[r].cutoff = run[r].cutoff
  PROVE  Kept(r)
  BY DEF Kept

LEMMA CutoffKept ==
  ASSUME TypeOK
  PROVE  /\ \A q \in Runs, status \in {"completed", "failed"} :
              EndedRun(q, status) => \A r \in Runs : run'[r].cutoff = run[r].cutoff
         /\ \A runs : run' = Aborted(runs) => \A r \in Runs : run'[r].cutoff = run[r].cutoff
<1>0. run \in [Runs -> RunRow]
  BY TypeParts DEF Typed, RunTyped
<1>1. ASSUME NEW q \in Runs, NEW status \in {"completed", "failed"}, EndedRun(q, status)
      PROVE  \A r \in Runs : run'[r].cutoff = run[r].cutoff
  BY <1>0, <1>1 DEF EndedRun, RunRow
<1>2. ASSUME NEW runs, run' = Aborted(runs) PROVE \A r \in Runs : run'[r].cutoff = run[r].cutoff
  <2>1. \A r \in Runs : run'[r] = [run[r] EXCEPT !.abort = run[r].abort \/ r \in runs]
    BY <1>2 DEF Aborted
  <2>. QED BY <1>0, <2>1 DEF RunRow
<1>. QED BY <1>1, <1>2

LEMMA EndCutoff ==
  ASSUME TypeOK, NEW q \in Runs, CompleteRun(q) \/ \E force \in BOOLEAN : FailRun(q, force)
  PROVE  \A r \in Runs : run'[r].cutoff = run[r].cutoff
<1>1. \E status \in {"completed", "failed"} : EndedRun(q, status)
  BY DEF CompleteRun, FailRun
<1>. QED BY <1>1, CutoffKept

LEMMA InsertedEffect ==
  ASSUME TypeOK, NEW q \in Runs, NEW s \in SnapshotType, InsertRun(q, s)
  PROVE  /\ run'[q].cutoff \in s.pending \cup {0}
         /\ run'[q].status = "running"
         /\ run'[q].thread = attempt[q].thread /\ run'[q].owner = attempt[q].daemon
         /\ \A r \in Runs \ {q} : run'[r] = run[r]
  BY TypeParts DEF Typed, RunTyped, InsertRun, IsGreatest

LEMMA ClaimMoves ==
  ASSUME TypeOK, ClaimStep, NEW r \in Runs PROVE Moved(r)
<1>. USE DEF leaseVars, sessionVars, wakeVars, attemptVars
<1>0. /\ attempt \in [Runs -> AttemptRow]
      /\ stmt \in [Runs -> SnapshotType] /\ late \in [Runs -> SnapshotType]
  BY TypeParts DEF Typed, AttemptTyped
<1>1. ASSUME NEW d \in Daemons, NEW t \in Threads, NEW q \in Runs, Admit(d, t, q)
      PROVE  Moved(r)
  <2>1. CASE r = q
    BY <1>0, <1>1, <2>1 DEF Admit, Admitted, Moved
  <2>2. CASE r # q
    BY <1>0, <1>1, <2>2, OtherKept DEF Admit, Placed, Moved
  <2>. QED BY <2>1, <2>2
<1>2. ASSUME NEW q \in Runs, SendClaim(q) PROVE Moved(r)
  <2>1. PICK pc \in {"unstarted", "apply", "claiming", "rereading"}, drain \in BOOLEAN :
          /\ attempt' = [attempt EXCEPT ![q] = [pc |-> pc, daemon |-> attempt[q].daemon,
                                                thread |-> attempt[q].thread, drain |-> drain]]
          /\ UNCHANGED <<wakeVars, sessionVars, run, late>>
          /\ attempt[q].pc \in {"admitting", "retrying"}
          /\ \/ UNCHANGED stmt /\ (pc \in {"unstarted", "apply"} => run[q].status # "absent")
                 /\ pc # "claiming"
             \/ pc = "claiming" /\ stmt' = [stmt EXCEPT ![q] = Snapshot(attempt[q].thread, TRUE)]
    BY <1>2, Zenon DEF SendClaim, Claimed, Recoverable, ActiveRun
  <2>2. CASE r # q
    BY <1>0, <2>1, <2>2, OtherKept DEF Placed, Moved
  <2>3. CASE r = q /\ UNCHANGED stmt
    BY <1>0, <2>1, <2>3 DEF Placed, Kept, Moved, Holding
  <2>4. CASE r = q /\ stmt' = [stmt EXCEPT ![q] = Snapshot(attempt[q].thread, TRUE)] /\ pc = "claiming"
    BY <1>0, <2>1, <2>4 DEF Placed, Snapped, Moved, Holding, Snapshot
  <2>. QED BY <2>1, <2>2, <2>3, <2>4
<1>3. ASSUME NEW q \in Runs, CommitClaim(q) PROVE Moved(r)
  <2>1. PICK pc \in {"unstarted", "apply", "rereading"} : Goto(q, pc)
    BY <1>3, Zenon DEF CommitClaim, Claimed
  <2>2. CASE r # q
    BY <1>0, <1>3, <2>1, <2>2, GotoEffect, InsertedEffect, OtherKept DEF CommitClaim, Moved
  <2>3. CASE r = q /\ Insertable(q) /\ InsertRun(q, stmt[q]) /\ Goto(q, Claimed(attempt[q].drain))
    <3>1. attempt'[q].pc \in {"unstarted", "apply", "over"} /\ Placed(q)
      BY <2>3, GotoEffect DEF Claimed
    <3>. QED BY <1>0, <1>3, <2>3, <3>1, InsertedEffect DEF CommitClaim, Insertable, Inserted, Moved
  <2>4. CASE r = q /\ Goto(q, "rereading") /\ UNCHANGED run
    BY <1>0, <1>3, <2>4, GotoEffect DEF CommitClaim, Kept, Moved, Holding
  <2>. QED BY <1>3, <2>2, <2>3, <2>4 DEF CommitClaim
<1>4. ASSUME NEW q \in Runs, LoseClaim(q) PROVE Moved(r)
  <2>1. CASE r # q
    BY <1>0, <1>4, <2>1, GotoEffect, OtherKept DEF LoseClaim, Moved
  <2>2. CASE r = q
    BY <1>0, <1>4, <2>2, GotoEffect DEF LoseClaim, Kept, Moved, Holding
  <2>. QED BY <2>1, <2>2
<1>5. ASSUME NEW q \in Runs, CommitLateClaim(q) PROVE Moved(r)
  <2>1. CASE r # q
    BY <1>0, <1>5, <2>1, InsertedEffect, OtherKept DEF CommitLateClaim, Placed, Moved
  <2>2. CASE r = q /\ Insertable(q) /\ InsertRun(q, late[q])
    BY <1>0, <1>5, <2>2, InsertedEffect DEF CommitLateClaim, Insertable, Placed, Inserted, Moved
  <2>3. CASE r = q /\ UNCHANGED run
    BY <1>0, <1>5, <2>3 DEF CommitLateClaim, Placed, Kept, Moved
  <2>. QED BY <1>5, <2>1, <2>2, <2>3 DEF CommitLateClaim
<1>6. ASSUME NEW q \in Runs, Reread(q) PROVE Moved(r)
  <2>1. PICK pc \in {"unstarted", "apply", "over", "retrying"} :
          Goto(q, pc) /\ (pc \in {"unstarted", "apply"} => run[q].status # "absent")
    BY <1>6, Zenon DEF Reread, Claimed, Recoverable, ActiveRun
  <2>2. CASE r # q
    BY <1>0, <1>6, <2>1, <2>2, GotoEffect, OtherKept DEF Reread, Moved
  <2>3. CASE r = q
    BY <1>0, <1>6, <2>1, <2>3, GotoEffect DEF Reread, Kept, Moved, Holding
  <2>. QED BY <2>2, <2>3
<1>. QED BY <1>1, <1>2, <1>3, <1>4, <1>5, <1>6 DEF ClaimStep

LEMMA ExecutorMoves ==
  ASSUME TypeOK, ExecutorStep, NEW r \in Runs PROVE Moved(r)
<1>. USE DEF leaseVars, sessionVars, wakeVars, attemptVars
<1>0. /\ attempt \in [Runs -> AttemptRow] /\ run \in [Runs -> RunRow]
      /\ stmt \in [Runs -> SnapshotType] /\ late \in [Runs -> SnapshotType]
  BY TypeParts DEF Typed, AttemptTyped, RunTyped
<1>1. ASSUME NEW q \in Runs, NEW from \in {"apply", "boundary"}, NEW to \in {"applying", "bounding"},
             NEW observed \in BOOLEAN, SendGuarded(q, from, to, observed)
      PROVE  Moved(r)
  <2>1. CASE r # q
    <3>1. PICK pc \in {"applying", "bounding", "over"} : Goto(q, pc)
      BY <1>1, Zenon DEF SendGuarded
    <3>2. stmt'[r] = stmt[r]
      BY <1>0, <1>1, <2>1, Zenon DEF SendGuarded
    <3>. QED BY <1>1, <2>1, <3>1, <3>2, GotoEffect, OtherKept DEF SendGuarded, Moved
  <2>2. CASE r = q /\ UNCHANGED stmt /\ Goto(q, "over")
    BY <1>1, <2>2, GotoEffect DEF SendGuarded, Kept, Moved, Holding
  <2>3. CASE r = q /\ Goto(q, to) /\ stmt' = [stmt EXCEPT ![q] = Snapshot(attempt[q].thread, observed)]
    <3>1. /\ Placed(q)
          /\ attempt'[q].pc \in {to, "over"}
      BY <2>3, GotoEffect
    <3>2. stmt'[q].wake \in {0, generation} /\ stmt'[q].pending = Pending(attempt[q].thread)
      BY <1>0, <2>3 DEF Snapshot
    <3>. QED BY <1>1, <2>3, <3>1, <3>2 DEF SendGuarded, Snapped, Moved, Holding
  <2>. QED BY <1>1, <2>1, <2>2, <2>3 DEF SendGuarded
<1>2. ASSUME NEW q \in Runs, SendApply(q) \/ SendBoundary(q) PROVE Moved(r)
  <2>1. armed \in BOOLEAN /\ (armed /\ current = attempt[q].thread /\ ~archived) \in BOOLEAN
    BY TypeParts DEF Typed, WakeTyped
  <2>. QED BY <1>1, <1>2, <2>1 DEF SendApply, SendBoundary
<1>3. ASSUME NEW q \in Runs, CommitApply(q) \/ CommitBoundary(q), ~LockedActiveRun(q)
      PROVE  Moved(r)
  <2>1. /\ Goto(q, "over") /\ UNCHANGED <<run, late>>
        /\ stmt' = [stmt EXCEPT ![q] = NoSnapshot]
    BY <1>3 DEF CommitApply, CommitBoundary
  <2>2. CASE r # q
    BY <1>0, <2>1, <2>2, GotoEffect, OtherKept DEF Moved
  <2>3. CASE r = q
    BY <1>0, <2>1, <2>3, GotoEffect DEF Kept, Moved, Holding
  <2>. QED BY <2>2, <2>3
<1>4. ASSUME NEW q \in Runs, CommitApply(q) \/ CommitBoundary(q), LockedActiveRun(q)
      PROVE  Moved(r)
  <2>1. PICK n \in Orders \cup {0}, pc \in {"prepare", "failing", "apply", "complete"} :
          /\ ExtendedCutoff(n, q, stmt[q])
          /\ run' = [run EXCEPT ![q].cutoff = n]
          /\ Goto(q, pc) /\ UNCHANGED late
          /\ stmt' = [stmt EXCEPT ![q] = NoSnapshot]
          /\ pc = "complete" => /\ attempt[q].pc = "bounding" /\ UNCHANGED input
                                /\ stmt[q].wake = 0 /\ \A o \in stmt[q].pending : o > n
    BY <1>4 DEF CommitApply, CommitBoundary
  <2>2. CASE r # q
    BY <1>0, <2>1, <2>2, GotoEffect, OtherKept DEF Moved
  <2>3. CASE r = q
    <3>1. run'[q].cutoff = n
      BY <1>0, <2>1 DEF RunRow
    <3>2. attempt[q].pc \in {"applying", "bounding"}
      BY <1>4 DEF CommitApply, CommitBoundary
    <3>. QED BY <1>0, <1>4, <2>1, <2>3, <3>1, <3>2, GotoEffect DEF Extended, Moved
  <2>. QED BY <2>2, <2>3
<1>5. ASSUME NEW q \in Runs, SettleCompaction(q) \/ Prepare(q) \/ Step(q) PROVE Moved(r)
  <2>1. PICK pc \in {"apply", "over", "step", "boundary"} : Goto(q, pc)
    BY <1>5 DEF SettleCompaction, Prepare, Step
  <2>2. /\ attempt[q].pc \in Holding
        /\ UNCHANGED <<run, stmt, late>>
    BY <1>5 DEF SettleCompaction, Prepare, Step, Holding
  <2>. QED BY <2>1, <2>2, GotoEffect DEF Kept, Moved, Holding
<1>6. ASSUME NEW q \in Runs, RequestCompaction(q) PROVE Moved(r)
  BY <1>6 DEF RequestCompaction, Placed, Kept, Moved
<1>7. ASSUME NEW q \in Runs, Throw(q) PROVE Moved(r)
  <2>1. CASE r # q
    BY <1>0, <1>7, <2>1, GotoEffect, OtherKept DEF Throw, Moved
  <2>2. CASE r = q
    BY <1>0, <1>7, <2>2, GotoEffect DEF Throw, Kept, Moved, Holding
  <2>. QED BY <2>1, <2>2
<1>8. ASSUME NEW q \in Runs, Complete(q) \/ Fail(q) \/ FailBeforeExecution(q) PROVE Moved(r)
  <2>1. /\ Goto(q, "over") /\ UNCHANGED <<stmt, late>>
        /\ \/ UNCHANGED run
           \/ CompleteRun(q) \/ \E force \in BOOLEAN : FailRun(q, force)
    BY <1>8 DEF Complete, Fail, FailBeforeExecution, Settle
  <2>2. run'[r].cutoff = run[r].cutoff
    BY <2>1, EndCutoff
  <2>. QED BY <2>1, <2>2, GotoEffect DEF Kept, Moved, Holding
<1>. QED BY <1>2, <1>3, <1>4, <1>5, <1>6, <1>7, <1>8 DEF ExecutorStep

LEMMA Moves ==
  ASSUME TypeOK, [Next]_vars, NEW r \in Runs PROVE Moved(r)
<1>. USE DEF leaseVars, sessionVars, wakeVars, attemptVars
<1>0. attempt \in [Runs -> AttemptRow]
  BY TypeParts DEF Typed, AttemptTyped
<1>1. ASSUME UNCHANGED attemptVars, run'[r].cutoff = run[r].cutoff PROVE Moved(r)
  BY <1>1, OtherKept DEF Placed, Moved
<1>2. CASE DaemonStep
  <2>1. ASSUME NEW d \in Daemons, Exit(d) PROVE Moved(r)
    <3>1. attempt'[r] = attempt[r] \/ attempt'[r] = [attempt[r] EXCEPT !.pc = "over"]
      BY <2>1 DEF Exit
    <3>2. Placed(r) /\ attempt'[r].pc \in {attempt[r].pc, "over"}
      BY <1>0, <3>1 DEF AttemptRow, Placed
    <3>. QED BY <2>1, <3>2 DEF Exit, Kept, Moved, Holding
  <2>2. ASSUME NEW d \in Daemons, NEW q \in Runs, RecoverOrphan(d, q) PROVE Moved(r)
    BY <1>1, <2>2, EndCutoff DEF RecoverOrphan
  <2>. QED BY <1>1, <1>2, <2>1, <2>2 DEF DaemonStep, Expire, Start, Stop, Release, FinishRecovery
<1>3. CASE WakeStep
  BY <1>1, <1>3 DEF WakeStep, Enqueue, ResolveDuplicate, RequestWake, Flush
<1>4. CASE ControlStep
  <2>1. UNCHANGED attemptVars /\ (UNCHANGED run \/ \E runs : run' = Aborted(runs))
    BY <1>4, Zenon
       DEF ControlStep, AbortDirect, ObserveAbort, RecordAbort, ReconcileAbort, Reset,
           Archive, Restore
  <2>. QED BY <1>1, <2>1, CutoffKept
<1>5. CASE UNCHANGED vars
  BY <1>1, <1>5 DEF vars
<1>. QED BY <1>2, <1>3, <1>4, <1>5, ClaimMoves, ExecutorMoves DEF Next

----------------------------------------------------------------------------
(* The strengthening, one lemma per part.                                  *)

LEMMA CurrentEffect ==
  ASSUME [Next]_vars
  PROVE  /\ used \subseteq used'
         /\ current' = current \/ (current' \notin used /\ current' \in used')
<1>. USE DEF leaseVars, sessionVars, wakeVars, attemptVars
<1>1. CASE ClaimStep
  BY <1>1 DEF ClaimStep, Admit, SendClaim, CommitClaim, LoseClaim, CommitLateClaim, Reread
<1>2. CASE DaemonStep
  BY <1>2 DEF DaemonStep, Expire, Start, Stop, Exit, Release, FinishRecovery, RecoverOrphan
<1>3. CASE WakeStep
  BY <1>3 DEF WakeStep, Enqueue, ResolveDuplicate, RequestWake, Flush
<1>4. CASE ExecutorStep
  BY <1>4
     DEF ExecutorStep, SendApply, SendBoundary, SendGuarded, SettleCompaction, Prepare,
         RequestCompaction, Step, Throw, CommitApply, CommitBoundary, Complete, Fail,
         FailBeforeExecution, Settle
<1>5. CASE ControlStep
  BY <1>5
     DEF ControlStep, AbortDirect, ObserveAbort, RecordAbort, ReconcileAbort, Reset,
         Archive, Restore
<1>. QED BY <1>1, <1>2, <1>3, <1>4, <1>5 DEF Next, vars

LEMMA KnownStep ==
  ASSUME TypeOK, KnownThreads, [Next]_vars PROVE KnownThreads'
<1>1. current' \in used'
  BY CurrentEffect DEF KnownThreads
<1>2. \A o \in Orders : input'[o].thread \in used'
  BY CurrentEffect, InputEffect DEF KnownThreads, StatusKept, Enqueued
<1>3. ASSUME NEW r \in Runs PROVE attempt'[r].thread \in used'
  <2>1. Moved(r)
    BY Moves
  <2>. QED BY <2>1, CurrentEffect
           DEF KnownThreads, Moved, Kept, Inserted, Extended, Snapped, Admitted, Placed
<1>. QED BY <1>1, <1>2, <1>3 DEF KnownThreads

LEMMA RowsStep ==
  ASSUME TypeOK, RowsMatchAttempts, [Next]_vars PROVE RowsMatchAttempts'
<1>1. SUFFICES ASSUME NEW r \in Runs
               PROVE  /\ run'[r].status # "absent" =>
                           run'[r].thread = attempt'[r].thread /\ run'[r].owner = attempt'[r].daemon
                      /\ attempt'[r].pc = "idle" =>
                           run'[r].status = "absent" /\ stmt'[r] = NoSnapshot /\ late'[r] = NoSnapshot
                      /\ attempt'[r].pc \in Holding => run'[r].status # "absent"
  BY DEF RowsMatchAttempts
<1>2. \/ /\ run'[r].status = "absent" <=> run[r].status = "absent"
         /\ run'[r].thread = run[r].thread /\ run'[r].owner = run[r].owner
      \/ /\ run[r].status = "absent" /\ run'[r].status # "absent"
         /\ attempt[r].pc = "claiming" \/ late[r] # NoSnapshot
         /\ run'[r].thread = attempt[r].thread /\ run'[r].owner = attempt[r].daemon
  <2>1. CASE NoneStarted
    BY <2>1 DEF NoneStarted
  <2>2. CASE \E q \in Runs : Started(q)
    BY <2>2, TypeParts DEF Started, Insertable, Typed, RunTyped
  <2>. QED BY <2>1, <2>2, RunEffect
<1>3. Moved(r)
  BY Moves
<1>4. CASE Kept(r)
  BY <1>2, <1>4 DEF Kept, Placed, RowsMatchAttempts
<1>5. CASE Inserted(r)
  BY <1>5 DEF Inserted, Placed, RowsMatchAttempts
<1>6. CASE Extended(r)
  BY <1>2, <1>6 DEF Extended, Placed, LockedActiveRun, RowsMatchAttempts
<1>7. CASE Snapped(r)
  BY <1>7 DEF Snapped, Placed, RowsMatchAttempts
<1>8. CASE Admitted(r)
  BY <1>8 DEF Admitted, RowsMatchAttempts, Holding
<1>. QED BY <1>3, <1>4, <1>5, <1>6, <1>7, <1>8 DEF Moved

\* Other writers leave a snapshot sound.
LEMMA SoundKept ==
  ASSUME TypeOK, KnownThreads, [Next]_vars, NEW s \in SnapshotType, NEW t \in used, Sound(s, t)
  PROVE  Sound(s, t)'
<1>0. generation \in Nat /\ generation' \in Nat /\ s.wake \in Nat /\ s.pending \subseteq Orders
  BY TypeParts, NextTyped DEF Typed, WakeTyped, SnapshotType
<1>1. Present \subseteq Present'
  BY InputEffect DEF Present, StatusKept, Enqueued
<1>2. \A o \in Pending(t)' : o \in Pending(t) \/ \A p \in Present : o > p
  <2>1. CASE \A o \in Orders : StatusKept(o)
    BY <2>1 DEF StatusKept, Pending
  <2>2. CASE \E o \in Orders : Enqueued(o)
    BY <2>2, RunClaimsAssumption DEF Enqueued, StatusKept, Pending, Present
  <2>. QED BY <2>1, <2>2, InputEffect
<1>3. s.wake <= generation'
  <2>1. generation' = generation + 1 \/ generation' = generation
    BY InputEffect, Zenon
  <2>2. s.wake <= generation
    BY DEF Sound
  <2>. QED BY <1>0, <2>1, <2>2
<1>4. \A o \in Pending(t)' \ s.pending, p \in s.pending : o > p
  BY <1>2 DEF Sound
<1>5. ASSUME s.wake # 0, s.wake = generation', t = current', NEW o \in Pending(t)', Waiting(o)'
      PROVE  o \in s.pending
  <2>1. t = current
    BY <1>5, CurrentEffect
  <2>2. generation' = generation /\ Waiting(o)
    <3>1. o \in Orders
      BY <1>5 DEF Pending
    <3>2. s.wake <= generation
      BY DEF Sound
    <3>3. generation' # generation + 1
      BY <1>0, <1>5, <3>2
    <3>. QED BY <1>5, <3>1, <3>3, InputEffect, Zenon
  <2>3. o \in Pending(t)
    <3>1. o \in Orders /\ input[o].status = "pending" /\ input'[o].thread = t
      BY <1>5, <2>2 DEF Pending, Waiting
    <3>2. ~ Enqueued(o)
      BY <3>1, RunClaimsAssumption DEF Enqueued
    <3>. QED BY <3>1, <3>2, InputEffect DEF StatusKept, Enqueued, Pending
  <2>. QED BY <1>5, <2>1, <2>2, <2>3 DEF Sound
<1>. QED BY <1>1, <1>3, <1>4, <1>5 DEF Sound

LEMMA NothingSound ==
  ASSUME TypeOK, [Next]_vars, NEW t
  PROVE  Sound(NoSnapshot, t) /\ Sound(NoSnapshot, t)'
<1>1. generation \in Nat /\ generation' \in Nat
  BY TypeParts, NextTyped DEF Typed, WakeTyped
<1>. QED BY <1>1 DEF NoSnapshot, Sound

LEMMA SnapshotsStep ==
  ASSUME TypeOK, KnownThreads, RowsMatchAttempts, SnapshotsSound, [Next]_vars
  PROVE  SnapshotsSound'
<1>1. SUFFICES ASSUME NEW r \in Runs, NEW s, NEW u, NEW t,
                      s = stmt'[r], u = late'[r], t = attempt'[r].thread
               PROVE  Sound(s, t)' /\ Sound(u, t)'
  BY DEF SnapshotsSound, Sound, Pending, Waiting, Present
<1>0. stmt[r] \in SnapshotType /\ late[r] \in SnapshotType /\ NoSnapshot \in SnapshotType
  BY TypeParts, NoSnapshotTyped DEF Typed, AttemptTyped
<1>2. ASSUME NEW v, v \in {stmt[r], late[r], NoSnapshot}, attempt[r].thread = t
      PROVE  Sound(v, t)'
  <2>1. t \in used /\ v \in SnapshotType
    BY <1>0, <1>2 DEF KnownThreads
  <2>2. CASE v = NoSnapshot
    BY <2>2, NothingSound
  <2>3. CASE v \in {stmt[r], late[r]}
    <3>1. Sound(v, t)
      BY <1>2, <2>3 DEF SnapshotsSound
    <3>. QED BY <2>1, <3>1, SoundKept
  <2>. QED BY <1>2, <2>2, <2>3
<1>3. CASE Kept(r) \/ Inserted(r) \/ Extended(r)
  <2>1. /\ attempt[r].thread = t
        /\ s \in {stmt[r], late[r], NoSnapshot} /\ u \in {stmt[r], late[r], NoSnapshot}
    BY <1>1, <1>3 DEF Kept, Inserted, Extended, Placed
  <2>. QED BY <1>2, <2>1
<1>4. CASE Snapped(r)
  <2>1. attempt[r].thread = t /\ u = late[r]
    BY <1>1, <1>4 DEF Snapped, Placed
  <2>2. Sound(u, t)'
    BY <1>2, <2>1
  <2>3. s.pending = Pending(t) /\ s.wake \in {0, generation}
    BY <1>1, <1>4, <2>1 DEF Snapped
  <2>4. generation \in Nat /\ UNCHANGED <<generation, input, current>>
    BY <1>4, TypeParts DEF Snapped, wakeVars, sessionVars, Typed, WakeTyped
  <2>5. Sound(s, t)'
    BY <2>3, <2>4 DEF Sound, Pending, Present, Waiting
  <2>. QED BY <2>2, <2>5
<1>5. CASE Admitted(r)
  <2>1. s = NoSnapshot /\ u = NoSnapshot
    BY <1>1, <1>5 DEF Admitted, RowsMatchAttempts
  <2>. QED BY <2>1, NothingSound
<1>6. Moved(r)
  BY Moves
<1>. QED BY <1>3, <1>4, <1>5, <1>6 DEF Moved

LEMMA CutoffStep ==
  ASSUME TypeOK, SnapshotsSound, CutoffPresent, [Next]_vars PROVE CutoffPresent'
<1>1. SUFFICES ASSUME NEW r \in Runs PROVE run'[r].cutoff \in Present' \cup {0}
  BY DEF CutoffPresent
<1>2. Present \subseteq Present'
  BY InputEffect DEF Present, StatusKept, Enqueued
<1>3. stmt[r].pending \subseteq Present /\ late[r].pending \subseteq Present
  BY DEF SnapshotsSound, Sound
<1>4. run'[r].cutoff \in Present \cup {0}
  <2>1. CASE Extended(r)
    BY <1>3, <2>1 DEF Extended, ExtendedCutoff, IsGreatest, CutoffPresent
  <2>2. CASE Inserted(r)
    BY <1>3, <2>2 DEF Inserted
  <2>3. CASE Kept(r) \/ Snapped(r) \/ Admitted(r)
    BY <2>3 DEF Kept, Snapped, Admitted, CutoffPresent
  <2>4. Moved(r)
    BY Moves
  <2>. QED BY <2>1, <2>2, <2>3, <2>4 DEF Moved
<1>. QED BY <1>2, <1>4

\* What a step adds to a thread's pending inputs lies beyond every cutoff.
LEMMA NewBeyondCutoffs ==
  ASSUME TypeOK, CutoffPresent, [Next]_vars, NEW t, NEW r \in Runs
  PROVE  \A o \in Pending(t)' : o \in Pending(t) \/ o > run[r].cutoff
<1>1. CASE \A o \in Orders : StatusKept(o)
  BY <1>1 DEF StatusKept, Pending
<1>2. CASE \E o \in Orders : Enqueued(o)
  <2>1. PICK o \in Orders : Enqueued(o)
    BY <1>2
  <2>2. o > run[r].cutoff
    <3>1. o \in Nat \ {0}
      BY RunClaimsAssumption
    <3>2. CASE run[r].cutoff = 0
      BY <3>1, <3>2
    <3>3. CASE run[r].cutoff \in Present
      <4>1. run[r].cutoff \in Nat
        BY <3>3, RunClaimsAssumption DEF Present
      <4>2. run[r].cutoff < o
        BY <2>1, <3>3 DEF Enqueued, Present
      <4>. QED BY <3>1, <4>1, <4>2
    <3>. QED BY <3>2, <3>3 DEF CutoffPresent
  <2>. QED BY <2>1, <2>2 DEF Enqueued, StatusKept, Pending
<1>. QED BY <1>1, <1>2, InputEffect

LEMMA DrainedStep ==
  ASSUME TypeOK, RowsMatchAttempts, CutoffPresent, PrefixDrained, [Next]_vars PROVE PrefixDrained'
<1>1. SUFFICES ASSUME NEW r \in Runs, NEW t, t = attempt'[r].thread
               PROVE  /\ attempt'[r].pc = "bounding" =>
                           \A o \in Pending(t)' \ stmt'[r].pending : o > run'[r].cutoff
                      /\ attempt'[r].pc = "complete" =>
                           \A o \in Pending(t)' : o > run'[r].cutoff
  BY DEF PrefixDrained, Pending
<1>2. \A o \in Pending(t)' : o \in Pending(t) \/ o > run[r].cutoff
  BY NewBeyondCutoffs
<1>3. CASE Kept(r)
  BY <1>1, <1>2, <1>3 DEF Kept, Placed, PrefixDrained
<1>4. CASE Inserted(r)
  BY <1>4 DEF Inserted, RowsMatchAttempts, Holding
<1>5. CASE Extended(r)
  <2>1. SUFFICES ASSUME attempt'[r].pc = "complete", NEW o \in Pending(t)' PROVE o > run'[r].cutoff
    BY <1>5 DEF Extended
  <2>2. /\ attempt[r].pc = "bounding" /\ attempt[r].thread = t
        /\ run'[r].cutoff = run[r].cutoff
        /\ \A q \in stmt[r].pending : q > run'[r].cutoff
        /\ input' = input
    BY <1>1, <1>5, <2>1 DEF Extended, Placed, ExtendedCutoff
  <2>. QED BY <2>1, <2>2 DEF PrefixDrained, Pending
<1>6. CASE Snapped(r)
  <2>1. input' = input
    BY <1>6 DEF Snapped, wakeVars
  <2>. QED BY <1>1, <1>6, <2>1 DEF Snapped, Placed, Pending
<1>7. CASE Admitted(r)
  BY <1>7 DEF Admitted
<1>8. Moved(r)
  BY Moves
<1>. QED BY <1>3, <1>4, <1>5, <1>6, <1>7, <1>8 DEF Moved

LEMMA InboxInit == Init => InboxInv
<1>. SUFFICES ASSUME Init PROVE InboxInv
  OBVIOUS
<1>1. TypeOK /\ RunningOnlyWhereAllowed
  BY InitTyped, RunningInit
<1>2. RowsMatchAttempts /\ KnownThreads /\ CutoffPresent /\ PrefixDrained
  BY DEF Init, RowsMatchAttempts, KnownThreads, CutoffPresent, PrefixDrained, Holding
<1>3. SnapshotsSound
  BY DEF Init, SnapshotsSound, Sound, NoSnapshot
<1>. QED BY <1>1, <1>2, <1>3 DEF InboxInv

LEMMA InboxStep == InboxInv /\ [Next]_vars => InboxInv'
  BY NextTyped, RunningStep, RowsStep, KnownStep, SnapshotsStep, CutoffStep, DrainedStep
     DEF InboxInv

(* What runs know of the inbox stays true while other writers commit: the   *)
(* strengthening the theorems about the wake latch and the prefix rest on.  *)
THEOREM InboxCorrect == Spec => []InboxInv
  BY InboxInit, InboxStep, PTL DEF Spec

----------------------------------------------------------------------------
(* Who applies inputs and ends runs.                                       *)

\* The page an apply statement of attempt r writes under the cutoff n.
Page(r, n) == FirstPage({o \in stmt[r].pending \cap Pending(attempt[r].thread) : o <= n})

Applies(r) ==
  /\ LockedActiveRun(r)
  /\ \E n \in Orders \cup {0} :
       input' = [o \in Orders |-> IF o \in Page(r, n)
                                  THEN [input[o] EXCEPT !.status = "applied"] ELSE input[o]]

NoneApplied == \A o \in Orders : input'[o].status = "applied" => input[o].status = "applied"

LEMMA AppliedEffect ==
  ASSUME TypeOK, [Next]_vars PROVE NoneApplied \/ \E r \in Runs : Applies(r)
<1>. USE DEF leaseVars, sessionVars, wakeVars, attemptVars
<1>0. input \in [Orders -> InputRow]
  BY TypeParts DEF Typed, WakeTyped
<1>1. UNCHANGED input => NoneApplied
  BY DEF NoneApplied
<1>2. Arm(input) => NoneApplied
  BY <1>0, WokenRow DEF Arm, NoneApplied
<1>3. ASSUME NEW r \in Runs, CompleteRun(r) \/ \E force \in BOOLEAN : FailRun(r, force)
      PROVE  NoneApplied
  <2>1. input' = Dormant(r) => NoneApplied
    BY DormantRow DEF NoneApplied
  <2>. QED BY <1>2, <1>3, <2>1 DEF CompleteRun, FailRun
<1>4. CASE ClaimStep
  BY <1>1, <1>4 DEF ClaimStep, Admit, SendClaim, CommitClaim, LoseClaim, CommitLateClaim, Reread
<1>5. CASE DaemonStep
  <2>1. ASSUME NEW d \in Daemons, NEW r \in Runs, RecoverOrphan(d, r) PROVE NoneApplied
    BY <1>3, <2>1 DEF RecoverOrphan
  <2>. QED BY <1>1, <1>5, <2>1
           DEF DaemonStep, Expire, Start, Stop, Exit, Release, FinishRecovery
<1>6. CASE WakeStep
  <2>1. ASSUME NEW o \in Orders, NEW mode \in {"wake", "queue"}, Enqueue(o, mode) PROVE NoneApplied
    <3>. DEFINE inputs == [input EXCEPT ![o] = [status |-> "pending", thread |-> current, wake |-> "none"]]
    <3>1. inputs \in [Orders -> InputRow]
      BY <1>0, TypeParts DEF Typed, SessionTyped, InputRow, Owed
    <3>2. \A q \in Orders : input'[q].status = inputs[q].status
      BY <2>1, <3>1, WokenRow DEF Enqueue, Arm
    <3>. QED BY <1>0, <3>2 DEF NoneApplied
  <2>. QED BY <1>2, <1>6, <2>1 DEF WakeStep, ResolveDuplicate, RequestWake, Flush
<1>7. CASE ExecutorStep
  <2>1. ASSUME NEW r \in Runs, CommitApply(r) PROVE NoneApplied \/ Applies(r)
    BY <1>1, <2>1 DEF CommitApply, Applies, Page
  <2>2. ASSUME NEW r \in Runs, Complete(r) \/ Fail(r) \/ FailBeforeExecution(r) PROVE NoneApplied
    <3>1. \/ UNCHANGED input
          \/ CompleteRun(r) \/ \E force \in BOOLEAN : FailRun(r, force)
      BY <2>2 DEF Complete, Fail, FailBeforeExecution, Settle
    <3>. QED BY <1>1, <1>3, <3>1
  <2>. QED BY <1>1, <1>2, <1>7, <2>1, <2>2
           DEF ExecutorStep, SendApply, SendBoundary, SendGuarded, SettleCompaction, Prepare,
               RequestCompaction, Step, Throw, CommitBoundary
<1>8. CASE ControlStep
  <2>1. input' = Discarded => NoneApplied
    <3>1. \A o \in Orders : [input[o] EXCEPT !.status = "discarded"].status = "discarded"
      BY <1>0 DEF InputRow
    <3>. QED BY <3>1 DEF Discarded, NoneApplied
  <2>. QED BY <1>1, <1>8, <2>1
           DEF ControlStep, AbortDirect, ObserveAbort, RecordAbort, ReconcileAbort, Reset,
               Archive, Restore
<1>9. CASE UNCHANGED vars
  BY <1>1, <1>9 DEF vars
<1>. QED BY <1>4, <1>5, <1>6, <1>7, <1>8, <1>9 DEF Next

\* Completed by its executor at the end of the loop, or failed by anyone.
Ends(r) ==
  \/ attempt[r].pc = "complete" /\ ActiveRun(r) /\ CompleteRun(r)
  \/ \E force \in BOOLEAN : FailRun(r, force)

LEMMA EndsEffect ==
  ASSUME TypeOK, [Next]_vars, NEW r \in Runs
  PROVE  \/ run'[r].status = run[r].status
         \/ run[r].status = "absent" /\ run'[r].status = "running"
         \/ run[r].status = "running" /\ Ends(r)
<1>. USE DEF leaseVars, sessionVars, wakeVars, attemptVars
<1>0. run \in [Runs -> RunRow]
  BY TypeParts DEF Typed, RunTyped
<1>. DEFINE Goal == \/ run'[r].status = run[r].status
                    \/ run[r].status = "absent" /\ run'[r].status = "running"
                    \/ run[r].status = "running" /\ Ends(r)
<1>1. UNCHANGED run => Goal
  OBVIOUS
<1>2. ASSUME NEW q \in Runs, run[q].status = "running", Ends(q) PROVE Goal
  <2>1. q # r => run'[r].status = run[r].status
    BY <1>0, <1>2 DEF Ends, CompleteRun, FailRun, EndedRun
  <2>. QED BY <1>2, <2>1
<1>3. ASSUME NEW q \in Runs, NEW s, InsertRun(q, s), run[q].status = "absent" PROVE Goal
  BY <1>0, <1>3 DEF InsertRun
<1>4. CASE ClaimStep
  <2>1. ASSUME NEW q \in Runs, CommitClaim(q) \/ CommitLateClaim(q) PROVE Goal
    <3>1. \/ UNCHANGED run
          \/ run[q].status = "absent" /\ (InsertRun(q, stmt[q]) \/ InsertRun(q, late[q]))
      BY <2>1 DEF CommitClaim, CommitLateClaim, Insertable
    <3>. QED BY <1>0, <1>1, <3>1 DEF InsertRun
  <2>. QED BY <1>1, <1>4, <2>1 DEF ClaimStep, Admit, SendClaim, LoseClaim, Reread
<1>5. CASE DaemonStep
  <2>1. ASSUME NEW d \in Daemons, NEW q \in Runs, RecoverOrphan(d, q) PROVE Goal
    BY <1>2, <2>1 DEF RecoverOrphan, Orphans, Ends
  <2>. QED BY <1>1, <1>5, <2>1
           DEF DaemonStep, Expire, Start, Stop, Exit, Release, FinishRecovery
<1>6. CASE WakeStep
  BY <1>1, <1>6 DEF WakeStep, Enqueue, ResolveDuplicate, RequestWake, Flush
<1>7. CASE ExecutorStep
  <2>1. ASSUME NEW q \in Runs, CommitApply(q) \/ CommitBoundary(q) PROVE Goal
    <3>1. UNCHANGED run \/ \E n : run' = [run EXCEPT ![q].cutoff = n]
      BY <2>1, Zenon DEF CommitApply, CommitBoundary
    <3>2. run'[r].status = run[r].status
      BY <1>0, <3>1 DEF RunRow
    <3>. QED BY <3>2
  <2>2. ASSUME NEW q \in Runs, Complete(q) \/ Fail(q) \/ FailBeforeExecution(q) PROVE Goal
    <3>1. UNCHANGED run \/ (run[q].status = "running" /\ Ends(q))
      BY <2>2 DEF Complete, Fail, FailBeforeExecution, Settle, ActiveRun, Ends
    <3>. QED BY <1>1, <1>2, <3>1
  <2>. QED BY <1>1, <1>7, <2>1, <2>2
           DEF ExecutorStep, SendApply, SendBoundary, SendGuarded, SettleCompaction, Prepare,
               RequestCompaction, Step, Throw
<1>8. CASE ControlStep
  <2>1. UNCHANGED run \/ \E runs : run' = Aborted(runs)
    BY <1>8, Zenon
       DEF ControlStep, AbortDirect, ObserveAbort, RecordAbort, ReconcileAbort, Reset,
           Archive, Restore
  <2>2. ASSUME NEW runs, run' = Aborted(runs) PROVE run'[r].status = run[r].status
    <3>1. run'[r] = [run[r] EXCEPT !.abort = run[r].abort \/ r \in runs]
      BY <2>2 DEF Aborted
    <3>. QED BY <1>0, <3>1 DEF RunRow
  <2>. QED BY <1>1, <2>1, <2>2
<1>9. CASE UNCHANGED vars
  BY <1>1, <1>9 DEF vars
<1>. QED BY <1>4, <1>5, <1>6, <1>7, <1>8, <1>9 DEF Next

----------------------------------------------------------------------------
(* The prefix.                                                             *)

LEMMA FirstPageClosed ==
  ASSUME NEW S, S \subseteq Nat, NEW q \in FirstPage(S), NEW o \in S, o <= q, PageSize \in Nat
  PROVE  o \in FirstPage(S)
<1>. DEFINE UpTo(n) == {p \in S : p <= n}
<1>1. q \in S /\ Cardinality(UpTo(q)) <= PageSize
  BY DEF FirstPage
<1>2. UpTo(q) \in SUBSET Nat /\ \A p \in UpTo(q) : p <= q
  OBVIOUS
<1>3. IsFiniteSet(UpTo(q))
  BY <1>1, <1>2, FS_BoundedSetOfNaturals
<1>4. UpTo(o) \subseteq UpTo(q)
  <2>1. SUFFICES ASSUME NEW p \in S, p <= o PROVE p <= q
    OBVIOUS
  <2>2. p \in Nat /\ o \in Nat /\ q \in Nat
    BY <1>1
  <2>. QED BY <2>1, <2>2
<1>5. Cardinality(UpTo(o)) <= Cardinality(UpTo(q)) /\ IsFiniteSet(UpTo(o))
  BY <1>3, <1>4, FS_Subset
<1>6. Cardinality(UpTo(o)) \in Nat /\ Cardinality(UpTo(q)) \in Nat
  BY <1>3, <1>5, FS_CardinalityType
<1>7. Cardinality(UpTo(o)) <= PageSize
  BY <1>1, <1>5, <1>6
<1>. QED BY <1>7 DEF FirstPage

LEMMA AppliedStep ==
  ASSUME InboxInv, AppliedInOrder, [Next]_vars PROVE AppliedInOrder'
<1>0. TypeOK /\ SnapshotsSound /\ Orders \subseteq Nat /\ PageSize \in Nat
  BY RunClaimsAssumption DEF InboxInv
<1>1. SUFFICES ASSUME NEW o \in Orders, NEW q \in Orders, o < q,
                      input'[o].thread = input'[q].thread,
                      input'[q].status = "applied", input'[o].status = "pending"
               PROVE  FALSE
  BY DEF AppliedInOrder
<1>2. /\ input[o].thread = input[q].thread
      /\ input[o].status = "pending" /\ input[q].status # "absent"
  <2>1. ASSUME StatusKept(o), StatusKept(q)
        PROVE  /\ input[o].thread = input[q].thread
               /\ input[o].status = "pending" /\ input[q].status # "absent"
    BY <1>1, <2>1 DEF StatusKept
  <2>2. ASSUME NEW p \in Orders, Enqueued(p) PROVE StatusKept(o) /\ StatusKept(q)
    <3>1. p # q /\ StatusKept(q) /\ input[q].status # "absent"
      BY <1>1, <2>2 DEF Enqueued, StatusKept
    <3>2. p # o
      BY <1>0, <1>1, <2>2, <3>1 DEF Enqueued
    <3>. QED BY <2>2, <3>1, <3>2 DEF Enqueued
  <2>. QED BY <1>0, <2>1, <2>2, InputEffect
<1>3. CASE NoneApplied
  BY <1>1, <1>2, <1>3 DEF NoneApplied, AppliedInOrder
<1>4. ASSUME NEW r \in Runs, Applies(r) PROVE FALSE
  <2>0. input \in [Orders -> InputRow]
    BY <1>0, TypeParts DEF Typed, WakeTyped
  <2>1. PICK n \in Orders \cup {0} :
          input' = [p \in Orders |-> IF p \in Page(r, n)
                                     THEN [input[p] EXCEPT !.status = "applied"] ELSE input[p]]
    BY <1>4 DEF Applies
  <2>2. q \in Page(r, n)
    BY <1>1, <1>2, <2>1 DEF AppliedInOrder
  <2>. DEFINE S == {p \in stmt[r].pending \cap Pending(attempt[r].thread) : p <= n}
  <2>3. q \in S /\ S \subseteq Nat
    BY <1>0, <2>2 DEF Page, FirstPage, Pending
  <2>4. o \in Pending(attempt[r].thread)
    BY <1>2, <2>3 DEF Pending
  <2>5. o \in stmt[r].pending
    BY <1>0, <1>1, <2>3, <2>4 DEF SnapshotsSound, Sound
  <2>6. o \in S
    BY <1>0, <1>1, <2>3, <2>4, <2>5
  <2>7. o \in Page(r, n)
    <3>1. q \in FirstPage(S) /\ o <= q
      BY <1>0, <1>1, <2>2 DEF Page
    <3>. HIDE DEF S
    <3>2. o \in FirstPage(S)
      BY <1>0, <2>3, <2>6, <3>1, FirstPageClosed
    <3>. QED BY <3>2 DEF Page, S
  <2>8. input'[o] = [input[o] EXCEPT !.status = "applied"]
    BY <2>1, <2>7
  <2>. QED BY <1>1, <2>0, <2>8 DEF InputRow
<1>. QED BY <1>0, <1>3, <1>4, AppliedEffect

LEMMA CompletedStep ==
  ASSUME InboxInv, CompletedRunDrained, [Next]_vars PROVE CompletedRunDrained'
<1>0. TypeOK /\ RowsMatchAttempts /\ CutoffPresent /\ PrefixDrained
  BY DEF InboxInv
<1>1. SUFFICES ASSUME NEW r \in Runs, run'[r].status = "completed", NEW t, t = run'[r].thread,
                      NEW o \in Pending(t)'
               PROVE  o > run'[r].cutoff
  BY DEF CompletedRunDrained, Pending
<1>2. run[r].status # "absent" /\ t = run[r].thread
  <2>1. CASE NoneStarted
    BY <1>1, <2>1 DEF NoneStarted
  <2>2. CASE \E q \in Runs : Started(q)
    BY <1>0, <1>1, <2>2, TypeParts DEF Started, Typed, RunTyped
  <2>. QED BY <1>0, <2>1, <2>2, RunEffect
<1>3. run[r].status = "completed" \/ (attempt[r].pc = "complete" /\ ActiveRun(r))
  <2>1. ~ \E force \in BOOLEAN : FailRun(r, force)
    BY <1>0, <1>1, TypeParts DEF FailRun, EndedRun, Typed, RunTyped, RunRow
  <2>. QED BY <1>0, <1>1, <1>2, <2>1, EndsEffect DEF Ends
<1>4. run'[r].cutoff = run[r].cutoff
  BY <1>0, <1>2, <1>3, Moves
     DEF Moved, Kept, Inserted, Extended, Snapped, Admitted, LockedActiveRun
<1>5. \A p \in Pending(t) : p > run[r].cutoff
  BY <1>0, <1>2, <1>3 DEF CompletedRunDrained, PrefixDrained, RowsMatchAttempts
<1>. QED BY <1>0, <1>4, <1>5, NewBeyondCutoffs

(* A completed run left nothing behind in the prefix it had admitted,       *)
(* whatever arrived while its last boundary was being decided.              *)
THEOREM CompletionDrains == Spec => []CompletedRunDrained
<1>1. Init => CompletedRunDrained
  BY DEF Init, CompletedRunDrained
<1>2. InboxInv /\ CompletedRunDrained /\ [Next]_vars => CompletedRunDrained'
  BY CompletedStep
<1>. QED BY <1>1, <1>2, InboxCorrect, PTL DEF Spec

(* Pages of the inbox are applied in input order, however many inputs       *)
(* arrive between an apply statement's snapshot and its commit.             *)
THEOREM PagesInOrder == Spec => []AppliedInOrder
<1>1. Init => AppliedInOrder
  BY DEF Init, AppliedInOrder
<1>2. InboxInv /\ AppliedInOrder /\ [Next]_vars => AppliedInOrder'
  BY AppliedStep
<1>. QED BY <1>1, <1>2, InboxCorrect, PTL DEF Spec

LEMMA StaleStep ==
  ASSUME InboxInv, [Next]_vars, NEW r \in Runs, run[r].status = "running",
         lease \notin {run[r].owner, Nobody}
  PROVE  /\ run'[r].cutoff = run[r].cutoff
         /\ run'[r].status \in {"running", "failed"}
         /\ \A o \in Pending(run[r].thread) : input'[o].status # "applied"
<1>0. TypeOK /\ RowsMatchAttempts /\ RunningOnlyWhereAllowed
  BY DEF InboxInv
<1>1. ~ LockedActiveRun(r) /\ ~ ActiveRun(r)
  BY DEF LockedActiveRun, ActiveRun, IsOwner
<1>2. run'[r].cutoff = run[r].cutoff
  BY <1>0, <1>1, Moves DEF Moved, Kept, Inserted, Extended, Snapped, Admitted
<1>3. run'[r].status \in {"running", "failed"}
  <2>1. ASSUME NEW force \in BOOLEAN, FailRun(r, force) PROVE run'[r].status = "failed"
    BY <1>0, <2>1, TypeParts DEF FailRun, EndedRun, Typed, RunTyped, RunRow
  <2>. QED BY <1>0, <1>1, <2>1, EndsEffect DEF Ends
<1>4. ASSUME NEW o \in Pending(run[r].thread), input'[o].status = "applied" PROVE FALSE
  <2>1. o \in Orders /\ input[o].status = "pending" /\ input[o].thread = run[r].thread
    BY DEF Pending
  <2>2. PICK q \in Runs : Applies(q)
    BY <1>0, <1>4, <2>1, AppliedEffect DEF NoneApplied
  <2>3. o \in Pending(attempt[q].thread)
    BY <1>4, <2>1, <2>2 DEF Applies, Page, FirstPage
  <2>4. run[q].status = "running" /\ run[q].thread = run[r].thread
    BY <1>0, <2>1, <2>2, <2>3 DEF Applies, LockedActiveRun, RowsMatchAttempts, Pending
  <2>5. q = r
    BY <1>0, <2>4 DEF RunningOnlyWhereAllowed, Running
  <2>. QED BY <1>1, <2>2, <2>5 DEF Applies
<1>. QED BY <1>2, <1>3, <1>4

(* After another daemon has taken the lease, no late statement of the       *)
(* former owner applies an input, moves a cutoff or completes a run.        *)
THEOREM StaleOwnerIsFenced == Spec => StaleOwnerWritesNothing
<1>. DEFINE Fenced == \A r \in Runs :
              run[r].status = "running" /\ lease \notin {run[r].owner, Nobody} =>
                /\ run'[r].cutoff = run[r].cutoff
                /\ run'[r].status \in {"running", "failed"}
                /\ \A o \in Pending(run[r].thread) : input'[o].status # "applied"
<1>1. InboxInv /\ [Next]_vars => Fenced
  BY StaleStep
<1>2. Spec => [][Fenced]_vars
  BY <1>1, InboxCorrect, PTL DEF Spec
<1>. QED BY <1>2 DEF StaleOwnerWritesNothing

----------------------------------------------------------------------------
(* The wake latch.                                                         *)

ConsumedBy(r, s) == s.wake # 0 /\ s.wake = generation

LEMMA ArmedEffect ==
  ASSUME TypeOK, [Next]_vars, armed, ~armed'
  PROVE  \/ \E r \in Runs : \E s \in {stmt[r], late[r]} :
              Insertable(r) /\ InsertRun(r, s) /\ ConsumedBy(r, s)
         \/ \E r \in Runs : /\ LockedActiveRun(r) /\ ConsumedBy(r, stmt[r])
                            /\ ExtendedCutoff(run'[r].cutoff, r, stmt[r])
                            /\ run'[r].status = run[r].status /\ run'[r].thread = run[r].thread
         \/ input' = Discarded
<1>. USE DEF leaseVars, sessionVars, wakeVars, attemptVars
<1>0. run \in [Runs -> RunRow]
  BY TypeParts DEF Typed, RunTyped
<1>1. ~ UNCHANGED armed
  OBVIOUS
<1>2. \A inputs : ~ Arm(inputs)
  BY DEF Arm
<1>3. \A r \in Runs : ~ CompleteRun(r) /\ \A force \in BOOLEAN : ~ FailRun(r, force)
  BY <1>1, <1>2 DEF CompleteRun, FailRun
<1>4. CASE ClaimStep
  <2>1. PICK r \in Runs : CommitClaim(r) \/ CommitLateClaim(r)
    BY <1>1, <1>4 DEF ClaimStep, Admit, SendClaim, LoseClaim, Reread
  <2>2. PICK s \in {stmt[r], late[r]} : Insertable(r) /\ InsertRun(r, s)
    BY <1>1, <2>1 DEF CommitClaim, CommitLateClaim
  <2>3. ConsumedBy(r, s)
    BY <2>2 DEF InsertRun, ConsumeWake, ConsumedBy
  <2>. QED BY <2>2, <2>3
<1>5. CASE DaemonStep
  BY <1>1, <1>3, <1>5
     DEF DaemonStep, Expire, Start, Stop, Exit, Release, FinishRecovery, RecoverOrphan
<1>6. CASE WakeStep
  BY <1>1, <1>2, <1>6 DEF WakeStep, Enqueue, ResolveDuplicate, RequestWake, Flush
<1>7. CASE ExecutorStep
  <2>1. \A r \in Runs : ~ Complete(r) /\ ~ Fail(r) /\ ~ FailBeforeExecution(r)
    BY <1>1, <1>3 DEF Complete, Fail, FailBeforeExecution, Settle
  <2>2. PICK r \in Runs : CommitApply(r) \/ CommitBoundary(r)
    BY <1>1, <1>2, <1>7, <2>1
       DEF ExecutorStep, SendApply, SendBoundary, SendGuarded, SettleCompaction, Prepare,
           RequestCompaction, Step, Throw
  <2>3. PICK n \in Orders \cup {0} :
          /\ LockedActiveRun(r) /\ ExtendedCutoff(n, r, stmt[r])
          /\ run' = [run EXCEPT ![r].cutoff = n] /\ ConsumeWake(stmt[r])
    BY <1>1, <2>2 DEF CommitApply, CommitBoundary
  <2>4. /\ run'[r].cutoff = n /\ ConsumedBy(r, stmt[r])
        /\ run'[r].status = run[r].status /\ run'[r].thread = run[r].thread
    BY <1>0, <2>3 DEF RunRow, ConsumeWake, ConsumedBy
  <2>. QED BY <2>3, <2>4
<1>8. CASE ControlStep
  BY <1>1, <1>8
     DEF ControlStep, AbortDirect, ObserveAbort, RecordAbort, ReconcileAbort, Reset,
         Archive, Restore
<1>9. CASE UNCHANGED vars
  BY <1>1, <1>9 DEF vars
<1>. QED BY <1>4, <1>5, <1>6, <1>7, <1>8, <1>9 DEF Next

\* While the latch is off, the run that owns a waiting input goes on owning
\* it: a run that ends without a new wake leaves none waiting in its prefix.
LEMMA OwnedStep ==
  ASSUME InboxInv, [Next]_vars, ~armed, NEW o \in Orders, input[o].status = "pending",
         input[o].thread = current, Waiting(o)', generation' = generation,
         NEW r \in Runs, run[r].status = "running", run[r].thread = current, o <= run[r].cutoff
  PROVE  run'[r].status = "running" /\ run'[r].thread = current /\ o <= run'[r].cutoff
<1>0. TypeOK /\ RowsMatchAttempts /\ RunningOnlyWhereAllowed /\ PrefixDrained
  BY DEF InboxInv
<1>1. /\ run \in [Runs -> RunRow] /\ input \in [Orders -> InputRow]
      /\ generation \in Nat /\ Orders \subseteq Nat /\ stmt \in [Runs -> SnapshotType]
  BY <1>0, TypeParts, RunClaimsAssumption DEF Typed, RunTyped, WakeTyped, AttemptTyped
<1>2. o \in Pending(run[r].thread) /\ o \in Pending(attempt[r].thread)
  BY <1>0 DEF Pending, RowsMatchAttempts
<1>3. o \in Nat /\ run[r].cutoff \in Nat
  <2>1. run[r].cutoff \in Orders \cup {0}
    BY <1>1 DEF RunRow
  <2>2. o \in Nat
    BY RunClaimsAssumption
  <2>3. \A c \in Orders \cup {0} : c \in Nat
    BY RunClaimsAssumption
  <2>. QED BY <2>1, <2>2, <2>3, Zenon
<1>4. run'[r].status = "running"
  <2>1. ~ Arm(input)
    BY <1>1 DEF Arm
  <2>2. ASSUME attempt[r].pc = "complete" PROVE FALSE
    <3>1. o > run[r].cutoff
      BY <1>0, <1>2, <2>2 DEF PrefixDrained
    <3>. QED BY <1>3, <3>1
  <2>3. ASSUME NEW force \in BOOLEAN, FailRun(r, force) PROVE FALSE
    <3>1. ~ Rearms(r, force) /\ input' = Dormant(r)
      BY <2>1, <2>3 DEF FailRun
    <3>2. run[r].abort
      BY <1>0, <1>2, <3>1 DEF Rearms, RunningOnlyWhereAllowed
    <3>3. input'[o] = [input[o] EXCEPT !.wake = Forgotten(input[o].wake)]
      BY <1>2, <3>1, <3>2, Zenon DEF Dormant
    <3>4. input'[o].wake = Forgotten(input[o].wake)
      BY <1>1, <3>3 DEF InputRow
    <3>. QED BY <3>4 DEF Waiting, Forgotten
  <2>. QED BY <1>0, <2>2, <2>3, EndsEffect DEF Ends
<1>5. run'[r].thread = current
  <2>1. CASE NoneStarted
    BY <2>1 DEF NoneStarted
  <2>2. CASE \E q \in Runs : Started(q)
    BY <1>1, <2>2 DEF Started, Insertable
  <2>. QED BY <1>0, <2>1, <2>2, RunEffect
<1>6. o <= run'[r].cutoff
  <2>1. CASE Extended(r)
    <3>1. run'[r].cutoff = run[r].cutoff \/ IsGreatest(run'[r].cutoff, stmt[r].pending \cup {run[r].cutoff})
      BY <2>1 DEF Extended, ExtendedCutoff
    <3>2. CASE run'[r].cutoff = run[r].cutoff
      BY <3>2
    <3>3. CASE IsGreatest(run'[r].cutoff, stmt[r].pending \cup {run[r].cutoff})
      <4>1. run[r].cutoff <= run'[r].cutoff
        BY <3>3 DEF IsGreatest
      <4>2. run'[r].cutoff \in Nat
        <5>1. stmt[r].pending \subseteq Nat
          BY <1>1 DEF SnapshotType
        <5>. QED BY <1>3, <3>3, <5>1 DEF IsGreatest
      <4>. QED BY <1>3, <4>1, <4>2
    <3>. QED BY <3>1, <3>2, <3>3
  <2>2. CASE Kept(r) \/ Snapped(r) \/ Admitted(r)
    BY <2>2 DEF Kept, Snapped, Admitted
  <2>3. ~ Inserted(r)
    BY DEF Inserted
  <2>. QED BY <1>0, <2>1, <2>2, <2>3, Moves DEF Moved
<1>. QED BY <1>4, <1>5, <1>6

LEMMA WakeStepKept ==
  ASSUME InboxInv, NoLostWake, [Next]_vars PROVE NoLostWake'
<1>0. TypeOK /\ KnownThreads /\ RowsMatchAttempts /\ RunningOnlyWhereAllowed /\ SnapshotsSound
  BY DEF InboxInv
<1>1. SUFFICES ASSUME NEW o \in Orders, Waiting(o)', input'[o].thread = current', ~armed'
               PROVE  \E r \in Runs : /\ run'[r].status = "running" /\ run'[r].thread = current'
                                      /\ o <= run'[r].cutoff
  BY DEF NoLostWake, Waiting, Pending, Running
<1>2. generation' = generation /\ Waiting(o)
  BY <1>0, <1>1, InputEffect, Zenon
<1>3. input[o].status = "pending" /\ input'[o].thread = input[o].thread
  <2>1. input[o].status = "pending" /\ ~ Enqueued(o)
    BY <1>2, RunClaimsAssumption DEF Waiting, Enqueued
  <2>. QED BY <1>0, <2>1, InputEffect DEF StatusKept, Enqueued
<1>4. current' = current
  BY <1>0, <1>1, <1>3, CurrentEffect DEF KnownThreads
<1>5. o \in Pending(current)
  BY <1>1, <1>3, <1>4 DEF Pending
<1>6. CASE armed
  <2>1. input' # Discarded
    <3>1. input[o] \in InputRow
      BY <1>0, TypeParts DEF Typed, WakeTyped
    <3>2. Discarded[o].status = "discarded"
      BY <1>5, <3>1 DEF Discarded, InputRow
    <3>. QED BY <1>1, <3>2 DEF Waiting
  <2>2. ASSUME NEW r \in Runs, NEW s, s \in {stmt[r], late[r]},
               Insertable(r), InsertRun(r, s), ConsumedBy(r, s)
        PROVE  /\ run'[r].status = "running" /\ run'[r].thread = current'
               /\ o <= run'[r].cutoff
    <3>1. attempt[r].thread = current
      BY <2>2 DEF Insertable, Claimable
    <3>2. o \in s.pending
      BY <1>0, <1>2, <1>5, <2>2, <3>1 DEF SnapshotsSound, Sound, ConsumedBy
    <3>3. run \in [Runs -> RunRow]
      BY <1>0, TypeParts DEF Typed, RunTyped
    <3>. QED BY <1>4, <2>2, <3>1, <3>2, <3>3 DEF InsertRun, IsGreatest
  <2>3. ASSUME NEW r \in Runs, LockedActiveRun(r), ConsumedBy(r, stmt[r]),
               ExtendedCutoff(run'[r].cutoff, r, stmt[r]),
               run'[r].status = run[r].status, run'[r].thread = run[r].thread
        PROVE  /\ run'[r].status = "running" /\ run'[r].thread = current'
               /\ o <= run'[r].cutoff
    <3>1. run[r].status = "running" /\ run[r].thread = current /\ attempt[r].thread = current
      BY <1>0, <2>3 DEF LockedActiveRun, RunningOnlyWhereAllowed, RowsMatchAttempts
    <3>2. o \in stmt[r].pending
      BY <1>0, <1>2, <1>5, <2>3, <3>1 DEF SnapshotsSound, Sound, ConsumedBy
    <3>3. o <= run'[r].cutoff
      BY <2>3, <3>2 DEF ExtendedCutoff, IsGreatest, ConsumedBy
    <3>. QED BY <1>4, <2>3, <3>1, <3>3
  <2>. QED BY <1>0, <1>1, <1>6, <2>1, <2>2, <2>3, ArmedEffect
<1>7. CASE ~armed
  <2>1. PICK r \in Runs : run[r].status = "running" /\ run[r].thread = current /\ o <= run[r].cutoff
    BY <1>2, <1>5, <1>7 DEF NoLostWake, Waiting, Running
  <2>. QED BY <1>1, <1>2, <1>3, <1>4, <1>7, <2>1, OwnedStep
<1>. QED BY <1>6, <1>7

(* A wake is never lost, whatever claims, applies, boundaries, aborts,      *)
(* recoveries and resets commit between the wake and the run that serves it *)
(* and however stale their snapshots are.                                   *)
THEOREM WakesAreKept == Spec => []NoLostWake
<1>1. Init => NoLostWake
  BY DEF Init, NoLostWake, Pending
<1>2. InboxInv /\ NoLostWake /\ [Next]_vars => NoLostWake'
  BY WakeStepKept
<1>. QED BY <1>1, <1>2, InboxCorrect, PTL DEF Spec
=============================================================================
