---------------------------- MODULE RunClaimsSafety ----------------------------
(***************************************************************************)
(* Safety theorems about RunClaims: who may be running, and what fences    *)
(* and the startup recovery guarantee.  Every step either starts one run   *)
(* under the rechecked fences or starts none (RunEffect); the invariants   *)
(* are preserved by either kind of step.                                   *)
(***************************************************************************)
EXTENDS RunClaimsProofs

NoneStarted ==
  \A r \in Runs :
    /\ run'[r].status = "running" => run[r].status = "running"
    /\ run'[r].status = "absent" <=> run[r].status = "absent"
    /\ run'[r].thread = run[r].thread /\ run'[r].owner = run[r].owner
    /\ run[r].abort => run'[r].abort

Started(r) ==
  /\ Insertable(r)
  /\ attempt[r].pc = "claiming" \/ late[r] # NoSnapshot
  /\ \E n \in Orders \cup {0} :
       run' = [run EXCEPT ![r] = [status |-> "running", thread |-> attempt[r].thread,
                                  owner |-> attempt[r].daemon, cutoff |-> n,
                                  abort |-> FALSE]]
  /\ UNCHANGED <<leaseVars, sessionVars, op>>

\* A row that is running when it ends stays attributed to its thread and owner.
LEMMA EndEffect ==
  ASSUME TypeOK, NEW r \in Runs, NEW status \in {"completed", "failed"},
         run[r].status = "running", EndedRun(r, status)
  PROVE  NoneStarted
  BY TypeParts DEF Typed, RunTyped, RunRow, EndedRun, NoneStarted

LEMMA AbortEffect ==
  ASSUME TypeOK, NEW runs, run' = Aborted(runs) PROVE NoneStarted
<1>1. \A r \in Runs : run[r] \in RunRow
  BY TypeParts DEF Typed, RunTyped
<1>2. \A r \in Runs : run'[r] = [run[r] EXCEPT !.abort = run[r].abort \/ r \in runs]
  BY DEF Aborted
<1>3. ASSUME NEW r \in Runs
      PROVE  /\ run'[r].status = run[r].status /\ run'[r].thread = run[r].thread
             /\ run'[r].owner = run[r].owner /\ run'[r].cutoff = run[r].cutoff
             /\ run[r].abort => run'[r].abort
  BY <1>1, <1>2 DEF RunRow
<1>. QED BY <1>3 DEF NoneStarted

LEMMA CutoffEffect ==
  ASSUME TypeOK, NEW r \in Runs, NEW n, run' = [run EXCEPT ![r].cutoff = n]
  PROVE  NoneStarted
  BY TypeParts DEF Typed, RunTyped, RunRow, NoneStarted

LEMMA RunEffect ==
  ASSUME TypeOK, [Next]_vars PROVE NoneStarted \/ \E r \in Runs : Started(r)
<1>. USE DEF leaseVars, sessionVars, wakeVars, attemptVars
<1>1. UNCHANGED run => NoneStarted
  BY DEF NoneStarted
<1>2. ASSUME NEW r \in Runs, InsertRun(r, stmt[r]) \/ InsertRun(r, late[r]), Insertable(r),
             attempt[r].pc = "claiming" \/ late[r] # NoSnapshot, UNCHANGED <<leaseVars, sessionVars, op>>
      PROVE  Started(r)
  BY <1>2 DEF InsertRun, Started
<1>3. CASE ClaimStep
  BY <1>1, <1>2, <1>3
     DEF ClaimStep, Admit, SendClaim, CommitClaim, LoseClaim, CommitLateClaim, Reread
<1>4. CASE DaemonStep
  <2>1. ASSUME NEW d \in Daemons, NEW r \in Runs, RecoverOrphan(d, r) PROVE NoneStarted
    <3>1. run[r].status = "running" /\ EndedRun(r, "failed")
      BY <2>1 DEF RecoverOrphan, Orphans, FailRun
    <3>. QED BY <3>1, EndEffect
  <2>. QED
    BY <1>1, <1>4, <2>1 DEF DaemonStep, Expire, Start, Stop, Exit, Release, FinishRecovery
<1>5. CASE WakeStep
  BY <1>1, <1>5 DEF WakeStep, Enqueue, ResolveDuplicate, RequestWake, Flush
<1>6. ASSUME NEW r \in Runs, Complete(r) \/ Fail(r) \/ FailBeforeExecution(r)
      PROVE  NoneStarted
  <2>1. \/ UNCHANGED run
        \/ /\ run[r].status = "running"
           /\ \E status \in {"completed", "failed"} : EndedRun(r, status)
    BY <1>6 DEF Complete, Fail, FailBeforeExecution, Settle, ActiveRun, CompleteRun, FailRun
  <2>. QED BY <1>1, <2>1, EndEffect
<1>7. ASSUME NEW r \in Runs, CommitApply(r) \/ CommitBoundary(r) PROVE NoneStarted
  <2>1. UNCHANGED run \/ \E n : run' = [run EXCEPT ![r].cutoff = n]
    BY <1>7, Zenon DEF CommitApply, CommitBoundary
  <2>. QED BY <1>1, <2>1, CutoffEffect
<1>8. CASE ExecutorStep
  BY <1>1, <1>6, <1>7, <1>8
     DEF ExecutorStep, SendApply, SendBoundary, SendGuarded, SettleCompaction, Prepare,
         RequestCompaction, Step, Throw
<1>9. CASE ControlStep
  BY <1>1, <1>9, AbortEffect
     DEF ControlStep, AbortDirect, ObserveAbort, RecordAbort, ReconcileAbort, Reset,
         Archive, Restore
<1>10. CASE UNCHANGED vars
  BY <1>1, <1>10 DEF vars
<1>. QED BY <1>3, <1>4, <1>5, <1>8, <1>9, <1>10 DEF Next

\* An executor touches neither the daemons nor the session nor the fences.
LEMMA ExecutorLeaves ==
  ASSUME ExecutorStep PROVE UNCHANGED <<leaseVars, sessionVars, op>>
<1>. USE DEF leaseVars, sessionVars
<1>1. PICK r \in Runs :
        \/ SendApply(r) \/ CommitApply(r) \/ SettleCompaction(r) \/ Prepare(r)
        \/ RequestCompaction(r) \/ Step(r) \/ SendBoundary(r) \/ CommitBoundary(r)
        \/ Throw(r) \/ Complete(r) \/ Fail(r) \/ FailBeforeExecution(r)
  BY DEF ExecutorStep
<1>2. CASE SendApply(r) \/ SendBoundary(r) \/ SettleCompaction(r) \/ Prepare(r)
  BY <1>2 DEF SendApply, SendBoundary, SendGuarded, SettleCompaction, Prepare
<1>3. CASE RequestCompaction(r) \/ Step(r) \/ Throw(r)
  BY <1>3 DEF RequestCompaction, Step, Throw
<1>4. CASE CommitApply(r) \/ CommitBoundary(r)
  BY <1>4 DEF CommitApply, CommitBoundary
<1>5. CASE Complete(r) \/ Fail(r) \/ FailBeforeExecution(r)
  BY <1>5 DEF Complete, Fail, FailBeforeExecution, Settle
<1>. QED BY <1>1, <1>2, <1>3, <1>4, <1>5

\* The session's thread and archive flag change only while nothing runs on it.
LEMMA SessionEffect ==
  ASSUME [Next]_vars PROVE UNCHANGED <<current, archived>> \/ Running(current) = {}
<1>. USE DEF leaseVars, sessionVars, wakeVars, attemptVars
<1>1. CASE ClaimStep
  BY <1>1 DEF ClaimStep, Admit, SendClaim, CommitClaim, LoseClaim, CommitLateClaim, Reread
<1>2. CASE DaemonStep
  BY <1>2 DEF DaemonStep, Expire, Start, Stop, Exit, Release, FinishRecovery, RecoverOrphan
<1>3. CASE WakeStep
  BY <1>3 DEF WakeStep, Enqueue, ResolveDuplicate, RequestWake, Flush
<1>4. CASE ExecutorStep
  BY <1>4, ExecutorLeaves
<1>5. CASE ControlStep
  BY <1>5
     DEF ControlStep, AbortDirect, ObserveAbort, RecordAbort, ReconcileAbort, Reset,
         Archive, Restore, ExclusiveAfterFence
<1>. QED BY <1>1, <1>2, <1>3, <1>4, <1>5 DEF Next, vars

LEMMA RunningStep ==
  ASSUME TypeOK, RunningOnlyWhereAllowed, [Next]_vars PROVE RunningOnlyWhereAllowed'
<1>1. CASE \E r \in Runs : Started(r)
  <2>1. PICK r \in Runs, n \in Orders \cup {0} :
          /\ Insertable(r)
          /\ run' = [run EXCEPT ![r] = [status |-> "running", thread |-> attempt[r].thread,
                                        owner |-> attempt[r].daemon, cutoff |-> n,
                                        abort |-> FALSE]]
          /\ UNCHANGED <<current, archived>>
    BY <1>1 DEF Started, sessionVars
  <2>2. \A q \in Runs : q # r => run[q].status # "running"
    BY <2>1 DEF Insertable, Claimable, RunningOnlyWhereAllowed
  <2>3. \A q \in Runs : run'[q] = IF q = r THEN [status |-> "running", thread |-> attempt[r].thread,
                                        owner |-> attempt[r].daemon, cutoff |-> n,
                                        abort |-> FALSE] ELSE run[q]
    BY <2>1, TypeParts DEF Typed, RunTyped
  <2>4. run'[r].status = "running" /\ run'[r].thread = current /\ ~archived
    BY <2>1, <2>3 DEF Insertable, Claimable
  <2>. QED BY <2>1, <2>2, <2>3, <2>4 DEF RunningOnlyWhereAllowed, Running
<1>2. CASE NoneStarted
  BY <1>2, SessionEffect DEF NoneStarted, RunningOnlyWhereAllowed, Running
<1>. QED BY <1>1, <1>2, RunEffect

LEMMA RunningInit == Init => RunningOnlyWhereAllowed
  BY DEF Init, RunningOnlyWhereAllowed

(* No run is left executing on a thread a reset replaced or on an archived *)
(* session, and no thread has two: the fences and the unique index that    *)
(* claimThreadRun rechecks hold against every interleaving with resets,    *)
(* archives, aborts, takeovers and late statements.                        *)
THEOREM OneRunOnTheCurrentThread == Spec => []RunningOnlyWhereAllowed
  BY RunningInit, RunningStep, TypeCorrect, PTL DEF Spec

----------------------------------------------------------------------------
(* Fences.                                                                 *)

NotFenced(t) == \A x \in Operations : op[x].thread = t => op[x].phase # "fenced"

\* A fence is set, and the receipts move, only with an abort operation.
LEMMA FenceEffect ==
  ASSUME TypeOK, [Next]_vars
  PROVE  \/ \E x \in Operations, t \in Threads, b \in BOOLEAN : ObserveAbort(x, t, b)
         \/ \E x \in Operations : RecordAbort(x) \/ ReconcileAbort(x)
         \/ blocked' \subseteq blocked /\ UNCHANGED op
<1>. USE DEF leaseVars, sessionVars, wakeVars, attemptVars
<1>1. CASE ClaimStep
  BY <1>1 DEF ClaimStep, Admit, SendClaim, CommitClaim, LoseClaim, CommitLateClaim, Reread
<1>2. CASE DaemonStep
  BY <1>2 DEF DaemonStep, Expire, Start, Stop, Exit, Release, FinishRecovery, RecoverOrphan
<1>3. CASE WakeStep
  BY <1>3 DEF WakeStep, Enqueue, ResolveDuplicate, RequestWake, Flush
<1>4. CASE ExecutorStep
  BY <1>4, ExecutorLeaves
<1>5. CASE ControlStep
  BY <1>5 DEF ControlStep, AbortDirect, Reset, Archive, Restore
<1>. QED BY <1>1, <1>2, <1>3, <1>4, <1>5 DEF Next, vars

LEMMA FencedStep ==
  ASSUME TypeOK, FencedRunsAborted, [Next]_vars PROVE FencedRunsAborted'
<1>0. op \in [Operations -> OpRow] /\ run \in [Runs -> RunRow]
  BY TypeParts DEF Typed, OpTyped, RunTyped
<1>1. SUFFICES ASSUME NEW t \in blocked', NotFenced(t)',
                      NEW r \in Runs, run'[r].status = "running", run'[r].thread = t
               PROVE  run'[r].abort
  BY DEF FencedRunsAborted, NotFenced, Running
<1>2. CASE NoneStarted
  <2>1. run[r].status = "running" /\ run[r].thread = t
    BY <1>1, <1>2 DEF NoneStarted
  <2>2. CASE t \in blocked /\ NotFenced(t)
    BY <1>2, <2>1, <2>2 DEF FencedRunsAborted, NotFenced, Running, NoneStarted
  <2>3. CASE blocked' \subseteq blocked /\ UNCHANGED op
    BY <1>1, <2>2, <2>3 DEF NotFenced
  <2>4. ASSUME NEW x \in Operations, NEW u \in Threads, NEW b \in BOOLEAN, ObserveAbort(x, u, b)
        PROVE  run'[r].abort
    <3>1. NotFenced(t)
      BY <1>0, <1>1, <2>4 DEF ObserveAbort, NotFenced, OpRow
    <3>. QED BY <1>1, <2>2, <2>4, <3>1 DEF ObserveAbort, sessionVars
  <2>5. ASSUME NEW x \in Operations, RecordAbort(x) PROVE run'[r].abort
    <3>1. op' = [op EXCEPT ![x] = Receipt(x, IF op[x].blocks THEN "fenced" ELSE "done",
                                          {op[x].run} \cap Running(op[x].thread))]
      BY <2>5, Zenon DEF RecordAbort
    <3>2. /\ op[x].phase = "observed"
          /\ op'[x].thread = op[x].thread
          /\ op[x].blocks => op'[x].phase = "fenced"
          /\ \A y \in Operations \ {x} : op'[y] = op[y]
      BY <1>0, <2>5, <3>1 DEF RecordAbort, Receipt
    <3>3. NotFenced(t)
      BY <1>1, <3>2 DEF NotFenced
    <3>4. t \in blocked
      BY <1>1, <2>5, <3>2 DEF RecordAbort, NotFenced
    <3>. QED BY <2>2, <3>3, <3>4
  <2>6. ASSUME NEW x \in Operations, ReconcileAbort(x) PROVE run'[r].abort
    <3>1. CASE op[x].thread = t
      <4>1. run'[r] = [run[r] EXCEPT !.abort = run[r].abort \/ r \in Running(t)]
        BY <2>6, <3>1 DEF ReconcileAbort, Aborted
      <4>2. r \in Running(t)
        BY <2>1 DEF Running
      <4>. QED BY <1>0, <4>1, <4>2 DEF RunRow
    <3>2. CASE op[x].thread # t
      <4>1. NotFenced(t)
        BY <1>0, <1>1, <2>6, <3>2 DEF ReconcileAbort, NotFenced, OpRow
      <4>. QED BY <1>1, <2>2, <2>6, <4>1 DEF ReconcileAbort, sessionVars
    <3>. QED BY <3>1, <3>2
  <2>. QED BY <2>3, <2>4, <2>5, <2>6, FenceEffect
<1>3. CASE \E q \in Runs : Started(q)
  <2>1. PICK q \in Runs, n \in Orders \cup {0} :
          /\ attempt[q].thread \notin blocked
          /\ run' = [run EXCEPT ![q] = [status |-> "running", thread |-> attempt[q].thread,
                                        owner |-> attempt[q].daemon, cutoff |-> n,
                                        abort |-> FALSE]]
          /\ UNCHANGED <<blocked, op>>
    BY <1>3 DEF Started, Insertable, Claimable, sessionVars
  <2>2. r # q
    BY <1>0, <1>1, <2>1
  <2>. QED BY <1>0, <1>1, <2>1, <2>2 DEF FencedRunsAborted, NotFenced, Running
<1>. QED BY <1>2, <1>3, RunEffect

LEMMA FencedInit == Init => FencedRunsAborted
  BY DEF Init, FencedRunsAborted

(* Once the run-blocking aborts of a thread have returned, whatever still   *)
(* runs behind their fence has been told to abort: the claim that committed *)
(* between the abort's snapshot and its fence is found by the fresh         *)
(* statement, and no claim commits behind the fence.                        *)
THEOREM FenceAbortsWhatRuns == Spec => []FencedRunsAborted
  BY FencedInit, FencedStep, TypeCorrect, PTL DEF Spec

----------------------------------------------------------------------------
(* The startup pass.                                                       *)

\* What an abort has observed is a run of the thread it names.
ObservedRuns ==
  \A x \in Operations : op[x].phase = "observed" /\ op[x].run # Nobody =>
    /\ run[op[x].run].status # "absent"
    /\ run[op[x].run].thread = op[x].thread

LEMMA ObservedStep ==
  ASSUME TypeOK, ObservedRuns, [Next]_vars PROVE ObservedRuns'
<1>0. op \in [Operations -> OpRow] /\ run \in [Runs -> RunRow]
  BY TypeParts DEF Typed, OpTyped, RunTyped
<1>1. SUFFICES ASSUME NEW x \in Operations, op'[x].phase = "observed", op'[x].run # Nobody
               PROVE  /\ run'[op'[x].run].status # "absent"
                      /\ run'[op'[x].run].thread = op'[x].thread
  BY DEF ObservedRuns
<1>2. /\ op'[x].run \in Runs
      /\ run[op'[x].run].status # "absent"
      /\ run[op'[x].run].thread = op'[x].thread
  <2>1. CASE op'[x] = op[x]
    BY <1>0, <1>1, <2>1 DEF ObservedRuns, OpRow
  <2>2. ASSUME NEW y \in Operations, NEW t \in Threads, NEW b \in BOOLEAN, ObserveAbort(y, t, b)
        PROVE  /\ op'[x].run \in Runs
               /\ run[op'[x].run].status # "absent"
               /\ run[op'[x].run].thread = op'[x].thread
    <3>1. CASE x = y
      <4>1. PICK q \in Runs \cup {Nobody} :
              /\ IF Running(t) = {} THEN q = Nobody ELSE q \in Running(t)
              /\ op' = [op EXCEPT ![y] = [phase |-> "observed", blocks |-> b,
                                          thread |-> t, run |-> q]]
        BY <2>2 DEF ObserveAbort
      <4>. QED BY <1>0, <1>1, <3>1, <4>1 DEF Running
    <3>2. CASE x # y
      <4>1. op'[x] = op[x]
        BY <1>0, <2>2, <3>2 DEF ObserveAbort
      <4>. QED BY <2>1, <4>1
    <3>. QED BY <3>1, <3>2
  <2>3. ASSUME NEW y \in Operations, RecordAbort(y) PROVE op'[x] = op[x]
    <3>1. op' = [op EXCEPT ![y] = Receipt(y, IF op[y].blocks THEN "fenced" ELSE "done",
                                          {op[y].run} \cap Running(op[y].thread))]
      BY <2>3, Zenon DEF RecordAbort
    <3>. QED BY <1>0, <1>1, <3>1 DEF Receipt
  <2>4. ASSUME NEW y \in Operations, ReconcileAbort(y) PROVE op'[x] = op[x]
    BY <1>0, <1>1, <2>4 DEF ReconcileAbort, OpRow
  <2>. QED BY <2>1, <2>2, <2>3, <2>4, FenceEffect
<1>3. CASE NoneStarted
  BY <1>2, <1>3 DEF NoneStarted
<1>4. CASE \E q \in Runs : Started(q)
  BY <1>0, <1>2, <1>4 DEF Started, Insertable
<1>. QED BY <1>3, <1>4, RunEffect

\* The lease row and the daemons' phases change in steps of their own.
LEMMA LeaseEffect ==
  ASSUME [Next]_vars
  PROVE  \/ UNCHANGED leaseVars
         \/ /\ UNCHANGED <<run, op>>
            /\ \/ Expire
               \/ \E d \in Daemons : Start(d) \/ Stop(d) \/ Exit(d) \/ Release(d) \/ FinishRecovery(d)
<1>. USE DEF leaseVars, sessionVars, wakeVars, attemptVars
<1>1. CASE ClaimStep
  BY <1>1 DEF ClaimStep, Admit, SendClaim, CommitClaim, LoseClaim, CommitLateClaim, Reread
<1>2. CASE DaemonStep
  BY <1>2 DEF DaemonStep, Expire, Start, Stop, Exit, Release, FinishRecovery, RecoverOrphan
<1>3. CASE WakeStep
  BY <1>3 DEF WakeStep, Enqueue, ResolveDuplicate, RequestWake, Flush
<1>4. CASE ExecutorStep
  BY <1>4, ExecutorLeaves
<1>5. CASE ControlStep
  BY <1>5
     DEF ControlStep, AbortDirect, ObserveAbort, RecordAbort, ReconcileAbort, Reset,
         Archive, Restore
<1>. QED BY <1>1, <1>2, <1>3, <1>4, <1>5 DEF Next, vars

LEMMA OrphanStep ==
  ASSUME TypeOK, ObservedRuns, OrphansRecovered, [Next]_vars PROVE OrphansRecovered'
<1>0. /\ op \in [Operations -> OpRow] /\ run \in [Runs -> RunRow]
      /\ phase \in [Daemons -> Phases]
  BY TypeParts DEF Typed, OpTyped, RunTyped, LeaseTyped
<1>1. SUFFICES ASSUME NEW d \in Daemons, phase'[d] \in {"serving", "stopping"}, IsOwner(d)',
                      NEW r \in Runs, run'[r].status = "running", run'[r].owner # d
               PROVE  run'[r].abort \/ LockedByAbort(r)'
  BY DEF OrphansRecovered
<1>2. CASE UNCHANGED leaseVars
  <2>1. CASE \E q \in Runs : Started(q)
    <3>1. PICK q \in Runs, n \in Orders \cup {0} :
            /\ lease = attempt[q].daemon
            /\ run' = [run EXCEPT ![q] = [status |-> "running", thread |-> attempt[q].thread,
                                          owner |-> attempt[q].daemon, cutoff |-> n,
                                          abort |-> FALSE]]
            /\ UNCHANGED op
      BY <2>1 DEF Started, Insertable
    <3>2. r # q
      BY <1>0, <1>1, <1>2, <3>1 DEF IsOwner, leaseVars
    <3>. QED BY <1>0, <1>1, <1>2, <3>1, <3>2 DEF OrphansRecovered, IsOwner, LockedByAbort, leaseVars
  <2>2. CASE NoneStarted
    <3>1. run[r].status = "running" /\ run[r].owner # d /\ (run[r].abort => run'[r].abort)
      BY <1>1, <2>2 DEF NoneStarted
    <3>2. run[r].abort \/ LockedByAbort(r)
      BY <1>1, <1>2, <3>1 DEF OrphansRecovered, IsOwner, leaseVars
    <3>3. CASE UNCHANGED op
      BY <3>1, <3>2, <3>3 DEF LockedByAbort
    <3>4. ASSUME NEW x \in Operations, NEW t \in Threads, NEW b \in BOOLEAN, ObserveAbort(x, t, b)
          PROVE  LockedByAbort(r) => LockedByAbort(r)'
      BY <1>0, <3>4 DEF ObserveAbort, LockedByAbort
    <3>5. ASSUME NEW x \in Operations, ReconcileAbort(x)
          PROVE  LockedByAbort(r) => LockedByAbort(r)'
      BY <1>0, <3>5 DEF ReconcileAbort, LockedByAbort
    <3>6. ASSUME NEW x \in Operations, RecordAbort(x)
          PROVE  LockedByAbort(r) => LockedByAbort(r)' \/ run'[r].abort
      <4>1. op' = [op EXCEPT ![x] = Receipt(x, IF op[x].blocks THEN "fenced" ELSE "done",
                                            {op[x].run} \cap Running(op[x].thread))]
        BY <3>6, Zenon DEF RecordAbort
      <4>2. CASE op[x].run = r
        <5>1. r \in {op[x].run} \cap Running(op[x].thread)
          <6>1. r # Nobody
            BY RunClaimsAssumption
          <6>. QED BY <3>1, <3>6, <4>2, <6>1 DEF RecordAbort, ObservedRuns, Running
        <5>2. run'[r] = [run[r] EXCEPT !.abort = run[r].abort \/ TRUE]
          BY <3>6, <5>1, Zenon DEF RecordAbort, Aborted
        <5>. QED BY <1>0, <5>2 DEF RunRow
      <4>3. CASE op[x].run # r
        BY <1>0, <4>1, <4>3 DEF LockedByAbort
      <4>. QED BY <4>2, <4>3
    <3>. QED BY <3>1, <3>2, <3>3, <3>4, <3>5, <3>6, FenceEffect
  <2>. QED BY <2>1, <2>2, RunEffect
<1>3. CASE UNCHANGED <<run, op>>
  <2>1. run[r].status = "running" /\ run[r].owner # d
    BY <1>1, <1>3
  <2>2. CASE phase[d] \in {"serving", "stopping"} /\ IsOwner(d)
    BY <1>3, <2>1, <2>2 DEF OrphansRecovered, LockedByAbort
  <2>3. CASE Expire
    BY <1>1, <2>3 DEF Expire, IsOwner
  <2>4. ASSUME NEW e \in Daemons, Start(e) \/ Stop(e) \/ Exit(e) \/ Release(e)
        PROVE  phase[d] \in {"serving", "stopping"} /\ IsOwner(d)
    BY <1>0, <1>1, <2>4, RunClaimsAssumption DEF Start, Stop, Exit, Release, IsOwner, Phases
  <2>5. ASSUME NEW e \in Daemons, FinishRecovery(e)
        PROVE  run'[r].abort \/ LockedByAbort(r)'
    <3>1. CASE e = d
      <4>1. r \in Orphans
        BY <1>1, <2>1, <2>5 DEF FinishRecovery, IsOwner, Orphans
      <4>2. IsOwner(d)
        BY <1>1, <2>5 DEF FinishRecovery, IsOwner
      <4>3. LockedByAbort(r)
        BY <2>5, <3>1, <4>1, <4>2, Zenon DEF FinishRecovery
      <4>. QED BY <1>3, <4>3 DEF LockedByAbort
    <3>2. CASE e # d
      BY <1>0, <1>1, <2>2, <2>5, <3>2 DEF FinishRecovery, IsOwner
    <3>. QED BY <3>1, <3>2
  <2>. QED BY <1>2, <1>3, <2>2, <2>3, <2>4, <2>5, LeaseEffect
<1>. QED BY <1>2, <1>3, LeaseEffect

LEMMA OrphanInit == Init => ObservedRuns /\ OrphansRecovered
  BY DEF Init, ObservedRuns, OrphansRecovered

(* A daemon that serves under a live lease shares the table with no run of  *)
(* another incarnation, except one that an abort had locked while the       *)
(* startup pass looked at it, and that one is or will be told to abort.     *)
THEOREM TakeoverLeavesNoOrphan == Spec => []OrphansRecovered
<1>1. TypeOK /\ ObservedRuns /\ OrphansRecovered /\ [Next]_vars
      => ObservedRuns' /\ OrphansRecovered'
  BY ObservedStep, OrphanStep
<1>. QED BY <1>1, OrphanInit, TypeCorrect, PTL DEF Spec
=============================================================================
