-------------------------- MODULE RunClaimsProofs --------------------------
(***************************************************************************)
(* Theorems about RunClaims for any daemons, threads, inputs, runs, abort  *)
(* operations and page size.                                               *)
(***************************************************************************)
EXTENDS RunClaims, TLAPS

InputRow == [status : {"absent", "pending", "applied", "discarded"},
             thread : Threads, wake : Owed]

RunRow == [status : {"absent", "running", "completed", "failed"}, thread : Threads,
           owner : Daemons \cup {Nobody}, cutoff : Orders \cup {0}, abort : BOOLEAN]

AttemptRow == [pc : Programs, daemon : Daemons \cup {Nobody}, thread : Threads,
               drain : BOOLEAN]

OpRow == [phase : {"new", "observed", "fenced", "done"}, blocks : BOOLEAN,
          thread : Threads, run : Runs \cup {Nobody}]

\* The parts of TypeOK, one for each group of variables.
LeaseTyped   == lease \in Daemons \cup {Nobody} /\ live \in BOOLEAN /\ phase \in [Daemons -> Phases]
SessionTyped == /\ current \in Threads /\ used \subseteq Threads
                /\ archived \in BOOLEAN /\ blocked \subseteq Threads
WakeTyped    == /\ armed \in BOOLEAN /\ generation \in Nat /\ compaction \in BOOLEAN
                /\ input \in [Orders -> InputRow]
RunTyped     == run \in [Runs -> RunRow]
AttemptTyped == /\ attempt \in [Runs -> AttemptRow]
                /\ stmt \in [Runs -> SnapshotType] /\ late \in [Runs -> SnapshotType]
OpTyped      == op \in [Operations -> OpRow]

Typed == LeaseTyped /\ SessionTyped /\ WakeTyped /\ RunTyped /\ AttemptTyped /\ OpTyped

LEMMA TypeParts == (TypeOK <=> Typed) /\ (TypeOK' <=> Typed')
  BY DEF TypeOK, Typed, LeaseTyped, SessionTyped, WakeTyped, RunTyped, AttemptTyped, OpTyped,
         InputRow, RunRow, AttemptRow, OpRow

----------------------------------------------------------------------------
(* What the helpers return.                                                *)

\* Arming the latch only rewrites what inputs are owed.
LEMMA WokenTyped ==
  ASSUME NEW inputs \in [Orders -> InputRow] PROVE Woken(inputs) \in [Orders -> InputRow]
<1>. SUFFICES ASSUME NEW o \in Orders, NEW w \in {"owed", "renewed"}
              PROVE  [inputs[o] EXCEPT !.wake = w] \in InputRow
  BY DEF Woken
<1>. QED BY DEF InputRow, Owed

LEMMA ArmTyped ==
  ASSUME WakeTyped, NEW inputs \in [Orders -> InputRow], Arm(inputs),
         compaction' \in BOOLEAN
  PROVE  WakeTyped'
  BY WokenTyped DEF WakeTyped, Arm

LEMMA DormantTyped ==
  ASSUME WakeTyped, NEW r \in Runs PROVE Dormant(r) \in [Orders -> InputRow]
<1>1. \A o \in Orders : input[o] \in InputRow /\ input[o].wake \in Owed
  BY DEF WakeTyped, InputRow
<1>2. \A w \in Owed : Forgotten(w) \in Owed
  BY DEF Forgotten, Owed
<1>3. \A o \in Orders : [input[o] EXCEPT !.wake = Forgotten(input[o].wake)] \in InputRow
  BY <1>1, <1>2 DEF InputRow
<1>. QED BY <1>1, <1>3 DEF Dormant

LEMMA GotoTyped ==
  ASSUME AttemptTyped, NEW r \in Runs, NEW pc \in Programs, Goto(r, pc)
  PROVE  attempt' \in [Runs -> AttemptRow]
<1>1. PICK q \in Programs : attempt' = [attempt EXCEPT ![r].pc = q]
  BY Zenon DEF Goto, Programs
<1>. QED BY <1>1 DEF AttemptTyped, AttemptRow

LEMMA SnapshotTyped ==
  ASSUME WakeTyped, NEW t, NEW observed \in BOOLEAN
  PROVE  Snapshot(t, observed) \in SnapshotType
  BY DEF WakeTyped, Snapshot, Pending, SnapshotType

LEMMA NoSnapshotTyped == NoSnapshot \in SnapshotType
  BY DEF NoSnapshot, SnapshotType

LEMMA FailRunTyped ==
  ASSUME WakeTyped, RunTyped, NEW r \in Runs, NEW force, FailRun(r, force)
  PROVE  WakeTyped' /\ RunTyped'
<1>1. RunTyped'
  BY DEF FailRun, EndedRun, RunTyped, RunRow
<1>2. compaction' \in BOOLEAN
  BY DEF FailRun, WakeTyped
<1>3. CASE Rearms(r, force)
  BY <1>1, <1>2, <1>3, ArmTyped DEF FailRun, WakeTyped
<1>4. CASE ~Rearms(r, force)
  BY <1>1, <1>2, <1>4, DormantTyped DEF FailRun, WakeTyped
<1>. QED BY <1>3, <1>4

LEMMA CompleteRunTyped ==
  ASSUME WakeTyped, RunTyped, NEW r \in Runs, CompleteRun(r)
  PROVE  WakeTyped' /\ RunTyped'
<1>1. RunTyped'
  BY DEF CompleteRun, EndedRun, RunTyped, RunRow
<1>2. WakeTyped'
  BY DormantTyped DEF CompleteRun, WakeTyped
<1>. QED BY <1>1, <1>2

LEMMA SettleTyped ==
  ASSUME TypeOK, NEW r \in Runs, Goto(r, "over"),
         UNCHANGED <<leaseVars, sessionVars, stmt, late, op>>, WakeTyped', RunTyped'
  PROVE  TypeOK'
<1>1. "over" \in Programs
  BY DEF Programs
<1>2. attempt' \in [Runs -> AttemptRow]
  BY <1>1, TypeParts, GotoTyped DEF Typed
<1>3. AttemptTyped'
  BY <1>2, TypeParts DEF Typed, AttemptTyped
<1>4. LeaseTyped' /\ SessionTyped' /\ OpTyped'
  BY TypeParts DEF Typed, leaseVars, sessionVars, LeaseTyped, SessionTyped, OpTyped
<1>. QED BY <1>3, <1>4, TypeParts DEF Typed

LEMMA InsertRunTyped ==
  ASSUME RunTyped, AttemptTyped, WakeTyped, NEW r \in Runs, NEW s \in SnapshotType, InsertRun(r, s)
  PROVE  RunTyped' /\ armed' \in BOOLEAN
<1>1. armed' \in BOOLEAN
  BY DEF InsertRun, ConsumeWake, WakeTyped
<1>2. attempt[r].thread \in Threads /\ attempt[r].daemon \in Daemons \cup {Nobody}
  BY DEF AttemptTyped, AttemptRow
<1>3. RunTyped'
  BY <1>2 DEF InsertRun, RunTyped, RunRow
<1>. QED BY <1>1, <1>3

----------------------------------------------------------------------------
(* Type correctness, one lemma per kind of step.                           *)

LEMMA DaemonTyped == TypeOK /\ DaemonStep => TypeOK'
<1>. SUFFICES ASSUME TypeOK, DaemonStep PROVE TypeOK'
  OBVIOUS
<1>. USE DEF leaseVars, sessionVars, wakeVars, attemptVars
<1>0. LeaseTyped /\ SessionTyped /\ WakeTyped /\ RunTyped /\ AttemptTyped /\ OpTyped
  BY TypeParts DEF Typed
<1>1. CASE Expire
  BY <1>1 DEF Expire, TypeOK
<1>2. ASSUME NEW d \in Daemons, Start(d) \/ Stop(d) \/ Release(d) \/ FinishRecovery(d)
      PROVE  TypeOK'
  <2>1. LeaseTyped'
    BY <1>0, <1>2 DEF Start, Stop, Release, FinishRecovery, LeaseTyped, Phases
  <2>2. SessionTyped' /\ WakeTyped' /\ RunTyped' /\ AttemptTyped' /\ OpTyped'
    BY <1>0, <1>2 DEF Start, Stop, Release, FinishRecovery, SessionTyped, WakeTyped,
                      RunTyped, AttemptTyped, OpTyped
  <2>. QED BY <2>1, <2>2, TypeParts DEF Typed
<1>3. ASSUME NEW d \in Daemons, Exit(d) PROVE TypeOK'
  <2>1. LeaseTyped'
    BY <1>0, <1>3 DEF Exit, LeaseTyped, Phases
  <2>2. attempt' \in [Runs -> AttemptRow]
    <3>1. \A r \in Runs : [attempt[r] EXCEPT !.pc = "over"] \in AttemptRow
      BY <1>0 DEF AttemptTyped, AttemptRow, Programs
    <3>. QED BY <1>0, <1>3, <3>1 DEF Exit, AttemptTyped
  <2>3. SessionTyped' /\ WakeTyped' /\ RunTyped' /\ AttemptTyped' /\ OpTyped'
    BY <1>0, <1>3, <2>2 DEF Exit, SessionTyped, WakeTyped, RunTyped, AttemptTyped, OpTyped
  <2>. QED BY <2>1, <2>3, TypeParts DEF Typed
<1>4. ASSUME NEW d \in Daemons, NEW r \in Runs, RecoverOrphan(d, r) PROVE TypeOK'
  <2>1. WakeTyped' /\ RunTyped'
    BY <1>0, <1>4, FailRunTyped DEF RecoverOrphan
  <2>2. LeaseTyped' /\ SessionTyped' /\ AttemptTyped' /\ OpTyped'
    BY <1>0, <1>4 DEF RecoverOrphan, LeaseTyped, SessionTyped, AttemptTyped, OpTyped
  <2>. QED BY <2>1, <2>2, TypeParts DEF Typed
<1>. QED BY <1>1, <1>2, <1>3, <1>4 DEF DaemonStep

LEMMA WakeTypedStep == TypeOK /\ WakeStep => TypeOK'
<1>. SUFFICES ASSUME TypeOK, WakeStep PROVE TypeOK'
  OBVIOUS
<1>. USE DEF leaseVars, sessionVars, wakeVars, attemptVars
<1>0. LeaseTyped /\ SessionTyped /\ WakeTyped /\ RunTyped /\ AttemptTyped /\ OpTyped
  BY TypeParts DEF Typed
<1>1. LeaseTyped' /\ SessionTyped' /\ RunTyped' /\ AttemptTyped' /\ OpTyped' /\ compaction' \in BOOLEAN
  BY <1>0 DEF WakeStep, Enqueue, ResolveDuplicate, RequestWake, Flush,
              LeaseTyped, SessionTyped, WakeTyped, RunTyped, AttemptTyped, OpTyped
<1>2. CASE Arm(input)
  <2>1. WakeTyped'
    BY <1>0, <1>1, <1>2, ArmTyped DEF WakeTyped
  <2>. QED BY <1>1, <2>1, TypeParts DEF Typed
<1>3. ASSUME NEW o \in Orders, NEW mode \in {"wake", "queue"}, Enqueue(o, mode)
      PROVE  TypeOK'
  <2>. DEFINE inputs == [input EXCEPT ![o] = [status |-> "pending", thread |-> current, wake |-> "none"]]
  <2>1. inputs \in [Orders -> InputRow]
    BY <1>0 DEF WakeTyped, SessionTyped, InputRow, Owed
  <2>2. \/ Arm(inputs)
        \/ input' = inputs /\ UNCHANGED <<armed, generation>>
    BY <1>3 DEF Enqueue
  <2>3. WakeTyped'
    BY <1>0, <1>1, <2>1, <2>2, ArmTyped DEF WakeTyped
  <2>. QED BY <1>1, <2>3, TypeParts DEF Typed
<1>. QED BY <1>2, <1>3 DEF WakeStep, ResolveDuplicate, RequestWake, Flush

LEMMA ClaimTyped == TypeOK /\ ClaimStep => TypeOK'
<1>. SUFFICES ASSUME TypeOK, ClaimStep PROVE TypeOK'
  OBVIOUS
<1>. USE DEF leaseVars, sessionVars, wakeVars, attemptVars
<1>0. LeaseTyped /\ SessionTyped /\ WakeTyped /\ RunTyped /\ AttemptTyped /\ OpTyped
  BY TypeParts DEF Typed
<1>1. LeaseTyped' /\ SessionTyped' /\ OpTyped'
  BY <1>0 DEF ClaimStep, Admit, SendClaim, CommitClaim, LoseClaim, CommitLateClaim, Reread,
              LeaseTyped, SessionTyped, OpTyped
<1>2. ASSUME NEW d \in Daemons, NEW t \in Threads, NEW r \in Runs, Admit(d, t, r)
      PROVE  WakeTyped' /\ RunTyped' /\ AttemptTyped'
  BY <1>0, <1>2 DEF Admit, WakeTyped, RunTyped, AttemptTyped, AttemptRow, Programs
<1>3. ASSUME NEW r \in Runs, SendClaim(r) PROVE WakeTyped' /\ RunTyped' /\ AttemptTyped'
  <2>1. WakeTyped' /\ RunTyped' /\ late' = late
    BY <1>0, <1>3 DEF SendClaim, WakeTyped, RunTyped
  <2>2. PICK pc \in Programs, drain \in BOOLEAN :
          attempt' = [attempt EXCEPT ![r] = [pc |-> pc, daemon |-> attempt[r].daemon,
                                             thread |-> attempt[r].thread, drain |-> drain]]
    BY <1>3, Zenon DEF SendClaim, Claimed, Programs
  <2>3. attempt' \in [Runs -> AttemptRow]
    BY <1>0, <2>2 DEF AttemptTyped, AttemptRow
  <2>4. stmt' \in [Runs -> SnapshotType]
    <3>1. stmt' = stmt \/ stmt' = [stmt EXCEPT ![r] = Snapshot(attempt[r].thread, TRUE)]
      BY <1>3, Zenon DEF SendClaim
    <3>2. Snapshot(attempt[r].thread, TRUE) \in SnapshotType
      BY <1>0, SnapshotTyped
    <3>. QED BY <1>0, <3>1, <3>2 DEF AttemptTyped
  <2>. QED BY <1>0, <2>1, <2>3, <2>4 DEF AttemptTyped
<1>4. ASSUME NEW r \in Runs, CommitClaim(r) PROVE WakeTyped' /\ RunTyped' /\ AttemptTyped'
  <2>1. Claimed(attempt[r].drain) \in Programs /\ "rereading" \in Programs
    BY DEF Claimed, Programs
  <2>2. attempt' \in [Runs -> AttemptRow]
    BY <1>0, <1>4, <2>1, GotoTyped DEF CommitClaim
  <2>3. RunTyped' /\ armed' \in BOOLEAN
    BY <1>0, <1>4, InsertRunTyped DEF CommitClaim, AttemptTyped, RunTyped, WakeTyped
  <2>. QED BY <1>0, <1>4, <2>2, <2>3, NoSnapshotTyped DEF CommitClaim, WakeTyped, AttemptTyped
<1>5. ASSUME NEW r \in Runs, LoseClaim(r) PROVE WakeTyped' /\ RunTyped' /\ AttemptTyped'
  <2>1. attempt' \in [Runs -> AttemptRow]
    BY <1>0, <1>5, GotoTyped DEF LoseClaim, Programs
  <2>. QED BY <1>0, <1>5, <2>1, NoSnapshotTyped DEF LoseClaim, WakeTyped, RunTyped, AttemptTyped
<1>6. ASSUME NEW r \in Runs, CommitLateClaim(r) PROVE WakeTyped' /\ RunTyped' /\ AttemptTyped'
  <2>1. RunTyped' /\ armed' \in BOOLEAN
    BY <1>0, <1>6, InsertRunTyped DEF CommitLateClaim, AttemptTyped, RunTyped, WakeTyped
  <2>. QED BY <1>0, <1>6, <2>1, NoSnapshotTyped DEF CommitLateClaim, WakeTyped, AttemptTyped
<1>7. ASSUME NEW r \in Runs, Reread(r) PROVE WakeTyped' /\ RunTyped' /\ AttemptTyped'
  <2>1. PICK pc \in Programs : Goto(r, pc)
    BY <1>7, Zenon DEF Reread, Claimed, Programs
  <2>2. attempt' \in [Runs -> AttemptRow]
    BY <1>0, <2>1, GotoTyped
  <2>. QED BY <1>0, <1>7, <2>2 DEF Reread, WakeTyped, RunTyped, AttemptTyped
<1>. QED
  BY <1>1, <1>2, <1>3, <1>4, <1>5, <1>6, <1>7, TypeParts DEF Typed, ClaimStep

LEMMA GuardedTyped ==
  ASSUME Typed, NEW r \in Runs, NEW from, NEW to \in Programs, NEW observed \in BOOLEAN,
         SendGuarded(r, from, to, observed)
  PROVE  AttemptTyped'
<1>1. attempt' \in [Runs -> AttemptRow]
  BY GotoTyped DEF Typed, SendGuarded, Programs
<1>2. stmt' = stmt \/ stmt' = [stmt EXCEPT ![r] = Snapshot(attempt[r].thread, observed)]
  BY Zenon DEF SendGuarded
<1>3. Snapshot(attempt[r].thread, observed) \in SnapshotType
  BY SnapshotTyped DEF Typed
<1>. QED BY <1>1, <1>2, <1>3 DEF Typed, SendGuarded, AttemptTyped

LEMMA ExecutorTyped == TypeOK /\ ExecutorStep => TypeOK'
<1>. SUFFICES ASSUME TypeOK, NEW r \in Runs,
                     \/ SendApply(r) \/ CommitApply(r) \/ SettleCompaction(r) \/ Prepare(r)
                     \/ RequestCompaction(r) \/ Step(r) \/ SendBoundary(r) \/ CommitBoundary(r)
                     \/ Throw(r) \/ Complete(r) \/ Fail(r) \/ FailBeforeExecution(r)
              PROVE  TypeOK'
  BY DEF ExecutorStep
<1>. USE DEF leaseVars, sessionVars, wakeVars, attemptVars
<1>0. LeaseTyped /\ SessionTyped /\ WakeTyped /\ RunTyped /\ AttemptTyped /\ OpTyped
  BY TypeParts DEF Typed
<1>1. ASSUME UNCHANGED <<leaseVars, sessionVars, op>>, WakeTyped', RunTyped', AttemptTyped'
      PROVE  TypeOK'
  <2>1. LeaseTyped' /\ SessionTyped' /\ OpTyped'
    BY <1>0, <1>1 DEF LeaseTyped, SessionTyped, OpTyped
  <2>. QED BY <1>1, <2>1, TypeParts DEF Typed
<1>2. ASSUME UNCHANGED <<leaseVars, sessionVars, run, stmt, late, op>>, WakeTyped',
             NEW pc \in Programs, Goto(r, pc)
      PROVE  TypeOK'
  <2>1. attempt' \in [Runs -> AttemptRow]
    BY <1>0, <1>2, GotoTyped
  <2>. QED BY <1>0, <1>1, <1>2, <2>1 DEF RunTyped, AttemptTyped
<1>3. CASE SendApply(r) \/ SendBoundary(r)
  <2>1. PICK from \in Programs, to \in Programs, observed \in BOOLEAN :
          SendGuarded(r, from, to, observed)
    <3>1. armed \in BOOLEAN /\ (armed /\ current = attempt[r].thread /\ ~archived) \in BOOLEAN
      BY <1>0 DEF WakeTyped
    <3>. QED BY <1>3, <3>1 DEF SendApply, SendBoundary, Programs
  <2>2. AttemptTyped'
    BY <2>1, GuardedTyped, TypeParts
  <2>. QED BY <1>0, <1>1, <2>1, <2>2 DEF SendGuarded, WakeTyped, RunTyped
<1>4. CASE CommitApply(r)
  <2>. DEFINE page(n) == FirstPage({o \in stmt[r].pending \cap Pending(attempt[r].thread) : o <= n})
  <2>1. CASE ~LockedActiveRun(r)
    <3>1. attempt' \in [Runs -> AttemptRow]
      BY <1>0, <1>4, <2>1, GotoTyped DEF CommitApply, Programs
    <3>. QED BY <1>0, <1>1, <1>4, <2>1, <3>1, NoSnapshotTyped
             DEF CommitApply, WakeTyped, RunTyped, AttemptTyped
  <2>2. CASE LockedActiveRun(r)
    <3>1. PICK n \in Orders \cup {0}, pc \in Programs :
            /\ run' = [run EXCEPT ![r].cutoff = n]
            /\ input' = [o \in Orders |-> IF o \in page(n)
                            THEN [input[o] EXCEPT !.status = "applied"] ELSE input[o]]
            /\ ConsumeWake(stmt[r])
            /\ Goto(r, pc)
      BY <1>4, <2>2 DEF CommitApply, Programs
    <3>. HIDE DEF page
    <3>2. RunTyped'
      BY <1>0, <3>1 DEF RunTyped, RunRow
    <3>3. input' \in [Orders -> InputRow]
      <4>1. \A o \in Orders : [input[o] EXCEPT !.status = "applied"] \in InputRow
        BY <1>0 DEF WakeTyped, InputRow
      <4>. QED BY <1>0, <3>1, <4>1 DEF WakeTyped
    <3>4. attempt' \in [Runs -> AttemptRow]
      BY <1>0, <3>1, GotoTyped
    <3>5. armed' \in BOOLEAN
      BY <3>1 DEF ConsumeWake
    <3>. QED BY <1>0, <1>1, <1>4, <3>2, <3>3, <3>4, <3>5, NoSnapshotTyped
             DEF CommitApply, WakeTyped, AttemptTyped
  <2>. QED BY <2>1, <2>2
<1>5. CASE CommitBoundary(r)
  <2>1. CASE ~LockedActiveRun(r)
    <3>1. attempt' \in [Runs -> AttemptRow]
      BY <1>0, <1>5, <2>1, GotoTyped DEF CommitBoundary, Programs
    <3>. QED BY <1>0, <1>1, <1>5, <2>1, <3>1, NoSnapshotTyped
             DEF CommitBoundary, WakeTyped, RunTyped, AttemptTyped
  <2>2. CASE LockedActiveRun(r)
    <3>1. PICK n \in Orders \cup {0}, pc \in Programs :
            /\ run' = [run EXCEPT ![r].cutoff = n]
            /\ ConsumeWake(stmt[r])
            /\ Goto(r, pc)
      BY <1>5, <2>2 DEF CommitBoundary, Programs
    <3>2. RunTyped'
      BY <1>0, <3>1 DEF RunTyped, RunRow
    <3>3. attempt' \in [Runs -> AttemptRow]
      BY <1>0, <3>1, GotoTyped
    <3>4. armed' \in BOOLEAN
      BY <3>1 DEF ConsumeWake
    <3>. QED BY <1>0, <1>1, <1>5, <3>2, <3>3, <3>4, NoSnapshotTyped
             DEF CommitBoundary, WakeTyped, AttemptTyped
  <2>. QED BY <2>1, <2>2
<1>6. CASE SettleCompaction(r) \/ Prepare(r) \/ Step(r)
  <2>1. PICK pc \in Programs : Goto(r, pc)
    BY <1>6 DEF SettleCompaction, Prepare, Step, Programs
  <2>2. WakeTyped'
    BY <1>0, <1>6 DEF SettleCompaction, Prepare, Step, WakeTyped
  <2>. QED BY <1>2, <1>6, <2>1, <2>2 DEF SettleCompaction, Prepare, Step
<1>7. CASE RequestCompaction(r)
  <2>1. WakeTyped'
    BY <1>0, <1>7, ArmTyped DEF RequestCompaction, WakeTyped
  <2>. QED BY <1>0, <1>1, <1>7, <2>1 DEF RequestCompaction, RunTyped, AttemptTyped
<1>8. CASE Throw(r)
  <2>1. attempt' \in [Runs -> AttemptRow]
    BY <1>0, <1>8, GotoTyped DEF Throw, Programs
  <2>. QED BY <1>0, <1>1, <1>8, <2>1, NoSnapshotTyped DEF Throw, WakeTyped, RunTyped, AttemptTyped
<1>9. CASE Complete(r) \/ Fail(r) \/ FailBeforeExecution(r)
  <2>1. /\ Goto(r, "over")
        /\ UNCHANGED <<leaseVars, sessionVars, stmt, late, op>>
        /\ \/ CompleteRun(r)
           \/ \E force \in BOOLEAN : FailRun(r, force)
           \/ UNCHANGED <<run, wakeVars>>
    BY <1>9 DEF Complete, Fail, FailBeforeExecution, Settle
  <2>2. WakeTyped' /\ RunTyped'
    <3>1. CASE UNCHANGED <<run, wakeVars>>
      BY <1>0, <3>1 DEF WakeTyped, RunTyped
    <3>. QED BY <1>0, <2>1, <3>1, CompleteRunTyped, FailRunTyped
  <2>. QED BY <2>1, <2>2, SettleTyped
<1>. QED BY <1>3, <1>4, <1>5, <1>6, <1>7, <1>8, <1>9

LEMMA ControlTyped == TypeOK /\ ControlStep => TypeOK'
<1>. SUFFICES ASSUME TypeOK, ControlStep PROVE TypeOK'
  OBVIOUS
<1>. USE DEF leaseVars, sessionVars, wakeVars, attemptVars
<1>0. LeaseTyped /\ SessionTyped /\ WakeTyped /\ RunTyped /\ AttemptTyped /\ OpTyped
  BY TypeParts DEF Typed
<1>1. LeaseTyped' /\ AttemptTyped'
  BY <1>0 DEF ControlStep, AbortDirect, ObserveAbort, RecordAbort, ReconcileAbort, Reset, Archive,
              Restore, LeaseTyped, AttemptTyped
<1>2. \A runs : Aborted(runs) \in [Runs -> RunRow]
  <2>1. \A runs : \A r \in Runs : [run[r] EXCEPT !.abort = run[r].abort \/ r \in runs] \in RunRow
    BY <1>0 DEF RunTyped, RunRow
  <2>. QED BY <2>1 DEF Aborted
<1>3. ASSUME NEW t \in Threads, AbortDirect(t) PROVE TypeOK'
  BY <1>0, <1>1, <1>2, <1>3, TypeParts
     DEF Typed, AbortDirect, SessionTyped, WakeTyped, RunTyped, OpTyped
<1>4. ASSUME NEW x \in Operations, NEW t \in Threads, NEW b \in BOOLEAN, ObserveAbort(x, t, b)
      PROVE  TypeOK'
  <2>1. SessionTyped' /\ WakeTyped' /\ RunTyped'
    BY <1>0, <1>4 DEF ObserveAbort, SessionTyped, WakeTyped, RunTyped
  <2>2. OpTyped'
    BY <1>0, <1>4 DEF ObserveAbort, OpTyped, OpRow
  <2>. QED BY <1>1, <2>1, <2>2, TypeParts DEF Typed
<1>5. ASSUME NEW x \in Operations, RecordAbort(x) \/ ReconcileAbort(x) PROVE TypeOK'
  <2>1. SessionTyped'
    BY <1>0, <1>5 DEF RecordAbort, ReconcileAbort, SessionTyped, OpTyped, OpRow
  <2>2. WakeTyped' /\ RunTyped'
    BY <1>0, <1>2, <1>5 DEF RecordAbort, ReconcileAbort, WakeTyped, RunTyped
  <2>3. \A target : \A stage \in {"fenced", "done"} : Receipt(x, stage, target) \in OpRow
    BY <1>0 DEF OpTyped, Receipt, OpRow
  <2>4. OpTyped'
    <3>1. CASE RecordAbort(x)
      <4>. DEFINE stage  == IF op[x].blocks THEN "fenced" ELSE "done"
                  target == {op[x].run} \cap Running(op[x].thread)
      <4>1. stage \in {"fenced", "done"}
        OBVIOUS
      <4>2. op' = [op EXCEPT ![x] = Receipt(x, stage, target)]
        BY <3>1, Zenon DEF RecordAbort
      <4>. HIDE DEF stage, target
      <4>3. Receipt(x, stage, target) \in OpRow
        BY <2>3, <4>1
      <4>. QED BY <1>0, <4>2, <4>3 DEF OpTyped
    <3>2. CASE ReconcileAbort(x)
      BY <1>0, <3>2 DEF ReconcileAbort, OpTyped, OpRow
    <3>. QED BY <1>5, <3>1, <3>2
  <2>. QED BY <1>1, <2>1, <2>2, <2>4, TypeParts DEF Typed
<1>6. Discarded \in [Orders -> InputRow]
  <2>1. \A o \in Orders : [input[o] EXCEPT !.status = "discarded"] \in InputRow
    BY <1>0 DEF WakeTyped, InputRow
  <2>. QED BY <1>0, <2>1 DEF Discarded, WakeTyped
<1>7. ASSUME NEW d \in Daemons, NEW t \in Threads, Reset(d, t) PROVE TypeOK'
  BY <1>0, <1>1, <1>6, <1>7, TypeParts
     DEF Typed, Reset, SessionTyped, WakeTyped, RunTyped, OpTyped
<1>8. ASSUME NEW d \in Daemons, Archive(d) \/ Restore(d) PROVE TypeOK'
  BY <1>0, <1>1, <1>6, <1>8, TypeParts
     DEF Typed, Archive, Restore, SessionTyped, WakeTyped, RunTyped, OpTyped
<1>. QED BY <1>3, <1>4, <1>5, <1>7, <1>8 DEF ControlStep

LEMMA InitTyped == Init => TypeOK
<1>. SUFFICES ASSUME Init PROVE TypeOK
  OBVIOUS
<1>1. LeaseTyped /\ SessionTyped
  BY RunClaimsAssumption DEF Init, LeaseTyped, SessionTyped, Phases
<1>2. WakeTyped
  BY RunClaimsAssumption DEF Init, WakeTyped, InputRow, Owed
<1>3. RunTyped
  BY RunClaimsAssumption DEF Init, RunTyped, RunRow
<1>4. AttemptTyped
  BY RunClaimsAssumption, NoSnapshotTyped DEF Init, AttemptTyped, AttemptRow, Programs
<1>5. OpTyped
  BY RunClaimsAssumption DEF Init, OpTyped, OpRow
<1>. QED BY <1>1, <1>2, <1>3, <1>4, <1>5, TypeParts DEF Typed

LEMMA NextTyped == TypeOK /\ [Next]_vars => TypeOK'
<1>1. TypeOK /\ UNCHANGED vars => TypeOK'
  BY DEF TypeOK, vars, leaseVars, sessionVars, wakeVars, attemptVars
<1>. QED
  BY <1>1, DaemonTyped, WakeTypedStep, ClaimTyped, ExecutorTyped, ControlTyped DEF Next

(* Every row, executor and statement in flight has its type, whatever the  *)
(* numbers of daemons, threads, inputs, runs and abort operations.         *)
THEOREM TypeCorrect == Spec => []TypeOK
  BY InitTyped, NextTyped, PTL DEF Spec
=============================================================================
