-------------------------- MODULE ScheduledTasksProofs --------------------------
(***************************************************************************)
(* For any tasks, runners, fire times, lifecycle requests and faults: an   *)
(* ended occurrence tells what became of its input, only the holder of the *)
(* last claim settles it, and definitions fire on their schedules.         *)
(***************************************************************************)
EXTENDS ScheduledTasks, TLAPS

\* The work of a claim: everything but an idle runner and a list of due tasks.
Engaged(p) == work[p].phase \in {"submit", "link", "wait", "record", "fallback"}

\* A row's token is its last claim; a row that was never claimed has no input;
\* an ended row says what its input says for ever.
OccSafe(o) ==
    /\ occ[o].token \in {0, occ[o].claims}
    /\ occ[o].status \in {"absent", "pending", "cancelled"} => occ[o].claims = 0
    /\ occ[o].claims = 0 => input[o] = "none"
    /\ occ[o].linked => input[o] # "none"
    /\ occ[o].status = "succeeded" => input[o] = "completed"
    /\ occ[o].status = "failed" => input[o] \in {"discarded", "failed"} \/ o \in lost

\* A listed occurrence was due; a claim's work has a token its row has had; past
\* its submission the input exists, and a fallback that still holds the claim
\* knows of the input or of a submission without an answer.
WorkSafe(p) ==
    /\ work[p].phase = "listed" => work[p].occ \in Occurrence /\ work[p].occ[2] <= now
    /\ Engaged(p) =>
          work[p].occ \in Occurrence /\ work[p].token \in 1 .. occ[work[p].occ].claims
    /\ work[p].phase \in {"link", "wait", "record"} => input[work[p].occ] # "none"
    /\ work[p].phase = "fallback" /\ HoldsToken(work[p].occ, work[p].token)
       => input[work[p].occ] # "none" \/ work[p].occ \in lost

StraySafe(s) == s.token \in 1 .. occ[s.occ].claims

\* The archive's transaction leaves nothing active behind, and nothing becomes
\* active before the session is restored.
ArchiveSafe == session.archived => \A o \in Occurrence : ~Active(o)

IInv ==
    /\ TypeOK
    /\ \A o \in Occurrence : OccSafe(o)
    /\ \A p \in Runner : WorkSafe(p)
    /\ \A s \in stray : StraySafe(s)
    /\ ArchiveSafe

-------------------------------------------------------------------------------
\* Lemmas about the records of the tables and of the runners.

LEMMA Constants ==
  /\ MaxFire \in Nat /\ MaxFire > 0 /\ MaxRequests \in Nat /\ MaxFaults \in Nat
  /\ None \notin Runner /\ None \notin {"completed", "failed"} /\ Fire = 1 .. MaxFire
  BY TaskAssumption DEF Fire

LEMMA OccurrencePair ==
  ASSUME NEW o \in Occurrence
  PROVE  o[1] \in Task /\ o[2] \in Fire /\ o = <<o[1], o[2]>>
  BY DEF Occurrence

Inputs == {"none", "pending", "running", "completed", "failed", "discarded"}
Phases == {"idle", "listed", "submit", "link", "wait", "record", "fallback"}

LEMMA Typed ==
  ASSUME TypeOK
  PROVE  /\ \A t \in Task : task[t] \in TaskType
         /\ \A o \in Occurrence : /\ occ[o] \in OccType /\ input[o] \in Inputs
                                  /\ occ[o].claims \in Nat /\ occ[o].token \in Nat
                                  /\ occ[o].status \in Unended \cup Ended
         /\ \A p \in Runner : work[p] \in WorkType /\ work[p].token \in Nat
         /\ \A s \in stray : s \in StrayType
         /\ task \in [Task -> TaskType] /\ occ \in [Occurrence -> OccType]
         /\ input \in [Occurrence -> Inputs] /\ work \in [Runner -> WorkType]
  BY DEF TypeOK, OccType, WorkType, Inputs

LEMMA FaultTyped ==
  ASSUME TypeOK, Fault PROVE faults' \in 0 .. MaxFaults
  BY Constants DEF TypeOK, Fault

LEMMA IdleTyped == Idle \in WorkType /\ Idle.phase = "idle"
  BY Constants DEF Idle, WorkType

LEMMA Override ==
  ASSUME NEW S, NEW T, NEW f \in [S -> T], NEW x \in S, NEW y \in T
  PROVE  LET g == [f EXCEPT ![x] = y] IN
         g \in [S -> T] /\ g[x] = y /\ \A z \in S \ {x} : g[z] = f[z]
  OBVIOUS

LEMMA WorkEffect ==
  ASSUME TypeOK, NEW p \in Runner, NEW w \in WorkType, work' = [work EXCEPT ![p] = w]
  PROVE  /\ work' \in [Runner -> WorkType] /\ work'[p] = w
         /\ \A q \in Runner \ {p} : work'[q] = work[q]
  BY Typed, Override

LEMMA OccEffect ==
  ASSUME TypeOK, NEW o \in Occurrence, NEW v \in OccType, occ' = [occ EXCEPT ![o] = v]
  PROVE  /\ occ' \in [Occurrence -> OccType] /\ occ'[o] = v
         /\ \A q \in Occurrence \ {o} : occ'[q] = occ[q]
  BY Typed, Override

\* Goto moves a runner's work on and keeps its claim.
LEMMA GotoEffect ==
  ASSUME TypeOK, NEW p \in Runner, NEW phase \in Phases, NEW result \in {None, "completed", "failed"},
         Goto(p, phase, result)
  PROVE  /\ work' \in [Runner -> WorkType]
         /\ work'[p].phase = phase /\ work'[p].result = result
         /\ work'[p].occ = work[p].occ /\ work'[p].token = work[p].token
         /\ \A q \in Runner \ {p} : work'[q] = work[q]
<1>. DEFINE w == [work[p] EXCEPT !.phase = phase, !.result = result]
<1>1. /\ w \in WorkType /\ w.phase = phase /\ w.result = result
      /\ w.occ = work[p].occ /\ w.token = work[p].token
  BY Typed DEF WorkType, Phases
<1>2. work' = [work EXCEPT ![p] = w]
  BY DEF Goto
<1>. HIDE DEF w
<1>. QED BY <1>1, <1>2, WorkEffect

LEMMA InitInvariant == Init => IInv
<1>. SUFFICES ASSUME Init PROVE IInv
  OBVIOUS
<1>1. \A o \in Occurrence :
        /\ occ[o] = [status |-> "absent", claims |-> 0, token |-> 0,
                     lapsed |-> FALSE, linked |-> FALSE]
        /\ input[o] = "none"
  BY DEF Init
<1>2. \A p \in Runner : work[p].phase = "idle"
  BY IdleTyped DEF Init
<1>3. TypeOK
  <2>1. task \in [Task -> TaskType]
    <3>1. 0 \in 0 .. MaxFire + 1 /\ 1 \in 0 .. MaxFire + 1
      BY Constants
    <3>2. PICK kind \in [Task -> {"once", "recurring"}] :
            task = [t \in Task |->
               [kind |-> kind[t], enabled |-> TRUE, ended |-> "no", next |-> 1,
                runAt |-> IF kind[t] = "once" THEN 1 ELSE 0]]
      BY DEF Init
    <3>. QED BY <3>1, <3>2 DEF TaskType
  <2>2. occ \in [Occurrence -> OccType]
    BY DEF Init, OccType, Unended
  <2>3. \A o \in Occurrence : occ[o].token # 0 <=> occ[o].status \in {"claimed", "running"}
    BY <1>1
  <2>4. session \in SessionType
    BY Constants DEF Init, SessionType
  <2>5. work \in [Runner -> WorkType]
    BY IdleTyped DEF Init
  <2>6. /\ now \in 0 .. MaxFire /\ faults \in 0 .. MaxFaults
        /\ input \in [Occurrence ->
             {"none", "pending", "running", "completed", "failed", "discarded"}]
        /\ runner \in [Runner -> {"up", "stopping", "down"}]
    BY Constants DEF Init
  <2>7. stray \subseteq StrayType /\ lost \subseteq Occurrence
    BY DEF Init
  <2>8. refused \in BOOLEAN
    BY DEF Init
  <2>. QED BY <2>1, <2>2, <2>3, <2>4, <2>5, <2>6, <2>7, <2>8 DEF TypeOK
<1>4. \A o \in Occurrence : OccSafe(o)
  BY <1>1 DEF OccSafe
<1>5. \A p \in Runner : WorkSafe(p)
  BY <1>2 DEF WorkSafe, Engaged
<1>6. ArchiveSafe /\ \A s \in stray : StraySafe(s)
  BY <1>1 DEF Init, ArchiveSafe, Active
<1>. QED BY <1>3, <1>4, <1>5, <1>6 DEF IInv

-------------------------------------------------------------------------------
\* What keeps the parts of the invariant.

\* How a row that is not written may see its input change.
InputStep(o) ==
    \/ input'[o] = input[o]
    \/ input[o] = "none" /\ input'[o] = "pending" /\ occ[o].claims # 0
    \/ input[o] \in {"pending", "running"} /\ input'[o] # "none"

\* What a step never does: forget a claim or an input, or give an old claim back.
Grows(o) ==
    /\ occ'[o].claims >= occ[o].claims
    /\ input[o] # "none" => input'[o] # "none"
    /\ \A token \in 1 .. occ[o].claims : HoldsToken(o, token)' => HoldsToken(o, token)

LEMMA OccKept ==
  ASSUME IInv, NEW o \in Occurrence, occ'[o] = occ[o], InputStep(o), lost \subseteq lost'
  PROVE  OccSafe(o)' /\ Grows(o)
<1>1. OccSafe(o)'
  BY DEF IInv, OccSafe, InputStep
<1>2. Grows(o)
  <2>1. occ[o].claims \in Nat
    BY Typed DEF IInv
  <2>2. input[o] # "none" => input'[o] # "none"
    BY DEF InputStep
  <2>. QED BY <2>1, <2>2 DEF Grows, HoldsToken
<1>. QED BY <1>1, <1>2

LEMMA WorkKept ==
  ASSUME IInv, TypeOK', NEW p \in Runner, work'[p] = work[p] \/ work'[p] = Idle,
         now' >= now, lost \subseteq lost', \A o \in Occurrence : Grows(o)
  PROVE  WorkSafe(p)'
<1>1. CASE work'[p].phase = "idle"
  BY <1>1 DEF WorkSafe, Engaged
<1>2. CASE work'[p] = work[p] /\ work[p].phase = "listed"
  <2>. PICK o \in Occurrence : o = work[p].occ
    BY <1>2 DEF IInv, WorkSafe
  <2>1. o[2] \in Nat /\ o[2] <= now /\ now \in Nat /\ now' \in Nat
    BY <1>2, OccurrencePair, Constants DEF IInv, WorkSafe, TypeOK
  <2>. QED BY <1>2, <2>1 DEF WorkSafe, Engaged
<1>3. CASE work'[p] = work[p] /\ Engaged(p)
  <2>. PICK o \in Occurrence : o = work[p].occ
    BY <1>3 DEF IInv, WorkSafe
  <2>. PICK token \in Nat : token = work[p].token
    BY Typed DEF IInv
  <2>1. token \in 1 .. occ[o].claims /\ occ[o].claims \in Nat /\ occ'[o].claims \in Nat
    BY <1>3, Typed DEF IInv, WorkSafe, TypeOK, OccType
  <2>2. token \in 1 .. occ'[o].claims /\ (HoldsToken(o, token)' => HoldsToken(o, token))
    BY <2>1 DEF Grows
  <2>3. input[o] # "none" => input'[o] # "none"
    BY DEF Grows
  <2>4. work[p].phase = "fallback" /\ HoldsToken(o, token) => input[o] # "none" \/ o \in lost
    BY DEF IInv, WorkSafe
  <2>5. work'[p].occ = o /\ work'[p].token = token /\ work'[p].phase = work[p].phase
    BY <1>3
  <2>6. work'[p].phase = "fallback" /\ HoldsToken(o, token)' => input'[o] # "none" \/ o \in lost'
    BY <2>2, <2>3, <2>4, <2>5
  <2>7. work'[p].phase \in {"link", "wait", "record"} => input'[o] # "none"
    BY <2>3, <2>5 DEF IInv, WorkSafe
  <2>8. HoldsToken(work[p].occ, work[p].token)' => HoldsToken(o, token)'
    BY <2>5 DEF HoldsToken
  <2>. QED BY <1>3, <2>2, <2>5, <2>6, <2>7, <2>8 DEF WorkSafe, Engaged
<1>. QED BY <1>1, <1>2, <1>3, IdleTyped, Typed DEF IInv, Engaged, WorkType

\* A step keeps the invariant if what it changes is safe and what it does not grows.
LEMMA StepSafe ==
  ASSUME IInv, TypeOK', now' >= now, lost \subseteq lost',
         \A o \in Occurrence : OccSafe(o)' /\ Grows(o),
         \A p \in Runner : work'[p] = work[p] \/ work'[p] = Idle \/ WorkSafe(p)',
         \A s \in stray' : s \in stray \/ StraySafe(s)',
         ArchiveSafe'
  PROVE  IInv'
<1>1. \A p \in Runner : WorkSafe(p)'
  BY WorkKept
<1>2. ASSUME NEW s \in stray' PROVE StraySafe(s)'
  <2>1. CASE s \in stray
    <3>1. s.occ \in Occurrence
      BY <2>1, Typed DEF IInv, StrayType
    <3>. PICK o \in Occurrence : o = s.occ
      BY <3>1
    <3>2. s.token \in 1 .. occ[o].claims /\ occ[o].claims \in Nat /\ occ'[o].claims \in Nat
          /\ occ'[o].claims >= occ[o].claims
      BY <2>1, Typed DEF IInv, StraySafe, Grows, TypeOK, OccType
    <3>3. s.token \in 1 .. occ'[o].claims
      BY <3>2
    <3>. QED BY <3>3 DEF StraySafe
  <2>. QED BY <2>1
<1>. QED BY <1>1, <1>2 DEF IInv

\* A step that leaves occurrences and inputs alone.
LEMMA RowsKept ==
  ASSUME IInv, UNCHANGED <<occ, input>>, lost \subseteq lost'
  PROVE  \A o \in Occurrence : OccSafe(o)' /\ Grows(o)
  BY OccKept DEF InputStep

LEMMA ArchiveKept ==
  ASSUME IInv, session'.archived => session.archived,
         session.archived => \A o \in Occurrence : occ'[o].status = occ[o].status
  PROVE  ArchiveSafe'
  BY DEF IInv, ArchiveSafe, Active

LEMMA StutterInvariant == IInv /\ UNCHANGED vars => IInv'
<1>. SUFFICES ASSUME IInv, UNCHANGED vars PROVE IInv'
  OBVIOUS
<1>1. TypeOK' /\ now' >= now /\ lost \subseteq lost' /\ UNCHANGED <<occ, input>>
  BY DEF vars, IInv, TypeOK
<1>2. ArchiveSafe'
  BY ArchiveKept DEF vars
<1>. QED BY <1>1, <1>2, RowsKept, StepSafe DEF vars

-------------------------------------------------------------------------------
\* Steps that write neither occurrences nor inputs.

LEMMA HostStep ==
  ASSUME IInv, UNCHANGED <<now, task, occ, input, session>>,
         runner' \in [Runner -> {"up", "stopping", "down"}],
         work' \in [Runner -> WorkType], stray' \subseteq StrayType,
         lost \subseteq lost', lost' \subseteq Occurrence,
         refused' = refused, faults' \in 0 .. MaxFaults,
         \A p \in Runner : work'[p] = work[p] \/ work'[p] = Idle \/ WorkSafe(p)',
         \A s \in stray' : s \in stray \/ StraySafe(s)'
  PROVE  IInv'
<1>1. TypeOK'
  <2>1. refused' \in BOOLEAN
    BY DEF IInv, TypeOK
  <2>2. now' \in 0 .. MaxFire /\ now' >= now
    BY DEF IInv, TypeOK
  <2>. QED BY <2>1, <2>2 DEF IInv, TypeOK
<1>2. ArchiveSafe'
  BY ArchiveKept
<1>3. now' >= now
  BY DEF IInv, TypeOK
<1>. QED BY <1>1, <1>2, <1>3, RowsKept, StepSafe

LEMMA AdvanceKeeps == ASSUME IInv, Advance PROVE IInv'
<1>1. UNCHANGED <<task, occ, input, session, runner, work, stray, lost, refused, faults>>
  BY DEF Advance, Host, History
<1>2. now' \in 0 .. MaxFire /\ now' >= now
  BY Constants DEF Advance, IInv, TypeOK
<1>3. TypeOK'
  BY <1>1, <1>2 DEF IInv, TypeOK
<1>4. ArchiveSafe'
  BY <1>1, ArchiveKept
<1>. QED BY <1>1, <1>2, <1>3, <1>4, RowsKept, StepSafe

\* A step that writes definitions, the session or the processes' states only.
LEMMA DefinitionStep ==
  ASSUME IInv, task' \in [Task -> TaskType], session' \in SessionType,
         session'.archived => session.archived,
         UNCHANGED <<now, occ, input, runner, work, stray, lost, refused, faults>>
  PROVE  IInv'
<1>1. TypeOK'
  BY DEF IInv, TypeOK
<1>2. ArchiveSafe'
  BY ArchiveKept
<1>3. now' >= now
  BY DEF IInv, TypeOK
<1>. QED BY <1>1, <1>2, <1>3, RowsKept, StepSafe

LEMMA UpdateKeeps ==
  ASSUME IInv, NEW t \in Task, NEW kind \in {"once", "recurring"}, NEW f \in 1 .. MaxFire + 1,
         NEW on \in BOOLEAN, Update(t, kind, f, on)
  PROVE  IInv'
<1>. PICK runAt \in 0 .. MaxFire + 1 : runAt = IF kind = "once" THEN f ELSE 0
  BY Constants
<1>. PICK v \in TaskType : v = task[t]
  BY Typed DEF IInv
<1>. PICK next \in 0 .. MaxFire + 1 : next = f
  BY Constants
<1>. DEFINE w == [v EXCEPT !.kind = kind, !.enabled = on, !.next = next, !.runAt = runAt]
<1>1. w \in TaskType
  BY DEF TaskType
<1>2. task' = [task EXCEPT ![t] = w]
  BY DEF Update
<1>. HIDE DEF w
<1>3. task' \in [Task -> TaskType]
  BY <1>1, <1>2, Typed DEF IInv
<1>4. UNCHANGED <<now, occ, input, session, runner, work, stray, lost, refused, faults>>
  BY DEF Update, Host, History
<1>. QED BY <1>3, <1>4, DefinitionStep DEF IInv, TypeOK

LEMMA FenceKeeps ==
  ASSUME IInv, NEW request \in {"reset", "archive"}, Fence(request) PROVE IInv'
<1>. PICK v \in SessionType : v = session
  BY DEF IInv, TypeOK
<1>. PICK n \in 0 .. MaxRequests : n = v.requests + 1
  BY Constants DEF Fence, SessionType
<1>. DEFINE w == [v EXCEPT !.fenced = TRUE, !.request = request, !.requests = n]
<1>1. w \in SessionType /\ w.archived = v.archived
  BY DEF SessionType
<1>2. session' = w
  BY DEF Fence
<1>. HIDE DEF w
<1>3. UNCHANGED <<now, task, occ, input, runner, work, stray, lost, refused, faults>>
  BY DEF Fence, Host, History
<1>4. session' \in SessionType /\ session'.archived = session.archived
  BY <1>1, <1>2
<1>. QED BY <1>3, <1>4, Typed, DefinitionStep DEF IInv

LEMMA ListDueKeeps == ASSUME IInv, NEW p \in Runner, ListDue(p) PROVE IInv'
<1>. PICK t \in Task :
        /\ task[t].next \in 1 .. now
        /\ work' = [work EXCEPT ![p] =
             [Idle EXCEPT !.phase = "listed", !.occ = <<t, task[t].next>>, !.next = After(t)]]
  BY DEF ListDue
<1>. PICK o \in Occurrence : o = <<t, task[t].next>> /\ o[2] <= now
  <2>1. now \in 0 .. MaxFire
    BY DEF IInv, TypeOK
  <2>. PICK f \in Fire : f = task[t].next /\ f <= now
    BY <2>1, Constants
  <2>2. <<t, f>> \in Occurrence /\ <<t, f>>[2] = f
    BY DEF Occurrence
  <2>3. <<t, f>> = <<t, task[t].next>>
    OBVIOUS
  <2>. QED BY <2>2, <2>3
<1>. PICK n \in 0 .. MaxFire + 1 : n = After(t)
  BY Constants DEF After, IInv, TypeOK
<1>. DEFINE w == [Idle EXCEPT !.phase = "listed", !.occ = o, !.next = n]
<1>1. w \in WorkType /\ w.phase = "listed" /\ w.occ = o
  BY DEF Idle, WorkType
<1>2. work' = [work EXCEPT ![p] = w]
  OBVIOUS
<1>. HIDE DEF w
<1>3. /\ work' \in [Runner -> WorkType] /\ work'[p] = w
      /\ \A q \in Runner \ {p} : work'[q] = work[q]
  BY <1>1, <1>2, WorkEffect DEF IInv
<1>4. UNCHANGED <<now, task, occ, input, session, runner, stray, lost, refused, faults>>
  BY DEF ListDue, Table, History
<1>5. WorkSafe(p)'
  BY <1>1, <1>3, <1>4 DEF WorkSafe, Engaged
<1>. QED BY <1>3, <1>4, <1>5, HostStep DEF IInv, TypeOK

\* What outlives a claim is a submission or a link of it.
LEMMA DetachedSafe ==
  ASSUME IInv, NEW p \in Runner, work[p].phase \in {"submit", "link"}, NEW owner \in Runner \cup {None}
  PROVE  LET s == [Detached(p) EXCEPT !.owner = owner] IN
         s \in StrayType /\ s.token = work[p].token /\ s.occ = work[p].occ /\ StraySafe(s)
<1>. PICK w \in WorkType : w = work[p]
  BY Typed DEF IInv
<1>. PICK o \in Occurrence : o = w.occ
  BY DEF IInv, WorkSafe, Engaged
<1>. DEFINE s == [owner |-> owner, occ |-> o, token |-> w.token, phase |-> w.phase]
<1>1. [Detached(p) EXCEPT !.owner = owner] = s
  BY DEF Detached
<1>2. s \in StrayType /\ s.token = w.token /\ s.occ = o
  BY DEF StrayType, WorkType
<1>3. w.token \in 1 .. occ[o].claims
  BY DEF IInv, WorkSafe, Engaged
<1>. HIDE DEF s
<1>. QED BY <1>1, <1>2, <1>3 DEF StraySafe

LEMMA LoseClaimKeeps == ASSUME IInv, NEW p \in Runner, LoseClaim(p) PROVE IInv'
<1>1. UNCHANGED <<now, task, occ, input, session, runner, lost, refused>>
      /\ faults' \in 0 .. MaxFaults
  BY FaultTyped DEF LoseClaim, Table, History, IInv, TypeOK
<1>2. /\ work' \in [Runner -> WorkType]
      /\ \A q \in Runner : work'[q] = work[q] \/ work'[q] = Idle
  BY IdleTyped, WorkEffect DEF LoseClaim, IInv
<1>3. stray' \subseteq StrayType /\ \A s \in stray' : s \in stray \/ StraySafe(s)'
  <2>1. CASE work[p].phase = "wait"
    BY <2>1 DEF LoseClaim, IInv, TypeOK
  <2>2. CASE work[p].phase \in {"submit", "link"}
    <3>. PICK s : s = Detached(p)
      OBVIOUS
    <3>1. s = [Detached(p) EXCEPT !.owner = p]
      BY DEF Detached
    <3>2. s \in StrayType /\ StraySafe(s)
      BY <2>2, <3>1, DetachedSafe
    <3>3. stray' = stray \cup {s}
      BY <2>2 DEF LoseClaim
    <3>. QED BY <1>1, <3>2, <3>3, Typed DEF IInv, StraySafe
  <2>. QED BY <2>1, <2>2 DEF LoseClaim, Supervised
<1>. QED BY <1>1, <1>2, <1>3, HostStep DEF IInv, TypeOK

LEMMA LoseSubmitKeeps == ASSUME IInv, NEW p \in Runner, LoseSubmit(p) PROVE IInv'
<1>. PICK o \in Occurrence : o = work[p].occ
  BY DEF LoseSubmit, IInv, WorkSafe, Engaged
<1>1. UNCHANGED <<now, task, occ, input, session, runner, refused>> /\ faults' \in 0 .. MaxFaults
      /\ work[p].phase = "submit" /\ lost' = lost \cup {o} /\ Goto(p, "fallback", None)
  BY FaultTyped DEF LoseSubmit, Table, IInv
<1>2. /\ work' \in [Runner -> WorkType] /\ work'[p].phase = "fallback"
      /\ work'[p].occ = o /\ work'[p].token = work[p].token
      /\ \A q \in Runner \ {p} : work'[q] = work[q]
  BY <1>1, GotoEffect DEF IInv, Phases
<1>3. WorkSafe(p)'
  BY <1>1, <1>2 DEF WorkSafe, Engaged, IInv
<1>4. stray' \subseteq StrayType /\ \A s \in stray' : s \in stray \/ StraySafe(s)'
  <2>. PICK s : s = [Detached(p) EXCEPT !.owner = None]
    OBVIOUS
  <2>1. s \in StrayType /\ StraySafe(s)
    BY <1>1, DetachedSafe
  <2>2. stray' = stray \cup {s}
    BY DEF LoseSubmit
  <2>. QED BY <1>1, <2>1, <2>2, Typed DEF IInv, StraySafe
<1>5. lost' \subseteq Occurrence /\ lost \subseteq lost'
  BY <1>1 DEF IInv, TypeOK
<1>. QED BY <1>1, <1>2, <1>3, <1>4, <1>5, HostStep DEF IInv, TypeOK

LEMMA LoseLinkKeeps == ASSUME IInv, NEW p \in Runner, LoseLink(p) PROVE IInv'
<1>. PICK o \in Occurrence : o = work[p].occ
  BY DEF LoseLink, IInv, WorkSafe, Engaged
<1>1. UNCHANGED <<now, task, occ, input, session, runner, lost, refused>>
      /\ faults' \in 0 .. MaxFaults
      /\ work[p].phase = "link" /\ Goto(p, "fallback", None)
  BY FaultTyped DEF LoseLink, Table, History, IInv
<1>2. /\ work' \in [Runner -> WorkType] /\ work'[p].phase = "fallback"
      /\ work'[p].occ = o /\ work'[p].token = work[p].token
      /\ \A q \in Runner \ {p} : work'[q] = work[q]
  BY <1>1, GotoEffect DEF IInv, Phases
<1>3. WorkSafe(p)'
  BY <1>1, <1>2 DEF WorkSafe, Engaged, IInv
<1>4. stray' \subseteq StrayType /\ \A s \in stray' : s \in stray \/ StraySafe(s)'
  <2>. PICK s : s = [Detached(p) EXCEPT !.owner = None]
    OBVIOUS
  <2>1. s \in StrayType /\ StraySafe(s)
    BY <1>1, DetachedSafe
  <2>2. stray' = stray \cup {s}
    BY DEF LoseLink
  <2>. QED BY <1>1, <2>1, <2>2, Typed DEF IInv, StraySafe
<1>. QED BY <1>1, <1>2, <1>3, <1>4, HostStep DEF IInv, TypeOK

LEMMA WaitKeeps == ASSUME IInv, NEW p \in Runner, Wait(p) PROVE IInv'
<1>. PICK o \in Occurrence : o = work[p].occ
  BY DEF Wait, IInv, WorkSafe, Engaged
<1>1. UNCHANGED <<now, task, occ, input, session, runner, stray, lost, refused, faults>>
      /\ work[p].phase = "wait" /\ input[o] # "none"
  BY DEF Wait, Table, History, IInv, WorkSafe
<1>. PICK phase \in {"record", "fallback"}, result \in {None, "completed", "failed"} :
        Goto(p, phase, result)
  BY DEF Wait
<1>2. /\ work' \in [Runner -> WorkType] /\ work'[p].phase = phase
      /\ work'[p].occ = o /\ work'[p].token = work[p].token
      /\ \A q \in Runner \ {p} : work'[q] = work[q]
  BY GotoEffect DEF IInv, Phases
<1>3. WorkSafe(p)'
  BY <1>1, <1>2 DEF WorkSafe, Engaged, IInv
<1>. QED BY <1>1, <1>2, <1>3, HostStep DEF IInv, TypeOK

LEMMA LoseFallbackKeeps == ASSUME IInv, NEW p \in Runner, LoseFallback(p) PROVE IInv'
<1>1. UNCHANGED <<now, task, occ, input, session, runner, stray, lost, refused>>
      /\ faults' \in 0 .. MaxFaults
  BY FaultTyped DEF LoseFallback, Table, History, IInv
<1>2. /\ work' \in [Runner -> WorkType]
      /\ \A q \in Runner : work'[q] = work[q] \/ work'[q] = Idle
  BY IdleTyped, WorkEffect DEF LoseFallback, IInv
<1>. QED BY <1>1, <1>2, HostStep DEF IInv, TypeOK

LEMMA ProcessKeeps ==
  ASSUME IInv, NEW p \in Runner, Stop(p) \/ Exit(p) \/ Crash(p) \/ Start(p) PROVE IInv'
<1>1. UNCHANGED <<now, task, occ, input, session, lost, refused>> /\ faults' \in 0 .. MaxFaults
  BY FaultTyped DEF Stop, Exit, Crash, Start, Vanish, Table, History, IInv, TypeOK
<1>2. runner' \in [Runner -> {"up", "stopping", "down"}]
  BY DEF Stop, Exit, Crash, Start, Vanish, IInv, TypeOK
<1>3. /\ work' \in [Runner -> WorkType]
      /\ \A q \in Runner : work'[q] = work[q] \/ work'[q] = Idle
  BY IdleTyped, WorkEffect, Typed DEF Stop, Exit, Crash, Start, Vanish, IInv
<1>4. stray' \subseteq stray /\ stray' \subseteq StrayType
  BY DEF Stop, Exit, Crash, Start, Vanish, IInv, TypeOK
<1>. QED BY <1>1, <1>2, <1>3, <1>4, HostStep DEF IInv, TypeOK

-------------------------------------------------------------------------------
\* Steps that write inputs.

LEMMA InputOnly ==
  ASSUME IInv, UNCHANGED <<now, task, occ, runner, lost, refused, faults>>,
         session' \in SessionType, session'.archived => session.archived,
         input' \in [Occurrence -> Inputs], work' \in [Runner -> WorkType],
         stray' \subseteq StrayType,
         \A o \in Occurrence : InputStep(o),
         \A p \in Runner : work'[p] = work[p] \/ work'[p] = Idle \/ WorkSafe(p)',
         \A s \in stray' : s \in stray \/ StraySafe(s)'
  PROVE  IInv'
<1>1. TypeOK'
  BY DEF IInv, TypeOK, Inputs
<1>2. ArchiveSafe'
  BY ArchiveKept
<1>3. now' >= now
  BY DEF IInv, TypeOK
<1>. QED BY <1>1, <1>2, <1>3, OccKept, StepSafe

\* A submission of a claim writes one input at most; once it is accepted the input exists.
LEMMA SubmittedStep ==
  ASSUME IInv, NEW o \in Occurrence, occ[o].claims # 0, input' = Submitted(o)
  PROVE  /\ input' \in [Occurrence -> Inputs] /\ \A q \in Occurrence : InputStep(q)
         /\ Accepted(o) \/ input[o] = "discarded" => input'[o] # "none"
  BY Typed DEF IInv, Submitted, Accepted, InputStep, Inputs

LEMMA SubmitKeeps == ASSUME IInv, NEW p \in Runner, Submit(p) PROVE IInv'
<1>. PICK o \in Occurrence : o = work[p].occ
  BY DEF Submit, IInv, WorkSafe, Engaged
<1>1. work[p].phase = "submit" /\ work[p].token \in 1 .. occ[o].claims /\ occ[o].claims \in Nat
  BY Typed DEF Submit, IInv, WorkSafe, Engaged
<1>2. /\ UNCHANGED <<now, task, occ, session, runner, stray, lost, refused, faults>>
      /\ input' = Submitted(o)
  BY DEF Submit, History
<1>3. /\ input' \in [Occurrence -> Inputs] /\ \A q \in Occurrence : InputStep(q)
      /\ Accepted(o) \/ input[o] = "discarded" => input'[o] # "none"
  BY <1>1, <1>2, SubmittedStep
<1>. PICK phase \in {"link", "fallback"} :
        /\ Goto(p, phase, None) /\ (phase = "link" <=> Accepted(o))
  BY DEF Submit
<1>4. /\ work' \in [Runner -> WorkType] /\ work'[p].phase = phase
      /\ work'[p].occ = o /\ work'[p].token = work[p].token
      /\ \A q \in Runner \ {p} : work'[q] = work[q]
  BY GotoEffect DEF IInv, Phases
<1>5. CASE phase = "link"
  <2>1. WorkSafe(p)'
    BY <1>1, <1>2, <1>3, <1>4, <1>5 DEF WorkSafe, Engaged
  <2>. QED BY <1>2, <1>3, <1>4, <2>1, InputOnly DEF IInv, TypeOK
<1>6. CASE phase = "fallback"
  <2>1. session.archived \/ input'[o] # "none"
    BY <1>3, <1>6 DEF Accepted
  <2>2. session.archived => ~HoldsToken(o, work[p].token)
    BY DEF IInv, ArchiveSafe, Active, HoldsToken
  <2>3. WorkSafe(p)'
    BY <1>1, <1>2, <1>4, <1>6, <2>1, <2>2 DEF WorkSafe, Engaged, HoldsToken
  <2>. QED BY <1>2, <1>3, <1>4, <2>3, InputOnly DEF IInv, TypeOK
<1>. QED BY <1>5, <1>6

LEMMA StraySubmitKeeps == ASSUME IInv, NEW s \in stray, StraySubmit(s) PROVE IInv'
<1>1. s \in StrayType /\ s.token \in 1 .. occ[s.occ].claims
  BY Typed DEF IInv, StraySafe
<1>. PICK o \in Occurrence : o = s.occ
  BY <1>1 DEF StrayType
<1>2. /\ UNCHANGED <<now, task, occ, session, runner, work, lost, refused, faults>>
      /\ input' = Submitted(o)
  BY DEF StraySubmit, History
<1>3. occ[o].claims # 0
  BY <1>1, Typed DEF IInv
<1>4. input' \in [Occurrence -> Inputs] /\ \A q \in Occurrence : InputStep(q)
  BY <1>2, <1>3, SubmittedStep
<1>. DEFINE x == [s EXCEPT !.phase = "link"]
<1>5. x \in StrayType /\ x.occ = o /\ x.token = s.token
  BY <1>1 DEF StrayType
<1>6. stray' \subseteq stray \cup {x}
  BY DEF StraySubmit
<1>. HIDE DEF x
<1>7. StraySafe(x)'
  BY <1>1, <1>2, <1>5 DEF StraySafe
<1>8. stray' \subseteq StrayType /\ \A y \in stray' : y \in stray \/ StraySafe(y)'
  BY <1>5, <1>6, <1>7, Typed DEF IInv
<1>. QED BY <1>2, <1>4, <1>8, InputOnly DEF IInv, TypeOK

LEMMA RunKeeps ==
  ASSUME IInv, NEW o \in Occurrence,
         Apply(o) \/ \E result \in {"completed", "failed"} : EndRun(o, result)
  PROVE  IInv'
<1>1. UNCHANGED <<now, task, occ, session, runner, work, stray, lost, refused, faults>>
  BY DEF Apply, EndRun, Host, History
<1>2. PICK x \in {"running", "completed", "failed"} :
        input[o] \in {"pending", "running"} /\ input' = [input EXCEPT ![o] = x]
  BY DEF Apply, EndRun
<1>3. input' \in [Occurrence -> Inputs] /\ \A q \in Occurrence : InputStep(q)
  BY <1>2, Typed DEF IInv, Inputs, InputStep
<1>. QED BY <1>1, <1>3, InputOnly DEF IInv, TypeOK

LEMMA DiscardedStep ==
  ASSUME IInv, input' = Discarded
  PROVE  /\ input' \in [Occurrence -> Inputs]
         /\ \A q \in Occurrence : /\ InputStep(q) /\ (input[q] = "none" => input'[q] = "none")
<1>1. \A q \in Occurrence : input'[q] = IF input[q] = "pending" THEN "discarded" ELSE input[q]
  BY DEF Discarded
<1>2. input' \in [Occurrence -> Inputs]
  BY Typed DEF IInv, Discarded, Inputs
<1>. QED BY <1>1, <1>2 DEF InputStep

LEMMA ResetKeeps == ASSUME IInv, Reset PROVE IInv'
<1>. PICK v \in SessionType : v = session
  BY DEF IInv, TypeOK
<1>. DEFINE w == [v EXCEPT !.fenced = FALSE, !.request = "none"]
<1>1. w \in SessionType /\ w.archived = v.archived
  BY DEF SessionType
<1>2. session' = w
  BY DEF Reset
<1>. HIDE DEF w
<1>3. session' \in SessionType /\ session'.archived = session.archived
  BY <1>1, <1>2
<1>4. UNCHANGED <<now, task, occ, runner, work, stray, lost, refused, faults>>
      /\ input' = Discarded
  BY DEF Reset, Host, History
<1>. QED BY <1>3, <1>4, DiscardedStep, InputOnly DEF IInv, TypeOK

-------------------------------------------------------------------------------
\* Steps that write one occurrence.

\* The new row v of o is safe, remembers its claims and gives none of them back.
Writes(o, v) ==
    /\ v.token # 0 <=> v.status \in {"claimed", "running"}
    /\ v.token \in {0, v.claims}
    /\ v.status \in {"absent", "pending", "cancelled"} => v.claims = 0
    /\ v.claims = 0 => input[o] = "none"
    /\ v.linked => input[o] # "none"
    /\ v.status = "succeeded" => input[o] = "completed"
    /\ v.status = "failed" => input[o] \in {"discarded", "failed"} \/ o \in lost
    /\ v.claims >= occ[o].claims
    /\ v.token \in 1 .. occ[o].claims /\ ~v.lapsed => HoldsToken(o, v.token)
    /\ session.archived => v.status \notin {"pending", "claimed", "running"}

LEMMA RowWrite ==
  ASSUME IInv, NEW o \in Occurrence, NEW v \in OccType, occ' = [occ EXCEPT ![o] = v], Writes(o, v),
         UNCHANGED <<now, input, session, runner, lost, refused>>,
         task' \in [Task -> TaskType], work' \in [Runner -> WorkType],
         stray' \subseteq stray, faults' \in 0 .. MaxFaults,
         \A p \in Runner : work'[p] = work[p] \/ work'[p] = Idle \/ WorkSafe(p)'
  PROVE  IInv'
<1>1. /\ occ' \in [Occurrence -> OccType] /\ occ'[o] = v
      /\ \A q \in Occurrence \ {o} : occ'[q] = occ[q]
  BY OccEffect DEF IInv
<1>2. TypeOK'
  <2>1. \A q \in Occurrence : occ'[q].token # 0 <=> occ'[q].status \in {"claimed", "running"}
    BY <1>1 DEF Writes, IInv, TypeOK
  <2>2. refused' \in BOOLEAN
    BY DEF IInv, TypeOK
  <2>. QED BY <1>1, <2>1, <2>2 DEF IInv, TypeOK
<1>3. OccSafe(o)' /\ Grows(o)
  <2>1. OccSafe(o)'
    BY <1>1 DEF Writes, OccSafe
  <2>2. occ[o].claims \in Nat /\ v.claims \in Nat /\ v.token \in Nat
    BY Typed DEF IInv, OccType
  <2>3. ASSUME NEW token \in 1 .. occ[o].claims, HoldsToken(o, token)' PROVE HoldsToken(o, token)
    <3>1. v.token = token /\ ~v.lapsed
      BY <1>1, <2>3 DEF HoldsToken
    <3>. QED BY <2>3, <3>1 DEF Writes
  <2>4. occ'[o].claims >= occ[o].claims /\ (input[o] # "none" => input'[o] # "none")
    BY <1>1, <2>2 DEF Writes
  <2>. QED BY <2>1, <2>3, <2>4 DEF Grows
<1>4. ArchiveSafe'
  BY <1>1 DEF Writes, IInv, ArchiveSafe, Active
<1>5. \A q \in Occurrence \ {o} : OccSafe(q)' /\ Grows(q)
  BY <1>1, OccKept DEF InputStep
<1>6. now' >= now
  BY DEF IInv, TypeOK
<1>. QED BY <1>1, <1>2, <1>3, <1>4, <1>5, <1>6, StepSafe

LEMMA MaterializeKeeps == ASSUME IInv, NEW p \in Runner, Materialize(p) PROVE IInv'
<1>. PICK o \in Occurrence : o = work[p].occ
  BY DEF Materialize, IInv, WorkSafe
<1>1. /\ work' \in [Runner -> WorkType]
      /\ \A q \in Runner : work'[q] = work[q] \/ work'[q] = Idle
  BY IdleTyped, WorkEffect DEF Materialize, IInv
<1>2. UNCHANGED <<now, input, session, runner, stray, lost, refused, faults>>
  BY DEF Materialize, History
<1>3. CASE UNCHANGED <<occ, task>>
  BY <1>1, <1>2, <1>3, HostStep DEF IInv, TypeOK
<1>4. CASE StillDue(o) /\ occ[o].status = "absent" /\ ~UNCHANGED <<occ, task>>
  <2>. DEFINE t == o[1]
  <2>. PICK u \in OccType : u = occ[o]
    BY Typed DEF IInv
  <2>. DEFINE v == [u EXCEPT !.status = "pending"]
  <2>1. /\ v \in OccType /\ v.status = "pending" /\ v.claims = u.claims /\ v.token = u.token
        /\ v.lapsed = u.lapsed /\ v.linked = u.linked
    BY DEF OccType, Unended
  <2>2. occ' = [occ EXCEPT ![o] = v]
    BY <1>4 DEF Materialize
  <2>. HIDE DEF v
  <2>3. task' \in [Task -> TaskType]
    <3>1. t \in Task /\ o[2] \in Fire /\ task[t].next = o[2]
      BY <1>4, OccurrencePair DEF StillDue
    <3>. PICK w \in TaskType : w = task[t]
      BY <3>1, Typed DEF IInv
    <3>. PICK n \in 0 .. MaxFire + 1 : n = work[p].next
      BY Typed DEF IInv, WorkType
    <3>2. task' = [task EXCEPT ![t] = [w EXCEPT !.next = n]]
      BY <1>4 DEF Materialize
    <3>3. [w EXCEPT !.next = n] \in TaskType
      BY DEF TaskType
    <3>. QED BY <3>2, <3>3, Typed DEF IInv
  <2>4. Writes(o, v)
    <3>1. u.token = 0 /\ u.claims = 0 /\ input[o] = "none" /\ ~u.linked /\ ~session.archived
      BY <1>4 DEF IInv, TypeOK, OccSafe, StillDue, Ready
    <3>. QED BY <1>4, <2>1, <3>1 DEF Writes
  <2>. QED BY <1>1, <1>2, <2>1, <2>2, <2>3, <2>4, RowWrite DEF IInv, TypeOK
<1>. QED BY <1>3, <1>4 DEF Materialize

LEMMA ClaimTaskRunKeeps == ASSUME IInv, NEW p \in Runner, ClaimTaskRun(p) PROVE IInv'
<1>. PICK o \in Occurrence :
        /\ Claimable(o)
        /\ occ' = [occ EXCEPT ![o] = ClaimedRow(o)]
        /\ work' = [work EXCEPT ![p] =
              [Idle EXCEPT !.phase = IF occ[o].linked THEN "wait" ELSE "submit",
                           !.occ = o, !.token = occ[o].claims + 1]]
  BY DEF ClaimTaskRun
<1>. PICK u \in OccType : u = occ[o]
  BY Typed DEF IInv
<1>. PICK token \in Nat : token = u.claims + 1
  BY DEF OccType
<1>. PICK status \in {"claimed", "running"} : status = IF u.status = "pending" THEN "claimed" ELSE u.status
  BY DEF Claimable, Active
<1>. PICK phase \in {"wait", "submit"} : phase = IF u.linked THEN "wait" ELSE "submit"
  OBVIOUS
<1>. DEFINE v == [u EXCEPT !.status = status, !.claims = token, !.token = token, !.lapsed = FALSE]
            w == [Idle EXCEPT !.phase = phase, !.occ = o, !.token = token]
<1>1. /\ v \in OccType /\ v.status = status /\ v.claims = token /\ v.token = token
      /\ v.linked = u.linked
  BY DEF OccType, Unended
<1>2. w \in WorkType /\ w.phase = phase /\ w.occ = o /\ w.token = token
  BY IdleTyped DEF WorkType
<1>3. occ' = [occ EXCEPT ![o] = v]
  <2>1. ClaimedRow(o) = v
    BY DEF ClaimedRow, OccType
  <2>. HIDE DEF v
  <2>. QED BY <2>1
<1>10. work' = [work EXCEPT ![p] = w]
  OBVIOUS
<1>. HIDE DEF v, w
<1>4. /\ work' \in [Runner -> WorkType] /\ work'[p] = w
      /\ \A q \in Runner \ {p} : work'[q] = work[q]
  BY <1>2, <1>10, WorkEffect DEF IInv
<1>5. UNCHANGED <<now, task, input, session, runner, stray, lost, refused, faults>>
      /\ ~session.archived
  BY DEF ClaimTaskRun, History
<1>6. u.linked => input[o] # "none"
  BY DEF IInv, OccSafe
<1>7. token \in 1 .. token /\ token # 0 /\ u.claims \in Nat /\ token > u.claims
  BY DEF OccType
<1>8. Writes(o, v)
  BY <1>1, <1>5, <1>6, <1>7 DEF Writes
<1>9. WorkSafe(p)'
  <2>1. occ'[o] = v
    BY <1>1, <1>3, OccEffect DEF IInv
  <2>. QED BY <1>1, <1>2, <1>4, <1>5, <1>6, <1>7, <2>1 DEF WorkSafe, Engaged
<1>. QED BY <1>1, <1>3, <1>4, <1>5, <1>8, <1>9, RowWrite DEF IInv, TypeOK

LEMMA LapseClaimKeeps == ASSUME IInv, NEW o \in Occurrence, LapseClaim(o) PROVE IInv'
<1>. PICK u \in OccType : u = occ[o]
  BY Typed DEF IInv
<1>. DEFINE v == [u EXCEPT !.lapsed = TRUE]
<1>1. /\ v \in OccType /\ v.status = u.status /\ v.claims = u.claims /\ v.token = u.token
      /\ v.linked = u.linked /\ v.lapsed
  BY DEF OccType
<1>2. occ' = [occ EXCEPT ![o] = v]
  BY DEF LapseClaim
<1>. HIDE DEF v
<1>3. UNCHANGED <<now, task, input, session, runner, work, stray, lost, refused>>
      /\ faults' \in 0 .. MaxFaults
  BY FaultTyped DEF LapseClaim, Host, History, IInv, TypeOK
<1>4. Writes(o, v)
  <2>1. /\ u.claims \in Nat /\ OccSafe(o) /\ (u.token # 0 <=> u.status \in {"claimed", "running"})
    BY Typed DEF IInv, TypeOK
  <2>2. session.archived => u.status \notin {"pending", "claimed", "running"}
    BY DEF IInv, ArchiveSafe, Active
  <2>. QED BY <1>1, <2>1, <2>2 DEF Writes, OccSafe
<1>. QED BY <1>1, <1>2, <1>3, <1>4, RowWrite DEF IInv, TypeOK

\* A link under a token: it finds the row claimed under it and the input there.
LEMMA LinkedKeeps ==
  ASSUME IInv, NEW o \in Occurrence, NEW token, occ' = Linked(o, token),
         UNCHANGED <<now, task, input, session, runner, lost, refused, faults>>,
         work' \in [Runner -> WorkType], stray' \subseteq stray,
         \A p \in Runner : work'[p] = work[p] \/ work'[p] = Idle \/ WorkSafe(p)'
  PROVE  IInv'
<1>1. CASE Linkable(o, token)
  <2>. PICK u \in OccType : u = occ[o]
    BY Typed DEF IInv
  <2>. DEFINE v == [u EXCEPT !.status = "running", !.linked = TRUE]
  <2>1. /\ v \in OccType /\ v.status = "running" /\ v.claims = u.claims /\ v.token = u.token
        /\ v.lapsed = u.lapsed
    BY DEF OccType, Unended
  <2>2. occ' = [occ EXCEPT ![o] = v]
    BY <1>1 DEF Linked
  <2>. HIDE DEF v
  <2>3. /\ u.status \in {"claimed", "running"} /\ u.token # 0 /\ input[o] # "none"
        /\ u.token \in {0, u.claims} /\ u.claims \in Nat /\ HoldsToken(o, u.token)
    BY <1>1, Typed DEF IInv, TypeOK, OccSafe, Linkable, HoldsToken
  <2>4. ~session.archived
    BY <2>3 DEF IInv, ArchiveSafe, Active
  <2>5. Writes(o, v)
    BY <2>1, <2>3, <2>4 DEF Writes
  <2>. QED BY <2>1, <2>2, <2>5, RowWrite DEF IInv, TypeOK
<1>2. CASE ~Linkable(o, token)
  <2>1. occ' = occ
    BY <1>2 DEF Linked
  <2>. QED BY <2>1, HostStep DEF IInv, TypeOK
<1>. QED BY <1>1, <1>2

LEMMA LinkKeeps == ASSUME IInv, NEW p \in Runner, Link(p) PROVE IInv'
<1>. PICK o \in Occurrence : o = work[p].occ
  BY DEF Link, IInv, WorkSafe, Engaged
<1>. PICK token \in Nat : token = work[p].token
  BY Typed DEF IInv
<1>1. /\ work[p].phase = "link" /\ occ' = Linked(o, token)
      /\ token \in 1 .. occ[o].claims /\ input[o] # "none"
      /\ UNCHANGED <<now, task, input, session, runner, stray, lost, refused, faults>>
  BY DEF Link, History, IInv, WorkSafe, Engaged
<1>. PICK phase \in {"wait", "fallback"} : Goto(p, phase, None)
  BY DEF Link
<1>2. /\ work' \in [Runner -> WorkType] /\ work'[p].phase = phase
      /\ work'[p].occ = o /\ work'[p].token = token
      /\ \A q \in Runner \ {p} : work'[q] = work[q]
  BY GotoEffect DEF IInv, Phases
<1>3. occ'[o].claims = occ[o].claims
  BY <1>1, Typed DEF IInv, Linked, OccType
<1>4. WorkSafe(p)'
  BY <1>1, <1>2, <1>3 DEF WorkSafe, Engaged
<1>. QED BY <1>1, <1>2, <1>4, LinkedKeeps

LEMMA StrayLinkKeeps == ASSUME IInv, NEW s \in stray, StrayLink(s) PROVE IInv'
<1>. PICK o \in Occurrence : o = s.occ
  BY Typed DEF IInv, StrayType
<1>. PICK token : token = s.token
  OBVIOUS
<1>1. /\ occ' = Linked(o, token) /\ stray' \subseteq stray
      /\ UNCHANGED <<now, task, input, session, runner, work, lost, refused, faults>>
  BY DEF StrayLink, History
<1>. QED BY <1>1, Typed, LinkedKeeps DEF IInv

\* A settlement finds its claim and its receipt, or changes nothing.
LEMMA SettledKeeps ==
  ASSUME IInv, NEW p \in Runner, NEW status \in {"succeeded", "failed"}, Engaged(p),
         work[p].phase = "fallback" \/ (status = "failed" => work[p].result # None),
         SettleTaskRun(p, status) \/ UNCHANGED <<occ, task>>,
         UNCHANGED <<now, input, session, runner, stray, lost, refused>>,
         faults' \in 0 .. MaxFaults, work' \in [Runner -> WorkType],
         \A q \in Runner : work'[q] = work[q] \/ work'[q] = Idle \/ WorkSafe(q)'
  PROVE  IInv'
<1>. PICK o \in Occurrence : o = work[p].occ
  BY DEF IInv, WorkSafe
<1>1. CASE UNCHANGED <<occ, task>>
  BY <1>1, HostStep DEF IInv, TypeOK
<1>2. CASE Settles(p, status) /\ SettleTaskRun(p, status)
  <2>. PICK u \in OccType : u = occ[o]
    BY Typed DEF IInv
  <2>. DEFINE v == [u EXCEPT !.status = status, !.token = 0, !.lapsed = FALSE]
              t == o[1]
  <2>1. /\ v \in OccType /\ v.status = status /\ v.claims = u.claims /\ v.token = 0
        /\ v.linked = u.linked
    BY DEF OccType, Ended
  <2>2. occ' = [occ EXCEPT ![o] = v] /\ task' = [task EXCEPT ![t] = Finished(t)]
    BY <1>2 DEF SettleTaskRun
  <2>. HIDE DEF v
  <2>3. task' \in [Task -> TaskType]
    <3>. PICK w \in TaskType : w = task[t]
      BY OccurrencePair, Typed DEF IInv
    <3>. PICK zero \in 0 .. MaxFire + 1 : zero = 0
      BY Constants
    <3>. PICK ended \in {"completed", "cancelled"} :
            ended = IF w.ended = "cancelled" THEN w.ended ELSE "completed"
      OBVIOUS
    <3>1. Finished(t) = IF Recurring(t) THEN w ELSE [w EXCEPT !.next = zero, !.ended = ended]
      BY DEF Finished
    <3>2. Finished(t) \in TaskType
      BY <3>1 DEF TaskType
    <3>. QED BY <2>2, <3>2, Typed DEF IInv
  <2>4. /\ u.claims \in Nat /\ u.claims # 0 /\ OccSafe(o)
        /\ HoldsToken(o, work[p].token) /\ Receipt(o, status, work[p].result)
    BY <1>2, Typed DEF IInv, WorkSafe, Settles
  <2>5. status = "succeeded" => input[o] = "completed"
    BY <2>4 DEF Receipt
  <2>6. status = "failed" => input[o] \in {"discarded", "failed"} \/ o \in lost
    BY <2>4 DEF Receipt, IInv, WorkSafe
  <2>7. Writes(o, v)
    BY <2>1, <2>4, <2>5, <2>6 DEF Writes, OccSafe
  <2>. QED BY <2>1, <2>2, <2>3, <2>7, RowWrite DEF IInv, TypeOK
<1>. QED BY <1>1, <1>2 DEF SettleTaskRun

\* Who recorded without an answer knows that the input exists.
LEMMA RecordToFallback ==
  ASSUME IInv, NEW p \in Runner, work[p].phase = "record", Goto(p, "fallback", work[p].result),
         UNCHANGED input,
         occ' = occ \/ \E status \in {"succeeded", "failed"} : SettleTaskRun(p, status)
  PROVE  /\ work' \in [Runner -> WorkType]
         /\ WorkSafe(p)' /\ \A q \in Runner \ {p} : work'[q] = work[q]
<1>. PICK o \in Occurrence : o = work[p].occ
  BY DEF IInv, WorkSafe, Engaged
<1>. PICK result \in {None, "completed", "failed"} : result = work[p].result
  BY Typed DEF IInv, WorkType
<1>1. Goto(p, "fallback", result)
  BY DEF Goto
<1>2. /\ work' \in [Runner -> WorkType] /\ work'[p].phase = "fallback"
      /\ work'[p].occ = o /\ work'[p].token = work[p].token
      /\ \A q \in Runner \ {p} : work'[q] = work[q]
  BY <1>1, GotoEffect DEF IInv, Phases
<1>3. occ'[o].claims = occ[o].claims
  <2>. PICK u \in OccType : u = occ[o]
    BY Typed DEF IInv
  <2>1. ASSUME NEW status \in {"succeeded", "failed"}, SettleTaskRun(p, status)
        PROVE  occ'[o].claims = occ[o].claims
    <3>. PICK v : v = [u EXCEPT !.status = status, !.token = 0, !.lapsed = FALSE]
      OBVIOUS
    <3>1. v.claims = u.claims
      BY DEF OccType
    <3>2. occ' = occ \/ occ' = [occ EXCEPT ![o] = v]
      BY <2>1 DEF SettleTaskRun
    <3>. QED BY <3>1, <3>2, Typed DEF IInv
  <2>. QED BY <2>1
<1>4. WorkSafe(p)'
  BY <1>2, <1>3 DEF IInv, WorkSafe, Engaged
<1>. QED BY <1>2, <1>4

LEMMA RecordKeeps == ASSUME IInv, NEW p \in Runner, Record(p) \/ LoseRecord(p) PROVE IInv'
<1>. PICK status \in {"succeeded", "failed"} :
        status = IF work[p].result = "failed" THEN "failed" ELSE "succeeded"
  OBVIOUS
<1>1. /\ work[p].phase = "record" /\ Engaged(p)
      /\ SettleTaskRun(p, status) \/ UNCHANGED <<occ, task>>
      /\ UNCHANGED <<now, input, session, runner, stray, lost, refused>>
  BY DEF Record, LoseRecord, Engaged, History
<1>2. faults' \in 0 .. MaxFaults
  BY FaultTyped DEF Record, LoseRecord, IInv, TypeOK
<1>3. status = "failed" => work[p].result # None
  BY Constants
<1>4. CASE Goto(p, "fallback", work[p].result)
  <2>1. occ' = occ \/ \E x \in {"succeeded", "failed"} : SettleTaskRun(p, x)
    BY <1>1
  <2>. QED BY <1>1, <1>2, <1>3, <1>4, <2>1, RecordToFallback, SettledKeeps
<1>5. CASE work' = [work EXCEPT ![p] = Idle]
  <2>1. /\ work' \in [Runner -> WorkType]
        /\ \A q \in Runner : work'[q] = work[q] \/ work'[q] = Idle
    BY <1>5, IdleTyped, WorkEffect DEF IInv
  <2>. QED BY <1>1, <1>2, <1>3, <2>1, SettledKeeps
<1>. QED BY <1>4, <1>5 DEF Record, LoseRecord

LEMMA FallbackKeeps == ASSUME IInv, NEW p \in Runner, Fallback(p) PROVE IInv'
<1>. PICK status \in {"succeeded", "failed"} : status = "failed"
  OBVIOUS
<1>1. /\ work[p].phase = "fallback" /\ Engaged(p) /\ SettleTaskRun(p, status)
      /\ UNCHANGED <<now, input, session, runner, stray, lost, refused, faults>>
  BY DEF Fallback, Engaged, History
<1>2. /\ work' \in [Runner -> WorkType]
      /\ \A q \in Runner : work'[q] = work[q] \/ work'[q] = Idle
  BY IdleTyped, WorkEffect DEF Fallback, IInv
<1>. QED BY <1>1, <1>2, SettledKeeps DEF IInv, TypeOK

-------------------------------------------------------------------------------
\* Steps that cancel occurrences nobody has claimed.

LEMMA RowCancelled ==
  ASSUME IInv, NEW o \in Occurrence, occ[o].status \in {"absent", "pending"},
         occ'[o] = [occ[o] EXCEPT !.status = "cancelled"], input[o] = "none" => input'[o] = "none"
  PROVE  /\ occ'[o] \in OccType /\ OccSafe(o)' /\ Grows(o)
         /\ occ'[o].token = 0 /\ occ'[o].status = "cancelled"
<1>. PICK u \in OccType : u = occ[o]
  BY Typed DEF IInv
<1>1. /\ occ'[o] \in OccType /\ occ'[o].status = "cancelled" /\ occ'[o].claims = u.claims
      /\ occ'[o].token = u.token /\ occ'[o].linked = u.linked /\ occ'[o].lapsed = u.lapsed
  BY DEF OccType, Ended
<1>2. u.claims = 0 /\ u.token = 0 /\ input[o] = "none" /\ ~u.linked
  BY DEF IInv, OccSafe
<1>3. input'[o] = "none"
  BY <1>2
<1>4. OccSafe(o)'
  BY <1>1, <1>2, <1>3 DEF OccSafe
<1>5. Grows(o)
  BY <1>1, <1>2 DEF Grows
<1>. QED BY <1>1, <1>2, <1>4, <1>5

\* A step that cancels some unclaimed rows and lets the other inputs move on.
LEMMA RowsCancelled ==
  ASSUME IInv, NEW O \in SUBSET Occurrence,
         \A o \in O : occ[o].status \in {"absent", "pending"},
         occ' = [o \in Occurrence |-> IF o \in O THEN [occ[o] EXCEPT !.status = "cancelled"]
                                                 ELSE occ[o]],
         input' \in [Occurrence -> Inputs],
         \A o \in Occurrence : InputStep(o) /\ (input[o] = "none" => input'[o] = "none"),
         task' \in [Task -> TaskType], session' \in SessionType, refused' \in BOOLEAN,
         UNCHANGED <<now, runner, work, stray, lost, faults>>,
         ArchiveSafe'
  PROVE  IInv'
<1>1. ASSUME NEW o \in Occurrence
      PROVE  /\ occ'[o] \in OccType /\ OccSafe(o)' /\ Grows(o)
             /\ occ'[o].token # 0 <=> occ'[o].status \in {"claimed", "running"}
  <2>1. CASE o \in O
    <3>1. occ'[o] = [occ[o] EXCEPT !.status = "cancelled"]
      BY <2>1
    <3>. QED BY <2>1, <3>1, RowCancelled
  <2>2. CASE o \notin O
    <3>1. occ'[o] = occ[o]
      BY <2>2
    <3>2. OccSafe(o)' /\ Grows(o)
      BY <3>1, OccKept
    <3>. QED BY <3>1, <3>2, Typed DEF IInv, TypeOK
  <2>. QED BY <2>1, <2>2
<1>2. occ' \in [Occurrence -> OccType]
  <2>. DEFINE f == [o \in Occurrence |-> IF o \in O THEN [occ[o] EXCEPT !.status = "cancelled"]
                                                    ELSE occ[o]]
  <2>1. occ' = f /\ \A o \in Occurrence : f[o] \in OccType
    BY <1>1
  <2>. QED BY <2>1
<1>3. TypeOK'
  BY <1>1, <1>2 DEF IInv, TypeOK, Inputs
<1>4. now' >= now
  BY DEF IInv, TypeOK
<1>. QED BY <1>1, <1>3, <1>4, StepSafe

LEMMA CancelKeeps == ASSUME IInv, NEW t \in Task, Cancel(t) PROVE IInv'
<1>. DEFINE O == {o \in Occurrence : o[1] = t /\ occ[o].status = "pending"}
<1>. PICK v \in TaskType : v = task[t]
  BY Typed DEF IInv
<1>. PICK zero \in 0 .. MaxFire + 1 : zero = 0
  BY Constants
<1>. DEFINE w == [v EXCEPT !.ended = "cancelled", !.next = zero]
<1>1. w \in TaskType
  BY DEF TaskType
<1>2. task' = [task EXCEPT ![t] = w]
  BY DEF Cancel
<1>. HIDE DEF w
<1>3. task' \in [Task -> TaskType]
  BY <1>1, <1>2, Typed DEF IInv
<1>4. occ' = [o \in Occurrence |-> IF o \in O THEN [occ[o] EXCEPT !.status = "cancelled"]
                                              ELSE occ[o]]
  BY DEF Cancel
<1>5. UNCHANGED <<now, input, session, runner, work, stray, lost, refused, faults>>
  BY DEF Cancel, Host, History
<1>6. O \in SUBSET Occurrence /\ \A o \in O : occ[o].status \in {"absent", "pending"}
  OBVIOUS
<1>. HIDE DEF O
<1>7. ArchiveSafe'
  <2>1. \A o \in Occurrence : occ'[o] = occ[o] \/ occ'[o].status = "cancelled"
    BY <1>4, Typed DEF IInv, OccType
  <2>. QED BY <1>5, <2>1 DEF IInv, ArchiveSafe, Active
<1>8. input' \in [Occurrence -> Inputs] /\ \A o \in Occurrence : InputStep(o)
  BY <1>5, Typed DEF IInv, InputStep
<1>9. refused' \in BOOLEAN
  BY <1>5 DEF IInv, TypeOK
<1>10. session' \in SessionType
  BY <1>5 DEF IInv, TypeOK
<1>. QED BY <1>3, <1>4, <1>5, <1>6, <1>7, <1>8, <1>9, <1>10, RowsCancelled

LEMMA ArchiveKeeps == ASSUME IInv, Archive PROVE IInv'
<1>. PICK v \in SessionType : v = session
  BY DEF IInv, TypeOK
<1>0. UNCHANGED <<now, task, runner, work, stray, lost, faults>>
  BY DEF Archive, Host
<1>1. CASE Refused
  <2>. DEFINE w == [v EXCEPT !.request = "none"]
  <2>1. w \in SessionType /\ w.archived = v.archived
    BY DEF SessionType
  <2>2. session' = w /\ UNCHANGED <<occ, input>> /\ refused' = TRUE
    BY <1>1 DEF Archive
  <2>. HIDE DEF w
  <2>3. session' \in SessionType /\ session'.archived = session.archived
    BY <2>1, <2>2
  <2>4. refused' \in BOOLEAN
    BY <2>2
  <2>5. ArchiveSafe' /\ now' >= now
    BY <1>0, <2>2, <2>3, ArchiveKept DEF IInv, TypeOK
  <2>6. TypeOK'
    BY <1>0, <2>2, <2>3, <2>4 DEF IInv, TypeOK
  <2>. QED BY <1>0, <2>2, <2>5, <2>6, RowsKept, StepSafe
<1>2. CASE ~Refused
  <2>. DEFINE O == {o \in Occurrence : Active(o)}
              w == [v EXCEPT !.archived = TRUE, !.request = "none"]
  <2>1. w \in SessionType
    BY DEF SessionType
  <2>2. /\ session' = w /\ input' = Discarded /\ refused' = refused
        /\ occ' = [o \in Occurrence |-> IF o \in O THEN [occ[o] EXCEPT !.status = "cancelled"]
                                                   ELSE occ[o]]
    BY <1>2 DEF Archive
  <2>. HIDE DEF w
  <2>3. \A o \in O : occ[o].status = "pending"
    BY <1>2 DEF Refused, Active, IInv, TypeOK
  <2>4. ArchiveSafe'
    <3>1. ASSUME NEW o \in Occurrence PROVE occ'[o].status \notin {"pending", "claimed", "running"}
      <4>1. CASE o \in O
        <5>1. occ'[o] = [occ[o] EXCEPT !.status = "cancelled"]
          BY <2>2, <4>1
        <5>. QED BY <5>1, Typed DEF IInv, OccType
      <4>2. CASE o \notin O
        BY <2>2, <4>2 DEF Active
      <4>. QED BY <4>1, <4>2
    <3>. QED BY <3>1 DEF ArchiveSafe, Active
  <2>5. refused' \in BOOLEAN
    BY <2>2 DEF IInv, TypeOK
  <2>6. task' \in [Task -> TaskType] /\ O \in SUBSET Occurrence
        /\ \A o \in O : occ[o].status \in {"absent", "pending"}
    BY <1>0, <2>3, Typed DEF IInv
  <2>. HIDE DEF O
  <2>. QED BY <1>0, <2>1, <2>2, <2>4, <2>5, <2>6, DiscardedStep, RowsCancelled
<1>. QED BY <1>1, <1>2

LEMMA RestoreKeeps == ASSUME IInv, Restore PROVE IInv'
<1>. DEFINE O == {o \in Occurrence :
                    /\ ~Over(o[1]) /\ task[o[1]].enabled /\ Missed(o[1])
                    /\ task[o[1]].runAt = o[2] /\ occ[o].status = "absent"}
<1>. PICK v \in SessionType : v = session
  BY DEF IInv, TypeOK
<1>. DEFINE w == [v EXCEPT !.archived = FALSE, !.fenced = FALSE]
<1>1. w \in SessionType /\ ~w.archived
  BY DEF SessionType
<1>2. session' = w
  BY DEF Restore
<1>. HIDE DEF w
<1>3. session' \in SessionType /\ ArchiveSafe'
  BY <1>1, <1>2 DEF ArchiveSafe
<1>4. occ' = [o \in Occurrence |-> IF o \in O THEN [occ[o] EXCEPT !.status = "cancelled"]
                                              ELSE occ[o]]
  BY DEF Restore
<1>5. UNCHANGED <<now, input, runner, work, stray, lost, refused, faults>>
  BY DEF Restore, Host, History
<1>6. task' \in [Task -> TaskType]
  <2>1. ASSUME NEW t \in Task PROVE Restored(t) \in TaskType
    <3>. PICK x \in TaskType : x = task[t]
      BY Typed DEF IInv
    <3>. PICK zero \in 0 .. MaxFire + 1 : zero = 0
      BY Constants
    <3>. PICK runAt \in 0 .. MaxFire + 1 : runAt = x.runAt
      BY DEF TaskType
    <3>. PICK later \in 0 .. MaxFire + 1 : later = now + 1
      BY Constants DEF IInv, TypeOK
    <3>. PICK next \in 0 .. MaxFire + 1 : next = IF Recurring(t) THEN later ELSE runAt
      OBVIOUS
    <3>1. \/ Restored(t) = x \/ Restored(t) = [x EXCEPT !.ended = "cancelled", !.next = zero]
          \/ Restored(t) = [x EXCEPT !.next = next]
      BY DEF Restored
    <3>. QED BY <3>1 DEF TaskType
  <2>. QED BY <2>1 DEF Restore
<1>7. O \in SUBSET Occurrence /\ \A o \in O : occ[o].status \in {"absent", "pending"}
  OBVIOUS
<1>. HIDE DEF O
<1>8. input' \in [Occurrence -> Inputs] /\ \A o \in Occurrence : InputStep(o)
  BY <1>5, Typed DEF IInv, InputStep
<1>9. refused' \in BOOLEAN
  BY <1>5 DEF IInv, TypeOK
<1>. QED BY <1>3, <1>4, <1>5, <1>6, <1>7, <1>8, <1>9, RowsCancelled

-------------------------------------------------------------------------------
LEMMA NextInvariant == IInv /\ [Next]_vars => IInv'
<1>. SUFFICES ASSUME IInv, [Next]_vars PROVE IInv'
  OBVIOUS
<1>1. ASSUME NEW t \in Task, NEW kind \in {"once", "recurring"}, NEW f \in 1 .. MaxFire + 1,
             NEW on \in BOOLEAN, Update(t, kind, f, on)
      PROVE  IInv'
  BY <1>1, UpdateKeeps
<1>2. ASSUME NEW p \in Runner, Drain(p) PROVE IInv'
  BY <1>2, ListDueKeeps, MaterializeKeeps, ClaimTaskRunKeeps DEF Drain
<1>3. ASSUME NEW p \in Runner, Process(p) PROVE IInv'
  BY <1>3, SubmitKeeps, LinkKeeps, WaitKeeps, RecordKeeps, FallbackKeeps DEF Process
<1>4. ASSUME NEW p \in Runner, LoseAnswer(p) \/ LoseClaim(p) PROVE IInv'
  BY <1>4, LoseSubmitKeeps, LoseLinkKeeps, RecordKeeps, LoseFallbackKeeps, LoseClaimKeeps
     DEF LoseAnswer
<1>5. ASSUME NEW p \in Runner, Stop(p) \/ Exit(p) \/ Crash(p) \/ Start(p) PROVE IInv'
  BY <1>5, ProcessKeeps
<1>6. ASSUME NEW s \in stray, StraySubmit(s) \/ StrayLink(s) PROVE IInv'
  BY <1>6, StraySubmitKeeps, StrayLinkKeeps
<1>7. ASSUME NEW o \in Occurrence,
             LapseClaim(o) \/ Apply(o) \/ \E result \in {"completed", "failed"} : EndRun(o, result)
      PROVE  IInv'
  BY <1>7, LapseClaimKeeps, RunKeeps
<1>8. CASE Advance \/ Reset \/ Archive \/ Restore
  BY <1>8, AdvanceKeeps, ResetKeeps, ArchiveKeeps, RestoreKeeps
<1>. QED
  BY <1>1, <1>2, <1>3, <1>4, <1>5, <1>6, <1>7, <1>8, CancelKeeps, FenceKeeps, StutterInvariant
     DEF Next

LEMMA Invariance == Spec => []IInv
  BY InitInvariant, NextInvariant, PTL DEF Spec

\* Every variable holds values of its kind, and a row has a token exactly while
\* it is claimed or running.
THEOREM TypeCorrect == Spec => []TypeOK
<1>1. IInv => TypeOK
  BY DEF IInv
<1>. QED BY <1>1, Invariance, PTL

\* What an ended occurrence says became of its input is so, for ever.
THEOREM TruthfulEnds == Spec => []EndsTruthfully
<1>1. IInv => EndsTruthfully
  BY DEF IInv, OccSafe, EndsTruthfully
<1>. QED BY <1>1, Invariance, PTL

-------------------------------------------------------------------------------
\* Who ends an occurrence, and which fire times pass.

Ends(o) == occ'[o].status \in {"succeeded", "failed"} /\ ~Settled(o)

\* Nothing but settleTaskRun writes that an occurrence succeeded or failed.
LEMMA OnlySettlementsEnd ==
  ASSUME IInv, Next, NEW o \in Occurrence, Ends(o)
  PROVE  \E p \in Runner : Record(p) \/ LoseRecord(p) \/ Fallback(p)
<1>. SUFFICES ASSUME \A p \in Runner : ~(Record(p) \/ LoseRecord(p) \/ Fallback(p)) PROVE FALSE
  OBVIOUS
<1>1. \A q \in Occurrence : occ[q] \in OccType
  BY Typed DEF IInv
<1>2. /\ occ \in [Occurrence -> OccType]
      /\ occ[o].status \notin {"succeeded", "failed"} /\ occ'[o].status \in {"succeeded", "failed"}
  BY Typed DEF IInv, Ends, Settled, Ended
<1>3. ASSUME UNCHANGED occ PROVE FALSE
  BY <1>2, <1>3
<1>4. ASSUME NEW p \in Runner, Materialize(p) PROVE FALSE
  BY <1>1, <1>2, <1>4 DEF Materialize, OccType
<1>5. ASSUME NEW p \in Runner, ClaimTaskRun(p) PROVE FALSE
  <2>. PICK q \in Occurrence : Claimable(q) /\ occ' = [occ EXCEPT ![q] = ClaimedRow(q)]
    BY <1>5 DEF ClaimTaskRun
  <2>1. ClaimedRow(q).status \in {"claimed", "running"}
    BY <1>1 DEF ClaimedRow, OccType, Claimable, Active
  <2>2. occ'[o].status \in {"claimed", "running"} \/ occ'[o] = occ[o]
    BY <1>2, <2>1
  <2>. QED BY <1>2, <2>2
<1>6. ASSUME NEW q \in Occurrence, LapseClaim(q) PROVE FALSE
  BY <1>1, <1>2, <1>6 DEF LapseClaim, OccType
<1>7. ASSUME NEW q, NEW token, occ' = Linked(q, token) PROVE FALSE
  BY <1>1, <1>2, <1>7 DEF Linked, OccType
<1>8. ASSUME (\E t \in Task : Cancel(t)) \/ Archive \/ Restore PROVE FALSE
  <2>1. occ'[o] = occ[o] \/ occ'[o] = [occ[o] EXCEPT !.status = "cancelled"]
    BY <1>8 DEF Cancel, Archive, Restore
  <2>. QED BY <1>1, <1>2, <2>1 DEF OccType
<1>. QED
  BY <1>3, <1>4, <1>5, <1>6, <1>7, <1>8
     DEF Next, Drain, Process, LoseAnswer, Table, Advance, Update, ListDue, Submit, Link, Wait,
         LoseSubmit, LoseLink, LoseFallback, LoseClaim, Stop, Exit, Crash, Start, Vanish,
         StraySubmit, StrayLink, Apply, EndRun, Fence, Reset

\* A claim that is past its lease, or was made before another one, settles nothing.
THEOREM HolderSettles == Spec => OnlyHolderSettles
<1>1. ASSUME IInv, [Next]_vars
      PROVE  [\A o \in Occurrence :
                occ'[o].status \in {"succeeded", "failed"} /\ ~Settled(o)
                => \E p \in Runner :
                      /\ work[p].occ = o /\ work'[p] # work[p]
                      /\ work[p].token = occ[o].claims /\ ~occ[o].lapsed]_vars
  <2>. SUFFICES ASSUME Next, NEW o \in Occurrence, Ends(o)
                PROVE  \E p \in Runner :
                          /\ work[p].occ = o /\ work'[p] # work[p]
                          /\ work[p].token = occ[o].claims /\ ~occ[o].lapsed
    BY <1>1 DEF Ends
  <2>. USE <1>1
  <2>1. PICK p \in Runner : Record(p) \/ LoseRecord(p) \/ Fallback(p)
    BY OnlySettlementsEnd
  <2>2. work[p].phase \in {"record", "fallback"} /\ Engaged(p)
    BY <2>1 DEF Record, LoseRecord, Fallback, Engaged
  <2>3. occ \in [Occurrence -> OccType] /\ work \in [Runner -> WorkType]
    BY Typed DEF IInv
  <2>4. PICK status \in {"succeeded", "failed"} : SettleTaskRun(p, status) \/ UNCHANGED occ
    BY <2>1 DEF Record, LoseRecord, Fallback
  <2>5. occ'[o] # occ[o]
    BY DEF Ends, Settled, Ended
  <2>6. work[p].occ = o /\ Settles(p, status)
    BY <2>3, <2>4, <2>5 DEF SettleTaskRun
  <2>7. work[p].token = occ[o].claims /\ ~occ[o].lapsed
    <3>1. work[p].token \in 1 .. occ[o].claims /\ occ[o].claims \in Nat
      BY <2>2, <2>6, Typed DEF IInv, WorkSafe
    <3>2. work[p].token \in {0, occ[o].claims} /\ ~occ[o].lapsed
      BY <2>6 DEF IInv, OccSafe, Settles, HoldsToken
    <3>. QED BY <3>1, <3>2
  <2>8. work'[p].phase # work[p].phase
    <3>1. CASE work' = [work EXCEPT ![p] = Idle]
      BY <2>2, <2>3, <3>1, IdleTyped
    <3>2. CASE work[p].phase = "record" /\ Goto(p, "fallback", work[p].result)
      BY <2>3, <3>2 DEF Goto, WorkType
    <3>. QED BY <2>1, <3>1, <3>2 DEF Record, LoseRecord, Fallback
  <2>. QED BY <2>6, <2>7, <2>8
<1>. QED BY <1>1, Invariance, PTL DEF Spec, OnlyHolderSettles

\* An absent occurrence becomes pending by its materialization alone.
LEMMA OnlyMaterializeFires ==
  ASSUME IInv, Next, NEW o \in Occurrence, occ[o].status = "absent", occ'[o].status = "pending"
  PROVE  \E p \in Runner : Materialize(p)
<1>. SUFFICES ASSUME \A p \in Runner : ~Materialize(p) PROVE FALSE
  OBVIOUS
<1>1. occ \in [Occurrence -> OccType] /\ \A q \in Occurrence : occ[q] \in OccType
  BY Typed DEF IInv
<1>2. ASSUME UNCHANGED occ PROVE FALSE
  BY <1>2
<1>3. ASSUME NEW p \in Runner, ClaimTaskRun(p) PROVE FALSE
  <2>. PICK q \in Occurrence : Claimable(q) /\ occ' = [occ EXCEPT ![q] = ClaimedRow(q)]
    BY <1>3 DEF ClaimTaskRun
  <2>1. q # o
    BY DEF Claimable, Active
  <2>. QED BY <1>1, <2>1
<1>4. ASSUME NEW q \in Occurrence, LapseClaim(q) PROVE FALSE
  BY <1>1, <1>4 DEF LapseClaim, OccType
<1>5. ASSUME NEW q, NEW token, occ' = Linked(q, token) PROVE FALSE
  BY <1>1, <1>5 DEF Linked, OccType
<1>6. ASSUME (\E t \in Task : Cancel(t)) \/ Archive \/ Restore PROVE FALSE
  <2>1. occ'[o] = occ[o] \/ occ'[o] = [occ[o] EXCEPT !.status = "cancelled"]
    BY <1>6 DEF Cancel, Archive, Restore
  <2>. QED BY <1>1, <2>1 DEF OccType
<1>7. ASSUME NEW p \in Runner, NEW status \in {"succeeded", "failed"}, SettleTaskRun(p, status)
      PROVE  FALSE
  BY <1>1, <1>7 DEF SettleTaskRun, OccType
<1>. QED
  BY <1>2, <1>3, <1>4, <1>5, <1>6, <1>7
     DEF Next, Drain, Process, LoseAnswer, Table, Advance, Update, ListDue, Submit, Link, Wait,
         Record, LoseRecord, Fallback,
         LoseSubmit, LoseLink, LoseFallback, LoseClaim, Stop, Exit, Crash, Start, Vanish,
         StraySubmit, StrayLink, Apply, EndRun, Fence, Reset

\* What a step does to the next fire time of a recurring definition.
LEMMA NextFireTime ==
  ASSUME IInv, Next, NEW t \in Task, Recurring(t)
  PROVE  \/ task'[t].kind = "once"
         \/ task'[t].next = task[t].next \/ task'[t].next \in {0, now + 1}
         \/ \E p \in Runner : Materialize(p) /\ work[p].occ[1] = t /\ ~UNCHANGED task
<1>. DEFINE Kept == task'[t].next = task[t].next \/ task'[t].next \in {0, now + 1}
<1>1. /\ task \in [Task -> TaskType] /\ \A u \in Task : task[u] \in TaskType
      /\ \A p \in Runner : Engaged(p) => work[p].occ[1] \in Task
  BY Typed, OccurrencePair DEF IInv, WorkSafe
<1>2. ASSUME UNCHANGED task PROVE Kept
  BY <1>2
<1>3. ASSUME NEW u \in Task, NEW kind \in {"once", "recurring"}, NEW f \in 1 .. MaxFire + 1,
             NEW on \in BOOLEAN, Update(u, kind, f, on)
      PROVE  Kept \/ task'[t].kind = "once"
  BY <1>1, <1>3 DEF Update, TaskType
<1>4. ASSUME NEW u \in Task, Cancel(u) PROVE Kept
  BY <1>1, <1>4 DEF Cancel, TaskType
<1>5. ASSUME NEW p \in Runner, NEW status, SettleTaskRun(p, status) PROVE Kept
  <2>. DEFINE u == work[p].occ[1]
  <2>1. task' = task \/ task' = [task EXCEPT ![u] = Finished(u)]
    BY <1>5 DEF SettleTaskRun
  <2>2. u = t => Finished(u) = task[u]
    BY DEF Finished
  <2>. QED BY <1>1, <2>1, <2>2
<1>6. CASE Restore
  <2>1. task'[t] = Restored(t)
    BY <1>6 DEF Restore
  <2>2. \/ Restored(t) = task[t] \/ Restored(t) = [task[t] EXCEPT !.next = now + 1]
    BY DEF Restored, Missed
  <2>. QED BY <1>1, <2>1, <2>2 DEF TaskType
<1>7. ASSUME NEW p \in Runner, Materialize(p) PROVE Kept \/ (work[p].occ[1] = t /\ ~UNCHANGED task)
  <2>. DEFINE u == work[p].occ[1]
  <2>1. task' = task \/ \E v : task' = [task EXCEPT ![u] = v]
    BY <1>7 DEF Materialize
  <2>2. CASE u = t
    BY <1>2, <2>2
  <2>3. CASE u # t
    BY <1>1, <2>1, <2>3
  <2>. QED BY <2>2, <2>3
<1>. QED
  BY <1>2, <1>3, <1>4, <1>5, <1>6, <1>7
     DEF Next, Drain, Process, LoseAnswer, Table, Advance, ListDue, ClaimTaskRun, LapseClaim,
         Submit, Link, Wait, Record, LoseRecord, Fallback, LoseSubmit, LoseLink, LoseFallback,
         LoseClaim, Stop, Exit, Crash, Start, Vanish, StraySubmit, StrayLink, Apply, EndRun,
         Fence, Reset, Archive

\* No list of due tasks is old enough to fire a definition that is not due, to
\* fire it twice, or to let its fire time pass without an occurrence.
THEOREM OnSchedule == Spec => FiresOnSchedule
<1>1. ASSUME IInv, [Next]_vars
      PROVE  [\A t \in Task, f \in Fire :
                /\ occ[<<t, f>>].status = "absent" /\ occ'[<<t, f>>].status = "pending"
                   => Ready(t) /\ task[t].next = f /\ f <= now
                /\ Recurring(t) /\ task'[t].kind = "recurring"
                   /\ task[t].next = f /\ task'[t].next > f
                   => occ'[<<t, f>>].status # "absent" \/ task'[t].next = now + 1]_vars
  <2>. USE <1>1
  <2>. SUFFICES ASSUME Next, NEW t \in Task, NEW f \in Fire
                PROVE  /\ occ[<<t, f>>].status = "absent" /\ occ'[<<t, f>>].status = "pending"
                          => Ready(t) /\ task[t].next = f /\ f <= now
                       /\ Recurring(t) /\ task'[t].kind = "recurring"
                          /\ task[t].next = f /\ task'[t].next > f
                          => occ'[<<t, f>>].status # "absent" \/ task'[t].next = now + 1
    OBVIOUS
  <2>. PICK o \in Occurrence : o = <<t, f>>
    BY DEF Occurrence
  <2>1. occ \in [Occurrence -> OccType] /\ task \in [Task -> TaskType]
    BY Typed DEF IInv
  <2>2. ASSUME occ[o].status = "absent", occ'[o].status = "pending"
        PROVE  Ready(t) /\ task[t].next = f /\ f <= now
    <3>1. PICK p \in Runner : Materialize(p)
      BY <2>2, OnlyMaterializeFires
    <3>2. PICK q \in Occurrence : q = work[p].occ /\ q[2] <= now
      BY <3>1 DEF Materialize, IInv, WorkSafe
    <3>3. StillDue(q) /\ q = o
      BY <2>1, <2>2, <3>1, <3>2 DEF Materialize
    <3>. QED BY <3>2, <3>3 DEF StillDue
  <2>3. ASSUME Recurring(t), task'[t].kind = "recurring", task[t].next = f, task'[t].next > f,
               task'[t].next # now + 1
        PROVE  occ'[o].status # "absent"
    <3>1. task'[t].next # task[t].next /\ task'[t].next \notin {0, now + 1}
      BY <2>3, Constants
    <3>2. PICK p \in Runner : Materialize(p) /\ work[p].occ[1] = t /\ ~UNCHANGED task
      <4>1. task'[t].kind # "once"
        BY <2>3
      <4>. QED BY <2>3, <3>1, <4>1, NextFireTime
    <3>3. PICK q \in Occurrence : q = work[p].occ
      BY <3>2 DEF Materialize, IInv, WorkSafe
    <3>4. StillDue(q) /\ occ' = [occ EXCEPT ![q].status = "pending"]
      BY <3>2, <3>3 DEF Materialize
    <3>5. q = o
      BY <2>3, <3>2, <3>3, <3>4, OccurrencePair DEF StillDue
    <3>. QED BY <2>1, <3>4, <3>5 DEF OccType
  <2>. QED BY <2>2, <2>3
<1>. QED BY <1>1, Invariance, PTL DEF Spec, FiresOnSchedule
===============================================================================
