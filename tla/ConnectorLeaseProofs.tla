------------------------ MODULE ConnectorLeaseProofs ------------------------
(***************************************************************************)
(* For any number of holders, any time to live, any renewal interval and   *)
(* any number of abandoned statements: a managed lease that trusts its     *)
(* local deadline owns the row until then, unless one of its own abandoned *)
(* renewals has cut the row short; and then it stops within one time to    *)
(* live of the takeover.                                                   *)
(***************************************************************************)
EXTENDS ConnectorLease, TLAPS

\* A statement's NOW() lies between the moment it was sent and the present.
StampInOrder(h) ==
  /\ lease[h].started <= now
  /\ query[h].stage \in {"begun", "granted"} =>
       lease[h].started <= query[h].stamp /\ query[h].stamp <= now

\* What a holder believes, or is about to be told, is backed by the row until
\* the moment it may rely on.
Backed(h, time) == now < time => row.holder = h /\ time <= row.until

\* The holder has been told, or will be, that a commit was granted.
ToldSoon(h) == lease[h].pc \in {"acquiring", "renewing"} /\ query[h].stage = "granted"

DeadlineBacked(h) ==
  /\ lease[h].pc \in Holding => Backed(h, lease[h].deadline)
  /\ ToldSoon(h) => Backed(h, lease[h].started + TTL)

\* A holder that has lost the row asked for it before it was taken.
AskedBeforeTaken(h) ==
  row.holder # h =>
    /\ lease[h].pc \in Holding => lease[h].deadline <= taken + TTL
    /\ ToldSoon(h) => lease[h].started <= taken

HolderSafe(h) ==
  /\ StampInOrder(h)
  /\ lease[h].pc \in Holding => lease[h].deadline <= lease[h].started + TTL
  /\ h \notin cut => DeadlineBacked(h)
  /\ AskedBeforeTaken(h)

IInv == TypeOK /\ taken <= now /\ \A h \in Holders : HolderSafe(h)

----------------------------------------------------------------------------
LEMMA InitInvariant == Init => IInv
  BY ConnectorLeaseAssumption
     DEF Init, IInv, TypeOK, LeaseType, QueryType, LateType, NoQuery, HolderSafe,
         StampInOrder, DeadlineBacked, Backed, ToldSoon, AskedBeforeTaken, Holding

LEMMA StutterInvariant == IInv /\ UNCHANGED vars => IInv'
  BY DEF IInv, TypeOK, HolderSafe, StampInOrder, DeadlineBacked, Backed, ToldSoon,
         AskedBeforeTaken, vars

LEMMA Types ==
  ASSUME IInv, NEW h \in Holders
  PROVE  /\ now \in Nat /\ taken \in Nat /\ taken <= now
         /\ row.holder \in Holders \cup {Nobody} /\ row.until \in Nat
         /\ lease[h] \in LeaseType /\ query[h] \in QueryType
         /\ lease[h].started \in Nat /\ lease[h].deadline \in Nat /\ lease[h].due \in Nat
         /\ query[h].stamp \in Nat /\ HolderSafe(h)
  BY DEF IInv, TypeOK, LeaseType, QueryType

LEMMA TickInvariant == IInv /\ Tick => IInv'
<1>. SUFFICES ASSUME IInv, Tick PROVE IInv'
  OBVIOUS
<1>1. /\ now' = now + 1 /\ now \in Nat /\ taken \in Nat /\ row' = row /\ lease' = lease
      /\ query' = query /\ late' = late /\ cut' = cut /\ taken' = taken
  BY DEF IInv, TypeOK, Tick
<1>2. TypeOK' /\ (taken <= now)'
  BY <1>1 DEF IInv, TypeOK
<1>3. ASSUME NEW h \in Holders PROVE HolderSafe(h)'
  BY <1>1, Types, ConnectorLeaseAssumption
     DEF HolderSafe, StampInOrder, DeadlineBacked, Backed, ToldSoon, AskedBeforeTaken
<1>. QED BY <1>2, <1>3 DEF IInv

\* A holder's step leaves the row and the clock alone, and only its own lease
\* and statement have to be looked at again.
LEMMA HolderStep ==
  ASSUME NEW h \in Holders, IInv, TypeOK',
         now' = now, row' = row, cut' = cut, taken' = taken,
         \A k \in Holders \ {h} : lease'[k] = lease[k] /\ query'[k] = query[k],
         HolderSafe(h)'
  PROVE  IInv'
<1>1. ASSUME NEW k \in Holders PROVE HolderSafe(k)'
  <2>1. CASE k = h
    BY <2>1
  <2>2. CASE k # h
    BY <2>2
       DEF IInv, HolderSafe, StampInOrder, DeadlineBacked, Backed, ToldSoon, AskedBeforeTaken
  <2>. QED BY <2>1, <2>2
<1>. QED BY <1>1 DEF IInv

LEMMA BeginInvariant ==
  ASSUME NEW h \in Holders, IInv, Begin(h) PROVE IInv'
<1>1. [query[h] EXCEPT !.stage = "begun", !.stamp = now] \in QueryType
  BY Types DEF QueryType
<1>2. /\ now' = now /\ row' = row /\ lease' = lease /\ cut' = cut /\ taken' = taken
      /\ late' = late /\ query[h].stage = "sent"
      /\ query' = [query EXCEPT ![h] = [query[h] EXCEPT !.stage = "begun", !.stamp = now]]
  BY DEF Begin
<1>3. /\ query'[h].stage = "begun" /\ query'[h].stamp = now
      /\ \A k \in Holders \ {h} : query'[k] = query[k]
  BY <1>2, Types DEF IInv, TypeOK, QueryType
<1>4. TypeOK'
  BY <1>1, <1>2 DEF IInv, TypeOK
<1>5. HolderSafe(h)'
  BY <1>2, <1>3, Types
     DEF HolderSafe, StampInOrder, DeadlineBacked, Backed, ToldSoon, AskedBeforeTaken
<1>. QED BY <1>2, <1>3, <1>4, <1>5, HolderStep

LEMMA BeginLateInvariant ==
  ASSUME NEW s \in late, IInv, BeginLate(s) PROVE IInv'
<1>1. /\ now' = now /\ row' = row /\ lease' = lease /\ cut' = cut /\ taken' = taken
      /\ query' = query /\ late' \subseteq LateType
  BY DEF BeginLate, IInv, TypeOK, LateType
<1>2. TypeOK'
  BY <1>1 DEF IInv, TypeOK
<1>. QED
  BY <1>1, <1>2
     DEF IInv, HolderSafe, StampInOrder, DeadlineBacked, Backed, ToldSoon, AskedBeforeTaken

----------------------------------------------------------------------------
\* Whoever is granted the row takes it from a holder whose time is over, which
\* asked for it in the past. The new row covers what the winner is told.
LEMMA GrantInvariant ==
  ASSUME NEW h \in Holders, NEW kind, IInv, Commit(h, kind, TRUE),
         row.holder \in {Nobody, h} \/ row.until <= query[h].stamp
  PROVE  IInv'
<1>1. /\ row' = [holder |-> h, until |-> query[h].stamp + TTL]
      /\ query' = [query EXCEPT ![h].stage = "granted"] /\ query[h].stage = "begun"
      /\ now' = now /\ lease' = lease /\ late' = late /\ cut' = cut \ {h}
      /\ taken' = IF row.holder # h THEN now ELSE taken
  BY DEF Commit, Leased
<1>2. [query[h] EXCEPT !.stage = "granted"] \in QueryType
  BY Types DEF QueryType
<1>3. /\ query'[h].stage = "granted" /\ query'[h].stamp = query[h].stamp
      /\ \A k \in Holders \ {h} : query'[k] = query[k]
  BY <1>1, Types DEF IInv, TypeOK, QueryType
<1>4. row'.holder = h /\ row'.until = query[h].stamp + TTL /\ row'.until \in Nat
  BY <1>1, Types, ConnectorLeaseAssumption
<1>5. TypeOK' /\ (taken <= now)'
  <2>1. query' \in [Holders -> QueryType]
    BY <1>1, <1>2 DEF IInv, TypeOK
  <2>2. taken' \in Nat /\ taken' <= now'
    BY <1>1, Types
  <2>3. row' \in [holder : Holders \cup {Nobody}, until : Nat]
    BY <1>1, <1>4
  <2>. QED BY <1>1, <2>1, <2>2, <2>3 DEF IInv, TypeOK
<1>6. HolderSafe(h)'
  BY <1>1, <1>3, <1>4, Types, ConnectorLeaseAssumption
     DEF HolderSafe, StampInOrder, DeadlineBacked, Backed, ToldSoon, AskedBeforeTaken
<1>7. ASSUME NEW k \in Holders, k # h PROVE HolderSafe(k)'
  <2>1. lease'[k] = lease[k] /\ query'[k] = query[k] /\ (k \in cut' <=> k \in cut)
    BY <1>1, <1>3, <1>7
  <2>2. StampInOrder(k)' /\ (ToldSoon(k)' <=> ToldSoon(k))
    BY <1>1, <2>1, Types DEF HolderSafe, StampInOrder, ToldSoon
  <2>3. ASSUME NEW time \in Nat, Backed(k, time) PROVE Backed(k, time)'
    BY <1>1, <1>7, <2>3, Types, ConnectorLeaseAssumption DEF Backed, HolderSafe, StampInOrder
  <2>4. k \notin cut' => DeadlineBacked(k)'
    <3>1. lease[k].deadline \in Nat /\ lease[k].started + TTL \in Nat /\ HolderSafe(k)
      BY Types, ConnectorLeaseAssumption
    <3>. QED BY <2>1, <2>2, <2>3, <3>1 DEF HolderSafe, DeadlineBacked
  <2>5. AskedBeforeTaken(k)'
    BY <1>1, <1>7, <2>1, <2>2, Types, ConnectorLeaseAssumption
       DEF HolderSafe, AskedBeforeTaken, StampInOrder
  <2>. QED BY <2>1, <2>2, <2>4, <2>5, Types DEF HolderSafe
<1>. QED BY <1>5, <1>6, <1>7 DEF IInv

LEMMA DenyInvariant ==
  ASSUME NEW h \in Holders, NEW kind, IInv, Commit(h, kind, FALSE)
  PROVE  IInv'
<1>1. /\ query' = [query EXCEPT ![h].stage = "denied"]
      /\ row' = row /\ now' = now /\ lease' = lease /\ late' = late /\ cut' = cut
      /\ taken' = taken
  BY DEF Commit
<1>2. [query[h] EXCEPT !.stage = "denied"] \in QueryType
  BY Types DEF QueryType
<1>3. query'[h].stage = "denied" /\ \A k \in Holders \ {h} : query'[k] = query[k]
  BY <1>1, Types DEF IInv, TypeOK, QueryType
<1>4. TypeOK'
  BY <1>1, <1>2 DEF IInv, TypeOK
<1>5. HolderSafe(h)'
  BY <1>1, <1>3, Types
     DEF HolderSafe, StampInOrder, DeadlineBacked, Backed, ToldSoon, AskedBeforeTaken
<1>. QED BY <1>1, <1>3, <1>4, <1>5, HolderStep

LEMMA CommitInvariant ==
  ASSUME NEW h \in Holders, IInv, CommitAcquire(h) \/ CommitRenew(h) PROVE IInv'
<1>1. PICK granted \in BOOLEAN, kind \in {"acquire", "renew"} :
        /\ Commit(h, kind, granted)
        /\ granted => \/ row.holder \in {Nobody, h}
                      \/ row.until <= query[h].stamp
  BY Zenon DEF CommitAcquire, CommitRenew, Acquirable, Renewable
<1>2. CASE granted = TRUE
  BY <1>1, <1>2, GrantInvariant
<1>3. CASE granted = FALSE
  BY <1>1, <1>3, DenyInvariant
<1>. QED BY <1>2, <1>3

\* An abandoned renewal changes only the expiry of its own holder's row, and a
\* holder whose row it shortens is recorded in cut.
LEMMA CommitLateInvariant ==
  ASSUME NEW s \in late, IInv, CommitLate(s) PROVE IInv'
<1>1. /\ now' = now /\ lease' = lease /\ query' = query /\ taken' = taken
      /\ late' \subseteq late
  BY DEF CommitLate
<1>2. s.by \in Holders /\ s.stamp \in Nat
  BY DEF IInv, TypeOK, LateType
<1>3. CASE Renewable(s.by, s.stamp)
  <2>1. /\ row.holder = s.by
        /\ row' = [holder |-> s.by, until |-> s.stamp + TTL]
        /\ cut' = IF s.stamp + TTL < row.until THEN cut \cup {s.by} ELSE cut
    BY <1>3 DEF CommitLate, Renewable, Leased
  <2>2. TypeOK'
    BY <1>1, <1>2, <2>1, ConnectorLeaseAssumption DEF IInv, TypeOK
  <2>3. row'.holder = row.holder
    BY <2>1
  <2>4. ASSUME NEW h \in Holders PROVE HolderSafe(h)'
    <3>1. StampInOrder(h)' /\ AskedBeforeTaken(h)' /\ (ToldSoon(h)' <=> ToldSoon(h))
          /\ (lease[h].pc \in Holding => lease[h].deadline <= lease[h].started + TTL)'
      BY <1>1, <2>3, Types DEF HolderSafe, StampInOrder, AskedBeforeTaken, ToldSoon
    <3>2. ASSUME h \notin cut', NEW time \in Nat, Backed(h, time) PROVE Backed(h, time)'
      BY <1>1, <1>2, <2>1, <3>2, Types, ConnectorLeaseAssumption DEF Backed
    <3>3. h \notin cut' => DeadlineBacked(h)'
      <4>1. lease[h].deadline \in Nat /\ lease[h].started + TTL \in Nat /\ HolderSafe(h)
            /\ (h \notin cut' => h \notin cut)
        BY <2>1, Types, ConnectorLeaseAssumption
      <4>. QED BY <1>1, <3>1, <3>2, <4>1 DEF HolderSafe, DeadlineBacked
    <3>. QED BY <3>1, <3>3 DEF HolderSafe
  <2>. QED BY <1>1, <2>2, <2>4 DEF IInv
<1>4. CASE ~Renewable(s.by, s.stamp)
  <2>1. row' = row /\ cut' = cut
    BY <1>4 DEF CommitLate
  <2>2. TypeOK'
    BY <1>1, <2>1 DEF IInv, TypeOK
  <2>. QED
    BY <1>1, <2>1, <2>2
       DEF IInv, HolderSafe, StampInOrder, DeadlineBacked, Backed, ToldSoon, AskedBeforeTaken
<1>. QED BY <1>3, <1>4

----------------------------------------------------------------------------
LEMMA SendInvariant ==
  ASSUME NEW h \in Holders, IInv, Acquire(h) \/ Renew(h) PROVE IInv'
<1>1. PICK kind \in {"acquire", "renew"}, pc \in {"acquiring", "renewing"} :
        Send(h, kind, pc) /\ (pc = "renewing" => lease[h].pc = "holding")
  BY DEF Acquire, Renew
<1>. DEFINE sent == [lease[h] EXCEPT !.pc = pc, !.started = now]
            asked == [kind |-> kind, stage |-> "sent", stamp |-> now]
<1>2. sent \in LeaseType /\ asked \in QueryType
  BY Types DEF LeaseType, QueryType
<1>3. /\ lease' = [lease EXCEPT ![h] = sent] /\ query' = [query EXCEPT ![h] = asked]
      /\ now' = now /\ row' = row /\ late' = late /\ cut' = cut /\ taken' = taken
  BY <1>1 DEF Send
<1>4. lease'[h] = sent /\ query'[h] = asked
      /\ \A k \in Holders \ {h} : lease'[k] = lease[k] /\ query'[k] = query[k]
  BY <1>3 DEF IInv, TypeOK
<1>5. TypeOK'
  BY <1>2, <1>3 DEF IInv, TypeOK
<1>6. /\ lease'[h].pc = pc /\ lease'[h].started = now
      /\ lease'[h].deadline = lease[h].deadline /\ query'[h].stage = "sent"
  BY <1>4, Types DEF LeaseType
<1>7. HolderSafe(h)'
  BY <1>1, <1>3, <1>6, Types, ConnectorLeaseAssumption
     DEF HolderSafe, StampInOrder, DeadlineBacked, Backed, ToldSoon, AskedBeforeTaken, Holding
<1>. QED BY <1>3, <1>4, <1>5, <1>7, HolderStep

LEMMA GrantedInvariant ==
  ASSUME NEW h \in Holders, IInv, Granted(h) PROVE IInv'
<1>1. PICK due \in Nat :
        lease' = [lease EXCEPT ![h] = [pc |-> "holding", started |-> lease[h].started,
                                       deadline |-> lease[h].started + TTL, due |-> due]]
  <2>1. RenewalDue(Deadline(h)) \in Nat
    BY Types, ConnectorLeaseAssumption DEF RenewalDue, Deadline, Least
  <2>. QED BY <2>1 DEF Granted, Deadline
<1>2. /\ now' = now /\ row' = row /\ query' = query /\ late' = late /\ cut' = cut
      /\ taken' = taken /\ ToldSoon(h)
  BY DEF Granted, Answered, ToldSoon
<1>3. TypeOK'
  BY <1>1, <1>2, Types, ConnectorLeaseAssumption DEF IInv, TypeOK, LeaseType
<1>4. /\ lease'[h].pc = "holding" /\ lease'[h].started = lease[h].started
      /\ lease'[h].deadline = lease[h].started + TTL
      /\ \A k \in Holders \ {h} : lease'[k] = lease[k]
  BY <1>1 DEF IInv, TypeOK
<1>5. HolderSafe(h)'
  BY <1>2, <1>4, Types, ConnectorLeaseAssumption
     DEF HolderSafe, StampInOrder, DeadlineBacked, Backed, ToldSoon, AskedBeforeTaken
<1>. QED BY <1>2, <1>3, <1>4, <1>5, HolderStep

\* A lease that ends, or whose acquisition fails, is trusted no more.
LEMMA EndInvariant ==
  ASSUME NEW h \in Holders, IInv, Refused(h) \/ Lost(h) \/ AcquireError(h) PROVE IInv'
<1>1. PICK pc \in {"failed", "lost"} : lease' = [lease EXCEPT ![h].pc = pc]
  BY DEF Refused, Lost, AcquireError
<1>2. /\ now' = now /\ row' = row /\ query' = query /\ late' = late /\ cut' = cut
      /\ taken' = taken
  BY DEF Refused, Lost, AcquireError
<1>3. TypeOK'
  BY <1>1, <1>2 DEF IInv, TypeOK, LeaseType
<1>4. /\ lease'[h].pc = pc /\ lease'[h].started = lease[h].started
      /\ \A k \in Holders \ {h} : lease'[k] = lease[k]
  BY <1>1, Types DEF IInv, TypeOK, LeaseType
<1>5. HolderSafe(h)'
  BY <1>2, <1>4, Types
     DEF HolderSafe, StampInOrder, DeadlineBacked, ToldSoon, AskedBeforeTaken, Holding
<1>. QED BY <1>2, <1>3, <1>4, <1>5, HolderStep

LEMMA RenewErrorInvariant ==
  ASSUME NEW h \in Holders, IInv, RenewError(h) PROVE IInv'
<1>1. PICK pc \in {"lost", "holding"}, due \in Nat :
        lease' = [lease EXCEPT ![h].pc = pc, ![h].due = due]
  <2>1. Least(now + RenewInterval, lease[h].deadline) \in Nat
    BY Types, ConnectorLeaseAssumption DEF Least
  <2>2. (IF now >= lease[h].deadline THEN "lost" ELSE "holding") \in {"lost", "holding"}
    BY Zenon
  <2>. QED BY <2>1, <2>2, Zenon DEF RenewError
<1>2. /\ now' = now /\ row' = row /\ query' = [query EXCEPT ![h] = NoQuery]
      /\ late' = late \cup Unanswered(h) /\ cut' = cut /\ taken' = taken
      /\ lease[h].pc = "renewing"
  BY DEF RenewError
<1>3. Unanswered(h) \subseteq LateType
  BY Types DEF Unanswered, LateType
<1>4. NoQuery \in QueryType
  BY DEF NoQuery, QueryType
<1>5. TypeOK'
  <2>1. [lease[h] EXCEPT !.pc = pc, !.due = due] \in LeaseType
    BY Types DEF LeaseType
  <2>2. lease' \in [Holders -> LeaseType]
    BY <1>1, <2>1 DEF IInv, TypeOK
  <2>. QED BY <1>2, <1>3, <1>4, <2>2 DEF IInv, TypeOK
<1>6. /\ lease'[h].pc = pc /\ lease'[h].started = lease[h].started
      /\ lease'[h].deadline = lease[h].deadline /\ query'[h].stage = "none"
      /\ \A k \in Holders \ {h} : lease'[k] = lease[k] /\ query'[k] = query[k]
  BY <1>1, <1>2, Types DEF IInv, TypeOK, LeaseType, NoQuery
<1>7. HolderSafe(h)'
  BY <1>2, <1>6, Types
     DEF HolderSafe, StampInOrder, DeadlineBacked, Backed, ToldSoon, AskedBeforeTaken, Holding
<1>. QED BY <1>2, <1>5, <1>6, <1>7, HolderStep

\* Release is the one step of a holder that may also give the row up.
LEMMA ReleaseInvariant ==
  ASSUME NEW h \in Holders, IInv, Release(h) PROVE IInv'
<1>1. /\ now' = now /\ query' = query /\ late' = late /\ cut' = cut /\ taken' = taken
      /\ lease' = [lease EXCEPT ![h].pc = "released"]
      /\ row' # row => row.holder = h /\ row' = [holder |-> Nobody, until |-> 0]
  BY DEF Release
<1>2. TypeOK'
  BY <1>1 DEF IInv, TypeOK, LeaseType
<1>3. /\ lease'[h].pc = "released" /\ lease'[h].started = lease[h].started
      /\ \A k \in Holders \ {h} : lease'[k] = lease[k]
  BY <1>1, Types DEF IInv, TypeOK, LeaseType
<1>4. HolderSafe(h)'
  BY <1>1, <1>3, Types
     DEF HolderSafe, StampInOrder, DeadlineBacked, ToldSoon, AskedBeforeTaken, Holding
<1>5. ASSUME NEW k \in Holders, k # h PROVE HolderSafe(k)'
  <2>1. \A time : Backed(k, time) => Backed(k, time)'
    BY <1>1, <1>5 DEF Backed
  <2>2. row'.holder # k => row.holder # k
    BY <1>1, <1>5
  <2>. QED BY <1>1, <1>3, <1>5, <2>1, <2>2, Types
           DEF HolderSafe, StampInOrder, DeadlineBacked, ToldSoon, AskedBeforeTaken
<1>. QED BY <1>1, <1>2, <1>4, <1>5 DEF IInv

THEOREM Invariant == Spec => []IInv
<1>1. IInv /\ [Next]_vars => IInv'
  BY StutterInvariant, TickInvariant, BeginInvariant, CommitInvariant, SendInvariant,
     GrantedInvariant, EndInvariant, RenewErrorInvariant, ReleaseInvariant,
     BeginLateInvariant, CommitLateInvariant DEF Next
<1>. QED BY InitInvariant, <1>1, PTL DEF Spec

----------------------------------------------------------------------------
(* The rows, leases and statements always have their types.                *)
THEOREM TypeCorrect == Spec => []TypeOK
  BY Invariant, PTL DEF IInv

(* acquireManagedConnectorLease's deadline is a lower bound of leased_until *)
(* for every holder, time to live and delay, until an abandoned renewal of  *)
(* the same holder commits behind a newer one.                             *)
THEOREM DeadlineSafe == Spec => []DeadlineHoldsUnlessCut
<1>1. IInv => DeadlineHoldsUnlessCut
  BY DEF IInv, HolderSafe, DeadlineBacked, Backed, DeadlineHoldsUnlessCut, Trusted
<1>. QED BY Invariant, <1>1, PTL

(* Two workers of one connector trust their leases at once only if an      *)
(* abandoned renewal has moved the row of one of them back, and that one   *)
(* stops within one time to live of the takeover.                          *)
THEOREM OverlapBounded == Spec => []OverlapIsBounded
<1>1. ASSUME IInv, NEW h \in Holders, Trusted(h), row.holder # h
      PROVE  h \in cut /\ lease[h].deadline <= taken + TTL
  <2>1. lease[h].pc \in Holding /\ now < lease[h].deadline
    BY <1>1 DEF Trusted
  <2>. QED BY <1>1, <2>1 DEF IInv, HolderSafe, DeadlineBacked, Backed, AskedBeforeTaken
<1>2. IInv => OverlapIsBounded
  <2>. SUFFICES ASSUME IInv, NEW h \in Holders, NEW k \in Holders,
                       h # k, Trusted(h), Trusted(k)
                PROVE  \E x \in {h, k} \cap cut : lease[x].deadline <= taken + TTL
    BY DEF OverlapIsBounded
  <2>. PICK x \in {h, k} : row.holder # x
    OBVIOUS
  <2>. QED BY <1>1
<1>. QED BY Invariant, <1>2, PTL
=============================================================================
