--------------------------- MODULE ConnectorLease ---------------------------
(***************************************************************************)
(* One connector_leases row and the managed leases that compete for it:    *)
(* PostgresConnectorLeaseRepo and acquireManagedConnectorLease.  The       *)
(* daemon, Telegram and WhatsApp workers all own their work through it.    *)
(*                                                                         *)
(* Time is discrete and shared: PostgreSQL's clock and the holders'        *)
(* monotonic clocks advance at one rate, and only durations are compared   *)
(* on a holder.  A statement is sent, begins (NOW() is fixed there),       *)
(* commits, and is answered, with any delay in between.  A holder may give *)
(* up on it at any point: an abandoned statement stays at the server and   *)
(* may commit at any later time, behind statements its holder sent since.  *)
(***************************************************************************)
EXTENDS Naturals

CONSTANTS
  Holders,        \* holder ids
  Nobody,         \* no row
  TTL,            \* ttlMs, in ticks
  RenewInterval,  \* renewIntervalMs, in ticks
  MaxTime         \* bound: the clock stops here

ASSUME ConnectorLeaseAssumption ==
  /\ Nobody \notin Holders
  /\ TTL \in Nat \ {0} /\ RenewInterval \in Nat \ {0} /\ MaxTime \in Nat

VARIABLES
  now,     \* the clock
  row,     \* [holder, until]
  lease,   \* holder -> [pc, started, deadline, due] of its managed lease
  query,   \* holder -> [kind, stage, stamp] of the statement it waits for
  late,    \* abandoned renewals that have not committed
  cut,     \* history: holders whose row an abandoned renewal has moved back
  taken    \* history: when the row last got a new holder

vars == <<now, row, lease, query, late, cut, taken>>

Holding == {"holding", "renewing"}

NoQuery == [kind |-> "none", stage |-> "none", stamp |-> 0]

Init ==
  /\ now = 0
  /\ row = [holder |-> Nobody, until |-> 0]
  /\ lease = [h \in Holders |-> [pc |-> "idle", started |-> 0, deadline |-> 0, due |-> 0]]
  /\ query = [h \in Holders |-> NoQuery]
  /\ late = {} /\ cut = {} /\ taken = 0

----------------------------------------------------------------------------
(* The repository: statements at the server.                               *)

Begin(h) ==
  /\ query[h].stage = "sent"
  /\ query' = [query EXCEPT ![h].stage = "begun", ![h].stamp = now]
  /\ UNCHANGED <<now, row, lease, late, cut, taken>>

BeginLate(s) ==
  /\ s \in late /\ s.stage = "sent"
  /\ late' = (late \ {s}) \cup {[s EXCEPT !.stage = "begun", !.stamp = now]}
  /\ UNCHANGED <<now, row, lease, query, cut, taken>>

\* ON CONFLICT ... WHERE holder_id = EXCLUDED.holder_id OR leased_until <= NOW()
Acquirable(h, stamp) == row.holder \in {Nobody, h} \/ row.until <= stamp

\* Mutant: a lapsed lease can be renewed whoever holds it.
RenewableByAnyone(h, stamp) == row.holder # Nobody

Renewable(h, stamp) == row.holder = h /\ row.until > stamp

\* Mutant: the time to live is subtracted.
LeasedBackdated(h, stamp) == [holder |-> h, until |-> stamp - TTL]

Leased(h, stamp) == [holder |-> h, until |-> stamp + TTL]

Commit(h, kind, granted) ==
  /\ query[h].kind = kind /\ query[h].stage = "begun"
  /\ query' = [query EXCEPT ![h].stage = IF granted THEN "granted" ELSE "denied"]
  /\ row' = IF granted THEN Leased(h, query[h].stamp) ELSE row
  /\ cut' = IF granted THEN cut \ {h} ELSE cut
  /\ taken' = IF granted /\ row.holder # h THEN now ELSE taken
  /\ UNCHANGED <<now, lease, late>>

CommitAcquire(h) == Commit(h, "acquire", Acquirable(h, query[h].stamp))
CommitRenew(h)   == Commit(h, "renew", Renewable(h, query[h].stamp))

\* The same statement, when nobody waits for it any more. Its NOW() may be older
\* than that of the renewal the row shows.
CommitLate(s) ==
  /\ s \in late /\ s.stage = "begun"
  /\ late' = late \ {s}
  /\ IF Renewable(s.by, s.stamp)
     THEN /\ row' = Leased(s.by, s.stamp)
          /\ cut' = IF s.stamp + TTL < row.until THEN cut \cup {s.by} ELSE cut
     ELSE UNCHANGED <<row, cut>>
  /\ UNCHANGED <<now, lease, query, taken>>

----------------------------------------------------------------------------
(* The managed lease.                                                      *)

Send(h, kind, pc) ==
  /\ lease' = [lease EXCEPT ![h].pc = pc, ![h].started = now]
  /\ query' = [query EXCEPT ![h] = [kind |-> kind, stage |-> "sent", stamp |-> now]]
  /\ UNCHANGED <<now, row, late, cut, taken>>

Acquire(h) == lease[h].pc = "idle" /\ Send(h, "acquire", "acquiring")

Least(a, b) == IF a <= b THEN a ELSE b

\* Mutant: the local deadline counts from the answer.
DeadlineAfterAnswer(h) == now + TTL

\* The local deadline counts from before the statement was sent.
Deadline(h) == lease[h].started + TTL

\* The next renewal is due after the interval or at the deadline, whichever is
\* first.
RenewalDue(deadline) == IF deadline <= now THEN now ELSE Least(now + RenewInterval, deadline)

Answered(h, pc, kind, stage) ==
  lease[h].pc = pc /\ query[h].kind = kind /\ query[h].stage = stage

Granted(h) ==
  /\ \/ Answered(h, "acquiring", "acquire", "granted")
     \/ Answered(h, "renewing", "renew", "granted")
  /\ lease' = [lease EXCEPT ![h] =
       [pc |-> "holding", started |-> lease[h].started,
        deadline |-> Deadline(h), due |-> RenewalDue(Deadline(h))]]
  /\ UNCHANGED <<now, row, query, late, cut, taken>>

\* An acquisition that finds the row held throws.
Refused(h) ==
  /\ Answered(h, "acquiring", "acquire", "denied")
  /\ lease' = [lease EXCEPT ![h].pc = "failed"]
  /\ UNCHANGED <<now, row, query, late, cut, taken>>

\* markLost: the worker is told to stop.
Lost(h) ==
  /\ Answered(h, "renewing", "renew", "denied")
  /\ lease' = [lease EXCEPT ![h].pc = "lost"]
  /\ UNCHANGED <<now, row, query, late, cut, taken>>

\* Abandoned renewals are told apart by when they were sent: the next one is
\* sent later.
Unanswered(h) ==
  IF query[h].stage \in {"sent", "begun"}
  THEN {[by |-> h, sent |-> lease[h].started, stage |-> query[h].stage, stamp |-> query[h].stamp]}
  ELSE {}

\* A failed acquisition is not retried under this holder id.
AcquireError(h) ==
  /\ lease[h].pc = "acquiring"
  /\ lease' = [lease EXCEPT ![h].pc = "failed"]
  /\ UNCHANGED <<now, row, query, late, cut, taken>>

\* A failed renewal is, until the local deadline has passed.
RenewError(h) ==
  /\ lease[h].pc = "renewing"
  /\ lease' = [lease EXCEPT ![h].pc = IF now >= lease[h].deadline THEN "lost" ELSE "holding",
                            ![h].due = Least(now + RenewInterval, lease[h].deadline)]
  /\ query' = [query EXCEPT ![h] = NoQuery]
  /\ late' = late \cup Unanswered(h)
  /\ UNCHANGED <<now, row, cut, taken>>

Renew(h) ==
  /\ lease[h].pc = "holding" /\ now >= lease[h].due
  /\ Send(h, "renew", "renewing")

\* The flag is set first; the DELETE may fail and leave the row to expire.
Release(h) ==
  /\ lease[h].pc \in Holding \cup {"lost"}
  /\ lease' = [lease EXCEPT ![h].pc = "released"]
  /\ \/ row' = IF row.holder = h THEN [holder |-> Nobody, until |-> 0] ELSE row
     \/ row' = row
  /\ UNCHANGED <<now, query, late, cut, taken>>

Tick == now < MaxTime /\ now' = now + 1 /\ UNCHANGED <<row, lease, query, late, cut, taken>>

Next ==
  \/ Tick
  \/ \E h \in Holders :
       \/ Begin(h) \/ CommitAcquire(h) \/ CommitRenew(h)
       \/ Acquire(h) \/ Granted(h) \/ Refused(h) \/ Lost(h)
       \/ AcquireError(h) \/ RenewError(h) \/ Renew(h) \/ Release(h)
  \/ \E s \in late : BeginLate(s) \/ CommitLate(s)

Spec == Init /\ [][Next]_vars

----------------------------------------------------------------------------
(* Properties.                                                             *)

\* A managed lease that still trusts its local deadline.
Trusted(h) == lease[h].pc \in Holding /\ now < lease[h].deadline

LeaseType ==
  [pc : {"idle", "acquiring", "holding", "renewing", "lost", "released", "failed"},
   started : Nat, deadline : Nat, due : Nat]

QueryType ==
  [kind : {"none", "acquire", "renew"},
   stage : {"none", "sent", "begun", "granted", "denied"}, stamp : Nat]

LateType == [by : Holders, sent : Nat, stage : {"sent", "begun"}, stamp : Nat]

\* The row, the managed leases and their statements have their types.
TypeOK ==
  /\ now \in Nat
  /\ row \in [holder : Holders \cup {Nobody}, until : Nat]
  /\ lease \in [Holders -> LeaseType]
  /\ query \in [Holders -> QueryType]
  /\ late \subseteq LateType
  /\ cut \subseteq Holders /\ taken \in Nat

\* While a holder trusts its lease, the row is its own and outlives its local
\* deadline, whatever delays and errors the statements of any holder met, unless
\* one of its own abandoned renewals has committed behind a newer one since its
\* last commit (repo.ts:206-209, 248-273).
DeadlineHoldsUnlessCut ==
  \A h \in Holders \ cut :
    Trusted(h) => row.holder = h /\ lease[h].deadline <= row.until

\* Two workers trust one lease at the same time only if an abandoned renewal has
\* cut the lease of one of them short, and that one stops within one time to live
\* of the takeover, although the answer of a renewal that committed before may
\* still extend its deadline (repo.ts:248-273).
OverlapIsBounded ==
  \A h, k \in Holders :
    h # k /\ Trusted(h) /\ Trusted(k)
    => \E x \in {h, k} \cap cut : lease[x].deadline <= taken + TTL
=============================================================================
