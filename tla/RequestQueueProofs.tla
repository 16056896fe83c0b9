--------------------------- MODULE RequestQueueProofs ---------------------------
(***************************************************************************)
(* For any requests, keys, daemons, slots, leases, faults and abandoned    *)
(* renewals: a handler that may produce side effects owns its claim and a  *)
(* stream has one owner, unless an abandoned renewal has cut the lease     *)
(* short; a fenced handler changes no row, a stream that nobody works on   *)
(* can be claimed, and the queue implements OrderedDelivery.               *)
(***************************************************************************)
EXTENDS RequestQueue, FiniteSetTheorems, WellFoundedInduction, TLAPS

\* A running row was claimed, and a stream runs one row at a time.
RowsSafe ==
    /\ \A r \in Request : row[r].status = "running" => row[r].attempt > 0
    /\ \A q, r \in Request :
          row[q].status = "running" /\ row[r].status = "running" /\ KeyOf[q] = KeyOf[r] => q = r

\* Every request whose insert has begun has one place in the order.
OrderSafe ==
    /\ \A i, j \in DOMAIN order : order[i] = order[j] => i = j
    /\ \A i \in DOMAIN order : row[order[i]].status # "absent"
    /\ \A r \in Request : row[r].status # "absent" => \E i \in DOMAIN order : order[i] = r

AheadSafe ==
    \A r \in Request : \A q \in ahead[r] : SameStream(q, r) /\ Earlier(q, r) /\ Visible(q)

\* A claim that has not committed keeps its candidate claimable by it; one that
\* has and is younger than the lease holds the row's token, and the lease
\* outlasts what a handler would count from the claim's start.
ClaimSafe(d) ==
    /\ claim[d].phase # "idle" => claim[d].req \in Request
    /\ claim[d].phase = "locked" =>
          /\ row[claim[d].req].status = "pending" \/ Expired(claim[d].req)
          /\ \A q \in ahead[claim[d].req] : Settled(q)
    /\ claim[d].phase = "claimed" =>
          /\ claim[d].attempt <= row[claim[d].req].attempt
          /\ claim[d].age < TTL =>
                ClaimIsCurrent(d) /\ row[claim[d].req].left >= TTL - claim[d].age

LockExclusive ==
    \A d, e \in Daemon :
        /\ claim[d].phase = "locked" /\ claim[e].phase = "locked"
        /\ claim[d].req = claim[e].req
        => d = e

\* A deadline never outlasts what the renewal in flight would give; a deadline
\* that has not passed, and a renewal that would set one, are backed by the row's
\* token and lease, unless an abandoned renewal has shortened it.
HandlerSafe(h) ==
    /\ handler[h].phase = "idle" => handler[h].deadline = 0 /\ handler[h].renewal = "none"
    /\ handler[h].phase # "idle" =>
          handler[h].req \in Request /\ handler[h].attempt <= row[handler[h].req].attempt
    /\ handler[h].deadline > 0 => handler[h].phase = "working"
    /\ handler[h].renewal \in {"sent", "renewed"} =>
          handler[h].deadline <= TTL - handler[h].age
    /\ ~LeaseCut(h) /\ handler[h].deadline > 0 =>
          HoldsToken(h) /\ row[handler[h].req].left >= handler[h].deadline
    /\ ~LeaseCut(h) /\ handler[h].renewal = "renewed" /\ handler[h].age < TTL =>
          HoldsToken(h) /\ row[handler[h].req].left >= TTL - handler[h].age

\* An abandoned renewal has a token that no claim in flight has, or will have.
LateSafe(s) ==
    /\ s.attempt <= row[s.req].attempt
    /\ \A d \in Daemon :
          claim[d].phase = "claimed" /\ claim[d].req = s.req => claim[d].attempt # s.attempt

\* No two handlers, no two answered claims, and no handler and answered claim
\* have the same attempt of the same request.
TokensUnique ==
    /\ \A h, k \in Handler :
          /\ handler[h].phase # "idle" /\ handler[k].phase # "idle"
          /\ handler[h].req = handler[k].req /\ handler[h].attempt = handler[k].attempt
          => h = k
    /\ \A d, e \in Daemon :
          /\ claim[d].phase = "claimed" /\ claim[e].phase = "claimed"
          /\ claim[d].req = claim[e].req /\ claim[d].attempt = claim[e].attempt
          => d = e
    /\ \A d \in Daemon, h \in Handler :
          /\ claim[d].phase = "claimed" /\ handler[h].phase # "idle"
          /\ claim[d].req = handler[h].req
          => claim[d].attempt # handler[h].attempt

IInv ==
    /\ TypeOK
    /\ RowsSafe /\ OrderSafe /\ AheadSafe
    /\ (\A d \in Daemon : ClaimSafe(d)) /\ LockExclusive
    /\ \A h \in Handler : HandlerSafe(h)
    /\ TokensUnique
    /\ \A s \in late : LateSafe(s)

-------------------------------------------------------------------------------
\* Lemmas about numbers, functions and the records of the three tables.

LEMMA Constants ==
  /\ TTL \in Nat /\ TTL > 0 /\ TTL \in 0 .. TTL /\ 0 \in 0 .. TTL
  /\ RetryAfter \in 0 .. TTL /\ MaxFaults \in Nat /\ Malformed \subseteq Request
  BY QueueAssumption

LEMMA LeastNat ==
  ASSUME NEW T, T \subseteq Nat, T # {}
  PROVE  \E x \in T : \A y \in T : x <= y
<1>. DEFINE R == {ss \in Nat \X Nat : ss[1] < ss[2]}
<1>1. IsWellFoundedOn(R, Nat)
  BY NatLessThanWellFounded DEF OpToRel
<1>. HIDE DEF R
<1>2. PICK x \in T : \A y \in T : <<y, x>> \notin R
  BY <1>1, WFMin
<1>3. \A y \in Nat : <<y, x>> \in R <=> y < x
  BY DEF R
<1>4. ASSUME NEW y \in T PROVE x <= y
  <2>1. x \in Nat /\ y \in Nat /\ ~(y < x)
    BY <1>2, <1>3
  <2>. QED BY <2>1
<1>. QED BY <1>4

LEMMA Override ==
  ASSUME NEW S, NEW T, NEW f \in [S -> T], NEW x \in S, NEW y \in T
  PROVE  LET g == [f EXCEPT ![x] = y] IN
         g \in [S -> T] /\ g[x] = y /\ \A z \in S \ {x} : g[z] = f[z]
  OBVIOUS

Statuses == {"absent", "inserting", "pending", "running", "completed", "failed", "pruned"}

LEMMA Typed ==
  ASSUME TypeOK
  PROVE  /\ \A r \in Request : /\ row[r] \in RowType /\ row[r].status \in Statuses
                               /\ row[r].attempt \in Nat /\ row[r].left \in 0 .. TTL
         /\ \A d \in Daemon : /\ claim[d] \in ClaimType /\ claim[d].attempt \in Nat
                              /\ claim[d].age \in 0 .. TTL
         /\ \A h \in Handler : /\ handler[h] \in HandlerType /\ handler[h].attempt \in Nat
                               /\ handler[h].age \in 0 .. TTL
                               /\ handler[h].deadline \in 0 .. TTL
         /\ row \in [Request -> RowType] /\ claim \in [Daemon -> ClaimType]
         /\ handler \in [Handler -> HandlerType]
         /\ faults \in 0 .. MaxFaults
         /\ \A s \in late : /\ s.req \in Request /\ s.attempt \in Nat /\ s.age \in 0 .. TTL
                            /\ s.id \in 0 .. MaxFaults
  BY DEF TypeOK, RowType, ClaimType, HandlerType, LateType, Statuses

LEMMA FaultTyped ==
  ASSUME TypeOK, Fault PROVE faults' \in 0 .. MaxFaults
  BY Constants DEF TypeOK, Fault

\* The empty records are typed and hold nothing.
LEMMA NoClaimTyped == NoClaim \in ClaimType /\ NoClaim.phase = "idle"
  BY Constants DEF NoClaim, ClaimType

LEMMA IdleHandlerTyped ==
  /\ IdleHandler \in HandlerType /\ IdleHandler.phase = "idle"
  /\ IdleHandler.deadline = 0 /\ IdleHandler.renewal = "none"
  BY Constants DEF IdleHandler, HandlerType

\* SetRow keeps the attempt of one row and replaces the rest of it.
LEMMA SetRowEffect ==
  ASSUME TypeOK, NEW r \in Request, NEW status \in Statuses, NEW left \in 0 .. TTL,
         SetRow(r, status, left)
  PROVE  /\ row' \in [Request -> RowType]
         /\ row'[r].status = status /\ row'[r].left = left
         /\ row'[r].attempt = row[r].attempt
         /\ \A q \in Request \ {r} : row'[q] = row[q]
<1>. DEFINE v == [row[r] EXCEPT !.status = status, !.left = left]
<1>1. v \in RowType /\ v.status = status /\ v.left = left /\ v.attempt = row[r].attempt
  BY Typed DEF RowType, Statuses
<1>2. row' = [row EXCEPT ![r] = v]
  BY Typed DEF SetRow
<1>. HIDE DEF v
<1>. QED BY <1>1, <1>2, Typed, Override

LEMMA InitInvariant == Init => IInv
<1>. SUFFICES ASSUME Init PROVE IInv
  OBVIOUS
<1>1. TypeOK
  <2>1. row \in [Request -> RowType]
    BY Constants DEF Init, RowType
  <2>2. claim \in [Daemon -> ClaimType] /\ handler \in [Handler -> HandlerType]
    BY NoClaimTyped, IdleHandlerTyped DEF Init
  <2>3. order \in Seq(Request) /\ ahead \in [Request -> SUBSET Request]
        /\ daemon \in [Daemon -> {"up", "stopping", "down"}] /\ faults \in 0 .. MaxFaults
        /\ late = {} /\ cut = {}
    BY Constants DEF Init
  <2>. QED BY <2>1, <2>2, <2>3 DEF TypeOK
<1>2. \A r \in Request : row[r].status = "absent" /\ ahead[r] = {}
  BY DEF Init
<1>3. order = <<>> /\ DOMAIN order = {}
  BY DEF Init
<1>4. \A d \in Daemon : claim[d].phase = "idle"
  BY NoClaimTyped DEF Init
<1>5. \A h \in Handler : /\ handler[h].phase = "idle" /\ handler[h].deadline = 0
                         /\ handler[h].renewal = "none"
  BY IdleHandlerTyped DEF Init
<1>6. RowsSafe /\ OrderSafe /\ AheadSafe
  BY <1>2, <1>3 DEF RowsSafe, OrderSafe, AheadSafe
<1>7. (\A d \in Daemon : ClaimSafe(d)) /\ LockExclusive /\ TokensUnique
  BY <1>4, <1>5 DEF ClaimSafe, LockExclusive, TokensUnique
<1>8. \A h \in Handler : HandlerSafe(h)
  BY <1>5 DEF HandlerSafe
<1>9. late = {}
  BY DEF Init
<1>. QED BY <1>1, <1>6, <1>7, <1>8, <1>9 DEF IInv

LEMMA StutterInvariant == IInv /\ UNCHANGED vars => IInv'
<1>. SUFFICES ASSUME IInv, UNCHANGED vars PROVE IInv'
  OBVIOUS
<1>1. TypeOK' /\ RowsSafe' /\ LockExclusive' /\ TokensUnique'
  BY DEF vars, IInv, TypeOK, RowsSafe, LockExclusive, TokensUnique
<1>2. OrderSafe' /\ AheadSafe'
  BY DEF vars, IInv, OrderSafe, AheadSafe, Visible, Earlier
<1>3. \A d \in Daemon : ClaimSafe(d)'
  BY DEF vars, IInv, ClaimSafe, Expired, Settled, ClaimIsCurrent
<1>4. \A h \in Handler : HandlerSafe(h)'
  BY DEF vars, IInv, HandlerSafe, HoldsToken, LeaseCut
<1>5. \A s \in late' : LateSafe(s)'
  BY DEF vars, IInv, LateSafe
<1>. QED BY <1>1, <1>2, <1>3, <1>4, <1>5 DEF IInv

-------------------------------------------------------------------------------
\* What a step must keep for each part of the invariant to be kept.

\* The rows' places in the order, and what was ahead of them.
LEMMA OrderKept ==
  ASSUME IInv, UNCHANGED <<order, ahead>>,
         \A q \in Request :
            /\ row'[q].status = "absent" <=> row[q].status = "absent"
            /\ Visible(q) => Visible(q)'
  PROVE  OrderSafe' /\ AheadSafe'
<1>1. OrderSafe'
  <2>1. \A i \in DOMAIN order : order[i] \in Request
    BY DEF IInv, TypeOK
  <2>. QED BY <2>1 DEF IInv, OrderSafe
<1>2. AheadSafe'
  BY DEF IInv, TypeOK, AheadSafe, Earlier
<1>. QED BY <1>1, <1>2

\* Rows neither leave the table nor run unless they ran before.
LEMMA TableKept ==
  ASSUME IInv, UNCHANGED <<order, ahead>>,
         \A q \in Request :
            /\ row'[q].status = "absent" <=> row[q].status = "absent"
            /\ Visible(q) => Visible(q)'
            /\ row'[q].status = "running" => row[q].status = "running"
            /\ row'[q].attempt = row[q].attempt
  PROVE  RowsSafe' /\ OrderSafe' /\ AheadSafe'
<1>1. RowsSafe'
  BY DEF IInv, RowsSafe
<1>. QED BY <1>1, OrderKept

\* What a handler may do without touching its row: end, or keep its token and
\* not wait longer than its deadline or its renewal allows.
Mild(h) ==
    /\ handler'[h].phase = "idle" => handler'[h].deadline = 0 /\ handler'[h].renewal = "none"
    /\ handler'[h].phase # "idle" =>
          /\ handler[h].phase # "idle"
          /\ handler'[h].req = handler[h].req /\ handler'[h].attempt = handler[h].attempt
    /\ handler'[h].deadline > 0 =>
          /\ handler'[h].phase = "working"
          /\ \/ handler'[h].deadline = handler[h].deadline
             \/ handler[h].renewal = "renewed" /\ handler'[h].deadline = TTL - handler[h].age
    /\ handler'[h].renewal = "renewed" =>
          handler[h].renewal = "renewed" /\ handler'[h].age = handler[h].age
    /\ handler'[h].renewal \in {"sent", "renewed"} =>
          handler'[h].deadline <= TTL - handler'[h].age

LEMMA KeptIsMild ==
  ASSUME IInv, NEW h \in Handler, handler'[h] = handler[h] \/ handler'[h] = IdleHandler
  PROVE  Mild(h)
  BY IdleHandlerTyped DEF IInv, HandlerSafe, Mild

ClaimKept(d) == claim'[d] = claim[d] \/ claim'[d] = NoClaim

LEMMA TokensKept ==
  ASSUME IInv, \A d \in Daemon : ClaimKept(d), \A h \in Handler : Mild(h)
  PROVE  TokensUnique' /\ LockExclusive'
  BY NoClaimTyped DEF IInv, TokensUnique, LockExclusive, ClaimKept, Mild

\* The abandoned renewals after a step are those before it, perhaps aged, and
\* those that handlers leave behind.
LateKept ==
    \A s \in late' :
        \/ \E t \in late : s.req = t.req /\ s.attempt = t.attempt
        \/ \E h \in Handler : /\ handler[h].phase # "idle"
                             /\ s.req = handler[h].req /\ s.attempt = handler[h].attempt

LEMMA LateTokensOld ==
  ASSUME IInv, NEW s, LateKept, s \in late'
  PROVE  /\ s.req \in Request /\ s.attempt \in Nat /\ s.attempt <= row[s.req].attempt
         /\ \A d \in Daemon : claim[d].phase = "claimed" /\ claim[d].req = s.req
                             => claim[d].attempt # s.attempt
<1>1. CASE \E t \in late : s.req = t.req /\ s.attempt = t.attempt
  BY <1>1, Typed DEF IInv, LateSafe
<1>2. CASE \E h \in Handler : /\ handler[h].phase # "idle"
                              /\ s.req = handler[h].req /\ s.attempt = handler[h].attempt
  <2>. PICK h \in Handler : /\ handler[h].phase # "idle"
                            /\ s.req = handler[h].req /\ s.attempt = handler[h].attempt
    BY <1>2
  <2>1. s.req \in Request /\ s.attempt \in Nat /\ s.attempt <= row[s.req].attempt
    BY Typed DEF IInv, HandlerSafe
  <2>2. \A d \in Daemon : claim[d].phase = "claimed" /\ claim[d].req = s.req
                          => claim[d].attempt # s.attempt
    BY DEF IInv, TokensUnique
  <2>. QED BY <2>1, <2>2
<1>. QED BY <1>1, <1>2 DEF LateKept

LEMMA LateKeptSafe ==
  ASSUME IInv, LateKept, \A d \in Daemon : ClaimKept(d),
         \A q \in Request : row'[q].attempt = row[q].attempt
  PROVE  \A s \in late' : LateSafe(s)'
<1>. SUFFICES ASSUME NEW s \in late' PROVE LateSafe(s)'
  OBVIOUS
<1>1. /\ s.req \in Request /\ s.attempt <= row[s.req].attempt
      /\ \A d \in Daemon : claim[d].phase = "claimed" /\ claim[d].req = s.req
                          => claim[d].attempt # s.attempt
  BY LateTokensOld
<1>2. row'[s.req].attempt = row[s.req].attempt
  BY <1>1
<1>3. \A d \in Daemon : claim'[d].phase = "claimed" => claim'[d] = claim[d]
  BY NoClaimTyped DEF ClaimKept
<1>. QED BY <1>1, <1>2, <1>3 DEF LateSafe

LEMMA SameLate ==
  ASSUME IInv, late' \subseteq late PROVE late' \subseteq LateType /\ LateKept
  BY DEF LateKept, IInv, TypeOK

\* What handlers leave at the server is typed and kept.
LEMMA UnansweredEffect ==
  ASSUME IInv, NEW H, H \subseteq Handler, late' = late \cup Unanswered(H)
  PROVE  late' \subseteq LateType /\ LateKept
<1>1. ASSUME NEW s \in Unanswered(H)
      PROVE  s \in LateType /\ \E h \in Handler : /\ handler[h].phase # "idle"
                                               /\ s.req = handler[h].req
                                               /\ s.attempt = handler[h].attempt
  <2>. PICK h \in H : /\ handler[h].renewal = "sent"
                      /\ s = [req |-> handler[h].req, attempt |-> handler[h].attempt,
                              age |-> handler[h].age, id |-> faults]
    BY DEF Unanswered
  <2>1. h \in Handler /\ handler[h].phase # "idle" /\ handler[h].req \in Request
    BY DEF IInv, HandlerSafe
  <2>2. s \in LateType
    BY <2>1, Typed DEF IInv, LateType
  <2>. QED BY <2>1, <2>2
<1>2. late \subseteq LateType
  BY DEF IInv, TypeOK
<1>. QED BY <1>1, <1>2 DEF LateKept

\* A mild step of a handler whose row is untouched keeps it safe.
LEMMA MildHandlerSafe ==
  ASSUME IInv, TypeOK', NEW h \in Handler, Mild(h), UNCHANGED cut,
         handler[h].req \in Request => row'[handler[h].req] = row[handler[h].req]
  PROVE  HandlerSafe(h)'
<1>1. CASE handler'[h].phase = "idle"
  BY <1>1, Constants DEF Mild, HandlerSafe
<1>2. CASE handler'[h].phase # "idle"
  <2>1. PICK r \in Request : r = handler[h].req
    BY <1>2 DEF IInv, HandlerSafe, Mild
  <2>2. /\ handler'[h].req = r /\ handler'[h].attempt = handler[h].attempt
        /\ row'[r] = row[r] /\ handler[h].attempt <= row[r].attempt
    BY <1>2, <2>1 DEF IInv, HandlerSafe, Mild
  <2>3. TTL \in Nat /\ handler[h].age \in 0 .. TTL /\ handler[h].deadline \in 0 .. TTL
        /\ handler'[h].age \in 0 .. TTL /\ handler'[h].deadline \in 0 .. TTL
    BY Constants, Typed DEF IInv, TypeOK, HandlerType
  <2>4. LeaseCut(h)' <=> LeaseCut(h)
    BY <2>1, <2>2 DEF LeaseCut
  <2>5. ~LeaseCut(h) /\ handler'[h].deadline > 0 =>
            /\ row[r].status = "running" /\ row[r].attempt = handler[h].attempt
            /\ row[r].left >= handler'[h].deadline
    BY <2>1, <2>3 DEF IInv, HandlerSafe, HoldsToken, Mild
  <2>6. ~LeaseCut(h) /\ handler'[h].renewal = "renewed" /\ handler'[h].age < TTL =>
            /\ row[r].status = "running" /\ row[r].attempt = handler[h].attempt
            /\ row[r].left >= TTL - handler'[h].age
    BY <2>1 DEF IInv, HandlerSafe, HoldsToken, Mild
  <2>7. /\ handler'[h].deadline > 0 => handler'[h].phase = "working"
        /\ handler'[h].renewal \in {"sent", "renewed"} =>
              handler'[h].deadline <= TTL - handler'[h].age
    BY DEF Mild
  <2>. QED BY <1>2, <2>2, <2>4, <2>5, <2>6, <2>7 DEF HandlerSafe, HoldsToken
<1>. QED BY <1>1, <1>2

\* So does a claim that is kept or dropped, as long as nothing settled reopens.
LEMMA ClaimKeptSafe ==
  ASSUME IInv, NEW d \in Daemon, ClaimKept(d), UNCHANGED ahead,
         claim[d].req \in Request => row'[claim[d].req] = row[claim[d].req],
         \A q \in Request : Settled(q) => Settled(q)'
  PROVE  ClaimSafe(d)'
<1>1. CASE claim'[d] = NoClaim
  BY <1>1, NoClaimTyped DEF ClaimSafe
<1>2. CASE claim'[d] = claim[d] /\ claim[d].phase # "idle"
  <2>1. PICK r \in Request : r = claim[d].req
    BY <1>2 DEF IInv, ClaimSafe
  <2>2. claim'[d].req = r /\ row'[r] = row[r] /\ ahead[r] \subseteq Request /\ ahead' = ahead
    BY <1>2, <2>1 DEF IInv, TypeOK
  <2>. QED
    BY <1>2, <2>1, <2>2 DEF IInv, ClaimSafe, Expired, ClaimIsCurrent
<1>3. CASE claim'[d] = claim[d] /\ claim[d].phase = "idle"
  BY <1>3 DEF ClaimSafe
<1>. QED BY <1>1, <1>2, <1>3 DEF ClaimKept

LEMMA QuietStep ==
  ASSUME IInv, TypeOK', UNCHANGED <<row, order, ahead, cut>>, LateKept,
         \A d \in Daemon : ClaimKept(d), \A h \in Handler : Mild(h)
  PROVE  IInv'
<1>1. RowsSafe' /\ OrderSafe' /\ AheadSafe'
  BY TableKept DEF Visible
<1>2. \A d \in Daemon : ClaimSafe(d)'
  BY ClaimKeptSafe DEF Settled
<1>3. \A h \in Handler : HandlerSafe(h)'
  BY MildHandlerSafe
<1>4. \A s \in late' : LateSafe(s)'
  BY LateKeptSafe
<1>. QED BY <1>1, <1>2, <1>3, <1>4, TokensKept DEF IInv

LEMMA HandlerEffect ==
  ASSUME TypeOK, NEW h \in Handler, NEW w \in HandlerType, handler' = [handler EXCEPT ![h] = w]
  PROVE  /\ handler' \in [Handler -> HandlerType] /\ handler'[h] = w
         /\ \A k \in Handler \ {h} : handler'[k] = handler[k]
  BY Typed, Override

LEMMA ClaimEffect ==
  ASSUME TypeOK, NEW d \in Daemon, NEW c \in ClaimType, claim' = [claim EXCEPT ![d] = c]
  PROVE  /\ claim' \in [Daemon -> ClaimType] /\ claim'[d] = c
         /\ \A e \in Daemon \ {d} : claim'[e] = claim[e]
  BY Typed, Override

LEMMA HandlerStep ==
  ASSUME IInv, NEW h \in Handler, NEW w \in HandlerType, handler' = [handler EXCEPT ![h] = w],
         Mild(h), UNCHANGED <<row, order, ahead, daemon, claim, cut>>,
         late' \subseteq LateType, LateKept, faults' \in 0 .. MaxFaults
  PROVE  IInv'
<1>1. /\ handler' \in [Handler -> HandlerType]
      /\ \A k \in Handler \ {h} : handler'[k] = handler[k]
  BY HandlerEffect DEF IInv
<1>2. TypeOK'
  BY <1>1 DEF IInv, TypeOK
<1>3. \A k \in Handler : Mild(k)
  BY <1>1, KeptIsMild
<1>4. \A d \in Daemon : ClaimKept(d)
  BY DEF ClaimKept
<1>. QED BY <1>2, <1>3, <1>4, QuietStep

-------------------------------------------------------------------------------
\* The handler's own steps touch no row.

LEMMA RenewSendKeeps == ASSUME IInv, NEW h \in Handler, RenewSend(h) PROVE IInv'
<1>. DEFINE w == [handler[h] EXCEPT !.renewal = "sent", !.age = 0]
<1>1. handler[h] \in HandlerType /\ handler[h].deadline \in 0 .. TTL
  BY Typed DEF IInv
<1>2. /\ w \in HandlerType /\ w.renewal = "sent" /\ w.phase = handler[h].phase
      /\ w.req = handler[h].req /\ w.attempt = handler[h].attempt
      /\ w.deadline = handler[h].deadline /\ w.age = 0
  BY <1>1, Constants DEF HandlerType
<1>3. handler' = [handler EXCEPT ![h] = w]
  BY DEF RenewSend
<1>. HIDE DEF w
<1>4. handler'[h] = w
  BY <1>2, <1>3, HandlerEffect DEF IInv
<1>5. Mild(h)
  BY <1>1, <1>2, <1>4, Constants DEF IInv, HandlerSafe, RenewSend, Mild
<1>6. UNCHANGED <<row, order, ahead, daemon, claim, late, cut>> /\ faults' \in 0 .. MaxFaults
  BY DEF RenewSend, IInv, TypeOK
<1>. QED BY <1>2, <1>3, <1>5, <1>6, SameLate, HandlerStep

\* A record without its renewal, and one that has lost its claim.
LEMMA NoRenewalTyped ==
  ASSUME TypeOK, NEW h \in Handler
  PROVE  LET w == NoRenewal(h) IN
         /\ w \in HandlerType /\ w.renewal = "none" /\ w.phase = handler[h].phase
         /\ w.req = handler[h].req /\ w.attempt = handler[h].attempt
         /\ w.deadline = handler[h].deadline
<1>1. handler[h] \in HandlerType
  BY Typed
<1>. QED BY <1>1, Constants DEF NoRenewal, HandlerType

LEMMA LoseClaimKeeps ==
  ASSUME IInv, NEW h \in Handler, NEW v \in HandlerType, LoseClaim(h, v),
         v.phase # "idle", v.phase = handler[h].phase, v.req = handler[h].req,
         v.attempt = handler[h].attempt,
         v.renewal = "renewed" => handler[h].renewal = "renewed" /\ v.age = handler[h].age,
         UNCHANGED <<row, order, ahead, daemon, claim, faults, late, cut>>
  PROVE  IInv'
<1>. DEFINE w == [v EXCEPT !.signal = "lost", !.deadline = 0, !.outcome = None]
<1>1. /\ w \in HandlerType /\ w.deadline = 0 /\ w.phase = v.phase /\ w.req = v.req
      /\ w.attempt = v.attempt /\ w.renewal = v.renewal /\ w.age = v.age
  BY Constants DEF HandlerType
<1>2. handler' = [handler EXCEPT ![h] = w]
  BY DEF LoseClaim
<1>. HIDE DEF w
<1>3. handler'[h] = w
  BY <1>1, <1>2, HandlerEffect DEF IInv
<1>4. Mild(h)
  BY <1>1, <1>3, Constants DEF Mild, HandlerType
<1>5. faults' \in 0 .. MaxFaults
  BY DEF IInv, TypeOK
<1>. QED BY <1>1, <1>2, <1>4, <1>5, SameLate, HandlerStep

LEMMA RenewAnswerKeeps == ASSUME IInv, NEW h \in Handler, RenewAnswer(h) PROVE IInv'
<1>. PICK v \in HandlerType : v = NoRenewal(h)
  BY NoRenewalTyped DEF IInv
<1>1. /\ v \in HandlerType /\ v.renewal = "none" /\ v.phase = handler[h].phase
      /\ v.req = handler[h].req /\ v.attempt = handler[h].attempt
      /\ v.deadline = handler[h].deadline
  BY NoRenewalTyped DEF IInv
<1>2. UNCHANGED <<row, order, ahead, daemon, claim, faults, late, cut>>
      /\ faults' \in 0 .. MaxFaults
  BY DEF RenewAnswer, IInv, TypeOK
<1>3. CASE handler[h].renewal = "renewed" /\ handler' = [handler EXCEPT ![h] = v]
  <2>1. handler'[h] = v
    BY <1>1, <1>3, HandlerEffect DEF IInv
  <2>2. Mild(h)
    BY <1>1, <2>1 DEF IInv, HandlerSafe, Mild
  <2>. QED BY <1>1, <1>2, <1>3, <2>2, SameLate, HandlerStep
<1>4. CASE /\ handler[h].renewal = "renewed" /\ handler[h].phase = "working"
           /\ handler' = [handler EXCEPT ![h] =
                [v EXCEPT !.deadline = OwnershipDeadline(handler[h].age)]]
  <2>. DEFINE deadline == TTL - handler[h].age
              w == [v EXCEPT !.deadline = deadline]
  <2>1. deadline \in 0 .. TTL
    BY Constants, Typed DEF IInv
  <2>2. handler' = [handler EXCEPT ![h] = w]
    BY <1>4 DEF OwnershipDeadline
  <2>. HIDE DEF deadline
  <2>3. /\ w \in HandlerType /\ w.renewal = "none" /\ w.phase = v.phase
        /\ w.req = v.req /\ w.attempt = v.attempt /\ w.deadline = deadline
    BY <1>1, <2>1 DEF HandlerType
  <2>. HIDE DEF w
  <2>4. handler'[h] = w
    BY <2>2, <2>3, HandlerEffect DEF IInv
  <2>5. Mild(h)
    BY <1>1, <1>4, <2>3, <2>4 DEF Mild, deadline
  <2>. QED BY <1>2, <2>2, <2>3, <2>5, SameLate, HandlerStep
<1>5. CASE handler[h].renewal = "refused" /\ LoseClaim(h, v)
  BY <1>1, <1>2, <1>5, LoseClaimKeeps DEF IInv, HandlerSafe
<1>. QED BY <1>3, <1>4, <1>5 DEF RenewAnswer, LoseClaim

LEMMA RenewErrorKeeps == ASSUME IInv, NEW h \in Handler, RenewError(h) PROVE IInv'
<1>. DEFINE v == NoRenewal(h)
<1>1. /\ v \in HandlerType /\ v.renewal = "none" /\ v.phase = handler[h].phase
      /\ v.req = handler[h].req /\ v.attempt = handler[h].attempt
      /\ v.deadline = handler[h].deadline
  BY NoRenewalTyped DEF IInv
<1>2. handler' = [handler EXCEPT ![h] = v]
  BY DEF RenewError
<1>. HIDE DEF v
<1>3. handler'[h] = v
  BY <1>1, <1>2, HandlerEffect DEF IInv
<1>4. Mild(h)
  BY <1>1, <1>3 DEF IInv, HandlerSafe, Mild
<1>5. UNCHANGED <<row, order, ahead, daemon, claim, cut>> /\ faults' \in 0 .. MaxFaults
  BY FaultTyped DEF RenewError, IInv
<1>6. late' \subseteq LateType /\ LateKept
  BY UnansweredEffect DEF RenewError
<1>. QED BY <1>1, <1>2, <1>4, <1>5, <1>6, HandlerStep

LEMMA OwnershipTimerKeeps == ASSUME IInv, NEW h \in Handler, OwnershipTimer(h) PROVE IInv'
  BY LoseClaimKeeps, Typed DEF OwnershipTimer, TimerDue, IInv

LEMMA FinishWorkKeeps ==
  ASSUME IInv, NEW h \in Handler, NEW outcome \in {"ok", "error", "retry"},
         FinishWork(h, outcome)
  PROVE  IInv'
<1>. DEFINE result == IF handler[h].signal = "live" THEN outcome ELSE None
            w == [handler[h] EXCEPT !.phase = "finished", !.deadline = 0, !.outcome = result]
<1>1. handler[h] \in HandlerType
  BY Typed DEF IInv
<1>2. handler' = [handler EXCEPT ![h] = w]
  BY DEF FinishWork
<1>3. result \in {None, "ok", "error", "retry"}
  OBVIOUS
<1>. HIDE DEF result
<1>4. /\ w \in HandlerType /\ w.phase = "finished" /\ w.deadline = 0
      /\ w.req = handler[h].req /\ w.attempt = handler[h].attempt
      /\ w.renewal = handler[h].renewal /\ w.age = handler[h].age
  BY <1>1, <1>3, Constants DEF HandlerType
<1>. HIDE DEF w
<1>5. handler'[h] = w
  BY <1>2, <1>4, HandlerEffect DEF IInv
<1>6. Mild(h)
  BY <1>1, <1>4, <1>5, Constants DEF FinishWork, Mild, HandlerType
<1>7. UNCHANGED <<row, order, ahead, daemon, claim, late, cut>> /\ faults' \in 0 .. MaxFaults
  BY FaultTyped DEF FinishWork, IInv, TypeOK
<1>. QED BY <1>2, <1>4, <1>6, <1>7, SameLate, HandlerStep

\* A handler that ends without a statement: its claim was lost, or the statement failed.
LEMMA EndHandlerKeeps == ASSUME IInv, NEW h \in Handler, DropLostClaim(h) \/ SettleError(h) PROVE IInv'
<1>1. handler' = [handler EXCEPT ![h] = IdleHandler]
  BY DEF DropLostClaim, SettleError, EndHandler
<1>2. handler'[h] = IdleHandler
  BY <1>1, IdleHandlerTyped, HandlerEffect DEF IInv
<1>3. UNCHANGED <<row, order, ahead, daemon, claim, late, cut>> /\ faults' \in 0 .. MaxFaults
  BY FaultTyped DEF DropLostClaim, SettleError, IInv, TypeOK
<1>. QED BY <1>1, <1>2, <1>3, IdleHandlerTyped, KeptIsMild, SameLate, HandlerStep

-------------------------------------------------------------------------------
\* Daemons and lost answers touch no row either.

LEMMA LoseClaimAnswerKeeps ==
  ASSUME IInv, NEW d \in Daemon, LoseClaimAnswer(d) PROVE IInv'
<1>1. claim' \in [Daemon -> ClaimType] /\ \A e \in Daemon : ClaimKept(e)
  BY NoClaimTyped, ClaimEffect DEF LoseClaimAnswer, ClaimKept, IInv
<1>2. UNCHANGED <<row, order, ahead, daemon, handler, late, cut>> /\ faults' \in 0 .. MaxFaults
  BY FaultTyped DEF LoseClaimAnswer, IInv
<1>3. TypeOK'
  BY <1>1, <1>2 DEF IInv, TypeOK
<1>4. \A h \in Handler : Mild(h)
  BY <1>2, KeptIsMild
<1>. QED BY <1>1, <1>2, <1>3, <1>4, SameLate, QuietStep

LEMMA DaemonTyped ==
  ASSUME TypeOK, NEW d \in Daemon, NEW x \in {"up", "stopping", "down"},
         daemon' = [daemon EXCEPT ![d] = x]
  PROVE  daemon' \in [Daemon -> {"up", "stopping", "down"}]
  BY DEF TypeOK

LEMMA StartKeeps == ASSUME IInv, NEW d \in Daemon, Start(d) PROVE IInv'
<1>1. UNCHANGED <<row, order, ahead, claim, handler, faults, late, cut>>
  BY DEF Start
<1>2. TypeOK'
  BY <1>1, DaemonTyped DEF Start, IInv, TypeOK
<1>3. (\A h \in Handler : Mild(h)) /\ \A e \in Daemon : ClaimKept(e)
  BY <1>1, KeptIsMild DEF ClaimKept
<1>. QED BY <1>1, <1>2, <1>3, SameLate, QuietStep

LEMMA StopKeeps == ASSUME IInv, NEW d \in Daemon, Stop(d) PROVE IInv'
<1>1. UNCHANGED <<row, order, ahead, claim, late, cut>> /\ faults' \in 0 .. MaxFaults
  BY FaultTyped DEF Stop, IInv
<1>2. ASSUME NEW h \in Handler PROVE handler'[h] \in HandlerType /\ Mild(h)
  <2>. PICK v \in HandlerType : v = handler[h]
    BY Typed DEF IInv
  <2>. DEFINE w == [v EXCEPT !.signal = "stopped", !.outcome = None]
  <2>1. handler'[h] = v \/ (v.phase # "idle" /\ handler'[h] = w)
    <3>1. handler'[h] = IF h[1] = d /\ v.phase # "idle" /\ v.signal = "live" THEN w ELSE v
      BY DEF Stop
    <3>. QED BY <3>1
  <2>2. /\ w \in HandlerType /\ w.phase = v.phase /\ w.req = v.req /\ w.attempt = v.attempt
        /\ w.deadline = v.deadline /\ w.renewal = v.renewal /\ w.age = v.age
    BY DEF HandlerType
  <2>. HIDE DEF w
  <2>3. /\ v.deadline > 0 => v.phase = "working"
        /\ v.renewal \in {"sent", "renewed"} => v.deadline <= TTL - v.age
    BY DEF IInv, HandlerSafe
  <2>4. CASE v.phase # "idle" /\ handler'[h] = w
    BY <2>2, <2>3, <2>4 DEF Mild
  <2>. QED BY <2>1, <2>4, KeptIsMild
<1>3. handler' \in [Handler -> HandlerType]
  BY <1>2, Typed DEF Stop, IInv
<1>4. TypeOK'
  BY <1>1, <1>3, DaemonTyped DEF Stop, IInv, TypeOK
<1>5. \A e \in Daemon : ClaimKept(e)
  BY <1>1 DEF ClaimKept
<1>. QED BY <1>1, <1>2, <1>4, <1>5, SameLate, QuietStep

LEMMA VanishKeeps ==
  ASSUME IInv, NEW d \in Daemon, Vanish(d), faults' \in 0 .. MaxFaults PROVE IInv'
<1>1. UNCHANGED <<row, order, ahead, cut>> /\ late' \subseteq LateType /\ LateKept
  BY UnansweredEffect DEF Vanish
<1>2. claim' \in [Daemon -> ClaimType] /\ \A e \in Daemon : ClaimKept(e)
  BY NoClaimTyped, ClaimEffect DEF Vanish, ClaimKept, IInv
<1>3. /\ handler' \in [Handler -> HandlerType]
      /\ \A h \in Handler : handler'[h] = handler[h] \/ handler'[h] = IdleHandler
  BY IdleHandlerTyped, Typed DEF Vanish, IInv
<1>4. TypeOK'
  BY <1>1, <1>2, <1>3, DaemonTyped DEF Vanish, IInv, TypeOK
<1>. QED BY <1>1, <1>2, <1>3, <1>4, KeptIsMild, QuietStep

LEMMA ExitKeeps == ASSUME IInv, NEW d \in Daemon, Exit(d) PROVE IInv'
  BY VanishKeeps DEF Exit, IInv, TypeOK

LEMMA CrashKeeps == ASSUME IInv, NEW d \in Daemon, Crash(d) PROVE IInv'
  BY VanishKeeps, FaultTyped DEF Crash, IInv

-------------------------------------------------------------------------------
\* Statements under a token: whoever else knows the row has an older one.

LEMMA FencedWrite ==
  ASSUME IInv, NEW r \in Request, NEW status \in {"pending", "running", "completed", "failed"},
         NEW left \in 0 .. TTL, row[r].status = "running", ~Locked(r), SetRow(r, status, left),
         UNCHANGED <<order, ahead, daemon, faults, late, cut>>,
         claim' \in [Daemon -> ClaimType], handler' \in [Handler -> HandlerType],
         \A d \in Daemon : ClaimKept(d),
         \A h \in Handler : handler'[h] = handler[h] \/ handler'[h] = IdleHandler,
         \A h \in Handler : handler'[h].phase # "idle" /\ handler'[h].req = r
                            => handler'[h].attempt # row[r].attempt,
         \A d \in Daemon : claim'[d].phase = "claimed" /\ claim'[d].req = r
                           => claim'[d].attempt # row[r].attempt
  PROVE  IInv'
<1>1. /\ row' \in [Request -> RowType] /\ row'[r].status = status
      /\ row'[r].attempt = row[r].attempt /\ \A q \in Request \ {r} : row'[q] = row[q]
  BY SetRowEffect DEF IInv, Statuses
<1>2. TypeOK'
  BY <1>1 DEF IInv, TypeOK
<1>3. RowsSafe' /\ OrderSafe' /\ AheadSafe'
  BY <1>1, TableKept DEF Visible
<1>4. \A h \in Handler : Mild(h)
  BY KeptIsMild
<1>5. TokensUnique' /\ LockExclusive'
  BY <1>4, TokensKept
<1>6. ASSUME NEW d \in Daemon PROVE ClaimSafe(d)'
  <2>1. \A q \in Request : Settled(q) => Settled(q)'
    BY <1>1 DEF Settled
  <2>2. CASE claim'[d] = claim[d] /\ claim[d].phase # "idle" /\ claim[d].req = r
    BY <1>1, <2>2 DEF IInv, ClaimSafe, ClaimIsCurrent, Locked
  <2>3. CASE claim'[d] = NoClaim
    BY <2>3, NoClaimTyped DEF ClaimSafe
  <2>4. CASE claim'[d] = claim[d] /\ claim[d].phase = "idle"
    BY <2>4 DEF ClaimSafe
  <2>. QED BY <1>1, <2>1, <2>2, <2>3, <2>4, ClaimKeptSafe DEF ClaimKept
<1>7. ASSUME NEW h \in Handler PROVE HandlerSafe(h)'
  <2>1. CASE handler'[h] = handler[h] /\ handler[h].phase # "idle" /\ handler[h].req = r
    BY <1>1, <2>1 DEF IInv, HandlerSafe, HoldsToken, LeaseCut
  <2>2. CASE handler'[h].phase = "idle"
    BY <1>4, <2>2, Constants DEF Mild, HandlerSafe
  <2>. QED BY <1>1, <1>2, <1>4, <2>1, <2>2, MildHandlerSafe, IdleHandlerTyped
<1>8. \A s \in late' : LateSafe(s)'
  BY <1>1, SameLate, LateKeptSafe
<1>. QED BY <1>2, <1>3, <1>5, <1>6, <1>7, <1>8 DEF IInv

LEMMA HandlerWriteKeeps ==
  ASSUME IInv, NEW h \in Handler, NEW status \in {"pending", "running", "completed", "failed"},
         NEW left \in 0 .. TTL, handler[h].phase # "idle", ~Locked(handler[h].req),
         (HoldsToken(h) /\ SetRow(handler[h].req, status, left)) \/ UNCHANGED row,
         EndHandler(h), UNCHANGED <<order, ahead, daemon, claim, faults, late, cut>>
  PROVE  IInv'
<1>1. /\ handler' \in [Handler -> HandlerType] /\ handler'[h] = IdleHandler
      /\ \A k \in Handler \ {h} : handler'[k] = handler[k]
  BY IdleHandlerTyped, HandlerEffect DEF EndHandler, IInv
<1>2. CASE UNCHANGED row
  <2>1. Mild(h) /\ faults' \in 0 .. MaxFaults
    BY <1>1, KeptIsMild DEF IInv, TypeOK
  <2>. QED BY <1>2, <2>1, IdleHandlerTyped, SameLate, HandlerStep DEF EndHandler
<1>3. CASE HoldsToken(h) /\ SetRow(handler[h].req, status, left)
  <2>. PICK r \in Request : r = handler[h].req
    BY DEF IInv, HandlerSafe
  <2>1. row[r].status = "running" /\ row[r].attempt = handler[h].attempt
        /\ ~Locked(r) /\ SetRow(r, status, left)
    BY <1>3 DEF HoldsToken, SetRow
  <2>2. ASSUME NEW k \in Handler, handler'[k].phase # "idle", handler'[k].req = r
        PROVE  handler'[k].attempt # row[r].attempt
    <3>1. k # h /\ handler'[k] = handler[k]
      BY <1>1, <2>2, IdleHandlerTyped
    <3>. QED BY <2>1, <2>2, <3>1 DEF IInv, TokensUnique
  <2>3. ASSUME NEW d \in Daemon, claim'[d].phase = "claimed", claim'[d].req = r
        PROVE  claim'[d].attempt # row[r].attempt
    BY <2>1, <2>3 DEF IInv, TokensUnique
  <2>4. /\ claim' \in [Daemon -> ClaimType] /\ \A d \in Daemon : ClaimKept(d)
        /\ \A k \in Handler : handler'[k] = handler[k] \/ handler'[k] = IdleHandler
    BY <1>1, Typed DEF IInv, ClaimKept
  <2>. QED BY <1>1, <2>1, <2>2, <2>3, <2>4, FencedWrite
<1>. QED BY <1>2, <1>3

LEMMA ClaimWriteKeeps ==
  ASSUME IInv, NEW d \in Daemon, NEW status \in {"pending", "failed"},
         claim[d].phase = "claimed", ~Locked(claim[d].req),
         (ClaimIsCurrent(d) /\ SetRow(claim[d].req, status, 0)) \/ UNCHANGED row,
         claim' = [claim EXCEPT ![d] = NoClaim],
         UNCHANGED <<order, ahead, daemon, handler, faults, late, cut>>
  PROVE  IInv'
<1>1. /\ claim' \in [Daemon -> ClaimType] /\ claim'[d] = NoClaim
      /\ \A e \in Daemon \ {d} : claim'[e] = claim[e]
  BY NoClaimTyped, ClaimEffect DEF IInv
<1>2. (\A e \in Daemon : ClaimKept(e)) /\ \A h \in Handler : Mild(h)
  BY <1>1, KeptIsMild DEF ClaimKept
<1>3. CASE UNCHANGED row
  <2>1. TypeOK'
    BY <1>1, <1>3 DEF IInv, TypeOK
  <2>. QED BY <1>2, <1>3, <2>1, SameLate, QuietStep
<1>4. CASE ClaimIsCurrent(d) /\ SetRow(claim[d].req, status, 0)
  <2>. PICK r \in Request : r = claim[d].req
    BY DEF IInv, ClaimSafe
  <2>1. row[r].status = "running" /\ row[r].attempt = claim[d].attempt
        /\ ~Locked(r) /\ SetRow(r, status, 0)
    BY <1>4 DEF ClaimIsCurrent, SetRow
  <2>2. ASSUME NEW h \in Handler, handler'[h].phase # "idle", handler'[h].req = r
        PROVE  handler'[h].attempt # row[r].attempt
    BY <2>1, <2>2 DEF IInv, TokensUnique
  <2>3. ASSUME NEW e \in Daemon, claim'[e].phase = "claimed", claim'[e].req = r
        PROVE  claim'[e].attempt # row[r].attempt
    <3>1. e # d /\ claim'[e] = claim[e]
      BY <1>1, <2>3, NoClaimTyped
    <3>. QED BY <2>1, <2>3, <3>1 DEF IInv, TokensUnique
  <2>4. /\ handler' \in [Handler -> HandlerType]
        /\ \A h \in Handler : handler'[h] = handler[h] \/ handler'[h] = IdleHandler
    BY Typed DEF IInv
  <2>5. 0 \in 0 .. TTL
    BY Constants
  <2>. PICK zero \in 0 .. TTL : zero = 0
    BY <2>5
  <2>. QED BY <1>1, <1>2, <2>1, <2>2, <2>3, <2>4, FencedWrite
<1>. QED BY <1>3, <1>4

LEMMA ReturnClaimKeeps == ASSUME IInv, NEW d \in Daemon, ReturnClaim(d) PROVE IInv'
  BY ClaimWriteKeeps DEF ReturnClaim

LEMMA QuarantineKeeps == ASSUME IInv, NEW d \in Daemon, Quarantine(d) PROVE IInv'
  BY ClaimWriteKeeps DEF Quarantine

LEMMA SettleKeeps == ASSUME IInv, NEW h \in Handler, Settle(h) PROVE IInv'
<1>. USE DEF Settling, WriteUnderToken
<1>. PICK zero \in 0 .. TTL : zero = 0
  BY Constants
<1>1. CASE Release(h)
  BY <1>1, HandlerWriteKeeps DEF Release
<1>2. CASE Defer(h)
  BY <1>2, Constants, HandlerWriteKeeps DEF Defer
<1>3. CASE Fail(h)
  BY <1>3, HandlerWriteKeeps DEF Fail
<1>4. CASE Complete(h)
  BY <1>4, HandlerWriteKeeps DEF Complete
<1>. QED BY <1>1, <1>2, <1>3, <1>4, EndHandlerKeeps DEF Settle

\* A renewal, answered or abandoned, writes another lease into the row of its token.
LEMMA LeaseWrite ==
  ASSUME IInv, NEW r \in Request, NEW left \in 0 .. TTL, row[r].status = "running", ~Locked(r),
         SetRow(r, "running", left), UNCHANGED <<order, ahead, claim>>,
         \A d \in Daemon : claim[d].phase = "claimed" /\ claim[d].req = r
                           => claim[d].attempt # row[r].attempt
  PROVE  /\ row' \in [Request -> RowType] /\ row'[r].status = "running" /\ row'[r].left = left
         /\ row'[r].attempt = row[r].attempt /\ \A q \in Request \ {r} : row'[q] = row[q]
         /\ RowsSafe' /\ OrderSafe' /\ AheadSafe' /\ LockExclusive'
         /\ \A d \in Daemon : ClaimSafe(d)'
<1>1. /\ row' \in [Request -> RowType] /\ row'[r].status = "running" /\ row'[r].left = left
      /\ row'[r].attempt = row[r].attempt /\ \A q \in Request \ {r} : row'[q] = row[q]
  BY SetRowEffect DEF IInv, Statuses
<1>2. RowsSafe' /\ OrderSafe' /\ AheadSafe'
  BY <1>1, TableKept DEF Visible
<1>3. LockExclusive'
  BY DEF IInv, LockExclusive
<1>4. ASSUME NEW d \in Daemon PROVE ClaimSafe(d)'
  <2>1. \A q \in Request : Settled(q) => Settled(q)'
    BY <1>1 DEF Settled
  <2>2. CASE claim[d].phase # "idle" /\ claim[d].req = r
    <3>1. claim[d].phase = "claimed"
      BY <2>2, Typed DEF IInv, Locked, ClaimType
    <3>. QED BY <1>1, <2>2, <3>1 DEF IInv, ClaimSafe, ClaimIsCurrent
  <2>3. CASE claim[d].phase = "idle"
    BY <2>3 DEF ClaimSafe
  <2>. QED BY <1>1, <2>1, <2>2, <2>3, ClaimKeptSafe DEF ClaimKept
<1>. QED BY <1>1, <1>2, <1>3, <1>4

LEMMA RenewApplyKeeps == ASSUME IInv, NEW h \in Handler, RenewApply(h) PROVE IInv'
<1>. PICK v \in HandlerType : v = handler[h]
  BY Typed DEF IInv
<1>1. /\ v.renewal = "sent" /\ v.phase # "idle" /\ ~Locked(handler[h].req)
      /\ UNCHANGED <<order, ahead, daemon, claim, faults, late>>
  BY DEF RenewApply, IInv, HandlerSafe
<1>2. CASE handler' = [handler EXCEPT ![h].renewal = "refused", ![h].age = 0]
           /\ UNCHANGED <<row, cut>>
  <2>. DEFINE w == [v EXCEPT !.renewal = "refused", !.age = 0]
  <2>1. /\ w \in HandlerType /\ w.renewal = "refused" /\ w.phase = v.phase /\ w.req = v.req
        /\ w.attempt = v.attempt /\ w.deadline = v.deadline
    BY Constants DEF HandlerType
  <2>2. handler' = [handler EXCEPT ![h] = w]
    BY <1>2
  <2>. HIDE DEF w
  <2>3. handler'[h] = w
    BY <2>1, <2>2, HandlerEffect DEF IInv
  <2>4. Mild(h)
    BY <1>1, <2>1, <2>3 DEF IInv, HandlerSafe, Mild
  <2>5. faults' \in 0 .. MaxFaults
    BY <1>1 DEF IInv, TypeOK
  <2>. QED BY <1>1, <1>2, <2>1, <2>2, <2>4, <2>5, SameLate, HandlerStep
<1>3. ASSUME NEW a \in 0 .. handler[h].age,
             HoldsToken(h), SetRow(handler[h].req, "running", TTL - a),
             handler' = [handler EXCEPT ![h].renewal = "renewed"],
             cut' = cut \ {<<handler[h].req, handler[h].attempt>>}
      PROVE  IInv'
  <2>. PICK r \in Request : r = handler[h].req
    BY <1>1 DEF IInv, HandlerSafe
  <2>1. TTL \in Nat /\ v.age \in 0 .. TTL /\ v.deadline \in 0 .. TTL /\ a \in 0 .. v.age
    BY Constants DEF HandlerType
  <2>. PICK left \in 0 .. TTL : left = TTL - a
    BY <2>1
  <2>. DEFINE w == [v EXCEPT !.renewal = "renewed"]
  <2>2. /\ w \in HandlerType /\ w.renewal = "renewed" /\ w.phase = v.phase /\ w.req = v.req
        /\ w.attempt = v.attempt /\ w.deadline = v.deadline /\ w.age = v.age
    BY DEF HandlerType
  <2>3. handler' = [handler EXCEPT ![h] = w]
    BY <1>3
  <2>. HIDE DEF w
  <2>4. /\ handler' \in [Handler -> HandlerType] /\ handler'[h] = w
        /\ \A k \in Handler \ {h} : handler'[k] = handler[k]
    BY <2>2, <2>3, HandlerEffect DEF IInv
  <2>5. row[r].status = "running" /\ row[r].attempt = v.attempt /\ v.req = r
    BY <1>3 DEF HoldsToken
  <2>6. \A d \in Daemon : claim[d].phase = "claimed" /\ claim[d].req = r
                          => claim[d].attempt # row[r].attempt
    BY <1>1, <2>5 DEF IInv, TokensUnique
  <2>7. /\ row' \in [Request -> RowType] /\ row'[r].status = "running" /\ row'[r].left = left
        /\ row'[r].attempt = row[r].attempt /\ \A q \in Request \ {r} : row'[q] = row[q]
        /\ RowsSafe' /\ OrderSafe' /\ AheadSafe' /\ LockExclusive'
        /\ \A d \in Daemon : ClaimSafe(d)'
    <3>1. SetRow(r, "running", left)
      BY <1>3
    <3>. QED BY <1>1, <2>5, <2>6, <3>1, LeaseWrite
  <2>8. TypeOK'
    BY <1>1, <1>3, <2>4, <2>7 DEF IInv, TypeOK
  <2>9. TokensUnique'
    BY <1>1, <2>2, <2>4 DEF IInv, TokensUnique
  <2>10. \A s \in late' : LateSafe(s)'
    BY <1>1, <2>7, SameLate, LateKeptSafe DEF ClaimKept
  <2>11. ASSUME NEW k \in Handler PROVE HandlerSafe(k)'
    <3>1. CASE k = h
      <4>1. /\ v.deadline > 0 => v.phase = "working"
            /\ v.deadline <= TTL - v.age
            /\ v.attempt \in Nat /\ v.attempt <= row[r].attempt
        BY <1>1, Typed DEF IInv, HandlerSafe
      <4>. QED
        BY <1>1, <2>1, <2>2, <2>4, <2>5, <2>7, <3>1, <4>1 DEF HandlerSafe, HoldsToken
    <3>2. CASE k # h /\ handler[k].phase = "idle"
      BY <2>4, <3>2, Constants DEF IInv, HandlerSafe
    <3>3. CASE k # h /\ handler[k].phase # "idle"
      <4>1. handler'[k] = handler[k]
        BY <2>4, <3>3
      <4>2. handler[k].req = r => handler[k].attempt # v.attempt
        BY <1>1, <2>5, <3>3 DEF IInv, TokensUnique
      <4>3. LeaseCut(k)' <=> LeaseCut(k)
        BY <1>3, <2>5, <4>1, <4>2 DEF LeaseCut
      <4>4. CASE handler[k].req = r
        BY <2>5, <2>7, <4>1, <4>2, <4>3, <4>4 DEF IInv, HandlerSafe, HoldsToken
      <4>5. CASE handler[k].req # r
        BY <2>7, <3>3, <4>1, <4>3, <4>5 DEF IInv, HandlerSafe, HoldsToken
      <4>. QED BY <4>4, <4>5
    <3>. QED BY <3>1, <3>2, <3>3
  <2>. QED BY <2>7, <2>8, <2>9, <2>10, <2>11 DEF IInv
<1>. QED BY <1>2, <1>3 DEF RenewApply

\* An abandoned renewal leaves every other claim its lease, and records its own
\* in cut when it shortens it.
LEMMA LateRenewalKeeps == ASSUME IInv, NEW s \in late, LateRenewal(s) PROVE IInv'
<1>1. /\ ~Locked(s.req) /\ late' \subseteq late
      /\ UNCHANGED <<order, ahead, daemon, claim, handler, faults>>
  BY DEF LateRenewal
<1>2. /\ s.req \in Request /\ s.attempt \in Nat /\ s.age \in 0 .. TTL /\ TTL \in Nat
      /\ LateSafe(s)
  BY Typed, Constants DEF IInv
<1>3. CASE UNCHANGED <<row, cut>>
  <2>1. late' \subseteq LateType /\ LateKept
    BY <1>1, SameLate
  <2>2. TypeOK'
    BY <1>1, <1>3, <2>1 DEF IInv, TypeOK
  <2>3. (\A d \in Daemon : ClaimKept(d)) /\ \A h \in Handler : Mild(h)
    BY <1>1, KeptIsMild DEF ClaimKept
  <2>. QED BY <1>1, <1>3, <2>1, <2>2, <2>3, QuietStep
<1>4. ASSUME NEW a \in 0 .. s.age, TokenCurrent(s), SetRow(s.req, "running", TTL - a),
             cut' = IF TTL - a < row[s.req].left THEN cut \cup {<<s.req, s.attempt>>} ELSE cut
      PROVE  IInv'
  <2>. PICK r \in Request : r = s.req
    BY <1>2
  <2>. PICK left \in 0 .. TTL : left = TTL - a
    BY <1>2
  <2>1. row[r].status = "running" /\ row[r].attempt = s.attempt
    BY <1>4 DEF TokenCurrent
  <2>2. /\ row' \in [Request -> RowType] /\ row'[r].status = "running" /\ row'[r].left = left
        /\ row'[r].attempt = row[r].attempt /\ \A q \in Request \ {r} : row'[q] = row[q]
        /\ RowsSafe' /\ OrderSafe' /\ AheadSafe' /\ LockExclusive'
        /\ \A d \in Daemon : ClaimSafe(d)'
    <3>1. SetRow(r, "running", left)
      BY <1>4
    <3>2. \A d \in Daemon : claim[d].phase = "claimed" /\ claim[d].req = r
                            => claim[d].attempt # row[r].attempt
      BY <1>2, <2>1 DEF LateSafe
    <3>. QED BY <1>1, <2>1, <3>1, <3>2, LeaseWrite
  <2>3. TypeOK'
    <3>1. cut' \subseteq Request \X Nat
      BY <1>2, <1>4 DEF IInv, TypeOK
    <3>. QED BY <1>1, <2>2, <3>1, SameLate DEF IInv, TypeOK
  <2>4. TokensUnique'
    BY <1>1 DEF IInv, TokensUnique
  <2>5. \A t \in late' : LateSafe(t)'
    BY <1>1, <2>2, SameLate, LateKeptSafe DEF ClaimKept
  <2>6. ASSUME NEW h \in Handler PROVE HandlerSafe(h)'
    <3>1. CASE handler[h].phase = "idle"
      BY <1>1, <3>1, Constants DEF IInv, HandlerSafe
    <3>2. CASE handler[h].phase # "idle" /\ handler[h].req = r
      <4>1. /\ handler[h].age \in 0 .. TTL /\ handler[h].deadline \in 0 .. TTL
            /\ row[r].left \in 0 .. TTL
        BY Typed DEF IInv
      <4>2. ~LeaseCut(h)' => ~LeaseCut(h)
        BY <1>1, <1>4 DEF LeaseCut
      <4>3. ~LeaseCut(h)' /\ handler[h].attempt = s.attempt => left >= row[r].left
        BY <1>1, <1>2, <1>4, <3>2, <4>1 DEF LeaseCut
      <4>. QED
        BY <1>1, <1>2, <2>1, <2>2, <3>2, <4>1, <4>2, <4>3 DEF IInv, HandlerSafe, HoldsToken
    <3>3. CASE handler[h].phase # "idle" /\ handler[h].req # r
      <4>1. ~LeaseCut(h)' => ~LeaseCut(h)
        BY <1>1, <1>4 DEF LeaseCut
      <4>. QED BY <1>1, <2>2, <3>3, <4>1 DEF IInv, HandlerSafe, HoldsToken
    <3>. QED BY <3>1, <3>2, <3>3
  <2>. QED BY <2>2, <2>3, <2>4, <2>5, <2>6 DEF IInv
<1>. QED BY <1>3, <1>4 DEF LateRenewal

-------------------------------------------------------------------------------
\* Producers and the pruner write rows that no claim can be current for.

LEMMA UnclaimedRowWrite ==
  ASSUME IInv, NEW r \in Request, NEW status \in Statuses \ {"running"}, SetRow(r, status, 0),
         row[r].status \notin {"pending", "running"}, Settled(r) => Settled(r)',
         \A q \in Request \ {r} : ahead'[q] = ahead[q],
         UNCHANGED <<daemon, claim, handler, faults, late, cut>>
  PROVE  /\ (\A d \in Daemon : ClaimSafe(d)') /\ (\A h \in Handler : HandlerSafe(h)')
         /\ LockExclusive' /\ TokensUnique' /\ RowsSafe' /\ row' \in [Request -> RowType]
         /\ row'[r].status = status /\ \A q \in Request \ {r} : row'[q] = row[q]
         /\ \A s \in late' : LateSafe(s)'
<1>. PICK zero \in 0 .. TTL : zero = 0
  BY Constants
<1>1. /\ row' \in [Request -> RowType] /\ row'[r].status = status
      /\ row'[r].attempt = row[r].attempt /\ \A q \in Request \ {r} : row'[q] = row[q]
  BY SetRowEffect DEF IInv
<1>2. LockExclusive' /\ TokensUnique'
  BY DEF IInv, LockExclusive, TokensUnique
<1>3. RowsSafe'
  BY <1>1 DEF IInv, RowsSafe
<1>4. ASSUME NEW d \in Daemon PROVE ClaimSafe(d)'
  <2>1. CASE claim[d].phase = "locked"
    <3>. PICK q \in Request : q = claim[d].req
      BY <2>1 DEF IInv, ClaimSafe
    <3>1. q # r /\ row'[q] = row[q] /\ ahead'[q] = ahead[q] /\ ahead[q] \subseteq Request
      BY <1>1, <2>1 DEF IInv, TypeOK, ClaimSafe, Expired
    <3>2. \A p \in Request : Settled(p) => Settled(p)'
      BY <1>1 DEF Settled
    <3>. QED BY <2>1, <3>1, <3>2 DEF IInv, ClaimSafe, Expired
  <2>2. CASE claim[d].phase = "claimed"
    <3>. PICK q \in Request : q = claim[d].req
      BY <2>2 DEF IInv, ClaimSafe
    <3>1. CASE q = r
      BY <1>1, <2>2, <3>1 DEF IInv, ClaimSafe, ClaimIsCurrent
    <3>2. CASE q # r
      BY <1>1, <2>2, <3>2 DEF IInv, ClaimSafe, ClaimIsCurrent
    <3>. QED BY <3>1, <3>2
  <2>3. CASE claim[d].phase = "idle"
    BY <2>3 DEF ClaimSafe
  <2>. QED BY <2>1, <2>2, <2>3, Typed DEF IInv, ClaimType
<1>5. ASSUME NEW h \in Handler PROVE HandlerSafe(h)'
  <2>1. CASE handler[h].phase = "idle"
    BY <2>1, Constants DEF IInv, HandlerSafe
  <2>2. CASE handler[h].phase # "idle"
    <3>. PICK q \in Request : q = handler[h].req
      BY <2>2 DEF IInv, HandlerSafe
    <3>1. CASE q = r
      BY <1>1, <2>2, <3>1 DEF IInv, HandlerSafe, HoldsToken, LeaseCut
    <3>2. CASE q # r
      BY <1>1, <2>2, <3>2 DEF IInv, HandlerSafe, HoldsToken, LeaseCut
    <3>. QED BY <3>1, <3>2
  <2>. QED BY <2>1, <2>2
<1>6. \A s \in late' : LateSafe(s)'
  BY <1>1, SameLate, LateKeptSafe DEF ClaimKept
<1>. QED BY <1>1, <1>2, <1>3, <1>4, <1>5, <1>6

LEMMA CommitEnqueueKeeps == ASSUME IInv, NEW r \in Request, CommitEnqueue(r) PROVE IInv'
<1>1. /\ row[r].status = "inserting" /\ SetRow(r, "pending", 0)
      /\ UNCHANGED <<order, ahead, daemon, claim, handler, faults, late, cut>>
  BY DEF CommitEnqueue
<1>2. /\ (\A d \in Daemon : ClaimSafe(d)') /\ (\A h \in Handler : HandlerSafe(h)')
      /\ LockExclusive' /\ TokensUnique' /\ RowsSafe' /\ row' \in [Request -> RowType]
      /\ row'[r].status = "pending" /\ \A q \in Request \ {r} : row'[q] = row[q]
      /\ \A s \in late' : LateSafe(s)'
  BY <1>1, UnclaimedRowWrite DEF Statuses, Settled
<1>3. OrderSafe' /\ AheadSafe'
  BY <1>1, <1>2, OrderKept DEF Visible
<1>4. TypeOK'
  BY <1>1, <1>2 DEF IInv, TypeOK
<1>. QED BY <1>2, <1>3, <1>4 DEF IInv

LEMMA PruneKeeps == ASSUME IInv, NEW r \in Request, Prune(r) PROVE IInv'
<1>1. /\ row[r].status \in {"completed", "failed"} /\ SetRow(r, "pruned", 0)
      /\ UNCHANGED <<order, ahead, daemon, claim, handler, faults, late, cut>>
  BY DEF Prune
<1>2. row'[r].status = "pruned"
  <2>. PICK zero \in 0 .. TTL : zero = 0
    BY Constants
  <2>. QED BY <1>1, SetRowEffect DEF IInv, Statuses
<1>3. /\ (\A d \in Daemon : ClaimSafe(d)') /\ (\A h \in Handler : HandlerSafe(h)')
      /\ LockExclusive' /\ TokensUnique' /\ RowsSafe' /\ row' \in [Request -> RowType]
      /\ (\A q \in Request \ {r} : row'[q] = row[q]) /\ \A s \in late' : LateSafe(s)'
  BY <1>1, <1>2, UnclaimedRowWrite DEF Statuses, Settled
<1>4. OrderSafe' /\ AheadSafe'
  BY <1>1, <1>2, <1>3, OrderKept DEF Visible
<1>5. TypeOK'
  BY <1>1, <1>3 DEF IInv, TypeOK
<1>. QED BY <1>3, <1>4, <1>5 DEF IInv

LEMMA BeginEnqueueKeeps == ASSUME IInv, NEW r \in Request, BeginEnqueue(r) PROVE IInv'
<1>. DEFINE before == {q \in Request : SameStream(q, r) /\ Visible(q)}
<1>1. /\ row[r].status = "absent" /\ SetRow(r, "inserting", 0) /\ order' = Append(order, r)
      /\ ahead' = [ahead EXCEPT ![r] = before]
      /\ UNCHANGED <<daemon, claim, handler, faults, late, cut>>
  BY DEF BeginEnqueue
<1>2. /\ ahead' \in [Request -> SUBSET Request] /\ ahead'[r] = before
      /\ \A q \in Request \ {r} : ahead'[q] = ahead[q]
  BY <1>1 DEF IInv, TypeOK
<1>3. /\ (\A d \in Daemon : ClaimSafe(d)') /\ (\A h \in Handler : HandlerSafe(h)')
      /\ LockExclusive' /\ TokensUnique' /\ RowsSafe' /\ row' \in [Request -> RowType]
      /\ row'[r].status = "inserting" /\ \A q \in Request \ {r} : row'[q] = row[q]
      /\ \A s \in late' : LateSafe(s)'
  BY <1>1, <1>2, UnclaimedRowWrite DEF Statuses, Settled
<1>4. /\ order \in Seq(Request) /\ Len(order) \in Nat /\ DOMAIN order = 1 .. Len(order)
      /\ order' \in Seq(Request) /\ DOMAIN order' = 1 .. Len(order) + 1
      /\ order'[Len(order) + 1] = r
      /\ \A i \in DOMAIN order : order'[i] = order[i] /\ order[i] \in Request
  BY <1>1 DEF IInv, TypeOK
<1>5. \A i \in DOMAIN order : order[i] # r
  BY <1>1 DEF IInv, OrderSafe
<1>6. OrderSafe'
  <2>1. \A i, j \in DOMAIN order' : order'[i] = order'[j] => i = j
    BY <1>4, <1>5 DEF IInv, OrderSafe
  <2>2. \A i \in DOMAIN order' : row'[order'[i]].status # "absent"
    BY <1>3, <1>4, <1>5 DEF IInv, OrderSafe
  <2>3. \A q \in Request : row'[q].status # "absent" => \E i \in DOMAIN order' : order'[i] = q
    BY <1>3, <1>4 DEF IInv, OrderSafe
  <2>. QED BY <2>1, <2>2, <2>3 DEF OrderSafe
<1>7. AheadSafe'
  <2>1. ASSUME NEW q \in before PROVE SameStream(q, r) /\ Earlier(q, r)' /\ Visible(q)'
    <3>1. q \in Request /\ q # r /\ SameStream(q, r) /\ row[q].status # "absent" /\ Visible(q)
      BY DEF SameStream, Visible
    <3>2. PICK i \in DOMAIN order : order[i] = q
      BY <3>1 DEF IInv, OrderSafe
    <3>3. /\ i \in DOMAIN order' /\ Len(order) + 1 \in DOMAIN order' /\ i < Len(order) + 1
          /\ order'[i] = q
      BY <1>4, <3>2
    <3>. QED BY <1>3, <1>4, <3>1, <3>3 DEF Earlier, Visible
  <2>2. ASSUME NEW p \in Request \ {r}, NEW q \in ahead[p]
        PROVE  SameStream(q, p) /\ Earlier(q, p)' /\ Visible(q)'
    <3>1. q \in Request /\ SameStream(q, p) /\ Earlier(q, p) /\ Visible(q)
      BY DEF IInv, TypeOK, AheadSafe
    <3>2. q # r
      BY <1>1, <3>1 DEF Visible
    <3>3. PICK i, j \in DOMAIN order : i < j /\ order[i] = q /\ order[j] = p
      BY <3>1 DEF Earlier
    <3>4. i \in DOMAIN order' /\ j \in DOMAIN order' /\ order'[i] = q /\ order'[j] = p
      BY <1>4, <3>3
    <3>. QED BY <1>3, <3>1, <3>2, <3>3, <3>4 DEF Earlier, Visible
  <2>. HIDE DEF before
  <2>. QED BY <1>2, <2>1, <2>2 DEF AheadSafe, SameStream
<1>8. TypeOK'
  BY <1>1, <1>2, <1>3, <1>4 DEF IInv, TypeOK
<1>. QED BY <1>3, <1>6, <1>7, <1>8 DEF IInv

-------------------------------------------------------------------------------
\* Claims.

LEMMA BeginClaimKeeps == ASSUME IInv, NEW d \in Daemon, BeginClaim(d) PROVE IInv'
<1>. PICK r \in Request :
        /\ Claimable(r) /\ ~Locked(r)
        /\ claim' = [claim EXCEPT ![d] = [NoClaim EXCEPT !.phase = "locked", !.req = r]]
  BY DEF BeginClaim
<1>. DEFINE c == [NoClaim EXCEPT !.phase = "locked", !.req = r]
<1>1. c \in ClaimType /\ c.phase = "locked" /\ c.req = r
  BY Constants DEF NoClaim, ClaimType
<1>2. claim' = [claim EXCEPT ![d] = c]
  OBVIOUS
<1>. HIDE DEF c
<1>3. /\ claim' \in [Daemon -> ClaimType] /\ claim'[d] = c
      /\ \A e \in Daemon \ {d} : claim'[e] = claim[e]
  BY <1>1, <1>2, ClaimEffect DEF IInv
<1>4. UNCHANGED <<row, order, ahead, daemon, handler, faults, late, cut>>
  BY DEF BeginClaim
<1>5. TypeOK'
  BY <1>3, <1>4 DEF IInv, TypeOK
<1>6. RowsSafe' /\ OrderSafe' /\ AheadSafe'
  BY <1>4, TableKept DEF Visible
<1>7. \A q \in ahead[r] : Settled(q)
  <2>. SUFFICES ASSUME NEW q \in ahead[r] PROVE Settled(q)
    OBVIOUS
  <2>1. q \in Request /\ SameStream(q, r) /\ Earlier(q, r) /\ Visible(q) /\ ~Unsettled(q)
    BY DEF IInv, TypeOK, AheadSafe, Claimable, HasPredecessor
  <2>. QED BY <2>1, Typed DEF IInv, Visible, Unsettled, Settled, Statuses
<1>8. ASSUME NEW e \in Daemon PROVE ClaimSafe(e)'
  <2>1. CASE e = d
    <3>1. /\ claim'[e].phase = "locked" /\ claim'[e].req = r
          /\ row'[r] = row[r] /\ ahead'[r] = ahead[r]
      BY <1>1, <1>3, <1>4, <2>1
    <3>2. (row[r].status = "pending" \/ Expired(r)) /\ \A q \in ahead[r] : Settled(q)'
      BY <1>4, <1>7 DEF Claimable, Settled
    <3>. QED BY <3>1, <3>2 DEF ClaimSafe, Expired
  <2>2. CASE e # d
    BY <1>3, <1>4, <2>2, ClaimKeptSafe DEF ClaimKept, Settled
  <2>. QED BY <2>1, <2>2
<1>9. LockExclusive' /\ TokensUnique'
  BY <1>1, <1>3, <1>4 DEF IInv, LockExclusive, TokensUnique, Locked
<1>10. ASSUME NEW h \in Handler PROVE HandlerSafe(h)'
  BY <1>4, <1>5, KeptIsMild, MildHandlerSafe
<1>11. \A s \in late' : LateSafe(s)'
  BY <1>1, <1>3, <1>4 DEF IInv, LateSafe
<1>. QED BY <1>5, <1>6, <1>8, <1>9, <1>10, <1>11 DEF IInv

\* The committed claim writes a fresh attempt, and nobody counts on an old one.
LEMMA CommittedClaimKeeps ==
  ASSUME IInv, NEW d \in Daemon, CommitClaim(d), ~IndexRefuses(claim[d].req)
  PROVE  IInv'
<1>. PICK c \in ClaimType : c = claim[d]
  BY Typed DEF IInv
<1>1. claim[d].phase = "locked" /\ c.phase = "locked"
  BY DEF CommitClaim
<1>. PICK r \in Request : r = c.req
  BY <1>1 DEF IInv, ClaimSafe
<1>. PICK v \in RowType : v = row[r]
  BY Typed DEF IInv
<1>. PICK left \in 0 .. TTL : left = TTL - c.age
  BY Constants DEF ClaimType
<1>. DEFINE n == v.attempt + 1
            w == [status |-> "running", attempt |-> n, left |-> left]
            b == [c EXCEPT !.phase = "claimed", !.attempt = n]
<1>2. n \in Nat /\ n > v.attempt /\ v.attempt \in Nat /\ c.age \in 0 .. TTL /\ TTL \in Nat
  BY Constants DEF RowType, ClaimType
<1>. HIDE DEF n
<1>3. w \in RowType /\ w.status = "running" /\ w.attempt = n /\ w.left = left
  BY <1>2 DEF RowType
<1>4. b \in ClaimType /\ b.phase = "claimed" /\ b.req = r /\ b.attempt = n /\ b.age = c.age
  BY <1>2 DEF ClaimType
<1>5. row' = [row EXCEPT ![r] = w]
  BY DEF CommitClaim, n
<1>6. claim' = [claim EXCEPT ![d] = b]
  BY DEF CommitClaim, n
<1>. HIDE DEF w, b
<1>7. /\ row' \in [Request -> RowType] /\ row'[r] = w
      /\ \A q \in Request \ {r} : row'[q] = row[q]
  BY <1>3, <1>5, Typed, Override DEF IInv
<1>8. /\ claim' \in [Daemon -> ClaimType] /\ claim'[d] = b
      /\ \A e \in Daemon \ {d} : claim'[e] = claim[e]
  BY <1>4, <1>6, ClaimEffect DEF IInv
<1>9. UNCHANGED <<order, ahead, daemon, handler, faults, late, cut>>
  BY DEF CommitClaim
<1>10. v.status = "pending" \/ (v.status = "running" /\ v.left = 0)
  BY <1>1 DEF IInv, ClaimSafe, Expired
<1>11. TypeOK'
  BY <1>7, <1>8, <1>9 DEF IInv, TypeOK
<1>12. RowsSafe'
  <2>1. \A q \in Request : q # r /\ KeyOf[q] = KeyOf[r] => row'[q].status # "running"
    BY <1>7 DEF IndexRefuses, StreamIsRunning, SameStream
  <2>. QED BY <1>2, <1>3, <1>7, <2>1 DEF IInv, RowsSafe
<1>13. OrderSafe' /\ AheadSafe'
  BY <1>3, <1>7, <1>9, <1>10, OrderKept DEF Visible
<1>14. \A q \in Request : Settled(q) => Settled(q)'
  BY <1>7, <1>10 DEF Settled
<1>15. ASSUME NEW e \in Daemon PROVE ClaimSafe(e)'
  <2>1. CASE e = d
    <3>1. /\ claim'[e].phase = "claimed" /\ claim'[e].req = r /\ claim'[e].attempt = n
          /\ claim'[e].age = c.age
          /\ row'[r].status = "running" /\ row'[r].attempt = n /\ row'[r].left = TTL - c.age
      BY <1>3, <1>4, <1>7, <1>8, <2>1
    <3>. QED BY <1>2, <3>1 DEF ClaimSafe, ClaimIsCurrent
  <2>2. CASE e # d /\ claim[e].phase # "idle" /\ claim[e].req = r
    <3>1. claim[e].phase = "claimed"
      BY <1>1, <2>2, Typed DEF IInv, LockExclusive, ClaimType
    <3>2. claim[e].attempt \in Nat /\ claim[e].attempt <= v.attempt
      BY <2>2, <3>1, Typed DEF IInv, ClaimSafe
    <3>3. claim[e].age \in 0 .. TTL /\ ~(claim[e].age < TTL)
      BY <1>2, <1>10, <2>2, <3>1, Typed DEF IInv, ClaimSafe, ClaimIsCurrent
    <3>. QED BY <1>2, <1>3, <1>7, <1>8, <2>2, <3>1, <3>2, <3>3 DEF ClaimSafe
  <2>3. CASE e # d /\ claim[e].phase # "idle" /\ claim[e].req # r
    BY <1>7, <1>8, <1>9, <1>14, <2>3, ClaimKeptSafe DEF ClaimKept
  <2>4. CASE e # d /\ claim[e].phase = "idle"
    BY <1>8, <2>4 DEF ClaimSafe
  <2>. QED BY <2>1, <2>2, <2>3, <2>4
<1>16. LockExclusive'
  BY <1>4, <1>8 DEF IInv, LockExclusive
<1>17. /\ \A h \in Handler : handler[h].phase # "idle" /\ handler[h].req = r
                             => handler[h].attempt # n
       /\ \A e \in Daemon : claim[e].phase = "claimed" /\ claim[e].req = r
                            => claim[e].attempt # n
  BY <1>2, Typed DEF IInv, HandlerSafe, ClaimSafe
<1>18. TokensUnique'
  BY <1>4, <1>8, <1>9, <1>17 DEF IInv, TokensUnique
<1>19. ASSUME NEW h \in Handler PROVE HandlerSafe(h)'
  <2>1. CASE handler[h].phase # "idle" /\ handler[h].req = r
    <3>1. handler[h].age \in 0 .. TTL /\ handler[h].deadline \in 0 .. TTL
          /\ handler[h].attempt \in Nat
      BY Typed DEF IInv
    <3>2. /\ handler[h].attempt <= v.attempt
          /\ ~LeaseCut(h) => /\ handler[h].deadline = 0
                             /\ ~(handler[h].renewal = "renewed" /\ handler[h].age < TTL)
      BY <1>2, <1>10, <2>1, <3>1 DEF IInv, HandlerSafe, HoldsToken
    <3>3. /\ handler[h].deadline > 0 => handler[h].phase = "working"
          /\ handler[h].renewal \in {"sent", "renewed"} =>
                handler[h].deadline <= TTL - handler[h].age
          /\ LeaseCut(h)' <=> LeaseCut(h)
      BY <1>9 DEF IInv, HandlerSafe, LeaseCut
    <3>. QED BY <1>2, <1>3, <1>7, <1>9, <2>1, <3>1, <3>2, <3>3 DEF HandlerSafe
  <2>2. CASE handler[h].phase = "idle"
    BY <1>9, <2>2, Constants DEF IInv, HandlerSafe
  <2>. QED BY <1>7, <1>9, <1>11, <2>1, <2>2, KeptIsMild, MildHandlerSafe
<1>20. ASSUME NEW s \in late' PROVE LateSafe(s)'
  <2>1. s \in late /\ s.req \in Request /\ s.attempt \in Nat /\ LateSafe(s)
        /\ row[s.req].attempt \in Nat
    BY <1>9, Typed DEF IInv
  <2>2. s.attempt <= row'[s.req].attempt
    BY <1>2, <1>3, <1>7, <2>1 DEF LateSafe
  <2>3. ASSUME NEW e \in Daemon, claim'[e].phase = "claimed", claim'[e].req = s.req
        PROVE  claim'[e].attempt # s.attempt
    <3>1. CASE e = d
      BY <1>2, <1>4, <1>8, <2>1, <2>3, <3>1 DEF LateSafe
    <3>2. CASE e # d
      BY <1>8, <2>1, <2>3, <3>2 DEF LateSafe
    <3>. QED BY <3>1, <3>2
  <2>. QED BY <2>2, <2>3 DEF LateSafe
<1>. QED BY <1>11, <1>12, <1>13, <1>15, <1>16, <1>18, <1>19, <1>20 DEF IInv

LEMMA CommitClaimKeeps == ASSUME IInv, NEW d \in Daemon, CommitClaim(d) PROVE IInv'
<1>1. CASE IndexRefuses(claim[d].req)
  <2>1. claim' = [claim EXCEPT ![d] = NoClaim]
        /\ UNCHANGED <<row, order, ahead, daemon, handler, faults, late, cut>>
    BY <1>1 DEF CommitClaim
  <2>2. claim' \in [Daemon -> ClaimType] /\ \A e \in Daemon : ClaimKept(e)
    BY <2>1, NoClaimTyped, ClaimEffect DEF ClaimKept, IInv
  <2>3. TypeOK'
    BY <2>1, <2>2 DEF IInv, TypeOK
  <2>4. \A h \in Handler : Mild(h)
    BY <2>1, KeptIsMild
  <2>. QED BY <2>1, <2>2, <2>3, <2>4, SameLate, QuietStep
<1>. QED BY <1>1, CommittedClaimKeeps

LEMMA AcceptClaimKeeps == ASSUME IInv, NEW d \in Daemon, AcceptClaim(d) PROVE IInv'
<1>. PICK c \in ClaimType : c = claim[d]
  BY Typed DEF IInv
<1>. PICK deadline \in 0 .. TTL : deadline = TTL - c.age
  BY Constants DEF ClaimType
<1>. DEFINE w == [IdleHandler EXCEPT !.phase = "working", !.req = c.req,
                                     !.attempt = c.attempt, !.deadline = deadline]
<1>1. PICK h \in Handler : handler[h].phase = "idle" /\ handler' = [handler EXCEPT ![h] = w]
  BY DEF AcceptClaim, OwnershipDeadline, Handler
<1>2. /\ w \in HandlerType /\ w.phase = "working" /\ w.req = c.req /\ w.attempt = c.attempt
      /\ w.deadline = deadline /\ w.renewal = "none"
  BY Constants DEF IdleHandler, HandlerType, ClaimType
<1>. HIDE DEF w
<1>3. /\ handler' \in [Handler -> HandlerType] /\ handler'[h] = w
      /\ \A k \in Handler \ {h} : handler'[k] = handler[k]
  BY <1>1, <1>2, HandlerEffect DEF IInv
<1>4. /\ claim[d].phase = "claimed" /\ claim' = [claim EXCEPT ![d] = NoClaim]
      /\ UNCHANGED <<row, order, ahead, daemon, faults, late, cut>>
  BY DEF AcceptClaim
<1>5. /\ claim' \in [Daemon -> ClaimType] /\ claim'[d] = NoClaim
      /\ \A e \in Daemon \ {d} : claim'[e] = claim[e]
  BY <1>4, NoClaimTyped, ClaimEffect DEF IInv
<1>6. TypeOK'
  BY <1>3, <1>4, <1>5 DEF IInv, TypeOK
<1>7. RowsSafe' /\ OrderSafe' /\ AheadSafe'
  BY <1>4, TableKept DEF Visible
<1>8. \A e \in Daemon : ClaimSafe(e)'
  BY <1>4, <1>5, ClaimKeptSafe DEF ClaimKept, Settled
<1>9. LockExclusive'
  BY <1>5, NoClaimTyped DEF IInv, LockExclusive
<1>10. TokensUnique'
  <2>1. \A k \in Handler : handler[k].phase # "idle" /\ handler[k].req = c.req
                           => handler[k].attempt # c.attempt
    BY <1>4 DEF IInv, TokensUnique
  <2>2. \A e \in Daemon \ {d} : claim[e].phase = "claimed" /\ claim[e].req = c.req
                                => claim[e].attempt # c.attempt
    BY <1>4 DEF IInv, TokensUnique
  <2>3. \A k, l \in Handler :
            /\ handler'[k].phase # "idle" /\ handler'[l].phase # "idle"
            /\ handler'[k].req = handler'[l].req /\ handler'[k].attempt = handler'[l].attempt
            => k = l
    BY <1>1, <1>2, <1>3, <2>1 DEF IInv, TokensUnique
  <2>4. \A e \in Daemon, k \in Handler :
            /\ claim'[e].phase = "claimed" /\ handler'[k].phase # "idle"
            /\ claim'[e].req = handler'[k].req
            => claim'[e].attempt # handler'[k].attempt
    BY <1>2, <1>3, <1>5, <2>2, NoClaimTyped DEF IInv, TokensUnique
  <2>5. \A e, f \in Daemon :
            /\ claim'[e].phase = "claimed" /\ claim'[f].phase = "claimed"
            /\ claim'[e].req = claim'[f].req /\ claim'[e].attempt = claim'[f].attempt
            => e = f
    BY <1>5, NoClaimTyped DEF IInv, TokensUnique
  <2>. QED BY <2>3, <2>4, <2>5 DEF TokensUnique
<1>11. HandlerSafe(h)'
  <2>. PICK r \in Request : r = c.req
    BY <1>4 DEF IInv, ClaimSafe
  <2>1. /\ c.age \in 0 .. TTL /\ TTL \in Nat /\ c.attempt <= row[r].attempt
        /\ c.age < TTL => /\ row[r].status = "running" /\ row[r].attempt = c.attempt
                          /\ row[r].left >= TTL - c.age
    BY <1>4, Constants DEF IInv, ClaimSafe, ClaimIsCurrent, ClaimType
  <2>2. row'[r] = row[r]
    BY <1>4
  <2>. QED BY <1>2, <1>3, <2>1, <2>2 DEF HandlerSafe, HoldsToken
<1>12. ASSUME NEW k \in Handler \ {h} PROVE HandlerSafe(k)'
  BY <1>3, <1>4, <1>6, KeptIsMild, MildHandlerSafe
<1>13. \A s \in late' : LateSafe(s)'
  BY <1>4, <1>5, SameLate, LateKeptSafe DEF ClaimKept
<1>. QED BY <1>6, <1>7, <1>8, <1>9, <1>10, <1>11, <1>12, <1>13 DEF IInv

-------------------------------------------------------------------------------
\* Time takes the same from a lease as from a deadline, and adds it to an age.

LEMMA RunOutIsNatural == RunOut \in Nat
<1>. DEFINE H == {h \in Handler : \/ handler[h].deadline = 1
                                  \/ /\ handler[h].phase = "finished" /\ HoldsToken(h)
                                     /\ row[handler[h].req].left = 1}
            D == {d \in Daemon : claim[d].phase # "idle" /\ claim[d].age = TTL - 1}
<1>1. IsFiniteSet(Handler) /\ IsFiniteSet(Daemon)
  BY QueueAssumption, FS_Product DEF Handler
<1>2. H \subseteq Handler /\ D \subseteq Daemon
  OBVIOUS
<1>3. RunOut = Cardinality(H) + Cardinality(D)
  BY DEF RunOut
<1>. HIDE DEF H, D
<1>4. Cardinality(H) \in Nat /\ Cardinality(D) \in Nat
  BY <1>1, <1>2, FS_Subset, FS_CardinalityType
<1>. QED BY <1>3, <1>4

LEMMA TickKeeps == ASSUME IInv, Tick PROVE IInv'
<1>1. TTL \in Nat /\ UNCHANGED <<order, ahead, daemon, cut>>
  BY Constants DEF Tick
<1>2. faults' \in 0 .. MaxFaults
  <2>1. faults \in Nat /\ MaxFaults \in Nat /\ RunOut \in Nat
    BY RunOutIsNatural, Constants, Typed DEF IInv
  <2>. QED BY <2>1 DEF Tick
<1>3. ASSUME NEW r \in Request
      PROVE  /\ row'[r] \in RowType /\ row'[r].status = row[r].status
             /\ row'[r].attempt = row[r].attempt /\ row'[r].left = Down(row[r].left)
  <2>. PICK v \in RowType : v = row[r]
    BY Typed DEF IInv
  <2>. PICK n \in 0 .. TTL : n = Down(v.left)
    BY <1>1 DEF RowType, Down
  <2>1. row'[r] = [v EXCEPT !.left = n]
    BY DEF Tick
  <2>. QED BY <2>1 DEF RowType
<1>4. row' \in [Request -> RowType]
  BY <1>3 DEF Tick
<1>5. ASSUME NEW h \in Handler
      PROVE  LET v == handler[h] w == handler'[h] IN
             /\ w \in HandlerType /\ w.phase = v.phase /\ w.req = v.req /\ w.attempt = v.attempt
             /\ w.renewal = v.renewal /\ w.deadline = Down(v.deadline)
             /\ v.renewal \in {"sent", "renewed"} => w.age = Older(v.age)
  <2>. PICK v \in HandlerType : v = handler[h]
    BY Typed DEF IInv
  <2>. PICK m \in 0 .. TTL : m = Down(v.deadline)
    BY <1>1 DEF HandlerType, Down
  <2>. DEFINE a == IF v.renewal \in {"sent", "renewed"} THEN Older(v.age) ELSE v.age
              w == [v EXCEPT !.deadline = m, !.age = a]
  <2>1. a \in 0 .. TTL /\ (v.renewal \in {"sent", "renewed"} => a = Older(v.age))
    BY <1>1 DEF HandlerType, Older
  <2>2. handler'[h] = w
    BY DEF Tick, AgedHandler
  <2>. HIDE DEF a
  <2>3. /\ w \in HandlerType /\ w.phase = v.phase /\ w.req = v.req /\ w.attempt = v.attempt
        /\ w.renewal = v.renewal /\ w.deadline = m /\ w.age = a
    BY <2>1 DEF HandlerType
  <2>. HIDE DEF w
  <2>. QED BY <2>1, <2>2, <2>3
<1>6. handler' \in [Handler -> HandlerType]
  BY <1>5 DEF Tick
<1>7. ASSUME NEW d \in Daemon
      PROVE  LET c == claim[d] b == claim'[d] IN
             /\ b \in ClaimType /\ b.phase = c.phase /\ b.req = c.req /\ b.attempt = c.attempt
             /\ c.phase # "idle" => b.age = Older(c.age)
  <2>. PICK c \in ClaimType : c = claim[d]
    BY Typed DEF IInv
  <2>. PICK a \in 0 .. TTL : a = Older(c.age)
    BY <1>1 DEF ClaimType, Older
  <2>1. claim'[d] = IF c.phase = "idle" THEN c ELSE [c EXCEPT !.age = a]
    BY DEF Tick, AgedClaim
  <2>. QED BY <2>1 DEF ClaimType
<1>8. claim' \in [Daemon -> ClaimType]
  BY <1>7 DEF Tick
<1>15. late' \subseteq LateType /\ LateKept
  <2>. SUFFICES ASSUME NEW s \in late'
                PROVE  s \in LateType /\ \E t \in late : s.req = t.req /\ s.attempt = t.attempt
    BY DEF LateKept
  <2>. PICK t \in late : s = [t EXCEPT !.age = Older(@)]
    BY DEF Tick
  <2>1. t \in LateType /\ t.age \in 0 .. TTL
    BY Typed DEF IInv, TypeOK
  <2>. PICK a \in 0 .. TTL : a = Older(t.age)
    BY <1>1, <2>1 DEF Older
  <2>2. s = [t EXCEPT !.age = a]
    OBVIOUS
  <2>. QED BY <2>1, <2>2 DEF LateType
<1>9. TypeOK'
  BY <1>1, <1>2, <1>4, <1>6, <1>8, <1>15 DEF IInv, TypeOK
<1>10. RowsSafe' /\ OrderSafe' /\ AheadSafe'
  BY <1>1, <1>3, TableKept DEF Visible
<1>11. TokensUnique' /\ LockExclusive'
  BY <1>5, <1>7 DEF IInv, TokensUnique, LockExclusive
<1>12. ASSUME NEW d \in Daemon PROVE ClaimSafe(d)'
  <2>1. CASE claim[d].phase = "idle"
    BY <1>7, <2>1 DEF ClaimSafe
  <2>2. CASE claim[d].phase # "idle"
    <3>. PICK r \in Request : r = claim[d].req
      BY <2>2 DEF IInv, ClaimSafe
    <3>1. \A q \in Request : Settled(q) => Settled(q)'
      BY <1>3 DEF Settled
    <3>2. claim[d].age \in 0 .. TTL /\ row[r].left \in 0 .. TTL /\ ahead[r] \subseteq Request
      BY Typed DEF IInv, TypeOK
    <3>3. /\ claim'[d].phase = claim[d].phase /\ claim'[d].req = r /\ ahead'[r] = ahead[r]
          /\ row'[r].status = row[r].status /\ row'[r].left = Down(row[r].left)
      BY <1>1, <1>3, <1>7
    <3>4. claim[d].phase = "locked" =>
            /\ row[r].status = "pending" \/ (row[r].status = "running" /\ row'[r].left = 0)
            /\ \A q \in ahead[r] : Settled(q)'
      BY <3>1, <3>2, <3>3 DEF IInv, ClaimSafe, Expired, Down
    <3>5. claim[d].phase = "claimed" =>
            /\ claim'[d].attempt <= row'[r].attempt
            /\ claim'[d].age < TTL =>
                  ClaimIsCurrent(d)' /\ row'[r].left >= TTL - claim'[d].age
      BY <1>1, <1>3, <1>7, <2>2, <3>2 DEF IInv, ClaimSafe, ClaimIsCurrent, Down, Older
    <3>. QED BY <3>3, <3>4, <3>5 DEF ClaimSafe, Expired
  <2>. QED BY <2>1, <2>2
<1>13. ASSUME NEW h \in Handler PROVE HandlerSafe(h)'
  <2>1. CASE handler[h].phase = "idle"
    BY <1>1, <1>5, <2>1 DEF IInv, HandlerSafe, Down
  <2>2. CASE handler[h].phase # "idle"
    <3>. PICK r \in Request : r = handler[h].req
      BY <2>2 DEF IInv, HandlerSafe
    <3>1. handler[h].age \in 0 .. TTL /\ handler[h].deadline \in 0 .. TTL
          /\ row[r].left \in 0 .. TTL /\ handler[h].attempt \in Nat /\ row[r].attempt \in Nat
      BY Typed DEF IInv
    <3>2. /\ LeaseCut(h)' <=> LeaseCut(h)
          /\ handler'[h].deadline > 0 => handler'[h].phase = "working"
          /\ handler'[h].renewal \in {"sent", "renewed"} =>
                handler'[h].deadline <= TTL - handler'[h].age
      BY <1>1, <1>5, <3>1 DEF IInv, HandlerSafe, LeaseCut, Down, Older
    <3>3. ~LeaseCut(h) /\ handler'[h].deadline > 0 =>
            HoldsToken(h)' /\ row'[handler'[h].req].left >= handler'[h].deadline
      BY <1>1, <1>3, <1>5, <3>1 DEF IInv, HandlerSafe, HoldsToken, Down
    <3>4. ~LeaseCut(h) /\ handler'[h].renewal = "renewed" /\ handler'[h].age < TTL =>
            HoldsToken(h)' /\ row'[handler'[h].req].left >= TTL - handler'[h].age
      BY <1>1, <1>3, <1>5, <3>1 DEF IInv, HandlerSafe, HoldsToken, Down, Older
    <3>. QED BY <1>3, <1>5, <2>2, <3>2, <3>3, <3>4 DEF IInv, HandlerSafe
  <2>. QED BY <2>1, <2>2
<1>14. \A s \in late' : LateSafe(s)'
  <2>. SUFFICES ASSUME NEW s \in late' PROVE LateSafe(s)'
    OBVIOUS
  <2>1. /\ s.req \in Request /\ s.attempt <= row[s.req].attempt
        /\ \A d \in Daemon : claim[d].phase = "claimed" /\ claim[d].req = s.req
                            => claim[d].attempt # s.attempt
    BY <1>15, LateTokensOld
  <2>. QED BY <1>3, <1>7, <2>1 DEF LateSafe
<1>. QED BY <1>9, <1>10, <1>11, <1>12, <1>13, <1>14 DEF IInv

-------------------------------------------------------------------------------
LEMMA NextInvariant == IInv /\ [Next]_vars => IInv'
<1>. SUFFICES ASSUME IInv, [Next]_vars PROVE IInv'
  OBVIOUS
<1>1. ASSUME NEW r \in Request, BeginEnqueue(r) \/ CommitEnqueue(r) \/ Prune(r) PROVE IInv'
  BY <1>1, BeginEnqueueKeeps, CommitEnqueueKeeps, PruneKeeps
<1>2. ASSUME NEW d \in Daemon, BeginClaim(d) \/ CommitClaim(d) \/ AcceptClaim(d) PROVE IInv'
  BY <1>2, BeginClaimKeeps, CommitClaimKeeps, AcceptClaimKeeps
<1>3. ASSUME NEW d \in Daemon, ReturnClaim(d) \/ Quarantine(d) \/ LoseClaimAnswer(d) PROVE IInv'
  BY <1>3, ReturnClaimKeeps, QuarantineKeeps, LoseClaimAnswerKeeps
<1>4. ASSUME NEW d \in Daemon, Stop(d) \/ Exit(d) \/ Crash(d) \/ Start(d) PROVE IInv'
  BY <1>4, StopKeeps, ExitKeeps, CrashKeeps, StartKeeps
<1>5. ASSUME NEW h \in Handler, RenewSend(h) \/ RenewApply(h) \/ RenewAnswer(h) \/ RenewError(h)
      PROVE IInv'
  BY <1>5, RenewSendKeeps, RenewApplyKeeps, RenewAnswerKeeps, RenewErrorKeeps
<1>6. ASSUME NEW h \in Handler, NEW outcome \in {"ok", "error", "retry"}, FinishWork(h, outcome)
      PROVE IInv'
  BY <1>6, FinishWorkKeeps
<1>7. ASSUME NEW h \in Handler, OwnershipTimer(h) \/ Settle(h) \/ SettleError(h) PROVE IInv'
  BY <1>7, OwnershipTimerKeeps, SettleKeeps, EndHandlerKeeps
<1>. QED
  BY <1>1, <1>2, <1>3, <1>4, <1>5, <1>6, <1>7, LateRenewalKeeps, TickKeeps, StutterInvariant
     DEF Next

LEMMA Invariance == Spec => []IInv
  BY InitInvariant, NextInvariant, PTL DEF Spec

\* Every variable holds values of its kind.
THEOREM TypeCorrect == Spec => []TypeOK
<1>1. IInv => TypeOK
  BY DEF IInv
<1>. QED BY <1>1, Invariance, PTL

\* A handler whose signal is live and whose deadline has not passed holds the
\* row's token, and its lease lasts at least until that deadline, whatever the
\* delays of its claim's and its renewals' answers and however many renewals were
\* abandoned, unless one of its own has committed behind a newer one.
THEOREM Ownership == Spec => []OwnershipHoldsUnlessCut
<1>1. IInv => OwnershipHoldsUnlessCut
  BY DEF IInv, HandlerSafe, OwnershipHoldsUnlessCut, Owns, Trusted
<1>. QED BY <1>1, Invariance, PTL

\* No two handlers of one ordering key are trusted at once, whichever daemons
\* run them and in whichever order their rows became visible, unless an abandoned
\* renewal of one of them has shortened its lease.
THEOREM OneOwnerPerStream == Spec => []StreamHasOneOwnerUnlessCut
<1>1. ASSUME IInv, NEW h \in Handler, NEW k \in Handler, Trusted(h), Trusted(k),
             ~LeaseCut(h), ~LeaseCut(k), KeyOf[handler[h].req] = KeyOf[handler[k].req]
      PROVE  h = k
  <2>1. /\ HoldsToken(h) /\ HoldsToken(k)
        /\ handler[h].req \in Request /\ handler[k].req \in Request
    BY <1>1 DEF IInv, HandlerSafe, Trusted
  <2>2. handler[h].req = handler[k].req
    BY <1>1, <2>1 DEF IInv, RowsSafe, HoldsToken
  <2>. QED BY <1>1, <2>1, <2>2 DEF IInv, TokensUnique, HoldsToken, Trusted
<1>2. IInv => StreamHasOneOwnerUnlessCut
  BY <1>1 DEF StreamHasOneOwnerUnlessCut
<1>. QED BY <1>2, Invariance, PTL

\* A stream on which nobody works always has a row the claim query would take,
\* unless an insert with an earlier created_at became visible behind a claimed row.
THEOREM NoWedgedStream == Spec => []FreeStreamIsClaimable
<1>1. ASSUME IInv, NEW r \in Request, Unsettled(r), Free(KeyOf[r]), ~Overtaken(KeyOf[r])
      PROVE  \E q \in Request : KeyOf[q] = KeyOf[r] /\ Claimable(q)
  <2>. DEFINE k == KeyOf[r]
  <2>1. ASSUME NEW q \in Request, KeyOf[q] = k, row[q].status = "running"
        PROVE  Claimable(q)
    <3>1. Expired(q)
      BY <1>1, <2>1 DEF Free
    <3>2. ~StreamIsRunning(q)
      BY <1>1, <2>1 DEF IInv, RowsSafe, StreamIsRunning, SameStream
    <3>3. ~HasPredecessor(q)
      BY <1>1, <2>1 DEF IInv, RowsSafe, HasPredecessor, Overtaken, SameStream
    <3>. QED BY <3>1, <3>2, <3>3 DEF Claimable
  <2>2. CASE \A q \in Request : KeyOf[q] = k => row[q].status # "running"
    <3>. DEFINE T == {i \in DOMAIN order : KeyOf[order[i]] = k /\ Unsettled(order[i])}
    <3>1. DOMAIN order \subseteq Nat /\ \A i \in DOMAIN order : order[i] \in Request
      BY <1>1 DEF IInv, TypeOK
    <3>2. T # {}
      BY <1>1 DEF IInv, OrderSafe, Unsettled
    <3>3. PICK i \in T : \A j \in T : i <= j
      BY <3>1, <3>2, LeastNat
    <3>. PICK q \in Request : q = order[i]
      BY <3>1
    <3>4. row[q].status = "pending" /\ KeyOf[q] = k
      BY <2>2, <3>1 DEF Unsettled
    <3>5. ~StreamIsRunning(q)
      BY <2>2, <3>4 DEF StreamIsRunning, SameStream
    <3>6. ASSUME NEW p \in Request, SameStream(p, q), Unsettled(p), Earlier(p, q) PROVE FALSE
      <4>1. PICK a, b \in DOMAIN order : a < b /\ order[a] = p /\ order[b] = q
        BY <3>6 DEF Earlier
      <4>2. b = i
        BY <1>1, <3>3, <4>1 DEF IInv, OrderSafe
      <4>3. a \in T
        BY <3>4, <3>6, <4>1 DEF SameStream
      <4>. QED BY <3>1, <3>3, <4>1, <4>2, <4>3
    <3>. QED BY <3>4, <3>5, <3>6 DEF Claimable, HasPredecessor
  <2>. QED BY <2>1, <2>2
<1>2. IInv => FreeStreamIsClaimable
  BY <1>1 DEF FreeStreamIsClaimable
<1>. QED BY <1>2, Invariance, PTL

-------------------------------------------------------------------------------
\* The fence: a handler whose attempt is not the row's ends without a write.

Fenced(h) ==
    handler[h].phase = "finished" /\ handler'[h].phase = "idle"
    /\ row[handler[h].req].attempt # handler[h].attempt => row' = row

LEMMA FencedOrKept ==
  ASSUME TypeOK, Next, NEW h \in Handler
  PROVE  Fenced(h)
<1>1. CASE UNCHANGED row
  BY <1>1 DEF Fenced
<1>2. CASE UNCHANGED handler
  BY <1>2 DEF Fenced
<1>3. ASSUME NEW k \in Handler, RenewApply(k) PROVE Fenced(h)
  <2>. PICK v \in HandlerType : v = handler[k]
    BY Typed
  <2>. PICK w \in HandlerType : w.phase = v.phase /\ handler' = [handler EXCEPT ![k] = w]
    <3>. DEFINE x == [v EXCEPT !.renewal = "renewed"]
                y == [v EXCEPT !.renewal = "refused", !.age = 0]
    <3>1. x \in HandlerType /\ y \in HandlerType /\ x.phase = v.phase /\ y.phase = v.phase
      BY Constants DEF HandlerType
    <3>2. handler' = [handler EXCEPT ![k] = x] \/ handler' = [handler EXCEPT ![k] = y]
      BY <1>3 DEF RenewApply
    <3>. HIDE DEF x, y
    <3>. QED BY <3>1, <3>2
  <2>1. handler'[h].phase = handler[h].phase
    BY HandlerEffect
  <2>. QED BY <2>1 DEF Fenced
<1>4. ASSUME NEW k \in Handler, Settle(k) PROVE Fenced(h)
  <2>1. (HoldsToken(k) \/ UNCHANGED row) /\ EndHandler(k)
    BY <1>4 DEF Settle, Release, Defer, Fail, Complete, DropLostClaim, WriteUnderToken
  <2>2. CASE k = h /\ HoldsToken(k)
    BY <2>2 DEF HoldsToken, Fenced
  <2>3. CASE k # h
    <3>1. handler'[h] = handler[h]
      BY <2>1, <2>3, IdleHandlerTyped, HandlerEffect DEF EndHandler
    <3>. QED BY <3>1 DEF Fenced
  <2>. QED BY <1>1, <2>1, <2>2, <2>3
<1>5. CASE Tick
  <2>1. handler'[h].phase = handler[h].phase
    <3>. PICK v \in HandlerType : v = handler[h]
      BY Typed
    <3>1. handler'[h] = AgedHandler(h)
      BY <1>5 DEF Tick
    <3>. QED BY <3>1 DEF AgedHandler, HandlerType
  <2>. QED BY <2>1 DEF Fenced
<1>6. ASSUME NEW k \in Handler,
             \/ RenewSend(k) \/ RenewAnswer(k) \/ RenewError(k) \/ OwnershipTimer(k)
             \/ \E outcome \in {"ok", "error", "retry"} : FinishWork(k, outcome)
             \/ SettleError(k)
      PROVE  UNCHANGED row
  BY <1>6 DEF RenewSend, RenewAnswer, RenewError, OwnershipTimer, FinishWork, SettleError
<1>7. ASSUME NEW d \in Daemon,
             \/ BeginClaim(d) \/ CommitClaim(d) \/ AcceptClaim(d) \/ ReturnClaim(d)
             \/ Quarantine(d) \/ LoseClaimAnswer(d) \/ Stop(d) \/ Exit(d) \/ Crash(d) \/ Start(d)
      PROVE  UNCHANGED row \/ UNCHANGED handler
  BY <1>7 DEF BeginClaim, CommitClaim, AcceptClaim, ReturnClaim, Quarantine, LoseClaimAnswer,
              Stop, Exit, Crash, Start, Vanish
<1>8. ASSUME NEW r \in Request, BeginEnqueue(r) \/ CommitEnqueue(r) \/ Prune(r)
      PROVE  UNCHANGED handler
  BY <1>8 DEF BeginEnqueue, CommitEnqueue, Prune
<1>9. ASSUME NEW s \in late, LateRenewal(s) PROVE UNCHANGED handler
  BY <1>9 DEF LateRenewal
<1>. QED BY <1>1, <1>2, <1>3, <1>4, <1>5, <1>6, <1>7, <1>8, <1>9 DEF Next

\* Late completions, failures, deferrals and releases of a claim that was made
\* again since change no row.
THEOREM StaleHandlersAreFenced == Spec => StaleHandlerChangesNothing
<1>1. TypeOK /\ [Next]_vars =>
        [\A h \in Handler :
            /\ handler[h].phase = "finished" /\ handler'[h].phase = "idle"
            /\ row[handler[h].req].attempt # handler[h].attempt
            => row' = row]_vars
  BY FencedOrKept DEF Fenced
<1>. QED BY <1>1, TypeCorrect, PTL DEF Spec, StaleHandlerChangesNothing

-------------------------------------------------------------------------------
\* The refinement: which action of OrderedDelivery each step is.

LEMMA SameView ==
  ASSUME UNCHANGED ahead,
         \A q \in Request : /\ row'[q].status = "absent" <=> row[q].status = "absent"
                            /\ Visible(q)' <=> Visible(q)
                            /\ Settled(q)' <=> Settled(q)
                            /\ row'[q].attempt > 0 <=> row[q].attempt > 0
  PROVE  UNCHANGED Delivery!vars
  BY DEF Delivery!vars

LEMMA DeliveryInit == Init => Delivery!Init
  BY DEF Init, Visible, Settled, Delivery!Init

LEMMA SubmitStep == ASSUME IInv, NEW r \in Request, BeginEnqueue(r) PROVE Delivery!Submit(r)
<1>. PICK zero \in 0 .. TTL : zero = 0
  BY Constants
<1>1. row[r].status = "absent" /\ SetRow(r, "inserting", 0)
  BY DEF BeginEnqueue
<1>2. /\ row'[r].status = "inserting" /\ row'[r].attempt = row[r].attempt
      /\ \A q \in Request \ {r} : row'[q] = row[q]
  BY <1>1, SetRowEffect DEF IInv, Statuses
<1>3. /\ {q \in Request : row[q].status # "absent"}' = {q \in Request : row[q].status # "absent"} \cup {r}
      /\ {q \in Request : Visible(q)}' = {q \in Request : Visible(q)}
      /\ {q \in Request : row[q].attempt > 0}' = {q \in Request : row[q].attempt > 0}
      /\ {q \in Request : Settled(q)}' = {q \in Request : Settled(q)}
  BY <1>1, <1>2 DEF Visible, Settled
<1>4. {q \in Request : SameStream(q, r) /\ Visible(q)}
          = {q \in {p \in Request : Visible(p)} : KeyOf[q] = KeyOf[r]}
  BY <1>1 DEF SameStream, Visible
<1>. QED BY <1>1, <1>3, <1>4 DEF BeginEnqueue, Delivery!Submit

LEMMA AcceptStep == ASSUME IInv, NEW r \in Request, CommitEnqueue(r) PROVE Delivery!Accept(r)
<1>. PICK zero \in 0 .. TTL : zero = 0
  BY Constants
<1>1. row[r].status = "inserting" /\ SetRow(r, "pending", 0)
  BY DEF CommitEnqueue
<1>2. /\ row'[r].status = "pending" /\ row'[r].attempt = row[r].attempt
      /\ \A q \in Request \ {r} : row'[q] = row[q]
  BY <1>1, SetRowEffect DEF IInv, Statuses
<1>3. /\ {q \in Request : row[q].status # "absent"}' = {q \in Request : row[q].status # "absent"}
      /\ {q \in Request : Visible(q)}' = {q \in Request : Visible(q)} \cup {r}
      /\ {q \in Request : row[q].attempt > 0}' = {q \in Request : row[q].attempt > 0}
      /\ {q \in Request : Settled(q)}' = {q \in Request : Settled(q)}
  BY <1>1, <1>2 DEF Visible, Settled
<1>. QED BY <1>1, <1>3 DEF CommitEnqueue, Visible, Delivery!Accept

LEMMA BeginStep ==
  ASSUME IInv, NEW d \in Daemon, CommitClaim(d)
  PROVE  (\E r \in Request : Delivery!Begin(r)) \/ UNCHANGED Delivery!vars
<1>1. CASE UNCHANGED row
  BY <1>1, SameView DEF CommitClaim, Visible, Settled
<1>2. CASE ~IndexRefuses(claim[d].req)
  <2>. PICK r \in Request : r = claim[d].req
    BY DEF IInv, ClaimSafe, CommitClaim
  <2>1. claim[d].phase = "locked" /\ UNCHANGED ahead
    BY DEF CommitClaim
  <2>2. /\ Visible(r) /\ ~Settled(r) /\ row[r].status # "absent"
        /\ ahead[r] \subseteq {q \in Request : Settled(q)}
    BY <2>1 DEF IInv, TypeOK, ClaimSafe, Visible, Settled, Expired
  <2>3. /\ row'[r].status = "running" /\ row'[r].attempt = row[r].attempt + 1
        /\ \A q \in Request \ {r} : row'[q] = row[q]
    BY <1>2, Typed DEF IInv, CommitClaim
  <2>4. row[r].attempt \in Nat
    BY Typed DEF IInv
  <2>5. CASE row[r].attempt > 0
    BY <2>1, <2>2, <2>3, <2>4, <2>5, SameView DEF Visible, Settled
  <2>6. CASE row[r].attempt = 0
    <3>1. /\ {q \in Request : row[q].status # "absent"}' = {q \in Request : row[q].status # "absent"}
          /\ {q \in Request : Visible(q)}' = {q \in Request : Visible(q)}
          /\ {q \in Request : row[q].attempt > 0}' = {q \in Request : row[q].attempt > 0} \cup {r}
          /\ {q \in Request : Settled(q)}' = {q \in Request : Settled(q)}
      BY <2>2, <2>3, <2>4, <2>6 DEF Visible, Settled
    <3>. QED BY <2>1, <2>2, <2>6, <3>1 DEF Delivery!Begin
  <2>. QED BY <2>4, <2>5, <2>6
<1>. QED BY <1>1, <1>2 DEF CommitClaim

LEMMA TokenWriteStep ==
  ASSUME IInv, NEW r \in Request, NEW status \in {"pending", "running", "completed", "failed"},
         NEW left \in 0 .. TTL, row[r].status = "running", SetRow(r, status, left), UNCHANGED ahead
  PROVE  Delivery!Settle(r) \/ UNCHANGED Delivery!vars
<1>1. /\ row'[r].status = status /\ row'[r].attempt = row[r].attempt
      /\ \A q \in Request \ {r} : row'[q] = row[q]
  BY SetRowEffect DEF IInv, Statuses
<1>2. CASE status \in {"pending", "running"}
  BY <1>1, <1>2, SameView DEF Visible, Settled
<1>3. CASE status \in {"completed", "failed"}
  <2>1. row[r].attempt > 0
    BY DEF IInv, RowsSafe
  <2>2. /\ {q \in Request : row[q].status # "absent"}' = {q \in Request : row[q].status # "absent"}
        /\ {q \in Request : Visible(q)}' = {q \in Request : Visible(q)}
        /\ {q \in Request : row[q].attempt > 0}' = {q \in Request : row[q].attempt > 0}
        /\ {q \in Request : Settled(q)}' = {q \in Request : Settled(q)} \cup {r}
    BY <1>1, <1>3 DEF Visible, Settled
  <2>. QED BY <2>1, <2>2 DEF Settled, Delivery!Settle
<1>. QED BY <1>2, <1>3

LEMMA DeliveryStep == IInv /\ [Next]_vars => [Delivery!Next]_(Delivery!vars)
<1>. SUFFICES ASSUME IInv, [Next]_vars PROVE Delivery!Next \/ UNCHANGED Delivery!vars
  OBVIOUS
<1>. PICK zero \in 0 .. TTL : zero = 0
  BY Constants
<1>. USE DEF Delivery!Next
<1>1. CASE UNCHANGED <<row, ahead>>
  BY <1>1, SameView DEF Visible, Settled
<1>2. ASSUME NEW r \in Request, BeginEnqueue(r) \/ CommitEnqueue(r)
      PROVE  Delivery!Next
  BY <1>2, SubmitStep, AcceptStep
<1>3. ASSUME NEW r \in Request, Prune(r) PROVE UNCHANGED Delivery!vars
  <2>1. row[r].status \in {"completed", "failed"} /\ SetRow(r, "pruned", 0) /\ UNCHANGED ahead
    BY <1>3 DEF Prune
  <2>2. /\ row'[r].status = "pruned" /\ row'[r].attempt = row[r].attempt
        /\ \A q \in Request \ {r} : row'[q] = row[q]
    BY <2>1, SetRowEffect DEF IInv, Statuses
  <2>. QED BY <2>1, <2>2, SameView DEF Visible, Settled
<1>4. ASSUME NEW d \in Daemon, CommitClaim(d) PROVE Delivery!Next \/ UNCHANGED Delivery!vars
  BY <1>4, BeginStep
<1>5. ASSUME NEW d \in Daemon, ReturnClaim(d) \/ Quarantine(d)
      PROVE  Delivery!Next \/ UNCHANGED Delivery!vars
  <2>1. PICK status \in {"pending", "failed"} :
          \/ UNCHANGED <<row, ahead>>
          \/ /\ claim[d].phase = "claimed" /\ ClaimIsCurrent(d) /\ UNCHANGED ahead
             /\ SetRow(claim[d].req, status, 0)
    BY <1>5 DEF ReturnClaim, Quarantine
  <2>. QED BY <1>1, <2>1, TokenWriteStep DEF IInv, ClaimSafe, ClaimIsCurrent
<1>6. ASSUME NEW h \in Handler, RenewApply(h) PROVE Delivery!Next \/ UNCHANGED Delivery!vars
  <2>1. handler[h].phase # "idle"
    BY <1>6 DEF RenewApply, IInv, HandlerSafe
  <2>2. PICK left \in 0 .. TTL :
          \/ UNCHANGED <<row, ahead>>
          \/ HoldsToken(h) /\ SetRow(handler[h].req, "running", left) /\ UNCHANGED ahead
    <3>1. TTL \in Nat /\ handler[h].age \in 0 .. TTL
      BY Constants, Typed DEF IInv
    <3>2. \A a \in 0 .. handler[h].age : TTL - a \in 0 .. TTL
      BY <3>1
    <3>. QED BY <1>6, <3>2 DEF RenewApply
  <2>. QED BY <1>1, <2>1, <2>2, TokenWriteStep DEF IInv, HandlerSafe, HoldsToken
<1>12. ASSUME NEW s \in late, LateRenewal(s) PROVE Delivery!Next \/ UNCHANGED Delivery!vars
  <2>1. s.req \in Request /\ TTL \in Nat /\ s.age \in 0 .. TTL
    BY Constants, Typed DEF IInv
  <2>2. PICK left \in 0 .. TTL :
          \/ UNCHANGED <<row, ahead>>
          \/ TokenCurrent(s) /\ SetRow(s.req, "running", left) /\ UNCHANGED ahead
    <3>1. \A a \in 0 .. s.age : TTL - a \in 0 .. TTL
      BY <2>1
    <3>. QED BY <1>12, <3>1 DEF LateRenewal
  <2>. QED BY <1>1, <2>1, <2>2, TokenWriteStep DEF TokenCurrent
<1>7. ASSUME NEW h \in Handler, Settle(h) PROVE Delivery!Next \/ UNCHANGED Delivery!vars
  <2>1. PICK status \in {"pending", "running", "completed", "failed"}, left \in 0 .. TTL :
          \/ UNCHANGED <<row, ahead>>
          \/ /\ handler[h].phase # "idle" /\ HoldsToken(h) /\ UNCHANGED ahead
             /\ SetRow(handler[h].req, status, left)
    BY <1>7, Constants
       DEF Settle, Release, Defer, Fail, Complete, DropLostClaim, WriteUnderToken, Settling
  <2>. QED BY <1>1, <2>1, TokenWriteStep DEF IInv, HandlerSafe, HoldsToken
<1>8. CASE Tick
  <2>1. ASSUME NEW r \in Request
        PROVE  row'[r].status = row[r].status /\ row'[r].attempt = row[r].attempt
    BY <1>8, Typed DEF IInv, Tick, RowType
  <2>. QED BY <1>8, <2>1, SameView DEF Tick, Visible, Settled
<1>9. ASSUME NEW d \in Daemon,
             \/ BeginClaim(d) \/ AcceptClaim(d) \/ LoseClaimAnswer(d)
             \/ Stop(d) \/ Exit(d) \/ Crash(d) \/ Start(d)
      PROVE  UNCHANGED <<row, ahead>>
  BY <1>9 DEF BeginClaim, AcceptClaim, LoseClaimAnswer, Stop, Exit, Crash, Start, Vanish
<1>10. ASSUME NEW h \in Handler,
             \/ RenewSend(h) \/ RenewAnswer(h) \/ RenewError(h) \/ OwnershipTimer(h)
             \/ \E outcome \in {"ok", "error", "retry"} : FinishWork(h, outcome)
             \/ SettleError(h)
      PROVE  UNCHANGED <<row, ahead>>
  BY <1>10 DEF RenewSend, RenewAnswer, RenewError, OwnershipTimer, FinishWork, SettleError
<1>11. CASE UNCHANGED vars
  BY <1>1, <1>11 DEF vars
<1>. QED
  BY <1>1, <1>2, <1>3, <1>4, <1>5, <1>6, <1>7, <1>8, <1>9, <1>10, <1>11, <1>12 DEF Next

\* The queue implements OrderedDelivery: work on a request begins only after
\* everything its producer could see ahead of it in its stream is settled, and a
\* settled request stays settled.
THEOREM OrderedDeliveryImplemented == Spec => DeliversInOrder
  BY DeliveryInit, DeliveryStep, Invariance, PTL DEF Spec, DeliversInOrder, Delivery!Spec
===============================================================================
