--------------------------- MODULE OrderedDelivery ---------------------------
(***************************************************************************)
(* What the runtime request queue promises, without its table, its claims, *)
(* its leases or its daemons: a request is accepted once, its work may     *)
(* begin any number of times, never before the requests of its stream that *)
(* its producer could already see, and it is settled once, after work.     *)
(***************************************************************************)
CONSTANTS Request, KeyOf

VARIABLES
    submitted,  \* requests whose enqueue has begun
    accepted,   \* requests whose enqueue has been committed
    ahead,      \* of each submitted request: its stream's requests accepted before it began
    begun,      \* requests some handler has been given
    settled     \* requests completed or failed

vars == <<submitted, accepted, ahead, begun, settled>>

Init ==
    /\ submitted = {} /\ accepted = {} /\ begun = {} /\ settled = {}
    /\ ahead = [r \in Request |-> {}]

Submit(r) ==
    /\ r \notin submitted
    /\ submitted' = submitted \cup {r}
    /\ ahead' = [ahead EXCEPT ![r] = {q \in accepted : KeyOf[q] = KeyOf[r]}]
    /\ UNCHANGED <<accepted, begun, settled>>

Accept(r) ==
    /\ r \in submitted \ accepted
    /\ accepted' = accepted \cup {r}
    /\ UNCHANGED <<submitted, ahead, begun, settled>>

Begin(r) ==
    /\ r \in accepted \ begun
    /\ ahead[r] \subseteq settled
    /\ begun' = begun \cup {r}
    /\ UNCHANGED <<submitted, accepted, ahead, settled>>

Settle(r) ==
    /\ r \in begun \ settled
    /\ settled' = settled \cup {r}
    /\ UNCHANGED <<submitted, accepted, ahead, begun>>

Next == \E r \in Request : Submit(r) \/ Accept(r) \/ Begin(r) \/ Settle(r)

Spec == Init /\ [][Next]_vars
==============================================================================
