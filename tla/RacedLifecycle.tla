--------------------------- MODULE RacedLifecycle ---------------------------
(***************************************************************************)
(* What is kept of a payment's life when several processes settle the same *)
(* payments: an overdue payment may be called failed after it was          *)
(* confirmed, but it keeps its credit, nothing else is taken back, and     *)
(* whatever is confirmed was pending and is credited in that step with a   *)
(* deposit of its own that may be counted as confirmed often enough.       *)
(***************************************************************************)
CONSTANTS Payments, Txs, None

VARIABLES
    status,     \* "absent", "pending", "confirmed" or "failed"
    credit,     \* credit[t]: the payment the deposit t was credited to
    expired,    \* the deadline has passed
    counted     \* deposits that may be counted as confirmed often enough

vars == <<status, credit, expired, counted>>

Init ==
    /\ status = [p \in Payments |-> "absent"]
    /\ credit = [t \in Txs |-> None]
    /\ expired = [p \in Payments |-> FALSE]
    /\ counted = {}

Create(p) ==
    /\ status[p] = "absent"
    /\ status' = [status EXCEPT ![p] = "pending"]
    /\ UNCHANGED <<credit, expired, counted>>

Confirm(p, t) ==
    /\ status[p] = "pending" /\ t \in counted
    /\ credit[t] = None /\ \A u \in Txs : credit[u] # p
    /\ status' = [status EXCEPT ![p] = "confirmed"]
    /\ credit' = [credit EXCEPT ![t] = p]
    /\ UNCHANGED <<expired, counted>>

\* Of pending and of confirmed payments, and of failed ones again.
Fail(ps) ==
    /\ \A p \in ps : status[p] # "absent" /\ expired[p]
    /\ status' = [p \in Payments |-> IF p \in ps THEN "failed" ELSE status[p]]
    /\ UNCHANGED <<credit, expired, counted>>

Expire(p) ==
    /\ status[p] # "absent"
    /\ expired' = [expired EXCEPT ![p] = TRUE]
    /\ UNCHANGED <<status, credit, counted>>

MayCount(t) ==
    /\ counted' = counted \cup {t}
    /\ UNCHANGED <<status, credit, expired>>

Next ==
    \/ \E p \in Payments : Create(p) \/ Expire(p)
    \/ \E p \in Payments, t \in Txs : Confirm(p, t)
    \/ \E ps \in SUBSET Payments : Fail(ps)
    \/ \E t \in Txs : MayCount(t)

Spec == Init /\ [][Next]_vars

=============================================================================
