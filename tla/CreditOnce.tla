----------------------------- MODULE CreditOnce -----------------------------
(***************************************************************************)
(* What Gaxtron's books promise whatever the processes do: a deposit is    *)
(* credited to one payment for good, a payment is credited with one        *)
(* deposit, and the merchant is told of exactly that credit, in the same   *)
(* step.                                                                   *)
(***************************************************************************)
CONSTANTS Payments, Txs, None

VARIABLES
    credit,     \* credit[t]: the payment the deposit t was credited to
    told        \* told[p]: the deposit the merchant of p is told of

vars == <<credit, told>>

Init ==
    /\ credit = [t \in Txs |-> None]
    /\ told = [p \in Payments |-> None]

Credit(p, t) ==
    /\ credit[t] = None
    /\ \A u \in Txs : credit[u] # p
    /\ credit' = [credit EXCEPT ![t] = p]
    /\ told' = [told EXCEPT ![p] = t]

Next == \E p \in Payments, t \in Txs : Credit(p, t)

Spec == Init /\ [][Next]_vars

=============================================================================
