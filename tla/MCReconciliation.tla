-------------------------- MODULE MCReconciliation --------------------------
(* Instances of Reconciliation for TLC.                                    *)
EXTENDS Reconciliation, TLC

CONSTANTS p1, p2, t1, t2, w1, w2, loop

\* Two payments; t1 pays p1 and, by an internal transfer, p2; t2 pays p1.
TwoPayments == {p1, p2}
TwoDeposits == {t1, t2}
ToTwo == [t \in TwoDeposits |-> p1]
CreditsTwo == [t \in TwoDeposits |-> IF t = t1 THEN {p1, p2} ELSE {p1}]

\* One payment, one deposit.
OnePayment == {p1}
OneDeposit == {t1}
ToOnly == [t \in OneDeposit |-> p1]
CreditsOnly == [t \in OneDeposit |-> {p1}]

WebWorkers == {w1, w2}
LoopAndWeb == {loop, w1}
NoListener == {}
TheLoop == {loop}

Interchangeable == Permutations(WebWorkers)
=============================================================================
