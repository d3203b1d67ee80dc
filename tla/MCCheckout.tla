----------------------------- MODULE MCCheckout -----------------------------
(* The page of one payment on the instances of MCReconciliation.             *)
EXTENDS Checkout, MCReconciliation

=============================================================================
