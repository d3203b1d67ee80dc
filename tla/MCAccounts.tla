----------------------------- MODULE MCAccounts -----------------------------
(* Instances of Accounts for TLC.                                          *)
EXTENDS Accounts, TLC

CONSTANTS w1, m1, m2

MCNames == 0 .. 2
MCMailOf == w1 :> m1

=============================================================================
