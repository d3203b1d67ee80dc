--------------------------- MODULE MCDepositScan ---------------------------
(* The instance of DepositScan for TLC.                                    *)
EXTENDS DepositScan

CONSTANT loop

TheLoop == {loop}
=============================================================================
