---------------------------- MODULE MCBackground ----------------------------
(* The instance of Background for TLC: a listener loop and a cron process  *)
(* or web worker.                                                          *)
EXTENDS Background

CONSTANTS loop, other

LoopAndOther == {loop, other}
TheLoop == {loop}

=============================================================================
