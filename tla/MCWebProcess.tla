---------------------------- MODULE MCWebProcess ----------------------------
(* Two workers; see web_process.cfg for the sizes of each part.              *)
EXTENDS WebProcess

MCKeys == 1 .. 4
MCTTL == [prices |-> 1, chart |-> 2]

=============================================================================
