-------------------------------- MODULE Web --------------------------------
(***************************************************************************)
(* What the parts of the web server share: gunicorn's worker processes,    *)
(* each of which serves one request at a time, and the clock.              *)
(***************************************************************************)
EXTENDS Naturals

CONSTANTS
    Workers,    \* gunicorn --workers
    None,       \* nothing there
    MaxTime     \* bound: seconds that pass

ASSUME TimeAssumption == MaxTime \in Nat /\ None \notin Nat

VARIABLE now    \* time.time()

Times == 0 .. MaxTime

Tick == now < MaxTime /\ now' = now + 1

=============================================================================
