----------------------------- MODULE Background -----------------------------
(***************************************************************************)
(* What the background processes do next to reconciling payments.  The     *)
(* delivery of webhooks and the search for deposits share the processes    *)
(* but no variable, so what one of them does in a behaviour of both it     *)
(* does in a behaviour of it alone: `load` picks the one there is work     *)
(* for.                                                                    *)
(***************************************************************************)
EXTENDS WebhookDelivery, DepositScan

VARIABLE load

vars == <<load, hookVars, scanVars>>

Init == load \in {"hooks", "scan"} /\ HooksInit /\ ScanInit

Next ==
    /\ UNCHANGED load
    /\ \/ load = "hooks" /\ HooksNext /\ UNCHANGED scanVars
       \/ load = "scan" /\ ScanNext /\ UNCHANGED hookVars

\* HooksFairness or ScanFairness.
Fairness ==
    /\ \A w \in Workers : WF_hookVars(load = "hooks" /\ Deliver(w))
    /\ \A w \in Listeners : WF_hookVars(load = "hooks" /\ Select(w, BatchLimit))
    /\ \A w \in Listeners :
          /\ WF_scanVars(load = "scan" /\ Read(w))
          /\ SF_scanVars(load = "scan" /\ Scan(w, head))
          /\ SF_scanVars(load = "scan" /\ SaveCursor(w))
          /\ SF_scanVars(load = "scan" /\ SaveHit(w))

Spec == Init /\ [][Next]_vars /\ Fairness

\* The types of both parts.
TypeOK == HooksTypeOK /\ ScanTypeOK

=============================================================================
