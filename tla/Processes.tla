------------------------------ MODULE Processes ------------------------------
(***************************************************************************)
(* The processes that work on payments in the background: run_listener     *)
(* loops, and web workers and cron invocations that do the same work for a *)
(* request.                                                                *)
(***************************************************************************)
EXTENDS Database

CONSTANTS
    Workers,     \* processes that reconcile payments and deliver webhooks
    Listeners    \* those of them that are run_listener loops

ASSUME ListenersAssumption == Listeners \subseteq Workers

=============================================================================
