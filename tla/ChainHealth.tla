---------------------------- MODULE ChainHealth ----------------------------
(***************************************************************************)
(* The health and readiness endpoints ask the one EthereumService of their *)
(* process whether the RPC node answers, and read the reason from its      *)
(* last_error, an attribute that every RPC call of every thread writes.    *)
(***************************************************************************)
EXTENDS Web

CONSTANTS
    Threads,     \* of one process: one under gunicorn, many under runserver
    Attempts     \* RPC_MAX_ATTEMPTS

ASSUME AttemptsAssumption == Attempts \in Nat \ {0}

VARIABLES
    lastError,    \* last_error is set
    node,         \* the RPC node answers
    probe,        \* what a thread is doing
    failed        \* threads in whose request some call failed for good (history)

healthVars == <<lastError, node, probe, failed>>

Views == {"health", "ready", "readiness", "other"}

\* `told`: the answer will give an error.
Probe == [view : Views, at : {"first", "second", "errors", "answer"},
          tries : 0 .. Attempts - 1, told : BOOLEAN]

ASSUME ProbeAssumption == None \notin Probe

HealthInit ==
    /\ lastError = FALSE
    /\ node = TRUE
    /\ probe = [t \in Threads |-> None]
    /\ failed = {}

\* "other" is an endpoint that makes an RPC call of its own.
Ask(t, view) ==
    /\ probe[t] = None
    /\ probe' = [probe EXCEPT ![t] = [view |-> view, at |-> "first", tries |-> 0, told |-> FALSE]]
    /\ failed' = failed \ {t}
    /\ UNCHANGED <<lastError, node>>

Step(t, at) == probe' = [probe EXCEPT ![t].at = at, ![t].tries = 0]

\* Where a view goes after its call: HealthView always asks for the errors, which
\* probes again, ReadinessView only if the first probe failed.
Go(t, ok) ==
    LET view == probe[t].view
    IN  Step(t, IF probe[t].at = "second" THEN "errors"
                ELSE IF view = "health" \/ (view = "readiness" /\ ~ok) THEN "second"
                ELSE "answer")

Calling(t) == probe[t] # None /\ probe[t].at \in {"first", "second"}

\* Mutant: a success leaves the last error there.
KeepError(t) ==
    /\ Calling(t) /\ node
    /\ Go(t, TRUE)
    /\ UNCHANGED <<lastError, node, failed>>

\* _with_retry
Succeed(t) ==
    /\ Calling(t) /\ node
    /\ lastError' = FALSE
    /\ Go(t, TRUE)
    /\ UNCHANGED <<node, failed>>

\* Mutant: one attempt more than range(attempts).
RetryOnceMore(t) ==
    /\ Calling(t) /\ ~node /\ probe[t].tries < Attempts
    /\ probe' = [probe EXCEPT ![t].tries = @ + 1]
    /\ UNCHANGED <<lastError, node, failed>>

Retry(t) ==
    /\ Calling(t) /\ ~node /\ probe[t].tries < Attempts - 1
    /\ probe' = [probe EXCEPT ![t].tries = @ + 1]
    /\ UNCHANGED <<lastError, node, failed>>

GiveUp(t) ==
    /\ Calling(t) /\ ~node /\ probe[t].tries = Attempts - 1
    /\ lastError' = TRUE
    /\ failed' = failed \cup {u \in Threads : probe[u] # None}
    /\ Go(t, FALSE)
    /\ UNCHANGED node

\* chain_errors
ReadErrors(t) ==
    /\ probe[t] # None /\ probe[t].at = "errors"
    /\ probe' = [probe EXCEPT ![t].at = "answer", ![t].told = lastError]
    /\ UNCHANGED <<lastError, node, failed>>

Respond(t) ==
    /\ probe[t] # None /\ probe[t].at = "answer"
    /\ probe' = [probe EXCEPT ![t] = None]
    /\ UNCHANGED <<lastError, node, failed>>

NodeToggles == node' = ~node /\ UNCHANGED <<lastError, probe, failed>>

HealthNext ==
    \/ NodeToggles
    \/ \E t \in Threads :
          \/ \E view \in Views : Ask(t, view)
          \/ Succeed(t) \/ Retry(t) \/ GiveUp(t) \/ ReadErrors(t) \/ Respond(t)

HealthSpec == HealthInit /\ [][HealthNext]_healthVars

-----------------------------------------------------------------------------
(* Properties                                                              *)

HealthTypeOK ==
    /\ lastError \in BOOLEAN
    /\ node \in BOOLEAN
    /\ probe \in [Threads -> Probe \cup {None}]
    /\ failed \in SUBSET Threads

\* An error in an answer is of this request's time: some call failed for good
\* since it came, in this thread or another.
NoStaleError == \A t \in Threads : probe[t] # None /\ probe[t].told => t \in failed

=============================================================================
