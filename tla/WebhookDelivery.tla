-------------------------- MODULE WebhookDelivery --------------------------
(***************************************************************************)
(* Delivery of the merchants' webhooks: webhook_service.py and             *)
(* PaymentReconciler.deliver_pending_webhooks.  Several processes deliver  *)
(* from the same webhook_logs table without locking it: each reads a       *)
(* window of rows, POSTs them one after the other and writes every row     *)
(* back from the copy it read.                                             *)
(*                                                                         *)
(* A WebhookLog is a number, in the order of created_at.                   *)
(***************************************************************************)
EXTENDS Processes

CONSTANTS
    N,            \* bound: rows of webhook_logs
    BatchLimit,   \* rows a run_batch delivers (15)
    CronLimit,    \* rows run_cron_cycle delivers after it (25)
    MaxAttempts,  \* settings.WEBHOOK_MAX_ATTEMPTS
    MaxPoisoned,  \* bound: rows whose delivery raises every time
    MaxDeaths     \* bound: processes that die while they deliver

ASSUME NAssumption == N \in Nat
ASSUME LimitsAssumption == BatchLimit \in Nat \ {0} /\ CronLimit \in Nat \ {0}
ASSUME MaxAttemptsAssumption == MaxAttempts \in Nat \ {0}
ASSUME HookBoundsAssumption == MaxPoisoned \in Nat /\ MaxDeaths \in Nat

Logs == 1 .. N

VARIABLES
    status,     \* WebhookLog.status; "absent" before enqueue_webhook
    attempts,   \* WebhookLog.attempts
    poisoned,   \* rows whose delivery raises something other than
                \* httpx.HTTPError each time it is tried
    tries,      \* deliveries begun and ended, counted up to MaxAttempts; one may
                \* end before its POST, at a URL that no longer validates
    accepted,   \* rows the merchant's endpoint has answered 2xx or processed
    deaths,     \* processes that died so far
    hookPc,     \* per process: "idle", "next" (row of the window), "save"
    window,     \* per process: rows still to be delivered
    hookCopy,   \* per process: attempts of the rows as they were read
    outcome     \* per process: the status it is about to save

logRows == <<status, attempts, poisoned>>
merchant == <<tries, accepted>>
hookLocal == <<hookPc, window, hookCopy, outcome>>
hookVars == <<logRows, merchant, deaths, hookLocal>>

Open == {"pending", "failed"}

HooksInit ==
    /\ status = [l \in Logs |-> "absent"]
    /\ attempts = [l \in Logs |-> 0]
    /\ poisoned = {}
    /\ tries = [l \in Logs |-> 0]
    /\ accepted = {}
    /\ deaths = 0
    /\ hookPc = [w \in Workers |-> "idle"]
    /\ window = [w \in Workers |-> {}]
    /\ hookCopy = [w \in Workers |-> [l \in Logs |-> 0]]
    /\ outcome = [w \in Workers |-> "pending"]

-----------------------------------------------------------------------------
\* WebhookService.enqueue_webhook, committed with the confirmation.  A callback
\* URL that httpx cannot build a request for (httpx.InvalidURL), or a NUL in its
\* endpoint's answer, which log.save cannot store, is there at every delivery.
Enqueue(l, poison) ==
    /\ status[l] = "absent"
    /\ \A k \in 1 .. l - 1 : status[k] # "absent"
    /\ status' = [status EXCEPT ![l] = "pending"]
    /\ poisoned' = poisoned \cup poison
    /\ poison \subseteq {l} /\ Cardinality(poisoned') <= MaxPoisoned
    /\ UNCHANGED <<attempts, merchant, deaths, hookLocal>>

\* Mutant: rows that failed once are not selected.
FirstPending(limit) ==
    {l \in Logs : /\ status[l] = "pending"
                  /\ Cardinality({k \in 1 .. l - 1 : status[k] = "pending"}) < limit}

\* filter(status__in=[pending, failed]).order_by(created_at)[:limit]
FirstOpen(limit) ==
    {l \in Logs : /\ status[l] \in Open
                  /\ Cardinality({k \in 1 .. l - 1 : status[k] \in Open}) < limit}

\* deliver_pending_webhooks begins: the rows are read at once.
Select(w, limit) ==
    /\ hookPc[w] = "idle"
    /\ window' = [window EXCEPT ![w] = FirstOpen(limit)]
    /\ hookCopy' = [hookCopy EXCEPT ![w] =
                   [l \in Logs |-> IF l \in FirstOpen(limit) THEN attempts[l] ELSE 0]]
    /\ hookPc' = [hookPc EXCEPT ![w] = "next"]
    /\ UNCHANGED <<logRows, merchant, deaths, outcome>>

\* The row whose turn it is.
IsHead(w, l) == l \in window[w] /\ \A k \in window[w] : l <= k

\* Mutant: attempts <= WEBHOOK_MAX_ATTEMPTS.
RetryOnceMore(w, l) == hookCopy[w][l] <= MaxAttempts

\* should_retry, on the copy.
ShouldRetry(w, l) == hookCopy[w][l] < MaxAttempts

Skip(w, l) ==
    /\ hookPc[w] = "next" /\ IsHead(w, l)
    /\ ~ShouldRetry(w, l)
    /\ window' = [window EXCEPT ![w] = @ \ {l}]
    /\ hookCopy' = [hookCopy EXCEPT ![w][l] = 0]
    /\ UNCHANGED <<logRows, merchant, deaths, hookPc, outcome>>

\* A delivery is tried and its result kept for the save.
Try(w, l, result) ==
    /\ hookPc[w] = "next" /\ IsHead(w, l)
    /\ ShouldRetry(w, l) /\ l \notin poisoned
    /\ tries' = [tries EXCEPT ![l] = IF @ < MaxAttempts THEN @ + 1 ELSE @]
    /\ outcome' = [outcome EXCEPT ![w] = result]
    /\ hookPc' = [hookPc EXCEPT ![w] = "save"]
    /\ UNCHANGED <<logRows, deaths, window, hookCopy>>

\* Mutant: any answer counts as delivered.
AnyAnswer(w, l) == Try(w, l, "delivered") /\ accepted' = accepted

\* 2xx.
Accept(w, l) == Try(w, l, "delivered") /\ accepted' = accepted \cup {l}

\* Another status code, no connection, or a URL that no longer validates.
Refuse(w, l) == Try(w, l, "failed") /\ accepted' = accepted

\* The merchant processes the POST but its answer is lost (httpx.HTTPError).
LoseAnswer(w, l) == Try(w, l, "failed") /\ accepted' = accepted \cup {l}

\* Mutant: the attempt is counted in the handler and again in the save.
SaveTwice(w, l) ==
    /\ hookPc[w] = "save" /\ IsHead(w, l)
    /\ status' = [status EXCEPT ![l] = outcome[w]]
    /\ attempts' = [attempts EXCEPT ![l] = hookCopy[w][l] + 2]
    /\ window' = [window EXCEPT ![w] = @ \ {l}]
    /\ hookCopy' = [hookCopy EXCEPT ![w][l] = 0]
    /\ outcome' = [outcome EXCEPT ![w] = "pending"]
    /\ hookPc' = [hookPc EXCEPT ![w] = "next"]
    /\ UNCHANGED <<poisoned, merchant, deaths>>

\* log.save(): status and attempts are written from the copy, unconditionally.
Save(w, l) ==
    /\ hookPc[w] = "save" /\ IsHead(w, l)
    /\ status' = [status EXCEPT ![l] = outcome[w]]
    /\ attempts' = [attempts EXCEPT ![l] = hookCopy[w][l] + 1]
    /\ window' = [window EXCEPT ![w] = @ \ {l}]
    /\ hookCopy' = [hookCopy EXCEPT ![w][l] = 0]
    /\ outcome' = [outcome EXCEPT ![w] = "pending"]
    /\ hookPc' = [hookPc EXCEPT ![w] = "next"]
    /\ UNCHANGED <<poisoned, merchant, deaths>>

EndWindow(w) ==
    /\ hookPc' = [hookPc EXCEPT ![w] = "idle"]
    /\ window' = [window EXCEPT ![w] = {}]
    /\ hookCopy' = [hookCopy EXCEPT ![w] = [l \in Logs |-> 0]]
    /\ outcome' = [outcome EXCEPT ![w] = "pending"]

Finish(w) ==
    /\ hookPc[w] = "next" /\ window[w] = {}
    /\ EndWindow(w)
    /\ UNCHANGED <<logRows, merchant, deaths>>

\* The delivery of a poisoned row raises, before the POST or after the merchant
\* has accepted it: the attempt is not saved and the rest of the window is left.
Raise(w, l) ==
    /\ hookPc[w] = "next" /\ IsHead(w, l)
    /\ ShouldRetry(w, l) /\ l \in poisoned
    /\ accepted' \in {accepted, accepted \cup {l}}
    /\ EndWindow(w)
    /\ UNCHANGED <<logRows, tries, deaths>>

\* The process dies: the rest of the window is not delivered and the current try
\* is not recorded.
Abort(w) ==
    /\ hookPc[w] # "idle" /\ deaths < MaxDeaths
    /\ deaths' = deaths + 1
    /\ EndWindow(w)
    /\ UNCHANGED <<logRows, merchant>>

-----------------------------------------------------------------------------
Deliver(w) ==
    \/ \E l \in Logs : \/ Skip(w, l) \/ Save(w, l)
                       \/ Accept(w, l) \/ Refuse(w, l) \/ LoseAnswer(w, l)
                       \/ Raise(w, l)
    \/ Finish(w)

HooksNext ==
    \/ \E l \in Logs : Enqueue(l, {}) \/ Enqueue(l, {l})
    \/ \E w \in Workers :
          \/ Select(w, BatchLimit)
          \/ w \notin Listeners /\ Select(w, CronLimit)
          \/ Deliver(w)
          \/ Abort(w)

HooksSpec == HooksInit /\ [][HooksNext]_hookVars

\* Every run_batch comes to its end, and the listener loop starts another.
HooksFairness ==
    /\ \A w \in Workers : WF_hookVars(Deliver(w))
    /\ \A w \in Listeners : WF_hookVars(Select(w, BatchLimit))

HooksFairSpec == HooksSpec /\ HooksFairness

-----------------------------------------------------------------------------
(* Properties                                                              *)

HooksTypeOK ==
    /\ status \in [Logs -> Open \cup {"absent", "delivered"}]
    /\ attempts \in [Logs -> 0 .. MaxAttempts]
    /\ poisoned \in SUBSET Logs
    /\ tries \in [Logs -> 0 .. MaxAttempts]
    /\ accepted \in SUBSET Logs
    /\ deaths \in 0 .. MaxDeaths
    /\ hookPc \in [Workers -> {"idle", "next", "save"}]
    /\ window \in [Workers -> SUBSET Logs]
    /\ hookCopy \in [Workers -> [Logs -> 0 .. MaxAttempts]]
    /\ outcome \in [Workers -> Open \cup {"delivered"}]

\* A row says "delivered" only if the merchant has accepted the webhook, also
\* when several processes write the row from old copies of it.
DeliveredWasAccepted ==
    \A l \in Logs : status[l] = "delivered" => l \in accepted

\* A webhook is given up (attempts = MaxAttempts) only after that many tries that
\* came to an end: no interleaving of stale saves counts one that was not made.
AttemptsAreReal == \A l \in Logs : attempts[l] <= tries[l]

Settled(l) == status[l] = "delivered" \/ attempts[l] = MaxAttempts

\* The oldest BatchLimit webhooks are delivered or tried MaxAttempts times, unless
\* one up to them is poisoned: that one is never settled and ends every window.
OldestAreSettled ==
    \A l \in Logs : l <= BatchLimit =>
        (status[l] # "absent" ~> Settled(l) \/ poisoned \cap 1 .. l # {})

\* Every webhook is.
AllAreSettled == \A l \in Logs : status[l] # "absent" ~> Settled(l)

=============================================================================
