--------------------------- MODULE Reconciliation ---------------------------
(***************************************************************************)
(* How Gaxtron settles payments: merchants/reconcile_service.py, the       *)
(* payment_service.py writers it calls, and alchemy_views.py, run at the   *)
(* same time by several operating-system processes (the run_listener       *)
(* worker, gunicorn workers serving checkout polls and verify calls,       *)
(* serverless cron invocations, Alchemy's push webhook).                   *)
(*                                                                         *)
(* The processes share PostgreSQL (autocommit, READ COMMITTED) and Redis,  *)
(* and read the Ethereum chain through an RPC node.  One action is one     *)
(* database statement, Redis command or RPC result together with the       *)
(* Python around it; what a process read earlier is kept in its own        *)
(* variables, because that is what it acts on later.                       *)
(***************************************************************************)
EXTENDS Naturals, FiniteSets

CONSTANTS
    Payments,   \* rows of the payments table that may be created
    Txs,        \* Ethereum transactions that pay a deposit address
    Workers,    \* processes that run the reconciler
    Listeners,  \* those of them that are run_listener loops
    None,       \* SQL NULL, Python None
    Required,   \* settings.ETH_REQUIRED_CONFIRMATIONS
    To,         \* To[t]: the payment whose address is t's top-level recipient
    Credits,    \* Credits[t]: the payments whose address t sends value to,
                \*             internal (contract) transfers included
    MaxFaults   \* bound: crashes and failed database statements

ASSUME NoneAssumption == None \notin Payments \cup Txs \cup Workers
ASSUME ListenersAssumption == Listeners \subseteq Workers
ASSUME RequiredAssumption == Required \in Nat \ {0}
ASSUME ToAssumption == To \in [Txs -> Payments \cup {None}]
ASSUME CreditsAssumption ==
    /\ Credits \in [Txs -> SUBSET Payments]
    /\ \A t \in Txs : To[t] # None => To[t] \in Credits[t]
ASSUME MaxFaultsAssumption == MaxFaults \in Nat

VARIABLES
    \* PostgreSQL, committed state
    status,     \* Payment.status; "absent" before the row is inserted
    txHash,     \* Payment.tx_hash
    confs,      \* Payment.confirmations
    ledger,     \* ledger[t]: the payment of the Transaction row with tx_hash t
    notice,     \* notice[p]: the tx_hash in the payload of p's WebhookLog row
    \* the world
    expired,    \* Payment.expires_at < now
    depth,      \* confirmations of a transaction on the chain, up to Required
    processed,  \* the Redis set gaxtron:processed_events
    slipped,    \* transactions a reorganisation dropped between the two calls
                \* of a process that was counting their confirmations (history)
    faults,     \* crashes and failed statements so far
    \* local state of each process
    pc,         \* the statement it executes next
    todo,       \* payments of its batch still to be checked
    seen,       \* tx_hash of those payments as the batch read them
    cur,        \* the payment being checked
    res,        \* result.tx_hash
    got         \* result.confirmations

db == <<status, txHash, confs, ledger, notice>>
world == <<expired, depth, processed, slipped, faults>>
local == <<pc, todo, seen, cur, res, got>>
vars == <<db, world, local>>

Status == {"absent", "pending", "confirmed", "failed"}
Steps == {"idle", "push", "expire", "load", "next", "height", "adrift", "write",
          "processed", "exists", "lock", "insert", "mark", "commit"}
NoRows == [p \in Payments |-> None]

Init ==
    /\ status = [p \in Payments |-> "absent"]
    /\ txHash = NoRows
    /\ confs = [p \in Payments |-> 0]
    /\ ledger = [t \in Txs |-> None]
    /\ notice = NoRows
    /\ expired = [p \in Payments |-> FALSE]
    /\ depth = [t \in Txs |-> 0]
    /\ processed = {}
    /\ slipped = {}
    /\ faults = 0
    /\ pc = [w \in Workers |-> "idle"]
    /\ todo = [w \in Workers |-> {}]
    /\ seen = [w \in Workers |-> NoRows]
    /\ cur = [w \in Workers |-> None]
    /\ res = [w \in Workers |-> None]
    /\ got = [w \in Workers |-> 0]

-----------------------------------------------------------------------------
(* The environment: merchants, payers, the clock and the chain.            *)

\* Mutant: a status outside the vocabulary.
CreateOpen(p) ==
    /\ status[p] = "absent"
    /\ status' = [status EXCEPT ![p] = "open"]
    /\ UNCHANGED <<txHash, confs, ledger, notice, world, local>>

\* PaymentService.create_payment commits: a pending row, no tx_hash.
Create(p) ==
    /\ status[p] = "absent"
    /\ status' = [status EXCEPT ![p] = "pending"]
    /\ UNCHANGED <<txHash, confs, ledger, notice, world, local>>

\* The clock passes expires_at.
Expire(p) ==
    /\ status[p] # "absent" /\ ~expired[p]
    /\ expired' = [expired EXCEPT ![p] = TRUE]
    /\ UNCHANGED <<db, depth, processed, slipped, faults, local>>

\* A block: t is mined or gains a confirmation.  Its deposit addresses were
\* generated with their payments, so those exist.
Mine(t) ==
    /\ depth[t] < Required
    /\ \A p \in Credits[t] : status[p] # "absent"
    /\ depth' = [depth EXCEPT ![t] = @ + 1]
    /\ UNCHANGED <<db, expired, processed, slipped, faults, local>>

\* w has t's receipt and has not asked for the latest block yet.
HasReceipt(w, t) == pc[w] = "height" /\ res[w] = t

\* A reorganisation drops a transaction that is not Required deep.  The block a
\* receipt fetched before names is then no longer t's.
Reorg(t) ==
    /\ depth[t] \in 1 .. Required - 1
    /\ depth' = [depth EXCEPT ![t] = 0]
    /\ pc' = [w \in Workers |-> IF HasReceipt(w, t) THEN "adrift" ELSE pc[w]]
    /\ slipped' = slipped \cup {u \in {t} : \E w \in Workers : HasReceipt(w, u)}
    /\ UNCHANGED <<db, expired, processed, faults, todo, seen, cur, res, got>>

-----------------------------------------------------------------------------
(* Control of one process.                                                 *)

Goto(w, step) == pc' = [pc EXCEPT ![w] = step]

\* _check_payment returns: on to the next payment of the batch.
Return(w) ==
    /\ Goto(w, "next")
    /\ cur' = [cur EXCEPT ![w] = None]
    /\ res' = [res EXCEPT ![w] = None]
    /\ got' = [got EXCEPT ![w] = 0]
    /\ UNCHANGED <<todo, seen>>

\* The batch ends, normally or by an exception its caller catches.
Leave(w) ==
    /\ Goto(w, "idle")
    /\ todo' = [todo EXCEPT ![w] = {}]
    /\ seen' = [seen EXCEPT ![w] = NoRows]
    /\ cur' = [cur EXCEPT ![w] = None]
    /\ res' = [res EXCEPT ![w] = None]
    /\ got' = [got EXCEPT ![w] = 0]

\* An exception out of _finalize_payment.  After a lookup of a stored tx_hash
\* _check_payment catches it; after a scan nothing does and the batch is lost.
Raise(w) == IF seen[w][cur[w]] = None THEN Leave(w) ELSE Return(w)

\* A transaction of _finalize_payment is open: it holds p's row lock.
Open(w) == pc[w] \in {"insert", "mark", "commit"}
Locked(p) == \E w \in Workers : Open(w) /\ cur[w] = p

\* w has inserted its Transaction row and not committed it.
Inserted(w) == pc[w] \in {"mark", "commit"}

-----------------------------------------------------------------------------
(* PaymentReconciler.run_batch                                             *)

\* run_batch(): the listener loop and cron take every payment, the others the
\* one payment their request is about.
StartBatch(w, ps) ==
    /\ pc[w] = "idle"
    /\ w \in Listeners => ps = Payments
    /\ \A p \in ps : ps # Payments => status[p] # "absent"
    /\ todo' = [todo EXCEPT ![w] = ps]
    /\ Goto(w, "expire")
    /\ UNCHANGED <<db, world, seen, cur, res, got>>

\* Mutant: payments that show a deposit are not expired.
ExpiredUnlessPaid(p) == expired[p] /\ txHash[p] = None

\* expires_at < now
IsExpired(p) == expired[p]

\* PaymentService.expire_stale_payments: one UPDATE ... WHERE status = pending
\* AND expires_at < now.  It waits for the row locks of the rows it takes.
ExpireStale(w) ==
    LET stale == {p \in Payments : status[p] = "pending" /\ IsExpired(p)}
    IN  /\ pc[w] = "expire"
        /\ \A p \in stale : ~Locked(p)
        /\ status' = [p \in Payments |-> IF p \in stale THEN "failed" ELSE status[p]]
        /\ Goto(w, "load")
        /\ UNCHANGED <<txHash, confs, ledger, notice, world, todo, seen, cur, res, got>>


\* The SELECT of the batch: rows that are pending now, as they are now.
Load(w) ==
    LET rows == {p \in todo[w] : status[p] = "pending"}
    IN  /\ pc[w] = "load"
        /\ todo' = [todo EXCEPT ![w] = rows]
        /\ seen' = [seen EXCEPT ![w] = [p \in Payments |-> IF p \in rows THEN txHash[p] ELSE None]]
        /\ Goto(w, "next")
        /\ UNCHANGED <<db, world, cur, res, got>>

FinishBatch(w) ==
    /\ pc[w] = "next" /\ todo[w] = {}
    /\ Leave(w)
    /\ UNCHANGED <<db, world>>

-----------------------------------------------------------------------------
(* PaymentReconciler._check_payment, on the row the batch read: its status *)
(* there is pending whatever the database says by now.                     *)

Drop(w, p) == todo' = [todo EXCEPT ![w] = @ \ {p}]

\* Mutant: the deadline is not compared.
FailAnyTime(w, p) ==
    /\ pc[w] = "next" /\ p \in todo[w] /\ ~Locked(p)
    /\ status' = [status EXCEPT ![p] = "failed"]
    /\ Drop(w, p)
    /\ UNCHANGED <<txHash, confs, ledger, notice, world, pc, seen, cur, res, got>>

\* PaymentService.fail_payment: the status test is on the copy, the UPDATE has
\* no condition.
FailStale(w, p) ==
    /\ pc[w] = "next" /\ p \in todo[w]
    /\ IsExpired(p) /\ ~Locked(p)
    /\ status' = [status EXCEPT ![p] = "failed"]
    /\ Drop(w, p)
    /\ UNCHANGED <<txHash, confs, ledger, notice, world, pc, seen, cur, res, got>>

\* chains.get_confirmations, first call: the receipt.  Without one (not mined on
\* the node's chain, or the call fails) the answer is 0.
AskReceipt(w, p, t) ==
    /\ cur' = [cur EXCEPT ![w] = p]
    /\ res' = [res EXCEPT ![w] = t]
    /\ Drop(w, p)
    /\ \/ depth[t] > 0 /\ Goto(w, "height")
       \/ Goto(w, "write")
    /\ UNCHANGED <<db, world, seen, got>>

\* A tx_hash was stored: only its confirmations are asked for.
LookUp(w, p) ==
    /\ pc[w] = "next" /\ p \in todo[w] /\ ~IsExpired(p)
    /\ seen[w][p] # None
    /\ AskReceipt(w, p, seen[w][p])

\* The scan finds nothing in its window, or raises.
ScanMiss(w, p) ==
    /\ pc[w] = "next" /\ p \in todo[w] /\ ~IsExpired(p)
    /\ seen[w][p] = None
    /\ Drop(w, p)
    /\ UNCHANGED <<db, world, pc, seen, cur, res, got>>

\* Mutant: the scan does not compare the recipient.
ScanAnyRecipient(w, p, t) ==
    /\ pc[w] = "next" /\ p \in todo[w] /\ ~IsExpired(p)
    /\ seen[w][p] = None
    /\ To[t] # None /\ depth[t] > 0
    /\ AskReceipt(w, p, t)

\* The scan finds a mined transaction to p's address, and its confirmations are
\* asked for.
ScanHit(w, p, t) ==
    /\ pc[w] = "next" /\ p \in todo[w] /\ ~IsExpired(p)
    /\ seen[w][p] = None
    /\ To[t] = p /\ depth[t] > 0
    /\ AskReceipt(w, p, t)

\* What latest - blockNumber + 1 can be: the depth, less on a node that lags, 0
\* when the call fails; anything when the receipt's block is off the chain.
Counts(w) == IF pc[w] = "adrift" THEN 0 .. Required ELSE 0 .. depth[res[w]]

\* get_confirmations, second call: the latest block.  A scanned deposit that is
\* deep enough is finalised without being stored first.
CountBlocks(w, c) ==
    /\ pc[w] \in {"height", "adrift"}
    /\ c \in Counts(w)
    /\ got' = [got EXCEPT ![w] = c]
    /\ Goto(w, IF seen[w][cur[w]] = None /\ c = Required THEN "processed" ELSE "write")
    /\ UNCHANGED <<db, world, todo, seen, cur, res>>

\* Mutant: any confirmation will do.
StoreAndFinalize(w) ==
    LET p == cur[w]
    IN  /\ pc[w] = "write" /\ ~Locked(p)
        /\ txHash' = [txHash EXCEPT ![p] = res[w]]
        /\ confs' = [confs EXCEPT ![p] = got[w]]
        /\ Goto(w, "processed")
        /\ UNCHANGED <<status, ledger, notice, world, todo, seen, cur, res, got>>

\* Mutant: save() without update_fields writes the copy's status back too.
StoreWholeRow(w) ==
    LET p == cur[w]
    IN  /\ pc[w] = "write" /\ ~Locked(p)
        /\ status' = [status EXCEPT ![p] = "pending"]
        /\ txHash' = [txHash EXCEPT ![p] = res[w]]
        /\ confs' = [confs EXCEPT ![p] = got[w]]
        /\ UNCHANGED <<ledger, notice, world>>
        /\ IF got[w] < Required
           THEN Return(w)
           ELSE Goto(w, "processed") /\ UNCHANGED <<todo, seen, cur, res, got>>

\* PaymentService.update_pending_confirmations: again the status test is on the
\* copy and the UPDATE has no condition.
StoreConfirmations(w) ==
    LET p == cur[w]
    IN  /\ pc[w] = "write" /\ ~Locked(p)
        /\ txHash' = [txHash EXCEPT ![p] = res[w]]
        /\ confs' = [confs EXCEPT ![p] = got[w]]
        /\ UNCHANGED <<status, ledger, notice, world>>
        /\ IF got[w] < Required
           THEN Return(w)
           ELSE Goto(w, "processed") /\ UNCHANGED <<todo, seen, cur, res, got>>

-----------------------------------------------------------------------------
(* PaymentReconciler._finalize_payment                                     *)

\* is_event_processed: FALSE as well when Redis is down.
CheckProcessed(w) ==
    /\ pc[w] = "processed"
    /\ UNCHANGED <<db, world>>
    /\ \/ res[w] \in processed /\ Return(w)
       \/ Goto(w, "exists") /\ UNCHANGED <<todo, seen, cur, res, got>>

\* mark_event_processed: no effect when Redis is down.
MarkEvent(t) == processed' = processed \cup {t} \/ processed' = processed

\* Mutant: the event is marked before the payment is looked at.
MarkBeforeLock(w) ==
    /\ pc[w] = "exists"
    /\ MarkEvent(res[w])
    /\ UNCHANGED <<db, expired, depth, slipped, faults>>
    /\ IF ledger[res[w]] # None
       THEN Return(w)
       ELSE Goto(w, "lock") /\ UNCHANGED <<todo, seen, cur, res, got>>

\* A committed Transaction row with this tx_hash means somebody was faster.
CheckLedger(w) ==
    /\ pc[w] = "exists"
    /\ UNCHANGED <<db, expired, depth, slipped, faults>>
    /\ IF ledger[res[w]] # None
       THEN MarkEvent(res[w]) /\ Return(w)
       ELSE Goto(w, "lock") /\ UNCHANGED <<processed, todo, seen, cur, res, got>>

\* Mutant: the row is locked but its status is not looked at again.
LockAnyStatus(w) ==
    /\ pc[w] = "lock" /\ ~Locked(cur[w])
    /\ Goto(w, "insert")
    /\ UNCHANGED <<db, world, todo, seen, cur, res, got>>

\* Mutant: get() instead of select_for_update().
ReadWithoutLock(w) ==
    /\ pc[w] = "lock"
    /\ UNCHANGED <<db, world>>
    /\ IF status[cur[w]] = "pending"
       THEN Goto(w, "insert") /\ UNCHANGED <<todo, seen, cur, res, got>>
       ELSE Return(w)

\* BEGIN; SELECT ... FOR UPDATE; nothing to do unless the row is still pending.
LockPayment(w) ==
    /\ pc[w] = "lock" /\ ~Locked(cur[w])
    /\ UNCHANGED <<db, world>>
    /\ IF status[cur[w]] = "pending"
       THEN Goto(w, "insert") /\ UNCHANGED <<todo, seen, cur, res, got>>
       ELSE Return(w)

\* Mutant: Transaction.tx_hash is not unique.
InsertUnchecked(w) ==
    /\ pc[w] = "insert"
    /\ Goto(w, "mark")
    /\ UNCHANGED <<db, world, todo, seen, cur, res, got>>

\* Transaction.objects.create: the unique index on tx_hash waits for another
\* open transaction that inserted the same hash, and refuses a committed one.
InsertTransaction(w) ==
    /\ pc[w] = "insert"
    /\ \A v \in Workers : ~(Inserted(v) /\ res[v] = res[w])
    /\ UNCHANGED <<db, world>>
    /\ IF ledger[res[w]] = None
       THEN Goto(w, "mark") /\ UNCHANGED <<todo, seen, cur, res, got>>
       ELSE Raise(w)

\* mark_event_processed inside the open transaction.
MarkProcessed(w) ==
    /\ pc[w] = "mark"
    /\ MarkEvent(res[w])
    /\ Goto(w, "commit")
    /\ UNCHANGED <<db, expired, depth, slipped, faults, todo, seen, cur, res, got>>

\* COMMIT of the Transaction row, of confirm_payment's UPDATE and of the
\* WebhookLog row (enqueue_webhook keeps one that is already there).
Commit(w) ==
    LET p == cur[w]  t == res[w]
    IN  /\ pc[w] = "commit"
        /\ ledger' = [ledger EXCEPT ![t] = p]
        /\ status' = [status EXCEPT ![p] = "confirmed"]
        /\ txHash' = [txHash EXCEPT ![p] = t]
        /\ confs' = [confs EXCEPT ![p] = got[w]]
        /\ notice' = [notice EXCEPT ![p] = IF @ = None THEN t ELSE @]
        /\ Return(w)
        /\ UNCHANGED world

-----------------------------------------------------------------------------
(* AlchemyAddressActivityView: a push names a transaction and an address,  *)
(* any number of times and after any delay.                                *)

Push(w, t, p) ==
    /\ pc[w] = "idle" /\ w \notin Listeners
    /\ p \in Credits[t] /\ depth[t] > 0
    /\ status[p] = "pending" /\ txHash[p] = None
    /\ cur' = [cur EXCEPT ![w] = p]
    /\ res' = [res EXCEPT ![w] = t]
    /\ Goto(w, "push")
    /\ UNCHANGED <<db, world, todo, seen, got>>

\* update_pending_confirmations(payment, tx_hash, 0), then run_batch(payment.id)
StorePush(w) ==
    LET p == cur[w]
    IN  /\ pc[w] = "push" /\ ~Locked(p)
        /\ txHash' = [txHash EXCEPT ![p] = res[w]]
        /\ confs' = [confs EXCEPT ![p] = 0]
        /\ todo' = [todo EXCEPT ![w] = {p}]
        /\ cur' = [cur EXCEPT ![w] = None]
        /\ res' = [res EXCEPT ![w] = None]
        /\ Goto(w, "expire")
        /\ UNCHANGED <<status, ledger, notice, world, seen, got>>

-----------------------------------------------------------------------------
(* Faults                                                                  *)

\* The process dies (deploy, OOM kill, serverless timeout) and its open
\* transaction is rolled back.  What it put in Redis stays.
Crash(w) ==
    /\ pc[w] # "idle" /\ faults < MaxFaults
    /\ faults' = faults + 1
    /\ Leave(w)
    /\ UNCHANGED <<db, expired, depth, processed, slipped>>

\* A statement of the open transaction, or its COMMIT, fails.
Rollback(w) ==
    /\ Open(w) /\ faults < MaxFaults
    /\ faults' = faults + 1
    /\ Raise(w)
    /\ UNCHANGED <<db, expired, depth, processed, slipped>>

-----------------------------------------------------------------------------
Environment ==
    \/ \E p \in Payments : Create(p) \/ Expire(p)
    \/ \E t \in Txs : Mine(t) \/ Reorg(t)

\* What a process that is under way does next.
Continue(w) ==
    \/ ExpireStale(w) \/ Load(w) \/ FinishBatch(w)
    \/ \E p \in Payments :
          \/ FailStale(w, p) \/ ScanMiss(w, p)
          \/ LookUp(w, p)
          \/ \E t \in Txs : ScanHit(w, p, t)
    \/ \E c \in 0 .. Required : CountBlocks(w, c)
    \/ StoreConfirmations(w) \/ CheckProcessed(w) \/ CheckLedger(w)
    \/ LockPayment(w) \/ InsertTransaction(w) \/ MarkProcessed(w) \/ Commit(w)
    \/ StorePush(w)

\* run_listener and the cron endpoint take all payments, VerifyPaymentView and the
\* checkout page's polls the one they ask for.
Sweep(w) == StartBatch(w, Payments)

Asked(w) == \E p \in Payments : StartBatch(w, {p})

\* The activities of one push are handled one after the other; an exception in
\* one does not keep the next from its turn.
Pushed(w) == \E p \in Payments, t \in Txs : Push(w, t, p)

Begin(w) == Sweep(w) \/ Asked(w) \/ Pushed(w)

Next ==
    \/ Environment
    \/ \E w \in Workers : Begin(w) \/ Continue(w) \/ Crash(w) \/ Rollback(w)

Spec == Init /\ [][Next]_vars

\* Requests and loop iterations run to their end, and a run_listener loop starts
\* again five seconds later; not every lookup of a loop finds its RPC node down.
GetsReceipt(w) == (\E p \in Payments : LookUp(w, p)) /\ pc'[w] = "height"

GetsDepth(w) == CountBlocks(w, depth[res[w]])

Fairness ==
    /\ \A w \in Workers : WF_vars(Continue(w))
    /\ \A l \in Listeners :
          /\ WF_vars(StartBatch(l, Payments))
          /\ SF_vars(GetsReceipt(l)) /\ SF_vars(GetsDepth(l))

FairSpec == Spec /\ Fairness

-----------------------------------------------------------------------------
(* Properties                                                              *)

\* Every variable keeps its type, and a process holds the locals its step uses.
TypeOK ==
    /\ status \in [Payments -> Status]
    /\ txHash \in [Payments -> Txs \cup {None}]
    /\ confs \in [Payments -> 0 .. Required]
    /\ ledger \in [Txs -> Payments \cup {None}]
    /\ notice \in [Payments -> Txs \cup {None}]
    /\ expired \in [Payments -> BOOLEAN]
    /\ depth \in [Txs -> 0 .. Required]
    /\ processed \in SUBSET Txs
    /\ slipped \in SUBSET Txs
    /\ faults \in 0 .. MaxFaults
    /\ pc \in [Workers -> Steps]
    /\ todo \in [Workers -> SUBSET Payments]
    /\ seen \in [Workers -> [Payments -> Txs \cup {None}]]
    /\ cur \in [Workers -> Payments \cup {None}]
    /\ res \in [Workers -> Txs \cup {None}]
    /\ got \in [Workers -> 0 .. Required]
    /\ \A w \in Workers :
          pc[w] \notin {"idle", "expire", "load", "next"} => cur[w] \in Payments /\ res[w] \in Txs

\* Open transactions of _finalize_payment do not meet: each has its payment to
\* itself, still pending, and a tx_hash nobody else has booked or is booking.
\* The books rest on this.
TransactionsIsolated ==
    /\ \A v, w \in Workers : Open(v) /\ Open(w) /\ cur[v] = cur[w] => v = w
    /\ \A w \in Workers : Open(w) => status[cur[w]] = "pending"
    /\ \A w \in Workers : Inserted(w) => ledger[res[w]] = None
    /\ \A v, w \in Workers : Inserted(v) /\ Inserted(w) /\ res[v] = res[w] => v = w

\* A payment in the books is not pending, so it is not booked again.
CreditedIsClosed ==
    \A t \in Txs : ledger[t] # None => status[ledger[t]] \in {"confirmed", "failed"}

\* A payment is never booked twice, however many processes see however many
\* deposits to its address (the row lock and second status test, 73-75).
OneCreditPerPayment ==
    \A t, u \in Txs : ledger[t] # None /\ ledger[t] = ledger[u] => t = u

\* The webhook a merchant will get names the deposit in the books, and there is
\* one exactly for the payments in the books (76-91 commit together).
NoticeMatchesLedger ==
    \A p \in Payments, t \in Txs : notice[p] = t <=> ledger[t] = p

\* Only a reorganisation between the two RPC calls of get_confirmations gets a
\* deposit into the books that is not Required deep, whatever stale copies, pushes
\* and other reorganisations there are.
CreditIsSettledOrSlipped ==
    \A t \in Txs : ledger[t] # None => depth[t] = Required \/ t \in slipped

\* The deposit a payment shows, stored by a scan, a push or a stale copy, was
\* paid to that payment's own address; so was the one in the books.
ShownIsPaid ==
    /\ \A p \in Payments : txHash[p] # None => p \in Credits[txHash[p]]
    /\ \A t \in Txs : ledger[t] # None => ledger[t] \in Credits[t]

\* No payment is confirmed without a deposit in the books.
ConfirmedIsCredited ==
    \A p \in Payments : status[p] = "confirmed" => \E t \in Txs : ledger[t] = p

\* A payment that failed stays failed: no late confirmation revives it.
FailedIsFinal ==
    [][\A p \in Payments : status[p] = "failed" => status'[p] = "failed"]_status

\* A confirmed payment stays confirmed.
ConfirmedIsFinal ==
    [][\A p \in Payments : status[p] = "confirmed" => status'[p] = "confirmed"]_status

\* Redis calls a deposit processed only when it is in the books, or its
\* transaction is about to be committed (90).
ProcessedIsCredited ==
    \A t \in processed :
        ledger[t] # None \/ \E w \in Workers : pc[w] = "commit" /\ res[w] = t

\* A payment past its deadline does not stay pending.
ExpiredIsResolved ==
    \A p \in Payments : status[p] = "pending" /\ expired[p] ~> status[p] # "pending"

\* A payment with a stored deposit that is deep enough is confirmed, however
\* long the deadline leaves the processes to do it.
DeepDepositIsConfirmed ==
    \A p \in Payments, t \in Txs :
        status[p] = "pending" /\ txHash[p] = t /\ depth[t] = Required
            ~> status[p] = "confirmed" \/ expired[p]

\* The books keep the promise of CreditOnce, under every interleaving.
Books == INSTANCE CreditOnce WITH credit <- ledger, told <- notice
ImplementsCreditOnce == Books!Spec

\* What any number of processes keep of a payment's life: a late failure may
\* overrule a confirmation but never its credit, and only past the deadline.
Raced == INSTANCE RacedLifecycle WITH
    credit <- ledger,
    counted <- {t \in Txs : depth[t] = Required} \cup slipped
ImplementsRacedLifecycle == Raced!Spec

=============================================================================
