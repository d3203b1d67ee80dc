# Formal model of Gaxtron

TLA+ specifications of Gaxtron, a crypto payment gateway written in Django
(`src/dashboard`), with a static checkout page and an Android client. A merchant
creates a payment, gets a deposit address, and is told by a webhook when a
deposit to that address has enough confirmations. `README.md` and
`ARCHITECTURE.md` of the repository still describe an earlier FastAPI service;
the models follow `src/dashboard/merchants`.

All line numbers below are in `src/dashboard/merchants/` unless a path is given.

## 1. The system

### 1.1 Processes and shared state

Nothing in the service is a single process. Every one of these calls the same
`PaymentReconciler` and may do so at the same time:

| process | entry point | calls |
|---|---|---|
| `run_listener` worker, restarted when it dies | `management/commands/run_listener.py:38` | `run_batch()` every 5 s |
| Vercel cron | `cron_views.py:39` | `run_cron_cycle()` |
| checkout page, polling every 3 s | `payment_views.py:100` | `run_batch(payment_id)` |
| merchant's verify call | `payment_views.py:84` | `run_batch(payment_id)` |
| payment creation | `payment_views.py:63` | `run_batch(payment_id)` |
| Alchemy push | `alchemy_views.py:58` | one UPDATE, then `run_batch(payment_id)` |

They share PostgreSQL (autocommit except for two `atomic` blocks, READ COMMITTED)
and Redis, which may be absent: every call to it is in a `try` and answers
"not processed" when it fails. A process is an operating-system process or a
serverless invocation; what it read stays in its Python objects and is what it
acts on later. That is where nearly every hazard of this code comes from.

### 1.2 Components

| component | state | operations | what makes it correct |
|---|---|---|---|
| Reconciliation (`reconcile_service.py`, `payment_service.py`, `queue.py`) | `Payment.status/tx_hash/confirmations`, `Transaction` rows, `WebhookLog` rows, the Redis set of events | expire, check, store confirmations, finalise, fail | a deposit is booked once and for one payment; final statuses are final; the webhook names the booked deposit; a deep deposit gets confirmed |
| Push (`alchemy_views.py`) | none of its own | store a pushed hash, run a batch | whatever it is told, the books stay right |
| Deposit scan (`chains.py`, `payment_service.py:144`) | `Payment.last_scanned_block` | scan forward from the cursor, save it | the cursor passes a deposit only where a scan without a cursor or a reorganisation put it behind |
| Webhook delivery (`webhook_service.py`, `reconcile_service.py:117`) | `WebhookLog.status/attempts` | enqueue, select a window, POST, save | "delivered" is true, attempts are real, every webhook is settled |
| Payment creation (`payment_service.py:47`, `wallet_service.py`, `payment_views.py:32`) | `Payment`, `Wallet` rows | idempotent lookup, wallet, insert, link | one payment per key, wallets and payments pair off |
| API keys (`api_views.py:147-208`, `views.py:108`, `security.py:75`) | `ApiKey.is_active` | create, revoke, regenerate, present | how far overlapping creations pass the limit; a dead key stays dead; a replaced key has its successor |
| Accounts (`api_views.py:51-135`, `wallet_auth.py`, `admin.py:13`) | `WalletAuthNonce`, `GaxtronUser` | register, log in, nonce, verify, create user, suspend | tokens name complete users of their own; an owner who keeps trying gets in |
| Rate limiter (`rate_limit.py`) | Redis sorted sets, per-process lists | check | no more than the limit in a window, Redis refuses nobody for less |
| Checkout page (`static/js/checkout-page.js`) | shown phase, poll timer | poll, render, pay | an outcome gets to be shown, and none that is untrue |
| Market proxy (`markets_views.py`) | per-process cache | fetch, serve | what two workers serve is not further apart than an entry lives |
| Health (`health_service.py`, `system_views.py`, `chains.py:119`) | `EthereumService.last_error`, shared by threads | probe, retry, report | a reported error is of this request's time |
| URL validation (`url_validation.py`) | none | check a callback URL | in `PaymentCreation` |
| Android app (`src/android`) | session, saved API keys, screens | sign in/out, key management, polling | not modelled |
| Security primitives, serializers, pages, settings, scripts | none | pure functions and read-only pages | library calls and formats |

`PROJECT.json` lists the hazards of this code, each at the line where it bites,
with the properties that watch it.

## 2. The modules

| module | what it is |
|---|---|
| `Reconciliation` | the core: payments, books, notices, Redis and any number of processes |
| `CreditOnce` | abstract: a deposit is credited to one payment for good, a payment with one deposit, and the merchant is told in the same step |
| `RacedLifecycle` | abstract: what any number of processes keep of a payment's life: confirmed from pending, by a deposit of its own that may be counted deep enough; failed only past the deadline, then possibly over a confirmation, whose credit stays |
| `ReconciliationProof` | the theorems about `Reconciliation` |
| `Database`, `Processes` | what the modules that keep rows share: `None`; the processes that work in the background, and which of them are listener loops |
| `WebhookDelivery` | delivery windows of several processes over one table |
| `DepositScan` | one payment's cursor, a chain that reorganises and several scanning processes |
| `Background` | those two in one specification |
| `PaymentCreation` | overlapping and resent `POST /payments` |
| `CreateOnce` | abstract: a payment is made with its wallet in one step, a key makes one, a client is told once |
| `Checkout` | the page of one payment over `Reconciliation`: its polls reconcile the payment they ask for |
| `Accounts` | the users table, wallet nonces and every way into them |
| `MerchantApi` | `Accounts` and `PaymentCreation` in one specification |
| `Web` | the workers and the clock that the next four share |
| `ApiKeys`, `RateLimit`, `MarketCache`, `ChainHealth` | what the web server keeps between requests, besides payments and sign-in |
| `WebProcess` | those four in one specification |
| `WebhookProof`, `DepositScanProof`, `PaymentCreationProof`, `AccountsProof`, `RateLimitProof` | the theorems about the module each extends |
| `CheckoutProof` | the theorems about the page and the reconciler together; extends `ReconciliationProof` |
| `WebProof` | the theorems about `ApiKeys`, `MarketCache`, `ChainHealth` and `WebProcess` |
| `MC*` | instances for TLC: which payments, deposits, processes and requests there are |

Operators marked "Mutant" in a comment are not part of the specification. Each
stands before the definition it is a faulty version of and records which bug a
property is there to notice: with it in place, TLC finds that property violated.

`Background`, `MerchantApi` and `WebProcess` put parts together that share
processes, but no variable other than the clock. Their product adds no behaviour
to any part, so `load` picks one part in the initial state and the others stay
as they are: TLC then explores the sum of the parts and not their product. The
theorems about a part are stated of its own specification (`HooksSpec`,
`ScanSpec`, ...), and `WebProof` carries those of the web server over.

### 2.1 Reconciliation

One action is one SQL statement, one Redis command or one RPC result with the
Python around it. Every process `w` has a program counter and the locals of
`run_batch` and `_check_payment`; `seen[w]` is the copy of the rows its SELECT
returned.

| `pc[w]` | action | code |
|---|---|---|
| idle | `StartBatch`, `Push` | `reconcile_service.py:97`, `alchemy_views.py:58-77` |
| push | `StorePush` | `alchemy_views.py:83`, `payment_service.py:138` |
| expire | `ExpireStale` | `payment_service.py:105-110` |
| load | `Load` | `reconcile_service.py:101`, `106` |
| next | `FailStale`, `LookUp`, `ScanMiss`, `ScanHit`, `FinishBatch` | `reconcile_service.py:31-54`, `chains.py:175-179`, `240-264` |
| height, adrift | `CountBlocks` | `chains.py:180-187`, `reconcile_service.py:51-61` |
| write | `StoreConfirmations` | `payment_service.py:137-142` |
| processed, exists | `CheckProcessed`, `CheckLedger` | `reconcile_service.py:65-69` |
| lock | `LockPayment` | `reconcile_service.py:72-75` |
| insert | `InsertTransaction` | `reconcile_service.py:76-88` |
| mark | `MarkProcessed` | `reconcile_service.py:90` |
| commit | `Commit` | `reconcile_service.py:89-92`, end of `atomic` |

How the database is modelled:

* A row lock is a guard: `Locked(p)` says another process is between `LockPayment`
  and `Commit`, and every UPDATE of that row, conditional or not, waits for it.
* What an open transaction has written becomes visible in `Commit`. The unique
  index on `tx_hash` acts earlier: `InsertTransaction` waits for another open
  insertion of the hash and fails if it is committed.
* `DuplicatePaymentError` cannot be raised, since `LockPayment` looked at the
  same row's status, and so is not an action. `IntegrityError` can: `Raise`
  distinguishes the hash that came from a stored `tx_hash` (the `except` of
  `_check_payment` takes it) from one of a scan (it ends the batch).
* `Crash` may come at any step, `Rollback` at any step of the open transaction.
  Both roll back PostgreSQL and leave Redis.
* The batch is a set: the order of its payments is left open.

The chain is `depth[t]`: confirmations up to `Required`. A transaction can be
dropped by a reorganisation only before it is `Required` deep, which is what
that setting means. `get_confirmations` makes two RPC calls, each with retries:
`AskReceipt` is the first, part of the lookup or scan that leads to it, and
`CountBlocks` the second. While a process is at `height` it holds a receipt; if a
reorganisation drops that transaction now, the process is `adrift`: its receipt
names a block that is not the transaction's any more, and what it counts from it
may be anything up to `Required`. A node that lags or does not answer gives less,
down to 0. `slipped` is a history variable: the transactions that were dropped
under such a process. They can be booked with depth 0, and the properties say
that nothing else that is not deep enough can. `To[t]` is the deposit address a
scan sees in `tx["to"]`; `Credits[t]` also has those reached by internal
transfers, which only a push reports: one transaction may pay two payments.
Amounts appear only as "enough". Transaction hashes are compared as the pinned
`web3` 6.15.1 spells them (with `0x`, like Alchemy does).

### 2.2 WebhookDelivery

`Select` is the window (`FirstOpen(limit)`), `Skip`/`Try` is the loop body with
its three outcomes `Accept`, `Refuse`, `LoseAnswer`, and `Save` writes the copy
back. `tries` and `accepted` are what really happened, known only to the model.
The window is 15 rows after a batch and 25 after it in a cron cycle; the
instance has 2 and 3 over 3 rows. `WEBHOOK_RETRY_BASE_SECONDS` is not read by
the code, so there is no delay between tries. A listener only selects with the
first limit; other processes with either. A `poisoned` row is one whose delivery
raises something other than `httpx.HTTPError` at every try: a callback URL that
passes validation but `httpx` cannot build a request for, or an endpoint whose
answer has a NUL, which `log.save` cannot store. `Raise` then ends the window with
nothing saved, and so it does in every later one. `Abort` is the death of the
process.

### 2.3 DepositScan

One payment, because scans of different payments share nothing. `Scan` reads
`latest` from a node that may lag and compares the range with the deposit's
block; `SaveCursor` compares with the copy and writes without condition, as
`update_last_scanned_block` does. The scan goes up to the head, where blocks may
still be replaced, and the cursor is saved there. `Reorg` replaces the last
blocks, up to `MaxReorg` of them, and puts the payer's transaction into one of
the new ones or into none. Two history variables say which deposits this code
cannot find: `blind`, the highest block at which a scan without a cursor looked,
and `moved`, that a reorganisation put the deposit where it is (a later block that
is mined after all, `Block`, resets it). `LifeAssumption` says no payment outlives
the 500-block window (60 minutes is 300 blocks); with it the lookback floor never
passes a deposit. The USDT scan has the same range and is left out:
`create_payment` only makes ETH payments.

### 2.4 PaymentCreation

`find`, `wallet`, `insert`, `link` are the statements of `create_payment`; the
transaction becomes visible in `Commit`. `InsertPayment` treats the unique index
on `idempotency_key` as above. The index is over all merchants while the lookup
is per merchant, so a key another merchant uses fails the insert. A client whose
request failed or whose answer is lost sends it again with the same key.
`Fresh` gives out the least unused id: a real sequence would skip ids of rolled
back inserts, but no property compares ids with anything but each other.
`Validate` is the serializer and `validate_callback_url`, over forms with an
amount, a scheme, a host and the addresses it resolves to; the dashboard's form
goes without the serializer.

`CreateOnce` has no transactions: `Make` is what `Commit` shows to others,
`Tell` is `Answer`. A client whose answer was lost and that has no key may get a
second payment made (`Make` again), but no two requests without a key are ever
told of the same one.

### 2.5 Checkout

`Checkout` extends `Reconciliation` and adds the page: `Poll` is a tick of the
timer, `TakeUp` the worker that serves it (a pending payment is reconciled by
`StartBatch` first, `payment_views.py:100-111`), `Respond` its answer, `Render` the
page taking it up. `held[w]` is the phase of the row as the worker read it first:
`refresh_from_db` comes after `run_batch` in the same `try`, so when the batch
raises the old copy is answered; `Answered` leaves open which of the two it is.
`Submitted` is the end of the wait for the payer's wallet: "confirming" is shown
over whatever the page shows by then. Polls wait in `polls`, answers in the
set `answers`, from which they are taken in any order or lost. A worker that
serves a poll does nothing else before it has answered. The page knows nothing
of the order of answers: one that was delayed is shown over a newer one, also
after an outcome has cleared the timer. That is what `checkout-page.js:201-209`
does, so `told` (an outcome was shown at some time) is what `PageGetsOutcome` is
about, and not what is shown last. `OutcomesAreTrue` is about what is shown and
what is still on its way: "Paid" stands for a deposit in the books, which is all
that can be said, since the payment may be called failed afterwards (section
3.1); "Expired" stands for a payment that is failed for good.

### 2.6 Accounts

A handler's request is at `spend` (the nonce was read unused,
`api_views.py:108`), `find`, `name` (the loop over usernames), `create`, `link`
(the row is there, `wallet_address` is not), `answer`. Each is one statement and
commits on its own. `nonces[n] = "none"` is a row that is not there: a nonce that
nobody holds any more stands for the next random one. `AskNonce` deletes the
expired rows, which is why `Spend` may find its row gone; `SweepNonces` is the same
view called by somebody who does not go on to sign in.

A login is a wallet or an e-mail, and a user row records `by` whom it was made.
Anybody may register any e-mail, also the one that a wallet's first sign-in
makes up (`MailOf`): the code does not check that. Then `CreateUser` of that wallet
fails at every sign-in (`Squatted`). Passwords and signatures are right: the
wrong ones change nothing, and the random password of a wallet's user is kept by
nobody.

### 2.7 The web server

`ApiKeys`, `RateLimit`, `MarketCache` and `ChainHealth` share workers and clock.

* `ApiKeys`: `job[w]` is where a request is between two statements: `insert`
  after the count, `replace` and `retire` in regenerating, `owner` after
  `verify_api_key` has read its row. `revoked` and `old` are history. `Created`
  are active keys that were not made by regenerating: a regenerated key takes
  its predecessor's place, but if that one was inactive the new one is extra,
  and no limit is looked at (`api_views.py:195-202`). `CreationsWithinLimit`
  therefore bounds creations only.
* `RateLimit`: one identifier. `tried` is every decision. `Ping` reads the clock
  and finds Redis there, `Execute` is the MULTI/EXEC pipeline, `Remember` the
  fallback in this worker's memory. `expires` is Redis' EXPIRE on the whole set.
  Redis keeps its data while it is away (`docker-compose.yml` turns on
  append-only files).
* `MarketCache`: `fetch[w]` is the entry a worker is waiting for. The wait takes any
  time: the timeouts given to `httpx` are for each operation and do not bound the
  whole request, so how old data is when it arrives is not bounded. What can be
  said is how far the answers of different workers are apart (`WorkersAgree`).
* `ChainHealth`: `probe[t]` is a request of a thread, at its first or second RPC
  call or reading `last_error`; `view = "other"` is any endpoint that makes an
  RPC call. `failed` is history.

## 3. Runs

| run | instance | checks |
|---|---|---|
| `reconcile_concurrent` | 2 payments, 2 deposits, 2 symmetric web processes, `Required` 1, one fault; 4.4 M states | `TypeOK`, `TransactionsIsolated`, `OneCreditPerPayment`, `NoticeMatchesLedger`, `ShownIsPaid`, `FailedIsFinal`, `ImplementsCreditOnce`, `ImplementsRacedLifecycle` |
| `reconcile_live` | listener and web process, 1 payment, 1 deposit, `Required` 2, no faults; 20 k states | `ProcessedIsCredited`, `CreditIsSettledOrSlipped`, `ImplementsRacedLifecycle`, `ExpiredIsResolved`, `DeepDepositIsConfirmed` |
| `checkout` | the same with `Required` 1 and a page with up to 2 polls under way; 124 k states | `OutcomesAreTrue`, `PageGetsOutcome` |
| `background` | listener and another process; delivery: 3 rows, windows 2 and 3, 2 attempts, one row that raises, one death; scan: 5 blocks, window and life 3, lag 1, reorganisations of 2 blocks; 764 k states | `TypeOK`, `DeliveredWasAccepted`, `AttemptsAreReal`, `OldestAreSettled`; `NoDepositSkipped`, `DepositIsFound` |
| `merchant_api` | sign-in: 2 handlers, a wallet, its e-mail and another, 3 usernames, one nonce at a time, one crash; creation: 5 requests of 2 merchants, two with one key, one of the other merchant with that key, one without a key from the dashboard, one with choices of bad amounts and URLs that is always refused, one loss; 433 k states | `TypeOK`, `OrphansNeedACrash`, `TokensNameUsers`, `EveryWalletGetsIn`; `OnePaymentPerKey`, `AnswersAreTrue`, `WalletsPairOff`, `ImplementsCreateOnce`, `EveryClientIsServed` |
| `web_process` | 2 workers; keys: 2 owners, 4 ids, limit 1, one crash; limiter: limit 2 in 2 seconds, 5 requests, 4 seconds; cache: lifetimes 1 and 2; health: 3 threads, 3 attempts; 2.7 M states | `TypeOK`, `ReplacedHasSuccessor`, `CreationsWithinLimit`, `WithinLimit`, `WorkersAgree`, `NoStaleError`, `RevokedIsFinal`, `RefusedWereMany` |

Why these bounds are enough for the cases that matter: two processes are needed
for every race of the code, as each involves one stale copy and one writer; two
deposits to one payment and one deposit to two payments are the two ways the
uniqueness constraints can be asked for; one fault separates "before the mark",
"between mark and commit" and "after"; `Required` 1 lets a scan finalise at
once, `Required` 2 makes it store first. Symmetry is used only for the two web
processes of `reconcile_concurrent`, which has no liveness property. The first
deposit of that instance pays both payments, so the payments are not symmetric.
`Required` 2 in `reconcile_live` is also what leaves room for a reorganisation
between the two RPC calls: the instance reaches a deposit that is booked and has
been dropped. Its listener and its web worker are the two processes that may
each hold a stale copy while the other confirms or fails the payment.
In `background` two blocks may be replaced, one more than a node lags, so a scan
may have read either of two tips when they go. In `merchant_api` two handlers race
for one nonce, one new row and one username, the nonce may be deleted while a
handler uses it (`SweepNonces`), and the second e-mail may take the username the
wallet wants, the first one the wallet's own row. In `web_process` a limit of 1
and two workers reach the bound of `CreationsWithinLimit`, four seconds hold two
disjoint windows, and five requests are two more than the limit and a delayed
one. Three threads are one that reports, one that fails and one that succeeds in
between.

`CHECK_DEADLOCK FALSE` is set in `background.cfg` (the payment has been found or
has expired and the last block of the bound is reached) and `merchant_api.cfg`
(every payment request was answered). The reconciler can always start again, and
deadlock is checked there, which includes processes waiting for each other's row
locks and index entries.

### 3.1 Runs that find a disagreement

| run | what happens |
|---|---|
| `confirmed_is_final` | A reads the payment before the deadline; B does too and confirms it; the deadline passes; A tests `expires_at` on its copy and `fail_payment` writes `failed` over `confirmed` (`payment_service.py:131-133`). The Transaction row and the webhook stay. |
| `processed_lost` | A process is killed between `mark_event_processed` and COMMIT (`reconcile_service.py:90`). From then on every check returns at line 66; the payment expires with its deposit settled on the chain. |
| `webhooks_starved` | A webhook that used up its attempts stays `failed`, is selected first by every window and skipped (`reconcile_service.py:122-125`); the next row is never reached. With the real limit it takes 15 such rows, 25 for cron. |
| `scan_missed` | A deposit is mined before the first scan of its payment; the scan starts at the current block and the cursor is saved beyond the deposit (`chains.py:194-197`). |
| `locked_out` | Somebody registers `<address>@wallet.gaxtron`; the wallet's owner signs in, no user has its `wallet_address`, and `create_user` fails on the unique e-mail (`api_views.py:114-128`). The nonce is spent, and every later sign-in ends the same way. No handler dies and nobody is suspended. |
| `fail_closed` | Redis does not answer the ping; the request is counted in the worker's own memory and admitted (`rate_limit.py:55-61`), where `README.md:121` says that rate limits fail closed. |

The passing runs and the theorems say how far these go. `RacesKeepTheCredit`: a
confirmed payment fails only past its deadline, and keeps its credit.
`FailedIsFinal` and `BookedIsClosed`: the opposite overwrite does not exist, and a
booked payment never becomes pending again. `ProcessedUnlessFault`: before the
first crash or failed statement Redis marks nothing that is not being booked.
`OldestAreSettled`: starvation starts behind the first window or behind a row that
raises. `NoDepositSkipped`: only scans without a cursor and reorganisations put a
deposit behind the cursor. `EveryWalletGetsIn`: a wallet whose e-mail is not taken
and that no crash made an orphan gets in. `WithinLimit` and `RefusedWereMany`: what
Redis admits and refuses while it answers, and what each worker's memory admits.

What a confirmed row shows is not among the properties. With two processes
`update_pending_confirmations` (`payment_service.py:138`) writes the hash and the
count of a stale copy over a row that another process has confirmed, so a
confirmed payment may show fewer confirmations than were required, or another
deposit to its address than the one in the books. `ShownIsPaid` and
`NoticeMatchesLedger` are what remains true: the deposit it shows was paid to it,
and the books and the merchant's notice name one and the same.

## 4. Fairness

* `Continue(w)` is weakly fair: a request or batch that was started runs on. It
  has no fairness for `Crash`, `Push`, `Create`, or any payer's or block's step.
* The listener loop starts again five seconds after every batch, whatever it
  raised (`run_listener.py:38-45`), and its supervisor restarts the process: weak
  fairness of `StartBatch(l, Payments)`, and of `Select` and `Read` in the other
  modules. Web and cron processes have none.
* `GetsReceipt` and `GetsDepth` are strongly fair for a listener: a node that is
  asked again and again answers either call with what is on the chain at some
  time. Without that no design could confirm anything. `DepositScan` uses strong
  fairness of a listener's `Scan` with an up-to-date node and of its saves for the
  same reason.
* The clock has no fairness: `DeepDepositIsConfirmed` and `DepositIsFound` allow
  the deadline to pass first.
* In `PaymentCreation` clients resend until they are answered; that is an
  assumption about merchants' clients, and what `EveryClientIsServed` shows is that
  resending leads out of a lost race.
* `Accounts`: a request that was begun is served to its end, unless it crashes. An
  owner asks and sends again and again (strong fairness of `StartVerify`: the
  server is free again and again), and five minutes are enough every now and
  then (strong fairness of `Spend` with a nonce that is still good). Nothing is
  assumed of registrations, log-ins or the admin.
* `Checkout`: the page stays open and its timer ticks; every answer comes or is
  given up, one with an outcome is not lost for ever; other requests do not keep
  the server from every poll.
* `Background` and `MerchantApi` have the fairness of the part that `load` picks,
  spelled out action by action. Nothing is assumed of a delivery that raises: it
  is a step of `Deliver` like the others.

## 5. Proofs

`ReconciliationProof` proves, for any finite or infinite sets of payments,
deposits and processes, any `Required` and any number of faults, from the named
assumptions on the constants of `Reconciliation`:

1. `TypeCorrect`: `Spec => []TypeOK`.
2. `AlwaysConsistent`: the inductive invariant `Consistent` is the conjunction of
   `TypeOK`, `TransactionsIsolated`, `CreditedIsClosed`, `OneCreditPerPayment`,
   `NoticeMatchesLedger` and `ConfirmedIsCredited`. None of the last four is
   inductive alone. `Commit` must know that its payment has no booked deposit:
   the row it locked is still pending (`TransactionsIsolated`) and booked
   payments are not (`CreditedIsClosed`); that its deposit is not booked: it has
   passed the unique index and nobody else holds that hash
   (`TransactionsIsolated`); and that there is no older notice
   (`NoticeMatchesLedger`). Steps fall into three kinds: those that leave the
   books alone and open nothing (`QuietKeeps`), those that fail payments whose
   rows nobody has locked (`FailingKeeps`), and `Commit` (`CommitKeeps`).
3. `Isolation`, `BookedIsClosed`, `BookedOnce`, `NoticesAreTrue`,
   `ConfirmationsAreBacked`: its parts.
4. `FailureIsFinal`: `Spec => FailedIsFinal`, since only `Commit` confirms and the
   row it locked is pending.
5. `BooksKeepThePromise`: `Spec => ImplementsCreditOnce`, the refinement of
   `CreditOnce`: `Commit` is its `Credit`, every other step stutters.
6. `BookedIsSettled`: `Spec => []CreditIsSettledOrSlipped`, and `ShownWasPaid`:
   `Spec => []ShownIsPaid`, by `Provenance`. Its first half, `OwnDeposits`, follows a
   hash from the chain or a push into `tx_hash`, a process's copy, its result and
   the ledger, and says of each that it pays this payment. The second,
   `EnoughCounted`, says that a process whose count is `Required` has a deposit in
   `Counted`, those that are `Required` deep or slipped; that set only grows
   (`CountedStays`), since a deep one is not dropped and a process becomes `adrift`
   in the step that adds to `slipped`.
7. `ProcessedUnlessFault`: `Spec => [](faults = 0 => ProcessedIsCredited)`. The
   hypothesis is part of the invariant (`Remembered`): a step from a state with
   faults cannot lead to one without, `Commit` books what its process has
   marked, and `CheckLedger` marks only what it has just found booked.
8. `RacesKeepTheCredit`: `Spec => ImplementsRacedLifecycle`. `Commit` is `Confirm`,
   `ExpireStale` and `FailStale` are `Fail`, a `Mine` that makes a deposit
   `Required` deep and a `Reorg` that lets one slip are `MayCount`. For `FailStale`,
   which tests a copy, it takes `BatchExists`: a batch has rows only, and no step
   deletes one (`RowsStay`).

No theorem is restricted to one process, since no deployment has one.

`CheckoutProof`: a `TakeUp` that reconciles is a `StartBatch`, and every other step
of the page leaves the reconciler's variables alone, so `PageSpec => Spec`
(`PageIsServed`) and all of the above holds with the page (`PageKeepsTheBooks`).
`PayersAreToldTheTruth` (`PageSpec => []OutcomesAreTrue`): a phase is known when it is
shown, on its way, or in the copy a worker answers from (`Known`), and `KnownIsTrue`
says of all three what `OutcomesAreTrue` says of the first two. A phase comes to be
known only by reading the row (`KnownAnew`), credits stay (`CreditStays`, from the
refinement of `CreditOnce`) and failures do (`StepKeepsFailed`). The fairness in
`PageSpec` is not used.

`WebhookProof`: `DeliveryInv` adds to the two properties what ties a copy to
them: `hookCopy[w][l] <= tries[l]`, and strictly less while `w` is about to save a
try of `l`, which was accepted if the outcome says so. A stale save may lower
`attempts`, which is why they are bounded by the tries and not equal to them. A
delivery that raises may add to `accepted` and saves nothing.
Theorems `DeliveryTyped`, `DeliveriesAreTrue`, `AttemptsAreCounted`.

`DepositScanProof`: `ScanInv` says of the cursor, of every copy of it and of the
block every scan without a hit has reached that they are below a deposit that
nobody looked past without a cursor and no reorganisation moved. The step that
needs an argument is `Scan` (`ScanReaches`): the range starts at or below the
deposit, since the copy is below it and the lookback floor is below the creation
block of a payment that is not expired (`LifeAssumption`). A `Block` with the
deposit is above every block that was read, and a `Reorg` that leaves a deposit
unmoved leaves it where it was. Theorems `ScanTyped`, `CursorIsSafe`, for
reorganisations of any depth.

`PaymentCreationProof`: `CreationInv` is `CreationTypeOK`, `OnePaymentPerKey`, `Paired`
(wallets), `Reserved` (open transactions write rows of their own), `KeyHeld` (a
transaction past the unique index has its key to itself, among rows and open
transactions) and `Answered`. `KeyHeld` is what `Commit` needs for
`OnePaymentPerKey`. Theorems `CreationIsConsistent`, `CreationTyped`,
`KeysAreUnique`, `WalletsArePaired`, `AnswersAreKept`; they assume that every
request has a merchant (`UserAssumption`). `CreationHappensOnce`
(`CreationSpec => ImplementsCreateOnce`) needs one more fact, `Told`: a payment that a keyless
request has in its open answer, or was told of, no other request has. It is kept
because `FindExisting` finds rows with a key only, and because what anybody has
exists, so that it is not the id of a `Commit`. `Commit` is `Make` (its guard is
`KeyHeld`), `Answer` is `Tell`, and all else stutters. `Told` is about two accepted
requests without a key; the run has one, so that part rests on the theorem.

`AccountsProof`: `AccountsInv` is `AccountsTypeOK`, the two properties and `InStep`,
which says of a request at `link` that its row is there and its own, and of one at
`answer` that it is complete. Rows are never deleted, never change hands and only
gain (`RowsStay`), so `InStep` of the others survives every step. A registration
that takes a wallet's e-mail makes a row that is not the wallet's (`Owns`), which
is why `Found` of that wallet stays false and no token is given for it. Theorems
`AccountsTyped`, `TokensAreUsers`, `OrphansAreCrashes`; nothing is assumed of the
e-mails people register.

`WebProof`, on `ApiKeys`: for `ReplacedHasSuccessor`, `JobFits` says what `retire` holds. For
`CreationsWithinLimit` the invariant must count keys that are still to be
inserted: `RoomForAll` bounds `Created` and `Inserting` together. `Insert` moves
one from the second to the first; `Count` adds to the second, but at that moment
fewer than `Limit` keys are active and `Inserting` has no more members than there
are workers. Theorems `SuccessorsExist`, `CreationsAreLimited`,
`RevocationIsFinal`.

`RateLimitProof`: `Remembered` says that what was decided less than a window ago
is still in the set, which will not expire before, or in the memory that
admitted it. So a window that has not ended yet is counted in full (`Bounded`,
`t >= now`). Once it has ended, later requests may have dropped it from the set,
and only workers that read the clock before can still be admitted into it: each
uses up its place in `Delayed(t)`. Theorems `LimitHolds`, for any limit, window
and number of workers, and `RefusalsHold`.

`WebProof`, on the rest: `MarketInv` (data is stored when it arrives, not in the
future), `HealthInv` (a thread about to read an error knows that a call has failed
since it came), and `WebInv`, the four invariants together. Theorems
`MarketsAgree`, `ErrorsAreOfNow`, and for `WebProcess`, which the run checks,
`WebTyped`, `WebIsSafe`, `StepsAreSafe`.

Every invariant, action property and refinement that a passing run checks is
stated by a theorem; the `TypeOK` of `Background` and `MerchantApi` is the
conjunction of what `DeliveryTyped` and `ScanTyped`, `AccountsTyped` and
`CreationTyped` say. One holds under a condition, which is a hypothesis of the
theorem and a constant of the run: no fault so far for `ProcessedIsCredited`.
Only model-checked are the liveness properties (`ExpiredIsResolved`,
`DeepDepositIsConfirmed`, `PageGetsOutcome`, `OldestAreSettled`, `DepositIsFound`,
`EveryClientIsServed`, `EveryWalletGetsIn`): TLAPS has no rules for fairness.

## 6. Not modelled

* The Android app: a client of the modelled endpoints. What it keeps is a stored
  session; the order of its coroutines is the Android framework's.
* Cryptography (`security.py`: hashing, Fernet, JWT, HMAC), DNS and the chain's own
  rules are trusted. The deposit addresses' keys are never used by the code.
* The dashboard's read-only pages, serializers of answers, templates, settings,
  deployment files and scripts keep no state that the properties are about. The
  admin's change forms can set any column and delete any row; no property could
  hold of those, so of the admin only the suspensions are modelled.
* The USDT scan is not reached, since `create_payment` only makes ETH payments.
  `register_address` tells Alchemy an address and keeps nothing.
  `enqueue_payment_check` is never called and the list `enqueue_webhook` pushes
  to is never read, so Redis is the set of processed events and the limiter's.
* Amounts of deposits appear as enough or not. The threshold is 99 % through a
  float (`chains.py:246-249`), which is 0 wei for a tiny amount.
* `MarketCache` has one request at a time in a worker, as under gunicorn's sync
  workers.

Known and left without a property, because no definition of the code or its
documents says otherwise or because one run shows enough:

* a payment whose stored transaction was dropped by a reorganisation is never
  scanned again;
* a checkout answer that was delayed is shown over a newer one;
* regenerating an inactive key is not limited (`api_views.py:195-202`);
* what a confirmed row shows after a stale copy was written over it (section 3.1);
* how old market data is when it arrives.

## 7. Plan

Done: the reconciler with its abstractions and the checkout page over it,
delivery, scan, creation, accounts and the web server's parts, each with its
runs and proofs.

Left: delivery over the books (that what a merchant accepts is a deposit in the
ledger, across both modules), and a model of the Android client's pay screen over
`Checkout`.
