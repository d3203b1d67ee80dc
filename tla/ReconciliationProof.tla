------------------------ MODULE ReconciliationProof ------------------------
(***************************************************************************)
(* Reconciliation, proved for every set of payments, deposits and          *)
(* processes, every confirmation threshold and every number of faults:     *)
(* typing, the isolation of _finalize_payment's transactions, the books    *)
(* and where what is in them came from, the finality of a failed payment,  *)
(* and the refinements of CreditOnce and RacedLifecycle.                   *)
(***************************************************************************)
EXTENDS Reconciliation, TLAPS

USE NoneAssumption, ListenersAssumption, RequiredAssumption, ToAssumption,
    CreditsAssumption, MaxFaultsAssumption

-----------------------------------------------------------------------------
(* What the control helpers do to the local state.                         *)

\* Return empties w's locals well-typed and leaves the other processes alone.
LEMMA ReturnTyped ==
    ASSUME TypeOK, NEW w \in Workers, Return(w)
    PROVE  /\ pc' = [pc EXCEPT ![w] = "next"]
           /\ pc' \in [Workers -> Steps]
           /\ todo' = todo /\ seen' = seen
           /\ cur' \in [Workers -> Payments \cup {None}]
           /\ res' \in [Workers -> Txs \cup {None}]
           /\ got' \in [Workers -> 0 .. Required]
           /\ \A v \in Workers : v # w => cur'[v] = cur[v] /\ res'[v] = res[v]
BY DEF TypeOK, Return, Goto, Steps

\* So does Leave, which empties the batch too.
LEMMA LeaveTyped ==
    ASSUME TypeOK, NEW w \in Workers, Leave(w)
    PROVE  /\ pc' = [pc EXCEPT ![w] = "idle"]
           /\ pc' \in [Workers -> Steps]
           /\ todo' \in [Workers -> SUBSET Payments]
           /\ seen' \in [Workers -> [Payments -> Txs \cup {None}]]
           /\ cur' \in [Workers -> Payments \cup {None}]
           /\ res' \in [Workers -> Txs \cup {None}]
           /\ got' \in [Workers -> 0 .. Required]
           /\ \A v \in Workers : v # w => cur'[v] = cur[v] /\ res'[v] = res[v]
BY DEF TypeOK, Leave, Goto, Steps, NoRows

(* Both leave a process outside its transaction and keep the others'       *)
(* locals; the conjunction of what their callers need.                     *)
LEMMA Typed ==
    ASSUME TypeOK, NEW w \in Workers, Return(w) \/ Leave(w) \/ Raise(w)
    PROVE  /\ pc' \in [Workers -> Steps]
           /\ todo' \in [Workers -> SUBSET Payments]
           /\ seen' \in [Workers -> [Payments -> Txs \cup {None}]]
           /\ cur' \in [Workers -> Payments \cup {None}]
           /\ res' \in [Workers -> Txs \cup {None}]
           /\ got' \in [Workers -> 0 .. Required]
           /\ pc'[w] \in {"next", "idle"}
           /\ \A v \in Workers : v # w => pc'[v] = pc[v] /\ cur'[v] = cur[v] /\ res'[v] = res[v]
<1>1. CASE Return(w)
  BY <1>1, ReturnTyped DEF TypeOK
<1>2. CASE Leave(w)
  BY <1>2, LeaveTyped DEF TypeOK
<1>3. QED
  BY <1>1, <1>2 DEF Raise

-----------------------------------------------------------------------------
(* Type correctness                                                        *)

\* The initial state is well typed.
LEMMA InitTyped == Init => TypeOK
BY DEF Init, TypeOK, Status, Steps, NoRows

\* Asking for a receipt binds a payment and its deposit.
LEMMA AskTyped ==
    ASSUME TypeOK, NEW w \in Workers, NEW p \in Payments, NEW t \in Txs, AskReceipt(w, p, t)
    PROVE  TypeOK'
<1>1. /\ pc' \in [Workers -> Steps] /\ todo' \in [Workers -> SUBSET Payments]
      /\ cur' \in [Workers -> Payments \cup {None}] /\ res' \in [Workers -> Txs \cup {None}]
  BY DEF TypeOK, AskReceipt, Drop, Goto, Steps
<1>2. /\ cur'[w] = p /\ res'[w] = t
      /\ \A v \in Workers : v # w => pc'[v] = pc[v] /\ cur'[v] = cur[v] /\ res'[v] = res[v]
  <2>1. /\ cur' = [cur EXCEPT ![w] = p] /\ res' = [res EXCEPT ![w] = t]
        /\ \A v \in Workers : v # w => pc'[v] = pc[v]
    BY DEF TypeOK, AskReceipt, Goto
  <2>2. cur \in [Workers -> Payments \cup {None}] /\ res \in [Workers -> Txs \cup {None}]
    BY DEF TypeOK
  <2> QED BY <2>1, <2>2
<1> QED BY <1>1, <1>2 DEF TypeOK, AskReceipt, db, world

\* Every step of the reconciler and of its environment keeps the types.
LEMMA StepTyped == TypeOK /\ [Next]_vars => TypeOK'
<1> SUFFICES ASSUME TypeOK, [Next]_vars PROVE TypeOK'
  OBVIOUS
<1>1. ASSUME NEW p \in Payments, Create(p) PROVE TypeOK'
  BY <1>1 DEF TypeOK, Create, Status, world, local
<1>2. ASSUME NEW p \in Payments, Expire(p) PROVE TypeOK'
  BY <1>2 DEF TypeOK, Expire, db, local
<1>3. ASSUME NEW t \in Txs, Mine(t) PROVE TypeOK'
  <2>1. depth' \in [Txs -> 0 .. Required]
    BY <1>3 DEF TypeOK, Mine
  <2> QED BY <1>3, <2>1 DEF TypeOK, Mine, db, local
<1>4. ASSUME NEW t \in Txs, Reorg(t) PROVE TypeOK'
  <2>1. depth' \in [Txs -> 0 .. Required] /\ slipped' \in SUBSET Txs
    BY <1>4 DEF TypeOK, Reorg
  <2>2. pc' \in [Workers -> Steps]
    BY <1>4 DEF TypeOK, Reorg, Steps
  <2>3. \A v \in Workers : pc'[v] \in {pc[v], "adrift"} /\ (pc'[v] # pc[v] => pc[v] = "height")
    BY <1>4 DEF TypeOK, Reorg, HasReceipt
  <2> QED BY <1>4, <2>1, <2>2, <2>3 DEF TypeOK, Reorg, db
<1>5. ASSUME NEW w \in Workers, NEW ps \in SUBSET Payments, StartBatch(w, ps) PROVE TypeOK'
  BY <1>5 DEF TypeOK, StartBatch, Goto, Steps, db, world
<1>6. ASSUME NEW w \in Workers, ExpireStale(w) PROVE TypeOK'
  BY <1>6 DEF TypeOK, ExpireStale, Goto, Steps, Status, world
<1>7. ASSUME NEW w \in Workers, Load(w) PROVE TypeOK'
  BY <1>7 DEF TypeOK, Load, Goto, Steps, db, world
<1>8. ASSUME NEW w \in Workers, FinishBatch(w) PROVE TypeOK'
  BY <1>8, Typed DEF TypeOK, FinishBatch, db, world
<1>9. ASSUME NEW w \in Workers, NEW p \in Payments, FailStale(w, p) PROVE TypeOK'
  BY <1>9 DEF TypeOK, FailStale, Drop, Status, world
<1>10. ASSUME NEW w \in Workers, NEW p \in Payments, LookUp(w, p) PROVE TypeOK'
  BY <1>10, AskTyped DEF TypeOK, LookUp
<1>11. ASSUME NEW w \in Workers, NEW p \in Payments, ScanMiss(w, p) PROVE TypeOK'
  BY <1>11 DEF TypeOK, ScanMiss, Drop, db, world
<1>12. ASSUME NEW w \in Workers, NEW p \in Payments, NEW t \in Txs, ScanHit(w, p, t)
       PROVE  TypeOK'
  BY <1>12, AskTyped DEF ScanHit
<1>13. ASSUME NEW w \in Workers, StoreConfirmations(w) PROVE TypeOK'
  <2>1. /\ txHash' \in [Payments -> Txs \cup {None}]
        /\ confs' \in [Payments -> 0 .. Required]
        /\ UNCHANGED <<status, ledger, notice, expired, depth, processed, slipped, faults>>
    BY <1>13 DEF TypeOK, StoreConfirmations, world
  <2>2. CASE got[w] < Required
    BY <1>13, <2>1, <2>2, Typed DEF TypeOK, StoreConfirmations
  <2>3. CASE ~(got[w] < Required)
    <3>1. /\ pc[w] = "write" /\ pc' = [pc EXCEPT ![w] = "processed"]
          /\ UNCHANGED <<todo, seen, cur, res, got>>
      BY <1>13, <2>3 DEF StoreConfirmations, Goto
    <3> QED BY <2>1, <3>1 DEF TypeOK, Steps
  <2> QED BY <2>2, <2>3
<1>14. ASSUME NEW w \in Workers, CheckProcessed(w) PROVE TypeOK'
  <2>1. CASE Return(w)
    BY <1>14, <2>1, Typed DEF TypeOK, CheckProcessed, db, world
  <2>2. CASE ~Return(w)
    BY <1>14, <2>2 DEF TypeOK, CheckProcessed, Goto, Steps, db, world
  <2> QED BY <2>1, <2>2
<1>15. ASSUME NEW w \in Workers, CheckLedger(w) PROVE TypeOK'
  <2>0. res[w] \in Txs
    BY <1>15 DEF TypeOK, CheckLedger
  <2>1. processed' \in SUBSET Txs
    BY <1>15, <2>0 DEF TypeOK, CheckLedger, MarkEvent
  <2>2. CASE Return(w)
    BY <1>15, <2>1, <2>2, Typed DEF TypeOK, CheckLedger, db
  <2>3. CASE ~Return(w)
    BY <1>15, <2>1, <2>3 DEF TypeOK, CheckLedger, Goto, Steps, db
  <2> QED BY <2>2, <2>3
<1>16. ASSUME NEW w \in Workers, LockPayment(w) PROVE TypeOK'
  <2>1. CASE Return(w)
    BY <1>16, <2>1, Typed DEF TypeOK, LockPayment, db, world
  <2>2. CASE ~Return(w)
    BY <1>16, <2>2 DEF TypeOK, LockPayment, Goto, Steps, db, world
  <2> QED BY <2>1, <2>2
<1>17. ASSUME NEW w \in Workers, InsertTransaction(w) PROVE TypeOK'
  <2>1. CASE Raise(w)
    BY <1>17, <2>1, Typed DEF TypeOK, InsertTransaction, db, world
  <2>2. CASE ~Raise(w)
    BY <1>17, <2>2 DEF TypeOK, InsertTransaction, Goto, Steps, db, world
  <2> QED BY <2>1, <2>2
<1>18. ASSUME NEW w \in Workers, MarkProcessed(w) PROVE TypeOK'
  BY <1>18 DEF TypeOK, MarkProcessed, MarkEvent, Goto, Steps, db
<1>19. ASSUME NEW w \in Workers, Commit(w) PROVE TypeOK'
  <2>1. cur[w] \in Payments /\ res[w] \in Txs
    BY <1>19 DEF TypeOK, Commit
  <2>2. /\ status' \in [Payments -> Status]
        /\ txHash' \in [Payments -> Txs \cup {None}]
        /\ confs' \in [Payments -> 0 .. Required]
        /\ ledger' \in [Txs -> Payments \cup {None}]
        /\ notice' \in [Payments -> Txs \cup {None}]
    BY <1>19, <2>1 DEF TypeOK, Commit, Status
  <2> QED BY <1>19, <2>2, Typed DEF TypeOK, Commit, world
<1>20. ASSUME NEW w \in Workers, NEW t \in Txs, NEW p \in Payments, Push(w, t, p) PROVE TypeOK'
  BY <1>20 DEF TypeOK, Push, Goto, Steps, db, world
<1>21. ASSUME NEW w \in Workers, StorePush(w) PROVE TypeOK'
  <2>1. cur[w] \in Payments /\ res[w] \in Txs
    BY <1>21 DEF TypeOK, StorePush
  <2>2. /\ txHash' \in [Payments -> Txs \cup {None}]
        /\ confs' \in [Payments -> 0 .. Required]
        /\ todo' \in [Workers -> SUBSET Payments]
        /\ cur' \in [Workers -> Payments \cup {None}]
        /\ res' \in [Workers -> Txs \cup {None}]
        /\ pc' = [pc EXCEPT ![w] = "expire"]
        /\ \A v \in Workers : v # w => cur'[v] = cur[v] /\ res'[v] = res[v]
    BY <1>21, <2>1 DEF TypeOK, StorePush, Goto
  <2> QED BY <1>21, <2>2 DEF TypeOK, StorePush, Steps, world
<1>22. ASSUME NEW w \in Workers, Crash(w) PROVE TypeOK'
  <2>1. faults' \in 0 .. MaxFaults
    BY <1>22 DEF TypeOK, Crash
  <2>2. Leave(w)
    BY <1>22 DEF Crash
  <2> QED BY <1>22, <2>1, <2>2, Typed DEF TypeOK, Crash, db
<1>23. ASSUME NEW w \in Workers, Rollback(w) PROVE TypeOK'
  <2>1. faults' \in 0 .. MaxFaults
    BY <1>23 DEF TypeOK, Rollback
  <2>2. Raise(w)
    BY <1>23 DEF Rollback
  <2> QED BY <1>23, <2>1, <2>2, Typed DEF TypeOK, Rollback, db
<1>24. ASSUME NEW w \in Workers, NEW c \in 0 .. Required, CountBlocks(w, c) PROVE TypeOK'
  BY <1>24 DEF TypeOK, CountBlocks, Goto, Steps, db, world
<1>25. CASE UNCHANGED vars
  BY <1>25 DEF TypeOK, vars, db, world, local
<1> QED
  BY <1>1, <1>2, <1>3, <1>4, <1>5, <1>6, <1>7, <1>8, <1>9, <1>10, <1>11, <1>12, <1>13, <1>14,
     <1>15, <1>16, <1>17, <1>18, <1>19, <1>20, <1>21, <1>22, <1>23, <1>24,
     <1>25
  DEF Next, Environment, Begin, Sweep, Asked, Pushed, Continue

\* Every variable keeps its type.
THEOREM TypeCorrect == Spec => []TypeOK
BY InitTyped, StepTyped, PTL DEF Spec

-----------------------------------------------------------------------------
(* The books.  None of the invariants below is inductive alone: a COMMIT   *)
(* keeps the books right because its payment is still pending and its      *)
(* tx_hash is unused, which holds because no other process can be in an    *)
(* open transaction on the same row or with the same hash.                 *)

Consistent ==
    /\ TypeOK
    /\ TransactionsIsolated
    /\ CreditedIsClosed
    /\ OneCreditPerPayment
    /\ NoticeMatchesLedger
    /\ ConfirmedIsCredited

\* With empty tables and idle processes everything fits together.
LEMMA InitConsistent == Init => Consistent
BY InitTyped DEF Init, Consistent, TransactionsIsolated, CreditedIsClosed, OneCreditPerPayment,
   NoticeMatchesLedger, ConfirmedIsCredited, Open, Inserted, NoRows

(* A step that leaves the books alone and opens no transaction.            *)
Quiet ==
    /\ UNCHANGED <<status, ledger, notice>>
    /\ \A v \in Workers : /\ Open(v)' => Open(v) /\ cur'[v] = cur[v] /\ res'[v] = res[v]
                          /\ Inserted(v)' => Inserted(v)

\* A step that changes no status, ledger or notice, and opens no transaction,
\* keeps the tables and the processes consistent.
LEMMA QuietKeeps ==
    ASSUME Consistent, TypeOK', Quiet
    PROVE  Consistent'
<1>1. TransactionsIsolated'
  BY DEF Consistent, TransactionsIsolated, Quiet, Open, Inserted
<1>2. (CreditedIsClosed /\ OneCreditPerPayment /\ NoticeMatchesLedger /\ ConfirmedIsCredited)'
  BY DEF Consistent, Quiet, CreditedIsClosed, OneCreditPerPayment, NoticeMatchesLedger,
         ConfirmedIsCredited
<1> QED BY <1>1, <1>2 DEF Consistent

(* A process that moves to a step outside its transaction.                 *)
LEMMA MoveIsQuiet ==
    ASSUME TypeOK, NEW w \in Workers,
           UNCHANGED <<status, ledger, notice>>,
           pc'[w] \notin {"insert", "mark", "commit"},
           \A v \in Workers : v # w => pc'[v] = pc[v] /\ cur'[v] = cur[v] /\ res'[v] = res[v]
    PROVE  Quiet
BY DEF Quiet, Open, Inserted

(* fail_payment and expire_stale_payments: pending or failed rows fail,    *)
(* but so may confirmed ones; nobody holds their locks.                    *)
LEMMA FailingKeeps ==
    ASSUME Consistent, TypeOK', NEW ps \in SUBSET Payments,
           \A p \in ps : ~Locked(p) /\ status'[p] = "failed",
           \A p \in Payments \ ps : status'[p] = status[p],
           UNCHANGED <<ledger, notice, cur, res>>,
           \A v \in Workers : (Open(v)' <=> Open(v)) /\ (Inserted(v)' <=> Inserted(v))
    PROVE  Consistent'
<1>1. TransactionsIsolated'
  <2>1. ASSUME NEW w \in Workers, Open(w) PROVE status'[cur[w]] = "pending"
    <3>1. cur[w] \in Payments /\ status[cur[w]] = "pending"
      BY <2>1 DEF Consistent, TypeOK, TransactionsIsolated, Open
    <3>2. cur[w] \notin ps
      BY <2>1 DEF Locked
    <3> QED BY <3>1, <3>2
  <2> QED BY <2>1 DEF Consistent, TransactionsIsolated
<1>2. CreditedIsClosed'
  BY DEF Consistent, TypeOK, CreditedIsClosed
<1>3. ConfirmedIsCredited'
  BY DEF Consistent, TypeOK, ConfirmedIsCredited
<1>4. OneCreditPerPayment' /\ NoticeMatchesLedger'
  BY DEF Consistent, OneCreditPerPayment, NoticeMatchesLedger
<1> QED BY <1>1, <1>2, <1>3, <1>4 DEF Consistent

\* COMMIT of _finalize_payment books a deposit nobody booked for a payment that
\* had none, so the tables fit together after it.
LEMMA CommitKeeps ==
    ASSUME Consistent, TypeOK', NEW w \in Workers, Commit(w)
    PROVE  Consistent'
<1> DEFINE p == cur[w]
           t == res[w]
<1>1. p \in Payments /\ t \in Txs
  BY DEF Consistent, TypeOK, Commit
<1>2. Open(w) /\ Inserted(w) /\ status[p] = "pending" /\ ledger[t] = None
  BY DEF Consistent, TransactionsIsolated, Commit, Open, Inserted
<1>3. \A u \in Txs : ledger[u] # p
  BY <1>1, <1>2 DEF Consistent, TypeOK, CreditedIsClosed
<1>4. notice[p] = None
  BY <1>1, <1>3 DEF Consistent, TypeOK, NoticeMatchesLedger
<1>5. /\ status' = [status EXCEPT ![p] = "confirmed"]
      /\ ledger' = [ledger EXCEPT ![t] = p]
      /\ notice' = [notice EXCEPT ![p] = t]
  BY <1>1, <1>4 DEF Consistent, TypeOK, Commit
<1>6. /\ ~Open(w)' /\ ~Inserted(w)'
      /\ \A v \in Workers : v # w => /\ pc'[v] = pc[v] /\ cur'[v] = cur[v] /\ res'[v] = res[v]
  BY Typed DEF Commit, Consistent, Open, Inserted
<1>7. TransactionsIsolated'
  <2>1. \A v \in Workers : Open(v)' => v # w /\ Open(v) /\ cur[v] # p
    BY <1>2, <1>6 DEF Consistent, TransactionsIsolated, Open
  <2>2. \A v \in Workers : Inserted(v)' => v # w /\ Inserted(v) /\ res[v] # t
    BY <1>2, <1>6 DEF Consistent, TransactionsIsolated, Inserted
  <2>3. \A v \in Workers : Open(v)' => status'[cur'[v]] = "pending"
    BY <1>5, <1>6, <2>1 DEF Consistent, TypeOK, TransactionsIsolated
  <2>4. \A v \in Workers : Inserted(v)' => ledger'[res'[v]] = None
    BY <1>5, <1>6, <2>2 DEF Consistent, TypeOK, TransactionsIsolated
  <2> QED BY <1>6, <2>1, <2>2, <2>3, <2>4 DEF Consistent, TransactionsIsolated
<1>8. CreditedIsClosed'
  BY <1>1, <1>5 DEF Consistent, TypeOK, CreditedIsClosed
<1>9. OneCreditPerPayment'
  BY <1>1, <1>3, <1>5 DEF Consistent, TypeOK, OneCreditPerPayment
<1>10. NoticeMatchesLedger'
  BY <1>1, <1>2, <1>3, <1>4, <1>5 DEF Consistent, TypeOK, NoticeMatchesLedger
<1>11. ConfirmedIsCredited'
  <2>1. ASSUME NEW q \in Payments, status'[q] = "confirmed"
        PROVE  \E u \in Txs : ledger'[u] = q
    <3>1. CASE q = p
      BY <1>1, <1>5, <3>1 DEF Consistent, TypeOK
    <3>2. CASE q # p
      <4>1. PICK u \in Txs : ledger[u] = q
        BY <1>5, <2>1, <3>2 DEF Consistent, TypeOK, ConfirmedIsCredited
      <4>2. u # t
        BY <1>2, <4>1
      <4> QED BY <1>5, <4>1, <4>2 DEF Consistent, TypeOK
    <3> QED BY <3>1, <3>2
  <2> QED BY <2>1 DEF ConfirmedIsCredited
<1> QED BY <1>7, <1>8, <1>9, <1>10, <1>11 DEF Consistent

\* Every step keeps the inductive invariant.
LEMMA StepConsistent == Consistent /\ [Next]_vars => Consistent'
<1> SUFFICES ASSUME Consistent, [Next]_vars PROVE Consistent'
  OBVIOUS
<1>1. TypeOK /\ TypeOK'
  BY StepTyped DEF Consistent
<1>2. ASSUME NEW p \in Payments, Create(p) PROVE Consistent'
  <2>1. /\ status' = [status EXCEPT ![p] = "pending"] /\ status[p] = "absent"
        /\ UNCHANGED <<ledger, notice, pc, cur, res>>
    BY <1>2 DEF Create, local
  <2>2. TransactionsIsolated'
    BY <1>1, <2>1 DEF Consistent, TypeOK, TransactionsIsolated, Open, Inserted
  <2>3. CreditedIsClosed' /\ OneCreditPerPayment' /\ NoticeMatchesLedger' /\ ConfirmedIsCredited'
    BY <1>1, <2>1 DEF Consistent, TypeOK, CreditedIsClosed, OneCreditPerPayment,
       NoticeMatchesLedger, ConfirmedIsCredited
  <2> QED BY <1>1, <2>2, <2>3 DEF Consistent
<1>3. ASSUME NEW p \in Payments, Expire(p) PROVE Consistent'
  BY <1>1, <1>3, QuietKeeps DEF Expire, db, local, Quiet, Open, Inserted
<1>4. ASSUME NEW t \in Txs, Mine(t) \/ Reorg(t) PROVE Consistent'
  <2>1. UNCHANGED <<db, cur, res>> /\ \A v \in Workers : pc'[v] \in {pc[v], "adrift"}
    BY <1>1, <1>4 DEF TypeOK, Mine, Reorg, local
  <2> QED BY <1>1, <2>1, QuietKeeps DEF db, Quiet, Open, Inserted
<1>5. ASSUME NEW w \in Workers, NEW ps \in SUBSET Payments, StartBatch(w, ps) PROVE Consistent'
  BY <1>1, <1>5, MoveIsQuiet, QuietKeeps DEF StartBatch, Goto, TypeOK, db
<1>6. ASSUME NEW w \in Workers, ExpireStale(w) PROVE Consistent'
  <2> DEFINE stale == {p \in Payments : status[p] = "pending" /\ IsExpired(p)}
  <2>1. /\ \A p \in stale : ~Locked(p) /\ status'[p] = "failed"
        /\ \A p \in Payments \ stale : status'[p] = status[p]
        /\ UNCHANGED <<ledger, notice, cur, res>>
    BY <1>6 DEF ExpireStale
  <2>2. \A v \in Workers : (Open(v)' <=> Open(v)) /\ (Inserted(v)' <=> Inserted(v))
    BY <1>1, <1>6 DEF ExpireStale, Goto, TypeOK, Open, Inserted
  <2>3. stale \in SUBSET Payments
    OBVIOUS
  <2> QED BY <1>1, <2>1, <2>2, <2>3, FailingKeeps
<1>7. ASSUME NEW w \in Workers, Load(w) PROVE Consistent'
  BY <1>1, <1>7, MoveIsQuiet, QuietKeeps DEF Load, Goto, TypeOK, db
<1>8. ASSUME NEW w \in Workers, FinishBatch(w) PROVE Consistent'
  BY <1>1, <1>8, Typed, MoveIsQuiet, QuietKeeps DEF FinishBatch, db
<1>9. ASSUME NEW w \in Workers, NEW p \in Payments, FailStale(w, p) PROVE Consistent'
  <2>1. /\ ~Locked(p) /\ status' = [status EXCEPT ![p] = "failed"]
        /\ UNCHANGED <<ledger, notice, pc, cur, res>>
    BY <1>9 DEF FailStale
  <2>2. \A q \in {p} : ~Locked(q) /\ status'[q] = "failed"
    BY <1>1, <2>1 DEF TypeOK
  <2>3. \A q \in Payments \ {p} : status'[q] = status[q]
    BY <1>1, <2>1 DEF TypeOK
  <2>4. \A v \in Workers : (Open(v)' <=> Open(v)) /\ (Inserted(v)' <=> Inserted(v))
    BY <2>1 DEF Open, Inserted
  <2>5. {p} \in SUBSET Payments
    OBVIOUS
  <2> QED BY <1>1, <2>1, <2>2, <2>3, <2>4, <2>5, FailingKeeps
<1>10. ASSUME NEW w \in Workers, NEW p \in Payments, NEW t \in Txs, AskReceipt(w, p, t)
       PROVE  Consistent'
  BY <1>1, <1>10, MoveIsQuiet, QuietKeeps DEF AskReceipt, Goto, TypeOK, db
<1>11. ASSUME NEW w \in Workers, NEW p \in Payments, ScanMiss(w, p) PROVE Consistent'
  BY <1>1, <1>11, MoveIsQuiet, QuietKeeps DEF ScanMiss, TypeOK, db
<1>12. ASSUME NEW w \in Workers, NEW c \in 0 .. Required, CountBlocks(w, c) PROVE Consistent'
  BY <1>1, <1>12, MoveIsQuiet, QuietKeeps DEF CountBlocks, Goto, TypeOK, db
<1>13. ASSUME NEW w \in Workers, StoreConfirmations(w) PROVE Consistent'
  <2>1. CASE Return(w)
    BY <1>1, <1>13, <2>1, Typed, MoveIsQuiet, QuietKeeps DEF StoreConfirmations
  <2>2. CASE ~Return(w)
    <3>1. /\ pc' = [pc EXCEPT ![w] = "processed"]
          /\ UNCHANGED <<status, ledger, notice, cur, res>>
      BY <1>13, <2>2 DEF StoreConfirmations, Goto
    <3> QED BY <1>1, <3>1, MoveIsQuiet, QuietKeeps DEF TypeOK
  <2> QED BY <2>1, <2>2
<1>14. ASSUME NEW w \in Workers, CheckProcessed(w) PROVE Consistent'
  <2>1. CASE Return(w)
    BY <1>1, <1>14, <2>1, Typed, MoveIsQuiet, QuietKeeps DEF CheckProcessed, db
  <2>2. CASE ~Return(w)
    BY <1>1, <1>14, <2>2, MoveIsQuiet, QuietKeeps DEF CheckProcessed, Goto, TypeOK, db
  <2> QED BY <2>1, <2>2
<1>15. ASSUME NEW w \in Workers, CheckLedger(w) PROVE Consistent'
  <2>1. CASE Return(w)
    BY <1>1, <1>15, <2>1, Typed, MoveIsQuiet, QuietKeeps DEF CheckLedger, db
  <2>2. CASE ~Return(w)
    BY <1>1, <1>15, <2>2, MoveIsQuiet, QuietKeeps DEF CheckLedger, Goto, TypeOK, db
  <2> QED BY <2>1, <2>2
<1>16. ASSUME NEW w \in Workers, LockPayment(w) PROVE Consistent'
  <2>1. CASE Return(w)
    BY <1>1, <1>16, <2>1, Typed, MoveIsQuiet, QuietKeeps DEF LockPayment, db
  <2>2. CASE ~Return(w)
    <3>1. /\ ~Locked(cur[w]) /\ status[cur[w]] = "pending"
          /\ pc' = [pc EXCEPT ![w] = "insert"]
          /\ UNCHANGED <<status, ledger, notice, cur, res>>
      BY <1>16, <2>2 DEF LockPayment, Goto, db
    <3>2. \A v \in Workers : Open(v)' => v = w \/ (Open(v) /\ cur[v] # cur[w])
      BY <1>1, <3>1 DEF TypeOK, Open, Locked
    <3>3. \A v \in Workers : Inserted(v)' => Inserted(v)
      BY <1>1, <3>1 DEF TypeOK, Inserted
    <3>4. TransactionsIsolated'
      BY <3>1, <3>2, <3>3 DEF Consistent, TransactionsIsolated
    <3>5. CreditedIsClosed' /\ OneCreditPerPayment' /\ NoticeMatchesLedger' /\ ConfirmedIsCredited'
      BY <3>1 DEF Consistent, CreditedIsClosed, OneCreditPerPayment, NoticeMatchesLedger,
         ConfirmedIsCredited
    <3> QED BY <1>1, <3>4, <3>5 DEF Consistent
  <2> QED BY <2>1, <2>2
<1>17. ASSUME NEW w \in Workers, InsertTransaction(w) PROVE Consistent'
  <2>1. CASE Raise(w)
    BY <1>1, <1>17, <2>1, Typed, MoveIsQuiet, QuietKeeps DEF InsertTransaction, db
  <2>2. CASE ~Raise(w)
    <3>1. /\ pc[w] = "insert" /\ pc' = [pc EXCEPT ![w] = "mark"]
          /\ ledger[res[w]] = None
          /\ \A v \in Workers : ~(Inserted(v) /\ res[v] = res[w])
          /\ UNCHANGED <<status, ledger, notice, cur, res>>
      BY <1>17, <2>2 DEF InsertTransaction, Goto, db
    <3>2. \A v \in Workers : Open(v)' <=> Open(v)
      BY <1>1, <3>1 DEF TypeOK, Open
    <3>3. \A v \in Workers : Inserted(v)' => v = w \/ (Inserted(v) /\ res[v] # res[w])
      BY <1>1, <3>1 DEF TypeOK, Inserted
    <3>4. TransactionsIsolated'
      BY <3>1, <3>2, <3>3 DEF Consistent, TransactionsIsolated
    <3>5. CreditedIsClosed' /\ OneCreditPerPayment' /\ NoticeMatchesLedger' /\ ConfirmedIsCredited'
      BY <3>1 DEF Consistent, CreditedIsClosed, OneCreditPerPayment, NoticeMatchesLedger,
         ConfirmedIsCredited
    <3> QED BY <1>1, <3>4, <3>5 DEF Consistent
  <2> QED BY <2>1, <2>2
<1>18. ASSUME NEW w \in Workers, MarkProcessed(w) PROVE Consistent'
  BY <1>1, <1>18, QuietKeeps DEF MarkProcessed, Goto, TypeOK, Quiet, Open, Inserted, db
<1>19. ASSUME NEW w \in Workers, Commit(w) PROVE Consistent'
  BY <1>1, <1>19, CommitKeeps
<1>20. ASSUME NEW w \in Workers, NEW t \in Txs, NEW p \in Payments, Push(w, t, p)
       PROVE  Consistent'
  BY <1>1, <1>20, MoveIsQuiet, QuietKeeps DEF Push, Goto, TypeOK, db
<1>21. ASSUME NEW w \in Workers, StorePush(w) PROVE Consistent'
  BY <1>1, <1>21, MoveIsQuiet, QuietKeeps DEF StorePush, Goto, TypeOK
<1>22. ASSUME NEW w \in Workers, Crash(w) \/ Rollback(w) PROVE Consistent'
  <2>1. Leave(w) \/ Raise(w)
    BY <1>22 DEF Crash, Rollback
  <2>2. UNCHANGED <<status, ledger, notice>>
    BY <1>22 DEF Crash, Rollback, db
  <2> QED BY <1>1, <2>1, <2>2, Typed, MoveIsQuiet, QuietKeeps
<1>23. CASE UNCHANGED vars
  BY <1>1, <1>23, QuietKeeps DEF vars, db, world, local, Quiet, Open, Inserted
<1>24. ASSUME NEW w \in Workers, NEW p \in Payments, LookUp(w, p) PROVE Consistent'
  BY <1>1, <1>10, <1>24 DEF LookUp, TypeOK
<1>25. ASSUME NEW w \in Workers, NEW p \in Payments, NEW t \in Txs, ScanHit(w, p, t) PROVE Consistent'
  BY <1>10, <1>25 DEF ScanHit
<1> QED
  BY <1>2, <1>3, <1>4, <1>5, <1>6, <1>7, <1>8, <1>9, <1>10, <1>11, <1>12, <1>13, <1>14, <1>15,
     <1>16, <1>17, <1>18, <1>19, <1>20, <1>21, <1>22, <1>23, <1>24, <1>25
  DEF Next, Environment, Begin, Sweep, Asked, Pushed, Continue

\* The inductive invariant: statuses, ledger, notices and the open transactions
\* of _finalize_payment fit together in every reachable state.
THEOREM AlwaysConsistent == Spec => []Consistent
BY InitConsistent, StepConsistent, PTL DEF Spec

\* Open transactions are isolated: own pending row, own unused tx_hash.
THEOREM Isolation == Spec => []TransactionsIsolated
BY AlwaysConsistent, PTL DEF Consistent

\* A payment in the books is not pending any more.
THEOREM BookedIsClosed == Spec => []CreditedIsClosed
BY AlwaysConsistent, PTL DEF Consistent

\* No payment is booked twice.
THEOREM BookedOnce == Spec => []OneCreditPerPayment
BY AlwaysConsistent, PTL DEF Consistent

\* The merchant's notice names exactly the deposit in the books.
THEOREM NoticesAreTrue == Spec => []NoticeMatchesLedger
BY AlwaysConsistent, PTL DEF Consistent

\* No payment is confirmed without a deposit in the books.
THEOREM ConfirmationsAreBacked == Spec => []ConfirmedIsCredited
BY AlwaysConsistent, PTL DEF Consistent

-----------------------------------------------------------------------------
(* Only a COMMIT confirms, and it does so to a pending row.                *)

\* No step takes a payment out of failed: COMMIT alone confirms, and the row it
\* locked is pending.
LEMMA StepKeepsFailed ==
    ASSUME Consistent, [Next]_vars, NEW p \in Payments, status[p] = "failed"
    PROVE  status'[p] = "failed"
<1>1. TypeOK
  BY DEF Consistent
<1>2. ASSUME NEW q \in Payments, Create(q) PROVE status'[p] = "failed"
  BY <1>1, <1>2 DEF Create, TypeOK
<1>3. ASSUME NEW w \in Workers, ExpireStale(w) PROVE status'[p] = "failed"
  BY <1>3 DEF ExpireStale
<1>4. ASSUME NEW w \in Workers, NEW q \in Payments, FailStale(w, q) PROVE status'[p] = "failed"
  BY <1>1, <1>4 DEF FailStale, TypeOK
<1>5. ASSUME NEW w \in Workers, Commit(w) PROVE status'[p] = "failed"
  <2>1. status[cur[w]] = "pending"
    BY <1>5 DEF Consistent, TransactionsIsolated, Commit, Open
  <2> QED BY <1>1, <1>5, <2>1 DEF Commit, TypeOK
<1>6. CASE UNCHANGED status
  BY <1>6
<1> QED
  BY <1>2, <1>3, <1>4, <1>5, <1>6
  DEF Next, Environment, Begin, Sweep, Asked, Pushed, Continue, vars, db, Expire, Mine, Reorg,
      StartBatch, Load,
      FinishBatch, LookUp, ScanMiss, ScanHit, AskReceipt, CountBlocks, StoreConfirmations,
      CheckProcessed, CheckLedger,
      LockPayment, InsertTransaction, MarkProcessed, Push, StorePush, Crash, Rollback

\* A payment that failed stays failed.
THEOREM FailureIsFinal == Spec => FailedIsFinal
<1>1. Consistent /\ [Next]_vars
        => [\A p \in Payments : status[p] = "failed" => status'[p] = "failed"]_status
  BY StepKeepsFailed
<1> QED BY <1>1, AlwaysConsistent, PTL DEF Spec, FailedIsFinal

-----------------------------------------------------------------------------
(* Reconciliation implements CreditOnce: COMMIT is Credit, the rest        *)
(* stutters.                                                               *)

\* COMMIT is CreditOnce's Credit; all other steps leave ledger and notices as
\* they are.
LEMMA StepCreditsOnce ==
    ASSUME Consistent, [Next]_vars
    PROVE  [Books!Next]_<<ledger, notice>>
<1>1. ASSUME NEW w \in Workers, Commit(w) PROVE Books!Next
  <2> DEFINE p == cur[w]
             t == res[w]
  <2>1. p \in Payments /\ t \in Txs
    BY <1>1 DEF Consistent, TypeOK, Commit
  <2>2. status[p] = "pending" /\ ledger[t] = None
    BY <1>1 DEF Consistent, TransactionsIsolated, Commit, Open, Inserted
  <2>3. \A u \in Txs : ledger[u] # p
    BY <2>1, <2>2 DEF Consistent, TypeOK, CreditedIsClosed
  <2>4. notice[p] = None
    BY <2>1, <2>3 DEF Consistent, TypeOK, NoticeMatchesLedger
  <2>5. ledger' = [ledger EXCEPT ![t] = p] /\ notice' = [notice EXCEPT ![p] = t]
    BY <1>1, <2>1, <2>4 DEF Consistent, TypeOK, Commit
  <2>6. Books!Credit(p, t)
    BY <2>2, <2>3, <2>5 DEF Books!Credit
  <2> QED BY <2>1, <2>6 DEF Books!Next
<1>2. CASE UNCHANGED <<ledger, notice>>
  BY <1>2
<1> QED
  BY <1>1, <1>2
  DEF Next, Environment, Begin, Sweep, Asked, Pushed, Continue, vars, db, Create, Expire, Mine,
      Reorg, StartBatch,
      ExpireStale, Load, FinishBatch, FailStale, LookUp, ScanMiss, ScanHit, AskReceipt, CountBlocks,
      StoreConfirmations,
      CheckProcessed, CheckLedger, LockPayment, InsertTransaction, MarkProcessed, Push, StorePush,
      Crash, Rollback

\* The books keep the abstract promise under every interleaving and fault.
THEOREM BooksKeepThePromise == Spec => ImplementsCreditOnce
<1>1. Init => Books!Init
  BY DEF Init, Books!Init, NoRows
<1>2. Consistent /\ [Next]_vars => [Books!Next]_Books!vars
  BY StepCreditsOnce DEF Books!vars
<1> QED BY <1>1, <1>2, AlwaysConsistent, PTL DEF Spec, ImplementsCreditOnce, Books!Spec

-----------------------------------------------------------------------------
(* Where a tx_hash comes from.  Every copy of one, in a row or in a        *)
(* process, belongs to a transaction that pays the payment it is kept for, *)
(* and a process in _finalize_payment has counted enough confirmations of  *)
(* it, which no reorganisation takes back unless it came in between the    *)
(* two calls.                                                              *)

Counted == {t \in Txs : depth[t] = Required} \cup slipped

OwnDeposits ==
    /\ ShownIsPaid
    /\ \A w \in Workers, p \in Payments : seen[w][p] # None => p \in Credits[seen[w][p]]
    /\ \A w \in Workers : res[w] # None => cur[w] \in Credits[res[w]]

EnoughCounted ==
    /\ \A w \in Workers : pc[w] = "adrift" => res[w] \in slipped
    /\ \A w \in Workers : res[w] # None /\ got[w] = Required => res[w] \in Counted
    /\ \A w \in Workers :
          pc[w] \in {"idle", "push", "expire", "load", "next", "height", "adrift"} => got[w] = 0
    /\ \A w \in Workers : pc[w] \in {"processed", "exists", "lock", "insert", "mark", "commit"}
                            => got[w] = Required
    /\ \A t \in Txs : ledger[t] # None => t \in Counted

Provenance == OwnDeposits /\ EnoughCounted

\* Nothing is known of any deposit at the start.
LEMMA InitProvenance == Init => Provenance
BY DEF Init, Provenance, OwnDeposits, EnoughCounted, ShownIsPaid, NoRows

\* What may be counted as confirmed often enough stays so.
LEMMA CountedStays == ASSUME TypeOK, [Next]_vars PROVE Counted \subseteq Counted'
<1>1. ASSUME NEW t \in Txs, Mine(t) \/ Reorg(t) PROVE Counted \subseteq Counted'
  <2>1. depth[t] # Required /\ depth' = [depth EXCEPT ![t] = depth'[t]] /\ slipped \subseteq slipped'
    BY <1>1 DEF TypeOK, Mine, Reorg
  <2> QED BY <2>1 DEF TypeOK, Counted
<1>2. CASE UNCHANGED <<depth, slipped>>
  BY <1>2 DEF Counted
<1> QED
  BY <1>1, <1>2
  DEF Next, Environment, Begin, Sweep, Asked, Pushed, Continue, vars, world, Create, Expire, StartBatch,
      ExpireStale, Load, FinishBatch, FailStale, LookUp, ScanMiss, ScanHit, AskReceipt, CountBlocks,
      StoreConfirmations, CheckProcessed, CheckLedger, LockPayment, InsertTransaction, MarkProcessed,
      Commit, Push, StorePush, Crash, Rollback

\* A process that empties its locals, by Return or by Leave, claims nothing.
LEMMA ResetProvenance ==
    ASSUME TypeOK, Provenance, Counted \subseteq Counted',
           NEW w \in Workers, Return(w) \/ Leave(w) \/ Raise(w),
           UNCHANGED <<txHash, ledger, slipped>>
    PROVE  Provenance'
<1> USE DEF TypeOK, Provenance, OwnDeposits, EnoughCounted, ShownIsPaid
<1>1. CASE Return(w)
  BY <1>1 DEF Return, Goto
<1>2. CASE Leave(w)
  BY <1>2 DEF Leave, Goto, NoRows
<1> QED BY <1>1, <1>2 DEF Raise

\* Every step keeps what the tables and the processes say of deposits true.
LEMMA StepProvenance == TypeOK /\ Provenance /\ [Next]_vars => Provenance'
<1> SUFFICES ASSUME TypeOK, Provenance, [Next]_vars PROVE Provenance'
  OBVIOUS
<1>0. Counted \subseteq Counted'
  BY CountedStays
<1> USE DEF Provenance, OwnDeposits, EnoughCounted, ShownIsPaid
<1>1. ASSUME NEW p \in Payments, Create(p) \/ Expire(p) PROVE Provenance'
  BY <1>0, <1>1 DEF Create, Expire, db, world, local
<1>2. ASSUME NEW t \in Txs, Mine(t) PROVE Provenance'
  BY <1>0, <1>2 DEF Mine, db, local
<1>3. ASSUME NEW t \in Txs, Reorg(t) PROVE Provenance'
  <2>1. /\ \A v \in Workers : \/ pc'[v] = pc[v]
                              \/ pc[v] = "height" /\ pc'[v] = "adrift" /\ res[v] = t /\ t \in slipped'
        /\ slipped \subseteq slipped'
        /\ UNCHANGED <<db, todo, seen, cur, res, got>>
    BY <1>3 DEF TypeOK, Reorg, HasReceipt
  <2> QED BY <1>0, <2>1 DEF db
<1>4. ASSUME NEW w \in Workers, NEW ps \in SUBSET Payments, StartBatch(w, ps) PROVE Provenance'
  BY <1>0, <1>4 DEF StartBatch, Goto, TypeOK, db, world
<1>5. ASSUME NEW w \in Workers, ExpireStale(w) PROVE Provenance'
  BY <1>0, <1>5 DEF ExpireStale, Goto, TypeOK, world
<1>6. ASSUME NEW w \in Workers, Load(w) PROVE Provenance'
  <2>1. \A v \in Workers, p \in Payments : seen'[v][p] \in {seen[v][p], txHash[p], None}
    BY <1>6 DEF Load, TypeOK
  <2>2. /\ pc' = [pc EXCEPT ![w] = "next"] /\ pc[w] = "load"
        /\ UNCHANGED <<txHash, ledger, slipped, cur, res, got>>
    BY <1>6 DEF Load, Goto, db, world
  <2> QED BY <1>0, <2>1, <2>2 DEF TypeOK
<1>7. ASSUME NEW w \in Workers, FinishBatch(w) \/ Crash(w) \/ Rollback(w) PROVE Provenance'
  BY <1>0, <1>7, ResetProvenance DEF FinishBatch, Crash, Rollback, db, world
<1>8. ASSUME NEW w \in Workers, NEW p \in Payments, FailStale(w, p) \/ ScanMiss(w, p)
      PROVE  Provenance'
  BY <1>0, <1>8 DEF FailStale, ScanMiss, db, world
<1>9. ASSUME NEW w \in Workers, NEW p \in Payments, NEW t \in Txs, AskReceipt(w, p, t),
             pc[w] = "next", p \in Credits[t]
      PROVE  Provenance'
  <2>1. /\ cur' = [cur EXCEPT ![w] = p] /\ res' = [res EXCEPT ![w] = t]
        /\ \/ pc' = [pc EXCEPT ![w] = "height"]
           \/ pc' = [pc EXCEPT ![w] = "write"]
        /\ UNCHANGED <<txHash, ledger, slipped, seen, got>>
    BY <1>9 DEF AskReceipt, Goto, db, world
  <2> QED BY <1>0, <1>9, <2>1 DEF TypeOK
<1>10. ASSUME NEW w \in Workers, NEW p \in Payments, LookUp(w, p) PROVE Provenance'
  BY <1>9, <1>10 DEF LookUp, TypeOK
<1>11. ASSUME NEW w \in Workers, NEW p \in Payments, NEW t \in Txs, ScanHit(w, p, t)
       PROVE  Provenance'
  BY <1>9, <1>11 DEF ScanHit
<1>12. ASSUME NEW w \in Workers, NEW c \in 0 .. Required, CountBlocks(w, c) PROVE Provenance'
  <2>1. c = Required => res[w] \in Counted
    <3>1. CASE pc[w] = "adrift"
      BY <3>1 DEF Counted
    <3>2. CASE pc[w] # "adrift"
      <4>1. res[w] \in Txs /\ depth[res[w]] \in 0 .. Required /\ c \in 0 .. depth[res[w]]
        BY <1>12, <3>2 DEF CountBlocks, Counts, TypeOK
      <4> QED BY <4>1 DEF Counted
    <3> QED BY <3>1, <3>2
  <2>2. /\ got' = [got EXCEPT ![w] = c]
        /\ \/ pc' = [pc EXCEPT ![w] = "write"]
           \/ c = Required /\ pc' = [pc EXCEPT ![w] = "processed"]
        /\ UNCHANGED <<txHash, ledger, slipped, seen, cur, res>>
    BY <1>12 DEF CountBlocks, Goto, db, world
  <2> QED BY <1>0, <2>1, <2>2 DEF TypeOK
<1>13. ASSUME NEW w \in Workers, StoreConfirmations(w) PROVE Provenance'
  <2>1. ShownIsPaid' /\ UNCHANGED slipped
    BY <1>13 DEF StoreConfirmations, TypeOK, world
  <2>2. CASE got[w] < Required
    <3>1. /\ pc' = [pc EXCEPT ![w] = "next"] /\ cur' = [cur EXCEPT ![w] = None]
          /\ res' = [res EXCEPT ![w] = None] /\ got' = [got EXCEPT ![w] = 0]
          /\ UNCHANGED <<ledger, seen>>
      BY <1>13, <2>2 DEF StoreConfirmations, Return, Goto
    <3> QED BY <1>0, <2>1, <3>1 DEF TypeOK
  <2>3. CASE got[w] = Required
    <3>1. /\ pc' = [pc EXCEPT ![w] = "processed"]
          /\ UNCHANGED <<ledger, seen, cur, res, got>>
      BY <1>13, <2>3 DEF StoreConfirmations, Goto
    <3> QED BY <1>0, <2>1, <2>3, <3>1 DEF TypeOK
  <2>4. got[w] \in 0 .. Required
    BY DEF TypeOK
  <2> QED BY <2>2, <2>3, <2>4
<1>14. ASSUME NEW w \in Workers,
              CheckProcessed(w) \/ CheckLedger(w) \/ LockPayment(w) \/ InsertTransaction(w)
                \/ MarkProcessed(w)
       PROVE  Provenance'
  <2>1. UNCHANGED <<txHash, ledger, slipped>>
    BY <1>14 DEF CheckProcessed, CheckLedger, LockPayment, InsertTransaction, MarkProcessed, db,
       world
  <2>2. CASE Return(w) \/ Raise(w)
    BY <1>0, <2>1, <2>2, ResetProvenance
  <2>3. CASE ~(Return(w) \/ Raise(w))
    <3>1. /\ pc[w] \in {"processed", "exists", "lock", "insert", "mark"}
          /\ pc'[w] \in {"exists", "lock", "insert", "mark", "commit"}
          /\ \A v \in Workers : v # w => pc'[v] = pc[v]
          /\ UNCHANGED <<seen, cur, res, got>>
      BY <1>14, <2>3 DEF CheckProcessed, CheckLedger, LockPayment, InsertTransaction,
         MarkProcessed, Goto, TypeOK
    <3> QED BY <1>0, <2>1, <3>1 DEF TypeOK
  <2> QED BY <2>2, <2>3
<1>15. ASSUME NEW w \in Workers, Commit(w) PROVE Provenance'
  <2> DEFINE p == cur[w]
             t == res[w]
  <2>1. p \in Payments /\ t \in Txs /\ p \in Credits[t] /\ t \in Counted
    BY <1>15 DEF Commit, TypeOK
  <2>2. /\ ledger' = [ledger EXCEPT ![t] = p] /\ txHash' = [txHash EXCEPT ![p] = t]
        /\ UNCHANGED slipped /\ Return(w)
    BY <1>15 DEF Commit, world
  <2>3. ShownIsPaid' /\ \A u \in Txs : ledger'[u] # None => u \in Counted'
    BY <1>0, <2>1, <2>2 DEF TypeOK
  <2>4. /\ pc' = [pc EXCEPT ![w] = "next"] /\ cur' = [cur EXCEPT ![w] = None]
        /\ res' = [res EXCEPT ![w] = None] /\ got' = [got EXCEPT ![w] = 0]
        /\ UNCHANGED seen
    BY <2>2 DEF Return, Goto
  <2> QED BY <1>0, <2>2, <2>3, <2>4 DEF TypeOK
<1>16. ASSUME NEW w \in Workers, NEW t \in Txs, NEW p \in Payments, Push(w, t, p)
       PROVE  Provenance'
  BY <1>0, <1>16 DEF Push, Goto, TypeOK, db, world
<1>17. ASSUME NEW w \in Workers, StorePush(w) PROVE Provenance'
  <2>1. ShownIsPaid'
    BY <1>17 DEF StorePush, TypeOK
  <2>2. /\ pc[w] = "push" /\ pc' = [pc EXCEPT ![w] = "expire"]
        /\ cur' = [cur EXCEPT ![w] = None] /\ res' = [res EXCEPT ![w] = None]
        /\ UNCHANGED <<ledger, slipped, seen, got>>
    BY <1>17 DEF StorePush, Goto, world
  <2> QED BY <1>0, <2>1, <2>2 DEF TypeOK
<1>18. CASE UNCHANGED vars
  BY <1>0, <1>18 DEF vars, db, world, local
<1> QED
  BY <1>1, <1>2, <1>3, <1>4, <1>5, <1>6, <1>7, <1>8, <1>10, <1>11, <1>12, <1>13, <1>14, <1>15,
     <1>16, <1>17, <1>18
  DEF Next, Environment, Begin, Sweep, Asked, Pushed, Continue

\* Provenance is an invariant.
LEMMA AlwaysProvenance == Spec => []Provenance
BY InitTyped, InitProvenance, StepProvenance, TypeCorrect, PTL DEF Spec

\* Only a reorganisation between the two calls of get_confirmations gets a deposit
\* into the books that is not Required deep.
THEOREM BookedIsSettled == Spec => []CreditIsSettledOrSlipped
<1>1. Provenance => CreditIsSettledOrSlipped
  BY DEF Provenance, EnoughCounted, Counted, CreditIsSettledOrSlipped
<1> QED BY <1>1, AlwaysProvenance, PTL

\* Whatever stale copies write, what a payment shows and what is booked for it was
\* paid to its own address.
THEOREM ShownWasPaid == Spec => []ShownIsPaid
<1>1. Provenance => ShownIsPaid
  BY DEF Provenance, OwnDeposits
<1> QED BY <1>1, AlwaysProvenance, PTL

-----------------------------------------------------------------------------
(* What Redis remembers.  A fault between MarkProcessed and COMMIT makes   *)
(* ProcessedIsCredited false for good; nothing else does.                  *)

Remembered == faults = 0 => ProcessedIsCredited

\* As long as nothing has failed, a step keeps what Redis says of the books true.
LEMMA StepRemembered == TypeOK /\ Remembered /\ [Next]_vars => Remembered'
<1> SUFFICES ASSUME TypeOK, Remembered, [Next]_vars, faults' = 0 PROVE ProcessedIsCredited'
  BY DEF Remembered
<1>1. ASSUME NEW w \in Workers, Crash(w) \/ Rollback(w) PROVE FALSE
  BY <1>1 DEF Crash, Rollback, TypeOK
<1>2. faults = 0 /\ ProcessedIsCredited
  <2>1. UNCHANGED faults
    BY <1>1 DEF Next, Environment, Begin, Sweep, Asked, Pushed, Continue, vars, world, Create, Expire,
       Mine, Reorg, StartBatch, ExpireStale, Load, FinishBatch, FailStale, LookUp, ScanMiss, ScanHit,
       AskReceipt, CountBlocks, StoreConfirmations, CheckProcessed, CheckLedger, LockPayment,
       InsertTransaction, MarkProcessed,
       Commit, Push, StorePush
  <2> QED BY <2>1 DEF Remembered
<1>3. ASSUME NEW w \in Workers, Commit(w) PROVE ProcessedIsCredited'
  <2>1. /\ cur[w] \in Payments /\ res[w] \in Txs
        /\ ledger' = [ledger EXCEPT ![res[w]] = cur[w]] /\ UNCHANGED processed
        /\ pc[w] = "commit" /\ Return(w)
    BY <1>3 DEF TypeOK, Commit, world
  <2>2. \A v \in Workers : v # w => pc'[v] = pc[v] /\ res'[v] = res[v]
    BY <2>1, Typed
  <2> QED BY <1>2, <2>1, <2>2 DEF TypeOK, ProcessedIsCredited
<1>4. ASSUME NEW w \in Workers, MarkProcessed(w) PROVE ProcessedIsCredited'
  <2>1. /\ processed' \in SUBSET (processed \cup {res[w]})
        /\ pc'[w] = "commit" /\ UNCHANGED <<ledger, res>>
        /\ \A v \in Workers : v # w => pc'[v] = pc[v]
    BY <1>4 DEF TypeOK, MarkProcessed, MarkEvent, Goto, db
  <2> QED BY <1>2, <2>1 DEF ProcessedIsCredited
<1>5. ASSUME NEW w \in Workers, CheckLedger(w) PROVE ProcessedIsCredited'
  <2>1. /\ \A t \in processed' : t \in processed \/ ledger[t] # None
        /\ UNCHANGED ledger
        /\ \A v \in Workers : pc[v] = "commit" => pc'[v] = "commit" /\ res'[v] = res[v]
    BY <1>5 DEF TypeOK, CheckLedger, MarkEvent, Return, Goto, db
  <2> QED BY <1>2, <2>1 DEF TypeOK, ProcessedIsCredited
<1>6. ASSUME UNCHANGED <<ledger, processed>>,
             \A v \in Workers : pc[v] = "commit" => pc'[v] = "commit" /\ res'[v] = res[v]
      PROVE  ProcessedIsCredited'
  BY <1>2, <1>6 DEF TypeOK, ProcessedIsCredited
<1>7. ASSUME NEW p \in Payments, Create(p) \/ Expire(p) PROVE ProcessedIsCredited'
  BY <1>6, <1>7 DEF Create, Expire, db, world, local
<1>8. ASSUME NEW t \in Txs, Mine(t) \/ Reorg(t) PROVE ProcessedIsCredited'
  BY <1>6, <1>8 DEF Mine, Reorg, HasReceipt, TypeOK, db, local
<1>9. ASSUME NEW w \in Workers,
             \/ Sweep(w) \/ Asked(w) \/ ExpireStale(w) \/ Load(w)
             \/ \E p \in Payments : FailStale(w, p) \/ ScanMiss(w, p)
      PROVE  ProcessedIsCredited'
  BY <1>6, <1>9 DEF Sweep, Asked, StartBatch, ExpireStale, Load, FailStale, ScanMiss, Goto, TypeOK,
     db, world
<1>10. ASSUME NEW w \in Workers, FinishBatch(w) \/ StoreConfirmations(w) \/ StorePush(w)
       PROVE  ProcessedIsCredited'
  BY <1>6, <1>10 DEF FinishBatch, Leave, StoreConfirmations, StorePush, Return, Goto, TypeOK, db, world
<1>11. ASSUME NEW w \in Workers, NEW p \in Payments, NEW t \in Txs, ScanHit(w, p, t) \/ Push(w, t, p)
       PROVE  ProcessedIsCredited'
  BY <1>6, <1>11 DEF ScanHit, AskReceipt, Push, Goto, TypeOK, db, world
<1>12. ASSUME NEW w \in Workers, CheckProcessed(w) \/ LockPayment(w) \/ InsertTransaction(w)
       PROVE  ProcessedIsCredited'
  BY <1>6, <1>12 DEF CheckProcessed, LockPayment, InsertTransaction, Raise, Return, Leave, Goto,
     TypeOK, db, world
<1>13. CASE UNCHANGED vars
  BY <1>6, <1>13 DEF vars, db, world, local
<1>14. ASSUME NEW w \in Workers, NEW p \in Payments, LookUp(w, p) PROVE ProcessedIsCredited'
  BY <1>6, <1>14 DEF LookUp, AskReceipt, Goto, TypeOK, db, world
<1>15. ASSUME NEW w \in Workers, NEW c \in 0 .. Required, CountBlocks(w, c)
       PROVE  ProcessedIsCredited'
  BY <1>6, <1>15 DEF CountBlocks, Goto, TypeOK, db, world
<1> QED
  BY <1>1, <1>3, <1>4, <1>5, <1>7, <1>8, <1>9, <1>10, <1>11, <1>12, <1>13, <1>14, <1>15
  DEF Next, Environment, Begin, Pushed, Continue

\* Redis names a deposit that is not in the books only after a crash or a failed
\* statement, whatever the processes do.
THEOREM ProcessedUnlessFault == Spec => [](faults = 0 => ProcessedIsCredited)
<1>1. Init => Remembered
  BY DEF Init, Remembered, ProcessedIsCredited
<1> QED BY <1>1, StepRemembered, TypeCorrect, PTL DEF Spec, Remembered

-----------------------------------------------------------------------------
(* Any number of processes implements RacedLifecycle.                      *)

\* What a process does between reading its batch and leaving it, but for "next".
Checking == {"height", "adrift", "write", "processed", "exists", "lock", "insert", "mark", "commit"}

\* The batch a process goes through has rows only.
BatchExists ==
    \A w \in Workers : pc[w] \in Checking \cup {"next"} =>
        \A p \in todo[w] : status[p] # "absent"

\* No step deletes a row.
LEMMA RowsStay ==
    ASSUME TypeOK, [Next]_vars, NEW p \in Payments, status[p] # "absent"
    PROVE  status'[p] # "absent"
<1>1. ASSUME NEW q \in Payments, Create(q) PROVE status'[p] # "absent"
  BY <1>1 DEF Create, TypeOK
<1>2. ASSUME NEW w \in Workers, NEW q \in Payments, FailStale(w, q) PROVE status'[p] # "absent"
  BY <1>2 DEF FailStale, TypeOK
<1>3. ASSUME NEW w \in Workers, ExpireStale(w) \/ Commit(w) PROVE status'[p] # "absent"
  BY <1>3 DEF ExpireStale, Commit, TypeOK
<1>4. CASE UNCHANGED status
  BY <1>4
<1> QED
  BY <1>1, <1>2, <1>3, <1>4
  DEF Next, Environment, Begin, Sweep, Asked, Pushed, Continue, vars, db, Expire, Mine, Reorg,
      StartBatch, Load, FinishBatch, LookUp, ScanMiss, ScanHit, AskReceipt, CountBlocks,
      StoreConfirmations, CheckProcessed,
      CheckLedger, LockPayment, InsertTransaction, MarkProcessed, Push, StorePush, Crash, Rollback

\* A batch only gets smaller once it is read, and is read with rows only.
LEMMA StepBatch == TypeOK /\ BatchExists /\ [Next]_vars => BatchExists'
<1> SUFFICES ASSUME TypeOK, BatchExists, [Next]_vars PROVE BatchExists'
  OBVIOUS
<1>0. TypeOK'
  BY StepTyped
<1> SUFFICES ASSUME NEW v \in Workers, NEW p \in Payments,
                    pc'[v] \in Checking \cup {"next"}, p \in todo'[v]
             PROVE  status'[p] # "absent"
  BY <1>0 DEF BatchExists, TypeOK
<1>1. CASE pc[v] \in Checking \cup {"next"} /\ p \in todo[v]
  BY <1>1, RowsStay DEF BatchExists
<1>2. ASSUME NEW w \in Workers, Load(w) PROVE status'[p] # "absent"
  <2>1. CASE v = w
    BY <1>2, <2>1 DEF Load, TypeOK, db
  <2>2. CASE v # w
    BY <1>1, <1>2, <2>2 DEF Load, Goto, TypeOK
  <2> QED BY <2>1, <2>2
<1>3. ASSUME NEW w \in Workers, NEW ps \in SUBSET Payments, StartBatch(w, ps)
      PROVE  status'[p] # "absent"
  BY <1>1, <1>3 DEF StartBatch, Goto, TypeOK, Checking
<1>4. ASSUME NEW w \in Workers, ExpireStale(w) \/ StorePush(w) PROVE status'[p] # "absent"
  BY <1>1, <1>4 DEF ExpireStale, StorePush, Goto, TypeOK, Checking
<1>5. ASSUME NEW w \in Workers, FinishBatch(w) \/ Crash(w) PROVE status'[p] # "absent"
  BY <1>1, <1>5 DEF FinishBatch, Crash, Leave, Goto, TypeOK, Checking
<1>6. ASSUME NEW w \in Workers, NEW q \in Payments, FailStale(w, q) \/ ScanMiss(w, q)
      PROVE  status'[p] # "absent"
  <2>1. pc' = pc /\ pc[w] = "next" /\ todo' = [todo EXCEPT ![w] = @ \ {q}]
    BY <1>6 DEF FailStale, ScanMiss, Drop
  <2>2. todo'[v] \subseteq todo[v]
    BY <2>1 DEF TypeOK
  <2> QED BY <1>1, <2>1, <2>2
<1>7. ASSUME NEW w \in Workers, NEW q \in Payments, NEW t \in Txs,
             AskReceipt(w, q, t), pc[w] = "next"
      PROVE  status'[p] # "absent"
  BY <1>1, <1>7 DEF AskReceipt, Goto, Drop, TypeOK, Checking
<1>8. ASSUME NEW w \in Workers, NEW t \in Txs, NEW q \in Payments, Push(w, t, q)
      PROVE  status'[p] # "absent"
  BY <1>1, <1>8 DEF Push, Goto, TypeOK, Checking
<1>9. ASSUME NEW w \in Workers,
             \/ StoreConfirmations(w) \/ CheckProcessed(w) \/ CheckLedger(w) \/ LockPayment(w)
             \/ InsertTransaction(w) \/ MarkProcessed(w) \/ Commit(w) \/ Rollback(w)
      PROVE  status'[p] # "absent"
  <2>1. pc[w] \in Checking
    BY <1>9 DEF StoreConfirmations, CheckProcessed, CheckLedger, LockPayment, InsertTransaction,
       MarkProcessed, Commit, Rollback, Open, Checking
  <2>2. \/ todo' = todo /\ (v # w => pc'[v] = pc[v])
        \/ Leave(w)
    BY <1>9 DEF StoreConfirmations, CheckProcessed, CheckLedger, LockPayment, InsertTransaction,
       MarkProcessed, Commit, Rollback, Raise, Return, Goto, TypeOK
  <2>3. CASE Leave(w)
    BY <1>1, <2>3 DEF Leave, Goto, TypeOK, Checking
  <2> QED BY <1>1, <2>1, <2>2, <2>3
<1>10. ASSUME UNCHANGED local PROVE status'[p] # "absent"
  BY <1>1, <1>10 DEF local
<1>11. ASSUME NEW w \in Workers, NEW q \in Payments, LookUp(w, q) PROVE status'[p] # "absent"
  BY <1>7, <1>11 DEF LookUp, TypeOK
<1>12. ASSUME NEW w \in Workers, NEW q \in Payments, NEW t \in Txs, ScanHit(w, q, t)
       PROVE  status'[p] # "absent"
  BY <1>7, <1>12 DEF ScanHit
<1>13. ASSUME NEW w \in Workers, NEW c \in 0 .. Required, CountBlocks(w, c)
       PROVE  status'[p] # "absent"
  BY <1>1, <1>13 DEF CountBlocks, Goto, TypeOK, Checking
<1>14. ASSUME NEW t \in Txs, Reorg(t) PROVE status'[p] # "absent"
  BY <1>1, <1>14 DEF Reorg, HasReceipt, TypeOK, Checking
<1> QED
  BY <1>2, <1>3, <1>4, <1>5, <1>6, <1>8, <1>9, <1>10, <1>11, <1>12, <1>13, <1>14
  DEF Next, Environment, Begin, Sweep, Asked, Pushed, Continue, vars, Create, Expire, Mine

\* COMMIT confirms a pending payment with a deposit counted often enough; what fails is overdue.
LEMMA StepRaces ==
    ASSUME Consistent, Provenance, BatchExists, [Next]_vars
    PROVE  [Raced!Next]_<<status, ledger, expired, Counted>>
<1> USE DEF Counted
<1>0. TypeOK
  BY DEF Consistent
<1>1. ASSUME NEW p \in Payments, Create(p) PROVE Raced!Next
  <2>1. Raced!Create(p)
    BY <1>1 DEF Create, Raced!Create, world
  <2> QED BY <2>1 DEF Raced!Next
<1>2. ASSUME NEW p \in Payments, Expire(p) PROVE Raced!Next
  <2>1. Raced!Expire(p)
    BY <1>2 DEF Expire, Raced!Expire, db
  <2> QED BY <2>1 DEF Raced!Next
<1>3. ASSUME NEW t \in Txs, Mine(t) \/ Reorg(t)
      PROVE  Raced!Next \/ UNCHANGED <<status, ledger, expired, Counted>>
  <2>1. UNCHANGED <<status, ledger, expired>>
    BY <1>3 DEF Mine, Reorg, db
  <2>2. depth[t] # Required /\ depth' = [depth EXCEPT ![t] = depth'[t]]
    BY <1>0, <1>3 DEF Mine, Reorg, TypeOK
  <2>3. slipped' = slipped \/ slipped' = slipped \cup {t}
    <3>1. CASE \E w \in Workers : HasReceipt(w, t)
      BY <1>3, <3>1 DEF Mine, Reorg
    <3>2. CASE ~\E w \in Workers : HasReceipt(w, t)
      <4>1. {u \in {t} : \E w \in Workers : HasReceipt(w, u)} = {}
        BY <3>2
      <4> QED BY <1>3, <4>1 DEF Mine, Reorg
    <3> QED BY <3>1, <3>2
  <2>4. Counted' = Counted \/ Counted' = Counted \cup {t}
    BY <1>0, <2>2, <2>3 DEF TypeOK
  <2> QED BY <2>1, <2>4 DEF Raced!MayCount, Raced!Next
<1>4. ASSUME NEW w \in Workers, ExpireStale(w) PROVE Raced!Next
  <2> DEFINE stale == {p \in Payments : status[p] = "pending" /\ expired[p]}
  <2>1. Raced!Fail(stale)
    BY <1>4 DEF ExpireStale, IsExpired, world, Raced!Fail
  <2> QED BY <2>1 DEF Raced!Next
<1>5. ASSUME NEW w \in Workers, NEW p \in Payments, FailStale(w, p) PROVE Raced!Next
  <2>1. status[p] # "absent" /\ expired[p]
    BY <1>5 DEF FailStale, IsExpired, BatchExists
  <2>2. /\ status' = [q \in Payments |-> IF q \in {p} THEN "failed" ELSE status[q]]
        /\ UNCHANGED <<ledger, expired, Counted>>
    BY <1>0, <1>5 DEF FailStale, TypeOK, world
  <2>3. Raced!Fail({p})
    BY <2>1, <2>2 DEF Raced!Fail
  <2> QED BY <2>3 DEF Raced!Next
<1>6. ASSUME NEW w \in Workers, Commit(w) PROVE Raced!Next
  <2>1. cur[w] \in Payments /\ res[w] \in Txs /\ res[w] \in Counted
    BY <1>0, <1>6 DEF Commit, TypeOK, Provenance, EnoughCounted
  <2>2. PICK p \in Payments, t \in Txs : p = cur[w] /\ t = res[w] /\ t \in Counted
    BY <2>1
  <2>3. status[p] = "pending" /\ ledger[t] = None
    BY <1>6, <2>2 DEF Consistent, TransactionsIsolated, Commit, Open, Inserted
  <2>4. \A u \in Txs : ledger[u] # p
    BY <1>0, <2>3 DEF Consistent, TypeOK, CreditedIsClosed
  <2>5. Raced!Confirm(p, t)
    BY <1>6, <2>2, <2>3, <2>4 DEF Commit, world, Raced!Confirm
  <2> QED BY <2>5 DEF Raced!Next
<1>7. CASE UNCHANGED <<status, ledger, expired, depth, slipped>>
  BY <1>7
<1> QED
  BY <1>1, <1>2, <1>3, <1>4, <1>5, <1>6, <1>7
  DEF Next, Environment, Begin, Sweep, Asked, Pushed, Continue, vars, db, world, StartBatch, Load,
      FinishBatch, LookUp, ScanMiss, ScanHit, AskReceipt, CountBlocks, StoreConfirmations,
      CheckProcessed, CheckLedger,
      LockPayment, InsertTransaction, MarkProcessed, Push, StorePush, Crash, Rollback

\* Under every interleaving and fault a payment's life is that of RacedLifecycle:
\* only an overdue confirmation is ever overruled, and its credit stays.
THEOREM RacesKeepTheCredit == Spec => ImplementsRacedLifecycle
<1>1. Init => Consistent /\ Provenance /\ BatchExists
  BY InitConsistent, InitProvenance DEF Init, BatchExists
<1>2. Consistent /\ Provenance /\ BatchExists /\ [Next]_vars
        => (Consistent /\ Provenance /\ BatchExists)'
  BY StepConsistent, StepProvenance, StepBatch DEF Consistent
<1>3. Init => Raced!Init
  BY DEF Init, Raced!Init
<1>4. Consistent /\ Provenance /\ BatchExists /\ [Next]_vars => [Raced!Next]_Raced!vars
  BY StepRaces DEF Raced!vars, Counted
<1> QED BY <1>1, <1>2, <1>3, <1>4, PTL DEF Spec, ImplementsRacedLifecycle, Raced!Spec

=============================================================================
