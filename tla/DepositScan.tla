---------------------------- MODULE DepositScan ----------------------------
(***************************************************************************)
(* How a deposit is found on the chain: EthereumService.find_incoming_     *)
(* eth_tx and the cursor Payment.last_scanned_block that the reconciler    *)
(* keeps between its ticks.  One payment without a tx_hash, scanned by     *)
(* several processes, each from the copy of the cursor it read; payments   *)
(* do not influence each other's scans.                                    *)
(***************************************************************************)
EXTENDS Processes

CONSTANTS
    MaxHeight,   \* bound: blocks
    ScanBlocks,  \* settings.BLOCKCHAIN_SCAN_BLOCKS
    Life,        \* settings.PAYMENT_EXPIRY_MINUTES, in blocks
    Lag,         \* how far an RPC node may be behind the chain
    MaxReorg     \* bound: blocks a reorganisation replaces

Heights == 0 .. MaxHeight

ASSUME MaxHeightAssumption == MaxHeight \in Nat
ASSUME LagAssumption == Lag \in Nat /\ MaxReorg \in Nat
ASSUME NoHeightAssumption == None \notin Heights
\* By default 60 minutes, 300 blocks, and a lookback of 500: no payment outlives it.
ASSUME LifeAssumption == ScanBlocks \in Nat /\ Life \in 0 .. ScanBlocks

VARIABLES
    head,       \* the highest block
    created,    \* the highest block when the payment was created
    deposit,    \* the block with the payer's transaction
    moved,      \* a reorganisation put it into that block
    cursor,     \* Payment.last_scanned_block
    found,      \* Payment.tx_hash is set
    blind,      \* the highest block at which a scan without a cursor looked
    scanPc,     \* per process: "idle", "scan", "save", "hit"
    scanCopy,   \* per process: the cursor as it was read
    latest      \* per process: the block its scan reached

chain == <<head, created, deposit, moved>>
scanLocal == <<scanPc, scanCopy, latest>>
scanVars == <<chain, cursor, found, blind, scanLocal>>

ScanInit ==
    /\ head = 0
    /\ created = None
    /\ deposit = None
    /\ moved = FALSE
    /\ cursor = None
    /\ found = FALSE
    /\ blind = 0
    /\ scanPc = [w \in Workers |-> "idle"]
    /\ scanCopy = [w \in Workers |-> None]
    /\ latest = [w \in Workers |-> None]

-----------------------------------------------------------------------------
\* PaymentService.create_payment: the cursor starts as NULL.
CreateRow ==
    /\ created = None
    /\ created' = head
    /\ UNCHANGED <<head, deposit, moved, cursor, found, blind, scanLocal>>

\* A block, with the payer's transaction in it or not.
Block(pays) ==
    /\ head < MaxHeight
    /\ head' = head + 1
    /\ IF pays
       THEN created # None /\ deposit = None /\ deposit' = head + 1 /\ moved' = FALSE
       ELSE UNCHANGED <<deposit, moved>>
    /\ UNCHANGED <<created, cursor, found, blind, scanLocal>>

\* Other blocks take the place of those from `first` on, with the payer's
\* transaction in one of them or in none.
Reorg(first, at) ==
    /\ created # None
    /\ 0 < first /\ first <= head /\ head < first + MaxReorg
    /\ deposit # None => first <= deposit
    /\ at \in {None} \cup (first .. head)
    /\ deposit' = at
    /\ moved' = IF at = deposit THEN moved ELSE at # None
    /\ UNCHANGED <<head, created, cursor, found, blind, scanLocal>>

Expired == created # None /\ head >= created + Life

\* Mutant: a row that has been scanned once is not read again.
ReadFresh(w) ==
    /\ scanPc[w] = "idle"
    /\ created # None /\ ~found /\ cursor = None
    /\ scanCopy' = [scanCopy EXCEPT ![w] = cursor]
    /\ scanPc' = [scanPc EXCEPT ![w] = "scan"]
    /\ UNCHANGED <<chain, cursor, found, blind, latest>>

\* run_batch reads the row.
Read(w) ==
    /\ scanPc[w] = "idle"
    /\ created # None /\ ~found
    /\ scanCopy' = [scanCopy EXCEPT ![w] = cursor]
    /\ scanPc' = [scanPc EXCEPT ![w] = "scan"]
    /\ UNCHANGED <<chain, cursor, found, blind, latest>>

Larger(a, b) == IF a >= b THEN a ELSE b

\* Mutant: every scan starts as if the row had no cursor.
ScanFromTip(tip, last) == tip

\* _scan_from_block
ScanFrom(tip, last) ==
    LET floor == IF tip > ScanBlocks THEN tip - ScanBlocks ELSE 0
    IN  IF last = None THEN tip ELSE Larger(floor, last + 1)

\* find_incoming_eth_tx, whose first call asks the node for the latest block.
\* The blocks up to it are read one by one; a transaction that stays in its
\* block is in it whenever it is read.
Hit(tip, last) ==
    deposit # None /\ ScanFrom(tip, last) <= deposit /\ deposit <= tip

\* detect_incoming: the block reached is returned with the match or without.
Scan(w, tip) ==
    /\ scanPc[w] = "scan" /\ ~Expired
    /\ tip <= head /\ head <= tip + Lag
    /\ scanPc' = [scanPc EXCEPT ![w] = IF Hit(tip, scanCopy[w]) THEN "hit" ELSE "save"]
    /\ latest' = [latest EXCEPT ![w] = tip]
    /\ blind' = IF scanCopy[w] = None THEN Larger(blind, tip) ELSE blind
    /\ UNCHANGED <<chain, cursor, found, scanCopy>>

EndScan(w) ==
    /\ scanPc' = [scanPc EXCEPT ![w] = "idle"]
    /\ scanCopy' = [scanCopy EXCEPT ![w] = None]
    /\ latest' = [latest EXCEPT ![w] = None]

\* Mutant: the cursor names the next block instead of the last.
SaveNext(w) ==
    /\ scanPc[w] = "save"
    /\ cursor' = latest[w] + 1
    /\ EndScan(w)
    /\ UNCHANGED <<chain, found, blind>>

\* update_last_scanned_block: the comparison is with the copy.
SaveCursor(w) ==
    /\ scanPc[w] = "save"
    /\ cursor' = IF scanCopy[w] = None \/ latest[w] > scanCopy[w] THEN latest[w] ELSE cursor
    /\ EndScan(w)
    /\ UNCHANGED <<chain, found, blind>>

\* update_pending_confirmations or _finalize_payment stores the tx_hash.
SaveHit(w) ==
    /\ scanPc[w] = "hit"
    /\ found' = TRUE
    /\ EndScan(w)
    /\ UNCHANGED <<chain, cursor, blind>>

\* The RPC call raises, the payment is past its deadline, or the process dies.
GiveUp(w) ==
    /\ scanPc[w] # "idle"
    /\ EndScan(w)
    /\ UNCHANGED <<chain, cursor, found, blind>>

-----------------------------------------------------------------------------
ScanNext ==
    \/ CreateRow
    \/ \E pays \in BOOLEAN : Block(pays)
    \/ \E first \in Heights, at \in Heights \cup {None} : Reorg(first, at)
    \/ \E w \in Workers :
          \/ Read(w) \/ SaveCursor(w) \/ SaveHit(w) \/ GiveUp(w)
          \/ \E tip \in Heights : Scan(w, tip)

ScanSpec == ScanInit /\ [][ScanNext]_scanVars

\* The listener polls for ever, and not every tick of it ends in an error or
\* with a node that lags.
ScanFairness == \A w \in Listeners :
    /\ WF_scanVars(Read(w))
    /\ SF_scanVars(Scan(w, head))
    /\ SF_scanVars(SaveCursor(w))
    /\ SF_scanVars(SaveHit(w))

-----------------------------------------------------------------------------
(* Properties                                                              *)

Cursors == Heights \cup {None}

ScanTypeOK ==
    /\ head \in Heights
    /\ created \in Cursors
    /\ deposit \in Cursors
    /\ moved \in BOOLEAN
    /\ cursor \in Cursors
    /\ found \in BOOLEAN
    /\ blind \in Heights
    /\ scanPc \in [Workers -> {"idle", "scan", "save", "hit"}]
    /\ scanCopy \in [Workers -> Cursors]
    /\ latest \in [Workers -> Cursors]
    /\ \A w \in Workers : scanPc[w] \in {"save", "hit"} => latest[w] # None

\* The cursor never passes a deposit: with stale copies, lagging nodes and any
\* number of concurrent scans, only a scan without a cursor can skip one, or a
\* reorganisation that puts it into a block that was scanned already (the scan
\* goes up to the head and the cursor is saved there).
NoDepositSkipped ==
    deposit # None /\ ~moved /\ deposit > blind /\ cursor # None => cursor < deposit

\* A deposit the cursor has not passed is found before the payment's deadline,
\* unless a reorganisation moves it or another blind scan (of a process that
\* read the row before it had a cursor) skips it.
Findable == deposit # None /\ ~moved /\ cursor # None /\ deposit > blind
DepositIsFound == Findable ~> found \/ Expired \/ ~Findable

\* A fresh payment is scanned from its creation block on, so no deposit to it
\* is skipped.
ScannedFromCreation == deposit # None /\ cursor # None => cursor < deposit

=============================================================================
