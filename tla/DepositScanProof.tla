-------------------------- MODULE DepositScanProof --------------------------
(***************************************************************************)
(* Proofs about DepositScan, for any number of scanning processes, any lag *)
(* of the node and any lookback that covers a payment's life.              *)
(***************************************************************************)
EXTENDS DepositScan, TLAPS

-----------------------------------------------------------------------------
(* Nothing refers to a block that does not exist, and every height that a  *)
(* process may save as the cursor is below an unseen deposit.              *)

Below(h) == h # None => h <= head
Unseen == deposit # None /\ ~moved /\ deposit > blind

Heighted ==
    /\ ScanTypeOK
    /\ Below(created) /\ Below(deposit) /\ Below(cursor) /\ blind <= head
    /\ \A w \in Workers : Below(scanCopy[w]) /\ Below(latest[w])
    /\ deposit # None => created # None
    /\ deposit # None /\ ~moved => created < deposit

NothingPassed ==
    Unseen =>
        /\ cursor # None => cursor < deposit
        /\ \A w \in Workers :
              /\ scanCopy[w] # None => scanCopy[w] < deposit
              /\ scanPc[w] = "save" => latest[w] < deposit

ScanInv == Heighted /\ NothingPassed

\* The initial state: no payment, no deposit, no cursor.
LEMMA InitScan == ScanInit => ScanInv
<1> SUFFICES ASSUME ScanInit PROVE ScanInv OBVIOUS
<1>1. 0 \in Heights
  BY MaxHeightAssumption DEF Heights
<1>2. ScanTypeOK
  BY <1>1 DEF ScanInit, ScanTypeOK, Cursors
<1> QED BY <1>2 DEF ScanInit, ScanInv, Heighted, NothingPassed, Below, Unseen

\* A process that leaves its check forgets what it read.
LEMMA EndScanKeeps ==
    ASSUME NEW w \in Workers, ScanInv, EndScan(w), UNCHANGED <<chain, found, blind>>,
           \/ UNCHANGED cursor
           \/ /\ cursor' \in Heights /\ cursor' <= head
              /\ Unseen => cursor' < deposit
    PROVE  ScanInv'
<1>1. ScanTypeOK'
  BY DEF ScanInv, Heighted, ScanTypeOK, EndScan, chain, Cursors, Heights
<1>2. \A v \in Workers : /\ scanCopy'[v] \in {scanCopy[v], None} /\ latest'[v] \in {latest[v], None}
                         /\ scanPc'[v] = "save" => scanPc[v] = "save" /\ latest'[v] = latest[v]
  BY DEF ScanInv, Heighted, ScanTypeOK, EndScan
<1>3. Heighted'
  BY <1>1, <1>2 DEF ScanInv, Heighted, Below, chain
<1>4. NothingPassed'
  BY <1>2, NoHeightAssumption DEF ScanInv, NothingPassed, Unseen, chain
<1> QED BY <1>3, <1>4 DEF ScanInv

\* _scan_from_block never starts above an unseen deposit: the cursor is below
\* it, and a payment that is not expired is younger than the lookback.
LEMMA ScanReaches ==
    ASSUME ScanInv, ~Expired, Unseen, NEW last \in Heights, last < deposit,
           NEW tip \in Heights, tip <= head
    PROVE  ScanFrom(tip, last) <= deposit
<1>1. /\ created \in Nat /\ deposit \in Nat /\ head \in Nat /\ created < deposit
      /\ tip \in Nat /\ last \in Nat /\ ScanBlocks \in Nat /\ Life \in Nat /\ Life <= ScanBlocks
  BY LifeAssumption, MaxHeightAssumption DEF Unseen, ScanInv, Heighted, ScanTypeOK, Cursors, Heights
<1>2. head < created + Life
  BY <1>1 DEF Expired, ScanInv, Heighted
<1>3. last # None
  BY NoHeightAssumption
<1> QED BY <1>1, <1>2, <1>3 DEF ScanFrom, Larger

\* Every step keeps the invariant.
LEMMA StepScan == ScanInv /\ [ScanNext]_scanVars => ScanInv'
<1> SUFFICES ASSUME ScanInv, [ScanNext]_scanVars PROVE ScanInv' OBVIOUS
<1> USE NoHeightAssumption, MaxHeightAssumption
<1>1. CASE CreateRow
  <2>1. ScanTypeOK' BY <1>1 DEF CreateRow, ScanInv, Heighted, ScanTypeOK, scanLocal, Cursors
  <2>2. deposit = None BY <1>1 DEF CreateRow, ScanInv, Heighted
  <2> QED BY <1>1, <2>1, <2>2
     DEF CreateRow, ScanInv, Heighted, NothingPassed, Below, Unseen, ScanTypeOK, scanLocal, Heights
<1>2. ASSUME NEW pays \in BOOLEAN, Block(pays) PROVE ScanInv'
  <2>1. head' = head + 1 /\ head' \in Heights
    BY <1>2 DEF Block, ScanInv, Heighted, ScanTypeOK, Heights
  <2>2. UNCHANGED <<created, cursor, found, blind, scanPc, scanCopy, latest>>
    BY <1>2 DEF Block, scanLocal
  <2>3. \/ deposit' = deposit /\ moved' = moved
        \/ created # None /\ deposit' = head' /\ moved' = FALSE
    BY <1>2, <2>1 DEF Block
  <2>4. ScanTypeOK'
    BY <2>1, <2>2, <2>3 DEF ScanInv, Heighted, ScanTypeOK, Cursors
  <2>5. \A h \in Cursors : h # None /\ Below(h) => h < head' /\ h <= head'
    BY <2>1 DEF Cursors, Heights, Below, ScanInv, Heighted, ScanTypeOK
  <2>6. Heighted'
    BY <2>1, <2>2, <2>3, <2>4, <2>5
    DEF ScanInv, Heighted, ScanTypeOK, Below, Cursors, Heights
  <2>7. NothingPassed'
    <3>1. CASE deposit' = deposit /\ moved' = moved
      BY <2>2, <3>1 DEF ScanInv, NothingPassed, Unseen
    <3>2. CASE deposit' = head'
      BY <2>2, <2>5, <3>2 DEF ScanInv, Heighted, NothingPassed, ScanTypeOK
    <3> QED BY <2>3, <3>1, <3>2
  <2> QED BY <2>6, <2>7 DEF ScanInv
<1>3. ASSUME NEW w \in Workers, Read(w) PROVE ScanInv'
  <2>1. ScanTypeOK' BY <1>3 DEF Read, ScanInv, Heighted, ScanTypeOK, chain
  <2>2. \A v \in Workers : scanCopy'[v] \in {scanCopy[v], cursor}
    BY <1>3 DEF Read, ScanInv, Heighted, ScanTypeOK
  <2>3. \A v \in Workers : scanPc'[v] = "save" => scanPc[v] = "save"
    BY <1>3 DEF Read, ScanInv, Heighted, ScanTypeOK
  <2>4. Heighted'
    BY <1>3, <2>1, <2>2 DEF Read, ScanInv, Heighted, Below, chain
  <2>5. NothingPassed'
    BY <1>3, <2>2, <2>3 DEF Read, ScanInv, NothingPassed, Unseen, chain
  <2> QED BY <2>4, <2>5 DEF ScanInv
<1>4. ASSUME NEW w \in Workers, NEW tip \in Heights, Scan(w, tip) PROVE ScanInv'
  <2>1. UNCHANGED <<head, created, deposit, moved, cursor, found, scanCopy>> /\ tip <= head /\ ~Expired
    BY <1>4 DEF Scan, chain
  <2>2. blind' \in Heights /\ blind <= blind' /\ blind' <= head
        /\ (scanCopy[w] = None => tip <= blind')
    BY <1>4, <2>1 DEF Scan, Larger, ScanInv, Heighted, ScanTypeOK, Heights
  <2>3. ScanTypeOK'
    BY <1>4, <2>1, <2>2 DEF Scan, ScanInv, Heighted, ScanTypeOK, Cursors, chain
  <2>4. \A v \in Workers : latest'[v] = IF v = w THEN tip ELSE latest[v]
    BY <1>4 DEF Scan, ScanInv, Heighted, ScanTypeOK
  <2>5. \A v \in Workers : v # w => scanPc'[v] = scanPc[v]
    BY <1>4 DEF Scan, ScanInv, Heighted, ScanTypeOK
  <2>6. Heighted'
    BY <2>1, <2>2, <2>3, <2>4 DEF ScanInv, Heighted, Below
  <2>7. ASSUME Unseen' PROVE Unseen
    BY <2>1, <2>2, <2>7 DEF Unseen, ScanInv, Heighted, ScanTypeOK, Cursors, Heights
  <2>8. ASSUME Unseen', scanPc'[w] = "save" PROVE tip < deposit
    <3>1. deposit \in Nat /\ tip \in Nat /\ deposit # None /\ deposit > blind'
      BY <2>1, <2>8 DEF Unseen, ScanInv, Heighted, ScanTypeOK, Cursors, Heights
    <3>2. ~(ScanFrom(tip, scanCopy[w]) <= deposit /\ deposit <= tip)
      BY <1>4, <2>8, <3>1 DEF Scan, Hit, ScanInv, Heighted, ScanTypeOK
    <3>3. CASE scanCopy[w] = None
      BY <2>2, <3>1, <3>3 DEF Heights
    <3>4. CASE scanCopy[w] # None
      <4>1. scanCopy[w] \in Heights /\ scanCopy[w] < deposit
        BY <2>7, <2>8, <3>4 DEF ScanInv, Heighted, ScanTypeOK, Cursors, NothingPassed
      <4>2. ScanFrom(tip, scanCopy[w]) <= deposit
        BY <4>1, <2>1, <2>7, <2>8, ScanReaches
      <4> QED BY <4>2, <3>1, <3>2
    <3> QED BY <3>3, <3>4
  <2>9. NothingPassed'
    BY <2>1, <2>4, <2>5, <2>7, <2>8 DEF ScanInv, NothingPassed
  <2> QED BY <2>6, <2>9 DEF ScanInv
<1>5. ASSUME NEW w \in Workers, SaveCursor(w) PROVE ScanInv'
  <2>1. EndScan(w) /\ UNCHANGED <<chain, found, blind>>
    BY <1>5 DEF SaveCursor
  <2>2. CASE cursor' = cursor
    BY <2>1, <2>2, EndScanKeeps
  <2>3. CASE cursor' = latest[w]
    <3>1. latest[w] \in Heights /\ latest[w] <= head /\ (Unseen => latest[w] < deposit)
      BY <1>5 DEF SaveCursor, ScanInv, Heighted, ScanTypeOK, Cursors, Below, NothingPassed
    <3> QED BY <2>1, <2>3, <3>1, EndScanKeeps
  <2> QED BY <1>5, <2>2, <2>3 DEF SaveCursor
<1>6. ASSUME NEW w \in Workers, SaveHit(w) PROVE ScanInv'
  <2>1. ScanTypeOK' BY <1>6 DEF SaveHit, EndScan, ScanInv, Heighted, ScanTypeOK, chain, Cursors
  <2>2. \A v \in Workers : /\ scanCopy'[v] \in {scanCopy[v], None} /\ latest'[v] \in {latest[v], None}
                           /\ scanPc'[v] = "save" => scanPc[v] = "save" /\ latest'[v] = latest[v]
    BY <1>6 DEF SaveHit, EndScan, ScanInv, Heighted, ScanTypeOK
  <2>3. UNCHANGED <<head, created, deposit, moved, cursor, blind>>
    BY <1>6 DEF SaveHit, chain
  <2>4. Heighted' BY <2>1, <2>2, <2>3 DEF ScanInv, Heighted, Below
  <2>5. NothingPassed' BY <2>2, <2>3 DEF ScanInv, NothingPassed, Unseen
  <2> QED BY <2>4, <2>5 DEF ScanInv
<1>7. ASSUME NEW w \in Workers, GiveUp(w) PROVE ScanInv'
  BY <1>7, EndScanKeeps DEF GiveUp
<1>8. ASSUME NEW first \in Heights, NEW at \in Heights \cup {None}, Reorg(first, at)
      PROVE  ScanInv'
  <2>1. UNCHANGED <<head, created, cursor, found, blind, scanPc, scanCopy, latest>>
        /\ created # None /\ deposit' = at
    BY <1>8 DEF Reorg, scanLocal
  <2>2. \/ deposit' = deposit /\ moved' = moved
        \/ deposit' = None /\ moved' = FALSE
        \/ deposit' \in Heights /\ deposit' <= head /\ moved' = TRUE
    <3>1. moved' = IF at = deposit THEN moved ELSE at # None
      BY <1>8 DEF Reorg
    <3>2. at # None => at \in Heights /\ at <= head
      BY <1>8 DEF Reorg, ScanInv, Heighted, ScanTypeOK, Heights
    <3>3. CASE at = deposit
      BY <2>1, <3>1, <3>3
    <3>4. CASE at # deposit /\ at = None
      BY <2>1, <3>1, <3>4
    <3>5. CASE at # deposit /\ at # None
      BY <2>1, <3>1, <3>2, <3>5
    <3> QED BY <3>3, <3>4, <3>5
  <2>3. ScanTypeOK' BY <2>1, <2>2 DEF ScanInv, Heighted, ScanTypeOK, Cursors
  <2>4. Heighted'
    BY <2>1, <2>2, <2>3 DEF ScanInv, Heighted, Below
  <2>5. NothingPassed'
    BY <2>1, <2>2 DEF ScanInv, NothingPassed, Unseen
  <2> QED BY <2>4, <2>5 DEF ScanInv
<1>9. CASE UNCHANGED scanVars
  BY <1>9 DEF ScanInv, Heighted, NothingPassed, ScanTypeOK, Below, Unseen, scanVars, chain, scanLocal
<1> QED BY <1>1, <1>2, <1>3, <1>4, <1>5, <1>6, <1>7, <1>8, <1>9 DEF ScanNext

\* Heights stay in their range and a process that scanned knows how far.
THEOREM ScanTyped == ScanSpec => []ScanTypeOK
BY InitScan, StepScan, PTL DEF ScanSpec, ScanInv, Heighted

\* Only scans without a cursor and reorganisations skip deposits, however many
\* processes write the cursor from however old copies.
THEOREM CursorIsSafe == ScanSpec => []NoDepositSkipped
<1>1. ScanInv => NoDepositSkipped
  BY DEF ScanInv, NothingPassed, Unseen, NoDepositSkipped
<1> QED BY <1>1, InitScan, StepScan, PTL DEF ScanSpec

=============================================================================
