---------------------------- MODULE WebhookProof ----------------------------
(***************************************************************************)
(* Proofs about WebhookDelivery, for any number of rows and processes, any *)
(* window and any number of attempts.                                      *)
(***************************************************************************)
EXTENDS WebhookDelivery, TLAPS

-----------------------------------------------------------------------------
(* A process's copy is never ahead of what was really tried, and while it  *)
(* is about to save a try, that try has been counted and, if its outcome   *)
(* is "delivered", accepted.                                               *)

Honest(w, l) ==
    /\ hookCopy[w][l] <= tries[l]
    /\ hookPc[w] = "save" /\ IsHead(w, l) =>
          /\ hookCopy[w][l] < tries[l]
          /\ outcome[w] = "delivered" => l \in accepted

DeliveryInv ==
    /\ HooksTypeOK
    /\ DeliveredWasAccepted
    /\ AttemptsAreReal
    /\ \A w \in Workers, l \in Logs : Honest(w, l)

\* Nothing was tried, and nobody claims it was.
LEMMA InitDelivery == HooksInit => DeliveryInv
<1> SUFFICES ASSUME HooksInit PROVE DeliveryInv OBVIOUS
<1>1. 0 \in 0 .. MaxAttempts /\ 0 \in 0 .. MaxDeaths
  BY MaxAttemptsAssumption, HookBoundsAssumption
<1>2. HooksTypeOK
  BY <1>1 DEF HooksInit, HooksTypeOK, Open
<1> QED BY <1>2 DEF HooksInit, DeliveryInv, DeliveredWasAccepted, AttemptsAreReal, Honest

\* The window has one head.
LEMMA OneHead ==
    ASSUME NEW w \in Workers, NEW k \in Logs, NEW l \in Logs, IsHead(w, k), IsHead(w, l)
    PROVE  k = l
BY NAssumption DEF IsHead, Logs

\* A try of any outcome counts itself; "delivered" must come with acceptance.
LEMMA TryIsHonest ==
    ASSUME DeliveryInv, NEW w \in Workers, NEW l \in Logs,
           NEW result \in {"delivered", "failed"}, Try(w, l, result),
           accepted' \in {accepted, accepted \cup {l}},
           result = "delivered" => l \in accepted'
    PROVE  DeliveryInv'
<1> USE MaxAttemptsAssumption
<1>1. /\ UNCHANGED <<status, attempts, poisoned, deaths, window, hookCopy>>
      /\ IsHead(w, l) /\ hookCopy[w][l] < MaxAttempts
  BY DEF Try, ShouldRetry, logRows
<1>2. \A k \in Logs : /\ tries[k] \in 0 .. MaxAttempts /\ tries'[k] \in 0 .. MaxAttempts
                      /\ tries[k] <= tries'[k]
  BY DEF Try, DeliveryInv, HooksTypeOK
<1>3. hookCopy[w][l] < tries'[l]
  BY <1>1 DEF Try, DeliveryInv, HooksTypeOK, Honest
<1>4. HooksTypeOK'
  <2>1. tries' \in [Logs -> 0 .. MaxAttempts]
    BY <1>2 DEF Try, DeliveryInv, HooksTypeOK
  <2>2. accepted' \in SUBSET Logs
    BY DEF DeliveryInv, HooksTypeOK
  <2>3. outcome' \in [Workers -> Open \cup {"delivered"}]
        /\ hookPc' \in [Workers -> {"idle", "next", "save"}]
    BY DEF Try, DeliveryInv, HooksTypeOK, Open
  <2> QED BY <1>1, <2>1, <2>2, <2>3 DEF DeliveryInv, HooksTypeOK
<1>5. DeliveredWasAccepted' /\ AttemptsAreReal'
  <2>1. ASSUME NEW k \in Logs PROVE attempts'[k] <= tries'[k]
    <3>1. attempts[k] <= tries[k] /\ attempts[k] \in 0 .. MaxAttempts /\ attempts'[k] = attempts[k]
      BY <1>1 DEF DeliveryInv, AttemptsAreReal, HooksTypeOK
    <3> QED BY <3>1, <1>2
  <2> QED BY <1>1, <2>1 DEF DeliveryInv, DeliveredWasAccepted, AttemptsAreReal
<1>6. ASSUME NEW v \in Workers, NEW k \in Logs PROVE Honest(v, k)'
  <2>1. Honest(v, k) /\ hookCopy[v][k] \in 0 .. MaxAttempts
    BY DEF DeliveryInv, HooksTypeOK
  <2>2. CASE v = w
    <3>1. IsHead(w, k) => k = l
      BY <1>1, OneHead
    <3>2. outcome'[w] = result
      BY DEF Try, DeliveryInv, HooksTypeOK
    <3> QED BY <1>1, <1>2, <1>3, <2>1, <2>2, <3>1, <3>2 DEF Honest, IsHead
  <2>3. CASE v # w
    <3>1. hookPc'[v] = hookPc[v] /\ outcome'[v] = outcome[v]
      BY <2>3 DEF Try, DeliveryInv, HooksTypeOK
    <3> QED BY <1>1, <1>2, <2>1, <3>1 DEF Honest, IsHead
  <2> QED BY <2>2, <2>3
<1> QED BY <1>4, <1>5, <1>6 DEF DeliveryInv

\* Steps that write no row: a process's copies are kept, dropped or read anew,
\* and it is not about to save.
LEMMA QuietIsHonest ==
    ASSUME DeliveryInv, HooksTypeOK', UNCHANGED merchant, NEW w \in Workers,
           \A l \in Logs : attempts'[l] = attempts[l] /\ status'[l] \in {status[l], "pending"},
           hookPc'[w] # "save",
           \A l \in Logs : hookCopy'[w][l] \in {hookCopy[w][l], attempts[l], 0},
           \A v \in Workers : v # w => /\ hookPc'[v] = hookPc[v] /\ window'[v] = window[v]
                                       /\ hookCopy'[v] = hookCopy[v] /\ outcome'[v] = outcome[v]
    PROVE  DeliveryInv'
<1>1. DeliveredWasAccepted' /\ AttemptsAreReal'
  BY DEF DeliveryInv, DeliveredWasAccepted, AttemptsAreReal, merchant
<1>2. ASSUME NEW v \in Workers, NEW l \in Logs PROVE Honest(v, l)'
  <2>1. Honest(v, l) /\ attempts[l] <= tries[l] /\ tries[l] \in Nat /\ tries' = tries /\ accepted' = accepted
    BY MaxAttemptsAssumption DEF DeliveryInv, AttemptsAreReal, HooksTypeOK, merchant
  <2>2. CASE v = w
    BY <2>1, <2>2 DEF Honest
  <2>3. CASE v # w
    BY <2>1, <2>3 DEF Honest, IsHead
  <2> QED BY <2>2, <2>3
<1> QED BY <1>1, <1>2 DEF DeliveryInv

\* Every step keeps the invariant.
LEMMA StepDelivery == DeliveryInv /\ [HooksNext]_hookVars => DeliveryInv'
<1> SUFFICES ASSUME DeliveryInv, [HooksNext]_hookVars PROVE DeliveryInv' OBVIOUS
<1> USE MaxAttemptsAssumption, HookBoundsAssumption
<1>1. ASSUME NEW l \in Logs, NEW poison, Enqueue(l, poison) PROVE DeliveryInv'
  <2>1. HooksTypeOK'
    BY <1>1 DEF Enqueue, DeliveryInv, HooksTypeOK, Open, merchant, hookLocal
  <2>2. UNCHANGED <<attempts, tries, accepted, hookPc, window, hookCopy, outcome>>
    BY <1>1 DEF Enqueue, merchant, hookLocal
  <2>3. DeliveredWasAccepted'
    BY <1>1, <2>2 DEF Enqueue, DeliveryInv, DeliveredWasAccepted, HooksTypeOK
  <2> QED BY <2>1, <2>2, <2>3 DEF DeliveryInv, AttemptsAreReal, Honest, IsHead
<1>2. ASSUME NEW w \in Workers, NEW limit, Select(w, limit) PROVE DeliveryInv'
  <2>1. \A l \in Logs : hookCopy'[w][l] \in {attempts[l], 0}
    BY <1>2 DEF Select, DeliveryInv, HooksTypeOK
  <2>2. HooksTypeOK'
    <3>1. FirstOpen(limit) \in SUBSET Logs
      BY DEF FirstOpen
    <3>2. window' \in [Workers -> SUBSET Logs]
      BY <1>2, <3>1 DEF Select, DeliveryInv, HooksTypeOK
    <3>3. [l \in Logs |-> IF l \in FirstOpen(limit) THEN attempts[l] ELSE 0]
             \in [Logs -> 0 .. MaxAttempts]
      BY DEF DeliveryInv, HooksTypeOK
    <3>4. hookCopy' \in [Workers -> [Logs -> 0 .. MaxAttempts]]
      BY <1>2, <3>3 DEF Select, DeliveryInv, HooksTypeOK
    <3> QED BY <1>2, <3>2, <3>4 DEF Select, DeliveryInv, HooksTypeOK, logRows, merchant
  <2>3. hookPc'[w] = "next"
    BY <1>2 DEF Select, DeliveryInv, HooksTypeOK
  <2>4. \A v \in Workers : v # w => /\ hookPc'[v] = hookPc[v] /\ window'[v] = window[v]
                                    /\ hookCopy'[v] = hookCopy[v] /\ outcome'[v] = outcome[v]
    BY <1>2 DEF Select, DeliveryInv, HooksTypeOK
  <2>5. UNCHANGED merchant /\ UNCHANGED logRows
    BY <1>2 DEF Select
  <2> QED BY <2>1, <2>2, <2>3, <2>4, <2>5, QuietIsHonest DEF logRows
<1>3. ASSUME NEW w \in Workers, NEW l \in Logs, Skip(w, l) PROVE DeliveryInv'
  <2>1. HooksTypeOK'
    BY <1>3 DEF Skip, DeliveryInv, HooksTypeOK, logRows, merchant
  <2>2. \A k \in Logs : hookCopy'[w][k] \in {hookCopy[w][k], 0}
    BY <1>3 DEF Skip, DeliveryInv, HooksTypeOK
  <2>3. \A v \in Workers : v # w => /\ hookPc'[v] = hookPc[v] /\ window'[v] = window[v]
                                    /\ hookCopy'[v] = hookCopy[v] /\ outcome'[v] = outcome[v]
    BY <1>3 DEF Skip, DeliveryInv, HooksTypeOK
  <2>4. hookPc'[w] = "next" /\ UNCHANGED merchant /\ UNCHANGED logRows
    BY <1>3 DEF Skip
  <2> QED BY <2>1, <2>2, <2>3, <2>4, QuietIsHonest DEF logRows
<1>4. ASSUME NEW w \in Workers, NEW l \in Logs, Save(w, l) PROVE DeliveryInv'
  <2>1. /\ hookCopy[w][l] < tries[l] /\ hookCopy[w][l] \in 0 .. MaxAttempts /\ tries[l] \in 0 .. MaxAttempts
        /\ outcome[w] = "delivered" => l \in accepted
    BY <1>4 DEF Save, DeliveryInv, Honest, HooksTypeOK
  <2>2. hookCopy[w][l] + 1 \in 0 .. MaxAttempts /\ hookCopy[w][l] + 1 <= tries[l]
    BY <2>1
  <2>3. UNCHANGED <<tries, accepted, deaths>>
    BY <1>4 DEF Save, merchant
  <2>4. HooksTypeOK'
    BY <1>4, <2>2, <2>3 DEF Save, DeliveryInv, HooksTypeOK, Open, logRows
  <2>5. DeliveredWasAccepted'
    BY <1>4, <2>1, <2>3 DEF Save, DeliveryInv, DeliveredWasAccepted, HooksTypeOK
  <2>6. AttemptsAreReal'
    BY <1>4, <2>2, <2>3 DEF Save, DeliveryInv, AttemptsAreReal, HooksTypeOK
  <2>7. ASSUME NEW v \in Workers, NEW k \in Logs PROVE Honest(v, k)'
    <3>1. Honest(v, k) /\ tries[k] \in Nat
      BY DEF DeliveryInv, HooksTypeOK
    <3>2. CASE v = w
      <4>1. hookPc'[w] = "next" /\ hookCopy'[w][k] \in {hookCopy[w][k], 0}
        BY <1>4 DEF Save, DeliveryInv, HooksTypeOK
      <4> QED BY <2>3, <3>1, <3>2, <4>1 DEF Honest
    <3>3. CASE v # w
      <4>1. hookPc'[v] = hookPc[v] /\ window'[v] = window[v] /\ hookCopy'[v] = hookCopy[v] /\ outcome'[v] = outcome[v]
        BY <1>4, <3>3 DEF Save, DeliveryInv, HooksTypeOK
      <4> QED BY <2>3, <3>1, <4>1 DEF Honest, IsHead
    <3> QED BY <3>2, <3>3
  <2> QED BY <2>4, <2>5, <2>6, <2>7 DEF DeliveryInv
<1>5. ASSUME NEW w \in Workers, NEW l \in Logs,
             Accept(w, l) \/ Refuse(w, l) \/ LoseAnswer(w, l)
      PROVE  DeliveryInv'
  BY <1>5, TryIsHonest DEF Accept, Refuse, LoseAnswer
<1>6. ASSUME NEW w \in Workers, Finish(w) \/ Abort(w) PROVE DeliveryInv'
  <2>1. EndWindow(w) /\ UNCHANGED <<logRows, merchant>> /\ deaths' \in 0 .. MaxDeaths
    BY <1>6 DEF Finish, Abort, DeliveryInv, HooksTypeOK
  <2>2. [l \in Logs |-> 0] \in [Logs -> 0 .. MaxAttempts]
    OBVIOUS
  <2>3. HooksTypeOK'
    BY <2>1, <2>2 DEF EndWindow, DeliveryInv, HooksTypeOK, Open, logRows, merchant
  <2>4. hookPc'[w] = "idle" /\ \A l \in Logs : hookCopy'[w][l] = 0
    BY <2>1 DEF EndWindow, DeliveryInv, HooksTypeOK
  <2>5. \A v \in Workers : v # w => /\ hookPc'[v] = hookPc[v] /\ window'[v] = window[v]
                                    /\ hookCopy'[v] = hookCopy[v] /\ outcome'[v] = outcome[v]
    BY <2>1 DEF EndWindow, DeliveryInv, HooksTypeOK
  <2> QED BY <2>1, <2>3, <2>4, <2>5, QuietIsHonest DEF logRows
<1>7. ASSUME NEW w \in Workers, NEW l \in Logs, Raise(w, l) PROVE DeliveryInv'
  <2>1. EndWindow(w) /\ UNCHANGED <<logRows, tries, deaths>> /\ accepted \subseteq accepted'
        /\ accepted' \in SUBSET Logs
    BY <1>7 DEF Raise, DeliveryInv, HooksTypeOK
  <2>2. [k \in Logs |-> 0] \in [Logs -> 0 .. MaxAttempts]
    OBVIOUS
  <2>3. HooksTypeOK'
    BY <2>1, <2>2 DEF EndWindow, DeliveryInv, HooksTypeOK, Open, logRows
  <2>4. hookPc'[w] = "idle" /\ \A k \in Logs : hookCopy'[w][k] = 0
    BY <2>1 DEF EndWindow, DeliveryInv, HooksTypeOK
  <2>5. \A v \in Workers : v # w => /\ hookPc'[v] = hookPc[v] /\ window'[v] = window[v]
                                    /\ hookCopy'[v] = hookCopy[v] /\ outcome'[v] = outcome[v]
    BY <2>1 DEF EndWindow, DeliveryInv, HooksTypeOK
  <2>6. ASSUME NEW v \in Workers, NEW k \in Logs PROVE Honest(v, k)'
    <3>1. Honest(v, k) /\ tries[k] \in Nat
      BY DEF DeliveryInv, HooksTypeOK
    <3>2. CASE v = w
      BY <2>1, <2>4, <3>1, <3>2 DEF Honest
    <3>3. CASE v # w
      BY <2>1, <2>5, <3>1, <3>3 DEF Honest, IsHead
    <3> QED BY <3>2, <3>3
  <2> QED
    BY <2>1, <2>3, <2>6 DEF DeliveryInv, DeliveredWasAccepted, AttemptsAreReal, logRows
<1>8. CASE UNCHANGED hookVars
  BY <1>8 DEF DeliveryInv, DeliveredWasAccepted, AttemptsAreReal, Honest, IsHead, HooksTypeOK,
     hookVars, logRows, merchant, hookLocal
<1> QED BY <1>1, <1>2, <1>3, <1>4, <1>5, <1>6, <1>7, <1>8 DEF HooksNext, Deliver

\* Rows and copies keep their types: no row is ever counted above MaxAttempts.
THEOREM DeliveryTyped == HooksSpec => []HooksTypeOK
BY InitDelivery, StepDelivery, PTL DEF HooksSpec, DeliveryInv

\* "delivered" is true: the merchant accepted the webhook.
THEOREM DeliveriesAreTrue == HooksSpec => []DeliveredWasAccepted
BY InitDelivery, StepDelivery, PTL DEF HooksSpec, DeliveryInv

\* No attempt is counted that was not made.
THEOREM AttemptsAreCounted == HooksSpec => []AttemptsAreReal
BY InitDelivery, StepDelivery, PTL DEF HooksSpec, DeliveryInv

=============================================================================
