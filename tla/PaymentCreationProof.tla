------------------------ MODULE PaymentCreationProof ------------------------
(***************************************************************************)
(* Proofs about PaymentCreation, for any requests, merchants and keys.     *)
(***************************************************************************)
EXTENDS PaymentCreation, TLAPS

-----------------------------------------------------------------------------
(* The committed rows and what the open transactions hold.                 *)

Writing(r) == creationPc[r] \in {"insert", "link"}

\* A payment has the wallet of its own id, and no wallet is without one.
Paired ==
    \A i \in Ids :
        /\ Exists(i) <=> wallets[i] # None
        /\ Exists(i) => wallet[i] = i /\ wallets[i] = i

\* Open transactions write rows of their own.
Reserved ==
    \A r \in Requests : Writing(r) =>
        /\ mine[r] \in Ids /\ ~Exists(mine[r])
        /\ \A s \in Requests : Writing(s) /\ mine[s] = mine[r] => s = r

\* A transaction that has passed the unique index has its key to itself.
KeyHeld ==
    \A r \in Requests : creationPc[r] = "link" =>
        /\ \A i \in Ids : Exists(i) /\ KeyOf[r] # None => key[i] # KeyOf[r]
        /\ \A s \in Requests : creationPc[s] = "link" /\ SameKey(r, s) => s = r

Its(r, i) == i \in Ids /\ owner[i] = UserOf[r] /\ key[i] = KeyOf[r]

\* What is about to be answered, and what was, is the request's payment.
Answered ==
    \A r \in Requests :
        /\ creationPc[r] = "answer" => Its(r, mine[r])
        /\ answer[r] # None => Its(r, answer[r])

CreationInv == CreationTypeOK /\ OnePaymentPerKey /\ Paired /\ Reserved /\ KeyHeld /\ Answered

\* Empty tables, no transaction.
LEMMA InitCreation == CreationInit => CreationInv
<1> SUFFICES ASSUME CreationInit PROVE CreationInv OBVIOUS
<1>1. creationFaults \in 0 .. MaxLosses
  BY IdBoundsAssumption DEF CreationInit
<1>2. CreationTypeOK
  BY <1>1 DEF CreationInit, CreationTypeOK, Steps
<1> QED BY <1>2 DEF CreationInit, CreationInv, OnePaymentPerKey, Paired, Reserved, KeyHeld, Answered,
     Exists, Writing

\* A step of r that writes no row and leaves r at a step where it holds none.
LEMMA CalmStep ==
    ASSUME CreationInv, CreationTypeOK', NEW r \in Requests, UNCHANGED table,
           ~Writing(r)', creationPc'[r] = "answer" => Its(r, mine'[r]),
           answer'[r] \in {answer[r], mine[r]}, answer'[r] = answer[r] \/ creationPc[r] = "answer",
           \A s \in Requests : s # r => creationPc'[s] = creationPc[s] /\ mine'[s] = mine[s] /\ answer'[s] = answer[s]
    PROVE  CreationInv'
<1>1. \A i \in Ids : owner'[i] = owner[i] /\ key'[i] = key[i]
                     /\ wallet'[i] = wallet[i] /\ wallets'[i] = wallets[i]
  BY DEF table
<1>2. OnePaymentPerKey' /\ Paired'
  BY <1>1 DEF CreationInv, OnePaymentPerKey, Paired, Exists
<1>3. \A s \in Requests : Writing(s)' => s # r /\ Writing(s) /\ creationPc'[s] = creationPc[s] /\ mine'[s] = mine[s]
  BY DEF Writing
<1>4. Reserved'
  BY <1>1, <1>3 DEF CreationInv, Reserved, Exists
<1>5. \A s \in Requests : creationPc'[s] = "link" => creationPc[s] = "link"
  BY <1>3 DEF Writing
<1>6. KeyHeld'
  BY <1>1, <1>5 DEF CreationInv, KeyHeld, Exists, SameKey
<1>7. Answered'
  BY <1>1 DEF CreationInv, Answered, Its
<1> QED BY <1>2, <1>4, <1>6, <1>7 DEF CreationInv

\* Every step keeps the invariant.
LEMMA StepCreation == CreationInv /\ [CreationNext]_creationVars => CreationInv'
<1> SUFFICES ASSUME CreationInv, [CreationNext]_creationVars PROVE CreationInv' OBVIOUS
<1>1. ASSUME NEW r \in Requests,
             (\E form \in FormsOf[r] : Validate(r, form)) \/ FindNone(r) \/ Resend(r)
      PROVE  CreationInv'
  <2>1. CreationTypeOK'
    BY <1>1 DEF Validate, FindNone, Resend, Goto, CreationInv, CreationTypeOK, Steps, table
  <2>2. creationPc'[r] \notin {"insert", "link", "answer"}
    BY <1>1 DEF Validate, FindNone, Resend, Goto, CreationInv, CreationTypeOK
  <2>3. \A s \in Requests : s # r => creationPc'[s] = creationPc[s]
    BY <1>1 DEF Validate, FindNone, Resend, Goto, CreationInv, CreationTypeOK
  <2>4. UNCHANGED table /\ mine' = mine /\ answer' = answer
    BY <1>1 DEF Validate, FindNone, Resend
  <2> QED BY <2>1, <2>2, <2>3, <2>4, CalmStep DEF Writing
<1>2. ASSUME NEW r \in Requests, NEW i \in Ids, FindExisting(r, i) PROVE CreationInv'
  <2>1. CreationTypeOK'
    BY <1>2 DEF FindExisting, Goto, CreationInv, CreationTypeOK, Steps, table
  <2>2. creationPc'[r] = "answer" /\ mine'[r] = i /\ Its(r, i)
    BY <1>2 DEF FindExisting, Goto, CreationInv, CreationTypeOK, Matches, Its
  <2>3. \A s \in Requests : s # r => creationPc'[s] = creationPc[s] /\ mine'[s] = mine[s]
    BY <1>2 DEF FindExisting, Goto, CreationInv, CreationTypeOK
  <2>4. UNCHANGED table /\ answer' = answer
    BY <1>2 DEF FindExisting
  <2> QED BY <2>1, <2>2, <2>3, <2>4, CalmStep DEF Writing
<1>3. ASSUME NEW r \in Requests, NEW i \in Ids, InsertWallet(r, i) PROVE CreationInv'
  <2>1. CreationTypeOK'
    BY <1>3 DEF InsertWallet, Goto, CreationInv, CreationTypeOK, Steps, table
  <2>2. creationPc'[r] = "insert" /\ mine'[r] = i
    BY <1>3 DEF InsertWallet, Goto, CreationInv, CreationTypeOK
  <2>3. ~Exists(i) /\ \A s \in Requests : mine[s] # i
    BY <1>3 DEF InsertWallet, Fresh, Unused
  <2>4. \A s \in Requests : s # r => creationPc'[s] = creationPc[s] /\ mine'[s] = mine[s]
    BY <1>3 DEF InsertWallet, Goto, CreationInv, CreationTypeOK
  <2>5. UNCHANGED <<owner, key, wallet, wallets, answer>>
    BY <1>3 DEF InsertWallet, table
  <2>6. OnePaymentPerKey' /\ Paired'
    BY <2>5 DEF CreationInv, OnePaymentPerKey, Paired, Exists
  <2>7. Reserved'
    BY <2>2, <2>3, <2>4, <2>5 DEF CreationInv, Reserved, Exists, Writing
  <2>8. KeyHeld'
    BY <2>2, <2>4, <2>5 DEF CreationInv, KeyHeld, Exists, SameKey
  <2>9. Answered'
    BY <2>2, <2>4, <2>5 DEF CreationInv, Answered, Its
  <2> QED BY <2>1, <2>6, <2>7, <2>8, <2>9 DEF CreationInv
<1>4. ASSUME NEW r \in Requests, InsertPayment(r) PROVE CreationInv'
  <2>1. UNCHANGED <<owner, key, wallet, wallets, answer, creationFaults>> /\ creationPc[r] = "insert"
    BY <1>4 DEF InsertPayment, table
  <2>2. CASE Rollback(r, "failed")
    <3>1. CreationTypeOK'
      BY <2>1, <2>2 DEF Rollback, Goto, CreationInv, CreationTypeOK, Steps
    <3>2. creationPc'[r] = "failed" /\ \A s \in Requests : s # r => creationPc'[s] = creationPc[s] /\ mine'[s] = mine[s]
      BY <2>2 DEF Rollback, Goto, CreationInv, CreationTypeOK
    <3> QED BY <2>1, <3>1, <3>2, CalmStep DEF Writing, table
  <2>3. CASE /\ Goto(r, "link") /\ UNCHANGED mine
             /\ \A i \in Ids : Exists(i) /\ KeyOf[r] # None => key[i] # KeyOf[r]
    <3>1. CreationTypeOK'
      BY <2>1, <2>3 DEF Goto, CreationInv, CreationTypeOK, Steps
    <3>2. creationPc'[r] = "link" /\ mine' = mine /\ \A s \in Requests : s # r => creationPc'[s] = creationPc[s]
      BY <2>3 DEF Goto, CreationInv, CreationTypeOK
    <3>3. \A s \in Requests : creationPc[s] = "link" => ~SameKey(r, s)
      BY <1>4 DEF InsertPayment
    <3>4. OnePaymentPerKey' /\ Paired'
      BY <2>1 DEF CreationInv, OnePaymentPerKey, Paired, Exists
    <3>5. Reserved'
      BY <2>1, <3>2 DEF CreationInv, Reserved, Exists, Writing
    <3>6. KeyHeld'
      BY <2>1, <2>3, <3>2, <3>3 DEF CreationInv, KeyHeld, Exists, SameKey
    <3>7. Answered'
      BY <2>1, <3>2 DEF CreationInv, Answered, Its
    <3> QED BY <3>1, <3>4, <3>5, <3>6, <3>7 DEF CreationInv
  <2> QED BY <1>4, <2>2, <2>3 DEF InsertPayment
<1>5. ASSUME NEW r \in Requests, Commit(r) PROVE CreationInv'
  <2> DEFINE i == mine[r]
  <2>1. creationPc[r] = "link" /\ i \in Ids /\ ~Exists(i)
    BY <1>5 DEF Commit, CreationInv, Reserved, Writing
  <2>2. /\ owner' = [owner EXCEPT ![i] = UserOf[r]] /\ key' = [key EXCEPT ![i] = KeyOf[r]]
        /\ wallet' = [wallet EXCEPT ![i] = i] /\ wallets' = [wallets EXCEPT ![i] = i]
        /\ creationPc' = [creationPc EXCEPT ![r] = "answer"] /\ UNCHANGED <<creationFaults, mine, answer>>
    BY <1>5 DEF Commit, Goto
  <2> HIDE DEF i
  <2>3. creationPc'[r] = "answer" /\ \A s \in Requests : s # r => creationPc'[s] = creationPc[s]
    BY <2>2 DEF CreationInv, CreationTypeOK
  <2>4. wallet' \in [Ids -> Ids \cup {None}] /\ wallets' \in [Ids -> Ids \cup {None}]
        /\ creationPc' \in [Requests -> Steps] /\ mine' \in [Requests -> Ids \cup {None}]
    BY <2>1, <2>2 DEF CreationInv, CreationTypeOK, Steps
  <2> DEFINE Rows == \A j \in Ids :
            /\ j # i => /\ owner'[j] = owner[j] /\ key'[j] = key[j]
                        /\ wallet'[j] = wallet[j] /\ wallets'[j] = wallets[j]
            /\ j = i => /\ owner'[j] = UserOf[r] /\ key'[j] = KeyOf[r]
                        /\ wallet'[j] = i /\ wallets'[j] = i
  <2>5. Rows
    BY <2>1, <2>2 DEF CreationInv, CreationTypeOK
  <2>6. CreationTypeOK'
    BY <2>1, <2>2, <2>4 DEF CreationInv, CreationTypeOK
  <2>7. \A j \in Ids : Exists(j)' <=> Exists(j) \/ j = i
    BY <2>1, <2>5, UserAssumption DEF Exists
  <2>8. OnePaymentPerKey'
    BY <2>1, <2>5, <2>7 DEF CreationInv, OnePaymentPerKey, KeyHeld
  <2>9. Paired'
    BY <2>1, <2>5, <2>7, NoIdAssumption DEF CreationInv, Paired
  <2>10. Reserved'
    BY <2>1, <2>2, <2>3, <2>7 DEF CreationInv, Reserved, Writing, i
  <2>11. KeyHeld'
    BY <2>1, <2>3, <2>5, <2>7 DEF CreationInv, KeyHeld, SameKey
  <2>12. ASSUME NEW s \in Requests, NEW j, Its(s, j) PROVE Its(s, j)'
    BY <2>1, <2>5, <2>12, UserAssumption DEF Its, Exists
  <2>13. Its(r, i)'
    BY <2>1, <2>5, <2>2 DEF Its, i
  <2>14. Answered'
    BY <2>2, <2>3, <2>12, <2>13 DEF CreationInv, Answered, i
  <2> QED BY <2>6, <2>8, <2>9, <2>10, <2>11, <2>14 DEF CreationInv
<1>6. ASSUME NEW r \in Requests, Answer(r) PROVE CreationInv'
  <2>1. mine[r] \in Ids /\ creationPc[r] = "answer"
    BY <1>6 DEF Answer, CreationInv, Answered, Its
  <2>2. CreationTypeOK'
    BY <1>6, <2>1 DEF Answer, Rollback, Goto, CreationInv, CreationTypeOK, Steps, table
  <2>3. creationPc'[r] = "created" /\ answer'[r] = mine[r]
    BY <1>6 DEF Answer, Rollback, Goto, CreationInv, CreationTypeOK
  <2>4. \A s \in Requests : s # r => creationPc'[s] = creationPc[s] /\ mine'[s] = mine[s] /\ answer'[s] = answer[s]
    BY <1>6 DEF Answer, Rollback, Goto, CreationInv, CreationTypeOK
  <2>5. UNCHANGED table
    BY <1>6 DEF Answer
  <2> QED BY <2>1, <2>2, <2>3, <2>4, <2>5, CalmStep DEF Writing
<1>7. ASSUME NEW r \in Requests, Lose(r) PROVE CreationInv'
  <2>1. creationFaults' \in 0 .. MaxLosses
    BY <1>7, IdBoundsAssumption DEF Lose, CreationInv, CreationTypeOK
  <2>2. CreationTypeOK'
    BY <1>7, <2>1 DEF Lose, Rollback, Goto, CreationInv, CreationTypeOK, Steps, table
  <2>3. creationPc'[r] = "lost" /\ \A s \in Requests : s # r => creationPc'[s] = creationPc[s] /\ mine'[s] = mine[s]
    BY <1>7 DEF Lose, Rollback, Goto, CreationInv, CreationTypeOK
  <2>4. UNCHANGED table /\ answer' = answer
    BY <1>7 DEF Lose
  <2> QED BY <2>2, <2>3, <2>4, CalmStep DEF Writing
<1>8. CASE UNCHANGED creationVars
  <2>1. UNCHANGED <<owner, key, wallet, wallets, creationFaults, creationPc, mine, answer>>
    BY <1>8 DEF creationVars, table
  <2> QED BY <2>1 DEF CreationInv, CreationTypeOK, OnePaymentPerKey, Paired, Reserved, KeyHeld, Answered,
          Exists, Writing, Its, SameKey
<1> QED BY <1>1, <1>2, <1>3, <1>4, <1>5, <1>6, <1>7, <1>8 DEF CreationNext, Progress

\* The invariant holds in every reachable state.
THEOREM CreationIsConsistent == CreationSpec => []CreationInv
BY InitCreation, StepCreation, PTL DEF CreationSpec

\* Rows and locals keep their types.
THEOREM CreationTyped == CreationSpec => []CreationTypeOK
BY CreationIsConsistent, PTL DEF CreationInv

\* An idempotency key makes one payment at most.
THEOREM KeysAreUnique == CreationSpec => []OnePaymentPerKey
BY CreationIsConsistent, PTL DEF CreationInv

\* Wallets and payments pair off: create_payment is one transaction.
THEOREM WalletsArePaired == CreationSpec => []WalletsPairOff
<1>1. CreationInv => WalletsPairOff
  BY NoIdAssumption DEF CreationInv, Paired, WalletsPairOff, CreationTypeOK
<1> QED BY <1>1, CreationIsConsistent, PTL

\* Clients are told the truth, and requests with one key the same.
THEOREM AnswersAreKept == CreationSpec => []AnswersAreTrue
<1>1. CreationInv => AnswersAreTrue
  BY UserAssumption DEF CreationInv, Answered, Its, AnswersAreTrue, OnePaymentPerKey, Exists, SameKey
<1> QED BY <1>1, CreationIsConsistent, PTL

-----------------------------------------------------------------------------
(* That transactions that overlap, break and are sent again look like      *)
(* CreateOnce.                                                             *)

\* The request's open answer, or the one it gave, is payment i.
Has(r, i) == (creationPc[r] = "answer" /\ mine[r] = i) \/ answer[r] = i

\* Answers end their requests, and a keyless request shares no payment.
Told ==
    /\ \A r \in Requests : answer[r] # None => creationPc[r] = "created"
    /\ \A r, s \in Requests, i \in Ids : KeyOf[r] = None /\ Has(r, i) /\ Has(s, i) => r = s

OnceInv == CreationInv /\ Told

\* What a request has is its own payment.
LEMMA HasIsIts ==
    ASSUME CreationInv, NEW r \in Requests, NEW i \in Ids, Has(r, i)
    PROVE  Its(r, i) /\ Exists(i)
BY UserAssumption, NoIdAssumption DEF CreationInv, Answered, Has, Its, Exists

\* A step that gives no request a payment keeps Told.
LEMMA ToldKept ==
    ASSUME Told,
           \A s \in Requests : answer'[s] # None => creationPc'[s] = "created",
           \A s \in Requests, j \in Ids : Has(s, j)' => Has(s, j)
    PROVE  Told'
BY DEF Told

\* Every step keeps what the refinement needs.
LEMMA StepTold == OnceInv /\ [CreationNext]_creationVars => Told'
<1> SUFFICES ASSUME OnceInv, [CreationNext]_creationVars PROVE Told' OBVIOUS
<1> USE DEF OnceInv
<1>1. ASSUME NEW r \in Requests,
             \/ (\E form \in FormsOf[r] : Validate(r, form)) \/ FindNone(r) \/ InsertPayment(r)
             \/ Lose(r) \/ Resend(r) \/ \E i \in Ids : InsertWallet(r, i)
      PROVE  Told'
  <2>1. answer' = answer /\ creationPc[r] # "created" /\ creationPc'[r] # "answer"
    BY <1>1 DEF Validate, FindNone, InsertPayment, Lose, Resend, InsertWallet, Rollback, Goto,
       CreationInv, CreationTypeOK
  <2>2. \A s \in Requests : s # r => creationPc'[s] = creationPc[s] /\ mine'[s] = mine[s]
    BY <1>1 DEF Validate, FindNone, InsertPayment, Lose, Resend, InsertWallet, Rollback, Goto,
       CreationInv, CreationTypeOK
  <2>3. \A s \in Requests : answer'[s] # None => creationPc'[s] = "created"
    BY <2>1, <2>2 DEF Told
  <2>4. \A s \in Requests, j \in Ids : Has(s, j)' => Has(s, j)
    BY <2>1, <2>2 DEF Has
  <2> QED BY <2>3, <2>4, ToldKept
<1>2. ASSUME NEW r \in Requests, NEW i \in Ids, FindExisting(r, i) PROVE Told'
  <2>1. /\ answer' = answer /\ creationPc[r] = "find" /\ creationPc'[r] = "answer" /\ mine'[r] = i
        /\ KeyOf[r] # None /\ key[i] = KeyOf[r]
    BY <1>2 DEF FindExisting, Matches, Goto, CreationInv, CreationTypeOK
  <2>2. \A s \in Requests : s # r => creationPc'[s] = creationPc[s] /\ mine'[s] = mine[s]
    BY <1>2 DEF FindExisting, Goto, CreationInv, CreationTypeOK
  <2>3. \A s \in Requests : answer'[s] # None => creationPc'[s] = "created"
    BY <2>1, <2>2 DEF Told
  <2>4. \A s \in Requests, j \in Ids : Has(s, j)' => Has(s, j) \/ (s = r /\ j = i)
    BY <2>1, <2>2 DEF Has
  <2>5. \A s \in Requests : Has(s, i) => KeyOf[s] # None
    BY <2>1, HasIsIts DEF Its
  <2> QED BY <2>1, <2>3, <2>4, <2>5 DEF Told
<1>3. ASSUME NEW r \in Requests, Commit(r) PROVE Told'
  <2> DEFINE i == mine[r]
  <2>1. creationPc[r] = "link" /\ creationPc'[r] = "answer" /\ answer' = answer /\ mine' = mine
    BY <1>3 DEF Commit, Goto, CreationInv, CreationTypeOK
  <2>2. i \in Ids /\ ~Exists(i)
    BY <2>1 DEF CreationInv, Reserved, Writing
  <2>3. \A s \in Requests : s # r => creationPc'[s] = creationPc[s]
    BY <1>3 DEF Commit, Goto, CreationInv, CreationTypeOK
  <2>4. \A s \in Requests : answer'[s] # None => creationPc'[s] = "created"
    BY <2>1, <2>3 DEF Told
  <2>5. \A s \in Requests, j \in Ids : Has(s, j)' => Has(s, j) \/ (s = r /\ j = i)
    BY <2>1, <2>3 DEF Has
  <2>6. \A s \in Requests : ~Has(s, i)
    BY <2>2, HasIsIts
  <2> QED BY <2>4, <2>5, <2>6 DEF Told
<1>4. ASSUME NEW r \in Requests, Answer(r) PROVE Told'
  <2>1. creationPc[r] = "answer" /\ creationPc'[r] = "created" /\ answer'[r] = mine[r]
    BY <1>4 DEF Answer, Rollback, Goto, CreationInv, CreationTypeOK
  <2>2. \A s \in Requests : s # r => creationPc'[s] = creationPc[s] /\ mine'[s] = mine[s] /\ answer'[s] = answer[s]
    BY <1>4 DEF Answer, Rollback, Goto, CreationInv, CreationTypeOK
  <2>3. \A s \in Requests : answer'[s] # None => creationPc'[s] = "created"
    BY <2>1, <2>2 DEF Told
  <2>4. \A s \in Requests, j \in Ids : Has(s, j)' => Has(s, j)
    BY <2>1, <2>2 DEF Has
  <2> QED BY <2>3, <2>4, ToldKept
<1>5. CASE UNCHANGED creationVars
  BY <1>5 DEF creationVars, Told, Has
<1> QED BY <1>1, <1>2, <1>3, <1>4, <1>5 DEF CreationNext, Progress

\* Nobody was told of anything yet.
LEMMA InitOnce == CreationInit => OnceInv /\ Once!Init
<1> SUFFICES ASSUME CreationInit PROVE OnceInv /\ Once!Init OBVIOUS
<1>1. CreationInv
  BY InitCreation
<1>2. Told
  BY NoIdAssumption DEF CreationInit, Told, Has
<1>3. Once!Init
  BY DEF CreationInit, Once!Init
<1> QED BY <1>1, <1>2, <1>3 DEF OnceInv

\* A commit makes a payment, an answer tells of one, and no other step is seen.
LEMMA StepOnce == OnceInv /\ [CreationNext]_creationVars => [Once!Next]_(Once!vars)
<1> SUFFICES ASSUME OnceInv, [CreationNext]_creationVars PROVE [Once!Next]_(Once!vars) OBVIOUS
<1> USE DEF OnceInv
<1>1. ASSUME NEW r \in Requests, Commit(r) PROVE Once!Next
  <2>1. PICK i \in Ids : i = mine[r] /\ ~Exists(i)
    BY <1>1 DEF Commit, CreationInv, Reserved, Writing
  <2>2. wallets[i] = None
    BY <2>1 DEF CreationInv, Paired
  <2>3. KeyOf[r] # None => \A j \in Ids : owner[j] # None => key[j] # KeyOf[r]
    BY <1>1 DEF Commit, CreationInv, KeyHeld, Exists
  <2>4. Once!Make(r, i)
    BY <1>1, <2>1, <2>2, <2>3 DEF Commit, Once!Make, Exists
  <2> QED BY <2>4 DEF Once!Next
<1>2. ASSUME NEW r \in Requests, Answer(r) PROVE Once!Next
  <2>1. PICK i \in Ids : i = mine[r] /\ Its(r, i)
    BY <1>2 DEF Answer, CreationInv, Answered, Its
  <2>2. answer[r] = None /\ Has(r, i)
    BY <1>2, <2>1 DEF Answer, Told, Has
  <2>3. KeyOf[r] = None => \A s \in Requests : answer[s] # i
    BY <2>2, NoIdAssumption DEF Told, Has
  <2>4. Once!Tell(r, i)
    BY <1>2, <2>1, <2>2, <2>3 DEF Answer, Its, Once!Tell, table
  <2> QED BY <2>4 DEF Once!Next
<1>3. ASSUME NEW r \in Requests,
             \/ (\E form \in FormsOf[r] : Validate(r, form)) \/ FindNone(r) \/ InsertPayment(r)
             \/ Lose(r) \/ Resend(r) \/ \E i \in Ids : FindExisting(r, i) \/ InsertWallet(r, i)
      PROVE  UNCHANGED <<owner, key, wallets, answer>>
  BY <1>3 DEF Validate, FindNone, InsertPayment, Lose, Resend, FindExisting, InsertWallet, table
<1>4. CASE UNCHANGED creationVars
  BY <1>4 DEF creationVars, table, Once!vars
<1> QED BY <1>1, <1>2, <1>3, <1>4 DEF CreationNext, Progress, Once!vars

\* POST /payments makes a payment and its wallet at once, one per key, and tells
\* each client once, whatever overlaps, breaks or is sent again.
THEOREM CreationHappensOnce == CreationSpec => ImplementsCreateOnce
<1>1. OnceInv /\ [CreationNext]_creationVars => OnceInv'
  BY StepCreation, StepTold DEF OnceInv
<1> QED BY <1>1, InitOnce, StepOnce, PTL DEF CreationSpec, ImplementsCreateOnce, Once!Spec

=============================================================================
