-------------------------- MODULE PaymentCreation --------------------------
(***************************************************************************)
(* POST /payments: PaymentService.create_payment, one database transaction *)
(* per request, and the merchants' clients that send a request again when  *)
(* it fails or its answer is lost.  Requests run at the same time; a       *)
(* client's second send of a request is the same process started again.    *)
(***************************************************************************)
EXTENDS Database

CONSTANTS
    Requests,    \* what clients want: one payment each
    UserOf,      \* the merchant whose API key the request carries
    KeyOf,       \* its idempotency_key, or None
    FormsOf,     \* what else a request may say: amount, callback_url
    Dashboard,   \* requests that come from the dashboard's form
    MaxAmount,   \* MAX_PAYMENT_AMOUNT
    HttpsOnly,   \* settings.REQUIRE_HTTPS_CALLBACKS
    MaxIds,      \* bound: primary keys; one of a rolled-back insert is used again
    MaxLosses    \* bound: crashes and lost answers

Ids == 1 .. MaxIds

ASSUME NoIdAssumption == None \notin Ids
ASSUME UserAssumption == \A r \in Requests : UserOf[r] # None
ASSUME IdBoundsAssumption == MaxIds \in Nat /\ MaxLosses \in Nat
ASSUME FormsAssumption == \A r \in Requests : FormsOf[r] # {}

VARIABLES
    owner,      \* owner[i]: Payment.user of payment i, None while there is none
    key,        \* Payment.idempotency_key
    wallet,     \* the Wallet whose address is Payment.wallet_address
    wallets,    \* committed Wallet rows: wallets[j] is their payment
    creationFaults,  \* crashes and lost answers so far
    creationPc, \* per request
    mine,       \* per request: the ids its open transaction uses
    answer      \* per request: the payment its client was told

table == <<owner, key, wallet, wallets>>
creationVars == <<table, creationFaults, creationPc, mine, answer>>

Steps == {"send", "find", "wallet", "insert", "link", "answer",
          "created", "rejected", "failed", "lost"}

CreationInit ==
    /\ owner = [i \in Ids |-> None]
    /\ key = [i \in Ids |-> None]
    /\ wallet = [i \in Ids |-> None]
    /\ wallets = [i \in Ids |-> None]
    /\ creationFaults = 0
    /\ creationPc = [r \in Requests |-> "send"]
    /\ mine = [r \in Requests |-> None]
    /\ answer = [r \in Requests |-> None]

Goto(r, step) == creationPc' = [creationPc EXCEPT ![r] = step]

Exists(i) == owner[i] # None

Unused == {i \in Ids : ~Exists(i) /\ wallets[i] = None /\ \A r \in Requests : mine[r] # i}

\* The id the sequence gives next.
Fresh(i) == i \in Unused /\ \A j \in Unused : i <= j

-----------------------------------------------------------------------------
\* CreatePaymentRequestSerializer.
WellFormed(form) == form.amount > 0 /\ form.amount <= MaxAmount

\* validate_callback_url: the scheme, the host's name, and each address that the
\* name resolves to now.
Callable(form) ==
    /\ form.scheme \in {"https", "http"}
    /\ HttpsOnly => form.scheme = "https"
    /\ form.host = "public"
    /\ form.addresses # {} /\ "private" \notin form.addresses

\* The dashboard's form goes without the serializer.
Accepted(r, form) == (r \in Dashboard \/ WellFormed(form)) /\ Callable(form)

\* A 400, or the transaction of create_payment.
Validate(r, form) ==
    /\ creationPc[r] = "send" /\ form \in FormsOf[r]
    /\ Goto(r, IF Accepted(r, form) THEN "find" ELSE "rejected")
    /\ UNCHANGED <<table, creationFaults, mine, answer>>

\* Mutant: the lookup is by key only.
MatchesKey(r, i) == Exists(i) /\ KeyOf[r] # None /\ key[i] = KeyOf[r]

\* filter(idempotency_key=..., user_id=...), when the request has a key.
Matches(r, i) ==
    /\ Exists(i) /\ KeyOf[r] # None
    /\ key[i] = KeyOf[r] /\ owner[i] = UserOf[r]

\* An existing payment is returned as it is.
FindExisting(r, i) ==
    /\ creationPc[r] = "find" /\ Matches(r, i)
    /\ mine' = [mine EXCEPT ![r] = i]
    /\ Goto(r, "answer")
    /\ UNCHANGED <<table, creationFaults, answer>>

FindNone(r) ==
    /\ creationPc[r] = "find" /\ \A i \in Ids : ~Matches(r, i)
    /\ Goto(r, "wallet")
    /\ UNCHANGED <<table, creationFaults, mine, answer>>

\* Mutant: the wallet is committed on its own.
WalletAutocommit(r, i) ==
    /\ creationPc[r] = "wallet" /\ Fresh(i)
    /\ mine' = [mine EXCEPT ![r] = i]
    /\ wallets' = [wallets EXCEPT ![i] = i]
    /\ Goto(r, "insert")
    /\ UNCHANGED <<owner, key, wallet, creationFaults, answer>>

\* WalletService.generate_wallet: a row of this transaction.
InsertWallet(r, i) ==
    /\ creationPc[r] = "wallet" /\ Fresh(i)
    /\ mine' = [mine EXCEPT ![r] = i]
    /\ Goto(r, "insert")
    /\ UNCHANGED <<table, creationFaults, answer>>

SameKey(r, s) == KeyOf[r] # None /\ KeyOf[r] = KeyOf[s]

Rollback(r, step) ==
    /\ mine' = [mine EXCEPT ![r] = None]
    /\ Goto(r, step)

\* Mutant: idempotency_key is not unique.
InsertAny(r) ==
    /\ creationPc[r] = "insert"
    /\ Goto(r, "link") /\ UNCHANGED mine
    /\ UNCHANGED <<table, creationFaults, answer>>

\* Mutant: the insert is tried again, not the request.
InsertRetried(r) ==
    /\ creationPc[r] = "insert"
    /\ \A s \in Requests : creationPc[s] = "link" => ~SameKey(r, s)
    /\ \A i \in Ids : Exists(i) /\ KeyOf[r] # None => key[i] # KeyOf[r]
    /\ Goto(r, "link")
    /\ UNCHANGED <<table, creationFaults, mine, answer>>

\* Payment.objects.create: the unique index on idempotency_key waits for an open
\* transaction with the same key and refuses a committed one; the IntegrityError
\* rolls back and becomes a 500.
InsertPayment(r) ==
    /\ creationPc[r] = "insert"
    /\ \A s \in Requests : creationPc[s] = "link" => ~SameKey(r, s)
    /\ IF \E i \in Ids : Exists(i) /\ KeyOf[r] # None /\ key[i] = KeyOf[r]
       THEN Rollback(r, "failed")
       ELSE Goto(r, "link") /\ UNCHANGED mine
    /\ UNCHANGED <<table, creationFaults, answer>>

\* Mutant: the wallet row gets the user's id for its payment's.
LinkToUser(r) ==
    LET i == mine[r]
    IN  /\ creationPc[r] = "link"
        /\ owner' = [owner EXCEPT ![i] = UserOf[r]]
        /\ key' = [key EXCEPT ![i] = KeyOf[r]]
        /\ wallet' = [wallet EXCEPT ![i] = i]
        /\ wallets' = [wallets EXCEPT ![i] = UserOf[r]]
        /\ Goto(r, "answer")
        /\ UNCHANGED <<creationFaults, mine, answer>>

\* wallet.payment_id is saved and the transaction commits.
Commit(r) ==
    LET i == mine[r]
    IN  /\ creationPc[r] = "link"
        /\ owner' = [owner EXCEPT ![i] = UserOf[r]]
        /\ key' = [key EXCEPT ![i] = KeyOf[r]]
        /\ wallet' = [wallet EXCEPT ![i] = i]
        /\ wallets' = [wallets EXCEPT ![i] = i]
        /\ Goto(r, "answer")
        /\ UNCHANGED <<creationFaults, mine, answer>>

\* register_address and run_batch cannot fail the request: 201.
Answer(r) ==
    /\ creationPc[r] = "answer"
    /\ answer' = [answer EXCEPT ![r] = mine[r]]
    /\ Rollback(r, "created")
    /\ UNCHANGED <<table, creationFaults>>

\* The process dies or the connection breaks: what is not committed is gone.
Lose(r) ==
    /\ creationPc[r] \in {"find", "wallet", "insert", "link", "answer"}
    /\ creationFaults < MaxLosses
    /\ creationFaults' = creationFaults + 1
    /\ Rollback(r, "lost")
    /\ UNCHANGED <<table, answer>>

\* The client sends the request again, with the same idempotency key.
Resend(r) ==
    /\ creationPc[r] \in {"failed", "lost"}
    /\ Goto(r, "send")
    /\ UNCHANGED <<table, creationFaults, mine, answer>>

-----------------------------------------------------------------------------
Progress(r) ==
    \/ (\E form \in FormsOf[r] : Validate(r, form)) \/ FindNone(r) \/ InsertPayment(r)
    \/ Commit(r) \/ Answer(r) \/ Resend(r)
    \/ \E i \in Ids : FindExisting(r, i) \/ InsertWallet(r, i)

CreationNext == \E r \in Requests : Progress(r) \/ Lose(r)

CreationSpec == CreationInit /\ [][CreationNext]_creationVars

\* The server finishes its requests; clients send again what was not answered.
CreationFairness == \A r \in Requests : WF_creationVars(Progress(r))

-----------------------------------------------------------------------------
(* Properties                                                              *)

CreationTypeOK ==
    /\ owner \in [Ids -> {UserOf[r] : r \in Requests} \cup {None}]
    /\ key \in [Ids -> {KeyOf[r] : r \in Requests} \cup {None}]
    /\ wallet \in [Ids -> Ids \cup {None}]
    /\ wallets \in [Ids -> Ids \cup {None}]
    /\ creationFaults \in 0 .. MaxLosses
    /\ creationPc \in [Requests -> Steps]
    /\ mine \in [Requests -> Ids \cup {None}]
    /\ answer \in [Requests -> Ids \cup {None}]

\* However requests overlap and are resent, an idempotency key makes one
\* payment at most.
OnePaymentPerKey ==
    \A i, j \in Ids : Exists(i) /\ Exists(j) /\ key[i] # None /\ key[i] = key[j] => i = j

\* A client is never told of a payment that is not there or is not its
\* merchant's, and a key always names the same one.
AnswersAreTrue ==
    \A r \in Requests : answer[r] # None =>
        /\ owner[answer[r]] = UserOf[r] /\ key[answer[r]] = KeyOf[r]
        /\ \A s \in Requests : SameKey(r, s) /\ answer[s] # None => answer[s] = answer[r]

\* Deposit wallets and payments pair off: no failed request leaves a wallet
\* behind, no payment lacks its own.
WalletsPairOff ==
    /\ \A i \in Ids : Exists(i) => wallet[i] # None /\ wallets[wallet[i]] = i
    /\ \A j \in Ids : wallets[j] # None => Exists(wallets[j]) /\ wallet[wallets[j]] = j

\* However transactions overlap, break and are sent again, clients see payments
\* that are made and told of in one step each.
Once == INSTANCE CreateOnce
ImplementsCreateOnce == Once!Spec

\* A resending client whose request is accepted gets its payment, unless another
\* merchant has its key: the losers of a race on a key come back to the winner's
\* payment.  (Answers and payments stay, so there comes a time when all have theirs.)
ClientsAreServed ==
    <>(\A r \in Requests :
          (\A form \in FormsOf[r] : Accepted(r, form)) =>
              \/ answer[r] # None
              \/ \E i \in Ids : /\ Exists(i) /\ key[i] = KeyOf[r] /\ owner[i] # UserOf[r])

=============================================================================
