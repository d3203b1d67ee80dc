------------------------------ MODULE Accounts ------------------------------
(***************************************************************************)
(* The users table and the ways into it: registration and login with an    *)
(* e-mail address, sign-in with an Ethereum wallet (nonce, signature, the  *)
(* user made at the first sign-in) and the admin who suspends accounts.    *)
(* Every statement commits on its own, so handlers interleave and a crash  *)
(* keeps what was already written.  Requests the rate limiter refuses      *)
(* change nothing and are left out.                                        *)
(***************************************************************************)
EXTENDS Database

CONSTANTS
    Handlers,    \* requests the web server serves at a time
    Wallets,     \* addresses that sign in
    Mails,       \* emails
    MailOf,      \* the email made up for an address, <address>@wallet.gaxtron
    Names,       \* usernames, in the order the suffix loop tries them
    Nonces,      \* rows of wallet_auth_nonces: one no longer held stands for a new random one
    MaxCrashes   \* bound: handlers that die

\* Who signs in: the owner of a wallet, or whoever registered an email and
\* knows its password.
Logins == Wallets \cup Mails

ASSUME LoginsAssumption == Wallets \cap Mails = {} /\ MailOf \in [Wallets -> Mails]
ASSUME NamesAssumption == Names \subseteq Nat
ASSUME NoRowAssumption == None \notin Nonces /\ None \notin Names
ASSUME CrashesAssumption == MaxCrashes \in Nat

VARIABLES
    users,      \* users[m]: the row with email m, None while there is none
    nonces,     \* per nonce: "none" (deleted), "fresh" or "used"
    late,       \* nonces past expires_at
    client,     \* the nonce a wallet's owner has signed and not had an answer for
    signedIn,   \* logins whose client holds a token that is not expired
    req,        \* the request a handler is serving
    crashes

tables == <<users, nonces, late>>
clients == <<client, signedIn>>
accountVars == <<tables, clients, req, crashes>>

\* `by` says who made the row: its password is theirs, that of a wallet's row is
\* random and not kept.  `linked` says that wallet_address is set.
User == [name : Names, by : Logins, linked : BOOLEAN, active : BOOLEAN]
Request == [at : {"spend", "find", "name", "create", "link", "answer"},
            who : Logins, nonce : Nonces \cup {None}, name : Names \cup {None}]

ASSUME RowsAssumption == None \notin User /\ None \notin Request

AccountsInit ==
    /\ users = [m \in Mails |-> None]
    /\ nonces = [n \in Nonces |-> "none"]
    /\ late = {}
    /\ client = [w \in Wallets |-> None]
    /\ signedIn = {}
    /\ req = [h \in Handlers |-> None]
    /\ crashes = 0

Mail(l) == IF l \in Wallets THEN MailOf[l] ELSE l

HasRow(m) == users[m] # None

Taken(name) == \E m \in Mails : HasRow(m) /\ users[m].name = name

\* The row was made by l, and not by somebody else with the same email.
Owns(l) == HasRow(Mail(l)) /\ users[Mail(l)].by = l

\* The row with wallet_address w.
Found(w) == Owns(w) /\ users[Mail(w)].linked

Proceed(h, step) == req' = [req EXCEPT ![h].at = step]

At(h, step) == req[h] # None /\ req[h].at = step

Held(n) ==
    \/ \E w \in Wallets : client[w] = n
    \/ \E h \in Handlers : req[h] # None /\ req[h].nonce = n

\* The answer ends the request; a wallet's owner signs a new nonce next time.
Reply(h) ==
    /\ req' = [req EXCEPT ![h] = None]
    /\ client' = [w \in Wallets |-> IF w = req[h].who THEN None ELSE client[w]]

\* A 401, 403 or 500.
Fail(h) == Reply(h) /\ UNCHANGED <<tables, signedIn, crashes>>

-----------------------------------------------------------------------------
(* Wallets.                                                                *)

\* WalletNonceView: the expired rows go, a new one comes.
AskNonce(w, n) ==
    /\ client[w] = None /\ w \notin signedIn /\ ~Held(n)
    /\ nonces' = [m \in Nonces |->
                     CASE m = n -> "fresh" [] m \in late \ {n} -> "none" [] OTHER -> nonces[m]]
    /\ late' = {}
    /\ client' = [client EXCEPT ![w] = n]
    /\ UNCHANGED <<users, signedIn, req, crashes>>

\* Somebody who does not sign in asks for one.
SweepNonces ==
    /\ late # {}
    /\ nonces' = [m \in Nonces |-> IF m \in late THEN "none" ELSE nonces[m]]
    /\ late' = {}
    /\ UNCHANGED <<users, clients, req, crashes>>

\* Five minutes pass.
ExpireNonce(n) ==
    /\ nonces[n] # "none" /\ n \notin late /\ Held(n)
    /\ late' = late \cup {n}
    /\ UNCHANGED <<users, nonces, clients, req, crashes>>

Acceptable(n) == nonces[n] = "fresh" /\ n \notin late

\* WalletVerifyView, up to the nonce read unused.  The owner may send the same
\* signature twice.
StartVerify(h, w) ==
    /\ req[h] = None /\ client[w] # None /\ Acceptable(client[w])
    /\ req' = [req EXCEPT ![h] = [at |-> "spend", who |-> w, nonce |-> client[w], name |-> None]]
    /\ UNCHANGED <<tables, clients, crashes>>

RefuseVerify(h, w) ==
    /\ req[h] = None /\ client[w] # None /\ ~Acceptable(client[w])
    /\ client' = [client EXCEPT ![w] = None]
    /\ UNCHANGED <<tables, signedIn, req, crashes>>

\* save(update_fields=["used_at"]): a row deleted meanwhile is a DatabaseError.
Spend(h) ==
    LET n == req[h].nonce
    IN  /\ At(h, "spend")
        /\ \/ /\ nonces[n] = "none" /\ Fail(h)
           \/ /\ nonces[n] # "none"
              /\ nonces' = [nonces EXCEPT ![n] = "used"]
              /\ Proceed(h, "find")
              /\ UNCHANGED <<users, late, clients, crashes>>

\* Mutant: the loop over usernames is left out.
FindNameless(h) ==
    LET l == req[h].who
    IN  /\ At(h, "find")
        /\ IF Found(l)
           THEN IF users[Mail(l)].active THEN Proceed(h, "answer") /\ UNCHANGED client ELSE Reply(h)
           ELSE Proceed(h, "create") /\ UNCHANGED client
        /\ UNCHANGED <<tables, signedIn, crashes>>

\* Mutant: the user is looked up by the username of its address.
FindByName(h) ==
    LET l == req[h].who
    IN  /\ At(h, "find")
        /\ IF Found(l) /\ users[Mail(l)].name = 0
           THEN IF users[Mail(l)].active THEN Proceed(h, "answer") /\ UNCHANGED client ELSE Reply(h)
           ELSE Proceed(h, "name") /\ UNCHANGED client
        /\ UNCHANGED <<tables, signedIn, crashes>>

\* The user is looked up by wallet_address.
FindUser(h) ==
    LET l == req[h].who
    IN  /\ At(h, "find")
        /\ IF Found(l)
           THEN IF users[Mail(l)].active THEN Proceed(h, "answer") /\ UNCHANGED client ELSE Reply(h)
           ELSE Proceed(h, "name") /\ UNCHANGED client
        /\ UNCHANGED <<tables, signedIn, crashes>>

\* The loop over usernames.  No view deletes a user, so what it tried before is
\* still taken when it finds a free one.
PickName(h, n) ==
    /\ At(h, "name") /\ ~Taken(n) /\ \A m \in Names : m < n => Taken(m)
    /\ req' = [req EXCEPT ![h].at = "create", ![h].name = n]
    /\ UNCHANGED <<tables, clients, crashes>>

\* Mutant: a user whose username was free at once counts as complete.
LinkOnlyRenamed(h) ==
    LET l == req[h].who
    IN  /\ At(h, "create")
        /\ IF HasRow(Mail(l)) \/ Taken(req[h].name)
           THEN Reply(h) /\ UNCHANGED users
           ELSE /\ users' = [users EXCEPT ![Mail(l)] =
                       [name |-> req[h].name, by |-> l, linked |-> FALSE, active |-> TRUE]]
                /\ Proceed(h, IF req[h].name > 0 THEN "link" ELSE "answer")
                /\ UNCHANGED client
        /\ UNCHANGED <<nonces, late, signedIn, crashes>>

\* Mutant: who loses the race for the row takes the winner's for its own.
AnswerTheLoser(h) ==
    LET l == req[h].who
    IN  /\ At(h, "create")
        /\ IF HasRow(Mail(l))
           THEN Proceed(h, "answer") /\ UNCHANGED <<users, client>>
           ELSE /\ users' = [users EXCEPT ![Mail(l)] =
                       [name |-> req[h].name, by |-> l, linked |-> FALSE, active |-> TRUE]]
                /\ Proceed(h, IF l \in Wallets THEN "link" ELSE "answer")
                /\ UNCHANGED client
        /\ UNCHANGED <<nonces, late, signedIn, crashes>>

\* create_user: email and username are unique, an IntegrityError is a 500.
CreateUser(h) ==
    LET l == req[h].who
    IN  /\ At(h, "create")
        /\ IF HasRow(Mail(l)) \/ Taken(req[h].name)
           THEN Reply(h) /\ UNCHANGED users
           ELSE /\ users' = [users EXCEPT ![Mail(l)] =
                       [name |-> req[h].name, by |-> l, linked |-> FALSE, active |-> TRUE]]
                /\ Proceed(h, IF l \in Wallets THEN "link" ELSE "answer")
                /\ UNCHANGED client
        /\ UNCHANGED <<nonces, late, signedIn, crashes>>

\* wallet_address is saved by a statement of its own.
Link(h) ==
    /\ At(h, "link")
    /\ users' = [users EXCEPT ![Mail(req[h].who)].linked = TRUE]
    /\ Proceed(h, "answer")
    /\ UNCHANGED <<nonces, late, clients, crashes>>

\* _token_response.
IssueToken(h) ==
    /\ At(h, "answer")
    /\ signedIn' = signedIn \cup {req[h].who}
    /\ Reply(h)
    /\ UNCHANGED <<tables, crashes>>

-----------------------------------------------------------------------------
(* E-mail logins, the admin, the environment.                              *)

\* Any email may be registered, also one that is made up for a wallet.
\* RegisterView looks both unique columns up, register_view's form validates them.
Available(m, n) == ~HasRow(m) /\ ~Taken(n)

Register(h, m, n) ==
    /\ req[h] = None /\ Available(m, n)
    /\ req' = [req EXCEPT ![h] = [at |-> "create", who |-> m, nonce |-> None, name |-> n]]
    /\ UNCHANGED <<tables, clients, crashes>>

\* LoginView, with the right password.
Login(m) ==
    /\ m \notin signedIn /\ Owns(m) /\ users[m].active
    /\ signedIn' = signedIn \cup {m}
    /\ UNCHANGED <<tables, client, req, crashes>>

\* The client drops its token, or JWT_EXPIRE_MINUTES pass.
SignOut(l) ==
    /\ l \in signedIn
    /\ signedIn' = signedIn \ {l}
    /\ UNCHANGED <<tables, client, req, crashes>>

\* suspend_accounts and activate_accounts.
SetActive(m, active) ==
    /\ HasRow(m) /\ users[m].active # active
    /\ users' = [users EXCEPT ![m].active = active]
    /\ UNCHANGED <<nonces, late, clients, req, crashes>>

\* The process dies; the owner sees the connection break and tries again.
Crash(h) ==
    /\ req[h] # None /\ crashes < MaxCrashes
    /\ crashes' = crashes + 1
    /\ Reply(h)
    /\ UNCHANGED <<tables, signedIn>>

Serve(h) ==
    \/ Spend(h) \/ FindUser(h) \/ CreateUser(h) \/ Link(h) \/ IssueToken(h)
    \/ \E n \in Names : PickName(h, n)

AccountsNext ==
    \/ \E w \in Wallets, n \in Nonces : AskNonce(w, n)
    \/ \E n \in Nonces : ExpireNonce(n)
    \/ SweepNonces
    \/ \E l \in Logins : SignOut(l)
    \/ \E m \in Mails : Login(m) \/ \E a \in BOOLEAN : SetActive(m, a)
    \/ \E h \in Handlers :
          \/ \E w \in Wallets : StartVerify(h, w) \/ RefuseVerify(h, w)
          \/ \E m \in Mails, n \in Names : Register(h, m, n)
          \/ Serve(h) \/ Crash(h)

\* A request that was begun is served to its end.  A wallet's owner asks for a
\* nonce and sends the signature until it gets in: a server that is free again
\* and again takes it, and five minutes are enough every now and then.
AccountsFairness ==
    /\ \A h \in Handlers : WF_accountVars(Serve(h))
    /\ \A h \in Handlers : SF_accountVars(Spend(h) /\ Acceptable(req[h].nonce))
    /\ \A w \in Wallets :
          /\ WF_accountVars(\E n \in Nonces : AskNonce(w, n))
          /\ SF_accountVars(\E h \in Handlers : StartVerify(h, w))
          /\ SF_accountVars(\E h \in Handlers : RefuseVerify(h, w))

AccountsSpec == AccountsInit /\ [][AccountsNext]_accountVars
AccountsFairSpec == AccountsSpec /\ AccountsFairness

-----------------------------------------------------------------------------
(* Properties                                                              *)

AccountsTypeOK ==
    /\ users \in [Mails -> User \cup {None}]
    /\ nonces \in [Nonces -> {"none", "fresh", "used"}]
    /\ late \in SUBSET Nonces
    /\ client \in [Wallets -> Nonces \cup {None}]
    /\ signedIn \in SUBSET Logins
    /\ req \in [Handlers -> Request \cup {None}]
    /\ crashes \in 0 .. MaxCrashes

\* A wallet's user row that nobody can sign in to (create_user done, its
\* wallet_address never saved) needs a crash between the two statements.
Orphaned(w) ==
    /\ Owns(w) /\ ~Found(w)
    /\ \A h \in Handlers : ~(At(h, "link") /\ req[h].who = w)

OrphansNeedACrash == \A w \in Wallets : Orphaned(w) => crashes > 0

\* Whoever has a token has a user of its own, and a wallet's user is complete:
\* also when another request made the row first, or somebody registered the
\* email.
TokensNameUsers == \A l \in signedIn : Owns(l) /\ (l \in Wallets => Found(l))

\* Somebody else registered the email that is made up for the wallet.
Squatted(w) == HasRow(Mail(w)) /\ ~Owns(w)

Suspended(w) == HasRow(Mail(w)) /\ ~users[Mail(w)].active

\* An owner that keeps trying gets in, through lost races on the new row, used,
\* expired and deleted nonces, unless the account is suspended or an orphan or
\* its email is taken.
WalletsGetIn ==
    \A w \in Wallets :
        w \notin signedIn ~> w \in signedIn \/ Suspended(w) \/ Orphaned(w) \/ Squatted(w)

\* While no process dies, the owner of a wallet gets in unless it is suspended.
WalletsAreNotLockedOut ==
    \A w \in Wallets : w \notin signedIn ~> w \in signedIn \/ Suspended(w)

=============================================================================
