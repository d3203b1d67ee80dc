--------------------------- MODULE AccountsProof ---------------------------
(***************************************************************************)
(* Theorems about Accounts, for any handlers, wallets, e-mails, usernames  *)
(* and nonces and any number of crashes.                                   *)
(***************************************************************************)
EXTENDS Accounts, TLAPS

\* What a request has done so far: at "create" it has a username, at "link" the
\* row of its wallet is there, at "answer" it is complete.
InStep(h) ==
    LET l == req[h].who
    IN  /\ At(h, "create") => req[h].name \in Names
        /\ At(h, "link") => Owns(l)
        /\ At(h, "answer") => Owns(l) /\ (l \in Wallets => Found(l))

AccountsInv ==
    /\ AccountsTypeOK
    /\ \A h \in Handlers : InStep(h)
    /\ TokensNameUsers
    /\ OrphansNeedACrash

\* Rows are never deleted, never given to somebody else and never lose their
\* wallet_address.
RowsStay ==
    \A m \in Mails : HasRow(m) => /\ HasRow(m)'
                                  /\ users'[m].by = users[m].by
                                  /\ users[m].linked => users'[m].linked

LEMMA MailTyped == \A l \in Logins : Mail(l) \in Mails /\ Mail(l)' = Mail(l)
BY LoginsAssumption DEF Mail, Logins

\* What somebody owns stays theirs, and complete.
LEMMA OwnersStay ==
    ASSUME RowsStay, NEW l \in Logins
    PROVE  (Owns(l) => Owns(l)') /\ (Found(l) => Found(l)')
BY MailTyped DEF RowsStay, Owns, Found

LEMMA TokensStay ==
    ASSUME RowsStay, TokensNameUsers, signedIn \subseteq Logins, signedIn' \subseteq signedIn
    PROVE  TokensNameUsers'
BY OwnersStay DEF TokensNameUsers

\* Whoever's row is as it was owns what it owned.
LEMMA SameRow ==
    ASSUME NEW l \in Logins, users'[Mail(l)] = users[Mail(l)]
    PROVE  Owns(l)' = Owns(l) /\ Found(l)' = Found(l)
BY MailTyped DEF Owns, Found, HasRow

\* The steps that leave the users alone: what a request that is not at `link`
\* does to itself.
LEMMA QuietKeeps ==
    ASSUME AccountsInv, AccountsTypeOK', UNCHANGED users, crashes' \in Nat,
           signedIn' \subseteq signedIn, crashes' >= crashes,
           \A h \in Handlers : InStep(h)',
           \A h \in Handlers : At(h, "link") => UNCHANGED req[h] \/ crashes' > 0
    PROVE  AccountsInv'
<1>0. \A l \in Logins : Owns(l)' = Owns(l) /\ Found(l)' = Found(l)
  BY SameRow
<1>1. TokensNameUsers'
  BY <1>0 DEF AccountsInv, TokensNameUsers, AccountsTypeOK
<1>2. OrphansNeedACrash'
  <2> SUFFICES ASSUME NEW w \in Wallets, Orphaned(w)' PROVE crashes' > 0
    BY DEF OrphansNeedACrash
  <2>1. CASE Orphaned(w)
    <3>1. crashes > 0
      BY <2>1 DEF AccountsInv, OrphansNeedACrash
    <3> QED
      BY <3>1 DEF AccountsInv, AccountsTypeOK
  <2>2. CASE ~Orphaned(w)
    <3>1. PICK h \in Handlers : At(h, "link") /\ req[h].who = w
      BY <1>0, <2>2 DEF Orphaned, Logins
    <3>2. ~(UNCHANGED req[h])
      BY <3>1 DEF Orphaned, At
    <3> QED
      BY <3>1, <3>2
  <2> QED
    BY <2>1, <2>2
<1> QED
  BY <1>1, <1>2 DEF AccountsInv

LEMMA InitAccounts == AccountsInit => AccountsInv
<1> SUFFICES ASSUME AccountsInit PROVE AccountsInv
  OBVIOUS
<1>1. AccountsTypeOK
  BY CrashesAssumption DEF AccountsInit, AccountsTypeOK
<1>2. \A h \in Handlers : InStep(h)
  BY DEF AccountsInit, InStep, At
<1>3. TokensNameUsers
  BY DEF AccountsInit, TokensNameUsers
<1>4. OrphansNeedACrash
  BY MailTyped DEF AccountsInit, OrphansNeedACrash, Orphaned, Owns, HasRow, Logins
<1> QED
  BY <1>1, <1>2, <1>3, <1>4 DEF AccountsInv

\* A handler's step sends its request on, or answers it.
LEMMA ProceedTyped ==
    ASSUME AccountsTypeOK, NEW h \in Handlers, req[h] # None,
           NEW step \in {"spend", "find", "name", "create", "link", "answer"}, Proceed(h, step)
    PROVE  req' \in [Handlers -> Request \cup {None}]
<1>1. req[h] \in Request
  BY DEF AccountsTypeOK
<1>2. [req[h] EXCEPT !.at = step] \in Request
  BY <1>1 DEF Request
<1> QED
  BY <1>2 DEF AccountsTypeOK, Proceed

LEMMA ReplyTyped ==
    ASSUME AccountsTypeOK, NEW h \in Handlers, Reply(h)
    PROVE  /\ req' \in [Handlers -> Request \cup {None}]
           /\ client' \in [Wallets -> Nonces \cup {None}]
BY DEF AccountsTypeOK, Reply

\* Every step of a request keeps the types.
LEMMA ServeTyped ==
    ASSUME AccountsInv, NEW h \in Handlers, Serve(h)
    PROVE  AccountsTypeOK'
<1> USE DEF AccountsInv, At
<1>1. CASE Spend(h)
  <2>1. CASE nonces[req[h].nonce] = "none"
    BY <1>1, <2>1, ReplyTyped DEF Spend, Fail, tables, AccountsTypeOK
  <2>2. CASE nonces[req[h].nonce] # "none"
    <3>1. req' \in [Handlers -> Request \cup {None}]
      BY <1>1, <2>2, ProceedTyped DEF Spend
    <3> QED
      BY <1>1, <2>2, <3>1 DEF Spend, clients, AccountsTypeOK
  <2> QED
    BY <2>1, <2>2
<1>2. CASE FindUser(h)
  <2>1. req' \in [Handlers -> Request \cup {None}] /\ client' \in [Wallets -> Nonces \cup {None}]
    BY <1>2, ProceedTyped, ReplyTyped DEF FindUser, AccountsTypeOK
  <2> QED
    BY <1>2, <2>1 DEF FindUser, tables, AccountsTypeOK
<1>3. CASE CreateUser(h)
  <2> DEFINE l == req[h].who
             row == [name |-> req[h].name, by |-> l, linked |-> FALSE, active |-> TRUE]
  <2>1. req' \in [Handlers -> Request \cup {None}] /\ client' \in [Wallets -> Nonces \cup {None}]
    BY <1>3, ProceedTyped, ReplyTyped DEF CreateUser, AccountsTypeOK
  <2>2. row \in User
    BY <1>3 DEF CreateUser, InStep, User, AccountsTypeOK, Request
  <2>3. users' = users \/ users' = [users EXCEPT ![Mail(l)] = row]
    BY <1>3 DEF CreateUser
  <2>4. users' \in [Mails -> User \cup {None}]
    BY <2>2, <2>3 DEF AccountsTypeOK
  <2> QED
    BY <1>3, <2>1, <2>4 DEF CreateUser, AccountsTypeOK
<1>4. CASE Link(h)
  <2>1. req' \in [Handlers -> Request \cup {None}]
    BY <1>4, ProceedTyped DEF Link
  <2>2. Mail(req[h].who) \in Mails /\ users[Mail(req[h].who)] \in User
    BY <1>4, MailTyped DEF Link, InStep, Owns, HasRow, AccountsTypeOK, Request
  <2>3. [users[Mail(req[h].who)] EXCEPT !.linked = TRUE] \in User
    BY <2>2 DEF User
  <2>4. users' \in [Mails -> User \cup {None}]
    BY <1>4, <2>3 DEF Link, AccountsTypeOK
  <2> QED
    BY <1>4, <2>1, <2>4 DEF Link, clients, AccountsTypeOK
<1>5. CASE IssueToken(h)
  <2>1. req[h].who \in Logins
    BY <1>5 DEF IssueToken, AccountsTypeOK, Request
  <2> QED
    BY <1>5, <2>1, ReplyTyped DEF IssueToken, tables, AccountsTypeOK
<1>6. CASE \E n \in Names : PickName(h, n)
  <2>1. PICK n \in Names : PickName(h, n)
    BY <1>6
  <2>2. [req[h] EXCEPT !.at = "create", !.name = n] \in Request
    BY <2>1 DEF PickName, AccountsTypeOK, Request
  <2>3. req' = [req EXCEPT ![h] = [req[h] EXCEPT !.at = "create", !.name = n]]
    BY <2>1 DEF PickName
  <2>4. req' \in [Handlers -> Request \cup {None}]
    BY <2>2, <2>3 DEF AccountsTypeOK
  <2> QED
    BY <2>1, <2>4 DEF PickName, tables, clients, AccountsTypeOK
<1> QED
  BY <1>1, <1>2, <1>3, <1>4, <1>5, <1>6 DEF Serve

\* Nobody else's step loses a type either.
LEMMA OtherTyped ==
    ASSUME AccountsInv, [AccountsNext]_accountVars, \A h \in Handlers : ~Serve(h)
    PROVE  AccountsTypeOK'
<1> USE DEF AccountsInv
<1>1. ASSUME NEW w \in Wallets, NEW n \in Nonces, AskNonce(w, n) PROVE AccountsTypeOK'
  BY <1>1 DEF AskNonce, AccountsTypeOK
<1>2. ASSUME NEW n \in Nonces, ExpireNonce(n) PROVE AccountsTypeOK'
  BY <1>2 DEF ExpireNonce, clients, AccountsTypeOK
<1>3. ASSUME NEW l \in Logins, SignOut(l) PROVE AccountsTypeOK'
  BY <1>3 DEF SignOut, tables, AccountsTypeOK
<1>4. ASSUME NEW m \in Mails, NEW a \in BOOLEAN, SetActive(m, a) PROVE AccountsTypeOK'
  <2>1. users[m] \in User
    BY <1>4 DEF SetActive, HasRow, AccountsTypeOK
  <2>2. [users[m] EXCEPT !.active = a] \in User
    BY <2>1 DEF User
  <2>3. users' \in [Mails -> User \cup {None}]
    BY <1>4, <2>2 DEF SetActive, AccountsTypeOK
  <2> QED
    BY <1>4, <2>3 DEF SetActive, clients, AccountsTypeOK
<1>5. ASSUME NEW m \in Mails, Login(m) PROVE AccountsTypeOK'
  BY <1>5 DEF Login, tables, Logins, AccountsTypeOK
<1>6. ASSUME NEW h \in Handlers, NEW w \in Wallets, StartVerify(h, w) PROVE AccountsTypeOK'
  BY <1>6 DEF StartVerify, Logins, Request, tables, clients, AccountsTypeOK
<1>7. ASSUME NEW h \in Handlers, NEW w \in Wallets, RefuseVerify(h, w) PROVE AccountsTypeOK'
  BY <1>7 DEF RefuseVerify, tables, AccountsTypeOK
<1>8. ASSUME NEW h \in Handlers, NEW m \in Mails, NEW n \in Names, Register(h, m, n) PROVE AccountsTypeOK'
  BY <1>8 DEF Register, Logins, Request, tables, clients, AccountsTypeOK
<1>9. ASSUME NEW h \in Handlers, Crash(h) PROVE AccountsTypeOK'
  BY <1>9, ReplyTyped, CrashesAssumption DEF Crash, tables, AccountsTypeOK
<1>10. CASE SweepNonces
  BY <1>10 DEF SweepNonces, clients, AccountsTypeOK
<1>11. CASE UNCHANGED accountVars
  BY <1>11 DEF accountVars, tables, clients, AccountsTypeOK
<1> QED
  BY <1>1, <1>2, <1>3, <1>4, <1>5, <1>6, <1>7, <1>8, <1>9, <1>10, <1>11 DEF AccountsNext

\* Requests that do not move stay in step while rows only gain.
LEMMA WaitsInStep ==
    ASSUME AccountsTypeOK, RowsStay, NEW h \in Handlers, InStep(h), UNCHANGED req[h]
    PROVE  InStep(h)'
<1>1. req[h] # None => req[h].who \in Logins
  BY DEF AccountsTypeOK, Request
<1> QED
  BY <1>1, OwnersStay DEF InStep, At

\* Every step of a request keeps the invariant.  The row is made in the step
\* that sends the request on to complete it, and completed in the step that
\* sends it on to answer.
LEMMA ServeKeeps ==
    ASSUME AccountsInv, NEW h \in Handlers, Serve(h)
    PROVE  AccountsInv'
<1> USE DEF AccountsInv, At
<1>0. AccountsTypeOK' /\ crashes \in Nat /\ req[h] \in Request /\ req[h].who \in Logins
  BY ServeTyped DEF AccountsTypeOK, Request, Serve, Spend, FindUser, CreateUser, Link, IssueToken, PickName
<1>l. PICK l \in Logins : l = req[h].who
  BY <1>0
<1> USE <1>l
<1>a. ASSUME RowsStay, InStep(h)', \A g \in Handlers \ {h} : UNCHANGED req[g]
      PROVE  \A g \in Handlers : InStep(g)'
  BY <1>a, WaitsInStep
<1>b. ASSUME UNCHANGED <<users, crashes>>, InStep(h)', ~At(h, "link"),
             \A g \in Handlers \ {h} : UNCHANGED req[g], signedIn' \subseteq signedIn
      PROVE  AccountsInv'
  <2>1. RowsStay
    BY <1>b DEF RowsStay, HasRow
  <2>2. \A g \in Handlers : InStep(g)'
    BY <1>a, <1>b, <2>1
  <2> QED
    BY <1>0, <1>b, <2>2, QuietKeeps
<1>c. ASSUME Reply(h) PROVE /\ InStep(h)' /\ \A g \in Handlers \ {h} : UNCHANGED req[g]
  BY <1>c DEF Reply, InStep, AccountsTypeOK
<1>d. ASSUME NEW step \in {"find", "name", "create", "link", "answer"}, req[h] # None, Proceed(h, step)
      PROVE  /\ req'[h] # None /\ req'[h].at = step /\ req'[h].who = l
             /\ req'[h].name = req[h].name
             /\ \A g \in Handlers \ {h} : UNCHANGED req[g]
  BY <1>0, <1>d, ProceedTyped, RowsAssumption DEF Proceed, AccountsTypeOK, Request
<1>1. CASE Spend(h)
  <2>1. CASE nonces[req[h].nonce] = "none"
    BY <1>1, <2>1, <1>b, <1>c DEF Spend, Fail, tables
  <2>2. CASE nonces[req[h].nonce] # "none"
    <3>1. InStep(h)'
      BY <1>1, <2>2, <1>d DEF Spend, InStep
    <3> QED
      BY <1>1, <2>2, <3>1, <1>b, <1>d DEF Spend, clients
  <2> QED
    BY <2>1, <2>2
<1>2. CASE FindUser(h)
  <2>1. CASE Reply(h)
    BY <1>2, <2>1, <1>b, <1>c DEF FindUser, tables
  <2>2. CASE Found(l) /\ Proceed(h, "answer")
    <3>1. Found(l)' /\ Owns(l)'
      BY <1>0, <1>2, <2>2, SameRow DEF FindUser, Found, tables
    <3>2. InStep(h)'
      BY <1>2, <2>2, <3>1, <1>d DEF FindUser, InStep
    <3> QED
      BY <1>2, <2>2, <3>2, <1>b, <1>d DEF FindUser, tables
  <2>3. CASE Proceed(h, "name")
    <3>1. InStep(h)'
      BY <1>2, <2>3, <1>d DEF FindUser, InStep
    <3> QED
      BY <1>2, <2>3, <3>1, <1>b, <1>d DEF FindUser, tables
  <2> QED
    BY <1>2, <2>1, <2>2, <2>3 DEF FindUser
<1>3. CASE CreateUser(h)
  <2>1. CASE HasRow(Mail(l)) \/ Taken(req[h].name)
    BY <1>3, <2>1, <1>b, <1>c DEF CreateUser
  <2>2. CASE ~(HasRow(Mail(l)) \/ Taken(req[h].name))
    <3> DEFINE row == [name |-> req[h].name, by |-> l, linked |-> FALSE, active |-> TRUE]
               step == IF l \in Wallets THEN "link" ELSE "answer"
    <3>1. users' = [users EXCEPT ![Mail(l)] = row] /\ Proceed(h, step)
      BY <1>3, <2>2 DEF CreateUser
    <3>2. row \in User /\ row # None
      <4>1. req[h].name \in Names
        BY <1>3 DEF CreateUser, InStep
      <4>2. row \in User
        BY <1>0, <1>3, <4>1 DEF CreateUser, User
      <4> QED
        BY <4>2, RowsAssumption
    <3>3. /\ users'[Mail(l)] = row
          /\ \A m \in Mails \ {Mail(l)} : users'[m] = users[m]
      BY <1>0, <1>3, <3>1, MailTyped DEF CreateUser, AccountsTypeOK
    <3>4. RowsStay
      BY <2>2, <3>2, <3>3 DEF RowsStay, HasRow
    <3>5. /\ req'[h] # None /\ req'[h].at = step /\ req'[h].who = l
          /\ \A g \in Handlers \ {h} : UNCHANGED req[g]
      BY <1>3, <1>d, <3>1 DEF CreateUser
    <3>6. InStep(h)'
      <4>1. Owns(l)'
        BY <1>0, <1>3, <3>2, <3>3, MailTyped DEF CreateUser, Owns, HasRow
      <4> QED
        BY <3>5, <4>1 DEF InStep
    <3>7. \A g \in Handlers : InStep(g)'
      BY <1>a, <3>4, <3>5, <3>6
    <3>8. TokensNameUsers'
      BY <1>3, <3>4, TokensStay DEF CreateUser, AccountsTypeOK
    <3>9. OrphansNeedACrash'
      <4> SUFFICES ASSUME NEW w \in Wallets, Orphaned(w)' PROVE crashes' > 0
        BY DEF OrphansNeedACrash
      <4>1. w # l
        BY <3>5 DEF Orphaned
      <4>2. Mail(w) # Mail(l)
        BY <3>3, <4>1, MailTyped DEF Orphaned, Owns, Logins
      <4>3. Owns(w)' = Owns(w) /\ Found(w)' = Found(w)
        BY <3>3, <4>2, MailTyped, SameRow DEF Logins
      <4>4. \A g \in Handlers : ~(At(g, "link") /\ req[g].who = w)
        BY <3>5, <4>1 DEF Orphaned
      <4>5. Orphaned(w)
        BY <4>3, <4>4 DEF Orphaned
      <4> QED
        BY <1>3, <4>5 DEF CreateUser, OrphansNeedACrash
    <3> QED
      BY <1>0, <3>7, <3>8, <3>9
  <2> QED
    BY <2>1, <2>2
<1>4. CASE Link(h)
  <2>1. Proceed(h, "answer") /\ Owns(l) /\ users[Mail(l)] \in User /\ l \in Logins
    BY <1>0, <1>4, MailTyped DEF Link, InStep, Owns, HasRow, AccountsTypeOK
  <2>2. /\ users'[Mail(l)].linked /\ users'[Mail(l)].by = l
        /\ users'[Mail(l)] # None
        /\ \A m \in Mails \ {Mail(l)} : users'[m] = users[m]
    <3>1. users'[Mail(l)] = [users[Mail(l)] EXCEPT !.linked = TRUE]
          /\ \A m \in Mails \ {Mail(l)} : users'[m] = users[m]
      BY <1>4, <2>1, MailTyped DEF Link, AccountsTypeOK
    <3>2. users'[Mail(l)] \in User /\ users'[Mail(l)].linked /\ users'[Mail(l)].by = l
      BY <2>1, <3>1 DEF User, Owns
    <3> QED
      BY <3>1, <3>2, RowsAssumption
  <2>3. RowsStay
    BY <2>1, <2>2 DEF RowsStay, HasRow, Owns
  <2>4. /\ req'[h].at = "answer" /\ req'[h].who = l
        /\ \A g \in Handlers \ {h} : UNCHANGED req[g]
    BY <1>4, <1>d, <2>1 DEF Link
  <2>5. Owns(l)' /\ Found(l)'
    BY <2>1, <2>2, MailTyped DEF Owns, Found, HasRow
  <2>6. InStep(h)'
    BY <2>4, <2>5 DEF InStep
  <2>7. \A g \in Handlers : InStep(g)'
    BY <1>a, <2>3, <2>4, <2>6
  <2>8. TokensNameUsers'
    BY <1>4, <2>3, TokensStay DEF Link, clients, AccountsTypeOK
  <2>9. OrphansNeedACrash'
    <3> SUFFICES ASSUME NEW w \in Wallets, Orphaned(w)' PROVE crashes' > 0
      BY DEF OrphansNeedACrash
    <3>1. w # l
      BY <2>5 DEF Orphaned
    <3>2. Mail(w) # Mail(l)
      BY <2>1, <2>2, <3>1, MailTyped DEF Orphaned, Owns, Logins
    <3>3. Owns(w)' = Owns(w) /\ Found(w)' = Found(w)
      BY <2>2, <3>2, MailTyped, SameRow DEF Logins
    <3>4. \A g \in Handlers : ~(At(g, "link") /\ req[g].who = w)
      BY <2>4, <3>1 DEF Orphaned
    <3>5. Orphaned(w)
      BY <3>3, <3>4 DEF Orphaned
    <3> QED
      BY <1>4, <3>5 DEF Link, OrphansNeedACrash
  <2> QED
    BY <1>0, <2>7, <2>8, <2>9
<1>5. CASE IssueToken(h)
  <2>1. RowsStay /\ UNCHANGED <<users, crashes>>
    BY <1>5 DEF IssueToken, tables, RowsStay, HasRow
  <2>2. \A g \in Handlers : InStep(g)'
    BY <1>5, <1>a, <1>c, <2>1 DEF IssueToken
  <2>3. TokensNameUsers'
    <3>1. Owns(l) /\ (l \in Wallets => Found(l)) /\ l \in Logins
      BY <1>0, <1>5 DEF IssueToken, InStep
    <3> QED
      BY <1>5, <2>1, <3>1, OwnersStay DEF IssueToken, TokensNameUsers, AccountsTypeOK
  <2>4. OrphansNeedACrash'
    <3> SUFFICES ASSUME NEW w \in Wallets, Orphaned(w)' PROVE crashes' > 0
      BY DEF OrphansNeedACrash
    <3>1. \A g \in Handlers : ~(At(g, "link") /\ req[g].who = w)
      BY <1>5, <1>c DEF Orphaned, IssueToken
    <3>2. Orphaned(w)
      BY <2>1, <3>1, SameRow DEF Orphaned, Logins
    <3> QED
      BY <2>1, <3>2 DEF OrphansNeedACrash
  <2> QED
    BY <1>0, <2>2, <2>3, <2>4
<1>6. CASE \E n \in Names : PickName(h, n)
  <2>1. PICK n \in Names : PickName(h, n)
    BY <1>6
  <2>2. /\ req'[h] # None => req'[h].at = "create" /\ req'[h].name = n
        /\ \A g \in Handlers \ {h} : UNCHANGED req[g]
    BY <1>0, <2>1 DEF PickName, AccountsTypeOK, Request
  <2>3. InStep(h)'
    BY <2>2 DEF InStep
  <2> QED
    BY <2>1, <2>2, <2>3, <1>b DEF PickName, tables, clients
<1> QED
  BY <1>1, <1>2, <1>3, <1>4, <1>5, <1>6 DEF Serve

\* So does everything else; only a request that registers is a new one.
LEMMA OtherKeeps ==
    ASSUME AccountsInv, [AccountsNext]_accountVars, \A h \in Handlers : ~Serve(h)
    PROVE  AccountsInv'
<1> USE DEF AccountsInv, At
<1>0. AccountsTypeOK' /\ crashes \in Nat
  BY OtherTyped DEF AccountsTypeOK
<1>a. ASSUME RowsStay, UNCHANGED <<req, crashes>>, \A w \in Wallets : Orphaned(w)' => Orphaned(w),
             TokensNameUsers'
      PROVE  AccountsInv'
  <2>1. \A h \in Handlers : InStep(h)'
    BY <1>a, WaitsInStep
  <2>2. OrphansNeedACrash'
    BY <1>a DEF OrphansNeedACrash
  <2> QED
    BY <1>0, <1>a, <2>1, <2>2
<1>b. ASSUME UNCHANGED <<users, req, crashes>>, signedIn' \subseteq signedIn PROVE AccountsInv'
  <2>1. \A h \in Handlers : InStep(h)'
    BY <1>b, WaitsInStep DEF RowsStay, HasRow
  <2> QED
    BY <1>0, <1>b, <2>1, QuietKeeps
<1>c. ASSUME NEW h \in Handlers, req[h] = None, NEW who, NEW nonce, NEW name, NEW step \in {"spend", "create"},
             req' = [req EXCEPT ![h] = [at |-> step, who |-> who, nonce |-> nonce, name |-> name]],
             step = "create" => name \in Names, UNCHANGED <<users, crashes, signedIn>>
      PROVE  AccountsInv'
  <2>1. /\ req'[h].at = step /\ req'[h].name = name
        /\ \A g \in Handlers \ {h} : UNCHANGED req[g]
    BY <1>c DEF AccountsTypeOK
  <2>2. InStep(h)'
    BY <1>c, <2>1 DEF InStep
  <2>3. RowsStay
    BY <1>c DEF RowsStay, HasRow
  <2>4. \A g \in Handlers : InStep(g)'
    BY <2>1, <2>2, <2>3, WaitsInStep
  <2> QED
    BY <1>0, <1>c, <2>1, <2>4, QuietKeeps
<1>1. ASSUME NEW w \in Wallets, NEW n \in Nonces, AskNonce(w, n) PROVE AccountsInv'
  BY <1>1, <1>b DEF AskNonce
<1>2. ASSUME NEW n \in Nonces, ExpireNonce(n) PROVE AccountsInv'
  BY <1>2, <1>b DEF ExpireNonce, clients
<1>3. ASSUME NEW l \in Logins, SignOut(l) PROVE AccountsInv'
  BY <1>3, <1>b DEF SignOut, tables
<1>4. ASSUME NEW m \in Mails, NEW a \in BOOLEAN, SetActive(m, a) PROVE AccountsInv'
  <2>1. users[m] \in User
    BY <1>4 DEF SetActive, HasRow, AccountsTypeOK
  <2>2. users'[m] = [users[m] EXCEPT !.active = a] /\ \A k \in Mails \ {m} : users'[k] = users[k]
    BY <1>4 DEF SetActive, AccountsTypeOK
  <2>3. users'[m] \in User /\ users'[m].linked = users[m].linked /\ users'[m].by = users[m].by
    BY <2>1, <2>2 DEF User
  <2>4. \A k \in Mails : /\ HasRow(k)' = HasRow(k)
                         /\ users'[k].linked = users[k].linked /\ users'[k].by = users[k].by
    BY <2>1, <2>2, <2>3, RowsAssumption DEF HasRow
  <2>5. RowsStay
    BY <2>4 DEF RowsStay
  <2>6. \A w \in Wallets : Owns(w)' = Owns(w) /\ Found(w)' = Found(w)
    BY <2>4, MailTyped DEF Owns, Found, Logins
  <2>7. \A w \in Wallets : Orphaned(w)' => Orphaned(w)
    BY <1>4, <2>6 DEF SetActive, Orphaned
  <2>8. TokensNameUsers'
    BY <1>4, <2>5, TokensStay DEF SetActive, clients, AccountsTypeOK
  <2> QED
    BY <1>4, <1>a, <2>5, <2>7, <2>8 DEF SetActive
<1>5. ASSUME NEW m \in Mails, Login(m) PROVE AccountsInv'
  <2>1. RowsStay /\ UNCHANGED <<users, req, crashes>> /\ m \notin Wallets /\ Owns(m) /\ m \in Logins
    BY <1>5, LoginsAssumption DEF Login, tables, RowsStay, HasRow, Logins
  <2>2. TokensNameUsers'
    BY <1>5, <2>1, OwnersStay DEF Login, TokensNameUsers, AccountsTypeOK
  <2>3. \A w \in Wallets : Orphaned(w)' => Orphaned(w)
    BY <2>1, SameRow DEF Orphaned, Logins
  <2> QED
    BY <1>a, <2>1, <2>2, <2>3
<1>6. ASSUME NEW h \in Handlers, NEW w \in Wallets, StartVerify(h, w) PROVE AccountsInv'
  BY <1>6, <1>c DEF StartVerify, tables, clients
<1>7. ASSUME NEW h \in Handlers, NEW w \in Wallets, RefuseVerify(h, w) PROVE AccountsInv'
  BY <1>7, <1>b DEF RefuseVerify, tables
<1>8. ASSUME NEW h \in Handlers, NEW m \in Mails, NEW n \in Names, Register(h, m, n) PROVE AccountsInv'
  BY <1>8, <1>c DEF Register, tables, clients
<1>9. ASSUME NEW h \in Handlers, Crash(h) PROVE AccountsInv'
  <2>1. InStep(h)' /\ RowsStay /\ UNCHANGED <<users, signedIn>>
        /\ \A g \in Handlers \ {h} : UNCHANGED req[g]
    BY <1>9 DEF Crash, Reply, InStep, RowsStay, HasRow, tables, AccountsTypeOK
  <2>2. \A g \in Handlers : InStep(g)'
    BY <2>1, WaitsInStep
  <2>3. TokensNameUsers'
    BY <2>1, TokensStay DEF AccountsTypeOK
  <2>4. OrphansNeedACrash'
    BY <1>0, <1>9 DEF Crash, OrphansNeedACrash
  <2> QED
    BY <1>0, <2>2, <2>3, <2>4
<1>10. CASE SweepNonces
  BY <1>10, <1>b DEF SweepNonces, clients
<1>11. CASE UNCHANGED accountVars
  BY <1>11, <1>b DEF accountVars, tables, clients
<1> QED
  BY <1>1, <1>2, <1>3, <1>4, <1>5, <1>6, <1>7, <1>8, <1>9, <1>10, <1>11 DEF AccountsNext

\* Every step keeps the invariant.
LEMMA StepAccounts == AccountsInv /\ [AccountsNext]_accountVars => AccountsInv'
BY ServeKeeps, OtherKeeps

-----------------------------------------------------------------------------
(* The theorems.                                                           *)

\* The inductive invariant: who holds a token and what every request has come
\* to fit the rows of users, in every reachable state.
THEOREM AccountsAreConsistent == AccountsSpec => []AccountsInv
BY InitAccounts, StepAccounts, PTL DEF AccountsSpec

\* Type correctness of Accounts.
THEOREM AccountsTyped == AccountsSpec => []AccountsTypeOK
<1>1. AccountsInv => AccountsTypeOK
  BY DEF AccountsInv
<1> QED
  BY <1>1, AccountsAreConsistent, PTL

\* _token_response never names a user who is not there, or a wallet's user who
\* is not complete, whoever raced for the row.
THEOREM TokensAreUsers == AccountsSpec => []TokensNameUsers
<1>1. AccountsInv => TokensNameUsers
  BY DEF AccountsInv
<1> QED
  BY <1>1, AccountsAreConsistent, PTL

\* Interleaving alone leaves no wallet's user without its wallet_address: it
\* takes a crash between create_user and the save after it.
THEOREM OrphansAreCrashes == AccountsSpec => []OrphansNeedACrash
<1>1. AccountsInv => OrphansNeedACrash
  BY DEF AccountsInv
<1> QED
  BY <1>1, AccountsAreConsistent, PTL
=============================================================================
