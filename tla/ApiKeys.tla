------------------------------ MODULE ApiKeys ------------------------------
(***************************************************************************)
(* The api_keys table: keys made, revoked and regenerated by their owners  *)
(* (with a token, or the dashboard's session) and presented by the owners' *)
(* servers.  Each statement commits on its own.  Requests without a valid  *)
(* token or key are refused and change nothing; they are left out.         *)
(***************************************************************************)
EXTENDS Web, FiniteSets

CONSTANTS
    Users,       \* merchants who hold a token or a session, and are not suspended
    Keys,        \* ids of api_keys, in the order the sequence gives them
    Limit,       \* MAX_API_KEYS_PER_USER
    MaxCrashes   \* bound: workers that die

ASSUME KeysAssumption == Keys \subseteq Nat /\ IsFiniteSet(Keys) /\ None \notin Keys
ASSUME WorkersAssumption == IsFiniteSet(Workers)
ASSUME LimitAssumption == Limit \in Nat \ {0}
ASSUME CrashesAssumption == MaxCrashes \in Nat

VARIABLES
    keys,     \* rows; `old` is the key this one was generated to replace (history)
    revoked,  \* keys whose owner revoked them (history)
    job,      \* the request a worker is serving
    crashes

keyVars == <<keys, revoked, job, crashes>>

Key == [user : Users, active : BOOLEAN, old : Keys \cup {None}]
Job == [at : {"insert", "replace", "retire", "owner"}, user : Users, key : Keys \cup {None}]

ASSUME JobsAssumption == None \notin Key /\ None \notin Job

KeysInit ==
    /\ keys = [k \in Keys |-> None]
    /\ revoked = {}
    /\ job = [w \in Workers |-> None]
    /\ crashes = 0

Owns(u, k) == keys[k] # None /\ keys[k].user = u

Active(u) == {k \in Keys : Owns(u, k) /\ keys[k].active}

JobAt(w, step) == job[w] # None /\ job[w].at = step

Begin(w, step, u, k) == job' = [job EXCEPT ![w] = [at |-> step, user |-> u, key |-> k]]

End(w) == job' = [job EXCEPT ![w] = None]

\* Bound: no request is begun whose key would get no id.
Spare ==
    Cardinality({k \in Keys : keys[k] = None}) >
        Cardinality({w \in Workers : JobAt(w, "insert") \/ JobAt(w, "replace")})

InsertKey(u, old) ==
    \E k \in Keys :
        /\ keys[k] = None /\ \A j \in Keys : j < k => keys[j] # None
        /\ keys' = [keys EXCEPT ![k] = [user |-> u, active |-> TRUE, old |-> old]]

-----------------------------------------------------------------------------
(* Creating, revoking.                                                     *)

\* Mutant: the limit itself may be counted.
CountOneMore(w, u) ==
    /\ job[w] = None /\ Cardinality(Active(u)) <= Limit
    /\ Spare /\ Begin(w, "insert", u, None)
    /\ UNCHANGED <<keys, revoked>>

\* ApiKeysView.post and the dashboard's form: count first, insert later.
Count(w, u) ==
    /\ job[w] = None /\ Cardinality(Active(u)) < Limit
    /\ Spare /\ Begin(w, "insert", u, None)
    /\ UNCHANGED <<keys, revoked>>

Insert(w) ==
    /\ JobAt(w, "insert")
    /\ InsertKey(job[w].user, None)
    /\ End(w)
    /\ UNCHANGED revoked

\* ApiKeyDetailView.delete, or the form's UPDATE: only is_active is written.
Revoke(w, u, k) ==
    /\ job[w] = None /\ Owns(u, k)
    /\ keys' = [keys EXCEPT ![k].active = FALSE]
    /\ revoked' = revoked \cup {k}
    /\ UNCHANGED job

-----------------------------------------------------------------------------
(* Regenerating.                                                           *)

\* The old key may be active or not.  At the limit is_active = False is set on
\* the copy only, and saved with it by Retire.
Load(w, u, k) ==
    /\ job[w] = None /\ Owns(u, k)
    /\ Spare /\ Begin(w, "replace", u, k)
    /\ UNCHANGED <<keys, revoked>>

\* Mutant: the old key is retired in the step before the new one is made.
RetireFirst(w) ==
    /\ JobAt(w, "replace")
    /\ keys' = [keys EXCEPT ![job[w].key].active = FALSE]
    /\ Begin(w, "insert", job[w].user, None)
    /\ UNCHANGED revoked

Replace(w) ==
    /\ JobAt(w, "replace")
    /\ InsertKey(job[w].user, job[w].key)
    /\ Begin(w, "retire", job[w].user, job[w].key)
    /\ UNCHANGED revoked

Retire(w) ==
    /\ JobAt(w, "retire")
    /\ keys' = [keys EXCEPT ![job[w].key].active = FALSE]
    /\ End(w)
    /\ UNCHANGED revoked

-----------------------------------------------------------------------------
(* Presenting a key.                                                       *)

\* verify_api_key finds the active row by the hash of what it was given.
Present(w, k) ==
    /\ job[w] = None /\ keys[k] # None /\ keys[k].active
    /\ Begin(w, "owner", keys[k].user, k)
    /\ UNCHANGED <<keys, revoked>>

\* Mutant: save() without update_fields writes the whole row back as it was read.
SaveWholeKey(w) ==
    /\ JobAt(w, "owner")
    /\ keys' = [keys EXCEPT ![job[w].key].active = TRUE]
    /\ End(w)
    /\ UNCHANGED revoked

\* Its owner must be active; last_used_at is the only column saved.
CheckOwner(w) ==
    /\ JobAt(w, "owner")
    /\ End(w)
    /\ UNCHANGED <<keys, revoked>>

\* The process dies, or has no connection to the database any more.
Crash(w) ==
    /\ job[w] # None /\ crashes < MaxCrashes
    /\ crashes' = crashes + 1
    /\ End(w)
    /\ UNCHANGED <<keys, revoked>>

Handle(w) ==
    \/ Insert(w) \/ Replace(w) \/ Retire(w) \/ CheckOwner(w)
    \/ \E k \in Keys : Present(w, k)
    \/ \E u \in Users : Count(w, u) \/ \E k \in Keys : Revoke(w, u, k) \/ Load(w, u, k)

KeysNext == \E w \in Workers : Crash(w) \/ (Handle(w) /\ UNCHANGED crashes)

KeysSpec == KeysInit /\ [][KeysNext]_keyVars

-----------------------------------------------------------------------------
(* Properties                                                              *)

KeysTypeOK ==
    /\ keys \in [Keys -> Key \cup {None}]
    /\ revoked \in SUBSET Keys
    /\ job \in [Workers -> Job \cup {None}]
    /\ crashes \in 0 .. MaxCrashes

\* A key that stopped working, because it was revoked or replaced, never works
\* again, whatever requests had read its row before.
RevokedIsFinal ==
    [][\A k \in Keys : keys[k] # None /\ ~keys[k].active => ~keys'[k].active]_keys

\* A key that was not revoked stops working only when the key that replaces it
\* is in the table: a crash in the middle of regenerating leaves both or the old.
ReplacedHasSuccessor ==
    \A k \in Keys : keys[k] # None /\ ~keys[k].active /\ k \notin revoked =>
        \E j \in Keys : keys[j] # None /\ keys[j].old = k

\* Creations that count at the same time can pass the limit, but by no more than
\* one for every other worker.
Created(u) == {k \in Active(u) : keys[k].old = None}

CreationsWithinLimit ==
    \A u \in Users : Cardinality(Created(u)) < Limit + Cardinality(Workers)

=============================================================================
