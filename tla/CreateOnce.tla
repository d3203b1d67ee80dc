----------------------------- MODULE CreateOnce -----------------------------
(***************************************************************************)
(* What POST /payments promises its clients, with no transaction to be     *)
(* seen: a payment comes with its deposit wallet in one step, a key makes  *)
(* one payment only, and a client is told once, of a payment that is its   *)
(* own or, with a key, of the one its key made.                            *)
(***************************************************************************)
CONSTANTS Requests, Ids, UserOf, KeyOf, None

VARIABLES
    owner,      \* owner[i]: the merchant of payment i, None while there is none
    key,        \* key[i]: its idempotency key
    wallets,    \* wallets[j]: the payment that deposit wallet j is for
    answer      \* answer[r]: the payment the client of request r was told of

vars == <<owner, key, wallets, answer>>

Init ==
    /\ owner = [i \in Ids |-> None]
    /\ key = [i \in Ids |-> None]
    /\ wallets = [i \in Ids |-> None]
    /\ answer = [r \in Requests |-> None]

Make(r, i) ==
    /\ owner[i] = None /\ wallets[i] = None
    /\ KeyOf[r] # None => \A j \in Ids : owner[j] # None => key[j] # KeyOf[r]
    /\ owner' = [owner EXCEPT ![i] = UserOf[r]]
    /\ key' = [key EXCEPT ![i] = KeyOf[r]]
    /\ wallets' = [wallets EXCEPT ![i] = i]
    /\ UNCHANGED answer

Tell(r, i) ==
    /\ answer[r] = None
    /\ owner[i] = UserOf[r] /\ key[i] = KeyOf[r]
    /\ KeyOf[r] = None => \A s \in Requests : answer[s] # i
    /\ answer' = [answer EXCEPT ![r] = i]
    /\ UNCHANGED <<owner, key, wallets>>

Next == \E r \in Requests, i \in Ids : Make(r, i) \/ Tell(r, i)

Spec == Init /\ [][Next]_vars

=============================================================================
