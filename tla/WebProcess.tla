----------------------------- MODULE WebProcess -----------------------------
(***************************************************************************)
(* The parts of the web server that keep state between requests, other     *)
(* than payments and sign-in.  They share workers and clock but no other   *)
(* variable, so what one of them does in a behaviour of all it does in a   *)
(* behaviour of it alone: `load` picks the one requests come for.          *)
(***************************************************************************)
EXTENDS ApiKeys, RateLimit, MarketCache, ChainHealth

VARIABLE load

vars == <<load, now, keyVars, rateVars, marketVars, healthVars>>

Init ==
    /\ load \in {"keys", "limit", "markets", "health"}
    /\ now = 0
    /\ KeysInit /\ RateInit /\ MarketInit /\ HealthInit

Next ==
    /\ UNCHANGED load
    /\ \/ load = "keys" /\ KeysNext /\ UNCHANGED <<now, rateVars, marketVars, healthVars>>
       \/ load = "limit" /\ RateNext /\ UNCHANGED <<keyVars, marketVars, healthVars>>
       \/ load = "markets" /\ MarketNext /\ UNCHANGED <<keyVars, rateVars, healthVars>>
       \/ load = "health" /\ HealthNext /\ UNCHANGED <<now, keyVars, rateVars, marketVars>>

Spec == Init /\ [][Next]_vars

TypeOK == KeysTypeOK /\ RateTypeOK /\ MarketTypeOK /\ HealthTypeOK

=============================================================================
