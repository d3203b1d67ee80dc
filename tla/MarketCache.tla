---------------------------- MODULE MarketCache ----------------------------
(***************************************************************************)
(* The market data proxy: each worker keeps what CoinGecko answered and    *)
(* serves it for a while instead of asking again.                          *)
(***************************************************************************)
EXTENDS Web

CONSTANTS
    Entries,    \* "prices" and a chart per coin
    TTL         \* _PRICES_TTL, _CHART_TTL

ASSUME TTLAssumption == TTL \in [Entries -> Nat]

Entry == [stored : Times, received : Times]

ASSUME AnswersAssumption == None \notin Entry /\ None \notin Entries

VARIABLES
    cache,    \* _cache: when an entry was stored, and when CoinGecko sent its data
    fetch     \* the entry for which a worker waits for CoinGecko, however long
              \* (httpx limits each read of an answer, not the whole of it)

marketVars == <<cache, fetch>>

MarketInit ==
    /\ cache = [w \in Workers |-> [e \in Entries |-> None]]
    /\ fetch = [w \in Workers |-> None]

\* _cached
Valid(w, e) == cache[w][e] # None /\ now < cache[w][e].stored + TTL[e]

\* Mutant: a hit renews the entry.
HitAndRenew(w, e) ==
    /\ fetch[w] = None /\ Valid(w, e)
    /\ cache' = [cache EXCEPT ![w][e].stored = now]
    /\ UNCHANGED fetch

Hit(w, e) ==
    /\ fetch[w] = None /\ Valid(w, e)
    /\ UNCHANGED marketVars

Miss(w, e) ==
    /\ fetch[w] = None /\ ~Valid(w, e)
    /\ fetch' = [fetch EXCEPT ![w] = e]
    /\ UNCHANGED cache

\* _set_cache: the time is read after the answer came.
Store(w) ==
    /\ fetch[w] # None
    /\ cache' = [cache EXCEPT ![w][fetch[w]] = [stored |-> now, received |-> now]]
    /\ fetch' = [fetch EXCEPT ![w] = None]

\* A 429, an error or an empty answer is a 503; what was stored stays, expired.
FetchFails(w) ==
    /\ fetch[w] # None
    /\ fetch' = [fetch EXCEPT ![w] = None]
    /\ UNCHANGED cache

MarketNext ==
    \/ /\ \E w \in Workers :
             \/ Store(w) \/ FetchFails(w)
             \/ \E e \in Entries : Hit(w, e) \/ Miss(w, e)
       /\ UNCHANGED now
    \/ Tick /\ UNCHANGED marketVars

MarketSpec == now = 0 /\ MarketInit /\ [][MarketNext]_<<marketVars, now>>

-----------------------------------------------------------------------------
(* Properties                                                              *)

MarketTypeOK ==
    /\ now \in Times
    /\ cache \in [Workers -> [Entries -> Entry \cup {None}]]
    /\ fetch \in [Workers -> Entries \cup {None}]

\* A client whose requests reach different workers is never shown data that is a
\* time to live or more behind what it has seen, however often one worker's entry
\* is asked for and whenever the others' were fetched.
WorkersAgree ==
    \A v, w \in Workers, e \in Entries :
        Valid(v, e) /\ Valid(w, e) =>
            cache[v][e].received < cache[w][e].received + TTL[e]

=============================================================================
