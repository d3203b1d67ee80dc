----------------------------- MODULE RateLimit -----------------------------
(***************************************************************************)
(* The sliding-window limiter for one identifier: a sorted set in Redis    *)
(* that all workers share and, while Redis does not answer a ping, a list  *)
(* in the memory of each worker.                                           *)
(***************************************************************************)
EXTENDS Web, FiniteSets, Sequences

CONSTANTS
    MaxCalls,    \* limit
    Window,      \* window
    MaxTries     \* bound: requests

ASSUME WindowAssumption == MaxCalls \in Nat \ {0} /\ Window \in Nat \ {0} /\ MaxTries \in Nat
ASSUME PoolAssumption == IsFiniteSet(Workers) /\ "redis" \notin Workers

VARIABLES
    tried,     \* every decision made: by Redis or by a worker's memory (history)
    zset,      \* the members of the sorted set, as indices of tried
    expires,   \* when Redis drops the whole set
    memory,    \* _memory_windows of each worker, as indices of tried
    call,      \* the time a worker read before it executes its pipeline
    up         \* Redis answers

rateVars == <<tried, zset, expires, memory, call, up>>

RateInit ==
    /\ tried = <<>>
    /\ zset = {}
    /\ expires = 0
    /\ memory = [w \in Workers |-> {}]
    /\ call = [w \in Workers |-> None]
    /\ up = TRUE

Decide(by, at, ok) == tried' = Append(tried, [by |-> by, at |-> at, ok |-> ok])

\* What is left of a window at time t.
Recent(members, t) == {n \in members : tried[n].at + Window > t}

Free(w) == call[w] = None /\ Len(tried) < MaxTries

\* get_redis, and the time the pipeline will use.
Ping(w) ==
    /\ Free(w) /\ up
    /\ call' = [call EXCEPT ![w] = now]
    /\ UNCHANGED <<tried, zset, expires, memory, up>>

\* _memory_sliding_window: a refused request leaves no trace.
Remember(w) ==
    LET kept == Recent(memory[w], now)
        ok == Cardinality(kept) < MaxCalls
    IN  /\ Free(w) /\ ~up
        /\ Decide(w, now, ok)
        /\ memory' = [memory EXCEPT ![w] = IF ok THEN kept \cup {Len(tried) + 1} ELSE kept]
        /\ UNCHANGED <<zset, expires, call, up>>

\* Mutant: the members are named by the second they came in.
ExecuteBySecond(w) ==
    LET kept == Recent(IF now < expires THEN zset ELSE {}, call[w])
    IN  /\ call[w] # None /\ up /\ Len(tried) < MaxTries
        /\ Decide("redis", call[w], Cardinality({tried[n].at : n \in kept} \cup {call[w]}) <= MaxCalls)
        /\ zset' = kept \cup {Len(tried) + 1}
        /\ expires' = now + Window
        /\ call' = [call EXCEPT ![w] = None]
        /\ UNCHANGED <<memory, up>>

\* Mutant: nothing is removed from the set.
ExecuteUntrimmed(w) ==
    LET kept == IF now < expires THEN zset ELSE {}
    IN  /\ call[w] # None /\ up /\ Len(tried) < MaxTries
        /\ Decide("redis", call[w], Cardinality(kept) < MaxCalls)
        /\ zset' = kept \cup {Len(tried) + 1}
        /\ expires' = now + Window
        /\ call' = [call EXCEPT ![w] = None]
        /\ UNCHANGED <<memory, up>>

\* The pipeline of _sliding_window is one MULTI/EXEC: old members go, this one
\* is added, admitted or not, and all are counted.
Execute(w) ==
    LET kept == Recent(IF now < expires THEN zset ELSE {}, call[w])
    IN  /\ call[w] # None /\ up /\ Len(tried) < MaxTries
        /\ Decide("redis", call[w], Cardinality(kept) < MaxCalls)
        /\ zset' = kept \cup {Len(tried) + 1}
        /\ expires' = now + Window
        /\ call' = [call EXCEPT ![w] = None]
        /\ UNCHANGED <<memory, up>>

\* Redis went away after the ping: the exception is a 500.
Break(w) ==
    /\ call[w] # None /\ ~up
    /\ call' = [call EXCEPT ![w] = None]
    /\ UNCHANGED <<tried, zset, expires, memory, up>>

\* Connections to Redis fail for a while; what it holds it keeps.
Toggle ==
    /\ up' = ~up
    /\ UNCHANGED <<tried, zset, expires, memory, call>>

RateNext ==
    \/ /\ \/ Toggle
          \/ \E w \in Workers : Ping(w) \/ Remember(w) \/ Execute(w) \/ Break(w)
       /\ UNCHANGED now
    \/ Tick /\ UNCHANGED rateVars

RateSpec == now = 0 /\ RateInit /\ [][RateNext]_<<rateVars, now>>

-----------------------------------------------------------------------------
(* Properties                                                              *)

RateTypeOK ==
    /\ tried \in Seq([by : Workers \cup {"redis"}, at : Times, ok : BOOLEAN])
    /\ zset \in SUBSET DOMAIN tried
    /\ expires \in 0 .. MaxTime + Window
    /\ memory \in [Workers -> SUBSET DOMAIN tried]
    /\ call \in [Workers -> Times \cup {None}]
    /\ up \in BOOLEAN

\* Requests `by` admitted in the window that ends at t.
Admitted(by, t) ==
    {n \in DOMAIN tried :
        tried[n].ok /\ tried[n].by = by /\ tried[n].at <= t /\ tried[n].at + Window > t}

\* In no window does Redis admit more than the limit, except one request of each
\* worker that was delayed between reading the clock and the pipeline until later
\* ones had dropped the window; and no worker's memory admits more than the limit.
WithinLimit ==
    \A t \in Times :
        /\ Cardinality(Admitted("redis", t)) <= MaxCalls + Cardinality(Workers)
        /\ \A w \in Workers : Cardinality(Admitted(w, t)) <= MaxCalls

\* The n-th decision is Redis's, on a request that came after fewer than `limit`
\* others in the window before, and refuses it.
RefusedTooSoon(n) ==
    /\ tried'[n].by = "redis" /\ ~tried'[n].ok
    /\ Cardinality(Recent(DOMAIN tried, tried'[n].at)) < MaxCalls

\* Redis counts nobody out who has not made `limit` requests in the window before,
\* although refused requests stay in its set: who waits for a window gets in.
\* (FailClosed is about what happens without Redis.)
RefusedWereMany ==
    [][\A n \in DOMAIN tried' \ DOMAIN tried : ~RefusedTooSoon(n)]_tried

\* "fail-closed rate limits": what comes while Redis does not answer is refused.
FailClosed == \A n \in DOMAIN tried : tried[n].by \in Workers => ~tried[n].ok

=============================================================================
