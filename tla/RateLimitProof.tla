--------------------------- MODULE RateLimitProof ---------------------------
(***************************************************************************)
(* Theorems about RateLimit, for any limit and window, any number of       *)
(* workers and of requests.                                                *)
(***************************************************************************)
EXTENDS RateLimit, FiniteSetTheorems, TLAPS

Deciders == Workers \cup {"redis"}

Tried == [by : Deciders, at : Times, ok : BOOLEAN]

Kept(w) == Recent(IF now < expires THEN zset ELSE {}, call[w])

\* What was decided less than a window ago is still where it was decided: whatever
\* Redis counted, and what a memory admitted.
Remembered ==
    \A n \in DOMAIN tried :
        tried[n].at + Window > now =>
            /\ tried[n].by = "redis" => n \in zset /\ tried[n].at + Window <= expires
            /\ tried[n].by \in Workers /\ tried[n].ok => n \in memory[tried[n].by]

\* Nothing is dated after now.
Dated ==
    /\ \A n \in DOMAIN tried : tried[n].at <= now
    /\ \A w \in Workers : call[w] # None => call[w] <= now
    /\ expires <= now + Window

\* Workers that read the clock at t or before and have not executed yet.
Delayed(t) == {w \in Workers : call[w] # None /\ call[w] <= t}

\* Windows that end now or later are within the limit.  Into those that have ended
\* Redis can only admit what was delayed.
Bounded ==
    \A t \in Times :
        /\ \A w \in Workers : Cardinality(Admitted(w, t)) <= MaxCalls
        /\ t >= now => Cardinality(Admitted("redis", t)) <= MaxCalls
        /\ t < now => Cardinality(Admitted("redis", t)) + Cardinality(Delayed(t))
                          <= MaxCalls + Cardinality(Workers)

RateInv == now \in Times /\ RateTypeOK /\ Dated /\ Remembered /\ Bounded

-----------------------------------------------------------------------------
(* Lemmas.                                                                 *)

\* The sets that are counted are finite.
LEMMA Finite ==
    ASSUME RateTypeOK, NEW S, S \subseteq DOMAIN tried
    PROVE  IsFiniteSet(S) /\ Cardinality(S) \in Nat
<1>1. DOMAIN tried = 1 .. Len(tried) /\ Len(tried) \in Nat
  BY DEF RateTypeOK
<1>2. IsFiniteSet(DOMAIN tried)
  BY <1>1, FS_Interval
<1> QED
  BY <1>2, FS_Subset, FS_CardinalityType

LEMMA DelayedFinite ==
    ASSUME NEW t
    PROVE  /\ IsFiniteSet(Delayed(t)) /\ Cardinality(Delayed(t)) \in Nat
           /\ Cardinality(Delayed(t)) <= Cardinality(Workers) /\ Cardinality(Workers) \in Nat
<1>1. Delayed(t) \subseteq Workers
  BY DEF Delayed
<1> QED
  BY <1>1, PoolAssumption, FS_Subset, FS_CardinalityType

LEMMA DelayedFiniteNext ==
    ASSUME NEW t
    PROVE  /\ IsFiniteSet(Delayed(t)') /\ Cardinality(Delayed(t)') \in Nat
           /\ Cardinality(Delayed(t)') <= Cardinality(Workers)
<1>1. Delayed(t)' \subseteq Workers
  BY DEF Delayed
<1> QED
  BY <1>1, PoolAssumption, FS_Subset, FS_CardinalityType

LEMMA EntryTyped ==
    ASSUME RateTypeOK, NEW n \in DOMAIN tried
    PROVE  tried[n] \in Tried /\ tried[n].at \in Nat
<1>1. tried \in Seq(Tried)
  BY DEF RateTypeOK, Tried, Deciders
<1>2. n \in 1 .. Len(tried)
  BY <1>1
<1>3. tried[n] \in Tried
  BY <1>1, <1>2
<1> QED
  BY <1>3, TimeAssumption DEF Tried, Times

\* A decision is one more entry.
LEMMA DecideAppends ==
    ASSUME RateTypeOK, NEW by \in Deciders, NEW at \in Times, NEW ok \in BOOLEAN, Decide(by, at, ok)
    PROVE  /\ tried' \in Seq(Tried)
           /\ Len(tried) + 1 \notin DOMAIN tried
           /\ DOMAIN tried' = DOMAIN tried \cup {Len(tried) + 1}
           /\ tried'[Len(tried) + 1].by = by /\ tried'[Len(tried) + 1].at = at
           /\ tried'[Len(tried) + 1].ok = ok
           /\ \A n \in DOMAIN tried : tried'[n] = tried[n] /\ tried[n] \in Tried
<1> DEFINE e == [by |-> by, at |-> at, ok |-> ok]
<1>1. e \in Tried
  BY DEF Tried
<1>2. tried \in Seq(Tried)
  BY DEF RateTypeOK, Tried, Deciders
<1>3. tried' = Append(tried, e)
  BY DEF Decide
<1> HIDE DEF e
<1>4. /\ tried' \in Seq(Tried) /\ Len(tried') = Len(tried) + 1
      /\ tried'[Len(tried) + 1] = e
      /\ \A n \in 1 .. Len(tried) : tried'[n] = tried[n] /\ tried[n] \in Tried
  BY <1>1, <1>2, <1>3
<1>5. DOMAIN tried = 1 .. Len(tried) /\ DOMAIN tried' = 1 .. Len(tried') /\ Len(tried) \in Nat
  BY <1>2, <1>4
<1> QED
  BY <1>4, <1>5 DEF e

\* What is admitted of it is what was, and perhaps the new entry.
LEMMA AdmittedNext ==
    ASSUME RateTypeOK, NEW by \in Deciders, NEW at \in Times, NEW ok \in BOOLEAN, Decide(by, at, ok),
           NEW who \in Deciders, NEW t \in Times
    PROVE  /\ IsFiniteSet(Admitted(who, t)) /\ Cardinality(Admitted(who, t)) \in Nat
           /\ Cardinality(Admitted(who, t)') \in Nat
           /\ Cardinality(Admitted(who, t)') <= Cardinality(Admitted(who, t)) + 1
           /\ ~(ok /\ who = by /\ at <= t /\ at + Window > t) => Admitted(who, t)' = Admitted(who, t)
<1> DEFINE new == Len(tried) + 1
<1>1. /\ new \notin DOMAIN tried
      /\ DOMAIN tried' = DOMAIN tried \cup {new}
      /\ tried'[new].by = by /\ tried'[new].at = at /\ tried'[new].ok = ok
      /\ \A n \in DOMAIN tried : tried'[n] = tried[n]
  BY DecideAppends
<1> HIDE DEF new
<1>2. Admitted(who, t)' = Admitted(who, t) \/ Admitted(who, t)' = Admitted(who, t) \cup {new}
  BY <1>1 DEF Admitted
<1>3. ~(ok /\ who = by /\ at <= t /\ at + Window > t) => Admitted(who, t)' = Admitted(who, t)
  BY <1>1 DEF Admitted
<1>4. /\ IsFiniteSet(Admitted(who, t)) /\ Cardinality(Admitted(who, t)) \in Nat
      /\ new \notin Admitted(who, t)
  BY <1>1, Finite DEF Admitted
<1>5. Cardinality(Admitted(who, t) \cup {new}) = Cardinality(Admitted(who, t)) + 1
  BY <1>4, FS_AddElement
<1> QED
  BY <1>2, <1>3, <1>4, <1>5

LEMMA InitRate == now = 0 /\ RateInit => RateInv
<1> SUFFICES ASSUME now = 0, RateInit PROVE RateInv
  OBVIOUS
<1> USE TimeAssumption, WindowAssumption
<1>1. now \in Times /\ RateTypeOK
  BY DEF RateInit, RateTypeOK, Times
<1>2. Dated /\ Remembered
  BY DEF RateInit, Dated, Remembered
<1>3. ASSUME NEW who, NEW t PROVE Admitted(who, t) = {}
  BY DEF RateInit, Admitted
<1>4. Cardinality({}) = 0
  BY FS_EmptySet
<1>5. Bounded
  BY <1>1, <1>3, <1>4 DEF Bounded, Times
<1> QED
  BY <1>1, <1>2, <1>5 DEF RateInv

\* A worker's memory: all it admitted in the window that ends now is in the list
\* it counts, and an older window gets nothing new.
LEMMA RememberKeeps ==
    ASSUME RateInv, NEW w \in Workers, Remember(w), UNCHANGED now
    PROVE  RateInv'
<1> USE WindowAssumption, TimeAssumption DEF RateInv
<1> DEFINE kept == Recent(memory[w], now)
           ok == Cardinality(kept) < MaxCalls
           new == Len(tried) + 1
<1>1. /\ w \in Deciders /\ ok \in BOOLEAN /\ Decide(w, now, ok)
      /\ memory' = [memory EXCEPT ![w] = IF ok THEN kept \cup {new} ELSE kept]
      /\ UNCHANGED <<zset, expires, call>> /\ up' = up
  BY DEF Remember, Deciders
<1>2. /\ tried' \in Seq(Tried) /\ new \notin DOMAIN tried
      /\ DOMAIN tried' = DOMAIN tried \cup {new}
      /\ tried'[new].by = w /\ tried'[new].at = now /\ tried'[new].ok = ok
      /\ \A n \in DOMAIN tried : tried'[n] = tried[n] /\ tried[n] \in Tried
  BY <1>1, DecideAppends
<1>3. kept \subseteq DOMAIN tried /\ kept \subseteq memory[w]
  BY DEF Recent, RateTypeOK
<1>4. \A v \in Workers : memory'[v] = IF v # w THEN memory[v] ELSE IF ok THEN kept \cup {new} ELSE kept
  BY <1>1 DEF RateTypeOK
<1>5. RateTypeOK'
  <2>1. memory' \in [Workers -> SUBSET DOMAIN tried']
    BY <1>1, <1>2, <1>3 DEF RateTypeOK
  <2>2. zset' \in SUBSET DOMAIN tried'
    BY <1>1, <1>2 DEF RateTypeOK
  <2> QED
    BY <1>1, <1>2, <2>1, <2>2 DEF RateTypeOK, Tried, Deciders
<1>6. Dated'
  BY <1>1, <1>2 DEF Dated, Times
<1>7. Remembered'
  <2> SUFFICES ASSUME NEW n \in DOMAIN tried', tried'[n].at + Window > now
               PROVE  /\ tried'[n].by = "redis" => n \in zset /\ tried'[n].at + Window <= expires
                      /\ tried'[n].by \in Workers /\ tried'[n].ok => n \in memory'[tried'[n].by]
    BY <1>1 DEF Remembered
  <2>1. CASE n = new
    BY <1>2, <1>4, <2>1, PoolAssumption
  <2>2. CASE n \in DOMAIN tried
    <3>1. tried'[n] = tried[n]
      BY <1>2, <2>2
    <3>2. n \in memory[w] => n \in kept
      BY <2>2, <3>1 DEF Recent
    <3> QED
      BY <1>4, <2>2, <3>1, <3>2 DEF Remembered
  <2> QED
    BY <1>2, <2>1, <2>2
<1>8. ASSUME NEW who \in Deciders, NEW t \in Times
      PROVE  /\ Cardinality(Admitted(who, t)) \in Nat /\ Cardinality(Admitted(who, t)') \in Nat
             /\ Cardinality(Admitted(who, t)') <= Cardinality(Admitted(who, t)) + 1
             /\ ~(ok /\ who = w /\ now <= t /\ now + Window > t) => Admitted(who, t)' = Admitted(who, t)
  <2> HIDE DEF ok
  <2> QED
    BY <1>1, AdmittedNext
<1>9. Bounded'
  <2> SUFFICES ASSUME NEW t \in Times
               PROVE  /\ \A v \in Workers : Cardinality(Admitted(v, t)') <= MaxCalls
                      /\ Admitted("redis", t)' = Admitted("redis", t)
    BY <1>1 DEF Bounded, Delayed
  <2>1. Admitted("redis", t)' = Admitted("redis", t)
    BY <1>8, PoolAssumption DEF Deciders
  <2>2. ASSUME NEW v \in Workers PROVE Cardinality(Admitted(v, t)') <= MaxCalls
    <3>0. v \in Deciders
      BY DEF Deciders
    <3>1. CASE ok /\ v = w /\ now <= t /\ now + Window > t
      <4>1. Admitted(w, t) \subseteq kept
        <5> SUFFICES ASSUME NEW n \in Admitted(w, t) PROVE n \in kept
          OBVIOUS
        <5>1. n \in DOMAIN tried /\ tried[n].ok /\ tried[n].by = w /\ tried[n].at + Window > t
          BY DEF Admitted
        <5>2. tried[n].at \in Nat
          BY <1>2, <5>1 DEF Tried, Times
        <5>3. tried[n].at + Window > now
          BY <3>1, <5>1, <5>2 DEF Times
        <5> QED
          BY <5>1, <5>3 DEF Remembered, Recent
      <4>2. Cardinality(Admitted(w, t)) <= Cardinality(kept) /\ Cardinality(kept) \in Nat
        BY <1>3, <4>1, Finite, FS_Subset
      <4> QED
        BY <1>8, <3>0, <3>1, <4>2
    <3>2. CASE ~(ok /\ v = w /\ now <= t /\ now + Window > t)
      <4>1. Admitted(v, t)' = Admitted(v, t)
        BY <1>8, <3>0, <3>2
      <4> QED
        BY <4>1 DEF Bounded
    <3> QED
      BY <3>1, <3>2
  <2> QED
    BY <2>1, <2>2
<1> QED
  BY <1>5, <1>6, <1>7, <1>9

\* The sorted set: at a window that has not ended Redis counts all it admitted
\* in it; into one that has ended it admits in place of a delayed worker.
LEMMA ExecuteKeeps ==
    ASSUME RateInv, NEW w \in Workers, Execute(w), UNCHANGED now
    PROVE  RateInv'
<1> USE WindowAssumption, TimeAssumption DEF RateInv
<1> DEFINE c == call[w]
           kept == Kept(w)
           ok == Cardinality(kept) < MaxCalls
           new == Len(tried) + 1
<1>0. call[w] # None /\ c \in Times /\ c <= now
  BY DEF Execute, RateTypeOK, Dated
<1>1. /\ "redis" \in Deciders /\ ok \in BOOLEAN /\ Decide("redis", c, ok)
      /\ zset' = kept \cup {new} /\ expires' = now + Window
      /\ call' = [call EXCEPT ![w] = None] /\ UNCHANGED <<memory, up>>
  BY DEF Execute, Kept, Deciders
<1>2. /\ tried' \in Seq(Tried) /\ new \notin DOMAIN tried
      /\ DOMAIN tried' = DOMAIN tried \cup {new}
      /\ tried'[new].by = "redis" /\ tried'[new].at = c /\ tried'[new].ok = ok
      /\ \A n \in DOMAIN tried : tried'[n] = tried[n] /\ tried[n] \in Tried
  BY <1>0, <1>1, DecideAppends
<1>3. kept \subseteq DOMAIN tried
  BY DEF Kept, Recent, RateTypeOK
<1>4. \A n \in DOMAIN tried : tried[n].at + Window > now /\ tried[n].by = "redis" => n \in kept
  <2> SUFFICES ASSUME NEW n \in DOMAIN tried, tried[n].at + Window > now, tried[n].by = "redis"
               PROVE  n \in kept
    OBVIOUS
  <2>1. n \in zset /\ tried[n].at + Window <= expires /\ tried[n].at \in Nat
    BY <1>2 DEF Remembered, Tried, Times
  <2>2. now < expires /\ tried[n].at + Window > c
    BY <1>0, <2>1 DEF RateTypeOK, Times
  <2> QED
    BY <2>1, <2>2 DEF Kept, Recent
<1>5. RateTypeOK'
  <2>1. memory' \in [Workers -> SUBSET DOMAIN tried']
    BY <1>1, <1>2 DEF RateTypeOK
  <2>2. zset' \in SUBSET DOMAIN tried'
    BY <1>1, <1>2, <1>3
  <2>3. expires' \in 0 .. MaxTime + Window
    BY <1>1 DEF Times
  <2>4. call' \in [Workers -> Times \cup {None}]
    BY <1>1 DEF RateTypeOK
  <2> QED
    BY <1>1, <1>2, <2>1, <2>2, <2>3, <2>4 DEF RateTypeOK, Tried, Deciders
<1>6. Dated'
  <2>1. \A n \in DOMAIN tried' : tried'[n].at <= now
    BY <1>0, <1>2 DEF Dated
  <2>2. \A v \in Workers : call'[v] # None => call'[v] <= now
    BY <1>1 DEF Dated, RateTypeOK
  <2> QED
    BY <1>1, <2>1, <2>2 DEF Dated, Times
<1>7. Remembered'
  <2> SUFFICES ASSUME NEW n \in DOMAIN tried', tried'[n].at + Window > now
               PROVE  /\ tried'[n].by = "redis" => n \in zset' /\ tried'[n].at + Window <= expires'
                      /\ tried'[n].by \in Workers /\ tried'[n].ok => n \in memory'[tried'[n].by]
    BY DEF Remembered
  <2>1. CASE n = new
    BY <1>0, <1>1, <1>2, <2>1, PoolAssumption DEF Times
  <2>2. CASE n \in DOMAIN tried
    <3>1. tried'[n] = tried[n] /\ tried[n].at \in Nat /\ tried[n].at <= now
      BY <1>2, <2>2 DEF Tried, Times, Dated
    <3>2. tried[n].by = "redis" => n \in zset' /\ tried[n].at + Window <= expires'
      BY <1>1, <1>4, <2>2, <3>1 DEF Times
    <3> QED
      BY <1>1, <2>2, <3>1, <3>2 DEF Remembered
  <2> QED
    BY <1>2, <2>1, <2>2
<1>8. ASSUME NEW who \in Deciders, NEW t \in Times
      PROVE  /\ Cardinality(Admitted(who, t)) \in Nat /\ Cardinality(Admitted(who, t)') \in Nat
             /\ Cardinality(Admitted(who, t)') <= Cardinality(Admitted(who, t)) + 1
             /\ ~(ok /\ who = "redis" /\ c <= t) => Admitted(who, t)' = Admitted(who, t)
  <2> HIDE DEF ok, c
  <2> QED
    BY <1>0, <1>1, AdmittedNext
<1>9. Bounded'
  <2> SUFFICES ASSUME NEW t \in Times
               PROVE  /\ \A v \in Workers : Admitted(v, t)' = Admitted(v, t)
                      /\ t >= now => Cardinality(Admitted("redis", t)') <= MaxCalls
                      /\ t < now => Cardinality(Admitted("redis", t)') + Cardinality(Delayed(t)')
                                        <= MaxCalls + Cardinality(Workers)
    BY DEF Bounded
  <2>1. \A v \in Workers : Admitted(v, t)' = Admitted(v, t)
    BY <1>8, PoolAssumption DEF Deciders
  <2>2. /\ Cardinality(Admitted("redis", t)) \in Nat /\ Cardinality(Admitted("redis", t)') \in Nat
        /\ Cardinality(Admitted("redis", t)') <= Cardinality(Admitted("redis", t)) + 1
        /\ ~(ok /\ c <= t) => Admitted("redis", t)' = Admitted("redis", t)
    BY <1>1, <1>8
  <2>3. CASE t >= now
    <3>1. CASE ok
      <4>1. Admitted("redis", t) \subseteq kept
        <5> SUFFICES ASSUME NEW n \in Admitted("redis", t) PROVE n \in kept
          OBVIOUS
        <5>1. n \in DOMAIN tried /\ tried[n].by = "redis" /\ tried[n].at + Window > t
          BY DEF Admitted
        <5>2. tried[n].at \in Nat
          BY <1>2, <5>1 DEF Tried, Times
        <5> QED
          BY <1>4, <2>3, <5>1, <5>2 DEF Times
      <4>2. Cardinality(Admitted("redis", t)) <= Cardinality(kept) /\ Cardinality(kept) \in Nat
        BY <1>3, <4>1, Finite, FS_Subset
      <4> QED
        BY <2>1, <2>2, <2>3, <3>1, <4>2 DEF Times
    <3>2. CASE ~ok
      BY <2>1, <2>2, <2>3, <3>2 DEF Bounded, Times
    <3> QED
      BY <2>1, <3>1, <3>2
  <2>4. CASE t < now
    <3>0. Cardinality(Admitted("redis", t)) + Cardinality(Delayed(t)) <= MaxCalls + Cardinality(Workers)
      BY <2>4 DEF Bounded
    <3>1. CASE c <= t
      <4>1. w \in Delayed(t) /\ Delayed(t)' = Delayed(t) \ {w}
        BY <1>0, <1>1, <3>1 DEF Delayed, RateTypeOK
      <4>2. Cardinality(Delayed(t)') = Cardinality(Delayed(t)) - 1
        BY <4>1, DelayedFinite, FS_RemoveElement
      <4> QED
        BY <2>1, <2>2, <2>4, <3>0, <4>2, DelayedFinite DEF Times
    <3>2. CASE ~(c <= t)
      <4>1. Delayed(t)' = Delayed(t)
        BY <1>0, <1>1, <3>2 DEF Delayed, RateTypeOK
      <4> QED
        BY <2>1, <2>2, <2>4, <3>0, <3>2, <4>1 DEF Times
    <3> QED
      BY <3>1, <3>2
  <2> QED
    BY <2>1, <2>3, <2>4 DEF Times
<1> QED
  BY <1>5, <1>6, <1>7, <1>9

LEMMA LaterStill ==
    ASSUME NEW a \in Nat, NEW b \in Nat, NEW c \in Nat, NEW e \in Nat, e <= a + c, a <= b
    PROVE  e <= b + c
OBVIOUS

\* No decision: the clock may only go on, and a call may only begin now or end.
LEMMA NoDecisionKeeps ==
    ASSUME RateInv, now' \in Times, now' >= now, now' <= now + 1,
           UNCHANGED <<tried, zset, expires, memory>>, up' \in BOOLEAN,
           call' \in [Workers -> Times \cup {None}],
           \A w \in Workers : call'[w] \in {call[w], None} \/ (call'[w] = now /\ now' = now)
    PROVE  RateInv'
<1> USE WindowAssumption, TimeAssumption DEF RateInv
<1>1. RateTypeOK'
  BY DEF RateTypeOK
<1>2. Dated'
  <2>1. \A n \in DOMAIN tried' : tried'[n].at <= now'
    <3> SUFFICES ASSUME NEW n \in DOMAIN tried PROVE tried[n].at <= now'
      OBVIOUS
    <3>1. tried[n].at \in Nat /\ tried[n].at <= now
      BY EntryTyped DEF Dated
    <3> QED
      BY <3>1 DEF Times
  <2>2. \A w \in Workers : call'[w] # None => call'[w] <= now'
    BY DEF Dated, RateTypeOK, Times
  <2>3. expires' <= now' + Window
    <3>1. expires \in Nat /\ expires <= now + Window
      BY DEF Dated, RateTypeOK
    <3>2. now \in Nat /\ now' \in Nat /\ Window \in Nat
      BY DEF Times
    <3>3. expires' = expires /\ now <= now'
      OBVIOUS
    <3>4. expires <= now' + Window
      BY <3>1, <3>2, <3>3, LaterStill
    <3> QED
      BY <3>3, <3>4
  <2> QED
    BY <2>1, <2>2, <2>3 DEF Dated
<1>3. Remembered'
  <2> SUFFICES ASSUME NEW n \in DOMAIN tried, tried[n].at + Window > now'
               PROVE  /\ tried[n].by = "redis" => n \in zset /\ tried[n].at + Window <= expires
                      /\ tried[n].by \in Workers /\ tried[n].ok => n \in memory[tried[n].by]
    BY DEF Remembered
  <2>1. tried[n].at \in Nat
    BY EntryTyped
  <2>2. tried[n].at + Window > now
    BY <2>1 DEF Times
  <2> QED
    BY <2>2 DEF Remembered
<1>4. Bounded'
  <2> SUFFICES ASSUME NEW t \in Times
               PROVE  /\ \A w \in Workers : Cardinality(Admitted(w, t)) <= MaxCalls
                      /\ t >= now' => Cardinality(Admitted("redis", t)) <= MaxCalls
                      /\ t < now' => Cardinality(Admitted("redis", t)) + Cardinality(Delayed(t)')
                                        <= MaxCalls + Cardinality(Workers)
    BY DEF Bounded, Admitted
  <2>0. Cardinality(Admitted("redis", t)) \in Nat
    BY Finite DEF Admitted
  <2>1. CASE t < now
    <3>1. Delayed(t)' \subseteq Delayed(t)
      BY <2>1 DEF Delayed, Times
    <3>2. Cardinality(Delayed(t)') <= Cardinality(Delayed(t))
      BY <3>1, DelayedFinite, FS_Subset
    <3> QED
      BY <2>0, <2>1, <3>2, DelayedFinite, DelayedFiniteNext DEF Bounded, Times
  <2>2. CASE t >= now
    BY <2>0, <2>2, DelayedFinite, DelayedFiniteNext DEF Bounded, Times
  <2> QED
    BY <2>1, <2>2 DEF Times
<1> QED
  BY <1>1, <1>2, <1>3, <1>4

\* Every step keeps the invariant.
LEMMA StepRate == RateInv /\ [RateNext]_<<rateVars, now>> => RateInv'
<1> SUFFICES ASSUME RateInv, [RateNext]_<<rateVars, now>> PROVE RateInv'
  OBVIOUS
<1> USE TimeAssumption DEF RateInv
<1>1. ASSUME NEW w \in Workers, Ping(w), UNCHANGED now PROVE RateInv'
  <2>1. /\ call' \in [Workers -> Times \cup {None}]
        /\ \A v \in Workers : call'[v] = call[v] \/ call'[v] = now
    BY <1>1 DEF Ping, RateTypeOK
  <2> QED
    BY <1>1, <2>1, NoDecisionKeeps DEF Ping, RateTypeOK, Times
<1>2. ASSUME NEW w \in Workers, Break(w), UNCHANGED now PROVE RateInv'
  <2>1. /\ call' \in [Workers -> Times \cup {None}]
        /\ \A v \in Workers : call'[v] = call[v] \/ call'[v] = None
    BY <1>2 DEF Break, RateTypeOK
  <2> QED
    BY <1>2, <2>1, NoDecisionKeeps DEF Break, RateTypeOK, Times
<1>3. CASE Toggle /\ UNCHANGED now
  BY <1>3, NoDecisionKeeps DEF Toggle, RateTypeOK, Times
<1>4. CASE Tick /\ UNCHANGED rateVars
  BY <1>4, NoDecisionKeeps DEF Tick, rateVars, RateTypeOK, Times
<1>5. CASE UNCHANGED <<rateVars, now>>
  BY <1>5, NoDecisionKeeps DEF rateVars, RateTypeOK, Times
<1> QED
  BY <1>1, <1>2, <1>3, <1>4, <1>5, RememberKeeps, ExecuteKeeps DEF RateNext

LEMMA BoundedIsWithin == RateInv => WithinLimit
<1> SUFFICES ASSUME RateInv, NEW t \in Times
             PROVE  /\ Cardinality(Admitted("redis", t)) <= MaxCalls + Cardinality(Workers)
                    /\ \A w \in Workers : Cardinality(Admitted(w, t)) <= MaxCalls
  BY DEF WithinLimit
<1>1. Cardinality(Admitted("redis", t)) \in Nat
  BY Finite DEF Admitted, RateInv
<1> QED
  BY <1>1, DelayedFinite, WindowAssumption, TimeAssumption DEF RateInv, Bounded, Times

\* Whatever was kept to be counted is of the last window.
LEMMA RefusalsAreFounded ==
    RateInv /\ [RateNext]_<<rateVars, now>> =>
        [\A n \in DOMAIN tried' \ DOMAIN tried : ~RefusedTooSoon(n)]_tried
<1> SUFFICES ASSUME RateInv, [RateNext]_<<rateVars, now>>, NEW n \in DOMAIN tried' \ DOMAIN tried,
                    ~tried'[n].ok
             PROVE  ~(Cardinality(Recent(DOMAIN tried, tried'[n].at)) < MaxCalls)
  BY DEF RefusedTooSoon
<1> USE WindowAssumption DEF RateInv
<1>1. ASSUME NEW by \in Deciders, NEW at \in Times, NEW kept, kept \subseteq Recent(DOMAIN tried, at),
             Decide(by, at, Cardinality(kept) < MaxCalls)
      PROVE  ~(Cardinality(Recent(DOMAIN tried, tried'[n].at)) < MaxCalls)
  <2> DEFINE ok == Cardinality(kept) < MaxCalls
  <2>0. ok \in BOOLEAN /\ Decide(by, at, ok)
    BY <1>1
  <2>1. tried'[n].at = at /\ tried'[n].ok = ok
    <3> HIDE DEF ok
    <3> QED
      BY <2>0, DecideAppends
  <2>2. ~ok
    BY <2>1
  <2>3. Recent(DOMAIN tried, at) \subseteq DOMAIN tried
    BY DEF Recent
  <2>4. Cardinality(kept) <= Cardinality(Recent(DOMAIN tried, at)) /\ Cardinality(kept) \in Nat
        /\ Cardinality(Recent(DOMAIN tried, at)) \in Nat
    BY <1>1, <2>3, Finite, FS_Subset
  <2> QED
    BY <2>1, <2>2, <2>4
<1>2. ASSUME NEW w \in Workers, Remember(w) PROVE ~(Cardinality(Recent(DOMAIN tried, tried'[n].at)) < MaxCalls)
  <2> DEFINE kept == Recent(memory[w], now)
  <2>1. w \in Deciders /\ kept \subseteq Recent(DOMAIN tried, now)
    BY DEF Deciders, Recent, RateTypeOK
  <2>2. Decide(w, now, Cardinality(kept) < MaxCalls)
    BY <1>2 DEF Remember
  <2> HIDE DEF kept
  <2> QED
    BY <1>1, <2>1, <2>2
<1>3. ASSUME NEW w \in Workers, Execute(w) PROVE ~(Cardinality(Recent(DOMAIN tried, tried'[n].at)) < MaxCalls)
  <2> DEFINE kept == Kept(w)
  <2>1. call[w] \in Times /\ "redis" \in Deciders /\ kept \subseteq Recent(DOMAIN tried, call[w])
    BY <1>3 DEF Execute, Deciders, Kept, Recent, RateTypeOK
  <2>2. Decide("redis", call[w], Cardinality(kept) < MaxCalls)
    BY <1>3 DEF Execute, Kept
  <2> HIDE DEF kept
  <2> QED
    BY <1>1, <2>1, <2>2
<1> QED
  BY <1>2, <1>3 DEF RateNext, Ping, Break, Toggle, Tick, rateVars

-----------------------------------------------------------------------------
(* The theorems.                                                           *)

\* The inductive invariant.
THEOREM LimiterIsConsistent == RateSpec => []RateInv
BY InitRate, StepRate, PTL DEF RateSpec

\* In no window are more admitted than the limit, but for one delayed request of
\* each worker where Redis decides.
THEOREM LimitHolds == RateSpec => []WithinLimit
BY LimiterIsConsistent, BoundedIsWithin, PTL

\* Redis refuses nobody who did not make `limit` requests in the window before.
THEOREM RefusalsHold == RateSpec => RefusedWereMany
BY LimiterIsConsistent, RefusalsAreFounded, PTL DEF RateSpec, RefusedWereMany
=============================================================================
