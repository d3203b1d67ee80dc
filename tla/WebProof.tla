------------------------------ MODULE WebProof ------------------------------
(***************************************************************************)
(* Theorems about ApiKeys, for any owners, any number of keys and workers, *)
(* any limit and any number of crashes; about MarketCache and ChainHealth; *)
(* and, with those of RateLimit, about the web server they are part of.    *)
(***************************************************************************)
EXTENDS WebProcess, RateLimitProof

-----------------------------------------------------------------------------
(* API keys.                                                               *)

Replaced(k) == \E j \in Keys : keys[j] # None /\ keys[j].old = k

\* What a regenerating request holds: a key that is there and, once the new one
\* has been saved, that one's predecessor.
JobFits(w) ==
    LET k == job[w].key
    IN  /\ JobAt(w, "replace") => k \in Keys /\ keys[k] # None
        /\ JobAt(w, "retire") => k \in Keys /\ keys[k] # None /\ Replaced(k)

\* Workers that have counted u's keys and not inserted the new one yet.
Inserting(u) == {w \in Workers : JobAt(w, "insert") /\ job[w].user = u}

\* Such a key counts already, whoever else has counted meanwhile.
RoomForAll ==
    \A u \in Users :
        Cardinality(Created(u)) + Cardinality(Inserting(u)) < Limit + Cardinality(Workers)

KeysInv ==
    /\ KeysTypeOK
    /\ \A w \in Workers : JobFits(w)
    /\ ReplacedHasSuccessor
    /\ RoomForAll

-----------------------------------------------------------------------------
(* What is counted, and what stays.                                        *)

\* The sets that are counted are finite.
LEMMA Counted ==
    ASSUME NEW u
    PROVE  /\ IsFiniteSet(Created(u)) /\ Cardinality(Created(u)) \in Nat
           /\ IsFiniteSet(Active(u)) /\ Cardinality(Active(u)) \in Nat
           /\ IsFiniteSet(Inserting(u)) /\ Cardinality(Inserting(u)) \in Nat
           /\ Cardinality(Created(u)) <= Cardinality(Active(u))
           /\ Cardinality(Inserting(u)) <= Cardinality(Workers)
           /\ Cardinality(Workers) \in Nat
<1>1. Active(u) \subseteq Keys /\ Created(u) \subseteq Active(u) /\ Inserting(u) \subseteq Workers
  BY DEF Active, Created, Inserting
<1>2. IsFiniteSet(Active(u)) /\ IsFiniteSet(Inserting(u))
  BY <1>1, FS_Subset, KeysAssumption, WorkersAssumption
<1> QED
  BY <1>1, <1>2, FS_Subset, FS_CardinalityType, WorkersAssumption

LEMMA CountedNext ==
    ASSUME NEW u
    PROVE  /\ IsFiniteSet(Created(u)') /\ Cardinality(Created(u)') \in Nat
           /\ IsFiniteSet(Inserting(u)') /\ Cardinality(Inserting(u)') \in Nat
           /\ Cardinality(Inserting(u)') <= Cardinality(Workers)
<1>1. Active(u)' \subseteq Keys /\ Created(u)' \subseteq Active(u)' /\ Inserting(u)' \subseteq Workers
  BY DEF Active, Created, Inserting
<1>2. IsFiniteSet(Active(u)') /\ IsFiniteSet(Inserting(u)')
  BY <1>1, FS_Subset, KeysAssumption, WorkersAssumption
<1> QED
  BY <1>1, <1>2, FS_Subset, FS_CardinalityType, WorkersAssumption

\* Fewer keys and fewer requests keep the room.
LEMMA ShrinkingKeepsRoom ==
    ASSUME RoomForAll, \A u \in Users : Created(u)' \subseteq Created(u) /\ Inserting(u)' \subseteq Inserting(u)
    PROVE  RoomForAll'
<1> SUFFICES ASSUME NEW u \in Users
             PROVE  Cardinality(Created(u)') + Cardinality(Inserting(u)') < Limit + Cardinality(Workers)
  BY DEF RoomForAll
<1>1. /\ Cardinality(Created(u)') <= Cardinality(Created(u))
      /\ Cardinality(Inserting(u)') <= Cardinality(Inserting(u))
  BY Counted, FS_Subset
<1>2. Cardinality(Created(u)) + Cardinality(Inserting(u)) < Limit + Cardinality(Workers)
  BY DEF RoomForAll
<1> QED
  BY <1>1, <1>2, Counted, CountedNext, LimitAssumption

\* Keys are never deleted, keep what they replaced, and stay inactive.
KeysStay ==
    \A k \in Keys : keys[k] # None =>
        /\ keys'[k] # None
        /\ keys'[k].old = keys[k].old /\ keys'[k].user = keys[k].user
        /\ ~keys[k].active => ~keys'[k].active

\* A job that does not move still fits.
LEMMA WaitingFits ==
    ASSUME KeysStay, NEW w \in Workers, JobFits(w), UNCHANGED job[w]
    PROVE  JobFits(w)'
BY DEF KeysStay, JobFits, JobAt, Replaced

LEMMA ReplacedStays ==
    ASSUME KeysStay, NEW k, Replaced(k)
    PROVE  Replaced(k)'
BY DEF KeysStay, Replaced

\* Nothing but room is needed to begin anything at the start.
LEMMA InitKeys == KeysInit => KeysInv
<1> SUFFICES ASSUME KeysInit PROVE KeysInv
  OBVIOUS
<1>1. KeysTypeOK /\ ReplacedHasSuccessor
  BY CrashesAssumption DEF KeysInit, KeysTypeOK, ReplacedHasSuccessor
<1>2. \A w \in Workers : JobFits(w)
  BY DEF KeysInit, JobFits, JobAt
<1>3. ASSUME NEW u \in Users PROVE Created(u) = {} /\ Inserting(u) = {}
  BY DEF KeysInit, Created, Active, Owns, Inserting, JobAt
<1>4. Cardinality({}) = 0 /\ Cardinality(Workers) \in Nat
  BY FS_EmptySet, FS_CardinalityType, WorkersAssumption
<1>5. RoomForAll
  BY <1>3, <1>4, LimitAssumption DEF RoomForAll
<1> QED
  BY <1>1, <1>2, <1>5 DEF KeysInv

-----------------------------------------------------------------------------
(* What the parts of an action do.                                         *)

LEMMA BeginsJob ==
    ASSUME KeysTypeOK, NEW w \in Workers, NEW step \in {"insert", "replace", "retire", "owner"},
           NEW u \in Users, NEW k \in Keys \cup {None}, Begin(w, step, u, k)
    PROVE  /\ job' \in [Workers -> Job \cup {None}]
           /\ job'[w] # None /\ job'[w].at = step /\ job'[w].user = u /\ job'[w].key = k
           /\ \A v \in Workers \ {w} : UNCHANGED job[v]
<1> DEFINE new == [at |-> step, user |-> u, key |-> k]
<1>1. new \in Job
  BY DEF Job
<1>2. new # None
  BY <1>1, JobsAssumption
<1>3. job' = [job EXCEPT ![w] = new]
  BY DEF Begin
<1> QED
  BY <1>1, <1>2, <1>3 DEF KeysTypeOK

LEMMA EndsJob ==
    ASSUME KeysTypeOK, NEW w \in Workers, End(w)
    PROVE  /\ job' \in [Workers -> Job \cup {None}]
           /\ job'[w] = None
           /\ \A v \in Workers \ {w} : UNCHANGED job[v]
BY DEF End, KeysTypeOK

LEMMA InsertsKey ==
    ASSUME KeysTypeOK, NEW u \in Users, NEW old \in Keys \cup {None}, InsertKey(u, old)
    PROVE  /\ keys' \in [Keys -> Key \cup {None}]
           /\ KeysStay
           /\ \E k \in Keys :
                 /\ keys[k] = None /\ keys'[k] # None
                 /\ keys'[k].user = u /\ keys'[k].active /\ keys'[k].old = old
                 /\ \A j \in Keys \ {k} : UNCHANGED keys[j]
<1> DEFINE new == [user |-> u, active |-> TRUE, old |-> old]
<1>1. PICK k \in Keys : keys[k] = None /\ keys' = [keys EXCEPT ![k] = new]
  BY DEF InsertKey
<1>2. new \in Key
  BY DEF Key
<1>3. new # None
  BY <1>2, JobsAssumption
<1>4. keys'[k] = new /\ \A j \in Keys \ {k} : UNCHANGED keys[j]
  BY <1>1 DEF KeysTypeOK
<1>5. keys' \in [Keys -> Key \cup {None}]
  BY <1>1, <1>2 DEF KeysTypeOK
<1>6. KeysStay
  BY <1>1, <1>4 DEF KeysStay
<1> QED
  BY <1>1, <1>3, <1>4, <1>5, <1>6

LEMMA SwitchesOff ==
    ASSUME KeysTypeOK, NEW k \in Keys, keys[k] # None,
           keys' = [keys EXCEPT ![k].active = FALSE]
    PROVE  /\ keys' \in [Keys -> Key \cup {None}]
           /\ KeysStay
           /\ \A j \in Keys : keys[j] = None => keys'[j] = None
           /\ \A j \in Keys \ {k} : UNCHANGED keys[j]
           /\ \A u : Created(u)' \subseteq Created(u)
<1>1. keys[k] \in Key
  BY DEF KeysTypeOK
<1>2. keys'[k] = [keys[k] EXCEPT !.active = FALSE] /\ \A j \in Keys \ {k} : UNCHANGED keys[j]
  BY DEF KeysTypeOK
<1>3. /\ keys'[k] \in Key /\ ~keys'[k].active
      /\ keys'[k].user = keys[k].user /\ keys'[k].old = keys[k].old
  BY <1>1, <1>2 DEF Key
<1>4. keys'[k] # None
  BY <1>3, JobsAssumption
<1>5. keys' \in [Keys -> Key \cup {None}]
  BY <1>3 DEF KeysTypeOK
<1>6. KeysStay
  BY <1>2, <1>3, <1>4 DEF KeysStay
<1>7. ASSUME NEW u PROVE Created(u)' \subseteq Created(u)
  <2> SUFFICES ASSUME NEW j \in Created(u)' PROVE j \in Created(u)
    OBVIOUS
  <2>1. j \in Keys /\ j # k
    BY <1>3 DEF Created, Active
  <2> QED
    BY <1>2, <2>1 DEF Created, Active, Owns
<1> QED
  BY <1>2, <1>5, <1>6, <1>7

-----------------------------------------------------------------------------
(* The steps of the handlers of keys.                                      *)

\* Those that leave the table alone, except the count of a creation.
LEMMA QuietKeeps ==
    ASSUME KeysInv, KeysTypeOK', UNCHANGED <<keys, revoked>>, NEW w \in Workers, JobFits(w)',
           ~JobAt(w, "insert")', \A v \in Workers \ {w} : UNCHANGED job[v]
    PROVE  KeysInv'
<1>1. KeysStay
  BY DEF KeysStay
<1>2. \A v \in Workers : JobFits(v)'
  BY <1>1, WaitingFits DEF KeysInv
<1>3. ReplacedHasSuccessor'
  BY DEF KeysInv, ReplacedHasSuccessor
<1>4. \A u \in Users : Created(u)' \subseteq Created(u) /\ Inserting(u)' \subseteq Inserting(u)
  BY DEF Created, Active, Owns, Inserting, JobAt
<1>5. RoomForAll'
  BY <1>4, ShrinkingKeepsRoom DEF KeysInv
<1> QED
  BY <1>2, <1>3, <1>5 DEF KeysInv

\* Active keys are below the limit when they are counted; those that other
\* workers have counted by then and still insert are at most one for each.
LEMMA CountKeeps ==
    ASSUME KeysInv, NEW w \in Workers, NEW u \in Users, Count(w, u), UNCHANGED crashes
    PROVE  KeysInv'
<1> USE DEF KeysInv
<1>1. /\ job' \in [Workers -> Job \cup {None}]
      /\ job'[w] # None /\ job'[w].at = "insert" /\ job'[w].user = u
      /\ \A v \in Workers \ {w} : UNCHANGED job[v]
  BY BeginsJob DEF Count
<1>2. KeysTypeOK' /\ KeysStay
  BY <1>1 DEF Count, KeysTypeOK, KeysStay
<1>3. \A v \in Workers : JobFits(v)'
  BY <1>1, <1>2, WaitingFits DEF JobFits, JobAt
<1>4. ReplacedHasSuccessor'
  BY DEF Count, ReplacedHasSuccessor
<1>5. RoomForAll'
  <2> SUFFICES ASSUME NEW m \in Users
               PROVE  Cardinality(Created(m)') + Cardinality(Inserting(m)') < Limit + Cardinality(Workers)
    BY DEF RoomForAll
  <2>1. Created(m)' = Created(m)
    BY DEF Count, Created, Active, Owns
  <2>2. CASE m = u
    <3>1. Cardinality(Active(u)) < Limit
      BY DEF Count
    <3> QED
      BY <2>1, <2>2, <3>1, Counted, CountedNext, LimitAssumption
  <2>3. CASE m # u
    <3>1. Inserting(m)' = Inserting(m)
      BY <1>1, <2>3 DEF Inserting, JobAt, Count
    <3> QED
      BY <2>1, <3>1 DEF RoomForAll
  <2> QED
    BY <2>2, <2>3
<1> QED
  BY <1>2, <1>3, <1>4, <1>5

\* The new key takes the place its request had.
LEMMA InsertKeeps ==
    ASSUME KeysInv, NEW w \in Workers, Insert(w), UNCHANGED crashes
    PROVE  KeysInv'
<1> USE DEF KeysInv
<1> DEFINE u == job[w].user
<1>0. JobAt(w, "insert") /\ u \in Users
  BY DEF Insert, JobAt, KeysTypeOK, Job
<1>1. /\ job' \in [Workers -> Job \cup {None}] /\ job'[w] = None
      /\ \A v \in Workers \ {w} : UNCHANGED job[v]
  BY EndsJob DEF Insert
<1>2. keys' \in [Keys -> Key \cup {None}] /\ KeysStay
  BY <1>0, InsertsKey DEF Insert
<1>3. PICK k \in Keys :
         /\ keys[k] = None /\ keys'[k] # None
         /\ keys'[k].user = u /\ keys'[k].active /\ keys'[k].old = None
         /\ \A j \in Keys \ {k} : UNCHANGED keys[j]
  BY <1>0, InsertsKey DEF Insert
<1>4. KeysTypeOK'
  BY <1>1, <1>2 DEF Insert, KeysTypeOK
<1>5. \A v \in Workers : JobFits(v)'
  BY <1>1, <1>2, WaitingFits DEF JobFits, JobAt
<1>6. ReplacedHasSuccessor'
  <2> SUFFICES ASSUME NEW j \in Keys, keys'[j] # None, ~keys'[j].active, j \notin revoked
               PROVE  Replaced(j)'
    BY DEF Insert, ReplacedHasSuccessor, Replaced
  <2>1. Replaced(j)
    BY <1>3 DEF ReplacedHasSuccessor, Replaced
  <2> QED
    BY <1>2, <2>1, ReplacedStays
<1>7. RoomForAll'
  <2> SUFFICES ASSUME NEW m \in Users
               PROVE  Cardinality(Created(m)') + Cardinality(Inserting(m)') < Limit + Cardinality(Workers)
    BY DEF RoomForAll
  <2>1. CASE m = u
    <3>1. k \notin Created(m) /\ Created(m)' = Created(m) \cup {k}
      BY <1>3, <2>1 DEF Created, Active, Owns
    <3>2. w \in Inserting(m) /\ Inserting(m)' = Inserting(m) \ {w}
      BY <1>0, <1>1, <2>1 DEF Inserting, JobAt
    <3>3. Cardinality(Created(m)') = Cardinality(Created(m)) + 1
      BY <3>1, Counted, FS_AddElement
    <3>4. Cardinality(Inserting(m)') = Cardinality(Inserting(m)) - 1
      BY <3>2, Counted, FS_RemoveElement
    <3> QED
      BY <3>3, <3>4, Counted, LimitAssumption DEF RoomForAll
  <2>2. CASE m # u
    <3>1. Created(m)' = Created(m)
      BY <1>3, <2>2 DEF Created, Active, Owns
    <3>2. Inserting(m)' = Inserting(m)
      BY <1>1, <2>2 DEF Inserting, JobAt
    <3> QED
      BY <3>1, <3>2 DEF RoomForAll
  <2> QED
    BY <2>1, <2>2
<1> QED
  BY <1>4, <1>5, <1>6, <1>7

\* A regenerated key has its successor from the step on that makes the old one's
\* retirement the only thing left to do.
LEMMA ReplaceKeeps ==
    ASSUME KeysInv, NEW w \in Workers, Replace(w), UNCHANGED crashes
    PROVE  KeysInv'
<1> USE DEF KeysInv
<1> DEFINE u == job[w].user
           old == job[w].key
<1>0. JobAt(w, "replace") /\ u \in Users /\ old \in Keys /\ keys[old] # None
  BY DEF Replace, JobFits, JobAt, KeysTypeOK, Job
<1>1. /\ job' \in [Workers -> Job \cup {None}]
      /\ job'[w].at = "retire" /\ job'[w].key = old
      /\ \A v \in Workers \ {w} : UNCHANGED job[v]
  BY <1>0, BeginsJob DEF Replace
<1>2. keys' \in [Keys -> Key \cup {None}] /\ KeysStay
  BY <1>0, InsertsKey DEF Replace
<1>3. PICK k \in Keys :
         /\ keys[k] = None /\ keys'[k] # None
         /\ keys'[k].user = u /\ keys'[k].active /\ keys'[k].old = old
         /\ \A j \in Keys \ {k} : UNCHANGED keys[j]
  BY <1>0, InsertsKey DEF Replace
<1>4. KeysTypeOK'
  BY <1>1, <1>2 DEF Replace, KeysTypeOK
<1>5. JobFits(w)'
  BY <1>0, <1>1, <1>2, <1>3 DEF JobFits, JobAt, Replaced, KeysStay
<1>6. \A v \in Workers : JobFits(v)'
  BY <1>1, <1>2, <1>5, WaitingFits
<1>7. ReplacedHasSuccessor'
  <2> SUFFICES ASSUME NEW j \in Keys, keys'[j] # None, ~keys'[j].active, j \notin revoked
               PROVE  Replaced(j)'
    BY DEF Replace, ReplacedHasSuccessor, Replaced
  <2>1. Replaced(j)
    BY <1>3 DEF ReplacedHasSuccessor, Replaced
  <2> QED
    BY <1>2, <2>1, ReplacedStays
<1>8. \A m \in Users : Created(m)' \subseteq Created(m) /\ Inserting(m)' \subseteq Inserting(m)
  <2> SUFFICES ASSUME NEW m \in Users
               PROVE  Created(m)' \subseteq Created(m) /\ Inserting(m)' \subseteq Inserting(m)
    OBVIOUS
  <2>1. k \notin Created(m)'
    BY <1>0, <1>3, KeysAssumption DEF Created
  <2>2. Created(m)' \subseteq Created(m)
    BY <1>3, <2>1 DEF Created, Active, Owns
  <2>3. Inserting(m)' \subseteq Inserting(m)
    BY <1>1 DEF Inserting, JobAt
  <2> QED
    BY <2>2, <2>3
<1>9. RoomForAll'
  BY <1>8, ShrinkingKeepsRoom
<1> QED
  BY <1>4, <1>6, <1>7, <1>9

\* Whoever switches a key off is its revoker or holds its successor.
LEMMA SwitchingKeeps ==
    ASSUME KeysInv, NEW w \in Workers, NEW k \in Keys, keys[k] # None,
           keys' = [keys EXCEPT ![k].active = FALSE],
           k \in revoked' \/ Replaced(k), revoked \subseteq revoked', revoked' \subseteq Keys,
           job' \in [Workers -> Job \cup {None}], job'[w] = None,
           \A v \in Workers \ {w} : UNCHANGED job[v], UNCHANGED crashes
    PROVE  KeysInv'
<1> USE DEF KeysInv
<1>1. /\ keys' \in [Keys -> Key \cup {None}] /\ KeysStay
      /\ \A j \in Keys : keys[j] = None => keys'[j] = None
      /\ \A j \in Keys \ {k} : UNCHANGED keys[j]
      /\ \A u : Created(u)' \subseteq Created(u)
  BY SwitchesOff
<1>2. KeysTypeOK'
  BY <1>1 DEF KeysTypeOK
<1>3. \A v \in Workers : JobFits(v)'
  BY <1>1, WaitingFits DEF JobFits, JobAt
<1>4. ReplacedHasSuccessor'
  <2> SUFFICES ASSUME NEW j \in Keys, keys'[j] # None, ~keys'[j].active, j \notin revoked'
               PROVE  Replaced(j)'
    BY DEF ReplacedHasSuccessor, Replaced
  <2>1. Replaced(j)
    BY <1>1 DEF ReplacedHasSuccessor, Replaced
  <2> QED
    BY <1>1, <2>1, ReplacedStays
<1>5. \A u \in Users : Inserting(u)' \subseteq Inserting(u)
  BY DEF Inserting, JobAt
<1>6. RoomForAll'
  BY <1>1, <1>5, ShrinkingKeepsRoom
<1> QED
  BY <1>2, <1>3, <1>4, <1>6

\* Every step keeps the invariant.
LEMMA HandleKeeps ==
    ASSUME KeysInv, NEW w \in Workers, Handle(w), UNCHANGED crashes
    PROVE  KeysInv'
<1> USE DEF KeysInv
<1>1. CASE Insert(w)
  BY <1>1, InsertKeeps
<1>2. CASE Replace(w)
  BY <1>2, ReplaceKeeps
<1>3. CASE Retire(w)
  <2> DEFINE k == job[w].key
  <2>1. k \in Keys /\ keys[k] # None /\ Replaced(k)
    BY <1>3 DEF Retire, JobFits
  <2>2. /\ job' \in [Workers -> Job \cup {None}] /\ job'[w] = None
        /\ \A v \in Workers \ {w} : UNCHANGED job[v]
    BY <1>3, EndsJob DEF Retire
  <2>3. revoked' = revoked /\ revoked \subseteq Keys /\ keys' = [keys EXCEPT ![k].active = FALSE]
    BY <1>3 DEF Retire, KeysTypeOK
  <2> HIDE DEF k
  <2> QED
    BY <2>1, <2>2, <2>3, SwitchingKeeps
<1>4. CASE CheckOwner(w)
  <2>1. /\ job' \in [Workers -> Job \cup {None}] /\ job'[w] = None
        /\ \A v \in Workers \ {w} : UNCHANGED job[v]
    BY <1>4, EndsJob DEF CheckOwner
  <2>2. KeysTypeOK' /\ JobFits(w)' /\ ~JobAt(w, "insert")'
    BY <1>4, <2>1 DEF CheckOwner, KeysTypeOK, JobFits, JobAt
  <2> QED
    BY <1>4, <2>1, <2>2, QuietKeeps DEF CheckOwner
<1>5. ASSUME NEW k \in Keys, Present(w, k) PROVE KeysInv'
  <2>1. keys[k].user \in Users
    BY <1>5 DEF Present, KeysTypeOK, Key
  <2>2. /\ job' \in [Workers -> Job \cup {None}] /\ job'[w].at = "owner"
        /\ \A v \in Workers \ {w} : UNCHANGED job[v]
    BY <1>5, <2>1, BeginsJob DEF Present
  <2>3. KeysTypeOK' /\ JobFits(w)' /\ ~JobAt(w, "insert")'
    BY <1>5, <2>2 DEF Present, KeysTypeOK, JobFits, JobAt
  <2> QED
    BY <1>5, <2>2, <2>3, QuietKeeps DEF Present
<1>6. ASSUME NEW u \in Users, Count(w, u) PROVE KeysInv'
  BY <1>6, CountKeeps
<1>7. ASSUME NEW u \in Users, NEW k \in Keys, Revoke(w, u, k) PROVE KeysInv'
  <2>1. keys[k] # None /\ keys' = [keys EXCEPT ![k].active = FALSE] /\ job' = job /\ job[w] = None
    BY <1>7 DEF Revoke, Owns
  <2>2. revoked' = revoked \cup {k} /\ revoked' \subseteq Keys /\ job' \in [Workers -> Job \cup {None}]
    BY <1>7 DEF Revoke, KeysTypeOK
  <2> QED
    BY <2>1, <2>2, SwitchingKeeps
<1>8. ASSUME NEW u \in Users, NEW k \in Keys, Load(w, u, k) PROVE KeysInv'
  <2>1. /\ job' \in [Workers -> Job \cup {None}] /\ job'[w].at = "replace" /\ job'[w].key = k
        /\ \A v \in Workers \ {w} : UNCHANGED job[v]
    BY <1>8, BeginsJob DEF Load
  <2>2. KeysTypeOK' /\ JobFits(w)' /\ ~JobAt(w, "insert")'
    BY <1>8, <2>1 DEF Load, KeysTypeOK, JobFits, JobAt, Owns
  <2> QED
    BY <1>8, <2>1, <2>2, QuietKeeps DEF Load
<1> QED
  BY <1>1, <1>2, <1>3, <1>4, <1>5, <1>6, <1>7, <1>8 DEF Handle

LEMMA StepKeys == KeysInv /\ [KeysNext]_keyVars => KeysInv'
<1> SUFFICES ASSUME KeysInv, [KeysNext]_keyVars PROVE KeysInv'
  OBVIOUS
<1>1. ASSUME NEW w \in Workers, Crash(w) PROVE KeysInv'
  <2>1. /\ job' \in [Workers -> Job \cup {None}] /\ job'[w] = None
        /\ \A v \in Workers \ {w} : UNCHANGED job[v]
    BY <1>1, EndsJob DEF Crash, KeysInv
  <2>2. KeysTypeOK' /\ JobFits(w)' /\ ~JobAt(w, "insert")'
    BY <1>1, <2>1, CrashesAssumption DEF Crash, KeysInv, KeysTypeOK, JobFits, JobAt
  <2> QED
    BY <1>1, <2>1, <2>2, QuietKeeps DEF Crash
<1>2. CASE UNCHANGED keyVars
  <2>1. KeysTypeOK' /\ ReplacedHasSuccessor' /\ KeysStay
    BY <1>2 DEF keyVars, KeysInv, KeysTypeOK, ReplacedHasSuccessor, KeysStay
  <2>2. \A w \in Workers : JobFits(w)'
    BY <1>2, <2>1, WaitingFits DEF keyVars, KeysInv
  <2>3. \A u \in Users : Created(u)' \subseteq Created(u) /\ Inserting(u)' \subseteq Inserting(u)
    BY <1>2 DEF keyVars, Created, Active, Owns, Inserting, JobAt
  <2> QED
    BY <2>1, <2>2, <2>3, ShrinkingKeepsRoom DEF KeysInv
<1> QED
  BY <1>1, <1>2, HandleKeeps DEF KeysNext

\* No step switches a key on.
LEMMA NeverOnAgain ==
    KeysInv /\ [KeysNext]_keyVars =>
        [\A k \in Keys : keys[k] # None /\ ~keys[k].active => ~keys'[k].active]_keys
<1> SUFFICES ASSUME KeysInv, [KeysNext]_keyVars PROVE keys' = keys \/ KeysStay
  BY DEF KeysStay
<1>1. ASSUME NEW w \in Workers, Handle(w) PROVE keys' = keys \/ KeysStay
  <2>1. CASE Insert(w) \/ Replace(w)
    <3>1. job[w].user \in Users /\ job[w].key \in Keys \cup {None}
      BY <2>1 DEF Insert, Replace, JobAt, KeysInv, KeysTypeOK, Job
    <3> QED
      BY <2>1, <3>1, InsertsKey DEF Insert, Replace, KeysInv
  <2>2. CASE Retire(w)
    BY <2>2, SwitchesOff DEF Retire, KeysInv, JobFits
  <2>3. ASSUME NEW u \in Users, NEW k \in Keys, Revoke(w, u, k) PROVE KeysStay
    BY <2>3, SwitchesOff DEF Revoke, Owns, KeysInv
  <2> QED
    BY <1>1, <2>1, <2>2, <2>3 DEF Handle, CheckOwner, Present, Count, Load
<1> QED
  BY <1>1 DEF KeysNext, Crash, keyVars

LEMMA RoomIsLimit == RoomForAll => CreationsWithinLimit
<1> SUFFICES ASSUME RoomForAll, NEW u \in Users
             PROVE  Cardinality(Created(u)) < Limit + Cardinality(Workers)
  BY DEF CreationsWithinLimit
<1>1. Cardinality(Created(u)) + Cardinality(Inserting(u)) < Limit + Cardinality(Workers)
  BY DEF RoomForAll
<1> QED
  BY <1>1, Counted, LimitAssumption

-----------------------------------------------------------------------------
(* The theorems about keys.                                                *)

\* The inductive invariant.
THEOREM KeysAreConsistent == KeysSpec => []KeysInv
BY InitKeys, StepKeys, PTL DEF KeysSpec

\* A key that was regenerated and not revoked works until its successor is saved.
THEOREM SuccessorsExist == KeysSpec => []ReplacedHasSuccessor
<1>1. KeysInv => ReplacedHasSuccessor
  BY DEF KeysInv
<1> QED
  BY <1>1, KeysAreConsistent, PTL

\* Overlapping creations pass the limit by at most one for every other worker.
THEOREM CreationsAreLimited == KeysSpec => []CreationsWithinLimit
<1>1. KeysInv => CreationsWithinLimit
  BY RoomIsLimit DEF KeysInv
<1> QED
  BY <1>1, KeysAreConsistent, PTL

\* A key that stopped working never works again.
THEOREM RevocationIsFinal == KeysSpec => RevokedIsFinal
BY KeysAreConsistent, NeverOnAgain, PTL DEF KeysSpec, RevokedIsFinal

-----------------------------------------------------------------------------
(* The market data cache.                                                  *)

\* Data is stored when it comes.
MarketInv ==
    /\ MarketTypeOK
    /\ \A w \in Workers, e \in Entries :
          cache[w][e] # None => cache[w][e].stored = cache[w][e].received /\ cache[w][e].received <= now

LEMMA InitMarket == now = 0 /\ MarketInit => MarketInv
BY TimeAssumption DEF MarketInit, MarketInv, MarketTypeOK, Times

LEMMA StoreKeeps ==
    ASSUME MarketInv, NEW w \in Workers, Store(w), UNCHANGED now
    PROVE  MarketInv'
<1> USE DEF MarketInv
<1> DEFINE e == fetch[w]
           new == [stored |-> now, received |-> now]
<1>1. e \in Entries /\ new \in Entry
  BY DEF Store, Entry, MarketTypeOK
<1>2. fetch' \in [Workers -> Entries \cup {None}]
  BY DEF Store, MarketTypeOK
<1>3. cache' = [cache EXCEPT ![w] = [cache[w] EXCEPT ![e] = new]]
  BY DEF Store
<1>4. cache[w] \in [Entries -> Entry \cup {None}] /\ now \in Nat
  BY TimeAssumption DEF MarketTypeOK, Times
<1>5. new.stored = new.received /\ new.received <= now
  BY <1>4
<1> HIDE DEF e, new
<1>6. /\ cache' \in [Workers -> [Entries -> Entry \cup {None}]]
      /\ \A v \in Workers, d \in Entries :
            cache'[v][d] = IF v = w /\ d = e THEN new ELSE cache[v][d]
  BY <1>1, <1>3, <1>4 DEF MarketTypeOK
<1> QED
  BY <1>2, <1>5, <1>6 DEF MarketTypeOK

LEMMA StepMarket == MarketInv /\ [MarketNext]_<<marketVars, now>> => MarketInv'
<1> SUFFICES ASSUME MarketInv, [MarketNext]_<<marketVars, now>> PROVE MarketInv'
  OBVIOUS
<1> USE TTLAssumption, TimeAssumption DEF MarketInv
<1>1. ASSUME NEW w \in Workers, FetchFails(w), UNCHANGED now PROVE MarketInv'
  BY <1>1 DEF FetchFails, MarketTypeOK
<1>2. ASSUME NEW w \in Workers, NEW e \in Entries, Hit(w, e), UNCHANGED now PROVE MarketInv'
  BY <1>2 DEF Hit, marketVars, MarketTypeOK
<1>3. ASSUME NEW w \in Workers, NEW e \in Entries, Miss(w, e), UNCHANGED now PROVE MarketInv'
  BY <1>3 DEF Miss, MarketTypeOK
<1>4. CASE Tick /\ UNCHANGED marketVars
  <2>1. now' \in Times /\ now <= now' /\ now \in Nat /\ now' \in Nat
    BY <1>4 DEF Tick, MarketTypeOK, Times
  <2>2. ASSUME NEW w \in Workers, NEW e \in Entries, cache[w][e] # None
        PROVE  cache[w][e].received \in Nat
    BY <2>2 DEF MarketTypeOK, Entry, Times
  <2> QED
    BY <1>4, <2>1, <2>2 DEF marketVars, MarketTypeOK
<1>5. CASE UNCHANGED <<marketVars, now>>
  BY <1>5 DEF marketVars, MarketTypeOK
<1> QED
  BY <1>1, <1>2, <1>3, <1>4, <1>5, StoreKeeps DEF MarketNext

LEMMA ValidAgree == MarketInv => WorkersAgree
<1> SUFFICES ASSUME MarketInv, NEW v \in Workers, NEW w \in Workers, NEW e \in Entries,
                    Valid(v, e), Valid(w, e)
             PROVE  cache[v][e].received < cache[w][e].received + TTL[e]
  BY DEF WorkersAgree
<1> DEFINE mine == cache[v][e].received
           theirs == cache[w][e].received
<1>1. cache[v][e] \in Entry /\ cache[w][e] \in Entry
  BY DEF Valid, MarketInv, MarketTypeOK
<1>2. now \in Nat /\ mine \in Nat /\ theirs \in Nat /\ TTL[e] \in Nat
  BY <1>1, TTLAssumption, TimeAssumption DEF MarketInv, MarketTypeOK, Entry, Times
<1>3. now < theirs + TTL[e] /\ mine <= now
  BY DEF Valid, MarketInv
<1> HIDE DEF mine, theirs
<1>4. mine < theirs + TTL[e]
  BY <1>2, <1>3
<1> QED
  BY <1>4 DEF mine, theirs

-----------------------------------------------------------------------------
(* The RPC node's health.                                                  *)

\* A thread that is about to read an error knows that some call has failed.
HealthInv ==
    /\ HealthTypeOK
    /\ NoStaleError
    /\ \A t \in Threads :
          probe[t] # None /\ probe[t].at = "errors" /\ lastError => t \in failed

LEMMA InitHealth == HealthInit => HealthInv
BY DEF HealthInit, HealthInv, HealthTypeOK, NoStaleError

LEMMA Moves ==
    ASSUME HealthTypeOK, NEW t \in Threads, probe[t] # None,
           NEW at \in {"first", "second", "errors", "answer"}, Step(t, at)
    PROVE  /\ probe' \in [Threads -> Probe \cup {None}]
           /\ probe'[t] # None /\ probe'[t].at = at /\ probe'[t].told = probe[t].told
           /\ \A u \in Threads \ {t} : UNCHANGED probe[u]
<1>1. probe[t] \in Probe
  BY DEF HealthTypeOK
<1>2. /\ probe'[t] = [probe[t] EXCEPT !.at = at, !.tries = 0]
      /\ \A u \in Threads \ {t} : UNCHANGED probe[u]
  BY DEF Step, HealthTypeOK
<1>3. /\ probe'[t] \in Probe
      /\ probe'[t].at = at /\ probe'[t].told = probe[t].told
  <2>1. 0 \in 0 .. Attempts - 1
    BY AttemptsAssumption
  <2> QED
    BY <1>1, <1>2, <2>1 DEF Probe
<1>4. probe'[t] # None
  BY <1>3, ProbeAssumption
<1>5. probe' \in [Threads -> Probe \cup {None}]
  BY <1>3 DEF Step, HealthTypeOK
<1> QED
  BY <1>2, <1>3, <1>4, <1>5

\* The end of a call is a move.
LEMMA Goes ==
    ASSUME HealthTypeOK, NEW t \in Threads, probe[t] # None, NEW ok \in BOOLEAN, Go(t, ok)
    PROVE  /\ probe' \in [Threads -> Probe \cup {None}]
           /\ probe'[t] # None /\ probe'[t].told = probe[t].told
           /\ \A u \in Threads \ {t} : UNCHANGED probe[u]
<1>1. PICK at \in {"second", "errors", "answer"} : Step(t, at)
  BY DEF Go
<1> QED
  BY <1>1, Moves

LEMMA StepHealth == HealthInv /\ [HealthNext]_healthVars => HealthInv'
<1> SUFFICES ASSUME HealthInv, [HealthNext]_healthVars PROVE HealthInv'
  OBVIOUS
<1> USE DEF HealthInv
<1>1. ASSUME NEW t \in Threads, NEW view \in Views, Ask(t, view) PROVE HealthInv'
  <2> DEFINE new == [view |-> view, at |-> "first", tries |-> 0, told |-> FALSE]
  <2>1. 0 \in 0 .. Attempts - 1
    BY AttemptsAssumption
  <2>2. new \in Probe
    BY <2>1 DEF Probe
  <2>3. /\ probe' \in [Threads -> Probe \cup {None}]
        /\ probe'[t].at = "first" /\ ~probe'[t].told
        /\ \A u \in Threads \ {t} : UNCHANGED probe[u]
    BY <1>1, <2>2 DEF Ask, HealthTypeOK
  <2>4. HealthTypeOK'
    BY <1>1, <2>3 DEF Ask, HealthTypeOK
  <2> QED
    BY <1>1, <2>3, <2>4 DEF Ask, NoStaleError
<1>2. ASSUME NEW t \in Threads, Succeed(t) PROVE HealthInv'
  <2>1. probe[t] # None /\ Go(t, TRUE)
    BY <1>2 DEF Succeed, Calling
  <2>2. /\ probe' \in [Threads -> Probe \cup {None}]
        /\ probe'[t] # None /\ probe'[t].told = probe[t].told
        /\ \A u \in Threads \ {t} : UNCHANGED probe[u]
    BY <2>1, Goes
  <2>3. HealthTypeOK'
    BY <1>2, <2>2 DEF Succeed, HealthTypeOK
  <2> QED
    BY <1>2, <2>1, <2>2, <2>3 DEF Succeed, NoStaleError
<1>3. ASSUME NEW t \in Threads, Retry(t) PROVE HealthInv'
  <2>1. probe[t] \in Probe
    BY <1>3 DEF Retry, Calling, HealthTypeOK
  <2>2. /\ probe'[t] = [probe[t] EXCEPT !.tries = probe[t].tries + 1]
        /\ \A u \in Threads \ {t} : UNCHANGED probe[u]
    BY <1>3 DEF Retry, HealthTypeOK
  <2>3. probe[t].tries + 1 \in 0 .. Attempts - 1
    BY <1>3, <2>1, AttemptsAssumption DEF Retry, Probe
  <2>4. probe'[t] \in Probe /\ probe'[t].at = probe[t].at /\ probe'[t].told = probe[t].told
    BY <2>1, <2>2, <2>3 DEF Probe
  <2>5. HealthTypeOK'
    BY <1>3, <2>4 DEF Retry, HealthTypeOK
  <2> QED
    BY <1>3, <2>2, <2>4, <2>5 DEF Retry, Calling, NoStaleError
<1>4. ASSUME NEW t \in Threads, GiveUp(t) PROVE HealthInv'
  <2>1. probe[t] # None /\ Go(t, FALSE)
    BY <1>4 DEF GiveUp, Calling
  <2>2. /\ probe' \in [Threads -> Probe \cup {None}]
        /\ probe'[t] # None /\ probe'[t].told = probe[t].told
        /\ \A u \in Threads \ {t} : UNCHANGED probe[u]
    BY <2>1, Goes
  <2>3. HealthTypeOK'
    BY <1>4, <2>2 DEF GiveUp, HealthTypeOK
  <2>4. \A u \in Threads : probe'[u] # None => u \in failed'
    BY <1>4, <2>1, <2>2 DEF GiveUp
  <2> QED
    BY <2>3, <2>4 DEF NoStaleError
<1>5. ASSUME NEW t \in Threads, ReadErrors(t) PROVE HealthInv'
  <2>1. probe[t] \in Probe
    BY <1>5 DEF ReadErrors, HealthTypeOK
  <2>2. /\ probe'[t] = [probe[t] EXCEPT !.at = "answer", !.told = lastError]
        /\ \A u \in Threads \ {t} : UNCHANGED probe[u]
    BY <1>5 DEF ReadErrors, HealthTypeOK
  <2>3. probe'[t] \in Probe /\ probe'[t].at = "answer" /\ probe'[t].told = lastError
    BY <2>1, <2>2 DEF Probe, HealthTypeOK
  <2>4. HealthTypeOK'
    BY <1>5, <2>3 DEF ReadErrors, HealthTypeOK
  <2> QED
    BY <1>5, <2>2, <2>3, <2>4 DEF ReadErrors, NoStaleError
<1>6. ASSUME NEW t \in Threads, Respond(t) PROVE HealthInv'
  <2>1. /\ probe' \in [Threads -> Probe \cup {None}] /\ probe'[t] = None
        /\ \A u \in Threads \ {t} : UNCHANGED probe[u]
    BY <1>6 DEF Respond, HealthTypeOK
  <2>2. HealthTypeOK'
    BY <1>6, <2>1 DEF Respond, HealthTypeOK
  <2> QED
    BY <1>6, <2>1, <2>2 DEF Respond, NoStaleError
<1>7. CASE NodeToggles
  BY <1>7 DEF NodeToggles, HealthTypeOK, NoStaleError
<1>8. CASE UNCHANGED healthVars
  BY <1>8 DEF healthVars, HealthTypeOK, NoStaleError
<1> QED
  BY <1>1, <1>2, <1>3, <1>4, <1>5, <1>6, <1>7, <1>8 DEF HealthNext

-----------------------------------------------------------------------------
(* The server.                                                             *)

WebInv == KeysInv /\ RateInv /\ MarketInv /\ HealthInv

LEMMA InitWeb == Init => WebInv
BY InitKeys, InitRate, InitMarket, InitHealth DEF Init, WebInv

LEMMA StepWeb == WebInv /\ [Next]_vars => WebInv'
<1> SUFFICES ASSUME WebInv, [Next]_vars PROVE WebInv'
  OBVIOUS
<1>1. CASE load = "keys" /\ KeysNext /\ UNCHANGED <<load, now, rateVars, marketVars, healthVars>>
  <2>1. KeysInv' /\ RateInv' /\ MarketInv' /\ HealthInv'
    BY <1>1, StepKeys, StepRate, StepMarket, StepHealth DEF WebInv
  <2> QED
    BY <1>1, <2>1 DEF WebInv
<1>2. CASE load = "limit" /\ RateNext /\ UNCHANGED <<load, keyVars, marketVars, healthVars>>
  <2>1. KeysInv' /\ RateInv' /\ HealthInv'
    BY <1>2, StepKeys, StepRate, StepHealth DEF WebInv
  <2>2. now' = now \/ Tick
    BY <1>2 DEF RateNext
  <2>3. MarketInv'
    BY <1>2, <2>2, StepMarket DEF WebInv, MarketNext
  <2> QED
    BY <1>2, <2>1, <2>3 DEF WebInv
<1>3. CASE load = "markets" /\ MarketNext /\ UNCHANGED <<load, keyVars, rateVars, healthVars>>
  <2>1. KeysInv' /\ MarketInv' /\ HealthInv'
    BY <1>3, StepKeys, StepMarket, StepHealth DEF WebInv
  <2>2. now' = now \/ Tick
    BY <1>3 DEF MarketNext
  <2>3. RateInv'
    BY <1>3, <2>2, StepRate DEF WebInv, RateNext
  <2> QED
    BY <1>3, <2>1, <2>3 DEF WebInv
<1>4. CASE load = "health" /\ HealthNext /\ UNCHANGED <<load, now, keyVars, rateVars, marketVars>>
  <2>1. KeysInv' /\ RateInv' /\ MarketInv' /\ HealthInv'
    BY <1>4, StepKeys, StepRate, StepMarket, StepHealth DEF WebInv
  <2> QED
    BY <1>4, <2>1 DEF WebInv
<1>5. CASE UNCHANGED vars
  <2>1. UNCHANGED <<load, now, keyVars, rateVars, marketVars, healthVars>>
    BY <1>5 DEF vars
  <2>2. KeysInv' /\ RateInv' /\ MarketInv' /\ HealthInv'
    BY <2>1, StepKeys, StepRate, StepMarket, StepHealth DEF WebInv
  <2> QED
    BY <2>1, <2>2 DEF WebInv
<1> QED
  BY <1>1, <1>2, <1>3, <1>4, <1>5 DEF Next

-----------------------------------------------------------------------------
(* The theorems.                                                           *)

\* The inductive invariant of the web server.
THEOREM WebIsConsistent == Spec => []WebInv
BY InitWeb, StepWeb, PTL DEF Spec

\* Type correctness of the web server's parts.
THEOREM WebTyped == Spec => []TypeOK
<1>1. WebInv => TypeOK
  BY DEF WebInv, TypeOK, KeysInv, RateInv, MarketInv, HealthInv
<1> QED
  BY <1>1, WebIsConsistent, PTL

\* What RateLimitProof and this module show of each part, of the server the runs
\* check.
THEOREM WebIsSafe ==
    Spec => [](ReplacedHasSuccessor /\ CreationsWithinLimit /\ WithinLimit /\ WorkersAgree /\ NoStaleError)
<1>1. WebInv => ReplacedHasSuccessor /\ CreationsWithinLimit /\ WithinLimit /\ WorkersAgree /\ NoStaleError
  BY RoomIsLimit, BoundedIsWithin, ValidAgree DEF WebInv, KeysInv, HealthInv
<1> QED
  BY <1>1, WebIsConsistent, PTL

\* What two workers show of the market is less than a time to live apart.
THEOREM MarketsAgree == MarketSpec => []WorkersAgree
BY InitMarket, StepMarket, ValidAgree, PTL DEF MarketSpec

\* An error in a health answer is of its own request's time, for any number of
\* threads that share last_error.
THEOREM ErrorsAreOfNow == HealthSpec => []NoStaleError
<1>1. HealthInv => NoStaleError
  BY DEF HealthInv
<1> QED
  BY <1>1, InitHealth, StepHealth, PTL DEF HealthSpec

\* Whatever the load, a key that stopped working stays so, and whom Redis refuses has
\* made `limit` requests in the window before.
THEOREM StepsAreSafe == Spec => RevokedIsFinal /\ RefusedWereMany
<1>1. [Next]_vars => [KeysNext]_keyVars /\ ([RateNext]_<<rateVars, now>> \/ UNCHANGED tried)
  BY DEF Next, vars, keyVars, rateVars
<1>2. WebInv /\ [Next]_vars =>
        /\ [\A k \in Keys : keys[k] # None /\ ~keys[k].active => ~keys'[k].active]_keys
        /\ [\A n \in DOMAIN tried' \ DOMAIN tried : ~RefusedTooSoon(n)]_tried
  BY <1>1, NeverOnAgain, RefusalsAreFounded DEF WebInv
<1> QED
  BY <1>2, WebIsConsistent, PTL DEF Spec, RevokedIsFinal, RefusedWereMany
=============================================================================
