------------------------- MODULE SharedStateProofs -------------------------
(***************************************************************************)
(* Proofs about the shared state of the control process, for every value   *)
(* of its constants: the rate limiter keeps its bursts and its promises,   *)
(* the cache serves nothing older than a TTL and a load, and the           *)
(* connection makes durable what it acknowledged.                          *)
(*                                                                         *)
(* The arguments.  Limiter: the grants of a window and what the bucket     *)
(* still holds stay within one budget; when a promise falls due its bucket *)
(* holds a token.  Cache: a value is as old as the version it was loaded   *)
(* from, and a writer that has replaced a version has the keys that still  *)
(* hold it before it.  Connection: the tables number their events without  *)
(* gaps, the committed one is contained in the seen one, and the stream    *)
(* has sent, or has in its batch, all the events it has passed.            *)
(***************************************************************************)
EXTENDS SharedState, FiniteSetTheorems, FunctionTheorems, TLAPS

-----------------------------------------------------------------------------
(* The rate limiter.                                                       *)

\* What refills in x ticks is a number of parts, and one more tick adds Refill.
LEMMA OneMoreTick ==
    ASSUME NEW x \in Nat
    PROVE  x * Refill \in Nat /\ (x + 1) * Refill = x * Refill + Refill
    BY RateAssumption

\* try_consume finds between nothing and a full bucket.
LEMMA FilledType ==
    ASSUME TypeOK, NEW a \in Agents
    PROVE  Filled(a) \in Nat /\ Filled(a) <= Capacity
<1>1. Bucket(a) \in [made : BOOLEAN, tokens : Nat, at : Nat] /\ Bucket(a).at <= now
  BY RateAssumption DEF TypeOK, Bucket
<1>2. now - Bucket(a).at \in Nat
  BY <1>1 DEF TypeOK
<1>3. (now - Bucket(a).at) * Refill \in Nat
  BY <1>2, OneMoreTick
<1> QED
  BY <1>1, <1>3, RateAssumption DEF Filled

\* The type invariant is inductive: a bucket never holds more than its
\* capacity and its clock is never ahead of the time.
THEOREM TypeCorrect == Spec => []TypeOK
<1>1. Init => TypeOK
  BY RateAssumption DEF Init, TypeOK, NoBucket
<1>2. TypeOK /\ [Next]_vars => TypeOK'
  <2> SUFFICES ASSUME TypeOK, [Next]_vars PROVE TypeOK'
    OBVIOUS
  <2>1. CASE Tick
    BY <2>1, RateAssumption DEF TypeOK, Tick
  <2>2. CASE Open
    BY <2>2, RateAssumption DEF TypeOK, Open
  <2>3. ASSUME NEW a \in Agents, Admit(a) PROVE TypeOK'
    <3>1. Filled(a) - Cost \in Nat /\ Filled(a) - Cost <= Capacity
      BY <2>3, FilledType, RateAssumption DEF Admit
    <3>2. now \in Nat
      BY RateAssumption DEF TypeOK
    <3> QED
      BY <2>3, <3>1, <3>2, RateAssumption DEF TypeOK, Admit
  <2>4. ASSUME NEW a \in Agents, Refuse(a) PROVE TypeOK'
    <3>1. Filled(a) \in Nat /\ Filled(a) <= Capacity
      BY FilledType
    <3>2. now \in Nat
      BY RateAssumption DEF TypeOK
    <3>3. RetryTicks(a) \in Nat
      BY <2>4, <3>1, RateAssumption DEF RetryTicks, Deficit, Refuse
    <3>4. now + RetryAfter(RetryTicks(a)) * Second \in Nat
      BY <3>2, <3>3, RateAssumption DEF RetryAfter
    <3> QED
      BY <2>4, <3>1, <3>2, <3>4 DEF TypeOK, Refuse
  <2>5. CASE UNCHANGED vars
    BY <2>5 DEF TypeOK, vars
  <2> QED
    BY <2>1, <2>2, <2>3, <2>4, <2>5 DEF Next
<1> QED
  BY <1>1, <1>2, PTL DEF Spec

\* The budget of a window is kept: a grant moves parts from the bucket to the
\* grants, a tick adds at most Refill to both sides, a new window starts with
\* no grants and at most a full bucket.
LEMMA BudgetStep == TypeOK /\ BudgetInvariant /\ [Next]_vars => BudgetInvariant'
<1> SUFFICES ASSUME TypeOK, BudgetInvariant, [Next]_vars, NEW b \in Agents
             PROVE  (admitted[b] + Filled(b) <= Capacity + (now - since) * Refill)'
  BY DEF BudgetInvariant
<1> USE RateAssumption
<1>0. /\ now \in Nat /\ since \in Nat /\ since <= now
      /\ admitted[b] \in Nat
      /\ bucket[b] \in [made : BOOLEAN, tokens : Nat, at : Nat] /\ bucket[b].at <= now
      /\ Filled(b) \in Nat /\ Filled(b) <= Capacity
      /\ admitted[b] + Filled(b) <= Capacity + (now - since) * Refill
      /\ (now - since) * Refill \in Nat
  <2>1. now - since \in Nat
    BY DEF TypeOK
  <2> QED
    BY <2>1, FilledType, OneMoreTick DEF TypeOK, BudgetInvariant
<1>1. CASE Tick
  <2>1. (now + 1 - since) * Refill = (now - since) * Refill + Refill
    BY <1>0, OneMoreTick
  <2>2. Filled(b)' <= Filled(b) + Refill /\ Filled(b)' \in Nat
    <3>1. CASE bucket[b].made
      <4>1. (now + 1 - bucket[b].at) * Refill = (now - bucket[b].at) * Refill + Refill
            /\ (now - bucket[b].at) * Refill \in Nat
        <5> DEFINE x == now - bucket[b].at
        <5>1. x \in Nat /\ now + 1 - bucket[b].at = x + 1
          BY <1>0
        <5>2. x * Refill \in Nat /\ (x + 1) * Refill = x * Refill + Refill
          BY <5>1, OneMoreTick
        <5> QED
          BY <5>1, <5>2
      <4> QED
        BY <1>0, <1>1, <3>1, <4>1 DEF Tick, Filled, Bucket
    <3>2. CASE ~bucket[b].made
      BY <1>0, <1>1, <3>2 DEF Tick, Filled, Bucket
    <3> QED
      BY <3>1, <3>2
  <2> QED
    BY <1>0, <1>1, <2>1, <2>2 DEF Tick
<1>2. CASE Open
  <2>1. Filled(b)' = Filled(b)
    BY <1>2 DEF Open, Filled, Bucket
  <2> QED
    BY <1>0, <1>2, <2>1 DEF Open
<1>3. ASSUME NEW a \in Agents, Admit(a)
      PROVE  (admitted[b] + Filled(b) <= Capacity + (now - since) * Refill)'
  <2>1. CASE a = b
    <3>1. Filled(b)' = Filled(b) - Cost
      BY <1>0, <1>3, <2>1 DEF Admit, Filled, Bucket, TypeOK
    <3>2. admitted'[b] = admitted[b] + Cost
      BY <1>3, <2>1 DEF Admit, TypeOK
    <3> QED
      BY <1>0, <1>3, <3>1, <3>2 DEF Admit
  <2>2. CASE a # b
    <3>1. Filled(b)' = Filled(b) /\ admitted'[b] = admitted[b]
      BY <1>3, <2>2 DEF Admit, Filled, Bucket, TypeOK
    <3> QED
      BY <1>0, <1>3, <3>1 DEF Admit
  <2> QED
    BY <2>1, <2>2
<1>4. ASSUME NEW a \in Agents, Refuse(a)
      PROVE  (admitted[b] + Filled(b) <= Capacity + (now - since) * Refill)'
  <2>1. Filled(b)' = Filled(b)
    <3>1. CASE a = b
      BY <1>0, <1>4, <3>1 DEF Refuse, Filled, Bucket, TypeOK
    <3>2. CASE a # b
      BY <1>4, <3>2 DEF Refuse, Filled, Bucket, TypeOK
    <3> QED
      BY <3>1, <3>2
  <2> QED
    BY <1>0, <1>4, <2>1 DEF Refuse
<1>5. CASE UNCHANGED vars
  BY <1>0, <1>5 DEF vars, Filled, Bucket
<1> QED
  BY <1>1, <1>2, <1>3, <1>4, <1>5 DEF Next

\* In every window of time an agent is granted at most one burst and what
\* refills meanwhile (TokenBucket.try_consume), for all parameters.
THEOREM WindowBounded == Spec => []WindowBound
<1>1. Init => BudgetInvariant
  <2> SUFFICES ASSUME Init, NEW a \in Agents
               PROVE  admitted[a] + Filled(a) <= Capacity + (now - since) * Refill
    BY DEF BudgetInvariant
  <2>1. now - since = 0 /\ admitted[a] = 0 /\ 0 * Refill = 0
    BY RateAssumption DEF Init
  <2>2. Bucket(a).tokens = Capacity /\ now - Bucket(a).at = 0
    BY DEF Init, Bucket, NoBucket
  <2>3. Filled(a) = Capacity
    BY <2>1, <2>2, RateAssumption DEF Filled
  <2> QED
    BY <2>1, <2>3, RateAssumption
<1>2. TypeOK /\ BudgetInvariant => WindowBound
  <2> SUFFICES ASSUME TypeOK, BudgetInvariant, NEW a \in Agents
               PROVE  admitted[a] <= Capacity + (now - since) * Refill
    BY DEF WindowBound
  <2>1. now - since \in Nat
    BY RateAssumption DEF TypeOK
  <2>2. (now - since) * Refill \in Nat
    BY <2>1, OneMoreTick
  <2> QED
    BY <2>2, FilledType, RateAssumption DEF TypeOK, BudgetInvariant
<1> QED
  BY <1>1, <1>2, BudgetStep, TypeCorrect, PTL DEF Spec

\* Rounding up loses nothing.
LEMMA RoundedUp ==
    ASSUME NEW x \in Nat \ {0}, NEW y \in Nat \ {0}
    PROVE  (x + y - 1) \div y \in Nat /\ ((x + y - 1) \div y) * y >= x
<1> DEFINE q == (x + y - 1) \div y r == (x + y - 1) % y
<1>1. x + y - 1 \in Nat
  OBVIOUS
<1>2. q \in Nat /\ r \in 0..(y - 1) /\ x + y - 1 = y * q + r
  BY <1>1
<1>3. y * q \in Nat /\ y * q = q * y
  BY <1>2
<1> HIDE DEF q, r
<1>4. q * y >= x
  BY <1>2, <1>3
<1>5. QED
  BY <1>2, <1>4 DEF q

\* Products grow with their first factor.
LEMMA Grows ==
    ASSUME NEW x \in Nat, NEW y \in Nat, x <= y, NEW z \in Nat
    PROVE  x * z <= y * z
<1>1. PICK d \in Nat : y = x + d
  <2>1. y - x \in Nat /\ y = x + (y - x)
    OBVIOUS
  <2>2. QED
    BY <2>1
<1>2. (x + d) * z = x * z + d * z /\ d * z \in Nat /\ x * z \in Nat
  OBVIOUS
<1>3. QED
  BY <1>1, <1>2

\* When a promise is due its bucket holds a token.
PromisesCovered == \A a \in Agents : promise[a] # 0 =>
    /\ promise[a] > now => Filled(a) + (promise[a] - now) * Refill >= Cost
    /\ promise[a] <= now => Filled(a) >= Cost

\* The wait a refusal announces, in whole seconds, refills the whole deficit.
LEMMA RetryIsEnough ==
    ASSUME TypeOK, NEW a \in Agents, Filled(a) < Cost
    PROVE  /\ RetryAfter(RetryTicks(a)) * Second \in Nat \ {0}
           /\ Filled(a) + (RetryAfter(RetryTicks(a)) * Second) * Refill >= Cost
<1> USE RateAssumption
<1> DEFINE d == Deficit(a) t == RetryTicks(a) s == (t + Second - 1) \div Second
           ra == RetryAfter(t)
<1>1. Filled(a) \in Nat /\ d \in Nat \ {0} /\ d = Cost - Filled(a)
  BY FilledType DEF Deficit
<1>2. t = (d + Refill - 1) \div Refill
  BY DEF RetryTicks
<1> HIDE DEF d, t
<1>3. t \in Nat /\ t * Refill >= d
  BY <1>1, <1>2, RoundedUp
<1>4. t # 0
  BY <1>1, <1>3
<1>5. s \in Nat /\ s * Second >= t
  BY <1>3, <1>4, RoundedUp
<1>6. ra \in Nat \ {0} /\ ra >= s
  BY <1>5 DEF RetryAfter
<1> HIDE DEF s, ra
<1>7. ra * Second >= s * Second
  BY <1>5, <1>6, Grows
<1>8. ra * Second \in Nat /\ s * Second \in Nat
  BY <1>5, <1>6
<1>9. ra * Second >= t
  BY <1>3, <1>5, <1>7, <1>8
<1>10. (ra * Second) * Refill >= t * Refill
  BY <1>3, <1>8, <1>9, Grows
<1>11. (ra * Second) * Refill \in Nat /\ t * Refill \in Nat
  BY <1>3, <1>8
<1>12. Filled(a) + (ra * Second) * Refill >= Cost
  BY <1>1, <1>3, <1>10, <1>11
<1>13. ra * Second # 0
  BY <1>3, <1>4, <1>8, <1>9
<1>14. QED
  BY <1>8, <1>12, <1>13 DEF ra, t

\* PromisesCovered is inductive: each tick adds to the bucket what it takes from
\* the wait, a grant ends the promise, a refusal makes one that is long enough.
LEMMA PromisesStep == TypeOK /\ PromisesCovered /\ [Next]_vars => PromisesCovered'
<1> SUFFICES ASSUME TypeOK, PromisesCovered, [Next]_vars, NEW b \in Agents, promise'[b] # 0
             PROVE  /\ promise'[b] > now' => Filled(b)' + (promise'[b] - now') * Refill >= Cost
                    /\ promise'[b] <= now' => Filled(b)' >= Cost
  BY DEF PromisesCovered
<1> USE RateAssumption
<1>0. now \in Nat /\ promise[b] \in Nat /\ Filled(b) \in Nat /\ Filled(b) <= Capacity
  BY FilledType DEF TypeOK
<1>1. promise[b] # 0 => /\ promise[b] > now => Filled(b) + (promise[b] - now) * Refill >= Cost
                        /\ promise[b] <= now => Filled(b) >= Cost
  BY DEF PromisesCovered
<1>2. CASE Tick
  <2>1. now' = now + 1 /\ promise'[b] = promise[b] /\ promise[b] # 0
    BY <1>2 DEF Tick
  <2>2. Filled(b)' = (IF Filled(b) + Refill < Capacity THEN Filled(b) + Refill ELSE Capacity)
    <3>1. CASE bucket[b].made
      <4> DEFINE x == now - bucket[b].at
      <4>1. x \in Nat /\ bucket[b].tokens \in Nat
        BY DEF TypeOK
      <4>2. x * Refill \in Nat /\ (x + 1) * Refill = x * Refill + Refill
        BY <4>1, OneMoreTick
      <4>3. now' - bucket'[b].at = x + 1 /\ bucket'[b] = bucket[b]
        BY <1>2, <1>0, <4>1 DEF Tick, TypeOK
      <4>4. Filled(b) = IF bucket[b].tokens + x * Refill < Capacity THEN bucket[b].tokens + x * Refill ELSE Capacity
        BY <3>1 DEF Filled, Bucket
      <4>5. Filled(b)' = IF bucket[b].tokens + (x + 1) * Refill < Capacity THEN bucket[b].tokens + (x + 1) * Refill ELSE Capacity
        BY <3>1, <4>3 DEF Filled, Bucket
      <4> HIDE DEF x
      <4>6. QED
        BY <4>1, <4>2, <4>4, <4>5
    <3>2. CASE ~bucket[b].made
      <4>1. Filled(b) = Capacity /\ Filled(b)' = Capacity
        BY <1>0, <1>2, <3>2 DEF Tick, Filled, Bucket
      <4>2. QED
        BY <4>1
    <3>3. QED
      BY <3>1, <3>2
  <2>3. CASE promise[b] > now
    <3> DEFINE x == promise[b] - (now + 1)
    <3>1. x \in Nat /\ promise[b] - now = x + 1
      BY <1>0, <2>3
    <3>2. x * Refill \in Nat /\ (x + 1) * Refill = x * Refill + Refill
      BY <3>1, OneMoreTick
    <3>3. Filled(b) + x * Refill + Refill >= Cost
      BY <1>0, <1>1, <2>1, <2>3, <3>1, <3>2
    <3>4. promise'[b] - now' = x /\ (promise'[b] <= now' => x = 0)
      BY <1>0, <2>1, <2>3
    <3>5. 0 * Refill = 0
      OBVIOUS
    <3> HIDE DEF x
    <3>6. Filled(b)' + x * Refill >= Cost
      BY <1>0, <2>2, <3>2, <3>3
    <3>7. x = 0 => Filled(b)' >= Cost
      BY <1>0, <2>2, <3>3, <3>5
    <3>8. QED
      BY <3>4, <3>6, <3>7
  <2>4. CASE promise[b] <= now
    <3>1. Filled(b) >= Cost
      BY <1>1, <2>1, <2>4
    <3>2. Filled(b)' >= Cost /\ ~(promise'[b] > now')
      BY <1>0, <2>1, <2>2, <2>4, <3>1
    <3>3. QED
      BY <3>2
  <2>5. QED
    BY <1>0, <2>3, <2>4
<1>3. ASSUME now' = now, promise'[b] = promise[b], Filled(b)' = Filled(b)
      PROVE  /\ promise'[b] > now' => Filled(b)' + (promise'[b] - now') * Refill >= Cost
             /\ promise'[b] <= now' => Filled(b)' >= Cost
  BY <1>1, <1>3
<1>4. CASE Open
  BY <1>3, <1>4 DEF Open, Filled, Bucket
<1>5. ASSUME NEW a \in Agents, Admit(a)
      PROVE  /\ promise'[b] > now' => Filled(b)' + (promise'[b] - now') * Refill >= Cost
             /\ promise'[b] <= now' => Filled(b)' >= Cost
  <2>1. CASE a = b
    BY <1>5, <2>1 DEF Admit, TypeOK
  <2>2. CASE a # b
    <3>1. Filled(b)' = Filled(b) /\ promise'[b] = promise[b] /\ now' = now
      BY <1>5, <2>2 DEF Admit, Filled, Bucket, TypeOK
    <3>2. QED
      BY <1>3, <3>1
  <2>3. QED
    BY <2>1, <2>2
<1>6. ASSUME NEW a \in Agents, Refuse(a)
      PROVE  /\ promise'[b] > now' => Filled(b)' + (promise'[b] - now') * Refill >= Cost
             /\ promise'[b] <= now' => Filled(b)' >= Cost
  <2>1. now' = now
    BY <1>6 DEF Refuse
  <2>2. CASE a = b
    <3>1. Filled(b)' = Filled(b)
      BY <1>0, <1>6, <2>2 DEF Refuse, Filled, Bucket, TypeOK
    <3>2. CASE promise[b] # 0
      <4>1. promise'[b] = promise[b]
        BY <1>6, <2>2, <3>2 DEF Refuse, TypeOK
      <4>2. QED
        BY <1>3, <2>1, <3>1, <4>1
    <3>3. CASE promise[b] = 0
      <4> DEFINE x == RetryAfter(RetryTicks(b)) * Second
      <4>1. promise'[b] = now + x
        BY <1>6, <2>2, <3>3 DEF Refuse, TypeOK
      <4>2. x \in Nat \ {0} /\ Filled(b) + x * Refill >= Cost
        BY <1>6, <2>2, RetryIsEnough DEF Refuse
      <4> HIDE DEF x
      <4>3. promise'[b] - now' = x /\ ~(promise'[b] <= now')
        BY <1>0, <2>1, <4>1, <4>2
      <4>4. QED
        BY <3>1, <4>2, <4>3
    <3>4. QED
      BY <3>2, <3>3
  <2>3. CASE a # b
    <3>1. Filled(b)' = Filled(b) /\ promise'[b] = promise[b]
      BY <1>6, <2>3 DEF Refuse, Filled, Bucket, TypeOK
    <3>2. QED
      BY <1>3, <2>1, <3>1
  <2>4. QED
    BY <2>2, <2>3
<1>7. CASE UNCHANGED vars
  BY <1>3, <1>7 DEF vars, Filled, Bucket
<1>8. QED
  BY <1>2, <1>4, <1>5, <1>6, <1>7 DEF Next

\* An agent that comes back when Retry-After said, and has not been granted
\* anything in between, is not refused again (rate_limit_middleware).
THEOREM RetriesAreAdmitted == Spec => RetryAfterHolds
<1> DEFINE Kept == \A a \in Agents : promise[a] # 0 /\ promise[a] <= now /\ bucket'[a] # bucket[a]
                        => promise'[a] = 0
<1>1. Init => PromisesCovered
  BY DEF Init, PromisesCovered
<1>2. ASSUME TypeOK, PromisesCovered, [Next]_vars PROVE Kept
  <2> SUFFICES ASSUME NEW a \in Agents, promise[a] # 0, promise[a] <= now, bucket'[a] # bucket[a]
               PROVE  promise'[a] = 0
    OBVIOUS
  <2>1. Filled(a) >= Cost /\ Filled(a) \in Nat
    BY <1>2, FilledType DEF PromisesCovered
  <2>2. CASE Tick \/ Open \/ UNCHANGED vars
    BY <2>2 DEF Tick, Open, vars
  <2>3. ASSUME NEW b \in Agents, Admit(b) PROVE promise'[a] = 0
    BY <1>2, <2>3 DEF Admit, TypeOK
  <2>4. ASSUME NEW b \in Agents, Refuse(b) PROVE FALSE
    <3>1. a = b
      BY <1>2, <2>4 DEF Refuse, TypeOK
    <3>2. QED
      BY <2>1, <2>4, <3>1, RateAssumption DEF Refuse
  <2>5. QED
    BY <1>2, <2>2, <2>3, <2>4 DEF Next
<1>3. TypeOK /\ PromisesCovered /\ [Next]_vars => [Kept]_vars
  BY <1>2
<1>4. QED
  BY <1>1, <1>3, TypeCorrect, PromisesStep, PTL DEF Spec, RetryAfterHolds

-----------------------------------------------------------------------------
(* The response cache.  A value is as old as the version it was loaded     *)
(* from; ReplacedAt says when that version was superseded.                 *)

ChangeType == [at : Nat, by : Writers, cut : BOOLEAN]
WriterType == [at : {"idle", "invalidate", "undo"}, keys : Seq(Keys)]
ReaderType == [at : {"idle", "load", "set"}, key : Keys, val : 0..MaxVersion, since : Nat]

CacheTypes ==
    /\ cacheNow \in 0..CacheTime
    /\ version \in [Resources -> 1..MaxVersion]
    /\ replaced \in [Resources -> [1..MaxVersion -> ChangeType]]
    /\ store \in [Keys -> [val : 0..MaxVersion, expires : Nat, late : BOOLEAN]]
    /\ reader \in [Readers -> ReaderType]
    /\ cacheWriter \in [Writers -> WriterType]
    /\ served \in [key : Keys, val : 0..MaxVersion]

\* What is stored, or about to be, is a version its resource has had.
Loaded(k, v) == v \in 1..version[ResourceOf[k]]
ValuesLoaded ==
    /\ \A k \in Keys : store[k] # Cache!None => Loaded(k, store[k].val)
    /\ \A c \in Readers : reader[c].at = "set" => Loaded(reader[c].key, reader[c].val)

\* v is current, or was so at time t.
LastsTo(k, v, t) ==
    v = version[ResourceOf[k]] \/ t <= replaced[ResourceOf[k]][v].at

\* How old the value of a reader and of an entry can be.
AgesBounded ==
    /\ \A c \in Readers : reader[c].at = "set" =>
        /\ LastsTo(reader[c].key, reader[c].val, reader[c].since)
        /\ reader[c].since <= cacheNow /\ cacheNow <= reader[c].since + MaxLoad
    /\ \A k \in Keys : store[k] # Cache!None =>
        /\ store[k].expires <= cacheNow + TTL[k]
        /\ \/ store[k].val = version[ResourceOf[k]]
           \/ store[k].expires <= replaced[ResourceOf[k]][store[k].val].at + TTL[k] + MaxLoad

\* w has k still to invalidate.
Pending(w, k) == \E i \in DOMAIN cacheWriter[w].keys : cacheWriter[w].keys[i] = k

\* A change could not remove the entry of k, or is about to.
Spares(change, k) ==
    \/ change.cut
    \/ k \notin Cache!ToSet(Invalidates[change.by])
    \/ Pending(change.by, k)

\* Every change after an entry that was not late spares it.
WritersRemove ==
    /\ \A w \in Writers : cacheWriter[w].at # "invalidate" => cacheWriter[w].keys = <<>>
    /\ \A k \in Keys : store[k] # Cache!None /\ ~store[k].late =>
        \A u \in store[k].val .. version[ResourceOf[k]] - 1 :
            Spares(replaced[ResourceOf[k]][u], k)

CacheInv == CacheTypes /\ ValuesLoaded /\ AgesBounded /\ WritersRemove

\* What the action property says of one step.
AnswerIsYoung == served' # served =>
    LET k == served'.key v == served'.val r == ResourceOf[k] IN
    v = version[r] \/ replaced[r][v].at + TTL[k] + MaxLoad >= cacheNow



\* What CacheAssumption says of the constants, one by one.
LEMMA CacheConstants ==
    /\ CacheTime \in Nat /\ MaxVersion \in Nat \ {0} /\ MaxLoad \in Nat
    /\ \A k \in Keys : ResourceOf[k] \in Resources /\ TTL[k] \in Nat
    /\ \A w \in Writers : Writes[w] \subseteq Resources /\ Invalidates[w] \in Seq(Keys)
  BY CacheAssumption

\* The fields of the variables.
LEMMA CacheFields ==
    ASSUME CacheTypes
    PROVE  /\ cacheNow \in Nat
           /\ \A r \in Resources : version[r] \in 1..MaxVersion
           /\ \A r \in Resources, v \in 1..MaxVersion : replaced[r][v] \in ChangeType
           /\ \A r \in Resources, v \in 1..MaxVersion : replaced[r][v].at \in Nat /\ replaced[r][v].by \in Writers
           /\ \A k \in Keys : store[k].val \in 0..MaxVersion /\ store[k].expires \in Nat /\ store[k].late \in BOOLEAN
           /\ \A c \in Readers : reader[c].key \in Keys /\ reader[c].val \in 0..MaxVersion /\ reader[c].since \in Nat
           /\ \A w \in Writers : cacheWriter[w].keys \in Seq(Keys)
<1>1. cacheNow \in Nat
  BY CacheConstants DEF CacheTypes
<1>2. \A r \in Resources : version[r] \in 1..MaxVersion
  BY DEF CacheTypes
<1>3. ASSUME NEW r \in Resources, NEW v \in 1..MaxVersion
      PROVE  /\ replaced[r][v] \in ChangeType
             /\ replaced[r][v].at \in Nat /\ replaced[r][v].by \in Writers
  <2>1. replaced[r] \in [1..MaxVersion -> ChangeType]
    BY DEF CacheTypes
  <2>2. replaced[r][v] \in ChangeType
    BY <2>1
  <2>3. QED
    BY <2>2 DEF ChangeType
<1>4. \A k \in Keys : store[k].val \in 0..MaxVersion /\ store[k].expires \in Nat /\ store[k].late \in BOOLEAN
  BY DEF CacheTypes
<1>5. \A c \in Readers : reader[c].key \in Keys /\ reader[c].val \in 0..MaxVersion /\ reader[c].since \in Nat
  BY DEF CacheTypes, ReaderType
<1>6. \A w \in Writers : cacheWriter[w].keys \in Seq(Keys)
  BY DEF CacheTypes, WriterType
<1> QED BY <1>1, <1>2, <1>3, <1>4, <1>5, <1>6

\* A change gives the resources of its writer a new version and says of the old
\* one when and by whom it was superseded.
LEMMA SupersedeDoes ==
    ASSUME CacheTypes, NEW w \in Writers, NEW cut \in BOOLEAN, Cache!Supersede(w, cut)
    PROVE  /\ version' \in [Resources -> 1..MaxVersion]
           /\ replaced' \in [Resources -> [1..MaxVersion -> ChangeType]]
           /\ \A r \in Resources \ Writes[w] : version'[r] = version[r] /\ replaced'[r] = replaced[r]
           /\ \A r \in Writes[w] :
                /\ version'[r] = version[r] + 1
                /\ \A v \in 1..MaxVersion : v # version[r] => replaced'[r][v] = replaced[r][v]
                /\ replaced'[r][version[r]] = [at |-> cacheNow, by |-> w, cut |-> cut]
<1> DEFINE new == [at |-> cacheNow, by |-> w, cut |-> cut]
<1>1. \A r \in Resources : version'[r] = version[r] + (IF r \in Writes[w] THEN 1 ELSE 0)
  BY DEF Cache!Supersede
<1>2. \A r \in Resources : version[r] \in 1..MaxVersion
  BY CacheFields
<1>3. \A r \in Writes[w] : version[r] < MaxVersion
  BY DEF Cache!Supersede
<1>4. \A r \in Resources : version'[r] \in 1..MaxVersion
  BY <1>1, <1>2, <1>3, CacheConstants
<1>5. version' \in [Resources -> 1..MaxVersion]
  BY <1>4 DEF Cache!Supersede
<1>6. new \in ChangeType
  BY CacheFields DEF ChangeType
<1>7. \A r \in Resources : replaced'[r] =
          IF r \in Writes[w] THEN [replaced[r] EXCEPT ![version[r]] = new] ELSE replaced[r]
  BY DEF Cache!Supersede
<1>8. \A r \in Resources : replaced[r] \in [1..MaxVersion -> ChangeType]
  BY DEF CacheTypes
<1> HIDE DEF new
<1>9. \A r \in Resources : replaced'[r] \in [1..MaxVersion -> ChangeType]
  BY <1>6, <1>7, <1>8
<1>10. replaced' \in [Resources -> [1..MaxVersion -> ChangeType]]
  BY <1>9 DEF Cache!Supersede
<1>11. ASSUME NEW r \in Resources \ Writes[w]
       PROVE  version'[r] = version[r] /\ replaced'[r] = replaced[r]
  <2>1. version'[r] = version[r] + 0 /\ version[r] \in Nat
    BY <1>1, <1>2, CacheConstants
  <2>2. replaced'[r] = replaced[r]
    BY <1>7
  <2>3. QED
    BY <2>1, <2>2
<1>12. ASSUME NEW r \in Writes[w]
       PROVE  /\ version'[r] = version[r] + 1
              /\ \A v \in 1..MaxVersion : v # version[r] => replaced'[r][v] = replaced[r][v]
              /\ replaced'[r][version[r]] = new
  <2>1. r \in Resources
    BY CacheConstants
  <2>2. replaced'[r] = [replaced[r] EXCEPT ![version[r]] = new]
    BY <1>7, <2>1
  <2>3. version[r] \in 1..MaxVersion /\ replaced[r] \in [1..MaxVersion -> ChangeType]
    BY <1>2, <1>8, <2>1
  <2>4. QED
    BY <1>1, <2>1, <2>2, <2>3
<1>13. QED
  BY <1>5, <1>10, <1>11, <1>12 DEF new

\* What a request that is cut off leaves: its changes, marked, and nothing to do.
LEMMA CutOffDoes ==
    ASSUME CacheTypes, NEW w \in Writers, Cache!CutOff(w)
    PROVE  /\ replaced' \in [Resources -> [1..MaxVersion -> ChangeType]]
           /\ \A r \in Resources, v \in 1..MaxVersion :
                /\ replaced'[r][v].at = replaced[r][v].at
                /\ replaced'[r][v].by = replaced[r][v].by
                /\ replaced[r][v].by = w => replaced'[r][v].cut
                /\ replaced[r][v].cut => replaced'[r][v].cut
           /\ cacheWriter'[w] \in WriterType
           /\ cacheWriter'[w].keys = <<>> /\ cacheWriter'[w].at # "invalidate"
           /\ \A o \in Writers \ {w} : cacheWriter'[o] = cacheWriter[o]
           /\ UNCHANGED <<cacheNow, version, store, reader, served>>
<1> DEFINE Marked(change) == IF change.by = w THEN [change EXCEPT !.cut = TRUE] ELSE change
<1>1. \A r \in Resources, v \in 1..MaxVersion : replaced'[r][v] = Marked(replaced[r][v])
  BY DEF Cache!CutOff
<1>2. ASSUME NEW change \in ChangeType
      PROVE  /\ Marked(change) \in ChangeType
             /\ Marked(change).at = change.at /\ Marked(change).by = change.by
             /\ change.by = w => Marked(change).cut
             /\ change.cut => Marked(change).cut
  BY DEF ChangeType
<1>3. \A r \in Resources, v \in 1..MaxVersion : replaced[r][v] \in ChangeType
  BY CacheFields
<1> HIDE DEF Marked
<1>4. \A r \in Resources : replaced'[r] = [v \in 1..MaxVersion |-> Marked(replaced[r][v])]
  BY DEF Cache!CutOff, Marked
<1>5. \A r \in Resources : replaced'[r] \in [1..MaxVersion -> ChangeType]
  BY <1>2, <1>3, <1>4
<1>6. replaced' \in [Resources -> [1..MaxVersion -> ChangeType]]
  BY <1>5 DEF Cache!CutOff
<1> DEFINE ended == [at |-> IF w \in Creates THEN "undo" ELSE "idle", keys |-> <<>>]
<1>7. ended \in WriterType /\ ended.keys = <<>> /\ ended.at # "invalidate"
  BY DEF WriterType
<1>8. cacheWriter' = [cacheWriter EXCEPT ![w] = ended]
  BY DEF Cache!CutOff
<1>9. cacheWriter'[w] = ended /\ \A o \in Writers \ {w} : cacheWriter'[o] = cacheWriter[o]
  BY <1>8 DEF CacheTypes
<1>10. UNCHANGED <<cacheNow, version, store, reader, served>>
  BY DEF Cache!CutOff
<1>11. QED
  BY <1>1, <1>2, <1>3, <1>6, <1>7, <1>9, <1>10

\* Every action of the cache keeps the types.
LEMMA CacheTypesNext ==
    ASSUME CacheTypes, [Cache!Next]_cacheVars
    PROVE  CacheTypes'
<1>1. ASSUME NEW c \in Readers, Cache!Load(c) PROVE CacheTypes'
  <2> DEFINE k == reader[c].key
  <2>1. k \in Keys /\ cacheNow \in Nat
    BY CacheFields
  <2>2. version[ResourceOf[k]] \in 0..MaxVersion
    BY <2>1, CacheFields, CacheConstants
  <2>3. [at |-> "set", key |-> k, since |-> cacheNow, val |-> version[ResourceOf[k]]] \in ReaderType
    BY <2>1, <2>2 DEF ReaderType
  <2>4. reader' \in [Readers -> ReaderType]
    BY <1>1, <2>3 DEF CacheTypes, Cache!Load
  <2>5. QED
    BY <1>1, <2>4 DEF CacheTypes, Cache!Load
<1>2. ASSUME NEW c \in Readers, Cache!Set(c) PROVE CacheTypes'
  <2> DEFINE k == reader[c].key v == reader[c].val
             e == [val |-> v, expires |-> cacheNow + TTL[k], late |-> v # version[ResourceOf[k]]]
  <2>1. k \in Keys /\ v \in 0..MaxVersion
    BY CacheFields
  <2>2. cacheNow + TTL[k] \in Nat
    BY <2>1, CacheFields, CacheConstants
  <2>3. (v # version[ResourceOf[k]]) \in BOOLEAN
    OBVIOUS
  <2>4. e \in [val : 0..MaxVersion, expires : Nat, late : BOOLEAN]
    BY <2>1, <2>2, <2>3
  <2>5. store' \in [Keys -> [val : 0..MaxVersion, expires : Nat, late : BOOLEAN]]
    BY <1>2, <2>4 DEF CacheTypes, Cache!Set
  <2>6. served' \in [key : Keys, val : 0..MaxVersion]
    BY <1>2, <2>1 DEF Cache!Set, Cache!Answer
  <2>7. Cache!IdleReader \in ReaderType
    BY <2>1, CacheConstants DEF Cache!IdleReader, ReaderType
  <2>8. reader' \in [Readers -> ReaderType]
    BY <1>2, <2>7 DEF CacheTypes, Cache!Set
  <2>9. QED
    BY <1>2, <2>5, <2>6, <2>8 DEF CacheTypes, Cache!Set
<1>3. ASSUME NEW c \in Readers, NEW k \in Keys, Cache!Get(c, k) PROVE CacheTypes'
  <2>1. CASE Cache!Hit(k)
    <3>1. served' \in [key : Keys, val : 0..MaxVersion]
      BY <1>3, <2>1, CacheFields DEF Cache!Get, Cache!Answer
    <3>2. QED
      BY <1>3, <2>1, <3>1 DEF CacheTypes, Cache!Get
  <2>2. CASE ~Cache!Hit(k)
    <3>1. Cache!None \in [val : 0..MaxVersion, expires : Nat, late : BOOLEAN]
      BY CacheConstants DEF Cache!None
    <3>2. [at |-> "load", key |-> k, val |-> 0, since |-> 0] \in ReaderType
      BY CacheConstants DEF ReaderType
    <3>3. reader' \in [Readers -> ReaderType]
      BY <1>3, <2>2, <3>2 DEF CacheTypes, Cache!Get
    <3>4. store' \in [Keys -> [val : 0..MaxVersion, expires : Nat, late : BOOLEAN]]
      BY <1>3, <2>2, <3>1 DEF CacheTypes, Cache!Get
    <3>5. QED
      BY <1>3, <2>2, <3>3, <3>4 DEF CacheTypes, Cache!Get
  <2>3. QED
    BY <2>1, <2>2
<1>4. ASSUME NEW w \in Writers, Cache!Change(w) PROVE CacheTypes'
  <2>1. /\ version' \in [Resources -> 1..MaxVersion]
        /\ replaced' \in [Resources -> [1..MaxVersion -> ChangeType]]
    BY <1>4, SupersedeDoes DEF Cache!Change
  <2>2. [at |-> "invalidate", keys |-> Invalidates[w]] \in WriterType
    BY CacheConstants DEF WriterType
  <2>3. cacheWriter' \in [Writers -> WriterType]
    BY <1>4, <2>2 DEF CacheTypes, Cache!Change
  <2>4. QED
    BY <1>4, <2>1, <2>3 DEF CacheTypes, Cache!Change
<1>5. ASSUME NEW w \in Writers, Cache!Invalidate(w) PROVE CacheTypes'
  <2>1. Cache!None \in [val : 0..MaxVersion, expires : Nat, late : BOOLEAN]
    BY CacheConstants DEF Cache!None
  <2>2. store' \in [Keys -> [val : 0..MaxVersion, expires : Nat, late : BOOLEAN]]
    BY <1>5, <2>1 DEF CacheTypes, Cache!Invalidate
  <2>3. Tail(cacheWriter[w].keys) \in Seq(Keys)
    BY <1>5, CacheFields DEF Cache!Invalidate
  <2>4. cacheWriter' \in [Writers -> WriterType]
    <3>1. [at |-> "invalidate", keys |-> Tail(cacheWriter[w].keys)] \in WriterType
      BY <2>3 DEF WriterType
    <3>2. QED
      BY <1>5, <3>1 DEF CacheTypes, Cache!Invalidate
  <2>5. QED
    BY <1>5, <2>2, <2>4 DEF CacheTypes, Cache!Invalidate
<1>6. Cache!IdleWriter \in WriterType
  BY DEF Cache!IdleWriter, WriterType
<1>7. ASSUME NEW w \in Writers, Cache!WriteAnswered(w) PROVE CacheTypes'
  BY <1>6, <1>7 DEF CacheTypes, Cache!WriteAnswered
<1>8. ASSUME NEW w \in Writers, Cache!CutOff(w) PROVE CacheTypes'
  <2>1. cacheWriter' \in [Writers -> WriterType]
    BY <1>8, CutOffDoes DEF CacheTypes, Cache!CutOff
  <2>2. QED
    BY <1>8, <2>1, CutOffDoes DEF CacheTypes
<1>9. ASSUME NEW w \in Writers, Cache!Undo(w) PROVE CacheTypes'
  <2>1. /\ version' \in [Resources -> 1..MaxVersion]
        /\ replaced' \in [Resources -> [1..MaxVersion -> ChangeType]]
    <3>1. CASE Cache!Supersede(w, TRUE)
      BY <3>1, SupersedeDoes
    <3>2. CASE UNCHANGED <<version, replaced>>
      BY <3>2 DEF CacheTypes
    <3>3. QED
      BY <1>9, <3>1, <3>2 DEF Cache!Undo
  <2>2. QED
    BY <1>6, <1>9, <2>1 DEF CacheTypes, Cache!Undo
<1>10. ASSUME Cache!Tick PROVE CacheTypes'
  BY <1>10, CacheConstants DEF CacheTypes, Cache!Tick
<1>11. CASE UNCHANGED cacheVars
  BY <1>11 DEF CacheTypes, cacheVars
<1>12. QED
  BY <1>1, <1>2, <1>3, <1>4, <1>5, <1>7, <1>8, <1>9, <1>10, <1>11 DEF Cache!Next

\* What a change, or its rollback, does to the life of a version.
LEMMA SupersedeEnds ==
    ASSUME CacheTypes, NEW w \in Writers, NEW cut \in BOOLEAN, Cache!Supersede(w, cut),
           NEW k \in Keys, NEW v, Loaded(k, v)
    PROVE  /\ Loaded(k, v)'
           /\ v # version[ResourceOf[k]] =>
                /\ replaced'[ResourceOf[k]][v] = replaced[ResourceOf[k]][v]
                /\ v # version'[ResourceOf[k]]
           /\ v = version[ResourceOf[k]] => \/ v = version'[ResourceOf[k]]
                                           \/ replaced'[ResourceOf[k]][v].at = cacheNow
<1> DEFINE r == ResourceOf[k]
<1>1. r \in Resources /\ version[r] \in 1..MaxVersion /\ v \in 1..version[r]
  BY CacheFields, CacheConstants DEF Loaded
<1>2. v \in 1..MaxVersion
  BY <1>1, CacheConstants
<1>3. CASE r \in Writes[w]
  <2>1. /\ version'[r] = version[r] + 1
        /\ \A u \in 1..MaxVersion : u # version[r] => replaced'[r][u] = replaced[r][u]
        /\ replaced'[r][version[r]] = [at |-> cacheNow, by |-> w, cut |-> cut]
    BY <1>3, SupersedeDoes
  <2>2. v # version'[r] /\ v \in 1..version'[r]
    BY <1>1, <2>1
  <2>3. v # version[r] => replaced'[r][v] = replaced[r][v]
    BY <1>2, <2>1
  <2>4. v = version[r] => replaced'[r][v].at = cacheNow
    BY <2>1
  <2>5. QED
    BY <2>2, <2>3, <2>4 DEF Loaded
<1>4. CASE r \notin Writes[w]
  <2>1. version'[r] = version[r] /\ replaced'[r] = replaced[r]
    BY <1>1, <1>4, SupersedeDoes
  <2>2. QED
    BY <1>1, <2>1 DEF Loaded
<1>5. QED
  BY <1>3, <1>4

\* What a store does to the entries and to the reader.
LEMMA SetDoes ==
    ASSUME CacheTypes, NEW c \in Readers, Cache!Set(c)
    PROVE  LET k == reader[c].key v == reader[c].val IN
           /\ k \in Keys /\ v \in 0..MaxVersion /\ reader[c].at = "set"
           /\ store'[k].val = v /\ store'[k].expires = cacheNow + TTL[k]
           /\ store'[k].late = (v # version[ResourceOf[k]])
           /\ served' = [key |-> k, val |-> v]
           /\ \A j \in Keys \ {k} : store'[j] = store[j]
           /\ reader'[c].at = "idle"
           /\ \A d \in Readers \ {c} : reader'[d] = reader[d]
           /\ UNCHANGED <<cacheNow, version, replaced, cacheWriter>>
<1> DEFINE k == reader[c].key v == reader[c].val
           e == [val |-> v, expires |-> cacheNow + TTL[k], late |-> v # version[ResourceOf[k]]]
<1>1. k \in Keys /\ v \in 0..MaxVersion
  BY CacheFields
<1>2. store' = [store EXCEPT ![k] = e]
  BY DEF Cache!Set
<1>3. store'[k] = e
  BY <1>1, <1>2 DEF CacheTypes
<1>4. e.val = v /\ e.expires = cacheNow + TTL[k]
  OBVIOUS
<1>5. e.late = (v # version[ResourceOf[k]])
  OBVIOUS
<1>6. \A j \in Keys \ {k} : store'[j] = store[j]
  BY <1>2 DEF CacheTypes
<1>7. reader'[c].at = "idle" /\ \A d \in Readers \ {c} : reader'[d] = reader[d]
  BY DEF CacheTypes, Cache!Set, Cache!IdleReader
<1>8. reader[c].at = "set" /\ served' = [key |-> k, val |-> v] /\ UNCHANGED <<cacheNow, version, replaced, cacheWriter>>
  BY DEF Cache!Set, Cache!Answer
<1>9. QED
  BY <1>1, <1>3, <1>4, <1>5, <1>6, <1>7, <1>8

\* What a query does to its reader.
LEMMA LoadDoes ==
    ASSUME CacheTypes, NEW c \in Readers, Cache!Load(c)
    PROVE  /\ reader'[c].key = reader[c].key /\ reader'[c].val = version[ResourceOf[reader[c].key]]
           /\ reader'[c].since = cacheNow
           /\ \A d \in Readers \ {c} : reader'[d] = reader[d]
           /\ UNCHANGED <<cacheNow, version, replaced, store, cacheWriter, served>>
  BY DEF CacheTypes, Cache!Load

\* What a lookup does: it answers, or it drops the entry and goes on to load.
LEMMA GetDoes ==
    ASSUME CacheTypes, NEW c \in Readers, NEW k \in Keys, Cache!Get(c, k)
    PROVE  /\ UNCHANGED <<cacheNow, version, replaced, cacheWriter>>
           /\ \/ /\ store[k] # Cache!None /\ store[k].expires >= cacheNow
                 /\ served' = [key |-> k, val |-> store[k].val]
                 /\ UNCHANGED <<store, reader>>
              \/ /\ UNCHANGED served /\ store'[k] = Cache!None
                 /\ \A j \in Keys \ {k} : store'[j] = store[j]
                 /\ reader'[c].at = "load"
                 /\ \A d \in Readers \ {c} : reader'[d] = reader[d]
<1>1. CASE Cache!Hit(k)
  BY <1>1 DEF Cache!Hit, Cache!Get, Cache!Answer
<1>2. CASE ~Cache!Hit(k)
  BY <1>2 DEF CacheTypes, Cache!Get
<1>3. QED
  BY <1>1, <1>2

\* What an invalidation removes and what its writer has left to do.
LEMMA InvalidateDoes ==
    ASSUME CacheTypes, NEW w \in Writers, Cache!Invalidate(w)
    PROVE  LET s == cacheWriter[w].keys IN
           /\ s \in Seq(Keys) /\ s # <<>>
           /\ store'[Head(s)] = Cache!None
           /\ \A j \in Keys \ {Head(s)} : store'[j] = store[j]
           /\ cacheWriter'[w].keys = Tail(s)
           /\ cacheWriter[w].at = "invalidate" /\ cacheWriter'[w].at = "invalidate"
           /\ \A o \in Writers \ {w} : cacheWriter'[o] = cacheWriter[o]
           /\ UNCHANGED <<cacheNow, version, replaced, reader, served>>
<1> DEFINE s == cacheWriter[w].keys
<1>1. s \in Seq(Keys) /\ s # <<>>
  BY CacheFields DEF Cache!Invalidate
<1>2. Head(s) \in Keys
  BY <1>1
<1>3. store'[Head(s)] = Cache!None /\ \A j \in Keys \ {Head(s)} : store'[j] = store[j]
  BY <1>2 DEF CacheTypes, Cache!Invalidate
<1>4. /\ cacheWriter'[w].keys = Tail(s)
      /\ cacheWriter[w].at = "invalidate" /\ cacheWriter'[w].at = "invalidate"
  BY DEF CacheTypes, Cache!Invalidate
<1>5. \A o \in Writers \ {w} : cacheWriter'[o] = cacheWriter[o]
  BY DEF CacheTypes, Cache!Invalidate
<1>6. UNCHANGED <<cacheNow, version, replaced, reader, served>>
  BY DEF Cache!Invalidate
<1>7. QED
  BY <1>1, <1>3, <1>4, <1>5, <1>6

\* ValuesLoaded is inductive: a load reads the current version, and versions only
\* grow.
LEMMA ValuesNext ==
    ASSUME CacheTypes, ValuesLoaded, [Cache!Next]_cacheVars
    PROVE  ValuesLoaded'
<1>1. ASSUME NEW c \in Readers, Cache!Load(c) PROVE ValuesLoaded'
  <2>1. reader[c].key \in Keys
    BY CacheFields
  <2>2. Loaded(reader[c].key, version[ResourceOf[reader[c].key]])
    BY <2>1, CacheFields, CacheConstants DEF Loaded
  <2>3. QED
    BY <1>1, <2>2, LoadDoes DEF ValuesLoaded, Loaded
<1>2. ASSUME NEW c \in Readers, Cache!Set(c) PROVE ValuesLoaded'
  BY <1>2, SetDoes DEF ValuesLoaded, Loaded
<1>3. ASSUME NEW c \in Readers, NEW k \in Keys, Cache!Get(c, k) PROVE ValuesLoaded'
  BY <1>3, GetDoes DEF ValuesLoaded, Loaded
<1>4. ASSUME NEW w \in Writers, NEW cut \in BOOLEAN, Cache!Supersede(w, cut),
             UNCHANGED <<store, reader>>
      PROVE  ValuesLoaded'
  <2>1. \A k \in Keys : \A v : Loaded(k, v) => Loaded(k, v)'
    BY <1>4, SupersedeEnds
  <2>2. \A c \in Readers : reader[c].key \in Keys
    BY CacheFields
  <2>3. QED
    BY <1>4, <2>1, <2>2 DEF ValuesLoaded
<1>5. ASSUME NEW w \in Writers, Cache!Invalidate(w) PROVE ValuesLoaded'
  BY <1>5, InvalidateDoes DEF ValuesLoaded, Loaded
<1>6. ASSUME UNCHANGED <<version, store, reader>> PROVE ValuesLoaded'
  BY <1>6 DEF ValuesLoaded, Loaded
<1>7. ASSUME NEW w \in Writers, Cache!Change(w) PROVE ValuesLoaded'
  BY <1>4, <1>7 DEF Cache!Change
<1>8. ASSUME NEW w \in Writers, Cache!Undo(w) PROVE ValuesLoaded'
  BY <1>4, <1>6, <1>8 DEF Cache!Undo
<1>9. ASSUME NEW w \in Writers, Cache!WriteAnswered(w) \/ Cache!CutOff(w) PROVE ValuesLoaded'
  BY <1>6, <1>9 DEF Cache!WriteAnswered, Cache!CutOff
<1>10. ASSUME Cache!Tick PROVE ValuesLoaded'
  BY <1>6, <1>10 DEF Cache!Tick
<1>11. CASE UNCHANGED cacheVars
  BY <1>6, <1>11 DEF cacheVars
<1>12. QED
  BY <1>1, <1>2, <1>3, <1>5, <1>7, <1>8, <1>9, <1>10, <1>11 DEF Cache!Next

\* AgesBounded is inductive: a change ends the life of one version at the present
\* time, and a tick happens only while every load is within MaxLoad.
LEMMA AgesNext ==
    ASSUME CacheTypes, ValuesLoaded, AgesBounded, [Cache!Next]_cacheVars
    PROVE  AgesBounded'
<1>1. ASSUME NEW c \in Readers, Cache!Load(c) PROVE AgesBounded'
  <2>0. UNCHANGED <<cacheNow, version, replaced, store>>
    BY <1>1, LoadDoes
  <2>1. ASSUME NEW d \in Readers, reader'[d].at = "set"
        PROVE  /\ LastsTo(reader[d].key, reader[d].val, reader[d].since)'
               /\ (reader[d].since <= cacheNow /\ cacheNow <= reader[d].since + MaxLoad)'
    <3>1. CASE d = c
      <4>1. reader'[d].val = version[ResourceOf[reader'[d].key]] /\ reader'[d].since = cacheNow
        BY <1>1, <3>1, LoadDoes
      <4>2. cacheNow <= cacheNow + MaxLoad
        BY CacheFields, CacheConstants
      <4>3. cacheNow <= cacheNow
        BY CacheFields
      <4>4. QED
        BY <2>0, <4>1, <4>2, <4>3 DEF LastsTo
    <3>2. CASE d # c
      <4>1. reader'[d] = reader[d]
        BY <1>1, <3>2, LoadDoes
      <4>2. QED
        BY <2>0, <2>1, <4>1 DEF AgesBounded, LastsTo
    <3>3. QED
      BY <3>1, <3>2
  <2>2. QED
    BY <2>0, <2>1 DEF AgesBounded
<1>2. ASSUME NEW c \in Readers, Cache!Set(c) PROVE AgesBounded'
  <2> DEFINE k == reader[c].key v == reader[c].val
  <2>1. k \in Keys /\ ResourceOf[k] \in Resources /\ v \in 1..MaxVersion /\ TTL[k] \in Nat
    BY <1>2, SetDoes, CacheFields, CacheConstants DEF ValuesLoaded, Loaded
  <2>2. replaced[ResourceOf[k]][v].at \in Nat /\ reader[c].since \in Nat /\ cacheNow \in Nat
    BY <2>1, CacheFields
  <2>3. /\ LastsTo(k, v, reader[c].since)
        /\ reader[c].since <= cacheNow /\ cacheNow <= reader[c].since + MaxLoad
    BY <1>2, SetDoes DEF AgesBounded
  <2>4. \/ v = version[ResourceOf[k]]
        \/ cacheNow + TTL[k] <= replaced[ResourceOf[k]][v].at + TTL[k] + MaxLoad
    <3>1. CASE reader[c].since <= replaced[ResourceOf[k]][v].at
      <4> DEFINE at == replaced[ResourceOf[k]][v].at begun == reader[c].since ttl == TTL[k]
      <4>1. at \in Nat /\ begun \in Nat /\ ttl \in Nat /\ cacheNow \in Nat /\ MaxLoad \in Nat
        BY <2>1, <2>2, CacheConstants
      <4>2. cacheNow <= begun + MaxLoad /\ begun <= at
        BY <2>3, <3>1
      <4> HIDE DEF at, begun, ttl
      <4>3. cacheNow + ttl <= at + ttl + MaxLoad
        BY <4>1, <4>2
      <4>4. QED
        BY <4>3 DEF at, ttl
    <3>2. QED
      BY <2>3, <3>1 DEF LastsTo
  <2>5. ASSUME NEW d \in Readers, reader'[d].at = "set"
        PROVE  /\ LastsTo(reader[d].key, reader[d].val, reader[d].since)'
               /\ (reader[d].since <= cacheNow /\ cacheNow <= reader[d].since + MaxLoad)'
    <3>1. d # c /\ reader'[d] = reader[d] /\ UNCHANGED <<cacheNow, version, replaced>>
      BY <1>2, <2>5, SetDoes
    <3>2. QED
      BY <2>5, <3>1 DEF AgesBounded, LastsTo
  <2>6. UNCHANGED <<cacheNow, version, replaced>>
    BY <1>2, SetDoes
  <2>7. ASSUME NEW j \in Keys, store'[j] # Cache!None
        PROVE  /\ store'[j].expires <= cacheNow + TTL[j]
               /\ \/ store'[j].val = version[ResourceOf[j]]
                  \/ store'[j].expires <= replaced[ResourceOf[j]][store'[j].val].at + TTL[j] + MaxLoad
    <3>1. CASE j = k
      <4>1. store'[j].val = v /\ store'[j].expires = cacheNow + TTL[j]
        BY <1>2, <3>1, SetDoes
      <4>2. cacheNow + TTL[j] <= cacheNow + TTL[j]
        BY <2>1, <2>2, <3>1
      <4>3. QED
        BY <2>4, <3>1, <4>1, <4>2
    <3>2. CASE j # k
      <4>1. store'[j] = store[j]
        BY <1>2, <3>2, SetDoes
      <4>2. QED
        BY <2>7, <4>1 DEF AgesBounded
    <3>3. QED
      BY <3>1, <3>2
  <2>8. QED
    BY <2>5, <2>6, <2>7 DEF AgesBounded
<1>3. ASSUME NEW c \in Readers, NEW k \in Keys, Cache!Get(c, k) PROVE AgesBounded'
  BY <1>3, GetDoes DEF AgesBounded, LastsTo
<1>4. ASSUME NEW w \in Writers, NEW cut \in BOOLEAN, Cache!Supersede(w, cut),
             UNCHANGED <<store, reader, cacheNow>>
      PROVE  AgesBounded'
  <2>0. UNCHANGED <<store, reader, cacheNow>>
    BY <1>4
  <2>1. ASSUME NEW k \in Keys, NEW v, Loaded(k, v)
        PROVE  /\ v # version[ResourceOf[k]] => replaced'[ResourceOf[k]][v] = replaced[ResourceOf[k]][v]
               /\ v # version[ResourceOf[k]] => v # version'[ResourceOf[k]]
               /\ v = version[ResourceOf[k]] => \/ v = version'[ResourceOf[k]]
                                               \/ replaced'[ResourceOf[k]][v].at = cacheNow
    BY <1>4, <2>1, SupersedeEnds
  <2>2. ASSUME NEW c \in Readers, reader[c].at = "set"
        PROVE  LastsTo(reader[c].key, reader[c].val, reader[c].since)'
    BY <2>0, <2>1, <2>2, CacheFields DEF AgesBounded, LastsTo, ValuesLoaded
  <2>3. ASSUME NEW k \in Keys, store[k] # Cache!None
        PROVE  \/ store[k].val = version'[ResourceOf[k]]
               \/ store[k].expires <= replaced'[ResourceOf[k]][store[k].val].at + TTL[k] + MaxLoad
    <3> DEFINE v == store[k].val r == ResourceOf[k]
    <3>1. Loaded(k, v)
      BY <2>3 DEF ValuesLoaded
    <3>2. store[k].expires \in Nat /\ cacheNow \in Nat /\ TTL[k] \in Nat
      BY CacheFields, CacheConstants
    <3>3. CASE v = version[r]
      <4>1. store[k].expires <= cacheNow + TTL[k]
        BY <2>3 DEF AgesBounded
      <4>2. store[k].expires <= cacheNow + TTL[k] + MaxLoad
        BY <3>2, <4>1, CacheConstants
      <4>3. QED
        BY <2>1, <3>1, <3>3, <4>2
    <3>4. CASE v # version[r]
      BY <2>1, <2>3, <3>1, <3>4 DEF AgesBounded
    <3>5. QED
      BY <3>3, <3>4
  <2>4. QED
    BY <2>0, <2>2, <2>3 DEF AgesBounded
<1>5. ASSUME NEW w \in Writers, Cache!Invalidate(w) PROVE AgesBounded'
  BY <1>5, InvalidateDoes DEF AgesBounded, LastsTo
<1>6. ASSUME NEW w \in Writers, Cache!CutOff(w) PROVE AgesBounded'
  <2>1. /\ \A r \in Resources, v \in 1..MaxVersion : replaced'[r][v].at = replaced[r][v].at
        /\ UNCHANGED <<cacheNow, version, store, reader>>
    BY <1>6, CutOffDoes
  <2>2. ASSUME NEW k \in Keys, NEW v, Loaded(k, v)
        PROVE  replaced'[ResourceOf[k]][v].at = replaced[ResourceOf[k]][v].at
    <3>1. ResourceOf[k] \in Resources /\ v \in 1..version[ResourceOf[k]] /\ version[ResourceOf[k]] \in 1..MaxVersion
      BY <2>2, CacheFields, CacheConstants DEF Loaded
    <3>2. v \in 1..MaxVersion
      BY <3>1, CacheConstants
    <3>3. QED
      BY <2>1, <3>1, <3>2
  <2>3. \A c \in Readers : reader[c].key \in Keys
    BY CacheFields
  <2>4. ASSUME NEW c \in Readers, reader[c].at = "set"
        PROVE  LastsTo(reader[c].key, reader[c].val, reader[c].since)'
    <3>1. Loaded(reader[c].key, reader[c].val)
      BY <2>4 DEF ValuesLoaded
    <3>2. QED
      BY <2>1, <2>2, <2>3, <2>4, <3>1 DEF AgesBounded, LastsTo
  <2>5. ASSUME NEW k \in Keys, store[k] # Cache!None
        PROVE  \/ store[k].val = version[ResourceOf[k]]
               \/ store[k].expires <= replaced'[ResourceOf[k]][store[k].val].at + TTL[k] + MaxLoad
    <3>1. Loaded(k, store[k].val)
      BY <2>5 DEF ValuesLoaded
    <3>2. QED
      BY <2>2, <2>5, <3>1 DEF AgesBounded
  <2>6. QED
    BY <2>1, <2>4, <2>5 DEF AgesBounded
<1>7. ASSUME Cache!Tick PROVE AgesBounded'
  <2>1. /\ cacheNow' = cacheNow + 1 /\ UNCHANGED <<version, replaced, store, reader>>
        /\ \A c \in Readers : reader[c].at = "set" => cacheNow < reader[c].since + MaxLoad
    BY <1>7 DEF Cache!Tick
  <2>2. ASSUME NEW c \in Readers, reader[c].at = "set"
        PROVE  reader[c].since <= cacheNow' /\ cacheNow' <= reader[c].since + MaxLoad
    BY <2>1, <2>2, CacheFields, CacheConstants DEF AgesBounded
  <2>3. ASSUME NEW k \in Keys, store[k] # Cache!None PROVE store[k].expires <= cacheNow' + TTL[k]
    BY <2>1, <2>3, CacheFields, CacheConstants DEF AgesBounded
  <2>4. QED
    BY <2>1, <2>2, <2>3 DEF AgesBounded, LastsTo
<1>8. ASSUME UNCHANGED <<cacheNow, version, replaced, store, reader>> PROVE AgesBounded'
  BY <1>8 DEF AgesBounded, LastsTo
<1>9. ASSUME NEW w \in Writers, Cache!Change(w) PROVE AgesBounded'
  BY <1>4, <1>9 DEF Cache!Change
<1>10. ASSUME NEW w \in Writers, Cache!Undo(w) PROVE AgesBounded'
  BY <1>4, <1>8, <1>10 DEF Cache!Undo
<1>11. ASSUME NEW w \in Writers, Cache!WriteAnswered(w) PROVE AgesBounded'
  BY <1>8, <1>11 DEF Cache!WriteAnswered
<1>12. CASE UNCHANGED cacheVars
  BY <1>8, <1>12 DEF cacheVars
<1>13. QED
  BY <1>1, <1>2, <1>3, <1>5, <1>6, <1>7, <1>9, <1>10, <1>11, <1>12 DEF Cache!Next

\* WritersRemove is inductive: a change puts the keys it has to remove before its
\* writer, and an invalidation takes one of them from there and from the store.
LEMMA RemoveNext ==
    ASSUME CacheTypes, ValuesLoaded, WritersRemove, [Cache!Next]_cacheVars
    PROVE  WritersRemove'
<1> USE DEF Spares
<1>0. ASSUME NEW j \in Keys, store[j] # Cache!None, NEW u \in store[j].val .. version[ResourceOf[j]] - 1
      PROVE  /\ ResourceOf[j] \in Resources /\ u \in 1..MaxVersion
             /\ replaced[ResourceOf[j]][u].by \in Writers
  <2>1. /\ ResourceOf[j] \in Resources /\ version[ResourceOf[j]] \in 1..MaxVersion
        /\ store[j].val \in 1..version[ResourceOf[j]]
    BY <1>0, CacheFields, CacheConstants DEF ValuesLoaded, Loaded
  <2>2. u \in 1..MaxVersion
    BY <2>1, CacheConstants
  <2>3. QED
    BY <2>1, <2>2, CacheFields
<1>1. ASSUME NEW c \in Readers, Cache!Load(c) PROVE WritersRemove'
  BY <1>1, LoadDoes DEF WritersRemove, Pending
<1>2. ASSUME NEW c \in Readers, Cache!Set(c) PROVE WritersRemove'
  <2> DEFINE k == reader[c].key v == reader[c].val
  <2>1. UNCHANGED <<version, replaced, cacheWriter>>
    BY <1>2, SetDoes
  <2>2. ASSUME NEW j \in Keys, store'[j] # Cache!None, ~store'[j].late,
               NEW u \in store'[j].val .. version[ResourceOf[j]] - 1
        PROVE  Spares(replaced[ResourceOf[j]][u], j)
    <3>1. CASE j = k
      <4>1. store'[j].val = version[ResourceOf[j]]
        BY <1>2, <2>2, <3>1, SetDoes
      <4>2. version[ResourceOf[j]] \in Nat
        BY CacheFields, CacheConstants
      <4>3. QED
        BY <2>2, <4>1, <4>2
    <3>2. CASE j # k
      <4>1. store'[j] = store[j]
        BY <1>2, <3>2, SetDoes
      <4>2. QED
        BY <2>2, <4>1 DEF WritersRemove
    <3>3. QED
      BY <3>1, <3>2
  <2>3. QED
    BY <2>1, <2>2 DEF WritersRemove, Pending
<1>3. ASSUME NEW c \in Readers, NEW k \in Keys, Cache!Get(c, k) PROVE WritersRemove'
  BY <1>3, GetDoes DEF WritersRemove, Pending
<1>4. ASSUME NEW w \in Writers, NEW cut \in BOOLEAN, Cache!Supersede(w, cut), UNCHANGED store,
             \A o \in Writers, j \in Keys : Pending(o, j) => Pending(o, j)',
             \A o \in Writers : cacheWriter'[o].at # "invalidate" => cacheWriter'[o].keys = <<>>,
             \A j \in Keys : cut \/ j \notin Cache!ToSet(Invalidates[w]) \/ Pending(w, j)'
      PROVE  WritersRemove'
  <2>0. /\ \A s \in Resources \ Writes[w] : version'[s] = version[s] /\ replaced'[s] = replaced[s]
        /\ \A s \in Writes[w] :
             /\ version'[s] = version[s] + 1
             /\ \A x \in 1..MaxVersion : x # version[s] => replaced'[s][x] = replaced[s][x]
             /\ replaced'[s][version[s]] = [at |-> cacheNow, by |-> w, cut |-> cut]
    <3>1. Cache!Supersede(w, cut)
      BY <1>4
    <3>2. QED
      BY <3>1, SupersedeDoes
  <2>1. ASSUME NEW j \in Keys, store[j] # Cache!None, ~store[j].late,
               NEW u \in store[j].val .. version'[ResourceOf[j]] - 1
        PROVE  \/ replaced'[ResourceOf[j]][u].cut
               \/ j \notin Cache!ToSet(Invalidates[replaced'[ResourceOf[j]][u].by])
               \/ \E o \in Writers : o = replaced'[ResourceOf[j]][u].by /\ Pending(o, j)'
    <3> DEFINE r == ResourceOf[j]
    <3>1. /\ r \in Resources /\ version[r] \in 1..MaxVersion
          /\ store[j].val \in 1..version[r]
      BY <2>1, CacheFields, CacheConstants DEF ValuesLoaded, Loaded
    <3>2. /\ r \in Writes[w] =>
              /\ version'[r] = version[r] + 1
              /\ \A x \in 1..MaxVersion : x # version[r] => replaced'[r][x] = replaced[r][x]
              /\ replaced'[r][version[r]] = [at |-> cacheNow, by |-> w, cut |-> cut]
          /\ r \notin Writes[w] => version'[r] = version[r] /\ replaced'[r] = replaced[r]
      BY <2>0, <3>1
    <3>3. u \in 1..MaxVersion /\ u \in store[j].val .. version[r]
      <4>1. version'[r] = version[r] \/ version'[r] = version[r] + 1
        BY <3>2
      <4> DEFINE old == store[j].val cur == version[r] new == version'[r]
      <4>2. u \in old .. new - 1
        BY <2>1
      <4>3. cur \in 1..MaxVersion /\ old \in 1..cur /\ (new = cur \/ new = cur + 1)
        BY <3>1, <4>1
      <4> HIDE DEF old, cur, new
      <4>4. u \in 1..MaxVersion /\ u \in old .. cur
        BY <4>2, <4>3, CacheConstants
      <4>5. QED
        BY <4>4 DEF old, cur
    <3>4. CASE u = version[r]
      <4>1. r \in Writes[w]
        <5>1. version'[r] # version[r]
          BY <2>1, <3>1, <3>4
        <5>2. QED
          BY <3>2, <5>1
      <4>2. replaced'[r][u].by = w /\ replaced'[r][u].cut = cut
        BY <3>2, <3>4, <4>1
      <4>3. QED
        BY <1>4, <4>2
    <3>5. CASE u # version[r]
      <4>1. replaced'[r][u] = replaced[r][u]
        BY <3>2, <3>3, <3>5
      <4>2. u \in store[j].val .. version[r] - 1
        BY <3>1, <3>3, <3>5
      <4>3. Spares(replaced[r][u], j) /\ replaced[r][u].by \in Writers
        BY <1>0, <2>1, <4>2 DEF WritersRemove
      <4>4. QED
        BY <1>4, <4>1, <4>3
    <3>6. QED
      BY <3>4, <3>5
  <2>2. QED
    BY <1>4, <2>1 DEF WritersRemove, Pending
<1>5. ASSUME NEW w \in Writers, Cache!Change(w) PROVE WritersRemove'
  <2>1. /\ cacheWriter[w].at = "idle"
        /\ cacheWriter'[w].keys = Invalidates[w] /\ cacheWriter'[w].at = "invalidate"
        /\ \A o \in Writers \ {w} : cacheWriter'[o] = cacheWriter[o]
    BY <1>5 DEF CacheTypes, Cache!Change
  <2>2. \A j \in Keys : ~Pending(w, j)
    BY <2>1 DEF WritersRemove, Pending
  <2>3. \A o \in Writers, j \in Keys : Pending(o, j) => Pending(o, j)'
    BY <2>1, <2>2 DEF Pending
  <2>4. \A o \in Writers : cacheWriter'[o].at # "invalidate" => cacheWriter'[o].keys = <<>>
    BY <2>1 DEF WritersRemove
  <2>5. \A j \in Keys : j \in Cache!ToSet(Invalidates[w]) => Pending(w, j)'
    BY <2>1 DEF Pending, Cache!ToSet
  <2>6. Cache!Supersede(w, FALSE) /\ UNCHANGED store
    BY <1>5 DEF Cache!Change
  <2>7. QED
    BY <1>4, <2>3, <2>4, <2>5, <2>6
<1>6. ASSUME NEW w \in Writers, Cache!Invalidate(w) PROVE WritersRemove'
  <2> DEFINE s == cacheWriter[w].keys
  <2>1. /\ s \in Seq(Keys) /\ s # <<>> /\ cacheWriter'[w].keys = Tail(s)
        /\ cacheWriter'[w].at = "invalidate" /\ store'[Head(s)] = Cache!None
        /\ \A o \in Writers \ {w} : cacheWriter'[o] = cacheWriter[o]
        /\ UNCHANGED <<version, replaced>>
    BY <1>6, InvalidateDoes
  <2>2. ASSUME NEW j \in Keys, j # Head(s), Pending(w, j) PROVE Pending(w, j)'
    <3>1. PICK i \in DOMAIN s : s[i] = j
      BY <2>2 DEF Pending
    <3>2. i \in 1..Len(s) /\ i # 1
      BY <2>1, <2>2, <3>1
    <3>3. i - 1 \in 1..Len(Tail(s)) /\ Tail(s)[i - 1] = j
      BY <2>1, <3>2, <3>1
    <3>4. i - 1 \in DOMAIN Tail(s)
      BY <2>1, <3>3
    <3>5. QED
      BY <2>1, <3>3, <3>4 DEF Pending
  <2>3. \A o \in Writers, j \in Keys : j # Head(s) /\ Pending(o, j) => Pending(o, j)'
    BY <2>1, <2>2 DEF Pending
  <2>4. \A o \in Writers : cacheWriter'[o].at # "invalidate" => cacheWriter'[o].keys = <<>>
    BY <2>1 DEF WritersRemove
  <2>5. ASSUME NEW j \in Keys, store'[j] # Cache!None, ~store'[j].late,
               NEW u \in store'[j].val .. version[ResourceOf[j]] - 1
        PROVE  \/ replaced[ResourceOf[j]][u].cut
               \/ j \notin Cache!ToSet(Invalidates[replaced[ResourceOf[j]][u].by])
               \/ \E o \in Writers : o = replaced[ResourceOf[j]][u].by /\ Pending(o, j)'
    <3>1. j # Head(s)
      BY <2>1, <2>5
    <3>2. store'[j] = store[j]
      BY <1>6, <3>1, InvalidateDoes
    <3>3. Spares(replaced[ResourceOf[j]][u], j) /\ replaced[ResourceOf[j]][u].by \in Writers
      BY <1>0, <2>5, <3>2 DEF WritersRemove
    <3>4. QED
      BY <2>3, <3>1, <3>3
  <2>6. QED
    BY <2>1, <2>4, <2>5 DEF WritersRemove, Pending
<1>7. ASSUME NEW w \in Writers, Cache!CutOff(w) PROVE WritersRemove'
  <2>1. /\ \A r \in Resources, v \in 1..MaxVersion :
              /\ replaced'[r][v].by = replaced[r][v].by
              /\ replaced[r][v].by = w => replaced'[r][v].cut
              /\ replaced[r][v].cut => replaced'[r][v].cut
        /\ cacheWriter'[w].keys = <<>> /\ cacheWriter'[w].at # "invalidate"
        /\ \A o \in Writers \ {w} : cacheWriter'[o] = cacheWriter[o]
        /\ UNCHANGED <<version, store>>
    BY <1>7, CutOffDoes
  <2>2. \A o \in Writers : cacheWriter'[o].at # "invalidate" => cacheWriter'[o].keys = <<>>
    BY <2>1 DEF WritersRemove
  <2>3. \A o \in Writers \ {w}, j \in Keys : Pending(o, j) => Pending(o, j)'
    BY <2>1 DEF Pending
  <2>4. ASSUME NEW j \in Keys, store[j] # Cache!None, ~store[j].late,
               NEW u \in store[j].val .. version[ResourceOf[j]] - 1
        PROVE  \/ replaced'[ResourceOf[j]][u].cut
               \/ j \notin Cache!ToSet(Invalidates[replaced'[ResourceOf[j]][u].by])
               \/ \E o \in Writers : o = replaced'[ResourceOf[j]][u].by /\ Pending(o, j)'
    <3>1. Spares(replaced[ResourceOf[j]][u], j)
      BY <2>4 DEF WritersRemove
    <3>2. QED
      BY <1>0, <2>1, <2>3, <2>4, <3>1
  <2>5. QED
    BY <2>1, <2>2, <2>4 DEF WritersRemove, Pending
<1>8. ASSUME NEW w \in Writers, cacheWriter[w].keys = <<>>, cacheWriter'[w] = Cache!IdleWriter,
             \A o \in Writers \ {w} : cacheWriter'[o] = cacheWriter[o]
      PROVE  /\ \A o \in Writers : cacheWriter'[o].keys = cacheWriter[o].keys
             /\ \A o \in Writers, j \in Keys : Pending(o, j) => Pending(o, j)'
             /\ \A o \in Writers : cacheWriter'[o].at # "invalidate" => cacheWriter'[o].keys = <<>>
  <2>1. \A o \in Writers : cacheWriter'[o].keys = cacheWriter[o].keys
    BY <1>8 DEF Cache!IdleWriter
  <2>2. QED
    BY <1>8, <2>1 DEF WritersRemove, Pending, Cache!IdleWriter
<1>9. ASSUME NEW w \in Writers, cacheWriter[w].keys = <<>>, cacheWriter'[w] = Cache!IdleWriter,
             \A o \in Writers \ {w} : cacheWriter'[o] = cacheWriter[o],
             UNCHANGED <<version, replaced, store>>
      PROVE  WritersRemove'
  <2>1. ASSUME NEW j \in Keys, store[j] # Cache!None, ~store[j].late,
               NEW u \in store[j].val .. version[ResourceOf[j]] - 1
        PROVE  \/ replaced[ResourceOf[j]][u].cut
               \/ j \notin Cache!ToSet(Invalidates[replaced[ResourceOf[j]][u].by])
               \/ \E o \in Writers : o = replaced[ResourceOf[j]][u].by /\ Pending(o, j)'
    <3>1. Spares(replaced[ResourceOf[j]][u], j)
      BY <2>1 DEF WritersRemove
    <3>2. QED
      BY <1>0, <1>8, <1>9, <2>1, <3>1
  <2>2. QED
    BY <1>8, <1>9, <2>1 DEF WritersRemove, Pending
<1>10. ASSUME NEW w \in Writers, Cache!WriteAnswered(w) PROVE WritersRemove'
  <2>1. /\ cacheWriter[w].keys = <<>> /\ cacheWriter'[w] = Cache!IdleWriter
        /\ \A o \in Writers \ {w} : cacheWriter'[o] = cacheWriter[o]
        /\ UNCHANGED <<version, replaced, store>>
    BY <1>10 DEF CacheTypes, Cache!WriteAnswered
  <2>2. QED
    BY <1>9, <2>1
<1>11. ASSUME NEW w \in Writers, Cache!Undo(w) PROVE WritersRemove'
  <2>1. /\ cacheWriter[w].at = "undo" /\ cacheWriter'[w] = Cache!IdleWriter
        /\ \A o \in Writers \ {w} : cacheWriter'[o] = cacheWriter[o]
        /\ UNCHANGED store
    BY <1>11 DEF CacheTypes, Cache!Undo
  <2>2. cacheWriter[w].keys = <<>>
    BY <2>1 DEF WritersRemove
  <2>3. CASE Cache!Supersede(w, TRUE)
    BY <1>4, <1>8, <2>1, <2>2, <2>3
  <2>4. CASE UNCHANGED <<version, replaced>>
    BY <1>9, <2>1, <2>2, <2>4
  <2>5. QED
    BY <1>11, <2>3, <2>4 DEF Cache!Undo
<1>12. ASSUME Cache!Tick PROVE WritersRemove'
  BY <1>12 DEF WritersRemove, Pending, Cache!Tick
<1>13. CASE UNCHANGED cacheVars
  BY <1>13 DEF WritersRemove, Pending, cacheVars
<1>14. QED
  BY <1>1, <1>2, <1>3, <1>5, <1>6, <1>7, <1>10, <1>11, <1>12, <1>13 DEF Cache!Next

\* An answer is no older than its route allows.
LEMMA AnswersNext ==
    ASSUME CacheTypes, ValuesLoaded, AgesBounded, [Cache!Next]_cacheVars
    PROVE  AnswerIsYoung
<1>1. ASSUME NEW c \in Readers, Cache!Load(c) PROVE UNCHANGED served
  BY <1>1, LoadDoes
<1>2. ASSUME NEW c \in Readers, Cache!Set(c) PROVE AnswerIsYoung
  <2> DEFINE k == reader[c].key v == reader[c].val
             at == replaced[ResourceOf[k]][v].at begun == reader[c].since ttl == TTL[k]
  <2>1. k \in Keys /\ reader[c].at = "set" /\ served' = [key |-> k, val |-> v]
    BY <1>2, SetDoes
  <2>2. ResourceOf[k] \in Resources /\ ttl \in Nat /\ v \in 1..version[ResourceOf[k]]
    BY <2>1, CacheConstants DEF ValuesLoaded, Loaded
  <2>3. v \in 1..MaxVersion
    BY <2>2, CacheFields, CacheConstants
  <2>4. at \in Nat /\ begun \in Nat /\ cacheNow \in Nat /\ MaxLoad \in Nat
    BY <2>2, <2>3, CacheFields, CacheConstants
  <2>5. v = version[ResourceOf[k]] \/ begun <= at
    BY <2>1 DEF AgesBounded, LastsTo
  <2>6. cacheNow <= begun + MaxLoad
    BY <2>1 DEF AgesBounded
  <2>7. begun <= at => at + ttl + MaxLoad >= cacheNow
    <3> HIDE DEF at, begun, ttl
    <3>1. QED
      BY <2>2, <2>4, <2>6
  <2>8. QED
    BY <2>1, <2>5, <2>7 DEF AnswerIsYoung
<1>3. ASSUME NEW c \in Readers, NEW k \in Keys, Cache!Get(c, k) PROVE AnswerIsYoung
  <2>1. CASE UNCHANGED served
    BY <2>1 DEF AnswerIsYoung
  <2>2. CASE /\ store[k] # Cache!None /\ store[k].expires >= cacheNow
             /\ served' = [key |-> k, val |-> store[k].val]
    <3> DEFINE v == store[k].val r == ResourceOf[k] at == replaced[r][v].at
               ttl == TTL[k] expires == store[k].expires
    <3>1. r \in Resources /\ ttl \in Nat /\ v \in 1..version[r]
      BY <2>2, CacheConstants DEF ValuesLoaded, Loaded
    <3>2. v \in 1..MaxVersion
      BY <3>1, CacheFields, CacheConstants
    <3>3. at \in Nat /\ expires \in Nat /\ cacheNow \in Nat /\ MaxLoad \in Nat
      BY <3>1, <3>2, CacheFields, CacheConstants
    <3>4. v = version[r] \/ expires <= at + ttl + MaxLoad
      BY <2>2 DEF AgesBounded
    <3>5. expires <= at + ttl + MaxLoad => at + ttl + MaxLoad >= cacheNow
      <4>1. expires >= cacheNow
        BY <2>2
      <4> HIDE DEF at, ttl, expires
      <4>2. QED
        BY <3>1, <3>3, <4>1
    <3>6. QED
      BY <2>2, <3>4, <3>5 DEF AnswerIsYoung
  <2>3. QED
    BY <1>3, <2>1, <2>2, GetDoes
<1>4. ASSUME NEW w \in Writers, Cache!Change(w) PROVE UNCHANGED served
  BY <1>4 DEF Cache!Change
<1>5. ASSUME NEW w \in Writers, Cache!Invalidate(w) PROVE UNCHANGED served
  BY <1>5 DEF Cache!Invalidate
<1>6. ASSUME NEW w \in Writers, Cache!WriteAnswered(w) \/ Cache!CutOff(w) \/ Cache!Undo(w)
      PROVE  UNCHANGED served
  BY <1>6 DEF Cache!WriteAnswered, Cache!CutOff, Cache!Undo
<1>7. ASSUME Cache!Tick PROVE UNCHANGED served
  BY <1>7 DEF Cache!Tick
<1>8. CASE UNCHANGED cacheVars
  BY <1>8 DEF cacheVars, AnswerIsYoung
<1>9. UNCHANGED served => AnswerIsYoung
  BY DEF AnswerIsYoung
<1>10. QED
  BY <1>1, <1>2, <1>3, <1>4, <1>5, <1>6, <1>7, <1>8, <1>9 DEF Cache!Next

\* The cache starts empty.
LEMMA CacheInitInv == Cache!Init => CacheInv
<1> SUFFICES ASSUME Cache!Init PROVE CacheInv
  OBVIOUS
<1>0. (CHOOSE k \in Keys : TRUE) \in Keys /\ (CHOOSE w \in Writers : TRUE) \in Writers
  BY CacheAssumption
<1>1. CacheTypes
  <2>1. cacheNow \in 0..CacheTime /\ version \in [Resources -> 1..MaxVersion]
    BY CacheConstants DEF Cache!Init
  <2>2. Cache!Current \in ChangeType
    BY <1>0 DEF Cache!Current, ChangeType
  <2>3. replaced \in [Resources -> [1..MaxVersion -> ChangeType]]
    BY <2>2 DEF Cache!Init
  <2>4. Cache!None \in [val : 0..MaxVersion, expires : Nat, late : BOOLEAN]
    BY CacheConstants DEF Cache!None
  <2>5. store \in [Keys -> [val : 0..MaxVersion, expires : Nat, late : BOOLEAN]]
    BY <2>4 DEF Cache!Init
  <2>6. Cache!IdleReader \in ReaderType /\ Cache!NoAnswer \in [key : Keys, val : 0..MaxVersion]
    BY <1>0, CacheConstants DEF Cache!IdleReader, Cache!NoAnswer, ReaderType
  <2>7. reader \in [Readers -> ReaderType] /\ served \in [key : Keys, val : 0..MaxVersion]
    BY <2>6 DEF Cache!Init
  <2>8. cacheWriter \in [Writers -> WriterType]
    BY DEF Cache!Init, Cache!IdleWriter, WriterType
  <2>9. QED
    BY <2>1, <2>3, <2>5, <2>7, <2>8 DEF CacheTypes
<1>2. \A c \in Readers : reader[c].at = "idle"
  BY DEF Cache!Init, Cache!IdleReader
<1>3. \A k \in Keys : store[k] = Cache!None
  BY DEF Cache!Init
<1>4. \A w \in Writers : cacheWriter[w].keys = <<>>
  BY DEF Cache!Init, Cache!IdleWriter
<1>5. ValuesLoaded /\ AgesBounded /\ WritersRemove
  BY <1>2, <1>3, <1>4 DEF ValuesLoaded, AgesBounded, WritersRemove
<1>6. QED
  BY <1>1, <1>5 DEF CacheInv

\* The inductive invariant of the cache.
LEMMA CacheInvariance == Cache!Spec => []CacheInv
<1>1. CacheInv /\ [Cache!Next]_(Cache!vars) => CacheInv'
  BY CacheTypesNext, ValuesNext, AgesNext, RemoveNext DEF CacheInv, Cache!vars, cacheVars
<1>2. QED
  BY <1>1, CacheInitInv, PTL DEF Cache!Spec

\* The cache holds values the database has had, and a stale one was stored late
\* or is spared by every change since: by a route that does not know its key, by
\* a request that was cut off before it came to the key, or by one that is about
\* to remove it (TTLCache, cached, invalidate_workers_cache).
THEOREM CacheStaysConsistent == Cache!Spec => []CacheConsistent
<1>1. ASSUME CacheInv PROVE Cache!TypeOK
  <2>1. ASSUME NEW k \in Keys, store[k] # Cache!None
        PROVE  store[k].val \in 1..version[ResourceOf[k]]
    BY <1>1, <2>1 DEF CacheInv, ValuesLoaded, Loaded
  <2>2. \A k \in Keys : store[k].val \in 0..MaxVersion /\ store[k].late \in BOOLEAN
    BY <1>1, CacheFields DEF CacheInv
  <2>3. \A c \in Readers : reader[c].at \in {"idle", "load", "set"} /\ reader[c].key \in Keys
    BY <1>1 DEF CacheInv, CacheTypes, ReaderType
  <2>4. \A w \in Writers : cacheWriter[w].at \in {"idle", "invalidate", "undo"}
    BY <1>1 DEF CacheInv, CacheTypes, WriterType
  <2>5. QED
    BY <1>1, <2>1, <2>2, <2>3, <2>4 DEF CacheInv, CacheTypes, Cache!TypeOK
<1>2. ASSUME CacheInv PROVE Cache!OnlyALateLoadIsStale
  BY <1>2 DEF CacheInv, WritersRemove, Spares, Pending, Cache!OnlyALateLoadIsStale, Cache!ToSet
<1>3. CacheInv => CacheConsistent
  BY <1>1, <1>2 DEF CacheConsistent, Cache!CacheConsistent
<1>4. QED
  BY <1>3, CacheInvariance, PTL

\* No answer is older than its route's TTL and the time of a load, whatever
\* reads and writes overlap (TTLCache.get, TTLCache.set).
THEOREM AnswersAreYoung == Cache!Spec => Cache!StaleAtMostTTL
<1>1. CacheInv /\ [Cache!Next]_(Cache!vars) => AnswerIsYoung
  BY AnswersNext DEF CacheInv, Cache!vars, cacheVars
<1>2. CacheInv /\ [Cache!Next]_(Cache!vars) => [AnswerIsYoung]_(Cache!vars)
  BY <1>1
<1>3. QED
  BY <1>2, CacheInvariance, PTL DEF Cache!Spec, Cache!StaleAtMostTTL, AnswerIsYoung

-----------------------------------------------------------------------------
(* The shared connection.                                                  *)

Row == {Connection!NoJob} \cup [origin : Origins, rev : {r.rev : r \in Reports}]

Table == [seq : [Events -> Nat], jobs : [Jobs -> Row]]

ConnTypes ==
    /\ disk \in Table /\ conn \in Table
    /\ eventWriter \in [Events -> {"idle", "executed", "acked"}]
    /\ report \in [Reports -> {"idle", "executed", "selected", "acked", "refused"}]
    /\ changed \subseteq Reports
    /\ roller \in [Rollers -> {"idle", "executed", "done"}]
    /\ cursor \in Nat
    /\ batch \in Seq([id : Events, seq : Nat]) /\ sent \in Seq(Events)
    /\ undone \subseteq Events \cup Reports /\ misled \in BOOLEAN
    /\ crashes \in 0..MaxCrashes

\* The sequences of a table are 1, 2, .. without a gap, each of one event.
Size(t) == Cardinality({e \in Events : t.seq[e] # 0})
Numbered(t) ==
    /\ \A e \in Events : t.seq[e] <= Size(t)
    /\ \A n \in 1..Size(t) : \E e \in Events : t.seq[e] = n
    /\ \A e, f \in Events : t.seq[e] = t.seq[f] /\ t.seq[e] # 0 => e = f

\* What is committed is in what the connection sees, and an applied report
\* only ever moves its row forward.
Contained ==
    /\ \A e \in Events : disk.seq[e] # 0 => conn.seq[e] = disk.seq[e]
    /\ \A j \in Jobs : disk.jobs[j] # Connection!NoJob =>
        conn.jobs[j].origin = disk.jobs[j].origin /\ conn.jobs[j].rev >= disk.jobs[j].rev

\* What the requests under way have written, unless it was undone.
Holds(t, r) == t.jobs[r.job].origin = r.origin /\ t.jobs[r.job].rev >= r.rev
Written ==
    /\ \A e \in Events \ undone :
        /\ eventWriter[e] = "executed" => conn.seq[e] # 0
        /\ eventWriter[e] = "acked" => disk.seq[e] # 0
    /\ \A r \in Reports \ undone :
        /\ report[r] = "executed" /\ conn.jobs[r.job].origin = r.origin => Holds(conn, r)
        /\ report[r] = "selected" => Holds(conn, r)
        /\ report[r] = "acked" => Holds(disk, r)

\* Who counts as applied is under way or answered, and no two of them are
\* retries of each other.
Counted ==
    /\ \A r \in changed \ undone :
        /\ report[r] \in {"executed", "selected", "acked"}
        /\ conn.jobs[r.job].rev >= r.rev
    /\ \A r, s \in changed \ undone : r.job = s.job /\ r.rev = s.rev => r = s

\* The last sequence the stream has read.
Seen == IF batch = <<>> THEN cursor ELSE batch[Len(batch)].seq
InBatch(e) == \E i \in DOMAIN batch : batch[i].id = e /\ batch[i].seq = conn.seq[e]
StreamOrdered ==
    /\ \A i \in DOMAIN batch : batch[i].seq > cursor
    /\ \A i, k \in DOMAIN batch : i < k => batch[i].seq < batch[k].seq
    /\ cursor <= Cardinality(Events)
    /\ \A i \in DOMAIN batch : batch[i].seq <= Cardinality(Events)
StreamCovers == ~misled =>
    /\ Seen <= Size(conn)
    /\ \A e \in Events : conn.seq[e] \in 1..Seen => Connection!Sent(e) \/ InBatch(e)

ConnInv ==
    /\ ConnTypes /\ Numbered(disk) /\ Numbered(conn) /\ Contained
    /\ Written /\ Counted /\ StreamOrdered /\ StreamCovers

\* What ConnectionAssumption says of the constants, one by one.
LEMMA ConnConstants ==
    /\ IsFiniteSet(Events) /\ "none" \notin Origins
    /\ \A r \in Reports : r.job \in Jobs /\ r.origin \in Origins /\ r.rev \in Nat \ {0}
    /\ Limit \in Nat \ {0} /\ MaxCrashes \in Nat
  BY ConnectionAssumption

\* The fields of a job's row.
LEMMA Rows ==
    /\ Connection!NoJob.origin = "none" /\ Connection!NoJob.rev = 0
    /\ \A x \in Row : x.rev \in Nat
    /\ \A x \in Row : x # Connection!NoJob => x.origin \in Origins
    /\ \A r \in Reports : [origin |-> r.origin, rev |-> r.rev] \in Row
<1>1. Connection!NoJob.origin = "none" /\ Connection!NoJob.rev = 0
  BY DEF Connection!NoJob
<1>2. ASSUME NEW x \in Row PROVE x.rev \in Nat /\ (x # Connection!NoJob => x.origin \in Origins)
  <2>1. CASE x = Connection!NoJob
    BY <2>1, <1>1
  <2>2. CASE x \in [origin : Origins, rev : {r.rev : r \in Reports}]
    <3>1. x.origin \in Origins /\ x.rev \in {r.rev : r \in Reports}
      BY <2>2
    <3>2. x.rev \in Nat
      BY <3>1, ConnConstants
    <3>3. QED
      BY <3>1, <3>2
  <2>3. QED
    BY <2>1, <2>2 DEF Row
<1>3. ASSUME NEW r \in Reports PROVE [origin |-> r.origin, rev |-> r.rev] \in Row
  BY ConnConstants DEF Row
<1>4. QED
  BY <1>1, <1>2, <1>3

\* The number of events of a table.
LEMMA SizeType ==
    ASSUME NEW t
    PROVE  /\ IsFiniteSet({e \in Events : t.seq[e] # 0})
           /\ Size(t) \in Nat /\ Size(t) <= Cardinality(Events) /\ Cardinality(Events) \in Nat
<1> DEFINE S == {e \in Events : t.seq[e] # 0}
<1>1. S \subseteq Events
  OBVIOUS
<1>2. IsFiniteSet(S) /\ Cardinality(S) <= Cardinality(Events)
  BY <1>1, ConnConstants, FS_Subset
<1>3. Cardinality(S) \in Nat /\ Cardinality(Events) \in Nat
  BY <1>2, ConnConstants, FS_CardinalityType
<1>4. QED
  BY <1>2, <1>3 DEF Size

\* MAX over the rows is their number.
LEMMA LastIsSize ==
    ASSUME NEW t \in Table, Numbered(t)
    PROVE  Connection!Last(t) = Size(t)
<1> DEFINE S == {t.seq[e] : e \in Events} \cup {0}
<1>1. Size(t) \in Nat /\ \A e \in Events : t.seq[e] \in Nat
  BY SizeType DEF Table
<1>2. Size(t) \in S
  <2>1. CASE Size(t) = 0
    BY <2>1
  <2>2. CASE Size(t) \in 1..Size(t)
    BY <2>2 DEF Numbered
  <2>3. QED
    BY <1>1, <2>1, <2>2
<1>3. \A y \in S : Size(t) >= y /\ y \in Nat
  BY <1>1 DEF Numbered
<1>4. Connection!Last(t) = CHOOSE x \in S : \A y \in S : x >= y
  BY DEF Connection!Last, Connection!Max
<1>5. \A x \in S : (\A y \in S : x >= y) => x = Size(t)
  BY <1>1, <1>2, <1>3
<1> HIDE DEF S
<1>6. QED
  BY <1>2, <1>3, <1>4, <1>5

Inserted(e) ==
    /\ conn.seq[e] = 0 /\ UNCHANGED disk
    /\ conn' = [seq |-> [conn.seq EXCEPT ![e] = Size(conn) + 1], jobs |-> conn.jobs]
Put(r) ==
    /\ Connection!Applies(r) /\ UNCHANGED disk
    /\ conn' = [seq |-> conn.seq,
                jobs |-> [conn.jobs EXCEPT ![r.job] = [origin |-> r.origin, rev |-> r.rev]]]

\* All that a step can do to the tables: nothing, commit the seen one, fall back
\* to the committed one, or insert an event or a report into the seen one.
LEMMA TableSteps ==
    ASSUME ConnTypes, Numbered(conn), [Connection!Next]_connVars
    PROVE  \/ UNCHANGED <<disk, conn>>
           \/ disk' = conn /\ UNCHANGED conn
           \/ conn' = disk /\ UNCHANGED disk
           \/ \E e \in Events : Inserted(e)
           \/ \E r \in Reports : Put(r)
<1>0. conn \in Table
  BY DEF ConnTypes, Table
<1>1. ASSUME NEW e \in Events, Connection!InsertEvent(e) PROVE UNCHANGED <<disk, conn>> \/ Inserted(e)
  <2>1. CASE conn.seq[e] = 0
    <3>1. conn' = [conn EXCEPT !.seq = [conn.seq EXCEPT ![e] = Size(conn) + 1]]
      BY <1>0, <1>1, <2>1, LastIsSize DEF Connection!InsertEvent, Connection!NextSequence
    <3>2. conn' = [seq |-> [conn.seq EXCEPT ![e] = Size(conn) + 1], jobs |-> conn.jobs]
      BY <1>0, <3>1 DEF Table
    <3>3. QED
      BY <1>1, <2>1, <3>2 DEF Inserted, Connection!InsertEvent
  <2>2. CASE conn.seq[e] # 0
    BY <1>1, <2>2 DEF Connection!InsertEvent
  <2>3. QED
    BY <2>1, <2>2
<1>2. ASSUME NEW e \in Events, Connection!CommitEvent(e) PROVE disk' = conn /\ UNCHANGED conn
  BY <1>2 DEF Connection!CommitEvent
<1>3. ASSUME NEW r \in Reports, Connection!Upsert(r) PROVE UNCHANGED <<disk, conn>> \/ Put(r)
  <2>1. CASE Connection!Applies(r)
    <3>1. conn' = [conn EXCEPT !.jobs = [conn.jobs EXCEPT ![r.job] = [origin |-> r.origin, rev |-> r.rev]]]
      BY <1>3, <2>1 DEF Connection!Upsert
    <3>2. conn' = [seq |-> conn.seq,
                   jobs |-> [conn.jobs EXCEPT ![r.job] = [origin |-> r.origin, rev |-> r.rev]]]
      BY <1>0, <3>1 DEF Table
    <3>3. QED
      BY <1>3, <2>1, <3>2 DEF Put, Connection!Upsert
  <2>2. CASE ~Connection!Applies(r)
    BY <1>3, <2>2 DEF Connection!Upsert
  <2>3. QED
    BY <2>1, <2>2
<1>4. ASSUME NEW r \in Reports, Connection!NoSession(r) PROVE UNCHANGED <<disk, conn>>
  BY <1>4 DEF Connection!NoSession
<1>5. ASSUME NEW r \in Reports, Connection!SelectReport(r)
      PROVE  UNCHANGED <<disk, conn>> \/ (conn' = disk /\ UNCHANGED disk)
  BY <1>5 DEF Connection!SelectReport, Connection!Rollback, Connection!Undo
<1>6. ASSUME NEW r \in Reports, Connection!CommitReport(r) PROVE disk' = conn /\ UNCHANGED conn
  BY <1>6 DEF Connection!CommitReport
<1>7. ASSUME NEW q \in Rollers, Connection!RollerExecute(q) PROVE UNCHANGED <<disk, conn>>
  BY <1>7 DEF Connection!RollerExecute
<1>8. ASSUME NEW q \in Rollers, Connection!RollerRollback(q) PROVE conn' = disk /\ UNCHANGED disk
  BY <1>8 DEF Connection!RollerRollback, Connection!Rollback, Connection!Undo
<1>9. ASSUME Connection!Read \/ Connection!Send \/ Connection!Reconnect PROVE UNCHANGED <<disk, conn>>
  BY <1>9 DEF Connection!Read, Connection!Send, Connection!Reconnect
<1>10. ASSUME Connection!Crash PROVE conn' = disk /\ UNCHANGED disk
  BY <1>10 DEF Connection!Crash, Connection!Undo
<1>11. CASE UNCHANGED connVars
  BY <1>11 DEF connVars
<1>12. QED
  BY <1>1, <1>2, <1>3, <1>4, <1>5, <1>6, <1>7, <1>8, <1>9, <1>10, <1>11
     DEF Connection!Next, Connection!ServerStep

\* The tables keep their types.
LEMMA TablesTyped ==
    ASSUME ConnTypes, Numbered(conn), [Connection!Next]_connVars
    PROVE  disk' \in Table /\ conn' \in Table
<1>0. disk \in Table /\ conn \in Table
  BY DEF ConnTypes, Table
<1>1. ASSUME NEW e \in Events, Inserted(e) PROVE disk' \in Table /\ conn' \in Table
  <2>0. Size(conn) \in Nat
    BY SizeType
  <2>1. Size(conn) + 1 \in Nat
    BY <2>0
  <2>2. QED
    BY <1>0, <1>1, <2>1 DEF Inserted, Table
<1>2. ASSUME NEW r \in Reports, Put(r) PROVE disk' \in Table /\ conn' \in Table
  BY <1>0, <1>2, Rows DEF Put, Table
<1>3. QED
  BY <1>0, <1>1, <1>2, TableSteps

\* Numbered is inductive: the trigger's MAX + 1 is the number of events plus one.
LEMMA NumberedNext ==
    ASSUME ConnTypes, Numbered(disk), Numbered(conn), [Connection!Next]_connVars
    PROVE  Numbered(disk') /\ Numbered(conn')
<1>1. ASSUME NEW e \in Events, Inserted(e) PROVE Numbered(conn')
  <2> DEFINE S == {x \in Events : conn.seq[x] # 0} n == Size(conn)
  <2>1. /\ conn'.seq[e] = n + 1 /\ \A x \in Events \ {e} : conn'.seq[x] = conn.seq[x]
        /\ \A x \in Events : conn.seq[x] \in Nat
    BY <1>1 DEF Inserted, ConnTypes, Table
  <2>2. IsFiniteSet(S) /\ e \notin S /\ n = Cardinality(S) /\ n \in Nat
    BY <1>1, SizeType DEF Inserted, Size
  <2>3. {x \in Events : conn'.seq[x] # 0} = S \cup {e}
    BY <2>1, <2>2
  <2>4. Size(conn') = n + 1
    BY <2>2, <2>3, FS_AddElement DEF Size
  <2>5. \A x \in Events : conn.seq[x] <= n
    BY DEF Numbered
  <2>6. \A x \in Events : conn'.seq[x] <= n + 1
    BY <2>1, <2>2, <2>5
  <2>7. ASSUME NEW i \in 1..(n + 1) PROVE \E x \in Events : conn'.seq[x] = i
    <3>1. CASE i = n + 1
      BY <2>1, <3>1
    <3>2. CASE i \in 1..n
      <4>1. PICK x \in Events : conn.seq[x] = i
        BY <3>2 DEF Numbered
      <4>2. x # e
        BY <1>1, <3>2, <4>1 DEF Inserted
      <4>3. QED
        BY <2>1, <4>1, <4>2
    <3>3. QED
      BY <2>2, <3>1, <3>2
  <2>8. ASSUME NEW x \in Events, NEW y \in Events, conn'.seq[x] = conn'.seq[y], conn'.seq[x] # 0, x # y
        PROVE  FALSE
    BY <2>1, <2>2, <2>5, <2>8 DEF Numbered
  <2>9. QED
    BY <2>4, <2>6, <2>7, <2>8 DEF Numbered
<1>2. ASSUME NEW r \in Reports, Put(r) PROVE Numbered(conn')
  BY <1>2 DEF Put, Numbered, Size
<1>3. ASSUME NEW e \in Events, Inserted(e) PROVE disk' = disk
  BY <1>3 DEF Inserted
<1>4. ASSUME NEW r \in Reports, Put(r) PROVE disk' = disk
  BY <1>4 DEF Put
<1>5. QED
  BY <1>1, <1>2, <1>3, <1>4, TableSteps

\* Contained is inductive: what is inserted into the seen table has no row in the
\* committed one, or replaces an older one of the same origin.
LEMMA ContainedNext ==
    ASSUME ConnTypes, Numbered(conn), Contained, [Connection!Next]_connVars
    PROVE  Contained'
<1>0. \A j \in Jobs : conn.jobs[j].rev \in Nat /\ disk.jobs[j].rev \in Nat
  BY Rows DEF ConnTypes, Table
<1>1. ASSUME NEW e \in Events, Inserted(e) PROVE Contained'
  BY <1>1 DEF Inserted, Contained, ConnTypes, Table
<1>2. ASSUME NEW r \in Reports, Put(r) PROVE Contained'
  <2>1. /\ disk' = disk /\ conn'.seq = conn.seq
        /\ conn'.jobs[r.job].origin = r.origin /\ conn'.jobs[r.job].rev = r.rev
        /\ \A j \in Jobs \ {r.job} : conn'.jobs[j] = conn.jobs[j]
    BY <1>2, ConnConstants DEF Put, ConnTypes, Table
  <2>2. disk.jobs[r.job] # Connection!NoJob => disk.jobs[r.job].origin \in Origins
    BY ConnConstants, Rows DEF ConnTypes, Table
  <2>3. ASSUME disk.jobs[r.job] # Connection!NoJob
        PROVE  r.origin = disk.jobs[r.job].origin /\ r.rev >= disk.jobs[r.job].rev
    <3>1. conn.jobs[r.job].origin = disk.jobs[r.job].origin /\ conn.jobs[r.job].rev >= disk.jobs[r.job].rev
      BY <2>3, ConnConstants DEF Contained
    <3>2. conn.jobs[r.job] # Connection!NoJob
      BY <2>2, <2>3, <3>1, ConnConstants, Rows
    <3>3. conn.jobs[r.job].origin = r.origin /\ conn.jobs[r.job].rev < r.rev
      BY <1>2, <3>2 DEF Put, Connection!Applies
    <3>4. QED
      BY <1>0, <3>1, <3>3, ConnConstants
  <2>4. QED
    BY <2>1, <2>3 DEF Contained
<1>3. CASE disk' = conn /\ UNCHANGED conn
  BY <1>0, <1>3 DEF Contained
<1>4. CASE conn' = disk /\ UNCHANGED disk
  BY <1>0, <1>4 DEF Contained
<1>5. CASE UNCHANGED <<disk, conn>>
  BY <1>5 DEF Contained
<1>6. QED
  BY <1>1, <1>2, <1>3, <1>4, <1>5, TableSteps

\* A report that holds is committed with its row, and a later one of the same
\* origin leaves it true.
LEMMA HoldsOnCommit ==
    ASSUME ConnTypes, Contained, NEW r \in Reports, Holds(disk, r)
    PROVE  Holds(conn, r)
<1>1. r.job \in Jobs /\ r.origin \in Origins /\ r.rev \in Nat
  BY ConnConstants
<1>2. disk.jobs[r.job] # Connection!NoJob
  BY <1>1, ConnConstants, Rows DEF Holds
<1>3. conn.jobs[r.job].origin = disk.jobs[r.job].origin /\ conn.jobs[r.job].rev >= disk.jobs[r.job].rev
  BY <1>1, <1>2 DEF Contained
<1>4. conn.jobs[r.job].rev \in Nat /\ disk.jobs[r.job].rev \in Nat
  BY <1>1, Rows DEF ConnTypes, Table
<1>5. QED
  BY <1>1, <1>3, <1>4 DEF Holds

\* What execute of the upsert does; nobody else is inside the lock then.
LEMMA UpsertDoes ==
    ASSUME ConnTypes, NEW r \in Reports, Connection!Upsert(r)
    PROVE  /\ report[r] = "idle" /\ report'[r] = "executed"
           /\ \A s \in Reports \ {r} : report'[s] = report[s] /\ report[s] \notin {"executed", "selected"}
           /\ UNCHANGED <<disk, eventWriter, undone>>
           /\ \/ Put(r) /\ changed' = changed \cup {r}
              \/ ~Connection!Applies(r) /\ UNCHANGED <<conn, changed>>
<1>1. report[r] = "idle" /\ report'[r] = "executed" /\ UNCHANGED <<disk, eventWriter, undone>>
  BY DEF ConnTypes, Connection!Upsert, Connection!history, Table
<1>2. \A s \in Reports \ {r} : report'[s] = report[s] /\ report[s] \notin {"executed", "selected"}
  BY DEF ConnTypes, Connection!Upsert, Connection!Locked, Table
<1>3. CASE Connection!Applies(r)
  <2>1. conn' = [conn EXCEPT !.jobs = [conn.jobs EXCEPT ![r.job] = [origin |-> r.origin, rev |-> r.rev]]]
    BY <1>3 DEF Connection!Upsert
  <2>2. conn' = [seq |-> conn.seq,
                 jobs |-> [conn.jobs EXCEPT ![r.job] = [origin |-> r.origin, rev |-> r.rev]]]
    BY <2>1 DEF ConnTypes, Table
  <2>3. changed' = changed \cup {r}
    BY <1>3 DEF Connection!Upsert
  <2>4. QED
    BY <1>1, <1>2, <1>3, <2>2, <2>3 DEF Put
<1>4. CASE ~Connection!Applies(r)
  BY <1>1, <1>2, <1>4 DEF Connection!Upsert
<1>5. QED
  BY <1>3, <1>4

\* A row that a report overwrites was missing or older, of the same origin.
LEMMA PutDoes ==
    ASSUME ConnTypes, NEW r \in Reports, Put(r)
    PROVE  /\ conn.jobs[r.job].rev < r.rev
           /\ conn.jobs[r.job] = Connection!NoJob \/ conn.jobs[r.job].origin = r.origin
           /\ conn'.seq = conn.seq
           /\ conn'.jobs[r.job].origin = r.origin /\ conn'.jobs[r.job].rev = r.rev
           /\ \A j \in Jobs \ {r.job} : conn'.jobs[j] = conn.jobs[j]
<1>1. r.job \in Jobs /\ r.rev \in Nat \ {0}
  BY ConnConstants
<1>2. conn.jobs[r.job] = Connection!NoJob => conn.jobs[r.job].rev < r.rev
  BY <1>1, Rows
<1>3. /\ conn'.seq = conn.seq
      /\ conn'.jobs[r.job].origin = r.origin /\ conn'.jobs[r.job].rev = r.rev
      /\ \A j \in Jobs \ {r.job} : conn'.jobs[j] = conn.jobs[j]
  BY <1>1 DEF Put, ConnTypes, Table
<1>4. QED
  BY <1>2, <1>3 DEF Put, Connection!Applies

\* What a rollback leaves: nobody has written anything that is not undone.
LEMMA RollbackDoes ==
    ASSUME NEW own, Connection!Rollback(own)
    PROVE  /\ conn' = disk
           /\ undone' = undone \cup (Connection!Uncommitted \ own)
  BY DEF Connection!Rollback, Connection!Undo

\* What the SELECT of the upsert does: it goes on, or rolls everything back.
LEMMA SelectDoes ==
    ASSUME ConnTypes, NEW r \in Reports, Connection!SelectReport(r)
    PROVE  /\ report[r] = "executed"
           /\ \A s \in Reports \ {r} : report'[s] = report[s]
           /\ UNCHANGED <<disk, eventWriter>>
           /\ \/ /\ conn.jobs[r.job].origin = r.origin /\ report'[r] = "selected"
                 /\ UNCHANGED <<conn, changed, undone>>
              \/ /\ report'[r] = "refused" /\ conn' = disk /\ changed' = changed \ {r}
                 /\ undone' = undone \cup (Connection!Uncommitted \ {r})
  BY RollbackDoes DEF ConnTypes, Connection!SelectReport, Connection!history, Table

\* What a restart does: only acknowledged requests are left.
LEMMA CrashDoes ==
    ASSUME ConnTypes, Connection!Crash
    PROVE  /\ UNCHANGED disk /\ conn' = disk
           /\ undone' = undone \ Connection!Uncommitted
           /\ changed' = {r \in changed : report[r] = "acked"}
           /\ \A e \in Events : eventWriter'[e] # "executed" /\ (eventWriter'[e] = "acked" => eventWriter[e] = "acked")
           /\ \A r \in Reports : /\ report'[r] \notin {"executed", "selected"}
                                 /\ report'[r] = "acked" <=> report[r] = "acked"
<1>1. /\ UNCHANGED disk /\ conn' = disk
      /\ undone' = undone \ Connection!Uncommitted
      /\ changed' = {r \in changed : report[r] = "acked"}
  BY DEF Connection!Crash, Connection!Undo
<1>2. \A e \in Events : eventWriter'[e] # "executed" /\ (eventWriter'[e] = "acked" => eventWriter[e] = "acked")
  BY DEF Connection!Crash
<1>3. \A r \in Reports : /\ report'[r] \notin {"executed", "selected"}
                         /\ report'[r] = "acked" <=> report[r] = "acked"
  BY DEF Connection!Crash
<1>4. QED
  BY <1>1, <1>2, <1>3

\* The uncommitted writes of events and of reports are told apart.
LEMMA Separate ==
    /\ \A e \in Events : e \in Connection!Uncommitted <=> eventWriter[e] = "executed"
    /\ \A r \in Reports : r \in Connection!Uncommitted <=> report[r] \in {"executed", "selected"}
    /\ \A e \in Events : e \notin Reports
<1>1. \A e \in Events : e \notin Reports
  BY ConnectionAssumption
<1>2. QED
  BY <1>1 DEF Connection!Uncommitted

WEvents == \A e \in Events \ undone :
    /\ eventWriter[e] = "executed" => conn.seq[e] # 0
    /\ eventWriter[e] = "acked" => disk.seq[e] # 0
WReports == \A r \in Reports \ undone :
    /\ report[r] = "executed" /\ conn.jobs[r.job].origin = r.origin => Holds(conn, r)
    /\ report[r] = "selected" => Holds(conn, r)
    /\ report[r] = "acked" => Holds(disk, r)

\* Written is inductive: a request that was executed, and not undone by another,
\* is in the seen table, and in the committed one once it was acknowledged.
LEMMA WrittenNext ==
    ASSUME ConnTypes, Numbered(conn), Contained, Written, [Connection!Next]_connVars
    PROVE  Written'
<1>0. WEvents /\ WReports /\ (WEvents' /\ WReports' => Written')
  BY DEF Written, WEvents, WReports
<1>1. ASSUME NEW e \in Events, Connection!InsertEvent(e) PROVE WEvents' /\ WReports'
  <2>1. UNCHANGED <<disk, report, undone>>
    BY <1>1 DEF Connection!InsertEvent, Connection!history
  <2>2. eventWriter'[e] = "executed" /\ \A x \in Events \ {e} : eventWriter'[x] = eventWriter[x]
    BY <1>1 DEF Connection!InsertEvent, ConnTypes, Table
  <2>3. conn'.jobs = conn.jobs /\ conn'.seq[e] # 0 /\ \A x \in Events \ {e} : conn'.seq[x] = conn.seq[x]
    <3>1. CASE conn.seq[e] # 0
      BY <1>1, <3>1 DEF Connection!InsertEvent
    <3>2. CASE conn.seq[e] = 0
      <4>1. conn' = [conn EXCEPT !.seq = [conn.seq EXCEPT ![e] = Size(conn) + 1]]
        BY <1>1, <3>2, LastIsSize DEF Connection!InsertEvent, Connection!NextSequence, ConnTypes, Table
      <4>2. Size(conn) \in Nat
        BY SizeType
      <4>3. Size(conn) + 1 # 0
        BY <4>2
      <4>4. QED
        BY <4>1, <4>3 DEF ConnTypes, Table
    <3>3. QED
      BY <3>1, <3>2
  <2>4. WEvents'
    BY <1>0, <2>1, <2>2, <2>3 DEF WEvents
  <2>5. WReports'
    BY <1>0, <2>1, <2>3 DEF WReports, Holds
  <2>6. QED
    BY <2>4, <2>5
<1>2. ASSUME NEW e \in Events, Connection!CommitEvent(e) PROVE WEvents' /\ WReports'
  <2>1. disk' = conn /\ UNCHANGED <<conn, report, undone>> /\ eventWriter[e] = "executed"
    BY <1>2 DEF Connection!CommitEvent, Connection!history
  <2>2. eventWriter'[e] = "acked" /\ \A x \in Events \ {e} : eventWriter'[x] = eventWriter[x]
    BY <1>2 DEF Connection!CommitEvent, ConnTypes, Table
  <2>3. \A x \in Events : disk.seq[x] # 0 => conn.seq[x] # 0
    BY DEF Contained
  <2>4. WEvents'
    BY <1>0, <2>1, <2>2, <2>3 DEF WEvents
  <2>5. WReports'
    BY <1>0, <2>1, HoldsOnCommit DEF WReports, Holds
  <2>6. QED
    BY <2>4, <2>5
<1>3. ASSUME NEW r \in Reports, Connection!Upsert(r) PROVE WEvents' /\ WReports'
  <2>1. /\ report'[r] = "executed" /\ UNCHANGED <<disk, eventWriter, undone>>
        /\ \A s \in Reports \ {r} : report'[s] = report[s] /\ report[s] \notin {"executed", "selected"}
    BY <1>3, UpsertDoes
  <2>2. conn'.seq = conn.seq /\ (conn'.jobs[r.job].origin = r.origin => Holds(conn', r))
    <3>1. CASE Put(r)
      <4>1. conn'.seq = conn.seq /\ conn'.jobs[r.job].origin = r.origin /\ conn'.jobs[r.job].rev = r.rev
        BY <3>1, PutDoes
      <4>2. r.rev >= r.rev
        BY ConnConstants
      <4>3. QED
        BY <4>1, <4>2 DEF Holds
    <3>2. CASE ~Connection!Applies(r) /\ UNCHANGED <<conn, changed>>
      <4>1. r.rev \in Nat /\ conn.jobs[r.job].rev \in Nat
        BY ConnConstants, Rows DEF ConnTypes, Table
      <4>2. conn.jobs[r.job].origin = r.origin => conn.jobs[r.job].rev >= r.rev
        BY <3>2, <4>1 DEF Connection!Applies
      <4>3. QED
        BY <3>2, <4>2 DEF Holds
    <3>3. QED
      BY <1>3, <3>1, <3>2, UpsertDoes
  <2>3. WEvents'
    BY <1>0, <2>1, <2>2 DEF WEvents
  <2>4. WReports'
    BY <1>0, <2>1, <2>2 DEF WReports, Holds
  <2>5. QED
    BY <2>3, <2>4
<1>4. ASSUME NEW r \in Reports, Connection!NoSession(r) PROVE WEvents' /\ WReports'
  <2>1. UNCHANGED <<disk, conn, eventWriter, undone>>
    BY <1>4 DEF Connection!NoSession, Connection!history
  <2>2. report'[r] = "refused" /\ \A s \in Reports \ {r} : report'[s] = report[s]
    BY <1>4 DEF Connection!NoSession, ConnTypes, Table
  <2>3. WEvents'
    BY <1>0, <2>1 DEF WEvents
  <2>4. WReports'
    BY <1>0, <2>1, <2>2 DEF WReports, Holds
  <2>5. QED
    BY <2>3, <2>4
<1>5. ASSUME NEW r \in Reports, Connection!SelectReport(r) PROVE WEvents' /\ WReports'
  <2>1. /\ report[r] = "executed" /\ UNCHANGED <<disk, eventWriter>>
        /\ \A s \in Reports \ {r} : report'[s] = report[s]
    BY <1>5, SelectDoes
  <2>2. CASE /\ conn.jobs[r.job].origin = r.origin /\ report'[r] = "selected"
             /\ UNCHANGED <<conn, changed, undone>>
    BY <1>0, <2>1, <2>2 DEF WEvents, WReports, Holds
  <2>3. CASE /\ report'[r] = "refused" /\ conn' = disk /\ changed' = changed \ {r}
             /\ undone' = undone \cup (Connection!Uncommitted \ {r})
    <3>1. ASSUME NEW x \in Events \ undone' PROVE x \notin undone /\ eventWriter[x] # "executed"
      BY <2>3, <3>1, Separate
    <3>2. ASSUME NEW x \in Reports \ undone', x # r
          PROVE  x \notin undone /\ report[x] \notin {"executed", "selected"}
      BY <2>3, <3>2, Separate
    <3>3. WEvents'
      BY <1>0, <2>1, <3>1 DEF WEvents
    <3>4. WReports'
      BY <1>0, <2>1, <2>3, <3>2 DEF WReports, Holds
    <3>5. QED
      BY <3>3, <3>4
  <2>4. QED
    BY <1>5, <2>2, <2>3, SelectDoes
<1>6. ASSUME NEW r \in Reports, Connection!CommitReport(r) PROVE WEvents' /\ WReports'
  <2>1. disk' = conn /\ UNCHANGED <<conn, eventWriter, undone>> /\ report[r] = "selected"
    BY <1>6 DEF Connection!CommitReport, Connection!history
  <2>2. report'[r] = "acked" /\ \A s \in Reports \ {r} : report'[s] = report[s]
    BY <1>6 DEF Connection!CommitReport, ConnTypes, Table
  <2>3. \A x \in Events : disk.seq[x] # 0 => conn.seq[x] # 0
    BY DEF Contained
  <2>4. WEvents'
    BY <1>0, <2>1, <2>3 DEF WEvents
  <2>5. WReports'
    BY <1>0, <2>1, <2>2, HoldsOnCommit DEF WReports, Holds
  <2>6. QED
    BY <2>4, <2>5
<1>7. ASSUME NEW q \in Rollers, Connection!RollerRollback(q) PROVE WEvents' /\ WReports'
  <2>1. /\ UNCHANGED <<disk, eventWriter, report>> /\ conn' = disk
        /\ undone' = undone \cup (Connection!Uncommitted \ {})
    BY <1>7, RollbackDoes DEF Connection!RollerRollback
  <2>2. ASSUME NEW x \in Events \ undone' PROVE x \notin undone /\ eventWriter[x] # "executed"
    BY <2>1, <2>2, Separate
  <2>3. ASSUME NEW x \in Reports \ undone' PROVE x \notin undone /\ report[x] \notin {"executed", "selected"}
    BY <2>1, <2>3, Separate
  <2>4. WEvents'
    BY <1>0, <2>1, <2>2 DEF WEvents
  <2>5. WReports'
    BY <1>0, <2>1, <2>3 DEF WReports, Holds
  <2>6. QED
    BY <2>4, <2>5
<1>8. ASSUME Connection!Crash PROVE WEvents' /\ WReports'
  <2>1. /\ UNCHANGED disk /\ conn' = disk
        /\ undone' = undone \ Connection!Uncommitted
        /\ \A e \in Events : eventWriter'[e] # "executed" /\ (eventWriter'[e] = "acked" => eventWriter[e] = "acked")
        /\ \A r \in Reports : /\ report'[r] \notin {"executed", "selected"}
                              /\ report'[r] = "acked" <=> report[r] = "acked"
    BY <1>8, CrashDoes
  <2>2. ASSUME NEW x \in Events, eventWriter[x] = "acked", x \notin undone' PROVE x \notin undone
    BY <2>1, <2>2, Separate
  <2>3. ASSUME NEW x \in Reports, report[x] = "acked", x \notin undone' PROVE x \notin undone
    BY <2>1, <2>3, Separate
  <2>4. WEvents'
    BY <1>0, <2>1, <2>2 DEF WEvents
  <2>5. WReports'
    BY <1>0, <2>1, <2>3 DEF WReports, Holds
  <2>6. QED
    BY <2>4, <2>5
<1>9. ASSUME UNCHANGED <<disk, conn, eventWriter, report, undone>> PROVE WEvents' /\ WReports'
  BY <1>0, <1>9 DEF WEvents, WReports, Holds
<1>10. ASSUME NEW q \in Rollers, Connection!RollerExecute(q) PROVE WEvents' /\ WReports'
  BY <1>9, <1>10 DEF Connection!RollerExecute, Connection!history
<1>11. ASSUME Connection!Read \/ Connection!Send \/ Connection!Reconnect PROVE WEvents' /\ WReports'
  BY <1>9, <1>11 DEF Connection!Read, Connection!Send, Connection!Reconnect, Connection!history
<1>12. CASE UNCHANGED connVars
  <2>1. UNCHANGED <<disk, conn, eventWriter, report, undone>>
    BY <1>12 DEF connVars
  <2>2. QED
    BY <1>0, <1>9, <2>1
<1>13. QED
  BY <1>0, <1>1, <1>2, <1>3, <1>4, <1>5, <1>6, <1>7, <1>8, <1>10, <1>11, <1>12
     DEF Connection!Next, Connection!ServerStep

\* Counted is inductive: only the first report of a revision applies.
LEMMA CountedNext ==
    ASSUME ConnTypes, Numbered(conn), Written, Counted, [Connection!Next]_connVars
    PROVE  Counted'
<1>0. \A r \in changed \ undone : r \in Reports
  BY DEF ConnTypes, Table
<1>1. ASSUME changed' = changed, undone' = undone, conn'.jobs = conn.jobs,
             \A r \in Reports : report[r] \in {"executed", "selected", "acked"} =>
                    report'[r] \in {"executed", "selected", "acked"}
      PROVE  Counted'
  BY <1>0, <1>1 DEF Counted
<1>2. ASSUME conn' = disk, changed' \subseteq changed,
             \A r \in changed' \ undone' : r \notin undone /\ report[r] = "acked" /\ report'[r] = "acked"
      PROVE  Counted'
  <2>1. \A r \in changed' \ undone' : r \in changed \ undone /\ r \in Reports
    BY <1>0, <1>2
  <2>2. \A r \in changed' \ undone' : disk.jobs[r.job].rev >= r.rev
    BY <1>2, <2>1 DEF Written, Holds
  <2>3. QED
    BY <1>2, <2>1, <2>2 DEF Counted
<1>3. ASSUME NEW e \in Events, Connection!InsertEvent(e) PROVE Counted'
  <2>1. UNCHANGED <<report, changed, undone>>
    BY <1>3 DEF Connection!InsertEvent, Connection!history
  <2>2. conn'.jobs = conn.jobs
    BY <1>3 DEF Connection!InsertEvent, ConnTypes, Table
  <2>3. QED
    BY <1>1, <2>1, <2>2
<1>4. ASSUME NEW e \in Events, Connection!CommitEvent(e) PROVE Counted'
  BY <1>1, <1>4 DEF Connection!CommitEvent, Connection!history
<1>5. ASSUME NEW r \in Reports, Connection!Upsert(r) PROVE Counted'
  <2>1. /\ report[r] = "idle" /\ report'[r] = "executed" /\ undone' = undone
        /\ \A s \in Reports \ {r} : report'[s] = report[s]
    BY <1>5, UpsertDoes
  <2>2. CASE Put(r) /\ changed' = changed \cup {r}
    <3>1. /\ conn.jobs[r.job].rev < r.rev /\ conn'.jobs[r.job].rev = r.rev
          /\ \A j \in Jobs \ {r.job} : conn'.jobs[j] = conn.jobs[j]
      BY <2>2, PutDoes
    <3>2. ASSUME NEW s \in changed \ undone, s.job = r.job PROVE s.rev < r.rev
      <4>1. s.rev \in Nat /\ r.rev \in Nat /\ conn.jobs[r.job].rev \in Nat
        BY <1>0, ConnConstants, Rows DEF ConnTypes, Table
      <4>2. conn.jobs[r.job].rev >= s.rev
        BY <3>2 DEF Counted
      <4>3. QED
        BY <3>1, <4>1, <4>2
    <3>3. ASSUME NEW s \in changed \ undone PROVE conn'.jobs[s.job].rev >= s.rev
      <4>1. CASE s.job = r.job
        <5>1. s.rev \in Nat /\ r.rev \in Nat
          BY <1>0, ConnConstants
        <5>2. QED
          BY <3>1, <3>2, <4>1, <5>1
      <4>2. CASE s.job # r.job
        BY <1>0, <3>1, <4>2, ConnConstants DEF Counted
      <4>3. QED
        BY <4>1, <4>2
    <3>4. conn'.jobs[r.job].rev >= r.rev
      BY <3>1, ConnConstants
    <3>5. \A s \in changed' \ undone' : s \in changed \ undone \/ s = r
      BY <2>1, <2>2
    <3>6. \A s \in changed \ undone : report'[s] \in {"executed", "selected", "acked"}
      BY <1>0, <2>1 DEF Counted
    <3>7. \A s \in changed \ undone : s.job = r.job => s.rev # r.rev
      BY <1>0, <3>2, ConnConstants
    <3>8. QED
      BY <2>1, <3>3, <3>4, <3>5, <3>6, <3>7 DEF Counted
  <2>3. CASE ~Connection!Applies(r) /\ UNCHANGED <<conn, changed>>
    BY <1>1, <2>1, <2>3
  <2>4. QED
    BY <1>5, <2>2, <2>3, UpsertDoes
<1>6. ASSUME NEW r \in Reports, Connection!NoSession(r) PROVE Counted'
  <2>1. UNCHANGED <<conn, changed, undone>> /\ report[r] = "idle"
    BY <1>6 DEF Connection!NoSession, Connection!history
  <2>2. \A s \in Reports \ {r} : report'[s] = report[s]
    BY <1>6 DEF Connection!NoSession, ConnTypes, Table
  <2>3. QED
    BY <1>1, <2>1, <2>2
<1>7. ASSUME NEW r \in Reports, Connection!SelectReport(r) PROVE Counted'
  <2>1. /\ report[r] = "executed"
        /\ \A s \in Reports \ {r} : report'[s] = report[s]
    BY <1>7, SelectDoes
  <2>2. CASE /\ conn.jobs[r.job].origin = r.origin /\ report'[r] = "selected"
             /\ UNCHANGED <<conn, changed, undone>>
    BY <1>1, <2>1, <2>2
  <2>3. CASE /\ report'[r] = "refused" /\ conn' = disk /\ changed' = changed \ {r}
             /\ undone' = undone \cup (Connection!Uncommitted \ {r})
    <3>1. ASSUME NEW s \in changed' \ undone'
          PROVE  s \notin undone /\ report[s] = "acked" /\ report'[s] = "acked"
      <4>1. s \in changed \ undone /\ s # r /\ s \in Reports
        BY <1>0, <2>3, <3>1
      <4>2. report[s] \notin {"executed", "selected"}
        BY <2>3, <3>1, <4>1, Separate
      <4>3. QED
        BY <2>1, <4>1, <4>2 DEF Counted
    <3>2. QED
      BY <1>2, <2>3, <3>1
  <2>4. QED
    BY <1>7, <2>2, <2>3, SelectDoes
<1>8. ASSUME NEW r \in Reports, Connection!CommitReport(r) PROVE Counted'
  <2>1. UNCHANGED <<conn, changed, undone>>
    BY <1>8 DEF Connection!CommitReport, Connection!history
  <2>2. report'[r] = "acked" /\ \A s \in Reports \ {r} : report'[s] = report[s]
    BY <1>8 DEF Connection!CommitReport, ConnTypes, Table
  <2>3. QED
    BY <1>1, <2>1, <2>2
<1>9. ASSUME NEW q \in Rollers, Connection!RollerRollback(q) PROVE Counted'
  <2>1. /\ UNCHANGED <<report, changed>> /\ conn' = disk
        /\ undone' = undone \cup (Connection!Uncommitted \ {})
    BY <1>9, RollbackDoes DEF Connection!RollerRollback
  <2>2. ASSUME NEW s \in changed' \ undone'
        PROVE  s \notin undone /\ report[s] = "acked" /\ report'[s] = "acked"
    <3>1. s \in changed \ undone /\ s \in Reports
      BY <1>0, <2>1, <2>2
    <3>2. report[s] \notin {"executed", "selected"}
      BY <2>1, <2>2, <3>1, Separate
    <3>3. QED
      BY <2>1, <3>1, <3>2 DEF Counted
  <2>3. QED
    BY <1>2, <2>1, <2>2
<1>10. ASSUME Connection!Crash PROVE Counted'
  <2>1. /\ conn' = disk /\ undone' = undone \ Connection!Uncommitted
        /\ changed' = {r \in changed : report[r] = "acked"}
        /\ \A r \in Reports : report'[r] = "acked" <=> report[r] = "acked"
    BY <1>10, CrashDoes
  <2>2. ASSUME NEW s \in changed' \ undone'
        PROVE  s \notin undone /\ report[s] = "acked" /\ report'[s] = "acked"
    <3>1. s \in Reports /\ report[s] = "acked"
      BY <2>1, <2>2 DEF ConnTypes, Table
    <3>2. s \notin Connection!Uncommitted
      BY <3>1, Separate
    <3>3. QED
      BY <2>1, <2>2, <3>1, <3>2
  <2>3. QED
    BY <1>2, <2>1, <2>2
<1>11. ASSUME NEW q \in Rollers, Connection!RollerExecute(q) PROVE Counted'
  BY <1>1, <1>11 DEF Connection!RollerExecute, Connection!history
<1>12. ASSUME Connection!Read \/ Connection!Send \/ Connection!Reconnect PROVE Counted'
  BY <1>1, <1>12 DEF Connection!Read, Connection!Send, Connection!Reconnect, Connection!history
<1>13. CASE UNCHANGED connVars
  <2>1. UNCHANGED <<conn, report, changed, undone>>
    BY <1>13 DEF connVars
  <2>2. QED
    BY <1>1, <2>1
<1>14. QED
  BY <1>3, <1>4, <1>5, <1>6, <1>7, <1>8, <1>9, <1>10, <1>11, <1>12, <1>13
     DEF Connection!Next, Connection!ServerStep

\* The elements of a sequence, its head and its tail.
LEMMA Elements ==
    ASSUME NEW R, NEW s \in Seq(R)
    PROVE  /\ DOMAIN s = 1..Len(s) /\ Len(s) \in Nat /\ \A i \in DOMAIN s : s[i] \in R
           /\ s # <<>> => /\ Len(s) # 0 /\ Head(s) = s[1] /\ s[1] \in R
                         /\ Len(Tail(s)) = Len(s) - 1 /\ DOMAIN Tail(s) = 1..(Len(s) - 1)
                         /\ \A i \in 1..(Len(s) - 1) : Tail(s)[i] = s[i + 1]
  OBVIOUS

\* How far the stream has seen is a number, at least the cursor.
LEMMA SeenType ==
    ASSUME ConnTypes, StreamOrdered
    PROVE  /\ Seen \in Nat /\ cursor <= Seen /\ cursor \in Nat
           /\ \A i \in DOMAIN batch : batch[i].seq <= Seen /\ batch[i].seq \in Nat /\ batch[i].id \in Events
<1>1. cursor \in Nat /\ batch \in Seq([id : Events, seq : Nat])
  BY DEF ConnTypes, Table
<1>2. \A i \in DOMAIN batch : batch[i] \in [id : Events, seq : Nat]
  BY <1>1, Elements
<1>3. \A i \in DOMAIN batch : batch[i].seq \in Nat /\ batch[i].id \in Events
  BY <1>2
<1>4. CASE batch = <<>>
  BY <1>1, <1>4 DEF Seen
<1>5. CASE batch # <<>>
  <2>1. Len(batch) \in DOMAIN batch /\ DOMAIN batch = 1..Len(batch) /\ Len(batch) \in Nat
    BY <1>1, <1>5
  <2>2. Seen = batch[Len(batch)].seq
    BY <1>5 DEF Seen
  <2>3. Seen \in Nat /\ cursor < Seen
    BY <1>3, <2>1, <2>2 DEF StreamOrdered
  <2>4. ASSUME NEW i \in DOMAIN batch PROVE batch[i].seq <= Seen
    <3>1. CASE i = Len(batch)
      BY <2>2, <2>3, <3>1
    <3>2. CASE i < Len(batch)
      <4>1. batch[i].seq < Seen
        BY <2>1, <2>2, <3>2 DEF StreamOrdered
      <4>2. QED
        BY <1>3, <2>3, <4>1
    <3>3. QED
      BY <2>1, <3>1, <3>2
  <2>5. QED
    BY <1>1, <1>3, <2>3, <2>4
<1>6. QED
  BY <1>4, <1>5

\* The page that a read finds.
IsPage(b, n) ==
    /\ n \in Nat \ {0} /\ b \in [1..n -> {e \in Events : conn.seq[e] > cursor}]
    /\ \A i, k \in 1..n : i < k => conn.seq[b[i]] < conn.seq[b[k]]
    /\ \A e \in Events : conn.seq[e] > cursor /\ conn.seq[e] <= conn.seq[b[n]] =>
            \E i \in 1..n : b[i] = e

\* The instance has the cardinality of FiniteSets under a name of its own.
LEMMA SameCardinality == \A S : Connection!Cardinality(S) = Cardinality(S)
  BY DEF Connection!Cardinality, Cardinality

\* There is room for an event on a page when one is left to be read.
LEMMA PageSizeType ==
    ASSUME Connection!After # {}
    PROVE  Connection!PageSize \in Nat \ {0} /\ IsFiniteSet(Connection!After)
<1>1. Connection!After \subseteq Events
  BY DEF Connection!After
<1>2. IsFiniteSet(Connection!After)
  BY <1>1, ConnConstants, FS_Subset
<1>3. Cardinality(Connection!After) \in Nat /\ Cardinality(Connection!After) # 0
  BY <1>2, FS_CardinalityType, FS_EmptySet
<1>4. Limit \in Nat \ {0}
  BY ConnConstants
<1>5. Connection!PageSize = Limit \/ Connection!PageSize = Cardinality(Connection!After)
  BY SameCardinality DEF Connection!PageSize
<1>6. QED
  BY <1>2, <1>3, <1>4, <1>5

\* What a page gives the stream is a batch of events past the cursor.
LEMMA PageIsBatch ==
    ASSUME ConnTypes, NEW n \in Nat, NEW b, IsPage(b, n),
           batch' = [i \in 1..n |-> [id |-> b[i], seq |-> conn.seq[b[i]]]]
    PROVE  /\ batch' \in Seq([id : Events, seq : Nat]) /\ batch' # <<>>
           /\ Len(batch') = n /\ DOMAIN batch' = 1..n /\ n \in 1..n
           /\ \A i \in 1..n : /\ batch'[i].id = b[i] /\ batch'[i].seq = conn.seq[b[i]]
                             /\ batch'[i].seq > cursor /\ b[i] \in Events
<1>1. \A i \in 1..n : b[i] \in Events /\ conn.seq[b[i]] > cursor
  BY DEF IsPage
<1>2. \A e \in Events : conn.seq[e] \in Nat
  BY DEF ConnTypes, Table
<1>3. \A i \in 1..n : [id |-> b[i], seq |-> conn.seq[b[i]]] \in [id : Events, seq : Nat]
  BY <1>1, <1>2
<1>4. batch' \in Seq([id : Events, seq : Nat]) /\ Len(batch') = n /\ DOMAIN batch' = 1..n
  BY <1>3
<1>5. n # 0 /\ n \in 1..n
  BY DEF IsPage
<1>6. \A i \in 1..n : batch'[i] = [id |-> b[i], seq |-> conn.seq[b[i]]]
  OBVIOUS
<1>7. QED
  BY <1>1, <1>4, <1>5, <1>6

\* What a read of the stream does.
LEMMA ReadDoes ==
    ASSUME ConnTypes, Connection!Read
    PROVE  /\ batch = <<>>
           /\ \E n, b :
                /\ n \in Nat
                /\ IsPage(b, n)
                /\ batch' \in Seq([id : Events, seq : Nat]) /\ batch' # <<>>
                /\ Len(batch') = n /\ DOMAIN batch' = 1..n /\ n \in 1..n
                /\ \A i \in 1..n : /\ batch'[i].id = b[i] /\ batch'[i].seq = conn.seq[b[i]]
                                  /\ batch'[i].seq > cursor /\ b[i] \in Events
           /\ UNCHANGED <<disk, conn, eventWriter, report, changed, roller, cursor, sent, undone, misled, crashes>>
<1>1. batch = <<>> /\ Connection!After # {}
  BY DEF Connection!Read
<1>2. PICK b \in Connection!Pages :
        batch' = [i \in 1..Connection!PageSize |-> [id |-> b[i], seq |-> conn.seq[b[i]]]]
  BY DEF Connection!Read
<1> DEFINE n == Connection!PageSize
<1>3. n \in Nat /\ IsPage(b, n)
  BY <1>1, <1>2, PageSizeType DEF IsPage, Connection!Pages, Connection!After
<1>4. batch' = [i \in 1..n |-> [id |-> b[i], seq |-> conn.seq[b[i]]]]
  BY <1>2
<1> HIDE DEF n
<1>5. /\ batch' \in Seq([id : Events, seq : Nat]) /\ batch' # <<>>
      /\ Len(batch') = n /\ DOMAIN batch' = 1..n /\ n \in 1..n
      /\ \A i \in 1..n : /\ batch'[i].id = b[i] /\ batch'[i].seq = conn.seq[b[i]]
                        /\ batch'[i].seq > cursor /\ b[i] \in Events
  BY <1>3, <1>4, PageIsBatch
<1>6. UNCHANGED <<disk, conn, eventWriter, report, changed, roller, cursor, sent, undone, misled, crashes>>
  BY DEF Connection!Read, Connection!history
<1>7. QED
  BY <1>1, <1>3, <1>5, <1>6

\* What sending an event does.
LEMMA SendDoes ==
    ASSUME ConnTypes, Connection!Send
    PROVE  /\ batch # <<>> /\ cursor' = batch[1].seq /\ batch[1] \in [id : Events, seq : Nat]
           /\ sent' = Append(sent, batch[1].id)
           /\ batch' = Tail(batch) /\ DOMAIN batch = 1..Len(batch) /\ Len(batch) \in Nat \ {0}
           /\ DOMAIN batch' = 1..(Len(batch) - 1) /\ Len(batch') = Len(batch) - 1
           /\ \A i \in 1..(Len(batch) - 1) : batch'[i] = batch[i + 1]
           /\ UNCHANGED <<disk, conn, eventWriter, report, changed, roller, undone, misled, crashes>>
<1>1. batch # <<>> /\ batch \in Seq([id : Events, seq : Nat])
  BY DEF ConnTypes, Connection!Send, Table
<1>2. /\ cursor' = Head(batch).seq /\ sent' = Append(sent, Head(batch).id) /\ batch' = Tail(batch)
      /\ UNCHANGED <<disk, conn, eventWriter, report, changed, roller, undone, misled, crashes>>
  BY DEF Connection!Send, Connection!history
<1>3. Head(batch) = batch[1] /\ batch[1] \in [id : Events, seq : Nat]
  BY <1>1, Elements
<1>4. /\ DOMAIN batch = 1..Len(batch) /\ Len(batch) \in Nat \ {0}
      /\ DOMAIN Tail(batch) = 1..(Len(batch) - 1) /\ Len(Tail(batch)) = Len(batch) - 1
      /\ \A i \in 1..(Len(batch) - 1) : Tail(batch)[i] = batch[i + 1]
  BY <1>1, Elements
<1>5. QED
  BY <1>1, <1>2, <1>3, <1>4

\* No other action touches the stream.
LEMMA OthersKeepStream ==
    ASSUME [Connection!Next]_connVars, ~Connection!Read, ~Connection!Send, ~Connection!Reconnect, ~Connection!Crash
    PROVE  UNCHANGED <<cursor, batch, sent, crashes>>
  BY DEF Connection!Next, Connection!ServerStep, Connection!InsertEvent, Connection!CommitEvent,
     Connection!Upsert, Connection!NoSession, Connection!SelectReport, Connection!CommitReport,
     Connection!RollerExecute, Connection!RollerRollback, Connection!stream, Connection!history, connVars

\* StreamOrdered is inductive: a page is in the order of the sequences, and an
\* undone event is not in the batch unless the stream was misled.
LEMMA OrderedNext ==
    ASSUME ConnTypes, Numbered(conn), StreamOrdered, [Connection!Next]_connVars
    PROVE  StreamOrdered'
<1>1. CASE Connection!Read
  <2>1. PICK n, b :
            /\ n \in Nat
            /\ IsPage(b, n)
            /\ batch' \in Seq([id : Events, seq : Nat]) /\ batch' # <<>>
            /\ Len(batch') = n /\ DOMAIN batch' = 1..n /\ n \in 1..n
            /\ \A i \in 1..n : /\ batch'[i].id = b[i] /\ batch'[i].seq = conn.seq[b[i]]
                              /\ batch'[i].seq > cursor /\ b[i] \in Events
    BY <1>1, ReadDoes
  <2>2. UNCHANGED cursor
    BY <1>1, ReadDoes
  <2>3. /\ DOMAIN batch' = 1..n
        /\ \A i \in 1..n : batch'[i].seq = conn.seq[b[i]] /\ batch'[i].seq > cursor /\ b[i] \in Events
    BY <2>1
  <2>4. \A i, k \in 1..n : i < k => batch'[i].seq < batch'[k].seq
    BY <2>1, <2>3 DEF IsPage
  <2>5. ASSUME NEW e \in Events PROVE conn.seq[e] <= Cardinality(Events)
    <3>1. conn.seq[e] <= Size(conn) /\ conn.seq[e] \in Nat
      BY DEF Numbered, ConnTypes, Table
    <3>2. Size(conn) \in Nat /\ Size(conn) <= Cardinality(Events) /\ Cardinality(Events) \in Nat
      BY SizeType
    <3>3. QED
      BY <3>1, <3>2
  <2>6. QED
    BY <2>2, <2>3, <2>4, <2>5 DEF StreamOrdered
<1>2. CASE Connection!Send
  <2>1. /\ cursor' = batch[1].seq /\ DOMAIN batch = 1..Len(batch) /\ Len(batch) \in Nat \ {0}
        /\ DOMAIN batch' = 1..(Len(batch) - 1)
        /\ \A i \in 1..(Len(batch) - 1) : batch'[i] = batch[i + 1]
    BY <1>2, SendDoes
  <2>2. \A i \in 1..(Len(batch) - 1) : i + 1 \in DOMAIN batch /\ 1 < i + 1
    BY <2>1
  <2>3. 1 \in DOMAIN batch
    BY <2>1
  <2>4. \A i \in DOMAIN batch' : batch'[i].seq > cursor'
    <3>1. ASSUME NEW i \in DOMAIN batch' PROVE batch[1].seq < batch[i + 1].seq
      BY <2>1, <2>2, <2>3 DEF StreamOrdered
    <3>2. \A i \in DOMAIN batch : batch[i].seq \in Nat
      BY SeenType
    <3>3. QED
      BY <2>1, <2>2, <2>3, <3>1, <3>2
  <2>5. \A i, k \in DOMAIN batch' : i < k => batch'[i].seq < batch'[k].seq
    <3>1. ASSUME NEW i \in DOMAIN batch', NEW k \in DOMAIN batch', i < k PROVE batch[i + 1].seq < batch[k + 1].seq
      <4>1. i + 1 < k + 1
        BY <2>1, <3>1
      <4>2. QED
        BY <2>1, <2>2, <4>1 DEF StreamOrdered
    <3>2. QED
      BY <2>1, <3>1
  <2>6. QED
    BY <2>1, <2>2, <2>3, <2>4, <2>5 DEF StreamOrdered
<1>3. CASE Connection!Reconnect \/ Connection!Crash
  <2>1. batch' = <<>> /\ cursor' = cursor
    BY <1>3 DEF Connection!Reconnect, Connection!Crash
  <2>2. DOMAIN batch' = {}
    BY <2>1
  <2>3. QED
    BY <2>1, <2>2 DEF StreamOrdered
<1>4. CASE UNCHANGED <<cursor, batch, sent, crashes>>
  BY <1>4 DEF StreamOrdered
<1>5. QED
  BY <1>1, <1>2, <1>3, <1>4, OthersKeepStream

\* What a stream that is not misled has read survives an undo.
LEMMA UndoCovers ==
    ASSUME ConnTypes, Numbered(disk), Numbered(conn), Contained,
           NEW s \in Nat, s <= Size(conn), Connection!Undo(s), ~misled'
    PROVE  /\ ~misled /\ s <= Size(disk) /\ conn' = disk
           /\ \A e \in Events : disk.seq[e] \in 1..s => conn.seq[e] = disk.seq[e]
<1>1. ~misled /\ conn' = disk /\ \A e \in Events : conn.seq[e] \in 1..s => disk.seq[e] # 0
  BY DEF Connection!Undo
<1>2. \A e \in Events : disk.seq[e] # 0 => conn.seq[e] = disk.seq[e]
  BY DEF Contained
<1>3. Size(disk) \in Nat /\ Size(conn) \in Nat
  BY SizeType
<1>4. s <= Size(disk)
  <2>1. CASE s = 0
    BY <1>3, <2>1
  <2>2. CASE s # 0
    <3>1. s \in 1..Size(conn)
      BY <1>3, <2>2
    <3>2. PICK e \in Events : conn.seq[e] = s
      BY <3>1 DEF Numbered
    <3>3. disk.seq[e] = s
      BY <1>1, <1>2, <2>2, <3>2
    <3>4. QED
      BY <3>3 DEF Numbered
  <2>3. QED
    BY <2>1, <2>2
<1>5. QED
  BY <1>1, <1>2, <1>4

\* StreamCovers is inductive: a page skips no event, and no event is inserted
\* below what the stream has seen.
LEMMA CoversNext ==
    ASSUME ConnTypes, Numbered(disk), Numbered(conn), Contained, StreamOrdered, StreamCovers,
           [Connection!Next]_connVars
    PROVE  StreamCovers'
<1> USE DEF Connection!Sent
<1>0. /\ Seen \in Nat /\ cursor \in Nat /\ cursor <= Seen /\ Size(conn) \in Nat
      /\ \A e \in Events : conn.seq[e] \in Nat /\ disk.seq[e] \in Nat
  BY SeenType, SizeType DEF ConnTypes, Table
<1>1. CASE Connection!Read
  <2>1. PICK n, b :
            /\ n \in Nat
            /\ IsPage(b, n)
            /\ batch' \in Seq([id : Events, seq : Nat]) /\ batch' # <<>>
            /\ Len(batch') = n /\ DOMAIN batch' = 1..n /\ n \in 1..n
            /\ \A i \in 1..n : /\ batch'[i].id = b[i] /\ batch'[i].seq = conn.seq[b[i]]
                              /\ batch'[i].seq > cursor /\ b[i] \in Events
    BY <1>1, ReadDoes
  <2>2. batch = <<>> /\ UNCHANGED <<conn, cursor, sent, misled>>
    BY <1>1, ReadDoes
  <2>3. /\ batch' # <<>> /\ Len(batch') = n /\ DOMAIN batch' = 1..n /\ n \in 1..n
        /\ \A i \in 1..n : batch'[i].id = b[i] /\ batch'[i].seq = conn.seq[b[i]] /\ b[i] \in Events
    BY <2>1
  <2>4. Seen' = conn.seq[b[n]] /\ Seen = cursor
    BY <2>2, <2>3 DEF Seen
  <2>5. Seen' <= Size(conn)
    BY <2>3, <2>4 DEF Numbered
  <2>6. ASSUME NEW e \in Events, conn.seq[e] \in 1..Seen', conn.seq[e] > cursor PROVE InBatch(e)'
    <3>1. conn.seq[e] <= conn.seq[b[n]]
      BY <2>4, <2>6
    <3>2. PICK i \in 1..n : b[i] = e
      BY <2>1, <2>6, <3>1 DEF IsPage
    <3>3. QED
      BY <2>2, <2>3, <3>2 DEF InBatch
  <2>7. ASSUME ~misled, NEW e \in Events, conn.seq[e] \in 1..cursor PROVE Connection!Sent(e)
    <3>1. ~InBatch(e)
      BY <2>2 DEF InBatch
    <3>2. QED
      BY <2>4, <2>7, <3>1 DEF StreamCovers
  <2>8. ASSUME ~misled, NEW e \in Events, conn.seq[e] \in 1..Seen'
        PROVE  Connection!Sent(e)' \/ InBatch(e)'
    <3>1. CASE conn.seq[e] > cursor
      BY <2>6, <2>8, <3>1
    <3>2. CASE conn.seq[e] <= cursor
      <4>1. conn.seq[e] \in 1..cursor
        BY <1>0, <2>8, <3>2
      <4>2. QED
        BY <2>2, <2>7, <2>8, <4>1
    <3>3. QED
      BY <1>0, <3>1, <3>2
  <2>9. QED
    BY <2>2, <2>5, <2>8 DEF StreamCovers
<1>2. CASE Connection!Send
  <2>1. /\ batch # <<>> /\ cursor' = batch[1].seq /\ sent' = Append(sent, batch[1].id)
        /\ batch' = Tail(batch)
        /\ DOMAIN batch = 1..Len(batch) /\ Len(batch) \in Nat \ {0}
        /\ DOMAIN batch' = 1..(Len(batch) - 1) /\ Len(batch') = Len(batch) - 1
        /\ \A i \in 1..(Len(batch) - 1) : batch'[i] = batch[i + 1]
        /\ UNCHANGED <<conn, misled>>
    BY <1>2, SendDoes
  <2>2. Seen' = Seen
    <3>1. Seen = batch[Len(batch)].seq
      BY <2>1 DEF Seen
    <3>2. CASE Len(batch) = 1
      <4>1. batch' = <<>>
        BY <2>1, <3>2 DEF ConnTypes, Table
      <4>2. QED
        BY <2>1, <3>1, <3>2, <4>1 DEF Seen
    <3>3. CASE Len(batch) # 1
      <4>1. Len(batch') = Len(batch) - 1 /\ batch' # <<>> /\ Len(batch) - 1 \in 1..(Len(batch) - 1)
        <5>1. Len(batch) - 1 \in 1..(Len(batch) - 1)
          BY <2>1, <3>3
        <5>2. batch' # <<>>
          BY <2>1, <5>1
        <5>3. QED
          BY <2>1, <5>1, <5>2
      <4>2. batch'[Len(batch')] = batch[Len(batch)]
        <5>1. (Len(batch) - 1) + 1 = Len(batch)
          BY <2>1
        <5>2. batch'[Len(batch) - 1] = batch[(Len(batch) - 1) + 1]
          BY <2>1, <4>1
        <5>3. QED
          BY <4>1, <5>1, <5>2
      <4>3. QED
        BY <3>1, <4>1, <4>2 DEF Seen
    <3>4. QED
      BY <3>2, <3>3
  <2>3. \A e \in Events : Connection!Sent(e) => Connection!Sent(e)'
    <3>1. sent \in Seq(Events) /\ batch[1].id \in Events
      BY <1>2, SendDoes DEF ConnTypes, Table
    <3>2. \A i \in DOMAIN sent : i \in DOMAIN sent' /\ sent'[i] = sent[i]
      BY <2>1, <3>1
    <3>3. QED
      BY <3>2
  <2>4. ASSUME NEW e \in Events, InBatch(e) PROVE Connection!Sent(e)' \/ InBatch(e)'
    <3>1. PICK i \in DOMAIN batch : batch[i].id = e /\ batch[i].seq = conn.seq[e]
      BY <2>4 DEF InBatch
    <3>2. CASE i = 1
      <4>1. sent \in Seq(Events) /\ batch[1].id \in Events
        BY <1>2, SendDoes DEF ConnTypes, Table
      <4>2. Len(sent') \in DOMAIN sent' /\ sent'[Len(sent')] = batch[1].id
        BY <2>1, <4>1
      <4>3. QED
        BY <3>1, <3>2, <4>2
    <3>3. CASE i # 1
      <4>1. i - 1 \in 1..(Len(batch) - 1) /\ (i - 1) + 1 = i
        BY <2>1, <3>1, <3>3
      <4>2. batch'[i - 1] = batch[i]
        BY <2>1, <4>1
      <4>3. QED
        BY <2>1, <3>1, <4>1, <4>2 DEF InBatch
    <3>4. QED
      BY <3>2, <3>3
  <2>5. QED
    BY <2>1, <2>2, <2>3, <2>4 DEF StreamCovers
  \* Whoever was to be sent after the cursor is not lost when the batch is.
<1>3. ASSUME ~misled, NEW e \in Events, conn.seq[e] \in 1..cursor PROVE Connection!Sent(e)
  <2>1. conn.seq[e] \in 1..Seen
    BY <1>0, <1>3
  <2>2. ~InBatch(e)
    <3>1. \A i \in DOMAIN batch : batch[i].seq > cursor /\ batch[i].seq \in Nat
      BY SeenType DEF StreamOrdered
    <3>2. QED
      BY <1>0, <1>3, <3>1 DEF InBatch
  <2>3. QED
    BY <1>3, <2>1, <2>2 DEF StreamCovers
<1>4. CASE Connection!Reconnect
  <2>1. batch' = <<>> /\ UNCHANGED <<conn, cursor, sent, misled>>
    BY <1>4 DEF Connection!Reconnect, Connection!history
  <2>2. Seen' = cursor
    BY <2>1 DEF Seen
  <2>3. ~misled => cursor <= Size(conn)
    BY <1>0 DEF StreamCovers
  <2>4. QED
    BY <1>3, <2>1, <2>2, <2>3 DEF StreamCovers
<1>5. CASE Connection!Crash
  <2>1. batch' = <<>> /\ UNCHANGED <<cursor, sent, disk>> /\ Connection!Undo(cursor)
    BY <1>5 DEF Connection!Crash
  <2>2. Seen' = cursor
    BY <2>1 DEF Seen
  <2>3. SUFFICES ASSUME ~misled' PROVE StreamCovers'
    BY DEF StreamCovers
  <2>4. ~misled
    BY <2>1, <2>3 DEF Connection!Undo
  <2>5. cursor <= Size(conn)
    BY <1>0, <2>4 DEF StreamCovers
  <2>6. /\ cursor <= Size(disk) /\ conn' = disk
        /\ \A e \in Events : disk.seq[e] \in 1..cursor => conn.seq[e] = disk.seq[e]
    BY <1>0, <2>1, <2>3, <2>5, UndoCovers
  <2>7. QED
    BY <1>3, <2>1, <2>2, <2>4, <2>6 DEF StreamCovers
<1>6. ASSUME Connection!Undo(Seen), UNCHANGED <<disk, cursor, batch, sent>> PROVE StreamCovers'
  <2>1. SUFFICES ASSUME ~misled' PROVE StreamCovers'
    BY DEF StreamCovers
  <2>2. ~misled
    BY <1>6, <2>1 DEF Connection!Undo
  <2>3. Seen <= Size(conn)
    BY <2>2 DEF StreamCovers
  <2>4. /\ Seen <= Size(disk) /\ conn' = disk
        /\ \A e \in Events : disk.seq[e] \in 1..Seen => conn.seq[e] = disk.seq[e]
    BY <1>0, <1>6, <2>1, <2>3, UndoCovers
  <2>5. Seen' = Seen
    BY <1>6 DEF Seen
  <2>6. ASSUME NEW e \in Events, disk.seq[e] \in 1..Seen PROVE Connection!Sent(e)' \/ InBatch(e)'
    <3>1. conn.seq[e] = disk.seq[e]
      BY <2>4, <2>6
    <3>2. Connection!Sent(e) \/ InBatch(e)
      BY <2>2, <2>6, <3>1 DEF StreamCovers
    <3>3. QED
      BY <1>6, <2>4, <3>1, <3>2 DEF InBatch
  <2>7. QED
    BY <2>4, <2>5, <2>6 DEF StreamCovers
<1>7. ASSUME UNCHANGED <<cursor, batch, sent, misled>>, conn'.seq = conn.seq PROVE StreamCovers'
  BY <1>7 DEF StreamCovers, Seen, InBatch, Size
<1>8. ASSUME NEW e \in Events, Inserted(e), UNCHANGED <<cursor, batch, sent, misled>> PROVE StreamCovers'
  <2> DEFINE n == Size(conn)
  <2>1. conn'.seq[e] = n + 1 /\ conn.seq[e] = 0 /\ \A x \in Events \ {e} : conn'.seq[x] = conn.seq[x]
    BY <1>8 DEF Inserted, ConnTypes, Table
  <2>2. Size(conn') = n + 1
    <3> DEFINE S == {x \in Events : conn.seq[x] # 0}
    <3>1. IsFiniteSet(S) /\ e \notin S /\ n = Cardinality(S)
      BY <2>1, SizeType DEF Size
    <3>2. {x \in Events : conn'.seq[x] # 0} = S \cup {e}
      BY <1>0, <2>1
    <3>3. QED
      BY <3>1, <3>2, FS_AddElement DEF Size
  <2>3. Seen' = Seen
    BY <1>8 DEF Seen
  <2>4. ASSUME ~misled, NEW x \in Events, conn'.seq[x] \in 1..Seen
        PROVE  Connection!Sent(x)' \/ InBatch(x)'
    <3>1. Seen <= n
      BY <2>4 DEF StreamCovers
    <3>2. x # e
      BY <1>0, <2>1, <2>4, <3>1
    <3>3. conn'.seq[x] = conn.seq[x]
      BY <2>1, <3>2
    <3>4. Connection!Sent(x) \/ InBatch(x)
      BY <2>4, <3>3 DEF StreamCovers
    <3>5. QED
      BY <1>8, <3>3, <3>4 DEF InBatch
  <2>5. ~misled => Seen <= n + 1
    BY <1>0 DEF StreamCovers
  <2>6. QED
    BY <1>8, <2>2, <2>3, <2>4, <2>5 DEF StreamCovers
<1>9. ASSUME NEW own, Connection!Rollback(own) PROVE Connection!Undo(Seen)
  BY <1>9 DEF Connection!Rollback, Seen
<1>10. ASSUME NEW e \in Events, Connection!InsertEvent(e) PROVE StreamCovers'
  <2>1. UNCHANGED <<disk, cursor, batch, sent, misled>>
    BY <1>10 DEF Connection!InsertEvent, Connection!history, Connection!stream
  <2>2. CASE conn.seq[e] = 0
    <3>1. conn' = [conn EXCEPT !.seq = [conn.seq EXCEPT ![e] = Size(conn) + 1]]
      BY <1>10, <2>2, LastIsSize DEF Connection!InsertEvent, Connection!NextSequence, ConnTypes, Table
    <3>2. conn' = [seq |-> [conn.seq EXCEPT ![e] = Size(conn) + 1], jobs |-> conn.jobs]
      BY <3>1 DEF ConnTypes, Table
    <3>3. QED
      BY <1>8, <2>1, <2>2, <3>2 DEF Inserted
  <2>3. CASE conn.seq[e] # 0
    BY <1>7, <1>10, <2>1, <2>3 DEF Connection!InsertEvent
  <2>4. QED
    BY <2>2, <2>3
<1>11. ASSUME NEW r \in Reports, Connection!Upsert(r) PROVE StreamCovers'
  <2>1. UNCHANGED <<cursor, batch, sent, misled>>
    BY <1>11 DEF Connection!Upsert, Connection!history, Connection!stream
  <2>2. conn'.seq = conn.seq
    BY <1>11, UpsertDoes, PutDoes
  <2>3. QED
    BY <1>7, <2>1, <2>2
<1>12. ASSUME NEW r \in Reports, Connection!SelectReport(r) PROVE StreamCovers'
  <2>1. UNCHANGED <<disk, cursor, batch, sent>>
    BY <1>12 DEF Connection!SelectReport, Connection!stream
  <2>2. CASE conn.jobs[r.job].origin = r.origin
    <3>1. UNCHANGED <<conn, misled>>
      BY <1>12, <2>2 DEF Connection!SelectReport, Connection!history
    <3>2. QED
      BY <1>7, <2>1, <3>1
  <2>3. CASE conn.jobs[r.job].origin # r.origin
    <3>1. Connection!Rollback({r})
      BY <1>12, <2>3 DEF Connection!SelectReport
    <3>2. QED
      BY <1>6, <1>9, <2>1, <3>1
  <2>4. QED
    BY <2>2, <2>3
<1>13. ASSUME NEW q \in Rollers, Connection!RollerRollback(q) PROVE StreamCovers'
  <2>1. UNCHANGED <<disk, cursor, batch, sent>> /\ Connection!Rollback({})
    BY <1>13 DEF Connection!RollerRollback, Connection!stream
  <2>2. QED
    BY <1>6, <1>9, <2>1
<1>14. ASSUME UNCHANGED <<conn, cursor, batch, sent, misled>> PROVE StreamCovers'
  BY <1>7, <1>14
<1>15. ASSUME NEW e \in Events, Connection!CommitEvent(e) PROVE StreamCovers'
  BY <1>14, <1>15 DEF Connection!CommitEvent, Connection!history, Connection!stream
<1>16. ASSUME NEW r \in Reports, Connection!NoSession(r) \/ Connection!CommitReport(r) PROVE StreamCovers'
  BY <1>14, <1>16 DEF Connection!NoSession, Connection!CommitReport, Connection!history, Connection!stream
<1>17. ASSUME NEW q \in Rollers, Connection!RollerExecute(q) PROVE StreamCovers'
  BY <1>14, <1>17 DEF Connection!RollerExecute, Connection!history, Connection!stream
<1>18. CASE UNCHANGED connVars
  <2>1. UNCHANGED <<conn, cursor, batch, sent, misled>>
    BY <1>18 DEF connVars
  <2>2. QED
    BY <1>14, <2>1
<1>19. QED
  BY <1>1, <1>2, <1>4, <1>5, <1>10, <1>11, <1>12, <1>13, <1>15, <1>16, <1>17, <1>18
     DEF Connection!Next, Connection!ServerStep

\* The history of a rollback keeps its type.
LEMMA UndoTypes ==
    ASSUME ConnTypes, NEW own, Connection!Rollback(own)
    PROVE  undone' \subseteq Events \cup Reports /\ misled' \in BOOLEAN
<1>1. Connection!Uncommitted \subseteq Events \cup Reports
  BY DEF Connection!Uncommitted
<1>2. undone' \subseteq Events \cup Reports
  BY <1>1, RollbackDoes DEF ConnTypes
<1>3. misled' \in BOOLEAN
  BY DEF Connection!Rollback, Connection!Undo
<1>4. QED
  BY <1>2, <1>3

\* The requests, the stream and the history.
RequestTypes ==
    /\ eventWriter \in [Events -> {"idle", "executed", "acked"}]
    /\ report \in [Reports -> {"idle", "executed", "selected", "acked", "refused"}]
    /\ changed \subseteq Reports
    /\ roller \in [Rollers -> {"idle", "executed", "done"}]
StreamTypes ==
    /\ cursor \in Nat /\ batch \in Seq([id : Events, seq : Nat]) /\ sent \in Seq(Events)
    /\ crashes \in 0..MaxCrashes
HistoryTypes == undone \subseteq Events \cup Reports /\ misled \in BOOLEAN

\* The states of the requests keep their types.
LEMMA RequestTypesNext ==
    ASSUME RequestTypes, [Connection!Next]_connVars
    PROVE  RequestTypes'
<1> USE DEF RequestTypes
<1>1. ASSUME NEW e \in Events, Connection!InsertEvent(e) PROVE RequestTypes'
  BY <1>1 DEF Connection!InsertEvent
<1>2. ASSUME NEW e \in Events, Connection!CommitEvent(e) PROVE RequestTypes'
  BY <1>2 DEF Connection!CommitEvent
<1>3. ASSUME NEW r \in Reports, Connection!Upsert(r) PROVE RequestTypes'
  BY <1>3 DEF Connection!Upsert
<1>4. ASSUME NEW r \in Reports, Connection!NoSession(r) PROVE RequestTypes'
  BY <1>4 DEF Connection!NoSession
<1>5. ASSUME NEW r \in Reports, Connection!SelectReport(r) PROVE RequestTypes'
  BY <1>5 DEF Connection!SelectReport
<1>6. ASSUME NEW r \in Reports, Connection!CommitReport(r) PROVE RequestTypes'
  BY <1>6 DEF Connection!CommitReport
<1>7. ASSUME NEW q \in Rollers, Connection!RollerExecute(q) PROVE RequestTypes'
  BY <1>7 DEF Connection!RollerExecute
<1>8. ASSUME NEW q \in Rollers, Connection!RollerRollback(q) PROVE RequestTypes'
  BY <1>8 DEF Connection!RollerRollback
<1>9. ASSUME Connection!Read \/ Connection!Send \/ Connection!Reconnect PROVE RequestTypes'
  BY <1>9 DEF Connection!Read, Connection!Send, Connection!Reconnect
<1>10. ASSUME Connection!Crash PROVE RequestTypes'
  <2>1. changed' \subseteq Reports
    BY <1>10 DEF Connection!Crash
  <2>2. eventWriter' \in [Events -> {"idle", "executed", "acked"}]
    BY <1>10 DEF Connection!Crash
  <2>3. report' \in [Reports -> {"idle", "executed", "selected", "acked", "refused"}]
    BY <1>10 DEF Connection!Crash
  <2>4. roller' \in [Rollers -> {"idle", "executed", "done"}]
    BY <1>10 DEF Connection!Crash
  <2>5. QED
    BY <2>1, <2>2, <2>3, <2>4
<1>11. CASE UNCHANGED connVars
  <2>1. UNCHANGED <<eventWriter, report, changed, roller>>
    BY <1>11 DEF connVars
  <2>2. QED
    BY <2>1
<1>12. QED
  BY <1>1, <1>2, <1>3, <1>4, <1>5, <1>6, <1>7, <1>8, <1>9, <1>10, <1>11
     DEF Connection!Next, Connection!ServerStep

\* The stream keeps its type.
LEMMA StreamTypesNext ==
    ASSUME ConnTypes, StreamTypes, [Connection!Next]_connVars
    PROVE  StreamTypes'
<1>1. CASE Connection!Read
  BY <1>1, ReadDoes DEF StreamTypes
<1>2. CASE Connection!Send
  <2>1. /\ batch # <<>> /\ cursor' = batch[1].seq /\ batch[1] \in [id : Events, seq : Nat]
        /\ sent' = Append(sent, batch[1].id) /\ batch' = Tail(batch) /\ UNCHANGED crashes
    BY <1>2, SendDoes
  <2>2. cursor' \in Nat /\ batch[1].id \in Events
    BY <2>1
  <2>3. batch' \in Seq([id : Events, seq : Nat])
    BY <2>1 DEF StreamTypes
  <2>4. sent' \in Seq(Events)
    BY <2>1, <2>2 DEF StreamTypes
  <2>5. QED
    BY <2>1, <2>2, <2>3, <2>4 DEF StreamTypes
<1>3. CASE Connection!Reconnect \/ Connection!Crash
  <2>1. /\ batch' = <<>> /\ UNCHANGED <<cursor, sent>> /\ crashes < MaxCrashes /\ crashes' = crashes + 1
    BY <1>3 DEF Connection!Reconnect, Connection!Crash
  <2>2. batch' \in Seq([id : Events, seq : Nat])
    BY <2>1
  <2>3. QED
    BY <2>1, <2>2, ConnConstants DEF StreamTypes
<1>4. CASE UNCHANGED <<cursor, batch, sent, crashes>>
  BY <1>4 DEF StreamTypes
<1>5. QED
  BY <1>1, <1>2, <1>3, <1>4, OthersKeepStream

\* The history keeps its type.
LEMMA HistoryTypesNext ==
    ASSUME ConnTypes, HistoryTypes, [Connection!Next]_connVars
    PROVE  HistoryTypes'
<1>1. ASSUME NEW own, Connection!Rollback(own) PROVE HistoryTypes'
  BY <1>1, UndoTypes DEF HistoryTypes
<1>2. ASSUME Connection!Crash PROVE HistoryTypes'
  <2>1. undone' \subseteq Events \cup Reports
    BY <1>2 DEF Connection!Crash, HistoryTypes
  <2>2. misled' \in BOOLEAN
    BY <1>2 DEF Connection!Crash, Connection!Undo
  <2>3. QED
    BY <2>1, <2>2 DEF HistoryTypes
<1>3. ASSUME UNCHANGED <<undone, misled>> PROVE HistoryTypes'
  BY <1>3 DEF HistoryTypes
<1>4. ASSUME NEW r \in Reports, Connection!SelectReport(r) PROVE HistoryTypes'
  BY <1>1, <1>3, <1>4 DEF Connection!SelectReport, Connection!history
<1>5. ASSUME NEW q \in Rollers, Connection!RollerRollback(q) PROVE HistoryTypes'
  BY <1>1, <1>5 DEF Connection!RollerRollback
<1>6. ASSUME NEW e \in Events, Connection!InsertEvent(e) \/ Connection!CommitEvent(e) PROVE HistoryTypes'
  BY <1>3, <1>6 DEF Connection!InsertEvent, Connection!CommitEvent, Connection!history
<1>7. ASSUME NEW r \in Reports, Connection!Upsert(r) \/ Connection!NoSession(r) \/ Connection!CommitReport(r)
      PROVE  HistoryTypes'
  BY <1>3, <1>7 DEF Connection!Upsert, Connection!NoSession, Connection!CommitReport, Connection!history
<1>8. ASSUME NEW q \in Rollers, Connection!RollerExecute(q) PROVE HistoryTypes'
  BY <1>3, <1>8 DEF Connection!RollerExecute, Connection!history
<1>9. ASSUME Connection!Read \/ Connection!Send \/ Connection!Reconnect PROVE HistoryTypes'
  BY <1>3, <1>9 DEF Connection!Read, Connection!Send, Connection!Reconnect, Connection!history
<1>10. CASE UNCHANGED connVars
  <2>1. UNCHANGED <<undone, misled>>
    BY <1>10 DEF connVars
  <2>2. QED
    BY <1>3, <2>1
<1>11. QED
  BY <1>2, <1>4, <1>5, <1>6, <1>7, <1>8, <1>9, <1>10 DEF Connection!Next, Connection!ServerStep

\* Every variable of the connection keeps its type.
LEMMA ConnTypesNext ==
    ASSUME ConnTypes, Numbered(conn), [Connection!Next]_connVars
    PROVE  ConnTypes'
<1>1. RequestTypes /\ StreamTypes /\ HistoryTypes
  BY DEF ConnTypes, RequestTypes, StreamTypes, HistoryTypes
<1>2. RequestTypes' /\ StreamTypes' /\ HistoryTypes' /\ disk' \in Table /\ conn' \in Table
  BY <1>1, TablesTyped, RequestTypesNext, StreamTypesNext, HistoryTypesNext
<1>3. QED
  BY <1>2 DEF ConnTypes, RequestTypes, StreamTypes, HistoryTypes

\* The database starts empty.
LEMMA ConnInitInv == Connection!Init => ConnInv
<1> SUFFICES ASSUME Connection!Init PROVE ConnInv
  OBVIOUS
<1>1. /\ disk = conn /\ disk \in Table
      /\ \A e \in Events : disk.seq[e] = 0
      /\ \A j \in Jobs : disk.jobs[j] = Connection!NoJob
  BY DEF Connection!Init, Connection!Empty, Table, Row
<1>2. ConnTypes
  <2>1. /\ eventWriter \in [Events -> {"idle", "executed", "acked"}]
        /\ report \in [Reports -> {"idle", "executed", "selected", "acked", "refused"}]
        /\ changed \subseteq Reports
        /\ roller \in [Rollers -> {"idle", "executed", "done"}]
    BY DEF Connection!Init
  <2>2. cursor \in Nat /\ crashes \in 0..MaxCrashes
    BY ConnConstants DEF Connection!Init
  <2>3. undone \subseteq Events \cup Reports /\ misled \in BOOLEAN
    BY DEF Connection!Init
  <2>4. batch \in Seq([id : Events, seq : Nat]) /\ sent \in Seq(Events)
    BY DEF Connection!Init
  <2>5. QED
    BY <1>1, <2>1, <2>2, <2>4, <2>3 DEF ConnTypes
<1>3. Size(disk) = 0
  <2>1. {e \in Events : disk.seq[e] # 0} = {}
    BY <1>1
  <2>2. QED
    BY <2>1, FS_EmptySet DEF Size
<1>4. Numbered(disk) /\ Numbered(conn)
  BY <1>1, <1>3 DEF Numbered
<1>5. Contained
  BY <1>1 DEF Contained
<1>6. Written /\ Counted
  BY DEF Connection!Init, Written, Counted
<1>7. StreamOrdered /\ StreamCovers
  <2>1. cursor = 0 /\ batch = <<>> /\ DOMAIN batch = {}
    BY DEF Connection!Init
  <2>2. Seen = 0
    BY <2>1 DEF Seen
  <2>3. Cardinality(Events) \in Nat
    BY SizeType
  <2>4. QED
    BY <1>1, <1>3, <2>1, <2>2, <2>3 DEF StreamOrdered, StreamCovers
<1>8. QED
  BY <1>2, <1>4, <1>5, <1>6, <1>7 DEF ConnInv

\* The inductive invariant of the connection.
LEMMA ConnInvariance == Connection!Spec => []ConnInv
<1>1. ASSUME ConnInv, [Connection!Next]_connVars PROVE ConnInv'
  <2>1. /\ ConnTypes /\ Numbered(disk) /\ Numbered(conn) /\ Contained
        /\ Written /\ Counted /\ StreamOrdered /\ StreamCovers
    BY <1>1 DEF ConnInv
  <2>2. ConnTypes' /\ Numbered(disk') /\ Numbered(conn') /\ Contained'
    BY <1>1, <2>1, ConnTypesNext, NumberedNext, ContainedNext
  <2>3. Written' /\ Counted' /\ StreamOrdered' /\ StreamCovers'
    BY <1>1, <2>1, WrittenNext, CountedNext, OrderedNext, CoversNext
  <2>4. Numbered(disk)' /\ Numbered(conn)'
    BY <2>2 DEF Numbered, Size
  <2>5. QED
    BY <2>2, <2>3, <2>4 DEF ConnInv
<1>2. ConnInv /\ [Connection!Next]_(Connection!vars) => ConnInv'
  BY <1>1 DEF Connection!vars, Connection!stream, Connection!history, connVars
<1>3. QED
  BY <1>2, ConnInitInv, PTL DEF Connection!Spec

\* A stream whose table is numbered finds the next page.
LEMMA PagesExist ==
    ASSUME ConnTypes, Numbered(conn), cursor <= Size(conn), Connection!After # {}
    PROVE  Connection!Pages # {}
<1> DEFINE m == Size(conn) n == Connection!PageSize A == Connection!After
           f(k) == CHOOSE e \in Events : conn.seq[e] = k
           b == [i \in 1..n |-> f(cursor + i)]
<1>1. n \in Nat \ {0} /\ IsFiniteSet(A)
  BY PageSizeType
<1>2. m \in Nat /\ cursor \in Nat /\ \A e \in Events : conn.seq[e] \in Nat /\ conn.seq[e] <= m
  BY SizeType DEF ConnTypes, Table, Numbered
<1>3. ASSUME NEW k \in 1..m PROVE f(k) \in Events /\ conn.seq[f(k)] = k
  BY DEF Numbered
<1>4. A = {e \in Events : conn.seq[e] > cursor}
  BY DEF Connection!After
<1>5. n <= m - cursor
  <2> DEFINE g == [k \in (cursor + 1)..m |-> f(k)]
  <2>1. g \in Surjection((cursor + 1)..m, A)
    <3>1. ASSUME NEW k \in (cursor + 1)..m PROVE g[k] \in A
      <4>1. k \in 1..m /\ k > cursor
        BY <1>2
      <4>2. QED
        BY <1>3, <1>4, <4>1
    <3>2. ASSUME NEW e \in A PROVE \E k \in (cursor + 1)..m : g[k] = e
      <4>1. conn.seq[e] \in (cursor + 1)..m /\ conn.seq[e] \in 1..m /\ e \in Events
        BY <1>2, <1>4
      <4>2. f(conn.seq[e]) \in Events /\ conn.seq[f(conn.seq[e])] = conn.seq[e]
        BY <1>3, <4>1
      <4>3. conn.seq[e] # 0
        BY <4>1
      <4>4. f(conn.seq[e]) = e
        BY <4>1, <4>2, <4>3 DEF Numbered
      <4>5. QED
        BY <4>1, <4>4
    <3>3. g \in [(cursor + 1)..m -> A]
      BY <3>1
    <3>4. QED
      BY <3>2, <3>3, Fun_IsSurj
  <2>2. IsFiniteSet((cursor + 1)..m) /\ Cardinality((cursor + 1)..m) <= m - cursor
    <3>1. cursor + 1 \in Int /\ m \in Int
      BY <1>2
    <3>2. /\ IsFiniteSet((cursor + 1)..m)
          /\ Cardinality((cursor + 1)..m) = IF cursor + 1 > m THEN 0 ELSE m - (cursor + 1) + 1
      BY <3>1, FS_Interval
    <3>3. QED
      BY <1>2, <3>2
  <2>3. Cardinality(A) <= Cardinality((cursor + 1)..m)
    BY <2>1, <2>2, FS_Surjection
  <2>4. Cardinality(A) \in Nat /\ Cardinality((cursor + 1)..m) \in Nat
    BY <1>1, <2>2, FS_CardinalityType
  <2>5. n <= Cardinality(A)
    BY <2>4, ConnConstants, SameCardinality DEF Connection!PageSize
  <2>6. QED
    BY <1>1, <1>2, <2>2, <2>3, <2>4, <2>5
<1>6. ASSUME NEW i \in 1..n PROVE b[i] \in Events /\ conn.seq[b[i]] = cursor + i
  <2>1. cursor + i \in 1..m
    BY <1>1, <1>2, <1>5
  <2>2. QED
    BY <1>3, <2>1
<1>7. b \in [1..n -> A]
  <2>1. ASSUME NEW i \in 1..n PROVE b[i] \in A
    BY <1>1, <1>2, <1>4, <1>6
  <2>2. QED
    BY <2>1
<1> HIDE DEF b, f
<1>8. \A i, k \in 1..n : i < k => conn.seq[b[i]] < conn.seq[b[k]]
  BY <1>1, <1>2, <1>6
<1>9. ASSUME NEW e \in A, conn.seq[e] <= conn.seq[b[n]] PROVE \E i \in 1..n : b[i] = e
  <2>1. n \in 1..n /\ conn.seq[b[n]] = cursor + n
    BY <1>1, <1>6
  <2>2. conn.seq[e] - cursor \in 1..n /\ e \in Events /\ conn.seq[e] # 0
    BY <1>1, <1>2, <1>4, <1>9, <2>1
  <2>3. conn.seq[b[conn.seq[e] - cursor]] = conn.seq[e] /\ b[conn.seq[e] - cursor] \in Events
    BY <1>2, <1>6, <2>2
  <2>4. b[conn.seq[e] - cursor] = e
    BY <2>2, <2>3 DEF Numbered
  <2>5. QED
    BY <2>2, <2>4
<1>10. b \in Connection!Pages
  BY <1>7, <1>8, <1>9 DEF Connection!Pages
<1>11. QED
  BY <1>10

\* The invariant is strong enough for every property of the connection.
LEMMA ConnInvImplies ==
    ASSUME ConnInv
    PROVE  ConnectionConsistent
<1>0. /\ ConnTypes /\ Numbered(disk) /\ Numbered(conn) /\ Contained
      /\ Written /\ Counted /\ StreamOrdered /\ StreamCovers
  BY DEF ConnInv
<1>1. Connection!TypeOK
  <2> DEFINE n == Cardinality(Events)
  <2>1. n \in Nat /\ Connection!Cardinality(Events) = n
    BY SizeType, SameCardinality
  <2>2. ASSUME NEW t \in Table, Numbered(t) PROVE t \in Connection!Tables
    <3>1. ASSUME NEW e \in Events PROVE t.seq[e] \in 0..n
      <4>1. t.seq[e] \in Nat /\ t.seq[e] <= Size(t)
        BY <2>2 DEF Table, Numbered
      <4>2. Size(t) \in Nat /\ Size(t) <= n
        BY SizeType
      <4>3. QED
        BY <2>1, <4>1, <4>2
    <3>2. t.seq \in [Events -> 0..n]
      BY <3>1 DEF Table
    <3>3. QED
      BY <2>1, <3>2 DEF Table, Row, Connection!Tables
  <2>3. disk \in Connection!Tables /\ conn \in Connection!Tables
    BY <1>0, <2>2 DEF ConnTypes
  <2>4. cursor \in 0..Connection!Cardinality(Events)
    BY <1>0, <2>1 DEF ConnTypes, StreamOrdered
  <2>5. \A i \in DOMAIN batch : batch[i].id \in Events
    BY <1>0, SeenType
  <2>6. \A i \in DOMAIN sent : sent[i] \in Events
    BY <1>0, Elements DEF ConnTypes
  <2>7. QED
    BY <1>0, <2>3, <2>4, <2>5, <2>6 DEF ConnTypes, Connection!TypeOK
<1>2. Connection!AckedIsDurable
  BY <1>0 DEF Written, Holds, Connection!AckedIsDurable
<1>3. Connection!AppliedOnce
  BY <1>0 DEF Counted, Connection!AppliedOnce
<1>4. Connection!SequencesDiffer
  BY <1>0 DEF Numbered, Connection!SequencesDiffer
<1>5. Connection!StreamGoesOn
  <2> SUFFICES ASSUME NEW e \in Events, disk.seq[e] # 0, ~Connection!Sent(e), ~misled
               PROVE  disk.seq[e] > cursor /\ Connection!CanGoOn
    BY DEF Connection!StreamGoesOn
  <2>1. conn.seq[e] = disk.seq[e] /\ conn.seq[e] \in Nat
    BY <1>0 DEF Contained, ConnTypes, Table
  <2>2. Seen \in Nat /\ cursor \in Nat /\ cursor <= Seen /\ Seen <= Size(conn) /\ Size(conn) \in Nat
    BY <1>0, SeenType, SizeType DEF StreamCovers
  <2>3. conn.seq[e] > cursor
    <3>1. SUFFICES ASSUME conn.seq[e] <= cursor PROVE FALSE
      BY <2>1, <2>2
    <3>2. conn.seq[e] \in 1..Seen
      BY <2>1, <2>2, <3>1
    <3>3. InBatch(e)
      BY <1>0, <3>2 DEF StreamCovers
    <3>4. \A i \in DOMAIN batch : batch[i].seq > cursor /\ batch[i].seq \in Nat
      BY <1>0, SeenType DEF StreamOrdered
    <3>5. QED
      BY <2>1, <2>2, <3>1, <3>3, <3>4 DEF InBatch
  <2>4. Connection!After # {}
    BY <2>3 DEF Connection!After
  <2>5. Connection!Pages # {}
    BY <1>0, <2>2, <2>4, PagesExist
  <2>6. QED
    BY <2>1, <2>3, <2>4, <2>5 DEF Connection!CanGoOn
<1>6. QED
  BY <1>1, <1>2, <1>3, <1>4, <1>5 DEF ConnectionConsistent, Connection!ConnectionConsistent

\* What the server has told the clients of its connection is true: acknowledged
\* writes are durable, retries count once, sequences differ and the stream
\* misses nothing (db.py:884-899, 1325-1380).
THEOREM ConnectionStaysConsistent == Connection!Spec => []ConnectionConsistent
  BY ConnInvImplies, ConnInvariance, PTL

\* The row of a job never goes back to an older report or to another owner
\* (upsert_reported_worker_job).
THEOREM RevisionsGrow == Connection!Spec => Connection!RevisionsOnlyGrow
<1> DEFINE Grow == \A j \in Jobs : disk.jobs[j] # Connection!NoJob =>
        disk'.jobs[j].origin = disk.jobs[j].origin /\ disk'.jobs[j].rev >= disk.jobs[j].rev
<1>1. ASSUME ConnInv, [Connection!Next]_connVars PROVE Grow
  <2>1. ConnTypes /\ Numbered(conn) /\ Contained
    BY <1>1 DEF ConnInv
  <2>2. disk' = disk \/ disk' = conn
    BY <1>1, <2>1, TableSteps DEF Inserted, Put
  <2>3. \A j \in Jobs : disk.jobs[j].rev \in Nat
    BY <2>1, Rows DEF ConnTypes, Table
  <2>4. CASE disk' = disk
    BY <2>3, <2>4
  <2>5. CASE disk' = conn
    BY <2>1, <2>5 DEF Contained
  <2>6. QED
    BY <2>2, <2>4, <2>5
<1>2. ConnInv /\ [Connection!Next]_(Connection!vars) => [Grow]_(Connection!vars)
  BY <1>1 DEF Connection!vars, Connection!stream, Connection!history, connVars
<1>3. QED
  BY <1>2, ConnInvariance, PTL DEF Connection!Spec, Connection!RevisionsOnlyGrow

-----------------------------------------------------------------------------
(* The three together.  A step of the whole is a step of one of the parts  *)
(* and a stutter of the others, so that what holds of each part alone      *)
(* holds of it there.                                                      *)

\* The rate limiter moves as its specification says.
LEMMA LimiterPart == AllSpec => Spec
<1>1. AllInit => Init
  BY DEF AllInit
<1>2. [AllNext]_allVars => [Next]_vars
  BY DEF AllNext, Moves, allVars
<1>3. QED
  BY <1>1, <1>2, PTL DEF AllSpec, Spec

\* The cache moves as its specification says.
LEMMA CachePart == AllSpec => Cache!Spec
<1>1. AllInit => Cache!Init
  BY DEF AllInit
<1>2. [AllNext]_allVars => [Cache!Next]_(Cache!vars)
  BY DEF AllNext, Moves, allVars, cacheVars, Cache!vars
<1>3. QED
  BY <1>1, <1>2, PTL DEF AllSpec, Cache!Spec

\* The connection moves as its specification says.
LEMMA ConnectionPart == AllSpec => Connection!Spec
<1>1. AllInit => Connection!Init
  BY DEF AllInit
<1>2. [AllNext]_allVars => [Connection!Next]_(Connection!vars)
  BY DEF AllNext, Moves, allVars, connVars, Connection!vars, Connection!stream, Connection!history
<1>3. QED
  BY <1>1, <1>2, PTL DEF AllSpec, Connection!Spec

\* Whatever else the process does, in every window of time an agent is granted
\* at most one burst and what refills meanwhile (TokenBucket.try_consume).
THEOREM BurstsAreBounded == AllSpec => []WindowBound
  BY LimiterPart, WindowBounded, PTL

\* Whatever overlaps, the cache holds values the database has had, and a stale
\* one that nobody is about to remove was stored late or changed by a route that
\* invalidates nothing (TTLCache, cached, invalidate_workers_cache).
THEOREM CacheIsConsistent == AllSpec => []CacheConsistent
  BY CachePart, CacheStaysConsistent, PTL

\* Acknowledged writes are durable unless another task rolled them back, retries
\* count once, sequences differ and the stream goes on (insert_pi_session_event,
\* upsert_reported_worker_job, list_pi_session_events).
THEOREM ConnectionIsConsistent == AllSpec => []ConnectionConsistent
  BY ConnectionPart, ConnectionStaysConsistent, PTL

\* The server keeps to what it has answered: Retry-After is long enough, no
\* cached answer outlives its TTL and a load, no job's row goes back to an older
\* report or to another owner.
THEOREM AnswersStand == AllSpec => AnswersHold
  BY LimiterPart, CachePart, ConnectionPart, RetriesAreAdmitted, AnswersAreYoung,
     RevisionsGrow, PTL DEF AnswersHold
=============================================================================
