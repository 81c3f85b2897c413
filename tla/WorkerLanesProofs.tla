------------------------- MODULE WorkerLanesProofs -------------------------
(***************************************************************************)
(* Proofs about WorkerLanes, for any number of lanes, calls, slots and     *)
(* waiters, with cancellations anywhere: slots are conserved, no wake-up   *)
(* is lost, nobody is overtaken, and only a cancelled cleanup leaves       *)
(* processes behind.                                                       *)
(***************************************************************************)
EXTENDS WorkerLanes, FiniteSetTheorems, TLAPS

\* The waiters of a lane are distinct calls.
Distinct(s) == \A m, n \in DOMAIN s : s[m] = s[n] => m = n
WaitersDistinct == \A k \in Keys : Distinct(waiters[k])

\* The inductive invariant: whom _release_locked wakes is somebody who waits,
\* once, for this lane, so that a handoff moves exactly one slot.
IInv == TypeOK /\ SlotsConserved /\ NoLostWakeup /\ WaitersDistinct

-----------------------------------------------------------------------------
(* Queues.                                                                 *)

\* deque.remove of a call that is in the queue.
LEMMA WithoutQueue ==
    ASSUME NEW s \in Seq(Calls), Distinct(s), NEW c \in Elems(s)
    PROVE  /\ Without(s, c) \in Seq(Calls)
           /\ Len(Without(s, c)) = Len(s) - 1
           /\ Elems(Without(s, c)) = Elems(s) \ {c}
           /\ Distinct(Without(s, c))
<1> DEFINE i == CHOOSE n \in DOMAIN s : s[n] = c
           r == [n \in 1 .. Len(s) - 1 |-> IF n < i THEN s[n] ELSE s[n + 1]]
<1>1. i \in DOMAIN s /\ s[i] = c
  BY DEF Elems
<1>2. DOMAIN s = 1 .. Len(s) /\ Len(s) \in Nat /\ \A n \in DOMAIN s : s[n] \in Calls
  OBVIOUS
<1>3. i \in 1 .. Len(s)
  BY <1>1, <1>2
<1> HIDE DEF i
<1>4. \A n \in 1 .. Len(s) - 1 : r[n] \in Calls
  BY <1>2, <1>3
<1>5. r \in Seq(Calls) /\ Len(r) = Len(s) - 1 /\ DOMAIN r = 1 .. Len(s) - 1
  <2>1. Len(s) - 1 \in Nat
    BY <1>2, <1>3
  <2>2. r \in [1 .. Len(s) - 1 -> Calls]
    BY <1>4
  <2>3. QED
    BY <2>1, <2>2
<1>6. Elems(r) = Elems(s) \ {c}
  <2>1. \A n \in 1 .. Len(s) - 1 : r[n] \in Elems(s) /\ r[n] # c
    BY <1>1, <1>2, <1>3 DEF Distinct, Elems
  <2>2. ASSUME NEW n \in DOMAIN s, s[n] # c
        PROVE  \E m \in 1 .. Len(s) - 1 : r[m] = s[n]
    <3>1. n # i /\ n \in 1 .. Len(s)
      BY <1>1, <1>2, <2>2
    <3>2. CASE n < i
      <4>1. n \in 1 .. Len(s) - 1 /\ r[n] = s[n]
        BY <1>2, <1>3, <3>1, <3>2
      <4>2. QED
        BY <4>1
    <3>3. CASE n > i
      <4>1. n - 1 \in 1 .. Len(s) - 1 /\ r[n - 1] = s[n]
        BY <1>2, <1>3, <3>1, <3>3
      <4>2. QED
        BY <4>1
    <3>4. QED
      BY <1>2, <1>3, <3>1, <3>2, <3>3
  <2> HIDE DEF r
  <2>3. Elems(r) \subseteq Elems(s) \ {c}
    BY <1>5, <2>1 DEF Elems
  <2>4. ASSUME NEW x \in Elems(s) \ {c} PROVE x \in Elems(r)
    <3>1. PICK n \in DOMAIN s : x = s[n]
      BY DEF Elems
    <3>2. PICK m \in DOMAIN r : r[m] = x
      BY <1>5, <2>2, <2>4, <3>1
    <3>3. QED
      BY <3>2 DEF Elems
  <2>5. QED
    BY <2>3, <2>4
<1>7. Distinct(r)
  <2>1. SUFFICES ASSUME NEW m \in 1 .. Len(s) - 1, NEW n \in 1 .. Len(s) - 1, r[m] = r[n]
                 PROVE  m = n
    BY <1>5 DEF Distinct
  <2>2. PICK a \in DOMAIN s : r[m] = s[a] /\ a = IF m < i THEN m ELSE m + 1
    BY <1>2, <1>3
  <2>3. PICK b \in DOMAIN s : r[n] = s[b] /\ b = IF n < i THEN n ELSE n + 1
    BY <1>2, <1>3
  <2>4. a = b
    BY <2>1, <2>2, <2>3 DEF Distinct
  <2>5. QED
    BY <1>2, <1>3, <2>2, <2>3, <2>4
<1>8. QED
  BY <1>5, <1>6, <1>7 DEF Without, i

\* deque.append of a call that is not in the queue.
LEMMA AppendQueue ==
    ASSUME NEW s \in Seq(Calls), Distinct(s), NEW c \in Calls, c \notin Elems(s)
    PROVE  /\ Append(s, c) \in Seq(Calls)
           /\ Len(Append(s, c)) = Len(s) + 1
           /\ Elems(Append(s, c)) = Elems(s) \cup {c}
           /\ Distinct(Append(s, c))
<1>1. /\ DOMAIN s = 1 .. Len(s) /\ DOMAIN Append(s, c) = 1 .. Len(s) + 1
      /\ Len(s) \in Nat
      /\ Append(s, c)[Len(s) + 1] = c
      /\ \A n \in 1 .. Len(s) : Append(s, c)[n] = s[n]
  OBVIOUS
<1>2. Elems(Append(s, c)) = Elems(s) \cup {c}
  <2>1. ASSUME NEW x \in Elems(Append(s, c)) PROVE x \in Elems(s) \cup {c}
    <3>1. PICK n \in 1 .. Len(s) + 1 : x = Append(s, c)[n]
      BY <1>1, <2>1 DEF Elems
    <3>2. n = Len(s) + 1 \/ n \in 1 .. Len(s)
      BY <1>1
    <3>3. QED
      BY <1>1, <3>1, <3>2 DEF Elems
  <2>2. ASSUME NEW x \in Elems(s) PROVE x \in Elems(Append(s, c))
    <3>1. PICK n \in 1 .. Len(s) : x = s[n]
      BY <1>1, <2>2 DEF Elems
    <3>2. n \in 1 .. Len(s) + 1 /\ x = Append(s, c)[n]
      BY <1>1, <3>1
    <3>3. QED
      BY <1>1, <3>2 DEF Elems
  <2>3. Len(s) + 1 \in DOMAIN Append(s, c)
    BY <1>1
  <2>4. c \in Elems(Append(s, c))
    BY <1>1, <2>3 DEF Elems
  <2>5. QED
    BY <2>1, <2>2, <2>4
<1>3. Distinct(Append(s, c))
  <2>1. \A n \in 1 .. Len(s) : s[n] # c
    BY <1>1 DEF Elems
  <2>2. QED
    BY <1>1, <2>1 DEF Distinct
<1>4. QED
  BY <1>2, <1>3

\* The head of a queue that is not empty is in it.
LEMMA HeadQueue ==
    ASSUME NEW s \in Seq(Calls), s # <<>>
    PROVE  Head(s) \in Elems(s) /\ Head(s) \in Calls
<1>1. Len(s) \in Nat /\ Len(s) # 0 /\ DOMAIN s = 1 .. Len(s)
  OBVIOUS
<1>2. 1 \in DOMAIN s /\ Head(s) = s[1]
  BY <1>1
<1>3. QED
  BY <1>2 DEF Elems

-----------------------------------------------------------------------------
(* Slots.                                                                  *)

\* The calls that wait for a slot of lane k.
Waiting(k) == {c \in Calls : pc[c] = "queued" /\ key[c] = k}

LEMMA OwnersFinite ==
    \A k : IsFiniteSet(Owners(k)) /\ Cardinality(Owners(k)) \in Nat
<1>1. SUFFICES ASSUME NEW k
               PROVE  IsFiniteSet(Owners(k)) /\ Cardinality(Owners(k)) \in Nat
  OBVIOUS
<1>2. Owners(k) \in SUBSET Calls
  BY DEF Owners
<1>3. IsFiniteSet(Owners(k))
  BY <1>2, FS_Subset, LanesAssumption
<1>4. QED
  BY <1>3, FS_CardinalityType

\* A step that leaves the counters and the owners alone keeps the slots.
SlotsSame ==
    /\ UNCHANGED <<available, inUse>>
    /\ \A k \in Keys : Owners(k)' = Owners(k)

LEMMA SameSlots ==
    ASSUME SlotsConserved, SlotsSame
    PROVE  SlotsConserved'
<1>1. \A k \in Keys : Cardinality(Owners(k))' = Cardinality(Owners(k))
  BY DEF SlotsSame
<1>2. QED
  BY <1>1 DEF SlotsSame, SlotsConserved

\* A step that leaves the queues and the waiting calls alone keeps the queues.
QueuesSame ==
    /\ UNCHANGED <<available, waiters>>
    /\ \A k \in Keys : Waiting(k)' = Waiting(k)

LEMMA SameQueues ==
    ASSUME NoLostWakeup, WaitersDistinct, QueuesSame
    PROVE  NoLostWakeup' /\ WaitersDistinct'
<1>1. \A k \in Keys : Elems(waiters[k])' = Elems(waiters[k])
  BY DEF QueuesSame
<1>2. NoLostWakeup'
  BY <1>1 DEF NoLostWakeup, QueuesSame, Waiting
<1>3. WaitersDistinct'
  BY DEF WaitersDistinct, QueuesSame
<1>4. QED
  BY <1>2, <1>3

\* A call moves from one place of a slot to another, or between places without.
LEMMA MoveInv ==
    ASSUME IInv, NEW c \in Calls, NEW l \in Places \ {"queued"}, pc[c] # "queued",
           l \in Owning <=> pc[c] \in Owning,
           pc' = [pc EXCEPT ![c] = l],
           group' \in [Calls -> [leader : BOOLEAN, child : BOOLEAN]],
           UNCHANGED <<available, inUse, waiters, key, open>>
    PROVE  IInv'
<1>1. TypeOK'
  BY DEF IInv, TypeOK
<1>2. \A d \in Calls : pc'[d] = IF d = c THEN l ELSE pc[d]
  BY DEF IInv, TypeOK
<1>3. SlotsSame
  BY <1>2 DEF SlotsSame, Owners
<1>4. QueuesSame
  BY <1>2 DEF QueuesSame, Waiting
<1>5. QED
  BY <1>1, <1>3, <1>4, SameSlots, SameQueues DEF IInv

\* _release_locked by an owner: one slot moves to the head of the queue, or
\* becomes available.
LEMMA ReleaseInv ==
    ASSUME IInv, NEW c \in Calls, pc[c] \in Owning, Release(c),
           UNCHANGED <<key, group, open>>
    PROVE  IInv'
<1> DEFINE k == key[c]
           d == NextWaiter(k)
<1>1. k \in Keys /\ c \in Owners(k)
  BY DEF IInv, TypeOK, Owners
<1>2. TypeOK /\ SlotsConserved /\ NoLostWakeup /\ WaitersDistinct
  BY DEF IInv
<1>3. /\ waiters[k] \in Seq(Calls) /\ Distinct(waiters[k])
      /\ Elems(waiters[k]) = Waiting(k)
      /\ Len(waiters[k]) \in Nat /\ Len(waiters[k]) <= MaxQueue
  BY <1>1, <1>2 DEF TypeOK, NoLostWakeup, WaitersDistinct, Waiting
<1>4. CASE waiters[k] # <<>>
  <2>1. d \in Waiting(k) /\ d \in Calls /\ d # c
    BY <1>3, <1>4, HeadQueue DEF NextWaiter, Waiting, Owning
  <2>2. /\ pc' = [pc EXCEPT ![c] = "idle", ![d] = "granted"]
        /\ waiters' = [waiters EXCEPT ![k] = Without(waiters[k], d)]
        /\ UNCHANGED <<available, inUse>>
    BY <1>4 DEF Release
  <2>3. /\ Without(waiters[k], d) \in Seq(Calls)
        /\ Len(Without(waiters[k], d)) = Len(waiters[k]) - 1
        /\ Elems(Without(waiters[k], d)) = Waiting(k) \ {d}
        /\ Distinct(Without(waiters[k], d))
    BY <1>3, <2>1, WithoutQueue
  <2>4. \A e \in Calls : pc'[e] = IF e = d THEN "granted" ELSE IF e = c THEN "idle" ELSE pc[e]
    BY <1>2, <2>1, <2>2 DEF TypeOK
  <2>5. \A h \in Keys : waiters'[h] = IF h = k THEN Without(waiters[k], d) ELSE waiters[h]
    BY <1>2, <2>2 DEF TypeOK
  <2>6. TypeOK'
    BY <1>1, <1>2, <2>1, <2>2, <2>3 DEF TypeOK, Places, Owning
  <2>7. SlotsConserved'
    <3>1. \A h \in Keys \ {k} : Owners(h)' = Owners(h)
      BY <2>1, <2>4 DEF Owners, Waiting, Owning
    <3>2. Owners(k)' = (Owners(k) \ {c}) \cup {d}
      BY <1>1, <2>1, <2>4 DEF Owners, Waiting, Owning
    <3>3. d \notin Owners(k) \ {c}
      BY <2>1 DEF Owners, Waiting, Owning
    <3>4. /\ IsFiniteSet(Owners(k) \ {c})
          /\ Cardinality(Owners(k) \ {c}) = Cardinality(Owners(k)) - 1
      BY <1>1, OwnersFinite, FS_RemoveElement
    <3>5. Cardinality((Owners(k) \ {c}) \cup {d}) = Cardinality(Owners(k) \ {c}) + 1
      BY <3>3, <3>4, FS_AddElement
    <3>6. Cardinality((Owners(k) \ {c}) \cup {d}) = Cardinality(Owners(k))
      <4>1. Cardinality(Owners(k)) \in Nat
        BY OwnersFinite
      <4>2. QED
        BY <3>4, <3>5, <4>1
    <3>7. \A h \in Keys : Cardinality(Owners(h))' = Cardinality(Owners(h))
      BY <3>1, <3>2, <3>6
    <3>8. QED
      BY <1>2, <2>2, <3>7 DEF SlotsConserved
  <2>8. NoLostWakeup'
    <3>1. \A h \in Keys : Waiting(h)' = IF h = k THEN Waiting(k) \ {d} ELSE Waiting(h)
      BY <1>1, <2>1, <2>4 DEF Waiting, Owners, Owning
    <3>2. \A h \in Keys : Elems(waiters[h])' = Waiting(h)'
      <4>1. \A h \in Keys : Elems(waiters'[h]) = IF h = k THEN Waiting(k) \ {d} ELSE Elems(waiters[h])
        BY <2>3, <2>5
      <4>2. \A h \in Keys : Elems(waiters[h]) = Waiting(h)
        BY <1>2 DEF NoLostWakeup, Waiting
      <4>3. QED
        BY <3>1, <4>1, <4>2 DEF Elems
    <3>3. \A h \in Keys : waiters'[h] # <<>> => available'[h] = 0
      BY <1>2, <1>4, <2>2, <2>5 DEF NoLostWakeup
    <3>4. \A h \in Keys : Len(waiters'[h]) <= MaxQueue
      BY <1>2, <1>3, <2>3, <2>5, LanesAssumption DEF NoLostWakeup
    <3>5. QED
      BY <3>2, <3>3, <3>4 DEF NoLostWakeup, Waiting
  <2>9. WaitersDistinct'
    BY <1>2, <2>3, <2>5 DEF WaitersDistinct
  <2>10. QED
    BY <2>6, <2>7, <2>8, <2>9 DEF IInv
<1>5. CASE waiters[k] = <<>>
  <2>1. /\ pc' = [pc EXCEPT ![c] = "idle"]
        /\ inUse' = [inUse EXCEPT ![k] = @ - 1]
        /\ available' = [available EXCEPT ![k] = @ + 1]
        /\ UNCHANGED waiters
    BY <1>5 DEF Release
  <2>2. \A e \in Calls : pc'[e] = IF e = c THEN "idle" ELSE pc[e]
    BY <1>2, <2>1 DEF TypeOK
  <2>3. /\ \A h \in Keys \ {k} : Owners(h)' = Owners(h)
        /\ Owners(k)' = Owners(k) \ {c}
    BY <1>1, <2>2 DEF Owners, Owning
  <2>4. Cardinality(Owners(k) \ {c}) = Cardinality(Owners(k)) - 1
    BY <1>1, OwnersFinite, FS_RemoveElement
  <2>5. IsFiniteSet(Owners(k) \ {c}) /\ Cardinality(Owners(k) \ {c}) \in Nat
    BY OwnersFinite, FS_RemoveElement, FS_CardinalityType
  <2>6. \A h \in Keys : /\ inUse'[h] = IF h = k THEN inUse[h] - 1 ELSE inUse[h]
                        /\ available'[h] = IF h = k THEN available[h] + 1 ELSE available[h]
    BY <1>2, <2>1 DEF TypeOK
  <2>7. SlotsConserved'
    <3>1. \A h \in Keys : Cardinality(Owners(h))' =
                            IF h = k THEN Cardinality(Owners(h)) - 1 ELSE Cardinality(Owners(h))
      BY <2>3, <2>4
    <3>2. \A h \in Keys : inUse[h] = Cardinality(Owners(h)) /\ available[h] + inUse[h] = MaxConcurrent
      BY <1>2 DEF SlotsConserved
    <3>3. \A h \in Keys : inUse[h] \in Int /\ available[h] \in Int
      BY <1>2 DEF TypeOK
    <3>4. \A h \in Keys : /\ inUse'[h] = Cardinality(Owners(h))'
                          /\ available'[h] + inUse'[h] = MaxConcurrent
      BY <2>6, <3>1, <3>2, <3>3, LanesAssumption
    <3>5. QED
      BY <3>4 DEF SlotsConserved
  <2>8. TypeOK'
    <3>1. inUse[k] - 1 \in 0 .. MaxConcurrent /\ available[k] + 1 \in 0 .. MaxConcurrent
      BY <1>1, <1>2, <2>4, <2>5, LanesAssumption DEF TypeOK, SlotsConserved
    <3>2. QED
      BY <1>2, <2>1, <3>1 DEF TypeOK, Places
  <2>9. \A h \in Keys : Waiting(h)' = Waiting(h)
    BY <1>1, <2>2 DEF Waiting, Owning
  <2>10. NoLostWakeup' /\ WaitersDistinct'
    <3>1. \A h \in Keys : Elems(waiters[h])' = Elems(waiters[h])
      BY <2>1
    <3>2. \A h \in Keys : waiters'[h] # <<>> => available'[h] = 0
      BY <1>2, <1>5, <2>1, <2>6 DEF NoLostWakeup
    <3>3. QED
      BY <1>2, <2>1, <2>9, <3>1, <3>2 DEF NoLostWakeup, WaitersDistinct, Waiting
  <2>11. QED
    BY <2>7, <2>8, <2>10 DEF IInv
<1>6. QED
  BY <1>4, <1>5

\* acquire with a free slot.
LEMMA TakeInv ==
    ASSUME IInv, NEW c \in Calls, NEW k \in Keys, pc[c] = "idle", TakeSlot(c, k),
           key' = [key EXCEPT ![c] = k], UNCHANGED <<group, open>>
    PROVE  IInv'
<1>1. TypeOK /\ SlotsConserved /\ NoLostWakeup /\ WaitersDistinct
  BY DEF IInv
<1>2. /\ available[k] > 0
      /\ available' = [available EXCEPT ![k] = @ - 1]
      /\ inUse' = [inUse EXCEPT ![k] = @ + 1]
      /\ pc' = [pc EXCEPT ![c] = "spawn"]
      /\ UNCHANGED waiters
  BY DEF TakeSlot
<1>3. \A e \in Calls : /\ pc'[e] = IF e = c THEN "spawn" ELSE pc[e]
                       /\ key'[e] = IF e = c THEN k ELSE key[e]
  BY <1>1, <1>2 DEF TypeOK
<1>4. /\ \A h \in Keys \ {k} : Owners(h)' = Owners(h)
      /\ Owners(k)' = Owners(k) \cup {c}
      /\ c \notin Owners(k)
  BY <1>3 DEF Owners, Owning
<1>5. /\ Cardinality(Owners(k) \cup {c}) = Cardinality(Owners(k)) + 1
      /\ Cardinality(Owners(k)) \in Nat
  BY <1>4, OwnersFinite, FS_AddElement
<1>6. \A h \in Keys : /\ inUse'[h] = IF h = k THEN inUse[h] + 1 ELSE inUse[h]
                      /\ available'[h] = IF h = k THEN available[h] - 1 ELSE available[h]
  BY <1>1, <1>2 DEF TypeOK
<1>7. SlotsConserved'
  <2>1. \A h \in Keys : Cardinality(Owners(h))' =
                          IF h = k THEN Cardinality(Owners(h)) + 1 ELSE Cardinality(Owners(h))
    BY <1>4, <1>5
  <2>2. \A h \in Keys : inUse[h] = Cardinality(Owners(h)) /\ available[h] + inUse[h] = MaxConcurrent
    BY <1>1 DEF SlotsConserved
  <2>3. \A h \in Keys : inUse[h] \in Int /\ available[h] \in Int
    BY <1>1 DEF TypeOK
  <2>4. \A h \in Keys : /\ inUse'[h] = Cardinality(Owners(h))'
                        /\ available'[h] + inUse'[h] = MaxConcurrent
    BY <1>6, <2>1, <2>2, <2>3, LanesAssumption
  <2>5. QED
    BY <2>4 DEF SlotsConserved
<1>8. TypeOK'
  <2>1. inUse[k] + 1 \in 0 .. MaxConcurrent /\ available[k] - 1 \in 0 .. MaxConcurrent
    BY <1>1, <1>2, LanesAssumption DEF TypeOK, SlotsConserved
  <2>2. QED
    BY <1>1, <1>2, <2>1 DEF TypeOK, Places, Owning
<1>9. \A h \in Keys : Waiting(h)' = Waiting(h)
  BY <1>3 DEF Waiting
<1>10. NoLostWakeup' /\ WaitersDistinct'
  <2>1. \A h \in Keys : Elems(waiters[h])' = Elems(waiters[h])
    BY <1>2
  <2>2. \A h \in Keys : waiters'[h] # <<>> => available'[h] = 0
    BY <1>1, <1>2, <1>6 DEF NoLostWakeup, TakeSlot
  <2>3. QED
    BY <1>1, <1>2, <1>9, <2>1, <2>2 DEF NoLostWakeup, WaitersDistinct, Waiting
<1>11. QED
  BY <1>7, <1>8, <1>10 DEF IInv

\* acquire without one: the call joins the end of the queue.
LEMMA EnqueueInv ==
    ASSUME IInv, NEW c \in Calls, NEW k \in Keys, pc[c] = "idle", Enqueue(c, k),
           key' = [key EXCEPT ![c] = k], UNCHANGED <<group, open>>
    PROVE  IInv'
<1> DEFINE s == waiters[k]
<1>1. TypeOK /\ SlotsConserved /\ NoLostWakeup /\ WaitersDistinct
  BY DEF IInv
<1>2. /\ available[k] = 0 \/ s # <<>>
      /\ Len(s) < MaxQueue
      /\ waiters' = [waiters EXCEPT ![k] = Append(s, c)]
      /\ pc' = [pc EXCEPT ![c] = "queued"]
      /\ UNCHANGED <<available, inUse>>
  BY DEF Enqueue, HasRoom
<1>3. \A e \in Calls : /\ pc'[e] = IF e = c THEN "queued" ELSE pc[e]
                       /\ key'[e] = IF e = c THEN k ELSE key[e]
  BY <1>1, <1>2 DEF TypeOK
<1>4. /\ s \in Seq(Calls) /\ Distinct(s) /\ Elems(s) = Waiting(k)
      /\ c \notin Elems(s) /\ Len(s) \in Nat
  BY <1>1 DEF TypeOK, NoLostWakeup, WaitersDistinct, Waiting
<1>5. /\ Append(s, c) \in Seq(Calls)
      /\ Len(Append(s, c)) = Len(s) + 1
      /\ Elems(Append(s, c)) = Elems(s) \cup {c}
      /\ Distinct(Append(s, c))
  BY <1>4, AppendQueue
<1>6. \A h \in Keys : waiters'[h] = IF h = k THEN Append(s, c) ELSE waiters[h]
  BY <1>1, <1>2 DEF TypeOK
<1>7. TypeOK'
  BY <1>1, <1>2, <1>5 DEF TypeOK, Places
<1>8. SlotsSame
  BY <1>2, <1>3 DEF SlotsSame, Owners, Owning
<1>9. NoLostWakeup'
  <2>1. \A h \in Keys : Waiting(h)' = IF h = k THEN Waiting(k) \cup {c} ELSE Waiting(h)
    BY <1>3 DEF Waiting
  <2>2. \A h \in Keys : Elems(waiters'[h]) = Waiting(h)'
    <3>1. \A h \in Keys : Elems(waiters[h]) = Waiting(h)
      BY <1>1 DEF NoLostWakeup, Waiting
    <3>2. QED
      BY <1>4, <1>5, <1>6, <2>1, <3>1
  <2>3. \A h \in Keys : waiters'[h] # <<>> => available'[h] = 0
    BY <1>1, <1>2, <1>6 DEF NoLostWakeup
  <2>4. \A h \in Keys : Len(waiters'[h]) <= MaxQueue
    BY <1>1, <1>2, <1>4, <1>5, <1>6, LanesAssumption DEF NoLostWakeup
  <2>5. QED
    BY <2>2, <2>3, <2>4 DEF NoLostWakeup, Waiting, Elems
<1>10. WaitersDistinct'
  BY <1>1, <1>5, <1>6 DEF WaitersDistinct
<1>11. QED
  BY <1>1, <1>7, <1>8, <1>9, <1>10, SameSlots DEF IInv

\* A waiter leaves the queue.
LEMMA LeaveQueueInv ==
    ASSUME IInv, NEW c \in Calls, LeaveQueue(c)
    PROVE  IInv'
<1> DEFINE k == key[c]
           s == waiters[k]
<1>1. TypeOK /\ SlotsConserved /\ NoLostWakeup /\ WaitersDistinct
  BY DEF IInv
<1>2. /\ pc[c] = "queued"
      /\ waiters' = [waiters EXCEPT ![k] = Without(s, c)]
      /\ pc' = [pc EXCEPT ![c] = "idle"]
      /\ UNCHANGED <<available, inUse, key, group, open>>
  BY DEF LeaveQueue
<1>3. k \in Keys /\ \A e \in Calls : pc'[e] = IF e = c THEN "idle" ELSE pc[e]
  BY <1>1, <1>2 DEF TypeOK
<1>4. /\ s \in Seq(Calls) /\ Distinct(s) /\ Elems(s) = Waiting(k)
      /\ c \in Elems(s) /\ Len(s) \in Nat /\ Len(s) <= MaxQueue
      /\ s # <<>> => available[k] = 0
  BY <1>1, <1>2, <1>3 DEF TypeOK, NoLostWakeup, WaitersDistinct, Waiting
<1>5. /\ Without(s, c) \in Seq(Calls)
      /\ Len(Without(s, c)) = Len(s) - 1
      /\ Elems(Without(s, c)) = Elems(s) \ {c}
      /\ Distinct(Without(s, c))
  BY <1>4, WithoutQueue
<1>6. \A h \in Keys : waiters'[h] = IF h = k THEN Without(s, c) ELSE waiters[h]
  BY <1>1, <1>2 DEF TypeOK
<1>7. TypeOK'
  BY <1>1, <1>2, <1>3, <1>5 DEF TypeOK, Places
<1>8. SlotsSame
  BY <1>2, <1>3 DEF SlotsSame, Owners, Owning
<1>9. NoLostWakeup'
  <2>1. \A h \in Keys : Waiting(h)' = IF h = k THEN Waiting(k) \ {c} ELSE Waiting(h)
    BY <1>2, <1>3 DEF Waiting
  <2>2. \A h \in Keys : Elems(waiters'[h]) = Waiting(h)'
    <3>1. \A h \in Keys : Elems(waiters[h]) = Waiting(h)
      BY <1>1 DEF NoLostWakeup, Waiting
    <3>2. QED
      BY <1>4, <1>5, <1>6, <2>1, <3>1
  <2>3. \A h \in Keys : waiters'[h] # <<>> => available'[h] = 0
    <3>1. s # <<>>
      BY <1>4 DEF Elems
    <3>2. QED
      BY <1>1, <1>2, <1>4, <1>6, <3>1 DEF NoLostWakeup
  <2>4. \A h \in Keys : Len(waiters'[h]) <= MaxQueue
    BY <1>1, <1>4, <1>5, <1>6, LanesAssumption DEF NoLostWakeup
  <2>5. QED
    BY <2>2, <2>3, <2>4 DEF NoLostWakeup, Waiting, Elems
<1>10. WaitersDistinct'
  BY <1>1, <1>5, <1>6 DEF WaitersDistinct
<1>11. QED
  BY <1>1, <1>7, <1>8, <1>9, <1>10, SameSlots DEF IInv

\* shutdown empties every queue.
LEMMA ShutdownInv ==
    ASSUME IInv, Shutdown
    PROVE  IInv'
<1>1. TypeOK /\ SlotsConserved
  BY DEF IInv
<1>2. /\ \A e \in Calls : pc'[e] = IF pc[e] = "queued" THEN "refused" ELSE pc[e]
      /\ \A h \in Keys : waiters'[h] = <<>>
      /\ UNCHANGED <<available, inUse, key, group>>
  BY DEF Shutdown
<1>3. TypeOK'
  <2>1. pc' \in [Calls -> Places]
    BY <1>1 DEF Shutdown, TypeOK, Places
  <2>2. waiters' \in [Keys -> Seq(Calls)]
    BY DEF Shutdown
  <2>3. QED
    BY <1>1, <2>1, <2>2 DEF Shutdown, TypeOK
<1>4. SlotsSame
  BY <1>2 DEF SlotsSame, Owners, Owning
<1>5. Elems(<<>>) = {} /\ Len(<<>>) = 0 /\ Distinct(<<>>)
  BY DEF Elems, Distinct
<1>6. \A h \in Keys : Waiting(h)' = {}
  BY <1>2 DEF Waiting
<1>7. NoLostWakeup'
  BY <1>2, <1>5, <1>6, LanesAssumption DEF NoLostWakeup, Waiting, Elems
<1>8. WaitersDistinct'
  BY <1>2, <1>5 DEF WaitersDistinct
<1>9. QED
  BY <1>1, <1>3, <1>4, <1>7, <1>8, SameSlots DEF IInv

-----------------------------------------------------------------------------
(* The invariant.                                                          *)

LEMMA InitInv == Init => IInv
<1> SUFFICES ASSUME Init PROVE IInv
  OBVIOUS
<1>1. \A k \in Keys : /\ waiters[k] = <<>> /\ available[k] = MaxConcurrent
                      /\ inUse[k] = 0 /\ Owners(k) = {} /\ Waiting(k) = {}
  BY DEF Init, Owners, Owning, Waiting
<1>2. TypeOK
  <2>1. AnyKey \in Keys
    BY LanesAssumption DEF AnyKey
  <2>2. QED
    BY <2>1, LanesAssumption DEF Init, TypeOK, Places, NoGroup
<1>3. SlotsConserved
  <2>1. \A k \in Keys : Cardinality(Owners(k)) = 0
    BY <1>1, FS_EmptySet
  <2>2. QED
    BY <1>1, <2>1, LanesAssumption DEF SlotsConserved
<1>4. Elems(<<>>) = {} /\ Len(<<>>) = 0 /\ Distinct(<<>>)
  BY DEF Elems, Distinct
<1>5. NoLostWakeup /\ WaitersDistinct
  BY <1>1, <1>4, LanesAssumption DEF NoLostWakeup, WaitersDistinct, Waiting
<1>6. QED
  BY <1>2, <1>3, <1>5 DEF IInv

\* The finally block of a call that owns a slot.
LEMMA FinallyInv ==
    ASSUME IInv, NEW c \in Calls, pc[c] \in Owning, Finally(c),
           UNCHANGED <<key, group, open>>
    PROVE  IInv'
<1>1. group' \in [Calls -> [leader : BOOLEAN, child : BOOLEAN]] /\ pc[c] # "queued"
  BY DEF IInv, TypeOK, Owning
<1>2. CASE Release(c)
  BY <1>2, ReleaseInv
<1>3. CASE pc' = [pc EXCEPT ![c] = "term2"] /\ UNCHANGED <<available, inUse, waiters>>
  BY <1>1, <1>3, MoveInv DEF Places, Owning
<1>4. QED
  BY <1>2, <1>3 DEF Finally

\* A process of the group exits; the lane does not see it.
LEMMA ExitInv ==
    ASSUME IInv, NEW c \in Calls, LeaderExits(c) \/ ChildExits(c)
    PROVE  IInv'
<1>1. UNCHANGED <<available, inUse, waiters, pc, key, open>>
  BY DEF LeaderExits, ChildExits
<1>2. TypeOK'
  BY DEF IInv, TypeOK, LeaderExits, ChildExits
<1>3. SlotsSame /\ QueuesSame
  BY <1>1 DEF SlotsSame, QueuesSame, Owners, Waiting
<1>4. QED
  BY <1>2, <1>3, SameSlots, SameQueues DEF IInv

LEMMA StepInv == IInv /\ [Next]_vars => IInv'
<1> SUFFICES ASSUME IInv, [Next]_vars PROVE IInv'
  OBVIOUS
<1>1. TypeOK
  BY DEF IInv
<1>2. ASSUME NEW c \in Calls, NEW k \in Keys, Acquire(c, k) PROVE IInv'
  BY <1>2, TakeInv, EnqueueInv DEF Acquire
<1>3. ASSUME NEW c \in Calls, Wake(c) \/ Refused(c) \/ GiveUp(c) PROVE IInv'
  <2>1. group' \in [Calls -> [leader : BOOLEAN, child : BOOLEAN]]
    BY <1>1, <1>3 DEF TypeOK, Wake, Refused, GiveUp
  <2>2. QED
    BY <1>3, <2>1, MoveInv DEF Wake, Refused, GiveUp, Places, Owning
<1>4. ASSUME NEW c \in Calls, Spawn(c) PROVE IInv'
  <2>1. group' \in [Calls -> [leader : BOOLEAN, child : BOOLEAN]]
    BY <1>1, <1>4 DEF TypeOK, Spawn
  <2>2. QED
    BY <1>4, <2>1, MoveInv DEF Spawn, Places, Owning
<1>5. ASSUME NEW c \in Calls, Escalate(c) PROVE IInv'
  <2>1. group' \in [Calls -> [leader : BOOLEAN, child : BOOLEAN]]
    BY <1>1, <1>5 DEF TypeOK, Escalate, NoGroup
  <2>2. QED
    BY <1>5, <2>1, MoveInv DEF Escalate, Places, Owning
<1>6. ASSUME NEW c \in Calls, LeaveQueue(c) PROVE IInv'
  BY <1>6, LeaveQueueInv
<1>7. ASSUME NEW c \in Calls,
             LeaveGranted(c) \/ SpawnFails(c) \/ TalkDone(c) \/ TermDone(c)
      PROVE  IInv'
  BY <1>7, ReleaseInv DEF LeaveGranted, SpawnFails, TalkDone, TermDone, Owning
<1>8. ASSUME NEW c \in Calls, TalkRaises(c) \/ CancelTerm(c) PROVE IInv'
  BY <1>8, FinallyInv, ReleaseInv DEF TalkRaises, CancelTerm, Owning
<1>9. ASSUME NEW c \in Calls, LeaderExits(c) \/ ChildExits(c) PROVE IInv'
  BY <1>9, ExitInv
<1>10. CASE Shutdown
  BY <1>10, ShutdownInv
<1>11. CASE UNCHANGED vars
  <2>1. SlotsSame /\ QueuesSame /\ TypeOK'
    BY <1>1, <1>11 DEF vars, SlotsSame, QueuesSame, Owners, Waiting, TypeOK
  <2>2. QED
    BY <2>1, SameSlots, SameQueues DEF IInv
<1>12. QED
  BY <1>2, <1>3, <1>4, <1>5, <1>6, <1>7, <1>8, <1>9, <1>10, <1>11 DEF Next, Proceed

\* The invariant holds of every behaviour of the lanes.
THEOREM LanesInductive == Spec => []IInv
<1>1. QED
  BY InitInv, StepInv, PTL DEF Spec

-----------------------------------------------------------------------------
\* No slot of a lane is lost or made up by WorkerLanes.acquire, however its
\* waits time out, its callers are cancelled and its ssh processes end.
THEOREM SlotsAreConserved == Spec => []SlotsConserved
<1>1. IInv => SlotsConserved
  BY DEF IInv
<1>2. QED
  BY LanesInductive, <1>1, PTL

\* _release_locked and _abandon_waiter lose no wake-up: no call waits for a
\* lane that has a free slot, and the queue is exact and bounded.
THEOREM WakeupsAreNotLost == Spec => []NoLostWakeup
<1>1. IInv => NoLostWakeup
  BY DEF IInv
<1>2. QED
  BY LanesInductive, <1>1, PTL

-----------------------------------------------------------------------------
(* Processes.                                                              *)

\* A call has processes only while it talks to them or kills them.
Fresh == \A c \in Calls : pc[c] \notin Running => GroupGone(c)

\* The slot of a call whose group is gone moves on; whoever gets it has none.
LEMMA ReleaseFresh ==
    ASSUME IInv, Fresh, NEW c \in Calls, pc[c] \in Owning, GroupGone(c), Release(c),
           UNCHANGED group
    PROVE  Fresh'
<1> DEFINE k == key[c]
           d == NextWaiter(k)
<1>1. k \in Keys /\ TypeOK /\ waiters[k] \in Seq(Calls)
  BY DEF IInv, TypeOK
<1>2. CASE waiters[k] # <<>>
  <2>1. d \in Calls /\ pc[d] = "queued"
    BY <1>1, <1>2, HeadQueue DEF IInv, NoLostWakeup, NextWaiter
  <2>2. \A e \in Calls : pc'[e] = pc[e] \/ e \in {c, d}
    BY <1>1, <1>2 DEF Release, TypeOK
  <2>3. GroupGone(d)
    BY <2>1 DEF Fresh, Running
  <2>4. QED
    BY <2>2, <2>3 DEF Fresh, GroupGone, Running
<1>3. CASE waiters[k] = <<>>
  <2>1. \A e \in Calls : pc'[e] = pc[e] \/ e = c
    BY <1>1, <1>3 DEF Release, TypeOK
  <2>2. QED
    BY <2>1 DEF Fresh, GroupGone, Running
<1>4. QED
  BY <1>2, <1>3

LEMMA StepFresh ==
    ASSUME ~CancelCleanup, ~LateErrors, IInv, Fresh, [Next]_vars
    PROVE  Fresh'
<1>1. TypeOK
  BY DEF IInv
<1>2. ASSUME NEW c \in Calls, NEW k \in Keys, Acquire(c, k) PROVE Fresh'
  BY <1>1, <1>2 DEF Acquire, TakeSlot, Enqueue, TypeOK, Fresh, GroupGone, Running
<1>3. ASSUME NEW c \in Calls, Wake(c) \/ Refused(c) \/ GiveUp(c) \/ LeaveQueue(c) PROVE Fresh'
  BY <1>1, <1>3 DEF Wake, Refused, GiveUp, LeaveQueue, TypeOK, Fresh, GroupGone, Running
<1>4. ASSUME NEW c \in Calls, Spawn(c) \/ Escalate(c) PROVE Fresh'
  BY <1>1, <1>4 DEF Spawn, Escalate, TypeOK, Fresh, GroupGone, Running
<1>5. ASSUME NEW c \in Calls, LeaveGranted(c) \/ SpawnFails(c) PROVE Fresh'
  <2>1. GroupGone(c) /\ pc[c] \in Owning
    BY <1>5 DEF LeaveGranted, SpawnFails, Fresh, Owning, Running
  <2>2. QED
    BY <1>5, <2>1, ReleaseFresh DEF LeaveGranted, SpawnFails
<1>6. ASSUME NEW c \in Calls, TalkDone(c) \/ TermDone(c) PROVE Fresh'
  BY <1>6, ReleaseFresh DEF TalkDone, TermDone, Terminated, Owning
<1>7. ASSUME NEW c \in Calls, TalkRaises(c) PROVE Fresh'
  BY <1>1, <1>7 DEF TalkRaises, Finally, TypeOK, Fresh, GroupGone, Running
<1>8. ASSUME NEW c \in Calls, CancelTerm(c) PROVE Fresh'
  BY <1>8 DEF CancelTerm
<1>9. ASSUME NEW c \in Calls, LeaderExits(c) \/ ChildExits(c) PROVE Fresh'
  <2>1. UNCHANGED pc /\ \A e \in Calls : e # c => group'[e] = group[e]
    BY <1>1, <1>9 DEF LeaderExits, ChildExits, TypeOK
  <2>2. ~GroupGone(c)
    BY <1>9 DEF LeaderExits, ChildExits, GroupGone, NoGroup
  <2>3. QED
    BY <2>1, <2>2 DEF Fresh, GroupGone
<1>10. CASE Shutdown
  BY <1>1, <1>10 DEF Shutdown, TypeOK, Fresh, GroupGone, Running
<1>11. CASE UNCHANGED vars
  BY <1>11 DEF vars, Fresh, GroupGone
<1>12. QED
  BY <1>2, <1>3, <1>4, <1>5, <1>6, <1>7, <1>8, <1>9, <1>10, <1>11 DEF Next, Proceed

\* If no call is cancelled while it kills its process group, and communicate
\* raises nothing else once ssh is reaped, _exec_ssh_bytes leaves no process
\* behind when a call is over.
THEOREM NoProcessLeft ==
    ASSUME ~CancelCleanup, ~LateErrors
    PROVE  Spec => []NoOrphan
<1>1. Init => Fresh
  BY DEF Init, Fresh, GroupGone, Running
<1>2. IInv /\ Fresh /\ [Next]_vars => Fresh'
  BY StepFresh
<1>3. Fresh => NoOrphan
  BY DEF Fresh, NoOrphan, Owning, Running
<1>4. QED
  BY <1>1, <1>2, <1>3, LanesInductive, PTL DEF Spec

\* What a call that talks to its process or kills it looks like after a step of
\* another: nothing but its own steps end it.
LEMMA ReleaseEndsOwn ==
    ASSUME IInv, NEW c \in Calls, pc[c] \in Owning, Release(c),
           NEW d \in Calls, d # c, pc[d] \in Running
    PROVE  pc'[d] = pc[d]
<1> DEFINE k == key[c]
<1>1. k \in Keys /\ TypeOK /\ waiters[k] \in Seq(Calls)
  BY DEF IInv, TypeOK
<1>2. CASE waiters[k] # <<>>
  <2>1. NextWaiter(k) \in Calls /\ pc[NextWaiter(k)] = "queued"
    BY <1>1, <1>2, HeadQueue DEF IInv, NoLostWakeup, NextWaiter
  <2>2. d # NextWaiter(k)
    BY <2>1 DEF Running
  <2>3. QED
    BY <1>1, <1>2, <2>2 DEF Release, TypeOK
<1>3. CASE waiters[k] = <<>>
  BY <1>1, <1>3 DEF Release, TypeOK
<1>4. QED
  BY <1>2, <1>3

\* One step: a call whose command ran and that ends with processes left has been
\* cancelled in _terminate_async_process, or saw an error after ssh was reaped.
LEMMA StepOrphans ==
    ASSUME IInv, [Next]_vars, NEW d \in Calls,
           pc[d] \in Running, pc'[d] \notin Running, ~GroupGone(d)'
    PROVE  CancelTerm(d) \/ RaisesLate(d)
<1>1. TypeOK
  BY DEF IInv
<1>2. ASSUME NEW c \in Calls, NEW k \in Keys, Acquire(c, k) PROVE FALSE
  BY <1>1, <1>2 DEF Acquire, TakeSlot, Enqueue, TypeOK, Running
<1>3. ASSUME NEW c \in Calls, Wake(c) \/ Refused(c) \/ GiveUp(c) \/ LeaveQueue(c) PROVE FALSE
  BY <1>1, <1>3 DEF Wake, Refused, GiveUp, LeaveQueue, TypeOK, Running
<1>4. ASSUME NEW c \in Calls, Spawn(c) \/ Escalate(c) PROVE FALSE
  BY <1>1, <1>4 DEF Spawn, Escalate, TypeOK, Running
<1>5. ASSUME NEW c \in Calls, LeaveGranted(c) \/ SpawnFails(c) PROVE FALSE
  BY <1>5, ReleaseEndsOwn DEF LeaveGranted, SpawnFails, Running, Owning
<1>6. ASSUME NEW c \in Calls, TalkDone(c) \/ TermDone(c) PROVE FALSE
  <2>1. GroupGone(c)' /\ pc[c] \in Owning /\ Release(c)
    BY <1>6 DEF TalkDone, TermDone, Terminated, GroupGone, Owning
  <2>2. QED
    BY <2>1, ReleaseEndsOwn
<1>7. ASSUME NEW c \in Calls, TalkRaises(c) PROVE RaisesLate(d)
  <2>1. CASE d = c
    <3>1. ~group[c].leader
      BY <1>1, <1>7, <2>1 DEF TalkRaises, Finally, TypeOK, Running
    <3>2. QED
      BY <1>7, <2>1, <3>1 DEF RaisesLate
  <2>2. CASE d # c
    <3>1. pc'[d] = pc[d] \/ Release(c)
      BY <1>1, <1>7, <2>2 DEF TalkRaises, Finally, TypeOK
    <3>2. pc[c] \in Owning
      BY <1>7 DEF TalkRaises, Owning
    <3>3. QED
      BY <2>2, <3>1, <3>2, ReleaseEndsOwn
  <2>3. QED
    BY <2>1, <2>2
<1>8. ASSUME NEW c \in Calls, CancelTerm(c) PROVE CancelTerm(d)
  <2>1. CASE d = c
    BY <1>8, <2>1
  <2>2. CASE d # c
    <3>1. pc'[d] = pc[d] \/ Release(c)
      BY <1>1, <1>8, <2>2 DEF CancelTerm, Finally, TypeOK
    <3>2. pc[c] \in Owning
      BY <1>8 DEF CancelTerm, Owning
    <3>3. QED
      BY <2>2, <3>1, <3>2, ReleaseEndsOwn
  <2>3. QED
    BY <2>1, <2>2
<1>9. ASSUME NEW c \in Calls, LeaderExits(c) \/ ChildExits(c) PROVE FALSE
  BY <1>9 DEF LeaderExits, ChildExits
<1>10. CASE Shutdown
  BY <1>1, <1>10 DEF Shutdown, TypeOK, Running
<1>11. CASE UNCHANGED vars
  BY <1>11 DEF vars
<1>12. QED
  BY <1>2, <1>3, <1>4, <1>5, <1>6, <1>7, <1>8, <1>9, <1>10, <1>11 DEF Next, Proceed

\* However calls time out, fail, are cancelled or shut down, a process outlives
\* the call of _exec_ssh_bytes that started it in two ways only: a second
\* cancellation during the kill, or an error after its ssh process was reaped.
THEOREM OrphansExplained == Spec => OrphansAreExplained
<1>1. IInv /\ [Next]_vars => [ExplainedIfLeaving]_vars
  BY StepOrphans DEF ExplainedIfLeaving
<1>2. QED
  BY <1>1, LanesInductive, PTL DEF Spec, OrphansAreExplained

-----------------------------------------------------------------------------
(* The order of the waiters.                                               *)

\* Whoever gets a slot of a lane in this step overtakes no waiter of it.
InOrder ==
    \A k \in Keys : \A n \in DOMAIN waiters[k] : \A c \in Owners(k)' \ Owners(k) :
        pc'[waiters[k][n]] = "queued" => \E m \in 1 .. n - 1 : waiters[k][m] = c

\* A step that hands out no slot.
LEMMA NobodyEnters ==
    ASSUME \A c \in Calls : pc'[c] \in Owning => pc[c] \in Owning /\ key'[c] = key[c]
    PROVE  InOrder
  BY DEF InOrder, Owners

\* _release_locked hands the slot to the oldest waiter.
LEMMA ReleaseInOrder ==
    ASSUME IInv, NEW r \in Calls, pc[r] \in Owning, Release(r), UNCHANGED key
    PROVE  InOrder
<1> DEFINE h == key[r]
           d == NextWaiter(h)
<1>1. h \in Keys /\ TypeOK /\ waiters[h] \in Seq(Calls)
  BY DEF IInv, TypeOK
<1>2. CASE waiters[h] = <<>>
  <2>1. \A c \in Calls : pc'[c] = IF c = r THEN "idle" ELSE pc[c]
    BY <1>1, <1>2 DEF Release, TypeOK
  <2>2. QED
    BY <2>1, NobodyEnters DEF Owning
<1>3. CASE waiters[h] # <<>>
  <2>1. d \in Calls /\ d \in Elems(waiters[h])
    BY <1>1, <1>3, HeadQueue DEF NextWaiter
  <2>2. pc[d] = "queued" /\ key[d] = h
    BY <1>1, <2>1 DEF IInv, NoLostWakeup
  <2>3. pc' = [pc EXCEPT ![r] = "idle", ![d] = "granted"]
    BY <1>3 DEF Release
  <2>4. \A c \in Calls : pc'[c] = IF c = d THEN "granted" ELSE IF c = r THEN "idle" ELSE pc[c]
    BY <1>1, <2>1, <2>3 DEF TypeOK
  <2>5. ASSUME NEW k \in Keys, NEW c \in Owners(k)' \ Owners(k) PROVE c = d /\ k = h
    <3>1. c \in Calls /\ pc'[c] \in Owning /\ key[c] = k /\ pc[c] \notin Owning
      BY <2>5 DEF Owners
    <3>2. QED
      BY <2>2, <2>4, <3>1 DEF Owning
  <2>6. ASSUME NEW n \in DOMAIN waiters[h], pc'[waiters[h][n]] = "queued"
        PROVE  \E m \in 1 .. n - 1 : waiters[h][m] = d
    <3>1. d = waiters[h][1] /\ n \in Nat \ {0}
      BY <1>1, <1>3 DEF NextWaiter
    <3>2. n # 1
      BY <2>1, <2>4, <2>6, <3>1
    <3>3. 1 \in 1 .. n - 1
      BY <3>1, <3>2
    <3>4. QED
      BY <3>1, <3>3
  <2>7. QED
    BY <2>5, <2>6 DEF InOrder
<1>4. QED
  BY <1>2, <1>3

\* One step of the lanes.
LEMMA StepInOrder == IInv /\ [Next]_vars => InOrder
<1> SUFFICES ASSUME IInv, [Next]_vars PROVE InOrder
  OBVIOUS
<1>1. TypeOK
  BY DEF IInv
<1>2. ASSUME NEW c \in Calls, NEW k \in Keys, Acquire(c, k) PROVE InOrder
  <2>1. pc[c] = "idle" /\ \A d \in Calls \ {c} : pc'[d] = pc[d] /\ key'[d] = key[d]
    BY <1>1, <1>2 DEF Acquire, TakeSlot, Enqueue, TypeOK
  <2>2. CASE Enqueue(c, k)
    <3>1. pc'[c] = "queued"
      BY <1>1, <2>2 DEF Enqueue, TypeOK
    <3>2. QED
      BY <2>1, <3>1, NobodyEnters DEF Owning
  <2>3. CASE TakeSlot(c, k)
    <3>1. key'[c] = k /\ waiters[k] = <<>>
      BY <1>1, <1>2, <2>3 DEF Acquire, TakeSlot, TypeOK
    <3>2. \A h \in Keys : \A d \in Owners(h)' \ Owners(h) : d = c /\ h = k
      BY <2>1, <3>1 DEF Owners
    <3>3. DOMAIN waiters[k] = {}
      BY <3>1
    <3>4. QED
      BY <3>2, <3>3 DEF InOrder
  <2>4. QED
    BY <1>2, <2>2, <2>3 DEF Acquire
<1>3. ASSUME NEW c \in Calls,
             Wake(c) \/ Refused(c) \/ GiveUp(c) \/ LeaveQueue(c) \/ Spawn(c) \/ Escalate(c)
      PROVE  InOrder
  BY <1>1, <1>3, NobodyEnters
     DEF Wake, Refused, GiveUp, LeaveQueue, Spawn, Escalate, TypeOK, Owning
<1>4. ASSUME NEW c \in Calls,
             LeaveGranted(c) \/ SpawnFails(c) \/ TalkDone(c) \/ TermDone(c)
      PROVE  InOrder
  BY <1>4, ReleaseInOrder DEF LeaveGranted, SpawnFails, TalkDone, TermDone, Owning
<1>5. ASSUME NEW c \in Calls, TalkRaises(c) \/ CancelTerm(c) PROVE InOrder
  <2>1. pc[c] \in Owning /\ UNCHANGED key
    BY <1>5 DEF TalkRaises, CancelTerm, Owning
  <2>2. Release(c) \/ pc' = [pc EXCEPT ![c] = "term2"]
    BY <1>5 DEF TalkRaises, CancelTerm, Finally
  <2>3. CASE Release(c)
    BY <2>1, <2>3, ReleaseInOrder
  <2>4. CASE pc' = [pc EXCEPT ![c] = "term2"]
    <3>1. \A d \in Calls : d # c => pc'[d] = pc[d]
      BY <1>1, <2>4 DEF TypeOK
    <3>2. QED
      BY <2>1, <3>1, NobodyEnters
  <2>5. QED
    BY <2>2, <2>3, <2>4
<1>6. ASSUME NEW c \in Calls, LeaderExits(c) \/ ChildExits(c) PROVE InOrder
  BY <1>6, NobodyEnters DEF LeaderExits, ChildExits
<1>7. CASE Shutdown
  BY <1>1, <1>7, NobodyEnters DEF Shutdown, TypeOK, Owning
<1>8. CASE UNCHANGED vars
  BY <1>8, NobodyEnters DEF vars
<1>9. QED
  BY <1>2, <1>3, <1>4, <1>5, <1>6, <1>7, <1>8 DEF Next, Proceed

\* Lanes are FIFO: a call that gets a slot, from acquire or from
\* _release_locked, overtakes no call that has waited longer for the lane.
THEOREM NobodyIsOvertaken == Spec => NoOvertaking
<1>1. IInv /\ [Next]_vars => [InOrder]_vars
  BY StepInOrder
<1>2. QED
  BY <1>1, LanesInductive, PTL DEF Spec, NoOvertaking, InOrder
=============================================================================
