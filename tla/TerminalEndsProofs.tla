------------------------- MODULE TerminalEndsProofs -------------------------
(***************************************************************************)
(* The theorems of the two ends of a terminal attachment, for any clients, *)
(* limit and inputs of the gateway and any keys, addresses, frames and     *)
(* codes of the native client.                                             *)
(*                                                                         *)
(* Gateway.  A connection to the relay beyond the limit would be one of a  *)
(* victim that nobody waits for.  A victim that has not gone and is not    *)
(* overdue has a replacement that still waits and so has no connection;    *)
(* giving every such victim its replacement's slot leaves as many holders  *)
(* of a slot as the table has entries.                                     *)
(*                                                                         *)
(* Client.  What was forwarded, what is being sent, the chunks of the      *)
(* queue and what nobody has read were typed in this order, and the        *)
(* control the input task ends with is the first one it has taken.         *)
(***************************************************************************)
EXTENDS TerminalEnds, FiniteSetTheorems, WellFoundedInduction, TLAPS

-----------------------------------------------------------------------------
(* The inductive invariant.                                                *)

Types ==
    /\ at \in [Clients -> Points]
    /\ active \subseteq Clients /\ evict \subseteq Clients /\ released \subseteq Clients
    /\ activity \in [Clients -> 0..MaxInputs] /\ clock \in 0..MaxInputs
    /\ victim \in [Clients -> Clients]
    /\ upstream \subseteq Clients /\ stuck \subseteq StuckOnes
    /\ overdue \subseteq evict /\ attachable \in BOOLEAN

\* The table keeps to the limit; victims are finitely many.
TableBounded ==
    /\ IsFiniteSet(active) /\ Cardinality(active) <= Max
    /\ IsFiniteSet(evict)

\* Where a client is in the handler says whether it has a slot.
Attached == {"waiting", "connect", "connecting", "pump", "tell", "release"}
ClientFits(c) ==
    /\ c \in active => at[c] \in Attached /\ c \notin evict
    /\ c \in evict => at[c] \in Attached \cup {"gone"}
    /\ at[c] \in Attached => c \in active \/ c \in evict
    /\ c \in released => at[c] = "gone"
    /\ c \in upstream => at[c] \in {"pump", "tell"}
    /\ at[c] = "waiting" => victim[c] \in evict
    /\ c \in overdue => at[c] # "waiting"
ClientsFit == \A c \in Clients : ClientFits(c)

\* A victim that still uses its slot and is not given up.
Leaving == evict \ (released \cup overdue)
Waiting == {c \in Clients : at[c] = "waiting"}

\* Its replacement waits for it.
WaitedFor == \A v \in Leaving : \E c \in Waiting : victim[c] = v

IInv == Types /\ TableBounded /\ ClientsFit /\ WaitedFor

-----------------------------------------------------------------------------
(* Each part of the invariant is kept by every step.                       *)

\* Every variable keeps its type.
LEMMA TypesNext ==
    ASSUME Types, ClientsFit, [Next]_vars
    PROVE  Types'
<1> USE GatewayAssumption DEF Types, Points
<1>1. ASSUME NEW c \in Clients, Refused(c) PROVE Types'
  BY <1>1 DEF Refused
<1>2. ASSUME NEW c \in Clients, Reserve(c) PROVE Types'
  BY <1>2 DEF Reserve, Full, LongestIdle
<1>3. ASSUME NEW c \in Clients, WaitForVictim(c) PROVE Types'
  BY <1>3 DEF WaitForVictim, ClientsFit, ClientFits
<1>4. ASSUME NEW c \in Clients, Connect(c) PROVE Types'
  BY <1>4 DEF Connect
<1>5. ASSUME NEW c \in Clients, Connected(c) PROVE Types'
  BY <1>5 DEF Connected
<1>6. ASSUME NEW c \in Clients, PumpEvicted(c) PROVE Types'
  BY <1>6 DEF PumpEvicted
<1>7. ASSUME NEW c \in Clients, Tell(c) PROVE Types'
  BY <1>7 DEF Tell
<1>8. ASSUME NEW c \in Clients, Release(c) PROVE Types'
  BY <1>8 DEF Release
<1>9. ASSUME NEW c \in Clients, Input(c) PROVE Types'
  BY <1>9 DEF Input
<1>10. ASSUME NEW c \in Clients, PumpEnds(c) PROVE Types'
  BY <1>10 DEF PumpEnds
<1>11. ASSUME NEW c \in Clients, Stops(c) PROVE Types'
  BY <1>11 DEF Stops
<1>12. CASE SessionEnds
  BY <1>12 DEF SessionEnds
<1>13. CASE UNCHANGED vars
  BY <1>13 DEF vars
<1>14. QED
  BY <1>1, <1>2, <1>3, <1>4, <1>5, <1>6, <1>7, <1>8, <1>9, <1>10, <1>11, <1>12, <1>13 DEF Next, ServerStep

\* A reservation beyond the limit takes the place of another.
LEMMA TableNext ==
    ASSUME Types, TableBounded, ClientsFit, [Next]_vars
    PROVE  TableBounded'
<1> USE GatewayAssumption DEF Types, TableBounded
<1>1. ASSUME NEW c \in Clients, Refused(c) PROVE TableBounded'
  BY <1>1 DEF Refused
<1>2. ASSUME NEW c \in Clients, Reserve(c) PROVE TableBounded'
  <2>1. c \notin active
    BY <1>2 DEF Reserve, ClientsFit, ClientFits, Attached
  <2>2. Cardinality(active) \in Nat
    BY FS_CardinalityType DEF TableBounded
  <2>3. CASE Full
    <3>1. PICK v \in active : active' = (active \ {v}) \cup {c} /\ evict' = evict \cup {v}
      BY <1>2, <2>3 DEF Reserve
    <3>2. IsFiniteSet(active \ {v}) /\ Cardinality(active \ {v}) = Cardinality(active) - 1
      BY <3>1, FS_RemoveElement DEF TableBounded
    <3>3. IsFiniteSet(active') /\ Cardinality(active') = Cardinality(active \ {v}) + 1
      BY <2>1, <3>1, <3>2, FS_AddElement
    <3>4. IsFiniteSet(evict')
      BY <3>1, FS_AddElement DEF TableBounded
    <3>5. QED
      BY <2>2, <3>2, <3>3, <3>4 DEF TableBounded
  <2>4. CASE ~Full
    <3>1. active' = active \cup {c} /\ evict' = evict
      BY <1>2, <2>4 DEF Reserve
    <3>2. IsFiniteSet(active') /\ Cardinality(active') = Cardinality(active) + 1
      BY <2>1, <3>1, FS_AddElement DEF TableBounded
    <3>3. QED
      BY <2>2, <2>4, <3>1, <3>2 DEF TableBounded, Full
  <2>5. QED
    BY <2>3, <2>4
<1>3. ASSUME NEW c \in Clients, WaitForVictim(c) PROVE TableBounded'
  BY <1>3 DEF WaitForVictim
<1>4. ASSUME NEW c \in Clients, Connect(c) PROVE TableBounded'
  BY <1>4 DEF Connect
<1>5. ASSUME NEW c \in Clients, Connected(c) PROVE TableBounded'
  BY <1>5 DEF Connected
<1>6. ASSUME NEW c \in Clients, PumpEvicted(c) PROVE TableBounded'
  BY <1>6 DEF PumpEvicted
<1>7. ASSUME NEW c \in Clients, Tell(c) PROVE TableBounded'
  BY <1>7 DEF Tell
<1>8. ASSUME NEW c \in Clients, Release(c) PROVE TableBounded'
  <2>1. active' = active \ {c} /\ evict' = evict
    BY <1>8 DEF Release
  <2>2. /\ IsFiniteSet(active') /\ Cardinality(active') \in Nat /\ Cardinality(active) \in Nat
        /\ Cardinality(active') <= Cardinality(active)
    BY <2>1, FS_Subset, FS_CardinalityType DEF TableBounded
  <2>3. QED
    BY <2>1, <2>2 DEF TableBounded
<1>9. ASSUME NEW c \in Clients, Input(c) PROVE TableBounded'
  BY <1>9 DEF Input
<1>10. ASSUME NEW c \in Clients, PumpEnds(c) PROVE TableBounded'
  BY <1>10 DEF PumpEnds
<1>11. ASSUME NEW c \in Clients, Stops(c) PROVE TableBounded'
  BY <1>11 DEF Stops
<1>12. CASE SessionEnds
  BY <1>12 DEF SessionEnds
<1>13. CASE UNCHANGED vars
  BY <1>13 DEF vars
<1>14. QED
  BY <1>1, <1>2, <1>3, <1>4, <1>5, <1>6, <1>7, <1>8, <1>9, <1>10, <1>11, <1>12, <1>13 DEF Next, ServerStep

\* Every client fits its point in the handler.
LEMMA ClientsNext ==
    ASSUME Types, ClientsFit, [Next]_vars
    PROVE  ClientsFit'
<1> USE GatewayAssumption DEF Types, Points, ClientsFit, ClientFits, Attached
<1>1. ASSUME NEW c \in Clients, Refused(c) PROVE ClientsFit'
  BY <1>1 DEF Refused
<1>2. ASSUME NEW c \in Clients, Reserve(c) PROVE ClientsFit'
  BY <1>2 DEF Reserve, Full, LongestIdle
<1>3. ASSUME NEW c \in Clients, WaitForVictim(c) PROVE ClientsFit'
  BY <1>3 DEF WaitForVictim
<1>4. ASSUME NEW c \in Clients, Connect(c) PROVE ClientsFit'
  BY <1>4 DEF Connect
<1>5. ASSUME NEW c \in Clients, Connected(c) PROVE ClientsFit'
  BY <1>5 DEF Connected
<1>6. ASSUME NEW c \in Clients, PumpEvicted(c) PROVE ClientsFit'
  BY <1>6 DEF PumpEvicted
<1>7. ASSUME NEW c \in Clients, Tell(c) PROVE ClientsFit'
  BY <1>7 DEF Tell
<1>8. ASSUME NEW c \in Clients, Release(c) PROVE ClientsFit'
  BY <1>8 DEF Release
<1>9. ASSUME NEW c \in Clients, Input(c) PROVE ClientsFit'
  BY <1>9 DEF Input
<1>10. ASSUME NEW c \in Clients, PumpEnds(c) PROVE ClientsFit'
  BY <1>10 DEF PumpEnds
<1>11. ASSUME NEW c \in Clients, Stops(c) PROVE ClientsFit'
  BY <1>11 DEF Stops
<1>12. CASE SessionEnds
  BY <1>12 DEF SessionEnds
<1>13. CASE UNCHANGED vars
  BY <1>13 DEF vars
<1>14. QED
  BY <1>1, <1>2, <1>3, <1>4, <1>5, <1>6, <1>7, <1>8, <1>9, <1>10, <1>11, <1>12, <1>13 DEF Next, ServerStep

\* A victim that leaves in time is waited for until it has left.
LEMMA WaitedNext ==
    ASSUME Types, ClientsFit, WaitedFor, [Next]_vars
    PROVE  WaitedFor'
<1> USE GatewayAssumption DEF Types, Points, ClientsFit, ClientFits, Attached, WaitedFor, Leaving, Waiting
<1>1. ASSUME NEW c \in Clients, Refused(c) PROVE WaitedFor'
  BY <1>1 DEF Refused
<1>2. ASSUME NEW c \in Clients, Reserve(c) PROVE WaitedFor'
  BY <1>2 DEF Reserve, Full, LongestIdle
<1>3. ASSUME NEW c \in Clients, WaitForVictim(c) PROVE WaitedFor'
  BY <1>3 DEF WaitForVictim
<1>4. ASSUME NEW c \in Clients, Connect(c) PROVE WaitedFor'
  BY <1>4 DEF Connect
<1>5. ASSUME NEW c \in Clients, Connected(c) PROVE WaitedFor'
  BY <1>5 DEF Connected
<1>6. ASSUME NEW c \in Clients, PumpEvicted(c) PROVE WaitedFor'
  BY <1>6 DEF PumpEvicted
<1>7. ASSUME NEW c \in Clients, Tell(c) PROVE WaitedFor'
  BY <1>7 DEF Tell
<1>8. ASSUME NEW c \in Clients, Release(c) PROVE WaitedFor'
  BY <1>8 DEF Release
<1>9. ASSUME NEW c \in Clients, Input(c) PROVE WaitedFor'
  BY <1>9 DEF Input
<1>10. ASSUME NEW c \in Clients, PumpEnds(c) PROVE WaitedFor'
  BY <1>10 DEF PumpEnds
<1>11. ASSUME NEW c \in Clients, Stops(c) PROVE WaitedFor'
  BY <1>11 DEF Stops
<1>12. CASE SessionEnds
  BY <1>12 DEF SessionEnds
<1>13. CASE UNCHANGED vars
  BY <1>13 DEF vars
<1>14. QED
  BY <1>1, <1>2, <1>3, <1>4, <1>5, <1>6, <1>7, <1>8, <1>9, <1>10, <1>11, <1>12, <1>13 DEF Next, ServerStep

\* Nobody is attached at the start.
LEMMA InitIInv == Init => IInv
<1> SUFFICES ASSUME Init PROVE IInv
  OBVIOUS
<1>1. Types
  BY GatewayAssumption DEF Init, Types, Points
<1>2. TableBounded
  BY FS_EmptySet, GatewayAssumption DEF Init, TableBounded
<1>3. ClientsFit
  BY DEF Init, ClientsFit, ClientFits, Attached
<1>4. WaitedFor
  BY DEF Init, WaitedFor, Leaving
<1>5. QED
  BY <1>1, <1>2, <1>3, <1>4 DEF IInv

\* A step keeps all parts.
LEMMA NextIInv == IInv /\ [Next]_vars => IInv'
<1> SUFFICES ASSUME IInv, [Next]_vars PROVE IInv'
  OBVIOUS
<1>1. Types /\ TableBounded /\ ClientsFit /\ WaitedFor
  BY DEF IInv
<1>2. Types' /\ TableBounded' /\ ClientsFit' /\ WaitedFor'
  BY <1>1, TypesNext, TableNext, ClientsNext, WaitedNext
<1>3. QED
  BY <1>2 DEF IInv

LEMMA Invariance == Spec => []IInv
<1>1. QED
  BY InitIInv, NextIInv, PTL DEF Spec

-----------------------------------------------------------------------------
(* Counting the connections to the relay.                                  *)

\* Who holds a slot, or is a victim that leaves in time.
Held == active \cup Leaving

\* The replacement that waits for a victim.
Successor(v) == CHOOSE c \in Waiting : victim[c] = v
Successors == {Successor(v) : v \in Leaving}

\* Each victim that leaves has a replacement of its own, which waits.
LEMMA SuccessorWaits ==
    ASSUME WaitedFor
    PROVE  \A v \in Leaving : Successor(v) \in Waiting /\ victim[Successor(v)] = v
<1> SUFFICES ASSUME NEW v \in Leaving
             PROVE  Successor(v) \in Waiting /\ victim[Successor(v)] = v
  OBVIOUS
<1>1. \E c \in Waiting : victim[c] = v
  BY DEF WaitedFor
<1>2. QED
  BY <1>1 DEF Successor

\* A connection is one of a holder that does not wait.
LEMMA ConnectedHold ==
    ASSUME IInv
    PROVE  /\ Successors \subseteq Held
           /\ upstream \ overdue \subseteq Held \ Successors
<1>1. Types /\ ClientsFit /\ WaitedFor
  BY DEF IInv
<1>2. Successors \subseteq Waiting
  BY <1>1, SuccessorWaits DEF Successors
<1>3. Waiting \subseteq Held
  BY <1>1 DEF Types, ClientsFit, ClientFits, Attached, Waiting, Held, Leaving
<1>4. upstream \ overdue \subseteq Held \ Waiting
  BY <1>1 DEF Types, ClientsFit, ClientFits, Attached, Waiting, Held, Leaving
<1>5. QED
  BY <1>2, <1>3, <1>4

\* So there are at most as many as the table has entries.
LEMMA Counting ==
    ASSUME IInv
    PROVE  IsFiniteSet(upstream \ overdue) /\ Cardinality(upstream \ overdue) <= Max
<1>1. /\ IsFiniteSet(active) /\ Cardinality(active) <= Max
      /\ IsFiniteSet(evict) /\ WaitedFor
  BY DEF IInv, TableBounded
<1>2. IsFiniteSet(Leaving)
  BY <1>1, FS_Subset DEF Leaving
<1>3. /\ IsFiniteSet(Held)
      /\ Cardinality(Held) <= Cardinality(active) + Cardinality(Leaving)
  <2>1. /\ IsFiniteSet(active \cup Leaving)
        /\ Cardinality(active \cup Leaving)
             = Cardinality(active) + Cardinality(Leaving) - Cardinality(active \cap Leaving)
    BY <1>1, <1>2, FS_Union
  <2>2. IsFiniteSet(active \cap Leaving)
    BY <1>1, FS_Subset
  <2>3. /\ Cardinality(active \cap Leaving) \in Nat /\ Cardinality(active) \in Nat
        /\ Cardinality(Leaving) \in Nat
    BY <2>2, <1>1, <1>2, FS_CardinalityType
  <2>4. QED
    BY <2>1, <2>3 DEF Held
<1>4. IsFiniteSet(Successors)
  BY <1>3, ConnectedHold, FS_Subset
<1>5. Cardinality(Leaving) <= Cardinality(Successors)
  <2> DEFINE f == [v \in Leaving |-> Successor(v)]
  <2>1. f \in [Leaving -> Successors]
    BY DEF Successors
  <2>2. \A v, w \in Leaving : f[v] = f[w] => v = w
    BY <1>1, SuccessorWaits
  <2>3. f \in Injection(Leaving, Successors)
    BY <2>1, <2>2 DEF Injection, IsInjective
  <2>4. QED
    BY <1>4, <2>3, FS_Injection
<1>6. /\ IsFiniteSet(Held \ Successors)
      /\ Cardinality(Held \ Successors) = Cardinality(Held) - Cardinality(Successors)
  <2>1. Held \cap Successors = Successors
    BY ConnectedHold
  <2>2. QED
    BY <1>3, <2>1, FS_Difference
<1>7. /\ IsFiniteSet(upstream \ overdue)
      /\ Cardinality(upstream \ overdue) <= Cardinality(Held \ Successors)
  BY <1>6, ConnectedHold, FS_Subset
<1>8. /\ Cardinality(active) \in Nat /\ Cardinality(Leaving) \in Nat
      /\ Cardinality(Held) \in Nat /\ Cardinality(Successors) \in Nat
      /\ Cardinality(upstream \ overdue) \in Nat
  BY <1>1, <1>2, <1>3, <1>4, <1>7, FS_CardinalityType
<1>9. QED
  BY <1>1, <1>3, <1>5, <1>6, <1>7, <1>8, GatewayAssumption

-----------------------------------------------------------------------------
(* The theorems.                                                           *)

\* Every variable keeps its type and the table its limit
\* (_reserve_gateway_attachment).
THEOREM TypeCorrect == Spec => []TypeOK
<1>1. IInv => TypeOK
  BY DEF IInv, Types, TableBounded, TypeOK
<1>2. QED
  BY <1>1, Invariance, PTL

\* The late cleanup of a victim takes nothing from its replacement
\* (_release_gateway_attachment).
THEOREM SlotsAreHeld == Spec => []SlotHeld
<1>1. IInv => SlotHeld
  <2> SUFFICES ASSUME IInv PROVE SlotHeld
    OBVIOUS
  <2>1. QED
    BY DEF IInv, Types, ClientsFit, ClientFits, Attached, SlotHeld
<1>2. QED
  BY <1>1, Invariance, PTL

\* Connections to the relay keep to the limit while victims still leave.
THEOREM LimitIsKept == Spec => []UpstreamsWithinLimit
<1>1. IInv => UpstreamsWithinLimit
  BY Counting DEF UpstreamsWithinLimit
<1>2. QED
  BY <1>1, Invariance, PTL

\* Slots, connections and the table agree, for any clients and limit.
THEOREM AttachmentsStayConsistent == Spec => []AttachmentsConsistent
<1>1. QED
  BY TypeCorrect, SlotsAreHeld, LimitIsKept, PTL DEF AttachmentsConsistent

-----------------------------------------------------------------------------
(* The native client's keys.                                               *)

\* A set of numbers has a smallest one.
LEMMA SmallestOf ==
    ASSUME NEW T, T \subseteq Nat, T # {}
    PROVE  \E x \in T : \A y \in T : x <= y
<1> DEFINE R == {ss \in Nat \X Nat : ss[1] < ss[2]}
<1>1. IsWellFoundedOn(R, Nat)
  BY NatLessThanWellFounded DEF OpToRel
<1> HIDE DEF R
<1>2. PICK x \in T : \A y \in T : <<y, x>> \notin R
  BY <1>1, WFMin
<1>3. \A y \in T : ~(y < x)
  BY <1>2 DEF R
<1>4. QED
  BY <1>3

Key == [n : Nat, kind : Kinds]
InputRec == [state : {"wait", "send", "done", "failed"}, text : Seq(Key),
             then : {""} \cup Client!Controls]

ClientTypes ==
    /\ url \in 1..Urls /\ pc \in {"dial", "attached", "ended"}
    /\ raw \in BOOLEAN /\ sock \in {0, 1006} \cup Codes
    /\ tty \in Seq(Key) /\ queue \in Seq(Seq(Key)) /\ inp \in InputRec
    /\ forwarded \in Seq(Key) /\ seenKeys \in SUBSET Key
    /\ out \in {"run", "select", "error", "closed", "failed"}
    /\ rsz \in {"run", "failed"} /\ cyc \in {"run", "next"}
    /\ size \in {1, 2} /\ last \in {0, 1, 2} /\ shown \in {1, 2}
    /\ typed \in 0..MaxKeys
    /\ result # "none" <=> pc = "ended"
    /\ pc = "attached" => raw = TRUE
    /\ pc # "attached" => raw = FALSE

\* Typed one after the other; all of s before all of t.
Rising(s) == \A i, j \in DOMAIN s : i < j => s[i].n < s[j].n
Before(s, t) == \A i \in DOMAIN s, j \in DOMAIN t : s[i].n < t[j].n
UpTo(s, m) == \A i \in DOMAIN s : s[i].n <= m

\* What was forwarded, what is being sent, the chunks of the queue and what
\* nobody has read yet were typed in this order.
KeysInOrder ==
    /\ Rising(forwarded) /\ Rising(inp.text) /\ Rising(tty)
    /\ \A k \in DOMAIN queue : Rising(queue[k])
    /\ Before(forwarded, inp.text) /\ Before(forwarded, tty) /\ Before(inp.text, tty)
    /\ \A k \in DOMAIN queue :
        /\ Before(forwarded, queue[k]) /\ Before(inp.text, queue[k])
        /\ Before(queue[k], tty)
        /\ UpTo(queue[k], typed)
    /\ \A k, l \in DOMAIN queue : k < l => Before(queue[k], queue[l])
    /\ UpTo(forwarded, typed) /\ UpTo(inp.text, typed) /\ UpTo(tty, typed)

\* The keys the input task has taken come before those it has not, and no two
\* of them are the same one.
SeenFirst ==
    /\ \A x \in seenKeys : x.n <= typed
    /\ \A x \in seenKeys, k \in DOMAIN queue : \A j \in DOMAIN queue[k] : x.n < queue[k][j].n
    /\ \A x \in seenKeys, j \in DOMAIN tty : x.n < tty[j].n
    /\ \A x, y \in seenKeys : x.n = y.n => x = y

\* A key that decides: the first control byte of those taken, typed after all
\* that goes out.
Decides(x) ==
    /\ x \in seenKeys /\ x.kind \in Client!Controls /\ x.kind = inp.then
    /\ \A y \in seenKeys : y.kind \in Client!Controls => x.n <= y.n
    /\ \A i \in DOMAIN forwarded : forwarded[i].n < x.n
    /\ \A i \in DOMAIN inp.text : inp.text[i].n < x.n

ControlsKnown ==
    /\ \A i \in DOMAIN forwarded : forwarded[i].kind = "text"
    /\ \A i \in DOMAIN inp.text : inp.text[i].kind = "text"
    /\ inp.state = "wait" => inp.text = <<>> /\ inp.then = ""
    /\ inp.state = "done" => inp.text = <<>> /\ inp.then # ""
    /\ inp.state \in {"wait", "send"} /\ inp.then = "" =>
        \A x \in seenKeys : x.kind \notin Client!Controls
    /\ inp.state \in {"send", "done"} /\ inp.then # "" => \E x \in seenKeys : Decides(x)
    /\ pc = "ended" /\ cyc = "run" /\ inp.state = "done" /\ result \in Client!Controls
        => result = inp.then

ClientInv == ClientTypes /\ KeysInOrder /\ SeenFirst /\ ControlsKnown

\* What the input task has in hand is a record of its type.
LEMMA InputIs ==
    ASSUME NEW s \in {"wait", "send", "done", "failed"}, NEW t \in Seq(Key),
           NEW c \in {""} \cup Client!Controls
    PROVE  LET x == [state |-> s, text |-> t, then |-> c]
           IN  x \in InputRec /\ x.state = s /\ x.text = t /\ x.then = c
  BY DEF InputRec

\* What the input task does with a chunk: it sends what comes before the first
\* control byte, all of it if there is none.
TakesFrom(x, chunk) ==
    /\ x.state \in {"send", "done"}
    /\ \A j \in DOMAIN x.text :
        j \in DOMAIN chunk /\ x.text[j] = chunk[j] /\ chunk[j].kind = "text"
    /\ x.state = "done" => x.text = <<>> /\ x.then # ""
    /\ x.then = "" => \A j \in DOMAIN chunk : chunk[j].kind \notin Client!Controls
    /\ x.then # "" => \E i \in DOMAIN chunk :
        /\ chunk[i].kind \in Client!Controls /\ chunk[i].kind = x.then
        /\ \A j \in DOMAIN chunk : chunk[j].kind \in Client!Controls => i <= j
        /\ \A j \in DOMAIN x.text : j < i

\* What InputTakes makes of a chunk is what TakesFrom says.
LEMMA TakenIs ==
    ASSUME Client!ClientConstants, NEW chunk \in Seq(Key)
    PROVE  Client!Taken(chunk) \in InputRec /\ TakesFrom(Client!Taken(chunk), chunk)
<1> DEFINE ctl == {i \in DOMAIN chunk : chunk[i].kind \in Client!Controls}
           first == CHOOSE i \in ctl : \A j \in ctl : i <= j
<1>1. /\ Len(chunk) \in Nat /\ DOMAIN chunk = 1..Len(chunk)
      /\ \A j \in DOMAIN chunk : chunk[j] \in Key
  OBVIOUS
<1>2. \A y \in Key : y.kind = "text" \/ y.kind \in Client!Controls
  BY DEF Key, Client!ClientConstants
<1>3. \A j \in DOMAIN chunk : chunk[j].kind = "text" \/ j \in ctl
  BY <1>1, <1>2
<1>4. CASE ctl = {}
  <2>1. Client!Taken(chunk) = [state |-> "send", text |-> chunk, then |-> ""]
    BY <1>4 DEF Client!Taken, Client!FirstControl
  <2>2. ASSUME NEW x, x = [state |-> "send", text |-> chunk, then |-> ""]
        PROVE  x \in InputRec /\ TakesFrom(x, chunk)
    <3>1. x.state = "send" /\ x.text = chunk /\ x.then = "" /\ x \in InputRec
      BY <2>2, InputIs
    <3>2. \A j \in DOMAIN chunk : chunk[j].kind \notin Client!Controls
      BY <1>4
    <3>3. \A j \in DOMAIN chunk : chunk[j].kind = "text"
      BY <1>3, <1>4
    <3>4. QED
      BY <3>1, <3>2, <3>3 DEF TakesFrom
  <2>3. QED
    BY <2>1, <2>2
<1>5. CASE ctl # {}
  <2>0. ctl \subseteq Nat
    BY <1>1
  <2>1. \E i \in ctl : \A j \in ctl : i <= j
    <3> HIDE DEF ctl
    <3>1. QED
      BY <2>0, <1>5, SmallestOf
  <2>2. first \in ctl /\ \A j \in ctl : first <= j
    BY <2>1
  <2>3. Client!FirstControl(chunk) = first
    BY <1>5 DEF Client!FirstControl
  <2> HIDE DEF first
  <2>4. /\ first \in 1..Len(chunk) /\ first # 0 /\ first \in DOMAIN chunk
        /\ chunk[first].kind \in Client!Controls
    BY <1>1, <2>2
  <2>5. chunk[first].kind # ""
    BY <2>4 DEF Client!Controls
  <2>6. \A j \in DOMAIN chunk : chunk[j].kind \in Client!Controls => first <= j
    BY <2>2
  <2> HIDE DEF ctl
  <2>7. CASE first = 1
    <3>1. Client!Taken(chunk) = [state |-> "done", text |-> <<>>, then |-> chunk[first].kind]
      BY <2>3, <2>7 DEF Client!Taken
    <3>2. ASSUME NEW x, x = [state |-> "done", text |-> <<>>, then |-> chunk[first].kind]
          PROVE  x \in InputRec /\ TakesFrom(x, chunk)
      <4>1. /\ x.state = "done" /\ x.text = <<>> /\ x.then = chunk[first].kind
            /\ x \in InputRec
        <5>1. <<>> \in Seq(Key)
          OBVIOUS
        <5>2. QED
          BY <2>4, <3>2, <5>1, InputIs
      <4>2. \A j \in DOMAIN x.text : FALSE
        BY <4>1
      <4>3. QED
        BY <2>4, <2>5, <2>6, <4>1, <4>2 DEF TakesFrom
    <3>3. QED
      BY <3>1, <3>2
  <2>8. CASE first # 1
    <3> DEFINE head == SubSeq(chunk, 1, first - 1)
    <3>1. Client!Taken(chunk) = [state |-> "send", text |-> head, then |-> chunk[first].kind]
      BY <2>3, <2>4, <2>8 DEF Client!Taken
    <3>2. /\ head \in Seq(Key) /\ DOMAIN head = 1..(first - 1)
          /\ \A j \in 1..(first - 1) : head[j] = chunk[j]
      BY <1>1, <2>4
    <3> HIDE DEF head
    <3>3. \A j \in 1..(first - 1) : j \in DOMAIN chunk /\ j \notin ctl /\ j < first
      BY <1>1, <2>2, <2>4
    <3>4. ASSUME NEW x, x = [state |-> "send", text |-> head, then |-> chunk[first].kind]
          PROVE  x \in InputRec /\ TakesFrom(x, chunk)
      <4>1. /\ x.state = "send" /\ x.text = head /\ x.then = chunk[first].kind
            /\ x \in InputRec
        BY <2>4, <3>2, <3>4, InputIs
      <4>2. \A j \in DOMAIN x.text :
              /\ j \in DOMAIN chunk /\ x.text[j] = chunk[j] /\ chunk[j].kind = "text"
              /\ j < first
        BY <1>3, <3>2, <3>3, <4>1
      <4>3. QED
        BY <2>4, <2>5, <2>6, <4>1, <4>2 DEF TakesFrom
    <3>5. QED
      BY <3>1, <3>4
  <2>9. QED
    BY <2>7, <2>8
<1>6. QED
  BY <1>4, <1>5
\* A step that moves no key.
LEMMA KeysFrame ==
    ASSUME ClientInv, UNCHANGED <<tty, queue, inp, forwarded, seenKeys, typed>>,
           ClientTypes',
           (pc' = "ended" /\ cyc' = "run" /\ inp.state = "done"
                /\ result' \in Client!Controls) => result' = inp.then
    PROVE  ClientInv'
<1>1. KeysInOrder'
  BY DEF ClientInv, KeysInOrder, Rising, Before, UpTo
<1>2. SeenFirst'
  BY DEF ClientInv, SeenFirst
<1>3. ASSUME NEW x, Decides(x) PROVE Decides(x)'
  BY <1>3 DEF Decides
<1>4. ControlsKnown'
  BY <1>3 DEF ClientInv, ControlsKnown
<1>5. QED
  BY <1>1, <1>2, <1>4 DEF ClientInv

\* The dialling.
LEMMA NextUrlIs ==
    ASSUME Client!ClientConstants, ClientInv, pc # "ended", Client!NextUrl
    PROVE  /\ url' \in 1..Urls /\ pc' \in {"dial", "ended"}
           /\ result' # "none" <=> pc' = "ended"
           /\ pc' = "ended" => result' \notin Client!Controls
<1>1. CASE url < Urls
  BY <1>1 DEF Client!NextUrl, ClientInv, ClientTypes, Client!ClientConstants
<1>2. CASE ~(url < Urls)
  BY <1>2 DEF Client!NextUrl, ClientInv, ClientTypes, Client!Controls
<1>3. QED
  BY <1>1, <1>2

\* A dial that fails leaves the keys as they are.
LEMMA DialFailsStep ==
    ASSUME Client!ClientConstants, ClientInv, Client!DialFails
    PROVE  ClientInv'
<1>1. /\ pc = "dial"
      /\ UNCHANGED <<raw, sock, tty, queue, inp, forwarded, seenKeys, typed, size, last,
                     shown, out, rsz, cyc>>
  BY DEF Client!DialFails, Client!keys, Client!win
<1>2. /\ url' \in 1..Urls /\ pc' \in {"dial", "ended"}
      /\ result' # "none" <=> pc' = "ended"
      /\ pc' = "ended" => result' \notin Client!Controls
  BY <1>1, NextUrlIs DEF Client!DialFails
<1>3. ClientTypes'
  BY <1>1, <1>2 DEF ClientInv, ClientTypes
<1>4. QED
  BY <1>1, <1>2, <1>3, KeysFrame

\* A new attachment starts with no chunk and no key taken.
LEMMA DialOkStep ==
    ASSUME ClientInv, Client!DialOk
    PROVE  ClientInv'
<1>1. /\ pc = "dial" /\ pc' = "attached" /\ raw' = TRUE /\ sock' = 0
      /\ queue' = <<>> /\ inp' = Client!Idle /\ seenKeys' = {}
      /\ out' = "run" /\ rsz' = "run" /\ cyc' = "run" /\ last' = 0 /\ shown' = 1
      /\ UNCHANGED <<url, tty, forwarded, typed, size, result>>
  BY DEF Client!DialOk
<1>2. <<>> \in Seq(Key) /\ <<>> \in Seq(Seq(Key))
  OBVIOUS
<1>3. /\ inp' \in InputRec /\ inp'.state = "wait" /\ inp'.text = <<>> /\ inp'.then = ""
  BY <1>1, <1>2, InputIs DEF Client!Idle
<1>4. ClientTypes'
  BY <1>1, <1>2, <1>3 DEF ClientInv, ClientTypes
<1>5. DOMAIN <<>> = {}
  OBVIOUS
<1>6. KeysInOrder'
  BY <1>1, <1>3, <1>5 DEF ClientInv, KeysInOrder, Rising, Before, UpTo
<1>7. SeenFirst'
  BY <1>1 DEF SeenFirst
<1>8. ControlsKnown'
  BY <1>1, <1>3, <1>5 DEF ClientInv, ControlsKnown
<1>9. QED
  BY <1>4, <1>6, <1>7, <1>8 DEF ClientInv

\* Steps of the user, the relay and the tasks that move no key.
LEMMA OtherSteps ==
    ASSUME ClientInv,
           \/ Client!Resize \/ Client!CycleRequest
           \/ \E f \in Frames : Client!RelaySends(f)
           \/ \E c \in Codes : Client!RelayCloses(c)
           \/ Client!RelayStops \/ Client!PingTimeout
           \/ Client!OutputFrame \/ Client!OutputEnds \/ Client!ResizeTurn
    PROVE  ClientInv'
<1>1. /\ UNCHANGED <<tty, queue, inp, forwarded, seenKeys, typed, pc, raw, url, result>>
      /\ cyc' = cyc \/ pc # "ended"
  BY DEF Client!Resize, Client!CycleRequest, Client!RelaySends, Client!RelayCloses,
         Client!RelayStops, Client!PingTimeout, Client!OutputFrame, Client!OutputEnds,
         Client!ResizeTurn, Client!keys, Client!conn
<1>2. /\ sock' \in {0, 1006} \cup Codes /\ out' \in {"run", "select", "error", "closed", "failed"}
      /\ rsz' \in {"run", "failed"} /\ cyc' \in {"run", "next"}
  BY DEF Client!Resize, Client!CycleRequest, Client!RelaySends, Client!RelayCloses,
         Client!RelayStops, Client!PingTimeout, Client!OutputFrame, Client!OutputEnds,
         Client!ResizeTurn, Client!keys, Client!conn, Client!win, ClientInv, ClientTypes
<1>3. size' \in {1, 2} /\ last' \in {0, 1, 2} /\ shown' \in {1, 2}
  BY DEF Client!Resize, Client!CycleRequest, Client!RelaySends, Client!RelayCloses,
         Client!RelayStops, Client!PingTimeout, Client!OutputFrame, Client!OutputEnds,
         Client!ResizeTurn, Client!keys, Client!conn, Client!win, ClientInv, ClientTypes
<1>4. ClientTypes'
  BY <1>1, <1>2, <1>3 DEF ClientInv, ClientTypes
<1>5. (pc' = "ended" /\ cyc' = "run" /\ inp.state = "done" /\ result' \in Client!Controls)
        => result' = inp.then
  BY <1>1 DEF ClientInv, ControlsKnown
<1>6. QED
  BY <1>1, <1>4, <1>5, KeysFrame
\* A key is typed: it comes after all the others.
LEMMA TypeStep ==
    ASSUME Client!ClientConstants, ClientInv, NEW k \in Kinds, Client!Type(k)
    PROVE  ClientInv'
<1> DEFINE e == [n |-> typed + 1, kind |-> k]
<1>1. /\ pc # "ended" /\ typed < MaxKeys /\ typed' = typed + 1 /\ tty' = Append(tty, e)
      /\ UNCHANGED <<url, pc, raw, sock, queue, inp, forwarded, seenKeys, size, last,
                     shown, out, rsz, cyc, result>>
  BY DEF Client!Type, Client!conn, Client!win
<1>2. typed \in Nat /\ typed' \in 0..MaxKeys /\ tty \in Seq(Key)
  BY <1>1 DEF ClientInv, ClientTypes, Client!ClientConstants
<1>3. e \in Key /\ e.n = typed + 1
  BY <1>2 DEF Key
<1> HIDE DEF e
<1>4. /\ tty' \in Seq(Key) /\ Len(tty) \in Nat
      /\ DOMAIN tty = 1..Len(tty)
      /\ \A j \in DOMAIN tty' : \/ j \in DOMAIN tty /\ tty'[j] = tty[j]
                                \/ j = Len(tty) + 1 /\ tty'[j].n = typed + 1
  BY <1>1, <1>2, <1>3
<1>5. ClientTypes'
  BY <1>1, <1>2, <1>4 DEF ClientInv, ClientTypes
<1>6. /\ \A i \in DOMAIN forwarded : forwarded[i].n \in Nat /\ forwarded[i].n <= typed
      /\ \A i \in DOMAIN inp.text : inp.text[i].n \in Nat /\ inp.text[i].n <= typed
      /\ \A i \in DOMAIN tty : tty[i].n \in Nat /\ tty[i].n <= typed
      /\ \A l \in DOMAIN queue : \A i \in DOMAIN queue[l] :
            queue[l][i].n \in Nat /\ queue[l][i].n <= typed
      /\ \A x \in seenKeys : x.n \in Nat /\ x.n <= typed
  <2>1. \A x \in Key : x.n \in Nat
    BY DEF Key
  <2>2. \A s \in Seq(Key) : \A i \in DOMAIN s : s[i] \in Key
    OBVIOUS
  <2>3. /\ forwarded \in Seq(Key) /\ inp.text \in Seq(Key) /\ tty \in Seq(Key)
        /\ queue \in Seq(Seq(Key)) /\ seenKeys \in SUBSET Key
    BY DEF ClientInv, ClientTypes, InputRec
  <2>4. \A l \in DOMAIN queue : queue[l] \in Seq(Key)
    BY <2>3
  <2>5. /\ UpTo(forwarded, typed) /\ UpTo(inp.text, typed) /\ UpTo(tty, typed)
        /\ \A l \in DOMAIN queue : UpTo(queue[l], typed)
        /\ \A x \in seenKeys : x.n <= typed
    BY DEF ClientInv, KeysInOrder, SeenFirst
  <2>6. \A s \in Seq(Key) : UpTo(s, typed) =>
            \A i \in DOMAIN s : s[i].n \in Nat /\ s[i].n <= typed
    BY <2>1, <2>2 DEF UpTo
  <2>7. \A x \in seenKeys : x.n \in Nat /\ x.n <= typed
    BY <2>1, <2>3, <2>5
  <2>8. \A l \in DOMAIN queue : \A i \in DOMAIN queue[l] :
            queue[l][i].n \in Nat /\ queue[l][i].n <= typed
    BY <2>4, <2>5, <2>6
  <2>9. QED
    BY <2>3, <2>5, <2>6, <2>7, <2>8
<1>7. Rising(tty')
  <2>1. ASSUME NEW i \in DOMAIN tty', NEW j \in DOMAIN tty', i < j PROVE tty'[i].n < tty'[j].n
    <3>1. i \in DOMAIN tty /\ tty'[i] = tty[i]
      BY <1>4, <2>1
    <3>2. CASE j \in DOMAIN tty /\ tty'[j] = tty[j]
      BY <2>1, <3>1, <3>2 DEF ClientInv, KeysInOrder, Rising
    <3>3. CASE tty'[j].n = typed + 1
      BY <1>2, <1>6, <3>1, <3>3
    <3>4. QED
      BY <1>4, <3>2, <3>3
  <2>2. QED
    BY <2>1 DEF Rising
<1>8. ASSUME NEW s, \A i \in DOMAIN s : s[i].n \in Nat /\ s[i].n <= typed, Before(s, tty)
      PROVE  Before(s, tty') /\ UpTo(s, typed')
  BY <1>1, <1>2, <1>4, <1>8 DEF Before, UpTo
<1>9. UpTo(tty', typed')
  BY <1>1, <1>2, <1>4, <1>6 DEF UpTo
<1>10. KeysInOrder'
  <2>1. /\ Before(forwarded, tty') /\ UpTo(forwarded, typed')
        /\ Before(inp.text, tty') /\ UpTo(inp.text, typed')
        /\ \A l \in DOMAIN queue : Before(queue[l], tty') /\ UpTo(queue[l], typed')
    BY <1>6, <1>8 DEF ClientInv, KeysInOrder
  <2>2. QED
    BY <1>1, <1>7, <1>9, <2>1 DEF ClientInv, KeysInOrder, Rising, Before, UpTo
<1>11. SeenFirst'
  <2>1. \A x \in seenKeys, j \in DOMAIN tty' : x.n < tty'[j].n
    BY <1>2, <1>4, <1>6 DEF ClientInv, SeenFirst
  <2>2. \A x \in seenKeys : x.n <= typed'
    BY <1>1, <1>2, <1>6
  <2>3. QED
    BY <1>1, <2>1, <2>2 DEF ClientInv, SeenFirst
<1>12. ControlsKnown'
  <2>1. ASSUME NEW x, Decides(x) PROVE Decides(x)'
    BY <1>1, <2>1 DEF Decides
  <2>2. QED
    BY <1>1, <2>1 DEF ClientInv, ControlsKnown
<1>13. QED
  BY <1>5, <1>10, <1>11, <1>12 DEF ClientInv

\* What was typed becomes a chunk.
LEMMA ReadStdinStep ==
    ASSUME ClientInv, Client!ReadStdin
    PROVE  ClientInv'
<1>1. /\ pc = "attached" /\ queue' = Append(queue, tty) /\ tty' = <<>>
      /\ UNCHANGED <<url, pc, raw, sock, inp, forwarded, seenKeys, typed, size, last,
                     shown, out, rsz, cyc, result>>
  BY DEF Client!ReadStdin, Client!conn, Client!win
<1>2. tty \in Seq(Key) /\ queue \in Seq(Seq(Key))
  BY DEF ClientInv, ClientTypes
<1>3. /\ queue' \in Seq(Seq(Key)) /\ Len(queue) \in Nat
      /\ DOMAIN queue = 1..Len(queue) /\ DOMAIN tty' = {} /\ tty' \in Seq(Key)
      /\ \A l \in DOMAIN queue' : \/ l \in DOMAIN queue /\ queue'[l] = queue[l]
                                  \/ l = Len(queue) + 1 /\ queue'[l] = tty
  BY <1>1, <1>2
<1>4. ClientTypes'
  BY <1>1, <1>3 DEF ClientInv, ClientTypes
<1>5. ASSUME NEW l \in DOMAIN queue'
      PROVE  /\ Rising(queue'[l]) /\ Before(forwarded, queue'[l])
             /\ Before(inp.text, queue'[l]) /\ UpTo(queue'[l], typed)
             /\ \A x \in seenKeys, j \in DOMAIN queue'[l] : x.n < queue'[l][j].n
  BY <1>3 DEF ClientInv, KeysInOrder, SeenFirst
<1>6. ASSUME NEW l \in DOMAIN queue', NEW m \in DOMAIN queue', l < m
      PROVE  Before(queue'[l], queue'[m])
  <2>1. l \in DOMAIN queue /\ queue'[l] = queue[l]
    <3>1. l \in Nat /\ m \in Nat /\ m <= Len(queue) + 1
      BY <1>3
    <3>2. l # Len(queue) + 1
      BY <1>3, <1>6, <3>1
    <3>3. QED
      BY <1>3, <3>2
  <2>2. CASE m \in DOMAIN queue /\ queue'[m] = queue[m]
    BY <1>6, <2>1, <2>2 DEF ClientInv, KeysInOrder
  <2>3. CASE queue'[m] = tty
    BY <2>1, <2>3 DEF ClientInv, KeysInOrder
  <2>4. QED
    BY <1>3, <2>2, <2>3
<1>7. \A s : Before(s, tty') /\ UpTo(tty', typed) /\ Rising(tty')
  BY <1>3 DEF Before, UpTo, Rising
<1>8. KeysInOrder'
  BY <1>1, <1>5, <1>6, <1>7 DEF ClientInv, KeysInOrder, Rising, Before, UpTo
<1>9. SeenFirst'
  BY <1>1, <1>3, <1>5 DEF ClientInv, SeenFirst
<1>10. ControlsKnown'
  <2>1. ASSUME NEW x, Decides(x) PROVE Decides(x)'
    BY <1>1, <2>1 DEF Decides
  <2>2. QED
    BY <1>1, <2>1 DEF ClientInv, ControlsKnown
<1>11. QED
  BY <1>4, <1>8, <1>9, <1>10 DEF ClientInv
\* The input task takes a chunk.
LEMMA InputTakesStep ==
    ASSUME Client!ClientConstants, ClientInv, Client!InputTakes
    PROVE  ClientInv'
<1> DEFINE chunk == Head(queue)
<1>1. /\ pc = "attached" /\ inp.state = "wait" /\ queue # <<>>
      /\ inp' = Client!Taken(chunk) /\ queue' = Tail(queue)
      /\ seenKeys' = seenKeys \cup {chunk[i] : i \in DOMAIN chunk}
      /\ UNCHANGED <<url, pc, raw, sock, tty, forwarded, typed, size, last,
                     shown, out, rsz, cyc, result>>
  BY DEF Client!InputTakes, Client!conn, Client!win, Client!ToSet
<1>2. tty \in Seq(Key) /\ queue \in Seq(Seq(Key)) /\ seenKeys \in SUBSET Key
  BY DEF ClientInv, ClientTypes
<1>3. /\ queue' \in Seq(Seq(Key)) /\ chunk \in Seq(Key)
      /\ 1 \in DOMAIN queue /\ chunk = queue[1]
      /\ \A l \in DOMAIN queue' : l \in Nat /\ l + 1 \in DOMAIN queue /\ 1 < l + 1
                                    /\ queue'[l] = queue[l + 1]
  BY <1>1, <1>2
<1> HIDE DEF chunk
<1>4. inp' \in InputRec /\ TakesFrom(inp', chunk)
  BY <1>1, <1>3, TakenIs
<1>5. \A i \in DOMAIN chunk : i \in Nat /\ chunk[i] \in Key
  BY <1>3
<1>6. seenKeys' \in SUBSET Key
  BY <1>1, <1>2, <1>5
<1>7. ClientTypes'
  BY <1>1, <1>3, <1>4, <1>6 DEF ClientInv, ClientTypes
<1>8. \A i \in DOMAIN inp'.text :
        i \in DOMAIN chunk /\ inp'.text[i] = chunk[i] /\ chunk[i].kind = "text"
  BY <1>4 DEF TakesFrom
<1>9. /\ Rising(chunk) /\ Before(forwarded, chunk) /\ Before(chunk, tty)
      /\ UpTo(chunk, typed)
      /\ \A l \in DOMAIN queue' : Before(chunk, queue'[l])
      /\ \A x \in seenKeys, i \in DOMAIN chunk : x.n < chunk[i].n
  BY <1>3 DEF ClientInv, KeysInOrder, SeenFirst
<1>10. KeysInOrder'
  <2>1. Rising(inp'.text)
    BY <1>8, <1>9 DEF Rising
  <2>2. Before(forwarded, inp'.text) /\ Before(inp'.text, tty) /\ UpTo(inp'.text, typed)
    BY <1>8, <1>9 DEF Before, UpTo
  <2>3. \A l \in DOMAIN queue' : Before(inp'.text, queue'[l])
    BY <1>8, <1>9 DEF Before
  <2>4. \A l \in DOMAIN queue' :
            /\ Rising(queue'[l]) /\ Before(forwarded, queue'[l])
            /\ Before(queue'[l], tty) /\ UpTo(queue'[l], typed)
    BY <1>3 DEF ClientInv, KeysInOrder
  <2>5. ASSUME NEW l \in DOMAIN queue', NEW m \in DOMAIN queue', l < m
        PROVE  Before(queue'[l], queue'[m])
    <3>1. l + 1 \in DOMAIN queue /\ m + 1 \in DOMAIN queue /\ l + 1 < m + 1
      BY <1>3, <2>5
    <3>2. QED
      BY <1>3, <3>1 DEF ClientInv, KeysInOrder
  <2>6. Rising(forwarded) /\ Rising(tty) /\ Before(forwarded, tty) /\ UpTo(forwarded, typed)
            /\ UpTo(tty, typed)
    BY DEF ClientInv, KeysInOrder
  <2>7. QED
    BY <1>1, <2>1, <2>2, <2>3, <2>4, <2>5, <2>6 DEF KeysInOrder, Rising, Before, UpTo
<1>11. \A x \in seenKeys' : x \in seenKeys \/ \E i \in DOMAIN chunk : x = chunk[i]
  BY <1>1
<1>12. SeenFirst'
  <2>1. \A x \in seenKeys' : x.n <= typed
    BY <1>9, <1>11 DEF ClientInv, SeenFirst, UpTo
  <2>2. \A x \in seenKeys', l \in DOMAIN queue' : \A j \in DOMAIN queue'[l] : x.n < queue'[l][j].n
    <3>1. \A x \in seenKeys, l \in DOMAIN queue' : \A j \in DOMAIN queue'[l] :
                x.n < queue'[l][j].n
      BY <1>3 DEF ClientInv, SeenFirst
    <3>2. QED
      BY <1>9, <1>11, <3>1 DEF Before
  <2>3. \A x \in seenKeys', j \in DOMAIN tty : x.n < tty[j].n
    BY <1>9, <1>11 DEF ClientInv, SeenFirst, Before
  <2>4. ASSUME NEW x \in seenKeys', NEW y \in seenKeys', x.n = y.n PROVE x = y
    <3>0. x.n \in Nat /\ y.n \in Nat
      BY <1>6 DEF Key
    <3>1. CASE x \in seenKeys /\ y \in seenKeys
      BY <2>4, <3>1 DEF ClientInv, SeenFirst
    <3>2. CASE x \in seenKeys /\ y \notin seenKeys
      BY <1>9, <1>11, <2>4, <3>0, <3>2
    <3>3. CASE x \notin seenKeys /\ y \in seenKeys
      BY <1>9, <1>11, <2>4, <3>0, <3>3
    <3>4. CASE x \notin seenKeys /\ y \notin seenKeys
      <4>1. PICK i \in DOMAIN chunk : x = chunk[i]
        BY <1>11, <3>4
      <4>2. PICK j \in DOMAIN chunk : y = chunk[j]
        BY <1>11, <3>4
      <4>3. i < j \/ j < i \/ i = j
        BY <1>5
      <4>4. ~(i < j) /\ ~(j < i)
        BY <1>9, <2>4, <3>0, <4>1, <4>2 DEF Rising
      <4>5. QED
        BY <4>1, <4>2, <4>3, <4>4
    <3>5. QED
      BY <3>1, <3>2, <3>3, <3>4
  <2>5. QED
    BY <1>1, <2>1, <2>2, <2>3, <2>4 DEF SeenFirst
<1>13. \A x \in seenKeys : x.kind \notin Client!Controls
  BY <1>1 DEF ClientInv, ControlsKnown
<1>14. ASSUME inp'.then # "" PROVE \E x \in seenKeys' : Decides(x)'
  <2>1. PICK i \in DOMAIN chunk :
            /\ chunk[i].kind \in Client!Controls /\ chunk[i].kind = inp'.then
            /\ \A j \in DOMAIN chunk : chunk[j].kind \in Client!Controls => i <= j
            /\ \A j \in DOMAIN inp'.text : j < i
    BY <1>4, <1>14 DEF TakesFrom
  <2>2. chunk[i] \in seenKeys' /\ chunk[i] \in Key
    BY <1>1, <1>5
  <2>3. PICK k \in Key : k = chunk[i]
    BY <2>2
  <2>4. /\ k \in seenKeys' /\ k.kind \in Client!Controls /\ k.kind = inp'.then
    BY <2>1, <2>2, <2>3
  <2>5. ASSUME NEW y \in seenKeys', y.kind \in Client!Controls PROVE k.n <= y.n
    <3>1. PICK j \in DOMAIN chunk : y = chunk[j]
      BY <1>11, <1>13, <2>5
    <3>2. i <= j /\ i \in Nat /\ j \in Nat
      BY <1>5, <2>1, <2>5, <3>1
    <3>3. i = j \/ chunk[i].n < chunk[j].n
      BY <1>9, <3>2 DEF Rising
    <3>4. chunk[i].n \in Nat /\ chunk[j].n \in Nat
      BY <1>5 DEF Key
    <3>5. QED
      BY <2>3, <3>1, <3>3, <3>4
  <2>6. \A j \in DOMAIN forwarded : forwarded[j].n < k.n
    BY <1>9, <2>3 DEF Before
  <2>7. \A j \in DOMAIN inp'.text : inp'.text[j].n < k.n
    BY <1>8, <1>9, <2>1, <2>3 DEF Rising
  <2>8. Decides(k)'
    BY <1>1, <2>4, <2>5, <2>6, <2>7 DEF Decides
  <2>9. QED
    BY <2>4, <2>8
<1>15. ASSUME inp'.then = "" PROVE \A x \in seenKeys' : x.kind \notin Client!Controls
  BY <1>4, <1>11, <1>13, <1>15 DEF TakesFrom
<1>16. ControlsKnown'
  <2>1. /\ \A i \in DOMAIN forwarded' : forwarded'[i].kind = "text"
        /\ \A i \in DOMAIN inp'.text : inp'.text[i].kind = "text"
    BY <1>1, <1>8 DEF ClientInv, ControlsKnown
  <2>2. inp'.state \in {"send", "done"}
        /\ (inp'.state = "done" => inp'.text = <<>> /\ inp'.then # "")
    BY <1>4 DEF TakesFrom
  <2>3. pc' # "ended"
    BY <1>1
  <2>4. QED
    BY <1>14, <1>15, <2>1, <2>2, <2>3 DEF ControlsKnown
<1>17. QED
  BY <1>7, <1>10, <1>12, <1>16 DEF ClientInv
\* One sequence after another: where each of its elements comes from.
LEMMA ConcatenationIs ==
    ASSUME NEW s \in Seq(Key), NEW t \in Seq(Key)
    PROVE  /\ s \o t \in Seq(Key) /\ Len(s) \in Nat /\ DOMAIN s = 1..Len(s)
           /\ \A i \in DOMAIN (s \o t) :
                \/ i \in DOMAIN s /\ (s \o t)[i] = s[i]
                \/ /\ i \in Nat /\ i > Len(s) /\ i - Len(s) \in DOMAIN t
                   /\ (s \o t)[i] = t[i - Len(s)]
<1> DEFINE both == s \o t
<1>1. /\ both \in Seq(Key) /\ Len(s) \in Nat /\ Len(t) \in Nat
      /\ DOMAIN s = 1..Len(s) /\ DOMAIN t = 1..Len(t)
  OBVIOUS
<1>2. Len(both) = Len(s) + Len(t)
  OBVIOUS
<1>3. DOMAIN both = 1..(Len(s) + Len(t))
  BY <1>1, <1>2
<1>4. \A i \in 1..(Len(s) + Len(t)) : both[i] = IF i <= Len(s) THEN s[i] ELSE t[i - Len(s)]
  OBVIOUS
<1> HIDE DEF both
<1>5. ASSUME NEW i \in DOMAIN both
      PROVE  \/ i \in DOMAIN s /\ both[i] = s[i]
             \/ /\ i \in Nat /\ i > Len(s) /\ i - Len(s) \in DOMAIN t
                /\ both[i] = t[i - Len(s)]
  BY <1>1, <1>3, <1>4
<1>6. QED
  BY <1>1, <1>5 DEF both

\* The input task sends the text it has in hand, or fails.
LEMMA InputSendsStep ==
    ASSUME ClientInv, Client!InputSends
    PROVE  ClientInv'
<1>1. /\ pc = "attached" /\ inp.state = "send"
      /\ UNCHANGED <<url, pc, raw, sock, tty, queue, seenKeys, typed, size, last,
                     shown, out, rsz, cyc, result>>
  BY DEF Client!InputSends, Client!conn, Client!win
<1>2. /\ tty \in Seq(Key) /\ queue \in Seq(Seq(Key)) /\ inp \in InputRec
      /\ forwarded \in Seq(Key) /\ inp.text \in Seq(Key)
  BY DEF ClientInv, ClientTypes, InputRec
<1>3. CASE /\ sock # 0
           /\ inp' = [inp EXCEPT !.state = "failed"] /\ forwarded' = forwarded
  <2>1. inp' \in InputRec /\ inp'.state = "failed" /\ inp'.text = inp.text /\ inp'.then = inp.then
    BY <1>2, <1>3 DEF InputRec
  <2>2. ClientTypes'
    BY <1>1, <1>3, <2>1 DEF ClientInv, ClientTypes
  <2>3. KeysInOrder' /\ SeenFirst'
    BY <1>1, <1>3, <2>1 DEF ClientInv, KeysInOrder, SeenFirst, Rising, Before, UpTo
  <2>4. ControlsKnown'
    BY <1>1, <1>3, <2>1 DEF ClientInv, ControlsKnown
  <2>5. QED
    BY <2>2, <2>3, <2>4 DEF ClientInv
<1>4. CASE /\ sock = 0 /\ forwarded' = forwarded \o inp.text
           /\ inp' = IF inp.then = "" THEN Client!Idle
                     ELSE [inp EXCEPT !.state = "done", !.text = <<>>]
  <2>1. /\ inp' \in InputRec /\ inp'.text = <<>> /\ inp'.then = inp.then
        /\ inp'.state = IF inp.then = "" THEN "wait" ELSE "done"
    <3>0. <<>> \in Seq(Key)
      OBVIOUS
    <3>1. CASE inp.then = ""
      BY <1>4, <3>0, <3>1, InputIs DEF Client!Idle
    <3>2. CASE inp.then # ""
      BY <1>2, <1>4, <3>0, <3>2 DEF InputRec
    <3>3. QED
      BY <3>1, <3>2
  <2>2. /\ forwarded' \in Seq(Key) /\ Len(forwarded) \in Nat
        /\ DOMAIN forwarded = 1..Len(forwarded)
        /\ \A i \in DOMAIN forwarded' :
            \/ i \in DOMAIN forwarded /\ forwarded'[i] = forwarded[i]
            \/ /\ i \in Nat /\ i > Len(forwarded)
               /\ i - Len(forwarded) \in DOMAIN inp.text
               /\ forwarded'[i] = inp.text[i - Len(forwarded)]
    BY <1>2, <1>4, ConcatenationIs
  <2>3. ClientTypes'
    <3>1. /\ tty' \in Seq(Key) /\ queue' \in Seq(Seq(Key)) /\ inp' \in InputRec
          /\ forwarded' \in Seq(Key) /\ seenKeys' \in SUBSET Key /\ typed' \in 0..MaxKeys
      BY <1>1, <2>1, <2>2 DEF ClientInv, ClientTypes
    <3>2. /\ out' \in {"run", "select", "error", "closed", "failed"}
          /\ rsz' \in {"run", "failed"} /\ cyc' \in {"run", "next"}
          /\ size' \in {1, 2} /\ last' \in {0, 1, 2} /\ shown' \in {1, 2}
          /\ sock' \in {0, 1006} \cup Codes
      BY <1>1 DEF ClientInv, ClientTypes
    <3>3. /\ url' \in 1..Urls /\ pc' \in {"dial", "attached", "ended"}
          /\ result' # "none" <=> pc' = "ended"
      BY <1>1 DEF ClientInv, ClientTypes
    <3>4. /\ raw' \in BOOLEAN
          /\ pc' = "attached" => raw' = TRUE
          /\ pc' # "attached" => raw' = FALSE
      BY <1>1 DEF ClientInv, ClientTypes
    <3>5. QED
      BY <3>1, <3>2, <3>3, <3>4 DEF ClientTypes
  <2>4. \A i \in DOMAIN forwarded' : \/ \E j \in DOMAIN forwarded : forwarded'[i] = forwarded[j]
                                     \/ \E j \in DOMAIN inp.text : forwarded'[i] = inp.text[j]
    BY <2>2
  <2>5. Rising(forwarded')
    <3>1. ASSUME NEW i \in DOMAIN forwarded', NEW j \in DOMAIN forwarded', i < j
          PROVE  forwarded'[i].n < forwarded'[j].n
      <4>1. CASE j \in DOMAIN forwarded /\ forwarded'[j] = forwarded[j]
        <5>1. i \in DOMAIN forwarded /\ forwarded'[i] = forwarded[i]
          BY <2>2, <3>1, <4>1
        <5>2. QED
          BY <3>1, <4>1, <5>1 DEF ClientInv, KeysInOrder, Rising
      <4>2. CASE /\ j - Len(forwarded) \in DOMAIN inp.text
                 /\ forwarded'[j] = inp.text[j - Len(forwarded)]
        <5>1. CASE i \in DOMAIN forwarded /\ forwarded'[i] = forwarded[i]
          BY <4>2, <5>1 DEF ClientInv, KeysInOrder, Before
        <5>2. CASE /\ i - Len(forwarded) \in DOMAIN inp.text
                   /\ forwarded'[i] = inp.text[i - Len(forwarded)]
                   /\ i \in Nat /\ i > Len(forwarded)
          <6>1. j \in Nat
            BY <2>2
          <6>2. i - Len(forwarded) < j - Len(forwarded)
            BY <2>2, <3>1, <5>2, <6>1
          <6>3. QED
            BY <4>2, <5>2, <6>2 DEF ClientInv, KeysInOrder, Rising
        <5>3. QED
          BY <2>2, <5>1, <5>2
      <4>3. QED
        BY <2>2, <4>1, <4>2
    <3>2. QED
      BY <3>1 DEF Rising
  <2>6. ASSUME NEW t, Before(forwarded, t), Before(inp.text, t) PROVE Before(forwarded', t)
    BY <2>4, <2>6 DEF Before
  <2>7. UpTo(forwarded', typed)
    BY <2>4 DEF ClientInv, KeysInOrder, UpTo
  <2>8. DOMAIN inp'.text = {}
    <3>1. inp'.text = <<>>
      BY <2>1
    <3>2. DOMAIN <<>> = {}
      OBVIOUS
    <3>3. QED
      BY <3>1, <3>2
  <2>9. \A t : Before(forwarded', inp'.text) /\ Before(inp'.text, t) /\ Rising(inp'.text)
                    /\ UpTo(inp'.text, typed)
    BY <2>8 DEF Before, Rising, UpTo
  <2>10. KeysInOrder'
    <3>1. /\ Before(forwarded', tty)
          /\ \A l \in DOMAIN queue : Before(forwarded', queue[l])
      BY <2>6 DEF ClientInv, KeysInOrder
    <3>2. QED
      BY <1>1, <2>5, <2>7, <2>9, <3>1 DEF ClientInv, KeysInOrder, Rising, Before, UpTo
  <2>11. SeenFirst'
    BY <1>1 DEF ClientInv, SeenFirst
  <2>12. ASSUME NEW x, Decides(x) PROVE Decides(x)'
    BY <1>1, <2>1, <2>4, <2>8, <2>12 DEF Decides
  <2>13. \A i \in DOMAIN forwarded' : forwarded'[i].kind = "text"
    <3>1. /\ \A i \in DOMAIN forwarded : forwarded[i].kind = "text"
          /\ \A i \in DOMAIN inp.text : inp.text[i].kind = "text"
      BY DEF ClientInv, ControlsKnown
    <3>2. QED
      BY <2>4, <3>1
  <2>14. ControlsKnown'
    <3>1. /\ inp'.text = <<>> /\ inp'.then = inp.then /\ inp'.state \in {"wait", "done"}
          /\ inp'.state = "wait" <=> inp.then = ""
      BY <2>1
    <3>2. inp.then = "" => \A x \in seenKeys : x.kind \notin Client!Controls
      BY <1>1 DEF ClientInv, ControlsKnown
    <3>3. inp.then # "" => \E x \in seenKeys' : Decides(x)'
      <4>1. ASSUME inp.then # "" PROVE \E x \in seenKeys' : Decides(x)'
        <5>1. PICK x \in seenKeys : Decides(x)
          BY <1>1, <4>1 DEF ClientInv, ControlsKnown
        <5>2. QED
          BY <1>1, <2>12, <5>1
      <4>2. QED
        BY <4>1
    <3>4. QED
      BY <1>1, <2>8, <2>13, <3>1, <3>2, <3>3 DEF ControlsKnown
  <2>15. QED
    BY <2>3, <2>10, <2>11, <2>14 DEF ClientInv
<1>5. QED
  BY <1>3, <1>4 DEF Client!InputSends

\* The attachment looks at its tasks: it ends with what the input task
\* returned when that one is done, unless the transport failed.
LEMMA CollectStep ==
    ASSUME Client!ClientConstants, ClientInv, Client!Collect
    PROVE  ClientInv'
<1>1. /\ pc = "attached" /\ raw' = FALSE
      /\ UNCHANGED <<sock, tty, queue, inp, forwarded, seenKeys, typed, size, last,
                     shown, out, rsz, cyc>>
  BY DEF Client!Collect, Client!RawAfter, Client!keys, Client!win
<1>2. CASE Client!Decision = "transport"
  <2>1. Client!NextUrl
    BY <1>2 DEF Client!Collect
  <2>2. /\ url' \in 1..Urls /\ pc' \in {"dial", "ended"}
        /\ result' # "none" <=> pc' = "ended"
        /\ pc' = "ended" => result' \notin Client!Controls
    BY <1>1, <2>1, NextUrlIs
  <2>3. ClientTypes'
    <3>1. /\ tty' \in Seq(Key) /\ queue' \in Seq(Seq(Key)) /\ inp' \in InputRec
          /\ forwarded' \in Seq(Key) /\ seenKeys' \in SUBSET Key /\ typed' \in 0..MaxKeys
      BY <1>1 DEF ClientInv, ClientTypes
    <3>2. /\ out' \in {"run", "select", "error", "closed", "failed"}
          /\ rsz' \in {"run", "failed"} /\ cyc' \in {"run", "next"}
          /\ size' \in {1, 2} /\ last' \in {0, 1, 2} /\ shown' \in {1, 2}
          /\ sock' \in {0, 1006} \cup Codes
      BY <1>1 DEF ClientInv, ClientTypes
    <3>3. /\ url' \in 1..Urls /\ pc' \in {"dial", "attached", "ended"}
          /\ result' # "none" <=> pc' = "ended"
      BY <1>1, <2>2 DEF ClientInv, ClientTypes
    <3>4. /\ raw' \in BOOLEAN
          /\ pc' = "attached" => raw' = TRUE
          /\ pc' # "attached" => raw' = FALSE
      BY <1>1, <2>2 DEF ClientInv, ClientTypes
    <3>5. QED
      BY <3>1, <3>2, <3>3, <3>4 DEF ClientTypes
  <2>4. QED
    BY <1>1, <2>2, <2>3, KeysFrame
<1>3. CASE Client!Decision # "transport"
  <2>1. pc' = "ended" /\ result' = Client!Decision /\ url' = url
    BY <1>3 DEF Client!Collect
  <2>2. /\ inp.state \in {"wait", "send", "done", "failed"}
        /\ inp.state = "done" => inp.then \in Client!Controls
    BY DEF ClientInv, ClientTypes, ControlsKnown, InputRec
  <2>3. result' # "none"
    BY <2>1, <2>2 DEF Client!Decision, Client!Controls, ClientInv, ClientTypes
  <2>4. (cyc = "run" /\ inp.state = "done" /\ result' \in Client!Controls) => result' = inp.then
    BY <1>3, <2>1, <2>2 DEF Client!Decision, Client!Controls
  <2>5. ClientTypes'
    <3>1. /\ tty' \in Seq(Key) /\ queue' \in Seq(Seq(Key)) /\ inp' \in InputRec
          /\ forwarded' \in Seq(Key) /\ seenKeys' \in SUBSET Key /\ typed' \in 0..MaxKeys
      BY <1>1 DEF ClientInv, ClientTypes
    <3>2. /\ out' \in {"run", "select", "error", "closed", "failed"}
          /\ rsz' \in {"run", "failed"} /\ cyc' \in {"run", "next"}
          /\ size' \in {1, 2} /\ last' \in {0, 1, 2} /\ shown' \in {1, 2}
          /\ sock' \in {0, 1006} \cup Codes
      BY <1>1 DEF ClientInv, ClientTypes
    <3>3. /\ url' \in 1..Urls /\ pc' \in {"dial", "attached", "ended"}
          /\ result' # "none" <=> pc' = "ended"
      BY <1>1, <2>1, <2>3 DEF ClientInv, ClientTypes
    <3>4. /\ raw' \in BOOLEAN
          /\ pc' = "attached" => raw' = TRUE
          /\ pc' # "attached" => raw' = FALSE
      BY <1>1, <2>1, <2>3 DEF ClientInv, ClientTypes
    <3>5. QED
      BY <3>1, <3>2, <3>3, <3>4 DEF ClientTypes
  <2>6. QED
    BY <1>1, <2>1, <2>4, <2>5, KeysFrame
<1>4. QED
  BY <1>2, <1>3

\* Every step of the client keeps its invariant, one case for each action.
LEMMA ClientStepKeeps ==
    ASSUME Client!ClientConstants, ClientInv, [Client!Next]_(Client!vars)
    PROVE  ClientInv'
<1>1. ASSUME UNCHANGED Client!vars PROVE ClientInv'
  <2>1. UNCHANGED <<url, pc, raw, sock, tty, queue, inp, forwarded, seenKeys, typed, size,
                    last, shown, out, rsz, cyc, result>>
    BY <1>1 DEF Client!vars, Client!conn, Client!keys, Client!win
  <2>2. ClientTypes'
    BY <2>1 DEF ClientInv, ClientTypes
  <2>3. (pc' = "ended" /\ cyc' = "run" /\ inp.state = "done" /\ result' \in Client!Controls)
            => result' = inp.then
    BY <2>1 DEF ClientInv, ControlsKnown
  <2>4. QED
    BY <2>1, <2>2, <2>3, KeysFrame
<1>2. CASE Client!ClientStep
  BY <1>2, DialOkStep, DialFailsStep, OtherSteps, ReadStdinStep, InputTakesStep,
     InputSendsStep, CollectStep DEF Client!ClientStep
<1>3. CASE Client!Next
  BY <1>1, <1>2, <1>3, TypeStep, OtherSteps DEF Client!Next, Client!Finished
<1>4. QED
  BY <1>1, <1>3

\* The invariant of the client holds at the start.
LEMMA ClientStarts ==
    ASSUME Client!ClientConstants, Client!Init
    PROVE  ClientInv
<1>1. <<>> \in Seq(Key) /\ <<>> \in Seq(Seq(Key)) /\ DOMAIN <<>> = {}
  OBVIOUS
<1>2. Client!Idle \in InputRec /\ Client!Idle.state = "wait" /\ Client!Idle.text = <<>>
        /\ Client!Idle.then = ""
  BY <1>1, InputIs DEF Client!Idle
<1>3. ClientTypes
  <2>1. /\ url \in 1..Urls /\ pc \in {"dial", "attached", "ended"}
        /\ sock \in {0, 1006} \cup Codes
    BY DEF Client!Init, Client!ClientConstants
  <2>2. /\ tty \in Seq(Key) /\ queue \in Seq(Seq(Key))
        /\ forwarded \in Seq(Key)
    BY <1>1 DEF Client!Init
  <2>3. inp \in InputRec /\ seenKeys \in SUBSET Key
    BY <1>2 DEF Client!Init
  <2>4. /\ out \in {"run", "select", "error", "closed", "failed"}
        /\ rsz \in {"run", "failed"} /\ cyc \in {"run", "next"}
    BY DEF Client!Init
  <2>5. /\ size \in {1, 2} /\ last \in {0, 1, 2} /\ shown \in {1, 2}
        /\ typed \in 0..MaxKeys
    BY DEF Client!Init, Client!ClientConstants
  <2>6. result # "none" <=> pc = "ended"
    BY DEF Client!Init
  <2>7. /\ raw \in BOOLEAN 
        /\ pc = "attached" => raw = TRUE
        /\ pc # "attached" => raw = FALSE
    BY DEF Client!Init
  <2>8. QED
    BY <2>1, <2>2, <2>3, <2>4, <2>5, <2>6, <2>7 DEF ClientTypes
<1>4. KeysInOrder /\ SeenFirst /\ ControlsKnown
  BY <1>1, <1>2 DEF Client!Init, KeysInOrder, SeenFirst, ControlsKnown, Rising, Before, UpTo
<1>5. QED
  BY <1>3, <1>4 DEF ClientInv

\* What the run checks follows from the invariant.
LEMMA ClientInvSays ==
    ASSUME ClientInv
    PROVE  Client!KeysConsistent
<1>1. Client!TypeOK
  <2>1. raw = (pc = "attached")
    <3>1. CASE pc = "attached"
      BY <3>1, Zenon DEF ClientInv, ClientTypes
    <3>2. CASE pc # "attached"
      <4>1. raw = FALSE
        BY <3>2 DEF ClientInv, ClientTypes
      <4>2. QED
        BY <3>2, <4>1, Zenon
    <3>3. QED
      BY <3>1, <3>2
  <2>2. inp.state \in {"wait", "send", "done", "failed"}
    BY DEF ClientInv, ClientTypes, InputRec
  <2>3. (result # "none") = (pc = "ended")
    BY Zenon DEF ClientInv, ClientTypes
  <2>4. QED
    BY <2>1, <2>2, <2>3 DEF ClientInv, ClientTypes, Client!TypeOK
<1>2. Client!ForwardedInOrder
  BY DEF ClientInv, ControlsKnown, KeysInOrder, Rising, Client!ForwardedInOrder
<1>3. Client!FirstControlDecides
  <2> SUFFICES ASSUME pc = "ended", cyc = "run", inp.state = "done", result \in Client!Controls
               PROVE  LET ctl == {k \in seenKeys : k.kind \in Client!Controls}
                          first == CHOOSE k \in ctl : \A o \in ctl : k.n <= o.n
                      IN  /\ ctl # {}
                          /\ result = first.kind
                          /\ \A i \in DOMAIN forwarded : forwarded[i].n < first.n
    BY DEF Client!FirstControlDecides
  <2> DEFINE ctl == {k \in seenKeys : k.kind \in Client!Controls}
             first == CHOOSE k \in ctl : \A o \in ctl : k.n <= o.n
  <2>1. result = inp.then /\ inp.then # ""
    BY DEF ClientInv, ControlsKnown
  <2>2. PICK x \in seenKeys : Decides(x)
    BY <2>1 DEF ClientInv, ControlsKnown
  <2>3. x \in ctl /\ \A o \in ctl : x.n <= o.n
    BY <2>2 DEF Decides
  <2>4. first \in ctl /\ \A o \in ctl : first.n <= o.n
    BY <2>3
  <2> HIDE DEF first
  <2>5. \A y \in ctl : y \in seenKeys /\ y.n \in Nat
    BY DEF ClientInv, ClientTypes, Key
  <2>6. first.n = x.n
    BY <2>3, <2>4, <2>5
  <2>7. first = x
    BY <2>3, <2>4, <2>5, <2>6 DEF ClientInv, SeenFirst
  <2>8. ctl # {} /\ result = first.kind /\ \A i \in DOMAIN forwarded : forwarded[i].n < first.n
    BY <2>1, <2>2, <2>3, <2>7 DEF Decides
  <2>9. QED
    BY <2>8 DEF first
<1>4. QED
  BY <1>1, <1>2, <1>3 DEF Client!KeysConsistent

\* Whatever the user types, the relays send and how they end, and in whatever
\* order the tasks of an attachment finish: what is forwarded was typed in that
\* order, at most once and is text, and an attachment that the user ended was
\* ended by the first control byte taken (attach_terminal, _send_input).
THEOREM KeysStayConsistent == Client!Spec => []KeysConsistent
<1>1. Client!Init => ClientInv
  BY ClientAssumption, ClientStarts
<1>2. ClientInv /\ [Client!Next]_(Client!vars) => ClientInv'
  BY ClientAssumption, ClientStepKeeps
<1>3. ClientInv => KeysConsistent
  BY ClientInvSays DEF KeysConsistent
<1>4. QED
  BY <1>1, <1>2, <1>3, PTL DEF Client!Spec

-----------------------------------------------------------------------------
(* The two together.  A step of the whole is a step of one of the parts    *)
(* and a stutter of the other.                                             *)

\* The gateway moves as its specification says.
LEMMA GatewayPart == AllSpec => Spec
<1>1. AllInit => Init
  BY DEF AllInit
<1>2. [AllNext]_allVars => [Next]_vars
  BY DEF AllNext, ClientMoves, allVars
<1>3. QED
  BY <1>1, <1>2, PTL DEF AllSpec, Spec

\* The client moves as its specification says.
LEMMA ClientPart == AllSpec => Client!Spec
<1>1. AllInit => Client!Init
  BY DEF AllInit
<1>2. [AllNext]_allVars => [Client!Next]_(Client!vars)
  BY DEF AllNext, GatewayMoves, allVars, clientVars, Client!vars, Client!conn,
     Client!keys, Client!win
<1>3. QED
  BY <1>1, <1>2, PTL DEF AllSpec, Client!Spec

\* The table of attachments, their slots and the connections to the relay agree
\* (_reserve_gateway_attachment, _release_gateway_attachment).
THEOREM GatewayIsConsistent == AllSpec => []AttachmentsConsistent
  BY GatewayPart, AttachmentsStayConsistent, PTL

\* Keys arrive in order and once, and the first control taken ends the
\* attachment, whatever the gateway does (attach_terminal, _send_input).
THEOREM KeysAreConsistent == AllSpec => []KeysConsistent
  BY ClientPart, KeysStayConsistent, PTL
=============================================================================
