------------------------- MODULE GatewayAttachments -------------------------
(***************************************************************************)
(* Terminal attachments through the orchestrator's gateway (heartbeat.py): *)
(* reservation with replacement of the longest-idle attachment, the pump   *)
(* between the client and the relay, and the release.  One Pi session; the *)
(* reservations of different sessions never meet.                          *)
(***************************************************************************)
EXTENDS Naturals, FiniteSets

CONSTANTS
    Clients,    \* WebSocket connections; each is one attachment
    Max,        \* pi_gateway_max_per_session
    MaxInputs,  \* bound on activity
    StuckOnes   \* clients that may stop reading without closing

ASSUME GatewayAssumption ==
    /\ Max \in Nat \ {0} /\ MaxInputs \in Nat
    /\ StuckOnes \subseteq Clients

VARIABLES
    at,          \* client -> point of pi_session_attach_gateway
    active,      \* pi_gateway_attachments of the session
    activity,    \* client -> last_activity
    clock,
    evict,       \* clients whose evict event is set
    released,    \* clients whose released event is set
    victim,      \* client -> whom it replaced, or itself
    upstream,    \* clients with an open connection to the relay
    stuck,       \* clients that no longer read
    overdue,     \* history: victims whose replacement stopped waiting for them
    attachable   \* what build_pi_attach_info says

vars == <<at, active, activity, clock, evict, released, victim, upstream, stuck, overdue, attachable>>

Points == {"idle", "waiting", "connect", "connecting", "pump", "tell", "release", "gone"}

Init ==
    /\ at = [c \in Clients |-> "idle"]
    /\ active = {}
    /\ activity = [c \in Clients |-> 0]
    /\ clock = 0
    /\ evict = {} /\ released = {}
    /\ victim = [c \in Clients |-> c]
    /\ upstream = {}
    /\ stuck = {} /\ overdue = {}
    /\ attachable = TRUE

\* resolve_pi_attach_info: the session is unknown, over or has no relay.
Refused(c) ==
    /\ at[c] = "idle" /\ ~attachable
    /\ at' = [at EXCEPT ![c] = "gone"]
    /\ UNCHANGED <<active, activity, clock, evict, released, victim, upstream, stuck, overdue, attachable>>

\* The longest-idle attachment; ids break ties.
LongestIdle(v) == v \in active /\ \A u \in active : activity[v] <= activity[u]

Full == Cardinality(active) >= Max

\* _reserve_gateway_attachment, in one hold of the lock.
Reserve(c) ==
    /\ at[c] = "idle" /\ attachable
    /\ activity' = [activity EXCEPT ![c] = clock]
    /\ IF Full
       THEN \E v \in active :
            /\ LongestIdle(v)
            /\ active' = (active \ {v}) \cup {c}
            /\ evict' = evict \cup {v}
            /\ victim' = [victim EXCEPT ![c] = v]
            /\ at' = [at EXCEPT ![c] = "waiting"]
       ELSE /\ active' = active \cup {c}
            /\ at' = [at EXCEPT ![c] = "connect"]
            /\ UNCHANGED <<evict, victim>>
    /\ UNCHANGED <<clock, released, upstream, stuck, overdue, attachable>>

\* victim.released.wait(), for at most three seconds. A victim that is itself
\* waiting began earlier, so that its three seconds are over first.
WaitForVictim(c) ==
    /\ at[c] = "waiting"
    /\ at' = [at EXCEPT ![c] = "connect"]
    /\ \/ victim[c] \in released /\ UNCHANGED overdue
       \/ at[victim[c]] # "waiting" /\ overdue' = overdue \cup {victim[c]}
    /\ UNCHANGED <<active, activity, clock, evict, released, victim, upstream, stuck, attachable>>

\* An attachment replaced while it waited does not connect.
Connect(c) ==
    /\ at[c] = "connect"
    /\ at' = [at EXCEPT ![c] = IF c \in evict THEN "tell" ELSE "connecting"]
    /\ UNCHANGED <<active, activity, clock, evict, released, victim, upstream, stuck, overdue, attachable>>

\* websocket_connect to the relay.
Connected(c) ==
    /\ at[c] = "connecting"
    /\ \/ /\ attachable
          /\ at' = [at EXCEPT ![c] = "pump"]
          /\ upstream' = upstream \cup {c}
       \/ /\ at' = [at EXCEPT ![c] = "tell"]
          /\ UNCHANGED upstream
    /\ UNCHANGED <<active, activity, clock, evict, released, victim, stuck, overdue, attachable>>

\* note_client_frame: input and changed sizes count, output does not.
Input(c) ==
    /\ at[c] = "pump" /\ c \notin stuck /\ clock < MaxInputs
    /\ clock' = clock + 1
    /\ activity' = [activity EXCEPT ![c] = clock']
    /\ UNCHANGED <<at, active, evict, released, victim, upstream, stuck, overdue, attachable>>

\* _pump_terminal_gateway ends with the first of its three tasks: the client
\* or the relay closes or fails, at any time.
PumpEnds(c) ==
    /\ at[c] = "pump"
    /\ at' = [at EXCEPT ![c] = "tell"]
    /\ UNCHANGED <<active, activity, clock, evict, released, victim, upstream, stuck, overdue, attachable>>

\* The eviction task is one of the three.
PumpEvicted(c) ==
    /\ at[c] = "pump" /\ c \in evict
    /\ at' = [at EXCEPT ![c] = "tell"]
    /\ UNCHANGED <<active, activity, clock, evict, released, victim, upstream, stuck, overdue, attachable>>

\* The client is told, and the connection to the relay is closed: sends to a
\* client that no longer reads do not return.
Tell(c) ==
    /\ at[c] = "tell" /\ c \notin stuck
    /\ upstream' = upstream \ {c}
    /\ at' = [at EXCEPT ![c] = "release"]
    /\ UNCHANGED <<active, activity, clock, evict, released, victim, stuck, overdue, attachable>>

\* _release_gateway_attachment: this attachment only.
ReleaseVictims(c) ==
    /\ at[c] = "release"
    /\ active' = active \ ({c} \cup {d \in Clients : victim[d] = c})
    /\ released' = released \cup {c}
    /\ at' = [at EXCEPT ![c] = "gone"]
    /\ UNCHANGED <<activity, clock, evict, victim, upstream, stuck, overdue, attachable>>

Release(c) ==
    /\ at[c] = "release"
    /\ active' = active \ {c}
    /\ released' = released \cup {c}
    /\ at' = [at EXCEPT ![c] = "gone"]
    /\ UNCHANGED <<activity, clock, evict, victim, upstream, stuck, overdue, attachable>>

\* The client keeps its connection and stops reading.
Stops(c) ==
    /\ c \in StuckOnes \ stuck /\ at[c] = "pump"
    /\ stuck' = stuck \cup {c}
    /\ UNCHANGED <<at, active, activity, clock, evict, released, victim, upstream, overdue, attachable>>

\* The session ends, or its relay goes away.
SessionEnds ==
    /\ attachable
    /\ attachable' = FALSE
    /\ UNCHANGED <<at, active, activity, clock, evict, released, victim, upstream, stuck, overdue>>

ServerStep(c) ==
    \/ WaitForVictim(c) \/ Connect(c) \/ Connected(c) \/ PumpEvicted(c) \/ Tell(c) \/ Release(c)

Next ==
    \/ \E c \in Clients :
        Refused(c) \/ Reserve(c) \/ ServerStep(c) \/ Input(c) \/ PumpEnds(c) \/ Stops(c)
    \/ SessionEnds

Spec == Init /\ [][Next]_vars
\* The handlers go on.
FairSpec == Spec /\ WF_vars(\E c \in Clients : ServerStep(c))

-----------------------------------------------------------------------------
(* Properties *)

\* Every variable is of its type.
TypeOK ==
    /\ at \in [Clients -> Points]
    /\ active \subseteq Clients /\ evict \subseteq Clients /\ released \subseteq Clients
    /\ Cardinality(active) <= Max
    /\ activity \in [Clients -> 0..MaxInputs] /\ clock \in 0..MaxInputs
    /\ victim \in [Clients -> Clients]
    /\ upstream \subseteq Clients /\ stuck \subseteq StuckOnes
    /\ overdue \subseteq evict /\ attachable \in BOOLEAN

\* An attachment under way has its slot or has been told to go; the cleanup
\* of a victim, however late, never takes the slot of its replacement.
SlotHeld ==
    \A c \in Clients :
        /\ at[c] \in {"waiting", "connect", "connecting", "pump"} => c \in active \/ c \in evict
        /\ at[c] = "gone" => c \notin active

\* The relay never has more connections of a session than the gateway's
\* limit, also while a victim is still being told, except for the victims
\* that did not leave within the three seconds their replacement waits.
UpstreamsWithinLimit == Cardinality(upstream \ overdue) <= Max

\* A newcomer is not kept waiting by a victim that does not go (a connection
\* attaches once, so that it waits in the end or never again).
NewcomerProceeds == <>[](\A c \in Clients : at[c] # "waiting")

\* A replaced attachment that reads its messages is gone in the end.
EvictedLeaves == <>[](\A c \in evict : at[c] = "gone" \/ c \in stuck)

\* Slots and connections stay within the limit, and each attachment under way
\* has its slot (_reserve_gateway_attachment, _release_gateway_attachment).
AttachmentsConsistent ==
    /\ TypeOK
    /\ SlotHeld
    /\ UpstreamsWithinLimit
=============================================================================
