--------------------------- MODULE PiBridgeProofs ---------------------------
(* Proofs about PiBridge, for any set of commands, messages, kinds of        *)
(* session, any number of incarnations, losses and requests in flight: the   *)
(* invariants that make up SessionConsistent, OnlyAnAnswerUnblocks, and that *)
(* the queue of commands implements CommandDelivery.                         *)
EXTENDS PiBridge, TLAPS

-----------------------------------------------------------------------------
(* The inductive invariant.                                                  *)

\* A bridge is ready only while it runs, it runs as an incarnation, and no
\* request comes from an incarnation that was not started yet.
BridgeRuns ==
    /\ bridge.ready => bridge.up
    /\ bridge.up => bridge.inc # 0
    /\ \A k \in calls : k.inc <= bridge.inc

\* An incarnation acknowledges only what reached it.
AcksWereGiven ==
    /\ \A k \in calls : \A c \in k.cmds : c \in got[k.inc]
    /\ \A c \in bridge.unacked : bridge.inc # 0 /\ c \in got[bridge.inc]

\* A settled command was settled by an incarnation that has received it.
SettledWasGiven ==
    \A c \in Commands : cmd[c].at = "delivered" =>
        cmd[c].by # None /\ c \in got[cmd[c].by]

\* Every message that is stored or on its way was said by the agent.
WasSaid(m) == m \in kind.says /\ m <= said
AllSaid ==
    /\ \A m \in bridge.snap \cup bridge.outbox : WasSaid(m)
    /\ \A k \in calls : \A m \in k.says : WasSaid(m)
    /\ \A e \in log : WasSaid(e[2])

\* m no longer comes as a live event of incarnation i or of a later one.
NotLive(m, i) ==
    /\ m \notin bridge.outbox
    /\ \A k \in calls : k.op = "events" /\ k.inc >= i => m \notin k.says

\* The registrations under way are those of the latest incarnation and carry
\* its snapshot, none of which it sends as a live event too.
SnapshotsAreCurrent ==
    /\ \A k \in calls : k.op = "register" => k.inc = bridge.inc /\ k.says = bridge.snap
    /\ \A m \in bridge.snap : NotLive(m, bridge.inc)

\* A message that was stored from a snapshot will not be stored again: only
\* older incarnations still send it, and they do not serve the session.
SnapshotsAreFinal ==
    \A e \in log : e[1] # None =>
        /\ e[1] <= bridge.inc
        /\ session.inc = None \/ session.inc >= e[1]
        /\ NotLive(e[2], e[1])

Transcript == SnapshotsAreCurrent /\ SnapshotsAreFinal /\ MessageLoggedOnce

IInv ==
    /\ TypeOK
    /\ BridgeRuns
    /\ AcksWereGiven
    /\ SettledWasGiven
    /\ ClaimsAreCurrent
    /\ QuestionIffAsked
    /\ AllSaid
    /\ ~kind.late => Transcript

-----------------------------------------------------------------------------
(* Types, and what the actions have in common.                               *)

CallType == [op : Ops, inc : Incarnations, cmds : SUBSET Commands,
             says : SUBSET Messages, state : Reported \cup {"idle"}, auth : BOOLEAN]
BridgeType == [inc : 0..MaxIncarnation, up : BOOLEAN, ready : BOOLEAN,
               snap : SUBSET Messages, unacked : SUBSET Commands,
               outbox : SUBSET Messages]
SessionType == [state : Live \cup Terminal \cup {"none"}, question : BOOLEAN,
                asked : BOOLEAN, inc : Incarnations \cup {None}, token : BOOLEAN]

\* TypeOK with its parts named.
LEMMA Types ==
    TypeOK <=> /\ kind \in Kinds /\ session \in SessionType /\ cmd \in [Commands -> Row]
               /\ log \subseteq (Incarnations \cup {None}) \X Messages
               /\ passed \subseteq Commands /\ calls \subseteq CallType
               /\ bridge \in BridgeType /\ got \in [Incarnations -> SUBSET Commands]
               /\ said \in Nat /\ losses \in 0..MaxLosses
  BY DEF TypeOK, CallType, BridgeType, SessionType

LEMMA TypesNext ==
    TypeOK' <=> /\ kind' \in Kinds /\ session' \in SessionType /\ cmd' \in [Commands -> Row]
                /\ log' \subseteq (Incarnations \cup {None}) \X Messages
                /\ passed' \subseteq Commands /\ calls' \subseteq CallType
                /\ bridge' \in BridgeType /\ got' \in [Incarnations -> SUBSET Commands]
                /\ said' \in Nat /\ losses' \in 0..MaxLosses
  BY DEF TypeOK, CallType, BridgeType, SessionType

\* k is a request that the bridge may send now.
Sendable(k) ==
    /\ k \in CallType
    /\ k.inc = bridge.inc
    /\ k.cmds \subseteq bridge.unacked
    /\ k.op = "register" => k.says = bridge.snap
    /\ k.op # "register" => k.says \subseteq bridge.outbox

Sending == SendRegister \/ SendPoll \/ SendAck \/ SendEvents \/ SendAsk

LEMMA SendingSends ==
    ASSUME TypeOK, BridgeRuns, Sending
    PROVE  \E k : Sendable(k) /\ Send(k)
<1>1. bridge \in BridgeType /\ (bridge.ready \/ bridge.up => bridge.inc \in Incarnations)
  BY Types, BridgeAssumption DEF BridgeRuns, BridgeType, Incarnations
<1>2. ASSUME NEW op \in Ops, NEW cs, NEW ms, NEW st \in Reported \cup {"idle"},
             cs \subseteq bridge.unacked, bridge.ready \/ bridge.up,
             ms = IF op = "register" THEN bridge.snap ELSE ms,
             op # "register" => ms \subseteq bridge.outbox
      PROVE  Sendable(Call(op, cs, ms, st))
  <2>1. ms \subseteq Messages /\ cs \subseteq Commands
    BY <1>1, <1>2 DEF BridgeType
  <2>2. QED
    BY <1>1, <1>2, <2>1 DEF Sendable, Call, CallType
<1>3. CASE SendRegister
  BY <1>2, <1>3 DEF SendRegister, Ops
<1>4. CASE SendPoll
  BY <1>2, <1>4 DEF SendPoll, Ops
<1>5. CASE SendAck
  BY <1>2, <1>5 DEF SendAck, Ops
<1>6. CASE SendEvents
  BY <1>2, <1>6 DEF SendEvents, Ops
<1>7. CASE SendAsk
  BY <1>2, <1>7 DEF SendAsk, Ops
<1>8. QED
  BY <1>3, <1>4, <1>5, <1>6, <1>7 DEF Sending

\* The answer to a request changes what the bridge knows and not which bridge
\* it is.
SameBridge ==
    /\ bridge' \in BridgeType
    /\ bridge'.inc = bridge.inc /\ bridge'.up = bridge.up /\ bridge'.snap = bridge.snap
    /\ bridge'.ready => bridge.up
    /\ bridge'.outbox \subseteq bridge.outbox
    /\ losses' \in 0..MaxLosses

LEMMA AnswerKeeps ==
    ASSUME TypeOK, BridgeRuns, NEW k, NEW b \in BridgeType, Answered(k, b),
           b.inc = bridge.inc, b.up = bridge.up, b.snap = bridge.snap,
           b.outbox \subseteq bridge.outbox
    PROVE  SameBridge /\ (bridge' = bridge \/ (bridge' = b /\ bridge.up /\ bridge.inc = k.inc))
  BY BridgeAssumption DEF TypeOK, BridgeType, BridgeRuns, Answered, SameBridge

-----------------------------------------------------------------------------
(* One lemma for every action of the server: what it changes.                *)

LEMMA RefuseDoes ==
    ASSUME TypeOK, BridgeRuns, Refuse
    PROVE  /\ \E k \in calls : calls' = calls \ {k}
           /\ SameBridge /\ bridge'.unacked = bridge.unacked
           /\ UNCHANGED <<kind, session, cmd, log, passed, got, said>>
<1>1. PICK k \in calls : /\ calls' = calls \ {k}
                         /\ Answered(k, [bridge EXCEPT !.ready = FALSE])
  BY DEF Refuse, Served
<1> DEFINE b == [bridge EXCEPT !.ready = FALSE]
<1>2. /\ b \in BridgeType /\ b.inc = bridge.inc /\ b.up = bridge.up
      /\ b.snap = bridge.snap /\ b.outbox = bridge.outbox /\ b.unacked = bridge.unacked
  BY Types DEF BridgeType
<1>3. Answered(k, b)
  BY <1>1
<1> HIDE DEF b
<1>4. QED
  BY <1>1, <1>2, <1>3, AnswerKeeps DEF Refuse

LEMMA RegisterDoes ==
    ASSUME TypeOK, BridgeRuns, Register
    PROVE  \E k \in calls :
              /\ k.op = "register" /\ calls' = calls \ {k}
              /\ SameBridge /\ bridge'.unacked = bridge.unacked
              /\ session' \in SessionType /\ session'.inc = k.inc
              /\ session'.state = RegisteredState
              /\ session'.question = session.question
              /\ session'.asked = (session.asked /\ RegisteredState = "blocked")
              /\ cmd' = Unclaimed(k.inc)
              /\ log' = log \cup Snapshot(k)
              /\ UNCHANGED <<kind, passed, got, said>>
<1>1. PICK k \in calls :
         /\ k.op = "register" /\ calls' = calls \ {k}
         /\ session' = [session EXCEPT !.state = RegisteredState, !.inc = k.inc,
                            !.asked = @ /\ RegisteredState = "blocked"]
         /\ cmd' = Unclaimed(k.inc)
         /\ log' = log \cup Snapshot(k)
         /\ Answered(k, [bridge EXCEPT !.ready = TRUE])
         /\ UNCHANGED <<kind, passed, got, said>>
  BY DEF Register, Served
<1> DEFINE b == [bridge EXCEPT !.ready = TRUE]
<1>2. /\ b \in BridgeType /\ b.inc = bridge.inc /\ b.up = bridge.up
      /\ b.snap = bridge.snap /\ b.outbox = bridge.outbox /\ b.unacked = bridge.unacked
  BY Types DEF BridgeType
<1>3. Answered(k, b)
  BY <1>1
<1>4. /\ session' \in SessionType /\ session'.inc = k.inc
      /\ session'.state = RegisteredState /\ session'.question = session.question
      /\ session'.asked = (session.asked /\ RegisteredState = "blocked")
  <2>1. k.inc \in Incarnations /\ RegisteredState \in Live
    BY Types DEF CallType, RegisteredState, Live
  <2>2. QED
    BY <1>1, <2>1, Types DEF SessionType
<1> HIDE DEF b
<1>5. SameBridge /\ bridge'.unacked = bridge.unacked
  BY <1>2, <1>3, AnswerKeeps
<1>6. QED
  BY <1>1, <1>4, <1>5

LEMMA ApplyEventsDoes ==
    ASSUME TypeOK, BridgeRuns, ApplyEvents
    PROVE  \E k \in calls :
              /\ k.op = "events" /\ calls' = calls \ {k} /\ Current(k)
              /\ SameBridge /\ bridge'.unacked = bridge.unacked
              /\ session' \in SessionType /\ session'.inc = session.inc
              /\ session'.state = ReportedState(k)
              /\ session'.question = (session.question /\ ReportedState(k) \notin Terminal)
              /\ session'.asked = (session.asked /\ ReportedState(k) = "blocked")
              /\ log' = log \cup LiveEvents(k)
              /\ UNCHANGED <<kind, cmd, passed, got, said>>
<1>1. PICK k \in calls :
         /\ k.op = "events" /\ calls' = calls \ {k} /\ Current(k)
         /\ session' = [session EXCEPT !.state = ReportedState(k),
                            !.question = @ /\ ReportedState(k) \notin Terminal,
                            !.asked = @ /\ ReportedState(k) = "blocked"]
         /\ log' = log \cup LiveEvents(k)
         /\ Answered(k, [bridge EXCEPT !.outbox = @ \ k.says])
         /\ UNCHANGED <<kind, cmd, passed, got, said>>
  BY DEF ApplyEvents, Served
<1> DEFINE b == [bridge EXCEPT !.outbox = @ \ k.says]
<1>2. /\ b \in BridgeType /\ b.inc = bridge.inc /\ b.up = bridge.up
      /\ b.snap = bridge.snap /\ b.outbox \subseteq bridge.outbox
      /\ b.unacked = bridge.unacked
  BY Types DEF BridgeType
<1>3. Answered(k, b)
  BY <1>1
<1>4. /\ session' \in SessionType /\ session'.inc = session.inc
      /\ session'.state = ReportedState(k)
      /\ session'.question = (session.question /\ ReportedState(k) \notin Terminal)
      /\ session'.asked = (session.asked /\ ReportedState(k) = "blocked")
  <2>1. ReportedState(k) \in Live \cup Terminal \cup {NoState}
    BY Types, BridgeAssumption DEF CallType, SessionType, ReportedState, Live, Terminal, NoState
  <2>2. QED
    BY <1>1, <2>1, Types DEF SessionType, NoState
<1> HIDE DEF b
<1>5. SameBridge /\ bridge'.unacked = bridge.unacked
  BY <1>2, <1>3, AnswerKeeps
<1>6. QED
  BY <1>1, <1>4, <1>5

\* What a poll returns: the commands that are claimed by the caller afterwards.
Mine(k) == {c \in Commands : cmd'[c].at = "claimed" /\ cmd'[c].by = k.inc}

LEMMA ClaimDoes ==
    ASSUME TypeOK, BridgeRuns, Claim
    PROVE  \E k \in calls :
              /\ k.op = "poll" /\ calls' = calls \ {k} /\ Current(k)
              /\ SameBridge
              /\ cmd' = HandedOut(k)
              /\ \/ got' = got /\ bridge'.unacked = bridge.unacked
                 \/ /\ bridge.inc = k.inc
                    /\ bridge'.unacked = bridge.unacked \cup Mine(k)
                    /\ got' = [got EXCEPT ![k.inc] = @ \cup Mine(k)]
              /\ UNCHANGED <<kind, session, log, passed, said>>
<1>1. PICK k \in calls :
         /\ k.op = "poll" /\ calls' = calls \ {k} /\ Current(k)
         /\ cmd' = HandedOut(k)
         /\ Answered(k, [bridge EXCEPT !.unacked = @ \cup Mine(k)])
         /\ got' = IF bridge' # bridge THEN [got EXCEPT ![k.inc] = @ \cup Mine(k)] ELSE got
         /\ UNCHANGED <<kind, session, log, passed, said>>
  BY DEF Claim, Served, Mine
<1> DEFINE b == [bridge EXCEPT !.unacked = @ \cup Mine(k)]
<1>2. /\ b \in BridgeType /\ b.inc = bridge.inc /\ b.up = bridge.up
      /\ b.snap = bridge.snap /\ b.outbox = bridge.outbox
      /\ b.unacked = bridge.unacked \cup Mine(k)
  BY Types DEF BridgeType, Mine
<1>3. Answered(k, b)
  BY <1>1
<1> HIDE DEF b
<1>4. SameBridge /\ (bridge' = bridge \/ (bridge' = b /\ bridge.inc = k.inc))
  BY <1>2, <1>3, AnswerKeeps
<1>5. QED
  BY <1>1, <1>2, <1>4

LEMMA AckDoes ==
    ASSUME TypeOK, BridgeRuns, Ack
    PROVE  \E k \in calls : \E c \in k.cmds :
              /\ k.op = "ack" /\ calls' = calls \ {k} /\ Current(k)
              /\ SameBridge /\ bridge'.unacked \subseteq bridge.unacked
              /\ IF Acks(k, c)
                 THEN /\ cmd' = [cmd EXCEPT ![c].at = "delivered"]
                      /\ session' = IF c \in kind.prompts /\ session.state = "blocked"
                                    THEN [session EXCEPT !.state = "working",
                                                         !.question = FALSE, !.asked = FALSE]
                                    ELSE session
                 ELSE UNCHANGED <<cmd, session>>
              /\ UNCHANGED <<kind, log, passed, got, said>>
<1>1. PICK k \in calls, c \in Commands :
         /\ c \in k.cmds
         /\ k.op = "ack" /\ calls' = calls \ {k} /\ Current(k)
         /\ cmd' = IF Acks(k, c) THEN [cmd EXCEPT ![c].at = "delivered"] ELSE cmd
         /\ session' = IF Acks(k, c) /\ c \in kind.prompts /\ session.state = "blocked"
                       THEN [session EXCEPT !.state = "working", !.question = FALSE, !.asked = FALSE]
                       ELSE session
         /\ Answered(k, [bridge EXCEPT !.unacked = @ \ {c}])
         /\ UNCHANGED <<kind, log, passed, got, said>>
  BY Types DEF Ack, Served, CallType
<1> DEFINE b == [bridge EXCEPT !.unacked = @ \ {c}]
<1>2. /\ b \in BridgeType /\ b.inc = bridge.inc /\ b.up = bridge.up
      /\ b.snap = bridge.snap /\ b.outbox = bridge.outbox
      /\ b.unacked \subseteq bridge.unacked
  BY Types DEF BridgeType
<1>3. Answered(k, b)
  BY <1>1
<1> HIDE DEF b
<1>4. SameBridge /\ bridge'.unacked \subseteq bridge.unacked
  BY <1>2, <1>3, AnswerKeeps
<1>5. QED
  BY <1>1, <1>4

LEMMA AskDoes ==
    ASSUME TypeOK, SetBlocked
    PROVE  /\ \E k \in calls : calls' = calls \ {k}
           /\ session' \in SessionType /\ session'.inc = session.inc
           /\ \/ session' = session
              \/ session'.state = "blocked" /\ session'.question /\ session'.asked
           /\ UNCHANGED <<kind, cmd, log, passed, bridge, got, said, losses>>
  BY Types DEF SetBlocked, Served, SessionType, Live

\* The commands after a registration, a poll and an acknowledgement.
LEMMA UnclaimedRows ==
    ASSUME cmd \in [Commands -> Row], NEW i
    PROVE  Unclaimed(i) \in [Commands -> Row]
  BY DEF Unclaimed, Row, None

LEMMA HandedOutRows ==
    ASSUME cmd \in [Commands -> Row], NEW k, k.inc \in Incarnations
    PROVE  HandedOut(k) \in [Commands -> Row]
  BY DEF HandedOut, Row

LEMMA DeliveredRows ==
    ASSUME cmd \in [Commands -> Row], NEW c \in Commands
    PROVE  [cmd EXCEPT ![c].at = "delivered"] \in [Commands -> Row]
<1>1. [cmd[c] EXCEPT !.at = "delivered"] \in Row
  BY DEF Row
<1>2. QED
  BY <1>1

-----------------------------------------------------------------------------
(* The invariant is preserved, part by part.                                 *)

\* The steps outside the server.
Outside ==
    \/ StartBridge \/ StopBridge \/ Say \/ Sending \/ LeaseRunsOut \/ Finish
    \/ \E op \in Ops : Authorize(op)
    \/ \E c \in Commands : SendPrompt(c) \/ Interrupt(c) \/ Configure(c) \/ Enqueue(c)

LEMMA NextSplit == Next <=> Serve \/ Outside
  BY DEF Next, Outside, Sending

\* A request that is let in is the same request.
LEMMA AuthorizeDoes ==
    ASSUME TypeOK, NEW op \in Ops, Authorize(op)
    PROVE  /\ calls' \subseteq CallType
           /\ \A l \in calls' : \E k \in calls :
                 /\ l.op = k.op /\ l.inc = k.inc /\ l.cmds = k.cmds /\ l.says = k.says
           /\ UNCHANGED <<kind, session, cmd, log, passed, bridge, got, said, losses>>
<1>1. PICK k \in calls :
         calls' = (calls \ {k}) \cup (IF Accepts THEN {[k EXCEPT !.auth = TRUE]} ELSE {})
  BY DEF Authorize
<1> DEFINE l == [k EXCEPT !.auth = TRUE]
<1>2. /\ l \in CallType
      /\ l.op = k.op /\ l.inc = k.inc /\ l.cmds = k.cmds /\ l.says = k.says
  BY Types DEF CallType
<1>3. \A x \in calls' : x \in calls \/ x = l
  BY <1>1
<1> HIDE DEF l
<1>4. QED
  BY <1>2, <1>3, Types DEF Authorize

LEMMA TypeNext ==
    ASSUME TypeOK, BridgeRuns, [Next]_vars
    PROVE  TypeOK' /\ BridgeRuns'
<1>1. CASE UNCHANGED vars
  BY <1>1 DEF vars, TypeOK, BridgeRuns
<1> USE Types, TypesNext DEF BridgeRuns
<1>2. CASE Serve
  <2>1. CASE Refuse
    BY <2>1, RefuseDoes DEF SameBridge
  <2>2. CASE Register
    <3>1. PICK k \in calls :
             /\ calls' = calls \ {k} /\ SameBridge /\ session' \in SessionType
             /\ cmd' = Unclaimed(k.inc) /\ log' = log \cup Snapshot(k)
             /\ UNCHANGED <<kind, passed, got, said>>
      BY <2>2, RegisterDoes
    <3>2. k \in CallType /\ k.inc \in Incarnations /\ k.says \subseteq Messages
      BY <3>1 DEF CallType
    <3>3. cmd' \in [Commands -> Row]
      BY <3>1, UnclaimedRows
    <3>4. Snapshot(k) \subseteq Incarnations \X Messages
      BY <3>2 DEF Snapshot
    <3>5. QED
      BY <3>1, <3>3, <3>4 DEF SameBridge
  <2>3. CASE ApplyEvents
    BY <2>3, ApplyEventsDoes DEF SameBridge, CallType, LiveEvents
  <2>4. CASE Claim
    <3>1. PICK k \in calls :
             /\ calls' = calls \ {k} /\ SameBridge /\ cmd' = HandedOut(k)
             /\ got' = got \/ got' = [got EXCEPT ![k.inc] = @ \cup Mine(k)]
             /\ UNCHANGED <<kind, session, log, passed, said>>
      BY <2>4, ClaimDoes
    <3>2. k \in CallType /\ k.inc \in Incarnations
      BY <3>1 DEF CallType
    <3>3. cmd' \in [Commands -> Row]
      BY <3>1, <3>2, HandedOutRows
    <3>4. Mine(k) \subseteq Commands
      BY DEF Mine
    <3>5. QED
      BY <3>1, <3>2, <3>3, <3>4 DEF SameBridge
  <2>5. CASE Ack
    <3>1. PICK k \in calls, c \in Commands :
             /\ calls' = calls \ {k} /\ SameBridge
             /\ cmd' = cmd \/ cmd' = [cmd EXCEPT ![c].at = "delivered"]
             /\ \/ session' = session
                \/ session' = [session EXCEPT !.state = "working", !.question = FALSE, !.asked = FALSE]
             /\ UNCHANGED <<kind, log, passed, got, said>>
      BY <2>5, AckDoes DEF CallType
    <3>2. session' \in SessionType
      BY <3>1 DEF SessionType, Live
    <3>3. cmd' \in [Commands -> Row]
      BY <3>1, DeliveredRows
    <3>4. QED
      BY <3>1, <3>2, <3>3 DEF SameBridge
  <2>6. CASE SetBlocked
    BY <2>6, AskDoes
  <2>7. QED
    BY <1>2, <2>1, <2>2, <2>3, <2>4, <2>5, <2>6 DEF Serve
<1>3. CASE Outside
  <2>1. CASE StartBridge
    BY <2>1, BridgeAssumption DEF StartBridge, BridgeType, CallType, Incarnations, KindType
  <2>2. CASE StopBridge
    BY <2>2 DEF StopBridge, BridgeType
  <2>3. CASE Say
    BY <2>3, BridgeAssumption DEF Say, BridgeType, KindType
  <2>4. CASE Sending
    <3>1. PICK k : Sendable(k) /\ Send(k)
      BY <2>4, SendingSends
    <3>2. k \in CallType /\ k.inc = bridge.inc /\ calls' = calls \cup {k}
      BY <3>1 DEF Sendable, Send
    <3>3. k.inc <= bridge.inc
      BY <3>2 DEF BridgeType
    <3>4. QED
      BY <3>1, <3>2, <3>3 DEF Send
  <2>5. CASE LeaseRunsOut
    <3>1. \E c \in Commands : cmd' = [cmd EXCEPT ![c] = [cmd[c] EXCEPT !.old = TRUE]]
      BY <2>5 DEF LeaseRunsOut
    <3>2. \A c \in Commands : [cmd[c] EXCEPT !.old = TRUE] \in Row
      BY DEF Row
    <3>3. cmd' \in [Commands -> Row]
      BY <3>1, <3>2
    <3>4. QED
      BY <2>5, <3>3 DEF LeaseRunsOut
  <2>6. CASE Finish
    BY <2>6 DEF Finish, SessionType, Terminal
  <2>7. ASSUME NEW op \in Ops, Authorize(op) PROVE TypeOK' /\ BridgeRuns'
    BY <2>7, AuthorizeDoes
  <2>8. ASSUME NEW c \in Commands, SendPrompt(c) \/ Interrupt(c) \/ Configure(c)
        PROVE  TypeOK' /\ BridgeRuns'
    BY <2>8 DEF SendPrompt, Interrupt, Configure, Checked
  <2>9. ASSUME NEW c \in Commands, Enqueue(c) PROVE TypeOK' /\ BridgeRuns'
    BY <2>9 DEF Enqueue, Row
  <2>10. QED
    BY <1>3, <2>1, <2>2, <2>3, <2>4, <2>5, <2>6, <2>7, <2>8, <2>9 DEF Outside
<1>4. QED
  BY <1>1, <1>2, <1>3, NextSplit

-----------------------------------------------------------------------------
(* Commands.                                                                 *)

\* Requests are only served, let in or forgotten, and the bridge learns of no
\* command; or it sends one that it may send.
CallsKnown ==
    /\ \A k \in calls' : \/ \E l \in calls : k.inc = l.inc /\ k.cmds = l.cmds
                         \/ Sendable(k)
    /\ bridge'.unacked \subseteq bridge.unacked
    /\ bridge'.inc = bridge.inc \/ bridge'.unacked = {}

LEMMA OutsideCalls ==
    ASSUME TypeOK, BridgeRuns, Outside
    PROVE  CallsKnown /\ UNCHANGED got
<1>1. CASE StartBridge
  BY <1>1, Types DEF StartBridge, CallsKnown, BridgeType
<1>2. CASE StopBridge
  BY <1>2, Types DEF StopBridge, CallsKnown, BridgeType
<1>3. CASE Say
  BY <1>3, Types DEF Say, CallsKnown, BridgeType
<1>4. CASE Sending
  BY <1>4, SendingSends DEF Send, CallsKnown
<1>5. CASE LeaseRunsOut \/ Finish
  BY <1>5 DEF LeaseRunsOut, Finish, CallsKnown
<1>6. ASSUME NEW op \in Ops, Authorize(op) PROVE CallsKnown /\ UNCHANGED got
  BY <1>6, AuthorizeDoes DEF CallsKnown
<1>7. ASSUME NEW c \in Commands,
             SendPrompt(c) \/ Interrupt(c) \/ Configure(c) \/ Enqueue(c)
      PROVE  CallsKnown /\ UNCHANGED got
  BY <1>7 DEF SendPrompt, Interrupt, Configure, Enqueue, Checked, CallsKnown
<1>8. QED
  BY <1>1, <1>2, <1>3, <1>4, <1>5, <1>6, <1>7 DEF Outside

LEMMA AcksKept ==
    ASSUME TypeOK, BridgeRuns, AcksWereGiven, CallsKnown,
           got' \in [Incarnations -> SUBSET Commands],
           \A i \in Incarnations : got[i] \subseteq got'[i]
    PROVE  AcksWereGiven'
<1>1. bridge.inc # 0 => bridge.inc \in Incarnations
  BY Types DEF BridgeType, Incarnations
<1>2. \A l \in calls : l.inc \in Incarnations
  BY Types DEF CallType
<1>3. ASSUME NEW k \in calls', NEW c \in k.cmds PROVE c \in got'[k.inc]
  <2>1. CASE \E l \in calls : k.inc = l.inc /\ k.cmds = l.cmds
    BY <1>2, <1>3, <2>1 DEF AcksWereGiven
  <2>2. CASE Sendable(k)
    BY <1>1, <1>3, <2>2 DEF AcksWereGiven, Sendable
  <2>3. QED
    BY <2>1, <2>2 DEF CallsKnown
<1>4. ASSUME NEW c \in bridge'.unacked PROVE bridge'.inc # 0 /\ c \in got'[bridge'.inc]
  BY <1>1, <1>4 DEF AcksWereGiven, CallsKnown
<1>5. QED
  BY <1>3, <1>4 DEF AcksWereGiven

LEMMA AcksNext ==
    ASSUME TypeOK, BridgeRuns, AcksWereGiven, [Next]_vars
    PROVE  AcksWereGiven' /\ \A i \in Incarnations : got[i] \subseteq got'[i]
<1>0. got' \in [Incarnations -> SUBSET Commands] /\ got \in [Incarnations -> SUBSET Commands]
  BY TypeNext, Types, TypesNext
<1>1. CASE UNCHANGED vars
  BY <1>1 DEF vars, AcksWereGiven
<1>2. CASE Outside
  BY <1>0, <1>2, OutsideCalls, AcksKept
<1>3. CASE Refuse \/ Register \/ ApplyEvents \/ Ack \/ SetBlocked
  <2>1. CallsKnown /\ UNCHANGED got
    BY <1>3, RefuseDoes, RegisterDoes, ApplyEventsDoes, AckDoes, AskDoes
    DEF CallsKnown, SameBridge
  <2>2. QED
    BY <1>0, <2>1, AcksKept
<1>4. CASE Claim
  <2>1. PICK k \in calls :
           /\ calls' = calls \ {k} /\ SameBridge
           /\ \/ got' = got /\ bridge'.unacked = bridge.unacked
              \/ /\ bridge.inc = k.inc
                 /\ bridge'.unacked = bridge.unacked \cup Mine(k)
                 /\ got' = [got EXCEPT ![k.inc] = @ \cup Mine(k)]
    BY <1>4, ClaimDoes
  <2>2. CASE got' = got /\ bridge'.unacked = bridge.unacked
    <3>1. CallsKnown
      BY <2>1, <2>2 DEF CallsKnown, SameBridge
    <3>2. QED
      BY <1>0, <2>2, <3>1, AcksKept
  <2>3. CASE /\ bridge.inc = k.inc
             /\ bridge'.unacked = bridge.unacked \cup Mine(k)
             /\ got' = [got EXCEPT ![k.inc] = @ \cup Mine(k)]
    <3>1. k.inc \in Incarnations /\ k.inc # 0 /\ \A l \in calls : l.inc \in Incarnations
      BY Types DEF CallType, Incarnations
    <3>2. /\ got'[k.inc] = got[k.inc] \cup Mine(k)
          /\ \A i \in Incarnations : got[i] \subseteq got'[i]
      BY <1>0, <2>3, <3>1
    <3>3. QED
      BY <2>1, <2>3, <3>1, <3>2 DEF AcksWereGiven, SameBridge
  <2>4. QED
    BY <2>1, <2>2, <2>3
<1>5. QED
  BY <1>1, <1>2, <1>3, <1>4, NextSplit DEF Serve

\* How the row of a command changes in a step.
LEMMA RowChanges ==
    ASSUME TypeOK, BridgeRuns, AcksWereGiven, [Next]_vars, NEW c \in Commands
    PROVE  \/ cmd'[c].at = cmd[c].at /\ cmd'[c].by = cmd[c].by
           \/ cmd[c].at = "absent" /\ cmd'[c].at = "queued"
           \/ Register /\ cmd[c].at = "claimed" /\ cmd'[c].at = "queued"
           \/ /\ cmd[c].at \in {"queued", "claimed"}
              /\ cmd'[c].at = "claimed" /\ cmd'[c].by = session.inc
           \/ /\ cmd[c].at = "claimed" /\ cmd[c].by = session.inc
              /\ cmd'[c].at = "delivered" /\ cmd'[c].by = session.inc
              /\ session.inc # None /\ c \in got[session.inc]
<1>0. cmd \in [Commands -> Row] /\ cmd' \in [Commands -> Row]
  BY TypeNext, Types, TypesNext
<1>1. CASE UNCHANGED cmd
  BY <1>1
<1>2. CASE Register
  BY <1>2, RegisterDoes DEF Unclaimed
<1>3. CASE Claim
  BY <1>3, ClaimDoes DEF HandedOut, Claimable, Current
<1>4. CASE Ack
  <2>1. PICK k \in calls, d \in Commands :
           /\ d \in k.cmds /\ Current(k)
           /\ cmd' = cmd \/ (Acks(k, d) /\ cmd' = [cmd EXCEPT ![d].at = "delivered"])
    BY <1>4, AckDoes, Types DEF CallType
  <2>2. k.inc \in Incarnations /\ k.inc # None /\ d \in got[k.inc]
    BY <2>1, Types DEF CallType, Incarnations, None, AcksWereGiven
  <2>3. CASE d = c /\ Acks(k, d) /\ cmd' = [cmd EXCEPT ![d].at = "delivered"]
    BY <1>0, <2>1, <2>2, <2>3 DEF Acks, Current, Row
  <2>4. QED
    BY <1>0, <2>1, <2>3
<1>5. CASE LeaseRunsOut
  BY <1>0, <1>5 DEF LeaseRunsOut, Row
<1>6. ASSUME NEW d \in Commands, Enqueue(d)
      PROVE  \/ cmd'[c].at = cmd[c].at /\ cmd'[c].by = cmd[c].by
             \/ cmd[c].at = "absent" /\ cmd'[c].at = "queued"
  BY <1>0, <1>6 DEF Enqueue, Row
<1>7. QED
  <2>1. \/ UNCHANGED cmd \/ Register \/ Claim \/ Ack \/ LeaseRunsOut
        \/ \E d \in Commands : Enqueue(d)
    BY RefuseDoes, ApplyEventsDoes, AskDoes, SendingSends, AuthorizeDoes
    DEF vars, Next, Serve, Sending, StartBridge, StopBridge, Say, Send, Finish, SendPrompt,
        Interrupt, Configure, Checked
  <2>2. QED
    BY <1>1, <1>2, <1>3, <1>4, <1>5, <1>6, <2>1

LEMMA SettledNext ==
    ASSUME TypeOK, BridgeRuns, AcksWereGiven, SettledWasGiven, [Next]_vars
    PROVE  SettledWasGiven'
<1>1. ASSUME NEW c \in Commands, cmd'[c].at = "delivered"
      PROVE  cmd'[c].by # None /\ c \in got'[cmd'[c].by]
  <2>1. cmd[c].by \in Incarnations \cup {None} /\ session.inc \in Incarnations \cup {None}
    BY Types DEF Row, SessionType
  <2>2. \/ cmd[c].at = "delivered" /\ cmd'[c].by = cmd[c].by
        \/ /\ cmd'[c].by = session.inc
           /\ session.inc # None /\ c \in got[session.inc]
    BY <1>1, RowChanges
  <2>3. \A i \in Incarnations : got[i] \subseteq got'[i]
    BY AcksNext
  <2>4. QED
    BY <2>1, <2>2, <2>3 DEF SettledWasGiven
<1>2. QED
  BY <1>1 DEF SettledWasGiven

\* Which incarnation serves the session, and in which state it is.
LEMMA SessionChanges ==
    ASSUME TypeOK, BridgeRuns, [Next]_vars
    PROVE  \/ UNCHANGED session
           \/ Register
           \/ ApplyEvents
           \/ Ack
           \/ /\ SetBlocked /\ session'.inc = session.inc
              /\ session'.state = "blocked" /\ session'.question /\ session'.asked
           \/ /\ session'.inc = None /\ session'.state \in Terminal
              /\ session'.question = FALSE /\ session'.asked = FALSE
<1>1. Finish => /\ session'.inc = None /\ session'.state \in Terminal
                /\ session'.question = FALSE /\ session'.asked = FALSE
  BY DEF Finish
<1>2. QED
  BY <1>1, RefuseDoes, AskDoes, SendingSends, AuthorizeDoes
  DEF vars, Next, Serve, Sending, StartBridge, StopBridge, Say, Send, SendPrompt, Claim,
      LeaseRunsOut, Enqueue, Interrupt, Configure, Checked

LEMMA HolderChanges ==
    ASSUME TypeOK, BridgeRuns, [Next]_vars
    PROVE  \/ session'.inc = session.inc
           \/ session'.inc = None
           \/ Register
<1>1. Ack => session'.inc = session.inc
  BY AckDoes, Types DEF SessionType
<1>2. QED
  BY <1>1, SessionChanges, ApplyEventsDoes

LEMMA ClaimsNext ==
    ASSUME TypeOK, BridgeRuns, AcksWereGiven, ClaimsAreCurrent, [Next]_vars
    PROVE  ClaimsAreCurrent'
<1>1. CASE Register
  BY <1>1, RegisterDoes DEF Unclaimed, ClaimsAreCurrent
<1>2. CASE ~Register
  <2>1. ASSUME NEW c \in Commands, cmd'[c].at = "claimed", session'.inc # None
        PROVE  cmd'[c].by = session'.inc
    <3>1. session'.inc = session.inc
      BY <1>2, <2>1, HolderChanges
    <3>2. \/ cmd[c].at = "claimed" /\ cmd'[c].by = cmd[c].by
          \/ cmd'[c].by = session.inc
      BY <1>2, <2>1, RowChanges
    <3>3. QED
      BY <2>1, <3>1, <3>2 DEF ClaimsAreCurrent
  <2>2. QED
    BY <2>1 DEF ClaimsAreCurrent
<1>3. QED
  BY <1>1, <1>2

-----------------------------------------------------------------------------
(* The question of a blocked session.                                        *)

LEMMA QuestionNext ==
    ASSUME TypeOK, BridgeRuns, QuestionIffAsked, [Next]_vars
    PROVE  QuestionIffAsked'
<1>0. session \in SessionType
  BY Types
<1>1. CASE Register
  BY <1>1, RegisterDoes DEF QuestionIffAsked, RegisteredState
<1>2. CASE ApplyEvents
  <2>1. PICK k \in calls :
           /\ session'.state = ReportedState(k)
           /\ session'.question = (session.question /\ ReportedState(k) \notin Terminal)
           /\ session'.asked = (session.asked /\ ReportedState(k) = "blocked")
    BY <1>2, ApplyEventsDoes
  <2>2. session.state = "blocked" =>
           ReportedState(k) = "blocked" \/ ReportedState(k) \in Terminal
    BY DEF ReportedState
  <2>3. "blocked" \notin Terminal
    BY DEF Terminal
  <2>4. session'.question <=> session.question /\ ReportedState(k) \notin Terminal
    BY <2>1
  <2>5. session'.asked <=> session.asked /\ ReportedState(k) = "blocked"
    BY <2>1
  <2>6. CASE ReportedState(k) = "blocked"
    BY <2>1, <2>3, <2>4, <2>5, <2>6 DEF QuestionIffAsked
  <2>7. CASE ReportedState(k) # "blocked"
    <3>1. ~session'.asked
      BY <2>5, <2>7
    <3>2. ~session'.question
      BY <2>2, <2>4, <2>7 DEF QuestionIffAsked
    <3>3. QED
      BY <3>1, <3>2 DEF QuestionIffAsked
  <2>8. QED
    BY <2>6, <2>7
<1>3. CASE Ack
  <2> DEFINE r == [session EXCEPT !.state = "working", !.question = FALSE, !.asked = FALSE]
  <2>1. session' = session \/ session' = r
    BY <1>3, AckDoes
  <2>2. r.state = "working" /\ ~r.question /\ ~r.asked
    BY <1>0 DEF SessionType
  <2> HIDE DEF r
  <2>3. QED
    BY <2>1, <2>2 DEF QuestionIffAsked
<1>4. QED
  BY <1>1, <1>2, <1>3, SessionChanges DEF QuestionIffAsked, Terminal

LEMMA UnblockedByAnswer ==
    ASSUME TypeOK, BridgeRuns, [Next]_vars,
           session.state = "blocked", session'.state \notin Terminal \cup {"blocked"}
    PROVE  \E c \in kind.prompts : cmd[c].at = "claimed" /\ cmd'[c].at = "delivered"
<1>1. ~Register
  BY RegisterDoes DEF RegisteredState
<1>2. ~ApplyEvents
  BY ApplyEventsDoes DEF ReportedState
<1>3. Ack
  BY <1>1, <1>2, SessionChanges
<1>4. PICK k \in calls, c \in Commands :
         IF Acks(k, c)
         THEN /\ cmd' = [cmd EXCEPT ![c].at = "delivered"]
              /\ session' = IF c \in kind.prompts /\ session.state = "blocked"
                            THEN [session EXCEPT !.state = "working", !.question = FALSE, !.asked = FALSE]
                            ELSE session
         ELSE UNCHANGED <<cmd, session>>
  BY <1>3, AckDoes, Types DEF CallType
<1>5. Acks(k, c) /\ c \in kind.prompts
  BY <1>4
<1>6. cmd'[c].at = "delivered"
  BY <1>4, <1>5, Types DEF Row
<1>7. QED
  BY <1>5, <1>6 DEF Acks

-----------------------------------------------------------------------------
(* The transcript.                                                           *)

\* What every step leaves true of the messages under way.
CallsSpoken ==
    \A k \in calls' : \/ \E l \in calls : k.op = l.op /\ k.inc = l.inc /\ k.says = l.says
                      \/ Sendable(k)
BridgeSpeaks ==
    /\ kind' = kind /\ said' >= said /\ bridge'.inc >= bridge.inc
    /\ \/ StartBridge
       \/ Say /\ bridge'.inc = bridge.inc /\ bridge'.snap = bridge.snap
              /\ bridge'.outbox = bridge.outbox \cup {said + 1}
       \/ /\ bridge'.inc = bridge.inc /\ bridge'.snap = bridge.snap
          /\ bridge'.outbox \subseteq bridge.outbox
    /\ \/ log' = log
       \/ \E k \in calls : k.op = "register" /\ log' = log \cup Snapshot(k)
                           /\ session'.inc = k.inc
       \/ \E k \in calls : k.op = "events" /\ log' = log \cup LiveEvents(k)
                           /\ Current(k)

LEMMA Speaking ==
    ASSUME TypeOK, BridgeRuns, [Next]_vars
    PROVE  CallsSpoken /\ BridgeSpeaks
<1>0. bridge \in BridgeType /\ bridge.inc \in Nat /\ said \in Nat
  BY Types, BridgeAssumption DEF BridgeType
<1>1. CASE Refuse \/ Register \/ ApplyEvents \/ Claim \/ Ack \/ SetBlocked
  <2>1. /\ \E k \in calls : calls' = calls \ {k}
        /\ kind' = kind /\ said' = said
        /\ bridge'.inc = bridge.inc /\ bridge'.snap = bridge.snap
        /\ bridge'.outbox \subseteq bridge.outbox
    BY <1>1, RefuseDoes, RegisterDoes, ApplyEventsDoes, ClaimDoes, AckDoes, AskDoes
    DEF SameBridge
  <2>2. \/ log' = log
        \/ \E k \in calls : k.op = "register" /\ log' = log \cup Snapshot(k)
                            /\ session'.inc = k.inc
        \/ \E k \in calls : k.op = "events" /\ log' = log \cup LiveEvents(k)
                            /\ Current(k)
    BY <1>1, RefuseDoes, RegisterDoes, ApplyEventsDoes, ClaimDoes, AckDoes, AskDoes
  <2>3. QED
    BY <1>0, <2>1, <2>2 DEF CallsSpoken, BridgeSpeaks
<1>2. CASE StartBridge
  BY <1>0, <1>2 DEF StartBridge, CallsSpoken, BridgeSpeaks
<1>3. CASE Say
  BY <1>0, <1>3 DEF Say, CallsSpoken, BridgeSpeaks, BridgeType
<1>4. CASE Sending
  BY <1>0, <1>4, SendingSends DEF Send, CallsSpoken, BridgeSpeaks
<1>5. ASSUME NEW op \in Ops, Authorize(op) PROVE CallsSpoken /\ BridgeSpeaks
  BY <1>0, <1>5, AuthorizeDoes DEF CallsSpoken, BridgeSpeaks
<1>6. CASE StopBridge
  BY <1>0, <1>6 DEF StopBridge, CallsSpoken, BridgeSpeaks, BridgeType
<1>7. CASE UNCHANGED <<kind, log, calls, bridge, said>>
  BY <1>0, <1>7 DEF CallsSpoken, BridgeSpeaks
<1>8. QED
  BY <1>1, <1>2, <1>3, <1>4, <1>5, <1>6, <1>7
  DEF vars, Next, Serve, Sending, LeaseRunsOut, Finish, SendPrompt, Interrupt, Configure,
      Checked, Enqueue

LEMMA SaidNext ==
    ASSUME TypeOK, BridgeRuns, AllSaid, [Next]_vars
    PROVE  AllSaid'
<1>0. /\ said \in Nat /\ said' \in Nat /\ Messages \subseteq Nat /\ kind.says \subseteq Messages
      /\ \A m \in kind.says : m <= said => WasSaid(m)'
  <2>1. said \in Nat /\ said' \in Nat /\ said' >= said
    BY TypeNext, Types, TypesNext, Speaking DEF BridgeSpeaks
  <2>2. kind' = kind /\ Messages \subseteq Nat /\ kind.says \subseteq Messages
    BY Types, BridgeAssumption, Speaking DEF KindType, BridgeSpeaks
  <2>3. ASSUME NEW m \in kind.says, m <= said PROVE WasSaid(m)'
    <3>1. m \in Nat
      BY <2>2
    <3>2. m <= said'
      BY <2>1, <2>3, <3>1
    <3>3. QED
      BY <2>2, <3>2 DEF WasSaid
  <2>4. QED
    BY <2>1, <2>2, <2>3
<1>1. ASSUME NEW m \in bridge'.snap \cup bridge'.outbox PROVE WasSaid(m)'
  <2>1. CASE StartBridge
    <3>1. m \in kind.says \cap {said} /\ kind' = kind /\ said' = said
      BY <1>1, <2>1 DEF StartBridge
    <3>2. QED
      BY <1>0, <3>1 DEF WasSaid
  <2>2. CASE Say /\ m = said + 1
    BY <1>0, <2>2 DEF Say, WasSaid
  <2>3. CASE m \in bridge.snap \cup bridge.outbox
    BY <1>0, <2>3 DEF AllSaid, WasSaid
  <2>4. QED
    BY <1>1, <2>1, <2>2, <2>3, Speaking DEF BridgeSpeaks
<1>2. ASSUME NEW k \in calls', NEW m \in k.says PROVE WasSaid(m)'
  <2>1. \/ \E l \in calls : m \in l.says
        \/ m \in bridge.snap \cup bridge.outbox
    BY <1>2, Speaking DEF CallsSpoken, Sendable
  <2>2. QED
    BY <1>0, <2>1 DEF AllSaid, WasSaid
<1>3. ASSUME NEW e \in log' PROVE WasSaid(e[2])'
  <2>1. \/ e \in log
        \/ \E l \in calls : e[2] \in l.says
    BY <1>3, Speaking DEF BridgeSpeaks, Snapshot, LiveEvents
  <2>2. QED
    BY <1>0, <2>1 DEF AllSaid, WasSaid
<1>4. QED
  BY <1>1, <1>2, <1>3 DEF AllSaid

\* A message that no bridge holds as a live event does not become one.
LEMMA StaysUnsent ==
    ASSUME TypeOK, BridgeRuns, [Next]_vars, NEW m \in Nat, NEW i \in Nat,
           m <= said, NotLive(m, i)
    PROVE  NotLive(m, i)'
<1>0. said \in Nat
  BY Types
<1>1. m \notin bridge'.outbox
  BY <1>0, Speaking DEF BridgeSpeaks, NotLive, StartBridge
<1>2. ASSUME NEW k \in calls', k.op = "events", k.inc >= i PROVE m \notin k.says
  BY <1>2, Speaking DEF CallsSpoken, Sendable, NotLive
<1>3. QED
  BY <1>1, <1>2 DEF NotLive

LEMMA CurrentNext ==
    ASSUME TypeOK, BridgeRuns, AllSaid, ~kind.late, SnapshotsAreCurrent, [Next]_vars
    PROVE  SnapshotsAreCurrent'
<1>0. /\ bridge.inc \in Nat /\ bridge'.inc \in Nat
      /\ \A m : WasSaid(m) => m \in Nat /\ m <= said
      /\ \A k \in calls : k.inc \in Nat
  <2>1. /\ bridge \in BridgeType /\ bridge' \in BridgeType
        /\ calls \subseteq CallType /\ kind \in Kinds
    BY TypeNext, Types, TypesNext
  <2>2. bridge.inc \in Nat /\ bridge'.inc \in Nat /\ \A k \in calls : k.inc \in Nat
    BY <2>1, BridgeAssumption DEF BridgeType, CallType, Incarnations
  <2>3. kind.says \subseteq Nat
    BY <2>1, BridgeAssumption DEF KindType
  <2>4. QED
    BY <2>2, <2>3 DEF WasSaid
<1>1. CASE StartBridge
  <2>1. /\ bridge'.inc = bridge.inc + 1 /\ bridge'.outbox = {}
        /\ calls' = {k \in calls : k.op # "register"}
    BY <1>1 DEF StartBridge
  <2>2. \A k \in calls' : k.op # "register" /\ ~(k.inc >= bridge'.inc)
    BY <1>0, <2>1 DEF BridgeRuns
  <2>3. QED
    BY <2>1, <2>2 DEF SnapshotsAreCurrent, NotLive
<1>2. CASE ~StartBridge
  <2>1. bridge'.inc = bridge.inc /\ bridge'.snap = bridge.snap
    BY <1>2, Speaking DEF BridgeSpeaks
  <2>2. ASSUME NEW k \in calls', k.op = "register"
        PROVE  k.inc = bridge'.inc /\ k.says = bridge'.snap
    BY <2>1, <2>2, Speaking DEF CallsSpoken, Sendable, SnapshotsAreCurrent
  <2>3. ASSUME NEW m \in bridge'.snap PROVE NotLive(m, bridge.inc)'
    BY <1>0, <2>1, <2>3, StaysUnsent DEF SnapshotsAreCurrent, AllSaid
  <2>4. QED
    BY <2>1, <2>2, <2>3 DEF SnapshotsAreCurrent, NotLive
<1>3. QED
  BY <1>1, <1>2

LEMMA FinalNext ==
    ASSUME TypeOK, BridgeRuns, AllSaid, SnapshotsAreCurrent, SnapshotsAreFinal,
           [Next]_vars
    PROVE  SnapshotsAreFinal'
<1>0. /\ bridge.inc \in Nat /\ bridge'.inc \in Nat /\ bridge'.inc >= bridge.inc
      /\ \A m : WasSaid(m) => m \in Nat /\ m <= said
      /\ \A e \in log : e[1] \in Nat
  <2>1. /\ bridge \in BridgeType /\ bridge' \in BridgeType /\ kind \in Kinds
        /\ log \subseteq (Incarnations \cup {None}) \X Messages
    BY TypeNext, Types, TypesNext
  <2>2. bridge.inc \in Nat /\ bridge'.inc \in Nat /\ bridge'.inc >= bridge.inc
    BY <2>1, BridgeAssumption, Speaking DEF BridgeType, BridgeSpeaks
  <2>3. kind.says \subseteq Nat
    BY <2>1, BridgeAssumption DEF KindType
  <2>4. \A e \in log : e[1] \in Nat
    BY <2>1 DEF Incarnations, None
  <2>5. QED
    BY <2>2, <2>3, <2>4 DEF WasSaid
<1>1. \/ session'.inc = session.inc \/ session'.inc = None
      \/ session'.inc = bridge.inc
  BY HolderChanges, RegisterDoes DEF SnapshotsAreCurrent
<1>2. ASSUME NEW e \in log', e[1] # None
      PROVE  /\ e[1] <= bridge'.inc
             /\ session'.inc = None \/ session'.inc >= e[1]
             /\ NotLive(e[2], e[1])'
  <2>1. CASE e \in log
    <3>1. /\ e[1] <= bridge.inc /\ (session.inc = None \/ session.inc >= e[1])
          /\ NotLive(e[2], e[1])
      BY <1>2, <2>1 DEF SnapshotsAreFinal
    <3>2. NotLive(e[2], e[1])'
      BY <1>0, <2>1, <3>1, StaysUnsent DEF AllSaid
    <3>3. QED
      BY <1>0, <1>1, <2>1, <3>1, <3>2
  <2>2. ASSUME NEW k \in calls, k.op = "register", e \in Snapshot(k), session'.inc = k.inc
        PROVE  /\ e[1] = bridge.inc /\ session'.inc = bridge.inc
               /\ NotLive(e[2], e[1])'
    <3>1. k.inc = bridge.inc /\ k.says = bridge.snap
      BY <2>2 DEF SnapshotsAreCurrent
    <3>2. e[1] = bridge.inc /\ e[2] \in bridge.snap
      BY <2>2, <3>1 DEF Snapshot
    <3>3. e[2] \in Nat /\ e[2] <= said /\ NotLive(e[2], e[1])
      BY <1>0, <3>2 DEF SnapshotsAreCurrent, AllSaid
    <3>4. QED
      BY <1>0, <2>2, <3>1, <3>2, <3>3, StaysUnsent
  <2>3. ~\E k \in calls : e \in LiveEvents(k)
    BY <1>2 DEF LiveEvents
  <2>4. QED
    BY <1>0, <2>1, <2>2, <2>3, Speaking DEF BridgeSpeaks
<1>3. QED
  BY <1>2 DEF SnapshotsAreFinal, NotLive

LEMMA OnceNext ==
    ASSUME TypeOK, BridgeRuns, SnapshotsAreFinal, MessageLoggedOnce, [Next]_vars
    PROVE  MessageLoggedOnce'
<1>1. CASE log' = log
  BY <1>1 DEF MessageLoggedOnce
<1>2. ASSUME NEW k \in calls, log' = log \cup Snapshot(k) PROVE MessageLoggedOnce'
  BY <1>2 DEF MessageLoggedOnce, Snapshot
<1>3. ASSUME NEW k \in calls, k.op = "events", Current(k), log' = log \cup LiveEvents(k)
      PROVE  MessageLoggedOnce'
  <2>1. k.inc \in Nat /\ session.inc = k.inc /\ session.inc # None
    BY <1>3, Types DEF CallType, Incarnations, Current, None
  <2>2. ASSUME NEW e \in log, NEW f \in LiveEvents(k), e[2] = f[2] PROVE e = f
    <3>1. f = <<None, f[2]>> /\ f[2] \in k.says /\ e = <<e[1], e[2]>>
      BY <2>2, Types DEF LiveEvents
    <3>2. e[1] = None
      BY <1>3, <2>1, <2>2, <3>1 DEF SnapshotsAreFinal, NotLive
    <3>3. QED
      BY <2>2, <3>1, <3>2
  <2>3. \A e, f \in LiveEvents(k) : e[2] = f[2] => e = f
    BY DEF LiveEvents
  <2>4. QED
    BY <1>3, <2>2, <2>3 DEF MessageLoggedOnce
<1>4. QED
  BY <1>1, <1>2, <1>3, Speaking DEF BridgeSpeaks

-----------------------------------------------------------------------------
(* The invariant.                                                            *)

LEMMA InitIInv == Init => IInv
<1> SUFFICES ASSUME Init PROVE IInv
  OBVIOUS
<1>1. TypeOK
  <2>1. kind \in KindType /\ kind.fleet \in BOOLEAN
    BY BridgeAssumption DEF Init, KindType
  <2>2. session \in SessionType
    BY <2>1 DEF Init, SessionType, Live
  <2>3. cmd \in [Commands -> Row] /\ bridge \in BridgeType /\ losses \in 0..MaxLosses
    BY BridgeAssumption DEF Init, Row, Absent, None, BridgeType
  <2>4. QED
    BY <2>2, <2>3, Types DEF Init
<1>2. BridgeRuns /\ AcksWereGiven /\ SettledWasGiven
  BY DEF Init, BridgeRuns, AcksWereGiven, SettledWasGiven, Absent
<1>3. ClaimsAreCurrent /\ QuestionIffAsked
  BY DEF Init, ClaimsAreCurrent, QuestionIffAsked, Absent
<1>4. AllSaid /\ Transcript
  BY DEF Init, AllSaid, Transcript, SnapshotsAreCurrent, SnapshotsAreFinal,
         MessageLoggedOnce, NotLive
<1>5. QED
  BY <1>1, <1>2, <1>3, <1>4 DEF IInv

LEMMA NextIInv == IInv /\ [Next]_vars => IInv'
<1> SUFFICES ASSUME IInv, [Next]_vars PROVE IInv'
  OBVIOUS
<1>1. TypeOK' /\ BridgeRuns'
  BY TypeNext DEF IInv
<1>2. AcksWereGiven' /\ SettledWasGiven' /\ ClaimsAreCurrent'
  BY AcksNext, SettledNext, ClaimsNext DEF IInv
<1>3. QuestionIffAsked' /\ AllSaid'
  BY QuestionNext, SaidNext DEF IInv
<1>4. (~kind.late => Transcript)'
  <2>1. kind' = kind
    BY Speaking DEF IInv, BridgeSpeaks
  <2>2. ASSUME ~kind.late PROVE Transcript'
    BY <2>2, CurrentNext, FinalNext, OnceNext DEF IInv, Transcript
  <2>3. QED
    BY <2>1, <2>2
<1>5. QED
  BY <1>1, <1>2, <1>3, <1>4 DEF IInv

LEMMA AlwaysIInv == Spec => []IInv
  BY InitIInv, NextIInv, PTL DEF Spec

\* Every variable has its type in every reachable state.
THEOREM TypeCorrect == Spec => []TypeOK
<1>1. IInv => TypeOK
  BY DEF IInv
<1>2. QED
  BY <1>1, AlwaysIInv, PTL

\* No claim of a replaced incarnation keeps a command from the bridge that
\* serves the session, whatever registrations arrive late.
THEOREM ClaimsStayCurrent == Spec => []ClaimsAreCurrent
<1>1. IInv => ClaimsAreCurrent
  BY DEF IInv
<1>2. QED
  BY <1>1, AlwaysIInv, PTL

\* No command is settled that its bridge has not received: a lost answer to a
\* poll costs no prompt.
THEOREM SettledWasReceived == Spec => []DeliveredWasReceived
<1>1. IInv => DeliveredWasReceived
  BY DEF IInv, SettledWasGiven, DeliveredWasReceived
<1>2. QED
  BY <1>1, AlwaysIInv, PTL

\* The question is there from the time the agent asks until the session leaves
\* the blocked state; blocked with none is what a batch of events has reported.
THEOREM QuestionsMatch == Spec => []QuestionIffAsked
<1>1. IInv => QuestionIffAsked
  BY DEF IInv
<1>2. QED
  BY <1>1, AlwaysIInv, PTL

\* The whole of SessionConsistent, for sessions whose agent is heard only
\* through registrations in their time: a registration of a replaced bridge
\* that is still applied would let that bridge store its live events beside
\* the snapshot of its successor.
THEOREM SessionStaysConsistent ==
    ASSUME \A k \in Kinds : k.late => k.says = {}
    PROVE  Spec => []SessionConsistent
<1>1. IInv => MessageLoggedOnce
  <2>1. SUFFICES ASSUME IInv, kind.late PROVE MessageLoggedOnce
    BY DEF IInv, Transcript
  <2>2. kind \in Kinds /\ \A e \in log : e[2] \in kind.says
    BY <2>1, Types DEF IInv, AllSaid, WasSaid
  <2>3. log = {}
    BY <2>1, <2>2
  <2>4. QED
    BY <2>3 DEF MessageLoggedOnce
<1>2. IInv => SessionConsistent
  BY <1>1 DEF IInv, SessionConsistent, SettledWasGiven, DeliveredWasReceived
<1>3. QED
  BY <1>2, AlwaysIInv, PTL

\* Nothing but the first acknowledgement of a prompt ends a question: not a
\* report, not a reload, not a repeated acknowledgement.
THEOREM OnlyAnswersUnblock == Spec => OnlyAnAnswerUnblocks
<1>1. IInv /\ [Next]_vars =>
        [(session.state = "blocked" /\ session'.state \notin Terminal \cup {"blocked"})
         => \E c \in kind.prompts : cmd[c].at = "claimed" /\ cmd'[c].at = "delivered"]_vars
  BY UnblockedByAnswer DEF IInv
<1>2. QED
  BY <1>1, AlwaysIInv, PTL DEF Spec, OnlyAnAnswerUnblocks

-----------------------------------------------------------------------------
(* The queue of commands implements CommandDelivery.                         *)

Offered == {c \in Commands : cmd[c].at # "absent"}
Settled == {c \in Commands : cmd[c].at = "delivered"}

LEMMA DeliveryInit == Init => Delivery!Init
  BY DEF Init, Delivery!Init, Absent, None

LEMMA DeliveryStep ==
    ASSUME IInv, [Next]_vars
    PROVE  Delivery!Next \/ UNCHANGED <<Offered, got, session.inc, Settled>>
<1>0. TypeOK /\ BridgeRuns /\ AcksWereGiven
  BY DEF IInv
<1>1. CASE Register
  <2>1. PICK k \in calls : /\ session'.inc = k.inc /\ cmd' = Unclaimed(k.inc)
                           /\ UNCHANGED got
    BY <1>0, <1>1, RegisterDoes
  <2>2. UNCHANGED <<Offered, Settled>>
    BY <2>1 DEF Offered, Settled, Unclaimed
  <2>3. k.inc \in Incarnations
    BY <1>0, Types DEF CallType
  <2>4. Delivery!Replace(k.inc)
    BY <2>1, <2>2 DEF Delivery!Replace, Offered, Settled
  <2>5. QED
    BY <2>3, <2>4 DEF Delivery!Next
<1>2. CASE Claim
  <2>1. PICK k \in calls :
           /\ Current(k) /\ cmd' = HandedOut(k) /\ UNCHANGED session
           /\ got' = got \/ got' = [got EXCEPT ![k.inc] = @ \cup Mine(k)]
    BY <1>0, <1>2, ClaimDoes
  <2>2. UNCHANGED <<Offered, Settled>>
    BY <2>1 DEF Offered, Settled, HandedOut, Claimable
  <2>3. Mine(k) \in SUBSET (Offered \ Settled)
    BY <2>1 DEF Mine, Offered, Settled, HandedOut, Claimable
  <2>4. CASE got' = [got EXCEPT ![k.inc] = @ \cup Mine(k)]
    <3>1. Delivery!Take(k.inc)
      BY <2>1, <2>2, <2>3, <2>4 DEF Delivery!Take, Offered, Settled, Current
    <3>2. k.inc \in Incarnations
      BY <1>0, Types DEF CallType
    <3>3. QED
      BY <3>1, <3>2 DEF Delivery!Next
  <2>5. QED
    BY <2>1, <2>2, <2>4
<1>3. CASE Ack
  <2>1. PICK k \in calls, c \in Commands :
           /\ c \in k.cmds /\ Current(k) /\ UNCHANGED got
           /\ IF Acks(k, c)
              THEN /\ cmd' = [cmd EXCEPT ![c].at = "delivered"]
              ELSE UNCHANGED cmd
    BY <1>0, <1>3, AckDoes, Types DEF CallType
  <2>2. session'.inc = session.inc
    BY <1>0, <1>3, AckDoes, Types DEF SessionType
  <2>3. CASE ~Acks(k, c)
    BY <2>1, <2>2, <2>3 DEF Offered, Settled
  <2>4. CASE Acks(k, c)
    <3>1. \A d \in Commands : cmd'[d].at = IF d = c THEN "delivered" ELSE cmd[d].at
      BY <1>0, <2>1, <2>4, Types DEF Row
    <3>2. Offered' = Offered /\ Settled' = Settled \cup {c}
      BY <2>4, <3>1 DEF Offered, Settled, Acks
    <3>3. k.inc \in Incarnations /\ c \in got[k.inc]
      BY <1>0, <2>1, Types DEF CallType, AcksWereGiven
    <3>4. Delivery!Settle(k.inc, c)
      BY <2>1, <2>2, <3>2, <3>3 DEF Delivery!Settle, Offered, Settled, Current
    <3>5. QED
      BY <3>3, <3>4 DEF Delivery!Next
  <2>5. QED
    BY <2>3, <2>4
<1>4. ASSUME NEW c \in Commands, Enqueue(c)
      PROVE  Delivery!Next
  <2>1. \A d \in Commands : cmd'[d].at = IF d = c THEN "queued" ELSE cmd[d].at
    BY <1>0, <1>4, Types DEF Enqueue, Row
  <2>2. Offered' = Offered \cup {c} /\ Settled' = Settled
    BY <1>4, <2>1 DEF Enqueue, Offered, Settled
  <2>3. Delivery!Offer(c)
    BY <1>4, <2>2 DEF Enqueue, Delivery!Offer, Offered, Settled
  <2>4. QED
    BY <2>3 DEF Delivery!Next
<1>5. CASE Finish
  <2>1. Delivery!Replace(0)
    BY <1>5 DEF Finish, Delivery!Replace, None
  <2>2. QED
    BY <2>1 DEF Delivery!Next
<1>6. CASE LeaseRunsOut
  <2>1. \A d \in Commands : cmd'[d].at = cmd[d].at
    BY <1>0, <1>6, Types DEF LeaseRunsOut, Row
  <2>2. QED
    BY <1>6, <2>1 DEF LeaseRunsOut, Offered, Settled
<1>7. CASE UNCHANGED <<cmd, got>> /\ session'.inc = session.inc
  BY <1>7 DEF Offered, Settled
<1>8. QED
  <2>1. Refuse \/ ApplyEvents \/ SetBlocked \/ Sending
        \/ (\E op \in Ops : Authorize(op)) =>
          UNCHANGED <<cmd, got>> /\ session'.inc = session.inc
    BY <1>0, RefuseDoes, ApplyEventsDoes, AskDoes, SendingSends, AuthorizeDoes DEF Send
  <2>2. UNCHANGED vars \/ StartBridge \/ StopBridge \/ Say
        \/ (\E c \in Commands : SendPrompt(c) \/ Interrupt(c) \/ Configure(c)) =>
          UNCHANGED <<cmd, got>> /\ session'.inc = session.inc
    BY DEF vars, StartBridge, StopBridge, Say, SendPrompt, Interrupt, Configure, Checked
  <2>3. QED
    BY <1>1, <1>2, <1>3, <1>4, <1>5, <1>6, <1>7, <2>1, <2>2 DEF Next, Serve, Sending

\* Every step of bridges and server is one that CommandDelivery allows: a
\* command is handed out only after it was written, and settled only by the
\* incarnation that serves the session and has received it.
THEOREM QueueDelivers == Spec => DeliversCommands
<1>1. IInv /\ [Next]_vars => [Delivery!Next]_(Delivery!vars)
  BY DeliveryStep DEF Delivery!vars, Offered, Settled
<1>2. QED
  BY <1>1, DeliveryInit, AlwaysIInv, PTL DEF Spec, DeliversCommands, Delivery!Spec
=============================================================================
