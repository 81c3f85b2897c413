------------------------------ MODULE PiBridge ------------------------------
(* One bridge-backed Pi session: the bridge endpoints of heartbeat.py and    *)
(* the rows of db.py they work on. A bridge (outside the repository) runs in *)
(* the agent's terminal; every start or reload gives it a new incarnation.   *)
(* Its requests may be delayed past its own replacement and their answers    *)
(* may be lost, in which case it sends them again.                           *)
(*                                                                           *)
(* A request is served in two steps, as in the code: require_role reads the  *)
(* caller's row, then the handler runs under _pi_bridge_lock. Every locked   *)
(* section is one action. Left out: names, hosts, terminal fields, times,    *)
(* the has_pending_messages hint (see Fleet) and the events the server adds  *)
(* on its own account (see SharedConnection).                                        *)
EXTENDS Naturals, FiniteSets

CONSTANTS Commands,      \* ids of pi_session_commands
          Messages,      \* 1..n: what the agent says, in order
          Kinds,         \* the kinds of session to look at, see KindType
          MaxIncarnation,
          Reported,      \* states a batch of events may report, NoState included
          MaxLosses,     \* answers that get lost
          MaxCalls       \* requests in flight

\* fleet: a task launched by the fleet, with a token of its own; prompts: the
\* commands that are prompts, the others steer the bridge; says: what its agent
\* has to say; late: its registrations may be delayed past a reload.
KindType == [fleet : BOOLEAN, prompts : SUBSET Commands, says : SUBSET Messages,
             late : BOOLEAN]

\* models.py:251 lets a batch report any state, and "blocked" too, or none at
\* all. "failed" stands for termination_unknown as well, which is treated alike.
Terminal == {"stopped", "failed"}
Live == {"starting", "idle", "working", "blocked"}
NoState == "none"

ASSUME BridgeAssumption ==
    /\ Kinds \subseteq KindType
    /\ MaxIncarnation \in Nat
    /\ MaxCalls \in Nat
    /\ MaxLosses \in Nat
    /\ Reported \subseteq Live \cup Terminal \cup {NoState}
    /\ Messages \subseteq Nat \ {0}

Incarnations == 1..MaxIncarnation
None == 0                \* bridge_incarnation NULL, claimed_by ''

Ops == {"register", "poll", "ack", "events", "ask"}

VARIABLES
    kind,     \* the kind of the session, which never changes
    session,  \* row of pi_sessions; asked, a history: its agent has asked since
              \* it became blocked
    cmd,      \* rows of pi_session_commands
    log,      \* rows of pi_session_events that carry a message: <<id, m>>
    passed,   \* commands whose handler has looked at the session
    calls,    \* requests between the bridge and the server
    bridge,   \* what the latest incarnation of the bridge knows
    got,      \* got[i]: commands in the answers that reached incarnation i
    said,     \* number of messages the agent has completed
    losses

vars == <<kind, session, cmd, log, passed, calls, bridge, got, said, losses>>

Row == [at : {"absent", "queued", "claimed", "delivered"},
        by : Incarnations \cup {None}, old : BOOLEAN]
Absent == [at |-> "absent", by |-> None, old |-> FALSE]

Init ==
    /\ kind \in Kinds
    /\ session = [state |-> IF kind.fleet THEN "starting" ELSE "none", question |-> FALSE,
                  asked |-> FALSE, inc |-> None, token |-> kind.fleet]
    /\ cmd = [c \in Commands |-> Absent]
    /\ log = {}
    /\ passed = {}
    /\ calls = {}
    /\ bridge = [inc |-> 0, up |-> FALSE, ready |-> FALSE,
                 snap |-> {}, unacked |-> {}, outbox |-> {}]
    /\ got = [i \in Incarnations |-> {}]
    /\ said = 0
    /\ losses = 0

----------------------------------------------------------------------------
(* The bridge.                                                               *)

Call(op, cs, ms, st) ==
    [op |-> op, inc |-> bridge.inc, cmds |-> cs, says |-> ms, state |-> st, auth |-> FALSE]

\* A start or a reload. The latest message becomes the snapshot for the
\* registrations; what the old incarnation had not sent is gone.
StartBridge ==
    /\ bridge.inc < MaxIncarnation
    /\ bridge' = [inc |-> bridge.inc + 1, up |-> TRUE, ready |-> FALSE,
                  snap |-> kind.says \cap {said}, unacked |-> {}, outbox |-> {}]
    /\ calls' = {k \in calls : kind.late \/ k.op # "register"}
    /\ UNCHANGED <<kind, session, cmd, log, passed, got, said, losses>>

StopBridge ==
    /\ bridge.up
    /\ bridge' = [bridge EXCEPT !.up = FALSE, !.ready = FALSE]
    /\ UNCHANGED <<kind, session, cmd, log, passed, calls, got, said, losses>>

Say ==
    /\ bridge.ready
    /\ said + 1 \in kind.says
    /\ said' = said + 1
    /\ bridge' = [bridge EXCEPT !.outbox = @ \cup {said + 1}]
    /\ UNCHANGED <<kind, session, cmd, log, passed, calls, got, losses>>

Send(k) ==
    /\ \A l \in calls : <<l.op, l.inc>> # <<k.op, k.inc>>
    /\ Cardinality(calls) < MaxCalls
    /\ calls' = calls \cup {k}
    /\ UNCHANGED <<kind, session, cmd, log, passed, bridge, got, said, losses>>

SendRegister ==
    /\ bridge.up /\ ~bridge.ready
    /\ Send(Call("register", {}, bridge.snap, "idle"))
SendPoll == bridge.ready /\ Send(Call("poll", {}, {}, "idle"))
SendAck == \E c \in bridge.unacked : bridge.ready /\ Send(Call("ack", {c}, {}, "idle"))
SendEvents ==
    \E st \in Reported : bridge.ready /\ Send(Call("events", {}, bridge.outbox, st))
SendAsk == kind.fleet /\ bridge.ready /\ Send(Call("ask", {}, {}, "idle"))

\* The answer to k reaches its bridge, if that incarnation still runs, or is
\* lost. Learnt is what the bridge knows once it has read the answer.
Answered(k, learnt) ==
    \/ /\ bridge' = IF bridge.up /\ bridge.inc = k.inc THEN learnt ELSE bridge
       /\ UNCHANGED losses
    \/ /\ losses < MaxLosses
       /\ losses' = losses + 1
       /\ UNCHANGED bridge

----------------------------------------------------------------------------
(* The server.                                                               *)

\* require_role: a session's token works while its row holds its hash and is
\* not finished. Plain bridges use the operator's token.
Accepts == ~kind.fleet \/ (session.token /\ session.state \notin Terminal)

Authorize(op) ==
    \E k \in calls :
        /\ k.op = op /\ ~k.auth
        /\ calls' = (calls \ {k}) \cup (IF Accepts THEN {[k EXCEPT !.auth = TRUE]} ELSE {})
        /\ UNCHANGED <<kind, session, cmd, log, passed, bridge, got, said, losses>>

Served(k, op) == k.op = op /\ k.auth /\ calls' = calls \ {k}
CurrentAny(k) == k.inc # None
Current(k) == session.inc = k.inc

\* A request of a replaced incarnation gets 409; its bridge registers again.
Refuse ==
    \E k \in calls :
        /\ \E op \in {"poll", "ack", "events"} : Served(k, op)
        /\ ~Current(k)
        /\ Answered(k, [bridge EXCEPT !.ready = FALSE])
        /\ UNCHANGED <<kind, session, cmd, log, passed, got, said>>

UnclaimedNever(i) == cmd
\* Commands another incarnation has claimed and not acknowledged are freed.
Unclaimed(i) ==
    [c \in Commands |-> IF cmd[c].at = "claimed" /\ cmd[c].by # i
                        THEN [at |-> "queued", by |-> None, old |-> FALSE] ELSE cmd[c]]

\* A message of the snapshot is added only if no event carries it yet.
Snapshot(k) == {<<k.inc, m>> : m \in {m \in k.says : \A e \in log : e[2] # m}}

RegisteredState == IF session.state = "blocked" THEN "blocked" ELSE "idle"

Register ==
    \E k \in calls :
        /\ Served(k, "register")
        /\ session' = [session EXCEPT !.state = RegisteredState, !.inc = k.inc,
                          !.asked = @ /\ RegisteredState = "blocked"]
        /\ cmd' = Unclaimed(k.inc)
        /\ log' = log \cup Snapshot(k)
        /\ Answered(k, [bridge EXCEPT !.ready = TRUE])
        /\ UNCHANGED <<kind, passed, got, said>>

\* INSERT OR IGNORE: the id of a live event is the same in every retry.
LiveEvents(k) == {<<None, m>> : m \in k.says}

ReportedRaw(k) == k.state
\* A blocked session leaves that state only for a terminal one; a batch may
\* bring any session into it, with no question.
ReportedState(k) ==
    IF k.state # NoState /\ (session.state # "blocked" \/ k.state \in Terminal)
    THEN k.state ELSE session.state

ApplyEvents ==
    \E k \in calls :
        /\ Served(k, "events")
        /\ Current(k)
        /\ session' = [session EXCEPT !.state = ReportedState(k),
                          !.question = @ /\ ReportedState(k) \notin Terminal,
                          !.asked = @ /\ ReportedState(k) = "blocked"]
        /\ log' = log \cup LiveEvents(k)
        /\ Answered(k, [bridge EXCEPT !.outbox = @ \ k.says])
        /\ UNCHANGED <<kind, cmd, passed, got, said>>

\* claimed_by = '', or mine, or the lease has run out.
Claimable(i) ==
    {c \in Commands : \/ cmd[c].at = "queued"
                      \/ cmd[c].at = "claimed" /\ (cmd[c].by = i \/ cmd[c].old)}

HandedOut(k) ==
    [c \in Commands |-> IF c \in Claimable(k.inc)
                        THEN [at |-> "claimed", by |-> k.inc, old |-> FALSE] ELSE cmd[c]]

Claim ==
    \E k \in calls :
        /\ Served(k, "poll")
        /\ Current(k)
        /\ cmd' = HandedOut(k)
        /\ LET mine == {c \in Commands : cmd'[c].at = "claimed" /\ cmd'[c].by = k.inc}
           IN  /\ Answered(k, [bridge EXCEPT !.unacked = @ \cup mine])
               /\ got' = IF bridge' # bridge THEN [got EXCEPT ![k.inc] = @ \cup mine] ELSE got
        /\ UNCHANGED <<kind, session, log, passed, said>>

\* Thirty seconds without an acknowledgement.
LeaseRunsOut ==
    \E c \in Commands :
        /\ cmd[c].at = "claimed" /\ ~cmd[c].old
        /\ cmd' = [cmd EXCEPT ![c].old = TRUE]
        /\ UNCHANGED <<kind, session, log, passed, calls, bridge, got, said, losses>>

AcksAgain(k, c) == cmd[c].at \in {"claimed", "delivered"} /\ cmd[c].by = k.inc
Acks(k, c) == cmd[c].at = "claimed" /\ cmd[c].by = k.inc

\* The acknowledgement of a prompt answers the question of a blocked session.
Ack ==
    \E k \in calls : \E c \in k.cmds :
        /\ Served(k, "ack")
        /\ Current(k)
        /\ cmd' = IF Acks(k, c) THEN [cmd EXCEPT ![c].at = "delivered"] ELSE cmd
        /\ session' = IF Acks(k, c) /\ c \in kind.prompts /\ session.state = "blocked"
                      THEN [session EXCEPT !.state = "working", !.question = FALSE, !.asked = FALSE]
                      ELSE session
        /\ Answered(k, [bridge EXCEPT !.unacked = @ \ {c}])
        /\ UNCHANGED <<kind, log, passed, got, said>>

\* ask-pm: refused once the session is finished.
SetBlocked ==
    \E k \in calls :
        /\ Served(k, "ask")
        /\ session' = IF session.state \in Terminal THEN session
                      ELSE [session EXCEPT !.state = "blocked", !.question = TRUE, !.asked = TRUE]
        /\ UNCHANGED <<kind, cmd, log, passed, bridge, got, said, losses>>

\* The senders look at the session first and enqueue later. A prompt only
\* needs a row; interrupt and configure need a bridge that is active.
Checked(c) ==
    /\ passed' = passed \cup {c}
    /\ UNCHANGED <<kind, session, cmd, log, calls, bridge, got, said, losses>>

Active ==
    /\ session.inc # None
    /\ session.state \in {"working", "idle", "blocked"}

SendPrompt(c) == c \in kind.prompts /\ session.state # "none" /\ Checked(c)
Interrupt(c) == c \notin kind.prompts /\ Active /\ Checked(c)
Configure(c) == c \notin kind.prompts /\ Active /\ Checked(c)

Enqueue(c) ==
    /\ cmd[c].at = "absent"
    /\ c \in passed
    /\ cmd' = [cmd EXCEPT ![c].at = "queued"]
    /\ UNCHANGED <<kind, session, log, passed, calls, bridge, got, said, losses>>

\* finish_pi_session, called by the orchestrator for its own sessions.
Finish ==
    /\ kind.fleet
    /\ \E st \in Terminal :
          session' = [state |-> st, question |-> FALSE, asked |-> FALSE,
                      inc |-> None, token |-> FALSE]
    /\ UNCHANGED <<kind, cmd, log, passed, calls, bridge, got, said, losses>>

----------------------------------------------------------------------------
Serve == Refuse \/ Register \/ ApplyEvents \/ Claim \/ Ack \/ SetBlocked

Next ==
    \/ StartBridge \/ StopBridge \/ Say
    \/ SendRegister \/ SendPoll \/ SendAck \/ SendEvents \/ SendAsk
    \/ Serve
    \/ \E op \in Ops : Authorize(op)
    \/ LeaseRunsOut \/ Finish
    \/ \E c \in Commands : SendPrompt(c) \/ Interrupt(c) \/ Configure(c) \/ Enqueue(c)

Spec == Init /\ [][Next]_vars

\* The bridge keeps polling and retrying, the server answers what it receives.
\* MaxCalls is a bound of the model and starves none of the bridge's loops.
Fairness ==
    /\ SF_vars(SendRegister) /\ SF_vars(SendPoll) /\ SF_vars(SendAck)
    /\ \A op \in Ops : WF_vars(Authorize(op))
    /\ WF_vars(Refuse) /\ WF_vars(Register) /\ WF_vars(ApplyEvents)
    /\ WF_vars(Claim) /\ WF_vars(Ack) /\ WF_vars(SetBlocked)

FairSpec == Spec /\ Fairness

----------------------------------------------------------------------------
(* Properties.                                                               *)

\* Every variable has its type (rows and requests as the models define them).
TypeOK ==
    /\ kind \in Kinds
    /\ session \in [state : Live \cup Terminal \cup {"none"}, question : BOOLEAN,
                    asked : BOOLEAN, inc : Incarnations \cup {None}, token : BOOLEAN]
    /\ cmd \in [Commands -> Row]
    /\ log \subseteq (Incarnations \cup {None}) \X Messages
    /\ passed \subseteq Commands
    /\ calls \subseteq [op : Ops, inc : Incarnations, cmds : SUBSET Commands,
                       says : SUBSET Messages, state : Reported \cup {"idle"}, auth : BOOLEAN]
    /\ bridge \in [inc : 0..MaxIncarnation, up : BOOLEAN, ready : BOOLEAN,
                   snap : SUBSET Messages, unacked : SUBSET Commands,
                   outbox : SUBSET Messages]
    /\ got \in [Incarnations -> SUBSET Commands]
    /\ said \in Nat
    /\ losses \in 0..MaxLosses

\* A command in the hands of a bridge is in the hands of the incarnation that
\* serves the session: nothing is kept from the new bridge by a claim of the
\* old one, with or without the 30 s lease of claim_pi_session_commands.
ClaimsAreCurrent ==
    session.inc # None =>
        \A c \in Commands : cmd[c].at = "claimed" => cmd[c].by = session.inc

\* delivered_at is set only for a command that the claiming incarnation has
\* received: a lost answer to a poll never costs a prompt.
DeliveredWasReceived ==
    \A c \in Commands : cmd[c].at = "delivered" => c \in got[cmd[c].by]

\* A question is there from the time the agent asks until the session leaves
\* the blocked state, whatever the bridge reports, reloads or acknowledges in
\* between; a blocked session without one was blocked by a batch of events.
QuestionIffAsked ==
    /\ session.question <=> session.asked
    /\ session.asked => session.state = "blocked"

\* The transcript holds a message once, although it may arrive as a live event
\* and in the snapshot of a reload, each sent more than once.
MessageLoggedOnce ==
    \A e, f \in log : e[2] = f[2] => e = f

\* Only a prompt that is acknowledged for the first time answers a question;
\* a repeated acknowledgement leaves a later question alone.
OnlyAnAnswerUnblocks ==
    [][(session.state = "blocked" /\ session'.state \notin Terminal \cup {"blocked"})
       => \E c \in kind.prompts : cmd[c].at = "claimed" /\ cmd'[c].at = "delivered"]_vars

\* What the server stores of a session agrees with itself and with what its
\* bridge was given, whatever arrives late, twice or from an old incarnation:
\* the claims, the settled commands, the question and the transcript
\* (db.py:621-849).
SessionConsistent ==
    /\ TypeOK
    /\ ClaimsAreCurrent
    /\ DeliveredWasReceived
    /\ QuestionIffAsked
    /\ MessageLoggedOnce

\* The queue keeps what CommandDelivery promises.
Delivery == INSTANCE CommandDelivery WITH
    offered <- {c \in Commands : cmd[c].at # "absent"},
    taken <- got,
    holder <- session.inc,
    settled <- {c \in Commands : cmd[c].at = "delivered"}

\* Every step of the bridge and the server is one CommandDelivery allows:
\* a command is settled only by the incarnation that serves the session, and
\* only after it was taken (claim_pi_session_commands, ack_pi_session_command).
DeliversCommands == Delivery!Spec

\* While a bridge runs that the server accepts, what is queued for it gets
\* acknowledged, whatever answers are lost and registrations come late.
CommandsArrive ==
    \A c \in Commands :
        cmd[c].at = "queued" ~> (cmd[c].at = "delivered" \/ ~bridge.up \/ ~Accepts)

=============================================================================
