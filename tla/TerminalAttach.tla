--------------------------- MODULE TerminalAttach --------------------------
(***************************************************************************)
(* attach_terminal of pi_terminal.py: the native client of a session's     *)
(* terminal.  It dials the direct relay and then the gateway, and while    *)
(* attached runs four tasks (input, output, resize, cycle) until one of    *)
(* them ends; the others may end too before the attachment looks at them.  *)
(*                                                                         *)
(* A key is [n |-> its position, kind |-> "text", "detach" or "next"]      *)
(* ("previous" is as "next", the end of stdin as "detach").  Binary output *)
(* and its writing to the terminal are left out; code 1006 stands for      *)
(* every end other than 1000 and 4410.                                     *)
(***************************************************************************)
EXTENDS Naturals, Sequences, SequencesExt

CONSTANTS
    Urls,        \* how many addresses there are: 1, or 2 with the gateway
    Kinds,       \* kinds of keys the user types
    Frames,      \* status frames a relay sends: "connected", "replaced", "error"
    Codes,       \* how a relay ends: 1000, 4410, 1006 (no close frame)
    MaxKeys,     \* bound: keys typed
    MaxFrames,   \* bound: status frames sent
    MaxResizes   \* bound: changes of the terminal's size

VARIABLES
    at,        \* the address in use: 1..Urls
    pc,        \* "dial", "attached" or "ended"
    raw,       \* the terminal is in raw mode
    sock,      \* 0: open; otherwise the code it closed with
    stuck,     \* the relay has stopped reading
    tty,       \* keys typed and not read
    queue,     \* chunks read and not taken by the input task
    inp,       \* the input task: [state, text, then]
    out,       \* the output task: "run", or how it ended
    rsz,       \* the resize task: "run" or "failed"
    cyc,       \* the cycle task: "run" or "next"
    frames,    \* frames on their way
    size,      \* the terminal's size
    last,      \* last_size of _send_resizes; 0: None
    ready,     \* backend_ready
    shown,     \* the size the relay has applied
    stale,     \* a backend has connected and seen no change of size since: "no",
               \* "yes" or, before the first size was sent to its relay, "early"
    forwarded, \* keys that reached a relay
    seenKeys,  \* keys the current attachment's input task has taken
    result,    \* what attach_terminal returned or raised
    typed, sent, resized  \* counters of the bounds

conn == <<at, pc, raw, sock, stuck>>
keys == <<tty, queue, inp, forwarded, seenKeys, typed>>
win == <<size, last, ready, shown, stale, resized>>
vars == <<conn, keys, win, out, rsz, cyc, frames, result, sent>>

Idle == [state |-> "wait", text |-> <<>>, then |-> ""]
Controls == {"detach", "next"}

\* What the parameters are.
ClientConstants ==
    /\ Urls \in Nat \ {0} /\ MaxKeys \in Nat
    /\ Kinds \subseteq {"text"} \cup Controls
    /\ Codes \subseteq Nat

Init ==
    /\ at = 1 /\ pc = "dial" /\ raw = FALSE /\ sock = 0 /\ stuck = FALSE
    /\ tty = <<>> /\ queue = <<>> /\ inp = Idle
    /\ forwarded = <<>> /\ seenKeys = {} /\ typed = 0
    /\ out = "run" /\ rsz = "run" /\ cyc = "run"
    /\ frames = <<>> /\ sent = 0
    /\ size = 1 /\ last = 0 /\ ready = FALSE /\ shown = 1 /\ stale = "no"
    /\ resized = 0
    /\ result = "none"

-----------------------------------------------------------------------------
(* Dialling.                                                               *)

\* connect() succeeds: the URL carries the size the terminal had when
\* attach_terminal began; the terminal goes raw and the tasks start.
DialOk ==
    /\ pc = "dial"
    /\ pc' = "attached" /\ raw' = TRUE /\ sock' = 0 /\ stuck' = FALSE
    /\ queue' = <<>> /\ inp' = Idle /\ seenKeys' = {}
    /\ out' = "run" /\ rsz' = "run" /\ cyc' = "run" /\ frames' = <<>>
    /\ last' = 0 /\ shown' = 1 /\ stale' = "no"
    /\ UNCHANGED <<at, tty, forwarded, typed, size, ready, resized, result,
                   sent>>

\* What a transport failure does: the next address, or the end.
NextUrl ==
    IF at < Urls
      THEN /\ at' = at + 1
           /\ pc' = "dial"
           /\ UNCHANGED result
      ELSE /\ pc' = "ended"
           /\ result' = "unavailable"
           /\ UNCHANGED at

DialFails ==
    /\ pc = "dial"
    /\ NextUrl
    /\ UNCHANGED <<raw, sock, stuck, keys, win, out, rsz, cyc, frames, sent>>

-----------------------------------------------------------------------------
(* The user and the relay.                                                 *)

Type(k) ==
    /\ pc # "ended" /\ typed < MaxKeys
    /\ typed' = typed + 1
    /\ tty' = Append(tty, [n |-> typed + 1, kind |-> k])
    /\ UNCHANGED <<conn, queue, inp, forwarded, seenKeys, win, out, rsz, cyc,
                   frames, result, sent>>

Resize ==
    /\ pc # "ended" /\ resized < MaxResizes
    /\ resized' = resized + 1
    /\ size' = 3 - size
    /\ UNCHANGED <<conn, keys, last, ready, shown, stale, out, rsz, cyc,
                   frames, result, sent>>

\* An external request to show another agent.
CycleRequest ==
    /\ pc = "attached" /\ cyc = "run"
    /\ cyc' = "next"
    /\ UNCHANGED <<conn, keys, win, out, rsz, frames, result, sent>>

RelaySends(f) ==
    /\ pc = "attached" /\ sock = 0 /\ sent < MaxFrames
    /\ sent' = sent + 1
    /\ frames' = Append(frames, f)
    /\ UNCHANGED <<conn, keys, win, out, rsz, cyc, result>>

RelayCloses(c) ==
    /\ pc = "attached" /\ sock = 0
    /\ sock' = c
    /\ UNCHANGED <<at, pc, raw, stuck, keys, win, out, rsz, cyc, frames,
                   result, sent>>

\* The relay keeps the connection and reads no more: a send blocks.
RelayStops ==
    /\ pc = "attached" /\ sock = 0 /\ ~stuck
    /\ stuck' = TRUE
    /\ UNCHANGED <<at, pc, raw, sock, keys, win, out, rsz, cyc, frames,
                   result, sent>>

\* Mutant of PingTimeout: no pings.
NoPing == FALSE /\ UNCHANGED vars
\* ping_timeout: the client's library closes such a connection.
PingTimeout ==
    /\ pc = "attached" /\ sock = 0 /\ stuck
    /\ sock' = 1006
    /\ UNCHANGED <<at, pc, raw, stuck, keys, win, out, rsz, cyc, frames,
                   result, sent>>

-----------------------------------------------------------------------------
(* _stdin_chunks and _send_input.                                          *)

\* The reader callback: os.read takes all that was typed.
ReadStdin ==
    /\ pc = "attached" /\ tty # <<>>
    /\ queue' = Append(queue, tty)
    /\ tty' = <<>>
    /\ UNCHANGED <<conn, inp, forwarded, seenKeys, typed, win, out, rsz, cyc,
                   frames, result, sent>>

\* Where the first control byte of a chunk is; 0: there is none.
FirstControl(chunk) ==
    LET ctl == {i \in DOMAIN chunk : chunk[i].kind \in Controls}
    IN  IF ctl = {} THEN 0 ELSE CHOOSE i \in ctl : \A j \in ctl : i <= j

\* Mutant of Taken: the text after the control byte is forwarded too.
TakenWhole(chunk) ==
    LET i == FirstControl(chunk)
        Text(k) == k.kind = "text"
    IN  [state |-> "send", text |-> SelectSeq(chunk, Text),
         then |-> IF i = 0 THEN "" ELSE chunk[i].kind]
\* The input task with a chunk: what it sends first and what it returns.
Taken(chunk) ==
    LET i == FirstControl(chunk)
    IN  IF i = 0 THEN [state |-> "send", text |-> chunk, then |-> ""]
        ELSE IF i = 1
          THEN [state |-> "done", text |-> <<>>, then |-> chunk[1].kind]
          ELSE [state |-> "send", text |-> SubSeq(chunk, 1, i - 1),
                then |-> chunk[i].kind]

InputTakes ==
    /\ pc = "attached" /\ inp.state = "wait" /\ queue # <<>>
    /\ inp' = Taken(Head(queue))
    /\ queue' = Tail(queue)
    /\ seenKeys' = seenKeys \cup ToSet(Head(queue))
    /\ UNCHANGED <<conn, tty, forwarded, typed, win, out, rsz, cyc, frames,
                   result, sent>>

\* websocket.send: it raises when the connection is closed.
InputSends ==
    /\ pc = "attached" /\ inp.state = "send"
    /\ \/ /\ sock = 0 /\ ~stuck
          /\ forwarded' = forwarded \o inp.text
          /\ inp' = IF inp.then = "" THEN Idle
                    ELSE [inp EXCEPT !.state = "done", !.text = <<>>]
       \/ /\ sock # 0
          /\ inp' = [inp EXCEPT !.state = "failed"]
          /\ UNCHANGED forwarded
    /\ UNCHANGED <<conn, tty, queue, seenKeys, typed, win, out, rsz, cyc,
                   frames, result, sent>>

-----------------------------------------------------------------------------
(* _receive_output.                                                        *)

OutputFrame ==
    /\ pc = "attached" /\ out = "run" /\ frames # <<>>
    /\ frames' = Tail(frames)
    /\ CASE Head(frames) = "replaced" -> /\ out' = "select"
                                         /\ UNCHANGED <<ready, stale>>
         [] Head(frames) = "error" -> /\ out' = "error"
                                      /\ UNCHANGED <<ready, stale>>
         [] OTHER -> /\ ready' = TRUE
                     /\ stale' = IF last = 0 THEN "early" ELSE "yes"
                     /\ UNCHANGED out
    /\ UNCHANGED <<conn, keys, size, last, shown, resized, rsz, cyc, result,
                   sent>>

\* The stream ends: quietly, by replacement, or as an exception.
OutputEnds ==
    /\ pc = "attached" /\ out = "run" /\ frames = <<>> /\ sock # 0
    /\ out' = CASE sock = 1000 -> "closed"
                [] sock = 4410 -> "select"
                [] OTHER -> "failed"
    /\ UNCHANGED <<conn, keys, win, rsz, cyc, frames, result, sent>>

-----------------------------------------------------------------------------
(* _send_resizes: one turn of its loop, after SIGWINCH, backend_ready or   *)
(* half a second.                                                          *)

\* A refresh at the size that was sent last is a round trip by one column.
Nudges == ready /\ size = last

\* A size that the relay has already applied, the one of its URL or the last
\* one, is no change to the backend.
ResizeTurn ==
    /\ pc = "attached" /\ rsz = "run"
    /\ ready \/ size # last
    /\ \/ /\ sock = 0 /\ ~stuck
          /\ shown' = size
          /\ stale' = IF Nudges \/ size # shown THEN "no" ELSE stale
          /\ last' = size
          /\ ready' = FALSE
          /\ UNCHANGED rsz
       \/ /\ sock # 0
          /\ rsz' = "failed"
          /\ ready' = FALSE
          /\ UNCHANGED <<shown, stale, last>>
    /\ UNCHANGED <<conn, keys, size, resized, out, cyc, frames, result, sent>>

-----------------------------------------------------------------------------
(* asyncio.wait returns: the attachment looks at the tasks that have ended *)
(* by now and cancels the others.                                          *)

Ended == inp.state \in {"done", "failed"} \/ out # "run" \/ rsz # "run"
             \/ cyc # "run"

\* What ended the attachment: a direction, or the kind of the exception.
\* An exception of the resize task is raised last, whatever was decided.
Decision ==
    LET direction ==
            CASE cyc # "run" -> cyc
              [] cyc = "run" /\ inp.state = "done" -> inp.then
              [] cyc = "run" /\ inp.state = "failed" -> "transport"
              [] cyc = "run" /\ inp.state \notin {"done", "failed"}
                    /\ out # "run" ->
                    (CASE out = "failed" -> "transport" [] OTHER -> out)
              [] OTHER -> "detach"
    IN  IF direction \in {"transport", "closed", "error"} THEN direction
        ELSE IF rsz = "failed" THEN "transport"
        ELSE direction

\* raw_terminal's finally.
RawAfter == FALSE

Collect ==
    /\ pc = "attached" /\ Ended
    /\ raw' = RawAfter
    /\ IF Decision = "transport" THEN NextUrl
       ELSE /\ pc' = "ended"
            /\ result' = Decision
            /\ UNCHANGED at
    /\ UNCHANGED <<sock, stuck, keys, win, out, rsz, cyc, frames, sent>>

-----------------------------------------------------------------------------
Finished == pc = "ended" /\ UNCHANGED vars

ClientStep ==
    \/ DialOk \/ DialFails \/ PingTimeout \/ ReadStdin \/ InputTakes \/ InputSends
    \/ OutputFrame \/ OutputEnds \/ ResizeTurn \/ Collect

Next ==
    \/ \E k \in Kinds : Type(k)
    \/ Resize \/ CycleRequest
    \/ \E f \in Frames : RelaySends(f)
    \/ \E c \in Codes : RelayCloses(c)
    \/ RelayStops
    \/ ClientStep
    \/ Finished

Spec == Init /\ [][Next]_vars

\* The client's tasks run and its library's ping has a timeout; nothing is
\* assumed of the relay or the user.
FairSpec == Spec /\ WF_vars(ClientStep)

-----------------------------------------------------------------------------
\* Every variable is of its type, and the terminal is raw exactly while a
\* relay is attached: also between two addresses and after an exception.
TypeOK ==
    /\ at \in 1..Urls
    /\ pc \in {"dial", "attached", "ended"}
    /\ raw = (pc = "attached")
    /\ sock \in {0, 1006} \cup Codes
    /\ inp.state \in {"wait", "send", "done", "failed"}
    /\ out \in {"run", "select", "error", "closed", "failed"}
    /\ size \in {1, 2} /\ last \in {0, 1, 2} /\ shown \in {1, 2}
    /\ typed \in 0..MaxKeys
    /\ (result # "none") = (pc = "ended")

\* Keys reach the relays in the order they were typed and at most once,
\* also when the attachment moves to the gateway; a control byte is never
\* forwarded.
ForwardedInOrder ==
    /\ \A i \in DOMAIN forwarded : forwarded[i].kind = "text"
    /\ \A i, j \in DOMAIN forwarded : i < j => forwarded[i].n < forwarded[j].n

\* When the input task ended the attachment, it was by the first control
\* byte of all it had taken, and nothing typed after that byte went out.
FirstControlDecides ==
    (pc = "ended" /\ cyc = "run" /\ inp.state = "done"
        /\ result \in Controls) =>
        LET ctl == {k \in seenKeys : k.kind \in Controls}
            first == CHOOSE k \in ctl : \A o \in ctl : k.n <= o.n
        IN  /\ ctl # {}
            /\ result = first.kind
            /\ \A i \in DOMAIN forwarded : forwarded[i].n < first.n

\* A control byte that the client has read ends the attachment, even when
\* the relay has stopped reading and the text before it cannot be sent.
ControlEndsAttachment ==
    <>[](pc = "attached" => \A k \in seenKeys : k.kind \notin Controls)

\* While attached to a relay that reads, the size the relay has applied
\* becomes the terminal's, and a backend that connects after the client's first
\* report of its size sees a change of size and redraws.  One that connected
\* before need not: the first report, of the size in the URL, is no change.
SizeArrives ==
    <>[](pc = "attached" /\ sock = 0 /\ ~stuck => shown = size /\ stale # "yes")

\* Keys, control bytes and the terminal's mode are right however the four tasks
\* of an attachment end (attach_terminal, _send_input).
KeysConsistent ==
    /\ TypeOK
    /\ ForwardedInOrder
    /\ FirstControlDecides
=============================================================================
