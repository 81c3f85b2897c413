---------------------------- MODULE TerminalEnds ----------------------------
(***************************************************************************)
(* The two ends of a terminal attachment: the gateway's reservations       *)
(* (GatewayAttachments) and the native client (TerminalAttach).  They have *)
(* no state in common, so what one does is the same whatever the other     *)
(* does: a behaviour moves one of them and leaves the other as it began.   *)
(***************************************************************************)
EXTENDS GatewayAttachments, Integers, Sequences

CONSTANTS Urls, Kinds, Frames, Codes, MaxKeys, MaxFrames, MaxResizes

VARIABLES
    part,     \* the one that moves
    url, pc, raw, sock, relayStuck, tty, queue, inp, out, rsz, cyc, frames,
    size, last, ready, shown, stale, forwarded, seenKeys, result,
    typed, sent, resized

Client == INSTANCE TerminalAttach WITH at <- url, stuck <- relayStuck

ASSUME ClientAssumption == Client!ClientConstants

clientVars == <<url, pc, raw, sock, relayStuck, tty, queue, inp, out, rsz,
                cyc, frames, size, last, ready, shown, stale, forwarded,
                seenKeys, result, typed, sent, resized>>
allVars == <<part, vars, clientVars>>

AllInit == part \in {"gateway", "client"} /\ Init /\ Client!Init

GatewayMoves == part = "gateway" /\ UNCHANGED <<part, clientVars>>
ClientMoves == part = "client" /\ UNCHANGED <<part, vars>>

AllNext == (GatewayMoves /\ Next) \/ (ClientMoves /\ Client!Next)

AllSpec == AllInit /\ [][AllNext]_allVars

\* The fairness of each.
FairAllSpec ==
    /\ AllSpec
    /\ WF_allVars(GatewayMoves /\ \E c \in Clients : ServerStep(c))
    /\ WF_allVars(ClientMoves /\ Client!ClientStep)

-----------------------------------------------------------------------------
\* The client's keys and control bytes, explained in TerminalAttach.
KeysConsistent == Client!KeysConsistent

\* Nobody waits for good at either end: a newcomer gets past its victim, a
\* replaced attachment that reads its messages leaves, a control byte ends the
\* attachment, and the size of the terminal reaches the relay.
AttachmentsProceed ==
    /\ NewcomerProceeds
    /\ EvictedLeaves
    /\ Client!ControlEndsAttachment
    /\ Client!SizeArrives
=============================================================================
