-------------------------- MODULE CommandDelivery --------------------------
(* What the command queue of a Pi session promises to the people who write  *)
(* to it: a command is taken at least once, and it is settled only by an    *)
(* incarnation of the bridge that has taken it and that was not replaced.   *)
EXTENDS Naturals

CONSTANTS Commands, Incarnations

VARIABLES offered,   \* commands written so far
          taken,     \* taken[i]: commands that incarnation i has been given
          holder,    \* the incarnation that serves the session, 0 for none
          settled    \* commands that will never be handed out again

vars == <<offered, taken, holder, settled>>

Init ==
    /\ offered = {}
    /\ taken = [i \in Incarnations |-> {}]
    /\ holder = 0
    /\ settled = {}

Offer(c) ==
    /\ offered' = offered \cup {c}
    /\ UNCHANGED <<taken, holder, settled>>

Replace(i) ==
    /\ holder' = i
    /\ UNCHANGED <<offered, taken, settled>>

Take(i) ==
    /\ holder = i
    /\ \E S \in SUBSET (offered \ settled) :
          taken' = [taken EXCEPT ![i] = @ \cup S]
    /\ UNCHANGED <<offered, holder, settled>>

Settle(i, c) ==
    /\ holder = i
    /\ c \in taken[i]
    /\ settled' = settled \cup {c}
    /\ UNCHANGED <<offered, taken, holder>>

Next ==
    \/ \E c \in Commands : Offer(c)
    \/ \E i \in Incarnations \cup {0} : Replace(i)
    \/ \E i \in Incarnations : Take(i)
    \/ \E i \in Incarnations, c \in Commands : Settle(i, c)

Spec == Init /\ [][Next]_vars
=============================================================================
