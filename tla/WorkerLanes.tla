---------------------------- MODULE WorkerLanes ----------------------------
(***************************************************************************)
(* The ssh lanes of lanes.py and the executor of ssh.py that runs in them: *)
(* a call takes a slot of its worker's lane or waits for one, spawns an    *)
(* ssh process, talks to it, kills its process group if it must, and gives *)
(* the slot to the next waiter.                                            *)
(*                                                                         *)
(* No critical section of _WorkerLaneState.lock awaits anything, so that   *)
(* lock is never contended and each section is one step.                   *)
(***************************************************************************)
EXTENDS Integers, Sequences, FiniteSets

CONSTANTS
    Keys,          \* lane keys: worker ids and machine names
    Calls,         \* tasks that run _exec_ssh_bytes, one call after another
    MaxConcurrent, \* slots per lane
    MaxQueue,      \* waiters per lane
    CancelCleanup, \* may a task be cancelled while it kills its process group?
    LateErrors     \* may communicate raise when ssh is reaped and a descendant is not?

ASSUME LanesAssumption ==
    /\ Keys # {}
    /\ IsFiniteSet(Calls)
    /\ MaxConcurrent \in Nat \ {0}
    /\ MaxQueue \in Nat
    /\ CancelCleanup \in BOOLEAN
    /\ LateErrors \in BOOLEAN

VARIABLES
    available,  \* _WorkerLaneState.available, per lane
    inUse,      \* _WorkerLaneState.in_use
    waiters,    \* _WorkerLaneState.waiters: the calls whose futures wait, oldest first
    pc,         \* where each call is
    key,        \* the lane it uses
    group,      \* its process group: is the leader up, is a descendant up?
    open        \* FALSE once the application has shut the lanes down

vars == <<available, inUse, waiters, pc, key, group, open>>

NoGroup == [leader |-> FALSE, child |-> FALSE]
AnyKey == CHOOSE k \in Keys : TRUE

\* queued: its future waits; granted: its future is done and it owns a slot but
\* has not run yet; refused: its future was cancelled by shutdown; term, term2:
\* _terminate_async_process sent SIGTERM, in the handler and in the finally
\* block; kill: SIGKILL was sent.
Owning == {"granted", "spawn", "talk", "term", "term2", "kill"}
Places == {"idle", "queued", "refused"} \cup Owning

Owners(k) == {c \in Calls : pc[c] \in Owning /\ key[c] = k}

Init ==
    /\ available = [k \in Keys |-> MaxConcurrent]
    /\ inUse = [k \in Keys |-> 0]
    /\ waiters = [k \in Keys |-> <<>>]
    /\ pc = [c \in Calls |-> "idle"]
    /\ key = [c \in Calls |-> AnyKey]
    /\ group = [c \in Calls |-> NoGroup]
    /\ open = TRUE

-----------------------------------------------------------------------------
(* The lane.                                                               *)

\* acquire: a free slot, a place in the queue, or LaneTimeout(queue_full).
TakeSlot(c, k) ==
    /\ available[k] > 0 /\ waiters[k] = <<>>
    /\ available' = [available EXCEPT ![k] = @ - 1]
    /\ inUse' = [inUse EXCEPT ![k] = @ + 1]
    /\ pc' = [pc EXCEPT ![c] = "spawn"]
    /\ UNCHANGED waiters

HasRoom(k) == Len(waiters[k]) < MaxQueue

Enqueue(c, k) ==
    /\ available[k] = 0 \/ waiters[k] # <<>>
    /\ HasRoom(k)
    /\ waiters' = [waiters EXCEPT ![k] = Append(@, c)]
    /\ pc' = [pc EXCEPT ![c] = "queued"]
    /\ UNCHANGED <<available, inUse>>

Acquire(c, k) ==
    /\ open
    /\ pc[c] = "idle"
    /\ TakeSlot(c, k) \/ Enqueue(c, k)
    /\ key' = [key EXCEPT ![c] = k]
    /\ UNCHANGED <<group, open>>

\* Mutant: the newest waiter is served first.
NextWaiterNewest(k) == waiters[k][Len(waiters[k])]
\* popleft: the waiter that is served next.
NextWaiter(k) == Head(waiters[k])

\* The calls in a queue.
Elems(s) == {s[n] : n \in DOMAIN s}

\* deque.remove
Without(s, c) ==
    LET i == CHOOSE n \in DOMAIN s : s[n] = c
    IN  [n \in 1 .. Len(s) - 1 |-> IF n < i THEN s[n] ELSE s[n + 1]]

\* Mutant: the slot is freed and nobody is woken.
ReleaseFrees(c) ==
    LET k == key[c]
    IN  /\ pc' = [pc EXCEPT ![c] = "idle"]
        /\ inUse' = [inUse EXCEPT ![k] = @ - 1]
        /\ available' = [available EXCEPT ![k] = @ + 1]
        /\ UNCHANGED waiters

\* _release_locked by call c, which is then over: the slot goes straight to
\* the first waiter, with in_use unchanged, or becomes available.
Release(c) ==
    LET k == key[c]
    IN  IF waiters[k] # <<>>
        THEN /\ pc' = [pc EXCEPT ![c] = "idle", ![NextWaiter(k)] = "granted"]
             /\ waiters' = [waiters EXCEPT ![k] = Without(@, NextWaiter(k))]
             /\ UNCHANGED <<available, inUse>>
        ELSE /\ pc' = [pc EXCEPT ![c] = "idle"]
             /\ inUse' = [inUse EXCEPT ![k] = @ - 1]
             /\ available' = [available EXCEPT ![k] = @ + 1]
             /\ UNCHANGED waiters

\* The task of a granted waiter runs.
Wake(c) ==
    /\ pc[c] = "granted"
    /\ pc' = [pc EXCEPT ![c] = "spawn"]
    /\ UNCHANGED <<available, inUse, waiters, key, group, open>>

\* The wait timed out or the task was cancelled: _abandon_waiter takes the
\* future out of the queue.
LeaveQueue(c) ==
    /\ pc[c] = "queued"
    /\ pc' = [pc EXCEPT ![c] = "idle"]
    /\ waiters' = [waiters EXCEPT ![key[c]] = Without(@, c)]
    /\ UNCHANGED <<available, inUse, key, group, open>>

\* Mutant: the slot of a waiter that gave up is forgotten.
LeaveGrantedForgets(c) ==
    /\ pc[c] = "granted"
    /\ pc' = [pc EXCEPT ![c] = "idle"]
    /\ UNCHANGED <<available, inUse, waiters, key, group, open>>

\* The same, but the future is done already: the slot is passed on.
LeaveGranted(c) ==
    /\ pc[c] = "granted"
    /\ Release(c)
    /\ UNCHANGED <<key, group, open>>

\* A waiter whose future shutdown cancelled raises CancelledError.
Refused(c) ==
    /\ pc[c] = "refused"
    /\ pc' = [pc EXCEPT ![c] = "idle"]
    /\ UNCHANGED <<available, inUse, waiters, key, group, open>>

\* The application ends: every waiting future is cancelled.
Shutdown ==
    /\ open
    /\ open' = FALSE
    /\ waiters' = [k \in Keys |-> <<>>]
    /\ pc' = [c \in Calls |-> IF pc[c] = "queued" THEN "refused" ELSE pc[c]]
    /\ UNCHANGED <<available, inUse, key, group>>

-----------------------------------------------------------------------------
(* _exec_ssh_bytes, in the slot.                                           *)

\* The process group of call c is gone.
GroupGone(c) == group[c] = NoGroup

\* create_subprocess_exec: ssh runs, with or without a ProxyCommand child.
Spawn(c) ==
    /\ pc[c] = "spawn"
    /\ pc' = [pc EXCEPT ![c] = "talk"]
    /\ \E child \in BOOLEAN :
          group' = [group EXCEPT ![c] = [leader |-> TRUE, child |-> child]]
    /\ UNCHANGED <<available, inUse, waiters, key, open>>

\* There is no ssh command, or the task is cancelled while it spawns; asyncio
\* kills what it had started.
SpawnFails(c) ==
    /\ pc[c] = "spawn"
    /\ Release(c)
    /\ UNCHANGED <<key, group, open>>

\* communicate returns when every process that has the pipes is gone.
TalkDone(c) ==
    /\ pc[c] = "talk"
    /\ GroupGone(c)
    /\ Release(c)
    /\ UNCHANGED <<key, group, open>>

\* Mutant: the leader alone is killed, and the call is over.
GiveUpLeader(c) ==
    /\ pc[c] = "talk"
    /\ group' = [group EXCEPT ![c].leader = FALSE]
    /\ Release(c)
    /\ UNCHANGED <<key, open>>

\* The command timed out or the task was cancelled: SIGTERM to the group.
GiveUp(c) ==
    /\ pc[c] = "talk"
    /\ pc' = [pc EXCEPT ![c] = "term"]
    /\ UNCHANGED <<available, inUse, waiters, key, group, open>>

\* The finally block: kill the group again if the leader is not known dead.
Finally(c) ==
    \/ /\ group[c].leader
       /\ pc' = [pc EXCEPT ![c] = "term2"]
       /\ UNCHANGED <<available, inUse, waiters>>
    \/ /\ ~group[c].leader
       /\ Release(c)

\* communicate raises something else than a timeout or a cancellation: no
\* handler, only the finally block, which signals nobody if ssh was reaped.
TalkRaises(c) ==
    /\ pc[c] = "talk"
    /\ LateErrors \/ group[c].leader
    /\ Finally(c)
    /\ UNCHANGED <<key, group, open>>

\* _wait_for_async_process_group returned.
Terminated(c) == GroupGone(c)

TermDone(c) ==
    /\ pc[c] \in {"term", "term2", "kill"}
    /\ Terminated(c)
    /\ Release(c)
    /\ UNCHANGED <<key, group, open>>

\* Mutant: no escalation.
EscalateNever(c) == FALSE /\ UNCHANGED vars

\* The grace period is over: SIGKILL, which no process survives.
Escalate(c) ==
    /\ pc[c] \in {"term", "term2"}
    /\ ~GroupGone(c)
    /\ pc' = [pc EXCEPT ![c] = "kill"]
    /\ group' = [group EXCEPT ![c] = NoGroup]
    /\ UNCHANGED <<available, inUse, waiters, key, open>>

\* The task is cancelled while it waits for the group: the exception leaves the
\* handler for the finally block, or the finally block for good.
CancelTerm(c) ==
    /\ CancelCleanup
    /\ \/ pc[c] = "term" /\ Finally(c)
       \/ pc[c] = "term2" /\ Release(c)
    /\ UNCHANGED <<key, group, open>>

\* A process of the group exits: ssh is through, its child is, or SIGTERM works.
LeaderExits(c) ==
    /\ group[c].leader
    /\ group' = [group EXCEPT ![c].leader = FALSE]
    /\ UNCHANGED <<available, inUse, waiters, pc, key, open>>
ChildExits(c) ==
    /\ group[c].child
    /\ group' = [group EXCEPT ![c].child = FALSE]
    /\ UNCHANGED <<available, inUse, waiters, pc, key, open>>

-----------------------------------------------------------------------------
\* The steps of a call that waits for nothing but the event loop or a timer.
Proceed(c) ==
    \/ Wake(c) \/ Refused(c) \/ LeaveQueue(c)
    \/ Spawn(c) \/ TalkDone(c) \/ GiveUp(c) \/ TermDone(c) \/ Escalate(c)

Next ==
    \/ \E c \in Calls, k \in Keys : Acquire(c, k)
    \/ \E c \in Calls :
          \/ Proceed(c)
          \/ LeaveGranted(c) \/ SpawnFails(c) \/ TalkRaises(c) \/ CancelTerm(c)
          \/ LeaderExits(c) \/ ChildExits(c)
    \/ Shutdown

Spec == Init /\ [][Next]_vars

-----------------------------------------------------------------------------
(* Properties.                                                             *)

\* Every variable keeps its type.
TypeOK ==
    /\ available \in [Keys -> 0 .. MaxConcurrent]
    /\ inUse \in [Keys -> 0 .. MaxConcurrent]
    /\ waiters \in [Keys -> Seq(Calls)]
    /\ pc \in [Calls -> Places]
    /\ key \in [Calls -> Keys]
    /\ group \in [Calls -> [leader : BOOLEAN, child : BOOLEAN]]
    /\ open \in BOOLEAN

\* No slot is lost or made up: what a lane counts as in use is what calls own,
\* a waiter that timed out just as it was handed a slot included.
SlotsConserved ==
    \A k \in Keys :
        /\ inUse[k] = Cardinality(Owners(k))
        /\ available[k] + inUse[k] = MaxConcurrent

\* No wake-up is lost: a lane has no waiter while a slot of it is free, the
\* queue holds exactly the calls that wait, and never more than max_queue.
NoLostWakeup ==
    \A k \in Keys :
        /\ waiters[k] # <<>> => available[k] = 0
        /\ Elems(waiters[k]) = {c \in Calls : pc[c] = "queued" /\ key[c] = k}
        /\ Len(waiters[k]) <= MaxQueue

\* Lanes are FIFO: a call that gets a slot overtakes no call that has waited
\* longer for one of the same lane, newcomers included.
NoOvertaking ==
    [][\A k \in Keys : \A n \in DOMAIN waiters[k] : \A c \in Owners(k)' \ Owners(k) :
          pc'[waiters[k][n]] = "queued"
          => \E m \in 1 .. n - 1 : waiters[k][m] = c]_vars

\* "A cancelled or timed-out HTTP request can never leave an orphaned SSH
\* subprocess" (specs/MULTI_AGENT_RELIABILITY.md:15): when a call is over, its
\* process group is gone. It holds as long as CancelCleanup and LateErrors are
\* FALSE: a task that is cancelled while it kills leaves the rest of its group
\* behind, and so does an error after ssh was reaped.
NoOrphan == \A c \in Calls : pc[c] \notin Owning => GroupGone(c)

\* Between create_subprocess_exec and the end of the finally block.
Running == {"talk", "term", "term2", "kill"}

\* communicate raised after ssh was reaped.
RaisesLate(c) == TalkRaises(c) /\ ~group[c].leader

\* A step that ends a call with processes left cancels it while it kills, or is
\* an error after its ssh process was reaped.
ExplainedIfLeaving ==
    \A c \in Calls :
        (/\ pc[c] \in Running
         /\ pc'[c] \notin Running
         /\ ~GroupGone(c)')
        => CancelTerm(c) \/ RaisesLate(c)

\* A call whose command ran leaves processes behind in two ways only: a second
\* cancellation while it waits for the group it has signalled, and an error of
\* communicate when ssh is reaped and its ProxyCommand child is not. No timeout,
\* first cancellation, shutdown or error while ssh runs does.
OrphansAreExplained == [][ExplainedIfLeaving]_vars

\* Every process of a call, and every wait, is bounded by a timer, and the
\* event loop runs every task that is ready.
FairSpec == Spec /\ \A c \in Calls : WF_vars(Proceed(c))

\* Every call returns: it gets out of the queue, and gives its slot back even
\* if its ssh process ignores SIGTERM.
CallReturns == \A c \in Calls : pc[c] # "idle" ~> pc[c] = "idle"
=============================================================================
