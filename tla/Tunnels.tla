------------------------------ MODULE Tunnels ------------------------------
(***************************************************************************)
(* Port-forward tunnels and marimo sessions (heartbeat.py, tunnel_registry *)
(* .py, reaper.py, marimo.py, ssh_port_forward of ssh.py).                 *)
(*                                                                         *)
(* A tunnel is three things that live in different places: an ssh process  *)
(* group, an entry of the in-memory registry and a row of port_forwards.   *)
(* A marimo session adds a job on the worker and a row of its own.  Create *)
(* and delete handlers, the threads that stop processes, the reaper, the   *)
(* cancellation of requests and crashes of the server interleave.          *)
(***************************************************************************)
EXTENDS Naturals, FiniteSets

CONSTANTS
    Tunnels,      \* ids; each stands for one create request
    Marimo,       \* the ones made by marimo_create
    Ports,        \* local ports
    Deletes,      \* concurrent delete requests
    MaxFaults     \* bound on cancellations, errors and crashes

ASSUME TunnelsAssumption ==
    Tunnels # {} /\ Marimo \subseteq Tunnels /\ MaxFaults \in Nat

VARIABLES
    pc,        \* tunnel -> the point its create request has reached
    port,      \* tunnel -> local port
    proc,      \* tunnel -> none, live, exited (the leader is, descendants may not be), gone
    registry,  \* TunnelRegistry._entries
    rows,      \* port_forwards
    job,       \* marimo tunnel -> its job on the worker: none, live, over
    sessions,  \* marimo_sessions
    stopping,  \* tunnels with a thread in TunnelRegistry.stop
    del,       \* delete request -> [at, id, what]
    removed,   \* tunnels of which a delete request answered "removed"
    uncleaned, \* history: create requests cut short where nothing is rolled back
    unstopped, \* history: sessions deleted while their job ran, its worker pruned
    faults

vars == <<pc, port, proc, registry, rows, job, sessions, stopping, del, removed, uncleaned,
          unstopped, faults>>

NoPort == 0
CreateAt == {"idle", "start", "forward", "handshake", "insert", "cache", "ready",
             "session", "undo", "stop", "unrow", "unjob", "done", "failed", "refused"}
AtRest == {"idle", "done", "failed", "refused"}
DeleteAt == {"idle", "stopjob", "stop", "row", "session"}
Idle == [at |-> "idle", id |-> CHOOSE t \in Tunnels : TRUE, what |-> "tunnel"]

Init ==
    /\ pc = [t \in Tunnels |-> "idle"]
    /\ port = [t \in Tunnels |-> NoPort]
    /\ proc = [t \in Tunnels |-> "none"]
    /\ registry = {}
    /\ rows = {}
    /\ job = [t \in Tunnels |-> "none"]
    /\ sessions = {}
    /\ stopping = {}
    /\ del = [d \in Deletes |-> Idle]
    /\ removed = {}
    /\ uncleaned = {}
    /\ unstopped = {}
    /\ faults = 0

Fault == faults < MaxFaults /\ faults' = faults + 1
Runs(t) == proc[t] \in {"live", "exited"}

-----------------------------------------------------------------------------
(* tunnels_create *)

\* The conflict check reads the rows, not the registry.
TunnelsCreate(t) ==
    /\ pc[t] = "idle" /\ t \notin Marimo
    /\ \E p \in Ports :
        /\ port' = [port EXCEPT ![t] = p]
        /\ pc' = [pc EXCEPT ![t] = IF \E u \in rows : port[u] = p THEN "refused" ELSE "forward"]
    /\ UNCHANGED <<proc, registry, rows, job, sessions, stopping, del, removed, uncleaned, faults, unstopped>>

\* ssh_port_forward once it has the lane: Popen, then up to ten polls.
Popen(t) ==
    /\ pc[t] = "forward"
    /\ pc' = [pc EXCEPT ![t] = "handshake"]
    /\ proc' = [proc EXCEPT ![t] = "live"]
    /\ UNCHANGED <<port, registry, rows, job, sessions, stopping, del, removed, uncleaned, faults, unstopped>>

\* The lane was not free in time.
NoLane(t) ==
    /\ pc[t] = "forward"
    /\ Fault
    /\ pc' = [pc EXCEPT ![t] = "undo"]
    /\ UNCHANGED <<port, proc, registry, rows, job, sessions, stopping, del, removed, uncleaned, unstopped>>

\* The handshake is over and the caller polls the process once more.
Handshake(t) ==
    /\ pc[t] = "handshake"
    /\ pc' = [pc EXCEPT ![t] = IF proc[t] = "live" THEN "insert" ELSE "undo"]
    /\ UNCHANGED <<port, proc, registry, rows, job, sessions, stopping, del, removed, uncleaned, faults, unstopped>>

\* insert_port_forward; TunnelRegistry.add follows without an await.
InsertAdd(t) ==
    /\ pc[t] = "insert"
    /\ rows' = rows \cup {t}
    /\ registry' = registry \cup {t}
    /\ pc' = [pc EXCEPT ![t] = IF t \in Marimo THEN "ready" ELSE "cache"]
    /\ UNCHANGED <<port, proc, job, sessions, stopping, del, removed, uncleaned, faults, unstopped>>

\* The insert is cancelled or fails: its statement may have been executed.
InsertFails(t) ==
    /\ pc[t] = "insert"
    /\ Fault
    /\ rows' \in {rows, rows \cup {t}}
    /\ pc' = [pc EXCEPT ![t] = "undo"]
    /\ UNCHANGED <<port, proc, registry, job, sessions, stopping, del, removed, uncleaned, unstopped>>

\* cache.invalidate returned: the tunnel is answered.
Created(t) ==
    /\ pc[t] = "cache"
    /\ pc' = [pc EXCEPT ![t] = "done"]
    /\ UNCHANGED <<port, proc, registry, rows, job, sessions, stopping, del, removed, uncleaned, faults, unstopped>>

\* A cancellation while the handler waits, before and after Popen.
\* ssh_port_forward terminates the group itself, in the handler's own step.
CancelForwardLeaks(t) ==
    /\ pc[t] \in {"forward", "handshake"}
    /\ Fault
    /\ pc' = [pc EXCEPT ![t] = "unrow"]
    /\ UNCHANGED <<port, proc, registry, rows, job, sessions, stopping, del, removed, uncleaned, unstopped>>

CancelForward(t) ==
    /\ pc[t] \in {"forward", "handshake"}
    /\ Fault
    /\ pc' = [pc EXCEPT ![t] = "undo"]
    /\ proc' = IF Runs(t) THEN [proc EXCEPT ![t] = "gone"] ELSE proc
    /\ UNCHANGED <<port, registry, rows, job, sessions, stopping, del, removed, uncleaned, unstopped>>

CancelCreate(t) ==
    /\ pc[t] \in {"cache", "ready"}
    /\ Fault
    /\ pc' = [pc EXCEPT ![t] = "undo"]
    /\ UNCHANGED <<port, proc, registry, rows, job, sessions, stopping, del, removed, uncleaned, unstopped>>

-----------------------------------------------------------------------------
(* The rollback: a shielded task of its own *)

\* cleanup_failed_tunnel, cleanup_failed_start: the entry, or the bare process.
Undo(t) ==
    /\ pc[t] = "undo"
    /\ registry' = registry \ {t}
    /\ stopping' = IF Runs(t) THEN stopping \cup {t} ELSE stopping
    /\ pc' = [pc EXCEPT ![t] = IF Runs(t) THEN "stop" ELSE "unrow"]
    /\ UNCHANGED <<port, proc, rows, job, sessions, del, removed, uncleaned, faults, unstopped>>

\* The awaited thread has ended.
UndoStopped(t) ==
    /\ pc[t] = "stop" /\ t \notin stopping
    /\ pc' = [pc EXCEPT ![t] = "unrow"]
    /\ UNCHANGED <<port, proc, registry, rows, job, sessions, stopping, del, removed, uncleaned, faults, unstopped>>

\* delete_port_forward; a plain tunnel's rollback ends here.
UndoRowKept(t) ==
    /\ pc[t] = "unrow"
    /\ pc' = [pc EXCEPT ![t] = IF t \in Marimo THEN "unjob" ELSE "failed"]
    /\ UNCHANGED <<port, proc, registry, rows, job, sessions, stopping, del, removed, uncleaned, faults, unstopped>>

UndoRow(t) ==
    /\ pc[t] = "unrow"
    /\ rows' = rows \ {t}
    /\ pc' = [pc EXCEPT ![t] = IF t \in Marimo THEN "unjob" ELSE "failed"]
    /\ UNCHANGED <<port, proc, registry, job, sessions, stopping, del, removed, uncleaned, faults, unstopped>>

\* jm.stop_job in the rollback of marimo_create.
UndoJob(t) ==
    /\ pc[t] = "unjob"
    /\ job' = [job EXCEPT ![t] = IF job[t] = "live" THEN "over" ELSE job[t]]
    /\ pc' = [pc EXCEPT ![t] = "failed"]
    /\ UNCHANGED <<port, proc, registry, rows, sessions, stopping, del, removed, uncleaned, faults, unstopped>>

\* A failing delete or stop is logged and passed over; a second cancellation
\* reaches the cleanup task, which is awaited unshielded after the first.
UndoFails(t) ==
    /\ pc[t] \in {"stop", "unrow", "unjob"}
    /\ Fault
    /\ \E next \in {"failed"} \cup (IF pc[t] = "unrow" /\ t \in Marimo THEN {"unjob"} ELSE {}) :
        pc' = [pc EXCEPT ![t] = next]
    /\ uncleaned' = uncleaned \cup {t}
    /\ UNCHANGED <<port, proc, registry, rows, job, sessions, stopping, del, removed, unstopped>>

-----------------------------------------------------------------------------
(* marimo_create *)

\* allocate_local_port: the ports no process listens on.
FreePorts == Ports \ {port[u] : u \in {v \in Tunnels : proc[v] = "live"}}

MarimoCreate(t) ==
    /\ pc[t] = "idle" /\ t \in Marimo
    /\ \E p \in FreePorts : port' = [port EXCEPT ![t] = p]
    /\ pc' = [pc EXCEPT ![t] = "start"]
    /\ UNCHANGED <<proc, registry, rows, job, sessions, stopping, del, removed, uncleaned, faults, unstopped>>

\* allocate_worker_port: the worker does not answer with a port (422).
NoWorkerPort(t) ==
    /\ pc[t] = "idle" /\ t \in Marimo
    /\ pc' = [pc EXCEPT ![t] = "failed"]
    /\ UNCHANGED <<port, proc, registry, rows, job, sessions, stopping, del, removed, uncleaned, faults, unstopped>>

\* jm.start_job: launched, perhaps launched, or refused by the worker.
StartJob(t) ==
    /\ pc[t] = "start"
    /\ \/ /\ job' \in {job, [job EXCEPT ![t] = "live"]}
          /\ pc' = [pc EXCEPT ![t] = "forward"]
       \/ /\ pc' = [pc EXCEPT ![t] = "failed"]
          /\ UNCHANGED job
    /\ UNCHANGED <<port, proc, registry, rows, sessions, stopping, del, removed, uncleaned, faults, unstopped>>

\* Cancelled in start_job, before the try: nothing is rolled back.
CancelStart(t) ==
    /\ pc[t] = "start"
    /\ Fault
    /\ job' \in {job, [job EXCEPT ![t] = "live"]}
    /\ pc' = [pc EXCEPT ![t] = "failed"]
    /\ uncleaned' = uncleaned \cup {t}
    /\ UNCHANGED <<port, proc, registry, rows, sessions, stopping, del, removed, unstopped>>

\* wait_until_ready: /health answers through the tunnel, or the time is up.
Ready(t) ==
    /\ pc[t] = "ready"
    /\ \/ proc[t] = "live" /\ job[t] = "live" /\ pc' = [pc EXCEPT ![t] = "session"]
       \/ pc' = [pc EXCEPT ![t] = "undo"]
    /\ UNCHANGED <<port, proc, registry, rows, job, sessions, stopping, del, removed, uncleaned, faults, unstopped>>

InsertSession(t) ==
    /\ pc[t] = "session"
    /\ sessions' = sessions \cup {t}
    /\ pc' = [pc EXCEPT ![t] = "done"]
    /\ UNCHANGED <<port, proc, registry, rows, job, stopping, del, removed, uncleaned, faults, unstopped>>

\* Cancelled in insert_marimo_session, whose statement may have been executed.
InsertSessionFails(t) ==
    /\ pc[t] = "session"
    /\ Fault
    /\ \/ UNCHANGED <<sessions, uncleaned>>
       \/ sessions' = sessions \cup {t} /\ uncleaned' = uncleaned \cup {t}
    /\ pc' = [pc EXCEPT ![t] = "undo"]
    /\ UNCHANGED <<port, proc, registry, rows, job, stopping, del, removed, unstopped>>

-----------------------------------------------------------------------------
(* Deletes *)

\* TunnelRegistry.remove, and the thread that stops what it returned.
TakeGet(d, t, what) ==
    /\ stopping' = stopping \cup ({t} \cap registry)
    /\ del' = [del EXCEPT ![d] =
                 [at |-> IF t \in registry THEN "stop" ELSE "row", id |-> t, what |-> what]]
    /\ UNCHANGED registry

Take(d, t, what) ==
    /\ registry' = registry \ {t}
    /\ stopping' = stopping \cup ({t} \cap registry)
    /\ del' = [del EXCEPT ![d] =
                 [at |-> IF t \in registry THEN "stop" ELSE "row", id |-> t, what |-> what]]

TunnelsDelete(d) ==
    /\ del[d].at = "idle"
    /\ \E t \in rows : Take(d, t, "tunnel")
    /\ UNCHANGED <<pc, port, proc, rows, job, sessions, removed, uncleaned, faults, unstopped>>

\* marimo_delete: the session, its job and the worker are read, and the job is
\* stopped. The row of a worker may have been pruned under a running job, for only
\* the age of its heartbeat is asked (workers_prune): then nothing stops the job,
\* and the delete goes on.
MarimoDelete(d) ==
    /\ del[d].at = "idle"
    /\ \E t \in sessions :
        \/ /\ job[t] = "live"
           /\ del' = [del EXCEPT ![d] = [at |-> "stopjob", id |-> t, what |-> "session"]]
           /\ UNCHANGED <<registry, stopping, unstopped>>
        \/ job[t] # "live" /\ Take(d, t, "session") /\ UNCHANGED unstopped
        \/ job[t] = "live" /\ Take(d, t, "session") /\ unstopped' = unstopped \cup {t}
    /\ UNCHANGED <<pc, port, proc, rows, job, sessions, removed, uncleaned, faults>>

\* stop_marimo_session goes on only when the job could be stopped.
StopJob(d) ==
    /\ del[d].at = "stopjob"
    /\ job' = [job EXCEPT ![del[d].id] = "over"]
    /\ Take(d, del[d].id, "session")
    /\ UNCHANGED <<pc, port, proc, rows, sessions, removed, uncleaned, faults, unstopped>>

\* The worker is not reached (502), or the request is cancelled meanwhile.
StopJobFails(d) ==
    /\ del[d].at = "stopjob"
    /\ Fault
    /\ job' \in {job, [job EXCEPT ![del[d].id] = "over"]}
    /\ del' = [del EXCEPT ![d] = Idle]
    /\ UNCHANGED <<pc, port, proc, registry, rows, sessions, stopping, removed, uncleaned, unstopped>>

DeleteStopped(d) ==
    /\ del[d].at = "stop" /\ del[d].id \notin stopping
    /\ del' = [del EXCEPT ![d].at = "row"]
    /\ UNCHANGED <<pc, port, proc, registry, rows, job, sessions, stopping, removed, uncleaned, faults, unstopped>>

DeleteRow(d) ==
    /\ del[d].at = "row"
    /\ rows' = rows \ {del[d].id}
    /\ IF del[d].what = "tunnel"
       THEN /\ removed' = removed \cup {del[d].id}
            /\ del' = [del EXCEPT ![d] = Idle]
       ELSE /\ del' = [del EXCEPT ![d].at = "session"]
            /\ UNCHANGED removed
    /\ UNCHANGED <<pc, port, proc, registry, job, sessions, stopping, uncleaned, faults, unstopped>>

DeleteSession(d) ==
    /\ del[d].at = "session"
    /\ sessions' = sessions \ {del[d].id}
    /\ removed' = removed \cup {del[d].id}
    /\ del' = [del EXCEPT ![d] = Idle]
    /\ UNCHANGED <<pc, port, proc, registry, rows, job, stopping, uncleaned, faults, unstopped>>

\* A cancelled delete abandons its rows; its thread goes on.
CancelDelete(d) ==
    /\ del[d].at \in {"stop", "row", "session"}
    /\ Fault
    /\ del' = [del EXCEPT ![d] = Idle]
    /\ UNCHANGED <<pc, port, proc, registry, rows, job, sessions, stopping, removed, uncleaned, unstopped>>

-----------------------------------------------------------------------------
(* Processes, threads, the reaper, the server *)

\* _terminate_popen_process_group: SIGTERM, SIGKILL, the whole group is gone.
StopThread(t) ==
    /\ t \in stopping
    /\ stopping' = stopping \ {t}
    /\ proc' = [proc EXCEPT ![t] = "gone"]
    /\ UNCHANGED <<pc, port, registry, rows, job, sessions, del, removed, uncleaned, faults, unstopped>>

\* ssh exits; a ProxyCommand child may survive it.
LeaderExits(t) ==
    /\ proc[t] = "live"
    /\ proc' = [proc EXCEPT ![t] = "exited"]
    /\ UNCHANGED <<pc, port, registry, rows, job, sessions, stopping, del, removed, uncleaned, faults, unstopped>>

JobEnds(t) ==
    /\ job[t] = "live"
    /\ job' = [job EXCEPT ![t] = "over"]
    /\ UNCHANGED <<pc, port, proc, registry, rows, sessions, stopping, del, removed, uncleaned, faults, unstopped>>

\* The entries whose leader has exited.
Dead == {t \in registry : proc[t] # "live"}

\* reap_dead runs on the event loop and does not wait: one step.
ReapNothing ==
    /\ registry # {} /\ proc = [t \in Tunnels |-> "none"]
    /\ UNCHANGED vars

Reap ==
    /\ Dead # {}
    /\ registry' = registry \ Dead
    /\ proc' = [t \in Tunnels |-> IF t \in Dead THEN "gone" ELSE proc[t]]
    /\ UNCHANGED <<pc, port, rows, job, sessions, stopping, del, removed, uncleaned, faults, unstopped>>

\* lifespan after the last request: TunnelRegistry.shutdown, then a new server.
Shutdown ==
    /\ \A t \in Tunnels : pc[t] \in AtRest
    /\ \A d \in Deletes : del[d].at = "idle"
    /\ registry # {}
    /\ registry' = {}
    /\ proc' = [t \in Tunnels |-> IF t \in registry THEN "gone" ELSE proc[t]]
    /\ UNCHANGED <<pc, port, rows, job, sessions, stopping, del, removed, uncleaned, faults, unstopped>>

\* A crash: KillMode=control-group ends the whole process tree.
Crash ==
    /\ Fault
    /\ pc' = [t \in Tunnels |-> IF pc[t] \in AtRest THEN pc[t] ELSE "failed"]
    /\ uncleaned' = uncleaned \cup {t \in Tunnels : pc[t] \notin AtRest}
    /\ proc' = [t \in Tunnels |-> IF Runs(t) THEN "gone" ELSE proc[t]]
    /\ registry' = {} /\ stopping' = {}
    /\ del' = [d \in Deletes |-> Idle]
    /\ UNCHANGED <<port, rows, job, sessions, removed, unstopped>>

CreateStep(t) ==
    \/ Popen(t) \/ Handshake(t) \/ InsertAdd(t) \/ Created(t)
    \/ Undo(t) \/ UndoStopped(t) \/ UndoRow(t) \/ UndoJob(t)
    \/ StartJob(t) \/ Ready(t) \/ InsertSession(t)
CreateFault(t) ==
    \/ NoLane(t) \/ InsertFails(t) \/ CancelForward(t) \/ CancelCreate(t) \/ UndoFails(t)
    \/ CancelStart(t) \/ InsertSessionFails(t)
DeleteStep(d) == StopJob(d) \/ DeleteStopped(d) \/ DeleteRow(d) \/ DeleteSession(d)

Next ==
    \/ \E t \in Tunnels :
        \/ TunnelsCreate(t) \/ MarimoCreate(t) \/ NoWorkerPort(t) \/ CreateStep(t) \/ CreateFault(t)
        \/ StopThread(t) \/ LeaderExits(t) \/ JobEnds(t)
    \/ \E d \in Deletes :
        TunnelsDelete(d) \/ MarimoDelete(d) \/ DeleteStep(d) \/ StopJobFails(d) \/ CancelDelete(d)
    \/ Reap \/ Shutdown \/ Crash

Spec == Init /\ [][Next]_vars

\* Handlers, threads and the reaper are scheduled; requests need not come,
\* and nothing needs to fail.
FairSpec ==
    /\ Spec
    /\ \A t \in Tunnels : WF_vars(CreateStep(t)) /\ WF_vars(StopThread(t))
    /\ \A d \in Deletes : WF_vars(DeleteStep(d))
    /\ WF_vars(Reap)

-----------------------------------------------------------------------------
(* Properties *)

\* Every variable is of its type.
TypeOK ==
    /\ pc \in [Tunnels -> CreateAt]
    /\ port \in [Tunnels -> Ports \cup {NoPort}]
    /\ proc \in [Tunnels -> {"none", "live", "exited", "gone"}]
    /\ registry \subseteq Tunnels /\ rows \subseteq Tunnels /\ stopping \subseteq Tunnels
    /\ sessions \subseteq Marimo /\ removed \subseteq Tunnels
    /\ uncleaned \subseteq Tunnels /\ unstopped \subseteq Marimo
    /\ job \in [Tunnels -> {"none", "live", "over"}]
    /\ del \in [Deletes -> [at : DeleteAt, id : Tunnels, what : {"tunnel", "session"}]]
    /\ faults \in 0..MaxFaults

\* Every process group of a tunnel always has somebody who will end it: the
\* registry, the create request that started it, or a thread already stopping
\* it ("gives them an explicit owner", tunnel_registry.py:4).  Whatever is
\* cancelled, deleted, reaped or rolled back in whatever order, none leaks.
Owned ==
    \A t \in Tunnels : Runs(t) =>
        t \in registry \/ t \in stopping \/ pc[t] \in {"handshake", "insert", "undo"}

\* A delete that answered "removed" is final, also when another delete, the
\* reaper or a cancelled create worked on the same tunnel: no row, no entry,
\* and any process left is in the hands of a thread or a rollback that stops it.
RemovedStaysRemoved ==
    \A t \in removed :
        /\ t \notin rows /\ t \notin registry
        /\ Runs(t) => t \in stopping \/ pc[t] = "undo"

\* A create request that failed has left nothing behind on the server, unless it
\* was cut short where the code has no rollback (uncleaned): the server crashed,
\* the rollback itself failed, or the request was cancelled inside start_job or
\* between the two halves of insert_marimo_session.
FailedLeavesNothing ==
    \A t \in Tunnels \ uncleaned :
        pc[t] = "failed" => t \notin rows \cup registry \cup sessions /\ ~Runs(t)

\* A marimo job that runs on a worker is wanted: its create request is under
\* way or its session is stored, with the same exceptions, and with one of its
\* own: a session deleted while the row of its worker was pruned (heartbeat.py:
\* 1843), whose delete is answered "removed" and leaves the job running.
JobWanted ==
    \A t \in Marimo \ (uncleaned \cup unstopped) :
        job[t] = "live" => t \in sessions \/ pc[t] \notin {"idle", "done", "failed"}

\* Nothing runs without somebody who wants it and will end it: no ssh process
\* group on the server, no marimo job on a worker (heartbeat.py:1858-2111).
NothingUnowned ==
    /\ TypeOK
    /\ Owned
    /\ JobWanted

\* Create requests end, whatever fails and is cancelled, and so do their
\* rollbacks; a tunnel whose ssh died is taken out of the registry, by the reaper
\* at the latest, with what its process group left behind. (A tunnel is created
\* once and its ssh dies once.)
Settles ==
    <>[](\A t \in Tunnels :
            /\ pc[t] \in AtRest
            /\ proc[t] # "exited"
            /\ proc[t] = "gone" => t \notin registry)
=============================================================================
