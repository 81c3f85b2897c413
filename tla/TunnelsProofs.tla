---------------------------- MODULE TunnelsProofs ----------------------------
(* Proofs about Tunnels, for any set of tunnels, ports and delete requests   *)
(* and any number of cancellations, failures and crashes: no process group   *)
(* and no marimo job without an owner, no removed tunnel that comes back,    *)
(* nothing left by a create request that failed.                             *)
EXTENDS Tunnels, TLAPS

-----------------------------------------------------------------------------
(* The inductive invariant, tunnel by tunnel and delete by delete.           *)

\* The create request has not stored anything yet.
Early == {"idle", "start", "forward", "handshake", "insert"}

\* What the create request knows at the point it has reached.
AtPoint(t) ==
    /\ pc[t] \in {"idle", "start", "forward"} => proc[t] = "none"
    /\ pc[t] \in {"idle", "start"} => job[t] = "none"
    /\ pc[t] \in {"start", "ready", "session", "unjob"} => t \in Marimo
    /\ pc[t] = "cache" => t \notin Marimo
    /\ pc[t] \in {"unrow", "unjob"} => ~Runs(t)
    /\ pc[t] = "unjob" /\ t \notin uncleaned => t \notin rows

\* Where an entry or a row of a tunnel may be met.
Stored(t) ==
    /\ pc[t] \in Early => t \notin rows /\ t \notin removed /\ t \notin stopping
    /\ t \in registry => pc[t] \in {"cache", "ready", "session", "undo", "done"}
    /\ t \in sessions => pc[t] = "done" \/ (t \in uncleaned /\ pc[t] \notin Early)

\* The properties, for one tunnel.
HasOwner(t) ==
    Runs(t) => t \in registry \/ t \in stopping \/ pc[t] \in {"handshake", "insert", "undo"}
StaysRemoved(t) ==
    t \in removed => /\ t \notin rows /\ t \notin registry
                     /\ Runs(t) => t \in stopping \/ pc[t] = "undo"
LeavesNothing(t) ==
    pc[t] = "failed" /\ t \notin uncleaned =>
        t \notin rows /\ t \notin registry /\ t \notin sessions /\ ~Runs(t)
JobIsWanted(t) ==
    t \in Marimo /\ t \notin uncleaned /\ t \notin unstopped /\ job[t] = "live" =>
        t \in sessions \/ pc[t] \notin {"idle", "done", "failed"}

TunnelInv(t) ==
    /\ AtPoint(t) /\ Stored(t)
    /\ HasOwner(t) /\ StaysRemoved(t) /\ LeavesNothing(t) /\ JobIsWanted(t)

\* A delete request works on a tunnel that was stored, takes its entry first,
\* and goes on with a session when its job does not run or its worker was pruned.
Stopped(t) == job[t] # "live" \/ t \in unstopped
DeleteInv(d) ==
    del[d].at # "idle" =>
        /\ pc[del[d].id] \notin Early
        /\ del[d].at # "stopjob" => del[d].id \notin registry
        /\ del[d].at # "stopjob" /\ del[d].what = "session" => Stopped(del[d].id)
        /\ del[d].at = "session" => del[d].id \notin rows /\ del[d].what = "session"

IInv ==
    /\ TypeOK
    /\ \A t \in Tunnels : TunnelInv(t)
    /\ \A d \in Deletes : DeleteInv(d)

-----------------------------------------------------------------------------
(* What is common to the steps: most tunnels are left alone, and no step     *)
(* takes a request back to where nothing was stored.                         *)

Same(t) ==
    /\ pc'[t] = pc[t] /\ proc'[t] = proc[t] /\ job'[t] = job[t]
    /\ t \in registry' <=> t \in registry
    /\ t \in rows' <=> t \in rows
    /\ t \in sessions' <=> t \in sessions
    /\ t \in stopping' <=> t \in stopping
    /\ t \in removed' <=> t \in removed
    /\ t \in uncleaned' <=> t \in uncleaned
    /\ t \in unstopped' <=> t \in unstopped

\* Nothing comes back of a tunnel that was stored once.
Forward(t) ==
    pc[t] \notin Early =>
        /\ pc'[t] \notin Early
        /\ t \in registry' => t \in registry
        /\ t \in rows' => t \in rows
        /\ Stopped(t) => Stopped(t)'

LEMMA SameKeeps ==
    ASSUME NEW t \in Tunnels, TunnelInv(t), Same(t)
    PROVE  TunnelInv(t)' /\ Forward(t)
  BY DEF TunnelInv, AtPoint, Stored, HasOwner, StaysRemoved, LeavesNothing, JobIsWanted,
         Runs, Same, Forward, Stopped

LEMMA DeleteKept ==
    ASSUME NEW d \in Deletes, TypeOK, DeleteInv(d), del'[d] = del[d],
           \A t \in Tunnels : Forward(t)
    PROVE  DeleteInv(d)'
<1>1. del[d].id \in Tunnels
  BY DEF TypeOK
<1>2. Forward(del[d].id)
  BY <1>1
<1>3. QED
  BY <1>2 DEF DeleteInv, Forward, Stopped

\* The steps that belong to the tunnel u.
Step(u) ==
    \/ TunnelsCreate(u) \/ MarimoCreate(u) \/ NoWorkerPort(u)
    \/ CreateStep(u) \/ CreateFault(u)
    \/ StopThread(u) \/ LeaderExits(u) \/ JobEnds(u)

LEMMA StepType ==
    ASSUME TypeOK, NEW u \in Tunnels, AtPoint(u), Step(u)
    PROVE  TypeOK'
<1> USE TunnelsAssumption DEF TypeOK, CreateAt
<1>1. CASE TunnelsCreate(u) \/ MarimoCreate(u) \/ NoWorkerPort(u)
  <2>1. CASE TunnelsCreate(u)
    BY <2>1 DEF TunnelsCreate
  <2>2. CASE MarimoCreate(u)
    <3>1. PICK p \in Ports : port' = [port EXCEPT ![u] = p]
      BY <2>2 DEF MarimoCreate, FreePorts
    <3>2. QED
      BY <2>2, <3>1 DEF MarimoCreate
  <2>3. CASE NoWorkerPort(u)
    BY <2>3 DEF NoWorkerPort
  <2>4. QED
    BY <1>1, <2>1, <2>2, <2>3
<1>2. CASE Popen(u) \/ Handshake(u) \/ InsertAdd(u) \/ Created(u)
  BY <1>2 DEF Popen, Handshake, InsertAdd, Created
<1>3. CASE Undo(u) \/ UndoStopped(u) \/ UndoRow(u) \/ UndoJob(u)
  BY <1>3 DEF Undo, UndoStopped, UndoRow, UndoJob
<1>4. CASE StartJob(u) \/ Ready(u) \/ InsertSession(u)
  BY <1>4 DEF StartJob, Ready, InsertSession, AtPoint
<1>5. CASE NoLane(u) \/ InsertFails(u) \/ CancelForward(u) \/ CancelCreate(u)
  BY <1>5 DEF NoLane, InsertFails, CancelForward, CancelCreate, Fault, Runs
<1>6. CASE UndoFails(u) \/ CancelStart(u) \/ InsertSessionFails(u)
  BY <1>6 DEF UndoFails, CancelStart, InsertSessionFails, Fault, AtPoint
<1>7. CASE StopThread(u) \/ LeaderExits(u) \/ JobEnds(u)
  BY <1>7 DEF StopThread, LeaderExits, JobEnds
<1>8. QED
  BY <1>1, <1>2, <1>3, <1>4, <1>5, <1>6, <1>7 DEF Step, CreateStep, CreateFault

LEMMA StepElsewhere ==
    ASSUME TypeOK, NEW u \in Tunnels, Step(u), NEW t \in Tunnels, t # u
    PROVE  Same(t)
<1> USE DEF TypeOK, Same
<1>1. CASE TunnelsCreate(u) \/ MarimoCreate(u) \/ NoWorkerPort(u)
  BY <1>1 DEF TunnelsCreate, MarimoCreate, NoWorkerPort
<1>2. CASE Popen(u) \/ Handshake(u) \/ InsertAdd(u) \/ Created(u)
  BY <1>2 DEF Popen, Handshake, InsertAdd, Created
<1>3. CASE Undo(u) \/ UndoStopped(u) \/ UndoRow(u) \/ UndoJob(u)
  BY <1>3 DEF Undo, UndoStopped, UndoRow, UndoJob
<1>4. CASE StartJob(u) \/ Ready(u) \/ InsertSession(u)
  BY <1>4 DEF StartJob, Ready, InsertSession
<1>5. CASE NoLane(u) \/ InsertFails(u) \/ CancelForward(u) \/ CancelCreate(u)
  BY <1>5 DEF NoLane, InsertFails, CancelForward, CancelCreate
<1>6. CASE UndoFails(u) \/ CancelStart(u) \/ InsertSessionFails(u)
  BY <1>6 DEF UndoFails, CancelStart, InsertSessionFails
<1>7. CASE StopThread(u) \/ LeaderExits(u) \/ JobEnds(u)
  BY <1>7 DEF StopThread, LeaderExits, JobEnds
<1>8. QED
  BY <1>1, <1>2, <1>3, <1>4, <1>5, <1>6, <1>7 DEF Step, CreateStep, CreateFault

LEMMA StepHere ==
    ASSUME TypeOK, NEW u \in Tunnels, TunnelInv(u), Step(u)
    PROVE  TunnelInv(u)' /\ Forward(u)
<1> USE DEF TypeOK, TunnelInv, AtPoint, Stored, HasOwner, StaysRemoved, LeavesNothing,
        JobIsWanted, Runs, Forward, Early, Stopped
<1>1. CASE TunnelsCreate(u) \/ MarimoCreate(u) \/ NoWorkerPort(u)
  BY <1>1 DEF TunnelsCreate, MarimoCreate, NoWorkerPort
<1>2. CASE Popen(u) \/ Handshake(u) \/ InsertAdd(u) \/ Created(u)
  BY <1>2 DEF Popen, Handshake, InsertAdd, Created
<1>3. CASE Undo(u) \/ UndoStopped(u) \/ UndoRow(u) \/ UndoJob(u)
  BY <1>3 DEF Undo, UndoStopped, UndoRow, UndoJob
<1>4. CASE StartJob(u) \/ Ready(u) \/ InsertSession(u)
  BY <1>4 DEF StartJob, Ready, InsertSession
<1>5. CASE NoLane(u) \/ InsertFails(u) \/ CancelForward(u) \/ CancelCreate(u)
  BY <1>5 DEF NoLane, InsertFails, CancelForward, CancelCreate
<1>6. CASE UndoFails(u) \/ CancelStart(u) \/ InsertSessionFails(u)
  <2>1. CASE UndoFails(u)
    <3>1. PICK next \in {"failed", "unjob"} :
             /\ pc' = [pc EXCEPT ![u] = next]
             /\ next = "unjob" => pc[u] = "unrow" /\ u \in Marimo
      BY <2>1 DEF UndoFails
    <3>2. QED
      BY <2>1, <3>1 DEF UndoFails
  <2>2. CASE CancelStart(u)
    BY <2>2 DEF CancelStart
  <2>3. CASE InsertSessionFails(u)
    BY <2>3 DEF InsertSessionFails
  <2>4. QED
    BY <1>6, <2>1, <2>2, <2>3
<1>7. CASE StopThread(u) \/ LeaderExits(u) \/ JobEnds(u)
  <2>1. CASE StopThread(u)
    BY <2>1 DEF StopThread
  <2>2. CASE LeaderExits(u)
    BY <2>2 DEF LeaderExits
  <2>3. CASE JobEnds(u)
    BY <2>3 DEF JobEnds
  <2>4. QED
    BY <1>7, <2>1, <2>2, <2>3
<1>8. QED
  BY <1>1, <1>2, <1>3, <1>4, <1>5, <1>6, <1>7 DEF Step, CreateStep, CreateFault

LEMMA StepNext ==
    ASSUME IInv, NEW u \in Tunnels, Step(u)
    PROVE  IInv'
<1>1. TypeOK'
  BY StepType DEF IInv, TunnelInv
<1>2. ASSUME NEW t \in Tunnels PROVE TunnelInv(t)' /\ Forward(t)
  BY StepElsewhere, SameKeeps, StepHere DEF IInv
<1>3. del' = del
  BY DEF Step, CreateStep, CreateFault, TunnelsCreate, MarimoCreate, NoWorkerPort, Popen,
         Handshake, InsertAdd, Created, Undo, UndoStopped, UndoRow, UndoJob, StartJob,
         Ready, InsertSession, NoLane, InsertFails, CancelForward, CancelCreate, UndoFails,
         CancelStart, InsertSessionFails, StopThread, LeaderExits, JobEnds
<1>4. ASSUME NEW d \in Deletes PROVE DeleteInv(d)'
  BY <1>2, <1>3, DeleteKept DEF IInv
<1>5. QED
  BY <1>1, <1>2, <1>4 DEF IInv

-----------------------------------------------------------------------------
(* Deletes.                                                                  *)

DeleteReq(d) ==
    \/ TunnelsDelete(d) \/ MarimoDelete(d) \/ DeleteStep(d)
    \/ StopJobFails(d) \/ CancelDelete(d)

LEMMA IdleType == Idle \in [at : DeleteAt, id : Tunnels, what : {"tunnel", "session"}]
  BY TunnelsAssumption DEF Idle, DeleteAt

\* TunnelRegistry.remove: the entry is gone, and its process has a thread.
LEMMA TakeDoes ==
    ASSUME TypeOK, NEW d \in Deletes, NEW t \in Tunnels, NEW what \in {"tunnel", "session"},
           Take(d, t, what)
    PROVE  /\ registry' = registry \ {t} /\ stopping' = stopping \cup ({t} \cap registry)
           /\ del' \in [Deletes -> [at : DeleteAt, id : Tunnels, what : {"tunnel", "session"}]]
           /\ del'[d].at \in {"stop", "row"} /\ del'[d].id = t /\ del'[d].what = what
           /\ \A e \in Deletes \ {d} : del'[e] = del[e]
<1> DEFINE r == [at |-> IF t \in registry THEN "stop" ELSE "row", id |-> t, what |-> what]
<1>1. /\ r \in [at : DeleteAt, id : Tunnels, what : {"tunnel", "session"}]
      /\ r.at \in {"stop", "row"} /\ r.id = t /\ r.what = what
  BY DEF DeleteAt
<1>2. del' = [del EXCEPT ![d] = r]
  BY DEF Take
<1> HIDE DEF r
<1>3. QED
  BY <1>1, <1>2 DEF Take, TypeOK

\* A tunnel that loses its entry to a thread keeps its invariant.
LEMMA TakenKeeps ==
    ASSUME TypeOK, NEW t \in Tunnels, TunnelInv(t), pc[t] \notin Early,
           UNCHANGED <<pc, proc, rows, sessions, removed, uncleaned>>,
           t \in unstopped => t \in unstopped',
           registry' = registry \ {t}, stopping' = stopping \cup ({t} \cap registry),
           job'[t] = job[t] \/ job'[t] = "over"
    PROVE  TunnelInv(t)' /\ Forward(t)
  BY DEF TunnelInv, AtPoint, Stored, HasOwner, StaysRemoved, LeavesNothing, JobIsWanted,
         Runs, Forward, Early, Stopped

LEMMA TakeNext ==
    ASSUME IInv, NEW d \in Deletes, NEW t \in Tunnels, NEW what \in {"tunnel", "session"},
           pc[t] \notin Early, Take(d, t, what),
           UNCHANGED <<pc, port, proc, rows, sessions, removed, uncleaned, faults>>,
           \/ job' = job /\ unstopped' = unstopped /\ (what = "session" => job[t] # "live")
           \/ job' = job /\ unstopped' = unstopped \cup {t} /\ t \in Marimo
           \/ job' = [job EXCEPT ![t] = "over"] /\ unstopped' = unstopped
    PROVE  IInv'
<1>0. TypeOK
  BY DEF IInv
<1>1. /\ registry' = registry \ {t} /\ stopping' = stopping \cup ({t} \cap registry)
      /\ del' \in [Deletes -> [at : DeleteAt, id : Tunnels, what : {"tunnel", "session"}]]
      /\ del'[d].at \in {"stop", "row"} /\ del'[d].id = t /\ del'[d].what = what
      /\ \A e \in Deletes \ {d} : del'[e] = del[e]
  BY <1>0, TakeDoes
<1>2. TypeOK'
  BY <1>0, <1>1 DEF TypeOK
<1>3. ASSUME NEW u \in Tunnels PROVE TunnelInv(u)' /\ Forward(u)
  <2>1. CASE u = t
    BY <1>0, <1>1, <2>1, TakenKeeps DEF IInv, TypeOK
  <2>2. CASE u # t
    <3>1. Same(u)
      BY <1>0, <1>1, <2>2 DEF Same, TypeOK
    <3>2. QED
      BY <3>1, SameKeeps DEF IInv
  <2>3. QED
    BY <2>1, <2>2
<1>4. ASSUME NEW e \in Deletes PROVE DeleteInv(e)'
  <2>1. CASE e = d
    BY <1>0, <1>1, <2>1 DEF DeleteInv, TypeOK, Stopped
  <2>2. CASE e # d
    BY <1>0, <1>1, <1>3, <2>2, DeleteKept DEF IInv
  <2>3. QED
    BY <2>1, <2>2
<1>5. QED
  BY <1>2, <1>3, <1>4 DEF IInv

\* The delete request d goes to another point, or is given up.
Moves(d) ==
    /\ del' \in [Deletes -> [at : DeleteAt, id : Tunnels, what : {"tunnel", "session"}]]
    /\ \A e \in Deletes \ {d} : del'[e] = del[e]

LEMMA DeleteMoves ==
    ASSUME IInv, NEW d \in Deletes, Moves(d), TypeOK', DeleteInv(d)',
           \A t \in Tunnels : TunnelInv(t)' /\ Forward(t)
    PROVE  IInv'
<1>1. ASSUME NEW e \in Deletes PROVE DeleteInv(e)'
  <2>1. CASE e = d
    BY <2>1
  <2>2. CASE e # d
    BY <2>2, DeleteKept DEF IInv, Moves
  <2>3. QED
    BY <2>1, <2>2
<1>2. QED
  BY <1>1 DEF IInv

LEMMA DeleteNext ==
    ASSUME IInv, NEW d \in Deletes, DeleteReq(d)
    PROVE  IInv'
<1>0. /\ TypeOK /\ DeleteInv(d) /\ del[d].id \in Tunnels
      /\ del[d].at \in DeleteAt /\ del[d].what \in {"tunnel", "session"}
  BY DEF IInv, TypeOK
<1> DEFINE t == del[d].id
<1>1. CASE TunnelsDelete(d)
  <2>1. PICK u \in rows : Take(d, u, "tunnel")
    BY <1>1 DEF TunnelsDelete
  <2>2. u \in Tunnels /\ pc[u] \notin Early
    BY <1>0 DEF TypeOK, IInv, TunnelInv, Stored
  <2>3. QED
    BY <1>1, <2>1, <2>2, TakeNext DEF TunnelsDelete
<1>2. CASE MarimoDelete(d)
  <2>1. PICK u \in sessions :
           \/ /\ job[u] = "live"
              /\ del' = [del EXCEPT ![d] = [at |-> "stopjob", id |-> u, what |-> "session"]]
              /\ UNCHANGED <<registry, stopping, unstopped>>
           \/ job[u] # "live" /\ Take(d, u, "session") /\ UNCHANGED unstopped
           \/ job[u] = "live" /\ Take(d, u, "session") /\ unstopped' = unstopped \cup {u}
    BY <1>2 DEF MarimoDelete
  <2>2. u \in Tunnels /\ u \in Marimo /\ pc[u] \notin Early
    BY <1>0, TunnelsAssumption DEF TypeOK, IInv, TunnelInv, Stored, Early
  <2>3. CASE /\ del' = [del EXCEPT ![d] = [at |-> "stopjob", id |-> u, what |-> "session"]]
             /\ UNCHANGED <<registry, stopping, unstopped>>
    <3> DEFINE r == [at |-> "stopjob", id |-> u, what |-> "session"]
    <3>1. /\ r \in [at : DeleteAt, id : Tunnels, what : {"tunnel", "session"}]
          /\ r.at = "stopjob" /\ r.id = u
      BY <2>2 DEF DeleteAt
    <3>2. del' = [del EXCEPT ![d] = r] /\ UNCHANGED <<registry, stopping, unstopped>>
      BY <2>3
    <3> HIDE DEF r
    <3>3. Moves(d) /\ TypeOK' /\ del'[d] = r
      BY <1>0, <1>2, <3>1, <3>2 DEF TypeOK, Moves, MarimoDelete
    <3>4. \A v \in Tunnels : TunnelInv(v)' /\ Forward(v)
      BY <1>2, <3>2, SameKeeps DEF IInv, MarimoDelete, Same
    <3>5. pc' = pc
      BY <1>2 DEF MarimoDelete
    <3>6. DeleteInv(d)'
      BY <2>2, <3>1, <3>3, <3>5 DEF DeleteInv
    <3>7. QED
      BY <3>3, <3>4, <3>6, DeleteMoves
  <2>4. CASE job[u] # "live" /\ Take(d, u, "session") /\ unstopped' = unstopped
    BY <1>2, <2>2, <2>4, TakeNext DEF MarimoDelete
  <2>5. CASE Take(d, u, "session") /\ unstopped' = unstopped \cup {u}
    BY <1>2, <2>2, <2>5, TakeNext DEF MarimoDelete
  <2>6. QED
    BY <2>1, <2>3, <2>4, <2>5
<1>3. CASE StopJob(d)
  <2>1. /\ Take(d, t, "session") /\ job' = [job EXCEPT ![t] = "over"] /\ pc[t] \notin Early
        /\ unstopped' = unstopped
    BY <1>0, <1>3 DEF StopJob, DeleteInv
  <2>2. QED
    BY <1>0, <1>3, <2>1, TakeNext DEF StopJob
<1>4. CASE StopJobFails(d)
  <2>1. del' = [del EXCEPT ![d] = Idle] /\ job' \in {job, [job EXCEPT ![t] = "over"]}
    BY <1>4 DEF StopJobFails
  <2>2. Moves(d) /\ del'[d] = Idle /\ job' \in [Tunnels -> {"none", "live", "over"}]
    BY <1>0, <2>1, IdleType DEF TypeOK, Moves
  <2>3. TypeOK'
    BY <1>0, <1>4, <2>2, TunnelsAssumption DEF TypeOK, Moves, StopJobFails, Fault
  <2>4. pc[t] \notin Early
    BY <1>0, <1>4 DEF StopJobFails, DeleteInv
  <2>5. ASSUME NEW v \in Tunnels PROVE TunnelInv(v)' /\ Forward(v)
    <3>1. UNCHANGED <<pc, proc, registry, rows, sessions, stopping, removed, uncleaned, unstopped>>
      BY <1>4 DEF StopJobFails
    <3>2. job'[v] = job[v] \/ (job'[v] = "over" /\ v = t)
      BY <1>0, <2>1 DEF TypeOK
    <3>3. CASE job'[v] = job[v]
      BY <3>1, <3>3, SameKeeps DEF IInv, Same
    <3>4. CASE job'[v] = "over" /\ v = t
      BY <2>4, <3>1, <3>4
      DEF IInv, TunnelInv, AtPoint, Stored, HasOwner, StaysRemoved, LeavesNothing,
          JobIsWanted, Runs, Forward, Early, Stopped
    <3>5. QED
      BY <3>2, <3>3, <3>4
  <2>6. DeleteInv(d)'
    BY <2>2 DEF DeleteInv, Idle
  <2>7. QED
    BY <2>2, <2>3, <2>5, <2>6, DeleteMoves
<1>5. CASE DeleteStopped(d)
  <2> DEFINE r == [del[d] EXCEPT !.at = "row"]
  <2>1. /\ r \in [at : DeleteAt, id : Tunnels, what : {"tunnel", "session"}]
        /\ r.at = "row" /\ r.id = t /\ r.what = del[d].what
    BY <1>0 DEF TypeOK, DeleteAt
  <2>2. del' = [del EXCEPT ![d] = r] /\ del[d].at = "stop"
        /\ UNCHANGED <<pc, proc, registry, rows, job, sessions, stopping, removed, uncleaned, unstopped>>
    BY <1>5 DEF DeleteStopped
  <2> HIDE DEF r
  <2>3. Moves(d) /\ TypeOK' /\ del'[d] = r
    BY <1>0, <1>5, <2>1, <2>2 DEF TypeOK, Moves, DeleteStopped
  <2>4. \A v \in Tunnels : TunnelInv(v)' /\ Forward(v)
    BY <2>2, SameKeeps DEF IInv, Same
  <2>5. DeleteInv(d)'
    BY <1>0, <2>1, <2>2, <2>3 DEF DeleteInv, Stopped
  <2>6. QED
    BY <2>3, <2>4, <2>5, DeleteMoves
<1>6. CASE DeleteRow(d)
  <2>1. /\ del[d].at = "row" /\ pc[t] \notin Early /\ t \notin registry
        /\ del[d].what = "session" => Stopped(t)
    BY <1>0, <1>6 DEF DeleteRow, DeleteInv
  <2>2. ASSUME NEW v \in Tunnels, removed' = removed \/ removed' = removed \cup {t}
        PROVE  TunnelInv(v)' /\ Forward(v)
    <3>1. rows' = rows \ {t}
          /\ UNCHANGED <<pc, proc, registry, job, sessions, stopping, uncleaned, unstopped>>
      BY <1>6 DEF DeleteRow
    <3>2. CASE v # t
      <4>1. Same(v)
        BY <2>2, <3>1, <3>2 DEF Same
      <4>2. QED
        BY <4>1, SameKeeps DEF IInv
    <3>3. CASE v = t
      BY <2>1, <2>2, <3>1, <3>3
      DEF IInv, TunnelInv, AtPoint, Stored, HasOwner, StaysRemoved, LeavesNothing,
          JobIsWanted, Runs, Forward, Early, Stopped
    <3>4. QED
      BY <3>2, <3>3
  <2>3. CASE del[d].what = "tunnel"
    <3>1. removed' = removed \cup {t} /\ del' = [del EXCEPT ![d] = Idle]
      BY <1>6, <2>3 DEF DeleteRow
    <3>2. Moves(d) /\ del'[d] = Idle
      BY <1>0, <3>1, IdleType DEF TypeOK, Moves
    <3>3. TypeOK'
      BY <1>0, <1>6, <3>1, <3>2 DEF TypeOK, Moves, DeleteRow
    <3>4. DeleteInv(d)'
      BY <3>2 DEF DeleteInv, Idle
    <3>5. QED
      BY <2>2, <3>1, <3>2, <3>3, <3>4, DeleteMoves
  <2>4. CASE del[d].what = "session"
    <3> DEFINE r == [del[d] EXCEPT !.at = "session"]
    <3>1. /\ r \in [at : DeleteAt, id : Tunnels, what : {"tunnel", "session"}]
          /\ r.at = "session" /\ r.id = t /\ r.what = "session"
      BY <1>0, <2>4 DEF TypeOK, DeleteAt
    <3>2. removed' = removed /\ del' = [del EXCEPT ![d] = r]
          /\ rows' = rows \ {t} /\ UNCHANGED <<pc, registry, job, unstopped>>
      BY <1>6, <2>4 DEF DeleteRow
    <3> HIDE DEF r
    <3>3. Moves(d) /\ del'[d] = r
      BY <1>0, <3>1, <3>2 DEF TypeOK, Moves
    <3>4. TypeOK'
      BY <1>0, <1>6, <3>2, <3>3 DEF TypeOK, Moves, DeleteRow
    <3>5. DeleteInv(d)'
      BY <2>1, <2>4, <3>1, <3>2, <3>3 DEF DeleteInv, Stopped
    <3>6. QED
      BY <2>2, <3>2, <3>3, <3>4, <3>5, DeleteMoves
  <2>5. QED
    BY <1>0, <2>3, <2>4
<1>7. CASE DeleteSession(d)
  <2>1. /\ pc[t] \notin Early /\ t \notin registry /\ t \notin rows /\ Stopped(t)
    BY <1>0, <1>7 DEF DeleteSession, DeleteInv
  <2>2. /\ sessions' = sessions \ {t} /\ removed' = removed \cup {t}
        /\ del' = [del EXCEPT ![d] = Idle]
        /\ UNCHANGED <<pc, proc, registry, rows, job, stopping, uncleaned, unstopped>>
    BY <1>7 DEF DeleteSession
  <2>3. Moves(d) /\ del'[d] = Idle
    BY <1>0, <2>2, IdleType DEF TypeOK, Moves
  <2>4. TypeOK'
    BY <1>0, <1>7, <2>2, <2>3 DEF TypeOK, Moves, DeleteSession
  <2>5. ASSUME NEW v \in Tunnels PROVE TunnelInv(v)' /\ Forward(v)
    <3>1. CASE v # t
      <4>1. Same(v)
        BY <2>2, <3>1 DEF Same
      <4>2. QED
        BY <4>1, SameKeeps DEF IInv
    <3>2. CASE v = t
      BY <2>1, <2>2, <3>2
      DEF IInv, TunnelInv, AtPoint, Stored, HasOwner, StaysRemoved, LeavesNothing,
          JobIsWanted, Runs, Forward, Early, Stopped
    <3>3. QED
      BY <3>1, <3>2
  <2>6. DeleteInv(d)'
    BY <2>3 DEF DeleteInv, Idle
  <2>7. QED
    BY <2>3, <2>4, <2>5, <2>6, DeleteMoves
<1>8. CASE CancelDelete(d)
  <2>1. del' = [del EXCEPT ![d] = Idle]
        /\ UNCHANGED <<pc, proc, registry, rows, job, sessions, stopping, removed, uncleaned, unstopped>>
    BY <1>8 DEF CancelDelete
  <2>2. Moves(d) /\ del'[d] = Idle
    BY <1>0, <2>1, IdleType DEF TypeOK, Moves
  <2>3. TypeOK'
    BY <1>0, <1>8, <2>2, TunnelsAssumption DEF TypeOK, Moves, CancelDelete, Fault
  <2>4. \A v \in Tunnels : TunnelInv(v)' /\ Forward(v)
    BY <2>1, SameKeeps DEF IInv, Same
  <2>5. DeleteInv(d)'
    BY <2>2 DEF DeleteInv, Idle
  <2>6. QED
    BY <2>2, <2>3, <2>4, <2>5, DeleteMoves
<1>9. QED
  BY <1>1, <1>2, <1>3, <1>4, <1>5, <1>6, <1>7, <1>8 DEF DeleteReq, DeleteStep

-----------------------------------------------------------------------------
(* The reaper, the end of the server, and the invariant.                     *)

\* The entries of S are taken and their process groups ended at once.
LEMMA EndedNext ==
    ASSUME IInv, NEW S \in SUBSET registry,
           registry' = registry \ S,
           proc' = [t \in Tunnels |-> IF t \in S THEN "gone" ELSE proc[t]],
           UNCHANGED <<pc, port, rows, job, sessions, stopping, del, removed, uncleaned, unstopped, faults>>
    PROVE  IInv'
<1>0. TypeOK
  BY DEF IInv
<1>1. TypeOK'
  BY <1>0 DEF TypeOK
<1>2. ASSUME NEW t \in Tunnels PROVE TunnelInv(t)' /\ Forward(t)
  BY <1>2 DEF IInv, TunnelInv, AtPoint, Stored, HasOwner, StaysRemoved, LeavesNothing,
              JobIsWanted, Runs, Forward, Early, Stopped
<1>3. ASSUME NEW d \in Deletes PROVE DeleteInv(d)'
  BY <1>0, <1>2, DeleteKept DEF IInv
<1>4. QED
  BY <1>1, <1>2, <1>3 DEF IInv

LEMMA CrashNext ==
    ASSUME IInv, Crash
    PROVE  IInv'
<1>0. TypeOK
  BY DEF IInv
<1>1. TypeOK'
  <2>1. pc' \in [Tunnels -> CreateAt]
    BY <1>0 DEF TypeOK, Crash, CreateAt
  <2>2. proc' \in [Tunnels -> {"none", "live", "exited", "gone"}]
    BY <1>0 DEF TypeOK, Crash
  <2>3. /\ del' \in [Deletes -> [at : DeleteAt, id : Tunnels, what : {"tunnel", "session"}]]
        /\ uncleaned' \subseteq Tunnels /\ faults' \in 0..MaxFaults
    BY <1>0, IdleType, TunnelsAssumption DEF TypeOK, Crash, Fault
  <2>4. QED
    BY <1>0, <2>1, <2>2, <2>3 DEF TypeOK, Crash
<1>2. ASSUME NEW t \in Tunnels PROVE TunnelInv(t)'
  <2>1. /\ pc'[t] = IF pc[t] \in AtRest THEN pc[t] ELSE "failed"
        /\ t \in uncleaned' <=> (t \in uncleaned \/ pc[t] \notin AtRest)
        /\ proc'[t] = IF Runs(t) THEN "gone" ELSE proc[t]
        /\ registry' = {} /\ stopping' = {}
        /\ UNCHANGED <<rows, job, sessions, removed, unstopped>>
    BY DEF Crash
  <2>2. QED
    BY <1>0, <2>1
    DEF IInv, TypeOK, TunnelInv, AtPoint, Stored, HasOwner, StaysRemoved, LeavesNothing,
        JobIsWanted, Runs, Early, AtRest, CreateAt
<1>3. ASSUME NEW d \in Deletes PROVE DeleteInv(d)'
  BY DEF Crash, DeleteInv, Idle
<1>4. QED
  BY <1>1, <1>2, <1>3 DEF IInv

LEMMA InitIInv == Init => IInv
<1> SUFFICES ASSUME Init PROVE IInv
  OBVIOUS
<1>1. TypeOK
  BY IdleType, TunnelsAssumption DEF Init, TypeOK, CreateAt
<1>2. \A t \in Tunnels : TunnelInv(t)
  BY DEF Init, TunnelInv, AtPoint, Stored, HasOwner, StaysRemoved, LeavesNothing,
         JobIsWanted, Runs
<1>3. \A d \in Deletes : DeleteInv(d)
  BY DEF Init, DeleteInv, Idle
<1>4. QED
  BY <1>1, <1>2, <1>3 DEF IInv

LEMMA NextIInv == IInv /\ [Next]_vars => IInv'
<1> SUFFICES ASSUME IInv, [Next]_vars PROVE IInv'
  OBVIOUS
<1>1. CASE UNCHANGED vars
  <2>1. \A t \in Tunnels : TunnelInv(t)'
    BY <1>1, SameKeeps DEF vars, IInv, Same
  <2>2. TypeOK' /\ \A d \in Deletes : DeleteInv(d)'
    BY <1>1 DEF vars, IInv, TypeOK, DeleteInv, Stopped
  <2>3. QED
    BY <2>1, <2>2 DEF IInv
<1>2. ASSUME NEW t \in Tunnels, Step(t) PROVE IInv'
  BY <1>2, StepNext
<1>3. ASSUME NEW d \in Deletes, DeleteReq(d) PROVE IInv'
  BY <1>3, DeleteNext
<1>4. CASE Reap
  <2>1. Dead \in SUBSET registry
    BY DEF Dead
  <2>2. QED
    BY <1>4, <2>1, EndedNext DEF Reap
<1>5. CASE Shutdown
  <2>1. registry' = registry \ registry
    BY <1>5 DEF Shutdown
  <2>2. QED
    BY <1>5, <2>1, EndedNext DEF Shutdown
<1>6. CASE Crash
  BY <1>6, CrashNext
<1>7. QED
  BY <1>1, <1>2, <1>3, <1>4, <1>5, <1>6 DEF Next, Step, DeleteReq

LEMMA AlwaysIInv == Spec => []IInv
  BY InitIInv, NextIInv, PTL DEF Spec

\* Every process group of a tunnel has an entry, a thread or a request that
\* ends it, and every marimo job a request or a session that wants it, whatever
\* is cancelled, deleted, reaped and rolled back, and however the server ends. The
\* exceptions are named: a create request cut short where nothing is rolled back,
\* and a session deleted while its worker had no row.
THEOREM NothingIsUnowned == Spec => []NothingUnowned
<1>1. IInv => NothingUnowned
  BY TunnelsAssumption
  DEF IInv, TunnelInv, HasOwner, JobIsWanted, NothingUnowned, Owned, JobWanted
<1>2. QED
  BY <1>1, AlwaysIInv, PTL

\* A tunnel whose removal was answered does not come back, for any number of
\* delete requests that work on it at the same time.
THEOREM RemovalIsFinal == Spec => []RemovedStaysRemoved
<1>1. IInv => RemovedStaysRemoved
  BY DEF IInv, TypeOK, TunnelInv, StaysRemoved, RemovedStaysRemoved
<1>2. QED
  BY <1>1, AlwaysIInv, PTL

\* A create request that failed and was not cut short has left no entry, no
\* row, no session and no process.
THEOREM FailureLeavesNothing == Spec => []FailedLeavesNothing
<1>1. IInv => FailedLeavesNothing
  BY DEF IInv, TunnelInv, LeavesNothing, FailedLeavesNothing
<1>2. QED
  BY <1>1, AlwaysIInv, PTL
=============================================================================
