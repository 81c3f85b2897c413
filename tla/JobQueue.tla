------------------------------ MODULE JobQueue ------------------------------
(***************************************************************************)
(* The durable GPU job queue of the control process: JobManager (job.py),  *)
(* the job rows it keeps in SQLite (db.py), the reconciliation loop and    *)
(* the HTTP handlers that drive it (heartbeat.py), and the tmux sessions   *)
(* that ssh.py starts on the workers.                                      *)
(*                                                                         *)
(* A process is an asyncio task: an HTTP handler, one of the coroutines    *)
(* that refresh running jobs, or the reconciler itself.  A step runs from  *)
(* one await to the next; the lock of a worker is the asyncio.Lock of      *)
(* JobManager._dispatch_lock.  A database method that runs under           *)
(* Database._queue_lock is one step: pending rows change only under that   *)
(* lock and active rows only under the dispatch lock of their worker.      *)
(***************************************************************************)
EXTENDS Integers, FiniteSets

CONSTANTS
    Workers,       \* worker ids
    GpuCount,      \* [Workers -> Nat], Worker.gpu_count
    JobIds,        \* job ids; their order stands for the order of the uuids
    ImmediateIds,  \* the ids start_job uses; enqueue_job uses the others
    Needs,         \* the gpu_count values of requests
    Positions,     \* the queue positions a PATCH asks for
    IdleReports,   \* sets of GPU indices free_gpu_indices may find idle
    Handlers,      \* tasks that run HTTP handlers
    Refreshers,    \* coroutines of reconcile_active_ssh_jobs (max_concurrent)
    Reconciler,    \* the task of _job_reconciler
    NoTask,        \* the holder of a free lock
    LateDelivery,  \* may a launch take effect after its ssh client gave up?
    MaxFaults,     \* bound on lost answers, exceptions, prunes and crashes
    MaxClock       \* bound on the clock, in seconds

Tasks == Handlers \cup Refreshers \cup {Reconciler}

ASSUME JobQueueAssumption ==
    /\ Workers # {}
    /\ GpuCount \in [Workers -> Nat]
    /\ JobIds \subseteq Nat /\ IsFiniteSet(JobIds) /\ JobIds # {}
    /\ ImmediateIds \subseteq JobIds
    /\ Needs \subseteq Nat \ {0}
    /\ Positions \subseteq Nat \ {0}
    /\ IdleReports \subseteq SUBSET Nat
    /\ NoTask \notin Tasks
    /\ Reconciler \notin Handlers \cup Refreshers
    /\ Handlers \cap Refreshers = {}
    /\ LateDelivery \in BOOLEAN
    /\ MaxFaults \in Nat
    /\ MaxClock \in Nat

VARIABLES
    jobs,        \* the jobs table: one row per id, status "none" for no row
    registered,  \* the workers table: ids with a row (registered rows are online)
    idle,        \* telemetry of the last heartbeat: GPUs that look idle
    lock,        \* JobManager._dispatch_locks: the holder per worker
    pc,          \* where each task is
    loc,         \* the local variables of each task
    phase,       \* the part of the reconciliation pass under way
    todo,        \* the jobs this part of the pass still has to visit
    plan,        \* the worker rows this part of the pass read when it began
    remote,      \* the tmux session of each job on each worker
    late,        \* launches whose ssh client is gone but that may still arrive
    clock,       \* the wall clock, in seconds (started_at)
    faults       \* faults so far

vars == <<jobs, registered, idle, lock, pc, loc, phase, todo, plan, remote,
          late, clock, faults>>

-----------------------------------------------------------------------------
(* Rows, local variables and sessions.                                     *)

GpuIds == UNION IdleReports   \* the GPU indices in play

Statuses == {"none", "pending", "starting", "running", "done", "failed"}
Row == [worker : Workers, status : Statuses, managed : BOOLEAN, need : Nat,
        gpus : SUBSET GpuIds, order : Nat, started : Nat]

AnyWorker == CHOOSE w \in Workers : TRUE
AnyJob == CHOOSE j \in JobIds : TRUE
NoRow == [worker |-> AnyWorker, status |-> "none", managed |-> FALSE,
          need |-> 0, gpus |-> {}, order |-> 0, started |-> 0]

\* w, j, row, gpus: the worker, the job, the row read and the GPUs assigned;
\* took: whether the launch under way has taken effect on the worker;
\* avail, disp: the worker rows the task holds, as the GPUs each shows idle,
\* and the workers it still has to dispatch.
Locals == [w : Workers, j : JobIds, row : Row, gpus : SUBSET GpuIds,
           took : BOOLEAN, avail : [Workers -> SUBSET GpuIds], disp : SUBSET Workers]
NoSnapshot == [w \in Workers |-> {}]
NoLocals == [w |-> AnyWorker, j |-> AnyJob, row |-> NoRow, gpus |-> {},
             took |-> FALSE, avail |-> NoSnapshot, disp |-> {}]

\* "dead": the session is gone but output.log remains, without an EXIT line.
SessionStates == {"none", "live", "exit0", "exit1", "dead"}
Session == [st : SessionStates, gpus : SUBSET GpuIds]
NoSession == [st |-> "none", gpus |-> {}]
Exits == {"exit0", "exit1"}

Waiting == {"idle", "start", "stop", "refresh", "recover", "dispatch",
            "patchTo", "patchHere"}
Holding == {"scan", "claim", "launch", "write", "drop", "kill", "poll", "settle", "probe"}

Active(r) == r.status \in {"starting", "running"}
Terminal(r) == r.status \in {"done", "failed"}
Queued(r) == r.managed /\ (r.status = "pending" \/ Active(r))

\* The pending queue of w, and ORDER BY queue_order, id on it.
Pending(w) == {j \in JobIds : /\ jobs[j].managed
                              /\ jobs[j].status = "pending"
                              /\ jobs[j].worker = w}
Before(i, j) == \/ jobs[i].order < jobs[j].order
                \/ jobs[i].order = jobs[j].order /\ i < j
IsHead(j, w) == /\ j \in Pending(w)
                /\ \A i \in Pending(w) \ {j} : Before(j, i)
Rank(S, j) == Cardinality({i \in S : Before(i, j)}) + 1

\* Mutant: a row in "starting" does not count as a reservation.
ClaimedGpusOfRunning(w) ==
    UNION {jobs[j].gpus : j \in {i \in JobIds : /\ jobs[i].managed
                                                /\ jobs[i].status = "running"
                                                /\ jobs[i].worker = w}}

\* running_queue_gpu_indices
ClaimedGpus(w) ==
    UNION {jobs[j].gpus : j \in {i \in JobIds : /\ jobs[i].managed
                                                /\ Active(jobs[i])
                                                /\ jobs[i].worker = w}}
\* The slice free[:n] of the ascending list of the indices in S.
Lowest(S, n) == {g \in S : Cardinality({h \in S : h < g}) < n}

\* The worker rows of S as a task reads them: the idle GPUs of each.
Snapshot(S) == [w \in Workers |-> IF w \in S THEN idle[w] ELSE {}]

-----------------------------------------------------------------------------
Init ==
    /\ jobs = [j \in JobIds |-> NoRow]
    /\ registered = Workers
    /\ idle \in [Workers -> IdleReports]
    /\ \A w \in Workers : idle[w] \subseteq 0 .. GpuCount[w] - 1
    /\ lock = [w \in Workers |-> NoTask]
    /\ pc = [t \in Tasks |-> "idle"]
    /\ loc = [t \in Tasks |-> NoLocals]
    /\ phase = "sleep"
    /\ todo = {}
    /\ plan = [avail |-> NoSnapshot, disp |-> {}]
    /\ remote = [w \in Workers |-> [j \in JobIds |-> NoSession]]
    /\ late = {}
    /\ clock = 0
    /\ faults = 0

Fault == faults < MaxFaults /\ faults' = faults + 1

\* Task t goes on to dispatch the workers d, or is through.
Continue(t, d) ==
    IF d = {}
    THEN /\ pc' = [pc EXCEPT ![t] = "idle"]
         /\ loc' = [loc EXCEPT ![t] = NoLocals]
    ELSE /\ pc' = [pc EXCEPT ![t] = "dispatch"]
         /\ loc' = [loc EXCEPT ![t] = [NoLocals EXCEPT !.avail = loc[t].avail,
                                                       !.disp = d]]

Lock(t) == /\ lock[loc[t].w] = NoTask
           /\ lock' = [lock EXCEPT ![loc[t].w] = t]
Unlock(t) == lock' = [lock EXCEPT ![loc[t].w] = NoTask]
Leave(t, d) == Unlock(t) /\ Continue(t, d)
Goto(t, l) == pc' = [pc EXCEPT ![t] = l]

\* The variables a step leaves alone, by group.
workerVars == <<registered, idle>>
passVars == <<phase, todo, plan>>
remoteVars == <<remote, late>>

-----------------------------------------------------------------------------
(* dispatch_worker: advance the queue of one worker under its lock.        *)

DispatchBegin(t) ==
    /\ pc[t] = "dispatch"
    /\ \E w \in loc[t].disp :
        /\ lock[w] = NoTask
        /\ lock' = [lock EXCEPT ![w] = t]
        /\ loc' = [loc EXCEPT ![t].w = w]
    /\ Goto(t, "scan")
    /\ UNCHANGED <<jobs, workerVars, passVars, remoteVars, clock, faults>>

\* One turn of the loop up to the claim: the GPUs the snapshot shows idle and
\* no active row has, and the head of the queue; stop when it does not fit.
Scan(t) ==
    LET w == loc[t].w
        free == loc[t].avail[w] \ ClaimedGpus(w)
        Fits(j) == IsHead(j, w) /\ jobs[j].need <= Cardinality(free)
    IN  /\ pc[t] = "scan"
        /\ \/ \E j \in JobIds :
                /\ Fits(j)
                /\ loc' = [loc EXCEPT ![t].j = j,
                                      ![t].gpus = Lowest(free, jobs[j].need)]
                /\ Goto(t, "claim")
                /\ UNCHANGED lock
           \/ /\ ~ \E j \in JobIds : Fits(j)
              /\ Leave(t, loc[t].disp \ {w})
        /\ UNCHANGED <<jobs, workerVars, passVars, remoteVars, clock, faults>>

\* The WHERE clause of claim_queued_job.
Claimable(j, w, G) ==
    /\ jobs[j].managed /\ jobs[j].status = "pending"
    /\ jobs[j].worker = w
    /\ jobs[j].need = Cardinality(G)
    /\ IsHead(j, w)
    /\ G \cap ClaimedGpus(w) = {}

\* claim_queued_job; a claim that matches no row makes the loop look again.
Claim(t) ==
    LET j == loc[t].j
        row == [jobs[j] EXCEPT !.status = "starting", !.gpus = loc[t].gpus,
                               !.started = clock]
    IN  /\ pc[t] = "claim"
        /\ \/ /\ Claimable(j, loc[t].w, loc[t].gpus)
              /\ jobs' = [jobs EXCEPT ![j] = row]
              /\ loc' = [loc EXCEPT ![t] = [@ EXCEPT !.row = row, !.took = FALSE]]
              /\ Goto(t, "launch")
           \/ /\ ~Claimable(j, loc[t].w, loc[t].gpus)
              /\ Goto(t, "scan")
              /\ UNCHANGED <<jobs, loc>>
        /\ UNCHANGED <<lock, workerVars, passVars, remoteVars, clock, faults>>

-----------------------------------------------------------------------------
(* _launch_job: ssh_tmux_new, whose answer may be lost, then update_job.   *)

\* The command reaches the worker: tmux starts the script in a new session.
LaunchEffect(t) ==
    LET w == loc[t].w
        j == loc[t].j
    IN  /\ pc[t] = "launch" /\ ~loc[t].took
        /\ remote[w][j].st # "live"
        /\ remote' = [remote EXCEPT ![w][j] = [st |-> "live", gpus |-> loc[t].row.gpus]]
        /\ loc' = [loc EXCEPT ![t].took = TRUE]
        /\ UNCHANGED <<jobs, workerVars, lock, pc, passVars, late, clock, faults>>

\* Return code 0, or a return code that says tmux did not start the script.
LaunchAnswer(t) ==
    /\ pc[t] = "launch"
    /\ loc' = [loc EXCEPT ![t].row = [@ EXCEPT !.status =
                                      IF loc[t].took THEN "running" ELSE "failed"]]
    /\ Goto(t, "write")
    /\ UNCHANGED <<jobs, workerVars, lock, passVars, remoteVars, clock, faults>>

\* The launches of the tasks T whose client is gone before they took effect.
Orphans(T) == {[w |-> loc[t].w, j |-> loc[t].j, gpus |-> loc[t].row.gpus] :
                   t \in {u \in T : pc[u] = "launch" /\ ~loc[u].took}}
\* An orphan is dropped, or, with LateDelivery, may still arrive.
Abandon(T) == \/ UNCHANGED late
              \/ LateDelivery /\ late' = late \cup Orphans(T)

\* After a job has been launched the dispatch loop looks at the queue again;
\* start_job returns.
AfterLaunch(t) ==
    IF loc[t].row.managed
    THEN Goto(t, "scan") /\ UNCHANGED <<lock, loc>>
    ELSE Leave(t, {})

\* Mutant: an unknown outcome is taken for a failed launch.
LaunchUnknownFails(t) ==
    /\ pc[t] = "launch"
    /\ Fault
    /\ Abandon({t})
    /\ jobs' = [jobs EXCEPT ![loc[t].j].status = "failed"]
    /\ AfterLaunch(t)
    /\ UNCHANGED <<workerVars, passVars, remote, clock>>

\* Return code < 0 (timeout) or 255 (ssh failed): the row keeps its claim.
LaunchUnknown(t) ==
    /\ pc[t] = "launch"
    /\ Fault
    /\ Abandon({t})
    /\ AfterLaunch(t)
    /\ UNCHANGED <<jobs, workerVars, passVars, remote, clock>>

\* update_job: the whole row as the task holds it.
LaunchWrite(t) ==
    /\ pc[t] = "write"
    /\ jobs' = [jobs EXCEPT ![loc[t].j] = loc[t].row]
    /\ AfterLaunch(t)
    /\ UNCHANGED <<workerVars, passVars, remoteVars, clock, faults>>

\* A launch whose client was killed arrives after all; tmux refuses a second
\* session of the same name.
LateStart(e) ==
    /\ e \in late
    /\ late' = late \ {e}
    /\ remote' = IF remote[e.w][e.j].st = "live" THEN remote
                 ELSE [remote EXCEPT ![e.w][e.j] = [st |-> "live", gpus |-> e.gpus]]
    /\ UNCHANGED <<jobs, workerVars, lock, pc, loc, passVars, clock, faults>>

-----------------------------------------------------------------------------
(* Handlers that create jobs.                                              *)

\* jobs_queue_create: resolve_worker and the capacity check.
Accepted(w, n) == w \in registered /\ n <= GpuCount[w]

\* The queue_order values of the jobs of w that are not over, and 0.
Orders(w) == {0} \cup {jobs[i].order : i \in
                  {k \in JobIds : Queued(jobs[k]) /\ jobs[k].worker = w}}

\* insert_queued_job: the row of a new job goes behind the largest queue_order.
Appended(j, w, n, m) ==
    [jobs EXCEPT ![j] = [NoRow EXCEPT !.worker = w, !.status = "pending",
                                      !.managed = TRUE, !.need = n, !.order = m + 1]]

\* POST /jobs/queue: enqueue_job.
Enqueue(h, w, j, n) ==
    /\ pc[h] = "idle"
    /\ Accepted(w, n)
    /\ j \notin ImmediateIds /\ jobs[j].status = "none"
    /\ \E m \in Orders(w) :
        /\ \A o \in Orders(w) : o <= m
        /\ jobs' = Appended(j, w, n, m)
    /\ Goto(h, "dispatch")
    /\ loc' = [loc EXCEPT ![h] = [NoLocals EXCEPT !.avail = Snapshot({w}), !.disp = {w}]]
    /\ UNCHANGED <<workerVars, lock, passVars, remoteVars, clock, faults>>

\* POST /jobs: start_job builds a row and waits for the lock of the worker.
StartJob(h, w, j) ==
    /\ pc[h] = "idle"
    /\ w \in registered
    /\ j \in ImmediateIds /\ jobs[j].status = "none"
    /\ \A t \in Tasks : pc[t] = "start" => loc[t].j # j
    /\ Goto(h, "start")
    /\ loc' = [loc EXCEPT ![h] = [NoLocals EXCEPT !.w = w, !.j = j,
          !.row = [NoRow EXCEPT !.worker = w, !.status = "starting", !.started = clock]]]
    /\ UNCHANGED <<jobs, workerVars, lock, passVars, remoteVars, clock, faults>>

\* start_job, under the lock: insert_job.
StartInsert(t) ==
    /\ pc[t] = "start"
    /\ Lock(t)
    /\ jobs' = [jobs EXCEPT ![loc[t].j] = loc[t].row]
    /\ Goto(t, "launch")
    /\ UNCHANGED <<workerVars, loc, passVars, remoteVars, clock, faults>>

-----------------------------------------------------------------------------
(* DELETE /jobs/{id}: stop_job.                                            *)

\* jobs_delete reads the row and its worker, then waits for the worker's lock.
StopJob(h, j) ==
    LET w == jobs[j].worker
    IN  /\ pc[h] = "idle"
        /\ jobs[j].status # "none" /\ ~Terminal(jobs[j])
        /\ w \in registered
        /\ Goto(h, "stop")
        /\ loc' = [loc EXCEPT ![h] = [NoLocals EXCEPT !.w = w, !.j = j,
                                                      !.avail = Snapshot({w})]]
        /\ UNCHANGED <<jobs, workerVars, lock, passVars, remoteVars, clock, faults>>

\* The queue of w after job j left it: enumerate(pending, 1).
Close(w, j) == [i \in JobIds |->
    IF i \in Pending(w) \ {j}
    THEN [jobs[i] EXCEPT !.order = Rank(Pending(w) \ {j}, i)]
    ELSE jobs[i]]

\* stop_job, with the lock: a job that moved away or is over needs nothing, a
\* pending queued job is to be failed in the database and anything else has to
\* be killed on the worker first.
StopEnter(t) ==
    LET w == loc[t].w
        j == loc[t].j
        gone == jobs[j].worker # w \/ Terminal(jobs[j])
    IN  /\ pc[t] = "stop"
        /\ lock[w] = NoTask
        /\ \/ /\ gone
              /\ Continue(t, {})
              /\ UNCHANGED lock
           \/ /\ ~gone
              /\ Lock(t)
              /\ Goto(t, IF j \in Pending(w) THEN "drop" ELSE "kill")
              /\ UNCHANGED loc
        /\ UNCHANGED <<jobs, workerVars, passVars, remoteVars, clock, faults>>

\* fail_pending_job, on whatever worker a PATCH has put the job meanwhile; the
\* queue of the worker that was asked is dispatched if a job was failed.
DropPending(t) ==
    LET j == loc[t].j
        v == jobs[j].worker
    IN  /\ pc[t] = "drop"
        /\ \/ /\ j \in Pending(v)
              /\ jobs' = [Close(v, j) EXCEPT ![j] = [jobs[j] EXCEPT
                              !.status = "failed", !.order = 0]]
              /\ Leave(t, {loc[t].w})
           \/ /\ j \notin Pending(v)
              /\ Leave(t, {})
              /\ UNCHANGED jobs
        /\ UNCHANGED <<workerVars, passVars, remoteVars, clock, faults>>

\* The session of job j on w after kill-session.
Killed(w, j) == IF remote[w][j].st = "live"
                THEN [remote EXCEPT ![w][j] = [st |-> "dead", gpus |-> {}]]
                ELSE remote

\* ssh_tmux_kill answers "stopped": the row is read again and marked failed.
KillAnswer(t) ==
    LET w == loc[t].w
        row == jobs[loc[t].j]
    IN  /\ pc[t] = "kill"
        /\ remote' = Killed(w, loc[t].j)
        /\ IF Terminal(row)
           THEN Leave(t, {})
           ELSE /\ loc' = [loc EXCEPT ![t].row = [row EXCEPT !.status = "failed"]]
                /\ Goto(t, "settle")
                /\ UNCHANGED lock
        /\ UNCHANGED <<jobs, workerVars, passVars, late, clock, faults>>

\* The kill failed, or succeeded and its answer was lost: the row stays.
KillUnknown(t) ==
    /\ pc[t] = "kill"
    /\ Fault
    /\ remote' \in {remote, Killed(loc[t].w, loc[t].j)}
    /\ Leave(t, {})
    /\ UNCHANGED <<jobs, workerVars, passVars, late, clock>>

\* update_job with a terminal row; the freed GPUs of a queued job are offered
\* to the queue of the worker at once.
Settle(t) ==
    /\ pc[t] = "settle"
    /\ jobs' = [jobs EXCEPT ![loc[t].j] = loc[t].row]
    /\ Leave(t, IF loc[t].row.managed THEN {loc[t].w} ELSE {})
    /\ UNCHANGED <<workerVars, passVars, remoteVars, clock, faults>>

-----------------------------------------------------------------------------
(* refresh_job_status.                                                     *)

\* Mutant: queued jobs are left to somebody else.
RefreshableImmediate(r) == r.status = "running" /\ ~r.managed

Refreshable(r) == r.status = "running" \/ (r.status = "pending" /\ ~r.managed)

\* The sync mode of POST /jobs, data copies and marimo poll their own job.
PollJob(h, j) ==
    /\ pc[h] = "idle"
    /\ jobs[j].status # "none" /\ ~jobs[j].managed
    /\ Goto(h, "refresh")
    /\ loc' = [loc EXCEPT ![h] = [NoLocals EXCEPT !.w = jobs[j].worker, !.j = j]]
    /\ UNCHANGED <<jobs, workerVars, lock, passVars, remoteVars, clock, faults>>

\* reconcile_active_ssh_jobs: a coroutine takes the next job of the list.
RefreshNext(r, j) ==
    LET w == jobs[j].worker
    IN  /\ phase = "refresh"
        /\ pc[r] = "idle"
        /\ j \in todo
        /\ todo' = todo \ {j}
        /\ \/ /\ w \in plan.disp
              /\ Goto(r, "refresh")
              /\ loc' = [loc EXCEPT ![r] = [NoLocals EXCEPT !.w = w, !.j = j,
                                                            !.avail = plan.avail]]
           \/ /\ w \notin plan.disp
              /\ UNCHANGED <<pc, loc>>
        /\ UNCHANGED <<jobs, workerVars, lock, phase, plan, remoteVars, clock, faults>>

\* Mutant: the status of the row is not looked at again under the lock.
ToRefreshStale(r, w) == r.worker = w

ToRefresh(r, w) == r.worker = w /\ Refreshable(r)

\* refresh_job_status, with the lock: read the row again and look at its status.
RefreshEnter(t) ==
    LET row == jobs[loc[t].j]
        skip == ~ToRefresh(row, loc[t].w)
    IN  /\ pc[t] = "refresh"
        /\ lock[loc[t].w] = NoTask
        /\ \/ /\ skip
              /\ Continue(t, {})
              /\ UNCHANGED lock
           \/ /\ ~skip
              /\ Lock(t)
              /\ loc' = [loc EXCEPT ![t].row = row]
              /\ Goto(t, "poll")
        /\ UNCHANGED <<jobs, workerVars, passVars, remoteVars, clock, faults>>

\* ssh_tmux_running finds no EXIT line in the log, or a probe fails.
PollNothing(t) ==
    /\ pc[t] = "poll"
    /\ \/ remote[loc[t].w][loc[t].j].st \notin Exits /\ UNCHANGED faults
       \/ remote[loc[t].w][loc[t].j].st \in Exits /\ Fault
    /\ Leave(t, {})
    /\ UNCHANGED <<jobs, workerVars, passVars, remoteVars, clock>>

ExitStatus(st) == IF st = "exit0" THEN "done" ELSE "failed"

\* The EXIT line is there and ssh_get_exit_code reads it.
PollExit(t) ==
    LET st == remote[loc[t].w][loc[t].j].st
    IN  /\ pc[t] = "poll"
        /\ st \in Exits
        /\ loc' = [loc EXCEPT ![t].row = [@ EXCEPT !.status = ExitStatus(st)]]
        /\ Goto(t, "settle")
        /\ UNCHANGED <<jobs, workerVars, lock, passVars, remoteVars, clock, faults>>

-----------------------------------------------------------------------------
(* PATCH /jobs/{id}/queue: update_pending_job, without the dispatch lock.  *)

\* The handler reads the row, its worker and the worker the request names
\* ("patchTo") or none ("patchHere").
PatchJob(h, j, w) ==
    LET src == jobs[j].worker
    IN  /\ pc[h] = "idle"
        /\ jobs[j].managed /\ jobs[j].status = "pending"
        /\ w \in registered
        /\ \/ Goto(h, "patchTo")
           \/ w = src /\ Goto(h, "patchHere")
        /\ loc' = [loc EXCEPT ![h] = [NoLocals EXCEPT !.w = w, !.j = j,
                      !.avail = Snapshot({src, w} \cap registered),
                      !.disp = {src, w} \cap registered]]
        /\ UNCHANGED <<jobs, workerVars, lock, passVars, remoteVars, clock, faults>>

\* The rows after job j was put at a position of the queue of w; 0 stands for
\* no position in the request.
Moved(j, w, n, pos) ==
    LET src == jobs[j].worker
        others == Pending(w) \ {j}
        last == Cardinality(others) + 1
        at == IF pos # 0 THEN (IF pos < last THEN pos ELSE last)
              ELSE IF w = src THEN Rank(Pending(src), j) ELSE last
        Shifted(r) == IF r < at THEN r ELSE r + 1
    IN  [i \in JobIds |->
            IF i = j THEN [jobs[j] EXCEPT !.worker = w, !.need = n, !.order = at]
            ELSE IF i \in others
                 THEN [jobs[i] EXCEPT !.order = Shifted(Rank(others, i))]
                 ELSE IF w # src THEN Close(src, j)[i] ELSE jobs[i]]

\* What update_pending_job checks again under the queue lock.
Patchable(j, w, n) ==
    /\ jobs[j].managed /\ jobs[j].status = "pending"
    /\ w \in registered
    /\ n <= GpuCount[w]

PatchApply(t, n, pos) ==
    LET j == loc[t].j
        w == IF pc[t] = "patchTo" THEN loc[t].w ELSE jobs[j].worker
        ok == Patchable(j, w, n)
    IN  /\ pc[t] \in {"patchTo", "patchHere"}
        /\ \/ /\ ok
              /\ jobs' = Moved(j, w, n, pos)
              /\ Continue(t, loc[t].disp)
           \/ /\ ~ok
              /\ Continue(t, {})
              /\ UNCHANGED jobs
        /\ UNCHANGED <<workerVars, lock, passVars, remoteVars, clock, faults>>

-----------------------------------------------------------------------------
(* _job_reconciler: refresh the running jobs, resolve the starting ones,   *)
(* dispatch every worker, and sleep.                                       *)

\* What this part of the pass reads of the workers table.
ReadWorkers == plan' = [avail |-> Snapshot(registered), disp |-> registered]

PassRefresh ==
    /\ phase = "sleep"
    /\ phase' = "refresh"
    /\ todo' = {j \in JobIds : Refreshable(jobs[j])}
    /\ ReadWorkers
    /\ UNCHANGED <<jobs, workerVars, lock, pc, loc, remoteVars, clock, faults>>

\* Mutant: only immediate jobs are recovered.
RecoverableImmediate(r) == r.status = "starting" /\ ~r.managed

Recoverable(r) == r.status = "starting"

\* gather returned: reconcile_queued_jobs reads the workers and the starting rows.
PassRecover ==
    /\ phase = "refresh" /\ todo = {}
    /\ \A r \in Refreshers : pc[r] = "idle"
    /\ phase' = "recover"
    /\ todo' = {j \in JobIds : Recoverable(jobs[j]) /\ jobs[j].worker \in registered}
    /\ ReadWorkers
    /\ UNCHANGED <<jobs, workerVars, lock, pc, loc, remoteVars, clock, faults>>

\* The sort key of the recovery: started_at, queue_order, id, newest first.
Newer(i, j) ==
    \/ jobs[i].started > jobs[j].started
    \/ /\ jobs[i].started = jobs[j].started
       /\ \/ jobs[i].order > jobs[j].order
          \/ jobs[i].order = jobs[j].order /\ i > j

RecoverNext ==
    /\ phase = "recover"
    /\ pc[Reconciler] = "idle"
    /\ \E j \in todo :
        /\ \A i \in todo \ {j} : Newer(j, i)
        /\ todo' = todo \ {j}
        /\ loc' = [loc EXCEPT ![Reconciler] =
                      [NoLocals EXCEPT !.w = jobs[j].worker, !.j = j]]
    /\ Goto(Reconciler, "recover")
    /\ UNCHANGED <<jobs, workerVars, lock, phase, plan, remoteVars, clock, faults>>

\* JobManager.reconcile_starting_job, with the lock: look at the row again.
RecoverEnter(t) ==
    LET row == jobs[loc[t].j]
    IN  /\ pc[t] = "recover"
        /\ lock[loc[t].w] = NoTask
        /\ \/ /\ row.status # "starting"
              /\ Continue(t, {})
              /\ UNCHANGED lock
           \/ /\ row.status = "starting"
              /\ Lock(t)
              /\ Goto(t, "probe")
              /\ UNCHANGED loc
        /\ UNCHANGED <<jobs, workerVars, passVars, remoteVars, clock, faults>>

\* Mutant: the job goes to the front and the others keep their order.
RequeuedOver(j) == [jobs EXCEPT ![j] = [jobs[j] EXCEPT !.status = "pending",
                                           !.gpus = {}, !.started = 0, !.order = 1]]

\* Database.reconcile_starting_job(launch_observed=False): a queued job goes
\* back to the front of its queue, an immediate one has failed.
Requeued(j) ==
    IF jobs[j].managed
    THEN [i \in JobIds |->
             IF i = j THEN [jobs[j] EXCEPT !.status = "pending", !.gpus = {},
                                           !.started = 0, !.order = 1]
             ELSE IF i \in Pending(jobs[j].worker)
                  THEN [jobs[i] EXCEPT !.order = @ + 1]
                  ELSE jobs[i]]
    ELSE [jobs EXCEPT ![j].status = "failed"]

\* Mutant: the probe asks for a tmux session and not for the log.
SessionStarted(w, j) == remote[w][j].st = "live"

\* ssh_job_started: a session or a log says the launch happened.
JobStarted(w, j) == remote[w][j].st # "none"

ProbeAnswer(t) ==
    LET j == loc[t].j
    IN  /\ pc[t] = "probe"
        /\ jobs' = IF JobStarted(loc[t].w, j)
                   THEN [jobs EXCEPT ![j].status = "running"]
                   ELSE Requeued(j)
        /\ Leave(t, {})
        /\ UNCHANGED <<workerVars, passVars, remoteVars, clock, faults>>

\* The probe itself failed: the row keeps its claim until the next pass.
ProbeUnknown(t) ==
    /\ pc[t] = "probe"
    /\ Fault
    /\ Leave(t, {})
    /\ UNCHANGED <<jobs, workerVars, passVars, remoteVars, clock>>

\* Mutant: the pass ends after the recovery.
NoDispatch == {}

ToDispatch == plan.disp

\* The second half of reconcile_queued_jobs: dispatch_worker for every worker read.
PassDispatch ==
    /\ phase = "recover" /\ todo = {}
    /\ pc[Reconciler] = "idle"
    /\ phase' = "dispatch"
    /\ loc' = [loc EXCEPT ![Reconciler] =
                  [NoLocals EXCEPT !.avail = plan.avail, !.disp = ToDispatch]]
    /\ Goto(Reconciler, IF ToDispatch = {} THEN "idle" ELSE "dispatch")
    /\ UNCHANGED <<jobs, workerVars, lock, todo, plan, remoteVars, clock, faults>>

PassDone ==
    /\ phase = "dispatch"
    /\ pc[Reconciler] = "idle"
    /\ phase' = "sleep"
    /\ plan' = [avail |-> NoSnapshot, disp |-> {}]
    /\ UNCHANGED <<jobs, workerVars, lock, pc, loc, todo, remoteVars, clock, faults>>

-----------------------------------------------------------------------------
(* What the workers and the outside do.                                    *)

\* A registration: upsert_worker stores the telemetry, the worker is online.
Heartbeat(w, I) ==
    /\ I \subseteq 0 .. GpuCount[w] - 1
    /\ registered' = registered \cup {w}
    /\ idle' = [idle EXCEPT ![w] = I]
    /\ <<registered', idle'>> # <<registered, idle>>
    /\ UNCHANGED <<jobs, lock, pc, loc, passVars, remoteVars, clock, faults>>

\* stale_worker_pruner: the row of a silent worker is deleted, its jobs stay.
Prune(w) ==
    /\ w \in registered
    /\ Fault
    /\ registered' = registered \ {w}
    /\ UNCHANGED <<jobs, idle, lock, pc, loc, passVars, remoteVars, clock>>

\* The command of a job ends and the script writes EXIT:code.
Exit(w, j, st) ==
    /\ remote[w][j].st = "live"
    /\ remote' = [remote EXCEPT ![w][j] = [st |-> st, gpus |-> {}]]
    /\ UNCHANGED <<jobs, workerVars, lock, pc, loc, passVars, late, clock, faults>>

\* The session dies without an EXIT line (the container or the host restarts).
Lost(w, j) ==
    /\ remote[w][j].st = "live"
    /\ Fault
    /\ remote' = [remote EXCEPT ![w][j] = [st |-> "dead", gpus |-> {}]]
    /\ UNCHANGED <<jobs, workerVars, lock, pc, loc, passVars, late, clock>>

Tick ==
    /\ clock < MaxClock
    /\ clock' = clock + 1
    /\ UNCHANGED <<jobs, workerVars, lock, pc, loc, passVars, remoteVars, faults>>

\* A task is cancelled or an await of it raises (LaneTimeout, or the log read of
\* _record_failure before the dispatch).  A handler ends, a refresher and the
\* reconciler log it and go on with their next item.
Abort(t) ==
    /\ pc[t] \in Holding \/ (t # Reconciler /\ pc[t] # "idle")
    /\ Fault
    /\ Abandon({t})
    /\ lock' = [w \in Workers |-> IF lock[w] = t THEN NoTask ELSE lock[w]]
    /\ Continue(t, IF t = Reconciler THEN loc[t].disp \ {loc[t].w} ELSE {})
    /\ UNCHANGED <<jobs, workerVars, passVars, remote, clock>>

\* The control process dies and starts again: only the database and the
\* workers keep what they had.
Crash ==
    /\ Fault
    /\ Abandon(Tasks)
    /\ lock' = [w \in Workers |-> NoTask]
    /\ pc' = [t \in Tasks |-> "idle"]
    /\ loc' = [t \in Tasks |-> NoLocals]
    /\ phase' = "sleep"
    /\ todo' = {}
    /\ plan' = [avail |-> NoSnapshot, disp |-> {}]
    /\ UNCHANGED <<jobs, workerVars, remote, clock>>

-----------------------------------------------------------------------------
\* A request arrives and a free handler takes it.
Request(h) ==
    \/ \E w \in Workers, j \in JobIds, n \in Needs : Enqueue(h, w, j, n)
    \/ \E w \in Workers, j \in JobIds : StartJob(h, w, j)
    \/ \E j \in JobIds : StopJob(h, j)
    \/ \E j \in JobIds : PollJob(h, j)
    \/ \E j \in JobIds, w \in Workers : PatchJob(h, j, w)

\* A task that has begun takes its next step.
Step(t) ==
    \/ DispatchBegin(t) \/ Scan(t) \/ Claim(t)
    \/ LaunchEffect(t) \/ LaunchAnswer(t) \/ LaunchWrite(t)
    \/ StartInsert(t)
    \/ StopEnter(t) \/ DropPending(t) \/ KillAnswer(t) \/ Settle(t)
    \/ RefreshEnter(t) \/ PollNothing(t) \/ PollExit(t)
    \/ RecoverEnter(t) \/ ProbeAnswer(t)
    \/ \E n \in Needs, pos \in Positions \cup {0} : PatchApply(t, n, pos)

Pass ==
    \/ PassRefresh \/ PassRecover \/ RecoverNext \/ PassDispatch \/ PassDone
    \/ \E r \in Refreshers, j \in JobIds : RefreshNext(r, j)

\* What goes wrong.
Failure ==
    \/ \E t \in Tasks : LaunchUnknown(t) \/ KillUnknown(t) \/ ProbeUnknown(t) \/ Abort(t)
    \/ \E w \in Workers : Prune(w)
    \/ \E w \in Workers, j \in JobIds : Lost(w, j)
    \/ Crash

World ==
    \/ \E w \in Workers, I \in IdleReports : Heartbeat(w, I)
    \/ \E w \in Workers, j \in JobIds, st \in Exits : Exit(w, j, st)
    \/ \E e \in late : LateStart(e)
    \/ Tick

Next ==
    \/ \E h \in Handlers : Request(h)
    \/ \E t \in Tasks : Step(t)
    \/ Pass
    \/ World
    \/ Failure

Spec == Init /\ [][Next]_vars

-----------------------------------------------------------------------------
(* Properties.                                                             *)

\* Every variable keeps its type.
TypeOK ==
    /\ jobs \in [JobIds -> Row]
    /\ registered \in SUBSET Workers
    /\ idle \in [Workers -> SUBSET GpuIds]
    /\ lock \in [Workers -> Tasks \cup {NoTask}]
    /\ pc \in [Tasks -> Waiting \cup Holding]
    /\ loc \in [Tasks -> Locals]
    /\ phase \in {"sleep", "refresh", "recover", "dispatch"}
    /\ todo \in SUBSET JobIds
    /\ plan \in [avail : [Workers -> SUBSET GpuIds], disp : SUBSET Workers]
    /\ remote \in [Workers -> [JobIds -> Session]]
    /\ late \in SUBSET [w : Workers, j : JobIds, gpus : SUBSET GpuIds]
    /\ clock \in Nat
    /\ faults \in Nat

\* No GPU is reserved twice: the active queue-managed rows of a worker have
\* disjoint gpu_indices, however dispatches, PATCHes, stops, recoveries and
\* restarts interleave and however stale the telemetry they use.
GpuExclusive ==
    \A i, j \in JobIds :
        (/\ i # j
         /\ jobs[i].managed /\ Active(jobs[i])
         /\ jobs[j].managed /\ Active(jobs[j])
         /\ jobs[i].worker = jobs[j].worker)
        => jobs[i].gpus \cap jobs[j].gpus = {}

\* A process that runs on GPUs has them reserved: as long as the session of a
\* queued job lives, its row is active, on that worker, with those GPUs; so a
\* lost launch or kill answer never frees GPUs that are in use.
LiveIsReserved ==
    \A w \in Workers, j \in JobIds :
        (jobs[j].managed /\ remote[w][j].st = "live")
        => /\ Active(jobs[j])
           /\ jobs[j].worker = w
           /\ jobs[j].gpus = remote[w][j].gpus

\* The command of a job is never started a second time, on any worker, after
\* any session of it has been started: recovery does not retry a launch whose
\* answer was merely lost.
RunsOnce ==
    [][\A w, v \in Workers, j \in JobIds :
          remote[w][j].st # "none" /\ remote[v][j].st # "live"
          => remote'[v][j].st # "live"]_remote

\* A finished row is never written again: no task that read the row before it
\* finished (a launch, a refresh, a stop, a PATCH) overwrites it with update_job.
TerminalStable ==
    [][\A j \in JobIds : Terminal(jobs[j]) => jobs'[j] = jobs[j]]_jobs

\* The pending jobs of a worker have a strict order: their queue_order values
\* differ and start at 1, through renumbering, prepending and moves.
QueueOrdered ==
    \A w \in Workers : \A i, j \in Pending(w) :
        /\ jobs[i].order >= 1
        /\ i # j => jobs[i].order # jobs[j].order

\* The reservations the rows stand for.
Held == UNION {[worker : {jobs[j].worker}, gpu : jobs[j].gpus, job : {j}] :
                 j \in {i \in JobIds : jobs[i].managed /\ Active(jobs[i])}}
Reservation == INSTANCE GpuReservation WITH Gpus <- GpuIds, held <- Held

\* The queue implements GpuReservation: GPUs are taken all at once by a job
\* that had none, never taken from another job, never changed while held.
ImplementsReservation == Reservation!Spec

-----------------------------------------------------------------------------
(* Liveness.  A waiter of an asyncio.Lock gets it in FIFO order and every  *)
(* ssh call has a timeout, so a task is never overtaken for ever (strong   *)
(* fairness); the reconciler loops for ever; a worker that is up registers *)
(* again; a command ends.  Faults are finitely many (MaxFaults).           *)
Fairness ==
    /\ \A t \in Tasks : SF_vars(Step(t))
    /\ WF_vars(Pass)
    /\ \A w \in Workers : WF_vars(w \notin registered /\ \E I \in IdleReports : Heartbeat(w, I))
    /\ \A w \in Workers, j \in JobIds : WF_vars(\E st \in Exits : Exit(w, j, st))

FairSpec == Spec /\ Fairness

\* A claim is always resolved: a row does not stay in "starting" for ever,
\* whichever launch answer, probe answer or process was lost on the way.
StartingResolves ==
    \A j \in JobIds : jobs[j].status = "starting" ~> jobs[j].status # "starting"

\* A finished command is noticed: its row becomes terminal, which frees its GPUs.
ExitNoticed ==
    \A j \in JobIds :
        (/\ Active(jobs[j])
         /\ remote[jobs[j].worker][j].st \in Exits)
        ~> Terminal(jobs[j])

\* A session that died without an EXIT line while its row says running: the
\* code never resolves such a row by itself.
Leaked == \E j \in JobIds : /\ jobs[j].status = "running"
                            /\ remote[jobs[j].worker][j].st = "dead"

\* A pending job is eventually claimed or stopped, unless a leaked row keeps
\* its GPUs.
PendingServed ==
    \A j \in JobIds : jobs[j].status = "pending" ~> jobs[j].status # "pending" \/ Leaked
=============================================================================
