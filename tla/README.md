# Verification of worker-harness

worker-harness runs commands on GPU workers from one control process. This
directory holds TLA+ modules of its concurrent parts, the TLC configurations that
check them, and TLAPS proofs of the results that matter most. Sections 1 to 5 are the
system, the runs, the job queue and the ssh lanes; 6 to 17 one further part each; 18
lists the deviations from documents and tests that the models show, 19 what is left
out, 20 the plan.

Paths below are relative to the repository; `job.py`, `db.py`, ... are the files
of `src/worker_harness/`.

## 1. The system

| Component | State | Operations | Talks to |
|---|---|---|---|
| JobManager (`job.py`) | one asyncio lock per worker | enqueue, immediate start, dispatch, stop, refresh, recovery of `starting` rows | database, workers over ssh |
| Job rows (`db.py`) | table `jobs`, `_queue_lock` | insert, claim, move, fail, requeue, whole-row update | every task of the process |
| Reconciler (`heartbeat.py`) | a loop of period 10 s | refresh running jobs with up to 4 coroutines, recover `starting` rows, dispatch all workers | JobManager |
| Job handlers (`heartbeat.py`) | none of their own | POST/PATCH queue, POST and DELETE jobs, sync polling | JobManager, database |
| Registration and pruning (`heartbeat.py`, `orchestrator.py`) | table `workers` | register (heartbeat), prune silent workers | workers |
| ssh calls (`ssh.py`) and lanes (`lanes.py`) | per-worker slots and FIFO of waiters, one child process per call | acquire, release, abandon, run, terminate | worker's sshd and tmux |
| Tunnels (`tunnel_registry.py`, `reaper.py`, handlers) | registry of processes, table `tunnels` | open, delete, reap, shutdown | ssh processes |
| Pi session bridge (`db.py`, handlers) | tables of sessions, events and commands | register incarnation, append events, enqueue, claim with lease, acknowledge, sweep | Pi sessions on workers and hosts |
| Fleet orchestration (`orchestration.py`, `herdr_host.py`) | tasks, project-manager sessions, locks | launch, wait for bridge, tear down, stop, poll | machines over ssh, bridge |
| Gateway attachments (`heartbeat.py`, `pi_terminal.py`) | attachment slots | attach, evict, release | browsers |
| Marimo (`marimo.py`, handlers) | a row, a job and a tunnel per session | create with rollback, delete | JobManager, tunnels |
| Data copies (`heartbeat.py`, `worker_container/wh-data-export`) | rsync daemon, serve rule, files and timer per transfer | export, upload, start, watch, clean up | workers over ssh, JobManager |
| Database file (`db.py`) | schema version, one connection per process | connect and migrate, execute, commit, roll back | every process and task |
| Cache, rate limiter | dictionaries | get/set/invalidate, consume | handlers |
| Worker daemon (`worker_container/worker_daemon.py`) | an id file, a loop | create the id, heartbeat | registration port |
| Host runtime (`host_runtime.py`) | a manifest file | capture, probe, replace, load | shells and tools of a host |
| Native terminal client (`pi_terminal.py`) | four tasks per attachment | dial, forward, resize, detach, cycle | relay, gateway |
| CLI, TUI, web client, metrics, deployment scripts | none of their own | formatting, installation | control API |

What is hard here:

* **Concurrency.** The process is one asyncio event loop: a task can be
  interrupted at every `await`, and most awaits are database or ssh calls. The
  lock of a worker serialises dispatch, launch, stop, refresh and recovery of
  that worker; PATCH takes only `_queue_lock`, and callers pass worker rows they
  read before they got the lock.
* **Failure.** Every ssh call may time out after its command took effect. The
  process may die between any two steps and starts again with nothing but the
  database; workers keep running. Handlers can be cancelled anywhere.
* **Ordering.** Rows are renumbered, prepended, moved and claimed by several
  paths; recovery is spread over passes.

## 2. Modules

| Module | What it is |
|---|---|
| `GpuReservation` | abstract specification: what the queue promises about GPUs |
| `JobQueue` | JobManager, its rows, the reconciler, the job handlers, registrations and the tmux sessions |
| `MCJobQueue` | values of the constants for TLC |
| `JobQueueProofs` | TLAPS: type correctness, exclusive reservations, finished rows are final, the queue implements `GpuReservation`; live sessions are reserved, commands run once, the order of the queue |
| `WorkerLanes` | the ssh lanes and the ssh executor (section 5) |
| `WorkerLanesProofs` | TLAPS: slots, wake-ups, first in first out, processes |
| `CommandDelivery` | abstract specification: what a Pi session's command queue promises |
| `PiBridge` | one Pi session: its rows, its bridge and the requests between them (section 6) |
| `PiBridgeProofs` | TLAPS: claims, questions, transcript, the queue implements `CommandDelivery` |
| `Fleet`, `FleetProofs` | managers and tasks of a project (7); TLAPS: the lock, its managers, the work of agents |
| `Tunnels`, `TunnelsProofs` | tunnels and marimo sessions (8); TLAPS: nothing leaks, removal is final |
| `SharedConnection` | the one SQLite connection, event stream, worker job reports (9) |
| `ResponseCache` | the TTL cache (10) |
| `RateLimiter` | token buckets (11) |
| `SharedState`, `SharedStateProofs` | the three before, side by side; TLAPS: bursts, promises, the age of answers, durability, the stream |
| `GatewayAttachments` | attachment slots of the gateway (12) |
| `SchemaMigration` | connect and the migrations, statement by statement (13) |
| `HostRuntime` | the host manifest (14) |
| `TerminalAttach` | the native terminal client (15) |
| `WorkerRegistry` | worker ids, heartbeats, pruning (16) |
| `DataCopy` | exports and copies (17) |
| `TerminalEnds`, `TerminalEndsProofs` | gateway and client, side by side; TLAPS: slots and the limit of connections (12), the client's keys (15) |
| `HostState`, `HostStateProofs` | database file, manifest, registry and exports, side by side; TLAPS: the migration (13), manifests and captured paths (14), who is pruned (16), exports (17) |
| `MCHostState` | values for `HostState`: `MCMigration.cfg`, `MCMachines.cfg` and `MCRegistry.cfg` |
| `MCTerminal` | values for `TerminalEnds` |
| `MC...` | one for each other module with a run: the instance TLC checks |

`SharedState`, `HostState` and `TerminalEnds` put components side by side that have no
variable in common. A variable `part`, fixed at the start of a behaviour, says which
of them moves; the others stay as they began. Since no action of one reads what
another writes, every behaviour of a component is a behaviour of the run and the other
way round: TLC explores the sum of the state spaces and not their product, and nothing
is lost. `Parts` of `HostState` says which components a run moves. All three are stated for
all constants, and their proofs derive their properties from those of the parts: a step
of the composition is a step of the part that moves or leaves its variables alone. What
the proofs assume of the constants of a named instance is a definition of the component
(`HostConstants`, `DataCopyConstants`, `ClientConstants`), which the composition assumes and TLC evaluates.

The modules meet where the parts do. `PiBridge` implements `CommandDelivery`, as
`JobQueue` implements `GpuReservation`. `JobQueue` sees `WorkerLanes` as a call that
answers, times out or raises, and `WorkerRegistry` as the set of workers that have a row;
`Fleet` sees `PiBridge` as one registration step; `Tunnels` and `DataCopy` see `JobQueue` as a
job that runs or is over; `SharedConnection` looks below the locks that the others treat
as atomic database methods.

### JobQueue

*State.* `jobs` is the table, one row per id (`"none"`: no row), reduced to
worker, status, `queue_managed`, `gpu_count`, `gpu_indices`, `queue_order` and
`started_at`. `registered` and `idle` are the `workers` table: which ids have a
row and which GPUs `free_gpu_indices` finds idle in its telemetry. `lock`, `pc` and
`loc` are the asyncio tasks: handlers, the coroutines of
`reconcile_active_ssh_jobs`, the reconciler; `loc` holds what a task carries over an
await (the row it read, the worker rows it was given, the GPUs it chose). `phase`,
`todo`, `plan` are the pass of the reconciler. `remote` is the session of a job on a
worker: none, live, exited with an EXIT line, or gone without one. `late` is the
set of launches whose ssh client is gone but which may still arrive.

*Granularity.* One step runs from one await to the next. Reads and writes that the
model puts in one step are those no other task can separate: a database method
under `_queue_lock` is one step because pending rows change only under that lock;
reads made under a worker's lock are one step because the active rows of a worker
change only under its lock. The scan and the claim of a dispatch, the launch and
the write of its result, the read and the failing of a pending job are separate
steps, since other tasks do run in between. `LaunchEffect` is the moment the command
takes effect on the worker; the answer (`LaunchAnswer`), or its loss
(`LaunchUnknown`), is another step.

*Faults.* `LaunchUnknown`, `KillUnknown`, `ProbeUnknown` (lost answers), `Abort` (a task
is cancelled or an await raises), `Lost` (a session dies without an EXIT line),
`Prune`, `Crash`. `MaxFaults` bounds their number. With `LateDelivery` a launch may take
effect after its client was killed.

*Abstractions.* Only jobs of kind ssh. One control process, as README.md:31 asks.
`GpuCount` is constant per worker. Worker rows are online (offline and draining are
set by the CLI only). The order of job ids stands for the order of uuids.
Commands, names, logs and exit codes other than zero or not are left out.

## 3. Runs

| Run | Instance | Properties |
|---|---|---|
| `queue_core` | 2 workers with 2 GPUs each, 2 queued jobs, one handler, one refresh coroutine, the reconciler, 1 fault | `GpuExclusive`, `LiveIsReserved`, `RunsOnce`, `ImplementsReservation` |
| `queue_late` | 1 worker, 2 GPUs, a queued and an immediate job, 2 faults, a clock, late delivery | `TerminalStable` |
| `queue_live` | 1 worker, 1 GPU, 2 queued jobs, 1 fault, fairness | `QueueOrdered`, `StartingResolves`, `ExitNoticed`, `PendingServed` |
| `lanes` | 1 lane of 1 slot and 2 waiters, 4 calls, cancellation anywhere, fairness | `SlotsConserved`, `NoLostWakeup`, `NoOvertaking`, `OrphansAreExplained`, `CallReturns` |
| `bridge` | a fleet session with a prompt or a plain one with a message, 2 incarnations, 1 lost answer, 2 requests in flight, batches that report working, blocked or stopped, fairness | `SessionConsistent`, `OnlyAnAnswerUnblocks`, `DeliversCommands`, `CommandsArrive` |
| `fleet` | 2 managers and a task, or a manager and 2 tasks; 1 branch name, 1 fault: a failing call, a restart or a launch cut off | `ProjectConsistent`, `HolderCanMove`, `WorkPreserved` |
| `tunnels` | a tunnel and a marimo session, 2 ports, 2 delete requests, 1 fault, fairness | `NothingUnowned`, `RemovedStaysRemoved`, `FailedLeavesNothing`, `Settles` |
| `registry` | 1 host, 2 requests in flight, an interval of 1 and a cutoff of 2 ticks, 1 move, loss, crash and removal, fairness | `NothingTakenAway`, `TableIsCurrent` |
| `machines` | exports: 2 for 1 port, 1 fault, 1 restart of the source, fairness; manifest: 2 setups, 1 reader, 1 change of a tool | `MachinesConsistent`, `NothingTakenAway`, `ExportsEnd` |
| `shared` | limiter: 2 agents, 8 ticks; cache: 1 reader of 2 keys, a prune, registrations, a create with its rollback; connection: 2 events, 3 reports, 1 rollback, 1 restart | `WindowBound`, `CacheConsistent`, `ConnectionConsistent`, `AnswersHold` |
| `migration` | 2 processes, a fresh file or one of the previous version, 2 events inserted meanwhile, a registration, 1 fault, fairness | `DatabaseConsistent`, `InteractiveKept`, `EventuallyConnects` |
| `terminal` | gateway: 3 clients, 2 slots, one that may stop reading; client: 2 addresses, 2 keys, 1 frame, 1 resize | `AttachmentsConsistent`, `KeysConsistent`, `AttachmentsProceed` |

All runs pass. A property whose name ends in `Consistent` is the conjunction of the
module's type invariant and of invariants with names and comments of their own;
`AnswersHold`, `NothingTakenAway`, `TableIsCurrent`, `ExportsEnd` and `AttachmentsProceed`
are conjunctions of action or liveness properties, `MachinesConsistent` that of
`ExportsConsistent` (17) and `ManifestConsistent` (14). The sections below explain the
parts.

*What the runs of the queue show.* `GpuExclusive`: no GPU is assigned by two active
managed rows. `LiveIsReserved`: a session that lives on a worker has an active row,
so its GPUs cannot be given away. `RunsOnce`: no command is started twice.
`TerminalStable`: a finished row is never written again. `ImplementsReservation`: the
queue refines `GpuReservation`, whose GPUs are taken only when free and given back
only by their holder. `QueueOrdered`: `queue_order` is a strict order on the pending
jobs of a worker. The liveness properties: every claim is resolved, every exit
noticed, every pending job served.

*Bounds.* Two jobs and two GPUs are what a double reservation needs; two workers with
changing telemetry let a PATCH move or reorder a job between the scan and the claim of
a dispatch; the handler's stop or PATCH overlaps the reconciler's dispatch, recovery and
refresh; one fault at any point is enough for each lost-answer case. `queue_late` affords
two (a lost launch and a lost probe of it) and `MaxClock = 1` lets two rows differ in
`started_at`. In `queue_live` one GPU makes the second job wait for the first; it has one
worker, so its `QueueOrdered` sees no job move between workers. That moves keep the order rests on
the theorem `QueueStaysOrdered`, which holds for any number of workers and positions.

*Fairness* (`queue_live`). Strong fairness of each task's steps: an asyncio.Lock wakes
its waiters in FIFO order and every ssh call has a timeout, so a waiting task is not
overtaken for ever. Weak fairness of the reconciler's pass, of the registration
of a worker that has no row, and of the end of a command. New requests and
faults are not fair; faults are finitely many.

*Known limits.* `LiveIsReserved` and `RunsOnce` hold only if a launch whose ssh client was
killed does not arrive after the probe said "absent" (`LateDelivery = FALSE`);
`queue_late`, with late delivery, checks what holds all the same. A session that dies
without an EXIT line stays `running` for ever (`Leaked`), so `PendingServed` excludes it.

## 4. Proofs

*Assumptions* (`JobQueueAssumption`): sets and bounds have their types, job ids are a
finite set of naturals, the tasks are distinct. Nothing is assumed about the number of
workers, GPUs, jobs, tasks or faults, and late delivery is allowed.

`TypeCorrect` is inductive by itself; it needs the types of the helpers (`Close`,
`Moved`, `Requeued`, `Appended`, `Snapshot`, `Lowest`), stated as lemmas.

`ReservationsExclusive` and `FinishedRowsFinal` rest on one invariant, `IInv`. Exclusive
reservations are not inductive alone, because `LaunchWrite` and `Settle` write whole rows
from a copy: one has to know that the copy still agrees with the table in
everything but the status. So `IInv` says, for every task:

* `HoldsLock`: a task in a locked section is the holder of its worker's lock;
* `OwnsRow`: the row a locked task owns is active and on the task's worker ("starting"
  while it launches, writes or probes); the copy has the table's worker, managed flag
  and GPUs; the status about to be written is running, done or failed as the phase says;
* `KnowsRow`: a task starting an immediate job has not stored its row yet, the row of a stop
  exists, and a row being recovered or probed is stored, not pending, on the task's worker;

and globally that the ids of immediate starts differ (`StartDistinct`), that pending
rows are queue-managed (`PendingManaged`), that the rows still
to recover are stored and not pending (`RecoverKnown`), and `GpuExclusive` itself. Each action is shown to change
rows only in ways that keep the others' copies valid (`RowStep`), and the
per-task facts follow for the tasks that do not move.

`QueueReserves` is the refinement: with the invariant, every step of `JobQueue` is a step of
`GpuReservation` or leaves its variables alone. `ReservationStep` shows it action by action:
only a claim takes GPUs, and the ones it takes are free because it computes them
from the rows in the step that writes them.

`LiveSessionsReserved` and `CommandsRunOnce` assume `~LateDelivery`: with late
delivery they are false (*Known limits*). Their invariant, `SInv`, adds to
`IInv` that nothing is late, which rows have had sessions (`SessionsKnown`), that the row of a
live session is active on its worker (`LiveRows`), that a launch which has not taken
effect, or was refused, has no session, and that a row about to be closed has no live one
(`Fresh`).

`QueueStaysOrdered` needs no assumption. Each rewriting of the order (append, close a gap, move,
prepend) is given a rank that is strictly monotone on the rows it keeps (`RanksDiffer`,
`CloseOrder`, `MovedOrder`, `RequeuedOrder`), so that two pending rows of a worker never
share a number.

*Only model-checked:* the liveness properties (TLAPS does not reason about fairness and
`ENABLED`). `TypeOK` of the queue, the lanes, the limiter and the registry is in no run of
its own: for the queue and the limiter it is proved, for the lanes and the registry the
types are part of the inductive invariant.

## 5. Ssh lanes

`WorkerLanes` models `lanes.py` and the executor of `ssh.py` that runs in a lane
(`_exec_ssh_bytes`, `_terminate_async_process`). Per lane: `available`, `inUse` and the queue
`waiters`; per call: where it is, its lane, and its process group (leader, descendant).
No critical section of a lane's lock awaits anything, so the lock is never contended
and each section is one step. A call between the resolution of its future and its
next run is `granted`: it owns a slot but does not know it yet, and its timeout or
cancellation may come first (`LeaveGranted`). A descendant of ssh holds the pipes, so
`communicate` does not return while it lives. SIGKILL is assumed to work. `Shutdown` is
taken to come after the last `acquire`, as in `lifespan`. JobQueue sees a lane as what it
can do to a call: answer, time out (`LaunchUnknown`, ...) or raise (`Abort`).

`SlotsConserved`: what a lane counts as in use is what calls own. `NoLostWakeup`: nobody
waits while a slot is free. `NoOvertaking`: lanes are FIFO, newcomers included.
`OrphansAreExplained`: a call whose command ran ends with processes left in two ways only, a
cancellation while it waits for the group it has signalled, and an error of `communicate` when
ssh is reaped and its ProxyCommand child lives (`LateErrors`; section 18). `CallReturns`: every call gets
out of the queue and gives its slot back, even with an ssh process that ignores SIGTERM.

One slot, an owner, two waiters and a newcomer are enough for a handoff that races with
a timeout and is passed on; lanes have no state in common, so one is enough (the proofs
cover any number). Deadlock is not checked because the system stops after `Shutdown`.
Fairness is weak fairness of each call's own steps: all of them are timers or ready
callbacks of the event loop. That processes exit is not assumed.

*Proved* (`WorkerLanesProofs`, from `LanesAssumption`: finitely many calls, at least one
slot): `SlotsAreConserved` and `WakeupsAreNotLost` for any lanes, calls, slots and queue
bounds, with cancellation anywhere. The invariant adds that the waiters of a lane are
distinct: a handoff has to move exactly one slot to a call that waits, once, for
that lane. `NoProcessLeft`: without cancellation during the kill, and without
an error after ssh was reaped, no process outlives its call; the invariant behind it (`Fresh`) says a call has processes only while it talks to
them or kills them, which for a call just handed a slot follows from the exactness of
the queue. `OrphansExplained` proves `OrphansAreExplained`, with
cancellation and errors anywhere, from the same invariant. `NobodyIsOvertaken` proves `NoOvertaking`: a step gives slots only to the head of
a queue (`ReleaseInOrder`), since `acquire` takes a free slot only when nobody waits there, or to
a call that was in no queue. `CallReturns` is liveness and model-checked only.

## 6. Pi session bridge

`PiBridge` is one session: its row, its commands, its transcript, and the requests of
its bridge. The bridge itself runs in the agent's terminal and is not part of the
repository; it is modelled from the endpoints it uses: it registers with a new
incarnation at each start or reload, polls, acknowledges, posts events and snapshots,
asks its manager, and sends again what got no answer. As in the code a request is
served in two steps: `Authorize` (require_role reads the row) and the handler under
`_pi_bridge_lock`. Between the two the bridge may be replaced, the session may finish,
the same request may arrive twice (`MaxLosses`).

`SessionConsistent` has the type invariant and four parts. `ClaimsAreCurrent`: no claim of an old
incarnation withholds a command. `DeliveredWasReceived`: what is settled was received by a
bridge. `QuestionIffAsked`: a question is there exactly from the time the agent asks until the session
leaves the blocked state (`asked`, a history). A batch of events may report any state, "blocked" and none
included (`Reported`), so that a session may also be blocked without a question (section 18).
`MessageLoggedOnce`: a message that arrives live, in the snapshot of a reload and again by a
retry is in the transcript once. `OnlyAnAnswerUnblocks`: only a prompt that is acknowledged for
the first time answers a question. `DeliversCommands`: the server's queue refines
`CommandDelivery`. `CommandsArrive`: a bridge that keeps polling gets and acknowledges every
command, across a reload and a lost answer.

Two incarnations are what a late request needs, two requests in flight an old one and a
new one (`MaxCalls`). `kind` is chosen at the start: a fleet session is sent a prompt and asks
its manager, a plain one speaks and reloads. Deadlock is not checked: a finished session
stops. Fairness: weak, of the server's handlers (one lock, no wait inside it); strong, of the
bridge's own loop, which retries for ever and whose requests wait for one another; nothing
is assumed of users.

*Proved* (`PiBridgeProofs`, from `BridgeAssumption`: any commands, messages, incarnations,
losses and requests in flight). The inductive invariant `IInv` adds to the four parts what the bridge
and the requests on their way know: the incarnation that runs is registered or about to
be (`BridgeRuns`), an acknowledgement names commands the sender was given (`AcksWereGiven`),
what is settled was given (`SettledWasGiven`), and where each message of the agent is
(`AllSaid`, `Transcript`). `ClaimsStayCurrent`, `SettledWasReceived`, `QuestionsMatch`,
`OnlyAnswersUnblock` and the refinement `QueueDelivers` hold of every session.
`SessionStaysConsistent`, which includes the transcript, assumes of `Kinds` what the run's
two kinds satisfy: a session that speaks (`says`) has no registration that is applied
late (`late`). Without it TLC refutes `MessageLoggedOnce` once there are three incarnations (section
18). `CommandsArrive` is model-checked only.

## 7. Fleet orchestration

`Fleet` is one project: `_launch` and its cleanup, `ensure_pm`, `create_worktree`,
`teardown_task`, the reaping of idle managers, stop requests. An action is one remote call
(herdr or git over ssh) with the database writes after it; a call can fail before or after
it took effect (`MaxFaults`), and the control process can restart between any two
(one restart), which loses `_pm_locks` and every launch in progress. A launch may also be cut off
by a cancellation or an unexpected error where the code handles none (`CutOff`: around
`workspace_create` and the insert of the row, up to the `try`; in `_wait_for_bridge`; in a handler of
an error; before the children are reparented): the lock comes free, nothing is cleaned up. `cuts` counts both.

`ProjectConsistent` has the type invariant and four parts. `OneManager`: never two managers that
are not finished. `RetiresOnlyIdle`: a manager is retired only while it has no live task and no
prompt, also when one arrived while `poll` waited for the lock. `TasksHaveManager`: the manager
owns the tasks of its predecessors; a restart of the control process and a launch cut off are
excepted. `FailedLaunchIsFinished`: a launch that failed leaves no live session, even if it
registered in the last moment; the exception is again a launch that was cut off, whose row may stay
in `starting` (both in section 18). `HolderCanMove`: whoever holds the project's lock can always take
its next step by itself. `WorkPreserved`: a checkout in which an agent may have worked goes
only in a teardown of a task by that name whose pane is closed, and of the task itself
unless a failed launch gave the name up (`NameGivenUp`, section 18).

Two managers are a predecessor and its successor; two tasks and one name are the least
that collide on a branch; `pool`, chosen at the start, is one or the other. There is no
fairness: that a launch ends is stated as `HolderCanMove`, which with the launch's straight
line of steps says that nothing but an unanswered remote call, which times out, delays
the release of the lock. Left out: sidebar, prompts, pull requests, sandbox files.

*Proved* (`FleetProofs`, from `FleetAssumption`: the sets are disjoint, names are positive
numbers; any number of managers, tasks, names, failed calls, restarts and launches cut off): `ManagerIsOne`,
`RetiredWasIdle`, `TasksAreInherited`, `FailureIsFinished`, together `ProjectStaysConsistent`;
`WorkIsPreserved`; and `LockSerializes`, which says that the steps the code takes under the
project's lock exclude one another. All rest on one invariant. The lock is held by the one
session at a locked step (`LockFits`); this makes it impossible that a task or a prompt is given to a manager
that is being retired, or that a second manager is begun (`OneLive`, `RetiringIdle`).
`Owned` says whose a task is while it is launched and while a manager has not yet
taken over. For the work of agents, `NameHolds` says what has become of the checkout behind a
task's name: it is the task's own, or the name was given up, or the task was torn down, which
happens once since its pane is closed by then; and a launch that may still clean up
has done no work (`WorkIsSomewhere`). The first version of `WorkPreserved` excepted less
than the code needs: it held on the run's instance and failed with two faults, where the
attempt to prove it led. `IInv` was checked by TLC on the run's instance, `WorkPreserved`
also with two faults. `HolderCanMove` is about `ENABLED` and stays with TLC.

## 8. Tunnels and marimo

A tunnel is an ssh process group, a registry entry and a row; a marimo session adds a job
and a row. `Tunnels` interleaves create requests, delete requests, the threads of
`TunnelRegistry.stop`, the reaper, cancellations at each await (`CancelForward`, `CancelCreate`, `CancelStart`, ...) and crashes. A
process group whose leader exited may still have descendants (`"exited"`).

`NothingUnowned`: besides the type invariant, `Owned`, every process group has somebody who will
end it (registry, create request or stopping thread), and `JobWanted`, the same for the
marimo job on a worker. `RemovedStaysRemoved`: a delete that answered is final. `FailedLeavesNothing`: a
failed create has left no row, entry, session or process. `uncleaned` is a history
variable: the requests that were cut short where the code has no rollback (section
18); `JobWanted` and `FailedLeavesNothing` except them. A second one, `unstopped`, has the sessions
deleted while the row of their worker was pruned, whose jobs nobody stops (section 18): `JobWanted`
excepts them too. The model lets the row be missing at any delete. `Settles`: requests, rollbacks and stopping
threads end, and a tunnel whose ssh died leaves the registry with what its group left behind.

One fault at any await is a failure, a cancellation or a crash; two deletes race for one
tunnel, with the reaper and the create's rollback. Fairness is that of the event loop, the
threads and the reaper's period.

*Proved* (`TunnelsProofs`, from `TunnelsAssumption`: at least one tunnel, some of which belong to
marimo sessions; any ports, deletes and faults): `NothingIsUnowned`, `RemovalIsFinal`,
`FailureLeavesNothing`. The invariant is one formula per tunnel, `TunnelInv(t)`, and one per
delete request, `DeleteInv(d)`: at each point of a create request it says which of process, row,
entry, session and job may be there (`AtPoint`, `Stored`), and that the process has an owner
(`HasOwner`). An action changes one tunnel, and a lemma carries the formula over to
the others. TLC checked the invariant on the run's instance and with three faults. `Settles`
is model-checked only.

## 9. The shared connection

All tasks share one SQLite connection: a write is `execute` and, after an await, `commit`; a
commit makes everybody's statements durable and a rollback undoes everybody's.
`SharedConnection` has event writers, worker job reports with revisions and retries, a
queue operation that rolls back, the SSE stream with its cursor, and restarts. `disk` is
what is committed, `conn` what the connection sees.

`ConnectionConsistent`, besides types: `AckedIsDurable`, an answered write is on disk;
`AppliedOnce`, of a report and its retries one is counted; `SequencesDiffer`; `StreamGoesOn`, a
stored event that was not sent is ahead of the stream's cursor and the stream has a step to
take. `undone` (writes that another task rolled back) and `misled` (the stream was sent an event
that was undone later) are history variables; they name the two ways in which the shared
transaction breaks these promises (section 18), and the invariants say that there is no
third. `RevisionsOnlyGrow` (in `AnswersHold`): a job's row never goes back to an older report or to
another owner, whatever is retried, reordered or rolled back.

Two events and a batch of two are a writer that is overtaken by the stream; three reports
are a retry and a stranger's.

*Proved* (`SharedStateProofs`, from `ConnectionAssumption`: finitely many events, reports that
name their job and origin and have a positive revision): `ConnectionIsConsistent` and
`RevisionsGrow`. The invariant says that the sequences of both tables are 1, 2, ... without
a gap (`Numbered`), that what is committed is in what the connection sees (`Contained`), what
each request has written by its place in the handler (`Written`), that those who count as
applied are no retries of each other (`Counted`), and that the batch is ascending after the cursor
and everything up to its end is sent or in it (`StreamOrdered`, `StreamCovers`). Without
gaps, an event that was not sent and not passed has a page to be read in, so `StreamGoesOn`
follows. `CanGoOn` says the stream's next step by its guards. The proof corrected the model:
a page is chosen among the sequences of rows after the cursor in ascending order,
LIMIT at most (`Pages`).

## 10. Response cache

`ResponseCache` has keys with a TTL, readers that look, load and store in three steps, and
writers that change the database and then invalidate their keys one by one. A write may change
several resources: the list of tunnels names their workers, so a prune or a registration changes
it too. A request may be cancelled or fail between its commit and the last of its invalidations
(`CutOff`), and a create then goes on to its rollback, which deletes the row again and invalidates
nothing (`Undo`). Versions count the writes; `MaxLoad` bounds the time from a load to its store (sqlite
answers at once).

`CacheConsistent`: besides types, `OnlyALateLoadIsStale`. An entry is older than its resource only if it
was loaded before a write and stored after it (`late`), or if each change since is of one of three kinds:
its request was cut off or rolled back, its route does not know the key (registration, and a prune for
the list of tunnels), or the key is still among those it has to remove. A write that knows the key and
runs to its end leaves nothing else. `StaleAtMostTTL` (in `AnswersHold`): no answer is older than the TTL
of its route and the time of a load; a repeated answer, the same value for the same key, is looked at
once. `replaced` records when and by whom each version was replaced, and whether that request was cut off.
Three versions are a create and its rollback, or two writers one after the other; four ticks are the
longest TTL (two) and as much again, so that entries expire and are stored anew.

*Proved* (from `CacheAssumption`, which asks nothing of what a route writes or invalidates):
`CacheStaysConsistent` and `AnswersAreYoung`, for any resources, keys, TTLs, readers, writers, requests cut off
and rollbacks. A value is as old as the version it was loaded from: `ValuesLoaded` (whatever is
stored or about to be is a version its resource has had), `AgesBounded` (a reader loaded a version
that was current at most `MaxLoad` ago, and an entry expires at most a TTL after that),
`WritersRemove` (whoever superseded a version since an entry was stored in time was cut off, does not
know its key, or has it still to invalidate). `Spares` says when a step of one writer leaves this true
of the changes of the others.

## 11. Rate limiter

`RateLimiter` counts tokens in integer parts (a request costs `Cost`, a tick refills
`Refill`): exact where the code has floats. `since` and `admitted` observe an arbitrary window.
With 2 agents and a burst of two requests and a part: `WindowBound`, no window grants more than one
burst and its refill, and `RetryAfterHolds` (in `AnswersHold`), an agent that waits as told is admitted.

*Proved* for any capacity, cost, refill, agents and time, from `RateAssumption` (a request
costs at most a full bucket): `TypeCorrect`, `WindowBounded` and `RetriesAreAdmitted`. The bound alone
is not inductive: a full window says nothing of the tokens left. `BudgetInvariant` adds them: what
was granted and what the bucket would hold now stay together within the budget. A tick
raises both sides by at most `Refill`, a grant moves `Cost` from one summand to the other, a
new window starts with at most a full bucket. For the promises, `PromisesCovered`: at the time
promised to an agent its bucket holds a token.

`BurstsAreBounded`, `CacheIsConsistent`, `ConnectionIsConsistent` and `AnswersStand` say the same of
`AllSpec`, the three side by side: each part of it implements the part's own specification
(`LimiterPart`, `CachePart`, `ConnectionPart`), whose invariants then hold.

## 12. Gateway attachments

`GatewayAttachments`: reservation under the lock with eviction of the longest-idle attachment, the wait
for its release (at most three seconds), the dial of the relay, the pump, the release.
Clients may stop reading (`StuckOnes`). `AttachmentsConsistent`, besides types: `SlotHeld`, an attachment
under way has its slot or was told to go, and a late cleanup never takes the slot of a
replacement; `UpstreamsWithinLimit`, the relay never sees more connections than the limit, except
those of victims that outlived their replacement's wait (history variable `overdue`, section
18). In `AttachmentsProceed`: `NewcomerProceeds` and `EvictedLeaves`. Three clients for two slots let the
cleanup of a victim run late, beside its replacement; a replacement that is evicted in turn takes more clients
and is covered by the theorems, which are about any number. Fairness: the server's own
steps only.

With more clients a victim may itself wait for the one it replaced. Its three seconds began earlier, so they
are over first; `WaitForVictim` has this as the guard of the timeout, and
`UpstreamsWithinLimit` rests on it: without the guard the older victim could still be waited
for by one that has nobody left to wait for it.

*Proved* (`TerminalEndsProofs`, from `GatewayAssumption`: the limit is positive): `TypeCorrect`,
`SlotsAreHeld`, `LimitIsKept` and with them `AttachmentsStayConsistent` of the gateway alone and
`GatewayIsConsistent` of both ends, for any clients and
limit, infinitely many clients included. The inductive invariant adds to the types that a client's point in
the handler fits the table (`ClientsFit`) and that every victim that has neither gone nor
been given up has a replacement that still waits (`WaitedFor`). The limit then follows by counting
(`Counting`): different victims have different replacements, a replacement that waits has
no connection, so the holders of connections are at most as many as the entries of the
table. `AttachmentsProceed` is liveness and stays with TLC.

## 13. Schema migration

`SchemaMigration` runs `_init_schema` statement by statement, with Python's implicit
transactions (opened by the first INSERT, UPDATE or DELETE, not by ALTER) and SQLite's one
write lock. Several processes (server, CLI, TUI) may do so at once on fresh or old files, die
or time out on the lock, while a server of the old version still writes.

`DatabaseConsistent`, besides types: once some process has connected, `ConnectedIsMigrated` (every table
and column the queries name is there), `CursorsInOrder` (events are numbered in insertion
order, those an old server goes on inserting included), `NothingDangles` (nothing is left of
delegated agents), `AddressesKept` (the addresses were copied, unless a process ended between
the ALTER and the commit: history variable `cut`, section 18). `InteractiveKept`: sessions
that are no delegated agents survive. `EventuallyConnects`: two processes that get into each
other's way both connect in the end.

A database is described by what a migration may change: tables, the columns that were added to
them, index and trigger, and the rows it must carry over. `IsOldFile` says what versions before
this one leave: columns are there with their tables, references are whole, addresses are under the
old name of their column or have been moved, and either the trigger has numbered all events or none is
numbered. Two missing columns per table are enough for two processes to collide on one. Events are
kept by rowid; the table has no INTEGER PRIMARY KEY, so a new row gets the highest rowid and one.
An ALTER whose column was seen is no statement and takes no step (`Advance`). Strong
fairness of a process's statements: it polls for the lock (busy_timeout), and whoever
holds it commits or dies; a service manager or a user starts it again.

*Proved* (`HostStateProofs`, from `MigrationConstants`: finitely many processes, old files are
`IsOldFile`, no session has the empty id, workers of the old file do not register as new ones):
`DatabaseIsConsistent` and `InteractiveIsKept`, for any number of processes, any set of old files, rows,
crashes and lock timeouts. The list of statements is computed first (`ByPlace`: which of the 51
statements is which), so that places can be compared as numbers. The invariant, `MInv`:

* `PassedFits`: each statement a process has passed holds of what it sees, the file or its
  transaction (`HasSchema`), and each deletion it has passed of its transaction (`DataFits`);
* `TxFits`: from the backfill on there is a transaction, and none before the addresses; what it
  holds grows from the file (`Follows`): no table or column goes, interactive agents keep their rows,
  commands, events and cursors;
* `SeenFits`: where an ALTER or the addresses are next, the columns that were read are still among
  those of the table, and an ALTER is next only if its column was missing from them;
* `OneWriter`: one transaction at a time, and `WellFormed`: file and transactions are databases
  whose references are whole, with the events in order once the trigger is there;
* `AddressesFit`: addresses are blank under the new column only while somebody is about to move them
  or has moved them in its transaction, or after a process has died in between (`cut`).

One lemma per statement says what it does to a database (`CreateDoes`, ..., `SessionsDoes`), and `WriteStep`
what a write does to the invariant: the writer's own facts move on by one place, the others' are facts
about a file that only grows (`OtherFits`, `SchemaStays`). That the unique index cannot fail rests on the
backfill: `Rank` counts the rows of a session up to a row, and equals the largest number given so far
for the last one (`TopIsCount`), for any number of events.

## 14. Host runtime

`HostRuntime`: capture of the tools, probes, the temporary file, fsync, rename and chmod
of `wh host setup`, and the loads of the manifest, with kills, losses of power at any time
(`safe` is what the disk brings back) and tools that come and go. The fsync of the directory is best effort
(host_runtime.py:354), so a setup that has succeeded may still be taken back by a loss of power.
`ManifestConsistent`, besides types: `ManifestIsWhole`, `NoTempLeft`, `LoadedWasThere` (a load that succeeds returns
tools that were there), and `PathIsSound` (the captured path has no duplicates, exists and finds
every tool). `FailedSetupKeepsManifest` (in `NothingTakenAway`): only a
rename of a setup that goes on to succeed changes the manifest, or a loss of power, which ends all setups and
brings back the last one that is durable. Three directories, a required tool in all of
them and two shells, one with a temporary, a missing and a repeated directory, reach every
branch of `_capture_path`. `_dedupe_preserving_order` and the loops of `_capture_path` keep the
entries at certain positions (`Select`), those that are wanted and no copy of an earlier one.

*Proved* (`HostStateProofs`, from `HostConstants`: the lists are sequences, each placement puts tools into
directories, `NotFound` is no directory): `ManifestIsConsistent` and `ManifestChangesByRename`, for any
tools, directories, values of PATH, setups and loads; with the exports and the registry,
`MachinesAreConsistent` and `NothingIsTakenAway`. The invariant: captures are sound from the start
(`CapturesAreSound`), a setup has the capture in hand up to the rename and its temporary file only
between creation and rename (`SetupHolds`), a load that has read the file has seen all that was
there since, and what it returns is among it (`LoadHolds`). That a captured path has no duplicate
and finds every tool rests on `Numbering`: the positions a selection keeps are numbered 1, 2, ... in
their order. Its proof takes the least number that has no such number (`SmallestOf`), which
stands in for induction.

## 15. Native terminal client

`TerminalAttach`: `attach_terminal` dials the direct relay, then the gateway; while
attached four tasks run until the first ends, and the others may end before the
attachment looks. The relay may send frames, close with any code, or stop reading.
`KeysConsistent`, besides the type invariant (which says that the terminal is raw exactly while
attached): `ForwardedInOrder` and `FirstControlDecides`. In `AttachmentsProceed`: `ControlEndsAttachment`, a
control byte that was read ends the attachment even at a relay that reads no more, and
`SizeArrives`: the backend's size becomes the terminal's, and a backend that connects after the client's first
report of its size sees a change and redraws. One that connected before (`stale = "early"`) need not (section 18). Two keys are text and a control byte, in either order, in one chunk or two. Fairness
of the client's tasks and of the ping timeout of the WebSocket library, nothing of relay or
user.

*Proved* (`TerminalEndsProofs`, from `ClientConstants`: at least one address, keys are text or a
control): `KeysStayConsistent` of the client alone and `KeysAreConsistent` of both ends, for any keys, frames, codes and addresses. What was forwarded, what is being sent,
the chunks of the queue and what nobody has read were typed in this order (`KeysInOrder`), the keys
taken come before the rest (`SeenFirst`), only text is forwarded, and the control the input task
ends with is the first it has taken, typed after all that goes out (`ControlsKnown`, `Decides`).

## 16. Worker registry

`WorkerRegistry`: the daemon creates its id file in two steps, sends a heartbeat each interval and
goes on whatever the answer is, so requests of one worker overlap at the server.
`upsert_worker` reads the row, stamps the new one with the time (models.py:131, 173), and writes it after
an await: a request carries the age of its stamp (`Aged`), and may write it late, over a newer one. The
pruner and the operator delete rows by age. `quiet` is the age of the newest stamp of a heartbeat that was
answered, and `late` says that the last answered one wrote an older stamp than one before it.
`PrunedWereSilent` (in `NothingTakenAway`): the pruner removes only a row whose answered heartbeats are all
older than the cutoff, whatever overlaps, or one that such a late write made look older than it is
(section 18). `TableIsCurrent`: `RunningIsRegistered`, a running worker
has, again and again, a row with its present address, and `SilentIsPruned`. Hosts with ids of their own do not
interact, so the run has one; two that have both lost theirs share the row of the empty id (section 18), which
the proof covers, being about any hosts. The code has an interval of one minute and a cutoff of three; the run
has one tick and two, so that a request may wait between stamp and write for longer than the cutoff.
Fairness: the daemon's loop, the handlers, the pruner's sleep, the clock.

*Proved* (`HostStateProofs`, for any hosts, requests in flight and cutoff): `OnlySilentArePruned`. A row has
the stamp of the last answered heartbeat and ages with it, and so does `quiet`, so that unless the last write
was late the row is never older than the newest answered stamp (`YoungerThanAnswer`); what the pruner finds too
old had no such heartbeat since the cutoff. `TableIsCurrent` is liveness and model-checked only.

## 17. Data copies

`DataCopy`: `data_copy` starts `wh-data-export` on the source (port, rsync daemon, files, serve rule,
TTL timer), uploads the password, starts the copy job and watches it; the helper, the
timer and the control process all run `cleanup_export`, one command per step. A command
whose ssh client is gone is taken to run on (no terminal, no hangup).
`ExportsConsistent`: two daemons never have one port, and `NothingForgotten`, every published port and every
daemon can be found by a cleanup that is still to come, until the worker restarts.
`ExportsEnd`: `ExportEnds`, a publication ends once its TTL is over although any call or task was lost,
and `PromptEnd`, without faults it ends with the copy. Two exports for one port make the
helpers compete for it. Fairness: processes and tasks run and the TTL passes; a fault is
never forced.

*Proved* (`HostStateProofs`, from `DataCopyConstants`: `None` is neither a transfer nor a port):
`TypeCorrect`, `NothingIsForgotten` and with them `ExportsStayConsistent`, for any transfers, ports, faults and
restarts. Neither half of `NothingForgotten` is inductive: a cleanup that is under way and past a
command must not be overtaken by the publication or the daemon this command removes. The
place of the helper excludes it (`Stage`): no cleanup of a transfer runs before the helper has
undone its export or is done; and `Cleaned` says what each cleanup under way has already done.
`ExportsEnd` is liveness and model-checked only.

## 18. Observed deviations

Writing the models from the code showed places where it does not do what a document, a
comment or a test says. No run expects a violation: where a property would be refuted, the
case is excepted by name, mostly with a history variable, and the property says that
there is no other. In most of these cases removing the exception makes TLC print the
behaviour.

* **Queue order.** "process newest first to preserve FIFO" (heartbeat.py:257): the sort covers
  one pass. If the probe of the younger of two missing launches fails in the pass that
  requeues the older one, the next pass prepends it before the older one. `QueueOrdered`
  asks for a strict order, not for the order of arrival.
* **Lanes.** "can never leave an orphaned SSH subprocess" (specs/MULTI_AGENT_RELIABILITY.md:15): a
  cancellation while `_terminate_async_process` waits skips the rest of it, and the finally
  block (ssh.py:258) looks at the leader's return code only.
* **Lanes.** The same line: an error of `communicate` that is neither a timeout nor a cancellation has no
  handler but that finally block (ssh.py:254), which signals nobody when ssh was already reaped while its
  ProxyCommand child lives. `RaisesLate` and `CancelTerm` in `OrphansAreExplained`.
* **Bridge.** test_pi_sessions_api.py:588 says a stopped agent cannot be revived: a registration
  that was authorised before the session finished is applied after it
  (heartbeat.py:758) and sets its state to idle.
* **Bridge.** DEPLOYMENT.md:217, a session blocks with a question (`ask-PM records blocked/question`): a batch of
  events may report "blocked" by itself (models.py:251, db.py:732), and the session
  is then blocked with an empty question. `asked` in `QuestionIffAsked`.
* **Bridge.** "a reload does not duplicate messages already captured live" (db.py:678): the registration
  of an old incarnation that is applied after its successor's makes events of the old one
  acceptable again, and a message of the snapshot is then stored a second time as a live event.
  It takes three incarnations; a kind with `late` and `says` shows it in `MessageLoggedOnce`.
* **Bridge.** specs/DISTRIBUTED_PI_SESSION_FABRIC.md:143, "The orchestrator reaper marks stale
  sessions stopped": nothing calls `sweep_stale_interactive_pi_sessions` (db.py:851).
* **Fleet.** DEPLOYMENT.md:220, a worktree where an agent may have run is preserved: the row of a
  failed launch keeps a path that a later task of the same name is given, and the forced
  teardown of the failed task removes it (orchestration.py:635). A task that has lost its checkout
  in this way does the same to whoever has the name next. `NameGivenUp` in `WorkPreserved`.
* **Fleet.** test_orchestration.py:59, a restarted manager inherits the tasks: reparenting runs
  after the launch (orchestration.py:277), so a restart of the control process in between leaves
  them with the old one. `cuts = 0` in `TasksHaveManager`.
* **Fleet.** A launch records its failure (orchestration.py:504), but between `workspace_create` and
  that `try` (orchestration.py:399 to 465), and in `_wait_for_bridge` (orchestration.py:566), a cancellation or an
  error that is not one of `_REMOTE_ERRORS` has no handler: the row stays in `starting`, its pane and
  checkout stay, and the next call for a manager waits a minute for its bridge. `CutOff`, the
  exception of `FailedLaunchIsFinished`.
* **Tunnels.** SPEC.md:340, tunnels are re-started by hand after a restart: the row of a tunnel
  that died with the server refuses its port (heartbeat.py:2017).
* **Marimo.** test_marimo_api.py:151, a failed start leaves no session: a request cancelled between
  the INSERT and the commit of `insert_marimo_session` does (heartbeat.py:1917). `uncleaned`.
* **Marimo.** A delete answers "removed" (heartbeat.py:2006) while the job runs on if the row of its worker was
  pruned before (heartbeat.py:1843): nothing stops the job then, and nothing refers to it. `unstopped`.
* **Connection.** "a failed insert must never be presented as an ack" (db.py:1372): the rollback of
  `claim_queued_job` (db.py:1113) may undo a report that is then acknowledged. `undone`.
* **Connection.** DISTRIBUTED_PI_SESSION_FABRIC.md:360, a client resumes by sequence: the stream sends
  uncommitted events, and an undone one's sequence is given again (heartbeat.py:359). `misled`.
* **Cache.** MULTI_AGENT_RELIABILITY.md:93, a delete invalidates the list of tunnels: a list loaded before and
  stored after it is served until it expires (heartbeat.py:680). `late` in `OnlyALateLoadIsStale`.
* **Cache.** MULTI_AGENT_RELIABILITY.md:91, `POST /register` invalidates the list of workers: it does not
  (heartbeat.py:683), and a prune does not invalidate the list of tunnels, which names their workers
  (heartbeat.py:726, 2087). `Invalidates` in `OnlyALateLoadIsStale`.
* **Cache.** MULTI_AGENT_RELIABILITY.md:93: a create or delete that is cancelled or fails between its commit and
  its invalidation (heartbeat.py:1854, 1935, 2053), and the rollback of a create (heartbeat.py:2067), leave the list as
  it was until it expires. `cut` in `OnlyALateLoadIsStale`.
* **Gateway.** DISTRIBUTED_PI_SESSION_FABRIC.md:402, "without exceeding eight": a victim that does not read
  keeps its connection beside its replacement's (heartbeat.py:1348). `overdue`.
* **Migration.** db.py:99, no process is left half-migrated: when one dies between ADD COLUMN worker_ip
  and the commit, the copy of the addresses is lost for good (db.py:114). `cut`.
* **Migration.** OVERLAY_IP_MIGRATION.md:46, new workers register: a migrated table keeps `zerotier_ip NOT
  NULL`, which the INSERT does not name (db.py:396). `Register` adds no row there.
* **Host runtime.** host_runtime.py:8, "the exact same interpreter set": the captured PATH may find
  another copy of a tool than the one recorded (host_runtime.py:171). `PathIsSound` asks that
  each tool be found, not which copy.
* **Client.** DISTRIBUTED_PI_SESSION_FABRIC.md:222, no fallback after a clean detach: a failing send of another
  task in the same turn replaces the decision (pi_terminal.py:355), and every break in
  mid-session dials the gateway (pi_terminal.py:357). `ForwardedInOrder` holds across it.
* **Client.** "so an initially correct PTY size still reaches the source" (pi_terminal.py:187): if the backend is
  ready before the first report, `last_size` is none, no round trip is made, and the one size sent is that of the
  URL (pi_terminal.py:174). `"early"` in `SizeArrives`.
* **Worker daemon.** worker_daemon.py:307, a stable id: a daemon that dies while it writes the file leaves
  an empty id that is used ever after (worker_daemon.py:312).
* **Registry.** orchestrator.py:62, a returning worker re-registers: a heartbeat whose row is pruned
  between its read and its write is answered ok and leaves no row until the next one (db.py:359).
* **Registry.** orchestrator.py:37, only registrations that "missed the heartbeat cutoff" are removed: the stamp of a heartbeat is
  taken before its write, which asks for no newer one (models.py:173, db.py:359), so a request that waited makes a
  worker look older than a heartbeat answered before it. `late` in `PrunedWereSilent`.
* **Data copies.** heartbeat.py:1513, "TTL is the crash-safe fallback": a restart of the source ends the timer
  and leaves rule and files (wh-data-export:96). `restarts = 0` in `ExportEnds`.
* **Data copies.** BIND_INDEXED_DATA_COPY_PLAN.md:285: an export that lost the race for its port withdraws
  the winner's rule (wh-data-export:88).
* **Data copies.** BIND_INDEXED_DATA_COPY_PLAN.md:335: any exception while the copy is watched stops the
  export of a copy that is running (heartbeat.py:1522).

## 19. Not modelled

* Metrics and configuration: counters and parsing without control flow of their own.
* CLI, TUI and web client: formatting over the API; what they change goes through
  handlers or database methods that are modelled.
* Deployment scripts, image builds, entrypoint: installation.
* Project, machine and pull-request helpers, sandbox files, the herdr shim
  (`herdr_host.py`, `pi_herdr.py`): command construction; `Fleet` has their effects and failures.
* Worker daemon: probing of GPUs, memory, disks, sessions and data paths.
* Data copies: path validation, the password file and the bytes.
* Native client: focusing a Zellij pane, building URLs, writing output.
* Proofs. Every invariant and action property of the runs is proved except `HolderCanMove` of `Fleet`, which
  says `ENABLED`; it and the liveness properties (`CallReturns`, `CommandsArrive`, `Settles`, `TableIsCurrent`,
  `ExportsEnd`, `EventuallyConnects`, `AttachmentsProceed` and those of `queue_live`) stay with TLC, since TLAPS
  does not reason about fairness.

## 20. Plan

What would be worth doing next, in this order:

* the liveness proofs on paper that TLC's runs suggest, `Settles` and `CommandsArrive` first, should
  TLAPS come to support fairness: the safety half of each is in the invariants;
* the single orchestrator session of a fleet, which is launched like a manager and never retired, and
  `submit-pr`: both reuse the steps `Fleet` has;
* what the worker daemon probes (sessions, GPUs, disks), should a decision come to depend on it;
* path validation and the password file of data copies, should a property need them.
