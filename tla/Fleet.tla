-------------------------------- MODULE Fleet --------------------------------
(* The fleet of one project: orchestration.py and the handlers that call it.  *)
(* Sessions are project managers and tasks. A task works in a git checkout of *)
(* its own; every agent runs in a pane of herdr on another machine, reached   *)
(* by remote calls that may fail, before or after they have taken effect.     *)
(*                                                                            *)
(* Launches, teardowns and the retirement of idle managers are processes; one *)
(* action is one remote call with the database writes that follow it. The     *)
(* bridge protocol is PiBridge's: here a registration is one step, refused    *)
(* for a finished row. Left out: what is written to the sidebar, prompts,     *)
(* sandbox files, transcripts and the text of events.                         *)
EXTENDS Naturals, FiniteSets

CONSTANTS Pms, Tasks,    \* ids of sessions, by role
          Names,         \* 1..n: branch names in the order they are tried
          NoOne,
          Pools,         \* sets of sessions that may come into being
          MaxFaults      \* remote calls that fail, restarts and cuts, together

ASSUME FleetAssumption ==
    /\ Pms \cap Tasks = {} /\ NoOne \notin Pms \cup Tasks
    /\ Names \subseteq Nat \ {0}
    /\ Pools \subseteq SUBSET (Pms \cup Tasks)
    /\ MaxFaults \in Nat

Sessions == Pms \cup Tasks
NoName == 0
Terminal == {"stopped", "failed"}
Live == {"starting", "idle", "working"}

VARIABLES
    pool,      \* the sessions of this behaviour, which bound it
    row,       \* rows of pi_sessions, with the parts of meta that matter
    launch,    \* launch[s]: where _launch is for session s
    tried,     \* tried[t]: names create_worktree has tried for task t
    tear,      \* tear[t]: where teardown_task is for task t
    lock,      \* who holds the project's entry of _pm_locks
    pane,      \* herdr's pane of a session
    agent,     \* sessions whose agent process runs
    checkout,  \* checkout[n]: the task whose worktree is at name n
    branches,  \* names with a local branch
    worked,    \* names whose checkout may hold work of an agent
    faults,
    cuts       \* restarts, and launches that were cut off: neither cleans up

vars == <<pool, row, launch, tried, tear, lock, pane, agent, checkout, branches, worked, faults, cuts>>
remote == <<pane, agent, checkout, branches, worked>>

NoRow == [state |-> "none", parent |-> NoOne, pane |-> FALSE, name |-> NoName,
          bridged |-> FALSE, pending |-> FALSE, fresh |-> FALSE]

Init ==
    /\ pool \in Pools
    /\ row = [s \in Sessions |-> NoRow]
    /\ launch = [s \in Sessions |-> "idle"]
    /\ tried = [t \in Tasks |-> 0]
    /\ tear = [t \in Tasks |-> "idle"]
    /\ lock = NoOne
    /\ pane = [s \in Sessions |-> "none"]
    /\ agent = {}
    /\ checkout = [n \in Names |-> NoOne]
    /\ branches = {}
    /\ worked = {}
    /\ faults = 0
    /\ cuts = 0

\* A remote call succeeds, or fails; a call that fails may have been executed.
Fails == faults + cuts < MaxFaults /\ faults' = faults + 1
NoFault == UNCHANGED faults

\* A restart of the control process, or an end of one launch without cleanup.
CutsIn == faults + cuts < MaxFaults /\ cuts' = cuts + 1 /\ UNCHANGED faults

IsLive(s) == row[s].state \in Live
Children(m) == {t \in Tasks : row[t].parent = m /\ IsLive(t)}

----------------------------------------------------------------------------
(* Launching.                                                                *)

Goto(s, where) == launch' = [launch EXCEPT ![s] = where]
UnlockNever(s) == s \in Sessions /\ UNCHANGED lock
Unlock(s) == lock' = IF lock = s THEN NoOne ELSE lock

\* _ensure_pm: a manager that is not finished is the manager; one that a
\* crash left in "starting" is waited for; otherwise a new one is launched.
Manager == {m \in Pms : IsLive(m)}

EnsurePm ==
    /\ lock = NoOne
    /\ \E m \in Pms \cap pool :
        /\ \/ m \in Manager /\ row[m].state = "starting" /\ Goto(m, "rewait")
           \/ Manager = {} /\ row[m].state = "none" /\ launch[m] = "idle"
                /\ Goto(m, "workspace")
        /\ lock' = m
    /\ UNCHANGED <<row, tried, tear, remote, faults, cuts, pool>>

\* launch_task on behalf of manager m: the parent is checked under the lock.
LaunchTask ==
    /\ lock = NoOne
    /\ \E t \in Tasks \cap pool, m \in Pms :
        /\ IsLive(m)
        /\ row[t].state = "none" /\ launch[t] = "idle"
        /\ row' = [row EXCEPT ![t].parent = m]
        /\ Goto(t, "worktree")
        /\ lock' = t
    /\ UNCHANGED <<tried, tear, remote, faults, cuts, pool>>

\* create_worktree: each name once, in order. git refuses a name that has a
\* branch or a checkout, and the next one is tried after any ShimError; other
\* remote errors end the launch before there is a row.
Free(n) == n \notin branches /\ checkout[n] = NoOne

AddsWorktree(t, n) ==
    /\ Free(n)
    /\ checkout' = [checkout EXCEPT ![n] = t]
    /\ branches' = branches \cup {n}
NoWorktree == UNCHANGED <<checkout, branches>>

AddWorktree(t) ==
    LET n == tried[t] + 1 IN
    /\ launch[t] = "worktree"
    /\ n \in Names
    /\ tried' = [tried EXCEPT ![t] = n]
    /\ \/ /\ NoFault /\ AddsWorktree(t, n)
          /\ Goto(t, "workspace")
          /\ row' = [row EXCEPT ![t].name = n]
          /\ UNCHANGED lock
       \/ /\ \/ Fails /\ (AddsWorktree(t, n) \/ NoWorktree)
             \/ ~Free(n) /\ NoFault /\ NoWorktree
          /\ UNCHANGED <<launch, row, lock>>
       \/ /\ Fails /\ (AddsWorktree(t, n) \/ NoWorktree)
          /\ Goto(t, "failed") /\ Unlock(t)
          /\ UNCHANGED row
    /\ UNCHANGED <<tear, pane, agent, worked, cuts, pool>>

\* WorktreeError: a row without pane and checkout records the failure.
NoNameLeft(t) ==
    /\ launch[t] = "worktree"
    /\ tried[t] + 1 \notin Names
    /\ row' = [row EXCEPT ![t].state = "failed"]
    /\ Goto(t, "failed") /\ Unlock(t)
    /\ UNCHANGED <<tear, tried, remote, faults, cuts, pool>>

\* workspace_create, then the row of the session.
CreateWorkspace(s) ==
    /\ launch[s] = "workspace"
    /\ \/ /\ NoFault
          /\ pane' = [pane EXCEPT ![s] = "open"]
          /\ row' = [row EXCEPT ![s].state = "starting", ![s].pane = TRUE]
          /\ Goto(s, "files")
       \/ /\ Fails
          /\ pane' \in {pane, [pane EXCEPT ![s] = "open"]}
          /\ row' = [row EXCEPT ![s].state = "failed"]
          /\ Goto(s, "clean")
    /\ UNCHANGED <<tried, tear, lock, agent, checkout, branches, worked, cuts, pool>>

\* The prompt, the paths and the launch script. A failure here comes before
\* launch_attempted: nothing has run in the checkout.
WriteFiles(s) ==
    /\ launch[s] = "files"
    /\ \/ NoFault /\ Goto(s, "run")
       \/ Fails /\ Goto(s, "abort")
    /\ UNCHANGED <<row, tried, tear, lock, remote, cuts, pool>>

\* pane_run types the command into the pane; the agent may run even if the
\* call fails. A checkout that is gone holds no work of it.
HasCheckout == {n \in Names : checkout[n] # NoOne}

RunsAgent(s) ==
    /\ pane[s] = "open"
    /\ agent' = agent \cup {s}
    /\ worked' = worked \cup ({row[s].name} \cap HasCheckout)

PaneRun(s) ==
    /\ launch[s] = "run"
    /\ \/ NoFault /\ RunsAgent(s) /\ Goto(s, "report")
       \/ Fails /\ RunsAgent(s) /\ Goto(s, "giveup")
       \/ Fails /\ Goto(s, "giveup") /\ UNCHANGED <<agent, worked>>
       \/ pane[s] # "open" /\ NoFault /\ Goto(s, "giveup") /\ UNCHANGED <<agent, worked>>
    /\ UNCHANGED <<row, tried, tear, lock, pane, checkout, branches, cuts, pool>>

\* The briefing is queued, the sidebar told.
Report(s) ==
    /\ launch[s] = "report"
    /\ \/ NoFault /\ Goto(s, "wait")
       \/ Fails /\ Goto(s, "giveup")
    /\ UNCHANGED <<row, tried, tear, lock, remote, cuts, pool>>

\* Once a new manager has registered it inherits the tasks of its
\* predecessors; its caller then queues a prompt, still under the lock.
Reparented(m) ==
    [s \in Sessions |-> IF s \in Tasks /\ row[s].parent \in Pms
                        THEN [row[s] EXCEPT !.parent = m] ELSE row[s]]
Prompted(r, m) == [r EXCEPT ![m].pending = TRUE, ![m].fresh = TRUE]

AfterWait(s) ==
    IF s \in Tasks THEN row
    ELSE Prompted(IF launch[s] = "wait" THEN Reparented(s) ELSE row, s)

\* _wait_for_bridge: registered, finished by someone else, or 60 s are over.

WaitForBridge(s) ==
    /\ launch[s] \in {"wait", "rewait"}
    /\ \/ /\ row[s].state \in Terminal
          /\ Goto(s, "close")
          /\ UNCHANGED <<row, lock>>
       \/ /\ row[s].state \notin Terminal /\ row[s].bridged
          /\ Goto(s, "done") /\ Unlock(s)
          /\ row' = AfterWait(s)
       \/ /\ row[s].state \notin Terminal /\ ~row[s].bridged
          /\ Goto(s, "giveup")
          /\ UNCHANGED <<row, lock>>
    /\ UNCHANGED <<tried, tear, remote, faults, cuts, pool>>

\* finish_pi_session: the row is closed for its token and its bridge.
Finished(s, st) ==
    [row EXCEPT ![s].state = st, ![s].bridged = FALSE]

\* _mark_failed, or the timeout: from here the session cannot register.
GiveUp(s) ==
    /\ launch[s] \in {"giveup", "abort"}
    /\ row' = Finished(s, "failed")
    /\ Goto(s, IF launch[s] = "abort" THEN "closeclean" ELSE "close")
    /\ UNCHANGED <<tried, tear, lock, remote, faults, cuts, pool>>

\* A pane that is closed takes its agent with it; closing it twice is an error.
ClosePane(s) ==
    /\ pane[s] = "open"
    /\ pane' = [pane EXCEPT ![s] = "closed"]
    /\ agent' = agent \ {s}

\* _close_after_failed_launch: an error is recorded and the launch goes on.
CloseAlwaysCleans(s) ==
    /\ launch[s] \in {"close", "closeclean"}
    /\ \/ NoFault /\ ClosePane(s)
       \/ Fails /\ (ClosePane(s) \/ UNCHANGED <<pane, agent>>)
       \/ pane[s] # "open" /\ NoFault /\ UNCHANGED <<pane, agent>>
    /\ Goto(s, "clean")
    /\ UNCHANGED <<row, tried, tear, lock, checkout, branches, worked, cuts, pool>>
CloseFailed(s) ==
    /\ launch[s] \in {"close", "closeclean"}
    /\ \/ NoFault /\ ClosePane(s)
       \/ Fails /\ (ClosePane(s) \/ UNCHANGED <<pane, agent>>)
       \/ pane[s] # "open" /\ NoFault /\ UNCHANGED <<pane, agent>>
    /\ IF launch[s] = "closeclean" THEN Goto(s, "clean") /\ UNCHANGED lock
                                   ELSE Goto(s, "failed") /\ Unlock(s)
    /\ UNCHANGED <<row, tried, tear, checkout, branches, worked, cuts, pool>>

\* destroy_worktree: git worktree remove --force, then the branch. It removes
\* what is at the path, whoever put it there.
Destroy(n) ==
    /\ checkout' = [checkout EXCEPT ![n] = NoOne]
    /\ worked' = worked \ {n}
    /\ branches' = branches \ {n}

CleanWorktree(s) ==
    /\ launch[s] = "clean"
    /\ IF row[s].name \in Names
       THEN \/ NoFault /\ Destroy(row[s].name)
            \/ Fails /\ (Destroy(row[s].name) \/ UNCHANGED <<checkout, worked, branches>>)
       ELSE UNCHANGED <<checkout, worked, branches, faults>>
    /\ Goto(s, "failed") /\ Unlock(s)
    /\ UNCHANGED <<row, tried, tear, pane, agent, cuts, pool>>

\* A cancellation, or an error that is not a remote one, where _launch and its
\* callers handle none: around workspace_create and the insert of the row, up to
\* the try, in _wait_for_bridge, before the children are reparented, and in a
\* handler before it has finished the row. The lock is given back and nothing is
\* cleaned up; a row that was written stays in "starting".
Inserted(s) == [row EXCEPT ![s].state = "starting"]

CutOff(s) ==
    /\ \/ /\ launch[s] \in {"files", "wait", "rewait", "giveup", "abort"}
          /\ UNCHANGED <<row, pane>>
       \/ /\ launch[s] = "workspace"
          /\ pane' \in {pane, [pane EXCEPT ![s] = "open"]}
          /\ row' \in {row, Inserted(s)}
       \/ /\ s \in Tasks /\ launch[s] = "worktree" /\ tried[s] + 1 \notin Names
          /\ row' = Inserted(s)
          /\ UNCHANGED pane
    /\ CutsIn /\ Goto(s, "cut") /\ Unlock(s)
    /\ UNCHANGED <<tried, tear, agent, checkout, branches, worked, pool>>

----------------------------------------------------------------------------
(* Tearing a task down. The handler does not take the lock.                  *)

GotoT(t, where) == tear' = [tear EXCEPT ![t] = where]

\* Asked by the manager that owns the task, with a PR or with force.
Teardown(t) ==
    /\ tear[t] = "idle"
    /\ row[t].state # "none" /\ IsLive(row[t].parent)
    /\ GotoT(t, IF row[t].pane THEN "close" ELSE "destroy")
    /\ UNCHANGED <<row, launch, tried, lock, remote, faults, cuts, pool>>

\* If the pane cannot be closed the checkout stays.
TeardownClose(t) ==
    /\ tear[t] = "close"
    /\ \/ NoFault /\ ClosePane(t) /\ GotoT(t, "destroy")
       \/ Fails /\ (ClosePane(t) \/ UNCHANGED <<pane, agent>>) /\ GotoT(t, "idle")
       \/ pane[t] # "open" /\ NoFault /\ UNCHANGED <<pane, agent>> /\ GotoT(t, "idle")
    /\ UNCHANGED <<row, launch, tried, lock, checkout, branches, worked, cuts, pool>>

Present(t) == row[t].name \in HasCheckout

TeardownDestroy(t) ==
    /\ tear[t] = "destroy"
    /\ \/ /\ NoFault /\ Present(t)
          /\ Destroy(row[t].name)
          /\ row' = Finished(t, "stopped")
       \/ /\ Fails \/ (NoFault /\ ~Present(t))
          /\ UNCHANGED <<checkout, branches, worked>>
          /\ row' = Finished(t, "failed")
    /\ GotoT(t, "idle")
    /\ UNCHANGED <<launch, tried, lock, pane, agent, cuts, pool>>

----------------------------------------------------------------------------
(* Managers at work.                                                         *)

\* :send to a project whose manager runs.
SendToPm ==
    /\ lock = NoOne
    /\ \E m \in Manager : row[m].state # "starting" /\ row' = Prompted(row, m)
    /\ UNCHANGED <<launch, tried, tear, lock, remote, faults, cuts, pool>>

\* poll: idle for WH_PM_IDLE_SECONDS, nothing pending, no live child.
Retirable(m) ==
    /\ row[m].state = "idle" /\ row[m].pane
    /\ ~row[m].fresh /\ ~row[m].pending
    /\ Children(m) = {}

RecheckNever(m) == row[m].state = "idle"
\* The decision is taken again under the lock, on rows read there.
Recheck(m) == Retirable(m)

PollPicks(m) ==
    /\ launch[m] \in {"idle", "done", "cut"}
    /\ Retirable(m)
    /\ Goto(m, "retire")
    /\ UNCHANGED <<row, tried, tear, lock, remote, faults, cuts, pool>>

PollLocks(m) ==
    /\ launch[m] = "retire"
    /\ lock = NoOne
    /\ IF Recheck(m) THEN Goto(m, "retiring") /\ lock' = m
                     ELSE Goto(m, "done") /\ UNCHANGED lock
    /\ UNCHANGED <<row, tried, tear, remote, faults, cuts, pool>>

\* stop_session: the row is finished only if the pane could be closed.
StopSession(m) ==
    /\ launch[m] = "retiring"
    /\ \/ NoFault /\ ClosePane(m) /\ row' = Finished(m, "stopped")
       \/ Fails /\ (ClosePane(m) \/ UNCHANGED <<pane, agent>>) /\ UNCHANGED row
       \/ pane[m] # "open" /\ NoFault /\ UNCHANGED <<pane, agent, row>>
    /\ Goto(m, "done") /\ Unlock(m)
    /\ UNCHANGED <<tried, tear, checkout, branches, worked, cuts, pool>>

\* Half an hour passes.
Age(m) ==
    /\ row[m].fresh
    /\ row' = [row EXCEPT ![m].fresh = FALSE]
    /\ UNCHANGED <<launch, tried, tear, lock, remote, faults, cuts, pool>>

----------------------------------------------------------------------------
(* Agents, seen through their bridge (PiBridge), and restarts.               *)

Register(s) ==
    /\ s \in agent /\ IsLive(s) /\ ~row[s].bridged
    /\ row' = [row EXCEPT ![s].state = "idle", ![s].bridged = TRUE, ![s].fresh = s \in Pms]
    /\ UNCHANGED <<launch, tried, tear, lock, remote, faults, cuts, pool>>

\* A turn begins, ends with nothing pending, or the agent says good-bye.
AgentReports(s) ==
    /\ s \in agent /\ IsLive(s) /\ row[s].bridged
    /\ \E st \in {"idle", "working", "stopped"} :
          /\ st # row[s].state
          /\ row' = [row EXCEPT ![s].state = st, ![s].pending = @ /\ st # "idle",
                               ![s].fresh = s \in Pms]
    /\ UNCHANGED <<launch, tried, tear, lock, remote, faults, cuts, pool>>

\* The agent's process ends without a word; its pane stays.
AgentDies(s) ==
    /\ agent' = agent \ {s}
    /\ s \in agent
    /\ UNCHANGED <<row, launch, tried, tear, lock, pane, checkout, branches, worked,
                   faults, cuts, pool>>

\* The control process restarts: handlers and locks are gone, rows stay, and
\* a launch that had failed has failed.
Crash ==
    /\ CutsIn
    /\ launch' = [s \in Sessions |-> IF launch[s] \in {"idle", "failed"}
                                     THEN launch[s] ELSE "done"]
    /\ tear' = [t \in Tasks |-> "idle"]
    /\ lock' = NoOne
    /\ UNCHANGED <<row, tried, remote, pool>>

----------------------------------------------------------------------------
LaunchStep(s) ==
    \/ CreateWorkspace(s) \/ WriteFiles(s) \/ PaneRun(s) \/ Report(s)
    \/ WaitForBridge(s) \/ GiveUp(s) \/ CloseFailed(s) \/ CleanWorktree(s)
    \/ s \in Tasks /\ (AddWorktree(s) \/ NoNameLeft(s))

Next ==
    \/ EnsurePm \/ LaunchTask \/ SendToPm \/ Crash
    \/ \E s \in Sessions :
          LaunchStep(s) \/ CutOff(s) \/ Register(s) \/ AgentReports(s) \/ AgentDies(s)
    \/ \E t \in Tasks : Teardown(t) \/ TeardownClose(t) \/ TeardownDestroy(t)
    \/ \E m \in Pms : PollPicks(m) \/ PollLocks(m) \/ StopSession(m) \/ Age(m)

Spec == Init /\ [][Next]_vars

----------------------------------------------------------------------------
(* Properties.                                                               *)

\* Every variable has its type.
TypeOK ==
    /\ pool \in Pools
    /\ row \in [Sessions -> [state : Live \cup Terminal \cup {"none"},
                  parent : Pms \cup {NoOne}, pane : BOOLEAN, name : Names \cup {NoName},
                  bridged : BOOLEAN, pending : BOOLEAN, fresh : BOOLEAN]]
    /\ lock \in Sessions \cup {NoOne}
    /\ pane \in [Sessions -> {"none", "open", "closed"}]
    /\ agent \subseteq Sessions
    /\ checkout \in [Names -> Tasks \cup {NoOne}]
    /\ branches \subseteq Names /\ worked \subseteq Names

\* A project never has two managers that are not finished, whatever crashes,
\* times out or is asked for at the same time.
OneManager == Cardinality({m \in Pms : IsLive(m)}) <= 1

\* A manager is being retired only while it has nothing to do: no live task
\* of its own and no prompt queued for it since the decision.
RetiresOnlyIdle ==
    \A m \in Pms : launch[m] = "retiring" /\ lock = m =>
        Children(m) = {} /\ ~row[m].pending

\* A task that failed to launch, or was cut off by a restart while it failed
\* before it had a pane: its row keeps the name, and the checkout behind the
\* name may be given to another.
GaveUp(t, n) ==
    /\ row[t].name = n
    /\ launch[t] = "failed" \/ (row[t].state \in Terminal /\ ~row[t].pane)
NameGivenUp(n) == \E t \in Tasks : GaveUp(t, n)

\* The checkout in which an agent may have worked disappears only in a
\* teardown, of its own task and with the agent's pane closed first; a name
\* that a failed launch gave up is the exception.
WorkPreserved ==
    [][\A n \in Names :
         n \in worked /\ n \notin worked' =>
             \E t \in Tasks :
                 /\ tear[t] = "destroy" /\ row[t].name = n /\ t \notin agent
                 /\ checkout[n] = t \/ NameGivenUp(n)]_vars

\* A launch that reports an error leaves no session behind that could still
\* serve: its row is finished, even if it registered in the last moment. The
\* exception is a launch that was cut off where nothing handles the error, which
\* CutOff lists: its row may stay in "starting" until somebody asks for it.
FailedLaunchIsFinished ==
    \A s \in Sessions : launch[s] \in {"close", "closeclean", "clean", "failed"} => ~IsLive(s)

\* The manager of the project owns its tasks, those of its predecessors
\* included, unless the control process was restarted or a launch cut off: that,
\* between the start of a manager and the end of its launch, leaves them to the
\* old one.
TasksHaveManager ==
    \A m \in Pms, t \in Tasks :
        lock = NoOne /\ IsLive(m) /\ row[m].bridged /\ IsLive(t) /\ cuts = 0
        => row[t].parent = m

\* Whoever holds the lock of the project, to launch a session or to retire a
\* manager, can always take its next step by itself. It waits for no agent, no
\* handler and no other session, and the steps of a launch never go back, so the
\* lock is given back once every remote call has returned or timed out.
HolderCanMove ==
    /\ lock \in Pms => ENABLED (LaunchStep(lock) \/ StopSession(lock))
    /\ lock \in Tasks => ENABLED LaunchStep(lock)

\* A project keeps one manager, that owns its tasks and is retired only when it
\* is idle, and no failed launch leaves a session behind, whatever fails,
\* registers late or is asked for at the same time (ensure_pm, poll,
\* _wait_for_bridge).
ProjectConsistent ==
    /\ TypeOK
    /\ OneManager
    /\ RetiresOnlyIdle
    /\ TasksHaveManager
    /\ FailedLaunchIsFinished
=============================================================================
