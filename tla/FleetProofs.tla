----------------------------- MODULE FleetProofs -----------------------------
(* The theorems of Fleet, for any managers, tasks, names and faults.          *)
(*                                                                            *)
(* The inductive invariant says who holds the project's lock (whoever is at a *)
(* step that the code runs under it), what the row of a session is at each    *)
(* step of its launch, who owns a task, and what has become of the checkout   *)
(* behind a name.                                                             *)
EXTENDS Fleet, TLAPS, FiniteSetTheorems

----------------------------------------------------------------------------
(* The inductive invariant.                                                  *)

\* The steps of a launch and of a retirement that run under the project's lock.
Building == {"worktree", "workspace"}
Failing == {"close", "closeclean", "clean"}
Joining == {"files", "run", "report", "wait", "giveup", "abort"}
Locked == Building \cup Joining \cup Failing \cup {"rewait", "retiring"}
Steps == Locked \cup {"idle", "done", "failed", "cut", "retire"}

\* Every variable has its type.
Rows == [state : Live \cup Terminal \cup {"none"},
         parent : Pms \cup {NoOne}, pane : BOOLEAN, name : Names \cup {NoName},
         bridged : BOOLEAN, pending : BOOLEAN, fresh : BOOLEAN]
RowsTyped == row \in [Sessions -> Rows]
LocalsTyped ==
    /\ pool \in Pools
    /\ launch \in [Sessions -> Steps]
    /\ tried \in [Tasks -> Nat]
    /\ tear \in [Tasks -> {"idle", "close", "destroy"}]
    /\ lock \in Sessions \cup {NoOne}
    /\ faults \in Nat /\ cuts \in Nat
RemoteTyped ==
    /\ pane \in [Sessions -> {"none", "open", "closed"}]
    /\ agent \subseteq Sessions
    /\ checkout \in [Names -> Tasks \cup {NoOne}]
    /\ branches \subseteq Names /\ worked \subseteq Names
Types == RowsTyped /\ LocalsTyped /\ RemoteTyped

\* The lock is held by the one session at a locked step.
LockFits == \A s \in Sessions : launch[s] \in Locked <=> lock = s

\* What a row says at the steps of its launch.
RowFits(s) ==
    /\ launch[s] \in Building => row[s].state = "none"
    /\ launch[s] \in {"files", "run", "report", "wait", "rewait"} => row[s].state # "none"
    /\ launch[s] \in {"files", "run"} => row[s].pane
    /\ launch[s] \in Failing \cup {"failed"} => ~IsLive(s)
    /\ row[s].state = "none" => ~row[s].pane
    /\ IsLive(s) => row[s].pane \/ row[s].state = "starting"
    /\ s \in agent => row[s].pane /\ pane[s] = "open"
    /\ s \in Pms => row[s].name = NoName
RowsFit == \A s \in Sessions : RowFits(s)

\* There is one manager, and none while the next is being made.
OneLive ==
    \A m \in Pms : IsLive(m) =>
        \A k \in Pms : (IsLive(k) => k = m) /\ launch[k] \notin Building

\* A manager that is being retired has nothing to do.
RetiringIdle == \A m \in Pms : launch[m] = "retiring" => Children(m) = {} /\ ~row[m].pending

\* A task is launched for the manager of the project, and belongs to it once
\* that manager's own launch is over.
Owned(t) ==
    /\ IsLive(t) \/ launch[t] \in Building => row[t].parent \in Pms
    /\ \A m \in Pms : IsLive(m) =>
          /\ launch[t] \in Building => row[t].parent = m
          /\ IsLive(t) /\ cuts = 0 /\ launch[m] \notin Joining => row[t].parent = m
TasksOwned == \A t \in Tasks : Owned(t)

\* The teardown of a task goes on only once its pane is closed.
TornInOrder ==
    \A t \in Tasks :
        /\ tear[t] # "idle" => row[t].state # "none"
        /\ tear[t] = "destroy" /\ row[t].pane => pane[t] = "closed"

\* The checkout behind the name of a task is its own, unless a failed launch
\* gave the name up or the task has been torn down, which happens once.
NameHolds(t, n) ==
    row[t].name = n =>
        \/ checkout[n] = t
        \/ NameGivenUp(n)
        \/ row[t].pane /\ pane[t] = "closed" /\ tear[t] # "destroy"
NamesHold == \A t \in Tasks, n \in Names : NameHolds(t, n)

\* Work is in a checkout that is there, and a launch that may still clean up
\* after itself has done no work.
Unworked == {"workspace", "files", "abort", "closeclean", "clean"}
WorkIsSomewhere ==
    /\ worked \subseteq HasCheckout
    /\ \A s \in Sessions : launch[s] \in Unworked => row[s].name \notin worked

IInv ==
    /\ Types
    /\ LockFits /\ RowsFit /\ OneLive /\ RetiringIdle
    /\ TasksOwned /\ TornInOrder /\ NamesHold /\ WorkIsSomewhere

----------------------------------------------------------------------------
(* What the steps do to the rows.                                            *)

\* A row that is finished changes its state and loses its bridge.
LEMMA FinishedDoes ==
    ASSUME RowsTyped, NEW s \in Sessions, NEW st \in Terminal
    PROVE  /\ Finished(s, st) \in [Sessions -> Rows]
           /\ \A x \in Sessions :
                 LET r == Finished(s, st)[x] IN
                 /\ r.state = IF x = s THEN st ELSE row[x].state
                 /\ r.parent = row[x].parent /\ r.pane = row[x].pane
                 /\ r.name = row[x].name /\ r.pending = row[x].pending
                 /\ r.bridged => row[x].bridged
  BY DEF Finished, RowsTyped, Rows, Terminal

\* A prompt changes nothing that a launch, a teardown or an owner depends on.
LEMMA PromptedDoes ==
    ASSUME NEW r \in [Sessions -> Rows], NEW m \in Sessions
    PROVE  /\ Prompted(r, m) \in [Sessions -> Rows]
           /\ \A x \in Sessions :
                 LET q == Prompted(r, m)[x] IN
                 /\ q.state = r[x].state /\ q.parent = r[x].parent
                 /\ q.pane = r[x].pane /\ q.name = r[x].name
                 /\ q.bridged = r[x].bridged
<1>1. \A x \in Sessions : r[x] \in Rows
  OBVIOUS
<1>2. Prompted(r, m) = [x \in Sessions |-> IF x = m THEN Prompted(r, m)[m] ELSE r[x]]
  BY DEF Prompted
<1>3. Prompted(r, m)[m] = [r[m] EXCEPT !.pending = TRUE, !.fresh = TRUE]
  BY DEF Prompted
<1>4. /\ Prompted(r, m)[m] \in Rows
      /\ Prompted(r, m)[m].state = r[m].state /\ Prompted(r, m)[m].parent = r[m].parent
      /\ Prompted(r, m)[m].pane = r[m].pane /\ Prompted(r, m)[m].name = r[m].name
      /\ Prompted(r, m)[m].bridged = r[m].bridged
  BY <1>1, <1>3 DEF Rows
<1>5. QED BY <1>1, <1>2, <1>4

\* Reparenting gives every task of a manager to the new one.
LEMMA ReparentedDoes ==
    ASSUME RowsTyped, NEW m \in Pms
    PROVE  /\ Reparented(m) \in [Sessions -> Rows]
           /\ \A x \in Sessions :
                 LET q == Reparented(m)[x] IN
                 /\ q.state = row[x].state /\ q.pane = row[x].pane
                 /\ q.name = row[x].name /\ q.bridged = row[x].bridged
                 /\ q.parent = IF x \in Tasks /\ row[x].parent \in Pms
                               THEN m ELSE row[x].parent
  BY DEF Reparented, RowsTyped, Rows, Sessions

\* A launch that was waiting goes on, and its row is another only in what it
\* owns and in what is pending.
LEMMA WaitDoes ==
    ASSUME RowsTyped, NEW s \in Sessions, WaitForBridge(s)
    PROVE  /\ RowsTyped'
           /\ \A x \in Sessions :
                 /\ row'[x].state = row[x].state /\ row'[x].pane = row[x].pane
                 /\ row'[x].name = row[x].name /\ row'[x].bridged = row[x].bridged
           /\ \/ row' = row /\ (s \in Tasks \/ Goto(s, "close") \/ Goto(s, "giveup"))
              \/ /\ s \in Pms /\ row[s].state \notin Terminal
                 /\ \/ launch[s] = "wait" /\ \A t \in Tasks : row'[t].parent =
                          IF row[t].parent \in Pms THEN s ELSE row[t].parent
                    \/ launch[s] = "rewait" /\ \A t \in Tasks : row'[t].parent = row[t].parent
<1>1. CASE row' = row /\ (s \in Tasks \/ Goto(s, "close") \/ Goto(s, "giveup"))
  BY <1>1, FleetAssumption DEF RowsTyped
<1>2. CASE s \in Pms /\ row[s].state \notin Terminal /\ launch[s] = "wait"
              /\ row' = Prompted(Reparented(s), s)
  <2> DEFINE r == Reparented(s)
  <2>1. r \in [Sessions -> Rows]
    BY <1>2, ReparentedDoes
  <2>2. \A x \in Sessions :
            /\ r[x].state = row[x].state /\ r[x].pane = row[x].pane
            /\ r[x].name = row[x].name /\ r[x].bridged = row[x].bridged
            /\ r[x].parent = IF x \in Tasks /\ row[x].parent \in Pms THEN s ELSE row[x].parent
    BY <1>2, ReparentedDoes
  <2>3. row' = Prompted(r, s)
    BY <1>2
  <2> HIDE DEF r
  <2>4. /\ row' \in [Sessions -> Rows]
        /\ \A x \in Sessions :
              /\ row'[x].state = r[x].state /\ row'[x].parent = r[x].parent
              /\ row'[x].pane = r[x].pane /\ row'[x].name = r[x].name
              /\ row'[x].bridged = r[x].bridged
    BY <1>2, <2>1, <2>3, PromptedDoes DEF Sessions
  <2>5. QED BY <1>2, <2>2, <2>4 DEF RowsTyped, Sessions
<1>3. CASE s \in Pms /\ row[s].state \notin Terminal /\ launch[s] = "rewait"
              /\ row' = Prompted(row, s)
  BY <1>3, PromptedDoes DEF RowsTyped, Sessions
<1>4. \/ row' = row /\ (Goto(s, "close") \/ Goto(s, "giveup"))
      \/ row[s].state \notin Terminal /\ row' = AfterWait(s)
  BY DEF WaitForBridge
<1>5. launch[s] \in {"wait", "rewait"}
  BY DEF WaitForBridge
<1>6. CASE s \in Tasks
  BY <1>1, <1>4, <1>6 DEF AfterWait
<1>7. CASE s \notin Tasks /\ launch[s] = "wait"
  <2>1. AfterWait(s) = Prompted(Reparented(s), s)
    BY <1>7 DEF AfterWait
  <2> QED BY <1>1, <1>2, <1>4, <1>7, <2>1 DEF Sessions
<1>8. CASE s \notin Tasks /\ launch[s] = "rewait"
  <2>1. AfterWait(s) = Prompted(row, s)
    BY <1>8 DEF AfterWait
  <2> QED BY <1>1, <1>3, <1>4, <1>8, <2>1 DEF Sessions
<1>9. QED BY <1>5, <1>6, <1>7, <1>8

----------------------------------------------------------------------------
(* Each part of the invariant is kept by every step.                         *)

\* Rows keep their type.
LEMMA RowsNext ==
    ASSUME RowsTyped, [Next]_vars
    PROVE  RowsTyped'
<1> USE FleetAssumption DEF Goto, Unlock, GotoT, Fails, NoFault, remote,
        Sessions, Rows, RowsTyped, Live, Terminal, NoName, IsLive
<1>1. CASE EnsurePm
  BY <1>1 DEF EnsurePm, Manager
<1>2. CASE LaunchTask
  BY <1>2 DEF LaunchTask
<1>3. CASE SendToPm
  <2>1. PICK m \in Manager : row' = Prompted(row, m)
    BY <1>3 DEF SendToPm
  <2>2. QED BY <2>1, PromptedDoes DEF Manager
<1>4. CASE Crash
  BY <1>4 DEF Crash, CutsIn
<1>5. ASSUME NEW s \in Sessions, CreateWorkspace(s) PROVE RowsTyped'
  BY <1>5 DEF CreateWorkspace
<1>cut. ASSUME NEW s \in Sessions, CutOff(s) PROVE RowsTyped'
  BY <1>cut DEF CutOff, CutsIn, Inserted
<1>6. ASSUME NEW s \in Sessions, WriteFiles(s) PROVE RowsTyped'
  BY <1>6 DEF WriteFiles
<1>7. ASSUME NEW s \in Sessions, PaneRun(s) PROVE RowsTyped'
  BY <1>7 DEF PaneRun, RunsAgent
<1>8. ASSUME NEW s \in Sessions, Report(s) PROVE RowsTyped'
  BY <1>8 DEF Report
<1>9. ASSUME NEW s \in Sessions, WaitForBridge(s) PROVE RowsTyped'
  BY <1>9, WaitDoes
<1>10. ASSUME NEW s \in Sessions, GiveUp(s) PROVE RowsTyped'
  BY <1>10, FinishedDoes DEF GiveUp, Terminal
<1>11. ASSUME NEW s \in Sessions, CloseFailed(s) PROVE RowsTyped'
  BY <1>11 DEF CloseFailed, ClosePane
<1>12. ASSUME NEW s \in Sessions, CleanWorktree(s) PROVE RowsTyped'
  BY <1>12 DEF CleanWorktree, Destroy
<1>13. ASSUME NEW s \in Sessions, Register(s) PROVE RowsTyped'
  BY <1>13 DEF Register
<1>14. ASSUME NEW s \in Sessions, AgentReports(s) PROVE RowsTyped'
  BY <1>14 DEF AgentReports
<1>15. ASSUME NEW s \in Sessions, AgentDies(s) PROVE RowsTyped'
  BY <1>15 DEF AgentDies
<1>16. ASSUME NEW t \in Tasks, AddWorktree(t) PROVE RowsTyped'
  BY <1>16 DEF AddWorktree, AddsWorktree, NoWorktree, Free
<1>17. ASSUME NEW t \in Tasks, NoNameLeft(t) PROVE RowsTyped'
  BY <1>17 DEF NoNameLeft
<1>18. ASSUME NEW t \in Tasks, Teardown(t) PROVE RowsTyped'
  BY <1>18 DEF Teardown
<1>19. ASSUME NEW t \in Tasks, TeardownClose(t) PROVE RowsTyped'
  BY <1>19 DEF TeardownClose, ClosePane
<1>20. ASSUME NEW t \in Tasks, TeardownDestroy(t) PROVE RowsTyped'
  BY <1>20 DEF TeardownDestroy, Destroy, Finished, Present
<1>21. ASSUME NEW m \in Pms, PollPicks(m) PROVE RowsTyped'
  BY <1>21 DEF PollPicks, Retirable
<1>22. ASSUME NEW m \in Pms, PollLocks(m) PROVE RowsTyped'
  BY <1>22 DEF PollLocks, Recheck, Retirable
<1>23. ASSUME NEW m \in Pms, StopSession(m) PROVE RowsTyped'
  BY <1>23 DEF StopSession, ClosePane, Finished
<1>24. ASSUME NEW m \in Pms, Age(m) PROVE RowsTyped'
  <2>1. row[m] \in Rows /\ m \in Sessions
    OBVIOUS
  <2>2. [row[m] EXCEPT !.fresh = FALSE] \in Rows
    BY <2>1
  <2>3. row' = [row EXCEPT ![m] = [row[m] EXCEPT !.fresh = FALSE]]
    BY <1>24 DEF Age
  <2>4. QED BY <2>1, <2>2, <2>3
<1>25. CASE UNCHANGED vars
  BY <1>25 DEF vars
<1>26. QED BY <1>1, <1>2, <1>3, <1>4, <1>5, <1>6, <1>7, <1>8, <1>9, <1>10,
        <1>11, <1>12, <1>13, <1>14, <1>15, <1>16, <1>17, <1>18, <1>19, <1>20,
        <1>21, <1>22, <1>23, <1>24, <1>25, <1>cut DEF Next, LaunchStep

\* Processes and the lock keep their type.
LEMMA LocalsNext ==
    ASSUME LocalsTyped, RowsTyped, [Next]_vars
    PROVE  LocalsTyped'
<1> USE FleetAssumption DEF Goto, Unlock, GotoT, Fails, NoFault, remote,
        Sessions, Rows, RowsTyped, LocalsTyped, Locked, Steps, Building,
        Failing, Joining
<1>1. CASE EnsurePm
  BY <1>1 DEF EnsurePm, Manager
<1>2. CASE LaunchTask
  BY <1>2 DEF LaunchTask
<1>3. CASE SendToPm
  BY <1>3 DEF SendToPm, Manager, Prompted
<1>4. CASE Crash
  BY <1>4 DEF Crash, CutsIn
<1>5. ASSUME NEW s \in Sessions, CreateWorkspace(s) PROVE LocalsTyped'
  BY <1>5 DEF CreateWorkspace
<1>cut. ASSUME NEW s \in Sessions, CutOff(s) PROVE LocalsTyped'
  BY <1>cut DEF CutOff, CutsIn, Inserted
<1>6. ASSUME NEW s \in Sessions, WriteFiles(s) PROVE LocalsTyped'
  BY <1>6 DEF WriteFiles
<1>7. ASSUME NEW s \in Sessions, PaneRun(s) PROVE LocalsTyped'
  BY <1>7 DEF PaneRun, RunsAgent
<1>8. ASSUME NEW s \in Sessions, Report(s) PROVE LocalsTyped'
  BY <1>8 DEF Report
<1>9. ASSUME NEW s \in Sessions, WaitForBridge(s) PROVE LocalsTyped'
  BY <1>9 DEF WaitForBridge, AfterWait, Reparented, Prompted
<1>10. ASSUME NEW s \in Sessions, GiveUp(s) PROVE LocalsTyped'
  BY <1>10 DEF GiveUp, Finished
<1>11. ASSUME NEW s \in Sessions, CloseFailed(s) PROVE LocalsTyped'
  BY <1>11 DEF CloseFailed, ClosePane
<1>12. ASSUME NEW s \in Sessions, CleanWorktree(s) PROVE LocalsTyped'
  BY <1>12 DEF CleanWorktree, Destroy
<1>13. ASSUME NEW s \in Sessions, Register(s) PROVE LocalsTyped'
  BY <1>13 DEF Register
<1>14. ASSUME NEW s \in Sessions, AgentReports(s) PROVE LocalsTyped'
  BY <1>14 DEF AgentReports
<1>15. ASSUME NEW s \in Sessions, AgentDies(s) PROVE LocalsTyped'
  BY <1>15 DEF AgentDies
<1>16. ASSUME NEW t \in Tasks, AddWorktree(t) PROVE LocalsTyped'
  BY <1>16 DEF AddWorktree, AddsWorktree, NoWorktree, Free
<1>17. ASSUME NEW t \in Tasks, NoNameLeft(t) PROVE LocalsTyped'
  BY <1>17 DEF NoNameLeft
<1>18. ASSUME NEW t \in Tasks, Teardown(t) PROVE LocalsTyped'
  BY <1>18 DEF Teardown
<1>19. ASSUME NEW t \in Tasks, TeardownClose(t) PROVE LocalsTyped'
  BY <1>19 DEF TeardownClose, ClosePane
<1>20. ASSUME NEW t \in Tasks, TeardownDestroy(t) PROVE LocalsTyped'
  BY <1>20 DEF TeardownDestroy, Destroy, Finished, Present
<1>21. ASSUME NEW m \in Pms, PollPicks(m) PROVE LocalsTyped'
  BY <1>21 DEF PollPicks, Retirable
<1>22. ASSUME NEW m \in Pms, PollLocks(m) PROVE LocalsTyped'
  BY <1>22 DEF PollLocks, Recheck, Retirable
<1>23. ASSUME NEW m \in Pms, StopSession(m) PROVE LocalsTyped'
  BY <1>23 DEF StopSession, ClosePane, Finished
<1>24. ASSUME NEW m \in Pms, Age(m) PROVE LocalsTyped'
  BY <1>24 DEF Age
<1>25. CASE UNCHANGED vars
  BY <1>25 DEF vars
<1>26. QED BY <1>1, <1>2, <1>3, <1>4, <1>5, <1>6, <1>7, <1>8, <1>9, <1>10,
        <1>11, <1>12, <1>13, <1>14, <1>15, <1>16, <1>17, <1>18, <1>19, <1>20,
        <1>21, <1>22, <1>23, <1>24, <1>25, <1>cut DEF Next, LaunchStep

\* Panes, agents and checkouts keep their type.
LEMMA RemoteNext ==
    ASSUME RemoteTyped, RowsTyped, [Next]_vars
    PROVE  RemoteTyped'
<1> USE FleetAssumption DEF Goto, Unlock, GotoT, Fails, NoFault, remote,
        Sessions, Rows, RowsTyped, LocalsTyped, RemoteTyped, HasCheckout
<1>1. CASE EnsurePm
  BY <1>1 DEF EnsurePm, Manager
<1>2. CASE LaunchTask
  BY <1>2 DEF LaunchTask
<1>3. CASE SendToPm
  BY <1>3 DEF SendToPm, Manager, Prompted
<1>4. CASE Crash
  BY <1>4 DEF Crash, CutsIn
<1>5. ASSUME NEW s \in Sessions, CreateWorkspace(s) PROVE RemoteTyped'
  BY <1>5 DEF CreateWorkspace
<1>cut. ASSUME NEW s \in Sessions, CutOff(s) PROVE RemoteTyped'
  BY <1>cut DEF CutOff, CutsIn, Inserted
<1>6. ASSUME NEW s \in Sessions, WriteFiles(s) PROVE RemoteTyped'
  BY <1>6 DEF WriteFiles
<1>7. ASSUME NEW s \in Sessions, PaneRun(s) PROVE RemoteTyped'
  BY <1>7 DEF PaneRun, RunsAgent
<1>8. ASSUME NEW s \in Sessions, Report(s) PROVE RemoteTyped'
  BY <1>8 DEF Report
<1>9. ASSUME NEW s \in Sessions, WaitForBridge(s) PROVE RemoteTyped'
  BY <1>9 DEF WaitForBridge, AfterWait, Reparented, Prompted
<1>10. ASSUME NEW s \in Sessions, GiveUp(s) PROVE RemoteTyped'
  BY <1>10 DEF GiveUp, Finished
<1>11. ASSUME NEW s \in Sessions, CloseFailed(s) PROVE RemoteTyped'
  BY <1>11 DEF CloseFailed, ClosePane
<1>12. ASSUME NEW s \in Sessions, CleanWorktree(s) PROVE RemoteTyped'
  BY <1>12 DEF CleanWorktree, Destroy
<1>13. ASSUME NEW s \in Sessions, Register(s) PROVE RemoteTyped'
  BY <1>13 DEF Register
<1>14. ASSUME NEW s \in Sessions, AgentReports(s) PROVE RemoteTyped'
  BY <1>14 DEF AgentReports
<1>15. ASSUME NEW s \in Sessions, AgentDies(s) PROVE RemoteTyped'
  BY <1>15 DEF AgentDies
<1>16. ASSUME NEW t \in Tasks, AddWorktree(t) PROVE RemoteTyped'
  BY <1>16 DEF AddWorktree, AddsWorktree, NoWorktree, Free
<1>17. ASSUME NEW t \in Tasks, NoNameLeft(t) PROVE RemoteTyped'
  BY <1>17 DEF NoNameLeft
<1>18. ASSUME NEW t \in Tasks, Teardown(t) PROVE RemoteTyped'
  BY <1>18 DEF Teardown
<1>19. ASSUME NEW t \in Tasks, TeardownClose(t) PROVE RemoteTyped'
  BY <1>19 DEF TeardownClose, ClosePane
<1>20. ASSUME NEW t \in Tasks, TeardownDestroy(t) PROVE RemoteTyped'
  BY <1>20 DEF TeardownDestroy, Destroy, Finished, Present
<1>21. ASSUME NEW m \in Pms, PollPicks(m) PROVE RemoteTyped'
  BY <1>21 DEF PollPicks, Retirable
<1>22. ASSUME NEW m \in Pms, PollLocks(m) PROVE RemoteTyped'
  BY <1>22 DEF PollLocks, Recheck, Retirable
<1>23. ASSUME NEW m \in Pms, StopSession(m) PROVE RemoteTyped'
  BY <1>23 DEF StopSession, ClosePane, Finished
<1>24. ASSUME NEW m \in Pms, Age(m) PROVE RemoteTyped'
  BY <1>24 DEF Age
<1>25. CASE UNCHANGED vars
  BY <1>25 DEF vars
<1>26. QED BY <1>1, <1>2, <1>3, <1>4, <1>5, <1>6, <1>7, <1>8, <1>9, <1>10,
        <1>11, <1>12, <1>13, <1>14, <1>15, <1>16, <1>17, <1>18, <1>19, <1>20,
        <1>21, <1>22, <1>23, <1>24, <1>25, <1>cut DEF Next, LaunchStep

\* A locked step is entered with the lock, and left with it.
LEMMA LockNext ==
    ASSUME LocalsTyped, LockFits, [Next]_vars
    PROVE  LockFits'
<1> USE FleetAssumption DEF Goto, Unlock, GotoT, Fails, NoFault, remote,
        Sessions, LocalsTyped, LockFits, Locked, Steps, Building, Failing,
        Joining
<1>1. CASE EnsurePm
  BY <1>1 DEF EnsurePm, Manager
<1>2. CASE LaunchTask
  BY <1>2 DEF LaunchTask
<1>3. CASE SendToPm
  BY <1>3 DEF SendToPm, Manager, Prompted
<1>4. CASE Crash
  BY <1>4 DEF Crash, CutsIn
<1>5. ASSUME NEW s \in Sessions, CreateWorkspace(s) PROVE LockFits'
  BY <1>5 DEF CreateWorkspace
<1>cut. ASSUME NEW s \in Sessions, CutOff(s) PROVE LockFits'
  BY <1>cut DEF CutOff, CutsIn, Inserted
<1>6. ASSUME NEW s \in Sessions, WriteFiles(s) PROVE LockFits'
  BY <1>6 DEF WriteFiles
<1>7. ASSUME NEW s \in Sessions, PaneRun(s) PROVE LockFits'
  BY <1>7 DEF PaneRun, RunsAgent
<1>8. ASSUME NEW s \in Sessions, Report(s) PROVE LockFits'
  BY <1>8 DEF Report
<1>9. ASSUME NEW s \in Sessions, WaitForBridge(s) PROVE LockFits'
  BY <1>9 DEF WaitForBridge, AfterWait, Reparented, Prompted
<1>10. ASSUME NEW s \in Sessions, GiveUp(s) PROVE LockFits'
  BY <1>10 DEF GiveUp, Finished
<1>11. ASSUME NEW s \in Sessions, CloseFailed(s) PROVE LockFits'
  BY <1>11 DEF CloseFailed, ClosePane
<1>12. ASSUME NEW s \in Sessions, CleanWorktree(s) PROVE LockFits'
  BY <1>12 DEF CleanWorktree, Destroy
<1>13. ASSUME NEW s \in Sessions, Register(s) PROVE LockFits'
  BY <1>13 DEF Register
<1>14. ASSUME NEW s \in Sessions, AgentReports(s) PROVE LockFits'
  BY <1>14 DEF AgentReports
<1>15. ASSUME NEW s \in Sessions, AgentDies(s) PROVE LockFits'
  BY <1>15 DEF AgentDies
<1>16. ASSUME NEW t \in Tasks, AddWorktree(t) PROVE LockFits'
  BY <1>16 DEF AddWorktree, AddsWorktree, NoWorktree, Free
<1>17. ASSUME NEW t \in Tasks, NoNameLeft(t) PROVE LockFits'
  BY <1>17 DEF NoNameLeft
<1>18. ASSUME NEW t \in Tasks, Teardown(t) PROVE LockFits'
  BY <1>18 DEF Teardown
<1>19. ASSUME NEW t \in Tasks, TeardownClose(t) PROVE LockFits'
  BY <1>19 DEF TeardownClose, ClosePane
<1>20. ASSUME NEW t \in Tasks, TeardownDestroy(t) PROVE LockFits'
  BY <1>20 DEF TeardownDestroy, Destroy, Finished, Present
<1>21. ASSUME NEW m \in Pms, PollPicks(m) PROVE LockFits'
  BY <1>21 DEF PollPicks, Retirable
<1>22. ASSUME NEW m \in Pms, PollLocks(m) PROVE LockFits'
  BY <1>22 DEF PollLocks, Recheck, Retirable
<1>23. ASSUME NEW m \in Pms, StopSession(m) PROVE LockFits'
  BY <1>23 DEF StopSession, ClosePane, Finished
<1>24. ASSUME NEW m \in Pms, Age(m) PROVE LockFits'
  BY <1>24 DEF Age
<1>25. CASE UNCHANGED vars
  BY <1>25 DEF vars
<1>26. QED BY <1>1, <1>2, <1>3, <1>4, <1>5, <1>6, <1>7, <1>8, <1>9, <1>10,
        <1>11, <1>12, <1>13, <1>14, <1>15, <1>16, <1>17, <1>18, <1>19, <1>20,
        <1>21, <1>22, <1>23, <1>24, <1>25, <1>cut DEF Next, LaunchStep

\* Rows fit the steps of their launches.
LEMMA RowsFitNext ==
    ASSUME Types, LockFits, RowsFit, OneLive, TornInOrder, [Next]_vars
    PROVE  RowsFit'
<1> USE FleetAssumption DEF Goto, Unlock, GotoT, Fails, NoFault, remote,
        Sessions, Rows, RowsTyped, LocalsTyped, RemoteTyped, Types, Locked,
        Steps, Building, Failing, Joining, Live, Terminal, NoName, IsLive,
        LockFits, RowsFit, RowFits, OneLive, TornInOrder
<1>1. CASE EnsurePm
  BY <1>1 DEF EnsurePm, Manager
<1>2. CASE LaunchTask
  BY <1>2 DEF LaunchTask
<1>3. CASE SendToPm
  BY <1>3 DEF SendToPm, Manager, Prompted
<1>4. CASE Crash
  BY <1>4 DEF Crash, CutsIn
<1>5. ASSUME NEW s \in Sessions, CreateWorkspace(s) PROVE RowsFit'
  BY <1>5 DEF CreateWorkspace
<1>cut. ASSUME NEW s \in Sessions, CutOff(s) PROVE RowsFit'
  BY <1>cut DEF CutOff, CutsIn, Inserted
<1>6. ASSUME NEW s \in Sessions, WriteFiles(s) PROVE RowsFit'
  BY <1>6 DEF WriteFiles
<1>7. ASSUME NEW s \in Sessions, PaneRun(s) PROVE RowsFit'
  BY <1>7 DEF PaneRun, RunsAgent
<1>8. ASSUME NEW s \in Sessions, Report(s) PROVE RowsFit'
  BY <1>8 DEF Report
<1>9. ASSUME NEW s \in Sessions, WaitForBridge(s) PROVE RowsFit'
  <2>1. \A x \in Sessions :
            /\ row'[x].state = row[x].state /\ row'[x].pane = row[x].pane
            /\ row'[x].name = row[x].name
    BY <1>9, WaitDoes
  <2>2. \/ launch' = [launch EXCEPT ![s] = "done"]
        \/ launch' = [launch EXCEPT ![s] = "giveup"]
        \/ launch' = [launch EXCEPT ![s] = "close"] /\ row[s].state \in Terminal
    BY <1>9 DEF WaitForBridge
  <2>3. UNCHANGED <<pane, agent>>
    BY <1>9 DEF WaitForBridge
  <2>4. QED BY <2>1, <2>2, <2>3
<1>10. ASSUME NEW s \in Sessions, GiveUp(s) PROVE RowsFit'
  BY <1>10 DEF GiveUp, Finished
<1>11. ASSUME NEW s \in Sessions, CloseFailed(s) PROVE RowsFit'
  BY <1>11 DEF CloseFailed, ClosePane
<1>12. ASSUME NEW s \in Sessions, CleanWorktree(s) PROVE RowsFit'
  BY <1>12 DEF CleanWorktree, Destroy
<1>13. ASSUME NEW s \in Sessions, Register(s) PROVE RowsFit'
  BY <1>13 DEF Register
<1>14. ASSUME NEW s \in Sessions, AgentReports(s) PROVE RowsFit'
  BY <1>14 DEF AgentReports
<1>15. ASSUME NEW s \in Sessions, AgentDies(s) PROVE RowsFit'
  BY <1>15 DEF AgentDies
<1>16. ASSUME NEW t \in Tasks, AddWorktree(t) PROVE RowsFit'
  <2>1. /\ \A k \in Sessions : row'[k].state = row[k].state /\ row'[k].pane = row[k].pane
        /\ \A k \in Pms : row'[k].name = row[k].name
    BY <1>16, SMTT(30) DEF AddWorktree
  <2>2. /\ launch[t] = "worktree" /\ UNCHANGED <<pane, agent>>
        /\ \/ launch' = launch
           \/ launch' = [launch EXCEPT ![t] = "workspace"]
           \/ launch' = [launch EXCEPT ![t] = "failed"]
    BY <1>16 DEF AddWorktree
  <2>3. ASSUME NEW k \in Sessions PROVE RowFits(k)'
    BY <2>1, <2>2, <2>3
  <2>4. QED BY <2>3
<1>17. ASSUME NEW t \in Tasks, NoNameLeft(t) PROVE RowsFit'
  BY <1>17 DEF NoNameLeft
<1>18. ASSUME NEW t \in Tasks, Teardown(t) PROVE RowsFit'
  BY <1>18 DEF Teardown
<1>19. ASSUME NEW t \in Tasks, TeardownClose(t) PROVE RowsFit'
  BY <1>19 DEF TeardownClose, ClosePane
<1>20. ASSUME NEW t \in Tasks, TeardownDestroy(t) PROVE RowsFit'
  BY <1>20 DEF TeardownDestroy, Destroy, Finished, Present
<1>21. ASSUME NEW m \in Pms, PollPicks(m) PROVE RowsFit'
  BY <1>21 DEF PollPicks, Retirable
<1>22. ASSUME NEW m \in Pms, PollLocks(m) PROVE RowsFit'
  BY <1>22 DEF PollLocks, Recheck, Retirable
<1>23. ASSUME NEW m \in Pms, StopSession(m) PROVE RowsFit'
  BY <1>23 DEF StopSession, ClosePane, Finished
<1>24. ASSUME NEW m \in Pms, Age(m) PROVE RowsFit'
  BY <1>24 DEF Age
<1>25. CASE UNCHANGED vars
  BY <1>25 DEF vars
<1>26. QED BY <1>1, <1>2, <1>3, <1>4, <1>5, <1>6, <1>7, <1>8, <1>9, <1>10,
        <1>11, <1>12, <1>13, <1>14, <1>15, <1>16, <1>17, <1>18, <1>19, <1>20,
        <1>21, <1>22, <1>23, <1>24, <1>25, <1>cut DEF Next, LaunchStep

\* A manager comes into being alone.
LEMMA OneLiveNext ==
    ASSUME Types, LockFits, RowsFit, OneLive, [Next]_vars
    PROVE  OneLive'
<1> USE FleetAssumption DEF Goto, Unlock, GotoT, Fails, NoFault, remote,
        Sessions, Rows, RowsTyped, LocalsTyped, RemoteTyped, Types, Locked,
        Steps, Building, Failing, Joining, Live, Terminal, NoName, IsLive,
        LockFits, RowsFit, RowFits, OneLive
<1>1. CASE EnsurePm
  BY <1>1 DEF EnsurePm, Manager
<1>2. CASE LaunchTask
  BY <1>2 DEF LaunchTask
<1>3. CASE SendToPm
  BY <1>3 DEF SendToPm, Manager, Prompted
<1>4. CASE Crash
  BY <1>4 DEF Crash, CutsIn
<1>5. ASSUME NEW s \in Sessions, CreateWorkspace(s) PROVE OneLive'
  BY <1>5 DEF CreateWorkspace
<1>cut. ASSUME NEW s \in Sessions, CutOff(s) PROVE OneLive'
  BY <1>cut DEF CutOff, CutsIn, Inserted
<1>6. ASSUME NEW s \in Sessions, WriteFiles(s) PROVE OneLive'
  BY <1>6 DEF WriteFiles
<1>7. ASSUME NEW s \in Sessions, PaneRun(s) PROVE OneLive'
  BY <1>7 DEF PaneRun, RunsAgent
<1>8. ASSUME NEW s \in Sessions, Report(s) PROVE OneLive'
  BY <1>8 DEF Report
<1>9. ASSUME NEW s \in Sessions, WaitForBridge(s) PROVE OneLive'
  <2>1. \A k \in Pms : row'[k].state = row[k].state
    BY <1>9, WaitDoes
  <2>2. \A k \in Pms : launch'[k] \in Building => launch[k] \in Building
    BY <1>9 DEF WaitForBridge
  <2>3. QED BY <2>1, <2>2
<1>10. ASSUME NEW s \in Sessions, GiveUp(s) PROVE OneLive'
  BY <1>10 DEF GiveUp, Finished
<1>11. ASSUME NEW s \in Sessions, CloseFailed(s) PROVE OneLive'
  BY <1>11 DEF CloseFailed, ClosePane
<1>12. ASSUME NEW s \in Sessions, CleanWorktree(s) PROVE OneLive'
  BY <1>12 DEF CleanWorktree, Destroy
<1>13. ASSUME NEW s \in Sessions, Register(s) PROVE OneLive'
  BY <1>13 DEF Register
<1>14. ASSUME NEW s \in Sessions, AgentReports(s) PROVE OneLive'
  BY <1>14 DEF AgentReports
<1>15. ASSUME NEW s \in Sessions, AgentDies(s) PROVE OneLive'
  BY <1>15 DEF AgentDies
<1>16. ASSUME NEW t \in Tasks, AddWorktree(t) PROVE OneLive'
  BY <1>16 DEF AddWorktree, AddsWorktree, NoWorktree, Free
<1>17. ASSUME NEW t \in Tasks, NoNameLeft(t) PROVE OneLive'
  BY <1>17 DEF NoNameLeft
<1>18. ASSUME NEW t \in Tasks, Teardown(t) PROVE OneLive'
  BY <1>18 DEF Teardown
<1>19. ASSUME NEW t \in Tasks, TeardownClose(t) PROVE OneLive'
  BY <1>19 DEF TeardownClose, ClosePane
<1>20. ASSUME NEW t \in Tasks, TeardownDestroy(t) PROVE OneLive'
  <2>1. PICK st \in {"stopped", "failed"} : row' = Finished(t, st)
    BY <1>20 DEF TeardownDestroy
  <2>2. \A k \in Sessions : row'[k].state = IF k = t THEN st ELSE row[k].state
    BY <2>1, FinishedDoes
  <2>3. launch' = launch
    BY <1>20 DEF TeardownDestroy
  <2>4. QED BY <2>2, <2>3
<1>21. ASSUME NEW m \in Pms, PollPicks(m) PROVE OneLive'
  BY <1>21 DEF PollPicks, Retirable
<1>22. ASSUME NEW m \in Pms, PollLocks(m) PROVE OneLive'
  BY <1>22 DEF PollLocks, Recheck, Retirable
<1>23. ASSUME NEW m \in Pms, StopSession(m) PROVE OneLive'
  BY <1>23 DEF StopSession, ClosePane, Finished
<1>24. ASSUME NEW m \in Pms, Age(m) PROVE OneLive'
  BY <1>24 DEF Age
<1>25. CASE UNCHANGED vars
  BY <1>25 DEF vars
<1>26. QED BY <1>1, <1>2, <1>3, <1>4, <1>5, <1>6, <1>7, <1>8, <1>9, <1>10,
        <1>11, <1>12, <1>13, <1>14, <1>15, <1>16, <1>17, <1>18, <1>19, <1>20,
        <1>21, <1>22, <1>23, <1>24, <1>25, <1>cut DEF Next, LaunchStep

\* Nothing is given to a manager that is being retired.
LEMMA RetiringNext ==
    ASSUME Types, LockFits, RowsFit, OneLive, RetiringIdle, [Next]_vars
    PROVE  RetiringIdle'
<1> USE FleetAssumption DEF Goto, Unlock, GotoT, Fails, NoFault, remote,
        Sessions, Rows, RowsTyped, LocalsTyped, RemoteTyped, Types, Locked,
        Steps, Building, Failing, Joining, Live, Terminal, NoName, IsLive,
        LockFits, RowsFit, RowFits, OneLive, RetiringIdle, Children
<1>1. CASE EnsurePm
  BY <1>1 DEF EnsurePm, Manager
<1>2. CASE LaunchTask
  BY <1>2 DEF LaunchTask
<1>3. CASE SendToPm
  BY <1>3 DEF SendToPm, Manager, Prompted
<1>4. CASE Crash
  BY <1>4 DEF Crash, CutsIn
<1>5. ASSUME NEW s \in Sessions, CreateWorkspace(s) PROVE RetiringIdle'
  BY <1>5 DEF CreateWorkspace
<1>cut. ASSUME NEW s \in Sessions, CutOff(s) PROVE RetiringIdle'
  BY <1>cut DEF CutOff, CutsIn, Inserted
<1>6. ASSUME NEW s \in Sessions, WriteFiles(s) PROVE RetiringIdle'
  BY <1>6 DEF WriteFiles
<1>7. ASSUME NEW s \in Sessions, PaneRun(s) PROVE RetiringIdle'
  BY <1>7 DEF PaneRun, RunsAgent
<1>8. ASSUME NEW s \in Sessions, Report(s) PROVE RetiringIdle'
  BY <1>8 DEF Report
<1>9. ASSUME NEW s \in Sessions, WaitForBridge(s) PROVE RetiringIdle'
  BY <1>9 DEF WaitForBridge, AfterWait, Reparented, Prompted
<1>10. ASSUME NEW s \in Sessions, GiveUp(s) PROVE RetiringIdle'
  BY <1>10 DEF GiveUp, Finished
<1>11. ASSUME NEW s \in Sessions, CloseFailed(s) PROVE RetiringIdle'
  BY <1>11 DEF CloseFailed, ClosePane
<1>12. ASSUME NEW s \in Sessions, CleanWorktree(s) PROVE RetiringIdle'
  BY <1>12 DEF CleanWorktree, Destroy
<1>13. ASSUME NEW s \in Sessions, Register(s) PROVE RetiringIdle'
  BY <1>13 DEF Register
<1>14. ASSUME NEW s \in Sessions, AgentReports(s) PROVE RetiringIdle'
  BY <1>14 DEF AgentReports
<1>15. ASSUME NEW s \in Sessions, AgentDies(s) PROVE RetiringIdle'
  BY <1>15 DEF AgentDies
<1>16. ASSUME NEW t \in Tasks, AddWorktree(t) PROVE RetiringIdle'
  BY <1>16 DEF AddWorktree, AddsWorktree, NoWorktree, Free
<1>17. ASSUME NEW t \in Tasks, NoNameLeft(t) PROVE RetiringIdle'
  BY <1>17 DEF NoNameLeft
<1>18. ASSUME NEW t \in Tasks, Teardown(t) PROVE RetiringIdle'
  BY <1>18 DEF Teardown
<1>19. ASSUME NEW t \in Tasks, TeardownClose(t) PROVE RetiringIdle'
  BY <1>19 DEF TeardownClose, ClosePane
<1>20. ASSUME NEW t \in Tasks, TeardownDestroy(t) PROVE RetiringIdle'
  <2>1. PICK st \in {"stopped", "failed"} : row' = Finished(t, st)
    BY <1>20 DEF TeardownDestroy
  <2>2. \A k \in Sessions : /\ row'[k].state = IF k = t THEN st ELSE row[k].state
                           /\ row'[k].parent = row[k].parent /\ row'[k].pending = row[k].pending
    BY <2>1, FinishedDoes
  <2>3. launch' = launch
    BY <1>20 DEF TeardownDestroy
  <2>4. QED BY <2>2, <2>3
<1>21. ASSUME NEW m \in Pms, PollPicks(m) PROVE RetiringIdle'
  BY <1>21 DEF PollPicks, Retirable
<1>22. ASSUME NEW m \in Pms, PollLocks(m) PROVE RetiringIdle'
  BY <1>22 DEF PollLocks, Recheck, Retirable
<1>23. ASSUME NEW m \in Pms, StopSession(m) PROVE RetiringIdle'
  BY <1>23 DEF StopSession, ClosePane, Finished
<1>24. ASSUME NEW m \in Pms, Age(m) PROVE RetiringIdle'
  BY <1>24 DEF Age
<1>25. CASE UNCHANGED vars
  BY <1>25 DEF vars
<1>26. QED BY <1>1, <1>2, <1>3, <1>4, <1>5, <1>6, <1>7, <1>8, <1>9, <1>10,
        <1>11, <1>12, <1>13, <1>14, <1>15, <1>16, <1>17, <1>18, <1>19, <1>20,
        <1>21, <1>22, <1>23, <1>24, <1>25, <1>cut DEF Next, LaunchStep

\* A task has an owner, and it is the manager.
LEMMA OwnedNext ==
    ASSUME Types, LockFits, RowsFit, OneLive, TasksOwned, [Next]_vars
    PROVE  TasksOwned'
<1> USE FleetAssumption DEF Goto, Unlock, GotoT, Fails, NoFault, remote,
        Sessions, Rows, RowsTyped, LocalsTyped, RemoteTyped, Types, Locked,
        Steps, Building, Failing, Joining, Live, Terminal, NoName, IsLive,
        LockFits, RowsFit, RowFits, OneLive, TasksOwned, Owned
<1>1. CASE EnsurePm
  BY <1>1 DEF EnsurePm, Manager
<1>2. CASE LaunchTask
  BY <1>2 DEF LaunchTask
<1>3. CASE SendToPm
  BY <1>3 DEF SendToPm, Manager, Prompted
<1>4. CASE Crash
  BY <1>4 DEF Crash, CutsIn
<1>5. ASSUME NEW s \in Sessions, CreateWorkspace(s) PROVE TasksOwned'
  <2>1. \A k \in Sessions : row'[k].parent = row[k].parent
    BY <1>5 DEF CreateWorkspace
  <2>2. \A k \in Sessions \ {s} : row'[k].state = row[k].state /\ launch'[k] = launch[k]
    BY <1>5 DEF CreateWorkspace
  <2>3. /\ launch[s] = "workspace" /\ launch'[s] \in {"files", "clean"}
        /\ launch'[s] = "clean" => row'[s].state = "failed"
        /\ cuts' = cuts
    BY <1>5 DEF CreateWorkspace
  <2>4. CASE s \in Tasks
    <3>1. ASSUME NEW t \in Tasks PROVE Owned(t)'
      BY <2>1, <2>2, <2>3, <2>4, <3>1, SMTT(30)
    <3>2. QED BY <3>1
  <2>5. CASE s \in Pms
    BY <2>1, <2>2, <2>3, <2>5
  <2>6. QED BY <2>4, <2>5
<1>cut. ASSUME NEW s \in Sessions, CutOff(s) PROVE TasksOwned'
  BY <1>cut DEF CutOff, CutsIn, Inserted
<1>6. ASSUME NEW s \in Sessions, WriteFiles(s) PROVE TasksOwned'
  BY <1>6 DEF WriteFiles
<1>7. ASSUME NEW s \in Sessions, PaneRun(s) PROVE TasksOwned'
  BY <1>7 DEF PaneRun, RunsAgent
<1>8. ASSUME NEW s \in Sessions, Report(s) PROVE TasksOwned'
  BY <1>8 DEF Report
<1>9. ASSUME NEW s \in Sessions, WaitForBridge(s) PROVE TasksOwned'
  <2>1. \A k \in Sessions : row'[k].state = row[k].state
    BY <1>9, WaitDoes
  <2>2. /\ \A k \in Sessions \ {s} : launch'[k] = launch[k]
        /\ launch[s] \in {"wait", "rewait"} /\ launch'[s] \in {"close", "done", "giveup"}
        /\ launch'[s] = "close" => row[s].state \in Terminal
        /\ cuts' = cuts
    BY <1>9 DEF WaitForBridge
  <2>3. CASE row' = row /\ (s \in Tasks \/ launch'[s] \in {"close", "giveup"})
    <3>1. ASSUME NEW t \in Tasks PROVE Owned(t)'
      <4>1. launch'[t] \in Building => launch[t] \in Building
        BY <2>2
      <4>2. \A m \in Pms : row[m].state \in Live /\ launch'[m] \notin Joining => launch[m] \notin Joining
        BY <2>2, <2>3
      <4>3. QED BY <2>2, <2>3, <3>1, <4>1, <4>2
    <3>2. QED BY <3>1
  <2>4. CASE /\ s \in Pms /\ row[s].state \notin Terminal /\ launch[s] = "wait"
             /\ \A t \in Tasks : row'[t].parent =
                    IF row[t].parent \in Pms THEN s ELSE row[t].parent
    <3>1. row[s].state \in Live
      BY <2>4
    <3>2. \A t \in Tasks : launch[t] \notin Building
      BY <2>2, <2>4
    <3>3. QED BY <2>1, <2>2, <2>4, <3>1, <3>2
  <2>5. CASE s \in Pms /\ launch[s] = "rewait" /\ \A t \in Tasks : row'[t].parent = row[t].parent
    BY <2>1, <2>2, <2>5
  <2>6. QED BY <1>9, <2>3, <2>4, <2>5, WaitDoes
<1>10. ASSUME NEW s \in Sessions, GiveUp(s) PROVE TasksOwned'
  BY <1>10 DEF GiveUp, Finished
<1>11. ASSUME NEW s \in Sessions, CloseFailed(s) PROVE TasksOwned'
  BY <1>11 DEF CloseFailed, ClosePane
<1>12. ASSUME NEW s \in Sessions, CleanWorktree(s) PROVE TasksOwned'
  BY <1>12 DEF CleanWorktree, Destroy
<1>13. ASSUME NEW s \in Sessions, Register(s) PROVE TasksOwned'
  BY <1>13 DEF Register
<1>14. ASSUME NEW s \in Sessions, AgentReports(s) PROVE TasksOwned'
  BY <1>14 DEF AgentReports
<1>15. ASSUME NEW s \in Sessions, AgentDies(s) PROVE TasksOwned'
  BY <1>15 DEF AgentDies
<1>16. ASSUME NEW t \in Tasks, AddWorktree(t) PROVE TasksOwned'
  <2>1. \A k \in Sessions : /\ row'[k].state = row[k].state
                           /\ row'[k].parent = row[k].parent
    BY <1>16, SMTT(30) DEF AddWorktree
  <2>2. /\ \A k \in Sessions : launch'[k] \in Building => launch[k] \in Building
        /\ \A m \in Pms : launch'[m] = launch[m]
        /\ cuts' = cuts
    BY <1>16 DEF AddWorktree
  <2>3. QED BY <2>1, <2>2
<1>17. ASSUME NEW t \in Tasks, NoNameLeft(t) PROVE TasksOwned'
  BY <1>17 DEF NoNameLeft
<1>18. ASSUME NEW t \in Tasks, Teardown(t) PROVE TasksOwned'
  BY <1>18 DEF Teardown
<1>19. ASSUME NEW t \in Tasks, TeardownClose(t) PROVE TasksOwned'
  BY <1>19 DEF TeardownClose, ClosePane
<1>20. ASSUME NEW t \in Tasks, TeardownDestroy(t) PROVE TasksOwned'
  <2>1. PICK st \in {"stopped", "failed"} : row' = Finished(t, st)
    BY <1>20 DEF TeardownDestroy
  <2>2. \A k \in Sessions : /\ row'[k].state = IF k = t THEN st ELSE row[k].state
                           /\ row'[k].parent = row[k].parent
    BY <2>1, FinishedDoes
  <2>3. launch' = launch /\ cuts' = cuts
    BY <1>20 DEF TeardownDestroy
  <2>4. QED BY <2>2, <2>3
<1>21. ASSUME NEW m \in Pms, PollPicks(m) PROVE TasksOwned'
  BY <1>21 DEF PollPicks, Retirable
<1>22. ASSUME NEW m \in Pms, PollLocks(m) PROVE TasksOwned'
  <2>1. /\ UNCHANGED <<row, cuts>> /\ launch[m] = "retire"
        /\ launch' = [launch EXCEPT ![m] = "retiring"] \/ launch' = [launch EXCEPT ![m] = "done"]
    BY <1>22 DEF PollLocks
  <2>2. \A k \in Sessions : /\ launch'[k] \in Building <=> launch[k] \in Building
                           /\ launch'[k] \in Joining <=> launch[k] \in Joining
    BY <2>1
  <2>3. QED BY <2>1, <2>2
<1>23. ASSUME NEW m \in Pms, StopSession(m) PROVE TasksOwned'
  BY <1>23 DEF StopSession, ClosePane, Finished
<1>24. ASSUME NEW m \in Pms, Age(m) PROVE TasksOwned'
  BY <1>24 DEF Age
<1>25. CASE UNCHANGED vars
  BY <1>25 DEF vars
<1>26. QED BY <1>1, <1>2, <1>3, <1>4, <1>5, <1>6, <1>7, <1>8, <1>9, <1>10,
        <1>11, <1>12, <1>13, <1>14, <1>15, <1>16, <1>17, <1>18, <1>19, <1>20,
        <1>21, <1>22, <1>23, <1>24, <1>25, <1>cut DEF Next, LaunchStep

\* The pane is closed before the checkout is removed.
LEMMA TornNext ==
    ASSUME Types, LockFits, RowsFit, TornInOrder, [Next]_vars
    PROVE  TornInOrder'
<1> USE FleetAssumption DEF Goto, Unlock, GotoT, Fails, NoFault, remote,
        Sessions, Rows, RowsTyped, LocalsTyped, RemoteTyped, Types, Locked,
        Steps, Building, Failing, Joining, Live, Terminal, NoName, IsLive,
        LockFits, RowsFit, RowFits, TornInOrder
<1>1. CASE EnsurePm
  BY <1>1 DEF EnsurePm, Manager
<1>2. CASE LaunchTask
  BY <1>2 DEF LaunchTask
<1>3. CASE SendToPm
  BY <1>3 DEF SendToPm, Manager, Prompted
<1>4. CASE Crash
  BY <1>4 DEF Crash, CutsIn
<1>5. ASSUME NEW s \in Sessions, CreateWorkspace(s) PROVE TornInOrder'
  BY <1>5 DEF CreateWorkspace
<1>cut. ASSUME NEW s \in Sessions, CutOff(s) PROVE TornInOrder'
  BY <1>cut DEF CutOff, CutsIn, Inserted
<1>6. ASSUME NEW s \in Sessions, WriteFiles(s) PROVE TornInOrder'
  BY <1>6 DEF WriteFiles
<1>7. ASSUME NEW s \in Sessions, PaneRun(s) PROVE TornInOrder'
  BY <1>7 DEF PaneRun, RunsAgent
<1>8. ASSUME NEW s \in Sessions, Report(s) PROVE TornInOrder'
  BY <1>8 DEF Report
<1>9. ASSUME NEW s \in Sessions, WaitForBridge(s) PROVE TornInOrder'
  <2>1. \A k \in Sessions : row'[k].state = row[k].state /\ row'[k].pane = row[k].pane
    BY <1>9, WaitDoes
  <2>2. UNCHANGED <<tear, pane>>
    BY <1>9 DEF WaitForBridge
  <2>3. QED BY <2>1, <2>2
<1>10. ASSUME NEW s \in Sessions, GiveUp(s) PROVE TornInOrder'
  BY <1>10 DEF GiveUp, Finished
<1>11. ASSUME NEW s \in Sessions, CloseFailed(s) PROVE TornInOrder'
  BY <1>11 DEF CloseFailed, ClosePane
<1>12. ASSUME NEW s \in Sessions, CleanWorktree(s) PROVE TornInOrder'
  BY <1>12 DEF CleanWorktree, Destroy
<1>13. ASSUME NEW s \in Sessions, Register(s) PROVE TornInOrder'
  BY <1>13 DEF Register
<1>14. ASSUME NEW s \in Sessions, AgentReports(s) PROVE TornInOrder'
  BY <1>14 DEF AgentReports
<1>15. ASSUME NEW s \in Sessions, AgentDies(s) PROVE TornInOrder'
  BY <1>15 DEF AgentDies
<1>16. ASSUME NEW t \in Tasks, AddWorktree(t) PROVE TornInOrder'
  BY <1>16 DEF AddWorktree, AddsWorktree, NoWorktree, Free
<1>17. ASSUME NEW t \in Tasks, NoNameLeft(t) PROVE TornInOrder'
  BY <1>17 DEF NoNameLeft
<1>18. ASSUME NEW t \in Tasks, Teardown(t) PROVE TornInOrder'
  BY <1>18 DEF Teardown
<1>19. ASSUME NEW t \in Tasks, TeardownClose(t) PROVE TornInOrder'
  BY <1>19 DEF TeardownClose, ClosePane
<1>20. ASSUME NEW t \in Tasks, TeardownDestroy(t) PROVE TornInOrder'
  BY <1>20 DEF TeardownDestroy, Destroy, Finished, Present
<1>21. ASSUME NEW m \in Pms, PollPicks(m) PROVE TornInOrder'
  BY <1>21 DEF PollPicks, Retirable
<1>22. ASSUME NEW m \in Pms, PollLocks(m) PROVE TornInOrder'
  BY <1>22 DEF PollLocks, Recheck, Retirable
<1>23. ASSUME NEW m \in Pms, StopSession(m) PROVE TornInOrder'
  BY <1>23 DEF StopSession, ClosePane, Finished
<1>24. ASSUME NEW m \in Pms, Age(m) PROVE TornInOrder'
  BY <1>24 DEF Age
<1>25. CASE UNCHANGED vars
  BY <1>25 DEF vars
<1>26. QED BY <1>1, <1>2, <1>3, <1>4, <1>5, <1>6, <1>7, <1>8, <1>9, <1>10,
        <1>11, <1>12, <1>13, <1>14, <1>15, <1>16, <1>17, <1>18, <1>19, <1>20,
        <1>21, <1>22, <1>23, <1>24, <1>25, <1>cut DEF Next, LaunchStep

\* A name that was given up by a task stays given up by it.
LEMMA GaveUpNext ==
    ASSUME Types, LockFits, RowsFit, TornInOrder, NEW x \in Tasks, NEW n \in
           Names, GaveUp(x, n), [Next]_vars
    PROVE  GaveUp(x, n)'
<1> USE FleetAssumption DEF Goto, Unlock, GotoT, Fails, NoFault, remote,
        Sessions, Rows, RowsTyped, LocalsTyped, RemoteTyped, Types, Locked,
        Steps, Building, Failing, Joining, Live, Terminal, NoName, IsLive,
        LockFits, RowsFit, RowFits, TornInOrder, GaveUp
<1>1. CASE EnsurePm
  BY <1>1 DEF EnsurePm, Manager
<1>2. CASE LaunchTask
  BY <1>2 DEF LaunchTask
<1>3. CASE SendToPm
  BY <1>3 DEF SendToPm, Manager, Prompted
<1>4. CASE Crash
  BY <1>4 DEF Crash, CutsIn
<1>5. ASSUME NEW s \in Sessions, CreateWorkspace(s) PROVE GaveUp(x, n)'
  BY <1>5 DEF CreateWorkspace
<1>cut. ASSUME NEW s \in Sessions, CutOff(s) PROVE GaveUp(x, n)'
  BY <1>cut DEF CutOff, CutsIn, Inserted
<1>6. ASSUME NEW s \in Sessions, WriteFiles(s) PROVE GaveUp(x, n)'
  BY <1>6 DEF WriteFiles
<1>7. ASSUME NEW s \in Sessions, PaneRun(s) PROVE GaveUp(x, n)'
  BY <1>7 DEF PaneRun, RunsAgent
<1>8. ASSUME NEW s \in Sessions, Report(s) PROVE GaveUp(x, n)'
  BY <1>8 DEF Report
<1>9. ASSUME NEW s \in Sessions, WaitForBridge(s) PROVE GaveUp(x, n)'
  <2>1. /\ row'[x].name = row[x].name
        /\ row'[x].state = row[x].state /\ row'[x].pane = row[x].pane
    BY <1>9, WaitDoes
  <2>2. launch[x] = "failed" => launch'[x] = "failed"
    BY <1>9 DEF WaitForBridge
  <2>3. QED BY <2>1, <2>2
<1>10. ASSUME NEW s \in Sessions, GiveUp(s) PROVE GaveUp(x, n)'
  BY <1>10 DEF GiveUp, Finished
<1>11. ASSUME NEW s \in Sessions, CloseFailed(s) PROVE GaveUp(x, n)'
  BY <1>11 DEF CloseFailed, ClosePane
<1>12. ASSUME NEW s \in Sessions, CleanWorktree(s) PROVE GaveUp(x, n)'
  BY <1>12 DEF CleanWorktree, Destroy
<1>13. ASSUME NEW s \in Sessions, Register(s) PROVE GaveUp(x, n)'
  BY <1>13 DEF Register
<1>14. ASSUME NEW s \in Sessions, AgentReports(s) PROVE GaveUp(x, n)'
  BY <1>14 DEF AgentReports
<1>15. ASSUME NEW s \in Sessions, AgentDies(s) PROVE GaveUp(x, n)'
  BY <1>15 DEF AgentDies
<1>16. ASSUME NEW t \in Tasks, AddWorktree(t) PROVE GaveUp(x, n)'
  BY <1>16 DEF AddWorktree, AddsWorktree, NoWorktree, Free
<1>17. ASSUME NEW t \in Tasks, NoNameLeft(t) PROVE GaveUp(x, n)'
  BY <1>17 DEF NoNameLeft
<1>18. ASSUME NEW t \in Tasks, Teardown(t) PROVE GaveUp(x, n)'
  BY <1>18 DEF Teardown
<1>19. ASSUME NEW t \in Tasks, TeardownClose(t) PROVE GaveUp(x, n)'
  BY <1>19 DEF TeardownClose, ClosePane
<1>20. ASSUME NEW t \in Tasks, TeardownDestroy(t) PROVE GaveUp(x, n)'
  BY <1>20 DEF TeardownDestroy, Destroy, Finished, Present
<1>21. ASSUME NEW m \in Pms, PollPicks(m) PROVE GaveUp(x, n)'
  BY <1>21 DEF PollPicks, Retirable
<1>22. ASSUME NEW m \in Pms, PollLocks(m) PROVE GaveUp(x, n)'
  BY <1>22 DEF PollLocks, Recheck, Retirable
<1>23. ASSUME NEW m \in Pms, StopSession(m) PROVE GaveUp(x, n)'
  BY <1>23 DEF StopSession, ClosePane, Finished
<1>24. ASSUME NEW m \in Pms, Age(m) PROVE GaveUp(x, n)'
  BY <1>24 DEF Age
<1>25. CASE UNCHANGED vars
  BY <1>25 DEF vars
<1>26. QED BY <1>1, <1>2, <1>3, <1>4, <1>5, <1>6, <1>7, <1>8, <1>9, <1>10,
        <1>11, <1>12, <1>13, <1>14, <1>15, <1>16, <1>17, <1>18, <1>19, <1>20,
        <1>21, <1>22, <1>23, <1>24, <1>25, <1>cut DEF Next, LaunchStep

\* A name that was given up stays so.
LEMMA GivenUpNext ==
    ASSUME Types, LockFits, RowsFit, TornInOrder, [Next]_vars
    PROVE  \A n \in Names : NameGivenUp(n) => NameGivenUp(n)'
<1> SUFFICES ASSUME NEW n \in Names, NEW x \in Tasks, GaveUp(x, n)
             PROVE  GaveUp(x, n)'
  BY DEF NameGivenUp
<1> QED BY GaveUpNext

\* The checkout behind a name stays with its task, or the name is given up.
LEMMA NamesNext ==
    ASSUME Types, LockFits, RowsFit, TornInOrder, NamesHold, [Next]_vars
    PROVE  NamesHold'
<1> USE FleetAssumption DEF Goto, Unlock, GotoT, Fails, NoFault, remote,
        Sessions, Rows, RowsTyped, LocalsTyped, RemoteTyped, Types, Locked,
        Steps, Building, Failing, Joining, Live, Terminal, NoName, IsLive,
        LockFits, RowsFit, RowFits, TornInOrder, NamesHold, NameHolds
<1>0. \A n \in Names : NameGivenUp(n) => NameGivenUp(n)'
  BY GivenUpNext
<1>1. CASE EnsurePm
  BY <1>0, <1>1 DEF EnsurePm, Manager
<1>2. CASE LaunchTask
  BY <1>0, <1>2 DEF LaunchTask
<1>3. CASE SendToPm
  BY <1>0, <1>3 DEF SendToPm, Manager, Prompted
<1>4. CASE Crash
  BY <1>0, <1>4 DEF Crash, CutsIn
<1>5. ASSUME NEW s \in Sessions, CreateWorkspace(s) PROVE NamesHold'
  BY <1>0, <1>5 DEF CreateWorkspace
<1>cut. ASSUME NEW s \in Sessions, CutOff(s) PROVE NamesHold'
  BY <1>0, <1>cut DEF CutOff, CutsIn, Inserted
<1>6. ASSUME NEW s \in Sessions, WriteFiles(s) PROVE NamesHold'
  BY <1>0, <1>6 DEF WriteFiles
<1>7. ASSUME NEW s \in Sessions, PaneRun(s) PROVE NamesHold'
  BY <1>0, <1>7 DEF PaneRun, RunsAgent
<1>8. ASSUME NEW s \in Sessions, Report(s) PROVE NamesHold'
  BY <1>0, <1>8 DEF Report
<1>9. ASSUME NEW s \in Sessions, WaitForBridge(s) PROVE NamesHold'
  <2>1. \A k \in Sessions : row'[k].name = row[k].name /\ row'[k].pane = row[k].pane
    BY <1>9, WaitDoes
  <2>2. UNCHANGED <<tear, pane, checkout>>
    BY <1>0, <1>9 DEF WaitForBridge
  <2>3. QED BY <1>0, <2>1, <2>2
<1>10. ASSUME NEW s \in Sessions, GiveUp(s) PROVE NamesHold'
  BY <1>0, <1>10 DEF GiveUp, Finished
<1>11. ASSUME NEW s \in Sessions, CloseFailed(s) PROVE NamesHold'
  BY <1>0, <1>11 DEF CloseFailed, ClosePane
<1>12. ASSUME NEW s \in Sessions, CleanWorktree(s) PROVE NamesHold'
  <2>1. UNCHANGED <<row, pane, tear>> /\ launch'[s] = "failed"
    BY <1>0, <1>12 DEF CleanWorktree
  <2>2. CASE checkout' = checkout
    BY <1>0, <2>1, <2>2
  <2>3. CASE row[s].name \in Names /\ checkout' = [checkout EXCEPT ![row[s].name] = NoOne]
    <3>1. s \in Tasks
      BY <2>3
    <3>2. NameGivenUp(row[s].name)'
      BY <2>1, <2>3, <3>1 DEF NameGivenUp, GaveUp
    <3> DEFINE c == row[s].name
    <3>3. \A n \in Names : n # c => checkout'[n] = checkout[n]
      BY <2>3
    <3>4. ASSUME NEW t \in Tasks, NEW n \in Names PROVE NameHolds(t, n)'
      BY <1>0, <2>1, <3>2, <3>3, <3>4
    <3>5. QED BY <3>4
  <2>4. QED BY <1>12, <2>2, <2>3 DEF CleanWorktree, Destroy
<1>13. ASSUME NEW s \in Sessions, Register(s) PROVE NamesHold'
  BY <1>0, <1>13 DEF Register
<1>14. ASSUME NEW s \in Sessions, AgentReports(s) PROVE NamesHold'
  BY <1>0, <1>14 DEF AgentReports
<1>15. ASSUME NEW s \in Sessions, AgentDies(s) PROVE NamesHold'
  BY <1>0, <1>15 DEF AgentDies
<1>16. ASSUME NEW t \in Tasks, AddWorktree(t) PROVE NamesHold'
  BY <1>0, <1>16 DEF AddWorktree, AddsWorktree, NoWorktree, Free
<1>17. ASSUME NEW t \in Tasks, NoNameLeft(t) PROVE NamesHold'
  BY <1>0, <1>17 DEF NoNameLeft
<1>18. ASSUME NEW t \in Tasks, Teardown(t) PROVE NamesHold'
  BY <1>0, <1>18 DEF Teardown
<1>19. ASSUME NEW t \in Tasks, TeardownClose(t) PROVE NamesHold'
  BY <1>0, <1>19 DEF TeardownClose, ClosePane
<1>20. ASSUME NEW t \in Tasks, TeardownDestroy(t) PROVE NamesHold'
  <2>1. PICK st \in {"stopped", "failed"} : row' = Finished(t, st)
    BY <1>0, <1>20 DEF TeardownDestroy
  <2>2. \A k \in Sessions : row'[k].name = row[k].name /\ row'[k].pane = row[k].pane
    BY <2>1, FinishedDoes
  <2>3. /\ tear[t] = "destroy" /\ tear' = [tear EXCEPT ![t] = "idle"]
        /\ UNCHANGED <<pane, launch>>
    BY <1>0, <1>20 DEF TeardownDestroy
  <2>4. CASE checkout' = checkout
    BY <1>0, <2>2, <2>3, <2>4
  <2>5. CASE row[t].name \in Names /\ checkout' = [checkout EXCEPT ![row[t].name] = NoOne]
    <3>0. PICK c \in Names : c = row[t].name
      BY <2>5
    <3>1. NameHolds(t, c)
      BY <3>0
    <3>2. checkout[c] = t \/ NameGivenUp(c)
      BY <2>3, <3>0, <3>1
    <3>3. CASE ~row[t].pane
      <4>1. row'[t].state \in Terminal
        BY <2>1, FinishedDoes
      <4>2. GaveUp(t, c)'
        BY <2>2, <3>0, <3>3, <4>1 DEF GaveUp
      <4>3. NameGivenUp(c)'
        BY <4>2 DEF NameGivenUp
      <4>4. \A n \in Names : checkout'[n] = checkout[n] \/ n = c
        BY <2>5, <3>0
      <4>5. ASSUME NEW u \in Tasks, NEW n \in Names PROVE NameHolds(u, n)'
        BY <1>0, <2>2, <2>3, <3>0, <4>3, <4>4
      <4>6. QED BY <4>5
    <3>4. CASE row[t].pane
      <4>1. pane[t] = "closed"
        BY <2>3, <3>0, <3>4
      <4>2. \A n \in Names : checkout'[n] = checkout[n] \/ n = c
        BY <2>5, <3>0
      <4>3. ASSUME NEW u \in Tasks, NEW n \in Names PROVE NameHolds(u, n)'
        BY <1>0, <2>2, <2>3, <3>0, <3>2, <3>4, <4>1, <4>2, <4>3
      <4>4. QED BY <4>3
    <3>5. QED BY <3>3, <3>4
  <2>6. QED BY <1>20, <2>4, <2>5 DEF TeardownDestroy, Destroy, Present, HasCheckout
<1>21. ASSUME NEW m \in Pms, PollPicks(m) PROVE NamesHold'
  BY <1>0, <1>21 DEF PollPicks, Retirable
<1>22. ASSUME NEW m \in Pms, PollLocks(m) PROVE NamesHold'
  BY <1>0, <1>22 DEF PollLocks, Recheck, Retirable
<1>23. ASSUME NEW m \in Pms, StopSession(m) PROVE NamesHold'
  BY <1>0, <1>23 DEF StopSession, ClosePane, Finished
<1>24. ASSUME NEW m \in Pms, Age(m) PROVE NamesHold'
  BY <1>0, <1>24 DEF Age
<1>25. CASE UNCHANGED vars
  BY <1>0, <1>25 DEF vars
<1>26. QED BY <1>1, <1>2, <1>3, <1>4, <1>5, <1>6, <1>7, <1>8, <1>9, <1>10,
        <1>11, <1>12, <1>13, <1>14, <1>15, <1>16, <1>17, <1>18, <1>19, <1>20,
        <1>21, <1>22, <1>23, <1>24, <1>25, <1>cut DEF Next, LaunchStep

\* Work begins in a checkout that is there, and ends with it.
LEMMA WorkNext ==
    ASSUME Types, LockFits, RowsFit, WorkIsSomewhere, [Next]_vars
    PROVE  WorkIsSomewhere'
<1> USE FleetAssumption DEF Goto, Unlock, GotoT, Fails, NoFault, remote,
        Sessions, Rows, RowsTyped, LocalsTyped, RemoteTyped, Types, Locked,
        Steps, Building, Failing, Joining, Live, Terminal, NoName, IsLive,
        LockFits, RowsFit, RowFits, WorkIsSomewhere, Unworked, HasCheckout
<1>1. CASE EnsurePm
  BY <1>1 DEF EnsurePm, Manager
<1>2. CASE LaunchTask
  BY <1>2 DEF LaunchTask
<1>3. CASE SendToPm
  BY <1>3 DEF SendToPm, Manager, Prompted
<1>4. CASE Crash
  BY <1>4 DEF Crash, CutsIn
<1>5. ASSUME NEW s \in Sessions, CreateWorkspace(s) PROVE WorkIsSomewhere'
  BY <1>5 DEF CreateWorkspace
<1>cut. ASSUME NEW s \in Sessions, CutOff(s) PROVE WorkIsSomewhere'
  BY <1>cut DEF CutOff, CutsIn, Inserted
<1>6. ASSUME NEW s \in Sessions, WriteFiles(s) PROVE WorkIsSomewhere'
  BY <1>6 DEF WriteFiles
<1>7. ASSUME NEW s \in Sessions, PaneRun(s) PROVE WorkIsSomewhere'
  <2>1. /\ row' = row /\ checkout' = checkout
        /\ worked' \subseteq worked \cup ({row[s].name} \cap HasCheckout)
    BY <1>7 DEF PaneRun, RunsAgent
  <2>2. \A x \in Sessions : launch'[x] \notin Unworked
    BY <1>7 DEF PaneRun
  <2>3. QED BY <2>1, <2>2
<1>8. ASSUME NEW s \in Sessions, Report(s) PROVE WorkIsSomewhere'
  BY <1>8 DEF Report
<1>9. ASSUME NEW s \in Sessions, WaitForBridge(s) PROVE WorkIsSomewhere'
  BY <1>9 DEF WaitForBridge, AfterWait, Reparented, Prompted
<1>10. ASSUME NEW s \in Sessions, GiveUp(s) PROVE WorkIsSomewhere'
  BY <1>10 DEF GiveUp, Finished
<1>11. ASSUME NEW s \in Sessions, CloseFailed(s) PROVE WorkIsSomewhere'
  BY <1>11 DEF CloseFailed, ClosePane
<1>12. ASSUME NEW s \in Sessions, CleanWorktree(s) PROVE WorkIsSomewhere'
  <2>1. \A x \in Sessions : launch'[x] \notin Unworked
    BY <1>12 DEF CleanWorktree
  <2>2. \/ checkout' = checkout /\ worked' = worked
        \/ \E n \in Names : /\ checkout' = [checkout EXCEPT ![n] = NoOne]
                            /\ worked' = worked \ {n}
    BY <1>12 DEF CleanWorktree, Destroy
  <2>3. QED BY <2>1, <2>2
<1>13. ASSUME NEW s \in Sessions, Register(s) PROVE WorkIsSomewhere'
  BY <1>13 DEF Register
<1>14. ASSUME NEW s \in Sessions, AgentReports(s) PROVE WorkIsSomewhere'
  BY <1>14 DEF AgentReports
<1>15. ASSUME NEW s \in Sessions, AgentDies(s) PROVE WorkIsSomewhere'
  BY <1>15 DEF AgentDies
<1>16. ASSUME NEW t \in Tasks, AddWorktree(t) PROVE WorkIsSomewhere'
  BY <1>16 DEF AddWorktree, AddsWorktree, NoWorktree, Free
<1>17. ASSUME NEW t \in Tasks, NoNameLeft(t) PROVE WorkIsSomewhere'
  BY <1>17 DEF NoNameLeft
<1>18. ASSUME NEW t \in Tasks, Teardown(t) PROVE WorkIsSomewhere'
  BY <1>18 DEF Teardown
<1>19. ASSUME NEW t \in Tasks, TeardownClose(t) PROVE WorkIsSomewhere'
  BY <1>19 DEF TeardownClose, ClosePane
<1>20. ASSUME NEW t \in Tasks, TeardownDestroy(t) PROVE WorkIsSomewhere'
  BY <1>20 DEF TeardownDestroy, Destroy, Finished, Present
<1>21. ASSUME NEW m \in Pms, PollPicks(m) PROVE WorkIsSomewhere'
  BY <1>21 DEF PollPicks, Retirable
<1>22. ASSUME NEW m \in Pms, PollLocks(m) PROVE WorkIsSomewhere'
  BY <1>22 DEF PollLocks, Recheck, Retirable
<1>23. ASSUME NEW m \in Pms, StopSession(m) PROVE WorkIsSomewhere'
  BY <1>23 DEF StopSession, ClosePane, Finished
<1>24. ASSUME NEW m \in Pms, Age(m) PROVE WorkIsSomewhere'
  BY <1>24 DEF Age
<1>25. CASE UNCHANGED vars
  BY <1>25 DEF vars
<1>26. QED BY <1>1, <1>2, <1>3, <1>4, <1>5, <1>6, <1>7, <1>8, <1>9, <1>10,
        <1>11, <1>12, <1>13, <1>14, <1>15, <1>16, <1>17, <1>18, <1>19, <1>20,
        <1>21, <1>22, <1>23, <1>24, <1>25, <1>cut DEF Next, LaunchStep

----------------------------------------------------------------------------
(* The invariant holds.                                                      *)

LEMMA InitIInv == Init => IInv
<1> SUFFICES ASSUME Init PROVE IInv
  OBVIOUS
<1> USE FleetAssumption DEF Init, Sessions, NoRow, NoName
<1>1. Types
  BY DEF Types, RowsTyped, Rows, LocalsTyped, RemoteTyped, Steps
<1>2. LockFits
  BY DEF LockFits, Locked, Building, Joining, Failing
<1>3. RowsFit
  BY DEF RowsFit, RowFits, IsLive, Live, Building, Failing
<1>4. OneLive /\ RetiringIdle
  BY DEF OneLive, RetiringIdle, IsLive, Live
<1>5. TasksOwned /\ TornInOrder
  BY DEF TasksOwned, Owned, TornInOrder, IsLive, Live, Building
<1>6. NamesHold
  BY DEF NamesHold, NameHolds
<1>7. WorkIsSomewhere
  BY DEF WorkIsSomewhere, Unworked
<1>8. QED BY <1>1, <1>2, <1>3, <1>4, <1>5, <1>6, <1>7 DEF IInv

LEMMA NextIInv == IInv /\ [Next]_vars => IInv'
<1> SUFFICES ASSUME IInv, [Next]_vars PROVE IInv'
  OBVIOUS
<1>1. Types'
  BY RowsNext, LocalsNext, RemoteNext DEF IInv, Types
<1>2. LockFits' /\ RowsFit' /\ OneLive' /\ RetiringIdle'
  BY LockNext, RowsFitNext, OneLiveNext, RetiringNext DEF IInv, Types
<1>3. TasksOwned' /\ TornInOrder'
  BY OwnedNext, TornNext DEF IInv
<1>4. NamesHold' /\ WorkIsSomewhere'
  BY NamesNext, WorkNext DEF IInv
<1>5. QED BY <1>1, <1>2, <1>3, <1>4 DEF IInv

LEMMA Invariance == Spec => []IInv
  BY InitIInv, NextIInv, PTL DEF Spec

----------------------------------------------------------------------------
(* The theorems.                                                             *)

\* Every variable has its type in every reachable state.
THEOREM TypeCorrect == Spec => []TypeOK
<1>1. IInv => TypeOK
  BY DEF IInv, Types, RowsTyped, Rows, LocalsTyped, RemoteTyped, TypeOK
<1>2. QED BY <1>1, Invariance, PTL

\* What runs under a project's lock in orchestration.py excludes one another: a
\* session is at a locked step exactly while it holds the lock, so that no two
\* sessions are, and the lock is never held by one that has nothing to do.
THEOREM LockSerializes == Spec => []LockFits
<1>1. IInv => LockFits
  BY DEF IInv
<1>2. QED BY <1>1, Invariance, PTL

\* However a set is made, one without two different members counts to one.
LEMMA AtMostOne ==
    ASSUME NEW S, \A x, y \in S : x = y
    PROVE  Cardinality(S) <= 1
<1>1. CASE S = {}
  BY <1>1, FS_EmptySet
<1>2. CASE S # {}
  <2>1. PICK x \in S : S = {x}
    BY <1>2
  <2>2. QED BY <2>1, FS_Singleton
<1>3. QED BY <1>1, <1>2

\* _ensure_pm never makes a second manager next to one that is not finished,
\* with any number of sessions, failed calls and restarts.
THEOREM ManagerIsOne == Spec => []OneManager
<1>1. IInv => OneManager
  BY AtMostOne DEF IInv, OneLive, OneManager
<1>2. QED BY <1>1, Invariance, PTL

\* poll retires a manager only while it has no live task and no prompt.
THEOREM RetiredWasIdle == Spec => []RetiresOnlyIdle
<1>1. IInv => RetiresOnlyIdle
  BY DEF IInv, RetiringIdle, RetiresOnlyIdle
<1>2. QED BY <1>1, Invariance, PTL

\* Unless the control process restarts, the manager of a free project owns
\* every live task: a launch that is over has taken over its predecessors'.
THEOREM TasksAreInherited == Spec => []TasksHaveManager
<1>1. ASSUME IInv, NEW m \in Pms, NEW t \in Tasks,
             lock = NoOne, IsLive(m), IsLive(t), cuts = 0
      PROVE  row[t].parent = m
  <2>1. launch[m] \notin Joining
    BY <1>1, FleetAssumption DEF IInv, LockFits, Locked, Sessions
  <2>2. QED BY <1>1, <2>1 DEF IInv, TasksOwned, Owned
<1>2. IInv => TasksHaveManager
  BY <1>1 DEF TasksHaveManager
<1>3. QED BY <1>2, Invariance, PTL

\* A launch that reported an error has left a finished row.
THEOREM FailureIsFinished == Spec => []FailedLaunchIsFinished
<1>1. IInv => FailedLaunchIsFinished
  BY DEF IInv, RowsFit, RowFits, FailedLaunchIsFinished, Failing
<1>2. QED BY <1>1, Invariance, PTL

\* The invariant that the run checks, of every project.
THEOREM ProjectStaysConsistent == Spec => []ProjectConsistent
  BY TypeCorrect, ManagerIsOne, RetiredWasIdle, TasksAreInherited, FailureIsFinished, PTL
     DEF ProjectConsistent

\* A checkout in which an agent may have worked is removed only by a teardown,
\* of a task whose agent's pane is closed: teardown_task and the two cleanups
\* of a failed launch.
LEMMA WorkStep ==
    ASSUME IInv, [Next]_vars, NEW n \in Names, n \in worked, n \notin worked'
    PROVE  \E t \in Tasks :
              /\ tear[t] = "destroy" /\ row[t].name = n /\ t \notin agent
              /\ checkout[n] = t \/ NameGivenUp(n)
<1>1. \A s \in Sessions : launch[s] \in Unworked => row[s].name # n
  BY DEF IInv, WorkIsSomewhere
<1>2. PICK t \in Tasks : tear[t] = "destroy" /\ row[t].name = n
  <2>1. ASSUME NEW s \in Sessions, CleanWorktree(s) PROVE FALSE
    BY <1>1, <2>1 DEF CleanWorktree, Destroy, Unworked
  <2>2. ASSUME NEW s \in Sessions, PaneRun(s) PROVE FALSE
    BY <2>2 DEF PaneRun, RunsAgent
  <2>3. ASSUME NEW t \in Tasks, TeardownDestroy(t)
        PROVE  tear[t] = "destroy" /\ row[t].name = n
    BY <2>3 DEF TeardownDestroy, Destroy
  <2>4. \/ UNCHANGED worked
        \/ \E s \in Sessions : CleanWorktree(s) \/ PaneRun(s)
        \/ \E t \in Tasks : TeardownDestroy(t)
    BY DEF Next, LaunchStep, vars, remote, EnsurePm, LaunchTask, SendToPm, Crash,
           CreateWorkspace, WriteFiles, Report, WaitForBridge, GiveUp, CloseFailed,
           AddWorktree, NoNameLeft, Register, AgentReports, AgentDies, Teardown,
           TeardownClose, PollPicks, PollLocks, StopSession, Age, CutOff
  <2>5. QED BY <2>1, <2>2, <2>3, <2>4
<1>3. checkout[n] = t \/ NameGivenUp(n)
  BY <1>2 DEF IInv, NamesHold, NameHolds
<1>4. t \notin agent
  BY <1>2 DEF IInv, TornInOrder, RowsFit, RowFits, Sessions
<1>5. QED BY <1>2, <1>3, <1>4

\* No work of an agent is lost but in a teardown of a task by that name with its
\* own pane closed, and, unless the name was given up, of the task itself.
THEOREM WorkIsPreserved == Spec => WorkPreserved
<1>1. IInv /\ [Next]_vars =>
        [\A n \in Names :
           n \in worked /\ n \notin worked' =>
             \E t \in Tasks :
                 /\ tear[t] = "destroy" /\ row[t].name = n /\ t \notin agent
                 /\ checkout[n] = t \/ NameGivenUp(n)]_vars
  BY WorkStep
<1>2. QED BY <1>1, Invariance, PTL DEF Spec, WorkPreserved
=============================================================================
