--------------------------- MODULE JobQueueProofs ---------------------------
(***************************************************************************)
(* Proofs about JobQueue, for every number of workers, GPUs, jobs, tasks   *)
(* and faults: every variable keeps its type, GPU reservations are         *)
(* exclusive, finished rows are final, the queue implements                *)
(* GpuReservation and orders its pending jobs, and, if no launch arrives   *)
(* after its client was given up, the sessions on the workers agree with   *)
(* the rows.                                                               *)
(*                                                                         *)
(* The argument: a task that works on an active row holds the dispatch     *)
(* lock of the row's worker, and the copy of the row it will write with    *)
(* update_job has the worker and the GPUs of the stored one.  So two tasks *)
(* never work on one row, and a step changes only rows that are absent,    *)
(* pending, or owned by the task that takes it (RowStep).                  *)
(***************************************************************************)
EXTENDS JobQueue, FiniteSetTheorems, TLAPS

-----------------------------------------------------------------------------
(* Facts about the operators of the model.                                 *)

\* The null values have their types.
LEMMA NullTypes == /\ NoRow \in Row
                   /\ NoLocals \in Locals
                   /\ NoSession \in Session
                   /\ NoSnapshot \in [Workers -> SUBSET GpuIds]
<1>1. AnyWorker \in Workers /\ AnyJob \in JobIds
  BY JobQueueAssumption DEF AnyWorker, AnyJob
<1>2. NoRow \in Row
  BY <1>1 DEF NoRow, Row, Statuses
<1>3. NoSnapshot \in [Workers -> SUBSET GpuIds]
  BY DEF NoSnapshot
<1>4. NoLocals \in Locals
  BY <1>1, <1>2, <1>3 DEF NoLocals, Locals
<1>5. QED
  BY <1>2, <1>3, <1>4 DEF NoSession, Session, SessionStates

\* Assigning to a field of a row or of the local variables keeps the type.
LEMMA RowStatus == \A r \in Row, s \in Statuses : [r EXCEPT !.status = s] \in Row
  BY DEF Row

LEMMA RowClaim ==
    \A r \in Row, G \in SUBSET GpuIds, c \in Nat :
        [r EXCEPT !.status = "starting", !.gpus = G, !.started = c] \in Row
  BY DEF Row, Statuses

LEMMA LocalsWorker == \A l \in Locals, w \in Workers : [l EXCEPT !.w = w] \in Locals
  BY DEF Locals

LEMMA LocalsRow == \A l \in Locals, r \in Row : [l EXCEPT !.row = r] \in Locals
  BY DEF Locals

LEMMA LocalsTook == \A l \in Locals, b \in BOOLEAN : [l EXCEPT !.took = b] \in Locals
  BY Zenon DEF Locals

LEMMA LocalsAssigned ==
    \A l \in Locals, j \in JobIds, G \in SUBSET GpuIds :
        [l EXCEPT !.j = j, !.gpus = G] \in Locals
  BY DEF Locals

LEMMA LocalsClaimed ==
    \A l \in Locals, r \in Row, b \in BOOLEAN :
        [l EXCEPT !.row = r, !.took = b] \in Locals
  BY DEF Locals

\* The fields of the local variables of a task.
LEMMA LocalsFields ==
    ASSUME TypeOK, NEW t \in Tasks
    PROVE  /\ loc[t] \in Locals
           /\ loc[t].w \in Workers /\ loc[t].j \in JobIds /\ loc[t].row \in Row
           /\ loc[t].gpus \in SUBSET GpuIds /\ loc[t].row.gpus \in SUBSET GpuIds
           /\ loc[t].avail \in [Workers -> SUBSET GpuIds]
           /\ loc[t].disp \in SUBSET Workers
           /\ jobs[loc[t].j] \in Row
<1>1. loc[t] \in Locals
  BY DEF TypeOK
<1>2. /\ loc[t].w \in Workers /\ loc[t].j \in JobIds /\ loc[t].row \in Row
      /\ loc[t].gpus \in SUBSET GpuIds
      /\ loc[t].avail \in [Workers -> SUBSET GpuIds]
      /\ loc[t].disp \in SUBSET Workers
  BY <1>1 DEF Locals
<1>3. loc[t].row.gpus \in SUBSET GpuIds
  BY <1>2 DEF Row
<1>4. QED
  BY <1>1, <1>2, <1>3 DEF TypeOK

\* A rank is a natural number.
LEMMA RankType ==
    ASSUME NEW S \in SUBSET JobIds, NEW j
    PROVE  Rank(S, j) \in Nat
<1>1. IsFiniteSet({i \in S : Before(i, j)})
  BY JobQueueAssumption, FS_Subset
<1>2. QED
  BY <1>1, FS_CardinalityType DEF Rank

\* Renumbering and moving keep the type of the rows.
LEMMA CloseType ==
    ASSUME jobs \in [JobIds -> Row], NEW w \in Workers, NEW j \in JobIds
    PROVE  Close(w, j) \in [JobIds -> Row]
<1>1. Pending(w) \in SUBSET JobIds
  BY DEF Pending
<1>2. \A i \in JobIds : Rank(Pending(w) \ {j}, i) \in Nat
  BY <1>1, RankType
<1>3. QED
  BY <1>2 DEF Close, Row

LEMMA MovedType ==
    ASSUME jobs \in [JobIds -> Row], NEW w \in Workers, NEW j \in JobIds,
           NEW n \in Nat, NEW pos \in Nat
    PROVE  Moved(j, w, n, pos) \in [JobIds -> Row]
<1> DEFINE src == jobs[j].worker
           others == Pending(w) \ {j}
           last == Cardinality(others) + 1
           at == IF pos # 0 THEN (IF pos < last THEN pos ELSE last)
                 ELSE IF w = src THEN Rank(Pending(src), j) ELSE last
           Shifted(r) == IF r < at THEN r ELSE r + 1
<1>1. Pending(w) \in SUBSET JobIds /\ Pending(src) \in SUBSET JobIds
  BY DEF Pending
<1>2. last \in Nat
  BY <1>1, JobQueueAssumption, FS_Subset, FS_CardinalityType
<1>3. at \in Nat
  BY <1>1, <1>2, RankType
<1>4. \A i \in JobIds : Shifted(Rank(others, i)) \in Nat
  BY <1>1, <1>3, RankType
<1>5. src \in Workers
  BY DEF Row
<1>6. Close(src, j) \in [JobIds -> Row]
  BY <1>5, CloseType
<1>7. Moved(j, w, n, pos) =
        [i \in JobIds |->
            IF i = j THEN [jobs[j] EXCEPT !.worker = w, !.need = n, !.order = at]
            ELSE IF i \in others
                 THEN [jobs[i] EXCEPT !.order = Shifted(Rank(others, i))]
                 ELSE IF w # src THEN Close(src, j)[i] ELSE jobs[i]]
  BY DEF Moved
<1> HIDE DEF src, others, last, at, Shifted
<1>8. [jobs[j] EXCEPT !.worker = w, !.need = n, !.order = at] \in Row
  BY <1>3 DEF Row
<1>9. \A i \in JobIds : [jobs[i] EXCEPT !.order = Shifted(Rank(others, i))] \in Row
  BY <1>4 DEF Row
<1>10. QED
  BY <1>6, <1>7, <1>8, <1>9

LEMMA RequeuedType ==
    ASSUME jobs \in [JobIds -> Row], NEW j \in JobIds
    PROVE  Requeued(j) \in [JobIds -> Row]
<1>1. [jobs[j] EXCEPT !.status = "pending", !.gpus = {}, !.started = 0, !.order = 1] \in Row
  BY DEF Row, Statuses
<1>2. \A i \in JobIds : [jobs[i] EXCEPT !.order = @ + 1] \in Row
  BY DEF Row
<1>3. [jobs EXCEPT ![j].status = "failed"] \in [JobIds -> Row]
  BY DEF Row, Statuses
<1>4. QED
  BY <1>1, <1>2, <1>3 DEF Requeued

\* A snapshot of the workers table shows GPUs.
LEMMA SnapshotType ==
    ASSUME idle \in [Workers -> SUBSET GpuIds], NEW S
    PROVE  Snapshot(S) \in [Workers -> SUBSET GpuIds]
  BY DEF Snapshot

-----------------------------------------------------------------------------
(* Type correctness.                                                       *)

\* Leaving a dispatch keeps the types of the control state.
LEMMA ContinueType ==
    ASSUME TypeOK, NEW t \in Tasks, NEW d \in SUBSET Workers, Continue(t, d)
    PROVE  /\ pc' \in [Tasks -> Waiting \cup Holding]
           /\ loc' \in [Tasks -> Locals]
<1>1. [NoLocals EXCEPT !.avail = loc[t].avail, !.disp = d] \in Locals
  BY NullTypes DEF TypeOK, Locals
<1>2. QED
  BY <1>1, NullTypes DEF TypeOK, Continue, Waiting

LEMMA LeaveType ==
    ASSUME TypeOK, NEW t \in Tasks, NEW d \in SUBSET Workers, Leave(t, d)
    PROVE  /\ pc' \in [Tasks -> Waiting \cup Holding]
           /\ loc' \in [Tasks -> Locals]
           /\ lock' \in [Workers -> Tasks \cup {NoTask}]
  BY ContinueType DEF Leave, Unlock, TypeOK

LEMMA AfterLaunchType ==
    ASSUME TypeOK, NEW t \in Tasks, AfterLaunch(t)
    PROVE  /\ pc' \in [Tasks -> Waiting \cup Holding]
           /\ loc' \in [Tasks -> Locals]
           /\ lock' \in [Workers -> Tasks \cup {NoTask}]
<1>1. CASE loc[t].row.managed
  BY <1>1 DEF AfterLaunch, Goto, TypeOK, Holding
<1>2. CASE ~loc[t].row.managed
  BY <1>2, LeaveType DEF AfterLaunch
<1>3. QED
  BY <1>1, <1>2

LEMMA AbandonType ==
    ASSUME TypeOK, NEW T \in SUBSET Tasks, Abandon(T)
    PROVE  late' \in SUBSET [w : Workers, j : JobIds, gpus : SUBSET GpuIds]
<1>1. \A t \in Tasks : /\ loc[t].w \in Workers /\ loc[t].j \in JobIds
                       /\ loc[t].row.gpus \in SUBSET GpuIds
  BY DEF TypeOK, Locals, Row
<1>2. Orphans(T) \subseteq [w : Workers, j : JobIds, gpus : SUBSET GpuIds]
  BY <1>1 DEF Orphans
<1>3. QED
  BY <1>2 DEF Abandon, TypeOK

LEMMA InitType == Init => TypeOK
  BY NullTypes, JobQueueAssumption DEF Init, TypeOK, Waiting, GpuIds

LEMMA DispatchType ==
    ASSUME TypeOK, NEW t \in Tasks,
           DispatchBegin(t) \/ Scan(t) \/ Claim(t)
    PROVE  TypeOK'
<1>1. CASE DispatchBegin(t)
  <2>1. PICK w \in loc[t].disp : /\ lock' = [lock EXCEPT ![w] = t]
                                 /\ loc' = [loc EXCEPT ![t].w = w]
    BY <1>1 DEF DispatchBegin
  <2>2. w \in Workers
    BY LocalsFields
  <2>3. loc' \in [Tasks -> Locals]
    BY <2>1, <2>2, LocalsFields, LocalsWorker DEF TypeOK
  <2>4. QED
    BY <1>1, <2>1, <2>3 DEF DispatchBegin, TypeOK, Goto, Holding, workerVars, passVars, remoteVars
<1>2. CASE Scan(t)
  <2> DEFINE w == loc[t].w
             free == loc[t].avail[w] \ ClaimedGpus(w)
  <2>1. free \in SUBSET GpuIds /\ loc[t].disp \ {w} \in SUBSET Workers
    BY LocalsFields
  <2>2. CASE \E j \in JobIds :
                /\ loc' = [loc EXCEPT ![t].j = j, ![t].gpus = Lowest(free, jobs[j].need)]
                /\ Goto(t, "claim")
                /\ UNCHANGED lock
    <3>1. PICK j \in JobIds :
                /\ loc' = [loc EXCEPT ![t].j = j, ![t].gpus = Lowest(free, jobs[j].need)]
                /\ Goto(t, "claim")
                /\ UNCHANGED lock
      BY <2>2
    <3>2. Lowest(free, jobs[j].need) \in SUBSET GpuIds
      BY <2>1 DEF Lowest
    <3> HIDE DEF free
    <3>3. loc' \in [Tasks -> Locals]
      BY <3>1, <3>2, LocalsFields, LocalsAssigned DEF TypeOK
    <3>4. QED
      BY <1>2, <3>1, <3>3 DEF Scan, TypeOK, Goto, Holding, workerVars, passVars, remoteVars
  <2>3. CASE Leave(t, loc[t].disp \ {w})
    BY <1>2, <2>1, <2>3, LeaveType DEF Scan, TypeOK, workerVars, passVars, remoteVars
  <2>4. QED
    BY <1>2, <2>2, <2>3 DEF Scan
<1>3. CASE Claim(t)
  <2> DEFINE j == loc[t].j
             row == [jobs[j] EXCEPT !.status = "starting", !.gpus = loc[t].gpus,
                                    !.started = clock]
             l == [loc[t] EXCEPT !.row = row, !.took = FALSE]
  <2>1. row \in Row /\ j \in JobIds
    BY LocalsFields, RowClaim DEF TypeOK
  <2>2. l \in Locals
    BY <2>1, LocalsFields, LocalsClaimed
  <2>3. \/ jobs' = [jobs EXCEPT ![j] = row] /\ loc' = [loc EXCEPT ![t] = l]
        \/ UNCHANGED <<jobs, loc>>
    BY <1>3 DEF Claim, TypeOK
  <2> HIDE DEF row, l, j
  <2>4. jobs' \in [JobIds -> Row]
    BY <2>1, <2>3 DEF TypeOK
  <2>5. loc' \in [Tasks -> Locals]
    BY <2>2, <2>3 DEF TypeOK
  <2>6. QED
    BY <1>3, <2>4, <2>5 DEF Claim, TypeOK, Goto, Holding, workerVars, passVars, remoteVars
<1>4. QED
  BY <1>1, <1>2, <1>3

LEMMA LaunchType ==
    ASSUME TypeOK, NEW t \in Tasks,
           \/ LaunchEffect(t) \/ LaunchAnswer(t) \/ LaunchWrite(t)
           \/ LaunchUnknown(t) \/ StartInsert(t)
    PROVE  TypeOK'
<1>0. /\ loc[t].w \in Workers /\ loc[t].j \in JobIds
      /\ loc[t].row \in Row /\ loc[t].row.gpus \in SUBSET GpuIds
  BY LocalsFields
<1>1. CASE LaunchEffect(t)
  <2>1. loc' \in [Tasks -> Locals]
    BY <1>1, LocalsFields, LocalsTook DEF LaunchEffect, TypeOK
  <2>2. remote' \in [Workers -> [JobIds -> Session]]
    BY <1>0, <1>1 DEF LaunchEffect, TypeOK, Session, SessionStates
  <2>3. QED
    BY <1>1, <2>1, <2>2 DEF LaunchEffect, TypeOK, workerVars, passVars
<1>2. CASE LaunchAnswer(t)
  <2>1. loc' \in [Tasks -> Locals]
    <3>1. \E s \in Statuses : loc' = [loc EXCEPT ![t].row = [@ EXCEPT !.status = s]]
      BY <1>2 DEF LaunchAnswer, Statuses
    <3>2. QED
      BY <3>1, LocalsFields, RowStatus, LocalsRow DEF TypeOK
  <2>2. QED
    BY <1>2, <2>1 DEF LaunchAnswer, TypeOK, Goto, Holding, workerVars, passVars, remoteVars
<1>3. CASE LaunchWrite(t)
  <2>1. jobs' \in [JobIds -> Row]
    BY <1>0, <1>3 DEF LaunchWrite, TypeOK
  <2>2. QED
    BY <1>3, <2>1, AfterLaunchType DEF LaunchWrite, TypeOK, workerVars, passVars, remoteVars
<1>4. CASE LaunchUnknown(t)
  <2>1. late' \in SUBSET [w : Workers, j : JobIds, gpus : SUBSET GpuIds]
    BY <1>4, AbandonType DEF LaunchUnknown
  <2>2. QED
    BY <1>4, <2>1, AfterLaunchType DEF LaunchUnknown, Fault, TypeOK, workerVars, passVars
<1>5. CASE StartInsert(t)
  <2>1. jobs' \in [JobIds -> Row]
    BY <1>0, <1>5 DEF StartInsert, TypeOK
  <2>2. QED
    BY <1>0, <1>5, <2>1 DEF StartInsert, Lock, Goto, TypeOK, Holding, workerVars, passVars, remoteVars
<1>6. QED
  BY <1>1, <1>2, <1>3, <1>4, <1>5

\* A request leaves the tables alone but for the new row, and starts a handler
\* with well-typed local variables.
LEMMA RequestLocals ==
    ASSUME NEW w \in Workers, NEW j \in JobIds, NEW r \in Row,
           NEW a \in [Workers -> SUBSET GpuIds], NEW d \in SUBSET Workers
    PROVE  /\ [NoLocals EXCEPT !.avail = a, !.disp = d] \in Locals
           /\ [NoLocals EXCEPT !.w = w, !.j = j] \in Locals
           /\ [NoLocals EXCEPT !.w = w, !.j = j, !.row = r] \in Locals
           /\ [NoLocals EXCEPT !.w = w, !.j = j, !.avail = a] \in Locals
           /\ [NoLocals EXCEPT !.w = w, !.j = j, !.avail = a, !.disp = d] \in Locals
<1>1. [NoLocals EXCEPT !.avail = a, !.disp = d] \in Locals
  BY NullTypes DEF Locals
<1>2. [NoLocals EXCEPT !.w = w, !.j = j] \in Locals
  BY NullTypes DEF Locals
<1>3. [NoLocals EXCEPT !.w = w, !.j = j, !.row = r] \in Locals
  BY NullTypes DEF Locals
<1>4. [NoLocals EXCEPT !.w = w, !.j = j, !.avail = a] \in Locals
  BY NullTypes DEF Locals
<1>5. [NoLocals EXCEPT !.w = w, !.j = j, !.avail = a, !.disp = d] \in Locals
  BY NullTypes DEF Locals
<1>6. QED
  BY <1>1, <1>2, <1>3, <1>4, <1>5

\* The row insert_queued_job stores.
LEMMA QueuedRow ==
    ASSUME NEW w \in Workers, NEW n \in Nat, NEW m \in Nat
    PROVE  [NoRow EXCEPT !.worker = w, !.status = "pending", !.managed = TRUE,
                         !.need = n, !.order = m] \in Row
<1>1. \A r \in Row, b \in BOOLEAN :
        [r EXCEPT !.worker = w, !.status = "pending", !.managed = b,
                  !.need = n, !.order = m] \in Row
  BY DEF Row, Statuses
<1>2. QED
  BY <1>1, NullTypes

LEMMA RequestType ==
    ASSUME TypeOK, NEW h \in Handlers, Request(h)
    PROVE  TypeOK'
<1>0. h \in Tasks /\ \A j \in JobIds : jobs[j] \in Row /\ jobs[j].worker \in Workers
  BY DEF Tasks, TypeOK, Row
<1>1. ASSUME NEW w \in Workers, NEW j \in JobIds, NEW n \in Needs, Enqueue(h, w, j, n)
      PROVE  TypeOK'
  <2>1. PICK m \in Orders(w) : jobs' = Appended(j, w, n, m)
    BY <1>1 DEF Enqueue
  <2>2. m + 1 \in Nat /\ n \in Nat
    BY <1>0, JobQueueAssumption DEF Orders, Row
  <2>3. [NoRow EXCEPT !.worker = w, !.status = "pending", !.managed = TRUE,
                      !.need = n, !.order = m + 1] \in Row
    BY <2>2, QueuedRow
  <2>4. jobs' \in [JobIds -> Row]
    BY <2>1, <2>3 DEF Appended, TypeOK
  <2>5. loc' \in [Tasks -> Locals]
    BY <1>0, <1>1, RequestLocals, SnapshotType, NullTypes DEF Enqueue, TypeOK
  <2>6. QED
    BY <1>0, <1>1, <2>4, <2>5 DEF Enqueue, Goto, TypeOK, Waiting, workerVars, passVars, remoteVars
<1>2. ASSUME NEW w \in Workers, NEW j \in JobIds, StartJob(h, w, j)
      PROVE  TypeOK'
  <2>1. [NoRow EXCEPT !.worker = w, !.status = "starting", !.started = clock] \in Row
    BY NullTypes DEF Row, Statuses, TypeOK
  <2>2. loc' \in [Tasks -> Locals]
    BY <1>0, <1>2, <2>1, RequestLocals, NullTypes DEF StartJob, TypeOK
  <2>3. QED
    BY <1>0, <1>2, <2>2 DEF StartJob, Goto, TypeOK, Waiting, workerVars, passVars, remoteVars
<1>3. ASSUME NEW j \in JobIds, StopJob(h, j)
      PROVE  TypeOK'
  <2>1. loc' \in [Tasks -> Locals]
    BY <1>0, <1>3, RequestLocals, SnapshotType, NullTypes DEF StopJob, TypeOK
  <2>2. QED
    BY <1>0, <1>3, <2>1 DEF StopJob, Goto, TypeOK, Waiting, workerVars, passVars, remoteVars
<1>4. ASSUME NEW j \in JobIds, PollJob(h, j)
      PROVE  TypeOK'
  <2>1. loc' \in [Tasks -> Locals]
    BY <1>0, <1>4, RequestLocals, NullTypes DEF PollJob, TypeOK
  <2>2. QED
    BY <1>0, <1>4, <2>1 DEF PollJob, Goto, TypeOK, Waiting, workerVars, passVars, remoteVars
<1>5. ASSUME NEW j \in JobIds, NEW w \in Workers, PatchJob(h, j, w)
      PROVE  TypeOK'
  <2>0. {jobs[j].worker, w} \cap registered \in SUBSET Workers
    BY <1>0
  <2>1. loc' \in [Tasks -> Locals]
    BY <1>0, <1>5, <2>0, RequestLocals, SnapshotType, NullTypes DEF PatchJob, TypeOK
  <2>2. QED
    BY <1>0, <1>5, <2>1 DEF PatchJob, Goto, TypeOK, Waiting, workerVars, passVars, remoteVars
<1>6. QED
  BY <1>1, <1>2, <1>3, <1>4, <1>5 DEF Request

LEMMA StopType ==
    ASSUME TypeOK, NEW t \in Tasks,
           \/ StopEnter(t) \/ DropPending(t)
           \/ KillAnswer(t) \/ KillUnknown(t) \/ Settle(t)
    PROVE  TypeOK'
<1> DEFINE w == loc[t].w
           j == loc[t].j
<1>0. w \in Workers /\ j \in JobIds /\ jobs[j] \in Row /\ loc[t].row \in Row
  BY LocalsFields
<1>1. CASE StopEnter(t)
  <2>1. CASE Continue(t, {}) /\ UNCHANGED lock
    BY <1>0, <1>1, <2>1, ContinueType DEF StopEnter, TypeOK, workerVars, passVars, remoteVars
  <2>2. CASE Lock(t) /\ (Goto(t, "kill") \/ Goto(t, "drop")) /\ UNCHANGED loc
    BY <1>0, <1>1, <2>2
    DEF StopEnter, Lock, Goto, TypeOK, Holding, workerVars, passVars, remoteVars
  <2>3. QED
    BY <1>1, <2>1, <2>2 DEF StopEnter
<1>2. CASE DropPending(t)
  <2> DEFINE v == jobs[j].worker
  <2>1. [jobs[j] EXCEPT !.status = "failed", !.order = 0] \in Row /\ v \in Workers
    BY <1>0 DEF Row, Statuses
  <2>2. [Close(v, j) EXCEPT ![j] = [jobs[j] EXCEPT !.status = "failed", !.order = 0]]
           \in [JobIds -> Row]
    BY <1>0, <2>1, CloseType DEF TypeOK
  <2>3. jobs' \in [JobIds -> Row]
    BY <1>2, <2>2 DEF DropPending, TypeOK
  <2>4. QED
    BY <1>0, <1>2, <2>3, LeaveType DEF DropPending, TypeOK, workerVars, passVars, remoteVars
<1>3. Killed(w, j) \in [Workers -> [JobIds -> Session]]
  BY <1>0 DEF Killed, TypeOK, Session, SessionStates
<1>4. CASE KillAnswer(t)
  <2>1. CASE Leave(t, {})
    BY <1>3, <1>4, <2>1, LeaveType DEF KillAnswer, TypeOK, workerVars, passVars
  <2>2. CASE /\ loc' = [loc EXCEPT ![t].row = [jobs[j] EXCEPT !.status = "failed"]]
             /\ Goto(t, "settle")
             /\ UNCHANGED lock
    <3>1. loc' \in [Tasks -> Locals]
      BY <1>0, <2>2, LocalsFields, LocalsRow, RowStatus DEF TypeOK, Statuses
    <3>2. QED
      BY <1>3, <1>4, <2>2, <3>1 DEF KillAnswer, Goto, TypeOK, Holding, workerVars, passVars
  <2>3. QED
    BY <1>4, <2>1, <2>2 DEF KillAnswer
<1>5. CASE KillUnknown(t)
  BY <1>3, <1>5, LeaveType DEF KillUnknown, Fault, TypeOK, workerVars, passVars
<1>6. CASE Settle(t)
  <2>1. jobs' \in [JobIds -> Row]
    BY <1>0, <1>6 DEF Settle, TypeOK
  <2>2. QED
    BY <1>0, <1>6, <2>1, LeaveType DEF Settle, TypeOK, workerVars, passVars, remoteVars
<1>7. QED
  BY <1>1, <1>2, <1>4, <1>5, <1>6

LEMMA RefreshType ==
    ASSUME TypeOK, NEW t \in Tasks,
           RefreshEnter(t) \/ PollNothing(t) \/ PollExit(t)
    PROVE  TypeOK'
<1>0. loc[t].w \in Workers /\ jobs[loc[t].j] \in Row /\ {} \in SUBSET Workers
  BY LocalsFields
<1>1. CASE RefreshEnter(t)
  <2>1. CASE Continue(t, {}) /\ UNCHANGED lock
    BY <1>0, <1>1, <2>1, ContinueType
    DEF RefreshEnter, TypeOK, workerVars, passVars, remoteVars
  <2>2. CASE /\ Lock(t)
             /\ loc' = [loc EXCEPT ![t].row = jobs[loc[t].j]]
             /\ Goto(t, "poll")
    <3>1. loc' \in [Tasks -> Locals]
      BY <1>0, <2>2, LocalsFields, LocalsRow DEF TypeOK
    <3>2. QED
      BY <1>0, <1>1, <2>2, <3>1
      DEF RefreshEnter, Lock, Goto, TypeOK, Holding, workerVars, passVars, remoteVars
  <2>3. QED
    BY <1>1, <2>1, <2>2 DEF RefreshEnter
<1>2. CASE PollNothing(t)
  BY <1>0, <1>2, LeaveType DEF PollNothing, Fault, TypeOK, workerVars, passVars, remoteVars
<1>3. CASE PollExit(t)
  <2>1. loc' \in [Tasks -> Locals]
    <3>1. \E s \in Statuses : loc' = [loc EXCEPT ![t].row = [@ EXCEPT !.status = s]]
      BY <1>3 DEF PollExit, ExitStatus, Statuses
    <3>2. QED
      BY <3>1, LocalsFields, RowStatus, LocalsRow DEF TypeOK
  <2>2. QED
    BY <1>3, <2>1 DEF PollExit, TypeOK, Goto, Holding, workerVars, passVars, remoteVars
<1>4. QED
  BY <1>1, <1>2, <1>3

LEMMA PatchType ==
    ASSUME TypeOK, NEW t \in Tasks, NEW n \in Needs, NEW pos \in Positions \cup {0},
           PatchApply(t, n, pos)
    PROVE  TypeOK'
<1> DEFINE j == loc[t].j
           w == IF pc[t] = "patchTo" THEN loc[t].w ELSE jobs[j].worker
<1>1. w \in Workers /\ j \in JobIds
  BY LocalsFields DEF Row
<1>2. n \in Nat /\ pos \in Nat
  BY JobQueueAssumption
<1>3. Moved(j, w, n, pos) \in [JobIds -> Row]
  BY <1>1, <1>2, MovedType DEF TypeOK
<1>4. jobs' \in [JobIds -> Row]
  BY <1>3 DEF PatchApply, TypeOK
<1>5. /\ pc' \in [Tasks -> Waiting \cup Holding]
      /\ loc' \in [Tasks -> Locals]
  BY LocalsFields, ContinueType DEF PatchApply
<1>6. QED
  BY <1>4, <1>5 DEF PatchApply, TypeOK, workerVars, passVars, remoteVars

LEMMA RecoverType ==
    ASSUME TypeOK, NEW t \in Tasks,
           RecoverEnter(t) \/ ProbeAnswer(t) \/ ProbeUnknown(t)
    PROVE  TypeOK'
<1>0. loc[t].w \in Workers /\ loc[t].j \in JobIds /\ {} \in SUBSET Workers
  BY LocalsFields
<1>1. CASE RecoverEnter(t)
  <2>1. CASE Continue(t, {}) /\ UNCHANGED lock
    BY <1>0, <1>1, <2>1, ContinueType
    DEF RecoverEnter, TypeOK, workerVars, passVars, remoteVars
  <2>2. CASE Lock(t) /\ Goto(t, "probe") /\ UNCHANGED loc
    BY <1>0, <1>1, <2>2
    DEF RecoverEnter, Lock, Goto, TypeOK, Holding, workerVars, passVars, remoteVars
  <2>3. QED
    BY <1>1, <2>1, <2>2 DEF RecoverEnter
<1>2. CASE ProbeAnswer(t)
  <2>1. [jobs EXCEPT ![loc[t].j].status = "running"] \in [JobIds -> Row]
    <3>1. [jobs[loc[t].j] EXCEPT !.status = "running"] \in Row
      BY LocalsFields, RowStatus DEF Statuses
    <3>2. QED
      BY <1>0, <3>1 DEF TypeOK
  <2>2. jobs' \in [JobIds -> Row]
    BY <1>0, <1>2, <2>1, RequeuedType DEF ProbeAnswer, TypeOK
  <2>3. QED
    BY <1>0, <1>2, <2>2, LeaveType DEF ProbeAnswer, TypeOK, workerVars, passVars, remoteVars
<1>3. CASE ProbeUnknown(t)
  BY <1>0, <1>3, LeaveType DEF ProbeUnknown, Fault, TypeOK, workerVars, passVars, remoteVars
<1>4. QED
  BY <1>1, <1>2, <1>3

LEMMA PassType ==
    ASSUME TypeOK, Pass
    PROVE  TypeOK'
<1>0. /\ Reconciler \in Tasks /\ Refreshers \subseteq Tasks
      /\ plan.avail \in [Workers -> SUBSET GpuIds] /\ plan.disp \in SUBSET Workers
      /\ \A j \in JobIds : jobs[j].worker \in Workers
  BY DEF Tasks, TypeOK, Row
<1>1. ReadWorkers => plan' \in [avail : [Workers -> SUBSET GpuIds], disp : SUBSET Workers]
  BY SnapshotType DEF ReadWorkers, TypeOK
<1>2. CASE PassRefresh
  BY <1>1, <1>2 DEF PassRefresh, TypeOK, workerVars, remoteVars
<1>3. CASE PassRecover
  BY <1>1, <1>3 DEF PassRecover, TypeOK, workerVars, remoteVars
<1>4. CASE RecoverNext
  <2>1. PICK j \in todo : /\ todo' = todo \ {j}
                          /\ loc' = [loc EXCEPT ![Reconciler] =
                                [NoLocals EXCEPT !.w = jobs[j].worker, !.j = j]]
    BY <1>4 DEF RecoverNext
  <2>2. j \in JobIds /\ jobs[j].worker \in Workers
    BY <1>0 DEF TypeOK
  <2>3. loc' \in [Tasks -> Locals]
    BY <1>0, <2>1, <2>2, RequestLocals, NullTypes DEF TypeOK
  <2>4. QED
    BY <1>0, <1>4, <2>1, <2>3 DEF RecoverNext, Goto, TypeOK, Waiting, workerVars, remoteVars
<1>5. CASE PassDispatch
  <2>1. loc' \in [Tasks -> Locals]
    BY <1>0, <1>5, RequestLocals, NullTypes, JobQueueAssumption
    DEF PassDispatch, ToDispatch, TypeOK
  <2>2. QED
    BY <1>0, <1>5, <2>1 DEF PassDispatch, Goto, TypeOK, Waiting, workerVars, remoteVars
<1>6. CASE PassDone
  BY <1>6, NullTypes DEF PassDone, TypeOK, workerVars, remoteVars
<1>7. ASSUME NEW r \in Refreshers, NEW j \in JobIds, RefreshNext(r, j)
      PROVE  TypeOK'
  <2>1. loc' \in [Tasks -> Locals]
    <3> DEFINE w == jobs[j].worker
               l == [NoLocals EXCEPT !.w = w, !.j = j, !.avail = plan.avail]
    <3>1. w \in Workers
      BY <1>0
    <3>2. l \in Locals
      BY <1>0, <3>1, RequestLocals, NullTypes
    <3>3. loc' = [loc EXCEPT ![r] = l] \/ UNCHANGED loc
      BY <1>7 DEF RefreshNext
    <3> HIDE DEF l
    <3>4. QED
      BY <1>0, <3>2, <3>3 DEF TypeOK
  <2>2. QED
    BY <1>0, <1>7, <2>1 DEF RefreshNext, Goto, TypeOK, Waiting, workerVars, remoteVars
<1>8. QED
  BY <1>2, <1>3, <1>4, <1>5, <1>6, <1>7 DEF Pass

LEMMA WorldType ==
    ASSUME TypeOK, World
    PROVE  TypeOK'
<1>1. ASSUME NEW w \in Workers, NEW I \in IdleReports, Heartbeat(w, I)
      PROVE  TypeOK'
  BY <1>1 DEF Heartbeat, TypeOK, GpuIds, passVars, remoteVars
<1>2. ASSUME NEW w \in Workers, NEW j \in JobIds, NEW st \in Exits, Exit(w, j, st)
      PROVE  TypeOK'
  <2>1. remote' \in [Workers -> [JobIds -> Session]]
    BY <1>2 DEF Exit, Exits, TypeOK, Session, SessionStates
  <2>2. QED
    BY <1>2, <2>1 DEF Exit, TypeOK, workerVars, passVars
<1>3. ASSUME NEW e \in late, LateStart(e)
      PROVE  TypeOK'
  <2>1. e.w \in Workers /\ e.j \in JobIds /\ e.gpus \in SUBSET GpuIds
    BY DEF TypeOK
  <2>2. remote' \in [Workers -> [JobIds -> Session]]
    BY <1>3, <2>1 DEF LateStart, TypeOK, Session, SessionStates
  <2>3. QED
    BY <1>3, <2>2 DEF LateStart, TypeOK, workerVars, passVars
<1>4. CASE Tick
  BY <1>4 DEF Tick, TypeOK, workerVars, passVars, remoteVars
<1>5. QED
  BY <1>1, <1>2, <1>3, <1>4 DEF World

LEMMA FailureType ==
    ASSUME TypeOK, Failure
    PROVE  TypeOK'
<1>1. ASSUME NEW t \in Tasks, LaunchUnknown(t) \/ KillUnknown(t) \/ ProbeUnknown(t)
      PROVE  TypeOK'
  BY <1>1, LaunchType, StopType, RecoverType
<1>2. ASSUME NEW t \in Tasks, Abort(t)
      PROVE  TypeOK'
  <2>1. late' \in SUBSET [w : Workers, j : JobIds, gpus : SUBSET GpuIds]
    BY <1>2, AbandonType DEF Abort
  <2>2. (IF t = Reconciler THEN loc[t].disp \ {loc[t].w} ELSE {}) \in SUBSET Workers
    BY LocalsFields
  <2>3. /\ pc' \in [Tasks -> Waiting \cup Holding]
        /\ loc' \in [Tasks -> Locals]
    BY <1>2, <2>2, ContinueType DEF Abort
  <2>4. QED
    BY <1>2, <2>1, <2>3 DEF Abort, Fault, TypeOK, workerVars, passVars
<1>3. ASSUME NEW w \in Workers, Prune(w)
      PROVE  TypeOK'
  BY <1>3 DEF Prune, Fault, TypeOK, passVars, remoteVars
<1>4. ASSUME NEW w \in Workers, NEW j \in JobIds, Lost(w, j)
      PROVE  TypeOK'
  <2>1. remote' \in [Workers -> [JobIds -> Session]]
    BY <1>4 DEF Lost, TypeOK, Session, SessionStates
  <2>2. QED
    BY <1>4, <2>1 DEF Lost, Fault, TypeOK, workerVars, passVars
<1>5. CASE Crash
  <2>1. late' \in SUBSET [w : Workers, j : JobIds, gpus : SUBSET GpuIds]
    BY <1>5, AbandonType DEF Crash
  <2>2. QED
    BY <1>5, <2>1, NullTypes DEF Crash, Fault, TypeOK, Waiting, workerVars
<1>6. QED
  BY <1>1, <1>2, <1>3, <1>4, <1>5 DEF Failure

LEMMA NextType == TypeOK /\ [Next]_vars => TypeOK'
<1>1. SUFFICES ASSUME TypeOK, [Next]_vars PROVE TypeOK'
  OBVIOUS
<1>2. CASE UNCHANGED vars
  BY <1>1, <1>2 DEF TypeOK, vars
<1>3. ASSUME NEW t \in Tasks, Step(t) PROVE TypeOK'
  BY <1>1, <1>3, DispatchType, LaunchType, StopType, RefreshType, RecoverType, PatchType DEF Step
<1>4. QED
  BY <1>1, <1>2, <1>3, RequestType, PassType, WorldType, FailureType DEF Next

\* Every row, local variable and session the queue handles keeps its type, in
\* every interleaving of handlers, reconciler and faults.
THEOREM TypeCorrect == Spec => []TypeOK
  BY InitType, NextType, PTL DEF Spec

-----------------------------------------------------------------------------
(* The inductive invariant.                                                *)

\* The task has found the row of its job active and works on it.
Owning == {"launch", "write", "kill", "poll", "settle", "probe"}

\* Two versions of a row with the same reservation.
SameClaim(r, q) == r.worker = q.worker /\ r.managed = q.managed /\ r.gpus = q.gpus

HoldsLock(t) == pc[t] \in Holding => lock[loc[t].w] = t

OwnsRow(t) ==
    /\ pc[t] \in Owning => /\ Active(jobs[loc[t].j])
                           /\ jobs[loc[t].j].worker = loc[t].w
    /\ pc[t] \in {"launch", "write", "probe"} => jobs[loc[t].j].status = "starting"
    /\ pc[t] \in {"launch", "write", "poll", "settle"} =>
           SameClaim(loc[t].row, jobs[loc[t].j])
    /\ pc[t] = "write" => loc[t].row.status \in {"running", "failed"}
    /\ pc[t] = "settle" => loc[t].row.status \in {"done", "failed"}

\* start_job has not stored its row yet; stop_job and the recovery have read theirs.
KnowsRow(t) ==
    /\ pc[t] = "start" => /\ jobs[loc[t].j].status = "none"
                          /\ loc[t].j \in ImmediateIds
                          /\ ~loc[t].row.managed
                          /\ loc[t].row.status = "starting"
                          /\ loc[t].row.worker = loc[t].w
    /\ pc[t] = "stop" => jobs[loc[t].j].status # "none"
    /\ pc[t] \in {"recover", "probe"} =>
           /\ t = Reconciler
           /\ phase = "recover"
           /\ loc[t].j \notin todo
           /\ jobs[loc[t].j].status \notin {"none", "pending"}
           /\ jobs[loc[t].j].worker = loc[t].w

TaskInv(t) == HoldsLock(t) /\ OwnsRow(t) /\ KnowsRow(t)

StartDistinct ==
    \A t, u \in Tasks : t # u /\ pc[t] = "start" /\ pc[u] = "start" => loc[t].j # loc[u].j

PendingManaged == \A j \in JobIds : jobs[j].status = "pending" => jobs[j].managed

RecoverKnown ==
    phase = "recover" => \A j \in todo : jobs[j].status \notin {"none", "pending"}

IInv ==
    /\ TypeOK
    /\ \A t \in Tasks : TaskInv(t)
    /\ StartDistinct
    /\ PendingManaged
    /\ RecoverKnown
    /\ GpuExclusive

-----------------------------------------------------------------------------
(* What a step of task t does to a row, and to the other tasks.            *)

Unreserved(r) == ~(r.managed /\ Active(r))

RowStep(t, j) ==
    \/ jobs'[j] = jobs[j]
    \/ /\ jobs[j].status = "none"
       /\ j \notin ImmediateIds \/ (pc[t] = "start" /\ j = loc[t].j)
       /\ jobs'[j].status # "none"
       /\ jobs'[j].status = "pending" => jobs'[j].managed
       /\ Unreserved(jobs'[j])
    \/ /\ jobs[j].status = "pending"
       /\ jobs'[j].status \in {"pending", "failed"}
       /\ jobs'[j].managed = jobs[j].managed
    \/ /\ jobs[j].status = "pending"
       /\ pc[t] = "claim" /\ j = loc[t].j
       /\ jobs'[j].status = "starting"
       /\ jobs'[j].managed = jobs[j].managed
       /\ jobs'[j].worker = jobs[j].worker
       /\ jobs'[j].gpus \cap ClaimedGpus(jobs[j].worker) = {}
    \/ /\ pc[t] \in Owning /\ j = loc[t].j
       /\ jobs'[j].managed = jobs[j].managed
       /\ jobs'[j].worker = jobs[j].worker
       /\ \/ jobs'[j].gpus = jobs[j].gpus /\ jobs'[j].status \in {"running", "done", "failed"}
          \/ pc[t] = "probe" /\ jobs'[j].status = "pending" /\ jobs[j].managed

RowsStep(t) == \A j \in JobIds : RowStep(t, j)

\* The step keeps the invariant, rewrites no finished row, and is a step of
\* GpuReservation or leaves the reservations alone.
Final == \A j \in JobIds : Terminal(jobs[j]) => jobs'[j] = jobs[j]
Refines == [Reservation!Next]_Held
Keeps == IInv' /\ Final /\ Refines

LEMMA SameRowsKeep ==
    ASSUME UNCHANGED jobs
    PROVE  Final /\ Refines
<1>1. UNCHANGED Held
  BY DEF Held, Active
<1>2. QED
  BY <1>1 DEF Final, Refines

OthersKept(t) ==
    /\ \A u \in Tasks \ {t} : pc'[u] = pc[u] /\ loc'[u] = loc[u]
    /\ \A w \in Workers : lock[w] \in Tasks \ {t} => lock'[w] = lock[w]

\* The other tasks keep their part of the invariant: the row an owning task
\* works on is on the worker whose lock it holds, so it is not the row of t.
LEMMA OthersInv ==
    ASSUME IInv, NEW t \in Tasks, OthersKept(t), RowsStep(t), UNCHANGED <<phase, todo>>,
           NEW u \in Tasks, u # t
    PROVE  TaskInv(u)'
<1>1. /\ TaskInv(u) /\ TaskInv(t)
      /\ loc[u].j \in JobIds /\ loc[u].w \in Workers
  BY LocalsFields DEF IInv
<1>2. pc'[u] = pc[u] /\ loc'[u] = loc[u]
  BY DEF OthersKept
<1>3. HoldsLock(u)'
  BY <1>1, <1>2 DEF TaskInv, HoldsLock, OthersKept
<1>4. RowStep(t, loc[u].j)
  BY <1>1 DEF RowsStep
<1>5. ASSUME pc[u] \in Owning
      PROVE  jobs'[loc[u].j] = jobs[loc[u].j]
  <2>1. /\ Active(jobs[loc[u].j]) /\ jobs[loc[u].j].worker = loc[u].w
        /\ lock[loc[u].w] = u
    BY <1>1, <1>5 DEF TaskInv, OwnsRow, HoldsLock, Owning, Holding
  <2>2. ~(pc[t] \in Owning /\ loc[t].j = loc[u].j)
    BY <1>1, <2>1 DEF TaskInv, OwnsRow, HoldsLock, Owning, Holding
  <2>3. QED
    BY <1>4, <2>1, <2>2 DEF RowStep, Active
<1>6. OwnsRow(u)'
  BY <1>1, <1>2, <1>5 DEF TaskInv, OwnsRow, Owning, SameClaim, Active
<1>7. KnowsRow(u)'
  <2>1. ASSUME pc[u] = "start"
        PROVE  jobs'[loc[u].j] = jobs[loc[u].j]
    <3>1. jobs[loc[u].j].status = "none" /\ loc[u].j \in ImmediateIds
      BY <1>1, <2>1 DEF TaskInv, KnowsRow
    <3>2. ~(pc[t] = "start" /\ loc[u].j = loc[t].j)
      BY <2>1 DEF IInv, StartDistinct
    <3>3. ~(pc[t] \in Owning /\ loc[u].j = loc[t].j)
      BY <1>1, <3>1 DEF TaskInv, OwnsRow, Active
    <3>4. QED
      BY <1>4, <3>1, <3>2, <3>3 DEF RowStep
  <2>2. ASSUME pc[u] = "stop"
        PROVE  jobs'[loc[u].j].status # "none"
    BY <1>1, <1>4, <2>2 DEF TaskInv, KnowsRow, RowStep
  <2>3. ASSUME pc[u] \in {"recover", "probe"}
        PROVE  /\ jobs'[loc[u].j].status \notin {"none", "pending"}
               /\ jobs'[loc[u].j].worker = loc[u].w
    <3>1. pc[t] # "probe"
      BY <1>1, <2>3 DEF TaskInv, KnowsRow
    <3>2. QED
      BY <1>1, <1>4, <2>3, <3>1 DEF TaskInv, KnowsRow, RowStep
  <2>4. QED
    BY <1>1, <1>2, <2>1, <2>2, <2>3 DEF TaskInv, KnowsRow
<1>8. QED
  BY <1>3, <1>6, <1>7 DEF TaskInv

\* Rows that change as RowStep says keep their reservations disjoint.
LEMMA ExclusiveKept ==
    ASSUME IInv, NEW t \in Tasks, RowsStep(t)
    PROVE  GpuExclusive'
<1>1. SUFFICES ASSUME NEW i \in JobIds, NEW j \in JobIds, i # j,
                      jobs'[i].managed /\ Active(jobs'[i]),
                      jobs'[j].managed /\ Active(jobs'[j]),
                      jobs'[i].worker = jobs'[j].worker
               PROVE  jobs'[i].gpus \cap jobs'[j].gpus = {}
  BY DEF GpuExclusive, Active
<1> DEFINE Same(k) == /\ jobs[k].managed /\ Active(jobs[k])
                      /\ jobs'[k].worker = jobs[k].worker
                      /\ jobs'[k].gpus = jobs[k].gpus
           New(k) == /\ pc[t] = "claim" /\ k = loc[t].j
                     /\ jobs'[k].worker = jobs[k].worker
                     /\ jobs'[k].gpus \cap ClaimedGpus(jobs[k].worker) = {}
<1>2. \A k \in JobIds : jobs'[k].managed /\ Active(jobs'[k]) => Same(k) \/ New(k)
  <2>1. SUFFICES ASSUME NEW k \in JobIds, jobs'[k].managed, Active(jobs'[k])
                 PROVE  Same(k) \/ New(k)
    OBVIOUS
  <2>2. RowStep(t, k)
    BY DEF RowsStep
  <2>3. TaskInv(t)
    BY DEF IInv
  <2>4. CASE pc[t] \in Owning /\ k = loc[t].j
    <3>1. Active(jobs[k])
      BY <2>3, <2>4 DEF TaskInv, OwnsRow
    <3>2. QED
      BY <2>1, <2>2, <2>4, <3>1 DEF RowStep, Active, Unreserved
  <2>5. QED
    BY <2>1, <2>2, <2>4 DEF RowStep, Active, Unreserved
<1>3. CASE Same(i) /\ Same(j)
  BY <1>1, <1>3 DEF IInv, GpuExclusive
<1>4. \A k, l \in JobIds :
         (Same(k) /\ New(l) /\ jobs'[k].worker = jobs'[l].worker)
         => jobs'[k].gpus \cap jobs'[l].gpus = {}
  <2>1. SUFFICES ASSUME NEW k \in JobIds, NEW l \in JobIds, Same(k), New(l),
                        jobs'[k].worker = jobs'[l].worker
                 PROVE  jobs'[k].gpus \cap jobs'[l].gpus = {}
    OBVIOUS
  <2>2. jobs'[k].gpus \subseteq ClaimedGpus(jobs[l].worker)
    BY <2>1 DEF ClaimedGpus
  <2>3. QED
    BY <2>1, <2>2
<1>5. QED
  BY <1>1, <1>2, <1>3, <1>4

\* The reservations, one record at a time.
LEMMA HeldMembers ==
    ASSUME NEW rows \in [JobIds -> Row]
    PROVE  UNION {[worker : {rows[j].worker}, gpu : rows[j].gpus, job : {j}] :
                     j \in {i \in JobIds : rows[i].managed /\ Active(rows[i])}}
           = {h \in [worker : Workers, gpu : GpuIds, job : JobIds] :
                /\ ~Unreserved(rows[h.job])
                /\ h.worker = rows[h.job].worker
                /\ h.gpu \in rows[h.job].gpus}
  BY DEF Unreserved, Row

\* Rows that change as RowStep says take or give back the GPUs of one job.
LEMMA ReservationStep ==
    ASSUME IInv, TypeOK', NEW t \in Tasks, RowsStep(t)
    PROVE  Refines
<1> DEFINE j == loc[t].j
           Kept(k) == /\ Unreserved(jobs[k]) <=> Unreserved(jobs'[k])
                      /\ ~Unreserved(jobs[k]) => /\ jobs'[k].worker = jobs[k].worker
                                                 /\ jobs'[k].gpus = jobs[k].gpus
           Mine(rows, h) == /\ ~Unreserved(rows[h.job])
                            /\ h.worker = rows[h.job].worker
                            /\ h.gpu \in rows[h.job].gpus
           All == [worker : Workers, gpu : GpuIds, job : JobIds]
<1>1. /\ TypeOK /\ TaskInv(t) /\ j \in JobIds
      /\ jobs \in [JobIds -> Row] /\ jobs' \in [JobIds -> Row]
  BY LocalsFields DEF IInv, TypeOK
<1>2. /\ Held = {h \in All : Mine(jobs, h)}
      /\ Held' = {h \in All : Mine(jobs', h)}
  BY <1>1, HeldMembers DEF Held, Active
<1>3. \A k \in JobIds \ {j} : Kept(k)
  BY DEF RowsStep, RowStep, Unreserved, Active
<1>4. CASE Kept(j)
  <2>1. UNCHANGED Held
    BY <1>2, <1>3, <1>4
  <2>2. QED
    BY <2>1 DEF Refines
<1>5. CASE ~Unreserved(jobs[j]) /\ Unreserved(jobs'[j])
  <2>1. Held' = {h \in Held : h.job # j}
    BY <1>2, <1>3, <1>5
  <2>2. QED
    BY <1>1, <2>1 DEF Refines, Reservation!Next, Reservation!Release
<1>6. CASE Unreserved(jobs[j]) /\ ~Unreserved(jobs'[j])
  <2> DEFINE w == jobs'[j].worker
             G == jobs'[j].gpus
  <2>1. w = jobs[j].worker /\ G \cap ClaimedGpus(w) = {}
    <3>1. RowStep(t, j)
      BY <1>1 DEF RowsStep
    <3>2. pc[t] \in Owning => Active(jobs[j])
      BY <1>1 DEF TaskInv, OwnsRow
    <3>3. QED
      BY <1>6, <3>1, <3>2 DEF RowStep, Unreserved, Active
  <2>2. w \in Workers /\ G \in SUBSET GpuIds
    BY <1>1 DEF Row
  <2>3. \A h \in Held : h.job # j
    BY <1>2, <1>6
  <2>4. \A h \in Held : h.worker = w => h.gpu \notin G
    <3>1. \A h \in Held : h.gpu \in ClaimedGpus(h.worker)
      BY <1>2 DEF ClaimedGpus, Unreserved
    <3>2. QED
      BY <2>1, <3>1
  <2>5. Held' = Held \cup [worker : {w}, gpu : G, job : {j}]
    BY <1>1, <1>2, <1>3, <1>6, <2>2
  <2>6. Reservation!Acquire(w, j, G)
    BY <2>3, <2>4, <2>5 DEF Reservation!Acquire
  <2>7. QED
    BY <1>1, <2>2, <2>6 DEF Refines, Reservation!Next
<1>7. CASE ~Unreserved(jobs[j]) /\ ~Unreserved(jobs'[j])
  <2>1. Kept(j)
    BY <1>1, <1>7 DEF RowsStep, RowStep, Unreserved, Active
  <2>2. QED
    BY <1>4, <2>1
<1>8. QED
  BY <1>4, <1>5, <1>6, <1>7

\* A step of a task that keeps to RowStep and leaves the pass alone preserves
\* the invariant if it preserves the task's own part.
LEMMA TaskStep ==
    ASSUME IInv, NEW t \in Tasks, OthersKept(t), RowsStep(t), UNCHANGED <<phase, todo>>,
           TypeOK', TaskInv(t)', pc'[t] # "start"
    PROVE  Keeps
<1>1. \A u \in Tasks : TaskInv(u)'
  BY OthersInv
<1>2. GpuExclusive'
  BY ExclusiveKept
<1>3. StartDistinct'
  BY DEF IInv, StartDistinct, OthersKept
<1>4. TaskInv(t)
  BY DEF IInv
<1>5. PendingManaged'
  <2>1. SUFFICES ASSUME NEW j \in JobIds, jobs'[j].status = "pending" PROVE jobs'[j].managed
    BY DEF PendingManaged
  <2>2. RowStep(t, j)
    BY DEF RowsStep
  <2>3. QED
    BY <2>1, <2>2 DEF RowStep, IInv, PendingManaged
<1>6. RecoverKnown'
  <2>1. SUFFICES ASSUME phase = "recover", NEW j \in todo
                 PROVE  jobs'[j].status \notin {"none", "pending"}
    BY DEF RecoverKnown
  <2>2. j \in JobIds /\ jobs[j].status \notin {"none", "pending"}
    BY <2>1 DEF IInv, TypeOK, RecoverKnown
  <2>3. RowStep(t, j)
    BY <2>2 DEF RowsStep
  <2>4. ~(pc[t] = "probe" /\ j = loc[t].j)
    BY <1>4 DEF TaskInv, KnowsRow
  <2>5. QED
    BY <2>2, <2>3, <2>4 DEF RowStep
<1>7. IInv'
  BY <1>1, <1>2, <1>3, <1>5, <1>6 DEF IInv
<1>8. Final
  <2>1. SUFFICES ASSUME NEW j \in JobIds, Terminal(jobs[j]) PROVE jobs'[j] = jobs[j]
    BY DEF Final
  <2>2. ~(pc[t] \in Owning /\ j = loc[t].j)
    BY <1>4, <2>1 DEF TaskInv, OwnsRow, Terminal, Active
  <2>3. RowStep(t, j)
    BY DEF RowsStep
  <2>4. QED
    BY <2>1, <2>2, <2>3 DEF RowStep, Terminal
<1>9. QED
  BY <1>7, <1>8, ReservationStep DEF Keeps

-----------------------------------------------------------------------------
(* The ways a step of a task ends.                                         *)

\* A task that holds no lock and waits for no particular row.
Free == {"idle", "dispatch", "refresh", "patchTo", "patchHere"}

LEMMA FreeTask ==
    ASSUME NEW t \in Tasks, pc'[t] \in Free
    PROVE  TaskInv(t)'
  BY DEF Free, TaskInv, HoldsLock, OwnsRow, KnowsRow, Holding, Owning

LEMMA ContinueKept ==
    ASSUME IInv, NEW t \in Tasks, NEW d, Continue(t, d), UNCHANGED lock
    PROVE  OthersKept(t) /\ pc'[t] \in Free
  BY DEF IInv, TypeOK, Continue, OthersKept, Free

LEMMA LeaveKept ==
    ASSUME IInv, NEW t \in Tasks, NEW d, pc[t] \in Holding, Leave(t, d)
    PROVE  OthersKept(t) /\ pc'[t] \in Free
<1>1. lock[loc[t].w] = t
  BY DEF IInv, TaskInv, HoldsLock
<1>2. \A u \in Tasks \ {t} : pc'[u] = pc[u] /\ loc'[u] = loc[u]
  BY DEF IInv, TypeOK, Leave, Continue
<1>3. pc'[t] \in Free
  BY DEF IInv, TypeOK, Leave, Continue, Free
<1>4. QED
  BY <1>1, <1>2, <1>3 DEF IInv, TypeOK, Leave, Unlock, OthersKept

\* A task takes the lock of its worker: nobody held it.
LEMMA LockKept ==
    ASSUME IInv, NEW t \in Tasks, NEW l, NEW x, Lock(t), Goto(t, l),
           loc' = [loc EXCEPT ![t] = x]
    PROVE  /\ OthersKept(t)
           /\ pc'[t] = l /\ loc'[t] = x
           /\ lock'[loc[t].w] = t
<1>1. loc[t].w \in Workers
  BY LocalsFields DEF IInv
<1>2. QED
  BY <1>1, JobQueueAssumption DEF IInv, TypeOK, Lock, Goto, OthersKept

\* A task goes on under its lock.
LEMMA GotoKept ==
    ASSUME IInv, NEW t \in Tasks, NEW l, NEW x, Goto(t, l), UNCHANGED lock,
           loc' = [loc EXCEPT ![t] = x]
    PROVE  OthersKept(t) /\ pc'[t] = l /\ loc'[t] = x
  BY DEF IInv, TypeOK, Goto, OthersKept

LEMMA SameRows ==
    ASSUME NEW t \in Tasks, UNCHANGED jobs
    PROVE  RowsStep(t)
  BY DEF RowsStep, RowStep

\* A step after which the task waits for nothing in particular.
LEMMA FreeStep ==
    ASSUME IInv, NEW t \in Tasks, OthersKept(t), RowsStep(t), UNCHANGED <<phase, todo>>,
           TypeOK', pc'[t] \in Free
    PROVE  Keeps
  BY FreeTask, TaskStep DEF Free

\* The end of a launch: back to the queue with the lock, or out.
LEMMA AfterLaunchKept ==
    ASSUME IInv, NEW t \in Tasks, pc[t] \in Holding, AfterLaunch(t)
    PROVE  OthersKept(t) /\ TaskInv(t)' /\ pc'[t] # "start"
<1>1. CASE loc[t].row.managed
  <2>1. Goto(t, "scan") /\ UNCHANGED <<lock, loc>>
    BY <1>1 DEF AfterLaunch
  <2>2. OthersKept(t) /\ pc'[t] = "scan"
    BY <2>1 DEF IInv, TypeOK, Goto, OthersKept
  <2>3. QED
    BY <2>1, <2>2 DEF IInv, TaskInv, HoldsLock, OwnsRow, KnowsRow, Holding, Owning
<1>2. CASE ~loc[t].row.managed
  BY <1>2, LeaveKept, FreeTask DEF AfterLaunch, Free
<1>3. QED
  BY <1>1, <1>2

-----------------------------------------------------------------------------
(* The steps of a task.                                                    *)

LEMMA DispatchInv ==
    ASSUME IInv, NEW t \in Tasks, DispatchBegin(t) \/ Scan(t) \/ Claim(t)
    PROVE  Keeps
<1>0. TypeOK /\ TypeOK' /\ TaskInv(t) /\ loc[t] \in Locals
  BY DispatchType, LocalsFields DEF IInv
<1>1. CASE DispatchBegin(t)
  <2>1. PICK w \in loc[t].disp : /\ lock[w] = NoTask
                                 /\ lock' = [lock EXCEPT ![w] = t]
                                 /\ loc' = [loc EXCEPT ![t].w = w]
    BY <1>1 DEF DispatchBegin
  <2>2. w \in Workers
    BY <1>0, LocalsFields
  <2>3. OthersKept(t) /\ pc'[t] = "scan" /\ UNCHANGED <<jobs, phase, todo>>
    BY <1>0, <1>1, <2>1, <2>2, JobQueueAssumption
    DEF DispatchBegin, TypeOK, Goto, OthersKept, passVars
  <2>4. loc'[t].w = w /\ lock'[w] = t
    BY <1>0, <2>1, <2>2 DEF TypeOK, Locals
  <2>5. TaskInv(t)'
    BY <2>3, <2>4 DEF TaskInv, HoldsLock, OwnsRow, KnowsRow, Holding, Owning
  <2>6. QED
    BY <1>0, <2>3, <2>5, SameRows, TaskStep
<1>2. CASE Scan(t)
  <2>1. UNCHANGED <<jobs, phase, todo>> /\ pc[t] = "scan" /\ pc[t] \in Holding
    BY <1>2 DEF Scan, passVars, Holding
  <2>2. CASE \E d : Leave(t, d)
    BY <1>0, <2>1, <2>2, LeaveKept, SameRows, FreeStep
  <2>3. CASE /\ \E j, G : loc' = [loc EXCEPT ![t].j = j, ![t].gpus = G]
             /\ Goto(t, "claim") /\ UNCHANGED lock
    <3>1. OthersKept(t) /\ pc'[t] = "claim" /\ loc'[t].w = loc[t].w /\ UNCHANGED lock
      BY <1>0, <2>3 DEF TypeOK, Locals, Goto, OthersKept
    <3>2. TaskInv(t)'
      BY <1>0, <2>1, <3>1 DEF TaskInv, HoldsLock, OwnsRow, KnowsRow, Holding, Owning
    <3>3. QED
      BY <1>0, <2>1, <3>1, <3>2, SameRows, TaskStep
  <2>4. QED
    BY <1>2, <2>2, <2>3 DEF Scan
<1>3. CASE Claim(t)
  <2> DEFINE j == loc[t].j
             w == loc[t].w
             row == [jobs[j] EXCEPT !.status = "starting", !.gpus = loc[t].gpus,
                                    !.started = clock]
             l == [loc[t] EXCEPT !.row = row, !.took = FALSE]
  <2>1. /\ UNCHANGED <<phase, todo, lock>> /\ pc[t] = "claim" /\ lock[w] = t
        /\ j \in JobIds /\ w \in Workers /\ jobs[j] \in Row
    BY <1>0, <1>3, LocalsFields DEF Claim, passVars, Holding, TaskInv, HoldsLock
  <2>2. CASE /\ Claimable(j, w, loc[t].gpus) /\ jobs' = [jobs EXCEPT ![j] = row]
             /\ loc' = [loc EXCEPT ![t] = l] /\ Goto(t, "launch")
    <3>1. /\ row.status = "starting" /\ row.worker = jobs[j].worker
          /\ row.managed = jobs[j].managed /\ row.gpus = loc[t].gpus
      BY <2>1 DEF Row
    <3>2. l.row = row /\ l.j = j /\ l.w = w
      BY <1>0 DEF Locals
    <3>3. jobs'[j] = row /\ \A i \in JobIds \ {j} : jobs'[i] = jobs[i]
      BY <1>0, <2>1, <2>2 DEF TypeOK
    <3>4. /\ jobs[j].status = "pending" /\ jobs[j].worker = w
          /\ loc[t].gpus \cap ClaimedGpus(w) = {}
      BY <2>2 DEF Claimable
    <3> HIDE DEF row, l
    <3>5. OthersKept(t) /\ pc'[t] = "launch" /\ loc'[t] = l
      BY <2>1, <2>2, GotoKept
    <3>6. RowsStep(t)
      BY <2>1, <3>1, <3>3, <3>4 DEF RowsStep, RowStep
    <3>7. TaskInv(t)'
      BY <2>1, <3>5, <3>1, <3>2, <3>3, <3>4
      DEF TaskInv, HoldsLock, OwnsRow, KnowsRow, Owning, SameClaim, Active
    <3>8. QED
      BY <1>0, <2>1, <3>5, <3>6, <3>7, TaskStep
  <2>3. CASE Goto(t, "scan") /\ UNCHANGED <<jobs, loc>>
    <3>1. OthersKept(t) /\ pc'[t] = "scan"
      BY <1>0, <2>1, <2>3 DEF TypeOK, Goto, OthersKept
    <3>2. TaskInv(t)'
      BY <2>1, <2>3, <3>1 DEF TaskInv, HoldsLock, OwnsRow, KnowsRow, Holding, Owning
    <3>3. QED
      BY <1>0, <2>1, <2>3, <3>1, <3>2, SameRows, TaskStep
  <2>4. QED
    BY <1>0, <1>3, <2>2, <2>3 DEF Claim, TypeOK
<1>4. QED
  BY <1>1, <1>2, <1>3

LEMMA LaunchInv ==
    ASSUME IInv, NEW t \in Tasks,
           LaunchEffect(t) \/ LaunchAnswer(t) \/ LaunchWrite(t) \/ LaunchUnknown(t)
    PROVE  Keeps
<1> DEFINE j == loc[t].j
<1>0. TypeOK /\ TypeOK' /\ TaskInv(t) /\ loc[t] \in Locals /\ j \in JobIds
  BY LaunchType, LocalsFields DEF IInv
<1>1. CASE LaunchEffect(t)
  <2>1. /\ pc[t] = "launch" /\ UNCHANGED <<jobs, phase, todo, lock, pc>>
        /\ loc' = [loc EXCEPT ![t].took = TRUE]
    BY <1>1 DEF LaunchEffect, passVars
  <2>2. /\ OthersKept(t)
        /\ loc'[t].w = loc[t].w /\ loc'[t].j = j /\ loc'[t].row = loc[t].row
    BY <1>0, <2>1 DEF TypeOK, Locals, OthersKept
  <2>3. TaskInv(t)'
    BY <1>0, <2>1, <2>2
    DEF TaskInv, HoldsLock, OwnsRow, KnowsRow, Owning, SameClaim, Active
  <2>4. QED
    BY <1>0, <2>1, <2>2, <2>3, SameRows, TaskStep
<1>2. CASE LaunchAnswer(t)
  <2>1. PICK s \in {"running", "failed"} :
          loc' = [loc EXCEPT ![t].row = [@ EXCEPT !.status = s]]
    BY <1>2 DEF LaunchAnswer
  <2>2. /\ pc[t] = "launch" /\ UNCHANGED <<jobs, phase, todo, lock>> /\ Goto(t, "write")
    BY <1>2 DEF LaunchAnswer, passVars, remoteVars, workerVars
  <2>3. /\ OthersKept(t) /\ pc'[t] = "write"
        /\ loc'[t] = [loc[t] EXCEPT !.row = [loc[t].row EXCEPT !.status = s]]
    BY <1>0, <2>1, <2>2 DEF TypeOK, Goto, OthersKept
  <2>4. /\ loc'[t].w = loc[t].w /\ loc'[t].j = j
        /\ loc'[t].row = [loc[t].row EXCEPT !.status = s]
    BY <1>0, <2>3 DEF Locals
  <2>5. loc'[t].row.status = s /\ SameClaim(loc'[t].row, loc[t].row)
    BY <1>0, <2>4, LocalsFields DEF Row, SameClaim
  <2>6. TaskInv(t)'
    BY <1>0, <2>2, <2>3, <2>4, <2>5
    DEF TaskInv, HoldsLock, OwnsRow, KnowsRow, Owning, Holding, SameClaim, Active
  <2>7. QED
    BY <1>0, <2>2, <2>3, <2>6, SameRows, TaskStep
<1>3. CASE LaunchWrite(t)
  <2>1. /\ pc[t] = "write" /\ UNCHANGED <<phase, todo>>
        /\ jobs' = [jobs EXCEPT ![j] = loc[t].row] /\ AfterLaunch(t)
    BY <1>3 DEF LaunchWrite, passVars
  <2>2. SameClaim(loc[t].row, jobs[j]) /\ loc[t].row.status \in {"running", "failed"}
    BY <1>0, <2>1 DEF TaskInv, OwnsRow
  <2>3. RowsStep(t)
    BY <1>0, <2>1, <2>2 DEF TypeOK, RowsStep, RowStep, Owning, SameClaim
  <2>4. QED
    BY <1>0, <2>1, <2>3, AfterLaunchKept, TaskStep DEF Holding
<1>4. CASE LaunchUnknown(t)
  <2>1. pc[t] \in Holding /\ UNCHANGED <<jobs, phase, todo>> /\ AfterLaunch(t)
    BY <1>4 DEF LaunchUnknown, passVars, Holding
  <2>2. QED
    BY <1>0, <2>1, AfterLaunchKept, SameRows, TaskStep
<1>5. QED
  BY <1>1, <1>2, <1>3, <1>4

LEMMA StartInsertInv ==
    ASSUME IInv, NEW t \in Tasks, StartInsert(t)
    PROVE  Keeps
<1> DEFINE j == loc[t].j
<1>0. TypeOK /\ TypeOK' /\ TaskInv(t) /\ j \in JobIds /\ loc[t].w \in Workers
  BY LaunchType, LocalsFields DEF IInv
<1>1. /\ pc[t] = "start" /\ UNCHANGED <<phase, todo, loc>> /\ Lock(t) /\ Goto(t, "launch")
      /\ jobs' = [jobs EXCEPT ![j] = loc[t].row]
  BY DEF StartInsert, passVars
<1>2. OthersKept(t) /\ pc'[t] = "launch" /\ lock'[loc[t].w] = t
  BY <1>0, <1>1, JobQueueAssumption DEF TypeOK, Lock, Goto, OthersKept
<1>3. /\ jobs[j].status = "none" /\ ~loc[t].row.managed
      /\ loc[t].row.status = "starting" /\ loc[t].row.worker = loc[t].w
  BY <1>0, <1>1 DEF TaskInv, KnowsRow
<1>4. jobs'[j] = loc[t].row /\ \A i \in JobIds \ {j} : jobs'[i] = jobs[i]
  BY <1>0, <1>1 DEF TypeOK
<1>5. RowsStep(t)
  BY <1>1, <1>3, <1>4 DEF RowsStep, RowStep, Unreserved
<1>6. TaskInv(t)'
  BY <1>1, <1>2, <1>3, <1>4
  DEF TaskInv, HoldsLock, OwnsRow, KnowsRow, Owning, SameClaim, Active
<1>7. QED
  BY <1>0, <1>1, <1>2, <1>5, <1>6, TaskStep

\* Renumbering a queue changes only pending rows, and of them only the order.
LEMMA CloseRows ==
    ASSUME jobs \in [JobIds -> Row], NEW w, NEW j, NEW i \in JobIds
    PROVE  \/ Close(w, j)[i] = jobs[i]
           \/ /\ i \in Pending(w) \ {j}
              /\ Close(w, j)[i].status = jobs[i].status
              /\ Close(w, j)[i].managed = jobs[i].managed
  BY DEF Close, Row

LEMMA StopInv ==
    ASSUME IInv, NEW t \in Tasks,
           \/ StopEnter(t) \/ DropPending(t)
           \/ KillAnswer(t) \/ KillUnknown(t) \/ Settle(t)
    PROVE  Keeps
<1> DEFINE w == loc[t].w
           j == loc[t].j
<1>0. /\ TypeOK /\ TypeOK' /\ TaskInv(t) /\ loc[t] \in Locals
      /\ w \in Workers /\ j \in JobIds /\ jobs[j] \in Row
  BY StopType, LocalsFields DEF IInv
<1>1. CASE StopEnter(t)
  <2>1. pc[t] = "stop" /\ UNCHANGED <<jobs, phase, todo>>
    BY <1>1 DEF StopEnter, passVars
  <2>2. CASE Continue(t, {}) /\ UNCHANGED lock
    BY <1>0, <2>1, <2>2, ContinueKept, SameRows, FreeStep
  <2>3. CASE Lock(t) /\ Goto(t, "drop") /\ UNCHANGED loc
    <3>1. OthersKept(t) /\ pc'[t] = "drop" /\ lock'[w] = t
      BY <1>0, <2>3, JobQueueAssumption DEF TypeOK, Lock, Goto, OthersKept
    <3>2. TaskInv(t)'
      BY <2>3, <3>1 DEF TaskInv, HoldsLock, OwnsRow, KnowsRow, Owning
    <3>3. QED
      BY <1>0, <2>1, <3>1, <3>2, SameRows, TaskStep
  <2>4. CASE /\ jobs[j].worker = w /\ ~Terminal(jobs[j]) /\ j \notin Pending(w)
             /\ Lock(t) /\ Goto(t, "kill") /\ UNCHANGED loc
    <3>1. jobs[j].status # "none"
      BY <1>0, <2>1 DEF TaskInv, KnowsRow
    <3>2. Active(jobs[j])
      <4>1. jobs[j].status # "pending"
        BY <1>0, <2>4 DEF IInv, PendingManaged, Pending
      <4>2. jobs[j].status \in Statuses
        BY <1>0 DEF Row
      <4>3. QED
        BY <2>4, <3>1, <4>1, <4>2 DEF Terminal, Active, Statuses
    <3>3. OthersKept(t) /\ pc'[t] = "kill" /\ lock'[w] = t
      BY <1>0, <2>4, JobQueueAssumption DEF TypeOK, Lock, Goto, OthersKept
    <3>4. TaskInv(t)'
      BY <2>1, <2>4, <3>2, <3>3 DEF TaskInv, HoldsLock, OwnsRow, KnowsRow, Owning, Active
    <3>5. QED
      BY <1>0, <2>1, <3>3, <3>4, SameRows, TaskStep
  <2>5. QED
    BY <1>1, <2>2, <2>3, <2>4 DEF StopEnter
<1>2. CASE DropPending(t)
  <2> DEFINE v == jobs[j].worker
  <2>1. pc[t] \in Holding /\ UNCHANGED <<phase, todo>>
    BY <1>2 DEF DropPending, passVars, Holding
  <2>2. CASE Leave(t, {}) /\ UNCHANGED jobs
    BY <1>0, <2>1, <2>2, LeaveKept, SameRows, FreeStep
  <2>3. CASE /\ j \in Pending(v)
             /\ jobs' = [Close(v, j) EXCEPT ![j] = [jobs[j] EXCEPT
                              !.status = "failed", !.order = 0]]
             /\ Leave(t, {w})
    <3>1. Close(v, j) \in [JobIds -> Row]
      BY <1>0, CloseType DEF TypeOK, Row
    <3>2. /\ jobs'[j] = [jobs[j] EXCEPT !.status = "failed", !.order = 0]
          /\ \A i \in JobIds \ {j} : jobs'[i] = Close(v, j)[i]
      BY <1>0, <2>3, <3>1
    <3>3. /\ jobs[j].status = "pending" /\ jobs'[j].status = "failed"
          /\ jobs'[j].managed = jobs[j].managed
      <4>1. jobs[j].status = "pending"
        BY <2>3 DEF Pending
      <4>2. \A r \in Row : /\ [r EXCEPT !.status = "failed", !.order = 0].status = "failed"
                           /\ [r EXCEPT !.status = "failed", !.order = 0].managed = r.managed
        BY DEF Row
      <4>3. QED
        BY <1>0, <3>2, <4>1, <4>2
    <3>4. ASSUME NEW i \in JobIds PROVE RowStep(t, i)
      <4>1. CASE i = j
        BY <3>3, <4>1 DEF RowStep
      <4>2. CASE i # j
        BY <1>0, <3>2, <4>2, CloseRows DEF TypeOK, RowStep, Pending
      <4>3. QED
        BY <4>1, <4>2
    <3>5. QED
      BY <1>0, <2>1, <2>3, <3>4, LeaveKept, FreeStep DEF RowsStep
  <2>4. QED
    BY <1>2, <2>2, <2>3 DEF DropPending
<1>3. CASE KillAnswer(t)
  <2>1. pc[t] = "kill" /\ pc[t] \in Holding /\ UNCHANGED <<jobs, phase, todo>>
    BY <1>3 DEF KillAnswer, passVars, Holding
  <2>2. CASE Leave(t, {})
    BY <1>0, <2>1, <2>2, LeaveKept, SameRows, FreeStep
  <2>3. CASE /\ loc' = [loc EXCEPT ![t].row = [jobs[j] EXCEPT !.status = "failed"]]
             /\ Goto(t, "settle") /\ UNCHANGED lock
    <3>1. /\ OthersKept(t) /\ pc'[t] = "settle"
          /\ loc'[t] = [loc[t] EXCEPT !.row = [jobs[j] EXCEPT !.status = "failed"]]
      BY <1>0, <2>3 DEF TypeOK, Goto, OthersKept
    <3>2. /\ loc'[t].w = w /\ loc'[t].j = j
          /\ loc'[t].row = [jobs[j] EXCEPT !.status = "failed"]
      BY <1>0, <3>1 DEF Locals
    <3>3. loc'[t].row.status = "failed" /\ SameClaim(loc'[t].row, jobs[j])
      BY <1>0, <3>2 DEF Row, SameClaim
    <3>4. TaskInv(t)'
      BY <1>0, <2>1, <2>3, <3>1, <3>2, <3>3
      DEF TaskInv, HoldsLock, OwnsRow, KnowsRow, Owning, Holding, SameClaim, Active
    <3>5. QED
      BY <1>0, <2>1, <3>1, <3>4, SameRows, TaskStep
  <2>4. QED
    BY <1>3, <2>2, <2>3 DEF KillAnswer
<1>4. CASE KillUnknown(t)
  <2>1. pc[t] \in Holding /\ UNCHANGED <<jobs, phase, todo>> /\ Leave(t, {})
    BY <1>4 DEF KillUnknown, passVars, Holding
  <2>2. QED
    BY <1>0, <2>1, LeaveKept, SameRows, FreeStep
<1>5. CASE Settle(t)
  <2>1. /\ pc[t] = "settle" /\ pc[t] \in Holding /\ UNCHANGED <<phase, todo>>
        /\ jobs' = [jobs EXCEPT ![j] = loc[t].row]
    BY <1>5 DEF Settle, passVars, Holding
  <2>2. SameClaim(loc[t].row, jobs[j]) /\ loc[t].row.status \in {"done", "failed"}
    BY <1>0, <2>1 DEF TaskInv, OwnsRow
  <2>3. RowsStep(t)
    BY <1>0, <2>1, <2>2 DEF TypeOK, RowsStep, RowStep, Owning, SameClaim
  <2>4. QED
    BY <1>0, <1>5, <2>1, <2>3, LeaveKept, FreeStep DEF Settle
<1>6. QED
  BY <1>1, <1>2, <1>3, <1>4, <1>5

LEMMA RefreshInv ==
    ASSUME IInv, NEW t \in Tasks, RefreshEnter(t) \/ PollNothing(t) \/ PollExit(t)
    PROVE  Keeps
<1> DEFINE w == loc[t].w
           j == loc[t].j
<1>0. /\ TypeOK /\ TypeOK' /\ TaskInv(t) /\ loc[t] \in Locals
      /\ w \in Workers /\ j \in JobIds /\ jobs[j] \in Row
  BY RefreshType, LocalsFields DEF IInv
<1>1. CASE RefreshEnter(t)
  <2>1. UNCHANGED <<jobs, phase, todo>>
    BY <1>1 DEF RefreshEnter, passVars
  <2>2. CASE Continue(t, {}) /\ UNCHANGED lock
    BY <1>0, <2>1, <2>2, ContinueKept, SameRows, FreeStep
  <2>3. CASE /\ ToRefresh(jobs[j], w) /\ Lock(t) /\ Goto(t, "poll")
             /\ loc' = [loc EXCEPT ![t].row = jobs[j]]
    <3>1. Active(jobs[j]) /\ jobs[j].worker = w
      BY <1>0, <2>3 DEF ToRefresh, Refreshable, IInv, PendingManaged, Active
    <3>2. OthersKept(t) /\ pc'[t] = "poll" /\ lock'[w] = t
      BY <1>0, <2>3, JobQueueAssumption DEF TypeOK, Lock, Goto, OthersKept
    <3>3. loc'[t].w = w /\ loc'[t].j = j /\ loc'[t].row = jobs[j]
      BY <1>0, <2>3 DEF TypeOK, Locals
    <3>4. TaskInv(t)'
      BY <2>1, <3>1, <3>2, <3>3
      DEF TaskInv, HoldsLock, OwnsRow, KnowsRow, Owning, SameClaim, Active
    <3>5. QED
      BY <1>0, <2>1, <3>2, <3>4, SameRows, TaskStep
  <2>4. QED
    BY <1>1, <2>2, <2>3 DEF RefreshEnter
<1>2. CASE PollNothing(t)
  <2>1. pc[t] \in Holding /\ UNCHANGED <<jobs, phase, todo>> /\ Leave(t, {})
    BY <1>2 DEF PollNothing, passVars, Holding
  <2>2. QED
    BY <1>0, <2>1, LeaveKept, SameRows, FreeStep
<1>3. CASE PollExit(t)
  <2>1. PICK s \in {"done", "failed"} :
          loc' = [loc EXCEPT ![t].row = [@ EXCEPT !.status = s]]
    BY <1>3 DEF PollExit, ExitStatus
  <2>2. pc[t] = "poll" /\ UNCHANGED <<jobs, phase, todo, lock>> /\ Goto(t, "settle")
    BY <1>3 DEF PollExit, passVars
  <2>3. /\ OthersKept(t) /\ pc'[t] = "settle"
        /\ loc'[t] = [loc[t] EXCEPT !.row = [loc[t].row EXCEPT !.status = s]]
    BY <1>0, <2>1, <2>2 DEF TypeOK, Goto, OthersKept
  <2>4. /\ loc'[t].w = w /\ loc'[t].j = j
        /\ loc'[t].row = [loc[t].row EXCEPT !.status = s]
    BY <1>0, <2>3 DEF Locals
  <2>5. loc'[t].row.status = s /\ SameClaim(loc'[t].row, loc[t].row)
    BY <1>0, <2>4, LocalsFields DEF Row, SameClaim
  <2>6. TaskInv(t)'
    BY <1>0, <2>2, <2>3, <2>4, <2>5
    DEF TaskInv, HoldsLock, OwnsRow, KnowsRow, Owning, Holding, SameClaim, Active
  <2>7. QED
    BY <1>0, <2>2, <2>3, <2>6, SameRows, TaskStep
<1>4. QED
  BY <1>1, <1>2, <1>3

\* Moving a pending job changes only pending rows, and keeps them pending.
LEMMA MovedRows ==
    ASSUME jobs \in [JobIds -> Row], NEW w \in Workers, NEW j \in JobIds, NEW n, NEW pos,
           jobs[j].status = "pending", NEW i \in JobIds
    PROVE  \/ Moved(j, w, n, pos)[i] = jobs[i]
           \/ /\ jobs[i].status = "pending"
              /\ Moved(j, w, n, pos)[i].status = "pending"
              /\ Moved(j, w, n, pos)[i].managed = jobs[i].managed
<1>1. \A r \in Row : \A a, b, c :
        /\ [r EXCEPT !.worker = a, !.need = b, !.order = c].status = r.status
        /\ [r EXCEPT !.worker = a, !.need = b, !.order = c].managed = r.managed
  BY DEF Row
<1>2. \A r \in Row : \A c : /\ [r EXCEPT !.order = c].status = r.status
                            /\ [r EXCEPT !.order = c].managed = r.managed
  BY DEF Row
<1>3. CASE i = j
  <2>1. \E a, b, c : Moved(j, w, n, pos)[i] =
                        [jobs[j] EXCEPT !.worker = a, !.need = b, !.order = c]
    BY <1>3 DEF Moved
  <2>2. QED
    BY <1>1, <1>3, <2>1
<1>4. CASE i # j /\ i \in Pending(w)
  <2>1. \E c : Moved(j, w, n, pos)[i] = [jobs[i] EXCEPT !.order = c]
    BY <1>4 DEF Moved
  <2>2. jobs[i].status = "pending"
    BY <1>4 DEF Pending
  <2>3. QED
    BY <1>2, <2>1, <2>2
<1>5. CASE i # j /\ i \notin Pending(w)
  <2>1. Moved(j, w, n, pos)[i] \in {jobs[i], Close(jobs[j].worker, j)[i]}
    BY <1>5 DEF Moved
  <2>2. QED
    BY <2>1, CloseRows DEF Pending
<1>6. QED
  BY <1>3, <1>4, <1>5

LEMMA PatchInv ==
    ASSUME IInv, NEW t \in Tasks, NEW n \in Needs, NEW pos \in Positions \cup {0},
           PatchApply(t, n, pos)
    PROVE  Keeps
<1> DEFINE j == loc[t].j
           w == IF pc[t] = "patchTo" THEN loc[t].w ELSE jobs[j].worker
<1>0. TypeOK /\ TypeOK' /\ w \in Workers /\ j \in JobIds
  BY PatchType, LocalsFields DEF IInv, Row
<1>1. UNCHANGED <<phase, todo, lock>> /\ \E d : Continue(t, d)
  BY DEF PatchApply, passVars
<1>2. OthersKept(t) /\ pc'[t] \in Free
  BY <1>1, ContinueKept
<1>3. CASE jobs[j].status = "pending" /\ jobs' = Moved(j, w, n, pos)
  <2>1. RowsStep(t)
    BY <1>0, <1>3, MovedRows DEF TypeOK, RowsStep, RowStep
  <2>2. QED
    BY <1>0, <1>1, <1>2, <2>1, FreeStep
<1>4. CASE UNCHANGED jobs
  BY <1>0, <1>1, <1>2, <1>4, SameRows, FreeStep
<1>5. QED
  BY <1>3, <1>4 DEF PatchApply, Patchable

\* A requeued job is pending again; the other rows keep all but their order.
LEMMA RequeuedRows ==
    ASSUME jobs \in [JobIds -> Row], NEW j \in JobIds, NEW i \in JobIds
    PROVE  /\ i = j => /\ Requeued(j)[i].managed = jobs[j].managed
                       /\ Requeued(j)[i].worker = jobs[j].worker
                       /\ \/ Requeued(j)[i].status = "pending" /\ jobs[j].managed
                          \/ /\ Requeued(j)[i].status = "failed"
                             /\ Requeued(j)[i].gpus = jobs[j].gpus
           /\ i # j => \/ Requeued(j)[i] = jobs[i]
                       \/ /\ jobs[i].status = "pending"
                          /\ Requeued(j)[i].status = "pending"
                          /\ Requeued(j)[i].managed = jobs[i].managed
<1>1. \A r \in Row :
        LET q == [r EXCEPT !.status = "pending", !.gpus = {}, !.started = 0, !.order = 1]
        IN  q.managed = r.managed /\ q.worker = r.worker /\ q.status = "pending"
  BY DEF Row
<1>2. \A r \in Row : LET q == [r EXCEPT !.status = "failed"]
                     IN  /\ q.managed = r.managed /\ q.worker = r.worker
                         /\ q.gpus = r.gpus /\ q.status = "failed"
  BY DEF Row
<1>3. \A r \in Row : \A c : /\ [r EXCEPT !.order = c].status = r.status
                        /\ [r EXCEPT !.order = c].managed = r.managed
  BY DEF Row
<1>4. CASE i = j /\ jobs[j].managed
  <2>1. Requeued(j)[i] = [jobs[j] EXCEPT !.status = "pending", !.gpus = {},
                                         !.started = 0, !.order = 1]
    BY <1>4 DEF Requeued
  <2>2. /\ Requeued(j)[i].managed = jobs[j].managed
        /\ Requeued(j)[i].worker = jobs[j].worker
        /\ Requeued(j)[i].status = "pending"
    BY <1>1, <2>1
  <2>3. QED
    BY <1>4, <2>2
<1>5. CASE i = j /\ ~jobs[j].managed
  <2>1. Requeued(j)[i] = [jobs[j] EXCEPT !.status = "failed"]
    BY <1>5 DEF Requeued
  <2>2. QED
    BY <1>2, <1>5, <2>1
<1>6. CASE i # j
  <2>1. \/ Requeued(j)[i] = jobs[i]
        \/ i \in Pending(jobs[j].worker) /\ \E c : Requeued(j)[i] = [jobs[i] EXCEPT !.order = c]
    BY <1>6 DEF Requeued
  <2>2. QED
    BY <1>3, <1>6, <2>1 DEF Pending
<1>7. QED
  BY <1>4, <1>5, <1>6

LEMMA RecoverInv ==
    ASSUME IInv, NEW t \in Tasks, RecoverEnter(t) \/ ProbeAnswer(t) \/ ProbeUnknown(t)
    PROVE  Keeps
<1> DEFINE w == loc[t].w
           j == loc[t].j
<1>0. /\ TypeOK /\ TypeOK' /\ TaskInv(t)
      /\ w \in Workers /\ j \in JobIds /\ jobs[j] \in Row
  BY RecoverType, LocalsFields DEF IInv
<1>1. CASE RecoverEnter(t)
  <2>1. pc[t] = "recover" /\ UNCHANGED <<jobs, phase, todo>>
    BY <1>1 DEF RecoverEnter, passVars
  <2>2. CASE Continue(t, {}) /\ UNCHANGED lock
    BY <1>0, <2>1, <2>2, ContinueKept, SameRows, FreeStep
  <2>3. CASE /\ jobs[j].status = "starting" /\ Lock(t) /\ Goto(t, "probe") /\ UNCHANGED loc
    <3>1. OthersKept(t) /\ pc'[t] = "probe" /\ lock'[w] = t
      BY <1>0, <2>3, JobQueueAssumption DEF TypeOK, Lock, Goto, OthersKept
    <3>2. TaskInv(t)'
      BY <1>0, <2>1, <2>3, <3>1 DEF TaskInv, HoldsLock, OwnsRow, KnowsRow, Owning, Active
    <3>3. QED
      BY <1>0, <2>1, <3>1, <3>2, SameRows, TaskStep
  <2>4. QED
    BY <1>1, <2>2, <2>3 DEF RecoverEnter
<1>2. CASE ProbeAnswer(t)
  <2>1. /\ pc[t] = "probe" /\ pc[t] \in Holding /\ pc[t] \in Owning
        /\ UNCHANGED <<phase, todo>> /\ Leave(t, {})
    BY <1>2 DEF ProbeAnswer, passVars, Holding, Owning
  <2>2. CASE jobs' = [jobs EXCEPT ![j].status = "running"]
    <3>1. /\ \A i \in JobIds \ {j} : jobs'[i] = jobs[i]
          /\ jobs'[j] = [jobs[j] EXCEPT !.status = "running"]
      BY <1>0, <2>2 DEF TypeOK
    <3>2. jobs'[j].status = "running" /\ SameClaim(jobs'[j], jobs[j])
      BY <1>0, <3>1 DEF Row, SameClaim
    <3>3. RowsStep(t)
      BY <2>1, <3>1, <3>2 DEF RowsStep, RowStep, SameClaim
    <3>4. QED
      BY <1>0, <2>1, <3>3, LeaveKept, FreeStep
  <2>3. CASE jobs' = Requeued(j)
    <3>1. RowsStep(t)
      BY <1>0, <2>1, <2>3, RequeuedRows DEF TypeOK, RowsStep, RowStep
    <3>2. QED
      BY <1>0, <2>1, <3>1, LeaveKept, FreeStep
  <2>4. QED
    BY <1>2, <2>2, <2>3 DEF ProbeAnswer
<1>3. CASE ProbeUnknown(t)
  <2>1. pc[t] \in Holding /\ UNCHANGED <<jobs, phase, todo>> /\ Leave(t, {})
    BY <1>3 DEF ProbeUnknown, passVars, Holding
  <2>2. QED
    BY <1>0, <2>1, LeaveKept, SameRows, FreeStep
<1>4. QED
  BY <1>1, <1>2, <1>3

-----------------------------------------------------------------------------
(* Requests, the reconciliation pass, the workers and the faults.          *)

LEMMA RequestInv ==
    ASSUME IInv, NEW h \in Handlers, Request(h)
    PROVE  Keeps
<1>0. TypeOK /\ TypeOK' /\ h \in Tasks
  BY RequestType DEF IInv, Tasks
<1>1. ASSUME NEW w \in Workers, NEW j \in JobIds, NEW n \in Needs, Enqueue(h, w, j, n)
      PROVE  Keeps
  <2>1. PICK m : jobs' = [jobs EXCEPT ![j] = [NoRow EXCEPT !.worker = w,
                  !.status = "pending", !.managed = TRUE, !.need = n, !.order = m + 1]]
    BY <1>1 DEF Enqueue, Appended
  <2>2. /\ UNCHANGED <<phase, todo, lock>> /\ Goto(h, "dispatch")
        /\ \E x : loc' = [loc EXCEPT ![h] = x]
        /\ jobs[j].status = "none" /\ j \notin ImmediateIds
    BY <1>1 DEF Enqueue, passVars
  <2>3. OthersKept(h) /\ pc'[h] \in Free
    BY <1>0, <2>2, GotoKept DEF Free
  <2>4. /\ jobs'[j].status = "pending" /\ jobs'[j].managed
        /\ \A i \in JobIds \ {j} : jobs'[i] = jobs[i]
    <3>1. \A r \in Row : LET q == [r EXCEPT !.worker = w, !.status = "pending",
                                    !.managed = TRUE, !.need = n, !.order = m + 1]
                         IN  q.status = "pending" /\ q.managed
      BY DEF Row
    <3>2. QED
      BY <1>0, <2>1, <3>1, NullTypes DEF TypeOK
  <2>5. RowsStep(h)
    BY <2>2, <2>4 DEF RowsStep, RowStep, Unreserved, Active
  <2>6. QED
    BY <1>0, <2>2, <2>3, <2>5, FreeStep
<1>2. ASSUME NEW w \in Workers, NEW j \in JobIds, StartJob(h, w, j)
      PROVE  Keeps
  <2> DEFINE r == [NoRow EXCEPT !.worker = w, !.status = "starting", !.started = clock]
             l == [NoLocals EXCEPT !.w = w, !.j = j, !.row = r]
  <2>1. /\ UNCHANGED <<jobs, phase, todo, lock>> /\ Goto(h, "start")
        /\ loc' = [loc EXCEPT ![h] = l]
        /\ jobs[j].status = "none" /\ j \in ImmediateIds
        /\ \A t \in Tasks : pc[t] = "start" => loc[t].j # j
    BY <1>2 DEF StartJob, passVars
  <2>2. ~r.managed /\ r.status = "starting" /\ r.worker = w
    BY DEF NoRow
  <2>3. l.w = w /\ l.j = j /\ l.row = r
    BY DEF NoLocals
  <2> HIDE DEF r, l
  <2>4. OthersKept(h) /\ pc'[h] = "start" /\ loc'[h] = l
    BY <1>0, <2>1, GotoKept
  <2>5. TaskInv(h)'
    BY <2>1, <2>2, <2>3, <2>4 DEF TaskInv, HoldsLock, OwnsRow, KnowsRow, Holding, Owning
  <2>6. \A u \in Tasks : TaskInv(u)'
    BY <1>0, <2>1, <2>4, <2>5, SameRows, OthersInv
  <2>7. StartDistinct'
    BY <1>0, <2>1, <2>3, <2>4 DEF IInv, StartDistinct, OthersKept
  <2>8. QED
    BY <1>0, <2>1, <2>6, <2>7, SameRowsKeep
    DEF IInv, PendingManaged, RecoverKnown, GpuExclusive, Active, Keeps
<1>3. ASSUME NEW j \in JobIds, StopJob(h, j)
      PROVE  Keeps
  <2> DEFINE l == [NoLocals EXCEPT !.w = jobs[j].worker, !.j = j,
                                   !.avail = Snapshot({jobs[j].worker})]
  <2>1. /\ UNCHANGED <<jobs, phase, todo, lock>> /\ Goto(h, "stop")
        /\ loc' = [loc EXCEPT ![h] = l] /\ jobs[j].status # "none"
    BY <1>3 DEF StopJob, passVars
  <2>2. l.j = j
    BY DEF NoLocals
  <2> HIDE DEF l
  <2>3. OthersKept(h) /\ pc'[h] = "stop" /\ loc'[h] = l
    BY <1>0, <2>1, GotoKept
  <2>4. TaskInv(h)'
    BY <2>1, <2>2, <2>3 DEF TaskInv, HoldsLock, OwnsRow, KnowsRow, Holding, Owning
  <2>5. QED
    BY <1>0, <2>1, <2>3, <2>4, SameRows, TaskStep
<1>4. ASSUME \/ \E j \in JobIds : PollJob(h, j)
             \/ \E j \in JobIds, w \in Workers : PatchJob(h, j, w)
      PROVE  Keeps
  <2>1. /\ UNCHANGED <<jobs, phase, todo, lock>>
        /\ \E l \in Free : Goto(h, l)
        /\ \E x : loc' = [loc EXCEPT ![h] = x]
    BY <1>4 DEF PollJob, PatchJob, passVars, Free
  <2>2. OthersKept(h) /\ pc'[h] \in Free
    BY <1>0, <2>1, GotoKept
  <2>3. QED
    BY <1>0, <2>1, <2>2, SameRows, FreeStep
<1>5. QED
  BY <1>1, <1>2, <1>3, <1>4 DEF Request

\* What is left of the invariant when the part of the pass changes: only the
\* reconciler recovers, and only in its part of the pass.
LEMMA PassFrame ==
    ASSUME IInv, NEW t \in Tasks, OthersKept(t), UNCHANGED jobs, TypeOK',
           TaskInv(t)', pc'[t] # "start",
           \A u \in Tasks \ {t} : pc[u] \notin {"recover", "probe"},
           RecoverKnown'
    PROVE  Keeps
<1>1. ASSUME NEW u \in Tasks, u # t PROVE TaskInv(u)'
  <2>1. /\ TaskInv(u) /\ pc'[u] = pc[u] /\ loc'[u] = loc[u] /\ loc[u].w \in Workers
        /\ pc[u] \notin {"recover", "probe"}
    BY <1>1, LocalsFields DEF IInv, OthersKept
  <2>2. HoldsLock(u)'
    BY <1>1, <2>1 DEF TaskInv, HoldsLock, OthersKept
  <2>3. OwnsRow(u)' /\ KnowsRow(u)'
    BY <2>1 DEF TaskInv, OwnsRow, KnowsRow, Owning, SameClaim, Active
  <2>4. QED
    BY <2>2, <2>3 DEF TaskInv
<1>2. StartDistinct'
  BY DEF IInv, StartDistinct, OthersKept
<1>3. QED
  BY <1>1, <1>2, SameRowsKeep DEF IInv, PendingManaged, GpuExclusive, Active, Keeps

LEMMA PassInv ==
    ASSUME IInv, Pass
    PROVE  Keeps
<1>0. TypeOK /\ TypeOK' /\ Reconciler \in Tasks /\ Refreshers \subseteq Tasks
  BY PassType DEF IInv, Tasks
<1>1. \A u \in Tasks \ {Reconciler} : pc[u] \notin {"recover", "probe"}
  BY DEF IInv, TaskInv, KnowsRow
<1>2. phase # "recover" => pc[Reconciler] \notin {"recover", "probe"}
  BY <1>0 DEF IInv, TaskInv, KnowsRow
<1>3. ASSUME UNCHANGED <<jobs, lock, pc, loc>>, phase # "recover", RecoverKnown'
      PROVE  Keeps
  <2>1. OthersKept(Reconciler) /\ pc[Reconciler] \notin {"recover", "probe"}
    BY <1>2, <1>3 DEF OthersKept
  <2>2. \A u \in Tasks : TaskInv(u)'
    BY <1>1, <1>3, <2>1
    DEF IInv, TaskInv, HoldsLock, OwnsRow, KnowsRow, Owning, SameClaim, Active
  <2>3. QED
    BY <1>0, <1>3, <2>2, SameRowsKeep
    DEF IInv, StartDistinct, PendingManaged, GpuExclusive, Active, Keeps
<1>4. CASE PassRefresh
  BY <1>3, <1>4 DEF PassRefresh, RecoverKnown
<1>5. CASE PassRecover
  <2>1. RecoverKnown'
    BY <1>5 DEF PassRecover, RecoverKnown, Recoverable
  <2>2. QED
    BY <1>3, <1>5, <2>1 DEF PassRecover
<1>6. CASE PassDone
  BY <1>3, <1>6 DEF PassDone, RecoverKnown
<1>7. CASE RecoverNext
  <2>1. PICK j \in todo : /\ todo' = todo \ {j}
                          /\ loc' = [loc EXCEPT ![Reconciler] =
                                [NoLocals EXCEPT !.w = jobs[j].worker, !.j = j]]
    BY <1>7 DEF RecoverNext
  <2> DEFINE l == [NoLocals EXCEPT !.w = jobs[j].worker, !.j = j]
  <2>2. l.w = jobs[j].worker /\ l.j = j
    BY DEF NoLocals
  <2> HIDE DEF l
  <2>3. loc' = [loc EXCEPT ![Reconciler] = l]
    BY <2>1 DEF l
  <2>4. /\ phase = "recover" /\ UNCHANGED <<jobs, lock, phase>>
        /\ Goto(Reconciler, "recover")
    BY <1>7 DEF RecoverNext
  <2>5. OthersKept(Reconciler) /\ pc'[Reconciler] = "recover" /\ loc'[Reconciler] = l
    BY <1>0, <2>3, <2>4, GotoKept
  <2>6. jobs[j].status \notin {"none", "pending"}
    BY <2>4 DEF IInv, RecoverKnown
  <2>7. TaskInv(Reconciler)'
    BY <2>1, <2>2, <2>4, <2>5, <2>6
    DEF TaskInv, HoldsLock, OwnsRow, KnowsRow, Holding, Owning
  <2>8. RecoverKnown'
    BY <2>1, <2>4 DEF IInv, RecoverKnown
  <2>9. QED
    BY <1>0, <1>1, <2>4, <2>5, <2>7, <2>8, PassFrame
<1>8. CASE PassDispatch
  <2>1. /\ UNCHANGED <<jobs, lock>> /\ phase' = "dispatch"
        /\ \E l \in Free : Goto(Reconciler, l)
        /\ \E x : loc' = [loc EXCEPT ![Reconciler] = x]
    BY <1>8 DEF PassDispatch, Free
  <2>2. OthersKept(Reconciler) /\ pc'[Reconciler] \in Free
    BY <1>0, <2>1, GotoKept
  <2>3. QED
    BY <1>0, <1>1, <2>1, <2>2, FreeTask, PassFrame DEF RecoverKnown, Free
<1>9. ASSUME NEW r \in Refreshers, NEW j \in JobIds, RefreshNext(r, j)
      PROVE  Keeps
  <2>1. /\ UNCHANGED <<jobs, lock, phase>> /\ phase = "refresh" /\ pc[r] = "idle"
        /\ \/ Goto(r, "refresh") /\ \E x : loc' = [loc EXCEPT ![r] = x]
           \/ UNCHANGED <<pc, loc>>
    BY <1>9 DEF RefreshNext
  <2>2. OthersKept(r) /\ pc'[r] \in Free
    <3>1. CASE Goto(r, "refresh") /\ \E x : loc' = [loc EXCEPT ![r] = x]
      BY <1>0, <2>1, <3>1, GotoKept DEF Free
    <3>2. CASE UNCHANGED <<pc, loc>>
      BY <2>1, <3>2 DEF OthersKept, Free
    <3>3. QED
      BY <2>1, <3>1, <3>2
  <2>3. \A u \in Tasks \ {r} : pc[u] \notin {"recover", "probe"}
    BY <1>1, <1>2, <2>1
  <2>4. QED
    BY <1>0, <2>1, <2>2, <2>3, FreeTask, PassFrame DEF RecoverKnown, Free
<1>10. QED
  BY <1>4, <1>5, <1>6, <1>7, <1>8, <1>9 DEF Pass

\* Steps that leave the control process alone.
LEMMA OutsideInv ==
    ASSUME IInv, TypeOK', UNCHANGED <<jobs, lock, pc, loc, phase, todo>>
    PROVE  Keeps
<1>1. \A u \in Tasks : TaskInv(u)'
  BY DEF IInv, TaskInv, HoldsLock, OwnsRow, KnowsRow, Owning, SameClaim, Active
<1>2. QED
  BY <1>1, SameRowsKeep
  DEF IInv, StartDistinct, PendingManaged, RecoverKnown, GpuExclusive, Active, Keeps

LEMMA FailureInv ==
    ASSUME IInv, Failure
    PROVE  Keeps
<1>0. TypeOK /\ TypeOK'
  BY FailureType DEF IInv
<1>1. ASSUME NEW t \in Tasks, LaunchUnknown(t) \/ KillUnknown(t) \/ ProbeUnknown(t)
      PROVE  Keeps
  BY <1>1, LaunchInv, StopInv, RecoverInv
<1>2. ASSUME NEW t \in Tasks, Abort(t)
      PROVE  Keeps
  <2>1. /\ UNCHANGED <<jobs, phase, todo>>
        /\ lock' = [w \in Workers |-> IF lock[w] = t THEN NoTask ELSE lock[w]]
        /\ \E d : Continue(t, d)
    BY <1>2 DEF Abort, passVars
  <2>2. OthersKept(t) /\ pc'[t] \in Free
    BY <1>0, <2>1 DEF TypeOK, Continue, OthersKept, Free
  <2>3. QED
    BY <1>0, <2>1, <2>2, SameRows, FreeStep
<1>3. ASSUME NEW w \in Workers, Prune(w)
      PROVE  Keeps
  BY <1>0, <1>3, OutsideInv DEF Prune, passVars
<1>4. ASSUME NEW w \in Workers, NEW j \in JobIds, Lost(w, j)
      PROVE  Keeps
  BY <1>0, <1>4, OutsideInv DEF Lost, passVars
<1>5. CASE Crash
  <2>1. /\ UNCHANGED jobs /\ phase' = "sleep"
        /\ \A t \in Tasks : pc'[t] = "idle"
    BY <1>5 DEF Crash
  <2>2. \A t \in Tasks : TaskInv(t)'
    BY <2>1, FreeTask DEF Free
  <2>3. QED
    BY <1>0, <2>1, <2>2, SameRowsKeep
    DEF IInv, StartDistinct, PendingManaged, RecoverKnown, GpuExclusive, Active, Keeps
<1>6. QED
  BY <1>1, <1>2, <1>3, <1>4, <1>5 DEF Failure

LEMMA WorldInv ==
    ASSUME IInv, World
    PROVE  Keeps
<1>1. TypeOK'
  BY WorldType DEF IInv
<1>2. UNCHANGED <<jobs, lock, pc, loc, phase, todo>>
  BY DEF World, Heartbeat, Exit, LateStart, Tick, passVars
<1>3. QED
  BY <1>1, <1>2, OutsideInv

-----------------------------------------------------------------------------
LEMMA InitIInv == Init => IInv
<1>1. SUFFICES ASSUME Init PROVE IInv
  OBVIOUS
<1>2. TypeOK
  BY <1>1, InitType
<1>3. \A t \in Tasks : TaskInv(t)
  BY <1>1 DEF Init, TaskInv, HoldsLock, OwnsRow, KnowsRow, Holding, Owning
<1>4. StartDistinct /\ RecoverKnown
  BY <1>1 DEF Init, StartDistinct, RecoverKnown
<1>5. PendingManaged /\ GpuExclusive
  BY <1>1 DEF Init, PendingManaged, GpuExclusive, NoRow, Active
<1>6. QED
  BY <1>2, <1>3, <1>4, <1>5 DEF IInv

LEMMA NextIInv == IInv /\ [Next]_vars => Keeps
<1>1. SUFFICES ASSUME IInv, [Next]_vars PROVE Keeps
  OBVIOUS
<1>2. CASE UNCHANGED vars
  <2>1. TypeOK'
    BY <1>1, <1>2, NextType DEF IInv
  <2>2. QED
    BY <1>1, <1>2, <2>1, OutsideInv DEF vars
<1>3. ASSUME NEW t \in Tasks, Step(t) PROVE Keeps
  BY <1>1, <1>3, DispatchInv, LaunchInv, StartInsertInv, StopInv, RefreshInv, RecoverInv,
     PatchInv DEF Step
<1>4. QED
  BY <1>1, <1>2, <1>3, RequestInv, PassInv, WorldInv, FailureInv DEF Next

\* No GPU of a worker is ever reserved by two queued jobs: for any number of
\* workers, GPUs, jobs, handlers, refreshers and faults, with launches that
\* arrive late, telemetry that is stale, PATCHes that race with claims and
\* restarts at any point.
THEOREM ReservationsExclusive == Spec => []GpuExclusive
<1>1. IInv => GpuExclusive
  BY DEF IInv
<1>2. IInv /\ [Next]_vars => IInv'
  BY NextIInv DEF Keeps
<1>3. QED
  BY <1>1, <1>2, InitIInv, PTL DEF Spec

\* A row that says done or failed is never written again, whatever a launch, a
\* refresh, a stop or a recovery read before the job finished.
THEOREM FinishedRowsFinal == Spec => TerminalStable
<1>1. IInv /\ [Next]_vars => IInv'
  BY NextIInv DEF Keeps
<1>2. IInv /\ [Next]_vars => [\A j \in JobIds : Terminal(jobs[j]) => jobs'[j] = jobs[j]]_jobs
  BY NextIInv DEF Keeps, Final
<1>3. QED
  BY <1>1, <1>2, InitIInv, PTL DEF Spec, TerminalStable

\* The queue implements GpuReservation: whatever its tasks, the workers and the
\* faults do, GPUs are taken in one step by a job that had none and only when
\* they are free, never change while they are held, and are given back at once.
THEOREM QueueReserves == Spec => ImplementsReservation
<1>1. Init => Reservation!Init
  BY DEF Init, Reservation!Init, Held, NoRow, Active
<1>2. IInv /\ [Next]_vars => IInv'
  BY NextIInv DEF Keeps
<1>3. IInv /\ [Next]_vars => [Reservation!Next]_Held
  BY NextIInv DEF Keeps, Refines
<1>4. QED
  BY <1>1, <1>2, <1>3, InitIInv, PTL DEF Spec, ImplementsReservation, Reservation!Spec

-----------------------------------------------------------------------------
(* Sessions.  A job has a session only where its row is, and none before   *)
(* the row was claimed; a task that may declare the job over knows that no *)
(* session of it lives.                                                    *)

SessionsKnown ==
    \A v \in Workers, j \in JobIds :
        remote[v][j].st # "none" => /\ jobs[j].status \notin {"none", "pending"}
                                    /\ jobs[j].worker = v

LiveRows ==
    \A v \in Workers, j \in JobIds :
        remote[v][j].st = "live" => /\ Active(jobs[j])
                                    /\ jobs[j].gpus = remote[v][j].gpus

Unstarted(j) == \A v \in Workers : remote[v][j].st = "none"
NotLive(j) == \A v \in Workers : remote[v][j].st # "live"

\* A launch that has not taken effect, or was refused, has no session; a row
\* about to be closed has no live one.
Fresh(t) ==
    /\ pc[t] = "launch" /\ ~loc[t].took => Unstarted(loc[t].j)
    /\ pc[t] = "write" /\ loc[t].row.status = "failed" => Unstarted(loc[t].j)
    /\ pc[t] = "settle" => NotLive(loc[t].j)

SInv ==
    /\ late = {}
    /\ SessionsKnown
    /\ LiveRows
    /\ \A t \in Tasks : Fresh(t)

-----------------------------------------------------------------------------
(* What a step of task t does to the sessions.                             *)

\* A session that was live is over.
Ends(v, j) == remote[v][j].st = "live" /\ remote'[v][j].st \notin {"none", "live"}

SessionStep(t, v, j) ==
    \/ remote'[v][j] = remote[v][j]
    \/ Ends(v, j)
    \/ /\ pc[t] = "launch" /\ ~loc[t].took
       /\ j = loc[t].j

SessionsStep(t) == \A v \in Workers, j \in JobIds : SessionStep(t, v, j)

OthersStay(t) == \A u \in Tasks \ {t} : pc'[u] = pc[u] /\ loc'[u] = loc[u]

Once ==
    \A w, v \in Workers, j \in JobIds :
        remote[w][j].st # "none" /\ remote[v][j].st # "live" => remote'[v][j].st # "live"

SKeeps == SInv' /\ Once

\* Two tasks never own one row.
LEMMA OwnersDiffer ==
    ASSUME IInv, NEW t \in Tasks, NEW u \in Tasks, u # t,
           pc[t] \in Owning, pc[u] \in Owning
    PROVE  loc[t].j # loc[u].j
  BY DEF IInv, TaskInv, HoldsLock, OwnsRow, Owning, Holding

LEMMA SessionFrame ==
    ASSUME IInv, SInv, NEW t \in Tasks, OthersStay(t), SessionsStep(t),
           late' = {}, SessionsKnown', LiveRows', Fresh(t)'
    PROVE  SKeeps
<1>1. ASSUME NEW u \in Tasks, u # t PROVE Fresh(u)'
  <2>1. /\ pc'[u] = pc[u] /\ loc'[u] = loc[u] /\ Fresh(u) /\ loc[u].j \in JobIds
    BY <1>1, LocalsFields DEF OthersStay, SInv, IInv
  <2>2. ASSUME pc[u] \in {"launch", "write", "settle"}, NEW v \in Workers
        PROVE  remote'[v][loc[u].j] = remote[v][loc[u].j] \/ Ends(v, loc[u].j)
    <3>1. ~(pc[t] = "launch" /\ loc[u].j = loc[t].j)
      BY <1>1, <2>2, OwnersDiffer DEF Owning
    <3>2. SessionStep(t, v, loc[u].j)
      BY <2>1, <2>2 DEF SessionsStep
    <3>3. QED
      BY <3>1, <3>2 DEF SessionStep
  <2>3. QED
    BY <2>1, <2>2 DEF Fresh, Unstarted, NotLive, Ends
<1>2. Once
  <2>1. SUFFICES ASSUME NEW w \in Workers, NEW v \in Workers, NEW j \in JobIds,
                        remote[w][j].st # "none", remote[v][j].st # "live"
                 PROVE  remote'[v][j].st # "live"
    BY DEF Once
  <2>2. ~(pc[t] = "launch" /\ ~loc[t].took /\ j = loc[t].j)
    BY <2>1 DEF SInv, Fresh, Unstarted
  <2>3. QED
    BY <2>1, <2>2 DEF SessionsStep, SessionStep, Ends
<1>3. QED
  BY <1>1, <1>2 DEF SInv, SKeeps

\* The task may be in one of the places where its job's sessions matter.
Handing == {"launch", "write", "settle"}

\* A step that leaves rows and sessions alone.
LEMMA QuietStep ==
    ASSUME IInv, SInv, NEW t \in Tasks, OthersStay(t), UNCHANGED <<jobs, remote>>,
           late' = {}, Fresh(t)'
    PROVE  SKeeps
<1>1. SessionsKnown' /\ LiveRows' /\ SessionsStep(t)
  BY DEF SInv, SessionsKnown, LiveRows, Active, SessionsStep, SessionStep
<1>2. QED
  BY <1>1, SessionFrame

LEMMA NotHanding ==
    ASSUME NEW t \in Tasks, pc'[t] \notin Handing
    PROVE  Fresh(t)'
  BY DEF Fresh, Handing

\* Without late delivery an abandoned launch is gone.
LEMMA AbandonNone ==
    ASSUME ~LateDelivery, late = {}, NEW T, Abandon(T)
    PROVE  late' = {}
  BY DEF Abandon

\* How a task leaves a step, again.
LEMMA LeaveStays ==
    ASSUME TypeOK, NEW t \in Tasks, NEW d,
           Leave(t, d) \/ Continue(t, d) \/ AfterLaunch(t)
    PROVE  OthersStay(t) /\ pc'[t] \notin Handing
  BY DEF TypeOK, Leave, Continue, AfterLaunch, Goto, OthersStay, Handing

LEMMA GotoStays ==
    ASSUME TypeOK, NEW t \in Tasks, NEW l, Goto(t, l),
           UNCHANGED loc \/ \E x : loc' = [loc EXCEPT ![t] = x]
    PROVE  OthersStay(t) /\ pc'[t] = l
  BY DEF TypeOK, Goto, OthersStay

-----------------------------------------------------------------------------
(* The steps of a task.                                                    *)

LEMMA QuietSessions ==
    ASSUME IInv, SInv, ~LateDelivery, NEW t \in Tasks,
           \/ DispatchBegin(t) \/ Scan(t) \/ LaunchUnknown(t)
           \/ StopEnter(t) \/ RefreshEnter(t) \/ PollNothing(t)
           \/ RecoverEnter(t) \/ ProbeUnknown(t)
    PROVE  SKeeps
<1>0. TypeOK /\ late = {}
  BY DEF IInv, SInv
<1>1. UNCHANGED <<jobs, remote>>
  BY DEF DispatchBegin, Scan, LaunchUnknown, StopEnter, RefreshEnter, PollNothing,
         RecoverEnter, ProbeUnknown, remoteVars
<1>2. late' = {}
  BY <1>0, AbandonNone
  DEF DispatchBegin, Scan, LaunchUnknown, StopEnter, RefreshEnter, PollNothing,
      RecoverEnter, ProbeUnknown, remoteVars
<1>3. OthersStay(t) /\ pc'[t] \notin Handing
  <2>1. CASE \/ \E d : Leave(t, d) \/ Continue(t, d)
             \/ AfterLaunch(t)
    BY <1>0, <2>1, LeaveStays
  <2>2. CASE /\ \E l : l \notin Handing /\ Goto(t, l)
             /\ UNCHANGED loc \/ \E x : loc' = [loc EXCEPT ![t] = x]
    BY <1>0, <2>2, GotoStays
  <2>3. QED
    BY <1>0, <2>1, <2>2
    DEF DispatchBegin, Scan, LaunchUnknown, StopEnter, RefreshEnter, PollNothing,
        RecoverEnter, ProbeUnknown, Handing
<1>4. QED
  BY <1>1, <1>2, <1>3, NotHanding, QuietStep

\* The launch: the claim, its effect, its answer and the row that is stored.
LEMMA ClaimSessions ==
    ASSUME IInv, SInv, NEW t \in Tasks, Claim(t)
    PROVE  SKeeps
<1> DEFINE j == loc[t].j
           row == [jobs[j] EXCEPT !.status = "starting", !.gpus = loc[t].gpus,
                                  !.started = clock]
<1>0. /\ TypeOK /\ loc[t] \in Locals /\ j \in JobIds /\ jobs[j] \in Row
      /\ UNCHANGED remote /\ late' = {}
  BY LocalsFields DEF IInv, SInv, Claim, remoteVars
<1>1. CASE /\ Claimable(j, loc[t].w, loc[t].gpus)
           /\ jobs' = [jobs EXCEPT ![j] = row]
           /\ loc' = [loc EXCEPT ![t] = [@ EXCEPT !.row = row, !.took = FALSE]]
           /\ Goto(t, "launch")
  <2>1. OthersStay(t) /\ pc'[t] = "launch"
    BY <1>0, <1>1, GotoStays
  <2>2. loc'[t].j = j
    BY <1>0, <1>1 DEF TypeOK, Locals
  <2>3. Unstarted(j)
    BY <1>0, <1>1 DEF SInv, SessionsKnown, Unstarted, Claimable
  <2>4. Fresh(t)'
    BY <1>0, <2>1, <2>2, <2>3 DEF Fresh, Unstarted
  <2>5. \A i \in JobIds \ {j} : jobs'[i] = jobs[i]
    BY <1>0, <1>1 DEF TypeOK
  <2>6. SessionsKnown' /\ LiveRows' /\ SessionsStep(t)
    BY <1>0, <2>3, <2>5
    DEF SInv, SessionsKnown, LiveRows, Unstarted, Active, SessionsStep, SessionStep
  <2>7. QED
    BY <1>0, <2>1, <2>4, <2>6, SessionFrame
<1>2. CASE Goto(t, "scan") /\ UNCHANGED <<jobs, loc>>
  BY <1>0, <1>2, GotoStays, NotHanding, QuietStep DEF Handing
<1>3. QED
  BY <1>0, <1>1, <1>2 DEF Claim

LEMMA EffectSessions ==
    ASSUME IInv, SInv, NEW t \in Tasks, LaunchEffect(t)
    PROVE  SKeeps
<1> DEFINE w == loc[t].w
           j == loc[t].j
           new == [st |-> "live", gpus |-> loc[t].row.gpus]
<1>0. /\ TypeOK /\ loc[t] \in Locals /\ w \in Workers /\ j \in JobIds
      /\ pc[t] = "launch" /\ ~loc[t].took /\ late' = {} /\ UNCHANGED <<jobs, pc>>
      /\ remote' = [remote EXCEPT ![w][j] = new]
      /\ loc' = [loc EXCEPT ![t].took = TRUE]
  BY LocalsFields DEF IInv, SInv, LaunchEffect
<1>1. /\ remote'[w][j] = new
      /\ \A v \in Workers, i \in JobIds :
            v # w \/ i # j => remote'[v][i] = remote[v][i]
  BY <1>0 DEF TypeOK
<1>2. OthersStay(t) /\ pc'[t] = "launch" /\ loc'[t].took
  BY <1>0 DEF TypeOK, Locals, OthersStay
<1>3. /\ jobs[j].status = "starting" /\ jobs[j].worker = w
      /\ jobs[j].gpus = loc[t].row.gpus
  BY <1>0 DEF IInv, TaskInv, OwnsRow, Owning, SameClaim
<1>4. SessionsKnown' /\ LiveRows'
  BY <1>0, <1>1, <1>3 DEF SInv, SessionsKnown, LiveRows, Active
<1>5. SessionsStep(t)
  BY <1>0, <1>1 DEF SessionsStep, SessionStep
<1>6. Fresh(t)'
  BY <1>2 DEF Fresh
<1>7. QED
  BY <1>0, <1>2, <1>4, <1>5, <1>6, SessionFrame

LEMMA AnswerSessions ==
    ASSUME IInv, SInv, NEW t \in Tasks, LaunchAnswer(t)
    PROVE  SKeeps
<1> DEFINE s == IF loc[t].took THEN "running" ELSE "failed"
<1>0. /\ TypeOK /\ loc[t] \in Locals /\ loc[t].row \in Row
      /\ pc[t] = "launch" /\ UNCHANGED <<jobs, remote>> /\ late' = {} /\ Goto(t, "write")
      /\ loc' = [loc EXCEPT ![t].row = [@ EXCEPT !.status = s]]
  BY LocalsFields DEF IInv, SInv, LaunchAnswer, remoteVars
<1>1. OthersStay(t) /\ pc'[t] = "write"
  BY <1>0 DEF TypeOK, Goto, OthersStay
<1>2. loc'[t].j = loc[t].j /\ loc'[t].row = [loc[t].row EXCEPT !.status = s]
  BY <1>0 DEF TypeOK, Locals
<1>3. loc'[t].row.status = s
  BY <1>0, <1>2 DEF Row
<1>4. Fresh(t)'
  BY <1>0, <1>1, <1>2, <1>3 DEF SInv, Fresh, Unstarted
<1>5. QED
  BY <1>0, <1>1, <1>4, QuietStep

\* A step that writes the row of the task's job: what it writes keeps the
\* worker and the GPUs, and a row that is over has no live session.
LEMMA OwnRowSessions ==
    ASSUME IInv, SInv, NEW t \in Tasks, OthersStay(t), pc'[t] \notin Handing,
           UNCHANGED remote, late' = {},
           NEW j \in JobIds, NEW r, SameClaim(r, jobs[j]),
           jobs' = [jobs EXCEPT ![j] = r],
           \/ r.status = "running"
           \/ r.status \in {"done", "failed"} /\ NotLive(j)
    PROVE  SKeeps
<1>1. jobs'[j] = r /\ \A i \in JobIds \ {j} : jobs'[i] = jobs[i]
  BY DEF IInv, TypeOK
<1>2. SessionsKnown' /\ LiveRows' /\ SessionsStep(t)
  BY <1>1
  DEF SInv, SessionsKnown, LiveRows, NotLive, SameClaim, Active, SessionsStep, SessionStep
<1>3. QED
  BY <1>2, NotHanding, SessionFrame

LEMMA WriteSessions ==
    ASSUME IInv, SInv, NEW t \in Tasks, LaunchWrite(t) \/ Settle(t)
    PROVE  SKeeps
<1> DEFINE j == loc[t].j
<1>0. TypeOK /\ j \in JobIds /\ TaskInv(t) /\ Fresh(t)
  BY LocalsFields DEF IInv, SInv
<1>1. /\ UNCHANGED remote /\ late' = {} /\ jobs' = [jobs EXCEPT ![j] = loc[t].row]
      /\ pc[t] \in {"write", "settle"}
      /\ \E d : Leave(t, d) \/ AfterLaunch(t)
  BY DEF SInv, LaunchWrite, Settle, remoteVars
<1>2. OthersStay(t) /\ pc'[t] \notin Handing
  BY <1>0, <1>1, LeaveStays
<1>3. SameClaim(loc[t].row, jobs[j])
  BY <1>0, <1>1 DEF TaskInv, OwnsRow
<1>4. \/ loc[t].row.status = "running"
      \/ loc[t].row.status \in {"done", "failed"} /\ NotLive(j)
  <2>1. CASE pc[t] = "write"
    BY <1>0, <2>1 DEF TaskInv, OwnsRow, Fresh, Unstarted, NotLive
  <2>2. CASE pc[t] = "settle"
    BY <1>0, <2>2 DEF TaskInv, OwnsRow, Fresh
  <2>3. QED
    BY <1>1, <2>1, <2>2
<1>5. QED
  BY <1>0, <1>1, <1>2, <1>3, <1>4, OwnRowSessions

LEMMA InsertSessions ==
    ASSUME IInv, SInv, NEW t \in Tasks, StartInsert(t)
    PROVE  SKeeps
<1> DEFINE j == loc[t].j
<1>0. /\ TypeOK /\ j \in JobIds /\ pc[t] = "start" /\ Goto(t, "launch")
      /\ UNCHANGED <<remote, loc>> /\ late' = {}
      /\ jobs' = [jobs EXCEPT ![j] = loc[t].row]
  BY LocalsFields DEF IInv, SInv, StartInsert, remoteVars
<1>1. OthersStay(t) /\ pc'[t] = "launch"
  BY <1>0, GotoStays
<1>2. Unstarted(j)
  BY <1>0 DEF IInv, TaskInv, KnowsRow, SInv, SessionsKnown, Unstarted
<1>3. Fresh(t)'
  BY <1>0, <1>1, <1>2 DEF Fresh, Unstarted
<1>4. \A i \in JobIds \ {j} : jobs'[i] = jobs[i]
  BY <1>0 DEF TypeOK
<1>5. SessionsKnown' /\ LiveRows' /\ SessionsStep(t)
  BY <1>0, <1>2, <1>4
  DEF SInv, SessionsKnown, LiveRows, Unstarted, Active, SessionsStep, SessionStep
<1>6. QED
  BY <1>0, <1>1, <1>3, <1>5, SessionFrame
\* A step that changes only rows of jobs without a session.
LEMMA UnstartedRows ==
    ASSUME IInv, SInv, NEW t \in Tasks, OthersStay(t), pc'[t] \notin Handing,
           UNCHANGED remote, late' = {},
           \A i \in JobIds : \/ jobs'[i] = jobs[i]
                             \/ jobs[i].status \in {"none", "pending"}
                             \/ Unstarted(i)
    PROVE  SKeeps
<1>1. \A i \in JobIds : jobs'[i] = jobs[i] \/ Unstarted(i)
  BY DEF SInv, SessionsKnown, Unstarted
<1>2. SessionsKnown' /\ LiveRows' /\ SessionsStep(t)
  BY <1>1
  DEF SInv, SessionsKnown, LiveRows, Unstarted, Active, SessionsStep, SessionStep
<1>3. QED
  BY <1>2, NotHanding, SessionFrame

LEMMA DropSessions ==
    ASSUME IInv, SInv, NEW t \in Tasks, DropPending(t)
    PROVE  SKeeps
<1> DEFINE j == loc[t].j
           v == jobs[j].worker
<1>0. /\ TypeOK /\ j \in JobIds /\ v \in Workers
      /\ UNCHANGED remote /\ late' = {} /\ \E d : Leave(t, d)
  BY LocalsFields DEF IInv, SInv, DropPending, remoteVars, Row
<1>1. OthersStay(t) /\ pc'[t] \notin Handing
  BY <1>0, LeaveStays
<1>2. ASSUME NEW i \in JobIds
      PROVE  jobs'[i] = jobs[i] \/ jobs[i].status \in {"none", "pending"}
  <2>1. CASE UNCHANGED jobs
    BY <2>1
  <2>2. CASE /\ j \in Pending(v)
             /\ jobs' = [Close(v, j) EXCEPT ![j] = [jobs[j] EXCEPT
                              !.status = "failed", !.order = 0]]
    <3>1. Close(v, j) \in [JobIds -> Row]
      BY <1>0, CloseType DEF TypeOK
    <3>2. i # j => jobs'[i] = Close(v, j)[i]
      BY <1>0, <2>2, <3>1
    <3>3. QED
      BY <1>0, <2>2, <3>2, CloseRows DEF TypeOK, Pending
  <2>3. QED
    BY <2>1, <2>2 DEF DropPending
<1>3. QED
  BY <1>0, <1>1, <1>2, UnstartedRows

LEMMA PatchSessions ==
    ASSUME IInv, SInv, NEW t \in Tasks, NEW n \in Needs, NEW pos \in Positions \cup {0},
           PatchApply(t, n, pos)
    PROVE  SKeeps
<1> DEFINE j == loc[t].j
           w == IF pc[t] = "patchTo" THEN loc[t].w ELSE jobs[j].worker
<1>0. /\ TypeOK /\ j \in JobIds /\ w \in Workers
      /\ UNCHANGED remote /\ late' = {} /\ \E d : Continue(t, d)
  BY LocalsFields DEF IInv, SInv, PatchApply, remoteVars, Row
<1>1. OthersStay(t) /\ pc'[t] \notin Handing
  BY <1>0, LeaveStays
<1>2. \/ UNCHANGED jobs
      \/ jobs[j].status = "pending" /\ jobs' = Moved(j, w, n, pos)
  BY DEF PatchApply, Patchable
<1>3. \A i \in JobIds : jobs'[i] = jobs[i] \/ jobs[i].status \in {"none", "pending"}
  BY <1>0, <1>2, MovedRows DEF TypeOK
<1>4. QED
  BY <1>0, <1>1, <1>3, UnstartedRows

\* A probe that says absent requeues or fails a job that has no session
\* anywhere: on another worker the row would not be.
LEMMA ProbeSessions ==
    ASSUME IInv, SInv, NEW t \in Tasks, ProbeAnswer(t)
    PROVE  SKeeps
<1> DEFINE j == loc[t].j
           w == loc[t].w
<1>0. /\ TypeOK /\ TaskInv(t) /\ j \in JobIds /\ w \in Workers /\ jobs[j] \in Row
      /\ pc[t] = "probe" /\ UNCHANGED remote /\ late' = {} /\ Leave(t, {})
  BY LocalsFields DEF IInv, SInv, ProbeAnswer, remoteVars
<1>1. OthersStay(t) /\ pc'[t] \notin Handing
  BY <1>0, LeaveStays
<1>2. CASE jobs' = [jobs EXCEPT ![j].status = "running"]
  <2> DEFINE r == [jobs[j] EXCEPT !.status = "running"]
  <2>1. SameClaim(r, jobs[j]) /\ r.status = "running"
    BY <1>0 DEF Row, SameClaim
  <2>2. jobs' = [jobs EXCEPT ![j] = r]
    BY <1>0, <1>2 DEF TypeOK
  <2> HIDE DEF r
  <2>3. QED
    BY <1>0, <1>1, <2>1, <2>2, OwnRowSessions
<1>3. CASE ~JobStarted(w, j) /\ jobs' = Requeued(j)
  <2>1. Unstarted(j)
    BY <1>0, <1>3
    DEF JobStarted, TaskInv, KnowsRow, SInv, SessionsKnown, Unstarted
  <2>2. \A i \in JobIds : \/ jobs'[i] = jobs[i] \/ jobs[i].status = "pending" \/ i = j
    BY <1>0, <1>3, RequeuedRows DEF TypeOK
  <2>3. QED
    BY <1>0, <1>1, <2>1, <2>2, UnstartedRows
<1>4. QED
  BY <1>2, <1>3 DEF ProbeAnswer

\* A step that leaves the rows alone and may end sessions.
LEMMA EndingStep ==
    ASSUME IInv, SInv, NEW t \in Tasks, OthersStay(t), UNCHANGED jobs, late' = {},
           \A v \in Workers, j \in JobIds : remote'[v][j] = remote[v][j] \/ Ends(v, j),
           Fresh(t)' \/ UNCHANGED <<pc, loc>>
    PROVE  SKeeps
<1>1. SessionsKnown' /\ LiveRows' /\ SessionsStep(t)
  BY DEF SInv, SessionsKnown, LiveRows, Active, SessionsStep, SessionStep, Ends
<1>2. ASSUME UNCHANGED <<pc, loc>> PROVE Fresh(t)'
  <2>1. Fresh(t) /\ loc[t].j \in JobIds
    BY LocalsFields DEF SInv, IInv
  <2>2. QED
    BY <1>2, <2>1 DEF Fresh, Unstarted, NotLive, Ends
<1>3. QED
  BY <1>1, <1>2, SessionFrame

LEMMA KilledEnds ==
    ASSUME TypeOK, NEW w \in Workers, NEW j \in JobIds, remote' \in {remote, Killed(w, j)}
    PROVE  \A v \in Workers, i \in JobIds : remote'[v][i] = remote[v][i] \/ Ends(v, i)
<1>1. CASE remote' = remote
  BY <1>1
<1>2. CASE remote[w][j].st = "live" /\ remote' = Killed(w, j)
  <2>1. remote' = [remote EXCEPT ![w][j] = [st |-> "dead", gpus |-> {}]]
    BY <1>2 DEF Killed
  <2>2. /\ remote'[w][j] = [st |-> "dead", gpus |-> {}]
        /\ \A v \in Workers, i \in JobIds :
               v # w \/ i # j => remote'[v][i] = remote[v][i]
    BY <2>1 DEF TypeOK
  <2>3. QED
    BY <1>2, <2>2 DEF Ends
<1>3. QED
  BY <1>1, <1>2 DEF Killed

LEMMA KillSessions ==
    ASSUME IInv, SInv, NEW t \in Tasks, KillAnswer(t) \/ KillUnknown(t)
    PROVE  SKeeps
<1> DEFINE w == loc[t].w
           j == loc[t].j
<1>0. /\ TypeOK /\ TaskInv(t) /\ j \in JobIds /\ w \in Workers /\ jobs[j] \in Row
      /\ loc[t] \in Locals /\ pc[t] = "kill" /\ UNCHANGED jobs /\ late' = {}
      /\ remote' \in {remote, Killed(w, j)}
  BY LocalsFields DEF IInv, SInv, KillAnswer, KillUnknown
<1>1. \A v \in Workers, i \in JobIds : remote'[v][i] = remote[v][i] \/ Ends(v, i)
  BY <1>0, KilledEnds
<1>2. CASE Leave(t, {})
  BY <1>0, <1>1, <1>2, LeaveStays, NotHanding, EndingStep
<1>3. CASE /\ loc' = [loc EXCEPT ![t].row = [jobs[j] EXCEPT !.status = "failed"]]
           /\ Goto(t, "settle") /\ remote' = Killed(w, j)
  <2>1. OthersStay(t) /\ pc'[t] = "settle" /\ loc'[t].j = j
    BY <1>0, <1>3 DEF TypeOK, Locals, Goto, OthersStay
  <2>2. remote'[w][j].st # "live"
    BY <1>0, <1>3 DEF TypeOK, Killed
  <2>3. ASSUME NEW v \in Workers, v # w PROVE remote[v][j].st = "none"
    BY <1>0, <2>3 DEF TaskInv, OwnsRow, Owning, SInv, SessionsKnown
  <2>4. \A v \in Workers : remote'[v][j].st # "live"
    BY <1>0, <1>1, <2>2, <2>3 DEF Ends
  <2>5. Fresh(t)'
    BY <2>1, <2>4 DEF Fresh, NotLive
  <2>6. QED
    BY <1>0, <1>1, <2>1, <2>5, EndingStep
<1>4. QED
  BY <1>2, <1>3 DEF KillAnswer, KillUnknown

LEMMA ExitSessions ==
    ASSUME IInv, SInv, NEW t \in Tasks, PollExit(t)
    PROVE  SKeeps
<1> DEFINE w == loc[t].w
           j == loc[t].j
<1>0. /\ TypeOK /\ TaskInv(t) /\ j \in JobIds /\ w \in Workers
      /\ pc[t] = "poll" /\ UNCHANGED <<jobs, remote>> /\ late' = {} /\ Goto(t, "settle")
      /\ remote[w][j].st \in Exits
      /\ \E x : loc' = [loc EXCEPT ![t].row = x]
  BY LocalsFields DEF IInv, SInv, PollExit, remoteVars
<1>1. OthersStay(t) /\ pc'[t] = "settle" /\ loc'[t].j = j
  BY <1>0 DEF TypeOK, Locals, Goto, OthersStay
<1>2. ASSUME NEW v \in Workers, v # w PROVE remote[v][j].st = "none"
  BY <1>0, <1>2 DEF TaskInv, OwnsRow, Owning, SInv, SessionsKnown
<1>3. Fresh(t)'
  BY <1>0, <1>1, <1>2 DEF Fresh, NotLive, Exits
<1>4. QED
  BY <1>0, <1>1, <1>3, QuietStep

-----------------------------------------------------------------------------
(* Requests, the reconciliation pass, the workers and the faults.          *)

LEMMA RequestSessions ==
    ASSUME IInv, SInv, NEW h \in Handlers, Request(h)
    PROVE  SKeeps
<1>0. /\ TypeOK /\ h \in Tasks /\ UNCHANGED remote /\ late' = {}
      /\ \E l : l \notin Handing /\ Goto(h, l)
      /\ \E x : loc' = [loc EXCEPT ![h] = x]
  BY DEF IInv, SInv, Tasks, Request, Enqueue, StartJob, StopJob, PollJob, PatchJob,
         remoteVars, Handing
<1>1. OthersStay(h) /\ pc'[h] \notin Handing
  BY <1>0, GotoStays
<1>2. \A i \in JobIds : jobs'[i] = jobs[i] \/ jobs[i].status = "none"
  <2>1. ASSUME NEW w \in Workers, NEW j \in JobIds, NEW n \in Needs, Enqueue(h, w, j, n)
        PROVE  \A i \in JobIds : jobs'[i] = jobs[i] \/ jobs[i].status = "none"
    <3>1. jobs[j].status = "none" /\ \E r : jobs' = [jobs EXCEPT ![j] = r]
      BY <2>1 DEF Enqueue, Appended
    <3>2. QED
      BY <1>0, <3>1 DEF TypeOK
  <2>2. QED
    BY <2>1 DEF Request, StartJob, StopJob, PollJob, PatchJob
<1>3. QED
  BY <1>0, <1>1, <1>2, UnstartedRows

LEMMA PassSessions ==
    ASSUME IInv, SInv, Pass
    PROVE  SKeeps
<1>0. /\ TypeOK /\ Reconciler \in Tasks /\ Refreshers \subseteq Tasks
      /\ UNCHANGED <<jobs, remote>> /\ late' = {}
  BY DEF IInv, SInv, Tasks, Pass, PassRefresh, PassRecover, RecoverNext, PassDispatch,
         PassDone, RefreshNext, remoteVars
<1>1. CASE UNCHANGED <<pc, loc>>
  BY <1>0, <1>1, EndingStep DEF OthersStay
<1>2. ASSUME NEW t \in Tasks,
             \E l : l \notin Handing /\ Goto(t, l),
             \E x : loc' = [loc EXCEPT ![t] = x]
      PROVE  SKeeps
  BY <1>0, <1>2, GotoStays, NotHanding, QuietStep
<1>3. QED
  <2>1. CASE RecoverNext
    BY <1>0, <1>2, <2>1 DEF RecoverNext, Handing
  <2>2. CASE PassDispatch
    BY <1>0, <1>2, <2>2 DEF PassDispatch, Handing
  <2>3. ASSUME NEW r \in Refreshers, NEW j \in JobIds, RefreshNext(r, j)
        PROVE  SKeeps
    BY <1>0, <1>1, <1>2, <2>3 DEF RefreshNext, Handing
  <2>4. QED
    BY <1>1, <2>1, <2>2, <2>3 DEF Pass, PassRefresh, PassRecover, PassDone

LEMMA SessionEnds ==
    ASSUME TypeOK, NEW w \in Workers, NEW j \in JobIds, NEW s, s \notin {"none", "live"},
           remote[w][j].st = "live",
           remote' = [remote EXCEPT ![w][j] = [st |-> s, gpus |-> {}]]
    PROVE  \A v \in Workers, i \in JobIds : remote'[v][i] = remote[v][i] \/ Ends(v, i)
<1>1. /\ remote'[w][j] = [st |-> s, gpus |-> {}]
      /\ \A v \in Workers, i \in JobIds : v # w \/ i # j => remote'[v][i] = remote[v][i]
  BY DEF TypeOK
<1>2. QED
  BY <1>1 DEF Ends

LEMMA OutsideSessions ==
    ASSUME IInv, SInv,
           \/ World
           \/ \E w \in Workers : Prune(w)
           \/ \E w \in Workers, j \in JobIds : Lost(w, j)
    PROVE  SKeeps
<1>0. /\ TypeOK /\ Reconciler \in Tasks /\ OthersStay(Reconciler)
      /\ UNCHANGED <<jobs, pc, loc>> /\ late' = {}
  BY DEF IInv, SInv, Tasks, World, Heartbeat, Exit, LateStart, Tick, Prune, Lost,
         remoteVars, OthersStay
<1>1. \A v \in Workers, j \in JobIds : remote'[v][j] = remote[v][j] \/ Ends(v, j)
  <2>1. CASE UNCHANGED remote
    BY <2>1
  <2>2. ASSUME NEW w \in Workers, NEW j \in JobIds, NEW s \in Exits, Exit(w, j, s)
        PROVE  \A v \in Workers, i \in JobIds : remote'[v][i] = remote[v][i] \/ Ends(v, i)
    BY <1>0, <2>2, SessionEnds DEF Exit, Exits
  <2>3. ASSUME NEW w \in Workers, NEW j \in JobIds, Lost(w, j)
        PROVE  \A v \in Workers, i \in JobIds : remote'[v][i] = remote[v][i] \/ Ends(v, i)
    <3>1. /\ remote[w][j].st = "live"
          /\ remote' = [remote EXCEPT ![w][j] = [st |-> "dead", gpus |-> {}]]
      BY <2>3 DEF Lost
    <3>2. "dead" \notin {"none", "live"}
      OBVIOUS
    <3>3. QED
      BY <1>0, <3>1, <3>2, SessionEnds
  <2>4. QED
    BY <2>1, <2>2, <2>3
    DEF SInv, World, Heartbeat, LateStart, Tick, Prune, remoteVars
<1>2. QED
  BY <1>0, <1>1, EndingStep

LEMMA FailureSessions ==
    ASSUME IInv, SInv, ~LateDelivery, Failure
    PROVE  SKeeps
<1>0. TypeOK /\ late = {}
  BY DEF IInv, SInv
<1>1. ASSUME NEW t \in Tasks, LaunchUnknown(t) \/ KillUnknown(t) \/ ProbeUnknown(t)
      PROVE  SKeeps
  BY <1>1, QuietSessions, KillSessions
<1>2. ASSUME NEW t \in Tasks, Abort(t)
      PROVE  SKeeps
  <2>1. UNCHANGED <<jobs, remote>> /\ late' = {} /\ \E d : Continue(t, d)
    BY <1>0, <1>2, AbandonNone DEF Abort
  <2>2. QED
    BY <1>0, <2>1, LeaveStays, NotHanding, QuietStep
<1>3. CASE Crash
  <2>1. /\ UNCHANGED <<jobs, remote>> /\ late' = {}
        /\ \A t \in Tasks : pc'[t] = "idle"
    BY <1>0, <1>3, AbandonNone DEF Crash
  <2>2. \A t \in Tasks : Fresh(t)'
    BY <2>1, NotHanding DEF Handing
  <2>3. SessionsKnown' /\ LiveRows' /\ Once
    BY <2>1 DEF SInv, SessionsKnown, LiveRows, Active, Once
  <2>4. QED
    BY <2>1, <2>2, <2>3 DEF SInv, SKeeps
<1>4. QED
  BY <1>1, <1>2, <1>3, OutsideSessions DEF Failure

-----------------------------------------------------------------------------
LEMMA InitSInv == Init => SInv
  BY DEF Init, SInv, SessionsKnown, LiveRows, Fresh, NoSession

LEMMA NextSInv ==
    ASSUME ~LateDelivery
    PROVE  IInv /\ SInv /\ [Next]_vars => SKeeps
<1>1. SUFFICES ASSUME IInv, SInv, [Next]_vars PROVE SKeeps
  OBVIOUS
<1>2. CASE UNCHANGED vars
  <2>1. UNCHANGED <<jobs, remote, pc, loc, late>>
    BY <1>2 DEF vars
  <2>2. Reconciler \in Tasks /\ OthersStay(Reconciler) /\ late' = {}
    BY <1>1, <2>1 DEF Tasks, OthersStay, SInv
  <2>3. QED
    BY <1>1, <2>1, <2>2, EndingStep
<1>3. ASSUME NEW t \in Tasks, Step(t) PROVE SKeeps
  BY <1>1, <1>3, QuietSessions, ClaimSessions, EffectSessions, AnswerSessions,
     WriteSessions, InsertSessions, DropSessions, KillSessions, ExitSessions,
     ProbeSessions, PatchSessions DEF Step
<1>4. QED
  BY <1>1, <1>2, <1>3, RequestSessions, PassSessions, OutsideSessions, FailureSessions
  DEF Next

LEMMA AlwaysSInv ==
    ASSUME ~LateDelivery
    PROVE  Spec => [](IInv /\ SInv)
<1>1. Init => IInv /\ SInv
  BY InitIInv, InitSInv
<1>2. (IInv /\ SInv) /\ [Next]_vars => (IInv /\ SInv)'
  BY NextIInv, NextSInv DEF Keeps, SKeeps
<1>3. QED
  BY <1>1, <1>2, PTL DEF Spec

\* A session that lives on a worker has its GPUs reserved for it there, however
\* many answers are lost, tasks are cancelled and processes die: recovery,
\* stop_job and refresh_job_status never give away GPUs in use.  Assumed is
\* what ssh_job_started relies on: a launch whose client was given up does not
\* arrive afterwards.
THEOREM LiveSessionsReserved ==
    ASSUME ~LateDelivery
    PROVE  Spec => []LiveIsReserved
<1>1. IInv /\ SInv => LiveIsReserved
  BY DEF SInv, SessionsKnown, LiveRows, LiveIsReserved
<1>2. QED
  BY <1>1, AlwaysSInv, PTL

\* No command is started twice, on whatever workers, under the same assumption.
THEOREM CommandsRunOnce ==
    ASSUME ~LateDelivery
    PROVE  Spec => RunsOnce
<1>1. IInv /\ SInv /\ [Next]_vars =>
        [\A w, v \in Workers, j \in JobIds :
           remote[w][j].st # "none" /\ remote[v][j].st # "live"
           => remote'[v][j].st # "live"]_remote
  BY NextSInv DEF SKeeps, Once
<1>2. QED
  BY <1>1, AlwaysSInv, PTL DEF Spec, RunsOnce
-----------------------------------------------------------------------------
(* The order of the queue.  Every step that writes queue_order writes ranks *)
(* of pending jobs, which differ; the other steps only take jobs out.       *)

\* The pending jobs of w among rows, and what QueueOrdered asks of them.
Queue(rows, w) == {j \in JobIds : /\ rows[j].managed
                                  /\ rows[j].status = "pending"
                                  /\ rows[j].worker = w}
Ordered(rows, w) == \A i, j \in Queue(rows, w) :
                       /\ rows[i].order >= 1
                       /\ i # j => rows[i].order # rows[j].order

LEMMA QueueOrderedAs == QueueOrdered <=> \A w \in Workers : Ordered(jobs, w)
  BY DEF QueueOrdered, Ordered, Queue, Pending

LEMMA QueueOrderedNext == QueueOrdered' <=> \A w \in Workers : Ordered(jobs', w)
  BY DEF QueueOrdered, Ordered, Queue, Pending

\* Ranks are positive, and differ for different jobs.
LEMMA RanksDiffer ==
    ASSUME jobs \in [JobIds -> Row], NEW S \in SUBSET JobIds,
           NEW i \in S, NEW j \in S, i # j
    PROVE  Rank(S, i) # Rank(S, j)
<1> DEFINE Below(k) == {l \in S : Before(l, k)}
<1>1. \A k \in S : jobs[k].order \in Nat /\ k \in Nat
  BY JobQueueAssumption DEF Row
<1>2. \A k \in S : IsFiniteSet(Below(k)) /\ Cardinality(Below(k)) \in Nat
  BY JobQueueAssumption, FS_Subset, FS_CardinalityType
<1>3. ASSUME NEW k \in S, NEW l \in S, Before(k, l)
      PROVE  Cardinality(Below(k)) # Cardinality(Below(l))
  <2>1. Below(k) \subseteq Below(l)
    BY <1>1, <1>3 DEF Before
  <2>2. k \in Below(l) /\ k \notin Below(k)
    BY <1>1, <1>3 DEF Before
  <2>3. QED
    BY <1>2, <2>1, <2>2, FS_Subset
<1>4. Before(i, j) \/ Before(j, i)
  BY <1>1 DEF Before
<1>5. Cardinality(Below(i)) # Cardinality(Below(j))
  BY <1>3, <1>4
<1>6. Rank(S, i) = Cardinality(Below(i)) + 1 /\ Rank(S, j) = Cardinality(Below(j)) + 1
  BY DEF Rank
<1> HIDE DEF Below
<1>7. Cardinality(Below(i)) \in Nat /\ Cardinality(Below(j)) \in Nat
  BY <1>2
<1>8. QED
  BY <1>5, <1>6, <1>7

LEMMA RankPositive ==
    ASSUME NEW S \in SUBSET JobIds, NEW j
    PROVE  Rank(S, j) \in Nat /\ Rank(S, j) >= 1
<1>1. IsFiniteSet({i \in S : Before(i, j)})
  BY JobQueueAssumption, FS_Subset
<1>2. QED
  BY <1>1, FS_CardinalityType DEF Rank

\* A queue that only loses jobs stays ordered.
LEMMA OrderShrinks ==
    ASSUME QueueOrdered,
           \A j \in JobIds : (jobs'[j].managed /\ jobs'[j].status = "pending")
                             => jobs'[j] = jobs[j]
    PROVE  QueueOrdered'
  BY DEF QueueOrdered, Pending

\* A queue that is numbered anew by rank is ordered.
LEMMA OrderRanked ==
    ASSUME jobs \in [JobIds -> Row], NEW rows, NEW w, NEW S \in SUBSET JobIds,
           \A i \in Queue(rows, w) : i \in S /\ rows[i].order = Rank(S, i)
    PROVE  Ordered(rows, w)
  BY RanksDiffer, RankPositive DEF Ordered

\* The rows that Close numbers, and the others.
LEMMA CloseFields ==
    ASSUME jobs \in [JobIds -> Row], NEW w, NEW j
    PROVE  \A i \in JobIds :
              /\ Close(w, j)[i].managed = jobs[i].managed
              /\ Close(w, j)[i].status = jobs[i].status
              /\ Close(w, j)[i].worker = jobs[i].worker
              /\ i \in Pending(w) \ {j} =>
                     Close(w, j)[i].order = Rank(Pending(w) \ {j}, i)
              /\ i \notin Pending(w) \ {j} => Close(w, j)[i] = jobs[i]
  BY DEF Close, Row

\* Close moves no job between the queues.
LEMMA CloseQueue ==
    ASSUME jobs \in [JobIds -> Row], NEW w, NEW j, NEW u, NEW i \in JobIds,
           Close(w, j)[i].managed, Close(w, j)[i].status = "pending",
           Close(w, j)[i].worker = u
    PROVE  i \in Pending(u)
<1> DEFINE r == [jobs[i] EXCEPT !.order = Rank(Pending(w) \ {j}, i)]
<1>1. r.managed = jobs[i].managed /\ r.status = jobs[i].status /\ r.worker = jobs[i].worker
  BY DEF Row
<1>2. Close(w, j)[i] = r \/ Close(w, j)[i] = jobs[i]
  BY DEF Close
<1> HIDE DEF r
<1>3. jobs[i].managed /\ jobs[i].status = "pending" /\ jobs[i].worker = u
  BY <1>1, <1>2
<1>4. QED
  BY <1>3 DEF Pending

\* Rows that are changed only in queues other than that of w.
LEMMA OrderElsewhere ==
    ASSUME QueueOrdered, NEW w \in Workers, NEW rows,
           \A i \in Queue(rows, w) : i \in Pending(w) /\ rows[i].order = jobs[i].order
    PROVE  Ordered(rows, w)
  BY DEF QueueOrdered, Ordered, Pending

\* When j leaves the queue of v and the others of it are numbered anew, every
\* queue that j is not in is ordered.
LEMMA CloseOrder ==
    ASSUME jobs \in [JobIds -> Row], QueueOrdered, NEW v \in Workers, NEW j \in JobIds,
           NEW u \in Workers, NEW rows, j \notin Queue(rows, u),
           \A i \in Queue(rows, u) : rows[i] = Close(v, j)[i]
    PROVE  Ordered(rows, u)
<1> DEFINE S == Pending(v) \ {j}
<1>1. \A i \in JobIds :
         /\ Close(v, j)[i].managed = jobs[i].managed
         /\ Close(v, j)[i].status = jobs[i].status
         /\ Close(v, j)[i].worker = jobs[i].worker
         /\ i \in S => Close(v, j)[i].order = Rank(S, i)
         /\ i \notin S => Close(v, j)[i] = jobs[i]
  BY CloseFields
<1>2. S \in SUBSET JobIds /\ \A i \in S : jobs[i].worker = v
  BY DEF Pending
<1>3. ASSUME NEW i \in Queue(rows, u) PROVE i \in JobIds /\ i # j /\ i \in Pending(u)
  <2>1. /\ i \in JobIds /\ rows[i] = Close(v, j)[i]
        /\ rows[i].managed /\ rows[i].status = "pending" /\ rows[i].worker = u
    BY DEF Queue
  <2>2. i \in Pending(u)
    BY <2>1, CloseQueue
  <2>3. QED
    BY <2>1, <2>2
<1>4. CASE u = v
  <2>1. \A i \in Queue(rows, u) : i \in S
    BY <1>3, <1>4
  <2> HIDE DEF S
  <2>2. \A i \in Queue(rows, u) : rows[i].order = Rank(S, i)
    BY <1>1, <1>3, <2>1
  <2>3. QED
    BY <1>2, <2>1, <2>2, OrderRanked
<1>5. CASE u # v
  <2>1. \A i \in Queue(rows, u) : i \notin S
    BY <1>2, <1>3, <1>5 DEF Pending
  <2> HIDE DEF S
  <2>2. \A i \in Queue(rows, u) : i \in Pending(u) /\ rows[i].order = jobs[i].order
    BY <1>1, <1>3, <2>1
  <2>3. QED
    BY <2>2, OrderElsewhere
<1>6. QED
  BY <1>4, <1>5

LEMMA EnqueueOrder ==
    ASSUME TypeOK, QueueOrdered, NEW h, NEW w \in Workers, NEW j \in JobIds, NEW n \in Needs,
           Enqueue(h, w, j, n)
    PROVE  QueueOrdered'
<1>1. PICK m \in Orders(w) : /\ \A o \in Orders(w) : o <= m
                             /\ jobs' = Appended(j, w, n, m)
  BY DEF Enqueue
<1> DEFINE r == [NoRow EXCEPT !.worker = w, !.status = "pending",
                              !.managed = TRUE, !.need = n, !.order = m + 1]
<1>2. r.order = m + 1 /\ r.worker = w
  BY DEF NoRow
<1>3. jobs' = [jobs EXCEPT ![j] = r]
  BY <1>1 DEF Appended
<1> HIDE DEF r
<1>4. jobs'[j] = r /\ \A i \in JobIds \ {j} : jobs'[i] = jobs[i]
  BY <1>3 DEF TypeOK
<1>5. m \in Nat /\ \A i \in Pending(w) : jobs[i].order \in Nat /\ jobs[i].order <= m
  BY <1>1 DEF Orders, Pending, Queued, TypeOK, Row
<1>6. ASSUME NEW v \in Workers PROVE Ordered(jobs', v)
  <2>1. CASE v # w
    BY <1>2, <1>4, <2>1, OrderElsewhere DEF Queue, Pending
  <2>2. CASE v = w
    <3>1. \A i \in Queue(jobs', w) : i = j \/ (i \in Pending(w) /\ jobs'[i] = jobs[i])
      BY <1>4 DEF Queue, Pending
    <3>2. QED
      BY <1>2, <1>4, <1>5, <2>2, <3>1 DEF Ordered, QueueOrdered
  <2>3. QED
    BY <2>1, <2>2
<1>7. QED
  BY <1>6, QueueOrderedNext

LEMMA DropOrder ==
    ASSUME TypeOK, QueueOrdered, NEW t \in Tasks, DropPending(t)
    PROVE  QueueOrdered'
<1> DEFINE j == loc[t].j
           v == jobs[j].worker
<1>0. j \in JobIds /\ v \in Workers /\ jobs \in [JobIds -> Row] /\ jobs[j] \in Row
  BY LocalsFields DEF TypeOK, Row
<1>1. CASE UNCHANGED jobs
  BY <1>1, OrderShrinks
<1>2. CASE jobs' = [Close(v, j) EXCEPT ![j] = [jobs[j] EXCEPT
                              !.status = "failed", !.order = 0]]
  <2>1. Close(v, j) \in [JobIds -> Row]
    BY <1>0, CloseType
  <2>2. jobs'[j].status = "failed" /\ \A i \in JobIds \ {j} : jobs'[i] = Close(v, j)[i]
    BY <1>0, <1>2, <2>1 DEF Row
  <2> HIDE DEF j, v
  <2>3. ASSUME NEW u \in Workers PROVE Ordered(jobs', u)
    <3>1. j \notin Queue(jobs', u) /\ \A i \in Queue(jobs', u) : i \in JobIds
      BY <2>2 DEF Queue
    <3>2. \A i \in Queue(jobs', u) : jobs'[i] = Close(v, j)[i]
      BY <2>2, <3>1
    <3>3. QED
      BY <1>0, <3>1, <3>2, CloseOrder
  <2>4. QED
    BY <2>3, QueueOrderedNext
<1>3. QED
  BY <1>1, <1>2 DEF DropPending

\* update_pending_job: the job is put at a rank, and the ranks from there on
\* are shifted.
LEMMA MovedOrder ==
    ASSUME TypeOK, QueueOrdered, NEW w \in Workers, NEW j \in JobIds, NEW n, NEW pos \in Nat,
           j \in Pending(jobs[j].worker), jobs' = Moved(j, w, n, pos)
    PROVE  QueueOrdered'
<1> DEFINE src == jobs[j].worker
           others == Pending(w) \ {j}
           last == Cardinality(others) + 1
           at == IF pos # 0 THEN (IF pos < last THEN pos ELSE last)
                 ELSE IF w = src THEN Rank(Pending(src), j) ELSE last
           Shifted(r) == IF r < at THEN r ELSE r + 1
<1>0. /\ jobs \in [JobIds -> Row] /\ src \in Workers
      /\ others \in SUBSET JobIds /\ Pending(src) \in SUBSET JobIds
  BY DEF TypeOK, Row, Pending
<1>1. last \in Nat /\ last >= 1
  BY <1>0, JobQueueAssumption, FS_Subset, FS_CardinalityType
<1>2. at \in Nat /\ at >= 1
  BY <1>0, <1>1, RankPositive
<1>3. jobs' = [i \in JobIds |->
            IF i = j THEN [jobs[j] EXCEPT !.worker = w, !.need = n, !.order = at]
            ELSE IF i \in others
                 THEN [jobs[i] EXCEPT !.order = Shifted(Rank(others, i))]
                 ELSE IF w # src THEN Close(src, j)[i] ELSE jobs[i]]
  BY DEF Moved
<1> HIDE DEF last, at
<1>4. jobs'[j].worker = w /\ jobs'[j].order = at
  <2> DEFINE r == [jobs[j] EXCEPT !.worker = w, !.need = n, !.order = at]
  <2>1. jobs'[j] = r
    BY <1>3
  <2>2. r.worker = w /\ r.order = at
    BY <1>0 DEF Row
  <2>3. QED
    BY <2>1, <2>2
<1>5. ASSUME NEW i \in others
      PROVE  /\ jobs'[i].order = Shifted(Rank(others, i))
             /\ jobs'[i].managed = jobs[i].managed
             /\ jobs'[i].status = jobs[i].status
             /\ jobs'[i].worker = w
  <2> DEFINE c == Shifted(Rank(others, i))
             r == [jobs[i] EXCEPT !.order = c]
  <2>1. i \in JobIds /\ i # j /\ jobs[i].worker = w
    BY DEF Pending
  <2>2. jobs'[i] = r
    BY <1>3, <2>1
  <2> HIDE DEF c
  <2>3. r.order = c /\ r.managed = jobs[i].managed /\ r.status = jobs[i].status
        /\ r.worker = jobs[i].worker
    BY <1>0, <2>1 DEF Row
  <2>4. QED
    BY <2>1, <2>2, <2>3 DEF c
<1>6. ASSUME NEW i \in JobIds, i # j, i \notin others
      PROVE  jobs'[i] = IF w # src THEN Close(src, j)[i] ELSE jobs[i]
  BY <1>3, <1>6
<1>7. \A i \in others : i \in Pending(w) /\ i # j
  OBVIOUS
<1>8. \A i \in JobIds : i # j /\ i \in Pending(w) => i \in others
  OBVIOUS
<1> HIDE DEF others, src
<1>9. ASSUME NEW v \in Workers PROVE Ordered(jobs', v)
  <2>1. CASE v = w
    <3>1. \A i \in Queue(jobs', w) : i \in others \/ i = j
      <4>1. ASSUME NEW i \in Queue(jobs', w), i # j, i \notin others PROVE FALSE
        <5>1. i \in JobIds /\ jobs'[i].managed /\ jobs'[i].status = "pending"
              /\ jobs'[i].worker = w
          BY DEF Queue
        <5>2. \/ jobs'[i] = jobs[i]
              \/ jobs'[i] = Close(src, j)[i]
          BY <1>6, <4>1, <5>1
        <5>3. CASE jobs'[i] = jobs[i]
          BY <1>8, <4>1, <5>1, <5>3 DEF Pending
        <5>4. CASE jobs'[i] = Close(src, j)[i]
          <6>1. i \in Pending(w)
            BY <1>0, <5>1, <5>4, CloseQueue
          <6>2. QED
            BY <1>8, <4>1, <5>1, <6>1
        <5>5. QED
          BY <5>2, <5>3, <5>4
      <4>2. QED
        BY <4>1
    <3>2. \A i \in others : Rank(others, i) \in Nat /\ Rank(others, i) >= 1
      BY <1>0, RankPositive
    <3>3. \A i, k \in others : i # k => Rank(others, i) # Rank(others, k)
      BY <1>0, RanksDiffer
    <3>4. \A r \in Nat : Shifted(r) >= r /\ Shifted(r) # at
      BY <1>2
    <3>5. \A r, q \in Nat : r # q => Shifted(r) # Shifted(q)
      BY <1>2
    <3>6. \A r \in Nat : Shifted(r) \in Nat
      BY <1>2
    <3> HIDE DEF Shifted
    <3>7. \A i \in others : jobs'[i].order >= 1 /\ jobs'[i].order # at
      BY <1>5, <3>2, <3>4, <3>6
    <3>8. \A i, k \in others : i # k => jobs'[i].order # jobs'[k].order
      BY <1>5, <3>2, <3>3, <3>5
    <3>9. QED
      BY <1>2, <1>4, <2>1, <3>1, <3>7, <3>8 DEF Ordered
  <2>2. CASE v # w
    <3>1. j \notin Queue(jobs', v)
      BY <1>4, <2>2 DEF Queue
    <3>2. \A i \in Queue(jobs', v) : i \in JobIds /\ i # j /\ i \notin others
      BY <1>4, <1>5, <2>2 DEF Queue
    <3>3. CASE w # src
      <4>1. \A i \in Queue(jobs', v) : jobs'[i] = Close(src, j)[i]
        BY <1>6, <3>2, <3>3
      <4>2. QED
        BY <1>0, <3>1, <4>1, CloseOrder
    <3>4. CASE w = src
      <4>1. \A i \in Queue(jobs', v) : jobs'[i] = jobs[i]
        BY <1>6, <3>2, <3>4
      <4>2. \A i \in Queue(jobs', v) : i \in Pending(v) /\ jobs'[i].order = jobs[i].order
        BY <3>2, <4>1 DEF Queue, Pending
      <4>3. QED
        BY <4>2, OrderElsewhere
    <3>5. QED
      BY <3>3, <3>4
  <2>3. QED
    BY <2>1, <2>2
<1>10. QED
  BY <1>9, QueueOrderedNext

\* reconcile_starting_job: the job goes before the others, which move back.
LEMMA RequeuedOrder ==
    ASSUME TypeOK, QueueOrdered, NEW j \in JobIds, jobs[j].status = "starting",
           jobs' = Requeued(j)
    PROVE  QueueOrdered'
<1> DEFINE w == jobs[j].worker
<1>0. jobs \in [JobIds -> Row] /\ w \in Workers /\ j \notin Pending(w)
  BY DEF TypeOK, Row, Pending
<1>1. CASE jobs[j].managed
  <2>1. jobs' = [i \in JobIds |->
             IF i = j THEN [jobs[j] EXCEPT !.status = "pending", !.gpus = {},
                                           !.started = 0, !.order = 1]
             ELSE IF i \in Pending(w) THEN [jobs[i] EXCEPT !.order = @ + 1]
                  ELSE jobs[i]]
    BY <1>1 DEF Requeued
  <2>2. jobs'[j].order = 1 /\ jobs'[j].worker = w
    BY <1>0, <2>1 DEF Row
  <2>3. \A i \in Pending(w) : jobs'[i].order = jobs[i].order + 1 /\ jobs[i].order \in Nat
    BY <1>0, <2>1 DEF Row, Pending
  <2>4. ASSUME NEW i \in JobIds, i # j, i \notin Pending(w) PROVE jobs'[i] = jobs[i]
    BY <2>1, <2>4
  <2>5. \A i \in Pending(w) : jobs'[i].worker = w
    BY <1>0, <2>1 DEF Row, Pending
  <2>6. ASSUME NEW v \in Workers PROVE Ordered(jobs', v)
    <3>1. CASE v = w
      <4>1. Queue(jobs', w) \subseteq Pending(w) \cup {j}
        BY <2>4 DEF Queue, Pending
      <4>2. QED
        BY <2>2, <2>3, <3>1, <4>1 DEF Ordered, QueueOrdered
    <3>2. CASE v # w
      BY <2>2, <2>4, <2>5, <3>2, OrderElsewhere DEF Queue, Pending
    <3>3. QED
      BY <3>1, <3>2
  <2>7. QED
    BY <2>6, QueueOrderedNext
<1>2. CASE ~jobs[j].managed
  <2>1. jobs' = [jobs EXCEPT ![j].status = "failed"]
    BY <1>2 DEF Requeued
  <2>2. jobs'[j].status = "failed" /\ \A i \in JobIds \ {j} : jobs'[i] = jobs[i]
    BY <1>0, <2>1 DEF Row
  <2>3. QED
    BY <2>2, OrderShrinks
<1>3. QED
  BY <1>1, <1>2

\* The other steps that write a row leave it in no queue.
LEMMA WriteOrder ==
    ASSUME TypeOK, QueueOrdered, NEW j \in JobIds, NEW r, r.status # "pending",
           jobs' = [jobs EXCEPT ![j] = r]
    PROVE  QueueOrdered'
<1>1. jobs'[j] = r /\ \A i \in JobIds \ {j} : jobs'[i] = jobs[i]
  BY DEF TypeOK
<1>2. QED
  BY <1>1, OrderShrinks

LEMMA StepOrder ==
    ASSUME IInv, QueueOrdered, NEW t \in Tasks, Step(t)
    PROVE  QueueOrdered'
<1> DEFINE j == loc[t].j
<1>0. TypeOK /\ TaskInv(t) /\ j \in JobIds /\ jobs[j] \in Row
  BY LocalsFields DEF IInv
<1>1. CASE UNCHANGED jobs
  BY <1>1, OrderShrinks
<1>2. CASE Claim(t)
  <2> DEFINE r == [jobs[j] EXCEPT !.status = "starting", !.gpus = loc[t].gpus,
                                  !.started = clock]
  <2>1. UNCHANGED jobs \/ jobs' = [jobs EXCEPT ![j] = r]
    BY <1>2 DEF Claim
  <2>2. r.status = "starting"
    BY <1>0 DEF Row
  <2> HIDE DEF r
  <2>3. QED
    BY <1>0, <1>1, <2>1, <2>2, WriteOrder
<1>3. CASE LaunchWrite(t) \/ Settle(t)
  BY <1>0, <1>3, WriteOrder DEF LaunchWrite, Settle, TaskInv, OwnsRow
<1>4. CASE StartInsert(t)
  BY <1>0, <1>4, WriteOrder DEF StartInsert, TaskInv, KnowsRow
<1>5. CASE DropPending(t)
  BY <1>0, <1>5, DropOrder
<1>6. CASE ProbeAnswer(t)
  <2>1. jobs[j].status = "starting"
    BY <1>0, <1>6 DEF ProbeAnswer, TaskInv, OwnsRow
  <2>2. CASE jobs' = Requeued(j)
    BY <1>0, <2>1, <2>2, RequeuedOrder
  <2>3. CASE jobs' = [jobs EXCEPT ![j].status = "running"]
    <3> DEFINE r == [jobs[j] EXCEPT !.status = "running"]
    <3>1. r.status = "running"
      BY <1>0 DEF Row
    <3>2. jobs' = [jobs EXCEPT ![j] = r]
      BY <2>3
    <3> HIDE DEF r
    <3>3. QED
      BY <1>0, <3>1, <3>2, WriteOrder
  <2>4. QED
    BY <1>6, <2>2, <2>3 DEF ProbeAnswer
<1>7. ASSUME NEW n \in Needs, NEW pos \in Positions \cup {0}, PatchApply(t, n, pos)
      PROVE  QueueOrdered'
  <2> DEFINE w == IF pc[t] = "patchTo" THEN loc[t].w ELSE jobs[j].worker
  <2>1. w \in Workers /\ pos \in Nat
    BY <1>0, LocalsFields, JobQueueAssumption DEF Row
  <2>2. \/ UNCHANGED jobs
        \/ Patchable(j, w, n) /\ jobs' = Moved(j, w, n, pos)
    BY <1>7 DEF PatchApply
  <2>3. Patchable(j, w, n) => j \in Pending(jobs[j].worker)
    BY <1>0 DEF Patchable, Pending
  <2> HIDE DEF w
  <2>4. QED
    BY <1>0, <1>1, <2>1, <2>2, <2>3, MovedOrder
<1>8. QED
  BY <1>1, <1>2, <1>3, <1>4, <1>5, <1>6, <1>7
  DEF Step, DispatchBegin, Scan, LaunchEffect, LaunchAnswer, StopEnter, KillAnswer,
      RefreshEnter, PollNothing, PollExit, RecoverEnter

LEMMA NextOrder == IInv /\ QueueOrdered /\ [Next]_vars => QueueOrdered'
<1>1. SUFFICES ASSUME IInv, QueueOrdered, [Next]_vars PROVE QueueOrdered'
  OBVIOUS
<1>2. CASE UNCHANGED jobs
  BY <1>1, <1>2, OrderShrinks
<1>3. ASSUME NEW h \in Handlers, Request(h) PROVE QueueOrdered'
  BY <1>1, <1>2, <1>3, EnqueueOrder
  DEF Request, StartJob, StopJob, PollJob, PatchJob, IInv
<1>4. UNCHANGED vars \/ Pass \/ World \/ Failure => UNCHANGED jobs
  BY DEF vars, Pass, PassRefresh, PassRecover, RecoverNext, PassDispatch, PassDone,
         RefreshNext, World, Heartbeat, Exit, LateStart, Tick, Failure, LaunchUnknown,
         KillUnknown, ProbeUnknown, Abort, Prune, Lost, Crash
<1>5. QED
  BY <1>1, <1>2, <1>3, <1>4, StepOrder DEF Next

\* The pending jobs of every worker have different positions from 1 on,
\* through appends, moves between queues, renumbering and the prepending of
\* recovered jobs, for any number of jobs and workers.
THEOREM QueueStaysOrdered == Spec => []QueueOrdered
<1>1. Init => IInv /\ QueueOrdered
  BY InitIInv DEF Init, QueueOrdered, Pending, NoRow
<1>2. (IInv /\ QueueOrdered) /\ [Next]_vars => (IInv /\ QueueOrdered)'
  BY NextIInv, NextOrder DEF Keeps
<1>3. QED
  BY <1>1, <1>2, PTL DEF Spec
=============================================================================
