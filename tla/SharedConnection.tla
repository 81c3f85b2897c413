-------------------------- MODULE SharedConnection --------------------------
(***************************************************************************)
(* The one SQLite connection of the control process (db.py), seen by three *)
(* kinds of its users: writers of Pi session events, the worker_pi_jobs    *)
(* handler of the registration port, and queue operations that roll back.  *)
(*                                                                         *)
(* A write is two awaits, execute and commit.  The connection has a single *)
(* implicit transaction: a commit makes every task's statements durable, a *)
(* rollback undoes every task's statements, and all tasks read what any of *)
(* them has executed.  The SSE stream replays and tails the events of one  *)
(* session and is resumed by its client with the last sequence it saw.     *)
(***************************************************************************)
EXTENDS Naturals, Sequences, FiniteSets, FiniteSetsExt

CONSTANTS
    Events,      \* event ids
    Reports,     \* requests [n, job, origin, rev]; equal ones but for n are retries
    Jobs, Origins,
    Rollers,     \* queue operations that find nothing to update and roll back
    Limit,       \* events per read of the stream
    MaxCrashes   \* bound on restarts and on reconnections of the stream

VARIABLES
    disk,      \* [seq, jobs]: what is committed
    conn,      \* the same tables as the connection sees them
    writer,    \* event -> idle, executed, acked
    report,    \* report -> idle, executed, selected, acked, refused
    changed,   \* reports whose answer counts as applied
    roller,    \* idle, executed, done
    cursor, batch, sent,  \* the stream: last sequence, events read, events sent
    undone,    \* history: writes another task rolled back before their commit
    misled,    \* history: has the stream read an event that was undone later?
    crashes

stream == <<cursor, batch, sent>>
history == <<undone, misled>>
vars == <<disk, conn, writer, report, changed, roller, stream, history, crashes>>

NoJob == [origin |-> "none", rev |-> 0]
Empty == [seq |-> [e \in Events |-> 0], jobs |-> [j \in Jobs |-> NoJob]]
Last(t) == Max({t.seq[e] : e \in Events} \cup {0})

Init ==
    /\ disk = Empty /\ conn = Empty
    /\ writer = [e \in Events |-> "idle"]
    /\ report = [r \in Reports |-> "idle"]
    /\ changed = {}
    /\ roller = [q \in Rollers |-> "idle"]
    /\ cursor = 0 /\ batch = <<>> /\ sent = <<>>
    /\ undone = {} /\ misled = FALSE
    /\ crashes = 0

-----------------------------------------------------------------------------
(* insert_pi_session_event *)

\* The sequence the trigger gives: MAX + 1 over the rows the connection sees.
NextSequence == Last(conn) + 1

\* INSERT OR IGNORE: an event id that is there keeps its row.
InsertEvent(e) ==
    /\ writer[e] = "idle"
    /\ writer' = [writer EXCEPT ![e] = "executed"]
    /\ conn' = IF conn.seq[e] = 0 THEN [conn EXCEPT !.seq = [@ EXCEPT ![e] = NextSequence]]
             ELSE conn
    /\ UNCHANGED <<disk, report, changed, roller, stream, history, crashes>>

AckUncommitted(e) ==
    /\ writer[e] = "executed"
    /\ writer' = [writer EXCEPT ![e] = "acked"]
    /\ UNCHANGED <<disk, conn, report, changed, roller, stream, history, crashes>>

CommitEvent(e) ==
    /\ writer[e] = "executed"
    /\ writer' = [writer EXCEPT ![e] = "acked"]
    /\ disk' = conn
    /\ UNCHANGED <<conn, report, changed, roller, stream, history, crashes>>

-----------------------------------------------------------------------------
(* worker_pi_jobs: upsert_reported_worker_job under _worker_job_report_lock *)

Locked == \E r \in Reports : report[r] \in {"executed", "selected"}

\* The WHERE of the upsert: no row yet, or an older one of the same origin.
AppliesForeign(r) == conn.jobs[r.job].rev < r.rev
Applies(r) ==
    \/ conn.jobs[r.job] = NoJob
    \/ conn.jobs[r.job].origin = r.origin /\ conn.jobs[r.job].rev < r.rev

Upsert(r) ==
    /\ report[r] = "idle" /\ ~Locked
    /\ report' = [report EXCEPT ![r] = "executed"]
    /\ IF Applies(r)
       THEN /\ conn' = [conn EXCEPT !.jobs =
                        [@ EXCEPT ![r.job] = [origin |-> r.origin, rev |-> r.rev]]]
            /\ changed' = changed \cup {r}
       ELSE UNCHANGED <<conn, changed>>
    /\ UNCHANGED <<disk, writer, roller, stream, history, crashes>>

\* The origin session is unknown (410) or another worker's (404).
NoSession(r) ==
    /\ report[r] = "idle" /\ ~Locked
    /\ report' = [report EXCEPT ![r] = "refused"]
    /\ UNCHANGED <<disk, conn, writer, changed, roller, stream, history, crashes>>

\* What is not committed is gone; the stream had seen events up to seen.
Undo(seen) ==
    /\ conn' = disk
    /\ misled' = (misled \/ \E e \in Events :
                    disk.seq[e] = 0 /\ conn.seq[e] \in 1..seen)

Uncommitted == {e \in Events : writer[e] = "executed"} \cup
               {r \in Reports : report[r] \in {"executed", "selected"}}

\* A rollback of the task that owns the statements own.
Rollback(own) ==
    /\ Undo(IF batch = <<>> THEN cursor ELSE batch[Len(batch)].seq)
    /\ undone' = undone \cup (Uncommitted \ own)

\* The row is read back: a missing one or one of another origin is refused.
SelectReport(r) ==
    /\ report[r] = "executed"
    /\ IF conn.jobs[r.job].origin = r.origin
       THEN /\ report' = [report EXCEPT ![r] = "selected"]
            /\ UNCHANGED <<conn, changed, history>>
       ELSE /\ report' = [report EXCEPT ![r] = "refused"]
            /\ changed' = changed \ {r}
            /\ Rollback({r})
    /\ UNCHANGED <<disk, writer, roller, stream, crashes>>

CommitReport(r) ==
    /\ report[r] = "selected"
    /\ report' = [report EXCEPT ![r] = "acked"]
    /\ disk' = conn
    /\ UNCHANGED <<conn, writer, changed, roller, stream, history, crashes>>

\* claim_queued_job, update_pending_job, fail_pending_job and
\* reconcile_starting_job when their UPDATE finds no row.
RollerExecute(q) ==
    /\ roller[q] = "idle"
    /\ roller' = [roller EXCEPT ![q] = "executed"]
    /\ UNCHANGED <<disk, conn, writer, report, changed, stream, history, crashes>>

RollerRollback(q) ==
    /\ roller[q] = "executed"
    /\ roller' = [roller EXCEPT ![q] = "done"]
    /\ Rollback({})
    /\ UNCHANGED <<disk, writer, report, changed, stream, crashes>>

-----------------------------------------------------------------------------
(* stream_pi_session_events *)

\* list_pi_session_events: after the cursor, in sequence order, at most Limit.
After == {e \in Events : conn.seq[e] > cursor}
PageSize == IF Limit <= Cardinality(After) THEN Limit ELSE Cardinality(After)
Pages == {b \in [1..PageSize -> After] :
    /\ \A i, k \in 1..PageSize : i < k => conn.seq[b[i]] < conn.seq[b[k]]
    /\ \A e \in After : conn.seq[e] <= conn.seq[b[PageSize]] =>
            \E i \in 1..PageSize : b[i] = e}

Read ==
    /\ batch = <<>> /\ After # {}
    /\ \E b \in Pages :
        batch' = [i \in 1..PageSize |-> [id |-> b[i], seq |-> conn.seq[b[i]]]]
    /\ UNCHANGED <<disk, conn, writer, report, changed, roller, cursor, sent, history, crashes>>

Send ==
    /\ batch # <<>>
    /\ cursor' = Head(batch).seq
    /\ sent' = Append(sent, Head(batch).id)
    /\ batch' = Tail(batch)
    /\ UNCHANGED <<disk, conn, writer, report, changed, roller, history, crashes>>

\* The client's connection breaks: it resumes after the last event it got.
Reconnect ==
    /\ batch # <<>> /\ crashes < MaxCrashes
    /\ crashes' = crashes + 1
    /\ batch' = <<>>
    /\ UNCHANGED <<disk, conn, writer, report, changed, roller, cursor, sent,
                   history>>

\* The process restarts: uncommitted statements are lost, and every request
\* without an answer is sent again by its bridge or worker.
Crash ==
    /\ crashes < MaxCrashes
    /\ crashes' = crashes + 1
    /\ Undo(cursor)
    /\ undone' = undone \ Uncommitted
    /\ batch' = <<>>
    /\ writer' = [e \in Events |-> IF writer[e] = "executed" THEN "idle" ELSE writer[e]]
    /\ report' = [r \in Reports |-> IF report[r] \in {"executed", "selected"} THEN "idle" ELSE report[r]]
    /\ changed' = {r \in changed : report[r] = "acked"}
    /\ roller' = [q \in Rollers |-> IF roller[q] = "executed" THEN "done" ELSE roller[q]]
    /\ UNCHANGED <<disk, cursor, sent>>

ServerStep ==
    \/ \E e \in Events : CommitEvent(e)
    \/ \E r \in Reports : SelectReport(r) \/ CommitReport(r)
    \/ \E q \in Rollers : RollerRollback(q)

Next ==
    \/ \E e \in Events : InsertEvent(e)
    \/ \E r \in Reports : Upsert(r) \/ NoSession(r)
    \/ \E q \in Rollers : RollerExecute(q)
    \/ ServerStep \/ Read \/ Send \/ Reconnect \/ Crash

Spec == Init /\ [][Next]_vars

-----------------------------------------------------------------------------
(* Properties *)

Tables == [seq : [Events -> 0..Cardinality(Events)],
           jobs : [Jobs -> {NoJob} \cup [origin : Origins, rev : {r.rev : r \in Reports}]]]

\* Every variable is of its type.
TypeOK ==
    /\ disk \in Tables /\ conn \in Tables
    /\ writer \in [Events -> {"idle", "executed", "acked"}]
    /\ report \in [Reports -> {"idle", "executed", "selected", "acked", "refused"}]
    /\ changed \subseteq Reports
    /\ roller \in [Rollers -> {"idle", "executed", "done"}]
    /\ cursor \in 0..Cardinality(Events)
    /\ \A i \in DOMAIN batch : batch[i].id \in Events
    /\ \A i \in DOMAIN sent : sent[i] \in Events
    /\ undone \subseteq Events \cup Reports /\ misled \in BOOLEAN
    /\ crashes \in 0..MaxCrashes

\* An answered write is on disk, wherever the process stopped and whatever
\* the other tasks of the connection did between its execute and its commit
\* ("a failed insert must never be presented as an ack", db.py:1372), unless
\* one of them rolled the connection back in between.
AckedIsDurable ==
    /\ \A e \in Events \ undone : writer[e] = "acked" => disk.seq[e] # 0
    /\ \A r \in Reports \ undone : report[r] = "acked" =>
        disk.jobs[r.job].origin = r.origin /\ disk.jobs[r.job].rev >= r.rev

\* Of a report and its retries at most one is counted as applied ("exactly
\* once per revision"), not counting what another task rolled back.
AppliedOnce ==
    \A r, s \in changed \ undone : r.job = s.job /\ r.rev = s.rev /\ r # s =>
        ~(report[r] = "acked" /\ report[s] = "acked")

\* What a job's row says never goes back to an older report, and its owner
\* never changes, in whatever order reports and retries arrive and whatever
\* is rolled back.
RevisionsOnlyGrow ==
    [][\A j \in Jobs : disk.jobs[j] # NoJob =>
        disk'.jobs[j].origin = disk.jobs[j].origin /\ disk'.jobs[j].rev >= disk.jobs[j].rev]_vars

\* The events of a session never share a sequence, on disk or in a reader's eyes.
SequencesDiffer ==
    \A e, f \in Events : conn.seq[e] = conn.seq[f] /\ conn.seq[e] # 0 => e = f

Sent(e) == \E i \in DOMAIN sent : sent[i] = e

\* The stream sends what it has read, or a read finds a page.
CanGoOn == batch # <<>> \/ (After # {} /\ Pages # {})

\* While a stored event has not been sent, it is ahead of the stream's cursor,
\* so that a client that resumes there misses nothing, and the stream has a step
\* to take, unless it was sent an event which was undone later: no sequence of
\* commits, rollbacks and reconnections leaves a reader that waits for good.
StreamGoesOn ==
    \A e \in Events : disk.seq[e] # 0 /\ ~Sent(e) /\ ~misled =>
        disk.seq[e] > cursor /\ CanGoOn

\* What the server has told its clients is true, although all its tasks share one
\* transaction: acknowledged writes are durable, retries count once, sequences
\* differ and the stream misses nothing (db.py:884-899, 1325-1380).
ConnectionConsistent ==
    /\ TypeOK
    /\ AckedIsDurable
    /\ AppliedOnce
    /\ SequencesDiffer
    /\ StreamGoesOn
=============================================================================
