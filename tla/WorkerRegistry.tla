--------------------------- MODULE WorkerRegistry --------------------------
(***************************************************************************)
(* Worker registration: the daemon of a worker (worker_daemon.py) with its *)
(* persisted id and its heartbeats, the registration handler of            *)
(* heartbeat.py and upsert_worker of db.py, which reads the row and writes *)
(* it after an await, and the pruner of orchestrator.py.                   *)
(*                                                                         *)
(* Time passes in ticks, a fraction of the heartbeat interval or all of    *)
(* it.  A row and a request that is stamped keep the age of                *)
(* last_heartbeat_ts instead of the time.                                  *)
(* Of what a heartbeat reports only the address is kept.                   *)
(***************************************************************************)
EXTENDS Naturals, FiniteSets

CONSTANTS
    Hosts,       \* worker hosts; a host's name stands for the id it generates
    Empty,       \* the id in a file that was created and not written
    Interval,    \* ticks between two heartbeats
    Cutoff,      \* offline_cutoff_seconds in ticks
    MaxInFlight, \* bound: requests of one host at the server
    MaxMoves,    \* bound: changes of address
    MaxLosses,   \* bound: heartbeats lost on the way
    MaxCrashes,  \* bound: crashes of a daemon while it creates its id
    MaxRemovals  \* bound: prunings by the operator

Ids == Hosts \cup {Empty}

VARIABLES
    file,     \* file[h]: WORKER_ID_FILE: "none", "empty" or "full"
    daemon,   \* daemon[h]: "off", "create", "wait" or "beat"
    id,       \* id[h]: the id the daemon uses
    wait,     \* wait[h]: ticks since the last heartbeat
    real,     \* real[h]: the host's address, 1 or 2
    rows,     \* rows[i]: the workers table: [addr, age, status]
    reqs,     \* reqs[h][k]: the requests of h at the server
    quiet,    \* quiet[i]: age of the newest heartbeat of i answered with ok
    late,     \* late[i]: the last one answered is older than one before it
    moves, losses, crashes, removals

vars == <<file, daemon, id, wait, real, rows, reqs, quiet, late, moves,
          losses, crashes, removals>>

NoRow == [addr |-> 0, age |-> 0, status |-> "none"]
NoReq == [pc |-> "none", id |-> Empty, addr |-> 0, age |-> 0]
Slots == 1..MaxInFlight
Old == Cutoff + 1

Init ==
    /\ file = [h \in Hosts |-> "none"]
    /\ daemon = [h \in Hosts |-> "off"]
    /\ id = [h \in Hosts |-> Empty]
    /\ wait = [h \in Hosts |-> 0]
    /\ real = [h \in Hosts |-> 1]
    /\ rows = [i \in Ids |-> NoRow]
    /\ reqs = [h \in Hosts |-> [k \in Slots |-> NoReq]]
    /\ quiet = [i \in Ids |-> Old]
    /\ late = [i \in Ids |-> FALSE]
    /\ moves = 0 /\ losses = 0 /\ crashes = 0 /\ removals = 0

-----------------------------------------------------------------------------
(* The daemon.                                                             *)

\* get_worker_id: a file that exists is read, whatever is in it.
Start(h) ==
    /\ daemon[h] = "off"
    /\ \/ /\ file[h] = "none"
          /\ file' = [file EXCEPT ![h] = "empty"]
          /\ daemon' = [daemon EXCEPT ![h] = "create"]
          /\ UNCHANGED id
       \/ /\ file[h] # "none"
          /\ daemon' = [daemon EXCEPT ![h] = "beat"]
          /\ id' = [id EXCEPT ![h] = IF file[h] = "full" THEN h ELSE Empty]
          /\ UNCHANGED file
    /\ wait' = [wait EXCEPT ![h] = 0]
    /\ UNCHANGED <<real, rows, reqs, quiet, late, moves, losses, crashes,
                   removals>>

\* write_text has created the file and now writes the id.
WriteId(h) ==
    /\ daemon[h] = "create"
    /\ file' = [file EXCEPT ![h] = "full"]
    /\ id' = [id EXCEPT ![h] = h]
    /\ daemon' = [daemon EXCEPT ![h] = "beat"]
    /\ UNCHANGED <<wait, real, rows, reqs, quiet, late, moves, losses,
                   crashes, removals>>

Crash(h) ==
    /\ daemon[h] = "create" /\ crashes < MaxCrashes
    /\ crashes' = crashes + 1
    /\ daemon' = [daemon EXCEPT ![h] = "off"]
    /\ UNCHANGED <<file, id, wait, real, rows, reqs, quiet, late, moves,
                   losses, removals>>

Stop(h) ==
    /\ daemon[h] \in {"wait", "beat"}
    /\ daemon' = [daemon EXCEPT ![h] = "off"]
    /\ UNCHANGED <<file, id, wait, real, rows, reqs, quiet, late, moves,
                   losses, crashes, removals>>

\* Mutant of Identity: the address is read once, when the daemon starts.
IdentityFixed(h) == 1
\* get_tailscale_identity, before every heartbeat.
Identity(h) == real[h]

\* send_heartbeat posts; the loop goes on whatever the answer is, so an
\* older request may still be at the server; slots are taken in order.
Beat(h) ==
    /\ daemon[h] = "beat"
    /\ \/ \E k \in Slots :
            /\ reqs[h][k].pc = "none"
            /\ \A j \in 1..(k - 1) : reqs[h][j].pc # "none"
            /\ reqs' = [reqs EXCEPT ![h][k] =
                    [pc |-> "sent", id |-> id[h], addr |-> Identity(h), age |-> 0]]
            /\ UNCHANGED losses
       \/ /\ losses < MaxLosses
          /\ losses' = losses + 1
          /\ UNCHANGED reqs
    /\ daemon' = [daemon EXCEPT ![h] = "wait"]
    /\ wait' = [wait EXCEPT ![h] = 0]
    /\ UNCHANGED <<file, id, real, rows, quiet, late, moves, crashes,
                   removals>>

\* HEARTBEAT_INTERVAL is over.
Due(h) ==
    /\ daemon[h] = "wait" /\ wait[h] = Interval
    /\ daemon' = [daemon EXCEPT ![h] = "beat"]
    /\ UNCHANGED <<file, id, wait, real, rows, reqs, quiet, late, moves,
                   losses, crashes, removals>>

-----------------------------------------------------------------------------
(* The registration handler.                                               *)

\* upsert_worker: get_worker, and the row to be written, which is stamped with
\* the time (from_registration, update_from_registration) before it is.
ReadRow(h, k) ==
    /\ reqs[h][k].pc = "sent"
    /\ reqs' = [reqs EXCEPT ![h][k].pc =
            IF rows[reqs[h][k].id] = NoRow THEN "insert" ELSE "update"]
    /\ UNCHANGED <<file, daemon, id, wait, real, rows, quiet, late, moves,
                   losses, crashes, removals>>

Stamped(r) == r.pc \in {"insert", "update"}
RowOf(r) == [addr |-> r.addr, age |-> r.age, status |-> "online"]

\* Mutant of Update: the time of the heartbeat is not stored.
UpdateNoTime(r) ==
    IF rows[r.id] = NoRow THEN rows
    ELSE [rows EXCEPT ![r.id].addr = r.addr, ![r.id].status = "online"]
\* _update_worker: UPDATE ... WHERE id=?; no row is no error, and nobody asks
\* whether the row has a newer stamp by now.
Update(r) ==
    IF rows[r.id] = NoRow THEN rows ELSE [rows EXCEPT ![r.id] = RowOf(r)]

Newest(a, b) == IF a < b THEN a ELSE b

Answer(h, k) ==
    LET r == reqs[h][k] IN
    /\ reqs' = [reqs EXCEPT ![h][k] = NoReq]
    /\ quiet' = [quiet EXCEPT ![r.id] = Newest(@, r.age)]
    /\ late' = [late EXCEPT ![r.id] = quiet[r.id] < r.age]
    /\ UNCHANGED <<file, daemon, id, wait, real, moves, losses, crashes,
                   removals>>

WriteExisting(h, k) ==
    /\ reqs[h][k].pc = "update"
    /\ rows' = Update(reqs[h][k])
    /\ Answer(h, k)

WriteNew(h, k) ==
    /\ reqs[h][k].pc = "insert"
    /\ rows[reqs[h][k].id] = NoRow
    /\ rows' = [rows EXCEPT ![reqs[h][k].id] = RowOf(reqs[h][k])]
    /\ Answer(h, k)

\* The INSERT of an id that got a row meanwhile: the handler answers 500.
InsertFails(h, k) ==
    /\ reqs[h][k].pc = "insert"
    /\ rows[reqs[h][k].id] # NoRow
    /\ reqs' = [reqs EXCEPT ![h][k] = NoReq]
    /\ UNCHANGED <<file, daemon, id, wait, real, rows, quiet, late, moves,
                   losses, crashes, removals>>

-----------------------------------------------------------------------------
(* The pruner, the operator, and time.                                     *)

\* last_heartbeat_ts < now - cutoff
Stale(i) == rows[i] # NoRow /\ rows[i].age > Cutoff

\* prune_workers: one DELETE.
Prune ==
    /\ \E i \in Ids : Stale(i)
    /\ rows' = [i \in Ids |-> IF Stale(i) THEN NoRow ELSE rows[i]]
    /\ UNCHANGED <<file, daemon, id, wait, real, reqs, quiet, late, moves, losses,
                   crashes, removals>>

\* workers_prune: the operator chooses the age.  A row that is n ticks old
\* is older than a cutoff within that tick.
PruneNow(n) ==
    LET gone == {i \in Ids : rows[i] # NoRow /\ rows[i].age >= n} IN
    /\ gone # {} /\ removals < MaxRemovals
    /\ removals' = removals + 1
    /\ rows' = [i \in Ids |-> IF i \in gone THEN NoRow ELSE rows[i]]
    /\ UNCHANGED <<file, daemon, id, wait, real, reqs, quiet, late, moves, losses,
                   crashes>>

\* `wh workers status`: "offline" and "draining" are one, for nothing here tells
\* them apart; mark_workers_offline has no caller.
SetStatus(i) ==
    /\ rows[i].status = "online"
    /\ rows' = [rows EXCEPT ![i].status = "draining"]
    /\ UNCHANGED <<file, daemon, id, wait, real, reqs, quiet, late, moves,
                   losses, crashes, removals>>

\* The host's address changes; to have none is a change like any other.
Move(h) ==
    /\ moves < MaxMoves
    /\ moves' = moves + 1
    /\ real' = [real EXCEPT ![h] = 3 - @]
    /\ UNCHANGED <<file, daemon, id, wait, rows, reqs, quiet, late, losses,
                   crashes, removals>>

Older(n) == IF n < Old THEN n + 1 ELSE Old
Aged(r) == IF Stamped(r) THEN [r EXCEPT !.age = Older(@)] ELSE r

\* Time passes; a running daemon beats when its interval is over.
Tick ==
    /\ \A h \in Hosts :
        /\ daemon[h] \notin {"create", "beat"}
        /\ daemon[h] = "wait" => wait[h] < Interval
    /\ wait' = [h \in Hosts |-> IF daemon[h] = "wait" THEN wait[h] + 1 ELSE 0]
    /\ rows' = [i \in Ids |-> IF rows[i] = NoRow THEN NoRow
                              ELSE [rows[i] EXCEPT !.age = Older(@)]]
    /\ reqs' = [h \in Hosts |-> [k \in Slots |-> Aged(reqs[h][k])]]
    /\ quiet' = [i \in Ids |-> Older(quiet[i])]
    /\ UNCHANGED <<file, daemon, id, real, late, moves, losses,
                   crashes, removals>>

-----------------------------------------------------------------------------
Handle(h, k) ==
    ReadRow(h, k) \/ WriteExisting(h, k) \/ WriteNew(h, k) \/ InsertFails(h, k)

Next ==
    \/ \E h \in Hosts :
        \/ Start(h) \/ WriteId(h) \/ Crash(h) \/ Stop(h) \/ Beat(h) \/ Due(h)
        \/ Move(h)
        \/ \E k \in Slots : Handle(h, k)
    \/ Prune \/ Tick
    \/ \E n \in 0..Cutoff : PruneNow(n)
    \/ \E i \in Ids : SetStatus(i)

Spec == Init /\ [][Next]_vars

\* A daemon that runs goes on and its clock with it; the server handles
\* every request and prunes every half minute.
Fairness ==
    /\ WF_vars(Tick) /\ WF_vars(Prune)
    /\ \A h \in Hosts :
        /\ WF_vars(WriteId(h)) /\ WF_vars(Beat(h)) /\ WF_vars(Due(h))
        /\ \A k \in Slots : WF_vars(Handle(h, k))

-----------------------------------------------------------------------------
\* A row that the operator does not prune disappears only when every heartbeat
\* of the worker that was answered is older than the cutoff, whatever overlaps.
\* The age is that of the stamp, which the handler takes before it waits for its
\* write; the exception is a row that such a late write has made older than a
\* heartbeat answered before it.
PrunedWereSilent ==
    [][\A i \in Ids :
        (rows[i] # NoRow /\ rows'[i] = NoRow /\ removals' = removals)
            => quiet[i] > Cutoff \/ late[i]]_vars

\* "A returning worker re-registers": a daemon that runs has, again and
\* again, a row with the address it has now, after losses, prunings, moves
\* and requests that overtake each other.
RunningIsRegistered ==
    \A h \in Hosts :
        (daemon[h] = "wait")
            ~> \/ daemon[h] = "off"
               \/ rows[id[h]] # NoRow /\ rows[id[h]].addr = real[h]

\* A worker that is gone leaves the table.
SilentIsPruned ==
    \A i \in Ids :
        (rows[i] # NoRow) ~> (rows[i] = NoRow \/ quiet[i] <= Cutoff)

\* The table of workers follows the workers: those that run are in it with the
\* address they have, those that are gone leave it (upsert_worker, prune_workers).
TableIsCurrent == RunningIsRegistered /\ SilentIsPruned
=============================================================================
