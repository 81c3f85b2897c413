-------------------------- MODULE SchemaMigration --------------------------
(***************************************************************************)
(* Database.connect and _init_schema of db.py: the migration that every    *)
(* process (server, command line, terminal UI) runs, statement by          *)
(* statement, on the database file it shares with the others.              *)
(*                                                                         *)
(* The sqlite3 module opens a transaction before the first INSERT, UPDATE  *)
(* or DELETE and never before ALTER or CREATE, so every ALTER up to the    *)
(* first UPDATE is durable by itself and everything after it, up to the    *)
(* commit at the end, is durable together.  A transaction holds SQLite's   *)
(* one write lock; a statement that must write waits for it for            *)
(* busy_timeout and then raises.                                           *)
(***************************************************************************)
EXTENDS Naturals, Sequences, FiniteSets, FiniteSetsExt

CONSTANTS
    Procs,      \* the processes that open the database
    Workers,    \* the workers the old file has rows for
    Newcomers,  \* workers that register later
    OldFiles,   \* the databases the migration may find
    MaxFaults,  \* bound: crashes and lock timeouts
    MaxEvents   \* bound: rowids of pi_session_events

VARIABLES
    db,       \* the committed database
    tx,       \* tx[p]: what p's open transaction sees, or NoTx
    pc,       \* pc[p]: the statement p runs next; 0: not running
    seen,     \* seen[p]: the columns p's last PRAGMA table_info returned
    failed,   \* the processes whose connect() raised
    cut,      \* history: a process left between adding worker_ip and committing
              \* the addresses
    faults

vars == <<db, tx, pc, seen, failed, cut, faults>>

-----------------------------------------------------------------------------
(* The statements of _init_schema, in order.  Columns every version had,   *)
(* tables without a migration and plain indexes are left out.              *)

Tables == {"workers", "jobs", "pi_sessions", "pi_session_events",
           "pi_session_commands"}

\* The columns a migration adds, in the order it adds them.
Added ==
    [workers |->
        <<"gpu_used_vram_gb", "gpu_busy", "worker_ip", "dns_name", "ssh_user",
          "harness_dir", "data_paths">>,
     jobs |->
        <<"kind", "origin_session_id", "report_revision", "name",
          "queue_managed", "expected_seconds", "gpu_count", "gpu_indices",
          "queue_order">>,
     pi_sessions |->
        <<"name", "host", "agent", "bridge_incarnation", "terminal_attachable",
          "terminal_host", "terminal_port", "terminal_protocol_version",
          "has_pending_messages", "last_seen", "role", "token_hash",
          "question", "meta">>,
     pi_session_events |-> <<"sequence">>,
     pi_session_commands |-> <<"payload">>]

\* The columns of a table that CREATE TABLE makes.
Current(t) == {Added[t][i] : i \in DOMAIN Added[t]}

Stmt(op, t) == [op |-> op, table |-> t, col |-> ""]
AddAll(t, cols) ==
    [i \in DOMAIN cols |-> [op |-> "add", table |-> t, col |-> cols[i]]]
Opening(t) == <<Stmt("create", t), Stmt("pragma", t)>>

\* CREATE, PRAGMA and the guarded ALTERs of the tables without data to move.
PlainTable(t) == Opening(t) \o AddAll(t, Added[t])

WorkersTable ==
    Opening("workers") \o AddAll("workers", SubSeq(Added.workers, 1, 3))
        \o <<Stmt("fill", "workers")>>
        \o AddAll("workers", SubSeq(Added.workers, 4, 7))

\* Mutant of EventsTable: the numbering is committed before the trigger
\* exists.
EventsTableSplit ==
    PlainTable("pi_session_events")
        \o <<Stmt("number", "pi_session_events"),
             Stmt("commit", "pi_session_events"),
             Stmt("index", "pi_session_events"),
             Stmt("trigger", "pi_session_events")>>
EventsTable ==
    PlainTable("pi_session_events")
        \o <<Stmt("number", "pi_session_events"),
             Stmt("index", "pi_session_events"),
             Stmt("trigger", "pi_session_events")>>

DelegatedCleanup ==
    <<Stmt("commands", "pi_session_commands"),
      Stmt("events", "pi_session_events"),
      Stmt("parents", "pi_sessions"),
      Stmt("sessions", "pi_sessions")>>

InitSchema ==
    WorkersTable \o PlainTable("jobs") \o PlainTable("pi_sessions")
        \o EventsTable \o PlainTable("pi_session_commands")
        \o DelegatedCleanup \o <<Stmt("commit", "workers")>>

Done == Len(InitSchema) + 1

-----------------------------------------------------------------------------
(* The database.  cols[t]: the migrated columns table t has (plus          *)
(* "zerotier_ip"), tables: the tables that exist, addr[w]: worker w's      *)
(* worker_ip ("" is empty or NULL), events[i]: the row of                  *)
(* pi_session_events with rowid i, sessions: the rows of pi_sessions,      *)
(* commands: the sessions the rows of pi_session_commands belong to.       *)

NoTx == [open |-> FALSE]

View(p) == IF tx[p] = NoTx THEN db ELSE tx[p]
MayWrite(p) == \A q \in Procs \ {p} : tx[q] = NoTx

\* A statement the driver runs in a transaction only if one is open.
Ddl(p, new) ==
    /\ MayWrite(p)
    /\ IF tx[p] = NoTx THEN db' = new /\ UNCHANGED tx
                       ELSE tx' = [tx EXCEPT ![p] = new] /\ UNCHANGED db

\* A statement the driver opens a transaction for.
Dml(p, new) ==
    /\ MayWrite(p)
    /\ tx' = [tx EXCEPT ![p] = new]
    /\ UNCHANGED db

\* Mutant of ColumnMissing: the ALTERs are not guarded.
Unguarded(cols, s) == TRUE
\* What the last PRAGMA said, which may be old.
ColumnMissing(cols, s) == s.col \notin cols

EventsOf(d, s) == {i \in DOMAIN d.events : d.events[i].session = s}
Top(d, s) == Max({0} \cup {d.events[i].seq : i \in EventsOf(d, s)})

\* How many rows of the session are at or before row i.
Rank(d, i) == Cardinality({j \in EventsOf(d, d.events[i].session) : j <= i})

\* The backfill.
Numbered(d) ==
    [i \in DOMAIN d.events |->
        IF d.events[i].seq # 0 THEN d.events[i]
        ELSE [d.events[i] EXCEPT !.seq = Rank(d, i)]]

Distinct(evs) ==
    \A i, j \in DOMAIN evs :
        evs[i].session = evs[j].session /\ evs[i].seq = evs[j].seq => i = j

Delegated(d) == {s.id : s \in {r \in d.sessions : r.kind = "delegated"}}

\* Mutant of SubSelect: it takes what a delegated agent has started as well.
SubSelectFamily(d) ==
    {s.id : s \in {r \in d.sessions :
                        r.kind = "delegated" \/ r.parent \in Delegated(d)}}
\* SELECT id FROM pi_sessions WHERE session_type='delegated'
SubSelect(d) == Delegated(d)

-----------------------------------------------------------------------------
(* What a database is, and what versions before this one leave.            *)

Columns(t) == Current(t) \cup {"zerotier_ip"}
SessionIds(d) == {s.id : s \in d.sessions}
Ids == UNION {SessionIds(f) : f \in OldFiles}

IsDatabase(d) ==
    /\ DOMAIN d = {"tables", "cols", "addr", "events", "sessions", "commands",
                   "indexed", "trigger"}
    /\ d.tables \subseteq Tables
    /\ d.cols \in [Tables -> SUBSET UNION {Columns(t) : t \in Tables}]
    /\ \A t \in Tables : d.cols[t] \subseteq Columns(t)
    /\ d.addr \in [DOMAIN d.addr -> {"", "old", "new"}]
    /\ DOMAIN d.events \subseteq 1..MaxEvents
    /\ d.events \in [DOMAIN d.events -> [session : Ids, seq : 0..MaxEvents]]
    /\ d.sessions \subseteq [id : Ids, kind : {"delegated", "interactive"},
                             parent : Ids \cup {""}]
    /\ d.indexed \in BOOLEAN /\ d.trigger \in BOOLEAN

\* What refers to a session refers to one that is there.
References(d) ==
    /\ \A s \in d.sessions : s.parent \in SessionIds(d) \cup {""}
    /\ d.commands \subseteq SessionIds(d)
    /\ \A i \in DOMAIN d.events : d.events[i].session \in SessionIds(d)

\* Columns are there with their tables, the addresses are under the old name
\* of their column or have been moved, and either the trigger has numbered all
\* events or none is numbered.
IsOldFile(f) ==
    /\ IsDatabase(f)
    /\ References(f)
    /\ \A t \in Tables \ f.tables : f.cols[t] = {}
    /\ "workers" \notin f.tables => f.addr = <<>>
    /\ \A w \in DOMAIN f.addr :
        IF "worker_ip" \in f.cols["workers"] THEN f.addr[w] = "old"
        ELSE "zerotier_ip" \in f.cols["workers"] /\ f.addr[w] = ""
    /\ f.indexed = f.trigger
    /\ \A i \in DOMAIN f.events :
        f.events[i].seq = IF f.trigger THEN Rank(f, i) ELSE 0

\* What the parameters are.
MigrationConstants ==
    /\ IsFiniteSet(Procs) /\ Workers \cap Newcomers = {}
    /\ MaxFaults \in Nat /\ MaxEvents \in Nat /\ "" \notin Ids
    /\ \A f \in OldFiles : IsOldFile(f) /\ DOMAIN f.addr \subseteq Workers

ASSUME MigrationAssumption == MigrationConstants

-----------------------------------------------------------------------------
Init ==
    /\ db \in OldFiles
    /\ tx = [p \in Procs |-> NoTx]
    /\ pc = [p \in Procs |-> 0]
    /\ seen = [p \in Procs |-> {}]
    /\ failed = {}
    /\ cut = FALSE
    /\ faults = 0

At(p, op) ==
    /\ p \notin failed
    /\ pc[p] \in DOMAIN InitSchema
    /\ InitSchema[pc[p]].op = op

Cur(p) == InitSchema[pc[p]]

\* p goes on to its next statement; an ALTER whose column is in cols is none.
Advance(p, cols) ==
    LET Runs(k) == k = Done \/ (InitSchema[k].op = "add" =>
                                    ColumnMissing(cols, InitSchema[k]))
        left == {k \in pc[p] + 1 .. Done : Runs(k)}
    IN  pc' = [pc EXCEPT ![p] = CHOOSE k \in left : \A j \in left : k <= j]
Go(p) == Advance(p, seen[p])
Skip(p) == Go(p) /\ UNCHANGED <<db, tx>>
Fail(p) == failed' = failed \cup {p} /\ UNCHANGED <<db, tx, pc>>

\* connect(): opens the file and enters _init_schema.
Connect(p) ==
    /\ pc[p] = 0
    /\ Go(p)
    /\ UNCHANGED <<db, tx, seen, failed, cut, faults>>

\* CREATE TABLE IF NOT EXISTS: a table that exists is not written.
CreateTable(p) ==
    /\ At(p, "create")
    /\ LET t == Cur(p).table
           d == View(p)
       IN  IF t \in d.tables THEN Skip(p)
           ELSE /\ Ddl(p, [d EXCEPT !.tables = @ \cup {t},
                                    !.cols[t] = Current(t)])
                /\ Go(p)
    /\ seen' = [seen EXCEPT ![p] = {}]
    /\ UNCHANGED <<failed, cut, faults>>

ReadColumns(p) ==
    /\ At(p, "pragma")
    /\ LET cols == View(p).cols[Cur(p).table]
       IN  seen' = [seen EXCEPT ![p] = cols] /\ Advance(p, cols)
    /\ UNCHANGED <<db, tx, failed, cut, faults>>

\* ALTER TABLE ADD COLUMN; it raises when the column exists by now.
AddColumn(p) ==
    /\ At(p, "add")
    /\ LET s == Cur(p)
           d == View(p)
       IN  \/ /\ s.col \notin d.cols[s.table]
              /\ Ddl(p, [d EXCEPT !.cols[s.table] = @ \cup {s.col}])
              /\ Go(p)
              /\ UNCHANGED failed
           \/ s.col \in d.cols[s.table] /\ Fail(p)
    /\ UNCHANGED <<seen, cut, faults>>

AddressMoves(p) == "worker_ip" \notin seen[p] /\ "zerotier_ip" \in seen[p]

\* UPDATE workers SET worker_ip = zerotier_ip, next to the ALTER that added
\* the column.
FillAddress(p) ==
    /\ At(p, "fill")
    /\ IF AddressMoves(p)
         THEN /\ Dml(p, [View(p) EXCEPT !.addr = [w \in DOMAIN @ |-> "old"]])
              /\ Go(p)
         ELSE Skip(p)
    /\ UNCHANGED <<seen, failed, cut, faults>>

NumberEvents(p) ==
    /\ At(p, "number")
    /\ Dml(p, [View(p) EXCEPT !.events = Numbered(View(p))])
    /\ Go(p)
    /\ UNCHANGED <<seen, failed, cut, faults>>

\* CREATE UNIQUE INDEX IF NOT EXISTS raises when two rows collide.
IndexEvents(p) ==
    /\ At(p, "index")
    /\ LET d == View(p)
       IN  \/ d.indexed /\ Skip(p) /\ UNCHANGED failed
           \/ /\ ~d.indexed /\ Distinct(d.events)
              /\ Ddl(p, [d EXCEPT !.indexed = TRUE])
              /\ Go(p)
              /\ UNCHANGED failed
           \/ ~d.indexed /\ ~Distinct(d.events) /\ Fail(p)
    /\ UNCHANGED <<seen, cut, faults>>

CreateTrigger(p) ==
    /\ At(p, "trigger")
    /\ IF View(p).trigger THEN Skip(p)
       ELSE Ddl(p, [View(p) EXCEPT !.trigger = TRUE]) /\ Go(p)
    /\ UNCHANGED <<seen, failed, cut, faults>>

DeleteCommands(p) ==
    /\ At(p, "commands")
    /\ Dml(p, [View(p) EXCEPT !.commands = @ \ SubSelect(View(p))])
    /\ Go(p)
    /\ UNCHANGED <<seen, failed, cut, faults>>

DeleteEvents(p) ==
    /\ At(p, "events")
    /\ LET d == View(p)
           kept == {i \in DOMAIN d.events :
                        d.events[i].session \notin SubSelect(d)}
       IN  Dml(p, [d EXCEPT !.events = [i \in kept |-> @[i]]])
    /\ Go(p)
    /\ UNCHANGED <<seen, failed, cut, faults>>

DetachChildren(p) ==
    /\ At(p, "parents")
    /\ LET d == View(p)
       IN  Dml(p, [d EXCEPT !.sessions =
                {IF s.parent \in SubSelect(d) THEN [s EXCEPT !.parent = ""]
                 ELSE s : s \in @}])
    /\ Go(p)
    /\ UNCHANGED <<seen, failed, cut, faults>>

DeleteDelegated(p) ==
    /\ At(p, "sessions")
    /\ Dml(p, [View(p) EXCEPT !.sessions =
                {s \in @ : s.kind # "delegated"}])
    /\ Go(p)
    /\ UNCHANGED <<seen, failed, cut, faults>>

Commit(p) ==
    /\ At(p, "commit")
    /\ db' = View(p)
    /\ tx' = [tx EXCEPT ![p] = NoTx]
    /\ Go(p)
    /\ UNCHANGED <<seen, failed, cut, faults>>

-----------------------------------------------------------------------------
\* Statements that must write, and so wait for the lock.
Writes(p) ==
    /\ p \notin failed /\ pc[p] \in DOMAIN InitSchema
    /\ LET s == Cur(p)
           d == View(p)
       IN  CASE s.op = "create" -> s.table \notin d.tables
             [] s.op = "pragma" -> FALSE
             [] s.op = "fill" -> AddressMoves(p)
             [] s.op = "index" -> ~d.indexed
             [] s.op = "trigger" -> ~d.trigger
             [] s.op = "commit" -> FALSE
             [] OTHER -> TRUE

\* busy_timeout passes while another process holds the write lock.
LockTimeout(p) ==
    /\ faults < MaxFaults
    /\ Writes(p) /\ ~MayWrite(p)
    /\ faults' = faults + 1
    /\ failed' = failed \cup {p}
    /\ UNCHANGED <<db, tx, pc, seen, cut>>

\* p has added worker_ip and its UPDATE of the addresses is not committed.
Filling(p) ==
    /\ \E w \in DOMAIN db.addr : db.addr[w] = ""
    /\ tx[p] # NoTx \/ (pc[p] \in DOMAIN InitSchema /\ Cur(p).op = "fill"
                          /\ AddressMoves(p))

\* The process ends: SQLite rolls back what its connection had open.
Leave(p) ==
    /\ cut' = (cut \/ Filling(p))
    /\ tx' = [tx EXCEPT ![p] = NoTx]
    /\ pc' = [pc EXCEPT ![p] = 0]
    /\ failed' = failed \ {p}
    /\ seen' = [seen EXCEPT ![p] = {}]
    /\ UNCHANGED db

\* connect() raised: nothing closes the connection before the process ends.
ExitFailed(p) == p \in failed /\ Leave(p) /\ UNCHANGED faults

\* close(), and any end of a process after its connect().
Close(p) == pc[p] = Done /\ Leave(p) /\ UNCHANGED faults

Crash(p) ==
    /\ faults < MaxFaults
    /\ pc[p] \in 1..(Done - 1) /\ p \notin failed
    /\ Leave(p)
    /\ faults' = faults + 1

-----------------------------------------------------------------------------
\* The sequence a new row ends with: the trigger's, or the column's default.
InsertedSeq(d, s) == IF d.trigger THEN Top(d, s) + 1 ELSE 0

\* The rows with one more at the end: SQLite gives it the next rowid.
WithEvent(d, s) ==
    LET next == Max({0} \cup DOMAIN d.events) + 1
        row == [session |-> s, seq |-> InsertedSeq(d, s)]
    IN  [i \in DOMAIN d.events \cup {next} |->
            IF i = next THEN row ELSE d.events[i]]

\* An INSERT of an event: by a process that has connected, or by a server
\* of the previous version that is still running.
InsertEvent(s) ==
    /\ \A q \in Procs : tx[q] = NoTx
    /\ s \in {r.id : r \in db.sessions}
    /\ "pi_session_events" \in db.tables
    /\ Max({0} \cup DOMAIN db.events) < MaxEvents
    /\ db.indexed => Distinct(WithEvent(db, s))
    /\ db' = [db EXCEPT !.events = WithEvent(db, s)]
    /\ UNCHANGED <<tx, pc, seen, failed, cut, faults>>

\* upsert_worker of a worker without a row.  _insert_worker names worker_ip
\* and not zerotier_ip, which the old table declares NOT NULL: with an old
\* file the INSERT raises and nothing changes.
Register(p, w) ==
    /\ pc[p] = Done
    /\ MayWrite(p)
    /\ w \in Newcomers \ DOMAIN db.addr
    /\ "zerotier_ip" \notin db.cols.workers
    /\ db' = [db EXCEPT !.addr =
            [v \in DOMAIN @ \cup {w} |-> IF v = w THEN "new" ELSE @[v]]]
    /\ UNCHANGED <<tx, pc, seen, failed, cut, faults>>

-----------------------------------------------------------------------------
Migrate(p) ==
    \/ CreateTable(p) \/ ReadColumns(p) \/ AddColumn(p) \/ FillAddress(p)
    \/ NumberEvents(p) \/ IndexEvents(p) \/ CreateTrigger(p)
    \/ DeleteCommands(p) \/ DeleteEvents(p) \/ DetachChildren(p)
    \/ DeleteDelegated(p) \/ Commit(p)

Next ==
    \/ \E p \in Procs :
        \/ Connect(p) \/ Migrate(p) \/ LockTimeout(p) \/ ExitFailed(p)
        \/ Close(p) \/ Crash(p)
        \/ \E w \in Newcomers : Register(p, w)
    \/ \E s \in Ids : InsertEvent(s)

Spec == Init /\ [][Next]_vars

\* A process that runs goes on; one that has failed ends; a user or a
\* service manager starts it again.  Strong fairness: a process that waits
\* for the write lock polls it, and the lock is free again and again.
Fairness ==
    \A p \in Procs :
        WF_vars(Connect(p)) /\ SF_vars(Migrate(p)) /\ WF_vars(ExitFailed(p))

-----------------------------------------------------------------------------
Ready(p) == pc[p] = Done

\* The database and the transactions are databases, and only one process
\* has a transaction open at a time.
TypeOK ==
    /\ IsDatabase(db)
    /\ \A p \in Procs : tx[p] # NoTx => IsDatabase(tx[p])
    /\ pc \in [Procs -> 0..Done]
    /\ failed \subseteq Procs
    /\ Cardinality({p \in Procs : tx[p] # NoTx}) <= 1
    /\ \A p \in Procs : Ready(p) => tx[p] = NoTx

\* However many processes migrated at once, whichever of them failed or
\* died and wherever: a process whose connect() returned finds every table
\* and every column the queries of db.py name.
ConnectedIsMigrated ==
    \A p \in Procs :
        Ready(p) =>
            /\ db.tables = Tables
            /\ \A t \in Tables : Current(t) \subseteq db.cols[t]
            /\ db.indexed /\ db.trigger

\* Once a process has connected, the cursors of a session are its events in
\* insertion order: numbered 1, 2, 3, ... with no event left at 0, also for
\* the events that a server of the old version goes on inserting.
CursorsInOrder ==
    (\E p \in Procs : Ready(p)) =>
        \A i \in DOMAIN db.events : db.events[i].seq = Rank(db, i)

\* Once a process has connected, nothing is left of a delegated agent, and
\* nothing refers to a session that is gone.
NothingDangles ==
    (\E p \in Procs : Ready(p)) =>
        Delegated(db) = {} /\ References(db)

\* The migration takes nothing from an interactive agent: its row, its
\* commands and its events stay, an event's cursor never changes once it
\* has one, and a reader of the file never sees a delegated session without
\* the records that go with it.
InteractiveKept ==
    [][/\ {s.id : s \in {r \in db.sessions : r.kind # "delegated"}}
            \subseteq {s.id : s \in db'.sessions}
       /\ db.commands \ Delegated(db) \subseteq db'.commands
       /\ \A i \in DOMAIN db.events : db.events[i].session \notin Delegated(db) =>
            /\ i \in DOMAIN db'.events
            /\ db'.events[i].session = db.events[i].session
            /\ db.events[i].seq # 0 => db'.events[i].seq = db.events[i].seq
       /\ (Delegated(db') = Delegated(db) =>
            Delegated(db) \cap db.commands \subseteq db'.commands)]_vars

\* A worker keeps the address it was registered with under the old name of
\* the column, once nobody is filling it in, unless a process left after it
\* had added the column: the ALTER is durable and the UPDATE is not.
AddressesKept ==
    (\E p \in Procs : Ready(p)) /\ (\A p \in Procs : ~Filling(p)) /\ ~cut =>
        \A w \in Workers \cap DOMAIN db.addr : db.addr[w] = "old"

\* Every process connects in the end: a connect() that raised because
\* another process added the column first, waited too long for the lock or
\* died half-way succeeds when it is tried again.
EventuallyConnects == \A p \in Procs : <>Ready(p)

\* What connect() has promised when it returns, however many processes migrated
\* at once and wherever one of them failed or died (_init_schema).
DatabaseConsistent ==
    /\ TypeOK
    /\ ConnectedIsMigrated
    /\ CursorsInOrder
    /\ NothingDangles
    /\ AddressesKept
=============================================================================
