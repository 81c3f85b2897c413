---------------------------- MODULE ResponseCache ----------------------------
(***************************************************************************)
(* The TTL cache of the read-heavy routes (cache.py, cached and            *)
(* invalidate_workers_cache of heartbeat.py).  A read looks in the cache,  *)
(* loads from the database when it finds nothing, and stores what it       *)
(* loaded; a write changes the database and then invalidates the keys it   *)
(* knows of one after the other.  Every step is an await of its own, at    *)
(* which the request of a writer may be cancelled or fail.                 *)
(* Time advances in ticks; a loaded value is a version of its resource,    *)
(* that of its loader's first query.                                       *)
(***************************************************************************)
EXTENDS Naturals, FiniteSets, Sequences, SequencesExt

CONSTANTS
    Resources,        \* what is cached: workers, tunnels with their workers
    Keys,             \* cache keys
    ResourceOf,       \* key -> the resource it is computed from
    TTL,              \* key -> ticks
    Readers, Writers, \* requests
    Invalidates,      \* writer -> the keys it invalidates, in order
    Writes,           \* writer -> the resources it changes
    Creates,          \* writers that take their change back when they fail
    MaxLoad,          \* longest time from a load to its store, in ticks
    MaxTime, MaxVersion  \* bounds

VARIABLES
    now,
    version,   \* resource -> its version in the database
    replaced,  \* resource, version -> [at, by, cut]: when and by whom it was
               \* superseded; cut: by a request that ended before all its keys
    store,     \* key -> [val, expires, late]; late: val was old when it was stored
    reader,    \* reader -> [at, key, val, since]
    writer,    \* writer -> what it still has to do
    served     \* the last answer: [key, val]

vars == <<now, version, replaced, store, reader, writer, served>>

None == [val |-> 0, expires |-> 0, late |-> FALSE]
IdleReader == [at |-> "idle", key |-> CHOOSE k \in Keys : TRUE, val |-> 0, since |-> 0]
NoAnswer == [key |-> CHOOSE k \in Keys : TRUE, val |-> 0]
Current == [at |-> 0, by |-> CHOOSE w \in Writers : TRUE, cut |-> FALSE]
IdleWriter == [at |-> "idle", keys |-> <<>>]

Init ==
    /\ now = 0
    /\ version = [r \in Resources |-> 1]
    /\ replaced = [r \in Resources |-> [v \in 1..MaxVersion |-> Current]]
    /\ store = [k \in Keys |-> None]
    /\ reader = [c \in Readers |-> IdleReader]
    /\ writer = [w \in Writers |-> IdleWriter]
    /\ served = NoAnswer

Answer(k, v) == served' = [key |-> k, val |-> v]

-----------------------------------------------------------------------------
(* Reads *)

\* TTLCache.get: an entry that has not expired; an expired one is dropped.
Hit(k) == store[k] # None /\ store[k].expires >= now

Get(c, k) ==
    /\ reader[c].at = "idle"
    /\ IF Hit(k)
       THEN /\ Answer(k, store[k].val)
            /\ UNCHANGED <<store, reader>>
       ELSE /\ store' = [store EXCEPT ![k] = None]
            /\ reader' = [reader EXCEPT ![c] =
                            [at |-> "load", key |-> k, val |-> 0, since |-> 0]]
            /\ UNCHANGED served
    /\ UNCHANGED <<now, version, replaced, writer>>

\* The loader's query.
Load(c) ==
    /\ reader[c].at = "load"
    /\ LET k == reader[c].key IN
       reader' = [reader EXCEPT ![c] = [at |-> "set", key |-> k, since |-> now,
                                        val |-> version[ResourceOf[k]]]]
    /\ UNCHANGED <<now, version, replaced, store, writer, served>>

\* TTLCache.set, and the answer.
Set(c) ==
    LET k == reader[c].key v == reader[c].val IN
    /\ reader[c].at = "set"
    /\ store' = [store EXCEPT ![k] = [val |-> v, expires |-> now + TTL[k],
                                      late |-> v # version[ResourceOf[k]]]]
    /\ Answer(k, v)
    /\ reader' = [reader EXCEPT ![c] = IdleReader]
    /\ UNCHANGED <<now, version, replaced, writer>>

-----------------------------------------------------------------------------
(* Writes *)

\* The tables change once for all resources that are computed from them.
Supersede(w, cut) ==
    /\ \A r \in Writes[w] : version[r] < MaxVersion
    /\ version' = [r \in Resources |-> version[r] + (IF r \in Writes[w] THEN 1 ELSE 0)]
    /\ replaced' = [r \in Resources |->
                       IF r \in Writes[w]
                       THEN [replaced[r] EXCEPT ![version[r]] =
                               [at |-> now, by |-> w, cut |-> cut]]
                       ELSE replaced[r]]

\* workers_prune, tunnels_create, tunnels_delete, marimo_create, marimo_delete
\* commit their change; POST /register changes the same workers in another
\* application, which has no cache.
Change(w) ==
    /\ writer[w].at = "idle"
    /\ Supersede(w, FALSE)
    /\ writer' = [writer EXCEPT ![w] = [at |-> "invalidate", keys |-> Invalidates[w]]]
    /\ UNCHANGED <<now, store, reader, served>>

\* TTLCache.invalidate, key by key.
SkipInvalidate(w) ==
    /\ writer[w].at = "invalidate" /\ writer[w].keys # <<>>
    /\ writer' = [writer EXCEPT ![w] = [at |-> "invalidate", keys |-> Tail(@.keys)]]
    /\ UNCHANGED <<now, version, replaced, store, reader, served>>

Invalidate(w) ==
    /\ writer[w].at = "invalidate" /\ writer[w].keys # <<>>
    /\ store' = [store EXCEPT ![Head(writer[w].keys)] = None]
    /\ writer' = [writer EXCEPT ![w] = [at |-> "invalidate", keys |-> Tail(@.keys)]]
    /\ UNCHANGED <<now, version, replaced, reader, served>>

WriteAnswered(w) ==
    /\ writer[w].at = "invalidate" /\ writer[w].keys = <<>>
    /\ writer' = [writer EXCEPT ![w] = IdleWriter]
    /\ UNCHANGED <<now, version, replaced, store, reader, served>>

\* The request is cancelled, or fails, between its commit and the last of its
\* invalidations; a create goes on to its cleanup.
CutOff(w) ==
    /\ writer[w].keys # <<>>
    /\ writer' = [writer EXCEPT ![w] =
                     [at |-> IF w \in Creates THEN "undo" ELSE "idle", keys |-> <<>>]]
    /\ replaced' = [r \in Resources |-> [v \in 1..MaxVersion |->
                       IF replaced[r][v].by = w
                       THEN [replaced[r][v] EXCEPT !.cut = TRUE] ELSE replaced[r][v]]]
    /\ UNCHANGED <<now, version, store, reader, served>>

\* cleanup_failed_start, cleanup_failed_tunnel: the row is deleted and no key
\* is invalidated; a delete that fails is only logged.
Undo(w) ==
    /\ writer[w].at = "undo"
    /\ writer' = [writer EXCEPT ![w] = IdleWriter]
    /\ Supersede(w, TRUE) \/ UNCHANGED <<version, replaced>>
    /\ UNCHANGED <<now, store, reader, served>>

\* Time passes; a value that was loaded is stored within MaxLoad.
Tick ==
    /\ now < MaxTime
    /\ \A c \in Readers : reader[c].at = "set" => now < reader[c].since + MaxLoad
    /\ now' = now + 1
    /\ UNCHANGED <<version, replaced, store, reader, writer, served>>

Next ==
    \/ \E c \in Readers : Load(c) \/ Set(c) \/ \E k \in Keys : Get(c, k)
    \/ \E w \in Writers : Change(w) \/ Invalidate(w) \/ WriteAnswered(w)
                       \/ CutOff(w) \/ Undo(w)
    \/ Tick

Spec == Init /\ [][Next]_vars

-----------------------------------------------------------------------------
(* Properties *)

\* Every variable is of its type.
TypeOK ==
    /\ now \in 0..MaxTime
    /\ version \in [Resources -> 1..MaxVersion]
    /\ \A k \in Keys : store[k].val \in 0..MaxVersion /\ store[k].late \in BOOLEAN
    /\ \A k \in Keys : store[k] # None => store[k].val \in 1..version[ResourceOf[k]]
    /\ \A c \in Readers : reader[c].at \in {"idle", "load", "set"} /\ reader[c].key \in Keys
    /\ \A w \in Writers : writer[w].at \in {"idle", "invalidate", "undo"}

\* No answer is older than its route's TTL and the time a load may take,
\* whatever reads and writes overlap: a value that was stored late expires
\* like any other.
StaleAtMostTTL ==
    [][served' # served =>
        LET k == served'.key v == served'.val r == ResourceOf[k] IN
        v = version[r] \/ replaced[r][v].at + TTL[k] + MaxLoad >= now]_vars

\* An entry that is stale, and was not so when it was stored, is as old as the
\* changes that could not remove it: of a route that does not know its key, of
\* a request that was cut off before it came to the key (its rollback included),
\* or of one that has yet to remove it.  A write that knows the key and runs to
\* its end leaves only what was loaded before and stored late.
OnlyALateLoadIsStale ==
    \A k \in Keys : LET r == ResourceOf[k] v == store[k].val IN
        store[k] # None /\ ~store[k].late =>
            \A u \in v .. version[r] - 1 : LET change == replaced[r][u] IN
                \/ change.cut
                \/ k \notin ToSet(Invalidates[change.by])
                \/ k \in ToSet(writer[change.by].keys)

\* What the cache holds: values the database has had, and stale ones only where
\* the code cannot remove them (TTLCache, cached).
CacheConsistent == TypeOK /\ OnlyALateLoadIsStale
=============================================================================
