----------------------------- MODULE SharedState -----------------------------
(***************************************************************************)
(* What all request tasks of the control process share: the rate limiter,  *)
(* the response cache and the SQLite connection.  They have no state in    *)
(* common, so what one does is the same whatever the others do: a          *)
(* behaviour moves one of them and leaves the others as they began, and    *)
(* TLC explores their states one after the other.                          *)
(***************************************************************************)
EXTENDS RateLimiter, Sequences, FiniteSets

CONSTANTS
    \* the cache
    Resources, Keys, ResourceOf, TTL, Readers, Writers, Invalidates, Writes, Creates,
    MaxLoad, CacheTime, MaxVersion,
    \* the connection
    Events, Reports, Jobs, Origins, Rollers, Limit, MaxCrashes

VARIABLES
    part,          \* the one that moves
    cacheNow, version, replaced, store, reader, cacheWriter, served,
    disk, conn, eventWriter, report, changed, roller, cursor, batch, sent,
    undone, misled, crashes

\* A route may change several resources and know some of their keys.
ASSUME CacheAssumption ==
    /\ Keys # {} /\ Writers # {}
    /\ ResourceOf \in [Keys -> Resources] /\ TTL \in [Keys -> Nat]
    /\ Writes \in [Writers -> SUBSET Resources]
    /\ Invalidates \in [Writers -> Seq(Keys)]
    /\ MaxLoad \in Nat /\ CacheTime \in Nat /\ MaxVersion \in Nat \ {0}

\* A report names the session it comes from and has a revision.
ASSUME ConnectionAssumption ==
    /\ IsFiniteSet(Events) /\ Events \cap Reports = {} /\ "none" \notin Origins
    /\ \A r \in Reports : r.job \in Jobs /\ r.origin \in Origins /\ r.rev \in Nat \ {0}
    /\ Limit \in Nat \ {0} /\ MaxCrashes \in Nat

Cache == INSTANCE ResponseCache WITH
    MaxTime <- CacheTime, now <- cacheNow, writer <- cacheWriter

Connection == INSTANCE SharedConnection WITH writer <- eventWriter

cacheVars == <<cacheNow, version, replaced, store, reader, cacheWriter, served>>
connVars == <<disk, conn, eventWriter, report, changed, roller, cursor, batch,
              sent, undone, misled, crashes>>
allVars == <<part, vars, cacheVars, connVars>>

AllInit ==
    /\ part \in {"limiter", "cache", "connection"}
    /\ Init /\ Cache!Init /\ Connection!Init

Moves(p, others) == part = p /\ UNCHANGED <<part, others>>

AllNext ==
    \/ Moves("limiter", <<cacheVars, connVars>>) /\ Next
    \/ Moves("cache", <<vars, connVars>>) /\ Cache!Next
    \/ Moves("connection", <<vars, cacheVars>>) /\ Connection!Next

AllSpec == AllInit /\ [][AllNext]_allVars

-----------------------------------------------------------------------------
(* The properties of the cache and of the connection, under names of their *)
(* own; each is explained where it is defined.                             *)

\* A stale entry was stored late, or changed by a route that does not know its
\* key, or by a request that was cut off.
CacheConsistent == Cache!CacheConsistent
\* Acknowledged writes are durable, retries count once, the stream goes on.
ConnectionConsistent == Connection!ConnectionConsistent

\* The server keeps to what it has answered: an agent that waits as Retry-After
\* says is admitted, a cached answer is never older than the TTL of its route
\* and the time of a load, and the row of a job never goes back to an older
\* report or to another owner.
AnswersHold ==
    /\ RetryAfterHolds
    /\ Cache!StaleAtMostTTL
    /\ Connection!RevisionsOnlyGrow
=============================================================================
