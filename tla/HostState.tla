----------------------------- MODULE HostState -----------------------------
(***************************************************************************)
(* What the machines keep: the database file of the server and of those    *)
(* that open it with it (SchemaMigration), the exports of a source worker  *)
(* (DataCopy), the ids of the worker hosts with the table of workers       *)
(* (WorkerRegistry), and the host's manifest (HostRuntime).  They have no  *)
(* state in common, so what one does is the same whatever the others do: a *)
(* behaviour moves one of them and leaves the others as they began.        *)
(***************************************************************************)
EXTENDS SchemaMigration, Integers

CONSTANTS
    Parts,    \* those that may move: "database", "exports", "registry",
              \* "manifest"
    \* the exports
    Transfers, Ports, None, MaxExportFaults, MaxRestarts,
    \* the registry
    Hosts, Empty, Interval, Cutoff, MaxInFlight, MaxAddressMoves, MaxLosses,
    MaxCrashes, MaxRemovals,
    \* the manifest
    Required, Optional, Fallback, Dirs, TempDirs, Shells, Placements, Setups,
    Loads, MaxMoves

VARIABLES
    part,     \* the one that moves
    handler, helper, port, files, rsync, rule, timer, elapsed, cleaning, job,
    monitor, exportFaults, restarts,
    idFile, daemon, id, wait, real, rows, reqs, quiet, late, addressMoves, losses,
    crashes, removals,
    disk, broken, private, file, safe, setup, load, made, moves

Exports == INSTANCE DataCopy WITH
    faults <- exportFaults, MaxFaults <- MaxExportFaults

Registry == INSTANCE WorkerRegistry WITH
    file <- idFile, moves <- addressMoves, MaxMoves <- MaxAddressMoves

Runtime == INSTANCE HostRuntime

ASSUME ExportsAssumption == Exports!DataCopyConstants

ASSUME RegistryAssumption == Cutoff \in Nat

ASSUME ManifestAssumption == Runtime!HostConstants

exportVars == <<handler, helper, port, files, rsync, rule, timer, elapsed,
                cleaning, job, monitor, exportFaults, restarts>>
registryVars == <<idFile, daemon, id, wait, real, rows, reqs, quiet, late,
                  addressMoves, losses, crashes, removals>>
manifestVars == <<disk, broken, private, file, safe, setup, load, made, moves>>
allVars == <<part, vars, exportVars, registryVars, manifestVars>>

\* A manifest that stands still has one initial state.
AllInit ==
    /\ part \in Parts
    /\ Init /\ Exports!Init /\ Registry!Init /\ Runtime!Init
    /\ part # "manifest" => private

Moves(p, others) == part = p /\ UNCHANGED <<part, others>>

AllNext ==
    \/ Moves("database", <<exportVars, registryVars, manifestVars>>) /\ Next
    \/ Moves("exports", <<vars, registryVars, manifestVars>>) /\ Exports!Next
    \/ Moves("registry", <<vars, exportVars, manifestVars>>) /\ Registry!Next
    \/ Moves("manifest", <<vars, exportVars, registryVars>>) /\ Runtime!Next

AllSpec == AllInit /\ [][AllNext]_allVars

\* The fairness of the processes, of the exports and of the registry.
FairAllSpec == AllSpec /\ Fairness /\ Exports!Fairness /\ Registry!Fairness

-----------------------------------------------------------------------------
(* What is checked of them together; the database has its own properties.  *)

\* Rows follow the workers, with the address they have; explained in
\* WorkerRegistry.
TableIsCurrent == Registry!TableIsCurrent

\* Every export ends; explained in DataCopy.
ExportsEnd == Exports!ExportsEnd

\* What the machines keep is consistent: nothing that a source worker publishes
\* is forgotten (explained in DataCopy), and the manifest, its temporary files,
\* what loads return and the captured paths are right (HostRuntime).
MachinesConsistent == Exports!ExportsConsistent /\ Runtime!ManifestConsistent

\* What others rely on is not taken away: the row of a worker that the server
\* has just heard of, by the pruner (but see WorkerRegistry for a write that
\* came late), and the manifest, by a setup that fails
\* or is killed before its rename (prune_workers, write_host_runtime).
NothingTakenAway ==
    /\ Registry!PrunedWereSilent
    /\ Runtime!FailedSetupKeepsManifest
=============================================================================
