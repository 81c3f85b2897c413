---------------------------- MODULE HostRuntime ----------------------------
(***************************************************************************)
(* The host-runtime manifest (host_runtime.py, cli/host.py): `wh host      *)
(* setup` captures where the tools are, probes them and replaces the       *)
(* manifest atomically; load_host_runtime and `wh host doctor` read it     *)
(* while tools come and go.  A setup may be killed and the machine may     *)
(* lose power between any two file operations.                             *)
(*                                                                         *)
(* A tool is named by its directory.  The capture of all tools is one      *)
(* step, and so is a load's look at the manifest (stat and read): the      *)
(* rename replaces the file as a whole.                                    *)
(***************************************************************************)
EXTENDS Naturals, Sequences, FiniteSets, SequencesExt

CONSTANTS
    Required,    \* REQUIRED_EXECUTABLES, in order
    Optional,    \* OPTIONAL_EXECUTABLES, in order
    Fallback,    \* STANDARD_PATH_FALLBACK, in order
    Dirs,        \* directories that exist
    TempDirs,    \* those under the temporary root
    Shells,      \* the values PATH may have in the shell that runs setup
    Placements,  \* the tools in each directory, [Dirs -> SUBSET Tools]
    Setups,      \* runs of `wh host setup`
    Loads,       \* runs of load_host_runtime or `wh host doctor`
    MaxMoves     \* bound: tools that are installed or removed

Tools == ToSet(Required) \cup ToSet(Optional)
NotFound == "none"

\* What the parameters are; no directory is called NotFound.
IsSequence(x) == x \in Seq({x[i] : i \in DOMAIN x})
HostConstants ==
    /\ IsSequence(Required) /\ IsSequence(Optional) /\ IsSequence(Fallback)
    /\ \A shell \in Shells : IsSequence(shell)
    /\ Placements \subseteq [Dirs -> SUBSET Tools]
    /\ NotFound \notin Dirs
    /\ MaxMoves \in Nat

VARIABLES
    disk,     \* disk[d]: the tools in directory d
    broken,   \* tools whose probe fails
    private,  \* the manifest's directory has mode 0700
    file,     \* the manifest: [data, synced]
    safe,     \* the manifest a loss of power would bring back
    setup,    \* setup[s]: [pc, rt, temp]
    load,     \* load[r]: [pc, rt, held]
    made,     \* every capture so far: [rt, shell, disk]
    moves

vars == <<disk, broken, private, file, safe, setup, load, made, moves>>

-----------------------------------------------------------------------------
(* capture_host_runtime.                                                   *)

\* shutil.which: the first directory of the path that has the tool.
Which(path, d, tool) ==
    LET hits == {i \in DOMAIN path : path[i] \in Dirs /\ tool \in d[path[i]]}
    IN  IF hits = {} THEN NotFound
        ELSE path[CHOOSE i \in hits : \A j \in hits : i <= j]

\* The entries of s at the positions keep.
Nth(keep, k) == CHOOSE i \in keep : Cardinality({j \in keep : j <= i}) = k
Select(s, keep) == [k \in 1..Cardinality(keep) |-> s[Nth(keep, k)]]

\* _capture_path: the directories of the tools found, what else the shell's
\* PATH has that exists and is not temporary, the standard directories; of
\* duplicates the first one stays.
CapturePath(exes, shell) ==
    LET tools == Required \o Optional
        homes == [i \in DOMAIN tools |-> exes[tools[i]]]
        all == homes \o shell \o Fallback
        found == {i \in DOMAIN all :
            IF i <= Len(homes) THEN all[i] # NotFound
            ELSE /\ all[i] \in Dirs
                 /\ i <= Len(homes \o shell) => all[i] \notin TempDirs}
    IN  Select(all, {i \in found : \A j \in found : all[i] = all[j] => i <= j})

Captured(shell, d) ==
    LET exes == [t \in Tools |-> Which(shell, d, t)]
    IN  [exes |-> exes, path |-> CapturePath(exes, shell)]

-----------------------------------------------------------------------------
\* What no capture is: no file, and a file of which a part was written.
NoData == [none |-> TRUE]
Torn == [torn |-> TRUE]

NoFile == [data |-> NoData, synced |-> TRUE]
NoSetup == [pc |-> "idle", rt |-> NoData, temp |-> NoData]
NoLoad == [pc |-> "idle", rt |-> NoData, held |-> {}]

Init ==
    /\ disk \in Placements
    /\ broken = {}
    /\ private \in BOOLEAN
    /\ file = NoFile
    /\ safe = NoFile
    /\ setup = [s \in Setups |-> NoSetup]
    /\ load = [r \in Loads |-> NoLoad]
    /\ made = {}
    /\ moves = 0

Places == {p \in Dirs \X Tools : p[2] \in disk[p[1]]}

-----------------------------------------------------------------------------
(* wh host setup.                                                          *)

SetupAt(s, from, to) ==
    /\ setup[s].pc = from
    /\ setup' = [setup EXCEPT ![s].pc = to]

\* capture_host_runtime raises when a required tool is not found.
CaptureFails(s, shell) ==
    /\ \E t \in ToSet(Required) : Which(shell, disk, t) = NotFound
    /\ SetupAt(s, "idle", "failed")
    /\ UNCHANGED <<disk, broken, private, file, safe, load, made, moves>>

Capture(s, shell) ==
    /\ \A t \in ToSet(Required) : Which(shell, disk, t) # NotFound
    /\ setup[s].pc = "idle"
    /\ setup' = [setup EXCEPT ![s].pc = "captured",
                              ![s].rt = Captured(shell, disk)]
    /\ made' = made \cup {[rt |-> Captured(shell, disk), shell |-> shell,
                           disk |-> disk]}
    /\ UNCHANGED <<disk, broken, private, file, safe, load, moves>>

\* A tool is where the manifest says and its version probe exits with 0.
Works(rt, t) == rt.exes[t] # NotFound /\ t \in disk[rt.exes[t]] /\ t \notin broken

\* validate_host_runtime: only a required tool stops the setup.
ProbesPass(s) ==
    /\ setup[s].pc = "captured"
    /\ \A t \in ToSet(Required) : Works(setup[s].rt, t)
    /\ SetupAt(s, "captured", "probed")
    /\ UNCHANGED <<disk, broken, private, file, safe, load, made, moves>>

\* Mutant of ProbesFail: the manifest that no longer holds is removed.
ProbesFailClean(s) ==
    /\ SetupAt(s, "captured", "failed")
    /\ file' = NoFile
    /\ UNCHANGED <<disk, broken, private, safe, load, made, moves>>
\* A required probe fails, or takes longer than its five seconds.
ProbesFail(s) ==
    /\ SetupAt(s, "captured", "failed")
    /\ UNCHANGED <<disk, broken, private, file, safe, load, made, moves>>

\* mkdir and chmod of the directory, then mkstemp.
MakeTemp(s) ==
    /\ setup[s].pc = "probed"
    /\ setup' = [setup EXCEPT ![s].pc = "temp", ![s].temp = Torn]
    /\ private' = TRUE
    /\ UNCHANGED <<disk, broken, file, safe, load, made, moves>>

\* The JSON is written, flushed and synced.
FillTemp(s) ==
    /\ setup[s].pc = "temp"
    /\ setup' = [setup EXCEPT ![s].pc = "filled", ![s].temp = setup[s].rt]
    /\ UNCHANGED <<disk, broken, private, file, safe, load, made, moves>>

\* os.fsync of the temporary file.
Synced == TRUE

\* os.chmod of the temporary file and os.replace.
Replace(s) ==
    /\ setup[s].pc = "filled"
    /\ file' = [data |-> setup[s].temp, synced |-> Synced]
    /\ setup' = [setup EXCEPT ![s].pc = "replaced", ![s].temp = NoData]
    /\ UNCHANGED <<disk, broken, private, safe, load, made, moves>>

\* The rename is durable: _fsync_directory, or the file system by itself.
RenameDurable ==
    /\ safe # file
    /\ safe' = file
    /\ UNCHANGED <<disk, broken, private, file, setup, load, made, moves>>

\* _fsync_directory is best effort: an error of it is swallowed.
FinishSetup(s) ==
    /\ SetupAt(s, "replaced", "done")
    /\ safe' \in {safe, file}
    /\ UNCHANGED <<disk, broken, private, file, load, made, moves>>

\* An exception in write_host_runtime: the temporary file is removed.
WriteFails(s) ==
    /\ setup[s].pc \in {"temp", "filled"}
    /\ setup' = [setup EXCEPT ![s].pc = "failed", ![s].temp = NoData]
    /\ UNCHANGED <<disk, broken, private, file, safe, load, made, moves>>

Ended == {"idle", "failed", "done", "killed"}

Kill(s) ==
    /\ setup[s].pc \notin Ended
    /\ setup' = [setup EXCEPT ![s].pc = "killed"]
    /\ UNCHANGED <<disk, broken, private, file, safe, load, made, moves>>

\* Every process ends; the manifest is the last durable one or the current
\* one, whose data is there only if it was synced.
PowerLoss ==
    /\ file' \in {safe, file} \cup
                 (IF file.synced THEN {} ELSE {[data |-> Torn, synced |-> TRUE]})
    /\ safe' = file'
    /\ setup' = [s \in Setups |->
                    IF setup[s].pc \in Ended THEN setup[s]
                    ELSE [setup[s] EXCEPT !.pc = "killed"]]
    /\ load' = [r \in Loads |-> NoLoad]
    /\ UNCHANGED <<disk, broken, private, made, moves>>

-----------------------------------------------------------------------------
(* load_host_runtime and wh host doctor.                                   *)

EndLoad(r, pc) == load' = [load EXCEPT ![r].pc = pc]

\* exists, lstat, stat of the directory, read_text.
ReadManifest(r) ==
    /\ load[r].pc = "idle"
    /\ load' = [load EXCEPT ![r] =
        CASE file.data = NoData -> [NoLoad EXCEPT !.pc = "absent"]
          [] file.data # NoData /\ ~private -> [NoLoad EXCEPT !.pc = "error"]
          [] OTHER -> [pc |-> "read", rt |-> file.data, held |-> Places]]
    /\ UNCHANGED <<disk, broken, private, file, safe, setup, made, moves>>

\* _validate_loaded_payload: a JSON object with a path and every required
\* tool.
ValidPayload(data) ==
    data # Torn /\ \A t \in ToSet(Required) : data.exes[t] # NotFound

\* _validate_executables_on_disk
OnDisk(rt) ==
    \A t \in Tools : rt.exes[t] # NotFound => t \in disk[rt.exes[t]]

Validate(r) ==
    /\ load[r].pc = "read"
    /\ EndLoad(r, IF ~ValidPayload(load[r].rt) THEN "error"
                  ELSE IF load[r].rt # Torn /\ ~OnDisk(load[r].rt) THEN "error"
                  ELSE "loaded")
    /\ UNCHANGED <<disk, broken, private, file, safe, setup, made, moves>>

\* doctor: the modes again, the directories of the path and the probes; any
\* probe may also take too long.
DoctorOk(r) ==
    /\ load[r].pc = "loaded"
    /\ private /\ file.data # NoData
    /\ ToSet(load[r].rt.path) \subseteq Dirs
    /\ \A t \in ToSet(Required) : Works(load[r].rt, t)
    /\ EndLoad(r, "healthy")
    /\ UNCHANGED <<disk, broken, private, file, safe, setup, made, moves>>

DoctorFails(r) ==
    /\ load[r].pc = "loaded"
    /\ EndLoad(r, "unhealthy")
    /\ UNCHANGED <<disk, broken, private, file, safe, setup, made, moves>>

\* The next run of the command.
LoadAgain(r) ==
    /\ load[r].pc \in {"absent", "error", "loaded", "healthy", "unhealthy"}
    /\ load' = [load EXCEPT ![r] = NoLoad]
    /\ UNCHANGED <<disk, broken, private, file, safe, setup, made, moves>>

-----------------------------------------------------------------------------
(* The machine's user.                                                     *)

Moved(d, t, there) ==
    /\ moves < MaxMoves
    /\ moves' = moves + 1
    /\ disk' = [disk EXCEPT ![d] = IF there THEN @ \cup {t} ELSE @ \ {t}]
    /\ load' = [r \in Loads |->
                IF there /\ load[r].pc = "read"
                  THEN [load[r] EXCEPT !.held = @ \cup {<<d, t>>}]
                  ELSE load[r]]
    /\ UNCHANGED <<broken, private, file, safe, setup, made>>

Install(d, t) == t \notin disk[d] /\ Moved(d, t, TRUE)
Uninstall(d, t) == t \in disk[d] /\ Moved(d, t, FALSE)

Break(t) ==
    /\ moves < MaxMoves
    /\ t \notin broken
    /\ moves' = moves + 1
    /\ broken' = broken \cup {t}
    /\ UNCHANGED <<disk, private, file, safe, setup, load, made>>

-----------------------------------------------------------------------------
Next ==
    \/ \E s \in Setups :
        \/ \E shell \in Shells : Capture(s, shell) \/ CaptureFails(s, shell)
        \/ ProbesPass(s) \/ ProbesFail(s) \/ MakeTemp(s) \/ FillTemp(s)
        \/ Replace(s) \/ FinishSetup(s) \/ WriteFails(s) \/ Kill(s)
    \/ RenameDurable \/ PowerLoss
    \/ \E r \in Loads :
        \/ ReadManifest(r) \/ Validate(r) \/ DoctorOk(r) \/ DoctorFails(r)
        \/ LoadAgain(r)
    \/ \E d \in Dirs, t \in Tools : Install(d, t) \/ Uninstall(d, t)
    \/ \E t \in Tools : Break(t)

Spec == Init /\ [][Next]_vars

-----------------------------------------------------------------------------
Runtimes == {c.rt : c \in made}

\* Every variable is of its type; what a setup or a load holds is a capture.
TypeOK ==
    /\ disk \in [Dirs -> SUBSET Tools]
    /\ broken \subseteq Tools
    /\ private \in BOOLEAN
    /\ \A s \in Setups :
        /\ setup[s].pc \in Ended \cup {"captured", "probed", "temp", "filled",
                                       "replaced"}
        /\ setup[s].rt \in Runtimes \cup {NoData}
        /\ setup[s].temp \in Runtimes \cup {NoData, Torn}
    /\ \A r \in Loads :
        load[r].pc \in {"idle", "read", "absent", "error", "loaded", "healthy",
                        "unhealthy"}
    /\ moves \in 0..MaxMoves

\* The manifest that a reader, or the machine after a loss of power, finds
\* under its name is always the whole result of one setup: never a part of
\* one, never a mixture of two.
ManifestIsWhole ==
    /\ file.data \in Runtimes \cup {NoData}
    /\ safe.data \in Runtimes \cup {NoData}

\* "Required failures prevent the write": the manifest changes only by the
\* rename of a setup that goes on to succeed, or back by a loss of power that
\* ends every setup and takes a rename with it that was not durable, so a
\* setup that failed or was killed before leaves the old one.
FailedSetupKeepsManifest ==
    [][file' # file =>
        \/ \E s \in Setups : /\ setup[s].pc = "filled"
                             /\ setup'[s].pc = "replaced"
                             /\ file'.data = setup[s].rt
        \/ file' = safe /\ \A s \in Setups : setup'[s].pc \in Ended]_vars

\* A temporary file outlives its setup only when the setup was killed.
NoTempLeft ==
    \A s \in Setups : setup[s].pc \in {"idle", "failed", "done", "replaced"}
                        => setup[s].temp = NoData

\* A stale manifest fails closed: a load that succeeds returns only tools
\* that were on disk at some moment between its start and its end.
LoadedWasThere ==
    \A r \in Loads :
        load[r].pc \in {"loaded", "healthy"} =>
            \A t \in Tools :
                load[r].rt.exes[t] # NotFound =>
                    <<load[r].rt.exes[t], t>> \in load[r].held

\* What _capture_path promises of the path it stores: no duplicates, only
\* directories that exist, a temporary one only for a tool captured in it,
\* and every captured tool can be found along it.
PathIsSound ==
    \A c \in made :
        LET path == c.rt.path
        IN  /\ \A i, j \in DOMAIN path : path[i] = path[j] => i = j
            /\ ToSet(path) \subseteq Dirs
            /\ \A d \in ToSet(path) \cap TempDirs :
                d \in ToSet(Fallback) \/ \E t \in Tools : c.rt.exes[t] = d
            /\ \A t \in Tools :
                c.rt.exes[t] # NotFound => Which(path, c.disk, t) # NotFound

\* Manifest, temporary files, loaded runtimes and captured paths are right under
\* concurrent setups and loads, kills, losses of power and tools that come and
\* go (write_host_runtime, load_host_runtime, _capture_path).
ManifestConsistent ==
    /\ TypeOK
    /\ ManifestIsWhole
    /\ NoTempLeft
    /\ LoadedWasThere
    /\ PathIsSound
=============================================================================
