------------------------------ MODULE DataCopy ------------------------------
(***************************************************************************)
(* Data copies: the handler data_copy of heartbeat.py and the task that    *)
(* watches the copy, the helper wh-data-export on the source worker with   *)
(* its rsync daemon, its serve rule and its TTL timer, and the copy job on *)
(* the destination.                                                        *)
(*                                                                         *)
(* All transfers have the same source worker.  Requests are those the      *)
(* handler accepts.  The password file and the data are left out.          *)
(***************************************************************************)
EXTENDS Naturals, FiniteSets

CONSTANTS
    Transfers,   \* transfer ids
    Ports,       \* the reserved ports of the source worker
    None,        \* no port, no rule
    MaxFaults,   \* bound: lost calls, cancelled tasks, failing commands
    MaxRestarts  \* bound: restarts of the source worker

\* The parameters: no port or transfer is called None.
DataCopyConstants == None \notin Transfers \cup Ports

Cleaners == {"helper", "control", "timer"}

VARIABLES
    handler,   \* handler[t]: the request
    helper,    \* helper[t]: wh-data-export on the source
    port,      \* port[t]: the port the helper chose
    files,     \* files[t]: which of dir, pid and port are in $base
    rsync,     \* rsync[t]: the daemon: none, starting, listening or dead
    rule,      \* rule[p]: the transfer that published p, or None
    timer,     \* timer[t]: the sleeping process of the TTL is there
    elapsed,   \* elapsed[t]: the TTL is over
    cleaning,  \* cleaning[t][c]: where a run of cleanup_export is
    job,       \* job[t]: the copy on the destination
    monitor,   \* monitor[t]: cleanup_after_copy
    faults, restarts

source == <<helper, port, files, rsync, rule, timer, elapsed>>
control == <<handler, monitor>>
vars == <<source, control, cleaning, job, faults, restarts>>

Init ==
    /\ handler = [t \in Transfers |-> "new"]
    /\ helper = [t \in Transfers |-> "none"]
    /\ port = [t \in Transfers |-> None]
    /\ files = [t \in Transfers |-> {}]
    /\ rsync = [t \in Transfers |-> "none"]
    /\ rule = [p \in Ports |-> None]
    /\ timer = [t \in Transfers |-> FALSE]
    /\ elapsed = [t \in Transfers |-> FALSE]
    /\ cleaning = [t \in Transfers |-> [c \in Cleaners |-> "no"]]
    /\ job = [t \in Transfers |-> "none"]
    /\ monitor = [t \in Transfers |-> "none"]
    /\ faults = 0 /\ restarts = 0

Fault == faults < MaxFaults /\ faults' = faults + 1
CleanBy(t, c) == cleaning' = [cleaning EXCEPT ![t][c] = "off"]

-----------------------------------------------------------------------------
(* The helper on the source worker.                                        *)

Listening(p) == \E u \in Transfers : port[u] = p /\ rsync[u] = "listening"

\* A port on which nobody listens yet.
Choose(t) ==
    /\ helper[t] = "choose"
    /\ files' = [files EXCEPT ![t] = {"dir"}]
    /\ \/ \E p \in Ports :
            /\ ~Listening(p)
            /\ port' = [port EXCEPT ![t] = p]
            /\ helper' = [helper EXCEPT ![t] = "spawn"]
       \/ /\ \A p \in Ports : Listening(p)
          /\ helper' = [helper EXCEPT ![t] = "failed"]
          /\ UNCHANGED port
    /\ UNCHANGED <<rsync, rule, timer, elapsed, control, cleaning, job,
                   faults, restarts>>

Spawn(t) ==
    /\ helper[t] = "spawn"
    /\ rsync' = [rsync EXCEPT ![t] = "starting"]
    /\ files' = [files EXCEPT ![t] = @ \cup {"pid", "port"}]
    /\ helper' = [helper EXCEPT ![t] = "check"]
    /\ UNCHANGED <<port, rule, timer, elapsed, control, cleaning, job,
                   faults, restarts>>

Bound(t) == IF Listening(port[t]) THEN "dead" ELSE "listening"

\* The daemon binds its port, or ends because another one has it.
Bind(t) ==
    /\ rsync[t] = "starting"
    /\ rsync' = [rsync EXCEPT ![t] = Bound(t)]
    /\ UNCHANGED <<helper, port, files, rule, timer, elapsed, control,
                   cleaning, job, faults, restarts>>

\* kill -0 after 0.2 s.
Check(t) ==
    /\ helper[t] = "check"
    /\ \/ /\ rsync[t] = "dead"
          /\ helper' = [helper EXCEPT ![t] = "undo"]
          /\ CleanBy(t, "helper")
       \/ /\ rsync[t] # "dead"
          /\ helper' = [helper EXCEPT ![t] = "serve"]
          /\ UNCHANGED cleaning
    /\ UNCHANGED <<port, files, rsync, rule, timer, elapsed, control, job,
                   faults, restarts>>

\* tailscale serve replaces what the port had; it may fail.
Serve(t) ==
    /\ helper[t] = "serve"
    /\ \/ /\ rule' = [rule EXCEPT ![port[t]] = t]
          /\ helper' = [helper EXCEPT ![t] = "timer"]
          /\ UNCHANGED <<cleaning, faults>>
       \/ /\ Fault
          /\ helper' = [helper EXCEPT ![t] = "undo"]
          /\ CleanBy(t, "helper")
          /\ UNCHANGED rule
    /\ UNCHANGED <<port, files, rsync, timer, elapsed, control, job, restarts>>

\* Mutant of Arm: no timer is started.
ArmNever(t) ==
    /\ helper[t] = "timer"
    /\ helper' = [helper EXCEPT ![t] = "done"]
    /\ UNCHANGED <<timer, port, files, rsync, rule, elapsed, control,
                   cleaning, job, faults, restarts>>
\* The TTL runs in the background and the endpoint is printed.
Arm(t) ==
    /\ helper[t] = "timer"
    /\ timer' = [timer EXCEPT ![t] = TRUE]
    /\ helper' = [helper EXCEPT ![t] = "done"]
    /\ UNCHANGED <<port, files, rsync, rule, elapsed, control, cleaning, job,
                   faults, restarts>>

\* The TTL passes, and the sleep of the timer ends.
Elapse(t) ==
    /\ helper[t] = "done" /\ ~elapsed[t]
    /\ elapsed' = [elapsed EXCEPT ![t] = TRUE]
    /\ UNCHANGED <<helper, port, files, rsync, rule, timer, control, cleaning,
                   job, faults, restarts>>

Expire(t) ==
    /\ timer[t] /\ elapsed[t]
    /\ timer' = [timer EXCEPT ![t] = FALSE]
    /\ CleanBy(t, "timer")
    /\ UNCHANGED <<helper, port, files, rsync, rule, elapsed, control, job,
                   faults, restarts>>

-----------------------------------------------------------------------------
(* cleanup_export, run by the helper, the timer or the control process.    *)

\* Mutant of After: the directory is removed first.
AfterRmFirst(s) ==
    CASE s = "off" -> "rm" [] s = "rm" -> "kill" [] OTHER -> "no"
After(s) == CASE s = "off" -> "kill" [] s = "kill" -> "rm" [] OTHER -> "no"

\* One command; a file that is gone is skipped.
CleanStep(t, c) ==
    LET s == cleaning[t][c] IN
    /\ s # "no"
    /\ rule' = IF s = "off" /\ "port" \in files[t]
               THEN [rule EXCEPT ![port[t]] = None] ELSE rule
    /\ rsync' = IF s = "kill" /\ "pid" \in files[t]
                THEN [rsync EXCEPT ![t] = "dead"] ELSE rsync
    /\ files' = IF s = "rm" THEN [files EXCEPT ![t] = {}] ELSE files
    /\ cleaning' = [cleaning EXCEPT ![t][c] = After(s)]
    /\ helper' = IF c = "helper" /\ After(s) = "no"
                 THEN [helper EXCEPT ![t] = "failed"] ELSE helper
    /\ UNCHANGED <<port, timer, elapsed, control, job, faults, restarts>>

-----------------------------------------------------------------------------
(* The handler.                                                            *)

Request(t) ==
    /\ handler[t] = "new"
    /\ handler' = [handler EXCEPT ![t] = "export"]
    /\ helper' = [helper EXCEPT ![t] = "choose"]
    /\ UNCHANGED <<port, files, rsync, rule, timer, elapsed, monitor,
                   cleaning, job, faults, restarts>>

Goto(t, place) ==
    /\ handler' = [handler EXCEPT ![t] = place]
    /\ UNCHANGED <<source, monitor, cleaning, job, restarts>>

ExportAnswer(t) ==
    /\ handler[t] = "export"
    /\ \/ helper[t] = "done" /\ Goto(t, "upload")
       \/ helper[t] = "failed" /\ Goto(t, "over")
    /\ UNCHANGED faults

\* The call of the helper times out: 502 and nothing is cleaned.
ExportTimeout(t) == handler[t] = "export" /\ Fault /\ Goto(t, "over")

\* ssh_upload_bytes, or the parsing of the endpoint, or start_job fails.
Upload(t) ==
    /\ handler[t] = "upload"
    /\ \/ Goto(t, "start") /\ UNCHANGED faults
       \/ Goto(t, "clean") /\ Fault

\* A launch that fails gives a job that failed; one whose outcome is unknown
\* is watched like any other.
StartCopy(t) ==
    /\ handler[t] = "start"
    /\ handler' = [handler EXCEPT ![t] = "over"]
    /\ monitor' = [monitor EXCEPT ![t] = "watch"]
    /\ \/ job' = [job EXCEPT ![t] = "running"] /\ UNCHANGED faults
       \/ job' = [job EXCEPT ![t] = "over"] /\ Fault
    /\ UNCHANGED <<source, cleaning, restarts>>

StartRaises(t) == handler[t] = "start" /\ Fault /\ Goto(t, "clean")

\* The cleaning call of the handler or of the monitor: its result is not
\* looked at.  Only one of them makes it.
CleanCall(t) ==
    /\ \/ /\ handler[t] = "clean"
          /\ handler' = [handler EXCEPT ![t] = "over"]
          /\ UNCHANGED monitor
       \/ /\ monitor[t] = "clean"
          /\ monitor' = [monitor EXCEPT ![t] = "over"]
          /\ UNCHANGED handler
    /\ \/ CleanBy(t, "control") /\ UNCHANGED faults
       \/ Fault /\ UNCHANGED cleaning
    /\ UNCHANGED <<source, job, restarts>>

\* The control process ends, the request is cancelled, or a call raises (a
\* lane that is busy) where only its return code is looked at.
Lose(t) ==
    /\ Fault
    /\ \/ /\ handler[t] \notin {"new", "over"}
          /\ handler' = [handler EXCEPT ![t] = "over"]
          /\ UNCHANGED monitor
       \/ /\ monitor[t] \in {"watch", "clean"}
          /\ monitor' = [monitor EXCEPT ![t] = "over"]
          /\ UNCHANGED handler
    /\ UNCHANGED <<source, cleaning, job, restarts>>

-----------------------------------------------------------------------------
(* The copy job and cleanup_after_copy.                                    *)

Finish(t) ==
    /\ job[t] = "running"
    /\ job' = [job EXCEPT ![t] = "over"]
    /\ UNCHANGED <<source, control, cleaning, faults, restarts>>

\* The job is over or the deadline has come.
Ends(t) == job[t] = "over" \/ elapsed[t]

WatchEnds(t) ==
    /\ monitor[t] = "watch"
    /\ monitor' = [monitor EXCEPT ![t] = "clean"]
    /\ UNCHANGED <<source, handler, cleaning, job, restarts>>

\* refresh_job_status; an exception of it ends the loop as well.
Watch(t) == Ends(t) /\ WatchEnds(t) /\ UNCHANGED faults
WatchRaises(t) == Fault /\ WatchEnds(t)

\* The source worker restarts: its processes end, its files and the serve
\* rules, which tailscaled persists, stay.
Restart ==
    /\ restarts < MaxRestarts
    /\ restarts' = restarts + 1
    /\ helper' = [t \in Transfers |->
            IF helper[t] \in {"none", "done"} THEN helper[t] ELSE "failed"]
    /\ rsync' = [t \in Transfers |->
            IF rsync[t] = "none" THEN "none" ELSE "dead"]
    /\ timer' = [t \in Transfers |-> FALSE]
    /\ cleaning' = [t \in Transfers |-> [c \in Cleaners |-> "no"]]
    /\ UNCHANGED <<port, files, rule, elapsed, control, job, faults>>

-----------------------------------------------------------------------------
Remote(t) ==
    \/ Choose(t) \/ Spawn(t) \/ Bind(t) \/ Check(t) \/ Serve(t) \/ Arm(t)
    \/ Expire(t) \/ \E c \in Cleaners : CleanStep(t, c)

Handle(t) ==
    ExportAnswer(t) \/ Upload(t) \/ StartCopy(t) \/ CleanCall(t) \/ Watch(t)

Next ==
    \/ \E t \in Transfers :
        \/ Remote(t) \/ Elapse(t) \/ Handle(t)
        \/ Request(t) \/ ExportTimeout(t) \/ StartRaises(t) \/ WatchRaises(t)
        \/ Lose(t) \/ Finish(t)
    \/ Restart
    \/ (\A t \in Transfers : handler[t] # "new") /\ UNCHANGED vars

Spec == Init /\ [][Next]_vars

\* Processes and tasks go on. Time need not: no property may rely on the TTL
\* when it does not say so.
Fairness == \A t \in Transfers :
    /\ WF_vars(Choose(t)) /\ WF_vars(Spawn(t)) /\ WF_vars(Bind(t))
    /\ WF_vars(Check(t)) /\ WF_vars(Serve(t)) /\ WF_vars(Arm(t))
    /\ WF_vars(Expire(t))
    /\ \A c \in Cleaners : WF_vars(CleanStep(t, c))
    /\ WF_vars(Handle(t))

-----------------------------------------------------------------------------
\* Every variable is of its type; a daemon that listens has its port alone.
TypeOK ==
    /\ handler \in [Transfers ->
            {"new", "export", "upload", "start", "clean", "over"}]
    /\ helper \in [Transfers -> {"none", "choose", "spawn", "check", "serve",
                                 "undo", "timer", "done", "failed"}]
    /\ port \in [Transfers -> Ports \cup {None}]
    /\ files \in [Transfers -> SUBSET {"dir", "pid", "port"}]
    /\ rsync \in [Transfers -> {"none", "starting", "listening", "dead"}]
    /\ \A t, u \in Transfers :
        rsync[t] = "listening" /\ rsync[u] = "listening" /\ port[t] = port[u]
            => t = u
    /\ rule \in [Ports -> Transfers \cup {None}]
    /\ timer \in [Transfers -> BOOLEAN]
    /\ elapsed \in [Transfers -> BOOLEAN]
    /\ cleaning \in [Transfers -> [Cleaners -> {"no", "off", "kill", "rm"}]]
    /\ job \in [Transfers -> {"none", "running", "over"}]
    /\ monitor \in [Transfers -> {"none", "watch", "clean", "over"}]

\* Somebody will still run the command s of cleanup_export for t.
WillRun(t, s) ==
    \/ helper[t] \in {"check", "serve", "timer"}
    \/ timer[t]
    \/ \E c \in Cleaners : cleaning[t][c] \in {"off", s}

\* Whatever calls are lost and tasks die, every published port and every
\* daemon of the source worker can be found by a cleanup that is still to
\* come: its file is there and the helper or the TTL timer has yet to use it.
\* This lasts until the worker restarts.
NothingForgotten == restarts = 0 =>
    /\ \A p \in Ports : LET t == rule[p] IN t # None =>
        "port" \in files[t] /\ port[t] = p /\ WillRun(t, "off")
    /\ \A t \in Transfers : rsync[t] \in {"starting", "listening"} =>
        "pid" \in files[t] /\ WillRun(t, "kill")

\* "TTL is the crash-safe fallback" (heartbeat.py:1513): a publication ends
\* once its TTL is over, although the control process, the monitor or any call
\* to the source is lost; only a restart of the source defeats it.
ExportEnds ==
    <>[](restarts = 0 => \A p \in Ports : rule[p] # None => ~elapsed[rule[p]])

\* "End the source export promptly": when the copy is over and no call was
\* lost, the daemon and the publication go without waiting for the TTL.
PromptEnd ==
    <>[](\A t \in Transfers :
            job[t] = "over" /\ faults = 0 /\ restarts = 0
            => rsync[t] = "dead" /\ \A p \in Ports : rule[p] # t)

\* The bookkeeping of the exports is right: two daemons never share a port, and
\* nothing that is published or runs is forgotten (wh-data-export).
ExportsConsistent == TypeOK /\ NothingForgotten

\* Every export ends: promptly when nothing was lost, with its TTL otherwise
\* (cleanup_after_copy, the timer of wh-data-export).
ExportsEnd == ExportEnds /\ PromptEnd
=============================================================================
