---------------------------- MODULE MCHostState ----------------------------
(***************************************************************************)
(* Small instances of HostState.  MCMigration.cfg moves two processes that *)
(* find no database file, or one of the version before.  MCMachines.cfg    *)
(* moves two transfers that compete for a port, and on a host two required *)
(* tools and an optional one, in a user's directory, a system directory    *)
(* and a temporary one, with paths that name a temporary directory, one    *)
(* that does not exist and a duplicate.  MCRegistry.cfg moves one worker   *)
(* host with requests that overtake each other.                            *)
(***************************************************************************)
EXTENDS HostState

RequiredTools == <<"pi", "node">>
OptionalTools == <<"zellij">>
System == <<"usr">>
ShellPaths == {<<"home", "usr">>, <<"tmp", "gone", "usr", "tmp">>}
Placement ==
    [d \in Dirs |-> CASE d = "home" -> {"pi", "node", "zellij"}
                      [] d = "usr" -> {"pi", "node"}
                      [] OTHER -> {"node"}]
OnePlacement == {Placement}

-----------------------------------------------------------------------------
Row(s, q) == [session |-> s, seq |-> q]
Sess(i, k, par) == [id |-> i, kind |-> k, parent |-> par]

\* No file yet.
Fresh ==
    [tables |-> {}, cols |-> [t \in Tables |-> {}], addr |-> <<>>,
     events |-> <<>>, sessions |-> {}, commands |-> {},
     indexed |-> FALSE, trigger |-> FALSE]

\* A database of the version before this one, still with the old name of
\* the address: two columns of each table are missing.  An interactive agent
\* was started by a delegated one, each with events and a command.
Previous ==
    [tables |-> Tables,
     cols |-> [t \in Tables |->
        CASE t = "workers" -> (Current(t) \ {"worker_ip", "dns_name"})
                                 \cup {"zerotier_ip"}
          [] t = "jobs" -> Current(t) \ {"kind", "queue_order"}
          [] t = "pi_sessions" -> Current(t) \ {"name", "meta"}
          [] OTHER -> {}],
     addr |-> [w \in Workers |-> ""],
     sessions |-> {Sess("d", "delegated", ""), Sess("i", "interactive", "d")},
     commands |-> {"d", "i"},
     events |-> <<Row("i", 0), Row("d", 0), Row("i", 0)>>,
     indexed |-> FALSE, trigger |-> FALSE]

NoFile == {Fresh}
Files == {Fresh, Previous}
=============================================================================
