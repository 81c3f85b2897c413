--------------------------- MODULE HostStateProofs ---------------------------
(***************************************************************************)
(* The theorems of HostState.  The database, the exports, the registry and *)
(* the manifest share no state, and each has its own inductive invariant;  *)
(* a step of the whole is a step of one of them and a stutter of the       *)
(* others.                                                                 *)
(*                                                                         *)
(* Data copies.  The place of the helper says what else may be under way   *)
(* for a transfer: no cleanup runs before the helper has undone its export *)
(* or is done.  So no cleanup that has passed a command of cleanup_export  *)
(* can be overtaken by the publication or the daemon that the command      *)
(* removes.                                                                *)
(*                                                                         *)
(* Registration.  A row is written when a heartbeat is answered, so that   *)
(* it is never older than the last answer: the row that is pruned had no   *)
(* answer since the cutoff.                                                *)
(*                                                                         *)
(* Manifest.  A capture is sound from the start, whatever the shell's path *)
(* and whatever moved meanwhile, since `which' answers with a directory    *)
(* that the path takes in; setups carry it to the file unchanged, and a    *)
(* load that succeeds has looked for each tool since it read the file.     *)
(*                                                                         *)
(* Database.  A statement that a process has passed has left its mark on   *)
(* what the process sees, the file or its own transaction, and marks stay: *)
(* columns and tables are never dropped, and rows are deleted only by the  *)
(* one process that has the write lock.  Cursors are in order from the     *)
(* backfill on, since the trigger is committed with it.                    *)
(***************************************************************************)
EXTENDS HostState, FiniteSetTheorems, SequenceTheorems, WellFoundedInduction,
        TLAPS

-----------------------------------------------------------------------------
(* Numbers.                                                                *)

\* A set of numbers has a smallest one.
LEMMA SmallestOf ==
    ASSUME NEW T, T \subseteq Nat, T # {}
    PROVE  \E x \in T : \A y \in T : x <= y
<1> DEFINE R == {ss \in Nat \X Nat : ss[1] < ss[2]}
<1>1. IsWellFoundedOn(R, Nat)
  BY NatLessThanWellFounded DEF OpToRel
<1> HIDE DEF R
<1>2. PICK x \in T : \A y \in T : <<y, x>> \notin R
  BY <1>1, WFMin
<1>3. \A y \in T : ~(y < x)
  BY <1>2 DEF R
<1>4. QED
  BY <1>3

-----------------------------------------------------------------------------
(* Data copies.  The inductive invariant.                                  *)

\* What the variables of the copies are.
Types ==
    /\ handler \in [Transfers ->
            {"new", "export", "upload", "start", "clean", "over"}]
    /\ helper \in [Transfers -> {"none", "choose", "spawn", "check", "serve",
                                 "undo", "timer", "done", "failed"}]
    /\ port \in [Transfers -> Ports \cup {None}]
    /\ files \in [Transfers -> SUBSET {"dir", "pid", "port"}]
    /\ rsync \in [Transfers -> {"none", "starting", "listening", "dead"}]
    /\ rule \in [Ports -> Transfers \cup {None}]
    /\ timer \in [Transfers -> BOOLEAN]
    /\ elapsed \in [Transfers -> BOOLEAN]
    /\ cleaning \in [Transfers -> [Exports!Cleaners -> {"no", "off", "kill", "rm"}]]
    /\ job \in [Transfers -> {"none", "running", "over"}]
    /\ monitor \in [Transfers -> {"none", "watch", "clean", "over"}]
    /\ restarts \in Nat

\* What may be under way for t at the helper's place.
Stage(t) ==
    /\ handler[t] = "new" => helper[t] = "none"
    /\ handler[t] \in {"upload", "start", "clean"} => helper[t] = "done"
    /\ monitor[t] # "none" => helper[t] = "done"
    /\ timer[t] \/ elapsed[t] => helper[t] = "done"
    /\ cleaning[t]["control"] # "no" => helper[t] = "done"
    /\ cleaning[t]["timer"] # "no" => helper[t] = "done"
    /\ cleaning[t]["helper"] # "no" => helper[t] = "undo"
    /\ helper[t] \in {"none", "choose", "spawn"} => rsync[t] = "none"
    /\ helper[t] \in {"check", "serve", "timer"} =>
        {"pid", "port"} \subseteq files[t] /\ port[t] \in Ports
    /\ helper[t] = "spawn" => port[t] \in Ports

\* It agrees for every transfer.
StagesAgree == \A t \in Transfers : Stage(t)

\* Two daemons never listen on one port.
PortsDiffer ==
    \A t, u \in Transfers :
        rsync[t] = "listening" /\ rsync[u] = "listening" /\ port[t] = port[u]
            => t = u

\* The two halves of NothingForgotten, and what a cleanup has done so far.
RuleFound(p) == rule[p] # None =>
    /\ "port" \in files[rule[p]] /\ port[rule[p]] = p
    /\ Exports!WillRun(rule[p], "off")

\* A daemon can be found and stopped.
DaemonFound(t) == rsync[t] \in {"starting", "listening"} =>
    "pid" \in files[t] /\ Exports!WillRun(t, "kill")

\* What is passed is undone: the publication, then the daemon.
Cleaned(t) == \A c \in Exports!Cleaners :
    /\ cleaning[t][c] \in {"kill", "rm"} => \A p \in Ports : rule[p] # t
    /\ cleaning[t][c] = "rm" => rsync[t] \notin {"starting", "listening"}

\* All of that until the source restarts.
Found == restarts = 0 =>
    /\ \A p \in Ports : RuleFound(p)
    /\ \A t \in Transfers : DaemonFound(t) /\ Cleaned(t)

\* The inductive invariant of the copies.
IInv == Types /\ StagesAgree /\ PortsDiffer /\ Found

-----------------------------------------------------------------------------
(* Each part is kept by every step.                                        *)

\* A new run of cleanup_export begins at its first command.
LEMMA CleanByDoes ==
    ASSUME Types, NEW t \in Transfers, NEW c \in Exports!Cleaners,
           Exports!CleanBy(t, c)
    PROVE  /\ cleaning' \in [Transfers -> [Exports!Cleaners -> {"no", "off", "kill", "rm"}]]
           /\ \A u \in Transfers, d \in Exports!Cleaners :
                cleaning'[u][d] = IF u = t /\ d = c THEN "off" ELSE cleaning[u][d]
<1>1. cleaning \in [Transfers -> [Exports!Cleaners -> {"no", "off", "kill", "rm"}]]
  BY DEF Types
<1>2. [cleaning[t] EXCEPT ![c] = "off"] \in [Exports!Cleaners -> {"no", "off", "kill", "rm"}]
  BY <1>1
<1>3. QED
  BY <1>1, <1>2 DEF Exports!CleanBy

\* Every variable keeps its type.
LEMMA TypesNext ==
    ASSUME Types, [Exports!Next]_(Exports!vars)
    PROVE  Types'
<1> USE ExportsAssumption DEF Exports!DataCopyConstants, Types, Exports!Cleaners
<1>1. ASSUME NEW t \in Transfers, Exports!Choose(t) PROVE Types'
  <2>1. files' \in [Transfers -> SUBSET {"dir", "pid", "port"}]
    BY <1>1 DEF Exports!Choose
  <2>2. port' \in [Transfers -> Ports \cup {None}]
    BY <1>1 DEF Exports!Choose
  <2>3. helper' \in [Transfers -> {"none", "choose", "spawn", "check", "serve",
                                  "undo", "timer", "done", "failed"}]
    BY <1>1 DEF Exports!Choose
  <2>4. QED
    BY <1>1, <2>1, <2>2, <2>3 DEF Exports!Choose, Exports!control
<1>2. ASSUME NEW t \in Transfers, Exports!Spawn(t) PROVE Types'
  BY <1>2 DEF Exports!Spawn, Exports!vars, Exports!source, Exports!control
<1>3. ASSUME NEW t \in Transfers, Exports!Bind(t) PROVE Types'
  BY <1>3 DEF Exports!Bind, Exports!Bound, Exports!Listening, Exports!vars,
     Exports!source, Exports!control
<1>4. ASSUME NEW t \in Transfers, Exports!Check(t) PROVE Types'
  <2>1. CASE Exports!CleanBy(t, "helper")
    <3>1. cleaning' \in [Transfers -> [Exports!Cleaners -> {"no", "off", "kill", "rm"}]]
      BY <2>1, CleanByDoes DEF Exports!Cleaners
    <3> HIDE DEF Exports!Cleaners
    <3>2. QED
      BY <1>4, <3>1 DEF Exports!Check, Exports!control
  <2>2. CASE UNCHANGED cleaning
    BY <1>4, <2>2 DEF Exports!Check, Exports!control
  <2>3. QED
    BY <1>4, <2>1, <2>2 DEF Exports!Check
<1>5. ASSUME NEW t \in Transfers, Exports!Serve(t) PROVE Types'
  <2>1. cleaning' \in [Transfers -> [Exports!Cleaners -> {"no", "off", "kill", "rm"}]]
    BY <1>5, CleanByDoes DEF Exports!Serve, Exports!Cleaners
  <2>2. rule' \in [Ports -> Transfers \cup {None}]
    BY <1>5 DEF Exports!Serve
  <2>3. helper' \in [Transfers -> {"none", "choose", "spawn", "check", "serve",
                                  "undo", "timer", "done", "failed"}]
    BY <1>5 DEF Exports!Serve
  <2> HIDE DEF Exports!Cleaners
  <2>4. QED
    BY <1>5, <2>1, <2>2, <2>3 DEF Exports!Serve, Exports!control
<1>6. ASSUME NEW t \in Transfers, Exports!Arm(t) PROVE Types'
  BY <1>6 DEF Exports!Arm, Exports!vars, Exports!source, Exports!control
<1>7. ASSUME NEW t \in Transfers, Exports!Expire(t) PROVE Types'
  BY <1>7 DEF Exports!Expire, Exports!CleanBy, Exports!vars, Exports!source,
     Exports!control
<1>8. ASSUME NEW t \in Transfers, NEW c \in Exports!Cleaners,
             Exports!CleanStep(t, c)
      PROVE  Types'
  BY <1>8 DEF Exports!CleanStep, Exports!After, Exports!vars, Exports!source,
     Exports!control
<1>9. ASSUME NEW t \in Transfers, Exports!Elapse(t) PROVE Types'
  BY <1>9 DEF Exports!Elapse, Exports!vars, Exports!source, Exports!control
<1>10. ASSUME NEW t \in Transfers, Exports!ExportAnswer(t) PROVE Types'
  BY <1>10 DEF Exports!ExportAnswer, Exports!Goto, Exports!vars, Exports!source,
     Exports!control
<1>11. ASSUME NEW t \in Transfers, Exports!Upload(t) PROVE Types'
  BY <1>11 DEF Exports!Upload, Exports!Goto, Exports!Fault, Exports!vars,
     Exports!source, Exports!control
<1>12. ASSUME NEW t \in Transfers, Exports!StartCopy(t) PROVE Types'
  BY <1>12 DEF Exports!StartCopy, Exports!Fault, Exports!vars, Exports!source,
     Exports!control
<1>13. ASSUME NEW t \in Transfers, Exports!CleanCall(t) PROVE Types'
  <2>1. CASE Exports!CleanBy(t, "control")
    <3>1. cleaning' \in [Transfers -> [Exports!Cleaners -> {"no", "off", "kill", "rm"}]]
      BY <2>1, CleanByDoes DEF Exports!Cleaners
    <3> HIDE DEF Exports!Cleaners
    <3>2. QED
      BY <1>13, <3>1 DEF Exports!CleanCall, Exports!Fault, Exports!source
  <2>2. CASE UNCHANGED cleaning
    BY <1>13, <2>2 DEF Exports!CleanCall, Exports!Fault, Exports!source
  <2>3. QED
    BY <1>13, <2>1, <2>2 DEF Exports!CleanCall
<1>14. ASSUME NEW t \in Transfers, Exports!Watch(t) PROVE Types'
  BY <1>14 DEF Exports!Watch, Exports!WatchEnds, Exports!vars, Exports!source,
     Exports!control
<1>15. ASSUME NEW t \in Transfers, Exports!Request(t) PROVE Types'
  BY <1>15 DEF Exports!Request, Exports!vars, Exports!source, Exports!control
<1>16. ASSUME NEW t \in Transfers, Exports!ExportTimeout(t) PROVE Types'
  BY <1>16 DEF Exports!ExportTimeout, Exports!Goto, Exports!Fault, Exports!vars,
     Exports!source, Exports!control
<1>17. ASSUME NEW t \in Transfers, Exports!StartRaises(t) PROVE Types'
  BY <1>17 DEF Exports!StartRaises, Exports!Goto, Exports!Fault, Exports!vars,
     Exports!source, Exports!control
<1>18. ASSUME NEW t \in Transfers, Exports!WatchRaises(t) PROVE Types'
  BY <1>18 DEF Exports!WatchRaises, Exports!WatchEnds, Exports!Fault,
     Exports!vars, Exports!source, Exports!control
<1>19. ASSUME NEW t \in Transfers, Exports!Lose(t) PROVE Types'
  BY <1>19 DEF Exports!Lose, Exports!Fault, Exports!vars, Exports!source,
     Exports!control
<1>20. ASSUME NEW t \in Transfers, Exports!Finish(t) PROVE Types'
  BY <1>20 DEF Exports!Finish, Exports!vars, Exports!source, Exports!control
<1>21. CASE Exports!Restart
  BY <1>21 DEF Exports!Restart, Exports!vars, Exports!source, Exports!control
<1>22. CASE UNCHANGED Exports!vars
  BY <1>22 DEF Exports!vars, Exports!source, Exports!control
<1>23. QED
  BY <1>1, <1>2, <1>3, <1>4, <1>5, <1>6, <1>7, <1>8, <1>9, <1>10, <1>11,
     <1>12, <1>13, <1>14, <1>15, <1>16, <1>17, <1>18, <1>19, <1>20, <1>21, <1>22
  DEF Exports!Next, Exports!Remote, Exports!Handle

\* What each part of a transfer does fits the helper's place.
LEMMA StagesNext ==
    ASSUME Types, StagesAgree, [Exports!Next]_(Exports!vars)
    PROVE  StagesAgree'
<1> USE ExportsAssumption DEF Exports!DataCopyConstants, Types,
    Exports!Cleaners, StagesAgree, Stage
<1>1. ASSUME NEW t \in Transfers, Exports!Choose(t) PROVE StagesAgree'
  BY <1>1 DEF Exports!Choose, Exports!Listening, Exports!vars, Exports!source,
     Exports!control
<1>2. ASSUME NEW t \in Transfers, Exports!Spawn(t) PROVE StagesAgree'
  BY <1>2 DEF Exports!Spawn, Exports!vars, Exports!source, Exports!control
<1>3. ASSUME NEW t \in Transfers, Exports!Bind(t) PROVE StagesAgree'
  BY <1>3 DEF Exports!Bind, Exports!Bound, Exports!Listening, Exports!vars,
     Exports!source, Exports!control
<1>4. ASSUME NEW t \in Transfers, Exports!Check(t) PROVE StagesAgree'
  BY <1>4 DEF Exports!Check, Exports!CleanBy, Exports!vars, Exports!source,
     Exports!control
<1>5. ASSUME NEW t \in Transfers, Exports!Serve(t) PROVE StagesAgree'
  BY <1>5 DEF Exports!Serve, Exports!Fault, Exports!CleanBy, Exports!vars,
     Exports!source, Exports!control
<1>6. ASSUME NEW t \in Transfers, Exports!Arm(t) PROVE StagesAgree'
  BY <1>6 DEF Exports!Arm, Exports!vars, Exports!source, Exports!control
<1>7. ASSUME NEW t \in Transfers, Exports!Expire(t) PROVE StagesAgree'
  BY <1>7 DEF Exports!Expire, Exports!CleanBy, Exports!vars, Exports!source,
     Exports!control
<1>8. ASSUME NEW t \in Transfers, NEW c \in Exports!Cleaners,
             Exports!CleanStep(t, c)
      PROVE  StagesAgree'
  BY <1>8 DEF Exports!CleanStep, Exports!After, Exports!vars, Exports!source,
     Exports!control
<1>9. ASSUME NEW t \in Transfers, Exports!Elapse(t) PROVE StagesAgree'
  BY <1>9 DEF Exports!Elapse, Exports!vars, Exports!source, Exports!control
<1>10. ASSUME NEW t \in Transfers, Exports!ExportAnswer(t) PROVE StagesAgree'
  BY <1>10 DEF Exports!ExportAnswer, Exports!Goto, Exports!vars, Exports!source,
     Exports!control
<1>11. ASSUME NEW t \in Transfers, Exports!Upload(t) PROVE StagesAgree'
  BY <1>11 DEF Exports!Upload, Exports!Goto, Exports!Fault, Exports!vars,
     Exports!source, Exports!control
<1>12. ASSUME NEW t \in Transfers, Exports!StartCopy(t) PROVE StagesAgree'
  BY <1>12 DEF Exports!StartCopy, Exports!Fault, Exports!vars, Exports!source,
     Exports!control
<1>13. ASSUME NEW t \in Transfers, Exports!CleanCall(t) PROVE StagesAgree'
  BY <1>13 DEF Exports!CleanCall, Exports!CleanBy, Exports!Fault, Exports!vars,
     Exports!source, Exports!control
<1>14. ASSUME NEW t \in Transfers, Exports!Watch(t) PROVE StagesAgree'
  BY <1>14 DEF Exports!Watch, Exports!WatchEnds, Exports!vars, Exports!source,
     Exports!control
<1>15. ASSUME NEW t \in Transfers, Exports!Request(t) PROVE StagesAgree'
  BY <1>15 DEF Exports!Request, Exports!vars, Exports!source, Exports!control
<1>16. ASSUME NEW t \in Transfers, Exports!ExportTimeout(t) PROVE StagesAgree'
  BY <1>16 DEF Exports!ExportTimeout, Exports!Goto, Exports!Fault, Exports!vars,
     Exports!source, Exports!control
<1>17. ASSUME NEW t \in Transfers, Exports!StartRaises(t) PROVE StagesAgree'
  BY <1>17 DEF Exports!StartRaises, Exports!Goto, Exports!Fault, Exports!vars,
     Exports!source, Exports!control
<1>18. ASSUME NEW t \in Transfers, Exports!WatchRaises(t) PROVE StagesAgree'
  BY <1>18 DEF Exports!WatchRaises, Exports!WatchEnds, Exports!Fault,
     Exports!vars, Exports!source, Exports!control
<1>19. ASSUME NEW t \in Transfers, Exports!Lose(t) PROVE StagesAgree'
  BY <1>19 DEF Exports!Lose, Exports!Fault, Exports!vars, Exports!source,
     Exports!control
<1>20. ASSUME NEW t \in Transfers, Exports!Finish(t) PROVE StagesAgree'
  BY <1>20 DEF Exports!Finish, Exports!vars, Exports!source, Exports!control
<1>21. CASE Exports!Restart
  BY <1>21 DEF Exports!Restart, Exports!vars, Exports!source, Exports!control
<1>22. CASE UNCHANGED Exports!vars
  BY <1>22 DEF Exports!vars, Exports!source, Exports!control
<1>23. QED
  BY <1>1, <1>2, <1>3, <1>4, <1>5, <1>6, <1>7, <1>8, <1>9, <1>10, <1>11,
     <1>12, <1>13, <1>14, <1>15, <1>16, <1>17, <1>18, <1>19, <1>20, <1>21, <1>22
  DEF Exports!Next, Exports!Remote, Exports!Handle

\* A daemon listens only on a port of its own.
LEMMA PortsNext ==
    ASSUME Types, StagesAgree, PortsDiffer, [Exports!Next]_(Exports!vars)
    PROVE  PortsDiffer'
<1> USE ExportsAssumption DEF Exports!DataCopyConstants, Types, StagesAgree,
    Stage, PortsDiffer
<1>1. ASSUME NEW t \in Transfers, Exports!Choose(t) PROVE PortsDiffer'
  BY <1>1 DEF Exports!Choose, Exports!Listening, Exports!vars, Exports!source,
     Exports!control
<1>2. ASSUME NEW t \in Transfers, Exports!Spawn(t) PROVE PortsDiffer'
  BY <1>2 DEF Exports!Spawn, Exports!vars, Exports!source, Exports!control
<1>3. ASSUME NEW t \in Transfers, Exports!Bind(t) PROVE PortsDiffer'
  BY <1>3 DEF Exports!Bind, Exports!Bound, Exports!Listening, Exports!vars,
     Exports!source, Exports!control
<1>4. ASSUME NEW t \in Transfers, Exports!Check(t) PROVE PortsDiffer'
  BY <1>4 DEF Exports!Check, Exports!CleanBy, Exports!vars, Exports!source,
     Exports!control
<1>5. ASSUME NEW t \in Transfers, Exports!Serve(t) PROVE PortsDiffer'
  BY <1>5 DEF Exports!Serve, Exports!Fault, Exports!CleanBy, Exports!vars,
     Exports!source, Exports!control
<1>6. ASSUME NEW t \in Transfers, Exports!Arm(t) PROVE PortsDiffer'
  BY <1>6 DEF Exports!Arm, Exports!vars, Exports!source, Exports!control
<1>7. ASSUME NEW t \in Transfers, Exports!Expire(t) PROVE PortsDiffer'
  BY <1>7 DEF Exports!Expire, Exports!CleanBy, Exports!vars, Exports!source,
     Exports!control
<1>8. ASSUME NEW t \in Transfers, NEW c \in Exports!Cleaners,
             Exports!CleanStep(t, c)
      PROVE  PortsDiffer'
  BY <1>8 DEF Exports!CleanStep, Exports!After, Exports!vars, Exports!source,
     Exports!control
<1>9. ASSUME NEW t \in Transfers, Exports!Elapse(t) PROVE PortsDiffer'
  BY <1>9 DEF Exports!Elapse, Exports!vars, Exports!source, Exports!control
<1>10. ASSUME NEW t \in Transfers, Exports!ExportAnswer(t) PROVE PortsDiffer'
  BY <1>10 DEF Exports!ExportAnswer, Exports!Goto, Exports!vars, Exports!source,
     Exports!control
<1>11. ASSUME NEW t \in Transfers, Exports!Upload(t) PROVE PortsDiffer'
  BY <1>11 DEF Exports!Upload, Exports!Goto, Exports!Fault, Exports!vars,
     Exports!source, Exports!control
<1>12. ASSUME NEW t \in Transfers, Exports!StartCopy(t) PROVE PortsDiffer'
  BY <1>12 DEF Exports!StartCopy, Exports!Fault, Exports!vars, Exports!source,
     Exports!control
<1>13. ASSUME NEW t \in Transfers, Exports!CleanCall(t) PROVE PortsDiffer'
  BY <1>13 DEF Exports!CleanCall, Exports!CleanBy, Exports!Fault, Exports!vars,
     Exports!source, Exports!control
<1>14. ASSUME NEW t \in Transfers, Exports!Watch(t) PROVE PortsDiffer'
  BY <1>14 DEF Exports!Watch, Exports!WatchEnds, Exports!vars, Exports!source,
     Exports!control
<1>15. ASSUME NEW t \in Transfers, Exports!Request(t) PROVE PortsDiffer'
  BY <1>15 DEF Exports!Request, Exports!vars, Exports!source, Exports!control
<1>16. ASSUME NEW t \in Transfers, Exports!ExportTimeout(t) PROVE PortsDiffer'
  BY <1>16 DEF Exports!ExportTimeout, Exports!Goto, Exports!Fault, Exports!vars,
     Exports!source, Exports!control
<1>17. ASSUME NEW t \in Transfers, Exports!StartRaises(t) PROVE PortsDiffer'
  BY <1>17 DEF Exports!StartRaises, Exports!Goto, Exports!Fault, Exports!vars,
     Exports!source, Exports!control
<1>18. ASSUME NEW t \in Transfers, Exports!WatchRaises(t) PROVE PortsDiffer'
  BY <1>18 DEF Exports!WatchRaises, Exports!WatchEnds, Exports!Fault,
     Exports!vars, Exports!source, Exports!control
<1>19. ASSUME NEW t \in Transfers, Exports!Lose(t) PROVE PortsDiffer'
  BY <1>19 DEF Exports!Lose, Exports!Fault, Exports!vars, Exports!source,
     Exports!control
<1>20. ASSUME NEW t \in Transfers, Exports!Finish(t) PROVE PortsDiffer'
  BY <1>20 DEF Exports!Finish, Exports!vars, Exports!source, Exports!control
<1>21. CASE Exports!Restart
  BY <1>21 DEF Exports!Restart, Exports!vars, Exports!source, Exports!control
<1>22. CASE UNCHANGED Exports!vars
  BY <1>22 DEF Exports!vars, Exports!source, Exports!control
<1>23. QED
  BY <1>1, <1>2, <1>3, <1>4, <1>5, <1>6, <1>7, <1>8, <1>9, <1>10, <1>11,
     <1>12, <1>13, <1>14, <1>15, <1>16, <1>17, <1>18, <1>19, <1>20, <1>21, <1>22
  DEF Exports!Next, Exports!Remote, Exports!Handle

\* Whatever is published or runs can be found.
LEMMA FindNext ==
    ASSUME Types, StagesAgree, Found, [Exports!Next]_(Exports!vars)
    PROVE  Found'
<1> USE ExportsAssumption DEF Exports!DataCopyConstants, Types,
    Exports!Cleaners, StagesAgree, Stage, Found, RuleFound, DaemonFound,
        Cleaned, Exports!WillRun
<1>1. ASSUME NEW t \in Transfers, Exports!Choose(t) PROVE Found'
  BY <1>1 DEF Exports!Choose, Exports!Listening, Exports!vars, Exports!source,
     Exports!control
<1>2. ASSUME NEW t \in Transfers, Exports!Spawn(t) PROVE Found'
  BY <1>2 DEF Exports!Spawn, Exports!vars, Exports!source, Exports!control
<1>3. ASSUME NEW t \in Transfers, Exports!Bind(t) PROVE Found'
  BY <1>3 DEF Exports!Bind, Exports!Bound, Exports!Listening, Exports!vars,
     Exports!source, Exports!control
<1>4. ASSUME NEW t \in Transfers, Exports!Check(t) PROVE Found'
  <2>1. CASE Exports!CleanBy(t, "helper")
    <3>1. \A u \in Transfers, d \in Exports!Cleaners :
            cleaning'[u][d] = IF u = t /\ d = "helper" THEN "off" ELSE cleaning[u][d]
      BY <2>1, CleanByDoes DEF Exports!Cleaners
    <3>2. rule' = rule /\ rsync' = rsync /\ files' = files /\ port' = port
          /\ timer' = timer /\ restarts' = restarts
      BY <1>4, <2>1 DEF Exports!Check, Exports!control, Exports!CleanBy
    <3>3. ASSUME NEW u \in Transfers, NEW s \in {"off", "kill"},
                 Exports!WillRun(u, s)
          PROVE  Exports!WillRun(u, s)'
      <4>1. CASE u = t
        BY <3>1, <4>1 DEF Exports!Cleaners
      <4>2. CASE u # t
        <5>1. helper'[u] = helper[u]
          BY <1>4, <4>2 DEF Exports!Check, Exports!control
        <5>2. \A d \in Exports!Cleaners : cleaning'[u][d] = cleaning[u][d]
          BY <3>1, <4>2
        <5> HIDE DEF Exports!Cleaners, Types, StagesAgree, Stage, Found
        <5>3. QED
          BY <3>2, <3>3, <5>1, <5>2
      <4>3. QED
        BY <4>1, <4>2
    <3>4. ASSUME NEW u \in Transfers, Cleaned(u) PROVE Cleaned(u)'
      BY <3>1, <3>2, <3>4
    <3> HIDE DEF Exports!WillRun, Cleaned, Exports!Cleaners
    <3>5. ASSUME NEW p \in Ports, RuleFound(p) PROVE RuleFound(p)'
      BY <3>2, <3>3, <3>5
    <3>6. ASSUME NEW u \in Transfers, DaemonFound(u) PROVE DaemonFound(u)'
      BY <3>2, <3>3, <3>6
    <3> HIDE DEF RuleFound, DaemonFound, Types, StagesAgree, Stage
    <3>7. QED
      BY <3>2, <3>4, <3>5, <3>6
  <2>2. CASE UNCHANGED cleaning /\ helper' = [helper EXCEPT ![t] = "serve"]
    BY <1>4, <2>2 DEF Exports!Check, Exports!control
  <2>3. QED
    BY <1>4, <2>1, <2>2 DEF Exports!Check
<1>5. ASSUME NEW t \in Transfers, Exports!Serve(t) PROVE Found'
  <2>1. CASE Exports!CleanBy(t, "helper")
    <3>1. \A u \in Transfers, d \in Exports!Cleaners :
            cleaning'[u][d] = IF u = t /\ d = "helper" THEN "off" ELSE cleaning[u][d]
      BY <2>1, CleanByDoes DEF Exports!Cleaners
    <3>2. rule' = rule /\ rsync' = rsync /\ files' = files /\ port' = port
          /\ timer' = timer /\ restarts' = restarts
      BY <1>5, <2>1 DEF Exports!Serve, Exports!Fault, Exports!control,
         Exports!CleanBy
    <3>3. ASSUME NEW u \in Transfers, NEW s \in {"off", "kill"},
                 Exports!WillRun(u, s)
          PROVE  Exports!WillRun(u, s)'
      <4>1. CASE u = t
        BY <3>1, <4>1 DEF Exports!Cleaners
      <4>2. CASE u # t
        <5>1. helper'[u] = helper[u]
          BY <1>5, <4>2 DEF Exports!Serve, Exports!Fault, Exports!control
        <5>2. \A d \in Exports!Cleaners : cleaning'[u][d] = cleaning[u][d]
          BY <3>1, <4>2
        <5> HIDE DEF Exports!Cleaners, Types, StagesAgree, Stage, Found
        <5>3. QED
          BY <3>2, <3>3, <5>1, <5>2
      <4>3. QED
        BY <4>1, <4>2
    <3>4. ASSUME NEW u \in Transfers, Cleaned(u) PROVE Cleaned(u)'
      BY <3>1, <3>2, <3>4
    <3> HIDE DEF Exports!WillRun, Cleaned, Exports!Cleaners
    <3>5. ASSUME NEW p \in Ports, RuleFound(p) PROVE RuleFound(p)'
      BY <3>2, <3>3, <3>5
    <3>6. ASSUME NEW u \in Transfers, DaemonFound(u) PROVE DaemonFound(u)'
      BY <3>2, <3>3, <3>6
    <3> HIDE DEF RuleFound, DaemonFound, Types, StagesAgree, Stage
    <3>7. QED
      BY <3>2, <3>4, <3>5, <3>6
  <2>2. CASE UNCHANGED cleaning /\ rule' = [rule EXCEPT ![port[t]] = t]
               /\ helper' = [helper EXCEPT ![t] = "timer"]
    BY <1>5, <2>2 DEF Exports!Serve, Exports!Fault, Exports!control
  <2>3. QED
    BY <1>5, <2>1, <2>2 DEF Exports!Serve
<1>6. ASSUME NEW t \in Transfers, Exports!Arm(t) PROVE Found'
  BY <1>6 DEF Exports!Arm, Exports!vars, Exports!source, Exports!control
<1>7. ASSUME NEW t \in Transfers, Exports!Expire(t) PROVE Found'
  BY <1>7 DEF Exports!Expire, Exports!CleanBy, Exports!vars, Exports!source,
     Exports!control
<1>8. ASSUME NEW t \in Transfers, NEW c \in Exports!Cleaners,
             Exports!CleanStep(t, c)
      PROVE  Found'
  BY <1>8 DEF Exports!CleanStep, Exports!After, Exports!vars, Exports!source,
     Exports!control
<1>9. ASSUME NEW t \in Transfers, Exports!Elapse(t) PROVE Found'
  BY <1>9 DEF Exports!Elapse, Exports!vars, Exports!source, Exports!control
<1>10. ASSUME NEW t \in Transfers, Exports!ExportAnswer(t) PROVE Found'
  BY <1>10 DEF Exports!ExportAnswer, Exports!Goto, Exports!vars, Exports!source,
     Exports!control
<1>11. ASSUME NEW t \in Transfers, Exports!Upload(t) PROVE Found'
  BY <1>11 DEF Exports!Upload, Exports!Goto, Exports!Fault, Exports!vars,
     Exports!source, Exports!control
<1>12. ASSUME NEW t \in Transfers, Exports!StartCopy(t) PROVE Found'
  BY <1>12 DEF Exports!StartCopy, Exports!Fault, Exports!vars, Exports!source,
     Exports!control
<1>13. ASSUME NEW t \in Transfers, Exports!CleanCall(t) PROVE Found'
  <2>1. CASE Exports!CleanBy(t, "control")
    <3>1. \A u \in Transfers, d \in Exports!Cleaners :
            cleaning'[u][d] = IF u = t /\ d = "control" THEN "off" ELSE cleaning[u][d]
      BY <2>1, CleanByDoes DEF Exports!Cleaners
    <3>2. rule' = rule /\ rsync' = rsync /\ files' = files /\ port' = port
          /\ timer' = timer /\ restarts' = restarts
      BY <1>13, <2>1 DEF Exports!CleanCall, Exports!Fault, Exports!source,
         Exports!CleanBy
    <3>3. ASSUME NEW u \in Transfers, NEW s \in {"off", "kill"},
                 Exports!WillRun(u, s)
          PROVE  Exports!WillRun(u, s)'
      <4>1. CASE u = t
        BY <3>1, <4>1 DEF Exports!Cleaners
      <4>2. CASE u # t
        <5>1. helper'[u] = helper[u]
          BY <1>13, <4>2 DEF Exports!CleanCall, Exports!Fault, Exports!source
        <5>2. \A d \in Exports!Cleaners : cleaning'[u][d] = cleaning[u][d]
          BY <3>1, <4>2
        <5> HIDE DEF Exports!Cleaners, Types, StagesAgree, Stage, Found
        <5>3. QED
          BY <3>2, <3>3, <5>1, <5>2
      <4>3. QED
        BY <4>1, <4>2
    <3>4. ASSUME NEW u \in Transfers, Cleaned(u) PROVE Cleaned(u)'
      BY <3>1, <3>2, <3>4
    <3> HIDE DEF Exports!WillRun, Cleaned, Exports!Cleaners
    <3>5. ASSUME NEW p \in Ports, RuleFound(p) PROVE RuleFound(p)'
      BY <3>2, <3>3, <3>5
    <3>6. ASSUME NEW u \in Transfers, DaemonFound(u) PROVE DaemonFound(u)'
      BY <3>2, <3>3, <3>6
    <3> HIDE DEF RuleFound, DaemonFound, Types, StagesAgree, Stage
    <3>7. QED
      BY <3>2, <3>4, <3>5, <3>6
  <2>2. CASE UNCHANGED cleaning
    BY <1>13, <2>2 DEF Exports!CleanCall, Exports!Fault, Exports!source
  <2>3. QED
    BY <1>13, <2>1, <2>2 DEF Exports!CleanCall
<1>14. ASSUME NEW t \in Transfers, Exports!Watch(t) PROVE Found'
  BY <1>14 DEF Exports!Watch, Exports!WatchEnds, Exports!vars, Exports!source,
     Exports!control
<1>15. ASSUME NEW t \in Transfers, Exports!Request(t) PROVE Found'
  BY <1>15 DEF Exports!Request, Exports!vars, Exports!source, Exports!control
<1>16. ASSUME NEW t \in Transfers, Exports!ExportTimeout(t) PROVE Found'
  BY <1>16 DEF Exports!ExportTimeout, Exports!Goto, Exports!Fault, Exports!vars,
     Exports!source, Exports!control
<1>17. ASSUME NEW t \in Transfers, Exports!StartRaises(t) PROVE Found'
  BY <1>17 DEF Exports!StartRaises, Exports!Goto, Exports!Fault, Exports!vars,
     Exports!source, Exports!control
<1>18. ASSUME NEW t \in Transfers, Exports!WatchRaises(t) PROVE Found'
  BY <1>18 DEF Exports!WatchRaises, Exports!WatchEnds, Exports!Fault,
     Exports!vars, Exports!source, Exports!control
<1>19. ASSUME NEW t \in Transfers, Exports!Lose(t) PROVE Found'
  BY <1>19 DEF Exports!Lose, Exports!Fault, Exports!vars, Exports!source,
     Exports!control
<1>20. ASSUME NEW t \in Transfers, Exports!Finish(t) PROVE Found'
  BY <1>20 DEF Exports!Finish, Exports!vars, Exports!source, Exports!control
<1>21. CASE Exports!Restart
  BY <1>21 DEF Exports!Restart, Exports!vars, Exports!source, Exports!control
<1>22. CASE UNCHANGED Exports!vars
  BY <1>22 DEF Exports!vars, Exports!source, Exports!control
<1>23. QED
  BY <1>1, <1>2, <1>3, <1>4, <1>5, <1>6, <1>7, <1>8, <1>9, <1>10, <1>11,
     <1>12, <1>13, <1>14, <1>15, <1>16, <1>17, <1>18, <1>19, <1>20, <1>21, <1>22
  DEF Exports!Next, Exports!Remote, Exports!Handle

-----------------------------------------------------------------------------
\* The invariant of the data copies holds at the start.
LEMMA InitIInv == Exports!Init => IInv
<1> SUFFICES ASSUME Exports!Init PROVE IInv
  OBVIOUS
<1> USE ExportsAssumption DEF Exports!DataCopyConstants, Exports!Init
<1>1. Types
  BY DEF Types, Exports!Cleaners
<1>2. StagesAgree
  BY DEF StagesAgree, Stage, Exports!Cleaners
<1>3. PortsDiffer
  BY DEF PortsDiffer
<1>4. Found
  BY DEF Found, RuleFound, DaemonFound, Cleaned, Exports!Cleaners
<1>5. QED
  BY <1>1, <1>2, <1>3, <1>4 DEF IInv

\* Every step of a copy keeps it, one case for each action.
LEMMA NextIInv == IInv /\ [Exports!Next]_(Exports!vars) => IInv'
<1> SUFFICES ASSUME IInv, [Exports!Next]_(Exports!vars) PROVE IInv'
  OBVIOUS
<1>1. Types /\ StagesAgree /\ PortsDiffer /\ Found
  BY DEF IInv
<1>2. Types' /\ StagesAgree' /\ PortsDiffer' /\ Found'
  BY <1>1, TypesNext, StagesNext, PortsNext, FindNext
<1>3. QED
  BY <1>2 DEF IInv

\* It holds in every behaviour.
LEMMA Invariance == Exports!Spec => []IInv
  BY InitIInv, NextIInv, PTL DEF Exports!Spec

-----------------------------------------------------------------------------
(* The theorems.                                                           *)

\* Every variable keeps its type, and two daemons never listen on one port
\* (wh-data-export chooses a port before its daemon binds it).
THEOREM TypeCorrect == Exports!Spec => []Exports!TypeOK
<1>1. IInv => Exports!TypeOK
  BY DEF IInv, Types, PortsDiffer, Exports!TypeOK
<1>2. QED
  BY <1>1, Invariance, PTL

\* Until the source restarts, a cleanup still to come finds every publication
\* and every daemon, whatever is lost, cancelled or cleaned twice
\* (cleanup_export, the TTL timer).
THEOREM NothingIsForgotten == Exports!Spec => []Exports!NothingForgotten
<1>1. IInv => Exports!NothingForgotten
  BY DEF IInv, Found, RuleFound, DaemonFound, Exports!NothingForgotten
<1>2. QED
  BY <1>1, Invariance, PTL

\* The bookkeeping of the exports is right, for any number of them.
THEOREM ExportsStayConsistent == Exports!Spec => []Exports!ExportsConsistent
  BY TypeCorrect, NothingIsForgotten, PTL DEF Exports!ExportsConsistent

-----------------------------------------------------------------------------
(* Worker registration.                                                    *)

\* Rows, requests and the types of the registry's variables.
RegRow == {Registry!NoRow} \cup
          [addr : 0..2, age : 0..(Cutoff + 1), status : {"online", "offline", "draining"}]
RegReq == [pc : {"none", "sent", "insert", "update"}, id : Registry!Ids, addr : 0..2,
           age : 0..(Cutoff + 1)]

RegTypes ==
    /\ id \in [Hosts -> Registry!Ids] /\ real \in [Hosts -> 1..2]
    /\ rows \in [Registry!Ids -> RegRow]
    /\ reqs \in [Hosts -> [Registry!Slots -> RegReq]]
    /\ quiet \in [Registry!Ids -> 0..(Cutoff + 1)]
    /\ late \in [Registry!Ids -> BOOLEAN]
    /\ removals \in Nat

\* A row is no older than the newest heartbeat answered, unless the last one
\* that was written had been stamped before that.
YoungerThanAnswer ==
    \A i \in Registry!Ids :
        rows[i] # Registry!NoRow => late[i] \/ rows[i].age <= quiet[i]

\* The inductive invariant of the registry.
RegInv == RegTypes /\ YoungerThanAnswer

\* The fields of a row.
LEMMA RegRows ==
    ASSUME Cutoff \in Nat
    PROVE  /\ Registry!NoRow \in RegRow
           /\ \A x \in RegRow : x # Registry!NoRow =>
                /\ x.age \in 0..(Cutoff + 1)
                /\ x.status # "none"
                /\ \A n \in 0..(Cutoff + 1) : [x EXCEPT !.age = n] \in RegRow
                /\ \A n \in 0..(Cutoff + 1) : [x EXCEPT !.age = n].age = n
                /\ \A n \in 0..(Cutoff + 1) : [x EXCEPT !.age = n] # Registry!NoRow
                /\ \A s \in {"online", "offline", "draining"} :
                    /\ [x EXCEPT !.status = s] \in RegRow
                    /\ [x EXCEPT !.status = s].age = x.age
                    /\ [x EXCEPT !.status = s] # Registry!NoRow
           /\ \A r \in RegReq : /\ Registry!RowOf(r) \in RegRow
                                /\ Registry!RowOf(r) # Registry!NoRow
                                /\ Registry!RowOf(r).age = r.age
<1>1. Registry!NoRow.status = "none"
  BY DEF Registry!NoRow
<1>2. QED
  BY <1>1 DEF RegRow, RegReq, Registry!RowOf

\* Time adds one tick, up to the oldest age the model tells apart.
LEMMA OlderAges ==
    ASSUME Cutoff \in Nat
    PROVE  /\ \A n \in 0..(Cutoff + 1) : Registry!Older(n) \in 0..(Cutoff + 1)
           /\ \A m, n \in 0..(Cutoff + 1) : m <= n => Registry!Older(m) <= Registry!Older(n)
  BY DEF Registry!Older, Registry!Old

\* A request keeps its type while it gets older.
LEMMA AgedRequest ==
    ASSUME Cutoff \in Nat, NEW r \in RegReq
    PROVE  Registry!Aged(r) \in RegReq
<1>1. Registry!Older(r.age) \in 0..(Cutoff + 1)
  BY OlderAges DEF RegReq
<1> DEFINE n == Registry!Older(r.age)
<1>2. Registry!Aged(r) = r \/ Registry!Aged(r) = [r EXCEPT !.age = n]
  BY DEF Registry!Aged
<1> HIDE DEF n
<1>3. [r EXCEPT !.age = n] \in RegReq
  BY <1>1 DEF RegReq, n
<1>4. QED
  BY <1>2, <1>3

\* What an answer stores: a row of the age of its stamp.
LEMMA AnswerDoes ==
    ASSUME Cutoff \in Nat, RegInv, NEW h \in Hosts, NEW k \in Registry!Slots,
           Registry!WriteExisting(h, k) \/ Registry!WriteNew(h, k)
    PROVE  /\ RegInv'
           /\ \A i \in Registry!Ids : rows[i] # Registry!NoRow => rows'[i] # Registry!NoRow
<1> DEFINE r == reqs[h][k]  j == r.id  f == Registry!RowOf(r)
           q == Registry!Newest(quiet[j], r.age)  older == quiet[j] < r.age
<1>1. r \in RegReq
  BY DEF RegInv, RegTypes
<1>2. j \in Registry!Ids /\ f \in RegRow /\ f # Registry!NoRow /\ f.age = r.age
  BY <1>1, RegRows DEF RegReq
<1>3. /\ reqs' = [reqs EXCEPT ![h][k] = Registry!NoReq]
      /\ quiet' = [quiet EXCEPT ![j] = q]
      /\ late' = [late EXCEPT ![j] = older]
      /\ UNCHANGED <<id, real, removals>>
  BY DEF Registry!WriteExisting, Registry!WriteNew, Registry!Answer
<1>4. (rows' = rows /\ rows[j] = Registry!NoRow) \/ rows' = [rows EXCEPT ![j] = f]
  BY DEF Registry!WriteExisting, Registry!WriteNew, Registry!Update
<1>5. Registry!NoReq \in RegReq
  BY DEF Registry!NoReq, RegReq, Registry!Ids
<1>6. q \in 0..(Cutoff + 1) /\ older \in BOOLEAN /\ (older \/ f.age <= q)
  <2>1. r.age \in 0..(Cutoff + 1) /\ quiet[j] \in 0..(Cutoff + 1)
    BY <1>1, <1>2 DEF RegInv, RegTypes, RegReq
  <2>2. QED
    BY <1>2, <2>1 DEF Registry!Newest
<1> HIDE DEF r, j, f, q, older
<1>7. RegTypes'
  <2>1. quiet' \in [Registry!Ids -> 0..(Cutoff + 1)] /\ rows' \in [Registry!Ids -> RegRow]
    BY <1>2, <1>3, <1>4, <1>6 DEF RegInv, RegTypes
  <2>2. reqs' \in [Hosts -> [Registry!Slots -> RegReq]]
    BY <1>3, <1>5 DEF RegInv, RegTypes
  <2>3. late' \in [Registry!Ids -> BOOLEAN]
    BY <1>3, <1>6 DEF RegInv, RegTypes
  <2>4. QED
    BY <1>3, <2>1, <2>2, <2>3 DEF RegInv, RegTypes
<1>8. ASSUME NEW i \in Registry!Ids
      PROVE  /\ rows'[i] # Registry!NoRow => late'[i] \/ rows'[i].age <= quiet'[i]
             /\ rows[i] # Registry!NoRow => rows'[i] # Registry!NoRow
  <2>1. CASE i = j
    <3>1. late'[i] = older /\ quiet'[i] = q
      BY <1>3, <2>1 DEF RegInv, RegTypes
    <3>2. rows'[i] = f \/ (rows'[i] = rows[i] /\ rows[i] = Registry!NoRow)
      BY <1>4, <2>1 DEF RegInv, RegTypes
    <3>3. QED
      BY <1>2, <1>6, <3>1, <3>2
  <2>2. CASE i # j
    <3>1. late'[i] = late[i] /\ quiet'[i] = quiet[i] /\ rows'[i] = rows[i]
      BY <1>3, <1>4, <2>2 DEF RegInv, RegTypes
    <3>2. QED
      BY <3>1 DEF RegInv, YoungerThanAnswer
  <2>3. QED
    BY <2>1, <2>2
<1>9. QED
  BY <1>7, <1>8 DEF RegInv, YoungerThanAnswer

\* What the registry's other actions do to the rows.
KeepsRows == /\ UNCHANGED <<rows, quiet, late, removals>>
             /\ id' \in [Hosts -> Registry!Ids] /\ real' \in [Hosts -> 1..2]
             /\ reqs' \in [Hosts -> [Registry!Slots -> RegReq]]

\* What the steps of a daemon leave of the rows and of the answers.
LEMMA DaemonSteps ==
    ASSUME Cutoff \in Nat, RegInv, NEW h \in Hosts,
           \/ Registry!Start(h) \/ Registry!WriteId(h) \/ Registry!Crash(h)
           \/ Registry!Stop(h) \/ Registry!Beat(h) \/ Registry!Due(h) \/ Registry!Move(h)
    PROVE  KeepsRows
<1> USE DEF RegInv, RegTypes, KeepsRows
<1>1. CASE Registry!Start(h) \/ Registry!WriteId(h)
  <2>1. h \in Registry!Ids /\ Empty \in Registry!Ids
    BY DEF Registry!Ids
  <2>2. QED
    BY <1>1, <2>1 DEF Registry!Start, Registry!WriteId
<1>2. CASE Registry!Crash(h) \/ Registry!Stop(h) \/ Registry!Due(h)
  BY <1>2 DEF Registry!Crash, Registry!Stop, Registry!Due
<1>3. CASE Registry!Beat(h)
  <2>1. /\ UNCHANGED <<id, real, rows, quiet, late, removals>>
        /\ \/ UNCHANGED reqs
           \/ \E k \in Registry!Slots : reqs' = [reqs EXCEPT ![h][k] =
                        [pc |-> "sent", id |-> id[h], addr |-> real[h], age |-> 0]]
    BY <1>3 DEF Registry!Beat, Registry!Identity
  <2> DEFINE x == [pc |-> "sent", id |-> id[h], addr |-> real[h], age |-> 0]
  <2>2. x \in RegReq
    BY DEF RegReq
  <2> HIDE DEF x
  <2>3. reqs' \in [Hosts -> [Registry!Slots -> RegReq]]
    <3>1. CASE UNCHANGED reqs
      BY <3>1
    <3>2. ASSUME NEW k \in Registry!Slots, reqs' = [reqs EXCEPT ![h][k] = x]
          PROVE  reqs' \in [Hosts -> [Registry!Slots -> RegReq]]
      BY <2>2, <3>2
    <3>3. QED
      BY <2>1, <3>1, <3>2 DEF x
  <2>4. QED
    BY <2>1, <2>3
<1>4. CASE Registry!Move(h)
  <2>1. /\ real' = [real EXCEPT ![h] = 3 - real[h]]
        /\ UNCHANGED <<id, rows, reqs, quiet, late, removals>>
    BY <1>4 DEF Registry!Move
  <2>2. 3 - real[h] \in 1..2
    OBVIOUS
  <2>3. QED
    BY <2>1, <2>2
<1>5. QED
  BY <1>1, <1>2, <1>3, <1>4

\* What the steps of the handler that only read leave.
LEMMA ReadSteps ==
    ASSUME Cutoff \in Nat, RegInv, NEW h \in Hosts, NEW k \in Registry!Slots,
           Registry!ReadRow(h, k) \/ Registry!InsertFails(h, k)
    PROVE  KeepsRows
<1>1. reqs[h][k] \in RegReq /\ Registry!NoReq \in RegReq
  BY DEF RegInv, RegTypes, Registry!NoReq, RegReq, Registry!Ids
<1>2. \A s \in {"insert", "update"} : [reqs[h][k] EXCEPT !.pc = s] \in RegReq
  BY <1>1 DEF RegReq
<1>3. PICK x \in RegReq : reqs' = [reqs EXCEPT ![h] = [reqs[h] EXCEPT ![k] = x]]
  BY <1>1, <1>2 DEF Registry!ReadRow, Registry!InsertFails
<1>4. reqs' \in [Hosts -> [Registry!Slots -> RegReq]]
  BY <1>3 DEF RegInv, RegTypes
<1>5. QED
  BY <1>4 DEF RegInv, RegTypes, KeepsRows, Registry!ReadRow,
     Registry!InsertFails

\* The step of the registry: the invariant is kept, and a row is lost only to
\* an operator or to the pruner, when no heartbeat that was answered is younger
\* than the cutoff or an older one was written after it.
Silent == \A i \in Registry!Ids :
    (rows[i] # Registry!NoRow /\ rows'[i] = Registry!NoRow /\ removals' = removals)
        => quiet[i] > Cutoff \/ late[i]

\* Every step of the registration keeps its invariant.
LEMMA RegStep ==
    ASSUME Cutoff \in Nat, RegInv, [Registry!Next]_(Registry!vars)
    PROVE  RegInv' /\ Silent
<1>1. ASSUME KeepsRows PROVE RegInv' /\ Silent
  BY <1>1 DEF KeepsRows, RegInv, RegTypes, YoungerThanAnswer, Silent
<1>2. ASSUME NEW h \in Hosts, NEW k \in Registry!Slots, Registry!Handle(h, k)
      PROVE  RegInv' /\ Silent
  BY <1>1, <1>2, AnswerDoes, ReadSteps DEF Registry!Handle, Silent
<1>3. ASSUME NEW gone \in SUBSET Registry!Ids,
             rows' = [i \in Registry!Ids |-> IF i \in gone THEN Registry!NoRow ELSE rows[i]],
             UNCHANGED <<id, real, reqs, quiet, late>>, removals' \in Nat
      PROVE  RegInv'
  <2>1. rows' \in [Registry!Ids -> RegRow]
    BY <1>3, RegRows DEF RegInv, RegTypes
  <2>2. RegTypes'
    BY <1>3, <2>1 DEF RegInv, RegTypes
  <2>3. \A i \in Registry!Ids : rows'[i] # Registry!NoRow => rows'[i] = rows[i]
    BY <1>3
  <2>4. QED
    BY <1>3, <2>2, <2>3 DEF RegInv, YoungerThanAnswer
<1>4. CASE Registry!Prune
  <2>1. /\ rows' = [i \in Registry!Ids |-> IF i \in {x \in Registry!Ids : Registry!Stale(x)}
                                             THEN Registry!NoRow ELSE rows[i]]
        /\ UNCHANGED <<id, real, reqs, quiet, late, removals>>
    BY <1>4 DEF Registry!Prune
  <2>2. RegInv'
    <3> DEFINE gone == {x \in Registry!Ids : Registry!Stale(x)}
    <3>1. /\ gone \in SUBSET Registry!Ids
          /\ rows' = [i \in Registry!Ids |-> IF i \in gone THEN Registry!NoRow ELSE rows[i]]
      BY <2>1
    <3>2. removals' \in Nat
      BY <2>1 DEF RegInv, RegTypes
    <3> HIDE DEF gone
    <3>3. QED
      BY <1>3, <2>1, <3>1, <3>2
  <2>3. ASSUME NEW i \in Registry!Ids, rows[i] # Registry!NoRow, rows'[i] = Registry!NoRow
        PROVE  quiet[i] > Cutoff \/ late[i]
    <3>1. rows[i].age > Cutoff /\ (late[i] \/ rows[i].age <= quiet[i])
      BY <2>1, <2>3 DEF Registry!Stale, RegInv, YoungerThanAnswer
    <3>2. rows[i] \in RegRow /\ quiet[i] \in 0..(Cutoff + 1)
      BY DEF RegInv, RegTypes
    <3>3. rows[i].age \in 0..(Cutoff + 1)
      BY <2>3, <3>2, RegRows
    <3>4. QED
      BY <3>1, <3>2, <3>3
  <2>4. QED
    BY <2>2, <2>3 DEF Silent
<1>5. ASSUME NEW n \in 0..Cutoff, Registry!PruneNow(n) PROVE RegInv' /\ Silent
  <2>1. removals \in Nat /\ removals' = removals + 1
    BY <1>5 DEF Registry!PruneNow, RegInv, RegTypes
  <2>2. PICK gone \in SUBSET Registry!Ids :
            rows' = [i \in Registry!Ids |-> IF i \in gone THEN Registry!NoRow ELSE rows[i]]
    BY <1>5 DEF Registry!PruneNow
  <2>3. UNCHANGED <<id, real, reqs, quiet, late>>
    BY <1>5 DEF Registry!PruneNow
  <2>4. removals' # removals /\ removals' \in Nat
    BY <2>1
  <2>5. QED
    BY <1>3, <2>2, <2>3, <2>4 DEF Silent
<1>6. ASSUME NEW j \in Registry!Ids, Registry!SetStatus(j) PROVE RegInv' /\ Silent
  <2> DEFINE s == "draining"
  <2>1. /\ rows[j] # Registry!NoRow /\ rows' = [rows EXCEPT ![j] = [rows[j] EXCEPT !.status = s]]
        /\ UNCHANGED <<id, real, reqs, quiet, late, removals>>
    BY <1>6 DEF Registry!SetStatus, Registry!NoRow
  <2>2. /\ [rows[j] EXCEPT !.status = s] \in RegRow
        /\ [rows[j] EXCEPT !.status = s].age = rows[j].age
        /\ [rows[j] EXCEPT !.status = s] # Registry!NoRow
    BY <2>1, RegRows DEF RegInv, RegTypes
  <2>3. RegTypes'
    BY <2>1, <2>2 DEF RegInv, RegTypes
  <2>4. YoungerThanAnswer' /\ Silent
    BY <2>1, <2>2 DEF RegInv, RegTypes, YoungerThanAnswer, Silent
  <2>5. QED
    BY <2>3, <2>4 DEF RegInv
<1>7. CASE Registry!Tick
  <2>1. /\ quiet' = [i \in Registry!Ids |-> Registry!Older(quiet[i])]
        /\ reqs' = [h \in Hosts |-> [k \in Registry!Slots |-> Registry!Aged(reqs[h][k])]]
        /\ UNCHANGED <<id, real, late, removals>>
    BY <1>7 DEF Registry!Tick
  <2>2. rows' = [i \in Registry!Ids |-> IF rows[i] = Registry!NoRow THEN Registry!NoRow
                     ELSE [rows[i] EXCEPT !.age = Registry!Older(rows[i].age)]]
    BY <1>7 DEF Registry!Tick
  <2>3. ASSUME NEW i \in Registry!Ids
        PROVE  /\ rows'[i] \in RegRow /\ quiet'[i] \in 0..(Cutoff + 1)
               /\ rows'[i] = Registry!NoRow <=> rows[i] = Registry!NoRow
               /\ rows'[i] # Registry!NoRow => late[i] \/ rows'[i].age <= quiet'[i]
    <3>1. quiet[i] \in 0..(Cutoff + 1) /\ rows[i] \in RegRow
      BY DEF RegInv, RegTypes
    <3>2. CASE rows[i] = Registry!NoRow
      BY <2>1, <2>2, <3>1, <3>2, OlderAges, RegRows
    <3>3. CASE rows[i] # Registry!NoRow
      <4> DEFINE n == Registry!Older(rows[i].age)
      <4>1. rows[i].age \in 0..(Cutoff + 1) /\ (late[i] \/ rows[i].age <= quiet[i])
        BY <3>1, <3>3, RegRows DEF RegInv, YoungerThanAnswer
      <4>2. n \in 0..(Cutoff + 1) /\ (late[i] \/ n <= Registry!Older(quiet[i]))
        BY <3>1, <4>1, OlderAges
      <4>3. rows'[i] = [rows[i] EXCEPT !.age = n] /\ quiet'[i] = Registry!Older(quiet[i])
        BY <2>1, <2>2, <3>3
      <4>4. quiet'[i] \in 0..(Cutoff + 1)
        BY <3>1, <4>3, OlderAges
      <4> HIDE DEF n
      <4>5. /\ [rows[i] EXCEPT !.age = n] \in RegRow
            /\ [rows[i] EXCEPT !.age = n].age = n
            /\ [rows[i] EXCEPT !.age = n] # Registry!NoRow
        BY <3>1, <3>3, <4>2, RegRows
      <4>6. rows'[i] \in RegRow /\ rows'[i] # Registry!NoRow /\ rows'[i].age = n
        BY <4>3, <4>5
      <4>7. QED
        BY <3>3, <4>2, <4>3, <4>4, <4>6
    <3>4. QED
      BY <3>2, <3>3
  <2>4. RegTypes'
    <3>1. reqs' \in [Hosts -> [Registry!Slots -> RegReq]]
      <4>1. \A h \in Hosts, k \in Registry!Slots : reqs[h][k] \in RegReq
        BY DEF RegInv, RegTypes
      <4>2. \A h \in Hosts, k \in Registry!Slots : Registry!Aged(reqs[h][k]) \in RegReq
        BY <4>1, AgedRequest
      <4>3. QED
        BY <2>1, <4>2
    <3>2. QED
      BY <2>1, <2>2, <2>3, <3>1 DEF RegInv, RegTypes
  <2>5. QED
    BY <2>1, <2>3, <2>4 DEF RegInv, YoungerThanAnswer, Silent
<1>8. CASE UNCHANGED Registry!vars
  BY <1>1, <1>8 DEF Registry!vars, KeepsRows, RegInv, RegTypes
<1>9. QED
  BY <1>1, <1>2, <1>4, <1>5, <1>6, <1>7, <1>8, DaemonSteps DEF Registry!Next

\* Whatever requests overlap, get lost or overtake each other, and however
\* addresses and daemons change: the pruner removes only workers whose answered
\* heartbeats are all stamped longer ago than the cutoff, or whose row was written
\* last by a request stamped before one that was answered (prune_workers).
THEOREM OnlySilentArePruned == Registry!Spec => Registry!PrunedWereSilent
<1>1. Registry!Init => RegInv
  <2> SUFFICES ASSUME Registry!Init PROVE RegInv
    OBVIOUS
  <2>1. Empty \in Registry!Ids /\ Registry!NoReq \in RegReq
    BY RegistryAssumption DEF Registry!Ids, Registry!NoReq, RegReq
  <2>2. /\ id \in [Hosts -> Registry!Ids] /\ real \in [Hosts -> 1..2]
        /\ reqs \in [Hosts -> [Registry!Slots -> RegReq]] /\ removals \in Nat
    BY <2>1 DEF Registry!Init
  <2>3. /\ quiet \in [Registry!Ids -> 0..(Cutoff + 1)]
        /\ late \in [Registry!Ids -> BOOLEAN]
    BY RegistryAssumption DEF Registry!Init, Registry!Old
  <2>4. rows \in [Registry!Ids -> RegRow] /\ \A i \in Registry!Ids : rows[i] = Registry!NoRow
    BY RegRows, RegistryAssumption DEF Registry!Init
  <2>5. QED
    BY <2>2, <2>3, <2>4 DEF RegInv, RegTypes, YoungerThanAnswer
<1>2. RegInv /\ [Registry!Next]_(Registry!vars) => RegInv'
  BY RegStep, RegistryAssumption
<1>3. RegInv /\ [Registry!Next]_(Registry!vars) => [Silent]_(Registry!vars)
  BY RegStep, RegistryAssumption
<1>4. QED
  BY <1>1, <1>2, <1>3, PTL DEF Registry!Spec, Registry!PrunedWereSilent, Silent

-----------------------------------------------------------------------------
(* The manifest.                                                           *)

\* What a setup and a load hold, and what is in the file.
Exes == [Runtime!Tools -> Dirs \cup {Runtime!NotFound}]
SetupPlaces == Runtime!Ended \cup {"captured", "probed", "temp", "filled", "replaced"}
LoadPlaces == {"idle", "read", "absent", "error", "loaded", "healthy", "unhealthy"}
Data == Runtime!Runtimes \cup {Runtime!NoData}

SetupRec == [pc : SetupPlaces, rt : Data, temp : Data \cup {Runtime!Torn}]
LoadRec == [pc : LoadPlaces, rt : Data, held : SUBSET (Dirs \X Runtime!Tools)]
ManifestRec == [data : Data, synced : {TRUE}]

\* The types of the host's variables.
HostTypes ==
    /\ disk \in [Dirs -> SUBSET Runtime!Tools]
    /\ broken \in SUBSET Runtime!Tools
    /\ private \in BOOLEAN
    /\ setup \in [Setups -> SetupRec]
    /\ load \in [Loads -> LoadRec]
    /\ file \in ManifestRec /\ safe \in ManifestRec
    /\ moves \in 0..MaxMoves

\* What a capture's path is to be, as Runtime!PathIsSound says it.
PathSound(path, exes, d) ==
    /\ \A i, j \in DOMAIN path : path[i] = path[j] => i = j
    /\ Runtime!ToSet(path) \subseteq Dirs
    /\ \A x \in Runtime!ToSet(path) \cap TempDirs :
        x \in Runtime!ToSet(Fallback) \/ \E t \in Runtime!Tools : exes[t] = x
    /\ \A t \in Runtime!Tools :
        exes[t] # Runtime!NotFound => Runtime!Which(path, d, t) # Runtime!NotFound

\* Every runtime that was captured has sound paths.
CapturesAreSound == \A c \in made :
    c.rt.exes \in Exes /\ PathSound(c.rt.path, c.rt.exes, c.disk)

\* What a setup has in hand at each of its places.
SetupHolds(x) ==
    /\ x.pc \in {"captured", "probed", "temp", "filled"} => x.rt \in Runtime!Runtimes
    /\ x.pc \in {"idle", "failed", "done", "replaced", "captured", "probed"} =>
        x.temp = Runtime!NoData
    /\ x.pc = "filled" => x.temp = x.rt

\* What a load has seen on disk: all that is there now while it checks, and
\* what it returns once it succeeded.
LoadHolds(x) ==
    /\ x.pc = "read" => x.rt \in Runtime!Runtimes /\ Runtime!Places \subseteq x.held
    /\ x.pc \in {"loaded", "healthy"} =>
        \A t \in Runtime!Tools : x.rt.exes[t] # Runtime!NotFound =>
            <<x.rt.exes[t], t>> \in x.held

\* The inductive invariant of the manifest.
HostInv ==
    /\ HostTypes
    /\ CapturesAreSound
    /\ \A s \in Setups : SetupHolds(setup[s])
    /\ \A r \in Loads : LoadHolds(load[r])

\* A tool is found, in a directory that has it, when one of the path does.
LEMMA WhichFinds ==
    ASSUME NEW path, DOMAIN path \subseteq Nat, NEW d, NEW tool,
           NEW w, w = Runtime!Which(path, d, tool)
    PROVE  /\ w = Runtime!NotFound \/ (w \in Dirs /\ tool \in d[w])
           /\ (\E k \in DOMAIN path : path[k] \in Dirs /\ tool \in d[path[k]])
                => w \in Dirs
<1> DEFINE hits == {i \in DOMAIN path : path[i] \in Dirs /\ tool \in d[path[i]]}
           first == CHOOSE i \in hits : \A j \in hits : i <= j
<1>1. CASE hits = {}
  BY <1>1 DEF Runtime!Which
<1>2. CASE hits # {}
  <2>1. \E i \in hits : \A j \in hits : i <= j
    BY <1>2, SmallestOf
  <2>2. first \in hits
    BY <2>1
  <2>3. w = path[first]
    BY <1>2 DEF Runtime!Which
  <2>4. QED
    BY <2>2, <2>3
<1>3. QED
  BY <1>1, <1>2

\* How many members of a set of numbers are not above i.
Count(keep, i) == Cardinality({j \in keep : j <= i})

\* The members of a finite set of numbers, counted from the smallest: each
\* count is one member's.
LEMMA Numbering ==
    ASSUME NEW n \in Nat, NEW keep \in SUBSET (1..n)
    PROVE  /\ IsFiniteSet(keep) /\ Cardinality(keep) \in Nat
           /\ \A i \in keep : Count(keep, i) \in 1..Cardinality(keep)
           /\ \A i, j \in keep : Count(keep, i) = Count(keep, j) => i = j
           /\ \A k \in 1..Cardinality(keep) : \E i \in keep : Count(keep, i) = k
<1> DEFINE U(i) == {j \in keep : j <= i}
<1>a. \A j \in keep : j \in Nat /\ 1 <= j /\ j <= n /\ j \in 1..n /\ j \in 0..n
  OBVIOUS
<1>b. \A i \in 1..n : i \in 0..n /\ i - 1 \in 0..n /\ i \in Nat /\ i - 1 \in Nat
  OBVIOUS
<1>1. IsFiniteSet(keep) /\ Cardinality(keep) \in Nat
  <2>1. IsFiniteSet(1..n)
    BY FS_Interval
  <2>2. IsFiniteSet(keep)
    BY <2>1, FS_Subset
  <2>3. QED
    BY <2>2, FS_CardinalityType
<1>2. ASSUME NEW i \in 0..n
      PROVE  /\ IsFiniteSet(U(i)) /\ Count(keep, i) = Cardinality(U(i)) /\ Count(keep, i) \in Nat
             /\ Count(keep, i) <= Cardinality(keep)
  <2>1. U(i) \in SUBSET keep
    OBVIOUS
  <2>2. IsFiniteSet(U(i)) /\ Cardinality(U(i)) <= Cardinality(keep)
    BY <1>1, <2>1, FS_Subset
  <2>3. Cardinality(U(i)) \in Nat
    BY <2>2, FS_CardinalityType
  <2>4. QED
    BY <2>2, <2>3 DEF Count
<1>3. ASSUME NEW i \in keep
      PROVE  Count(keep, i) = Count(keep, i - 1) + 1
  <2>1. U(i) = U(i - 1) \cup {i}
    <3>1. \A j \in keep : j <= i <=> (j <= i - 1 \/ j = i)
      BY <1>a
    <3>2. QED
      BY <3>1
  <2>2. i \notin U(i - 1)
    BY <1>a
  <2>3. i - 1 \in 0..n /\ i \in 0..n
    BY <1>a
  <2>4. IsFiniteSet(U(i - 1)) /\ Count(keep, i - 1) = Cardinality(U(i - 1))
    BY <1>2, <2>3
  <2>5. Cardinality(U(i)) = Cardinality(U(i - 1)) + 1
    BY <2>1, <2>2, <2>4, FS_AddElement
  <2>6. QED
    BY <1>2, <2>3, <2>4, <2>5
<1>4. ASSUME NEW i \in 1..n, i \notin keep
      PROVE  Count(keep, i) = Count(keep, i - 1)
  <2>1. \A j \in keep : j <= i <=> j <= i - 1
    BY <1>a, <1>b, <1>4
  <2>2. U(i) = U(i - 1)
    BY <2>1
  <2>3. i \in 0..n /\ i - 1 \in 0..n
    BY <1>b
  <2>4. QED
    BY <1>2, <2>2, <2>3
<1>5. ASSUME NEW i \in 0..n, NEW j \in 0..n, i <= j
      PROVE  Count(keep, i) <= Count(keep, j)
  <2>1. \A k \in keep : k <= i => k <= j
    BY <1>a, <1>5
  <2>2. U(i) \in SUBSET U(j)
    BY <2>1
  <2>3. Cardinality(U(i)) <= Cardinality(U(j))
    BY <1>2, <2>2, FS_Subset
  <2>4. QED
    BY <1>2, <2>3
<1>6. Count(keep, 0) = 0 /\ Count(keep, n) = Cardinality(keep)
  <2>1. \A j \in keep : ~(j <= 0) /\ j <= n
    BY <1>a
  <2>2. U(0) = {} /\ U(n) = keep
    BY <2>1
  <2>3. 0 \in 0..n /\ n \in 0..n
    OBVIOUS
  <2>4. QED
    BY <1>2, <2>2, <2>3, FS_EmptySet
<1> HIDE DEF U
<1>7. ASSUME NEW i \in keep PROVE Count(keep, i) \in 1..Cardinality(keep)
  <2>1. i \in 0..n /\ i - 1 \in 0..n
    BY <1>a, <1>b
  <2>2. Count(keep, i - 1) \in Nat /\ Count(keep, i) \in Nat /\ Count(keep, i) <= Cardinality(keep)
    BY <1>2, <2>1
  <2>3. Count(keep, i) = Count(keep, i - 1) + 1
    BY <1>3
  <2>4. QED
    BY <1>1, <2>2, <2>3
<1>8. ASSUME NEW i \in keep, NEW j \in keep, i < j
      PROVE  Count(keep, i) < Count(keep, j)
  <2>1. i \in 0..n /\ j - 1 \in 0..n /\ i <= j - 1
    BY <1>a, <1>b, <1>8
  <2>2. Count(keep, i) <= Count(keep, j - 1) /\ Count(keep, i) \in Nat /\ Count(keep, j - 1) \in Nat
    BY <1>2, <1>5, <2>1
  <2>3. Count(keep, j) = Count(keep, j - 1) + 1
    BY <1>3
  <2>4. QED
    BY <2>2, <2>3
<1>9. ASSUME NEW i \in keep, NEW j \in keep, Count(keep, i) = Count(keep, j)
      PROVE  i = j
  <2>1. i \in 0..n /\ j \in 0..n
    BY <1>a
  <2>2. Count(keep, i) \in Nat /\ Count(keep, j) \in Nat
    BY <1>2, <2>1
  <2>3. ~(i < j) /\ ~(j < i)
    <3>1. ASSUME i < j PROVE FALSE
      BY <1>8, <1>9, <2>2, <3>1
    <3>2. ASSUME j < i PROVE FALSE
      BY <1>8, <1>9, <2>2, <3>2
    <3>3. QED
      BY <3>1, <3>2
  <2>4. QED
    BY <2>1, <2>3
<1>10. ASSUME NEW k \in 1..Cardinality(keep)
       PROVE  \E i \in keep : Count(keep, i) = k
  <2> DEFINE T == {i \in 0..n : Count(keep, i) >= k}
  <2>0. k \in Nat /\ 1 <= k /\ k <= Cardinality(keep)
    BY <1>1
  <2>1. n \in T /\ T \subseteq Nat
    BY <1>1, <1>6, <2>0
  <2>2. PICK i \in T : \A j \in T : i <= j
    BY <2>1, SmallestOf
  <2>3. i \in 0..n /\ Count(keep, i) >= k
    BY <2>2
  <2>4. i # 0
    BY <1>6, <2>0, <2>3
  <2>5. i \in 1..n /\ i - 1 \in 0..n /\ ~(i <= i - 1)
    BY <2>3, <2>4
  <2>6. ~(Count(keep, i - 1) >= k)
    BY <2>2, <2>5
  <2>7. Count(keep, i - 1) \in Nat /\ Count(keep, i) \in Nat
    BY <1>2, <2>3, <2>5
  <2>8. i \in keep
    BY <1>4, <2>3, <2>5, <2>6
  <2>9. Count(keep, i) = Count(keep, i - 1) + 1
    BY <1>3, <2>8
  <2>10. Count(keep, i) = k
    BY <2>0, <2>3, <2>6, <2>7, <2>9
  <2>11. QED
    BY <2>8, <2>10
<1>11. QED
  BY <1>1, <1>7, <1>9, <1>10

\* The instance counts as this module does.
LEMMA SameCardinality == \A S : Runtime!Cardinality(S) = Cardinality(S)
  BY DEF Runtime!Cardinality, Cardinality

\* p has the entries of s at the positions keep, each position once.
Selection(p, s, keep) ==
    /\ DOMAIN p \subseteq Nat
    /\ \A k \in DOMAIN p : \E i \in keep : p[k] = s[i]
    /\ \A i \in keep : \E k \in DOMAIN p : p[k] = s[i]
    /\ \A k, l \in DOMAIN p : k # l =>
        \E i, j \in keep : i # j /\ p[k] = s[i] /\ p[l] = s[j]

\* What Select returns is the selection it says.
LEMMA SelectIs ==
    ASSUME NEW s, NEW n \in Nat, NEW keep \in SUBSET (1..n)
    PROVE  Selection(Runtime!Select(s, keep), s, keep)
<1> DEFINE Nth(k) == Runtime!Nth(keep, k)
           p == Runtime!Select(s, keep)
<1>1. /\ Cardinality(keep) \in Nat
      /\ \A i \in keep : Count(keep, i) \in 1..Cardinality(keep)
      /\ \A i, j \in keep : Count(keep, i) = Count(keep, j) => i = j
      /\ \A k \in 1..Cardinality(keep) : \E i \in keep : Count(keep, i) = k
  BY Numbering
<1>2. \A k : Nth(k) = CHOOSE i \in keep : Count(keep, i) = k
  <2>1. \A i : Runtime!Cardinality({j \in keep : j <= i}) = Count(keep, i)
    BY SameCardinality DEF Count
  <2>2. QED
    BY <2>1 DEF Runtime!Nth
<1>3. p = [k \in 1..Cardinality(keep) |-> s[Nth(k)]]
  BY SameCardinality DEF Runtime!Select
<1> HIDE DEF Nth, p
<1>4. \A k \in 1..Cardinality(keep) : Nth(k) \in keep /\ Count(keep, Nth(k)) = k
  BY <1>1, <1>2
<1>5. \A i \in keep : Count(keep, i) \in 1..Cardinality(keep) /\ Nth(Count(keep, i)) = i
  BY <1>1, <1>4
<1>6. DOMAIN p = 1..Cardinality(keep) /\ \A k \in DOMAIN p : p[k] = s[Nth(k)]
  BY <1>3
<1>7. DOMAIN p \subseteq Nat
  BY <1>1, <1>6
<1>8. \A i \in keep : p[Count(keep, i)] = s[i] /\ Count(keep, i) \in DOMAIN p
  BY <1>5, <1>6
<1>9. \A k, l \in DOMAIN p : k # l => Nth(k) # Nth(l)
  BY <1>4, <1>6
<1>10. \A k \in DOMAIN p : Nth(k) \in keep /\ p[k] = s[Nth(k)]
  BY <1>4, <1>6
<1>11. Selection(p, s, keep)
  BY <1>7, <1>8, <1>9, <1>10 DEF Selection
<1>12. QED
  BY <1>11 DEF p
\* A parameter that is a sequence has a length and entries.
LEMMA SequencesAre ==
    ASSUME NEW x, Runtime!IsSequence(x)
    PROVE  /\ Len(x) \in Nat /\ DOMAIN x = 1..Len(x)
           /\ x \in Seq({x[i] : i \in DOMAIN x})
           /\ Runtime!ToSet(x) = {x[i] : i \in DOMAIN x}
  BY DEF Runtime!IsSequence, Runtime!ToSet

\* The entries of three sequences one after the other.
LEMMA ThreeInOne ==
    ASSUME NEW A, NEW a \in Seq(A), NEW B, NEW b \in Seq(B), NEW C,
           NEW c \in Seq(C),
           NEW all, all = a \o b \o c
    PROVE  /\ Len(a \o b) = Len(a) + Len(b)
           /\ DOMAIN all = 1..(Len(a) + Len(b) + Len(c))
           /\ \A i \in DOMAIN a : i \in DOMAIN all /\ i <= Len(a) /\ all[i] = a[i]
           /\ \A i \in DOMAIN all : i <= Len(a) => i \in DOMAIN a
           /\ \A i \in DOMAIN all : ~(i <= Len(a) + Len(b)) => all[i] \in C
<1> DEFINE X == A \cup B \cup C
<1>1. a \in Seq(X) /\ b \in Seq(X) /\ c \in Seq(X)
  OBVIOUS
<1>2. /\ a \o b \in Seq(X) /\ Len(a \o b) = Len(a) + Len(b)
      /\ \A i \in 1..(Len(a) + Len(b)) :
            (a \o b)[i] = IF i <= Len(a) THEN a[i] ELSE b[i - Len(a)]
  BY <1>1
<1>3. /\ all \in Seq(X) /\ Len(all) = Len(a) + Len(b) + Len(c)
      /\ \A i \in 1..(Len(a) + Len(b) + Len(c)) :
            all[i] = IF i <= Len(a) + Len(b) THEN (a \o b)[i]
                     ELSE c[i - (Len(a) + Len(b))]
  BY <1>1, <1>2
<1>4. /\ Len(a) \in Nat /\ Len(b) \in Nat /\ Len(c) \in Nat
      /\ DOMAIN a = 1..Len(a)
      /\ DOMAIN all = 1..(Len(a) + Len(b) + Len(c))
  BY <1>1, <1>3
<1>5. ASSUME NEW i \in DOMAIN a
      PROVE  i \in DOMAIN all /\ i <= Len(a) /\ all[i] = a[i]
  BY <1>2, <1>3, <1>4
<1>6. ASSUME NEW i \in DOMAIN all, i <= Len(a) PROVE i \in DOMAIN a
  BY <1>4, <1>6
<1>7. ASSUME NEW i \in DOMAIN all, ~(i <= Len(a) + Len(b)) PROVE all[i] \in C
  <2>1. all[i] = c[i - (Len(a) + Len(b))] /\ i - (Len(a) + Len(b)) \in 1..Len(c)
    BY <1>3, <1>4, <1>7
  <2>2. QED
    BY <2>1
<1>8. QED
  BY <1>2, <1>4, <1>5, <1>6, <1>7
\* Where the tools are.
LEMMA ToolsAre ==
    ASSUME Runtime!HostConstants
    PROVE  /\ Required \in Seq(Runtime!Tools) /\ Optional \in Seq(Runtime!Tools)
           /\ \A t \in Runtime!Tools :
                \E i \in DOMAIN (Required \o Optional) : (Required \o Optional)[i] = t
<1>1. /\ Runtime!ToSet(Required) = {Required[i] : i \in DOMAIN Required}
      /\ Runtime!ToSet(Optional) = {Optional[i] : i \in DOMAIN Optional}
      /\ DOMAIN Required = 1..Len(Required) /\ Len(Required) \in Nat
      /\ DOMAIN Optional = 1..Len(Optional) /\ Len(Optional) \in Nat
      /\ Required \in Seq({Required[i] : i \in DOMAIN Required})
      /\ Optional \in Seq({Optional[i] : i \in DOMAIN Optional})
  BY SequencesAre DEF Runtime!HostConstants
<1>2. /\ {Required[i] : i \in DOMAIN Required} \subseteq Runtime!Tools
      /\ {Optional[i] : i \in DOMAIN Optional} \subseteq Runtime!Tools
      /\ \A t \in Runtime!Tools : \/ \E i \in DOMAIN Required : Required[i] = t
                                  \/ \E i \in DOMAIN Optional : Optional[i] = t
  BY <1>1 DEF Runtime!Tools
<1>3. Required \in Seq(Runtime!Tools) /\ Optional \in Seq(Runtime!Tools)
  BY <1>1, <1>2
<1>4. ASSUME NEW i \in DOMAIN Required
      PROVE  /\ i \in DOMAIN (Required \o Optional)
             /\ (Required \o Optional)[i] = Required[i]
  BY <1>1, <1>3
<1>5. ASSUME NEW i \in DOMAIN Optional
      PROVE  /\ i + Len(Required) \in DOMAIN (Required \o Optional)
             /\ (Required \o Optional)[i + Len(Required)] = Optional[i]
  BY <1>1, <1>3
<1>6. QED
  BY <1>2, <1>3, <1>4, <1>5

\* What _capture_path returns is sound, for any tools, PATH and directories.
LEMMA CaptureIsSound ==
    ASSUME Runtime!HostConstants, NEW shell \in Shells,
           NEW d \in [Dirs -> SUBSET Runtime!Tools],
           NEW rt, rt = Runtime!Captured(shell, d)
    PROVE  rt.exes \in Exes /\ PathSound(rt.path, rt.exes, d)
<1> DEFINE tools == Required \o Optional
           homes == [i \in DOMAIN tools |-> rt.exes[tools[i]]]
           all == homes \o shell \o Fallback
           found == {i \in DOMAIN all :
                IF i <= Len(homes) THEN all[i] # Runtime!NotFound
                ELSE /\ all[i] \in Dirs
                     /\ i <= Len(homes \o shell) => all[i] \notin TempDirs}
           keep == {i \in found : \A j \in found : all[i] = all[j] => i <= j}
           F == {Fallback[i] : i \in DOMAIN Fallback}
           S == {shell[i] : i \in DOMAIN shell}
<1>1. /\ shell \in Seq(S) /\ Fallback \in Seq(F) /\ DOMAIN shell \subseteq Nat
      /\ Runtime!ToSet(Fallback) = F
      /\ Runtime!NotFound \notin Dirs
  <2>1. /\ Runtime!IsSequence(shell) /\ Runtime!IsSequence(Fallback)
        /\ Runtime!NotFound \notin Dirs
    BY DEF Runtime!HostConstants
  <2>2. shell \in Seq(S) /\ Len(shell) \in Nat /\ DOMAIN shell = 1..Len(shell)
    BY <2>1, SequencesAre
  <2>3. Fallback \in Seq(F) /\ Runtime!ToSet(Fallback) = F
    BY <2>1, SequencesAre
  <2>4. DOMAIN shell \subseteq Nat
    BY <2>2
  <2>5. QED
    BY <2>1, <2>2, <2>3, <2>4
<1>2. /\ rt.exes = [t \in Runtime!Tools |-> Runtime!Which(shell, d, t)]
      /\ rt.path = Runtime!CapturePath(rt.exes, shell)
  BY DEF Runtime!Captured
<1>3. \A t \in Runtime!Tools :
        /\ rt.exes[t] \in Dirs \cup {Runtime!NotFound}
        /\ rt.exes[t] # Runtime!NotFound => t \in d[rt.exes[t]]
  BY <1>1, <1>2, WhichFinds
<1>4. rt.exes \in Exes
  BY <1>2, <1>3 DEF Exes
<1>5. /\ tools \in Seq(Runtime!Tools)
      /\ \A t \in Runtime!Tools : \E i \in DOMAIN tools : tools[i] = t
  BY ToolsAre
<1>6. rt.path = Runtime!Select(all, keep)
  BY <1>2 DEF Runtime!CapturePath
<1> HIDE DEF tools
<1>7. /\ homes \in Seq(Dirs \cup {Runtime!NotFound}) /\ DOMAIN homes = DOMAIN tools
      /\ \A i \in DOMAIN homes : tools[i] \in Runtime!Tools /\ homes[i] = rt.exes[tools[i]]
  BY <1>3, <1>5
<1> HIDE DEF homes, S, F
<1>8. /\ Len(homes) \in Nat /\ Len(shell) \in Nat /\ Len(Fallback) \in Nat
      /\ Len(homes \o shell) = Len(homes) + Len(shell)
      /\ DOMAIN all = 1..(Len(homes) + Len(shell) + Len(Fallback))
      /\ \A i \in DOMAIN homes : i \in DOMAIN all /\ i <= Len(homes) /\ all[i] = homes[i]
      /\ \A i \in DOMAIN all : i <= Len(homes) => i \in DOMAIN homes
      /\ \A i \in DOMAIN all : ~(i <= Len(homes) + Len(shell)) => all[i] \in F
  BY <1>1, <1>7, ThreeInOne
<1> HIDE DEF all
<1> DEFINE n == Len(homes) + Len(shell) + Len(Fallback)
<1>9. n \in Nat /\ keep \in SUBSET (1..n)
  BY <1>8
<1>10. /\ DOMAIN rt.path \subseteq Nat
       /\ \A k \in DOMAIN rt.path : \E i \in keep : rt.path[k] = all[i]
       /\ \A i \in keep : \E k \in DOMAIN rt.path : rt.path[k] = all[i]
       /\ \A k, l \in DOMAIN rt.path : k # l =>
            \E i, j \in keep : i # j /\ rt.path[k] = all[i] /\ rt.path[l] = all[j]
  <2> DEFINE path == rt.path
  <2>1. path = Runtime!Select(all, keep)
    BY <1>6
  <2> HIDE DEF n, keep, path
  <2>2. Selection(path, all, keep)
    BY <1>9, <2>1, SelectIs
  <2>3. QED
    BY <2>2 DEF path, Selection
<1>11. ASSUME NEW i \in found
       PROVE  /\ all[i] \in Dirs
              /\ all[i] \in TempDirs =>
                    all[i] \in F \/ \E t \in Runtime!Tools : rt.exes[t] = all[i]
  <2>1. CASE i <= Len(homes)
    <3>1. i \in DOMAIN homes /\ all[i] = homes[i] /\ all[i] # Runtime!NotFound
      BY <1>8, <2>1
    <3>2. tools[i] \in Runtime!Tools /\ all[i] = rt.exes[tools[i]]
      BY <1>7, <3>1
    <3>3. QED
      BY <1>3, <3>1, <3>2
  <2>2. CASE ~(i <= Len(homes))
    BY <1>8, <2>2
  <2>3. QED
    BY <2>1, <2>2
<1>12. \A i \in found : i \in Nat
  BY <1>8
<1>13. \A i, j \in keep : all[i] = all[j] => i = j
  BY <1>12
<1>14. ASSUME NEW i \in found PROVE \E j \in keep : all[j] = all[i]
  <2> DEFINE T == {j \in found : all[j] = all[i]}
  <2>1. T \subseteq Nat /\ i \in T
    BY <1>12
  <2>2. PICK j \in T : \A x \in T : j <= x
    BY <2>1, SmallestOf
  <2>3. QED
    BY <2>2
<1>15. ASSUME NEW t \in Runtime!Tools, rt.exes[t] # Runtime!NotFound
       PROVE  Runtime!Which(rt.path, d, t) # Runtime!NotFound
  <2>1. PICK i \in DOMAIN tools : tools[i] = t
    BY <1>5
  <2>2. i \in DOMAIN all /\ i <= Len(homes) /\ all[i] = rt.exes[t]
    BY <1>7, <1>8, <2>1
  <2>3. i \in found
    BY <1>15, <2>2
  <2>4. PICK k \in DOMAIN rt.path : rt.path[k] = rt.exes[t]
    BY <1>10, <1>14, <2>2, <2>3
  <2>5. rt.path[k] \in Dirs /\ t \in d[rt.path[k]]
    BY <1>3, <1>15, <2>4
  <2>6. Runtime!Which(rt.path, d, t) \in Dirs
    BY <1>10, <2>5, WhichFinds
  <2>7. QED
    BY <1>1, <2>6
<1> HIDE DEF found
<1>16. \A k \in DOMAIN rt.path : \E i \in found : rt.path[k] = all[i]
  BY <1>10
<1> HIDE DEF keep
<1>17. \A x \in Runtime!ToSet(rt.path) : \E i \in found : x = all[i]
  BY <1>16 DEF Runtime!ToSet
<1>18. \A k, l \in DOMAIN rt.path : rt.path[k] = rt.path[l] => k = l
  BY <1>10, <1>13
<1>19. PathSound(rt.path, rt.exes, d)
  BY <1>1, <1>11, <1>15, <1>17, <1>18 DEF PathSound
<1>20. QED
  BY <1>4, <1>19
\* A step of one setup that captures nothing.
LEMMA SetupOnly ==
    ASSUME HostInv, NEW s \in Setups, NEW x \in SetupRec, SetupHolds(x),
           setup' = [setup EXCEPT ![s] = x],
           UNCHANGED <<disk, broken, load, made, moves>>,
           private' \in BOOLEAN, file' \in ManifestRec, safe' \in ManifestRec
    PROVE  HostInv'
<1>1. Runtime!Runtimes' = Runtime!Runtimes /\ Runtime!Places' = Runtime!Places
  BY DEF Runtime!Runtimes, Runtime!Places
<1>2. SetupRec' = SetupRec /\ LoadRec' = LoadRec /\ ManifestRec' = ManifestRec
  BY <1>1 DEF SetupRec, LoadRec, ManifestRec, Data
<1>3. HostTypes'
  BY <1>2 DEF HostInv, HostTypes
<1>4. ASSUME NEW u \in Setups PROVE SetupHolds(setup[u])'
  <2>1. setup'[u] = x \/ setup'[u] = setup[u]
    BY DEF HostInv, HostTypes
  <2>2. QED
    BY <1>1, <2>1 DEF HostInv, SetupHolds
<1>5. ASSUME NEW r \in Loads PROVE LoadHolds(load[r])'
  BY <1>1 DEF HostInv, LoadHolds
<1>6. CapturesAreSound'
  BY DEF HostInv, CapturesAreSound
<1>7. QED
  BY <1>3, <1>4, <1>5, <1>6 DEF HostInv

\* A step of one load.
LEMMA LoadOnly ==
    ASSUME HostInv, NEW r \in Loads, NEW x \in LoadRec, LoadHolds(x),
           load' = [load EXCEPT ![r] = x],
           UNCHANGED <<disk, broken, private, file, safe, setup, made, moves>>
    PROVE  HostInv'
<1>1. Runtime!Runtimes' = Runtime!Runtimes /\ Runtime!Places' = Runtime!Places
  BY DEF Runtime!Runtimes, Runtime!Places
<1>2. SetupRec' = SetupRec /\ LoadRec' = LoadRec /\ ManifestRec' = ManifestRec
  BY <1>1 DEF SetupRec, LoadRec, ManifestRec, Data
<1>3. HostTypes'
  BY <1>2 DEF HostInv, HostTypes
<1>4. ASSUME NEW u \in Loads PROVE LoadHolds(load[u])'
  <2>1. load'[u] = x \/ load'[u] = load[u]
    BY DEF HostInv, HostTypes
  <2>2. QED
    BY <1>1, <2>1 DEF HostInv, LoadHolds
<1>5. ASSUME NEW s \in Setups PROVE SetupHolds(setup[s])'
  BY <1>1 DEF HostInv, SetupHolds
<1>6. CapturesAreSound'
  BY DEF HostInv, CapturesAreSound
<1>7. QED
  BY <1>3, <1>4, <1>5, <1>6 DEF HostInv

\* The manifest changes by the rename of a setup that has filled its file, or
\* back to the durable one when every setup has ended.
ByRename == file' # file =>
    \/ \E s \in Setups : /\ setup[s].pc = "filled"
                         /\ setup'[s].pc = "replaced"
                         /\ file'.data = setup[s].rt
    \/ file' = safe /\ \A s \in Setups : setup'[s].pc \in Runtime!Ended

\* The places of a setup.
LEMMA SetupSteps ==
    ASSUME HostInv, NEW s \in Setups,
           \/ \E shell \in Shells : Runtime!CaptureFails(s, shell)
           \/ Runtime!ProbesPass(s) \/ Runtime!ProbesFail(s) \/ Runtime!MakeTemp(s)
           \/ Runtime!FillTemp(s) \/ Runtime!FinishSetup(s) \/ Runtime!WriteFails(s)
           \/ Runtime!Kill(s)
    PROVE  HostInv' /\ file' = file
<1>1. setup[s] \in SetupRec /\ SetupHolds(setup[s]) /\ setup \in [Setups -> SetupRec]
  BY DEF HostInv, HostTypes
<1>2. \E x \in SetupRec : SetupHolds(x) /\ setup' = [setup EXCEPT ![s] = x]
  <2> USE DEF SetupRec, SetupHolds, Data
  <2>1. ASSUME NEW to \in {"failed", "killed", "done", "probed"},
               setup' = [setup EXCEPT ![s].pc = to],
               to # "killed" => setup[s].temp = Runtime!NoData,
               to = "probed" => setup[s].pc = "captured"
        PROVE  \E x \in SetupRec : SetupHolds(x) /\ setup' = [setup EXCEPT ![s] = x]
    <3> DEFINE x == [setup[s] EXCEPT !.pc = to]
    <3>1. setup' = [setup EXCEPT ![s] = x]
      BY <1>1, <2>1
    <3>2. x \in SetupRec /\ SetupHolds(x)
      BY <1>1, <2>1 DEF SetupPlaces, Runtime!Ended
    <3>3. QED
      BY <3>1, <3>2
  <2>2. CASE \E shell \in Shells : Runtime!CaptureFails(s, shell)
    BY <1>1, <2>1, <2>2 DEF Runtime!CaptureFails, Runtime!SetupAt
  <2>3. CASE Runtime!ProbesPass(s) \/ Runtime!ProbesFail(s) \/ Runtime!FinishSetup(s)
    BY <1>1, <2>1, <2>3 DEF Runtime!ProbesPass, Runtime!ProbesFail,
                            Runtime!FinishSetup, Runtime!SetupAt
  <2>4. CASE Runtime!Kill(s)
    BY <1>1, <2>1, <2>4 DEF Runtime!Kill
  <2>5. CASE Runtime!MakeTemp(s)
    <3> DEFINE x == [setup[s] EXCEPT !.pc = "temp", !.temp = Runtime!Torn]
    <3>1. setup' = [setup EXCEPT ![s] = x] /\ setup[s].pc = "probed"
      BY <1>1, <2>5 DEF Runtime!MakeTemp
    <3>2. x \in SetupRec /\ SetupHolds(x)
      BY <1>1, <3>1 DEF SetupPlaces
    <3>3. QED
      BY <3>1, <3>2
  <2>6. CASE Runtime!FillTemp(s)
    <3> DEFINE x == [setup[s] EXCEPT !.pc = "filled", !.temp = setup[s].rt]
    <3>1. setup' = [setup EXCEPT ![s] = x] /\ setup[s].pc = "temp"
      BY <1>1, <2>6 DEF Runtime!FillTemp
    <3>2. x \in SetupRec /\ SetupHolds(x)
      BY <1>1, <3>1 DEF SetupPlaces
    <3>3. QED
      BY <3>1, <3>2
  <2>7. CASE Runtime!WriteFails(s)
    <3> DEFINE x == [setup[s] EXCEPT !.pc = "failed", !.temp = Runtime!NoData]
    <3>1. setup' = [setup EXCEPT ![s] = x]
      BY <1>1, <2>7 DEF Runtime!WriteFails
    <3>2. x \in SetupRec /\ SetupHolds(x)
      BY <1>1, <3>1 DEF SetupPlaces, Runtime!Ended
    <3>3. QED
      BY <3>1, <3>2
  <2>8. QED
    BY <2>2, <2>3, <2>4, <2>5, <2>6, <2>7
<1>3. /\ UNCHANGED <<disk, broken, file, load, made, moves>>
      /\ private' \in BOOLEAN /\ safe' \in {safe, file}
  BY DEF Runtime!CaptureFails, Runtime!ProbesPass, Runtime!ProbesFail,
     Runtime!MakeTemp,
         Runtime!FillTemp, Runtime!FinishSetup, Runtime!WriteFails, Runtime!Kill,
         HostInv, HostTypes
<1>4. file' \in ManifestRec /\ safe' \in ManifestRec
  BY <1>3 DEF HostInv, HostTypes
<1>5. QED
  BY <1>2, <1>3, <1>4, SetupOnly

\* The rename.
LEMMA ReplaceStep ==
    ASSUME HostInv, NEW s \in Setups, Runtime!Replace(s)
    PROVE  HostInv' /\ ByRename
<1>1. setup[s] \in SetupRec /\ SetupHolds(setup[s]) /\ setup \in [Setups -> SetupRec]
  BY DEF HostInv, HostTypes
<1> DEFINE x == [setup[s] EXCEPT !.pc = "replaced", !.temp = Runtime!NoData]
<1>2. setup[s].pc = "filled" /\ setup' = [setup EXCEPT ![s] = x]
  BY <1>1 DEF Runtime!Replace, SetupRec
<1>3. x \in SetupRec /\ SetupHolds(x) /\ x.pc = "replaced"
  BY <1>1, <1>2 DEF SetupRec, SetupHolds, SetupPlaces, Data
<1>4. setup[s].temp = setup[s].rt /\ setup[s].rt \in Data
  BY <1>1, <1>2 DEF SetupHolds, Data
<1>5. /\ file' = [data |-> setup[s].temp, synced |-> TRUE]
      /\ UNCHANGED <<disk, broken, private, safe, load, made, moves>>
  BY DEF Runtime!Replace, Runtime!Synced
<1> HIDE DEF x
<1>6. file' \in ManifestRec /\ file'.data = setup[s].rt
  BY <1>4, <1>5 DEF ManifestRec
<1>7. private' \in BOOLEAN /\ safe' \in ManifestRec
  BY <1>5 DEF HostInv, HostTypes
<1>8. HostInv'
  BY <1>2, <1>3, <1>5, <1>6, <1>7, SetupOnly
<1>9. setup'[s].pc = "replaced"
  BY <1>1, <1>2, <1>3
<1>10. QED
  BY <1>2, <1>6, <1>8, <1>9 DEF ByRename
\* A capture adds a runtime; the others stay.
LEMMA CaptureStep ==
    ASSUME Runtime!HostConstants, HostInv, NEW s \in Setups,
           NEW shell \in Shells,
           Runtime!Capture(s, shell)
    PROVE  HostInv' /\ file' = file
<1> DEFINE rt == Runtime!Captured(shell, disk)
           c == [rt |-> rt, shell |-> shell, disk |-> disk]
           x == [setup[s] EXCEPT !.pc = "captured", !.rt = rt]
<1>1. setup[s] \in SetupRec /\ SetupHolds(setup[s]) /\ setup \in [Setups -> SetupRec]
  BY DEF HostInv, HostTypes
<1>2. /\ setup[s].pc = "idle" /\ setup' = [setup EXCEPT ![s] = x]
      /\ made' = made \cup {c}
      /\ UNCHANGED <<disk, broken, private, file, safe, load, moves>>
  BY <1>1 DEF Runtime!Capture, SetupRec
<1>3. rt.exes \in Exes /\ PathSound(rt.path, rt.exes, disk)
  BY CaptureIsSound DEF HostInv, HostTypes
<1>4. c.rt = rt /\ c.disk = disk
  OBVIOUS
<1> HIDE DEF rt, c
<1>5. /\ Runtime!Runtimes \subseteq Runtime!Runtimes'
      /\ rt \in Runtime!Runtimes'
      /\ Runtime!Places' = Runtime!Places
  BY <1>2, <1>4 DEF Runtime!Runtimes, Runtime!Places
<1>6. CapturesAreSound'
  <2>1. ASSUME NEW k \in made'
        PROVE  k.rt.exes \in Exes /\ PathSound(k.rt.path, k.rt.exes, k.disk)
    BY <1>2, <1>3, <1>4, <2>1 DEF HostInv, CapturesAreSound
  <2>2. QED
    BY <2>1 DEF CapturesAreSound, PathSound
<1>7. /\ SetupRec \subseteq SetupRec' /\ LoadRec \subseteq LoadRec'
      /\ ManifestRec \subseteq ManifestRec'
  BY <1>5 DEF SetupRec, LoadRec, ManifestRec, Data
<1>8. /\ x \in SetupRec' /\ x.pc = "captured" /\ x.rt = rt
      /\ x.temp = Runtime!NoData
  <2>1. setup[s].temp = Runtime!NoData
    BY <1>1, <1>2 DEF SetupHolds
  <2>2. rt \in Data'
    BY <1>5 DEF Data
  <2>3. setup[s] \in SetupRec'
    BY <1>1, <1>7
  <2>4. "captured" \in SetupPlaces
    BY DEF SetupPlaces
  <2>5. QED
    BY <2>1, <2>2, <2>3, <2>4 DEF SetupRec
<1> HIDE DEF x
<1>9. HostTypes'
  BY <1>2, <1>7, <1>8 DEF HostInv, HostTypes
<1>10. ASSUME NEW u \in Setups PROVE SetupHolds(setup[u])'
  <2>1. setup'[u] = x \/ setup'[u] = setup[u]
    BY <1>1, <1>2
  <2>2. CASE setup'[u] = x
    BY <1>5, <1>8, <2>2 DEF SetupHolds
  <2>3. CASE setup'[u] = setup[u]
    BY <1>5, <2>3 DEF HostInv, SetupHolds
  <2>4. QED
    BY <2>1, <2>2, <2>3
<1>11. ASSUME NEW r \in Loads PROVE LoadHolds(load[r])'
  BY <1>2, <1>5 DEF HostInv, LoadHolds
<1>12. QED
  BY <1>2, <1>6, <1>9, <1>10, <1>11 DEF HostInv

\* A loss of power: the setups are killed and the loads with them; what was
\* renamed had been synced.
LEMMA PowerStep ==
    ASSUME HostInv, Runtime!PowerLoss
    PROVE  HostInv' /\ ByRename
<1>1. Runtime!Runtimes' = Runtime!Runtimes /\ Runtime!Places' = Runtime!Places
  BY DEF Runtime!Runtimes, Runtime!Places, Runtime!PowerLoss
<1>2. SetupRec' = SetupRec /\ LoadRec' = LoadRec /\ ManifestRec' = ManifestRec
  BY <1>1 DEF SetupRec, LoadRec, ManifestRec, Data
<1>3. file.synced = TRUE
  BY DEF HostInv, HostTypes, ManifestRec
<1>4. /\ file' \in {safe, file} /\ safe' = file'
      /\ UNCHANGED <<disk, broken, private, made, moves>>
      /\ load' = [r \in Loads |-> Runtime!NoLoad]
      /\ setup' = [s \in Setups |-> IF setup[s].pc \in Runtime!Ended THEN setup[s]
                                    ELSE [setup[s] EXCEPT !.pc = "killed"]]
  BY <1>3 DEF Runtime!PowerLoss
<1>5. ASSUME NEW u \in Setups
      PROVE  /\ setup'[u] \in SetupRec /\ SetupHolds(setup[u])'
             /\ setup'[u].pc \in Runtime!Ended
  <2>1. setup[u] \in SetupRec /\ SetupHolds(setup[u])
    BY DEF HostInv, HostTypes
  <2>2. CASE setup[u].pc \in Runtime!Ended
    BY <1>1, <1>4, <2>1, <2>2 DEF SetupHolds
  <2>3. CASE setup[u].pc \notin Runtime!Ended
    <3>1. setup'[u] = [setup[u] EXCEPT !.pc = "killed"]
      BY <1>4, <2>3
    <3>2. setup'[u] \in SetupRec /\ setup'[u].pc = "killed"
      BY <2>1, <3>1 DEF SetupRec, SetupPlaces, Runtime!Ended
    <3>3. SetupHolds(setup[u])'
      BY <3>2 DEF SetupHolds
    <3>4. QED
      BY <2>3, <3>2, <3>3 DEF Runtime!Ended
  <2>4. QED
    BY <2>2, <2>3
<1>6. Runtime!NoLoad \in LoadRec /\ Runtime!NoLoad.pc = "idle"
  BY DEF Runtime!NoLoad, LoadRec, LoadPlaces, Data
<1>7. ASSUME NEW r \in Loads PROVE LoadHolds(load[r])'
  BY <1>4, <1>6 DEF LoadHolds
<1>8. setup' \in [Setups -> SetupRec] /\ load' \in [Loads -> LoadRec]
  BY <1>4, <1>5, <1>6
<1>9. HostTypes'
  BY <1>2, <1>4, <1>8 DEF HostInv, HostTypes
<1>10. CapturesAreSound'
  BY <1>4 DEF HostInv, CapturesAreSound
<1>11. ByRename
  BY <1>4, <1>5 DEF ByRename
<1>12. QED
  BY <1>5, <1>7, <1>9, <1>10, <1>11 DEF HostInv

\* The places of a load.
LEMMA LoadSteps ==
    ASSUME HostInv, NEW r \in Loads,
           \/ Runtime!ReadManifest(r) \/ Runtime!Validate(r) \/ Runtime!DoctorOk(r)
           \/ Runtime!DoctorFails(r) \/ Runtime!LoadAgain(r)
    PROVE  HostInv' /\ file' = file
<1>1. load[r] \in LoadRec /\ LoadHolds(load[r]) /\ load \in [Loads -> LoadRec]
  BY DEF HostInv, HostTypes
<1>2. UNCHANGED <<disk, broken, private, file, safe, setup, made, moves>>
  BY DEF Runtime!ReadManifest, Runtime!Validate, Runtime!DoctorOk,
         Runtime!DoctorFails, Runtime!LoadAgain
<1>3. file.data \in Data
  BY DEF HostInv, HostTypes, ManifestRec
<1>4. Runtime!NoLoad \in LoadRec /\ Runtime!NoLoad.pc = "idle"
  BY DEF Runtime!NoLoad, LoadRec, LoadPlaces, Data
<1>5. Runtime!Places \in SUBSET (Dirs \X Runtime!Tools)
  BY DEF Runtime!Places
<1>6. \E x \in LoadRec : LoadHolds(x) /\ load' = [load EXCEPT ![r] = x]
  <2>1. CASE Runtime!ReadManifest(r)
    <3>1. CASE file.data = Runtime!NoData
      <4> DEFINE x == [Runtime!NoLoad EXCEPT !.pc = "absent"]
      <4>1. load' = [load EXCEPT ![r] = x]
        BY <2>1, <3>1 DEF Runtime!ReadManifest
      <4>2. x \in LoadRec /\ LoadHolds(x)
        BY <1>4 DEF LoadRec, LoadHolds, LoadPlaces
      <4>3. QED
        BY <4>1, <4>2
    <3>2. CASE file.data # Runtime!NoData /\ ~private
      <4> DEFINE x == [Runtime!NoLoad EXCEPT !.pc = "error"]
      <4>1. load' = [load EXCEPT ![r] = x]
        BY <2>1, <3>2 DEF Runtime!ReadManifest
      <4>2. x \in LoadRec /\ LoadHolds(x)
        BY <1>4 DEF LoadRec, LoadHolds, LoadPlaces
      <4>3. QED
        BY <4>1, <4>2
    <3>3. CASE file.data # Runtime!NoData /\ private
      <4> DEFINE x == [pc |-> "read", rt |-> file.data, held |-> Runtime!Places]
      <4>1. load' = [load EXCEPT ![r] = x]
        BY <2>1, <3>3 DEF Runtime!ReadManifest
      <4>2. x \in LoadRec /\ LoadHolds(x)
        BY <1>3, <1>5, <3>3 DEF LoadRec, LoadHolds, LoadPlaces, Data
      <4>3. QED
        BY <4>1, <4>2
    <3>4. QED
      BY <3>1, <3>2, <3>3 DEF HostInv, HostTypes
  <2>2. ASSUME NEW to \in {"error", "unhealthy"}, load' = [load EXCEPT ![r].pc = to]
        PROVE  \E x \in LoadRec : LoadHolds(x) /\ load' = [load EXCEPT ![r] = x]
    <3> DEFINE x == [load[r] EXCEPT !.pc = to]
    <3>1. load' = [load EXCEPT ![r] = x]
      BY <1>1, <2>2
    <3>2. x \in LoadRec /\ LoadHolds(x)
      BY <1>1 DEF LoadRec, LoadHolds, LoadPlaces
    <3>3. QED
      BY <3>1, <3>2
  <2>3. CASE Runtime!Validate(r)
    <3>1. CASE load' = [load EXCEPT ![r].pc = "error"]
      BY <2>2, <3>1
    <3>2. CASE load' # [load EXCEPT ![r].pc = "error"]
      <4> DEFINE x == [load[r] EXCEPT !.pc = "loaded"]
      <4>1. /\ load[r].pc = "read" /\ load' = [load EXCEPT ![r].pc = "loaded"]
            /\ Runtime!ValidPayload(load[r].rt)
            /\ ~(load[r].rt # Runtime!Torn /\ ~Runtime!OnDisk(load[r].rt))
        BY <2>3, <3>2 DEF Runtime!Validate, Runtime!EndLoad
      <4>2. Runtime!OnDisk(load[r].rt)
        BY <4>1 DEF Runtime!ValidPayload
      <4>3. load[r].rt.exes \in Exes /\ Runtime!Places \subseteq load[r].held
        <5>1. load[r].rt \in Runtime!Runtimes /\ Runtime!Places \subseteq load[r].held
          BY <1>1, <4>1 DEF LoadHolds
        <5>2. QED
          BY <5>1 DEF Runtime!Runtimes, HostInv, CapturesAreSound
      <4>4. ASSUME NEW t \in Runtime!Tools, load[r].rt.exes[t] # Runtime!NotFound
            PROVE  <<load[r].rt.exes[t], t>> \in load[r].held
        <5>1. load[r].rt.exes[t] \in Dirs /\ t \in disk[load[r].rt.exes[t]]
          BY <4>2, <4>3, <4>4 DEF Runtime!OnDisk, Exes
        <5>2. <<load[r].rt.exes[t], t>> \in Runtime!Places
          BY <5>1 DEF Runtime!Places
        <5>3. QED
          BY <4>3, <5>2
      <4>5. load' = [load EXCEPT ![r] = x]
        BY <1>1, <4>1
      <4>6. x \in LoadRec /\ x.rt = load[r].rt /\ x.held = load[r].held /\ x.pc = "loaded"
        BY <1>1 DEF LoadRec, LoadPlaces
      <4>7. LoadHolds(x)
        BY <4>4, <4>6 DEF LoadHolds
      <4>8. QED
        BY <4>5, <4>6, <4>7
    <3>3. QED
      BY <3>1, <3>2
  <2>4. CASE Runtime!DoctorOk(r)
    <3> DEFINE x == [load[r] EXCEPT !.pc = "healthy"]
    <3>1. load' = [load EXCEPT ![r] = x] /\ load[r].pc = "loaded"
      BY <1>1, <2>4 DEF Runtime!DoctorOk, Runtime!EndLoad
    <3>2. x \in LoadRec /\ LoadHolds(x)
      BY <1>1, <3>1 DEF LoadRec, LoadHolds, LoadPlaces
    <3>3. QED
      BY <3>1, <3>2
  <2>5. CASE Runtime!DoctorFails(r)
    BY <2>2, <2>5 DEF Runtime!DoctorFails, Runtime!EndLoad
  <2>6. CASE Runtime!LoadAgain(r)
    BY <1>4, <2>6 DEF Runtime!LoadAgain, LoadHolds
  <2>7. QED
    BY <2>1, <2>3, <2>4, <2>5, <2>6
<1>7. QED
  BY <1>2, <1>6, LoadOnly
\* Tools come and go: a load that is checking has also seen what comes.
LEMMA UserSteps ==
    ASSUME Runtime!HostConstants, HostInv, NEW d, NEW t \in Runtime!Tools,
           \/ d \in Dirs /\ (Runtime!Install(d, t) \/ Runtime!Uninstall(d, t))
           \/ Runtime!Break(t)
    PROVE  HostInv' /\ file' = file
<1>1. /\ UNCHANGED <<private, file, safe, setup, made>>
      /\ moves < MaxMoves /\ moves' = moves + 1
  BY DEF Runtime!Install, Runtime!Uninstall, Runtime!Moved, Runtime!Break
<1>2. Runtime!Runtimes' = Runtime!Runtimes
  BY <1>1 DEF Runtime!Runtimes
<1>3. SetupRec' = SetupRec /\ LoadRec' = LoadRec /\ ManifestRec' = ManifestRec
  BY <1>2 DEF SetupRec, LoadRec, ManifestRec, Data
<1>4. moves' \in 0..MaxMoves
  BY <1>1 DEF HostInv, HostTypes, Runtime!HostConstants
<1>5. CapturesAreSound' /\ \A s \in Setups : SetupHolds(setup[s])'
  BY <1>1, <1>2 DEF HostInv, CapturesAreSound, SetupHolds
<1>6. CASE Runtime!Break(t)
  <2>1. UNCHANGED <<disk, load>> /\ broken' = broken \cup {t}
    BY <1>6 DEF Runtime!Break
  <2>2. HostTypes'
    BY <1>1, <1>3, <1>4, <2>1 DEF HostInv, HostTypes
  <2>3. \A r \in Loads : LoadHolds(load[r])'
    BY <1>2, <2>1 DEF HostInv, LoadHolds, Runtime!Places
  <2>4. QED
    BY <1>1, <1>5, <2>2, <2>3 DEF HostInv
<1>7. ASSUME d \in Dirs, NEW there \in BOOLEAN, Runtime!Moved(d, t, there)
      PROVE  HostInv'
  <2>1. /\ disk' = [disk EXCEPT ![d] = IF there THEN disk[d] \cup {t} ELSE disk[d] \ {t}]
        /\ broken' = broken
        /\ load' = [r \in Loads |->
                IF there /\ load[r].pc = "read"
                  THEN [load[r] EXCEPT !.held = load[r].held \cup {<<d, t>>}]
                  ELSE load[r]]
    BY <1>7 DEF Runtime!Moved
  <2>2. disk \in [Dirs -> SUBSET Runtime!Tools]
    BY DEF HostInv, HostTypes
  <2>3. disk' \in [Dirs -> SUBSET Runtime!Tools]
    BY <1>7, <2>1, <2>2
  <2>4. \A p \in Runtime!Places' : p \in Runtime!Places \/ (there /\ p = <<d, t>>)
    <3>1. \A e \in Dirs, u \in Runtime!Tools :
            u \in disk'[e] => u \in disk[e] \/ (there /\ e = d /\ u = t)
      BY <2>1, <2>2
    <3>2. QED
      BY <3>1 DEF Runtime!Places
  <2>5. ASSUME NEW r \in Loads
        PROVE  load'[r] \in LoadRec /\ LoadHolds(load[r])'
    <3>1. load[r] \in LoadRec /\ LoadHolds(load[r])
      BY DEF HostInv, HostTypes
    <3>2. CASE there /\ load[r].pc = "read"
      <4>1. load'[r] = [load[r] EXCEPT !.held = load[r].held \cup {<<d, t>>}]
        BY <2>1, <3>2
      <4>2. /\ load'[r] \in LoadRec /\ load'[r].pc = "read" /\ load'[r].rt = load[r].rt
            /\ load'[r].held = load[r].held \cup {<<d, t>>}
        BY <1>7, <3>1, <3>2, <4>1 DEF LoadRec
      <4>3. Runtime!Places' \subseteq load'[r].held
        BY <2>4, <3>1, <3>2, <4>2 DEF LoadHolds
      <4>4. QED
        BY <1>2, <3>1, <3>2, <4>2, <4>3 DEF LoadHolds
    <3>3. CASE ~(there /\ load[r].pc = "read")
      <4>1. load'[r] = load[r]
        BY <2>1, <3>3
      <4>2. load[r].pc = "read" => Runtime!Places' \subseteq Runtime!Places
        BY <2>4, <3>3
      <4>3. QED
        BY <1>2, <3>1, <4>1, <4>2 DEF LoadHolds
    <3>4. QED
      BY <3>2, <3>3
  <2>6. load' \in [Loads -> LoadRec]
    BY <2>1, <2>5
  <2>7. HostTypes'
    BY <1>1, <1>3, <1>4, <2>1, <2>3, <2>6 DEF HostInv, HostTypes
  <2>8. QED
    BY <1>5, <2>5, <2>7 DEF HostInv
<1>8. QED
  BY <1>1, <1>6, <1>7 DEF Runtime!Install, Runtime!Uninstall

\* Every step of a setup, a load or the machine keeps the invariant.
LEMMA HostStep ==
    ASSUME Runtime!HostConstants, HostInv, [Runtime!Next]_(Runtime!vars)
    PROVE  HostInv' /\ ByRename
<1>1. ASSUME file' = file PROVE ByRename
  BY <1>1 DEF ByRename
<1>2. ASSUME NEW s \in Setups, NEW shell \in Shells,
             Runtime!Capture(s, shell) \/ Runtime!CaptureFails(s, shell)
      PROVE  HostInv' /\ ByRename
  BY <1>1, <1>2, CaptureStep, SetupSteps
<1>3. ASSUME NEW s \in Setups,
             \/ Runtime!ProbesPass(s) \/ Runtime!ProbesFail(s) \/ Runtime!MakeTemp(s)
             \/ Runtime!FillTemp(s) \/ Runtime!Replace(s) \/ Runtime!FinishSetup(s)
             \/ Runtime!WriteFails(s) \/ Runtime!Kill(s)
      PROVE  HostInv' /\ ByRename
  BY <1>1, <1>3, SetupSteps, ReplaceStep
<1>4. CASE Runtime!PowerLoss
  BY <1>4, PowerStep
<1>5. ASSUME UNCHANGED <<disk, broken, private, file, setup, load, made, moves>>,
             safe' \in {safe, file}
      PROVE  HostInv' /\ ByRename
  <2>1. Runtime!Runtimes' = Runtime!Runtimes /\ Runtime!Places' = Runtime!Places
    BY <1>5 DEF Runtime!Runtimes, Runtime!Places
  <2>2. SetupRec' = SetupRec /\ LoadRec' = LoadRec /\ ManifestRec' = ManifestRec
    BY <2>1 DEF SetupRec, LoadRec, ManifestRec, Data
  <2>3. HostTypes'
    BY <1>5, <2>2 DEF HostInv, HostTypes
  <2>4. /\ CapturesAreSound'
        /\ \A s \in Setups : SetupHolds(setup[s])'
        /\ \A r \in Loads : LoadHolds(load[r])'
    BY <1>5, <2>1 DEF HostInv, CapturesAreSound, SetupHolds, LoadHolds
  <2>5. QED
    BY <1>1, <1>5, <2>3, <2>4 DEF HostInv
<1>6. CASE Runtime!RenameDurable \/ UNCHANGED Runtime!vars
  BY <1>5, <1>6 DEF Runtime!RenameDurable, Runtime!vars
<1>7. ASSUME NEW r \in Loads,
             \/ Runtime!ReadManifest(r) \/ Runtime!Validate(r) \/ Runtime!DoctorOk(r)
             \/ Runtime!DoctorFails(r) \/ Runtime!LoadAgain(r)
      PROVE  HostInv' /\ ByRename
  BY <1>1, <1>7, LoadSteps
<1>8. ASSUME NEW d \in Dirs, NEW t \in Runtime!Tools,
             Runtime!Install(d, t) \/ Runtime!Uninstall(d, t)
      PROVE  HostInv' /\ ByRename
  BY <1>1, <1>8, UserSteps
<1>9. ASSUME NEW t \in Runtime!Tools, Runtime!Break(t)
      PROVE  HostInv' /\ ByRename
  BY <1>1, <1>9, UserSteps
<1>10. QED
  BY <1>2, <1>3, <1>4, <1>6, <1>7, <1>8, <1>9 DEF Runtime!Next

\* The invariant of the manifest holds at the start.
LEMMA HostStarts ==
    ASSUME Runtime!HostConstants, Runtime!Init
    PROVE  HostInv
<1>1. Runtime!NoFile \in ManifestRec
  BY DEF Runtime!NoFile, ManifestRec, Data
<1>2. /\ Runtime!NoSetup \in SetupRec /\ SetupHolds(Runtime!NoSetup)
      /\ Runtime!NoLoad \in LoadRec /\ LoadHolds(Runtime!NoLoad)
  BY DEF Runtime!NoSetup, Runtime!NoLoad, SetupRec, LoadRec, SetupHolds,
     LoadHolds,
         SetupPlaces, LoadPlaces, Runtime!Ended, Data
<1>3. HostTypes
  BY <1>1, <1>2 DEF Runtime!Init, HostTypes, Runtime!HostConstants
<1>4. CapturesAreSound
  BY DEF Runtime!Init, CapturesAreSound
<1>5. QED
  BY <1>2, <1>3, <1>4 DEF HostInv, Runtime!Init

\* What the run checks follows from the invariant.
LEMMA HostInvSays ==
    ASSUME HostInv
    PROVE  Runtime!ManifestConsistent
<1>1. Runtime!TypeOK
  BY DEF HostInv, HostTypes, SetupRec, LoadRec, SetupPlaces, LoadPlaces, Data,
     Runtime!TypeOK
<1>2. Runtime!ManifestIsWhole
  BY DEF HostInv, HostTypes, ManifestRec, Data, Runtime!ManifestIsWhole
<1>3. Runtime!NoTempLeft
  BY DEF HostInv, SetupHolds, Runtime!NoTempLeft
<1>4. Runtime!LoadedWasThere
  BY DEF HostInv, LoadHolds, Runtime!LoadedWasThere
<1>5. Runtime!PathIsSound
  BY DEF HostInv, CapturesAreSound, PathSound, Runtime!PathIsSound
<1>6. QED
  BY <1>1, <1>2, <1>3, <1>4, <1>5 DEF Runtime!ManifestConsistent

\* For any number of concurrent setups and loads, any directories, tools and
\* values of PATH, and whatever is killed, lost or moved: a reader finds whole
\* manifests only, a load returns tools that it has seen on disk, and every
\* captured path is sound (write_host_runtime, load_host_runtime, _capture_path).
THEOREM ManifestIsConsistent == Runtime!Spec => []Runtime!ManifestConsistent
<1>1. Runtime!Init => HostInv
  BY HostStarts, ManifestAssumption
<1>2. HostInv /\ [Runtime!Next]_(Runtime!vars) => HostInv'
  BY HostStep, ManifestAssumption
<1>3. HostInv => Runtime!ManifestConsistent
  BY HostInvSays
<1>4. QED
  BY <1>1, <1>2, <1>3, PTL DEF Runtime!Spec

\* A setup that fails or is killed before its rename leaves the manifest as it
\* was: "Required failures prevent the write" (write_host_runtime).
THEOREM ManifestChangesByRename == Runtime!Spec => Runtime!FailedSetupKeepsManifest
<1>1. Runtime!Init => HostInv
  BY HostStarts, ManifestAssumption
<1>2. HostInv /\ [Runtime!Next]_(Runtime!vars) => HostInv'
  BY HostStep, ManifestAssumption
<1>3. HostInv /\ [Runtime!Next]_(Runtime!vars) => [ByRename]_(Runtime!vars)
  BY HostStep, ManifestAssumption
<1>4. QED
  BY <1>1, <1>2, <1>3, PTL DEF Runtime!Spec, Runtime!FailedSetupKeepsManifest,
     ByRename

-----------------------------------------------------------------------------
(* The database.  The lists of columns.                                    *)

\* What is said of a list of columns.
Listed(s, n) ==
    /\ s \in Seq({s[i] : i \in DOMAIN s})
    /\ Len(s) = n /\ DOMAIN s = 1..n
    /\ \A i \in 1..n : s[i] # "zerotier_ip"

\* The columns of the tables.
LEMMA ListedColumns ==
    /\ Listed(Added["workers"], 7)
    /\ Added["workers"][3] = "worker_ip"
    /\ \A i \in 1..7 : Added["workers"][i] = "worker_ip" => i = 3
    /\ Listed(Added["jobs"], 9)
    /\ Listed(Added["pi_sessions"], 14)
    /\ Listed(Added["pi_session_events"], 1)
    /\ Listed(Added["pi_session_commands"], 1)
<1>1. ASSUME NEW s, s = <<"gpu_used_vram_gb", "gpu_busy", "worker_ip", "dns_name",
                          "ssh_user", "harness_dir", "data_paths">>
      PROVE  /\ Listed(s, 7) /\ s[3] = "worker_ip"
             /\ \A i \in 1..7 : s[i] = "worker_ip" => i = 3
  <2>1. s \in Seq({s[i] : i \in DOMAIN s})
    BY <1>1
  <2>2. Len(s) = 7 /\ DOMAIN s = 1..7
    BY <1>1
  <2>3. \A i \in 1..7 : s[i] # "zerotier_ip" /\ (s[i] = "worker_ip" => i = 3)
    BY <1>1
  <2>4. QED
    BY <1>1, <2>1, <2>2, <2>3 DEF Listed
<1>2. ASSUME NEW s, s = <<"kind", "origin_session_id", "report_revision", "name",
                          "queue_managed", "expected_seconds", "gpu_count",
                          "gpu_indices", "queue_order">>
      PROVE  Listed(s, 9)
  <2>1. s \in Seq({s[i] : i \in DOMAIN s})
    BY <1>2
  <2>2. Len(s) = 9 /\ DOMAIN s = 1..9
    BY <1>2
  <2>3. \A i \in 1..9 : s[i] # "zerotier_ip"
    BY <1>2
  <2>4. QED
    BY <2>1, <2>2, <2>3 DEF Listed
<1>3. ASSUME NEW s, s = <<"name", "host", "agent", "bridge_incarnation",
                          "terminal_attachable", "terminal_host", "terminal_port",
                          "terminal_protocol_version", "has_pending_messages",
                          "last_seen", "role", "token_hash", "question", "meta">>
      PROVE  Listed(s, 14)
  <2>1. s \in Seq({s[i] : i \in DOMAIN s})
    BY <1>3
  <2>2. Len(s) = 14 /\ DOMAIN s = 1..14
    BY <1>3
  <2>3. \A i \in 1..14 : s[i] # "zerotier_ip"
    BY <1>3
  <2>4. QED
    BY <2>1, <2>2, <2>3 DEF Listed
<1>4. ASSUME NEW c, c # "zerotier_ip" PROVE Listed(<<c>>, 1)
  BY <1>4 DEF Listed
<1>5. QED
  <2>1. Listed(Added["workers"], 7) /\ Added["workers"][3] = "worker_ip"
        /\ \A i \in 1..7 : Added["workers"][i] = "worker_ip" => i = 3
    BY <1>1 DEF Added
  <2>2. Listed(Added["jobs"], 9)
    BY <1>2 DEF Added
  <2>3. Listed(Added["pi_sessions"], 14)
    BY <1>3 DEF Added
  <2>4. Listed(Added["pi_session_events"], 1) /\ Listed(Added["pi_session_commands"], 1)
    BY <1>4 DEF Added
  <2>5. QED
    BY <2>1, <2>2, <2>3, <2>4

\* The length of a table's list.
Length(t) == Len(Added[t])

\* Every list of columns is a list of that length.
LEMMA ListsAreLists ==
    ASSUME NEW t \in Tables
    PROVE  Listed(Added[t], Length(t)) /\ Length(t) \in Nat
<1>1. ASSUME NEW n \in Nat, Listed(Added[t], n)
      PROVE  Listed(Added[t], Length(t)) /\ Length(t) \in Nat
  BY <1>1 DEF Length, Listed
<1>2. \E n \in Nat : Listed(Added[t], n)
  BY ListedColumns DEF Tables
<1>3. QED
  BY <1>1, <1>2

\* The columns that the migration adds are those of the table.
LEMMA AddedAreColumns ==
    ASSUME NEW t \in Tables
    PROVE  /\ Added[t] \in Seq(Current(t)) /\ DOMAIN Added[t] = 1..Length(t)
           /\ Current(t) = {Added[t][i] : i \in 1..Length(t)}
           /\ "zerotier_ip" \notin Current(t)
  BY ListsAreLists DEF Listed, Current

-----------------------------------------------------------------------------
(* The statements.                                                         *)

\* The statements there can be, and lists of them.
Names == UNION {Current(t) : t \in Tables}
Ops == {"create", "pragma", "add", "fill", "number", "index", "trigger",
        "commands", "events", "parents", "sessions", "commit"}
Statements == [op : Ops, table : Tables, col : Names \cup {""}]
Add(t, c) == [op |-> "add", table |-> t, col |-> c]

\* A statement about a whole table.
LEMMA StmtTyped ==
    ASSUME NEW op \in Ops, NEW t \in Tables
    PROVE  Stmt(op, t) \in Statements
  BY DEF Stmt, Statements

\* An ALTER.
LEMMA AddTyped ==
    ASSUME NEW t \in Tables, NEW c \in Current(t)
    PROVE  Add(t, c) \in Statements
  BY DEF Add, Statements, Names, Ops

\* Lists and their concatenation, by names of their own.
Lists == Seq(Statements)
Join(a, b) == a \o b

\* The concatenation of two lists of statements.
LEMMA Joined ==
    ASSUME NEW a \in Lists, NEW b \in Lists
    PROVE  /\ Join(a, b) \in Lists /\ Len(Join(a, b)) = Len(a) + Len(b)
           /\ \A i \in 1..Len(a) : Join(a, b)[i] = a[i]
           /\ \A i \in 1..Len(b) : Join(a, b)[Len(a) + i] = b[i]
<1> DEFINE c == Join(a, b)
           m == Len(a)
           n == Len(b)
<1>1. m \in Nat /\ n \in Nat
  BY LenProperties DEF Lists
<1>2. /\ a \o b \in Seq(Statements)
      /\ Len(a \o b) = m + n
      /\ \A i \in 1..m + n : (a \o b)[i] = IF i <= m THEN a[i] ELSE b[i - m]
  BY ConcatProperties DEF Lists
<1>3. c \in Lists /\ Len(c) = m + n
  BY <1>2 DEF Join, Lists
<1>4. \A i \in 1..m + n : c[i] = IF i <= m THEN a[i] ELSE b[i - m]
  BY <1>2 DEF Join
<1> HIDE DEF c, m, n
<1>5. ASSUME NEW i \in 1..m PROVE c[i] = a[i]
  BY <1>1, <1>4
<1>6. ASSUME NEW i \in 1..n PROVE c[m + i] = b[i]
  <2>1. m + i \in 1..m + n /\ ~(m + i <= m) /\ m + i - m = i
    BY <1>1
  <2>2. PICK j \in 1..m + n : j = m + i
    BY <2>1
  <2>3. ~(j <= m) /\ j - m = i
    BY <1>1, <2>2
  <2>4. c[j] = b[i]
    BY <1>4, <2>3
  <2>5. QED
    BY <2>2, <2>4, Zenon
<1>7. QED
  BY <1>3, <1>5, <1>6 DEF c, m, n

\* What a list is.
LEMMA ListsAreSequences ==
    ASSUME NEW a \in Lists
    PROVE  Len(a) \in Nat /\ DOMAIN a = 1..Len(a) /\ \A i \in DOMAIN a : a[i] \in Statements
  BY DEF Lists

\* The ALTERs for a list of columns.
LEMMA AddAllDoes ==
    ASSUME NEW t \in Tables, NEW cols \in Seq(Current(t))
    PROVE  /\ AddAll(t, cols) \in Lists /\ Len(AddAll(t, cols)) = Len(cols)
           /\ \A i \in 1..Len(cols) : AddAll(t, cols)[i] = Add(t, cols[i])
<1>1. Len(cols) \in Nat /\ DOMAIN cols = 1..Len(cols)
  OBVIOUS
<1>2. \A i \in 1..Len(cols) : Add(t, cols[i]) \in Statements
  BY AddTyped
<1>3. AddAll(t, cols) = [i \in 1..Len(cols) |-> Add(t, cols[i])]
  BY <1>1 DEF AddAll, Add
<1>4. AddAll(t, cols) \in [1..Len(cols) -> Statements]
  BY <1>1, <1>2, <1>3
<1>5. AddAll(t, cols) \in Lists
  BY <1>1, <1>4, SeqDef DEF Lists
<1>6. Len(AddAll(t, cols)) = Len(cols)
  BY <1>1, <1>3, <1>4, <1>5, LenProperties DEF Lists
<1>7. QED
  BY <1>3, <1>5, <1>6

\* CREATE and PRAGMA.
LEMMA OpeningDoes ==
    ASSUME NEW t \in Tables
    PROVE  /\ Opening(t) \in Lists /\ Len(Opening(t)) = 2
           /\ Opening(t)[1] = Stmt("create", t) /\ Opening(t)[2] = Stmt("pragma", t)
<1>1. Stmt("create", t) \in Statements /\ Stmt("pragma", t) \in Statements
  BY StmtTyped DEF Ops
<1>2. QED
  BY <1>1 DEF Opening, Lists

\* The statements of a table without data to move.
LEMMA PlainTableDoes ==
    ASSUME NEW t \in Tables
    PROVE  /\ PlainTable(t) \in Lists
           /\ Len(PlainTable(t)) = Length(t) + 2
           /\ PlainTable(t)[1] = Stmt("create", t) /\ PlainTable(t)[2] = Stmt("pragma", t)
           /\ \A i \in 1..Length(t) : PlainTable(t)[2 + i] = Add(t, Added[t][i])
<1>1. Added[t] \in Seq(Current(t)) /\ Length(t) \in Nat /\ Length(t) = Len(Added[t])
  BY AddedAreColumns, ListsAreLists DEF Length
<1>2. /\ AddAll(t, Added[t]) \in Lists
      /\ Len(AddAll(t, Added[t])) = Length(t)
      /\ \A i \in 1..Length(t) : AddAll(t, Added[t])[i] = Add(t, Added[t][i])
  BY <1>1, AddAllDoes
<1>3. /\ Opening(t) \in Lists /\ Len(Opening(t)) = 2
      /\ Opening(t)[1] = Stmt("create", t) /\ Opening(t)[2] = Stmt("pragma", t)
  BY OpeningDoes
<1> DEFINE a == Opening(t)  b == AddAll(t, Added[t])
<1>4. /\ PlainTable(t) \in Lists
      /\ Len(PlainTable(t)) = Len(a) + Len(b)
      /\ \A i \in 1..Len(a) : PlainTable(t)[i] = a[i]
      /\ \A i \in 1..Len(b) : PlainTable(t)[Len(a) + i] = b[i]
  <2>1. PlainTable(t) = Join(a, b)
    BY DEF PlainTable, Join
  <2> HIDE DEF a, b
  <2>2. a \in Lists /\ b \in Lists
    BY <1>2, <1>3 DEF a, b
  <2>3. /\ Join(a, b) \in Lists /\ Len(Join(a, b)) = Len(a) + Len(b)
        /\ \A i \in 1..Len(a) : Join(a, b)[i] = a[i]
        /\ \A i \in 1..Len(b) : Join(a, b)[Len(a) + i] = b[i]
    BY <2>2, Joined
  <2>4. QED
    BY <2>1, <2>3, Zenon
<1>5. QED
  BY <1>1, <1>2, <1>3, <1>4

\* The first columns of workers, and the others.
LEMMA WorkersColumns ==
    /\ SubSeq(Added.workers, 1, 3) \in Seq(Current("workers"))
    /\ Len(SubSeq(Added.workers, 1, 3)) = 3
    /\ \A i \in 1..3 : SubSeq(Added.workers, 1, 3)[i] = Added["workers"][i]
    /\ SubSeq(Added.workers, 4, 7) \in Seq(Current("workers"))
    /\ Len(SubSeq(Added.workers, 4, 7)) = 4
    /\ \A i \in 1..4 : SubSeq(Added.workers, 4, 7)[i] = Added["workers"][3 + i]
<1>1. Added["workers"] \in Seq(Current("workers")) /\ Len(Added["workers"]) = 7
  BY AddedAreColumns, ListedColumns DEF Tables, Listed
<1>2. Added.workers = Added["workers"]
  OBVIOUS
<1> DEFINE S == Current("workers")
<1> HIDE DEF S
<1>3. ASSUME NEW s \in Seq(S), Len(s) = 7, NEW m \in 1..7, NEW n \in m..7
      PROVE  /\ SubSeq(s, m, n) \in Seq(S) /\ Len(SubSeq(s, m, n)) = n - m + 1
             /\ \A i \in 1..n - m + 1 : SubSeq(s, m, n)[i] = s[m + i - 1]
  <2>1. ASSUME NEW i \in m..n PROVE s[i] \in S
    <3>1. i \in 1..Len(s)
      BY <1>3
    <3>2. QED
      BY <3>1, ElementOfSeq
  <2>2. m \in Int /\ n \in Int /\ m <= n
    OBVIOUS
  <2>3. QED
    BY <2>1, <2>2, SubSeqProperties
<1> DEFINE w == Added["workers"]
<1> HIDE DEF w
<1>4. w \in Seq(S) /\ Len(w) = 7
  BY <1>1 DEF w, S
<1>5. /\ SubSeq(w, 1, 3) \in Seq(S) /\ Len(SubSeq(w, 1, 3)) = 3
      /\ \A i \in 1..3 : SubSeq(w, 1, 3)[i] = w[1 + i - 1]
  BY <1>3, <1>4
<1>6. /\ SubSeq(w, 4, 7) \in Seq(S) /\ Len(SubSeq(w, 4, 7)) = 4
      /\ \A i \in 1..4 : SubSeq(w, 4, 7)[i] = w[4 + i - 1]
  BY <1>3, <1>4
<1>7. /\ \A i \in 1..3 : w[1 + i - 1] = w[i]
      /\ \A i \in 1..4 : w[4 + i - 1] = w[3 + i]
  <2>1. \A i \in Nat : 1 + i - 1 = i /\ 4 + i - 1 = 3 + i
    OBVIOUS
  <2>2. QED
    BY <2>1
<1>8. QED
  BY <1>2, <1>5, <1>6, <1>7 DEF S, w

\* The statements of workers.
LEMMA WorkersTableDoes ==
    /\ WorkersTable \in Lists /\ Len(WorkersTable) = 10
    /\ WorkersTable[1] = Stmt("create", "workers")
    /\ WorkersTable[2] = Stmt("pragma", "workers")
    /\ \A i \in 1..3 : WorkersTable[2 + i] = Add("workers", Added["workers"][i])
    /\ WorkersTable[6] = Stmt("fill", "workers")
    /\ \A i \in 4..7 : WorkersTable[3 + i] = Add("workers", Added["workers"][i])
<1> DEFINE a == Opening("workers")
           b == AddAll("workers", SubSeq(Added.workers, 1, 3))
           c == <<Stmt("fill", "workers")>>
           d == AddAll("workers", SubSeq(Added.workers, 4, 7))
<1>1. /\ a \in Lists /\ Len(a) = 2
      /\ a[1] = Stmt("create", "workers") /\ a[2] = Stmt("pragma", "workers")
  BY OpeningDoes DEF Tables
<1>2. /\ b \in Lists /\ Len(b) = 3
      /\ \A i \in 1..3 : b[i] = Add("workers", Added["workers"][i])
  <2> DEFINE e == SubSeq(Added.workers, 1, 3)
  <2>1. /\ e \in Seq(Current("workers")) /\ Len(e) = 3
        /\ \A i \in 1..3 : e[i] = Added["workers"][i]
    BY WorkersColumns
  <2>2. "workers" \in Tables /\ b = AddAll("workers", e)
    BY DEF Tables
  <2> HIDE DEF b, e
  <2>3. QED
    BY <2>1, <2>2, AddAllDoes
<1>3. c \in Lists /\ Len(c) = 1 /\ c[1] = Stmt("fill", "workers")
  BY StmtTyped DEF Ops, Tables, Lists
<1>4. /\ d \in Lists /\ Len(d) = 4
      /\ \A i \in 1..4 : d[i] = Add("workers", Added["workers"][3 + i])
  <2> DEFINE e == SubSeq(Added.workers, 4, 7)
  <2>1. /\ e \in Seq(Current("workers")) /\ Len(e) = 4
        /\ \A i \in 1..4 : e[i] = Added["workers"][3 + i]
    BY WorkersColumns
  <2>2. "workers" \in Tables /\ d = AddAll("workers", e)
    BY DEF Tables
  <2> HIDE DEF d, e
  <2>3. QED
    BY <2>1, <2>2, AddAllDoes
<1> DEFINE ab == Join(a, b)
           abc == Join(ab, c)
           abcd == Join(abc, d)
<1>5. WorkersTable = abcd
  BY DEF WorkersTable, Join
<1> HIDE DEF a, b, c, d, ab, abc, abcd
<1>6. /\ ab \in Lists /\ Len(ab) = 5
      /\ \A i \in 1..2 : ab[i] = a[i]
      /\ \A i \in 1..3 : ab[2 + i] = b[i]
  <2>1. a \in Lists /\ b \in Lists
    BY <1>1, <1>2
  <2>2. /\ ab \in Lists /\ Len(ab) = Len(a) + Len(b)
        /\ \A i \in 1..Len(a) : ab[i] = a[i]
        /\ \A i \in 1..Len(b) : ab[Len(a) + i] = b[i]
    BY <2>1, Joined DEF ab
  <2>3. QED
    BY <1>1, <1>2, <2>2
<1>7. /\ abc \in Lists /\ Len(abc) = 6
      /\ \A i \in 1..5 : abc[i] = ab[i]
      /\ \A i \in 1..1 : abc[5 + i] = c[i]
  <2>1. ab \in Lists /\ c \in Lists
    BY <1>3, <1>6
  <2>2. /\ abc \in Lists /\ Len(abc) = Len(ab) + Len(c)
        /\ \A i \in 1..Len(ab) : abc[i] = ab[i]
        /\ \A i \in 1..Len(c) : abc[Len(ab) + i] = c[i]
    BY <2>1, Joined DEF abc
  <2>3. QED
    BY <1>3, <1>6, <2>2
<1>8. /\ abcd \in Lists /\ Len(abcd) = 10
      /\ \A i \in 1..6 : abcd[i] = abc[i]
      /\ \A i \in 1..4 : abcd[6 + i] = d[i]
  <2>1. abc \in Lists /\ d \in Lists
    BY <1>4, <1>7
  <2>2. /\ abcd \in Lists /\ Len(abcd) = Len(abc) + Len(d)
        /\ \A i \in 1..Len(abc) : abcd[i] = abc[i]
        /\ \A i \in 1..Len(d) : abcd[Len(abc) + i] = d[i]
    BY <2>1, Joined DEF abcd
  <2>3. QED
    BY <1>4, <1>7, <2>2
<1>9. /\ WorkersTable \in Lists /\ Len(WorkersTable) = 10
      /\ \A i \in 1..6 : WorkersTable[i] = abc[i]
      /\ \A i \in 1..4 : WorkersTable[6 + i] = d[i]
  BY <1>5, <1>8
<1>10. \A i \in 4..7 : WorkersTable[3 + i] = d[i - 3]
  <2>1. ASSUME NEW i \in 4..7 PROVE WorkersTable[3 + i] = d[i - 3]
    <3>1. i - 3 \in 1..4 /\ 6 + (i - 3) = 3 + i
      OBVIOUS
    <3>2. QED
      BY <3>1, <1>9
  <2>2. QED
    BY <2>1
<1>11. \A i \in 4..7 : d[i - 3] = Add("workers", Added["workers"][i])
  <2>1. ASSUME NEW i \in 4..7
        PROVE  d[i - 3] = Add("workers", Added["workers"][i])
    <3>1. i - 3 \in 1..4 /\ 3 + (i - 3) = i
      OBVIOUS
    <3>2. QED
      BY <3>1, <1>4
  <2>2. QED
    BY <2>1
<1>12. QED
  BY <1>1, <1>2, <1>3, <1>6, <1>7, <1>8, <1>9, <1>10, <1>11

\* The statements of pi_session_events.
LEMMA EventsTableDoes ==
    LET t == "pi_session_events"
    IN  /\ EventsTable \in Lists /\ Len(EventsTable) = 6
        /\ EventsTable[1] = Stmt("create", t) /\ EventsTable[2] = Stmt("pragma", t)
        /\ EventsTable[3] = Add(t, Added[t][1])
        /\ EventsTable[4] = Stmt("number", t) /\ EventsTable[5] = Stmt("index", t)
        /\ EventsTable[6] = Stmt("trigger", t)
<1> DEFINE t == "pi_session_events"
           a == PlainTable(t)
           b == <<Stmt("number", t), Stmt("index", t), Stmt("trigger", t)>>
           ab == Join(a, b)
<1>1. t \in Tables /\ Length(t) = 1
  BY ListedColumns DEF Tables, Length, Listed
<1>2. /\ a \in Lists /\ Len(a) = 3
      /\ a[1] = Stmt("create", t) /\ a[2] = Stmt("pragma", t) /\ a[3] = Add(t, Added[t][1])
  <2>1. /\ a \in Lists /\ Len(a) = Length(t) + 2
        /\ a[1] = Stmt("create", t) /\ a[2] = Stmt("pragma", t)
        /\ \A i \in 1..Length(t) : a[2 + i] = Add(t, Added[t][i])
    BY <1>1, PlainTableDoes
  <2> HIDE DEF a, t
  <2>2. QED
    BY <1>1, <2>1
<1>3. /\ b \in Lists /\ Len(b) = 3
      /\ b[1] = Stmt("number", t) /\ b[2] = Stmt("index", t) /\ b[3] = Stmt("trigger", t)
  BY <1>1, StmtTyped DEF Ops, Lists
<1>4. EventsTable = ab
  BY DEF EventsTable, Join
<1> HIDE DEF t, a, b, ab
<1>5. /\ ab \in Lists /\ Len(ab) = Len(a) + Len(b)
      /\ \A i \in 1..Len(a) : ab[i] = a[i]
      /\ \A i \in 1..Len(b) : ab[Len(a) + i] = b[i]
  BY <1>2, <1>3, Joined DEF ab
<1>6. /\ Len(ab) = 6 /\ ab[1] = a[1] /\ ab[2] = a[2] /\ ab[3] = a[3]
      /\ ab[4] = b[1] /\ ab[5] = b[2] /\ ab[6] = b[3]
  BY <1>2, <1>3, <1>5
<1>7. QED
  BY <1>2, <1>3, <1>4, <1>5, <1>6 DEF t

\* The statements of delete_delegated_agents.
LEMMA CleanupDoes ==
    /\ DelegatedCleanup \in Lists /\ Len(DelegatedCleanup) = 4
    /\ DelegatedCleanup[1] = Stmt("commands", "pi_session_commands")
    /\ DelegatedCleanup[2] = Stmt("events", "pi_session_events")
    /\ DelegatedCleanup[3] = Stmt("parents", "pi_sessions")
    /\ DelegatedCleanup[4] = Stmt("sessions", "pi_sessions")
<1>1. /\ Stmt("commands", "pi_session_commands") \in Statements
      /\ Stmt("events", "pi_session_events") \in Statements
      /\ Stmt("parents", "pi_sessions") \in Statements
      /\ Stmt("sessions", "pi_sessions") \in Statements
  BY StmtTyped DEF Ops, Tables
<1>2. QED
  BY <1>1 DEF DelegatedCleanup, Lists

\* Where the parts of the list begin.
LEMMA PartsOfSchema ==
    /\ InitSchema \in Lists /\ Len(InitSchema) = 51
    /\ \A i \in 1..10 : InitSchema[i] = WorkersTable[i]
    /\ \A i \in 1..11 : InitSchema[10 + i] = PlainTable("jobs")[i]
    /\ \A i \in 1..16 : InitSchema[21 + i] = PlainTable("pi_sessions")[i]
    /\ \A i \in 1..6 : InitSchema[37 + i] = EventsTable[i]
    /\ \A i \in 1..3 : InitSchema[43 + i] = PlainTable("pi_session_commands")[i]
    /\ \A i \in 1..4 : InitSchema[46 + i] = DelegatedCleanup[i]
    /\ InitSchema[51] = Stmt("commit", "workers")
<1> DEFINE a == WorkersTable
           b == PlainTable("jobs")
           c == PlainTable("pi_sessions")
           d == EventsTable
           e == PlainTable("pi_session_commands")
           f == DelegatedCleanup
           g == <<Stmt("commit", "workers")>>
           ab == Join(a, b)
           abc == Join(ab, c)
           abcd == Join(abc, d)
           abcde == Join(abcd, e)
           abcdef == Join(abcde, f)
           whole == Join(abcdef, g)
<1>1. InitSchema = whole
  BY DEF InitSchema, Join
<1>2. a \in Lists /\ Len(a) = 10
  BY WorkersTableDoes
<1>3. b \in Lists /\ Len(b) = 11 /\ c \in Lists /\ Len(c) = 16 /\ e \in Lists /\ Len(e) = 3
  <2>1. /\ Length("jobs") = 9 /\ Length("pi_sessions") = 14
        /\ Length("pi_session_commands") = 1
    BY ListedColumns DEF Length, Listed
  <2>2. "jobs" \in Tables /\ "pi_sessions" \in Tables /\ "pi_session_commands" \in Tables
    BY DEF Tables
  <2>3. /\ b \in Lists /\ Len(b) = Length("jobs") + 2
        /\ c \in Lists /\ Len(c) = Length("pi_sessions") + 2
        /\ e \in Lists /\ Len(e) = Length("pi_session_commands") + 2
    BY <2>2, PlainTableDoes
  <2> HIDE DEF b, c, e
  <2>4. QED
    BY <2>1, <2>3
<1>4. d \in Lists /\ Len(d) = 6 /\ f \in Lists /\ Len(f) = 4
  BY EventsTableDoes, CleanupDoes
<1>5. g \in Lists /\ Len(g) = 1 /\ g[1] = Stmt("commit", "workers")
  <2>1. Stmt("commit", "workers") \in Statements
    BY StmtTyped DEF Ops, Tables
  <2>2. QED
    BY <2>1 DEF Lists
<1> HIDE DEF a, b, c, d, e, f, g, ab, abc, abcd, abcde, abcdef, whole
<1>6. /\ ab \in Lists /\ Len(ab) = 21
      /\ \A i \in 1..10 : ab[i] = a[i]
      /\ \A i \in 1..11 : ab[10 + i] = b[i]
  <2>1. a \in Lists /\ b \in Lists
    BY <1>2, <1>3
  <2>2. /\ ab \in Lists /\ Len(ab) = Len(a) + Len(b)
        /\ \A i \in 1..Len(a) : ab[i] = a[i]
        /\ \A i \in 1..Len(b) : ab[Len(a) + i] = b[i]
    BY <2>1, Joined DEF ab
  <2>3. QED
    BY <1>2, <1>3, <2>2
<1>7. /\ abc \in Lists /\ Len(abc) = 37
      /\ \A i \in 1..21 : abc[i] = ab[i]
      /\ \A i \in 1..16 : abc[21 + i] = c[i]
  <2>1. ab \in Lists /\ c \in Lists
    BY <1>3, <1>6
  <2>2. /\ abc \in Lists /\ Len(abc) = Len(ab) + Len(c)
        /\ \A i \in 1..Len(ab) : abc[i] = ab[i]
        /\ \A i \in 1..Len(c) : abc[Len(ab) + i] = c[i]
    BY <2>1, Joined DEF abc
  <2>3. QED
    BY <1>3, <1>6, <2>2
<1>8. /\ abcd \in Lists /\ Len(abcd) = 43
      /\ \A i \in 1..37 : abcd[i] = abc[i]
      /\ \A i \in 1..6 : abcd[37 + i] = d[i]
  <2>1. abc \in Lists /\ d \in Lists
    BY <1>4, <1>7
  <2>2. /\ abcd \in Lists /\ Len(abcd) = Len(abc) + Len(d)
        /\ \A i \in 1..Len(abc) : abcd[i] = abc[i]
        /\ \A i \in 1..Len(d) : abcd[Len(abc) + i] = d[i]
    BY <2>1, Joined DEF abcd
  <2>3. QED
    BY <1>4, <1>7, <2>2
<1>9. /\ abcde \in Lists /\ Len(abcde) = 46
      /\ \A i \in 1..43 : abcde[i] = abcd[i]
      /\ \A i \in 1..3 : abcde[43 + i] = e[i]
  <2>1. abcd \in Lists /\ e \in Lists
    BY <1>3, <1>8
  <2>2. /\ abcde \in Lists /\ Len(abcde) = Len(abcd) + Len(e)
        /\ \A i \in 1..Len(abcd) : abcde[i] = abcd[i]
        /\ \A i \in 1..Len(e) : abcde[Len(abcd) + i] = e[i]
    BY <2>1, Joined DEF abcde
  <2>3. QED
    BY <1>3, <1>8, <2>2
<1>10. /\ abcdef \in Lists /\ Len(abcdef) = 50
       /\ \A i \in 1..46 : abcdef[i] = abcde[i]
       /\ \A i \in 1..4 : abcdef[46 + i] = f[i]
  <2>1. abcde \in Lists /\ f \in Lists
    BY <1>4, <1>9
  <2>2. /\ abcdef \in Lists /\ Len(abcdef) = Len(abcde) + Len(f)
        /\ \A i \in 1..Len(abcde) : abcdef[i] = abcde[i]
        /\ \A i \in 1..Len(f) : abcdef[Len(abcde) + i] = f[i]
    BY <2>1, Joined DEF abcdef
  <2>3. QED
    BY <1>4, <1>9, <2>2
<1>11. /\ whole \in Lists /\ Len(whole) = 51
       /\ \A i \in 1..50 : whole[i] = abcdef[i]
       /\ \A i \in 1..1 : whole[50 + i] = g[i]
  <2>1. abcdef \in Lists /\ g \in Lists
    BY <1>5, <1>10
  <2>2. /\ whole \in Lists /\ Len(whole) = Len(abcdef) + Len(g)
        /\ \A i \in 1..Len(abcdef) : whole[i] = abcdef[i]
        /\ \A i \in 1..Len(g) : whole[Len(abcdef) + i] = g[i]
    BY <2>1, Joined DEF whole
  <2>3. QED
    BY <1>5, <1>10, <2>2
<1>12. /\ \A i \in 1..10 : whole[i] = a[i]
       /\ \A i \in 1..11 : whole[10 + i] = b[i]
       /\ \A i \in 1..16 : whole[21 + i] = c[i]
       /\ \A i \in 1..6 : whole[37 + i] = d[i]
       /\ \A i \in 1..3 : whole[43 + i] = e[i]
       /\ \A i \in 1..4 : whole[46 + i] = f[i]
       /\ whole[51] = g[1]
  BY <1>6, <1>7, <1>8, <1>9, <1>10, <1>11
<1>13. QED
  BY <1>1, <1>5, <1>11, <1>12 DEF a, b, c, d, e, f

\* The list, statement by statement.
LEMMA TheStatements ==
    /\ InitSchema[1] = Stmt("create", "workers") /\ InitSchema[2] = Stmt("pragma", "workers")
    /\ \A i \in 1..3 : InitSchema[2 + i] = Add("workers", Added["workers"][i])
    /\ InitSchema[6] = Stmt("fill", "workers")
    /\ \A i \in 4..7 : InitSchema[3 + i] = Add("workers", Added["workers"][i])
    /\ InitSchema[11] = Stmt("create", "jobs") /\ InitSchema[12] = Stmt("pragma", "jobs")
    /\ \A i \in 1..9 : InitSchema[12 + i] = Add("jobs", Added["jobs"][i])
    /\ InitSchema[22] = Stmt("create", "pi_sessions")
    /\ InitSchema[23] = Stmt("pragma", "pi_sessions")
    /\ \A i \in 1..14 : InitSchema[23 + i] = Add("pi_sessions", Added["pi_sessions"][i])
    /\ InitSchema[38] = Stmt("create", "pi_session_events")
    /\ InitSchema[39] = Stmt("pragma", "pi_session_events")
    /\ InitSchema[40] = Add("pi_session_events", Added["pi_session_events"][1])
    /\ InitSchema[41] = Stmt("number", "pi_session_events")
    /\ InitSchema[42] = Stmt("index", "pi_session_events")
    /\ InitSchema[43] = Stmt("trigger", "pi_session_events")
    /\ InitSchema[44] = Stmt("create", "pi_session_commands")
    /\ InitSchema[45] = Stmt("pragma", "pi_session_commands")
    /\ InitSchema[46] = Add("pi_session_commands", Added["pi_session_commands"][1])
    /\ InitSchema[47] = Stmt("commands", "pi_session_commands")
    /\ InitSchema[48] = Stmt("events", "pi_session_events")
    /\ InitSchema[49] = Stmt("parents", "pi_sessions")
    /\ InitSchema[50] = Stmt("sessions", "pi_sessions")
    /\ InitSchema[51] = Stmt("commit", "workers")
<1>1. ASSUME NEW t \in Tables, NEW n \in Nat, NEW l \in Nat,
             Listed(Added[t], l),
             \A i \in 1..l + 2 : InitSchema[n + i] = PlainTable(t)[i]
      PROVE  /\ InitSchema[n + 1] = Stmt("create", t) /\ InitSchema[n + 2] = Stmt("pragma", t)
             /\ \A i \in 1..l : InitSchema[n + 2 + i] = Add(t, Added[t][i])
  <2>1. Length(t) = l
    BY <1>1 DEF Length, Listed
  <2>2. /\ PlainTable(t)[1] = Stmt("create", t) /\ PlainTable(t)[2] = Stmt("pragma", t)
        /\ \A i \in 1..l : PlainTable(t)[2 + i] = Add(t, Added[t][i])
    BY <2>1, PlainTableDoes
  <2>3. ASSUME NEW i \in 1..l PROVE InitSchema[n + 2 + i] = Add(t, Added[t][i])
    <3>1. PICK j \in 1..l + 2 : j = 2 + i
      OBVIOUS
    <3>2. InitSchema[n + j] = PlainTable(t)[j] /\ n + j = n + 2 + i
      BY <1>1, <3>1
    <3>3. PlainTable(t)[j] = Add(t, Added[t][i])
      BY <2>2, <3>1
    <3>4. QED
      BY <3>2, <3>3
  <2>4. InitSchema[n + 1] = PlainTable(t)[1] /\ InitSchema[n + 2] = PlainTable(t)[2]
    BY <1>1
  <2>5. QED
    BY <2>2, <2>3, <2>4
<1>2. /\ InitSchema[10 + 1] = Stmt("create", "jobs") /\ InitSchema[10 + 2] = Stmt("pragma", "jobs")
      /\ \A i \in 1..9 : InitSchema[10 + 2 + i] = Add("jobs", Added["jobs"][i])
  <2>1. Listed(Added["jobs"], 9) /\ "jobs" \in Tables
    BY ListedColumns DEF Tables
  <2>2. \A i \in 1..9 + 2 : InitSchema[10 + i] = PlainTable("jobs")[i]
    BY PartsOfSchema
  <2>3. 10 \in Nat /\ 9 \in Nat
    OBVIOUS
  <2>4. QED
    BY <1>1, <2>1, <2>2, <2>3, Zenon
<1>3. /\ InitSchema[21 + 1] = Stmt("create", "pi_sessions")
      /\ InitSchema[21 + 2] = Stmt("pragma", "pi_sessions")
      /\ \A i \in 1..14 : InitSchema[21 + 2 + i] = Add("pi_sessions", Added["pi_sessions"][i])
  <2>1. Listed(Added["pi_sessions"], 14) /\ "pi_sessions" \in Tables
    BY ListedColumns DEF Tables
  <2>2. \A i \in 1..14 + 2 : InitSchema[21 + i] = PlainTable("pi_sessions")[i]
    BY PartsOfSchema
  <2>3. 21 \in Nat /\ 14 \in Nat
    OBVIOUS
  <2>4. QED
    BY <1>1, <2>1, <2>2, <2>3, Zenon
<1>4. /\ InitSchema[43 + 1] = Stmt("create", "pi_session_commands")
      /\ InitSchema[43 + 2] = Stmt("pragma", "pi_session_commands")
      /\ \A i \in 1..1 : InitSchema[43 + 2 + i] =
                Add("pi_session_commands", Added["pi_session_commands"][i])
  <2>1. Listed(Added["pi_session_commands"], 1) /\ "pi_session_commands" \in Tables
    BY ListedColumns DEF Tables
  <2>2. \A i \in 1..1 + 2 : InitSchema[43 + i] = PlainTable("pi_session_commands")[i]
    BY PartsOfSchema
  <2>3. 43 \in Nat /\ 1 \in Nat
    OBVIOUS
  <2>4. QED
    BY <1>1, <2>1, <2>2, <2>3, Zenon
<1>5. /\ InitSchema[1] = Stmt("create", "workers") /\ InitSchema[2] = Stmt("pragma", "workers")
      /\ \A i \in 1..3 : InitSchema[2 + i] = Add("workers", Added["workers"][i])
      /\ InitSchema[6] = Stmt("fill", "workers")
      /\ \A i \in 4..7 : InitSchema[3 + i] = Add("workers", Added["workers"][i])
  BY PartsOfSchema, WorkersTableDoes
<1>6. /\ InitSchema[38] = EventsTable[1] /\ InitSchema[39] = EventsTable[2]
      /\ InitSchema[40] = EventsTable[3] /\ InitSchema[41] = EventsTable[4]
      /\ InitSchema[42] = EventsTable[5] /\ InitSchema[43] = EventsTable[6]
  BY PartsOfSchema
<1>7. /\ InitSchema[47] = DelegatedCleanup[1] /\ InitSchema[48] = DelegatedCleanup[2]
      /\ InitSchema[49] = DelegatedCleanup[3] /\ InitSchema[50] = DelegatedCleanup[4]
  BY PartsOfSchema
<1>8. /\ InitSchema[38] = Stmt("create", "pi_session_events")
      /\ InitSchema[39] = Stmt("pragma", "pi_session_events")
      /\ InitSchema[40] = Add("pi_session_events", Added["pi_session_events"][1])
      /\ InitSchema[41] = Stmt("number", "pi_session_events")
      /\ InitSchema[42] = Stmt("index", "pi_session_events")
      /\ InitSchema[43] = Stmt("trigger", "pi_session_events")
  BY <1>6, EventsTableDoes
<1>9. /\ InitSchema[47] = Stmt("commands", "pi_session_commands")
      /\ InitSchema[48] = Stmt("events", "pi_session_events")
      /\ InitSchema[49] = Stmt("parents", "pi_sessions")
      /\ InitSchema[50] = Stmt("sessions", "pi_sessions")
  BY <1>7, CleanupDoes
<1>10. /\ InitSchema[11] = Stmt("create", "jobs") /\ InitSchema[12] = Stmt("pragma", "jobs")
       /\ \A i \in 1..9 : InitSchema[12 + i] = Add("jobs", Added["jobs"][i])
       /\ InitSchema[22] = Stmt("create", "pi_sessions")
       /\ InitSchema[23] = Stmt("pragma", "pi_sessions")
       /\ \A i \in 1..14 : InitSchema[23 + i] = Add("pi_sessions", Added["pi_sessions"][i])
  BY <1>2, <1>3
<1>11. /\ InitSchema[44] = Stmt("create", "pi_session_commands")
       /\ InitSchema[45] = Stmt("pragma", "pi_session_commands")
       /\ InitSchema[46] = Add("pi_session_commands", Added["pi_session_commands"][1])
  BY <1>4
<1>12. QED
  BY <1>5, <1>8, <1>9, <1>10, <1>11, PartsOfSchema

\* What the statement at a place is.
OpAt(k) ==
    IF k \in {1, 11, 22, 38, 44} THEN "create"
    ELSE IF k \in {2, 12, 23, 39, 45} THEN "pragma"
    ELSE IF k = 6 THEN "fill" ELSE IF k = 41 THEN "number"
    ELSE IF k = 42 THEN "index" ELSE IF k = 43 THEN "trigger"
    ELSE IF k = 47 THEN "commands" ELSE IF k = 48 THEN "events"
    ELSE IF k = 49 THEN "parents" ELSE IF k = 50 THEN "sessions"
    ELSE IF k = 51 THEN "commit" ELSE "add"

\* Its table.
TableAt(k) ==
    IF k <= 10 THEN "workers" ELSE IF k <= 21 THEN "jobs"
    ELSE IF k <= 37 THEN "pi_sessions" ELSE IF k <= 43 THEN "pi_session_events"
    ELSE IF k <= 47 THEN "pi_session_commands" ELSE IF k = 48 THEN "pi_session_events"
    ELSE IF k <= 50 THEN "pi_sessions" ELSE "workers"

\* The list says what the places say; its columns are each at one place.
LEMMA ByPlace ==
    /\ InitSchema \in Lists /\ DOMAIN InitSchema = 1..51 /\ Len(InitSchema) = 51 /\ Done = 52
    /\ \A k \in 1..51 : InitSchema[k].op = OpAt(k) /\ InitSchema[k].table = TableAt(k)
    /\ \A k \in 1..51 : InitSchema[k].op = "add" =>
        /\ InitSchema[k].col \in Current(InitSchema[k].table)
        /\ InitSchema[k].table = "workers" /\ InitSchema[k].col = "worker_ip" => k = 5
    /\ InitSchema[5] = Add("workers", "worker_ip")
    /\ \A t \in Tables : \A c \in Current(t) : \E k \in 1..51 : InitSchema[k] = Add(t, c)
<1>1. InitSchema \in Lists /\ Len(InitSchema) = 51 /\ DOMAIN InitSchema = 1..51 /\ Done = 52
  BY PartsOfSchema, ListsAreSequences DEF Done
<1>2. ASSUME NEW op, NEW t PROVE Stmt(op, t).op = op /\ Stmt(op, t).table = t
  BY DEF Stmt
<1>3. ASSUME NEW t, NEW c
      PROVE  Add(t, c).op = "add" /\ Add(t, c).table = t /\ Add(t, c).col = c
  BY DEF Add
<1>4. ASSUME NEW t \in Tables, NEW i \in 1..Length(t)
      PROVE  Added[t][i] \in Current(t)
  BY AddedAreColumns
<1>5. /\ Length("workers") = 7 /\ Length("jobs") = 9 /\ Length("pi_sessions") = 14
      /\ Length("pi_session_events") = 1 /\ Length("pi_session_commands") = 1
  BY ListedColumns DEF Length, Listed
<1>6. ASSUME NEW k \in 1..51
      PROVE  \/ OpAt(k) # "add" /\ InitSchema[k] = Stmt(OpAt(k), TableAt(k))
             \/ /\ OpAt(k) = "add" /\ TableAt(k) \in Tables
                /\ \E i \in 1..Length(TableAt(k)) :
                    /\ InitSchema[k] = Add(TableAt(k), Added[TableAt(k)][i])
                    /\ TableAt(k) = "workers" => k = IF i <= 3 THEN 2 + i ELSE 3 + i
  <2>1. CASE k \in 1..2 \/ k = 6 \/ k \in 11..12 \/ k \in 22..23 \/ k \in 38..39
             \/ k \in 41..45 \/ k \in 47..51
    BY <2>1, TheStatements DEF OpAt, TableAt
  <2>2. CASE k \in 3..5
    <3>1. k - 2 \in 1..3 /\ k = 2 + (k - 2) /\ OpAt(k) = "add" /\ TableAt(k) = "workers"
      BY <2>2 DEF OpAt, TableAt
    <3>2. PICK i \in 1..3 : k = 2 + i
      BY <3>1
    <3>3. InitSchema[k] = Add("workers", Added["workers"][i])
      BY <3>2, TheStatements
    <3>4. QED
      BY <1>5, <3>1, <3>2, <3>3 DEF Tables
  <2>3. CASE k \in 7..10
    <3>1. k - 3 \in 4..7 /\ k = 3 + (k - 3) /\ OpAt(k) = "add" /\ TableAt(k) = "workers"
      BY <2>3 DEF OpAt, TableAt
    <3>2. PICK i \in 4..7 : k = 3 + i
      BY <3>1
    <3>3. InitSchema[k] = Add("workers", Added["workers"][i])
      BY <3>2, TheStatements
    <3>4. QED
      BY <1>5, <3>1, <3>2, <3>3 DEF Tables
  <2>4. CASE k \in 13..21
    <3>1. k - 12 \in 1..9 /\ k = 12 + (k - 12) /\ OpAt(k) = "add" /\ TableAt(k) = "jobs"
      BY <2>4 DEF OpAt, TableAt
    <3>2. PICK i \in 1..9 : k = 12 + i
      BY <3>1
    <3>3. InitSchema[k] = Add("jobs", Added["jobs"][i])
      BY <3>2, TheStatements
    <3>4. QED
      BY <1>5, <3>1, <3>3 DEF Tables
  <2>5. CASE k \in 24..37
    <3>1. k - 23 \in 1..14 /\ k = 23 + (k - 23) /\ OpAt(k) = "add"
          /\ TableAt(k) = "pi_sessions"
      BY <2>5 DEF OpAt, TableAt
    <3>2. PICK i \in 1..14 : k = 23 + i
      BY <3>1
    <3>3. InitSchema[k] = Add("pi_sessions", Added["pi_sessions"][i])
      BY <3>2, TheStatements
    <3>4. QED
      BY <1>5, <3>1, <3>3 DEF Tables
  <2>6. CASE k = 40
    <3>1. OpAt(k) = "add" /\ TableAt(k) = "pi_session_events"
      BY <2>6 DEF OpAt, TableAt
    <3>2. InitSchema[k] = Add("pi_session_events", Added["pi_session_events"][1])
      BY <2>6, TheStatements
    <3>3. QED
      BY <1>5, <3>1, <3>2 DEF Tables
  <2>7. CASE k = 46
    <3>1. OpAt(k) = "add" /\ TableAt(k) = "pi_session_commands"
      BY <2>7 DEF OpAt, TableAt
    <3>2. InitSchema[k] = Add("pi_session_commands", Added["pi_session_commands"][1])
      BY <2>7, TheStatements
    <3>3. QED
      BY <1>5, <3>1, <3>2 DEF Tables
  <2>8. QED
    BY <2>1, <2>2, <2>3, <2>4, <2>5, <2>6, <2>7
<1>7. ASSUME NEW k \in 1..51
      PROVE  InitSchema[k].op = OpAt(k) /\ InitSchema[k].table = TableAt(k)
  <2>1. CASE InitSchema[k] = Stmt(OpAt(k), TableAt(k))
    BY <1>2, <2>1
  <2>2. CASE OpAt(k) = "add" /\ \E c : InitSchema[k] = Add(TableAt(k), c)
    BY <1>3, <2>2
  <2>3. QED
    BY <1>6, <2>1, <2>2
<1>8. ASSUME NEW k \in 1..51, InitSchema[k].op = "add"
      PROVE  /\ InitSchema[k].col \in Current(InitSchema[k].table)
             /\ InitSchema[k].table = "workers" /\ InitSchema[k].col = "worker_ip" => k = 5
  <2>1. OpAt(k) = "add"
    BY <1>7, <1>8
  <2>2. /\ TableAt(k) \in Tables
        /\ \E i \in 1..Length(TableAt(k)) :
            /\ InitSchema[k] = Add(TableAt(k), Added[TableAt(k)][i])
            /\ TableAt(k) = "workers" => k = IF i <= 3 THEN 2 + i ELSE 3 + i
    BY <1>6, <2>1
  <2>3. PICK i \in 1..Length(TableAt(k)) :
            /\ InitSchema[k] = Add(TableAt(k), Added[TableAt(k)][i])
            /\ TableAt(k) = "workers" => k = IF i <= 3 THEN 2 + i ELSE 3 + i
    BY <2>2
  <2>4. InitSchema[k].table = TableAt(k) /\ InitSchema[k].col = Added[TableAt(k)][i]
    BY <1>3, <2>3
  <2>5. Added[TableAt(k)][i] \in Current(TableAt(k))
    BY <1>4, <2>2
  <2>6. ASSUME TableAt(k) = "workers", Added["workers"][i] = "worker_ip"
        PROVE  k = 5
    <3>1. i = 3
      BY <1>5, <2>6, ListedColumns
    <3>2. QED
      BY <2>3, <2>6, <3>1
  <2>7. QED
    BY <2>4, <2>5, <2>6
<1>9. InitSchema[5] = Add("workers", "worker_ip")
  <2>1. InitSchema[2 + 3] = Add("workers", Added["workers"][3])
    BY TheStatements
  <2>2. QED
    BY <2>1, ListedColumns
<1>10. ASSUME NEW t \in Tables, NEW c \in Current(t)
       PROVE  \E k \in 1..51 : InitSchema[k] = Add(t, c)
  <2>1. PICK i \in 1..Length(t) : c = Added[t][i]
    BY AddedAreColumns
  <2>2. CASE t = "workers"
    <3>1. i \in 1..3 \/ i \in 4..7
      BY <1>5, <2>2
    <3>2. CASE i \in 1..3
      <4>1. InitSchema[2 + i] = Add(t, c) /\ 2 + i \in 1..51
        BY <2>1, <2>2, <3>2, TheStatements
      <4>2. QED
        BY <4>1
    <3>3. CASE i \in 4..7
      <4>1. InitSchema[3 + i] = Add(t, c) /\ 3 + i \in 1..51
        BY <2>1, <2>2, <3>3, TheStatements
      <4>2. QED
        BY <4>1
    <3>4. QED
      BY <3>1, <3>2, <3>3
  <2>3. CASE t = "jobs"
    <3>1. InitSchema[12 + i] = Add(t, c) /\ 12 + i \in 1..51
      BY <1>5, <2>1, <2>3, TheStatements
    <3>2. QED
      BY <3>1
  <2>4. CASE t = "pi_sessions"
    <3>1. InitSchema[23 + i] = Add(t, c) /\ 23 + i \in 1..51
      BY <1>5, <2>1, <2>4, TheStatements
    <3>2. QED
      BY <3>1
  <2>5. CASE t = "pi_session_events"
    <3>1. i = 1
      BY <1>5, <2>5
    <3>2. InitSchema[40] = Add(t, c)
      BY <2>1, <2>5, <3>1, TheStatements
    <3>3. QED
      BY <3>2
  <2>6. CASE t = "pi_session_commands"
    <3>1. i = 1
      BY <1>5, <2>6
    <3>2. InitSchema[46] = Add(t, c)
      BY <2>1, <2>6, <3>1, TheStatements
    <3>3. QED
      BY <3>2
  <2>7. QED
    BY <2>2, <2>3, <2>4, <2>5, <2>6 DEF Tables
<1>11. QED
  BY <1>1, <1>7, <1>8, <1>9, <1>10

-----------------------------------------------------------------------------
(* How a process goes through the list.                                    *)

\* Going on from k leads to m, over ALTERs whose column is in cols.
Leads(k, cols, m) ==
    /\ m \in k + 1 .. 52
    /\ m # 52 /\ InitSchema[m].op = "add" => InitSchema[m].col \notin cols
    /\ \A j \in k + 1 .. m - 1 : InitSchema[j].op = "add" /\ InitSchema[j].col \in cols

\* The next statement is the first that is not skipped.
LEMMA AdvanceDoes ==
    ASSUME NEW p \in Procs, pc \in [Procs -> 0..Done], pc[p] \in 0..51,
           NEW cols,
           Advance(p, cols)
    PROVE  \E m \in 1..52 : pc' = [pc EXCEPT ![p] = m] /\ Leads(pc[p], cols, m)
<1> DEFINE Runs(k) == k = Done \/ (InitSchema[k].op = "add" => ColumnMissing(cols, InitSchema[k]))
           left == {k \in pc[p] + 1 .. Done : Runs(k)}
           m == CHOOSE k \in left : \A j \in left : k <= j
<1>1. pc' = [pc EXCEPT ![p] = m]
  BY DEF Advance
<1>2. Done = 52 /\ left \subseteq Nat /\ 52 \in left
  BY ByPlace
<1> HIDE DEF m
<1>3. m \in left /\ \A j \in left : m <= j
  <2>1. \E k \in left : \A j \in left : k <= j
    BY <1>2, SmallestOf
  <2> HIDE DEF left
  <2>2. QED
    BY <2>1 DEF m
<1>4. m \in pc[p] + 1 .. 52 /\ Runs(m)
  BY <1>2, <1>3
<1>5. ASSUME NEW j \in pc[p] + 1 .. m - 1
      PROVE  InitSchema[j].op = "add" /\ InitSchema[j].col \in cols
  <2>1. j \in pc[p] + 1 .. 52 /\ ~(m <= j)
    BY <1>4
  <2>2. j \notin left
    BY <1>3, <2>1
  <2>3. QED
    BY <1>2, <2>1, <2>2 DEF ColumnMissing
<1>6. ASSUME m # 52, InitSchema[m].op = "add"
      PROVE  InitSchema[m].col \notin cols
  <2>1. m # Done
    BY <1>2, <1>6
  <2>2. QED
    BY <1>4, <1>6, <2>1 DEF ColumnMissing
<1>7. m \in 1..52
  BY <1>4
<1>8. Leads(pc[p], cols, m)
  BY <1>4, <1>5, <1>6 DEF Leads
<1>9. QED
  BY <1>1, <1>7, <1>8

\* What is passed over, and where it leads.
LEMMA LeadsDoes ==
    ASSUME NEW k \in 0..51, NEW cols, NEW m, Leads(k, cols, m)
    PROVE  /\ m \in k + 1 .. 52
           /\ \A n \in {6, 41, 42, 43, 47, 48, 49, 50, 51} : k < n => m <= n
           /\ \A j \in k + 1 .. m - 1 :
                /\ InitSchema[j].op = "add" /\ InitSchema[j].col \in cols
                /\ k # 0 /\ InitSchema[k].op \in {"pragma", "add", "fill"}
                /\ InitSchema[j].table = InitSchema[k].table
           /\ m # 52 /\ InitSchema[m].op \in {"add", "fill"} =>
                /\ k # 0 /\ InitSchema[k].op \in {"pragma", "add", "fill"}
                /\ InitSchema[m].table = InitSchema[k].table
           /\ m # 52 /\ InitSchema[m].op = "add" => InitSchema[m].col \notin cols
<1>1. m \in k + 1 .. 52 /\ \A j \in k + 1 .. m - 1 : j \in 1..51 /\ OpAt(j) = "add"
  BY ByPlace DEF Leads
<1>2. ASSUME NEW n \in {1, 2, 6, 11, 12, 22, 23, 38, 39, 41, 42, 43, 44, 45, 47, 48, 49, 50, 51}, k < n
      PROVE  m <= n
  BY <1>1, <1>2 DEF OpAt
<1>3. ASSUME NEW j \in 1..51, k < j, j <= m, OpAt(j) \in {"add", "fill"}
      PROVE  k # 0 /\ OpAt(k) \in {"pragma", "add", "fill"} /\ TableAt(j) = TableAt(k)
  <2>1. \A n \in {1, 2, 6, 11, 12, 22, 23, 38, 39, 41, 42, 43, 44, 45, 47, 48, 49, 50, 51} :
            k < n => j <= n
    BY <1>1, <1>2, <1>3
  <2>2. CASE j \in 3..10
    <3>1. k \in 2..9
      BY <1>3, <2>1, <2>2
    <3>2. QED
      BY <2>2, <3>1 DEF OpAt, TableAt
  <2>3. CASE j \in 13..21
    <3>1. k \in 12..20
      BY <1>3, <2>1, <2>3
    <3>2. QED
      BY <2>3, <3>1 DEF OpAt, TableAt
  <2>4. CASE j \in 24..37
    <3>1. k \in 23..36
      BY <1>3, <2>1, <2>4
    <3>2. QED
      BY <2>4, <3>1 DEF OpAt, TableAt
  <2>5. CASE j \in {40, 46}
    <3>1. (k = 39 /\ j = 40) \/ (k = 45 /\ j = 46)
      BY <1>3, <2>1, <2>5
    <3>2. QED
      BY <3>1 DEF OpAt, TableAt
  <2>6. QED
    BY <1>3, <2>2, <2>3, <2>4, <2>5 DEF OpAt
<1>4. QED
  BY <1>1, <1>2, <1>3, ByPlace DEF Leads

\* Where the statements on data are.
LEMMA Places ==
    ASSUME NEW k \in 1..51
    PROVE  /\ InitSchema[k].op \in Ops /\ InitSchema[k].table \in Tables
           /\ InitSchema[k].op = "fill" <=> k = 6
           /\ InitSchema[k].op = "number" <=> k = 41
           /\ InitSchema[k].op = "index" <=> k = 42
           /\ InitSchema[k].op = "trigger" <=> k = 43
           /\ InitSchema[k].op = "commands" <=> k = 47
           /\ InitSchema[k].op = "events" <=> k = 48
           /\ InitSchema[k].op = "parents" <=> k = 49
           /\ InitSchema[k].op = "sessions" <=> k = 50
           /\ InitSchema[k].op = "commit" <=> k = 51
           /\ InitSchema[k].op = "create" /\ InitSchema[k].table = "workers" => k = 1
           /\ InitSchema[k].op = "add" =>
                \E j \in 1..51 : j < k /\ InitSchema[j].op = "create"
                                 /\ InitSchema[j].table = InitSchema[k].table
<1>1. InitSchema[k].op = OpAt(k) /\ InitSchema[k].table = TableAt(k)
  BY ByPlace
<1>2. OpAt(k) = "add" => \E j \in {1, 11, 22, 38, 44} : j < k /\ TableAt(j) = TableAt(k)
  BY DEF OpAt, TableAt
<1>3. ASSUME NEW j \in {1, 11, 22, 38, 44}
      PROVE  j \in 1..51 /\ InitSchema[j].op = "create" /\ InitSchema[j].table = TableAt(j)
  BY ByPlace DEF OpAt
<1>4. /\ OpAt(k) \in Ops
      /\ OpAt(k) = "fill" <=> k = 6
      /\ OpAt(k) = "number" <=> k = 41
      /\ OpAt(k) = "index" <=> k = 42
      /\ OpAt(k) = "trigger" <=> k = 43
      /\ OpAt(k) = "commands" <=> k = 47
      /\ OpAt(k) = "events" <=> k = 48
      /\ OpAt(k) = "parents" <=> k = 49
      /\ OpAt(k) = "sessions" <=> k = 50
      /\ OpAt(k) = "commit" <=> k = 51
  <2>1. OpAt(k) \in Ops
    BY DEF OpAt, Ops
  <2>2. OpAt(k) = "fill" <=> k = 6
    BY DEF OpAt
  <2>3. OpAt(k) = "number" <=> k = 41
    BY DEF OpAt
  <2>4. OpAt(k) = "index" <=> k = 42
    BY DEF OpAt
  <2>5. OpAt(k) = "trigger" <=> k = 43
    BY DEF OpAt
  <2>6. OpAt(k) = "commands" <=> k = 47
    BY DEF OpAt
  <2>7. OpAt(k) = "events" <=> k = 48
    BY DEF OpAt
  <2>8. OpAt(k) = "parents" <=> k = 49
    BY DEF OpAt
  <2>9. OpAt(k) = "sessions" <=> k = 50
    BY DEF OpAt
  <2>10. OpAt(k) = "commit" <=> k = 51
    BY DEF OpAt
  <2>11. QED
    BY <2>1, <2>2, <2>3, <2>4, <2>5, <2>6, <2>7, <2>8, <2>9, <2>10
<1>5. /\ TableAt(k) \in Tables
      /\ OpAt(k) = "create" /\ TableAt(k) = "workers" => k = 1
  BY DEF OpAt, TableAt, Tables
<1>6. OpAt(k) = "add" => \E j \in 1..51 : j < k /\ InitSchema[j].op = "create"
                                 /\ InitSchema[j].table = TableAt(k)
  BY <1>2, <1>3
<1>7. QED
  BY <1>1, <1>4, <1>5, <1>6

\* Statements on the schema are none of those on data.
LEMMA OtherPlaces ==
    ASSUME NEW k \in 1..51,
           InitSchema[k].op \in {"create", "pragma", "add", "index", "trigger"}
    PROVE  k \in 1..50 /\ k \notin {6, 41, 47, 48, 49, 50, 51}
<1>1. k # 6 /\ k # 41 /\ k # 47
  BY Places
<1>2. k # 48 /\ k # 49 /\ k # 50 /\ k # 51
  BY Places
<1>3. QED
  BY <1>1, <1>2

-----------------------------------------------------------------------------
(* The inductive invariant.                                                *)

\* The cursors of all sessions, and the sessions that are not delegated.
InOrder(d) == \A i \in DOMAIN d.events : d.events[i].seq = Rank(d, i)
Unnumbered(d) == \A i \in DOMAIN d.events : d.events[i].seq = 0
Interactive(d) == {s.id : s \in {r \in d.sessions : r.kind # "delegated"}}

\* What a statement has left in a database: of tables, columns, index, trigger,
HasSchema(d, s) ==
    /\ s.op = "create" => s.table \in d.tables
    /\ s.op = "add" => s.col \in d.cols[s.table]
    /\ s.op = "index" => d.indexed
    /\ s.op = "trigger" => d.trigger

\* and of the rows the statements before place k: the backfill and the deletions.
DataFits(d, k) ==
    /\ k > 41 => InOrder(d)
    /\ k > 47 => d.commands \cap Delegated(d) = {}
    /\ k > 48 => \A i \in DOMAIN d.events : d.events[i].session \notin Delegated(d)
    /\ k > 49 => \A r \in d.sessions : r.parent \notin Delegated(d)
    /\ k > 50 => Delegated(d) = {}

\* A database that an old file can become.
WellFormed(d) ==
    /\ IsDatabase(d)
    /\ References(d)
    /\ \A t \in Tables \ d.tables : d.cols[t] = {}
    /\ \A w \in Workers \cap DOMAIN d.addr : d.addr[w] # "new"
    /\ d.trigger => InOrder(d)
    /\ InOrder(d) \/ Unnumbered(d)

\* The addresses are still to be moved.
Blank(d) == \E w \in Workers \cap DOMAIN d.addr : d.addr[w] # "old"

\* e has the schema of d and maybe more.
Grows(d, e) ==
    /\ d.tables \subseteq e.tables
    /\ \A t \in Tables : /\ d.cols[t] \subseteq e.cols[t]
                         /\ "zerotier_ip" \in e.cols[t] => "zerotier_ip" \in d.cols[t]
    /\ d.indexed => e.indexed
    /\ d.trigger => e.trigger

\* e has what interactive agents have in d.
Keeps(d, e) ==
    /\ Delegated(e) \subseteq Delegated(d)
    /\ Interactive(d) \subseteq Interactive(e)
    /\ d.commands \ Delegated(d) \subseteq e.commands
    /\ \A i \in DOMAIN d.events : d.events[i].session \notin Delegated(d) =>
        /\ i \in DOMAIN e.events
        /\ e.events[i].session = d.events[i].session
        /\ d.events[i].seq # 0 => e.events[i].seq = d.events[i].seq

\* What a transaction has done about the addresses.
MovesAddresses(d, e) ==
    /\ Blank(e) => Blank(d)
    /\ "worker_ip" \in e.cols["workers"] => "worker_ip" \in d.cols["workers"]

\* What any step may do to the file.
Follows(d, e) == Grows(d, e) /\ Keeps(d, e)

\* What a process with transaction t sees of the file d.
ViewOf(d, t) == IF t = NoTx THEN d ELSE t

\* What holds of a process: d is the file, t its transaction, k its place and
\* s the columns it has seen.
TxFits(d, t, k) ==
    /\ t # NoTx => k \in 7..51 /\ Follows(d, t) /\ MovesAddresses(d, t)
    /\ k \in 42..51 => t # NoTx

\* The statements passed have done what they do.
PassedFits(d, t, k) ==
    /\ \A j \in 1..51 : j < k => HasSchema(ViewOf(d, t), InitSchema[j])
    /\ t # NoTx => DataFits(t, k)
    /\ k = 52 => Delegated(d) = {}

\* Where an ALTER is next its column was missing when p looked.
SeenFits(d, t, k, s) ==
    k \in 1..51 /\ InitSchema[k].op \in {"add", "fill"} =>
        LET cols == ViewOf(d, t).cols[InitSchema[k].table]
        IN  /\ s \subseteq cols
            /\ "zerotier_ip" \in cols => "zerotier_ip" \in s
            /\ InitSchema[k].op = "add" => InitSchema[k].col \notin s

\* All that holds of one process.
Fits(d, t, k, s) == TxFits(d, t, k) /\ PassedFits(d, t, k) /\ SeenFits(d, t, k, s)

\* A process that is about to move the addresses.
AtFill(k, s) == k = 6 /\ "worker_ip" \notin s /\ "zerotier_ip" \in s

\* The file and the transactions are databases; without the trigger no event of
\* the file is numbered.
MigTypes ==
    /\ WellFormed(db)
    /\ ~db.trigger => Unnumbered(db)
    /\ DOMAIN tx = Procs
    /\ \A p \in Procs : tx[p] # NoTx => WellFormed(tx[p])
    /\ pc \in [Procs -> 0..52]
    /\ DOMAIN seen = Procs
    /\ failed \subseteq Procs
    /\ cut \in BOOLEAN

\* One process has the write lock.
OneWriter == \A p, q \in Procs : tx[p] # NoTx /\ tx[q] # NoTx => p = q

\* Addresses that have not been moved are under the old name, or somebody is
\* about to move them or has in its transaction, or one died in between.
AddressesFit ==
    /\ Blank(db) /\ "worker_ip" \notin db.cols["workers"]
            => "zerotier_ip" \in db.cols["workers"]
    /\ Blank(db) /\ "worker_ip" \in db.cols["workers"] /\ ~cut
            => \E p \in Procs : \/ AtFill(pc[p], seen[p])
                                \/ tx[p] # NoTx /\ ~Blank(tx[p])

\* It holds of every process.
ProcsFit == \A p \in Procs : Fits(db, tx[p], pc[p], seen[p])

\* The inductive invariant of the migration.
MInv == MigTypes /\ OneWriter /\ ProcsFit /\ AddressesFit

-----------------------------------------------------------------------------
\* The columns a process has seen are those the table has.
SeesAll(s, cols) == s \subseteq cols /\ ("zerotier_ip" \in cols => "zerotier_ip" \in s)

\* Leaving the file alone takes nothing from anybody.
LEMMA FollowsSelf == ASSUME NEW d PROVE Follows(d, d)
  BY DEF Follows, Grows, Keeps

\* Two steps one after the other.
LEMMA FollowsOn ==
    ASSUME NEW d, NEW e, NEW f, Follows(d, e), Follows(e, f)
    PROVE  Follows(d, f)
<1>1. Grows(d, f)
  BY DEF Follows, Grows
<1>2. /\ Delegated(f) \subseteq Delegated(d)
      /\ Interactive(d) \subseteq Interactive(f)
  BY DEF Follows, Keeps
<1>3. d.commands \ Delegated(d) \subseteq f.commands
  BY DEF Follows, Keeps
<1>4. ASSUME NEW i \in DOMAIN d.events, d.events[i].session \notin Delegated(d)
      PROVE  /\ i \in DOMAIN f.events
             /\ f.events[i].session = d.events[i].session
             /\ d.events[i].seq # 0 => f.events[i].seq = d.events[i].seq
  <2>1. /\ i \in DOMAIN e.events
        /\ e.events[i].session = d.events[i].session
        /\ d.events[i].seq # 0 => e.events[i].seq = d.events[i].seq
    BY <1>4 DEF Follows, Keeps
  <2>2. e.events[i].session \notin Delegated(e)
    BY <1>4, <2>1 DEF Follows, Keeps
  <2>3. QED
    BY <2>1, <2>2 DEF Follows, Keeps
<1>5. QED
  BY <1>1, <1>2, <1>3, <1>4 DEF Follows, Keeps

\* Statements that were passed stay passed.
LEMMA SchemaStays ==
    ASSUME NEW d, NEW e, Grows(d, e), NEW j \in 1..51, HasSchema(d,
           InitSchema[j])
    PROVE  HasSchema(e, InitSchema[j])
<1>1. InitSchema[j].table \in Tables
  BY Places
<1>2. QED
  BY <1>1 DEF Grows, HasSchema

\* A process that does nothing, while the file may change.
LEMMA OtherFits ==
    ASSUME NEW d, NEW e, NEW t, NEW k \in 0..52, NEW s, Fits(d, t, k, s),
           Follows(d, e),
           t # NoTx => e = d
    PROVE  Fits(e, t, k, s)
<1>1. CASE t # NoTx
  BY <1>1
<1>2. CASE t = NoTx
  <2>1. TxFits(e, t, k)
    BY <1>2 DEF Fits, TxFits
  <2>2. ViewOf(d, t) = d /\ ViewOf(e, t) = e
    BY <1>2 DEF ViewOf
  <2>3. ASSUME NEW j \in 1..51, j < k PROVE HasSchema(e, InitSchema[j])
    <3>1. HasSchema(d, InitSchema[j])
      BY <2>2, <2>3 DEF Fits, PassedFits
    <3>2. QED
      BY <3>1, SchemaStays DEF Follows
  <2>4. k = 52 => Delegated(e) = {}
    BY DEF Fits, PassedFits, Follows, Keeps
  <2>5. PassedFits(e, t, k)
    BY <1>2, <2>2, <2>3, <2>4 DEF PassedFits
  <2>6. ASSUME k \in 1..51, InitSchema[k].op \in {"add", "fill"}
        PROVE  /\ s \subseteq e.cols[InitSchema[k].table]
               /\ "zerotier_ip" \in e.cols[InitSchema[k].table] => "zerotier_ip" \in s
               /\ InitSchema[k].op = "add" => InitSchema[k].col \notin s
    <3>1. InitSchema[k].table \in Tables
      BY <2>6, Places
    <3>2. /\ s \subseteq d.cols[InitSchema[k].table]
          /\ "zerotier_ip" \in d.cols[InitSchema[k].table] => "zerotier_ip" \in s
          /\ InitSchema[k].op = "add" => InitSchema[k].col \notin s
      BY <2>2, <2>6 DEF Fits, SeenFits
    <3>3. QED
      BY <3>1, <3>2 DEF Follows, Grows
  <2>7. SeenFits(e, t, k, s)
    BY <2>2, <2>6 DEF SeenFits
  <2>8. QED
    BY <2>1, <2>5, <2>7 DEF Fits
<1>3. QED
  BY <1>1, <1>2

\* A process that goes on, having done statement k.
LEMMA GoesOn ==
    ASSUME NEW e, NEW u, NEW k \in 0..51, NEW m, NEW s, Leads(k, s, m),
           \A j \in 1..51 : j <= k => HasSchema(ViewOf(e, u), InitSchema[j]),
           u # NoTx => /\ k \in 6..50 /\ Follows(e, u) /\ MovesAddresses(e, u)
                       /\ DataFits(u, k + 1),
           k \in 41..50 => u # NoTx,
           k = 51 => Delegated(e) = {},
           k # 0 /\ InitSchema[k].op \in {"pragma", "add", "fill"} =>
                SeesAll(s, ViewOf(e, u).cols[InitSchema[k].table])
    PROVE  Fits(e, u, m, s) /\ m \in 1..52
<1> DEFINE v == ViewOf(e, u)
<1>1. /\ m \in k + 1 .. 52
      /\ \A n \in {6, 41, 42, 43, 47, 48, 49, 50, 51} : k < n => m <= n
      /\ \A j \in k + 1 .. m - 1 :
            /\ InitSchema[j].op = "add" /\ InitSchema[j].col \in s
            /\ k # 0 /\ InitSchema[k].op \in {"pragma", "add", "fill"}
            /\ InitSchema[j].table = InitSchema[k].table
      /\ m # 52 /\ InitSchema[m].op \in {"add", "fill"} =>
            /\ k # 0 /\ InitSchema[k].op \in {"pragma", "add", "fill"}
            /\ InitSchema[m].table = InitSchema[k].table
      /\ m # 52 /\ InitSchema[m].op = "add" => InitSchema[m].col \notin s
  BY LeadsDoes
<1> HIDE DEF v
<1>2. TxFits(e, u, m)
  <2>1. u # NoTx => m \in 7..51
    BY <1>1
  <2>2. m \in 42..51 => k \in 41..50
    BY <1>1
  <2>3. QED
    BY <2>1, <2>2 DEF TxFits
<1>3. ASSUME NEW j \in 1..51, j < m, ~(j <= k)
      PROVE  /\ InitSchema[j].op = "add" /\ InitSchema[j].col \in s
             /\ InitSchema[j].col \in v.cols[InitSchema[j].table]
  <2>1. j \in k + 1 .. m - 1
    BY <1>1, <1>3
  <2>2. /\ InitSchema[j].op = "add" /\ InitSchema[j].col \in s
        /\ k # 0 /\ InitSchema[k].op \in {"pragma", "add", "fill"}
        /\ InitSchema[j].table = InitSchema[k].table
    BY <1>1, <2>1
  <2>3. QED
    BY <2>2 DEF v, SeesAll
<1>4. PassedFits(e, u, m)
  <2>1. ASSUME NEW j \in 1..51, j < m PROVE HasSchema(v, InitSchema[j])
    BY <1>3, <2>1 DEF HasSchema, v
  <2>2. ASSUME u # NoTx PROVE DataFits(u, m)
    <3>1. \A n \in {41, 47, 48, 49, 50} : m > n => k + 1 > n
      BY <1>1
    <3>2. DataFits(u, k + 1)
      BY <2>2
    <3>3. QED
      BY <3>1, <3>2 DEF DataFits
  <2>3. m = 52 => k = 51
    BY <1>1
  <2>4. QED
    BY <2>1, <2>2, <2>3 DEF PassedFits, v
<1>5. SeenFits(e, u, m, s)
  <2>1. ASSUME m \in 1..51, InitSchema[m].op \in {"add", "fill"}
        PROVE  /\ s \subseteq v.cols[InitSchema[m].table]
               /\ "zerotier_ip" \in v.cols[InitSchema[m].table] => "zerotier_ip" \in s
               /\ InitSchema[m].op = "add" => InitSchema[m].col \notin s
    BY <1>1, <2>1 DEF v, SeesAll
  <2>2. QED
    BY <2>1 DEF SeenFits, v
<1>6. QED
  BY <1>1, <1>2, <1>4, <1>5 DEF Fits

-----------------------------------------------------------------------------
(* What each statement does to a database.                                 *)

\* The fields of a database.
Fields == {"tables", "cols", "addr", "events", "sessions", "commands", "indexed", "trigger"}

\* A database is not the absence of a transaction.
LEMMA DatabaseIsNoTx == ASSUME NEW d, IsDatabase(d) PROVE d # NoTx
<1>1. DOMAIN NoTx = {"open"}
  BY DEF NoTx
<1>2. DOMAIN d = Fields
  BY DEF IsDatabase, Fields
<1>3. "tables" \in Fields /\ "tables" \notin {"open"}
  BY DEF Fields
<1>4. QED
  BY <1>1, <1>2, <1>3

\* Databases with the same events number them the same.
LEMMA SameEvents ==
    ASSUME NEW d, NEW n, n.events = d.events
    PROVE  /\ \A i : Rank(n, i) = Rank(d, i)
           /\ InOrder(d) => InOrder(n)
           /\ Unnumbered(d) => Unnumbered(n)
<1>1. \A s : EventsOf(n, s) = EventsOf(d, s)
  BY DEF EventsOf
<1>2. \A i : Rank(n, i) = Rank(d, i)
  BY <1>1 DEF Rank
<1>3. QED
  BY <1>2 DEF InOrder, Unnumbered

\* Databases with the same records and at least the schema.
LEMMA SchemaGrows ==
    ASSUME NEW d, NEW n, Grows(d, n),
           n.sessions = d.sessions, n.commands = d.commands, n.events = d.events
    PROVE  Follows(d, n) /\ Delegated(n) = Delegated(d)
<1>1. Delegated(n) = Delegated(d) /\ Interactive(n) = Interactive(d)
  BY DEF Delegated, Interactive
<1>2. QED
  BY <1>1 DEF Follows, Keeps

\* The database after CREATE TABLE.
WithTable(d, t) == [d EXCEPT !.tables = @ \cup {t}, !.cols[t] = Current(t)]

\* A new table is there and nothing else changes.
LEMMA CreateDoes ==
    ASSUME NEW d, WellFormed(d), NEW t \in Tables, t \notin d.tables,
           NEW n, n = WithTable(d, t)
    PROVE  /\ WellFormed(n) /\ Follows(d, n) /\ t \in n.tables
           /\ n.addr = d.addr /\ n.trigger = d.trigger /\ n.events = d.events
           /\ Delegated(n) = Delegated(d) /\ n.sessions = d.sessions /\ n.commands = d.commands
           /\ \A u \in Tables \ {t} : n.cols[u] = d.cols[u]
<1>1. DOMAIN d = Fields /\ DOMAIN d.cols = Tables
  BY DEF WellFormed, IsDatabase, Fields
<1>2. /\ DOMAIN n = Fields /\ n.tables = d.tables \cup {t}
      /\ n.cols = [d.cols EXCEPT ![t] = Current(t)]
      /\ n.addr = d.addr /\ n.events = d.events /\ n.sessions = d.sessions
      /\ n.commands = d.commands /\ n.indexed = d.indexed /\ n.trigger = d.trigger
  BY <1>1 DEF Fields, WithTable
<1>3. n.cols[t] = Current(t) /\ \A u \in Tables \ {t} : n.cols[u] = d.cols[u]
  BY <1>1, <1>2
<1>4. Current(t) \subseteq Columns(t) /\ "zerotier_ip" \notin Current(t)
  BY AddedAreColumns DEF Columns
<1>5. Current(t) \subseteq UNION {Columns(u) : u \in Tables}
  BY <1>4
<1>6. n.cols \in [Tables -> SUBSET UNION {Columns(u) : u \in Tables}]
      /\ \A u \in Tables : n.cols[u] \subseteq Columns(u)
  <2>1. d.cols \in [Tables -> SUBSET UNION {Columns(u) : u \in Tables}]
        /\ \A u \in Tables : d.cols[u] \subseteq Columns(u)
    BY DEF WellFormed, IsDatabase
  <2>2. QED
    BY <1>2, <1>3, <1>4, <1>5, <2>1
<1>7. n.tables \subseteq Tables
  BY <1>2 DEF WellFormed, IsDatabase
<1>8. IsDatabase(n)
  BY <1>2, <1>6, <1>7 DEF WellFormed, IsDatabase, Fields
<1>9. Grows(d, n)
  <2>1. d.cols[t] = {}
    BY DEF WellFormed
  <2>2. QED
    BY <1>2, <1>3, <1>4, <2>1 DEF Grows
<1>10. References(n)
  BY <1>2 DEF WellFormed, References, SessionIds
<1>11. WellFormed(n)
  BY <1>2, <1>3, <1>8, <1>10, SameEvents DEF WellFormed
<1>12. QED
  BY <1>2, <1>3, <1>9, <1>11, SchemaGrows

\* The database after ALTER TABLE.
WithColumn(d, t, c) == [d EXCEPT !.cols[t] = @ \cup {c}]

\* A new column is there and nothing else changes.
LEMMA AddDoes ==
    ASSUME NEW d, WellFormed(d), NEW t \in Tables, t \in d.tables,
           NEW c \in Current(t), NEW n,
           n = WithColumn(d, t, c)
    PROVE  /\ WellFormed(n) /\ Follows(d, n) /\ c \in n.cols[t]
           /\ n.addr = d.addr /\ n.trigger = d.trigger /\ n.events = d.events
           /\ Delegated(n) = Delegated(d) /\ n.sessions = d.sessions /\ n.commands = d.commands
           /\ n.cols[t] = d.cols[t] \cup {c} /\ \A u \in Tables \ {t} : n.cols[u] = d.cols[u]
<1>1. DOMAIN d = Fields /\ DOMAIN d.cols = Tables
  BY DEF WellFormed, IsDatabase, Fields
<1>2. /\ DOMAIN n = Fields /\ n.tables = d.tables
      /\ n.cols = [d.cols EXCEPT ![t] = d.cols[t] \cup {c}]
      /\ n.addr = d.addr /\ n.events = d.events /\ n.sessions = d.sessions
      /\ n.commands = d.commands /\ n.indexed = d.indexed /\ n.trigger = d.trigger
  BY <1>1 DEF Fields, WithColumn
<1>3. n.cols[t] = d.cols[t] \cup {c} /\ \A u \in Tables \ {t} : n.cols[u] = d.cols[u]
  BY <1>1, <1>2
<1>4. c \in Columns(t) /\ c # "zerotier_ip"
  BY AddedAreColumns DEF Columns
<1>5. c \in UNION {Columns(u) : u \in Tables}
  BY <1>4
<1>6. n.cols \in [Tables -> SUBSET UNION {Columns(u) : u \in Tables}]
      /\ \A u \in Tables : n.cols[u] \subseteq Columns(u)
  <2>1. d.cols \in [Tables -> SUBSET UNION {Columns(u) : u \in Tables}]
        /\ \A u \in Tables : d.cols[u] \subseteq Columns(u)
    BY DEF WellFormed, IsDatabase
  <2>2. QED
    BY <1>2, <1>3, <1>4, <1>5, <2>1
<1>7. IsDatabase(n)
  BY <1>2, <1>6 DEF WellFormed, IsDatabase, Fields
<1>8. Grows(d, n)
  BY <1>2, <1>3, <1>4 DEF Grows
<1>9. References(n)
  BY <1>2 DEF WellFormed, References, SessionIds
<1>10. WellFormed(n)
  BY <1>2, <1>3, <1>7, <1>9, SameEvents DEF WellFormed
<1>11. QED
  BY <1>2, <1>3, <1>8, <1>10, SchemaGrows

\* The database after the UPDATE of the addresses.
WithAddresses(d) == [d EXCEPT !.addr = [w \in DOMAIN @ |-> "old"]]

\* No address is left to be moved.
LEMMA FillDoes ==
    ASSUME NEW d, WellFormed(d), NEW n, n = WithAddresses(d)
    PROVE  /\ WellFormed(n) /\ Follows(d, n) /\ MovesAddresses(d, n) /\ ~Blank(n)
           /\ n.cols = d.cols
           /\ Delegated(n) = Delegated(d) /\ n.events = d.events
           /\ n.sessions = d.sessions /\ n.commands = d.commands
<1>1. DOMAIN d = Fields
  BY DEF WellFormed, IsDatabase, Fields
<1>2. /\ DOMAIN n = Fields /\ n.tables = d.tables /\ n.cols = d.cols
      /\ n.addr = [w \in DOMAIN d.addr |-> "old"]
      /\ n.events = d.events /\ n.sessions = d.sessions
      /\ n.commands = d.commands /\ n.indexed = d.indexed /\ n.trigger = d.trigger
  BY <1>1 DEF Fields, WithAddresses
<1>3. IsDatabase(n)
  <2>1. n.addr \in [DOMAIN n.addr -> {"", "old", "new"}]
    BY <1>2
  <2>2. QED
    BY <1>2, <2>1 DEF WellFormed, IsDatabase, Fields
<1>4. References(n)
  BY <1>2 DEF WellFormed, References, SessionIds
<1>5. Grows(d, n)
  BY <1>2 DEF Grows
<1>6. WellFormed(n)
  <2>1. \A w \in Workers \cap DOMAIN n.addr : n.addr[w] # "new"
    BY <1>2
  <2>2. (d.trigger => InOrder(n)) /\ (InOrder(n) \/ Unnumbered(n))
    BY <1>2, SameEvents DEF WellFormed
  <2>3. QED
    BY <1>2, <1>3, <1>4, <2>1, <2>2 DEF WellFormed
<1>7. ~Blank(n)
  BY <1>2 DEF Blank
<1>8. QED
  BY <1>2, <1>5, <1>6, <1>7, SchemaGrows DEF MovesAddresses

\* The index is there and nothing else changes.
LEMMA IndexDoes ==
    ASSUME NEW d, WellFormed(d), NEW n, n = [d EXCEPT !.indexed = TRUE]
    PROVE  /\ WellFormed(n) /\ Follows(d, n) /\ MovesAddresses(d, n) /\ n.indexed
           /\ n.cols = d.cols /\ n.addr = d.addr
           /\ Delegated(n) = Delegated(d) /\ n.events = d.events
           /\ n.sessions = d.sessions /\ n.commands = d.commands
<1>1. DOMAIN d = Fields
  BY DEF WellFormed, IsDatabase, Fields
<1>2. /\ DOMAIN n = Fields /\ n.tables = d.tables /\ n.cols = d.cols
      /\ n.addr = d.addr /\ n.events = d.events /\ n.sessions = d.sessions
      /\ n.commands = d.commands /\ n.indexed = TRUE /\ n.trigger = d.trigger
  BY <1>1 DEF Fields
<1>3. IsDatabase(n)
  BY <1>2 DEF WellFormed, IsDatabase, Fields
<1>4. References(n)
  BY <1>2 DEF WellFormed, References, SessionIds
<1>5. Grows(d, n)
  BY <1>2 DEF Grows
<1>6. WellFormed(n)
  BY <1>2, <1>3, <1>4, SameEvents DEF WellFormed
<1>7. QED
  BY <1>2, <1>5, <1>6, SchemaGrows DEF MovesAddresses, Blank

\* The trigger is there and nothing else changes; the events are in order.
LEMMA TriggerDoes ==
    ASSUME NEW d, WellFormed(d), InOrder(d),
           NEW n, n = [d EXCEPT !.trigger = TRUE]
    PROVE  /\ WellFormed(n) /\ Follows(d, n) /\ MovesAddresses(d, n) /\ n.trigger
           /\ n.cols = d.cols /\ n.addr = d.addr
           /\ Delegated(n) = Delegated(d) /\ n.events = d.events
           /\ n.sessions = d.sessions /\ n.commands = d.commands
<1>1. DOMAIN d = Fields
  BY DEF WellFormed, IsDatabase, Fields
<1>2. /\ DOMAIN n = Fields /\ n.tables = d.tables /\ n.cols = d.cols
      /\ n.addr = d.addr /\ n.events = d.events /\ n.sessions = d.sessions
      /\ n.commands = d.commands /\ n.indexed = d.indexed /\ n.trigger = TRUE
  BY <1>1 DEF Fields
<1>3. IsDatabase(n)
  BY <1>2 DEF WellFormed, IsDatabase, Fields
<1>4. References(n)
  BY <1>2 DEF WellFormed, References, SessionIds
<1>5. Grows(d, n)
  BY <1>2 DEF Grows
<1>6. WellFormed(n)
  BY <1>2, <1>3, <1>4, SameEvents DEF WellFormed
<1>7. QED
  BY <1>2, <1>5, <1>6, SchemaGrows DEF MovesAddresses, Blank

\* The events of a session that are at or before row i.
Before(d, s, i) == {j \in EventsOf(d, s) : j <= i}

\* The rows of a session that have a rowid up to some number.
LEMMA RowsUpTo ==
    ASSUME MaxEvents \in Nat, NEW d, DOMAIN d.events \subseteq 1..MaxEvents,
           NEW s, NEW i
    PROVE  /\ IsFiniteSet(EventsOf(d, s))
           /\ IsFiniteSet(Before(d, s, i))
           /\ Cardinality(Before(d, s, i)) \in 0..Cardinality(EventsOf(d, s))
           /\ Cardinality(EventsOf(d, s)) \in 0..MaxEvents
<1>1. IsFiniteSet(1..MaxEvents) /\ Cardinality(1..MaxEvents) = MaxEvents
  BY FS_Interval
<1>2. EventsOf(d, s) \subseteq 1..MaxEvents
  BY DEF EventsOf
<1>3. IsFiniteSet(EventsOf(d, s)) /\ Cardinality(EventsOf(d, s)) <= MaxEvents
  BY <1>1, <1>2, FS_Subset
<1>4. Before(d, s, i) \subseteq EventsOf(d, s)
  BY DEF Before
<1>5. /\ IsFiniteSet(Before(d, s, i))
      /\ Cardinality(Before(d, s, i)) <= Cardinality(EventsOf(d, s))
  BY <1>3, <1>4, FS_Subset
<1>6. Cardinality(EventsOf(d, s)) \in Nat /\ Cardinality(Before(d, s, i)) \in Nat
  BY <1>3, <1>5, FS_CardinalityType
<1>7. QED
  BY <1>3, <1>5, <1>6

\* The backfill numbers the events of each session 1, 2, 3, ... and keeps the
\* numbers there are.
LEMMA NumberDoes ==
    ASSUME MaxEvents \in Nat, NEW d, WellFormed(d), NEW n,
           n = [d EXCEPT !.events = Numbered(d)]
    PROVE  /\ WellFormed(n) /\ Follows(d, n) /\ MovesAddresses(d, n) /\ InOrder(n)
<1>1. DOMAIN d = Fields /\ DOMAIN d.events \subseteq 1..MaxEvents
  BY DEF WellFormed, IsDatabase, Fields
<1>2. /\ DOMAIN n = Fields /\ n.tables = d.tables /\ n.cols = d.cols
      /\ n.addr = d.addr /\ n.events = Numbered(d) /\ n.sessions = d.sessions
      /\ n.commands = d.commands /\ n.indexed = d.indexed /\ n.trigger = d.trigger
  BY <1>1 DEF Fields
<1>3. ASSUME NEW i \in DOMAIN d.events
      PROVE  /\ d.events[i] \in [session : Ids, seq : 0..MaxEvents]
             /\ Rank(d, i) \in 0..MaxEvents
             /\ Numbered(d)[i] = IF d.events[i].seq # 0 THEN d.events[i]
                                 ELSE [d.events[i] EXCEPT !.seq = Rank(d, i)]
  <2>1. d.events[i] \in [session : Ids, seq : 0..MaxEvents]
    BY DEF WellFormed, IsDatabase
  <2>2. Rank(d, i) \in 0..MaxEvents
    <3>1. Cardinality(Before(d, d.events[i].session, i)) \in 0..MaxEvents
      BY <1>1, RowsUpTo
    <3>2. QED
      BY <3>1 DEF Rank, Before
  <2>3. Numbered(d)[i] = IF d.events[i].seq # 0 THEN d.events[i]
                         ELSE [d.events[i] EXCEPT !.seq = Rank(d, i)]
    <3> DEFINE g(j) == IF d.events[j].seq # 0 THEN d.events[j]
                       ELSE [d.events[j] EXCEPT !.seq = Rank(d, j)]
    <3>1. Numbered(d) = [j \in DOMAIN d.events |-> g(j)]
      BY DEF Numbered
    <3> HIDE DEF g
    <3>2. Numbered(d)[i] = g(i)
      BY <3>1
    <3>3. QED
      BY <3>2 DEF g
  <2>4. QED
    BY <2>1, <2>2, <2>3
<1>4. DOMAIN n.events = DOMAIN d.events
  BY <1>2 DEF Numbered
<1>5. ASSUME NEW i \in DOMAIN d.events
      PROVE  /\ n.events[i] \in [session : Ids, seq : 0..MaxEvents]
             /\ n.events[i].session = d.events[i].session
             /\ d.events[i].seq # 0 => n.events[i].seq = d.events[i].seq
             /\ d.events[i].seq = 0 => n.events[i].seq = Rank(d, i)
  <2>1. ASSUME NEW e \in [session : Ids, seq : 0..MaxEvents], NEW r \in 0..MaxEvents, NEW f,
               f = IF e.seq # 0 THEN e ELSE [e EXCEPT !.seq = r]
        PROVE  /\ f \in [session : Ids, seq : 0..MaxEvents] /\ f.session = e.session
               /\ e.seq # 0 => f.seq = e.seq
               /\ e.seq = 0 => f.seq = r
    BY <2>1
  <2>2. n.events[i] = IF d.events[i].seq # 0 THEN d.events[i]
                      ELSE [d.events[i] EXCEPT !.seq = Rank(d, i)]
    BY <1>2, <1>3
  <2>3. QED
    BY <1>3, <2>1, <2>2
<1>6. \A s : EventsOf(n, s) = EventsOf(d, s)
  BY <1>4, <1>5 DEF EventsOf
<1>7. \A i \in DOMAIN d.events : Rank(n, i) = Rank(d, i)
  BY <1>5, <1>6 DEF Rank
<1>8. InOrder(n)
  <2>1. ASSUME NEW i \in DOMAIN d.events PROVE n.events[i].seq = Rank(d, i)
    <3>1. CASE d.events[i].seq = 0
      BY <1>5, <3>1
    <3>2. CASE d.events[i].seq # 0
      <4>1. InOrder(d)
        BY <3>2 DEF WellFormed, Unnumbered
      <4>2. QED
        BY <1>5, <3>2, <4>1 DEF InOrder
    <3>3. QED
      BY <3>1, <3>2
  <2>2. QED
    BY <1>4, <1>7, <2>1 DEF InOrder
<1>9. IsDatabase(n)
  <2>1. n.events \in [DOMAIN n.events -> [session : Ids, seq : 0..MaxEvents]]
    BY <1>2, <1>4, <1>5 DEF Numbered
  <2>2. QED
    BY <1>2, <1>4, <2>1 DEF WellFormed, IsDatabase, Fields
<1>10. References(n)
  BY <1>2, <1>4, <1>5 DEF WellFormed, References, SessionIds
<1>11. WellFormed(n)
  BY <1>2, <1>8, <1>9, <1>10 DEF WellFormed
<1>12. Delegated(n) = Delegated(d) /\ Interactive(n) = Interactive(d)
  BY <1>2 DEF Delegated, Interactive
<1>13. Follows(d, n)
  BY <1>2, <1>4, <1>5, <1>12 DEF Follows, Grows, Keeps
<1>14. QED
  BY <1>2, <1>8, <1>11, <1>13 DEF MovesAddresses, Blank

\* No delegated session has a command left.
LEMMA CommandsDoes ==
    ASSUME NEW d, WellFormed(d),
           NEW n, n = [d EXCEPT !.commands = @ \ SubSelect(d)]
    PROVE  /\ WellFormed(n) /\ Follows(d, n) /\ MovesAddresses(d, n)
           /\ n.commands \cap Delegated(n) = {}
           /\ Delegated(n) = Delegated(d) /\ n.events = d.events /\ n.sessions = d.sessions
<1>1. DOMAIN d = Fields
  BY DEF WellFormed, IsDatabase, Fields
<1>2. /\ DOMAIN n = Fields /\ n.tables = d.tables /\ n.cols = d.cols
      /\ n.addr = d.addr /\ n.events = d.events /\ n.sessions = d.sessions
      /\ n.commands = d.commands \ Delegated(d)
      /\ n.indexed = d.indexed /\ n.trigger = d.trigger
  BY <1>1 DEF Fields, SubSelect
<1>3. IsDatabase(n)
  BY <1>2 DEF WellFormed, IsDatabase, Fields
<1>4. References(n)
  BY <1>2 DEF WellFormed, References, SessionIds
<1>5. WellFormed(n)
  BY <1>2, <1>3, <1>4, SameEvents DEF WellFormed
<1>6. Delegated(n) = Delegated(d) /\ Interactive(n) = Interactive(d)
  BY <1>2 DEF Delegated, Interactive
<1>7. Follows(d, n)
  BY <1>2, <1>6 DEF Follows, Grows, Keeps
<1>8. QED
  BY <1>2, <1>5, <1>6, <1>7 DEF MovesAddresses, Blank

\* The database after the DELETE of the events.
EventsKept(d) == {i \in DOMAIN d.events : d.events[i].session \notin SubSelect(d)}
WithoutEvents(d) == [d EXCEPT !.events = [i \in EventsKept(d) |-> @[i]]]

\* No delegated session has an event left, and the others are still in order.
LEMMA EventsDoes ==
    ASSUME MaxEvents \in Nat, NEW d, WellFormed(d), InOrder(d), NEW kept, NEW n,
           kept = EventsKept(d), n = WithoutEvents(d)
    PROVE  /\ WellFormed(n) /\ Follows(d, n) /\ MovesAddresses(d, n) /\ InOrder(n)
           /\ \A i \in DOMAIN n.events : n.events[i].session \notin Delegated(n)
           /\ Delegated(n) = Delegated(d) /\ n.commands = d.commands /\ n.sessions = d.sessions
<1>1. DOMAIN d = Fields
  BY DEF WellFormed, IsDatabase, Fields
<1>2. /\ DOMAIN n = Fields /\ n.tables = d.tables /\ n.cols = d.cols
      /\ n.addr = d.addr /\ n.events = [i \in kept |-> d.events[i]] /\ n.sessions = d.sessions
      /\ n.commands = d.commands /\ n.indexed = d.indexed /\ n.trigger = d.trigger
  BY <1>1 DEF Fields, WithoutEvents
<1>3. /\ kept \subseteq DOMAIN d.events /\ DOMAIN n.events = kept
      /\ \A i \in kept : n.events[i] = d.events[i]
      /\ \A i \in DOMAIN d.events : i \in kept <=> d.events[i].session \notin Delegated(d)
  BY <1>2 DEF SubSelect, EventsKept
<1>4. IsDatabase(n)
  <2>1. n.events \in [DOMAIN n.events -> [session : Ids, seq : 0..MaxEvents]]
    <3>1. \A i \in kept : d.events[i] \in [session : Ids, seq : 0..MaxEvents]
      BY <1>3 DEF WellFormed, IsDatabase
    <3>2. QED
      BY <1>2, <1>3, <3>1
  <2>2. DOMAIN n.events \subseteq 1..MaxEvents
    BY <1>3 DEF WellFormed, IsDatabase
  <2>3. QED
    BY <1>2, <2>1, <2>2 DEF WellFormed, IsDatabase, Fields
<1>5. References(n)
  BY <1>2, <1>3 DEF WellFormed, References, SessionIds
<1>6. ASSUME NEW i \in kept PROVE Rank(n, i) = Rank(d, i)
  <2> DEFINE s == d.events[i].session
  <2>1. s \notin Delegated(d)
    BY <1>3
  <2>2. EventsOf(n, s) = EventsOf(d, s)
    BY <1>3, <2>1 DEF EventsOf
  <2>3. QED
    BY <1>3, <2>2 DEF Rank
<1>7. InOrder(n)
  BY <1>3, <1>6 DEF InOrder
<1>8. WellFormed(n)
  BY <1>2, <1>4, <1>5, <1>7 DEF WellFormed
<1>9. Delegated(n) = Delegated(d) /\ Interactive(n) = Interactive(d)
  BY <1>2 DEF Delegated, Interactive
<1>10. Follows(d, n)
  BY <1>2, <1>3, <1>9 DEF Follows, Grows, Keeps
<1>11. QED
  BY <1>2, <1>3, <1>7, <1>8, <1>9, <1>10 DEF MovesAddresses, Blank

\* Who the sessions are.
LEMMA SessionSets ==
    ASSUME NEW d, NEW x
    PROVE  /\ x \in Delegated(d) <=> \E s \in d.sessions : s.kind = "delegated" /\ s.id = x
           /\ x \in Interactive(d) <=> \E s \in d.sessions : s.kind # "delegated" /\ s.id = x
           /\ x \in SessionIds(d) <=> \E s \in d.sessions : s.id = x
  BY DEF Delegated, Interactive, SessionIds

\* The database after the UPDATE of the parents.
WithoutParents(d) ==
    [d EXCEPT !.sessions =
        {IF s.parent \in SubSelect(d) THEN [s EXCEPT !.parent = ""] ELSE s : s \in @}]

\* No session has a delegated parent left.
LEMMA ParentsDoes ==
    ASSUME NEW d, WellFormed(d), NEW n, n = WithoutParents(d), "" \notin Ids
    PROVE  /\ WellFormed(n) /\ Follows(d, n) /\ MovesAddresses(d, n)
           /\ \A r \in n.sessions : r.parent \notin Delegated(n)
           /\ Delegated(n) = Delegated(d) /\ n.events = d.events /\ n.commands = d.commands
<1> DEFINE Cut(s) == IF s.parent \in Delegated(d) THEN [s EXCEPT !.parent = ""] ELSE s
           Rows == [id : Ids, kind : {"delegated", "interactive"}, parent : Ids \cup {""}]
<1>1. DOMAIN d = Fields /\ d.sessions \subseteq Rows
  BY DEF WellFormed, IsDatabase, Fields
<1>2. /\ DOMAIN n = Fields /\ n.tables = d.tables /\ n.cols = d.cols
      /\ n.addr = d.addr /\ n.events = d.events
      /\ n.sessions = {Cut(s) : s \in d.sessions}
      /\ n.commands = d.commands /\ n.indexed = d.indexed /\ n.trigger = d.trigger
  BY <1>1 DEF Fields, SubSelect, WithoutParents
<1>3. ASSUME NEW s \in Rows
      PROVE  /\ Cut(s) \in Rows /\ Cut(s).id = s.id /\ Cut(s).kind = s.kind
             /\ s.parent \in Delegated(d) => Cut(s).parent = ""
             /\ s.parent \notin Delegated(d) => Cut(s).parent = s.parent
  OBVIOUS
<1> HIDE DEF Cut, Rows
<1>4. n.sessions \subseteq Rows
  BY <1>1, <1>2, <1>3
<1>5. /\ Delegated(n) = Delegated(d) /\ Interactive(n) = Interactive(d)
      /\ SessionIds(n) = SessionIds(d)
  <2>1. \A s \in d.sessions : /\ Cut(s) \in n.sessions
                              /\ Cut(s).id = s.id /\ Cut(s).kind = s.kind
    BY <1>1, <1>2, <1>3
  <2>2. \A r \in n.sessions : \E s \in d.sessions : r.id = s.id /\ r.kind = s.kind
    BY <1>2, <2>1
  <2>3. ASSUME NEW x
        PROVE  /\ x \in Delegated(n) <=> x \in Delegated(d)
               /\ x \in Interactive(n) <=> x \in Interactive(d)
               /\ x \in SessionIds(n) <=> x \in SessionIds(d)
    <3>1. x \in Delegated(n) <=> x \in Delegated(d)
      <4>1. x \in Delegated(d) <=> \E s \in d.sessions : s.kind = "delegated" /\ s.id = x
        BY SessionSets
      <4>2. x \in Delegated(n) <=> \E s \in n.sessions : s.kind = "delegated" /\ s.id = x
        BY SessionSets
      <4>3. ASSUME NEW s \in d.sessions, s.kind = "delegated" /\ s.id = x
            PROVE  x \in Delegated(n)
        BY <2>1, <4>2, <4>3
      <4>4. ASSUME NEW s \in n.sessions, s.kind = "delegated" /\ s.id = x
            PROVE  x \in Delegated(d)
        BY <2>2, <4>1, <4>4
      <4>5. QED
        BY <4>1, <4>2, <4>3, <4>4
    <3>2. x \in Interactive(n) <=> x \in Interactive(d)
      <4>1. x \in Interactive(d) <=> \E s \in d.sessions : s.kind # "delegated" /\ s.id = x
        BY SessionSets
      <4>2. x \in Interactive(n) <=> \E s \in n.sessions : s.kind # "delegated" /\ s.id = x
        BY SessionSets
      <4>3. ASSUME NEW s \in d.sessions, s.kind # "delegated" /\ s.id = x
            PROVE  x \in Interactive(n)
        BY <2>1, <4>2, <4>3
      <4>4. ASSUME NEW s \in n.sessions, s.kind # "delegated" /\ s.id = x
            PROVE  x \in Interactive(d)
        BY <2>2, <4>1, <4>4
      <4>5. QED
        BY <4>1, <4>2, <4>3, <4>4
    <3>3. x \in SessionIds(n) <=> x \in SessionIds(d)
      <4>1. x \in SessionIds(d) <=> \E s \in d.sessions : s.id = x
        BY SessionSets
      <4>2. x \in SessionIds(n) <=> \E s \in n.sessions : s.id = x
        BY SessionSets
      <4>3. ASSUME NEW s \in d.sessions, s.id = x PROVE x \in SessionIds(n)
        BY <2>1, <4>2, <4>3
      <4>4. ASSUME NEW s \in n.sessions, s.id = x PROVE x \in SessionIds(d)
        BY <2>2, <4>1, <4>4
      <4>5. QED
        BY <4>1, <4>2, <4>3, <4>4
    <3>4. QED
      BY <3>1, <3>2, <3>3
  <2>4. QED
    BY <2>3
<1>6. Delegated(d) \subseteq Ids
  BY <1>1 DEF Delegated, Rows
<1>7. IsDatabase(n)
  BY <1>2, <1>4 DEF WellFormed, IsDatabase, Fields, Rows
<1>8. \A r \in n.sessions : r.parent \notin Delegated(n) /\ r.parent \in SessionIds(n) \cup {""}
  <2>1. ASSUME NEW s \in d.sessions
        PROVE  Cut(s).parent \notin Delegated(n) /\ Cut(s).parent \in SessionIds(n) \cup {""}
    <3>1. s \in Rows /\ s.parent \in SessionIds(d) \cup {""}
      BY <1>1 DEF WellFormed, References
    <3>2. QED
      BY <1>3, <1>5, <1>6, <3>1
  <2>2. QED
    BY <1>2, <2>1
<1>9. References(n)
  BY <1>2, <1>5, <1>8 DEF WellFormed, References
<1>10. WellFormed(n)
  BY <1>2, <1>7, <1>9, SameEvents DEF WellFormed
<1>11. Follows(d, n)
  BY <1>2, <1>5 DEF Follows, Grows, Keeps
<1>12. QED
  BY <1>2, <1>5, <1>8, <1>10, <1>11 DEF MovesAddresses, Blank

\* No delegated session is left; nothing referred to one.
LEMMA SessionsDoes ==
    ASSUME NEW d, WellFormed(d), NEW n,
           n = [d EXCEPT !.sessions = {s \in @ : s.kind # "delegated"}],
           d.commands \cap Delegated(d) = {},
           \A i \in DOMAIN d.events : d.events[i].session \notin Delegated(d),
           \A r \in d.sessions : r.parent \notin Delegated(d)
    PROVE  /\ WellFormed(n) /\ Follows(d, n) /\ MovesAddresses(d, n)
           /\ Delegated(n) = {} /\ n.events = d.events
<1>1. DOMAIN d = Fields
  BY DEF WellFormed, IsDatabase, Fields
<1>2. /\ DOMAIN n = Fields /\ n.tables = d.tables /\ n.cols = d.cols
      /\ n.addr = d.addr /\ n.events = d.events
      /\ n.sessions = {s \in d.sessions : s.kind # "delegated"}
      /\ n.commands = d.commands /\ n.indexed = d.indexed /\ n.trigger = d.trigger
  BY <1>1 DEF Fields
<1>3. IsDatabase(n)
  BY <1>2 DEF WellFormed, IsDatabase, Fields
<1>4. /\ Delegated(n) = {} /\ Interactive(n) = Interactive(d)
      /\ SessionIds(d) \subseteq SessionIds(n) \cup Delegated(d)
  BY <1>2 DEF Delegated, Interactive, SessionIds
<1>5. References(n)
  BY <1>2, <1>4 DEF WellFormed, References
<1>6. WellFormed(n)
  BY <1>2, <1>3, <1>5, SameEvents DEF WellFormed
<1>7. Follows(d, n)
  BY <1>2, <1>4 DEF Follows, Grows, Keeps
<1>8. QED
  BY <1>2, <1>4, <1>6, <1>7 DEF MovesAddresses, Blank

\* The largest of a bounded set of numbers.
LEMMA MaxIsMax ==
    ASSUME NEW B \in Nat, NEW S, S \subseteq 0..B, S # {}
    PROVE  Max(S) \in S /\ \A y \in S : y <= Max(S)
<1> DEFINE T == {B - y : y \in S}
<1>1. T \subseteq Nat /\ T # {}
  <2>1. \A y \in S : B - y \in Nat
    OBVIOUS
  <2>2. PICK y \in S : TRUE
    OBVIOUS
  <2>3. B - y \in T
    OBVIOUS
  <2>4. QED
    BY <2>1, <2>3
<1>2. PICK x \in T : \A z \in T : x <= z
  BY <1>1, SmallestOf
<1>3. PICK y \in S : x = B - y
  OBVIOUS
<1>4. ASSUME NEW z \in S PROVE y >= z
  <2>1. B - z \in T
    OBVIOUS
  <2>2. x <= B - z
    BY <1>2, <2>1
  <2>3. QED
    BY <1>3, <2>2
<1>5. \E u \in S : \A z \in S : u >= z
  BY <1>4
<1> DEFINE m == CHOOSE u \in S : \A z \in S : u >= z
<1> HIDE DEF m
<1>6. m \in S /\ \A z \in S : m >= z
  BY <1>5 DEF m
<1>7. Max(S) = m
  BY DEF Max, m
<1>8. QED
  BY <1>6, <1>7

\* In a database with numbers, the top number of a session is the count of its
\* rows.
LEMMA TopIsCount ==
    ASSUME MaxEvents \in Nat, NEW d, WellFormed(d), InOrder(d), NEW s
    PROVE  Top(d, s) = Cardinality(EventsOf(d, s))
<1> DEFINE E == EventsOf(d, s)
           C == Cardinality(E)
           S == {0} \cup {d.events[i].seq : i \in E}
<1>1. DOMAIN d.events \subseteq 1..MaxEvents
  BY DEF WellFormed, IsDatabase
<1>2. C \in 0..MaxEvents /\ IsFiniteSet(E)
  BY <1>1, RowsUpTo
<1>3. ASSUME NEW i \in E
      PROVE  d.events[i].seq = Cardinality(Before(d, s, i)) /\ d.events[i].seq \in 0..C
  <2>1. i \in DOMAIN d.events /\ d.events[i].session = s
    BY DEF EventsOf
  <2>2. d.events[i].seq = Cardinality(Before(d, s, i))
    BY <2>1 DEF InOrder, Rank, Before
  <2>3. QED
    BY <1>1, <2>2, RowsUpTo
<1>4. C \in S
  <2>1. CASE E = {}
    BY <2>1, FS_EmptySet
  <2>2. CASE E # {}
    <3>1. E \subseteq 0..MaxEvents
      BY <1>1 DEF EventsOf
    <3>2. PICK i \in E : \A j \in E : j <= i
      BY <2>2, <3>1, MaxIsMax
    <3>3. Before(d, s, i) = E
      BY <3>2 DEF Before
    <3>4. QED
      BY <1>3, <3>3
  <2>3. QED
    BY <2>1, <2>2
<1>5. S \subseteq 0..C
  BY <1>2, <1>3
<1> HIDE DEF S, C
<1>6. Max(S) \in S /\ \A y \in S : y <= Max(S)
  <2>1. C \in Nat
    BY <1>2
  <2>2. QED
    BY <1>4, <1>5, <2>1, MaxIsMax
<1>7. Max(S) = C
  <2>1. Max(S) \in 0..C
    BY <1>5, <1>6
  <2>2. C <= Max(S)
    BY <1>4, <1>6
  <2>3. QED
    BY <1>2, <2>1, <2>2
<1>8. QED
  BY <1>7 DEF Top, S, C

\* An event that is inserted is the last of its session: numbered next when
\* the trigger is there, unnumbered like the others when not.
LEMMA InsertDoes ==
    ASSUME MaxEvents \in Nat, NEW d, WellFormed(d), ~d.trigger => Unnumbered(d),
           NEW s \in SessionIds(d), Max({0} \cup DOMAIN d.events) < MaxEvents,
           NEW n,
           n = [d EXCEPT !.events = WithEvent(d, s)]
    PROVE  /\ WellFormed(n) /\ Follows(d, n) /\ n.cols = d.cols /\ n.addr = d.addr
           /\ ~n.trigger => Unnumbered(n)
           /\ n.commands = d.commands
<1> DEFINE next == Max({0} \cup DOMAIN d.events) + 1
           row == [session |-> s, seq |-> InsertedSeq(d, s)]
<1>1. DOMAIN d = Fields /\ DOMAIN d.events \subseteq 1..MaxEvents
  BY DEF WellFormed, IsDatabase, Fields
<1>2. /\ DOMAIN n = Fields /\ n.tables = d.tables /\ n.cols = d.cols
      /\ n.addr = d.addr /\ n.events = WithEvent(d, s) /\ n.sessions = d.sessions
      /\ n.commands = d.commands /\ n.indexed = d.indexed /\ n.trigger = d.trigger
  BY <1>1 DEF Fields
<1>3. next \in 1..MaxEvents /\ \A i \in DOMAIN d.events : i < next
  <2>1. {0} \cup DOMAIN d.events \subseteq 0..MaxEvents /\ {0} \cup DOMAIN d.events # {}
    BY <1>1
  <2> DEFINE S == {0} \cup DOMAIN d.events
  <2>2. 0 \in S /\ \A i \in DOMAIN d.events : i \in S
    OBVIOUS
  <2> HIDE DEF S
  <2>3. S \subseteq 0..MaxEvents /\ S # {}
    BY <2>1 DEF S
  <2>4. Max(S) \in S /\ \A y \in S : y <= Max(S)
    BY <2>3, MaxIsMax
  <2>5. Max(S) \in Nat /\ Max(S) < MaxEvents
    BY <2>3, <2>4 DEF S
  <2>6. \A i \in DOMAIN d.events : i \in Nat /\ i <= Max(S)
    BY <1>1, <2>2, <2>4
  <2>7. next = Max(S) + 1
    BY DEF S
  <2> HIDE DEF next
  <2>8. QED
    BY <2>5, <2>6, <2>7
<1> HIDE DEF next, row
<1>4. n.events = [i \in DOMAIN d.events \cup {next} |-> IF i = next THEN row ELSE d.events[i]]
  BY <1>2 DEF WithEvent, next, row
<1>5. /\ DOMAIN n.events = DOMAIN d.events \cup {next} /\ n.events[next] = row
      /\ next \notin DOMAIN d.events
      /\ \A i \in DOMAIN d.events : n.events[i] = d.events[i]
  <2>1. next \notin DOMAIN d.events
    BY <1>1, <1>3
  <2>2. QED
    BY <1>4, <2>1
<1>6. row.session = s /\ row.seq = InsertedSeq(d, s)
  BY DEF row
<1>7. DOMAIN n.events \subseteq 1..MaxEvents
  BY <1>1, <1>3, <1>5
<1>8. \A u : EventsOf(n, u) = IF u = s THEN EventsOf(d, u) \cup {next} ELSE EventsOf(d, u)
  BY <1>5, <1>6 DEF EventsOf
<1>9. ASSUME NEW i \in DOMAIN d.events PROVE Rank(n, i) = Rank(d, i)
  <2>1. i < next /\ ~(next <= i)
    BY <1>1, <1>3
  <2>2. \A u : Before(n, u, i) = Before(d, u, i)
    BY <1>8, <2>1 DEF Before
  <2>3. n.events[i] = d.events[i]
    BY <1>5
  <2>4. QED
    BY <2>2, <2>3 DEF Rank, Before
<1>10. Rank(n, next) = Cardinality(EventsOf(d, s)) + 1
       /\ Cardinality(EventsOf(d, s)) + 1 \in 0..MaxEvents
  <2>1. EventsOf(n, s) = EventsOf(d, s) \cup {next}
    BY <1>8
  <2>2. Before(n, s, next) = EventsOf(n, s)
    <3>1. \A j \in EventsOf(n, s) : j <= next
      BY <1>1, <1>3, <2>1 DEF EventsOf
    <3>2. QED
      BY <3>1 DEF Before
  <2>3. next \notin EventsOf(d, s) /\ IsFiniteSet(EventsOf(d, s))
    BY <1>1, <1>5, RowsUpTo DEF EventsOf
  <2>4. Cardinality(EventsOf(n, s)) = Cardinality(EventsOf(d, s)) + 1
    BY <2>1, <2>3, FS_AddElement
  <2>5. Cardinality(EventsOf(n, s)) \in 0..MaxEvents
    BY <1>7, RowsUpTo
  <2>6. Rank(n, next) = Cardinality(Before(n, s, next))
    BY <1>5, <1>6 DEF Rank, Before
  <2>7. QED
    BY <2>2, <2>4, <2>5, <2>6
<1>11. /\ d.trigger => row.seq = Rank(n, next)
       /\ ~d.trigger => row.seq = 0
       /\ row.seq \in 0..MaxEvents
  <2>1. CASE d.trigger
    <3>1. InOrder(d)
      BY <2>1 DEF WellFormed
    <3>2. Top(d, s) = Cardinality(EventsOf(d, s))
      BY <3>1, TopIsCount
    <3>3. QED
      BY <1>6, <1>10, <2>1, <3>2 DEF InsertedSeq
  <2>2. CASE ~d.trigger
    BY <1>6, <2>2 DEF InsertedSeq
  <2>3. QED
    BY <2>1, <2>2
<1>12. IsDatabase(n)
  <2>1. s \in Ids
    <3>1. PICK r \in d.sessions : s = r.id
      BY DEF SessionIds
    <3>2. QED
      BY <3>1 DEF WellFormed, IsDatabase
  <2>2. row \in [session : Ids, seq : 0..MaxEvents]
    BY <1>6, <1>11, <2>1 DEF row
  <2>3. n.events \in [DOMAIN n.events -> [session : Ids, seq : 0..MaxEvents]]
    <3>1. \A i \in DOMAIN d.events : d.events[i] \in [session : Ids, seq : 0..MaxEvents]
      BY DEF WellFormed, IsDatabase
    <3>2. QED
      BY <1>4, <1>5, <2>2, <3>1
  <2>4. QED
    BY <1>2, <1>7, <2>3 DEF WellFormed, IsDatabase, Fields
<1>13. References(n)
  <2>1. SessionIds(n) = SessionIds(d)
    BY <1>2 DEF SessionIds
  <2>2. QED
    BY <1>2, <1>5, <1>6, <2>1 DEF WellFormed, References
<1>14. d.trigger => InOrder(n)
  BY <1>5, <1>9, <1>11 DEF WellFormed, InOrder
<1>15. ~d.trigger => Unnumbered(n)
  BY <1>5, <1>11 DEF Unnumbered
<1>16. WellFormed(n)
  BY <1>2, <1>12, <1>13, <1>14, <1>15 DEF WellFormed, IsDatabase
<1>17. Delegated(n) = Delegated(d) /\ Interactive(n) = Interactive(d)
  BY <1>2 DEF Delegated, Interactive
<1>18. Follows(d, n)
  BY <1>2, <1>5, <1>17 DEF Follows, Grows, Keeps
<1>19. QED
  BY <1>2, <1>15, <1>16, <1>18

\* A registration adds a row.
LEMMA RegisterDoes ==
    ASSUME NEW d, WellFormed(d), NEW w, w \notin Workers, NEW n,
           n = [d EXCEPT !.addr = [v \in DOMAIN @ \cup {w} |-> IF v = w THEN "new" ELSE @[v]]]
    PROVE  /\ WellFormed(n) /\ Follows(d, n) /\ n.cols = d.cols /\ (Blank(n) <=> Blank(d))
           /\ n.trigger = d.trigger /\ n.events = d.events /\ n.commands = d.commands
<1>1. DOMAIN d = Fields
  BY DEF WellFormed, IsDatabase, Fields
<1>2. /\ DOMAIN n = Fields /\ n.tables = d.tables /\ n.cols = d.cols
      /\ n.addr = [v \in DOMAIN d.addr \cup {w} |-> IF v = w THEN "new" ELSE d.addr[v]]
      /\ n.events = d.events /\ n.sessions = d.sessions
      /\ n.commands = d.commands /\ n.indexed = d.indexed /\ n.trigger = d.trigger
  BY <1>1 DEF Fields
<1>3. /\ Workers \cap DOMAIN n.addr = Workers \cap DOMAIN d.addr
      /\ \A v \in Workers \cap DOMAIN d.addr : n.addr[v] = d.addr[v]
  BY <1>2
<1>4. IsDatabase(n)
  <2>1. d.addr \in [DOMAIN d.addr -> {"", "old", "new"}]
    BY DEF WellFormed, IsDatabase
  <2> DEFINE new == [v \in DOMAIN d.addr \cup {w} |-> IF v = w THEN "new" ELSE d.addr[v]]
  <2>2. n.addr \in [DOMAIN n.addr -> {"", "old", "new"}]
    <3>1. \A v \in DOMAIN d.addr : d.addr[v] \in {"", "old", "new"}
      BY <2>1
    <3>2. new \in [DOMAIN d.addr \cup {w} -> {"", "old", "new"}]
      BY <3>1
    <3>3. n.addr = new /\ DOMAIN new = DOMAIN d.addr \cup {w}
      BY <1>2
    <3> HIDE DEF new
    <3>4. QED
      BY <3>2, <3>3
  <2>3. QED
    BY <1>2, <2>2 DEF WellFormed, IsDatabase, Fields
<1>5. References(n)
  BY <1>2 DEF WellFormed, References, SessionIds
<1>6. Grows(d, n)
  BY <1>2 DEF Grows
<1>7. WellFormed(n)
  <2>1. (d.trigger => InOrder(n)) /\ (InOrder(n) \/ Unnumbered(n))
    BY <1>2, SameEvents DEF WellFormed
  <2>2. QED
    BY <1>2, <1>3, <1>4, <1>5, <2>1 DEF WellFormed
<1>8. Blank(n) <=> Blank(d)
  BY <1>3 DEF Blank
<1>9. QED
  BY <1>2, <1>6, <1>7, <1>8, SchemaGrows

-----------------------------------------------------------------------------
(* What a step does to the invariant.                                      *)

\* The other processes stand still.
Frame(p) == \A q \in Procs \ {p} : tx'[q] = tx[q] /\ pc'[q] = pc[q] /\ seen'[q] = seen[q]

\* What one process does leaves what holds of the others.
LEMMA Framed ==
    ASSUME MInv, NEW p \in Procs, Frame(p), Follows(db, db'),
           (\E q \in Procs \ {p} : tx[q] # NoTx) => db' = db,
           Fits(db', tx'[p], pc'[p], seen'[p])
    PROVE  ProcsFit'
<1>1. ASSUME NEW q \in Procs \ {p} PROVE Fits(db', tx[q], pc[q], seen[q])
  <2>1. Fits(db, tx[q], pc[q], seen[q]) /\ pc[q] \in 0..52
    BY DEF MInv, ProcsFit, MigTypes
  <2>2. tx[q] # NoTx => db' = db
    OBVIOUS
  <2>3. QED
    BY <2>1, <2>2, OtherFits
<1>2. ASSUME NEW q \in Procs PROVE Fits(db', tx'[q], pc'[q], seen'[q])
  <2>1. CASE q = p
    BY <2>1
  <2>2. CASE q # p
    BY <1>1, <2>2 DEF Frame
  <2>3. QED
    BY <2>1, <2>2
<1>3. QED
  BY <1>2 DEF ProcsFit

\* The addresses are being moved, or have been, after the step too.
LEMMA AddressesStay ==
    ASSUME MInv, NEW p \in Procs, Frame(p), Follows(db, db'),
           Blank(db') => Blank(db),
           Blank(db') /\ "worker_ip" \in db'.cols["workers"] /\ ~cut' =>
                ~cut /\ ("worker_ip" \in db.cols["workers"] \/ AtFill(pc'[p], seen'[p])),
           Blank(db') /\ ~cut' /\ (AtFill(pc[p], seen[p]) \/ (tx[p] # NoTx /\ ~Blank(tx[p]))) =>
                AtFill(pc'[p], seen'[p]) \/ (tx'[p] # NoTx /\ ~Blank(tx'[p]))
    PROVE  AddressesFit'
<1>1. "workers" \in Tables
  BY DEF Tables
<1>2. ASSUME Blank(db'), "worker_ip" \notin db'.cols["workers"]
      PROVE  "zerotier_ip" \in db'.cols["workers"]
  BY <1>1, <1>2 DEF MInv, AddressesFit, Follows, Grows
<1>3. ASSUME Blank(db'), "worker_ip" \in db'.cols["workers"], ~cut'
      PROVE  \E q \in Procs : AtFill(pc'[q], seen'[q]) \/ (tx'[q] # NoTx /\ ~Blank(tx'[q]))
  <2>1. CASE AtFill(pc'[p], seen'[p])
    BY <2>1
  <2>2. CASE "worker_ip" \in db.cols["workers"]
    <3>1. PICK q \in Procs : AtFill(pc[q], seen[q]) \/ (tx[q] # NoTx /\ ~Blank(tx[q]))
      BY <1>3, <2>2 DEF MInv, AddressesFit
    <3>2. CASE q = p
      BY <1>3, <3>1, <3>2
    <3>3. CASE q # p
      BY <3>1, <3>3 DEF Frame
    <3>4. QED
      BY <3>2, <3>3
  <2>3. QED
    BY <1>3, <2>1, <2>2
<1>4. QED
  BY <1>2, <1>3 DEF AddressesFit

\* What a step may do to the file.
Interactively ==
    /\ Follows(db, db')
    /\ Delegated(db') = Delegated(db) => Delegated(db) \cap db.commands \subseteq db'.commands

\* A process that is writing nothing.
LEMMA SkipStep ==
    ASSUME MInv, NEW p \in Procs, UNCHANGED <<db, tx, failed, cut>>,
           NEW m \in 1..52, pc' = [pc EXCEPT ![p] = m],
           DOMAIN seen' = Procs, \A q \in Procs \ {p} : seen'[q] = seen[q],
           Fits(db, tx[p], m, seen'[p]),
           AtFill(pc[p], seen[p]) => AtFill(m, seen'[p])
    PROVE  MInv' /\ Interactively
<1>1. /\ DOMAIN tx = Procs /\ pc \in [Procs -> 0..52]
      /\ pc' \in [Procs -> 0..52] /\ pc'[p] = m
      /\ \A q \in Procs \ {p} : pc'[q] = pc[q]
  BY DEF MInv, MigTypes
<1>2. MigTypes'
  BY <1>1 DEF MInv, MigTypes
<1>3. OneWriter'
  BY DEF MInv, OneWriter
<1>4. Frame(p)
  BY <1>1 DEF Frame
<1>5. Follows(db, db')
  BY FollowsSelf
<1>6. ProcsFit'
  BY <1>1, <1>4, <1>5, Framed
<1>7. AddressesFit'
  <2>1. "worker_ip" \in db.cols["workers"] \/ TRUE
    OBVIOUS
  <2>2. QED
    BY <1>1, <1>4, <1>5, AddressesStay
<1>8. QED
  BY <1>2, <1>3, <1>5, <1>6, <1>7 DEF MInv, Interactively

\* Process p has run statement k; m is its next one, s the columns it has seen.
Ran(p, k, m, s) ==
    /\ k = pc[p] /\ Leads(k, s, m) /\ pc' = [pc EXCEPT ![p] = m]
    /\ DOMAIN seen' = Procs /\ s = seen'[p] /\ \A q \in Procs \ {p} : seen'[q] = seen[q]
    /\ UNCHANGED <<failed, cut>>

\* It has written: d is what it saw before and n what it has left, in the file or
\* in its transaction.
Wrote(p, k, d, n) ==
    /\ MayWrite(p) /\ d = ViewOf(db, tx[p])
    /\ WellFormed(n) /\ Follows(d, n) /\ HasSchema(n, InitSchema[k])
    /\ \/ /\ tx[p] = NoTx /\ db' = n /\ UNCHANGED tx
          /\ k < 41 /\ n.commands = d.commands /\ (~n.trigger => Unnumbered(n))
       \/ /\ UNCHANGED db /\ tx' = [tx EXCEPT ![p] = n] /\ n # NoTx
          /\ k >= 6 /\ MovesAddresses(d, n) /\ DataFits(n, k + 1)

\* Where it matters, the columns it has seen are those the table has.
SeesTable(k, s, d) ==
    InitSchema[k].op \in {"pragma", "add", "fill"} => SeesAll(s, d.cols[InitSchema[k].table])

\* A statement that writes keeps the parts of the invariant, addresses apart.
LEMMA WriteStep ==
    ASSUME MInv, NEW p \in Procs, NEW k \in 1..50, NEW d, NEW n, NEW m, NEW s,
           Ran(p, k, m, s), Wrote(p, k, d, n), SeesTable(k, s, n)
    PROVE  /\ MigTypes' /\ OneWriter' /\ ProcsFit' /\ Interactively
           /\ Frame(p) /\ Follows(db, db') /\ pc'[p] = m
<1> USE DEF Ran, Wrote
<1>1. /\ DOMAIN tx = Procs /\ pc \in [Procs -> 0..52] /\ WellFormed(db)
      /\ Fits(db, tx[p], k, seen[p])
  BY DEF MInv, MigTypes, ProcsFit
<1>2. m \in 1..52
  BY LeadsDoes
<1>3. /\ pc' \in [Procs -> 0..52] /\ pc'[p] = m
      /\ \A q \in Procs \ {p} : pc'[q] = pc[q]
  BY <1>1, <1>2
<1>4. DOMAIN tx' = Procs /\ \A q \in Procs \ {p} : tx'[q] = tx[q] /\ tx[q] = NoTx
  BY <1>1 DEF MayWrite
<1>5. Frame(p)
  BY <1>3, <1>4 DEF Frame
<1>6. Follows(db, db')
  BY FollowsSelf DEF ViewOf
<1>7. ViewOf(db', tx'[p]) = n
  BY <1>1 DEF ViewOf
<1>8. ASSUME NEW j \in 1..51, j <= k PROVE HasSchema(n, InitSchema[j])
  <2>1. CASE j = k
    BY <2>1
  <2>2. CASE j < k
    <3>1. HasSchema(d, InitSchema[j])
      BY <1>1, <2>2 DEF Fits, PassedFits
    <3>2. QED
      BY <3>1, SchemaStays DEF Follows
  <2>3. QED
    BY <1>8, <2>1, <2>2
<1>9. ASSUME tx'[p] # NoTx
      PROVE  k \in 6..50 /\ Follows(db', tx'[p]) /\ MovesAddresses(db', tx'[p])
             /\ DataFits(tx'[p], k + 1)
  <2>1. db' = db /\ tx'[p] = n /\ k >= 6 /\ MovesAddresses(d, n) /\ DataFits(n, k + 1)
    BY <1>1, <1>9
  <2>2. CASE tx[p] = NoTx
    BY <2>1, <2>2 DEF ViewOf
  <2>3. CASE tx[p] # NoTx
    <3>1. d = tx[p] /\ Follows(db, d) /\ MovesAddresses(db, d)
      BY <1>1, <2>3 DEF ViewOf, Fits, TxFits
    <3>2. Follows(db, n)
      BY <3>1, FollowsOn
    <3>3. MovesAddresses(db, n)
      BY <2>1, <3>1 DEF MovesAddresses
    <3>4. QED
      BY <2>1, <3>2, <3>3
  <2>4. QED
    BY <2>2, <2>3
<1>10. k \in 41..50 => tx'[p] # NoTx
  BY <1>1
<1>11. Fits(db', tx'[p], m, s)
  <2>1. k \in 0..51 /\ k # 51
    OBVIOUS
  <2>2. k # 0 /\ InitSchema[k].op \in {"pragma", "add", "fill"} =>
                SeesAll(s, ViewOf(db', tx'[p]).cols[InitSchema[k].table])
    BY <1>7 DEF SeesTable
  <2>3. QED
    BY <1>7, <1>8, <1>9, <1>10, <2>1, <2>2, GoesOn
<1>12. ProcsFit'
  BY <1>3, <1>4, <1>5, <1>6, <1>11, Framed
<1>13. OneWriter'
  BY <1>4 DEF OneWriter
<1>14. MigTypes'
  <2>1. WellFormed(db') /\ (~db'.trigger => Unnumbered(db'))
    BY DEF MInv, MigTypes
  <2>2. \A q \in Procs : tx'[q] # NoTx => WellFormed(tx'[q])
    BY <1>1, <1>4 DEF MInv, MigTypes
  <2>3. QED
    BY <1>3, <1>4, <2>1, <2>2 DEF MInv, MigTypes
<1>15. Interactively
  BY <1>6 DEF Interactively, ViewOf
<1>16. QED
  BY <1>3, <1>5, <1>6, <1>12, <1>13, <1>14, <1>15

\* What is shown of every step.
Kept == MInv' /\ Interactively

\* A process that is at a statement.
LEMMA Running ==
    ASSUME MInv, NEW p \in Procs, NEW op, At(p, op)
    PROVE  /\ pc[p] \in 1..51 /\ InitSchema[pc[p]].op = op /\ Cur(p) = InitSchema[pc[p]]
           /\ View(p) = ViewOf(db, tx[p]) /\ WellFormed(View(p))
           /\ Fits(db, tx[p], pc[p], seen[p])
           /\ InitSchema[pc[p]].table \in Tables
           /\ tx[p] # NoTx => pc[p] >= 7
           /\ pc[p] >= 42 => tx[p] # NoTx
<1>1. pc[p] \in 1..51 /\ InitSchema[pc[p]].op = op /\ Cur(p) = InitSchema[pc[p]]
  BY ByPlace DEF At, Cur
<1>2. Fits(db, tx[p], pc[p], seen[p])
  BY DEF MInv, ProcsFit
<1>3. View(p) = ViewOf(db, tx[p]) /\ WellFormed(View(p))
  BY DEF View, ViewOf, MInv, MigTypes
<1>4. InitSchema[pc[p]].table \in Tables
  BY <1>1, Places
<1>5. (tx[p] # NoTx => pc[p] >= 7) /\ (pc[p] >= 42 => tx[p] # NoTx)
  BY <1>1, <1>2 DEF Fits, TxFits
<1>6. QED
  BY <1>1, <1>2, <1>3, <1>4, <1>5

\* It goes on to the next one.
LEMMA Goes ==
    ASSUME MInv, NEW p \in Procs, pc[p] \in 0..51, NEW cols, Advance(p, cols)
    PROVE  \E m \in 1..52 : pc' = [pc EXCEPT ![p] = m] /\ Leads(pc[p], cols, m)
<1>1. pc \in [Procs -> 0..Done]
  BY ByPlace DEF MInv, MigTypes
<1>2. QED
  BY <1>1, AdvanceDoes

\* After a statement that no ALTER follows the columns seen do not matter.
LEMMA LeadsPlain ==
    ASSUME NEW k \in 1..51, InitSchema[k].op \notin {"pragma", "add", "fill"},
           NEW cols, NEW s, NEW m, Leads(k, cols, m)
    PROVE  Leads(k, s, m)
<1>1. /\ m \in k + 1 .. 52
      /\ \A j \in k + 1 .. m - 1 : InitSchema[k].op \in {"pragma", "add", "fill"}
      /\ m # 52 => InitSchema[m].op # "add"
  BY LeadsDoes
<1>2. QED
  BY <1>1 DEF Leads

\* The columns a process has seen before an ALTER or the UPDATE.
LEMMA SeenDoes ==
    ASSUME NEW d, NEW t, NEW k \in 1..51, NEW s, Fits(d, t, k, s),
           InitSchema[k].op \in {"add", "fill"}
    PROVE  /\ SeesAll(s, ViewOf(d, t).cols[InitSchema[k].table])
           /\ InitSchema[k].op = "add" => InitSchema[k].col \notin s
  BY DEF Fits, SeenFits, SeesAll

\* Rows that stay keep what the deletions have done.
LEMMA DataStays ==
    ASSUME NEW d, NEW n, NEW k \in 1..51,
           DataFits(d, k), k \notin {41, 47, 48, 49, 50},
           n.events = d.events, n.commands = d.commands, n.sessions = d.sessions
    PROVE  DataFits(n, k + 1)
<1>1. Delegated(n) = Delegated(d)
  BY DEF Delegated
<1>2. InOrder(d) => InOrder(n)
  BY SameEvents
<1>4. \A j \in {41, 47, 48, 49, 50} : k + 1 > j => k > j
  OBVIOUS
<1>5. QED
  BY <1>1, <1>2, <1>4 DEF DataFits

\* A process that has nothing to write.
LEMMA SkipGoes ==
    ASSUME MInv, NEW p \in Procs, UNCHANGED <<db, tx>>,
           NEW k \in 1..50, k \notin {41, 47, 48, 49, 50},
           HasSchema(ViewOf(db, tx[p]), InitSchema[k]),
           NEW m, NEW s, Ran(p, k, m, s), ~AtFill(k, seen[p]),
           SeesTable(k, s, ViewOf(db, tx[p]))
    PROVE  Kept
<1> USE DEF Ran
<1> DEFINE d == ViewOf(db, tx[p])
<1>1. Fits(db, tx[p], k, seen[p])
  BY DEF MInv, ProcsFit
<1>2. \A j \in 1..51 : j <= k => HasSchema(d, InitSchema[j])
  <2>1. ASSUME NEW j \in 1..51, j <= k PROVE HasSchema(d, InitSchema[j])
    <3>1. j = k \/ j < k
      BY <2>1
    <3>2. QED
      BY <1>1, <3>1 DEF Fits, PassedFits
  <2>2. QED
    BY <2>1
<1>3. tx[p] # NoTx => /\ k \in 6..50 /\ Follows(db, tx[p]) /\ MovesAddresses(db, tx[p])
                      /\ DataFits(tx[p], k + 1)
  <2>1. tx[p] # NoTx => DataFits(tx[p], k)
    BY <1>1 DEF Fits, PassedFits
  <2>2. tx[p] # NoTx => DataFits(tx[p], k + 1)
    BY <2>1, DataStays
  <2>3. QED
    BY <1>1, <2>2 DEF Fits, TxFits
<1>4. k \in 41..50 => tx[p] # NoTx
  BY <1>1 DEF Fits, TxFits
<1>5. Fits(db, tx[p], m, s) /\ m \in 1..52
  <2>1. k \in 0..51 /\ k # 51
    OBVIOUS
  <2>2. QED
    BY <1>2, <1>3, <1>4, <2>1, GoesOn DEF SeesTable
<1>6. QED
  BY <1>5, SkipStep DEF Kept

\* Nothing has been run before the first statement.
LEMMA ConnectGoes ==
    ASSUME NEW e, NEW k \in 0..51, k = 0, NEW u, u = NoTx, NEW m, NEW s,
           Leads(k, s, m)
    PROVE  Fits(e, u, m, s) /\ m \in 1..52
<1>1. \A j \in 1..51 : j <= k => HasSchema(ViewOf(e, u), InitSchema[j])
  OBVIOUS
<1>2. u # NoTx => /\ k \in 6..50 /\ Follows(e, u) /\ MovesAddresses(e, u)
                       /\ DataFits(u, k + 1)
  OBVIOUS
<1>3. k \in 41..50 => u # NoTx
  OBVIOUS
<1>4. k = 51 => Delegated(e) = {}
  OBVIOUS
<1>5. k # 0 /\ InitSchema[k].op \in {"pragma", "add", "fill"} =>
                SeesAll(s, ViewOf(e, u).cols[InitSchema[k].table])
  OBVIOUS
<1>6. QED
  BY <1>1, <1>2, <1>3, <1>4, <1>5, GoesOn

\* connect() enters _init_schema.
LEMMA ConnectStep == ASSUME MInv, NEW p \in Procs, Connect(p) PROVE Kept
<1>1. pc[p] = 0 /\ Go(p) /\ UNCHANGED <<db, tx, seen, failed, cut>>
  BY DEF Connect
<1>2. PICK m \in 1..52 : pc' = [pc EXCEPT ![p] = m] /\ Leads(pc[p], seen[p], m)
  BY <1>1, Goes DEF Go
<1>3. tx[p] = NoTx
  BY <1>1 DEF MInv, ProcsFit, Fits, TxFits
<1>4. Fits(db, tx[p], m, seen[p])
  BY <1>1, <1>2, <1>3, ConnectGoes
<1>5. ~AtFill(pc[p], seen[p])
  BY <1>1 DEF AtFill
<1>6. QED
  BY <1>1, <1>2, <1>4, <1>5, SkipStep DEF Kept, MInv, MigTypes

\* A statement that opens no transaction: it leaves the rows alone.
LEMMA DdlStep ==
    ASSUME MInv, NEW p \in Procs,
           NEW k \in 1..50, k \notin {6, 41, 47, 48, 49, 50},
           NEW d, NEW n, NEW m, NEW s, d = ViewOf(db, tx[p]), Ddl(p, n),
           Ran(p, k, m, s), SeesTable(k, s, n),
           WellFormed(n), Follows(d, n), HasSchema(n, InitSchema[k]),
           n.events = d.events, n.commands = d.commands, n.sessions = d.sessions,
           n.addr = d.addr,
           \/ "worker_ip" \in n.cols["workers"] => "worker_ip" \in d.cols["workers"]
           \/ tx[p] = NoTx /\ (Blank(db) => AtFill(m, s))
    PROVE  Kept
<1>1. /\ Fits(db, tx[p], k, seen[p]) /\ WellFormed(db) /\ WellFormed(d)
      /\ ~db.trigger => Unnumbered(db)
      /\ DOMAIN tx = Procs /\ pc \in [Procs -> 0..52]
  BY DEF MInv, MigTypes, ProcsFit, ViewOf, Ran
<1>2. n # NoTx /\ (Blank(n) <=> Blank(d)) /\ MayWrite(p)
  BY DatabaseIsNoTx DEF WellFormed, Blank, Ddl
<1>3. tx[p] # NoTx => k >= 7
  BY <1>1 DEF Fits, TxFits
<1>4. ASSUME tx[p] = NoTx
      PROVE  /\ db' = n /\ UNCHANGED tx /\ d = db
             /\ k < 41 /\ (~n.trigger => Unnumbered(n))
  <2>1. db' = n /\ UNCHANGED tx /\ d = db
    BY <1>4 DEF Ddl, ViewOf
  <2>2. ~n.trigger => ~db.trigger
    BY <2>1 DEF Follows, Grows
  <2>3. Unnumbered(db) => Unnumbered(n)
    BY <2>1 DEF Unnumbered
  <2>4. k \notin 42..51
    BY <1>1, <1>4 DEF Fits, TxFits
  <2>5. QED
    BY <1>1, <2>1, <2>2, <2>3, <2>4
<1>5. ASSUME tx[p] # NoTx
      PROVE  /\ UNCHANGED db /\ tx' = [tx EXCEPT ![p] = n] /\ d = tx[p] /\ tx'[p] = n
             /\ MovesAddresses(d, n) /\ DataFits(n, k + 1)
  <2>1. UNCHANGED db /\ tx' = [tx EXCEPT ![p] = n] /\ d = tx[p] /\ tx'[p] = n
    BY <1>1, <1>5 DEF Ddl, ViewOf
  <2>2. DataFits(d, k)
    BY <1>1, <1>5, <2>1 DEF Fits, PassedFits
  <2>3. DataFits(n, k + 1)
    BY <2>2, DataStays
  <2>4. MovesAddresses(d, n)
    BY <1>2, <1>5 DEF MovesAddresses
  <2>5. QED
    BY <2>1, <2>3, <2>4
<1>6. Wrote(p, k, d, n)
  <2>1. CASE tx[p] = NoTx
    BY <1>2, <1>4, <2>1 DEF Wrote
  <2>2. CASE tx[p] # NoTx
    BY <1>2, <1>3, <1>5, <2>2 DEF Wrote
  <2>3. QED
    BY <2>1, <2>2
<1>7. /\ MigTypes' /\ OneWriter' /\ ProcsFit' /\ Interactively
      /\ Frame(p) /\ Follows(db, db') /\ pc'[p] = m
  BY <1>6, WriteStep
<1>8. AddressesFit'
  <2>1. Blank(db') => Blank(db)
    BY <1>2, <1>4, <1>5
  <2>2. Blank(db') /\ "worker_ip" \in db'.cols["workers"] =>
            "worker_ip" \in db.cols["workers"] \/ AtFill(pc'[p], seen'[p])
    BY <1>4, <1>5, <1>7, <2>1 DEF Ran
  <2>3. ~AtFill(pc[p], seen[p])
    BY DEF AtFill, Ran
  <2>4. tx[p] # NoTx /\ ~Blank(tx[p]) => tx'[p] # NoTx /\ ~Blank(tx'[p])
    BY <1>2, <1>5
  <2>5. QED
    BY <1>7, <2>1, <2>2, <2>3, <2>4, AddressesStay DEF Ran
<1>9. QED
  BY <1>7, <1>8 DEF Kept, MInv

\* A statement in a transaction, which it opens when none is open.
LEMMA DmlStep ==
    ASSUME MInv, NEW p \in Procs, NEW k \in 6..50, NEW d, NEW n, NEW m,
           d = ViewOf(db, tx[p]), Dml(p, n), Ran(p, k, m, seen[p]),
           SeesTable(k, seen[p], n),
           WellFormed(n), Follows(d, n), HasSchema(n, InitSchema[k]),
           MovesAddresses(d, n), DataFits(n, k + 1),
           AtFill(k, seen[p]) => ~Blank(n)
    PROVE  Kept
<1>1. DOMAIN tx = Procs
  BY DEF MInv, MigTypes
<1>2. n # NoTx /\ MayWrite(p) /\ UNCHANGED db /\ tx' = [tx EXCEPT ![p] = n]
  BY DatabaseIsNoTx DEF WellFormed, Dml
<1>3. k \in 1..50 /\ k >= 6
  OBVIOUS
<1>4. Wrote(p, k, d, n)
  BY <1>2, <1>3 DEF Wrote
<1>5. /\ MigTypes' /\ OneWriter' /\ ProcsFit' /\ Interactively
      /\ Frame(p) /\ Follows(db, db') /\ pc'[p] = m
  BY <1>3, <1>4, WriteStep
<1>6. tx'[p] = n
  BY <1>1, <1>2
<1>7. AddressesFit'
  <2>1. AtFill(pc[p], seen[p]) \/ (tx[p] # NoTx /\ ~Blank(tx[p])) => ~Blank(n)
    BY DEF ViewOf, Ran, MovesAddresses
  <2>2. UNCHANGED cut
    BY DEF Ran
  <2>3. QED
    BY <1>2, <1>5, <1>6, <2>1, <2>2, AddressesStay
<1>8. QED
  BY <1>5, <1>7 DEF Kept, MInv

\* A statement that raises.
LEMMA FailStep ==
    ASSUME MInv, UNCHANGED <<db, tx, pc, seen, cut>>, failed' \subseteq Procs
    PROVE  Kept
<1>1. MigTypes' /\ OneWriter' /\ ProcsFit' /\ AddressesFit'
  <2>1. MigTypes'
    BY DEF MInv, MigTypes
  <2>2. OneWriter'
    BY DEF MInv, OneWriter
  <2>3. ProcsFit'
    BY DEF MInv, ProcsFit
  <2>4. AddressesFit'
    BY DEF MInv, AddressesFit
  <2>5. QED
    BY <2>1, <2>2, <2>3, <2>4
<1>2. QED
  BY <1>1, FollowsSelf DEF Kept, MInv, Interactively

-----------------------------------------------------------------------------
(* Every action keeps the invariant.                                       *)

\* A process that goes on by what it has seen of the columns.
LEMMA Starts ==
    ASSUME MInv, NEW p \in Procs, NEW op, At(p, op), NEW cols, Advance(p, cols),
           UNCHANGED <<failed, cut>>,
           DOMAIN seen' = Procs, \A q \in Procs \ {p} : seen'[q] = seen[q],
           seen'[p] = cols \/ op \notin {"pragma", "add", "fill"}
    PROVE  \E m : Ran(p, pc[p], m, seen'[p])
<1>1. pc[p] \in 1..51 /\ InitSchema[pc[p]].op = op
  BY Running
<1>2. pc[p] \in 0..51
  BY <1>1
<1>3. PICK m \in 1..52 : pc' = [pc EXCEPT ![p] = m] /\ Leads(pc[p], cols, m)
  BY <1>2, Goes
<1>4. Leads(pc[p], seen'[p], m)
  BY <1>1, <1>3, LeadsPlain
<1>5. QED
  BY <1>3, <1>4 DEF Ran

\* CREATE TABLE IF NOT EXISTS.
LEMMA CreateStep == ASSUME MInv, NEW p \in Procs, CreateTable(p) PROVE Kept
<1> DEFINE k == pc[p]
           d == View(p)
           t == InitSchema[k].table
           n == WithTable(d, t)
<1>1. /\ k \in 1..51 /\ InitSchema[k].op = "create" /\ Cur(p) = InitSchema[k]
      /\ d = ViewOf(db, tx[p]) /\ WellFormed(d) /\ Fits(db, tx[p], k, seen[p])
      /\ t \in Tables /\ (tx[p] # NoTx => k >= 7)
  BY Running DEF CreateTable
<1>2. /\ At(p, "create") /\ Go(p) /\ UNCHANGED <<failed, cut>>
      /\ DOMAIN seen' = Procs /\ seen'[p] = {} /\ \A q \in Procs \ {p} : seen'[q] = seen[q]
  BY DEF CreateTable, Skip, MInv, MigTypes
<1>3. (t \in d.tables /\ UNCHANGED <<db, tx>>) \/ (t \notin d.tables /\ Ddl(p, n))
  BY <1>1 DEF CreateTable, Skip, WithTable
<1>4. t \notin d.tables =>
        /\ WellFormed(n) /\ Follows(d, n) /\ t \in n.tables
        /\ n.addr = d.addr /\ n.events = d.events
        /\ n.sessions = d.sessions /\ n.commands = d.commands
        /\ \A u \in Tables \ {t} : n.cols[u] = d.cols[u]
  BY <1>1, CreateDoes
<1> HIDE DEF d, n
<1>5. PICK m : Ran(p, k, m, {})
  <2>1. Advance(p, seen[p]) /\ "create" \notin {"pragma", "add", "fill"} /\ {} = seen'[p]
    BY <1>2 DEF Go
  <2>2. \E m : Ran(p, pc[p], m, {})
    BY <1>2, <2>1, Starts
  <2>3. QED
    BY <2>2
<1>6. /\ k \in 1..50 /\ k \notin {6, 41, 47, 48, 49, 50} /\ (t = "workers" => k = 1)
      /\ InitSchema[k].op \notin {"pragma", "add", "fill"}
  BY <1>1, Places, OtherPlaces
<1>7. SeesTable(k, {}, d) /\ SeesTable(k, {}, n)
  BY <1>6 DEF SeesTable
<1> HIDE DEF k
<1>8. CASE t \in d.tables /\ UNCHANGED <<db, tx>>
  <2>1. HasSchema(ViewOf(db, tx[p]), InitSchema[k])
    BY <1>1, <1>8 DEF HasSchema
  <2>2. ~AtFill(k, seen[p])
    BY <1>6 DEF AtFill
  <2>3. QED
    BY <1>1, <1>5, <1>6, <1>7, <1>8, <2>1, <2>2, SkipGoes
<1>9. CASE t \notin d.tables /\ Ddl(p, n)
  <2>1. HasSchema(n, InitSchema[k])
    BY <1>1, <1>4, <1>9 DEF HasSchema
  <2>2. \/ "worker_ip" \in n.cols["workers"] => "worker_ip" \in d.cols["workers"]
        \/ tx[p] = NoTx /\ (Blank(db) => AtFill(m, {}))
    <3>1. CASE t = "workers"
      <4>1. tx[p] = NoTx /\ d = db
        BY <1>1, <1>6, <3>1 DEF ViewOf
      <4>2. db.cols["workers"] = {}
        BY <1>1, <1>9, <3>1, <4>1 DEF WellFormed
      <4>3. ~Blank(db)
        BY <4>2 DEF MInv, AddressesFit
      <4>4. QED
        BY <4>1, <4>3
    <3>2. CASE t # "workers"
      BY <1>4, <1>9, <3>2 DEF Tables
    <3>3. QED
      BY <3>1, <3>2
  <2>3. QED
    BY <1>1, <1>4, <1>5, <1>6, <1>7, <1>9, <2>1, <2>2, DdlStep
<1>10. QED
  BY <1>3, <1>8, <1>9

\* PRAGMA table_info: what it returns holds until the next ALTERs, or they fail.
LEMMA ReadStep == ASSUME MInv, NEW p \in Procs, ReadColumns(p) PROVE Kept
<1> DEFINE k == pc[p]
           d == View(p)
           cols == d.cols[InitSchema[k].table]
<1>1. /\ k \in 1..51 /\ InitSchema[k].op = "pragma" /\ Cur(p) = InitSchema[k]
      /\ d = ViewOf(db, tx[p])
  BY Running DEF ReadColumns
<1>2. /\ At(p, "pragma") /\ Advance(p, cols) /\ UNCHANGED <<db, tx, failed, cut>>
      /\ DOMAIN seen' = Procs /\ seen'[p] = cols /\ \A q \in Procs \ {p} : seen'[q] = seen[q]
  BY <1>1 DEF ReadColumns, MInv, MigTypes
<1> HIDE DEF d, cols
<1>3. PICK m : Ran(p, k, m, cols)
  BY <1>2, Starts
<1>4. k \in 1..50 /\ k \notin {6, 41, 47, 48, 49, 50}
  BY <1>1, OtherPlaces
<1>5. HasSchema(d, InitSchema[k])
  BY <1>1 DEF HasSchema
<1>6. SeesTable(k, cols, d)
  BY DEF SeesTable, SeesAll, cols
<1>7. ~AtFill(k, seen[p])
  BY <1>4 DEF AtFill
<1> HIDE DEF k
<1>8. QED
  BY <1>1, <1>2, <1>3, <1>4, <1>5, <1>6, <1>7, SkipGoes

\* ALTER TABLE ADD COLUMN, or its failure.
LEMMA AddStep == ASSUME MInv, NEW p \in Procs, AddColumn(p) PROVE Kept
<1> DEFINE k == pc[p]
           d == View(p)
           t == InitSchema[k].table
           c == InitSchema[k].col
           n == WithColumn(d, t, c)
<1>1. /\ k \in 1..51 /\ InitSchema[k].op = "add" /\ Cur(p) = InitSchema[k]
      /\ d = ViewOf(db, tx[p]) /\ WellFormed(d) /\ Fits(db, tx[p], k, seen[p])
      /\ t \in Tables /\ (tx[p] # NoTx => k >= 7)
  BY Running DEF AddColumn
<1>2. UNCHANGED <<seen, cut>> /\ At(p, "add")
  BY DEF AddColumn
<1>3. \/ Fail(p)
      \/ c \notin d.cols[t] /\ Ddl(p, n) /\ Go(p) /\ UNCHANGED failed
  BY <1>1 DEF AddColumn, WithColumn
<1>4. c \in Current(t) /\ (t = "workers" /\ c = "worker_ip" => k = 5)
  BY <1>1, ByPlace
<1>5. t \in d.tables
  <2>1. PICK j \in 1..51 : j < k /\ InitSchema[j].op = "create" /\ InitSchema[j].table = t
    BY <1>1, Places
  <2>2. HasSchema(d, InitSchema[j])
    BY <1>1, <2>1 DEF Fits, PassedFits
  <2>3. QED
    BY <2>1, <2>2 DEF HasSchema
<1> HIDE DEF d, n
<1>6. CASE Fail(p)
  <2>1. UNCHANGED <<db, tx, pc, seen, cut>> /\ failed' \subseteq Procs
    BY <1>2, <1>6 DEF Fail, MInv, MigTypes
  <2>2. QED
    BY <2>1, FailStep
<1>7. CASE c \notin d.cols[t] /\ Ddl(p, n) /\ Go(p) /\ UNCHANGED failed
  <2>1. /\ WellFormed(n) /\ Follows(d, n) /\ c \in n.cols[t]
        /\ n.addr = d.addr /\ n.events = d.events
        /\ n.sessions = d.sessions /\ n.commands = d.commands
        /\ n.cols[t] = d.cols[t] \cup {c} /\ \A u \in Tables \ {t} : n.cols[u] = d.cols[u]
    BY <1>1, <1>4, <1>5, AddDoes DEF n
  <2>2. Advance(p, seen[p]) /\ seen'[p] = seen[p] /\ UNCHANGED <<failed, cut>>
        /\ DOMAIN seen' = Procs /\ \A q \in Procs \ {p} : seen'[q] = seen[q]
    BY <1>2, <1>7 DEF Go, MInv, MigTypes
  <2>3. PICK m : Ran(p, k, m, seen[p])
    <3>1. \E m : Ran(p, pc[p], m, seen'[p])
      BY <1>2, <2>2, Starts
    <3>2. QED
      BY <2>2, <3>1
  <2>4. k \in 1..50 /\ k \notin {6, 41, 47, 48, 49, 50}
    BY <1>1, OtherPlaces
  <2>5. /\ seen[p] \subseteq d.cols[t]
        /\ "zerotier_ip" \in d.cols[t] => "zerotier_ip" \in seen[p]
        /\ c \notin seen[p]
    BY <1>1, SeenDoes DEF SeesAll
  <2>6. SeesTable(k, seen[p], n)
    <3>1. "zerotier_ip" \in n.cols[t] => "zerotier_ip" \in d.cols[t]
      BY <1>1, <2>1 DEF Follows, Grows
    <3>2. SeesAll(seen[p], n.cols[t])
      BY <2>1, <2>5, <3>1 DEF SeesAll
    <3>3. QED
      BY <3>2 DEF SeesTable
  <2>7. HasSchema(n, InitSchema[k])
    BY <1>1, <2>1 DEF HasSchema
  <2>8. \/ "worker_ip" \in n.cols["workers"] => "worker_ip" \in d.cols["workers"]
        \/ tx[p] = NoTx /\ (Blank(db) => AtFill(m, seen[p]))
    <3>1. CASE t = "workers" /\ c = "worker_ip"
      <4>1. k = 5 /\ tx[p] = NoTx /\ d = db
        BY <1>1, <1>4, <3>1 DEF ViewOf
      <4>2. ASSUME Blank(db)
            PROVE  "zerotier_ip" \in seen[p] /\ "worker_ip" \notin seen[p]
        BY <1>7, <2>5, <3>1, <4>1, <4>2 DEF MInv, AddressesFit
      <4>3. m = 6
        <5>1. Leads(5, seen[p], m)
          BY <2>3, <4>1 DEF Ran
        <5>2. 5 \in 0..51 /\ 5 < 6
          OBVIOUS
        <5>3. m \in 5 + 1 .. 52 /\ m <= 6
          BY <5>1, <5>2, LeadsDoes
        <5>4. QED
          BY <5>3
      <4>4. QED
        BY <4>1, <4>2, <4>3 DEF AtFill
    <3>2. CASE t # "workers"
      BY <2>1, <3>2 DEF Tables
    <3>3. CASE t = "workers" /\ c # "worker_ip"
      BY <2>1, <3>3
    <3>4. QED
      BY <3>1, <3>2, <3>3
  <2> HIDE DEF k
  <2>9. QED
    BY <1>1, <1>7, <2>1, <2>3, <2>4, <2>6, <2>7, <2>8, DdlStep
<1>8. QED
  BY <1>3, <1>6, <1>7

\* The statements on the rows.
DataOps == {"number", "commands", "events", "parents", "sessions"}

\* What a statement on the rows finds: the statements before have done theirs.
LEMMA DataFound ==
    ASSUME MInv, NEW p \in Procs, NEW op \in DataOps, At(p, op)
    PROVE  /\ pc[p] \in {41, 47, 48, 49, 50} /\ InitSchema[pc[p]].op = op
           /\ WellFormed(View(p)) /\ View(p) = ViewOf(db, tx[p])
           /\ pc[p] # 41 => DataFits(View(p), pc[p])
           /\ (op = "number" <=> pc[p] = 41) /\ (op = "commands" <=> pc[p] = 47)
           /\ (op = "events" <=> pc[p] = 48) /\ (op = "parents" <=> pc[p] = 49)
           /\ (op = "sessions" <=> pc[p] = 50)
<1>1. /\ pc[p] \in 1..51 /\ InitSchema[pc[p]].op = op
      /\ View(p) = ViewOf(db, tx[p]) /\ WellFormed(View(p))
      /\ Fits(db, tx[p], pc[p], seen[p])
      /\ pc[p] >= 42 => tx[p] # NoTx
  BY Running
<1>2. /\ (op = "number" <=> pc[p] = 41) /\ (op = "commands" <=> pc[p] = 47)
      /\ (op = "events" <=> pc[p] = 48) /\ (op = "parents" <=> pc[p] = 49)
      /\ (op = "sessions" <=> pc[p] = 50)
  BY <1>1, Places
<1>3. pc[p] \in {41, 47, 48, 49, 50}
  BY <1>2 DEF DataOps
<1>4. pc[p] # 41 => DataFits(View(p), pc[p])
  BY <1>1, <1>3 DEF Fits, PassedFits, ViewOf
<1>5. QED
  BY <1>1, <1>2, <1>3, <1>4

\* They run in a transaction.
LEMMA DataStep ==
    ASSUME MInv, NEW p \in Procs, NEW op \in DataOps, At(p, op), NEW n,
           Dml(p, n), Go(p),
           UNCHANGED <<seen, failed, cut>>,
           WellFormed(n), Follows(View(p), n), MovesAddresses(View(p), n),
           DataFits(n, pc[p] + 1)
    PROVE  Kept
<1> DEFINE k == pc[p]
           d == View(p)
<1>1. k \in {41, 47, 48, 49, 50} /\ InitSchema[k].op = op /\ d = ViewOf(db, tx[p])
  BY DataFound
<1>2. Advance(p, seen[p]) /\ seen'[p] = seen[p] /\ UNCHANGED <<failed, cut>>
      /\ DOMAIN seen' = Procs /\ \A q \in Procs \ {p} : seen'[q] = seen[q]
  BY DEF Go, MInv, MigTypes
<1>3. \E m : Ran(p, k, m, seen'[p])
  BY <1>2, Starts
<1>4. PICK m : Ran(p, k, m, seen[p])
  BY <1>2, <1>3
<1>5. InitSchema[k].op \notin {"create", "pragma", "add", "fill", "index", "trigger"}
  BY <1>1 DEF DataOps
<1>6. HasSchema(n, InitSchema[k]) /\ SeesTable(k, seen[p], n)
  BY <1>5 DEF HasSchema, SeesTable
<1>7. ~AtFill(k, seen[p])
  BY <1>1 DEF AtFill
<1>8. k \in 6..50
  BY <1>1
<1> HIDE DEF k, d
<1>9. QED
  BY <1>1, <1>4, <1>6, <1>7, <1>8, DmlStep DEF k, d

\* The backfill of the cursors.
LEMMA NumberStep ==
    ASSUME MigrationConstants, MInv, NEW p \in Procs, NumberEvents(p) PROVE Kept
<1> DEFINE d == View(p)
           n == [d EXCEPT !.events = Numbered(d)]
<1>1. At(p, "number") /\ Dml(p, n) /\ Go(p) /\ UNCHANGED <<seen, failed, cut>>
  BY DEF NumberEvents
<1>2. pc[p] = 41 /\ WellFormed(d) /\ "number" \in DataOps
  BY <1>1, DataFound DEF DataOps
<1>3. MaxEvents \in Nat
  BY DEF MigrationConstants
<1>4. WellFormed(n) /\ Follows(d, n) /\ MovesAddresses(d, n) /\ InOrder(n)
  BY <1>2, <1>3, NumberDoes
<1> HIDE DEF n
<1>5. DataFits(n, 42)
  BY <1>4 DEF DataFits
<1>6. DataFits(n, pc[p] + 1)
  <2>1. pc[p] + 1 = 42
    BY <1>2
  <2>2. QED
    BY <1>5, <2>1
<1>7. QED
  BY <1>1, <1>2, <1>4, <1>6, DataStep

\* The deletion of the commands of delegated sessions.
LEMMA CommandsStep == ASSUME MInv, NEW p \in Procs, DeleteCommands(p) PROVE Kept
<1> DEFINE d == View(p)
           n == [d EXCEPT !.commands = @ \ SubSelect(d)]
<1>1. At(p, "commands") /\ Dml(p, n) /\ Go(p) /\ UNCHANGED <<seen, failed, cut>>
  BY DEF DeleteCommands
<1>2. pc[p] = 47 /\ WellFormed(d) /\ "commands" \in DataOps /\ DataFits(d, 47)
  BY <1>1, DataFound DEF DataOps
<1>3. /\ WellFormed(n) /\ Follows(d, n) /\ MovesAddresses(d, n)
      /\ n.commands \cap Delegated(n) = {} /\ n.events = d.events
  BY <1>2, CommandsDoes
<1> HIDE DEF n
<1>4. InOrder(n)
  BY <1>2, <1>3, SameEvents DEF DataFits
<1>5. DataFits(n, 48)
  BY <1>3, <1>4 DEF DataFits
<1>6. DataFits(n, pc[p] + 1)
  <2>1. pc[p] + 1 = 48
    BY <1>2
  <2>2. QED
    BY <1>5, <2>1
<1>7. QED
  BY <1>1, <1>2, <1>3, <1>6, DataStep

\* The deletion of their events.
LEMMA EventsStep ==
    ASSUME MigrationConstants, MInv, NEW p \in Procs, DeleteEvents(p) PROVE Kept
<1> DEFINE d == View(p)
           n == WithoutEvents(d)
<1>1. At(p, "events") /\ Dml(p, n) /\ Go(p) /\ UNCHANGED <<seen, failed, cut>>
  BY DEF DeleteEvents, WithoutEvents, EventsKept
<1>2. pc[p] = 48 /\ WellFormed(d) /\ "events" \in DataOps /\ DataFits(d, 48)
  BY <1>1, DataFound DEF DataOps
<1>3. MaxEvents \in Nat /\ InOrder(d) /\ d.commands \cap Delegated(d) = {}
  <2>1. InOrder(d) /\ d.commands \cap Delegated(d) = {}
    BY <1>2 DEF DataFits
  <2>2. QED
    BY <2>1 DEF MigrationConstants
<1>4. /\ WellFormed(n) /\ Follows(d, n) /\ MovesAddresses(d, n) /\ InOrder(n)
      /\ \A i \in DOMAIN n.events : n.events[i].session \notin Delegated(n)
      /\ Delegated(n) = Delegated(d) /\ n.commands = d.commands
  BY <1>2, <1>3, EventsDoes
<1> HIDE DEF n
<1>5. DataFits(n, 49)
  BY <1>3, <1>4 DEF DataFits
<1>6. DataFits(n, pc[p] + 1)
  <2>1. pc[p] + 1 = 49
    BY <1>2
  <2>2. QED
    BY <1>5, <2>1
<1>7. QED
  BY <1>1, <1>2, <1>4, <1>6, DataStep

\* Their children are detached.
LEMMA ParentsStep ==
    ASSUME MigrationConstants, MInv, NEW p \in Procs, DetachChildren(p) PROVE Kept
<1> DEFINE d == View(p)
           n == WithoutParents(d)
<1>1. At(p, "parents") /\ Dml(p, n) /\ Go(p) /\ UNCHANGED <<seen, failed, cut>>
  BY DEF DetachChildren, WithoutParents
<1>2. pc[p] = 49 /\ WellFormed(d) /\ "parents" \in DataOps /\ DataFits(d, 49)
  BY <1>1, DataFound DEF DataOps
<1>3. /\ "" \notin Ids /\ InOrder(d) /\ d.commands \cap Delegated(d) = {}
      /\ \A i \in DOMAIN d.events : d.events[i].session \notin Delegated(d)
  <2>1. /\ InOrder(d) /\ d.commands \cap Delegated(d) = {}
        /\ \A i \in DOMAIN d.events : d.events[i].session \notin Delegated(d)
    BY <1>2 DEF DataFits
  <2>2. QED
    BY <2>1 DEF MigrationConstants
<1>4. /\ WellFormed(n) /\ Follows(d, n) /\ MovesAddresses(d, n)
      /\ \A r \in n.sessions : r.parent \notin Delegated(n)
      /\ Delegated(n) = Delegated(d) /\ n.events = d.events /\ n.commands = d.commands
  BY <1>2, <1>3, ParentsDoes
<1> HIDE DEF n
<1>5. InOrder(n)
  BY <1>3, <1>4, SameEvents
<1>6. DataFits(n, 50)
  <2>1. n.commands \cap Delegated(n) = {}
    BY <1>3, <1>4
  <2>2. \A i \in DOMAIN n.events : n.events[i].session \notin Delegated(n)
    BY <1>3, <1>4
  <2>3. QED
    BY <1>4, <1>5, <2>1, <2>2 DEF DataFits
<1>7. DataFits(n, pc[p] + 1)
  <2>1. pc[p] + 1 = 50
    BY <1>2
  <2>2. QED
    BY <1>6, <2>1
<1>8. QED
  BY <1>1, <1>2, <1>4, <1>7, DataStep

\* Their own deletion.
LEMMA SessionsStep ==
    ASSUME MInv, NEW p \in Procs, DeleteDelegated(p)
    PROVE  Kept
<1> DEFINE d == View(p)
           n == [d EXCEPT !.sessions = {s \in @ : s.kind # "delegated"}]
<1>1. At(p, "sessions") /\ Dml(p, n) /\ Go(p) /\ UNCHANGED <<seen, failed, cut>>
  BY DEF DeleteDelegated
<1>2. pc[p] = 50 /\ WellFormed(d) /\ "sessions" \in DataOps /\ DataFits(d, 50)
  BY <1>1, DataFound DEF DataOps
<1>3. /\ InOrder(d) /\ d.commands \cap Delegated(d) = {}
      /\ \A i \in DOMAIN d.events : d.events[i].session \notin Delegated(d)
      /\ \A r \in d.sessions : r.parent \notin Delegated(d)
  BY <1>2 DEF DataFits
<1>4. /\ WellFormed(n) /\ Follows(d, n) /\ MovesAddresses(d, n)
      /\ Delegated(n) = {} /\ n.events = d.events
  BY <1>2, <1>3, SessionsDoes
<1> HIDE DEF n
<1>5. InOrder(n)
  BY <1>3, <1>4, SameEvents
<1>6. DataFits(n, 51)
  BY <1>4, <1>5 DEF DataFits
<1>7. DataFits(n, pc[p] + 1)
  <2>1. pc[p] + 1 = 51
    BY <1>2
  <2>2. QED
    BY <1>6, <2>1
<1>8. QED
  BY <1>1, <1>2, <1>4, <1>7, DataStep

\* A process that goes on with what it has seen.
LEMMA GoesAsSeen ==
    ASSUME MInv, NEW p \in Procs, NEW op, At(p, op), Go(p),
           UNCHANGED <<seen, failed, cut>>
    PROVE  \E m : Ran(p, pc[p], m, seen[p])
<1>1. Advance(p, seen[p]) /\ seen'[p] = seen[p] /\ UNCHANGED <<failed, cut>>
      /\ DOMAIN seen' = Procs /\ \A q \in Procs \ {p} : seen'[q] = seen[q]
  BY DEF Go, MInv, MigTypes
<1>2. \E m : Ran(p, pc[p], m, seen'[p])
  BY <1>1, Starts
<1>3. QED
  BY <1>1, <1>2

\* The UPDATE of the addresses, or none.
LEMMA FillStep == ASSUME MInv, NEW p \in Procs, FillAddress(p) PROVE Kept
<1> DEFINE k == pc[p]
           d == View(p)
           n == WithAddresses(d)
<1>1. /\ k \in 1..51 /\ InitSchema[k].op = "fill" /\ d = ViewOf(db, tx[p]) /\ WellFormed(d)
      /\ Fits(db, tx[p], k, seen[p])
  BY Running DEF FillAddress
<1>2. /\ At(p, "fill") /\ Go(p) /\ UNCHANGED <<seen, failed, cut>>
      /\ (AddressMoves(p) /\ Dml(p, n)) \/ (~AddressMoves(p) /\ UNCHANGED <<db, tx>>)
  BY DEF FillAddress, Skip, WithAddresses
<1>3. PICK m : Ran(p, k, m, seen[p])
  BY <1>2, GoesAsSeen
<1>4. k = 6
  BY <1>1, Places
<1>5. AddressMoves(p) <=> AtFill(k, seen[p])
  BY <1>4 DEF AddressMoves, AtFill
<1>6. HasSchema(d, InitSchema[k]) /\ HasSchema(n, InitSchema[k])
  BY <1>1 DEF HasSchema
<1>7. /\ WellFormed(n) /\ Follows(d, n) /\ MovesAddresses(d, n) /\ ~Blank(n)
      /\ n.cols = d.cols
  BY <1>1, FillDoes
<1>8. DataFits(n, 7)
  BY DEF DataFits
<1> HIDE DEF d, n
<1>9. SeesAll(seen[p], d.cols[InitSchema[k].table])
  BY <1>1, SeenDoes
<1>10. SeesTable(k, seen[p], d) /\ SeesTable(k, seen[p], n)
  BY <1>7, <1>9 DEF SeesTable
<1>11. k \in 1..50 /\ k \in 6..50 /\ k \notin {41, 47, 48, 49, 50} /\ k + 1 = 7
  BY <1>4
<1> HIDE DEF k
<1>12. CASE AddressMoves(p) /\ Dml(p, n)
  <2>1. DataFits(n, k + 1)
    BY <1>8, <1>11
  <2>2. QED
    BY <1>1, <1>3, <1>6, <1>7, <1>10, <1>11, <1>12, <2>1, DmlStep
<1>13. CASE ~AddressMoves(p) /\ UNCHANGED <<db, tx>>
  BY <1>1, <1>3, <1>5, <1>6, <1>10, <1>11, <1>13, SkipGoes
<1>14. QED
  BY <1>2, <1>12, <1>13

\* The index: it cannot collide, since the events are in order by now.
LEMMA IndexStep == ASSUME MInv, NEW p \in Procs, IndexEvents(p) PROVE Kept
<1> DEFINE k == pc[p]
           d == View(p)
           n == [d EXCEPT !.indexed = TRUE]
<1>1. /\ k \in 1..51 /\ InitSchema[k].op = "index" /\ d = ViewOf(db, tx[p]) /\ WellFormed(d)
  BY Running DEF IndexEvents
<1>2. /\ At(p, "index") /\ UNCHANGED <<seen, cut>>
      /\ \/ Fail(p)
         \/ d.indexed /\ UNCHANGED <<db, tx>> /\ Go(p) /\ UNCHANGED failed
         \/ Ddl(p, n) /\ Go(p) /\ UNCHANGED failed
  BY DEF IndexEvents, Skip
<1>3. /\ WellFormed(n) /\ Follows(d, n) /\ n.indexed /\ n.cols = d.cols /\ n.addr = d.addr
      /\ n.events = d.events /\ n.sessions = d.sessions /\ n.commands = d.commands
  BY <1>1, IndexDoes
<1> HIDE DEF d, n
<1>4. k \in 1..50 /\ k \notin {6, 41, 47, 48, 49, 50}
  BY <1>1, OtherPlaces
<1>5. HasSchema(n, InitSchema[k]) /\ (d.indexed => HasSchema(d, InitSchema[k]))
  BY <1>1, <1>3 DEF HasSchema
<1>6. SeesTable(k, seen[p], d) /\ SeesTable(k, seen[p], n) /\ ~AtFill(k, seen[p])
  BY <1>1, <1>4 DEF SeesTable, AtFill
<1>7. CASE Fail(p)
  <2>1. UNCHANGED <<db, tx, pc, seen, cut>> /\ failed' \subseteq Procs
    BY <1>2, <1>7 DEF Fail, MInv, MigTypes
  <2>2. QED
    BY <2>1, FailStep
<1>8. CASE Go(p) /\ UNCHANGED failed
  <2>1. PICK m : Ran(p, k, m, seen[p])
    BY <1>2, <1>8, GoesAsSeen
  <2> HIDE DEF k
  <2>2. CASE d.indexed /\ UNCHANGED <<db, tx>>
    BY <1>1, <1>4, <1>5, <1>6, <2>1, <2>2, SkipGoes
  <2>3. CASE Ddl(p, n)
    BY <1>1, <1>3, <1>4, <1>5, <1>6, <2>1, <2>3, DdlStep
  <2>4. QED
    BY <1>2, <1>7, <2>2, <2>3
<1>9. QED
  BY <1>2, <1>7, <1>8

\* The trigger.
LEMMA TriggerStep == ASSUME MInv, NEW p \in Procs, CreateTrigger(p) PROVE Kept
<1> DEFINE k == pc[p]
           d == View(p)
           n == [d EXCEPT !.trigger = TRUE]
<1>1. /\ k \in 1..51 /\ InitSchema[k].op = "trigger" /\ d = ViewOf(db, tx[p]) /\ WellFormed(d)
      /\ Fits(db, tx[p], k, seen[p]) /\ (k >= 42 => tx[p] # NoTx)
  BY Running DEF CreateTrigger
<1>2. /\ At(p, "trigger") /\ Go(p) /\ UNCHANGED <<seen, failed, cut>>
      /\ (d.trigger /\ UNCHANGED <<db, tx>>) \/ Ddl(p, n)
  BY DEF CreateTrigger, Skip
<1>3. k = 43
  BY <1>1, Places
<1>4. InOrder(d)
  BY <1>1, <1>3 DEF Fits, PassedFits, DataFits, ViewOf
<1>5. /\ WellFormed(n) /\ Follows(d, n) /\ n.trigger /\ n.cols = d.cols /\ n.addr = d.addr
      /\ n.events = d.events /\ n.sessions = d.sessions /\ n.commands = d.commands
  BY <1>1, <1>4, TriggerDoes
<1> HIDE DEF d, n
<1>6. k \in 1..50 /\ k \notin {6, 41, 47, 48, 49, 50}
  BY <1>3
<1>7. HasSchema(n, InitSchema[k]) /\ (d.trigger => HasSchema(d, InitSchema[k]))
  BY <1>1, <1>5 DEF HasSchema
<1>8. SeesTable(k, seen[p], d) /\ SeesTable(k, seen[p], n) /\ ~AtFill(k, seen[p])
  BY <1>1, <1>6 DEF SeesTable, AtFill
<1>9. PICK m : Ran(p, k, m, seen[p])
  BY <1>2, GoesAsSeen
<1>10. UNCHANGED <<failed, cut>>
  BY <1>2
<1> HIDE DEF k
<1>11. CASE d.trigger /\ UNCHANGED <<db, tx>>
  BY <1>1, <1>6, <1>7, <1>8, <1>9, <1>11, SkipGoes
<1>12. CASE Ddl(p, n)
  BY <1>1, <1>5, <1>6, <1>7, <1>8, <1>9, <1>12, DdlStep
<1>13. QED
  BY <1>2, <1>11, <1>12

\* The commit makes the file what the transaction saw.
LEMMA CommitStep == ASSUME MInv, NEW p \in Procs, Commit(p) PROVE Kept
<1> DEFINE k == pc[p]
           n == View(p)
<1>1. /\ k \in 1..51 /\ InitSchema[k].op = "commit" /\ n = ViewOf(db, tx[p]) /\ WellFormed(n)
      /\ Fits(db, tx[p], k, seen[p]) /\ (k >= 42 => tx[p] # NoTx)
  BY Running DEF Commit
<1>2. /\ At(p, "commit") /\ Go(p) /\ UNCHANGED <<seen, failed, cut>>
      /\ db' = n /\ tx' = [tx EXCEPT ![p] = NoTx]
  BY DEF Commit
<1>3. k = 51
  BY <1>1, Places
<1>4. tx[p] # NoTx /\ n = tx[p]
  BY <1>1, <1>3 DEF ViewOf
<1> HIDE DEF n
<1>5. Follows(db, n) /\ MovesAddresses(db, n)
  BY <1>1, <1>4 DEF Fits, TxFits
<1>6. Delegated(n) = {}
  <2>1. DataFits(n, 51)
    BY <1>1, <1>3, <1>4 DEF Fits, PassedFits
  <2>2. QED
    BY <2>1 DEF DataFits
<1>7. ASSUME NEW j \in 1..51 PROVE HasSchema(n, InitSchema[j])
  <2>1. CASE j < k
    BY <1>1, <2>1 DEF Fits, PassedFits
  <2>2. CASE j = k
    BY <1>1, <2>2 DEF HasSchema
  <2>3. QED
    BY <1>3, <2>1, <2>2
<1>8. n.trigger
  <2>1. 43 \in 1..51
    OBVIOUS
  <2>2. InitSchema[43].op = "trigger"
    BY <2>1, Places
  <2>3. QED
    BY <1>7, <2>1, <2>2 DEF HasSchema
<1>9. PICK m : Ran(p, k, m, seen[p])
  BY <1>2, GoesAsSeen
<1>10. Fits(n, NoTx, m, seen[p]) /\ m \in 1..52
  <2>1. k \in 0..51 /\ k \notin 41..50 /\ InitSchema[k].op \notin {"pragma", "add", "fill"}
    BY <1>1, <1>3
  <2>2. \A j \in 1..51 : j <= k => HasSchema(ViewOf(n, NoTx), InitSchema[j])
    BY <1>7 DEF ViewOf
  <2>3. Leads(k, seen[p], m)
    BY <1>9 DEF Ran
  <2> HIDE DEF k
  <2>4. QED
    BY <1>6, <2>1, <2>2, <2>3, GoesOn
<1>11. /\ DOMAIN tx = Procs /\ pc \in [Procs -> 0..52] /\ DOMAIN seen = Procs
       /\ \A q \in Procs : tx[q] # NoTx => q = p
  BY <1>4 DEF MInv, MigTypes, OneWriter
<1>12. /\ DOMAIN tx' = Procs /\ tx'[p] = NoTx /\ \A q \in Procs \ {p} : tx'[q] = tx[q] /\ tx[q] = NoTx
       /\ pc' \in [Procs -> 0..52] /\ pc'[p] = m /\ \A q \in Procs \ {p} : pc'[q] = pc[q]
  BY <1>2, <1>9, <1>10, <1>11 DEF Ran
<1>13. Frame(p)
  BY <1>2, <1>12 DEF Frame
<1>14. MigTypes'
  <2>1. \A q \in Procs : tx'[q] = NoTx
    BY <1>12
  <2>2. QED
    BY <1>1, <1>2, <1>8, <1>12, <2>1 DEF MInv, MigTypes
<1>15. OneWriter'
  BY <1>12 DEF OneWriter
<1>16. ProcsFit'
  <2>1. Fits(db', tx'[p], pc'[p], seen'[p])
    BY <1>2, <1>10, <1>12
  <2>2. Follows(db, db') /\ ~\E q \in Procs \ {p} : tx[q] # NoTx
    BY <1>2, <1>5, <1>12
  <2>3. QED
    BY <1>13, <2>1, <2>2, Framed
<1>17. AddressesFit'
  <2>1. /\ Blank(db') => Blank(db)
        /\ "worker_ip" \in db'.cols["workers"] => "worker_ip" \in db.cols["workers"]
    BY <1>2, <1>5 DEF MovesAddresses
  <2>2. ~AtFill(pc[p], seen[p]) /\ (Blank(db') => Blank(tx[p]))
    BY <1>2, <1>3, <1>4 DEF AtFill
  <2>3. UNCHANGED cut /\ Follows(db, db')
    BY <1>2, <1>5
  <2>4. QED
    BY <1>13, <2>1, <2>2, <2>3, AddressesStay
<1>18. Interactively
  BY <1>2, <1>5, <1>6 DEF Interactively
<1>19. QED
  BY <1>14, <1>15, <1>16, <1>17, <1>18 DEF Kept, MInv

\* A process that moves the addresses, or has a transaction open.
LEMMA FillingThem ==
    ASSUME MInv, NEW p \in Procs, Blank(db),
           AtFill(pc[p], seen[p]) \/ tx[p] # NoTx
    PROVE  Filling(p)
<1>1. PICK w \in Workers \cap DOMAIN db.addr : db.addr[w] # "old"
  BY DEF Blank
<1>2. db.addr[w] = ""
  BY <1>1 DEF MInv, MigTypes, WellFormed, IsDatabase
<1>3. CASE AtFill(pc[p], seen[p])
  <2>1. pc[p] = 6
    BY <1>3 DEF AtFill
  <2>2. pc[p] \in DOMAIN InitSchema /\ InitSchema[pc[p]].op = "fill"
    <3>1. 6 \in 1..51
      OBVIOUS
    <3>2. InitSchema[6].op = "fill"
      BY <3>1, Places
    <3>3. DOMAIN InitSchema = 1..51
      BY ByPlace
    <3>4. QED
      BY <2>1, <3>1, <3>2, <3>3
  <2>3. QED
    BY <1>1, <1>2, <1>3, <2>2 DEF Filling, Cur, AddressMoves, AtFill
<1>4. CASE tx[p] # NoTx
  BY <1>1, <1>2, <1>4 DEF Filling
<1>5. QED
  BY <1>3, <1>4

\* A process that ends, at any place, takes its transaction with it.
LEMMA LeaveStep ==
    ASSUME MInv, NEW p \in Procs, Leave(p) PROVE Kept
<1>1. /\ DOMAIN tx' = Procs /\ tx'[p] = NoTx /\ \A q \in Procs \ {p} : tx'[q] = tx[q]
      /\ pc' \in [Procs -> 0..52] /\ pc'[p] = 0 /\ \A q \in Procs \ {p} : pc'[q] = pc[q]
      /\ DOMAIN seen' = Procs /\ \A q \in Procs \ {p} : seen'[q] = seen[q]
      /\ failed' \subseteq Procs /\ UNCHANGED db
  BY DEF Leave, MInv, MigTypes
<1>2. cut' = (cut \/ Filling(p))
  BY DEF Leave
<1>3. Frame(p)
  BY <1>1 DEF Frame
<1>4. MigTypes'
  <2>1. cut' \in BOOLEAN
    BY <1>2
  <2>2. \A q \in Procs : tx'[q] # NoTx => WellFormed(tx'[q])
    BY <1>1 DEF MInv, MigTypes
  <2>3. WellFormed(db') /\ (~db'.trigger => Unnumbered(db'))
    BY <1>1 DEF MInv, MigTypes
  <2>4. QED
    BY <1>1, <2>1, <2>2, <2>3 DEF MigTypes
<1>5. OneWriter'
  BY <1>1 DEF MInv, OneWriter
<1>6. Fits(db', tx'[p], pc'[p], seen'[p])
  BY <1>1 DEF Fits, TxFits, PassedFits, SeenFits
<1>7. ProcsFit'
  BY <1>1, <1>3, <1>6, FollowsSelf, Framed
<1>8. Blank(db) /\ (AtFill(pc[p], seen[p]) \/ tx[p] # NoTx) => Filling(p)
  BY FillingThem
<1>9. AddressesFit'
  <2>1. Follows(db, db') /\ (Blank(db') => Blank(db))
    BY <1>1, FollowsSelf
  <2>2. ~cut' => ~cut /\ ~Filling(p)
    BY <1>2
  <2>3. "worker_ip" \in db'.cols["workers"] => "worker_ip" \in db.cols["workers"]
    BY <1>1
  <2>4. ~(Blank(db') /\ ~cut' /\ (AtFill(pc[p], seen[p]) \/ (tx[p] # NoTx /\ ~Blank(tx[p]))))
    BY <1>8, <2>1, <2>2
  <2>5. QED
    BY <1>3, <2>1, <2>2, <2>3, <2>4, AddressesStay
<1>10. Interactively
  BY <1>1, FollowsSelf DEF Interactively
<1>11. QED
  BY <1>4, <1>5, <1>7, <1>9, <1>10 DEF Kept, MInv

\* A change of the file outside the migration.
LEMMA FileStep ==
    ASSUME MInv, \A q \in Procs : tx[q] = NoTx,
           UNCHANGED <<tx, pc, seen, failed, cut>>,
           WellFormed(db'), Follows(db, db'), db'.cols = db.cols,
           Blank(db') => Blank(db),
           ~db'.trigger => Unnumbered(db'), db'.commands = db.commands
    PROVE  Kept
<1>1. MigTypes'
  BY DEF MInv, MigTypes
<1>2. OneWriter'
  BY DEF MInv, OneWriter
<1>3. ASSUME NEW q \in Procs PROVE Fits(db', tx'[q], pc'[q], seen'[q])
  <2>1. Fits(db, tx[q], pc[q], seen[q]) /\ pc[q] \in 0..52
    BY DEF MInv, ProcsFit, MigTypes
  <2>2. Fits(db', tx[q], pc[q], seen[q])
    BY <2>1, OtherFits
  <2>3. QED
    BY <2>2
<1>4. ProcsFit'
  BY <1>3 DEF ProcsFit
<1>5. AddressesFit'
  BY DEF MInv, AddressesFit
<1>6. Interactively
  BY DEF Interactively
<1>7. QED
  BY <1>1, <1>2, <1>4, <1>5, <1>6 DEF Kept, MInv

\* An event that is inserted meanwhile.
LEMMA InsertStep ==
    ASSUME MigrationConstants, MInv, NEW s, InsertEvent(s)
    PROVE  Kept
<1> DEFINE n == [db EXCEPT !.events = WithEvent(db, s)]
<1>1. /\ \A q \in Procs : tx[q] = NoTx
      /\ s \in SessionIds(db) /\ Max({0} \cup DOMAIN db.events) < MaxEvents /\ db' = n
      /\ UNCHANGED <<tx, pc, seen, failed, cut>>
  BY DEF InsertEvent, SessionIds
<1>2. WellFormed(db) /\ (~db.trigger => Unnumbered(db)) /\ MaxEvents \in Nat
  BY DEF MInv, MigTypes, MigrationConstants
<1>3. /\ WellFormed(n) /\ Follows(db, n) /\ n.cols = db.cols /\ n.addr = db.addr
      /\ ~n.trigger => Unnumbered(n)
      /\ n.commands = db.commands
  BY <1>1, <1>2, InsertDoes
<1> HIDE DEF n
<1>4. Blank(n) => Blank(db)
  BY <1>3 DEF Blank
<1>5. QED
  BY <1>1, <1>3, <1>4, FileStep

\* A worker that is registered meanwhile.
LEMMA RegisterStep ==
    ASSUME MigrationConstants, MInv, NEW p \in Procs, NEW w \in Newcomers,
           Register(p, w)
    PROVE  Kept
<1> DEFINE n == [db EXCEPT !.addr =
                    [v \in DOMAIN @ \cup {w} |-> IF v = w THEN "new" ELSE @[v]]]
<1>1. /\ pc[p] = Done /\ MayWrite(p) /\ db' = n /\ UNCHANGED <<tx, pc, seen, failed, cut>>
  BY DEF Register
<1>2. w \notin Workers
  BY DEF MigrationConstants
<1>3. \A q \in Procs : tx[q] = NoTx
  <2>1. pc[p] = 52
    BY <1>1, ByPlace
  <2>2. tx[p] = NoTx
    BY <2>1 DEF MInv, ProcsFit, Fits, TxFits
  <2>3. QED
    BY <1>1, <2>2 DEF MayWrite
<1>4. WellFormed(db) /\ (~db.trigger => Unnumbered(db))
  BY DEF MInv, MigTypes
<1>5. /\ WellFormed(n) /\ Follows(db, n) /\ n.cols = db.cols /\ (Blank(n) <=> Blank(db))
      /\ n.trigger = db.trigger /\ n.events = db.events /\ n.commands = db.commands
  BY <1>2, <1>4, RegisterDoes
<1> HIDE DEF n
<1>6. ~n.trigger => Unnumbered(n)
  BY <1>4, <1>5, SameEvents
<1>7. QED
  BY <1>1, <1>3, <1>5, <1>6, FileStep

-----------------------------------------------------------------------------
(* The theorems of the migration.                                          *)

\* The invariant holds of every old file.
LEMMA MigrationInit == ASSUME MigrationConstants, Init PROVE MInv
<1>1. IsOldFile(db)
  BY DEF Init, MigrationConstants
<1>2. IsDatabase(db) /\ References(db) /\ \A t \in Tables \ db.tables : db.cols[t] = {}
  BY <1>1 DEF IsOldFile
<1>3. \A w \in DOMAIN db.addr :
        IF "worker_ip" \in db.cols["workers"] THEN db.addr[w] = "old"
        ELSE "zerotier_ip" \in db.cols["workers"] /\ db.addr[w] = ""
  BY <1>1 DEF IsOldFile
<1>4. (db.trigger => InOrder(db)) /\ (~db.trigger => Unnumbered(db))
  BY <1>1 DEF IsOldFile, InOrder, Unnumbered
<1>5. WellFormed(db)
  BY <1>2, <1>3, <1>4 DEF WellFormed
<1>6. /\ DOMAIN tx = Procs /\ \A p \in Procs : tx[p] = NoTx
      /\ pc \in [Procs -> 0..52] /\ \A p \in Procs : pc[p] = 0
      /\ DOMAIN seen = Procs /\ failed \subseteq Procs /\ cut \in BOOLEAN
  <2>1. tx = [p \in Procs |-> NoTx] /\ pc = [p \in Procs |-> 0] /\ seen = [p \in Procs |-> {}]
        /\ failed = {} /\ cut = FALSE
    BY DEF Init
  <2>2. pc \in [Procs -> 0..52]
    BY <2>1
  <2>3. QED
    BY <2>1, <2>2
<1>7. MigTypes
  BY <1>4, <1>5, <1>6 DEF MigTypes
<1>8. OneWriter
  BY <1>6 DEF OneWriter
<1>9. ProcsFit
  BY <1>6 DEF ProcsFit, Fits, TxFits, PassedFits, SeenFits
<1>10. AddressesFit
  BY <1>3 DEF AddressesFit, Blank
<1>11. QED
  BY <1>7, <1>8, <1>9, <1>10 DEF MInv

\* Every step keeps it, one case for each action,
LEMMA MigrationNext == ASSUME MigrationConstants, MInv, Next PROVE Kept
<1>1. ASSUME NEW p \in Procs, Connect(p) PROVE Kept
  BY <1>1, ConnectStep
<1>2. ASSUME NEW p \in Procs, Migrate(p) PROVE Kept
  BY <1>2, CreateStep, ReadStep, AddStep, FillStep, NumberStep, IndexStep,
     TriggerStep,
     CommandsStep, EventsStep, ParentsStep, SessionsStep, CommitStep DEF Migrate
<1>3. ASSUME NEW p \in Procs, LockTimeout(p) PROVE Kept
  <2>1. UNCHANGED <<db, tx, pc, seen, cut>> /\ failed' \subseteq Procs
    BY <1>3 DEF LockTimeout, MInv, MigTypes
  <2>2. QED
    BY <2>1, FailStep
<1>4. ASSUME NEW p \in Procs, ExitFailed(p) \/ Close(p) \/ Crash(p) PROVE Kept
  BY <1>4, LeaveStep DEF ExitFailed, Close, Crash
<1>5. ASSUME NEW p \in Procs, NEW w \in Newcomers, Register(p, w) PROVE Kept
  BY <1>5, RegisterStep
<1>6. ASSUME NEW s \in Ids, InsertEvent(s) PROVE Kept
  BY <1>6, InsertStep
<1>7. QED
  BY <1>1, <1>2, <1>3, <1>4, <1>5, <1>6 DEF Next

\* and so does a stutter.
LEMMA MigrationStep == ASSUME MigrationConstants, MInv, [Next]_vars PROVE Kept
<1>1. CASE Next
  BY <1>1, MigrationNext
<1>2. CASE UNCHANGED vars
  <2>1. UNCHANGED <<db, tx, pc, seen, cut>> /\ failed' \subseteq Procs
    BY <1>2 DEF vars, MInv, MigTypes
  <2>2. QED
    BY <2>1, FailStep
<1>3. QED
  BY <1>1, <1>2

\* A process that has connected has run every statement.
LEMMA ReadyRan ==
    ASSUME MInv, NEW p \in Procs, Ready(p)
    PROVE  /\ tx[p] = NoTx /\ Delegated(db) = {}
           /\ \A j \in 1..51 : HasSchema(db, InitSchema[j])
<1>1. pc[p] = 52
  BY ByPlace DEF Ready
<1>2. Fits(db, tx[p], 52, seen[p])
  BY <1>1 DEF MInv, ProcsFit
<1>3. tx[p] = NoTx /\ Delegated(db) = {}
  BY <1>2 DEF Fits, TxFits, PassedFits
<1>4. \A j \in 1..51 : HasSchema(ViewOf(db, tx[p]), InitSchema[j])
  BY <1>2 DEF Fits, PassedFits
<1>5. QED
  BY <1>3, <1>4 DEF ViewOf

\* The parts of DatabaseConsistent, one by one: types,
LEMMA MigrationTypes == ASSUME MInv PROVE TypeOK
<1> DEFINE S == {p \in Procs : tx[p] # NoTx}
<1>1. Cardinality(S) <= 1
  <2>1. CASE S = {}
    BY <2>1, FS_EmptySet
  <2>2. CASE S # {}
    <3>1. PICK p : p \in S
      BY <2>2
    <3>2. S = {p}
      BY <3>1 DEF MInv, OneWriter
    <3>3. QED
      BY <3>2, FS_Singleton
  <2>3. QED
    BY <2>1, <2>2
<1>2. \A p \in Procs : Ready(p) => tx[p] = NoTx
  BY ReadyRan
<1>3. pc \in [Procs -> 0..Done]
  BY ByPlace DEF MInv, MigTypes
<1>4. IsDatabase(db) /\ \A p \in Procs : tx[p] # NoTx => IsDatabase(tx[p])
  BY DEF MInv, MigTypes, WellFormed
<1>5. failed \subseteq Procs
  BY DEF MInv, MigTypes
<1>6. QED
  BY <1>1, <1>2, <1>3, <1>4, <1>5 DEF TypeOK

\* schema,
LEMMA MigrationDone == ASSUME MInv PROVE ConnectedIsMigrated
<1> SUFFICES ASSUME NEW p \in Procs, Ready(p)
             PROVE  /\ db.tables = Tables
                    /\ \A t \in Tables : Current(t) \subseteq db.cols[t]
                    /\ db.indexed /\ db.trigger
  BY DEF ConnectedIsMigrated
<1>1. \A j \in 1..51 : HasSchema(db, InitSchema[j])
  BY ReadyRan
<1>2. ASSUME NEW t \in Tables PROVE t \in db.tables
  <2>1. \E j \in {1, 11, 22, 38, 44} : TableAt(j) = t
    BY DEF Tables, TableAt
  <2>2. PICK j \in {1, 11, 22, 38, 44} : TableAt(j) = t
    BY <2>1
  <2>3. j \in 1..51 /\ OpAt(j) = "create"
    BY DEF OpAt
  <2>4. InitSchema[j].op = "create" /\ InitSchema[j].table = t
    BY <2>2, <2>3, ByPlace
  <2>5. QED
    BY <1>1, <2>3, <2>4 DEF HasSchema
<1>3. ASSUME NEW t \in Tables, NEW c \in Current(t) PROVE c \in db.cols[t]
  <2>1. PICK j \in 1..51 : InitSchema[j] = Add(t, c)
    BY ByPlace
  <2>2. InitSchema[j].op = "add" /\ InitSchema[j].table = t /\ InitSchema[j].col = c
    BY <2>1 DEF Add
  <2>3. QED
    BY <1>1, <2>2 DEF HasSchema
<1>4. db.indexed /\ db.trigger
  <2>1. 42 \in 1..51 /\ 43 \in 1..51
    OBVIOUS
  <2>2. InitSchema[42].op = "index" /\ InitSchema[43].op = "trigger"
    BY <2>1, Places
  <2>3. QED
    BY <1>1, <2>1, <2>2 DEF HasSchema
<1>5. db.tables \subseteq Tables
  BY DEF MInv, MigTypes, WellFormed, IsDatabase
<1>6. QED
  BY <1>2, <1>3, <1>4, <1>5

\* cursors,
LEMMA MigrationCursors == ASSUME MInv PROVE CursorsInOrder
<1>1. (\E p \in Procs : Ready(p)) => db.trigger
  BY MigrationDone DEF ConnectedIsMigrated
<1>2. db.trigger => InOrder(db)
  BY DEF MInv, MigTypes, WellFormed
<1>3. QED
  BY <1>1, <1>2 DEF CursorsInOrder, InOrder

\* references,
LEMMA MigrationClean == ASSUME MInv PROVE NothingDangles
<1>1. (\E p \in Procs : Ready(p)) => Delegated(db) = {}
  BY ReadyRan
<1>2. References(db)
  BY DEF MInv, MigTypes, WellFormed
<1>3. QED
  BY <1>1, <1>2 DEF NothingDangles

\* addresses.
LEMMA MigrationMoves == ASSUME MInv PROVE AddressesKept
<1> SUFFICES ASSUME NEW p \in Procs, Ready(p), \A q \in Procs : ~Filling(q), ~cut,
                    NEW w \in Workers \cap DOMAIN db.addr, db.addr[w] # "old"
             PROVE  FALSE
  BY DEF AddressesKept
<1>1. Blank(db)
  BY DEF Blank
<1>2. "worker_ip" \in db.cols["workers"]
  <2>1. HasSchema(db, InitSchema[5])
    BY ReadyRan
  <2>2. InitSchema[5] = Add("workers", "worker_ip")
    BY ByPlace
  <2>3. InitSchema[5].op = "add" /\ InitSchema[5].table = "workers"
        /\ InitSchema[5].col = "worker_ip"
    BY <2>2 DEF Add
  <2>4. QED
    BY <2>1, <2>3 DEF HasSchema
<1>3. PICK q \in Procs : AtFill(pc[q], seen[q]) \/ (tx[q] # NoTx /\ ~Blank(tx[q]))
  BY <1>1, <1>2 DEF MInv, AddressesFit
<1>4. QED
  BY <1>1, <1>3, FillingThem

\* What a step may do to the file, in the words of InteractiveKept.
LEMMA MigrationKeeps ==
    ASSUME Interactively
    PROVE  /\ {s.id : s \in {r \in db.sessions : r.kind # "delegated"}}
                    \subseteq {s.id : s \in db'.sessions}
           /\ db.commands \ Delegated(db) \subseteq db'.commands
           /\ \A i \in DOMAIN db.events : db.events[i].session \notin Delegated(db) =>
                /\ i \in DOMAIN db'.events
                /\ db'.events[i].session = db.events[i].session
                /\ db.events[i].seq # 0 => db'.events[i].seq = db.events[i].seq
           /\ (Delegated(db') = Delegated(db) =>
                Delegated(db) \cap db.commands \subseteq db'.commands)
<1>1. Interactive(db) \subseteq SessionIds(db')
  <2>1. Interactive(db) \subseteq Interactive(db')
    BY DEF Interactively, Follows, Keeps
  <2>2. QED
    BY <2>1, SessionSets
<1>2. {s.id : s \in {r \in db.sessions : r.kind # "delegated"}}
        \subseteq {s.id : s \in db'.sessions}
  BY <1>1 DEF Interactive, SessionIds
<1>3. QED
  BY <1>2 DEF Interactively, Follows, Keeps

\* What connect() promises when it returns holds in every behaviour, for any
\* number of processes and any old files (_init_schema).
THEOREM MigrationConsistent ==
    ASSUME MigrationConstants
    PROVE  Spec => []DatabaseConsistent
<1>1. Init => MInv
  BY MigrationInit
<1>2. MInv /\ [Next]_vars => MInv'
  BY MigrationStep DEF Kept
<1>3. MInv => DatabaseConsistent
  BY MigrationTypes, MigrationDone, MigrationCursors, MigrationClean,
     MigrationMoves
     DEF DatabaseConsistent
<1>4. QED
  BY <1>1, <1>2, <1>3, PTL DEF Spec

\* No step of the migration takes anything from an interactive agent
\* (_delete_legacy_delegated_pi_state).
THEOREM MigrationIsInteractive ==
    ASSUME MigrationConstants
    PROVE  Spec => InteractiveKept
<1>1. Init => MInv
  BY MigrationInit
<1>2. MInv /\ [Next]_vars => MInv'
  BY MigrationStep DEF Kept
<1>3. MInv /\ [Next]_vars => Interactively
  BY MigrationStep DEF Kept
<1>4. QED
  BY <1>1, <1>2, <1>3, MigrationKeeps, PTL DEF Spec, InteractiveKept

-----------------------------------------------------------------------------
(* The four together.                                                      *)

\* The database moves as its specification says.
LEMMA DatabasePart == AllSpec => Spec
<1>1. AllInit => Init
  BY DEF AllInit
<1>2. [AllNext]_allVars => [Next]_vars
  BY DEF AllNext, Moves, allVars, vars
<1>3. QED
  BY <1>1, <1>2, PTL DEF AllSpec, Spec

\* The exports move as their specification says.
LEMMA ExportsPart == AllSpec => Exports!Spec
<1>1. AllInit => Exports!Init
  BY DEF AllInit
<1>2. [AllNext]_allVars => [Exports!Next]_(Exports!vars)
  BY DEF AllNext, Moves, allVars, exportVars, Exports!vars, Exports!source,
     Exports!control
<1>3. QED
  BY <1>1, <1>2, PTL DEF AllSpec, Exports!Spec

\* The registry moves as its specification says.
LEMMA RegistryPart == AllSpec => Registry!Spec
<1>1. AllInit => Registry!Init
  BY DEF AllInit
<1>2. [AllNext]_allVars => [Registry!Next]_(Registry!vars)
  BY DEF AllNext, Moves, allVars, registryVars, Registry!vars
<1>3. QED
  BY <1>1, <1>2, PTL DEF AllSpec, Registry!Spec

\* The manifest moves as its specification says.
LEMMA ManifestPart == AllSpec => Runtime!Spec
<1>1. AllInit => Runtime!Init
  BY DEF AllInit
<1>2. [AllNext]_allVars => [Runtime!Next]_(Runtime!vars)
  BY DEF AllNext, Moves, allVars, manifestVars, Runtime!vars
<1>3. QED
  BY <1>1, <1>2, PTL DEF AllSpec, Runtime!Spec

\* What the machines keep is consistent, for any number of transfers, setups
\* and loads: no publication and no daemon of a source worker is forgotten, and
\* manifests, loads and captured paths are right (wh-data-export, host_runtime).
THEOREM MachinesAreConsistent == AllSpec => []MachinesConsistent
  BY ExportsPart, ManifestPart, ExportsStayConsistent, ManifestIsConsistent, PTL
     DEF MachinesConsistent

\* The pruner never takes the row of a worker that was heard of within the
\* cutoff, and only a rename or a loss of power changes the manifest
\* (prune_workers, write_host_runtime).
THEOREM NothingIsTakenAway == AllSpec => NothingTakenAway
  BY RegistryPart, ManifestPart, OnlySilentArePruned, ManifestChangesByRename,
     PTL
     DEF NothingTakenAway

\* What connect() has promised when it returns, for any number of processes
\* that migrate at once, crash or wait in vain for the lock, and whatever file
\* of an earlier version they find (_init_schema).
THEOREM DatabaseIsConsistent == AllSpec => []DatabaseConsistent
  BY DatabasePart, MigrationConsistent, MigrationAssumption, PTL

\* The migration takes nothing from an interactive agent, and no cursor that an
\* event has is changed (_delete_legacy_delegated_pi_state).
THEOREM InteractiveIsKept == AllSpec => InteractiveKept
  BY DatabasePart, MigrationIsInteractive, MigrationAssumption, PTL
=============================================================================
