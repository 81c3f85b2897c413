--------------------------- MODULE MCSharedState ---------------------------
(***************************************************************************)
(* A small instance of SharedState: the routes of workers and tunnels with *)
(* their TTLs in ticks, where a registration invalidates nothing and a     *)
(* prune not the tunnels, whose list names their workers; and a report     *)
(* of a job that is sent twice, with one by another session.               *)
(***************************************************************************)
EXTENDS SharedState

CONSTANTS c1,        \* a reader of the cache
          e, f, q    \* two events, a queue operation that rolls back

RouteKeys == {"workers:list", "tunnels:list"}
Routes == {"prune", "register", "create"}
TablesOf == [k \in RouteKeys |-> IF k = "tunnels:list" THEN "tunnels" ELSE "workers"]
RouteTTL == [k \in RouteKeys |-> IF k = "tunnels:list" THEN 2 ELSE 1]
RouteInvalidates ==
    [w \in Routes |-> CASE w = "prune" -> <<"workers:list">>
                         [] w = "create" -> <<"tunnels:list">>
                         [] OTHER -> <<>>]
RouteWrites == [w \in Routes |-> IF w = "create" THEN {"tunnels"}
                                  ELSE {"workers", "tunnels"}]

ThreeReports == {[n |-> 1, job |-> "j", origin |-> "s", rev |-> 1],
                 [n |-> 2, job |-> "j", origin |-> "s", rev |-> 1],
                 [n |-> 3, job |-> "j", origin |-> "t", rev |-> 2]}
=============================================================================
