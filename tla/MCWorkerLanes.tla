--------------------------- MODULE MCWorkerLanes ---------------------------
(* The instance of WorkerLanes for TLC.                                    *)
EXTENDS WorkerLanes
=============================================================================
