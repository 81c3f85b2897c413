----------------------------- MODULE MCJobQueue -----------------------------
(* Instances of JobQueue for TLC.                                          *)
EXTENDS JobQueue, TLC

CONSTANTS w1, w2

\* GPUs per worker: one worker with two or with one, two workers with two.
TwoGpus == (w1 :> 2)
OneGpu == (w1 :> 1)
TwoEach == (w1 :> 2) @@ (w2 :> 2)

\* Telemetry: all GPUs look idle; only the first one does.
BothIdle == {{0, 1}}
FirstIdle == {{0}}
=============================================================================
