--------------------------- MODULE GpuReservation ---------------------------
(***************************************************************************)
(* What the GPU queue promises, without saying how: a job reserves GPUs of *)
(* one worker in a single step, only GPUs nobody else has reserved there,  *)
(* keeps exactly that reservation, and gives it back in a single step.     *)
(* JobQueue implements this specification under the mapping that reads a   *)
(* reservation off every queue-managed row in state starting or running.   *)
(***************************************************************************)
CONSTANTS Workers,  \* the workers
          JobIds,   \* the jobs
          Gpus      \* the GPU indices

VARIABLE held       \* the reservations: a set of records (worker, gpu, job)

Reservations == [worker : Workers, gpu : Gpus, job : JobIds]

Init == held = {}

\* Job j takes the GPUs G of worker w, all of them free, and had none before.
Acquire(w, j, G) ==
    /\ \A h \in held : h.job # j
    /\ \A h \in held : h.worker = w => h.gpu \notin G
    /\ held' = held \cup [worker : {w}, gpu : G, job : {j}]

\* Job j gives back everything it holds.
Release(j) == held' = {h \in held : h.job # j}

Next ==
    \E j \in JobIds :
        \/ Release(j)
        \/ \E w \in Workers, G \in SUBSET Gpus : Acquire(w, j, G)

Spec == Init /\ [][Next]_held
=============================================================================
