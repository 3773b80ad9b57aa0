------------------------------ MODULE MCMaster ------------------------------
(* Small instances of Master for TLC. *)
EXTENDS Master, TLC

OneWorker   == <<"worker">>
TwoWorkers  == <<"worker", "worker">>
WorkerLoader == <<"worker", "loader">>
AProcess    == <<"proc_off">>

\* Pids are interchangeable.
Symmetry == Permutations(Pids)
=============================================================================
