---------------------------- MODULE MCThreadPool ----------------------------
(* ThreadPool with small sets of threads and tasks.  Liveness is checked   *)
(* with the safety properties, so no symmetry is declared.                 *)
EXTENDS ThreadPool
=============================================================================
