---------------------------- MODULE MCThreadPool ----------------------------
(* Instances of ThreadPool for TLC.  No symmetry: it is not sound for the   *)
(* liveness property that the run checks.                                   *)
EXTENDS ThreadPool
=============================================================================
