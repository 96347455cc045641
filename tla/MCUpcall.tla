------------------------------ MODULE MCUpcall ------------------------------
(* Instances of Upcall for TLC: application threads and, where DaemonThread *)
(* is one of Threads, a thread of daemon d1 that runs a callback.           *)
EXTENDS Upcall, TLC

CONSTANTS d1, DaemonThread

MCTgid == [t \in Threads |-> IF t = DaemonThread THEN d1 ELSE App]

Symmetry == Permutations(Threads \ {DaemonThread}) \cup Permutations(Daemons \ {d1})
=============================================================================
