---------------------------- MODULE MCLowerFile ----------------------------
(* Instances of LowerFile for TLC: programs, and workers of daemon d1 and,  *)
(* where there is a second daemon, one of another.                         *)
EXTENDS LowerFile

CONSTANTS d1, d2, OtherWorker

MCOf == [w \in Workers |-> IF w = OtherWorker THEN d2 ELSE d1]
=============================================================================
