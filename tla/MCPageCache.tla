---------------------------- MODULE MCPageCache ----------------------------
(* Instances of PageCache for TLC. *)
EXTENDS PageCache, TLC

Symmetry == Permutations(Threads)

\* The locals of a thread that is not reading or writing are set before they are read
\* again: states that differ in nothing else are one.
At(t) == IF pc[t] \in {"closed", "idle", "invalidate"} THEN <<>>
         ELSE <<page[t], cell[t], granted[t]>>
View == <<disk, cache, iMutex, file, pc, [t \in Threads |-> At(t)], history>>
=============================================================================
