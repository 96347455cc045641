---------------------------- MODULE MCNamespace ----------------------------
EXTENDS Namespace, TLC

CONSTANTS n1, n2, f1, f2

\* Two directories with one entry each, so that two calls can run at once.
MCDirOf == n1 :> 1 @@ n2 :> 2
MCDisk == n1 :> f1 @@ n2 :> None

Symmetry == Permutations(Threads) \cup Permutations(Addrs) \cup Permutations(LDents)
            \cup Permutations(UDents)

\* Once a name has been changed directly, nothing is said of the directories' counts,
\* and nothing else is made of them.
View == <<disk, linode, lref, ld, mnt, ud, ui, th, dircall, history,
          IF touched = {} THEN counts ELSE <<>> >>
=============================================================================
