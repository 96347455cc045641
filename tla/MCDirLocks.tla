----------------------------- MODULE MCDirLocks -----------------------------
EXTENDS DirLocks, TLC

CONSTANTS a, b, c

\* Two directories under the root, one of which has a directory in it.
MCTree == a :> Root @@ b :> Root @@ c :> b

\* Enough for both refusals of a rename: of a into b, and of c onto a.
MCDirect == {<<b, a>>}
=============================================================================
