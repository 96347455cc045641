------------------------------ MODULE DirLocks ------------------------------
(***************************************************************************)
(* The mutexes of lower directories and the two trees they guard.  Every   *)
(* operation of the mounted file system comes with the locks that the VFS  *)
(* has taken in the upper tree, finds the lower directory on its own, from *)
(* the lower dentry (lock_parent, dget_parent), and locks it there.  The   *)
(* trees are the same as long as nobody moves anything in the lower one    *)
(* directly; teadfs_rename is the operation that must not count on it.     *)
(*                                                                         *)
(*   inode.c    lock_parent, unlock_dir, create, link, unlink, symlink,    *)
(*              mkdir, rmdir, mknod, rename, setattr, the xattr calls      *)
(*   lookup.c   teadfs_lookup, for the directory it locks                  *)
(*                                                                         *)
(* External: the locks of the VFS are taken in one step, since its own     *)
(* order is not in question; lock_rename is modelled step by step for the  *)
(* lower tree, where teadfs calls it.                                      *)
(***************************************************************************)
EXTENDS Integers

CONSTANTS
    Threads,
    Root,      \* the root of the mount, and the lower directory under it
    Nodes,     \* what else there is: directories and, childless, files
    None,
    InitTree,  \* InitTree[x]: the directory of x at mount
    Direct,    \* bound: moves <<x, d>> that other processes may make in the lower tree
    MaxMoves   \* bound: how many such moves are made

Dirs == Nodes \cup {Root}

ASSUME NoneAssumption == None \notin Threads \cup Dirs /\ Root \notin Nodes
ASSUME TreeAssumption == InitTree \in [Nodes -> Dirs]
ASSUME BoundAssumption == Direct \subseteq Nodes \X Dirs /\ MaxMoves \in Nat

VARIABLES
    upper,   \* upper[x]: d_parent of x, None once x is removed
    lower,   \* lower[x]: d_parent of the lower dentry of x
    umutex,  \* umutex[d]: holder of the upper i_mutex
    lmutex,  \* lmutex[d]: holder of the lower i_mutex
    urename, \* holder of s_vfs_rename_mutex, of the upper file system
    lrename, \* ... and of the lower one
    th,      \* th[t]: where t is, in which operation, and its locals
    moves    \* history: number of direct moves

vars == <<upper, lower, umutex, lmutex, urename, lrename, th, moves>>

trees == <<upper, lower>>
umuts == <<umutex, urename>>

Idle == [pc |-> "idle", op |-> None, x |-> None, y |-> None, z |-> None,
         p |-> None, q |-> None]

\* entry: create, link, symlink, mkdir, mknod of a new entry in directory x;
\* unlink, rmdir: of x; self: a call that locks x itself; rename: of x to
\* directory y, where z is the entry replaced, if any.
Ops == {"entry", "unlink", "rmdir", "self", "rename"}
PCs == {"idle", "parent", "lock", "act", "order", "first", "secondp", "secondq", "trap",
        "done", "oops"}

Init ==
    /\ upper = InitTree /\ lower = InitTree
    /\ umutex = [d \in Dirs |-> None] /\ lmutex = [d \in Dirs |-> None]
    /\ urename = None /\ lrename = None
    /\ th = [t \in Threads |-> Idle]
    /\ moves = 0
-----------------------------------------------------------------------------
\* With every node, S holds the directory that the node is in.
UpClosed(tree, S) == \A x \in S \cap Nodes : tree[x] \in S \cup {None}

\* The ancestors of d in a tree, d included: what no such set with d in it is without.
Ancestors(tree, d) ==
    LET above == {S \in SUBSET Dirs : d \in S /\ UpClosed(tree, S)}
    IN  {a \in Dirs : \A S \in above : a \in S}

\* d_ancestor(p, d): the child of p that is d or above it, or None.
d_ancestor(tree, p, d) ==
    LET above == {x \in Ancestors(tree, d) \cap Nodes : tree[x] = p}
    IN  IF above = {} THEN None ELSE CHOOSE x \in above : TRUE

ASSUME RootAssumption == \A x \in Nodes : Root \in Ancestors(InitTree, x)

\* What lock_rename(p, q) returns.
Trap(tree, p, q) ==
    IF p = q THEN None
    ELSE IF d_ancestor(tree, q, p) # None THEN d_ancestor(tree, q, p)
    ELSE d_ancestor(tree, p, q)

Busy(t)    == th[t].pc # "idle"
Goto(t, l) == th' = [th EXCEPT ![t].pc = l]

Free(m, S) == \A d \in S : m[d] = None
Take(m, S, t) == [d \in Dirs |-> IF d \in S THEN t ELSE m[d]]
Drop(m, t) == [d \in Dirs |-> IF m[d] = t THEN None ELSE m[d]]

\* The call of t returns to the VFS, which gives back its own locks.
Return(t) ==
    /\ th' = [th EXCEPT ![t] = Idle]
    /\ umutex' = Drop(umutex, t)
    /\ urename' = IF urename = t THEN None ELSE urename

\* unlock_dir, mutex_unlock, unlock_rename: what t has locked in the lower tree.
Unlock(t) ==
    /\ lmutex' = Drop(lmutex, t)
    /\ lrename' = IF lrename = t THEN None ELSE lrename
-----------------------------------------------------------------------------
\* What the VFS calls, and what it has locked.

Call(t, op, x, y, z, l, locks) ==
    /\ ~Busy(t)
    /\ Free(umutex, locks)
    /\ umutex' = Take(umutex, locks, t)
    /\ th' = [th EXCEPT ![t] = [Idle EXCEPT !.pc = l, !.op = op, !.x = x, !.y = y, !.z = z]]
    /\ UNCHANGED <<trees, lmutex, lrename, moves>>

\* create, link, symlink, mkdir, mknod: the lower parent of an entry that does
\* not exist is the lower directory of d.
NewEntry(t, d) ==
    /\ d # Root => upper[d] # None
    /\ Call(t, "entry", d, None, None, "parent", {d})
    /\ UNCHANGED urename

\* unlink, rmdir: also the entry is locked.
teadfs_unlink(t, x) ==
    /\ upper[x] # None
    /\ Call(t, "unlink", x, None, None, "parent", {x, upper[x]})
    /\ UNCHANGED urename

teadfs_rmdir(t, x) ==
    /\ upper[x] # None
    /\ Call(t, "rmdir", x, None, None, "parent", {x, upper[x]})
    /\ UNCHANGED urename

\* A call that locks the lower inode of x itself.
Self(t, x, locks) ==
    /\ x # Root => upper[x] # None
    /\ Call(t, "self", x, None, None, "lock", locks)
    /\ UNCHANGED urename

\* lookup in x, setattr, removexattr: the VFS has locked x.
teadfs_lookup(t, x)      == Self(t, x, {x})
teadfs_setattr(t, x)     == Self(t, x, {x})
teadfs_removexattr(t, x) == Self(t, x, {x})

\* getxattr, listxattr: it has not.
teadfs_getxattr(t, x)  == Self(t, x, {})
teadfs_listxattr(t, x) == Self(t, x, {})

\* rename: the VFS has made sure that neither is above the other.
teadfs_rename(t, x, y, z) ==
    /\ upper[x] # None
    /\ y # Root => upper[y] # None
    /\ z # None => upper[z] = y /\ z # x
    /\ upper[x] # y => urename = None
    /\ Call(t, "rename", x, y, z, "parent", {upper[x], y} \cup ({z} \ {None}))
    /\ urename' = IF upper[x] = y THEN urename ELSE t
    /\ Trap(upper, upper[x], y) \notin {x, z} \ {None}
-----------------------------------------------------------------------------
\* lock_parent, mutex_lock

\* Mutant: the directory of a new entry that does not exist yet is forgotten.
ParentUnset(t) ==
    LET x == th[t].x
        p == IF th[t].op = "entry" THEN x ELSE lower[x]
        q == IF th[t].z = None THEN None ELSE lower[th[t].z]
    IN
    /\ th[t].pc = "parent"
    /\ th' = [th EXCEPT ![t].p = p, ![t].q = q,
                        ![t].pc = IF th[t].op = "rename" /\ p # q THEN "order" ELSE "lock"]
    /\ UNCHANGED <<trees, umuts, lmutex, lrename, moves>>

\* Mutant: the directory is locked for either name, even if it is the same.
ParentTwice(t) ==
    LET x == th[t].x
        p == IF th[t].op = "entry" THEN x ELSE lower[x]
        q == IF th[t].z = None THEN th[t].y ELSE lower[th[t].z]
    IN
    /\ th[t].pc = "parent"
    /\ th' = [th EXCEPT ![t].p = p, ![t].q = q,
                        ![t].pc = IF th[t].op = "rename" THEN "order" ELSE "lock"]
    /\ UNCHANGED <<trees, umuts, lmutex, lrename, moves>>

\* dget_parent of the lower dentries.
dget_parent(t) ==
    LET x == th[t].x
        p == IF th[t].op = "entry" THEN x ELSE lower[x]
        q == IF th[t].z = None THEN th[t].y ELSE lower[th[t].z]
    IN
    /\ th[t].pc = "parent"
    /\ th' = [th EXCEPT ![t].p = p, ![t].q = q,
                        ![t].pc = IF th[t].op = "rename" /\ p # q THEN "order" ELSE "lock"]
    /\ UNCHANGED <<trees, umuts, lmutex, lrename, moves>>

\* Mutant: lock_parent locks the entry.
LockEntry(t) ==
    /\ th[t].pc = "lock"
    /\ lmutex[th[t].x] = None
    /\ lmutex' = [lmutex EXCEPT ![th[t].x] = t]
    /\ Goto(t, "act")
    /\ UNCHANGED <<trees, umuts, lrename, moves>>

\* mutex_lock of the parent, or of the lower inode of x itself.
LockOne(t) ==
    LET d == IF th[t].op = "self" THEN th[t].x ELSE th[t].p IN
    /\ th[t].pc = "lock"
    /\ lmutex[d] = None
    /\ lmutex' = [lmutex EXCEPT ![d] = t]
    /\ Goto(t, "act")
    /\ UNCHANGED <<trees, umuts, lrename, moves>>

\* lock_rename of two directories: the rename mutex, then the one above first.
LockOrder(t) ==
    /\ th[t].pc = "order"
    /\ lrename = None
    /\ lrename' = t
    /\ Goto(t, "first")
    /\ UNCHANGED <<trees, umuts, lmutex, moves>>

LockFirst(t) ==
    LET below == d_ancestor(lower, th[t].q, th[t].p) # None
        first == IF below THEN th[t].q ELSE th[t].p
    IN
    /\ th[t].pc = "first"
    /\ lmutex[first] = None
    /\ lmutex' = [lmutex EXCEPT ![first] = t]
    /\ Goto(t, IF below THEN "secondp" ELSE "secondq")
    /\ UNCHANGED <<trees, umuts, lrename, moves>>

LockSecond(t) ==
    LET second == IF th[t].pc = "secondp" THEN th[t].p ELSE th[t].q IN
    /\ th[t].pc \in {"secondp", "secondq"}
    /\ lmutex[second] = None
    /\ lmutex' = [lmutex EXCEPT ![second] = t]
    /\ Goto(t, "trap")
    /\ UNCHANGED <<trees, umuts, lrename, moves>>

\* Mutant: the VFS has checked already.
CheckNothing(t) ==
    /\ th[t].pc = "trap"
    /\ Goto(t, "act")
    /\ UNCHANGED <<umuts, trees, lmutex, lrename, moves>>

\* The two refusals leave before is_rename_lock is set: nothing is unlocked.
CheckTrap(t) ==
    /\ th[t].pc = "trap"
    /\ IF Trap(lower, th[t].p, th[t].q) \in {th[t].x, th[t].z} \ {None}
       THEN Return(t)
       ELSE Goto(t, "act") /\ UNCHANGED umuts
    /\ UNCHANGED <<trees, lmutex, lrename, moves>>
-----------------------------------------------------------------------------
\* The lower operation, and the end of the call.

\* The directory that the lower operation is given, and the one that x is in.
GivenDir(t) == IF th[t].op = "unlink" THEN upper[th[t].x] ELSE th[t].p
IsIn(t) ==
    /\ th[t].op \in {"unlink", "rmdir", "rename"} => lower[th[t].x] = GivenDir(t)
    /\ th[t].z # None => lower[th[t].z] = th[t].q

\* vfs_unlink, vfs_rmdir and vfs_rename lock what they remove or replace.
VictimFree(t) ==
    /\ th[t].op \in {"unlink", "rmdir"} => lmutex[th[t].x] = None
    /\ th[t].z # None => lmutex[th[t].z] = None

\* Mutant: a call that fails leaves the directory locked.
ActElseLocked(t) ==
    /\ th[t].pc = "act"
    /\ IsIn(t)
    /\ VictimFree(t)
    /\ Return(t)
    /\ UNCHANGED <<trees, lmutex, lrename, moves>>

\* vfs_create and the like, notify_change, i_op->getxattr: nothing moves.  Any
\* lower operation may also fail.
ActElse(t) ==
    /\ th[t].pc = "act"
    /\ IsIn(t)
    /\ VictimFree(t)
    /\ Unlock(t)
    /\ Return(t)
    /\ UNCHANGED <<trees, moves>>

\* vfs_unlink, vfs_rmdir of what has nothing under it.
ActRemove(t) ==
    /\ th[t].pc = "act"
    /\ th[t].op \in {"unlink", "rmdir"}
    /\ IsIn(t)
    /\ VictimFree(t)
    /\ \A c \in Nodes : lower[c] # th[t].x
    /\ lower' = [lower EXCEPT ![th[t].x] = None]
    /\ Unlock(t)
    /\ Goto(t, "done")
    /\ UNCHANGED <<upper, umuts, moves>>

\* x is in d now, and z is gone.
Moved(tree, x, d, z) ==
    [n \in Nodes |-> IF n = x THEN d ELSE IF n = z THEN None ELSE tree[n]]

\* vfs_rename: x takes the place of z, which must be empty.
ActRename(t) ==
    /\ th[t].pc = "act"
    /\ th[t].op = "rename"
    /\ IsIn(t)
    /\ VictimFree(t)
    /\ th[t].z # None => \A c \in Nodes : lower[c] # th[t].z
    /\ lower' = Moved(lower, th[t].x, th[t].q, th[t].z)
    /\ Unlock(t)
    /\ Goto(t, "done")
    /\ UNCHANGED <<upper, umuts, moves>>

\* Mutant: the name is not dropped.
DoneKept(t) ==
    /\ th[t].pc = "done"
    /\ Return(t)
    /\ UNCHANGED <<trees, lmutex, lrename, moves>>

\* The call has returned 0: the VFS changes the upper tree (d_drop, d_move) and
\* unlocks it.
Done(t) ==
    /\ th[t].pc = "done"
    /\ upper' = Moved(upper, th[t].x, th[t].y, th[t].z)
    /\ Return(t)
    /\ UNCHANGED <<lower, lmutex, lrename, moves>>

\* may_delete: BUG_ON(victim->d_parent->d_inode != dir).
ActBug(t) ==
    /\ th[t].pc = "act"
    /\ ~IsIn(t)
    /\ Goto(t, "oops")
    /\ UNCHANGED <<trees, umuts, lmutex, lrename, moves>>
-----------------------------------------------------------------------------
\* Another process moves x to d in the lower tree, correctly.
MoveDirectly(x, d) ==
    /\ moves < MaxMoves
    /\ lower[x] # None /\ lower[x] # d
    /\ d # Root => lower[d] # None
    /\ x \notin Ancestors(lower, d)
    /\ lrename = None /\ lmutex[lower[x]] = None /\ lmutex[d] = None
    /\ lower' = [lower EXCEPT ![x] = d]
    /\ moves' = moves + 1
    /\ UNCHANGED <<upper, umuts, lmutex, lrename, th>>

Enter(t) ==
    \/ \E d \in Dirs : \/ NewEntry(t, d)
                       \/ teadfs_lookup(t, d) \/ teadfs_setattr(t, d) \/ teadfs_removexattr(t, d)
                       \/ teadfs_getxattr(t, d) \/ teadfs_listxattr(t, d)
    \/ \E x \in Nodes : teadfs_unlink(t, x) \/ teadfs_rmdir(t, x)
    \/ \E x \in Nodes, y \in Dirs, z \in Nodes \cup {None} : teadfs_rename(t, x, y, z)

Step(t) ==
    \/ dget_parent(t) \/ LockOne(t) \/ LockOrder(t) \/ LockFirst(t) \/ LockSecond(t)
    \/ CheckTrap(t) \/ ActElse(t) \/ ActRemove(t) \/ ActRename(t) \/ ActBug(t)
    \/ Done(t)

Next ==
    \/ \E t \in Threads : Enter(t) \/ Step(t)
    \/ \E m \in Direct : MoveDirectly(m[1], m[2])

Spec == Init /\ [][Next]_vars

\* A call that has begun goes on, and a mutex is granted to who waits for it.
FairSpec == Spec /\ \A t \in Threads : SF_vars(Step(t))
-----------------------------------------------------------------------------
TypeOK ==
    /\ upper \in [Nodes -> Dirs \cup {None}] /\ lower \in [Nodes -> Dirs \cup {None}]
    /\ umutex \in [Dirs -> Threads \cup {None}] /\ lmutex \in [Dirs -> Threads \cup {None}]
    /\ urename \in Threads \cup {None} /\ lrename \in Threads \cup {None}
    /\ th \in [Threads -> [pc : PCs, op : Ops \cup {None}, x : Dirs \cup {None},
                           y : Dirs \cup {None}, z : Nodes \cup {None},
                           p : Dirs \cup {None}, q : Dirs \cup {None}]]
    /\ moves \in 0 .. MaxMoves
    /\ \A t \in Threads :
          th[t].pc \in {"order", "first", "secondp", "secondq", "trap"} => None \notin {th[t].p, th[t].q}

Holds(t) == lrename = t \/ \E d \in Dirs : lmutex[d] = t

\* No call returns with a lower lock held, as long as the lower tree is only
\* changed through the mount: the refusals of teadfs_rename (inode.c:645, :650), which
\* unlock nothing, cannot come then, because the VFS has asked the same of a
\* tree that is the same.
LocksReleased ==
    moves = 0 => \A t \in Threads : ~Busy(t) => ~Holds(t)

\* Until somebody moves something in the lower tree, an entry is in the same place in
\* both trees except between the lower rename or removal (inode.c:356, :570, :655) and the
\* upper one, which its call has yet to make: calls that overlap never see each other
\* half done, although the lower directories are unlocked first.
InStep ==
    moves = 0 => \A x \in Nodes :
        upper[x] # lower[x] => \E t \in Threads : th[t].pc = "done" /\ x \in {th[t].x, th[t].z}

\* The lower tree stays a tree, even after direct moves: teadfs_rename looks at the
\* lower tree again with the locks held (inode.c:643-653) and never puts a directory
\* under itself.
LowerIsTree ==
    \A x \in Nodes : lower[x] # None => Root \in Ancestors(lower, x)

\* The directory that a lower operation is given is locked, and the entry is in it
\* (inode.c:356 passes the lower inode of dir, :355 locks the parent of the lower
\* dentry), so that may_delete does not stop the kernel.
DirOfEntry ==
    moves = 0 => \A t \in Threads : th[t].pc = "act" =>
        IsIn(t) /\ (th[t].op # "self" => lmutex[GivenDir(t)] = t)

\* Every call returns while the lower tree is changed only through the mount: nobody
\* waits in a circle for lower directories, whatever order renames, removals and
\* lookups take them in.
CallsReturn ==
    \A t \in Threads : Busy(t) ~> (~Busy(t) \/ moves > 0)
=============================================================================
