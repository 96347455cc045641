----------------------------- MODULE Namespace -----------------------------
(***************************************************************************)
(* Names of the mounted file system and what stands behind them: an upper  *)
(* dentry keeps a lower dentry and a lower mount, an upper inode keeps a   *)
(* lower inode, and no operation takes references of its own to get there. *)
(*                                                                         *)
(*   lookup.c   teadfs_lookup, teadfs_lookup_interpose, teadfs_interpose,  *)
(*              __teadfs_get_inode                                         *)
(*   inode.c    create, mknod, mkdir, symlink, link, unlink, rmdir, and    *)
(*              the attribute copy of getattr, setattr and setxattr        *)
(*   dentry.c, super.c   d_revalidate, d_release, evict_inode              *)
(*                                                                         *)
(* Upper inodes are hashed by the address of the lower inode, so they are  *)
(* indexed by it here.  The VFS's part is external: the caller holds the   *)
(* mutex of the upper directory and references to the dentries it passes,  *)
(* and the mutex of the inode that unlink, rmdir, link, setattr and        *)
(* setxattr are about.                                                     *)
(* Another process may change the lower directory directly, once per name. *)
(***************************************************************************)
EXTENDS Integers, FiniteSets

CONSTANTS
    Threads,
    Names,     \* entries of directories
    DirOf,     \* DirOf[n]: the directory of entry n
    Files,     \* files of the lower file system
    DirFiles,  \* those that are directories; as entries here they are empty
    Addrs,     \* addresses of lower inodes in memory
    LDents,    \* lower dentries
    UDents,    \* upper dentries
    None,
    InitDisk,  \* the lower directories at mount
    Direct,    \* names that another process may change in the lower directory
    Copied,    \* bound: directories whose attributes are copied without a lock
    MaxLost    \* bound: lookups that fail after they have set the lower path

ASSUME FiniteAssumption ==
    IsFiniteSet(Threads) /\ IsFiniteSet(Names) /\ IsFiniteSet(UDents)
ASSUME NoneAssumption ==
    None \notin Threads \cup Names \cup Files \cup Addrs \cup LDents \cup UDents
ASSUME DiskAssumption == InitDisk \in [Names -> Files \cup {None}]
ASSUME DirFilesAssumption ==
    /\ DirFiles \subseteq Files
    /\ \A m, n \in Names : InitDisk[m] = InitDisk[n] /\ InitDisk[m] \in DirFiles => m = n
ASSUME DirectAssumption == Direct \subseteq Names /\ MaxLost \in Nat

VARIABLES
    disk,    \* disk[n]: the lower file that entry n names
    linode,  \* linode[a]: the lower file whose inode is at address a
    lref,    \* lref[a]: references to that inode taken with igrab
    ld,      \* lower dentries
    mnt,     \* references to the lower mount taken with mntget
    ud,      \* upper dentries; info is the lower dentry of d_fsdata
    ui,      \* ui[a]: the upper inode hashed under the lower inode at a
    th,      \* th[t]: where t is, in which operation, and its locals
    dircall, \* the threads whose operation is mkdir or rmdir
    dnlink,  \* dnlink[d]: i_nlink of the upper inode of directory d, less 2
    dseen,   \* dseen[d]: what an attribute copy of d has read and not yet written
    lost,    \* history: lost[l] references to l that failed lookups forgot
    forgot,  \* history: references to the mount that they forgot
    orphan,  \* history: dentries whose create could not be undone
    touched, \* history: names changed directly
    behind   \* history: directories whose count a failed mkdir has left behind

vars == <<disk, linode, lref, ld, mnt, ud, ui, th, dircall, dnlink, dseen, lost, forgot,
          orphan, touched, behind>>

lower   == <<disk, linode>>
history == <<lost, forgot, orphan, touched>>
counts  == <<dnlink, dseen, behind>>
dirs    == <<dircall, counts>>

\* A link count that was out of date when it was written.
Stale == -1

NoLDent == [st |-> "free", name |-> None, ino |-> None, count |-> 0]
NoUDent == [st |-> "free", name |-> None, ino |-> None, info |-> None]
NoInode == [st |-> "absent", file |-> None, nlink |-> 0]
Idle    == [pc |-> "idle", op |-> "none", ud |-> None, old |-> None, ld |-> None,
            ino |-> None, nlink |-> 0]

\* mknod and mkdir are the same but for the link count of the directory, and so are
\* unlink and rmdir.
Makers == {"create", "node", "symlink"}
Ops    == Makers \cup {"lookup", "link", "remove", "getattr"}
PCs    == {"idle", "interpose", "oops", "lower", "iget", "unlinked", "copy"}

Dirs == {DirOf[n] : n \in Names}

\* What a directory adds to the link count of the one it is in, here in the lower one.
Subdirs(d) == Cardinality({n \in Names : DirOf[n] = d /\ disk[n] \in DirFiles})

Init ==
    /\ disk = InitDisk
    /\ linode = [a \in Addrs |-> None]
    /\ lref = [a \in Addrs |-> 0]
    /\ ld = [l \in LDents |-> NoLDent]
    /\ mnt = 0
    /\ ud = [u \in UDents |-> NoUDent]
    /\ ui = [a \in Addrs |-> NoInode]
    /\ th = [t \in Threads |-> Idle]
    /\ dircall = {}
    /\ dnlink = [d \in Dirs |-> Subdirs(d)]
    /\ dseen = [d \in Dirs |-> None]
    /\ lost = [l \in LDents |-> 0] /\ forgot = 0
    /\ orphan = {} /\ touched = {} /\ behind = {}
-----------------------------------------------------------------------------
Nlink(f) == Cardinality({n \in Names : disk[n] = f})

\* Where the inode of f is, or may be put, in memory.
PlacesOf(f) ==
    IF \E a \in Addrs : linode[a] = f
    THEN {a \in Addrs : linode[a] = f}
    ELSE {a \in Addrs : linode[a] = None}

\* Files that are neither on disk nor remembered anywhere.
NewFiles ==
    {f \in Files : /\ \A n \in Names : disk[n] # f
                   /\ \A a \in Addrs : linode[a] # f /\ ui[a].file # f}

Busy(t)    == th[t].pc # "idle"
NameOf(t)  == ud[th[t].ud].name

\* The VFS: directory operations have the mutex of the upper directory ...
DirLocked(d) ==
    \E t \in Threads : Busy(t) /\ th[t].op # "getattr" /\ DirOf[NameOf(t)] = d

\* ... and link, unlink, rmdir, setattr and setxattr that of the inode they are about.
InodeLocked(a) ==
    \E t \in Threads : /\ Busy(t)
                       /\ th[t].op \in {"link", "remove"}
                       /\ th[t].ino = a

\* lock_parent: the lower directory is locked until unlock_dir.
LowerDirLocked(d) ==
    \E t \in Threads : /\ th[t].pc \in {"iget", "unlinked"}
                       /\ th[t].op # "lookup"
                       /\ DirOf[NameOf(t)] = d

\* Dentries and upper inodes that a running call has a reference to.
PinnedDent(u)  == \E t \in Threads : Busy(t) /\ u \in {th[t].ud, th[t].old}
PinnedInode(a) ==
    \/ \E u \in UDents : ud[u].ino = a
    \/ \E t \in Threads : th[t].pc = "copy" /\ th[t].ino = a
    \/ InodeLocked(a)

Hashed(n) == {u \in UDents : ud[u].st = "hashed" /\ ud[u].name = n}

Goto(t, l) == th' = [th EXCEPT ![t].pc = l] /\ UNCHANGED dircall
Return(t)  == th' = [th EXCEPT ![t] = Idle] /\ dircall' = dircall \ {t}

\* set_nlink of the directory t works in, if t is a mkdir or an rmdir.
CountDir(t) ==
    LET d == DirOf[NameOf(t)] IN
    /\ dnlink' = IF t \in dircall THEN [dnlink EXCEPT ![d] = Subdirs(d)] ELSE dnlink
    /\ behind' = IF t \in dircall THEN behind \ {d} ELSE behind
    /\ UNCHANGED dseen

\* d_drop
Dropped(u) == [ud EXCEPT ![u].st = "unhashed"]

\* dput.  That the lower file system may keep an unused dentry makes no difference:
\* what counts is whether it keeps the inode, and it may do that anyway.
Dput(d, l) ==
    [d EXCEPT ![l] = IF d[l].count = 1 THEN NoLDent
                     ELSE [d[l] EXCEPT !.count = d[l].count - 1]]

\* d_delete: a dentry with no other reference turns negative, any other is unhashed.
Ddelete(l) ==
    [ld EXCEPT ![l] = IF @.count = 1 THEN [@ EXCEPT !.ino = None]
                      ELSE [@ EXCEPT !.st = "unhashed"]]

\* igrab of the lower inode at a, which cannot fail: a lower dentry has it in use.
igrab(a) == [lref EXCEPT ![a] = @ + 1]

\* The operations that take a reference of their own with dget(lower_dentry).
Dgets == {"symlink", "link", "remove"}

teadfs_get_lower_path(u) == ud[u].info

\* The references of op to the lower dentries of u and, for link, of old ...
Dget(d, l) == [d EXCEPT ![l].count = @ + 1]
Take(op, u, old) ==
    IF op = "link"
    THEN Dget(Dget(ld, teadfs_get_lower_path(old)), teadfs_get_lower_path(u))
    ELSE IF op \in Dgets THEN Dget(ld, teadfs_get_lower_path(u)) ELSE ld

\* ... and the dputs at its end.
Untake(d, t) ==
    IF th[t].op = "link" THEN Dput(Dput(d, th[t].ld), teadfs_get_lower_path(th[t].old))
    ELSE IF th[t].op \in Dgets THEN Dput(d, th[t].ld) ELSE d
-----------------------------------------------------------------------------
\* Lookup

\* A lookup for u between lookup_one_len and the allocation of the dentry_info.
Looking(u, l, a) ==
    [Idle EXCEPT !.pc = "interpose", !.op = "lookup", !.ud = u, !.ld = l, !.ino = a]

\* Mutant: the inode is read before the lower file system has filled the dentry.
LookupReadsEarly(t, u, n) ==
    \E l \in LDents :
       /\ ld[l].st = "free"
       /\ \E a \in IF disk[n] = None THEN {None} ELSE PlacesOf(disk[n]) :
             /\ ld' = [ld EXCEPT ![l] = [st |-> "hashed", name |-> n, ino |-> a, count |-> 1]]
             /\ th' = [th EXCEPT ![t] = Looking(u, l, None)]
             /\ linode' = IF a = None THEN linode ELSE [linode EXCEPT ![a] = disk[n]]

\* lookup_one_len: the cached lower dentry of the name or a new one, with a
\* reference for the caller, or an error.  teadfs_lookup_interpose reads the
\* lower inode first of all.
lookup_one_len(t, u, n) ==
    \/ \E l \in LDents :
          /\ ld[l].st = "hashed" /\ ld[l].name = n
          /\ ld' = Dget(ld, l)
          /\ th' = [th EXCEPT ![t] = Looking(u, l, ld[l].ino)]
          /\ UNCHANGED linode
    \/ \E l \in LDents :
          /\ \A k \in LDents : ~(ld[k].st = "hashed" /\ ld[k].name = n)
          /\ ld[l].st = "free"
          /\ \E a \in IF disk[n] = None THEN {None} ELSE PlacesOf(disk[n]) :
                /\ ld' = [ld EXCEPT ![l] = [st |-> "hashed", name |-> n, ino |-> a, count |-> 1]]
                /\ th' = [th EXCEPT ![t] = Looking(u, l, a)]
                /\ linode' = IF a = None THEN linode ELSE [linode EXCEPT ![a] = disk[n]]
    \/ UNCHANGED <<linode, ld, th>>

\* No dentry for n is cached: the VFS makes one and calls teadfs_lookup.
teadfs_lookup(t, u, n) ==
    /\ ~Busy(t)
    /\ ~DirLocked(DirOf[n])
    /\ Hashed(n) = {}
    /\ ud[u].st = "free"
    /\ ud' = [ud EXCEPT ![u] = [NoUDent EXCEPT !.st = "unhashed", !.name = n]]
    /\ lookup_one_len(t, u, n)
    /\ UNCHANGED <<disk, lref, mnt, ui, history, dirs>>

\* The dentry_info cannot be allocated ...
InterposeNoMemory(t) ==
    /\ th[t].pc = "interpose"
    /\ ld' = Dput(ld, th[t].ld)
    /\ Return(t)
    /\ UNCHANGED <<lower, lref, mnt, ud, ui, history, counts>>

\* ... or it can, takes over the reference to the lower dentry, and a name that
\* does not exist is added at once.  If the lower dentry has got an inode since
\* lower_inode was read, __teadfs_get_inode dereferences NULL.
teadfs_lookup_interpose(t) ==
    /\ th[t].pc = "interpose"
    /\ mnt' = mnt + 1
    /\ IF ld[th[t].ld].ino = None
       THEN /\ ud' = [ud EXCEPT ![th[t].ud].info = th[t].ld, ![th[t].ud].st = "hashed"]
            /\ Return(t)
            /\ UNCHANGED lref
       ELSE /\ ud' = [ud EXCEPT ![th[t].ud].info = th[t].ld]
            /\ IF th[t].ino = None
               THEN Goto(t, "oops") /\ UNCHANGED lref
               ELSE Goto(t, "iget") /\ lref' = igrab(th[t].ino)
    /\ UNCHANGED <<lower, ld, ui, history, counts>>
-----------------------------------------------------------------------------
\* __teadfs_get_inode

\* A call that has its inode: unlock_new_inode, d_add or d_instantiate, for link and
\* mkdir set_nlink, and what was locked or taken is given back.  Nobody can do more than
\* wait for an inode that is new, so that the call ends in one step with iget5_locked.
Attach(t, inode) ==
    LET a == th[t].ino IN
    /\ ui' = [ui EXCEPT ![a] = IF th[t].op = "link"
                               THEN [inode EXCEPT !.nlink = Nlink(linode[a])] ELSE inode]
    /\ ud' = [ud EXCEPT ![th[t].ud].st = "hashed", ![th[t].ud].ino = a]
    /\ ld' = Untake(ld, t)
    /\ CountDir(t)
    /\ Return(t)

\* Mutant: the reference of the igrab is kept.
GetInodeKeeps(t) ==
    /\ th[t].pc = "iget"
    /\ ui[th[t].ino].st = "live"
    /\ Attach(t, ui[th[t].ino])
    /\ UNCHANGED <<lower, lref, mnt, history>>

\* iget5_locked finds the upper inode; one that is being freed is waited for.
GetInodeFound(t) ==
    /\ th[t].pc = "iget"
    /\ ui[th[t].ino].st = "live"
    /\ lref' = [lref EXCEPT ![th[t].ino] = @ - 1]
    /\ Attach(t, ui[th[t].ino])
    /\ UNCHANGED <<lower, mnt, history>>

\* teadfs_alloc_inode, teadfs_inode_set
NewInode(a) == [st |-> "live", file |-> linode[a], nlink |-> Nlink(linode[a])]

\* Mutant: the reference is put for a new inode, too.
GetInodePuts(t) ==
    /\ th[t].pc = "iget"
    /\ ui[th[t].ino].st = "absent"
    /\ lref' = [lref EXCEPT ![th[t].ino] = @ - 1]
    /\ Attach(t, NewInode(th[t].ino))
    /\ UNCHANGED <<lower, mnt, history>>

\* ... or makes it, which keeps the reference ...
GetInodeNew(t) ==
    /\ th[t].pc = "iget"
    /\ ui[th[t].ino].st = "absent"
    /\ Attach(t, NewInode(th[t].ino))
    /\ UNCHANGED <<lower, lref, mnt, history>>

\* Mutant: the dentry stays hashed and negative.
GetInodeFailsHashed(t) ==
    /\ th[t].pc = "iget"
    /\ ui[th[t].ino].st = "absent"
    /\ th[t].op \in {"node", "symlink"}
    /\ lref' = [lref EXCEPT ![th[t].ino] = @ - 1]
    /\ ld' = Untake(ld, t)
    /\ Return(t)
    /\ UNCHANGED <<lower, mnt, ud, ui, history, counts>>

\* What teadfs_create does without an inode: it removes the file it has made, if it can.
CreateUndo(t) ==
    /\ \/ /\ disk[NameOf(t)] \notin DirFiles
          /\ disk' = [disk EXCEPT ![NameOf(t)] = None]
          /\ ld' = Ddelete(th[t].ld)
          /\ UNCHANGED orphan
       \/ /\ orphan' = orphan \cup {th[t].ud}
          /\ UNCHANGED <<disk, ld>>
    /\ UNCHANGED <<ud, lost, forgot>>

\* ... or has no memory for it.  What follows depends on the caller: lookup frees
\* the dentry_info but keeps what it referred to, create removes the lower file and
\* returns 0, mknod, mkdir and symlink leave it and drop the dentry, and mkdir does not
\* come to the set_nlink of the directory.  link never gets here.
GetInodeFails(t) ==
    /\ th[t].pc = "iget"
    /\ ui[th[t].ino].st = "absent"
    /\ lref' = [lref EXCEPT ![th[t].ino] = @ - 1]
    /\ \/ /\ th[t].op = "lookup"
          /\ forgot < MaxLost
          /\ lost' = [lost EXCEPT ![th[t].ld] = @ + 1]
          /\ forgot' = forgot + 1
          /\ ud' = [ud EXCEPT ![th[t].ud].info = None]
          /\ UNCHANGED <<disk, ld, orphan, behind>>
       \/ th[t].op = "create" /\ CreateUndo(t) /\ UNCHANGED behind
       \/ /\ th[t].op \in {"node", "symlink"}
          /\ ld' = Untake(ld, t)
          /\ ud' = Dropped(th[t].ud)
          /\ behind' = IF t \in dircall THEN behind \cup {DirOf[NameOf(t)]} ELSE behind
          /\ UNCHANGED <<disk, orphan, lost, forgot>>
    /\ Return(t)
    /\ UNCHANGED <<linode, mnt, ui, touched, dnlink, dseen>>
-----------------------------------------------------------------------------
\* Directory operations.  The path of a dentry is copied without a reference.

Begin(t, op, u, old, a) ==
    /\ ~Busy(t)
    /\ ud[u].st = "hashed"
    /\ ~DirLocked(DirOf[ud[u].name])
    /\ th' = [th EXCEPT ![t] = [Idle EXCEPT !.pc = "lower", !.op = op, !.ud = u, !.old = old,
                                            !.ld = teadfs_get_lower_path(u), !.ino = a]]
    /\ ld' = Take(op, u, old)
    /\ UNCHANGED <<lower, lref, mnt, ud, ui, history, counts>>

BeginFile(t, op, u, old, a) == Begin(t, op, u, old, a) /\ UNCHANGED dircall
BeginDir(t, op, u, a) == Begin(t, op, u, None, a) /\ dircall' = dircall \cup {t}

teadfs_create(t, u)  == ud[u].ino = None /\ BeginFile(t, "create", u, None, None)
teadfs_mknod(t, u)   == ud[u].ino = None /\ BeginFile(t, "node", u, None, None)
teadfs_symlink(t, u) == ud[u].ino = None /\ BeginFile(t, "symlink", u, None, None)
teadfs_mkdir(t, u)   == ud[u].ino = None /\ BeginDir(t, "node", u, None)

\* The VFS lets a program link and unlink what is no directory, and rmdir what is.
teadfs_link(t, u, old) ==
    /\ ud[u].ino = None
    /\ ud[old].ino # None /\ ~InodeLocked(ud[old].ino)
    /\ ui[ud[old].ino].file \notin DirFiles
    /\ BeginFile(t, "link", u, old, ud[old].ino)

teadfs_unlink(t, u) ==
    /\ ud[u].ino # None /\ ~InodeLocked(ud[u].ino)
    /\ ui[ud[u].ino].file \notin DirFiles
    /\ BeginFile(t, "remove", u, None, ud[u].ino)

teadfs_rmdir(t, u) ==
    /\ ud[u].ino # None /\ ~InodeLocked(ud[u].ino)
    /\ ui[ud[u].ino].file \in DirFiles
    /\ BeginDir(t, "remove", u, ud[u].ino)

\* vfs_create, vfs_mknod, vfs_mkdir or vfs_symlink in the locked lower directory,
\* and the start of __teadfs_get_inode.
MakeLower(t) ==
    /\ th[t].pc = "lower"
    /\ th[t].op \in Makers
    /\ ld[th[t].ld].ino = None /\ disk[NameOf(t)] = None
    /\ \E f \in NewFiles, a \in {b \in Addrs : linode[b] = None} :
          /\ f \in DirFiles <=> t \in dircall
          /\ disk' = [disk EXCEPT ![NameOf(t)] = f]
          /\ linode' = [linode EXCEPT ![a] = f]
          /\ ld' = [ld EXCEPT ![th[t].ld].ino = a]
          /\ lref' = igrab(a)
          /\ th' = [th EXCEPT ![t].pc = "iget", ![t].ino = a]
    /\ UNCHANGED <<mnt, ud, ui, history, dirs>>

\* vfs_link to a file that still has a name and is no directory.
LinkLower(t) ==
    /\ th[t].pc = "lower"
    /\ th[t].op = "link"
    /\ ld[th[t].ld].ino = None /\ disk[NameOf(t)] = None
    /\ LET a == ld[teadfs_get_lower_path(th[t].old)].ino IN
          /\ Nlink(linode[a]) > 0 /\ linode[a] \notin DirFiles
          /\ disk' = [disk EXCEPT ![NameOf(t)] = linode[a]]
          /\ ld' = [ld EXCEPT ![th[t].ld].ino = a]
          /\ lref' = igrab(a)
          /\ th' = [th EXCEPT ![t].pc = "iget", ![t].ino = a]
    /\ UNCHANGED <<linode, mnt, ud, ui, history, dirs>>

\* vfs_unlink or vfs_rmdir; the lower dentry must still be what the name is, and a
\* directory or not.
RemoveLower(t) ==
    /\ th[t].pc = "lower"
    /\ th[t].op = "remove"
    /\ disk[NameOf(t)] # None
    /\ disk[NameOf(t)] = linode[ld[th[t].ld].ino]
    /\ disk[NameOf(t)] \in DirFiles <=> t \in dircall
    /\ disk' = [disk EXCEPT ![NameOf(t)] = None]
    /\ ld' = Ddelete(th[t].ld)
    /\ Goto(t, "unlinked")
    /\ UNCHANGED <<linode, lref, mnt, ud, ui, history, counts>>

\* Mutant: the link count is left alone.
UnlinkedCounted(t) ==
    /\ th[t].pc = "unlinked"
    /\ ud' = Dropped(th[t].ud)
    /\ ld' = Untake(ld, t)
    /\ CountDir(t)
    /\ Return(t)
    /\ UNCHANGED <<lower, lref, mnt, ui, history>>

\* Mutant: rmdir leaves the count of the directory alone.
UnlinkedDir(t) ==
    /\ th[t].pc = "unlinked"
    /\ LET a == ud[th[t].ud].ino IN
          ui' = [ui EXCEPT ![a].nlink = Nlink(linode[a])]
    /\ ud' = Dropped(th[t].ud)
    /\ ld' = Untake(ld, t)
    /\ Return(t)
    /\ UNCHANGED <<lower, lref, mnt, history, counts>>

\* set_nlink (clear_nlink for a directory, which has one name) and d_drop; rmdir also
\* set_nlink of the directory it was in.
Unlinked(t) ==
    /\ th[t].pc = "unlinked"
    /\ LET a == ud[th[t].ud].ino IN
          ui' = [ui EXCEPT ![a].nlink = Nlink(linode[a])]
    /\ ud' = Dropped(th[t].ud)
    /\ ld' = Untake(ld, t)
    /\ CountDir(t)
    /\ Return(t)
    /\ UNCHANGED <<lower, lref, mnt, history>>

\* The lower operation fails: mknod, mkdir and symlink drop the negative dentry, and
\* rmdir counts as if it had not.
LowerFails(t) ==
    /\ th[t].pc = "lower"
    /\ ud' = IF th[t].op \in {"node", "symlink"} THEN Dropped(th[t].ud) ELSE ud
    /\ ld' = Untake(ld, t)
    /\ IF th[t].op = "remove" THEN CountDir(t) ELSE UNCHANGED counts
    /\ Return(t)
    /\ UNCHANGED <<lower, lref, mnt, ui, history>>
-----------------------------------------------------------------------------
\* fsstack_copy_attr_all: the link count of the lower inode is read and written to
\* the upper one, here without a lock.

ReadAttr(t, u) ==
    /\ ~Busy(t)
    /\ ud[u].ino # None
    /\ th' = [th EXCEPT ![t] = [Idle EXCEPT !.pc = "copy", !.op = "getattr", !.ud = u,
                                  !.ino = ud[u].ino, !.nlink = Nlink(linode[ud[u].ino])]]
    /\ UNCHANGED <<lower, lref, ld, mnt, ud, ui, history, dirs>>

teadfs_getattr(t, u) == ReadAttr(t, u)

\* A cached name: if the lower file system revalidates names, the attributes are copied
\* without a lock, or the VFS is told to drop a name that somebody has changed.
\* Otherwise it stands.
teadfs_d_revalidate(t, u) ==
    /\ ~Busy(t) /\ ud[u].st = "hashed"
    /\ \/ ReadAttr(t, u)
       \/ /\ ~PinnedDent(u) /\ ud[u].name \in touched
          /\ ud' = Dropped(u)
          /\ UNCHANGED <<lower, lref, ld, mnt, ui, th, history, dirs>>

\* setattr and setxattr: the VFS has locked the inode, so that no link, unlink or rmdir
\* of it runs between the read and the write, which are one step.
CopyLocked(t, u) ==
    /\ ~Busy(t)
    /\ ud[u].ino # None /\ ~InodeLocked(ud[u].ino)
    /\ ui' = [ui EXCEPT ![ud[u].ino].nlink = Nlink(linode[ud[u].ino])]
    /\ UNCHANGED <<lower, lref, ld, mnt, ud, th, history, dirs>>

teadfs_setattr(t, u)  == CopyLocked(t, u)
teadfs_setxattr(t, u) == CopyLocked(t, u)

\* A count that has changed since it was read is written as Stale.
CopyAttr(t) ==
    /\ th[t].pc = "copy"
    /\ ui' = [ui EXCEPT ![th[t].ino].nlink =
                  IF th[t].nlink = Nlink(linode[th[t].ino]) THEN th[t].nlink ELSE Stale]
    /\ Return(t)
    /\ UNCHANGED <<lower, lref, ld, mnt, ud, history, counts>>

\* The same copies of the attributes of directory d itself: one without a lock, in two
\* steps, and one of setattr or setxattr with the mutex that directory operations have.
ReadDirAttr(d) ==
    /\ d \in Copied
    /\ dseen[d] = None
    /\ dseen' = [dseen EXCEPT ![d] = Subdirs(d)]
    /\ UNCHANGED <<lower, lref, ld, mnt, ud, ui, th, history, dircall, dnlink, behind>>

CopyDirAttr(d) ==
    /\ \/ /\ dseen[d] # None
          /\ dnlink' = [dnlink EXCEPT ![d] = IF dseen[d] = Subdirs(d) THEN dseen[d] ELSE Stale]
          /\ dseen' = [dseen EXCEPT ![d] = None]
       \/ /\ ~DirLocked(d)
          /\ dnlink' = [dnlink EXCEPT ![d] = Subdirs(d)]
          /\ UNCHANGED dseen
    /\ behind' = behind \ {d}
    /\ UNCHANGED <<lower, lref, ld, mnt, ud, ui, th, history, dircall>>
-----------------------------------------------------------------------------
\* The caches shrink

\* Mutant: the mount is put for a dentry without private data, too.
ReleaseAlways(u) ==
    /\ ud[u].st # "free"
    /\ ~PinnedDent(u)
    /\ ld' = IF ud[u].info = None THEN ld ELSE Dput(ld, ud[u].info)
    /\ mnt' = mnt - 1
    /\ ud' = [ud EXCEPT ![u] = NoUDent]
    /\ orphan' = orphan \ {u}
    /\ UNCHANGED <<lower, lref, ui, th, lost, forgot, touched, dirs>>

\* The last reference to an upper dentry is gone and it is not kept.
teadfs_d_release(u) ==
    /\ ud[u].st # "free"
    /\ ~PinnedDent(u)
    /\ IF ud[u].info = None
       THEN UNCHANGED <<ld, mnt>>
       ELSE ld' = Dput(ld, ud[u].info) /\ mnt' = mnt - 1
    /\ ud' = [ud EXCEPT ![u] = NoUDent]
    /\ orphan' = orphan \ {u}
    /\ UNCHANGED <<lower, lref, ui, th, lost, forgot, touched, dirs>>

\* The upper inode at a is unused: it gives its lower inode back ...
teadfs_evict_inode(a) ==
    /\ ui[a].st = "live"
    /\ ~PinnedInode(a)
    /\ ui' = [ui EXCEPT ![a] = [NoInode EXCEPT !.st = "freeing"]]
    /\ lref' = [lref EXCEPT ![a] = @ - 1]
    /\ UNCHANGED <<lower, ld, mnt, ud, th, history, dirs>>

\* ... and leaves the hash table afterwards.
teadfs_destroy_inode(a) ==
    /\ ui[a].st = "freeing"
    /\ ui' = [ui EXCEPT ![a] = NoInode]
    /\ UNCHANGED <<lower, lref, ld, mnt, ud, th, history, dirs>>

\* The lower file system drops an inode that nobody uses from memory.
LowerShrink(a) ==
    /\ linode[a] # None /\ lref[a] = 0
    /\ \A l \in LDents : ld[l].ino # a
    /\ linode' = [linode EXCEPT ![a] = None]
    /\ UNCHANGED <<disk, lref, ld, mnt, ud, ui, th, history, dirs>>

\* Another process removes n from the lower directory, or makes it a new file or a
\* link to an existing one that is no directory.
ChangeDirectly(n) ==
    /\ n \in Direct \ touched
    /\ ~LowerDirLocked(DirOf[n])
    /\ touched' = touched \cup {n}
    /\ \/ /\ disk[n] # None
          /\ disk' = [disk EXCEPT ![n] = None]
          /\ ld' = [l \in LDents |->
                      IF ld[l].st = "hashed" /\ ld[l].name = n
                      THEN [ld[l] EXCEPT !.st = "unhashed"] ELSE ld[l]]
          /\ UNCHANGED linode
       \/ /\ disk[n] = None
          /\ \E f \in NewFiles \cup ({disk[m] : m \in Names \ {n}} \ DirFiles) :
                /\ f # None
                /\ \E a \in PlacesOf(f) :
                      /\ disk' = [disk EXCEPT ![n] = f]
                      /\ linode' = [linode EXCEPT ![a] = f]
                      /\ ld' = [l \in LDents |->
                                  IF ld[l].st = "hashed" /\ ld[l].name = n
                                  THEN [ld[l] EXCEPT !.ino = a] ELSE ld[l]]
    /\ UNCHANGED <<lref, mnt, ud, ui, th, lost, forgot, orphan, dirs>>
-----------------------------------------------------------------------------
Lookup(t) ==
    \/ \E u \in UDents, n \in Names : teadfs_lookup(t, u, n)
    \/ InterposeNoMemory(t) \/ teadfs_lookup_interpose(t)

GetInode(t) == GetInodeFound(t) \/ GetInodeNew(t) \/ GetInodeFails(t)

DirOp(t) ==
    \/ \E u \in UDents : \/ teadfs_create(t, u) \/ teadfs_mknod(t, u) \/ teadfs_mkdir(t, u)
                         \/ teadfs_symlink(t, u) \/ teadfs_unlink(t, u) \/ teadfs_rmdir(t, u)
                         \/ \E old \in UDents : teadfs_link(t, u, old)
    \/ MakeLower(t) \/ LinkLower(t) \/ RemoveLower(t) \/ Unlinked(t) \/ LowerFails(t)

Attr(t) ==
    \/ \E u \in UDents : \/ teadfs_getattr(t, u) \/ teadfs_d_revalidate(t, u)
                         \/ teadfs_setattr(t, u) \/ teadfs_setxattr(t, u)
    \/ CopyAttr(t)

Shrink ==
    \/ \E u \in UDents : teadfs_d_release(u)
    \/ \E a \in Addrs : teadfs_evict_inode(a) \/ teadfs_destroy_inode(a) \/ LowerShrink(a)

Next ==
    \/ \E t \in Threads : Lookup(t) \/ GetInode(t) \/ DirOp(t) \/ Attr(t)
    \/ Shrink
    \/ \E n \in Names : ChangeDirectly(n)
    \/ \E d \in Dirs : ReadDirAttr(d) \/ CopyDirAttr(d)

Spec == Init /\ [][Next]_vars
-----------------------------------------------------------------------------
\* The types of what is about entries, and of what is about the directories' counts.
EntriesOK ==
    /\ disk \in [Names -> Files \cup {None}]
    /\ linode \in [Addrs -> Files \cup {None}]
    /\ lref \in [Addrs -> Int]
    /\ ld \in [LDents -> [st : {"free", "hashed", "unhashed"}, name : Names \cup {None},
                          ino : Addrs \cup {None}, count : Nat]]
    /\ mnt \in Nat
    /\ ud \in [UDents -> [st : {"free", "hashed", "unhashed"}, name : Names \cup {None},
                          ino : Addrs \cup {None}, info : LDents \cup {None}]]
    /\ ui \in [Addrs -> [st : {"absent", "live", "freeing"},
                         file : Files \cup {None}, nlink : Nat \cup {Stale}]]
    /\ th \in [Threads -> [pc : PCs, op : Ops \cup {"none"}, ud : UDents \cup {None},
                           old : UDents \cup {None}, ld : LDents \cup {None},
                           ino : Addrs \cup {None}, nlink : Nat]]
    /\ lost \in [LDents -> Nat] /\ forgot \in 0 .. MaxLost
    /\ orphan \subseteq UDents /\ touched \subseteq Direct

CountsOK ==
    /\ dircall \subseteq Threads /\ behind \subseteq Dirs
    /\ dnlink \in [Dirs -> Nat \cup {Stale}] /\ dseen \in [Dirs -> Nat \cup {None}]

TypeOK == EntriesOK /\ CountsOK

\* An upper inode is found by the address of its lower inode (lookup.c:19, :73), and
\* that address is not given to another file as long as the upper inode can be
\* found, because no path gives its reference back too early: nobody is handed the inode, the pages and the access of another file.
SameFile ==
    \A a \in Addrs : ui[a].st = "live" => linode[a] = ui[a].file

\* Every reference to a lower dentry or to the lower mount belongs to an upper dentry
\* (dentry.c:100-101), to a running call or to a lookup whose inode could not be
\* had (lookup.c:148-152, which forgets both), and every reference to a lower inode to
\* an upper one that has not been evicted (super.c:178) or to a call between igrab and
\* iget5_locked (lookup.c:69-82): no other path forgets one, and a path copied without
\* a reference (teadfs_header.h:132) never outlives its dentry.
LowerRefs ==
    /\ \A l \in LDents :
          ld[l].count = Cardinality({u \in UDents : ud[u].info = l}) + lost[l]
                        + Cardinality({t \in Threads :
                              /\ th[t].ld = l
                              /\ th[t].pc = "interpose" \/ (Busy(t) /\ th[t].op \in Dgets)})
                        + Cardinality({t \in Threads :
                              th[t].op = "link" /\ ud[th[t].old].info = l})
    /\ \A t \in Threads : th[t].ld # None => ld[th[t].ld].count > 0
    /\ mnt = Cardinality({u \in UDents : ud[u].info # None}) + forgot
    /\ \A a \in Addrs :
          lref[a] <= (IF ui[a].st = "live" THEN 1 ELSE 0)
                     + Cardinality({t \in Threads : th[t].pc = "iget" /\ th[t].ino = a})

\* Between calls, a cached name is what the lower directory says: a negative dentry
\* has no lower file, a positive one is the file of that name -- whatever has failed
\* and been undone (inode.c:69-77), unless the file of a failed create could not
\* be removed or another process has changed the lower directory (dentry.c:65 lets
\* its names stand).
Mirror ==
    \A n \in Names \ touched : \A u \in Hashed(n) \ orphan :
        ~PinnedDent(u) =>
            disk[n] = IF ud[u].ino = None THEN None ELSE ui[ud[u].ino].file

\* The link count of an upper inode, as far as it counts names, is that of the lower one
\* whenever no call is changing it (inode.c:323, :366, :573): links and removals through
\* several directories at once cannot leave it behind, nor can setattr and setxattr
\* (:183, :209); the attribute copies without the mutex can (inode.c:112, dentry.c:74).
\* An inode with a count too high outlives its last name.  (What a directory counts of
\* its subdirectories is the subject of DirNlink.)
NlinkCurrent ==
    touched = {} => \A a \in Addrs :
        ui[a].st = "live" /\ ~InodeLocked(a) => ui[a].nlink \in {Nlink(ui[a].file), Stale}

\* The link count of a directory is that of the lower one whenever no mkdir or rmdir is
\* between the lower operation and its end (inode.c:544, :575), but for the attribute
\* copies without the mutex and for a mkdir whose inode could not be made, which leaves
\* the lower directory made and the count as it was (:539-541) until the next mkdir,
\* rmdir or attribute copy corrects it.
DirNlink ==
    touched = {} => \A d \in Dirs \ behind :
        \/ dnlink[d] \in {Subdirs(d), Stale}
        \/ \E t \in dircall : th[t].pc \in {"iget", "unlinked"} /\ DirOf[NameOf(t)] = d

\* The lower inode that lookup reads before it allocates is the one it finds there
\* afterwards (lookup.c:96, :130, :136), so that no NULL is passed on, unless
\* another process has made the file in between.
InodeNotStale ==
    \A t \in Threads : th[t].pc = "oops" => NameOf(t) \in touched
=============================================================================
