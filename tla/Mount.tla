------------------------------- MODULE Mount -------------------------------
(***************************************************************************)
(* Loading the module, mounting, unmounting, unloading: what is taken in   *)
(* which order, what gives it back when a step fails, and what outlives    *)
(* the module.                                                             *)
(*                                                                         *)
(*   main.c     teadfs_mount, teadfs_kill_block_super, module init and     *)
(*              exit                                                       *)
(*   super.c    teadfs_evict_inode, teadfs_destroy_inode, i_callback, for  *)
(*              the inode of the root                                      *)
(*   netlink.c, miscdev.c, global_param.c   their init and release         *)
(*                                                                         *)
(* The VFS pins the module from the start of a mount until its superblock  *)
(* is gone, and an open device pins it too; RCU calls back at any time     *)
(* after a grace period, and free_module does not wait for it.             *)
(***************************************************************************)
EXTENDS Integers, FiniteSets

CONSTANTS
    Mounts,     \* mount calls, each with the superblock it makes
    MaxMounts   \* bound: how many mount calls are made

ASSUME MountsAssumption == IsFiniteSet(Mounts) /\ MaxMounts \in Nat

VARIABLES
    mod,     \* where the module is between insmod and the end of rmmod
    done,    \* what its init function has got to
    isOpen,  \* the device is open
    mt,      \* mt[m]: a mount call, and what it and its superblock have taken
    rcu,     \* number of inodes that wait for teadfs_i_callback
    begun    \* number of mount calls so far, for the bound

vars == <<mod, done, isOpen, mt, rcu, begun>>

\* sbi: "local" to the call or in s_fs_info ("owned").  What there is at most one of is
\* counted.  bdi: registered; path: references to the lower path; ino: to the lower
\* inode; root: s_root; info: its private data.
NoMount == [pc |-> "none", s |-> "null", sbi |-> "none", bdi |-> 0, path |-> 0,
            ino |-> 0, root |-> 0, info |-> 0]

ModStates == {"absent", "register", "params", "netlink", "miscdev", "live",
              "exit", "exitNetlink", "exitMiscdev"}
PCs == {"none", "alloc", "sget", "bdi", "path", "double", "inode", "root", "info",
        "fail", "mounted", "oops"}

Init ==
    /\ mod = "absent" /\ done = {} /\ isOpen = FALSE
    /\ mt = [m \in Mounts |-> NoMount]
    /\ rcu = 0 /\ begun = 0
-----------------------------------------------------------------------------
\* teadfs_module_init: its steps, whose results are ignored, and always 0

Insmod ==
    /\ mod = "absent"
    /\ mod' = "register"
    /\ UNCHANGED <<done, isOpen, mt, rcu, begun>>

register_filesystem ==
    /\ mod = "register"
    /\ \/ done' = done \cup {"fs"} /\ mod' = "params"
       \/ mod' = "live" /\ UNCHANGED done
    /\ UNCHANGED <<isOpen, mt, rcu, begun>>

teadfs_init_global_param ==
    /\ mod = "params"
    /\ done' = done \cup {"params"}
    /\ mod' = "netlink"
    /\ UNCHANGED <<isOpen, mt, rcu, begun>>

\* The socket may also not be made, and misc_register may fail.
teadfs_start_netlink ==
    /\ mod = "netlink"
    /\ \/ done' = done \cup {"netlink"}
       \/ UNCHANGED done
    /\ mod' = "miscdev"
    /\ UNCHANGED <<isOpen, mt, rcu, begun>>

teadfs_init_miscdev ==
    /\ mod = "miscdev"
    /\ \/ done' = done \cup {"miscdev"}
       \/ UNCHANGED done
    /\ mod' = "live"
    /\ UNCHANGED <<isOpen, mt, rcu, begun>>
-----------------------------------------------------------------------------
\* Who pins the module: the owners of the file system type and of the device.
Pinned == isOpen \/ \E m \in Mounts : mt[m].pc # "none"

\* teadfs_module_exit
Rmmod ==
    /\ mod = "live"
    /\ ~Pinned
    /\ mod' = "exit"
    /\ UNCHANGED <<done, isOpen, mt, rcu, begun>>

unregister_filesystem ==
    /\ mod = "exit"
    /\ done' = done \ {"fs"}
    /\ mod' = "exitNetlink"
    /\ UNCHANGED <<isOpen, mt, rcu, begun>>

teadfs_release_netlink ==
    /\ mod = "exitNetlink"
    /\ done' = done \ {"netlink"}
    /\ mod' = "exitMiscdev"
    /\ UNCHANGED <<isOpen, mt, rcu, begun>>

\* misc_deregister, and the module is gone.
teadfs_destroy_miscdev ==
    /\ mod = "exitMiscdev"
    /\ done' = {}
    /\ mod' = "absent"
    /\ UNCHANGED <<isOpen, mt, rcu, begun>>

\* A daemon opens and closes the device.
OpenDevice ==
    /\ "miscdev" \in done /\ mod \in {"miscdev", "live"} /\ ~isOpen
    /\ isOpen' = TRUE
    /\ UNCHANGED <<mod, done, mt, rcu, begun>>

CloseDevice ==
    /\ isOpen
    /\ isOpen' = FALSE
    /\ UNCHANGED <<mod, done, mt, rcu, begun>>
-----------------------------------------------------------------------------
\* teadfs_mount.  A step that fails goes to the common end of the function.

Step(m, l, r) ==
    /\ mt' = [mt EXCEPT ![m] = [r EXCEPT !.pc = l]]
    /\ UNCHANGED <<mod, done, isOpen, begun>>

\* mount(2) of a registered type: get_fs_type pins the module, even while it loads.
teadfs_mount(m) ==
    /\ mt[m].pc = "none"
    /\ "fs" \in done /\ mod \in {"params", "netlink", "miscdev", "live"}
    /\ begun < MaxMounts
    /\ begun' = begun + 1
    /\ mt' = [mt EXCEPT ![m] = [NoMount EXCEPT !.pc = "alloc"]]
    /\ UNCHANGED <<mod, done, isOpen, rcu>>

AllocSbi(m) ==
    /\ mt[m].pc = "alloc"
    /\ Step(m, "sget", [mt[m] EXCEPT !.sbi = "local"]) \/ Step(m, "fail", mt[m])
    /\ UNCHANGED rcu

\* s is a superblock or an error pointer.
sget(m) ==
    /\ mt[m].pc = "sget"
    /\ \/ Step(m, "bdi", [mt[m] EXCEPT !.s = "sb"])
       \/ Step(m, "fail", [mt[m] EXCEPT !.s = "error"])
    /\ UNCHANGED rcu

\* bdi_setup_and_register, teadfs_set_lower_super: the superblock has sbi now.
SetSbi(m) ==
    /\ mt[m].pc = "bdi"
    /\ \/ Step(m, "path", [mt[m] EXCEPT !.bdi = 1, !.sbi = "owned"])
       \/ Step(m, "fail", mt[m])
    /\ UNCHANGED rcu

kern_path(m) ==
    /\ mt[m].pc = "path"
    /\ Step(m, "double", [mt[m] EXCEPT !.path = 1]) \/ Step(m, "fail", mt[m])
    /\ UNCHANGED rcu

\* A lower file system of type teadfs is refused.
DoubleMount(m) ==
    /\ mt[m].pc = "double"
    /\ Step(m, "inode", mt[m]) \/ Step(m, "fail", mt[m])
    /\ UNCHANGED rcu

teadfs_get_inode(m) ==
    /\ mt[m].pc = "inode"
    /\ Step(m, "root", [mt[m] EXCEPT !.ino = 1]) \/ Step(m, "fail", mt[m])
    /\ UNCHANGED rcu

\* The last reference to an upper inode: teadfs_evict_inode gives the lower one
\* back, teadfs_destroy_inode leaves the memory to RCU.
Evict(r) == [r EXCEPT !.ino = 0]

\* d_make_root puts the inode itself if it fails.
d_make_root(m) ==
    /\ mt[m].pc = "root"
    /\ \/ Step(m, "info", [mt[m] EXCEPT !.root = 1]) /\ UNCHANGED rcu
       \/ Step(m, "fail", Evict(mt[m])) /\ rcu' = rcu + 1

\* The root dentry takes over the reference to the lower path.
RootInfo(m) ==
    /\ mt[m].pc = "info"
    /\ Step(m, "mounted", [mt[m] EXCEPT !.info = 1]) \/ Step(m, "fail", mt[m])
    /\ UNCHANGED rcu
-----------------------------------------------------------------------------
\* teadfs_d_release of the root: with its private data goes the lower path.
ReleaseRoot(r) ==
    IF r.info = 1 THEN [r EXCEPT !.info = 0, !.path = @ - 1] ELSE r

\* kill_anon_super drops the root, if there is one, and its inode.
kill_anon_super(r) ==
    IF r.root = 1 THEN [Evict(ReleaseRoot(r)) EXCEPT !.root = 0] ELSE r

\* teadfs_kill_block_super: sbi goes after everything that may look at it.
teadfs_kill_block_super(r) ==
    IF r.sbi = "owned" THEN [kill_anon_super(r) EXCEPT !.bdi = 0, !.sbi = "none"]
    ELSE kill_anon_super(r)

Dropped(r) == r.root

\* Mutant: release_path is not looked at.
PutPathAlways(r) == [r EXCEPT !.path = @ - 1]

\* Mutant: sbi is left to kill_sb, always.
FreeNothing(r) == r

PutPath(r) == [r EXCEPT !.path = IF @ = 0 THEN 0 ELSE @ - 1]
FreeSbi(r) == [r EXCEPT !.sbi = IF @ = "local" THEN "none" ELSE @]

\* The end of a mount that fails: path_put, deactivate_locked_super, sbi.  An error
\* pointer is not NULL: it is deactivated, which ends the thread.
MountFails(m) ==
    LET r == PutPath(mt[m]) IN
    /\ mt[m].pc = "fail"
    /\ \/ r.s = "error" /\ Step(m, "oops", r) /\ UNCHANGED rcu
       \/ r.s = "null" /\ Step(m, "none", [FreeSbi(r) EXCEPT !.s = "null"]) /\ UNCHANGED rcu
       \/ /\ r.s = "sb"
          /\ Step(m, "none", [FreeSbi(teadfs_kill_block_super(r)) EXCEPT !.s = "null"])
          /\ rcu' = rcu + Dropped(r)

Umount(m) ==
    /\ mt[m].pc = "mounted"
    /\ Step(m, "none", [teadfs_kill_block_super(mt[m]) EXCEPT !.s = "null"])
    /\ rcu' = rcu + Dropped(mt[m])

\* After a grace period RCU calls into the module.
teadfs_i_callback ==
    /\ rcu > 0 /\ mod # "absent"
    /\ rcu' = rcu - 1
    /\ UNCHANGED <<mod, done, isOpen, mt, begun>>
-----------------------------------------------------------------------------
Load == register_filesystem \/ teadfs_init_global_param \/ teadfs_start_netlink
        \/ teadfs_init_miscdev

Unload == unregister_filesystem \/ teadfs_release_netlink \/ teadfs_destroy_miscdev

Mounting(m) ==
    \/ AllocSbi(m) \/ sget(m) \/ SetSbi(m) \/ kern_path(m) \/ DoubleMount(m)
    \/ teadfs_get_inode(m) \/ d_make_root(m) \/ RootInfo(m) \/ MountFails(m)

Next ==
    \/ Insmod \/ Load \/ Rmmod \/ Unload \/ OpenDevice \/ CloseDevice
    \/ \E m \in Mounts : teadfs_mount(m) \/ Mounting(m) \/ Umount(m)
    \/ teadfs_i_callback

Spec == Init /\ [][Next]_vars
-----------------------------------------------------------------------------
TypeOK ==
    /\ mod \in ModStates
    /\ done \subseteq {"fs", "params", "netlink", "miscdev"}
    /\ isOpen \in BOOLEAN
    /\ mt \in [Mounts -> [pc : PCs, s : {"null", "error", "sb"},
                          sbi : {"none", "local", "owned"}, bdi : 0 .. 1,
                          path : 0 .. 1, ino : 0 .. 1, root : 0 .. 1, info : 0 .. 1]]
    /\ rcu \in Nat
    /\ begun \in 0 .. MaxMounts

\* A mount that is over, failed at whichever step or unmounted, has given everything
\* back exactly once, and one that has succeeded holds the lower path and inode
\* (main.c:129-137, :149-166; "kill_sb() will take care of" sbi and root_info, :62
\* and :120).
Balanced ==
    \A m \in Mounts :
        /\ mt[m].pc = "none" => mt[m] = NoMount
        /\ mt[m].pc = "mounted" =>
              mt[m].path = 1 /\ mt[m].ino = 1 /\ mt[m].sbi = "owned" /\ mt[m].info = 1

-----------------------------------------------------------------------------
\* super.c:117, of teadfs_destroy_inode: "There should be no chance that this
\* deallocation will be missed."  The module goes away without rcu_barrier
\* (main.c:204-214), with callbacks into it still to come.
DeallocationNotMissed == mod = "absent" => rcu = 0
=============================================================================
