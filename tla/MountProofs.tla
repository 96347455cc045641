---------------------------- MODULE MountProofs ----------------------------
(***************************************************************************)
(* Proofs about Mount for any number of mount calls and superblocks.  The  *)
(* inductive invariant says what a call has taken at each of its steps, so *)
(* that its common end and kill_sb can be seen to give all of it back.     *)
(***************************************************************************)
EXTENDS Mount, TLAPS

Rec(p, s, b, g, n, i, r, f) ==
    [pc |-> p, s |-> s, sbi |-> b, bdi |-> g, path |-> n, ino |-> i, root |-> r, info |-> f]

\* What a call and its superblock hold, by where the call is.  Only a call that is
\* about to fail may hold different things, by the step that failed.
Working ==
    {Rec("none",    "null", "none",  0, 0, 0, 0, 0),
     Rec("alloc",   "null", "none",  0, 0, 0, 0, 0),
     Rec("sget",    "null", "local", 0, 0, 0, 0, 0),
     Rec("bdi",     "sb",   "local", 0, 0, 0, 0, 0),
     Rec("path",    "sb",   "owned", 1, 0, 0, 0, 0),
     Rec("double",  "sb",   "owned", 1, 1, 0, 0, 0),
     Rec("inode",   "sb",   "owned", 1, 1, 0, 0, 0),
     Rec("root",    "sb",   "owned", 1, 1, 1, 0, 0),
     Rec("info",    "sb",   "owned", 1, 1, 1, 1, 0),
     Rec("mounted", "sb",   "owned", 1, 1, 1, 1, 1)}

Failing ==
    {Rec("fail", "null",  "none",  0, 0, 0, 0, 0),
     Rec("fail", "error", "local", 0, 0, 0, 0, 0),
     Rec("fail", "sb",    "local", 0, 0, 0, 0, 0),
     Rec("fail", "sb",    "owned", 1, 0, 0, 0, 0),
     Rec("fail", "sb",    "owned", 1, 1, 0, 0, 0),
     Rec("fail", "sb",    "owned", 1, 1, 1, 1, 0),
     Rec("oops", "error", "local", 0, 0, 0, 0, 0)}

Loaded == {"params", "netlink", "miscdev", "live"}

\* Nothing of a mount, and no open device, is there without a module that is loaded.
PinnedInv == Pinned => mod \in Loaded

IInv == TypeOK /\ PinnedInv /\ mt \in [Mounts -> Working \cup Failing]
-----------------------------------------------------------------------------
\* The records of the tables are of the type.
LEMMA Records ==
    Working \cup Failing \subseteq
        [pc : PCs, s : {"null", "error", "sb"}, sbi : {"none", "local", "owned"},
         bdi : 0 .. 1, path : 0 .. 1, ino : 0 .. 1, root : 0 .. 1, info : 0 .. 1]
  BY DEF Working, Failing, Rec, PCs

\* A step of one call is judged by the record it leaves.
LEMMA OneRecord ==
    ASSUME IInv, NEW m \in Mounts, NEW r \in Working \cup Failing,
           mt' = [mt EXCEPT ![m] = r], UNCHANGED <<mod, done, isOpen>>,
           mod \in Loaded, rcu' \in Nat, begun' \in 0 .. MaxMounts
    PROVE  IInv'
<1>1. mt' \in [Mounts -> Working \cup Failing]
  BY DEF IInv
<1>2. TypeOK'
  BY <1>1, Records DEF IInv, TypeOK
<1> QED
  BY <1>1, <1>2 DEF IInv, PinnedInv

\* What is left of a superblock that is shut down, and of a call that fails: the
\* records that are killed are that of a mount and those of Failing after PutPath.
LEMMA Killed ==
    ASSUME NEW p
    PROVE  /\ teadfs_kill_block_super(Rec(p, "sb", "local", 0, 0, 0, 0, 0))
                = Rec(p, "sb", "local", 0, 0, 0, 0, 0)
           /\ teadfs_kill_block_super(Rec(p, "sb", "owned", 1, 0, 0, 0, 0))
                = Rec(p, "sb", "none", 0, 0, 0, 0, 0)
           /\ teadfs_kill_block_super(Rec(p, "sb", "owned", 1, 0, 1, 1, 0))
                = Rec(p, "sb", "none", 0, 0, 0, 0, 0)
           /\ teadfs_kill_block_super(Rec(p, "sb", "owned", 1, 1, 1, 1, 1))
                = Rec(p, "sb", "none", 0, 0, 0, 0, 0)
<1> DEFINE a == Rec(p, "sb", "owned", 1, 0, 0, 0, 0)
           b == Rec(p, "sb", "owned", 1, 0, 1, 1, 0)
           c == Rec(p, "sb", "owned", 1, 1, 1, 1, 1)
\* The root goes, with its inode and, if it has it, the lower path ...
<1>1. kill_anon_super(a) = a
  BY DEF kill_anon_super, Rec
<1>2. kill_anon_super(b) = a
  <2>1. ReleaseRoot(b) = b
    BY DEF ReleaseRoot, Rec
  <2>2. [b EXCEPT !.ino = 0] = Rec(p, "sb", "owned", 1, 0, 0, 1, 0)
    BY DEF Rec
  <2>3. [Rec(p, "sb", "owned", 1, 0, 0, 1, 0) EXCEPT !.root = 0] = a
    BY DEF Rec
  <2>4. b.root = 1
    BY DEF Rec
  <2> QED
    BY <2>1, <2>2, <2>3, <2>4, Zenon DEF kill_anon_super, Evict
<1>3. kill_anon_super(c) = a
  <2>1. c.root = 1 /\ c.info = 1 /\ c.path = 1
    BY DEF Rec
  <2>2. [c EXCEPT !.info = 0] = Rec(p, "sb", "owned", 1, 1, 1, 1, 0)
    BY DEF Rec
  <2>3. [Rec(p, "sb", "owned", 1, 1, 1, 1, 0) EXCEPT !.path = @ - 1] = b
    BY DEF Rec
  <2>4. ReleaseRoot(c) = b
    BY <2>1, <2>2, <2>3, Zenon DEF ReleaseRoot
  <2>5. [b EXCEPT !.ino = 0] = Rec(p, "sb", "owned", 1, 0, 0, 1, 0)
    BY DEF Rec
  <2>6. [Rec(p, "sb", "owned", 1, 0, 0, 1, 0) EXCEPT !.root = 0] = a
    BY DEF Rec
  <2> QED
    BY <2>1, <2>4, <2>5, <2>6, Zenon DEF kill_anon_super, Evict
\* ... and then what sbi has.
<1>4. [a EXCEPT !.bdi = 0, !.sbi = "none"] = Rec(p, "sb", "none", 0, 0, 0, 0, 0)
  <2>1. [a EXCEPT !.bdi = 0] = Rec(p, "sb", "owned", 0, 0, 0, 0, 0)
    BY DEF Rec
  <2>2. [Rec(p, "sb", "owned", 0, 0, 0, 0, 0) EXCEPT !.sbi = "none"]
          = Rec(p, "sb", "none", 0, 0, 0, 0, 0)
    BY DEF Rec
  <2> QED
    BY <2>1, <2>2, Zenon
<1>5. a.sbi = "owned" /\ b.sbi = "owned" /\ c.sbi = "owned"
  BY DEF Rec
<1>6. teadfs_kill_block_super(Rec(p, "sb", "local", 0, 0, 0, 0, 0))
        = Rec(p, "sb", "local", 0, 0, 0, 0, 0)
  BY DEF teadfs_kill_block_super, kill_anon_super, Rec
<1> QED
  BY <1>1, <1>2, <1>3, <1>4, <1>5, <1>6, Zenon DEF teadfs_kill_block_super

\* Freeing sbi where it is still local, and forgetting s, leaves nothing.
LEMMA Freed ==
    ASSUME NEW p \in PCs, NEW s \in {"null", "sb"}, NEW b \in {"none", "local"}
    PROVE  [[FreeSbi(Rec(p, s, b, 0, 0, 0, 0, 0)) EXCEPT !.s = "null"] EXCEPT !.pc = "none"]
             = Rec("none", "null", "none", 0, 0, 0, 0, 0)
<1>1. FreeSbi(Rec(p, s, b, 0, 0, 0, 0, 0)) = Rec(p, s, "none", 0, 0, 0, 0, 0)
  BY DEF FreeSbi, Rec
<1>2. [Rec(p, s, "none", 0, 0, 0, 0, 0) EXCEPT !.s = "null"] = Rec(p, "null", "none", 0, 0, 0, 0, 0)
  BY DEF Rec
<1>3. [Rec(p, "null", "none", 0, 0, 0, 0, 0) EXCEPT !.pc = "none"]
        = Rec("none", "null", "none", 0, 0, 0, 0, 0)
  BY DEF Rec
<1> QED
  BY <1>1, <1>2, <1>3, Zenon

\* The end of a mount that fails, wherever it has failed: nothing is left, unless sget
\* has failed, which ends the thread.
LEMMA Ends ==
    ASSUME NEW r \in Working \cup Failing, r.pc = "fail"
    PROVE  LET q == PutPath(r) IN
           \/ /\ q.s = "error"
              /\ [q EXCEPT !.pc = "oops"] = Rec("oops", "error", "local", 0, 0, 0, 0, 0)
           \/ /\ q.s = "null"
              /\ [[FreeSbi(q) EXCEPT !.s = "null"] EXCEPT !.pc = "none"]
                   = Rec("none", "null", "none", 0, 0, 0, 0, 0)
           \/ /\ q.s = "sb" /\ Dropped(q) \in Nat
              /\ [[FreeSbi(teadfs_kill_block_super(q)) EXCEPT !.s = "null"] EXCEPT !.pc = "none"]
                   = Rec("none", "null", "none", 0, 0, 0, 0, 0)
<1> DEFINE q == PutPath(r)
<1> SUFFICES
       \/ /\ q.s = "error"
          /\ [q EXCEPT !.pc = "oops"] = Rec("oops", "error", "local", 0, 0, 0, 0, 0)
       \/ /\ q.s = "null"
          /\ [[FreeSbi(q) EXCEPT !.s = "null"] EXCEPT !.pc = "none"]
               = Rec("none", "null", "none", 0, 0, 0, 0, 0)
       \/ /\ q.s = "sb" /\ Dropped(q) \in Nat
          /\ [[FreeSbi(teadfs_kill_block_super(q)) EXCEPT !.s = "null"] EXCEPT !.pc = "none"]
               = Rec("none", "null", "none", 0, 0, 0, 0, 0)
  OBVIOUS
<1>1. r \in Failing \ {Rec("oops", "error", "local", 0, 0, 0, 0, 0)}
  BY DEF Working, Failing, Rec
<1>2. CASE r = Rec("fail", "null", "none", 0, 0, 0, 0, 0)
  <2>1. q = Rec("fail", "null", "none", 0, 0, 0, 0, 0) /\ q.s = "null"
    BY <1>2 DEF PutPath, Rec
  <2>2. "fail" \in PCs
    BY DEF PCs
  <2> QED
    BY <2>1, <2>2, Freed, Zenon
<1>3. CASE r = Rec("fail", "error", "local", 0, 0, 0, 0, 0)
  <2>1. q = Rec("fail", "error", "local", 0, 0, 0, 0, 0) /\ q.s = "error"
    BY <1>3 DEF PutPath, Rec
  <2>2. [Rec("fail", "error", "local", 0, 0, 0, 0, 0) EXCEPT !.pc = "oops"]
          = Rec("oops", "error", "local", 0, 0, 0, 0, 0)
    BY DEF Rec
  <2> QED
    BY <2>1, <2>2, Zenon
<1>4. CASE r.s = "sb"
  <2>1. \/ q = Rec("fail", "sb", "local", 0, 0, 0, 0, 0)
        \/ q = Rec("fail", "sb", "owned", 1, 0, 0, 0, 0)
        \/ q = Rec("fail", "sb", "owned", 1, 0, 1, 1, 0)
    <3>1. \/ r = Rec("fail", "sb", "local", 0, 0, 0, 0, 0)
          \/ r = Rec("fail", "sb", "owned", 1, 0, 0, 0, 0)
          \/ r = Rec("fail", "sb", "owned", 1, 1, 0, 0, 0)
          \/ r = Rec("fail", "sb", "owned", 1, 1, 1, 1, 0)
      BY <1>1, <1>4 DEF Failing, Rec
    <3> QED
      BY <3>1 DEF PutPath, Rec
  <2>2. q.s = "sb" /\ Dropped(q) \in Nat
    BY <2>1 DEF Rec, Dropped
  <2>3. \/ teadfs_kill_block_super(q) = Rec("fail", "sb", "none", 0, 0, 0, 0, 0)
        \/ teadfs_kill_block_super(q) = Rec("fail", "sb", "local", 0, 0, 0, 0, 0)
    BY <2>1, Killed, Zenon
  <2>4. "fail" \in PCs
    BY DEF PCs
  <2> QED
    BY <2>2, <2>3, <2>4, Freed, Zenon
<1> QED
  BY <1>1, <1>2, <1>3, <1>4 DEF Failing, Rec

\* Every step of a mount call, and unmounting, leads to a record of the tables.
LEMMA MountStep ==
    ASSUME IInv, NEW m \in Mounts, teadfs_mount(m) \/ Mounting(m) \/ Umount(m)
    PROVE  IInv'
<1>1. mt \in [Mounts -> Working \cup Failing] /\ rcu \in Nat /\ begun \in 0 .. MaxMounts
  BY DEF IInv, TypeOK
<1>2. mt[m].pc # "none" => mod \in Loaded
  BY DEF IInv, PinnedInv, Pinned
<1>3. UNCHANGED <<mod, done, isOpen>> /\ mod \in Loaded /\ begun' \in 0 .. MaxMounts
  BY <1>1, <1>2, MountsAssumption
  DEF Mounting, teadfs_mount, AllocSbi, sget, SetSbi, kern_path, DoubleMount, teadfs_get_inode,
      d_make_root, RootInfo, MountFails, Umount, Step, Loaded
<1> DEFINE Good == rcu' \in Nat /\ \E r \in Working \cup Failing : mt' = [mt EXCEPT ![m] = r]
<1>4. ASSUME teadfs_mount(m)
      PROVE  Good
  <2>1. [NoMount EXCEPT !.pc = "alloc"] = Rec("alloc", "null", "none", 0, 0, 0, 0, 0)
    BY DEF NoMount, Rec
  <2>2. mt' = [mt EXCEPT ![m] = Rec("alloc", "null", "none", 0, 0, 0, 0, 0)]
    BY <1>4, <2>1, Zenon DEF teadfs_mount
  <2>3. Rec("alloc", "null", "none", 0, 0, 0, 0, 0) \in Working
    BY Zenon DEF Working
  <2> QED
    BY <1>1, <1>4, <2>2, <2>3 DEF teadfs_mount
<1>5. ASSUME AllocSbi(m)
      PROVE  Good
  <2>1. mt[m] = Rec("alloc", "null", "none", 0, 0, 0, 0, 0)
    BY <1>1, <1>5 DEF AllocSbi, Working, Failing, Rec
  <2>2. [mt[m] EXCEPT !.sbi = "local"]
          = Rec("alloc", "null", "local", 0, 0, 0, 0, 0)
    BY <2>1 DEF Rec
  <2>3. /\ [Rec("alloc", "null", "local", 0, 0, 0, 0, 0) EXCEPT !.pc = "sget"]
             = Rec("sget", "null", "local", 0, 0, 0, 0, 0)
        /\ [Rec("alloc", "null", "none", 0, 0, 0, 0, 0) EXCEPT !.pc = "fail"]
             = Rec("fail", "null", "none", 0, 0, 0, 0, 0)
    BY DEF Rec
  <2>4. \/ mt' = [mt EXCEPT ![m] = Rec("sget", "null", "local", 0, 0, 0, 0, 0)]
        \/ mt' = [mt EXCEPT ![m] = Rec("fail", "null", "none", 0, 0, 0, 0, 0)]
    BY <1>5, <2>1, <2>2, <2>3, Zenon DEF AllocSbi, Step
  <2>5. /\ Rec("sget", "null", "local", 0, 0, 0, 0, 0) \in Working
        /\ Rec("fail", "null", "none", 0, 0, 0, 0, 0) \in Failing
    BY Zenon DEF Working, Failing
  <2> QED
    BY <1>1, <1>5, <2>4, <2>5 DEF AllocSbi, Step
<1>6. ASSUME sget(m)
      PROVE  Good
  <2>1. mt[m] = Rec("sget", "null", "local", 0, 0, 0, 0, 0)
    BY <1>1, <1>6 DEF sget, Working, Failing, Rec
  <2>2. [mt[m] EXCEPT !.s = "sb"]
          = Rec("sget", "sb", "local", 0, 0, 0, 0, 0)
    BY <2>1 DEF Rec
  <2>3. [mt[m] EXCEPT !.s = "error"]
          = Rec("sget", "error", "local", 0, 0, 0, 0, 0)
    BY <2>1 DEF Rec
  <2>4. /\ [Rec("sget", "sb", "local", 0, 0, 0, 0, 0) EXCEPT !.pc = "bdi"]
             = Rec("bdi", "sb", "local", 0, 0, 0, 0, 0)
        /\ [Rec("sget", "error", "local", 0, 0, 0, 0, 0) EXCEPT !.pc = "fail"]
             = Rec("fail", "error", "local", 0, 0, 0, 0, 0)
    BY DEF Rec
  <2>5. \/ mt' = [mt EXCEPT ![m] = Rec("bdi", "sb", "local", 0, 0, 0, 0, 0)]
        \/ mt' = [mt EXCEPT ![m] = Rec("fail", "error", "local", 0, 0, 0, 0, 0)]
    BY <1>6, <2>1, <2>2, <2>3, <2>4, Zenon DEF sget, Step
  <2>6. /\ Rec("bdi", "sb", "local", 0, 0, 0, 0, 0) \in Working
        /\ Rec("fail", "error", "local", 0, 0, 0, 0, 0) \in Failing
    BY Zenon DEF Working, Failing
  <2> QED
    BY <1>1, <1>6, <2>5, <2>6 DEF sget, Step
<1>7. ASSUME SetSbi(m)
      PROVE  Good
  <2>1. mt[m] = Rec("bdi", "sb", "local", 0, 0, 0, 0, 0)
    BY <1>1, <1>7 DEF SetSbi, Working, Failing, Rec
  <2>2. [mt[m] EXCEPT !.bdi = 1]
          = Rec("bdi", "sb", "local", 1, 0, 0, 0, 0)
    BY <2>1 DEF Rec
  <2>3. [Rec("bdi", "sb", "local", 1, 0, 0, 0, 0) EXCEPT !.sbi = "owned"]
          = Rec("bdi", "sb", "owned", 1, 0, 0, 0, 0)
    BY <2>1 DEF Rec
  <2>4. [mt[m] EXCEPT !.bdi = 1, !.sbi = "owned"] = Rec("bdi", "sb", "owned", 1, 0, 0, 0, 0)
    BY <2>2, <2>3, Zenon
  <2>5. /\ [Rec("bdi", "sb", "owned", 1, 0, 0, 0, 0) EXCEPT !.pc = "path"]
             = Rec("path", "sb", "owned", 1, 0, 0, 0, 0)
        /\ [Rec("bdi", "sb", "local", 0, 0, 0, 0, 0) EXCEPT !.pc = "fail"]
             = Rec("fail", "sb", "local", 0, 0, 0, 0, 0)
    BY DEF Rec
  <2>6. \/ mt' = [mt EXCEPT ![m] = Rec("path", "sb", "owned", 1, 0, 0, 0, 0)]
        \/ mt' = [mt EXCEPT ![m] = Rec("fail", "sb", "local", 0, 0, 0, 0, 0)]
    BY <1>7, <2>1, <2>4, <2>5, Zenon DEF SetSbi, Step
  <2>7. /\ Rec("path", "sb", "owned", 1, 0, 0, 0, 0) \in Working
        /\ Rec("fail", "sb", "local", 0, 0, 0, 0, 0) \in Failing
    BY Zenon DEF Working, Failing
  <2> QED
    BY <1>1, <1>7, <2>6, <2>7 DEF SetSbi, Step
<1>8. ASSUME kern_path(m)
      PROVE  Good
  <2>1. mt[m] = Rec("path", "sb", "owned", 1, 0, 0, 0, 0)
    BY <1>1, <1>8 DEF kern_path, Working, Failing, Rec
  <2>2. [mt[m] EXCEPT !.path = 1]
          = Rec("path", "sb", "owned", 1, 1, 0, 0, 0)
    BY <2>1 DEF Rec
  <2>3. /\ [Rec("path", "sb", "owned", 1, 1, 0, 0, 0) EXCEPT !.pc = "double"]
             = Rec("double", "sb", "owned", 1, 1, 0, 0, 0)
        /\ [Rec("path", "sb", "owned", 1, 0, 0, 0, 0) EXCEPT !.pc = "fail"]
             = Rec("fail", "sb", "owned", 1, 0, 0, 0, 0)
    BY DEF Rec
  <2>4. \/ mt' = [mt EXCEPT ![m] = Rec("double", "sb", "owned", 1, 1, 0, 0, 0)]
        \/ mt' = [mt EXCEPT ![m] = Rec("fail", "sb", "owned", 1, 0, 0, 0, 0)]
    BY <1>8, <2>1, <2>2, <2>3, Zenon DEF kern_path, Step
  <2>5. /\ Rec("double", "sb", "owned", 1, 1, 0, 0, 0) \in Working
        /\ Rec("fail", "sb", "owned", 1, 0, 0, 0, 0) \in Failing
    BY Zenon DEF Working, Failing
  <2> QED
    BY <1>1, <1>8, <2>4, <2>5 DEF kern_path, Step
<1>9. ASSUME DoubleMount(m)
      PROVE  Good
  <2>1. mt[m] = Rec("double", "sb", "owned", 1, 1, 0, 0, 0)
    BY <1>1, <1>9 DEF DoubleMount, Working, Failing, Rec
  <2>2. /\ [Rec("double", "sb", "owned", 1, 1, 0, 0, 0) EXCEPT !.pc = "inode"]
             = Rec("inode", "sb", "owned", 1, 1, 0, 0, 0)
        /\ [Rec("double", "sb", "owned", 1, 1, 0, 0, 0) EXCEPT !.pc = "fail"]
             = Rec("fail", "sb", "owned", 1, 1, 0, 0, 0)
    BY DEF Rec
  <2>3. \/ mt' = [mt EXCEPT ![m] = Rec("inode", "sb", "owned", 1, 1, 0, 0, 0)]
        \/ mt' = [mt EXCEPT ![m] = Rec("fail", "sb", "owned", 1, 1, 0, 0, 0)]
    BY <1>9, <2>1, <2>2, Zenon DEF DoubleMount, Step
  <2>4. /\ Rec("inode", "sb", "owned", 1, 1, 0, 0, 0) \in Working
        /\ Rec("fail", "sb", "owned", 1, 1, 0, 0, 0) \in Failing
    BY Zenon DEF Working, Failing
  <2> QED
    BY <1>1, <1>9, <2>3, <2>4 DEF DoubleMount, Step
<1>10. ASSUME teadfs_get_inode(m)
      PROVE  Good
  <2>1. mt[m] = Rec("inode", "sb", "owned", 1, 1, 0, 0, 0)
    BY <1>1, <1>10 DEF teadfs_get_inode, Working, Failing, Rec
  <2>2. [mt[m] EXCEPT !.ino = 1]
          = Rec("inode", "sb", "owned", 1, 1, 1, 0, 0)
    BY <2>1 DEF Rec
  <2>3. /\ [Rec("inode", "sb", "owned", 1, 1, 1, 0, 0) EXCEPT !.pc = "root"]
             = Rec("root", "sb", "owned", 1, 1, 1, 0, 0)
        /\ [Rec("inode", "sb", "owned", 1, 1, 0, 0, 0) EXCEPT !.pc = "fail"]
             = Rec("fail", "sb", "owned", 1, 1, 0, 0, 0)
    BY DEF Rec
  <2>4. \/ mt' = [mt EXCEPT ![m] = Rec("root", "sb", "owned", 1, 1, 1, 0, 0)]
        \/ mt' = [mt EXCEPT ![m] = Rec("fail", "sb", "owned", 1, 1, 0, 0, 0)]
    BY <1>10, <2>1, <2>2, <2>3, Zenon DEF teadfs_get_inode, Step
  <2>5. /\ Rec("root", "sb", "owned", 1, 1, 1, 0, 0) \in Working
        /\ Rec("fail", "sb", "owned", 1, 1, 0, 0, 0) \in Failing
    BY Zenon DEF Working, Failing
  <2> QED
    BY <1>1, <1>10, <2>4, <2>5 DEF teadfs_get_inode, Step
<1>11. ASSUME d_make_root(m)
      PROVE  Good
  <2>1. mt[m] = Rec("root", "sb", "owned", 1, 1, 1, 0, 0)
    BY <1>1, <1>11 DEF d_make_root, Working, Failing, Rec
  <2>2. [mt[m] EXCEPT !.root = 1]
          = Rec("root", "sb", "owned", 1, 1, 1, 1, 0)
    BY <2>1 DEF Rec
  <2>3. [mt[m] EXCEPT !.ino = 0]
          = Rec("root", "sb", "owned", 1, 1, 0, 0, 0)
    BY <2>1 DEF Rec
  <2>4. /\ [Rec("root", "sb", "owned", 1, 1, 1, 1, 0) EXCEPT !.pc = "info"]
             = Rec("info", "sb", "owned", 1, 1, 1, 1, 0)
        /\ [Rec("root", "sb", "owned", 1, 1, 0, 0, 0) EXCEPT !.pc = "fail"]
             = Rec("fail", "sb", "owned", 1, 1, 0, 0, 0)
    BY DEF Rec
  <2>5. \/ mt' = [mt EXCEPT ![m] = Rec("info", "sb", "owned", 1, 1, 1, 1, 0)]
        \/ mt' = [mt EXCEPT ![m] = Rec("fail", "sb", "owned", 1, 1, 0, 0, 0)]
    BY <1>11, <2>1, <2>2, <2>3, <2>4, Zenon DEF d_make_root, Step, Evict
  <2>6. /\ Rec("info", "sb", "owned", 1, 1, 1, 1, 0) \in Working
        /\ Rec("fail", "sb", "owned", 1, 1, 0, 0, 0) \in Failing
    BY Zenon DEF Working, Failing
  <2> QED
    BY <1>1, <1>11, <2>5, <2>6 DEF d_make_root, Step
<1>12. ASSUME RootInfo(m)
      PROVE  Good
  <2>1. mt[m] = Rec("info", "sb", "owned", 1, 1, 1, 1, 0)
    BY <1>1, <1>12 DEF RootInfo, Working, Failing, Rec
  <2>2. [mt[m] EXCEPT !.info = 1]
          = Rec("info", "sb", "owned", 1, 1, 1, 1, 1)
    BY <2>1 DEF Rec
  <2>3. /\ [Rec("info", "sb", "owned", 1, 1, 1, 1, 1) EXCEPT !.pc = "mounted"]
             = Rec("mounted", "sb", "owned", 1, 1, 1, 1, 1)
        /\ [Rec("info", "sb", "owned", 1, 1, 1, 1, 0) EXCEPT !.pc = "fail"]
             = Rec("fail", "sb", "owned", 1, 1, 1, 1, 0)
    BY DEF Rec
  <2>4. \/ mt' = [mt EXCEPT ![m] = Rec("mounted", "sb", "owned", 1, 1, 1, 1, 1)]
        \/ mt' = [mt EXCEPT ![m] = Rec("fail", "sb", "owned", 1, 1, 1, 1, 0)]
    BY <1>12, <2>1, <2>2, <2>3, Zenon DEF RootInfo, Step
  <2>5. /\ Rec("mounted", "sb", "owned", 1, 1, 1, 1, 1) \in Working
        /\ Rec("fail", "sb", "owned", 1, 1, 1, 1, 0) \in Failing
    BY Zenon DEF Working, Failing
  <2> QED
    BY <1>1, <1>12, <2>4, <2>5 DEF RootInfo, Step
<1>13. ASSUME MountFails(m)
      PROVE  Good
  <2>1. mt[m] \in Working \cup Failing /\ mt[m].pc = "fail"
    BY <1>1, <1>13 DEF MountFails
  <2>2. \/ mt' = [mt EXCEPT ![m] = Rec("oops", "error", "local", 0, 0, 0, 0, 0)] /\ UNCHANGED rcu
        \/ mt' = [mt EXCEPT ![m] = Rec("none", "null", "none", 0, 0, 0, 0, 0)] /\ UNCHANGED rcu
        \/ /\ mt' = [mt EXCEPT ![m] = Rec("none", "null", "none", 0, 0, 0, 0, 0)]
           /\ \E k \in Nat : rcu' = rcu + k
    <3> DEFINE q == PutPath(mt[m])
    <3>1. \/ /\ q.s = "error"
             /\ [q EXCEPT !.pc = "oops"] = Rec("oops", "error", "local", 0, 0, 0, 0, 0)
          \/ /\ q.s = "null"
             /\ [[FreeSbi(q) EXCEPT !.s = "null"] EXCEPT !.pc = "none"]
                  = Rec("none", "null", "none", 0, 0, 0, 0, 0)
          \/ /\ q.s = "sb" /\ Dropped(q) \in Nat
             /\ [[FreeSbi(teadfs_kill_block_super(q)) EXCEPT !.s = "null"] EXCEPT !.pc = "none"]
                  = Rec("none", "null", "none", 0, 0, 0, 0, 0)
      BY <2>1, Ends, Zenon
    <3>2. \/ q.s = "error" /\ mt' = [mt EXCEPT ![m] = [q EXCEPT !.pc = "oops"]] /\ UNCHANGED rcu
          \/ /\ q.s = "null" /\ UNCHANGED rcu
             /\ mt' = [mt EXCEPT ![m] = [[FreeSbi(q) EXCEPT !.s = "null"] EXCEPT !.pc = "none"]]
          \/ /\ q.s = "sb" /\ rcu' = rcu + Dropped(q)
             /\ mt' = [mt EXCEPT ![m] =
                  [[FreeSbi(teadfs_kill_block_super(q)) EXCEPT !.s = "null"] EXCEPT !.pc = "none"]]
      BY <1>13, Zenon DEF MountFails, Step
    <3>3. "error" # "null" /\ "error" # "sb" /\ "null" # "sb"
      OBVIOUS
    <3> QED
      BY <3>1, <3>2, <3>3, Zenon
  <2>3. /\ Rec("none", "null", "none", 0, 0, 0, 0, 0) \in Working
        /\ Rec("oops", "error", "local", 0, 0, 0, 0, 0) \in Failing
    BY Zenon DEF Working, Failing
  <2> QED
    BY <1>1, <2>2, <2>3
<1>14. ASSUME Umount(m)
      PROVE  Good
  <2>1. mt[m] = Rec("mounted", "sb", "owned", 1, 1, 1, 1, 1)
    BY <1>1, <1>14 DEF Umount, Working, Failing, Rec
  <2>2. Dropped(mt[m]) = 1
    BY <2>1 DEF Dropped, Rec
  <2>3. teadfs_kill_block_super(mt[m]) = Rec("mounted", "sb", "none", 0, 0, 0, 0, 0)
    BY <2>1, Killed, Zenon
  <2>4. [Rec("mounted", "sb", "none", 0, 0, 0, 0, 0) EXCEPT !.s = "null"]
          = Rec("mounted", "null", "none", 0, 0, 0, 0, 0)
    BY DEF Rec
  <2>5. [Rec("mounted", "null", "none", 0, 0, 0, 0, 0) EXCEPT !.pc = "none"]
          = Rec("none", "null", "none", 0, 0, 0, 0, 0)
    BY DEF Rec
  <2>6. mt' = [mt EXCEPT ![m] = Rec("none", "null", "none", 0, 0, 0, 0, 0)]
    BY <1>14, <2>3, <2>4, <2>5, Zenon DEF Umount, Step
  <2>7. Rec("none", "null", "none", 0, 0, 0, 0, 0) \in Working
    BY Zenon DEF Working
  <2>8. rcu' = rcu + Dropped(mt[m])
    BY <1>14 DEF Umount
  <2>9. rcu' \in Nat
    BY <1>1, <2>2, <2>8
  <2> QED
    BY <2>6, <2>7, <2>9
<1>15. Good
  BY <1>4, <1>5, <1>6, <1>7, <1>8, <1>9, <1>10, <1>11, <1>12, <1>13, <1>14 DEF Mounting
<1> QED
  BY <1>3, <1>15, OneRecord

\* The steps of the module leave mounts alone, and it is unloaded only if nobody pins it.
LEMMA ModuleStep ==
    ASSUME IInv,
           Insmod \/ Load \/ Rmmod \/ Unload \/ OpenDevice \/ CloseDevice \/ teadfs_i_callback
    PROVE  IInv'
<1> USE DEF IInv, TypeOK, PinnedInv, Pinned, ModStates, Loaded
<1>1. CASE Insmod
  BY <1>1 DEF Insmod
<1>2. CASE Load
  BY <1>2 DEF Load, register_filesystem, teadfs_init_global_param, teadfs_start_netlink,
              teadfs_init_miscdev
<1>3. CASE Rmmod
  BY <1>3 DEF Rmmod
<1>4. CASE Unload
  <2> USE DEF Unload, unregister_filesystem, teadfs_release_netlink, teadfs_destroy_miscdev
  <2>1. mod \notin Loaded /\ UNCHANGED <<isOpen, mt, rcu, begun>>
    BY <1>4
  <2>2. ~Pinned'
    BY <2>1
  <2>3. mod' \in ModStates /\ done' \subseteq {"fs", "params", "netlink", "miscdev"}
    BY <1>4
  <2> QED
    BY <2>1, <2>2, <2>3
<1>5. CASE OpenDevice
  BY <1>5 DEF OpenDevice
<1>6. CASE CloseDevice
  BY <1>6 DEF CloseDevice
<1>7. CASE teadfs_i_callback
  BY <1>7 DEF teadfs_i_callback
<1> QED
  BY <1>1, <1>2, <1>3, <1>4, <1>5, <1>6, <1>7
-----------------------------------------------------------------------------
\* At every moment a mount call and its superblock hold what the table of its step says
\* (main.c:24-139), and a mount or an open device keeps the module loaded.
THEOREM Invariance == Spec => []IInv
<1>1. Init => IInv
  <2> SUFFICES ASSUME Init
               PROVE  IInv
    OBVIOUS
  <2>1. NoMount = Rec("none", "null", "none", 0, 0, 0, 0, 0) /\ NoMount.pc = "none"
    BY DEF NoMount, Rec
  <2>2. NoMount \in Working
    BY <2>1, Zenon DEF Working
  <2>3. mt \in [Mounts -> Working \cup Failing]
    BY <2>2 DEF Init
  <2>4. TypeOK
    <3>1. mod \in ModStates /\ done \subseteq {"fs", "params", "netlink", "miscdev"}
          /\ rcu \in Nat /\ begun \in 0 .. MaxMounts
      BY MountsAssumption DEF Init, ModStates
    <3>2. isOpen \in BOOLEAN
      BY DEF Init
    <3> QED
      BY <2>3, <3>1, <3>2, Records DEF TypeOK
  <2>5. ~Pinned
    BY <2>1 DEF Init, Pinned
  <2> QED
    BY <2>3, <2>4, <2>5 DEF IInv, PinnedInv
<1>2. IInv /\ [Next]_vars => IInv'
  <2> SUFFICES ASSUME IInv, [Next]_vars
               PROVE  IInv'
    OBVIOUS
  <2>1. CASE Insmod \/ Load \/ Rmmod \/ Unload \/ OpenDevice \/ CloseDevice
             \/ teadfs_i_callback
    BY <2>1, ModuleStep
  <2>2. ASSUME NEW m \in Mounts, teadfs_mount(m) \/ Mounting(m) \/ Umount(m)
        PROVE  IInv'
    BY <2>2, MountStep
  <2>3. CASE UNCHANGED vars
    BY <2>3 DEF vars, IInv, TypeOK, PinnedInv, Pinned
  <2> QED
    BY <2>1, <2>2, <2>3 DEF Next
<1> QED
  BY <1>1, <1>2, PTL DEF Spec

\* Every variable keeps its type; above all no reference to the lower path or inode is
\* given back that is not held.
THEOREM TypeCorrect == Spec => []TypeOK
<1>1. IInv => TypeOK
  BY DEF IInv
<1> QED
  BY <1>1, Invariance, PTL

\* A mount that is over, failed at whichever step or unmounted, has given everything
\* back, and one that has succeeded holds the lower path and inode (main.c:129-137,
\* :149-166).
THEOREM AlwaysBalanced == Spec => []Balanced
<1>1. IInv => Balanced
  <2> SUFFICES ASSUME IInv, NEW m \in Mounts
               PROVE  /\ mt[m].pc = "none" => mt[m] = NoMount
                      /\ mt[m].pc = "mounted" =>
                            mt[m].path = 1 /\ mt[m].ino = 1 /\ mt[m].sbi = "owned" /\ mt[m].info = 1
    BY DEF Balanced
  <2> QED
    BY DEF IInv, Working, Failing, Rec, NoMount
<1> QED
  BY <1>1, Invariance, PTL
=============================================================================
