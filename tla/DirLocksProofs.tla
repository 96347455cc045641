--------------------------- MODULE DirLocksProofs ---------------------------
(***************************************************************************)
(* Proofs about DirLocks for any tree, any threads and any direct moves:   *)
(* the lower tree stays a tree; and until somebody moves something in it   *)
(* directly, both trees are in step, an operation is given the directory   *)
(* that its entry is in, no call returns with a lower lock held, and no    *)
(* calls wait for each other in a circle.                                  *)
(***************************************************************************)
EXTENDS DirLocks, TLAPS

Trees == [Nodes -> Dirs \cup {None}]

IsTree(tree) == \A n \in Nodes : tree[n] # None => Root \in Ancestors(tree, n)

Records == [pc : PCs, op : Ops \cup {None}, x : Dirs \cup {None}, y : Dirs \cup {None},
            z : Nodes \cup {None}, p : Dirs \cup {None}, q : Dirs \cup {None}]

Ordering == {"order", "first", "secondp", "secondq", "trap"}
Removing == {"unlink", "rmdir"}
Moving   == Removing \cup {"rename"}

\* What the VFS has locked for a call, and what it has made sure of, lasts until the
\* call returns.
CallOf(t) ==
    /\ th[t].x \in Dirs /\ th[t].op \in Ops
    /\ th[t].op \in Moving =>
          th[t].x \in Nodes /\ upper[th[t].x] # None /\ umutex[upper[th[t].x]] = t
    /\ th[t].op \in Removing => th[t].y = None /\ umutex[th[t].x] = t
    /\ th[t].op = "rename" =>
          /\ th[t].y \in Dirs /\ umutex[th[t].y] = t
          /\ upper[th[t].x] # th[t].y => urename = t
    /\ th[t].z # None =>
          /\ th[t].op = "rename" /\ th[t].z # th[t].x
          /\ upper[th[t].z] = th[t].y /\ umutex[th[t].z] = t

CallInv == \A t \in Threads : Busy(t) => CallOf(t)

\* The locals of a call: two directories are locked for a rename, and only if they differ.
LocalOf(t) ==
    /\ th[t].pc \in Ordering =>
          th[t].op = "rename" /\ th[t].p \in Dirs /\ th[t].q \in Dirs /\ th[t].p # th[t].q
    /\ th[t].pc \in {"lock", "act"} /\ th[t].op # "self" =>
          th[t].p \in Dirs /\ (th[t].op = "rename" => th[t].q \in Dirs)
    /\ th[t].pc = "lock" /\ th[t].op = "rename" => th[t].p = th[t].q
    /\ th[t].pc \in Ordering \cup {"lock", "act"} /\ th[t].op = "rename" /\ th[t].z = None =>
          th[t].q = th[t].y
    /\ th[t].pc = "parent" => th[t].op # "self"
    /\ th[t].pc = "done" => th[t].op \in Moving

LocalInv == \A t \in Threads : LocalOf(t)

\* What a call has locked in the lower tree.
LockOf(t) ==
    /\ th[t].pc \in {"secondq", "trap"} => lmutex[th[t].p] = t
    /\ th[t].pc \in {"secondp", "trap"} => lmutex[th[t].q] = t
    /\ th[t].pc = "act" /\ th[t].op # "self" => lmutex[th[t].p] = t
    /\ th[t].pc \in Ordering \ {"order"} => lrename = t
    /\ th[t].pc = "act" /\ th[t].op = "rename" /\ th[t].p # th[t].q => lrename = t

LowerLockInv == \A t \in Threads : LockOf(t)

\* The nodes that a call moves or removes, and those that it removes.
Mine(t) == {n \in Nodes : Busy(t) /\ (n = th[t].z \/ (n = th[t].x /\ th[t].op \in Moving))}
Gone(t) == {n \in Nodes : Busy(t) /\ (n = th[t].z \/ (n = th[t].x /\ th[t].op \in Removing))}

\* Nodes are removed from the lower tree by the calls that are about to remove them from
\* the upper one, and by nobody else.
AliveOf(t) ==
    /\ th[t].pc # "done" => \A n \in Mine(t) : lower[n] # None
    /\ th[t].pc = "done" => \A n \in Mine(t) : lower[n] = None <=> n \in Gone(t)
    /\ Busy(t) /\ th[t].op = "rename" /\ th[t].z = None /\ th[t].y # Root =>
          lower[th[t].y] # None

Half(n) == \E t \in Threads : th[t].pc = "done" /\ n \in Mine(t)

AliveInv ==
    /\ \A t \in Threads : AliveOf(t)
    /\ \A n \in Nodes : (upper[n] = None <=> lower[n] = None) \/ Half(n)

\* Until the first direct move, what a call works on is where the upper tree says, and
\* the trees differ by what calls have done in the lower one.
StepOf(t) ==
    /\ th[t].pc # "done" => \A n \in Mine(t) : lower[n] = upper[n]
    /\ th[t].pc = "done" => lower[th[t].x] = th[t].y

StepInv == moves = 0 =>
    /\ \A t \in Threads : StepOf(t)
    /\ \A n \in Nodes : upper[n] = lower[n] \/ Half(n)

\* Until then, so are the directories that it locks.
ParentOf(t) == th[t].pc \in Ordering \cup {"lock", "act"} =>
    /\ th[t].op \in Moving => th[t].p = upper[th[t].x]
    /\ th[t].op = "rename" => th[t].q = th[t].y

ParentInv == moves = 0 => \A t \in Threads : ParentOf(t)

\* After the check of a rename, what it moves is not above the directory it moves it to.
TrapOf(t) ==
    /\ th[t].pc = "act" /\ th[t].op = "rename" /\ th[t].p # th[t].q
    /\ lower[th[t].x] = th[t].p
    => th[t].x \notin Ancestors(lower, th[t].q)

TrapInv == \A t \in Threads : TrapOf(t)

\* Until the first direct move the upper tree is a tree as well, what is about to be
\* removed from it is empty, and the check of the VFS stays true of it.
UpperOf(t) ==
    /\ th[t].pc = "done" => \A n \in Gone(t), c \in Nodes : upper[c] # n
    /\ Busy(t) /\ th[t].op = "rename" /\ upper[th[t].x] # th[t].y =>
          /\ th[t].x \notin Ancestors(upper, th[t].y)
          /\ th[t].z # None => th[t].z \notin Ancestors(upper, upper[th[t].x])

UpperInv == moves = 0 => IsTree(upper) /\ \A t \in Threads : UpperOf(t)

\* Until then, a call that is to lock the lower tree, or has unlocked it, holds nothing.
HeldOf(t) == th[t].pc \in {"idle", "parent", "lock", "order", "done"} => ~Holds(t)

HeldInv == moves = 0 => \A t \in Threads : HeldOf(t)

IInv ==
    /\ TypeOK /\ CallInv /\ LocalInv /\ LowerLockInv /\ AliveInv /\ StepInv /\ ParentInv
    /\ LowerIsTree /\ TrapInv /\ UpperInv /\ HeldInv
-----------------------------------------------------------------------------
\* Ancestors

\* The ancestors of d are the least set that has d in it and is closed.
LEMMA AncestorsLeast ==
    ASSUME NEW tree \in Trees, NEW d \in Dirs
    PROVE  /\ Ancestors(tree, d) \subseteq Dirs /\ d \in Ancestors(tree, d)
           /\ UpClosed(tree, Ancestors(tree, d))
           /\ \A S \in SUBSET Dirs : d \in S /\ UpClosed(tree, S) => Ancestors(tree, d) \subseteq S
  BY DEF Ancestors, UpClosed, Trees, Dirs

\* An ancestor of an ancestor is one.
LEMMA AncestorsTransitive ==
    ASSUME NEW tree \in Trees, NEW d \in Dirs, NEW b \in Ancestors(tree, d)
    PROVE  b \in Dirs /\ Ancestors(tree, b) \subseteq Ancestors(tree, d)
<1> HIDE DEF Dirs
<1> QED
  BY AncestorsLeast

\* The directory of a node is above it, and what else is above the node is above that.
LEMMA AncestorsStep ==
    ASSUME NEW tree \in Trees, NEW n \in Nodes
    PROVE  /\ tree[n] # None => tree[n] \in Dirs /\ tree[n] \in Ancestors(tree, n)
           /\ \A a \in Ancestors(tree, n) :
                 a # n => tree[n] \in Dirs /\ a \in Ancestors(tree, tree[n])
<1>1. n \in Dirs /\ tree[n] \in Dirs \cup {None} /\ None \notin Dirs
  BY NoneAssumption DEF Dirs, Trees
<1>2. tree[n] # None => tree[n] \in Dirs /\ tree[n] \in Ancestors(tree, n)
  BY <1>1, AncestorsLeast DEF UpClosed
<1>3. CASE tree[n] = None
  <2>1. UpClosed(tree, {n})
    BY <1>3 DEF UpClosed
  <2>2. Ancestors(tree, n) \subseteq {n}
    BY <1>1, <2>1, AncestorsLeast
  <2> QED
    BY <1>2, <2>2
<1>4. CASE tree[n] # None
  <2> DEFINE S == {n} \cup Ancestors(tree, tree[n])
  <2>1. tree[n] \in Dirs
    BY <1>1, <1>4
  <2>2. /\ Ancestors(tree, tree[n]) \subseteq Dirs /\ tree[n] \in Ancestors(tree, tree[n])
        /\ UpClosed(tree, Ancestors(tree, tree[n]))
    BY <2>1, AncestorsLeast
  <2>3. S \in SUBSET Dirs /\ n \in S /\ UpClosed(tree, S)
    BY <1>1, <2>2 DEF UpClosed
  <2>4. Ancestors(tree, n) \subseteq S
    BY <1>1, <2>3, AncestorsLeast
  <2> QED
    BY <1>2, <2>1, <2>4
<1> QED
  BY <1>3, <1>4

\* Nothing but itself is above the root.
LEMMA AncestorsRoot ==
    ASSUME NEW tree \in Trees
    PROVE  Ancestors(tree, Root) \subseteq {Root}
<1>1. Root \in Dirs /\ {Root} \in SUBSET Dirs /\ UpClosed(tree, {Root})
  BY NoneAssumption DEF Dirs, UpClosed
<1> QED
  BY <1>1, AncestorsLeast

\* Nothing that the root is above is above its own directory.
LEMMA Acyclic ==
    ASSUME NEW tree \in Trees, NEW n \in Nodes, tree[n] # None, Root \in Ancestors(tree, n)
    PROVE  n \notin Ancestors(tree, tree[n])
<1> SUFFICES ASSUME n \in Ancestors(tree, tree[n])
             PROVE  FALSE
  OBVIOUS
<1> DEFINE S == {a \in Dirs : a \in Ancestors(tree, n) /\ n \in Ancestors(tree, a)}
<1>1. n \in Dirs /\ n \in S
  BY AncestorsLeast DEF Dirs
<1>2. ASSUME NEW a \in S \cap Nodes
      PROVE  tree[a] \in S \cup {None}
  <2>1. CASE tree[a] = None
    BY <2>1
  <2>2. CASE tree[a] # None
    <3>1. tree[a] \in Dirs /\ tree[a] \in Ancestors(tree, a)
      BY <2>2, AncestorsStep
    <3>2. tree[a] \in Ancestors(tree, n)
      BY <1>1, <3>1, AncestorsTransitive
    <3>3. n \in Ancestors(tree, tree[a])
      BY AncestorsStep
    <3> QED
      BY <3>1, <3>2, <3>3
  <2> QED
    BY <2>1, <2>2
<1>3. Ancestors(tree, n) \subseteq S
  <2>1. S \in SUBSET Dirs /\ UpClosed(tree, S)
    BY <1>2 DEF UpClosed
  <2> QED
    BY <1>1, <2>1, AncestorsLeast
<1>4. n \in Ancestors(tree, Root)
  BY <1>3
<1> QED
  BY <1>4, AncestorsRoot, NoneAssumption

\* Of the children of a directory only one is above d.
LEMMA OneChildAbove ==
    ASSUME NEW tree \in Trees, IsTree(tree), NEW d \in Dirs, NEW p \in Dirs,
           NEW b \in Nodes, NEW c \in Nodes, tree[b] = p, tree[c] = p,
           b \in Ancestors(tree, d), c \in Ancestors(tree, d)
    PROVE  b = c
<1> SUFFICES ASSUME b # c
             PROVE  FALSE
  OBVIOUS
<1>1. /\ b \in Dirs /\ c \in Dirs /\ p # None
      /\ b \notin Ancestors(tree, p) /\ c \notin Ancestors(tree, p)
  BY Acyclic, NoneAssumption DEF IsTree, Dirs
<1> DEFINE S == {a \in Dirs : b \in Ancestors(tree, a) \/ a \in Ancestors(tree, b)}
<1>2. ASSUME NEW a \in S \cap Nodes
      PROVE  tree[a] \in S \cup {None}
  <2>1. CASE tree[a] = None
    BY <2>1
  <2>2. CASE tree[a] # None
    <3>1. tree[a] \in Dirs /\ tree[a] \in Ancestors(tree, a)
      BY <2>2, AncestorsStep
    <3>2. CASE a \in Ancestors(tree, b)
      BY <1>1, <3>1, <3>2, AncestorsTransitive
    <3>3. CASE b \in Ancestors(tree, a) /\ a # b
      BY <3>1, <3>3, AncestorsStep
    <3>4. b \in Ancestors(tree, b)
      BY <1>1, AncestorsLeast
    <3> QED
      BY <3>2, <3>3, <3>4
  <2> QED
    BY <2>1, <2>2
<1>3. c \in S
  <2>1. S \in SUBSET Dirs /\ UpClosed(tree, S) /\ d \in S
    BY <1>2 DEF UpClosed
  <2> QED
    BY <2>1, AncestorsLeast
<1>4. b \in Ancestors(tree, c) \/ c \in Ancestors(tree, b)
  BY <1>3
<1> QED
  BY <1>1, <1>4, AncestorsStep

\* What lock_rename returns: the child of either directory that is above the other.
LEMMA TrapAbove ==
    ASSUME NEW tree \in Trees, IsTree(tree), NEW p \in Dirs, NEW q \in Dirs, p # q,
           NEW n \in Nodes
    PROVE  /\ tree[n] = p /\ n \in Ancestors(tree, q) => Trap(tree, p, q) = n
           /\ tree[n] = q /\ n \in Ancestors(tree, p) => Trap(tree, p, q) = n
<1>1. ASSUME NEW r \in Dirs, NEW d \in Dirs, tree[n] = r, n \in Ancestors(tree, d)
      PROVE  d_ancestor(tree, r, d) = n
  <2> DEFINE above == {x \in Ancestors(tree, d) \cap Nodes : tree[x] = r}
  <2>1. n \in above /\ \A x \in above : x = n
    BY <1>1, OneChildAbove
  <2>2. (CHOOSE x \in above : TRUE) = n
    BY <2>1
  <2> QED
    BY <2>1, <2>2 DEF d_ancestor
<1>2. n # None /\ p # None /\ q # None
  BY NoneAssumption DEF Dirs
<1>3. ASSUME tree[n] = q, n \in Ancestors(tree, p)
      PROVE  Trap(tree, p, q) = n
  BY <1>1, <1>2, <1>3 DEF Trap
<1>4. ASSUME tree[n] = p, n \in Ancestors(tree, q)
      PROVE  Trap(tree, p, q) = n
  <2>1. d_ancestor(tree, p, q) = n
    BY <1>1, <1>4
  <2>2. d_ancestor(tree, q, p) = None
    <3> SUFFICES ASSUME d_ancestor(tree, q, p) # None
                 PROVE  FALSE
      OBVIOUS
    <3> DEFINE above == {x \in Ancestors(tree, p) \cap Nodes : tree[x] = q}
    <3>1. PICK k \in above : TRUE
      BY DEF d_ancestor
    <3>2. q \in Ancestors(tree, k)
      BY <1>2, <3>1, AncestorsStep
    <3>3. n \in Ancestors(tree, k)
      BY <1>4, <3>1, <3>2, AncestorsTransitive DEF Dirs
    <3>4. n \in Ancestors(tree, p)
      BY <3>1, <3>3, AncestorsTransitive
    <3> QED
      BY <1>2, <1>4, <3>4, Acyclic DEF IsTree
  <2> QED
    BY <1>2, <2>1, <2>2 DEF Trap
<1> QED
  BY <1>3, <1>4

\* With fewer nodes in place there is no more above anything.
LEMMA AncestorsShrink ==
    ASSUME NEW tree \in Trees, NEW new \in Trees,
           \A n \in Nodes : new[n] = tree[n] \/ new[n] = None, NEW d \in Dirs
    PROVE  Ancestors(new, d) \subseteq Ancestors(tree, d)
<1>1. UpClosed(new, Ancestors(tree, d))
  BY AncestorsLeast DEF UpClosed
<1> QED
  BY <1>1, AncestorsLeast

\* A tree without one of its leaves is a tree.
LEMMA Prune ==
    ASSUME NEW tree \in Trees, NEW new \in Trees, IsTree(tree), NEW v \in Nodes,
           \A n \in Nodes : tree[n] # v, new[v] = None,
           \A n \in Nodes : n # v => new[n] = tree[n]
    PROVE  IsTree(new)
<1> SUFFICES ASSUME NEW n \in Nodes, new[n] # None, NEW S \in SUBSET Dirs,
                    n \in S, UpClosed(new, S)
             PROVE  Root \in S
  BY DEF IsTree, Ancestors, Dirs
<1>1. n # v /\ Root \in Ancestors(tree, n) /\ n \in Dirs
  BY DEF IsTree, Dirs
<1>2. S \ {v} \in SUBSET Dirs /\ n \in S \ {v} /\ UpClosed(tree, S \ {v})
  BY <1>1 DEF UpClosed, Trees
<1> QED
  BY <1>1, <1>2, AncestorsLeast

\* A tree in which a node has been moved to a directory that it is not above is a tree.
LEMMA Graft ==
    ASSUME NEW tree \in Trees, NEW new \in Trees, IsTree(tree), NEW v \in Nodes,
           NEW d \in Dirs, v \notin Ancestors(tree, d), d # Root => tree[d] # None,
           new[v] = d, \A n \in Nodes : n # v => new[n] = tree[n]
    PROVE  IsTree(new)
<1> SUFFICES ASSUME NEW n \in Nodes, new[n] # None, NEW S \in SUBSET Dirs,
                    n \in S, UpClosed(new, S)
             PROVE  Root \in S
  BY DEF IsTree, Ancestors, Dirs
<1>1. CASE v \notin S
  <2>1. UpClosed(tree, S) /\ n \in Dirs /\ Root \in Ancestors(tree, n)
    BY <1>1 DEF UpClosed, IsTree, Dirs
  <2> QED
    BY <2>1, AncestorsLeast
<1>2. CASE v \in S
  <2> DEFINE A == Ancestors(tree, d)
  <2>1. A \subseteq Dirs /\ d \in A /\ UpClosed(tree, A)
    BY AncestorsLeast
  <2>2. d \in S
    BY <1>2, NoneAssumption DEF UpClosed
  <2>3. S \cap A \in SUBSET Dirs /\ d \in S \cap A /\ UpClosed(tree, S \cap A)
    BY <2>1, <2>2 DEF UpClosed
  <2>4. Root \in A
    BY <2>1 DEF IsTree, Dirs
  <2> QED
    BY <2>3, <2>4, AncestorsLeast
<1> QED
  BY <1>1, <1>2
-----------------------------------------------------------------------------
\* What the steps do to the records of the threads and to the locks

\* Goto changes where t is, and nothing else of any thread.
LEMMA GotoEffect ==
    ASSUME th \in [Threads -> Records], NEW t \in Threads, NEW l \in PCs, Goto(t, l)
    PROVE  /\ th' \in [Threads -> Records] /\ \A u \in Threads : u # t => th'[u] = th[u]
           /\ th'[t].pc = l /\ th'[t].op = th[t].op
           /\ th'[t].x = th[t].x /\ th'[t].y = th[t].y /\ th'[t].z = th[t].z
           /\ th'[t].p = th[t].p /\ th'[t].q = th[t].q
<1>1. th[t] \in Records
  OBVIOUS
<1>2. th' = [th EXCEPT ![t] = [th[t] EXCEPT !.pc = l]]
  BY DEF Goto
<1>3. [th[t] EXCEPT !.pc = l] \in Records
  BY <1>1 DEF Records
<1> QED
  BY <1>1, <1>2, <1>3 DEF Records

\* The record of a thread in no call is one of the records.
LEMMA IdleRecord == Idle \in Records /\ Idle.pc = "idle" /\ Idle.z = None
  BY DEF Idle, Records, PCs

\* Return ends the call of t and gives back what the VFS has locked for it, only that.
LEMMA ReturnEffect ==
    ASSUME th \in [Threads -> Records], umutex \in [Dirs -> Threads \cup {None}],
           NEW t \in Threads, Return(t)
    PROVE  /\ th' \in [Threads -> Records] /\ th'[t] = Idle
           /\ \A u \in Threads : u # t => th'[u] = th[u]
           /\ umutex' \in [Dirs -> Threads \cup {None}]
           /\ \A d \in Dirs : umutex'[d] = IF umutex[d] = t THEN None ELSE umutex[d]
           /\ urename' = IF urename = t THEN None ELSE urename
  BY IdleRecord DEF Return, Drop

\* Unlock gives back what t has locked in the lower tree, only that.
LEMMA UnlockEffect ==
    ASSUME lmutex \in [Dirs -> Threads \cup {None}], NEW t \in Threads, Unlock(t)
    PROVE  /\ lmutex' \in [Dirs -> Threads \cup {None}]
           /\ \A d \in Dirs : lmutex'[d] = IF lmutex[d] = t THEN None ELSE lmutex[d]
           /\ lrename' = IF lrename = t THEN None ELSE lrename
  BY DEF Unlock, Drop

Called(t, op, x, y, z, l, locks) ==
    /\ th[t].pc = "idle"
    /\ th' \in [Threads -> Records] /\ \A u \in Threads : u # t => th'[u] = th[u]
    /\ th'[t].pc = l /\ th'[t].op = op /\ th'[t].x = x /\ th'[t].y = y /\ th'[t].z = z
    /\ umutex' \in [Dirs -> Threads \cup {None}]
    /\ \A d \in locks : umutex[d] = None /\ umutex'[d] = t
    /\ \A d \in Dirs : umutex[d] # None => umutex'[d] = umutex[d]
    /\ UNCHANGED <<upper, lower, lmutex, lrename, moves>>

\* Call takes exactly the locks it is given, from nobody, and begins the call of t.
LEMMA CallEffect ==
    ASSUME th \in [Threads -> Records], umutex \in [Dirs -> Threads \cup {None}],
           NEW t \in Threads, NEW op \in Ops, NEW x \in Dirs, NEW y \in Dirs \cup {None},
           NEW z \in Nodes \cup {None}, NEW l \in PCs, NEW locks \in SUBSET Dirs,
           Call(t, op, x, y, z, l, locks)
    PROVE  Called(t, op, x, y, z, l, locks)
<1> DEFINE r1 == [Idle EXCEPT !.pc = l]
           r2 == [r1 EXCEPT !.op = op]
           r3 == [r2 EXCEPT !.x = x]
           r4 == [r3 EXCEPT !.y = y]
           r == [r4 EXCEPT !.z = z]
<1>1. r1 \in Records /\ r1.pc = l
  BY IdleRecord DEF Records
<1>2. r2 \in Records /\ r2.pc = l /\ r2.op = op
  BY <1>1 DEF Records
<1>3. r3 \in Records /\ r3.pc = l /\ r3.op = op /\ r3.x = x
  BY <1>2 DEF Records
<1>4. r4 \in Records /\ r4.pc = l /\ r4.op = op /\ r4.x = x /\ r4.y = y
  BY <1>3 DEF Records
<1>5. r \in Records /\ r.pc = l /\ r.op = op /\ r.x = x /\ r.y = y /\ r.z = z
  BY <1>4 DEF Records
<1>6. th' = [th EXCEPT ![t] = r]
  BY DEF Call
<1> HIDE DEF r
<1>7. /\ th' \in [Threads -> Records] /\ \A u \in Threads : u # t => th'[u] = th[u]
      /\ th'[t] = r
  BY <1>5, <1>6
<1>8. /\ umutex' \in [Dirs -> Threads \cup {None}]
      /\ \A d \in locks : umutex[d] = None /\ umutex'[d] = t
      /\ \A d \in Dirs : umutex[d] # None => umutex'[d] = umutex[d]
  BY DEF Call, Free, Take
<1>9. th[t].pc = "idle" /\ UNCHANGED <<upper, lower, lmutex, lrename, moves>>
  BY DEF Call, Busy, trees
<1> QED
  BY <1>5, <1>7, <1>8, <1>9 DEF Called

\* dget_parent finds the lower directories of a call.
LEMMA ParentEffect ==
    ASSUME th \in [Threads -> Records], lower \in Trees,
           NEW t \in Threads, dget_parent(t), th[t].x \in Dirs,
           th[t].op # "entry" => th[t].x \in Nodes
    PROVE  /\ th' \in [Threads -> Records] /\ \A u \in Threads : u # t => th'[u] = th[u]
           /\ th'[t].op = th[t].op
           /\ th'[t].x = th[t].x /\ th'[t].y = th[t].y /\ th'[t].z = th[t].z
           /\ th'[t].p = IF th[t].op = "entry" THEN th[t].x ELSE lower[th[t].x]
           /\ th'[t].q = IF th[t].z = None THEN th[t].y ELSE lower[th[t].z]
           /\ th'[t].pc = IF th[t].op = "rename" /\ th'[t].p # th'[t].q THEN "order" ELSE "lock"
           /\ th[t].pc = "parent"
           /\ UNCHANGED <<upper, lower, umutex, urename, lmutex, lrename, moves>>
<1> DEFINE p == IF th[t].op = "entry" THEN th[t].x ELSE lower[th[t].x]
           q == IF th[t].z = None THEN th[t].y ELSE lower[th[t].z]
           l == IF th[t].op = "rename" /\ p # q THEN "order" ELSE "lock"
<1>1. p \in Dirs \cup {None} /\ q \in Dirs \cup {None} /\ l \in PCs
  BY DEF Records, Trees, PCs
<1>2. th' = [th EXCEPT ![t].p = p, ![t].q = q, ![t].pc = l] /\ th[t].pc = "parent"
  BY DEF dget_parent
<1> HIDE DEF p, q, l
<1> DEFINE r1 == [th[t] EXCEPT !.p = p]
           r2 == [r1 EXCEPT !.q = q]
           r == [r2 EXCEPT !.pc = l]
<1>3. /\ r1 \in Records /\ r1.p = p /\ r1.op = th[t].op /\ r1.x = th[t].x
      /\ r1.y = th[t].y /\ r1.z = th[t].z
  BY <1>1 DEF Records
<1>4. /\ r2 \in Records /\ r2.p = p /\ r2.q = q /\ r2.op = th[t].op /\ r2.x = th[t].x
      /\ r2.y = th[t].y /\ r2.z = th[t].z
  BY <1>1, <1>3 DEF Records
<1>5. /\ r \in Records /\ r.p = p /\ r.q = q /\ r.pc = l /\ r.op = th[t].op /\ r.x = th[t].x
      /\ r.y = th[t].y /\ r.z = th[t].z
  BY <1>1, <1>4 DEF Records
<1>6. th' = [th EXCEPT ![t] = r]
  BY <1>2
<1> HIDE DEF r
<1>7. th' \in [Threads -> Records] /\ (\A u \in Threads : u # t => th'[u] = th[u]) /\ th'[t] = r
  BY <1>5, <1>6
<1>8. UNCHANGED <<upper, lower, umutex, urename, lmutex, lrename, moves>>
  BY DEF dget_parent, trees, umuts
<1> QED
  BY <1>2, <1>5, <1>7, <1>8 DEF p, q, l

\* x is moved or removed, and what it replaces is removed.
LEMMA MovedEffect ==
    ASSUME NEW tree \in Trees, NEW x \in Nodes, NEW d \in Dirs \cup {None}, NEW z
    PROVE  /\ Moved(tree, x, d, z) \in Trees /\ Moved(tree, x, d, z)[x] = d
           /\ \A n \in Nodes : n # x /\ n # z => Moved(tree, x, d, z)[n] = tree[n]
           /\ z \in Nodes /\ z # x => Moved(tree, x, d, z)[z] = None
  BY DEF Moved, Trees

\* The type invariant, in the terms of this module.
LEMMA Types ==
    ASSUME TypeOK
    PROVE  /\ upper \in Trees /\ lower \in Trees /\ th \in [Threads -> Records]
           /\ umutex \in [Dirs -> Threads \cup {None}] /\ lmutex \in [Dirs -> Threads \cup {None}]
  BY DEF TypeOK, Trees, Records

\* The nodes are the directories but the root, and None is neither.
LEMMA Sets == Nodes \subseteq Dirs /\ None \notin Dirs /\ None \notin Nodes /\ Root \in Dirs
              /\ Root \notin Nodes /\ Dirs = Nodes \cup {Root}
  BY NoneAssumption DEF Dirs

\* A call begins with the locks and the guarantees of the VFS.
Entered(t) ==
    /\ th[t].pc = "idle" /\ UNCHANGED <<upper, lower, lmutex, lrename, moves>>
    /\ th' \in [Threads -> Records] /\ \A u \in Threads : u # t => th'[u] = th[u]
    /\ umutex' \in [Dirs -> Threads \cup {None}]
    /\ \A d \in Dirs : umutex[d] # None => umutex'[d] = umutex[d]
    /\ urename' = urename \/ (urename = None /\ urename' = t)
    /\ th'[t].x \in Dirs /\ th'[t].op \in Ops
    /\ th'[t].pc = IF th'[t].op = "self" THEN "lock" ELSE "parent"
    /\ th'[t].op = "entry" => umutex'[th'[t].x] = t
    /\ th'[t].op \in Moving =>
          /\ th'[t].x \in Nodes /\ upper[th'[t].x] # None
          /\ umutex[upper[th'[t].x]] = None /\ umutex'[upper[th'[t].x]] = t
    /\ th'[t].op \in Removing =>
          th'[t].y = None /\ umutex[th'[t].x] = None /\ umutex'[th'[t].x] = t
    /\ th'[t].op = "rename" =>
          /\ th'[t].y \in Dirs /\ umutex[th'[t].y] = None /\ umutex'[th'[t].y] = t
          /\ th'[t].y # Root => upper[th'[t].y] # None
          /\ upper[th'[t].x] # th'[t].y => urename = None /\ urename' = t
          /\ Trap(upper, upper[th'[t].x], th'[t].y) \notin {th'[t].x, th'[t].z} \ {None}
    /\ th'[t].z # None =>
          /\ th'[t].op = "rename" /\ th'[t].z \in Nodes /\ th'[t].z # th'[t].x
          /\ upper[th'[t].z] = th'[t].y
          /\ umutex[th'[t].z] = None /\ umutex'[th'[t].z] = t

\* Every operation that the VFS calls begins that way.
LEMMA EnterEffect ==
    ASSUME TypeOK, NEW t \in Threads, Enter(t)
    PROVE  Entered(t)
<1>1. ASSUME NEW op \in Ops, NEW x \in Dirs, NEW y \in Dirs \cup {None},
             NEW z \in Nodes \cup {None}, NEW l \in PCs, NEW locks \in SUBSET Dirs,
             Call(t, op, x, y, z, l, locks)
      PROVE  Called(t, op, x, y, z, l, locks)
  BY <1>1, Types, CallEffect, Zenon
<1>0. /\ "entry" \in Ops /\ "unlink" \in Ops /\ "rmdir" \in Ops /\ "self" \in Ops
      /\ "rename" \in Ops /\ "parent" \in PCs /\ "lock" \in PCs
      /\ None \in Dirs \cup {None} /\ None \in Nodes \cup {None}
  BY DEF Ops, PCs
<1>2. ASSUME NEW d \in Dirs, NewEntry(t, d)
      PROVE  Entered(t)
  <2>1. Call(t, "entry", d, None, None, "parent", {d}) /\ UNCHANGED urename
    BY <1>2 DEF NewEntry
  <2>2. Called(t, "entry", d, None, None, "parent", {d})
    BY <1>0, <1>1, <2>1
  <2> QED
    BY <1>0, <2>1, <2>2 DEF Called, Entered, Moving, Removing
<1>3. ASSUME NEW x \in Nodes, NEW op \in Removing, UNCHANGED urename, upper[x] # None,
             Call(t, op, x, None, None, "parent", {x, upper[x]})
      PROVE  Entered(t)
  <2>1. upper[x] \in Dirs /\ x \in Dirs /\ op \in Ops
    BY <1>3, Types, Sets DEF Trees, Removing, Ops
  <2>2. Called(t, op, x, None, None, "parent", {x, upper[x]})
    <3>1. {x, upper[x]} \in SUBSET Dirs
      BY <2>1
    <3> QED
      BY <1>0, <1>1, <1>3, <2>1, <3>1, Zenon
  <2> QED
    BY <1>3, <2>1, <2>2 DEF Called, Entered, Moving, Removing
<1>4. ASSUME NEW x \in Nodes, teadfs_unlink(t, x) \/ teadfs_rmdir(t, x)
      PROVE  Entered(t)
  BY <1>3, <1>4 DEF teadfs_unlink, teadfs_rmdir, Removing
<1>5. ASSUME NEW x \in Dirs, NEW locks \in SUBSET Dirs, Self(t, x, locks)
      PROVE  Entered(t)
  <2>1. Call(t, "self", x, None, None, "lock", locks) /\ UNCHANGED urename
    BY <1>5 DEF Self
  <2>2. Called(t, "self", x, None, None, "lock", locks)
    BY <1>0, <1>1, <2>1
  <2> QED
    BY <1>0, <2>1, <2>2 DEF Called, Entered, Moving, Removing
<1>6. ASSUME NEW d \in Dirs, \/ teadfs_lookup(t, d) \/ teadfs_setattr(t, d)
                              \/ teadfs_removexattr(t, d) \/ teadfs_getxattr(t, d)
                              \/ teadfs_listxattr(t, d)
      PROVE  Entered(t)
  BY <1>5, <1>6 DEF teadfs_lookup, teadfs_setattr, teadfs_removexattr, teadfs_getxattr,
     teadfs_listxattr
<1>7. ASSUME NEW x \in Nodes, NEW y \in Dirs, NEW z \in Nodes \cup {None},
             teadfs_rename(t, x, y, z)
      PROVE  Entered(t)
  <2> DEFINE locks == {upper[x], y} \cup ({z} \ {None})
  <2>1. /\ upper[x] \in Dirs /\ upper[x] # None /\ x \in Dirs /\ y \in Dirs \cup {None}
        /\ locks \in SUBSET Dirs
    BY <1>7, Types, Sets DEF teadfs_rename, Trees
  <2>2. Call(t, "rename", x, y, z, "parent", locks)
    BY <1>7 DEF teadfs_rename
  <2>3. Called(t, "rename", x, y, z, "parent", locks)
    BY <1>0, <1>1, <2>1, <2>2, Zenon
  <2>4. /\ y # Root => upper[y] # None
        /\ z # None => upper[z] = y /\ z # x
        /\ upper[x] # y => urename = None
        /\ urename' = IF upper[x] = y THEN urename ELSE t
        /\ Trap(upper, upper[x], y) \notin {x, z} \ {None}
    BY <1>7 DEF teadfs_rename
  <2>5. /\ umutex[upper[x]] = None /\ umutex'[upper[x]] = t
        /\ umutex[y] = None /\ umutex'[y] = t
        /\ z # None => umutex[z] = None /\ umutex'[z] = t
    BY <2>3 DEF Called
  <2> HIDE DEF locks
  <2> QED
    BY <1>0, <2>1, <2>3, <2>4, <2>5 DEF Called, Entered, Moving, Removing
<1> QED
  BY <1>2, <1>4, <1>6, <1>7 DEF Enter

\* The other kinds of step: one that changes locals and lower locks only, ...
Quiet(t) ==
    /\ th[t].pc \notin {"idle", "done"} /\ th'[t].pc \notin {"idle", "done"}
    /\ th' \in [Threads -> Records] /\ \A u \in Threads : u # t => th'[u] = th[u]
    /\ th'[t].op = th[t].op
    /\ th'[t].x = th[t].x /\ th'[t].y = th[t].y /\ th'[t].z = th[t].z
    /\ UNCHANGED <<upper, lower, umutex, urename, moves>>

\* ... the return of a call, with nothing done, ...
Freed(t) ==
    /\ th' \in [Threads -> Records] /\ \A u \in Threads : u # t => th'[u] = th[u]
    /\ th'[t] = Idle /\ th'[t].pc = "idle"
    /\ umutex' \in [Dirs -> Threads \cup {None}]
    /\ \A d \in Dirs : umutex'[d] = IF umutex[d] = t THEN None ELSE umutex[d]
    /\ urename' = IF urename = t THEN None ELSE urename

Returned(t) ==
    /\ th[t].pc \notin {"idle", "done"} /\ Freed(t) /\ UNCHANGED <<upper, lower, moves>>

\* ... a removal or a rename in the lower tree, ...
Acted(t) ==
    /\ th[t].pc = "act" /\ th[t].op \in Moving /\ IsIn(t) /\ VictimFree(t)
    /\ th' \in [Threads -> Records] /\ \A u \in Threads : u # t => th'[u] = th[u]
    /\ th'[t].pc = "done" /\ th'[t].op = th[t].op
    /\ th'[t].x = th[t].x /\ th'[t].y = th[t].y /\ th'[t].z = th[t].z
    /\ lower' \in Trees /\ \A n \in Nodes \ Mine(t) : lower'[n] = lower[n]
    /\ \A n \in Gone(t) : lower'[n] = None /\ \A c \in Nodes : lower[c] # n
    /\ th[t].op = "rename" => lower'[th[t].x] = th[t].q
    /\ UNCHANGED <<upper, umutex, urename, moves>>

\* ... the same in the upper tree, and the return of the call.
Finished(t) ==
    /\ th[t].pc = "done" /\ Freed(t)
    /\ upper' \in Trees /\ \A n \in Nodes \ Mine(t) : upper'[n] = upper[n]
    /\ upper'[th[t].x] = th[t].y /\ (th[t].z # None => upper'[th[t].z] = None)
    /\ UNCHANGED <<lower, moves>>

\* Return is the end of a call, as the kinds of step below have it.
LEMMA ReturnFreed ==
    ASSUME TypeOK, NEW t \in Threads, Return(t)
    PROVE  Freed(t)
  BY Types, ReturnEffect, IdleRecord, Zenon DEF Freed

\* Looking for the directories and locking them are quiet, and so is the oops.
LEMMA QuietSteps ==
    ASSUME TypeOK, CallInv, LocalInv, NEW t \in Threads,
           \/ dget_parent(t) \/ LockOne(t) \/ LockOrder(t) \/ LockFirst(t) \/ LockSecond(t)
           \/ ActBug(t)
    PROVE  Quiet(t)
<1>1. CASE dget_parent(t)
  <2>1. th[t].pc = "parent"
    BY <1>1 DEF dget_parent
  <2>2. th[t].x \in Dirs /\ (th[t].op # "entry" => th[t].x \in Nodes)
    BY <2>1 DEF CallInv, CallOf, LocalInv, LocalOf, Busy, Ops, Moving, Removing
  <2> QED
    BY <1>1, <2>1, <2>2, Types, ParentEffect DEF Quiet
<1>2. ASSUME NEW l \in PCs \ {"idle", "done"}, Goto(t, l), th[t].pc \notin {"idle", "done"},
             UNCHANGED <<upper, lower, umutex, urename, moves>>
      PROVE  Quiet(t)
  BY <1>2, Types, GotoEffect DEF Quiet
<1>3. CASE LockOne(t)
  BY <1>2, <1>3 DEF LockOne, PCs, trees, umuts
<1>4. CASE LockOrder(t)
  BY <1>2, <1>4 DEF LockOrder, PCs, trees, umuts
<1>5. CASE LockFirst(t)
  BY <1>2, <1>5 DEF LockFirst, PCs, trees, umuts
<1>6. CASE LockSecond(t)
  BY <1>2, <1>6 DEF LockSecond, PCs, trees, umuts
<1>7. CASE ActBug(t)
  BY <1>2, <1>7 DEF ActBug, PCs, trees, umuts
<1> QED
  BY <1>1, <1>3, <1>4, <1>5, <1>6, <1>7

\* The check of a rename passes quietly or returns.
LEMMA CheckStep ==
    ASSUME TypeOK, NEW t \in Threads, CheckTrap(t)
    PROVE  /\ Quiet(t) /\ th'[t].pc = "act" /\ th'[t].p = th[t].p /\ th'[t].q = th[t].q
              /\ Trap(lower, th[t].p, th[t].q) \notin {th[t].x, th[t].z} \ {None}
           \/ /\ Returned(t)
              /\ Trap(lower, th[t].p, th[t].q) \in {th[t].x, th[t].z} \ {None}
<1>1. CASE Trap(lower, th[t].p, th[t].q) \in {th[t].x, th[t].z} \ {None}
  BY <1>1, ReturnFreed DEF CheckTrap, Returned, trees
<1>2. CASE Trap(lower, th[t].p, th[t].q) \notin {th[t].x, th[t].z} \ {None}
  <2>1. /\ Goto(t, "act") /\ UNCHANGED <<upper, lower, umutex, urename, moves>>
        /\ th[t].pc = "trap" /\ "act" \in PCs
    BY <1>2 DEF CheckTrap, trees, umuts, PCs
  <2> QED
    BY <1>2, <2>1, Types, GotoEffect DEF Quiet
<1> QED
  BY <1>1, <1>2

\* vfs_unlink, vfs_rmdir and vfs_rename are steps in the lower tree.
LEMMA ActSteps ==
    ASSUME TypeOK, CallInv, LocalInv, NEW t \in Threads, ActRemove(t) \/ ActRename(t)
    PROVE  Acted(t)
<1>1. /\ th[t].pc = "act" /\ th[t].op \in Moving /\ IsIn(t) /\ VictimFree(t)
      /\ Goto(t, "done") /\ UNCHANGED <<upper, umutex, urename, moves>>
  BY DEF ActRemove, ActRename, Moving, Removing, umuts
<1>2. /\ th' \in [Threads -> Records] /\ \A u \in Threads : u # t => th'[u] = th[u]
      /\ th'[t].pc = "done" /\ th'[t].op = th[t].op
      /\ th'[t].x = th[t].x /\ th'[t].y = th[t].y /\ th'[t].z = th[t].z
  <2>1. "done" \in PCs
    BY DEF PCs
  <2> QED
    BY <1>1, <2>1, Types, GotoEffect
<1>3. Busy(t) /\ th[t].x \in Nodes /\ lower \in Trees
  BY <1>1, Types DEF CallInv, CallOf, Busy
<1>4. CASE ActRemove(t)
  <2>1. /\ lower' = [lower EXCEPT ![th[t].x] = None] /\ th[t].op \in Removing
        /\ \A c \in Nodes : lower[c] # th[t].x
    BY <1>4 DEF ActRemove, Removing
  <2>2. th[t].z = None /\ th[t].op # "rename"
    BY <1>3, <2>1 DEF CallInv, CallOf, Removing
  <2>3. /\ lower' \in Trees /\ \A n \in Nodes \ Mine(t) : lower'[n] = lower[n]
        /\ \A n \in Gone(t) : lower'[n] = None /\ \A c \in Nodes : lower[c] # n
    BY <1>1, <1>3, <2>1, <2>2, Sets DEF Trees, Mine, Gone, Moving
  <2> QED
    BY <1>1, <1>2, <2>2, <2>3 DEF Acted
<1>5. CASE ActRename(t)
  <2>1. /\ lower' = Moved(lower, th[t].x, th[t].q, th[t].z) /\ th[t].op = "rename"
        /\ th[t].z # None => \A c \in Nodes : lower[c] # th[t].z
    BY <1>5 DEF ActRename
  <2>2. th[t].q \in Dirs /\ (th[t].z # None => th[t].z # th[t].x)
    BY <1>1, <1>3, <2>1 DEF CallInv, CallOf, LocalInv, LocalOf
  <2>3. /\ lower' \in Trees /\ lower'[th[t].x] = th[t].q
        /\ \A n \in Nodes : n # th[t].x /\ n # th[t].z => lower'[n] = lower[n]
        /\ th[t].z \in Nodes /\ th[t].z # th[t].x => lower'[th[t].z] = None
    <3>1. th[t].q \in Dirs \cup {None}
      BY <2>2
    <3> QED
      BY <1>3, <2>1, <3>1, MovedEffect
  <2>4. /\ \A n \in Nodes \ Mine(t) : lower'[n] = lower[n]
        /\ \A n \in Gone(t) : lower'[n] = None /\ \A c \in Nodes : lower[c] # n
    BY <1>1, <1>3, <2>1, <2>2, <2>3, Sets DEF Mine, Gone, Removing
  <2> QED
    BY <1>1, <1>2, <2>1, <2>3, <2>4 DEF Acted
<1> QED
  BY <1>4, <1>5

\* Done is a step in the upper tree.
LEMMA DoneStep ==
    ASSUME TypeOK, CallInv, LocalInv, NEW t \in Threads, Done(t)
    PROVE  Finished(t)
<1>1. /\ th[t].pc = "done" /\ Freed(t) /\ UNCHANGED <<lower, moves>>
      /\ upper' = Moved(upper, th[t].x, th[t].y, th[t].z)
  BY ReturnFreed DEF Done
<1>2. /\ Busy(t) /\ th[t].op \in Moving /\ th[t].x \in Nodes /\ upper \in Trees
      /\ th[t].y \in Dirs \cup {None} /\ th[t].z \in Nodes \cup {None}
      /\ th[t].z # None => th[t].z # th[t].x
  BY <1>1, Types DEF CallInv, CallOf, LocalInv, LocalOf, Busy, Records
<1>3. /\ upper' \in Trees /\ upper'[th[t].x] = th[t].y
      /\ \A n \in Nodes : n # th[t].x /\ n # th[t].z => upper'[n] = upper[n]
      /\ th[t].z \in Nodes /\ th[t].z # th[t].x => upper'[th[t].z] = None
  <2>1. th[t].y \in Dirs \cup {None} /\ th[t].x \in Nodes /\ upper \in Trees
    BY <1>2
  <2>2. upper' = Moved(upper, th[t].x, th[t].y, th[t].z)
    BY <1>1
  <2> QED
    BY <2>1, <2>2 DEF Moved, Trees
<1>4. \A n \in Nodes \ Mine(t) : upper'[n] = upper[n]
  BY <1>2, <1>3 DEF Mine
<1> QED
  BY <1>1, <1>2, <1>3, <1>4 DEF Finished

\* A lower operation that moves nothing, or fails, is a return.
LEMMA ElseStep ==
    ASSUME TypeOK, NEW t \in Threads, ActElse(t)
    PROVE  Returned(t)
  BY ReturnFreed DEF ActElse, Returned, trees

\* A node is moved in the lower tree by somebody else.
Displaced(x, d) ==
    /\ x \in Nodes /\ d \in Dirs /\ lower[x] # None /\ (d # Root => lower[d] # None)
    /\ x \notin Ancestors(lower, d) /\ lrename = None
    /\ lower' \in Trees /\ lower'[x] = d /\ \A n \in Nodes : n # x => lower'[n] = lower[n]
    /\ moves' # 0 /\ moves' \in 0 .. MaxMoves
    /\ UNCHANGED <<upper, umutex, urename, lmutex, lrename, th>>

\* A direct move is such a step.
LEMMA DirectStep ==
    ASSUME TypeOK, NEW m \in Direct, MoveDirectly(m[1], m[2])
    PROVE  Displaced(m[1], m[2])
<1>1. m[1] \in Nodes /\ m[2] \in Dirs
  BY BoundAssumption
<1>2. lower' \in Trees /\ lower'[m[1]] = m[2] /\ \A n \in Nodes : n # m[1] => lower'[n] = lower[n]
  BY <1>1, Types DEF MoveDirectly, Trees
<1>3. moves' # 0 /\ moves' \in 0 .. MaxMoves
  BY BoundAssumption DEF MoveDirectly, TypeOK
<1> QED
  BY <1>1, <1>2, <1>3 DEF MoveDirectly, Displaced, umuts

\* Every step is of one of these kinds.
LEMMA Kinds ==
    ASSUME TypeOK, CallInv, LocalInv, Next
    PROVE  \/ \E t \in Threads : \/ Entered(t) \/ Quiet(t) \/ Returned(t) \/ Acted(t)
                                 \/ Finished(t)
           \/ \E m \in Direct : Displaced(m[1], m[2])
<1>1. ASSUME NEW t \in Threads, Step(t)
      PROVE  Quiet(t) \/ Returned(t) \/ Acted(t) \/ Finished(t)
  BY <1>1, QuietSteps, CheckStep, ActSteps, DoneStep, ElseStep DEF Step
<1> QED
  BY <1>1, EnterEffect, DirectStep DEF Next
-----------------------------------------------------------------------------
\* What the calls own

\* What a call moves or removes is in a directory that the VFS has locked for it.
LEMMA MineLocked ==
    ASSUME TypeOK, CallInv, NEW t \in Threads, NEW n \in Mine(t)
    PROVE  n \in Nodes /\ Busy(t) /\ upper[n] \in Dirs /\ umutex[upper[n]] = t
<1>1. n \in Nodes /\ Busy(t) /\ (n = th[t].z \/ (n = th[t].x /\ th[t].op \in Moving))
  BY DEF Mine
<1>2. CallOf(t) /\ upper[n] \in Dirs \cup {None}
  BY <1>1, Types DEF CallInv, Trees
<1> QED
  BY <1>1, <1>2, Sets DEF CallOf

\* What a call removes is locked for it.
LEMMA GoneLocked ==
    ASSUME CallInv, NEW t \in Threads, NEW n \in Gone(t)
    PROVE  n \in Mine(t) /\ umutex[n] = t
<1>1. n \in Nodes /\ Busy(t) /\ (n = th[t].z \/ (n = th[t].x /\ th[t].op \in Removing))
  BY DEF Gone
<1>2. CallOf(t)
  BY <1>1 DEF CallInv
<1> QED
  BY <1>1, <1>2, Sets DEF CallOf, Mine, Moving

\* Two calls never move or remove the same node.
LEMMA Separate ==
    ASSUME TypeOK, CallInv, NEW t \in Threads, NEW u \in Threads, t # u
    PROVE  \A n \in Mine(t) : n \notin Mine(u)
  BY MineLocked

\* They are the same as long as the call is.
LEMMA MineFrame ==
    ASSUME NEW t \in Threads, Busy(t)' <=> Busy(t), th'[t].op = th[t].op, th'[t].x = th[t].x,
           th'[t].z = th[t].z
    PROVE  Mine(t)' = Mine(t) /\ Gone(t)' = Gone(t)
  BY DEF Mine, Gone

\* They are the same for a thread that takes no step.
LEMMA MineOthers ==
    ASSUME NEW t \in Threads, th'[t] = th[t]
    PROVE  Mine(t)' = Mine(t) /\ Gone(t)' = Gone(t)
  BY MineFrame DEF Busy

\* What the VFS guarantees a call survives the steps of every thread.
LEMMA CallStep ==
    ASSUME TypeOK, CallInv, LocalInv, Next
    PROVE  CallInv'
<1> SUFFICES ASSUME NEW u \in Threads, Busy(u)'
             PROVE  CallOf(u)'
  BY DEF CallInv
<1>0. u # None
  BY NoneAssumption
<1>1. ASSUME th'[u] = th[u]
      PROVE  CallOf(u) /\ (th[u].op \in Moving => th[u].x \in Mine(u))
             /\ (th[u].z # None => th[u].z \in Mine(u))
             /\ th[u].z \in Nodes \cup {None}
  BY <1>1, Types DEF Busy, CallInv, CallOf, Mine, Records
<1>2. ASSUME NEW t \in Threads, Entered(t)
      PROVE  CallOf(u)'
  <2>1. CASE u = t
    BY <1>2, <2>1 DEF Entered, CallOf
  <2>2. CASE u # t
    <3>1. th'[u] = th[u]
      BY <1>2, <2>2 DEF Entered
    <3>2. /\ \A d \in Dirs : umutex[d] = u => umutex'[d] = u
          /\ urename = u => urename' = u
          /\ upper' = upper
      BY <1>0, <1>2 DEF Entered
    <3>3. upper \in Trees
      BY Types
    <3> QED
      BY <1>1, <3>1, <3>2, <3>3, Sets DEF CallOf, Trees, Moving
  <2> QED
    BY <2>1, <2>2
<1>3. ASSUME NEW t \in Threads, Quiet(t) \/ Acted(t)
      PROVE  CallOf(u)'
  <2>1. /\ th'[u].x = th[u].x /\ th'[u].y = th[u].y /\ th'[u].z = th[u].z /\ th'[u].op = th[u].op
        /\ UNCHANGED <<upper, umutex, urename>> /\ Busy(u)
    BY <1>3 DEF Quiet, Acted, Busy
  <2>2. CallOf(u)
    BY <2>1 DEF CallInv
  <2> QED
    BY <2>1, <2>2 DEF CallOf
<1>4. ASSUME NEW t \in Threads, Freed(t)
      PROVE  /\ th'[u] = th[u] /\ u # t
             /\ \A d \in Dirs : umutex[d] = u => umutex'[d] = u
             /\ urename = u => urename' = u
  BY <1>4 DEF Freed, Busy
<1>5. ASSUME NEW t \in Threads, Returned(t)
      PROVE  CallOf(u)'
  <2>1. Freed(t) /\ upper' = upper
    BY <1>5 DEF Returned
  <2> QED
    BY <1>1, <1>4, <2>1, Types, Sets DEF CallOf, Trees, Moving
<1>6. ASSUME NEW t \in Threads, Finished(t)
      PROVE  CallOf(u)'
  <2>1. Freed(t)
    BY <1>6 DEF Finished
  <2>2. \A n \in Mine(u) : upper'[n] = upper[n]
    BY <1>4, <1>6, <2>1, Separate, MineLocked DEF Finished
  <2>3. CallOf(u) /\ (th[u].op \in Moving => upper'[th[u].x] = upper[th[u].x])
        /\ (th[u].z # None => upper'[th[u].z] = upper[th[u].z])
    BY <1>1, <1>4, <2>1, <2>2
  <2> QED
    BY <1>1, <1>4, <2>1, <2>3, Types, Sets DEF CallOf, Trees, Moving
<1>7. ASSUME NEW m \in Direct, Displaced(m[1], m[2])
      PROVE  CallOf(u)'
  BY <1>1, <1>7 DEF Displaced, CallOf
<1> QED
  BY <1>2, <1>3, <1>5, <1>6, <1>7, Kinds
-----------------------------------------------------------------------------
\* Locals and lower locks

\* A step of t leaves what the others have locked in the lower tree.
Kept(t) ==
    /\ lmutex' \in [Dirs -> Threads \cup {None}] /\ lrename' \in Threads \cup {None}
    /\ \A u \in Threads : u # t =>
          /\ th'[u] = th[u] /\ (lrename' = u <=> lrename = u)
          /\ \A d \in Dirs : lmutex'[d] = u <=> lmutex[d] = u

\* So does every step of every operation.
LEMMA KeptSteps ==
    ASSUME TypeOK, CallInv, LocalInv, NEW t \in Threads, Enter(t) \/ Step(t)
    PROVE  Kept(t)
<1>0. /\ lmutex \in [Dirs -> Threads \cup {None}] /\ lrename \in Threads \cup {None}
      /\ None \notin Threads
  BY NoneAssumption DEF TypeOK
<1>1. ASSUME NEW d \in Dirs, lmutex[d] = None, lmutex' = [lmutex EXCEPT ![d] = t], Quiet(t),
             UNCHANGED lrename
      PROVE  Kept(t)
  BY <1>0, <1>1 DEF Quiet, Kept
<1>2. CASE Enter(t)
  BY <1>0, <1>2, EnterEffect DEF Entered, Kept
<1>3. CASE dget_parent(t)
  BY <1>0, <1>3, QuietSteps DEF dget_parent, Quiet, Kept
<1>4. CASE LockOne(t)
  <2>1. th[t].pc = "lock" /\ CallOf(t) /\ LocalOf(t)
    BY <1>4 DEF LockOne, CallInv, LocalInv, Busy
  <2>2. th[t].x \in Dirs /\ (th[t].op # "self" => th[t].p \in Dirs)
    BY <2>1 DEF CallOf, LocalOf
  <2> QED
    BY <1>1, <1>4, <2>2, QuietSteps DEF LockOne
<1>5. CASE LockOrder(t)
  <2>1. Quiet(t) /\ lrename' = t /\ lrename = None /\ UNCHANGED lmutex
    BY <1>5, QuietSteps DEF LockOrder
  <2> QED
    BY <1>0, <2>1 DEF Quiet, Kept
<1>6. CASE LockFirst(t) \/ LockSecond(t)
  <2>1. th[t].p \in Dirs /\ th[t].q \in Dirs
    BY <1>6 DEF LockFirst, LockSecond, LocalInv, LocalOf, Ordering
  <2> QED
    BY <1>1, <1>6, <2>1, QuietSteps DEF LockFirst, LockSecond
<1>7. CASE CheckTrap(t)
  <2>1. UNCHANGED <<lmutex, lrename>> /\ \A u \in Threads : u # t => th'[u] = th[u]
    BY <1>7, CheckStep DEF CheckTrap, Quiet, Returned, Freed
  <2> QED
    BY <1>0, <2>1 DEF Kept
<1>8. CASE ActElse(t) \/ ActRemove(t) \/ ActRename(t)
  <2>1. Unlock(t) /\ \A u \in Threads : u # t => th'[u] = th[u]
    BY <1>8, ElseStep, ActSteps DEF ActElse, ActRemove, ActRename, Returned, Freed, Acted
  <2> QED
    BY <1>0, <2>1, UnlockEffect DEF Kept
<1>9. CASE ActBug(t)
  BY <1>0, <1>9, QuietSteps DEF ActBug, Quiet, Kept
<1>10. CASE Done(t)
  BY <1>0, <1>10, DoneStep DEF Done, Finished, Freed, Kept
<1> QED
  BY <1>2, <1>3, <1>4, <1>5, <1>6, <1>7, <1>8, <1>9, <1>10 DEF Step

\* What a call works on is in the lower tree when it looks for the directories.
LEMMA ParentsFound ==
    ASSUME TypeOK, CallInv, LocalInv, AliveInv, NEW t \in Threads, dget_parent(t)
    PROVE  /\ th'[t].p \in Dirs /\ (th[t].op = "rename" => th'[t].q \in Dirs)
           /\ th'[t].p = IF th[t].op = "entry" THEN th[t].x ELSE lower[th[t].x]
           /\ th'[t].q = IF th[t].z = None THEN th[t].y ELSE lower[th[t].z]
           /\ th'[t].pc = IF th[t].op = "rename" /\ th'[t].p # th'[t].q THEN "order" ELSE "lock"
           /\ th[t].pc = "parent" /\ UNCHANGED <<lmutex, lrename>>
<1>1. th[t].pc = "parent" /\ CallOf(t) /\ LocalOf(t) /\ Busy(t) /\ th[t].z \in Nodes \cup {None}
  BY Types DEF dget_parent, CallInv, LocalInv, Busy, Records
<1>2. th[t].x \in Dirs /\ (th[t].op # "entry" => th[t].x \in Nodes /\ th[t].op \in Moving)
  BY <1>1 DEF CallOf, LocalOf, Ops, Moving, Removing
<1>3. \A n \in Mine(t) : lower[n] # None
  BY <1>1 DEF AliveInv, AliveOf
<1>4. /\ th[t].op # "entry" => th[t].x \in Mine(t)
      /\ th[t].z # None => th[t].z \in Mine(t)
  BY <1>1, <1>2 DEF Mine
<1>5. /\ th[t].op # "entry" => lower[th[t].x] \in Dirs
      /\ th[t].z # None => lower[th[t].z] \in Dirs
  BY <1>1, <1>2, <1>3, <1>4, Types DEF Trees
<1>6. th[t].op = "rename" => th[t].y \in Dirs
  BY <1>1 DEF CallOf
<1>7. /\ th'[t].p = IF th[t].op = "entry" THEN th[t].x ELSE lower[th[t].x]
      /\ th'[t].q = IF th[t].z = None THEN th[t].y ELSE lower[th[t].z]
      /\ th'[t].pc = IF th[t].op = "rename" /\ th'[t].p # th'[t].q THEN "order" ELSE "lock"
      /\ UNCHANGED <<lmutex, lrename>>
  BY <1>2, Types, ParentEffect
<1> QED
  BY <1>1, <1>2, <1>5, <1>6, <1>7

\* Locals and lower locks go together, through the steps of every thread.
LEMMA LowerStep ==
    ASSUME TypeOK, CallInv, LocalInv, LowerLockInv, AliveInv, Next
    PROVE  LocalInv' /\ LowerLockInv'
<1> SUFFICES ASSUME NEW u \in Threads
             PROVE  LocalOf(u)' /\ LockOf(u)'
  BY DEF LocalInv, LowerLockInv
<1>0. LocalOf(u) /\ LockOf(u)
  BY DEF LocalInv, LowerLockInv
<1>1. ASSUME NEW t \in Threads, t # u, Kept(t)
      PROVE  LocalOf(u)' /\ LockOf(u)'
  <2>1. /\ th'[u] = th[u] /\ (lrename = u => lrename' = u)
        /\ \A d \in Dirs : lmutex[d] = u => lmutex'[d] = u
    BY <1>1 DEF Kept
  <2>2. LocalOf(u)'
    BY <1>0, <2>1 DEF LocalOf
  <2>3. LockOf(u)'
    BY <1>0, <2>1 DEF LocalOf, LockOf, Ordering
  <2> QED
    BY <2>2, <2>3
<1>2. ASSUME NEW m \in Direct, MoveDirectly(m[1], m[2])
      PROVE  LocalOf(u)' /\ LockOf(u)'
  BY <1>0, <1>2 DEF MoveDirectly, LocalOf, LockOf
<1>3. CASE Enter(u)
  BY <1>3, EnterEffect DEF Entered, LocalOf, LockOf, Ordering, Moving, Removing
<1>4. CASE dget_parent(u)
  <2>1. th'[u].op = th[u].op /\ th'[u].y = th[u].y /\ th'[u].z = th[u].z
    BY <1>4, QuietSteps DEF Quiet
  <2> QED
    BY <1>0, <1>4, <2>1, ParentsFound DEF LocalOf, LockOf, Ordering
<1>5. ASSUME NEW l \in PCs, Goto(u, l)
      PROVE  /\ th'[u].pc = l /\ th'[u].op = th[u].op /\ th'[u].y = th[u].y /\ th'[u].z = th[u].z
             /\ th'[u].p = th[u].p /\ th'[u].q = th[u].q
  BY <1>5, Types, GotoEffect
<1>6. lmutex \in [Dirs -> Threads \cup {None}]
  BY Types
<1>7. CASE LockOne(u)
  <2>1. "act" \in PCs /\ Goto(u, "act") /\ th[u].pc = "lock"
    BY <1>7 DEF LockOne, PCs
  <2>2. th[u].op # "self" => lmutex' = [lmutex EXCEPT ![th[u].p] = u]
    BY <1>7 DEF LockOne
  <2> QED
    BY <1>0, <1>5, <1>6, <2>1, <2>2 DEF LocalOf, LockOf, Ordering
<1>8. CASE LockOrder(u)
  <2>1. "first" \in PCs /\ Goto(u, "first") /\ th[u].pc = "order" /\ lrename' = u
    BY <1>8 DEF LockOrder, PCs
  <2> QED
    BY <1>0, <1>5, <2>1 DEF LocalOf, LockOf, Ordering
<1>9. CASE LockFirst(u)
  <2>1. th[u].pc = "first" /\ lrename' = lrename
    BY <1>9 DEF LockFirst
  <2>2. \/ /\ Goto(u, "secondp") /\ lmutex' = [lmutex EXCEPT ![th[u].q] = u]
        \/ /\ Goto(u, "secondq") /\ lmutex' = [lmutex EXCEPT ![th[u].p] = u]
    BY <1>9 DEF LockFirst
  <2>3. "secondp" \in PCs /\ "secondq" \in PCs
    BY DEF PCs
  <2> QED
    BY <1>0, <1>5, <1>6, <2>1, <2>2, <2>3 DEF LocalOf, LockOf, Ordering
<1>10. CASE LockSecond(u)
  <2>1. "trap" \in PCs /\ Goto(u, "trap") /\ lrename' = lrename
    BY <1>10 DEF LockSecond, PCs
  <2>2. \/ th[u].pc = "secondp" /\ lmutex' = [lmutex EXCEPT ![th[u].p] = u]
        \/ th[u].pc = "secondq" /\ lmutex' = [lmutex EXCEPT ![th[u].q] = u]
    BY <1>10 DEF LockSecond
  <2> QED
    BY <1>0, <1>5, <1>6, <2>1, <2>2 DEF LocalOf, LockOf, Ordering
<1>11. ASSUME th'[u].pc \in {"idle", "oops"} \/ (th'[u].pc = "done" /\ th'[u].op \in Moving)
       PROVE  LocalOf(u)' /\ LockOf(u)'
  BY <1>11 DEF LocalOf, LockOf, Ordering
<1>12. CASE CheckTrap(u)
  <2>1. CASE Returned(u)
    BY <1>11, <2>1 DEF Returned, Freed
  <2>2. CASE Goto(u, "act")
    <3>1. "act" \in PCs /\ th[u].pc = "trap" /\ UNCHANGED <<lmutex, lrename>>
      BY <1>12 DEF CheckTrap, PCs
    <3> QED
      BY <1>0, <1>5, <2>2, <3>1 DEF LocalOf, LockOf, Ordering
  <2>3. Returned(u) \/ Goto(u, "act")
    BY <1>12, ReturnFreed DEF CheckTrap, Returned, trees
  <2> QED
    BY <2>1, <2>2, <2>3
<1>13. CASE ActElse(u) \/ Done(u)
  BY <1>11, <1>13, ElseStep, DoneStep DEF Returned, Finished, Freed
<1>14. CASE ActRemove(u) \/ ActRename(u)
  BY <1>11, <1>14, ActSteps DEF Acted
<1>15. CASE ActBug(u)
  <2>1. "oops" \in PCs /\ Goto(u, "oops")
    BY <1>15 DEF ActBug, PCs
  <2> QED
    BY <1>5, <1>11, <2>1
<1>16. CASE Step(u)
  BY <1>4, <1>7, <1>8, <1>9, <1>10, <1>12, <1>13, <1>14, <1>15, <1>16 DEF Step
<1>17. ASSUME NEW t \in Threads, t # u, Enter(t) \/ Step(t)
       PROVE  LocalOf(u)' /\ LockOf(u)'
  BY <1>1, <1>17, KeptSteps
<1> QED
  BY <1>2, <1>3, <1>16, <1>17 DEF Next

\* The type invariant is kept: only the directories of a rename need an argument.
LEMMA TypeStep ==
    ASSUME TypeOK, CallInv, LocalInv, LowerLockInv, AliveInv, Next
    PROVE  TypeOK'
<1> DEFINE Typed == /\ upper \in Trees /\ lower \in Trees /\ th \in [Threads -> Records]
                    /\ umutex \in [Dirs -> Threads \cup {None}]
                    /\ urename \in Threads \cup {None} /\ moves \in 0 .. MaxMoves
<1>1. Typed'
  <2>1. Typed
    BY Types DEF TypeOK
  <2>2. ASSUME NEW t \in Threads, Entered(t) \/ Quiet(t) \/ Acted(t)
        PROVE  Typed'
    BY <2>1, <2>2 DEF Entered, Quiet, Acted
  <2>3. ASSUME NEW t \in Threads, Freed(t), lower' \in Trees, upper' \in Trees, UNCHANGED moves
        PROVE  Typed'
    BY <2>1, <2>3 DEF Freed
  <2>4. ASSUME NEW t \in Threads, Returned(t) \/ Finished(t)
        PROVE  Typed'
    BY <2>1, <2>3, <2>4 DEF Returned, Finished
  <2>5. ASSUME NEW m \in Direct, Displaced(m[1], m[2])
        PROVE  Typed'
    BY <2>1, <2>5 DEF Displaced
  <2> HIDE DEF Typed
  <2> QED
    BY <2>2, <2>4, <2>5, Kinds
<1>2. lmutex' \in [Dirs -> Threads \cup {None}] /\ lrename' \in Threads \cup {None}
  BY KeptSteps DEF Next, Kept, MoveDirectly, TypeOK
<1>3. \A t \in Threads : th'[t].pc \in Ordering => None \notin {th'[t].p, th'[t].q}
  BY LowerStep, Sets DEF LocalInv, LocalOf
<1> QED
  BY <1>1, <1>2, <1>3 DEF TypeOK, Trees, Records, Ordering

-----------------------------------------------------------------------------
\* The trees keep the same nodes, and the same places

\* What t moves or removes is the same after its step, unless the call begins or ends.
LEMMA MineSteps ==
    ASSUME NEW t \in Threads, Quiet(t) \/ Acted(t)
    PROVE  /\ \A u \in Threads : Mine(u)' = Mine(u) /\ Gone(u)' = Gone(u)
           /\ \A u \in Threads : u # t => th'[u] = th[u]
           /\ th'[t].x = th[t].x /\ th'[t].y = th[t].y /\ th'[t].z = th[t].z
           /\ th'[t].op = th[t].op /\ Busy(t) /\ Busy(t)' /\ th[t].pc # "done"
<1>1. /\ \A u \in Threads : u # t => th'[u] = th[u]
      /\ th'[t].x = th[t].x /\ th'[t].y = th[t].y /\ th'[t].z = th[t].z
      /\ th'[t].op = th[t].op /\ Busy(t) /\ Busy(t)' /\ th[t].pc # "done"
  BY DEF Quiet, Acted, Busy
<1> QED
  BY <1>1, MineFrame, MineOthers

\* A call that returns has nothing any more, and the others have what they had.
LEMMA MineFreed ==
    ASSUME NEW t \in Threads, Freed(t)
    PROVE  /\ \A u \in Threads : u # t =>
                 Mine(u)' = Mine(u) /\ Gone(u)' = Gone(u) /\ th'[u] = th[u]
           /\ Mine(t)' = {} /\ Gone(t)' = {} /\ ~Busy(t)' /\ th'[t].pc = "idle"
<1>1. /\ \A u \in Threads : u # t => th'[u] = th[u]
      /\ th'[t].pc = "idle" /\ ~Busy(t)'
  BY DEF Freed, Busy
<1> QED
  BY <1>1, MineOthers DEF Mine, Gone

\* A call that begins gets nodes of the tree that no other call has.
LEMMA MineEntered ==
    ASSUME TypeOK, CallInv, NEW t \in Threads, Entered(t)
    PROVE  /\ \A u \in Threads : u # t =>
                 Mine(u)' = Mine(u) /\ Gone(u)' = Gone(u) /\ th'[u] = th[u]
           /\ \A n \in Mine(t)' : /\ n \in Nodes /\ upper[n] # None
                                  /\ \A u \in Threads : n \notin Mine(u)
           /\ th[t].pc = "idle" /\ th'[t].pc \in {"lock", "parent"}
           /\ Mine(t) = {} /\ Gone(t) = {}
<1>1. /\ \A u \in Threads : u # t => th'[u] = th[u]
      /\ th[t].pc = "idle" /\ th'[t].pc \in {"lock", "parent"}
  BY DEF Entered
<1>2. ASSUME NEW n \in Mine(t)'
      PROVE  n \in Nodes /\ upper[n] # None /\ \A u \in Threads : n \notin Mine(u)
  <2>1. n \in Nodes /\ (n = th'[t].z \/ (n = th'[t].x /\ th'[t].op \in Moving))
    BY <1>2 DEF Mine
  <2>2. upper[n] # None /\ umutex[upper[n]] = None
    BY <2>1, Sets DEF Entered
  <2>3. None \notin Threads
    BY NoneAssumption
  <2> QED
    BY <2>1, <2>2, <2>3, MineLocked
<1>3. Mine(t) = {} /\ Gone(t) = {}
  BY <1>1 DEF Mine, Gone, Busy
<1> QED
  BY <1>1, <1>2, <1>3, MineOthers

\* What a rename moves and what it replaces, and what a removal removes.
LEMMA MineOf ==
    ASSUME TypeOK, CallInv, NEW t \in Threads, Busy(t)
    PROVE  /\ CallOf(t) /\ th[t].z \in Nodes \cup {None}
           /\ Gone(t) \subseteq Mine(t)
           /\ th[t].op \in Moving => th[t].x \in Mine(t)
           /\ th[t].z # None => th[t].z \in Gone(t)
           /\ th[t].op \in Removing => /\ Mine(t) = {th[t].x} /\ Gone(t) = {th[t].x}
                                       /\ th[t].y = None /\ th[t].z = None
           /\ th[t].op = "rename" => Gone(t) = {th[t].z} \ {None} /\ th[t].x \notin Gone(t)
                                     /\ Mine(t) = {th[t].x} \cup ({th[t].z} \ {None})
<1>1. CallOf(t) /\ th[t].z \in Nodes \cup {None}
  BY Types DEF CallInv, Records
<1>2. /\ Gone(t) \subseteq Mine(t)
      /\ th[t].op \in Moving => th[t].x \in Mine(t)
      /\ th[t].z # None => th[t].z \in Gone(t)
  BY <1>1 DEF CallOf, Mine, Gone, Moving
<1>3. ASSUME th[t].op \in Removing
      PROVE  /\ Mine(t) = {th[t].x} /\ Gone(t) = {th[t].x}
             /\ th[t].y = None /\ th[t].z = None
  BY <1>1, <1>3, Sets DEF CallOf, Mine, Gone, Moving, Removing
<1>4. ASSUME th[t].op = "rename"
      PROVE  Gone(t) = {th[t].z} \ {None} /\ th[t].x \notin Gone(t)
             /\ Mine(t) = {th[t].x} \cup ({th[t].z} \ {None})
  <2>1. /\ th[t].x \in Nodes /\ th[t].z # th[t].x /\ th[t].op \in Moving
        /\ th[t].op \notin Removing
    BY <1>1, <1>4, Sets DEF CallOf, Moving, Removing
  <2> QED
    BY <1>1, <2>1, Sets DEF Mine, Gone
<1> QED
  BY <1>1, <1>2, <1>3, <1>4

\* A node that a call has half done stays so until the call returns.
LEMMA HalfKept ==
    ASSUME NEW t \in Threads, NEW n, n \notin Mine(t), Half(n),
           \A u \in Threads : u # t => th'[u] = th[u] /\ Mine(u)' = Mine(u)
    PROVE  Half(n)'
  BY DEF Half

\* Both trees have the same nodes, but for what calls have half done.
LEMMA AliveStep ==
    ASSUME TypeOK, CallInv, LocalInv, AliveInv, Next
    PROVE  AliveInv'
<1>0. /\ \A u \in Threads : AliveOf(u)
      /\ \A n \in Nodes : (upper[n] = None <=> lower[n] = None) \/ Half(n)
  BY DEF AliveInv
<1>1. ASSUME NEW u \in Threads, th'[u] = th[u], Mine(u)' = Mine(u), Gone(u)' = Gone(u),
             \A n \in Mine(u) : lower'[n] = None <=> lower[n] = None,
             Busy(u) /\ th[u].op = "rename" /\ th[u].y # Root /\ lower[th[u].y] # None
             => lower'[th[u].y] # None
      PROVE  AliveOf(u)'
  BY <1>0, <1>1 DEF AliveOf, Busy
<1>2. ASSUME NEW t \in Threads, Entered(t)
      PROVE  AliveInv'
  <2>1. /\ \A u \in Threads : u # t =>
              Mine(u)' = Mine(u) /\ Gone(u)' = Gone(u) /\ th'[u] = th[u]
        /\ \A n \in Mine(t)' : /\ n \in Nodes /\ upper[n] # None
                               /\ \A u \in Threads : n \notin Mine(u)
        /\ th[t].pc = "idle" /\ th'[t].pc \in {"lock", "parent"} /\ Mine(t) = {}
    BY <1>2, MineEntered
  <2>2. lower' = lower /\ upper' = upper
    BY <1>2 DEF Entered
  <2>3. \A u \in Threads : u # t => AliveOf(u)'
    BY <1>1, <2>1, <2>2
  <2>4. \A n \in Mine(t)' : lower[n] # None
    BY <1>0, <2>1 DEF Half
  <2>5. ASSUME th'[t].op = "rename", th'[t].y # Root
        PROVE  lower[th'[t].y] # None
    <3>1. th'[t].y \in Nodes /\ upper[th'[t].y] # None /\ umutex[th'[t].y] = None
      BY <1>2, <2>5, Sets DEF Entered
    <3>2. \A u \in Threads : th'[t].y \notin Gone(u)
      BY <3>1, GoneLocked, NoneAssumption
    <3> QED
      BY <1>0, <3>1, <3>2 DEF Half, AliveOf
  <2>6. AliveOf(t)'
    BY <2>1, <2>2, <2>4, <2>5 DEF AliveOf
  <2>7. \A n \in Nodes : Half(n) => Half(n)'
    BY <2>1, HalfKept
  <2> QED
    BY <1>0, <2>2, <2>3, <2>6, <2>7 DEF AliveInv
<1>3. ASSUME NEW t \in Threads, Quiet(t)
      PROVE  AliveInv'
  <2>1. /\ \A u \in Threads : Mine(u)' = Mine(u) /\ Gone(u)' = Gone(u)
        /\ \A u \in Threads : u # t => th'[u] = th[u]
        /\ th'[t].y = th[t].y /\ th'[t].z = th[t].z
        /\ th'[t].op = th[t].op /\ Busy(t) /\ th[t].pc # "done"
    BY <1>3, MineSteps
  <2>2. lower' = lower /\ upper' = upper /\ th'[t].pc # "done"
    BY <1>3 DEF Quiet
  <2>3. \A u \in Threads : u # t => AliveOf(u)'
    BY <1>1, <2>1, <2>2
  <2>4. AliveOf(t)'
    BY <1>0, <2>1, <2>2 DEF AliveOf
  <2>5. \A n \in Nodes : Half(n) => Half(n)'
    BY <2>1 DEF Half
  <2> QED
    BY <1>0, <2>2, <2>3, <2>4, <2>5 DEF AliveInv
<1>4. ASSUME NEW t \in Threads, Freed(t), lower' = lower,
             \A n \in Nodes : \/ upper'[n] = None <=> lower[n] = None
                              \/ n \notin Mine(t) /\ Half(n)
      PROVE  AliveInv'
  <2>1. /\ \A u \in Threads : u # t =>
               Mine(u)' = Mine(u) /\ Gone(u)' = Gone(u) /\ th'[u] = th[u]
        /\ Mine(t)' = {} /\ ~Busy(t)' /\ th'[t].pc = "idle"
    BY <1>4, MineFreed
  <2>2. \A u \in Threads : u # t => AliveOf(u)'
    BY <1>1, <1>4, <2>1
  <2>3. AliveOf(t)'
    BY <2>1 DEF AliveOf
  <2>4. \A n \in Nodes : n \notin Mine(t) /\ Half(n) => Half(n)'
    BY <2>1, HalfKept
  <2> QED
    BY <1>4, <2>2, <2>3, <2>4 DEF AliveInv
<1>5. ASSUME NEW t \in Threads, Returned(t)
      PROVE  AliveInv'
  <2>1. Freed(t) /\ lower' = lower /\ upper' = upper /\ th[t].pc # "done" /\ Busy(t)
    BY <1>5 DEF Returned, Busy
  <2>2. \A n \in Nodes : Half(n) => n \notin Mine(t)
    BY <2>1, Separate DEF Half
  <2> QED
    BY <1>0, <1>4, <2>1, <2>2
<1>6. ASSUME NEW t \in Threads, Acted(t)
      PROVE  AliveInv'
  <2>1. /\ \A u \in Threads : Mine(u)' = Mine(u) /\ Gone(u)' = Gone(u)
        /\ \A u \in Threads : u # t => th'[u] = th[u]
        /\ th'[t].y = th[t].y /\ th'[t].z = th[t].z /\ th'[t].x = th[t].x
        /\ th'[t].op = th[t].op /\ Busy(t) /\ Busy(t)' /\ th[t].pc # "done"
    BY <1>6, MineSteps
  <2>2. /\ th[t].pc = "act" /\ th[t].op \in Moving /\ th'[t].pc = "done" /\ upper' = upper
        /\ \A n \in Nodes \ Mine(t) : lower'[n] = lower[n]
        /\ \A n \in Gone(t) : lower'[n] = None
        /\ th[t].op = "rename" => lower'[th[t].x] = th[t].q
    BY <1>6 DEF Acted
  <2>3. /\ Gone(t) \subseteq Mine(t)
        /\ th[t].op \in Removing => Mine(t) = {th[t].x} /\ Gone(t) = {th[t].x}
        /\ th[t].op = "rename" => /\ th[t].x \notin Gone(t) /\ Gone(t) = {th[t].z} \ {None}
                                  /\ Mine(t) = {th[t].x} \cup ({th[t].z} \ {None})
    BY <2>1, MineOf
  <2>4. th[t].op = "rename" => th[t].q # None
    BY <2>2, Sets DEF LocalInv, LocalOf
  <2>5. \A n \in Mine(t) : n \in Gone(t) \/ lower'[n] # None
    BY <2>2, <2>3, <2>4 DEF Moving
  <2>6. ASSUME NEW u \in Threads, u # t
        PROVE  AliveOf(u)'
    <3>1. \A n \in Mine(u) : lower'[n] = lower[n]
      BY <2>2, <2>6, Separate, MineLocked
    <3>2. ASSUME Busy(u), th[u].op = "rename", th[u].y # Root, lower[th[u].y] # None
          PROVE  lower'[th[u].y] # None
      <4>1. th[u].y \in Nodes /\ umutex[th[u].y] = u
        BY <3>2, Sets DEF CallInv, CallOf
      <4>2. th[u].y \notin Gone(t)
        BY <2>6, <4>1, GoneLocked
      <4> QED
        BY <2>2, <2>5, <3>2, <4>1, <4>2
    <3> QED
      BY <1>1, <2>1, <2>6, <3>1, <3>2
  <2>7. AliveOf(t)'
    <3>1. ASSUME th[t].op = "rename", th[t].z = None, th[t].y # Root
          PROVE  lower'[th[t].y] # None
      <4>1. Mine(t) = {th[t].x} /\ Gone(t) = {} /\ lower[th[t].y] # None
        BY <1>0, <2>1, <2>3, <3>1 DEF AliveOf
      <4>2. th[t].y \in Nodes
        BY <2>1, <3>1, Sets DEF CallInv, CallOf
      <4> QED
        BY <2>2, <2>5, <4>1, <4>2
    <3>2. \A n \in Mine(t) : lower'[n] = None <=> n \in Gone(t)
      BY <2>2, <2>5
    <3> QED
      BY <2>1, <2>2, <3>1, <3>2 DEF AliveOf
  <2>8. \A n \in Nodes : n \in Mine(t) \/ Half(n) => Half(n)'
    BY <2>1, <2>2 DEF Half
  <2>9. \A n \in Nodes : (upper'[n] = None <=> lower'[n] = None) \/ Half(n)'
    BY <1>0, <2>2, <2>8
  <2> QED
    BY <2>6, <2>7, <2>9 DEF AliveInv
<1>7. ASSUME NEW t \in Threads, Finished(t)
      PROVE  AliveInv'
  <2>1. /\ Freed(t) /\ lower' = lower /\ th[t].pc = "done" /\ Busy(t)
        /\ \A n \in Nodes \ Mine(t) : upper'[n] = upper[n]
        /\ upper'[th[t].x] = th[t].y /\ (th[t].z # None => upper'[th[t].z] = None)
    BY <1>7 DEF Finished, Busy
  <2>2. \A n \in Mine(t) : lower[n] = None <=> n \in Gone(t)
    BY <1>0, <2>1 DEF AliveOf
  <2>3. \A n \in Mine(t) : upper'[n] = None <=> n \in Gone(t)
    <3>1. th[t].op \in Moving
      BY <2>1 DEF LocalInv, LocalOf
    <3>2. CASE th[t].op \in Removing
      BY <2>1, <3>2, MineOf
    <3>3. CASE th[t].op = "rename"
      <4>1. th[t].y # None
        BY <2>1, <3>3, Sets DEF CallInv, CallOf
      <4> QED
        BY <2>1, <3>3, <4>1, MineOf
    <3> QED
      BY <3>1, <3>2, <3>3 DEF Moving
  <2> QED
    BY <1>0, <1>4, <2>1, <2>2, <2>3
<1>8. ASSUME NEW m \in Direct, Displaced(m[1], m[2])
      PROVE  AliveInv'
  <2>1. /\ th' = th /\ upper' = upper
        /\ \A n \in Nodes : lower'[n] = None <=> lower[n] = None
    BY <1>8, Sets DEF Displaced
  <2>2. \A u \in Threads : Mine(u)' = Mine(u) /\ Gone(u)' = Gone(u)
    BY <2>1, MineOthers
  <2>3. ASSUME NEW u \in Threads
        PROVE  AliveOf(u)'
    <3>1. \A n \in Mine(u) : n \in Nodes
      BY DEF Mine
    <3>2. Busy(u) /\ th[u].op = "rename" => th[u].y \in Dirs
      BY DEF CallInv, CallOf
    <3> QED
      BY <1>1, <2>1, <2>2, <3>1, <3>2, Sets
  <2>4. \A n \in Nodes : Half(n) => Half(n)'
    BY <2>1, <2>2 DEF Half
  <2> QED
    BY <1>0, <2>1, <2>3, <2>4 DEF AliveInv
<1> QED
  BY <1>2, <1>3, <1>5, <1>6, <1>7, <1>8, Kinds

\* Until the first direct move the trees are in step, but for what calls have half done.
LEMMA StepStep ==
    ASSUME TypeOK, CallInv, LocalInv, AliveInv, StepInv, ParentInv, Next
    PROVE  StepInv'
<1> SUFFICES ASSUME moves' = 0
             PROVE  /\ \A u \in Threads : StepOf(u)'
                    /\ \A n \in Nodes : upper'[n] = lower'[n] \/ Half(n)'
  BY DEF StepInv
<1> DEFINE Good == (\A u \in Threads : StepOf(u)')
                   /\ \A n \in Nodes : upper'[n] = lower'[n] \/ Half(n)'
<1>0. ASSUME UNCHANGED moves
      PROVE  /\ \A u \in Threads : StepOf(u) /\ ParentOf(u)
             /\ \A n \in Nodes : upper[n] = lower[n] \/ Half(n)
  BY <1>0 DEF StepInv, ParentInv
<1>1. ASSUME UNCHANGED moves, NEW u \in Threads, th'[u] = th[u], Mine(u)' = Mine(u),
             \A n \in Mine(u) : lower'[n] = lower[n] /\ upper'[n] = upper[n]
      PROVE  StepOf(u)'
  <2>1. th[u].pc = "done" => th[u].x \in Mine(u)
    BY MineOf DEF LocalInv, LocalOf, Busy
  <2> QED
    BY <1>0, <1>1, <2>1 DEF StepOf
<1>2. ASSUME NEW t \in Threads, Entered(t)
      PROVE  Good
  <2>1. /\ \A u \in Threads : u # t => Mine(u)' = Mine(u) /\ th'[u] = th[u]
        /\ \A n \in Mine(t)' : n \in Nodes /\ \A u \in Threads : n \notin Mine(u)
        /\ th'[t].pc \in {"lock", "parent"} /\ Mine(t) = {}
    BY <1>2, MineEntered
  <2>2. UNCHANGED <<lower, upper, moves>>
    BY <1>2 DEF Entered
  <2>3. \A u \in Threads : u # t => StepOf(u)'
    BY <1>1, <2>1, <2>2
  <2>4. \A n \in Mine(t)' : lower[n] = upper[n]
    BY <1>0, <2>1, <2>2 DEF Half
  <2>5. StepOf(t)'
    BY <2>1, <2>2, <2>4 DEF StepOf
  <2>6. \A n \in Nodes : Half(n) => Half(n)'
    BY <2>1, HalfKept
  <2> QED
    BY <1>0, <2>2, <2>3, <2>5, <2>6
<1>3. ASSUME NEW t \in Threads, Quiet(t)
      PROVE  Good
  <2>1. /\ \A u \in Threads : Mine(u)' = Mine(u)
        /\ \A u \in Threads : u # t => th'[u] = th[u]
        /\ th[t].pc # "done"
    BY <1>3, MineSteps
  <2>2. UNCHANGED <<lower, upper, moves>> /\ th'[t].pc # "done"
    BY <1>3 DEF Quiet
  <2>3. \A u \in Threads : u # t => StepOf(u)'
    BY <1>1, <2>1, <2>2
  <2>4. StepOf(t)'
    BY <1>0, <2>1, <2>2 DEF StepOf
  <2>5. \A n \in Nodes : Half(n) => Half(n)'
    BY <2>1 DEF Half
  <2> QED
    BY <1>0, <2>2, <2>3, <2>4, <2>5
<1>4. ASSUME NEW t \in Threads, Freed(t), UNCHANGED <<lower, moves>>,
             \A n \in Nodes \ Mine(t) : upper'[n] = upper[n],
             \A n \in Nodes : upper'[n] = lower[n] \/ (n \notin Mine(t) /\ Half(n))
      PROVE  Good
  <2>1. /\ \A u \in Threads : u # t => Mine(u)' = Mine(u) /\ th'[u] = th[u]
        /\ Mine(t)' = {} /\ th'[t].pc = "idle"
    BY <1>4, MineFreed
  <2>2. ASSUME NEW u \in Threads, u # t
        PROVE  StepOf(u)'
    <3>1. \A n \in Mine(u) : upper'[n] = upper[n]
      BY <1>4, <2>2, Separate, MineLocked
    <3> QED
      BY <1>1, <1>4, <2>1, <2>2, <3>1
  <2>3. StepOf(t)'
    BY <2>1 DEF StepOf
  <2>4. \A n \in Nodes : n \notin Mine(t) /\ Half(n) => Half(n)'
    BY <2>1, HalfKept
  <2> QED
    BY <1>4, <2>2, <2>3, <2>4
<1>5. ASSUME NEW t \in Threads, Returned(t)
      PROVE  Good
  <2>1. Freed(t) /\ UNCHANGED <<lower, upper, moves>> /\ th[t].pc # "done" /\ Busy(t)
    BY <1>5 DEF Returned, Busy
  <2>2. \A n \in Nodes : Half(n) => n \notin Mine(t)
    BY <2>1, Separate DEF Half
  <2> HIDE DEF Good
  <2> QED
    BY <1>0, <1>4, <2>1, <2>2
<1>6. ASSUME NEW t \in Threads, Acted(t)
      PROVE  Good
  <2>1. /\ \A u \in Threads : Mine(u)' = Mine(u) /\ Gone(u)' = Gone(u)
        /\ \A u \in Threads : u # t => th'[u] = th[u]
        /\ th'[t].y = th[t].y /\ th'[t].x = th[t].x /\ Busy(t)
    BY <1>6, MineSteps
  <2>2. /\ th[t].pc = "act" /\ th[t].op \in Moving /\ th'[t].pc = "done"
        /\ UNCHANGED <<upper, moves>>
        /\ \A n \in Nodes \ Mine(t) : lower'[n] = lower[n]
        /\ \A n \in Gone(t) : lower'[n] = None
        /\ th[t].op = "rename" => lower'[th[t].x] = th[t].q
    BY <1>6 DEF Acted
  <2>3. ASSUME NEW u \in Threads, u # t
        PROVE  StepOf(u)'
    <3>1. \A n \in Mine(u) : lower'[n] = lower[n]
      BY <2>2, <2>3, Separate, MineLocked
    <3> QED
      BY <1>1, <2>1, <2>2, <2>3, <3>1
  <2>4. lower'[th[t].x] = th[t].y
    <3>1. CASE th[t].op \in Removing
      BY <2>1, <2>2, <3>1, MineOf
    <3>2. CASE th[t].op = "rename"
      BY <1>0, <2>2, <3>2 DEF ParentOf
    <3> QED
      BY <2>2, <3>1, <3>2 DEF Moving
  <2>5. StepOf(t)'
    BY <2>1, <2>2, <2>4 DEF StepOf
  <2>6. \A n \in Nodes : n \in Mine(t) \/ Half(n) => Half(n)'
    BY <2>1, <2>2 DEF Half
  <2>7. \A n \in Nodes : upper'[n] = lower'[n] \/ Half(n)'
    BY <1>0, <2>2, <2>6
  <2> QED
    BY <2>3, <2>5, <2>7
<1>7. ASSUME NEW t \in Threads, Finished(t)
      PROVE  Good
  <2>1. /\ Freed(t) /\ UNCHANGED <<lower, moves>> /\ th[t].pc = "done" /\ Busy(t)
        /\ \A n \in Nodes \ Mine(t) : upper'[n] = upper[n]
        /\ upper'[th[t].x] = th[t].y /\ (th[t].z # None => upper'[th[t].z] = None)
    BY <1>7 DEF Finished, Busy
  <2>2. \A n \in Mine(t) : lower[n] = None <=> n \in Gone(t)
    BY <2>1 DEF AliveInv, AliveOf
  <2>3. lower[th[t].x] = th[t].y /\ (th[t].z # None => lower[th[t].z] = None)
    BY <1>0, <2>1, <2>2, MineOf DEF StepOf
  <2>4. \A n \in Mine(t) : n = th[t].x \/ (n = th[t].z /\ th[t].z # None)
    BY Sets DEF Mine
  <2>5. \A n \in Mine(t) : upper'[n] = lower[n]
    BY <2>1, <2>3, <2>4
  <2> HIDE DEF Good
  <2>6. \A n \in Nodes : upper'[n] = lower[n] \/ (n \notin Mine(t) /\ Half(n))
    BY <1>0, <2>1, <2>5
  <2> QED
    BY <1>4, <2>1, <2>6
<1>8. ASSUME NEW m \in Direct, Displaced(m[1], m[2])
      PROVE  FALSE
  BY <1>8 DEF Displaced
<1> HIDE DEF Good
<1>9. Good
  BY <1>2, <1>3, <1>5, <1>6, <1>7, <1>8, Kinds
<1> QED
  BY <1>9 DEF Good

\* The steps of a call between dget_parent and the lower operation keep the directories.
LEMMA LocalsKept ==
    ASSUME TypeOK, CallInv, LocalInv, NEW t \in Threads, Step(t),
           th'[t].pc \in Ordering \cup {"lock", "act"}
    PROVE  /\ Quiet(t)
           /\ \/ dget_parent(t)
              \/ /\ th[t].pc \in Ordering \cup {"lock"}
                 /\ th'[t].p = th[t].p /\ th'[t].q = th[t].q
<1>1. ASSUME NEW l \in PCs, Goto(t, l)
      PROVE  /\ th'[t].pc = l /\ th'[t].p = th[t].p /\ th'[t].q = th[t].q
  BY <1>1, Types, GotoEffect
<1>2. CASE LockOne(t) \/ LockOrder(t) \/ LockFirst(t) \/ LockSecond(t)
  <2>1. Quiet(t) /\ th[t].pc \in Ordering \cup {"lock"}
    BY <1>2, QuietSteps DEF LockOne, LockOrder, LockFirst, LockSecond, Ordering
  <2>2. \E l \in PCs : Goto(t, l)
    BY <1>2 DEF LockOne, LockOrder, LockFirst, LockSecond, PCs
  <2> QED
    BY <1>1, <2>1, <2>2
<1>3. CASE CheckTrap(t)
  <2>1. th[t].pc \in Ordering \cup {"lock"}
    BY <1>3 DEF CheckTrap, Ordering
  <2>2. ~Returned(t)
    BY DEF Returned, Freed, Ordering
  <2> QED
    BY <1>3, <2>1, <2>2, CheckStep
<1>4. CASE ActElse(t) \/ Done(t) \/ ActRemove(t) \/ ActRename(t)
  BY <1>4, ElseStep, DoneStep, ActSteps DEF Returned, Finished, Freed, Acted, Ordering
<1>5. CASE ActBug(t)
  <2>1. "oops" \in PCs /\ Goto(t, "oops")
    BY <1>5 DEF ActBug, PCs
  <2> QED
    BY <1>1, <2>1 DEF Ordering
<1> QED
  BY <1>2, <1>3, <1>4, <1>5, QuietSteps DEF Step

\* Until the first direct move a call locks the directories that the VFS has locked.
LEMMA ParentStep ==
    ASSUME TypeOK, CallInv, LocalInv, AliveInv, StepInv, ParentInv, Next
    PROVE  ParentInv'
<1> SUFFICES ASSUME moves' = 0, NEW u \in Threads
             PROVE  ParentOf(u)'
  BY DEF ParentInv
<1>0. ASSUME UNCHANGED moves
      PROVE  ParentOf(u) /\ StepOf(u)
  BY <1>0 DEF StepInv, ParentInv
<1>1. ASSUME UNCHANGED moves, th'[u] = th[u],
             \A n \in Mine(u) : upper'[n] = upper[n]
      PROVE  ParentOf(u)'
  <2>1. Busy(u) /\ th[u].op \in Moving => th[u].x \in Mine(u)
    BY MineOf
  <2>2. th[u].pc \in Ordering \cup {"lock", "act"} => Busy(u)
    BY DEF Ordering, Busy
  <2> QED
    BY <1>0, <1>1, <2>1, <2>2 DEF ParentOf
<1>2. ASSUME NEW t \in Threads, t # u, Enter(t) \/ Step(t)
      PROVE  ParentOf(u)'
  <2>1. th'[u] = th[u]
    BY <1>2, KeptSteps DEF Kept
  <2>2. Entered(t) \/ Quiet(t) \/ Returned(t) \/ Acted(t) \/ Finished(t)
    BY <1>2, EnterEffect, QuietSteps, CheckStep, ActSteps, DoneStep, ElseStep DEF Step
  <2>3. UNCHANGED moves /\ \A n \in Nodes \ Mine(t) : upper'[n] = upper[n]
    BY <2>2 DEF Entered, Quiet, Returned, Acted, Finished
  <2>4. \A n \in Mine(u) : upper'[n] = upper[n]
    BY <1>2, <2>3, Separate, MineLocked
  <2> QED
    BY <1>1, <2>1, <2>3, <2>4
<1>3. CASE Enter(u)
  BY <1>3, EnterEffect DEF Entered, ParentOf, Ordering, Moving, Removing
<1>4. CASE Step(u)
  <2> SUFFICES ASSUME th'[u].pc \in Ordering \cup {"lock", "act"}
               PROVE  ParentOf(u)'
    BY DEF ParentOf
  <2>1. /\ Quiet(u)
        /\ \/ dget_parent(u)
           \/ /\ th[u].pc \in Ordering \cup {"lock"}
              /\ th'[u].p = th[u].p /\ th'[u].q = th[u].q
    BY <1>4, LocalsKept
  <2>2. /\ UNCHANGED <<upper, moves>> /\ th'[u].op = th[u].op /\ th'[u].x = th[u].x
        /\ th'[u].y = th[u].y /\ Busy(u)
    BY <2>1 DEF Quiet, Busy
  <2>3. CASE dget_parent(u)
    <3>1. /\ th[u].pc = "parent"
          /\ th'[u].p = IF th[u].op = "entry" THEN th[u].x ELSE lower[th[u].x]
          /\ th'[u].q = IF th[u].z = None THEN th[u].y ELSE lower[th[u].z]
      BY <2>3, ParentsFound
    <3>2. \A n \in Mine(u) : lower[n] = upper[n]
      BY <1>0, <2>2, <3>1 DEF StepOf
    <3>3. /\ th[u].op \in Moving => lower[th[u].x] = upper[th[u].x]
          /\ th[u].z # None => lower[th[u].z] = th[u].y
      BY <2>2, <3>2, MineOf DEF CallOf
    <3> QED
      BY <2>2, <3>1, <3>3 DEF ParentOf, Moving, Removing
  <2>4. CASE /\ th[u].pc \in Ordering \cup {"lock"}
             /\ th'[u].p = th[u].p /\ th'[u].q = th[u].q
    BY <1>0, <2>2, <2>4 DEF ParentOf
  <2> QED
    BY <2>1, <2>3, <2>4
<1>5. ASSUME NEW m \in Direct, MoveDirectly(m[1], m[2])
      PROVE  FALSE
  BY <1>5, DirectStep DEF Displaced
<1> QED
  BY <1>2, <1>3, <1>4, <1>5 DEF Next

-----------------------------------------------------------------------------
\* The trees stay trees

\* A directory that something is in is in the tree itself.
LEMMA InTree ==
    ASSUME NEW tree \in Trees, IsTree(tree), NEW n \in Nodes, NEW d \in Dirs, tree[n] = d
    PROVE  d # Root => tree[d] # None
<1>1. d # None /\ Root \in Ancestors(tree, n) /\ Root # n /\ n \in Dirs
  BY Sets DEF IsTree
<1>2. Root \in Ancestors(tree, d)
  BY <1>1, AncestorsStep
<1> SUFFICES ASSUME d # Root
             PROVE  tree[d] # None
  OBVIOUS
<1>3. d \in Nodes
  BY Sets
<1> QED
  BY <1>2, <1>3, AncestorsStep, Sets

\* A rename to a directory that the node is not above, over an entry that is empty, leaves
\* a tree.
LEMMA Replace ==
    ASSUME NEW tree \in Trees, NEW new \in Trees, IsTree(tree), NEW x \in Nodes,
           NEW d \in Dirs, NEW z \in Nodes \cup {None}, z # x,
           tree[x] = d \/ x \notin Ancestors(tree, d),
           z # None => tree[z] = d /\ new[z] = None /\ \A c \in Nodes : tree[c] # z,
           z = None /\ d # Root => tree[d] # None,
           new[x] = d, \A n \in Nodes : n # x /\ n # z => new[n] = tree[n]
    PROVE  IsTree(new)
<1> DEFINE mid == [n \in Nodes |-> IF n = z THEN None ELSE tree[n]]
<1>1. /\ mid \in Trees /\ \A n \in Nodes : n # z => mid[n] = tree[n]
      /\ z # None => mid[z] = None
  BY DEF Trees
<1> HIDE DEF mid
<1>2. IsTree(mid)
  <2>1. CASE z = None
    <3>1. mid = tree
      BY <1>1, <2>1, Sets DEF Trees
    <3> QED
      BY <3>1
  <2>2. CASE z # None
    <3>1. /\ z \in Nodes /\ mid \in Trees /\ mid[z] = None /\ \A c \in Nodes : tree[c] # z
          /\ \A n \in Nodes : n # z => mid[n] = tree[n]
      BY <1>1, <2>2
    <3> QED
      BY <3>1, Prune, Zenon
  <2> QED
    BY <2>1, <2>2
<1>3. CASE tree[x] = d
  <2>1. \A n \in Nodes : new[n] = mid[n]
    BY <1>1, <1>3, Sets
  <2>2. new = mid
    BY <1>1, <2>1 DEF Trees
  <2> QED
    BY <1>2, <2>2
<1>4. CASE x \notin Ancestors(tree, d)
  <2>1. x \notin Ancestors(mid, d)
    <3>1. mid \in Trees /\ \A n \in Nodes : mid[n] = tree[n] \/ mid[n] = None
      BY <1>1, Sets
    <3>2. Ancestors(mid, d) \subseteq Ancestors(tree, d)
      BY <3>1, AncestorsShrink, Zenon
    <3> QED
      BY <1>4, <3>2
  <2>2. d # Root => mid[d] # None
    <3>1. ASSUME d # Root
          PROVE  d \in Nodes /\ tree[d] # None /\ d # z
      BY <3>1, InTree, Sets
    <3> QED
      BY <1>1, <3>1
  <2>3. mid \in Trees /\ \A n \in Nodes : n # x => new[n] = mid[n]
    BY <1>1, Sets
  <2> QED
    BY <1>2, <2>1, <2>2, <2>3, Graft, Zenon
<1> QED
  BY <1>3, <1>4

\* What a step of a call in the lower tree is to the tree.
LEMMA ActedTree ==
    ASSUME TypeOK, CallInv, LocalInv, AliveInv, LowerIsTree, TrapInv, NEW t \in Threads, Acted(t)
    PROVE  /\ IsTree(lower')
           /\ th[t].op # "rename" \/ th[t].p = th[t].q =>
                 \A n \in Nodes : lower'[n] = lower[n] \/ lower'[n] = None
<1>1. /\ th[t].pc = "act" /\ th[t].op \in Moving /\ IsIn(t) /\ lower' \in Trees
      /\ \A n \in Nodes \ Mine(t) : lower'[n] = lower[n]
      /\ \A n \in Gone(t) : lower'[n] = None /\ \A c \in Nodes : lower[c] # n
      /\ th[t].op = "rename" => lower'[th[t].x] = th[t].q
  BY DEF Acted
<1>2. lower \in Trees /\ IsTree(lower) /\ Busy(t)
  BY <1>1, Types DEF LowerIsTree, IsTree, Busy
<1>3. /\ CallOf(t) /\ th[t].z \in Nodes \cup {None} /\ th[t].x \in Nodes
      /\ th[t].z # None => th[t].z \in Gone(t)
      /\ th[t].op \in Removing => /\ Mine(t) = {th[t].x} /\ Gone(t) = {th[t].x}
      /\ th[t].op = "rename" => Mine(t) = {th[t].x} \cup ({th[t].z} \ {None})
  BY <1>1, <1>2, MineOf DEF CallOf
<1>4. CASE th[t].op \in Removing
  <2>1. IsTree(lower')
    <3>1. /\ \A n \in Nodes : lower[n] # th[t].x
          /\ lower'[th[t].x] = None /\ \A n \in Nodes : n # th[t].x => lower'[n] = lower[n]
      BY <1>1, <1>3, <1>4
    <3> QED
      BY <1>1, <1>2, <1>3, <3>1, Prune
  <2> QED
    BY <1>1, <1>3, <1>4, <2>1
<1>5. CASE th[t].op = "rename"
  <2> DEFINE x == th[t].x
             z == th[t].z
             q == th[t].q
  <2>1. /\ q \in Dirs /\ z # x /\ lower[x] = th[t].p /\ (z # None => lower[z] = q)
        /\ z = None => q = th[t].y
    BY <1>1, <1>3, <1>5, Sets DEF LocalInv, LocalOf, CallOf, IsIn, GivenDir
  <2>2. lower[x] = q \/ x \notin Ancestors(lower, q)
    BY <1>1, <1>5, <2>1 DEF TrapInv, TrapOf
  <2>3. z = None /\ q # Root => lower[q] # None
    BY <1>2, <1>5, <2>1 DEF AliveInv, AliveOf
  <2>4. z # None => lower'[z] = None /\ \A c \in Nodes : lower[c] # z
    BY <1>1, <1>3
  <2>5. lower'[x] = q /\ \A n \in Nodes : n # x /\ n # z => lower'[n] = lower[n]
    BY <1>1, <1>3, <1>5
  <2>6. x \in Nodes /\ z \in Nodes \cup {None}
    BY <1>3
  <2> HIDE DEF x, z, q
  <2>7. IsTree(lower')
    BY <1>1, <1>2, <2>1, <2>2, <2>3, <2>4, <2>5, <2>6, Replace
  <2>8. th[t].p = q => \A n \in Nodes : lower'[n] = lower[n] \/ lower'[n] = None
    BY <2>1, <2>4, <2>5, <2>6, Sets
  <2> QED
    BY <1>5, <2>7, <2>8 DEF q
<1> QED
  BY <1>1, <1>4, <1>5 DEF Moving

\* The lower tree stays a tree.
LEMMA TreeStep ==
    ASSUME TypeOK, CallInv, LocalInv, AliveInv, LowerIsTree, TrapInv, Next
    PROVE  LowerIsTree'
<1>0. IsTree(lower) /\ lower \in Trees
  BY Types DEF LowerIsTree, IsTree
<1>1. ASSUME NEW t \in Threads, Acted(t)
      PROVE  IsTree(lower')
  BY <1>1, ActedTree
<1>2. ASSUME NEW t \in Threads, Entered(t) \/ Quiet(t) \/ Returned(t) \/ Finished(t)
      PROVE  IsTree(lower')
  <2>1. lower' = lower
    BY <1>2 DEF Entered, Quiet, Returned, Finished
  <2> QED
    BY <1>0, <2>1
<1>3. ASSUME NEW m \in Direct, Displaced(m[1], m[2])
      PROVE  IsTree(lower')
  BY <1>0, <1>3, Graft DEF Displaced
<1>4. IsTree(lower')
  BY <1>1, <1>2, <1>3, Kinds
<1> QED
  BY <1>4 DEF LowerIsTree, IsTree

\* What a rename has checked of the lower tree stays true until it has renamed: it holds the
\* rename mutex, and what the others do without it only removes nodes.
LEMMA TrapStep ==
    ASSUME TypeOK, CallInv, LocalInv, LowerLockInv, AliveInv, LowerIsTree, TrapInv, Next
    PROVE  TrapInv'
<1> SUFFICES ASSUME NEW u \in Threads
             PROVE  TrapOf(u)'
  BY DEF TrapInv
<1>0. /\ IsTree(lower) /\ lower \in Trees /\ TrapOf(u) /\ LockOf(u) /\ LocalOf(u)
      /\ u # None
  BY Types, NoneAssumption DEF LowerIsTree, IsTree, TrapInv, LowerLockInv, LocalInv
<1>1. ASSUME th'[u] = th[u], lower' \in Trees,
             \A n \in Nodes : lower'[n] = lower[n] \/ lower'[n] = None
      PROVE  TrapOf(u)'
  <2> SUFFICES ASSUME th[u].pc = "act", th[u].op = "rename", th[u].p # th[u].q,
                      lower'[th[u].x] = th[u].p
               PROVE  th[u].x \notin Ancestors(lower', th[u].q)
    BY <1>1 DEF TrapOf
  <2>1. th[u].p \in Dirs /\ th[u].q \in Dirs /\ th[u].x \in Nodes
    BY <1>0 DEF LocalOf, CallInv, CallOf, Busy, Moving
  <2>2. lower[th[u].x] = th[u].p
    BY <1>1, <2>1, Sets
  <2>3. th[u].x \notin Ancestors(lower, th[u].q)
    BY <1>0, <2>2 DEF TrapOf
  <2>4. Ancestors(lower', th[u].q) \subseteq Ancestors(lower, th[u].q)
    BY <1>0, <1>1, <2>1, AncestorsShrink
  <2> QED
    BY <2>3, <2>4
<1>2. ASSUME NEW t \in Threads, t # u, Enter(t) \/ Step(t)
      PROVE  TrapOf(u)'
  <2>1. th'[u] = th[u]
    BY <1>2, KeptSteps DEF Kept
  <2>2. Entered(t) \/ Quiet(t) \/ Returned(t) \/ Acted(t) \/ Finished(t)
    BY <1>2, EnterEffect, QuietSteps, CheckStep, ActSteps, DoneStep, ElseStep DEF Step
  <2>3. CASE Acted(t)
    <3>1. CASE th[t].op = "rename" /\ th[t].p # th[t].q
      <4>1. lrename = t
        BY <2>3, <3>1 DEF Acted, LowerLockInv, LockOf
      <4> QED
        BY <1>0, <1>2, <2>1, <4>1 DEF TrapOf, LockOf
    <3>2. CASE th[t].op # "rename" \/ th[t].p = th[t].q
      BY <1>1, <2>1, <2>3, <3>2, ActedTree DEF Acted
    <3> QED
      BY <3>1, <3>2
  <2>4. CASE Entered(t) \/ Quiet(t) \/ Returned(t) \/ Finished(t)
    <3>1. lower' = lower
      BY <2>4 DEF Entered, Quiet, Returned, Finished
    <3> QED
      BY <1>0, <1>1, <2>1, <3>1
  <2> QED
    BY <2>2, <2>3, <2>4
<1>3. CASE Enter(u)
  BY <1>3, EnterEffect DEF Entered, TrapOf
<1>4. CASE Step(u)
  <2> SUFFICES ASSUME th'[u].pc = "act", th'[u].op = "rename", th'[u].p # th'[u].q,
                      lower'[th'[u].x] = th'[u].p
               PROVE  th'[u].x \notin Ancestors(lower', th'[u].q)
    BY DEF TrapOf
  <2>1. /\ Quiet(u)
        /\ \/ dget_parent(u)
           \/ /\ th[u].pc \in Ordering \cup {"lock"}
              /\ th'[u].p = th[u].p /\ th'[u].q = th[u].q
    BY <1>4, LocalsKept
  <2>2. th'[u].op = th[u].op /\ th'[u].x = th[u].x /\ lower' = lower /\ Busy(u)
    BY <2>1 DEF Quiet, Busy
  <2>3. ~dget_parent(u)
    BY ParentsFound
  <2>4. th[u].pc # "lock"
    BY <1>0, <2>1, <2>2, <2>3 DEF LocalOf
  <2>5. CheckTrap(u)
    <3>1. ASSUME NEW l \in PCs, Goto(u, l)
          PROVE  l = "act"
      BY <3>1, Types, GotoEffect
    <3>2. ~LockOrder(u) /\ ~LockFirst(u) /\ ~LockSecond(u)
      BY <3>1 DEF LockOrder, LockFirst, LockSecond, PCs
    <3> QED
      BY <1>4, <2>1, <2>3, <2>4, <3>2 DEF Step, LockOne, ActElse, ActRemove, ActRename, ActBug,
         Done, Ordering
  <2>6. Trap(lower, th[u].p, th[u].q) \notin {th[u].x, th[u].z} \ {None}
    <3>1. ~Returned(u)
      BY DEF Returned, Freed
    <3> QED
      BY <2>5, <3>1, CheckStep
  <2>7. th[u].p \in Dirs /\ th[u].q \in Dirs /\ th[u].x \in Nodes /\ th[u].p # th[u].q
    BY <1>0, <2>1, <2>2, <2>3, <2>4 DEF LocalOf, CallInv, CallOf, Moving
  <2> QED
    BY <1>0, <2>1, <2>2, <2>3, <2>6, <2>7, TrapAbove, Sets
<1>5. ASSUME NEW m \in Direct, MoveDirectly(m[1], m[2])
      PROVE  TrapOf(u)'
  <2>1. lrename = None /\ th' = th
    BY <1>5 DEF MoveDirectly
  <2> QED
    BY <1>0, <2>1 DEF TrapOf, LockOf
<1> QED
  BY <1>2, <1>3, <1>4, <1>5 DEF Next

\* What the return of a call is to the upper tree.
LEMMA FinishedTree ==
    ASSUME TypeOK, CallInv, LocalInv, AliveInv, UpperInv, moves = 0,
           NEW t \in Threads, Finished(t)
    PROVE  /\ IsTree(upper')
           /\ th[t].op # "rename" \/ upper[th[t].x] = th[t].y =>
                 \A n \in Nodes : upper'[n] = upper[n] \/ upper'[n] = None
<1>1. /\ th[t].pc = "done" /\ Busy(t) /\ upper' \in Trees /\ th[t].op \in Moving
      /\ \A n \in Nodes \ Mine(t) : upper'[n] = upper[n]
      /\ upper'[th[t].x] = th[t].y /\ (th[t].z # None => upper'[th[t].z] = None)
  BY DEF Finished, Busy, LocalInv, LocalOf
<1>2. /\ upper \in Trees /\ IsTree(upper) /\ UpperOf(t)
      /\ \A n \in Gone(t), c \in Nodes : upper[c] # n
  BY <1>1, Types DEF UpperInv, UpperOf
<1>3. /\ CallOf(t) /\ th[t].z \in Nodes \cup {None} /\ th[t].x \in Nodes
      /\ th[t].z # None => th[t].z \in Gone(t)
      /\ th[t].op \in Removing => /\ Mine(t) = {th[t].x} /\ Gone(t) = {th[t].x}
                                  /\ th[t].y = None
      /\ th[t].op = "rename" => Mine(t) = {th[t].x} \cup ({th[t].z} \ {None})
  BY <1>1, MineOf DEF CallOf
<1>4. CASE th[t].op \in Removing
  <2>1. IsTree(upper')
    <3>1. /\ \A n \in Nodes : upper[n] # th[t].x
          /\ upper'[th[t].x] = None /\ \A n \in Nodes : n # th[t].x => upper'[n] = upper[n]
      BY <1>1, <1>2, <1>3, <1>4
    <3> QED
      BY <1>1, <1>2, <1>3, <3>1, Prune
  <2> QED
    BY <1>1, <1>3, <1>4, <2>1
<1>5. CASE th[t].op = "rename"
  <2> DEFINE x == th[t].x
             z == th[t].z
             y == th[t].y
  <2>1. /\ y \in Dirs /\ z # x /\ (z # None => upper[z] = y)
        /\ x \in Nodes /\ z \in Nodes \cup {None}
    BY <1>3, <1>5, Sets DEF CallOf
  <2>2. upper[x] = y \/ x \notin Ancestors(upper, y)
    BY <1>1, <1>2, <1>5 DEF UpperOf
  <2>3. ASSUME z = None, y # Root
        PROVE  upper[y] # None
    <3>1. lower[y] # None /\ y \in Nodes
      BY <1>1, <1>5, <2>1, <2>3, Sets DEF AliveInv, AliveOf
    <3>2. CASE upper[y] = None <=> lower[y] = None
      BY <3>1, <3>2
    <3>3. CASE Half(y)
      <4>1. PICK u \in Threads : y \in Mine(u)
        BY <3>3 DEF Half
      <4> QED
        BY <4>1, MineLocked, Sets
    <3> QED
      BY <3>1, <3>2, <3>3 DEF AliveInv
  <2>4. z # None => upper'[z] = None /\ \A c \in Nodes : upper[c] # z
    BY <1>1, <1>2, <1>3
  <2>5. upper'[x] = y /\ \A n \in Nodes : n # x /\ n # z => upper'[n] = upper[n]
    BY <1>1, <1>3, <1>5
  <2> HIDE DEF x, z, y
  <2>6. IsTree(upper')
    BY <1>1, <1>2, <2>1, <2>2, <2>3, <2>4, <2>5, Replace
  <2>7. upper[x] = y => \A n \in Nodes : upper'[n] = upper[n] \/ upper'[n] = None
    BY <2>1, <2>4, <2>5, Sets
  <2> QED
    BY <1>5, <2>6, <2>7 DEF x, y
<1> QED
  BY <1>1, <1>4, <1>5 DEF Moving

\* Until the first direct move the upper tree stays a tree, what is removed from it is
\* empty, and what the VFS has checked of a rename stays true until the call returns.
LEMMA UpperStep ==
    ASSUME TypeOK, CallInv, LocalInv, AliveInv, StepInv, UpperInv, Next
    PROVE  UpperInv'
<1> SUFFICES ASSUME moves' = 0
             PROVE  IsTree(upper') /\ \A u \in Threads : UpperOf(u)'
  BY DEF UpperInv, IsTree
<1> DEFINE Good == IsTree(upper') /\ \A u \in Threads : UpperOf(u)'
<1>0. ASSUME UNCHANGED moves
      PROVE  moves = 0 /\ IsTree(upper) /\ \A u \in Threads : UpperOf(u)
  BY <1>0 DEF UpperInv
<1>t. upper \in Trees
  BY Types
<1>1. ASSUME UNCHANGED <<upper, moves>>, NEW u \in Threads, th'[u] = th[u],
             Gone(u)' = Gone(u)
      PROVE  UpperOf(u)'
  BY <1>0, <1>1 DEF UpperOf, Busy
<1>2. ASSUME NEW t \in Threads, Entered(t)
      PROVE  Good
  <2>1. /\ \A u \in Threads : u # t => Gone(u)' = Gone(u) /\ th'[u] = th[u]
        /\ th'[t].pc # "done"
    BY <1>2, MineEntered
  <2>2. UNCHANGED <<upper, moves>>
    BY <1>2 DEF Entered
  <2>3. ASSUME th'[t].op = "rename", upper[th'[t].x] # th'[t].y
        PROVE  /\ th'[t].x \notin Ancestors(upper, th'[t].y)
               /\ th'[t].z # None => th'[t].z \notin Ancestors(upper, upper[th'[t].x])
    <3> DEFINE x == th'[t].x
               y == th'[t].y
               z == th'[t].z
               p == upper[x]
    <3>1. /\ x \in Nodes /\ y \in Dirs /\ p # None /\ p # y
          /\ Trap(upper, p, y) \notin {x, z} \ {None}
          /\ z # None => z \in Nodes /\ upper[z] = y
      BY <1>2, <2>3 DEF Entered, Moving
    <3>2. p \in Dirs /\ IsTree(upper)
      BY <1>0, <1>t, <2>2, <3>1 DEF Trees
    <3> HIDE DEF x, y, z, p
    <3>3. upper[x] = p
      BY DEF p
    <3>4. x \notin Ancestors(upper, y)
      BY <1>t, <3>1, <3>2, <3>3, TrapAbove, Sets
    <3>5. z # None => z \notin Ancestors(upper, p)
      BY <1>t, <3>1, <3>2, TrapAbove, Sets
    <3> QED
      BY <3>4, <3>5 DEF x, y, z, p
  <2>4. UpperOf(t)'
    BY <2>1, <2>2, <2>3 DEF UpperOf
  <2> QED
    BY <1>0, <1>1, <2>1, <2>2, <2>4
<1>3. ASSUME NEW t \in Threads, Quiet(t) \/ Acted(t)
      PROVE  Good
  <2>1. /\ \A u \in Threads : Gone(u)' = Gone(u)
        /\ \A u \in Threads : u # t => th'[u] = th[u]
        /\ th'[t].x = th[t].x /\ th'[t].y = th[t].y /\ th'[t].z = th[t].z
        /\ th'[t].op = th[t].op /\ Busy(t) /\ th[t].pc # "done"
    BY <1>3, MineSteps
  <2>2. UNCHANGED <<upper, moves>>
    BY <1>3 DEF Quiet, Acted
  <2>3. ASSUME th'[t].pc = "done", NEW n \in Gone(t), NEW c \in Nodes, upper[c] = n
        PROVE  FALSE
    <3>1. Acted(t)
      BY <1>3, <2>3 DEF Quiet
    <3>2. lower[c] # upper[c] /\ umutex[upper[c]] = t
      BY <2>3, <3>1, GoneLocked DEF Acted
    <3>3. PICK u \in Threads : th[u].pc = "done" /\ c \in Mine(u)
      BY <1>0, <2>2, <3>2 DEF StepInv, Half
    <3> QED
      BY <2>1, <3>2, <3>3, MineLocked
  <2>4. UpperOf(t)'
    BY <1>0, <2>1, <2>2, <2>3 DEF UpperOf
  <2> QED
    BY <1>0, <1>1, <2>1, <2>2, <2>4
<1>4. ASSUME NEW t \in Threads, Returned(t)
      PROVE  Good
  <2>1. Freed(t) /\ UNCHANGED <<upper, moves>>
    BY <1>4 DEF Returned
  <2>2. /\ \A u \in Threads : u # t => Gone(u)' = Gone(u) /\ th'[u] = th[u]
        /\ ~Busy(t)' /\ th'[t].pc = "idle"
    BY <2>1, MineFreed
  <2>3. UpperOf(t)'
    BY <2>2 DEF UpperOf
  <2> QED
    BY <1>0, <1>1, <2>1, <2>2, <2>3
<1>5. ASSUME NEW t \in Threads, Finished(t)
      PROVE  Good
  <2>1. /\ Freed(t) /\ UNCHANGED moves /\ th[t].pc = "done" /\ Busy(t) /\ upper' \in Trees
        /\ \A n \in Nodes \ Mine(t) : upper'[n] = upper[n]
        /\ upper'[th[t].x] = th[t].y /\ (th[t].z # None => upper'[th[t].z] = None)
    BY <1>5 DEF Finished, Busy
  <2>2. /\ \A u \in Threads : u # t =>
              Mine(u)' = Mine(u) /\ Gone(u)' = Gone(u) /\ th'[u] = th[u]
        /\ ~Busy(t)' /\ th'[t].pc = "idle"
    BY <2>1, MineFreed
  <2>3. UpperOf(t)'
    BY <2>2 DEF UpperOf
  <2>4. /\ IsTree(upper')
        /\ th[t].op # "rename" \/ upper[th[t].x] = th[t].y =>
              \A n \in Nodes : upper'[n] = upper[n] \/ upper'[n] = None
    BY <1>0, <1>5, <2>1, FinishedTree
  <2>5. ASSUME NEW u \in Threads, u # t
        PROVE  UpperOf(u)'
    <3>1. ASSUME th[u].pc = "done", NEW n \in Gone(u), NEW c \in Nodes, upper'[c] = n
          PROVE  FALSE
      <4>1. umutex[n] = u /\ n \in Nodes /\ upper[c] # n
        BY <1>0, <2>1, <3>1, GoneLocked DEF UpperOf, Gone
      <4>2. c \in Mine(t)
        BY <2>1, <3>1, <4>1
      <4>3. c = th[t].x \/ (c = th[t].z /\ th[t].z # None)
        BY <4>2, Sets DEF Mine
      <4>4. n = th[t].y
        BY <2>1, <3>1, <4>1, <4>3, Sets
      <4>5. th[t].op \in Moving /\ CallOf(t)
        BY <2>1 DEF LocalInv, LocalOf, CallInv
      <4> QED
        BY <2>5, <4>1, <4>4, <4>5, Sets DEF CallOf, Moving
    <3>2. ASSUME Busy(u), th[u].op = "rename", upper'[th[u].x] # th[u].y
          PROVE  /\ th[u].x \notin Ancestors(upper', th[u].y)
                 /\ th[u].z # None => th[u].z \notin Ancestors(upper', upper'[th[u].x])
      <4>1. CallOf(u) /\ th[u].x \in Mine(u) /\ th[u].x \in Nodes /\ th[u].y \in Dirs
        BY <3>2, MineOf DEF CallOf, Moving
      <4>2. upper'[th[u].x] = upper[th[u].x] /\ upper[th[u].x] \in Dirs
        BY <2>1, <2>5, <4>1, Separate, MineLocked
      <4>3. urename = u
        BY <3>2, <4>1, <4>2 DEF CallOf
      <4>4. th[t].op # "rename" \/ upper[th[t].x] = th[t].y
        BY <2>1, <2>5, <4>3 DEF CallInv, CallOf
      <4>5. \A n \in Nodes : upper'[n] = upper[n] \/ upper'[n] = None
        BY <2>4, <4>4
      <4>6. /\ Ancestors(upper', th[u].y) \subseteq Ancestors(upper, th[u].y)
            /\ Ancestors(upper', upper[th[u].x]) \subseteq Ancestors(upper, upper[th[u].x])
        BY <1>t, <2>1, <4>1, <4>2, <4>5, AncestorsShrink
      <4>7. /\ th[u].x \notin Ancestors(upper, th[u].y)
            /\ th[u].z # None => th[u].z \notin Ancestors(upper, upper[th[u].x])
        BY <1>0, <2>1, <3>2, <4>2 DEF UpperOf
      <4> QED
        BY <4>2, <4>6, <4>7
    <3> QED
      BY <2>2, <2>5, <3>1, <3>2 DEF UpperOf, Busy
  <2> QED
    BY <2>3, <2>4, <2>5
<1>6. ASSUME NEW m \in Direct, Displaced(m[1], m[2])
      PROVE  FALSE
  BY <1>6 DEF Displaced
<1> HIDE DEF Good
<1>7. Good
  BY <1>2, <1>3, <1>4, <1>5, <1>6, Kinds
<1> QED
  BY <1>7 DEF Good

-----------------------------------------------------------------------------
\* The lower locks are given back

\* Until the first direct move a rename is never refused for what lock_rename returns: the
\* VFS has asked the same of the upper tree, and the lower one has no more above anything.
LEMMA NeverRefused ==
    ASSUME TypeOK, CallInv, LocalInv, AliveInv, StepInv, ParentInv, UpperInv, moves = 0,
           NEW t \in Threads, th[t].pc = "trap"
    PROVE  Trap(lower, th[t].p, th[t].q) \notin {th[t].x, th[t].z} \ {None}
<1> DEFINE x == th[t].x
           z == th[t].z
           p == th[t].p
           q == th[t].q
<1>1. /\ th[t].op = "rename" /\ p \in Dirs /\ q \in Dirs /\ p # q /\ Busy(t)
      /\ p = upper[x] /\ q = th[t].y
  BY DEF LocalInv, LocalOf, ParentInv, ParentOf, Ordering, Moving, Busy
<1>2. /\ CallOf(t) /\ z \in Nodes \cup {None} /\ x \in Mine(t)
      /\ z # None => z \in Mine(t)
  BY <1>1, MineOf DEF Moving
<1>3. urename = t /\ x \in Nodes /\ (z # None => upper[z] = q)
  BY <1>1, <1>2 DEF CallOf, Moving
<1>4. lower[x] = p /\ (z # None => lower[z] = q)
  BY <1>1, <1>2, <1>3 DEF StepInv, StepOf
<1>5. x \notin Ancestors(upper, q) /\ (z # None => z \notin Ancestors(upper, p))
  BY <1>1 DEF UpperInv, UpperOf
<1>6. ASSUME NEW n \in Nodes
      PROVE  lower[n] = upper[n] \/ lower[n] = None
  <2>1. CASE Half(n)
    <3>1. PICK u \in Threads : th[u].pc = "done" /\ n \in Mine(u)
      BY <2>1 DEF Half
    <3>2. Busy(u) /\ u # t /\ th[u].op \in Moving /\ CallOf(u) /\ StepOf(u) /\ AliveOf(u)
      BY <3>1 DEF Busy, LocalInv, LocalOf, CallInv, StepInv, AliveInv
    <3>3. n \in Gone(u) => lower[n] = None
      BY <3>1, <3>2 DEF AliveOf
    <3>4. n \notin Gone(u) => n = th[u].x /\ th[u].op = "rename"
      BY <3>1, <3>2, MineOf DEF Moving
    <3>5. ASSUME n = th[u].x, th[u].op = "rename"
          PROVE  lower[n] = upper[n]
      BY <1>3, <3>1, <3>2, <3>5 DEF StepOf, CallOf
    <3> QED
      BY <3>3, <3>4, <3>5
  <2> QED
    BY <2>1 DEF StepInv
<1>7. /\ Ancestors(lower, p) \subseteq Ancestors(upper, p)
      /\ Ancestors(lower, q) \subseteq Ancestors(upper, q)
  BY <1>1, <1>6, Types, AncestorsShrink
<1>8. ASSUME NEW r, NEW d, d_ancestor(lower, r, d) # None
      PROVE  /\ d_ancestor(lower, r, d) \in Ancestors(lower, d)
             /\ lower[d_ancestor(lower, r, d)] = r
  BY <1>8 DEF d_ancestor
<1> DEFINE n == Trap(lower, p, q)
<1>9. ASSUME n # None
      PROVE  \/ n \in Ancestors(lower, p) /\ lower[n] = q
             \/ n \in Ancestors(lower, q) /\ lower[n] = p
  BY <1>1, <1>8, <1>9 DEF Trap
<1> HIDE DEF n, x, z, p, q
<1>10. n \notin {x, z} \ {None}
  BY <1>1, <1>4, <1>5, <1>7, <1>9
<1> QED
  BY <1>10 DEF n, x, z, p, q

\* Who holds a lower lock, until the first direct move.
LEMMA HeldStep ==
    ASSUME TypeOK, CallInv, LocalInv, AliveInv, StepInv, ParentInv, UpperInv, HeldInv, Next
    PROVE  HeldInv'
<1> SUFFICES ASSUME moves' = 0, NEW u \in Threads
             PROVE  HeldOf(u)'
  BY DEF HeldInv
<1>0. ASSUME UNCHANGED moves
      PROVE  HeldOf(u) /\ moves = 0
  BY <1>0 DEF HeldInv
<1>1. ASSUME UNCHANGED <<lmutex, lrename, moves>>,
             th'[u].pc \in {"idle", "parent", "lock", "order", "done"}
             => th[u].pc \in {"idle", "parent", "lock", "order", "done"}
      PROVE  HeldOf(u)'
  BY <1>0, <1>1 DEF HeldOf, Holds
<1>2. ASSUME NEW t \in Threads, t # u, Enter(t) \/ Step(t)
      PROVE  HeldOf(u)'
  <2>1. /\ th'[u] = th[u] /\ (lrename' = u <=> lrename = u)
        /\ \A d \in Dirs : lmutex'[d] = u <=> lmutex[d] = u
    BY <1>2, KeptSteps DEF Kept
  <2>2. Entered(t) \/ Quiet(t) \/ Returned(t) \/ Acted(t) \/ Finished(t)
    BY <1>2, EnterEffect, QuietSteps, CheckStep, ActSteps, DoneStep, ElseStep DEF Step
  <2>3. UNCHANGED moves
    BY <2>2 DEF Entered, Quiet, Returned, Acted, Finished
  <2> QED
    BY <1>0, <2>1, <2>3 DEF HeldOf, Holds
<1>3. CASE Enter(u)
  BY <1>1, <1>3, EnterEffect DEF Entered
<1>4. CASE dget_parent(u)
  BY <1>1, <1>4, ParentsFound DEF dget_parent
<1>5. ASSUME NEW l \in PCs, Goto(u, l), l \notin {"idle", "parent", "lock", "order", "done"}
      PROVE  HeldOf(u)'
  BY <1>5, Types, GotoEffect DEF HeldOf
<1>6. CASE LockOne(u) \/ LockOrder(u) \/ LockFirst(u) \/ LockSecond(u) \/ ActBug(u)
  BY <1>5, <1>6 DEF LockOne, LockOrder, LockFirst, LockSecond, ActBug, PCs
<1>7. CASE CheckTrap(u)
  <2>1. th[u].pc = "trap" /\ UNCHANGED moves
    BY <1>7 DEF CheckTrap
  <2>2. Trap(lower, th[u].p, th[u].q) \notin {th[u].x, th[u].z} \ {None}
    BY <1>0, <2>1, NeverRefused
  <2>3. Goto(u, "act") /\ "act" \in PCs
    BY <1>7, <2>2 DEF CheckTrap, PCs
  <2> QED
    BY <1>5, <2>3
<1>8. CASE ActElse(u) \/ ActRemove(u) \/ ActRename(u)
  <2>1. Unlock(u) /\ u # None
    BY <1>8, NoneAssumption DEF ActElse, ActRemove, ActRename
  <2> QED
    BY <2>1, Types, UnlockEffect DEF HeldOf, Holds
<1>9. CASE Done(u)
  BY <1>1, <1>9 DEF Done
<1>10. ASSUME NEW m \in Direct, MoveDirectly(m[1], m[2])
       PROVE  FALSE
  BY <1>10, DirectStep DEF Displaced
<1> QED
  BY <1>2, <1>3, <1>4, <1>6, <1>7, <1>8, <1>9, <1>10 DEF Next, Step
-----------------------------------------------------------------------------
\* Nobody waits in a circle

\* A call that makes an entry has the directory of the entry locked in the upper tree, and
\* locks the same one in the lower tree.
EntryOf(t) == Busy(t) /\ th[t].op = "entry" =>
    umutex[th[t].x] = t /\ (th[t].pc \in {"lock", "act"} => th[t].p = th[t].x)

EntryInv == \A t \in Threads : EntryOf(t)

\* A call that works on a node itself, with the node locked.
Alone(t) == th[t].pc = "act" /\ th[t].op = "self"

\* Until the first direct move, whoever has a lower directory locked is on the way to its
\* lower operation, and it is one of the directories of the call.
OwnedOf(t) == \A d \in Dirs : lmutex[d] = t =>
    \/ Alone(t)
    \/ th[t].pc = "secondp" /\ d = th[t].q
    \/ th[t].pc = "secondq" /\ d = th[t].p
    \/ th[t].pc \in {"trap", "act"} /\ (d = th[t].p \/ (d = th[t].q /\ th[t].op = "rename"))

OwnedInv == moves = 0 => \A t \in Threads : OwnedOf(t)

\* t can go on only when u unlocks something: mutex_lock, lock_rename, or the lock of what
\* vfs_unlink, vfs_rmdir and vfs_rename remove or replace.
WaitsFor(t, u) ==
    \/ th[t].pc = "lock" /\ lmutex[IF th[t].op = "self" THEN th[t].x ELSE th[t].p] = u
    \/ th[t].pc = "order" /\ lrename = u
    \/ th[t].pc = "first" /\ u = lmutex[IF d_ancestor(lower, th[t].q, th[t].p) # None
                                        THEN th[t].q ELSE th[t].p]
    \/ th[t].pc = "secondp" /\ lmutex[th[t].p] = u
    \/ th[t].pc = "secondq" /\ lmutex[th[t].q] = u
    \/ th[t].pc = "act" /\ th[t].op \in Removing /\ lmutex[th[t].x] = u
    \/ th[t].pc = "act" /\ th[t].z # None /\ lmutex[th[t].z] = u

\* Among any threads there is one that waits for none of them.
NoCircle == moves = 0 => \A S \in SUBSET Threads :
    S # {} => \E t \in S : \A u \in S : ~WaitsFor(t, u)

\* What a call that makes an entry has locked is kept by the steps of every thread.
LEMMA EntryStep ==
    ASSUME IInv, EntryInv, Next
    PROVE  EntryInv'
<1> SUFFICES ASSUME NEW u \in Threads, Busy(u)', th'[u].op = "entry"
             PROVE  /\ umutex'[th'[u].x] = u
                    /\ th'[u].pc \in {"lock", "act"} => th'[u].p = th'[u].x
  BY DEF EntryInv, EntryOf
<1>0. /\ TypeOK /\ CallInv /\ LocalInv /\ AliveInv /\ EntryOf(u) /\ None \notin Threads
      /\ Busy(u) => th[u].x \in Dirs
  BY NoneAssumption DEF IInv, EntryInv, CallInv, CallOf
<1>1. ASSUME NEW t \in Threads, t # u, Entered(t) \/ Quiet(t) \/ Returned(t) \/ Acted(t)
                                       \/ Finished(t)
      PROVE  th'[u] = th[u] /\ (Busy(u) /\ umutex[th[u].x] = u => umutex'[th[u].x] = u)
  BY <1>0, <1>1 DEF Entered, Quiet, Returned, Acted, Finished, Freed
<1>2. ASSUME NEW t \in Threads, t # u, Enter(t) \/ Step(t)
      PROVE  /\ umutex'[th'[u].x] = u
             /\ th'[u].pc \in {"lock", "act"} => th'[u].p = th'[u].x
  <2>1. Entered(t) \/ Quiet(t) \/ Returned(t) \/ Acted(t) \/ Finished(t)
    BY <1>0, <1>2, EnterEffect, QuietSteps, CheckStep, ActSteps, DoneStep, ElseStep DEF Step
  <2> QED
    BY <1>0, <1>1, <1>2, <2>1 DEF EntryOf, Busy
<1>3. CASE Enter(u)
  BY <1>0, <1>3, EnterEffect DEF Entered
<1>4. CASE dget_parent(u)
  <2>1. Quiet(u)
    BY <1>0, <1>4, QuietSteps
  <2> QED
    BY <1>0, <1>4, <2>1, ParentsFound DEF Quiet, EntryOf, Busy
<1>5. CASE LockOne(u)
  <2>1. Quiet(u) /\ Goto(u, "act") /\ "act" \in PCs /\ th[u].pc = "lock"
    BY <1>0, <1>5, QuietSteps DEF LockOne, PCs
  <2>2. th'[u].p = th[u].p
    BY <1>0, <2>1, Types, GotoEffect
  <2> QED
    BY <1>0, <2>1, <2>2 DEF Quiet, EntryOf, Busy
<1>6. CASE LockOrder(u) \/ LockFirst(u) \/ LockSecond(u) \/ CheckTrap(u)
  <2>1. th[u].op = "rename" /\ Busy(u)
    BY <1>0, <1>6 DEF LockOrder, LockFirst, LockSecond, CheckTrap, LocalInv, LocalOf, Ordering,
       Busy
  <2>2. Quiet(u) \/ Returned(u)
    BY <1>0, <1>6, QuietSteps, CheckStep
  <2> QED
    BY <2>1, <2>2 DEF Quiet, Returned, Freed, Busy
<1>7. CASE ActBug(u)
  <2>1. Quiet(u) /\ Goto(u, "oops") /\ "oops" \in PCs
    BY <1>0, <1>7, QuietSteps DEF ActBug, PCs
  <2>2. th'[u].pc = "oops"
    BY <1>0, <2>1, Types, GotoEffect
  <2> QED
    BY <1>0, <2>1, <2>2 DEF Quiet, EntryOf, Busy
<1>8. CASE ActElse(u) \/ ActRemove(u) \/ ActRename(u) \/ Done(u)
  <2>1. Returned(u) \/ Acted(u) \/ Finished(u)
    BY <1>0, <1>8, ActSteps, DoneStep, ElseStep
  <2> QED
    BY <2>1 DEF Returned, Acted, Finished, Freed, Busy, Moving, Removing
<1>9. ASSUME NEW m \in Direct, MoveDirectly(m[1], m[2])
      PROVE  /\ umutex'[th'[u].x] = u
             /\ th'[u].pc \in {"lock", "act"} => th'[u].p = th'[u].x
  BY <1>0, <1>9, DirectStep DEF Displaced, EntryOf, Busy
<1> QED
  BY <1>2, <1>3, <1>4, <1>5, <1>6, <1>7, <1>8, <1>9 DEF Next, Step

\* Until the first direct move, a lower operation finds its entry where it looks for it.
LEMMA InDir == IInv => DirOfEntry
<1> SUFFICES ASSUME IInv, moves = 0, NEW t \in Threads, th[t].pc = "act"
             PROVE  IsIn(t) /\ (th[t].op # "self" => lmutex[GivenDir(t)] = t)
  BY DEF DirOfEntry
<1>1. Busy(t) /\ TypeOK /\ CallInv
  BY DEF Busy, IInv
<1>2. /\ CallOf(t) /\ (th[t].op \in Moving => th[t].x \in Mine(t))
      /\ Gone(t) \subseteq Mine(t) /\ (th[t].z # None => th[t].z \in Gone(t))
  BY <1>1, MineOf
<1>3. /\ th[t].op \in Moving => th[t].p = upper[th[t].x]
      /\ th[t].op = "rename" => th[t].q = th[t].y
      /\ th[t].op # "self" => lmutex[th[t].p] = t
      /\ \A n \in Mine(t) : lower[n] = upper[n]
  BY DEF IInv, ParentInv, ParentOf, LowerLockInv, LockOf, StepInv, StepOf
<1>4. th[t].op \in Moving => GivenDir(t) = upper[th[t].x]
  BY <1>3 DEF GivenDir
<1>5. IsIn(t)
  BY <1>2, <1>3, <1>4 DEF IsIn, CallOf, Moving, Removing
<1>6. th[t].op # "self" => lmutex[GivenDir(t)] = t
  BY <1>3 DEF GivenDir, Moving, Removing
<1> QED
  BY <1>5, <1>6

\* Locks are taken on the way to the lower operation and given back with it.
LEMMA OwnedStep ==
    ASSUME IInv, OwnedInv, Next
    PROVE  OwnedInv'
<1> SUFFICES ASSUME moves' = 0, NEW u \in Threads
             PROVE  OwnedOf(u)'
  BY DEF OwnedInv
<1>0. /\ TypeOK /\ CallInv /\ LocalInv /\ AliveInv /\ LocalOf(u) /\ None \notin Threads
      /\ lmutex \in [Dirs -> Threads \cup {None}]
  BY NoneAssumption DEF IInv, LocalInv, TypeOK
<1>1. ASSUME UNCHANGED moves
      PROVE  moves = 0 /\ OwnedOf(u) /\ HeldOf(u)
  BY <1>1 DEF IInv, OwnedInv, HeldInv
<1>2. ASSUME NEW t \in Threads, t # u, Enter(t) \/ Step(t)
      PROVE  OwnedOf(u)'
  <2>1. th'[u] = th[u] /\ \A d \in Dirs : lmutex'[d] = u <=> lmutex[d] = u
    BY <1>0, <1>2, KeptSteps DEF Kept
  <2>2. Entered(t) \/ Quiet(t) \/ Returned(t) \/ Acted(t) \/ Finished(t)
    BY <1>0, <1>2, EnterEffect, QuietSteps, CheckStep, ActSteps, DoneStep, ElseStep DEF Step
  <2>3. UNCHANGED moves
    BY <2>2 DEF Entered, Quiet, Returned, Acted, Finished
  <2> QED
    BY <1>1, <2>1, <2>3 DEF OwnedOf, Alone
<1>3. ASSUME UNCHANGED <<lmutex, moves>>, th[u].pc \in {"idle", "parent", "order", "done"}
      PROVE  OwnedOf(u)'
  BY <1>1, <1>3 DEF OwnedOf, HeldOf, Holds
<1>4. CASE Enter(u)
  BY <1>0, <1>3, <1>4, EnterEffect DEF Entered
<1>5. CASE dget_parent(u) \/ LockOrder(u) \/ Done(u)
  BY <1>3, <1>5 DEF dget_parent, LockOrder, Done
<1>6. ASSUME NEW l \in PCs, Goto(u, l)
      PROVE  /\ th'[u].pc = l /\ th'[u].op = th[u].op
             /\ th'[u].p = th[u].p /\ th'[u].q = th[u].q
  BY <1>0, <1>6, Types, GotoEffect
<1>7. CASE LockOne(u)
  <2> DEFINE e == IF th[u].op = "self" THEN th[u].x ELSE th[u].p
  <2>1. /\ Goto(u, "act") /\ "act" \in PCs /\ th[u].pc = "lock" /\ UNCHANGED moves
        /\ lmutex' = [lmutex EXCEPT ![e] = u]
    BY <1>7 DEF LockOne, PCs
  <2>2. \A d \in Dirs : lmutex[d] # u
    BY <1>1, <2>1 DEF HeldOf, Holds
  <2>3. \A d \in Dirs : lmutex'[d] = u => d = e
    BY <1>0, <2>1, <2>2
  <2> QED
    BY <1>6, <2>1, <2>3 DEF OwnedOf, Alone
<1>8. CASE LockFirst(u)
  <2>1. /\ th[u].pc = "first" /\ UNCHANGED moves /\ "secondp" \in PCs /\ "secondq" \in PCs
        /\ \/ Goto(u, "secondp") /\ lmutex' = [lmutex EXCEPT ![th[u].q] = u]
           \/ Goto(u, "secondq") /\ lmutex' = [lmutex EXCEPT ![th[u].p] = u]
    BY <1>8 DEF LockFirst, PCs
  <2>2. \A d \in Dirs : lmutex[d] # u
    BY <1>1, <2>1 DEF OwnedOf, Alone
  <2> QED
    BY <1>0, <1>6, <2>1, <2>2 DEF OwnedOf
<1>9. CASE LockSecond(u)
  <2>1. /\ "trap" \in PCs /\ Goto(u, "trap") /\ UNCHANGED moves
        /\ \/ th[u].pc = "secondp" /\ lmutex' = [lmutex EXCEPT ![th[u].p] = u]
           \/ th[u].pc = "secondq" /\ lmutex' = [lmutex EXCEPT ![th[u].q] = u]
    BY <1>9 DEF LockSecond, PCs
  <2>2. \A d \in Dirs : lmutex[d] = u => d \in {th[u].p, th[u].q}
    BY <1>1, <2>1 DEF OwnedOf, Alone
  <2>3. \A d \in Dirs : lmutex'[d] = u => d \in {th[u].p, th[u].q}
    BY <1>0, <2>1, <2>2
  <2> QED
    BY <1>0, <1>6, <2>1, <2>3 DEF OwnedOf, LocalOf, Ordering
<1>10. CASE CheckTrap(u)
  <2>1. th[u].pc = "trap" /\ UNCHANGED <<lmutex, moves>>
    BY <1>10 DEF CheckTrap
  <2>2. Trap(lower, th[u].p, th[u].q) \notin {th[u].x, th[u].z} \ {None}
    BY <1>1, <2>1, NeverRefused DEF IInv
  <2>3. Goto(u, "act") /\ "act" \in PCs
    BY <1>10, <2>2 DEF CheckTrap, PCs
  <2> QED
    BY <1>1, <1>6, <2>1, <2>3 DEF OwnedOf, Alone
<1>11. CASE ActElse(u) \/ ActRemove(u) \/ ActRename(u)
  <2>1. Unlock(u)
    BY <1>11 DEF ActElse, ActRemove, ActRename
  <2> QED
    BY <1>0, <2>1, UnlockEffect DEF OwnedOf
<1>12. CASE ActBug(u)
  BY <1>1, <1>12, InDir DEF ActBug, DirOfEntry
<1>13. ASSUME NEW m \in Direct, MoveDirectly(m[1], m[2])
       PROVE  FALSE
  BY <1>0, <1>13, DirectStep DEF Displaced
<1> QED
  BY <1>2, <1>4, <1>5, <1>7, <1>8, <1>9, <1>10, <1>11, <1>12, <1>13 DEF Next, Step

\* Whoever has a lower directory locked works on it alone or has it locked in the upper
\* tree as well.
LEMMA LockedAbove ==
    ASSUME IInv, EntryInv, OwnedInv, moves = 0, NEW u \in Threads, NEW d \in Dirs, lmutex[d] = u
    PROVE  Alone(u) \/ umutex[d] = u
<1> SUFFICES ASSUME ~Alone(u)
             PROVE  umutex[d] = u
  OBVIOUS
<1>1. /\ th[u].pc \in {"secondp", "secondq", "trap", "act"} /\ d \in {th[u].p, th[u].q}
      /\ th[u].op # "self" /\ Busy(u)
  BY DEF IInv, OwnedInv, OwnedOf, Alone, LocalInv, LocalOf, Ordering, Busy
<1>2. CallOf(u) /\ LocalOf(u) /\ ParentOf(u) /\ EntryOf(u)
  BY <1>1 DEF IInv, CallInv, LocalInv, ParentInv, EntryInv
<1>3. CASE th[u].op = "entry"
  <2>1. th[u].pc = "act" /\ d = th[u].p
    BY <1>1, <1>2, <1>3 DEF IInv, OwnedInv, OwnedOf, Alone, LocalOf, Ordering
  <2> QED
    BY <1>1, <1>2, <1>3, <2>1 DEF EntryOf
<1>4. CASE th[u].op \in Removing
  <2>1. th[u].pc = "act" /\ d = th[u].p
    BY <1>1, <1>2, <1>4 DEF IInv, OwnedInv, OwnedOf, Alone, LocalOf, Ordering, Removing
  <2> QED
    BY <1>1, <1>2, <1>4, <2>1 DEF CallOf, ParentOf, Moving
<1>5. CASE th[u].op = "rename"
  BY <1>1, <1>2, <1>5 DEF CallOf, ParentOf, Moving, Ordering
<1> QED
  BY <1>1, <1>2, <1>3, <1>4, <1>5 DEF CallOf, Ops, Removing

\* A node of a tree is not its own directory.
LEMMA NotItself ==
    ASSUME NEW tree \in Trees, IsTree(tree), NEW n \in Nodes, tree[n] \in Dirs
    PROVE  tree[n] # n
<1>1. Root \in Ancestors(tree, n) /\ tree[n] # None
  BY Sets DEF IsTree
<1> QED
  BY <1>1, Acyclic, AncestorsLeast

\* A call that waits for a directory of its own waits for a call that works alone.
LEMMA WaitsForAlone ==
    ASSUME IInv, EntryInv, OwnedInv, moves = 0, NEW t \in Threads, NEW u \in Threads,
           WaitsFor(t, u), th[t].pc # "order", th[t].pc = "lock" => th[t].op # "self"
    PROVE  Alone(u)
<1>1. /\ th[t].pc \in {"lock", "first", "secondp", "secondq", "act"} /\ Busy(t)
      /\ CallOf(t) /\ LocalOf(t) /\ ParentOf(t) /\ EntryOf(t) /\ OwnedOf(t) /\ HeldOf(t)
      /\ IsTree(upper) /\ UpperOf(t) /\ upper \in Trees
  <2>1. th[t].pc \in {"lock", "first", "secondp", "secondq", "act"}
    BY DEF WaitsFor
  <2> QED
    BY <2>1, Types DEF IInv, CallInv, LocalInv, ParentInv, EntryInv, OwnedInv, HeldInv, UpperInv,
       Busy
<1>2. ASSUME NEW d \in Dirs, umutex[d] = t, lmutex[d] = u, lmutex[d] # t
      PROVE  Alone(u)
  BY <1>2, LockedAbove
<1>3. ASSUME th[t].op = "rename", th[t].pc \in Ordering \cup {"lock", "act"}
      PROVE  /\ th[t].p \in Dirs /\ umutex[th[t].p] = t
             /\ th[t].q \in Dirs /\ umutex[th[t].q] = t
  BY <1>1, <1>3 DEF CallOf, LocalOf, ParentOf, Moving
<1>4. CASE th[t].pc = "lock"
  <2>1. th[t].op # "self" /\ th[t].p \in Dirs /\ lmutex[th[t].p] = u /\ lmutex[th[t].p] # t
    BY <1>1, <1>4 DEF WaitsFor, LocalOf, HeldOf, Holds
  <2>2. umutex[th[t].p] = t
    BY <1>1, <1>3, <1>4, <2>1 DEF CallOf, ParentOf, EntryOf, Ops, Moving, Removing
  <2> QED
    BY <1>2, <2>1, <2>2
<1>5. CASE th[t].pc \in {"first", "secondp", "secondq"}
  <2>1. /\ th[t].op = "rename" /\ th[t].p # th[t].q /\ th[t].pc \in Ordering
        /\ th[t].p \in Dirs /\ umutex[th[t].p] = t
        /\ th[t].q \in Dirs /\ umutex[th[t].q] = t
    BY <1>1, <1>3, <1>5 DEF LocalOf, Ordering
  <2>2. PICK d \in {th[t].p, th[t].q} :
            /\ lmutex[d] = u
            /\ th[t].pc = "secondp" => d = th[t].p
            /\ th[t].pc = "secondq" => d = th[t].q
    BY <1>5 DEF WaitsFor
  <2>3. lmutex[d] # t
    BY <1>1, <1>5, <2>1, <2>2 DEF OwnedOf, Alone
  <2> QED
    BY <1>2, <2>1, <2>2, <2>3
<1>6. CASE th[t].pc = "act" /\ th[t].op \in Removing /\ lmutex[th[t].x] = u
  <2>1. /\ th[t].x \in Nodes /\ th[t].x \in Dirs /\ umutex[th[t].x] = t
        /\ upper[th[t].x] \in Dirs /\ th[t].p = upper[th[t].x]
    BY <1>1, <1>6, Sets DEF CallOf, ParentOf, Moving, Trees
  <2>2. lmutex[th[t].x] # t
    BY <1>1, <1>6, <2>1, NotItself DEF OwnedOf, Alone, Removing
  <2> QED
    BY <1>2, <1>6, <2>1, <2>2
<1>7. CASE th[t].pc = "act" /\ th[t].z # None /\ lmutex[th[t].z] = u
  <2>1. /\ th[t].op = "rename" /\ th[t].z \in Nodes /\ th[t].z \in Dirs
        /\ umutex[th[t].z] = t /\ upper[th[t].z] = th[t].y /\ th[t].y \in Dirs
        /\ th[t].p = upper[th[t].x] /\ th[t].q = th[t].y /\ th[t].p \in Dirs
    BY <1>1, <1>7, Types, Sets DEF IInv, Records, CallOf, ParentOf, LocalOf, Moving
  <2>2. th[t].z # th[t].q
    BY <1>1, <2>1, NotItself
  <2>3. th[t].z # th[t].p
    <3>1. CASE th[t].p = th[t].q
      BY <2>2, <3>1
    <3>2. CASE th[t].p # th[t].q
      <4>1. th[t].z \notin Ancestors(upper, th[t].p)
        BY <1>1, <1>7, <2>1, <3>2 DEF UpperOf
      <4> QED
        BY <1>1, <2>1, <4>1, AncestorsLeast
    <3> QED
      BY <3>1, <3>2
  <2>4. lmutex[th[t].z] # t
    BY <1>1, <1>7, <2>1, <2>2, <2>3 DEF OwnedOf, Alone
  <2> QED
    BY <1>2, <1>7, <2>1, <2>4
<1> QED
  BY <1>1, <1>4, <1>5, <1>6, <1>7 DEF WaitsFor

\* A call that works alone waits for nobody.
LEMMA AloneGoesOn ==
    ASSUME IInv, NEW t \in Threads, NEW u, Alone(t)
    PROVE  ~WaitsFor(t, u)
<1>1. th[t].z = None /\ th[t].op \notin Removing
  BY DEF IInv, CallInv, CallOf, Busy, Alone, Removing
<1> QED
  BY <1>1 DEF WaitsFor, Alone

\* What the others wait for is held by a call that is past its first waiting.
LEMMA WaitsForOwner ==
    ASSUME IInv, OwnedInv, moves = 0, NEW t \in Threads, NEW u \in Threads, WaitsFor(t, u),
           th[t].pc = "order" \/ (th[t].pc = "lock" /\ th[t].op = "self")
    PROVE  th[u].pc \notin {"lock", "order"}
<1>1. HeldOf(u) /\ OwnedOf(u)
  BY DEF IInv, HeldInv, OwnedInv
<1>2. CASE th[t].pc = "order"
  BY <1>1, <1>2 DEF WaitsFor, HeldOf, Holds
<1>3. CASE th[t].pc = "lock" /\ th[t].op = "self"
  <2>1. th[t].x \in Dirs /\ lmutex[th[t].x] = u
    BY <1>3 DEF IInv, CallInv, CallOf, Busy, WaitsFor
  <2> QED
    BY <1>1, <2>1 DEF HeldOf, Holds
<1> QED
  BY <1>2, <1>3
-----------------------------------------------------------------------------
\* The mount begins with two equal trees, no call and no lock.
LEMMA InitIInv == Init => IInv
<1> SUFFICES ASSUME Init
             PROVE  IInv
  OBVIOUS
<1>1. /\ upper = InitTree /\ lower = InitTree
      /\ umutex = [d \in Dirs |-> None] /\ lmutex = [d \in Dirs |-> None]
      /\ urename = None /\ lrename = None /\ moves = 0
      /\ th = [t \in Threads |-> Idle]
  BY DEF Init
<1>2. \A t \in Threads : th[t] = Idle /\ th[t].pc = "idle" /\ ~Busy(t)
  BY <1>1, IdleRecord DEF Busy
<1>3. \A t \in Threads : Mine(t) = {} /\ Gone(t) = {}
  BY <1>2 DEF Mine, Gone
<1>4. TypeOK
  <2>1. th \in [Threads -> Records]
    BY <1>1, IdleRecord
  <2>2. upper \in Trees /\ lower \in Trees
    BY <1>1, TreeAssumption DEF Trees
  <2>3. moves \in 0 .. MaxMoves
    BY <1>1, BoundAssumption
  <2> QED
    BY <1>1, <1>2, <2>1, <2>2, <2>3 DEF TypeOK, Trees, Records
<1>5. CallInv /\ LocalInv /\ LowerLockInv /\ ParentInv /\ TrapInv
  BY <1>2 DEF CallInv, LocalInv, LocalOf, LowerLockInv, LockOf, ParentInv, ParentOf, TrapInv,
     TrapOf, Ordering
<1>6. AliveInv /\ StepInv
  BY <1>1, <1>2, <1>3 DEF AliveInv, AliveOf, StepInv, StepOf
<1>7. IsTree(upper) /\ LowerIsTree
  BY <1>1, RootAssumption DEF IsTree, LowerIsTree
<1>8. UpperInv
  BY <1>2, <1>3, <1>7 DEF UpperInv, UpperOf
<1>9. HeldInv
  BY <1>1, NoneAssumption DEF HeldInv, HeldOf, Holds
<1> QED
  BY <1>4, <1>5, <1>6, <1>7, <1>8, <1>9 DEF IInv

\* A step that changes nothing keeps everything.
LEMMA StutterIInv == IInv /\ UNCHANGED vars => IInv'
<1> SUFFICES ASSUME IInv, UNCHANGED vars
             PROVE  IInv'
  OBVIOUS
<1>1. UNCHANGED <<upper, lower, umutex, lmutex, urename, lrename, th, moves>>
  BY DEF vars
<1>2. TypeOK' /\ LowerIsTree'
  BY <1>1 DEF IInv, TypeOK, LowerIsTree
<1>3. CallInv' /\ LocalInv' /\ LowerLockInv' /\ ParentInv' /\ TrapInv' /\ HeldInv'
  BY <1>1 DEF IInv, CallInv, CallOf, LocalInv, LocalOf, LowerLockInv, LockOf, ParentInv,
     ParentOf, TrapInv, TrapOf, HeldInv, HeldOf, Holds, Busy
<1>4. \A t \in Threads : Mine(t)' = Mine(t) /\ Gone(t)' = Gone(t) /\ (Busy(t)' <=> Busy(t))
  BY <1>1 DEF Mine, Gone, Busy
<1>5. AliveInv' /\ StepInv' /\ UpperInv'
  BY <1>1, <1>4 DEF IInv, AliveInv, AliveOf, StepInv, StepOf, Half, UpperInv, UpperOf, IsTree
<1> QED
  BY <1>2, <1>3, <1>5 DEF IInv

\* IInv is inductive: it holds at mount, and every step of every thread, and every direct
\* move, keeps it.
THEOREM Invariance == Spec => []IInv
<1>1. Init => IInv
  BY InitIInv
<1>2. IInv /\ [Next]_vars => IInv'
  <2>1. ASSUME IInv, Next
        PROVE  IInv'
    BY <2>1, TypeStep, CallStep, LowerStep, AliveStep, StepStep, ParentStep, TreeStep, TrapStep,
       UpperStep, HeldStep DEF IInv
  <2> QED
    BY <2>1, StutterIInv
<1> QED
  BY <1>1, <1>2, PTL DEF Spec

\* Every variable keeps its type, and a rename that is to lock two directories has found both.
THEOREM TypeCorrect == Spec => []TypeOK
<1>1. IInv => TypeOK
  BY DEF IInv
<1> QED
  BY <1>1, Invariance, PTL

\* The lower tree stays a tree, for any tree, any threads and any direct moves: the check of
\* teadfs_rename under the lower locks (inode.c:643-653) is enough.
THEOREM AlwaysTree == Spec => []LowerIsTree
<1>1. IInv => LowerIsTree
  BY DEF IInv
<1> QED
  BY <1>1, Invariance, PTL

\* Until the first direct move the two trees differ only by what a call has done in the
\* lower one and not yet in the upper one.
THEOREM AlwaysInStep == Spec => []InStep
<1>1. IInv => InStep
  <2> SUFFICES ASSUME IInv, moves = 0, NEW x \in Nodes, upper[x] # lower[x]
               PROVE  \E t \in Threads : th[t].pc = "done" /\ x \in {th[t].x, th[t].z}
    BY DEF InStep
  <2>1. PICK t \in Threads : th[t].pc = "done" /\ x \in Mine(t)
    BY DEF IInv, StepInv, Half
  <2> QED
    BY <2>1 DEF Mine
<1> QED
  BY <1>1, Invariance, PTL

\* Until then a lower operation is given the directory that its entry is in, locked.
THEOREM AlwaysInDir == Spec => []DirOfEntry
  BY InDir, Invariance, PTL

\* Until then no call returns with a lower lock held, although two error paths of
\* teadfs_rename (inode.c:645, :650) would: they are never taken.
THEOREM AlwaysReleased == Spec => []LocksReleased
<1>1. IInv => LocksReleased
  BY DEF IInv, HeldInv, HeldOf, LocksReleased, Busy
<1> QED
  BY <1>1, Invariance, PTL

\* Until the first direct move the lower directories are never waited for in a circle, for
\* any number of threads and any tree (lock_parent, lock_rename in teadfs_rename, the locks
\* of vfs_unlink, vfs_rmdir and vfs_rename): a chain of calls that wait has at most three.
THEOREM NeverCircle == Spec => []NoCircle
<1>1. Init => EntryInv /\ OwnedInv
  <2> SUFFICES ASSUME Init
               PROVE  EntryInv /\ OwnedInv
    OBVIOUS
  <2>1. \A t \in Threads : ~Busy(t) /\ \A d \in Dirs : lmutex[d] # t
    BY IdleRecord, NoneAssumption DEF Init, Busy
  <2> QED
    BY <2>1 DEF EntryInv, EntryOf, OwnedInv, OwnedOf
<1>2. IInv /\ EntryInv /\ OwnedInv /\ [Next]_vars => (EntryInv /\ OwnedInv)'
  <2> SUFFICES ASSUME IInv, EntryInv, OwnedInv, UNCHANGED vars
               PROVE  EntryInv' /\ OwnedInv'
    BY EntryStep, OwnedStep
  <2> QED
    BY DEF EntryInv, EntryOf, OwnedInv, OwnedOf, Alone, Busy, vars
<1>3. IInv /\ EntryInv /\ OwnedInv => NoCircle
  <2> SUFFICES ASSUME IInv, EntryInv, OwnedInv, moves = 0, NEW S \in SUBSET Threads, S # {},
                      \A t \in S : \E u \in S : WaitsFor(t, u)
               PROVE  FALSE
    BY DEF NoCircle
  <2>1. PICK t \in S, u \in S, v \in S, w \in S :
            WaitsFor(t, u) /\ WaitsFor(u, v) /\ WaitsFor(v, w)
    OBVIOUS
  <2>2. ~Alone(u) /\ ~Alone(v)
    BY <2>1, AloneGoesOn
  <2>3. th[t].pc = "order" \/ (th[t].pc = "lock" /\ th[t].op = "self")
    BY <2>1, <2>2, WaitsForAlone
  <2>4. th[u].pc \notin {"lock", "order"}
    BY <2>1, <2>3, WaitsForOwner
  <2> QED
    BY <2>1, <2>2, <2>4, WaitsForAlone
<1> QED
  BY <1>1, <1>2, <1>3, Invariance, PTL DEF Spec
=============================================================================
