-------------------------- MODULE NamespaceProofs --------------------------
(***************************************************************************)
(* Proofs about Namespace for any names in any directories, any number of  *)
(* threads, dentries and addresses, any direct changes: references to the  *)
(* lower file system are exact, nobody is given the inode of another file, *)
(* and cached names and link counts agree with the lower directories.      *)
(***************************************************************************)
EXTENDS Namespace, FiniteSetTheorems, TLAPS

DirOps  == Ops \ {"getattr"}
Linking == {"link", "remove"}

\* Who has a reference to the lower dentry l, and who is about to use one to the inode at a.
Infos(l)   == {u \in UDents : ud[u].info = l}
Holds(t)   == th[t].pc = "interpose" \/ (Busy(t) /\ th[t].op \in Dgets)
Holders(l) == {t \in Threads : th[t].ld = l /\ Holds(t)}
Olds(l)    == {t \in Threads : th[t].op = "link" /\ ud[th[t].old].info = l}
Igets(a)   == {t \in Threads : th[t].pc = "iget" /\ th[t].ino = a}
Mounted    == {u \in UDents : ud[u].info # None}

CountOf(l) ==
    ld[l].count = Cardinality(Infos(l)) + lost[l] + Cardinality(Holders(l))
                  + Cardinality(Olds(l))
GrabOf(a)  ==
    lref[a] = (IF ui[a].st = "live" THEN 1 ELSE 0) + Cardinality(Igets(a))

CountInv ==
    /\ \A l \in LDents : CountOf(l)
    /\ mnt = Cardinality(Mounted) + forgot
    /\ \A a \in Addrs : GrabOf(a)

\* A hashed lower dentry is what the lower directory says.
LowerOf(l) ==
    /\ ld[l].st = "free" => ld[l] = NoLDent
    /\ ld[l].st # "free" => ld[l].name \in Names /\ ld[l].count > 0
    /\ ld[l].st = "unhashed" => ld[l].ino # None
    /\ ld[l].ino # None => linode[ld[l].ino] # None
    /\ ld[l].st = "hashed" =>
          disk[ld[l].name] = IF ld[l].ino = None THEN None ELSE linode[ld[l].ino]

LowerInv ==
    /\ \A l \in LDents : LowerOf(l)
    /\ \A k, l \in LDents : ld[k].st = "hashed" /\ ld[l].st = "hashed"
                            /\ ld[k].name = ld[l].name => k = l
    /\ \A a, b \in Addrs : linode[a] = linode[b] /\ linode[a] # None => a = b

\* An upper inode is about the file of its lower inode, which it keeps.
InodeOf(a) ==
    IF ui[a].st = "live" THEN ui[a].file = linode[a] /\ linode[a] # None
    ELSE ui[a].file = None

InodeInv == \A a \in Addrs : InodeOf(a)

\* An upper dentry stands on a lower one of the same name and the same inode.
UpperOf(u) ==
    /\ ud[u].st = "free" => ud[u] = NoUDent
    /\ ud[u].st # "free" => ud[u].name \in Names
    /\ ud[u].st = "hashed" => ud[u].info # None
    /\ ud[u].info # None => ld[ud[u].info].name = ud[u].name
    /\ ud[u].ino # None =>
          /\ ud[u].info # None /\ ld[ud[u].info].ino = ud[u].ino
          /\ ui[ud[u].ino].st = "live"
    /\ ud[u].st = "hashed" /\ ud[u].ino # None /\ ld[ud[u].info].st = "unhashed" =>
          disk[ud[u].name] = None
    /\ u \in orphan => /\ ud[u].ino = None
                      /\ ud[u].info # None /\ ld[ud[u].info].ino # None

UpperInv ==
    /\ \A u \in UDents : UpperOf(u)
    /\ \A u, v \in UDents : ud[u].st = "hashed" /\ ud[v].st = "hashed"
                            /\ ud[u].name = ud[v].name => u = v

\* What a call knows at each of its steps.
IdleOf(t) == th[t].pc = "idle" => th[t] = Idle

CallOf(t) ==
    /\ th[t].ud \in UDents /\ ud[th[t].ud].st # "free"
    /\ (th[t].pc = "copy" <=> th[t].op = "getattr")
    /\ th[t].op # "getattr" => th[t].ld \in LDents /\ ld[th[t].ld].name = NameOf(t)
    /\ th[t].pc # "interpose" /\ th[t].op # "getattr" => ud[th[t].ud].info = th[t].ld
    /\ th[t].op = "link" => th[t].old \in UDents /\ ud[th[t].old].ino # None
                            /\ th[t].ino = ud[th[t].old].ino
    /\ th[t].op # "link" => th[t].old = None

CopyOf(t) == th[t].ino \in Addrs /\ ui[th[t].ino].st = "live" /\ th[t].ld = None

InterposeOf(t) ==
    /\ th[t].op = "lookup"
    /\ ud[th[t].ud].info = None /\ ud[th[t].ud].ino = None
    /\ th[t].ino = ld[th[t].ld].ino \/ (th[t].ino = None /\ NameOf(t) \in touched)

LookingOf(t) ==
    /\ ud[th[t].ud].st = "unhashed"
    /\ \A u \in UDents : ~(ud[u].st = "hashed" /\ ud[u].name = NameOf(t))
    /\ NameOf(t) \notin touched => ld[th[t].ld].st = "hashed"
    /\ ld[th[t].ld].st = "unhashed" => disk[NameOf(t)] = None

OopsOf(t) == th[t].op = "lookup" /\ NameOf(t) \in touched

IgetOf(t) ==
    /\ th[t].op \in Makers \cup {"lookup", "link"}
    /\ th[t].ino \in Addrs /\ ld[th[t].ld].ino = th[t].ino
    /\ ud[th[t].ud].ino = None /\ th[t].ud \notin orphan
    /\ th[t].op # "lookup" => ud[th[t].ud].st = "hashed" /\ ld[th[t].ld].st = "hashed"

BelowOf(t) ==
    /\ th[t].op \in Makers \cup Linking
    /\ ud[th[t].ud].st = "hashed"
    /\ IF th[t].op = "remove" THEN th[t].ino = ud[th[t].ud].ino /\ th[t].ino # None
       ELSE ud[th[t].ud].ino = None

UnlinkedOf(t) ==
    /\ th[t].op = "remove"
    /\ ud[th[t].ud].st = "hashed"
    /\ th[t].ino = ud[th[t].ud].ino /\ th[t].ino # None
    /\ disk[NameOf(t)] = None

ThreadOf(t) ==
    /\ IdleOf(t)
    /\ Busy(t) => CallOf(t)
    /\ th[t].pc = "copy" => CopyOf(t)
    /\ th[t].pc = "interpose" => InterposeOf(t)
    /\ Busy(t) /\ th[t].op = "lookup" => LookingOf(t)
    /\ th[t].pc = "oops" => OopsOf(t)
    /\ th[t].pc = "iget" => IgetOf(t)
    /\ th[t].pc = "lower" => BelowOf(t)
    /\ th[t].pc = "unlinked" => UnlinkedOf(t)

\* Calls in one directory, and calls that change the links of one inode, exclude each other.
InDir(t)  == Busy(t) /\ th[t].op # "getattr"
OnLink(t) == Busy(t) /\ th[t].op \in Linking

ThreadInv ==
    /\ \A t \in Threads : ThreadOf(t)
    /\ \A s, t \in Threads : InDir(s) /\ InDir(t) /\ DirOf[NameOf(s)] = DirOf[NameOf(t)] => s = t
    /\ \A s, t \in Threads : OnLink(s) /\ OnLink(t) /\ th[s].ino = th[t].ino => s = t

\* Calls that have changed the lower directory and not yet the upper dentry.
Changing(t) == th[t].pc \in {"iget", "unlinked"}

MirrorOf(u) ==
    /\ ud[u].st = "hashed" /\ ud[u].name \notin touched /\ u \notin orphan
    /\ \A t \in Threads : Changing(t) => th[t].ud # u
    => disk[ud[u].name] = IF ud[u].ino = None THEN None ELSE linode[ud[u].ino]

MirrorInv == \A u \in UDents : MirrorOf(u)

NlinkOf(a) ==
    /\ touched = {} /\ ui[a].st = "live"
    /\ \A t \in Threads : OnLink(t) /\ Changing(t) => th[t].ino # a
    => ui[a].nlink \in {Nlink(linode[a]), Stale}

NlinkInv == \A a \in Addrs : NlinkOf(a)

IInv ==
    /\ EntriesOK /\ CountInv /\ LowerInv /\ InodeInv /\ UpperInv /\ ThreadInv
    /\ MirrorInv /\ NlinkInv
-----------------------------------------------------------------------------
\* Sets and counts

\* Two subsets of a finite set that agree except on x.
LEMMA CardDiff ==
    ASSUME NEW T, IsFiniteSet(T), NEW S \in SUBSET T, NEW R \in SUBSET T, NEW x,
           \A y \in T : y # x => (y \in S <=> y \in R)
    PROVE  Cardinality(R) = Cardinality(S) + (IF x \in R THEN 1 ELSE 0)
                            - (IF x \in S THEN 1 ELSE 0)
<1>1. IsFiniteSet(S) /\ IsFiniteSet(R) /\ Cardinality(S) \in Nat /\ Cardinality(R) \in Nat
  BY FS_Subset, FS_CardinalityType
<1>2. S \ {x} = R \ {x}
  OBVIOUS
<1>3. Cardinality(S \ {x}) = IF x \in S THEN Cardinality(S) - 1 ELSE Cardinality(S)
  BY <1>1, FS_RemoveElement
<1>4. Cardinality(R \ {x}) = IF x \in R THEN Cardinality(R) - 1 ELSE Cardinality(R)
  BY <1>1, FS_RemoveElement
<1> QED
  BY <1>1, <1>2, <1>3, <1>4

\* A finite set with members has a positive cardinality.
LEMMA CardPositive ==
    ASSUME NEW T, IsFiniteSet(T), NEW S \in SUBSET T
    PROVE  /\ Cardinality(S) \in Nat
           /\ \A x \in S : Cardinality(S) >= 1
           /\ \A x, y \in S : x # y => Cardinality(S) >= 2
<1>1. IsFiniteSet(S) /\ Cardinality(S) \in Nat
  BY FS_Subset, FS_CardinalityType
<1>2. ASSUME NEW x \in S PROVE Cardinality(S) = Cardinality(S \ {x}) + 1
                              /\ Cardinality(S \ {x}) \in Nat /\ IsFiniteSet(S \ {x})
  <2>1. IsFiniteSet(S \ {x}) /\ Cardinality(S \ {x}) = Cardinality(S) - 1
    BY <1>1, FS_RemoveElement
  <2>2. Cardinality(S \ {x}) \in Nat
    BY <2>1, FS_CardinalityType
  <2> QED
    BY <1>1, <2>1, <2>2
<1>3. ASSUME NEW x \in S, NEW y \in S, x # y PROVE Cardinality(S) >= 2
  <2>1. IsFiniteSet(S \ {x}) /\ S \ {x} # {}
    BY <1>2, <1>3
  <2>2. Cardinality(S \ {x}) # 0
    BY <2>1, FS_EmptySet
  <2>3. Cardinality(S) = Cardinality(S \ {x}) + 1 /\ Cardinality(S \ {x}) \in Nat
    BY <1>2
  <2> QED
    BY <2>2, <2>3
<1>4. ASSUME NEW x \in S PROVE Cardinality(S) >= 1
  <2>1. Cardinality(S) = Cardinality(S \ {x}) + 1 /\ Cardinality(S \ {x}) \in Nat
    BY <1>2
  <2> QED
    BY <2>1
<1> QED
  BY <1>1, <1>3, <1>4

\* Link counts are numbers.
LEMMA NlinkType ==
    ASSUME NEW f PROVE Nlink(f) \in Nat
  BY FiniteAssumption, FS_Subset, FS_CardinalityType DEF Nlink

LDentType == [st : {"free", "hashed", "unhashed"}, name : Names \cup {None},
              ino : Addrs \cup {None}, count : Nat]

\* What dput does.
LEMMA DputEffect ==
    ASSUME NEW d \in [LDents -> LDentType], NEW l \in LDents, d[l].count > 0
    PROVE  /\ Dput(d, l) \in [LDents -> LDentType]
           /\ \A k \in LDents : k # l => Dput(d, l)[k] = d[k]
           /\ Dput(d, l)[l].count = d[l].count - 1
           /\ d[l].count = 1 => Dput(d, l)[l] = NoLDent
           /\ d[l].count # 1 => /\ Dput(d, l)[l].st = d[l].st
                                /\ Dput(d, l)[l].name = d[l].name
                                /\ Dput(d, l)[l].ino = d[l].ino
<1> DEFINE e == [d[l] EXCEPT !.count = d[l].count - 1]
<1>1. d[l] \in LDentType /\ NoLDent \in LDentType /\ NoLDent.count = 0
  BY DEF LDentType, NoLDent
<1>2. e.st = d[l].st /\ e.name = d[l].name /\ e.ino = d[l].ino /\ e.count = d[l].count - 1
  BY <1>1 DEF LDentType
<1>3. e \in LDentType
  BY <1>1 DEF LDentType
<1>4. Dput(d, l) = [d EXCEPT ![l] = IF d[l].count = 1 THEN NoLDent ELSE e]
  BY DEF Dput
<1> HIDE DEF e
<1>5. d[l].count \in Nat
  BY <1>1 DEF LDentType
<1> QED
  BY <1>1, <1>2, <1>3, <1>4, <1>5

\* What dget does.
LEMMA DgetEffect ==
    ASSUME NEW d \in [LDents -> LDentType], NEW l \in LDents
    PROVE  /\ Dget(d, l) \in [LDents -> LDentType]
           /\ \A k \in LDents : k # l => Dget(d, l)[k] = d[k]
           /\ Dget(d, l)[l].count = d[l].count + 1
           /\ Dget(d, l)[l].st = d[l].st
           /\ Dget(d, l)[l].name = d[l].name
           /\ Dget(d, l)[l].ino = d[l].ino
  BY DEF Dget, LDentType

\* What d_delete does to a dentry that somebody else uses, too.
LEMMA DdeleteEffect ==
    ASSUME ld \in [LDents -> LDentType], NEW l \in LDents
    PROVE  /\ Ddelete(l) \in [LDents -> LDentType]
           /\ \A k \in LDents : k # l => Ddelete(l)[k] = ld[k]
           /\ Ddelete(l)[l].count = ld[l].count
           /\ Ddelete(l)[l].name = ld[l].name
           /\ ld[l].count = 1 => Ddelete(l)[l].st = ld[l].st /\ Ddelete(l)[l].ino = None
           /\ ld[l].count # 1 => Ddelete(l)[l].st = "unhashed" /\ Ddelete(l)[l].ino = ld[l].ino
<1> DEFINE e == [ld[l] EXCEPT !.ino = None]
<1> DEFINE g == [ld[l] EXCEPT !.st = "unhashed"]
<1>1. ld[l] \in LDentType
  OBVIOUS
<1>2. e \in LDentType /\ e.st = ld[l].st /\ e.name = ld[l].name /\ e.ino = None
      /\ e.count = ld[l].count
  BY <1>1 DEF LDentType
<1>3. g \in LDentType /\ g.st = "unhashed" /\ g.name = ld[l].name /\ g.ino = ld[l].ino
      /\ g.count = ld[l].count
  BY <1>1 DEF LDentType
<1>4. Ddelete(l) = [ld EXCEPT ![l] = IF ld[l].count = 1 THEN e ELSE g]
  BY DEF Ddelete
<1> HIDE DEF e, g
<1> QED
  BY <1>1, <1>2, <1>3, <1>4

\* Who has a reference to a lower dentry keeps it, and two keep it from being the last.
LEMMA RefCount ==
    ASSUME EntriesOK, CountInv, NEW l \in LDents
    PROVE  /\ \A u \in Infos(l) : ld[l].count >= 1
           /\ \A t \in Holders(l) : ld[l].count >= 1
           /\ \A t \in Olds(l) : ld[l].count >= 1
           /\ \A u, v \in Infos(l) : u # v => ld[l].count >= 2
           /\ \A u \in Infos(l), t \in Holders(l) : ld[l].count >= 2
           /\ \A u \in Infos(l), t \in Olds(l) : ld[l].count >= 2
           /\ \A s \in Holders(l), t \in Olds(l) : ld[l].count >= 2
           /\ \A u \in Infos(l), s \in Holders(l), t \in Olds(l) : ld[l].count >= 3
           /\ \A s, t \in Holders(l) : s # t => ld[l].count >= 2
           /\ \A s, t \in Olds(l) : s # t => ld[l].count >= 2
           /\ \A r, s \in Holders(l), t \in Olds(l) : r # s => ld[l].count >= 3
<1> DEFINE I == Cardinality(Infos(l))
<1> DEFINE H == Cardinality(Holders(l))
<1> DEFINE O == Cardinality(Olds(l))
<1>1. Infos(l) \in SUBSET UDents /\ Holders(l) \in SUBSET Threads /\ Olds(l) \in SUBSET Threads
  BY DEF Infos, Holders, Olds
<1>2. I \in Nat /\ (\A x \in Infos(l) : I >= 1) /\ (\A x, y \in Infos(l) : x # y => I >= 2)
  BY <1>1, CardPositive, FiniteAssumption
<1>3. H \in Nat /\ (\A x \in Holders(l) : H >= 1)
      /\ (\A x, y \in Holders(l) : x # y => H >= 2)
  BY <1>1, CardPositive, FiniteAssumption
<1>4. O \in Nat /\ (\A x \in Olds(l) : O >= 1) /\ (\A x, y \in Olds(l) : x # y => O >= 2)
  BY <1>1, CardPositive, FiniteAssumption
<1>5. lost[l] \in Nat
  BY DEF EntriesOK
<1>6. ld[l].count = I + lost[l] + H + O
  BY DEF CountInv, CountOf
<1> HIDE DEF I, H, O
<1> QED
  BY <1>2, <1>3, <1>4, <1>5, <1>6

\* Who has a reference to a lower inode keeps it.
LEMMA GrabCount ==
    ASSUME EntriesOK, CountInv, NEW a \in Addrs
    PROVE  /\ lref[a] \in Nat
           /\ ui[a].st = "live" => lref[a] >= 1
           /\ \A t \in Igets(a) : lref[a] >= 1
           /\ lref[a] <= (IF ui[a].st = "live" THEN 1 ELSE 0) + Cardinality(Igets(a))
<1> DEFINE G == Cardinality(Igets(a))
<1>1. Igets(a) \in SUBSET Threads
  BY DEF Igets
<1>2. G \in Nat /\ (\A x \in Igets(a) : G >= 1)
  BY <1>1, CardPositive, FiniteAssumption
<1>3. lref[a] = (IF ui[a].st = "live" THEN 1 ELSE 0) + G
  BY DEF CountInv, GrabOf
<1> HIDE DEF G
<1>4. lref[a] <= (IF ui[a].st = "live" THEN 1 ELSE 0) + G
  BY <1>2, <1>3
<1>5. lref[a] <= (IF ui[a].st = "live" THEN 1 ELSE 0) + Cardinality(Igets(a))
  BY <1>4 DEF G
<1> QED
  BY <1>2, <1>3, <1>5

\* Who has a lower path has the mount.
LEMMA MountCount ==
    ASSUME EntriesOK, CountInv
    PROVE  mnt \in Nat /\ \A u \in Mounted : mnt >= 1
<1>1. Mounted \in SUBSET UDents
  BY DEF Mounted
<1>2. Cardinality(Mounted) \in Nat /\ (\A x \in Mounted : Cardinality(Mounted) >= 1)
  BY <1>1, CardPositive, FiniteAssumption
<1>3. mnt = Cardinality(Mounted) + forgot /\ forgot \in Nat
  BY DirectAssumption DEF CountInv, EntriesOK
<1> QED
  BY <1>2, <1>3
-----------------------------------------------------------------------------
\* What a step leaves alone

Same(l) == /\ ld'[l].st = ld[l].st /\ ld'[l].name = ld[l].name /\ ld'[l].ino = ld[l].ino

\* References to l that a step of t takes or gives back.
LEMMA CountFrame ==
    ASSUME EntriesOK, CountInv, NEW l \in LDents, NEW t, NEW u,
           ld'[l].count \in Int, lost'[l] \in Int,
           \A s \in Threads : s # t => th'[s] = th[s],
           \A v \in UDents : v # u => ud'[v].info = ud[v].info,
           \A s \in Threads : s # t => (s \in Olds(l)' <=> s \in Olds(l)),
           ld'[l].count - ld[l].count
             = ((IF u \in Infos(l)' THEN 1 ELSE 0) - (IF u \in Infos(l) THEN 1 ELSE 0))
               + (lost'[l] - lost[l])
               + ((IF t \in Holders(l)' THEN 1 ELSE 0) - (IF t \in Holders(l) THEN 1 ELSE 0))
               + ((IF t \in Olds(l)' THEN 1 ELSE 0) - (IF t \in Olds(l) THEN 1 ELSE 0))
    PROVE  CountOf(l)'
<1>1. /\ Infos(l) \in SUBSET UDents /\ Infos(l)' \in SUBSET UDents
      /\ Holders(l) \in SUBSET Threads /\ Holders(l)' \in SUBSET Threads
      /\ Olds(l) \in SUBSET Threads /\ Olds(l)' \in SUBSET Threads
  BY DEF Infos, Holders, Olds
<1>2. \A v \in UDents : v # u => (v \in Infos(l) <=> v \in Infos(l)')
  BY DEF Infos
<1>3. \A s \in Threads : s # t => (s \in Holders(l) <=> s \in Holders(l)')
  BY DEF Holders, Holds, Busy
<1> DEFINE I == Cardinality(Infos(l))
<1> DEFINE H == Cardinality(Holders(l))
<1> DEFINE O == Cardinality(Olds(l))
<1> DEFINE J == Cardinality(Infos(l)')
<1> DEFINE K == Cardinality(Holders(l)')
<1> DEFINE P == Cardinality(Olds(l)')
<1>4. J = I + (IF u \in Infos(l)' THEN 1 ELSE 0) - (IF u \in Infos(l) THEN 1 ELSE 0)
  BY <1>1, <1>2, CardDiff, FiniteAssumption
<1>5. K = H + (IF t \in Holders(l)' THEN 1 ELSE 0) - (IF t \in Holders(l) THEN 1 ELSE 0)
  BY <1>1, <1>3, CardDiff, FiniteAssumption
<1>6. P = O + (IF t \in Olds(l)' THEN 1 ELSE 0) - (IF t \in Olds(l) THEN 1 ELSE 0)
  BY <1>1, CardDiff, FiniteAssumption
<1>7. I \in Nat /\ H \in Nat /\ O \in Nat
  BY <1>1, CardPositive, FiniteAssumption
<1>8. ld[l].count = I + lost[l] + H + O /\ lost[l] \in Nat
  BY DEF CountInv, CountOf, EntriesOK
<1> HIDE DEF I, H, O, J, K, P
<1>9. ld'[l].count = J + lost'[l] + K + P
  BY <1>4, <1>5, <1>6, <1>7, <1>8
<1> QED
  BY <1>9 DEF CountOf, J, K, P

\* References to the mount that a step takes or gives back.
LEMMA MountFrame ==
    ASSUME EntriesOK, CountInv, NEW u,
           \A v \in UDents : v # u => ud'[v].info = ud[v].info,
           mnt' - mnt = ((IF u \in Mounted' THEN 1 ELSE 0) - (IF u \in Mounted THEN 1 ELSE 0))
                        + (forgot' - forgot),
           mnt' \in Int, forgot' \in Int
    PROVE  mnt' = Cardinality(Mounted)' + forgot'
<1>1. Mounted \in SUBSET UDents /\ Mounted' \in SUBSET UDents
  BY DEF Mounted
<1>2. \A v \in UDents : v # u => (v \in Mounted <=> v \in Mounted')
  BY DEF Mounted
<1>3. Cardinality(Mounted') = Cardinality(Mounted) + (IF u \in Mounted' THEN 1 ELSE 0)
                                                   - (IF u \in Mounted THEN 1 ELSE 0)
  BY <1>1, <1>2, CardDiff, FiniteAssumption
<1>4. Cardinality(Mounted) \in Nat
  BY <1>1, CardPositive, FiniteAssumption
<1>5. mnt = Cardinality(Mounted) + forgot /\ forgot \in Int
  BY DirectAssumption DEF CountInv, EntriesOK
<1>6. mnt' = Cardinality(Mounted') + forgot'
  BY <1>3, <1>4, <1>5
<1> QED
  BY <1>6

\* References to the lower inode at a that a step of t takes or gives back.
LEMMA GrabFrame ==
    ASSUME EntriesOK, CountInv, NEW a \in Addrs, NEW t, lref'[a] \in Int,
           \A s \in Threads : s # t => th'[s] = th[s],
           lref'[a] - lref[a]
             = ((IF ui'[a].st = "live" THEN 1 ELSE 0) - (IF ui[a].st = "live" THEN 1 ELSE 0))
               + ((IF t \in Igets(a)' THEN 1 ELSE 0) - (IF t \in Igets(a) THEN 1 ELSE 0))
    PROVE  GrabOf(a)'
<1>1. Igets(a) \in SUBSET Threads /\ Igets(a)' \in SUBSET Threads
  BY DEF Igets
<1>2. \A s \in Threads : s # t => (s \in Igets(a) <=> s \in Igets(a)')
  BY DEF Igets
<1> DEFINE G == Cardinality(Igets(a))
<1> DEFINE H == Cardinality(Igets(a)')
<1>3. H = G + (IF t \in Igets(a)' THEN 1 ELSE 0) - (IF t \in Igets(a) THEN 1 ELSE 0)
  BY <1>1, <1>2, CardDiff, FiniteAssumption
<1>4. G \in Nat
  BY <1>1, CardPositive, FiniteAssumption
<1>5. lref[a] = (IF ui[a].st = "live" THEN 1 ELSE 0) + G
  BY DEF CountInv, GrabOf
<1> HIDE DEF G, H
<1>6. lref'[a] = (IF ui'[a].st = "live" THEN 1 ELSE 0) + H
  BY <1>3, <1>4, <1>5
<1> QED
  BY <1>6 DEF GrabOf, H

\* A lower dentry that a step does not change, or only gives up.
LEMMA LowerFrame ==
    ASSUME NEW l \in LDents, LowerOf(l),
           \/ ld'[l] = NoLDent
           \/ /\ Same(l) /\ (ld[l].st = "free" => ld'[l] = ld[l])
              /\ ld[l].st # "free" => ld'[l].count > 0
              /\ ld[l].ino # None => linode'[ld[l].ino] = linode[ld[l].ino]
              /\ ld[l].st = "hashed" => disk'[ld[l].name] = disk[ld[l].name]
    PROVE  LowerOf(l)'
<1>1. CASE ld'[l] = NoLDent
  BY <1>1 DEF LowerOf, NoLDent
<1>2. CASE ld'[l] # NoLDent
  BY <1>2 DEF LowerOf, Same
<1> QED
  BY <1>1, <1>2

\* An upper dentry that a step does not change.
LEMMA UpperFrame ==
    ASSUME NEW u \in UDents, UpperOf(u), ud'[u] = ud[u], u \in orphan' => u \in orphan,
           ud[u].info # None => Same(ud[u].info),
           ud[u].ino # None => ui'[ud[u].ino].st = "live",
           ud[u].st = "hashed" /\ ud[u].ino # None =>
              disk'[ud[u].name] \in {None, disk[ud[u].name]}
    PROVE  UpperOf(u)'
  BY DEF UpperOf, Same

\* A call that takes no part in a step.
LEMMA ThreadFrame ==
    ASSUME NEW t \in Threads, ThreadOf(t), th'[t] = th[t],
           Busy(t) => /\ ud'[th[t].ud].st # "free"
                      /\ ud'[th[t].ud].name = ud[th[t].ud].name,
           InDir(t) => /\ ud'[th[t].ud] = ud[th[t].ud]
                       /\ Same(th[t].ld)
                       /\ disk'[NameOf(t)] = disk[NameOf(t)],
           Busy(t) /\ th[t].op = "link" => ud'[th[t].old].ino = ud[th[t].old].ino,
           Busy(t) /\ th[t].op = "lookup" =>
              \A u \in UDents : ud'[u].st = "hashed" /\ ud'[u].name = NameOf(t)
                                => ud[u].st = "hashed" /\ ud[u].name = NameOf(t),
           th[t].pc = "copy" => ui'[th[t].ino].st = "live",
           touched' = touched,
           th[t].pc = "iget" => (th[t].ud \in orphan' => th[t].ud \in orphan)
    PROVE  ThreadOf(t)'
<1>1. /\ Busy(t)' <=> Busy(t)
      /\ InDir(t)' <=> InDir(t)
      /\ Busy(t) => NameOf(t)' = NameOf(t)
  BY DEF Busy, InDir, NameOf
<1>2. InDir(t) => CallOf(t) /\ th[t].op # "getattr"
  BY DEF InDir, ThreadOf
<1>3. (Busy(t) => CallOf(t))'
  <2> SUFFICES ASSUME Busy(t) PROVE CallOf(t)'
    BY <1>1
  <2>1. CallOf(t)
    BY DEF ThreadOf
  <2>2. CASE InDir(t)
    BY <1>1, <2>1, <2>2 DEF CallOf, Same, InDir
  <2>3. CASE ~InDir(t)
    BY <1>1, <2>1, <2>3 DEF CallOf, InDir
  <2> QED
    BY <2>2, <2>3
<1>4. (th[t].pc = "copy" => CopyOf(t))'
  BY DEF ThreadOf, CopyOf
<1>5. ASSUME Busy(t), th[t].op # "getattr"
      PROVE  /\ ud'[th[t].ud] = ud[th[t].ud] /\ Same(th[t].ld)
             /\ disk'[NameOf(t)] = disk[NameOf(t)]
  BY <1>5 DEF InDir
<1>6. (th[t].pc = "interpose" => InterposeOf(t))'
  BY <1>1, <1>5 DEF ThreadOf, InterposeOf, Same, Busy
<1>7. (Busy(t) /\ th[t].op = "lookup" => LookingOf(t))'
  BY <1>1, <1>5 DEF ThreadOf, LookingOf, Same
<1>8. (th[t].pc = "oops" => OopsOf(t))'
  BY <1>1, <1>5 DEF ThreadOf, OopsOf, Busy
<1>9. (th[t].pc = "iget" => IgetOf(t))'
  BY <1>1, <1>5 DEF ThreadOf, IgetOf, Busy, Same, Makers
<1>10. (th[t].pc = "lower" => BelowOf(t))'
  BY <1>1, <1>5 DEF ThreadOf, BelowOf, Busy, Makers, Linking
<1>11. (th[t].pc = "unlinked" => UnlinkedOf(t))'
  BY <1>1, <1>5 DEF ThreadOf, UnlinkedOf, Busy
<1>12. IdleOf(t)'
  BY DEF ThreadOf, IdleOf
<1> QED
  BY <1>3, <1>4, <1>6, <1>7, <1>8, <1>9, <1>10, <1>11, <1>12 DEF ThreadOf

\* A name that a step has nothing to do with.
LEMMA MirrorFrame ==
    ASSUME NEW u \in UDents, MirrorOf(u),
           ud'[u].st = "hashed" =>
              /\ ud[u].st = "hashed" /\ ud'[u].name = ud[u].name /\ ud'[u].ino = ud[u].ino
              /\ disk'[ud[u].name] = disk[ud[u].name]
              /\ ud[u].ino # None => linode'[ud[u].ino] = linode[ud[u].ino]
              /\ u \in orphan => u \in orphan'
              /\ ud[u].name \in touched => ud[u].name \in touched'
              /\ \A t \in Threads : Changing(t) /\ th[t].ud = u => Changing(t)' /\ th'[t].ud = u
    PROVE  MirrorOf(u)'
<1> SUFFICES ASSUME ud'[u].st = "hashed", ud'[u].name \notin touched', u \notin orphan',
                    \A t \in Threads : Changing(t)' => th'[t].ud # u
             PROVE  disk'[ud'[u].name] = IF ud'[u].ino = None THEN None ELSE linode'[ud'[u].ino]
  BY DEF MirrorOf
<1>1. \A t \in Threads : Changing(t) => th[t].ud # u
  OBVIOUS
<1> QED
  BY <1>1 DEF MirrorOf

\* A link count that a step has nothing to do with.
LEMMA NlinkFrame ==
    ASSUME NEW a \in Addrs, NlinkOf(a), touched' = {} => touched = {},
           ui'[a].st = "live" =>
              /\ ui[a].st = "live" /\ ui'[a].nlink = ui[a].nlink
              /\ touched = {} => Nlink(linode[a])' = Nlink(linode[a])
              /\ \A t \in Threads : OnLink(t) /\ Changing(t) /\ th[t].ino = a
                                    => (OnLink(t) /\ Changing(t))' /\ th'[t].ino = a
    PROVE  NlinkOf(a)'
<1> SUFFICES ASSUME touched' = {}, ui'[a].st = "live",
                    \A t \in Threads : (OnLink(t) /\ Changing(t))' => th'[t].ino # a
             PROVE  ui'[a].nlink \in {Nlink(linode[a])', Stale}
  BY DEF NlinkOf, Stale
<1>1. \A t \in Threads : OnLink(t) /\ Changing(t) => th[t].ino # a
  OBVIOUS
<1> QED
  BY <1>1 DEF NlinkOf
-----------------------------------------------------------------------------
\* Steps that change upper inodes only

UDentType == [st : {"free", "hashed", "unhashed"}, name : Names \cup {None},
              ino : Addrs \cup {None}, info : LDents \cup {None}]
InodeType == [st : {"absent", "live", "freeing"}, file : Files \cup {None},
              nlink : Nat \cup {Stale}]
CallType  == [pc : PCs, op : Ops \cup {"none"}, ud : UDents \cup {None}, old : UDents \cup {None},
              ld : LDents \cup {None}, ino : Addrs \cup {None}, nlink : Nat]

\* The type invariant by name.
LEMMA Types ==
    EntriesOK <=> /\ disk \in [Names -> Files \cup {None}]
                  /\ linode \in [Addrs -> Files \cup {None}]
                  /\ lref \in [Addrs -> Int]
                  /\ ld \in [LDents -> LDentType]
                  /\ mnt \in Nat
                  /\ ud \in [UDents -> UDentType]
                  /\ ui \in [Addrs -> InodeType]
                  /\ th \in [Threads -> CallType]
                  /\ lost \in [LDents -> Nat] /\ forgot \in 0 .. MaxLost
                  /\ orphan \subseteq UDents /\ touched \subseteq Direct
  BY DEF EntriesOK, LDentType, UDentType, InodeType, CallType

\* The inode at a changes, stays if somebody uses it, and its references are counted.
LEMMA InodeStep ==
    ASSUME IInv, UNCHANGED <<disk, linode, ld, mnt, ud, th, history>>, NEW a \in Addrs,
           ui' \in [Addrs -> InodeType], lref' \in [Addrs -> Int],
           \A b \in Addrs : b # a => ui'[b] = ui[b] /\ lref'[b] = lref[b],
           lref'[a] - lref[a] = (IF ui'[a].st = "live" THEN 1 ELSE 0)
                                - (IF ui[a].st = "live" THEN 1 ELSE 0),
           PinnedInode(a) /\ ui[a].st = "live" => ui'[a].st = "live",
           InodeOf(a)', NlinkOf(a)'
    PROVE  IInv'
<1> USE DEF history
<1>1. EntriesOK'
  BY DEF IInv, EntriesOK, InodeType
<1>2. CountInv'
  <2>1. (\A l \in LDents : CountOf(l))' /\ (mnt = Cardinality(Mounted) + forgot)'
    BY DEF IInv, CountInv, CountOf, Infos, Holders, Holds, Busy, Olds, Mounted
  <2>2. ASSUME NEW b \in Addrs PROVE GrabOf(b)'
    <3>1. Igets(b)' = Igets(b)
      BY DEF Igets
    <3>2. lref'[b] \in Int /\ lref[b] \in Int
      BY DEF IInv, EntriesOK
    <3>3. lref'[b] - lref[b] = ((IF ui'[b].st = "live" THEN 1 ELSE 0)
                                  - (IF ui[b].st = "live" THEN 1 ELSE 0)) + 0
      BY <3>2
    <3> QED
      BY <3>1, <3>2, <3>3, GrabFrame DEF IInv
  <2> QED
    BY <2>1, <2>2 DEF CountInv
<1>3. LowerInv'
  BY DEF IInv, LowerInv, LowerOf
<1>4. InodeInv'
  BY DEF IInv, InodeInv, InodeOf
<1>5. \A u \in UDents : ud[u].ino # None => ui'[ud[u].ino].st = "live"
  BY DEF IInv, UpperInv, UpperOf, PinnedInode, EntriesOK
<1>6. UpperInv'
  <2>1. ASSUME NEW u \in UDents PROVE UpperOf(u)'
    BY <1>5 DEF IInv, UpperInv, UpperOf
  <2> QED
    BY <2>1 DEF IInv, UpperInv
<1>7. ThreadInv'
  <2>1. ASSUME NEW t \in Threads PROVE ThreadOf(t)'
    <3>1. ThreadOf(t)
      BY DEF IInv, ThreadInv
    <3>2. th[t].pc = "copy" => ui'[th[t].ino].st = "live"
      BY <3>1 DEF ThreadOf, CopyOf, PinnedInode
    <3>3. Busy(t) => ud[th[t].ud].st # "free"
      BY <3>1 DEF ThreadOf, CallOf
    <3> QED
      BY <3>1, <3>2, <3>3, ThreadFrame DEF Same
  <2> QED
    BY <2>1 DEF IInv, ThreadInv, InDir, OnLink, Busy, NameOf
<1>8. MirrorInv'
  BY DEF IInv, MirrorInv, MirrorOf, Changing
<1>9. NlinkInv'
  <2>1. ASSUME NEW b \in Addrs, b # a PROVE NlinkOf(b)'
    BY <2>1 DEF IInv, NlinkInv, NlinkOf, OnLink, Busy, Changing, Nlink
  <2> QED
    BY <2>1 DEF NlinkInv
<1> QED
  BY <1>1, <1>2, <1>3, <1>4, <1>6, <1>7, <1>8, <1>9 DEF IInv

\* An inode that nobody uses is given up.
LEMMA EvictStep ==
    ASSUME IInv, NEW a \in Addrs, teadfs_evict_inode(a)
    PROVE  IInv'
<1> DEFINE e == [NoInode EXCEPT !.st = "freeing"]
<1>1. ui' = [ui EXCEPT ![a] = e]
  BY DEF teadfs_evict_inode
<1>0. e \in InodeType /\ e.st = "freeing" /\ e.file = None
  BY DEF NoInode, InodeType
<1> HIDE DEF e
<1>2. ui \in [Addrs -> InodeType] /\ lref \in [Addrs -> Int]
  BY Types DEF IInv
<1>3. ui' \in [Addrs -> InodeType] /\ \A b \in Addrs : b # a => ui'[b] = ui[b]
  BY <1>0, <1>1, <1>2
<1>4. ui'[a].st = "freeing" /\ ui'[a].file = None
  BY <1>0, <1>1, <1>2
<1>5. lref' \in [Addrs -> Int] /\ lref'[a] = lref[a] - 1
      /\ \A b \in Addrs : b # a => lref'[b] = lref[b]
  BY <1>2 DEF teadfs_evict_inode
<1>6. lref[a] \in Int /\ ui[a].st = "live" /\ ~PinnedInode(a)
  BY <1>2 DEF teadfs_evict_inode
<1>7. lref'[a] - lref[a] = (IF ui'[a].st = "live" THEN 1 ELSE 0)
                           - (IF ui[a].st = "live" THEN 1 ELSE 0)
  BY <1>4, <1>5, <1>6
<1>8. InodeOf(a)' /\ NlinkOf(a)'
  BY <1>4 DEF InodeOf, NlinkOf
<1>9. UNCHANGED <<disk, linode, ld, mnt, ud, th, history>>
  BY DEF teadfs_evict_inode, lower
<1> QED
  BY <1>3, <1>5, <1>6, <1>7, <1>8, <1>9, InodeStep

\* An inode leaves the hash table.
LEMMA DestroyStep ==
    ASSUME IInv, NEW a \in Addrs, teadfs_destroy_inode(a)
    PROVE  IInv'
<1>1. ui' = [ui EXCEPT ![a] = [st |-> "absent", file |-> None, nlink |-> 0]]
  BY DEF teadfs_destroy_inode, NoInode
<1>2. ui \in [Addrs -> InodeType] /\ lref \in [Addrs -> Int]
  BY Types DEF IInv
<1>3. ui' \in [Addrs -> InodeType] /\ \A b \in Addrs : b # a => ui'[b] = ui[b]
  BY <1>1, <1>2 DEF InodeType
<1>4. ui'[a].st = "absent" /\ ui'[a].file = None
  BY <1>1, <1>2
<1>5. lref' = lref /\ lref[a] \in Int /\ ui[a].st = "freeing"
  BY <1>2 DEF teadfs_destroy_inode
<1>6. lref'[a] - lref[a] = (IF ui'[a].st = "live" THEN 1 ELSE 0)
                           - (IF ui[a].st = "live" THEN 1 ELSE 0)
  BY <1>4, <1>5
<1>7. InodeOf(a)' /\ NlinkOf(a)'
  BY <1>4 DEF InodeOf, NlinkOf
<1>8. UNCHANGED <<disk, linode, ld, mnt, ud, th, history>>
  BY DEF teadfs_destroy_inode, lower
<1> QED
  BY <1>2, <1>3, <1>5, <1>6, <1>7, <1>8, InodeStep

\* setattr and setxattr copy the link count under the mutex of the inode.
LEMMA CopyLockedStep ==
    ASSUME IInv, NEW t \in Threads, NEW u \in UDents, CopyLocked(t, u)
    PROVE  IInv'
<1>1. /\ ui \in [Addrs -> InodeType] /\ lref \in [Addrs -> Int]
      /\ ud \in [UDents -> UDentType] /\ linode \in [Addrs -> Files \cup {None}]
  BY Types DEF IInv
<1>0. PICK a \in Addrs : a = ud[u].ino
  BY <1>1 DEF CopyLocked, UDentType
<1>2. a \in Addrs /\ ui[a].st = "live" /\ InodeOf(a)
  BY <1>0, <1>1 DEF CopyLocked, IInv, UpperInv, UpperOf, InodeInv
<1>3. ui' = [ui EXCEPT ![a].nlink = Nlink(linode[a])] /\ lref' = lref
  BY <1>0 DEF CopyLocked
<1>4. UNCHANGED <<disk, linode, ld, mnt, ud, th, history>>
  BY DEF CopyLocked, lower
<1>5. Nlink(linode[a]) \in Nat
  BY NlinkType
<1>6. ui' \in [Addrs -> InodeType] /\ \A b \in Addrs : b # a => ui'[b] = ui[b]
  BY <1>1, <1>2, <1>3, <1>5 DEF InodeType
<1>7. ui'[a].st = ui[a].st /\ ui'[a].file = ui[a].file /\ ui'[a].nlink = Nlink(linode[a])
  BY <1>1, <1>2, <1>3 DEF InodeType
<1>8. lref'[a] - lref[a] = (IF ui'[a].st = "live" THEN 1 ELSE 0)
                           - (IF ui[a].st = "live" THEN 1 ELSE 0)
  BY <1>1, <1>2, <1>3, <1>7
<1>9. InodeOf(a)' /\ NlinkOf(a)'
  BY <1>2, <1>4, <1>7 DEF InodeOf, NlinkOf, Nlink
<1> QED
  BY <1>1, <1>2, <1>3, <1>4, <1>6, <1>7, <1>8, <1>9, InodeStep
-----------------------------------------------------------------------------
\* Calls that exclude each other

\* A step of t keeps calls in one directory, or on one inode, apart.
LEMMA Exclusion ==
    ASSUME IInv, NEW t \in Threads, \A s \in Threads : ThreadOf(s)',
           \A s \in Threads : s # t => th'[s] = th[s] /\ (Busy(s) => NameOf(s)' = NameOf(s)),
           \A s \in Threads : s # t /\ InDir(s) /\ InDir(t)'
                              => DirOf[NameOf(s)] # DirOf[NameOf(t)'],
           \A s \in Threads : s # t /\ OnLink(s) /\ OnLink(t)' => th[s].ino # th'[t].ino
    PROVE  ThreadInv'
<1>1. \A s \in Threads : s # t => /\ InDir(s)' <=> InDir(s)
                                  /\ OnLink(s)' <=> OnLink(s)
                                  /\ InDir(s) => NameOf(s)' = NameOf(s)
                                  /\ OnLink(s) => th'[s].ino = th[s].ino
  BY DEF InDir, OnLink, Busy
<1>2. ASSUME NEW r \in Threads, NEW s \in Threads, InDir(r)', InDir(s)',
             DirOf[NameOf(r)'] = DirOf[NameOf(s)']
      PROVE  r = s
  BY <1>1, <1>2 DEF IInv, ThreadInv
<1>3. ASSUME NEW r \in Threads, NEW s \in Threads, OnLink(r)', OnLink(s)',
             th'[r].ino = th'[s].ino
      PROVE  r = s
  BY <1>1, <1>3 DEF IInv, ThreadInv
<1>4. (\A r, s \in Threads : InDir(r) /\ InDir(s)
                             /\ DirOf[NameOf(r)] = DirOf[NameOf(s)] => r = s)'
  BY <1>2
<1>5. (\A r, s \in Threads : OnLink(r) /\ OnLink(s) /\ th[r].ino = th[s].ino => r = s)'
  BY <1>3
<1> QED
  BY <1>4, <1>5 DEF ThreadInv

\* A step that leaves the names and the locks of the calls alone.
LEMMA ExclusionFrame ==
    ASSUME IInv, NEW t \in Threads, \A s \in Threads : ThreadOf(s)',
           \A s \in Threads : s # t => th'[s] = th[s],
           \A s \in Threads : Busy(s) => NameOf(s)' = NameOf(s),
           InDir(t)' => InDir(t),
           OnLink(t)' => OnLink(t) /\ th'[t].ino = th[t].ino
    PROVE  ThreadInv'
<1>1. InDir(t) => Busy(t)
  BY DEF InDir
<1>2. \A s \in Threads : s # t /\ InDir(s) /\ InDir(t)'
                         => DirOf[NameOf(s)] # DirOf[NameOf(t)']
  BY <1>1 DEF IInv, ThreadInv
<1>3. \A s \in Threads : s # t /\ OnLink(s) /\ OnLink(t)' => th[s].ino # th'[t].ino
  BY DEF IInv, ThreadInv
<1> QED
  BY <1>2, <1>3, Exclusion
-----------------------------------------------------------------------------
\* Attributes

\* A call without locks reads the link count: nobody else notices.
LEMMA ReadAttrStep ==
    ASSUME IInv, NEW t \in Threads, NEW u \in UDents, ReadAttr(t, u)
    PROVE  IInv'
<1> USE DEF history, lower
<1> DEFINE e == [Idle EXCEPT !.pc = "copy", !.op = "getattr", !.ud = u,
                             !.ino = ud[u].ino, !.nlink = Nlink(linode[ud[u].ino])]
<1>1. /\ ui \in [Addrs -> InodeType] /\ ud \in [UDents -> UDentType]
      /\ th \in [Threads -> CallType]
  BY Types DEF IInv
<1>2. th' = [th EXCEPT ![t] = e] /\ th[t].pc = "idle" /\ th[t] = Idle
      /\ UNCHANGED <<disk, linode, lref, ld, mnt, ud, ui, history>>
  BY DEF ReadAttr, Busy, IInv, ThreadInv, ThreadOf, IdleOf
<1>3. /\ ud[u].ino \in Addrs /\ ui[ud[u].ino].st = "live" /\ ud[u].st # "free"
      /\ ud[u].name \in Names
  BY <1>1 DEF ReadAttr, IInv, UpperInv, UpperOf, UDentType, NoUDent
<1>4. /\ e.pc = "copy" /\ e.op = "getattr" /\ e.ud = u /\ e.old = None /\ e.ld = None
      /\ e.ino = ud[u].ino /\ e.nlink = Nlink(linode[ud[u].ino])
  BY DEF Idle
<1>5. e \in CallType
  <2>1. Nlink(linode[ud[u].ino]) \in Nat
    BY NlinkType
  <2>2. Idle \in CallType
    BY DEF Idle, CallType, PCs, Ops
  <2> QED
    BY <1>3, <2>1, <2>2 DEF CallType, PCs, Ops, Makers
<1> HIDE DEF e
<1>6. th'[t] = e /\ \A s \in Threads : s # t => th'[s] = th[s]
  BY <1>1, <1>2
<1>7. th' \in [Threads -> CallType]
  BY <1>1, <1>2, <1>5
<1>8. /\ Idle.pc = "idle" /\ Idle.op = "none"
  BY DEF Idle
<1>9. EntriesOK'
  BY <1>2, <1>7, Types DEF IInv, EntriesOK, CallType
<1>10. CountInv'
  <2>1. \A l \in LDents : Infos(l)' = Infos(l) /\ Holders(l)' = Holders(l) /\ Olds(l)' = Olds(l)
    BY <1>2, <1>4, <1>6, <1>8 DEF Infos, Holders, Holds, Busy, Olds, Dgets
  <2>2. \A a \in Addrs : Igets(a)' = Igets(a)
    BY <1>2, <1>4, <1>6, <1>8 DEF Igets
  <2>3. Mounted' = Mounted
    BY <1>2 DEF Mounted
  <2> QED
    BY <1>2, <2>1, <2>2, <2>3 DEF IInv, CountInv, CountOf, GrabOf
<1>11. LowerInv' /\ InodeInv'
  BY <1>2 DEF IInv, LowerInv, LowerOf, InodeInv, InodeOf
<1>12. UpperInv'
  BY <1>2 DEF IInv, UpperInv, UpperOf
<1>13. ASSUME NEW s \in Threads PROVE ThreadOf(s)'
  <2>1. CASE s # t
    <3>1. ThreadOf(s)
      BY DEF IInv, ThreadInv
    <3>2. Busy(s) => ud[th[s].ud].st # "free"
      BY <3>1 DEF ThreadOf, CallOf
    <3>3. th[s].pc = "copy" => ui[th[s].ino].st = "live"
      BY <3>1 DEF ThreadOf, CopyOf
    <3> QED
      BY <1>2, <1>6, <2>1, <3>1, <3>2, <3>3, ThreadFrame DEF Same
  <2>2. CASE s = t
    BY <1>2, <1>3, <1>4, <1>6, <2>2 DEF ThreadOf, IdleOf, Busy, CallOf, CopyOf
  <2> QED
    BY <2>1, <2>2
<1>14. ThreadInv'
  <2>1. ~InDir(t)' /\ ~OnLink(t)'
    BY <1>4, <1>6 DEF InDir, OnLink, Linking
  <2>2. ~Busy(t)
    BY <1>2 DEF Busy
  <2>3. \A s \in Threads : Busy(s) => NameOf(s)' = NameOf(s)
    BY <1>2, <1>6, <2>2 DEF NameOf
  <2> QED
    BY <1>6, <1>13, <2>1, <2>3, ExclusionFrame
<1>15. MirrorInv'
  <2>1. \A s \in Threads : Changing(s)' <=> Changing(s)
    BY <1>2, <1>4, <1>6, <1>8 DEF Changing
  <2>2. \A s \in Threads : Changing(s) => th'[s] = th[s]
    BY <1>2, <1>6, <1>8 DEF Changing
  <2> QED
    BY <1>2, <2>1, <2>2 DEF IInv, MirrorInv, MirrorOf
<1>16. NlinkInv'
  <2>1. \A s \in Threads : OnLink(s) /\ Changing(s) => (OnLink(s) /\ Changing(s))' /\ th'[s] = th[s]
    BY <1>2, <1>6, <1>8 DEF OnLink, Changing, Busy
  <2>2. \A a \in Addrs : Nlink(linode[a])' = Nlink(linode[a])
    BY <1>2 DEF Nlink
  <2> QED
    BY <1>2, <2>1, <2>2, NlinkFrame DEF IInv, NlinkInv
<1> QED
  BY <1>9, <1>10, <1>11, <1>12, <1>14, <1>15, <1>16 DEF IInv

\* A call returns.
LEMMA ReturnEffect ==
    ASSUME IInv, NEW t \in Threads, Return(t)
    PROVE  /\ th' \in [Threads -> CallType] /\ th'[t] = Idle /\ th'[t].pc = "idle"
           /\ \A s \in Threads : s # t => th'[s] = th[s]
           /\ ~Busy(t)' /\ ~InDir(t)' /\ ~OnLink(t)' /\ ~Changing(t)' /\ ThreadOf(t)'
           /\ \A l : t \notin Holders(l)' /\ t \notin Olds(l)'
           /\ \A a : t \notin Igets(a)'
<1>1. th \in [Threads -> CallType] /\ Idle \in CallType
  BY Types DEF IInv, Idle, CallType, PCs, Ops
<1>2. th'[t] = Idle /\ th' \in [Threads -> CallType]
      /\ \A s \in Threads : s # t => th'[s] = th[s]
  BY <1>1 DEF Return
<1>3. Idle.pc = "idle" /\ Idle.op = "none"
  BY DEF Idle
<1> QED
  BY <1>2, <1>3 DEF Busy, InDir, OnLink, Changing, ThreadOf, IdleOf, Holders, Holds, Olds, Igets

\* The link count is written without a lock.
LEMMA CopyAttrStep ==
    ASSUME IInv, NEW t \in Threads, CopyAttr(t)
    PROVE  IInv'
<1> USE DEF history, lower
<1>1. /\ ui \in [Addrs -> InodeType] /\ th \in [Threads -> CallType]
  BY Types DEF IInv
<1>2. th[t].pc = "copy" /\ Return(t)
      /\ UNCHANGED <<disk, linode, lref, ld, mnt, ud, history>>
  BY DEF CopyAttr
<1>3. th[t].op = "getattr" /\ th[t].ino \in Addrs /\ ui[th[t].ino].st = "live"
  BY <1>2 DEF IInv, ThreadInv, ThreadOf, CallOf, CopyOf, Busy
<1>4. PICK a \in Addrs : a = th[t].ino
  BY <1>3
<1> DEFINE e == IF th[t].nlink = Nlink(linode[a]) THEN th[t].nlink ELSE Stale
<1>5. ui' = [ui EXCEPT ![a].nlink = e]
  BY <1>4 DEF CopyAttr
<1>6. e \in Nat \cup {Stale} /\ e \in {Nlink(linode[a]), Stale}
  BY <1>1 DEF CallType
<1> HIDE DEF e
<1>7. /\ ui' \in [Addrs -> InodeType] /\ \A b \in Addrs : b # a => ui'[b] = ui[b]
      /\ ui'[a].st = ui[a].st /\ ui'[a].file = ui[a].file /\ ui'[a].nlink = e
  BY <1>1, <1>5, <1>6 DEF InodeType
<1>8. /\ th' \in [Threads -> CallType] /\ th'[t].pc = "idle"
      /\ \A s \in Threads : s # t => th'[s] = th[s]
      /\ ~Busy(t)' /\ ~InDir(t)' /\ ~OnLink(t)' /\ ~Changing(t)' /\ ThreadOf(t)'
      /\ \A l : t \notin Holders(l)' /\ t \notin Olds(l)'
      /\ \A b : t \notin Igets(b)'
  BY <1>2, ReturnEffect
<1>9. EntriesOK'
  BY <1>2, <1>7, <1>8, Types DEF IInv, EntriesOK, CallType, InodeType
<1>10. CountInv'
  <2>1. ~Holds(t) /\ th[t].op # "link" /\ th[t].pc # "iget"
    BY <1>2, <1>3 DEF Holds, Dgets
  <2>2. \A l \in LDents : Infos(l)' = Infos(l) /\ Holders(l)' = Holders(l) /\ Olds(l)' = Olds(l)
    BY <1>2, <1>8, <2>1 DEF Infos, Holders, Holds, Busy, Olds
  <2>3. \A b \in Addrs : Igets(b)' = Igets(b)
    BY <1>8, <2>1 DEF Igets
  <2>4. Mounted' = Mounted
    BY <1>2 DEF Mounted
  <2> QED
    BY <1>2, <1>7, <2>2, <2>3, <2>4 DEF IInv, CountInv, CountOf, GrabOf
<1>11. LowerInv' /\ InodeInv'
  BY <1>2, <1>7 DEF IInv, LowerInv, LowerOf, InodeInv, InodeOf
<1>12. UpperInv'
  <2>1. \A b : b \in Addrs => ui'[b].st = ui[b].st
    BY <1>7
  <2>2. \A u \in UDents : ud[u].ino # None => ud[u].ino \in Addrs
    BY DEF IInv, EntriesOK
  <2> QED
    BY <1>2, <2>1, <2>2 DEF IInv, UpperInv, UpperOf
<1>13. ASSUME NEW s \in Threads PROVE ThreadOf(s)'
  <2>1. CASE s # t
    <3>1. ThreadOf(s)
      BY DEF IInv, ThreadInv
    <3>2. Busy(s) => ud[th[s].ud].st # "free"
      BY <3>1 DEF ThreadOf, CallOf
    <3>3. th[s].pc = "copy" => ui'[th[s].ino].st = "live"
      BY <1>7, <3>1 DEF ThreadOf, CopyOf
    <3> QED
      BY <1>2, <1>8, <2>1, <3>1, <3>2, <3>3, ThreadFrame DEF Same
  <2> QED
    BY <1>8, <2>1
<1>14. ThreadInv'
  <2>1. \A s \in Threads : s # t => (Busy(s) => NameOf(s)' = NameOf(s))
    BY <1>2, <1>8 DEF NameOf
  <2> QED
    BY <1>8, <1>13, <2>1, Exclusion
<1>15. ~Changing(t)
  BY <1>2 DEF Changing
<1>16. MirrorInv'
  <2>1. \A s \in Threads : Changing(s) => Changing(s)' /\ th'[s].ud = th[s].ud
    BY <1>8, <1>15 DEF Changing
  <2> QED
    BY <1>2, <2>1, MirrorFrame DEF IInv, MirrorInv
<1>17. NlinkInv'
  <2>1. \A s \in Threads : OnLink(s) /\ Changing(s) => (OnLink(s) /\ Changing(s))' /\ th'[s] = th[s]
    BY <1>8, <1>15 DEF OnLink, Changing, Busy
  <2>2. \A b \in Addrs : Nlink(linode[b])' = Nlink(linode[b])
    BY <1>2 DEF Nlink
  <2>3. NlinkOf(a)'
    BY <1>6, <1>7, <2>2 DEF NlinkOf
  <2>4. ASSUME NEW b \in Addrs, b # a PROVE NlinkOf(b)'
    BY <1>2, <1>7, <2>1, <2>2, <2>4, NlinkFrame DEF IInv, NlinkInv
  <2> QED
    BY <2>3, <2>4 DEF NlinkInv
<1> QED
  BY <1>9, <1>10, <1>11, <1>12, <1>14, <1>16, <1>17 DEF IInv
-----------------------------------------------------------------------------
\* The lower file system drops an inode: nobody was using it.
LEMMA LowerShrinkStep ==
    ASSUME IInv, NEW a \in Addrs, LowerShrink(a)
    PROVE  IInv'
<1> USE DEF history, lower
<1>1. /\ linode \in [Addrs -> Files \cup {None}] /\ linode' = [linode EXCEPT ![a] = None]
      /\ UNCHANGED <<disk, lref, ld, mnt, ud, ui, th, history>>
      /\ lref[a] = 0 /\ \A l \in LDents : ld[l].ino # a
  BY DEF IInv, EntriesOK, LowerShrink
<1>2. linode' \in [Addrs -> Files \cup {None}] /\ linode'[a] = None
      /\ \A b \in Addrs : b # a => linode'[b] = linode[b]
  BY <1>1
<1>3. ui[a].st # "live"
  BY <1>1, GrabCount DEF IInv
<1>4. EntriesOK'
  BY <1>1, <1>2 DEF IInv, EntriesOK
<1>5. CountInv'
  BY <1>1 DEF IInv, CountInv, CountOf, GrabOf, Infos, Holders, Holds, Busy, Olds, Mounted, Igets
<1>6. LowerInv'
  <2>1. ASSUME NEW l \in LDents PROVE LowerOf(l)'
    <3>1. ld[l].ino # None => linode'[ld[l].ino] = linode[ld[l].ino]
      BY <1>1, <1>2 DEF IInv, EntriesOK
    <3> QED
      BY <1>1, <3>1 DEF IInv, LowerInv, LowerOf
  <2> QED
    BY <1>1, <1>2, <2>1 DEF IInv, LowerInv
<1>7. InodeInv'
  BY <1>1, <1>2, <1>3 DEF IInv, InodeInv, InodeOf
<1>8. UpperInv'
  BY <1>1 DEF IInv, UpperInv, UpperOf
<1>9. ThreadInv'
  <2>1. ASSUME NEW t \in Threads PROVE ThreadOf(t)'
    <3>1. ThreadOf(t)
      BY DEF IInv, ThreadInv
    <3>2. th[t].pc = "copy" => ui[th[t].ino].st = "live"
      BY <3>1 DEF ThreadOf, CopyOf
    <3>3. Busy(t) => ud[th[t].ud].st # "free"
      BY <3>1 DEF ThreadOf, CallOf
    <3> QED
      BY <1>1, <3>1, <3>2, <3>3, ThreadFrame DEF Same
  <2> QED
    BY <1>1, <2>1 DEF IInv, ThreadInv, InDir, OnLink, Busy, NameOf
<1>10. MirrorInv'
  <2>1. ASSUME NEW u \in UDents, ud[u].ino # None PROVE linode'[ud[u].ino] = linode[ud[u].ino]
    BY <1>2, <1>3, <2>1 DEF IInv, UpperInv, UpperOf, EntriesOK
  <2>2. \A t \in Threads : Changing(t)' <=> Changing(t)
    BY <1>1 DEF Changing
  <2> QED
    BY <1>1, <2>1, <2>2, MirrorFrame DEF IInv, MirrorInv
<1>11. NlinkInv'
  <2>1. ASSUME NEW b \in Addrs, ui[b].st = "live" PROVE Nlink(linode[b])' = Nlink(linode[b])
    BY <1>1, <1>2, <1>3, <2>1 DEF Nlink
  <2>2. \A t \in Threads : (OnLink(t)' <=> OnLink(t)) /\ (Changing(t)' <=> Changing(t))
    BY <1>1 DEF OnLink, Busy, Changing
  <2> QED
    BY <1>1, <2>1, <2>2, NlinkFrame DEF IInv, NlinkInv
<1> QED
  BY <1>4, <1>5, <1>6, <1>7, <1>8, <1>9, <1>10, <1>11 DEF IInv
-----------------------------------------------------------------------------
\* References that are taken and given back

\* A reference to l more or less, and possibly the last one.
Counted(l) ==
    \/ ld'[l] = NoLDent
    \/ Same(l) /\ (IF ld[l].st = "free" THEN ld'[l] = ld[l] ELSE ld'[l].count > 0)

\* References do not change what the lower directories say.
LEMMA LowerCounted ==
    ASSUME IInv, UNCHANGED <<disk, linode>>, \A l \in LDents : Counted(l)
    PROVE  LowerInv'
<1>1. ASSUME NEW l \in LDents PROVE LowerOf(l)'
  BY LowerFrame DEF IInv, LowerInv, Counted
<1>2. \A l \in LDents : ld'[l].st = "hashed" => ld[l].st = "hashed" /\ ld'[l].name = ld[l].name
  BY DEF Counted, Same, NoLDent
<1>3. (\A k, l \in LDents : ld[k].st = "hashed" /\ ld[l].st = "hashed"
                            /\ ld[k].name = ld[l].name => k = l)'
  BY <1>2 DEF IInv, LowerInv
<1> QED
  BY <1>1, <1>3 DEF IInv, LowerInv

\* A dentry that is in use is not free.
LEMMA UsedDent ==
    ASSUME IInv, NEW l \in LDents, ld[l].count >= 1
    PROVE  ld[l].st # "free"
  BY DEF IInv, LowerInv, LowerOf, NoLDent

\* Nothing is done to a dentry that is not in the way.
LEMMA Untouched ==
    ASSUME IInv, NEW l \in LDents, ld'[l] = ld[l]
    PROVE  Same(l) /\ Counted(l)
  BY DEF Counted, Same, IInv, LowerInv, LowerOf

\* What a reference is to: the lower dentry of a busy call stays while it is used.
LEMMA CallRefs ==
    ASSUME IInv, NEW t \in Threads, InDir(t)
    PROVE  /\ th[t].ld \in LDents /\ th[t].ud \in UDents
           /\ ld[th[t].ld].count >= 1
           /\ th[t].pc = "interpose" => t \in Holders(th[t].ld)
           /\ th[t].pc # "interpose" => th[t].ud \in Infos(th[t].ld)
           /\ ld[th[t].ld].name = NameOf(t) /\ NameOf(t) \in Names
<1>1. CallOf(t) /\ th[t].op # "getattr"
  BY DEF IInv, ThreadInv, ThreadOf, InDir
<1>2. th[t].ld \in LDents /\ th[t].ud \in UDents
  BY <1>1 DEF CallOf
<1>3. th[t].pc = "interpose" => t \in Holders(th[t].ld)
  BY DEF Holders, Holds
<1>4. th[t].pc # "interpose" => th[t].ud \in Infos(th[t].ld)
  BY <1>1 DEF CallOf, Infos
<1>5. ld[th[t].ld].count >= 1
  BY <1>2, <1>3, <1>4, RefCount DEF IInv
<1>6. ld[th[t].ld].name = NameOf(t) /\ NameOf(t) \in Names
  BY <1>1, <1>2 DEF CallOf, NameOf, IInv, UpperInv, UpperOf
<1> QED
  BY <1>2, <1>3, <1>4, <1>5, <1>6

\* The lower dentry of an upper one is in use.
LEMMA DentRefs ==
    ASSUME IInv, NEW u \in UDents, ud[u].info # None
    PROVE  /\ ud[u].info \in LDents /\ u \in Infos(ud[u].info)
           /\ ld[ud[u].info].count >= 1 /\ ld[ud[u].info].st # "free"
<1>1. ud[u].info \in LDents
  BY DEF IInv, EntriesOK
<1>2. u \in Infos(ud[u].info)
  BY DEF Infos
<1>3. ld[ud[u].info].count >= 1
  BY <1>1, <1>2, RefCount DEF IInv
<1> QED
  BY <1>1, <1>2, <1>3, UsedDent

\* An upper dentry that nobody uses gives its lower path back.
LEMMA ReleaseStep ==
    ASSUME IInv, NEW u \in UDents, teadfs_d_release(u)
    PROVE  IInv'
<1> USE DEF history, lower
<1> DEFINE p == ud[u].info
<1>1. /\ ud \in [UDents -> UDentType] /\ ld \in [LDents -> LDentType] /\ mnt \in Nat
      /\ lost \in [LDents -> Nat] /\ forgot \in Nat
  BY Types, DirectAssumption DEF IInv
<1>2. /\ ud' = [ud EXCEPT ![u] = NoUDent] /\ orphan' = orphan \ {u}
      /\ UNCHANGED <<disk, linode, lref, ui, th, lost, forgot, touched>>
      /\ ~PinnedDent(u) /\ ud[u].st # "free"
      /\ IF p = None THEN UNCHANGED <<ld, mnt>> ELSE ld' = Dput(ld, p) /\ mnt' = mnt - 1
  BY DEF teadfs_d_release
<1>3. /\ NoUDent \in UDentType /\ NoUDent.info = None /\ NoUDent.st = "free"
      /\ NoUDent.ino = None
  BY DEF NoUDent, UDentType
<1>4. /\ ud' \in [UDents -> UDentType] /\ ud'[u] = NoUDent
      /\ \A v \in UDents : v # u => ud'[v] = ud[v]
  BY <1>1, <1>2, <1>3
<1>5. \A t \in Threads : Busy(t) => u # th[t].ud /\ u # th[t].old
  BY <1>2 DEF PinnedDent
<1>6. p # None => p \in LDents /\ u \in Infos(p) /\ ld[p].count >= 1 /\ ld[p].st # "free"
  BY DentRefs
<1> HIDE DEF p
<1>7. /\ ld' \in [LDents -> LDentType]
      /\ \A l \in LDents : l # p => ld'[l] = ld[l]
      /\ p # None => /\ ld'[p].count = ld[p].count - 1
                     /\ ld[p].count = 1 => ld'[p] = NoLDent
                     /\ ld[p].count # 1 => Same(p)
  <2>1. CASE p = None
    BY <1>1, <1>2, <2>1
  <2>2. CASE p # None
    <3>1. ld[p].count > 0 /\ p \in LDents
      BY <1>1, <1>6, <2>2 DEF LDentType
    <3> QED
      BY <1>1, <1>2, <2>2, <3>1, DputEffect DEF Same
  <2> QED
    BY <2>1, <2>2
<1>8. \A l \in LDents : Counted(l) /\ (l # p => Same(l)) /\ (ld[l].count >= 2 => Same(l))
  <2> SUFFICES ASSUME NEW l \in LDents
               PROVE  Counted(l) /\ (l # p => Same(l)) /\ (ld[l].count >= 2 => Same(l))
    OBVIOUS
  <2>1. CASE l # p
    BY <1>7, <2>1, Untouched
  <2>2. CASE l = p
    <3>1. p # None /\ ld[l].count \in Nat
      BY <1>1, <2>2, NoneAssumption DEF LDentType
    <3>2. ld'[l].count = ld[l].count - 1
      BY <1>7, <2>2, <3>1
    <3> QED
      BY <1>6, <1>7, <2>2, <3>1, <3>2 DEF Counted
  <2> QED
    BY <2>1, <2>2
<1>9. \A v \in UDents : v # u /\ ud[v].info # None => Same(ud[v].info)
  <2> SUFFICES ASSUME NEW v \in UDents, v # u, ud[v].info # None PROVE Same(ud[v].info)
    OBVIOUS
  <2>1. ud[v].info \in LDents /\ v \in Infos(ud[v].info)
    BY DentRefs
  <2>2. ud[v].info = p => ld[p].count >= 2
    BY <1>6, <2>1, RefCount DEF IInv
  <2> QED
    BY <1>8, <2>1, <2>2
<1>10. \A t \in Threads : InDir(t) => Same(th[t].ld)
  <2> SUFFICES ASSUME NEW t \in Threads, InDir(t) PROVE Same(th[t].ld)
    OBVIOUS
  <2>1. th[t].ld \in LDents
    BY CallRefs
  <2>2. CASE th[t].pc = "interpose"
    <3>1. t \in Holders(th[t].ld)
      BY <2>2, CallRefs
    <3>2. th[t].ld = p => ld[p].count >= 2
      BY <1>6, <2>1, <3>1, RefCount, NoneAssumption DEF IInv
    <3> QED
      BY <1>8, <2>1, <3>2
  <2>3. CASE th[t].pc # "interpose"
    <3>1. th[t].ud \in UDents /\ th[t].ud \in Infos(th[t].ld)
      BY <2>3, CallRefs
    <3>2. th[t].ud # u
      BY <1>5 DEF InDir
    <3>3. ud[th[t].ud].info = th[t].ld
      BY <3>1 DEF Infos
    <3> QED
      BY <1>9, <2>1, <3>1, <3>2, <3>3, NoneAssumption
  <2> QED
    BY <2>2, <2>3
<1>11. mnt' \in Nat
  <2>1. p # None => u \in Mounted
    BY DEF Mounted, p
  <2>2. p # None => mnt >= 1
    BY <2>1, MountCount DEF IInv
  <2> QED
    BY <1>1, <1>2, <2>2
<1>12. EntriesOK'
  <2>1. orphan' \subseteq UDents
    BY <1>2 DEF IInv, EntriesOK
  <2> QED
    BY <1>2, <1>4, <1>7, <1>11, <2>1 DEF IInv, EntriesOK, LDentType, UDentType
<1>13. CountInv'
  <2>1. ASSUME NEW l \in LDents PROVE CountOf(l)'
    <3>1. u \notin Infos(l)' /\ (u \in Infos(l) <=> l = p)
      BY <1>3, <1>4, NoneAssumption DEF Infos, p
    <3>2. Holders(l)' = Holders(l)
      BY <1>2 DEF Holders, Holds, Busy
    <3>3. Olds(l)' = Olds(l)
      <4>1. \A t \in Threads : th[t].op = "link" => ud'[th[t].old] = ud[th[t].old]
        <5> SUFFICES ASSUME NEW t \in Threads, th[t].op = "link"
                     PROVE  ud'[th[t].old] = ud[th[t].old]
          OBVIOUS
        <5>1. Busy(t)
          BY DEF IInv, ThreadInv, ThreadOf, IdleOf, Busy, Idle
        <5>2. th[t].old \in UDents
          BY <5>1 DEF IInv, ThreadInv, ThreadOf, CallOf
        <5> QED
          BY <1>4, <1>5, <5>1, <5>2
      <4> QED
        BY <1>2, <4>1 DEF Olds
    <3>4. ld'[l].count \in Int /\ ld[l].count \in Int /\ lost[l] \in Int
      BY <1>1, <1>7 DEF LDentType
    <3>5. ld'[l].count - ld[l].count = 0 - (IF u \in Infos(l) THEN 1 ELSE 0)
      BY <1>7, <3>1, <3>4, NoneAssumption
    <3>6. ld'[l].count - ld[l].count
            = ((IF u \in Infos(l)' THEN 1 ELSE 0) - (IF u \in Infos(l) THEN 1 ELSE 0))
              + (lost'[l] - lost[l])
              + ((IF u \in Holders(l)' THEN 1 ELSE 0) - (IF u \in Holders(l) THEN 1 ELSE 0))
              + ((IF u \in Olds(l)' THEN 1 ELSE 0) - (IF u \in Olds(l) THEN 1 ELSE 0))
      BY <1>2, <3>1, <3>2, <3>3, <3>4, <3>5
    <3>7. /\ \A s \in Threads : s # u => th'[s] = th[s]
          /\ \A v \in UDents : v # u => ud'[v].info = ud[v].info
          /\ \A s \in Threads : s # u => (s \in Olds(l)' <=> s \in Olds(l))
          /\ lost'[l] \in Int /\ EntriesOK /\ CountInv
      BY <1>2, <1>4, <3>3, <3>4 DEF IInv
    <3> QED
      BY <3>4, <3>6, <3>7, CountFrame, Zenon
  <2>2. (mnt = Cardinality(Mounted) + forgot)'
    <3>1. u \notin Mounted' /\ (u \in Mounted <=> p # None)
      BY <1>3, <1>4 DEF Mounted, p
    <3>2. mnt' - mnt = ((IF u \in Mounted' THEN 1 ELSE 0) - (IF u \in Mounted THEN 1 ELSE 0))
                       + (forgot' - forgot)
      BY <1>1, <1>2, <3>1
    <3>3. /\ \A v \in UDents : v # u => ud'[v].info = ud[v].info
          /\ mnt' \in Int /\ forgot' \in Int /\ EntriesOK /\ CountInv
      BY <1>1, <1>2, <1>4, <1>11 DEF IInv
    <3>4. mnt' = Cardinality(Mounted)' + forgot'
      BY <3>2, <3>3, MountFrame, Zenon
    <3> QED
      BY <3>4
  <2>3. (\A a \in Addrs : GrabOf(a))'
    BY <1>2 DEF IInv, CountInv, GrabOf, Igets
  <2> QED
    BY <2>1, <2>2, <2>3 DEF CountInv
<1>14. LowerInv' /\ InodeInv'
  <2>1. InodeInv'
    BY <1>2 DEF IInv, InodeInv, InodeOf
  <2> QED
    BY <1>2, <1>8, <2>1, LowerCounted
<1>15. UpperInv'
  <2>1. ASSUME NEW v \in UDents, v # u PROVE UpperOf(v)'
    <3>1. UpperOf(v)
      BY DEF IInv, UpperInv
    <3>2. ud[v].ino # None => ui'[ud[v].ino].st = "live"
      BY <1>2, <3>1 DEF UpperOf
    <3> QED
      BY <1>2, <1>4, <1>9, <2>1, <3>1, <3>2, UpperFrame
  <2>2. UpperOf(u)'
    BY <1>2, <1>3, <1>4 DEF UpperOf
  <2> QED
    BY <1>3, <1>4, <2>1, <2>2 DEF IInv, UpperInv
<1>16. ThreadInv'
  <2>1. ASSUME NEW t \in Threads, Busy(t)
        PROVE  /\ th[t].ud \in UDents /\ ud'[th[t].ud] = ud[th[t].ud] /\ ud[th[t].ud].st # "free"
               /\ th[t].op = "link" => ud'[th[t].old] = ud[th[t].old]
    BY <1>4, <1>5, <2>1 DEF IInv, ThreadInv, ThreadOf, CallOf
  <2>2. ASSUME NEW t \in Threads PROVE ThreadOf(t)'
    <3>1. ThreadOf(t)
      BY DEF IInv, ThreadInv
    <3>2. th[t].pc = "copy" => ui[th[t].ino].st = "live"
      BY <3>1 DEF ThreadOf, CopyOf
    <3>3. InDir(t) => Busy(t)
      BY DEF InDir
    <3>4. \A v \in UDents : ud'[v].st = "hashed" => ud'[v] = ud[v]
      BY <1>3, <1>4
    <3> QED
      BY <1>2, <1>10, <2>1, <3>1, <3>2, <3>3, <3>4, ThreadFrame
  <2>3. \A t \in Threads : Busy(t) => NameOf(t)' = NameOf(t)
    BY <1>2, <2>1 DEF NameOf
  <2> QED
    BY <1>2, <2>2, <2>3 DEF IInv, ThreadInv, InDir, OnLink, Busy
<1>17. MirrorInv'
  <2>1. \A t \in Threads : Changing(t)' <=> Changing(t)
    BY <1>2 DEF Changing
  <2>2. ASSUME NEW v \in UDents PROVE MirrorOf(v)'
    BY <1>2, <1>3, <1>4, <2>1, MirrorFrame DEF IInv, MirrorInv
  <2> QED
    BY <2>2 DEF MirrorInv
<1>18. NlinkInv'
  BY <1>2 DEF IInv, NlinkInv, NlinkOf, Nlink, OnLink, Busy, Changing
<1> QED
  BY <1>12, <1>13, <1>14, <1>15, <1>16, <1>17, <1>18 DEF IInv

Back(t, l) == (IF t \in Holders(l) THEN 1 ELSE 0) + (IF t \in Olds(l) THEN 1 ELSE 0)

\* A step gives back what t has taken, and nothing else.
GivenBack(t) ==
    /\ ld' \in [LDents -> LDentType]
    /\ \A l \in LDents : /\ Counted(l)
                         /\ ld'[l].count = ld[l].count - Back(t, l)
                         /\ ld[l].count > Back(t, l) => Same(l)

\* dput of one reference to the lower dentry of t.
LEMMA PutEffect ==
    ASSUME IInv, NEW t \in Threads, NEW p \in LDents, ld' = Dput(ld, p), ld[p].count >= 1,
           \A l \in LDents : Back(t, l) = IF l = p THEN 1 ELSE 0
    PROVE  GivenBack(t)
<1>1. ld \in [LDents -> LDentType]
  BY Types DEF IInv
<1>2. ld[p].count \in Nat /\ ld[p].count > 0 /\ ld[p].st # "free"
  BY <1>1, UsedDent DEF LDentType
<1>3. /\ ld' \in [LDents -> LDentType]
      /\ \A k \in LDents : k # p => ld'[k] = ld[k]
      /\ ld'[p].count = ld[p].count - 1
      /\ ld[p].count = 1 => ld'[p] = NoLDent
      /\ ld[p].count # 1 => ld'[p].st = ld[p].st /\ ld'[p].name = ld[p].name
                            /\ ld'[p].ino = ld[p].ino
  BY <1>1, <1>2, DputEffect
<1>4. ASSUME NEW l \in LDents
      PROVE  /\ Counted(l)
             /\ ld'[l].count = ld[l].count - Back(t, l)
             /\ ld[l].count > Back(t, l) => Same(l)
  <2>1. CASE l # p
    <3>1. ld[l].count \in Nat
      BY <1>1 DEF LDentType
    <3> QED
      BY <1>3, <2>1, <3>1, Untouched
  <2>2. CASE l = p
    <3>1. Back(t, l) = 1
      BY <2>2
    <3> QED
      BY <1>2, <1>3, <2>2, <3>1 DEF Counted, Same
  <2> QED
    BY <2>1, <2>2
<1> QED
  BY <1>3, <1>4 DEF GivenBack

\* The dputs at the end of a call.
LEMMA UntakeEffect ==
    ASSUME IInv, NEW t \in Threads, InDir(t), th[t].pc # "interpose", ld' = Untake(ld, t)
    PROVE  GivenBack(t)
<1>1. ld \in [LDents -> LDentType]
  BY Types DEF IInv
<1>2. /\ th[t].ld \in LDents /\ ld[th[t].ld].count >= 1 /\ CallOf(t)
  BY CallRefs DEF IInv, ThreadInv, ThreadOf, InDir
<1>3. \A l \in LDents : /\ t \in Holders(l) <=> (l = th[t].ld /\ th[t].op \in Dgets)
                        /\ t \in Olds(l) <=> (th[t].op = "link" /\ ud[th[t].old].info = l)
  BY DEF Holders, Holds, Olds, InDir
<1>4. CASE th[t].op \in Dgets \ {"link"}
  <2>1. ld' = Dput(ld, th[t].ld)
    BY <1>4 DEF Untake
  <2>2. \A l \in LDents : Back(t, l) = IF l = th[t].ld THEN 1 ELSE 0
    BY <1>3, <1>4 DEF Back
  <2> QED
    BY <1>2, <2>1, <2>2, PutEffect
<1>5. CASE th[t].op \notin Dgets
  <2>1. ld' = ld /\ \A l \in LDents : Back(t, l) = 0
    BY <1>3, <1>5 DEF Untake, Back, Dgets
  <2>2. \A l \in LDents : ld[l].count \in Nat
    BY <1>1 DEF LDentType
  <2> QED
    BY <1>1, <2>1, <2>2, Untouched DEF GivenBack
<1>6. CASE th[t].op = "link"
  <2> DEFINE p == th[t].ld
  <2> DEFINE q == ud[th[t].old].info
  <2>1. q \in LDents /\ t \in Olds(q) /\ t \in Holders(p)
    <3>1. th[t].old \in UDents /\ ud[th[t].old].ino # None
      BY <1>2, <1>6 DEF CallOf
    <3>2. q # None
      BY <3>1 DEF IInv, UpperInv, UpperOf
    <3>3. q \in LDents
      BY <3>1, <3>2, DentRefs
    <3> QED
      BY <1>2, <1>3, <1>6, <3>3 DEF Dgets
  <2> DEFINE e == Dput(ld, p)
  <2>2. ld' = Dput(e, q)
    BY <1>6 DEF Untake, teadfs_get_lower_path
  <2>3. \A l \in LDents : Back(t, l) = (IF l = p THEN 1 ELSE 0) + (IF l = q THEN 1 ELSE 0)
    BY <1>3, <1>6 DEF Back, Dgets
  <2>4. p \in LDents
    BY <1>2
  <2>5. ld[p].count >= 1 /\ ld[q].count >= 1 /\ (p = q => ld[p].count >= 2)
    BY <2>1, <2>4, RefCount DEF IInv
  <2>6. ld[p].st # "free" /\ ld[q].st # "free"
    BY <2>1, <2>4, <2>5, UsedDent
  <2> HIDE DEF p, q
  <2>7. \A l \in LDents : ld[l].count \in Nat
    BY <1>1 DEF LDentType
  <2>8. /\ e \in [LDents -> LDentType]
        /\ \A k \in LDents : k # p => e[k] = ld[k]
        /\ e[p].count = ld[p].count - 1
        /\ ld[p].count = 1 => e[p] = NoLDent
        /\ ld[p].count # 1 => e[p].st = ld[p].st /\ e[p].name = ld[p].name
                              /\ e[p].ino = ld[p].ino
    BY <1>1, <2>4, <2>5, <2>7, DputEffect
  <2> HIDE DEF e
  <2>9. e[q].count > 0 /\ e[q].count \in Nat
    BY <2>1, <2>5, <2>7, <2>8 DEF LDentType
  <2>10. /\ ld' \in [LDents -> LDentType]
         /\ \A k \in LDents : k # q => ld'[k] = e[k]
         /\ ld'[q].count = e[q].count - 1
         /\ e[q].count = 1 => ld'[q] = NoLDent
         /\ e[q].count # 1 => ld'[q].st = e[q].st /\ ld'[q].name = e[q].name
                              /\ ld'[q].ino = e[q].ino
    BY <2>1, <2>2, <2>8, <2>9, DputEffect
  <2>11. ASSUME NEW l \in LDents
         PROVE  /\ Counted(l)
                /\ ld'[l].count = ld[l].count - Back(t, l)
                /\ ld[l].count > Back(t, l) => Same(l)
    <3>1. CASE l # p /\ l # q
      <4>1. Back(t, l) = 0 /\ ld'[l] = ld[l] /\ ld[l].count \in Nat
        BY <2>3, <2>7, <2>8, <2>10, <3>1
      <4> QED
        BY <4>1, Untouched
    <3>2. CASE l = p /\ l # q
      <4>1. Back(t, l) = 1 /\ ld'[l] = e[l]
        BY <2>3, <2>10, <3>2
      <4> QED
        BY <2>5, <2>6, <2>7, <2>8, <3>2, <4>1 DEF Counted, Same
    <3>3. CASE l # p /\ l = q
      <4>1. Back(t, l) = 1 /\ e[l] = ld[l]
        BY <2>3, <2>8, <3>3
      <4> QED
        BY <2>5, <2>6, <2>7, <2>10, <3>3, <4>1 DEF Counted, Same
    <3>4. CASE l = p /\ l = q
      <4>1. Back(t, l) = 2
        BY <2>3, <3>4
      <4>2. ld[l].count >= 2 /\ ld[l].count \in Nat
        BY <2>5, <2>7, <3>4
      <4>3. ld'[l].count = ld[l].count - 2
        BY <2>8, <2>10, <3>4, <4>2
      <4>4. ld[l].count > 2 => Same(l)
        BY <2>8, <2>10, <3>4, <4>2 DEF Same
      <4>5. ld[l].count = 2 => ld'[l] = NoLDent
        BY <2>8, <2>10, <3>4, <4>2
      <4> QED
        BY <2>6, <3>4, <4>1, <4>2, <4>3, <4>4, <4>5 DEF Counted
    <3> QED
      BY <3>1, <3>2, <3>3, <3>4
  <2> QED
    BY <2>10, <2>11 DEF GivenBack
<1> QED
  BY <1>4, <1>5, <1>6 DEF Dgets

\* Who still has a reference keeps its dentry, and the count is right.
LEMMA BackEffect ==
    ASSUME IInv, NEW t \in Threads, Return(t), GivenBack(t),
           \A v \in UDents : ud'[v].info = ud[v].info, lost' = lost
    PROVE  /\ \A v \in UDents : ud[v].info # None => Same(ud[v].info)
           /\ \A s \in Threads : s # t /\ InDir(s) => Same(th[s].ld)
           /\ \A l \in LDents : CountOf(l)'
<1>1. ld \in [LDents -> LDentType] /\ lost \in [LDents -> Nat]
  BY Types DEF IInv
<1>2. /\ \A s \in Threads : s # t => th'[s] = th[s]
      /\ \A l : t \notin Holders(l)' /\ t \notin Olds(l)'
  BY ReturnEffect
<1>3. ASSUME NEW l \in LDents
      PROVE  /\ ld[l].count \in Nat /\ ld'[l].count = ld[l].count - Back(t, l)
             /\ ld[l].count > Back(t, l) => Same(l)
             /\ (\E v \in UDents : v \in Infos(l)) => ld[l].count > Back(t, l)
             /\ (\E s \in Threads : s # t /\ s \in Holders(l)) => ld[l].count > Back(t, l)
  <2>1. ld[l].count \in Nat
    BY <1>1 DEF LDentType
  <2>2. ld'[l].count = ld[l].count - Back(t, l) /\ (ld[l].count > Back(t, l) => Same(l))
    BY DEF GivenBack
  <2>3. ASSUME NEW v \in UDents, v \in Infos(l) PROVE ld[l].count > Back(t, l)
    BY <2>1, <2>3, RefCount DEF IInv, Back
  <2>4. ASSUME NEW s \in Threads, s # t, s \in Holders(l) PROVE ld[l].count > Back(t, l)
    BY <2>1, <2>4, RefCount DEF IInv, Back
  <2> QED
    BY <2>1, <2>2, <2>3, <2>4
<1>4. ASSUME NEW v \in UDents, ud[v].info # None PROVE Same(ud[v].info)
  BY <1>3, <1>4, DentRefs
<1>5. ASSUME NEW s \in Threads, s # t, InDir(s) PROVE Same(th[s].ld)
  BY <1>3, <1>5, CallRefs
<1>6. ASSUME NEW l \in LDents PROVE CountOf(l)'
  <2>1. \A s \in Threads : s # t => (s \in Olds(l)' <=> s \in Olds(l))
    <3> SUFFICES ASSUME NEW s \in Threads, s # t PROVE s \in Olds(l)' <=> s \in Olds(l)
      OBVIOUS
    <3>1. th[s].op = "link" => th[s].old \in UDents
      BY DEF IInv, ThreadInv, ThreadOf, IdleOf, Idle, Busy, CallOf
    <3> QED
      BY <1>2, <3>1 DEF Olds
  <2>2. ld[l].count \in Nat /\ ld'[l].count = ld[l].count - Back(t, l)
        /\ lost[l] \in Int /\ lost'[l] = lost[l]
    BY <1>1, <1>3
  <2>3. Infos(l)' = Infos(l)
    BY DEF Infos
  <2>4. ld'[l].count - ld[l].count
          = ((IF None \in Infos(l)' THEN 1 ELSE 0) - (IF None \in Infos(l) THEN 1 ELSE 0))
            + (lost'[l] - lost[l])
            + ((IF t \in Holders(l)' THEN 1 ELSE 0) - (IF t \in Holders(l) THEN 1 ELSE 0))
            + ((IF t \in Olds(l)' THEN 1 ELSE 0) - (IF t \in Olds(l) THEN 1 ELSE 0))
    BY <1>2, <2>2, <2>3 DEF Back
  <2>5. ld'[l].count \in Int /\ lost'[l] \in Int /\ EntriesOK /\ CountInv
        /\ \A v \in UDents : v # None => ud'[v].info = ud[v].info
    BY <2>2 DEF IInv, Back
  <2> QED
    BY <1>2, <2>1, <2>4, <2>5, CountFrame, Zenon
<1> QED
  BY <1>4, <1>5, <1>6

\* Two calls at once work on different names, dentries and lower dentries.
LEMMA OtherCall ==
    ASSUME IInv, NEW s \in Threads, NEW t \in Threads, s # t, InDir(s), InDir(t)
    PROVE  NameOf(s) # NameOf(t) /\ th[s].ud # th[t].ud /\ th[s].ld # th[t].ld
<1>1. NameOf(s) # NameOf(t)
  BY DEF IInv, ThreadInv
<1>2. th[s].ud # th[t].ud
  BY <1>1 DEF NameOf
<1>3. ld[th[s].ld].name = NameOf(s) /\ ld[th[t].ld].name = NameOf(t)
  BY CallRefs
<1> QED
  BY <1>1, <1>2, <1>3

\* A call gives back what it has taken, and changes at most its own upper dentry.
LEMMA ReturnStep ==
    ASSUME IInv, NEW t \in Threads, InDir(t), Return(t), GivenBack(t),
           NEW u \in UDents, u = th[t].ud,
           UNCHANGED <<disk, linode, mnt, lost, forgot, orphan, touched>>,
           ud' \in [UDents -> UDentType], \A v \in UDents : v # u => ud'[v] = ud[v],
           ud'[u].info = ud[u].info, ud'[u].name = ud[u].name, ud'[u].st # "free",
           ud'[u].ino = ud[u].ino \/ ud[u].ino = None,
           ud'[u].st = "hashed" => ud[u].st = "hashed" \/ th[t].op = "lookup",
           ui' \in [Addrs -> InodeType], lref' \in [Addrs -> Int],
           \A a \in Addrs : ui[a].st = "live" => ui'[a].st = "live",
           \A a \in Addrs : GrabOf(a)' /\ InodeOf(a)' /\ NlinkOf(a)',
           UpperOf(u)', MirrorOf(u)'
    PROVE  IInv'
<1>1. /\ th' \in [Threads -> CallType] /\ th'[t] = Idle
      /\ \A s \in Threads : s # t => th'[s] = th[s]
      /\ ~Busy(t)' /\ ~InDir(t)' /\ ~OnLink(t)' /\ ~Changing(t)' /\ ThreadOf(t)'
  BY ReturnEffect
<1>2. \A v \in UDents : ud'[v].info = ud[v].info
  OBVIOUS
<1>3. /\ \A v \in UDents : ud[v].info # None => Same(ud[v].info)
      /\ \A s \in Threads : s # t /\ InDir(s) => Same(th[s].ld)
      /\ \A l \in LDents : CountOf(l)'
  BY <1>2, BackEffect
<1>4. EntriesOK'
  <2>1. ld' \in [LDents -> LDentType]
    BY DEF GivenBack
  <2> QED
    BY <1>1, <2>1 DEF IInv, EntriesOK, LDentType, UDentType, InodeType, CallType
<1>5. CountInv'
  <2>1. Mounted' = Mounted
    BY <1>2 DEF Mounted
  <2> QED
    BY <1>3, <2>1 DEF IInv, CountInv
<1>6. LowerInv'
  BY LowerCounted DEF GivenBack
<1>7. InodeInv'
  BY DEF InodeInv
<1>8. UpperInv'
  <2>1. ASSUME NEW v \in UDents, v # u PROVE UpperOf(v)'
    <3>1. UpperOf(v)
      BY DEF IInv, UpperInv
    <3>2. ud[v].ino # None => ud[v].ino \in Addrs
      BY DEF IInv, EntriesOK
    <3>3. ud[v].ino # None => ui'[ud[v].ino].st = "live"
      BY <3>1, <3>2 DEF UpperOf
    <3> QED
      BY <1>3, <2>1, <3>1, <3>3, UpperFrame
  <2>2. ASSUME NEW v \in UDents, v # u, ud[v].st = "hashed", ud'[u].st = "hashed"
        PROVE  ud[v].name # ud[u].name
    <3>1. CASE ud[u].st = "hashed"
      BY <2>2, <3>1 DEF IInv, UpperInv
    <3>2. CASE th[t].op = "lookup"
      BY <2>2, <3>2 DEF IInv, ThreadInv, ThreadOf, LookingOf, InDir, NameOf
    <3> QED
      BY <2>2, <3>1, <3>2
  <2>3. (\A v, w \in UDents : ud[v].st = "hashed" /\ ud[w].st = "hashed"
                              /\ ud[v].name = ud[w].name => v = w)'
    BY <2>2 DEF IInv, UpperInv
  <2> QED
    BY <2>1, <2>3 DEF UpperInv
<1>9. ASSUME NEW s \in Threads, Busy(s)
      PROVE  /\ th[s].ud \in UDents /\ ud[th[s].ud].st # "free" /\ ud'[th[s].ud].st # "free"
             /\ ud'[th[s].ud].name = ud[th[s].ud].name
             /\ th[s].op = "link" => ud'[th[s].old].ino = ud[th[s].old].ino
  <2>1. CallOf(s)
    BY <1>9 DEF IInv, ThreadInv, ThreadOf
  <2> QED
    BY <2>1 DEF CallOf
<1>10. ASSUME NEW s \in Threads PROVE ThreadOf(s)'
  <2>1. CASE s # t
    <3>1. ThreadOf(s) /\ th'[s] = th[s]
      BY <1>1, <2>1 DEF IInv, ThreadInv
    <3>2. th[s].pc = "copy" => ui'[th[s].ino].st = "live"
      BY <3>1 DEF ThreadOf, CopyOf
    <3>3. InDir(s) => Busy(s) /\ th[s].ud # u
      BY <2>1, OtherCall DEF InDir
    <3>4. InDir(s) => ud'[th[s].ud] = ud[th[s].ud]
      BY <1>9, <3>3
    <3>5. Busy(s) /\ th[s].op = "lookup" =>
             \A v \in UDents : ud'[v].st = "hashed" /\ ud'[v].name = NameOf(s)
                               => ud[v].st = "hashed" /\ ud[v].name = NameOf(s)
      <4> SUFFICES ASSUME Busy(s), th[s].op = "lookup", NEW v \in UDents,
                          ud'[v].st = "hashed", ud'[v].name = NameOf(s)
                   PROVE  ud[v].st = "hashed" /\ ud[v].name = NameOf(s)
        OBVIOUS
      <4>1. InDir(s)
        BY DEF InDir
      <4>2. NameOf(s) # NameOf(t)
        BY <2>1, <4>1, OtherCall
      <4>3. v # u
        BY <4>2 DEF NameOf
      <4> QED
        BY <4>3
    <3> QED
      BY <1>3, <1>9, <2>1, <3>1, <3>2, <3>4, <3>5, ThreadFrame
  <2> QED
    BY <1>1, <2>1
<1>11. ThreadInv'
  <2>1. \A s \in Threads : s # t => (Busy(s) => NameOf(s)' = NameOf(s))
    BY <1>1, <1>9 DEF NameOf
  <2> QED
    BY <1>1, <1>10, <2>1, Exclusion
<1>12. MirrorInv'
  <2>1. ASSUME NEW v \in UDents, v # u PROVE MirrorOf(v)'
    <3>1. \A s \in Threads : Changing(s) /\ th[s].ud = v => Changing(s)' /\ th'[s].ud = v
      BY <1>1, <2>1 DEF Changing
    <3> QED
      BY <2>1, <3>1, MirrorFrame DEF IInv, MirrorInv
  <2> QED
    BY <2>1 DEF MirrorInv
<1>13. NlinkInv'
  BY DEF NlinkInv
<1> QED
  BY <1>4, <1>5, <1>6, <1>7, <1>8, <1>11, <1>12, <1>13 DEF IInv

\* The inodes are left alone by a call that changes no links.
LEMMA InodesSame ==
    ASSUME IInv, NEW t \in Threads, Return(t), ~(OnLink(t) /\ Changing(t)),
           th[t].pc # "iget", UNCHANGED <<disk, linode, lref, ui, touched>>
    PROVE  /\ ui' \in [Addrs -> InodeType] /\ lref' \in [Addrs -> Int]
           /\ \A a \in Addrs : ui[a].st = "live" => ui'[a].st = "live"
           /\ \A a \in Addrs : GrabOf(a)' /\ InodeOf(a)' /\ NlinkOf(a)'
<1>1. ui \in [Addrs -> InodeType] /\ lref \in [Addrs -> Int]
  BY Types DEF IInv
<1>2. /\ \A s \in Threads : s # t => th'[s] = th[s]
      /\ \A a : t \notin Igets(a)'
  BY ReturnEffect
<1>3. ASSUME NEW a \in Addrs PROVE GrabOf(a)'
  <2>1. Igets(a)' = Igets(a)
    BY <1>2 DEF Igets
  <2> QED
    BY <2>1 DEF IInv, CountInv, GrabOf
<1>4. ASSUME NEW a \in Addrs PROVE NlinkOf(a)'
  <2>1. \A s \in Threads : OnLink(s) /\ Changing(s) => (OnLink(s) /\ Changing(s))' /\ th'[s] = th[s]
    BY <1>2 DEF OnLink, Changing, Busy
  <2>2. Nlink(linode[a])' = Nlink(linode[a])
    BY DEF Nlink
  <2> QED
    BY <2>1, <2>2, NlinkFrame DEF IInv, NlinkInv
<1> QED
  BY <1>1, <1>3, <1>4 DEF IInv, InodeInv, InodeOf

\* Dropping a dentry that has its lower path.
LEMMA DropEffect ==
    ASSUME IInv, NEW u \in UDents, ud' = Dropped(u)
    PROVE  /\ ud' \in [UDents -> UDentType] /\ \A v \in UDents : v # u => ud'[v] = ud[v]
           /\ ud'[u].info = ud[u].info /\ ud'[u].name = ud[u].name /\ ud'[u].st = "unhashed"
           /\ ud'[u].ino = ud[u].ino
<1>1. ud \in [UDents -> UDentType]
  BY Types DEF IInv
<1> QED
  BY <1>1 DEF Dropped, UDentType

\* A lookup without memory.
LEMMA InterposeNoMemoryStep ==
    ASSUME IInv, NEW t \in Threads, InterposeNoMemory(t)
    PROVE  IInv'
<1> USE DEF history, lower
<1>1. th[t].pc = "interpose" /\ ld' = Dput(ld, th[t].ld) /\ Return(t)
      /\ UNCHANGED <<disk, linode, lref, mnt, ud, ui, history>>
  BY DEF InterposeNoMemory
<1>2. ThreadOf(t)
  BY DEF IInv, ThreadInv
<1>3. InDir(t) /\ th[t].op = "lookup"
  BY <1>1, <1>2 DEF ThreadOf, InterposeOf, InDir, Busy
<1>4. th[t].ld \in LDents /\ ld[th[t].ld].count >= 1 /\ th[t].ud \in UDents
  BY <1>3, CallRefs
<1>5. GivenBack(t)
  <2>1. \A l \in LDents : Back(t, l) = IF l = th[t].ld THEN 1 ELSE 0
    BY <1>1, <1>3 DEF Back, Holders, Holds, Olds
  <2> QED
    BY <1>1, <1>4, <2>1, PutEffect
<1>6. PICK u \in UDents : u = th[t].ud
  BY <1>4
<1>7. /\ ud \in [UDents -> UDentType] /\ UpperOf(u) /\ MirrorOf(u) /\ ud[u].st = "unhashed"
  BY <1>1, <1>2, <1>3, <1>6, Types DEF IInv, UpperInv, MirrorInv, ThreadOf, LookingOf, InDir
<1>8. ud[u].info = None /\ ud[u].ino = None
  BY <1>1, <1>2, <1>6 DEF ThreadOf, InterposeOf
<1>9. UpperOf(u)' /\ MirrorOf(u)'
  BY <1>1, <1>7, <1>8 DEF UpperOf, MirrorOf
<1>10. /\ ui' \in [Addrs -> InodeType] /\ lref' \in [Addrs -> Int]
       /\ \A a \in Addrs : ui[a].st = "live" => ui'[a].st = "live"
       /\ \A a \in Addrs : GrabOf(a)' /\ InodeOf(a)' /\ NlinkOf(a)'
  <2>1. ~(OnLink(t) /\ Changing(t))
    BY <1>1 DEF Changing
  <2> QED
    BY <1>1, <2>1, InodesSame
<1> QED
  BY <1>1, <1>3, <1>5, <1>6, <1>7, <1>9, <1>10, ReturnStep

\* The lower operation has failed.
LEMMA LowerFailsStep ==
    ASSUME IInv, NEW t \in Threads, LowerFails(t)
    PROVE  IInv'
<1> USE DEF history, lower
<1>1. /\ th[t].pc = "lower" /\ ld' = Untake(ld, t) /\ Return(t)
      /\ ud' = IF th[t].op \in {"node", "symlink"} THEN Dropped(th[t].ud) ELSE ud
      /\ UNCHANGED <<disk, linode, lref, mnt, ui, history>>
  BY DEF LowerFails
<1>2. BelowOf(t) /\ CallOf(t)
  BY <1>1 DEF IInv, ThreadInv, ThreadOf, Busy
<1>3. InDir(t)
  BY <1>1, <1>2 DEF BelowOf, InDir, Busy, Makers, Linking
<1>4. PICK u \in UDents : u = th[t].ud
  BY <1>2 DEF CallOf
<1>5. GivenBack(t)
  BY <1>1, <1>3, UntakeEffect
<1>6. /\ ud' \in [UDents -> UDentType] /\ \A v \in UDents : v # u => ud'[v] = ud[v]
      /\ ud'[u].info = ud[u].info /\ ud'[u].name = ud[u].name /\ ud'[u].ino = ud[u].ino
      /\ ud'[u].st = "unhashed" \/ ud'[u].st = ud[u].st
  BY <1>1, <1>4, DropEffect, Types DEF IInv
<1>7. ud[u].st = "hashed" /\ UpperOf(u) /\ MirrorOf(u)
  BY <1>2, <1>4 DEF BelowOf, IInv, UpperInv, MirrorInv
<1>8. Same(ud[u].info) /\ ud[u].info # None
  <2>1. \A v \in UDents : ud'[v].info = ud[v].info
    BY <1>6
  <2>2. ud[u].info # None
    BY <1>7 DEF UpperOf
  <2> QED
    BY <1>1, <1>5, <2>1, <2>2, BackEffect
<1>9. UpperOf(u)'
  BY <1>1, <1>6, <1>7, <1>8 DEF UpperOf, Same
<1>10. \A s \in Threads : s # t => th'[s] = th[s]
  BY <1>1, ReturnEffect
<1>11. MirrorOf(u)'
  <2>1. \A s \in Threads : Changing(s) /\ th[s].ud = u => Changing(s)' /\ th'[s].ud = u
    BY <1>1, <1>10 DEF Changing
  <2> QED
    BY <1>1, <1>6, <1>7, <2>1, MirrorFrame
<1>12. /\ ui' \in [Addrs -> InodeType] /\ lref' \in [Addrs -> Int]
       /\ \A a \in Addrs : ui[a].st = "live" => ui'[a].st = "live"
       /\ \A a \in Addrs : GrabOf(a)' /\ InodeOf(a)' /\ NlinkOf(a)'
  <2>1. ~(OnLink(t) /\ Changing(t))
    BY <1>1 DEF Changing
  <2> QED
    BY <1>1, <2>1, InodesSame
<1>13. ud'[u].st # "free" /\ (ud'[u].st = "hashed" => ud[u].st = "hashed")
  BY <1>6, <1>7
<1> QED
  BY <1>1, <1>3, <1>4, <1>5, <1>6, <1>9, <1>11, <1>12, <1>13, ReturnStep

\* A name is gone from the lower directory: its count is copied and it is dropped.
LEMMA UnlinkedStep ==
    ASSUME IInv, NEW t \in Threads, Unlinked(t)
    PROVE  IInv'
<1> USE DEF history, lower
<1>1. /\ th[t].pc = "unlinked" /\ ld' = Untake(ld, t) /\ Return(t)
      /\ ud' = Dropped(th[t].ud)
      /\ ui' = [ui EXCEPT ![ud[th[t].ud].ino].nlink = Nlink(linode[ud[th[t].ud].ino])]
      /\ UNCHANGED <<disk, linode, lref, mnt, history>>
  BY DEF Unlinked
<1>2. UnlinkedOf(t) /\ CallOf(t)
  BY <1>1 DEF IInv, ThreadInv, ThreadOf, Busy
<1>3. InDir(t) /\ OnLink(t)
  BY <1>1, <1>2 DEF UnlinkedOf, InDir, OnLink, Busy, Linking
<1>4. PICK u \in UDents : u = th[t].ud
  BY <1>2 DEF CallOf
<1>5. PICK a \in Addrs : a = ud[u].ino
  BY <1>2, <1>4 DEF UnlinkedOf, IInv, EntriesOK
<1>6. th[t].ino = a /\ ui' = [ui EXCEPT ![a].nlink = Nlink(linode[a])] /\ ud' = Dropped(u)
  BY <1>1, <1>2, <1>4, <1>5 DEF UnlinkedOf
<1>7. GivenBack(t)
  BY <1>1, <1>3, UntakeEffect
<1>8. /\ ud' \in [UDents -> UDentType] /\ \A v \in UDents : v # u => ud'[v] = ud[v]
      /\ ud'[u].info = ud[u].info /\ ud'[u].name = ud[u].name /\ ud'[u].ino = ud[u].ino
      /\ ud'[u].st = "unhashed"
  BY <1>6, DropEffect
<1>9. /\ UpperOf(u) /\ InodeOf(a) /\ ui \in [Addrs -> InodeType] /\ lref \in [Addrs -> Int]
  BY Types DEF IInv, UpperInv, InodeInv
<1>10. ui[a].st = "live" /\ ud[u].info # None /\ ud[u].ino # None
  BY <1>5, <1>9, NoneAssumption DEF UpperOf
<1>11. Same(ud[u].info)
  <2>1. \A v \in UDents : ud'[v].info = ud[v].info
    BY <1>8
  <2> QED
    BY <1>1, <1>7, <1>10, <2>1, BackEffect
<1>12. Nlink(linode[a]) \in Nat
  BY NlinkType
<1>13. /\ ui' \in [Addrs -> InodeType] /\ \A b \in Addrs : b # a => ui'[b] = ui[b]
       /\ ui'[a].st = ui[a].st /\ ui'[a].file = ui[a].file /\ ui'[a].nlink = Nlink(linode[a])
  BY <1>6, <1>9, <1>12 DEF InodeType
<1>14. UpperOf(u)' /\ MirrorOf(u)'
  <2>1. ui'[a].st = "live" /\ ud'[u].ino = a /\ ud[u].st = "hashed"
    BY <1>2, <1>4, <1>5, <1>8, <1>10, <1>13 DEF UnlinkedOf
  <2>2. UpperOf(u)'
    BY <1>1, <1>5, <1>8, <1>9, <1>10, <1>11, <2>1 DEF UpperOf, Same
  <2> QED
    BY <1>8, <2>2 DEF MirrorOf
<1>15. /\ \A s \in Threads : s # t => th'[s] = th[s]
       /\ \A b : t \notin Igets(b)'
  BY <1>1, ReturnEffect
<1>16. ASSUME NEW b \in Addrs PROVE GrabOf(b)' /\ InodeOf(b)'
  <2>1. Igets(b)' = Igets(b)
    BY <1>1, <1>15 DEF Igets
  <2>2. ui'[b].st = ui[b].st /\ ui'[b].file = ui[b].file
    BY <1>13
  <2> QED
    BY <1>1, <2>1, <2>2 DEF IInv, CountInv, GrabOf, InodeInv, InodeOf
<1>17. ASSUME NEW b \in Addrs PROVE NlinkOf(b)'
  <2>1. Nlink(linode[b])' = Nlink(linode[b])
    BY <1>1 DEF Nlink
  <2>2. CASE b = a
    BY <1>13, <2>1, <2>2 DEF NlinkOf
  <2>3. CASE b # a
    <3>1. \A s \in Threads : OnLink(s) /\ Changing(s) /\ th[s].ino = b
                             => (OnLink(s) /\ Changing(s))' /\ th'[s].ino = b
      BY <1>6, <1>15, <2>3 DEF OnLink, Changing, Busy
    <3> QED
      BY <1>1, <1>13, <2>1, <2>3, <3>1, NlinkFrame DEF IInv, NlinkInv
  <2> QED
    BY <2>2, <2>3
<1>18. \A b \in Addrs : ui[b].st = "live" => ui'[b].st = "live"
  BY <1>13
<1>19. /\ UNCHANGED <<disk, linode, mnt, lost, forgot, orphan, touched>>
       /\ u = th[t].ud /\ ud'[u].info = ud[u].info /\ ud'[u].name = ud[u].name
       /\ ud'[u].st # "free" /\ (ud'[u].ino = ud[u].ino \/ ud[u].ino = None)
       /\ (ud'[u].st = "hashed" => ud[u].st = "hashed" \/ th[t].op = "lookup")
       /\ lref' \in [Addrs -> Int]
       /\ \A b \in Addrs : GrabOf(b)' /\ InodeOf(b)' /\ NlinkOf(b)'
  BY <1>1, <1>4, <1>8, <1>9, <1>16, <1>17
<1> QED
  BY <1>1, <1>3, <1>7, <1>8, <1>13, <1>14, <1>18, <1>19, ReturnStep, Zenon

\* A call that has its inode: for a link the count is copied.
LEMMA AttachStep ==
    ASSUME IInv, NEW t \in Threads, th[t].pc = "iget", NEW inode \in InodeType,
           inode.st = "live", inode.file = linode[th[t].ino],
           Attach(t, inode), UNCHANGED <<lower, mnt, history>>, lref' \in [Addrs -> Int],
           \A b \in Addrs : b # th[t].ino => lref'[b] = lref[b],
           \/ inode = ui[th[t].ino] /\ lref'[th[t].ino] = lref[th[t].ino] - 1
           \/ /\ inode.nlink = Nlink(linode[th[t].ino])
              /\ ui[th[t].ino].st # "live" /\ lref'[th[t].ino] = lref[th[t].ino]
    PROVE  IInv'
<1> USE DEF history, lower
<1>1. IgetOf(t) /\ CallOf(t) /\ ThreadOf(t)
  BY DEF IInv, ThreadInv, ThreadOf, Busy
<1>2. InDir(t)
  BY <1>1 DEF IgetOf, InDir, Busy, Makers
<1>3. PICK u \in UDents : u = th[t].ud
  BY <1>1 DEF CallOf
<1>4. PICK a \in Addrs : a = th[t].ino
  BY <1>1 DEF IgetOf
<1> DEFINE e == IF th[t].op = "link" THEN [inode EXCEPT !.nlink = Nlink(linode[a])] ELSE inode
<1>5. /\ ui' = [ui EXCEPT ![a] = e] /\ ld' = Untake(ld, t) /\ Return(t)
      /\ ud' = [ud EXCEPT ![u].st = "hashed", ![u].ino = a]
      /\ UNCHANGED <<disk, linode, mnt, history>>
  BY <1>3, <1>4 DEF Attach
<1>6. /\ ud \in [UDents -> UDentType] /\ ui \in [Addrs -> InodeType] /\ lref \in [Addrs -> Int]
  BY Types DEF IInv
<1>7. Nlink(linode[a]) \in Nat
  BY NlinkType
<1>8. e \in InodeType /\ e.st = "live" /\ e.file = linode[a]
      /\ (th[t].op = "link" => e.nlink = Nlink(linode[a]))
      /\ (th[t].op # "link" => e = inode)
  BY <1>4, <1>7 DEF InodeType
<1> HIDE DEF e
<1>9. /\ ui' \in [Addrs -> InodeType] /\ ui'[a] = e
      /\ \A b \in Addrs : b # a => ui'[b] = ui[b]
  BY <1>5, <1>6, <1>8
<1> DEFINE g == [ud EXCEPT ![u].st = "hashed"]
<1>10. /\ g \in [UDents -> UDentType] /\ \A v \in UDents : v # u => g[v] = ud[v]
       /\ g[u].st = "hashed" /\ g[u].name = ud[u].name /\ g[u].info = ud[u].info
  BY <1>6 DEF UDentType
<1>11. ud' = [g EXCEPT ![u].ino = a]
  BY <1>5, <1>6
<1> HIDE DEF g
<1>12. /\ ud' \in [UDents -> UDentType] /\ \A v \in UDents : v # u => ud'[v] = ud[v]
       /\ ud'[u].st = "hashed" /\ ud'[u].name = ud[u].name /\ ud'[u].info = ud[u].info
       /\ ud'[u].ino = a
  BY <1>10, <1>11 DEF UDentType
<1>13. GivenBack(t)
  BY <1>2, <1>5, UntakeEffect
<1>14. /\ ud[u].ino = None /\ u \notin orphan /\ th[t].ld = ud[u].info /\ th[t].ld \in LDents
       /\ ld[th[t].ld].ino = a /\ ud[u].st # "free" /\ ld[th[t].ld].name = ud[u].name
       /\ th[t].op # "lookup" => ud[u].st = "hashed" /\ ld[th[t].ld].st = "hashed"
       /\ th[t].op = "lookup" => /\ ud[u].name \notin touched => ld[th[t].ld].st = "hashed"
                                 /\ ld[th[t].ld].st = "unhashed" => disk[ud[u].name] = None
  BY <1>1, <1>2, <1>3, <1>4 DEF IgetOf, CallOf, ThreadOf, LookingOf, NameOf, InDir
<1>15. Same(ud[u].info) /\ ud[u].info # None
  <2>1. \A v \in UDents : ud'[v].info = ud[v].info
    BY <1>12
  <2>2. ud[u].info # None
    BY <1>14, NoneAssumption
  <2> QED
    BY <1>5, <1>13, <2>1, <2>2, BackEffect
<1>16. LowerOf(th[t].ld)
  BY <1>14 DEF IInv, LowerInv
<1>17. linode[a] # None
  BY <1>14, <1>16, NoneAssumption DEF LowerOf
<1>18. UpperOf(u)'
  <2>1. UpperOf(u)
    BY DEF IInv, UpperInv
  <2>2. ui'[a].st = "live"
    BY <1>8, <1>9
  <2> QED
    BY <1>5, <1>12, <1>14, <1>15, <2>1, <2>2 DEF UpperOf, Same
<1>19. MirrorOf(u)'
  <2>1. ud[u].name \notin touched => disk[ud[u].name] = linode[a]
    BY <1>14, <1>16, NoneAssumption DEF LowerOf
  <2>2. a # None
    BY NoneAssumption
  <2> QED
    BY <1>5, <1>12, <2>1, <2>2 DEF MirrorOf
<1>20. /\ \A s \in Threads : s # t => th'[s] = th[s]
       /\ \A b : t \notin Igets(b)'
  BY <1>5, ReturnEffect
<1>21. ASSUME NEW b \in Addrs PROVE GrabOf(b)'
  <2>1. t \in Igets(b) <=> b = a
    BY <1>4 DEF Igets
  <2>2. lref'[b] \in Int /\ lref[b] \in Int
    BY <1>6
  <2>3. b = a => lref'[b] - lref[b] = 0 - (IF ui[b].st = "live" THEN 1 ELSE 0)
    BY <1>4, <2>2
  <2>4. lref'[b] - lref[b]
          = ((IF ui'[b].st = "live" THEN 1 ELSE 0) - (IF ui[b].st = "live" THEN 1 ELSE 0))
            + ((IF t \in Igets(b)' THEN 1 ELSE 0) - (IF t \in Igets(b) THEN 1 ELSE 0))
    <3>1. CASE b = a
      BY <1>8, <1>9, <1>20, <2>1, <2>2, <2>3, <3>1
    <3>2. CASE b # a
      BY <1>4, <1>9, <1>20, <2>1, <2>2, <3>2
    <3> QED
      BY <3>1, <3>2
  <2>5. EntriesOK /\ CountInv
    BY DEF IInv
  <2> QED
    BY <1>20, <2>2, <2>4, <2>5, GrabFrame, Zenon
<1>22. ASSUME NEW b \in Addrs PROVE InodeOf(b)'
  BY <1>5, <1>8, <1>9, <1>17 DEF IInv, InodeInv, InodeOf
<1>23. ASSUME NEW b \in Addrs PROVE NlinkOf(b)'
  <2>1. Nlink(linode[b])' = Nlink(linode[b])
    BY <1>5 DEF Nlink
  <2>2. CASE b # a \/ (b = a /\ e = ui[a] /\ th[t].op # "link")
    <3>1. \A s \in Threads : OnLink(s) /\ Changing(s) /\ th[s].ino = b
                             => (OnLink(s) /\ Changing(s))' /\ th'[s].ino = b
      <4>1. b = a => ~OnLink(t)
        BY <1>1, <2>2 DEF IgetOf, OnLink, Linking, Makers
      <4> QED
        BY <1>4, <1>20, <4>1 DEF OnLink, Changing, Busy
    <3>2. ui'[b] = ui[b]
      BY <1>9, <2>2
    <3> QED
      BY <1>5, <2>1, <3>1, <3>2, NlinkFrame DEF IInv, NlinkInv
  <2>3. CASE b = a /\ ~(e = ui[a] /\ th[t].op # "link")
    <3>1. ui'[b].nlink = Nlink(linode[b])
      BY <1>4, <1>8, <1>9, <2>3
    <3> QED
      BY <2>1, <3>1 DEF NlinkOf
  <2> QED
    BY <2>2, <2>3
<1>24. \A b \in Addrs : ui[b].st = "live" => ui'[b].st = "live"
  BY <1>8, <1>9
<1>25. ud'[u].st # "free" /\ (ud'[u].st = "hashed" => ud[u].st = "hashed" \/ th[t].op = "lookup")
       /\ (ud'[u].ino = ud[u].ino \/ ud[u].ino = None)
  BY <1>12, <1>14
<1>26. /\ UNCHANGED <<disk, linode, mnt, lost, forgot, orphan, touched>>
       /\ u = th[t].ud /\ ud'[u].info = ud[u].info /\ ud'[u].name = ud[u].name
       /\ ud'[u].st # "free" /\ (ud'[u].ino = ud[u].ino \/ ud[u].ino = None)
       /\ (ud'[u].st = "hashed" => ud[u].st = "hashed" \/ th[t].op = "lookup")
       /\ lref' \in [Addrs -> Int]
       /\ \A b \in Addrs : GrabOf(b)' /\ InodeOf(b)' /\ NlinkOf(b)'
  BY <1>3, <1>5, <1>12, <1>21, <1>22, <1>23, <1>25
<1> QED
  <2>1. /\ Return(t) /\ ui' \in [Addrs -> InodeType] /\ ud' \in [UDents -> UDentType]
        /\ \A v \in UDents : v # u => ud'[v] = ud[v]
    BY <1>5, <1>9, <1>12
  <2> QED
    BY <1>2, <1>13, <1>18, <1>19, <1>24, <1>26, <2>1, ReturnStep, Zenon

\* iget5_locked finds the upper inode.
LEMMA GetInodeFoundStep ==
    ASSUME IInv, NEW t \in Threads, GetInodeFound(t)
    PROVE  IInv'
<1>1. /\ ui \in [Addrs -> InodeType] /\ lref \in [Addrs -> Int]
  BY Types DEF IInv
<1>2. th[t].pc = "iget" /\ th[t].ino \in Addrs /\ InodeOf(th[t].ino)
  BY DEF GetInodeFound, IInv, ThreadInv, ThreadOf, IgetOf, InodeInv
<1>3. /\ lref' \in [Addrs -> Int] /\ lref'[th[t].ino] = lref[th[t].ino] - 1
      /\ \A b \in Addrs : b # th[t].ino => lref'[b] = lref[b]
  BY <1>1, <1>2 DEF GetInodeFound
<1>4. ui[th[t].ino] \in InodeType /\ ui[th[t].ino].st = "live"
      /\ ui[th[t].ino].file = linode[th[t].ino]
  BY <1>1, <1>2 DEF InodeOf, GetInodeFound
<1>5. Attach(t, ui[th[t].ino]) /\ UNCHANGED <<lower, mnt, history>>
  BY DEF GetInodeFound
<1> QED
  BY <1>2, <1>3, <1>4, <1>5, AttachStep

\* __teadfs_get_inode makes the upper inode.
LEMMA GetInodeNewStep ==
    ASSUME IInv, NEW t \in Threads, GetInodeNew(t)
    PROVE  IInv'
<1>1. /\ linode \in [Addrs -> Files \cup {None}] /\ lref \in [Addrs -> Int]
  BY Types DEF IInv
<1>2. th[t].pc = "iget" /\ th[t].ino \in Addrs
  BY DEF GetInodeNew, IInv, ThreadInv, ThreadOf, IgetOf
<1> DEFINE i == NewInode(th[t].ino)
<1>3. Nlink(linode[th[t].ino]) \in Nat
  BY NlinkType
<1>4. i \in InodeType /\ i.st = "live" /\ i.file = linode[th[t].ino]
      /\ i.nlink = Nlink(linode[th[t].ino])
  BY <1>1, <1>2, <1>3 DEF NewInode, InodeType
<1>5. Attach(t, i) /\ UNCHANGED <<lower, mnt, history>> /\ lref' = lref
      /\ ui[th[t].ino].st # "live"
  BY DEF GetInodeNew
<1> HIDE DEF i
<1> QED
  BY <1>1, <1>2, <1>4, <1>5, AttachStep
-----------------------------------------------------------------------------
\* Steps that change the lower directory for their own name

\* Names that a change of entry n does not count.
LEMMA NlinkKept ==
    ASSUME NEW f, NEW n \in Names, \A m \in Names : m # n => disk'[m] = disk[m],
           disk[n] # f, disk'[n] # f
    PROVE  Cardinality({m \in Names : disk'[m] = f}) = Nlink(f)
<1>1. {m \in Names : disk'[m] = f} = {m \in Names : disk[m] = f}
  OBVIOUS
<1> QED
  BY <1>1 DEF Nlink

\* The call t works on name n with the dentries u and l.
Place(t, u, l, n) ==
    /\ InDir(t) /\ u = th[t].ud /\ l = th[t].ld /\ l = ud[u].info
    /\ n = ud[u].name /\ ud[u].st = "hashed" /\ ld[l].st = "hashed"

\* Others keep their entries, their dentries and their locals.
Others(t, u, l, n) ==
    /\ UNCHANGED <<ud, ui, mnt, lost, forgot, orphan, touched>>
    /\ disk' \in [Names -> Files \cup {None}] /\ \A m \in Names : m # n => disk'[m] = disk[m]
    /\ ld' \in [LDents -> LDentType] /\ \A k \in LDents : k # l => ld'[k] = ld[k]
    /\ ld'[l].name = ld[l].name /\ ld'[l].count = ld[l].count
    /\ \/ ld'[l].ino = ld[l].ino
       \/ \A v \in UDents : v # u /\ ud[v].info = l => ud[v].ino = None /\ v \notin orphan
    /\ th' \in [Threads -> CallType] /\ \A s \in Threads : s # t => th'[s] = th[s]
    /\ \A k \in LDents : t \in Holders(k)' <=> t \in Holders(k)
    /\ \A k \in LDents : t \in Olds(k)' <=> t \in Olds(k)
    /\ Busy(t)' => th'[t].ud = u
    /\ OnLink(t)' => OnLink(t) /\ th'[t].ino = th[t].ino

\* Inodes in memory stay where they are, one for each file.
Inodes ==
    /\ linode' \in [Addrs -> Files \cup {None}] /\ lref' \in [Addrs -> Int]
    /\ \A b \in Addrs : linode[b] # None => linode'[b] = linode[b]
    /\ \A a, b \in Addrs : linode'[a] = linode'[b] /\ linode'[a] # None => a = b

\* A call changes entry n, the lower dentry l and itself: all others stay as they are.
LEMMA OwnStep ==
    ASSUME IInv, NEW t \in Threads, NEW u \in UDents, NEW l \in LDents, NEW n \in Names,
           Place(t, u, l, n), Others(t, u, l, n), Inodes,
           \A a \in Addrs : GrabOf(a)' /\ NlinkOf(a)',
           LowerOf(l)', UpperOf(u)', ThreadOf(t)', MirrorOf(u)'
    PROVE  IInv'
<1>a. /\ UNCHANGED <<ud, ui, mnt, lost, forgot, orphan, touched>>
      /\ disk' \in [Names -> Files \cup {None}] /\ \A m \in Names : m # n => disk'[m] = disk[m]
      /\ ld' \in [LDents -> LDentType] /\ \A k \in LDents : k # l => ld'[k] = ld[k]
      /\ ld'[l].name = ld[l].name /\ ld'[l].count = ld[l].count
  BY DEF Others
<1>b. th' \in [Threads -> CallType] /\ \A s \in Threads : s # t => th'[s] = th[s]
  BY DEF Others
<1>c. /\ InDir(t) /\ u = th[t].ud /\ l = th[t].ld /\ l = ud[u].info
      /\ n = ud[u].name /\ ud[u].st = "hashed" /\ ld[l].st = "hashed"
  BY DEF Place
<1>d. /\ linode' \in [Addrs -> Files \cup {None}] /\ lref' \in [Addrs -> Int]
      /\ \A b \in Addrs : linode[b] # None => linode'[b] = linode[b]
      /\ \A a, b \in Addrs : linode'[a] = linode'[b] /\ linode'[a] # None => a = b
  BY DEF Inodes
<1>1. EntriesOK'
  BY <1>a, <1>b, <1>d DEF IInv, EntriesOK, LDentType, CallType
<1>2. \A s \in Threads : s # t => (Busy(s)' <=> Busy(s)) /\ (Holds(s)' <=> Holds(s))
  BY <1>b DEF Busy, Holds
<1>3. CountInv'
  <2>1. \A k \in LDents : Infos(k)' = Infos(k)
    BY <1>a DEF Infos
  <2>2. ASSUME NEW k \in LDents PROVE Holders(k)' = Holders(k)
    <3>1. \A s \in Threads : s # t => (s \in Holders(k)' <=> s \in Holders(k))
      BY <1>b, <1>2 DEF Holders
    <3>2. Holders(k)' \subseteq Threads /\ Holders(k) \subseteq Threads
      BY DEF Holders
    <3>3. t \in Holders(k)' <=> t \in Holders(k)
      BY DEF Others
    <3> QED
      BY <3>1, <3>2, <3>3
  <2>3. ASSUME NEW k \in LDents PROVE Olds(k)' = Olds(k)
    <3>1. \A s \in Threads : s # t => (s \in Olds(k)' <=> s \in Olds(k))
      BY <1>a, <1>b DEF Olds
    <3>2. Olds(k)' \subseteq Threads /\ Olds(k) \subseteq Threads
      BY DEF Olds
    <3>3. t \in Olds(k)' <=> t \in Olds(k)
      BY DEF Others
    <3> QED
      BY <3>1, <3>2, <3>3
  <2>4. \A k \in LDents : ld'[k].count = ld[k].count
    BY <1>a
  <2> QED
    BY <1>a, <2>1, <2>2, <2>3, <2>4 DEF IInv, CountInv, CountOf, Mounted
<1>4. \A k \in LDents : k # l /\ ld[k].st = "hashed" => ld[k].name # n
  BY <1>c, NoneAssumption DEF IInv, LowerInv, UpperInv, UpperOf
<1>5. ld[l].name = n
  BY <1>c, NoneAssumption DEF IInv, UpperInv, UpperOf
<1>7. \A b \in Addrs : ui[b].st = "live" => linode[b] # None /\ linode'[b] = linode[b]
  BY <1>d DEF IInv, InodeInv, InodeOf
<1>8. InodeInv'
  BY <1>a, <1>7 DEF IInv, InodeInv, InodeOf
<1>9. \A v \in UDents : v # u /\ ud[v].st = "hashed" => ud[v].name # n
  BY <1>c DEF IInv, UpperInv
<1>10. UpperInv'
  <2>1. ASSUME NEW v \in UDents, v # u PROVE UpperOf(v)'
    <3>1. UpperOf(v) /\ (ud[v].ino # None => ui[ud[v].ino].st = "live")
      BY DEF IInv, UpperInv, UpperOf
    <3>2. CASE ud[v].info # l
      <4>1. ud[v].info # None => Same(ud[v].info)
        BY <1>a, <3>2, DentRefs DEF Same
      <4>2. ud[v].st = "hashed" => ud[v].name \in Names
        BY <3>1 DEF UpperOf
      <4>3. ud[v].st = "hashed" => disk'[ud[v].name] = disk[ud[v].name]
        BY <1>a, <1>9, <2>1, <4>2
      <4> QED
        BY <1>a, <2>1, <3>1, <4>1, <4>3, UpperFrame
    <3>3. CASE ud[v].info = l
      <4>1. ud[v].name = n
        BY <1>5, <3>1, <3>3, NoneAssumption DEF UpperOf
      <4>2. ud[v].st # "hashed"
        BY <1>9, <2>1, <4>1
      <4>3. ld'[l].ino = ld[l].ino \/ (ud[v].ino = None /\ v \notin orphan)
        BY <2>1, <3>3 DEF Others
      <4> QED
        BY <1>a, <2>1, <3>1, <3>3, <4>2, <4>3 DEF UpperOf
    <3> QED
      BY <3>2, <3>3
  <2> QED
    BY <1>a, <2>1 DEF IInv, UpperInv
<1>11. ASSUME NEW s \in Threads, Busy(s) PROVE ud[th[s].ud].st # "free"
  BY <1>11 DEF IInv, ThreadInv, ThreadOf, CallOf
<1>12. ASSUME NEW s \in Threads PROVE ThreadOf(s)'
  <2>1. CASE s # t
    <3>1. ThreadOf(s) /\ th'[s] = th[s]
      BY <1>b, <2>1 DEF IInv, ThreadInv
    <3>2. th[s].pc = "copy" => ui[th[s].ino].st = "live"
      BY <3>1 DEF ThreadOf, CopyOf
    <3>3. InDir(s) => Same(th[s].ld) /\ disk'[NameOf(s)] = disk[NameOf(s)]
      <4> SUFFICES ASSUME InDir(s)
                   PROVE  Same(th[s].ld) /\ disk'[NameOf(s)] = disk[NameOf(s)]
        OBVIOUS
      <4>1. th[s].ld # l /\ NameOf(s) # NameOf(t)
        BY <1>c, <2>1, OtherCall
      <4>2. th[s].ld \in LDents /\ NameOf(s) \in Names
        BY CallRefs
      <4>3. NameOf(t) = n
        BY <1>c DEF NameOf
      <4> QED
        BY <1>a, <4>1, <4>2, <4>3 DEF Same
    <3> QED
      BY <1>a, <1>11, <2>1, <3>1, <3>2, <3>3, ThreadFrame
  <2> QED
    BY <2>1
<1>13. ThreadInv'
  <2>1. \A s \in Threads : s # t => (Busy(s) => NameOf(s)' = NameOf(s))
    BY <1>a, <1>b DEF NameOf
  <2>2. \A s \in Threads : s # t /\ InDir(s) /\ InDir(t)' => DirOf[NameOf(s)] # DirOf[NameOf(t)']
    <3>1. InDir(t)' => NameOf(t)' = NameOf(t)
      BY <1>a, <1>c DEF InDir, NameOf, Others
    <3> QED
      BY <1>c, <3>1 DEF IInv, ThreadInv
  <2>3. \A s \in Threads : s # t /\ OnLink(s) /\ OnLink(t)' => th[s].ino # th'[t].ino
    <3>1. OnLink(t)' => OnLink(t) /\ th'[t].ino = th[t].ino
      BY DEF Others
    <3> QED
      BY <3>1 DEF IInv, ThreadInv
  <2> QED
    BY <1>b, <1>12, <2>1, <2>2, <2>3, Exclusion
<1>14. MirrorInv'
  <2>1. ASSUME NEW v \in UDents, v # u PROVE MirrorOf(v)'
    <3>1. ud[v].st = "hashed" => disk'[ud[v].name] = disk[ud[v].name]
      BY <1>a, <1>9, <2>1 DEF IInv, UpperInv, UpperOf
    <3>2. ud[v].ino # None => linode'[ud[v].ino] = linode[ud[v].ino]
      BY <1>7 DEF IInv, UpperInv, UpperOf, EntriesOK
    <3>3. \A s \in Threads : Changing(s) /\ th[s].ud = v => Changing(s)' /\ th'[s].ud = v
      BY <1>b, <1>c, <2>1 DEF Changing
    <3> QED
      BY <1>a, <3>1, <3>2, <3>3, MirrorFrame DEF IInv, MirrorInv
  <2> QED
    BY <2>1 DEF MirrorInv
<1>15. NlinkInv'
  BY DEF NlinkInv
<1>16. LowerInv'
  <2>1. ASSUME NEW k \in LDents, k # l PROVE LowerOf(k)'
    <3>1. LowerOf(k) /\ ld'[k] = ld[k]
      BY <1>a, <2>1 DEF IInv, LowerInv
    <3>2. ld[k].ino # None => linode'[ld[k].ino] = linode[ld[k].ino]
      BY <1>d, <3>1 DEF LowerOf, IInv, EntriesOK
    <3>3. ld[k].st = "hashed" => disk'[ld[k].name] = disk[ld[k].name]
      BY <1>a, <1>4, <2>1, <3>1 DEF LowerOf
    <3> QED
      BY <3>1, <3>2, <3>3 DEF LowerOf
  <2>2. (\A j, k \in LDents : ld[j].st = "hashed" /\ ld[k].st = "hashed"
                              /\ ld[j].name = ld[k].name => j = k)'
    BY <1>a, <1>c DEF IInv, LowerInv
  <2> QED
    BY <1>d, <2>1, <2>2 DEF LowerInv
<1> QED
  BY <1>1, <1>3, <1>8, <1>10, <1>13, <1>14, <1>15, <1>16 DEF IInv
-----------------------------------------------------------------------------
\* __teadfs_get_inode without memory

\* The reference of the igrab is given back.
LEMMA FailGrab ==
    ASSUME IInv, NEW t \in Threads, th[t].pc = "iget", Return(t), ui' = ui,
           lref' = [lref EXCEPT ![th[t].ino] = @ - 1]
    PROVE  lref' \in [Addrs -> Int] /\ \A b \in Addrs : GrabOf(b)'
<1>1. lref \in [Addrs -> Int] /\ th[t].ino \in Addrs
  BY Types DEF IInv, ThreadInv, ThreadOf, IgetOf
<1>2. lref' \in [Addrs -> Int]
  BY <1>1
<1>3. /\ \A s \in Threads : s # t => th'[s] = th[s]
      /\ \A b : t \notin Igets(b)'
  BY ReturnEffect
<1>4. ASSUME NEW b \in Addrs PROVE GrabOf(b)'
  <2>1. t \in Igets(b) <=> b = th[t].ino
    BY DEF Igets
  <2>2. lref'[b] \in Int /\ lref[b] \in Int
        /\ lref'[b] = lref[b] - (IF b = th[t].ino THEN 1 ELSE 0)
    BY <1>1, <1>2
  <2>3. lref'[b] - lref[b]
          = ((IF ui'[b].st = "live" THEN 1 ELSE 0) - (IF ui[b].st = "live" THEN 1 ELSE 0))
            + ((IF t \in Igets(b)' THEN 1 ELSE 0) - (IF t \in Igets(b) THEN 1 ELSE 0))
    BY <1>3, <2>1, <2>2
  <2>4. EntriesOK /\ CountInv
    BY DEF IInv
  <2> QED
    BY <1>3, <2>2, <2>3, <2>4, GrabFrame, Zenon
<1> QED
  BY <1>2, <1>4

\* No link count is changed.
LEMMA FailNlink ==
    ASSUME IInv, NEW t \in Threads, ~OnLink(t), Return(t),
           UNCHANGED <<ui, disk, linode, touched>>
    PROVE  \A b \in Addrs : InodeOf(b)' /\ NlinkOf(b)'
<1>1. \A s \in Threads : s # t => th'[s] = th[s]
  BY ReturnEffect
<1>2. ASSUME NEW b \in Addrs PROVE NlinkOf(b)'
  <2>1. \A s \in Threads : OnLink(s) /\ Changing(s) /\ th[s].ino = b
                           => (OnLink(s) /\ Changing(s))' /\ th'[s].ino = b
    BY <1>1 DEF OnLink, Changing, Busy
  <2>2. Nlink(linode[b])' = Nlink(linode[b])
    BY DEF Nlink
  <2> QED
    BY <2>1, <2>2, NlinkFrame DEF IInv, NlinkInv
<1> QED
  BY <1>2 DEF IInv, InodeInv, InodeOf

\* mknod, mkdir and symlink leave the lower file and drop the dentry.
LEMMA FailsNodeStep ==
    ASSUME IInv, NEW t \in Threads, th[t].pc = "iget", th[t].op \in {"node", "symlink"},
           lref' = [lref EXCEPT ![th[t].ino] = @ - 1], Return(t),
           ld' = Untake(ld, t), ud' = Dropped(th[t].ud),
           UNCHANGED <<disk, linode, mnt, ui, history>>
    PROVE  IInv'
<1> USE DEF history
<1>1. IgetOf(t) /\ CallOf(t)
  BY DEF IInv, ThreadInv, ThreadOf, Busy
<1>2. InDir(t) /\ ~OnLink(t)
  BY <1>1 DEF InDir, OnLink, Busy, Linking
<1>3. PICK u \in UDents : u = th[t].ud
  BY <1>1 DEF CallOf
<1>4. GivenBack(t)
  BY <1>2, UntakeEffect
<1>5. /\ ud' \in [UDents -> UDentType] /\ \A v \in UDents : v # u => ud'[v] = ud[v]
      /\ ud'[u].info = ud[u].info /\ ud'[u].name = ud[u].name /\ ud'[u].ino = ud[u].ino
      /\ ud'[u].st = "unhashed"
  BY <1>3, DropEffect
<1>6. UpperOf(u) /\ ud[u].st # "free" /\ ud[u].ino = None /\ u \notin orphan
      /\ ud[u].info \in LDents
  BY <1>1, <1>2, <1>3 DEF IInv, UpperInv, CallOf, IgetOf, InDir
<1>7. Same(ud[u].info)
  <2>1. \A v \in UDents : ud'[v].info = ud[v].info
    BY <1>5
  <2> QED
    BY <1>4, <1>6, <2>1, BackEffect, NoneAssumption
<1>8. UpperOf(u)' /\ MirrorOf(u)'
  BY <1>5, <1>6, <1>7 DEF UpperOf, MirrorOf, Same
<1>9. lref' \in [Addrs -> Int] /\ \A b \in Addrs : GrabOf(b)'
  BY FailGrab
<1>10. \A b \in Addrs : InodeOf(b)' /\ NlinkOf(b)'
  BY <1>2, FailNlink
<1>11. ui' \in [Addrs -> InodeType] /\ \A b \in Addrs : ui[b].st = "live" => ui'[b].st = "live"
  BY Types DEF IInv
<1>12. /\ UNCHANGED <<disk, linode, mnt, lost, forgot, orphan, touched>>
       /\ u = th[t].ud /\ ud'[u].info = ud[u].info /\ ud'[u].name = ud[u].name
       /\ ud'[u].st # "free" /\ (ud'[u].ino = ud[u].ino \/ ud[u].ino = None)
       /\ (ud'[u].st = "hashed" => ud[u].st = "hashed" \/ th[t].op = "lookup")
       /\ \A b \in Addrs : GrabOf(b)' /\ InodeOf(b)' /\ NlinkOf(b)'
  BY <1>3, <1>5, <1>9, <1>10
<1> QED
  BY <1>2, <1>4, <1>5, <1>8, <1>9, <1>11, <1>12, ReturnStep, Zenon

\* create removes the lower file again ...
LEMMA FailsUndoStep ==
    ASSUME IInv, NEW t \in Threads, th[t].pc = "iget", th[t].op = "create",
           ui[th[t].ino].st = "absent",
           lref' = [lref EXCEPT ![th[t].ino] = @ - 1], Return(t),
           disk' = [disk EXCEPT ![NameOf(t)] = None], ld' = Ddelete(th[t].ld),
           UNCHANGED <<linode, mnt, ud, ui, history>>
    PROVE  IInv'
<1> USE DEF history
<1>1. IgetOf(t) /\ CallOf(t)
  BY DEF IInv, ThreadInv, ThreadOf, Busy
<1>2. InDir(t) /\ ~OnLink(t)
  BY DEF InDir, OnLink, Busy, Linking
<1>3. PICK u \in UDents : u = th[t].ud
  BY <1>1 DEF CallOf
<1>4. PICK l \in LDents : l = th[t].ld
  BY <1>1, <1>2 DEF CallOf, InDir
<1>5. PICK n \in Names : n = NameOf(t)
  BY <1>2, CallRefs
<1>6. PICK a \in Addrs : a = th[t].ino
  BY <1>1 DEF IgetOf
<1>7. /\ l = ud[u].info /\ n = ud[u].name /\ ud[u].st = "hashed" /\ ld[l].st = "hashed"
      /\ ud[u].ino = None /\ u \notin orphan /\ ld[l].ino = a /\ ld[l].name = n
  BY <1>1, <1>2, <1>3, <1>4, <1>5, <1>6 DEF IgetOf, CallOf, NameOf, InDir
<1>8. Place(t, u, l, n)
  BY <1>2, <1>3, <1>4, <1>5, <1>7 DEF Place
<1>9. /\ disk \in [Names -> Files \cup {None}] /\ ld \in [LDents -> LDentType]
      /\ ui \in [Addrs -> InodeType]
  BY Types DEF IInv
<1>10. /\ disk' \in [Names -> Files \cup {None}] /\ disk'[n] = None
       /\ \A m \in Names : m # n => disk'[m] = disk[m]
  BY <1>5, <1>9
<1>11. /\ ld' \in [LDents -> LDentType] /\ \A k \in LDents : k # l => ld'[k] = ld[k]
       /\ ld'[l].count = ld[l].count /\ ld'[l].name = ld[l].name
       /\ ld[l].count = 1 => ld'[l].st = ld[l].st /\ ld'[l].ino = None
       /\ ld[l].count # 1 => ld'[l].st = "unhashed" /\ ld'[l].ino = ld[l].ino
  BY <1>4, <1>9, DdeleteEffect
<1>12. /\ th' \in [Threads -> CallType] /\ \A s \in Threads : s # t => th'[s] = th[s]
       /\ ~Busy(t)' /\ ~OnLink(t)' /\ ThreadOf(t)'
       /\ \A k : t \notin Holders(k)' /\ t \notin Olds(k)'
  BY ReturnEffect
<1>13. \A k \in LDents : t \notin Holders(k) /\ t \notin Olds(k)
  BY DEF Holders, Holds, Olds, Dgets
<1>14. \/ ld'[l].ino = ld[l].ino
       \/ \A v \in UDents : v # u /\ ud[v].info = l => ud[v].ino = None /\ v \notin orphan
  <2>1. u \in Infos(l)
    BY <1>7 DEF Infos
  <2>2. ASSUME NEW v \in UDents, v # u, ud[v].info = l PROVE ld[l].count # 1
    <3>1. v \in Infos(l)
      BY <2>2 DEF Infos
    <3>2. ld[l].count >= 2 /\ ld[l].count \in Nat
      BY <1>9, <2>1, <2>2, <3>1, RefCount DEF IInv, LDentType
    <3> QED
      BY <3>2
  <2> QED
    BY <1>11, <2>2
<1>15. Others(t, u, l, n)
  BY <1>10, <1>11, <1>12, <1>13, <1>14 DEF Others
<1>16. LowerOf(l) /\ linode[a] # None /\ disk[n] = linode[a]
  BY <1>7, NoneAssumption DEF IInv, LowerInv, LowerOf
<1>17. Inodes /\ \A b \in Addrs : GrabOf(b)'
  <2>1. lref' \in [Addrs -> Int] /\ \A b \in Addrs : GrabOf(b)'
    BY FailGrab
  <2> QED
    BY <2>1 DEF Inodes, IInv, EntriesOK, LowerInv
<1>18. ASSUME NEW b \in Addrs PROVE NlinkOf(b)'
  <2>1. ui[b].st = "live" => linode[b] # None /\ linode[b] # disk[n]
    BY <1>6, <1>16 DEF IInv, InodeInv, InodeOf, LowerInv
  <2>2. ui[b].st = "live" => Nlink(linode[b])' = Nlink(linode[b])
    <3>1. ui[b].st = "live" => Cardinality({m \in Names : disk'[m] = linode[b]}) = Nlink(linode[b])
      BY <1>10, <2>1, NlinkKept
    <3> QED
      BY <3>1 DEF Nlink
  <2>3. \A s \in Threads : OnLink(s) /\ Changing(s) /\ th[s].ino = b
                           => (OnLink(s) /\ Changing(s))' /\ th'[s].ino = b
    BY <1>2, <1>12 DEF OnLink, Changing, Busy
  <2> QED
    BY <2>2, <2>3, NlinkFrame DEF IInv, NlinkInv
<1>19. LowerOf(l)'
  BY <1>7, <1>10, <1>11, <1>16, NoneAssumption DEF LowerOf
<1>20. UpperOf(u)'
  <2>1. UpperOf(u)
    BY DEF IInv, UpperInv
  <2> QED
    BY <1>7, <1>11, <2>1 DEF UpperOf
<1>21. MirrorOf(u)'
  BY <1>7, <1>10 DEF MirrorOf
<1> QED
  BY <1>8, <1>12, <1>15, <1>17, <1>18, <1>19, <1>20, <1>21, OwnStep

\* ... or cannot.
LEMMA FailsOrphanStep ==
    ASSUME IInv, NEW t \in Threads, th[t].pc = "iget", th[t].op = "create",
           lref' = [lref EXCEPT ![th[t].ino] = @ - 1], Return(t),
           orphan' = orphan \cup {th[t].ud},
           UNCHANGED <<disk, linode, ld, mnt, ud, ui, lost, forgot, touched>>
    PROVE  IInv'
<1>1. IgetOf(t) /\ CallOf(t)
  BY DEF IInv, ThreadInv, ThreadOf, Busy
<1>2. InDir(t) /\ ~OnLink(t)
  BY DEF InDir, OnLink, Busy, Linking
<1>3. PICK u \in UDents : u = th[t].ud
  BY <1>1 DEF CallOf
<1>4. /\ th' \in [Threads -> CallType] /\ th'[t] = Idle
      /\ \A s \in Threads : s # t => th'[s] = th[s]
      /\ ~Busy(t)' /\ ~InDir(t)' /\ ~OnLink(t)' /\ ~Changing(t)' /\ ThreadOf(t)'
      /\ \A k : t \notin Holders(k)' /\ t \notin Olds(k)'
  BY ReturnEffect
<1>5. \A k \in LDents : t \notin Holders(k) /\ t \notin Olds(k)
  BY DEF Holders, Holds, Olds, Dgets
<1>6. EntriesOK'
  <2>1. lref' \in [Addrs -> Int]
    BY FailGrab
  <2> QED
    BY <1>3, <1>4, <2>1 DEF IInv, EntriesOK, CallType
<1>7. CountInv'
  <2>1. ASSUME NEW k \in LDents
        PROVE  Infos(k)' = Infos(k) /\ Holders(k)' = Holders(k) /\ Olds(k)' = Olds(k)
    <3>1. Infos(k)' = Infos(k)
      BY DEF Infos
    <3>2. Holders(k)' = Holders(k)
      BY <1>4, <1>5 DEF Holders, Holds, Busy
    <3>3. Olds(k)' = Olds(k)
      BY <1>4, <1>5 DEF Olds
    <3> QED
      BY <3>1, <3>2, <3>3
  <2>2. Mounted' = Mounted
    BY DEF Mounted
  <2>3. \A b \in Addrs : GrabOf(b)'
    BY FailGrab
  <2> QED
    BY <2>1, <2>2, <2>3 DEF IInv, CountInv, CountOf
<1>8. LowerInv'
  BY DEF IInv, LowerInv, LowerOf
<1>9. InodeInv' /\ NlinkInv'
  BY <1>2, FailNlink DEF InodeInv, NlinkInv
<1>10. UpperInv'
  <2>1. ASSUME NEW v \in UDents PROVE UpperOf(v)'
    <3>1. UpperOf(v)
      BY DEF IInv, UpperInv
    <3>2. CASE v # u
      BY <1>3, <3>1, <3>2 DEF UpperOf
    <3>3. CASE v = u
      <4>1. ud[u].ino = None /\ ud[u].info # None /\ ld[ud[u].info].ino # None
        BY <1>1, <1>2, <1>3, NoneAssumption DEF IgetOf, CallOf, InDir
      <4> QED
        BY <3>1, <3>3, <4>1 DEF UpperOf
    <3> QED
      BY <3>2, <3>3
  <2> QED
    BY <2>1 DEF IInv, UpperInv
<1>11. ASSUME NEW s \in Threads PROVE ThreadOf(s)'
  <2>1. CASE s # t
    <3>1. ThreadOf(s) /\ th'[s] = th[s]
      BY <1>4, <2>1 DEF IInv, ThreadInv
    <3>2. th[s].pc = "copy" => ui[th[s].ino].st = "live"
      BY <3>1 DEF ThreadOf, CopyOf
    <3>3. Busy(s) => ud[th[s].ud].st # "free"
      BY <3>1 DEF ThreadOf, CallOf
    <3>4. th[s].pc = "iget" => (th[s].ud \in orphan' => th[s].ud \in orphan)
      <4> SUFFICES ASSUME th[s].pc = "iget" PROVE th[s].ud # u
        BY <1>3
      <4>1. InDir(s)
        BY <3>1 DEF ThreadOf, IgetOf, InDir, Busy, Makers
      <4> QED
        BY <1>2, <1>3, <2>1, <4>1, OtherCall
    <3> QED
      BY <3>1, <3>2, <3>3, <3>4, ThreadFrame DEF Same
  <2> QED
    BY <1>4, <2>1
<1>12. ThreadInv'
  <2>1. \A s \in Threads : s # t => (Busy(s) => NameOf(s)' = NameOf(s))
    BY <1>4 DEF NameOf
  <2> QED
    BY <1>4, <1>11, <2>1, Exclusion
<1>13. MirrorInv'
  <2>1. ASSUME NEW v \in UDents, v # u PROVE MirrorOf(v)'
    <3>1. \A s \in Threads : Changing(s) /\ th[s].ud = v => Changing(s)' /\ th'[s].ud = v
      BY <1>3, <1>4, <2>1 DEF Changing
    <3> QED
      BY <3>1, MirrorFrame DEF IInv, MirrorInv
  <2>2. MirrorOf(u)'
    BY <1>3 DEF MirrorOf
  <2> QED
    BY <2>1, <2>2 DEF MirrorInv
<1> QED
  BY <1>6, <1>7, <1>8, <1>9, <1>10, <1>12, <1>13 DEF IInv
-----------------------------------------------------------------------------
\* The lower operations

\* A call that is about to change the lower directory has its dentries in order.
LEMMA BelowPlace ==
    ASSUME IInv, NEW t \in Threads, th[t].pc = "lower"
    PROVE  /\ InDir(t) /\ BelowOf(t) /\ CallOf(t)
           /\ th[t].ud \in UDents /\ th[t].ld \in LDents /\ NameOf(t) \in Names
           /\ ud[th[t].ud].info = th[t].ld /\ ud[th[t].ud].st = "hashed"
           /\ ld[th[t].ld].name = NameOf(t)
           /\ \/ ld[th[t].ld].st = "hashed"
              \/ ld[th[t].ld].st = "unhashed" /\ ld[th[t].ld].ino # None
<1>1. BelowOf(t) /\ CallOf(t)
  BY DEF IInv, ThreadInv, ThreadOf, Busy
<1>2. InDir(t)
  BY <1>1 DEF BelowOf, InDir, Busy, Makers, Linking
<1>3. /\ th[t].ud \in UDents /\ th[t].ld \in LDents /\ NameOf(t) \in Names
      /\ ld[th[t].ld].name = NameOf(t) /\ ld[th[t].ld].count >= 1
  BY <1>2, CallRefs
<1>4. ud[th[t].ud].info = th[t].ld /\ ud[th[t].ud].st = "hashed"
  BY <1>1, <1>2 DEF CallOf, BelowOf, InDir
<1>5. ld[th[t].ld].st # "free"
  BY <1>3, UsedDent
<1>6. ld[th[t].ld].st \in {"free", "hashed", "unhashed"}
  BY <1>3 DEF IInv, EntriesOK
<1>7. ld[th[t].ld].st = "unhashed" => ld[th[t].ld].ino # None
  BY <1>3 DEF IInv, LowerInv, LowerOf
<1> QED
  BY <1>1, <1>2, <1>3, <1>4, <1>5, <1>6, <1>7

\* The step of a call from pc "lower" to "iget" with the inode at a.
LEMMA IgetEffect ==
    ASSUME IInv, NEW t \in Threads, NEW a \in Addrs, th[t].pc = "lower",
           th' = [th EXCEPT ![t].pc = "iget", ![t].ino = a]
    PROVE  /\ th' \in [Threads -> CallType] /\ \A s \in Threads : s # t => th'[s] = th[s]
           /\ th'[t].pc = "iget" /\ th'[t].ino = a /\ th'[t].op = th[t].op
           /\ th'[t].ud = th[t].ud /\ th'[t].old = th[t].old /\ th'[t].ld = th[t].ld
<1> DEFINE g == [th EXCEPT ![t].pc = "iget"]
<1>1. th \in [Threads -> CallType]
  BY Types DEF IInv
<1>2. /\ g \in [Threads -> CallType] /\ \A s \in Threads : s # t => g[s] = th[s]
      /\ g[t].pc = "iget" /\ g[t].op = th[t].op /\ g[t].ud = th[t].ud
      /\ g[t].old = th[t].old /\ g[t].ld = th[t].ld
  BY <1>1 DEF CallType, PCs
<1> DEFINE e == [g[t] EXCEPT !.ino = a]
<1>3. /\ e \in CallType /\ e.pc = g[t].pc /\ e.ino = a /\ e.op = g[t].op /\ e.ud = g[t].ud
      /\ e.old = g[t].old /\ e.ld = g[t].ld
  <2>1. g[t] \in CallType
    BY <1>2
  <2> HIDE DEF g
  <2> QED
    BY <2>1 DEF CallType
<1>4. th' = [g EXCEPT ![t] = e]
  BY <1>1
<1> HIDE DEF g, e
<1> QED
  BY <1>2, <1>3, <1>4

\* A call grabs the inode at a.
LEMMA GrabEffect ==
    ASSUME IInv, NEW t \in Threads, NEW a \in Addrs, th[t].pc # "iget", ui' = ui,
           \A s \in Threads : s # t => th'[s] = th[s], th'[t].pc = "iget", th'[t].ino = a,
           lref' = igrab(a)
    PROVE  lref' \in [Addrs -> Int] /\ \A b \in Addrs : GrabOf(b)'
<1>1. lref \in [Addrs -> Int]
  BY Types DEF IInv
<1>2. lref' \in [Addrs -> Int] /\ \A b \in Addrs : lref'[b] = lref[b] + (IF b = a THEN 1 ELSE 0)
  BY <1>1 DEF igrab
<1>3. ASSUME NEW b \in Addrs PROVE GrabOf(b)'
  <2>1. t \notin Igets(b) /\ (t \in Igets(b)' <=> b = a)
    BY DEF Igets
  <2>2. lref'[b] \in Int /\ lref[b] \in Int /\ lref'[b] = lref[b] + (IF b = a THEN 1 ELSE 0)
    BY <1>1, <1>2
  <2>3. lref'[b] - lref[b]
          = ((IF ui'[b].st = "live" THEN 1 ELSE 0) - (IF ui[b].st = "live" THEN 1 ELSE 0))
            + ((IF t \in Igets(b)' THEN 1 ELSE 0) - (IF t \in Igets(b) THEN 1 ELSE 0))
    BY <2>1, <2>2
  <2>4. EntriesOK /\ CountInv
    BY DEF IInv
  <2> QED
    BY <2>2, <2>3, <2>4, GrabFrame, Zenon
<1> QED
  BY <1>2, <1>3

\* create, mknod, mkdir and symlink make a new file.
LEMMA MakeLowerStep ==
    ASSUME IInv, NEW t \in Threads, MakeLower(t)
    PROVE  IInv'
<1> USE DEF history
<1>1. /\ th[t].pc = "lower" /\ th[t].op \in Makers
      /\ ld[th[t].ld].ino = None /\ disk[NameOf(t)] = None
      /\ UNCHANGED <<mnt, ud, ui, history>>
  BY DEF MakeLower
<1>2. PICK f \in NewFiles, a \in {b \in Addrs : linode[b] = None} :
         /\ disk' = [disk EXCEPT ![NameOf(t)] = f]
         /\ linode' = [linode EXCEPT ![a] = f]
         /\ ld' = [ld EXCEPT ![th[t].ld].ino = a]
         /\ lref' = igrab(a)
         /\ th' = [th EXCEPT ![t].pc = "iget", ![t].ino = a]
  BY DEF MakeLower
<1>3. /\ InDir(t) /\ BelowOf(t) /\ CallOf(t)
      /\ th[t].ud \in UDents /\ th[t].ld \in LDents /\ NameOf(t) \in Names
      /\ ud[th[t].ud].info = th[t].ld /\ ud[th[t].ud].st = "hashed"
      /\ ld[th[t].ld].name = NameOf(t) /\ ld[th[t].ld].st = "hashed"
  BY <1>1, BelowPlace
<1>4. PICK u \in UDents : u = th[t].ud
  BY <1>3
<1>5. PICK l \in LDents : l = th[t].ld
  BY <1>3
<1>6. PICK n \in Names : n = NameOf(t)
  BY <1>3
<1>7. /\ l = ud[u].info /\ n = ud[u].name /\ ud[u].st = "hashed" /\ ld[l].st = "hashed"
      /\ ud[u].ino = None /\ ld[l].name = n /\ ld[l].ino = None /\ disk[n] = None
  BY <1>1, <1>3, <1>4, <1>5, <1>6 DEF BelowOf, NameOf, Makers, Linking
<1>8. Place(t, u, l, n)
  BY <1>3, <1>4, <1>5, <1>7 DEF Place
<1>9. /\ disk \in [Names -> Files \cup {None}] /\ ld \in [LDents -> LDentType]
      /\ linode \in [Addrs -> Files \cup {None}]
  BY Types DEF IInv
<1>10. /\ a \in Addrs /\ linode[a] = None /\ a # None /\ f \in Files /\ f # None
       /\ \A b \in Addrs : linode[b] # f
  BY NoneAssumption DEF NewFiles
<1>11. /\ disk' \in [Names -> Files \cup {None}] /\ disk'[n] = f
       /\ \A m \in Names : m # n => disk'[m] = disk[m]
  BY <1>2, <1>6, <1>9, <1>10
<1>12. /\ linode' \in [Addrs -> Files \cup {None}] /\ linode'[a] = f
       /\ \A b \in Addrs : b # a => linode'[b] = linode[b]
  BY <1>2, <1>9, <1>10
<1>13. /\ ld' \in [LDents -> LDentType] /\ \A k \in LDents : k # l => ld'[k] = ld[k]
       /\ ld'[l].count = ld[l].count /\ ld'[l].name = ld[l].name
       /\ ld'[l].st = ld[l].st /\ ld'[l].ino = a
  BY <1>2, <1>5, <1>9, <1>10 DEF LDentType
<1>14. /\ th' \in [Threads -> CallType] /\ \A s \in Threads : s # t => th'[s] = th[s]
       /\ th'[t].pc = "iget" /\ th'[t].ino = a /\ th'[t].op = th[t].op
       /\ th'[t].ud = th[t].ud /\ th'[t].old = th[t].old /\ th'[t].ld = th[t].ld
  BY <1>1, <1>2, <1>10, IgetEffect
<1>15. /\ lref' \in [Addrs -> Int] /\ \A b \in Addrs : GrabOf(b)'
  BY <1>1, <1>2, <1>10, <1>14, GrabEffect
<1>16. \A v \in UDents : ud[v].info = l => ud[v].ino = None /\ v \notin orphan
  BY <1>7 DEF IInv, UpperInv, UpperOf
<1>17. /\ ~OnLink(t)' /\ ~OnLink(t)
       /\ \A k \in LDents : t \in Holders(k)' <=> t \in Holders(k)
       /\ \A k \in LDents : t \in Olds(k)' <=> t \in Olds(k)
  BY <1>1, <1>14 DEF OnLink, Linking, Makers, Holders, Holds, Busy, Olds
<1>18. Others(t, u, l, n)
  <2>1. \A v \in UDents : v # u /\ ud[v].info = l => ud[v].ino = None /\ v \notin orphan
    BY <1>16
  <2>2. /\ UNCHANGED <<ud, ui, mnt, lost, forgot, orphan, touched>>
        /\ Busy(t)' => th'[t].ud = u
        /\ OnLink(t)' => OnLink(t) /\ th'[t].ino = th[t].ino
    BY <1>1, <1>4, <1>14, <1>17
  <2> QED
    BY <1>11, <1>13, <1>14, <1>17, <2>1, <2>2 DEF Others
<1>19. Inodes
  <2>1. \A b \in Addrs : linode[b] # None => linode'[b] = linode[b]
    BY <1>10, <1>12
  <2>2. \A b, c \in Addrs : linode'[b] = linode'[c] /\ linode'[b] # None => b = c
    BY <1>10, <1>12 DEF IInv, LowerInv
  <2> QED
    BY <1>12, <1>15, <2>1, <2>2 DEF Inodes
<1>20. ASSUME NEW b \in Addrs PROVE NlinkOf(b)'
  <2>1. ui[b].st = "live" => linode[b] # None /\ linode[b] # f /\ linode'[b] = linode[b]
    BY <1>10, <1>12 DEF IInv, InodeInv, InodeOf
  <2>2. ui[b].st = "live" => Nlink(linode[b])' = Nlink(linode[b])
    <3>1. ui[b].st = "live" => Cardinality({m \in Names : disk'[m] = linode[b]}) = Nlink(linode[b])
      BY <1>7, <1>11, <2>1, NlinkKept
    <3> QED
      BY <2>1, <3>1 DEF Nlink
  <2>3. \A s \in Threads : OnLink(s) /\ Changing(s) /\ th[s].ino = b
                           => (OnLink(s) /\ Changing(s))' /\ th'[s].ino = b
    BY <1>14, <1>17 DEF OnLink, Changing, Busy
  <2> QED
    BY <1>1, <2>2, <2>3, NlinkFrame DEF IInv, NlinkInv
<1>21. LowerOf(l)'
  <2>1. LowerOf(l)
    BY DEF IInv, LowerInv
  <2> QED
    BY <1>7, <1>10, <1>11, <1>12, <1>13, <2>1 DEF LowerOf
<1>22. UpperOf(u)'
  <2>1. UpperOf(u)
    BY DEF IInv, UpperInv
  <2> QED
    BY <1>1, <1>7, <1>13, <1>16, <2>1 DEF UpperOf
<1>23. MirrorOf(u)'
  BY <1>4, <1>14 DEF MirrorOf, Changing
<1>24. ThreadOf(t)'
  <2>1. CallOf(t)'
    BY <1>1, <1>3, <1>4, <1>5, <1>6, <1>7, <1>13, <1>14 DEF CallOf, NameOf, Makers
  <2>2. IgetOf(t)'
    BY <1>1, <1>4, <1>5, <1>7, <1>10, <1>13, <1>14, <1>16 DEF IgetOf, Makers
  <2> QED
    BY <1>1, <1>14, <2>1, <2>2 DEF ThreadOf, IdleOf, Makers
<1> QED
  BY <1>8, <1>15, <1>18, <1>19, <1>20, <1>21, <1>22, <1>23, <1>24, OwnStep

\* link gives a file another name.
LEMMA LinkLowerStep ==
    ASSUME IInv, NEW t \in Threads, LinkLower(t)
    PROVE  IInv'
<1> USE DEF history
<1>1. /\ th[t].pc = "lower" /\ th[t].op = "link"
      /\ ld[th[t].ld].ino = None /\ disk[NameOf(t)] = None
      /\ UNCHANGED <<linode, mnt, ud, ui, history>>
  BY DEF LinkLower
<1>2. /\ InDir(t) /\ BelowOf(t) /\ CallOf(t)
      /\ th[t].ud \in UDents /\ th[t].ld \in LDents /\ NameOf(t) \in Names
      /\ ud[th[t].ud].info = th[t].ld /\ ud[th[t].ud].st = "hashed"
      /\ ld[th[t].ld].name = NameOf(t) /\ ld[th[t].ld].st = "hashed"
  BY <1>1, BelowPlace
<1>3. PICK w \in UDents : w = th[t].old
  BY <1>1, <1>2 DEF CallOf
<1>4. PICK a \in Addrs : a = th[t].ino
  BY <1>1, <1>2, <1>3 DEF CallOf, IInv, EntriesOK
<1>5. a = ud[w].ino /\ ud[w].info # None /\ ld[ud[w].info].ino = a /\ ud[w].info \in LDents
  <2>1. a = ud[w].ino /\ ud[w].ino # None
    BY <1>1, <1>2, <1>3, <1>4 DEF CallOf
  <2> QED
    BY <2>1 DEF IInv, UpperInv, UpperOf, EntriesOK
<1>6. /\ disk' = [disk EXCEPT ![NameOf(t)] = linode[a]]
      /\ ld' = [ld EXCEPT ![th[t].ld].ino = a]
      /\ lref' = igrab(a)
      /\ th' = [th EXCEPT ![t].pc = "iget", ![t].ino = a]
  BY <1>3, <1>5 DEF LinkLower, teadfs_get_lower_path
<1>7. PICK u \in UDents : u = th[t].ud
  BY <1>2
<1>8. PICK l \in LDents : l = th[t].ld
  BY <1>2
<1>9. PICK n \in Names : n = NameOf(t)
  BY <1>2
<1>10. /\ l = ud[u].info /\ n = ud[u].name /\ ud[u].st = "hashed" /\ ld[l].st = "hashed"
       /\ ud[u].ino = None /\ ld[l].name = n /\ ld[l].ino = None /\ disk[n] = None
  BY <1>1, <1>2, <1>7, <1>8, <1>9 DEF BelowOf, NameOf, Makers, Linking
<1>11. Place(t, u, l, n)
  BY <1>2, <1>7, <1>8, <1>10 DEF Place
<1>12. /\ disk \in [Names -> Files \cup {None}] /\ ld \in [LDents -> LDentType]
       /\ linode \in [Addrs -> Files \cup {None}]
  BY Types DEF IInv
<1>13. a # None /\ linode[a] # None
  <2>1. a # None
    BY NoneAssumption
  <2> QED
    BY <1>5, <2>1 DEF IInv, LowerInv, LowerOf
<1>14. /\ disk' \in [Names -> Files \cup {None}] /\ disk'[n] = linode[a]
       /\ \A m \in Names : m # n => disk'[m] = disk[m]
  BY <1>6, <1>9, <1>12
<1>15. /\ ld' \in [LDents -> LDentType] /\ \A k \in LDents : k # l => ld'[k] = ld[k]
       /\ ld'[l].count = ld[l].count /\ ld'[l].name = ld[l].name
       /\ ld'[l].st = ld[l].st /\ ld'[l].ino = a
  BY <1>6, <1>8, <1>12 DEF LDentType
<1>16. /\ th' \in [Threads -> CallType] /\ \A s \in Threads : s # t => th'[s] = th[s]
       /\ th'[t].pc = "iget" /\ th'[t].ino = a /\ th'[t].op = th[t].op
       /\ th'[t].ud = th[t].ud /\ th'[t].old = th[t].old /\ th'[t].ld = th[t].ld
  BY <1>1, <1>6, IgetEffect
<1>17. /\ lref' \in [Addrs -> Int] /\ \A b \in Addrs : GrabOf(b)'
  BY <1>1, <1>6, <1>16, GrabEffect
<1>18. \A v \in UDents : ud[v].info = l => ud[v].ino = None /\ v \notin orphan
  BY <1>10 DEF IInv, UpperInv, UpperOf
<1>19. OnLink(t) /\ \A k \in LDents : /\ t \in Holders(k)' <=> t \in Holders(k)
                                      /\ t \in Olds(k)' <=> t \in Olds(k)
  BY <1>1, <1>16 DEF OnLink, Linking, Holders, Holds, Busy, Olds
<1>20. Others(t, u, l, n)
  BY <1>1, <1>4, <1>7, <1>14, <1>15, <1>16, <1>18, <1>19 DEF Others
<1>21. Inodes
  BY <1>1, <1>12, <1>17 DEF Inodes, IInv, LowerInv
<1>22. ASSUME NEW b \in Addrs PROVE NlinkOf(b)'
  <2>1. CASE b = a
    <3>1. (OnLink(t) /\ Changing(t))'
      BY <1>1, <1>16 DEF OnLink, Linking, Changing, Busy
    <3> QED
      BY <1>16, <2>1, <3>1 DEF NlinkOf
  <2>2. CASE b # a
    <3>1. ui[b].st = "live" => linode[b] # None /\ linode[b] # linode[a]
      BY <1>13, <2>2 DEF IInv, InodeInv, InodeOf, LowerInv
    <3>2. ui[b].st = "live" => Nlink(linode[b])' = Nlink(linode[b])
      <4>1. ui[b].st = "live"
            => Cardinality({m \in Names : disk'[m] = linode[b]}) = Nlink(linode[b])
        BY <1>10, <1>14, <3>1, NlinkKept
      <4> QED
        BY <1>1, <4>1 DEF Nlink
    <3>3. \A s \in Threads : OnLink(s) /\ Changing(s) /\ th[s].ino = b
                             => (OnLink(s) /\ Changing(s))' /\ th'[s].ino = b
      BY <1>4, <1>16, <2>2 DEF OnLink, Changing, Busy
    <3> QED
      BY <1>1, <3>2, <3>3, NlinkFrame DEF IInv, NlinkInv
  <2> QED
    BY <2>1, <2>2
<1>23. LowerOf(l)'
  <2>1. LowerOf(l)
    BY DEF IInv, LowerInv
  <2> QED
    BY <1>1, <1>10, <1>13, <1>14, <1>15, <2>1 DEF LowerOf
<1>24. UpperOf(u)'
  <2>1. UpperOf(u)
    BY DEF IInv, UpperInv
  <2> QED
    BY <1>1, <1>10, <1>15, <1>18, <2>1 DEF UpperOf
<1>25. MirrorOf(u)'
  BY <1>7, <1>16 DEF MirrorOf, Changing
<1>26. ThreadOf(t)'
  <2>1. CallOf(t)'
    BY <1>1, <1>2, <1>3, <1>5, <1>7, <1>8, <1>9, <1>10, <1>13, <1>15, <1>16 DEF CallOf, NameOf
  <2>2. IgetOf(t)'
    BY <1>1, <1>7, <1>8, <1>10, <1>15, <1>16, <1>18 DEF IgetOf
  <2> QED
    BY <1>1, <1>16, <2>1, <2>2 DEF ThreadOf, IdleOf
<1> QED
  BY <1>11, <1>17, <1>20, <1>21, <1>22, <1>23, <1>24, <1>25, <1>26, OwnStep

\* unlink and rmdir take a name away.
LEMMA RemoveLowerStep ==
    ASSUME IInv, NEW t \in Threads, RemoveLower(t)
    PROVE  IInv'
<1> USE DEF history
<1>1. /\ th[t].pc = "lower" /\ th[t].op = "remove"
      /\ disk[NameOf(t)] # None /\ disk[NameOf(t)] = linode[ld[th[t].ld].ino]
      /\ disk' = [disk EXCEPT ![NameOf(t)] = None] /\ ld' = Ddelete(th[t].ld)
      /\ th' = [th EXCEPT ![t].pc = "unlinked"]
      /\ UNCHANGED <<linode, lref, mnt, ud, ui, history>>
  BY DEF RemoveLower, Goto
<1>2. /\ InDir(t) /\ BelowOf(t) /\ CallOf(t)
      /\ th[t].ud \in UDents /\ th[t].ld \in LDents /\ NameOf(t) \in Names
      /\ ud[th[t].ud].info = th[t].ld /\ ud[th[t].ud].st = "hashed"
      /\ ld[th[t].ld].name = NameOf(t)
      /\ ld[th[t].ld].st = "hashed" \/ ld[th[t].ld].st = "unhashed"
  BY <1>1, BelowPlace
<1>3. PICK u \in UDents : u = th[t].ud
  BY <1>2
<1>4. PICK l \in LDents : l = th[t].ld
  BY <1>2
<1>5. PICK n \in Names : n = NameOf(t)
  BY <1>2
<1>6. /\ l = ud[u].info /\ n = ud[u].name /\ ud[u].st = "hashed" /\ ld[l].name = n
      /\ ud[u].ino = th[t].ino /\ ud[u].ino # None
  BY <1>1, <1>2, <1>3, <1>4, <1>5 DEF BelowOf, NameOf
<1>7. PICK a \in Addrs : a = ud[u].ino
  BY <1>6 DEF IInv, EntriesOK
<1>8. UpperOf(u) /\ LowerOf(l)
  BY DEF IInv, UpperInv, LowerInv
<1>9. ld[l].ino = a /\ ld[l].st = "hashed" /\ u \notin orphan /\ linode[a] # None
      /\ disk[n] = linode[a] /\ ui[a].st = "live"
  BY <1>1, <1>2, <1>4, <1>5, <1>6, <1>7, <1>8 DEF UpperOf, LowerOf
<1>10. Place(t, u, l, n)
  BY <1>2, <1>3, <1>4, <1>6, <1>9 DEF Place
<1>11. /\ disk \in [Names -> Files \cup {None}] /\ ld \in [LDents -> LDentType]
       /\ linode \in [Addrs -> Files \cup {None}] /\ th \in [Threads -> CallType]
       /\ lref \in [Addrs -> Int]
  BY Types DEF IInv
<1>12. /\ disk' \in [Names -> Files \cup {None}] /\ disk'[n] = None
       /\ \A m \in Names : m # n => disk'[m] = disk[m]
  BY <1>1, <1>5, <1>11
<1>13. ld[l].count # 1
  <2>1. u \in Infos(l) /\ t \in Holders(l)
    BY <1>1, <1>2, <1>4, <1>6 DEF Infos, Holders, Holds, InDir, Dgets
  <2>2. ld[l].count >= 2 /\ ld[l].count \in Nat
    BY <1>11, <2>1, RefCount DEF IInv, LDentType
  <2> QED
    BY <2>2
<1>14. /\ ld' \in [LDents -> LDentType] /\ \A k \in LDents : k # l => ld'[k] = ld[k]
       /\ ld'[l].count = ld[l].count /\ ld'[l].name = ld[l].name
       /\ ld'[l].st = "unhashed" /\ ld'[l].ino = ld[l].ino
  BY <1>1, <1>4, <1>11, <1>13, DdeleteEffect
<1>15. /\ th' \in [Threads -> CallType] /\ \A s \in Threads : s # t => th'[s] = th[s]
       /\ th'[t].pc = "unlinked" /\ th'[t].ino = th[t].ino /\ th'[t].op = th[t].op
       /\ th'[t].ud = th[t].ud /\ th'[t].old = th[t].old /\ th'[t].ld = th[t].ld
  BY <1>1, <1>11 DEF CallType, PCs
<1>16. OnLink(t) /\ (OnLink(t) /\ Changing(t))'
       /\ \A k \in LDents : /\ t \in Holders(k)' <=> t \in Holders(k)
                            /\ t \in Olds(k)' <=> t \in Olds(k)
  BY <1>1, <1>15 DEF OnLink, Linking, Holders, Holds, Busy, Olds, Changing
<1>17. Others(t, u, l, n)
  BY <1>1, <1>3, <1>12, <1>14, <1>15, <1>16 DEF Others
<1>18. Inodes
  BY <1>1, <1>11 DEF Inodes, IInv, LowerInv
<1>19. ASSUME NEW b \in Addrs PROVE GrabOf(b)'
  <2>1. Igets(b)' = Igets(b)
    BY <1>1, <1>15 DEF Igets
  <2> QED
    BY <1>1, <2>1 DEF IInv, CountInv, GrabOf
<1>20. ASSUME NEW b \in Addrs PROVE NlinkOf(b)'
  <2>1. CASE b = a
    BY <1>6, <1>7, <1>15, <1>16, <2>1 DEF NlinkOf
  <2>2. CASE b # a
    <3>1. ui[b].st = "live" => linode[b] # None /\ linode[b] # linode[a]
      BY <1>9, <2>2 DEF IInv, InodeInv, InodeOf, LowerInv
    <3>2. ui[b].st = "live" => Nlink(linode[b])' = Nlink(linode[b])
      <4>1. ui[b].st = "live"
            => Cardinality({m \in Names : disk'[m] = linode[b]}) = Nlink(linode[b])
        BY <1>9, <1>12, <3>1, NlinkKept
      <4> QED
        BY <1>1, <4>1 DEF Nlink
    <3>3. \A s \in Threads : OnLink(s) /\ Changing(s) /\ th[s].ino = b
                             => (OnLink(s) /\ Changing(s))' /\ th'[s].ino = b
      BY <1>6, <1>7, <1>15, <2>2 DEF OnLink, Changing, Busy
    <3> QED
      BY <1>1, <3>2, <3>3, NlinkFrame DEF IInv, NlinkInv
  <2> QED
    BY <2>1, <2>2
<1>21. LowerOf(l)'
  BY <1>1, <1>7, <1>8, <1>9, <1>14, NoneAssumption DEF LowerOf
<1>22. UpperOf(u)'
  BY <1>1, <1>6, <1>8, <1>9, <1>12, <1>14 DEF UpperOf
<1>23. MirrorOf(u)'
  BY <1>3, <1>15 DEF MirrorOf, Changing
<1>24. ThreadOf(t)'
  <2>1. CallOf(t)'
    BY <1>1, <1>2, <1>3, <1>4, <1>5, <1>6, <1>14, <1>15 DEF CallOf, NameOf
  <2>2. UnlinkedOf(t)'
    BY <1>1, <1>3, <1>5, <1>6, <1>12, <1>15 DEF UnlinkedOf, NameOf
  <2> QED
    BY <1>1, <1>15, <2>1, <2>2 DEF ThreadOf, IdleOf
<1> QED
  BY <1>10, <1>17, <1>18, <1>19, <1>20, <1>21, <1>22, <1>23, <1>24, OwnStep
-----------------------------------------------------------------------------
\* Steps of a call that change an upper dentry and references, not what the directories say

\* The dentry u changes, and nobody else who works on it notices.
OwnDent(t, u) ==
    /\ ud' \in [UDents -> UDentType] /\ \A v \in UDents : v # u => ud'[v] = ud[v]
    /\ ud'[u].ino = ud[u].ino
    /\ \A s \in Threads : s # t /\ Busy(s) /\ th[s].ud = u
                          => ud'[u].st # "free" /\ ud'[u].name = ud[u].name
    /\ \A s \in Threads : s # t /\ InDir(s) => th[s].ud # u \/ ud'[u] = ud[u]
    /\ ud'[u].st = "hashed" =>
          /\ ud'[u].name = ud[u].name
          /\ ud[u].st = "hashed" \/ (InDir(t) /\ th[t].op = "lookup" /\ u = th[t].ud)

\* References are counted, and the dentries of others stay.
OwnRefs(t, u) ==
    /\ ld' \in [LDents -> LDentType] /\ lost' \in [LDents -> Nat]
    /\ mnt' \in Nat /\ forgot' \in 0 .. MaxLost
    /\ \A l \in LDents : CountOf(l)'
    /\ mnt' = Cardinality(Mounted)' + forgot'
    /\ \A a \in Addrs : GrabOf(a)'
    /\ \A v \in UDents : v # u /\ ud[v].info # None => Same(ud[v].info)
    /\ \A s \in Threads : s # t /\ InDir(s) => Same(th[s].ld)

\* The call itself goes on, and has the locks it needs.
OwnCall(t, u) ==
    /\ th' \in [Threads -> CallType] /\ \A s \in Threads : s # t => th'[s] = th[s]
    /\ Changing(t) => th[t].ud = u /\ ~OnLink(t)
    /\ \A s \in Threads : s # t /\ InDir(s) /\ InDir(t)' => DirOf[NameOf(s)] # DirOf[NameOf(t)']
    /\ \A s \in Threads : s # t /\ OnLink(s) /\ OnLink(t)' => th[s].ino # th'[t].ino

\* A call goes on with the dentry u: all others stay as they are.
LEMMA DentStep ==
    ASSUME IInv, NEW t \in Threads, NEW u \in UDents,
           UNCHANGED <<disk, ui, orphan, touched>>,
           OwnDent(t, u), OwnRefs(t, u), OwnCall(t, u), Inodes, LowerInv',
           UpperOf(u)', MirrorOf(u)', ThreadOf(t)'
    PROVE  IInv'
<1>1. /\ ud' \in [UDents -> UDentType] /\ \A v \in UDents : v # u => ud'[v] = ud[v]
      /\ ud'[u].ino = ud[u].ino
  BY DEF OwnDent
<1>2. th' \in [Threads -> CallType] /\ \A s \in Threads : s # t => th'[s] = th[s]
  BY DEF OwnCall
<1>3. /\ linode' \in [Addrs -> Files \cup {None}] /\ lref' \in [Addrs -> Int]
      /\ \A b \in Addrs : linode[b] # None => linode'[b] = linode[b]
  BY DEF Inodes
<1>4. EntriesOK'
  <2>1. /\ ld' \in [LDents -> LDentType] /\ lost' \in [LDents -> Nat]
        /\ mnt' \in Nat /\ forgot' \in 0 .. MaxLost
    BY DEF OwnRefs
  <2> QED
    BY <1>1, <1>2, <1>3, <2>1 DEF IInv, EntriesOK, LDentType, UDentType, CallType
<1>5. CountInv'
  BY DEF OwnRefs, CountInv
<1>6. \A b \in Addrs : ui[b].st = "live" => linode[b] # None /\ linode'[b] = linode[b]
  BY <1>3 DEF IInv, InodeInv, InodeOf
<1>7. InodeInv'
  BY <1>6 DEF IInv, InodeInv, InodeOf
<1>8. UpperInv'
  <2>1. ASSUME NEW v \in UDents, v # u PROVE UpperOf(v)'
    <3>1. UpperOf(v) /\ (ud[v].ino # None => ui[ud[v].ino].st = "live")
      BY DEF IInv, UpperInv, UpperOf
    <3>2. ud[v].info # None => Same(ud[v].info)
      BY <2>1 DEF OwnRefs
    <3> QED
      BY <1>1, <2>1, <3>1, <3>2, UpperFrame
  <2>2. ASSUME NEW v \in UDents, v # u, ud[v].st = "hashed", ud'[u].st = "hashed"
        PROVE  ud[v].name # ud'[u].name
    <3>1. /\ ud'[u].name = ud[u].name
          /\ ud[u].st = "hashed" \/ (InDir(t) /\ th[t].op = "lookup" /\ u = th[t].ud)
      BY <2>2 DEF OwnDent
    <3>2. CASE ud[u].st = "hashed"
      BY <2>2, <3>1, <3>2 DEF IInv, UpperInv
    <3>3. CASE InDir(t) /\ th[t].op = "lookup" /\ u = th[t].ud
      BY <2>2, <3>1, <3>3 DEF IInv, ThreadInv, ThreadOf, LookingOf, InDir, NameOf
    <3> QED
      BY <3>1, <3>2, <3>3
  <2>3. (\A v, w \in UDents : ud[v].st = "hashed" /\ ud[w].st = "hashed"
                              /\ ud[v].name = ud[w].name => v = w)'
    BY <1>1, <2>2 DEF IInv, UpperInv
  <2> QED
    BY <2>1, <2>3 DEF UpperInv
<1>9. ASSUME NEW s \in Threads, s # t, Busy(s)
      PROVE  /\ th[s].ud \in UDents /\ ud'[th[s].ud].st # "free"
             /\ ud'[th[s].ud].name = ud[th[s].ud].name
             /\ th[s].op = "link" => ud'[th[s].old].ino = ud[th[s].old].ino
  <2>1. CallOf(s)
    BY <1>9 DEF IInv, ThreadInv, ThreadOf
  <2>2. th[s].ud \in UDents /\ ud[th[s].ud].st # "free"
        /\ (th[s].op = "link" => th[s].old \in UDents)
    BY <2>1 DEF CallOf
  <2>3. th[s].ud = u => ud'[u].st # "free" /\ ud'[u].name = ud[u].name
    BY <1>9 DEF OwnDent
  <2> QED
    BY <1>1, <2>2, <2>3
<1>10. ASSUME NEW s \in Threads PROVE ThreadOf(s)'
  <2>1. CASE s # t
    <3>1. ThreadOf(s) /\ th'[s] = th[s]
      BY <1>2, <2>1 DEF IInv, ThreadInv
    <3>2. th[s].pc = "copy" => ui[th[s].ino].st = "live"
      BY <3>1 DEF ThreadOf, CopyOf
    <3>3. InDir(s) => Same(th[s].ld)
      BY <2>1 DEF OwnRefs
    <3>4. InDir(s) => Busy(s) /\ (th[s].ud # u \/ ud'[u] = ud[u])
      BY <2>1 DEF InDir, OwnDent
    <3>5. InDir(s) => ud'[th[s].ud] = ud[th[s].ud]
      BY <1>1, <1>9, <2>1, <3>4
    <3>6. Busy(s) /\ th[s].op = "lookup" =>
             \A v \in UDents : ud'[v].st = "hashed" /\ ud'[v].name = NameOf(s)
                               => ud[v].st = "hashed" /\ ud[v].name = NameOf(s)
      <4> SUFFICES ASSUME Busy(s), th[s].op = "lookup", NEW v \in UDents,
                          ud'[v].st = "hashed", ud'[v].name = NameOf(s)
                   PROVE  ud[v].st = "hashed" /\ ud[v].name = NameOf(s)
        OBVIOUS
      <4>1. CASE v # u
        BY <1>1, <4>1
      <4>2. CASE v = u
        <5>1. /\ ud[u].name = NameOf(s)
              /\ ud[u].st = "hashed" \/ (InDir(t) /\ th[t].op = "lookup" /\ u = th[t].ud)
          BY <4>2 DEF OwnDent
        <5>2. InDir(s)
          BY DEF InDir
        <5>3. ~(InDir(t) /\ u = th[t].ud)
          BY <2>1, <5>1, <5>2, OtherCall DEF NameOf
        <5> QED
          BY <4>2, <5>1, <5>3
      <4> QED
        BY <4>1, <4>2
    <3> QED
      BY <1>9, <2>1, <3>1, <3>2, <3>3, <3>5, <3>6, ThreadFrame
  <2> QED
    BY <2>1
<1>11. ThreadInv'
  <2>1. \A s \in Threads : s # t => (Busy(s) => NameOf(s)' = NameOf(s))
    BY <1>2, <1>9 DEF NameOf
  <2>2. /\ \A s \in Threads : s # t /\ InDir(s) /\ InDir(t)'
                              => DirOf[NameOf(s)] # DirOf[NameOf(t)']
        /\ \A s \in Threads : s # t /\ OnLink(s) /\ OnLink(t)' => th[s].ino # th'[t].ino
    BY DEF OwnCall
  <2> QED
    BY <1>2, <1>10, <2>1, <2>2, Exclusion
<1>12. MirrorInv'
  <2>1. ASSUME NEW v \in UDents, v # u PROVE MirrorOf(v)'
    <3>1. ud[v].ino # None => linode'[ud[v].ino] = linode[ud[v].ino]
      BY <1>6 DEF IInv, UpperInv, UpperOf, EntriesOK
    <3>2. Changing(t) => th[t].ud # v
      BY <2>1 DEF OwnCall
    <3>3. \A s \in Threads : Changing(s) /\ th[s].ud = v => Changing(s)' /\ th'[s].ud = v
      BY <1>2, <3>2 DEF Changing
    <3> QED
      BY <1>1, <2>1, <3>1, <3>3, MirrorFrame DEF IInv, MirrorInv
  <2> QED
    BY <2>1 DEF MirrorInv
<1>13. NlinkInv'
  <2>1. ASSUME NEW b \in Addrs PROVE NlinkOf(b)'
    <3>1. ui[b].st = "live" => Nlink(linode[b])' = Nlink(linode[b])
      BY <1>6 DEF Nlink
    <3>2. ~(OnLink(t) /\ Changing(t))
      BY DEF OwnCall
    <3>3. \A s \in Threads : OnLink(s) /\ Changing(s) /\ th[s].ino = b
                             => (OnLink(s) /\ Changing(s))' /\ th'[s].ino = b
      BY <1>2, <3>2 DEF OnLink, Changing, Busy
    <3> QED
      BY <3>1, <3>3, NlinkFrame DEF IInv, NlinkInv
  <2> QED
    BY <2>1 DEF NlinkInv
<1> QED
  BY <1>4, <1>5, <1>7, <1>8, <1>11, <1>12, <1>13 DEF IInv
\* A call that is not running.
LEMMA IdleThread ==
    ASSUME IInv, NEW t \in Threads, ~Busy(t)
    PROVE  /\ th[t] = Idle /\ th[t].pc = "idle" /\ th[t].op = "none"
           /\ ~InDir(t) /\ ~OnLink(t) /\ ~Changing(t)
           /\ \A l : t \notin Holders(l) /\ t \notin Olds(l)
           /\ \A a : t \notin Igets(a)
           /\ th'[t] = Idle => ThreadOf(t)'
<1>1. th[t] = Idle
  BY DEF IInv, ThreadInv, ThreadOf, IdleOf, Busy
<1>2. Idle.pc = "idle" /\ Idle.op = "none"
  BY DEF Idle
<1> QED
  BY <1>1, <1>2 DEF Busy, InDir, OnLink, Changing, Holders, Holds, Olds, Igets, ThreadOf, IdleOf

\* A running link has its old dentry.
LEMMA OldDent ==
    ASSUME IInv, NEW t \in Threads, th[t].op = "link"
    PROVE  /\ Busy(t) /\ th[t].old \in UDents /\ ud[th[t].old].ino # None
           /\ ud[th[t].old].info # None
<1>1. Busy(t)
  BY DEF IInv, ThreadInv, ThreadOf, IdleOf, Busy, Idle
<1>2. th[t].old \in UDents /\ ud[th[t].old].ino # None
  BY <1>1 DEF IInv, ThreadInv, ThreadOf, CallOf
<1> QED
  BY <1>1, <1>2 DEF IInv, UpperInv, UpperOf

\* A cached name that somebody has changed is dropped.
LEMMA RevalidateStep ==
    ASSUME IInv, NEW t \in Threads, NEW u \in UDents, teadfs_d_revalidate(t, u)
    PROVE  IInv'
<1> USE DEF history, lower
<1>1. CASE ReadAttr(t, u)
  BY <1>1, ReadAttrStep
<1>2. CASE ~ReadAttr(t, u)
  <2>1. /\ ~Busy(t) /\ ud[u].st = "hashed" /\ ~PinnedDent(u) /\ ud' = Dropped(u)
        /\ UNCHANGED <<disk, linode, lref, ld, mnt, ui, th, history>>
    BY <1>2 DEF teadfs_d_revalidate
  <2>2. /\ ud' \in [UDents -> UDentType] /\ \A v \in UDents : v # u => ud'[v] = ud[v]
        /\ ud'[u].info = ud[u].info /\ ud'[u].name = ud[u].name /\ ud'[u].st = "unhashed"
        /\ ud'[u].ino = ud[u].ino
    BY <2>1, DropEffect
  <2>3. /\ th[t] = Idle /\ ~InDir(t) /\ ~OnLink(t) /\ ~Changing(t)
        /\ th'[t] = Idle => ThreadOf(t)'
    BY <2>1, IdleThread
  <2>4. OwnDent(t, u)
    <3>1. \A s \in Threads : Busy(s) => th[s].ud # u
      BY <2>1 DEF PinnedDent
    <3>2. \A s \in Threads : InDir(s) => th[s].ud # u
      BY <3>1 DEF InDir
    <3> QED
      BY <2>2, <3>1, <3>2 DEF OwnDent
  <2>5. OwnRefs(t, u)
    <3>1. \A l \in LDents : Infos(l)' = Infos(l) /\ Holders(l)' = Holders(l)
      BY <2>1, <2>2 DEF Infos, Holders, Holds, Busy
    <3>2. \A s \in Threads : th[s].op = "link" => ud'[th[s].old].info = ud[th[s].old].info
      BY <2>2, OldDent
    <3>3. \A l \in LDents : Olds(l)' = Olds(l)
      BY <2>1, <3>2 DEF Olds
    <3>4. Mounted' = Mounted /\ \A a \in Addrs : Igets(a)' = Igets(a)
      BY <2>1, <2>2 DEF Mounted, Igets
    <3>5. CountInv'
      BY <2>1, <3>1, <3>3, <3>4 DEF IInv, CountInv, CountOf, GrabOf
    <3>6. /\ ld' \in [LDents -> LDentType] /\ lost' \in [LDents -> Nat]
          /\ mnt' \in Nat /\ forgot' \in 0 .. MaxLost
      BY <2>1, Types DEF IInv
    <3> QED
      BY <2>1, <3>5, <3>6 DEF OwnRefs, CountInv, Same
  <2>6. OwnCall(t, u)
    <3>1. th \in [Threads -> CallType]
      BY Types DEF IInv
    <3>2. ~InDir(t)' /\ ~OnLink(t)'
      BY <2>1 DEF InDir, OnLink, Busy
    <3> QED
      BY <2>1, <2>3, <3>1, <3>2 DEF OwnCall
  <2>7. Inodes /\ LowerInv'
    <3>1. linode \in [Addrs -> Files \cup {None}] /\ lref \in [Addrs -> Int]
      BY Types DEF IInv
    <3> QED
      BY <2>1, <3>1 DEF Inodes, IInv, LowerInv, LowerOf
  <2>8. UpperOf(u)' /\ MirrorOf(u)'
    <3>1. UpperOf(u)
      BY DEF IInv, UpperInv
    <3> QED
      BY <2>1, <2>2, <3>1 DEF UpperOf, MirrorOf
  <2> QED
    BY <2>1, <2>3, <2>4, <2>5, <2>6, <2>7, <2>8, DentStep
<1> QED
  BY <1>1, <1>2

\* A lookup without memory for the inode forgets its references.
LEMMA FailsLookupStep ==
    ASSUME IInv, NEW t \in Threads, th[t].pc = "iget", th[t].op = "lookup",
           lref' = [lref EXCEPT ![th[t].ino] = @ - 1], Return(t), forgot < MaxLost,
           lost' = [lost EXCEPT ![th[t].ld] = @ + 1], forgot' = forgot + 1,
           ud' = [ud EXCEPT ![th[t].ud].info = None],
           UNCHANGED <<disk, linode, ld, mnt, ui, orphan, touched>>
    PROVE  IInv'
<1>1. IgetOf(t) /\ CallOf(t) /\ LookingOf(t)
  BY DEF IInv, ThreadInv, ThreadOf, Busy
<1>2. InDir(t) /\ ~OnLink(t) /\ Changing(t)
  BY DEF InDir, OnLink, Busy, Linking, Changing
<1>3. PICK u \in UDents : u = th[t].ud
  BY <1>1 DEF CallOf
<1>4. PICK l \in LDents : l = th[t].ld
  BY <1>1 DEF CallOf
<1>5. /\ th' \in [Threads -> CallType] /\ th'[t] = Idle
      /\ \A s \in Threads : s # t => th'[s] = th[s]
      /\ ~Busy(t)' /\ ~InDir(t)' /\ ~OnLink(t)' /\ ~Changing(t)' /\ ThreadOf(t)'
      /\ \A k : t \notin Holders(k)' /\ t \notin Olds(k)'
  BY ReturnEffect
<1>6. /\ ud \in [UDents -> UDentType] /\ lost \in [LDents -> Nat] /\ ld \in [LDents -> LDentType]
      /\ mnt \in Nat /\ forgot \in Nat /\ MaxLost \in Nat
      /\ linode \in [Addrs -> Files \cup {None}]
  BY Types, DirectAssumption DEF IInv
<1>7. /\ ud' \in [UDents -> UDentType] /\ \A v \in UDents : v # u => ud'[v] = ud[v]
      /\ ud'[u].info = None /\ ud'[u].name = ud[u].name /\ ud'[u].st = ud[u].st
      /\ ud'[u].ino = ud[u].ino
  BY <1>3, <1>6 DEF UDentType
<1>8. /\ lost' \in [LDents -> Nat] /\ lost'[l] = lost[l] + 1
      /\ \A k \in LDents : k # l => lost'[k] = lost[k]
  BY <1>4, <1>6
<1>9. /\ ud[u].info = l /\ ud[u].st = "unhashed" /\ ud[u].ino = None /\ u \notin orphan
  BY <1>1, <1>3, <1>4 DEF CallOf, LookingOf, IgetOf
<1>10. OwnDent(t, u)
  <2>1. \A s \in Threads : s # t /\ InDir(s) => th[s].ud # u
    BY <1>2, <1>3, OtherCall
  <2> QED
    BY <1>7, <1>9, <2>1 DEF OwnDent
<1>11. ASSUME NEW k \in LDents PROVE CountOf(k)'
  <2>1. u \notin Infos(k)' /\ (u \in Infos(k) <=> k = l)
    BY <1>7, <1>9, NoneAssumption DEF Infos
  <2>2. t \notin Holders(k) /\ t \notin Olds(k) /\ t \notin Holders(k)' /\ t \notin Olds(k)'
    BY <1>5 DEF Holders, Holds, Olds, Dgets
  <2>3. \A s \in Threads : s # t => (s \in Olds(k)' <=> s \in Olds(k))
    <3>1. \A s \in Threads : s # t /\ th[s].op = "link" => ud'[th[s].old] = ud[th[s].old]
      BY <1>7, <1>9, OldDent
    <3> QED
      BY <1>5, <3>1 DEF Olds
  <2>4. /\ ld'[k].count \in Int /\ lost'[k] \in Int /\ lost[k] \in Int
        /\ ld'[k].count = ld[k].count /\ lost'[k] = lost[k] + (IF k = l THEN 1 ELSE 0)
    BY <1>6, <1>8 DEF LDentType
  <2>5. ld'[k].count - ld[k].count
          = ((IF u \in Infos(k)' THEN 1 ELSE 0) - (IF u \in Infos(k) THEN 1 ELSE 0))
            + (lost'[k] - lost[k])
            + ((IF t \in Holders(k)' THEN 1 ELSE 0) - (IF t \in Holders(k) THEN 1 ELSE 0))
            + ((IF t \in Olds(k)' THEN 1 ELSE 0) - (IF t \in Olds(k) THEN 1 ELSE 0))
    BY <2>1, <2>2, <2>4
  <2>6. EntriesOK /\ CountInv /\ (\A s \in Threads : s # t => th'[s] = th[s])
        /\ \A v \in UDents : v # u => ud'[v].info = ud[v].info
    BY <1>5, <1>7 DEF IInv
  <2> QED
    BY <2>3, <2>4, <2>5, <2>6, CountFrame, Zenon
<1>12. mnt' = Cardinality(Mounted)' + forgot'
  <2>1. u \notin Mounted' /\ u \in Mounted
    BY <1>7, <1>9, NoneAssumption DEF Mounted
  <2>2. mnt' - mnt = ((IF u \in Mounted' THEN 1 ELSE 0) - (IF u \in Mounted THEN 1 ELSE 0))
                     + (forgot' - forgot)
    BY <1>6, <2>1
  <2>3. mnt' \in Int /\ forgot' \in Int
    BY <1>6
  <2>4. (\A v \in UDents : v # u => ud'[v].info = ud[v].info) /\ EntriesOK /\ CountInv
    BY <1>7 DEF IInv
  <2> QED
    BY <2>2, <2>3, <2>4, MountFrame, Zenon
<1>13. lref' \in [Addrs -> Int] /\ \A b \in Addrs : GrabOf(b)'
  BY FailGrab
<1>14. OwnRefs(t, u)
  <2>1. forgot' \in 0 .. MaxLost /\ mnt' \in Nat
    BY <1>6
  <2>2. ld' \in [LDents -> LDentType] /\ \A k : Same(k)
    BY <1>6 DEF Same
  <2> QED
    BY <1>8, <1>11, <1>12, <1>13, <2>1, <2>2 DEF OwnRefs
<1>15. OwnCall(t, u)
  BY <1>2, <1>3, <1>5 DEF OwnCall
<1>16. Inodes /\ LowerInv'
  BY <1>6, <1>13 DEF Inodes, IInv, LowerInv, LowerOf
<1>17. UpperOf(u)' /\ MirrorOf(u)'
  <2>1. UpperOf(u)
    BY DEF IInv, UpperInv
  <2> QED
    BY <1>7, <1>9, <2>1 DEF UpperOf, MirrorOf
<1> QED
  BY <1>5, <1>10, <1>14, <1>15, <1>16, <1>17, DentStep

\* __teadfs_get_inode fails.
LEMMA GetInodeFailsStep ==
    ASSUME IInv, NEW t \in Threads, GetInodeFails(t)
    PROVE  IInv'
<1> USE DEF history
<1>1. /\ th[t].pc = "iget" /\ ui[th[t].ino].st = "absent" /\ Return(t)
      /\ lref' = [lref EXCEPT ![th[t].ino] = @ - 1]
      /\ UNCHANGED <<linode, mnt, ui, touched>>
  BY DEF GetInodeFails
<1>2. CASE /\ th[t].op = "lookup" /\ forgot < MaxLost
           /\ lost' = [lost EXCEPT ![th[t].ld] = @ + 1] /\ forgot' = forgot + 1
           /\ ud' = [ud EXCEPT ![th[t].ud].info = None]
           /\ UNCHANGED <<disk, ld, orphan>>
  BY <1>1, <1>2, FailsLookupStep
<1>3. CASE th[t].op = "create" /\ CreateUndo(t)
  <2>1. CASE disk' = [disk EXCEPT ![NameOf(t)] = None] /\ ld' = Ddelete(th[t].ld)
             /\ UNCHANGED orphan
    BY <1>1, <1>3, <2>1, FailsUndoStep DEF CreateUndo
  <2>2. CASE orphan' = orphan \cup {th[t].ud} /\ UNCHANGED <<disk, ld>>
    BY <1>1, <1>3, <2>2, FailsOrphanStep DEF CreateUndo
  <2> QED
    BY <1>3, <2>1, <2>2 DEF CreateUndo
<1>4. CASE /\ th[t].op \in {"node", "symlink"} /\ ld' = Untake(ld, t)
           /\ ud' = Dropped(th[t].ud) /\ UNCHANGED <<disk, orphan, lost, forgot>>
  BY <1>1, <1>4, FailsNodeStep
<1> QED
  BY <1>2, <1>3, <1>4 DEF GetInodeFails
\* The reference of a lookup becomes that of the upper dentry.
HandedOver(t, u) ==
    /\ th[t].pc = "interpose" /\ th[t].op = "lookup" /\ UNCHANGED <<ld, lost>>
    /\ ud[u].info = None /\ ud[u].ino = None /\ \A v \in UDents : v # u => ud'[v] = ud[v]
    /\ ud'[u].info = th[t].ld /\ \A s \in Threads : s # t => th'[s] = th[s]

\* ... and counts as before.
LEMMA InterposeCount ==
    ASSUME IInv, NEW t \in Threads, NEW u \in UDents, NEW k \in LDents, HandedOver(t, u),
           t \notin Holders(k)', t \notin Olds(k)'
    PROVE  CountOf(k)'
<1>1. u \notin Infos(k) /\ (u \in Infos(k)' <=> k = th[t].ld)
  BY NoneAssumption DEF Infos, HandedOver
<1>2. (t \in Holders(k) <=> k = th[t].ld) /\ t \notin Olds(k)
  BY DEF Holders, Holds, Olds, Dgets, HandedOver
<1>3. \A s \in Threads : s # t => (s \in Olds(k)' <=> s \in Olds(k))
  <2>1. \A s \in Threads : s # t /\ th[s].op = "link" => ud'[th[s].old] = ud[th[s].old]
    BY OldDent DEF HandedOver
  <2> QED
    BY <2>1 DEF Olds, HandedOver
<1>4. /\ ld'[k].count \in Int /\ lost'[k] \in Int /\ lost[k] \in Int
      /\ ld'[k].count = ld[k].count /\ lost'[k] = lost[k]
  BY DEF IInv, EntriesOK, HandedOver
<1>5. ld'[k].count - ld[k].count
        = ((IF u \in Infos(k)' THEN 1 ELSE 0) - (IF u \in Infos(k) THEN 1 ELSE 0))
          + (lost'[k] - lost[k])
          + ((IF t \in Holders(k)' THEN 1 ELSE 0) - (IF t \in Holders(k) THEN 1 ELSE 0))
          + ((IF t \in Olds(k)' THEN 1 ELSE 0) - (IF t \in Olds(k) THEN 1 ELSE 0))
  BY <1>1, <1>2, <1>4
<1>6. EntriesOK /\ CountInv /\ (\A s \in Threads : s # t => th'[s] = th[s])
      /\ \A v \in UDents : v # u => ud'[v].info = ud[v].info
  BY DEF IInv, HandedOver
<1> QED
  BY <1>3, <1>4, <1>5, <1>6, CountFrame, Zenon

\* A lookup hands its reference over to the upper dentry.
LEMMA InterposeEffect ==
    ASSUME IInv, NEW t \in Threads, NEW u \in UDents, NEW l \in LDents,
           th[t].pc = "interpose", u = th[t].ud, l = th[t].ld,
           UNCHANGED <<disk, linode, ld, ui, lost, forgot, orphan, touched>>, mnt' = mnt + 1,
           ud' \in [UDents -> UDentType], \A v \in UDents : v # u => ud'[v] = ud[v],
           ud'[u].info = l, ud'[u].name = ud[u].name, ud'[u].ino = ud[u].ino, ud'[u].st # "free",
           th' \in [Threads -> CallType], \A s \in Threads : s # t => th'[s] = th[s],
           th'[t].pc # "interpose", th'[t].op \in {"lookup", "none"},
           InDir(t)' => th'[t].ud = u, lref' \in [Addrs -> Int], \A a \in Addrs : GrabOf(a)',
           UpperOf(u)', MirrorOf(u)', ThreadOf(t)'
    PROVE  IInv'
<1>1. InterposeOf(t) /\ CallOf(t) /\ LookingOf(t)
  BY DEF IInv, ThreadInv, ThreadOf, Busy, InterposeOf
<1>2. InDir(t) /\ ~OnLink(t) /\ ~Changing(t) /\ ~OnLink(t)' /\ th[t].op = "lookup"
  BY <1>1 DEF InterposeOf, InDir, OnLink, Busy, Linking, Changing
<1>3. ud[u].info = None /\ ud[u].ino = None /\ ud[u].st = "unhashed"
  BY <1>1 DEF InterposeOf, LookingOf
<1>4. /\ ld \in [LDents -> LDentType] /\ lost \in [LDents -> Nat] /\ mnt \in Nat
      /\ forgot \in 0 .. MaxLost /\ forgot \in Int /\ linode \in [Addrs -> Files \cup {None}]
  BY Types, DirectAssumption DEF IInv
<1>5. OwnDent(t, u)
  <2>1. \A s \in Threads : s # t /\ InDir(s) => th[s].ud # u
    BY <1>2, OtherCall
  <2> QED
    BY <1>2, <2>1 DEF OwnDent
<1>6. ASSUME NEW k \in LDents PROVE CountOf(k)'
  <2>1. t \notin Holders(k)' /\ t \notin Olds(k)'
    BY DEF Holders, Holds, Olds, Dgets
  <2>2. HandedOver(t, u)
    BY <1>2, <1>3 DEF HandedOver
  <2> QED
    BY <2>1, <2>2, InterposeCount
<1>7. mnt' = Cardinality(Mounted)' + forgot'
  <2>1. u \in Mounted' /\ u \notin Mounted
    BY <1>3, NoneAssumption DEF Mounted
  <2>2. mnt' - mnt = ((IF u \in Mounted' THEN 1 ELSE 0) - (IF u \in Mounted THEN 1 ELSE 0))
                     + (forgot' - forgot)
    BY <1>4, <2>1
  <2>3. mnt' \in Int /\ forgot' \in Int
    BY <1>4
  <2>4. (\A v \in UDents : v # u => ud'[v].info = ud[v].info) /\ EntriesOK /\ CountInv
    BY DEF IInv
  <2> QED
    BY <2>2, <2>3, <2>4, MountFrame, Zenon
<1>8. OwnRefs(t, u)
  <2>1. mnt' \in Nat
    BY <1>4
  <2>2. ld' \in [LDents -> LDentType] /\ \A k : Same(k)
    BY <1>4 DEF Same
  <2> QED
    BY <1>4, <1>6, <1>7, <2>1, <2>2 DEF OwnRefs
<1>9. OwnCall(t, u)
  <2>1. InDir(t)' => NameOf(t)' = NameOf(t)
    BY DEF NameOf
  <2>2. \A s \in Threads : s # t /\ InDir(s) /\ InDir(t)' => DirOf[NameOf(s)] # DirOf[NameOf(t)']
    BY <1>2, <2>1 DEF IInv, ThreadInv
  <2> QED
    BY <1>2, <2>2 DEF OwnCall
<1>10. Inodes /\ LowerInv'
  BY <1>4 DEF Inodes, IInv, LowerInv, LowerOf
<1> QED
  BY <1>5, <1>8, <1>9, <1>10, DentStep

\* teadfs_lookup_interpose.
LEMMA InterposeStep ==
    ASSUME IInv, NEW t \in Threads, teadfs_lookup_interpose(t)
    PROVE  IInv'
<1> USE DEF history, lower
<1>1. /\ th[t].pc = "interpose" /\ mnt' = mnt + 1
      /\ UNCHANGED <<disk, linode, ld, ui, lost, forgot, orphan, touched>>
  BY DEF teadfs_lookup_interpose
<1>2. InterposeOf(t) /\ CallOf(t) /\ LookingOf(t)
  BY <1>1 DEF IInv, ThreadInv, ThreadOf, Busy, InterposeOf
<1>3. PICK u \in UDents : u = th[t].ud
  BY <1>2 DEF CallOf
<1>4. PICK l \in LDents : l = th[t].ld
  BY <1>2 DEF CallOf, InterposeOf
<1>5. /\ ud \in [UDents -> UDentType] /\ th \in [Threads -> CallType] /\ lref \in [Addrs -> Int]
      /\ ld \in [LDents -> LDentType]
  BY Types DEF IInv
<1>6. /\ ud[u].info = None /\ ud[u].ino = None /\ ud[u].st = "unhashed" /\ ud[u].name \in Names
      /\ u \notin orphan /\ ld[l].name = ud[u].name /\ th[t].op = "lookup" /\ UpperOf(u)
  BY <1>2, <1>3, <1>4 DEF InterposeOf, LookingOf, CallOf, NameOf, IInv, UpperInv, UpperOf
<1>7. NameOf(t) = ud[u].name
  BY <1>3 DEF NameOf
<1>8. CASE ld[l].ino = None
  <2>1. /\ ud' = [ud EXCEPT ![u].info = l, ![u].st = "hashed"] /\ Return(t) /\ lref' = lref
    BY <1>3, <1>4, <1>8 DEF teadfs_lookup_interpose
  <2>2. /\ ud' \in [UDents -> UDentType] /\ \A v \in UDents : v # u => ud'[v] = ud[v]
        /\ ud'[u].info = l /\ ud'[u].name = ud[u].name /\ ud'[u].st = "hashed"
        /\ ud'[u].ino = ud[u].ino
    BY <1>5, <2>1 DEF UDentType
  <2>3. /\ th' \in [Threads -> CallType] /\ th'[t] = Idle
        /\ \A s \in Threads : s # t => th'[s] = th[s]
        /\ ~InDir(t)' /\ ThreadOf(t)' /\ \A a : t \notin Igets(a)'
    BY <2>1, ReturnEffect
  <2>4. th'[t].pc # "interpose" /\ th'[t].op \in {"lookup", "none"}
    BY <2>3 DEF Idle
  <2>5. ASSUME NEW a \in Addrs PROVE GrabOf(a)'
    <3>1. Igets(a)' = Igets(a)
      BY <1>1, <2>3 DEF Igets
    <3> QED
      BY <1>1, <2>1, <3>1 DEF IInv, CountInv, GrabOf
  <2>6. UpperOf(u)'
    BY <1>1, <1>6, <2>2, NoneAssumption DEF UpperOf
  <2>7. MirrorOf(u)'
    <3>1. ud[u].name \notin touched => ld[l].st = "hashed"
      BY <1>2, <1>4, <1>7 DEF LookingOf
    <3>2. ud[u].name \notin touched => disk[ud[u].name] = None
      BY <1>6, <1>8, <3>1 DEF IInv, LowerInv, LowerOf
    <3> QED
      BY <1>1, <1>6, <2>2, <3>2 DEF MirrorOf
  <2>8. ud'[u].st # "free" /\ lref' \in [Addrs -> Int]
    BY <1>5, <2>1, <2>2
  <2> QED
    BY <1>1, <1>3, <1>4, <2>2, <2>3, <2>4, <2>5, <2>6, <2>7, <2>8, InterposeEffect
<1>9. CASE ld[l].ino # None
  <2>1. ud' = [ud EXCEPT ![u].info = l]
    BY <1>3, <1>4, <1>9 DEF teadfs_lookup_interpose
  <2>2. /\ ud' \in [UDents -> UDentType] /\ \A v \in UDents : v # u => ud'[v] = ud[v]
        /\ ud'[u].info = l /\ ud'[u].name = ud[u].name /\ ud'[u].st = ud[u].st
        /\ ud'[u].ino = ud[u].ino
    BY <1>5, <2>1 DEF UDentType
  <2>3. UpperOf(u)' /\ MirrorOf(u)'
    BY <1>1, <1>6, <2>2, NoneAssumption DEF UpperOf, MirrorOf
  <2>4. \A v \in UDents : ~(ud'[v].st = "hashed" /\ ud'[v].name = ud[u].name)
    BY <1>2, <1>6, <1>7, <2>2 DEF LookingOf
  <2>5. ASSUME NEW x \in {"iget", "oops"}, th' = [th EXCEPT ![t].pc = x]
        PROVE  /\ th' \in [Threads -> CallType] /\ \A s \in Threads : s # t => th'[s] = th[s]
               /\ th'[t].pc = x /\ th'[t].op = "lookup" /\ th'[t].ino = th[t].ino
               /\ th'[t].ud = u /\ th'[t].ld = l /\ th'[t].old = th[t].old
    BY <1>3, <1>4, <1>5, <1>6, <2>5 DEF CallType, PCs
  <2>6. ASSUME NEW x \in {"iget", "oops"}, th' = [th EXCEPT ![t].pc = x]
        PROVE  CallOf(t)' /\ LookingOf(t)'
    <3>1. th[t].old = None /\ x # "copy"
      BY <1>2, <1>6 DEF CallOf
    <3>0. CallOf(t)'
      BY <1>1, <1>6, <2>2, <2>5, <2>6, <3>1 DEF CallOf, NameOf
    <3>2. LookingOf(t)'
      BY <1>1, <1>2, <1>3, <1>4, <1>6, <1>7, <2>2, <2>4, <2>5, <2>6 DEF LookingOf, NameOf
    <3> QED
      BY <3>0, <3>2
  <2>7. CASE th[t].ino = None
    <3>1. th' = [th EXCEPT ![t].pc = "oops"] /\ lref' = lref
      BY <1>4, <1>9, <2>7 DEF teadfs_lookup_interpose, Goto
    <3>2. /\ th' \in [Threads -> CallType] /\ \A s \in Threads : s # t => th'[s] = th[s]
          /\ th'[t].pc = "oops" /\ th'[t].op = "lookup" /\ th'[t].ud = u
      BY <2>5, <3>1
    <3>3. ASSUME NEW a \in Addrs PROVE GrabOf(a)'
      <4>1. Igets(a)' = Igets(a)
        BY <1>1, <3>2 DEF Igets
      <4> QED
        BY <1>1, <3>1, <4>1 DEF IInv, CountInv, GrabOf
    <3>4. OopsOf(t)'
      <4>1. NameOf(t) \in touched
        BY <1>2, <1>4, <1>9, <2>7 DEF InterposeOf
      <4> QED
        BY <1>1, <1>7, <2>2, <3>2, <4>1 DEF OopsOf, NameOf
    <3>5. ThreadOf(t)'
      <4>1. CallOf(t)' /\ LookingOf(t)'
        BY <2>6, <3>1
      <4> QED
        BY <3>2, <3>4, <4>1 DEF ThreadOf, IdleOf
    <3>6. ud'[u].st # "free" /\ lref' \in [Addrs -> Int] /\ th'[t].pc # "interpose"
          /\ th'[t].op \in {"lookup", "none"}
      BY <1>5, <1>6, <2>2, <3>1, <3>2
    <3> QED
      BY <1>1, <1>3, <1>4, <2>2, <2>3, <3>2, <3>3, <3>5, <3>6, InterposeEffect
  <2>8. CASE th[t].ino # None
    <3>1. th' = [th EXCEPT ![t].pc = "iget"] /\ lref' = igrab(th[t].ino)
      BY <1>4, <1>9, <2>8 DEF teadfs_lookup_interpose, Goto
    <3>2. /\ th' \in [Threads -> CallType] /\ \A s \in Threads : s # t => th'[s] = th[s]
          /\ th'[t].pc = "iget" /\ th'[t].op = "lookup" /\ th'[t].ud = u /\ th'[t].ld = l
          /\ th'[t].ino = th[t].ino
      BY <2>5, <3>1
    <3>3. PICK a \in Addrs : a = th[t].ino
      BY <1>5, <2>8 DEF CallType
    <3>4. th[t].pc # "iget" /\ th'[t].ino = a /\ lref' = igrab(a)
      BY <1>1, <3>1, <3>2, <3>3
    <3>5. lref' \in [Addrs -> Int] /\ \A b \in Addrs : GrabOf(b)'
      BY <1>1, <3>2, <3>4, GrabEffect
    <3>6. IgetOf(t)'
      <4>1. ld[l].ino = th[t].ino
        BY <1>2, <1>4, <2>8 DEF InterposeOf
      <4> QED
        BY <1>1, <1>6, <2>2, <3>2, <3>3, <4>1 DEF IgetOf
    <3>7. ThreadOf(t)'
      <4>1. CallOf(t)' /\ LookingOf(t)'
        BY <2>6, <3>1
      <4> QED
        BY <3>2, <3>6, <4>1 DEF ThreadOf, IdleOf
    <3>8. ud'[u].st # "free" /\ th'[t].pc # "interpose" /\ th'[t].op \in {"lookup", "none"}
      BY <1>6, <2>2, <3>2
    <3> QED
      BY <1>1, <1>3, <1>4, <2>2, <2>3, <3>2, <3>5, <3>7, <3>8, InterposeEffect
  <2> QED
    BY <2>7, <2>8
<1> QED
  BY <1>8, <1>9
-----------------------------------------------------------------------------
\* The start of a lookup

\* The VFS makes a dentry u for the name n.
NewDent(t, u, n) ==
    /\ ~Busy(t) /\ ~DirLocked(DirOf[n]) /\ Hashed(n) = {} /\ ud[u].st = "free"
    /\ ud' = [ud EXCEPT ![u] = [NoUDent EXCEPT !.st = "unhashed", !.name = n]]
    /\ UNCHANGED <<disk, lref, mnt, ui, lost, forgot, orphan, touched>>

\* ... which nobody knows yet.
LEMMA NewDentEffect ==
    ASSUME IInv, NEW t \in Threads, NEW u \in UDents, NEW n \in Names, NewDent(t, u, n)
    PROVE  /\ ud' \in [UDents -> UDentType] /\ \A v \in UDents : v # u => ud'[v] = ud[v]
           /\ ud'[u].info = None /\ ud'[u].name = n /\ ud'[u].st = "unhashed"
           /\ ud'[u].ino = None /\ ud[u].info = None /\ ud[u].ino = None
           /\ \A v \in UDents : ~(ud'[v].st = "hashed" /\ ud'[v].name = n)
           /\ OwnDent(t, u) /\ UpperOf(u)' /\ MirrorOf(u)'
           /\ (mnt = Cardinality(Mounted) + forgot)'
           /\ \A s \in Threads : s # t /\ InDir(s) => DirOf[NameOf(s)] # DirOf[n]
<1> DEFINE e == [NoUDent EXCEPT !.st = "unhashed", !.name = n]
<1>1. /\ ~Busy(t) /\ ~DirLocked(DirOf[n]) /\ Hashed(n) = {} /\ ud[u].st = "free"
      /\ ud' = [ud EXCEPT ![u] = e]
      /\ UNCHANGED <<disk, lref, mnt, ui, lost, forgot, orphan, touched>>
  BY DEF NewDent
<1>2. e \in UDentType /\ e.st = "unhashed" /\ e.name = n /\ e.ino = None /\ e.info = None
  BY DEF NoUDent, UDentType
<1> HIDE DEF e
<1>3. ud \in [UDents -> UDentType]
  BY Types DEF IInv
<1>4. /\ ud' \in [UDents -> UDentType] /\ ud'[u] = e
      /\ \A v \in UDents : v # u => ud'[v] = ud[v]
  BY <1>1, <1>2, <1>3
<1>5. UpperOf(u) /\ ud[u] = NoUDent
  BY <1>1 DEF IInv, UpperInv, UpperOf
<1>6. ud[u].info = None /\ ud[u].ino = None /\ u \notin orphan
  BY <1>5 DEF UpperOf, NoUDent
<1>7. \A v \in UDents : ~(ud'[v].st = "hashed" /\ ud'[v].name = n)
  BY <1>1, <1>2, <1>4 DEF Hashed
<1>8. OwnDent(t, u)
  <2>1. \A s \in Threads : Busy(s) => th[s].ud # u
    BY <1>1 DEF IInv, ThreadInv, ThreadOf, CallOf
  <2>2. \A s \in Threads : InDir(s) => th[s].ud # u
    BY <2>1 DEF InDir
  <2> QED
    BY <1>2, <1>4, <1>6, <2>1, <2>2 DEF OwnDent
<1>9. UpperOf(u)' /\ MirrorOf(u)'
  BY <1>1, <1>2, <1>4, <1>6 DEF UpperOf, MirrorOf
<1>10. (mnt = Cardinality(Mounted) + forgot)'
  <2>1. Mounted' = Mounted
    BY <1>2, <1>4, <1>6 DEF Mounted
  <2> QED
    BY <1>1, <2>1 DEF IInv, CountInv
<1>11. \A s \in Threads : s # t /\ InDir(s) => DirOf[NameOf(s)] # DirOf[n]
  BY <1>1 DEF DirLocked, InDir
<1> QED
  BY <1>2, <1>4, <1>6, <1>7, <1>8, <1>9, <1>10, <1>11

\* lookup_one_len fails.
LEMMA LookupErrorStep ==
    ASSUME IInv, NEW t \in Threads, NEW u \in UDents, NEW n \in Names, NewDent(t, u, n),
           UNCHANGED <<linode, ld, th>>
    PROVE  IInv'
<1>1. /\ \A v \in UDents : v # u => ud'[v] = ud[v]
      /\ ud'[u].info = None /\ ud[u].info = None /\ ud[u].ino = None
      /\ OwnDent(t, u) /\ UpperOf(u)' /\ MirrorOf(u)'
      /\ (mnt = Cardinality(Mounted) + forgot)'
  BY NewDentEffect
<1>2. UNCHANGED <<disk, lref, mnt, ui, lost, forgot, orphan, touched>> /\ ~Busy(t)
  BY DEF NewDent
<1>3. /\ ld \in [LDents -> LDentType] /\ lost \in [LDents -> Nat] /\ mnt \in Nat
      /\ forgot \in 0 .. MaxLost /\ linode \in [Addrs -> Files \cup {None}]
      /\ lref \in [Addrs -> Int] /\ th \in [Threads -> CallType]
  BY Types DEF IInv
<1>4. th[t] = Idle /\ ~InDir(t) /\ ~OnLink(t) /\ ~Changing(t) /\ (th'[t] = Idle => ThreadOf(t)')
  BY <1>2, IdleThread
<1>5. OwnRefs(t, u)
  <2>1. \A l \in LDents : Infos(l)' = Infos(l) /\ Holders(l)' = Holders(l)
    BY <1>1, NoneAssumption DEF Infos, Holders, Holds, Busy
  <2>2. \A s \in Threads : th[s].op = "link" => ud'[th[s].old].info = ud[th[s].old].info
    BY <1>1, OldDent
  <2>3. \A l \in LDents : Olds(l)' = Olds(l)
    BY <2>2 DEF Olds
  <2>4. \A a \in Addrs : Igets(a)' = Igets(a)
    BY DEF Igets
  <2>5. (\A l \in LDents : CountOf(l)') /\ \A a \in Addrs : GrabOf(a)'
    BY <1>2, <2>1, <2>3, <2>4 DEF IInv, CountInv, CountOf, GrabOf
  <2> QED
    BY <1>1, <1>2, <1>3, <2>5 DEF OwnRefs, Same
<1>6. OwnCall(t, u)
  <2>1. ~InDir(t)' /\ ~OnLink(t)'
    BY <1>4 DEF InDir, OnLink, Busy
  <2> QED
    BY <1>3, <1>4, <2>1 DEF OwnCall
<1>7. Inodes /\ LowerInv'
  BY <1>2, <1>3 DEF Inodes, IInv, LowerInv, LowerOf
<1> QED
  BY <1>1, <1>2, <1>4, <1>5, <1>6, <1>7, DentStep

\* The lower dentry l of name n is found or made, with a reference for the caller.
Found(t, l, n) ==
    /\ ld' \in [LDents -> LDentType]
    /\ \A k \in LDents : ld'[k].count = ld[k].count + (IF k = l THEN 1 ELSE 0)
    /\ \A k \in LDents : ld[k].st # "free" => Same(k)
    /\ ld'[l].st = "hashed" /\ ld'[l].name = n

\* The reference that a lookup has taken is counted.
LEMMA FoundCount ==
    ASSUME IInv, NEW t \in Threads, NEW u \in UDents, NEW n \in Names, NEW l \in LDents,
           NewDent(t, u, n), Found(t, l, n), NEW k \in LDents,
           \A s \in Threads : s # t => th'[s] = th[s],
           th'[t].pc = "interpose", th'[t].ld = l, th'[t].op = "lookup"
    PROVE  CountOf(k)'
<1>1. /\ \A v \in UDents : v # u => ud'[v] = ud[v]
      /\ ud'[u].info = None /\ ud[u].info = None /\ ud[u].ino = None
  BY NewDentEffect
<1>2. ~Busy(t) /\ lost' = lost
  BY DEF NewDent
<1>3. u \notin Infos(k)' /\ u \notin Infos(k)
  BY <1>1, NoneAssumption DEF Infos
<1>4. t \notin Holders(k) /\ t \notin Olds(k)
  BY <1>2, IdleThread
<1>5. (t \in Holders(k)' <=> k = l) /\ t \notin Olds(k)'
  BY DEF Holders, Holds, Olds
<1>6. \A s \in Threads : s # t => (s \in Olds(k)' <=> s \in Olds(k))
  <2>1. \A s \in Threads : s # t /\ th[s].op = "link" => ud'[th[s].old] = ud[th[s].old]
    BY <1>1, OldDent
  <2> QED
    BY <2>1 DEF Olds
<1>7. /\ ld'[k].count \in Int /\ ld[k].count \in Int /\ lost'[k] \in Int /\ lost[k] \in Int
      /\ lost'[k] = lost[k] /\ ld'[k].count = ld[k].count + (IF k = l THEN 1 ELSE 0)
  BY <1>2, Types DEF IInv, Found, LDentType
<1>8. ld'[k].count - ld[k].count
        = ((IF u \in Infos(k)' THEN 1 ELSE 0) - (IF u \in Infos(k) THEN 1 ELSE 0))
          + (lost'[k] - lost[k])
          + ((IF t \in Holders(k)' THEN 1 ELSE 0) - (IF t \in Holders(k) THEN 1 ELSE 0))
          + ((IF t \in Olds(k)' THEN 1 ELSE 0) - (IF t \in Olds(k) THEN 1 ELSE 0))
  BY <1>3, <1>4, <1>5, <1>7
<1>9. EntriesOK /\ CountInv /\ (\A s \in Threads : s # t => th'[s] = th[s])
      /\ \A v \in UDents : v # u => ud'[v].info = ud[v].info
  BY <1>1 DEF IInv
<1> QED
  BY <1>6, <1>7, <1>8, <1>9, CountFrame, Zenon

\* A lookup has its lower dentry.
LEMMA LookupFoundStep ==
    ASSUME IInv, NEW t \in Threads, NEW u \in UDents, NEW n \in Names, NEW l \in LDents,
           NewDent(t, u, n), Found(t, l, n), Inodes, LowerInv',
           th' = [th EXCEPT ![t] = Looking(u, l, ld'[l].ino)]
    PROVE  IInv'
<1>1. /\ ud'[u].info = None /\ ud'[u].name = n /\ ud'[u].st = "unhashed" /\ ud'[u].ino = None
      /\ \A v \in UDents : ~(ud'[v].st = "hashed" /\ ud'[v].name = n)
      /\ OwnDent(t, u) /\ UpperOf(u)' /\ MirrorOf(u)'
      /\ (mnt = Cardinality(Mounted) + forgot)'
      /\ \A s \in Threads : s # t /\ InDir(s) => DirOf[NameOf(s)] # DirOf[n]
  BY NewDentEffect
<1>2. UNCHANGED <<disk, lref, mnt, ui, lost, forgot, orphan, touched>> /\ ~Busy(t)
  BY DEF NewDent
<1>3. /\ lost \in [LDents -> Nat] /\ mnt \in Nat
      /\ forgot \in 0 .. MaxLost /\ th \in [Threads -> CallType] /\ ld' \in [LDents -> LDentType]
  BY Types DEF IInv, Found
<1>4. /\ ~InDir(t) /\ ~OnLink(t) /\ ~Changing(t) /\ th[t].pc = "idle"
  BY <1>2, IdleThread
<1> DEFINE e == Looking(u, l, ld'[l].ino)
<1>5. /\ e \in CallType /\ e.pc = "interpose" /\ e.op = "lookup" /\ e.ud = u /\ e.ld = l
      /\ e.ino = ld'[l].ino /\ e.old = None
  <2>1. ld'[l].ino \in Addrs \cup {None}
    BY <1>3 DEF LDentType
  <2> QED
    BY <2>1 DEF Looking, Idle, CallType, PCs, Ops
<1>6. th' = [th EXCEPT ![t] = e]
  OBVIOUS
<1> HIDE DEF e
<1>7. /\ th' \in [Threads -> CallType] /\ \A s \in Threads : s # t => th'[s] = th[s]
      /\ th'[t].pc = "interpose" /\ th'[t].op = "lookup" /\ th'[t].ud = u /\ th'[t].ld = l
      /\ th'[t].ino = ld'[l].ino /\ th'[t].old = None
  BY <1>3, <1>5, <1>6
<1>8. \A k \in LDents : CountOf(k)'
  BY <1>7, FoundCount
<1>9. OwnRefs(t, u)
  <2>1. ASSUME NEW a \in Addrs PROVE GrabOf(a)'
    <3>1. Igets(a)' = Igets(a)
      BY <1>4, <1>7 DEF Igets
    <3> QED
      BY <1>2, <3>1 DEF IInv, CountInv, GrabOf
  <2>2. \A v \in UDents : ud[v].info # None => Same(ud[v].info)
    BY DentRefs DEF Found
  <2>3. \A s \in Threads : InDir(s) => Same(th[s].ld)
    BY CallRefs, UsedDent DEF Found
  <2> QED
    BY <1>1, <1>2, <1>3, <1>8, <2>1, <2>2, <2>3 DEF OwnRefs
<1>10. NameOf(t)' = n
  BY <1>1, <1>7 DEF NameOf
<1>11. OwnCall(t, u)
  <2>1. ~OnLink(t)'
    BY <1>7 DEF OnLink, Linking
  <2> QED
    BY <1>1, <1>4, <1>7, <1>10, <2>1 DEF OwnCall
<1>12. ThreadOf(t)'
  <2>1. CallOf(t)'
    BY <1>1, <1>7, <1>10 DEF CallOf, Found
  <2>2. InterposeOf(t)'
    BY <1>1, <1>7 DEF InterposeOf
  <2>3. LookingOf(t)'
    BY <1>1, <1>7, <1>10 DEF LookingOf, Found
  <2> QED
    BY <1>7, <2>1, <2>2, <2>3 DEF ThreadOf, IdleOf
<1> QED
  BY <1>1, <1>2, <1>9, <1>11, <1>12, DentStep
\* The inode of a file is read into memory, unless it is there.
LEMMA PlaceEffect ==
    ASSUME IInv, NEW f \in Files, NEW a \in PlacesOf(f), linode' = [linode EXCEPT ![a] = f]
    PROVE  /\ a \in Addrs /\ linode'[a] = f /\ f # None /\ a # None
           /\ linode' \in [Addrs -> Files \cup {None}]
           /\ \A b \in Addrs : linode[b] # None => linode'[b] = linode[b]
           /\ \A b, c \in Addrs : linode'[b] = linode'[c] /\ linode'[b] # None => b = c
<1>1. linode \in [Addrs -> Files \cup {None}]
  BY Types DEF IInv
<1>2. /\ a \in Addrs /\ f # None /\ a # None
      /\ linode[a] = f \/ (linode[a] = None /\ \A b \in Addrs : linode[b] # f)
  BY NoneAssumption DEF PlacesOf
<1>3. /\ linode' \in [Addrs -> Files \cup {None}] /\ linode'[a] = f
      /\ \A b \in Addrs : b # a => linode'[b] = linode[b]
  BY <1>1, <1>2
<1>4. \A b, c \in Addrs : linode[b] = linode[c] /\ linode[b] # None => b = c
  BY DEF IInv, LowerInv
<1> QED
  BY <1>2, <1>3, <1>4

\* lookup_one_len finds the lower dentry in the cache.
LEMMA LookupCachedStep ==
    ASSUME IInv, NEW t \in Threads, NEW u \in UDents, NEW n \in Names, NEW l \in LDents,
           NewDent(t, u, n), ld[l].st = "hashed", ld[l].name = n, ld' = Dget(ld, l),
           th' = [th EXCEPT ![t] = Looking(u, l, ld[l].ino)], linode' = linode
    PROVE  IInv'
<1>1. /\ ld \in [LDents -> LDentType] /\ linode \in [Addrs -> Files \cup {None}]
      /\ lref \in [Addrs -> Int] /\ UNCHANGED <<disk, lref>>
  BY Types DEF IInv, NewDent
<1>2. /\ ld' \in [LDents -> LDentType] /\ \A k \in LDents : k # l => ld'[k] = ld[k]
      /\ ld'[l].count = ld[l].count + 1 /\ ld'[l].st = ld[l].st
      /\ ld'[l].name = ld[l].name /\ ld'[l].ino = ld[l].ino
  BY <1>1, DgetEffect
<1>3. \A k \in LDents : ld[k].count \in Nat
  BY <1>1 DEF LDentType
<1>4. \A k \in LDents : Same(k)
  BY <1>2 DEF Same
<1>5. Found(t, l, n)
  BY <1>2, <1>3, <1>4 DEF Found
<1>6. LowerInv'
  <2>1. \A k \in LDents : Counted(k)
    <3>1. Counted(l)
      BY <1>2, <1>3, <1>4 DEF Counted
    <3> QED
      BY <1>2, <3>1, Untouched
  <2> QED
    BY <1>1, <2>1, LowerCounted
<1>7. Inodes
  BY <1>1 DEF Inodes, IInv, LowerInv
<1> QED
  BY <1>2, <1>5, <1>6, <1>7, LookupFoundStep

\* lookup_one_len makes the lower dentry and reads the inode.
LEMMA LookupReadStep ==
    ASSUME IInv, NEW t \in Threads, NEW u \in UDents, NEW n \in Names, NEW l \in LDents,
           NewDent(t, u, n), \A k \in LDents : ~(ld[k].st = "hashed" /\ ld[k].name = n),
           ld[l].st = "free", NEW a \in IF disk[n] = None THEN {None} ELSE PlacesOf(disk[n]),
           ld' = [ld EXCEPT ![l] = [st |-> "hashed", name |-> n, ino |-> a, count |-> 1]],
           th' = [th EXCEPT ![t] = Looking(u, l, a)],
           linode' = IF a = None THEN linode ELSE [linode EXCEPT ![a] = disk[n]]
    PROVE  IInv'
<1>1. /\ ld \in [LDents -> LDentType] /\ linode \in [Addrs -> Files \cup {None}]
      /\ lref \in [Addrs -> Int] /\ disk \in [Names -> Files \cup {None}]
      /\ UNCHANGED <<disk, lref>>
  BY Types DEF IInv, NewDent
<1>2. /\ a \in Addrs \cup {None}
      /\ disk[n] = None <=> a = None
      /\ a # None => linode'[a] = disk[n]
      /\ linode' \in [Addrs -> Files \cup {None}]
      /\ \A b \in Addrs : linode[b] # None => linode'[b] = linode[b]
      /\ \A b, c \in Addrs : linode'[b] = linode'[c] /\ linode'[b] # None => b = c
  <2>1. CASE disk[n] = None
    BY <1>1, <2>1 DEF IInv, LowerInv
  <2>2. CASE disk[n] # None
    <3>1. disk[n] \in Files /\ a \in PlacesOf(disk[n])
      BY <1>1, <2>2
    <3>2. a # None
      BY <3>1, NoneAssumption DEF PlacesOf
    <3>3. linode' = [linode EXCEPT ![a] = disk[n]]
      BY <3>2
    <3> QED
      BY <2>2, <3>1, <3>2, <3>3, PlaceEffect
  <2> QED
    BY <2>1, <2>2
<1>3. /\ ld' \in [LDents -> LDentType] /\ \A k \in LDents : k # l => ld'[k] = ld[k]
      /\ ld'[l].count = 1 /\ ld'[l].st = "hashed" /\ ld'[l].name = n /\ ld'[l].ino = a
  BY <1>1, <1>2 DEF LDentType
<1>4. Found(t, l, n)
  <2>1. ld[l].count = 0 /\ \A k \in LDents : ld[k].count \in Nat
    BY <1>1 DEF LDentType, IInv, LowerInv, LowerOf, NoLDent
  <2>2. \A k \in LDents : ld[k].st # "free" => Same(k)
    BY <1>3 DEF Same
  <2> QED
    BY <1>3, <2>1, <2>2 DEF Found
<1>5. Inodes
  BY <1>1, <1>2 DEF Inodes
<1>6. LowerInv'
  <2>1. ASSUME NEW k \in LDents, k # l PROVE LowerOf(k)'
    <3>1. LowerOf(k) /\ ld'[k] = ld[k]
      BY <1>3, <2>1 DEF IInv, LowerInv
    <3>2. ld[k].ino # None => linode'[ld[k].ino] = linode[ld[k].ino]
      BY <1>1, <1>2, <3>1 DEF LowerOf, LDentType
    <3> QED
      BY <1>1, <3>1, <3>2 DEF LowerOf
  <2>2. LowerOf(l)'
    BY <1>1, <1>2, <1>3 DEF LowerOf
  <2>3. (\A j, k \in LDents : ld[j].st = "hashed" /\ ld[k].st = "hashed"
                              /\ ld[j].name = ld[k].name => j = k)'
    BY <1>3 DEF IInv, LowerInv
  <2> QED
    BY <1>2, <2>1, <2>2, <2>3 DEF LowerInv
<1> QED
  BY <1>3, <1>4, <1>5, <1>6, LookupFoundStep

\* teadfs_lookup.
LEMMA LookupStep ==
    ASSUME IInv, NEW t \in Threads, NEW u \in UDents, NEW n \in Names, teadfs_lookup(t, u, n)
    PROVE  IInv'
<1>1. NewDent(t, u, n) /\ lookup_one_len(t, u, n)
  BY DEF teadfs_lookup, NewDent, history
<1>2. CASE UNCHANGED <<linode, ld, th>>
  BY <1>1, <1>2, LookupErrorStep
<1>3. ASSUME NEW l \in LDents, ld[l].st = "hashed", ld[l].name = n, ld' = Dget(ld, l),
             th' = [th EXCEPT ![t] = Looking(u, l, ld[l].ino)], UNCHANGED linode
      PROVE  IInv'
  BY <1>1, <1>3, LookupCachedStep
<1>4. ASSUME NEW l \in LDents, \A k \in LDents : ~(ld[k].st = "hashed" /\ ld[k].name = n),
             ld[l].st = "free", NEW a \in IF disk[n] = None THEN {None} ELSE PlacesOf(disk[n]),
             ld' = [ld EXCEPT ![l] = [st |-> "hashed", name |-> n, ino |-> a, count |-> 1]],
             th' = [th EXCEPT ![t] = Looking(u, l, a)],
             linode' = IF a = None THEN linode ELSE [linode EXCEPT ![a] = disk[n]]
      PROVE  IInv'
  BY <1>1, <1>4, LookupReadStep
<1> QED
  BY <1>1, <1>2, <1>3, <1>4 DEF lookup_one_len
-----------------------------------------------------------------------------
\* The start of a directory operation

\* What op is about: the dentry u, and for link the dentry old.
Starts(op, u, old, a) ==
    /\ op \in Makers \cup Linking
    /\ op \in Makers => ud[u].ino = None /\ old = None /\ a = None
    /\ op = "remove" => ud[u].ino # None /\ old = None /\ a = ud[u].ino /\ ~InodeLocked(a)
    /\ op = "link" => /\ ud[u].ino = None /\ old \in UDents /\ ud[old].ino # None
                      /\ a = ud[old].ino /\ ~InodeLocked(a)

\* References that op takes to the lower dentry k.
Taken(op, u, old, k) ==
    (IF op \in Dgets /\ k = ud[u].info THEN 1 ELSE 0)
    + (IF op = "link" /\ k = ud[old].info THEN 1 ELSE 0)

\* Taking references changes counts only.
LEMMA TakeEffect ==
    ASSUME IInv, NEW op, NEW u \in UDents, NEW old, ud[u].info \in LDents,
           op = "link" => old \in UDents /\ ud[old].info \in LDents, ld' = Take(op, u, old)
    PROVE  /\ ld' \in [LDents -> LDentType]
           /\ \A k \in LDents : /\ ld'[k].count = ld[k].count + Taken(op, u, old, k)
                                /\ Same(k) /\ Counted(k)
<1>1. PICK p \in LDents : p = ud[u].info
  OBVIOUS
<1>2. ld \in [LDents -> LDentType] /\ \A k \in LDents : ld[k].count \in Nat
  BY Types DEF IInv, LDentType
<1>3. ld[p].st # "free"
  BY <1>1, DentRefs, NoneAssumption
<1>4. \A k \in LDents : ld[k].st # "free" => ld[k].count > 0
  BY DEF IInv, LowerInv, LowerOf
<1>5. CASE op = "link"
  <2>1. PICK q \in LDents : q = ud[old].info
    BY <1>5
  <2>2. ld[q].st # "free"
    BY <1>5, <2>1, DentRefs, NoneAssumption
  <2> DEFINE d == Dget(ld, q)
  <2>3. ld' = Dget(d, p)
    BY <1>1, <1>5, <2>1 DEF Take, teadfs_get_lower_path
  <2>4. /\ d \in [LDents -> LDentType] /\ \A k \in LDents : k # q => d[k] = ld[k]
        /\ d[q].count = ld[q].count + 1 /\ d[q].st = ld[q].st
        /\ d[q].name = ld[q].name /\ d[q].ino = ld[q].ino
    BY <1>2, DgetEffect
  <2> HIDE DEF d
  <2>5. /\ ld' \in [LDents -> LDentType] /\ \A k \in LDents : k # p => ld'[k] = d[k]
        /\ ld'[p].count = d[p].count + 1 /\ ld'[p].st = d[p].st
        /\ ld'[p].name = d[p].name /\ ld'[p].ino = d[p].ino
    BY <2>3, <2>4, DgetEffect
  <2>6. ASSUME NEW k \in LDents
        PROVE  /\ ld'[k].count = ld[k].count + Taken(op, u, old, k) /\ Same(k)
               /\ k # p /\ k # q => ld'[k] = ld[k]
    <3>1. Taken(op, u, old, k) = (IF k = p THEN 1 ELSE 0) + (IF k = q THEN 1 ELSE 0)
      BY <1>1, <1>5, <2>1 DEF Taken, Dgets
    <3>2. Same(k)
      BY <2>4, <2>5 DEF Same
    <3>3. ld[k].count \in Nat
      BY <1>2
    <3>4. d[k].count = ld[k].count + (IF k = q THEN 1 ELSE 0)
      BY <2>4, <3>3
    <3>5. ld'[k].count = d[k].count + (IF k = p THEN 1 ELSE 0)
      BY <2>5, <3>3, <3>4
    <3> QED
      BY <2>4, <2>5, <3>1, <3>2, <3>3, <3>4, <3>5
  <2>7. ASSUME NEW k \in LDents PROVE Counted(k)
    <3>1. CASE ld[k].st = "free"
      BY <1>3, <2>2, <2>6, <3>1 DEF Counted
    <3>2. CASE ld[k].st # "free"
      <4>1. ld[k].count \in Nat /\ ld[k].count > 0 /\ Taken(op, u, old, k) \in Nat
        BY <1>2, <1>4, <3>2 DEF Taken
      <4>2. ld'[k].count > 0
        BY <2>6, <4>1
      <4> QED
        BY <2>6, <3>2, <4>2 DEF Counted
    <3> QED
      BY <3>1, <3>2
  <2> QED
    BY <2>5, <2>6, <2>7
<1>6. CASE op # "link" /\ op \in Dgets
  <2>1. ld' = Dget(ld, p)
    BY <1>1, <1>6 DEF Take, teadfs_get_lower_path
  <2>2. /\ ld' \in [LDents -> LDentType] /\ \A k \in LDents : k # p => ld'[k] = ld[k]
        /\ ld'[p].count = ld[p].count + 1 /\ ld'[p].st = ld[p].st
        /\ ld'[p].name = ld[p].name /\ ld'[p].ino = ld[p].ino
    BY <1>2, <2>1, DgetEffect
  <2>3. \A k \in LDents : Taken(op, u, old, k) = IF k = p THEN 1 ELSE 0
    BY <1>1, <1>6 DEF Taken
  <2>4. Same(p) /\ Counted(p)
    BY <1>2, <1>3, <2>2 DEF Same, Counted
  <2> QED
    BY <1>2, <2>2, <2>3, <2>4, Untouched
<1>7. CASE op \notin Dgets
  <2>1. ld' = ld /\ \A k \in LDents : Taken(op, u, old, k) = 0
    BY <1>7 DEF Take, Taken, Dgets
  <2> QED
    BY <1>2, <2>1, Untouched
<1> QED
  BY <1>5, <1>6, <1>7

\* The references that an operation has taken are counted.
LEMMA BeginCount ==
    ASSUME IInv, NEW t \in Threads, NEW op, NEW u \in UDents, NEW old, NEW k \in LDents,
           ~Busy(t), UNCHANGED <<ud, lost>>, op # "lookup",
           ld'[k].count = ld[k].count + Taken(op, u, old, k),
           \A s \in Threads : s # t => th'[s] = th[s],
           th'[t].pc = "lower", th'[t].op = op, th'[t].ld = ud[u].info, th'[t].old = old
    PROVE  CountOf(k)'
<1>1. t \notin Holders(k) /\ t \notin Olds(k)
  BY IdleThread
<1>2. /\ t \in Holders(k)' <=> k = ud[u].info /\ op \in Dgets
      /\ t \in Olds(k)' <=> op = "link" /\ k = ud[old].info
  BY DEF Holders, Holds, Busy, Olds
<1>3. Infos(k)' = Infos(k) /\ \A s \in Threads : s # t => (s \in Olds(k)' <=> s \in Olds(k))
  BY DEF Infos, Olds
<1>4. ld[k].count \in Int /\ lost[k] \in Int /\ lost'[k] = lost[k]
  BY DEF IInv, EntriesOK
<1>5. Taken(op, u, old, k) = (IF t \in Holders(k)' THEN 1 ELSE 0)
                             + (IF t \in Olds(k)' THEN 1 ELSE 0)
  BY <1>2 DEF Taken
<1>6. ld'[k].count - ld[k].count
        = ((IF u \in Infos(k)' THEN 1 ELSE 0) - (IF u \in Infos(k) THEN 1 ELSE 0))
          + (lost'[k] - lost[k])
          + ((IF t \in Holders(k)' THEN 1 ELSE 0) - (IF t \in Holders(k) THEN 1 ELSE 0))
          + ((IF t \in Olds(k)' THEN 1 ELSE 0) - (IF t \in Olds(k) THEN 1 ELSE 0))
  BY <1>1, <1>3, <1>4, <1>5
<1>7. EntriesOK /\ CountInv /\ ld'[k].count \in Int /\ lost'[k] \in Int
      /\ \A v \in UDents : v # u => ud'[v].info = ud[v].info
  BY <1>4, <1>5 DEF IInv
<1> QED
  BY <1>3, <1>6, <1>7, CountFrame, Zenon

\* create, mknod, mkdir, symlink, link, unlink and rmdir start.
LEMMA BeginStep ==
    ASSUME IInv, NEW t \in Threads, NEW op, NEW u \in UDents, NEW old, NEW a,
           Starts(op, u, old, a), Begin(t, op, u, old, a)
    PROVE  IInv'
<1> USE DEF history, lower
<1>1. /\ ~Busy(t) /\ ud[u].st = "hashed" /\ ~DirLocked(DirOf[ud[u].name])
      /\ ld' = Take(op, u, old)
      /\ UNCHANGED <<disk, linode, lref, mnt, ud, ui, lost, forgot, orphan, touched>>
  BY DEF Begin
<1>2. PICK l \in LDents : l = ud[u].info
  BY <1>1 DEF IInv, UpperInv, UpperOf, EntriesOK
<1>3. op \in Makers \cup Linking /\ op # "getattr" /\ op # "lookup" /\ op \in Ops
  BY DEF Starts, Makers, Linking, Ops
<1>4. op = "link" => old \in UDents /\ ud[old].info \in LDents /\ ud[old].ino # None
  BY DEF Starts, IInv, UpperInv, UpperOf, EntriesOK
<1>5. old \in UDents \cup {None} /\ a \in Addrs \cup {None} /\ (op # "link" => old = None)
  BY DEF Starts, IInv, EntriesOK, Makers, Linking
<1>6. /\ ld' \in [LDents -> LDentType]
      /\ \A k \in LDents : /\ ld'[k].count = ld[k].count + Taken(op, u, old, k)
                           /\ Same(k) /\ Counted(k)
  BY <1>1, <1>2, <1>4, TakeEffect
<1>7. /\ lost \in [LDents -> Nat] /\ mnt \in Nat /\ forgot \in 0 .. MaxLost
      /\ th \in [Threads -> CallType] /\ ud \in [UDents -> UDentType]
      /\ linode \in [Addrs -> Files \cup {None}] /\ lref \in [Addrs -> Int]
  BY Types DEF IInv
<1> DEFINE e == [Idle EXCEPT !.pc = "lower", !.op = op, !.ud = u, !.old = old,
                             !.ld = l, !.ino = a]
<1>8. /\ e \in CallType /\ e.pc = "lower" /\ e.op = op /\ e.ud = u /\ e.old = old
      /\ e.ld = l /\ e.ino = a
  BY <1>3, <1>5 DEF Idle, CallType, PCs
<1>9. th' = [th EXCEPT ![t] = e]
  BY <1>2 DEF Begin, teadfs_get_lower_path
<1> HIDE DEF e
<1>10. /\ th' \in [Threads -> CallType] /\ \A s \in Threads : s # t => th'[s] = th[s]
       /\ th'[t].pc = "lower" /\ th'[t].op = op /\ th'[t].ud = u /\ th'[t].old = old
       /\ th'[t].ld = l /\ th'[t].ino = a
  BY <1>7, <1>8, <1>9
<1>11. ~InDir(t) /\ ~OnLink(t) /\ ~Changing(t) /\ th[t].pc = "idle"
  BY <1>1, IdleThread
<1>12. OwnDent(t, u)
  <2>1. \A s \in Threads : Busy(s) => ud[th[s].ud].st # "free"
    BY DEF IInv, ThreadInv, ThreadOf, CallOf
  <2> QED
    BY <1>1, <1>7, <2>1 DEF OwnDent
<1>13. OwnRefs(t, u)
  <2>1. \A k \in LDents : CountOf(k)'
    <3>1. th'[t].ld = ud[u].info
      BY <1>2, <1>10
    <3> SUFFICES ASSUME NEW k \in LDents PROVE CountOf(k)'
      OBVIOUS
    <3>2. ld'[k].count = ld[k].count + Taken(op, u, old, k)
      BY <1>6
    <3>3. UNCHANGED <<ud, lost>>
      BY <1>1
    <3> QED
      BY <1>1, <1>3, <1>10, <3>1, <3>2, <3>3, BeginCount, Zenon
  <2>2. Mounted' = Mounted
    BY <1>1 DEF Mounted
  <2>3. ASSUME NEW b \in Addrs PROVE GrabOf(b)'
    <3>1. Igets(b)' = Igets(b)
      BY <1>10, <1>11 DEF Igets
    <3> QED
      BY <1>1, <3>1 DEF IInv, CountInv, GrabOf
  <2>4. \A v \in UDents : ud[v].info # None => Same(ud[v].info)
    BY <1>6, DentRefs
  <2>5. \A s \in Threads : InDir(s) => Same(th[s].ld)
    BY <1>6, CallRefs
  <2>6. mnt' = Cardinality(Mounted)' + forgot'
    BY <1>1, <2>2 DEF IInv, CountInv
  <2> QED
    BY <1>1, <1>6, <1>7, <2>1, <2>3, <2>4, <2>5, <2>6 DEF OwnRefs
<1>14. NameOf(t)' = ud[u].name
  BY <1>1, <1>10 DEF NameOf
<1>15. OwnCall(t, u)
  <2>1. \A s \in Threads : s # t /\ InDir(s) /\ InDir(t)' => DirOf[NameOf(s)] # DirOf[NameOf(t)']
    BY <1>1, <1>14 DEF DirLocked, InDir
  <2>2. \A s \in Threads : s # t /\ OnLink(s) /\ OnLink(t)' => th[s].ino # th'[t].ino
    <3>1. OnLink(t)' => ~InodeLocked(a)
      BY <1>10 DEF OnLink, Starts, Linking
    <3> QED
      BY <1>10, <3>1 DEF OnLink, InodeLocked, Linking
  <2> QED
    BY <1>10, <1>11, <2>1, <2>2 DEF OwnCall
<1>16. Inodes /\ LowerInv'
  <2>1. LowerInv'
    BY <1>1, <1>6, LowerCounted
  <2> QED
    BY <1>1, <1>7, <2>1 DEF Inodes, IInv, LowerInv
<1>17. UpperOf(u)'
  <2>1. UpperOf(u)
    BY DEF IInv, UpperInv
  <2>2. Same(ud[u].info)
    BY <1>2, <1>6
  <2> QED
    BY <1>1, <2>1, <2>2 DEF UpperOf, Same
<1>18. MirrorOf(u)'
  <2>1. \A s \in Threads : Changing(s) /\ th[s].ud = u => Changing(s)' /\ th'[s].ud = u
    BY <1>10, <1>11 DEF Changing
  <2> QED
    BY <1>1, <2>1, MirrorFrame DEF IInv, MirrorInv
<1>19. ThreadOf(t)'
  <2>1. CallOf(t)'
    <3>1. ld'[l].name = ud[u].name
      BY <1>1, <1>2, <1>6, NoneAssumption DEF Same, IInv, UpperInv, UpperOf
    <3>2. op = "link" => a = ud[old].ino
      BY DEF Starts
    <3> QED
      BY <1>1, <1>2, <1>3, <1>4, <1>5, <1>10, <1>14, <3>1, <3>2 DEF CallOf
  <2>2. BelowOf(t)'
    BY <1>1, <1>3, <1>10 DEF BelowOf, Starts, Makers, Linking
  <2> QED
    BY <1>3, <1>10, <2>1, <2>2 DEF ThreadOf, IdleOf
<1> QED
  BY <1>1, <1>12, <1>13, <1>15, <1>16, <1>17, <1>18, <1>19, DentStep
-----------------------------------------------------------------------------
\* Another process changes the lower directory

\* What such a change may not do: other entries, references and inodes stay.
Elsewhere(n) ==
    /\ n \in Direct \ touched /\ ~LowerDirLocked(DirOf[n]) /\ touched' = touched \cup {n}
    /\ UNCHANGED <<lref, mnt, ud, ui, th, lost, forgot, orphan>>
    /\ disk' \in [Names -> Files \cup {None}] /\ \A m \in Names : m # n => disk'[m] = disk[m]
    /\ ld' \in [LDents -> LDentType]
    /\ \A k \in LDents : /\ ld'[k].count = ld[k].count /\ ld'[k].name = ld[k].name
                         /\ ~(ld[k].st = "hashed" /\ ld[k].name = n) => ld'[k] = ld[k]

\* A change of entry n is no more than that.
LEMMA DirectStep ==
    ASSUME IInv, NEW n \in Names, Elsewhere(n), Inodes, LowerInv',
           \A u \in UDents : UpperOf(u)', \A t \in Threads : ThreadOf(t)'
    PROVE  IInv'
<1>1. /\ n \in Direct /\ touched' = touched \cup {n}
      /\ UNCHANGED <<lref, mnt, ud, ui, th, lost, forgot, orphan>>
      /\ disk' \in [Names -> Files \cup {None}] /\ \A m \in Names : m # n => disk'[m] = disk[m]
      /\ ld' \in [LDents -> LDentType] /\ \A k \in LDents : ld'[k].count = ld[k].count
  BY DEF Elsewhere
<1>2. /\ linode' \in [Addrs -> Files \cup {None}]
      /\ \A b \in Addrs : linode[b] # None => linode'[b] = linode[b]
  BY DEF Inodes
<1>3. EntriesOK'
  BY <1>1, <1>2 DEF IInv, EntriesOK, LDentType
<1>4. CountInv'
  <2>1. \A k \in LDents : Infos(k)' = Infos(k) /\ Holders(k)' = Holders(k) /\ Olds(k)' = Olds(k)
    BY <1>1 DEF Infos, Holders, Holds, Busy, Olds
  <2>2. Mounted' = Mounted /\ \A a \in Addrs : Igets(a)' = Igets(a)
    BY <1>1 DEF Mounted, Igets
  <2> QED
    BY <1>1, <2>1, <2>2 DEF IInv, CountInv, CountOf, GrabOf
<1>5. \A b \in Addrs : ui[b].st = "live" => linode[b] # None /\ linode'[b] = linode[b]
  BY <1>2 DEF IInv, InodeInv, InodeOf
<1>6. InodeInv'
  BY <1>1, <1>5 DEF IInv, InodeInv, InodeOf
<1>7. UpperInv'
  BY <1>1 DEF IInv, UpperInv
<1>8. ThreadInv'
  BY <1>1 DEF IInv, ThreadInv, InDir, OnLink, Busy, NameOf
<1>9. MirrorInv'
  <2>1. ASSUME NEW u \in UDents PROVE MirrorOf(u)'
    <3>1. CASE ud[u].name = n
      BY <1>1, <3>1 DEF MirrorOf
    <3>2. CASE ud[u].name # n
      <4>1. ud[u].st = "hashed" => disk'[ud[u].name] = disk[ud[u].name]
        BY <1>1, <3>2 DEF IInv, UpperInv, UpperOf
      <4>2. ud[u].ino # None => linode'[ud[u].ino] = linode[ud[u].ino]
        BY <1>5 DEF IInv, UpperInv, UpperOf, EntriesOK
      <4>3. \A t \in Threads : Changing(t) /\ th[t].ud = u => Changing(t)' /\ th'[t].ud = u
        BY <1>1 DEF Changing
      <4> QED
        BY <1>1, <4>1, <4>2, <4>3, MirrorFrame DEF IInv, MirrorInv
    <3> QED
      BY <3>1, <3>2
  <2> QED
    BY <2>1 DEF MirrorInv
<1>10. NlinkInv'
  BY <1>1 DEF NlinkInv, NlinkOf
<1> QED
  BY <1>3, <1>4, <1>6, <1>7, <1>8, <1>9, <1>10 DEF IInv

\* Calls in the directory of n have not got as far as the lower directory.
LEMMA ElsewhereCalls ==
    ASSUME IInv, NEW n \in Names, Elsewhere(n), NEW t \in Threads
    PROVE  /\ th[t].pc = "unlinked" => NameOf(t) # n
           /\ th[t].pc = "iget" /\ th[t].op # "lookup" => NameOf(t) # n
           /\ InDir(t) => th[t].ld \in LDents /\ ld[th[t].ld].name = NameOf(t)
           /\ Busy(t)' <=> Busy(t)
           /\ NameOf(t)' = NameOf(t)
<1>1. ~LowerDirLocked(DirOf[n]) /\ UNCHANGED <<ud, th>>
  BY DEF Elsewhere
<1>2. th[t].pc = "unlinked" => th[t].op = "remove"
  BY DEF IInv, ThreadInv, ThreadOf, UnlinkedOf
<1> QED
  BY <1>1, <1>2, CallRefs DEF LowerDirLocked, Busy, NameOf

\* What no direct change touches of a call.
LEMMA ElsewhereThread ==
    ASSUME IInv, NEW n \in Names, Elsewhere(n), NEW t \in Threads,
           th[t].pc = "interpose" => InterposeOf(t)',
           Busy(t) /\ th[t].op = "lookup" => LookingOf(t)',
           th[t].pc = "iget" => IgetOf(t)'
    PROVE  ThreadOf(t)'
<1>1. /\ touched' = touched \cup {n} /\ UNCHANGED <<ud, ui, th, orphan>>
      /\ \A m \in Names : m # n => disk'[m] = disk[m]
      /\ \A k \in LDents : ld'[k].name = ld[k].name
  BY DEF Elsewhere
<1>2. ThreadOf(t)
  BY DEF IInv, ThreadInv
<1>3. (Busy(t)' <=> Busy(t)) /\ NameOf(t)' = NameOf(t) /\ (th[t].pc = "unlinked" => NameOf(t) # n)
      /\ (InDir(t) => NameOf(t) \in Names)
  BY ElsewhereCalls, CallRefs
<1>4. Busy(t) => CallOf(t)'
  BY <1>1, <1>2, <1>3 DEF ThreadOf, CallOf
<1>5. th[t].pc = "copy" => CopyOf(t)'
  BY <1>1, <1>2 DEF ThreadOf, CopyOf
<1>6. th[t].pc = "oops" => OopsOf(t)'
  BY <1>1, <1>2, <1>3 DEF ThreadOf, OopsOf
<1>7. th[t].pc = "lower" => BelowOf(t)'
  BY <1>1, <1>2 DEF ThreadOf, BelowOf
<1>8. th[t].pc = "unlinked" => UnlinkedOf(t)'
  <2>1. th[t].pc = "unlinked" => UnlinkedOf(t) /\ InDir(t)
    BY <1>2 DEF ThreadOf, UnlinkedOf, InDir, Busy
  <2> QED
    BY <1>1, <1>3, <2>1 DEF UnlinkedOf
<1>9. IdleOf(t)'
  BY <1>1, <1>2 DEF ThreadOf, IdleOf
<1> QED
  BY <1>1, <1>3, <1>4, <1>5, <1>6, <1>7, <1>8, <1>9 DEF ThreadOf

\* Another process removes the name n.
LEMMA DirectRemoveStep ==
    ASSUME IInv, NEW n \in Names, n \in Direct \ touched, ~LowerDirLocked(DirOf[n]),
           touched' = touched \cup {n}, disk[n] # None, disk' = [disk EXCEPT ![n] = None],
           ld' = [l \in LDents |-> IF ld[l].st = "hashed" /\ ld[l].name = n
                                   THEN [ld[l] EXCEPT !.st = "unhashed"] ELSE ld[l]],
           linode' = linode, UNCHANGED <<lref, mnt, ud, ui, th, lost, forgot, orphan>>
    PROVE  IInv'
<1>1. /\ disk \in [Names -> Files \cup {None}] /\ ld \in [LDents -> LDentType]
      /\ linode \in [Addrs -> Files \cup {None}] /\ lref \in [Addrs -> Int]
  BY Types DEF IInv
<1>2. /\ disk' \in [Names -> Files \cup {None}] /\ disk'[n] = None
      /\ \A m \in Names : m # n => disk'[m] = disk[m]
  BY <1>1
<1>3. /\ ld' \in [LDents -> LDentType]
      /\ \A k \in LDents : /\ ld'[k].count = ld[k].count /\ ld'[k].name = ld[k].name
                           /\ ld'[k].ino = ld[k].ino
                           /\ ~(ld[k].st = "hashed" /\ ld[k].name = n) => ld'[k] = ld[k]
                           /\ ld[k].st = "hashed" /\ ld[k].name = n => ld'[k].st = "unhashed"
  <2>1. ASSUME NEW k \in LDents
        PROVE  /\ ld'[k] \in LDentType
               /\ ld'[k].count = ld[k].count /\ ld'[k].name = ld[k].name
               /\ ld'[k].ino = ld[k].ino
               /\ ~(ld[k].st = "hashed" /\ ld[k].name = n) => ld'[k] = ld[k]
               /\ ld[k].st = "hashed" /\ ld[k].name = n => ld'[k].st = "unhashed"
    <3>1. ld[k] \in LDentType
      BY <1>1
    <3>2. ld'[k] = IF ld[k].st = "hashed" /\ ld[k].name = n
                   THEN [ld[k] EXCEPT !.st = "unhashed"] ELSE ld[k]
      OBVIOUS
    <3> QED
      BY <3>1, <3>2 DEF LDentType
  <2> QED
    BY <2>1
<1>4. Elsewhere(n)
  BY <1>2, <1>3 DEF Elsewhere
<1>5. Inodes
  BY <1>1 DEF Inodes, IInv, LowerInv
<1>6. LowerInv'
  <2>1. ASSUME NEW k \in LDents PROVE LowerOf(k)'
    <3>1. LowerOf(k)
      BY DEF IInv, LowerInv
    <3>2. CASE ld[k].st = "hashed" /\ ld[k].name = n
      BY <1>3, <3>1, <3>2 DEF LowerOf
    <3>3. CASE ~(ld[k].st = "hashed" /\ ld[k].name = n)
      BY <1>2, <1>3, <3>1, <3>3 DEF LowerOf
    <3> QED
      BY <3>2, <3>3
  <2>2. (\A j, k \in LDents : ld[j].st = "hashed" /\ ld[k].st = "hashed"
                              /\ ld[j].name = ld[k].name => j = k)'
    <3>1. \A k \in LDents : ld'[k].st = "hashed" => ld[k].st = "hashed" /\ ld'[k].name = ld[k].name
      BY <1>3
    <3> QED
      BY <3>1 DEF IInv, LowerInv
  <2> QED
    BY <2>1, <2>2 DEF IInv, LowerInv
<1>7. ASSUME NEW u \in UDents PROVE UpperOf(u)'
  <2>1. UpperOf(u) /\ (ud[u].info # None => ud[u].info \in LDents)
    BY DEF IInv, UpperInv, EntriesOK
  <2>2. CASE ud[u].name = n
    BY <1>2, <1>3, <2>1, <2>2 DEF UpperOf
  <2>3. CASE ud[u].name # n
    <3>1. ud[u].info # None => ld'[ud[u].info] = ld[ud[u].info]
      BY <1>3, <2>1, <2>3 DEF UpperOf
    <3>2. ud[u].st # "free" => disk'[ud[u].name] = disk[ud[u].name]
      BY <1>2, <2>1, <2>3 DEF UpperOf
    <3> QED
      BY <2>1, <3>1, <3>2 DEF UpperOf
  <2> QED
    BY <2>2, <2>3
<1>8. ASSUME NEW t \in Threads PROVE ThreadOf(t)'
  <2>1. ThreadOf(t)
    BY DEF IInv, ThreadInv
  <2>2. /\ th[t].pc = "iget" /\ th[t].op # "lookup" => NameOf(t) # n
        /\ InDir(t) => th[t].ld \in LDents /\ ld[th[t].ld].name = NameOf(t)
        /\ NameOf(t)' = NameOf(t)
    BY <1>4, ElsewhereCalls
  <2>3. InDir(t) => NameOf(t) \in Names
    BY CallRefs
  <2>4. ASSUME th[t].pc = "interpose" PROVE InterposeOf(t)'
    <3>1. InDir(t) /\ InterposeOf(t)
      BY <2>1, <2>4 DEF ThreadOf, InterposeOf, InDir, Busy
    <3> QED
      BY <1>3, <2>2, <3>1 DEF InterposeOf
  <2>5. ASSUME Busy(t), th[t].op = "lookup" PROVE LookingOf(t)'
    <3>1. InDir(t) /\ LookingOf(t)
      BY <2>1, <2>5 DEF ThreadOf, InDir
    <3>2. CASE NameOf(t) = n
      BY <1>2, <2>2, <3>1, <3>2 DEF LookingOf
    <3>3. CASE NameOf(t) # n
      <4>1. ld'[th[t].ld] = ld[th[t].ld] /\ disk'[NameOf(t)] = disk[NameOf(t)]
        BY <1>2, <1>3, <2>2, <2>3, <3>1, <3>3
      <4> QED
        BY <2>2, <3>1, <3>3, <4>1 DEF LookingOf
    <3> QED
      BY <3>2, <3>3
  <2>6. ASSUME th[t].pc = "iget" PROVE IgetOf(t)'
    <3>1. InDir(t) /\ IgetOf(t)
      BY <2>1, <2>6 DEF ThreadOf, IgetOf, InDir, Busy, Makers
    <3>2. ld'[th[t].ld].ino = ld[th[t].ld].ino
      BY <1>3, <2>2, <3>1
    <3>3. th[t].op # "lookup" => ld'[th[t].ld] = ld[th[t].ld]
      BY <1>3, <2>2, <2>6, <3>1
    <3> QED
      BY <3>1, <3>2, <3>3 DEF IgetOf
  <2> QED
    BY <1>4, <2>4, <2>5, <2>6, ElsewhereThread
<1> QED
  BY <1>4, <1>5, <1>6, <1>7, <1>8, DirectStep
\* Another process makes the name n.
LEMMA DirectMakeStep ==
    ASSUME IInv, NEW n \in Names, n \in Direct \ touched, ~LowerDirLocked(DirOf[n]),
           touched' = touched \cup {n}, disk[n] = None, NEW f \in Files,
           NEW a \in PlacesOf(f), disk' = [disk EXCEPT ![n] = f],
           linode' = [linode EXCEPT ![a] = f],
           ld' = [l \in LDents |-> IF ld[l].st = "hashed" /\ ld[l].name = n
                                   THEN [ld[l] EXCEPT !.ino = a] ELSE ld[l]],
           UNCHANGED <<lref, mnt, ud, ui, th, lost, forgot, orphan>>
    PROVE  IInv'
<1>1. /\ disk \in [Names -> Files \cup {None}] /\ ld \in [LDents -> LDentType]
      /\ linode \in [Addrs -> Files \cup {None}] /\ lref \in [Addrs -> Int]
  BY Types DEF IInv
<1>2. /\ disk' \in [Names -> Files \cup {None}] /\ disk'[n] = f
      /\ \A m \in Names : m # n => disk'[m] = disk[m]
  BY <1>1
<1>3. /\ a \in Addrs /\ linode'[a] = f /\ f # None /\ a # None
      /\ linode' \in [Addrs -> Files \cup {None}]
      /\ \A b \in Addrs : linode[b] # None => linode'[b] = linode[b]
      /\ \A b, c \in Addrs : linode'[b] = linode'[c] /\ linode'[b] # None => b = c
  BY PlaceEffect
<1>4. /\ ld' \in [LDents -> LDentType]
      /\ \A k \in LDents : /\ ld'[k].count = ld[k].count /\ ld'[k].name = ld[k].name
                           /\ ld'[k].st = ld[k].st
                           /\ ~(ld[k].st = "hashed" /\ ld[k].name = n) => ld'[k] = ld[k]
                           /\ ld[k].st = "hashed" /\ ld[k].name = n => ld'[k].ino = a
  <2>1. ASSUME NEW k \in LDents
        PROVE  /\ ld'[k] \in LDentType
               /\ ld'[k].count = ld[k].count /\ ld'[k].name = ld[k].name
               /\ ld'[k].st = ld[k].st
               /\ ~(ld[k].st = "hashed" /\ ld[k].name = n) => ld'[k] = ld[k]
               /\ ld[k].st = "hashed" /\ ld[k].name = n => ld'[k].ino = a
    <3>1. ld[k] \in LDentType
      BY <1>1
    <3>2. ld'[k] = IF ld[k].st = "hashed" /\ ld[k].name = n
                   THEN [ld[k] EXCEPT !.ino = a] ELSE ld[k]
      OBVIOUS
    <3> QED
      BY <1>3, <3>1, <3>2 DEF LDentType
  <2> QED
    BY <2>1
<1>5. Elsewhere(n)
  BY <1>2, <1>4 DEF Elsewhere
<1>6. Inodes
  BY <1>1, <1>3 DEF Inodes
<1>7. \A k \in LDents : ld[k].st = "hashed" /\ ld[k].name = n => ld[k].ino = None
  BY DEF IInv, LowerInv, LowerOf
<1>8. LowerInv'
  <2>1. ASSUME NEW k \in LDents PROVE LowerOf(k)'
    <3>1. LowerOf(k)
      BY DEF IInv, LowerInv
    <3>2. CASE ld[k].st = "hashed" /\ ld[k].name = n
      BY <1>2, <1>3, <1>4, <3>1, <3>2 DEF LowerOf
    <3>3. CASE ~(ld[k].st = "hashed" /\ ld[k].name = n)
      <4>1. ld[k].ino # None => linode'[ld[k].ino] = linode[ld[k].ino]
        BY <1>1, <1>3, <3>1 DEF LowerOf, LDentType
      <4> QED
        BY <1>2, <1>4, <3>1, <3>3, <4>1 DEF LowerOf
    <3> QED
      BY <3>2, <3>3
  <2>2. (\A j, k \in LDents : ld[j].st = "hashed" /\ ld[k].st = "hashed"
                              /\ ld[j].name = ld[k].name => j = k)'
    BY <1>4 DEF IInv, LowerInv
  <2> QED
    BY <1>3, <2>1, <2>2 DEF LowerInv
<1>9. ASSUME NEW u \in UDents, ud[u].name = n, ud[u].ino # None PROVE ud[u].st # "hashed"
  <2> SUFFICES ASSUME ud[u].st = "hashed" PROVE FALSE
    OBVIOUS
  <2>1. UpperOf(u) /\ ud[u].ino \in Addrs /\ u \notin orphan
    BY <1>9 DEF IInv, UpperInv, UpperOf, EntriesOK
  <2>2. linode[ud[u].ino] # None
    BY <1>9, <2>1 DEF UpperOf, IInv, InodeInv, InodeOf
  <2>3. ASSUME NEW t \in Threads, Changing(t) PROVE th[t].ud # u
    <3>1. CASE th[t].pc = "iget"
      BY <1>9, <3>1 DEF IInv, ThreadInv, ThreadOf, IgetOf
    <3>2. CASE th[t].pc = "unlinked"
      BY <1>5, <1>9, <3>2, ElsewhereCalls DEF NameOf
    <3> QED
      BY <2>3, <3>1, <3>2 DEF Changing
  <2> QED
    BY <1>9, <2>1, <2>2, <2>3 DEF IInv, MirrorInv, MirrorOf
<1>10. ASSUME NEW u \in UDents PROVE UpperOf(u)'
  <2>1. UpperOf(u) /\ (ud[u].info # None => ud[u].info \in LDents)
    BY DEF IInv, UpperInv, EntriesOK
  <2>2. ud[u].info # None /\ ld[ud[u].info].ino # None => ld'[ud[u].info] = ld[ud[u].info]
    BY <1>4, <1>7, <2>1
  <2>3. ud[u].st # "free" /\ ud[u].name # n => disk'[ud[u].name] = disk[ud[u].name]
    BY <1>2, <2>1 DEF UpperOf
  <2> QED
    BY <1>4, <1>9, <2>1, <2>2, <2>3 DEF UpperOf
<1>11. ASSUME NEW t \in Threads PROVE ThreadOf(t)'
  <2>1. ThreadOf(t)
    BY DEF IInv, ThreadInv
  <2>2. /\ InDir(t) => th[t].ld \in LDents /\ ld[th[t].ld].name = NameOf(t)
        /\ NameOf(t)' = NameOf(t)
    BY <1>5, ElsewhereCalls
  <2>3. InDir(t) => NameOf(t) \in Names
    BY CallRefs
  <2>4. ASSUME th[t].pc = "interpose" PROVE InterposeOf(t)'
    <3>1. InDir(t) /\ InterposeOf(t)
      BY <2>1, <2>4 DEF ThreadOf, InterposeOf, InDir, Busy
    <3>2. CASE ld[th[t].ld].st = "hashed" /\ NameOf(t) = n
      BY <1>7, <2>2, <3>1, <3>2 DEF InterposeOf
    <3>3. CASE ~(ld[th[t].ld].st = "hashed" /\ NameOf(t) = n)
      <4>1. ld'[th[t].ld] = ld[th[t].ld]
        BY <1>4, <2>2, <3>1, <3>3
      <4> QED
        BY <2>2, <3>1, <4>1 DEF InterposeOf
    <3> QED
      BY <3>2, <3>3
  <2>5. ASSUME Busy(t), th[t].op = "lookup" PROVE LookingOf(t)'
    <3>1. InDir(t) /\ LookingOf(t)
      BY <2>1, <2>5 DEF ThreadOf, InDir
    <3>2. CASE NameOf(t) = n
      BY <1>4, <2>2, <3>1, <3>2 DEF LookingOf
    <3>3. CASE NameOf(t) # n
      <4>1. ld'[th[t].ld] = ld[th[t].ld] /\ disk'[NameOf(t)] = disk[NameOf(t)]
        BY <1>2, <1>4, <2>2, <2>3, <3>1, <3>3
      <4> QED
        BY <2>2, <3>1, <3>3, <4>1 DEF LookingOf
    <3> QED
      BY <3>2, <3>3
  <2>6. ASSUME th[t].pc = "iget" PROVE IgetOf(t)'
    <3>1. InDir(t) /\ IgetOf(t)
      BY <2>1, <2>6 DEF ThreadOf, IgetOf, InDir, Busy, Makers
    <3>2. ld[th[t].ld].ino # None
      BY <3>1, NoneAssumption DEF IgetOf
    <3>3. ld'[th[t].ld] = ld[th[t].ld]
      BY <1>4, <1>7, <2>2, <3>1, <3>2
    <3> QED
      BY <3>1, <3>3 DEF IgetOf
  <2> QED
    BY <1>5, <2>4, <2>5, <2>6, ElsewhereThread
<1> QED
  BY <1>5, <1>6, <1>8, <1>10, <1>11, DirectStep

\* Another process changes the lower directory.
LEMMA ChangeDirectlyStep ==
    ASSUME IInv, NEW n \in Names, ChangeDirectly(n)
    PROVE  IInv'
<1>1. /\ n \in Direct \ touched /\ ~LowerDirLocked(DirOf[n]) /\ touched' = touched \cup {n}
      /\ UNCHANGED <<lref, mnt, ud, ui, th, lost, forgot, orphan>>
  BY DEF ChangeDirectly
<1>2. CASE disk[n] # None
  BY <1>1, <1>2, DirectRemoveStep DEF ChangeDirectly
<1>3. CASE disk[n] = None
  <2>1. PICK f \in NewFiles \cup {disk[m] : m \in Names \ {n}} :
           /\ f # None
           /\ \E a \in PlacesOf(f) :
                 /\ disk' = [disk EXCEPT ![n] = f]
                 /\ linode' = [linode EXCEPT ![a] = f]
                 /\ ld' = [l \in LDents |->
                             IF ld[l].st = "hashed" /\ ld[l].name = n
                             THEN [ld[l] EXCEPT !.ino = a] ELSE ld[l]]
    BY <1>3 DEF ChangeDirectly
  <2>2. f \in Files
    BY <2>1 DEF NewFiles, IInv, EntriesOK
  <2> QED
    BY <1>1, <1>3, <2>1, <2>2, DirectMakeStep
<1> QED
  BY <1>2, <1>3
-----------------------------------------------------------------------------
\* The invariant

\* At mount nothing is in memory.
LEMMA InitInv == Init => IInv
<1> SUFFICES ASSUME Init PROVE IInv
  OBVIOUS
<1>1. /\ disk = InitDisk /\ linode = [a \in Addrs |-> None] /\ lref = [a \in Addrs |-> 0]
      /\ ld = [l \in LDents |-> NoLDent] /\ mnt = 0 /\ ud = [u \in UDents |-> NoUDent]
      /\ ui = [a \in Addrs |-> NoInode] /\ th = [t \in Threads |-> Idle]
      /\ lost = [l \in LDents |-> 0] /\ forgot = 0 /\ orphan = {} /\ touched = {}
  BY DEF Init
<1>2. /\ NoLDent \in LDentType /\ NoUDent \in UDentType /\ NoInode \in InodeType
      /\ Idle \in CallType
  BY DEF NoLDent, LDentType, NoUDent, UDentType, NoInode, InodeType, Idle, CallType, PCs
<1>3. /\ Idle.pc = "idle" /\ Idle.op = "none" /\ NoLDent.st = "free" /\ NoLDent.count = 0
      /\ NoLDent.ino = None /\ NoUDent.st = "free" /\ NoUDent.info = None
      /\ NoUDent.ino = None /\ NoInode.st = "absent" /\ NoInode.file = None
  BY DEF Idle, NoLDent, NoUDent, NoInode
<1>4. EntriesOK
  BY <1>1, <1>2, DiskAssumption, DirectAssumption, Types
<1>5. CountInv
  <2>1. Cardinality({}) = 0
    BY FS_EmptySet
  <2>2. \A l \in LDents : Infos(l) = {} /\ Holders(l) = {} /\ Olds(l) = {}
    BY <1>1, <1>3, NoneAssumption DEF Infos, Holders, Holds, Busy, Olds, Dgets
  <2>3. Mounted = {} /\ \A a \in Addrs : Igets(a) = {}
    BY <1>1, <1>3 DEF Mounted, Igets
  <2>4. ASSUME NEW l \in LDents PROVE CountOf(l)
    <3>1. ld[l].count = 0 /\ lost[l] = 0
      BY <1>1, <1>3
    <3> QED
      BY <3>1, <2>1, <2>2 DEF CountOf
  <2>5. mnt = Cardinality(Mounted) + forgot
    BY <1>1, <2>1, <2>3
  <2>6. ASSUME NEW a \in Addrs PROVE GrabOf(a)
    <3>1. lref[a] = 0 /\ ui[a].st # "live"
      BY <1>1, <1>3
    <3> QED
      BY <3>1, <2>1, <2>3 DEF GrabOf
  <2> QED
    BY <2>4, <2>5, <2>6 DEF CountInv
<1>6. LowerInv
  BY <1>1, <1>3 DEF LowerInv, LowerOf
<1>7. InodeInv
  BY <1>1, <1>3 DEF InodeInv, InodeOf
<1>8. UpperInv
  BY <1>1, <1>3 DEF UpperInv, UpperOf
<1>9. ThreadInv
  BY <1>1, <1>3 DEF ThreadInv, ThreadOf, IdleOf, Busy, InDir, OnLink
<1>10. MirrorInv
  BY <1>1, <1>3 DEF MirrorInv, MirrorOf
<1>11. NlinkInv
  BY <1>1, <1>3 DEF NlinkInv, NlinkOf
<1> QED
  BY <1>4, <1>5, <1>6, <1>7, <1>8, <1>9, <1>10, <1>11 DEF IInv

\* Directory operations start from a dentry that the VFS has found.
LEMMA DirOpStep ==
    ASSUME IInv, NEW t \in Threads, DirOp(t)
    PROVE  IInv'
<1>1. ASSUME NEW u \in UDents, teadfs_create(t, u) PROVE IInv'
  <2>1. Starts("create", u, None, None)
    BY <1>1 DEF teadfs_create, Starts, Makers
  <2> QED
    BY <1>1, <2>1, BeginStep DEF teadfs_create, BeginFile
<1>2. ASSUME NEW u \in UDents, teadfs_mknod(t, u) \/ teadfs_mkdir(t, u) PROVE IInv'
  <2>1. Starts("node", u, None, None)
    BY <1>2 DEF teadfs_mknod, teadfs_mkdir, Starts, Makers
  <2> QED
    BY <1>2, <2>1, BeginStep DEF teadfs_mknod, teadfs_mkdir, BeginFile, BeginDir
<1>3. ASSUME NEW u \in UDents, teadfs_symlink(t, u) PROVE IInv'
  <2>1. Starts("symlink", u, None, None)
    BY <1>3 DEF teadfs_symlink, Starts, Makers
  <2> QED
    BY <1>3, <2>1, BeginStep DEF teadfs_symlink, BeginFile
<1>4. ASSUME NEW u \in UDents, teadfs_unlink(t, u) \/ teadfs_rmdir(t, u) PROVE IInv'
  <2>1. Starts("remove", u, None, ud[u].ino)
    BY <1>4 DEF teadfs_unlink, teadfs_rmdir, Starts, Makers, Linking
  <2> QED
    BY <1>4, <2>1, BeginStep DEF teadfs_unlink, teadfs_rmdir, BeginFile, BeginDir
<1>5. ASSUME NEW u \in UDents, NEW old \in UDents, teadfs_link(t, u, old) PROVE IInv'
  <2>1. Starts("link", u, old, ud[old].ino)
    BY <1>5 DEF teadfs_link, Starts, Makers, Linking
  <2> QED
    BY <1>5, <2>1, BeginStep DEF teadfs_link, BeginFile
<1> QED
  BY <1>1, <1>2, <1>3, <1>4, <1>5, MakeLowerStep, LinkLowerStep, RemoveLowerStep,
     UnlinkedStep, LowerFailsStep DEF DirOp

\* Every step keeps the invariant.
LEMMA InvariantStep == IInv /\ [Next]_vars => IInv'
<1> SUFFICES ASSUME IInv, [Next]_vars PROVE IInv'
  OBVIOUS
<1>1. ASSUME NEW t \in Threads, Lookup(t) PROVE IInv'
  BY <1>1, LookupStep, InterposeNoMemoryStep, InterposeStep DEF Lookup
<1>2. ASSUME NEW t \in Threads, GetInode(t) PROVE IInv'
  BY <1>2, GetInodeFoundStep, GetInodeNewStep, GetInodeFailsStep DEF GetInode
<1>3. ASSUME NEW t \in Threads, DirOp(t) PROVE IInv'
  BY <1>3, DirOpStep
<1>4. ASSUME NEW t \in Threads, Attr(t) PROVE IInv'
  BY <1>4, ReadAttrStep, RevalidateStep, CopyLockedStep, CopyAttrStep
     DEF Attr, teadfs_getattr, teadfs_setattr, teadfs_setxattr
<1>5. CASE Shrink
  BY <1>5, ReleaseStep, EvictStep, DestroyStep, LowerShrinkStep DEF Shrink
<1>6. ASSUME NEW n \in Names, ChangeDirectly(n) PROVE IInv'
  BY <1>6, ChangeDirectlyStep
<1>7. CASE UNCHANGED vars \/ \E d \in Dirs : ReadDirAttr(d) \/ CopyDirAttr(d)
  <2>1. UNCHANGED <<disk, linode, lref, ld, mnt, ud, ui, th, lost, forgot, orphan, touched>>
    BY <1>7 DEF vars, ReadDirAttr, CopyDirAttr, lower, history
  <2>2. EntriesOK' /\ LowerInv' /\ InodeInv' /\ UpperInv'
    BY <2>1 DEF IInv, EntriesOK, LowerInv, LowerOf, InodeInv, InodeOf, UpperInv, UpperOf
  <2>3. CountInv'
    BY <2>1 DEF IInv, CountInv, CountOf, GrabOf, Infos, Holders, Holds, Busy, Olds, Igets, Mounted
  <2>4. ThreadInv'
    <3>1. ASSUME NEW t \in Threads PROVE ThreadOf(t)'
      <4>1. ThreadOf(t) /\ (Busy(t) => ud[th[t].ud].st # "free")
            /\ (th[t].pc = "copy" => ui[th[t].ino].st = "live")
        BY DEF IInv, ThreadInv, ThreadOf, CallOf, CopyOf
      <4> QED
        BY <2>1, <4>1, ThreadFrame DEF Same
    <3> QED
      BY <2>1, <3>1 DEF IInv, ThreadInv, InDir, OnLink, Busy, NameOf
  <2>5. MirrorInv' /\ NlinkInv'
    BY <2>1 DEF IInv, MirrorInv, MirrorOf, NlinkInv, NlinkOf, Changing, OnLink, Busy, Nlink
  <2> QED
    BY <2>2, <2>3, <2>4, <2>5 DEF IInv
<1> QED
  BY <1>1, <1>2, <1>3, <1>4, <1>5, <1>6, <1>7 DEF Next
-----------------------------------------------------------------------------
\* The link counts of directories

DirCallInv == \A t \in dircall : th[t].op \in {"node", "remove"}

DirOk(d) ==
    \/ dnlink[d] \in {Subdirs(d), Stale}
    \/ \E t \in dircall : Changing(t) /\ DirOf[NameOf(t)] = d

DirInv == touched = {} => \A d \in Dirs \ behind : DirOk(d)

CountsInv == CountsOK /\ DirCallInv /\ DirInv

\* A number of subdirectories is a number.
LEMMA SubdirsType == ASSUME NEW d PROVE Subdirs(d) \in Nat
<1>1. IsFiniteSet({n \in Names : DirOf[n] = d /\ disk[n] \in DirFiles})
  BY FiniteAssumption, FS_Subset
<1> QED
  BY <1>1, FS_CardinalityType DEF Subdirs

\* A change of one entry changes at most the count of its directory, and that only if a
\* directory comes or goes.
LEMMA SubdirsSame ==
    ASSUME EntriesOK, NEW n \in Names, NEW x, disk' = [disk EXCEPT ![n] = x], NEW d,
           DirOf[n] # d \/ (x \in DirFiles <=> disk[n] \in DirFiles)
    PROVE  Subdirs(d)' = Subdirs(d)
<1>1. {m \in Names : DirOf[m] = d /\ disk'[m] \in DirFiles}
        = {m \in Names : DirOf[m] = d /\ disk[m] \in DirFiles}
  BY DEF EntriesOK
<1> QED
  BY <1>1 DEF Subdirs

\* A dentry that a call has a reference to keeps its name.
LEMMA NameKept ==
    ASSUME IInv, [Next]_vars, NEW t \in Threads, Busy(t)
    PROVE  ud'[th[t].ud].name = ud[th[t].ud].name
<1> DEFINE v == th[t].ud
<1>1. v \in UDents /\ ud[v].st # "free" /\ PinnedDent(v) /\ ud \in [UDents -> UDentType]
  BY Types DEF IInv, ThreadInv, ThreadOf, CallOf, PinnedDent
<1>2. \A s \in Threads : th[s].ud \in UDents \cup {None}
  BY DEF IInv, EntriesOK
<1> HIDE DEF v
<1>3. ASSUME NEW s \in Threads, Lookup(s) PROVE ud'[v].name = ud[v].name
  <2>1. ASSUME NEW u \in UDents, NEW n \in Names, teadfs_lookup(s, u, n)
        PROVE  ud'[v].name = ud[v].name
    BY <1>1, <2>1 DEF teadfs_lookup
  <2> QED
    BY <1>1, <1>2, <1>3, <2>1 DEF Lookup, InterposeNoMemory, teadfs_lookup_interpose, UDentType
<1>4. ASSUME NEW s \in Threads, GetInode(s) PROVE ud'[v].name = ud[v].name
  <2>1. ASSUME NEW inode, Attach(s, inode) PROVE ud'[v].name = ud[v].name
    BY <1>1, <1>2, <2>1 DEF Attach, UDentType
  <2>2. CASE GetInodeFound(s) \/ GetInodeNew(s)
    BY <2>1, <2>2 DEF GetInodeFound, GetInodeNew
  <2>3. CASE GetInodeFails(s)
    <3>1. \/ ud' = ud \/ ud' = Dropped(th[s].ud)
          \/ ud' = [ud EXCEPT ![th[s].ud].info = None]
      BY <2>3 DEF GetInodeFails, CreateUndo
    <3>2. CASE ud' = Dropped(th[s].ud)
      BY <1>1, <1>2, <3>2 DEF Dropped, UDentType
    <3>3. CASE ud' = [ud EXCEPT ![th[s].ud].info = None]
      BY <1>1, <1>2, <3>3 DEF UDentType
    <3> QED
      BY <3>1, <3>2, <3>3
  <2> QED
    BY <1>4, <2>2, <2>3 DEF GetInode
<1>5. ASSUME NEW s \in Threads, DirOp(s) PROVE ud'[v].name = ud[v].name
  <2>1. ASSUME NEW u, NEW op, NEW old, NEW a, Begin(s, op, u, old, a) PROVE ud' = ud
    BY <2>1 DEF Begin
  <2>2. ASSUME NEW u \in UDents,
               \/ teadfs_create(s, u) \/ teadfs_mknod(s, u) \/ teadfs_mkdir(s, u)
               \/ teadfs_symlink(s, u) \/ teadfs_unlink(s, u) \/ teadfs_rmdir(s, u)
               \/ \E old \in UDents : teadfs_link(s, u, old)
        PROVE  ud' = ud
    BY <2>1, <2>2 DEF teadfs_create, teadfs_mknod, teadfs_mkdir, teadfs_symlink, teadfs_unlink,
       teadfs_rmdir, teadfs_link, BeginFile, BeginDir
  <2>3. CASE MakeLower(s) \/ LinkLower(s) \/ RemoveLower(s)
    BY <2>3 DEF MakeLower, LinkLower, RemoveLower
  <2>4. CASE Unlinked(s) \/ LowerFails(s)
    <3>1. ud' = ud \/ ud' = Dropped(th[s].ud)
      BY <2>4 DEF Unlinked, LowerFails
    <3>2. CASE ud' = Dropped(th[s].ud)
      BY <1>1, <1>2, <3>2 DEF Dropped, UDentType
    <3> QED
      BY <3>1, <3>2
  <2> QED
    BY <1>5, <2>2, <2>3, <2>4 DEF DirOp
<1>6. ASSUME NEW s \in Threads, Attr(s) PROVE ud'[v].name = ud[v].name
  BY <1>1, <1>6 DEF Attr, teadfs_getattr, teadfs_d_revalidate, teadfs_setattr, teadfs_setxattr,
     ReadAttr, CopyLocked, CopyAttr, Dropped, UDentType
<1>7. CASE Shrink
  <2>1. ASSUME NEW u \in UDents, teadfs_d_release(u) PROVE ud'[v].name = ud[v].name
    <3>1. u # v /\ ud' = [ud EXCEPT ![u] = NoUDent]
      BY <1>1, <2>1 DEF teadfs_d_release
    <3> QED
      BY <1>1, <3>1
  <2>2. ASSUME NEW a \in Addrs,
               teadfs_evict_inode(a) \/ teadfs_destroy_inode(a) \/ LowerShrink(a)
        PROVE  ud'[v].name = ud[v].name
    <3>1. ud' = ud
      BY <2>2 DEF teadfs_evict_inode, teadfs_destroy_inode, LowerShrink
    <3> QED
      BY <3>1
  <2> QED
    BY <1>7, <2>1, <2>2 DEF Shrink, v
<1>8. CASE UNCHANGED ud
  BY <1>8
<1> QED
  BY <1>3, <1>4, <1>5, <1>6, <1>7, <1>8 DEF Next, ChangeDirectly, ReadDirAttr, CopyDirAttr, vars, v

\* A directory whose count and subdirectories stay, and whose mkdir or rmdir goes on if
\* there is one, is as right as it was.
LEMMA DirKept ==
    ASSUME IInv, CountsOK, [Next]_vars, NEW d \in Dirs, DirOk(d), dnlink'[d] = dnlink[d],
           Subdirs(d)' = Subdirs(d), NEW t,
           \A s \in Threads \ {t} : th'[s] = th[s] /\ (s \in dircall => s \in dircall'),
           ~(t \in dircall /\ Changing(t) /\ DirOf[NameOf(t)] = d)
    PROVE  DirOk(d)'
<1>1. CASE dnlink[d] \in {Subdirs(d), Stale}
  BY <1>1 DEF DirOk
<1>2. ASSUME NEW s \in dircall, Changing(s), DirOf[NameOf(s)] = d
      PROVE  DirOk(d)'
  <2>1. s \in Threads /\ Busy(s)
    BY <1>2 DEF CountsOK, Changing, Busy
  <2>2. th'[s] = th[s] /\ s \in dircall'
    BY <1>2, <2>1
  <2>3. NameOf(s)' = NameOf(s) /\ Changing(s)'
    BY <1>2, <2>1, <2>2, NameKept DEF NameOf, Changing
  <2> QED
    BY <1>2, <2>2, <2>3 DEF DirOk
<1> QED
  BY <1>1, <1>2 DEF DirOk

\* A step of t, or of nobody, that minds no more than the directories of D.
Call(t) ==
    /\ \A s \in Threads \ {t} : th'[s] = th[s]
    /\ dircall' \in {dircall, dircall \cup {t}, dircall \ {t}}
    /\ t \in dircall' => th'[t].op \in {"node", "remove"}
    /\ touched' = touched

LEMMA CallStep ==
    ASSUME IInv, CountsInv, [Next]_vars, NEW t, Call(t), NEW D, CountsOK',
           \A d \in Dirs \ D : /\ dnlink'[d] = dnlink[d] /\ Subdirs(d)' = Subdirs(d)
                               /\ d \in behind => d \in behind',
           t \in dircall /\ Changing(t) => DirOf[NameOf(t)] \in D,
           \A d \in (Dirs \cap D) \ behind' : DirOk(d)'
    PROVE  CountsInv'
<1>1. CountsOK /\ DirCallInv /\ DirInv
  BY DEF CountsInv
<1>2. \A s \in Threads \ {t} : th'[s] = th[s] /\ (s \in dircall <=> s \in dircall')
  BY DEF Call
<1>3. DirCallInv'
  BY <1>1, <1>2 DEF Call, DirCallInv, CountsOK
<1>4. ASSUME touched = {}, NEW d \in Dirs \ behind', d \notin D PROVE DirOk(d)'
  <2>1. d \in Dirs /\ d \notin behind /\ dnlink'[d] = dnlink[d] /\ Subdirs(d)' = Subdirs(d)
    BY <1>4
  <2>2. DirOk(d)
    BY <1>1, <1>4, <2>1 DEF DirInv
  <2>3. ~(t \in dircall /\ Changing(t) /\ DirOf[NameOf(t)] = d)
    BY <1>4
  <2> QED
    BY <1>1, <1>2, <2>1, <2>2, <2>3, DirKept
<1>5. DirInv'
  BY <1>4 DEF DirInv, Call
<1> QED
  BY <1>3, <1>5 DEF CountsInv

\* A step that changes no count and no number of subdirectories, by a call that was not
\* a mkdir or rmdir about to count.
LEMMA CallQuiet ==
    ASSUME IInv, CountsInv, [Next]_vars, NEW t \in Threads, Call(t), UNCHANGED counts,
           \A d \in Dirs : Subdirs(d)' = Subdirs(d), ~(t \in dircall /\ Changing(t))
    PROVE  CountsInv'
<1>1. CountsOK'
  BY DEF CountsInv, CountsOK, Call, counts
<1>2. \A d \in Dirs \ {} : /\ dnlink'[d] = dnlink[d] /\ Subdirs(d)' = Subdirs(d)
                           /\ d \in behind => d \in behind'
  BY DEF counts
<1> QED
  BY <1>1, <1>2, CallStep

\* A mkdir or rmdir works in a directory.
LEMMA OwnDir ==
    ASSUME IInv, CountsInv, NEW t \in dircall
    PROVE  t \in Threads /\ Busy(t) /\ NameOf(t) \in Names /\ DirOf[NameOf(t)] \in Dirs
<1>1. t \in Threads /\ th[t].op \in {"node", "remove"}
  BY DEF CountsInv, CountsOK, DirCallInv
<1>2. Busy(t)
  BY <1>1 DEF IInv, ThreadInv, ThreadOf, IdleOf, Idle, Busy
<1>3. NameOf(t) \in Names
  BY <1>1, <1>2 DEF IInv, ThreadInv, ThreadOf, CallOf, UpperInv, UpperOf, NameOf
<1> QED
  BY <1>1, <1>2, <1>3 DEF Dirs

\* set_nlink of the directory, or no mkdir or rmdir.
LEMMA CallCounts ==
    ASSUME IInv, CountsInv, [Next]_vars, NEW t \in Threads, Call(t), UNCHANGED disk, CountDir(t)
    PROVE  CountsInv'
<1>1. \A d : Subdirs(d)' = Subdirs(d)
  BY DEF Subdirs
<1>2. CASE t \notin dircall
  BY <1>1, <1>2, CallQuiet DEF CountDir, counts
<1>3. CASE t \in dircall
  <2>1. PICK e \in Dirs : e = DirOf[NameOf(t)]
    BY <1>3, OwnDir
  <2>2. /\ dnlink' = [dnlink EXCEPT ![e] = Subdirs(e)]
        /\ behind' = behind \ {e} /\ dseen' = dseen
    BY <1>3, <2>1 DEF CountDir
  <2>3. CountsOK /\ Subdirs(e) \in Nat
    BY SubdirsType DEF CountsInv
  <2>4. CountsOK'
    BY <2>1, <2>2, <2>3 DEF CountsOK, Call
  <2>5. dnlink'[e] = Subdirs(e)
    BY <2>1, <2>2, <2>3 DEF CountsOK
  <2>6. DirOk(e)'
    BY <1>1, <2>5 DEF DirOk
  <2>7. \A d \in Dirs \ {e} : /\ dnlink'[d] = dnlink[d] /\ Subdirs(d)' = Subdirs(d)
                              /\ d \in behind => d \in behind'
    BY <1>1, <2>2, <2>3 DEF CountsOK
  <2> QED
    BY <2>1, <2>4, <2>6, <2>7, CallStep
<1> QED
  BY <1>2, <1>3

\* A call that returns.
LEMMA CallReturns ==
    ASSUME IInv, NEW t \in Threads, Return(t), UNCHANGED touched
    PROVE  Call(t)
  BY DEF IInv, EntriesOK, Return, Call

\* A call that starts, or goes on, without a change of its kind.
LEMMA CallGoes ==
    ASSUME IInv, CountsInv, NEW t \in Threads, NEW r, th' = [th EXCEPT ![t] = r],
           t \in dircall => r.op = th[t].op, UNCHANGED <<dircall, touched>>
    PROVE  Call(t)
  BY DEF IInv, EntriesOK, CountsInv, DirCallInv, Call

LEMMA CountsLookup ==
    ASSUME IInv, CountsInv, [Next]_vars, NEW t \in Threads, Lookup(t)
    PROVE  CountsInv'
<1>1. th \in [Threads -> CallType]
  BY Types DEF IInv
<1>2. UNCHANGED <<disk, counts, touched>> /\ ~Changing(t)
  BY DEF Lookup, teadfs_lookup, InterposeNoMemory, teadfs_lookup_interpose, lower, history, dirs,
     Changing, Busy
<1>3. \A d \in Dirs : Subdirs(d)' = Subdirs(d)
  BY <1>2 DEF Subdirs
<1>4. ASSUME NEW u \in UDents, NEW n \in Names, teadfs_lookup(t, u, n) PROVE Call(t)
  <2>1. t \notin dircall /\ UNCHANGED dircall
    BY <1>4, OwnDir DEF teadfs_lookup, dirs
  <2>2. th' = th \/ \E r : th' = [th EXCEPT ![t] = r]
    BY <1>4 DEF teadfs_lookup, lookup_one_len
  <2>3. \A s \in Threads \ {t} : th'[s] = th[s]
    BY <1>1, <2>2
  <2> QED
    BY <1>2, <2>1, <2>3 DEF Call
<1>5. CASE InterposeNoMemory(t)
  <2>1. Call(t)
    BY <1>2, <1>5, CallReturns DEF InterposeNoMemory
  <2> QED
    BY <1>2, <1>3, <2>1, CallQuiet
<1>6. CASE teadfs_lookup_interpose(t)
  <2>1. ASSUME NEW l, Goto(t, l) PROVE Call(t)
    <3>1. th' = [th EXCEPT ![t] = [th[t] EXCEPT !.pc = l]] /\ UNCHANGED dircall
      BY <1>1, <2>1 DEF Goto
    <3>2. [th[t] EXCEPT !.pc = l].op = th[t].op
      BY <1>1 DEF CallType
    <3> QED
      BY <1>2, <3>1, <3>2, CallGoes
  <2>2. Return(t) \/ \E l : Goto(t, l)
    BY <1>6 DEF teadfs_lookup_interpose
  <2>3. Call(t)
    BY <1>2, <2>1, <2>2, CallReturns
  <2> QED
    BY <1>2, <1>3, <2>3, CallQuiet
<1> QED
  BY <1>2, <1>3, <1>4, <1>5, <1>6, CallQuiet DEF Lookup

LEMMA CountsGetInode ==
    ASSUME IInv, CountsInv, [Next]_vars, NEW t \in Threads, GetInode(t)
    PROVE  CountsInv'
<1>1. Return(t) /\ UNCHANGED touched
  BY DEF GetInode, GetInodeFound, GetInodeNew, GetInodeFails, Attach, history
<1>2. Call(t)
  BY <1>1, CallReturns
<1>3. CASE GetInodeFound(t) \/ GetInodeNew(t)
  <2>1. UNCHANGED disk /\ CountDir(t)
    BY <1>3 DEF GetInodeFound, GetInodeNew, Attach, lower
  <2> QED
    BY <1>2, <2>1, CallCounts
<1>4. CASE GetInodeFails(t)
  <2>1. UNCHANGED <<dnlink, dseen>> /\ th[t].pc = "iget"
    BY <1>4 DEF GetInodeFails
  <2>2. CASE th[t].op \in {"lookup", "create"}
    <3>1. t \notin dircall
      BY <2>2 DEF CountsInv, DirCallInv
    <3>2. UNCHANGED counts
      BY <1>4, <2>1, <2>2 DEF GetInodeFails, counts
    <3>3. disk' = disk \/ (disk' = [disk EXCEPT ![NameOf(t)] = None] /\ disk[NameOf(t)] \notin DirFiles)
      BY <1>4, <2>2 DEF GetInodeFails, CreateUndo
    <3>4. NameOf(t) \in Names /\ None \notin DirFiles /\ EntriesOK
      BY <2>1, NoneAssumption, DirFilesAssumption
      DEF IInv, ThreadInv, ThreadOf, CallOf, Busy, UpperInv, UpperOf, NameOf
    <3>5. \A d \in Dirs : Subdirs(d)' = Subdirs(d)
      <4>1. CASE disk' = disk
        BY <4>1 DEF Subdirs
      <4>2. CASE disk' = [disk EXCEPT ![NameOf(t)] = None] /\ disk[NameOf(t)] \notin DirFiles
        BY <3>4, <4>2, SubdirsSame
      <4> QED
        BY <3>3, <4>1, <4>2
    <3> QED
      BY <1>2, <3>1, <3>2, <3>5, CallQuiet
  <2>3. CASE th[t].op \in {"node", "symlink"}
    <3>1. /\ UNCHANGED disk
          /\ behind' = IF t \in dircall THEN behind \cup {DirOf[NameOf(t)]} ELSE behind
      BY <1>4, <2>3 DEF GetInodeFails
    <3>2. \A d \in Dirs : Subdirs(d)' = Subdirs(d)
      BY <3>1 DEF Subdirs
    <3>3. CASE t \notin dircall
      BY <1>2, <2>1, <3>1, <3>2, <3>3, CallQuiet DEF counts
    <3>4. CASE t \in dircall
      <4>1. PICK e \in Dirs : e = DirOf[NameOf(t)]
        BY <3>4, OwnDir
      <4>2. behind' = behind \cup {e}
        BY <3>1, <3>4, <4>1
      <4>3. CountsOK'
        BY <1>2, <2>1, <4>2 DEF CountsInv, CountsOK, Call
      <4>4. \A d \in Dirs \ {e} : /\ dnlink'[d] = dnlink[d] /\ Subdirs(d)' = Subdirs(d)
                                  /\ d \in behind => d \in behind'
        BY <2>1, <3>2, <4>2
      <4>5. \A d \in (Dirs \cap {e}) \ behind' : DirOk(d)'
        BY <4>2
      <4> QED
        BY <1>2, <4>1, <4>3, <4>4, <4>5, CallStep
    <3> QED
      BY <3>3, <3>4
  <2> QED
    BY <1>4, <2>2, <2>3 DEF GetInodeFails
<1> QED
  BY <1>3, <1>4 DEF GetInode

\* A call that starts.
LEMMA CountsBegin ==
    ASSUME IInv, CountsInv, [Next]_vars, NEW t \in Threads,
           NEW op, NEW u, NEW old, NEW a, Begin(t, op, u, old, a),
           \/ UNCHANGED dircall
           \/ dircall' = dircall \cup {t} /\ op \in {"node", "remove"}
    PROVE  CountsInv'
<1>1. th \in [Threads -> CallType] /\ t \notin dircall
  BY Types, OwnDir DEF IInv, Begin
<1>2. UNCHANGED <<disk, counts, touched>>
  BY DEF Begin, lower, history
<1>3. PICK r : th' = [th EXCEPT ![t] = r] /\ r.op = op
  <2> DEFINE r == [Idle EXCEPT !.pc = "lower", !.op = op, !.ud = u, !.old = old,
                               !.ld = teadfs_get_lower_path(u), !.ino = a]
  <2>1. th' = [th EXCEPT ![t] = r]
    BY DEF Begin
  <2>2. r.op = op
    BY DEF Idle
  <2> QED
    BY <2>1, <2>2
<1>4. th'[t].op = op /\ \A s \in Threads \ {t} : th'[s] = th[s]
  BY <1>1, <1>3
<1>5. Call(t)
  BY <1>1, <1>2, <1>4 DEF Call
<1>6. \A d \in Dirs : Subdirs(d)' = Subdirs(d)
  BY <1>2 DEF Subdirs
<1> QED
  BY <1>1, <1>2, <1>5, <1>6, CallQuiet

\* The lower operation of a call: that of mkdir and rmdir comes before they count.
LEMMA CountsLower ==
    ASSUME IInv, CountsInv, [Next]_vars, NEW t \in Threads, th[t].pc = "lower",
           NEW x, disk' = [disk EXCEPT ![NameOf(t)] = x],
           t \notin dircall => (x \in DirFiles <=> disk[NameOf(t)] \in DirFiles),
           NEW r, th' = [th EXCEPT ![t] = r], r.op = th[t].op, r.ud = th[t].ud,
           r.pc \in {"iget", "unlinked"}, UNCHANGED <<ud, dirs, touched>>
    PROVE  CountsInv'
<1>1. th \in [Threads -> CallType] /\ NameOf(t) \in Names /\ EntriesOK
  BY Types DEF IInv, ThreadInv, ThreadOf, CallOf, Busy, UpperInv, UpperOf, NameOf
<1>2. UNCHANGED <<dircall, dnlink, dseen, behind, counts>>
  BY DEF dirs, counts
<1>3. Call(t)
  BY <1>2, CallGoes
<1>4. CASE t \notin dircall
  <2>1. \A d \in Dirs : Subdirs(d)' = Subdirs(d)
    BY <1>1, <1>4, SubdirsSame
  <2> QED
    BY <1>2, <1>3, <1>4, <2>1, CallQuiet
<1>5. CASE t \in dircall
  <2>1. PICK e \in Dirs : e = DirOf[NameOf(t)]
    BY <1>5, OwnDir
  <2>2. CountsOK'
    BY <1>2 DEF CountsInv, CountsOK
  <2>3. \A d \in Dirs \ {e} : /\ dnlink'[d] = dnlink[d] /\ Subdirs(d)' = Subdirs(d)
                              /\ d \in behind => d \in behind'
    BY <1>1, <1>2, <2>1, SubdirsSame
  <2>4. t \in dircall' /\ Changing(t)' /\ DirOf[NameOf(t)'] = e
    BY <1>1, <1>2, <1>5, <2>1 DEF Changing, NameOf
  <2>5. DirOk(e)'
    BY <2>4 DEF DirOk
  <2> QED
    BY <1>3, <2>1, <2>2, <2>3, <2>5, CallStep
<1> QED
  BY <1>4, <1>5

LEMMA CountsDirOp ==
    ASSUME IInv, CountsInv, [Next]_vars, NEW t \in Threads, DirOp(t)
    PROVE  CountsInv'
<1>1. th \in [Threads -> CallType] /\ None \notin DirFiles
  BY Types, NoneAssumption, DirFilesAssumption DEF IInv
<1>2. ASSUME NEW u \in UDents,
             \/ teadfs_create(t, u) \/ teadfs_mknod(t, u) \/ teadfs_mkdir(t, u)
             \/ teadfs_symlink(t, u) \/ teadfs_unlink(t, u) \/ teadfs_rmdir(t, u)
             \/ \E old \in UDents : teadfs_link(t, u, old)
      PROVE  CountsInv'
  BY <1>2, CountsBegin DEF teadfs_create, teadfs_mknod, teadfs_mkdir, teadfs_symlink, teadfs_unlink,
     teadfs_rmdir, teadfs_link, BeginFile, BeginDir
<1>3. ASSUME NEW a PROVE LET r == [th[t] EXCEPT !.pc = "iget", !.ino = a]
                         IN  r.op = th[t].op /\ r.ud = th[t].ud /\ r.pc = "iget"
  BY <1>1 DEF CallType
<1>4. CASE MakeLower(t)
  <2>1. PICK f \in NewFiles, a \in Addrs :
           /\ f \in DirFiles <=> t \in dircall
           /\ disk' = [disk EXCEPT ![NameOf(t)] = f]
           /\ th' = [th EXCEPT ![t].pc = "iget", ![t].ino = a]
    BY <1>4 DEF MakeLower
  <2>2. th' = [th EXCEPT ![t] = [th[t] EXCEPT !.pc = "iget", !.ino = a]]
    BY <1>1, <2>1
  <2>3. disk[NameOf(t)] = None /\ th[t].pc = "lower" /\ UNCHANGED <<ud, dirs, touched>>
    BY <1>4 DEF MakeLower, history
  <2> QED
    BY <1>1, <1>3, <2>1, <2>2, <2>3, CountsLower
<1>5. CASE LinkLower(t)
  <2> DEFINE a == ld[teadfs_get_lower_path(th[t].old)].ino
  <2>1. /\ linode[a] \notin DirFiles
        /\ disk' = [disk EXCEPT ![NameOf(t)] = linode[a]]
        /\ th' = [th EXCEPT ![t].pc = "iget", ![t].ino = a]
    BY <1>5 DEF LinkLower
  <2> HIDE DEF a
  <2>2. th' = [th EXCEPT ![t] = [th[t] EXCEPT !.pc = "iget", !.ino = a]]
    BY <1>1, <2>1
  <2>3. disk[NameOf(t)] = None /\ th[t].pc = "lower" /\ UNCHANGED <<ud, dirs, touched>>
    BY <1>5 DEF LinkLower, history
  <2> QED
    BY <1>1, <1>3, <2>1, <2>2, <2>3, CountsLower
<1>6. CASE RemoveLower(t)
  <2> DEFINE r == [th[t] EXCEPT !.pc = "unlinked"]
  <2>1. th' = [th EXCEPT ![t] = r] /\ disk' = [disk EXCEPT ![NameOf(t)] = None]
    BY <1>1, <1>6 DEF RemoveLower, Goto
  <2>2. r.op = th[t].op /\ r.ud = th[t].ud /\ r.pc = "unlinked"
    BY <1>1 DEF CallType
  <2> HIDE DEF r
  <2>3. /\ t \notin dircall => disk[NameOf(t)] \notin DirFiles
        /\ th[t].pc = "lower" /\ UNCHANGED <<ud, dirs, touched>>
    BY <1>6 DEF RemoveLower, Goto, history, dirs
  <2> QED
    BY <1>1, <2>1, <2>2, <2>3, CountsLower
<1>7. CASE Unlinked(t) \/ LowerFails(t)
  <2>1. Return(t) /\ UNCHANGED <<disk, touched>>
    BY <1>7 DEF Unlinked, LowerFails, lower, history
  <2>2. CountDir(t) \/ (UNCHANGED counts /\ th[t].pc = "lower")
    BY <1>7 DEF Unlinked, LowerFails
  <2>3. Call(t)
    BY <2>1, CallReturns
  <2>4. \A d \in Dirs : Subdirs(d)' = Subdirs(d)
    BY <2>1 DEF Subdirs
  <2>5. CASE CountDir(t)
    BY <2>1, <2>3, <2>5, CallCounts
  <2>6. CASE UNCHANGED counts /\ th[t].pc = "lower"
    BY <2>3, <2>4, <2>6, CallQuiet DEF Changing
  <2> QED
    BY <2>2, <2>5, <2>6
<1> QED
  BY <1>2, <1>4, <1>5, <1>6, <1>7 DEF DirOp

\* Nothing changes that the counts of directories depend on.
LEMMA CountsIdle ==
    ASSUME IInv, CountsInv, [Next]_vars, UNCHANGED <<disk, th, dirs, touched>>
    PROVE  CountsInv'
<1>1. UNCHANGED <<dircall, dnlink, dseen, behind>>
  BY DEF dirs, counts
<1>2. Call(None) /\ None \notin dircall
  BY <1>1, NoneAssumption DEF Call, CountsInv, CountsOK
<1>3. CountsOK'
  BY <1>1 DEF CountsInv, CountsOK
<1>4. \A d \in Dirs \ {} : /\ dnlink'[d] = dnlink[d] /\ Subdirs(d)' = Subdirs(d)
                           /\ d \in behind => d \in behind'
  BY <1>1 DEF Subdirs
<1> QED
  BY <1>2, <1>3, <1>4, CallStep

LEMMA CountsAttr ==
    ASSUME IInv, CountsInv, [Next]_vars, NEW t \in Threads, Attr(t)
    PROVE  CountsInv'
<1>1. UNCHANGED <<disk, counts, touched>>
  BY DEF Attr, teadfs_getattr, teadfs_d_revalidate, teadfs_setattr, teadfs_setxattr, ReadAttr,
     CopyLocked, CopyAttr, lower, history, dirs
<1>2. \A d \in Dirs : Subdirs(d)' = Subdirs(d)
  BY <1>1 DEF Subdirs
<1>3. ASSUME NEW u \in UDents, ReadAttr(t, u) PROVE CountsInv'
  <2>1. t \notin dircall /\ UNCHANGED dircall
    BY <1>3, OwnDir DEF ReadAttr, dirs
  <2>2. PICK r : th' = [th EXCEPT ![t] = r]
    BY <1>3 DEF ReadAttr
  <2>3. Call(t)
    BY <1>1, <2>1, <2>2, CallGoes
  <2> QED
    BY <1>1, <1>2, <2>1, <2>3, CallQuiet
<1>4. CASE CopyAttr(t)
  <2>1. Call(t) /\ ~Changing(t)
    BY <1>1, <1>4, CallReturns DEF CopyAttr, Changing
  <2> QED
    BY <1>1, <1>2, <2>1, CallQuiet
<1>5. CASE UNCHANGED <<th, dirs>>
  BY <1>1, <1>5, CountsIdle
<1> QED
  BY <1>3, <1>4, <1>5 DEF Attr, teadfs_getattr, teadfs_d_revalidate, teadfs_setattr,
     teadfs_setxattr, CopyLocked

\* The copies of the attributes of a directory itself.
LEMMA CountsCopy ==
    ASSUME IInv, CountsInv, [Next]_vars, NEW e \in Dirs, ReadDirAttr(e) \/ CopyDirAttr(e)
    PROVE  CountsInv'
<1>1. UNCHANGED <<disk, th, dircall, touched>> /\ behind' \in {behind, behind \ {e}}
  BY DEF ReadDirAttr, CopyDirAttr, lower, history
<1>2. Call(None) /\ None \notin dircall
  BY <1>1, NoneAssumption DEF Call, CountsInv, CountsOK
<1>3. CountsOK /\ Subdirs(e) \in Nat /\ \A d : Subdirs(d)' = Subdirs(d)
  BY <1>1, SubdirsType DEF CountsInv, Subdirs
<1>4. CASE ReadDirAttr(e)
  <2>1. UNCHANGED <<dnlink, behind>> /\ dseen' = [dseen EXCEPT ![e] = Subdirs(e)]
    BY <1>4 DEF ReadDirAttr
  <2>2. CountsOK'
    BY <1>1, <1>3, <2>1 DEF CountsOK
  <2>3. \A d \in Dirs \ {} : /\ dnlink'[d] = dnlink[d] /\ Subdirs(d)' = Subdirs(d)
                             /\ d \in behind => d \in behind'
    BY <1>3, <2>1
  <2> QED
    BY <1>2, <2>2, <2>3, CallStep
<1>5. CASE CopyDirAttr(e)
  <2>1. PICK k \in {Subdirs(e), Stale} : dnlink' = [dnlink EXCEPT ![e] = k]
    BY <1>5 DEF CopyDirAttr
  <2>2. dseen' = dseen \/ dseen' = [dseen EXCEPT ![e] = None]
    BY <1>5 DEF CopyDirAttr
  <2>3. CountsOK'
    BY <1>1, <1>3, <2>1, <2>2 DEF CountsOK
  <2>4. dnlink'[e] = k /\ \A d \in Dirs \ {e} : dnlink'[d] = dnlink[d]
    BY <1>3, <2>1 DEF CountsOK
  <2>5. DirOk(e)'
    BY <1>3, <2>1, <2>4 DEF DirOk
  <2>6. \A d \in Dirs \ {e} : /\ dnlink'[d] = dnlink[d] /\ Subdirs(d)' = Subdirs(d)
                              /\ d \in behind => d \in behind'
    BY <1>1, <1>3, <2>4
  <2>7. \A d \in (Dirs \cap {e}) \ behind' : DirOk(d)'
    BY <2>5
  <2>8. None \in dircall /\ Changing(None) => DirOf[NameOf(None)] \in {e}
    BY <1>2
  <2> QED
    BY <1>2, <2>3, <2>6, <2>7, <2>8, CallStep
<1> QED
  BY <1>4, <1>5

\* Every step keeps what is known of the directories' counts.
LEMMA CountsStep == IInv /\ CountsInv /\ [Next]_vars => CountsInv'
<1> SUFFICES ASSUME IInv, CountsInv, [Next]_vars PROVE CountsInv'
  OBVIOUS
<1>1. CASE Shrink
  <2>1. UNCHANGED <<disk, th, dircall, dnlink, dseen, behind, touched>>
    BY <1>1 DEF Shrink, teadfs_d_release, teadfs_evict_inode, teadfs_destroy_inode, LowerShrink,
       lower, history, dirs, counts
  <2> QED
    BY <2>1, CountsIdle DEF dirs, counts
<1>2. ASSUME NEW n \in Names, ChangeDirectly(n) PROVE CountsInv'
  <2>1. UNCHANGED <<th, dircall, dnlink, dseen, behind>> /\ touched' # {}
    BY <1>2 DEF ChangeDirectly, dirs, counts
  <2> QED
    BY <2>1 DEF CountsInv, CountsOK, DirCallInv, DirInv
<1>3. CASE UNCHANGED vars
  BY <1>3, CountsIdle DEF vars, dirs, counts
<1> QED
  BY <1>1, <1>2, <1>3, CountsLookup, CountsGetInode, CountsDirOp, CountsAttr, CountsCopy DEF Next

\* At mount the counts of directories are right.
LEMMA InitCounts == Init => CountsInv
<1> SUFFICES ASSUME Init PROVE CountsInv
  OBVIOUS
<1>1. dircall = {} /\ behind = {} /\ dnlink = [d \in Dirs |-> Subdirs(d)]
      /\ dseen = [d \in Dirs |-> None]
  BY DEF Init
<1>2. CountsOK
  BY <1>1, SubdirsType DEF CountsOK
<1>3. \A d \in Dirs : DirOk(d)
  BY <1>1 DEF DirOk
<1> QED
  BY <1>1, <1>2, <1>3 DEF CountsInv, DirCallInv, DirInv

\* Whatever runs at once, fails or is changed behind the module's back, the invariant holds,
\* for the entries of directories by itself and with it for the directories' counts.
THEOREM Invariance == Spec => []IInv
  BY InitInv, InvariantStep, PTL DEF Spec

\* The counts need what is known of the calls: which directory each one works in.
THEOREM CountsInvariance == Spec => []CountsInv
  BY Invariance, InitCounts, CountsStep, PTL DEF Spec
-----------------------------------------------------------------------------
\* What follows from it

\* Locals, dentries and inodes are what the code takes them for.
THEOREM TypeCorrect == Spec => []TypeOK
<1>1. IInv /\ CountsInv => TypeOK
  BY DEF IInv, CountsInv, TypeOK
<1> QED
  BY <1>1, Invariance, CountsInvariance, PTL

\* An upper inode that iget5_locked can find is about the file whose inode is at its
\* address: no path of lookup.c or inode.c gives the reference of igrab back too early.
THEOREM AlwaysSameFile == Spec => []SameFile
<1>1. IInv => SameFile
  BY DEF IInv, InodeInv, InodeOf, SameFile
<1> QED
  BY <1>1, Invariance, PTL

\* Every dget, mntget and igrab is given back once, except what a failed lookup
\* forgets, and the lower dentry of a running call has a reference.
THEOREM AlwaysExact == Spec => []LowerRefs
<1>1. IInv => LowerRefs
  <2> SUFFICES ASSUME IInv PROVE LowerRefs
    OBVIOUS
  <2>1. ASSUME NEW l \in LDents
        PROVE  ld[l].count = Cardinality({u \in UDents : ud[u].info = l}) + lost[l]
                             + Cardinality({t \in Threads :
                                   /\ th[t].ld = l
                                   /\ th[t].pc = "interpose" \/ (Busy(t) /\ th[t].op \in Dgets)})
                             + Cardinality({t \in Threads :
                                   th[t].op = "link" /\ ud[th[t].old].info = l})
    BY DEF IInv, CountInv, CountOf, Infos, Holders, Holds, Olds
  <2>2. ASSUME NEW t \in Threads, th[t].ld # None PROVE ld[th[t].ld].count > 0
    <3>1. ThreadOf(t)
      BY DEF IInv, ThreadInv
    <3>2. InDir(t)
      BY <2>2, <3>1 DEF ThreadOf, IdleOf, Idle, CopyOf, CallOf, InDir, Busy
    <3>3. th[t].ld \in LDents /\ ld[th[t].ld].count >= 1
      BY <3>2, CallRefs
    <3> QED
      BY <3>3 DEF IInv, EntriesOK
  <2>3. mnt = Cardinality({u \in UDents : ud[u].info # None}) + forgot
    BY DEF IInv, CountInv, Mounted
  <2>4. ASSUME NEW a \in Addrs
        PROVE  lref[a] <= (IF ui[a].st = "live" THEN 1 ELSE 0)
                          + Cardinality({t \in Threads : th[t].pc = "iget" /\ th[t].ino = a})
    BY GrabCount DEF IInv, Igets
  <2> QED
    BY <2>1, <2>2, <2>3, <2>4 DEF LowerRefs
<1> QED
  BY <1>1, Invariance, PTL

\* LowerRefs bounds the references that igrab has taken to a lower inode; they are exactly
\* the one of the upper inode and those of the calls that still have to hand theirs to
\* iget5_locked, so that none is given back that was not taken either.
THEOREM GrabsExact == Spec => [](\A a \in Addrs : GrabOf(a))
<1>1. IInv => \A a \in Addrs : GrabOf(a)
  BY DEF IInv, CountInv
<1> QED
  BY <1>1, Invariance, PTL

\* Between calls a cached name is what the lower directory says, whatever has failed
\* and been undone in teadfs_create.
THEOREM AlwaysMirror == Spec => []Mirror
<1>1. IInv => Mirror
  <2> SUFFICES ASSUME IInv, NEW n \in Names \ touched, NEW u \in Hashed(n) \ orphan,
                      ~PinnedDent(u)
               PROVE  disk[n] = IF ud[u].ino = None THEN None ELSE ui[ud[u].ino].file
    BY DEF Mirror
  <2>1. u \in UDents /\ ud[u].st = "hashed" /\ ud[u].name = n /\ u \notin orphan
    BY DEF Hashed
  <2>2. \A t \in Threads : Changing(t) => th[t].ud # u
    BY DEF Changing, PinnedDent, Busy
  <2>3. disk[n] = IF ud[u].ino = None THEN None ELSE linode[ud[u].ino]
    BY <2>1, <2>2 DEF IInv, MirrorInv, MirrorOf
  <2>4. ud[u].ino # None => ui[ud[u].ino].file = linode[ud[u].ino]
    BY <2>1 DEF IInv, UpperInv, UpperOf, InodeInv, InodeOf, EntriesOK
  <2> QED
    BY <2>3, <2>4
<1> QED
  BY <1>1, Invariance, PTL

\* Links and removals in several directories at once leave the number of names that the
\* upper inode counts right; only a copy without the mutex of the inode can make it stale.
THEOREM AlwaysNlink == Spec => []NlinkCurrent
<1>1. IInv => NlinkCurrent
  <2> SUFFICES ASSUME IInv, touched = {}, NEW a \in Addrs, ui[a].st = "live", ~InodeLocked(a)
               PROVE  ui[a].nlink \in {Nlink(ui[a].file), Stale}
    BY DEF NlinkCurrent
  <2>1. \A t \in Threads : OnLink(t) /\ Changing(t) => th[t].ino # a
    BY DEF OnLink, Linking, InodeLocked
  <2>2. ui[a].nlink \in {Nlink(linode[a]), Stale}
    BY <2>1 DEF IInv, NlinkInv, NlinkOf
  <2>3. ui[a].file = linode[a]
    BY DEF IInv, InodeInv, InodeOf
  <2> QED
    BY <2>2, <2>3
<1> QED
  BY <1>1, Invariance, PTL

\* Whatever fails, the link count of a directory agrees with the lower one between mkdirs
\* and rmdirs; only a mkdir without an inode leaves it behind, until the next one, and only
\* a copy without the mutex of the directory can make it stale.
THEOREM AlwaysDirNlink == Spec => []DirNlink
<1>1. CountsInv => DirNlink
  BY DEF CountsInv, DirInv, DirOk, Changing, DirNlink
<1> QED
  BY <1>1, CountsInvariance, PTL

\* A lookup that finds an inode where it has read none is about a name that another
\* process has made in between: nothing in the module passes NULL to __teadfs_get_inode.
THEOREM NeverStale == Spec => []InodeNotStale
<1>1. IInv => InodeNotStale
  BY DEF IInv, ThreadInv, ThreadOf, OopsOf, InodeNotStale
<1> QED
  BY <1>1, Invariance, PTL
=============================================================================
