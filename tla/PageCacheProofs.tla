-------------------------- MODULE PageCacheProofs --------------------------
(***************************************************************************)
(* Proofs about PageCache for any threads, pages, cells and number of      *)
(* writes: who holds which lock, that the lower file stays encrypted, and  *)
(* that what is in either cache is what its readers are meant to see.      *)
(***************************************************************************)
EXTENDS PageCache, TLAPS

Filling == {"fill", "filled", "wfill", "wfilled"}
Growing == {"grow", "chunk"}
Holding == Filling \cup Growing \cup {"copy", "end", "store"}
InWrite == {"begin", "wfill", "wfilled", "grow", "chunk", "copy", "end", "store"}

\* The cache that a file uses is that of its access.
FileInv == \A t \in Threads : mapping[t] = "i_decrypt" <=> access[t] = "decrypt"

\* A page lock is held exactly by the thread that works on the page, i_mutex exactly by
\* the thread that writes, and a page that is being filled is not up to date.
PageLockInv ==
    \A m \in Caches, p \in Pages, t \in Threads :
        lock[m][p] = t <=> (pc[t] \in Holding /\ m = mapping[t] /\ p = page[t])

MutexInv == \A t \in Threads : iMutex = t <=> pc[t] \in InWrite

FillInv ==
    \A t \in Threads : pc[t] \in Filling => page[t] \notin uptodate[mapping[t]]

\* A write past the end holds a page that is up to date, and the zeros it stores do not
\* reach that page.
GrowInv ==
    \A t \in Threads : pc[t] \in Growing =>
        /\ page[t] \in uptodate[mapping[t]] /\ size <= page[t]
        /\ pc[t] = "chunk" => size < page[t]

\* Beyond the end nothing is stored, and a page of a cache is tainted, unless a thread
\* has zeroed it and writes to it.
HoleInv == \A p \in Pages : size <= p => lower[p] = [c \in Cells |-> Hole]

Extends(t, m, p) == pc[t] \in {"copy", "end", "store"} /\ mapping[t] = m /\ page[t] = p

BeyondInv ==
    /\ \A t \in Threads : pc[t] \in {"filled", "wfilled"} /\ size <= page[t] =>
          <<mapping[t], page[t]>> \in tainted
    /\ \A m \in Caches : \A p \in uptodate[m] : size <= p /\ <<m, p>> \notin tainted =>
          \E t \in Threads : Extends(t, m, p)

\* t has the data of its write in the page and not yet in the lower file.
Writing(t, m, p, c) ==
    pc[t] \in {"end", "store"} /\ mapping[t] = m /\ page[t] = p /\ cell[t] = c

Data == [form |-> "plain", ver |-> ver]

WriteInv == \A t \in Threads : pc[t] \in {"end", "store"} => MyPage(t)[cell[t]] = Data

\* Every cell of the second cache is the decryption of the lower one, unless it is
\* being written or is a hole; a page that has been read and not yet decrypted is the lower one.
DecryptInv ==
    stored \/
      /\ \A t \in Threads : /\ pc[t] \in {"filled", "wfilled"} /\ mapping[t] = "i_decrypt"
                            /\ <<"i_decrypt", page[t]>> \notin tainted
                            => cached["i_decrypt"][page[t]] = lower[page[t]]
      /\ \A p \in uptodate["i_decrypt"] : <<"i_decrypt", p>> \notin tainted =>
            \A c \in Cells :
                \/ cached["i_decrypt"][p][c] = DecryptCell(lower[p][c])
                \/ lower[p][c].form = "hole"
                \/ \E t \in Threads : Writing(t, "i_decrypt", p, c)

\* The same for the first cache, while no writer of the other has still to drop it.
StoredInv ==
    (\A t \in Threads : pc[t] # "invalidate") =>
      /\ \A t \in Threads : /\ pc[t] \in {"filled", "wfilled"} /\ mapping[t] = "i_data"
                            /\ <<"i_data", page[t]>> \notin tainted
                            => cached["i_data"][page[t]] = lower[page[t]]
      /\ \A p \in uptodate["i_data"] : <<"i_data", p>> \notin tainted =>
            \A c \in Cells :
                \/ cached["i_data"][p][c] = lower[p][c]
                \/ \E t \in Threads : Writing(t, "i_data", p, c)

IInv ==
    /\ TypeOK /\ FileInv /\ PageLockInv /\ MutexInv /\ FillInv /\ GrowInv /\ WriteInv
    /\ HoleInv /\ BeyondInv /\ LowerIsCipher /\ DecryptInv /\ StoredInv
-----------------------------------------------------------------------------
\* What an assignment to a page, or to a cell of the lower file, leaves.
LEMMA PageSet ==
    ASSUME TypeOK, NEW t \in Threads, NEW pg \in [Cells -> Contents], SetPage(t, pg)
    PROVE  /\ cached' \in [Caches -> [Pages -> [Cells -> Contents]]]
           /\ cached'[mapping[t]][page[t]] = pg
           /\ \A m \in Caches, p \in Pages :
                 m # mapping[t] \/ p # page[t] => cached'[m][p] = cached[m][p]
  BY DEF TypeOK, SetPage

\* A change of one cell leaves every other cell of every page.
LEMMA CellSet ==
    ASSUME NEW f \in [Pages -> [Cells -> Contents]], NEW q \in Pages, NEW d \in Cells,
           NEW x \in Contents
    PROVE  LET g == [f EXCEPT ![q][d] = x] IN
           /\ g \in [Pages -> [Cells -> Contents]]
           /\ g[q][d] = x
           /\ \A p \in Pages, c \in Cells : p # q \/ c # d => g[p][c] = f[p][c]
           /\ \A p \in Pages : p # q => g[p] = f[p]
  OBVIOUS

\* Taking a page lock, which nobody holds, and giving it back.
LEMMA PageLock ==
    ASSUME TypeOK, NEW t \in Threads, NEW q \in Pages, LockPage(t, q)
    PROVE  /\ lock' \in [Caches -> [Pages -> Threads \cup {None}]]
           /\ lock[mapping[t]][q] = None /\ lock'[mapping[t]][q] = t
           /\ \A m \in Caches, p \in Pages :
                 m # mapping[t] \/ p # q => lock'[m][p] = lock[m][p]
  BY DEF TypeOK, LockPage

\* UnlockPage gives back the lock of the page of t, and no other.
LEMMA PageUnlock ==
    ASSUME TypeOK, NEW t \in Threads, UnlockPage(t)
    PROVE  /\ lock' \in [Caches -> [Pages -> Threads \cup {None}]]
           /\ lock'[mapping[t]][page[t]] = None
           /\ \A m \in Caches, p \in Pages :
                 m # mapping[t] \/ p # page[t] => lock'[m][p] = lock[m][p]
  BY DEF TypeOK, UnlockPage

\* The callbacks keep the version and change the form.
LEMMA CellForms ==
    ASSUME NEW x \in Contents
    PROVE  /\ DecryptCell(x) \in Contents /\ EncryptCell(x) \in Contents
           /\ x.form = "plain" => /\ EncryptCell(x).form = "cipher"
                                 /\ DecryptCell(EncryptCell(x)) = x
  BY DEF Contents, Forms, DecryptCell, EncryptCell

\* Decrypting a page that has been read may fail: then the page is as it was.
LEMMA DecryptPage ==
    ASSUME TypeOK, NEW t \in Threads, Decrypt(t)
    PROVE  /\ cached' \in [Caches -> [Pages -> [Cells -> Contents]]]
           /\ tainted' \subseteq Caches \X Pages /\ tainted \subseteq tainted'
           /\ \A m \in Caches, p \in Pages :
                 m # mapping[t] \/ p # page[t] => cached'[m][p] = cached[m][p]
           /\ access[t] # "decrypt" => UNCHANGED <<cached, tainted>>
           /\ access[t] = "decrypt" =>
                 \/ cached'[mapping[t]][page[t]] = Decrypted(MyPage(t))
                 \/ <<mapping[t], page[t]>> \in tainted'
<1>1. MyPage(t) \in [Cells -> Contents]
  BY DEF TypeOK, MyPage
<1>2. Decrypted(MyPage(t)) \in [Cells -> Contents]
  BY <1>1, CellForms DEF Decrypted
<1>3. CASE access[t] = "decrypt" /\ SetPage(t, Decrypted(MyPage(t))) /\ UNCHANGED tainted
  BY <1>2, <1>3, PageSet DEF TypeOK
<1>4. CASE access[t] = "decrypt" /\ Taint(t) /\ UNCHANGED cached
  BY <1>4 DEF TypeOK, Taint
<1>5. CASE access[t] # "decrypt" /\ UNCHANGED <<cached, tainted>>
  BY <1>5 DEF TypeOK
<1> QED
  BY <1>3, <1>4, <1>5 DEF Decrypt

\* Holes and unwritten memory are contents.
LEMMA NewPages ==
    /\ Hole \in Contents /\ Junk \in [Cells -> Contents]
    /\ [c \in Cells |-> Hole] \in [Cells -> Contents]
  BY BoundAssumption DEF Contents, Forms, Hole, Junk

\* The zeros of a write past the end take the page after the end, and no other.
LEMMA GrowPage ==
    ASSUME TypeOK, GrowInv, NEW t \in Threads, GrowStore(t)
    PROVE  /\ size \in Pages /\ size < page[t] /\ size' = size + 1
           /\ lower' \in [Pages -> [Cells -> Contents]]
           /\ \A p \in Pages : p # size => lower'[p] = lower[p]
           /\ ~stored' => \A c \in Cells : lower'[size][c].form = "cipher"
<1> DEFINE form == IF granted[t] = "decrypt" THEN "cipher" ELSE "plain"
           zeros == [c \in Cells |-> [form |-> form, ver |-> ver]]
<1>1. size < page[t] /\ size' = size + 1
  BY DEF GrowStore, GrowInv, Growing
<1>2. size \in Pages
  BY <1>1, PagesAssumption DEF TypeOK, Pages
<1>3. zeros \in [Cells -> Contents]
  BY DEF TypeOK, Contents, Forms
<1>4. lower' = [lower EXCEPT ![size] = zeros]
  BY DEF GrowStore
<1>5. ~stored' => \A c \in Cells : zeros[c].form = "cipher"
  BY DEF GrowStore
<1> HIDE DEF zeros
<1> QED
  BY <1>1, <1>2, <1>3, <1>4, <1>5 DEF TypeOK

\* A size is never less than it was.
LEMMA StoreSize ==
    ASSUME TypeOK, NEW t \in Threads, Store(t)
    PROVE  /\ size' \in 1 .. NPages /\ size <= size' /\ page[t] < size'
           /\ size' # size => size' = page[t] + 1 /\ size <= page[t]
<1>1. size \in 1 .. NPages /\ page[t] \in 0 .. NPages - 1 /\ size' = Max(size, page[t] + 1)
  BY DEF Store, TypeOK, Pages
<1> QED
  BY <1>1, PagesAssumption DEF Max

\* Where write_begin goes with a filled page, and where a write ends.
LEMMA NextPlaces ==
    ASSUME NEW t \in Threads
    PROVE  /\ AfterFill(t) \in {"copy", "grow"}
           /\ AfterWrite(t) => pc' = [pc EXCEPT ![t] = "idle"] \/ pc' = [pc EXCEPT ![t] = "invalidate"]
           /\ AfterWrite(t) /\ access[t] = "decrypt" => pc' = [pc EXCEPT ![t] = "invalidate"]
  BY DEF AfterFill, AfterWrite, Goto

\* Every step keeps the types.
LEMMA TypeStep == TypeOK /\ GrowInv /\ [Next]_vars => TypeOK'
<1> SUFFICES ASSUME TypeOK, GrowInv, [Next]_vars
             PROVE  TypeOK'
  OBVIOUS
<1> USE DEF PCs, Caches, Goto, LockPage, UnlockPage, SetUptodate, Taint,
            disk, cache, file, place, history
<1>1. ASSUME NEW t \in Threads, Open(t)
      PROVE  TypeOK'
  BY <1>1, AccessAssumption DEF TypeOK, Open
<1>2. ASSUME NEW t \in Threads, ReadStart(t)
      PROVE  TypeOK'
  BY <1>2 DEF TypeOK, ReadStart
<1>3. ASSUME NEW t \in Threads, ReadLower(t)
      PROVE  TypeOK'
  <2>1. lower[page[t]] \in [Cells -> Contents]
    BY DEF TypeOK
  <2>2. cached' \in [Caches -> [Pages -> [Cells -> Contents]]]
    <3>1. CASE SetPage(t, lower[page[t]])
      BY <2>1, <3>1, PageSet
    <3>2. CASE UNCHANGED cached
      BY <3>2 DEF TypeOK
    <3> QED
      BY <1>3, <3>1, <3>2 DEF ReadLower
  <2>3. tainted' \subseteq Caches \X Pages
    BY <1>3 DEF TypeOK, ReadLower
  <2> QED
    BY <1>3, <2>2, <2>3 DEF TypeOK, ReadLower
<1>4. ASSUME NEW t \in Threads, PageRead(t) \/ PageFilled(t)
      PROVE  TypeOK'
  <2>1. Decrypt(t)
    BY <1>4 DEF PageRead, PageFilled
  <2>2. /\ cached' \in [Caches -> [Pages -> [Cells -> Contents]]]
        /\ tainted' \subseteq Caches \X Pages
    <3> HIDE DEF Caches, Taint
    <3> QED
      BY <2>1, DecryptPage
  <2>3. uptodate' \in [Caches -> SUBSET Pages]
    BY <1>4 DEF TypeOK, PageRead, PageFilled
  <2>4. lock' \in [Caches -> [Pages -> Threads \cup {None}]]
    <3> HIDE DEF UnlockPage
    <3>1. CASE UnlockPage(t)
      BY <3>1, PageUnlock
    <3>2. CASE UNCHANGED lock
      BY <3>2 DEF TypeOK
    <3> QED
      BY <1>4, <3>1, <3>2 DEF PageRead, PageFilled
  <2>5. pc' \in [Threads -> PCs]
    <3>1. pc' = [pc EXCEPT ![t] = "idle"] \/ pc' = [pc EXCEPT ![t] = AfterFill(t)]
      BY <1>4 DEF PageRead, PageFilled
    <3> QED
      BY <3>1, NextPlaces DEF TypeOK
  <2>6. UNCHANGED <<lower, size, iMutex, access, mapping, page, cell, granted, ver, stored>>
    BY <1>4 DEF PageRead, PageFilled
  <2> QED
    <3> HIDE DEF Caches, PCs
    <3> QED
      BY <2>2, <2>3, <2>4, <2>5, <2>6 DEF TypeOK
<1>5. ASSUME NEW t \in Threads, ReadFails(t)
      PROVE  TypeOK'
  BY <1>5 DEF TypeOK, ReadFails
<1>6. ASSUME NEW t \in Threads, WriteStart(t)
      PROVE  TypeOK'
  BY <1>6, BoundAssumption DEF TypeOK, WriteStart
<1>7. ASSUME NEW t \in Threads, WriteBegin(t) \/ NoPage(t)
      PROVE  TypeOK'
  <2>1. CASE WriteBegin(t)
    BY <2>1, NextPlaces DEF TypeOK, WriteBegin
  <2>2. CASE NoPage(t)
    BY <2>2, NextPlaces DEF TypeOK, NoPage
  <2> QED
    BY <1>7, <2>1, <2>2
<1>8. ASSUME NEW t \in Threads, BeginFails(t) \/ GrowFails(t)
      PROVE  TypeOK'
  <2>1. CASE BeginFails(t)
    BY <2>1, NextPlaces DEF TypeOK, BeginFails, WriteReturns
  <2>2. CASE GrowFails(t)
    BY <2>2, NextPlaces DEF TypeOK, GrowFails, WriteReturns
  <2> QED
    BY <1>8, <2>1, <2>2
<1>9. ASSUME NEW t \in Threads, Copy(t)
      PROVE  TypeOK'
  <2>1. [MyPage(t) EXCEPT ![cell[t]] = [form |-> "plain", ver |-> ver]] \in [Cells -> Contents]
    BY DEF TypeOK, MyPage, Contents, Forms
  <2>2. cached' \in [Caches -> [Pages -> [Cells -> Contents]]]
    BY <1>9, <2>1, PageSet DEF Copy
  <2> QED
    BY <1>9, <2>2 DEF TypeOK, Copy
<1>10. ASSUME NEW t \in Threads, WriteEnd(t)
      PROVE  TypeOK'
  BY <1>10 DEF TypeOK, WriteEnd
<1>11. ASSUME NEW t \in Threads, WriteFails(t)
      PROVE  TypeOK'
  <2>1. pc' \in [Threads -> PCs]
    <3>1. AfterWrite(t)
      BY <1>11 DEF WriteFails, WriteReturns
    <3> QED
      BY <3>1, NextPlaces DEF TypeOK
  <2> QED
    BY <1>11, <2>1 DEF TypeOK, WriteFails, WriteReturns
<1>12. ASSUME NEW t \in Threads, Store(t)
      PROVE  TypeOK'
  <2>1. MyPage(t)[cell[t]] \in Contents
    BY DEF TypeOK, MyPage
  <2>2. lower' \in [Pages -> [Cells -> Contents]]
    BY <1>12, <2>1, CellForms, CellSet DEF TypeOK, Store
  <2>3. stored' \in BOOLEAN
    BY <1>12 DEF TypeOK, Store
  <2>4. size' \in 1 .. NPages
    BY <1>12, StoreSize
  <2> QED
    BY <1>12, <2>2, <2>3, <2>4, NextPlaces DEF TypeOK, Store, WriteReturns
<1>13. ASSUME NEW t \in Threads, Invalidate(t)
      PROVE  TypeOK'
  <2>1. cached' \in [Caches -> [Pages -> [Cells -> Contents]]]
    BY <1>13, NewPages DEF TypeOK, Invalidate
  <2> QED
    BY <1>13, <2>1 DEF TypeOK, Invalidate
<1>14. ASSUME NEW m \in Caches, NEW p \in Pages, Reclaim(m, p)
      PROVE  TypeOK'
  <2>1. cached' \in [Caches -> [Pages -> [Cells -> Contents]]]
    BY <1>14, NewPages DEF TypeOK, Reclaim
  <2> QED
    BY <1>14, <2>1 DEF TypeOK, Reclaim
<1>15. ASSUME NEW t \in Threads, GrowOpen(t)
      PROVE  TypeOK'
  BY <1>15, AccessAssumption DEF TypeOK, GrowOpen
<1>16. ASSUME NEW t \in Threads, GrowStore(t)
      PROVE  TypeOK'
  <2>1. lower' \in [Pages -> [Cells -> Contents]] /\ size' \in 1 .. NPages
    <3>1. size \in 0 .. NPages - 1 /\ size' = size + 1
      BY <1>16, GrowPage DEF Pages
    <3> QED
      BY <1>16, <3>1, GrowPage, PagesAssumption
  <2>2. stored' \in BOOLEAN
    BY <1>16 DEF TypeOK, GrowStore
  <2> QED
    BY <1>16, <2>1, <2>2 DEF TypeOK, GrowStore
<1>17. ASSUME NEW t \in Threads, ZeroPage(t)
      PROVE  TypeOK'
  <2>1. cached' \in [Caches -> [Pages -> [Cells -> Contents]]]
    BY <1>17, NewPages, PageSet DEF ZeroPage
  <2> QED
    BY <1>17, <2>1 DEF TypeOK, ZeroPage
<1>18. CASE UNCHANGED vars
  BY <1>18 DEF TypeOK, vars
<1> QED
  BY <1>1, <1>2, <1>3, <1>4, <1>5, <1>6, <1>7, <1>8, <1>9, <1>10,
     <1>11, <1>12, <1>13, <1>14, <1>15, <1>16, <1>17, <1>18
  DEF Next, Read, Write

\* Only opening the file, which is done once, chooses its access and its cache.
LEMMA FileStep == TypeOK /\ FileInv /\ [Next]_vars => FileInv'
<1> SUFFICES ASSUME TypeOK, FileInv, [Next]_vars, NEW u \in Threads
             PROVE  (mapping[u] = "i_decrypt" <=> access[u] = "decrypt")'
  BY DEF FileInv
<1>1. CASE UNCHANGED file
  BY <1>1 DEF FileInv, file
<1>2. ASSUME NEW t \in Threads, Open(t)
      PROVE  (mapping[u] = "i_decrypt" <=> access[u] = "decrypt")'
  BY <1>2 DEF FileInv, Open, TypeOK
<1>3. (\E t \in Threads : Open(t)) \/ UNCHANGED file
  BY DEF Next, Read, Write, ReadStart, ReadLower, PageRead, ReadFails, WriteStart,
         WriteBegin, NoPage, PageFilled, BeginFails, GrowOpen, GrowStore, GrowFails,
         ZeroPage, Copy, WriteEnd, WriteFails, Store, Invalidate, Reclaim, vars, file
<1> QED
  BY <1>1, <1>2, <1>3

\* i_mutex goes to one writer, who keeps it until the write returns.
LEMMA MutexStep == TypeOK /\ MutexInv /\ [Next]_vars => MutexInv'
<1> SUFFICES ASSUME TypeOK, MutexInv, [Next]_vars, NEW u \in Threads
             PROVE  (iMutex = u <=> pc[u] \in InWrite)'
  BY DEF MutexInv
<1> USE NoneAssumption DEF TypeOK, MutexInv, InWrite, Goto
<1>1. ASSUME NEW t \in Threads, Open(t)
      PROVE  (iMutex = u <=> pc[u] \in InWrite)'
  BY <1>1 DEF Open
<1>2. ASSUME NEW t \in Threads, Read(t)
      PROVE  (iMutex = u <=> pc[u] \in InWrite)'
  BY <1>2 DEF Read, ReadStart, ReadLower, PageRead, ReadFails
<1>3. ASSUME NEW t \in Threads, WriteStart(t) \/ Copy(t) \/ WriteEnd(t) \/ Invalidate(t)
                                  \/ GrowOpen(t) \/ GrowStore(t) \/ ZeroPage(t)
      PROVE  (iMutex = u <=> pc[u] \in InWrite)'
  BY <1>3 DEF WriteStart, Copy, WriteEnd, Invalidate, GrowOpen, GrowStore, ZeroPage
<1>4. ASSUME NEW t \in Threads, WriteBegin(t) \/ PageFilled(t)
      PROVE  (iMutex = u <=> pc[u] \in InWrite)'
  BY <1>4, NextPlaces DEF WriteBegin, PageFilled
<1>5. ASSUME NEW t \in Threads, NoPage(t) \/ BeginFails(t) \/ GrowFails(t) \/ WriteFails(t)
                                  \/ Store(t)
      PROVE  (iMutex = u <=> pc[u] \in InWrite)'
  <2>1. AfterWrite(t) /\ iMutex' = None /\ pc[t] \in InWrite
    BY <1>5 DEF NoPage, BeginFails, GrowFails, WriteFails, Store, WriteReturns
  <2>2. pc' = [pc EXCEPT ![t] = pc'[t]] /\ pc'[t] \notin InWrite
    BY <2>1 DEF AfterWrite
  <2>3. iMutex = t
    BY <2>1
  <2>4. iMutex' # u
    BY <2>1
  <2>5. CASE u = t
    BY <2>2, <2>4, <2>5
  <2>6. CASE u # t
    BY <2>2, <2>3, <2>4, <2>6
  <2> QED
    BY <2>5, <2>6
<1>6. CASE UNCHANGED <<iMutex, pc>>
  BY <1>6
<1> QED
  BY <1>1, <1>2, <1>3, <1>4, <1>5, <1>6 DEF Next, Write, Reclaim, vars

\* A page lock is taken on the way into Holding and given back on every way out, and
\* the page of a thread does not change between the two.
LEMMA PageLockStep == TypeOK /\ PageLockInv /\ [Next]_vars => PageLockInv'
<1> SUFFICES ASSUME TypeOK, PageLockInv, [Next]_vars,
                    NEW m \in Caches, NEW p \in Pages, NEW u \in Threads
             PROVE  (lock[m][p] = u <=> (pc[u] \in Holding /\ m = mapping[u] /\ p = page[u]))'
  BY DEF PageLockInv
<1> DEFINE Good == (lock[m][p] = u <=> (pc[u] \in Holding /\ m = mapping[u] /\ p = page[u]))'
<1> USE NoneAssumption DEF Holding, Filling, Growing
<1>1. ASSUME NEW t \in Threads, Open(t)
      PROVE  Good
  BY <1>1 DEF Open, Goto, PageLockInv, TypeOK, cache, place
<1>2. ASSUME NEW t \in Threads, ReadStart(t)
      PROVE  Good
  <2>1. PICK q \in Pages : LockPage(t, q) /\ page' = [page EXCEPT ![t] = q]
    BY <1>2 DEF ReadStart
  <2>2. /\ lock[mapping[t]][q] = None /\ lock'[mapping[t]][q] = t
        /\ m # mapping[t] \/ p # q => lock'[m][p] = lock[m][p]
    BY <2>1, PageLock
  <2> QED
    BY <1>2, <2>1, <2>2 DEF ReadStart, Goto, PageLockInv, TypeOK, file
<1>3. ASSUME NEW t \in Threads, WriteBegin(t)
      PROVE  Good
  <2>1. /\ lock[mapping[t]][page[t]] = None /\ lock'[mapping[t]][page[t]] = t
        /\ m # mapping[t] \/ p # page[t] => lock'[m][p] = lock[m][p]
    BY <1>3, PageLock DEF WriteBegin, TypeOK
  <2>2. /\ pc[t] \notin Holding /\ UNCHANGED <<mapping, page>>
        /\ \E l \in Holding : pc' = [pc EXCEPT ![t] = l]
    BY <1>3, NextPlaces DEF WriteBegin, Goto, file, place
  <2> QED
    BY <2>1, <2>2 DEF PageLockInv, TypeOK
<1>4. ASSUME NEW t \in Threads,
             UnlockPage(t), pc[t] \in Holding, pc' \in [Threads -> PCs],
             pc'[t] \notin Holding, \A r \in Threads : r # t => pc'[r] = pc[r],
             UNCHANGED <<mapping, page>>
      PROVE  Good
  <2>1. /\ lock'[mapping[t]][page[t]] = None
        /\ m # mapping[t] \/ p # page[t] => lock'[m][p] = lock[m][p]
    BY <1>4, PageUnlock
  <2> QED
    BY <1>4, <2>1 DEF PageLockInv, TypeOK
<1>5. ASSUME NEW t \in Threads,
             \/ PageRead(t) \/ ReadFails(t)
             \/ BeginFails(t) \/ GrowFails(t) \/ WriteFails(t) \/ Store(t)
      PROVE  Good
  <2>1. /\ UnlockPage(t) /\ pc[t] \in Holding /\ UNCHANGED <<mapping, page>>
        /\ pc' = [pc EXCEPT ![t] = "idle"] \/ AfterWrite(t)
    BY <1>5 DEF PageRead, ReadFails, BeginFails, GrowFails, WriteFails, Store, WriteReturns,
                Goto, file, place
  <2>2. /\ pc' \in [Threads -> PCs]
        /\ pc'[t] \notin Holding /\ \A r \in Threads : r # t => pc'[r] = pc[r]
    BY <2>1, NextPlaces DEF TypeOK, PCs
  <2> QED
    BY <1>4, <2>1, <2>2
<1>6. ASSUME NEW t \in Threads,
             \/ ReadLower(t) \/ PageFilled(t) \/ Copy(t) \/ WriteEnd(t)
             \/ GrowOpen(t) \/ GrowStore(t) \/ ZeroPage(t)
      PROVE  Good
  <2>1. /\ pc[t] \in Holding /\ UNCHANGED <<lock, mapping, page>>
        /\ \E l \in Holding : pc' = [pc EXCEPT ![t] = l]
    BY <1>6, NextPlaces DEF ReadLower, PageFilled, Copy, WriteEnd, GrowOpen, GrowStore, ZeroPage,
              Goto, cache, file, place
  <2> QED
    BY <2>1 DEF PageLockInv, TypeOK
<1>7. ASSUME NEW t \in Threads, WriteStart(t) \/ NoPage(t) \/ Invalidate(t)
      PROVE  Good
  <2>1. /\ pc[t] \notin Holding /\ UNCHANGED <<lock, mapping>>
        /\ \E l \in PCs \ Holding : pc' = [pc EXCEPT ![t] = l]
        /\ \A r \in Threads : r # t => page'[r] = page[r]
    BY <1>7, NextPlaces DEF WriteStart, NoPage, Invalidate, Goto, TypeOK, PCs, cache, file, place
  <2> QED
    BY <2>1 DEF PageLockInv, TypeOK
<1>8. CASE UNCHANGED <<lock, pc, mapping, page>>
  BY <1>8 DEF PageLockInv
<1> QED
  BY <1>1, <1>2, <1>3, <1>5, <1>6, <1>7, <1>8
  DEF Next, Read, Write, Reclaim, vars, file, place

\* A page that is being filled is locked, and only its thread makes it up to date.
LEMMA FillStep == TypeOK /\ PageLockInv /\ FillInv /\ [Next]_vars => FillInv'
<1> SUFFICES ASSUME TypeOK, PageLockInv, FillInv, [Next]_vars, NEW u \in Threads
             PROVE  (pc[u] \in Filling => page[u] \notin uptodate[mapping[u]])'
  BY DEF FillInv
<1> DEFINE Good == (pc[u] \in Filling => page[u] \notin uptodate[mapping[u]])'
<1> USE DEF Filling, Goto
<1>1. ASSUME NEW t \in Threads, Open(t) \/ ReadStart(t) \/ WriteBegin(t)
      PROVE  Good
  BY <1>1, NextPlaces DEF Open, ReadStart, WriteBegin, FillInv, TypeOK, cache, file, place
<1>2. ASSUME NEW t \in Threads, PageRead(t) \/ PageFilled(t)
      PROVE  Good
  <2>1. t # u /\ pc[u] \in Filling => mapping[t] # mapping[u] \/ page[t] # page[u]
    BY <1>2 DEF PageRead, PageFilled, PageLockInv, Holding, TypeOK
  <2>2. /\ \E l \in {"idle", "copy", "grow"} : pc' = [pc EXCEPT ![t] = l]
        /\ uptodate' = [uptodate EXCEPT ![mapping[t]] = @ \cup {page[t]}]
        /\ UNCHANGED <<mapping, page>>
    BY <1>2, NextPlaces DEF PageRead, PageFilled, SetUptodate, file, place
  <2> QED
    BY <2>1, <2>2 DEF FillInv, TypeOK
<1>3. ASSUME NEW t \in Threads, ReadLower(t) \/ ReadFails(t) \/ Copy(t) \/ WriteEnd(t)
                                \/ GrowOpen(t) \/ GrowStore(t) \/ ZeroPage(t) \/ WriteStart(t)
      PROVE  Good
  BY <1>3 DEF ReadLower, ReadFails, Copy, WriteEnd, GrowOpen, GrowStore, ZeroPage, WriteStart,
              FillInv, TypeOK, cache, file, place
<1>4. ASSUME NEW t \in Threads, NoPage(t) \/ BeginFails(t) \/ GrowFails(t) \/ WriteFails(t)
                                \/ Store(t)
      PROVE  Good
  <2>1. AfterWrite(t) /\ UNCHANGED <<uptodate, mapping, page>>
    BY <1>4 DEF NoPage, BeginFails, GrowFails, WriteFails, Store, WriteReturns, cache, file, place
  <2> QED
    BY <2>1, NextPlaces DEF FillInv, TypeOK
<1>5. ASSUME NEW t \in Threads, Invalidate(t)
      PROVE  Good
  BY <1>5 DEF Invalidate, FillInv, TypeOK, file, place, Caches
<1>6. ASSUME NEW m \in Caches, NEW p \in Pages, Reclaim(m, p)
      PROVE  Good
  BY <1>6 DEF Reclaim, FillInv, TypeOK, file, place
<1>7. CASE UNCHANGED vars
  BY <1>7 DEF FillInv, vars
<1> QED
  BY <1>1, <1>2, <1>3, <1>4, <1>5, <1>6, <1>7 DEF Next, Read, Write

\* The lower file changes by a write, and by the zeros of one past the end.
LEMMA LowerChanges ==
    ASSUME [Next]_vars
    PROVE  UNCHANGED <<lower, size, stored>> \/ \E t \in Threads : Store(t) \/ GrowStore(t)
  BY DEF Next, Read, Write, Open, ReadStart, ReadLower, PageRead, ReadFails, WriteStart,
         WriteBegin, NoPage, PageFilled, BeginFails, GrowOpen, GrowFails, ZeroPage, Copy,
         WriteEnd, WriteFails, Invalidate, Reclaim, vars, disk, history

\* The page of a write past the end is locked, so it stays in its cache, and i_mutex
\* keeps every other writer from changing the size.
LEMMA GrowStep ==
    TypeOK /\ PageLockInv /\ MutexInv /\ GrowInv /\ [Next]_vars => GrowInv'
<1> DEFINE Good(u) == pc[u] \in Growing => /\ page[u] \in uptodate[mapping[u]] /\ size <= page[u]
                                           /\ pc[u] = "chunk" => size < page[u]
<1> SUFFICES ASSUME TypeOK, PageLockInv, MutexInv, GrowInv, [Next]_vars, NEW u \in Threads
             PROVE  Good(u)'
  BY DEF GrowInv
<1> USE DEF Growing
<1>1. page[u] \in Nat /\ size \in Nat
  BY PagesAssumption DEF TypeOK, Pages
<1>2. ASSUME pc'[u] = pc[u] \/ pc'[u] \notin Growing, UNCHANGED <<mapping, size>>,
             page'[u] = page[u] \/ pc'[u] \notin Growing,
             pc[u] \in Growing => page[u] \in uptodate'[mapping[u]]
      PROVE  Good(u)'
  BY <1>2 DEF GrowInv
<1>3. ASSUME NEW t \in Threads, Open(t)
      PROVE  Good(u)'
  BY <1>3 DEF Open, Goto, GrowInv, TypeOK, disk, cache, place
<1>4. ASSUME NEW t \in Threads, ReadStart(t) \/ ReadLower(t) \/ PageRead(t) \/ ReadFails(t)
      PROVE  Good(u)'
  <2>1. UNCHANGED <<mapping, size>>
    BY <1>4 DEF ReadStart, ReadLower, PageRead, ReadFails, disk, file
  <2>2. pc'[u] = pc[u] \/ pc'[u] \notin Growing
    BY <1>4 DEF ReadStart, ReadLower, PageRead, ReadFails, Goto, TypeOK
  <2>3. page'[u] = page[u] \/ pc'[u] \notin Growing
    BY <1>4 DEF ReadStart, ReadLower, PageRead, ReadFails, Goto, TypeOK, place
  <2>4. pc[u] \in Growing => page[u] \in uptodate'[mapping[u]]
    BY <1>4 DEF ReadStart, ReadLower, PageRead, ReadFails, GrowInv, SetUptodate, TypeOK
  <2> QED
    BY <1>2, <2>1, <2>2, <2>3, <2>4
<1>5. ASSUME NEW t \in Threads, WriteBegin(t) \/ PageFilled(t)
      PROVE  Good(u)'
  <2>1. UNCHANGED <<mapping, page, size>>
    BY <1>5 DEF WriteBegin, PageFilled, disk, file, place
  <2>2. pc[u] \in Growing => page[u] \in uptodate'[mapping[u]]
    <3>1. \/ uptodate' = uptodate
          \/ uptodate' = [uptodate EXCEPT ![mapping[t]] = @ \cup {page[t]}]
      BY <1>5 DEF WriteBegin, PageFilled, SetUptodate
    <3>2. pc[u] \in Growing => page[u] \in uptodate[mapping[u]]
      BY DEF GrowInv
    <3>3. mapping[u] \in Caches /\ mapping[t] \in Caches /\ uptodate \in [Caches -> SUBSET Pages]
      BY DEF TypeOK
    <3>4. uptodate[mapping[u]] \subseteq uptodate'[mapping[u]]
      BY <3>1, <3>3
    <3> QED
      BY <3>2, <3>4
  <2>3. CASE u = t
    <3>1. AfterFill(t) = "grow" => size <= page[t]
      BY <1>1, <2>3 DEF AfterFill
    <3>2. pc'[t] # "chunk"
      BY <1>5, NextPlaces DEF WriteBegin, PageFilled, Goto, TypeOK
    <3>3. pc'[t] = "grow" => AfterFill(t) = "grow" /\ page[t] \in uptodate'[mapping[t]]
      BY <1>5 DEF WriteBegin, PageFilled, Goto, SetUptodate, TypeOK
    <3> QED
      BY <2>1, <2>3, <3>1, <3>2, <3>3
  <2>4. CASE u # t
    <3>1. pc'[u] = pc[u]
      BY <1>5, <2>4 DEF WriteBegin, PageFilled, Goto, TypeOK
    <3> QED
      BY <1>2, <2>1, <2>2, <3>1
  <2> QED
    BY <2>3, <2>4
<1>6. ASSUME NEW t \in Threads, NoPage(t) \/ BeginFails(t) \/ GrowFails(t) \/ WriteFails(t)
      PROVE  Good(u)'
  <2>1. AfterWrite(t) /\ UNCHANGED <<mapping, page, size, uptodate>>
    BY <1>6 DEF NoPage, BeginFails, GrowFails, WriteFails, WriteReturns, disk, cache, file, place
  <2>2. pc'[u] = pc[u] \/ pc'[u] \notin Growing
    BY <2>1, NextPlaces DEF TypeOK
  <2> QED
    BY <1>2, <2>1, <2>2 DEF GrowInv
<1>7. ASSUME NEW t \in Threads, WriteStart(t) \/ ZeroPage(t) \/ Copy(t) \/ WriteEnd(t)
      PROVE  Good(u)'
  <2>1. UNCHANGED <<mapping, size, uptodate>>
    BY <1>7 DEF WriteStart, ZeroPage, Copy, WriteEnd, disk, cache, file
  <2>2. pc'[u] = pc[u] \/ pc'[u] \notin Growing
    BY <1>7 DEF WriteStart, ZeroPage, Copy, WriteEnd, Goto, TypeOK
  <2>3. page'[u] = page[u] \/ pc'[u] \notin Growing
    BY <1>7 DEF WriteStart, ZeroPage, Copy, WriteEnd, Goto, TypeOK, place
  <2> QED
    BY <1>2, <2>1, <2>2, <2>3 DEF GrowInv
<1>8. ASSUME NEW t \in Threads, GrowOpen(t)
      PROVE  Good(u)'
  BY <1>1, <1>8 DEF GrowOpen, Goto, GrowInv, TypeOK, disk, cache, file
<1>9. ASSUME NEW t \in Threads, Store(t) \/ GrowStore(t)
      PROVE  Good(u)'
  <2>1. CASE u # t
    <3>1. pc'[u] = pc[u] /\ pc[t] \in InWrite
      BY <1>9, <2>1, NextPlaces DEF Store, GrowStore, WriteReturns, Goto, TypeOK, InWrite
    <3> QED
      BY <2>1, <3>1 DEF MutexInv, InWrite
  <2>2. CASE u = t /\ Store(t)
    BY <2>2, NextPlaces DEF Store, WriteReturns, TypeOK
  <2>3. CASE u = t /\ GrowStore(t)
    <3>1. size < page[t] /\ size' = size + 1 /\ pc[t] \in Growing
      BY <2>3 DEF GrowStore, GrowInv
    <3>2. pc'[t] = "grow" /\ UNCHANGED <<mapping, page, uptodate>>
      BY <2>3 DEF GrowStore, Goto, TypeOK, cache, file
    <3> QED
      BY <1>1, <2>3, <3>1, <3>2 DEF GrowInv
  <2> QED
    BY <1>9, <2>1, <2>2, <2>3
<1>10. pc[u] \in Growing => /\ mapping[u] \in Caches /\ page[u] \in Pages
                            /\ lock[mapping[u]][page[u]] = u /\ u # None
                            /\ page[u] \in uptodate[mapping[u]]
  BY NoneAssumption DEF PageLockInv, GrowInv, Holding, TypeOK
<1>11. ASSUME NEW t \in Threads, Invalidate(t)
       PROVE  Good(u)'
  <2>1. UNCHANGED <<mapping, page, size>> /\ (pc'[u] = pc[u] \/ pc'[u] \notin Growing)
    BY <1>11 DEF Invalidate, Goto, TypeOK, disk, file, place
  <2>2. pc[u] \in Growing => page[u] \in uptodate'[mapping[u]]
    BY <1>10, <1>11 DEF Invalidate, TypeOK, Caches
  <2> QED
    BY <1>2, <2>1, <2>2
<1>12. ASSUME NEW m \in Caches, NEW p \in Pages, Reclaim(m, p)
       PROVE  Good(u)'
  <2>1. UNCHANGED <<mapping, page, size, pc>>
    BY <1>12 DEF Reclaim, disk, file, place
  <2>2. pc[u] \in Growing => page[u] \in uptodate'[mapping[u]]
    BY <1>10, <1>12 DEF Reclaim, TypeOK
  <2> QED
    BY <1>2, <2>1, <2>2
<1>13. CASE UNCHANGED vars
  BY <1>13 DEF vars, GrowInv
<1> QED
  BY <1>3, <1>4, <1>5, <1>6, <1>7, <1>8, <1>9, <1>11, <1>12, <1>13 DEF Next, Read, Write

\* The locks of two threads that hold one are locks of different pages.
LEMMA Apart ==
    ASSUME TypeOK, PageLockInv, NEW t \in Threads, NEW u \in Threads, t # u,
           pc[t] \in Holding, pc[u] \in Holding
    PROVE  mapping[t] # mapping[u] \/ page[t] # page[u]
  BY DEF TypeOK, PageLockInv

\* The data of a write stays in its page until it is stored: the page is locked, and
\* i_mutex keeps the next write from being started.
LEMMA WriteStep ==
    TypeOK /\ PageLockInv /\ MutexInv /\ WriteInv /\ [Next]_vars => WriteInv'
<1> SUFFICES ASSUME TypeOK, PageLockInv, MutexInv, WriteInv, [Next]_vars,
                    NEW u \in Threads, pc'[u] \in {"end", "store"}
             PROVE  (MyPage(u)[cell[u]] = Data)'
  BY DEF WriteInv
<1> USE DEF Goto
<1>1. ASSUME UNCHANGED <<mapping, page, cell, ver>>, pc[u] \in {"end", "store"},
             cached'[mapping[u]][page[u]] = cached[mapping[u]][page[u]]
      PROVE  (MyPage(u)[cell[u]] = Data)'
  BY <1>1 DEF WriteInv, MyPage, Data
<1>2. ASSUME NEW t \in Threads, Open(t) \/ ReadStart(t) \/ WriteStart(t)
      PROVE  (MyPage(u)[cell[u]] = Data)'
  <2>1. u # t /\ pc[u] \in {"end", "store"} /\ UNCHANGED cached
    BY <1>2 DEF Open, ReadStart, WriteStart, TypeOK, cache
  <2>2. mapping'[u] = mapping[u] /\ page'[u] = page[u] /\ cell'[u] = cell[u]
    BY <1>2, <2>1 DEF Open, ReadStart, WriteStart, TypeOK, file, place
  <2>3. ver' = ver
    BY <1>2, <2>1, NoneAssumption DEF Open, ReadStart, WriteStart, MutexInv, InWrite, history
  <2> QED
    BY <2>1, <2>2, <2>3 DEF WriteInv, MyPage, Data
<1>3. ASSUME NEW t \in Threads, ReadLower(t) \/ PageRead(t) \/ PageFilled(t) \/ ZeroPage(t)
      PROVE  (MyPage(u)[cell[u]] = Data)'
  <2>1. /\ pc[t] \in Holding /\ u # t /\ pc[u] \in {"end", "store"}
        /\ UNCHANGED <<mapping, page, cell, ver>>
    BY <1>3, NextPlaces DEF ReadLower, PageRead, PageFilled, ZeroPage, TypeOK, Holding, Filling,
                            Growing, file, place, history
  <2>2. mapping[t] # mapping[u] \/ page[t] # page[u]
    BY <2>1, Apart DEF Holding
  <2>3. cached'[mapping[u]][page[u]] = cached[mapping[u]][page[u]]
    <3>1. mapping[u] \in Caches /\ page[u] \in Pages /\ lower[page[t]] \in [Cells -> Contents]
      BY DEF TypeOK
    <3>2. CASE ReadLower(t) \/ ZeroPage(t)
      BY <2>2, <3>1, <3>2, NewPages, PageSet DEF ReadLower, ZeroPage
    <3>3. CASE PageRead(t) \/ PageFilled(t)
      <4>1. Decrypt(t)
        BY <3>3 DEF PageRead, PageFilled
      <4> QED
        BY <2>2, <3>1, <4>1, DecryptPage
    <3> QED
      BY <1>3, <3>2, <3>3
  <2> QED
    BY <1>1, <2>1, <2>3
<1>4. ASSUME NEW t \in Threads, Copy(t)
      PROVE  (MyPage(u)[cell[u]] = Data)'
  <2>1. UNCHANGED <<mapping, page, cell, ver>>
    BY <1>4 DEF Copy, file, place, history
  <2>2. /\ mapping[t] \in Caches /\ page[t] \in Pages /\ cell[t] \in Cells
        /\ mapping[u] \in Caches /\ page[u] \in Pages
        /\ MyPage(t) \in [Cells -> Contents]
        /\ [MyPage(t) EXCEPT ![cell[t]] = Data] \in [Cells -> Contents]
    BY DEF TypeOK, MyPage, Contents, Forms, Data
  <2>3. /\ cached'[mapping[t]][page[t]] = [MyPage(t) EXCEPT ![cell[t]] = Data]
        /\ mapping[u] # mapping[t] \/ page[u] # page[t]
              => cached'[mapping[u]][page[u]] = cached[mapping[u]][page[u]]
    BY <1>4, <2>2, PageSet DEF Copy, Data
  <2>4. CASE u = t
    BY <2>1, <2>2, <2>3, <2>4 DEF MyPage, Data
  <2>5. CASE u # t
    <3>1. pc[u] \in {"end", "store"} /\ pc[t] \in Holding
      BY <1>4, <2>5 DEF Copy, TypeOK, Holding
    <3>2. mapping[t] # mapping[u] \/ page[t] # page[u]
      BY <2>5, <3>1, Apart DEF Holding
    <3> QED
      BY <1>1, <2>1, <2>3, <3>1, <3>2
  <2> QED
    BY <2>4, <2>5
<1>5. ASSUME NEW t \in Threads, ReadFails(t) \/ WriteBegin(t) \/ WriteEnd(t)
                                \/ GrowOpen(t) \/ GrowStore(t)
      PROVE  (MyPage(u)[cell[u]] = Data)'
  <2>1. UNCHANGED <<cached, mapping, page, cell, ver>> /\ pc[u] \in {"end", "store"}
    BY <1>5, NextPlaces DEF ReadFails, WriteBegin, WriteEnd, GrowOpen, GrowStore,
                TypeOK, cache, file, place, history
  <2> QED
    BY <1>1, <2>1
<1>6. ASSUME NEW t \in Threads, NoPage(t) \/ BeginFails(t) \/ GrowFails(t) \/ WriteFails(t)
                                \/ Store(t)
      PROVE  (MyPage(u)[cell[u]] = Data)'
  <2>1. UNCHANGED <<cached, mapping, page, cell, ver>> /\ AfterWrite(t)
    BY <1>6 DEF NoPage, BeginFails, GrowFails, WriteFails, Store, WriteReturns,
                cache, file, place, history
  <2>2. pc[u] \in {"end", "store"}
    BY <2>1, NextPlaces DEF TypeOK
  <2> QED
    BY <1>1, <2>1, <2>2
<1>7. pc[u] \in {"end", "store"} => /\ mapping[u] \in Caches /\ page[u] \in Pages
                                    /\ lock[mapping[u]][page[u]] = u /\ u # None
  BY NoneAssumption DEF PageLockInv, Holding, TypeOK
<1>8. ASSUME NEW t \in Threads, Invalidate(t)
      PROVE  (MyPage(u)[cell[u]] = Data)'
  <2>1. UNCHANGED <<mapping, page, cell, ver>> /\ pc[u] \in {"end", "store"}
    BY <1>8 DEF Invalidate, TypeOK, file, place
  <2>2. cached'[mapping[u]][page[u]] = cached[mapping[u]][page[u]]
    BY <1>7, <1>8, <2>1 DEF Invalidate, TypeOK, Caches
  <2> QED
    BY <1>1, <2>1, <2>2
<1>9. ASSUME NEW m \in Caches, NEW p \in Pages, Reclaim(m, p)
      PROVE  (MyPage(u)[cell[u]] = Data)'
  <2>1. UNCHANGED <<mapping, page, cell, ver>> /\ pc[u] \in {"end", "store"}
    BY <1>9 DEF Reclaim, file, place
  <2>2. cached'[mapping[u]][page[u]] = cached[mapping[u]][page[u]]
    BY <1>7, <1>9, <2>1 DEF Reclaim, TypeOK
  <2> QED
    BY <1>1, <2>1, <2>2
<1>10. CASE UNCHANGED <<cached, mapping, page, cell, ver, pc>>
  BY <1>1, <1>10
<1> QED
  BY <1>2, <1>3, <1>4, <1>5, <1>6, <1>8, <1>9, <1>10
  DEF Next, Read, Write, vars

\* What a "decrypt" write stores is the encryption of plain data, and the zeros of a
\* write past the end are encrypted when its own upcall says so.
LEMMA CipherStep ==
    TypeOK /\ GrowInv /\ WriteInv /\ LowerIsCipher /\ [Next]_vars => LowerIsCipher'
<1> SUFFICES ASSUME TypeOK, GrowInv, WriteInv, LowerIsCipher, [Next]_vars
             PROVE  LowerIsCipher'
  OBVIOUS
<1>1. CASE UNCHANGED <<lower, stored>>
  BY <1>1 DEF LowerIsCipher
<1>2. ASSUME NEW t \in Threads, Store(t)
      PROVE  LowerIsCipher'
  <2> SUFFICES ASSUME ~stored', NEW p \in Pages, NEW c \in Cells
               PROVE  lower'[p][c].form \in {"cipher", "hole"}
    BY DEF LowerIsCipher
  <2> DEFINE x == MyPage(t)[cell[t]]
  <2>1. access[t] = "decrypt" /\ lower[p][c].form \in {"cipher", "hole"}
    BY <1>2 DEF Store, LowerIsCipher
  <2>2. x = Data /\ Data \in Contents /\ page[t] \in Pages /\ cell[t] \in Cells
    BY <1>2 DEF Store, WriteInv, Data, Contents, Forms, TypeOK
  <2>3. EncryptCell(x) \in Contents /\ EncryptCell(x).form = "cipher"
    BY <2>2, CellForms DEF Data
  <2> HIDE DEF x
  <2>4. lower' = [lower EXCEPT ![page[t]][cell[t]] = EncryptCell(x)]
    BY <1>2, <2>1 DEF Store, x
  <2> QED
    BY <2>1, <2>2, <2>3, <2>4 DEF TypeOK
<1>3. ASSUME NEW t \in Threads, GrowStore(t)
      PROVE  LowerIsCipher'
  <2> SUFFICES ASSUME ~stored', NEW p \in Pages, NEW c \in Cells
               PROVE  lower'[p][c].form \in {"cipher", "hole"}
    BY DEF LowerIsCipher
  <2>1. lower[p][c].form \in {"cipher", "hole"}
    BY <1>3 DEF GrowStore, LowerIsCipher
  <2> QED
    BY <1>3, <2>1, GrowPage
<1> QED
  BY <1>1, <1>2, <1>3, LowerChanges

\* A cached page changes when its own thread fills, zeroes or writes it, and when it is
\* dropped, which happens to no page that is locked.
LEMMA PageChanges ==
    ASSUME TypeOK, [Next]_vars, NEW m \in Caches, NEW p \in Pages
    PROVE  \/ cached'[m][p] = cached[m][p]
           \/ \E t \in Threads : /\ \/ ReadLower(t) \/ PageRead(t) \/ PageFilled(t)
                                    \/ ZeroPage(t) \/ Copy(t)
                                 /\ mapping[t] = m /\ page[t] = p
           \/ p \notin uptodate'[m] /\ lock[m][p] = None
<1>1. ASSUME NEW t \in Threads, ReadLower(t) \/ ZeroPage(t)
      PROVE  mapping[t] # m \/ page[t] # p => cached'[m][p] = cached[m][p]
  <2>1. lower[page[t]] \in [Cells -> Contents]
    BY DEF TypeOK
  <2> QED
    BY <1>1, <2>1, NewPages, PageSet DEF ReadLower, ZeroPage
<1>2. ASSUME NEW t \in Threads, PageRead(t) \/ PageFilled(t)
      PROVE  mapping[t] # m \/ page[t] # p => cached'[m][p] = cached[m][p]
  <2>1. Decrypt(t)
    BY <1>2 DEF PageRead, PageFilled
  <2> QED
    BY <2>1, DecryptPage
<1>3. ASSUME NEW t \in Threads, Copy(t)
      PROVE  mapping[t] # m \/ page[t] # p => cached'[m][p] = cached[m][p]
  <2>1. [MyPage(t) EXCEPT ![cell[t]] = [form |-> "plain", ver |-> ver]] \in [Cells -> Contents]
    BY DEF TypeOK, MyPage, Contents, Forms
  <2> QED
    BY <1>3, <2>1, PageSet DEF Copy
<1>4. ASSUME NEW t \in Threads, Invalidate(t)
      PROVE  cached'[m][p] = cached[m][p] \/ (p \notin uptodate'[m] /\ lock[m][p] = None)
  BY <1>4 DEF Invalidate, TypeOK, Caches
<1>5. ASSUME NEW n \in Caches, NEW q \in Pages, Reclaim(n, q)
      PROVE  cached'[m][p] = cached[m][p] \/ (p \notin uptodate'[m] /\ lock[m][p] = None)
  BY <1>5 DEF Reclaim, TypeOK
<1>6. \/ UNCHANGED cached
      \/ \E t \in Threads : \/ ReadLower(t) \/ PageRead(t) \/ PageFilled(t) \/ ZeroPage(t)
                            \/ Copy(t) \/ Invalidate(t)
      \/ \E n \in Caches, q \in Pages : Reclaim(n, q)
  BY DEF Next, Read, Write, Open, ReadStart, ReadFails, WriteStart, WriteBegin, NoPage,
         BeginFails, GrowOpen, GrowStore, GrowFails, WriteEnd, WriteFails, Store, vars, cache
<1> QED
  BY <1>1, <1>2, <1>3, <1>4, <1>5, <1>6

\* A write changes one cell of the lower file.
LEMMA StoreCell ==
    ASSUME TypeOK, WriteInv, NEW t \in Threads, Store(t)
    PROVE  /\ lower'[page[t]][cell[t]] =
                 IF access[t] = "decrypt" THEN EncryptCell(Data) ELSE Data
           /\ \A p \in Pages : p # page[t] => lower'[p] = lower[p]
           /\ \A p \in Pages, c \in Cells :
                 p # page[t] \/ c # cell[t] => lower'[p][c] = lower[p][c]
<1>1. MyPage(t)[cell[t]] = Data /\ Data \in Contents /\ page[t] \in Pages /\ cell[t] \in Cells
  BY DEF Store, WriteInv, Data, Contents, Forms, TypeOK
<1> DEFINE x == IF access[t] = "decrypt" THEN EncryptCell(Data) ELSE Data
<1>2. x \in Contents
  BY <1>1, CellForms
<1>3. lower' = [lower EXCEPT ![page[t]][cell[t]] = x]
  BY <1>1 DEF Store
<1> HIDE DEF x
<1>4. /\ lower'[page[t]][cell[t]] = x
      /\ \A p \in Pages : p # page[t] => lower'[p] = lower[p]
      /\ \A p \in Pages, c \in Cells :
            p # page[t] \/ c # cell[t] => lower'[p][c] = lower[p][c]
  BY <1>1, <1>2, <1>3, CellSet DEF TypeOK
<1> QED
  BY <1>4 DEF x

\* A thread that has a write in hand keeps it, unless it stores it or fails.
LEMMA WritingKept ==
    ASSUME TypeOK, [Next]_vars, NEW u \in Threads, NEW m \in Caches, NEW p \in Pages,
           NEW c \in Cells, Writing(u, m, p, c), ~Store(u), ~WriteFails(u)
    PROVE  Writing(u, m, p, c)'
<1> USE DEF Writing, Goto, TypeOK
<1>1. ASSUME NEW t \in Threads, Open(t) \/ Read(t)
      PROVE  Writing(u, m, p, c)'
  BY <1>1 DEF Open, Read, ReadStart, ReadLower, PageRead, ReadFails, file, place
<1>2. ASSUME NEW t \in Threads,
             \/ WriteStart(t) \/ WriteBegin(t) \/ PageFilled(t) \/ Copy(t) \/ WriteEnd(t)
             \/ GrowOpen(t) \/ GrowStore(t) \/ ZeroPage(t) \/ Invalidate(t)
      PROVE  Writing(u, m, p, c)'
  BY <1>2 DEF WriteStart, WriteBegin, PageFilled, Copy, WriteEnd, GrowOpen, GrowStore, ZeroPage,
              Invalidate, file, place
<1>3. ASSUME NEW t \in Threads,
             NoPage(t) \/ BeginFails(t) \/ GrowFails(t) \/ WriteFails(t) \/ Store(t)
      PROVE  Writing(u, m, p, c)'
  <2>1. t # u /\ UNCHANGED <<mapping, page, cell>> /\ AfterWrite(t)
    BY <1>3 DEF NoPage, BeginFails, GrowFails, WriteFails, Store, WriteReturns, file, place
  <2> QED
    BY <2>1, NextPlaces
<1>4. CASE UNCHANGED <<mapping, page, cell, pc>>
  BY <1>4
<1> QED
  BY <1>1, <1>2, <1>3, <1>4 DEF Next, Write, Reclaim, vars, file, place

\* Only readpage and write_begin make a page up to date.
LEMMA UptodateGrows ==
    ASSUME TypeOK, [Next]_vars, NEW m \in Caches, NEW p \in uptodate'[m], p \notin uptodate[m]
    PROVE  \E t \in Threads : (PageRead(t) \/ PageFilled(t)) /\ mapping[t] = m /\ page[t] = p
<1>1. ASSUME NEW t \in Threads, PageRead(t) \/ PageFilled(t)
      PROVE  mapping[t] = m /\ page[t] = p
  <2>1. uptodate' = [uptodate EXCEPT ![mapping[t]] = @ \cup {page[t]}]
    BY <1>1 DEF PageRead, PageFilled, SetUptodate
  <2> QED
    BY <2>1 DEF TypeOK
<1>2. ASSUME NEW t \in Threads, Invalidate(t)
      PROVE  FALSE
  BY <1>2 DEF Invalidate, TypeOK
<1>3. ASSUME NEW n \in Caches, NEW q \in Pages, Reclaim(n, q)
      PROVE  FALSE
  BY <1>3 DEF Reclaim, TypeOK
<1>4. \/ UNCHANGED uptodate
      \/ \E t \in Threads : PageRead(t) \/ PageFilled(t) \/ Invalidate(t)
      \/ \E n \in Caches, q \in Pages : Reclaim(n, q)
  BY DEF Next, Read, Write, Open, ReadStart, ReadLower, ReadFails, WriteStart,
         WriteBegin, NoPage, BeginFails, GrowOpen, GrowStore, GrowFails, ZeroPage, Copy,
         WriteEnd, WriteFails, Store, vars, cache
<1> QED
  BY <1>1, <1>2, <1>3, <1>4

\* Only what drops a page from its cache, or zeroes it, ends the taint of it.
LEMMA TaintShrinks ==
    ASSUME TypeOK, [Next]_vars, NEW m \in Caches, NEW p \in Pages,
           <<m, p>> \in tainted, <<m, p>> \notin tainted'
    PROVE  \/ p \notin uptodate'[m] /\ lock[m][p] = None
           \/ \E t \in Threads : ZeroPage(t) /\ mapping[t] = m /\ page[t] = p
<1>1. ASSUME NEW n \in Caches, NEW q \in Pages, Reclaim(n, q)
      PROVE  p \notin uptodate'[m] /\ lock[m][p] = None
  <2>1. n = m /\ q = p
    BY <1>1 DEF Reclaim
  <2> QED
    BY <1>1, <2>1 DEF Reclaim, TypeOK
<1>2. ASSUME NEW t \in Threads, Invalidate(t)
      PROVE  p \notin uptodate'[m] /\ lock[m][p] = None
  <2>1. m = "i_data"
    BY <1>2 DEF Invalidate, Caches
  <2>2. lock["i_data"][p] = None
    BY <1>2, <2>1 DEF Invalidate
  <2> QED
    BY <1>2, <2>1, <2>2 DEF Invalidate, TypeOK
<1>3. ASSUME NEW t \in Threads, PageRead(t) \/ PageFilled(t)
      PROVE  FALSE
  <2>1. Decrypt(t)
    BY <1>3 DEF PageRead, PageFilled
  <2> QED
    BY <2>1, DecryptPage
<1>4. ASSUME NEW t \in Threads, ReadLower(t) \/ WriteFails(t)
      PROVE  FALSE
  BY <1>4 DEF ReadLower, WriteFails, Taint
<1>5. ASSUME NEW t \in Threads, ZeroPage(t)
      PROVE  mapping[t] = m /\ page[t] = p
  BY <1>5 DEF ZeroPage
<1>6. \/ UNCHANGED tainted
      \/ \E t \in Threads : \/ ReadLower(t) \/ PageRead(t) \/ PageFilled(t) \/ WriteFails(t)
                            \/ ZeroPage(t) \/ Invalidate(t)
      \/ \E n \in Caches, q \in Pages : Reclaim(n, q)
  BY DEF Next, Read, Write, Open, ReadStart, ReadFails, WriteStart, WriteBegin, NoPage,
         BeginFails, GrowOpen, GrowStore, GrowFails, Copy, WriteEnd, Store, vars, history
<1> QED
  BY <1>1, <1>2, <1>3, <1>4, <1>5, <1>6

\* A page that has been read and waits for the daemon is left alone until the answer.
LEMMA FilledKept ==
    ASSUME TypeOK, PageLockInv, [Next]_vars, NEW u \in Threads,
           pc'[u] \in {"filled", "wfilled"}, ~ReadLower(u)
    PROVE  /\ pc[u] \in {"filled", "wfilled"} /\ mapping'[u] = mapping[u] /\ page'[u] = page[u]
           /\ cached'[mapping[u]][page[u]] = cached[mapping[u]][page[u]]
           /\ <<mapping[u], page[u]>> \in tainted => <<mapping[u], page[u]>> \in tainted'
<1> USE DEF Goto
<1>1. pc[u] \in {"filled", "wfilled"} /\ mapping'[u] = mapping[u] /\ page'[u] = page[u]
  <2> USE DEF TypeOK
  <2>1. ASSUME NEW t \in Threads, Open(t) \/ Read(t)
        PROVE  pc[u] \in {"filled", "wfilled"} /\ mapping'[u] = mapping[u] /\ page'[u] = page[u]
    BY <2>1 DEF Open, Read, ReadStart, ReadLower, PageRead, ReadFails, file, place
  <2>2. ASSUME NEW t \in Threads,
               \/ WriteStart(t) \/ WriteBegin(t) \/ PageFilled(t) \/ Copy(t) \/ WriteEnd(t)
               \/ GrowOpen(t) \/ GrowStore(t) \/ ZeroPage(t) \/ Invalidate(t)
        PROVE  pc[u] \in {"filled", "wfilled"} /\ mapping'[u] = mapping[u] /\ page'[u] = page[u]
    BY <2>2, NextPlaces DEF WriteStart, WriteBegin, PageFilled, Copy, WriteEnd, GrowOpen,
             GrowStore, ZeroPage, Invalidate, file, place
  <2>3. ASSUME NEW t \in Threads,
               NoPage(t) \/ BeginFails(t) \/ GrowFails(t) \/ WriteFails(t) \/ Store(t)
        PROVE  pc[u] \in {"filled", "wfilled"} /\ mapping'[u] = mapping[u] /\ page'[u] = page[u]
    <3>1. AfterWrite(t) /\ UNCHANGED <<mapping, page>>
      BY <2>3 DEF NoPage, BeginFails, GrowFails, WriteFails, Store, WriteReturns, file, place
    <3> QED
      BY <3>1, NextPlaces
  <2>4. CASE UNCHANGED <<mapping, page, pc>>
    BY <2>4
  <2> QED
    BY <2>1, <2>2, <2>3, <2>4 DEF Next, Write, Reclaim, vars, file, place
<1>2. ASSUME NEW t \in Threads,
             ReadLower(t) \/ PageRead(t) \/ PageFilled(t) \/ ZeroPage(t) \/ Copy(t),
             mapping[t] = mapping[u], page[t] = page[u]
      PROVE  FALSE
  <2>1. t # u
    <3>1. PageRead(t) \/ PageFilled(t) => pc'[t] \notin {"filled", "wfilled"}
      BY NextPlaces DEF PageRead, PageFilled, TypeOK
    <3> QED
      BY <1>1, <1>2, <3>1 DEF ReadLower, ZeroPage, Copy
  <2>2. pc[t] \in Holding /\ pc[u] \in Holding
    BY <1>1, <1>2 DEF ReadLower, PageRead, PageFilled, ZeroPage, Copy, Holding, Filling, Growing
  <2> QED
    BY <1>2, <2>1, <2>2, Apart
<1>3. /\ mapping[u] \in Caches /\ page[u] \in Pages
      /\ lock[mapping[u]][page[u]] # None
  BY <1>1, NoneAssumption DEF TypeOK, PageLockInv, Holding, Filling
<1> QED
  BY <1>1, <1>2, <1>3, PageChanges, TaintShrinks

\* The page that write_begin zeroes is a hole of the lower file.
LEMMA ZeroCell ==
    ASSUME TypeOK, HoleInv, NEW t \in Threads, ZeroPage(t), NEW c \in Cells
    PROVE  /\ cached'[mapping[t]][page[t]][c] = Hole
           /\ lower'[page[t]][c] = Hole /\ lower[page[t]][c] = Hole
<1>1. cached'[mapping[t]][page[t]] = [d \in Cells |-> Hole]
  BY NewPages, PageSet DEF ZeroPage
<1>2. size <= page[t] /\ lower' = lower /\ page[t] \in Pages
  BY PagesAssumption DEF ZeroPage, disk, TypeOK
<1> QED
  BY <1>1, <1>2 DEF HoleInv

\* A cell of a page that is and stays up to date changes only by a write that is still
\* to be stored.
LEMMA CellKept ==
    ASSUME TypeOK, FillInv, HoleInv, [Next]_vars, NEW m \in Caches, NEW p \in uptodate[m],
           p \in uptodate'[m], NEW c \in Cells
    PROVE  \/ cached'[m][p][c] = cached[m][p][c]
           \/ \E t \in Threads : Writing(t, m, p, c)'
           \/ cached'[m][p][c] = Hole /\ lower'[p][c] = Hole /\ lower[p][c] = Hole
<1>1. p \in Pages
  BY DEF TypeOK
<1>2. ASSUME NEW t \in Threads, ReadLower(t) \/ PageRead(t) \/ PageFilled(t),
             mapping[t] = m, page[t] = p
      PROVE  FALSE
  BY <1>2 DEF ReadLower, PageRead, PageFilled, FillInv, Filling
<1>3. ASSUME NEW t \in Threads, Copy(t), mapping[t] = m, page[t] = p
      PROVE  cached'[m][p][c] = cached[m][p][c] \/ Writing(t, m, p, c)'
  <2>1. MyPage(t) \in [Cells -> Contents] /\ cell[t] \in Cells
    BY DEF TypeOK, MyPage
  <2>2. [MyPage(t) EXCEPT ![cell[t]] = Data] \in [Cells -> Contents]
    BY <2>1 DEF TypeOK, Data, Contents, Forms
  <2>3. cached'[m][p] = [MyPage(t) EXCEPT ![cell[t]] = Data]
    BY <1>3, <2>2, PageSet DEF Copy, Data
  <2>4. cell[t] = c => Writing(t, m, p, c)'
    BY <1>3 DEF Copy, Writing, Goto, TypeOK, file, place
  <2> QED
    BY <1>3, <2>1, <2>3, <2>4 DEF MyPage
<1>4. ASSUME NEW t \in Threads, ZeroPage(t), mapping[t] = m, page[t] = p
      PROVE  cached'[m][p][c] = Hole /\ lower'[p][c] = Hole /\ lower[p][c] = Hole
  BY <1>4, ZeroCell
<1> QED
  BY <1>1, <1>2, <1>3, <1>4, PageChanges

\* Beyond the end there are holes: what is stored becomes part of the file.
LEMMA HoleStep == TypeOK /\ GrowInv /\ WriteInv /\ HoleInv /\ [Next]_vars => HoleInv'
<1> SUFFICES ASSUME TypeOK, GrowInv, WriteInv, HoleInv, [Next]_vars,
                    NEW p \in Pages, size' <= p
             PROVE  lower'[p] = [c \in Cells |-> Hole]
  BY DEF HoleInv
<1>1. p \in Nat /\ size \in Nat
  BY PagesAssumption DEF TypeOK, Pages
<1>2. CASE UNCHANGED <<lower, size>>
  BY <1>2 DEF HoleInv
<1>3. ASSUME NEW t \in Threads, Store(t)
      PROVE  lower'[p] = [c \in Cells |-> Hole]
  <2>1. size' \in Nat /\ size <= size' /\ page[t] < size' /\ page[t] \in Nat
    BY <1>3, StoreSize, PagesAssumption DEF TypeOK, Pages
  <2>2. size <= p /\ p # page[t]
    BY <1>1, <2>1
  <2>3. lower'[p] = lower[p]
    BY <1>3, <2>2, StoreCell
  <2> QED
    BY <2>2, <2>3 DEF HoleInv
<1>4. ASSUME NEW t \in Threads, GrowStore(t)
      PROVE  lower'[p] = [c \in Cells |-> Hole]
  <2>1. size' = size + 1
    BY <1>4, GrowPage
  <2>2. size <= p /\ p # size
    BY <1>1, <2>1
  <2>3. lower'[p] = lower[p]
    BY <1>4, <2>2, GrowPage
  <2> QED
    BY <2>2, <2>3 DEF HoleInv
<1> QED
  BY <1>2, <1>3, <1>4, LowerChanges

\* The file never shrinks.
LEMMA SizeGrows ==
    ASSUME TypeOK, [Next]_vars
    PROVE  size \in Nat /\ size' \in Nat /\ size <= size'
<1>1. size \in Nat
  BY PagesAssumption DEF TypeOK
<1>2. ASSUME NEW t \in Threads, Store(t)
      PROVE  size' \in Nat /\ size <= size'
  BY <1>2, StoreSize, PagesAssumption
<1>3. ASSUME NEW t \in Threads, GrowStore(t)
      PROVE  size' \in Nat /\ size <= size'
  BY <1>1, <1>3 DEF GrowStore
<1> QED
  BY <1>1, <1>2, <1>3, LowerChanges

\* A thread that writes to a page of its cache goes on doing so until the page is stored
\* or the write fails.
LEMMA ExtendsKept ==
    ASSUME TypeOK, [Next]_vars, NEW u \in Threads, NEW m \in Caches, NEW p \in Pages,
           Extends(u, m, p), ~Store(u), ~WriteFails(u)
    PROVE  Extends(u, m, p)'
<1> USE DEF Extends, Goto, TypeOK
<1>1. ASSUME NEW t \in Threads, Open(t) \/ Read(t)
      PROVE  Extends(u, m, p)'
  BY <1>1 DEF Open, Read, ReadStart, ReadLower, PageRead, ReadFails, file, place
<1>2. ASSUME NEW t \in Threads,
             \/ WriteStart(t) \/ WriteBegin(t) \/ PageFilled(t) \/ Copy(t) \/ WriteEnd(t)
             \/ GrowOpen(t) \/ GrowStore(t) \/ ZeroPage(t) \/ Invalidate(t)
      PROVE  Extends(u, m, p)'
  BY <1>2 DEF WriteStart, WriteBegin, PageFilled, Copy, WriteEnd, GrowOpen, GrowStore, ZeroPage,
              Invalidate, file, place
<1>3. ASSUME NEW t \in Threads,
             NoPage(t) \/ BeginFails(t) \/ GrowFails(t) \/ WriteFails(t) \/ Store(t)
      PROVE  Extends(u, m, p)'
  <2>1. t # u /\ UNCHANGED <<mapping, page>> /\ AfterWrite(t)
    BY <1>3 DEF NoPage, BeginFails, GrowFails, WriteFails, Store, WriteReturns, file, place
  <2> QED
    BY <2>1, NextPlaces
<1>4. CASE UNCHANGED <<mapping, page, pc>>
  BY <1>4
<1> QED
  BY <1>1, <1>2, <1>3, <1>4 DEF Next, Write, Reclaim, vars, file, place

\* A page that is read beyond the end is tainted, and remains so until it is dropped,
\* zeroed for a write, or has become part of the file.
LEMMA BeyondStep == TypeOK /\ PageLockInv /\ BeyondInv /\ [Next]_vars => BeyondInv'
<1> SUFFICES ASSUME TypeOK, PageLockInv, BeyondInv, [Next]_vars
             PROVE  BeyondInv'
  OBVIOUS
<1>1. ASSUME NEW u \in Threads, pc'[u] \in {"filled", "wfilled"}, size' <= page'[u]
      PROVE  <<mapping'[u], page'[u]>> \in tainted'
  <2>1. CASE ReadLower(u)
    <3>1. UNCHANGED <<size, mapping, page>>
      BY <2>1 DEF ReadLower, disk, file, place
    <3>2. ~(page[u] < size)
      BY <1>1, <3>1, PagesAssumption DEF TypeOK, Pages
    <3> QED
      BY <2>1, <3>1, <3>2 DEF ReadLower, Taint
  <2>2. CASE ~ReadLower(u)
    <3>1. /\ pc[u] \in {"filled", "wfilled"} /\ mapping'[u] = mapping[u] /\ page'[u] = page[u]
          /\ <<mapping[u], page[u]>> \in tainted => <<mapping[u], page[u]>> \in tainted'
      BY <1>1, <2>2, FilledKept
    <3>2. size <= page[u]
      BY <1>1, <3>1, SizeGrows, PagesAssumption DEF TypeOK, Pages
    <3> QED
      BY <3>1, <3>2 DEF BeyondInv
  <2> QED
    BY <2>1, <2>2
<1>2. ASSUME NEW m \in Caches, NEW p \in uptodate'[m], size' <= p, <<m, p>> \notin tainted'
      PROVE  \E t \in Threads : Extends(t, m, p)'
  <2>1. CASE p \notin uptodate[m]
    <3>1. PICK t \in Threads : (PageRead(t) \/ PageFilled(t)) /\ mapping[t] = m /\ page[t] = p
      BY <1>2, <2>1, UptodateGrows
    <3>2. pc[t] \in {"filled", "wfilled"} /\ Decrypt(t) /\ size' = size
      BY <3>1 DEF PageRead, PageFilled, disk
    <3>3. <<m, p>> \in tainted
      BY <1>2, <3>1, <3>2 DEF BeyondInv
    <3> QED
      BY <1>2, <3>2, <3>3, DecryptPage
  <2>2. CASE p \in uptodate[m]
    <3>1. p \in Pages /\ p \in Nat /\ size <= p
      BY <1>2, <2>2, SizeGrows, PagesAssumption DEF TypeOK, Pages
    <3>2. CASE <<m, p>> \in tainted
      <4>1. PICK t \in Threads : ZeroPage(t) /\ mapping[t] = m /\ page[t] = p
        BY <1>2, <3>1, <3>2, TaintShrinks
      <4>2. Extends(t, m, p)'
        BY <4>1 DEF ZeroPage, Extends, Goto, TypeOK, file, place
      <4> QED
        BY <4>2
    <3>3. CASE <<m, p>> \notin tainted
      <4>1. PICK t \in Threads : Extends(t, m, p)
        BY <2>2, <3>1, <3>3 DEF BeyondInv
      <4>2. ~Store(t)
        <5>1. Store(t) => page[t] < size' /\ page[t] = p
          BY <4>1, StoreSize DEF Extends
        <5> QED
          BY <1>2, <3>1, <5>1, SizeGrows
      <4>3. ~WriteFails(t)
        BY <1>2, <4>1 DEF WriteFails, Taint, Extends
      <4> QED
        BY <3>1, <4>1, <4>2, <4>3, ExtendsKept
    <3> QED
      BY <3>2, <3>3
  <2> QED
    BY <2>1, <2>2
<1> QED
  BY <1>1, <1>2 DEF BeyondInv

\* The zeros of a write past the end go to no page that a cache is answerable for.
LEMMA GrowApart ==
    ASSUME TypeOK, MutexInv, GrowInv, BeyondInv, NEW t \in Threads, GrowStore(t), NEW m \in Caches
    PROVE  /\ \A p \in uptodate[m] : <<m, p>> \notin tainted => lower'[p] = lower[p]
           /\ \A u \in Threads : /\ pc[u] \in {"filled", "wfilled"}
                                 /\ <<mapping[u], page[u]>> \notin tainted
                                 => lower'[page[u]] = lower[page[u]]
<1>1. pc[t] = "chunk" /\ iMutex = t
  BY DEF GrowStore, MutexInv, InWrite
<1>2. ASSUME NEW p \in uptodate[m], <<m, p>> \notin tainted, p = size
      PROVE  FALSE
  <2>1. size <= p
    BY <1>2, PagesAssumption DEF TypeOK
  <2>2. PICK u \in Threads : Extends(u, m, p)
    BY <1>2, <2>1 DEF BeyondInv
  <2>3. iMutex = u /\ u # t
    BY <1>1, <2>2 DEF MutexInv, InWrite, Extends
  <2> QED
    BY <1>1, <2>3
<1>3. ASSUME NEW u \in Threads, pc[u] \in {"filled", "wfilled"},
             <<mapping[u], page[u]>> \notin tainted, page[u] = size
      PROVE  FALSE
  <2>1. size <= page[u]
    BY <1>3, PagesAssumption DEF TypeOK
  <2> QED
    BY <1>3, <2>1 DEF BeyondInv
<1>4. uptodate[m] \subseteq Pages /\ \A u \in Threads : page[u] \in Pages
  BY DEF TypeOK
<1> QED
  BY <1>2, <1>3, <1>4, GrowPage

\* The second cache keeps up with the lower file.
LEMMA DecryptStep ==
    TypeOK /\ FileInv /\ PageLockInv /\ MutexInv /\ FillInv /\ GrowInv /\ WriteInv
    /\ HoleInv /\ BeyondInv /\ DecryptInv /\ [Next]_vars
        => DecryptInv'
<1> SUFFICES ASSUME TypeOK, FileInv, PageLockInv, MutexInv, FillInv, GrowInv, WriteInv,
                    HoleInv, BeyondInv, DecryptInv, [Next]_vars, ~stored'
             PROVE  DecryptInv'
  BY DEF DecryptInv
<1>1. ~stored /\ \A t \in Threads : Store(t) => access[t] = "decrypt" /\ mapping[t] = "i_decrypt"
  <2>1. ASSUME NEW t \in Threads, Store(t)
        PROVE  ~stored /\ access[t] = "decrypt"
    BY <2>1 DEF Store
  <2>2. ASSUME NEW t \in Threads, Store(t)
        PROVE  mapping[t] = "i_decrypt"
    BY <2>1, <2>2 DEF FileInv
  <2>3. ASSUME NEW t \in Threads, GrowStore(t)
        PROVE  ~stored
    BY <2>3 DEF GrowStore
  <2>4. ~stored
    BY <2>1, <2>3, LowerChanges, Zenon
  <2> QED
    BY <2>1, <2>2, <2>4
<1>2. ASSUME NEW u \in Threads, pc'[u] \in {"filled", "wfilled"}, mapping'[u] = "i_decrypt",
             <<"i_decrypt", page'[u]>> \notin tainted'
      PROVE  cached'["i_decrypt"][page'[u]] = lower'[page'[u]]
  <2>1. CASE ReadLower(u)
    <3>1. lower[page[u]] \in [Cells -> Contents]
      BY DEF TypeOK
    <3>2. SetPage(u, lower[page[u]]) /\ UNCHANGED <<lower, mapping, page>>
      BY <1>2, <2>1 DEF ReadLower, Taint, disk, file, place
    <3>3. cached'[mapping[u]][page[u]] = lower[page[u]]
      BY <3>1, <3>2, PageSet
    <3> QED
      BY <1>2, <3>2, <3>3
  <2>2. CASE ~ReadLower(u)
    <3>1. /\ pc[u] \in {"filled", "wfilled"} /\ mapping[u] = "i_decrypt" /\ page'[u] = page[u]
          /\ cached'["i_decrypt"][page[u]] = cached["i_decrypt"][page[u]]
          /\ <<"i_decrypt", page[u]>> \notin tainted
      BY <1>2, <2>2, FilledKept
    <3>2. cached["i_decrypt"][page[u]] = lower[page[u]]
      BY <1>1, <3>1 DEF DecryptInv
    <3>3. ASSUME NEW t \in Threads, Store(t)
          PROVE  lower'[page[u]] = lower[page[u]]
      <4>1. t # u /\ pc[t] \in Holding /\ pc[u] \in Holding
        BY <3>1, <3>3 DEF Store, Holding, Filling
      <4>2. page[t] # page[u] /\ page[u] \in Pages
        BY <1>1, <3>1, <3>3, <4>1, Apart DEF TypeOK
      <4> QED
        BY <3>3, <4>2, StoreCell
    <3>4. ASSUME NEW t \in Threads, GrowStore(t)
          PROVE  lower'[page[u]] = lower[page[u]]
      BY <3>1, <3>4, GrowApart DEF TypeOK
    <3>5. lower'[page[u]] = lower[page[u]]
      BY <3>3, <3>4, LowerChanges
    <3> QED
      BY <3>1, <3>2, <3>5
  <2> QED
    BY <2>1, <2>2
<1>3. ASSUME NEW p \in uptodate'["i_decrypt"], <<"i_decrypt", p>> \notin tainted', NEW c \in Cells
      PROVE  \/ cached'["i_decrypt"][p][c] = DecryptCell(lower'[p][c])
             \/ lower'[p][c].form = "hole"
             \/ \E t \in Threads : Writing(t, "i_decrypt", p, c)'
  <2> USE DEF Caches
  <2>1. CASE p \notin uptodate["i_decrypt"]
    <3>1. PICK t \in Threads : /\ PageRead(t) \/ PageFilled(t)
                               /\ mapping[t] = "i_decrypt" /\ page[t] = p
      BY <1>3, <2>1, UptodateGrows
    <3>2. access[t] = "decrypt" /\ Decrypt(t)
      BY <3>1 DEF FileInv, PageRead, PageFilled
    <3>3. cached'["i_decrypt"][p] = Decrypted(MyPage(t)) /\ <<"i_decrypt", p>> \notin tainted
      BY <1>3, <3>1, <3>2, DecryptPage
    <3>4. MyPage(t) = lower[p] /\ lower' = lower
      BY <1>1, <3>1, <3>3 DEF DecryptInv, PageRead, PageFilled, MyPage, disk
    <3> QED
      BY <3>3, <3>4 DEF Decrypted
  <2>2. CASE \E t \in Threads : ZeroPage(t) /\ mapping[t] = "i_decrypt" /\ page[t] = p
    BY <2>2, ZeroCell DEF Hole
  <2>3. CASE /\ p \in uptodate["i_decrypt"]
             /\ ~\E t \in Threads : ZeroPage(t) /\ mapping[t] = "i_decrypt" /\ page[t] = p
    <3>1. p \in Pages /\ <<"i_decrypt", p>> \notin tainted
      BY <1>3, <2>3, TaintShrinks DEF TypeOK
    <3>2. \/ cached'["i_decrypt"][p][c] = cached["i_decrypt"][p][c]
          \/ \E t \in Threads : Writing(t, "i_decrypt", p, c)'
          \/ lower'[p][c].form = "hole"
      BY <1>3, <2>3, CellKept DEF Hole
    <3>3. ASSUME NEW t \in Threads, Store(t), page[t] = p, cell[t] = c
          PROVE  cached'["i_decrypt"][p][c] = DecryptCell(lower'[p][c])
      <4>1. cached["i_decrypt"][p][c] = Data /\ cached' = cached
        BY <1>1, <3>3 DEF WriteInv, MyPage, Store
      <4>2. lower'[p][c] = EncryptCell(Data)
        BY <1>1, <3>3, StoreCell
      <4>3. DecryptCell(EncryptCell(Data)) = Data
        <5>1. Data \in Contents /\ Data.form = "plain"
          BY DEF Data, Contents, Forms, TypeOK
        <5> QED
          BY <5>1, CellForms
      <4> QED
        BY <4>1, <4>2, <4>3
    <3>4. ASSUME \A t \in Threads : Store(t) => page[t] # p \/ cell[t] # c
          PROVE  lower'[p][c] = lower[p][c]
      <4>1. ASSUME NEW t \in Threads, GrowStore(t)
            PROVE  lower'[p] = lower[p]
        BY <2>3, <3>1, <4>1, GrowApart
      <4> QED
        BY <3>1, <3>4, <4>1, LowerChanges, StoreCell
    <3>5. ASSUME NEW u \in Threads, Writing(u, "i_decrypt", p, c), ~Store(u)
          PROVE  Writing(u, "i_decrypt", p, c)'
      <4>1. ~WriteFails(u)
        BY <1>3, <3>5 DEF WriteFails, Taint, Writing
      <4> QED
        BY <3>1, <3>5, <4>1, WritingKept
    <3>6. \/ cached["i_decrypt"][p][c] = DecryptCell(lower[p][c])
          \/ lower[p][c].form = "hole"
          \/ \E u \in Threads : Writing(u, "i_decrypt", p, c)
      BY <1>1, <2>3, <3>1 DEF DecryptInv
    <3>7. ASSUME NEW u \in Threads, Writing(u, "i_decrypt", p, c)
          PROVE  page[u] = p /\ cell[u] = c
      BY <3>7 DEF Writing
    <3> QED
      BY <3>2, <3>3, <3>4, <3>5, <3>6, <3>7
  <2> QED
    BY <2>1, <2>2, <2>3
<1> QED
  BY <1>2, <1>3 DEF DecryptInv

\* So does the first, until a writer of the second has stored something and has still
\* to drop its pages; when it does, a page that is locked, and stays, is tainted.
LEMMA StoredStep ==
    TypeOK /\ FileInv /\ PageLockInv /\ MutexInv /\ FillInv /\ GrowInv /\ WriteInv
    /\ HoleInv /\ BeyondInv /\ StoredInv /\ [Next]_vars
        => StoredInv'
<1> SUFFICES ASSUME TypeOK, FileInv, PageLockInv, MutexInv, FillInv, GrowInv, WriteInv,
                    HoleInv, BeyondInv, StoredInv, [Next]_vars,
                    \A t \in Threads : pc'[t] # "invalidate"
             PROVE  StoredInv'
  BY DEF StoredInv
<1> USE DEF Caches
<1>1. ASSUME NEW t \in Threads, Invalidate(t)
      PROVE  StoredInv'
  <2> DEFINE locked == {p \in Pages : lock["i_data"][p] # None}
  <2>1. /\ uptodate'["i_data"] \subseteq locked
        /\ \A p \in locked : <<"i_data", p>> \in tainted'
    BY <1>1 DEF Invalidate, TypeOK
  <2>2. ASSUME NEW u \in Threads, pc'[u] \in {"filled", "wfilled"}, mapping'[u] = "i_data"
        PROVE  page'[u] \in locked
    <3>1. pc[u] \in {"filled", "wfilled"} /\ mapping[u] = "i_data" /\ page'[u] = page[u]
      BY <1>1, <2>2 DEF Invalidate, Goto, TypeOK, file, place
    <3>2. lock["i_data"][page[u]] = u /\ page[u] \in Pages
      BY <3>1 DEF PageLockInv, Holding, Filling, TypeOK
    <3> QED
      BY <3>1, <3>2, NoneAssumption
  <2> HIDE DEF locked
  <2> QED
    BY <2>1, <2>2 DEF StoredInv
<1>2. ASSUME \A t \in Threads : ~Invalidate(t)
      PROVE  StoredInv'
  <2>1. ASSUME NEW u \in Threads, pc[u] = "invalidate"
        PROVE  FALSE
    <3> USE DEF Goto, TypeOK
    <3>1. ASSUME NEW t \in Threads, Open(t) \/ Read(t)
          PROVE  pc'[u] = "invalidate"
      BY <2>1, <3>1 DEF Open, Read, ReadStart, ReadLower, PageRead, ReadFails
    <3>2. ASSUME NEW t \in Threads,
                 \/ WriteStart(t) \/ WriteBegin(t) \/ PageFilled(t) \/ Copy(t) \/ WriteEnd(t)
                 \/ GrowOpen(t) \/ GrowStore(t) \/ ZeroPage(t)
          PROVE  pc'[u] = "invalidate"
      BY <2>1, <3>2 DEF WriteStart, WriteBegin, PageFilled, Copy, WriteEnd, GrowOpen, GrowStore,
                        ZeroPage
    <3>3. ASSUME NEW t \in Threads,
                 NoPage(t) \/ BeginFails(t) \/ GrowFails(t) \/ WriteFails(t) \/ Store(t)
          PROVE  pc'[u] = "invalidate"
      <4>1. AfterWrite(t) /\ t # u
        BY <2>1, <3>3 DEF NoPage, BeginFails, GrowFails, WriteFails, Store, WriteReturns
      <4> QED
        BY <2>1, <4>1, NextPlaces
    <3> QED
      BY <1>2, <2>1, <3>1, <3>2, <3>3 DEF Next, Write, Reclaim, vars
  <2>2. ASSUME NEW t \in Threads, Store(t)
        PROVE  access[t] # "decrypt" /\ mapping[t] = "i_data"
    <3>1. access[t] # "decrypt"
      BY <2>2, NextPlaces DEF Store, WriteReturns, TypeOK
    <3> QED
      BY <3>1 DEF FileInv, TypeOK
  <2>3. ASSUME NEW u \in Threads, pc'[u] \in {"filled", "wfilled"}, mapping'[u] = "i_data",
               <<"i_data", page'[u]>> \notin tainted'
        PROVE  cached'["i_data"][page'[u]] = lower'[page'[u]]
    <3>1. CASE ReadLower(u)
      <4>1. lower[page[u]] \in [Cells -> Contents]
        BY DEF TypeOK
      <4>2. SetPage(u, lower[page[u]]) /\ UNCHANGED <<lower, mapping, page>>
        BY <2>3, <3>1 DEF ReadLower, Taint, disk, file, place
      <4>3. cached'[mapping[u]][page[u]] = lower[page[u]]
        BY <4>1, <4>2, PageSet
      <4> QED
        BY <2>3, <4>2, <4>3
    <3>2. CASE ~ReadLower(u)
      <4>1. /\ pc[u] \in {"filled", "wfilled"} /\ mapping[u] = "i_data" /\ page'[u] = page[u]
            /\ cached'["i_data"][page[u]] = cached["i_data"][page[u]]
            /\ <<"i_data", page[u]>> \notin tainted
        BY <2>3, <3>2, FilledKept
      <4>2. cached["i_data"][page[u]] = lower[page[u]]
        BY <2>1, <4>1 DEF StoredInv
      <4>3. ASSUME NEW t \in Threads, Store(t)
            PROVE  lower'[page[u]] = lower[page[u]]
        <5>1. t # u /\ pc[t] \in Holding /\ pc[u] \in Holding
          BY <4>1, <4>3 DEF Store, Holding, Filling
        <5>2. page[t] # page[u] /\ page[u] \in Pages
          BY <2>2, <4>1, <4>3, <5>1, Apart DEF TypeOK
        <5> QED
          BY <4>3, <5>2, StoreCell
      <4>4. ASSUME NEW t \in Threads, GrowStore(t)
            PROVE  lower'[page[u]] = lower[page[u]]
        BY <4>1, <4>4, GrowApart DEF TypeOK
      <4>5. lower'[page[u]] = lower[page[u]]
        BY <4>3, <4>4, LowerChanges
      <4> QED
        BY <4>1, <4>2, <4>5
    <3> QED
      BY <3>1, <3>2
  <2>4. ASSUME NEW p \in uptodate'["i_data"], <<"i_data", p>> \notin tainted', NEW c \in Cells
        PROVE  \/ cached'["i_data"][p][c] = lower'[p][c]
               \/ \E t \in Threads : Writing(t, "i_data", p, c)'
    <3>1. CASE p \notin uptodate["i_data"]
      <4>1. PICK t \in Threads : /\ PageRead(t) \/ PageFilled(t)
                                 /\ mapping[t] = "i_data" /\ page[t] = p
        BY <2>4, <3>1, UptodateGrows
      <4>2. access[t] # "decrypt" /\ Decrypt(t)
        BY <4>1 DEF FileInv, PageRead, PageFilled
      <4>3. cached' = cached /\ tainted' = tainted /\ lower' = lower
        BY <4>1, <4>2, DecryptPage DEF PageRead, PageFilled, disk
      <4>4. pc[t] \in {"filled", "wfilled"}
        BY <4>1 DEF PageRead, PageFilled
      <4>5. cached["i_data"][p] = lower[p]
        BY <2>1, <2>4, <4>1, <4>3, <4>4 DEF StoredInv
      <4> QED
        BY <4>3, <4>5
    <3>2. CASE \E t \in Threads : ZeroPage(t) /\ mapping[t] = "i_data" /\ page[t] = p
      BY <3>2, ZeroCell
    <3>3. CASE /\ p \in uptodate["i_data"]
               /\ ~\E t \in Threads : ZeroPage(t) /\ mapping[t] = "i_data" /\ page[t] = p
      <4>1. p \in Pages /\ <<"i_data", p>> \notin tainted
        BY <2>4, <3>3, TaintShrinks DEF TypeOK
      <4>2. \/ cached'["i_data"][p][c] = cached["i_data"][p][c]
            \/ \E t \in Threads : Writing(t, "i_data", p, c)'
            \/ cached'["i_data"][p][c] = lower'[p][c]
        BY <2>4, <3>3, CellKept
      <4>3. ASSUME NEW t \in Threads, Store(t), page[t] = p, cell[t] = c
            PROVE  cached'["i_data"][p][c] = lower'[p][c]
        <5>1. cached["i_data"][p][c] = Data /\ cached' = cached
          BY <2>2, <4>3 DEF WriteInv, MyPage, Store
        <5>2. lower'[p][c] = Data
          BY <2>2, <4>3, StoreCell
        <5> QED
          BY <5>1, <5>2
      <4>4. ASSUME \A t \in Threads : Store(t) => page[t] # p \/ cell[t] # c
            PROVE  lower'[p][c] = lower[p][c]
        <5>1. ASSUME NEW t \in Threads, GrowStore(t)
              PROVE  lower'[p] = lower[p]
          BY <3>3, <4>1, <5>1, GrowApart
        <5> QED
          BY <4>1, <4>4, <5>1, LowerChanges, StoreCell
      <4>5. ASSUME NEW u \in Threads, Writing(u, "i_data", p, c), ~Store(u)
            PROVE  Writing(u, "i_data", p, c)'
        <5>1. ~WriteFails(u)
          BY <2>4, <4>5 DEF WriteFails, Taint, Writing
        <5> QED
          BY <4>1, <4>5, <5>1, WritingKept
      <4>6. \/ cached["i_data"][p][c] = lower[p][c]
            \/ \E u \in Threads : Writing(u, "i_data", p, c)
        BY <2>1, <3>3, <4>1 DEF StoredInv
      <4>7. ASSUME NEW u \in Threads, Writing(u, "i_data", p, c)
            PROVE  page[u] = p /\ cell[u] = c
        BY <4>7 DEF Writing
      <4> QED
        BY <4>2, <4>3, <4>4, <4>5, <4>6, <4>7
    <3> QED
      BY <3>1, <3>2, <3>3
  <2> QED
    BY <2>3, <2>4 DEF StoredInv
<1> QED
  BY <1>1, <1>2

\* The invariant holds before the file is opened.
LEMMA InitInv == Init => IInv
<1> SUFFICES ASSUME Init
             PROVE  IInv
  OBVIOUS
<1>1. TypeOK
  <2>1. [form |-> "cipher", ver |-> 0] \in Contents
    BY BoundAssumption DEF Contents, Forms
  <2>2. /\ lower \in [Pages -> [Cells -> Contents]] /\ size \in 1 .. NPages
        /\ cached \in [Caches -> [Pages -> [Cells -> Contents]]]
    BY <2>1, NewPages, PagesAssumption DEF Init
  <2>3. 0 \in Pages /\ (CHOOSE c \in Cells : TRUE) \in Cells
    BY PagesAssumption DEF Pages
  <2>4. /\ page \in [Threads -> Pages] /\ cell \in [Threads -> Cells]
        /\ granted \in [Threads -> {"init", "prohibit", "encrypt", "decrypt"}]
    BY <2>3 DEF Init
  <2>5. /\ uptodate \in [Caches -> SUBSET Pages]
        /\ lock \in [Caches -> [Pages -> Threads \cup {None}]]
        /\ iMutex \in Threads \cup {None} /\ tainted \subseteq Caches \X Pages
    BY DEF Init
  <2>6. /\ access \in [Threads -> {"init", "encrypt", "decrypt"}]
        /\ mapping \in [Threads -> Caches] /\ pc \in [Threads -> PCs]
    BY DEF Init, Caches, PCs
  <2>7. ver = 0 /\ stored = FALSE
    BY Zenon DEF Init
  <2>8. ver \in 0 .. MaxWrites
    BY <2>7, BoundAssumption
  <2>9. stored \in BOOLEAN
    BY <2>7, Zenon
  <2> QED
    BY <2>2, <2>4, <2>5, <2>6, <2>8, <2>9 DEF TypeOK
<1>2. FileInv /\ PageLockInv /\ MutexInv /\ FillInv /\ GrowInv /\ WriteInv
  BY NoneAssumption DEF Init, FileInv, PageLockInv, MutexInv, FillInv, GrowInv, WriteInv, Caches,
     Holding, Filling, Growing, InWrite
<1>3. HoleInv
  <2>1. ASSUME NEW p \in Pages, size <= p
        PROVE  lower[p] = [c \in Cells |-> Hole]
    <3>1. ~(p < FirstPages)
      BY <2>1, PagesAssumption DEF Init, Pages
    <3> QED
      BY <3>1 DEF Init
  <2> QED
    BY <2>1 DEF HoleInv
<1>4. LowerIsCipher
  BY DEF Init, LowerIsCipher, Hole
<1>5. BeyondInv /\ DecryptInv /\ StoredInv
  BY DEF Init, BeyondInv, DecryptInv, StoredInv, Caches
<1> QED
  BY <1>1, <1>2, <1>3, <1>4, <1>5 DEF IInv

\* The invariant of the page caches, from which the properties follow.
THEOREM Invariance == Spec => []IInv
<1>1. IInv /\ [Next]_vars => IInv'
  BY TypeStep, FileStep, PageLockStep, MutexStep, FillStep, GrowStep, WriteStep, HoleStep,
     BeyondStep, CipherStep, DecryptStep, StoredStep DEF IInv
<1> QED
  BY InitInv, <1>1, PTL DEF Spec

\* Type correctness: every state of the caches, the locks and the threads is of its type.
THEOREM TypeCorrect == Spec => []TypeOK
<1>1. IInv => TypeOK
  BY DEF IInv
<1> QED
  BY Invariance, <1>1, PTL

\* No return path of readpage, write_begin, write_end or aio_write leaves a page lock or
\* i_mutex behind (mmap.c, file.c), whatever fails.
THEOREM AlwaysReleased == Spec => []LocksReleased
<1>1. IInv => LocksReleased
  BY DEF IInv, PageLockInv, MutexInv, LocksReleased, Holding, Filling, Growing, InWrite
<1> QED
  BY Invariance, <1>1, PTL

\* The lower file stays encrypted, however much of it is a hole, while every store was
\* preceded by an answer that says "decrypt" (teadfs_write_end, and teadfs_write for the
\* zeros of a write past the end).
THEOREM AlwaysCipher == Spec => []LowerIsCipher
<1>1. IInv => LowerIsCipher
  BY DEF IInv
<1> QED
  BY Invariance, <1>1, PTL

\* A page of the decrypted view that nobody has locked and nothing has tainted is the
\* decryption of the lower page, but for its holes (teadfs_readpage, treadfs_write_begin,
\* teadfs_write_end).
THEOREM AlwaysDecrypted == Spec => []DecryptedView
<1>1. IInv => DecryptedView
  <2> SUFFICES ASSUME IInv, ~stored, NEW p \in uptodate["i_decrypt"],
                      lock["i_decrypt"][p] = None, <<"i_decrypt", p>> \notin tainted,
                      NEW c \in Cells
               PROVE  \/ cached["i_decrypt"][p][c] = DecryptCell(lower[p][c])
                      \/ lower[p][c].form = "hole"
    BY DEF DecryptedView
  <2>1. p \in Pages
    BY DEF IInv, TypeOK, Caches
  <2>2. ASSUME NEW t \in Threads, Writing(t, "i_decrypt", p, c)
        PROVE  FALSE
    BY <2>1, <2>2, NoneAssumption DEF IInv, PageLockInv, Writing, Holding, Caches
  <2> QED
    BY <2>2 DEF IInv, DecryptInv
<1> QED
  BY Invariance, <1>1, PTL

\* A page of the stored view that nobody has locked and nothing has tainted is the lower
\* page, when no writer has still to drop it (teadfs_aio_write).
THEOREM AlwaysStored == Spec => []StoredView
<1>1. IInv => StoredView
  <2> SUFFICES ASSUME IInv, \A t \in Threads : pc[t] # "invalidate",
                      NEW p \in uptodate["i_data"],
                      lock["i_data"][p] = None, <<"i_data", p>> \notin tainted
               PROVE  cached["i_data"][p] = lower[p]
    BY DEF StoredView
  <2>1. /\ p \in Pages /\ cached["i_data"][p] \in [Cells -> Contents]
        /\ lower[p] \in [Cells -> Contents]
    BY DEF IInv, TypeOK, Caches
  <2>2. ASSUME NEW c \in Cells, NEW t \in Threads, Writing(t, "i_data", p, c)
        PROVE  FALSE
    BY <2>1, <2>2, NoneAssumption DEF IInv, PageLockInv, Writing, Holding, Caches
  <2>3. \A c \in Cells : cached["i_data"][p][c] = lower[p][c]
    BY <2>2 DEF IInv, StoredInv
  <2> QED
    BY <2>1, <2>3
<1> QED
  BY Invariance, <1>1, PTL

\* A thread that waits for the daemon has no page of i_data locked but one that is up to
\* date, so a callback that reads the file does not wait for its own answer, a write past
\* the end included (treadfs_write_begin).
THEOREM CallbackMayRead == Spec => []UpcallLetsRead
<1>1. IInv => UpcallLetsRead
  <2> SUFFICES ASSUME IInv, NEW t \in Threads, NEW p \in Pages, InUpcall(t),
                      lock["i_data"][p] = t
               PROVE  p \in uptodate["i_data"]
    BY DEF UpcallLetsRead
  <2>1. mapping[t] = "i_data" /\ page[t] = p
    BY DEF IInv, PageLockInv, Caches
  <2>2. access[t] # "decrypt"
    BY <2>1 DEF IInv, FileInv
  <2>3. pc[t] \in Growing
    BY <2>2 DEF InUpcall, Growing
  <2> QED
    BY <2>1, <2>3 DEF IInv, GrowInv
<1> QED
  BY Invariance, <1>1, PTL
=============================================================================
