----------------------------- MODULE PageCache -----------------------------
(***************************************************************************)
(* Reading and writing one encrypted file that several threads have open.  *)
(* The inode has two page caches: i_data for those who see the file as it  *)
(* is stored, i_decrypt for those who see it decrypted.                    *)
(*                                                                         *)
(*   file.c   teadfs_open (which cache a file uses), teadfs_aio_write,     *)
(*            teadfs_aio_read_update_atime                                 *)
(*   mmap.c   teadfs_read_lower, teadfs_write_lower, teadfs_readpage,      *)
(*            treadfs_write_begin with the truncate it makes for a write   *)
(*            past the end (truncate_upper, teadfs_write), teadfs_write_end *)
(*                                                                         *)
(* A page is a function from cells to contents; a write changes one cell.  *)
(* What a cell holds is the number of the write that produced it and the   *)
(* form it is in.  The caches, the page locks, i_mutex and the reclaim of  *)
(* pages are the kernel's.  The size is counted in pages; offsets, parts   *)
(* of pages and the header are the subject of module FileData, and here    *)
(* page p of both views is the same data.                                  *)
(***************************************************************************)
EXTENDS Naturals

CONSTANTS
    Threads,   \* threads with the file open
    NPages,    \* bound: how many pages the file may grow to
    FirstPages, \* how many it has; an encrypted file has its header at least
    Cells,     \* parts of a page that are written separately
    Accesses,  \* what the daemon answers when the file is opened
    None,      \* no thread
    MaxWrites  \* bound: how many writes are started

ASSUME NoneAssumption == None \notin Threads
ASSUME AccessAssumption == Accesses \subseteq {"init", "prohibit", "encrypt", "decrypt"}
ASSUME BoundAssumption == MaxWrites \in Nat
ASSUME PagesAssumption == NPages \in Nat /\ FirstPages \in 1 .. NPages /\ Cells # {}

Pages == 0 .. NPages - 1

Caches == {"i_data", "i_decrypt"}
Forms  == {"plain", "cipher", "garbage", "hole"}
Contents == [form : Forms, ver : 0 .. MaxWrites]

\* Zeros that nobody has stored, and a page of memory that nobody has written.
Hole == [form |-> "hole", ver |-> 0]
Junk == [c \in Cells |-> [form |-> "garbage", ver |-> 0]]

VARIABLES
    lower,     \* lower[p]: page p of the lower file
    size,      \* its size, and i_size, in pages
    cached,    \* cached[m][p]: the page of cache m, Junk if there is none
    uptodate,  \* uptodate[m]: the pages of m that are in the cache and PageUptodate
    lock,      \* lock[m][p]: who holds the page lock
    iMutex,    \* who holds inode->i_mutex
    access,    \* access[t]: file_info->access
    mapping,   \* mapping[t]: file->f_mapping
    pc,        \* pc[t]: where t is
    page,      \* page[t]: the page t works on
    cell,      \* cell[t]: the cell t writes
    granted,   \* granted[t]: file_info.access in teadfs_write, which asks on its own
    ver,       \* number of writes started
    stored,    \* history: something has been stored without being encrypted
    tainted    \* history: cached pages that a failure, a read beyond the end, or the
               \* lock of a page that should have been dropped, has left different
               \* from the file

vars == <<lower, size, cached, uptodate, lock, iMutex, access, mapping, pc, page, cell,
          granted, ver, stored, tainted>>

disk    == <<lower, size>>
cache   == <<cached, uptodate, lock>>
file    == <<access, mapping>>
place   == <<page, cell, granted>>
history == <<ver, stored, tainted>>

PCs == {"closed", "idle", "fill", "filled", "begin", "wfill", "wfilled", "copy",
        "grow", "chunk", "end", "store", "invalidate"}

Init ==
    /\ lower = [p \in Pages |-> [c \in Cells |->
                  IF p < FirstPages THEN [form |-> "cipher", ver |-> 0] ELSE Hole]]
    /\ size = FirstPages
    /\ cached = [m \in Caches |-> [p \in Pages |-> Junk]]
    /\ uptodate = [m \in Caches |-> {}]
    /\ lock = [m \in Caches |-> [p \in Pages |-> None]]
    /\ iMutex = None
    /\ access = [t \in Threads |-> "init"]
    /\ mapping = [t \in Threads |-> "i_data"]
    /\ pc = [t \in Threads |-> "closed"]
    /\ page = [t \in Threads |-> 0]
    /\ cell = [t \in Threads |-> CHOOSE c \in Cells : TRUE]
    /\ granted = [t \in Threads |-> "init"]
    /\ ver = 0 /\ stored = FALSE /\ tainted = {}
-----------------------------------------------------------------------------
Goto(t, l) == pc' = [pc EXCEPT ![t] = l]

Max(a, b) == IF a < b THEN b ELSE a

\* The daemon's read and write callbacks, applied to data in the wrong form.
DecryptCell(x) ==
    [x EXCEPT !.form = IF x.form = "cipher" THEN "plain" ELSE "garbage"]
EncryptCell(x) ==
    [x EXCEPT !.form = IF x.form = "plain" THEN "cipher" ELSE "garbage"]

Decrypted(pg) == [c \in Cells |-> DecryptCell(pg[c])]

SetPage(t, pg) == cached' = [cached EXCEPT ![mapping[t]][page[t]] = pg]
MyPage(t)      == cached[mapping[t]][page[t]]
SetUptodate(t) == uptodate' = [uptodate EXCEPT ![mapping[t]] = @ \cup {page[t]}]
Taint(t)       == tainted' = tainted \cup {<<mapping[t], page[t]>>}
LockPage(t, p) ==
    /\ lock[mapping[t]][p] = None
    /\ lock' = [lock EXCEPT ![mapping[t]][p] = t]
UnlockPage(t)  == lock' = [lock EXCEPT ![mapping[t]][page[t]] = None]
-----------------------------------------------------------------------------
\* Mutant: OFR_PROHIBIT is not looked at.
OpenProhibited(t) ==
    /\ pc[t] = "closed"
    /\ \E a \in Accesses : access' = [access EXCEPT ![t] = a]
    /\ Goto(t, "idle")
    /\ UNCHANGED <<disk, cache, iMutex, mapping, place, history>>

\* teadfs_open: a file that is to be decrypted uses the second cache.  The
\* daemon's own files, and those whose upcall failed, are opened as "init".
Open(t) ==
    /\ pc[t] = "closed"
    /\ \E a \in Accesses \ {"prohibit"} :
          /\ access' = [access EXCEPT ![t] = a]
          /\ mapping' = [mapping EXCEPT ![t] =
                            IF a = "decrypt" THEN "i_decrypt" ELSE "i_data"]
    /\ Goto(t, "idle")
    /\ UNCHANGED <<disk, cache, iMutex, place, history>>
-----------------------------------------------------------------------------
\* Reading: generic_file_aio_read has teadfs_readpage fill a page that is not up
\* to date, with the page locked.

ReadStart(t) ==
    /\ pc[t] = "idle"
    /\ \E p \in Pages :
          /\ p \notin uptodate[mapping[t]]
          /\ LockPage(t, p)
          /\ page' = [page EXCEPT ![t] = p]
    /\ Goto(t, "fill")
    /\ UNCHANGED <<disk, cached, uptodate, iMutex, file, cell, granted, history>>

\* kernel_read in teadfs_read_lower succeeds.  Beyond the end it reads 0 bytes,
\* which is no error, and the page keeps what its memory held.
ReadLower(t) ==
    /\ pc[t] \in {"fill", "wfill"}
    /\ \/ page[t] < size /\ SetPage(t, lower[page[t]]) /\ UNCHANGED tainted
       \/ page[t] >= size /\ UNCHANGED cached /\ Taint(t)
    /\ Goto(t, IF pc[t] = "fill" THEN "filled" ELSE "wfilled")
    /\ UNCHANGED <<disk, uptodate, lock, iMutex, file, place, ver, stored>>

\* The rest of teadfs_read_lower.  When teadfs_request_read fails the number of
\* bytes read is returned all the same, and the page keeps what was read.
Decrypt(t) ==
    \/ /\ access[t] = "decrypt"
       /\ SetPage(t, Decrypted(MyPage(t)))
       /\ UNCHANGED tainted
    \/ /\ access[t] = "decrypt"
       /\ Taint(t)
       /\ UNCHANGED cached
    \/ /\ access[t] # "decrypt"
       /\ UNCHANGED <<cached, tainted>>

\* teadfs_readpage: a positive result makes the page up to date.
PageRead(t) ==
    /\ pc[t] = "filled"
    /\ Decrypt(t)
    /\ SetUptodate(t)
    /\ UnlockPage(t)
    /\ Goto(t, "idle")
    /\ UNCHANGED <<disk, iMutex, file, place, ver, stored>>

\* ... and a negative one of kernel_read does not.
ReadFails(t) ==
    /\ pc[t] = "fill"
    /\ UnlockPage(t)
    /\ Goto(t, "idle")
    /\ UNCHANGED <<disk, cached, uptodate, iMutex, file, place, history>>
-----------------------------------------------------------------------------
\* Writing: generic_file_aio_write holds i_mutex around write_begin, the copy
\* from the program and write_end.

WriteStart(t) ==
    /\ pc[t] = "idle"
    /\ ver < MaxWrites
    /\ iMutex = None
    /\ iMutex' = t
    /\ \E p \in Pages, c \in Cells :
          /\ page' = [page EXCEPT ![t] = p]
          /\ cell' = [cell EXCEPT ![t] = c]
    /\ ver' = ver + 1
    /\ Goto(t, "begin")
    /\ UNCHANGED <<disk, cache, file, granted, stored, tainted>>

\* Where write_begin goes with a page that is up to date: a write at or past the
\* end has still to deal with the hole it makes.
AfterFill(t) == IF page[t] < size THEN "copy" ELSE "grow"

\* Mutant: the hole is dealt with before the page is read.
WriteBeginGrows(t) ==
    /\ pc[t] = "begin"
    /\ LockPage(t, page[t])
    /\ Goto(t, IF page[t] \in uptodate[mapping[t]] \/ page[t] >= size
               THEN AfterFill(t) ELSE "wfill")
    /\ UNCHANGED <<disk, cached, uptodate, iMutex, file, place, history>>

\* treadfs_write_begin: the page is locked and, if it must be, filled.
WriteBegin(t) ==
    /\ pc[t] = "begin"
    /\ LockPage(t, page[t])
    /\ Goto(t, IF page[t] \in uptodate[mapping[t]] THEN AfterFill(t) ELSE "wfill")
    /\ UNCHANGED <<disk, cached, uptodate, iMutex, file, place, history>>

PageFilled(t) ==
    /\ pc[t] = "wfilled"
    /\ Decrypt(t)
    /\ SetUptodate(t)
    /\ Goto(t, AfterFill(t))
    /\ UNCHANGED <<disk, lock, iMutex, file, place, ver, stored>>

\* What teadfs_aio_write does after generic_file_aio_write.
AfterWrite(t) == Goto(t, IF access[t] = "decrypt" THEN "invalidate" ELSE "idle")

\* The end of generic_file_aio_write.
WriteReturns(t) ==
    /\ UnlockPage(t)
    /\ iMutex' = None
    /\ AfterWrite(t)

\* grab_cache_page_write_begin finds no memory.
NoPage(t) ==
    /\ pc[t] = "begin"
    /\ iMutex' = None
    /\ AfterWrite(t)
    /\ UNCHANGED <<disk, cache, file, place, history>>

\* The page cannot be read.
BeginFails(t) ==
    /\ pc[t] = "wfill"
    /\ WriteReturns(t)
    /\ UNCHANGED <<disk, cached, uptodate, file, place, history>>

\* A write past the end: teadfs_truncate, with the page locked, stores zeros from
\* the end to the page, a page at a time.  teadfs_write asks the daemon for the
\* access of the file anew; a failed upcall is an access like "init".
GrowOpen(t) ==
    /\ pc[t] = "grow"
    /\ size < page[t]
    /\ \E a \in Accesses \cup {"init"} : granted' = [granted EXCEPT ![t] = a]
    /\ Goto(t, "chunk")
    /\ UNCHANGED <<disk, cache, iMutex, file, page, cell, history>>

\* Mutant: the zeros are stored before they are encrypted.
GrowStorePlain(t) ==
    /\ pc[t] = "chunk"
    /\ granted[t] # "encrypt"
    /\ lower' = [lower EXCEPT ![size] = [c \in Cells |-> [form |-> "plain", ver |-> ver]]]
    /\ size' = size + 1
    /\ stored' = (stored \/ granted[t] # "decrypt")
    /\ granted' = [granted EXCEPT ![t] = "init"]
    /\ Goto(t, "grow")
    /\ UNCHANGED <<cache, iMutex, file, page, cell, ver, tainted>>

\* teadfs_write_lower of the zeros at i_size: encrypted by the daemon only when it
\* has answered "decrypt", refused when "encrypt", stored as they are otherwise.
GrowStore(t) ==
    /\ pc[t] = "chunk"
    /\ granted[t] # "encrypt"
    /\ LET form == IF granted[t] = "decrypt" THEN "cipher" ELSE "plain" IN
       lower' = [lower EXCEPT ![size] = [c \in Cells |-> [form |-> form, ver |-> ver]]]
    /\ size' = size + 1
    /\ stored' = (stored \/ granted[t] # "decrypt")
    /\ granted' = [granted EXCEPT ![t] = "init"]
    /\ Goto(t, "grow")
    /\ UNCHANGED <<cache, iMutex, file, page, cell, ver, tainted>>

\* Mutant: the error path of write_begin leaves the page locked.
GrowFailsLocked(t) ==
    /\ pc[t] = "chunk" \/ (pc[t] = "grow" /\ size < page[t])
    /\ granted' = [granted EXCEPT ![t] = "init"]
    /\ iMutex' = None
    /\ AfterWrite(t)
    /\ UNCHANGED <<disk, cache, file, page, cell, history>>

\* No memory, no lower file, a refusal, or an upcall or a kernel_write that fails:
\* the zeros stored so far, the new size and the page remain.
GrowFails(t) ==
    /\ pc[t] = "chunk" \/ (pc[t] = "grow" /\ size < page[t])
    /\ granted' = [granted EXCEPT ![t] = "init"]
    /\ WriteReturns(t)
    /\ UNCHANGED <<disk, cached, uptodate, file, page, cell, history>>

\* The page begins where the file ends: zero_user.
ZeroPage(t) ==
    /\ pc[t] = "grow"
    /\ size = page[t]
    /\ SetPage(t, [c \in Cells |-> Hole])
    /\ tainted' = tainted \ {<<mapping[t], page[t]>>}
    /\ Goto(t, "copy")
    /\ UNCHANGED <<disk, uptodate, lock, iMutex, file, place, ver, stored>>

\* The program's data is copied into the page.
Copy(t) ==
    /\ pc[t] = "copy"
    /\ SetPage(t, [MyPage(t) EXCEPT ![cell[t]] = [form |-> "plain", ver |-> ver]])
    /\ Goto(t, "end")
    /\ UNCHANGED <<disk, uptodate, lock, iMutex, file, place, history>>

\* Mutant: the page is unlocked while the daemon encrypts.
WriteEndUnlocks(t) ==
    /\ pc[t] = "end"
    /\ access[t] # "encrypt"
    /\ IF access[t] = "decrypt" THEN UnlockPage(t) ELSE UNCHANGED lock
    /\ Goto(t, "store")
    /\ UNCHANGED <<disk, cached, uptodate, iMutex, file, place, history>>

\* teadfs_write_end up to kernel_write: a file open as "encrypt" is refused, the
\* data of a "decrypt" one is encrypted by the daemon.
WriteEnd(t) ==
    /\ pc[t] = "end"
    /\ access[t] # "encrypt"
    /\ Goto(t, "store")
    /\ UNCHANGED <<disk, cache, iMutex, file, place, history>>

\* No memory, a refusal, or an upcall or a kernel_write that fails.
WriteFails(t) ==
    /\ pc[t] \in {"end", "store"}
    /\ Taint(t)
    /\ WriteReturns(t)
    /\ UNCHANGED <<disk, cached, uptodate, file, place, ver, stored>>

\* kernel_write: the written bytes, encrypted for a "decrypt" file, and not the page;
\* then i_size is copied from the lower file.
Store(t) ==
    /\ pc[t] = "store"
    /\ LET x == MyPage(t)[cell[t]] IN
       lower' = [lower EXCEPT ![page[t]][cell[t]] =
                    IF access[t] = "decrypt" THEN EncryptCell(x) ELSE x]
    /\ size' = Max(size, page[t] + 1)
    /\ stored' = (stored \/ access[t] # "decrypt")
    /\ WriteReturns(t)
    /\ UNCHANGED <<cached, uptodate, file, place, ver, tainted>>

\* Mutant: only the pages of the lower inode are dropped.
InvalidateLower(t) ==
    /\ pc[t] = "invalidate"
    /\ Goto(t, "idle")
    /\ UNCHANGED <<disk, cache, iMutex, file, place, history>>

\* teadfs_aio_write: invalidate_remote_inode drops the pages of i_data, those
\* excepted that somebody has locked.  (That of the lower inode drops clean
\* pages of the lower file and changes nothing here.)
Invalidate(t) ==
    /\ pc[t] = "invalidate"
    /\ LET locked == {p \in Pages : lock["i_data"][p] # None} IN
       /\ uptodate' = [uptodate EXCEPT !["i_data"] = @ \cap locked]
       /\ cached' = [cached EXCEPT !["i_data"] =
                        [p \in Pages |-> IF p \in locked THEN @[p] ELSE Junk]]
       /\ tainted' = {x \in tainted : x[1] = "i_decrypt"} \cup ({"i_data"} \X locked)
    /\ Goto(t, "idle")
    /\ UNCHANGED <<disk, lock, iMutex, file, place, ver, stored>>

\* The kernel reclaims a page that nobody has locked; no page is ever dirty.
Reclaim(m, p) ==
    /\ p \in uptodate[m]
    /\ lock[m][p] = None
    /\ uptodate' = [uptodate EXCEPT ![m] = @ \ {p}]
    /\ cached' = [cached EXCEPT ![m][p] = Junk]
    /\ tainted' = tainted \ {<<m, p>>}
    /\ UNCHANGED <<disk, lock, iMutex, file, pc, place, ver, stored>>
-----------------------------------------------------------------------------
Read(t)  == ReadStart(t) \/ ReadLower(t) \/ PageRead(t) \/ ReadFails(t)
Write(t) == \/ WriteStart(t) \/ WriteBegin(t) \/ NoPage(t) \/ PageFilled(t) \/ BeginFails(t)
            \/ GrowOpen(t) \/ GrowStore(t) \/ GrowFails(t) \/ ZeroPage(t)
            \/ Copy(t) \/ WriteEnd(t) \/ WriteFails(t) \/ Store(t) \/ Invalidate(t)

Next ==
    \/ \E t \in Threads : Open(t) \/ Read(t) \/ Write(t)
    \/ \E m \in Caches, p \in Pages : Reclaim(m, p)

Spec == Init /\ [][Next]_vars
-----------------------------------------------------------------------------
TypeOK ==
    /\ lower \in [Pages -> [Cells -> Contents]]
    /\ size \in 1 .. NPages
    /\ cached \in [Caches -> [Pages -> [Cells -> Contents]]]
    /\ uptodate \in [Caches -> SUBSET Pages]
    /\ lock \in [Caches -> [Pages -> Threads \cup {None}]]
    /\ iMutex \in Threads \cup {None}
    /\ access \in [Threads -> {"init", "encrypt", "decrypt"}]
    /\ mapping \in [Threads -> Caches]
    /\ pc \in [Threads -> PCs]
    /\ page \in [Threads -> Pages]
    /\ cell \in [Threads -> Cells]
    /\ granted \in [Threads -> {"init", "prohibit", "encrypt", "decrypt"}]
    /\ ver \in 0 .. MaxWrites
    /\ stored \in BOOLEAN
    /\ tainted \subseteq Caches \X Pages

\* A page lock is held by a thread that works on that page of its own mapping,
\* i_mutex by a thread that writes: no return path of readpage, write_begin,
\* write_end or aio_write, the failing ones included, leaves one behind.
LocksReleased ==
    /\ \A m \in Caches, p \in Pages, t \in Threads : lock[m][p] = t =>
          /\ m = mapping[t] /\ p = page[t]
          /\ pc[t] \notin {"closed", "idle", "begin", "invalidate"}
    /\ \A t \in Threads : iMutex = t =>
          pc[t] \in {"begin", "wfill", "wfilled", "grow", "chunk", "copy", "end", "store"}

\* The lower file holds nothing but encrypted data and holes, however many upcalls
\* and lower writes fail, until something is stored without an answer that says
\* "decrypt": through a file open as "init", or as the zeros of a write past the end
\* whose own upcall failed (mmap.c:240).  A "decrypt" write is encrypted or refused, an
\* "encrypt" one is refused (mmap.c:103-119).
LowerIsCipher ==
    stored \/ \A p \in Pages, c \in Cells : lower[p][c].form \in {"cipher", "hole"}

\* What a decrypting reader finds in the cache is the decryption of the lower
\* file as it is now, with reads, writes and writes past the end in any order,
\* except in a page that a failed upcall, a failed write or a read beyond the end has
\* touched, and in holes (mmap.c:47-60, :445-464, :510-520).
DecryptedView ==
    stored \/ \A p \in uptodate["i_decrypt"] :
        lock["i_decrypt"][p] = None /\ <<"i_decrypt", p>> \notin tainted
            => \A c \in Cells : \/ cached["i_decrypt"][p][c] = DecryptCell(lower[p][c])
                                \/ lower[p][c].form = "hole"

\* What a reader of the stored form finds in the cache is the lower file as it
\* is now, once the writers are through (file.c:216-220), except in a page that
\* a failed write or a read beyond the end has touched, or that was locked when it
\* was to be dropped.
StoredView ==
    (\A t \in Threads : pc[t] # "invalidate") =>
        \A p \in uptodate["i_data"] :
            lock["i_data"][p] = None /\ <<"i_data", p>> \notin tainted
                => cached["i_data"][p] = lower[p]

\* t waits for the daemon's answer: to a read or a write of a decrypted file, or
\* to the open or the write that teadfs_write makes for a write past the end.
InUpcall(t) ==
    \/ access[t] = "decrypt" /\ pc[t] \in {"filled", "wfilled", "end"}
    \/ pc[t] = "grow" /\ size < page[t]
    \/ pc[t] = "chunk" /\ granted[t] = "decrypt"

\* A thread that waits for the daemon has no page of i_data locked but one that is
\* up to date, which is read without its lock.  i_data is the only cache the daemon's
\* own reads of the file use (user_com.c:121 makes them "init"): a callback that
\* reads the file never waits for its own answer.  A write past the end keeps this
\* only because the page is filled before the hole is (mmap.c:425-449).
UpcallLetsRead ==
    \A t \in Threads, p \in Pages :
        InUpcall(t) /\ lock["i_data"][p] = t => p \in uptodate["i_data"]
-----------------------------------------------------------------------------
\* What a comment says and the code does not do

\* mmap.c:142, "Read in a page, decrypting if necessary": a page of the
\* decrypted view that is up to date was decrypted.
PagesDecrypted ==
    \A p \in uptodate["i_decrypt"], c \in Cells :
        lock["i_decrypt"][p] = None => cached["i_decrypt"][p][c].form # "cipher"
=============================================================================
