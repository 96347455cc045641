------------------------------ MODULE FileData ------------------------------
(***************************************************************************)
(* The bytes and sizes of one open file: what read, write and truncate do  *)
(* to the lower file, to i_size and to the cached pages, against what a    *)
(* file is supposed to contain.                                            *)
(*                                                                         *)
(*   mmap.c   teadfs_read_lower, teadfs_write_lower, teadfs_readpage,      *)
(*            treadfs_write_begin, teadfs_write_end, teadfs_write,         *)
(*            truncate_upper, teadfs_truncate                              *)
(*   inode.c  teadfs_setattr, its size part                                *)
(*   file.c   teadfs_aio_read_update_atime, teadfs_aio_write               *)
(*   lookup.c the size a new inode gets                                    *)
(*                                                                         *)
(* One program works on the file and every upcall succeeds; failures and   *)
(* concurrency are the subject of modules PageCache and Upcall.  An        *)
(* encrypted file is a header followed by the encrypted bytes.             *)
(***************************************************************************)
EXTENDS Integers, Sequences

CONSTANTS
    PageSize,    \* PAGE_CACHE_SIZE
    HeaderSize,  \* ENCRYPT_FILE_HEADER_SIZE
    Accesses,    \* how the file may be opened, a subset of {"init", "decrypt"}
    MaxSize,     \* bound: no write or truncate goes beyond
    InitSize,    \* bound: length of the file at first
    MaxOps       \* bound: number of writes and truncates

ASSUME SizeAssumption ==
    /\ PageSize \in Nat \ {0} /\ HeaderSize \in Nat \ {0}
    /\ MaxSize \in Nat /\ InitSize \in Nat /\ MaxOps \in Nat
ASSUME AccessAssumption == Accesses \subseteq {"init", "decrypt"}

VARIABLES
    access,   \* file_info->access, "closed" before the file is opened
    lower,    \* the bytes of the lower file
    isize,    \* i_size of the inode
    pages,    \* the cached, up-to-date pages of file->f_mapping
    ref,      \* what the file should contain
    holed,    \* history: bytes were skipped between the old end and a write,
              \* or truncate made the file longer
    cut,      \* history: truncate made i_size smaller
    ops       \* number of writes and truncates so far

vars == <<access, lower, isize, pages, ref, holed, cut, ops>>

Smaller(a, b) == IF a < b THEN a ELSE b
Larger(a, b)  == IF a > b THEN a ELSE b

\* Bytes: 0 in holes, 1 at first, 2 when written; Junk is whatever was in the
\* memory of a new page.  The daemon's callbacks add or remove 10, one function
\* for both directions.
Junk     == 5
Header   == [i \in 1 .. HeaderSize |-> 7]
Crypt(b) == IF b < 10 THEN b + 10 ELSE b - 10
CryptAll(s) == [i \in DOMAIN s |-> Crypt(s[i])]

\* s with d at offset o, zeros in between where s was shorter.
Overwrite(s, o, d) ==
    [i \in 1 .. Larger(Len(s), o + Len(d)) |->
        IF i \in o + 1 .. o + Len(d) THEN d[i - o]
        ELSE IF i <= Len(s) THEN s[i] ELSE 0]

Resize(s, n) ==
    [i \in 1 .. n |-> IF i <= Len(s) THEN s[i] ELSE 0]

\* A new inode gets the size of the lower one (teadfs_inode_set).
Init ==
    /\ access = "closed"
    /\ \E n \in 0 .. InitSize : ref = [i \in 1 .. n |-> 1]
    /\ lower \in {ref, Header \o CryptAll(ref)}
    /\ isize = Len(lower)
    /\ pages = <<>>
    /\ holed = FALSE /\ cut = FALSE /\ ops = 0
-----------------------------------------------------------------------------
\* The daemon recognises an encrypted file by its header.
Open ==
    /\ access = "closed"
    /\ access' = IF lower = ref THEN "init" ELSE "decrypt"
    /\ access' \in Accesses
    /\ UNCHANGED <<lower, isize, pages, ref, holed, cut, ops>>

\* offset += ENCRYPT_FILE_HEADER_SIZE for a file that is decrypted.
Shift == IF access = "decrypt" THEN HeaderSize ELSE 0

Decoded(b) == IF access = "decrypt" THEN Crypt(b) ELSE b
Encoded(d) == IF access = "decrypt" THEN CryptAll(d) ELSE d

\* teadfs_read_lower of page i into new memory: what lies beyond the end of the
\* lower file is left as it was.
ReadLower(low, i) ==
    [k \in 0 .. PageSize - 1 |->
        LET o == i * PageSize + Shift + k
        IN  IF o < Len(low) THEN Decoded(low[o + 1]) ELSE Junk]

\* Mutant: the header is not skipped.
WriteLowerUnshifted(low, o, d) ==
    IF d = <<>> THEN low ELSE Overwrite(low, o, Encoded(d))

\* teadfs_write_lower: d at offset o.
WriteLower(low, o, d) ==
    IF d = <<>> THEN low ELSE Overwrite(low, o + Shift, Encoded(d))

\* Mutant: the page is not read in.
GrabPageUnread(i) == IF i \in DOMAIN pages THEN pages[i] ELSE [k \in 0 .. PageSize - 1 |-> Junk]

\* The up-to-date page i, read in if it is not cached.
GrabPage(i) == IF i \in DOMAIN pages THEN pages[i] ELSE ReadLower(lower, i)

Put(pgs, i, pg) == [j \in DOMAIN pgs \cup {i} |-> IF j = i THEN pg ELSE pgs[j]]
-----------------------------------------------------------------------------
\* truncate_upper, growing: pages of zeros, each through teadfs_write, which
\* starts at the end of the file when its offset is beyond it.

\* Mutant: teadfs_write takes the offset as it is.
ZeroChunkAsGiven(f, new, old, k) ==
    LET len == Smaller(new - old - k * PageSize, PageSize)
        at  == new + k * PageSize
    IN  [low  |-> WriteLower(f.low, at, [i \in 1 .. len |-> 0]),
         size |-> Larger(f.size, at + len)]

ZeroChunk(f, new, old, k) ==
    LET len == Smaller(new - old - k * PageSize, PageSize)
        at  == Smaller(new + k * PageSize, f.size)
    IN  [low  |-> WriteLower(f.low, at, [i \in 1 .. len |-> 0]),
         size |-> Larger(f.size, at + len)]

Grow(new) ==
    LET chunks == (new - isize + PageSize - 1) \div PageSize
        After[k \in 0 .. chunks] ==
            IF k = 0 THEN [low |-> lower, size |-> isize]
            ELSE ZeroChunk(After[k - 1], new, isize, k - 1)
    IN  After[chunks]

\* truncate_setsize: the pages of i_data are cut off, the last one is filled with
\* zeros.  A decrypted file has its pages elsewhere.
CutPages(new) ==
    IF access = "decrypt" THEN pages
    ELSE [i \in {j \in DOMAIN pages : j * PageSize < new} |->
             [k \in 0 .. PageSize - 1 |->
                 IF i * PageSize + k < new THEN pages[i][k] ELSE 0]]

\* Mutant: the header is taken off the size that the program asked for.
ShrinkByHeader(new) ==
    /\ new < isize
    /\ isize' = new - Shift
    /\ pages' = CutPages(new)
    /\ lower' = SubSeq(lower, 1, new)

\* truncate_upper, shrinking, and the notify_change of its caller.
Shrink(new) ==
    /\ new < isize
    /\ isize' = new
    /\ pages' = CutPages(new)
    /\ lower' = SubSeq(lower, 1, new)

\* ftruncate: teadfs_setattr with ATTR_SIZE.
Truncate(new) ==
    /\ access # "closed"
    /\ ops < MaxOps
    /\ ops' = ops + 1
    /\ \/ new = isize /\ UNCHANGED <<lower, isize, pages>>
       \/ Shrink(new)
       \/ new > isize /\ lower' = Grow(new).low /\ isize' = Grow(new).size /\ UNCHANGED pages
    /\ ref' = Resize(ref, new)
    /\ holed' = (holed \/ new > Len(ref))
    /\ cut' = (cut \/ new < isize)
    /\ UNCHANGED access
-----------------------------------------------------------------------------
\* treadfs_write_begin: a page of holes before page i is filled by truncate; a
\* page that begins at the end of the file is cleared.
WriteBegin(i, p) ==
    LET f  == IF i # 0 /\ i * PageSize > isize
              THEN Grow(i * PageSize) ELSE [low |-> lower, size |-> isize]
        pg == IF f.size = i * PageSize /\ p # 0
              THEN [k \in 0 .. PageSize - 1 |-> 0] ELSE GrabPage(i)
    IN  [low |-> f.low, pg |-> pg]

\* The copy from the program, and teadfs_write_end with the new size.
WriteEnd(f, i, p, d) ==
    /\ pages' = Put(pages, i, [k \in 0 .. PageSize - 1 |->
                    LET o == i * PageSize + k - p
                    IN  IF o \in 0 .. Len(d) - 1 THEN d[o + 1] ELSE f.pg[k]])
    /\ lower' = WriteLower(f.low, p, d)
    /\ isize' = Len(lower')

\* write(2) of n bytes at p, within one page.
Write(p, n) ==
    /\ access # "closed"
    /\ ops < MaxOps
    /\ (p % PageSize) + n <= PageSize
    /\ ops' = ops + 1
    /\ LET i == p \div PageSize
           d == [k \in 1 .. n |-> 2]
       IN  /\ WriteEnd(WriteBegin(i, p), i, p, d)
           /\ ref' = Overwrite(ref, p, d)
    /\ holed' = (holed \/ p > Len(ref))
    /\ UNCHANGED <<access, cut>>

\* read(2) of n bytes at p, as far as i_size: generic_file_aio_read brings the
\* pages in.  (What the call returns is the number of bytes, less the header for a
\* decrypted file.)
Read(p, n) ==
    /\ access # "closed"
    /\ p < isize
    /\ LET last == (Smaller(p + n, isize) - 1) \div PageSize
       IN  pages' = [i \in DOMAIN pages \cup (p \div PageSize) .. last |-> GrabPage(i)]
    /\ UNCHANGED <<access, lower, isize, ref, holed, cut, ops>>

\* The kernel reclaims a page.
Reclaim(i) ==
    /\ i \in DOMAIN pages
    /\ pages' = [j \in DOMAIN pages \ {i} |-> pages[j]]
    /\ UNCHANGED <<access, lower, isize, ref, holed, cut, ops>>

Next ==
    \/ Open
    \/ \E n \in 0 .. MaxSize : Truncate(n)
    \/ \E p \in 0 .. MaxSize - 1, n \in 1 .. PageSize : p + n <= MaxSize /\ Write(p, n)
    \/ \E p \in 0 .. MaxSize, n \in 1 .. MaxSize : Read(p, n)
    \/ \E i \in 0 .. MaxSize : Reclaim(i)

Spec == Init /\ [][Next]_vars
-----------------------------------------------------------------------------
Bytes == 0 .. 19

TypeOK ==
    /\ access \in {"closed", "init", "decrypt"}
    /\ lower \in Seq(Bytes) /\ ref \in Seq(Bytes)
    /\ isize \in Nat
    /\ \A i \in DOMAIN pages : i \in Nat /\ pages[i] \in [0 .. PageSize - 1 -> Bytes]
    /\ holed \in BOOLEAN /\ cut \in BOOLEAN
    /\ ops \in 0 .. MaxOps

\* A file that is not encrypted is stored byte for byte, and its size is kept,
\* through every order of writes, holes and truncates (mmap.c:208-347, :440-466).
PlainStored == access = "init" => lower = ref /\ isize = Len(ref)

\* An encrypted file that is only overwritten and appended to is stored as its
\* header and the encryption of its bytes, in every order of writes, reads and
\* reclaims (mmap.c:44, :119).  (Its i_size counts the header, lookup.c:33, and is not
\* part of this.)
CipherStored ==
    access = "decrypt" /\ ~holed /\ ~cut => lower = Header \o CryptAll(ref)

\* Without holes (and, for a decrypted file, without cuts), every cached byte of
\* the file is the file's: partial pages, the end of the file inside a page and
\* reclaimed pages included (mmap.c:146-171, :425-466, :510-520).
PagesCurrent ==
    ~holed /\ (access = "decrypt" => ~cut) =>
        \A i \in DOMAIN pages, k \in 0 .. PageSize - 1 :
            i * PageSize + k < Len(ref) => pages[i][k] = ref[i * PageSize + k + 1]
-----------------------------------------------------------------------------
\* What a comment says and the code does not do

\* mmap.c:393, "This function must zero any hole we create": bytes between the
\* old end of the file and a write beyond it read as zeros.
HolesZeroed ==
    access = "init" => \A i \in DOMAIN pages, k \in 0 .. PageSize - 1 :
        i * PageSize + k < Len(ref) => pages[i][k] # Junk
=============================================================================
