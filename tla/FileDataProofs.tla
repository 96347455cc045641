-------------------------- MODULE FileDataProofs --------------------------
(***************************************************************************)
(* Proofs about FileData for any page size, header, file size and number   *)
(* of operations: what the chunks of a growing truncate add up to, and     *)
(* that the lower file, i_size and the cached pages follow the contents.   *)
(***************************************************************************)
EXTENDS FileData, SequenceTheorems, WellFoundedInduction, TLAPS

\* Before the file is opened nothing is cached and nothing has happened to it.
ClosedInv ==
    access = "closed" =>
        /\ lower \in {ref, Header \o CryptAll(ref)} /\ isize = Len(lower)
        /\ DOMAIN pages = {} /\ ~holed /\ ~cut

\* The lower file is never shorter than i_size says, so that truncate finds what it keeps.
SizeInv == isize <= Len(lower)

\* CipherStored, and that i_size still counts the header (lookup.c:33): only then does
\* a write at the end of the contents land at the end of the lower file.
CipherInv ==
    access = "decrypt" /\ ~holed /\ ~cut =>
        lower = Header \o CryptAll(ref) /\ isize = Len(lower)

IInv == TypeOK /\ ClosedInv /\ SizeInv /\ PlainStored /\ CipherInv /\ PagesCurrent

Fill(n, b) == [i \in 1 .. n |-> b]
-----------------------------------------------------------------------------
\* Numbers and sequences

\* A set of numbers that is not empty has a least one.
LEMMA Least ==
  ASSUME NEW T, T \subseteq Nat, T # {}
  PROVE  \E x \in T : \A y \in T : ~(y < x)
<1>1. IsWellFoundedOn(OpToRel(<, Nat), Nat)
  BY NatLessThanWellFounded, Zenon
<1>2. PICK x \in T : \A y \in T : <<y, x>> \notin OpToRel(<, Nat)
  BY <1>1, WFMin, Zenon
<1>3. \A y \in T : y < x => <<y, x>> \in OpToRel(<, Nat)
  BY DEF OpToRel
<1> QED
  BY <1>2, <1>3

\* A byte offset lies in its page, at the place that is left over.
LEMMA PageOfOffset ==
  ASSUME NEW p \in Nat
  PROVE  /\ p \div PageSize \in Nat /\ p % PageSize \in 0 .. PageSize - 1
         /\ (p \div PageSize) * PageSize \in Nat
         /\ p = (p \div PageSize) * PageSize + (p % PageSize)
BY SizeAssumption, SMT

\* Pages do not overlap.
LEMMA PagesApart ==
  ASSUME NEW i \in Nat, NEW j \in Nat, i < j
  PROVE  i * PageSize + PageSize <= j * PageSize
BY SizeAssumption, SMT

LEMMA PageStart ==
  ASSUME NEW i \in Nat
  PROVE  /\ i * PageSize \in Nat
         /\ i = 0 => i * PageSize = 0
BY SizeAssumption, SMT

\* The number of chunks is the least that suffices.
LEMMA ChunkCount ==
  ASSUME NEW n \in Nat \ {0}
  PROVE  LET c == (n + PageSize - 1) \div PageSize
         IN  /\ c \in Nat \ {0}
             /\ c * PageSize >= n
             /\ (c - 1) * PageSize < n
<1> DEFINE c == (n + PageSize - 1) \div PageSize
<1>1. n + PageSize - 1 \in Nat
  BY SizeAssumption
<1>2. /\ c \in Nat /\ c * PageSize \in Nat
      /\ n + PageSize - 1 = c * PageSize + ((n + PageSize - 1) % PageSize)
      /\ (n + PageSize - 1) % PageSize \in 0 .. PageSize - 1
  BY <1>1, PageOfOffset
<1> HIDE DEF c
<1>3. c * PageSize >= n
  BY <1>2, SizeAssumption
<1>4. c # 0
  BY <1>3, PageStart
<1>5. (c - 1) * PageSize = c * PageSize - PageSize
  BY <1>2, SizeAssumption, SMT
<1>6. (c - 1) * PageSize < n
  BY <1>2, <1>5, SizeAssumption
<1> QED
  BY <1>2, <1>3, <1>4, <1>6 DEF c

\* Functions on 1 .. n are sequences.
LEMMA FunctionSeq ==
  ASSUME NEW S, NEW n \in Nat, NEW f \in [1 .. n -> S]
  PROVE  f \in Seq(S) /\ Len(f) = n /\ DOMAIN f = 1 .. n
BY IsASeq, LenProperties

LEMMA SeqFunction ==
  ASSUME NEW S, NEW s \in Seq(S)
  PROVE  Len(s) \in Nat /\ s = [i \in 1 .. Len(s) |-> s[i]] /\ \A i \in 1 .. Len(s) : s[i] \in S
BY LenProperties, ElementOfSeq

LEMMA EmptyFill ==
  ASSUME NEW b, NEW n \in Int
  PROVE  (n <= 0 => Fill(n, b) = <<>>) /\ (n > 0 => Fill(n, b) # <<>>)
<1>1. CASE n <= 0
  <2>1. 1 .. n = {} /\ 1 .. 0 = {}
    BY <1>1
  <2>2. Fill(n, b) \in [1 .. 0 -> {b}]
    BY <2>1 DEF Fill
  <2>3. Fill(n, b) \in Seq({b}) /\ Len(Fill(n, b)) = 0
    BY <2>2, FunctionSeq
  <2> QED
    BY <1>1, <2>3, EmptySeq
<1>2. CASE n > 0
  <2>1. Fill(n, b) \in [1 .. n -> {b}]
    BY DEF Fill
  <2>2. Len(Fill(n, b)) = n
    BY <1>2, <2>1, FunctionSeq
  <2> QED
    BY <1>2, <2>2, EmptySeq
<1> QED
  BY <1>1, <1>2

\* r is s with d at offset o; with n bytes b there.
Overwritten(r, s, o, d) ==
    /\ r \in Seq(Bytes) /\ Len(r) = Larger(Len(s), o + Len(d))
    /\ \A i \in 1 .. Len(r) :
          r[i] = IF i \in o + 1 .. o + Len(d) THEN d[i - o]
                 ELSE IF i <= Len(s) THEN s[i] ELSE 0
Filled(r, s, o, n, b) ==
    /\ r \in Seq(Bytes) /\ Len(r) = Larger(Len(s), o + n)
    /\ \A i \in 1 .. Len(r) :
          /\ o < i /\ i <= o + n => r[i] = b
          /\ ~(o < i /\ i <= o + n) => r[i] = IF i <= Len(s) THEN s[i] ELSE 0

\* What Overwrite does.
LEMMA OverwriteIs ==
  ASSUME NEW s \in Seq(Bytes), NEW d \in Seq(Bytes), NEW o \in Nat
  PROVE  Overwritten(Overwrite(s, o, d), s, o, d)
<1> DEFINE n == Larger(Len(s), o + Len(d))
           r == Overwrite(s, o, d)
<1>1. n \in Nat /\ 0 \in Bytes
  BY SeqFunction DEF Larger, Bytes
<1>2. ASSUME NEW i \in 1 .. n
      PROVE  (IF i \in o + 1 .. o + Len(d) THEN d[i - o]
              ELSE IF i <= Len(s) THEN s[i] ELSE 0) \in Bytes
  <2>1. CASE i \in o + 1 .. o + Len(d)
    <3>1. i - o \in 1 .. Len(d)
      BY <2>1, SeqFunction
    <3> QED
      BY <2>1, <3>1, SeqFunction
  <2>2. CASE i \notin o + 1 .. o + Len(d)
    BY <1>1, <2>2, SeqFunction
  <2> QED
    BY <2>1, <2>2
<1>3. r \in [1 .. n -> Bytes]
  BY <1>2 DEF Overwrite
<1>4. r \in Seq(Bytes) /\ Len(r) = n
  BY <1>1, <1>3, FunctionSeq
<1> QED
  BY <1>4 DEF Overwrite, Overwritten

LEMMA FillSeq ==
  ASSUME NEW b \in Bytes, NEW n \in Nat
  PROVE  Fill(n, b) \in Seq(Bytes) /\ Len(Fill(n, b)) = n /\ \A i \in 1 .. n : Fill(n, b)[i] = b
<1>1. Fill(n, b) \in [1 .. n -> Bytes]
  BY DEF Fill
<1> QED
  BY <1>1, FunctionSeq DEF Fill

\* What it is for a run of one byte.
LEMMA OverwriteFill ==
  ASSUME NEW s \in Seq(Bytes), NEW b \in Bytes, NEW o \in Nat, NEW n \in Nat
  PROVE  Filled(Overwrite(s, o, Fill(n, b)), s, o, n, b)
<1> DEFINE d == Fill(n, b)
           r == Overwrite(s, o, d)
<1>1. d \in Seq(Bytes) /\ Len(d) = n /\ \A i \in 1 .. n : d[i] = b
  BY FillSeq
<1> HIDE DEF d
<1>2. Overwritten(r, s, o, d)
  BY <1>1, OverwriteIs
<1> HIDE DEF r
<1>3. /\ r \in Seq(Bytes) /\ Len(r) = Larger(Len(s), o + n)
      /\ \A i \in 1 .. Len(r) :
            r[i] = IF i \in o + 1 .. o + n THEN d[i - o]
                   ELSE IF i <= Len(s) THEN s[i] ELSE 0
  BY <1>1, <1>2 DEF Overwritten
<1>4. ASSUME NEW i \in 1 .. Len(r)
      PROVE  /\ o < i /\ i <= o + n => r[i] = b
             /\ ~(o < i /\ i <= o + n) => r[i] = IF i <= Len(s) THEN s[i] ELSE 0
  <2>1. i \in Nat
    BY <1>3, SeqFunction
  <2>2. CASE o < i /\ i <= o + n
    <3>1. i \in o + 1 .. o + n /\ i - o \in 1 .. n
      BY <2>1, <2>2
    <3> QED
      BY <1>1, <1>3, <2>2, <3>1
  <2>3. CASE ~(o < i /\ i <= o + n)
    <3>1. i \notin o + 1 .. o + n
      BY <2>1, <2>3
    <3> QED
      BY <1>3, <2>3, <3>1
  <2> QED
    BY <2>2, <2>3
<1>5. Filled(r, s, o, n, b)
  BY <1>3, <1>4 DEF Filled
<1> QED
  BY <1>5 DEF r, d

\* One run of a byte after another is one run.
LEMMA FilledTwice ==
  ASSUME NEW s \in Seq(Bytes), NEW b \in Bytes, NEW o \in Nat,
         NEW m \in Nat, NEW n \in Nat, NEW r, NEW t, NEW u,
         Filled(r, s, o, m, b), Filled(t, r, o + m, n, b), Filled(u, s, o, m + n, b)
  PROVE  t = u
<1>2. Len(s) \in Nat
  BY SeqFunction
<1>3. /\ r \in Seq(Bytes) /\ Len(r) = Larger(Len(s), o + m)
      /\ \A i \in 1 .. Len(r) :
            /\ o < i /\ i <= o + m => r[i] = b
            /\ ~(o < i /\ i <= o + m) => r[i] = IF i <= Len(s) THEN s[i] ELSE 0
  BY DEF Filled
<1>4. /\ u \in Seq(Bytes) /\ Len(u) = Larger(Len(s), o + (m + n))
      /\ \A i \in 1 .. Len(u) :
            /\ o < i /\ i <= o + (m + n) => u[i] = b
            /\ ~(o < i /\ i <= o + (m + n)) => u[i] = IF i <= Len(s) THEN s[i] ELSE 0
  BY DEF Filled
<1>5. /\ t \in Seq(Bytes) /\ Len(t) = Larger(Len(r), (o + m) + n)
      /\ \A i \in 1 .. Len(t) :
            /\ o + m < i /\ i <= (o + m) + n => t[i] = b
            /\ ~(o + m < i /\ i <= (o + m) + n) => t[i] = IF i <= Len(r) THEN r[i] ELSE 0
  BY DEF Filled
<1>6. Len(t) = Len(u) /\ Len(u) \in Nat /\ Len(r) \in Nat /\ Len(r) <= Len(u)
  BY <1>2, <1>3, <1>4, <1>5 DEF Larger
<1>7. ASSUME NEW i \in 1 .. Len(t) PROVE t[i] = u[i]
  <2>1. i \in Nat /\ i >= 1 /\ (i <= Len(s) \/ i <= o + (m + n)) /\ i \in 1 .. Len(u)
    BY <1>2, <1>4, <1>6 DEF Larger
  <2>2. CASE o + m < i /\ i <= (o + m) + n
    BY <1>4, <1>5, <2>1, <2>2
  <2>3. CASE o < i /\ i <= o + m
    <3>1. i \in 1 .. Len(r) /\ i <= Len(r)
      BY <1>2, <1>3, <2>1, <2>3 DEF Larger
    <3>2. r[i] = b
      BY <1>3, <2>3, <3>1
    <3>3. u[i] = b
      BY <1>4, <2>1, <2>3
    <3> QED
      BY <1>5, <2>1, <2>3, <3>1, <3>2, <3>3
  <2>4. CASE i <= o \/ i > o + (m + n)
    <3>1. i <= Len(s) \/ i <= o
      BY <1>2, <2>1, <2>4
    <3>2. ~(o < i /\ i <= o + m) /\ ~(o + m < i /\ i <= (o + m) + n)
          /\ ~(o < i /\ i <= o + (m + n))
      BY <2>1, <2>4
    <3>3. i <= Len(r)
      BY <1>2, <1>3, <2>1, <3>1 DEF Larger
    <3>4. r[i] = IF i <= Len(s) THEN s[i] ELSE 0
      BY <1>3, <1>6, <2>1, <3>2, <3>3
    <3>5. u[i] = IF i <= Len(s) THEN s[i] ELSE 0
      BY <1>4, <2>1, <3>2
    <3> QED
      BY <1>5, <3>2, <3>3, <3>4, <3>5
  <2> QED
    BY <2>1, <2>2, <2>3, <2>4
<1> QED
  BY <1>4, <1>5, <1>6, <1>7, SeqEqual
-----------------------------------------------------------------------------
\* The lower file

\* The daemon's functions undo each other.
LEMMA CryptTwice ==
  ASSUME NEW b \in Bytes
  PROVE  Crypt(b) \in Bytes /\ Crypt(Crypt(b)) = b
BY DEF Crypt, Bytes

LEMMA CryptSeq ==
  ASSUME NEW s \in Seq(Bytes)
  PROVE  /\ CryptAll(s) \in Seq(Bytes) /\ Len(CryptAll(s)) = Len(s)
         /\ \A i \in 1 .. Len(s) : CryptAll(s)[i] = Crypt(s[i])
<1>1. Len(s) \in Nat /\ DOMAIN s = 1 .. Len(s) /\ \A i \in 1 .. Len(s) : s[i] \in Bytes
  BY LenProperties, SeqFunction
<1>2. CryptAll(s) \in [1 .. Len(s) -> Bytes]
  BY <1>1, CryptTwice DEF CryptAll
<1> QED
  BY <1>1, <1>2, FunctionSeq DEF CryptAll

LEMMA EncodedSeq ==
  ASSUME NEW s \in Seq(Bytes)
  PROVE  /\ Encoded(s) \in Seq(Bytes) /\ Len(Encoded(s)) = Len(s)
         /\ \A i \in 1 .. Len(s) : Encoded(s)[i] = Decoded(s[i])
BY CryptSeq DEF Encoded, Decoded

LEMMA ShiftType == Shift \in Nat
BY SizeAssumption DEF Shift

LEMMA WriteLowerIs ==
  ASSUME NEW s \in Seq(Bytes), NEW d \in Seq(Bytes), NEW o \in Nat
  PROVE  /\ WriteLower(s, o, d) \in Seq(Bytes)
         /\ Len(WriteLower(s, o, d)) >= Len(s)
         /\ d # <<>> => Len(WriteLower(s, o, d)) >= o + Len(d)
<1>1. 0 \in Bytes /\ Len(s) \in Nat /\ Len(d) \in Nat /\ o + Shift \in Nat
  BY SeqFunction, ShiftType DEF Bytes
<1>2. Encoded(d) \in Seq(Bytes) /\ Len(Encoded(d)) = Len(d)
  BY EncodedSeq
<1>3. Overwritten(Overwrite(s, o + Shift, Encoded(d)), s, o + Shift, Encoded(d))
  BY <1>1, <1>2, OverwriteIs
<1>4. /\ Overwrite(s, o + Shift, Encoded(d)) \in Seq(Bytes)
      /\ Len(Overwrite(s, o + Shift, Encoded(d))) = Larger(Len(s), (o + Shift) + Len(d))
  BY <1>2, <1>3 DEF Overwritten
<1>5. Larger(Len(s), (o + Shift) + Len(d)) >= Len(s)
      /\ Larger(Len(s), (o + Shift) + Len(d)) >= o + Len(d)
  BY <1>1, ShiftType DEF Larger
<1> QED
  BY <1>1, <1>4, <1>5 DEF WriteLower

\* Encoded zeros are a run of one byte.
LEMMA EncodedFill ==
  ASSUME NEW n \in Nat
  PROVE  Encoded(Fill(n, 0)) = Fill(n, Decoded(0)) /\ Decoded(0) \in Bytes
<1>1. 0 \in Bytes
  BY DEF Bytes
<1>2. Decoded(0) \in Bytes
  BY <1>1, CryptTwice DEF Decoded
<1>3. CryptAll(Fill(n, 0)) = Fill(n, Crypt(0))
  BY DEF CryptAll, Fill
<1> QED
  BY <1>2, <1>3 DEF Encoded, Decoded

\* Writing zeros in two pieces is writing them at once.
LEMMA WriteZeros ==
  ASSUME NEW s \in Seq(Bytes), NEW o \in Nat, NEW m \in Nat, NEW n \in Nat
  PROVE  WriteLower(WriteLower(s, o, Fill(m, 0)), o + m, Fill(n, 0))
             = WriteLower(s, o, Fill(m + n, 0))
<1>1. CASE m = 0
  BY <1>1, EmptyFill DEF WriteLower
<1>2. CASE n = 0
  BY <1>2, EmptyFill DEF WriteLower
<1>3. CASE m # 0 /\ n # 0
  <2>1. Fill(m, 0) # <<>> /\ Fill(n, 0) # <<>> /\ Fill(m + n, 0) # <<>>
    BY <1>3, EmptyFill
  <2>2. o + Shift \in Nat /\ (o + m) + Shift = (o + Shift) + m /\ 0 \in Bytes
    BY ShiftType DEF Bytes
  <2>3. /\ Encoded(Fill(m, 0)) = Fill(m, Decoded(0))
        /\ Encoded(Fill(n, 0)) = Fill(n, Decoded(0))
        /\ Encoded(Fill(m + n, 0)) = Fill(m + n, Decoded(0))
        /\ Decoded(0) \in Bytes
    BY EncodedFill
  <2> DEFINE r == Overwrite(s, o + Shift, Fill(m, Decoded(0)))
             t == Overwrite(r, (o + Shift) + m, Fill(n, Decoded(0)))
             u == Overwrite(s, o + Shift, Fill(m + n, Decoded(0)))
  <2>4. Filled(r, s, o + Shift, m, Decoded(0))
    BY <2>2, <2>3, OverwriteFill
  <2>5. r \in Seq(Bytes)
    BY <2>4 DEF Filled
  <2>6. Filled(t, r, (o + Shift) + m, n, Decoded(0))
    <3> HIDE DEF r
    <3> QED
      BY <2>2, <2>3, <2>5, OverwriteFill
  <2>7. Filled(u, s, o + Shift, m + n, Decoded(0))
    BY <2>2, <2>3, OverwriteFill
  <2>8. t = u
    <3> HIDE DEF r, t, u
    <3> QED
      BY <2>2, <2>3, <2>4, <2>6, <2>7, FilledTwice
  <2> QED
    BY <2>1, <2>2, <2>3, <2>8 DEF WriteLower
<1> QED
  BY <1>1, <1>2, <1>3

-----------------------------------------------------------------------------
\* The chunks of truncate_upper

\* How many zeros the first k chunks have written of n, and what they leave.
Done(k, n) == Smaller(k * PageSize, n)
Step(k, n) == [low  |-> WriteLower(lower, isize, Fill(Done(k, n), 0)),
               size |-> isize + Done(k, n)]

\* A chunk starts where the last one ended, since teadfs_write goes back to the
\* end of the file.
LEMMA ChunkStep ==
  ASSUME lower \in Seq(Bytes), isize \in Nat, NEW new \in Nat, isize < new,
         NEW k \in Nat, k * PageSize < new - isize
  PROVE  ZeroChunk(Step(k, new - isize), new, isize, k) = Step(k + 1, new - isize)
<1> DEFINE n   == new - isize
           a   == k * PageSize
           len == Smaller(n - a, PageSize)
<1>1. a \in Nat /\ (k + 1) * PageSize = a + PageSize /\ n \in Nat /\ a < n
  BY PageStart, SizeAssumption, SMT
<1>2. new - isize - k * PageSize = n - a
  OBVIOUS
<1> HIDE DEF n, a
<1>3. len \in Nat /\ Done(k, n) = a /\ Done(k + 1, n) = a + len /\ isize + n = new
  <2>1. Done(k, n) = a
    BY <1>1 DEF Done, Smaller, a
  <2>2. Done(k + 1, n) = a + len
    BY <1>1, SizeAssumption DEF Done, Smaller
  <2>3. len \in Nat
    BY <1>1, SizeAssumption DEF Smaller
  <2>4. isize + n = new
    BY DEF n
  <2> QED
    BY <2>1, <2>2, <2>3, <2>4
<1> HIDE DEF len
<1>4. Step(k, n) = [low |-> WriteLower(lower, isize, Fill(a, 0)), size |-> isize + a]
  BY <1>3 DEF Step
<1>5. Step(k + 1, n) = [low |-> WriteLower(lower, isize, Fill(a + len, 0)), size |-> isize + (a + len)]
  BY <1>3 DEF Step
<1>6. Smaller(new + a, isize + a) = isize + a
  BY <1>1 DEF Smaller
<1>7. Larger(isize + a, (isize + a) + len) = isize + (a + len)
  BY <1>1, <1>3 DEF Larger
<1>8. WriteLower(WriteLower(lower, isize, Fill(a, 0)), isize + a, Fill(len, 0))
         = WriteLower(lower, isize, Fill(a + len, 0))
  BY <1>1, <1>3, WriteZeros
<1>9. ASSUME NEW f, f.size = isize + a
      PROVE  ZeroChunk(f, new, isize, k)
                = [low  |-> WriteLower(f.low, isize + a, Fill(len, 0)),
                   size |-> isize + (a + len)]
  BY <1>2, <1>6, <1>7, <1>9 DEF ZeroChunk, Fill, len, a
<1>10. /\ Step(k, n).size = isize + a
       /\ Step(k, n).low = WriteLower(lower, isize, Fill(a, 0))
  BY <1>4
<1>11. ZeroChunk(Step(k, n), new, isize, k) = Step(k + 1, n)
  BY <1>5, <1>8, <1>9, <1>10
<1> QED
  BY <1>11 DEF n

\* The loop of truncate_upper with teadfs_write adds up: all its chunks together are one
\* write of the missing zeros at the end of the file, however many pages that takes, and
\* the size ends at the one that was asked for.
THEOREM ChunksAddUp ==
  ASSUME lower \in Seq(Bytes), isize \in Nat, NEW new \in Nat, isize < new
  PROVE  Grow(new) = [low  |-> WriteLower(lower, isize, Fill(new - isize, 0)), size |-> new]
<1> DEFINE n == new - isize
           c == (new - isize + PageSize - 1) \div PageSize
           F(g) == [k \in 0 .. c |-> IF k = 0 THEN [low |-> lower, size |-> isize]
                                     ELSE ZeroChunk(g[k - 1], new, isize, k - 1)]
           After == CHOOSE g : g = F(g)
           G == [k \in 0 .. c |-> Step(k, n)]
<1>1. Grow(new) = After[c]
  BY DEF Grow
<1>2. n \in Nat \ {0} /\ c \in Nat \ {0} /\ c * PageSize >= n /\ (c - 1) * PageSize < n
  BY ChunkCount
<1> HIDE DEF c
<1>3. Step(0, n) = [low |-> lower, size |-> isize]
  <2>1. Done(0, n) = 0
    BY <1>2, PageStart DEF Done, Smaller
  <2>2. WriteLower(lower, isize, Fill(0, 0)) = lower
    BY EmptyFill DEF WriteLower
  <2> QED
    BY <2>1, <2>2 DEF Step
<1>4. ASSUME NEW k \in 1 .. c
      PROVE  Step(k, n) = ZeroChunk(Step(k - 1, n), new, isize, k - 1)
  <2>1. k - 1 \in Nat /\ (k - 1) + 1 = k /\ k - 1 <= c - 1
    BY <1>2
  <2>2. (k - 1) * PageSize <= (c - 1) * PageSize
    BY <1>2, <2>1, SizeAssumption, SMT
  <2>3. (k - 1) * PageSize < n
    BY <1>2, <2>1, <2>2, SizeAssumption, SMT
  <2> QED
    BY <2>1, <2>3, ChunkStep
<1>5. G = F(G)
  <2>1. ASSUME NEW k \in 0 .. c
        PROVE  G[k] = IF k = 0 THEN [low |-> lower, size |-> isize]
                      ELSE ZeroChunk(G[k - 1], new, isize, k - 1)
    <3>1. CASE k = 0
      BY <1>2, <1>3, <3>1
    <3>2. CASE k # 0
      <4>1. k \in 1 .. c /\ k - 1 \in 0 .. c
        BY <1>2, <3>2
      <4> QED
        BY <1>4, <3>2, <4>1
    <3> QED
      BY <3>1, <3>2
  <2> QED
    BY <2>1
<1>6. After = F(After)
  BY <1>5, Zenon
<1> HIDE DEF After, F
<1>7. \A k \in 0 .. c : After[k] = IF k = 0 THEN [low |-> lower, size |-> isize]
                                   ELSE ZeroChunk(After[k - 1], new, isize, k - 1)
  BY <1>6 DEF F
<1>8. \A k \in 0 .. c : After[k] = Step(k, n)
  <2> DEFINE T == {k \in 0 .. c : After[k] # Step(k, n)}
  <2>1. SUFFICES ASSUME T # {} PROVE FALSE
    OBVIOUS
  <2>2. T \subseteq Nat
    BY <1>2
  <2>3. PICK k \in T : \A j \in T : ~(j < k)
    BY <2>1, <2>2, Least
  <2>4. k \in 0 .. c /\ After[k] # Step(k, n)
    BY <2>3
  <2>5. k # 0
    BY <1>3, <1>7, <2>4
  <2>6. k \in 1 .. c /\ k - 1 \in 0 .. c /\ k - 1 < k
    BY <1>2, <2>4, <2>5
  <2>7. After[k - 1] = Step(k - 1, n)
    BY <2>3, <2>6
  <2> QED
    BY <1>4, <1>7, <2>4, <2>5, <2>6, <2>7
<1>9. Done(c, n) = n /\ isize + n = new
  BY <1>2, PageStart DEF Done, Smaller
<1>10. After[c] = Step(c, n)
  BY <1>2, <1>8
<1> QED
  BY <1>1, <1>9, <1>10 DEF Step

-----------------------------------------------------------------------------
\* Stored files

\* The encrypted form of s.
Cipher(s) == Header \o CryptAll(s)

LEMMA CipherIs ==
  ASSUME NEW s \in Seq(Bytes)
  PROVE  /\ Cipher(s) \in Seq(Bytes) /\ Len(Cipher(s)) = HeaderSize + Len(s)
         /\ \A i \in 1 .. HeaderSize : Cipher(s)[i] = 7
         /\ \A i \in 1 .. Len(s) : Cipher(s)[HeaderSize + i] = Crypt(s[i])
<1> DEFINE c == CryptAll(s)
<1>1. c \in Seq(Bytes) /\ Len(c) = Len(s) /\ \A i \in 1 .. Len(s) : c[i] = Crypt(s[i])
  BY CryptSeq
<1>2. Header \in [1 .. HeaderSize -> Bytes]
  BY DEF Header, Bytes
<1>3. Header \in Seq(Bytes) /\ Len(Header) = HeaderSize
  BY <1>2, SizeAssumption, FunctionSeq
<1>4. \A i \in 1 .. HeaderSize : Header[i] = 7
  BY DEF Header
<1> HIDE DEF c
<1>5. /\ Header \o c \in Seq(Bytes) /\ Len(Header \o c) = HeaderSize + Len(s)
      /\ \A i \in 1 .. HeaderSize + Len(s) :
            (Header \o c)[i] = IF i <= HeaderSize THEN Header[i] ELSE c[i - HeaderSize]
  <2>1. /\ Header \o c \in Seq(Bytes) /\ Len(Header \o c) = Len(Header) + Len(c)
        /\ \A i \in 1 .. Len(Header) + Len(c) :
              (Header \o c)[i] = IF i <= Len(Header) THEN Header[i] ELSE c[i - Len(Header)]
    BY <1>1, <1>3, ConcatProperties
  <2> QED
    BY <1>1, <1>3, <2>1
<1>6. Len(s) \in Nat
  BY SeqFunction
<1>7. ASSUME NEW i \in 1 .. HeaderSize PROVE (Header \o c)[i] = 7
  BY <1>4, <1>5, <1>6, SizeAssumption
<1>8. ASSUME NEW i \in 1 .. Len(s) PROVE (Header \o c)[HeaderSize + i] = Crypt(s[i])
  <2>1. HeaderSize + i \in 1 .. HeaderSize + Len(s) /\ ~(HeaderSize + i <= HeaderSize)
        /\ (HeaderSize + i) - HeaderSize = i
    BY <1>6, SizeAssumption
  <2> QED
    BY <1>1, <1>5, <2>1
<1> QED
  BY <1>5, <1>7, <1>8 DEF Cipher, c

LEMMA ResizeIs ==
  ASSUME NEW s \in Seq(Bytes), NEW n \in Nat
  PROVE  /\ Resize(s, n) \in Seq(Bytes) /\ Len(Resize(s, n)) = n
         /\ \A i \in 1 .. n : Resize(s, n)[i] = IF i <= Len(s) THEN s[i] ELSE 0
<1>1. Len(s) \in Nat /\ 0 \in Bytes
  BY SeqFunction DEF Bytes
<1>2. ASSUME NEW i \in 1 .. n PROVE (IF i <= Len(s) THEN s[i] ELSE 0) \in Bytes
  BY <1>1, SeqFunction
<1>3. Resize(s, n) \in [1 .. n -> Bytes]
  BY <1>2 DEF Resize
<1> QED
  BY <1>3, FunctionSeq DEF Resize

\* Cutting a sequence off, leaving it and adding zeros are resizing it.
LEMMA ResizeShorter ==
  ASSUME NEW s \in Seq(Bytes), NEW n \in Nat, n <= Len(s)
  PROVE  SubSeq(s, 1, n) = Resize(s, n) /\ (n = Len(s) => Resize(s, n) = s)
<1>1. Len(s) \in Nat
  BY SeqFunction
<1>2. /\ SubSeq(s, 1, n) \in Seq(Bytes) /\ Len(SubSeq(s, 1, n)) = n
      /\ \A i \in 1 .. n : SubSeq(s, 1, n)[i] = s[i]
  <2>1. 1 \in 1 .. Len(s) + 1 /\ n \in 0 .. Len(s)
    BY <1>1
  <2> QED
    BY <1>1, <2>1
<1>3. /\ Resize(s, n) \in Seq(Bytes) /\ Len(Resize(s, n)) = n
      /\ \A i \in 1 .. n : Resize(s, n)[i] = s[i]
  BY <1>1, ResizeIs
<1> HIDE DEF Resize
<1>4. SubSeq(s, 1, n) = Resize(s, n)
  BY <1>2, <1>3, SeqEqual
<1>5. n = Len(s) => Resize(s, n) = s
  BY <1>3, SeqEqual
<1> QED
  BY <1>4, <1>5

LEMMA ResizeLonger ==
  ASSUME NEW s \in Seq(Bytes), NEW n \in Nat, NEW r, Filled(r, s, Len(s), n, 0)
  PROVE  r = Resize(s, Len(s) + n)
<1>1. Len(s) \in Nat /\ Len(s) + n \in Nat
  BY SeqFunction
<1>2. /\ r \in Seq(Bytes) /\ Len(r) = Len(s) + n
      /\ \A i \in 1 .. Len(s) + n : r[i] = IF i <= Len(s) THEN s[i] ELSE 0
  BY <1>1 DEF Filled, Larger
<1>3. /\ Resize(s, Len(s) + n) \in Seq(Bytes) /\ Len(Resize(s, Len(s) + n)) = Len(s) + n
      /\ \A i \in 1 .. Len(s) + n : Resize(s, Len(s) + n)[i] = IF i <= Len(s) THEN s[i] ELSE 0
  BY <1>1, ResizeIs
<1> QED
  BY <1>1, <1>2, <1>3, SeqEqual

\* Data written beyond zeros that were put at the end are written to the file itself.
LEMMA OverwriteResized ==
  ASSUME NEW s \in Seq(Bytes), NEW d \in Seq(Bytes), NEW m \in Nat, NEW o \in Nat, m <= o,
         Len(s) <= m
  PROVE  Overwrite(Resize(s, m), o, d) = Overwrite(s, o, d)
<1> DEFINE z == Resize(s, m)
           t == Overwrite(z, o, d)
           u == Overwrite(s, o, d)
<1>1. z \in Seq(Bytes) /\ Len(z) = m
      /\ \A i \in 1 .. m : z[i] = IF i <= Len(s) THEN s[i] ELSE 0
  BY ResizeIs
<1>2. Len(s) \in Nat /\ Len(d) \in Nat
  BY SeqFunction
<1> HIDE DEF z
<1>3. Overwritten(t, z, o, d) /\ Overwritten(u, s, o, d)
  BY <1>1, OverwriteIs
<1> HIDE DEF t, u
<1>4. Len(t) = o + Len(d) /\ Len(u) = o + Len(d) /\ t \in Seq(Bytes) /\ u \in Seq(Bytes)
  BY <1>1, <1>2, <1>3 DEF Overwritten, Larger
<1>5. ASSUME NEW i \in 1 .. Len(t) PROVE t[i] = u[i]
  <2>1. t[i] = IF i \in o + 1 .. o + Len(d) THEN d[i - o] ELSE IF i <= Len(z) THEN z[i] ELSE 0
    BY <1>3 DEF Overwritten
  <2>2. u[i] = IF i \in o + 1 .. o + Len(d) THEN d[i - o] ELSE IF i <= Len(s) THEN s[i] ELSE 0
    BY <1>3, <1>4 DEF Overwritten
  <2>3. i \in Nat /\ i >= 1
    BY <1>2, <1>4
  <2>4. i <= Len(z) => i \in 1 .. m
    BY <1>1, <2>3
  <2>5. i <= Len(s) => i <= Len(z)
    BY <1>1, <1>2, <2>3
  <2> QED
    BY <1>1, <2>1, <2>2, <2>4, <2>5
<1>6. t = u
  BY <1>4, <1>5, SeqEqual
<1> QED
  BY <1>6 DEF t, u, z

\* Encrypted data written behind the header are the data written, encrypted, when
\* nothing is skipped.
LEMMA OverwriteCipher ==
  ASSUME NEW s \in Seq(Bytes), NEW d \in Seq(Bytes), NEW o \in Nat, o <= Len(s)
  PROVE  Overwrite(Cipher(s), o + HeaderSize, CryptAll(d)) = Cipher(Overwrite(s, o, d))
<1> DEFINE c == Cipher(s)
           e == CryptAll(d)
           t == Overwrite(c, o + HeaderSize, e)
           r == Overwrite(s, o, d)
           u == Cipher(r)
<1>1. /\ c \in Seq(Bytes) /\ Len(c) = HeaderSize + Len(s)
      /\ \A i \in 1 .. HeaderSize : c[i] = 7
      /\ \A i \in 1 .. Len(s) : c[HeaderSize + i] = Crypt(s[i])
  BY CipherIs
<1>2. e \in Seq(Bytes) /\ Len(e) = Len(d) /\ \A i \in 1 .. Len(d) : e[i] = Crypt(d[i])
  BY CryptSeq
<1>3. Len(s) \in Nat /\ Len(d) \in Nat /\ o + HeaderSize \in Nat /\ HeaderSize \in Nat
  BY SeqFunction, SizeAssumption
<1> HIDE DEF c, e
<1>4. Overwritten(t, c, o + HeaderSize, e) /\ Overwritten(r, s, o, d)
  BY <1>1, <1>2, <1>3, OverwriteIs
<1> HIDE DEF t, r
<1>5. r \in Seq(Bytes) /\ Len(r) = Larger(Len(s), o + Len(d))
  BY <1>4 DEF Overwritten
<1>6. /\ u \in Seq(Bytes) /\ Len(u) = HeaderSize + Len(r)
      /\ \A i \in 1 .. HeaderSize : u[i] = 7
      /\ \A i \in 1 .. Len(r) : u[HeaderSize + i] = Crypt(r[i])
  BY <1>5, CipherIs
<1> HIDE DEF u
<1>7. t \in Seq(Bytes) /\ Len(t) = Len(u) /\ Len(r) \in Nat
  BY <1>1, <1>2, <1>3, <1>4, <1>5, <1>6 DEF Overwritten, Larger
<1>8. ASSUME NEW i \in 1 .. Len(t) PROVE t[i] = u[i]
  <2>1. t[i] = IF i \in (o + HeaderSize) + 1 .. (o + HeaderSize) + Len(d)
               THEN e[i - (o + HeaderSize)]
               ELSE IF i <= HeaderSize + Len(s) THEN c[i] ELSE 0
    BY <1>1, <1>2, <1>4 DEF Overwritten
  <2>2. i \in Nat /\ i >= 1 /\ i <= HeaderSize + Len(r)
    BY <1>3, <1>6, <1>7
  <2>3. CASE i <= HeaderSize
    <3>1. i \in 1 .. HeaderSize /\ i <= HeaderSize + Len(s)
          /\ i \notin (o + HeaderSize) + 1 .. (o + HeaderSize) + Len(d)
      BY <1>3, <2>2, <2>3
    <3> QED
      BY <1>1, <1>6, <2>1, <3>1
  <2>4. CASE i > HeaderSize
    <3> DEFINE j == i - HeaderSize
    <3>1. j \in 1 .. Len(r) /\ HeaderSize + j = i
      BY <1>3, <1>7, <2>2, <2>4
    <3>2. u[i] = Crypt(r[j])
      BY <1>6, <3>1
    <3>3. r[j] = IF j \in o + 1 .. o + Len(d) THEN d[j - o]
                 ELSE IF j <= Len(s) THEN s[j] ELSE 0
      BY <1>4, <3>1 DEF Overwritten
    <3>4. CASE j \in o + 1 .. o + Len(d)
      <4>1. i \in (o + HeaderSize) + 1 .. (o + HeaderSize) + Len(d)
            /\ i - (o + HeaderSize) = j - o /\ j - o \in 1 .. Len(d)
        BY <1>3, <2>2, <3>4
      <4> QED
        BY <1>2, <2>1, <3>2, <3>3, <3>4, <4>1
    <3>5. CASE j \notin o + 1 .. o + Len(d)
      <4>1. i \notin (o + HeaderSize) + 1 .. (o + HeaderSize) + Len(d)
        BY <1>3, <2>2, <3>5
      <4>2. j <= Len(s) /\ j \in 1 .. Len(s) /\ i <= HeaderSize + Len(s)
        BY <1>3, <1>5, <2>2, <3>1, <3>5 DEF Larger
      <4> QED
        BY <1>1, <2>1, <3>1, <3>2, <3>3, <3>5, <4>1, <4>2
    <3> QED
      BY <3>4, <3>5
  <2> QED
    BY <1>3, <2>2, <2>3, <2>4
<1>9. t = u
  BY <1>6, <1>7, <1>8, SeqEqual
<1> QED
  BY <1>9 DEF t, u, r, c, e

-----------------------------------------------------------------------------
\* Pages

Page == [0 .. PageSize - 1 -> Bytes]

\* The pages pgs agree with the contents r as far as these go.
Current(pgs, r) ==
    \A i \in DOMAIN pgs, k \in 0 .. PageSize - 1 :
        i * PageSize + k < Len(r) => pgs[i][k] = r[i * PageSize + k + 1]

Typed(pgs) == \A i \in DOMAIN pgs : i \in Nat /\ pgs[i] \in Page

LEMMA PagesAre ==
  /\ TypeOK => Typed(pages)
  /\ PagesCurrent <=> (~holed /\ (access = "decrypt" => ~cut) => Current(pages, ref))
BY DEF TypeOK, Typed, Page, PagesCurrent, Current

LEMMA DecodedType ==
  ASSUME NEW b \in Bytes
  PROVE  Decoded(b) \in Bytes
BY CryptTwice DEF Decoded

LEMMA ReadType ==
  ASSUME lower \in Seq(Bytes), NEW i \in Nat
  PROVE  ReadLower(lower, i) \in Page
<1>1. i * PageSize \in Nat /\ Shift \in Nat /\ Junk \in Bytes /\ PageSize \in Nat
  BY PageStart, ShiftType, SizeAssumption DEF Junk, Bytes
<1>2. ASSUME NEW k \in 0 .. PageSize - 1
      PROVE  (IF i * PageSize + Shift + k < Len(lower)
              THEN Decoded(lower[i * PageSize + Shift + k + 1]) ELSE Junk) \in Bytes
  <2>1. CASE i * PageSize + Shift + k < Len(lower)
    <3>1. i * PageSize + Shift + k + 1 \in 1 .. Len(lower)
      BY <1>1, <2>1, SeqFunction
    <3>2. lower[i * PageSize + Shift + k + 1] \in Bytes
      BY <3>1, SeqFunction
    <3> QED
      BY <2>1, <3>2, DecodedType
  <2>2. CASE ~(i * PageSize + Shift + k < Len(lower))
    BY <1>1, <2>2
  <2> QED
    BY <2>1, <2>2
<1> QED
  BY <1>2 DEF ReadLower, Page

LEMMA GrabType ==
  ASSUME TypeOK, NEW i \in Nat
  PROVE  GrabPage(i) \in Page
BY ReadType DEF GrabPage, TypeOK, Page

\* What is read from the lower file is the file's, behind the header of an encrypted one.
LEMMA ReadCurrent ==
  ASSUME TypeOK, PlainStored, CipherInv, access \in {"init", "decrypt"}, ~holed,
         access = "decrypt" => ~cut, NEW i \in Nat, NEW k \in 0 .. PageSize - 1,
         i * PageSize + k < Len(ref)
  PROVE  ReadLower(lower, i)[k] = ref[i * PageSize + k + 1]
<1> DEFINE b == i * PageSize + k
<1>1. b \in Nat /\ i * PageSize \in Nat /\ ref \in Seq(Bytes) /\ Len(ref) \in Nat
      /\ HeaderSize \in Nat
  BY PageStart, SizeAssumption, SeqFunction DEF TypeOK
<1>2. b + 1 \in 1 .. Len(ref)
  BY <1>1
<1>3. ref[b + 1] \in Bytes
  BY <1>1, <1>2, SeqFunction
<1>4. ReadLower(lower, i)[k] = IF i * PageSize + Shift + k < Len(lower)
                               THEN Decoded(lower[i * PageSize + Shift + k + 1]) ELSE Junk
  BY DEF ReadLower
<1>5. CASE access = "init"
  <2>1. lower = ref /\ Shift = 0
    BY <1>5 DEF PlainStored, Shift
  <2>2. i * PageSize + 0 + k = b
    BY <1>1
  <2> QED
    BY <1>4, <1>5, <2>1, <2>2 DEF Decoded
<1>6. CASE access = "decrypt"
  <2>1. lower = Cipher(ref) /\ Shift = HeaderSize
    BY <1>6 DEF CipherInv, Shift, Cipher
  <2>2. i * PageSize + HeaderSize + k = HeaderSize + b
        /\ i * PageSize + HeaderSize + k + 1 = HeaderSize + (b + 1)
    BY <1>1
  <2>3. Len(lower) = HeaderSize + Len(ref) /\ lower[HeaderSize + (b + 1)] = Crypt(ref[b + 1])
    BY <1>1, <1>2, <2>1, CipherIs
  <2>4. HeaderSize + b < HeaderSize + Len(ref)
    BY <1>1
  <2>5. ReadLower(lower, i)[k] = Crypt(Crypt(ref[b + 1]))
    BY <1>4, <1>6, <2>1, <2>2, <2>3, <2>4 DEF Decoded
  <2> QED
    BY <1>3, <2>5, CryptTwice
<1> QED
  BY <1>5, <1>6

LEMMA GrabCurrent ==
  ASSUME TypeOK, PlainStored, CipherInv, PagesCurrent, access \in {"init", "decrypt"},
         ~holed, access = "decrypt" => ~cut, NEW i \in Nat, NEW k \in 0 .. PageSize - 1,
         i * PageSize + k < Len(ref)
  PROVE  GrabPage(i)[k] = ref[i * PageSize + k + 1]
<1>1. CASE i \in DOMAIN pages
  BY <1>1 DEF GrabPage, PagesCurrent
<1>2. CASE i \notin DOMAIN pages
  BY <1>2, ReadCurrent DEF GrabPage
<1> QED
  BY <1>1, <1>2
-----------------------------------------------------------------------------
\* Steps that leave the lower file alone

LEMMA InitInv == Init => IInv
<1> SUFFICES ASSUME Init PROVE IInv
  OBVIOUS
<1>1. PICK n \in 0 .. InitSize : ref = [i \in 1 .. n |-> 1]
  BY DEF Init
<1>2. /\ access = "closed" /\ lower \in {ref, Cipher(ref)} /\ isize = Len(lower)
      /\ pages = <<>> /\ holed = FALSE /\ cut = FALSE /\ ops = 0
  BY DEF Init, Cipher
<1>3. ref \in Seq(Bytes)
  <2>1. 1 \in Bytes /\ n \in Nat
    BY SizeAssumption DEF Bytes
  <2> QED
    BY <1>1, <2>1, FillSeq DEF Fill
<1>4. lower \in Seq(Bytes) /\ isize \in Nat
  <2>1. lower \in Seq(Bytes)
    BY <1>2, <1>3, CipherIs
  <2> QED
    BY <1>2, <2>1, SeqFunction
<1>5. DOMAIN pages = {}
  <2>1. <<>> \in Seq(Bytes) /\ Len(<<>>) = 0
    BY EmptySeq
  <2>2. DOMAIN <<>> = 1 .. Len(<<>>)
    BY <2>1, LenProperties
  <2> QED
    BY <1>2, <2>1, <2>2
<1>6. TypeOK
  <2>1. ops \in 0 .. MaxOps
    BY <1>2, SizeAssumption
  <2>2. \A i \in DOMAIN pages : i \in Nat /\ pages[i] \in [0 .. PageSize - 1 -> Bytes]
    BY <1>5
  <2> QED
    BY <1>2, <1>3, <1>4, <2>1, <2>2 DEF TypeOK
<1>7. ClosedInv
  BY <1>2, <1>5 DEF ClosedInv, Cipher
<1>8. SizeInv /\ PlainStored /\ CipherInv
  BY <1>2, <1>4 DEF SizeInv, PlainStored, CipherInv
<1>9. PagesCurrent
  BY <1>5 DEF PagesCurrent
<1> QED
  BY <1>6, <1>7, <1>8, <1>9 DEF IInv

LEMMA OpenStep ==
  ASSUME IInv, Open
  PROVE  IInv'
<1>1. /\ access = "closed" /\ access' = IF lower = ref THEN "init" ELSE "decrypt"
      /\ lower' = lower /\ isize' = isize /\ pages' = pages /\ ref' = ref
      /\ holed' = holed /\ cut' = cut /\ ops' = ops
  BY DEF Open
<1>2. /\ lower \in {ref, Header \o CryptAll(ref)} /\ isize = Len(lower) /\ DOMAIN pages = {}
      /\ ~holed /\ ~cut
  BY <1>1 DEF IInv, ClosedInv
<1>3. TypeOK'
  BY <1>1 DEF IInv, TypeOK
<1>4. ClosedInv' /\ SizeInv'
  BY <1>1 DEF IInv, ClosedInv, SizeInv
<1>5. PlainStored' /\ CipherInv'
  BY <1>1, <1>2 DEF PlainStored, CipherInv, Header, CryptAll, Crypt
<1>6. PagesCurrent'
  BY <1>1, <1>2 DEF PagesCurrent
<1> QED
  BY <1>3, <1>4, <1>5, <1>6 DEF IInv

\* Steps that only change which pages are cached.
LEMMA PagesStep ==
  ASSUME IInv, access # "closed", UNCHANGED <<access, lower, isize, ref, holed, cut, ops>>,
         Typed(pages'), ~holed /\ (access = "decrypt" => ~cut) => Current(pages', ref)
  PROVE  IInv'
<1>1. TypeOK'
  BY DEF IInv, TypeOK, Typed, Page
<1>2. ClosedInv' /\ SizeInv'
  BY DEF IInv, ClosedInv, SizeInv
<1>3. PlainStored' /\ CipherInv'
  BY DEF IInv, PlainStored, CipherInv, Header, CryptAll, Crypt
<1>4. PagesCurrent'
  BY DEF PagesCurrent, Current
<1> QED
  BY <1>1, <1>2, <1>3, <1>4 DEF IInv

LEMMA ReadStep ==
  ASSUME IInv, NEW p \in Nat, NEW n \in Nat \ {0}, Read(p, n)
  PROVE  IInv'
<1> DEFINE last == (Smaller(p + n, isize) - 1) \div PageSize
           D == DOMAIN pages \cup (p \div PageSize) .. last
<1>1. /\ access # "closed" /\ p < isize /\ pages' = [i \in D |-> GrabPage(i)]
      /\ UNCHANGED <<access, lower, isize, ref, holed, cut, ops>>
  BY DEF Read
<1>2. TypeOK /\ isize \in Nat /\ Typed(pages)
  BY PagesAre DEF IInv, TypeOK
<1>3. \A i \in D : i \in Nat
  <2>1. Smaller(p + n, isize) - 1 \in Nat
    BY <1>1, <1>2 DEF Smaller
  <2>2. last \in Nat /\ p \div PageSize \in Nat
    BY <2>1, PageOfOffset
  <2> HIDE DEF last
  <2>3. \A i \in (p \div PageSize) .. last : i \in Nat
    BY <2>2
  <2>4. \A i \in DOMAIN pages : i \in Nat
    BY <1>2 DEF Typed
  <2> QED
    BY <2>3, <2>4
<1> HIDE DEF D
<1>4. Typed(pages')
  BY <1>1, <1>2, <1>3, GrabType DEF Typed
<1>5. ASSUME ~holed, access = "decrypt" => ~cut
      PROVE  Current(pages', ref)
  <2>1. access \in {"init", "decrypt"}
    BY <1>1, <1>2 DEF TypeOK
  <2>2. ASSUME NEW i \in D, NEW k \in 0 .. PageSize - 1, i * PageSize + k < Len(ref)
        PROVE  GrabPage(i)[k] = ref[i * PageSize + k + 1]
    BY <1>3, <1>5, <2>1, <2>2, GrabCurrent DEF IInv
  <2> QED
    BY <1>1, <2>2 DEF Current
<1> QED
  BY <1>1, <1>4, <1>5, PagesStep

LEMMA ReclaimStep ==
  ASSUME IInv, NEW i, Reclaim(i)
  PROVE  IInv'
<1>1. /\ i \in DOMAIN pages /\ pages' = [j \in DOMAIN pages \ {i} |-> pages[j]]
      /\ UNCHANGED <<access, lower, isize, ref, holed, cut, ops>>
  BY DEF Reclaim
<1>2. access # "closed"
  BY <1>1 DEF IInv, ClosedInv
<1>3. Typed(pages')
  BY <1>1, PagesAre DEF IInv, Typed
<1>4. ~holed /\ (access = "decrypt" => ~cut) => Current(pages', ref)
  BY <1>1, PagesAre DEF IInv, Current
<1> QED
  BY <1>1, <1>2, <1>3, <1>4, PagesStep

-----------------------------------------------------------------------------
\* Truncates and writes

\* What a step that changes the file has to show.
LEMMA DataStep ==
  ASSUME access' = access, access \in {"init", "decrypt"},
         lower' \in Seq(Bytes), ref' \in Seq(Bytes), isize' \in Nat, isize' <= Len(lower'),
         Typed(pages'), holed' \in BOOLEAN, cut' \in BOOLEAN, ops' \in 0 .. MaxOps,
         access = "init" => lower' = ref' /\ isize' = Len(ref'),
         access = "decrypt" /\ ~holed' /\ ~cut' => lower' = Cipher(ref') /\ isize' = Len(lower'),
         ~holed' /\ (access = "decrypt" => ~cut') => Current(pages', ref')
  PROVE  IInv'
<1>1. TypeOK'
  <2>1. \A i \in DOMAIN pages' : i \in Nat /\ pages'[i] \in [0 .. PageSize - 1 -> Bytes]
    BY DEF Typed, Page
  <2> QED
    BY <2>1 DEF TypeOK
<1>2. ClosedInv' /\ SizeInv'
  BY DEF ClosedInv, SizeInv
<1>3. PlainStored' /\ CipherInv'
  BY DEF PlainStored, CipherInv, Cipher, Header, CryptAll, Crypt
<1>4. PagesCurrent'
  BY DEF PagesCurrent, Current
<1> QED
  BY <1>1, <1>2, <1>3, <1>4 DEF IInv

\* What is known of the file before a step.
LEMMA Before ==
  ASSUME IInv, access # "closed"
  PROVE  /\ access \in {"init", "decrypt"} /\ lower \in Seq(Bytes) /\ ref \in Seq(Bytes)
         /\ isize \in Nat /\ Len(lower) \in Nat /\ Len(ref) \in Nat /\ isize <= Len(lower)
         /\ Typed(pages) /\ holed \in BOOLEAN /\ cut \in BOOLEAN /\ ops \in 0 .. MaxOps
         /\ access = "init" => lower = ref /\ isize = Len(ref)
         /\ access = "decrypt" /\ ~holed /\ ~cut =>
               lower = Cipher(ref) /\ isize = HeaderSize + Len(ref)
         /\ ~holed /\ (access = "decrypt" => ~cut) => Current(pages, ref)
<1>1. /\ access \in {"init", "decrypt"} /\ lower \in Seq(Bytes) /\ ref \in Seq(Bytes)
      /\ isize \in Nat /\ holed \in BOOLEAN /\ cut \in BOOLEAN /\ ops \in 0 .. MaxOps
  BY DEF IInv, TypeOK
<1>2. Len(lower) \in Nat /\ Len(ref) \in Nat
  BY <1>1, SeqFunction
<1>3. Typed(pages) /\ (~holed /\ (access = "decrypt" => ~cut) => Current(pages, ref))
  BY PagesAre DEF IInv
<1>4. isize <= Len(lower) /\ (access = "init" => lower = ref /\ isize = Len(ref))
  BY DEF IInv, SizeInv, PlainStored
<1>5. ASSUME access = "decrypt", ~holed, ~cut
      PROVE  lower = Cipher(ref) /\ isize = HeaderSize + Len(ref)
  <2>1. lower = Cipher(ref) /\ isize = Len(lower)
    BY <1>5 DEF IInv, CipherInv, Cipher
  <2> QED
    BY <1>1, <2>1, CipherIs
<1> QED
  BY <1>1, <1>2, <1>3, <1>4, <1>5

\* The lower file after growing.
LEMMA GrowEffect ==
  ASSUME IInv, access # "closed", NEW new \in Nat, isize < new
  PROVE  /\ Grow(new).low \in Seq(Bytes) /\ Grow(new).size = new
         /\ new <= Len(Grow(new).low)
         /\ access = "init" => Grow(new).low = Resize(ref, new)
<1> DEFINE n == new - isize
           r == WriteLower(lower, isize, Fill(n, 0))
<1>1. /\ access \in {"init", "decrypt"} /\ lower \in Seq(Bytes) /\ ref \in Seq(Bytes)
      /\ isize \in Nat /\ Len(lower) \in Nat /\ Len(ref) \in Nat
      /\ access = "init" => lower = ref /\ isize = Len(ref)
  BY Before
<1>2. n \in Nat /\ n > 0 /\ isize + n = new /\ 0 \in Bytes
  BY <1>1 DEF Bytes
<1>3. Grow(new).low = r /\ Grow(new).size = new
  BY <1>1, ChunksAddUp
<1> HIDE DEF n
<1>4. Fill(n, 0) \in Seq(Bytes) /\ Len(Fill(n, 0)) = n /\ Fill(n, 0) # <<>>
  BY <1>2, FillSeq, EmptyFill
<1>5. r \in Seq(Bytes) /\ Len(r) >= isize + n
  BY <1>1, <1>4, WriteLowerIs
<1>6. ASSUME access = "init" PROVE r = Resize(ref, new)
  <2>1. lower = ref /\ isize = Len(ref) /\ Shift = 0 /\ Encoded(Fill(n, 0)) = Fill(n, 0)
    BY <1>1, <1>6 DEF Shift, Encoded
  <2>2. r = Overwrite(ref, Len(ref), Fill(n, 0))
    BY <1>1, <1>4, <2>1 DEF WriteLower
  <2> HIDE DEF r
  <2>3. Filled(r, ref, Len(ref), n, 0)
    BY <1>1, <1>2, <2>2, OverwriteFill
  <2>4. r = Resize(ref, Len(ref) + n)
    BY <1>1, <1>2, <2>3, ResizeLonger
  <2> QED
    BY <1>2, <2>1, <2>4
<1> HIDE DEF r
<1> QED
  BY <1>2, <1>3, <1>5, <1>6

LEMMA CutType ==
  ASSUME Typed(pages), NEW new \in Nat
  PROVE  Typed(CutPages(new))
<1>1. 0 \in Bytes
  BY DEF Bytes
<1> QED
  BY <1>1 DEF Typed, CutPages, Page

\* Pages that are cut off with the file stay current.
LEMMA CutCurrent ==
  ASSUME access = "init", Typed(pages), Current(pages, ref), ref \in Seq(Bytes),
         NEW new \in Nat, new <= Len(ref)
  PROVE  Current(CutPages(new), Resize(ref, new))
<1> DEFINE c == CutPages(new)
           r == Resize(ref, new)
<1>1. Len(r) = new /\ \A i \in 1 .. new : r[i] = IF i <= Len(ref) THEN ref[i] ELSE 0
  BY ResizeIs
<1>2. Len(ref) \in Nat /\ PageSize \in Nat
  BY SeqFunction, SizeAssumption
<1>3. ASSUME NEW i \in DOMAIN c, NEW k \in 0 .. PageSize - 1, i * PageSize + k < new
      PROVE  c[i][k] = r[i * PageSize + k + 1]
  <2>1. i \in DOMAIN pages /\ i \in Nat
    BY DEF CutPages, Typed
  <2>2. c[i][k] = pages[i][k]
    BY <1>3 DEF CutPages
  <2>3. i * PageSize \in Nat
    BY <2>1, PageStart
  <2>4. i * PageSize + k < Len(ref) /\ i * PageSize + k + 1 \in 1 .. new
        /\ i * PageSize + k + 1 <= Len(ref)
    BY <1>2, <1>3, <2>3
  <2>5. pages[i][k] = ref[i * PageSize + k + 1]
    BY <2>1, <2>4 DEF Current
  <2> QED
    BY <1>1, <2>2, <2>4, <2>5
<1> HIDE DEF c, r
<1>4. Current(c, r)
  BY <1>1, <1>3 DEF Current
<1> QED
  BY <1>4 DEF c, r

LEMMA TruncateStep ==
  ASSUME IInv, NEW new \in Nat, Truncate(new)
  PROVE  IInv'
<1>1. /\ access # "closed" /\ ops < MaxOps /\ ops' = ops + 1 /\ access' = access
      /\ ref' = Resize(ref, new) /\ holed' = (holed \/ new > Len(ref))
      /\ cut' = (cut \/ new < isize)
  BY DEF Truncate
<1>2. /\ access \in {"init", "decrypt"} /\ lower \in Seq(Bytes) /\ ref \in Seq(Bytes)
      /\ isize \in Nat /\ Len(lower) \in Nat /\ Len(ref) \in Nat /\ isize <= Len(lower)
      /\ Typed(pages) /\ holed \in BOOLEAN /\ cut \in BOOLEAN /\ ops \in 0 .. MaxOps
      /\ access = "init" => lower = ref /\ isize = Len(ref)
      /\ access = "decrypt" /\ ~holed /\ ~cut =>
            lower = Cipher(ref) /\ isize = HeaderSize + Len(ref)
      /\ ~holed /\ (access = "decrypt" => ~cut) => Current(pages, ref)
  BY <1>1, Before
<1>3. ref' \in Seq(Bytes) /\ Len(ref') = new
  BY <1>1, <1>2, ResizeIs
<1>4. holed' \in BOOLEAN /\ cut' \in BOOLEAN /\ ops' \in 0 .. MaxOps
  <2>1. holed' \in BOOLEAN /\ cut' \in BOOLEAN
    BY <1>1, Zenon
  <2>2. ops' \in 0 .. MaxOps
    BY <1>1, <1>2, SizeAssumption
  <2> QED
    BY <2>1, <2>2
\* A decrypted file is longer than its contents: whatever is asked for is a cut or a hole.
<1>5. access = "decrypt" => holed' \/ cut'
  <2> SUFFICES ASSUME access = "decrypt", ~holed', ~cut' PROVE FALSE
    OBVIOUS
  <2>1. ~holed /\ ~cut /\ ~(new > Len(ref)) /\ ~(new < isize)
    BY <1>1
  <2>2. isize = HeaderSize + Len(ref)
    BY <1>2, <2>1
  <2> QED
    BY <1>2, <2>1, <2>2, SizeAssumption
<1>6. ASSUME ~holed', access = "decrypt" => ~cut' PROVE access = "init" /\ ~holed /\ new <= Len(ref)
  <2>1. access # "decrypt"
    BY <1>5, <1>6, Zenon
  <2>2. ~holed /\ ~(new > Len(ref))
    BY <1>1, <1>6, Zenon
  <2>3. new <= Len(ref)
    BY <1>2, <2>2
  <2>4. access = "init"
    BY <1>2, <2>1
  <2> QED
    BY <2>2, <2>3, <2>4
<1>7. CASE new = isize /\ UNCHANGED <<lower, isize, pages>>
  <2>1. access = "init" => ref' = ref
    BY <1>1, <1>2, <1>7, ResizeShorter
  <2>2. access = "init" => lower' = ref' /\ isize' = Len(ref')
    BY <1>2, <1>7, <2>1
  <2>3. ~holed' /\ (access = "decrypt" => ~cut') => Current(pages', ref')
    BY <1>2, <1>6, <1>7, <2>1
  <2>4. lower' \in Seq(Bytes) /\ isize' \in Nat /\ isize' <= Len(lower') /\ Typed(pages')
    BY <1>2, <1>7
  <2> QED
    BY <1>1, <1>2, <1>3, <1>4, <1>5, <2>2, <2>3, <2>4, DataStep
<1>8. CASE Shrink(new)
  <2>1. new < isize /\ isize' = new /\ pages' = CutPages(new) /\ lower' = SubSeq(lower, 1, new)
    BY <1>8 DEF Shrink
  <2>2. new <= Len(lower)
    BY <1>2, <2>1
  <2>3. lower' = Resize(lower, new)
    BY <1>2, <2>1, <2>2, ResizeShorter
  <2>4. lower' \in Seq(Bytes) /\ Len(lower') = new /\ isize' \in Nat /\ isize' <= Len(lower')
    <3>1. Resize(lower, new) \in Seq(Bytes) /\ Len(Resize(lower, new)) = new
      BY <1>2, ResizeIs
    <3> QED
      BY <2>1, <2>3, <3>1
  <2>5. Typed(pages')
    BY <1>2, <2>1, CutType
  <2>6. access = "init" => lower' = ref' /\ isize' = Len(ref')
    BY <1>1, <1>2, <1>3, <2>1, <2>3
  <2>7. ~holed' /\ (access = "decrypt" => ~cut') => Current(pages', ref')
    BY <1>1, <1>2, <1>6, <2>1, CutCurrent
  <2> QED
    BY <1>1, <1>2, <1>3, <1>4, <1>5, <2>4, <2>5, <2>6, <2>7, DataStep
<1>9. CASE new > isize /\ lower' = Grow(new).low /\ isize' = Grow(new).size /\ UNCHANGED pages
  <2>1. isize < new
    BY <1>2, <1>9
  <2>2. /\ Grow(new).low \in Seq(Bytes) /\ Grow(new).size = new /\ new <= Len(Grow(new).low)
        /\ access = "init" => Grow(new).low = Resize(ref, new)
    BY <1>1, <2>1, GrowEffect
  <2>3. lower' \in Seq(Bytes) /\ isize' \in Nat /\ isize' <= Len(lower') /\ Typed(pages')
    BY <1>2, <1>9, <2>2
  <2>4. access = "init" => lower' = ref' /\ isize' = Len(ref')
    BY <1>1, <1>3, <1>9, <2>2
  <2>5. ~(~holed' /\ (access = "decrypt" => ~cut'))
    BY <1>2, <1>6, <2>1
  <2> QED
    BY <1>1, <1>2, <1>3, <1>4, <1>5, <2>3, <2>4, <2>5, DataStep
<1> QED
  BY <1>7, <1>8, <1>9 DEF Truncate

\* The bytes from offset i * PageSize that page pg has to have.
CurrentPage(pg, i, r) ==
    \A k \in 0 .. PageSize - 1 : i * PageSize + k < Len(r) => pg[k] = r[i * PageSize + k + 1]

\* What write_begin leaves to write to: the lower file, with zeros up to the page if that
\* lies beyond the end, and a page that is the file's when nothing is skipped.
LEMMA BeginEffect ==
  ASSUME IInv, access # "closed", NEW i \in Nat, NEW p \in Nat, i * PageSize <= p
  PROVE  LET f == WriteBegin(i, p)
         IN  /\ f.low \in Seq(Bytes) /\ f.pg \in Page
             /\ access = "init" =>
                   f.low = ref \/ (f.low = Resize(ref, i * PageSize) /\ Len(ref) <= i * PageSize)
             /\ ~holed /\ (access = "decrypt" => ~cut) /\ p <= Len(ref) =>
                   f.low = lower /\ CurrentPage(f.pg, i, ref)
<1> DEFINE b == i * PageSize
           g == IF i # 0 /\ b > isize THEN Grow(b) ELSE [low |-> lower, size |-> isize]
           z == [k \in 0 .. PageSize - 1 |-> 0]
           pg == IF g.size = b /\ p # 0 THEN z ELSE GrabPage(i)
           f == WriteBegin(i, p)
<1>1. f = [low |-> g.low, pg |-> pg]
  BY DEF WriteBegin
<1>2. /\ access \in {"init", "decrypt"} /\ lower \in Seq(Bytes) /\ ref \in Seq(Bytes)
      /\ isize \in Nat /\ Len(lower) \in Nat /\ Len(ref) \in Nat
      /\ access = "init" => lower = ref /\ isize = Len(ref)
      /\ access = "decrypt" /\ ~holed /\ ~cut =>
            lower = Cipher(ref) /\ isize = HeaderSize + Len(ref)
  BY Before
<1>3. b \in Nat /\ HeaderSize \in Nat \ {0} /\ TypeOK
  BY PageStart, SizeAssumption DEF IInv
<1>4. z \in Page /\ GrabPage(i) \in Page
  <2>1. z \in Page
    BY DEF Page, Bytes
  <2> QED
    BY <1>3, <2>1, GrabType
<1>5. CASE i # 0 /\ b > isize
  <2>1. isize < b /\ g = Grow(b)
    BY <1>2, <1>3, <1>5
  <2>2. Grow(b).low \in Seq(Bytes) /\ (access = "init" => Grow(b).low = Resize(ref, b))
    BY <1>3, <2>1, GrowEffect
  <2>3. access = "init" => Len(ref) <= b
    BY <1>2, <1>3, <2>1
  <2>4. ~(~holed /\ (access = "decrypt" => ~cut) /\ p <= Len(ref))
    BY <1>2, <1>3, <2>1
  <2> HIDE DEF b
  <2>5. f.low = Grow(b).low /\ f.pg \in Page
    BY <1>1, <1>4, <2>1
  <2> QED
    BY <2>2, <2>3, <2>4, <2>5 DEF b
<1>6. CASE ~(i # 0 /\ b > isize)
  <2>1. g = [low |-> lower, size |-> isize]
    BY <1>6
  <2>2. g.low = lower /\ g.size = isize
    BY <2>1
  <2>3. f.low = lower /\ f.pg = pg /\ pg \in Page
    BY <1>1, <1>4, <2>2
  <2>4. ASSUME ~holed, access = "decrypt" => ~cut, p <= Len(ref),
               NEW k \in 0 .. PageSize - 1, b + k < Len(ref)
        PROVE  pg[k] = ref[b + k + 1]
    <3>1. ~(isize = b)
      BY <1>2, <1>3, <2>4
    <3>2. pg = GrabPage(i)
      BY <2>2, <3>1
    <3>3. GrabPage(i)[k] = ref[b + k + 1]
      BY <1>2, <2>4, GrabCurrent DEF IInv
    <3> QED
      BY <3>2, <3>3
  <2> HIDE DEF b, pg, f
  <2>5. access = "init" => f.low = ref
    BY <1>2, <2>3
  <2>6. ~holed /\ (access = "decrypt" => ~cut) /\ p <= Len(ref) =>
           f.low = lower /\ CurrentPage(f.pg, i, ref)
    BY <2>3, <2>4 DEF CurrentPage, b
  <2>7. f.low \in Seq(Bytes) /\ f.pg \in Page
    BY <1>2, <2>3
  <2> QED
    BY <2>5, <2>6, <2>7 DEF b, f
<1> QED
  BY <1>5, <1>6

\* A byte in another page is not within what is written to this one.
LEMMA OtherPage ==
  ASSUME NEW i \in Nat, NEW j \in Nat, j # i, NEW p \in Nat, NEW n \in Nat,
         NEW k \in 0 .. PageSize - 1, i * PageSize <= p, p + n <= i * PageSize + PageSize
  PROVE  ~(p <= j * PageSize + k /\ j * PageSize + k < p + n)
<1> DEFINE a == j * PageSize
           b == i * PageSize
<1>1. a \in Nat /\ b \in Nat /\ b <= p /\ p + n <= b + PageSize /\ PageSize \in Nat
  BY PageStart, SizeAssumption
<1>2. a + PageSize <= b \/ b + PageSize <= a
  <2>1. CASE j < i
    BY <2>1, PagesApart
  <2>2. CASE i < j
    BY <2>2, PagesApart
  <2> QED
    BY <2>1, <2>2
<1> HIDE DEF a, b
<1>3. ~(p <= a + k /\ a + k < p + n)
  BY <1>1, <1>2
<1> QED
  BY <1>3 DEF a

\* pgs are the cached pages after the data d at p have been copied into the page pg,
\* which is page i.
Copied(pgs, pg, i, p, d) ==
    /\ DOMAIN pgs = DOMAIN pages \cup {i}
    /\ \A j \in DOMAIN pages : j # i => pgs[j] = pages[j]
    /\ \A k \in 0 .. PageSize - 1, m \in Nat : m = i * PageSize + k =>
          pgs[i][k] = IF m - p \in 0 .. Len(d) - 1 THEN d[m - p + 1] ELSE pg[k]

\* A write that skips nothing keeps the cached pages current.
LEMMA PutCurrent ==
  ASSUME Typed(pages), ref \in Seq(Bytes), NEW i \in Nat, NEW p \in Nat,
         NEW d \in Seq(Bytes), i * PageSize <= p, p + Len(d) <= i * PageSize + PageSize,
         p <= Len(ref), NEW r, Overwritten(r, ref, p, d), NEW pgs, NEW pg,
         Copied(pgs, pg, i, p, d), Current(pages, ref), CurrentPage(pg, i, ref)
  PROVE  Current(pgs, r)
<1> DEFINE n == Len(d)
<1>1. Len(ref) \in Nat /\ PageSize \in Nat /\ n \in Nat
  BY SeqFunction, SizeAssumption
<1>2. Len(r) = Larger(Len(ref), p + n)
  BY DEF Overwritten
<1>3. \A m \in 1 .. Len(r) : r[m] = IF m \in p + 1 .. p + n THEN d[m - p]
                                    ELSE IF m <= Len(ref) THEN ref[m] ELSE 0
  BY DEF Overwritten
<1> HIDE DEF n
\* A byte that is not written was there before.
<1>4. ASSUME NEW m \in Nat, m < Len(r), ~(p <= m /\ m < p + n)
      PROVE  m < Len(ref) /\ r[m + 1] = ref[m + 1]
  <2>1. m < Len(ref)
    BY <1>1, <1>2, <1>4 DEF Larger
  <2>2. m + 1 \in 1 .. Len(r) /\ m + 1 \notin p + 1 .. p + n /\ m + 1 <= Len(ref)
    BY <1>1, <1>2, <1>4, <2>1 DEF Larger
  <2> QED
    BY <1>3, <2>1, <2>2
<1>5. ASSUME NEW m \in Nat, p <= m, m < p + n
      PROVE  m - p \in 0 .. n - 1 /\ r[m + 1] = d[m - p + 1]
  <2>1. m + 1 \in 1 .. Len(r) /\ m + 1 \in p + 1 .. p + n /\ (m + 1) - p = m - p + 1
    BY <1>1, <1>2, <1>5 DEF Larger
  <2>2. m - p \in 0 .. n - 1
    BY <1>1, <1>5
  <2> QED
    BY <1>3, <2>1, <2>2
<1>6. ASSUME NEW j \in DOMAIN pgs, NEW k \in 0 .. PageSize - 1, j * PageSize + k < Len(r)
      PROVE  pgs[j][k] = r[j * PageSize + k + 1]
  <2>1. j \in Nat
    BY DEF Typed, Copied
  <2> DEFINE m == j * PageSize + k
  <2>2. m \in Nat
    <3>1. j * PageSize \in Nat /\ k \in Nat
      BY <1>1, <2>1, PageStart
    <3> QED
      BY <3>1
  <2>3. CASE j # i
    <3>1. ~(p <= m /\ m < p + n)
      BY <1>1, <2>1, <2>3, OtherPage DEF n
    <3>2. m < Len(ref) /\ r[m + 1] = ref[m + 1]
      BY <1>4, <1>6, <2>2, <3>1
    <3>3. j \in DOMAIN pages /\ pgs[j] = pages[j]
      BY <2>3 DEF Copied
    <3> QED
      BY <3>2, <3>3 DEF Current
  <2>4. CASE j = i
    <3>1. pgs[j][k] = IF m - p \in 0 .. n - 1 THEN d[m - p + 1] ELSE pg[k]
      <4>1. m = i * PageSize + k
        BY <2>4
      <4> HIDE DEF m
      <4>2. pgs[i][k] = IF m - p \in 0 .. Len(d) - 1 THEN d[m - p + 1] ELSE pg[k]
        BY <2>2, <4>1 DEF Copied
      <4> QED
        BY <2>4, <4>2 DEF n
    <3>2. m < Len(ref) => pg[k] = ref[m + 1]
      BY <2>4 DEF CurrentPage
    <3>3. m < Len(r)
      BY <1>6
    <3> HIDE DEF m
    <3>4. ASSUME p <= m, m < p + n PROVE pgs[j][k] = r[m + 1]
      BY <1>5, <2>2, <3>1, <3>4
    <3>5. ASSUME ~(p <= m /\ m < p + n) PROVE pgs[j][k] = r[m + 1]
      <4>1. m - p \notin 0 .. n - 1
        BY <1>1, <2>2, <3>5
      <4> QED
        BY <1>4, <2>2, <3>1, <3>2, <3>3, <3>5, <4>1
    <3>6. pgs[j][k] = r[m + 1]
      BY <3>4, <3>5
    <3> QED
      BY <3>6 DEF m
  <2> QED
    BY <2>3, <2>4
<1> QED
  BY <1>6 DEF Current

LEMMA WriteStep ==
  ASSUME IInv, NEW p \in Nat, NEW n \in 1 .. PageSize, Write(p, n)
  PROVE  IInv'
<1> DEFINE i == p \div PageSize
           d == Fill(n, 2)
           f == WriteBegin(i, p)
           pg == [k \in 0 .. PageSize - 1 |->
                    LET o == i * PageSize + k - p
                    IN  IF o \in 0 .. Len(d) - 1 THEN d[o + 1] ELSE f.pg[k]]
<1>1. /\ access # "closed" /\ ops < MaxOps /\ ops' = ops + 1 /\ access' = access /\ cut' = cut
      /\ (p % PageSize) + n <= PageSize
      /\ pages' = Put(pages, i, pg) /\ lower' = WriteLower(f.low, p, d)
      /\ isize' = Len(lower') /\ ref' = Overwrite(ref, p, d)
      /\ holed' = (holed \/ p > Len(ref))
  BY DEF Write, WriteEnd, Fill
<1>2. /\ access \in {"init", "decrypt"} /\ lower \in Seq(Bytes) /\ ref \in Seq(Bytes)
      /\ isize \in Nat /\ Len(lower) \in Nat /\ Len(ref) \in Nat /\ isize <= Len(lower)
      /\ Typed(pages) /\ holed \in BOOLEAN /\ cut \in BOOLEAN /\ ops \in 0 .. MaxOps
      /\ access = "init" => lower = ref /\ isize = Len(ref)
      /\ access = "decrypt" /\ ~holed /\ ~cut =>
            lower = Cipher(ref) /\ isize = HeaderSize + Len(ref)
      /\ ~holed /\ (access = "decrypt" => ~cut) => Current(pages, ref)
  BY <1>1, Before
<1>3. n \in Nat \ {0} /\ 2 \in Bytes /\ PageSize \in Nat
  BY SizeAssumption DEF Bytes
<1>4. d \in Seq(Bytes) /\ Len(d) = n /\ d # <<>>
  BY <1>3, FillSeq, EmptyFill
<1>5. i \in Nat /\ i * PageSize \in Nat /\ i * PageSize <= p /\ p + n <= i * PageSize + PageSize
  <2>1. /\ i \in Nat /\ i * PageSize \in Nat /\ p % PageSize \in 0 .. PageSize - 1
        /\ p = i * PageSize + (p % PageSize)
    BY PageOfOffset
  <2> DEFINE b == i * PageSize
             q == p % PageSize
  <2>2. b \in Nat /\ q \in 0 .. PageSize - 1 /\ p = b + q /\ q + n <= PageSize
    BY <1>1, <2>1
  <2> HIDE DEF b, q, i
  <2>3. b <= p /\ p + n <= b + PageSize
    BY <1>3, <2>2
  <2> QED
    BY <2>1, <2>3 DEF b
<1> HIDE DEF i, d
<1>6. /\ f.low \in Seq(Bytes) /\ f.pg \in Page
      /\ access = "init" =>
            f.low = ref \/ (f.low = Resize(ref, i * PageSize) /\ Len(ref) <= i * PageSize)
      /\ ~holed /\ (access = "decrypt" => ~cut) /\ p <= Len(ref) =>
            f.low = lower /\ CurrentPage(f.pg, i, ref)
  BY <1>1, <1>5, BeginEffect
<1> HIDE DEF f
<1>7. Overwritten(ref', ref, p, d)
  BY <1>1, <1>2, <1>4, OverwriteIs
<1>8. lower' \in Seq(Bytes) /\ ref' \in Seq(Bytes) /\ isize' \in Nat /\ isize' <= Len(lower')
  <2>1. lower' \in Seq(Bytes)
    BY <1>1, <1>4, <1>6, WriteLowerIs
  <2>2. Len(lower') \in Nat
    BY <2>1, SeqFunction
  <2>3. ref' \in Seq(Bytes)
    BY <1>7 DEF Overwritten
  <2> QED
    BY <1>1, <2>1, <2>2, <2>3
<1>9. holed' \in BOOLEAN /\ cut' \in BOOLEAN /\ ops' \in 0 .. MaxOps
  <2>1. holed' \in BOOLEAN
    BY <1>1, Zenon
  <2>2. ops' \in 0 .. MaxOps
    BY <1>1, <1>2, SizeAssumption
  <2> QED
    BY <1>1, <1>2, <2>1, <2>2
<1>10. pg \in Page
  <2>1. ASSUME NEW k \in 0 .. PageSize - 1
        PROVE  (IF i * PageSize + k - p \in 0 .. Len(d) - 1
                THEN d[i * PageSize + k - p + 1] ELSE f.pg[k]) \in Bytes
    <3>1. CASE i * PageSize + k - p \in 0 .. Len(d) - 1
      <4>1. i * PageSize + k - p + 1 \in 1 .. Len(d)
        BY <1>3, <1>4, <3>1
      <4>2. d[i * PageSize + k - p + 1] \in Bytes
        BY <1>4, <4>1, SeqFunction
      <4> QED
        BY <3>1, <4>2
    <3>2. CASE i * PageSize + k - p \notin 0 .. Len(d) - 1
      BY <1>6, <3>2 DEF Page
    <3> QED
      BY <3>1, <3>2
  <2> QED
    BY <2>1 DEF Page
<1>11. Copied(pages', f.pg, i, p, d)
  <2>1. DOMAIN pages' = DOMAIN pages \cup {i} /\ pages'[i] = pg
        /\ \A j \in DOMAIN pages : j # i => pages'[j] = pages[j]
    BY <1>1 DEF Put
  <2>2. ASSUME NEW k \in 0 .. PageSize - 1, NEW m \in Nat, m = i * PageSize + k
        PROVE  pg[k] = IF m - p \in 0 .. Len(d) - 1 THEN d[m - p + 1] ELSE f.pg[k]
    <3> DEFINE W(o) == IF o - p \in 0 .. Len(d) - 1 THEN d[o - p + 1] ELSE f.pg[k]
    <3>1. pg[k] = W(i * PageSize + k)
      BY <1>3, <1>4, <1>5
    <3> HIDE DEF W
    <3>2. pg[k] = W(m)
      BY <2>2, <3>1
    <3> QED
      BY <3>2 DEF W
  <2> HIDE DEF pg
  <2> QED
    BY <2>1, <2>2 DEF Copied
<1>12. Typed(pages')
  <2> HIDE DEF pg
  <2> QED
    BY <1>1, <1>2, <1>5, <1>10 DEF Typed, Put
<1> HIDE DEF pg
<1>13. ASSUME access = "init" PROVE lower' = ref' /\ isize' = Len(ref')
  <2>1. lower' = Overwrite(f.low, p, d)
    <3>1. Shift = 0 /\ Encoded(d) = d
      BY <1>13 DEF Shift, Encoded
    <3> QED
      BY <1>1, <1>4, <3>1 DEF WriteLower
  <2>2. lower' = Overwrite(ref, p, d)
    <3>1. CASE f.low = ref
      BY <2>1, <3>1
    <3>2. CASE f.low = Resize(ref, i * PageSize) /\ Len(ref) <= i * PageSize
      <4>1. Overwrite(Resize(ref, i * PageSize), p, d) = Overwrite(ref, p, d)
        BY <1>2, <1>4, <1>5, <3>2, OverwriteResized
      <4> QED
        BY <2>1, <3>2, <4>1
    <3> QED
      BY <1>6, <1>13, <3>1, <3>2
  <2> QED
    BY <1>1, <2>2
<1>14. ~holed' => ~holed /\ p <= Len(ref)
  <2>1. ~holed' => ~holed /\ ~(p > Len(ref))
    BY <1>1, Zenon
  <2> QED
    BY <1>2, <2>1
<1>15. ASSUME access = "decrypt", ~holed', ~cut'
       PROVE  lower' = Cipher(ref') /\ isize' = Len(lower')
  <2>1. ~holed /\ ~cut /\ p <= Len(ref)
    BY <1>1, <1>14, <1>15
  <2>2. f.low = Cipher(ref)
    BY <1>2, <1>6, <1>15, <2>1
  <2>3. lower' = Overwrite(Cipher(ref), p + HeaderSize, CryptAll(d))
    <3>1. Shift = HeaderSize /\ Encoded(d) = CryptAll(d)
      BY <1>15 DEF Shift, Encoded
    <3> QED
      BY <1>1, <1>4, <2>2, <3>1 DEF WriteLower
  <2>4. lower' = Cipher(Overwrite(ref, p, d))
    BY <1>2, <1>4, <2>1, <2>3, OverwriteCipher
  <2> QED
    BY <1>1, <2>4
<1>16. ASSUME ~holed', access = "decrypt" => ~cut' PROVE Current(pages', ref')
  <2>1. ~holed /\ (access = "decrypt" => ~cut) /\ p <= Len(ref)
    BY <1>1, <1>14, <1>16
  <2>2. CurrentPage(f.pg, i, ref) /\ Current(pages, ref)
    BY <1>2, <1>6, <2>1
  <2>3. p + Len(d) <= i * PageSize + PageSize
    BY <1>4, <1>5
  <2> QED
    BY <1>2, <1>4, <1>5, <1>7, <1>11, <2>1, <2>2, <2>3, PutCurrent
<1> QED
  BY <1>1, <1>2, <1>8, <1>9, <1>12, <1>13, <1>15, <1>16, DataStep
-----------------------------------------------------------------------------
\* The invariant

LEMMA InvariantStep == IInv /\ [Next]_vars => IInv'
<1> SUFFICES ASSUME IInv, [Next]_vars PROVE IInv'
  OBVIOUS
<1>1. CASE Open
  BY <1>1, OpenStep
<1>2. ASSUME NEW n \in 0 .. MaxSize, Truncate(n) PROVE IInv'
  <2>1. n \in Nat
    BY SizeAssumption
  <2> QED
    BY <1>2, <2>1, TruncateStep
<1>3. ASSUME NEW p \in 0 .. MaxSize - 1, NEW n \in 1 .. PageSize, Write(p, n) PROVE IInv'
  <2>1. p \in Nat
    BY SizeAssumption
  <2> QED
    BY <1>3, <2>1, WriteStep
<1>4. ASSUME NEW p \in 0 .. MaxSize, NEW n \in 1 .. MaxSize, Read(p, n) PROVE IInv'
  <2>1. p \in Nat /\ n \in Nat \ {0}
    BY SizeAssumption
  <2> QED
    BY <1>4, <2>1, ReadStep
<1>5. ASSUME NEW i \in 0 .. MaxSize, Reclaim(i) PROVE IInv'
  BY <1>5, ReclaimStep
<1>6. CASE UNCHANGED vars
  <2>1. /\ access' = access /\ lower' = lower /\ isize' = isize /\ pages' = pages
        /\ ref' = ref /\ holed' = holed /\ cut' = cut /\ ops' = ops
    BY <1>6 DEF vars
  <2> QED
    BY <2>1 DEF IInv, TypeOK, ClosedInv, SizeInv, PlainStored, CipherInv, PagesCurrent,
                Header, CryptAll, Crypt
<1> QED
  BY <1>1, <1>2, <1>3, <1>4, <1>5, <1>6 DEF Next

\* The invariant holds through every order of opens, reads, writes (teadfs_write_end),
\* truncates (teadfs_truncate) and reclaimed pages.
THEOREM Invariance == Spec => []IInv
  BY InitInv, InvariantStep, PTL DEF Spec

\* The files hold bytes, the cached pages are whole pages of bytes and i_size is a size,
\* after every teadfs_readpage, teadfs_write_end and truncate_upper.
THEOREM TypeCorrect == Spec => []TypeOK
<1>1. IInv => TypeOK
  BY DEF IInv
<1> QED
  BY <1>1, Invariance, PTL

\* i_size never goes beyond the lower file, in any mode and with any holes and cuts: what
\* truncate_upper keeps when it shrinks a file is always there.
THEOREM SizeCovered == Spec => []SizeInv
<1>1. IInv => SizeInv
  BY DEF IInv
<1> QED
  BY <1>1, Invariance, PTL

\* A file that is not encrypted is stored byte for byte by teadfs_write_lower and
\* truncate_upper, with its size.
THEOREM AlwaysPlain == Spec => []PlainStored
<1>1. IInv => PlainStored
  BY DEF IInv
<1> QED
  BY <1>1, Invariance, PTL

\* An encrypted file without holes and cuts is its header and the encryption of its bytes
\* (teadfs_write_lower).
THEOREM AlwaysCipher == Spec => []CipherStored
<1>1. IInv => CipherStored
  BY DEF IInv, CipherInv, CipherStored
<1> QED
  BY <1>1, Invariance, PTL

\* Where nothing was skipped, every cached byte that belongs to the file is the file's
\* (teadfs_readpage, treadfs_write_begin, teadfs_write_end).
THEOREM AlwaysCurrent == Spec => []PagesCurrent
<1>1. IInv => PagesCurrent
  BY DEF IInv
<1> QED
  BY <1>1, Invariance, PTL
=============================================================================
