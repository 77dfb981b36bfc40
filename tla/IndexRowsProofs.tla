-------------------------- MODULE IndexRowsProofs ---------------------------
(***************************************************************************)
(* The rows of an index, for every file, ring and input buffer: the lines   *)
(* the builder hands to the indexers and keeps are the lines of the file,   *)
(* and build() ends with an index for the files that are not damaged.       *)
(***************************************************************************)
EXTENDS IndexBuilderProofs

\* The text handed to the LineFinder so far: all but what is in the ring.
Handed ==
    IF phase \in Writing THEN z.pos
    ELSE IF first THEN 0 ELSE z.pos - (WindowSize - availOut)

NewlinesOnDisk == {p \in file.newlines : p < TextOnDisk}

\* The builder is a caller of the LineFinder as ChunkedText describes one.
Chunks == INSTANCE LineFinderProofs WITH
             textLength <- TextOnDisk, newlines <- NewlinesOnDisk,
             fed <- Handed, ended <- phase \in Writing,
             MaxTextLength <- 0

-----------------------------------------------------------------------------
(* The text on disk                                                         *)

\* Every block has a place after the file's first byte.
LEMMA StartsLate ==
    ASSUME NEW f, IsFile(f), NEW k \in DOMAIN f.blocks
    PROVE  0 < f.blocks[k].start /\ 0 < f.blocks[k].end /\ 0 < f.blocks[k].tail
<1>1. /\ DOMAIN f.blocks = 1 .. Len(f.blocks) /\ Len(f.blocks) \in Nat \ {0}
      /\ f.blocks[k].start \in Nat /\ f.blocks[k].end \in Nat /\ f.blocks[k].tail \in Nat
      /\ f.blocks[k].start < f.blocks[k].end
      /\ CeilBytes(f.blocks[k].end) < f.blocks[k].tail
  BY BlockType
<1>2. CeilBytes(f.blocks[k].end) \in Nat
  BY <1>1, CeilType
<1>3. 1 \in DOMAIN f.blocks /\ 0 < f.blocks[1].start
  BY <1>1 DEF IsFile
<1>4. CASE k = 1
  BY <1>1, <1>2, <1>3, <1>4
<1>5. CASE k # 1
  <2>1. f.blocks[1].end <= f.blocks[k].start
    BY <1>1, <1>3, <1>5, DataInOrder
  <2>2. f.blocks[1].start \in Nat /\ f.blocks[1].end \in Nat
        /\ f.blocks[1].start < f.blocks[1].end
    BY <1>1, <1>3, BlockType
  <2> QED
    BY <1>1, <1>2, <1>3, <2>1, <2>2
<1> QED
  BY <1>4, <1>5

\* Blocks that start no later in the file start no later in the text.
LEMMA StartsInOrder ==
    ASSUME NEW f, IsFile(f), NEW j \in DOMAIN f.blocks, NEW k \in DOMAIN f.blocks,
           f.blocks[j].start < f.blocks[k].start
    PROVE  j < k /\ f.blocks[j].to <= f.blocks[k].from
<1>1. /\ DOMAIN f.blocks = 1 .. Len(f.blocks) /\ Len(f.blocks) \in Nat
      /\ f.blocks[j].start \in Nat /\ f.blocks[k].start \in Nat /\ f.blocks[k].end \in Nat
      /\ f.blocks[k].start < f.blocks[k].end
  BY BlockType
<1>2. ~(k < j)
  <2>1. k < j => f.blocks[k].end <= f.blocks[j].start
    BY DataInOrder
  <2> QED
    BY <1>1, <2>1
<1>3. j # k
  BY <1>1
<1>4. j < k
  BY <1>1, <1>2, <1>3
<1> QED
  BY <1>4, BlocksInOrder

\* The blocks that are not on disk.
Missing(f) == {k \in DOMAIN f.blocks : ByteBits * f.size < f.blocks[k].start}

\* The text on disk ends where the first missing block starts.
LEMMA OnDiskIs ==
    ASSUME IsFile(file)
    PROVE  /\ Missing(file) = {} => TextOnDisk = TextLength(file)
           /\ \A k \in Missing(file) :
                 /\ TextOnDisk <= file.blocks[k].from
                 /\ (\A j \in Missing(file) : k <= j) => TextOnDisk = file.blocks[k].from
           /\ Missing(file) # {} =>
                 \E k \in Missing(file) : TextOnDisk = file.blocks[k].from
           /\ TextOnDisk \in Nat /\ TextOnDisk <= TextLength(file)
<1> DEFINE n == Len(file.blocks)
           M == Missing(file)
<1>1. n \in Nat \ {0} /\ DOMAIN file.blocks = 1 .. n
  BY BlockType
<1>2. M \subseteq 1 .. n /\ M \in SUBSET Nat
  BY <1>1 DEF Missing
<1>3. TextOnDisk = IF M = {} THEN TextLength(file)
                   ELSE file.blocks[CHOOSE k \in M : \A j \in M : k <= j].from
  BY DEF TextOnDisk, Missing
<1>4. TextLength(file) \in Nat
  BY TextLengthIs
<1> HIDE DEF M
<1>5. CASE M = {}
  BY <1>3, <1>4, <1>5 DEF M
<1>6. CASE M # {}
  <2> DEFINE c == CHOOSE k \in M : \A j \in M : k <= j
  <2>1. \E k \in M : \A j \in M : k <= j
    BY <1>2, <1>6, LeastNumber
  <2>2. c \in M /\ \A j \in M : c <= j
    BY <2>1
  <2> HIDE DEF c
  <2>3. TextOnDisk = file.blocks[c].from
    BY <1>3, <1>6 DEF c
  <2>4. /\ c \in 1 .. n /\ file.blocks[c].from \in Nat /\ file.blocks[c].to \in Nat
        /\ file.blocks[c].from <= file.blocks[c].to
        /\ file.blocks[c].to <= TextLength(file)
    BY <1>1, <1>2, <2>2, BlockType, TextLengthIs
  <2>5. TextOnDisk \in Nat /\ TextOnDisk <= TextLength(file)
    BY <1>4, <2>3, <2>4
  <2>6. ASSUME NEW k \in M
        PROVE  TextOnDisk <= file.blocks[k].from
    <3>1. k \in 1 .. n /\ file.blocks[k].from \in Nat
      BY <1>1, <1>2, BlockType
    <3>2. CASE k = c
      BY <2>3, <3>1, <3>2
    <3>3. CASE k # c
      <4>1. c < k
        BY <1>1, <2>2, <2>4, <3>1, <3>3
      <4>2. file.blocks[c].to <= file.blocks[k].from
        BY <1>1, <2>4, <3>1, <4>1, BlocksInOrder
      <4> QED
        BY <2>3, <2>4, <3>1, <4>2
    <3> QED
      BY <3>2, <3>3
  <2>7. ASSUME NEW k \in M, \A j \in M : k <= j
        PROVE  TextOnDisk = file.blocks[k].from
    <3>1. k <= c /\ c <= k /\ k \in Nat /\ c \in Nat
      BY <1>2, <2>2, <2>7
    <3> QED
      BY <2>3, <3>1
  <2> QED
    BY <1>6, <2>2, <2>3, <2>5, <2>6, <2>7 DEF M
<1> QED
  BY <1>5, <1>6

\* A block whose data have been reached is on disk.
LEMMA ReachedOnDisk ==
    ASSUME NEW f, IsFile(f), NEW k \in DOMAIN f.blocks, NEW in \in Nat, in <= f.size,
           f.blocks[k].start <= ByteBits * in
    PROVE  k \notin Missing(f)
<1>1. f.blocks[k].start \in Nat /\ f.size \in Nat
  BY BlockType
<1> QED
  BY <1>1 DEF Missing, ByteBits

\* The decoder is in the text on disk.
LEMMA WithinDisk ==
    ASSUME IsFile(file), NEW d, NEW in, Placed(file, d, in)
    PROVE  d.pos \in Nat /\ d.pos <= TextOnDisk
<1> DEFINE n == Len(file.blocks)
           K == d.block
<1>1. /\ d \in Decoder /\ K \in 1 .. (n + 1) /\ in \in 0 .. file.size
      /\ K \in Nat /\ d.pos \in Nat /\ d.part \in {"header", "body", "trailer"}
      /\ n \in Nat \ {0} /\ DOMAIN file.blocks = 1 .. n /\ file.size \in Nat
      /\ in \in Nat /\ in <= file.size
  BY DecoderType, BlockType DEF Placed
<1>2. TextOnDisk \in Nat
  BY OnDiskIs
<1> HIDE DEF K, n
<1>3. ASSUME NEW j \in DOMAIN file.blocks, file.blocks[j].start <= ByteBits * in,
             d.pos <= file.blocks[j].to
      PROVE  d.pos <= TextOnDisk
  <2>1. file.blocks[j].to \in Nat /\ file.blocks[j].to <= TextLength(file)
        /\ file.blocks[j].start \in Nat
        /\ TextLength(file) \in Nat
    BY <1>1, BlockType, TextLengthIs DEF n
  <2>2. j \notin Missing(file)
    BY <1>1, <1>3, ReachedOnDisk
  <2>3. CASE Missing(file) = {}
    BY <1>1, <1>3, <2>1, <2>3, OnDiskIs
  <2>4. CASE Missing(file) # {}
    <3>1. PICK k \in Missing(file) : TextOnDisk = file.blocks[k].from
      BY <2>4, OnDiskIs
    <3>2. k \in DOMAIN file.blocks /\ file.blocks[k].start \in Nat
          /\ ByteBits * file.size < file.blocks[k].start
      BY BlockType DEF Missing
    <3>3. file.blocks[j].start <= ByteBits * file.size
      BY <1>1, <1>3, <2>1 DEF ByteBits
    <3>4. file.blocks[j].start < file.blocks[k].start
      <4>1. ByteBits * file.size \in Nat
        BY <1>1 DEF ByteBits
      <4> QED
        BY <2>1, <3>2, <3>3, <4>1
    <3>5. file.blocks[j].to <= file.blocks[k].from
      BY <3>2, <3>4, StartsInOrder
    <3>6. file.blocks[k].from \in Nat
      BY <3>2, BlockType
    <3> QED
      BY <1>1, <1>3, <2>1, <3>1, <3>5, <3>6
  <2> QED
    BY <2>3, <2>4
<1>4. CASE d.part = "body" \/ d.part = "trailer"
  <2>1. /\ K \in 1 .. n /\ d.pos <= file.blocks[K].to
        /\ file.blocks[K].start <= ByteBits * in
    <3>1. K \in 1 .. n
      BY <1>1, <1>4 DEF Placed, K, n
    <3>2. /\ file.blocks[K].start \in Nat /\ file.blocks[K].end \in Nat
          /\ file.blocks[K].start < file.blocks[K].end /\ file.blocks[K].to \in Nat
      BY <1>1, <3>1, BlockType
    <3>3. CASE d.part = "body"
      BY <3>1, <3>3 DEF Placed, K
    <3>4. CASE d.part = "trailer"
      <4>1. file.blocks[K].end <= ByteBits * in /\ d.pos = file.blocks[K].to
        BY <3>4 DEF Placed, K
      <4> QED
        BY <1>1, <3>1, <3>2, <4>1 DEF ByteBits
    <3> QED
      BY <1>4, <3>3, <3>4
  <2> QED
    BY <1>1, <1>3, <2>1
<1>5. CASE d.part = "header"
  <2>1. CASE K = 1
    <3>1. d.pos = 0
      BY <1>5, <2>1 DEF Placed, Before, K
    <3> QED
      BY <1>1, <1>2, <3>1
  <2>2. CASE K # 1
    <3>1. /\ d.pos = file.blocks[K - 1].to /\ file.blocks[K - 1].tail <= in
          /\ K - 1 \in DOMAIN file.blocks
      BY <1>1, <1>5, <2>2 DEF Placed, Before, K
    <3>2. /\ file.blocks[K - 1].start \in Nat /\ file.blocks[K - 1].end \in Nat
          /\ file.blocks[K - 1].tail \in Nat /\ file.blocks[K - 1].to \in Nat
          /\ file.blocks[K - 1].start < file.blocks[K - 1].end
          /\ CeilBytes(file.blocks[K - 1].end) < file.blocks[K - 1].tail
      BY <1>1, <3>1, BlockType
    <3>3. file.blocks[K - 1].end < ByteBits * file.blocks[K - 1].tail
      BY <3>2, TrailerReaches
    <3>4. file.blocks[K - 1].start <= ByteBits * in
      <4>1. ByteBits * file.blocks[K - 1].tail <= ByteBits * in
        BY <1>1, <3>1, <3>2 DEF ByteBits
      <4>2. ByteBits * file.blocks[K - 1].tail \in Nat /\ ByteBits * in \in Nat
        <5>1. \A p \in Nat : ByteBits * p \in Nat
          BY DEF ByteBits
        <5> QED
          BY <1>1, <3>2, <5>1
      <4> QED
        BY <3>2, <3>3, <4>1, <4>2
    <3>5. d.pos <= file.blocks[K - 1].to
      BY <1>1, <3>1
    <3> QED
      BY <1>1, <1>3, <3>1, <3>4, <3>5
  <2> QED
    BY <2>1, <2>2
<1> QED
  BY <1>1, <1>4, <1>5

LEMMA TailsInOrder ==
    ASSUME NEW f, IsFile(f), NEW j \in DOMAIN f.blocks, NEW k \in DOMAIN f.blocks, j <= k,
           f.blocks[j].closes
    PROVE  f.blocks[j].tail <= f.blocks[k].tail
<1>1. /\ f.blocks[j].tail \in Nat /\ f.blocks[k].tail \in Nat /\ f.blocks[k].end \in Nat
      /\ f.blocks[k].start \in Nat /\ f.blocks[k].start < f.blocks[k].end
      /\ CeilBytes(f.blocks[k].end) < f.blocks[k].tail /\ j \in Nat /\ k \in Nat
  <2>1. j \in 1 .. Len(f.blocks) /\ k \in 1 .. Len(f.blocks)
    BY BlockType
  <2> QED
    BY <2>1, BlockType
<1>2. CASE j = k
  BY <1>1, <1>2
<1>3. CASE j # k
  <2>1. ByteBits * f.blocks[j].tail < f.blocks[k].start
    BY <1>1, <1>3, DataInOrder
  <2>2. f.blocks[k].end < ByteBits * f.blocks[k].tail
    BY <1>1, TrailerReaches
  <2> QED
    BY <1>1, <2>1, <2>2 DEF ByteBits
<1> QED
  BY <1>2, <1>3

LEMMA StartsMonotonic ==
    ASSUME NEW f, IsFile(f), NEW j \in DOMAIN f.blocks, NEW k \in DOMAIN f.blocks, j <= k
    PROVE  f.blocks[j].start <= f.blocks[k].start
<1>1. /\ f.blocks[j].start \in Nat /\ f.blocks[k].start \in Nat /\ f.blocks[j].end \in Nat
      /\ f.blocks[j].start < f.blocks[j].end /\ j \in Nat /\ k \in Nat
  BY BlockType
<1>2. CASE j = k
  BY <1>1, <1>2
<1>3. CASE j # k
  <2>1. f.blocks[j].end <= f.blocks[k].start
    BY <1>1, <1>3, DataInOrder
  <2> QED
    BY <1>1, <2>1
<1> QED
  BY <1>2, <1>3

\* The decoder has read the file to its end and waits for a member: the blocks it
\* has passed are on disk with their members' trailers, and the others are not.
LEMMA AllRead ==
    ASSUME IsFile(file), NEW d, Placed(file, d, file.size), d.part = "header"
    PROVE  /\ d.pos = TextOnDisk
           /\ \A k \in DOMAIN file.blocks :
                 /\ k \in Missing(file) <=> d.block <= k
                 /\ k < d.block => /\ Closing(file, k) < d.block
                                   /\ file.blocks[Closing(file, k)].tail <= file.size
<1> DEFINE n == Len(file.blocks)
           K == d.block
<1>1. /\ K \in 1 .. (n + 1) /\ K \in Nat /\ d.pos = Before(file, K)
      /\ n \in Nat \ {0} /\ DOMAIN file.blocks = 1 .. n /\ file.size \in Nat
      /\ K # 1 => file.blocks[K - 1].closes /\ file.blocks[K - 1].tail <= file.size
      /\ K # n + 1 => ByteBits * file.size < file.blocks[K].start
  BY DecoderType, BlockType DEF Placed
<1>2. ByteBits * file.size \in Nat
  BY <1>1 DEF ByteBits
<1> HIDE DEF K, n
<1>3. ASSUME NEW k \in DOMAIN file.blocks, K <= k
      PROVE  k \in Missing(file)
  <2>1. K \in DOMAIN file.blocks /\ K # n + 1
    BY <1>1, <1>3
  <2>2. file.blocks[K].start <= file.blocks[k].start
    BY <1>3, <2>1, StartsMonotonic
  <2>3. file.blocks[K].start \in Nat /\ file.blocks[k].start \in Nat
    BY <1>1, <2>1, BlockType DEF n
  <2>4. ByteBits * file.size < file.blocks[k].start
    BY <1>1, <1>2, <2>1, <2>2, <2>3
  <2> QED
    BY <2>4 DEF Missing
<1>4. ASSUME NEW k \in DOMAIN file.blocks, k < K
      PROVE  /\ k \notin Missing(file)
             /\ Closing(file, k) < K
             /\ file.blocks[Closing(file, k)].tail <= file.size
  <2> DEFINE h == K - 1
             c == Closing(file, k)
  <2>1. h \in 1 .. n /\ k <= h /\ k \in 1 .. n /\ file.blocks[h].closes
        /\ file.blocks[h].tail <= file.size
    BY <1>1, <1>4
  <2>2. /\ file.blocks[h].start \in Nat /\ file.blocks[h].end \in Nat
        /\ file.blocks[h].tail \in Nat /\ file.blocks[k].start \in Nat
        /\ file.blocks[h].start < file.blocks[h].end
        /\ CeilBytes(file.blocks[h].end) < file.blocks[h].tail
    BY <1>1, <2>1, BlockType DEF n
  <2>3. /\ c \in k .. n /\ c \in DOMAIN file.blocks /\ file.blocks[c].closes
        /\ \A j \in k .. (c - 1) : ~file.blocks[j].closes
    BY ClosingIs DEF n
  <2> HIDE DEF c
  <2>4. c <= h
    <3>1. h \notin k .. (c - 1)
      BY <2>1, <2>3
    <3> QED
      BY <1>1, <2>1, <2>3, <3>1
  <2>5. file.blocks[c].tail <= file.blocks[h].tail
    BY <1>1, <2>1, <2>3, <2>4, TailsInOrder
  <2>6. file.blocks[c].tail \in Nat
    BY <1>1, <2>3, BlockType DEF n
  <2>7. file.blocks[c].tail <= file.size /\ c < K
    <3>1. file.blocks[c].tail <= file.size
      BY <1>1, <2>1, <2>2, <2>5, <2>6
    <3>2. c \in Int
      BY <2>3
    <3> QED
      BY <1>1, <2>1, <2>4, <3>1, <3>2
  <2>8. file.blocks[k].start <= file.blocks[h].start
    BY <1>1, <2>1, StartsMonotonic
  <2>9. file.blocks[h].end < ByteBits * file.blocks[h].tail
    BY <2>2, TrailerReaches
  <2>10. ~(ByteBits * file.size < file.blocks[k].start)
    <3>1. ByteBits * file.blocks[h].tail <= ByteBits * file.size
      BY <1>1, <2>1, <2>2 DEF ByteBits
    <3>2. ByteBits * file.blocks[h].tail \in Nat
      BY <2>2 DEF ByteBits
    <3> QED
      BY <1>2, <2>2, <2>8, <2>9, <3>1, <3>2
  <2> QED
    BY <2>7, <2>10 DEF Missing, c
<1>5. d.pos = TextOnDisk
  <2>1. CASE K = n + 1
    <3>1. Missing(file) = {}
      BY <1>1, <1>4, <2>1 DEF Missing
    <3>2. TextOnDisk = file.blocks[n].to
      BY <3>1, OnDiskIs, TextLengthIs DEF n
    <3> QED
      BY <1>1, <2>1, <3>2 DEF Before
  <2>2. CASE K # n + 1
    <3>1. K \in DOMAIN file.blocks /\ K \in 1 .. n
      BY <1>1, <2>2
    <3>2. K \in Missing(file)
      BY <1>1, <1>3, <3>1
    <3>3. \A j \in Missing(file) : K <= j
      <4> TAKE j \in Missing(file)
      <4>1. j \in DOMAIN file.blocks
        BY DEF Missing
      <4> QED
        BY <1>1, <1>4, <4>1
    <3>4. TextOnDisk = file.blocks[K].from
      BY <3>2, <3>3, OnDiskIs
    <3>5. file.blocks[K].from = Before(file, K)
      BY <1>1, <3>1, BeforeIs DEF n
    <3> QED
      BY <1>1, <3>4, <3>5
  <2> QED
    BY <2>1, <2>2
<1>6. \A k \in DOMAIN file.blocks : k < K \/ K <= k
  BY <1>1
<1> QED
  BY <1>3, <1>4, <1>5, <1>6 DEF K

\* Only the bytes of a file have text.
LEMMA NoBytesNoText ==
    ASSUME NEW f, IsFile(f), NEW d, Placed(f, d, 0)
    PROVE  d.block = 1 /\ d.part = "header" /\ d.pos = 0
<1> DEFINE K == d.block
<1>1. /\ K \in 1 .. (Len(f.blocks) + 1) /\ d.part \in {"header", "body", "trailer"}
      /\ Len(f.blocks) \in Nat \ {0} /\ DOMAIN f.blocks = 1 .. Len(f.blocks)
  BY BlockType, DecoderType DEF Placed
<1>2. ASSUME NEW k \in DOMAIN f.blocks
      PROVE  /\ ~(f.blocks[k].start <= ByteBits * 0)
             /\ ~(f.blocks[k].end <= ByteBits * 0) /\ ~(f.blocks[k].tail <= 0)
  <2>1. 0 < f.blocks[k].start /\ 0 < f.blocks[k].end /\ 0 < f.blocks[k].tail
    BY StartsLate
  <2>2. f.blocks[k].start \in Nat /\ f.blocks[k].end \in Nat /\ f.blocks[k].tail \in Nat
    BY <1>1, BlockType
  <2> QED
    BY <2>1, <2>2 DEF ByteBits
<1>3. d.part = "header"
  <2>1. K # Len(f.blocks) + 1 => K \in DOMAIN f.blocks
    BY <1>1
  <2>2. d.part # "body"
    BY <1>2, <2>1 DEF Placed
  <2>3. d.part # "trailer"
    BY <1>2, <2>1 DEF Placed
  <2> QED
    BY <1>1, <2>2, <2>3
<1>4. K = 1
  <2>1. K # 1 => f.blocks[K - 1].tail <= 0
    BY <1>3 DEF Placed
  <2>2. K # 1 => K - 1 \in DOMAIN f.blocks
    BY <1>1
  <2> QED
    BY <1>2, <2>1, <2>2
<1>5. d.pos = 0
  BY <1>3, <1>4 DEF Placed, Before
<1> QED
  BY <1>3, <1>4, <1>5

-----------------------------------------------------------------------------
(* How build() ends                                                         *)

\* The last block of a member but the file's last holds text, unless none came
\* before: what gzip writes when it is given all the text at once.  Without it
\* build() inserts two access points at one offset, which is the primary key.
NoEmptyEnd ==
    \A f \in Files :
        \A k \in 1 .. (Len(f.blocks) - 1) :
            (f.blocks[k].closes /\ f.blocks[k].to # 0) => f.blocks[k].from < f.blocks[k].to

\* The whole file has been read when the loops end, and nothing damaged was passed.
ReadToEnd ==
    /\ eof => filePos = file.size
    /\ phase \in Ended => totalIn = file.size
    /\ \A k \in file.corrupt : z.block <= k /\ (z.part = "trailer" => z.block < k)

\* add() is at work only in the middle of the inner loop and after the loops.
AddsWhen == adding => phase \in {"inflate", "lines"}

\* The block the access point a is at, in or before the one the decoder is in; no
\* member between the two has ended and been followed by another.
AtBegun(a, k) ==
    /\ PrimesAt(a, k) /\ BlockBegun(k)
    /\ \A j \in k .. Len(file.blocks) : file.blocks[j].closes => ~MemberBegun(j)

LatestBegun ==
    (phase # "failed" /\ bound # NoPoint) => \E k \in DOMAIN file.blocks : AtBegun(bound, k)

\* A row is inside the member of the block it starts at.
InMember(a, k) ==
    /\ PrimesAt(a, k) /\ BlockBegun(k)
    /\ 0 <= a.end /\ a.end < file.blocks[Closing(file, k)].to

RowsInMembers ==
    phase # "failed" =>
        /\ IsFiniteSet(accessPoints)
        /\ \A a \in accessPoints : \E k \in DOMAIN file.blocks : InMember(a, k)

\* No row has the offset of the access point that is not inserted yet.
KeyIsFree ==
    phase \notin Writing \cup {"failed"} => \A a \in accessPoints : a.start < lastPoint

LEMMA KeepsReadToEnd ==
    ASSUME IInv, ReadToEnd, [Next]_vars
    PROVE  ReadToEnd'
<1>1. /\ Types /\ Stream /\ Waiting /\ Bound
      /\ WindowSize \in Nat \ {0} /\ ChunkSize \in Nat \ {0}
      /\ filePos \in Nat /\ availIn \in Nat /\ availOut \in Nat
      /\ totalIn = filePos - availIn /\ totalIn \in Nat /\ filePos <= file.size
      /\ file' = file /\ IsFile(file) /\ file.size \in Nat
  BY FileIs, NumbersAre, FileStays DEF IInv
<1>2. \A k \in file.corrupt : k \in Nat
  <2>1. file.corrupt \subseteq DOMAIN file.blocks
    BY <1>1 DEF IsFile
  <2> QED
    BY <1>1, <2>1, BlockType
<1>3. ASSUME UNCHANGED <<eof, filePos, totalIn, z>>,
             phase' \in Ended => phase \in Ended
      PROVE  ReadToEnd'
  BY <1>1, <1>3 DEF ReadToEnd
<1>4. CASE Fread
  <2>1. /\ phase = "read" /\ availIn = 0
        /\ availIn' = Smaller(ChunkSize, file.size - filePos)
        /\ filePos' = filePos + availIn'
        /\ eof' = (eof \/ availIn' < ChunkSize)
        /\ UNCHANGED <<totalIn, z>>
        /\ phase' \in Ended => availIn' = 0
    BY <1>4 DEF Fread, Ended
  <2>2. eof' => filePos' = file.size
    <3>1. CASE eof
      <4>1. filePos = file.size
        BY <3>1 DEF ReadToEnd
      <4>2. availIn' = 0
        BY <1>1, <2>1, <4>1 DEF Smaller
      <4> QED
        BY <1>1, <2>1, <4>1, <4>2
    <3>2. CASE availIn' < ChunkSize
      <4>1. availIn' = file.size - filePos
        BY <1>1, <2>1, <3>2 DEF Smaller
      <4> QED
        BY <1>1, <2>1, <4>1
    <3> QED
      BY <2>1, <3>1, <3>2
  <2>3. phase' \in Ended => totalIn' = file.size
    <3>1. HAVE phase' \in Ended
    <3>2. file.size - filePos = 0
      BY <1>1, <2>1, <3>1 DEF Smaller
    <3> QED
      BY <1>1, <2>1, <3>2
  <2> QED
    BY <1>1, <2>1, <2>2, <2>3 DEF ReadToEnd
<1>5. CASE InflateBlock
  <2>1. /\ phase = "inflate" /\ UNCHANGED <<filePos, eof>>
    BY <1>5 DEF InflateBlock, input
  <2>2. PICK o \in InflateToBlock(file, z, filePos - availIn, filePos, availOut) :
           CASE o.ret = "ok"    -> Progressed(o)
             [] o.ret = "end"   -> MemberEnded(o)
             [] o.ret = "error" -> DataError
    BY <1>5 DEF InflateBlock
  <2>3. /\ z.block \in Nat /\ z.part \in {"header", "body", "trailer"}
        /\ o.ret # "error" =>
              /\ o.in \in Nat
              /\ \/ EntersBody(file, z, o) \/ Waits(file, z, filePos, o)
                 \/ Produces(file, z, o) \/ LeavesBlock(file, z, o)
                 \/ LeavesData(file, z, o) \/ EndsMember(file, z, o)
    BY <1>1, <2>1, Inflated, DecoderType DEF Stream, Placed
  <2>4. o.ret \in {"ok", "end", "error"}
    BY <2>3 DEF EntersBody, Waits, Produces, LeavesBlock, LeavesData, EndsMember
  <2>5. o.ret # "error" /\ z.part = "body" => z.block \notin file.corrupt
    BY <2>3, ErrorIffCorrupt
  <2>6. ASSUME o.ret # "error", NEW k \in file.corrupt
        PROVE  o.z.block <= k /\ (o.z.part = "trailer" => o.z.block < k)
    <3>1. z.block <= k /\ (z.part = "trailer" => z.block < k) /\ k \in Nat
      BY <1>2 DEF ReadToEnd
    <3>2. z.part = "body" => z.block < k
      BY <2>3, <2>5, <2>6, <3>1
    <3>3. CASE EntersBody(file, z, o)
      BY <3>1, <3>3, AtParts DEF EntersBody
    <3>4. CASE Waits(file, z, filePos, o)
      BY <3>1, <3>4 DEF Waits
    <3>5. CASE Produces(file, z, o)
      <4>1. o.z.block = z.block /\ o.z.part = "body"
        BY <3>5, AtParts DEF Produces
      <4> QED
        BY <3>1, <4>1
    <3>6. CASE LeavesBlock(file, z, o)
      <4>1. o.z.block = z.block + 1 /\ o.z.part = "body" /\ z.part = "body"
        BY <3>6, AtParts DEF LeavesBlock
      <4> QED
        BY <2>3, <3>1, <3>2, <4>1
    <3>7. CASE LeavesData(file, z, o)
      <4>1. o.z.block = z.block /\ z.part = "body"
        BY <3>7, AtParts DEF LeavesData
      <4> QED
        BY <3>1, <3>2, <4>1
    <3>8. CASE EndsMember(file, z, o)
      <4>1. o.z.block = z.block + 1 /\ o.z.part = "header" /\ z.part = "trailer"
        BY <3>8, AtParts DEF EndsMember
      <4> QED
        BY <2>3, <3>1, <4>1
    <3> QED
      BY <2>3, <2>6, <3>3, <3>4, <3>5, <3>6, <3>7, <3>8
  <2>7. CASE o.ret = "error"
    <3>1. DataError
      BY <2>2, <2>7
    <3>2. UNCHANGED <<totalIn, z>> /\ phase' \notin Ended
      BY <3>1 DEF DataError, stream, Abort, Ended
    <3> QED
      BY <1>3, <2>1, <3>2
  <2>8. CASE o.ret = "ok"
    <3>1. Progressed(o)
      BY <2>2, <2>8
    <3>2. z' = o.z /\ phase' \notin Ended
      BY <3>1 DEF Progressed, NotePoint, Abort, Ended
    <3> QED
      BY <1>1, <2>1, <2>6, <2>8, <3>2 DEF ReadToEnd
  <2>9. CASE o.ret = "end"
    <3>1. MemberEnded(o)
      BY <2>2, <2>9
    <3>2. /\ z' = o.z /\ availIn' = filePos - o.in /\ totalIn' = TotalIn(o)
          /\ phase' \in Ended => availIn' = 0 /\ eof
      BY <3>1 DEF MemberEnded, Ended
    <3>3. phase' \in Ended => totalIn' = file.size
      <4>1. HAVE phase' \in Ended
      <4>2. filePos = file.size /\ filePos - o.in = 0
        BY <3>2, <4>1 DEF ReadToEnd
      <4>3. totalIn' = o.in
        BY <1>1, <2>3, <2>9, <3>2 DEF TotalIn
      <4> QED
        BY <1>1, <2>3, <2>9, <4>2, <4>3
    <3> QED
      BY <1>1, <2>1, <2>6, <2>9, <3>2, <3>3 DEF ReadToEnd
  <2> QED
    BY <2>4, <2>7, <2>8, <2>9
<1>6. CASE ~Fread /\ ~InflateBlock
  <2>1. UNCHANGED <<eof, filePos, totalIn, z>> /\ (phase' \in Ended => phase \in Ended)
    BY <1>6 DEF Next, vars, input, stream, AddIndexer, StartBuild, KeepInput, EmptyWindow,
                OnLine, IndexerThrows, FinderWorks, FlushLast, WriteLines, Abort, Ended
  <2> QED
    BY <1>3, <2>1
<1> QED
  BY <1>4, <1>5, <1>6

LEMMA KeepsAddsWhen ==
    ASSUME AddsWhen, [Next]_vars
    PROVE  AddsWhen'
<1>1. CASE EmptyWindow
  BY <1>1 DEF EmptyWindow, AddsWhen
<1>2. CASE InflateBlock
  BY <1>2 DEF InflateBlock, AddsWhen, finderVars
<1>3. CASE FlushLast
  BY <1>3 DEF FlushLast, Abort, AddsWhen, finderVars
<1>4. CASE OnLine
  BY <1>4 DEF OnLine, Finder!FindLine, Finder!LastLine, AddsWhen
<1>5. CASE FinderWorks
  BY <1>5 DEF FinderWorks, Finder!BufferRest, Finder!Return, AddsWhen
<1>6. CASE IndexerThrows
  BY <1>6 DEF IndexerThrows, AddsWhen
<1>7. CASE UNCHANGED vars \/ AddIndexer \/ StartBuild \/ Fread \/ KeepInput \/ WriteLines
  BY <1>7 DEF vars, finderVars, AddIndexer, StartBuild, Fread, KeepInput, WriteLines, AddsWhen
<1> QED
  BY <1>1, <1>2, <1>3, <1>4, <1>5, <1>6, <1>7 DEF Next

LEMMA KeepsLatestBegun ==
    ASSUME Types, Stream, Waiting, Bound, LatestBegun, [Next]_vars
    PROVE  LatestBegun'
<1>1. file' = file
  BY FileStays
<1>2. z.block \in Nat /\ z.part \in {"header", "body", "trailer"}
  BY DecoderType DEF Stream, Placed
<1>3. ASSUME z' = z, bound' = bound, phase # "failed"
      PROVE  LatestBegun'
  BY <1>1, <1>3 DEF LatestBegun, AtBegun, PrimesAt, BlockBegun, MemberBegun
<1>4. CASE Fails
  BY <1>4 DEF Fails, LatestBegun
<1>5. CASE Idles
  BY <1>3, <1>5 DEF Idles
<1>6. CASE Flushes
  BY <1>3, <1>6 DEF Flushes
<1>7. ASSUME NEW o, phase # "failed", z' = o.z, bound' = bound,
             \A k \in 1 .. Len(file.blocks) :
                /\ BlockBegun(k) => \/ k < o.z.block
                                    \/ k = o.z.block /\ o.z.part # "header"
                /\ (/\ file.blocks[k].closes /\ k < o.z.block
                    /\ o.z.part = "header" => k < o.z.block - 1) => MemberBegun(k)
      PROVE  LatestBegun'
  <2>1. SUFFICES ASSUME bound # NoPoint
                 PROVE  \E k \in DOMAIN file.blocks : AtBegun(bound, k)'
    BY <1>1, <1>7 DEF LatestBegun
  <2>2. PICK k \in DOMAIN file.blocks : AtBegun(bound, k)
    BY <1>7, <2>1 DEF LatestBegun
  <2>3. DOMAIN file.blocks = 1 .. Len(file.blocks) /\ Len(file.blocks) \in Nat
    BY FileIs, BlockType
  <2>4. BlockBegun(k)'
    BY <1>7, <2>2, <2>3 DEF AtBegun, BlockBegun
  <2>5. ASSUME NEW j \in k .. Len(file.blocks), file.blocks[j].closes
        PROVE  ~MemberBegun(j)'
    <3>1. ~MemberBegun(j)
      BY <2>2, <2>5 DEF AtBegun
    <3>2. j \in 1 .. Len(file.blocks)
      BY <2>3
    <3> QED
      BY <1>7, <2>5, <3>1, <3>2 DEF MemberBegun
  <2> QED
    BY <1>1, <1>7, <2>2, <2>4, <2>5 DEF AtBegun, PrimesAt
<1>8. ASSUME NEW o, Advances(o) PROVE LatestBegun'
  <2>1. phase # "failed" /\ z' = o.z /\ bound' = bound
    BY <1>8 DEF Advances, Answers
  <2>2. ASSUME NEW k \in 1 .. Len(file.blocks)
        PROVE  /\ BlockBegun(k) => \/ k < o.z.block
                                   \/ k = o.z.block /\ o.z.part # "header"
               /\ (/\ file.blocks[k].closes /\ k < o.z.block
                   /\ o.z.part = "header" => k < o.z.block - 1) => MemberBegun(k)
    BY <1>2, <1>8, AdvancesTo DEF BlockBegun, MemberBegun
  <2> QED
    BY <1>7, <2>1, <2>2
<1>9. ASSUME NEW o, NotesPoint(o) PROVE LatestBegun'
  <2>1. z' = o.z /\ bound' = NewPoint(o)
    BY <1>9 DEF NotesPoint, NewPoint
  <2>2. /\ o.z.block \in 1 .. Len(file.blocks) /\ o.z.part = "body"
        /\ PrimesAt(NewPoint(o), o.z.block)
        /\ DOMAIN file.blocks = 1 .. Len(file.blocks) /\ Len(file.blocks) \in Nat
    BY <1>9, NewPointPrimes, FileIs, BlockType DEF NotesPoint, Answers
  <2>3. PrimesAt(bound, o.z.block)'
    BY <1>1, <2>1, <2>2 DEF PrimesAt
  <2>4. AtBegun(bound, o.z.block)'
    BY <1>1, <2>1, <2>2, <2>3 DEF AtBegun, BlockBegun, MemberBegun
  <2> QED
    BY <1>1, <2>2, <2>4 DEF LatestBegun
<1>10. ASSUME NEW o, LeavesMember(o) PROVE LatestBegun'
  <2>1. phase # "failed" /\ z' = o.z /\ bound' = bound
    BY <1>10, LeavesMemberTo DEF LeavesMember
  <2>2. ASSUME NEW k \in 1 .. Len(file.blocks)
        PROVE  /\ BlockBegun(k) => \/ k < o.z.block
                                   \/ k = o.z.block /\ o.z.part # "header"
               /\ (/\ file.blocks[k].closes /\ k < o.z.block
                   /\ o.z.part = "header" => k < o.z.block - 1) => MemberBegun(k)
    BY <1>2, <1>10, LeavesMemberTo DEF BlockBegun, MemberBegun
  <2> QED
    BY <1>7, <2>1, <2>2
<1> QED
  BY <1>4, <1>5, <1>6, <1>8, <1>9, <1>10, StepKinds

\* Text that has come out is in members that have not been left.
LEMMA NotLeftYet ==
    ASSUME NEW f, IsFile(f), NEW d, NEW in, Placed(f, d, in),
           NEW c \in DOMAIN f.blocks,
           ~(c < d.block /\ (d.part = "header" => c < d.block - 1))
    PROVE  d.pos <= f.blocks[c].to
<1>1. /\ d.block \in Nat /\ d.pos \in Nat /\ f.blocks[c].to \in Nat
      /\ c \in 1 .. Len(f.blocks) /\ Len(f.blocks) \in Nat
  BY BlockType, DecoderType DEF Placed
<1>2. CASE d.block <= c
  BY <1>1, <1>2, PlacedBetween
<1>3. CASE d.part = "header" /\ c = d.block - 1
  BY <1>1, <1>3 DEF Placed, Before
<1> QED
  BY <1>1, <1>2, <1>3

\* Nothing that has begun is forgotten.
LEMMA BegunStays ==
    ASSUME Types, Stream, Waiting, Bound, [Next]_vars, phase' # "failed",
           NEW k \in DOMAIN file.blocks, BlockBegun(k)
    PROVE  BlockBegun(k)'
<1>1. z.block \in Nat /\ z.part \in {"header", "body", "trailer"} /\ k \in Nat
  BY DecoderType, FileIs, BlockType DEF Stream, Placed
<1>2. CASE Idles \/ Flushes
  BY <1>2 DEF Idles, Flushes, BlockBegun
<1>3. ASSUME NEW o, Advances(o) PROVE BlockBegun(k)'
  <2>1. z' = o.z
    BY <1>3 DEF Advances
  <2> QED
    BY <1>1, <1>3, <2>1, AdvancesTo DEF BlockBegun
<1>4. ASSUME NEW o, NotesPoint(o) PROVE BlockBegun(k)'
  <2>1. z' = o.z
    BY <1>4 DEF NotesPoint
  <2> QED
    BY <1>1, <1>4, <2>1, NotesPointAt DEF BlockBegun
<1>5. ASSUME NEW o, LeavesMember(o) PROVE BlockBegun(k)'
  <2>1. z' = o.z
    BY <1>5 DEF LeavesMember
  <2> QED
    BY <1>1, <1>5, <2>1, LeavesMemberTo DEF BlockBegun
<1> QED
  BY <1>2, <1>3, <1>4, <1>5, StepKinds DEF Fails

LEMMA KeepsRowsInMembers ==
    ASSUME Types, Stream, Waiting, Bound, LatestBegun, RowsInMembers, [Next]_vars
    PROVE  RowsInMembers'
<1>1. file' = file /\ IsFile(file)
      /\ DOMAIN file.blocks = 1 .. Len(file.blocks) /\ Len(file.blocks) \in Nat
  BY FileStays, FileIs, BlockType
<1> SUFFICES ASSUME phase' # "failed"
             PROVE  RowsInMembers'
  BY DEF RowsInMembers
<1>2. phase # "failed"
  BY StepKinds, NotesPointAt, LeavesMemberTo DEF Fails, Idles, Flushes, Advances, Answers
<1>3. IsFiniteSet(accessPoints')
  <2>1. IsFiniteSet(accessPoints)
    BY <1>2 DEF RowsInMembers
  <2>2. ASSUME NEW out
        PROVE  IsFiniteSet(Added(out))
    BY <2>1, FS_AddElement DEF Added
  <2> QED
    BY <2>1, <2>2, StepKinds DEF Fails, Idles, Flushes, Advances, NotesPoint, LeavesMember
<1>4. ASSUME NEW a \in accessPoints'
      PROVE  \E k \in DOMAIN file.blocks : InMember(a, k)'
  <2>1. CASE a \in accessPoints
    <3>1. PICK k \in DOMAIN file.blocks : InMember(a, k)
      BY <1>2, <2>1 DEF RowsInMembers
    <3>2. BlockBegun(k)'
      BY <3>1, BegunStays DEF InMember
    <3> QED
      BY <1>1, <3>1, <3>2 DEF InMember, PrimesAt
  <2>2. ASSUME bound # NoPoint, a.start = bound.start, a.compressed = bound.compressed,
               a.bits = bound.bits, a.window = bound.window,
               NEW d, NEW in, Placed(file, d, in), d.pos # 0, a.end = d.pos - 1,
               \A c \in DOMAIN file.blocks :
                  (file.blocks[c].closes /\ ~MemberBegun(c))
                     => ~(c < d.block /\ (d.part = "header" => c < d.block - 1))
        PROVE  \E k \in DOMAIN file.blocks : InMember(a, k)'
    <3>1. PICK k \in DOMAIN file.blocks : AtBegun(bound, k)
      BY <1>2, <2>2 DEF LatestBegun
    <3> DEFINE c == Closing(file, k)
    <3>2. c \in k .. Len(file.blocks) /\ c \in DOMAIN file.blocks /\ file.blocks[c].closes
      BY <1>1, ClosingIs
    <3> HIDE DEF c
    <3>3. ~MemberBegun(c)
      BY <3>1, <3>2 DEF AtBegun
    <3>4. d.pos <= file.blocks[c].to
      BY <1>1, <2>2, <3>2, <3>3, NotLeftYet
    <3>5. d.pos \in Nat /\ file.blocks[c].to \in Nat
      BY <1>1, <2>2, <3>2, BlockType, PlacedBetween
    <3>6. 0 <= a.end /\ a.end < file.blocks[c].to
      BY <2>2, <3>4, <3>5
    <3>7. BlockBegun(k)'
      BY <3>1, BegunStays DEF AtBegun
    <3> QED
      BY <1>1, <2>2, <3>1, <3>6, <3>7 DEF AtBegun, InMember, PrimesAt, c
  <2>3. ASSUME bound # NoPoint, a.start = bound.start, a.compressed = bound.compressed,
               a.bits = bound.bits, a.window = bound.window, z.pos # 0, a.end = z.pos - 1
        PROVE  \E k \in DOMAIN file.blocks : InMember(a, k)'
    BY <2>2, <2>3 DEF MemberBegun, Stream
  <2>4. ASSUME bound # NoPoint, a.start = bound.start, a.compressed = bound.compressed,
               a.bits = bound.bits, a.window = bound.window,
               NEW o, NotesPoint(o), o.z.pos # 0, a.end = o.z.pos - 1
        PROVE  \E k \in DOMAIN file.blocks : InMember(a, k)'
    <3>1. CASE o.z.pos = z.pos
      BY <2>3, <2>4, <3>1
    <3>2. CASE o.z.pos # z.pos
      <4>1. /\ o.z.block = z.block + 1 /\ ~file.blocks[z.block].closes /\ z.part = "body"
            /\ Placed(file, o.z, o.in) /\ z.block \in 1 .. Len(file.blocks)
        BY <2>4, <3>2, NotesPointAt
      <4>2. ASSUME NEW c \in DOMAIN file.blocks, file.blocks[c].closes, ~MemberBegun(c)
            PROVE  ~(c < o.z.block)
        BY <1>1, <4>1, <4>2 DEF MemberBegun
      <4> QED
        BY <2>2, <2>4, <4>1, <4>2
    <3> QED
      BY <3>1, <3>2
  <2> QED
    BY <2>1, <2>3, <2>4, RowsAfter
<1> QED
  BY <1>1, <1>3, <1>4 DEF RowsInMembers

LEMMA KeepsKeyIsFree ==
    ASSUME NoEmptyEnd, Types, Stream, Waiting, Bound, Tiles, LatestBegun, KeyIsFree,
           [Next]_vars
    PROVE  KeyIsFree'
<1>1. IsFile(file) /\ file \in Files
      /\ DOMAIN file.blocks = 1 .. Len(file.blocks) /\ Len(file.blocks) \in Nat
      /\ lastPoint \in Nat /\ indexEvery \in Nat /\ z.block \in Nat
  BY FileIs, BlockType, DecoderType DEF Types, Bound, Stream, Placed
<1>2. CASE Fails
  BY <1>2 DEF Fails, KeyIsFree
<1>3. CASE Idles
  BY <1>3 DEF Idles, KeyIsFree, Writing
<1>4. CASE Flushes
  BY <1>4 DEF Flushes, KeyIsFree, Writing
<1>5. ASSUME NEW o, Advances(o) \/ LeavesMember(o) PROVE KeyIsFree'
  BY <1>5 DEF Advances, LeavesMember, Answers, KeyIsFree, Writing
<1>6. ASSUME NEW o, NotesPoint(o) PROVE KeyIsFree'
  <2>1. /\ phase = "inflate" /\ phase' \notin Writing
        /\ lastPoint' = o.z.pos /\ accessPoints' = Added(o.z.pos)
    BY <1>6 DEF NotesPoint, Answers, Writing
  <2>2. /\ o.z.pos \in Nat /\ lastPoint <= o.z.pos
        /\ o.z.pos # 0 => bound # NoPoint
    BY <1>6, <2>1, BoundIfText
  <2>3. \A a \in accessPoints : 0 <= a.start /\ a.start < lastPoint /\ a.start \in Int
    BY <2>1, PointType DEF KeyIsFree, Writing, Tiles, Bound
  <2>4. CASE o.z.pos = 0
    <3>1. accessPoints' = accessPoints
      BY <2>1, <2>4 DEF Added
    <3> QED
      BY <1>1, <2>1, <2>2, <2>3, <2>4, <3>1 DEF KeyIsFree
  <2>5. CASE o.z.pos # 0
    <3>1. lastPoint < o.z.pos
      <4>1. CASE o.z.pos - lastPoint > indexEvery
        BY <1>1, <2>2, <4>1
      <4>2. CASE ~(o.z.pos - lastPoint > indexEvery)
        <5>1. /\ o.z.block = z.block /\ z.part = "header" /\ o.z.pos = z.pos
              /\ z.block \in 1 .. Len(file.blocks)
          BY <1>6, <4>2, NotesPointAt
        <5> DEFINE h == z.block - 1
        <5>2. /\ z.pos = Before(file, z.block)
              /\ z.block # 1 => file.blocks[z.block - 1].closes
          BY <5>1 DEF Stream, Placed
        <5>3. z.block # 1
          BY <2>5, <5>1, <5>2 DEF Before
        <5>4. /\ h \in 1 .. (Len(file.blocks) - 1) /\ h \in DOMAIN file.blocks
              /\ file.blocks[h].closes /\ file.blocks[h].to = z.pos
          BY <1>1, <5>1, <5>2, <5>3 DEF Before
        <5>5. file.blocks[h].from < file.blocks[h].to
          BY <1>1, <2>5, <5>1, <5>4 DEF NoEmptyEnd
        <5>6. PICK k \in DOMAIN file.blocks : AtBegun(bound, k)
          BY <2>1, <2>2, <2>5 DEF LatestBegun
        <5>7. k < z.block /\ file.blocks[k].from = lastPoint
          BY <2>1, <2>2, <2>5, <5>1, <5>6 DEF AtBegun, BlockBegun, PrimesAt, Bound
        <5>8. /\ file.blocks[k].from \in Nat /\ file.blocks[k].to \in Nat
              /\ file.blocks[h].from \in Nat /\ file.blocks[h].to \in Nat
              /\ file.blocks[k].from <= file.blocks[k].to /\ k \in Nat /\ h \in Nat
          <6>1. k \in 1 .. Len(file.blocks) /\ h \in 1 .. Len(file.blocks)
            BY <1>1, <5>4, BlockType
          <6> HIDE DEF h
          <6> QED
            BY <1>1, <6>1, BlockType
        <5> HIDE DEF h
        <5>9. CASE k = h
          BY <5>1, <5>4, <5>5, <5>7, <5>8, <5>9
        <5>10. CASE k # h
          <6>1. k < h
            BY <1>1, <5>7, <5>8, <5>10 DEF h
          <6>2. file.blocks[k].to <= file.blocks[h].from
            BY <1>1, <5>4, <6>1, BlocksInOrder
          <6> QED
            BY <5>1, <5>4, <5>5, <5>7, <5>8, <6>2
        <5> QED
          BY <5>9, <5>10
      <4> QED
        BY <4>1, <4>2
    <3>2. \A a \in Added(o.z.pos) : a \in accessPoints \/ a.start = lastPoint
      BY <2>1, <2>2, AddedIs
    <3> QED
      BY <1>1, <2>1, <2>2, <2>3, <3>1, <3>2 DEF KeyIsFree
  <2> QED
    BY <2>4, <2>5
<1> QED
  BY <1>2, <1>3, <1>4, <1>5, <1>6, StepKinds

\* build() fails on damaged files and where an indexer throws.
Cause == phase = "failed" => (Damaged \/ indexers # {})

\* A decoder that has all of the file and is inside a member is in a damaged file.
LEMMA CutShort ==
    ASSUME IsFile(file), NEW d, Placed(file, d, file.size), d.part # "header"
    PROVE  Damaged
<1> DEFINE K == d.block
           c == Closing(file, K)
<1>1. /\ K \in DOMAIN file.blocks /\ K \in 1 .. Len(file.blocks)
      /\ Len(file.blocks) \in Nat /\ file.size \in Nat
      /\ d.part \in {"body", "trailer"}
  BY BlockType, DecoderType DEF Placed
<1>2. c \in K .. Len(file.blocks) /\ c \in DOMAIN file.blocks
      /\ \A j \in K .. (c - 1) : ~file.blocks[j].closes
  BY <1>1, ClosingIs
<1>3. /\ file.blocks[K].start \in Nat /\ file.blocks[K].end \in Nat
      /\ file.blocks[K].tail \in Nat /\ file.blocks[K].start < file.blocks[K].end
      /\ CeilBytes(file.blocks[K].end) < file.blocks[K].tail
      /\ file.blocks[c].start \in Nat /\ file.blocks[c].end \in Nat
      /\ file.blocks[c].tail \in Nat /\ file.blocks[c].start < file.blocks[c].end
      /\ CeilBytes(file.blocks[c].end) < file.blocks[c].tail
  BY <1>1, <1>2, BlockType
<1>4. CeilBytes(file.blocks[K].end) \in Nat /\ CeilBytes(file.blocks[c].end) \in Nat
  BY <1>3, CeilType
<1>5. ByteBits * file.size \in Nat
  BY <1>1 DEF ByteBits
<1>6. CASE d.part = "body"
  <2>1. file.blocks[K].start <= ByteBits * file.size
        /\ file.size <= CeilBytes(file.blocks[K].end)
    BY <1>6 DEF Placed
  <2>2. file.blocks[K].end <= file.blocks[c].end
    <3>1. CASE c = K
      BY <1>3, <3>1
    <3>2. CASE c # K
      <4>1. K < c
        BY <1>1, <1>2, <3>2
      <4>2. file.blocks[K].end <= file.blocks[c].start
        BY <1>1, <1>2, <4>1, DataInOrder
      <4> QED
        BY <1>3, <4>2
    <3> QED
      BY <3>1, <3>2
  <2>3. CeilBytes(file.blocks[K].end) <= CeilBytes(file.blocks[c].end)
    BY <1>3, <2>2, CeilMonotonic
  <2>4. file.size < file.blocks[c].tail
    BY <1>1, <1>3, <1>4, <2>1, <2>3
  <2>5. ByteBits * file.size >= file.blocks[K].start
    BY <1>3, <1>5, <2>1
  <2> QED
    BY <1>1, <2>4, <2>5 DEF Damaged
<1>7. CASE d.part = "trailer"
  <2>1. file.blocks[K].end <= ByteBits * file.size /\ file.size < file.blocks[K].tail
        /\ file.blocks[K].closes
    BY <1>7 DEF Placed
  <2>2. c = K
    <3>1. K \notin K .. (c - 1)
      BY <1>2, <2>1
    <3> QED
      BY <1>1, <1>2, <3>1
  <2>3. ByteBits * file.size >= file.blocks[K].start
    BY <1>3, <1>5, <2>1
  <2>4. file.size < file.blocks[Closing(file, K)].tail
    BY <2>1, <2>2
  <2> HIDE DEF K
  <2> QED
    BY <1>1, <2>3, <2>4 DEF Damaged
<1> QED
  BY <1>1, <1>6, <1>7

\* The access point that is bound can always be inserted.
LEMMA KeyFree ==
    ASSUME Bound, KeyIsFree, phase \notin Writing \cup {"failed"},
           NEW out \in Nat, out # 0 => bound # NoPoint
    PROVE  Flushed(out) # {}
<1>1. lastPoint \in Nat /\ accessPoints \subseteq Point
  BY DEF Bound
<1>2. ASSUME out # 0, NEW a \in accessPoints
      PROVE  a.start # bound.start
  <2>1. bound.start = lastPoint /\ a.start < lastPoint /\ a.start \in Int
    BY <1>1, <1>2, PointType DEF Bound, KeyIsFree
  <2> QED
    BY <1>1, <2>1
<1> QED
  BY <1>2 DEF Flushed

LEMMA KeepsCause ==
    ASSUME IInv, ReadToEnd, AddsWhen, KeyIsFree, Cause, [Next]_vars
    PROVE  Cause'
<1>1. /\ Types /\ Stream /\ Waiting /\ Bound /\ IsFile(file) /\ file' = file
      /\ WindowSize \in Nat \ {0} /\ ChunkSize \in Nat \ {0}
      /\ filePos \in Nat /\ availIn \in Nat /\ availOut \in Nat
      /\ totalIn = filePos - availIn /\ totalIn \in Nat /\ filePos <= file.size
      /\ file.size \in Nat
  BY FileIs, NumbersAre, FileStays DEF IInv
<1>2. Damaged' <=> Damaged
  BY <1>1 DEF Damaged
<1>3. ASSUME phase' = "failed" => (phase = "failed" \/ Damaged \/ indexers # {}),
             indexers' = indexers
      PROVE  Cause'
  BY <1>2, <1>3 DEF Cause
<1>4. CASE AddIndexer
  BY <1>4 DEF AddIndexer, Cause
<1>5. CASE Fread
  <2>1. /\ phase = "read" /\ availIn = 0 /\ indexers' = indexers
        /\ availIn' = Smaller(ChunkSize, file.size - filePos)
        /\ availIn' # 0 => phase' # "failed"
        /\ emitInitialAccessPoint => phase' # "failed"
    BY <1>5 DEF Fread, AtEndOfFile, config
  <2>2. ASSUME availIn' = 0, ~emitInitialAccessPoint
        PROVE  Damaged
    <3>1. totalIn = file.size
      BY <1>1, <2>1, <2>2 DEF Smaller
    <3>2. z.part # "header"
      BY <1>1, <2>1, <2>2 DEF Waiting, Ended
    <3> QED
      BY <1>1, <3>1, <3>2, CutShort DEF Stream
  <2> QED
    BY <1>3, <2>1, <2>2
<1>6. CASE InflateBlock
  <2>1. phase = "inflate" /\ indexers' = indexers
    BY <1>6 DEF InflateBlock, config
  <2>2. PICK o \in InflateToBlock(file, z, filePos - availIn, filePos, availOut) :
           CASE o.ret = "ok"    -> Progressed(o)
             [] o.ret = "end"   -> MemberEnded(o)
             [] o.ret = "error" -> DataError
    BY <1>6 DEF InflateBlock
  <2>3. /\ z.part \in {"header", "body", "trailer"}
        /\ o.ret # "error" =>
              /\ o.z.pos \in Nat
              /\ \/ EntersBody(file, z, o) \/ Waits(file, z, filePos, o)
                 \/ Produces(file, z, o) \/ LeavesBlock(file, z, o)
                 \/ LeavesData(file, z, o) \/ EndsMember(file, z, o)
    BY <1>1, <2>1, Inflated, DecoderType DEF Stream, Placed
  <2>4. o.ret \in {"ok", "end", "error"}
    BY <2>3 DEF EntersBody, Waits, Produces, LeavesBlock, LeavesData, EndsMember
  <2>5. CASE o.ret = "error"
    <3>1. z.block \in file.corrupt
      BY <2>3, <2>5, ErrorIffCorrupt
    <3> QED
      BY <1>3, <2>1, <3>1 DEF Damaged
  <2>6. CASE o.ret = "end"
    <3>1. phase' # "failed"
      BY <2>2, <2>6 DEF MemberEnded
    <3> QED
      BY <1>3, <2>1, <3>1
  <2>7. CASE o.ret = "ok"
    <3>1. Progressed(o)
      BY <2>2, <2>7
    <3>2. totalOut' = o.z.pos
      BY <1>1, <2>1, <2>7, <3>1, StreamMoves
    <3>3. CASE ~NeedsPoint(o, totalOut')
      <4>1. phase' # "failed"
        BY <3>1, <3>3 DEF Progressed
      <4> QED
        BY <1>3, <2>1, <4>1
    <3>4. CASE NeedsPoint(o, totalOut')
      <4>1. NotePoint(o, totalOut', window', availOut')
        BY <3>1, <3>4 DEF Progressed
      <4>2. o.z.pos # 0 => bound # NoPoint
        <5>1. EntersBody(file, z, o) \/ LeavesBlock(file, z, o)
          BY <2>3, <2>7, <3>4
             DEF NeedsPoint, EntersBody, Waits, Produces, LeavesBlock, LeavesData, EndsMember
        <5>2. bound = NoPoint => EntersBody(file, z, o) /\ o.z.pos = 0
          <6>1. bound = NoPoint => z.part = "header" /\ z.pos = 0
            BY <1>1, <2>1 DEF Bound
          <6> QED
            BY <5>1, <6>1, AtParts DEF EntersBody, LeavesBlock
        <5> QED
          BY <5>2
      <4>3. Flushed(totalOut') # {}
        BY <1>1, <2>1, <2>3, <2>7, <3>2, <4>2, KeyFree DEF Writing
      <4>4. phase' # "failed"
        BY <4>1, <4>3 DEF NotePoint
      <4> QED
        BY <1>3, <2>1, <4>4
    <3> QED
      BY <3>3, <3>4
  <2> QED
    BY <2>4, <2>5, <2>6, <2>7
<1>7. CASE FlushLast
  <2>1. phase = "flush" /\ indexers' = indexers
        /\ (Flushed(totalOut) # {} => phase' # "failed")
    BY <1>7 DEF FlushLast, config
  <2>2. totalOut = z.pos /\ z.pos \in Nat /\ (z.pos # 0 => bound # NoPoint)
    BY <1>1, <2>1, DecoderType DEF Types, Stream, Placed, Bound
  <2>3. Flushed(totalOut) # {}
    BY <1>1, <2>1, <2>2, KeyFree DEF Writing
  <2> QED
    BY <1>3, <2>1, <2>3
<1>8. CASE IndexerThrows
  <2>1. indexers # {} /\ indexers' = indexers
    BY <1>8 DEF IndexerThrows, config
  <2> QED
    BY <1>3, <2>1
<1>9. CASE StartBuild \/ WriteLines \/ KeepInput \/ EmptyWindow \/ OnLine
           \/ FinderWorks \/ UNCHANGED vars
  <2>1. indexers' = indexers /\ (phase' = "failed" => phase = "failed")
    BY <1>9 DEF StartBuild, WriteLines, KeepInput, EmptyWindow, OnLine, FinderWorks,
                config, vars
  <2> QED
    BY <1>3, <2>1
<1> QED
  BY <1>4, <1>5, <1>6, <1>7, <1>8, <1>9 DEF Next

\* What else build() keeps true, when no access point meets the primary key.
RowsInv == /\ IInv /\ ReadToEnd /\ AddsWhen /\ LatestBegun /\ RowsInMembers

LEMMA InitRowsInv == Init => RowsInv
<1> SUFFICES ASSUME Init PROVE RowsInv
  OBVIOUS
<1>1. IInv
  BY InitInvariant
<1>2. /\ phase = "configure" /\ filePos = 0 /\ eof = FALSE /\ z = NewDecoder
      /\ bound = NoPoint /\ accessPoints = {} /\ adding = FALSE
  BY DEF Init, Finder!FinderInit
<1>3. IsFile(file) /\ \A k \in file.corrupt : k \in Nat /\ 1 <= k
  <2>1. IsFile(file) /\ file.corrupt \subseteq DOMAIN file.blocks
    BY <1>1, FileIs DEF IInv, IsFile
  <2> QED
    BY <2>1, BlockType
<1>4. ReadToEnd
  BY <1>2, <1>3 DEF ReadToEnd, Ended, NewDecoder
<1>5. RowsInMembers
  BY <1>2, FS_EmptySet DEF RowsInMembers
<1> QED
  BY <1>1, <1>2, <1>4, <1>5 DEF RowsInv, AddsWhen, LatestBegun

LEMMA KeepsRowsInv == RowsInv /\ [Next]_vars => RowsInv'
BY KeepsInvariant, KeepsReadToEnd, KeepsAddsWhen, KeepsLatestBegun, KeepsRowsInMembers
   DEF RowsInv, IInv

\* Whatever build() is given, it has read the whole file when it leaves the loops
\* and every row is inside a member.
THEOREM RowsInvariance == Spec => []RowsInv
BY InitRowsInv, KeepsRowsInv, PTL DEF Spec

\* A committed index is of an undamaged file: all that is on disk was decoded.
LEMMA DoneIsIntact ==
    ASSUME IInv, ReadToEnd, phase = "done"
    PROVE  ~Damaged
<1>1. /\ IsFile(file) /\ totalIn = file.size /\ z.part = "header"
      /\ Placed(file, z, file.size) /\ file.size \in Nat
  BY FileIs DEF IInv, ReadToEnd, Waiting, Stream, Ended
<1>2. ASSUME NEW k \in DOMAIN file.blocks
      PROVE  /\ k \in Missing(file) <=> z.block <= k
             /\ k < z.block => file.blocks[Closing(file, k)].tail <= file.size
             /\ file.blocks[k].start \in Nat /\ z.block \in Nat /\ k \in Nat
             /\ Closing(file, k) \in DOMAIN file.blocks
             /\ file.blocks[Closing(file, k)].tail \in Nat
  <2>1. /\ k \in Missing(file) <=> z.block <= k
        /\ k < z.block => file.blocks[Closing(file, k)].tail <= file.size
    BY <1>1, AllRead
  <2>2. Closing(file, k) \in DOMAIN file.blocks
    BY <1>1, ClosingIs
  <2>3. file.blocks[k].start \in Nat /\ file.blocks[Closing(file, k)].tail \in Nat
        /\ k \in Nat
    BY <1>1, <2>2, BlockType
  <2>4. z.block \in Nat
    BY <1>1, DecoderType DEF Placed
  <2> QED
    BY <2>1, <2>2, <2>3, <2>4
<1>3. ByteBits * file.size \in Nat
  BY <1>1 DEF ByteBits
<1>4. file.corrupt = {}
  <2> SUFFICES ASSUME NEW k \in file.corrupt PROVE FALSE
    OBVIOUS
  <2>1. k \in DOMAIN file.blocks /\ file.blocks[k].start < ByteBits * file.size
    BY <1>1 DEF IsFile
  <2>2. ByteBits * file.size < file.blocks[k].start
    BY <1>2, <2>1 DEF ReadToEnd, Missing
  <2> QED
    BY <1>2, <1>3, <2>1, <2>2
<1>5. ASSUME NEW k \in DOMAIN file.blocks, ByteBits * file.size >= file.blocks[k].start,
             file.size < file.blocks[Closing(file, k)].tail
      PROVE  FALSE
  <2>1. k \notin Missing(file)
    BY <1>2, <1>3, <1>5 DEF Missing
  <2>2. k < z.block
    BY <1>2, <2>1
  <2> QED
    BY <1>1, <1>2, <1>5, <2>2
<1> QED
  BY <1>4, <1>5 DEF Damaged

\* A committed index is of an undamaged file, and a file that is not damaged gets
\* one unless an indexer throws, provided no access point meets the primary key.
THEOREM IntactIndexed ==
    ASSUME NoEmptyEnd
    PROVE  Spec => []IndexedIffIntact
<1>1. Init => RowsInv /\ KeyIsFree /\ Cause
  <2>1. Init => phase = "configure" /\ accessPoints = {}
    BY DEF Init
  <2> QED
    BY <2>1, InitRowsInv DEF KeyIsFree, Cause
<1>2. RowsInv /\ KeyIsFree /\ Cause /\ [Next]_vars => (RowsInv /\ KeyIsFree /\ Cause)'
  <2> SUFFICES ASSUME RowsInv, KeyIsFree, Cause, [Next]_vars
               PROVE  RowsInv' /\ KeyIsFree' /\ Cause'
    OBVIOUS
  <2>1. RowsInv'
    BY KeepsRowsInv
  <2>2. KeyIsFree'
    BY KeepsKeyIsFree DEF RowsInv, IInv
  <2>3. Cause'
    BY KeepsCause DEF RowsInv
  <2> QED
    BY <2>1, <2>2, <2>3
<1>3. RowsInv /\ Cause => IndexedIffIntact
  BY DoneIsIntact DEF RowsInv, Cause, IndexedIffIntact, IntactFileIsIndexed
<1> QED
  BY <1>1, <1>2, <1>3, PTL DEF Spec

-----------------------------------------------------------------------------
(* Lines on their way to the indexers                                       *)

\* Nothing is handed over before the first output; after that all the text but what
\* is in the ring has been.
HandedOver ==
    phase # "failed" =>
        /\ first => /\ z.pos = 0 /\ availOut = 0
                    /\ phase \in {"configure", "read", "output"}
                    /\ phase # "output" => filePos = 0
        /\ ~first => WindowSize - availOut <= z.pos

LEMMA KeepsHandedOver ==
    ASSUME IInv, HandedOver, file.size # 0, [Next]_vars
    PROVE  HandedOver'
<1>1. /\ Types /\ Stream /\ Waiting /\ IsFile(file) /\ file' = file
      /\ WindowSize \in Nat \ {0} /\ ChunkSize \in Nat \ {0}
      /\ filePos \in Nat /\ availIn \in Nat /\ availOut \in Nat
      /\ file.size \in Nat /\ z.pos \in Nat
  BY FileIs, NumbersAre, FileStays, DecoderType DEF IInv, Stream, Placed
<1>2. ASSUME UNCHANGED <<first, availOut, z>>, phase' # "failed" => phase # "failed",
             first /\ phase' # "failed" =>
                /\ phase' \in {"configure", "read", "output"}
                /\ phase' # "output" => filePos' = 0
      PROVE  HandedOver'
  BY <1>1, <1>2 DEF HandedOver
<1>3. CASE Fread
  <2>1. /\ phase = "read" /\ UNCHANGED <<first, availOut, z>>
        /\ availIn' = Smaller(ChunkSize, file.size - filePos)
        /\ availIn' # 0 => phase' = "output"
    BY <1>3 DEF Fread
  <2>2. first => availIn' # 0
    BY <1>1, <2>1 DEF HandedOver, Smaller
  <2> QED
    BY <1>2, <2>1, <2>2
<1>4. CASE AddIndexer \/ StartBuild \/ KeepInput
  BY <1>2, <1>4 DEF AddIndexer, StartBuild, KeepInput, stream, input, HandedOver
<1>5. CASE EmptyWindow
  <2>1. /\ phase = "output" /\ phase' = "inflate" /\ z' = z
        /\ IF availOut = 0 THEN availOut' = WindowSize /\ first' = FALSE
           ELSE availOut' = availOut /\ first' = first
    BY <1>5 DEF EmptyWindow
  <2> QED
    BY <1>1, <2>1 DEF HandedOver
<1>6. CASE InflateBlock
  <2>1. phase = "inflate" /\ first' = first
    BY <1>6 DEF InflateBlock
  <2>2. PICK o \in InflateToBlock(file, z, filePos - availIn, filePos, availOut) :
           CASE o.ret = "ok"    -> Progressed(o)
             [] o.ret = "end"   -> MemberEnded(o)
             [] o.ret = "error" -> DataError
    BY <1>6 DEF InflateBlock
  <2>3. ~first /\ WindowSize - availOut <= z.pos
    BY <2>1 DEF HandedOver
  <2>4. o.ret # "error" =>
            /\ o.z.pos \in Nat
            /\ \/ EntersBody(file, z, o) \/ Waits(file, z, filePos, o)
               \/ Produces(file, z, o) \/ LeavesBlock(file, z, o)
               \/ LeavesData(file, z, o) \/ EndsMember(file, z, o)
    BY <1>1, <2>1, Inflated
  <2>5. o.ret \in {"ok", "end", "error"}
    BY <2>4 DEF EntersBody, Waits, Produces, LeavesBlock, LeavesData, EndsMember
  <2>6. CASE o.ret = "ok"
    <3>1. z' = o.z /\ availOut' = availOut - (o.z.pos - z.pos)
      BY <2>2, <2>6 DEF Progressed
    <3> QED
      BY <1>1, <2>1, <2>3, <2>4, <2>6, <3>1 DEF HandedOver
  <2>7. CASE o.ret = "end"
    <3>1. z' = o.z /\ availOut' = availOut
      BY <2>2, <2>7 DEF MemberEnded
    <3>2. o.z.pos = z.pos
      BY <2>4, <2>7, AtParts
         DEF EntersBody, Waits, Produces, LeavesBlock, LeavesData, EndsMember
    <3> QED
      BY <1>1, <2>1, <2>3, <3>1, <3>2 DEF HandedOver
  <2>8. CASE o.ret = "error"
    <3>1. phase' = "failed"
      BY <2>2, <2>8 DEF DataError, Abort
    <3> QED
      BY <3>1 DEF HandedOver
  <2> QED
    BY <2>5, <2>6, <2>7, <2>8
<1>7. CASE IndexerThrows
  BY <1>7 DEF IndexerThrows, Abort, HandedOver
<1>8. CASE FlushLast \/ WriteLines
  BY <1>1, <1>8 DEF FlushLast, WriteLines, stream, HandedOver
<1>9. CASE OnLine \/ FinderWorks \/ UNCHANGED vars
  <2>1. UNCHANGED <<phase, first, availOut, z, filePos>>
    BY <1>9 DEF OnLine, FinderWorks, stream, input, vars
  <2> QED
    BY <1>2, <2>1 DEF HandedOver
<1> QED
  BY <1>3, <1>4, <1>5, <1>6, <1>7, <1>8, <1>9 DEF Next

\* What is in the ring below the free bytes is the text that is not handed over.
LEMMA RingIsText ==
    ASSUME IInv, HandedOver, phase \notin {"failed"} \cup Writing, ~first
    PROVE  /\ Handed \in Nat /\ Handed = z.pos - (WindowSize - availOut)
           /\ Handed <= z.pos /\ z.pos \in Nat
           /\ SubSeq(window, 1, WindowSize - availOut) = Slice(Handed, z.pos)
<1> DEFINE at == WindowSize - availOut
           s == SubSeq(window, 1, at)
<1>1. /\ Types /\ Stream /\ WindowSize \in Nat \ {0} /\ availOut \in 0 .. WindowSize
      /\ z.pos \in Nat
  BY NumbersAre, DecoderType DEF IInv, Types, Stream, Placed
<1>2. at \in Nat /\ at <= WindowSize
  BY <1>1
<1>3. /\ Handed = z.pos - at /\ at <= z.pos
  BY DEF Handed, HandedOver
<1>4. window \in Seq(Int) /\ Len(window) = WindowSize
      /\ \A i \in 1 .. WindowSize : window[i] = RingByte(i, z.pos, availOut)
  BY <1>1 DEF Stream, RingHolds
<1> HIDE DEF at
<1>5. /\ s \in Seq(Int) /\ Len(s) = at /\ \A i \in 1 .. at : s[i] = window[i]
  BY <1>1, <1>2, <1>4
<1>6. Handed \in Nat /\ Handed <= z.pos /\ z.pos - Handed = at
  BY <1>1, <1>2, <1>3
<1>7. /\ Slice(Handed, z.pos) \in Seq(Nat) /\ Len(Slice(Handed, z.pos)) = at
      /\ \A i \in 1 .. at : Slice(Handed, z.pos)[i] = Handed + i - 1
  <2>1. Slice(Handed, z.pos) = [i \in 1 .. at |-> Handed + i - 1]
    BY <1>6 DEF Slice
  <2>2. \A i \in 1 .. at : Handed + i - 1 \in Nat
    BY <1>2, <1>6
  <2> QED
    BY <1>2, <2>1, <2>2
<1>8. \A i \in 1 .. at : s[i] = Handed + i - 1
  <2> TAKE i \in 1 .. at
  <2>1. window[i] = RingByte(i, z.pos, availOut) /\ s[i] = window[i] /\ i <= at
    BY <1>1, <1>2, <1>4, <1>5
  <2> QED
    BY <1>1, <1>3, <2>1 DEF RingByte, at
<1> HIDE DEF s
<1>9. s = Slice(Handed, z.pos)
  BY <1>2, <1>5, <1>7, <1>8
<1> QED
  BY <1>1, <1>3, <1>6, <1>9 DEF s, at

LEMMA DiskStays ==
    ASSUME Types, [Next]_vars
    PROVE  /\ file' = file /\ TextOnDisk' = TextOnDisk /\ NewlinesOnDisk' = NewlinesOnDisk
           /\ IsFile(file) /\ TextOnDisk \in Nat
BY FileStays, FileIs, OnDiskIs DEF TextOnDisk, NewlinesOnDisk

\* The text on disk has all been decoded when the loops end.
LEMMA AllDecoded ==
    ASSUME IInv, ReadToEnd, phase \in Ended
    PROVE  z.pos = TextOnDisk
<1>1. /\ IsFile(file) /\ totalIn = file.size /\ z.part = "header"
      /\ Placed(file, z, file.size)
  BY FileIs DEF IInv, ReadToEnd, Waiting, Stream, Ended
<1> QED
  BY <1>1, AllRead

\* What the finder is given.
LEMMA Feeds ==
    ASSUME RowsInv, HandedOver, file.size # 0, [Next]_vars,
           phase \notin {"failed"} \cup Writing, ~first, ~adding,
           NEW isLast \in BOOLEAN, isLast => z.pos = TextOnDisk,
           z.pos = Handed => isLast,
           Finder!Add(SubSeq(window, 1, WindowSize - availOut), isLast),
           Handed' = z.pos, phase' \in Writing <=> isLast
    PROVE  Chunks!Feed
<1>1. /\ IInv /\ IsFile(file) /\ Placed(file, z, totalIn)
      /\ TextOnDisk' = TextOnDisk /\ NewlinesOnDisk' = NewlinesOnDisk
  BY DiskStays DEF RowsInv, IInv, Stream
<1>2. /\ Handed \in Nat /\ Handed <= z.pos /\ z.pos \in Nat
      /\ SubSeq(window, 1, WindowSize - availOut) = Slice(Handed, z.pos)
  BY <1>1, RingIsText
<1>3. z.pos <= TextOnDisk /\ TextOnDisk \in Nat
  BY <1>1, WithinDisk, OnDiskIs
<1>4. z.pos \in Handed .. TextOnDisk
  BY <1>2, <1>3
<1>5. Chunks!Add(Slice(Handed, z.pos), isLast)
  BY <1>2 DEF Finder!Add, Chunks!Add
<1>6. Slice(Handed, z.pos) = Chunks!Slice(Handed, z.pos)
  BY DEF Slice, Chunks!Slice
<1>7. ~(phase \in Writing)
  OBVIOUS
<1>8. Chunks!Add(Chunks!Slice(Handed, z.pos), isLast)
  BY <1>5, <1>6
<1> QED
  BY <1>1, <1>4, <1>7, <1>8 DEF Chunks!Feed

\* A line is found by what is on disk of the file.
LEMMA FindsOnDisk ==
    ASSUME IInv, Chunks!IInv, IsFile(file), NEW s \in BOOLEAN
    PROVE  /\ Finder!FindLine(s) => Chunks!FindLine(s)
           /\ Finder!LastLine(s) => Chunks!LastLine(s)
           /\ Finder!BufferRest => Chunks!BufferRest
           /\ Finder!Return => Chunks!Return
<1>1. \A i \in 1 .. Len(chunk) : chunk[i] \in file.newlines <=> chunk[i] \in NewlinesOnDisk
  <2>1. /\ Len(chunk) \in Nat /\ Len(chunk) <= Handed
        /\ chunk = Chunks!Slice(Handed - Len(chunk), Handed)
        /\ Handed \in Nat /\ Handed <= TextOnDisk /\ TextOnDisk \in Nat
    BY OnDiskIs DEF Chunks!IInv, Chunks!TypeOK, Chunks!ChunkIsText, Chunks!Reached
  <2>2. \A i \in 1 .. Len(chunk) : chunk[i] < TextOnDisk
    <3> DEFINE r == Handed - Len(chunk)
    <3>1. r \in Nat /\ Handed - r = Len(chunk)
      BY <2>1
    <3>2. \A i \in 1 .. Len(chunk) : chunk[i] = r + i - 1
      BY <2>1, <3>1 DEF Chunks!Slice
    <3> QED
      BY <2>1, <3>1, <3>2
  <2> QED
    BY <2>2 DEF NewlinesOnDisk
<1>2. \A segment : Finder!LineData(segment, s) <=> Chunks!LineData(segment, s)
  BY DEF Finder!LineData, Chunks!LineData, Finder!Line, Chunks!Line,
         Finder!Number, Chunks!Number, Finder!After, Chunks!After
<1>3. Finder!FindLine(s) => Chunks!FindLine(s)
  <2> SUFFICES ASSUME Finder!FindLine(s) PROVE Chunks!FindLine(s)
    OBVIOUS
  <2>1. PICK e \in 1 .. Len(chunk) :
           /\ chunk[e] \in file.newlines
           /\ \A i \in 1 .. (e - 1) : chunk[i] \notin file.newlines
           /\ Finder!LineData(SubSeq(chunk, 1, e - 1), s)
           /\ chunk' = SubSeq(chunk, e + 1, Len(chunk))
    BY DEF Finder!FindLine
  <2>3. \A i \in 1 .. (e - 1) : chunk[i] \notin NewlinesOnDisk
    BY <2>1 DEF NewlinesOnDisk
  <2>4. chunk[e] \in NewlinesOnDisk /\ Chunks!LineData(SubSeq(chunk, 1, e - 1), s)
    BY <1>1, <1>2, <2>1
  <2>5. adding /\ UNCHANGED <<last, adding>>
    BY DEF Finder!FindLine
  <2> QED
    BY <2>1, <2>3, <2>4, <2>5 DEF Chunks!FindLine
<1>6. Finder!LastLine(s) => Chunks!LastLine(s)
  BY <1>2 DEF Finder!LastLine, Chunks!LastLine
<1>4. Finder!BufferRest => Chunks!BufferRest
  BY <1>1 DEF Finder!BufferRest, Chunks!BufferRest
<1>5. Finder!Return => Chunks!Return
  BY DEF Finder!Return, Chunks!Return, Finder!WithSentinel, Chunks!WithSentinel
<1> QED
  BY <1>3, <1>4, <1>5, <1>6

LEMMA ChunkSteps ==
    ASSUME RowsInv, HandedOver, file.size # 0, Chunks!IInv, phase' # "failed",
           [Next]_vars
    PROVE  [Chunks!Next]_(Chunks!vars)
<1>1. /\ IInv /\ Types /\ Stream /\ Waiting /\ Bound /\ IsFile(file) /\ file' = file
      /\ TextOnDisk' = TextOnDisk /\ NewlinesOnDisk' = NewlinesOnDisk
      /\ WindowSize \in Nat \ {0} /\ availOut \in Nat /\ filePos \in Nat /\ z.pos \in Nat
  BY DiskStays, NumbersAre, DecoderType DEF RowsInv, IInv, Stream, Placed
<1>2. phase # "failed"
  BY <1>1, StepKinds, NotesPointAt, LeavesMemberTo
     DEF Fails, Idles, Flushes, Advances, Answers
<1>3. ASSUME UNCHANGED <<finderVars, Handed>>, phase' \in Writing <=> phase \in Writing
      PROVE  UNCHANGED Chunks!vars
  BY <1>1, <1>3 DEF finderVars, Chunks!vars, Chunks!finderVars
<1>4. ASSUME UNCHANGED <<finderVars, first, z, availOut>>,
             phase' \in Writing <=> phase \in Writing
      PROVE  UNCHANGED Chunks!vars
  BY <1>3, <1>4 DEF Handed
<1>5. CASE EmptyWindow
  <2>1. /\ phase = "output" /\ phase' = "inflate" /\ z' = z
        /\ phase \notin Writing /\ phase' \notin Writing
        /\ IF availOut = 0 THEN HandOver /\ availOut' = WindowSize /\ first' = FALSE
           ELSE UNCHANGED <<availOut, first, finderVars>>
    BY <1>5 DEF EmptyWindow, Writing
  <2>2. CASE availOut # 0
    BY <1>4, <2>1, <2>2
  <2>3. CASE availOut = 0 /\ first
    <3>1. Handed = 0 /\ Handed' = 0 /\ UNCHANGED finderVars
      BY <1>1, <1>2, <2>1, <2>3 DEF Handed, HandedOver, HandOver
    <3> QED
      BY <1>3, <2>1, <3>1
  <2>4. CASE availOut = 0 /\ ~first
    <3>1. window \in Seq(Int) /\ Len(window) = WindowSize
      BY <1>1 DEF Stream, RingHolds
    <3>2. window = SubSeq(window, 1, WindowSize - availOut)
      BY <1>1, <2>4, <3>1
    <3>3. Finder!Add(SubSeq(window, 1, WindowSize - availOut), FALSE) /\ ~adding
      BY <2>1, <2>4, <3>2 DEF HandOver, Finder!Add
    <3>4. Handed' = z.pos
      BY <1>1, <2>1, <2>4 DEF Handed
    <3>5. Handed = z.pos - WindowSize
      BY <1>1, <2>1, <2>4 DEF Handed
    <3>6. Handed # z.pos
      BY <1>1, <3>5
    <3>7. Chunks!Feed
      BY <1>2, <2>1, <2>4, <3>3, <3>4, <3>6, Feeds
    <3> QED
      BY <3>7 DEF Chunks!Next
  <2> QED
    BY <2>2, <2>3, <2>4
<1>6. CASE FlushLast
  <2>1. /\ phase = "flush" /\ phase' = "lines" /\ phase \in Ended
        /\ phase \notin Writing /\ phase' \in Writing
        /\ Finder!Add(SubSeq(window, 1, WindowSize - availOut), TRUE)
        /\ z' = z
    BY <1>6 DEF FlushLast, stream, Abort, Ended, Writing
  <2>2. ~first /\ ~adding /\ Handed' = z.pos
    BY <1>2, <2>1 DEF HandedOver, Finder!Add, Handed
  <2>3. z.pos = TextOnDisk
    BY <2>1, AllDecoded DEF RowsInv
  <2>4. Chunks!Feed
    BY <1>2, <2>1, <2>2, <2>3, Feeds
  <2> QED
    BY <2>4 DEF Chunks!Next
<1>7. CASE OnLine
  <2>1. UNCHANGED <<phase, first, z, availOut>>
    BY <1>7 DEF OnLine, stream
  <2>2. PICK s \in BOOLEAN : Finder!FindLine(s) \/ Finder!LastLine(s)
    BY <1>7 DEF OnLine, Keeps
  <2>3. Chunks!FindLine(s) \/ Chunks!LastLine(s)
    BY <1>1, <2>2, FindsOnDisk
  <2>4. UNCHANGED <<NewlinesOnDisk, TextOnDisk, Handed, phase \in Writing>>
    BY <1>1, <2>1 DEF Handed
  <2> QED
    BY <2>3, <2>4 DEF Chunks!Next, Chunks!FinderStep
<1>8. CASE FinderWorks
  <2>1. UNCHANGED <<phase, first, z, availOut>> /\ (Finder!BufferRest \/ Finder!Return)
    BY <1>8 DEF FinderWorks, stream
  <2>2. Chunks!BufferRest \/ Chunks!Return
    BY <1>1, <2>1, FindsOnDisk
  <2>3. UNCHANGED <<NewlinesOnDisk, TextOnDisk, Handed, phase \in Writing>>
    BY <1>1, <2>1 DEF Handed
  <2> QED
    BY <2>2, <2>3 DEF Chunks!Next, Chunks!FinderStep
<1>9. CASE InflateBlock
  <2>1. phase = "inflate" /\ phase \notin Writing /\ UNCHANGED <<finderVars, first>>
    BY <1>9 DEF InflateBlock, Writing
  <2>2. PICK o \in InflateToBlock(file, z, filePos - availIn, filePos, availOut) :
           CASE o.ret = "ok"    -> Progressed(o)
             [] o.ret = "end"   -> MemberEnded(o)
             [] o.ret = "error" -> DataError
    BY <1>9 DEF InflateBlock
  <2>3. o.ret # "error" =>
            /\ o.z.pos \in Nat
            /\ \/ EntersBody(file, z, o) \/ Waits(file, z, filePos, o)
               \/ Produces(file, z, o) \/ LeavesBlock(file, z, o)
               \/ LeavesData(file, z, o) \/ EndsMember(file, z, o)
    BY <1>1, <2>1, Inflated
  <2>4. o.ret \in {"ok", "end", "error"}
    BY <2>3 DEF EntersBody, Waits, Produces, LeavesBlock, LeavesData, EndsMember
  <2>5. o.ret # "error"
    BY <2>2 DEF DataError, Abort
  <2>6. z'.pos - (WindowSize - availOut') = z.pos - (WindowSize - availOut)
    <3>1. CASE o.ret = "ok"
      <4>1. z' = o.z /\ availOut' = availOut - (o.z.pos - z.pos)
        BY <2>2, <3>1 DEF Progressed
      <4> QED
        BY <1>1, <2>3, <3>1, <4>1
    <3>2. CASE o.ret = "end"
      <4>1. z' = o.z /\ availOut' = availOut
        BY <2>2, <3>2 DEF MemberEnded
      <4>2. o.z.pos = z.pos
        BY <2>3, <3>2, AtParts
           DEF EntersBody, Waits, Produces, LeavesBlock, LeavesData, EndsMember
      <4> QED
        BY <4>1, <4>2
    <3> QED
      BY <2>4, <2>5, <3>1, <3>2
  <2>9. phase' \notin Writing
    <3>1. Progressed(o) => phase' \notin Writing
      BY DEF Progressed, NotePoint, Abort, Writing
    <3>2. MemberEnded(o) => phase' \notin Writing
      BY DEF MemberEnded, Writing
    <3> QED
      BY <2>2, <2>4, <2>5, <3>1, <3>2
  <2>7. Handed' = Handed
    BY <2>1, <2>6, <2>9 DEF Handed
  <2>8. UNCHANGED Chunks!vars
    BY <1>3, <2>1, <2>7, <2>9
  <2> QED
    BY <2>8
<1>10. CASE AddIndexer \/ StartBuild \/ Fread \/ KeepInput \/ WriteLines \/ UNCHANGED vars
  <2>1. UNCHANGED <<finderVars, first, z, availOut>>
    BY <1>10 DEF AddIndexer, StartBuild, Fread, KeepInput, WriteLines, stream, vars
  <2>2. phase' \in Writing <=> phase \in Writing
    BY <1>10 DEF AddIndexer, StartBuild, Fread, AtEndOfFile, Abort, KeepInput, WriteLines,
                 vars, Writing
  <2>3. UNCHANGED Chunks!vars
    BY <1>4, <2>1, <2>2
  <2> QED
    BY <2>3
<1>11. ~IndexerThrows
  BY DEF IndexerThrows, Abort
<1> QED
  BY <1>5, <1>6, <1>7, <1>8, <1>9, <1>10, <1>11 DEF Next

\* What the lines kept say about rows, answers and keys.
RowsKept ==
    /\ saveAllLines \in BOOLEAN
    /\ phase = "configure" => calls = <<>>
    /\ saveAllLines => Chunks!AllSaved
    /\ phase = "done" =>
          lineTable = [k \in 1 .. (Len(lineOffsets) - 1) |->
                          [offset |-> lineOffsets[k], length |-> RowLength(k)]]
    /\ \A r \in keyRows : r.line \in 1 .. Chunks!Kept /\ lineOffsets[r.line] = r.start

\* The finder has been given the text on disk and has kept lines of it, for a file
\* that is not empty: with an empty one the ring's uninitialised bytes go to it.
TextKept ==
    (phase # "failed" /\ file.size # 0) =>
        /\ HandedOver /\ Chunks!IInv /\ Chunks!OffsetsInv /\ RowsKept

LEMMA InitTextKept == Init => TextKept
<1> SUFFICES ASSUME Init PROVE TextKept
  OBVIOUS
<1>1. /\ phase = "configure" /\ filePos = 0 /\ first = TRUE /\ availOut = 0
      /\ z = NewDecoder /\ saveAllLines = FALSE /\ keyRows = {} /\ Finder!FinderInit
  BY DEF Init
<1>2. HandedOver
  BY <1>1 DEF HandedOver, NewDecoder
<1>3. IsFile(file) /\ TextOnDisk \in Nat
  BY InitInvariant, FileIs, OnDiskIs DEF IInv
<1>4. Chunks!Begins
  <2>1. NewlinesOnDisk \subseteq 0 .. (TextOnDisk - 1)
    <3>1. file.newlines \subseteq 0 .. (TextLength(file) - 1) /\ TextLength(file) \in Nat
      BY <1>3, TextLengthIs DEF IsFile
    <3> QED
      BY <1>3, <3>1 DEF NewlinesOnDisk
  <2>2. Handed = 0 /\ (phase \in Writing) = FALSE
    BY <1>1 DEF Handed, Writing
  <2> QED
    BY <1>1, <1>3, <2>1, <2>2 DEF Chunks!Begins, Chunks!FinderInit, Finder!FinderInit
<1>5. Chunks!IInv /\ Chunks!OffsetsInv
  BY <1>4, Chunks!BeginsInv, Chunks!OffsetsInit
<1>6. RowsKept
  BY <1>1 DEF RowsKept, Finder!FinderInit
<1> QED
  BY <1>2, <1>5, <1>6 DEF TextKept

\* A line is kept if it should be, and the keys found in it are under its number.
LEMMA LineKeeps ==
    ASSUME RowsInv, HandedOver, file.size # 0, Chunks!IInv, Chunks!OffsetsInv, RowsKept,
           OnLine
    PROVE  RowsKept'
<1>1. /\ IInv /\ IsFile(file) /\ AddsWhen
      /\ lineOffsets \in Seq(Nat) /\ calls \in Seq(Chunks!Call)
      /\ Len(lineOffsets) \in Nat
  BY FileIs DEF RowsInv, IInv, Chunks!IInv, Chunks!TypeOK
<1>2. PICK consumed \in SUBSET indexers :
         /\ \/ Finder!FindLine(Keeps(Finder!Number <= skipFirst, consumed))
            \/ Finder!LastLine(Keeps(Finder!Number <= skipFirst, consumed))
         /\ keyRows' = keyRows \cup {KeyRow(name) : name \in consumed}
  BY DEF OnLine
<1> DEFINE s == Keeps(Finder!Number <= skipFirst, consumed)
<1>3. s \in BOOLEAN /\ (consumed # {} => s = TRUE) /\ (saveAllLines => s = TRUE)
  BY DEF Keeps
<1>4. Finder!FindLine(s) \/ Finder!LastLine(s)
  BY <1>2
<1> HIDE DEF s
<1>5. PICK segment : Finder!LineData(segment, s)
  BY <1>4 DEF Finder!FindLine, Finder!LastLine
<1>6. /\ calls' = Append(calls, [line |-> Finder!Number, offset |-> currentLineOffset,
                                 content |-> Finder!Line(segment), saved |-> s])
      /\ lineOffsets' = IF s THEN Append(lineOffsets, currentLineOffset) ELSE lineOffsets
  BY <1>5 DEF Finder!LineData
<1>7. adding /\ adding' = adding /\ UNCHANGED <<phase, saveAllLines, lineTable>>
  BY <1>4 DEF OnLine, config, Finder!FindLine, Finder!LastLine
<1>8. phase # "configure" /\ phase # "done"
  BY <1>1, <1>7 DEF AddsWhen
<1>9. saveAllLines' => Chunks!AllSaved'
  <2> SUFFICES ASSUME saveAllLines, NEW i \in DOMAIN calls'
               PROVE  calls'[i].saved
    BY <1>7 DEF Chunks!AllSaved
  <2>1. Chunks!AllSaved /\ s = TRUE
    BY <1>3 DEF RowsKept
  <2>2. i \in 1 .. (Len(calls) + 1)
    BY <1>1, <1>6
  <2>3. CASE i = Len(calls) + 1
    <3>1. calls'[i].saved = s
      BY <1>1, <1>6, <2>3
    <3> QED
      BY <2>1, <3>1
  <2>4. CASE i # Len(calls) + 1
    <3>1. i \in DOMAIN calls /\ calls'[i] = calls[i]
      BY <1>1, <1>6, <2>2, <2>4
    <3> QED
      BY <2>1, <3>1 DEF Chunks!AllSaved
  <2> QED
    BY <2>3, <2>4
<1>10. Chunks!Kept = Len(lineOffsets) /\ Chunks!Kept' = Len(lineOffsets')
  BY <1>7 DEF Chunks!Kept, Chunks!Finished
<1>11. ASSUME NEW r \in keyRows'
       PROVE  r.line \in 1 .. Chunks!Kept' /\ lineOffsets'[r.line] = r.start
  <2>1. CASE r \in keyRows
    <3>1. r.line \in 1 .. Len(lineOffsets) /\ lineOffsets[r.line] = r.start
      BY <1>10, <2>1 DEF RowsKept
    <3> QED
      BY <1>1, <1>6, <1>10, <3>1
  <2>2. CASE r \notin keyRows
    <3>1. PICK name \in consumed : r = KeyRow(name)
      BY <1>2, <2>2
    <3>2. r.line = Len(lineOffsets) + 1 /\ r.start = currentLineOffset
      BY <3>1 DEF KeyRow, Finder!Number
    <3>3. lineOffsets' = Append(lineOffsets, currentLineOffset)
      BY <1>3, <1>6, <3>1
    <3>4. Len(lineOffsets') = Len(lineOffsets) + 1
          /\ lineOffsets'[Len(lineOffsets) + 1] = currentLineOffset
      BY <1>1, <3>3
    <3> QED
      BY <1>1, <1>10, <3>2, <3>4
  <2> QED
    BY <2>1, <2>2
<1> QED
  BY <1>7, <1>8, <1>9, <1>11 DEF RowsKept

LEMMA KeepsTextKept ==
    ASSUME RowsInv, TextKept, [Next]_vars
    PROVE  TextKept'
<1>1. /\ IInv /\ Types /\ Stream /\ Waiting /\ Bound /\ AddsWhen
      /\ file' = file /\ IsFile(file)
  BY DiskStays DEF RowsInv, IInv
<1> SUFFICES ASSUME phase' # "failed", file.size # 0
             PROVE  HandedOver' /\ Chunks!IInv' /\ Chunks!OffsetsInv' /\ RowsKept'
  BY <1>1 DEF TextKept
<1>2. phase # "failed"
  BY <1>1, StepKinds, NotesPointAt, LeavesMemberTo
     DEF Fails, Idles, Flushes, Advances, Answers
<1>3. HandedOver /\ Chunks!IInv /\ Chunks!OffsetsInv /\ RowsKept
  BY <1>2 DEF TextKept
<1>4. HandedOver'
  BY <1>1, <1>3, KeepsHandedOver
<1>5. [Chunks!Next]_(Chunks!vars)
  BY <1>3, ChunkSteps
<1>6. Chunks!IInv' /\ Chunks!OffsetsInv'
  BY <1>3, <1>5, Chunks!IInvNext, Chunks!OffsetsNext
<1>7. /\ Chunks!Kept \in Int /\ Chunks!Kept' \in Int /\ Chunks!Kept <= Chunks!Kept'
      /\ \A k \in 1 .. Chunks!Kept : lineOffsets'[k] = lineOffsets[k]
  BY <1>3, <1>5, Chunks!KeptStays
<1> SUFFICES RowsKept'
  BY <1>4, <1>6
<1>8. ASSUME keyRows' = keyRows
      PROVE  \A r \in keyRows' : r.line \in 1 .. Chunks!Kept' /\ lineOffsets'[r.line] = r.start
  BY <1>3, <1>7, <1>8 DEF RowsKept
<1>9. CASE AddIndexer
  <2>1. phase = "configure" /\ UNCHANGED <<phase, calls, keyRows>> /\ saveAllLines' \in BOOLEAN
    BY <1>9 DEF AddIndexer, finderVars
  <2>2. calls' = <<>>
    BY <1>3, <2>1 DEF RowsKept
  <2>3. Chunks!AllSaved'
    BY <2>2 DEF Chunks!AllSaved
  <2> QED
    BY <1>8, <2>1, <2>2, <2>3 DEF RowsKept
<1>10. CASE OnLine
  BY <1>3, <1>10, LineKeeps
<1>11. CASE WriteLines
  <2>1. /\ UNCHANGED <<saveAllLines, calls, keyRows, lineOffsets>>
        /\ phase = "lines" /\ phase' = "done"
        /\ lineTable' = [k \in 1 .. (Len(lineOffsets) - 1) |->
                            [offset |-> lineOffsets[k], length |-> RowLength(k)]]
    BY <1>11 DEF WriteLines, config, finderVars
  <2>2. lineTable' = [k \in 1 .. (Len(lineOffsets') - 1) |->
                            [offset |-> lineOffsets'[k], length |-> RowLength(k)']]
    BY <2>1 DEF RowLength
  <2>3. Chunks!AllSaved' <=> Chunks!AllSaved
    BY <2>1 DEF Chunks!AllSaved
  <2> QED
    BY <1>3, <1>8, <2>1, <2>2, <2>3 DEF RowsKept
<1>12. ASSUME UNCHANGED <<saveAllLines, calls, keyRows>>,
              phase' # "configure" \/ phase = "configure",
              phase' # "done" \/ UNCHANGED <<phase, lineTable, lineOffsets>>
       PROVE  RowsKept'
  <2>1. Chunks!AllSaved' <=> Chunks!AllSaved
    BY <1>12 DEF Chunks!AllSaved
  <2>2. \A k : UNCHANGED lineOffsets => RowLength(k)' = RowLength(k)
    BY DEF RowLength
  <2> QED
    BY <1>3, <1>8, <1>12, <2>1, <2>2 DEF RowsKept
<1>13. CASE StartBuild \/ Fread \/ KeepInput \/ EmptyWindow \/ FlushLast
  <2>1. UNCHANGED <<saveAllLines, calls, keyRows>> /\ phase' # "configure" /\ phase' # "done"
    BY <1>13 DEF StartBuild, Fread, AtEndOfFile, Abort, KeepInput, EmptyWindow, HandOver,
                 FlushLast, Finder!Add, config, finderVars
  <2> QED
    BY <1>12, <2>1
<1>14. CASE InflateBlock
  <2>1. UNCHANGED <<saveAllLines, calls>>
    BY <1>14 DEF InflateBlock, config, finderVars
  <2>2. PICK o \in InflateToBlock(file, z, filePos - availIn, filePos, availOut) :
           CASE o.ret = "ok"    -> Progressed(o)
             [] o.ret = "end"   -> MemberEnded(o)
             [] o.ret = "error" -> DataError
    BY <1>14 DEF InflateBlock
  <2>3. phase = "inflate"
    BY <1>14 DEF InflateBlock
  <2>4. o.ret \in {"ok", "end", "error"}
    BY <1>1, <2>3, Inflated
       DEF EntersBody, Waits, Produces, LeavesBlock, LeavesData, EndsMember
  <2>5. Progressed(o) => keyRows' = keyRows /\ phase' # "configure" /\ phase' # "done"
    BY DEF Progressed, NotePoint, Abort
  <2>6. MemberEnded(o) => keyRows' = keyRows /\ phase' # "configure" /\ phase' # "done"
    BY DEF MemberEnded
  <2>7. ~DataError
    BY DEF DataError, Abort
  <2> QED
    BY <1>12, <2>1, <2>2, <2>4, <2>5, <2>6, <2>7
<1>15. CASE FinderWorks
  <2>1. UNCHANGED <<phase, saveAllLines, calls, keyRows>> /\ adding
    BY <1>15 DEF FinderWorks, config, Finder!BufferRest, Finder!Return
  <2>2. phase # "done"
    BY <1>1, <2>1 DEF AddsWhen
  <2> QED
    BY <1>12, <2>1, <2>2
<1>16. CASE UNCHANGED vars
  BY <1>12, <1>16 DEF vars, config, finderVars
<1>17. ~IndexerThrows
  BY DEF IndexerThrows, Abort
<1> QED
  BY <1>9, <1>10, <1>11, <1>13, <1>14, <1>15, <1>16, <1>17 DEF Next

\* A file that gave any text is not empty.
LEMMA TextNeedsBytes ==
    ASSUME IInv, z.pos # 0
    PROVE  file.size # 0
<1>1. /\ IsFile(file) /\ Placed(file, z, totalIn) /\ totalIn \in 0 .. file.size
      /\ file.size \in Nat
  BY FileIs DEF IInv, Stream, Placed
<1> SUFFICES ASSUME file.size = 0 PROVE FALSE
  OBVIOUS
<1>2. totalIn = 0
  BY <1>1
<1> QED
  BY <1>1, <1>2, NoBytesNoText

\* What a committed line table is: the finder's offsets, the last of them where a
\* next line would start.
LEMMA TableIs ==
    ASSUME RowsInv, TextKept, phase = "done", file.size # 0
    PROVE  /\ Chunks!IInv /\ Chunks!OffsetsInv /\ Chunks!Finished
           /\ Chunks!Kept = Len(lineOffsets) - 1 /\ Chunks!Kept \in Nat
           /\ DOMAIN lineTable = 1 .. Chunks!Kept
           /\ \A k \in 1 .. Chunks!Kept :
                 /\ lineTable[k].offset = lineOffsets[k]
                 /\ lineTable[k].length = lineOffsets[k + 1] - lineOffsets[k]
                 /\ lineOffsets[k] \in Nat /\ lineOffsets[k + 1] \in Nat
           /\ lineOffsets[Chunks!Kept + 1] = currentLineOffset
           /\ currentLineOffset \in Nat
           /\ currentLineOffset >= TextOnDisk /\ currentLineOffset <= TextOnDisk + 1
           /\ TextOnDisk \in Nat /\ z.pos = TextOnDisk
           /\ file.newlines \cap (0 .. (TextOnDisk - 1)) = NewlinesOnDisk
<1>1. /\ IInv /\ AddsWhen /\ Chunks!IInv /\ Chunks!OffsetsInv /\ RowsKept
      /\ IsFile(file) /\ TextOnDisk \in Nat
  BY FileIs, OnDiskIs DEF RowsInv, TextKept, IInv
<1>2. Chunks!Finished
  BY <1>1 DEF AddsWhen, Chunks!Finished, Writing
<1>3. /\ lineOffsets \in Seq(Nat) /\ Len(lineOffsets) \in Nat
      /\ currentLineOffset \in Nat /\ currentLineOffset <= TextOnDisk + 1
  BY <1>1 DEF Chunks!IInv, Chunks!TypeOK
<1>4. /\ Chunks!Kept = Len(lineOffsets) - 1
      /\ Len(lineOffsets) > 0
      /\ lineOffsets[Len(lineOffsets)] = currentLineOffset
      /\ currentLineOffset >= TextOnDisk
  BY <1>1, <1>2 DEF Chunks!OffsetsInv, Chunks!SealedAtEnd, Chunks!Kept
<1>5. lineTable = [k \in 1 .. (Len(lineOffsets) - 1) |->
                      [offset |-> lineOffsets[k], length |-> RowLength(k)]]
  BY <1>1 DEF RowsKept
<1>6. z.pos = TextOnDisk
  BY AllDecoded DEF RowsInv, Ended
<1>7. file.newlines \cap (0 .. (TextOnDisk - 1)) = NewlinesOnDisk
  <2>1. file.newlines \subseteq 0 .. (TextLength(file) - 1) /\ TextLength(file) \in Nat
    BY <1>1, TextLengthIs DEF IsFile
  <2> QED
    BY <1>1, <2>1 DEF NewlinesOnDisk
<1>8. ASSUME NEW k \in 1 .. (Len(lineOffsets) - 1)
      PROVE  /\ lineTable[k].offset = lineOffsets[k]
             /\ lineTable[k].length = lineOffsets[k + 1] - lineOffsets[k]
             /\ lineOffsets[k] \in Nat /\ lineOffsets[k + 1] \in Nat
  <2>1. k \in 1 .. Len(lineOffsets) /\ k + 1 \in 1 .. Len(lineOffsets)
    BY <1>3
  <2> QED
    BY <1>3, <1>5, <2>1 DEF RowLength
<1>9. DOMAIN lineTable = 1 .. (Len(lineOffsets) - 1)
  BY <1>5
<1>10. (Len(lineOffsets) - 1) + 1 = Len(lineOffsets)
  BY <1>3
<1> QED
  BY <1>1, <1>2, <1>3, <1>4, <1>6, <1>7, <1>8, <1>9, <1>10

\* The starts of lines are the same for the finder, which knows the newlines on disk.
LEMMA StartsOnDisk ==
    ASSUME IsFile(file), NEW p
    PROVE  IsLineStart(file.newlines, TextOnDisk, p)
              <=> Chunks!IsLineStart(NewlinesOnDisk, TextOnDisk, p)
<1>1. TextOnDisk \in Nat
  BY OnDiskIs
<1>2. ASSUME p \in 0 .. (TextOnDisk - 1)
      PROVE  p - 1 \in file.newlines <=> p - 1 \in NewlinesOnDisk
  BY <1>1, <1>2 DEF NewlinesOnDisk
<1> QED
  BY <1>2 DEF IsLineStart, Chunks!IsLineStart

LEMMA RowsFollow == RowsInv /\ TextKept => RowsAreLines
<1> SUFFICES ASSUME RowsInv, TextKept, phase = "done", totalOut # 0
             PROVE  LET size == TextOnDisk
                        starts == {p \in 0 .. size : IsLineStart(file.newlines, size, p)}
                        offsets == {lineTable[k].offset : k \in DOMAIN lineTable}
                    IN  /\ offsets \subseteq starts
                        /\ saveAllLines => offsets = starts
                        /\ \A k \in DOMAIN lineTable :
                              lineTable[k].offset + lineTable[k].length =
                                  IF k + 1 \in DOMAIN lineTable
                                  THEN lineTable[k + 1].offset
                                  ELSE IF size - 1 \in file.newlines THEN size
                                  ELSE size + 1
  BY DEF RowsAreLines
<1> DEFINE size == TextOnDisk
           starts == {p \in 0 .. size : IsLineStart(file.newlines, size, p)}
           offsets == {lineTable[k].offset : k \in DOMAIN lineTable}
           n == Chunks!Kept
<1>1. totalOut = z.pos /\ file.size # 0 /\ IsFile(file)
  BY TextNeedsBytes, FileIs DEF RowsInv, IInv, Types
<1>2. /\ Chunks!IInv /\ Chunks!OffsetsInv
      /\ n \in Nat /\ DOMAIN lineTable = 1 .. n
      /\ \A k \in 1 .. n : /\ lineTable[k].offset = lineOffsets[k]
                           /\ lineTable[k].length = lineOffsets[k + 1] - lineOffsets[k]
                           /\ lineOffsets[k] \in Nat /\ lineOffsets[k + 1] \in Nat
      /\ lineOffsets[n + 1] = currentLineOffset /\ currentLineOffset \in Nat
      /\ currentLineOffset >= size /\ currentLineOffset <= size + 1
      /\ size \in Nat /\ size # 0
      /\ file.newlines \cap (0 .. (size - 1)) = NewlinesOnDisk
  BY <1>1, TableIs
<1>3. /\ Chunks!AtLine
      /\ \A k \in 1 .. n : Chunks!IsLineStart(NewlinesOnDisk, size, lineOffsets[k])
      /\ Chunks!AllSaved =>
            \A p \in 0 .. (currentLineOffset - 1) :
               Chunks!IsLineStart(NewlinesOnDisk, size, p)
                  => \E k \in 1 .. n : lineOffsets[k] = p
  BY <1>2 DEF Chunks!OffsetsInv, Chunks!KeptAreLines, Chunks!NoLineMissing
<1>4. saveAllLines => Chunks!AllSaved
  BY <1>1 DEF TextKept, RowsKept
<1> HIDE DEF n, size
<1>5. offsets \subseteq starts
  <2> SUFFICES ASSUME NEW k \in 1 .. n
               PROVE  lineOffsets[k] \in 0 .. size
                      /\ IsLineStart(file.newlines, size, lineOffsets[k])
    BY <1>2
  <2>1. IsLineStart(file.newlines, size, lineOffsets[k])
    BY <1>1, <1>3, StartsOnDisk DEF size
  <2>2. lineOffsets[k] \in 0 .. (size - 1)
    BY <2>1 DEF IsLineStart
  <2> QED
    BY <1>2, <2>1, <2>2
<1>6. ASSUME saveAllLines
      PROVE  starts \subseteq offsets
  <2> SUFFICES ASSUME NEW p \in 0 .. size, IsLineStart(file.newlines, size, p)
               PROVE  \E k \in 1 .. n : lineOffsets[k] = p
    BY <1>2
  <2>1. p \in 0 .. (size - 1)
    BY DEF IsLineStart
  <2>2. p \in 0 .. (currentLineOffset - 1)
    BY <1>2, <2>1
  <2>3. Chunks!IsLineStart(NewlinesOnDisk, size, p)
    BY <1>1, StartsOnDisk DEF size
  <2> QED
    BY <1>3, <1>4, <1>6, <2>2, <2>3
<1>7. ASSUME NEW k \in 1 .. n
      PROVE  lineTable[k].offset + lineTable[k].length =
                 IF k + 1 \in 1 .. n THEN lineTable[k + 1].offset
                 ELSE IF size - 1 \in file.newlines THEN size ELSE size + 1
  <2>1. lineTable[k].offset + lineTable[k].length = lineOffsets[k + 1]
    <3>1. /\ lineTable[k].offset = lineOffsets[k]
          /\ lineTable[k].length = lineOffsets[k + 1] - lineOffsets[k]
          /\ lineOffsets[k] \in Nat /\ lineOffsets[k + 1] \in Nat
      BY <1>2
    <3> QED
      BY <3>1
  <2>2. CASE k + 1 \in 1 .. n
    BY <1>2, <2>1, <2>2
  <2>3. CASE k + 1 \notin 1 .. n
    <3>1. k = n
      BY <1>2, <2>3
    <3>2. lineTable[k].offset + lineTable[k].length = currentLineOffset
      BY <1>2, <2>1, <3>1
    <3>3. size - 1 \in file.newlines <=> size - 1 \in NewlinesOnDisk
      <4>1. size \in Nat
        BY <1>2
      <4>2. size - 1 < size
        BY <4>1
      <4> QED
        BY <4>2 DEF NewlinesOnDisk, size
    <3>4. NewlinesOnDisk \subseteq 0 .. (size - 1)
      BY <1>2
    <3>5. currentLineOffset = IF size - 1 \in NewlinesOnDisk THEN size ELSE size + 1
      <4>1. CASE currentLineOffset - 1 \in NewlinesOnDisk
        <5>1. currentLineOffset = size
          BY <1>2, <3>4, <4>1
        <5> QED
          BY <4>1, <5>1
      <4>2. CASE currentLineOffset = size + 1 /\ size - 1 \notin NewlinesOnDisk
        BY <4>2
      <4>3. currentLineOffset # 0
        BY <1>2
      <4> QED
        BY <1>3, <4>1, <4>2, <4>3 DEF Chunks!AtLine, size
    <3> QED
      BY <2>3, <3>2, <3>3, <3>5
  <2> QED
    BY <2>2, <2>3
<1> QED
  BY <1>2, <1>5, <1>6, <1>7 DEF size

LEMMA KeepsBoth == RowsInv /\ TextKept /\ [Next]_vars => (RowsInv /\ TextKept)'
BY KeepsRowsInv, KeepsTextKept

\* The rows of a committed index are the lines that were kept, for every file that
\* gives any text: each starts a line and goes on to the next that was kept, and if
\* every line is kept none is missing.
THEOREM RowsCorrect == Spec => []RowsAreLines
<1>1. Init => RowsInv /\ TextKept
  BY InitRowsInv, InitTextKept
<1>2. RowsInv /\ TextKept /\ [Next]_vars => (RowsInv /\ TextKept)'
  BY KeepsBoth
<1>3. RowsInv /\ TextKept => RowsAreLines
  BY RowsFollow
<1> QED
  BY <1>1, <1>2, <1>3, PTL DEF Spec

-----------------------------------------------------------------------------
(* The indexers see the lines of the text                                   *)

\* There is something to index.
NoEmptyFile == \A f \in Files : f.size # 0

\* A line of the text on disk ends where the file's newlines say.
LEMMA EndsOnDisk ==
    ASSUME IsFile(file), NEW from \in Nat, NEW end \in from .. TextOnDisk
    PROVE  Chunks!IsLineEnd(NewlinesOnDisk, TextOnDisk, from, end)
              <=> IsLineEnd(file.newlines, TextOnDisk, from, end)
<1>1. TextOnDisk \in Nat /\ end \in Nat /\ end <= TextOnDisk
  BY OnDiskIs
<1>2. \A p \in from .. (end - 1) : p \in file.newlines <=> p \in NewlinesOnDisk
  BY <1>1 DEF NewlinesOnDisk
<1>3. end # TextOnDisk => (end \in file.newlines <=> end \in NewlinesOnDisk)
  BY <1>1 DEF NewlinesOnDisk
<1> QED
  BY <1>2, <1>3 DEF IsLineEnd, Unbroken, Chunks!IsLineEnd, Chunks!Unbroken

\* What the indexers are shown, step by step.
LEMMA LinesSteps ==
    ASSUME RowsInv, TextKept, file.size # 0, [Next]_vars
    PROVE  [Lines!Next]_(Lines!vars)
<1>1. /\ IInv /\ AddsWhen /\ AddsWhen' /\ file' = file /\ IsFile(file)
      /\ TextOnDisk' = TextOnDisk /\ TextOnDisk \in Nat
  BY KeepsRowsInv, DiskStays DEF RowsInv, IInv
<1>2. ASSUME UNCHANGED <<currentLineOffset, calls>>, (phase = "done") = (phase = "done")'
      PROVE  UNCHANGED Lines!vars
  BY <1>1, <1>2 DEF Lines!vars
<1>3. CASE phase' = "failed"
  <2>1. UNCHANGED <<currentLineOffset, calls>> /\ phase # "done"
    <3>1. CASE phase = "failed"
      <4>1. ~adding
        BY <1>1, <3>1 DEF AddsWhen
      <4> QED
        BY <3>1, <4>1 DEF Next, vars, finderVars, AddIndexer, StartBuild, Fread, KeepInput,
              EmptyWindow, InflateBlock, OnLine, FinderWorks, IndexerThrows, FlushLast,
              WriteLines, Finder!FindLine, Finder!LastLine, Finder!BufferRest, Finder!Return
    <3>2. CASE phase # "failed"
      <4>1. CASE OnLine \/ FinderWorks
        BY <1>3, <3>2, <4>1 DEF OnLine, FinderWorks
      <4>2. CASE ~OnLine /\ ~FinderWorks
        BY <1>1, <1>3, <3>2, <4>2 DEF Next, vars, finderVars, AddIndexer, StartBuild, Fread,
              KeepInput, EmptyWindow, InflateBlock, IndexerThrows, FlushLast, WriteLines,
              AddsWhen
      <4> QED
        BY <4>1, <4>2
    <3> QED
      BY <3>1, <3>2
  <2>2. phase' # "done"
    BY <1>3
  <2> QED
    BY <1>2, <2>1, <2>2
<1>4. CASE phase' # "failed"
  <2>1. phase # "failed"
    BY <1>1, <1>4, StepKinds, NotesPointAt, LeavesMemberTo
       DEF Fails, Idles, Flushes, Advances, Answers, IInv
  <2>2. HandedOver /\ Chunks!IInv /\ Chunks!OffsetsInv
    BY <2>1 DEF TextKept
  <2>3. [Chunks!Next]_(Chunks!vars)
    BY <1>4, <2>2, ChunkSteps
  <2>4. [Chunks!Lines!Next]_(Chunks!Lines!vars)
    BY <2>2, <2>3, Chunks!LinesNext
  <2>5. /\ phase = "done" => Chunks!Finished
        /\ phase' = "done" => Chunks!Finished'
        /\ phase = "done" => phase' = "done"
        /\ (phase # "done" /\ phase' = "done") => Chunks!Finished
    <3>1. (phase # "done" /\ phase' = "done") => WriteLines
      <4>1. InflateBlock => phase' # "done"
        BY <1>1, InflateKinds DEF IInv, Fails, Advances, NotesPoint, LeavesMember
      <4>2. ~InflateBlock /\ ~WriteLines => phase' # "done" \/ phase = "done"
        BY DEF Next, vars, AddIndexer, StartBuild, Fread, AtEndOfFile, KeepInput, EmptyWindow,
               OnLine, FinderWorks, IndexerThrows, FlushLast, Abort
      <4> QED
        BY <4>1, <4>2
    <3>2. phase = "done" => phase' = "done"
      BY <1>1 DEF Next, vars, AddIndexer, StartBuild, Fread, KeepInput, EmptyWindow,
             InflateBlock, OnLine, FinderWorks, IndexerThrows, FlushLast, WriteLines, AddsWhen
    <3> QED
      BY <1>1, <3>1, <3>2 DEF AddsWhen, Chunks!Finished, Writing, WriteLines
  <2>6. CASE Chunks!Lines!Present
    <3>1. PICK end \in currentLineOffset .. TextOnDisk :
             /\ Chunks!Lines!IsLineEnd(NewlinesOnDisk, TextOnDisk, currentLineOffset, end)
             /\ Chunks!Reported' = Append(Chunks!Reported,
                    [offset |-> currentLineOffset,
                     content |-> Chunks!Lines!Slice(currentLineOffset, end)])
             /\ currentLineOffset' = end + 1
      BY <2>6 DEF Chunks!Lines!Present, Chunks!Reported
    <3>2. /\ ~Chunks!Finished /\ ~Chunks!Finished' /\ currentLineOffset < TextOnDisk
      BY <2>6 DEF Chunks!Lines!Present
    <3>3. phase # "done" /\ phase' # "done"
      BY <2>5, <3>2
    <3>4. currentLineOffset \in Nat
      BY <2>2 DEF Chunks!IInv, Chunks!TypeOK
    <3>5. IsLineEnd(file.newlines, TextOnDisk, currentLineOffset, end)
      <4>1. Chunks!IsLineEnd(NewlinesOnDisk, TextOnDisk, currentLineOffset, end)
        BY <3>1 DEF Chunks!IsLineEnd, Chunks!Unbroken, Chunks!Lines!IsLineEnd,
                    Chunks!Lines!Unbroken
      <4> QED
        BY <1>1, <3>4, <4>1, EndsOnDisk
    <3>6. Slice(currentLineOffset, end) = Chunks!Lines!Slice(currentLineOffset, end)
      BY DEF Slice, Chunks!Lines!Slice
    <3>7. Lines!Present
      BY <1>1, <3>1, <3>2, <3>3, <3>5, <3>6
         DEF Lines!Present, Lines!IsLineEnd, Lines!Unbroken, Lines!Slice, IsLineEnd, Unbroken,
             Slice, Chunks!Reported
    <3> QED
      BY <3>7 DEF Lines!Next
  <2>7. CASE Chunks!Lines!Finish
    <3>1. /\ ~Chunks!Finished /\ currentLineOffset' = currentLineOffset
          /\ Chunks!Reported' = Chunks!Reported
      BY <2>7 DEF Chunks!Lines!Finish, Chunks!Reported
    <3>2. phase # "done" /\ phase' # "done"
      BY <2>5, <3>1
    <3> QED
      BY <1>1, <3>1, <3>2 DEF Lines!vars, Chunks!Reported
  <2>8. CASE UNCHANGED Chunks!Lines!vars
    <3>1. currentLineOffset' = currentLineOffset /\ Chunks!Reported' = Chunks!Reported
      BY <2>8 DEF Chunks!Lines!vars, Chunks!Reported
    <3>2. CASE (phase = "done") = (phase = "done")'
      BY <1>1, <3>1, <3>2 DEF Lines!vars, Chunks!Reported
    <3>3. CASE phase # "done" /\ phase' = "done"
      <4>1. currentLineOffset >= TextOnDisk
        BY <2>2, <2>5, <3>3 DEF Chunks!OffsetsInv, Chunks!SealedAtEnd
      <4>2. Lines!Finish
        BY <1>1, <3>1, <3>3, <4>1 DEF Lines!Finish, Chunks!Reported
      <4> QED
        BY <4>2 DEF Lines!Next
    <3> QED
      BY <2>5, <3>2, <3>3
  <2> QED
    BY <2>4, <2>6, <2>7, <2>8 DEF Chunks!Lines!Next
<1> QED
  BY <1>3, <1>4

\* However the file is cut into blocks, members, input buffers and rings, and whatever
\* is left of it on disk, every line of its text is shown to the indexers once, in
\* order and with its bytes, and build() does not commit before the last one.
THEOREM IndexersSee ==
    ASSUME NoEmptyFile
    PROVE  Spec => IndexersSeeEveryLine
<1>1. Init => RowsInv /\ TextKept
  BY InitRowsInv, InitTextKept
<1>2. RowsInv /\ TextKept /\ [Next]_vars => (RowsInv /\ TextKept)'
  BY KeepsBoth
<1>3. Init => Lines!Init
  <2> SUFFICES ASSUME Init PROVE Lines!Init
    OBVIOUS
  <2>1. phase = "configure" /\ calls = <<>> /\ currentLineOffset = 0
    BY DEF Init, Finder!FinderInit
  <2> QED
    BY <2>1 DEF Lines!Init
<1>4. RowsInv /\ TextKept /\ [Next]_vars => [Lines!Next]_(Lines!vars)
  <2>1. RowsInv => file.size # 0
    BY DEF RowsInv, IInv, Types, NoEmptyFile
  <2> QED
    BY <2>1, LinesSteps
<1> QED
  BY <1>1, <1>2, <1>3, <1>4, PTL DEF Spec, IndexersSeeEveryLine, Lines!Spec
=============================================================================
