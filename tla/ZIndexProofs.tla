---------------------------- MODULE ZIndexProofs ----------------------------
(***************************************************************************)
(* The reader over the tables a builder wrote, for every file, ring, input  *)
(* buffer and order of calls: a kept context is where it says it is, what   *)
(* is delivered is the row asked for, byte for byte, and the calls that     *)
(* fail are those that meet the end of a member.                            *)
(***************************************************************************)
EXTENDS ZIndex, IndexRowsProofs

\* The tables are only read once they are committed.
BuilderInv == RowsInv /\ TextKept

\* No row is as long as the reader refuses: it would leave print() with the shared
\* FILE moved and the kept context still there.
NoRowTooLong == \A k \in DOMAIN lineTable : lineTable[k].length < MaxLength

-----------------------------------------------------------------------------
(* The committed tables                                                     *)

\* The block access point a is at, in a member that is whole on disk.
Usable(a, k) ==
    /\ a \in Point /\ PrimesAt(a, k) /\ a.start \in Nat
    /\ a.end \in Nat /\ a.end < file.blocks[Closing(file, k)].to
    /\ k < z.block

\* Nothing changes after the commit.
LEMMA DoneStays ==
    ASSUME BuilderInv, phase = "done", Next
    PROVE  FALSE
<1>1. ~adding
  BY DEF BuilderInv, RowsInv, AddsWhen
<1>2. ~OnLine
  BY <1>1 DEF OnLine, Finder!FindLine, Finder!LastLine
<1>3. ~FinderWorks
  BY <1>1 DEF FinderWorks, Finder!BufferRest, Finder!Return
<1> QED
  BY <1>1, <1>2, <1>3 DEF Next, AddIndexer, StartBuild, Fread, KeepInput, EmptyWindow,
     InflateBlock, IndexerThrows, FlushLast, WriteLines

LEMMA PointsUsable ==
    ASSUME BuilderInv, phase = "done"
    PROVE  /\ IsFile(file) /\ IsFiniteSet(accessPoints)
           /\ \A a \in accessPoints : \E k \in DOMAIN file.blocks : Usable(a, k)
<1>1. /\ IInv /\ IsFile(file) /\ z.part = "header" /\ accessPoints \subseteq Point
      /\ Tiles
  BY FileIs DEF BuilderInv, RowsInv, IInv, Waiting, Bound, Ended
<1>2. IsFiniteSet(accessPoints)
  BY DEF BuilderInv, RowsInv, RowsInMembers
<1>3. ASSUME NEW a \in accessPoints
      PROVE  \E k \in DOMAIN file.blocks : Usable(a, k)
  <2>1. PICK k \in DOMAIN file.blocks : InMember(a, k)
    BY DEF BuilderInv, RowsInv, RowsInMembers
  <2>2. a.start \in Int /\ a.end \in Int /\ a \in Point /\ 0 <= a.start
    BY <1>1, PointType DEF Tiles
  <2>3. k < z.block
    BY <1>1, <2>1 DEF InMember, BlockBegun
  <2>4. a.start \in Nat /\ a.end \in Nat
    BY <2>1, <2>2 DEF InMember
  <2> QED
    BY <2>1, <2>2, <2>3, <2>4 DEF InMember, Usable
<1> QED
  BY <1>1, <1>2, <1>3

\* A member that has been left is whole on disk, with its text.
LEMMA LeftOnDisk ==
    ASSUME BuilderInv, phase = "done", NEW k \in DOMAIN file.blocks, k < z.block
    PROVE  LET c == Closing(file, k)
           IN  /\ c \in DOMAIN file.blocks /\ k <= c /\ file.blocks[c].closes
               /\ file.blocks[c].tail <= file.size
               /\ file.blocks[c].to <= TextOnDisk
               /\ CeilBytes(file.blocks[c].end) \in Nat
               /\ CeilBytes(file.blocks[c].end) < file.size
<1> DEFINE c == Closing(file, k)
<1>1. /\ IsFile(file) /\ totalIn = file.size /\ z.part = "header"
      /\ Placed(file, z, file.size) /\ z.pos = TextOnDisk
  BY FileIs, AllDecoded DEF BuilderInv, RowsInv, IInv, ReadToEnd, Waiting, Stream, Ended
<1>2. c < z.block /\ file.blocks[c].tail <= file.size
  BY <1>1, AllRead
<1>3. c \in k .. Len(file.blocks) /\ c \in DOMAIN file.blocks /\ file.blocks[c].closes
  BY <1>1, ClosingIs
<1> HIDE DEF c
<1>4. /\ DOMAIN file.blocks = 1 .. Len(file.blocks) /\ Len(file.blocks) \in Nat
      /\ file.blocks[c].tail \in Nat /\ file.blocks[c].end \in Nat /\ file.size \in Nat
      /\ CeilBytes(file.blocks[c].end) < file.blocks[c].tail
  BY <1>1, <1>3, BlockType
<1>5. CeilBytes(file.blocks[c].end) \in Nat
  BY <1>4, CeilType
<1>6. file.blocks[c].to <= z.pos
  BY <1>1, <1>2, <1>3, <1>4, PlacedBetween
<1>7. k <= c
  BY <1>3, <1>4
<1>8. CeilBytes(file.blocks[c].end) < file.size
  BY <1>2, <1>4, <1>5
<1> QED
  BY <1>1, <1>2, <1>3, <1>5, <1>6, <1>7, <1>8 DEF c

\* An index with access points is of a file with bytes.
LEMMA PointsNeedBytes ==
    ASSUME BuilderInv, phase = "done", accessPoints # {}
    PROVE  file.size # 0
<1>1. /\ IsFile(file) /\ totalIn = file.size /\ Placed(file, z, file.size)
  BY FileIs DEF BuilderInv, RowsInv, IInv, ReadToEnd, Stream, Ended
<1>2. PICK k \in DOMAIN file.blocks : k < z.block
  BY PointsUsable DEF Usable
<1>3. k \in Nat /\ 1 <= k
  BY <1>1, BlockType
<1>4. file.size = 0 => z.block = 1
  BY <1>1, NoBytesNoText
<1> QED
  BY <1>2, <1>3, <1>4

\* The rows of the line table.
LEMMA RowsAre ==
    ASSUME BuilderInv, phase = "done", file.size # 0, NEW k \in DOMAIN lineTable
    PROVE  /\ k \in Nat \ {0}
           /\ lineTable[k].offset \in Nat /\ lineTable[k].length \in Nat \ {0}
           /\ lineTable[k].offset < TextOnDisk
           /\ lineTable[k].offset + lineTable[k].length <= TextOnDisk + 1
           /\ lineTable[k].offset = lineOffsets[k]
           /\ lineTable[k].offset + lineTable[k].length = Chunks!NextOffset(k)
<1> DEFINE n == Chunks!Kept
<1>1. /\ Chunks!IInv /\ Chunks!OffsetsInv /\ Chunks!Finished
      /\ n = Len(lineOffsets) - 1 /\ n \in Nat
      /\ DOMAIN lineTable = 1 .. n
      /\ lineTable[k].offset = lineOffsets[k]
      /\ lineTable[k].length = lineOffsets[k + 1] - lineOffsets[k]
      /\ lineOffsets[k] \in Nat /\ lineOffsets[k + 1] \in Nat
      /\ lineOffsets[n + 1] = currentLineOffset
      /\ currentLineOffset \in Nat /\ currentLineOffset <= TextOnDisk + 1
      /\ TextOnDisk \in Nat
  BY TableIs DEF BuilderInv
<1>2. /\ Chunks!IsLineStart(NewlinesOnDisk, TextOnDisk, lineOffsets[k])
      /\ lineOffsets[k] < currentLineOffset
      /\ \A j \in 1 .. n : j < k => lineOffsets[j] < lineOffsets[k]
      /\ \A j \in 1 .. n : k < j => lineOffsets[k] < lineOffsets[j]
      /\ \A j \in 1 .. n : lineOffsets[j] < currentLineOffset
  BY <1>1 DEF Chunks!OffsetsInv, Chunks!KeptAreLines, Chunks!KeptInOrder
<1>3. lineOffsets[k] < TextOnDisk
  BY <1>1, <1>2 DEF Chunks!IsLineStart
<1>4. Len(lineOffsets) \in Nat
  BY <1>1 DEF Chunks!IInv, Chunks!TypeOK
<1>5. Chunks!NextOffset(k) = lineOffsets[k + 1]
  BY <1>1, <1>4 DEF Chunks!NextOffset
<1> HIDE DEF n
<1>6. lineOffsets[k] < lineOffsets[k + 1] /\ lineOffsets[k + 1] <= TextOnDisk + 1
  <2>1. CASE k = n
    BY <1>1, <1>2, <2>1
  <2>2. CASE k # n
    <3>1. k + 1 \in 1 .. n /\ k < k + 1
      BY <1>1, <2>2
    <3>2. lineOffsets[k] < lineOffsets[k + 1] /\ lineOffsets[k + 1] < currentLineOffset
      BY <1>2, <3>1
    <3> QED
      BY <1>1, <3>2
  <2> QED
    BY <2>1, <2>2
<1>7. k \in Nat \ {0}
  BY <1>1
<1> QED
  BY <1>1, <1>3, <1>5, <1>6, <1>7

-----------------------------------------------------------------------------
(* The reader's decoder                                                     *)

\* The reader's helpers are the builder's.
LEMMA ReaderIs ==
    /\ Reader!ByteBits = ByteBits
    /\ \A a, b : Reader!Smaller(a, b) = Smaller(a, b)
    /\ \A a, b : Reader!Slice(a, b) = Slice(a, b)
    /\ \A bits : Reader!CeilBytes(bits) = CeilBytes(bits)
    /\ \A f, k : Reader!Closing(f, k) = Closing(f, k)
    /\ \A f, k : Reader!MemberStart(f, k) = MemberStart(f, k)
    /\ \A f : Reader!TextLength(f) = TextLength(f)
BY DEF Reader!ByteBits, ByteBits, Reader!Smaller, Smaller, Reader!Slice, Slice,
   Reader!CeilBytes, CeilBytes, Reader!Closing, Closing, Reader!MemberStart, MemberStart,
   Reader!TextLength, TextLength

LEMMA NothingSliced ==
    ASSUME NEW a \in Nat
    PROVE  Slice(a, a) = <<>>
BY DEF Slice

LEMMA SlicesJoin ==
    ASSUME NEW a \in Nat, NEW b \in Nat, NEW c \in Nat, a <= b, b <= c
    PROVE  Slice(a, b) \o Slice(b, c) = Slice(a, c)
BY DEF Slice

LEMMA SliceBegins ==
    ASSUME NEW a \in Nat, NEW b \in Nat, NEW c \in Nat, a <= b, b <= c
    PROVE  SubSeq(Slice(a, c), 1, b - a) = Slice(a, b)
BY DEF Slice

ContextType == [offset : Int, member : Nat, pos : Int, in : Int, avail : Int]

\* A context that decodes a member which is whole on disk, with its input where the
\* shared FILE is.
Live(c) ==
    /\ c \in ContextType
    /\ c.member \in DOMAIN file.blocks
    /\ c.offset = c.pos /\ c.pos \in Nat /\ c.in \in Nat /\ c.avail \in Nat
    /\ readerPos = c.in + c.avail
    /\ LET b == file.blocks[c.member]
       IN  /\ b.closes
           /\ c.pos <= b.to /\ b.to <= TextOnDisk
           /\ c.in <= CeilBytes(b.end)
           /\ CeilBytes(b.end) < file.size

\* The decoder that is started at an access point.
LEMMA StartsAt ==
    ASSUME BuilderInv, phase = "done", NEW a, NEW k \in DOMAIN file.blocks, Usable(a, k)
    PROVE  LET c == Reader!FromPoint(a)
           IN  /\ c = [offset |-> a.start, member |-> Closing(file, k), pos |-> a.start,
                       in |-> a.compressed, avail |-> 0]
               /\ a.compressed = CeilBytes(file.blocks[k].start)
<1> DEFINE b == file.blocks[k]
           reach == Smaller(WindowSize, b.from - MemberStart(file, k))
           at == {j \in DOMAIN file.blocks :
                     /\ file.blocks[j].from = a.start
                     /\ file.blocks[j].start = ByteBits * a.compressed - a.bits
                     /\ SubSeq(a.window,
                               WindowSize - Smaller(WindowSize, file.blocks[j].from
                                                      - MemberStart(file, j)) + 1,
                               WindowSize)
                          = Slice(a.start - Smaller(WindowSize, file.blocks[j].from
                                                       - MemberStart(file, j)), a.start)}
<1>1. IsFile(file) /\ WindowSize \in Nat
  BY PointsUsable, BuilderAssumption DEF BuilderAssumption
<1>2. b.from \in Nat /\ MemberStart(file, k) \in 0 .. b.from /\ b.start \in Nat
  BY <1>1, BlockType, MemberStartBound
<1>3. reach \in 0 .. WindowSize
  BY <1>1, <1>2 DEF Smaller
<1>4. /\ a.start = b.from /\ a.window = Slice(a.start - WindowSize, a.start)
      /\ b.start = ByteBits * a.compressed - a.bits
      /\ a.bits \in 0 .. (ByteBits - 1) /\ a.compressed \in Int
  BY PointType DEF Usable, PrimesAt
<1>5. SubSeq(a.window, WindowSize - reach + 1, WindowSize) = Slice(a.start - reach, a.start)
  <2> HIDE DEF b, reach
  <2> QED
    BY <1>2, <1>3, <1>4, WindowReach, BuilderAssumption
<1>6. k \in at
  BY <1>4, <1>5
<1>7. ASSUME NEW j \in at PROVE j = k
  BY <1>1, <1>4, StartsDiffer
<1>8. at = {k}
  BY <1>6, <1>7
<1> HIDE DEF at
<1>9. Reader!Max(at) = k
  <2>1. k \in Nat
    BY <1>1, BlockType
  <2> QED
    BY <1>8, <2>1 DEF Reader!Max
<1>10. Reader!FromPoint(a) =
          [offset |-> a.start, pos |-> a.start, in |-> a.compressed, avail |-> 0,
           member |-> IF at = {} THEN Reader!Lost ELSE Closing(file, Reader!Max(at))]
  BY ReaderIs DEF Reader!FromPoint, at
<1>11. Reader!FromPoint(a) =
          [offset |-> a.start, member |-> Closing(file, k), pos |-> a.start,
           in |-> a.compressed, avail |-> 0]
  BY <1>8, <1>9, <1>10
<1>12. a.compressed = CeilBytes(b.start)
  <2> DEFINE s == b.start
             c == a.compressed
             u == a.bits
  <2>1. s \in Nat /\ c \in Int /\ u \in 0 .. 7 /\ s = 8 * c - u
    BY <1>2, <1>4 DEF ByteBits
  <2> HIDE DEF b, s, c, u
  <2>2. c = (s + 8 - 1) \div 8
    BY <2>1
  <2> QED
    BY <2>2 DEF CeilBytes, ByteBits, s, c
<1> QED
  BY <1>11, <1>12

\* What a call of inflate() may do to a live context.
LEMMA Inflates ==
    ASSUME IsFile(file), Live(context), NEW limit \in Nat,
           limit = context.in + context.avail,
           outLeft \in Nat, NEW o \in Reader!RawOutcomes
    PROVE  LET b == file.blocks[context.member]
           IN  /\ o.ret \in {"ok", "end"}
               /\ o.pos \in Nat /\ o.in \in Nat
               /\ context.pos <= o.pos /\ o.pos <= context.pos + outLeft
               /\ o.pos <= b.to /\ o.in <= limit /\ o.in <= CeilBytes(b.end)
               /\ o.ret = "end" => o.pos = b.to /\ o.in = CeilBytes(b.end)
<1> DEFINE b == file.blocks[context.member]
           to == b.to
           end == CeilBytes(b.end)
           full == {Reader!RawOutcome("ok", context.pos + outLeft, i) :
                       i \in context.in .. Smaller(limit, end)}
           starved == {Reader!RawOutcome("ok", p, limit) :
                          p \in context.pos .. Smaller(context.pos + outLeft, to)}
<1>1. /\ DOMAIN file.blocks = 1 .. Len(file.blocks) /\ context.member \in DOMAIN file.blocks
      /\ to \in Nat /\ b.end \in Nat
  BY BlockType DEF Live
<1>2. /\ context.pos \in Nat /\ context.in \in Nat /\ context.avail \in Nat
      /\ context.pos <= to /\ context.in <= end /\ end \in Nat /\ outLeft \in Nat
      /\ to \in Nat
  BY <1>1, CeilType DEF Live
<1>3. context.member # Reader!Lost
  BY <1>1 DEF Reader!Lost
<1>4. o \in Reader!InflateRaw(file, context.member, context.pos, context.in, limit, outLeft)
  BY <1>3 DEF Reader!RawOutcomes
<1>5. \/ /\ o = Reader!RawOutcome("end", to, end) /\ limit >= end
         /\ to - context.pos <= outLeft
      \/ o \in full /\ context.pos + outLeft < to
      \/ o \in starved /\ limit < end
  BY <1>4, ReaderIs DEF Reader!InflateRaw
<1> HIDE DEF b, to, end
<1>6. CASE /\ o = Reader!RawOutcome("end", to, end) /\ limit >= end
           /\ to - context.pos <= outLeft
  <2>1. o.ret = "end" /\ o.pos = to /\ o.in = end
    BY <1>6 DEF Reader!RawOutcome
  <2>2. /\ context.pos <= o.pos /\ o.pos <= context.pos + outLeft /\ o.pos <= to
        /\ o.pos \in Nat /\ o.in \in Nat /\ o.in <= limit /\ o.in <= end
    BY <1>2, <1>6, <2>1
  <2> QED
    BY <2>1, <2>2 DEF b, to, end
<1>7. CASE o \in full /\ context.pos + outLeft < to
  <2>1. PICK i \in context.in .. Smaller(limit, end) :
           o = Reader!RawOutcome("ok", context.pos + outLeft, i)
    BY <1>7
  <2>2. o.ret = "ok" /\ o.pos = context.pos + outLeft /\ o.in = i
    BY <2>1 DEF Reader!RawOutcome
  <2>3. i \in Nat /\ i <= limit /\ i <= end
    BY <1>2 DEF Smaller
  <2>4. context.pos <= o.pos /\ o.pos \in Nat /\ o.pos <= to
    BY <1>2, <1>7, <2>2
  <2>5. o.in \in Nat /\ o.in <= limit /\ o.in <= end
    BY <2>2, <2>3
  <2>6. o.ret = "ok" /\ o.pos <= context.pos + outLeft
    BY <1>2, <2>2
  <2> QED
    BY <2>4, <2>5, <2>6 DEF b, to, end
<1>8. CASE o \in starved /\ limit < end
  <2>1. PICK p \in context.pos .. Smaller(context.pos + outLeft, to) :
           o = Reader!RawOutcome("ok", p, limit)
    BY <1>8
  <2>2. o.ret = "ok" /\ o.pos = p /\ o.in = limit
    BY <2>1 DEF Reader!RawOutcome
  <2>3. p \in Nat /\ context.pos <= p /\ p <= context.pos + outLeft /\ p <= to
    BY <1>1, <1>2 DEF Smaller
  <2>4. o.in \in Nat /\ o.in <= limit /\ o.in <= end /\ o.ret = "ok"
    BY <1>2, <1>8, <2>2
  <2> QED
    BY <2>2, <2>3, <2>4 DEF b, to, end
<1> QED
  BY <1>5, <1>6, <1>7, <1>8

-----------------------------------------------------------------------------
(* The invariant                                                            *)

\* Row r is of the line table, with an access point that covers its first byte.
Found(r) ==
    /\ r.line \in DOMAIN lineTable
    /\ r.offset = lineTable[r.line].offset /\ r.length = lineTable[r.line].length
    /\ r.point \in accessPoints
    /\ r.point.start <= r.offset /\ r.offset <= r.point.end

\* What print() needs of the context it decodes from: one of its own making is in
\* the member of the row's first byte; the kept one is no longer kept.
Whence ==
    LET b == file.blocks[context.member]
    IN  IF answer.resumedAt = -1 THEN row.offset < b.to
        ELSE /\ cached = Reader!NoContext
             /\ answer.resumedAt \in Int /\ answer.resumedAt <= b.to

\* Where print() is between the context's position and the row.
Progress ==
    /\ step = "measure" => context.pos <= row.offset
    /\ step = "pass" => skipping /\ context.pos + numToSkip = row.offset
    /\ step = "inflate" =>
          /\ outLeft # 0
          /\ IF skipping THEN context.pos + outLeft + numToSkip = row.offset
             ELSE /\ row.offset <= context.pos
                  /\ context.pos + outLeft = row.offset + row.length

Decoding == step \in {"measure", "pass", "inflate"}

\* The call under way has no answer yet.
Pending ==
    answer = [kind |-> "none", row |-> Reader!NoRow, content |-> <<>>,
              resumedAt |-> answer.resumedAt]

\* What the latest call gave.
Answered ==
    /\ answer.kind = "absent" => Reader!Query(answer.row.line) = {}
    /\ answer.kind = "line" =>
          /\ Found(answer.row)
          /\ answer.row.offset + answer.row.length <= TextOnDisk
          /\ answer.content = Slice(answer.row.offset,
                                    answer.row.offset + answer.row.length - 1)
    /\ answer.kind \in {"error", "crash"} =>
          /\ Found(answer.row)
          /\ LET from == answer.row.offset
                 to == from + answer.row.length
             IN  \/ Reader!MemberEndsBetween(from + 1, to - 1)
                 \/ /\ answer.resumedAt # -1 /\ cached = Reader!NoContext
                    /\ Reader!MemberEndsBetween(answer.resumedAt, from)

ReaderTypes ==
    /\ readerPos \in 0 .. file.size /\ readerEof \in BOOLEAN
    /\ readerEof => readerPos = file.size
    /\ step \in {"unloaded", "idle", "open", "measure", "pass", "inflate", "crashed"}
    /\ blockSize \in Nat /\ numToSkip \in Nat /\ outLeft \in Nat
    /\ skipping \in BOOLEAN
    /\ answer.kind \in {"none", "absent", "line", "error", "crash"}

\* The inductive invariant of the reader.
ReaderInv ==
    /\ ReaderTypes
    /\ IF step = "unloaded" THEN Reader!ReaderInit ELSE phase = "done"
    /\ step \in {"idle", "open"} => /\ cached = Reader!NoContext \/ Live(cached)
                                    /\ context = Reader!NoContext
    /\ step = "open" => Found(row) /\ answer = Reader!NoAnswer
    /\ Decoding => /\ Found(row) /\ Pending
                   /\ Live(context) /\ Whence /\ Progress
    /\ lineBuf = IF step = "inflate" /\ ~skipping THEN Slice(row.offset, context.pos)
                 ELSE <<>>
    /\ Answered

LEMMA TablesStay ==
    ASSUME UNCHANGED vars
    PROVE  /\ phase' = phase /\ file' = file /\ accessPoints' = accessPoints
           /\ lineTable' = lineTable /\ TextOnDisk' = TextOnDisk
           /\ keyRows' = keyRows /\ saveAllLines' = saveAllLines
BY DEF vars, config, points, TextOnDisk

\* A row of the table has a place in the text and a point of a member on disk.
LEMMA FoundIs ==
    ASSUME BuilderInv, phase = "done", NEW r, Found(r)
    PROVE  /\ r.line \in Nat \ {0} /\ r.offset \in Nat /\ r.length \in Nat \ {0}
           /\ r.offset < TextOnDisk /\ r.offset + r.length <= TextOnDisk + 1
           /\ \E k \in DOMAIN file.blocks : Usable(r.point, k)
           /\ file.size # 0 /\ TextOnDisk \in Nat
<1>1. accessPoints # {} /\ file.size # 0
  BY PointsNeedBytes DEF Found
<1>2. TextOnDisk \in Nat
  BY <1>1, TableIs DEF BuilderInv
<1>3. \E k \in DOMAIN file.blocks : Usable(r.point, k)
  BY PointsUsable DEF Found
<1>4. r.line \in DOMAIN lineTable
  BY DEF Found
<1> QED
  BY <1>1, <1>2, <1>3, <1>4, RowsAre DEF Found

-----------------------------------------------------------------------------
(* Every step keeps it                                                      *)

LEMMA BlockSizeIs ==
    ASSUME BuilderInv, phase = "done", accessPoints # {}
    PROVE  Reader!Max({a.end : a \in accessPoints})
              \div Reader!Cardinality(accessPoints) \in Nat
<1> DEFINE ends == {a.end : a \in accessPoints}
<1>1. file.size # 0
  BY PointsNeedBytes
<1>2. TextOnDisk \in Nat
  BY <1>1, TableIs DEF BuilderInv
<1>3. ASSUME NEW a \in accessPoints PROVE a.end \in 0 .. TextOnDisk
  <2>1. PICK k \in DOMAIN file.blocks : Usable(a, k)
    BY PointsUsable
  <2>2. /\ file.blocks[Closing(file, k)].to <= TextOnDisk /\ k < z.block
        /\ a.end \in Nat /\ a.end < file.blocks[Closing(file, k)].to
    BY <2>1, LeftOnDisk DEF Usable
  <2>3. file.blocks[Closing(file, k)].to \in Nat
    BY PointsUsable, ClosingIs, BlockType
  <2> QED
    BY <1>2, <2>2, <2>3
<1>4. ends \in SUBSET (0 .. TextOnDisk) /\ ends # {}
  BY <1>3
<1> HIDE DEF ends
<1>5. \E x \in ends : \A y \in ends : y <= x
  BY <1>2, <1>4, GreatestNumber
<1>6. \E x \in ends : \A y \in ends : x >= y
  BY <1>2, <1>4, <1>5
<1>7. Reader!Max(ends) \in ends
  BY <1>6 DEF Reader!Max
<1>8. Cardinality(accessPoints) \in Nat /\ Cardinality(accessPoints) # 0
  BY PointsUsable, FS_CardinalityType, FS_EmptySet
<1>9. Reader!Cardinality(accessPoints) = Cardinality(accessPoints)
  BY DEF Reader!Cardinality, Cardinality
<1>10. \A m \in Nat, n \in Nat \ {0} : m \div n \in Nat
  OBVIOUS
<1>11. Reader!Max(ends) \in Nat
  <2>1. Reader!Max(ends) \in 0 .. TextOnDisk
    BY <1>4, <1>7
  <2> HIDE DEF Reader!Max
  <2> QED
    BY <1>2, <2>1
<1> QED
  BY <1>8, <1>9, <1>10, <1>11 DEF ends

LEMMA Loads ==
    ASSUME BuilderInv, ReaderInv, Open
    PROVE  ReaderInv'
<1>1. /\ phase' = phase /\ file' = file /\ accessPoints' = accessPoints
      /\ lineTable' = lineTable /\ TextOnDisk' = TextOnDisk
  BY TablesStay DEF Open
<1>2. step = "unloaded" /\ step' = "idle" /\ phase = "done" /\ Reader!ReaderInit
  BY DEF Open, Reader!Load, ReaderInv
<1>3. UNCHANGED <<readerPos, readerEof, cached, context, row, numToSkip, skipping,
                  outLeft, lineBuf, answer>>
  BY DEF Open, Reader!Load
<1>4. blockSize' \in Nat
  BY BlockSizeIs DEF Open, Reader!Load
<1>5. ReaderTypes'
  BY <1>1, <1>2, <1>3, <1>4 DEF ReaderInv, ReaderTypes
<1>6. Answered'
  BY <1>2, <1>3 DEF Answered, Reader!ReaderInit, Reader!NoAnswer
<1> QED
  BY <1>1, <1>2, <1>3, <1>5, <1>6 DEF ReaderInv, Reader!ReaderInit, Decoding

LEMMA Asks ==
    ASSUME BuilderInv, ReaderInv, Ask
    PROVE  ReaderInv'
<1>1. /\ phase' = phase /\ file' = file /\ accessPoints' = accessPoints
      /\ lineTable' = lineTable /\ TextOnDisk' = TextOnDisk
  BY TablesStay DEF Ask
<1>2. PICK line \in 1 .. (Len(lineTable) + 1) : Reader!GetLine(line)
  BY DEF Ask
<1>3. /\ step = "idle" /\ phase = "done"
      /\ UNCHANGED <<readerPos, readerEof, blockSize, cached, context, numToSkip,
                     skipping, outLeft, lineBuf>>
  BY <1>2 DEF Reader!GetLine, ReaderInv
<1>4. \A c : Live(c) => Live(c)'
  BY <1>1, <1>3 DEF Live
<1>5. CASE Reader!Query(line) = {}
  <2>1. /\ step' = step /\ row' = row
        /\ answer' = [Reader!NoAnswer EXCEPT !.kind = "absent", !.row.line = line]
    BY <1>2, <1>5 DEF Reader!GetLine
  <2>2. answer'.kind = "absent" /\ answer'.row.line = line
    BY <2>1 DEF Reader!NoAnswer, Reader!NoRow
  <2>3. Reader!Query(line)' = Reader!Query(line)
    BY <1>1 DEF Reader!Query, Reader!Covers
  <2>4. Answered'
    BY <1>5, <2>2, <2>3 DEF Answered
  <2>5. ReaderTypes'
    BY <1>1, <1>3, <2>1, <2>2 DEF ReaderInv, ReaderTypes
  <2> QED
    BY <1>1, <1>3, <1>4, <2>1, <2>4, <2>5 DEF ReaderInv, Decoding
<1>6. CASE Reader!Query(line) # {}
  <2>1. row' \in Reader!Query(line) /\ answer' = Reader!NoAnswer /\ step' = "open"
    BY <1>2, <1>6 DEF Reader!GetLine
  <2>2. Found(row')
    <3>1. line \in DOMAIN lineTable
      BY <2>1 DEF Reader!Query
    <3>2. PICK a \in accessPoints :
             /\ Reader!Covers(a, lineTable[line].offset)
             /\ row' = [line |-> line, offset |-> lineTable[line].offset,
                        length |-> lineTable[line].length, point |-> a]
      BY <2>1, <3>1 DEF Reader!Query
    <3> QED
      BY <3>1, <3>2 DEF Found, Reader!Covers
  <2>3. Found(row)'
    BY <1>1, <2>2 DEF Found
  <2>4. Answered'
    BY <2>1 DEF Answered, Reader!NoAnswer
  <2>5. ReaderTypes'
    BY <1>1, <1>3, <2>1 DEF ReaderInv, ReaderTypes, Reader!NoAnswer
  <2> QED
    BY <1>1, <1>3, <1>4, <2>1, <2>3, <2>4, <2>5 DEF ReaderInv, Decoding
<1> QED
  BY <1>5, <1>6

LEMMA Reuses ==
    ASSUME BuilderInv, ReaderInv, Reader!ReuseContext, UNCHANGED vars
    PROVE  ReaderInv'
<1>1. /\ phase' = phase /\ file' = file /\ accessPoints' = accessPoints
      /\ lineTable' = lineTable /\ TextOnDisk' = TextOnDisk
  BY TablesStay
<1>2. /\ step = "open" /\ step' = "measure" /\ context' = cached
      /\ cached' = Reader!NoContext
      /\ cached # Reader!NoContext /\ cached.offset <= row.offset
      /\ answer' = [answer EXCEPT !.resumedAt = cached.offset]
      /\ UNCHANGED <<readerPos, readerEof, blockSize, row, numToSkip, skipping,
                     outLeft, lineBuf>>
  BY DEF Reader!ReuseContext, Reader!OffsetWithinRange
<1>3. Live(cached) /\ phase = "done" /\ Found(row) /\ answer = Reader!NoAnswer
  BY <1>2 DEF ReaderInv
<1>4. answer'.kind = "none" /\ answer'.resumedAt = cached.offset /\ Pending'
  BY <1>2, <1>3 DEF Reader!NoAnswer, Pending
<1>5. Live(context)' /\ Found(row)'
  BY <1>1, <1>2, <1>3 DEF Live, Found
<1>6. cached.offset = cached.pos /\ cached.pos \in Nat
      /\ cached.pos <= file.blocks[cached.member].to
  BY <1>3 DEF Live
<1>7. Whence'
  <2>1. /\ answer'.resumedAt # -1 /\ answer'.resumedAt \in Int
        /\ answer'.resumedAt <= file.blocks[context'.member].to
    BY <1>2, <1>4, <1>6
  <2> QED
    BY <1>1, <1>2, <2>1 DEF Whence
<1>8. Progress'
  BY <1>2, <1>6 DEF Progress
<1>9. ReaderTypes' /\ Answered'
  BY <1>1, <1>2, <1>4 DEF ReaderInv, ReaderTypes, Answered
<1> QED
  BY <1>1, <1>2, <1>3, <1>4, <1>5, <1>7, <1>8, <1>9 DEF ReaderInv, Decoding

LEMMA Creates ==
    ASSUME BuilderInv, ReaderInv, Reader!CreateContext, UNCHANGED vars
    PROVE  ReaderInv'
<1>1. /\ phase' = phase /\ file' = file /\ accessPoints' = accessPoints
      /\ lineTable' = lineTable /\ TextOnDisk' = TextOnDisk
  BY TablesStay
<1>2. /\ step = "open" /\ step' = "measure" /\ context' = Reader!FromPoint(row.point)
      /\ readerPos' = row.point.compressed /\ readerEof' = FALSE
      /\ UNCHANGED <<blockSize, cached, row, numToSkip, skipping, outLeft, lineBuf,
                     answer>>
  BY DEF Reader!CreateContext
<1>3. phase = "done" /\ Found(row) /\ answer = Reader!NoAnswer
  BY <1>2 DEF ReaderInv
<1>4. PICK k \in DOMAIN file.blocks : Usable(row.point, k)
  BY <1>3, FoundIs
<1> DEFINE a == row.point
           c == Closing(file, k)
           to == file.blocks[c].to
           start == CeilBytes(file.blocks[k].start)
           end == CeilBytes(file.blocks[c].end)
<1>5. /\ context' = [offset |-> a.start, member |-> c, pos |-> a.start,
                     in |-> a.compressed, avail |-> 0]
      /\ a.compressed = start
  BY <1>2, <1>3, <1>4, StartsAt
<1>6. /\ c \in DOMAIN file.blocks /\ k <= c /\ file.blocks[c].closes
      /\ to <= TextOnDisk /\ end \in Nat /\ end < file.size
  BY <1>3, <1>4, LeftOnDisk DEF Usable
<1>7. /\ a.start \in Nat /\ a.end \in Nat /\ a.end < to /\ a.start <= row.offset
      /\ row.offset <= a.end /\ row.offset \in Nat
  BY <1>3, <1>4, FoundIs DEF Usable, Found
<1>8. /\ IsFile(file) /\ to \in Nat /\ file.size \in Nat /\ k \in Nat /\ c \in Nat
      /\ file.blocks[k].start \in Nat /\ file.blocks[c].end \in Nat
      /\ file.blocks[c].start \in Nat /\ file.blocks[c].start < file.blocks[c].end
  BY <1>3, <1>6, PointsUsable, BlockType
<1>9. file.blocks[k].start <= file.blocks[c].end
  <2>1. file.blocks[k].start <= file.blocks[c].start
    BY <1>6, <1>8, StartsMonotonic
  <2> QED
    BY <1>8, <2>1
<1>10. start \in Nat /\ start <= end
  BY <1>8, <1>9, CeilType, CeilMonotonic
<1> HIDE DEF a, c, to, start, end
<1>11. context'.pos = a.start /\ context'.offset = a.start /\ context'.member = c
       /\ context'.in = start /\ context'.avail = 0 /\ context' \in ContextType
  BY <1>5, <1>7, <1>8, <1>10 DEF ContextType
<1>12. /\ readerPos' = start /\ start \in 0 .. file.size /\ a.start <= to
       /\ row.offset < to
  BY <1>2, <1>5, <1>6, <1>7, <1>8, <1>10 DEF a
<1>13. Live(context)'
  BY <1>1, <1>6, <1>7, <1>8, <1>10, <1>11, <1>12 DEF Live, to, end
<1>14. answer'.resumedAt = -1 /\ answer'.kind = "none" /\ Pending'
  BY <1>2, <1>3 DEF Reader!NoAnswer, Pending
<1>15. Whence'
  BY <1>1, <1>2, <1>11, <1>12, <1>14 DEF Whence, to
<1>16. Progress'
  BY <1>2, <1>7, <1>11 DEF Progress
<1>17. ReaderTypes'
  BY <1>1, <1>2, <1>12 DEF ReaderInv, ReaderTypes
<1>18. Answered' /\ Found(row)'
  BY <1>1, <1>2, <1>3, <1>14 DEF Answered, Found
<1> QED
  BY <1>1, <1>2, <1>3, <1>13, <1>14, <1>15, <1>16, <1>17, <1>18 DEF ReaderInv, Decoding

LEMMA Measures ==
    ASSUME BuilderInv, ReaderInv, NoRowTooLong, Reader!MeasureLine, UNCHANGED vars
    PROVE  ReaderInv'
<1>1. /\ phase' = phase /\ file' = file /\ accessPoints' = accessPoints
      /\ lineTable' = lineTable /\ TextOnDisk' = TextOnDisk
  BY TablesStay
<1>2. step = "measure" /\ UNCHANGED <<readerPos, readerEof, blockSize>>
  BY DEF Reader!MeasureLine
<1>3. /\ phase = "done" /\ Found(row) /\ Pending /\ Live(context) /\ Whence
      /\ context.pos <= row.offset
  BY <1>2 DEF ReaderInv, Decoding, Progress
<1>4. row.offset \in Nat /\ row.length \in Nat
  BY <1>3, FoundIs
<1>5. ~(row.length >= MaxLength)
  BY <1>3, <1>4, MaxLengthAssumption DEF Found, NoRowTooLong, MaxLengthAssumption
<1>6. /\ numToSkip' = row.offset - context.offset /\ skipping' = TRUE /\ step' = "pass"
      /\ UNCHANGED <<cached, context, row, outLeft, lineBuf, answer>>
  BY <1>5 DEF Reader!MeasureLine
<1>7. context.offset = context.pos /\ context.pos \in Nat
  BY <1>3 DEF Live
<1>8. numToSkip' \in Nat /\ context'.pos + numToSkip' = row'.offset
  BY <1>3, <1>4, <1>6, <1>7
<1>9. Live(context)' /\ Whence' /\ Found(row)' /\ Answered' /\ Pending'
  BY <1>1, <1>2, <1>3, <1>6 DEF Live, Whence, Found, Answered, Pending
<1>10. Progress'
  BY <1>6, <1>8 DEF Progress
<1>11. ReaderTypes'
  BY <1>1, <1>2, <1>6, <1>8 DEF ReaderInv, ReaderTypes
<1> QED
  BY <1>1, <1>2, <1>3, <1>6, <1>9, <1>10, <1>11 DEF ReaderInv, Decoding

LEMMA Begins ==
    ASSUME BuilderInv, ReaderInv, Reader!BeginPass, UNCHANGED vars
    PROVE  ReaderInv'
<1>1. /\ phase' = phase /\ file' = file /\ accessPoints' = accessPoints
      /\ lineTable' = lineTable /\ TextOnDisk' = TextOnDisk
  BY TablesStay
<1>2. /\ step = "pass" /\ step' = "inflate"
      /\ UNCHANGED <<readerPos, readerEof, blockSize, cached, context, row, lineBuf,
                     answer>>
  BY DEF Reader!BeginPass
<1>3. /\ phase = "done" /\ Found(row) /\ Pending /\ Live(context) /\ Whence
      /\ skipping /\ context.pos + numToSkip = row.offset /\ lineBuf = <<>>
  BY <1>2 DEF ReaderInv, Decoding, Progress
<1>4. /\ row.offset \in Nat /\ row.length \in Nat \ {0} /\ numToSkip \in Nat
      /\ context.pos \in Nat
  BY <1>3, FoundIs DEF Live, ReaderInv, ReaderTypes
<1>5. Live(context)' /\ Whence' /\ Found(row)' /\ Answered' /\ Pending'
  BY <1>1, <1>2, <1>3 DEF Live, Whence, Found, Answered, Pending
<1>6. CASE numToSkip = 0
  <2>1. outLeft' = row.length /\ skipping' = FALSE /\ numToSkip' = numToSkip
    BY <1>6 DEF Reader!BeginPass
  <2>2. context.pos = row.offset
    BY <1>3, <1>4, <1>6
  <2>3. Progress'
    BY <1>2, <1>4, <2>1, <2>2 DEF Progress
  <2>4. Slice(row.offset, context.pos) = <<>>
    BY <1>4, <2>2, NothingSliced
  <2>5. ReaderTypes'
    BY <1>1, <1>2, <1>4, <2>1 DEF ReaderInv, ReaderTypes
  <2> QED
    BY <1>1, <1>2, <1>3, <1>5, <2>1, <2>3, <2>4, <2>5 DEF ReaderInv, Decoding
<1>7. CASE numToSkip # 0
  <2>1. /\ outLeft' = Smaller(numToSkip, WindowSize) /\ skipping' = skipping
        /\ numToSkip' = numToSkip - outLeft'
    BY <1>7, ReaderIs DEF Reader!BeginPass, Reader!LeftToSkip
  <2>2. WindowSize \in Nat \ {0}
    BY BuilderAssumption DEF BuilderAssumption
  <2>3. outLeft' \in Nat \ {0} /\ outLeft' <= numToSkip
    BY <1>4, <1>7, <2>1, <2>2 DEF Smaller
  <2>4. numToSkip' \in Nat /\ context.pos + outLeft' + numToSkip' = row.offset
    BY <1>3, <1>4, <2>1, <2>3
  <2>5. Progress'
    BY <1>2, <1>3, <2>1, <2>3, <2>4 DEF Progress
  <2>6. ReaderTypes'
    BY <1>1, <1>2, <1>3, <2>1, <2>3, <2>4 DEF ReaderInv, ReaderTypes
  <2> QED
    BY <1>1, <1>2, <1>3, <1>5, <2>1, <2>5, <2>6 DEF ReaderInv, Decoding
<1> QED
  BY <1>6, <1>7

LEMMA Refills ==
    ASSUME BuilderInv, ReaderInv, Reader!RefillInput, UNCHANGED vars
    PROVE  ReaderInv'
<1> DEFINE got == Smaller(ChunkSize, file.size - readerPos)
<1>1. /\ phase' = phase /\ file' = file /\ accessPoints' = accessPoints
      /\ lineTable' = lineTable /\ TextOnDisk' = TextOnDisk
  BY TablesStay
<1>2. /\ step = "inflate" /\ context.avail = 0 /\ blockSize' = blockSize
      /\ readerPos' = readerPos + got /\ readerEof' = (readerEof \/ got < ChunkSize)
  BY ReaderIs DEF Reader!RefillInput
<1>3. /\ phase = "done" /\ Found(row) /\ Pending /\ Live(context) /\ Whence
      /\ Progress
  BY <1>2 DEF ReaderInv, Decoding
<1>4. IsFile(file) /\ file.size \in Nat /\ ChunkSize \in Nat \ {0}
  BY <1>3, PointsUsable, BlockType, BuilderAssumption DEF BuilderAssumption
<1>5. CeilBytes(file.blocks[context.member].end) \in Nat
  <2>1. context.member \in DOMAIN file.blocks
    BY <1>3 DEF Live
  <2> QED
    BY <1>4, <2>1, BlockType, CeilType
<1>6. /\ readerPos = context.in /\ context.in \in Nat /\ readerPos < file.size
      /\ readerEof \in BOOLEAN
  BY <1>2, <1>3, <1>4, <1>5 DEF Live, ReaderInv, ReaderTypes
<1>7. /\ got \in Nat \ {0} /\ got <= file.size - readerPos
      /\ got < ChunkSize => got = file.size - readerPos
  BY <1>4, <1>6 DEF Smaller
<1>8. readerEof = FALSE
  BY <1>4, <1>6 DEF ReaderInv, ReaderTypes
<1>9. /\ context' = [context EXCEPT !.avail = got, !.in = readerPos,
                        !.member = IF readerPos = context.in THEN @ ELSE Reader!Lost]
      /\ UNCHANGED <<cached, step, row, numToSkip, skipping, outLeft, lineBuf, answer>>
  BY <1>2, <1>7, ReaderIs DEF Reader!RefillInput
<1> HIDE DEF got
<1>10. context \in ContextType
  BY <1>3 DEF Live
<1>11. /\ context' \in ContextType /\ context'.avail = got /\ context'.in = context.in
       /\ context'.member = context.member /\ context'.offset = context.offset
       /\ context'.pos = context.pos
  <2>1. context' = [context EXCEPT !.avail = got, !.in = context.in,
                       !.member = context.member]
    BY <1>6, <1>9
  <2>2. got \in Int
    BY <1>7
  <2> QED
    BY <1>10, <2>1, <2>2 DEF ContextType
<1>12. /\ readerPos' = context'.in + context'.avail /\ readerPos' \in 0 .. file.size
       /\ readerEof' \in BOOLEAN /\ readerEof' => readerPos' = file.size
  BY <1>2, <1>4, <1>6, <1>7, <1>8, <1>11
<1>13. Live(context)'
  BY <1>1, <1>3, <1>7, <1>11, <1>12 DEF Live
<1>14. Whence' /\ Progress' /\ Found(row)' /\ Answered' /\ Pending'
  BY <1>1, <1>3, <1>9, <1>11 DEF Whence, Progress, Found, Answered, Pending
<1>15. ReaderTypes'
  BY <1>1, <1>2, <1>9, <1>12 DEF ReaderInv, ReaderTypes
<1> QED
  BY <1>1, <1>2, <1>3, <1>9, <1>11, <1>13, <1>14, <1>15 DEF ReaderInv, Decoding

\* print() is left: what it says of the row, and what it leaves for the next call.
LEMMA Leaves ==
    ASSUME ReaderInv, UNCHANGED vars, Decoding,
           UNCHANGED <<readerPos, readerEof, blockSize>>,
           NEW kind \in {"line", "error", "crash"}, NEW content,
           Reader!Leave(kind, content), row.offset \in Nat, row.length \in Nat,
           kind # "crash" => cached' = Reader!NoContext \/ Live(cached)',
           kind = "line" =>
              /\ row.offset + row.length <= TextOnDisk
              /\ content = Slice(row.offset, row.offset + row.length - 1),
           kind \in {"error", "crash"} =>
              \/ Reader!MemberEndsBetween(row.offset + 1, row.offset + row.length - 1)
              \/ /\ answer.resumedAt # -1 /\ cached' = Reader!NoContext
                 /\ Reader!MemberEndsBetween(answer.resumedAt, row.offset)
    PROVE  ReaderInv'
<1>1. /\ phase' = phase /\ file' = file /\ accessPoints' = accessPoints
      /\ lineTable' = lineTable /\ TextOnDisk' = TextOnDisk
  BY TablesStay
<1>2. phase = "done" /\ Found(row) /\ Pending
  BY DEF ReaderInv, Decoding
<1>3. /\ answer' = [answer EXCEPT !.kind = kind, !.row = row, !.content = content]
      /\ step' = IF kind = "crash" THEN "crashed" ELSE "idle"
      /\ context' = Reader!NoContext
      /\ numToSkip' = 0 /\ skipping' = FALSE /\ outLeft' = 0 /\ lineBuf' = <<>>
  BY DEF Reader!Leave
<1>4. answer'.kind = kind /\ answer'.row = row /\ answer'.content = content
      /\ answer'.resumedAt = answer.resumedAt
  BY <1>2, <1>3 DEF Pending
<1>5. Found(answer.row)'
  BY <1>1, <1>2, <1>4 DEF Found
<1>6. Answered'
  <2>1. answer'.kind # "absent"
    BY <1>4
  <2>2. (answer.kind = "line" =>
            /\ answer.row.offset + answer.row.length <= TextOnDisk
            /\ answer.content = Slice(answer.row.offset,
                                      answer.row.offset + answer.row.length - 1))'
    BY <1>1, <1>4
  <2>3. (answer.kind \in {"error", "crash"} =>
            LET from == answer.row.offset
                to == from + answer.row.length
            IN  \/ Reader!MemberEndsBetween(from + 1, to - 1)
                \/ /\ answer.resumedAt # -1 /\ cached = Reader!NoContext
                   /\ Reader!MemberEndsBetween(answer.resumedAt, from))'
    BY <1>1, <1>4 DEF Reader!MemberEndsBetween
  <2> QED
    BY <1>5, <2>1, <2>2, <2>3 DEF Answered
<1>7. ReaderTypes'
  BY <1>1, <1>3, <1>4 DEF ReaderInv, ReaderTypes
<1> QED
  BY <1>1, <1>2, <1>3, <1>6, <1>7 DEF ReaderInv, Decoding

\* The row's bytes, less its last one.
LEMMA RowContent ==
    ASSUME NEW from \in Nat, NEW n \in Nat \ {0}
    PROVE  LET bytes == Slice(from, from + n)
           IN  [i \in 1 .. (n - 1) |-> IF i \in DOMAIN bytes THEN bytes[i]
                                       ELSE Reader!JunkByte]
                  = Slice(from, from + n - 1)
<1> DEFINE bytes == Slice(from, from + n)
           less == Slice(from, from + n - 1)
<1>1. /\ DOMAIN bytes = 1 .. n
      /\ \A i \in 1 .. n : bytes[i] = from + i - 1
  BY DEF Slice
<1>2. less = [i \in 1 .. (n - 1) |-> from + i - 1]
  BY DEF Slice
<1>3. \A i \in 1 .. (n - 1) : i \in 1 .. n
  OBVIOUS
<1> HIDE DEF bytes, less
<1> QED
  BY <1>1, <1>2, <1>3 DEF bytes, less

LEMMA Decodes ==
    ASSUME BuilderInv, ReaderInv, Reader!InflateLine, UNCHANGED vars
    PROVE  ReaderInv'
<1>1. /\ phase' = phase /\ file' = file /\ accessPoints' = accessPoints
      /\ lineTable' = lineTable /\ TextOnDisk' = TextOnDisk
  BY TablesStay
<1>2. /\ step = "inflate" /\ context.avail # 0
      /\ UNCHANGED <<readerPos, readerEof, blockSize>>
  BY DEF Reader!InflateLine
<1>3. /\ Decoding /\ phase = "done" /\ Found(row) /\ Pending /\ Live(context) /\ Whence
      /\ Progress
  BY <1>2 DEF ReaderInv, Decoding
<1>4. PICK o \in Reader!RawOutcomes :
         LET made == o.pos - context.pos
             c == [context EXCEPT !.offset = @ + made, !.pos = o.pos, !.in = o.in,
                                  !.avail = context.in + @ - o.in]
             out == IF o.ret = "junk" THEN [i \in 1 .. made |-> Reader!JunkByte]
                    ELSE Reader!Slice(context.pos, o.pos)
             bytes == IF skipping THEN <<>> ELSE lineBuf \o out
         IN  CASE o.ret = "error" -> Reader!Throw
               [] o.ret = "end" -> Reader!MemberEnds(c, outLeft - made, bytes)
               [] OTHER -> Reader!GoOn(c, outLeft - made, bytes)
  BY DEF Reader!InflateLine
<1> DEFINE made == o.pos - context.pos
           c == [context EXCEPT !.offset = @ + made, !.pos = o.pos, !.in = o.in,
                                !.avail = context.in + @ - o.in]
           bytes == IF skipping THEN <<>> ELSE lineBuf \o Reader!Slice(context.pos, o.pos)
           left == outLeft - made
           b == file.blocks[context.member]
           to == b.to
           end == CeilBytes(b.end)
<1>5. o.ret = "end" => Reader!MemberEnds(c, left, bytes)
  BY <1>4
<1>6. o.ret = "ok" => Reader!GoOn(c, left, bytes)
  BY <1>4
<1> HIDE DEF c
<1> DEFINE limit == context.in + context.avail
<1>7. IsFile(file) /\ file.size \in Nat /\ outLeft \in Nat /\ numToSkip \in Nat
      /\ readerPos \in Nat
  BY <1>3, PointsUsable, BlockType DEF ReaderInv, ReaderTypes
<1>8. /\ context \in ContextType /\ context.offset = context.pos /\ context.pos \in Nat
      /\ context.in \in Nat /\ context.avail \in Nat /\ readerPos = limit
      /\ context.member \in DOMAIN file.blocks /\ b.closes
      /\ to <= TextOnDisk /\ end < file.size
  BY <1>3 DEF Live
<1>9. /\ o.ret \in {"ok", "end"} /\ o.pos \in Nat /\ o.in \in Nat
      /\ context.pos <= o.pos /\ o.pos <= context.pos + outLeft
      /\ o.pos <= to /\ o.in <= limit /\ o.in <= end
      /\ o.ret = "end" => o.pos = to /\ o.in = end
  <2>1. limit \in Nat
    BY <1>7, <1>8
  <2> QED
    BY <1>3, <1>7, <2>1, Inflates
<1>10. made \in Nat /\ context.offset + made = o.pos /\ left \in Nat
       /\ o.pos + left = context.pos + outLeft
  BY <1>7, <1>8, <1>9
<1>11. /\ c \in ContextType /\ c.offset = o.pos /\ c.pos = o.pos /\ c.in = o.in
       /\ c.avail = limit - o.in /\ c.member = context.member
  <2>1. o.pos \in Int /\ o.in \in Int /\ made \in Int
    BY <1>9, <1>10
  <2>2. /\ c \in ContextType /\ c.offset = context.offset + made /\ c.pos = o.pos
        /\ c.in = o.in /\ c.avail = context.in + context.avail - o.in
        /\ c.member = context.member
    <3>1. context \in ContextType
      BY <1>8
    <3> DEFINE p == o.pos
               i == o.in
               offset == context.offset + made
               avail == context.in + context.avail - i
    <3>2. p \in Int /\ i \in Int
      BY <2>1
    <3>3. c = [context EXCEPT !.offset = offset, !.pos = p, !.in = i, !.avail = avail]
      BY DEF c
    <3>4. offset \in Int /\ avail \in Int
      BY <2>1, <3>1, <3>2 DEF ContextType
    <3> HIDE DEF p, i, c, offset, avail, made
    <3>5. /\ c.offset = offset /\ c.pos = p /\ c.in = i /\ c.avail = avail
          /\ c.member = context.member
      BY <3>1, <3>3 DEF ContextType
    <3>6. c \in ContextType
      BY <3>1, <3>2, <3>3, <3>4 DEF ContextType
    <3> QED
      BY <3>5, <3>6 DEF p, i, offset, avail
  <2>3. c.avail = limit - o.in
    BY <1>8, <1>9, <2>2
  <2> HIDE DEF limit
  <2>4. c.offset = o.pos
    BY <1>10, <2>2
  <2> QED
    BY <2>2, <2>3, <2>4
<1>12. limit \in Nat /\ c.avail \in Nat /\ readerPos = c.in + c.avail
  BY <1>7, <1>8, <1>9, <1>11
<1> HIDE DEF c, bytes, left, to, end, limit, made
<1>13. Live(c)
  BY <1>8, <1>9, <1>11, <1>12 DEF Live, b, to, end
<1>14. to \in Nat /\ end \in Nat /\ TextOnDisk \in Nat
       /\ row.offset \in Nat /\ row.length \in Nat \ {0}
  BY <1>3, <1>7, <1>8, BlockType, CeilType, FoundIs DEF b, to, end
<1> HIDE DEF b
<1>15. /\ skipping => /\ bytes = <<>> /\ o.pos + left + numToSkip = row.offset
       /\ ~skipping => /\ bytes = Slice(row.offset, o.pos) /\ row.offset <= o.pos
                       /\ o.pos + left = row.offset + row.length
       /\ skipping \in BOOLEAN
  <2>1. skipping \in BOOLEAN
    BY DEF ReaderInv, ReaderTypes
  <2>2. CASE skipping
    <3>1. bytes = <<>>
      BY <2>2 DEF bytes
    <3>2. context.pos + outLeft + numToSkip = row.offset
      BY <1>2, <1>3, <2>2 DEF Progress
    <3> QED
      BY <1>7, <1>8, <1>9, <1>10, <1>14, <2>2, <3>1, <3>2
  <2>3. CASE ~skipping
    <3>1. bytes = Slice(row.offset, context.pos) \o Slice(context.pos, o.pos)
      BY <1>2, <2>3, ReaderIs DEF bytes, ReaderInv
    <3>2. row.offset <= context.pos /\ context.pos + outLeft = row.offset + row.length
      BY <1>2, <1>3, <2>3 DEF Progress
    <3> DEFINE from == row.offset
               mid == context.pos
               upto == o.pos
    <3>3. from \in Nat /\ mid \in Nat /\ upto \in Nat /\ from <= mid /\ mid <= upto
      BY <1>8, <1>9, <1>14, <3>2
    <3>4. o.pos + left = row.offset + row.length
      BY <1>10, <3>2
    <3> HIDE DEF from, mid, upto
    <3>5. Slice(from, mid) \o Slice(mid, upto) = Slice(from, upto)
      BY <3>3, SlicesJoin
    <3>6. from <= upto
      BY <3>3
    <3> QED
      BY <2>1, <2>3, <3>1, <3>4, <3>5, <3>6 DEF from, mid, upto
  <2> QED
    BY <2>1, <2>2, <2>3
<1>16. ASSUME context' = c PROVE Live(context)'
  BY <1>1, <1>2, <1>13, <1>16 DEF Live
<1>17. ASSUME NEW d, d = Reader!NoContext \/ d = c, ~skipping, left = 0,
              Reader!Deliver(d, bytes)
       PROVE  ReaderInv'
  <2> DEFINE content == [i \in 1 .. (row.length - 1) |->
                            IF i \in DOMAIN bytes THEN bytes[i] ELSE Reader!JunkByte]
  <2>1. Reader!Leave("line", content) /\ cached' = d
    BY <1>17 DEF Reader!Deliver, Reader!Kept
  <2>2. o.pos = row.offset + row.length /\ row.offset + row.length <= TextOnDisk
    BY <1>8, <1>9, <1>14, <1>15, <1>17
  <2>3. bytes = Slice(row.offset, row.offset + row.length)
    BY <1>15, <1>17, <2>2
  <2>4. content = Slice(row.offset, row.offset + row.length - 1)
    BY <1>14, <2>3, RowContent
  <2>5. cached' = Reader!NoContext \/ Live(cached)'
    BY <1>1, <1>2, <1>13, <1>17, <2>1 DEF Live
  <2> HIDE DEF content
  <2> QED
    BY <1>2, <1>3, <1>14, <2>1, <2>2, <2>4, <2>5, Leaves
<1>18. ASSUME skipping, left = 0, Reader!PassEnds(c, bytes) PROVE ReaderInv'
  <2>1. /\ context' = c /\ outLeft' = 0 /\ step' = "pass"
        /\ UNCHANGED <<cached, row, numToSkip, skipping, lineBuf, answer>>
    BY <1>18 DEF Reader!PassEnds
  <2>2. c.pos + numToSkip = row.offset
    BY <1>7, <1>9, <1>11, <1>14, <1>15, <1>18
  <2>3. Progress'
    BY <1>18, <2>1, <2>2 DEF Progress
  <2>4. Live(context)' /\ Whence' /\ Found(row)' /\ Answered' /\ Pending'
    BY <1>1, <1>3, <1>11, <1>16, <2>1 DEF Whence, Found, Pending, Answered
  <2>5. ReaderTypes'
    BY <1>1, <1>2, <2>1 DEF ReaderInv, ReaderTypes
  <2>6. lineBuf' = <<>>
    BY <1>2, <1>18, <2>1 DEF ReaderInv
  <2> QED
    BY <1>1, <1>3, <2>1, <2>3, <2>4, <2>5, <2>6 DEF ReaderInv, Decoding
<1>19. CASE o.ret = "ok" /\ left = 0
  <2>1. Reader!PassEnds(c, bytes)
    BY <1>6, <1>19 DEF Reader!GoOn
  <2>2. ~skipping => Reader!Deliver(c, bytes)
    BY <2>1 DEF Reader!PassEnds
  <2> QED
    BY <1>15, <1>17, <1>18, <1>19, <2>1, <2>2
<1>20. CASE o.ret = "ok" /\ left # 0
  <2>1. /\ context' = c /\ outLeft' = left /\ lineBuf' = bytes
        /\ UNCHANGED <<cached, step, row, numToSkip, skipping, answer>>
    BY <1>6, <1>20 DEF Reader!GoOn
  <2>2. Progress'
    BY <1>2, <1>11, <1>15, <1>20, <2>1 DEF Progress
  <2>3. Live(context)' /\ Whence' /\ Found(row)' /\ Answered' /\ Pending'
    BY <1>1, <1>3, <1>11, <1>16, <2>1 DEF Whence, Found, Pending, Answered
  <2>4. ReaderTypes'
    BY <1>1, <1>2, <1>10, <2>1 DEF ReaderInv, ReaderTypes
  <2>5. lineBuf' = IF step' = "inflate" /\ ~skipping' THEN Slice(row'.offset, context'.pos)
                   ELSE <<>>
    BY <1>2, <1>11, <1>15, <2>1
  <2> QED
    BY <1>1, <1>2, <1>3, <2>1, <2>2, <2>3, <2>4, <2>5 DEF ReaderInv, Decoding
<1>21. CASE o.ret = "end"
  <2>1. o.pos = to /\ o.in = end
    BY <1>9, <1>21
  <2>2. ~(c.avail = 0 /\ readerEof)
    <3>1. readerEof => limit = file.size
      BY <1>8 DEF ReaderInv, ReaderTypes
    <3>2. c.avail = limit - end /\ end < file.size
      BY <1>8, <1>11, <2>1
    <3> QED
      BY <1>7, <1>12, <1>14, <3>1, <3>2
  <2>3. IF skipping THEN Reader!Throw
        ELSE IF left = 0 THEN Reader!Deliver(Reader!NoContext, bytes)
        ELSE Reader!Leave("crash", <<>>) /\ UNCHANGED cached
    BY <1>5, <1>21, <2>2 DEF Reader!MemberEnds
  <2>4. ASSUME NEW from, NEW upto, from <= to, to <= upto
        PROVE  Reader!MemberEndsBetween(from, upto)
    BY <1>8, <2>4 DEF Reader!MemberEndsBetween, to, b
  <2>5. to <= row.offset => /\ answer.resumedAt # -1 /\ cached = Reader!NoContext
                            /\ Reader!MemberEndsBetween(answer.resumedAt, row.offset)
    <3> SUFFICES ASSUME to <= row.offset
                 PROVE  /\ answer.resumedAt # -1 /\ cached = Reader!NoContext
                        /\ Reader!MemberEndsBetween(answer.resumedAt, row.offset)
      OBVIOUS
    <3>1. ~(row.offset < to)
      BY <1>14
    <3>2. /\ answer.resumedAt # -1 /\ cached = Reader!NoContext
          /\ answer.resumedAt <= to
      BY <1>3, <3>1 DEF Whence, to, b
    <3> QED
      BY <2>4, <3>2
  <2>6. CASE skipping
    <3>1. Reader!Leave("error", <<>>) /\ cached' = cached
      BY <2>3, <2>6 DEF Reader!Throw
    <3>2. to <= row.offset
      BY <1>7, <1>10, <1>14, <1>15, <2>1, <2>6
    <3> QED
      BY <1>2, <1>3, <1>14, <2>5, <3>1, <3>2, Leaves
  <2>7. CASE ~skipping /\ left = 0
    BY <1>17, <2>3, <2>7
  <2>8. CASE ~skipping /\ left # 0
    <3>1. Reader!Leave("crash", <<>>) /\ cached' = cached
      BY <2>3, <2>8
    <3>2. to < row.offset + row.length
      BY <1>10, <1>14, <1>15, <2>1, <2>8
    <3>3. CASE to <= row.offset
      BY <1>2, <1>3, <1>14, <2>5, <3>1, <3>3, Leaves
    <3>4. CASE ~(to <= row.offset)
      <4>1. row.offset + 1 <= to /\ to <= row.offset + row.length - 1
        BY <1>14, <3>2, <3>4
      <4>2. Reader!MemberEndsBetween(row.offset + 1, row.offset + row.length - 1)
        BY <2>4, <4>1
      <4> QED
        BY <1>2, <1>3, <1>14, <3>1, <4>2, Leaves
    <3> QED
      BY <3>3, <3>4
  <2> QED
    BY <1>15, <2>6, <2>7, <2>8
<1> QED
  BY <1>9, <1>19, <1>20, <1>21

-----------------------------------------------------------------------------
(* The theorems                                                             *)

LEMMA InitReaderInv == ZInit => BuilderInv /\ ReaderInv
<1> SUFFICES ASSUME ZInit PROVE BuilderInv /\ ReaderInv
  OBVIOUS
<1>1. BuilderInv
  BY InitRowsInv, InitTextKept DEF ZInit, BuilderInv
<1>2. Reader!ReaderInit
  BY DEF ZInit
<1>3. file.size \in Nat
  BY <1>1, FileIs DEF BuilderInv, RowsInv, IInv
<1>4. ReaderTypes
  <2>1. answer.kind = "none"
    BY <1>2 DEF Reader!ReaderInit, Reader!NoAnswer
  <2>2. /\ readerPos = 0 /\ readerEof = FALSE /\ step = "unloaded" /\ skipping = FALSE
        /\ blockSize = 0 /\ numToSkip = 0 /\ outLeft = 0
    BY <1>2 DEF Reader!ReaderInit
  <2>3. readerPos \in 0 .. file.size
    BY <1>3, <2>2
  <2>4. readerEof \in BOOLEAN /\ skipping \in BOOLEAN
    BY <2>2
  <2>5. ~readerEof
    BY <2>2
  <2>6. blockSize \in Nat /\ numToSkip \in Nat /\ outLeft \in Nat
    BY <2>2
  <2> QED
    BY <2>1, <2>2, <2>3, <2>4, <2>5, <2>6 DEF ReaderTypes
<1>5. Answered
  BY <1>2 DEF Reader!ReaderInit, Answered, Reader!NoAnswer
<1> QED
  BY <1>1, <1>2, <1>4, <1>5 DEF ReaderInv, Reader!ReaderInit, Decoding

\* Steps of the builder, and those that change nothing.
LEMMA KeepsWhileUnread ==
    ASSUME ReaderInv, file' = file, step # "unloaded" => UNCHANGED vars, UNCHANGED readerVars
    PROVE  ReaderInv'
<1>1. UNCHANGED <<readerPos, readerEof, blockSize, cached, context, step, row,
                  numToSkip, skipping, outLeft, lineBuf, answer>>
  BY DEF readerVars
<1>2. ReaderTypes'
  BY <1>1 DEF ReaderInv, ReaderTypes
<1>3. CASE step = "unloaded"
  <2>1. Reader!ReaderInit
    BY <1>3 DEF ReaderInv
  <2>2. Reader!ReaderInit'
    BY <1>1, <2>1 DEF Reader!ReaderInit
  <2>3. Answered'
    BY <2>2 DEF Reader!ReaderInit, Answered, Reader!NoAnswer
  <2> QED
    BY <1>1, <1>2, <1>3, <2>2, <2>3 DEF ReaderInv, Decoding, Reader!ReaderInit
<1>4. CASE step # "unloaded"
  <2>1. /\ phase' = phase /\ file' = file /\ accessPoints' = accessPoints
        /\ lineTable' = lineTable /\ TextOnDisk' = TextOnDisk
    BY <1>4, TablesStay
  <2>2. \A c : Live(c) => Live(c)'
    BY <1>1, <2>1 DEF Live
  <2>3. /\ Found(row) => Found(row)'
        /\ Live(context) => Live(context)'
        /\ Live(cached) => Live(cached)'
        /\ Whence => Whence'
        /\ Progress => Progress'
        /\ Pending => Pending'
    BY <1>1, <2>1 DEF Live, Found, Whence, Progress, Pending
  <2>4. Answered'
    <3>1. Answered
      BY DEF ReaderInv
    <3>2. Reader!Query(answer.row.line)' = Reader!Query(answer.row.line)
      BY <1>1, <2>1 DEF Reader!Query, Reader!Covers
    <3> QED
      BY <1>1, <2>1, <3>1, <3>2 DEF Answered, Found, Reader!MemberEndsBetween
  <2>5. phase' = "done" /\ step' # "unloaded"
    BY <1>1, <1>4, <2>1 DEF ReaderInv
  <2>6. step' \in {"idle", "open"} => /\ cached' = Reader!NoContext \/ Live(cached)'
                                     /\ context' = Reader!NoContext
    BY <1>1, <2>3 DEF ReaderInv
  <2>7. step' = "open" => Found(row)' /\ answer' = Reader!NoAnswer
    BY <1>1, <2>3 DEF ReaderInv
  <2>8. Decoding' => Found(row)' /\ Pending' /\ Live(context)' /\ Whence' /\ Progress'
    <3> SUFFICES ASSUME Decoding'
                 PROVE  Found(row)' /\ Pending' /\ Live(context)' /\ Whence' /\ Progress'
      OBVIOUS
    <3>1. Decoding
      BY <1>1 DEF Decoding
    <3>2. Found(row) /\ Pending /\ Live(context) /\ Whence /\ Progress
      BY <3>1 DEF ReaderInv
    <3> QED
      BY <2>3, <3>2
  <2>9. lineBuf' = IF step' = "inflate" /\ ~skipping'
                   THEN Slice(row'.offset, context'.pos) ELSE <<>>
    BY <1>1 DEF ReaderInv
  <2> QED
    BY <1>2, <2>4, <2>5, <2>6, <2>7, <2>8, <2>9 DEF ReaderInv
<1> QED
  BY <1>3, <1>4

LEMMA KeepsReaderInv ==
    BuilderInv /\ ReaderInv /\ NoRowTooLong /\ [ZNext]_zindexVars
        => (BuilderInv /\ ReaderInv)'
<1> SUFFICES ASSUME BuilderInv, ReaderInv, NoRowTooLong, [ZNext]_zindexVars
             PROVE  BuilderInv' /\ ReaderInv'
  OBVIOUS
<1>1. [Next]_vars
  BY DEF ZNext, zindexVars, Build, Open, Ask, PrintLine
<1>2. BuilderInv'
  BY <1>1, KeepsBoth DEF BuilderInv
<1>3. file' = file
  BY <1>1, FileStays DEF BuilderInv, RowsInv, IInv
<1>3a. SUFFICES ReaderInv'
  BY <1>2
<1>4. CASE Build
  <2>1. Next /\ UNCHANGED readerVars
    BY <1>4 DEF Build
  <2>2. phase # "done"
    BY <2>1, DoneStays
  <2>3. step = "unloaded"
    BY <2>2 DEF ReaderInv
  <2> QED
    BY <1>3, <2>1, <2>3, KeepsWhileUnread
<1>5. CASE Open
  BY <1>5, Loads
<1>6. CASE Ask
  BY <1>6, Asks
<1>7. CASE PrintLine
  BY <1>7, Reuses, Creates, Measures, Begins, Refills, Decodes
     DEF PrintLine, Reader!PrintStep
<1>8. CASE UNCHANGED zindexVars
  <2>1. UNCHANGED vars /\ UNCHANGED readerVars
    BY <1>8 DEF zindexVars
  <2> QED
    BY <1>3, <2>1, KeepsWhileUnread
<1> QED
  BY <1>2, <1>4, <1>5, <1>6, <1>7, <1>8 DEF ZNext

\* However the index is used: the reader's invariant, and the builder's with it.
THEOREM ReaderInvariance == ZSpec /\ []NoRowTooLong => [](BuilderInv /\ ReaderInv)
BY InitReaderInv, KeepsReaderInv, PTL DEF ZSpec

\* The positions, counters and states of print() are what they may be.
THEOREM ReaderTypeCorrect == ZSpec /\ []NoRowTooLong => []ReaderTypeOK
<1>1. BuilderInv /\ ReaderInv => ReaderTypeOK
  <2> SUFFICES ASSUME BuilderInv, ReaderInv PROVE ReaderTypeOK
    OBVIOUS
  <2>1. Reader!Printing => row # Reader!NoRow
    <3> SUFFICES ASSUME Reader!Printing PROVE row # Reader!NoRow
      OBVIOUS
    <3>1. Found(row) /\ phase = "done"
      BY DEF Reader!Printing, ReaderInv, ReaderTypes, Decoding
    <3>2. row.line # 0
      BY <3>1, FoundIs
    <3> QED
      BY <3>2 DEF Reader!NoRow
  <2> QED
    BY <2>1 DEF ReaderTypeOK, Reader!ReaderTypeOK, ReaderInv, ReaderTypes
<1> QED
  BY <1>1, ReaderInvariance, PTL

\* getLine() gives the sink the bytes of the row, no more and no fewer, in whatever
\* order lines are asked for and wherever the decoder starts.
THEOREM Delivers == ZSpec /\ []NoRowTooLong => []DeliveredExactly
<1>1. ReaderInv => DeliveredExactly
  BY ReaderIs DEF ReaderInv, Answered, DeliveredExactly, Reader!DeliveredExactly
<1> QED
  BY <1>1, ReaderInvariance, PTL

\* The kept context and the shared FILE agree between any two calls.
THEOREM CachedInSync == ZSpec /\ []NoRowTooLong => []CachedContextInSync
<1>1. BuilderInv /\ ReaderInv => CachedContextInSync
  <2> SUFFICES ASSUME BuilderInv, ReaderInv, step = "idle", cached # Reader!NoContext
               PROVE  /\ cached.member # Reader!Lost
                      /\ cached.offset = cached.pos
                      /\ readerPos = cached.in + cached.avail
    BY DEF CachedContextInSync, Reader!CachedContextInSync
  <2>1. Live(cached) /\ phase = "done"
    BY DEF ReaderInv
  <2>2. DOMAIN file.blocks = 1 .. Len(file.blocks)
    BY <2>1, PointsUsable, BlockType
  <2> QED
    BY <2>1, <2>2 DEF Live, Reader!Lost
<1> QED
  BY <1>1, ReaderInvariance, PTL

\* A call fails only where a member ends inside its row or, going on from the kept
\* context, before it.
THEOREM FailsAtMemberEnds == ZSpec /\ []NoRowTooLong => []FailsOnlyAtMemberEnds
<1>1. ReaderInv => FailsOnlyAtMemberEnds
  BY DEF ReaderInv, Answered, FailsOnlyAtMemberEnds, Reader!FailsOnlyAtMemberEnds
<1> QED
  BY <1>1, ReaderInvariance, PTL

-----------------------------------------------------------------------------
(* What is delivered                                                        *)

\* A byte of the text has an access point.
LEMMA PointsCover ==
    ASSUME BuilderInv, phase = "done", file.size # 0, NEW p \in Nat, p < TextOnDisk
    PROVE  \E a \in accessPoints : a.start <= p /\ p <= a.end
<1>1. TextOnDisk \in Nat /\ z.pos = TextOnDisk
  BY TableIs DEF BuilderInv
<1>2. \A q \in 0 .. (z.pos - 1) : \E a \in accessPoints : Holds(a, q)
  BY DEF BuilderInv, RowsInv, IInv, Tiles, Covered, Writing
<1>3. p \in 0 .. (z.pos - 1)
  BY <1>1
<1> QED
  BY <1>2, <1>3 DEF Holds

LEMMA ReadWhenDone ==
    ASSUME ReaderInv, answer.kind # "none"
    PROVE  phase = "done"
BY DEF ReaderInv, Reader!ReaderInit, Reader!NoAnswer

LEMMA FoundFollows ==
    ASSUME BuilderInv, ReaderInv, file.size # 0
    PROVE  FoundIffKept
<1> SUFFICES ASSUME answer.kind = "absent", answer.row.line \in DOMAIN lineTable
             PROVE  FALSE
  BY DEF FoundIffKept
<1> DEFINE k == answer.row.line
<1>1. phase = "done" /\ Reader!Query(k) = {} /\ k \in DOMAIN lineTable
  BY ReadWhenDone DEF ReaderInv, Answered
<1> HIDE DEF k
<1>2. lineTable[k].offset \in Nat /\ lineTable[k].offset < TextOnDisk
  BY <1>1, RowsAre
<1>3. PICK a \in accessPoints : a.start <= lineTable[k].offset /\ lineTable[k].offset <= a.end
  BY <1>1, <1>2, PointsCover
<1>4. [line |-> k, offset |-> lineTable[k].offset, length |-> lineTable[k].length,
       point |-> a] \in Reader!Query(k)
  BY <1>1, <1>3 DEF Reader!Query, Reader!Covers
<1> QED
  BY <1>1, <1>4

\* The row of a delivered answer, among the lines the finder kept.
LEMMA DeliveredRow ==
    ASSUME BuilderInv, ReaderInv, answer.kind = "line"
    PROVE  LET k == answer.row.line
               from == answer.row.offset
               to == from + answer.row.length
           IN  /\ phase = "done" /\ file.size # 0 /\ IsFile(file)
               /\ k \in Nat \ {0} /\ k \in 1 .. Chunks!Kept
               /\ from \in Nat /\ answer.row.length \in Nat \ {0}
               /\ from = lineOffsets[k] /\ to = Chunks!NextOffset(k)
               /\ from < TextOnDisk /\ to <= TextOnDisk
               /\ TextOnDisk \in Nat /\ TextLength(file) \in Nat
               /\ TextOnDisk <= TextLength(file)
               /\ answer.content = Slice(from, to - 1)
<1> DEFINE k == answer.row.line
<1>1. phase = "done" /\ Found(answer.row)
      /\ answer.row.offset + answer.row.length <= TextOnDisk
      /\ answer.content = Slice(answer.row.offset,
                                answer.row.offset + answer.row.length - 1)
  BY ReadWhenDone DEF ReaderInv, Answered
<1>2. /\ k \in Nat \ {0} /\ answer.row.offset \in Nat /\ answer.row.length \in Nat \ {0}
      /\ answer.row.offset < TextOnDisk /\ file.size # 0 /\ TextOnDisk \in Nat
  BY <1>1, FoundIs
<1>3. IsFile(file)
  BY <1>1, PointsUsable
<1>4. TextLength(file) \in Nat /\ TextOnDisk <= TextLength(file)
  BY <1>3, OnDiskIs, TextLengthIs
<1>5. /\ k \in DOMAIN lineTable /\ answer.row.offset = lineTable[k].offset
      /\ answer.row.length = lineTable[k].length
  BY <1>1 DEF Found
<1>6. DOMAIN lineTable = 1 .. Chunks!Kept
  BY <1>1, <1>2, TableIs DEF BuilderInv
<1> HIDE DEF k
<1>7. /\ lineTable[k].offset = lineOffsets[k]
      /\ lineTable[k].offset + lineTable[k].length = Chunks!NextOffset(k)
  BY <1>1, <1>2, <1>5, RowsAre
<1> QED
  BY <1>1, <1>2, <1>3, <1>4, <1>5, <1>6, <1>7 DEF k

\* A line that ends before the text on disk does ends at a newline of the file.
LEMMA EndsAtNewline ==
    ASSUME IsFile(file), NEW from \in Nat, NEW end \in from .. TextLength(file),
           end < TextOnDisk, Chunks!IsLineEnd(NewlinesOnDisk, TextOnDisk, from, end)
    PROVE  IsLineEnd(file.newlines, TextLength(file), from, end)
<1>1. TextOnDisk \in Nat /\ TextLength(file) \in Nat /\ TextOnDisk <= TextLength(file)
  BY OnDiskIs, TextLengthIs
<1>2. end \in from .. TextOnDisk /\ end # TextOnDisk
  BY <1>1
<1>3. IsLineEnd(file.newlines, TextOnDisk, from, end)
  BY <1>2, EndsOnDisk
<1> QED
  BY <1>2, <1>3 DEF IsLineEnd

LEMMA KeyedFollows ==
    ASSUME BuilderInv, ReaderInv, file.size # 0
    PROVE  KeyedLineIsDelivered
<1> SUFFICES ASSUME NEW r \in keyRows, r.line = answer.row.line
             PROVE  /\ answer.kind # "absent"
                    /\ answer.kind = "line" =>
                          \E end \in r.start .. TextLength(file) :
                             /\ IsLineEnd(file.newlines, TextLength(file), r.start, end)
                             /\ SubSeq(answer.content, 1, end - r.start)
                                   = Slice(r.start, end)
  BY DEF KeyedLineIsDelivered
<1>1. phase = "done" => r.line \in 1 .. Chunks!Kept /\ lineOffsets[r.line] = r.start
  BY DEF BuilderInv, TextKept, RowsKept
<1>2. answer.kind # "absent"
  <2> SUFFICES ASSUME answer.kind = "absent" PROVE FALSE
    OBVIOUS
  <2>1. phase = "done"
    BY ReadWhenDone
  <2>2. DOMAIN lineTable = 1 .. Chunks!Kept
    BY <2>1, TableIs DEF BuilderInv
  <2> QED
    BY <1>1, <2>1, <2>2, FoundFollows DEF FoundIffKept
<1>3. ASSUME answer.kind = "line"
      PROVE  \E end \in r.start .. TextLength(file) :
                /\ IsLineEnd(file.newlines, TextLength(file), r.start, end)
                /\ SubSeq(answer.content, 1, end - r.start) = Slice(r.start, end)
  <2> DEFINE k == answer.row.line
             from == answer.row.offset
             to == from + answer.row.length
  <2>1. /\ phase = "done" /\ IsFile(file) /\ k \in 1 .. Chunks!Kept
        /\ from \in Nat /\ to \in Nat /\ from = lineOffsets[k] /\ to = Chunks!NextOffset(k)
        /\ to <= TextOnDisk /\ TextOnDisk \in Nat /\ TextLength(file) \in Nat
        /\ TextOnDisk <= TextLength(file)
        /\ answer.content = Slice(from, to - 1)
    BY <1>3, DeliveredRow
  <2>2. r.start = from
    BY <1>1, <2>1
  <2>3. Chunks!OffsetsInv
    BY <2>1 DEF BuilderInv, TextKept
  <2> HIDE DEF k, from, to
  <2>4. PICK end \in from .. TextOnDisk :
           /\ end < to /\ Chunks!IsLineEnd(NewlinesOnDisk, TextOnDisk, from, end)
    BY <2>1, <2>3 DEF Chunks!OffsetsInv, Chunks!KeptAreLines, Chunks!WholeLine
  <2>5. end \in from .. TextLength(file) /\ end < TextOnDisk /\ end \in Nat
    BY <2>1, <2>4
  <2>6. IsLineEnd(file.newlines, TextLength(file), from, end)
    BY <2>1, <2>4, <2>5, EndsAtNewline
  <2>7. SubSeq(Slice(from, to - 1), 1, end - from) = Slice(from, end)
    <3>1. end <= to - 1 /\ from <= end /\ from \in Nat /\ to - 1 \in Nat /\ end \in Nat
      BY <2>1, <2>4, <2>5
    <3> QED
      BY <3>1, SliceBegins
  <2> QED
    BY <2>1, <2>2, <2>5, <2>6, <2>7
<1> QED
  BY <1>2, <1>3

\* As many lines start up to the k-th line kept as there are lines kept before it.
LEMMA CountsStarts ==
    ASSUME BuilderInv, phase = "done", file.size # 0, saveAllLines,
           NEW k \in 1 .. Chunks!Kept
    PROVE  Cardinality({p \in 0 .. lineOffsets[k] :
                           IsLineStart(file.newlines, TextLength(file), p)}) = k
<1> DEFINE starts == {p \in 0 .. lineOffsets[k] :
                         IsLineStart(file.newlines, TextLength(file), p)}
           n == Chunks!Kept
           F == [j \in 1 .. k |-> lineOffsets[j]]
<1>1. /\ Chunks!OffsetsInv /\ n \in Nat /\ DOMAIN lineTable = 1 .. n
      /\ \A j \in 1 .. n : lineOffsets[j] \in Nat
      /\ TextOnDisk \in Nat /\ currentLineOffset \in Nat /\ TextOnDisk <= currentLineOffset
  BY TableIs DEF BuilderInv
<1>2. /\ \A j \in 1 .. n : Chunks!IsLineStart(NewlinesOnDisk, TextOnDisk, lineOffsets[j])
      /\ \A i, j \in 1 .. n : i < j => lineOffsets[i] < lineOffsets[j]
      /\ Chunks!AllSaved =>
            \A p \in 0 .. (currentLineOffset - 1) :
               Chunks!IsLineStart(NewlinesOnDisk, TextOnDisk, p)
                  => \E j \in 1 .. n : lineOffsets[j] = p
  BY <1>1 DEF Chunks!OffsetsInv, Chunks!KeptAreLines, Chunks!KeptInOrder,
     Chunks!NoLineMissing
<1>3. Chunks!AllSaved
  BY DEF BuilderInv, TextKept, RowsKept
<1>4. IsFile(file) /\ TextLength(file) \in Nat /\ TextOnDisk <= TextLength(file)
  BY PointsUsable, OnDiskIs, TextLengthIs
<1>5. lineOffsets[k] < TextOnDisk
  BY <1>1, RowsAre
<1> HIDE DEF n
<1>6. k \in Nat /\ k <= n /\ lineOffsets[k] \in Nat
  BY <1>1 DEF n
<1>7. \A p \in 0 .. lineOffsets[k] :
         IsLineStart(file.newlines, TextLength(file), p)
            <=> Chunks!IsLineStart(NewlinesOnDisk, TextOnDisk, p)
  <2> SUFFICES ASSUME NEW p \in 0 .. lineOffsets[k]
               PROVE  IsLineStart(file.newlines, TextLength(file), p)
                         <=> Chunks!IsLineStart(NewlinesOnDisk, TextOnDisk, p)
    OBVIOUS
  <2>1. p \in 0 .. (TextOnDisk - 1) /\ p \in 0 .. (TextLength(file) - 1)
    BY <1>1, <1>4, <1>5, <1>6
  <2>2. IsLineStart(file.newlines, TextLength(file), p)
           <=> IsLineStart(file.newlines, TextOnDisk, p)
    BY <2>1 DEF IsLineStart
  <2> QED
    BY <1>4, <2>2, StartsOnDisk
<1>8. F \in [1 .. k -> starts]
  <2> SUFFICES ASSUME NEW j \in 1 .. k
               PROVE  lineOffsets[j] \in starts
    OBVIOUS
  <2>1. j \in 1 .. n /\ k \in 1 .. n
    BY <1>1, <1>6
  <2>2. j = k \/ j < k
    BY <1>6
  <2>3. lineOffsets[j] \in 0 .. lineOffsets[k]
    BY <1>1, <1>2, <1>6, <2>1, <2>2 DEF n
  <2> QED
    BY <1>2, <1>7, <2>1, <2>3 DEF n
<1>9. ASSUME NEW i \in 1 .. k, NEW j \in 1 .. k, F[i] = F[j]
      PROVE  i = j
  <2>1. /\ i \in 1 .. n /\ j \in 1 .. n /\ i \in Nat /\ j \in Nat
        /\ lineOffsets[i] = lineOffsets[j]
    BY <1>1, <1>6, <1>9
  <2>2. lineOffsets[i] \in Nat
    BY <1>1, <2>1 DEF n
  <2>3. ~(i < j) /\ ~(j < i)
    BY <1>2, <2>1, <2>2 DEF n
  <2> QED
    BY <2>1, <2>3
<1>10. ASSUME NEW p \in starts
       PROVE  \E j \in 1 .. k : F[j] = p
  <2>1. p \in 0 .. lineOffsets[k] /\ p \in 0 .. (currentLineOffset - 1)
    BY <1>1, <1>5, <1>6
  <2>2. PICK j \in 1 .. n : lineOffsets[j] = p
    BY <1>2, <1>3, <1>7, <2>1 DEF n
  <2>3. j <= k
    <3> SUFFICES ASSUME ~(j <= k) PROVE FALSE
      OBVIOUS
    <3>1. k \in 1 .. n /\ k < j
      BY <1>1, <1>6
    <3>2. lineOffsets[k] < lineOffsets[j]
      BY <1>2, <3>1 DEF n
    <3> QED
      BY <1>6, <2>1, <2>2, <3>2
  <2>4. j \in 1 .. k
    BY <1>1, <1>6, <2>3
  <2> QED
    BY <2>2, <2>4
<1> HIDE DEF F, starts
<1>11. ExistsBijection(1 .. k, starts)
  BY <1>8, <1>9, <1>10 DEF ExistsBijection, Bijection, Injection, Surjection, IsInjective
<1>12. IsFiniteSet(1 .. k) /\ Cardinality(1 .. k) = k
  BY <1>6, FS_Interval
<1>13. Cardinality(starts) = Cardinality(1 .. k)
  BY <1>11, <1>12, FS_Bijection
<1> QED
  BY <1>12, <1>13 DEF starts

LEMMA NthFollows ==
    ASSUME BuilderInv, ReaderInv
    PROVE  NthLineOfFile
<1> SUFFICES ASSUME answer.kind = "line", saveAllLines
             PROVE  LET size == TextLength(file)
                        from == answer.row.offset
                    IN  /\ Cardinality({p \in 0 .. from :
                               IsLineStart(file.newlines, size, p)}) = answer.row.line
                        /\ \E end \in from .. size :
                              /\ IsLineEnd(file.newlines, size, from, end)
                              /\ answer.content = Slice(from, end)
  BY DEF NthLineOfFile
<1> DEFINE k == answer.row.line
           from == answer.row.offset
           to == from + answer.row.length
           end == to - 1
<1>1. /\ phase = "done" /\ IsFile(file) /\ k \in 1 .. Chunks!Kept /\ file.size # 0
      /\ from \in Nat /\ answer.row.length \in Nat \ {0}
      /\ from = lineOffsets[k] /\ to = Chunks!NextOffset(k)
      /\ to <= TextOnDisk /\ TextOnDisk \in Nat /\ TextLength(file) \in Nat
      /\ TextOnDisk <= TextLength(file)
      /\ answer.content = Slice(from, end)
  BY DeliveredRow
<1>2. Cardinality({p \in 0 .. from : IsLineStart(file.newlines, TextLength(file), p)}) = k
  <2> HIDE DEF k, from
  <2> QED
    BY <1>1, CountsStarts
<1>3. end \in from .. TextLength(file) /\ end < TextOnDisk
  <2>1. end \in Nat /\ from <= end /\ end < TextOnDisk
    BY <1>1
  <2> HIDE DEF end
  <2> QED
    BY <1>1, <2>1
<1>4. Chunks!OffsetsInv /\ Chunks!AllSaved
  BY <1>1 DEF BuilderInv, TextKept, RowsKept
<1>5. Chunks!IsLineEnd(NewlinesOnDisk, TextOnDisk, lineOffsets[k], Chunks!NextOffset(k) - 1)
  <2> HIDE DEF k
  <2> QED
    BY <1>1, <1>4 DEF Chunks!OffsetsInv, Chunks!NoLineMissing
<1>6. IsLineEnd(file.newlines, TextLength(file), from, end)
  <2>1. Chunks!IsLineEnd(NewlinesOnDisk, TextOnDisk, from, end)
    BY <1>1, <1>5
  <2> HIDE DEF from, end
  <2> QED
    BY <1>1, <1>3, <2>1, EndsAtNewline
<1> QED
  BY <1>1, <1>2, <1>3, <1>6

\* Line n of an index of every line is the n-th line of the file, whole.
THEOREM NthLine == ZSpec /\ []NoRowTooLong => []NthLineOfFile
BY NthFollows, ReaderInvariance, PTL

\* Every file has bytes, so its index has points: the line that an index of an empty
\* file has is not found.
LEMMA FilesHaveBytes ==
    ASSUME NoEmptyFile, BuilderInv
    PROVE  file.size # 0
BY DEF NoEmptyFile, BuilderInv, RowsInv, IInv, Types

\* A line that is in the table is found.
THEOREM FindsLines ==
    ASSUME NoEmptyFile
    PROVE  ZSpec /\ []NoRowTooLong => []FoundIffKept
<1>1. BuilderInv /\ ReaderInv => FoundIffKept
  BY FilesHaveBytes, FoundFollows
<1> QED
  BY <1>1, ReaderInvariance, PTL

\* The line stored with a key can be fetched, and begins with the line that held it.
THEOREM DeliversKeyed ==
    ASSUME NoEmptyFile
    PROVE  ZSpec /\ []NoRowTooLong => []KeyedLineIsDelivered
<1>1. BuilderInv /\ ReaderInv => KeyedLineIsDelivered
  BY FilesHaveBytes, KeyedFollows
<1> QED
  BY <1>1, ReaderInvariance, PTL
=============================================================================
