------------------------- MODULE IndexBuilderProofs -------------------------
(* The access points of an index, for every file, ring and input buffer:    *)
(* they can be decoded from, cover the text without gap or overlap, stay    *)
(* inside a member and are spaced as asked.                                 *)
EXTENDS IndexBuilder, TLAPS, WellFoundedInduction, FiniteSetTheorems

-----------------------------------------------------------------------------
(* What the builder relies on in a file's layout, and what one call of      *)
(* inflate() can do in each part of a member.                               *)

\* A set of numbers has a least one.  Induction over strict inclusion, applied to
\* the intervals that end in the set.
LEMMA LeastNumber ==
    ASSUME NEW T \in SUBSET Nat, T # {}
    PROVE  \E x \in T : \A y \in T : x <= y
<1> DEFINE F == {0 .. x : x \in T}
<1>1. IsWellFoundedOn(StrictSubsetOrdering(Nat), FiniteSubsetsOf(Nat))
  BY FS_StrictSubsetOrderingWellFounded
<1>2. F \subseteq FiniteSubsetsOf(Nat)
  <2>1. \A x \in T : IsFiniteSet(0 .. x)
    BY FS_Interval
  <2> QED
    BY <2>1 DEF FiniteSubsetsOf
<1>3. F # {}
  OBVIOUS
<1>4. PICK b \in F : \A c \in F : ~(<<c, b>> \in StrictSubsetOrdering(Nat))
  <2> HIDE DEF F
  <2> QED
    BY <1>1, <1>2, <1>3, WFMin
<1>5. PICK x \in T : b = 0 .. x
  OBVIOUS
<1>6. ASSUME NEW y \in T, y < x PROVE FALSE
  <2>1. <<0 .. y, 0 .. x>> \in StrictSubsetOrdering(Nat)
    <3>1. 0 .. y # 0 .. x
      BY <1>6
    <3>2. 0 .. y \subseteq 0 .. x
      BY <1>6
    <3>3. 0 .. y \in SUBSET Nat /\ 0 .. x \in SUBSET Nat
      OBVIOUS
    <3> QED
      BY <3>1, <3>2, <3>3 DEF StrictSubsetOrdering
  <2> QED
    BY <1>4, <1>5, <2>1
<1> QED
  BY <1>6

\* A bounded set of numbers has a greatest one: the least distance to the bound.
LEMMA GreatestNumber ==
    ASSUME NEW m \in Nat, NEW T \in SUBSET (0 .. m), T # {}
    PROVE  \E x \in T : \A y \in T : y <= x
<1> DEFINE D == {m - x : x \in T}
<1>1. D \in SUBSET Nat /\ D # {}
  <2>1. \A x \in T : m - x \in Nat
    OBVIOUS
  <2>2. D # {}
    OBVIOUS
  <2> QED
    BY <2>1, <2>2
<1>2. PICK d \in D : \A e \in D : d <= e
  <2> HIDE DEF D
  <2> QED
    BY <1>1, LeastNumber
<1>3. PICK x \in T : d = m - x
  OBVIOUS
<1>4. \A y \in T : m - x <= m - y
  BY <1>2, <1>3
<1> QED
  BY <1>3, <1>4

-----------------------------------------------------------------------------
(* The layout                                                               *)

LEMMA BlockType ==
    ASSUME NEW f, IsFile(f)
    PROVE  /\ Len(f.blocks) \in Nat \ {0}
           /\ DOMAIN f.blocks = 1 .. Len(f.blocks)
           /\ f.size \in Nat
           /\ \A k \in 1 .. Len(f.blocks) :
                 /\ f.blocks[k].from \in Nat /\ f.blocks[k].to \in Nat
                 /\ f.blocks[k].start \in Nat /\ f.blocks[k].end \in Nat
                 /\ f.blocks[k].tail \in Nat /\ f.blocks[k].closes \in BOOLEAN
                 /\ f.blocks[k].from <= f.blocks[k].to
                 /\ f.blocks[k].start < f.blocks[k].end
                 /\ CeilBytes(f.blocks[k].end) < f.blocks[k].tail
<1> DEFINE Block == [from : Nat, to : Nat, start : Nat, end : Nat,
                     closes : BOOLEAN, tail : Nat]
<1>1. f.blocks \in Seq(Block) /\ f.blocks # <<>> /\ f.size \in Nat
  BY DEF IsFile
<1>2. Len(f.blocks) \in Nat \ {0} /\ DOMAIN f.blocks = 1 .. Len(f.blocks)
  <2> HIDE DEF Block
  <2> QED
    BY <1>1
<1>3. ASSUME NEW k \in 1 .. Len(f.blocks)
      PROVE  f.blocks[k] \in Block
  <2> HIDE DEF Block
  <2> QED
    BY <1>1
<1>4. \A k \in DOMAIN f.blocks :
         /\ f.blocks[k].from <= f.blocks[k].to
         /\ f.blocks[k].start < f.blocks[k].end
         /\ CeilBytes(f.blocks[k].end) < f.blocks[k].tail
  BY DEF IsFile
<1> QED
  BY <1>1, <1>2, <1>3, <1>4

LEMMA BitsType ==
    ASSUME NEW t \in Nat
    PROVE  ByteBits * t \in Nat
BY DEF ByteBits

LEMMA BlocksFollow ==
    ASSUME NEW f, IsFile(f), NEW k \in 1 .. (Len(f.blocks) - 1)
    PROVE  /\ f.blocks[k + 1].from = f.blocks[k].to
           /\ f.blocks[k].closes =>
                 /\ ByteBits * f.blocks[k].tail < f.blocks[k + 1].start
                 /\ f.blocks[k + 1].start % ByteBits = 0
           /\ ~f.blocks[k].closes => f.blocks[k + 1].start = f.blocks[k].end
BY DEF IsFile, Follows

\* Blocks lie in the text in their order.
LEMMA BlocksInOrder ==
    ASSUME NEW f, IsFile(f), NEW j \in DOMAIN f.blocks, NEW k \in DOMAIN f.blocks, j < k
    PROVE  f.blocks[j].to <= f.blocks[k].from
<1> DEFINE T == {i \in (j + 1) .. Len(f.blocks) : ~(f.blocks[j].to <= f.blocks[i].from)}
<1>1. SUFFICES ASSUME T # {} PROVE FALSE
  BY BlockType
<1>2. T \in SUBSET Nat
  BY BlockType
<1>3. PICK i \in T : \A y \in T : i <= y
  <2> HIDE DEF T
  <2> QED
    BY <1>1, <1>2, LeastNumber
<1>4. /\ j \in 1 .. Len(f.blocks) /\ i \in (j + 1) .. Len(f.blocks)
      /\ ~(f.blocks[j].to <= f.blocks[i].from)
      /\ Len(f.blocks) \in Nat
  BY BlockType
<1>5. i - 1 \in 1 .. (Len(f.blocks) - 1) /\ i - 1 \in 1 .. Len(f.blocks)
  BY <1>4
<1>6. f.blocks[i].from = f.blocks[i - 1].to
  BY <1>4, <1>5, BlocksFollow
<1>7. f.blocks[i - 1].from <= f.blocks[i - 1].to
  BY <1>5, BlockType
<1>8. i - 1 # j
  BY <1>4, <1>5, <1>6, BlockType
<1>9. i - 1 \notin T
  BY <1>3, <1>4
<1>10. f.blocks[j].to <= f.blocks[i - 1].from
  BY <1>4, <1>5, <1>8, <1>9
<1>11. /\ f.blocks[j].to \in Nat
       /\ f.blocks[i - 1].from \in Nat /\ f.blocks[i - 1].to \in Nat
  BY <1>4, <1>5, BlockType
<1> DEFINE least == f.blocks[j].to
           from == f.blocks[i - 1].from
           to == f.blocks[i - 1].to
<1>12. /\ least \in Nat /\ from \in Nat /\ to \in Nat
       /\ least <= from /\ from <= to /\ ~(least <= to)
  BY <1>4, <1>6, <1>7, <1>10, <1>11
<1> HIDE DEF T, least, from, to
<1> QED
  BY <1>12

LEMMA CeilType ==
    ASSUME NEW a \in Nat
    PROVE  CeilBytes(a) \in Nat /\ ByteBits * CeilBytes(a) - a \in 0 .. (ByteBits - 1)
BY DEF CeilBytes, ByteBits

LEMMA CeilReaches ==
    ASSUME NEW a \in Nat
    PROVE  a <= ByteBits * CeilBytes(a)
BY DEF CeilBytes, ByteBits

LEMMA CeilMonotonic ==
    ASSUME NEW a \in Nat, NEW b \in Nat, a <= b
    PROVE  CeilBytes(a) <= CeilBytes(b)
BY DEF CeilBytes, ByteBits

\* Bits up to a byte's start are whole bytes.
LEMMA WholeBytes ==
    ASSUME NEW a \in Nat, a % ByteBits = 0
    PROVE  /\ a \div ByteBits \in Nat
           /\ ByteBits * (a \div ByteBits) = a
           /\ \A b \in Nat : a <= b => a \div ByteBits <= CeilBytes(b)
           /\ \A i \in Nat : ByteBits * i <= a => i <= a \div ByteBits
           /\ \A i \in Nat : a <= ByteBits * i => a \div ByteBits <= i
BY DEF CeilBytes, ByteBits

\* A member's trailer follows its data.
LEMMA TrailerReaches ==
    ASSUME NEW a \in Nat, NEW t \in Nat, CeilBytes(a) < t
    PROVE  a < ByteBits * t
BY DEF CeilBytes, ByteBits

\* A block's data lie before the next block's.
LEMMA DataFollows ==
    ASSUME NEW f, IsFile(f), NEW h \in 1 .. (Len(f.blocks) - 1)
    PROVE  f.blocks[h].end <= f.blocks[h + 1].start
<1> DEFINE e == f.blocks[h].end
           t == f.blocks[h].tail
           s == f.blocks[h + 1].start
<1>1. h \in 1 .. Len(f.blocks) /\ h + 1 \in 1 .. Len(f.blocks)
  BY BlockType
<1>2. e \in Nat /\ t \in Nat /\ s \in Nat /\ CeilBytes(e) < t
      /\ f.blocks[h].closes \in BOOLEAN
  BY <1>1, BlockType
<1>3. f.blocks[h].closes \/ e = s
  BY <1>2, BlocksFollow
<1>4. CASE f.blocks[h].closes
  <2>1. ByteBits * t < s
    BY <1>4, BlocksFollow
  <2> HIDE DEF e, t, s
  <2>2. e < ByteBits * t
    BY <1>2, TrailerReaches
  <2>3. e <= s
    BY <1>2, <2>1, <2>2 DEF ByteBits
  <2> QED
    BY <2>3 DEF e, s
<1>5. CASE e = s
  <2>1. e <= s
    BY <1>2, <1>5
  <2> QED
    BY <2>1
<1> QED
  BY <1>3, <1>4, <1>5

\* Blocks lie in the file in their order, and members with their trailers.
LEMMA DataInOrder ==
    ASSUME NEW f, IsFile(f), NEW j \in DOMAIN f.blocks, NEW k \in DOMAIN f.blocks, j < k
    PROVE  /\ f.blocks[j].end <= f.blocks[k].start
           /\ f.blocks[j].closes => ByteBits * f.blocks[j].tail < f.blocks[k].start
<1> DEFINE least == IF f.blocks[j].closes THEN ByteBits * f.blocks[j].tail + 1
                    ELSE f.blocks[j].end
           T == {i \in (j + 1) .. Len(f.blocks) : ~(least <= f.blocks[i].start)}
<1>1. /\ f.blocks[j].end \in Nat /\ f.blocks[j].tail \in Nat
      /\ f.blocks[j].closes \in BOOLEAN
      /\ CeilBytes(f.blocks[j].end) < f.blocks[j].tail
      /\ j \in 1 .. Len(f.blocks) /\ k \in (j + 1) .. Len(f.blocks)
      /\ Len(f.blocks) \in Nat
      /\ f.blocks[k].start \in Nat
  BY BlockType
<1>2. f.blocks[j].end < ByteBits * f.blocks[j].tail
  BY <1>1, TrailerReaches
<1>3. least \in Nat
  BY <1>1 DEF ByteBits
<1>4. SUFFICES least <= f.blocks[k].start
  <2>1. ByteBits * f.blocks[j].tail \in Nat
    BY <1>1, BitsType
  <2>2. CASE f.blocks[j].closes
    <3>1. least = ByteBits * f.blocks[j].tail + 1
      BY <2>2
    <3>2. f.blocks[j].end < least /\ ByteBits * f.blocks[j].tail < least
      BY <1>1, <1>2, <2>1, <3>1
    <3> DEFINE opening == f.blocks[k].start
               ending == f.blocks[j].end
               trailer == ByteBits * f.blocks[j].tail
    <3>3. /\ least \in Nat /\ opening \in Nat /\ ending \in Nat /\ trailer \in Nat
          /\ ending < least /\ trailer < least
      BY <1>1, <1>3, <2>1, <3>2
    <3> HIDE DEF least, opening, ending, trailer
    <3>4. least <= opening => ending <= opening /\ trailer < opening
      BY <3>3
    <3> QED
      BY <3>4 DEF opening, ending, trailer
  <2>3. CASE ~f.blocks[j].closes
    <3>1. least = f.blocks[j].end
      BY <2>3
    <3> HIDE DEF least
    <3> QED
      BY <2>3, <3>1
  <2> QED
    BY <2>2, <2>3
<1>5. SUFFICES ASSUME T # {} PROVE FALSE
  BY <1>1
<1>6. T \in SUBSET Nat
  BY <1>1
<1>7. PICK i \in T : \A y \in T : i <= y
  <2> HIDE DEF T
  <2> QED
    BY <1>5, <1>6, LeastNumber
<1>8. i \in (j + 1) .. Len(f.blocks) /\ ~(least <= f.blocks[i].start)
  OBVIOUS
<1> DEFINE h == i - 1
<1>9. h \in 1 .. (Len(f.blocks) - 1) /\ h \in 1 .. Len(f.blocks) /\ h + 1 = i
      /\ h \in j .. Len(f.blocks)
  BY <1>1, <1>8
<1>10. h \notin T
  BY <1>7, <1>8
<1> HIDE DEF h
<1>11. f.blocks[h].end <= f.blocks[i].start
  BY <1>9, DataFollows
<1>12. /\ f.blocks[h].start \in Nat /\ f.blocks[h].end \in Nat
       /\ f.blocks[i].start \in Nat /\ f.blocks[h].start < f.blocks[h].end
  BY <1>9, <1>8, <1>1, BlockType
<1>13. CASE h = j
  <2>1. f.blocks[j].closes => ByteBits * f.blocks[j].tail < f.blocks[i].start
    BY <1>9, <1>13, BlocksFollow
  <2>2. ByteBits * f.blocks[j].tail \in Nat
    BY <1>1, BitsType
  <2>3. CASE f.blocks[j].closes
    <3>1. least = ByteBits * f.blocks[j].tail + 1
      BY <2>3
    <3>2. ByteBits * f.blocks[j].tail < f.blocks[i].start
      BY <2>1, <2>3
    <3>3. least <= f.blocks[i].start
      BY <1>12, <2>2, <3>1, <3>2
    <3> HIDE DEF least
    <3> QED
      BY <1>8, <3>3
  <2>4. CASE ~f.blocks[j].closes
    <3>1. least = f.blocks[h].end
      BY <1>13, <2>4
    <3>2. least <= f.blocks[i].start
      BY <1>11, <3>1
    <3> HIDE DEF least
    <3> QED
      BY <1>8, <3>2
  <2> QED
    BY <2>3, <2>4
<1>14. CASE h # j
  <2>1. least <= f.blocks[h].start
    BY <1>1, <1>9, <1>10, <1>14
  <2>2. ~(least <= f.blocks[i].start)
    BY <1>8
  <2>3. f.blocks[h].start < f.blocks[i].start
    <3> DEFINE x == f.blocks[h].start
               e == f.blocks[h].end
               y == f.blocks[i].start
    <3>1. x \in Nat /\ e \in Nat /\ y \in Nat /\ x < e /\ e <= y
      BY <1>11, <1>12
    <3> HIDE DEF x, e, y
    <3>2. x < y
      BY <3>1
    <3> QED
      BY <3>2 DEF x, y
  <2> HIDE DEF least
  <2> QED
    BY <1>3, <1>12, <2>1, <2>2, <2>3
<1> QED
  BY <1>13, <1>14

\* No two blocks start at one bit.
LEMMA StartsDiffer ==
    ASSUME NEW f, IsFile(f), NEW j \in DOMAIN f.blocks, NEW k \in DOMAIN f.blocks,
           f.blocks[j].start = f.blocks[k].start
    PROVE  j = k
<1>1. /\ j \in Nat /\ k \in Nat
      /\ f.blocks[j].start \in Nat /\ f.blocks[j].end \in Nat /\ f.blocks[k].end \in Nat
      /\ f.blocks[j].start < f.blocks[j].end /\ f.blocks[k].start < f.blocks[k].end
  BY BlockType
<1>2. ~(j < k)
  BY <1>1, DataInOrder
<1>3. ~(k < j)
  BY <1>1, DataInOrder
<1> QED
  BY <1>1, <1>2, <1>3

\* The block that closes a block's member.
LEMMA ClosingIs ==
    ASSUME NEW f, IsFile(f), NEW k \in DOMAIN f.blocks
    PROVE  /\ Closing(f, k) \in k .. Len(f.blocks)
           /\ Closing(f, k) \in DOMAIN f.blocks
           /\ f.blocks[Closing(f, k)].closes
           /\ \A j \in k .. (Closing(f, k) - 1) : ~f.blocks[j].closes
<1> DEFINE n == Len(f.blocks)
           T == {c \in k .. n : f.blocks[c].closes}
<1>1. n \in Nat \ {0} /\ DOMAIN f.blocks = 1 .. n /\ k \in 1 .. n
  BY BlockType
<1>2. n \in T
  BY <1>1 DEF IsFile
<1>3. T \in SUBSET Nat
  BY <1>1
<1>4. PICK c \in T : \A y \in T : c <= y
  <2> HIDE DEF T
  <2> QED
    BY <1>2, <1>3, LeastNumber
<1>5. \E c1 \in k .. n : /\ f.blocks[c1].closes
                         /\ \A j \in k .. (c1 - 1) : ~f.blocks[j].closes
  <2>1. c \in k .. n /\ f.blocks[c].closes
    BY <1>4
  <2>2. ASSUME NEW j \in k .. (c - 1), f.blocks[j].closes PROVE FALSE
    <3>1. j \in T
      BY <1>1, <2>1, <2>2
    <3> HIDE DEF T
    <3>2. c <= j
      BY <1>4, <3>1
    <3> QED
      BY <1>1, <2>1, <3>2
  <2> QED
    BY <2>1, <2>2
<1>6. /\ Closing(f, k) \in k .. n
      /\ f.blocks[Closing(f, k)].closes
      /\ \A j \in k .. (Closing(f, k) - 1) : ~f.blocks[j].closes
  BY <1>5 DEF Closing
<1> QED
  BY <1>1, <1>6

\* The text ends with its last block.
LEMMA TextLengthIs ==
    ASSUME NEW f, IsFile(f)
    PROVE  /\ TextLength(f) = f.blocks[Len(f.blocks)].to
           /\ TextLength(f) \in Nat
           /\ \A k \in 1 .. Len(f.blocks) : f.blocks[k].to <= TextLength(f)
<1>1. TextLength(f) = f.blocks[Len(f.blocks)].to
  BY DEF TextLength, IsFile
<1>2. ASSUME NEW k \in 1 .. Len(f.blocks)
      PROVE  f.blocks[k].to <= f.blocks[Len(f.blocks)].to
  <2>1. CASE k = Len(f.blocks)
    BY <2>1, BlockType
  <2>2. CASE k < Len(f.blocks)
    <3>1. f.blocks[k].to <= f.blocks[Len(f.blocks)].from
      BY <2>2, BlockType, BlocksInOrder
    <3>2. f.blocks[Len(f.blocks)].from <= f.blocks[Len(f.blocks)].to
      BY BlockType
    <3> QED
      BY <3>1, <3>2, BlockType
  <2> QED
    BY <2>1, <2>2, BlockType
<1> QED
  BY <1>1, <1>2, BlockType

\* A member starts in the text no later than any of its blocks.
LEMMA MemberStartBound ==
    ASSUME NEW f, IsFile(f), NEW k \in DOMAIN f.blocks
    PROVE  MemberStart(f, k) \in 0 .. f.blocks[k].from
<1> DEFINE opens == {j \in 1 .. k : j = 1 \/ f.blocks[j - 1].closes}
           opener == CHOOSE j \in opens : \A i \in opens : i <= j
<1>1. k \in 1 .. Len(f.blocks) /\ Len(f.blocks) \in Nat
  BY BlockType
<1>2. opens \in SUBSET (0 .. k) /\ opens # {}
  <2>1. 1 \in opens
    BY <1>1
  <2> QED
    BY <1>1, <2>1
<1>3. \E j \in opens : \A i \in opens : i <= j
  <2>1. k \in Nat
    BY <1>1
  <2> HIDE DEF opens
  <2> QED
    BY <1>2, <2>1, GreatestNumber
<1>4. opener \in opens
  <2> HIDE DEF opens
  <2> QED
    BY <1>3
<1>5. opener \in 1 .. k
  BY <1>4
<1> HIDE DEF opener
<1>6. f.blocks[opener].from <= f.blocks[k].from
  <2>1. CASE opener = k
    BY <1>1, <2>1, BlockType
  <2>2. CASE opener # k
    <3>1. opener \in DOMAIN f.blocks /\ opener < k
      BY <1>1, <1>5, <2>2, BlockType
    <3>2. f.blocks[opener].to <= f.blocks[k].from
      BY <3>1, BlocksInOrder
    <3>3. f.blocks[opener].from <= f.blocks[opener].to
      BY <3>1, BlockType
    <3>4. /\ f.blocks[opener].from \in Nat /\ f.blocks[opener].to \in Nat
          /\ f.blocks[k].from \in Nat
      BY <1>1, <3>1, BlockType
    <3> HIDE DEF opens
    <3> QED
      BY <3>2, <3>3, <3>4
  <2> QED
    BY <2>1, <2>2
<1>7. MemberStart(f, k) = f.blocks[opener].from
  BY DEF MemberStart, opener
<1> QED
  BY <1>1, <1>5, <1>6, <1>7, BlockType

-----------------------------------------------------------------------------
(* The decoder                                                              *)

\* Where the text before block k ends.
Before(f, k) == IF k = 1 THEN 0 ELSE f.blocks[k - 1].to

\* A decoder by its parts.
At(block, part, pos) == [block |-> block, part |-> part, pos |-> pos]

Decoder == [block : Nat, part : {"header", "body", "trailer"}, pos : Nat]

LEMMA DecoderType ==
    ASSUME NEW dec \in Decoder
    PROVE  /\ dec.block \in Nat /\ dec.pos \in Nat
           /\ dec.part \in {"header", "body", "trailer"}
BY DEF Decoder

LEMMA AtParts ==
    ASSUME NEW k, NEW part, NEW pos
    PROVE  /\ At(k, part, pos).block = k /\ At(k, part, pos).part = part
           /\ At(k, part, pos).pos = pos
           /\ (/\ k \in Nat /\ pos \in Nat
               /\ part \in {"header", "body", "trailer"}) => At(k, part, pos) \in Decoder
BY DEF Decoder, At

\* The decoder dec, which has read the file up to byte `in`, is where such a decoder
\* can be: it has given the text up to dec.pos and has read all of the part before the
\* one it is in and no more than this one needs.
Placed(f, dec, in) ==
    /\ dec \in Decoder /\ dec.block \in 1 .. (Len(f.blocks) + 1)
    /\ in \in 0 .. f.size
    /\ dec.part = "header" =>
          /\ dec.pos = Before(f, dec.block)
          /\ dec.block # 1 => /\ f.blocks[dec.block - 1].closes
                            /\ f.blocks[dec.block - 1].tail <= in
          /\ IF dec.block = Len(f.blocks) + 1 THEN in = f.size
             ELSE ByteBits * in < f.blocks[dec.block].start
    /\ dec.part = "body" =>
          /\ dec.block # Len(f.blocks) + 1
          /\ f.blocks[dec.block].from <= dec.pos /\ dec.pos <= f.blocks[dec.block].to
          /\ f.blocks[dec.block].start <= ByteBits * in
          /\ in <= CeilBytes(f.blocks[dec.block].end)
    /\ dec.part = "trailer" =>
          /\ dec.block # Len(f.blocks) + 1
          /\ f.blocks[dec.block].closes
          /\ dec.pos = f.blocks[dec.block].to
          /\ f.blocks[dec.block].end <= ByteBits * in
          /\ in < f.blocks[dec.block].tail

LEMMA BeforeIs ==
    ASSUME NEW f, IsFile(f), NEW k \in 1 .. (Len(f.blocks) + 1)
    PROVE  /\ Before(f, k) \in Nat
           /\ Before(f, k) <= TextLength(f)
           /\ k <= Len(f.blocks) => f.blocks[k].from = Before(f, k)
           /\ \A j \in 1 .. Len(f.blocks) : j < k => f.blocks[j].to <= Before(f, k)
           /\ \A j \in 1 .. Len(f.blocks) : k <= j => Before(f, k) <= f.blocks[j].from
<1> DEFINE n == Len(f.blocks)
<1>1. n \in Nat \ {0} /\ DOMAIN f.blocks = 1 .. n
  BY BlockType
<1>2. CASE k = 1
  <2>1. Before(f, k) = 0 /\ f.blocks[1].from = 0
    BY <1>2 DEF Before, IsFile
  <2> QED
    BY <1>1, <1>2, <2>1, BlockType, TextLengthIs
<1>3. CASE k # 1
  <2>1. k - 1 \in 1 .. n /\ Before(f, k) = f.blocks[k - 1].to
    BY <1>1, <1>3 DEF Before
  <2>2. Before(f, k) \in Nat /\ Before(f, k) <= TextLength(f)
    BY <2>1, BlockType, TextLengthIs
  <2>3. k <= n => f.blocks[k].from = Before(f, k)
    <3>1. HAVE k <= n
    <3>2. k - 1 \in 1 .. (n - 1) /\ (k - 1) + 1 = k
      BY <1>1, <2>1, <3>1
    <3> QED
      BY <2>1, <3>2, BlocksFollow
  <2>4. ASSUME NEW j \in 1 .. n, j < k
        PROVE  f.blocks[j].to <= Before(f, k)
    <3>1. CASE j = k - 1
      BY <2>1, <2>2, <3>1
    <3>2. CASE j < k - 1
      <4>1. f.blocks[j].to <= f.blocks[k - 1].from
        BY <1>1, <2>1, <3>2, BlocksInOrder
      <4>2. /\ f.blocks[j].to \in Nat /\ f.blocks[k - 1].from \in Nat
            /\ f.blocks[k - 1].to \in Nat
            /\ f.blocks[k - 1].from <= f.blocks[k - 1].to
        BY <2>1, BlockType
      <4> QED
        BY <2>1, <4>1, <4>2
    <3> QED
      BY <1>1, <2>4, <3>1, <3>2
  <2>5. ASSUME NEW j \in 1 .. n, k <= j
        PROVE  Before(f, k) <= f.blocks[j].from
    <3>1. k - 1 < j
      BY <1>1, <2>5
    <3> QED
      BY <1>1, <2>1, <3>1, BlocksInOrder
  <2> QED
    BY <2>2, <2>3, <2>4, <2>5
<1> QED
  BY <1>2, <1>3

\* A placed decoder has read the text up to a place between the blocks before its
\* own and those after it.
LEMMA PlacedBetween ==
    ASSUME NEW f, IsFile(f), NEW dec, NEW in, Placed(f, dec, in)
    PROVE  /\ dec.block \in 1 .. (Len(f.blocks) + 1) /\ dec.pos \in Nat
           /\ dec.pos <= TextLength(f)
           /\ \A j \in 1 .. Len(f.blocks) :
                 /\ j < dec.block => f.blocks[j].to <= dec.pos
                 /\ j > dec.block => dec.pos <= f.blocks[j].from
                 /\ j >= dec.block => dec.pos <= f.blocks[j].to
<1> DEFINE n == Len(f.blocks)
<1>1. n \in Nat \ {0} /\ dec.block \in 1 .. (n + 1) /\ dec.pos \in Nat
  BY BlockType, DecoderType DEF Placed
<1>2. CASE dec.part = "header"
  <2>1. dec.pos = Before(f, dec.block)
    BY <1>2 DEF Placed
  <2>2. ASSUME NEW j \in 1 .. n, j >= dec.block
        PROVE  /\ dec.pos <= f.blocks[j].from /\ dec.pos <= f.blocks[j].to
    <3>1. dec.pos <= f.blocks[j].from
      BY <1>1, <2>1, <2>2, BeforeIs
    <3> QED
      BY <1>1, <3>1, BlockType
  <2>3. ASSUME NEW j \in 1 .. n, j < dec.block
        PROVE  f.blocks[j].to <= dec.pos
    BY <1>1, <2>1, <2>3, BeforeIs
  <2> QED
    BY <1>1, <2>1, <2>2, <2>3, BeforeIs
<1>3. CASE dec.part # "header"
  <2>1. /\ dec.block \in 1 .. n
        /\ f.blocks[dec.block].from <= dec.pos /\ dec.pos <= f.blocks[dec.block].to
    <3>1. dec.part = "body" \/ dec.part = "trailer"
      BY <1>3, DecoderType DEF Placed
    <3>2. dec.block # n + 1
      BY <3>1 DEF Placed
    <3>3. dec.block \in 1 .. n
      BY <1>1, <3>2
    <3> QED
      BY <3>1, <3>3, BlockType, DecoderType DEF Placed
  <2>2. ASSUME NEW j \in 1 .. n, j < dec.block
        PROVE  f.blocks[j].to <= dec.pos
    <3>1. f.blocks[j].to <= f.blocks[dec.block].from
      BY <1>1, <2>1, <2>2, BlocksInOrder
    <3>2. f.blocks[j].to \in Nat /\ f.blocks[dec.block].from \in Nat
      BY <2>1, BlockType
    <3> DEFINE x == f.blocks[j].to
               y == f.blocks[dec.block].from
    <3>3. x \in Nat /\ y \in Nat /\ x <= y /\ y <= dec.pos /\ dec.pos \in Nat
      BY <1>1, <2>1, <3>1, <3>2
    <3> HIDE DEF x, y, n
    <3>4. x <= dec.pos
      BY <3>3
    <3> QED
      BY <3>4 DEF x
  <2>3. ASSUME NEW j \in 1 .. n, j > dec.block
        PROVE  dec.pos <= f.blocks[j].from /\ dec.pos <= f.blocks[j].to
    <3>1. f.blocks[dec.block].to <= f.blocks[j].from
      BY <1>1, <2>1, <2>3, BlocksInOrder
    <3>2. /\ f.blocks[j].from \in Nat /\ f.blocks[j].to \in Nat
          /\ f.blocks[dec.block].to \in Nat /\ f.blocks[j].from <= f.blocks[j].to
      BY <2>1, BlockType
    <3>3. dec.pos \in Nat /\ dec.pos <= f.blocks[dec.block].to
      BY <1>1, <2>1
    <3> QED
      BY <3>1, <3>2, <3>3
  <2>4. dec.pos <= TextLength(f)
    BY <1>1, <2>1, TextLengthIs, BlockType
  <2> QED
    BY <1>1, <2>1, <2>2, <2>3, <2>4
<1> QED
  BY <1>2, <1>3

\* How a decoder is recognised after an EXCEPT.
Only(block, part, pos) == [block : {block}, part : {part}, pos : {pos}]

LEMMA OnlyIsAt ==
    ASSUME NEW k, NEW part, NEW pos, NEW dec \in Only(k, part, pos)
    PROVE  dec = At(k, part, pos)
BY DEF Only, At

\* The three parts of Placed, for a decoder given by its parts.
LEMMA PlacedInHeader ==
    ASSUME NEW f, NEW k \in 1 .. (Len(f.blocks) + 1), k \in Nat,
           NEW pos \in Nat, NEW in \in 0 .. f.size,
           pos = Before(f, k),
           k # 1 => f.blocks[k - 1].closes /\ f.blocks[k - 1].tail <= in,
           IF k = Len(f.blocks) + 1 THEN in = f.size
           ELSE ByteBits * in < f.blocks[k].start
    PROVE  Placed(f, At(k, "header", pos), in)
<1> DEFINE dec == At(k, "header", pos)
<1>1. dec.block = k /\ dec.part = "header" /\ dec.pos = pos /\ dec \in Decoder
  BY AtParts
<1> HIDE DEF dec
<1>2. dec.part # "body" /\ dec.part # "trailer"
  BY <1>1
<1>3. Placed(f, dec, in)
  BY <1>1, <1>2 DEF Placed
<1> QED
  BY <1>3 DEF dec

LEMMA PlacedInBody ==
    ASSUME NEW f, NEW k \in 1 .. (Len(f.blocks) + 1), k \in Nat,
           NEW pos \in Nat, NEW in \in 0 .. f.size,
           k # Len(f.blocks) + 1,
           f.blocks[k].from <= pos, pos <= f.blocks[k].to,
           f.blocks[k].start <= ByteBits * in, in <= CeilBytes(f.blocks[k].end)
    PROVE  Placed(f, At(k, "body", pos), in)
<1> DEFINE dec == At(k, "body", pos)
<1>1. dec.block = k /\ dec.part = "body" /\ dec.pos = pos /\ dec \in Decoder
  BY AtParts
<1> HIDE DEF dec
<1>2. dec.part # "header" /\ dec.part # "trailer"
  BY <1>1
<1>3. Placed(f, dec, in)
  BY <1>1, <1>2 DEF Placed
<1> QED
  BY <1>3 DEF dec

LEMMA PlacedInTrailer ==
    ASSUME NEW f, NEW k \in 1 .. (Len(f.blocks) + 1), k \in Nat,
           NEW pos \in Nat, NEW in \in 0 .. f.size,
           k # Len(f.blocks) + 1,
           f.blocks[k].closes, pos = f.blocks[k].to,
           f.blocks[k].end <= ByteBits * in, in < f.blocks[k].tail
    PROVE  Placed(f, At(k, "trailer", pos), in)
<1> DEFINE dec == At(k, "trailer", pos)
<1>1. dec.block = k /\ dec.part = "trailer" /\ dec.pos = pos /\ dec \in Decoder
  BY AtParts
<1> HIDE DEF dec
<1>2. dec.part # "header" /\ dec.part # "body"
  BY <1>1
<1>3. Placed(f, dec, in)
  BY <1>1, <1>2 DEF Placed
<1> QED
  BY <1>3 DEF dec

LEMMA SmallerIs ==
    ASSUME NEW a \in Int, NEW b \in Int
    PROVE  /\ Smaller(a, b) \in Int /\ Smaller(a, b) <= a /\ Smaller(a, b) <= b
           /\ Smaller(a, b) = a \/ Smaller(a, b) = b
BY DEF Smaller

(* What an outcome o of inflate() can be, called with input up to byte      *)
(* `limit`.                                                                 *)

EntersBody(f, dec, o) ==
    /\ dec.part = "header" /\ o.ret = "ok" /\ o.boundary = TRUE /\ o.lastBlock = FALSE
    /\ o.z = At(dec.block, "body", dec.pos)
    /\ ByteBits * o.in = f.blocks[dec.block].start

Waits(f, dec, limit, o) ==
    /\ dec.part # "body" /\ o.ret = "ok" /\ o.boundary = FALSE
    /\ o.z = dec
    /\ o.in = limit
    /\ IF dec.part = "header" THEN ByteBits * limit < f.blocks[dec.block].start
       ELSE limit < f.blocks[dec.block].tail

Produces(f, dec, o) ==
    /\ dec.part = "body" /\ o.ret = "ok" /\ o.boundary = FALSE
    /\ \E p \in dec.pos .. f.blocks[dec.block].to : o.z = At(dec.block, "body", p)
    /\ o.in <= CeilBytes(f.blocks[dec.block].end)

LeavesBlock(f, dec, o) ==
    /\ dec.part = "body" /\ o.ret = "ok" /\ o.boundary = TRUE /\ o.lastBlock = FALSE
    /\ ~f.blocks[dec.block].closes
    /\ o.z = At(dec.block + 1, "body", f.blocks[dec.block].to)
    /\ o.in = CeilBytes(f.blocks[dec.block].end)

LeavesData(f, dec, o) ==
    /\ dec.part = "body" /\ o.ret = "ok" /\ o.boundary = TRUE /\ o.lastBlock = TRUE
    /\ f.blocks[dec.block].closes
    /\ o.z = At(dec.block, "trailer", f.blocks[dec.block].to)
    /\ o.in = CeilBytes(f.blocks[dec.block].end)

EndsMember(f, dec, o) ==
    /\ dec.part = "trailer" /\ o.ret = "end"
    /\ o.z = At(dec.block + 1, "header", dec.pos)
    /\ o.in = f.blocks[dec.block].tail

\* The outcome stays inside the input and the room it was given.
Within(dec, in, limit, room, o) ==
    o.in \in in .. limit /\ o.z.pos \in dec.pos .. (dec.pos + room)

LEMMA Outcomes ==
    ASSUME NEW f, IsFile(f), NEW dec, NEW in, Placed(f, dec, in),
           NEW limit \in Nat, in < limit, limit <= f.size, NEW room \in Nat,
           NEW o \in InflateToBlock(f, dec, in, limit, room)
    PROVE  /\ dec.block \in 1 .. Len(f.blocks)
           /\ \/ o.ret = "error"
              \/ /\ Within(dec, in, limit, room, o)
                 /\ \/ EntersBody(f, dec, o)
                    \/ Waits(f, dec, limit, o)
                    \/ Produces(f, dec, o)
                    \/ LeavesBlock(f, dec, o)
                    \/ LeavesData(f, dec, o)
                    \/ EndsMember(f, dec, o)
<1> DEFINE n == Len(f.blocks)
           b == f.blocks[dec.block]
<1>1. /\ dec \in Decoder /\ dec.block \in 1 .. (n + 1)
      /\ in \in Nat /\ f.size \in Nat /\ n \in Nat \ {0}
  BY BlockType, DecoderType, AtParts DEF Placed
<1>2. dec.block \in 1 .. n /\ dec.block \in Nat /\ dec.pos \in Nat
  <2>1. dec.block # n + 1
    BY <1>1, DecoderType DEF Placed
  <2> QED
    BY <1>1, <2>1, DecoderType, AtParts
<1>3. /\ b.from \in Nat /\ b.to \in Nat /\ b.start \in Nat /\ b.end \in Nat
      /\ b.tail \in Nat /\ b.closes \in BOOLEAN /\ b.from <= b.to /\ b.start < b.end
      /\ CeilBytes(b.end) \in Nat
  BY <1>2, BlockType, CeilType
<1>4. CASE dec.part = "header"
  <2>1. o \in InHeader(f, dec, limit)
    BY <1>4 DEF InflateToBlock
  <2>2. CASE ByteBits * limit >= b.start
    <3>1. o = Outcome("ok", [dec EXCEPT !.part = "body"], b.start \div ByteBits, TRUE, FALSE)
      BY <2>1, <2>2 DEF InHeader
    <3>2. b.start % ByteBits = 0
      <4>1. CASE dec.block = 1
        BY <4>1 DEF IsFile
      <4>2. CASE dec.block # 1
        <5>1. dec.block - 1 \in 1 .. (n - 1) /\ (dec.block - 1) + 1 = dec.block
          BY <1>1, <1>2, <4>2
        <5>2. f.blocks[dec.block - 1].closes
          BY <1>4, <4>2 DEF Placed
        <5>3. f.blocks[(dec.block - 1) + 1].start % ByteBits = 0
          BY <5>1, <5>2, BlocksFollow
        <5> QED
          BY <5>1, <5>3
      <4> QED
        BY <4>1, <4>2
    <3>3. /\ b.start \div ByteBits \in Nat
          /\ ByteBits * (b.start \div ByteBits) = b.start
      BY <1>3, <3>2, WholeBytes
    <3>4. [dec EXCEPT !.part = "body"]
             = At(dec.block, "body", dec.pos)
      <4>1. [dec EXCEPT !.part = "body"]
               \in Only(dec.block, "body", dec.pos)
        BY <1>1 DEF Decoder, Only
      <4> HIDE DEF n, b
      <4> QED
        BY <4>1, OnlyIsAt
    <3>5. EntersBody(f, dec, o)
      BY <1>4, <3>1, <3>3, <3>4 DEF EntersBody, Outcome
    <3>6. in <= b.start \div ByteBits /\ b.start \div ByteBits <= limit
      <4>1. ByteBits * in < b.start
        BY <1>1, <1>2, <1>4 DEF Placed
      <4> HIDE DEF b
      <4>2. ByteBits * in <= b.start
        BY <1>1, <1>3, <4>1 DEF ByteBits
      <4> QED
        BY <1>1, <1>3, <2>2, <3>2, <4>2, WholeBytes
    <3>7. Within(dec, in, limit, room, o)
      <4>1. o.in = b.start \div ByteBits /\ o.z.pos = dec.pos
        BY <3>1, <3>4, DecoderType, AtParts DEF Outcome
      <4> QED
        BY <1>1, <1>2, <3>3, <3>6, <4>1 DEF Within
    <3> QED
      BY <1>2, <3>5, <3>7
  <2>3. CASE ~(ByteBits * limit >= b.start)
    <3>1. o = Outcome("ok", dec, limit, FALSE, FALSE)
      BY <2>1, <2>3 DEF InHeader
    <3>2. ByteBits * limit < b.start
      BY <1>3, <2>3 DEF ByteBits
    <3> QED
      BY <1>1, <1>2, <1>4, <3>1, <3>2 DEF Waits, Within, Outcome
  <2> QED
    BY <2>2, <2>3
<1>5. CASE dec.part = "body"
  <2> DEFINE end == CeilBytes(b.end)
  <2>1. o \in InBody(f, dec, in, limit, room)
    BY <1>5 DEF InflateToBlock
  <2>2. /\ b.from <= dec.pos /\ dec.pos <= b.to /\ in <= end
    BY <1>2, <1>5 DEF Placed
  <2>3. CASE dec.block \in f.corrupt
    <3>1. o = Outcome("error", dec, in, FALSE, FALSE)
      BY <2>1, <2>3 DEF InBody
    <3> QED
      BY <1>2, <3>1 DEF Outcome
  <2>4. CASE dec.block \notin f.corrupt /\ limit >= end /\ b.to - dec.pos <= room
    <3>1. CASE b.closes
      <4>1. [dec EXCEPT !.part = "trailer", !.pos = b.to]
               = At(dec.block, "trailer", b.to)
        <5>1. [dec EXCEPT !.part = "trailer", !.pos = b.to]
                 \in Only(dec.block, "trailer", b.to)
          BY <1>1 DEF Decoder, Only
        <5> HIDE DEF n, b
        <5> QED
          BY <5>1, OnlyIsAt
      <4>2. o = Outcome("ok", At(dec.block, "trailer", b.to), end, TRUE, TRUE)
        BY <2>1, <2>4, <3>1, <4>1 DEF InBody
      <4>3. o.in = end /\ o.z.pos = b.to
        BY <4>2, DecoderType, AtParts DEF Outcome
      <4>4. Within(dec, in, limit, room, o)
        <5>1. /\ dec.pos \in Nat /\ b.to \in Nat /\ end \in Nat
              /\ dec.pos <= b.to /\ b.to - dec.pos <= room /\ in <= end /\ end <= limit
          BY <1>2, <1>3, <2>2, <2>4
        <5> HIDE DEF b, end
        <5>2. b.to \in dec.pos .. (dec.pos + room) /\ end \in in .. limit
          BY <1>1, <5>1
        <5> QED
          BY <4>3, <5>2 DEF Within
      <4> QED
        BY <1>2, <1>5, <3>1, <4>2, <4>4 DEF LeavesData, Outcome
    <3>2. CASE ~b.closes
      <4>1. [dec EXCEPT !.block = dec.block + 1, !.pos = b.to]
               = At(dec.block + 1, "body", b.to)
        <5>1. [dec EXCEPT !.block = dec.block + 1, !.pos = b.to]
                 \in Only(dec.block + 1, "body", b.to)
          BY <1>1, <1>5 DEF Decoder, Only
        <5> HIDE DEF n, b
        <5> QED
          BY <5>1, OnlyIsAt
      <4>2. o = Outcome("ok", At(dec.block + 1, "body", b.to), end, TRUE, FALSE)
        BY <1>3, <2>1, <2>4, <3>2, <4>1 DEF InBody
      <4>3. o.in = end /\ o.z.pos = b.to
        BY <4>2, DecoderType, AtParts DEF Outcome
      <4>4. Within(dec, in, limit, room, o)
        <5>1. /\ dec.pos \in Nat /\ b.to \in Nat /\ end \in Nat
              /\ dec.pos <= b.to /\ b.to - dec.pos <= room /\ in <= end /\ end <= limit
          BY <1>2, <1>3, <2>2, <2>4
        <5> HIDE DEF b, end
        <5>2. b.to \in dec.pos .. (dec.pos + room) /\ end \in in .. limit
          BY <1>1, <5>1
        <5> QED
          BY <4>3, <5>2 DEF Within
      <4> QED
        BY <1>2, <1>5, <3>2, <4>2, <4>4 DEF LeavesBlock, Outcome
    <3> QED
      BY <3>1, <3>2
  <2>5. CASE dec.block \notin f.corrupt /\ ~(limit >= end /\ b.to - dec.pos <= room)
    <3>1. \E p \in dec.pos .. b.to, i \in in .. limit :
             /\ i <= end /\ p <= dec.pos + room
             /\ o = Outcome("ok", [dec EXCEPT !.pos = p], i, FALSE, b.closes)
      <4>1. \/ /\ dec.pos + room < b.to
               /\ \E i \in in .. Smaller(limit, end) :
                     o = Outcome("ok", [dec EXCEPT !.pos = @ + room], i, FALSE, b.closes)
            \/ /\ limit < end
               /\ \E p \in dec.pos .. Smaller(dec.pos + room, b.to) :
                    o = Outcome("ok", [dec EXCEPT !.pos = p], limit, FALSE, b.closes)
        BY <2>1, <2>5 DEF InBody
      <4>2. CASE /\ dec.pos + room < b.to
                 /\ \E i \in in .. Smaller(limit, end) :
                      o = Outcome("ok", [dec EXCEPT !.pos = @ + room], i, FALSE, b.closes)
        <5>1. PICK i \in in .. Smaller(limit, end) :
                 o = Outcome("ok", [dec EXCEPT !.pos = @ + room], i, FALSE, b.closes)
          BY <4>2
        <5>2. i \in in .. limit /\ i <= end
          <6>1. limit \in Int /\ end \in Int
            BY <1>3
          <6>2. /\ Smaller(limit, end) \in Int
                /\ Smaller(limit, end) <= limit /\ Smaller(limit, end) <= end
            <7> HIDE DEF end
            <7> QED
              BY <6>1, SmallerIs
          <6> HIDE DEF end
          <6> QED
            BY <1>1, <6>1, <6>2
        <5>3. dec.pos + room \in dec.pos .. b.to /\ dec.pos + room <= dec.pos + room
          <6> HIDE DEF b, n
          <6> QED
            BY <1>2, <1>3, <4>2
        <5> QED
          BY <5>1, <5>2, <5>3
      <4>3. CASE /\ limit < end
                 /\ \E p \in dec.pos .. Smaller(dec.pos + room, b.to) :
                      o = Outcome("ok", [dec EXCEPT !.pos = p], limit, FALSE, b.closes)
        <5>1. PICK p \in dec.pos .. Smaller(dec.pos + room, b.to) :
                 o = Outcome("ok", [dec EXCEPT !.pos = p], limit, FALSE, b.closes)
          BY <4>3
        <5>2. p \in dec.pos .. b.to /\ p <= dec.pos + room
          <6>1. dec.pos + room \in Int /\ b.to \in Int
            <7>1. dec.pos \in Nat /\ b.to \in Nat
              BY <1>2, <1>3
            <7> HIDE DEF b
            <7> QED
              BY <7>1
          <6>2. /\ Smaller(dec.pos + room, b.to) \in Int
                /\ Smaller(dec.pos + room, b.to) <= dec.pos + room
                /\ Smaller(dec.pos + room, b.to) <= b.to
            <7> HIDE DEF b
            <7> QED
              BY <6>1, SmallerIs
          <6> HIDE DEF b, n
          <6> QED
            BY <1>2, <1>3, <6>1, <6>2
        <5>3. limit \in in .. limit /\ limit <= end
          BY <1>1, <1>3, <4>3
        <5> QED
          BY <5>1, <5>2, <5>3
      <4> QED
        BY <4>1, <4>2, <4>3
    <3>2. PICK p \in dec.pos .. b.to, i \in in .. limit :
             /\ i <= end /\ p <= dec.pos + room
             /\ o = Outcome("ok", [dec EXCEPT !.pos = p], i, FALSE, b.closes)
      BY <3>1
    <3>3. [dec EXCEPT !.pos = p]
             = At(dec.block, "body", p)
      <4>1. [dec EXCEPT !.pos = p]
               \in Only(dec.block, "body", p)
        BY <1>1, <1>5 DEF Decoder, Only
      <4> HIDE DEF n, b
      <4> QED
        BY <4>1, OnlyIsAt
    <3>4. /\ o.z = At(dec.block, "body", p) /\ o.in = i
          /\ o.ret = "ok" /\ o.boundary = FALSE
      BY <3>2, <3>3 DEF Outcome
    <3>5. Within(dec, in, limit, room, o)
      <4>1. o.z.pos = p
        BY <3>4, DecoderType, AtParts
      <4>2. p \in dec.pos .. (dec.pos + room)
        BY <1>2, <1>3, <3>2
      <4> QED
        BY <3>2, <3>4, <4>1, <4>2 DEF Within
    <3>6. Produces(f, dec, o)
      BY <1>5, <3>2, <3>4 DEF Produces
    <3> QED
      BY <1>2, <3>5, <3>6
  <2> QED
    BY <2>3, <2>4, <2>5
<1>6. CASE dec.part = "trailer"
  <2>1. o \in InTrailer(f, dec, limit)
    BY <1>6 DEF InflateToBlock
  <2>2. in < b.tail
    BY <1>6 DEF Placed
  <2>3. CASE limit >= b.tail
    <3>1. [dec EXCEPT !.block = dec.block + 1, !.part = "header"]
             = At(dec.block + 1, "header", dec.pos)
      <4>1. [dec EXCEPT !.block = dec.block + 1, !.part = "header"]
               \in Only(dec.block + 1, "header", dec.pos)
        BY <1>1 DEF Decoder, Only
      <4> HIDE DEF n, b
      <4> QED
        BY <4>1, OnlyIsAt
    <3>2. o = Outcome("end", At(dec.block + 1, "header", dec.pos), b.tail, FALSE, TRUE)
      BY <2>1, <2>3, <3>1 DEF InTrailer
    <3>3. Within(dec, in, limit, room, o)
      <4>1. o.in = b.tail /\ o.z.pos = dec.pos
        BY <3>2, DecoderType, AtParts DEF Outcome
      <4>2. b.tail \in in .. limit
        <5> DEFINE t == b.tail
        <5>1. t \in Nat /\ in \in Nat /\ limit \in Nat /\ in < t /\ limit >= t
          BY <1>1, <1>3, <2>2, <2>3
        <5> HIDE DEF t, b
        <5>2. t \in in .. limit
          BY <5>1
        <5> QED
          BY <5>2 DEF t
      <4>3. dec.pos \in dec.pos .. (dec.pos + room)
        BY <1>2
      <4> QED
        BY <4>1, <4>2, <4>3 DEF Within
    <3> QED
      BY <1>2, <1>6, <3>2, <3>3 DEF EndsMember, Outcome
  <2>4. CASE ~(limit >= b.tail)
    <3>1. o = Outcome("ok", dec, limit, FALSE, TRUE)
      BY <2>1, <2>4 DEF InTrailer
    <3>2. limit < b.tail
      BY <1>3, <2>4
    <3> QED
      BY <1>1, <1>2, <1>6, <3>1, <3>2 DEF Waits, Within, Outcome
  <2> QED
    BY <2>3, <2>4
<1> QED
  BY <1>1, <1>4, <1>5, <1>6, DecoderType, AtParts

\* inflate() fails in a damaged block and there alone.
LEMMA ErrorIffCorrupt ==
    ASSUME NEW f, NEW dec, dec.part \in {"header", "body", "trailer"},
           NEW in, NEW limit, NEW room,
           NEW o \in InflateToBlock(f, dec, in, limit, room)
    PROVE  o.ret = "error" <=> (dec.part = "body" /\ dec.block \in f.corrupt)
<1>1. CASE dec.part = "header"
  BY <1>1 DEF InflateToBlock, InHeader, Outcome
<1>2. CASE dec.part = "body"
  BY <1>2 DEF InflateToBlock, InBody, Outcome
<1>3. CASE dec.part = "trailer"
  BY <1>3 DEF InflateToBlock, InTrailer, Outcome
<1> QED
  BY <1>1, <1>2, <1>3

\* A placed decoder stays placed.
LEMMA StaysPlaced ==
    ASSUME NEW f, IsFile(f), NEW dec, NEW in, Placed(f, dec, in),
           NEW limit \in Nat, in < limit, limit <= f.size, NEW room \in Nat,
           NEW o \in InflateToBlock(f, dec, in, limit, room), o.ret # "error"
    PROVE  Placed(f, o.z, o.in)
<1> DEFINE n == Len(f.blocks)
           b == f.blocks[dec.block]
<1>1. /\ dec \in Decoder /\ dec.block \in 1 .. (n + 1)
      /\ in \in Nat /\ f.size \in Nat /\ n \in Nat \ {0}
  BY BlockType, DecoderType, AtParts DEF Placed
<1>2. dec.block \in 1 .. n /\ dec.block \in Nat /\ dec.pos \in Nat
  BY <1>1, Outcomes, DecoderType
<1>3. /\ b.from \in Nat /\ b.to \in Nat /\ b.start \in Nat /\ b.end \in Nat
      /\ b.tail \in Nat /\ b.closes \in BOOLEAN /\ b.from <= b.to /\ b.start < b.end
      /\ CeilBytes(b.end) \in Nat /\ CeilBytes(b.end) < b.tail
  BY <1>2, BlockType, CeilType
<1>4. /\ Within(dec, in, limit, room, o)
      /\ \/ EntersBody(f, dec, o)
         \/ Waits(f, dec, limit, o)
         \/ Produces(f, dec, o)
         \/ LeavesBlock(f, dec, o)
         \/ LeavesData(f, dec, o)
         \/ EndsMember(f, dec, o)
  BY Outcomes
<1>5. o.in \in 0 .. f.size /\ o.in \in Nat
  BY <1>1, <1>4 DEF Within
<1>6. /\ dec.block + 1 \in 1 .. (n + 1) /\ dec.block # n + 1 /\ dec.block \in 1 .. (n + 1)
      /\ dec.block + 1 \in Nat
  <2> DEFINE k == dec.block
  <2>1. n \in Nat /\ k \in 1 .. n /\ k \in Nat
    BY <1>1, <1>2
  <2> HIDE DEF k, n, b
  <2>2. k + 1 \in 1 .. (n + 1) /\ k # n + 1 /\ k \in 1 .. (n + 1) /\ k + 1 \in Nat
    BY <2>1
  <2> QED
    BY <2>2 DEF k
<1>7. CASE EntersBody(f, dec, o)
  <2>1. o.z = At(dec.block, "body", dec.pos) /\ dec.part = "header"
    BY <1>7 DEF EntersBody
  <2>2. dec.pos = b.from
    BY <1>2, <2>1, BeforeIs DEF Placed
  <2>3. o.in <= CeilBytes(b.end) /\ b.start <= ByteBits * o.in
    BY <1>3, <1>5, <1>7 DEF EntersBody, CeilBytes, ByteBits
  <2>4. b.from <= dec.pos /\ dec.pos <= b.to
    BY <1>2, <1>3, <2>2
  <2> QED
    BY <1>2, <1>5, <1>6, <2>1, <2>3, <2>4, PlacedInBody
<1>8. CASE Waits(f, dec, limit, o)
  <2>1. o.z = dec /\ o.in = limit /\ dec.part \in {"header", "trailer"}
    BY <1>1, <1>8, DecoderType DEF Waits
  <2>2. CASE dec.part = "header"
    <3>1. dec.block # 1 => f.blocks[dec.block - 1].tail <= limit
      <4>1. HAVE dec.block # 1
      <4>2. dec.block - 1 \in 1 .. n
        BY <1>1, <1>2, <4>1
      <4>3. f.blocks[dec.block - 1].tail \in Nat /\ f.blocks[dec.block - 1].tail <= in
        BY <2>2, <4>1, <4>2, BlockType DEF Placed
      <4> QED
        BY <1>1, <4>3
    <3> QED
      BY <1>1, <1>2, <1>5, <1>6, <1>8, <2>1, <2>2, <3>1 DEF Placed, Waits
  <2>3. CASE dec.part = "trailer"
    <3>1. b.end <= ByteBits * limit
      <4>1. b.end <= ByteBits * in
        BY <2>3 DEF Placed
      <4>2. in <= limit
        BY <1>1
      <4> HIDE DEF b
      <4> QED
        BY <1>1, <1>3, <4>1, <4>2 DEF ByteBits
    <3> QED
      BY <1>1, <1>2, <1>5, <1>6, <1>8, <2>1, <2>3, <3>1 DEF Placed, Waits
  <2> QED
    BY <2>1, <2>2, <2>3
<1>9. CASE Produces(f, dec, o)
  <2>1. PICK p \in dec.pos .. b.to : o.z = At(dec.block, "body", p)
    BY <1>9 DEF Produces
  <2>2. b.from <= dec.pos
    BY <1>9 DEF Placed, Produces
  <2>3. p \in Nat /\ b.from <= p /\ p <= b.to
    <3>1. dec.pos \in Nat /\ b.from \in Nat /\ b.to \in Nat
      BY <1>2, <1>3
    <3> HIDE DEF b
    <3> QED
      BY <2>1, <2>2, <3>1
  <2>4. o.in <= CeilBytes(b.end) /\ in <= o.in
    BY <1>1, <1>4, <1>9 DEF Produces, Within
  <2>5. b.start <= ByteBits * o.in
    <3>1. b.start <= ByteBits * in
      BY <1>9 DEF Placed, Produces
    <3>2. in <= o.in /\ in \in Nat /\ o.in \in Nat /\ b.start \in Nat
      BY <1>1, <1>3, <1>5, <2>4
    <3> DEFINE x == o.in
               y == b.start
    <3>3. y <= ByteBits * in /\ in <= x /\ in \in Nat /\ x \in Nat /\ y \in Nat
      BY <3>1, <3>2
    <3> HIDE DEF b, n, x, y
    <3>4. y <= ByteBits * x
      BY <3>3 DEF ByteBits
    <3> QED
      BY <3>4 DEF x, y
  <2> QED
    BY <1>2, <1>5, <1>6, <2>1, <2>3, <2>4, <2>5, PlacedInBody
<1>10. CASE LeavesBlock(f, dec, o)
  <2> DEFINE c == f.blocks[dec.block + 1]
  <2>1. o.z = At(dec.block + 1, "body", b.to) /\ o.in = CeilBytes(b.end) /\ ~b.closes
    BY <1>10 DEF LeavesBlock
  <2>2. dec.block # n
    BY <2>1 DEF IsFile
  <2>3. dec.block \in 1 .. (n - 1) /\ dec.block + 1 \in 1 .. n /\ dec.block + 1 # n + 1
    <3> DEFINE k == dec.block
    <3>1. n \in Nat /\ k \in 1 .. n /\ k # n
      BY <1>1, <1>2, <2>2
    <3> HIDE DEF k, n, b, c
    <3>2. k \in 1 .. (n - 1) /\ k + 1 \in 1 .. n /\ k + 1 # n + 1
      BY <3>1
    <3> QED
      BY <3>2 DEF k
  <2>4. c.from = b.to /\ c.start = b.end
    BY <2>1, <2>3, BlocksFollow
  <2>5. /\ c.from \in Nat /\ c.to \in Nat /\ c.end \in Nat /\ c.from <= c.to
        /\ b.end <= c.end
    <3>1. /\ c.from \in Nat /\ c.to \in Nat /\ c.end \in Nat /\ c.start \in Nat
          /\ c.from <= c.to /\ c.start < c.end
      BY <2>3, BlockType
    <3> HIDE DEF b, c
    <3> QED
      BY <2>4, <3>1
  <2>6. CeilBytes(b.end) <= CeilBytes(c.end) /\ b.end <= ByteBits * CeilBytes(b.end)
    BY <1>3, <2>5, CeilMonotonic, CeilReaches
  <2>7. c.from <= b.to /\ b.to <= c.to
    BY <1>3, <2>4, <2>5
  <2> HIDE DEF c
  <2>8. /\ f.blocks[dec.block + 1].from <= b.to /\ b.to <= f.blocks[dec.block + 1].to
        /\ f.blocks[dec.block + 1].start <= ByteBits * o.in
        /\ o.in <= CeilBytes(f.blocks[dec.block + 1].end)
    BY <2>1, <2>4, <2>6, <2>7 DEF c
  <2> QED
    BY <1>3, <1>5, <1>6, <2>1, <2>3, <2>8, PlacedInBody
<1>11. CASE LeavesData(f, dec, o)
  <2>1. b.end <= ByteBits * CeilBytes(b.end)
    BY <1>3, CeilReaches
  <2> QED
    BY <1>2, <1>3, <1>5, <1>6, <1>11, <2>1, PlacedInTrailer DEF LeavesData
<1>12. CASE EndsMember(f, dec, o)
  <2>1. o.z = At(dec.block + 1, "header", dec.pos) /\ o.in = b.tail
    BY <1>12 DEF EndsMember
  <2>2. dec.pos = b.to /\ b.closes
    BY <1>12 DEF EndsMember, Placed
  <2>3. dec.block + 1 # 1 /\ (dec.block + 1) - 1 = dec.block
    BY <1>2
  <2>4. Before(f, dec.block + 1) = b.to /\ b.tail <= o.in
    BY <1>3, <2>1, <2>3 DEF Before
  <2>5. CASE dec.block = n
    <3>1. o.in <= f.size /\ f.size <= b.tail
      <4>1. f.size <= f.blocks[n].tail
        BY DEF IsFile
      <4>2. o.in <= f.size
        BY <1>1, <1>5
      <4> QED
        BY <2>5, <4>1, <4>2
    <3>2. o.in = f.size
      <4>1. o.in \in Nat /\ f.size \in Nat /\ o.in = b.tail
        BY <1>1, <1>5, <2>1
      <4> HIDE DEF b, n
      <4> QED
        BY <3>1, <4>1
    <3> QED
      BY <1>2, <1>5, <1>6, <2>1, <2>2, <2>3, <2>4, <2>5, <3>2, PlacedInHeader
  <2>6. CASE dec.block # n
    <3>1. dec.block \in 1 .. (n - 1) /\ dec.block + 1 # n + 1
      BY <1>1, <1>2, <2>6
    <3>2. ByteBits * b.tail < f.blocks[dec.block + 1].start
      BY <2>2, <3>1, BlocksFollow
    <3> QED
      BY <1>2, <1>5, <1>6, <2>1, <2>2, <2>3, <2>4, <3>1, <3>2, PlacedInHeader
  <2> QED
    BY <2>5, <2>6
<1> QED
  BY <1>4, <1>7, <1>8, <1>9, <1>10, <1>11, <1>12

-----------------------------------------------------------------------------
(* The access points                                                        *)

Phases == {"configure", "read", "output", "inflate", "flush", "lines", "done", "failed"}

\* After the two loops, and after the last access point has its row.
Ended == {"flush", "lines", "done"}
Writing == {"lines", "done"}

Point == [start : Int, end : Int, compressed : Int, bits : Int, window : Seq(Int)]

Types ==
    /\ phase \in Phases
    /\ file \in Files
    /\ indexEvery \in Nat
    /\ indexers \subseteq Indexers
    /\ filePos \in 0 .. file.size /\ eof \in BOOLEAN
    /\ availIn \in 0 .. ChunkSize /\ availIn <= filePos
    /\ availOut \in 0 .. WindowSize
    /\ totalIn = filePos - availIn
    /\ totalOut = z.pos
    /\ emitInitialAccessPoint \in BOOLEAN
    /\ phase \in {"output", "inflate"} => availIn # 0
    /\ phase = "inflate" => availOut # 0

\* What byte i of the ring is when the decoder has given the text up to `pos` and
\* `left` bytes of the ring are free: above the free bytes, the last round.
RingByte(i, pos, left) ==
    IF i <= WindowSize - left THEN pos - (WindowSize - left) + i - 1
    ELSE pos - (WindowSize - left) - WindowSize + i - 1

RingHolds(ring, pos, left) ==
    /\ ring \in [1 .. WindowSize -> Int]
    /\ \A i \in 1 .. WindowSize : ring[i] = RingByte(i, pos, left)

\* The decoder and the ring.
Stream ==
    /\ Placed(file, z, totalIn)
    /\ RingHolds(window, z.pos, availOut)

\* An access point waits to be noted exactly between members.
Waiting ==
    phase # "failed" =>
        /\ emitInitialAccessPoint => z.part = "header"
        /\ z.part = "header" => (emitInitialAccessPoint \/ phase \in Ended)
        /\ phase \in Ended => z.part = "header"

\* The bound access point is the latest one; there is none before any text.
Bound ==
    /\ bound \in Point /\ bound.end = -1
    /\ lastPoint \in Nat /\ lastPoint <= z.pos
    /\ accessPoints \subseteq Point
    /\ phase = "failed" => bound = NoPoint /\ accessPoints = {}
    /\ phase # "failed" =>
          /\ bound = NoPoint =>
                z.pos = 0 /\ z.block = 1 /\ z.part = "header" /\ accessPoints = {}
          /\ bound # NoPoint => bound.start = lastPoint

\* a starts at block k, and its window is all that was in the ring.
PrimesAt(a, k) ==
    /\ file.blocks[k].from = a.start
    /\ file.blocks[k].start = ByteBits * a.compressed - a.bits
    /\ a.bits \in 0 .. (ByteBits - 1)
    /\ a.window = Slice(a.start - WindowSize, a.start)

Primed == \A a \in Points : \E k \in DOMAIN file.blocks : PrimesAt(a, k)

\* Up to where the rows cover the text.
Covered == IF phase \in Writing THEN z.pos ELSE lastPoint

Holds(a, p) == a.start <= p /\ p <= a.end

\* The rows cover the text up to there, and no two overlap.
Tiles ==
    phase # "failed" =>
        /\ \A a \in accessPoints : /\ 0 <= a.start /\ a.start <= lastPoint
                                   /\ a.end < Covered
        /\ \A p \in 0 .. (Covered - 1) : \E a \in accessPoints : Holds(a, p)
        /\ \A a, c \in accessPoints : a = c \/ a.end < c.start \/ c.end < a.start

\* Every member that has been begun has an access point at its start, so what
\* follows the latest one is of one member.
MemberBegun(k) ==
    k < z.block /\ (z.part = "header" => k < z.block - 1)

MembersBegun ==
    phase # "failed" =>
        \A k \in 1 .. Len(file.blocks) :
            (file.blocks[k].closes /\ MemberBegun(k)) => file.blocks[k].to <= lastPoint

\* Every block that has been begun starts close to the latest access point.
BlockBegun(k) == k < z.block \/ (k = z.block /\ z.part # "header")

CloseBy ==
    phase # "failed" =>
        \A k \in 1 .. Len(file.blocks) :
            (BlockBegun(k) /\ lastPoint < file.blocks[k].from)
                => file.blocks[k].from - lastPoint <= indexEvery

\* No block starts far from the access point that covers it.
RowIsShort(a) ==
    \A k \in 1 .. Len(file.blocks) :
        (a.start < file.blocks[k].from /\ file.blocks[k].from <= a.end)
            => file.blocks[k].from - a.start <= indexEvery

ShortRows == \A a \in accessPoints : RowIsShort(a)

\* An access point is at the start of a member or far from those before it.
StartsMember(c) ==
    c.start = 0 \/ \E k \in 1 .. Len(file.blocks) :
                      file.blocks[k].closes /\ file.blocks[k].to = c.start

FarFromRows(c) ==
    \A a \in accessPoints : a.start < c.start => c.start - a.start > indexEvery

FarApart == \A c \in Points : StartsMember(c) \/ FarFromRows(c)

IInv ==
    /\ Types /\ Stream /\ Waiting /\ Bound /\ Primed
    /\ Tiles /\ MembersBegun /\ NoPointSpansMembers /\ CloseBy /\ ShortRows /\ FarApart

-----------------------------------------------------------------------------
(* The ring                                                                 *)

\* Filling free bytes of the ring moves the window on.
LEMMA RingWritten ==
    ASSUME BuilderAssumption, NEW ring, NEW pos \in Nat, NEW left \in 0 .. WindowSize,
           RingHolds(ring, pos, left), NEW n \in 0 .. left
    PROVE  RingHolds(Written(ring, left, pos, pos + n), pos + n, left - n)
<1> DEFINE at == WindowSize - left
           new == Written(ring, left, pos, pos + n)
<1>1. WindowSize \in Nat /\ at \in Nat /\ left \in Nat /\ n \in Nat /\ n <= left
  BY DEF BuilderAssumption
<1>2. new = [i \in 1 .. WindowSize |->
               IF i \in (at + 1) .. (at + (pos + n) - pos) THEN pos + i - at - 1 ELSE ring[i]]
  BY DEF Written
<1> HIDE DEF new
<1>3. ASSUME NEW i \in 1 .. WindowSize
      PROVE  new[i] = RingByte(i, pos + n, left - n) /\ new[i] \in Int
  <2>1. ring[i] = RingByte(i, pos, left)
    BY DEF RingHolds
  <2>2. new[i] = IF i \in (at + 1) .. (at + (pos + n) - pos) THEN pos + i - at - 1
                 ELSE ring[i]
    BY <1>2
  <2> QED
    BY <1>1, <2>1, <2>2 DEF RingByte
<1>4. new \in [1 .. WindowSize -> Int]
  BY <1>2, <1>3
<1> QED
  BY <1>3, <1>4 DEF RingHolds, new

\* An empty ring is a full one begun again.
LEMMA RingEmptied ==
    ASSUME BuilderAssumption, NEW ring, NEW pos \in Nat, RingHolds(ring, pos, 0)
    PROVE  RingHolds(ring, pos, WindowSize)
<1>1. WindowSize \in Nat
  BY DEF BuilderAssumption
<1>2. ASSUME NEW i \in 1 .. WindowSize
      PROVE  ring[i] = RingByte(i, pos, WindowSize)
  <2>1. ring[i] = RingByte(i, pos, 0)
    BY DEF RingHolds
  <2> QED
    BY <1>1, <2>1 DEF RingByte
<1> QED
  BY <1>2 DEF RingHolds

LEMMA WindowType ==
    ASSUME BuilderAssumption, NEW pos \in Nat
    PROVE  /\ Slice(pos - WindowSize, pos) \in Seq(Int)
           /\ Len(Slice(pos - WindowSize, pos)) = WindowSize
           /\ \A i \in 1 .. WindowSize :
                 Slice(pos - WindowSize, pos)[i] = pos - WindowSize + i - 1
<1>1. WindowSize \in Nat
  BY DEF BuilderAssumption
<1> QED
  BY <1>1 DEF Slice

\* makeWindow() gives the last WindowSize bytes of the text.
LEMMA WindowIsText ==
    ASSUME BuilderAssumption, NEW ring, NEW pos \in Nat, NEW left \in 0 .. WindowSize,
           RingHolds(ring, pos, left)
    PROVE  MakeWindow(ring, left) = Slice(pos - WindowSize, pos)
<1> DEFINE at == WindowSize - left
           old == SubSeq(ring, at + 1, WindowSize)
           new == SubSeq(ring, 1, at)
<1>1. WindowSize \in Nat /\ at \in Nat /\ left \in Nat /\ at <= WindowSize
  BY DEF BuilderAssumption
<1>2. ring \in Seq(Int) /\ Len(ring) = WindowSize
  BY <1>1 DEF RingHolds
<1>3. /\ old \in Seq(Int) /\ Len(old) = left
      /\ \A i \in 1 .. left : old[i] = ring[at + i]
  BY <1>1, <1>2
<1>4. /\ new \in Seq(Int) /\ Len(new) = at
      /\ \A i \in 1 .. at : new[i] = ring[i]
  BY <1>1, <1>2
<1> HIDE DEF old, new
<1> DEFINE both == old \o new
<1>5. /\ both \in Seq(Int) /\ Len(both) = WindowSize
      /\ \A i \in 1 .. WindowSize :
            both[i] = IF i <= left THEN old[i] ELSE new[i - left]
  BY <1>1, <1>3, <1>4
<1> HIDE DEF both
<1>6. ASSUME NEW i \in 1 .. WindowSize
      PROVE  both[i] = pos - WindowSize + i - 1
  <2>1. CASE i <= left
    <3>1. both[i] = ring[at + i] /\ at + i \in 1 .. WindowSize
      BY <1>1, <1>3, <1>5, <2>1
    <3>2. ring[at + i] = RingByte(at + i, pos, left)
      BY <3>1 DEF RingHolds
    <3> QED
      BY <1>1, <2>1, <3>1, <3>2 DEF RingByte
  <2>2. CASE i > left
    <3>1. both[i] = ring[i - left] /\ i - left \in 1 .. WindowSize /\ i - left <= at
      BY <1>1, <1>4, <1>5, <2>2
    <3>2. ring[i - left] = RingByte(i - left, pos, left)
      BY <3>1 DEF RingHolds
    <3> QED
      BY <1>1, <2>2, <3>1, <3>2 DEF RingByte
  <2> QED
    BY <1>1, <2>1, <2>2
<1>7. /\ Slice(pos - WindowSize, pos) \in Seq(Int)
      /\ Len(Slice(pos - WindowSize, pos)) = WindowSize
      /\ \A i \in 1 .. WindowSize :
            Slice(pos - WindowSize, pos)[i] = pos - WindowSize + i - 1
  BY WindowType
<1>8. both = Slice(pos - WindowSize, pos)
  BY <1>1, <1>5, <1>6, <1>7
<1> QED
  BY <1>8 DEF MakeWindow, both, old, new

\* The last bytes of a window.
LEMMA WindowReach ==
    ASSUME BuilderAssumption, NEW pos \in Nat, NEW reach \in 0 .. WindowSize
    PROVE  SubSeq(Slice(pos - WindowSize, pos), WindowSize - reach + 1, WindowSize)
              = Slice(pos - reach, pos)
<1> DEFINE w == Slice(pos - WindowSize, pos)
           r == SubSeq(w, WindowSize - reach + 1, WindowSize)
           t == Slice(pos - reach, pos)
<1>1. WindowSize \in Nat /\ reach \in Nat /\ reach <= WindowSize
  BY DEF BuilderAssumption
<1>2. /\ w \in Seq(Int) /\ Len(w) = WindowSize
      /\ \A i \in 1 .. WindowSize : w[i] = pos - WindowSize + i - 1
  BY WindowType
<1> HIDE DEF w
<1>3. /\ r \in Seq(Int) /\ Len(r) = reach
      /\ \A i \in 1 .. reach : r[i] = w[WindowSize - reach + i]
  BY <1>1, <1>2
<1>4. /\ t \in Seq(Int) /\ Len(t) = reach
      /\ \A i \in 1 .. reach : t[i] = pos - reach + i - 1
  BY <1>1 DEF Slice
<1> HIDE DEF r, t
<1>5. \A i \in 1 .. reach : r[i] = t[i]
  <2> TAKE i \in 1 .. reach
  <2>1. WindowSize - reach + i \in 1 .. WindowSize
    BY <1>1
  <2> QED
    BY <1>1, <1>2, <1>3, <1>4, <2>1
<1>6. r = t
  BY <1>1, <1>3, <1>4, <1>5
<1> QED
  BY <1>6 DEF r, t, w

-----------------------------------------------------------------------------
(* What a step does to the access points                                    *)

LEMMA FileIs ==
    ASSUME Types
    PROVE  IsFile(file) /\ file.size \in Nat
BY FilesAssumption, BlockType DEF Types

LEMMA NumbersAre ==
    ASSUME Types
    PROVE  /\ WindowSize \in Nat \ {0} /\ ChunkSize \in Nat \ {0}
           /\ filePos \in Nat /\ availIn \in Nat /\ availOut \in Nat
           /\ totalIn = filePos - availIn /\ totalIn \in Nat
           /\ filePos <= file.size
BY FileIs, BuilderAssumption DEF Types, BuilderAssumption

\* Configuration and file never change after they are chosen.
LEMMA FileStays ==
    ASSUME Types, [Next]_vars
    PROVE  file' = file /\ indexEvery' = indexEvery
BY DEF Next, vars, config, AddIndexer, StartBuild, Fread, KeepInput, EmptyWindow,
       InflateBlock, OnLine, IndexerThrows, FinderWorks, FlushLast, WriteLines

\* What follows from a call of inflate().
LEMMA Inflated ==
    ASSUME Types, Stream, phase = "inflate",
           NEW o \in InflateToBlock(file, z, filePos - availIn, filePos, availOut)
    PROVE  /\ z.block \in 1 .. Len(file.blocks)
           /\ z.block \in Nat /\ z.pos \in Nat
           /\ o.ret # "error" =>
                 /\ Placed(file, o.z, o.in)
                 /\ o.in \in Nat /\ totalIn <= o.in /\ o.in <= filePos
                 /\ o.z.pos \in Nat /\ z.pos <= o.z.pos /\ o.z.pos <= z.pos + availOut
                 /\ \/ EntersBody(file, z, o)
                    \/ Waits(file, z, filePos, o)
                    \/ Produces(file, z, o)
                    \/ LeavesBlock(file, z, o)
                    \/ LeavesData(file, z, o)
                    \/ EndsMember(file, z, o)
<1>1. /\ IsFile(file) /\ Placed(file, z, filePos - availIn)
      /\ filePos \in Nat /\ filePos - availIn < filePos /\ filePos <= file.size
      /\ availOut \in Nat /\ totalIn = filePos - availIn /\ totalIn \in Nat
  BY FileIs, NumbersAre DEF Types, Stream
<1>2. /\ z.block \in 1 .. Len(file.blocks)
      /\ \/ o.ret = "error"
         \/ /\ Within(z, filePos - availIn, filePos, availOut, o)
            /\ \/ EntersBody(file, z, o)
               \/ Waits(file, z, filePos, o)
               \/ Produces(file, z, o)
               \/ LeavesBlock(file, z, o)
               \/ LeavesData(file, z, o)
               \/ EndsMember(file, z, o)
  BY <1>1, Outcomes
<1>3. o.ret # "error" => Placed(file, o.z, o.in)
  BY <1>1, StaysPlaced
<1>4. z.block \in Nat /\ z.pos \in Nat
  BY <1>1, DecoderType DEF Placed
<1>5. ASSUME o.ret # "error"
      PROVE  /\ o.in \in Nat /\ totalIn <= o.in /\ o.in <= filePos
             /\ o.z.pos \in Nat /\ z.pos <= o.z.pos /\ o.z.pos <= z.pos + availOut
  BY <1>1, <1>2, <1>4, <1>5 DEF Within
<1> QED
  BY <1>2, <1>3, <1>4, <1>5

\* The rows when the bound access point is inserted at output `out`.
Added(out) ==
    accessPoints \cup (IF out = 0 THEN {} ELSE {[bound EXCEPT !.end = out - 1]})

\* It has no row yet.
NotAdded(out) == out # 0 => \A row \in accessPoints : row.start # bound.start

LEMMA FlushedIs ==
    ASSUME NEW out, Flushed(out) # {}
    PROVE  Flushed(out) = {Added(out)} /\ NotAdded(out)
BY DEF Flushed, Added, NotAdded, EndBefore

\* The kinds of step.
Fails ==
    /\ phase' = "failed" /\ accessPoints' = {} /\ bound' = NoPoint
    /\ lastPoint' = lastPoint /\ (z' = z \/ z.pos <= z'.pos)

Answers(o) ==
    /\ phase = "inflate"
    /\ o \in InflateToBlock(file, z, filePos - availIn, filePos, availOut)

Idles ==
    /\ phase # "failed" /\ phase' # "failed"
    /\ phase' \in Writing <=> phase \in Writing
    /\ phase' \in Ended => (phase \in Ended \/ emitInitialAccessPoint)
    /\ phase \in Ended => phase' \in Ended
    /\ UNCHANGED <<z, lastPoint, emitInitialAccessPoint, bound, accessPoints>>

Advances(o) ==
    /\ Answers(o) /\ phase' \in {"output", "read"}
    /\ \/ Waits(file, z, filePos, o) \/ Produces(file, z, o) \/ LeavesData(file, z, o)
       \/ LeavesBlock(file, z, o) /\ o.z.pos - lastPoint <= indexEvery
    /\ z' = o.z
    /\ UNCHANGED <<lastPoint, emitInitialAccessPoint, bound, accessPoints>>

NotesPoint(o) ==
    /\ Answers(o) /\ phase' \in {"output", "read"}
    /\ \/ EntersBody(file, z, o) /\ emitInitialAccessPoint
       \/ LeavesBlock(file, z, o) /\ o.z.pos - lastPoint > indexEvery
    /\ z' = o.z /\ lastPoint' = o.z.pos /\ emitInitialAccessPoint' = FALSE
    /\ NotAdded(o.z.pos) /\ accessPoints' = Added(o.z.pos)
    /\ bound' = [start |-> o.z.pos, end |-> -1, compressed |-> o.in,
                 bits |-> UnusedBits(o.z, file, o.in),
                 window |-> Slice(o.z.pos - WindowSize, o.z.pos)]

LeavesMember(o) ==
    /\ Answers(o) /\ phase' \in {"read", "flush"}
    /\ EndsMember(file, z, o)
    /\ z' = o.z
    /\ IF phase' = "read" THEN emitInitialAccessPoint' = TRUE
       ELSE UNCHANGED emitInitialAccessPoint
    /\ UNCHANGED <<lastPoint, bound, accessPoints>>

Flushes ==
    /\ phase = "flush" /\ phase' = "lines"
    /\ NotAdded(z.pos) /\ accessPoints' = Added(z.pos)
    /\ UNCHANGED <<z, lastPoint, emitInitialAccessPoint, bound>>

\* What an outcome of inflate() that is not an error does to input and output.
LEMMA StreamMoves ==
    ASSUME Types, Stream, Waiting, phase = "inflate",
           NEW o \in InflateToBlock(file, z, filePos - availIn, filePos, availOut),
           o.ret = "ok", Progressed(o)
    PROVE  /\ availIn' = filePos - o.in /\ totalIn' = o.in
           /\ availOut' = availOut - (o.z.pos - z.pos) /\ totalOut' = o.z.pos
           /\ availOut' \in 0 .. WindowSize
           /\ RingHolds(window', o.z.pos, availOut')
<1>1. /\ o.in \in Nat /\ o.z.pos \in Nat /\ z.pos \in Nat
      /\ z.pos <= o.z.pos /\ o.z.pos <= z.pos + availOut
  BY Inflated
<1>2. /\ filePos \in Nat /\ availIn \in Nat /\ availOut \in Nat /\ WindowSize \in Nat
      /\ availOut <= WindowSize /\ totalIn = filePos - availIn /\ totalOut = z.pos
  BY NumbersAre DEF Types
<1>3. availIn' = filePos - o.in /\ totalIn' = o.in
  BY <1>1, <1>2 DEF Progressed, TotalIn
<1>4. availOut' = availOut - (o.z.pos - z.pos) /\ totalOut' = o.z.pos
  BY <1>1, <1>2 DEF Progressed
<1>5. availOut' \in 0 .. WindowSize
  BY <1>1, <1>2, <1>4
<1>6. RingHolds(window', o.z.pos, availOut')
  <2> DEFINE n == o.z.pos - z.pos
  <2>1. n \in 0 .. availOut /\ z.pos + n = o.z.pos /\ availOut' = availOut - n
    BY <1>1, <1>2, <1>4
  <2>2. window' = Written(window, availOut, z.pos, z.pos + n)
    BY <2>1 DEF Progressed
  <2>3. RingHolds(window, z.pos, availOut) /\ availOut \in 0 .. WindowSize
    BY <1>2 DEF Stream
  <2> HIDE DEF n
  <2>4. RingHolds(Written(window, availOut, z.pos, z.pos + n), z.pos + n, availOut - n)
    BY <1>1, <2>1, <2>3, RingWritten, BuilderAssumption
  <2> QED
    BY <2>1, <2>2, <2>4
<1> QED
  BY <1>3, <1>4, <1>5, <1>6

\* The outcomes of inflate() as kinds of step.
LEMMA InflateKinds ==
    ASSUME Types, Stream, Waiting, Bound, InflateBlock
    PROVE  Fails \/ \E o : Advances(o) \/ NotesPoint(o) \/ LeavesMember(o)
<1>1. /\ phase = "inflate"
      /\ \E o \in InflateToBlock(file, z, filePos - availIn, filePos, availOut) :
            CASE o.ret = "ok"    -> Progressed(o)
              [] o.ret = "end"   -> MemberEnded(o)
              [] o.ret = "error" -> DataError
  BY DEF InflateBlock
<1>2. PICK o \in InflateToBlock(file, z, filePos - availIn, filePos, availOut) :
         CASE o.ret = "ok"    -> Progressed(o)
           [] o.ret = "end"   -> MemberEnded(o)
           [] o.ret = "error" -> DataError
  BY <1>1
<1>3. \/ o.ret = "error"
      \/ /\ o.ret = "ok"
         /\ \/ EntersBody(file, z, o)
            \/ Waits(file, z, filePos, o)
            \/ Produces(file, z, o)
            \/ LeavesBlock(file, z, o)
            \/ LeavesData(file, z, o)
      \/ o.ret = "end" /\ EndsMember(file, z, o)
  <2>1. \/ o.ret = "error"
        \/ EntersBody(file, z, o)
        \/ Waits(file, z, filePos, o)
        \/ Produces(file, z, o)
        \/ LeavesBlock(file, z, o)
        \/ LeavesData(file, z, o)
        \/ EndsMember(file, z, o)
    BY <1>1, Inflated
  <2> QED
    BY <2>1 DEF EntersBody, Waits, Produces, LeavesBlock, LeavesData, EndsMember
<1>4. CASE o.ret = "error"
  BY <1>2, <1>4 DEF DataError, Abort, Fails, stream
<1>5. CASE o.ret = "end" /\ EndsMember(file, z, o)
  <2>1. MemberEnded(o)
    BY <1>2, <1>5
  <2>2. LeavesMember(o)
    BY <1>1, <1>5, <2>1 DEF MemberEnded, LeavesMember, Answers
  <2> QED
    BY <2>2
<1>6. CASE /\ o.ret = "ok"
           /\ \/ EntersBody(file, z, o)
              \/ Waits(file, z, filePos, o)
              \/ Produces(file, z, o)
              \/ LeavesBlock(file, z, o)
              \/ LeavesData(file, z, o)
  <2>1. Progressed(o)
    BY <1>2, <1>6
  <2>2. /\ totalIn' = o.in /\ totalOut' = o.z.pos /\ z' = o.z
        /\ availOut' \in 0 .. WindowSize /\ RingHolds(window', o.z.pos, availOut')
    BY <1>1, <1>6, <2>1, StreamMoves DEF Progressed
  <2>3. emitInitialAccessPoint <=> z.part = "header"
    BY <1>1 DEF Waiting, Ended, Types
  <2>4. CASE NeedsPoint(o, o.z.pos)
    <3>1. NotePoint(o, o.z.pos, window', availOut')
      BY <2>1, <2>2, <2>4 DEF Progressed
    <3>2. CASE Flushed(o.z.pos) = {}
      <4>1. z.pos <= z'.pos
        BY <1>1, <1>6, <2>2, Inflated
      <4> QED
        BY <3>1, <3>2, <4>1 DEF NotePoint, Abort, Fails
    <3>3. CASE Flushed(o.z.pos) # {}
      <4>1. o.z.pos \in Nat
        BY <1>1, <1>6, Inflated
      <4>2. MakeWindow(window', availOut') = Slice(o.z.pos - WindowSize, o.z.pos)
        BY <2>2, <4>1, WindowIsText, BuilderAssumption
      <4>3. /\ lastPoint' = o.z.pos /\ emitInitialAccessPoint' = FALSE
            /\ NotAdded(o.z.pos) /\ accessPoints' = Added(o.z.pos)
            /\ phase' \in {"output", "read"}
        BY <3>1, <3>3, FlushedIs DEF NotePoint
      <4>4. bound' = [start |-> o.z.pos, end |-> -1, compressed |-> o.in,
                      bits |-> UnusedBits(o.z, file, o.in),
                      window |-> Slice(o.z.pos - WindowSize, o.z.pos)]
        BY <2>2, <3>1, <3>3, <4>2 DEF NotePoint
      <4>5. \/ EntersBody(file, z, o) /\ emitInitialAccessPoint
            \/ LeavesBlock(file, z, o) /\ o.z.pos - lastPoint > indexEvery
        <5>1. o.boundary /\ ~o.lastBlock
          BY <2>4 DEF NeedsPoint
        <5>2. o.z.pos - lastPoint > indexEvery \/ emitInitialAccessPoint
          BY <2>4 DEF NeedsPoint
        <5>3. EntersBody(file, z, o) \/ LeavesBlock(file, z, o)
          BY <1>6, <5>1 DEF Waits, Produces, LeavesData
        <5> QED
          BY <2>3, <5>2, <5>3 DEF EntersBody, LeavesBlock
      <4>6. NotesPoint(o)
        BY <1>1, <2>2, <4>3, <4>4, <4>5 DEF NotesPoint, Answers
      <4> QED
        BY <4>6
    <3> QED
      BY <3>2, <3>3
  <2>5. CASE ~NeedsPoint(o, o.z.pos)
    <3>1. /\ phase' \in {"output", "read"}
          /\ UNCHANGED <<lastPoint, emitInitialAccessPoint, bound, accessPoints>>
      BY <2>1, <2>2, <2>5 DEF Progressed, points
    <3>2. ~EntersBody(file, z, o)
      BY <2>3, <2>5 DEF NeedsPoint, EntersBody
    <3>3. LeavesBlock(file, z, o) => o.z.pos - lastPoint <= indexEvery
      <4>1. HAVE LeavesBlock(file, z, o)
      <4>2. ~(o.z.pos - lastPoint > indexEvery)
        BY <2>5, <4>1 DEF NeedsPoint, LeavesBlock
      <4>3. o.z.pos \in Nat /\ indexEvery \in Nat
        BY <1>1, <1>6, Inflated DEF Types
      <4>4. lastPoint \in Int
        BY DEF Bound
      <4> QED
        BY <4>2, <4>3, <4>4
    <3>4. Advances(o)
      BY <1>1, <1>6, <2>2, <3>1, <3>2, <3>3 DEF Advances, Answers
    <3> QED
      BY <3>4
  <2> QED
    BY <2>4, <2>5
<1> QED
  BY <1>3, <1>4, <1>5, <1>6

LEMMA StepKinds ==
    ASSUME Types, Stream, Waiting, Bound, [Next]_vars
    PROVE  \/ Fails \/ Idles \/ Flushes
           \/ \E o : Advances(o) \/ NotesPoint(o) \/ LeavesMember(o)
<1>1. ASSUME UNCHANGED <<phase, z, lastPoint, emitInitialAccessPoint, bound, accessPoints>>
      PROVE  Fails \/ Idles
  BY <1>1 DEF Fails, Idles, Bound
<1>2. CASE UNCHANGED vars
  BY <1>1, <1>2 DEF vars, stream, points
<1>3. CASE AddIndexer
  BY <1>1, <1>3 DEF AddIndexer, stream, points
<1>4. CASE StartBuild
  BY <1>4 DEF StartBuild, stream, points, Idles, Ended, Writing
<1>5. CASE Fread
  <2>1. phase = "read" /\ UNCHANGED <<z, lastPoint, emitInitialAccessPoint>>
    BY <1>5 DEF Fread
  <2>2. CASE availIn' = 0 /\ ~emitInitialAccessPoint
    BY <1>5, <2>2 DEF Fread, AtEndOfFile, Abort, Fails
  <2>3. CASE availIn' = 0 /\ emitInitialAccessPoint
    BY <1>5, <2>1, <2>3 DEF Fread, AtEndOfFile, Idles, Ended, Writing
  <2>4. CASE availIn' # 0
    BY <1>5, <2>1, <2>4 DEF Fread, Idles, Ended, Writing
  <2> QED
    BY <2>2, <2>3, <2>4
<1>6. CASE KeepInput
  BY <1>6 DEF KeepInput, stream, points, Idles, Ended, Writing
<1>7. CASE EmptyWindow
  BY <1>7 DEF EmptyWindow, points, Idles, Ended, Writing
<1>8. CASE InflateBlock
  BY <1>8, InflateKinds
<1>9. CASE OnLine
  BY <1>1, <1>9 DEF OnLine, stream, points
<1>10. CASE IndexerThrows
  BY <1>10 DEF IndexerThrows, Abort, Fails, stream
<1>11. CASE FinderWorks
  BY <1>1, <1>11 DEF FinderWorks, stream, points
<1>12. CASE FlushLast
  <2>1. totalOut = z.pos
    BY DEF Types
  <2>2. CASE Flushed(totalOut) = {}
    BY <1>12, <2>2 DEF FlushLast, Abort, Fails, stream
  <2>3. CASE Flushed(totalOut) # {}
    BY <1>12, <2>1, <2>3, FlushedIs DEF FlushLast, Flushes, stream
  <2> QED
    BY <2>2, <2>3
<1>13. CASE WriteLines
  BY <1>13 DEF WriteLines, stream, points, Idles, Ended, Writing
<1> QED
  BY <1>2, <1>3, <1>4, <1>5, <1>6, <1>7, <1>8, <1>9, <1>10, <1>11, <1>12, <1>13 DEF Next

-----------------------------------------------------------------------------
(* The invariant, part by part                                              *)

LEMMA InitInvariant == Init => IInv
<1> SUFFICES ASSUME Init PROVE IInv
  OBVIOUS
<1>1. WindowSize \in Nat \ {0} /\ ChunkSize \in Nat \ {0} /\ IndexEverys \subseteq Nat
  BY BuilderAssumption DEF BuilderAssumption
<1>2. file \in Files /\ IsFile(file) /\ file.size \in Nat
  BY FilesAssumption, BlockType DEF Init
<1>3. z = At(1, "header", 0)
  BY DEF Init, NewDecoder, At
<1>4. z.block = 1 /\ z.part = "header" /\ z.pos = 0
  BY <1>3, AtParts
<1>5. Types
  <2>1. /\ phase = "configure" /\ indexEvery \in Nat /\ indexers = {}
        /\ filePos = 0 /\ eof = FALSE /\ availIn = 0 /\ availOut = 0
        /\ totalIn = 0 /\ totalOut = 0 /\ emitInitialAccessPoint = TRUE
    BY <1>1 DEF Init
  <2>2. 0 \in 0 .. file.size /\ 0 \in 0 .. ChunkSize /\ 0 \in 0 .. WindowSize /\ 0 = 0 - 0
    BY <1>1, <1>2
  <2>3. /\ phase \in Phases /\ phase \notin {"output", "inflate"}
        /\ indexers \subseteq Indexers
    BY <2>1 DEF Phases
  <2>4. /\ filePos \in 0 .. file.size /\ availIn \in 0 .. ChunkSize /\ availIn <= filePos
        /\ availOut \in 0 .. WindowSize
    BY <2>1, <2>2
  <2>5. totalIn = filePos - availIn /\ totalOut = z.pos
    BY <1>4, <2>1
  <2>6. eof \in BOOLEAN /\ emitInitialAccessPoint \in BOOLEAN
    BY <2>1
  <2> QED
    BY <1>2, <2>1, <2>3, <2>4, <2>5, <2>6 DEF Types
<1>6. Stream
  <2>1. Placed(file, z, 0)
    <3>1. Len(file.blocks) \in Nat \ {0}
      BY <1>2, BlockType
    <3>2. file.blocks[1].start \in Nat /\ 0 < file.blocks[1].start
      <4>1. 0 < file.blocks[1].start
        BY <1>2 DEF IsFile
      <4>2. 1 \in DOMAIN file.blocks
        BY <1>2, <3>1, BlockType
      <4>3. file.blocks[1].start \in Nat
        BY <1>2, <4>2, BlockType
      <4> QED
        BY <4>1, <4>3
    <3>3. Before(file, 1) = 0
      BY DEF Before
    <3>4. ByteBits * 0 < file.blocks[1].start
      BY <3>2 DEF ByteBits
    <3>5. 1 \in 1 .. (Len(file.blocks) + 1) /\ 1 # Len(file.blocks) + 1 /\ 0 \in 0 .. file.size
      BY <1>2, <3>1
    <3> QED
      BY <1>3, <3>3, <3>4, <3>5, PlacedInHeader
  <2>2. RingHolds(window, 0, 0)
    <3>1. window = Slice(-WindowSize, 0)
      BY DEF Init
    <3>2. window = [i \in 1 .. WindowSize |-> -WindowSize + i - 1]
      BY <1>1, <3>1 DEF Slice
    <3> QED
      BY <1>1, <3>2 DEF RingHolds, RingByte
  <2>3. totalIn = 0 /\ availOut = 0
    BY DEF Init
  <2> QED
    BY <1>4, <2>1, <2>2, <2>3 DEF Stream
<1>7. Waiting
  BY <1>4 DEF Init, Waiting, Ended
<1>8. Bound
  BY <1>4 DEF Init, Bound, NoPoint, Point
<1>9. Points = {} /\ accessPoints = {} /\ lastPoint = 0 /\ phase = "configure"
  BY DEF Init, Points
<1>10. Primed /\ FarApart /\ ShortRows /\ NoPointSpansMembers
  BY <1>9 DEF Primed, FarApart, ShortRows, NoPointSpansMembers
<1>11. Tiles
  BY <1>9 DEF Tiles, Covered, Writing
<1>12. MembersBegun /\ CloseBy
  <2>1. Len(file.blocks) \in Nat
    BY <1>2, BlockType
  <2>2. \A k \in 1 .. Len(file.blocks) : ~MemberBegun(k) /\ ~BlockBegun(k)
    BY <1>4, <2>1 DEF MemberBegun, BlockBegun
  <2> QED
    BY <2>2 DEF MembersBegun, CloseBy
<1> QED
  BY <1>5, <1>6, <1>7, <1>8, <1>10, <1>11, <1>12 DEF IInv

LEMMA KeepsTypes ==
    ASSUME Types, Stream, Waiting, Bound, [Next]_vars
    PROVE  Types'
<1>1. /\ WindowSize \in Nat \ {0} /\ ChunkSize \in Nat \ {0}
      /\ filePos \in Nat /\ availIn \in Nat /\ availOut \in Nat
      /\ totalIn = filePos - availIn /\ file.size \in Nat
  BY NumbersAre, FileIs
<1>2. file' = file /\ indexEvery' = indexEvery
  BY FileStays
<1> USE DEF Types, Phases
<1>3. CASE UNCHANGED vars
  BY <1>3 DEF vars, config, input, stream, points
<1>4. CASE AddIndexer
  BY <1>4 DEF AddIndexer, input, stream, points
<1>5. CASE StartBuild
  BY <1>5 DEF StartBuild, config, input, stream, points
<1>6. CASE Fread
  <2>1. /\ phase' \in {"flush", "failed", "output"}
        /\ phase' = "output" => availIn' # 0
    BY <1>6 DEF Fread, AtEndOfFile, Abort
  <2>2. /\ availIn' \in 0 .. ChunkSize /\ availIn = 0
        /\ filePos' = filePos + availIn' /\ filePos' <= file.size
    <3>1. filePos \in 0 .. file.size
      OBVIOUS
    <3>2. availIn = 0 /\ filePos' = filePos + availIn'
      BY <1>6 DEF Fread
    <3>3. availIn' = Smaller(ChunkSize, file.size - filePos)
      BY <1>6 DEF Fread
    <3>4. \A a, b \in Nat : /\ Smaller(a, b) \in Nat
                            /\ Smaller(a, b) <= a /\ Smaller(a, b) <= b
      BY DEF Smaller
    <3>5. file.size - filePos \in Nat
      BY <1>1, <3>1
    <3>6. availIn' \in Nat /\ availIn' <= ChunkSize /\ availIn' <= file.size - filePos
      BY <1>1, <3>3, <3>4, <3>5
    <3> QED
      BY <1>1, <3>1, <3>2, <3>6
  <2>3. eof' \in BOOLEAN
    BY <1>6 DEF Fread
  <2> QED
    BY <1>1, <1>2, <1>6, <2>1, <2>2, <2>3 DEF Fread, config
<1>7. CASE KeepInput
  BY <1>7 DEF KeepInput, config, input, stream, points
<1>8. CASE EmptyWindow
  <2>1. /\ availOut' \in 0 .. WindowSize /\ availOut' # 0 /\ phase' = "inflate"
        /\ UNCHANGED <<file, indexEvery, indexers, filePos, eof, availIn, z, totalIn,
                       totalOut, emitInitialAccessPoint>>
    BY <1>1, <1>8 DEF EmptyWindow, config, input, points
  <2> QED
    BY <1>8, <2>1 DEF EmptyWindow
<1>9. CASE InflateBlock
  <2>1. /\ phase = "inflate"
        /\ UNCHANGED <<file, indexEvery, indexers, filePos, eof>>
    BY <1>9 DEF InflateBlock, config, input
  <2>2. PICK o \in InflateToBlock(file, z, filePos - availIn, filePos, availOut) :
           CASE o.ret = "ok"    -> Progressed(o)
             [] o.ret = "end"   -> MemberEnded(o)
             [] o.ret = "error" -> DataError
    BY <1>9 DEF InflateBlock
  <2>3. o.ret \in {"ok", "end", "error"}
    BY <2>1, Inflated DEF EntersBody, Waits, Produces, LeavesBlock, LeavesData, EndsMember
  <2>4. CASE o.ret = "error"
    <3>1. DataError
      BY <2>2, <2>4
    <3> QED
      BY <2>1, <3>1 DEF DataError, Abort, stream
  <2>5. CASE o.ret = "end"
    <3>1. MemberEnded(o)
      BY <2>2, <2>5
    <3>2. EndsMember(file, z, o)
      BY <2>1, <2>5, Inflated
        DEF EntersBody, Waits, Produces, LeavesBlock, LeavesData
    <3>3. o.in \in Nat /\ totalIn <= o.in /\ o.in <= filePos
      BY <2>1, <2>5, Inflated
    <3>4. /\ availIn' = filePos - o.in /\ totalIn' = o.in /\ availIn' \in 0 .. ChunkSize
      BY <1>1, <3>1, <3>3 DEF MemberEnded, TotalIn
    <3>5. o.z.pos = z.pos
      BY <3>2, AtParts DEF EndsMember
    <3>6. /\ availOut' = availOut /\ totalOut' = totalOut /\ z' = o.z
          /\ phase' \in {"read", "flush"} /\ emitInitialAccessPoint' \in BOOLEAN
      BY <3>1 DEF MemberEnded
    <3> QED
      BY <1>1, <2>1, <3>3, <3>4, <3>5, <3>6
  <2>6. CASE o.ret = "ok"
    <3>1. Progressed(o)
      BY <2>2, <2>6
    <3>2. /\ availIn' = filePos - o.in /\ totalIn' = o.in /\ totalOut' = o.z.pos
          /\ availOut' \in 0 .. WindowSize /\ z' = o.z
      BY <2>1, <2>6, <3>1, StreamMoves DEF Progressed
    <3>3. o.in \in Nat /\ totalIn <= o.in /\ o.in <= filePos
      BY <2>1, <2>6, Inflated
    <3>4. availIn' \in 0 .. ChunkSize /\ availIn' <= filePos
      BY <1>1, <3>2, <3>3
    <3>5. /\ phase' \in {"output", "read", "failed"}
          /\ phase' = "output" => availIn' # 0
          /\ emitInitialAccessPoint' \in BOOLEAN
      <4>1. CASE NeedsPoint(o, totalOut')
        <5>1. NotePoint(o, totalOut', window', availOut')
          BY <3>1, <4>1 DEF Progressed
        <5> QED
          BY <5>1 DEF NotePoint, Abort
      <4>2. CASE ~NeedsPoint(o, totalOut')
        BY <3>1, <4>2 DEF Progressed, points
      <4> QED
        BY <4>1, <4>2
    <3> QED
      BY <1>1, <2>1, <3>2, <3>3, <3>4, <3>5
  <2> QED
    BY <2>3, <2>4, <2>5, <2>6
<1>10. CASE OnLine
  BY <1>10 DEF OnLine, config, input, stream, points
<1>11. CASE IndexerThrows
  BY <1>11 DEF IndexerThrows, Abort, config, input, stream
<1>12. CASE FinderWorks
  BY <1>12 DEF FinderWorks, config, input, stream, points
<1>13. CASE FlushLast
  BY <1>13 DEF FlushLast, Abort, config, input, stream
<1>14. CASE WriteLines
  BY <1>14 DEF WriteLines, config, input, stream, points
<1> QED
  BY <1>3, <1>4, <1>5, <1>6, <1>7, <1>8, <1>9, <1>10, <1>11, <1>12, <1>13, <1>14 DEF Next

LEMMA KeepsStream ==
    ASSUME Types, Stream, Waiting, Bound, [Next]_vars
    PROVE  Stream'
<1>1. file' = file
  BY FileStays
<1>2. ASSUME UNCHANGED <<z, totalIn, window, availOut>>
      PROVE  Stream'
  BY <1>1, <1>2 DEF Stream
<1>3. CASE EmptyWindow
  <2>1. UNCHANGED <<z, totalIn, window>>
    BY <1>3 DEF EmptyWindow
  <2>2. CASE availOut = 0
    <3>1. availOut' = WindowSize
      BY <1>3, <2>2 DEF EmptyWindow
    <3>2. z.pos \in Nat
      BY DecoderType DEF Stream, Placed
    <3>3. RingHolds(window, z.pos, WindowSize)
      BY <2>2, <3>2, RingEmptied, BuilderAssumption DEF Stream
    <3> QED
      BY <1>1, <2>1, <3>1, <3>3 DEF Stream
  <2>3. CASE availOut # 0
    <3>1. availOut' = availOut
      BY <1>3, <2>3 DEF EmptyWindow
    <3> QED
      BY <1>2, <2>1, <3>1
  <2> QED
    BY <2>2, <2>3
<1>4. CASE InflateBlock
  <2>1. phase = "inflate"
    BY <1>4 DEF InflateBlock
  <2>2. PICK o \in InflateToBlock(file, z, filePos - availIn, filePos, availOut) :
           CASE o.ret = "ok"    -> Progressed(o)
             [] o.ret = "end"   -> MemberEnded(o)
             [] o.ret = "error" -> DataError
    BY <1>4 DEF InflateBlock
  <2>3. o.ret \in {"ok", "end", "error"}
    BY <2>1, Inflated DEF EntersBody, Waits, Produces, LeavesBlock, LeavesData, EndsMember
  <2>4. CASE o.ret = "error"
    <3>1. DataError
      BY <2>2, <2>4
    <3> QED
      BY <1>2, <3>1 DEF DataError, stream
  <2>5. CASE o.ret = "end"
    <3>1. MemberEnded(o)
      BY <2>2, <2>5
    <3>2. Placed(file, o.z, o.in) /\ EndsMember(file, z, o)
      BY <2>1, <2>5, Inflated
        DEF EntersBody, Waits, Produces, LeavesBlock, LeavesData
    <3>3. o.in \in Nat /\ totalIn' = o.in
      <4>1. o.in \in Nat
        BY <2>1, <2>5, Inflated
      <4> QED
        BY <3>1, <4>1, NumbersAre DEF MemberEnded, TotalIn
    <3>4. o.z.pos = z.pos
      BY <3>2, AtParts DEF EndsMember
    <3>5. z' = o.z /\ window' = window /\ availOut' = availOut
      BY <3>1 DEF MemberEnded
    <3> QED
      BY <1>1, <3>2, <3>3, <3>4, <3>5 DEF Stream
  <2>6. CASE o.ret = "ok"
    <3>1. Progressed(o)
      BY <2>2, <2>6
    <3>2. totalIn' = o.in /\ RingHolds(window', o.z.pos, availOut') /\ z' = o.z
      BY <2>1, <2>6, <3>1, StreamMoves DEF Progressed
    <3>3. Placed(file, o.z, o.in)
      BY <2>1, <2>6, Inflated
    <3> QED
      BY <1>1, <3>2, <3>3 DEF Stream
  <2> QED
    BY <2>3, <2>4, <2>5, <2>6
<1>5. CASE ~EmptyWindow /\ ~InflateBlock
  <2>1. UNCHANGED <<z, totalIn, window, availOut>>
    BY <1>5 DEF Next, vars, stream, AddIndexer, StartBuild, Fread, KeepInput, OnLine,
                IndexerThrows, FinderWorks, FlushLast, WriteLines
  <2> QED
    BY <1>2, <2>1
<1> QED
  BY <1>3, <1>4, <1>5

LEMMA KeepsWaiting ==
    ASSUME Types, Stream, Waiting, Bound, [Next]_vars
    PROVE  Waiting'
<1>1. CASE Fails
  BY <1>1 DEF Fails, Waiting
<1>2. CASE Idles
  BY <1>2 DEF Idles, Waiting
<1>3. CASE Flushes
  BY <1>3 DEF Flushes, Waiting, Ended
<1>4. ASSUME NEW o, Advances(o) PROVE Waiting'
  <2>1. o.z.part = "header" <=> z.part = "header"
    <3>1. Waits(file, z, filePos, o) => o.z.part = z.part
      BY DEF Waits
    <3>2. Produces(file, z, o) => o.z.part = "body" /\ z.part = "body"
      BY AtParts DEF Produces
    <3>3. LeavesData(file, z, o) => o.z.part = "trailer" /\ z.part = "body"
      BY AtParts DEF LeavesData
    <3>4. LeavesBlock(file, z, o) => o.z.part = "body" /\ z.part = "body"
      BY AtParts DEF LeavesBlock
    <3> QED
      BY <1>4, <3>1, <3>2, <3>3, <3>4 DEF Advances
  <2> QED
    BY <1>4, <2>1 DEF Advances, Answers, Waiting, Ended
<1>5. ASSUME NEW o, NotesPoint(o) PROVE Waiting'
  <2>1. o.z.part = "body"
    BY <1>5, AtParts DEF NotesPoint, EntersBody, LeavesBlock
  <2> QED
    BY <1>5, <2>1 DEF NotesPoint, Waiting, Ended
<1>6. ASSUME NEW o, LeavesMember(o) PROVE Waiting'
  <2>1. o.z.part = "header"
    BY <1>6, AtParts DEF LeavesMember, EndsMember
  <2> QED
    BY <1>6, <2>1 DEF LeavesMember, Waiting, Ended
<1> QED
  BY <1>1, <1>2, <1>3, <1>4, <1>5, <1>6, StepKinds

-----------------------------------------------------------------------------
(* Access points and their rows                                             *)

LEMMA PointType ==
    ASSUME NEW b \in Point
    PROVE  b.start \in Int /\ b.end \in Int /\ b.compressed \in Int /\ b.bits \in Int
BY DEF Point

\* Inserting a point changes nothing but its end.
LEMMA RowIs ==
    ASSUME NEW b \in Point, NEW e \in Int
    PROVE  LET r == [b EXCEPT !.end = e]
           IN  /\ r \in Point /\ r.start = b.start /\ r.end = e
               /\ r.compressed = b.compressed /\ r.bits = b.bits /\ r.window = b.window
BY DEF Point

\* The point noted after the outcome o.
NewPoint(o) ==
    [start |-> o.z.pos, end |-> -1, compressed |-> o.in,
     bits |-> UnusedBits(o.z, file, o.in),
     window |-> Slice(o.z.pos - WindowSize, o.z.pos)]

LEMMA NewPointParts ==
    ASSUME NEW o
    PROVE  /\ NewPoint(o).start = o.z.pos /\ NewPoint(o).end = -1
           /\ NewPoint(o).compressed = o.in
           /\ NewPoint(o).bits = UnusedBits(o.z, file, o.in)
           /\ NewPoint(o).window = Slice(o.z.pos - WindowSize, o.z.pos)
BY DEF NewPoint

\* Where a new point is: at the start of the block the decoder enters.
LEMMA NewPointPrimes ==
    ASSUME Types, Stream, phase = "inflate",
           NEW o \in InflateToBlock(file, z, filePos - availIn, filePos, availOut),
           EntersBody(file, z, o) \/ LeavesBlock(file, z, o)
    PROVE  /\ o.z.block \in 1 .. Len(file.blocks) /\ o.z.part = "body"
           /\ file.blocks[o.z.block].from = o.z.pos
           /\ PrimesAt(NewPoint(o), o.z.block)
           /\ NewPoint(o) \in Point
<1>1. IsFile(file) /\ Len(file.blocks) \in Nat \ {0} /\ WindowSize \in Nat
  BY FileIs, NumbersAre, BlockType
<1>2. /\ z.block \in 1 .. Len(file.blocks) /\ o.z.pos \in Nat /\ o.in \in Nat
      /\ Placed(file, o.z, o.in)
  BY Inflated DEF EntersBody, LeavesBlock
<1> DEFINE b == file.blocks[z.block]
           c == file.blocks[o.z.block]
<1>3. b.start \in Nat /\ b.end \in Nat
  BY <1>1, <1>2, BlockType
<1>4. ASSUME EntersBody(file, z, o)
      PROVE  /\ o.z.block \in 1 .. Len(file.blocks) /\ o.z.part = "body"
             /\ c.from = o.z.pos
             /\ UnusedBits(o.z, file, o.in) \in 0 .. (ByteBits - 1)
             /\ c.start = ByteBits * o.in - UnusedBits(o.z, file, o.in)
  <2>1. o.z.block = z.block /\ o.z.part = "body" /\ o.z.pos = z.pos /\ z.part = "header"
    BY <1>4, AtParts DEF EntersBody
  <2>2. z.pos = Before(file, z.block)
    BY <2>1 DEF Stream, Placed
  <2>3. c.from = o.z.pos
    BY <1>1, <1>2, <2>1, <2>2, BeforeIs
  <2>4. UnusedBits(o.z, file, o.in) = ByteBits * o.in - c.start
    BY <2>1 DEF UnusedBits
  <2>5. c.start = ByteBits * o.in
    BY <1>4, <2>1 DEF EntersBody
  <2>6. /\ UnusedBits(o.z, file, o.in) \in 0 .. (ByteBits - 1)
        /\ c.start = ByteBits * o.in - UnusedBits(o.z, file, o.in)
    BY <1>2, <2>4, <2>5 DEF ByteBits
  <2> QED
    BY <1>2, <2>1, <2>3, <2>6
<1>5. ASSUME LeavesBlock(file, z, o)
      PROVE  /\ o.z.block \in 1 .. Len(file.blocks) /\ o.z.part = "body"
             /\ c.from = o.z.pos
             /\ UnusedBits(o.z, file, o.in) \in 0 .. (ByteBits - 1)
             /\ c.start = ByteBits * o.in - UnusedBits(o.z, file, o.in)
  <2>1. /\ o.z.block = z.block + 1 /\ o.z.part = "body" /\ o.z.pos = b.to /\ ~b.closes
        /\ o.in = CeilBytes(b.end)
    BY <1>5, AtParts DEF LeavesBlock
  <2>2. z.block # Len(file.blocks)
    BY <1>1, <2>1 DEF IsFile
  <2>3. z.block \in 1 .. (Len(file.blocks) - 1) /\ o.z.block \in 1 .. Len(file.blocks)
    BY <1>1, <1>2, <2>1, <2>2
  <2>4. c.from = o.z.pos /\ c.start = b.end
    <3>1. /\ file.blocks[z.block + 1].from = b.to
          /\ file.blocks[z.block + 1].start = b.end
      BY <1>1, <2>1, <2>3, BlocksFollow
    <3> QED
      BY <2>1, <3>1
  <2>5. UnusedBits(o.z, file, o.in) = ByteBits * o.in - c.start
    BY <2>1 DEF UnusedBits
  <2>6. /\ UnusedBits(o.z, file, o.in) \in 0 .. (ByteBits - 1)
        /\ c.start = ByteBits * o.in - UnusedBits(o.z, file, o.in)
    <3>1. ByteBits * o.in - b.end \in 0 .. (ByteBits - 1)
      BY <1>3, <2>1, CeilType
    <3>2. ByteBits * o.in \in Int
      BY <1>2 DEF ByteBits
    <3> QED
      BY <1>3, <2>4, <2>5, <3>1, <3>2
  <2> QED
    BY <2>1, <2>3, <2>4, <2>6
<1>6. /\ o.z.block \in 1 .. Len(file.blocks) /\ o.z.part = "body" /\ c.from = o.z.pos
      /\ UnusedBits(o.z, file, o.in) \in 0 .. (ByteBits - 1)
      /\ c.start = ByteBits * o.in - UnusedBits(o.z, file, o.in)
  BY <1>4, <1>5
<1>7. PrimesAt(NewPoint(o), o.z.block)
  BY <1>6, NewPointParts DEF PrimesAt
<1>8. NewPoint(o) \in Point
  <2>1. Slice(o.z.pos - WindowSize, o.z.pos) \in Seq(Int)
    BY <1>2, WindowType, BuilderAssumption
  <2>2. UnusedBits(o.z, file, o.in) \in Int
    BY <1>6 DEF ByteBits
  <2> QED
    BY <1>2, <2>1, <2>2 DEF NewPoint, Point
<1> QED
  BY <1>6, <1>7, <1>8

LEMMA NoPointParts == NoPoint.start = -1 /\ NoPoint \in Point
BY DEF NoPoint, Point

\* What Added(out) is: the rows there are, and one for the bound point.
LEMMA AddedIs ==
    ASSUME Bound, phase # "failed", NEW out \in Nat, out # 0 => bound # NoPoint
    PROVE  /\ accessPoints \subseteq Added(out) /\ Added(out) \subseteq Point
           /\ \A a \in Added(out) :
                 \/ a \in accessPoints
                 \/ /\ bound # NoPoint /\ out # 0
                    /\ a.start = lastPoint /\ a.start = bound.start /\ a.end = out - 1
                    /\ a.compressed = bound.compressed /\ a.bits = bound.bits
                    /\ a.window = bound.window
           /\ out # 0 => \E a \in Added(out) : a.start = lastPoint /\ a.end = out - 1
<1> DEFINE r == [bound EXCEPT !.end = out - 1]
<1>1. bound \in Point /\ accessPoints \subseteq Point /\ out - 1 \in Int
  BY DEF Bound
<1>2. /\ r \in Point /\ r.start = bound.start /\ r.end = out - 1
      /\ r.compressed = bound.compressed /\ r.bits = bound.bits /\ r.window = bound.window
  <2> DEFINE e == out - 1
  <2>1. e \in Int
    BY <1>1
  <2> HIDE DEF e
  <2>2. LET q == [bound EXCEPT !.end = e]
        IN  /\ q \in Point /\ q.start = bound.start /\ q.end = e
            /\ q.compressed = bound.compressed /\ q.bits = bound.bits
            /\ q.window = bound.window
    BY <1>1, <2>1, RowIs
  <2> QED
    BY <2>2 DEF e
<1>3. bound # NoPoint => bound.start = lastPoint
  BY DEF Bound
<1>4. Added(out) = accessPoints \cup (IF out = 0 THEN {} ELSE {r})
  BY DEF Added
<1> HIDE DEF r
<1> QED
  BY <1>1, <1>2, <1>3, <1>4

\* A point is noted, or the last one inserted, only where one is bound if any text
\* has come out.
LEMMA BoundIfText ==
    ASSUME Types, Stream, Bound, phase # "failed",
           NEW o, NotesPoint(o) \/ (Flushes /\ o.z = z)
    PROVE  /\ o.z.pos \in Nat /\ lastPoint \in Nat /\ lastPoint <= o.z.pos
           /\ o.z.pos # 0 => bound # NoPoint
<1>1. z.pos \in Nat /\ lastPoint \in Nat /\ lastPoint <= z.pos
  BY DecoderType DEF Stream, Placed, Bound
<1>2. bound = NoPoint => z.pos = 0 /\ z.part = "header"
  BY DEF Bound
<1>3. CASE NotesPoint(o)
  <2>1. /\ phase = "inflate"
        /\ o \in InflateToBlock(file, z, filePos - availIn, filePos, availOut)
        /\ EntersBody(file, z, o) \/ LeavesBlock(file, z, o)
    BY <1>3 DEF NotesPoint, Answers
  <2>2. o.z.pos \in Nat /\ z.pos <= o.z.pos
    BY <2>1, Inflated DEF EntersBody, LeavesBlock
  <2>3. z.part = "header" => o.z.pos = z.pos
    BY <2>1, AtParts DEF EntersBody, LeavesBlock
  <2> QED
    BY <1>1, <1>2, <2>2, <2>3
<1>4. CASE Flushes /\ o.z = z
  BY <1>1, <1>2, <1>4
<1> QED
  BY <1>3, <1>4

LEMMA KeepsBound ==
    ASSUME Types, Stream, Waiting, Bound, [Next]_vars
    PROVE  Bound'
<1>1. z.pos \in Nat /\ lastPoint \in Nat /\ lastPoint <= z.pos
  BY DecoderType DEF Stream, Placed, Bound
<1>2. z'.pos \in Nat
  BY KeepsStream, DecoderType DEF Stream, Placed
<1>3. CASE Fails
  <2>1. lastPoint' \in Nat /\ lastPoint' <= z'.pos
    BY <1>1, <1>2, <1>3 DEF Fails
  <2>2. NoPoint.end = -1 /\ NoPoint \in Point
    BY NoPointParts DEF NoPoint
  <2> QED
    BY <1>3, <2>1, <2>2 DEF Fails, Bound
<1>4. CASE Idles
  BY <1>4 DEF Idles, Bound
<1>5. CASE Flushes
  <2>2. phase # "failed" /\ phase' # "failed"
    BY <1>5 DEF Flushes
  <2>3. Added(z.pos) \subseteq Point
    <3>1. z.pos # 0 => bound # NoPoint
      BY <2>2 DEF Bound
    <3> QED
      BY <1>1, <2>2, <3>1, AddedIs
  <2>4. z.pos = 0 => Added(z.pos) = accessPoints
    BY DEF Added
  <2> QED
    BY <1>5, <2>2, <2>3, <2>4 DEF Flushes, Bound
<1>6. ASSUME NEW o, Advances(o) PROVE Bound'
  <2>1. /\ phase = "inflate" /\ phase' # "failed"
        /\ o \in InflateToBlock(file, z, filePos - availIn, filePos, availOut)
    BY <1>6 DEF Advances, Answers
  <2>2. z.part = "header" => o.z = z
    BY <1>6 DEF Advances, Waits, Produces, LeavesBlock, LeavesData
  <2>3. z.pos <= o.z.pos /\ o.z.pos \in Nat
    <3>1. o.ret # "error"
      BY <1>6 DEF Advances, Waits, Produces, LeavesBlock, LeavesData
    <3> QED
      BY <2>1, <3>1, Inflated
  <2>4. lastPoint <= o.z.pos
    BY <1>1, <2>3
  <2> QED
    BY <1>6, <2>1, <2>2, <2>4 DEF Advances, Bound
<1>7. ASSUME NEW o, NotesPoint(o) PROVE Bound'
  <2>1. /\ phase = "inflate" /\ phase # "failed" /\ phase' # "failed"
        /\ o \in InflateToBlock(file, z, filePos - availIn, filePos, availOut)
        /\ EntersBody(file, z, o) \/ LeavesBlock(file, z, o)
    BY <1>7 DEF NotesPoint, Answers
  <2>2. bound' = NewPoint(o)
    BY <1>7 DEF NotesPoint, NewPoint
  <2>3. NewPoint(o) \in Point
    BY <2>1, NewPointPrimes
  <2>4. o.z.pos \in Nat /\ (o.z.pos # 0 => bound # NoPoint)
    BY <1>7, <2>1, BoundIfText
  <2>5. NewPoint(o).end = -1 /\ NewPoint(o).start = o.z.pos
    BY NewPointParts
  <2>6. NewPoint(o) # NoPoint
    BY <2>4, <2>5, NoPointParts
  <2>7. Added(o.z.pos) \subseteq Point
    BY <2>1, <2>4, AddedIs
  <2>8. lastPoint' = o.z.pos /\ z' = o.z /\ accessPoints' = Added(o.z.pos)
    BY <1>7 DEF NotesPoint
  <2>9. o.z.pos <= o.z.pos
    BY <2>4
  <2> QED
    BY <2>1, <2>2, <2>3, <2>4, <2>5, <2>6, <2>7, <2>8, <2>9 DEF Bound
<1>8. ASSUME NEW o, LeavesMember(o) PROVE Bound'
  <2>1. /\ phase # "failed" /\ phase' # "failed" /\ z.part = "trailer"
        /\ o.z.pos = z.pos
    BY <1>8, AtParts DEF LeavesMember, Answers, EndsMember
  <2>2. bound # NoPoint
    BY <2>1 DEF Bound
  <2> QED
    BY <1>8, <2>1, <2>2 DEF LeavesMember, Bound
<1> QED
  BY <1>3, <1>4, <1>5, <1>6, <1>7, <1>8, StepKinds

\* Where a row comes from: it was there, or it is the bound point's.
LEMMA RowsAfter ==
    ASSUME Types, Stream, Waiting, Bound, [Next]_vars, NEW a \in accessPoints'
    PROVE  \/ a \in accessPoints
           \/ /\ phase # "failed" /\ phase' # "failed" /\ bound # NoPoint
              /\ a.start = lastPoint /\ a.start = bound.start
              /\ a.compressed = bound.compressed /\ a.bits = bound.bits
              /\ a.window = bound.window
              /\ \/ Flushes /\ z.pos # 0 /\ a.end = z.pos - 1
                 \/ \E o : NotesPoint(o) /\ o.z.pos # 0 /\ a.end = o.z.pos - 1
<1>1. CASE Fails
  BY <1>1 DEF Fails
<1>2. CASE Idles
  BY <1>2 DEF Idles
<1>3. CASE Flushes
  <2>1. phase # "failed" /\ phase' # "failed" /\ a \in Added(z.pos)
    BY <1>3 DEF Flushes
  <2>2. z.pos \in Nat /\ (z.pos # 0 => bound # NoPoint)
    BY <2>1, DecoderType DEF Stream, Placed, Bound
  <2> QED
    BY <1>3, <2>1, <2>2, AddedIs
<1>4. ASSUME NEW o, Advances(o) PROVE a \in accessPoints
  BY <1>4 DEF Advances
<1>5. ASSUME NEW o, NotesPoint(o)
      PROVE  \/ a \in accessPoints
             \/ /\ phase # "failed" /\ phase' # "failed" /\ bound # NoPoint
                /\ a.start = lastPoint /\ a.start = bound.start
                /\ a.compressed = bound.compressed /\ a.bits = bound.bits
                /\ a.window = bound.window
                /\ o.z.pos # 0 /\ a.end = o.z.pos - 1
  <2>1. phase # "failed" /\ phase' # "failed" /\ a \in Added(o.z.pos)
    BY <1>5 DEF NotesPoint, Answers
  <2>2. o.z.pos \in Nat /\ (o.z.pos # 0 => bound # NoPoint)
    BY <1>5, <2>1, BoundIfText
  <2> QED
    BY <2>1, <2>2, AddedIs
<1>6. ASSUME NEW o, LeavesMember(o) PROVE a \in accessPoints
  BY <1>6 DEF LeavesMember
<1> QED
  BY <1>1, <1>2, <1>3, <1>4, <1>5, <1>6, StepKinds

\* Where a point comes from: it was there, if with another end, or it is new.
LEMMA PointsAfter ==
    ASSUME Types, Stream, Waiting, Bound, [Next]_vars, NEW c \in Points'
    PROVE  \/ \E a \in Points :
                 /\ a.start = c.start /\ a.compressed = c.compressed
                 /\ a.bits = c.bits /\ a.window = c.window
           \/ \E o : NotesPoint(o) /\ c = NewPoint(o)
<1>1. CASE c \in accessPoints'
  <2>1. CASE c \in accessPoints
    BY <2>1 DEF Points
  <2>2. CASE c \notin accessPoints
    <3>1. /\ bound # NoPoint /\ c.start = bound.start
          /\ c.compressed = bound.compressed /\ c.bits = bound.bits
          /\ c.window = bound.window
      BY <1>1, <2>2, RowsAfter
    <3>2. bound \in Points
      BY <3>1 DEF Points
    <3> QED
      BY <3>1, <3>2
  <2> QED
    BY <2>1, <2>2
<1>2. CASE c \notin accessPoints'
  <2>1. c = bound' /\ bound' # NoPoint
    BY <1>2 DEF Points, NoPoint
  <2>2. CASE bound' = bound
    BY <2>1, <2>2 DEF Points
  <2>3. CASE bound' # bound
    <3>1. \E o : NotesPoint(o)
      BY <2>1, <2>3, StepKinds DEF Fails, Idles, Flushes, Advances, LeavesMember
    <3> QED
      BY <2>1, <3>1 DEF NotesPoint, NewPoint
  <2> QED
    BY <2>2, <2>3
<1> QED
  BY <1>1, <1>2

LEMMA KeepsPrimed ==
    ASSUME Types, Stream, Waiting, Bound, Primed, [Next]_vars
    PROVE  Primed'
<1>1. file' = file
  BY FileStays
<1> SUFFICES ASSUME NEW c \in Points'
             PROVE  \E k \in DOMAIN file.blocks :
                       /\ file.blocks[k].from = c.start
                       /\ file.blocks[k].start = ByteBits * c.compressed - c.bits
                       /\ c.bits \in 0 .. (ByteBits - 1)
                       /\ c.window = Slice(c.start - WindowSize, c.start)
  BY <1>1 DEF Primed, PrimesAt
<1>2. ASSUME NEW a \in Points, a.start = c.start, a.compressed = c.compressed,
             a.bits = c.bits, a.window = c.window
      PROVE  \E k \in DOMAIN file.blocks :
                /\ file.blocks[k].from = c.start
                /\ file.blocks[k].start = ByteBits * c.compressed - c.bits
                /\ c.bits \in 0 .. (ByteBits - 1)
                /\ c.window = Slice(c.start - WindowSize, c.start)
  <2>1. PICK k \in DOMAIN file.blocks : PrimesAt(a, k)
    BY DEF Primed
  <2> QED
    BY <1>2, <2>1 DEF PrimesAt
<1>3. ASSUME NEW o, NotesPoint(o), c = NewPoint(o)
      PROVE  \E k \in DOMAIN file.blocks :
                /\ file.blocks[k].from = c.start
                /\ file.blocks[k].start = ByteBits * c.compressed - c.bits
                /\ c.bits \in 0 .. (ByteBits - 1)
                /\ c.window = Slice(c.start - WindowSize, c.start)
  <2>1. o.z.block \in 1 .. Len(file.blocks) /\ PrimesAt(NewPoint(o), o.z.block)
    BY <1>3, NewPointPrimes DEF NotesPoint, Answers
  <2>2. o.z.block \in DOMAIN file.blocks
    BY <2>1, FileIs, BlockType
  <2> QED
    BY <1>3, <2>1, <2>2 DEF PrimesAt
<1> QED
  BY <1>2, <1>3, PointsAfter

\* Inserting the bound point carries the cover on to where the text has come.
LEMMA TilesOn ==
    ASSUME Bound, Tiles, phase # "failed", phase \notin Writing,
           NEW out \in Nat, lastPoint <= out, out # 0 => bound # NoPoint
    PROVE  /\ \A a \in Added(out) : /\ 0 <= a.start /\ a.start <= lastPoint
                                    /\ a.end < out
           /\ \A p \in 0 .. (out - 1) : \E a \in Added(out) : Holds(a, p)
           /\ \A a, c \in Added(out) : a = c \/ a.end < c.start \/ c.end < a.start
<1>1. Covered = lastPoint /\ lastPoint \in Nat
  BY DEF Covered, Bound
<1>2. \A a \in accessPoints : a.start \in Int /\ a.end \in Int
  BY PointType DEF Bound
<1>3. /\ \A a \in accessPoints : /\ 0 <= a.start /\ a.start <= lastPoint
                                 /\ a.end < lastPoint
      /\ \A p \in 0 .. (lastPoint - 1) : \E a \in accessPoints : Holds(a, p)
      /\ \A a, c \in accessPoints : a = c \/ a.end < c.start \/ c.end < a.start
  BY <1>1 DEF Tiles
<1>4. /\ accessPoints \subseteq Added(out)
      /\ \A a \in Added(out) :
            a \in accessPoints \/ (out # 0 /\ a.start = lastPoint /\ a.end = out - 1)
      /\ out # 0 => \E a \in Added(out) : a.start = lastPoint /\ a.end = out - 1
  BY AddedIs
<1>5. \A a, c \in Added(out) : a \in accessPoints \/ c \in accessPoints \/ a = c
  BY DEF Added
<1>6. ASSUME NEW a \in Added(out)
      PROVE  0 <= a.start /\ a.start <= lastPoint /\ a.end < out
  <2>1. CASE a \in accessPoints
    BY <1>1, <1>2, <1>3, <2>1
  <2>2. CASE out # 0 /\ a.start = lastPoint /\ a.end = out - 1
    BY <1>1, <2>2
  <2> QED
    BY <1>4, <2>1, <2>2
<1>7. ASSUME NEW p \in 0 .. (out - 1)
      PROVE  \E a \in Added(out) : Holds(a, p)
  <2>1. CASE p < lastPoint
    BY <1>1, <1>3, <1>4, <2>1
  <2>2. CASE lastPoint <= p
    <3>1. PICK a \in Added(out) : a.start = lastPoint /\ a.end = out - 1
      BY <1>4
    <3>2. Holds(a, p)
      BY <2>2, <3>1 DEF Holds
    <3> QED
      BY <3>2
  <2> QED
    BY <1>1, <2>1, <2>2
<1>8. ASSUME NEW a \in Added(out), NEW c \in Added(out)
      PROVE  a = c \/ a.end < c.start \/ c.end < a.start
  <2>1. CASE a \in accessPoints /\ c \in accessPoints
    BY <1>3, <2>1
  <2>2. CASE a \in accessPoints /\ c \notin accessPoints
    BY <1>1, <1>3, <1>4, <2>2
  <2>3. CASE a \notin accessPoints /\ c \in accessPoints
    BY <1>1, <1>3, <1>4, <2>3
  <2>4. CASE a \notin accessPoints /\ c \notin accessPoints
    BY <1>5, <2>4
  <2> QED
    BY <2>1, <2>2, <2>3, <2>4
<1> QED
  BY <1>6, <1>7, <1>8

LEMMA KeepsTiles ==
    ASSUME Types, Stream, Waiting, Bound, Tiles, [Next]_vars
    PROVE  Tiles'
<1>1. CASE Fails
  BY <1>1 DEF Fails, Tiles
<1>2. CASE Idles
  <2>1. Covered' = Covered
    BY <1>2 DEF Idles, Covered, Writing
  <2> QED
    BY <1>2, <2>1 DEF Idles, Tiles, Holds
<1>3. CASE Flushes
  <2>1. /\ phase # "failed" /\ phase \notin Writing /\ accessPoints' = Added(z.pos)
        /\ lastPoint' = lastPoint /\ Covered' = z.pos
    BY <1>3 DEF Flushes, Covered, Writing
  <2>2. z.pos \in Nat /\ lastPoint <= z.pos /\ (z.pos # 0 => bound # NoPoint)
    BY <2>1, DecoderType DEF Stream, Placed, Bound
  <2> QED
    BY <2>1, <2>2, TilesOn DEF Tiles, Holds
<1>4. ASSUME NEW o, Advances(o) PROVE Tiles'
  <2>1. /\ phase # "failed" /\ lastPoint' = lastPoint /\ accessPoints' = accessPoints
        /\ Covered' = Covered
    BY <1>4 DEF Advances, Answers, Covered, Writing
  <2> QED
    BY <2>1 DEF Tiles, Holds
<1>5. ASSUME NEW o, NotesPoint(o) PROVE Tiles'
  <2>1. /\ phase # "failed" /\ phase \notin Writing /\ accessPoints' = Added(o.z.pos)
        /\ lastPoint' = o.z.pos /\ Covered' = o.z.pos
    BY <1>5 DEF NotesPoint, Answers, Covered, Writing
  <2>2. /\ o.z.pos \in Nat /\ lastPoint \in Nat /\ lastPoint <= o.z.pos
        /\ o.z.pos # 0 => bound # NoPoint
    BY <1>5, <2>1, BoundIfText
  <2>3. /\ \A a \in Added(o.z.pos) : /\ 0 <= a.start /\ a.start <= lastPoint
                                     /\ a.end < o.z.pos
        /\ \A p \in 0 .. (o.z.pos - 1) : \E a \in Added(o.z.pos) : Holds(a, p)
        /\ \A a, c \in Added(o.z.pos) : a = c \/ a.end < c.start \/ c.end < a.start
    BY <2>1, <2>2, TilesOn
  <2>4. \A a \in Added(o.z.pos) : a.start <= o.z.pos
    <3>1. Added(o.z.pos) \subseteq Point
      BY <2>1, <2>2, AddedIs
    <3> QED
      BY <2>2, <2>3, <3>1, PointType
  <2> QED
    BY <2>1, <2>3, <2>4 DEF Tiles, Holds
<1>6. ASSUME NEW o, LeavesMember(o) PROVE Tiles'
  <2>1. /\ phase # "failed" /\ lastPoint' = lastPoint /\ accessPoints' = accessPoints
        /\ Covered' = Covered
    BY <1>6 DEF LeavesMember, Answers, Covered, Writing
  <2> QED
    BY <2>1 DEF Tiles, Holds
<1> QED
  BY <1>1, <1>2, <1>3, <1>4, <1>5, <1>6, StepKinds

-----------------------------------------------------------------------------
(* Members and blocks                                                       *)

\* The decoder after each kind of outcome.
LEMMA AdvancesTo ==
    ASSUME Types, Stream, NEW o, Advances(o)
    PROVE  /\ z.block \in 1 .. Len(file.blocks)
           /\ \/ o.z.block = z.block /\ o.z.part = z.part
              \/ /\ z.part = "body" /\ o.z.block = z.block
                 /\ o.z.part \in {"body", "trailer"}
              \/ /\ z.part = "body" /\ o.z.block = z.block + 1 /\ o.z.part = "body"
                 /\ ~file.blocks[z.block].closes /\ o.z.pos - lastPoint <= indexEvery
                 /\ o.z.pos = file.blocks[z.block].to
<1>1. z.block \in 1 .. Len(file.blocks)
  BY Inflated DEF Advances, Answers
<1>2. Waits(file, z, filePos, o) => o.z = z
  BY DEF Waits
<1>3. Produces(file, z, o) => z.part = "body" /\ o.z.block = z.block /\ o.z.part = "body"
  BY AtParts DEF Produces
<1>4. LeavesData(file, z, o) =>
         z.part = "body" /\ o.z.block = z.block /\ o.z.part = "trailer"
  BY AtParts DEF LeavesData
<1>5. LeavesBlock(file, z, o) =>
         /\ z.part = "body" /\ o.z.block = z.block + 1 /\ o.z.part = "body"
         /\ ~file.blocks[z.block].closes /\ o.z.pos = file.blocks[z.block].to
  BY AtParts DEF LeavesBlock
<1> QED
  BY <1>1, <1>2, <1>3, <1>4, <1>5 DEF Advances

LEMMA NotesPointAt ==
    ASSUME Types, Stream, NEW o, NotesPoint(o)
    PROVE  /\ phase = "inflate" /\ phase # "failed" /\ phase' # "failed"
           /\ z.block \in 1 .. Len(file.blocks) /\ o.z.block \in 1 .. Len(file.blocks)
           /\ o.z.part = "body" /\ o.z.pos \in Nat /\ z.pos \in Nat /\ z.pos <= o.z.pos
           /\ file.blocks[o.z.block].from = o.z.pos
           /\ Placed(file, o.z, o.in)
           /\ \/ o.z.block = z.block /\ z.part = "header" /\ o.z.pos = z.pos
              \/ /\ o.z.block = z.block + 1 /\ z.part = "body"
                 /\ ~file.blocks[z.block].closes /\ o.z.pos - lastPoint > indexEvery
<1>1. /\ phase = "inflate" /\ phase # "failed" /\ phase' # "failed"
      /\ o \in InflateToBlock(file, z, filePos - availIn, filePos, availOut)
      /\ EntersBody(file, z, o) \/ LeavesBlock(file, z, o)
  BY DEF NotesPoint, Answers
<1>2. /\ z.block \in 1 .. Len(file.blocks) /\ z.pos \in Nat
      /\ o.z.pos \in Nat /\ z.pos <= o.z.pos /\ Placed(file, o.z, o.in)
  BY <1>1, Inflated DEF EntersBody, LeavesBlock
<1>3. /\ o.z.block \in 1 .. Len(file.blocks) /\ o.z.part = "body"
      /\ file.blocks[o.z.block].from = o.z.pos
  BY <1>1, NewPointPrimes
<1>4. EntersBody(file, z, o) =>
         o.z.block = z.block /\ z.part = "header" /\ o.z.pos = z.pos
  BY AtParts DEF EntersBody
<1>5. LeavesBlock(file, z, o) =>
         o.z.block = z.block + 1 /\ z.part = "body" /\ ~file.blocks[z.block].closes
  BY AtParts DEF LeavesBlock
<1>6. \/ EntersBody(file, z, o)
      \/ LeavesBlock(file, z, o) /\ o.z.pos - lastPoint > indexEvery
  BY DEF NotesPoint
<1> QED
  BY <1>1, <1>2, <1>3, <1>4, <1>5, <1>6

LEMMA LeavesMemberTo ==
    ASSUME NEW o, LeavesMember(o)
    PROVE  /\ phase # "failed" /\ phase' # "failed" /\ z.part = "trailer"
           /\ o.z.block = z.block + 1 /\ o.z.part = "header" /\ o.z.pos = z.pos
BY AtParts DEF LeavesMember, Answers, EndsMember

LEMMA KeepsMembersBegun ==
    ASSUME Types, Stream, Waiting, Bound, MembersBegun, [Next]_vars
    PROVE  MembersBegun'
<1>1. file' = file
  BY FileStays
<1>2. ASSUME z' = z, lastPoint' = lastPoint, phase # "failed"
      PROVE  MembersBegun'
  BY <1>1, <1>2 DEF MembersBegun, MemberBegun
<1>3. CASE Fails
  BY <1>3 DEF Fails, MembersBegun
<1>4. CASE Idles
  BY <1>2, <1>4 DEF Idles
<1>5. CASE Flushes
  BY <1>2, <1>5 DEF Flushes
<1>6. z.block \in Nat /\ z.part \in {"header", "body", "trailer"}
  BY DecoderType DEF Stream, Placed
<1>7. ASSUME NEW o, Advances(o) PROVE MembersBegun'
  <2>1. phase # "failed" /\ z' = o.z /\ lastPoint' = lastPoint
    BY <1>7 DEF Advances, Answers
  <2>2. ASSUME NEW k \in 1 .. Len(file.blocks), file.blocks[k].closes,
               k < o.z.block, o.z.part = "header" => k < o.z.block - 1
        PROVE  file.blocks[k].to <= lastPoint
    <3>1. MemberBegun(k)
      BY <1>6, <1>7, <2>2, AdvancesTo DEF MemberBegun
    <3> QED
      BY <2>1, <2>2, <3>1 DEF MembersBegun
  <2> QED
    BY <1>1, <2>1, <2>2 DEF MembersBegun, MemberBegun
<1>8. ASSUME NEW o, NotesPoint(o) PROVE MembersBegun'
  <2>1. z' = o.z /\ lastPoint' = o.z.pos
    BY <1>8 DEF NotesPoint
  <2>2. ASSUME NEW k \in 1 .. Len(file.blocks), k < o.z.block
        PROVE  file.blocks[k].to <= o.z.pos
    BY <1>8, <2>2, NotesPointAt, PlacedBetween, FileIs
  <2> QED
    BY <1>1, <2>1, <2>2 DEF MembersBegun, MemberBegun
<1>9. ASSUME NEW o, LeavesMember(o) PROVE MembersBegun'
  <2>1. z' = o.z /\ lastPoint' = lastPoint
    BY <1>9 DEF LeavesMember
  <2>2. ASSUME NEW k \in 1 .. Len(file.blocks), file.blocks[k].closes,
               k < o.z.block, o.z.part = "header" => k < o.z.block - 1
        PROVE  file.blocks[k].to <= lastPoint
    <3>1. MemberBegun(k)
      BY <1>6, <1>9, <2>2, LeavesMemberTo DEF MemberBegun
    <3> QED
      BY <1>9, <2>2, <3>1, LeavesMemberTo DEF MembersBegun
  <2> QED
    BY <1>1, <2>1, <2>2 DEF MembersBegun, MemberBegun
<1> QED
  BY <1>3, <1>4, <1>5, <1>7, <1>8, <1>9, StepKinds

\* Between members, all that is begun ends no later than the latest point.
LEMMA BegunBefore ==
    ASSUME Types, Stream, MembersBegun, phase # "failed", z.part = "header",
           NEW k \in 1 .. Len(file.blocks), file.blocks[k].closes,
           file.blocks[k].to < z.pos
    PROVE  file.blocks[k].to <= lastPoint
<1>1. /\ z.block \in 1 .. (Len(file.blocks) + 1) /\ z.block \in Nat /\ z.pos \in Nat
      /\ z.pos = Before(file, z.block) /\ Len(file.blocks) \in Nat
  BY DecoderType, FileIs, BlockType DEF Stream, Placed
<1>2. file.blocks[k].to \in Nat
  BY FileIs, BlockType
<1>3. k < z.block
  <2>1. k >= z.block => z.pos <= file.blocks[k].to
    BY FileIs, PlacedBetween DEF Stream
  <2> QED
    BY <1>1, <1>2, <2>1
<1>4. k # z.block - 1
  BY <1>1, <1>2, <1>3 DEF Before
<1>5. MemberBegun(k)
  BY <1>1, <1>3, <1>4 DEF MemberBegun
<1> QED
  BY <1>5 DEF MembersBegun

LEMMA KeepsNoSpan ==
    ASSUME Types, Stream, Waiting, Bound, MembersBegun, NoPointSpansMembers, [Next]_vars
    PROVE  NoPointSpansMembers'
<1>1. file' = file
  BY FileStays
<1> SUFFICES ASSUME NEW a \in accessPoints', NEW k \in 1 .. Len(file.blocks),
                    file.blocks[k].closes,
                    a.start < file.blocks[k].to, file.blocks[k].to <= a.end
             PROVE  FALSE
  BY <1>1, FileIs, BlockType DEF NoPointSpansMembers
<1>2. k \in DOMAIN file.blocks /\ file.blocks[k].to \in Nat
  BY FileIs, BlockType
<1>3. lastPoint \in Nat /\ z.block \in Nat /\ z.pos \in Nat
  BY DecoderType DEF Bound, Stream, Placed
<1>4. a \notin accessPoints
  BY <1>2 DEF NoPointSpansMembers
<1>5. CASE Flushes /\ a.start = lastPoint /\ a.end = z.pos - 1
  <2>1. phase # "failed" /\ z.part = "header"
    BY <1>5 DEF Flushes, Waiting, Ended
  <2>2. file.blocks[k].to < z.pos
    BY <1>2, <1>3, <1>5
  <2>3. file.blocks[k].to <= lastPoint
    BY <2>1, <2>2, BegunBefore
  <2> QED
    BY <1>2, <1>3, <1>5, <2>3
<1>6. ASSUME NEW o, NotesPoint(o), a.start = lastPoint, a.end = o.z.pos - 1
      PROVE  FALSE
  <2>1. /\ phase # "failed" /\ o.z.pos \in Nat
        /\ o.z.block \in 1 .. Len(file.blocks) /\ Placed(file, o.z, o.in)
        /\ \/ o.z.block = z.block /\ z.part = "header" /\ o.z.pos = z.pos
           \/ /\ o.z.block = z.block + 1 /\ z.part = "body"
              /\ ~file.blocks[z.block].closes
    BY <1>6, NotesPointAt
  <2>2. file.blocks[k].to < o.z.pos
    BY <1>2, <1>6, <2>1
  <2>3. CASE z.part = "header" /\ o.z.pos = z.pos
    <3>1. file.blocks[k].to <= lastPoint
      BY <2>1, <2>2, <2>3, BegunBefore
    <3> QED
      BY <1>2, <1>3, <1>6, <3>1
  <2>4. CASE o.z.block = z.block + 1 /\ z.part = "body" /\ ~file.blocks[z.block].closes
    <3>1. k >= o.z.block => o.z.pos <= file.blocks[k].to
      BY <2>1, FileIs, PlacedBetween
    <3>2. k < o.z.block /\ k # z.block
      BY <1>2, <1>3, <2>1, <2>2, <2>4, <3>1
    <3>3. MemberBegun(k)
      BY <1>3, <2>4, <3>2 DEF MemberBegun
    <3>4. file.blocks[k].to <= lastPoint
      BY <2>1, <3>3 DEF MembersBegun
    <3> QED
      BY <1>2, <1>3, <1>6, <3>4
  <2> QED
    BY <2>1, <2>3, <2>4
<1> QED
  BY <1>4, <1>5, <1>6, RowsAfter

LEMMA KeepsCloseBy ==
    ASSUME Types, Stream, Waiting, Bound, CloseBy, [Next]_vars
    PROVE  CloseBy'
<1>1. file' = file /\ indexEvery' = indexEvery
  BY FileStays
<1>2. ASSUME z' = z, lastPoint' = lastPoint, phase # "failed"
      PROVE  CloseBy'
  BY <1>1, <1>2 DEF CloseBy, BlockBegun
<1>3. CASE Fails
  BY <1>3 DEF Fails, CloseBy
<1>4. CASE Idles
  BY <1>2, <1>4 DEF Idles
<1>5. CASE Flushes
  BY <1>2, <1>5 DEF Flushes
<1>6. /\ z.block \in Nat /\ z.part \in {"header", "body", "trailer"}
      /\ lastPoint \in Nat /\ Len(file.blocks) \in Nat
  BY DecoderType, FileIs, BlockType DEF Stream, Placed, Bound
<1>7. ASSUME NEW o, Advances(o) PROVE CloseBy'
  <2>1. phase # "failed" /\ z' = o.z /\ lastPoint' = lastPoint
    BY <1>7 DEF Advances, Answers
  <2>2. ASSUME NEW k \in 1 .. Len(file.blocks), lastPoint < file.blocks[k].from,
               k < o.z.block \/ (k = o.z.block /\ o.z.part # "header")
        PROVE  file.blocks[k].from - lastPoint <= indexEvery
    <3>1. CASE BlockBegun(k)
      BY <2>1, <2>2, <3>1 DEF CloseBy
    <3>2. CASE ~BlockBegun(k)
      <4>1. /\ z.block \in 1 .. Len(file.blocks)
            /\ k = z.block + 1 /\ ~file.blocks[z.block].closes
            /\ o.z.pos - lastPoint <= indexEvery /\ o.z.pos = file.blocks[z.block].to
        BY <1>6, <1>7, <2>2, <3>2, AdvancesTo DEF BlockBegun
      <4>2. z.block \in 1 .. (Len(file.blocks) - 1)
        BY <1>6, <4>1
      <4>3. file.blocks[z.block + 1].from = file.blocks[z.block].to
        BY <4>2, FileIs, BlocksFollow
      <4> QED
        BY <4>1, <4>3
    <3> QED
      BY <3>1, <3>2
  <2> QED
    BY <1>1, <2>1, <2>2 DEF CloseBy, BlockBegun
<1>8. ASSUME NEW o, NotesPoint(o) PROVE CloseBy'
  <2>1. z' = o.z /\ lastPoint' = o.z.pos
    BY <1>8 DEF NotesPoint
  <2>2. /\ o.z.block \in 1 .. Len(file.blocks) /\ o.z.pos \in Nat
        /\ file.blocks[o.z.block].from = o.z.pos /\ Placed(file, o.z, o.in)
    BY <1>8, NotesPointAt
  <2>3. ASSUME NEW k \in 1 .. Len(file.blocks), k < o.z.block \/ k = o.z.block
        PROVE  ~(o.z.pos < file.blocks[k].from)
    <3>1. k < o.z.block => file.blocks[k].to <= o.z.pos
      BY <2>2, FileIs, PlacedBetween
    <3>2. /\ file.blocks[k].from \in Nat /\ file.blocks[k].to \in Nat
          /\ file.blocks[k].from <= file.blocks[k].to
      BY FileIs, BlockType
    <3>3. CASE k < o.z.block
      BY <2>2, <3>1, <3>2, <3>3
    <3>4. CASE k = o.z.block
      BY <2>2, <3>4
    <3> QED
      BY <2>3, <3>3, <3>4
  <2> QED
    BY <1>1, <2>1, <2>3 DEF CloseBy, BlockBegun
<1>9. ASSUME NEW o, LeavesMember(o) PROVE CloseBy'
  <2>1. z' = o.z /\ lastPoint' = lastPoint /\ phase # "failed"
    BY <1>9, LeavesMemberTo DEF LeavesMember
  <2>2. ASSUME NEW k \in 1 .. Len(file.blocks), lastPoint < file.blocks[k].from,
               k < o.z.block \/ (k = o.z.block /\ o.z.part # "header")
        PROVE  file.blocks[k].from - lastPoint <= indexEvery
    <3>1. BlockBegun(k)
      BY <1>6, <1>9, <2>2, LeavesMemberTo DEF BlockBegun
    <3> QED
      BY <2>1, <2>2, <3>1 DEF CloseBy
  <2> QED
    BY <1>1, <2>1, <2>2 DEF CloseBy, BlockBegun
<1> QED
  BY <1>3, <1>4, <1>5, <1>7, <1>8, <1>9, StepKinds

LEMMA KeepsShortRows ==
    ASSUME Types, Stream, Waiting, Bound, CloseBy, ShortRows, [Next]_vars
    PROVE  ShortRows'
<1>1. file' = file /\ indexEvery' = indexEvery
  BY FileStays
<1> SUFFICES ASSUME NEW a \in accessPoints', NEW k \in 1 .. Len(file.blocks),
                    a.start < file.blocks[k].from, file.blocks[k].from <= a.end
             PROVE  file.blocks[k].from - a.start <= indexEvery
  BY <1>1 DEF ShortRows, RowIsShort
<1>2. /\ z.block \in 1 .. (Len(file.blocks) + 1) /\ z.block \in Nat /\ z.pos \in Nat
      /\ Len(file.blocks) \in Nat /\ file.blocks[k].from \in Nat
  BY DecoderType, FileIs, BlockType DEF Stream, Placed
<1>3. CASE a \in accessPoints
  BY <1>3 DEF ShortRows, RowIsShort
<1>4. ASSUME phase # "failed", a.start = lastPoint, BlockBegun(k)
      PROVE  file.blocks[k].from - a.start <= indexEvery
  BY <1>4 DEF CloseBy
<1>5. ASSUME z.part = "header", file.blocks[k].from < z.pos
      PROVE  BlockBegun(k)
  <2>1. z.pos = Before(file, z.block)
    BY <1>5 DEF Stream, Placed
  <2>2. z.block <= k => Before(file, z.block) <= file.blocks[k].from
    BY <1>2, FileIs, BeforeIs
  <2> QED
    BY <1>2, <1>5, <2>1, <2>2 DEF BlockBegun
<1>6. CASE Flushes /\ phase # "failed" /\ a.start = lastPoint /\ a.end = z.pos - 1
  <2>1. z.part = "header"
    BY <1>6 DEF Flushes, Waiting, Ended
  <2>2. file.blocks[k].from < z.pos
    BY <1>2, <1>6
  <2> QED
    BY <1>4, <1>5, <1>6, <2>1, <2>2
<1>7. ASSUME NEW o, NotesPoint(o), a.start = lastPoint, a.end = o.z.pos - 1
      PROVE  file.blocks[k].from - a.start <= indexEvery
  <2>1. /\ phase # "failed" /\ o.z.pos \in Nat
        /\ o.z.block \in 1 .. Len(file.blocks) /\ Placed(file, o.z, o.in)
        /\ file.blocks[o.z.block].from = o.z.pos
        /\ \/ z.part = "header" /\ o.z.pos = z.pos
           \/ o.z.block = z.block + 1 /\ z.part = "body"
    BY <1>7, NotesPointAt
  <2>2. file.blocks[k].from < o.z.pos
    BY <1>2, <1>7, <2>1
  <2>3. CASE z.part = "header" /\ o.z.pos = z.pos
    BY <1>4, <1>5, <1>7, <2>1, <2>2, <2>3
  <2>4. CASE o.z.block = z.block + 1 /\ z.part = "body"
    <3>1. k > o.z.block => o.z.pos <= file.blocks[k].from
      BY <2>1, FileIs, PlacedBetween
    <3>2. k < o.z.block
      BY <1>2, <2>1, <2>2, <3>1
    <3>3. BlockBegun(k)
      BY <1>2, <2>4, <3>2 DEF BlockBegun
    <3> QED
      BY <1>4, <1>7, <2>1, <3>3
  <2> QED
    BY <2>1, <2>3, <2>4
<1> QED
  BY <1>3, <1>6, <1>7, RowsAfter

LEMMA KeepsFarApart ==
    ASSUME Types, Stream, Waiting, Bound, Tiles, FarApart, [Next]_vars
    PROVE  FarApart'
<1>1. file' = file /\ indexEvery' = indexEvery
  BY FileStays
<1>2. lastPoint \in Nat /\ indexEvery \in Nat
  BY DEF Bound, Types
<1> SUFFICES ASSUME NEW c \in Points', ~StartsMember(c),
                    NEW r \in accessPoints', r.start < c.start
             PROVE  c.start - r.start > indexEvery
  BY <1>1 DEF FarApart, StartsMember, FarFromRows
<1>3. /\ phase # "failed" => r.start \in Int /\ r.start <= lastPoint
      /\ r \in accessPoints \/ r.start = lastPoint
  <2>1. CASE r \in accessPoints
    BY <2>1, PointType DEF Tiles, Bound
  <2>2. CASE r \notin accessPoints
    BY <1>2, <2>2, RowsAfter
  <2> QED
    BY <2>1, <2>2
<1>4. phase # "failed"
  <2>1. CASE r \in accessPoints
    BY <2>1 DEF Bound
  <2>2. CASE r \notin accessPoints
    BY <2>2, RowsAfter
  <2> QED
    BY <2>1, <2>2
<1>5. ASSUME NEW a \in Points, a.start = c.start
      PROVE  c.start - r.start > indexEvery
  <2>1. ~StartsMember(a)
    BY <1>5 DEF StartsMember
  <2>2. FarFromRows(a)
    BY <2>1 DEF FarApart
  <2>3. a.start \in Int /\ a.start <= lastPoint
    <3>1. CASE a \in accessPoints
      BY <1>4, <3>1, PointType DEF Tiles, Bound
    <3>2. CASE a \notin accessPoints
      BY <1>2, <1>4, <3>2 DEF Bound, Points
    <3> QED
      BY <3>1, <3>2
  <2>4. r \in accessPoints
    BY <1>2, <1>3, <1>5, <2>3
  <2> QED
    BY <1>5, <2>2, <2>4 DEF FarFromRows
<1>6. ASSUME NEW o, NotesPoint(o), c = NewPoint(o)
      PROVE  c.start - r.start > indexEvery
  <2>1. c.start = o.z.pos
    BY <1>6, NewPointParts
  <2>2. /\ o.z.pos \in Nat /\ z.block \in 1 .. Len(file.blocks)
        /\ \/ z.part = "header" /\ o.z.pos = z.pos
           \/ o.z.pos - lastPoint > indexEvery
    BY <1>6, NotesPointAt
  <2>3. CASE z.part = "header" /\ o.z.pos = z.pos
    <3>1. /\ z.pos = Before(file, z.block)
          /\ z.block # 1 => file.blocks[z.block - 1].closes
      BY <2>3 DEF Stream, Placed
    <3>2. z.block # 1 => z.block - 1 \in 1 .. Len(file.blocks)
      BY <2>2, FileIs, BlockType
    <3>3. StartsMember(c)
      BY <2>1, <2>3, <3>1, <3>2 DEF StartsMember, Before
    <3> QED
      BY <3>3
  <2>4. CASE o.z.pos - lastPoint > indexEvery
    BY <1>2, <1>3, <1>4, <2>1, <2>2, <2>4
  <2> QED
    BY <2>2, <2>3, <2>4
<1> QED
  BY <1>5, <1>6, PointsAfter

-----------------------------------------------------------------------------
(* The theorems                                                             *)

LEMMA KeepsInvariant ==
    ASSUME IInv, [Next]_vars
    PROVE  IInv'
BY KeepsTypes, KeepsStream, KeepsWaiting, KeepsBound, KeepsPrimed, KeepsTiles,
   KeepsMembersBegun, KeepsNoSpan, KeepsCloseBy, KeepsShortRows, KeepsFarApart DEF IInv

\* What build() keeps true from its call to its end: the decoder is somewhere in the
\* file, the ring holds the text up to there, and the access points cover it.
THEOREM Invariance == Spec => []IInv
<1>1. Init => IInv
  BY InitInvariant
<1>2. IInv /\ [Next]_vars => IInv'
  BY KeepsInvariant
<1> QED
  BY <1>1, <1>2, PTL DEF Spec

LEMMA TypeFollows == IInv => TypeOK
<1> SUFFICES ASSUME IInv PROVE TypeOK
  OBVIOUS
<1>1. Types /\ Stream /\ Bound
  BY DEF IInv
<1>2. WindowSize \in Nat /\ z.pos \in Nat /\ availOut \in 0 .. WindowSize
  BY <1>1, DecoderType, NumbersAre DEF Stream, Placed, Types
<1>3. z.pos <= TextLength(file) /\ TextLength(file) \in Nat
  BY <1>1, FileIs, PlacedBetween, TextLengthIs DEF Stream
<1>4. ASSUME NEW i \in 1 .. WindowSize
      PROVE  window[i] \in -WindowSize .. (TextLength(file) - 1)
  <2>1. window[i] = RingByte(i, z.pos, availOut)
    BY <1>1 DEF Stream, RingHolds
  <2> QED
    BY <1>2, <1>3, <2>1 DEF RingByte
<1>5. window \in [1 .. WindowSize -> -WindowSize .. (TextLength(file) - 1)]
  BY <1>1, <1>4 DEF Stream, RingHolds
<1>6. totalOut = z.pos /\ lastPoint \in 0 .. totalOut
  BY <1>1, <1>2 DEF Types, Bound
<1> QED
  BY <1>1, <1>5, <1>6 DEF TypeOK, Types, Bound, Phases

\* The state of build() stays in range: the counts of bytes read and written agree
\* with the decoder, and the ring holds bytes of the text or of the stack it was.
THEOREM TypeCorrect == Spec => []TypeOK
BY Invariance, TypeFollows, PTL

LEMMA DecodableFollows == IInv => PointsAreDecodable
<1> SUFFICES ASSUME IInv, NEW a \in Points
             PROVE  \E k \in DOMAIN file.blocks :
                       LET b == file.blocks[k]
                           reach == Smaller(WindowSize, b.from - MemberStart(file, k))
                       IN  /\ b.from = a.start
                           /\ b.start = ByteBits * a.compressed - a.bits
                           /\ a.bits \in 0 .. (ByteBits - 1)
                           /\ SubSeq(a.window, WindowSize - reach + 1, WindowSize)
                                 = Slice(a.start - reach, a.start)
  BY DEF PointsAreDecodable
<1>1. PICK k \in DOMAIN file.blocks : PrimesAt(a, k)
  BY DEF IInv, Primed
<1> DEFINE b == file.blocks[k]
           reach == Smaller(WindowSize, b.from - MemberStart(file, k))
<1>2. IsFile(file) /\ WindowSize \in Nat
  BY FileIs, NumbersAre DEF IInv
<1>3. b.from \in Nat /\ MemberStart(file, k) \in 0 .. b.from
  BY <1>2, BlockType, MemberStartBound
<1>4. reach \in 0 .. WindowSize
  BY <1>2, <1>3 DEF Smaller
<1>5. a.start = b.from /\ a.window = Slice(a.start - WindowSize, a.start)
  BY <1>1 DEF PrimesAt
<1>6. SubSeq(a.window, WindowSize - reach + 1, WindowSize) = Slice(a.start - reach, a.start)
  <2> HIDE DEF b, reach
  <2> QED
    BY <1>3, <1>4, <1>5, WindowReach, BuilderAssumption
<1> QED
  BY <1>1, <1>6 DEF PrimesAt

\* Every access point, inserted or bound, can be decoded from: whatever the sizes of
\* the ring and of the input buffer and wherever the deflate blocks lie, its offset
\* and bits are a block's and its window is the text the block can refer to.
THEOREM Decodable == Spec => []PointsAreDecodable
BY Invariance, DecodableFollows, PTL

\* No access point covers text of two members.
THEOREM NoSpan == Spec => []NoPointSpansMembers
<1>1. IInv => NoPointSpansMembers
  BY DEF IInv
<1> QED
  BY <1>1, Invariance, PTL

LEMMA TilingFollows == IInv => PointsTileText
<1> SUFFICES ASSUME IInv, phase = "done", NEW p \in 0 .. (totalOut - 1)
             PROVE  Cardinality({a \in accessPoints : a.start <= p /\ p <= a.end}) = 1
  BY DEF PointsTileText
<1> DEFINE holding == {a \in accessPoints : a.start <= p /\ p <= a.end}
<1>1. /\ \A p1 \in 0 .. (totalOut - 1) : \E a \in accessPoints : Holds(a, p1)
      /\ \A a, c \in accessPoints : a = c \/ a.end < c.start \/ c.end < a.start
  BY DEF IInv, Tiles, Covered, Writing, Types
<1>2. \A a \in accessPoints : a.start \in Int /\ a.end \in Int
  BY PointType DEF IInv, Bound
<1>3. PICK a \in accessPoints : Holds(a, p)
  BY <1>1
<1>4. ASSUME NEW c \in holding PROVE c = a
  BY <1>1, <1>2, <1>3 DEF Holds
<1>5. holding = {a}
  BY <1>3, <1>4 DEF Holds
<1> QED
  BY <1>5, FS_Singleton

\* A committed index has exactly one access point for every byte of the text.
THEOREM Tiling == Spec => []PointsTileText
BY Invariance, TilingFollows, PTL

LEMMA SpacingFollows == IInv => PointsAreSpaced
<1> SUFFICES ASSUME IInv PROVE PointsAreSpaced
  OBVIOUS
<1>1. DOMAIN file.blocks = 1 .. Len(file.blocks) /\ indexEvery \in Nat
  BY FileIs, BlockType DEF IInv, Types
<1>2. ASSUME NEW a \in accessPoints, NEW k \in DOMAIN file.blocks,
             a.start < file.blocks[k].from, file.blocks[k].from <= a.end
      PROVE  file.blocks[k].from - a.start <= indexEvery
  BY <1>1, <1>2 DEF IInv, ShortRows, RowIsShort
<1>3. ASSUME NEW a \in accessPoints, NEW c \in accessPoints,
             a.start < c.start, c.start - a.start <= indexEvery
      PROVE  \E k \in DOMAIN file.blocks :
                /\ file.blocks[k].closes
                /\ a.start <= file.blocks[k].to /\ file.blocks[k].to <= c.start
  <2>1. a.start \in Int /\ c.start \in Int
    BY PointType DEF IInv, Bound
  <2>2. 0 <= a.start
    BY DEF IInv, Bound, Tiles
  <2>3. StartsMember(c)
    <3>1. ~FarFromRows(c)
      BY <1>1, <1>3, <2>1 DEF FarFromRows
    <3>2. c \in Points
      BY DEF Points
    <3> QED
      BY <3>1, <3>2 DEF IInv, FarApart
  <2>4. c.start # 0
    BY <1>3, <2>1, <2>2
  <2>5. PICK k \in DOMAIN file.blocks : file.blocks[k].closes /\ file.blocks[k].to = c.start
    BY <1>1, <2>3, <2>4 DEF StartsMember
  <2>6. a.start <= file.blocks[k].to /\ file.blocks[k].to <= c.start
    BY <1>3, <2>1, <2>5
  <2> QED
    BY <2>5, <2>6
<1> QED
  BY <1>2, <1>3 DEF PointsAreSpaced

\* Access points are spaced as asked: no block starts further than indexEvery after
\* the point that covers it, and two points that close have a member's end between.
THEOREM Spacing == Spec => []PointsAreSpaced
BY Invariance, SpacingFollows, PTL
=============================================================================
