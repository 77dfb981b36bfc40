--------------------------- MODULE CompressedFile ---------------------------
(***************************************************************************)
(* A gzip file as zlib presents it to zindex: members (streams) one after  *)
(* the other, each a header, deflate blocks that start and end on any bit, *)
(* and a trailer.  What inflate() does is external code, modelled from how *)
(* Index.cpp calls it; how many bytes a piece of input decodes to is left  *)
(* open wherever zlib leaves it open.                                      *)
(*                                                                         *)
(* A file f is a record                                                    *)
(*   newlines  positions of the newlines of the whole uncompressed text    *)
(*   blocks    the deflate blocks of all members, in order                 *)
(*   corrupt   indices of the blocks whose data is damaged                 *)
(*   size      bytes on disk: less than the layout needs if truncated      *)
(* and a block b holds text positions b.from .. b.to - 1 in file bits      *)
(* b.start .. b.end - 1; the last block of a member closes it and the      *)
(* member's trailer ends before byte b.tail.                               *)
(***************************************************************************)
EXTENDS Text

ByteBits == 8
HeaderBytes == 1
TrailerBytes == 1

\* The bytes that must have been read to have the first `bits` bits.
CeilBytes(bits) == (bits + ByteBits - 1) \div ByteBits

Smaller(a, b) == IF a < b THEN a ELSE b

\* The layout of a file whose blocks have the given text bytes and bits.
Layout(shape) ==
    LET block[k \in 0 .. Len(shape)] ==
            IF k = 0
            THEN [from |-> 0, to |-> 0, start |-> 0, end |-> 0,
                  closes |-> TRUE, tail |-> 0]
            ELSE LET prev == block[k - 1]
                     start == IF prev.closes
                              THEN ByteBits * (prev.tail + HeaderBytes)
                              ELSE prev.end
                     end == start + shape[k].bits
                 IN  [from |-> prev.to, to |-> prev.to + shape[k].bytes,
                      start |-> start, end |-> end, closes |-> shape[k].closes,
                      tail |-> CeilBytes(end) + TrailerBytes]
    IN  [k \in 1 .. Len(shape) |-> block[k]]

WholeFile(shape, newlines) ==
    LET blocks == Layout(shape)
    IN  [newlines |-> newlines, blocks |-> blocks, corrupt |-> {},
         size |-> IF blocks = <<>> THEN 0 ELSE blocks[Len(blocks)].tail]

TextLength(f) == IF f.blocks = <<>> THEN 0 ELSE f.blocks[Len(f.blocks)].to

\* What every gzip file's layout is like, whether the file on disk is cut short or
\* not: the blocks, of at least a bit each, follow each other in the text and, with
\* a trailer and a header between two members, in the file; a member's first block
\* starts on a byte; only what is on disk can be damaged.
Follows(b, c) ==
    /\ b.to = c.from
    /\ IF b.closes THEN ByteBits * b.tail < c.start /\ c.start % ByteBits = 0
       ELSE b.end = c.start

IsFile(f) ==
    /\ f.size \in Nat
    /\ f.blocks \in Seq([from : Nat, to : Nat, start : Nat, end : Nat,
                         closes : BOOLEAN, tail : Nat])
    /\ f.blocks # <<>>
    /\ f.newlines \subseteq 0 .. (TextLength(f) - 1)
    /\ f.corrupt \subseteq {k \in DOMAIN f.blocks : f.blocks[k].start < ByteBits * f.size}
    /\ LET b == f.blocks[1]
       IN  b.from = 0 /\ 0 < b.start /\ b.start % ByteBits = 0
    /\ f.blocks[Len(f.blocks)].closes
    /\ f.size <= f.blocks[Len(f.blocks)].tail
    /\ \A k \in DOMAIN f.blocks :
          LET b == f.blocks[k]
          IN  b.from <= b.to /\ b.start < b.end /\ CeilBytes(b.end) < b.tail
    /\ \A k \in 1 .. (Len(f.blocks) - 1) : Follows(f.blocks[k], f.blocks[k + 1])

\* The index of the block that closes the member of block k.
Closing(f, k) ==
    CHOOSE c \in k .. Len(f.blocks) :
        /\ f.blocks[c].closes
        /\ \A j \in k .. (c - 1) : ~f.blocks[j].closes

\* Where the text of the member of block k starts.
MemberStart(f, k) ==
    LET opens == {j \in 1 .. k : j = 1 \/ f.blocks[j - 1].closes}
    IN  f.blocks[CHOOSE j \in opens : \A i \in opens : i <= j].from

-----------------------------------------------------------------------------
(* inflate(&stream, Z_BLOCK) in gzip mode, the builder's.  The decoder is   *)
(* z: the block it is in or about to enter, which part of the member it is  *)
(* reading, and the text position it has produced.  It is called with the   *)
(* input bytes in .. limit - 1, at least one, and room for `room` bytes of  *)
(* output, at least one.  It returns at the end of a header and of a block  *)
(* ("boundary": data_type & 0x80), at the end of a member, or when it has   *)
(* used up input or output.                                                 *)

NewDecoder == [block |-> 1, part |-> "header", pos |-> 0]

Outcome(ret, z, in, boundary, lastBlock) ==
    [ret |-> ret, z |-> z, in |-> in,
     boundary |-> boundary, lastBlock |-> lastBlock]

InHeader(f, z, limit) ==
    LET start == f.blocks[z.block].start
    IN  IF ByteBits * limit >= start
        THEN {Outcome("ok", [z EXCEPT !.part = "body"], start \div ByteBits,
                      TRUE, FALSE)}
        ELSE {Outcome("ok", z, limit, FALSE, FALSE)}

InBody(f, z, in, limit, room) ==
    LET b == f.blocks[z.block]
        end == CeilBytes(b.end)
        next == IF b.closes THEN [z EXCEPT !.part = "trailer", !.pos = b.to]
                ELSE [z EXCEPT !.block = @ + 1, !.pos = b.to]
    IN  IF z.block \in f.corrupt
        THEN {Outcome("error", z, in, FALSE, FALSE)}
        ELSE IF limit >= end /\ b.to - z.pos <= room
        THEN {Outcome("ok", next, end, TRUE, b.closes)}
        ELSE \* the output is full,
             {Outcome("ok", [z EXCEPT !.pos = @ + room], i, FALSE, b.closes) :
                 i \in IF z.pos + room < b.to
                       THEN in .. Smaller(limit, end) ELSE {}}
             \* or the input has run out
             \cup {Outcome("ok", [z EXCEPT !.pos = p], limit, FALSE, b.closes) :
                      p \in IF limit < end
                            THEN z.pos .. Smaller(z.pos + room, b.to) ELSE {}}

InTrailer(f, z, limit) ==
    LET tail == f.blocks[z.block].tail
    IN  IF limit >= tail
        THEN {Outcome("end", [z EXCEPT !.block = @ + 1, !.part = "header"],
                      tail, FALSE, TRUE)}
        ELSE {Outcome("ok", z, limit, FALSE, TRUE)}

InflateToBlock(f, z, in, limit, room) ==
    CASE z.part = "header"  -> InHeader(f, z, limit)
      [] z.part = "body"    -> InBody(f, z, in, limit, room)
      [] z.part = "trailer" -> InTrailer(f, z, limit)

\* data_type & 7 at a boundary: the bits of the last byte read that belong to
\* what follows.
UnusedBits(z, f, in) ==
    ByteBits * in - (IF z.part = "trailer" THEN f.blocks[z.block].end
                     ELSE f.blocks[z.block].start)

-----------------------------------------------------------------------------
(* inflate(&stream, Z_NO_FLUSH) in raw mode, the reader's: it runs through   *)
(* the blocks of the member closed by block c until the output is full, the  *)
(* input has run out, or the deflate data of the member ends.                *)

\* A decoder that has produced text position p may have read up to byte i.
Consistent(f, c, p, i) ==
    \E k \in 1 .. c :
        /\ Closing(f, k) = c
        /\ f.blocks[k].from <= p /\ p <= f.blocks[k].to
        /\ CeilBytes(f.blocks[k].start) <= i /\ i <= CeilBytes(f.blocks[k].end)

RawOutcome(ret, pos, in) == [ret |-> ret, pos |-> pos, in |-> in]

InflateRaw(f, c, pos, in, limit, room) ==
    LET to == f.blocks[c].to
        end == CeilBytes(f.blocks[c].end)
        full == {RawOutcome("ok", pos + room, i) :
                    i \in {i \in in .. Smaller(limit, end) :
                              Consistent(f, c, pos + room, i)}}
        starved == {RawOutcome("ok", p, limit) :
                       p \in {p \in pos .. Smaller(pos + room, to) :
                                 Consistent(f, c, p, limit)}}
    IN  IF limit >= end /\ to - pos <= room
        THEN {RawOutcome("end", to, end)}
        ELSE (IF pos + room < to THEN full ELSE {})
             \cup (IF limit < end THEN starved ELSE {})
=============================================================================
