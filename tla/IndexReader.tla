---------------------------- MODULE IndexReader -----------------------------
(***************************************************************************)
(* Index::Impl (Index.cpp:226-445): getLine() looks a line up in the       *)
(* tables and print() inflates it, from the access point before it or from *)
(* where the previous call stopped.  print() is several steps, one per     *)
(* fread and one per inflate.                                              *)
(***************************************************************************)
EXTENDS CompressedFile, FiniteSets, FiniteSetsExt

CONSTANTS
    WindowSize,  \* bytes of the dictionary and of the discard buffer
    ChunkSize,   \* bytes of a context's input buffer
    MaxLength    \* rows of this length and longer are refused, 64M in the code

VARIABLES
    file, accessPoints, lineTable,  \* what the builder left; only read here
    readerPos,    \* position of compressed_, the one FILE all contexts share
    readerEof,    \* feof(compressed_)
    blockSize,    \* blockSize_
    cached,       \* cachedContext_
    context,      \* `context` in print()
    step,         \* where print() is
    row,          \* the row lineQuery_ is on
    numToSkip, skipping,
    outLeft,      \* avail_out of the context's stream
    lineBuf,      \* the bytes written to lineBuf so far
    answer        \* how the latest call ended

tables == <<file, accessPoints, lineTable>>
readerVars == <<readerPos, readerEof, blockSize, cached, context, step, row,
                numToSkip, skipping, outLeft, lineBuf, answer>>

\* A context: uncompressedOffset_ as the code counts it; and what its zlib
\* stream is really doing: the block that closes the member it decodes (0: it no
\* longer decodes this file), the text position it is at, the file offset of its
\* next input byte, and avail_in.
NoContext == [offset |-> -1, member |-> 0, pos |-> -1, in |-> -1, avail |-> 0]
Lost == 0
JunkByte == -1

NoRow == [line |-> 0, offset |-> 0, length |-> 0, point |-> <<>>]
\* `resumedAt`: where the kept context was that the call went on from, or -1.
NoAnswer == [kind |-> "none", row |-> NoRow, content |-> <<>>, resumedAt |-> -1]

ReaderInit ==
    /\ readerPos = 0
    /\ readerEof = FALSE
    /\ blockSize = 0
    /\ cached = NoContext
    /\ context = NoContext
    /\ step = "unloaded"
    /\ row = NoRow
    /\ numToSkip = 0
    /\ skipping = FALSE
    /\ outLeft = 0
    /\ lineBuf = <<>>
    /\ answer = NoAnswer

\* Index::load(): SELECT MAX(uncompressedEndOffset)/COUNT(*) FROM AccessPoints.
Load ==
    /\ step = "unloaded"
    /\ blockSize' = IF accessPoints = {} THEN 0
                    ELSE Max({a.end : a \in accessPoints})
                             \div Cardinality(accessPoints)
    /\ step' = "idle"
    /\ UNCHANGED <<tables, readerPos, readerEof, cached, context, row, numToSkip,
                   skipping, outLeft, lineBuf, answer>>

\* Mutant: the last byte of an access point does not count.
CoversAllButLast(a, offset) == a.start <= offset /\ offset < a.end

Covers(a, offset) == a.start <= offset /\ offset <= a.end

\* lineQuery_: the line's row joined with an access point that covers its offset.
Query(line) ==
    IF line \notin DOMAIN lineTable THEN {}
    ELSE LET r == lineTable[line]
         IN  {[line |-> line, offset |-> r.offset, length |-> r.length, point |-> a] :
                 a \in {a \in accessPoints : Covers(a, r.offset)}}

\* getLine(): false if the query has no row.
GetLine(line) ==
    /\ step = "idle"
    /\ IF Query(line) = {}
       THEN /\ answer' = [NoAnswer EXCEPT !.kind = "absent", !.row.line = line]
            /\ UNCHANGED <<row, step>>
       ELSE /\ row' \in Query(line)
            /\ answer' = NoAnswer
            /\ step' = "open"
    /\ UNCHANGED <<tables, readerPos, readerEof, blockSize, cached, context,
                   numToSkip, skipping, outLeft, lineBuf>>

-----------------------------------------------------------------------------
(* print(): the context                                                     *)

\* Mutant: a context is reused for an offset it has already passed.
OffsetWithinRangeBackwards(c, offset) ==
    c # NoContext /\ offset - c.offset < blockSize

\* CachedContext::offsetWithinRange().
OffsetWithinRange(c, offset) ==
    /\ c # NoContext
    /\ c.offset <= offset
    /\ offset - c.offset < blockSize

ReuseContext ==
    /\ step = "open"
    /\ OffsetWithinRange(cached, row.offset)
    /\ context' = cached
    /\ cached' = NoContext
    /\ answer' = [answer EXCEPT !.resumedAt = cached.offset]
    /\ step' = "measure"
    /\ UNCHANGED <<tables, readerPos, readerEof, blockSize, row, numToSkip,
                   skipping, outLeft, lineBuf>>

\* A raw decoder primed from an access point: it decodes the member of the block
\* that starts there if bit position and window are right.
FromPoint(a) ==
    LET at == {k \in DOMAIN file.blocks :
                  LET b == file.blocks[k]
                      reach == Smaller(WindowSize, b.from - MemberStart(file, k))
                  IN  /\ b.from = a.start
                      /\ b.start = ByteBits * a.compressed - a.bits
                      /\ SubSeq(a.window, WindowSize - reach + 1, WindowSize)
                             = Slice(a.start - reach, a.start)}
    IN  [offset |-> a.start, pos |-> a.start, in |-> a.compressed, avail |-> 0,
         member |-> IF at = {} THEN Lost ELSE Closing(file, Max(at))]

\* seek to the access point (fgetc reads the byte its bits are in).
CreateContext ==
    /\ step = "open"
    /\ ~OffsetWithinRange(cached, row.offset)
    /\ context' = FromPoint(row.point)
    /\ readerPos' = row.point.compressed
    /\ readerEof' = FALSE
    /\ step' = "measure"
    /\ UNCHANGED <<tables, blockSize, cached, row, numToSkip, skipping, outLeft,
                   lineBuf, answer>>

\* print() is left by an exception or by return; `context` is destroyed.
Leave(kind, content) ==
    /\ answer' = [answer EXCEPT !.kind = kind, !.row = row, !.content = content]
    /\ step' = IF kind = "crash" THEN "crashed" ELSE "idle"
    /\ context' = NoContext
    /\ row' = NoRow
    /\ numToSkip' = 0 /\ skipping' = FALSE /\ outLeft' = 0 /\ lineBuf' = <<>>

Throw == Leave("error", <<>>) /\ UNCHANGED cached

\* Index.cpp:375-381.
MeasureLine ==
    /\ step = "measure"
    /\ IF row.length >= MaxLength
       THEN Throw
       ELSE /\ numToSkip' = row.offset - context.offset
            /\ skipping' = TRUE
            /\ step' = "pass"
            /\ UNCHANGED <<cached, context, row, outLeft, lineBuf, answer>>
    /\ UNCHANGED <<tables, readerPos, readerEof, blockSize>>

-----------------------------------------------------------------------------
(* print(): the loops                                                       *)

\* Mutant: one buffer is as far as it skips.
SkipsOnce(out) == 0

LeftToSkip(out) == numToSkip - out

\* The head of the outer loop: discard up to WindowSize bytes, or, when there is
\* nothing left to skip, read the line.
BeginPass ==
    /\ step = "pass"
    /\ IF numToSkip = 0
       THEN /\ outLeft' = row.length
            /\ skipping' = FALSE
            /\ UNCHANGED numToSkip
       ELSE /\ outLeft' = Smaller(numToSkip, WindowSize)
            /\ numToSkip' = LeftToSkip(outLeft')
            /\ UNCHANGED skipping
    /\ step' = "inflate"
    /\ UNCHANGED <<tables, readerPos, readerEof, blockSize, cached, context, row,
                   lineBuf, answer>>

\* fread from wherever the shared FILE is: the bytes continue the context's input
\* only if nothing has moved it since.
RefillInput ==
    /\ step = "inflate"
    /\ context.avail = 0
    /\ LET got == Smaller(ChunkSize, file.size - readerPos)
       IN  /\ readerPos' = readerPos + got
           /\ readerEof' = (readerEof \/ got < ChunkSize)
           /\ IF got = 0
              THEN Throw
              ELSE /\ context' = [context EXCEPT
                                     !.avail = got,
                                     !.in = readerPos,
                                     !.member = IF readerPos = context.in THEN @
                                                ELSE Lost]
                   /\ UNCHANGED <<cached, step, row, numToSkip, skipping, outLeft,
                                  lineBuf, answer>>
    /\ UNCHANGED <<tables, blockSize>>

\* Mutant: the context is kept without the input that inflate() left in it.
KeptWithoutInput(c) == IF c = NoContext THEN c ELSE [c EXCEPT !.avail = 0]

\* cachedContext_ = std::move(context).
Kept(c) == c

\* The line's bytes go to the sink, without the newline, and the context is kept.
Deliver(c, bytes) ==
    /\ Leave("line", [i \in 1 .. (row.length - 1) |->
                         IF i \in DOMAIN bytes THEN bytes[i] ELSE JunkByte])
    /\ cached' = Kept(c)

\* The inner loop ends: the next pass, or the line is complete.
PassEnds(c, bytes) ==
    IF skipping
    THEN /\ context' = c
         /\ outLeft' = 0
         /\ step' = "pass"
         /\ UNCHANGED <<cached, row, numToSkip, skipping, lineBuf, answer>>
    ELSE Deliver(c, bytes)

GoOn(c, left, bytes) ==
    IF left = 0 THEN PassEnds(c, bytes)
    ELSE /\ context' = c
         /\ outLeft' = left
         /\ lineBuf' = bytes
         /\ UNCHANGED <<cached, step, row, numToSkip, skipping, answer>>

\* Mutant: inflate is called again after the end.
MemberEndsRetries(c, left, bytes) ==
    /\ context' = c
    /\ outLeft' = left
    /\ lineBuf' = bytes
    /\ UNCHANGED <<cached, step, row, numToSkip, skipping, answer>>

\* Z_STREAM_END (Index.cpp:414-437).  After context.reset() the loop condition
\* reads avail_out from the freed context: the allocator leaves the value there,
\* and if it is not zero the loop goes on with the freed stream.
MemberEnds(c, left, bytes) ==
    IF c.avail = 0 /\ readerEof THEN PassEnds(c, bytes)
    ELSE IF skipping THEN Throw
    ELSE IF left = 0 THEN Deliver(NoContext, bytes)
    ELSE Leave("crash", <<>>) /\ UNCHANGED cached

\* What inflate() may do; a decoder that has lost the file finds an error or not.
RawOutcomes ==
    IF context.member = Lost
    THEN {RawOutcome("error", context.pos, context.in),
          RawOutcome("junk", context.pos + outLeft, context.in + context.avail)}
    ELSE InflateRaw(file, context.member, context.pos, context.in,
                    context.in + context.avail, outLeft)

InflateLine ==
    /\ step = "inflate"
    /\ context.avail # 0
    /\ \E o \in RawOutcomes :
          LET made == o.pos - context.pos
              c == [context EXCEPT !.offset = @ + made, !.pos = o.pos, !.in = o.in,
                                   !.avail = context.in + @ - o.in]
              out == IF o.ret = "junk" THEN [i \in 1 .. made |-> JunkByte]
                     ELSE Slice(context.pos, o.pos)
              bytes == IF skipping THEN <<>> ELSE lineBuf \o out
          IN  CASE o.ret = "error" -> Throw
                [] o.ret = "end" -> MemberEnds(c, outLeft - made, bytes)
                [] OTHER -> GoOn(c, outLeft - made, bytes)
    /\ UNCHANGED <<tables, readerPos, readerEof, blockSize>>

-----------------------------------------------------------------------------
Printing == step \notin {"unloaded", "idle", "crashed"}

PrintStep ==
    \/ ReuseContext
    \/ CreateContext
    \/ MeasureLine
    \/ BeginPass
    \/ RefillInput
    \/ InflateLine

(* What must hold                                                           *)

ReaderTypeOK ==
    /\ readerPos \in 0 .. file.size /\ readerEof \in BOOLEAN
    /\ step \in {"unloaded", "idle", "open", "measure", "pass", "inflate",
                 "crashed"}
    /\ blockSize \in Nat /\ numToSkip \in Nat /\ outLeft \in Nat
    /\ skipping \in BOOLEAN
    /\ answer.kind \in {"none", "absent", "line", "error", "crash"}
    /\ Printing => row # NoRow
    /\ step = "idle" => context = NoContext

\* getLine() hands the sink exactly the bytes of the row it found, whatever was
\* asked for before and whichever context it decodes from.
DeliveredExactly ==
    answer.kind = "line" =>
        answer.content = Slice(answer.row.offset,
                               answer.row.offset + answer.row.length - 1)

\* Between calls, the context kept for the next one knows where it is: its count
\* of bytes is its decoder's, and the shared FILE is where its input continues.
CachedContextInSync ==
    (step = "idle" /\ cached # NoContext) =>
        /\ cached.member # Lost
        /\ cached.offset = cached.pos
        /\ readerPos = cached.in + cached.avail

\* "Retrieve a single line by line number, calling the supplied LineSink with the
\* line, if found" (Index.h:48-49): a row that is found is delivered.
FoundIsDelivered == answer.kind \notin {"error", "crash"}

MemberEndsBetween(from, to) ==
    \E k \in DOMAIN file.blocks :
        file.blocks[k].closes /\ from <= file.blocks[k].to /\ file.blocks[k].to <= to

\* The only calls that fail: on a row that goes on in another member, on the last
\* row of a text without final newline, and from a kept context on a row in a later
\* member than the context is in.  After the latter no context is kept, so asking
\* again succeeds, unless the member's text had been skipped to its last byte before
\* its data was read to the end: then the line is begun and the call crashes.
FailsOnlyAtMemberEnds ==
    answer.kind \in {"error", "crash"} =>
        LET from == answer.row.offset
            to == from + answer.row.length
        IN  \/ MemberEndsBetween(from + 1, to - 1)
            \/ /\ answer.resumedAt # -1 /\ cached = NoContext
               /\ MemberEndsBetween(answer.resumedAt, from)

\* Every call ends.
CallsReturn == Printing ~> ~Printing
=============================================================================
