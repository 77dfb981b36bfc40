---------------------------- MODULE IndexBuilder ----------------------------
(***************************************************************************)
(* Index::Builder::Impl (Index.cpp:454-727): addIndexer() and build().     *)
(* build() inflates the file into a ring of WindowSize bytes, notes access *)
(* points at deflate block boundaries, hands every full ring to the        *)
(* LineFinder, whose lines come back through onLine() to the indexers, and *)
(* last writes the line table.  Everything it inserts is one transaction.  *)
(***************************************************************************)
EXTENDS CompressedFile, FiniteSets

CONSTANTS
    WindowSize,   \* bytes of the output ring, 32768 in the code
    ChunkSize,    \* bytes of the input buffer, 16384 in the code
    Files,        \* the files that may be indexed
    IndexEverys,  \* the values indexEvery may be given
    SkipFirsts,   \* the values skipFirst may be given
    Indexers,     \* names of the indexers that may be added
    Sparses       \* the values config.sparse may have

ASSUME BuilderAssumption ==
    /\ WindowSize \in Nat \ {0} /\ ChunkSize \in Nat \ {0}
    /\ IndexEverys \subseteq Nat /\ SkipFirsts \subseteq Nat
    /\ Sparses \subseteq BOOLEAN

ASSUME FilesAssumption == \A f \in Files : IsFile(f)

VARIABLES
    phase,        \* where build() is
    file,         \* what is on disk; never changes
    indexEvery, skipFirst, saveAllLines,
    indexers,     \* the names of the indexers added
    filePos,      \* position of `from`
    eof,          \* feof(from)
    availIn, availOut,             \* zs.stream.avail_in, avail_out
    z,            \* the decoder inside zs
    totalIn, totalOut,
    lastPoint,    \* `last` in build(): totalOut at the latest access point
    first, emitInitialAccessPoint,
    window,       \* the ring; a negative byte is uninitialised stack
    bound,        \* what addIndex has bound: the access point not yet inserted
    accessPoints, \* rows of AccessPoints
    lineTable,    \* rows of LineOffsets, row k at index k
    keyRows,      \* rows of the index_ tables
    chunk, last, adding, lineBuffer, lineOffsets, currentLineOffset, calls

Finder == INSTANCE LineFinder WITH newlines <- file.newlines

finderVars ==
    <<chunk, last, adding, lineBuffer, lineOffsets, currentLineOffset, calls>>
config == <<file, indexEvery, skipFirst, saveAllLines, indexers>>
input == <<filePos, eof>>
stream == <<availIn, availOut, z, totalIn, totalOut, window>>
points == <<lastPoint, emitInitialAccessPoint, bound, accessPoints>>
vars == <<phase, config, input, stream, points, first, lineTable, keyRows,
          finderVars>>

NoPoint == [start |-> -1, end |-> -1, compressed |-> -1, bits |-> -1,
            window |-> <<>>]

Init ==
    /\ phase = "configure"
    /\ file \in Files
    /\ indexEvery \in IndexEverys
    /\ skipFirst \in SkipFirsts
    /\ saveAllLines = FALSE
    /\ indexers = {}
    /\ filePos = 0 /\ eof = FALSE
    /\ availIn = 0 /\ availOut = 0
    /\ z = NewDecoder
    /\ totalIn = 0 /\ totalOut = 0
    /\ window = Slice(-WindowSize, 0)
    /\ lastPoint = 0
    /\ first = TRUE
    /\ emitInitialAccessPoint = TRUE
    /\ bound = NoPoint
    /\ accessPoints = {} /\ lineTable = <<>> /\ keyRows = {}
    /\ Finder!FinderInit

\* addIndexer(): the latest one decides whether every line is kept.
AddIndexer ==
    /\ phase = "configure"
    /\ \E name \in Indexers \ indexers, sparse \in Sparses :
          /\ indexers' = indexers \cup {name}
          /\ saveAllLines' = ~sparse
    /\ UNCHANGED <<phase, file, indexEvery, skipFirst, input, stream, points,
                   first, lineTable, keyRows, finderVars>>

StartBuild ==
    /\ phase = "configure"
    /\ phase' = "read"
    /\ UNCHANGED <<config, input, stream, points, first, lineTable, keyRows,
                   finderVars>>

\* An exception leaves build(): the transaction is rolled back.
Abort ==
    /\ phase' = "failed"
    /\ accessPoints' = {} /\ keyRows' = {} /\ lineTable' = <<>>
    /\ bound' = NoPoint

-----------------------------------------------------------------------------
(* The two loops                                                            *)

\* Mutant: at the end of the file it tries again.
RetriesAtEnd ==
    /\ phase' = "read"
    /\ UNCHANGED <<accessPoints, bound, lineTable, keyRows>>

\* Mutant: the end of the file is the end of the data, wherever it comes.
TakesAnyEnd ==
    /\ phase' = "flush"
    /\ UNCHANGED <<accessPoints, bound, lineTable, keyRows>>

\* fread gave nothing: that is the end if no member has been started, and
\* Z_DATA_ERROR if one has.
AtEndOfFile ==
    IF emitInitialAccessPoint
    THEN /\ phase' = "flush"
         /\ UNCHANGED <<accessPoints, bound, lineTable, keyRows>>
    ELSE Abort

\* The outer loop's fread, when the input buffer is empty.
Fread ==
    /\ phase = "read"
    /\ ~adding
    /\ availIn = 0
    /\ availIn' = Smaller(ChunkSize, file.size - filePos)
    /\ filePos' = filePos + availIn'
    /\ eof' = (eof \/ availIn' < ChunkSize)
    /\ IF availIn' = 0 THEN AtEndOfFile
       ELSE /\ phase' = "output"
            /\ UNCHANGED <<accessPoints, bound, lineTable, keyRows>>
    /\ UNCHANGED <<config, availOut, z, totalIn, totalOut, window, lastPoint,
                   emitInitialAccessPoint, first, finderVars>>

\* The outer loop comes round with input left over.
KeepInput ==
    /\ phase = "read"
    /\ availIn # 0
    /\ phase' = "output"
    /\ UNCHANGED <<config, input, stream, points, first, lineTable, keyRows,
                   finderVars>>

\* Mutant: the ring is refilled without handing over what is in it.
HandOverNothing == UNCHANGED finderVars

\* The full ring goes to the finder; the first time there is nothing in it.
HandOver == IF first THEN UNCHANGED finderVars ELSE Finder!Add(window, FALSE)

\* The head of the inner loop.
EmptyWindow ==
    /\ phase = "output"
    /\ IF availOut = 0
       THEN /\ HandOver
            /\ availOut' = WindowSize
            /\ first' = FALSE
       ELSE UNCHANGED <<availOut, first, finderVars>>
    /\ phase' = "inflate"
    /\ UNCHANGED <<config, input, availIn, z, totalIn, totalOut, window, points,
                   lineTable, keyRows>>

\* Mutant: the ring is stored as it lies in memory.
MakeWindowUnrotated(ring, left) == ring

\* makeWindow(): the last WindowSize bytes in the order of the text, `left`
\* being the room in the ring after the latest byte.
MakeWindow(ring, left) ==
    SubSeq(ring, WindowSize - left + 1, WindowSize)
        \o SubSeq(ring, 1, WindowSize - left)

\* The ring after inflate() has written the text positions from .. to - 1.
Written(ring, left, from, to) ==
    LET at == WindowSize - left
    IN  [i \in 1 .. WindowSize |->
            IF i \in (at + 1) .. (at + to - from) THEN from + i - at - 1
            ELSE ring[i]]

\* Mutant: the end offset is one byte too far.
EndAt(out) == out

\* uncompressedEndOffset of an access point that ends at output `out`.
EndBefore(out) == out - 1

\* addIndex.step() at output `out`, unless nothing has come out yet: the rows it
\* leaves.  There is no result if the primary key, uncompressedOffset, is taken.
Flushed(out) ==
    IF out = 0 THEN {accessPoints}
    ELSE IF \E row \in accessPoints : row.start = bound.start THEN {}
    ELSE {accessPoints \cup {[bound EXCEPT !.end = EndBefore(out)]}}

\* Mutant: a new member gets no access point of its own.
NeedsPointBySizeOnly(o, out) ==
    o.boundary /\ ~o.lastBlock /\ (out - lastPoint > indexEvery \/ out = 0)

\* Mutant: every block gets one.
NeedsPointEveryBlock(o, out) == o.boundary /\ ~o.lastBlock

\* Index.cpp:591-596: is an access point due at this boundary?
NeedsPoint(o, out) ==
    o.boundary /\ ~o.lastBlock
        /\ (out - lastPoint > indexEvery \/ emitInitialAccessPoint)

\* A new access point at output `out` after the outcome o: the previous one is
\* inserted, now that its end is known, and the new one bound.
NotePoint(o, out, ring, left) ==
    IF Flushed(out) = {}
    THEN /\ Abort
         /\ UNCHANGED <<lastPoint, emitInitialAccessPoint>>
    ELSE /\ accessPoints' \in Flushed(out)
         /\ bound' = [start |-> out, end |-> -1, compressed |-> totalIn',
                      bits |-> UnusedBits(o.z, file, o.in),
                      window |-> MakeWindow(ring, left)]
         /\ lastPoint' = out
         /\ emitInitialAccessPoint' = FALSE
         /\ phase' = IF availIn' # 0 THEN "output" ELSE "read"
         /\ UNCHANGED <<lineTable, keyRows>>

\* Mutant: the trailer's bytes are not counted.
TotalInWithoutTrailer(o) ==
    IF o.ret = "end" THEN totalIn ELSE totalIn + availIn - (filePos - o.in)

\* totalIn += avail_in before, -= avail_in after.
TotalIn(o) == totalIn + availIn - (filePos - o.in)

\* inflate() made progress inside a member.
Progressed(o) ==
    /\ z' = o.z
    /\ availIn' = filePos - o.in
    /\ totalIn' = TotalIn(o)
    /\ availOut' = availOut - (o.z.pos - z.pos)
    /\ totalOut' = totalOut + availOut - availOut'
    /\ window' = Written(window, availOut, z.pos, o.z.pos)
    /\ IF NeedsPoint(o, totalOut')
       THEN NotePoint(o, totalOut', window', availOut')
       ELSE /\ phase' = IF availIn' # 0 THEN "output" ELSE "read"
            /\ UNCHANGED <<points, lineTable, keyRows>>

\* The end of a member.  If the file goes on, zs.reset() and start again with
\* an access point at the first boundary of the next member.
MemberEnded(o) ==
    /\ z' = o.z
    /\ availIn' = filePos - o.in
    /\ totalIn' = TotalIn(o)
    /\ IF availIn' # 0 \/ ~eof
       THEN /\ emitInitialAccessPoint' = TRUE
            /\ phase' = "read"
       ELSE /\ phase' = "flush"
            /\ UNCHANGED emitInitialAccessPoint
    /\ UNCHANGED <<availOut, totalOut, window, lastPoint, bound, accessPoints,
                   lineTable, keyRows>>

\* Damaged data: ZlibError.
DataError ==
    /\ Abort
    /\ UNCHANGED <<stream, lastPoint, emitInitialAccessPoint>>

\* The inner loop's inflate(&zs.stream, Z_BLOCK) and what follows it.
InflateBlock ==
    /\ phase = "inflate"
    /\ ~adding
    /\ \E o \in InflateToBlock(file, z, filePos - availIn, filePos, availOut) :
          CASE o.ret = "ok"    -> Progressed(o)
            [] o.ret = "end"   -> MemberEnded(o)
            [] o.ret = "error" -> DataError
    /\ UNCHANGED <<config, input, first, finderVars>>

-----------------------------------------------------------------------------
(* Lines on their way to the indexers                                       *)

\* Mutant: an indexer's answer does not make the line kept.
KeepsWithoutKeys(skipped, consumed) == skipped \/ saveAllLines

\* onLine()'s answer; `consumed` are the indexers that found a key in the line.
Keeps(skipped, consumed) == skipped \/ consumed # {} \/ saveAllLines

\* What a handler inserts for a key found in the current line.  `start` is not a
\* column: it says which line of the text the key was found in.
KeyRow(name) ==
    [index |-> name, line |-> Finder!Number, start |-> currentLineOffset]

\* onLine(): the first skipFirst lines are kept and not shown to the indexers,
\* the others are shown to all of them.
OnLine ==
    LET skipped == Finder!Number <= skipFirst
    IN  /\ \E consumed \in SUBSET indexers :
              /\ skipped => consumed = {}
              /\ \/ Finder!FindLine(Keeps(skipped, consumed))
                 \/ Finder!LastLine(Keeps(skipped, consumed))
              /\ keyRows' = keyRows \cup {KeyRow(name) : name \in consumed}
        /\ UNCHANGED <<phase, config, input, stream, points, first, lineTable>>

\* An indexer throws on a line: "Failed to index line ...".
IndexerThrows ==
    /\ adding
    /\ indexers # {}
    /\ Finder!Number > skipFirst
    /\ \/ \E i \in 1 .. Len(chunk) : chunk[i] \in file.newlines
       \/ chunk = <<>> /\ last /\ lineBuffer # <<>>
    /\ Abort
    /\ adding' = FALSE
    /\ UNCHANGED <<config, input, stream, lastPoint, emitInitialAccessPoint,
                   first, chunk, last, lineBuffer, lineOffsets,
                   currentLineOffset, calls>>

FinderWorks ==
    /\ Finder!BufferRest \/ Finder!Return
    /\ UNCHANGED <<phase, config, input, stream, points, first, lineTable, keyRows>>

-----------------------------------------------------------------------------
(* After the loops                                                          *)

\* The last access point, and what is left in the ring.
FlushLast ==
    /\ phase = "flush"
    /\ IF Flushed(totalOut) = {}
       THEN Abort /\ UNCHANGED finderVars
       ELSE /\ accessPoints' \in Flushed(totalOut)
            /\ Finder!Add(SubSeq(window, 1, WindowSize - availOut), TRUE)
            /\ phase' = "lines"
            /\ UNCHANGED <<bound, lineTable, keyRows>>
    /\ UNCHANGED <<config, input, stream, lastPoint, emitInitialAccessPoint, first>>

\* Mutant: the length of a row does not count the newline.
RowLengthShort(k) == lineOffsets[k + 1] - lineOffsets[k] - 1

RowLength(k) == lineOffsets[k + 1] - lineOffsets[k]

\* The line table, and END TRANSACTION.
WriteLines ==
    /\ phase = "lines"
    /\ ~adding
    /\ lineTable' = [k \in 1 .. (Len(lineOffsets) - 1) |->
                        [offset |-> lineOffsets[k], length |-> RowLength(k)]]
    /\ phase' = "done"
    /\ UNCHANGED <<config, input, stream, points, first, keyRows, finderVars>>

Next ==
    \/ AddIndexer
    \/ StartBuild
    \/ Fread
    \/ KeepInput
    \/ EmptyWindow
    \/ InflateBlock
    \/ OnLine
    \/ IndexerThrows
    \/ FinderWorks
    \/ FlushLast
    \/ WriteLines

Spec == Init /\ [][Next]_vars

\* build() runs to its end once it is called; nothing in it waits.
FairSpec == Spec /\ WF_vars(Next)
-----------------------------------------------------------------------------
(* What must hold                                                           *)

TypeOK ==
    /\ phase \in {"configure", "read", "output", "inflate", "flush", "lines",
                  "done", "failed"}
    /\ indexers \subseteq Indexers
    /\ filePos \in 0 .. file.size /\ eof \in BOOLEAN
    /\ availIn \in 0 .. ChunkSize /\ availOut \in 0 .. WindowSize
    /\ totalIn = filePos - availIn
    /\ totalOut = z.pos /\ lastPoint \in 0 .. totalOut
    /\ window \in [1 .. WindowSize -> -WindowSize .. (TextLength(file) - 1)]
    /\ bound.end = -1

\* The text of the blocks that are on disk: a file cut off inside the header of a
\* later member is taken for the file that ends before it.
TextOnDisk ==
    LET missing == {k \in DOMAIN file.blocks :
                       ByteBits * file.size < file.blocks[k].start}
    IN  IF missing = {} THEN TextLength(file)
        ELSE file.blocks[CHOOSE k \in missing : \A j \in missing : k <= j].from

\* Every line of the text reaches the indexers once, in order, with its bytes:
\* the ring is handed over exactly when it is full, and its rest at the end.
Lines == INSTANCE LineStream WITH
            textLength <- TextOnDisk, newlines <- file.newlines,
            at <- currentLineOffset,
            reported <- [i \in DOMAIN calls |-> [offset |-> calls[i].offset,
                                                 content |-> calls[i].content]],
            finished <- (phase = "done")

IndexersSeeEveryLine == Lines!Spec

Points == accessPoints \cup (IF bound = NoPoint THEN {} ELSE {bound})

\* What the reader needs of an access point: raw inflate primed with its bits at
\* its compressed offset is at the start of the block that starts the point's
\* text, and its window holds every byte of the member that block can refer to.
PointsAreDecodable ==
    \A a \in Points :
        \E k \in DOMAIN file.blocks :
            LET b == file.blocks[k]
                reach == Smaller(WindowSize, b.from - MemberStart(file, k))
            IN  /\ b.from = a.start
                /\ b.start = ByteBits * a.compressed - a.bits
                /\ a.bits \in 0 .. (ByteBits - 1)
                /\ SubSeq(a.window, WindowSize - reach + 1, WindowSize)
                      = Slice(a.start - reach, a.start)

\* "we force an access point to be created here" (Index.cpp:626): no access point
\* covers text of two members, so the raw decoder never meets a trailer.
NoPointSpansMembers ==
    \A a \in accessPoints :
        \A k \in DOMAIN file.blocks :
            LET b == file.blocks[k]
            IN  b.closes => ~(a.start < b.to /\ b.to <= a.end)

\* A committed index has exactly one access point for every byte of the text, so
\* the join of LineOffsets and AccessPoints finds one row for every line.
PointsTileText ==
    phase = "done" =>
        \A p \in 0 .. (totalOut - 1) :
            Cardinality({a \in accessPoints : a.start <= p /\ p <= a.end}) = 1

\* "generating a checkpoint every indexEvery": inside a member two points are
\* more than that apart, and no block starts further than that after its point.
PointsAreSpaced ==
    /\ phase = "done" =>
           \A a \in accessPoints, k \in DOMAIN file.blocks :
               LET b == file.blocks[k]
               IN  (a.start < b.from /\ b.from <= a.end) => b.from - a.start <= indexEvery
    /\ \A a, c \in accessPoints :
           (a.start < c.start /\ c.start - a.start <= indexEvery) =>
               \E k \in DOMAIN file.blocks :
                   LET b == file.blocks[k]
                   IN  b.closes /\ a.start <= b.to /\ b.to <= c.start

\* Rows of the committed line table are the kept lines: in order, each as long as
\* the way to the next, so a sparse index merges the lines that were not kept
\* into the row before them (zindex.cpp:39-42); a full index has every line.
RowsAreLines ==
    (phase = "done" /\ totalOut # 0) =>
        LET size == TextOnDisk
            starts == {p \in 0 .. size : IsLineStart(file.newlines, size, p)}
            offsets == {lineTable[k].offset : k \in DOMAIN lineTable}
        IN  /\ offsets \subseteq starts
            /\ saveAllLines => offsets = starts
            /\ \A k \in DOMAIN lineTable :
                  lineTable[k].offset + lineTable[k].length =
                      IF k + 1 \in DOMAIN lineTable THEN lineTable[k + 1].offset
                      ELSE IF size - 1 \in file.newlines THEN size ELSE size + 1

\* A member that was cut short or damaged.
Damaged ==
    \/ file.corrupt # {}
    \/ \E k \in DOMAIN file.blocks :
          /\ ByteBits * file.size >= file.blocks[k].start
          /\ file.size < file.blocks[Closing(file, k)].tail

\* An undamaged file, of one member or of several, is indexed: only an indexer
\* that throws keeps build() from its end.
IntactFileIsIndexed == phase = "failed" => (Damaged \/ indexers # {})

\* build() tells damaged files from others: a file with a member that was cut short
\* or damaged never becomes a committed index, and every other file does.
IndexedIffIntact == (phase = "done" => ~Damaged) /\ IntactFileIsIndexed

\* "With no indexers, only a line number index is built." (Index.h:112): every
\* line has a row.  The code keeps no line at all then.
LineIndexWithoutIndexers ==
    (phase = "done" /\ indexers = {}) =>
        \A p \in 0 .. (totalOut - 1) :
            IsLineStart(file.newlines, TextLength(file), p) =>
                \E k \in DOMAIN lineTable : lineTable[k].offset = p

\* build() comes to an end, with an index or with an exception, on any file.
BuildEnds == <>(phase \in {"done", "failed"})
=============================================================================
