------------------------------- MODULE ZIndex -------------------------------
(***************************************************************************)
(* An index from its building to its use: a Builder indexes a file, the    *)
(* index is loaded over the same file and lines are asked for in any       *)
(* order, any number of times (zindex, then zq).                           *)
(***************************************************************************)
EXTENDS IndexBuilder

CONSTANT MaxLength

ASSUME MaxLengthAssumption == MaxLength \in Nat

VARIABLES readerPos, readerEof, blockSize, cached, context, step, row,
          numToSkip, skipping, outLeft, lineBuf, answer

Reader == INSTANCE IndexReader

readerVars == <<readerPos, readerEof, blockSize, cached, context, step, row,
                numToSkip, skipping, outLeft, lineBuf, answer>>
zindexVars == <<vars, readerVars>>

ZInit == Init /\ Reader!ReaderInit

Build == Next /\ UNCHANGED readerVars

Open ==
    /\ phase = "done"
    /\ Reader!Load
    /\ UNCHANGED vars

\* A client asks for a line, of the table or past its end.
Ask ==
    /\ \E line \in 1 .. (Len(lineTable) + 1) : Reader!GetLine(line)
    /\ UNCHANGED vars

PrintLine == Reader!PrintStep /\ UNCHANGED vars

ZNext == Build \/ Open \/ Ask \/ PrintLine

ZSpec == ZInit /\ [][ZNext]_zindexVars

\* print() runs to its end once it is called; clients need not ask.
FairZSpec == ZSpec /\ WF_zindexVars(PrintLine)

-----------------------------------------------------------------------------
\* The reader's properties (IndexReader), of the tables the builder wrote.
ReaderTypeOK == Reader!ReaderTypeOK
DeliveredExactly == Reader!DeliveredExactly
CachedContextInSync == Reader!CachedContextInSync
FoundIsDelivered == Reader!FoundIsDelivered
FailsOnlyAtMemberEnds == Reader!FailsOnlyAtMemberEnds
CallsReturn == Reader!CallsReturn

\* A line the builder kept is found, and no other.
FoundIffKept ==
    answer.kind = "absent" => answer.row.line \notin DOMAIN lineTable

\* In an index of every line, line n is the n-th line of the file, whole: asking
\* for it delivers the bytes between two newlines and n - 1 lines come before.
NthLineOfFile ==
    (answer.kind = "line" /\ saveAllLines) =>
        LET size == TextLength(file)
            from == answer.row.offset
        IN  /\ Cardinality({p \in 0 .. from :
                               IsLineStart(file.newlines, size, p)}) = answer.row.line
            /\ \E end \in from .. size :
                  /\ IsLineEnd(file.newlines, size, from, end)
                  /\ answer.content = Slice(from, end)

\* What a query finds is what was indexed: the line number stored with a key is
\* in the index, and fetching it delivers bytes that begin with the whole line
\* that held the key.
KeyedLineIsDelivered ==
    \A r \in keyRows :
        r.line = answer.row.line =>
            /\ answer.kind # "absent"
            /\ answer.kind = "line" =>
                   \E end \in r.start .. TextLength(file) :
                       /\ IsLineEnd(file.newlines, TextLength(file), r.start, end)
                       /\ SubSeq(answer.content, 1, end - r.start) = Slice(r.start, end)
=============================================================================
