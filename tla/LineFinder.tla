----------------------------- MODULE LineFinder -----------------------------
(***************************************************************************)
(* The class LineFinder (LineFinder.h, LineFinder.cpp): it is given the    *)
(* text in blocks that end anywhere, puts lines together, calls the sink's *)
(* onLine for each and keeps the offsets of the lines the sink asks it to  *)
(* keep.  A call of add() is several steps, one for every line it reports, *)
(* because the sink's answer comes back in the middle of the call.         *)
(***************************************************************************)
EXTENDS Text

VARIABLES
    newlines,           \* the positions that hold '\n'; never assigned here
    chunk,              \* the bytes from `data` to `endData` in add()
    last,               \* add()'s parameter of this name
    adding,             \* a call of add() is in progress
    lineBuffer,         \* lineBuffer_
    lineOffsets,        \* lineOffsets_
    currentLineOffset,  \* currentLineOffset_
    calls               \* the calls of sink_.onLine so far, with its answers

finderVars ==
    <<chunk, last, adding, lineBuffer, lineOffsets, currentLineOffset, calls>>

FinderInit ==
    /\ chunk = <<>>
    /\ last = FALSE
    /\ adding = FALSE
    /\ lineBuffer = <<>>
    /\ lineOffsets = <<>>
    /\ currentLineOffset = 0
    /\ calls = <<>>

\* The caller enters add().
Add(bytes, isLast) ==
    /\ ~adding
    /\ adding' = TRUE
    /\ chunk' = bytes
    /\ last' = isLast
    /\ UNCHANGED <<lineBuffer, lineOffsets, currentLineOffset, calls>>

\* Mutant: the buffered part of a line is forgotten when its newline arrives.
WithoutBuffer(segment) == segment

\* The line that `segment` completes.
Line(segment) == lineBuffer \o segment

\* Mutant: the line number counts the lines seen, not the lines kept.
NumberSeen == Len(calls) + 1

\* The number a line is given: the place its offset has if it is kept.
Number == Len(lineOffsets) + 1

\* Mutant: steps over one byte too many.
OneTooFar(line) == currentLineOffset + Len(line) + 2

\* The offset after a line and its newline.
After(line) == currentLineOffset + Len(line) + 1

\* lineData(): report the buffered bytes and `segment` as one line, keep its
\* offset if the sink says so, and step over it and its newline.
LineData(segment, shouldAddLine) ==
    /\ calls' = Append(calls, [line |-> Number, offset |-> currentLineOffset,
                               content |-> Line(segment), saved |-> shouldAddLine])
    /\ lineOffsets' = IF shouldAddLine THEN Append(lineOffsets, currentLineOffset)
                      ELSE lineOffsets
    /\ currentLineOffset' = After(Line(segment))
    /\ lineBuffer' = <<>>

\* The memchr loop finds a newline in what is left of the block.
FindLine(shouldAddLine) ==
    /\ adding
    /\ \E e \in 1 .. Len(chunk) :
          /\ chunk[e] \in newlines
          /\ \A i \in 1 .. (e - 1) : chunk[i] \notin newlines
          /\ LineData(SubSeq(chunk, 1, e - 1), shouldAddLine)
          /\ chunk' = SubSeq(chunk, e + 1, Len(chunk))
    /\ UNCHANGED <<last, adding>>

\* The loop finds none: append() keeps the rest for the next block.
BufferRest ==
    /\ adding
    /\ chunk # <<>>
    /\ \A i \in 1 .. Len(chunk) : chunk[i] \notin newlines
    /\ lineBuffer' = lineBuffer \o chunk
    /\ chunk' = <<>>
    /\ UNCHANGED <<last, adding, lineOffsets, currentLineOffset, calls>>

\* The last block is used up and a line without newline is left over.
LastLine(shouldAddLine) ==
    /\ adding
    /\ chunk = <<>>
    /\ last
    /\ lineBuffer # <<>>
    /\ LineData(<<>>, shouldAddLine)
    /\ UNCHANGED <<chunk, last, adding>>

\* lineOffsets_ when add() returns: after the last block the offset where a next
\* line would start is kept too.
WithSentinel ==
    IF last THEN Append(lineOffsets, currentLineOffset) ELSE lineOffsets

Return ==
    /\ adding
    /\ chunk = <<>>
    /\ last => lineBuffer = <<>>
    /\ lineOffsets' = WithSentinel
    /\ adding' = FALSE
    /\ UNCHANGED <<chunk, last, lineBuffer, currentLineOffset, calls>>
=============================================================================
