-------------------------- MODULE LineFinderProofs --------------------------
(***************************************************************************)
(* A LineFinder fed with a text in any blocks (ChunkedText) presents the   *)
(* lines of that text and numbers them by their rows, for texts of every   *)
(* length, with newlines anywhere, cut anywhere.  It implements LineStream: *)
(* it presents every line once and in order.                               *)
(***************************************************************************)
EXTENDS ChunkedText, TLAPS

-----------------------------------------------------------------------------
(* What a slice of the text is, and how slices are cut and joined.          *)

LEMMA SliceType ==
    ASSUME NEW from \in Nat, NEW to \in Nat, from <= to
    PROVE  /\ Slice(from, to) \in Seq(Nat)
           /\ Len(Slice(from, to)) = to - from
           /\ \A i \in 1 .. (to - from) : Slice(from, to)[i] = from + i - 1
BY DEF Slice

LEMMA EmptySlice ==
    ASSUME NEW p \in Nat
    PROVE  Slice(p, p) = <<>>
BY DEF Slice

LEMMA SliceConcat ==
    ASSUME NEW a \in Nat, NEW b \in Nat, NEW c \in Nat, a <= b, b <= c
    PROVE  Slice(a, b) \o Slice(b, c) = Slice(a, c)
BY DEF Slice

LEMMA SliceCut ==
    ASSUME NEW a \in Nat, NEW b \in Nat, a <= b, NEW e \in 1 .. (b - a)
    PROVE  /\ SubSeq(Slice(a, b), 1, e - 1) = Slice(a, a + e - 1)
           /\ SubSeq(Slice(a, b), e + 1, b - a) = Slice(a + e, b)
BY DEF Slice

-----------------------------------------------------------------------------
(* The inductive invariant                                                  *)

\* How far add() has come in the text: what is left of the block is not read yet.
Reached == fed - Len(chunk)

\* The buffer holds the text from the start of the current line to where add() has
\* come, without a newline; or the last line had none, and the offset has stepped
\* over a newline that is not there.
BufferIsText ==
    \/ /\ currentLineOffset <= Reached
       /\ lineBuffer = Slice(currentLineOffset, Reached)
       /\ Unbroken(newlines, currentLineOffset, Reached)
    \/ /\ currentLineOffset = textLength + 1
       /\ lineBuffer = <<>> /\ chunk = <<>>
       /\ (adding /\ ended) \/ Finished

\* The rest of the block is the text from there on.
ChunkIsText ==
    /\ Len(chunk) <= fed
    /\ chunk = Slice(Reached, fed)
    /\ ~adding => chunk = <<>>

EndsWithText ==
    /\ last = ended
    /\ ended => fed = textLength
    /\ Finished => lineBuffer = <<>>

IInv == TypeOK /\ ChunkIsText /\ BufferIsText /\ EndsWithText

-----------------------------------------------------------------------------
\* Nothing has been handed over.
Begins ==
    /\ textLength \in Nat /\ newlines \subseteq 0 .. (textLength - 1)
    /\ fed = 0 /\ ended = FALSE /\ FinderInit

LEMMA InitBegins == Init => Begins
BY MaxTextLengthAssumption DEF Init, Begins

LEMMA BeginsInv == Begins => IInv
<1> SUFFICES ASSUME Begins PROVE IInv
  OBVIOUS
<1>1. fed = 0 /\ textLength \in Nat /\ 0 <= textLength
  BY DEF Begins
<1>2. Slice(0, 0) = <<>>
  BY EmptySlice
<1>3. TypeOK
  <2>1. /\ textLength \in Nat
        /\ newlines \subseteq 0 .. (textLength - 1)
    BY DEF Begins
  <2>2. <<>> \in Seq(Nat) /\ <<>> \in Seq(Call)
    OBVIOUS
  <2>3. fed \in 0 .. textLength /\ currentLineOffset \in 0 .. (textLength + 1)
    BY <1>1 DEF Begins, FinderInit
  <2>4. /\ chunk \in Seq(Nat) /\ lineBuffer \in Seq(Nat)
        /\ lineOffsets \in Seq(Nat) /\ calls \in Seq(Call)
    BY <2>2 DEF Begins, FinderInit
  <2>5. ended \in BOOLEAN /\ last \in BOOLEAN /\ adding \in BOOLEAN
    BY DEF Begins, FinderInit
  <2> QED
    BY <2>1, <2>3, <2>4, <2>5 DEF TypeOK
<1>4. ChunkIsText /\ EndsWithText
  <2>1. chunk = <<>>
    BY DEF Begins, FinderInit
  <2>2. Len(chunk) = 0
    BY <2>1
  <2>3. Reached = 0 /\ Len(chunk) <= fed
    BY <1>1, <2>2 DEF Reached
  <2>4. chunk = Slice(Reached, fed)
    BY <1>1, <1>2, <2>1, <2>3
  <2>5. EndsWithText
    BY DEF Begins, FinderInit, EndsWithText, Finished
  <2> QED
    BY <2>1, <2>3, <2>4, <2>5 DEF ChunkIsText
<1>5. BufferIsText
  BY <1>1, <1>2 DEF Begins, FinderInit, BufferIsText, Reached, Unbroken
<1> QED
  BY <1>3, <1>4, <1>5 DEF IInv

LEMMA IInvInit == Init => IInv
BY InitBegins, BeginsInv

\* What LineData does with a line that ends at text position `end`.
LEMMA FoundLine ==
    ASSUME IInv, NEW shouldAddLine \in BOOLEAN, FindLine(shouldAddLine)
    PROVE  \E end \in Nat :
              /\ end + 1 <= fed
              /\ end \in newlines
              /\ currentLineOffset <= end /\ end < textLength
              /\ Unbroken(newlines, currentLineOffset, end)
              /\ Line(Slice(Reached, end)) = Slice(currentLineOffset, end)
              /\ LineData(Slice(Reached, end), shouldAddLine)
              /\ chunk' = Slice(end + 1, fed)
              /\ Len(chunk') = fed - (end + 1)
<1>1. PICK e \in 1 .. Len(chunk) :
          /\ chunk[e] \in newlines
          /\ \A i \in 1 .. (e - 1) : chunk[i] \notin newlines
          /\ LineData(SubSeq(chunk, 1, e - 1), shouldAddLine)
          /\ chunk' = SubSeq(chunk, e + 1, Len(chunk))
  BY DEF FindLine
<1> DEFINE end == Reached + e - 1
<1>2. /\ Len(chunk) \in Nat /\ fed \in Nat /\ textLength \in Nat
      /\ Reached \in Nat /\ Reached <= fed /\ fed <= textLength
      /\ Len(chunk) = fed - Reached
  BY DEF IInv, TypeOK, ChunkIsText, Reached
<1>3. chunk = Slice(Reached, fed)
  BY DEF IInv, ChunkIsText
<1>4. \A i \in 1 .. Len(chunk) : chunk[i] = Reached + i - 1
  <2>1. /\ Len(Slice(Reached, fed)) = fed - Reached
        /\ \A i \in 1 .. (fed - Reached) : Slice(Reached, fed)[i] = Reached + i - 1
    BY <1>2, SliceType
  <2> HIDE DEF end
  <2> QED
    BY <1>2, <1>3, <2>1
<1>5. chunk[e] = end /\ end \in newlines /\ end < textLength /\ end \in Nat
  BY <1>1, <1>2, <1>4
<1>6. chunk # <<>>
  BY <1>1, <1>2
<1>7. /\ currentLineOffset \in Nat /\ currentLineOffset <= Reached
      /\ lineBuffer = Slice(currentLineOffset, Reached)
      /\ Unbroken(newlines, currentLineOffset, Reached)
  BY <1>2, <1>6 DEF IInv, BufferIsText, TypeOK
<1>8. SubSeq(chunk, 1, e - 1) = Slice(Reached, end) /\ chunk' = Slice(end + 1, fed)
  <2>1. e \in 1 .. (fed - Reached) /\ end = Reached + e - 1 /\ end + 1 = Reached + e
    BY <1>1, <1>2
  <2> HIDE DEF end
  <2>2. /\ SubSeq(Slice(Reached, fed), 1, e - 1) = Slice(Reached, Reached + e - 1)
        /\ SubSeq(Slice(Reached, fed), e + 1, fed - Reached) = Slice(Reached + e, fed)
    BY <1>2, <2>1, SliceCut
  <2> QED
    BY <1>1, <1>2, <1>3, <2>1, <2>2
<1>9. Line(SubSeq(chunk, 1, e - 1)) = Slice(currentLineOffset, end)
  <2>1. Reached <= end
    BY <1>1, <1>2
  <2> HIDE DEF end
  <2>2. Slice(currentLineOffset, Reached) \o Slice(Reached, end)
           = Slice(currentLineOffset, end)
    BY <1>2, <1>5, <1>7, <2>1, SliceConcat
  <2> QED
    BY <1>7, <1>8, <2>2 DEF Line
<1>10. Unbroken(newlines, currentLineOffset, end)
  <2> SUFFICES ASSUME NEW p \in currentLineOffset .. (end - 1)
               PROVE  p \notin newlines
    BY DEF Unbroken
  <2>1. CASE p < Reached
    BY <1>2, <1>5, <1>7, <2>1 DEF Unbroken
  <2>2. CASE p >= Reached
    <3>1. p - Reached + 1 \in 1 .. (e - 1)
      BY <1>1, <1>2, <1>5, <1>7, <2>2
    <3>2. chunk[p - Reached + 1] = p
      BY <1>1, <1>2, <1>4, <1>5, <1>7, <3>1
    <3> QED
      BY <1>1, <3>1, <3>2
  <2> QED
    BY <1>2, <1>5, <1>7, <2>1, <2>2
<1>11. end + 1 <= fed /\ end + 1 \in Nat
  BY <1>1, <1>2, <1>5
<1> HIDE DEF end
<1>12. Len(chunk') = fed - (end + 1)
  BY <1>2, <1>5, <1>8, <1>11, SliceType
<1>13. Line(Slice(Reached, end)) = Slice(currentLineOffset, end)
  BY <1>8, <1>9
<1>14. LineData(Slice(Reached, end), shouldAddLine)
  BY <1>1, <1>8
<1>15. currentLineOffset <= end
  BY <1>1, <1>2, <1>7 DEF end
<1> QED
  BY <1>5, <1>8, <1>10, <1>11, <1>12, <1>13, <1>14, <1>15

\* The parts of TypeOK that a step needs, with the bounds as naturals.
LEMMA Types ==
    ASSUME IInv
    PROVE  /\ textLength \in Nat /\ fed \in Nat /\ fed <= textLength
           /\ newlines \subseteq 0 .. (textLength - 1)
           /\ Len(chunk) \in Nat /\ Len(chunk) <= fed
           /\ Reached \in Nat /\ Reached <= fed /\ Len(chunk) = fed - Reached
           /\ currentLineOffset \in Nat
           /\ chunk \in Seq(Nat) /\ lineBuffer \in Seq(Nat)
           /\ lineOffsets \in Seq(Nat) /\ calls \in Seq(Call)
<1>1. TypeOK /\ ChunkIsText
  BY DEF IInv
<1> QED
  BY <1>1 DEF TypeOK, ChunkIsText, Reached

\* What LineData adds to the sink's calls, for a line the text holds.
LEMMA LineDataTypes ==
    ASSUME IInv, NEW shouldAddLine \in BOOLEAN, NEW segment,
           Line(segment) \in Seq(Nat), LineData(segment, shouldAddLine)
    PROVE  /\ calls' \in Seq(Call)
           /\ lineOffsets' \in Seq(Nat)
<1>1. /\ Number \in Nat \ {0} /\ currentLineOffset \in Nat
      /\ calls \in Seq(Call) /\ lineOffsets \in Seq(Nat)
  BY Types DEF Number
<1> DEFINE call == [line |-> Number, offset |-> currentLineOffset,
                    content |-> Line(segment), saved |-> shouldAddLine]
<1>2. call \in Call
  BY <1>1 DEF Call
<1>3. calls' = Append(calls, call)
  BY DEF LineData
<1>4. calls' \in Seq(Call)
  <2> HIDE DEF call
  <2> QED
    BY <1>1, <1>2, <1>3
<1>5. lineOffsets' \in Seq(Nat)
  BY <1>1 DEF LineData
<1> QED
  BY <1>4, <1>5

LEMMA FeedKeepsIInv == ASSUME IInv, Feed PROVE IInv'
<1>1. PICK to \in fed .. textLength, isLast \in BOOLEAN :
          /\ isLast => to = textLength
          /\ Add(Slice(fed, to), isLast)
          /\ fed' = to
          /\ ended' = isLast
  BY DEF Feed
<1>2. /\ ~adding /\ ~ended /\ adding' /\ chunk' = Slice(fed, to) /\ last' = isLast
      /\ UNCHANGED <<lineBuffer, lineOffsets, currentLineOffset, calls,
                     newlines, textLength>>
  BY <1>1 DEF Feed, Add
<1>3. /\ to \in Nat /\ fed \in Nat /\ fed <= to /\ to <= textLength
      /\ textLength \in Nat
  BY <1>1, Types
<1>4. Slice(fed, to) \in Seq(Nat) /\ Len(Slice(fed, to)) = to - fed
  BY <1>3, SliceType
<1>5. Reached' = fed
  BY <1>1, <1>2, <1>3, <1>4 DEF Reached
<1>6. Len(chunk) = 0 /\ Reached = fed
  BY <1>2, Types DEF IInv, ChunkIsText
<1>7. TypeOK'
  <2>1. /\ textLength' \in Nat
        /\ newlines' \subseteq 0 .. (textLength' - 1)
        /\ currentLineOffset' \in 0 .. (textLength' + 1)
    BY <1>2 DEF IInv, TypeOK
  <2>2. fed' \in 0 .. textLength'
    BY <1>1, <1>2, <1>3
  <2>3. ended' \in BOOLEAN /\ last' \in BOOLEAN /\ adding' \in BOOLEAN
    BY <1>1, <1>2
  <2>4. /\ chunk' \in Seq(Nat) /\ lineBuffer' \in Seq(Nat)
        /\ lineOffsets' \in Seq(Nat) /\ calls' \in Seq(Call)
    BY <1>2, <1>4, Types
  <2> QED
    BY <2>1, <2>2, <2>3, <2>4 DEF TypeOK
<1>8. ChunkIsText'
  <2>1. Len(chunk') <= fed'
    BY <1>1, <1>2, <1>3, <1>4
  <2>2. chunk' = Slice(Reached', fed')
    BY <1>1, <1>2, <1>5
  <2> QED
    BY <1>2, <2>1, <2>2 DEF ChunkIsText
<1>9. BufferIsText'
  <2>1. /\ currentLineOffset <= Reached
        /\ lineBuffer = Slice(currentLineOffset, Reached)
        /\ Unbroken(newlines, currentLineOffset, Reached)
    BY <1>2 DEF IInv, BufferIsText, Finished
  <2>2. /\ currentLineOffset' <= Reached'
        /\ lineBuffer' = Slice(currentLineOffset', Reached')
        /\ Unbroken(newlines', currentLineOffset', Reached')
    BY <1>2, <1>5, <1>6, <2>1
  <2> QED
    BY <2>2 DEF BufferIsText
<1>10. EndsWithText'
  BY <1>1, <1>2 DEF EndsWithText, Finished
<1> QED
  BY <1>7, <1>8, <1>9, <1>10 DEF IInv

LEMMA FindLineKeepsIInv ==
    ASSUME IInv, NEW shouldAddLine \in BOOLEAN, FindLine(shouldAddLine),
           UNCHANGED <<newlines, textLength, fed, ended>>
    PROVE  IInv'
<1>1. PICK end \in Nat :
          /\ end + 1 <= fed
          /\ end \in newlines
          /\ currentLineOffset <= end /\ end < textLength
          /\ Unbroken(newlines, currentLineOffset, end)
          /\ Line(Slice(Reached, end)) = Slice(currentLineOffset, end)
          /\ LineData(Slice(Reached, end), shouldAddLine)
          /\ chunk' = Slice(end + 1, fed)
          /\ Len(chunk') = fed - (end + 1)
  BY FoundLine
<1>2. /\ end + 1 \in Nat /\ currentLineOffset \in Nat /\ fed \in Nat
      /\ textLength \in Nat
  BY <1>1, Types
<1>4. adding /\ UNCHANGED <<last, adding>>
  BY DEF FindLine
<1>5. Reached' = end + 1
  BY <1>1, <1>2 DEF Reached
<1>6. /\ Slice(currentLineOffset, end) \in Seq(Nat)
      /\ Len(Slice(currentLineOffset, end)) = end - currentLineOffset
      /\ chunk' \in Seq(Nat)
  BY <1>1, <1>2, SliceType
<1>7. currentLineOffset' = end + 1 /\ lineBuffer' = <<>>
  BY <1>2, <1>1, <1>6 DEF LineData, After
<1>8. TypeOK'
  <2>1. /\ textLength' \in Nat
        /\ newlines' \subseteq 0 .. (textLength' - 1)
        /\ fed' \in 0 .. textLength'
    BY DEF IInv, TypeOK
  <2>2. currentLineOffset' \in 0 .. (textLength' + 1)
    BY <1>2, <1>1, <1>7
  <2>3. ended' \in BOOLEAN /\ last' \in BOOLEAN /\ adding' \in BOOLEAN
    BY <1>4 DEF IInv, TypeOK
  <2>4. lineOffsets' \in Seq(Nat) /\ calls' \in Seq(Call)
    BY <1>1, <1>6, LineDataTypes
  <2>5. lineBuffer' \in Seq(Nat)
    BY <1>7
  <2> QED
    BY <1>6, <2>1, <2>2, <2>3, <2>4, <2>5 DEF TypeOK
<1>9. ChunkIsText'
  <2>1. Len(chunk') <= fed'
    BY <1>1, <1>2
  <2>2. chunk' = Slice(Reached', fed')
    BY <1>1, <1>5
  <2> QED
    BY <1>4, <2>1, <2>2 DEF ChunkIsText
<1>10. BufferIsText'
  <2>1. Slice(end + 1, end + 1) = <<>>
    BY <1>2, EmptySlice
  <2>2. Unbroken(newlines', end + 1, end + 1)
    BY <1>2 DEF Unbroken
  <2>3. currentLineOffset' <= Reached'
    BY <1>2, <1>5, <1>7
  <2>4. lineBuffer' = Slice(currentLineOffset', Reached')
    BY <1>5, <1>7, <2>1
  <2>5. Unbroken(newlines', currentLineOffset', Reached')
    BY <1>5, <1>7, <2>2
  <2> QED
    BY <2>3, <2>4, <2>5 DEF BufferIsText
<1>11. EndsWithText'
  BY <1>4, <1>7 DEF IInv, EndsWithText, Finished
<1> QED
  BY <1>8, <1>9, <1>10, <1>11 DEF IInv

\* The last line, when the text does not end with a newline.
LEMMA FoundLastLine ==
    ASSUME IInv, NEW shouldAddLine \in BOOLEAN, LastLine(shouldAddLine)
    PROVE  /\ adding /\ last /\ ended /\ chunk = <<>> /\ fed = textLength
           /\ currentLineOffset < textLength
           /\ Unbroken(newlines, currentLineOffset, textLength)
           /\ Line(<<>>) = Slice(currentLineOffset, textLength)
           /\ LineData(<<>>, shouldAddLine)
<1>1. /\ adding /\ last /\ chunk = <<>> /\ lineBuffer # <<>>
      /\ LineData(<<>>, shouldAddLine)
  BY DEF LastLine
<1>2. ended /\ fed = textLength
  BY <1>1 DEF IInv, EndsWithText
<1>3. Reached = textLength
  BY <1>1, <1>2, Types DEF Reached
<1>4. /\ currentLineOffset <= textLength
      /\ lineBuffer = Slice(currentLineOffset, textLength)
      /\ Unbroken(newlines, currentLineOffset, textLength)
  BY <1>1, <1>3 DEF IInv, BufferIsText
<1>5. currentLineOffset # textLength
  BY <1>1, <1>4, EmptySlice, Types
<1>6. Line(<<>>) = lineBuffer
  BY Types DEF Line
<1> QED
  BY <1>1, <1>2, <1>4, <1>5, <1>6, Types

LEMMA LastLineKeepsIInv ==
    ASSUME IInv, NEW shouldAddLine \in BOOLEAN, LastLine(shouldAddLine),
           UNCHANGED <<newlines, textLength, fed, ended>>
    PROVE  IInv'
<1>1. /\ adding /\ last /\ ended /\ chunk = <<>> /\ fed = textLength
      /\ currentLineOffset < textLength
      /\ Line(<<>>) = Slice(currentLineOffset, textLength)
      /\ LineData(<<>>, shouldAddLine)
  BY FoundLastLine
<1>2. UNCHANGED <<chunk, last, adding>>
  BY DEF LastLine
<1>3. /\ Slice(currentLineOffset, textLength) \in Seq(Nat)
      /\ Len(Slice(currentLineOffset, textLength)) = textLength - currentLineOffset
  <2>1. /\ currentLineOffset \in Nat /\ textLength \in Nat
        /\ currentLineOffset <= textLength
    BY <1>1, Types
  <2> QED
    BY <2>1, SliceType
<1>4. currentLineOffset' = textLength + 1 /\ lineBuffer' = <<>>
  BY <1>1, <1>3, Types DEF LineData, After
<1>5. TypeOK'
  <2>1. /\ textLength' \in Nat
        /\ newlines' \subseteq 0 .. (textLength' - 1)
        /\ fed' \in 0 .. textLength'
    BY DEF IInv, TypeOK
  <2>2. currentLineOffset' \in 0 .. (textLength' + 1)
    BY <1>4, Types
  <2>3. ended' \in BOOLEAN /\ last' \in BOOLEAN /\ adding' \in BOOLEAN
    BY <1>2 DEF IInv, TypeOK
  <2>4. lineOffsets' \in Seq(Nat) /\ calls' \in Seq(Call)
    BY <1>1, <1>3, LineDataTypes
  <2>5. lineBuffer' \in Seq(Nat) /\ chunk' \in Seq(Nat)
    BY <1>2, <1>4, Types
  <2> QED
    BY <2>1, <2>2, <2>3, <2>4, <2>5 DEF TypeOK
<1>6. ChunkIsText'
  BY <1>2 DEF IInv, ChunkIsText, Reached
<1>7. BufferIsText'
  BY <1>1, <1>2, <1>4 DEF BufferIsText
<1>8. EndsWithText'
  BY <1>2, <1>4 DEF IInv, EndsWithText, Finished
<1> QED
  BY <1>5, <1>6, <1>7, <1>8 DEF IInv

LEMMA BufferRestKeepsIInv ==
    ASSUME IInv, BufferRest, UNCHANGED <<newlines, textLength, fed, ended>>
    PROVE  IInv'
<1>1. /\ adding /\ chunk # <<>> /\ chunk' = <<>>
      /\ \A i \in 1 .. Len(chunk) : chunk[i] \notin newlines
      /\ lineBuffer' = lineBuffer \o chunk
      /\ UNCHANGED <<last, adding, lineOffsets, currentLineOffset, calls>>
  BY DEF BufferRest
<1>2. /\ currentLineOffset <= Reached
      /\ lineBuffer = Slice(currentLineOffset, Reached)
      /\ Unbroken(newlines, currentLineOffset, Reached)
      /\ chunk = Slice(Reached, fed)
  BY <1>1 DEF IInv, BufferIsText, ChunkIsText
<1>3. Reached' = fed
  BY <1>1, Types DEF Reached
<1>4. lineBuffer' = Slice(currentLineOffset, fed)
  BY <1>1, <1>2, SliceConcat, Types
<1>5. Unbroken(newlines, currentLineOffset, fed)
  <2> SUFFICES ASSUME NEW p \in currentLineOffset .. (fed - 1)
               PROVE  p \notin newlines
    BY DEF Unbroken
  <2>1. CASE p < Reached
    BY <1>2, <2>1, Types DEF Unbroken
  <2>2. CASE p >= Reached
    <3>1. p - Reached + 1 \in 1 .. (fed - Reached) /\ p \in Nat
      BY <2>2, Types
    <3>2. \A i \in 1 .. (fed - Reached) : Slice(Reached, fed)[i] = Reached + i - 1
      <4>1. Reached \in Nat /\ fed \in Nat /\ Reached <= fed
        BY Types
      <4> QED
        BY <4>1, SliceType
    <3>3. Slice(Reached, fed)[p - Reached + 1] = p
      <4>1. Reached \in Nat
        BY Types
      <4>2. Reached + (p - Reached + 1) - 1 = p
        BY <3>1, <4>1
      <4> QED
        BY <3>1, <3>2, <4>2
    <3> QED
      BY <1>1, <1>2, <3>1, <3>3, Types
  <2> QED
    BY <2>1, <2>2, Types
<1>6. TypeOK'
  <2>1. lineBuffer' \in Seq(Nat) /\ chunk' \in Seq(Nat)
    BY <1>1, Types
  <2> QED
    BY <1>1, <2>1 DEF IInv, TypeOK
<1>7. ChunkIsText'
  <2>1. Slice(fed, fed) = <<>> /\ Len(<<>>) <= fed
    BY EmptySlice, Types
  <2>2. Len(chunk') <= fed' /\ chunk' = Slice(Reached', fed')
    BY <1>1, <1>3, <2>1
  <2> QED
    BY <1>1, <2>2 DEF ChunkIsText
<1>8. BufferIsText'
  <2>1. currentLineOffset' <= Reached'
    BY <1>1, <1>2, <1>3, Types
  <2>2. /\ lineBuffer' = Slice(currentLineOffset', Reached')
        /\ Unbroken(newlines', currentLineOffset', Reached')
    BY <1>1, <1>3, <1>4, <1>5
  <2> QED
    BY <2>1, <2>2 DEF BufferIsText
<1>9. EndsWithText'
  BY <1>1 DEF IInv, EndsWithText, Finished
<1> QED
  BY <1>6, <1>7, <1>8, <1>9 DEF IInv

LEMMA ReturnKeepsIInv ==
    ASSUME IInv, Return, UNCHANGED <<newlines, textLength, fed, ended>>
    PROVE  IInv'
<1>1. /\ adding /\ chunk = <<>>
      /\ last => lineBuffer = <<>>
      /\ lineOffsets' = WithSentinel /\ adding' = FALSE
      /\ UNCHANGED <<chunk, last, lineBuffer, currentLineOffset, calls>>
  BY DEF Return
<1>2. lineOffsets' \in Seq(Nat)
  BY <1>1, Types DEF WithSentinel
<1>3. TypeOK'
  BY <1>1, <1>2 DEF IInv, TypeOK
<1>4. ChunkIsText'
  BY <1>1 DEF IInv, ChunkIsText, Reached
<1>5. BufferIsText'
  <2>1. Reached' = Reached
    BY <1>1 DEF Reached
  <2>2. CASE Reached >= currentLineOffset
             /\ lineBuffer = Slice(currentLineOffset, Reached)
             /\ Unbroken(newlines, currentLineOffset, Reached)
    BY <1>1, <2>1, <2>2, Types DEF BufferIsText
  <2>3. CASE currentLineOffset = textLength + 1 /\ ended
    BY <1>1, <2>3 DEF IInv, BufferIsText, EndsWithText, Finished
  <2> QED
    BY <1>1, <2>2, <2>3, Types DEF IInv, BufferIsText, Finished
<1>6. EndsWithText'
  BY <1>1 DEF IInv, EndsWithText, Finished
<1> QED
  BY <1>3, <1>4, <1>5, <1>6 DEF IInv

LEMMA IInvNext == IInv /\ [Next]_vars => IInv'
<1> SUFFICES ASSUME IInv, [Next]_vars PROVE IInv'
  OBVIOUS
<1>1. CASE Feed
  BY <1>1, FeedKeepsIInv
<1>2. CASE FinderStep
  <2>1. UNCHANGED <<newlines, textLength, fed, ended>>
    BY <1>2 DEF FinderStep
  <2>2. ASSUME NEW shouldAddLine \in BOOLEAN, FindLine(shouldAddLine)
        PROVE  IInv'
    BY <2>1, <2>2, FindLineKeepsIInv
  <2>3. ASSUME NEW shouldAddLine \in BOOLEAN, LastLine(shouldAddLine)
        PROVE  IInv'
    BY <2>1, <2>3, LastLineKeepsIInv
  <2>4. CASE BufferRest
    BY <2>1, <2>4, BufferRestKeepsIInv
  <2>5. CASE Return
    BY <2>1, <2>5, ReturnKeepsIInv
  <2> QED
    BY <1>2, <2>2, <2>3, <2>4, <2>5 DEF FinderStep
<1>3. CASE UNCHANGED vars
  BY <1>3 DEF vars, finderVars, IInv, TypeOK, ChunkIsText, BufferIsText,
              EndsWithText, Reached, Finished
<1> QED
  BY <1>1, <1>2, <1>3 DEF Next

\* The finder's state is what its types say, for a text of any length.
THEOREM TypeCorrect == Spec => []TypeOK
<1>1. Spec => []IInv
  BY IInvInit, IInvNext, PTL DEF Spec
<1>2. IInv => TypeOK
  BY DEF IInv
<1> QED
  BY <1>1, <1>2, PTL

-----------------------------------------------------------------------------
(* The finder implements LineStream                                         *)

\* The lines presented, as LineStream records them.
Reported == [i \in DOMAIN calls |->
                [offset |-> calls[i].offset, content |-> calls[i].content]]

\* Presenting one more line appends one more record.
LEMMA ReportedGrows ==
    ASSUME IInv, NEW call \in Call, calls' = Append(calls, call)
    PROVE  Reported' = Append(Reported, [offset |-> call.offset,
                                         content |-> call.content])
<1>1. calls \in Seq(Call)
  BY Types
<1>2. /\ DOMAIN calls = 1 .. Len(calls) /\ Len(calls) \in Nat
      /\ DOMAIN calls' = 1 .. (Len(calls) + 1)
      /\ \A i \in 1 .. Len(calls) : calls'[i] = calls[i]
      /\ calls'[Len(calls) + 1] = call
  BY <1>1
<1> DEFINE R(c) == [offset |-> c.offset, content |-> c.content]
<1>3. Reported = [i \in 1 .. Len(calls) |-> R(calls[i])]
  BY <1>2 DEF Reported
<1>4. Reported' = [i \in 1 .. (Len(calls) + 1) |-> R(calls'[i])]
  BY <1>2 DEF Reported
<1> HIDE DEF R
<1>5. Reported' = [i \in 1 .. (Len(calls) + 1) |->
                      IF i <= Len(calls) THEN R(calls[i]) ELSE R(call)]
  <2>1. \A i \in 1 .. (Len(calls) + 1) :
           R(calls'[i]) = IF i <= Len(calls) THEN R(calls[i]) ELSE R(call)
    BY <1>2
  <2> QED
    BY <1>4, <2>1
<1>6. Append(Reported, R(call)) = [i \in 1 .. (Len(calls) + 1) |->
                      IF i <= Len(calls) THEN R(calls[i]) ELSE R(call)]
  BY <1>2, <1>3
<1> QED
  BY <1>5, <1>6 DEF R

\* The call that LineData makes.
LEMMA CallMade ==
    ASSUME IInv, NEW shouldAddLine \in BOOLEAN, NEW segment,
           Line(segment) \in Seq(Nat), LineData(segment, shouldAddLine)
    PROVE  \E call \in Call :
              /\ calls' = Append(calls, call)
              /\ call.line = Number
              /\ call.offset = currentLineOffset
              /\ call.content = Line(segment)
              /\ call.saved = shouldAddLine
<1> DEFINE call == [line |-> Number, offset |-> currentLineOffset,
                    content |-> Line(segment), saved |-> shouldAddLine]
<1>1. Number \in Nat \ {0} /\ currentLineOffset \in Nat
  BY Types DEF Number
<1>2. call \in Call
  BY <1>1 DEF Call
<1>3. calls' = Append(calls, call)
  BY DEF LineData
<1> QED
  BY <1>2, <1>3

\* A step that reports the line that ends at `end` is the abstract Present.
LEMMA PresentStep ==
    ASSUME IInv, NEW shouldAddLine \in BOOLEAN, NEW segment, NEW end \in Nat,
           adding, UNCHANGED <<newlines, textLength, ended, adding>>,
           currentLineOffset <= end, end <= textLength,
           currentLineOffset < textLength,
           end \in newlines \/ end = textLength,
           Unbroken(newlines, currentLineOffset, end),
           Line(segment) = Slice(currentLineOffset, end),
           LineData(segment, shouldAddLine)
    PROVE  Lines!Present
<1>1. currentLineOffset \in Nat /\ textLength \in Nat
  BY Types
<1>2. /\ Slice(currentLineOffset, end) \in Seq(Nat)
      /\ Len(Slice(currentLineOffset, end)) = end - currentLineOffset
  BY <1>1, SliceType
<1>3. Reported' = Append(Reported, [offset |-> currentLineOffset,
                                    content |-> Slice(currentLineOffset, end)])
  <2>1. PICK call \in Call :
            /\ calls' = Append(calls, call)
            /\ call.offset = currentLineOffset
            /\ call.content = Line(segment)
    BY <1>2, CallMade
  <2> QED
    BY <2>1, ReportedGrows
<1>4. currentLineOffset' = end + 1
  <2>1. currentLineOffset' = currentLineOffset + (end - currentLineOffset) + 1
    BY <1>2 DEF LineData, After
  <2> QED
    BY <1>1, <2>1
<1>5. end \in currentLineOffset .. textLength
  BY <1>1
<1>6. Lines!IsLineEnd(newlines, textLength, currentLineOffset, end)
  BY DEF Lines!IsLineEnd, Lines!Unbroken, Unbroken
<1>7. Slice(currentLineOffset, end) = Lines!Slice(currentLineOffset, end)
  BY DEF Slice, Lines!Slice
<1>8. ~Finished /\ ~Finished'
  BY DEF Finished
<1>9. Finished' = Finished
  BY <1>8 DEF Finished
<1> QED
  BY <1>3, <1>4, <1>5, <1>6, <1>7, <1>8, <1>9 DEF Lines!Present, Reported

LEMMA LinesInit == Init => Lines!Init
<1> SUFFICES ASSUME Init PROVE Lines!Init
  OBVIOUS
<1>1. calls = <<>> /\ currentLineOffset = 0 /\ ~ended
  BY DEF Init, FinderInit
<1>2. Reported = <<>>
  BY <1>1 DEF Reported
<1>3. Finished = FALSE
  BY <1>1 DEF Finished
<1> QED
  BY <1>1, <1>2, <1>3 DEF Lines!Init, Reported

LEMMA LinesNext == IInv /\ [Next]_vars => [Lines!Next]_(Lines!vars)
<1> SUFFICES ASSUME IInv, [Next]_vars PROVE [Lines!Next]_(Lines!vars)
  OBVIOUS
<1>0. ASSUME UNCHANGED <<newlines, textLength, currentLineOffset, calls>>,
             Finished' = Finished
      PROVE  UNCHANGED Lines!vars
  BY <1>0 DEF Lines!vars
<1>1. CASE Feed
  <2>1. /\ ~Finished /\ ~Finished'
        /\ UNCHANGED <<newlines, textLength, currentLineOffset, calls>>
    BY <1>1 DEF Feed, Add, Finished
  <2>2. Finished' = Finished
    BY <2>1 DEF Finished
  <2> QED
    BY <1>0, <2>1, <2>2
<1>2. CASE FinderStep
  <2>1. UNCHANGED <<newlines, textLength, fed, ended>>
    BY <1>2 DEF FinderStep
  <2>2. ASSUME NEW shouldAddLine \in BOOLEAN, FindLine(shouldAddLine)
        PROVE  Lines!Next
    <3>1. PICK end \in Nat :
              /\ end \in newlines
              /\ currentLineOffset <= end /\ end < textLength
              /\ Unbroken(newlines, currentLineOffset, end)
              /\ Line(Slice(Reached, end)) = Slice(currentLineOffset, end)
              /\ LineData(Slice(Reached, end), shouldAddLine)
      BY <2>2, FoundLine
    <3>2. adding /\ UNCHANGED adding
      BY <2>2 DEF FindLine
    <3>3. currentLineOffset < textLength /\ end <= textLength
      BY <3>1, Types
    <3>4. Lines!Present
      BY <2>1, <3>1, <3>2, <3>3, PresentStep
    <3> QED
      BY <3>4 DEF Lines!Next
  <2>3. ASSUME NEW shouldAddLine \in BOOLEAN, LastLine(shouldAddLine)
        PROVE  Lines!Next
    <3>1. /\ adding /\ currentLineOffset < textLength
          /\ Unbroken(newlines, currentLineOffset, textLength)
          /\ Line(<<>>) = Slice(currentLineOffset, textLength)
          /\ LineData(<<>>, shouldAddLine)
      BY <2>3, FoundLastLine
    <3>2. UNCHANGED adding
      BY <2>3 DEF LastLine
    <3>3. /\ textLength \in Nat /\ currentLineOffset <= textLength
          /\ textLength <= textLength
      BY <3>1, Types
    <3>4. Lines!Present
      BY <2>1, <3>1, <3>2, <3>3, PresentStep
    <3> QED
      BY <3>4 DEF Lines!Next
  <2>4. CASE BufferRest
    <3>1. /\ UNCHANGED <<newlines, textLength, currentLineOffset, calls>>
          /\ UNCHANGED <<ended, adding>>
      BY <2>1, <2>4 DEF BufferRest
    <3>2. Finished' = Finished
      BY <3>1 DEF Finished
    <3> QED
      BY <1>0, <3>1, <3>2
  <2>5. CASE Return
    <3>1. /\ adding /\ ~adding' /\ chunk = <<>>
          /\ last => lineBuffer = <<>>
          /\ UNCHANGED <<newlines, textLength, currentLineOffset, calls, ended>>
      BY <2>1, <2>5 DEF Return
    <3>2. CASE ~ended
      <4>1. Finished' = Finished
        BY <3>1, <3>2 DEF Finished
      <4> QED
        BY <1>0, <3>1, <4>1
    <3>3. CASE ended
      <4>1. ~Finished /\ Finished'
        BY <3>1, <3>3 DEF Finished
      <4>2. currentLineOffset >= textLength
        <5>1. lineBuffer = <<>> /\ fed = textLength
          BY <3>1, <3>3 DEF IInv, EndsWithText
        <5>2. Reached = textLength
          BY <3>1, <5>1, Types DEF Reached
        <5>3. CASE currentLineOffset = textLength + 1
          BY <5>3, Types
        <5>4. CASE /\ currentLineOffset <= textLength
                   /\ lineBuffer = Slice(currentLineOffset, textLength)
          <6>1. currentLineOffset \in Nat /\ textLength \in Nat
            BY Types
          <6>2. Len(Slice(currentLineOffset, textLength))
                   = textLength - currentLineOffset
            BY <5>4, <6>1, SliceType
          <6>3. textLength - currentLineOffset = 0
            BY <5>1, <5>4, <6>2
          <6> QED
            BY <6>1, <6>3
        <5> QED
          BY <5>2, <5>3, <5>4 DEF IInv, BufferIsText
      <4>3. Finished' = TRUE
        BY <4>1 DEF Finished
      <4>4. Lines!Finish
        BY <3>1, <4>1, <4>2, <4>3 DEF Lines!Finish
      <4> QED
        BY <4>4 DEF Lines!Next
    <3> QED
      BY <3>2, <3>3
  <2> QED
    BY <1>2, <2>2, <2>3, <2>4, <2>5 DEF FinderStep
<1>3. CASE UNCHANGED vars
  <2>1. /\ UNCHANGED <<newlines, textLength, currentLineOffset, calls>>
        /\ UNCHANGED <<ended, adding>>
    BY <1>3 DEF vars, finderVars
  <2>2. Finished' = Finished
    BY <2>1 DEF Finished
  <2> QED
    BY <1>0, <2>1, <2>2
<1> QED
  BY <1>1, <1>2, <1>3 DEF Next

\* LineFinder::add, given a text of any length in blocks that end anywhere,
\* presents its lines as LineStream does: once each, in order, byte for byte, and
\* it does not finish before the last.
THEOREM ImplementsLineStream == Spec => PresentsLinesInOrder
<1>1. Spec => []IInv
  BY IInvInit, IInvNext, PTL DEF Spec
<1>2. Init => Lines!Init
  BY LinesInit
<1>3. IInv /\ [Next]_vars => [Lines!Next]_(Lines!vars)
  BY LinesNext
<1> QED
  BY <1>1, <1>2, <1>3, PTL DEF Spec, PresentsLinesInOrder, Lines!Spec

-----------------------------------------------------------------------------
\* The number the next line will get follows the last call; NumberIsRow alone is
\* not inductive, because it does not say where lineOffsets_ ends.
NextNumber(call) == call.line + (IF call.saved THEN 1 ELSE 0)

RowInv ==
    /\ NumberIsRow
    /\ calls # <<>> /\ ~Finished => Number = NextNumber(calls[Len(calls)])

LEMMA LineDataKeepsRowInv ==
    ASSUME IInv, RowInv, NEW shouldAddLine \in BOOLEAN, NEW segment,
           adding, UNCHANGED <<adding, ended>>,
           Line(segment) \in Seq(Nat), LineData(segment, shouldAddLine)
    PROVE  RowInv'
<1>1. PICK call \in Call :
          /\ calls' = Append(calls, call)
          /\ call.line = Number
          /\ call.offset = currentLineOffset
          /\ call.saved = shouldAddLine
  BY CallMade
<1>2. /\ calls \in Seq(Call) /\ lineOffsets \in Seq(Nat)
      /\ currentLineOffset \in Nat
  BY Types
<1> DEFINE n == Len(calls)
<1>3. /\ n \in Nat /\ DOMAIN calls = 1 .. n /\ DOMAIN calls' = 1 .. (n + 1)
      /\ \A i \in 1 .. n : calls'[i] = calls[i]
      /\ calls'[n + 1] = call
      /\ Len(calls') = n + 1
  BY <1>1, <1>2
<1>4. lineOffsets' = IF call.saved THEN Append(lineOffsets, call.offset)
                     ELSE lineOffsets
  BY <1>1 DEF LineData
<1>5. /\ Len(lineOffsets) \in Nat
      /\ DOMAIN lineOffsets = 1 .. Len(lineOffsets)
      /\ DOMAIN lineOffsets \subseteq DOMAIN lineOffsets'
      /\ \A k \in DOMAIN lineOffsets : lineOffsets'[k] = lineOffsets[k]
  BY <1>2, <1>4
<1>6. ~Finished /\ ~Finished'
  BY DEF Finished
<1>7. n > 0 => call.line = NextNumber(calls[n])
  <2>1. n > 0 => calls # <<>>
    BY <1>2
  <2> QED
    BY <1>1, <1>6, <2>1 DEF RowInv
<1>8. /\ call.saved => /\ call.line \in DOMAIN lineOffsets'
                       /\ lineOffsets'[call.line] = call.offset
      /\ Number' = NextNumber(call)
  <2>1. CASE call.saved
    <3>1. lineOffsets' = Append(lineOffsets, call.offset) /\ call.offset \in Nat
      BY <1>1, <1>2, <1>4, <2>1
    <3>2. call.line = Len(lineOffsets) + 1
      BY <1>1 DEF Number
    <3>3. /\ Len(lineOffsets') = Len(lineOffsets) + 1
          /\ call.line \in DOMAIN lineOffsets'
          /\ lineOffsets'[call.line] = call.offset
      BY <1>2, <3>1, <3>2
    <3> QED
      BY <2>1, <3>2, <3>3 DEF Number, NextNumber
  <2>2. CASE ~call.saved
    <3>1. Number' = call.line /\ call.line \in Nat
      BY <1>1, <1>4, <1>5, <2>2 DEF Number
    <3> QED
      BY <2>2, <3>1 DEF NextNumber
  <2> QED
    BY <2>1, <2>2
<1> HIDE DEF n
<1>9. ASSUME NEW i \in DOMAIN calls'
      PROVE  /\ calls'[i].saved => /\ calls'[i].line \in DOMAIN lineOffsets'
                                   /\ lineOffsets'[calls'[i].line] = calls'[i].offset
             /\ i + 1 \in DOMAIN calls' => calls'[i + 1].line = NextNumber(calls'[i])
  <2>1. CASE i = n + 1
    <3>1. i + 1 \notin DOMAIN calls'
      BY <1>3, <2>1
    <3> QED
      BY <1>3, <1>8, <2>1, <3>1
  <2>2. CASE i \in 1 .. n
    <3>1. calls'[i] = calls[i] /\ i \in DOMAIN calls
      BY <1>3, <2>2
    <3>2. calls[i].saved => /\ calls[i].line \in DOMAIN lineOffsets
                            /\ lineOffsets[calls[i].line] = calls[i].offset
      BY <3>1 DEF RowInv, NumberIsRow
    <3>3. calls[i].saved => /\ calls[i].line \in DOMAIN lineOffsets'
                            /\ lineOffsets'[calls[i].line] = calls[i].offset
      BY <1>5, <3>2
    <3>4. CASE i = n
      BY <1>3, <1>7, <2>2, <3>1, <3>3, <3>4
    <3>5. CASE i < n
      <4>1. i + 1 \in DOMAIN calls /\ calls'[i + 1] = calls[i + 1]
        BY <1>3, <2>2, <3>5
      <4>2. calls[i + 1].line = NextNumber(calls[i])
        BY <3>1, <4>1 DEF RowInv, NumberIsRow, NextNumber
      <4> QED
        BY <3>1, <3>3, <4>1, <4>2
    <3> QED
      BY <1>3, <2>2, <3>4, <3>5
  <2> QED
    BY <1>3, <2>1, <2>2
<1>10. NumberIsRow'
  BY <1>9 DEF NumberIsRow, NextNumber
<1>11. Number' = NextNumber(calls'[Len(calls')])
  BY <1>3, <1>8
<1> QED
  BY <1>10, <1>11 DEF RowInv, NextNumber

LEMMA RowInvNext == IInv /\ RowInv /\ [Next]_vars => RowInv'
<1> SUFFICES ASSUME IInv, RowInv, [Next]_vars PROVE RowInv'
  OBVIOUS
<1>0. ASSUME UNCHANGED <<calls, lineOffsets>>, Finished' = Finished
      PROVE  RowInv'
  BY <1>0 DEF RowInv, NumberIsRow, Number, NextNumber
<1>1. CASE Feed
  <2>1. ~Finished /\ ~Finished' /\ UNCHANGED <<calls, lineOffsets>>
    BY <1>1 DEF Feed, Add, Finished
  <2>2. Finished' = Finished
    BY <2>1 DEF Finished
  <2> QED
    BY <1>0, <2>1, <2>2
<1>2. CASE FinderStep
  <2>1. UNCHANGED <<newlines, textLength, fed, ended>>
    BY <1>2 DEF FinderStep
  <2>2. ASSUME NEW shouldAddLine \in BOOLEAN, FindLine(shouldAddLine)
        PROVE  RowInv'
    <3>1. PICK end \in Nat :
              /\ currentLineOffset <= end
              /\ Line(Slice(Reached, end)) = Slice(currentLineOffset, end)
              /\ LineData(Slice(Reached, end), shouldAddLine)
      BY <2>2, FoundLine
    <3>2. currentLineOffset \in Nat
      BY Types
    <3>3. Line(Slice(Reached, end)) \in Seq(Nat)
      BY <3>1, <3>2, SliceType
    <3>4. adding /\ UNCHANGED <<adding, ended>>
      BY <2>1, <2>2 DEF FindLine
    <3> QED
      BY <3>1, <3>3, <3>4, LineDataKeepsRowInv
  <2>3. ASSUME NEW shouldAddLine \in BOOLEAN, LastLine(shouldAddLine)
        PROVE  RowInv'
    <3>1. /\ adding /\ currentLineOffset < textLength
          /\ Line(<<>>) = Slice(currentLineOffset, textLength)
          /\ LineData(<<>>, shouldAddLine)
      BY <2>3, FoundLastLine
    <3>2. /\ currentLineOffset \in Nat /\ textLength \in Nat
          /\ currentLineOffset <= textLength
      BY <3>1, Types
    <3>3. Line(<<>>) \in Seq(Nat)
      BY <3>1, <3>2, SliceType
    <3>4. UNCHANGED <<adding, ended>>
      BY <2>1, <2>3 DEF LastLine
    <3> QED
      BY <3>1, <3>3, <3>4, LineDataKeepsRowInv
  <2>4. CASE BufferRest
    <3>1. UNCHANGED <<calls, lineOffsets, adding, ended>>
      BY <2>1, <2>4 DEF BufferRest
    <3>2. Finished' = Finished
      BY <3>1 DEF Finished
    <3> QED
      BY <1>0, <3>1, <3>2
  <2>5. CASE Return
    <3>1. /\ adding /\ ~adding' /\ lineOffsets' = WithSentinel
          /\ UNCHANGED <<calls, ended, last>>
      BY <2>1, <2>5 DEF Return
    <3>2. CASE ~last
      <4>1. ~ended
        BY <3>2 DEF IInv, EndsWithText
      <4>2. Finished' = Finished /\ lineOffsets' = lineOffsets
        BY <3>1, <3>2, <4>1 DEF Finished, WithSentinel
      <4> QED
        BY <1>0, <3>1, <4>2
    <3>3. CASE last
      <4>1. Finished'
        BY <3>1, <3>3 DEF IInv, EndsWithText, Finished
      <4>2. /\ lineOffsets \in Seq(Nat) /\ currentLineOffset \in Nat
            /\ lineOffsets' = Append(lineOffsets, currentLineOffset)
        BY <3>1, <3>3, Types DEF WithSentinel
      <4>3. /\ DOMAIN lineOffsets \subseteq DOMAIN lineOffsets'
            /\ \A k \in DOMAIN lineOffsets : lineOffsets'[k] = lineOffsets[k]
        BY <4>2
      <4>4. NumberIsRow'
        BY <3>1, <4>3 DEF RowInv, NumberIsRow
      <4> QED
        BY <4>1, <4>4 DEF RowInv
    <3> QED
      BY <3>2, <3>3
  <2> QED
    BY <1>2, <2>2, <2>3, <2>4, <2>5 DEF FinderStep
<1>3. CASE UNCHANGED vars
  <2>1. UNCHANGED <<calls, lineOffsets, ended, adding>>
    BY <1>3 DEF vars, finderVars
  <2>2. Finished' = Finished
    BY <2>1 DEF Finished
  <2> QED
    BY <1>0, <2>1, <2>2
<1> QED
  BY <1>1, <1>2, <1>3 DEF Next

\* The number LineFinder::lineData gives the sink with a line it keeps is the row
\* of lineOffsets_ that holds that line's offset, and stays so.
THEOREM LineNumbersAreRows == Spec => []NumberIsRow
<1>1. Init => RowInv
  BY DEF Init, FinderInit, RowInv, NumberIsRow
<1>2. Spec => []IInv
  BY IInvInit, IInvNext, PTL DEF Spec
<1>3. RowInv => NumberIsRow
  BY DEF RowInv
<1> QED
  BY <1>1, <1>2, <1>3, RowInvNext, PTL DEF Spec
-----------------------------------------------------------------------------
(* The offsets that are kept                                                *)

\* One line is presented, from where the finder has come to `end`.
Sees(end, saved) ==
    /\ end \in Nat /\ currentLineOffset <= end /\ end <= textLength
    /\ currentLineOffset < textLength
    /\ IsLineEnd(newlines, textLength, currentLineOffset, end)
    /\ currentLineOffset' = end + 1
    /\ lineOffsets' = IF saved THEN Append(lineOffsets, currentLineOffset) ELSE lineOffsets
    /\ \E call \in Call : /\ calls' = Append(calls, call)
                          /\ call.line = Number /\ call.saved = saved
    /\ ~Finished /\ ~Finished'
    /\ UNCHANGED <<newlines, textLength>>

\* The last block is done: the offset where a next line would start is kept.
Seals ==
    /\ ~Finished /\ Finished'
    /\ currentLineOffset >= textLength
    /\ lineOffsets' = Append(lineOffsets, currentLineOffset)
    /\ UNCHANGED <<newlines, textLength, currentLineOffset, calls>>

\* Nothing is presented or kept.
Rests ==
    /\ Finished' = Finished
    /\ UNCHANGED <<newlines, textLength, lineOffsets, currentLineOffset, calls>>

LEMMA SeesLine ==
    ASSUME IInv, NEW shouldAddLine \in BOOLEAN, NEW segment, NEW end \in Nat,
           adding, UNCHANGED <<newlines, textLength, ended, adding>>,
           currentLineOffset <= end, end <= textLength, currentLineOffset < textLength,
           end \in newlines \/ end = textLength,
           Unbroken(newlines, currentLineOffset, end),
           Line(segment) = Slice(currentLineOffset, end),
           LineData(segment, shouldAddLine)
    PROVE  Sees(end, shouldAddLine)
<1>1. currentLineOffset \in Nat /\ textLength \in Nat
  BY Types
<1>2. /\ Slice(currentLineOffset, end) \in Seq(Nat)
      /\ Len(Slice(currentLineOffset, end)) = end - currentLineOffset
  BY <1>1, SliceType
<1>3. PICK call \in Call :
          /\ calls' = Append(calls, call)
          /\ call.line = Number /\ call.saved = shouldAddLine
  BY <1>2, CallMade
<1>4. currentLineOffset' = end + 1
  <2>1. currentLineOffset' = currentLineOffset + (end - currentLineOffset) + 1
    BY <1>2 DEF LineData, After
  <2> QED
    BY <1>1, <2>1
<1>5. IsLineEnd(newlines, textLength, currentLineOffset, end)
  BY DEF IsLineEnd
<1>6. ~Finished /\ ~Finished'
  BY DEF Finished
<1>7. lineOffsets' = IF shouldAddLine THEN Append(lineOffsets, currentLineOffset)
                     ELSE lineOffsets
  BY DEF LineData
<1> QED
  BY <1>3, <1>4, <1>5, <1>6, <1>7 DEF Sees

\* When add() has returned for the last block, all the text has been presented.
LEMMA EndReached ==
    ASSUME IInv, adding, ended, chunk = <<>>, lineBuffer = <<>>
    PROVE  currentLineOffset >= textLength
<1>1. fed = textLength
  BY DEF IInv, EndsWithText
<1>2. Reached = textLength
  BY <1>1, Types DEF Reached
<1>3. currentLineOffset \in Nat /\ textLength \in Nat
  BY Types
<1>4. CASE currentLineOffset = textLength + 1
  BY <1>3, <1>4
<1>5. CASE /\ currentLineOffset <= textLength
           /\ lineBuffer = Slice(currentLineOffset, textLength)
  <2>1. Len(Slice(currentLineOffset, textLength)) = textLength - currentLineOffset
    BY <1>3, <1>5, SliceType
  <2>2. textLength - currentLineOffset = 0
    BY <1>5, <2>1
  <2> QED
    BY <1>3, <2>2
<1> QED
  BY <1>2, <1>4, <1>5 DEF IInv, BufferIsText

LEMMA OffsetSteps ==
    ASSUME IInv, [Next]_vars
    PROVE  \/ \E end \in Nat, saved \in BOOLEAN : Sees(end, saved)
           \/ Seals
           \/ Rests
<1>1. CASE Feed
  <2>1. ~Finished /\ ~Finished'
        /\ UNCHANGED <<newlines, textLength, lineOffsets, currentLineOffset, calls>>
    BY <1>1 DEF Feed, Add, Finished
  <2>2. Finished' = Finished
    BY <2>1 DEF Finished
  <2> QED
    BY <2>1, <2>2 DEF Rests
<1>2. CASE FinderStep
  <2>1. UNCHANGED <<newlines, textLength, fed, ended>>
    BY <1>2 DEF FinderStep
  <2>2. ASSUME NEW shouldAddLine \in BOOLEAN, FindLine(shouldAddLine)
        PROVE  \E end \in Nat : Sees(end, shouldAddLine)
    <3>1. PICK end \in Nat :
              /\ end \in newlines
              /\ currentLineOffset <= end /\ end < textLength
              /\ Unbroken(newlines, currentLineOffset, end)
              /\ Line(Slice(Reached, end)) = Slice(currentLineOffset, end)
              /\ LineData(Slice(Reached, end), shouldAddLine)
      BY <2>2, FoundLine
    <3>2. adding /\ UNCHANGED adding
      BY <2>2 DEF FindLine
    <3>3. currentLineOffset < textLength /\ end <= textLength
      BY <3>1, Types
    <3>4. Sees(end, shouldAddLine)
      BY <2>1, <3>1, <3>2, <3>3, SeesLine
    <3> QED
      BY <3>4
  <2>3. ASSUME NEW shouldAddLine \in BOOLEAN, LastLine(shouldAddLine)
        PROVE  \E end \in Nat : Sees(end, shouldAddLine)
    <3>1. /\ adding /\ currentLineOffset < textLength
          /\ Unbroken(newlines, currentLineOffset, textLength)
          /\ Line(<<>>) = Slice(currentLineOffset, textLength)
          /\ LineData(<<>>, shouldAddLine)
      BY <2>3, FoundLastLine
    <3>2. UNCHANGED adding
      BY <2>3 DEF LastLine
    <3>3. /\ textLength \in Nat /\ currentLineOffset <= textLength
          /\ textLength <= textLength
      BY <3>1, Types
    <3>4. Sees(textLength, shouldAddLine)
      BY <2>1, <3>1, <3>2, <3>3, SeesLine
    <3> QED
      BY <3>3, <3>4
  <2>4. CASE BufferRest
    <3>1. UNCHANGED <<newlines, textLength, lineOffsets, currentLineOffset, calls, ended,
                      adding>>
      BY <2>1, <2>4 DEF BufferRest
    <3>2. Finished' = Finished
      BY <3>1 DEF Finished
    <3> QED
      BY <3>1, <3>2 DEF Rests
  <2>5. CASE Return
    <3>1. /\ adding /\ ~adding' /\ chunk = <<>>
          /\ last => lineBuffer = <<>>
          /\ lineOffsets' = WithSentinel
          /\ UNCHANGED <<newlines, textLength, currentLineOffset, calls, ended, last>>
      BY <2>1, <2>5 DEF Return
    <3>2. last = ended
      BY DEF IInv, EndsWithText
    <3>3. CASE ~ended
      <4>1. Finished' = Finished /\ lineOffsets' = lineOffsets
        BY <3>1, <3>2, <3>3 DEF Finished, WithSentinel
      <4> QED
        BY <3>1, <4>1 DEF Rests
    <3>4. CASE ended
      <4>1. ~Finished /\ Finished'
        BY <3>1, <3>4 DEF Finished
      <4>2. lineOffsets' = Append(lineOffsets, currentLineOffset)
        BY <3>1, <3>2, <3>4 DEF WithSentinel
      <4>3. currentLineOffset >= textLength
        BY <3>1, <3>2, <3>4, EndReached
      <4> QED
        BY <3>1, <4>1, <4>2, <4>3 DEF Seals
    <3> QED
      BY <3>3, <3>4
  <2> QED
    BY <1>2, <2>2, <2>3, <2>4, <2>5 DEF FinderStep
<1>3. CASE UNCHANGED vars
  <2>1. UNCHANGED <<newlines, textLength, lineOffsets, currentLineOffset, calls, ended,
                    adding>>
    BY <1>3 DEF vars, finderVars
  <2>2. Finished' = Finished
    BY <2>1 DEF Finished
  <2> QED
    BY <2>1, <2>2 DEF Rests
<1> QED
  BY <1>1, <1>2, <1>3 DEF Next

\* Lines kept so far; at the end lineOffsets_ has one offset more.
Kept == IF Finished THEN Len(lineOffsets) - 1 ELSE Len(lineOffsets)

\* Where what is kept as line k ends: with the next line kept.
NextOffset(k) == IF k < Len(lineOffsets) THEN lineOffsets[k + 1] ELSE currentLineOffset

AllSaved == \A i \in DOMAIN calls : calls[i].saved

\* The finder is at the start of a line, or past a last line without newline.
AtLine ==
    \/ currentLineOffset = 0
    \/ currentLineOffset - 1 \in newlines
    \/ /\ textLength > 0 /\ currentLineOffset = textLength + 1
       /\ textLength - 1 \notin newlines

SealedAtEnd ==
    Finished => /\ Len(lineOffsets) > 0
                /\ lineOffsets[Len(lineOffsets)] = currentLineOffset
                /\ currentLineOffset >= textLength

\* A line kept is a whole line of the text, before the next line kept.
WholeLine(k) ==
    \E end \in lineOffsets[k] .. textLength :
        /\ end < NextOffset(k)
        /\ IsLineEnd(newlines, textLength, lineOffsets[k], end)

KeptAreLines ==
    \A k \in 1 .. Kept :
        /\ IsLineStart(newlines, textLength, lineOffsets[k])
        /\ lineOffsets[k] < currentLineOffset
        /\ WholeLine(k)

KeptInOrder == \A j, k \in 1 .. Kept : j < k => lineOffsets[j] < lineOffsets[k]

\* If every line is kept, no line start is missing, and rows are single lines.
NoLineMissing ==
    AllSaved =>
        /\ \A p \in 0 .. (currentLineOffset - 1) :
              IsLineStart(newlines, textLength, p) => \E k \in 1 .. Kept : lineOffsets[k] = p
        /\ \A k \in 1 .. Kept :
              IsLineEnd(newlines, textLength, lineOffsets[k], NextOffset(k) - 1)

OffsetsInv == AtLine /\ SealedAtEnd /\ KeptAreLines /\ KeptInOrder /\ NoLineMissing

LEMMA OffsetsInit == Begins => OffsetsInv
BY DEF Begins, FinderInit, OffsetsInv, AtLine, SealedAtEnd, KeptAreLines, KeptInOrder,
       NoLineMissing, Kept, Finished, NextOffset

\* What LineData leaves of the offsets kept before.
LEMMA SeesKept ==
    ASSUME IInv, OffsetsInv, NEW end \in Nat, NEW saved \in BOOLEAN, Sees(end, saved)
    PROVE  /\ Kept = Len(lineOffsets) /\ Kept \in Nat
           /\ Kept' = IF saved THEN Kept + 1 ELSE Kept
           /\ \A k \in 1 .. Kept : lineOffsets'[k] = lineOffsets[k]
           /\ saved => lineOffsets'[Kept + 1] = currentLineOffset
           /\ Len(lineOffsets') = Kept'
           /\ \A k \in 1 .. (Kept - 1) : NextOffset(k)' = NextOffset(k)
           /\ \A k \in 1 .. Kept :
                 k = Kept => /\ NextOffset(k) = currentLineOffset
                             /\ NextOffset(k)' = IF saved THEN currentLineOffset ELSE end + 1
           /\ saved => \A k \in Nat : k = Kept + 1 => NextOffset(k)' = end + 1
<1>1. lineOffsets \in Seq(Nat) /\ currentLineOffset \in Nat
  BY Types
<1>2. ~Finished /\ ~Finished' /\ currentLineOffset' = end + 1
      /\ lineOffsets' = IF saved THEN Append(lineOffsets, currentLineOffset) ELSE lineOffsets
  BY DEF Sees
<1>3. Kept = Len(lineOffsets) /\ Kept' = Len(lineOffsets') /\ Kept \in Nat
  BY <1>1, <1>2 DEF Kept
<1>4. CASE saved
  <2>1. /\ Len(lineOffsets') = Len(lineOffsets) + 1
        /\ \A k \in 1 .. Len(lineOffsets) : lineOffsets'[k] = lineOffsets[k]
        /\ lineOffsets'[Len(lineOffsets) + 1] = currentLineOffset
    BY <1>1, <1>2, <1>4
  <2>2. /\ Kept' = Kept + 1
        /\ \A k \in 1 .. Kept : lineOffsets'[k] = lineOffsets[k]
        /\ lineOffsets'[Kept + 1] = currentLineOffset
    BY <1>3, <2>1
  <2>3. \A k \in 1 .. (Kept - 1) : NextOffset(k)' = NextOffset(k)
    <3> TAKE k \in 1 .. (Kept - 1)
    <3>1. k < Len(lineOffsets) /\ k < Len(lineOffsets') /\ k + 1 \in 1 .. Kept
      BY <1>3, <2>1
    <3> QED
      BY <2>2, <3>1 DEF NextOffset
  <2>4. ASSUME NEW k \in 1 .. Kept, k = Kept
        PROVE  NextOffset(k) = currentLineOffset /\ NextOffset(k)' = currentLineOffset
    <3>1. ~(k < Len(lineOffsets)) /\ k < Len(lineOffsets') /\ k + 1 = Kept + 1
      BY <1>3, <2>1, <2>4
    <3> QED
      BY <2>2, <3>1 DEF NextOffset
  <2>5. ASSUME NEW k \in Nat, k = Kept + 1
        PROVE  NextOffset(k)' = end + 1
    <3>1. ~(k < Len(lineOffsets'))
      BY <1>3, <2>1, <2>5
    <3> QED
      BY <1>2, <3>1 DEF NextOffset
  <2> QED
    BY <1>3, <1>4, <2>2, <2>3, <2>4, <2>5
<1>5. CASE ~saved
  BY <1>2, <1>3, <1>5 DEF NextOffset
<1> QED
  BY <1>4, <1>5

LEMMA SeesKeeps ==
    ASSUME IInv, OffsetsInv, NEW end \in Nat, NEW saved \in BOOLEAN, Sees(end, saved)
    PROVE  OffsetsInv'
<1> DEFINE at == currentLineOffset
           n == Kept
<1>1. /\ at \in Nat /\ textLength \in Nat /\ newlines \subseteq 0 .. (textLength - 1)
      /\ lineOffsets \in Seq(Nat) /\ calls \in Seq(Call)
  BY Types
<1>2. /\ at <= end /\ end <= textLength /\ at < textLength
      /\ IsLineEnd(newlines, textLength, at, end)
      /\ at' = end + 1 /\ ~Finished'
      /\ newlines' = newlines /\ textLength' = textLength
  BY DEF Sees
<1>3. /\ n = Len(lineOffsets) /\ n \in Nat
      /\ n' = IF saved THEN n + 1 ELSE n
      /\ \A k \in 1 .. n : lineOffsets'[k] = lineOffsets[k]
      /\ saved => lineOffsets'[n + 1] = at
      /\ \A k \in 1 .. (n - 1) : NextOffset(k)' = NextOffset(k)
      /\ \A k \in 1 .. n :
            k = n => /\ NextOffset(k) = at
                     /\ NextOffset(k)' = IF saved THEN at ELSE end + 1
      /\ saved => \A k \in Nat : k = n + 1 => NextOffset(k)' = end + 1
  BY SeesKept
<1>4. IsLineStart(newlines, textLength, at)
  BY <1>1, <1>2 DEF OffsetsInv, AtLine, IsLineStart
<1>5. AtLine'
  <2>1. CASE end \in newlines
    BY <1>1, <1>2, <2>1 DEF AtLine
  <2>2. CASE end \notin newlines
    <3>1. end = textLength /\ Unbroken(newlines, at, end)
      BY <1>2, <2>2 DEF IsLineEnd
    <3>2. textLength - 1 \in at .. (end - 1)
      BY <1>1, <1>2, <3>1
    <3>3. textLength - 1 \notin newlines
      BY <3>1, <3>2 DEF Unbroken
    <3> QED
      BY <1>1, <1>2, <3>1, <3>3 DEF AtLine
  <2> QED
    BY <2>1, <2>2
<1>6. SealedAtEnd'
  BY <1>2 DEF SealedAtEnd
<1>7. \A k \in 1 .. n : lineOffsets[k] \in Nat /\ lineOffsets[k] < at
  BY <1>1, <1>3 DEF OffsetsInv, KeptAreLines
<1>8. \A k \in 1 .. n : NextOffset(k) <= NextOffset(k)' /\ NextOffset(k) \in Nat
                        /\ NextOffset(k)' \in Nat
  <2> TAKE k \in 1 .. n
  <2>1. CASE k = n
    BY <1>1, <1>2, <1>3, <2>1
  <2>2. CASE k # n
    <3>1. k \in 1 .. (n - 1) /\ k + 1 \in 1 .. n
      BY <1>3, <2>2
    <3>2. NextOffset(k) \in Nat
      BY <1>1, <1>3, <1>7, <3>1 DEF NextOffset
    <3> QED
      BY <1>3, <3>1, <3>2
  <2> QED
    BY <2>1, <2>2
<1>9. KeptAreLines'
  <2> SUFFICES ASSUME NEW k \in 1 .. n'
               PROVE  /\ IsLineStart(newlines, textLength, lineOffsets'[k])
                      /\ lineOffsets'[k] < end + 1
                      /\ WholeLine(k)'
    BY <1>2 DEF KeptAreLines
  <2>1. CASE k \in 1 .. n
    <3>1. /\ IsLineStart(newlines, textLength, lineOffsets[k])
          /\ lineOffsets[k] < at /\ WholeLine(k)
      BY <2>1 DEF OffsetsInv, KeptAreLines
    <3>2. PICK e \in lineOffsets[k] .. textLength :
             e < NextOffset(k) /\ IsLineEnd(newlines, textLength, lineOffsets[k], e)
      BY <3>1 DEF WholeLine
    <3>3. lineOffsets'[k] = lineOffsets[k] /\ lineOffsets[k] \in Nat
      BY <1>3, <1>7, <2>1
    <3>4. e < NextOffset(k)'
      BY <1>1, <1>8, <2>1, <3>2, <3>3
    <3>5. WholeLine(k)'
      BY <1>2, <3>2, <3>3, <3>4 DEF WholeLine
    <3>6. lineOffsets[k] < end + 1
      BY <1>1, <1>2, <3>1, <3>3
    <3> QED
      BY <3>1, <3>3, <3>5, <3>6
  <2>2. CASE k \notin 1 .. n
    <3>1. k = n + 1 /\ saved
      BY <1>3, <2>2
    <3>2. lineOffsets'[k] = at /\ NextOffset(k)' = end + 1
      BY <1>3, <3>1
    <3>3. end \in at .. textLength /\ end < end + 1 /\ at < end + 1
      BY <1>1, <1>2
    <3>4. WholeLine(k)'
      BY <1>2, <3>2, <3>3 DEF WholeLine
    <3> QED
      BY <1>4, <3>2, <3>3, <3>4
  <2> QED
    BY <2>1, <2>2
<1>10. KeptInOrder'
  <2> SUFFICES ASSUME NEW j \in 1 .. n', NEW k \in 1 .. n', j < k
               PROVE  lineOffsets'[j] < lineOffsets'[k]
    BY DEF KeptInOrder
  <2>1. CASE k \in 1 .. n
    <3>1. j \in 1 .. n
      BY <1>3, <2>1
    <3>2. lineOffsets[j] < lineOffsets[k]
      BY <2>1, <3>1 DEF OffsetsInv, KeptInOrder
    <3> QED
      BY <1>3, <2>1, <3>1, <3>2
  <2>2. CASE k \notin 1 .. n
    <3>1. k = n + 1 /\ saved /\ j \in 1 .. n
      BY <1>3, <2>2
    <3> QED
      BY <1>3, <1>7, <3>1
  <2> QED
    BY <2>1, <2>2
<1>11. NoLineMissing'
  <2> SUFFICES ASSUME AllSaved' PROVE
           /\ \A p \in 0 .. end :
                 IsLineStart(newlines, textLength, p)
                    => \E k \in 1 .. n' : lineOffsets'[k] = p
           /\ \A k \in 1 .. n' :
                 IsLineEnd(newlines, textLength, lineOffsets'[k], NextOffset(k)' - 1)
    <3>1. (end + 1) - 1 = end
      OBVIOUS
    <3> QED
      BY <1>2, <3>1 DEF NoLineMissing
  <2>1. AllSaved /\ saved
    <3>1. PICK call \in Call : calls' = Append(calls, call) /\ call.saved = saved
      BY DEF Sees
    <3>2. /\ DOMAIN calls = 1 .. Len(calls) /\ Len(calls) \in Nat
          /\ DOMAIN calls' = 1 .. (Len(calls) + 1)
          /\ \A i \in 1 .. Len(calls) : calls'[i] = calls[i]
          /\ calls'[Len(calls) + 1] = call
      BY <1>1, <3>1
    <3>3. Len(calls) + 1 \in DOMAIN calls' /\ DOMAIN calls \subseteq DOMAIN calls'
      BY <3>2
    <3> QED
      BY <3>1, <3>2, <3>3 DEF AllSaved
  <2>2. /\ \A p \in 0 .. (at - 1) :
              IsLineStart(newlines, textLength, p) => \E k \in 1 .. n : lineOffsets[k] = p
        /\ \A k \in 1 .. n :
              IsLineEnd(newlines, textLength, lineOffsets[k], NextOffset(k) - 1)
    BY <2>1 DEF OffsetsInv, NoLineMissing
  <2>3. n' = n + 1 /\ n + 1 \in 1 .. n' /\ 1 .. n \subseteq 1 .. n'
    BY <1>3, <2>1
  <2>4. ASSUME NEW p \in 0 .. end, IsLineStart(newlines, textLength, p)
        PROVE  \E k \in 1 .. n' : lineOffsets'[k] = p
    <3>1. CASE p < at
      <4>1. p \in 0 .. (at - 1)
        BY <1>1, <3>1
      <4>2. PICK k \in 1 .. n : lineOffsets[k] = p
        BY <2>2, <2>4, <4>1
      <4> QED
        BY <1>3, <2>3, <4>2
    <3>2. CASE p = at
      BY <1>3, <2>1, <2>3, <3>2
    <3>3. CASE p > at
      <4>1. p - 1 \in at .. (end - 1) /\ p # 0
        BY <1>1, <3>3
      <4>2. p - 1 \notin newlines
        BY <1>2, <4>1 DEF IsLineEnd, Unbroken
      <4> QED
        BY <2>4, <4>1, <4>2 DEF IsLineStart
    <3> QED
      BY <1>1, <3>1, <3>2, <3>3
  <2>5. ASSUME NEW k \in 1 .. n'
        PROVE  IsLineEnd(newlines, textLength, lineOffsets'[k], NextOffset(k)' - 1)
    <3>1. CASE k = n + 1
      <4>1. lineOffsets'[k] = at /\ NextOffset(k)' - 1 = end
        BY <1>3, <2>1, <3>1
      <4> QED
        BY <1>2, <4>1
    <3>2. CASE k = n
      <4>1. k \in 1 .. n /\ n > 0
        BY <1>3, <3>2
      <4>2. NextOffset(k) = NextOffset(k)'
        BY <1>3, <2>1, <3>2, <4>1
      <4> QED
        BY <1>3, <2>2, <4>1, <4>2
    <3>3. CASE k \in 1 .. (n - 1)
      <4>1. k \in 1 .. n
        BY <1>3, <3>3
      <4> QED
        BY <1>3, <2>2, <3>3, <4>1
    <3> QED
      BY <1>3, <2>3, <3>1, <3>2, <3>3
  <2> QED
    BY <2>4, <2>5
<1> QED
  BY <1>5, <1>6, <1>9, <1>10, <1>11 DEF OffsetsInv

LEMMA SealsKeeps ==
    ASSUME IInv, OffsetsInv, Seals
    PROVE  OffsetsInv'
<1>1. /\ currentLineOffset \in Nat /\ lineOffsets \in Seq(Nat) /\ Len(lineOffsets) \in Nat
  BY Types
<1>2. /\ ~Finished /\ Finished' /\ currentLineOffset >= textLength
      /\ lineOffsets' = Append(lineOffsets, currentLineOffset)
      /\ UNCHANGED <<newlines, textLength, currentLineOffset, calls>>
  BY DEF Seals
<1>3. /\ Len(lineOffsets') = Len(lineOffsets) + 1
      /\ \A k \in 1 .. Len(lineOffsets) : lineOffsets'[k] = lineOffsets[k]
      /\ lineOffsets'[Len(lineOffsets) + 1] = currentLineOffset
  BY <1>1, <1>2
<1>4. Kept = Len(lineOffsets) /\ Kept' = Kept
  BY <1>1, <1>2, <1>3 DEF Kept
<1>5. \A k \in 1 .. Kept : NextOffset(k)' = NextOffset(k) /\ lineOffsets'[k] = lineOffsets[k]
  <2> TAKE k \in 1 .. Kept
  <2>1. CASE k < Len(lineOffsets)
    <3>1. k < Len(lineOffsets') /\ k + 1 \in 1 .. Len(lineOffsets)
      BY <1>1, <1>3, <1>4, <2>1
    <3> QED
      BY <1>3, <1>4, <2>1, <3>1 DEF NextOffset
  <2>2. CASE k = Len(lineOffsets)
    <3>1. k < Len(lineOffsets') /\ ~(k < Len(lineOffsets))
      BY <1>1, <1>3, <2>2
    <3> QED
      BY <1>3, <1>4, <2>2, <3>1 DEF NextOffset
  <2> QED
    BY <1>1, <1>4, <2>1, <2>2
<1>6. AtLine' /\ AllSaved' = AllSaved
  BY <1>2 DEF OffsetsInv, AtLine, AllSaved
<1>7. SealedAtEnd'
  BY <1>1, <1>2, <1>3 DEF SealedAtEnd
<1>8. KeptAreLines'
  BY <1>2, <1>4, <1>5 DEF OffsetsInv, KeptAreLines, WholeLine
<1>9. KeptInOrder'
  BY <1>4, <1>5 DEF OffsetsInv, KeptInOrder
<1>10. NoLineMissing'
  BY <1>2, <1>4, <1>5, <1>6 DEF OffsetsInv, NoLineMissing
<1> QED
  BY <1>6, <1>7, <1>8, <1>9, <1>10 DEF OffsetsInv

LEMMA OffsetsNext ==
    ASSUME IInv, OffsetsInv, [Next]_vars
    PROVE  OffsetsInv'
<1>1. CASE Rests
  BY <1>1 DEF Rests, OffsetsInv, AtLine, SealedAtEnd, KeptAreLines, KeptInOrder,
              NoLineMissing, WholeLine, NextOffset, Kept, AllSaved
<1> QED
  BY <1>1, OffsetSteps, SeesKeeps, SealsKeeps

\* What is kept stays kept.
LEMMA KeptStays ==
    ASSUME IInv, OffsetsInv, [Next]_vars
    PROVE  /\ Kept \in Int /\ Kept' \in Int /\ Kept <= Kept'
           /\ \A k \in 1 .. Kept : lineOffsets'[k] = lineOffsets[k]
<1>1. Len(lineOffsets) \in Nat /\ lineOffsets \in Seq(Nat) /\ currentLineOffset \in Nat
  BY Types
<1>2. ASSUME NEW end \in Nat, NEW saved \in BOOLEAN, Sees(end, saved)
      PROVE  /\ Kept \in Int /\ Kept' \in Int /\ Kept <= Kept'
             /\ \A k \in 1 .. Kept : lineOffsets'[k] = lineOffsets[k]
  <2>1. /\ Kept \in Nat /\ Kept' = (IF saved THEN Kept + 1 ELSE Kept)
        /\ \A k \in 1 .. Kept : lineOffsets'[k] = lineOffsets[k]
    BY <1>2, SeesKept
  <2>2. Kept' \in Int /\ Kept <= Kept'
    BY <2>1
  <2> QED
    BY <2>1, <2>2
<1>3. CASE Seals
  <2>1. Kept = Len(lineOffsets) /\ Kept' = Len(lineOffsets') - 1
        /\ lineOffsets' = Append(lineOffsets, currentLineOffset)
    BY <1>3 DEF Seals, Kept
  <2> QED
    BY <1>1, <2>1
<1>4. CASE Rests
  <2>1. Kept' = Kept /\ lineOffsets' = lineOffsets /\ Kept \in Int
    BY <1>1, <1>4 DEF Rests, Kept
  <2> QED
    BY <2>1
<1> QED
  BY <1>2, <1>3, <1>4, OffsetSteps

\* The offsets a LineFinder keeps are starts of lines, in the order of the text,
\* each with a whole line before the next one; if the sink keeps every line, none is
\* missing and each row is one line.
THEOREM OffsetsAreLines == Spec => []OffsetsInv
<1>1. Spec => []IInv
  BY IInvInit, IInvNext, PTL DEF Spec
<1>2. Init => OffsetsInv
  BY OffsetsInit, InitBegins
<1>3. IInv /\ OffsetsInv /\ [Next]_vars => OffsetsInv'
  BY OffsetsNext
<1> QED
  BY <1>1, <1>2, <1>3, PTL DEF Spec
=============================================================================
