---------------------------- MODULE ChunkedText -----------------------------
(***************************************************************************)
(* A LineFinder and the caller that gives it a text in blocks: the builder *)
(* hands over its 32K output buffer whenever it is full, and what is left  *)
(* in it at the end with last = true.  Block boundaries fall anywhere.     *)
(***************************************************************************)
EXTENDS LineFinder, FiniteSets

CONSTANT MaxTextLength

ASSUME MaxTextLengthAssumption == MaxTextLength \in Nat

VARIABLES
    textLength,  \* bytes in the text
    fed,         \* bytes handed over so far
    ended        \* the block with last = true has been handed over

vars == <<finderVars, newlines, textLength, fed, ended>>

Init ==
    /\ textLength \in 0 .. MaxTextLength
    /\ newlines \in SUBSET (0 .. (textLength - 1))
    /\ fed = 0
    /\ ended = FALSE
    /\ FinderInit

\* One call of finder.add(): only the last block may be empty.
Feed ==
    /\ ~ended
    /\ \E to \in fed .. textLength, isLast \in BOOLEAN :
          /\ isLast => to = textLength
          /\ to = fed => isLast
          /\ Add(Slice(fed, to), isLast)
          /\ fed' = to
          /\ ended' = isLast
    /\ UNCHANGED <<newlines, textLength>>

FinderStep ==
    /\ \/ \E shouldAddLine \in BOOLEAN :
             FindLine(shouldAddLine) \/ LastLine(shouldAddLine)
       \/ BufferRest
       \/ Return
    /\ UNCHANGED <<newlines, textLength, fed, ended>>

Next == Feed \/ FinderStep

Spec == Init /\ [][Next]_vars

-----------------------------------------------------------------------------
Finished == ended /\ ~adding

Lines == INSTANCE LineStream WITH
            at <- currentLineOffset,
            reported <- [i \in DOMAIN calls |->
                            [offset |-> calls[i].offset,
                             content |-> calls[i].content]],
            finished <- Finished

\* LineFinder::add presents the lines of the text to the sink once each, in
\* order, with their bytes and offsets, wherever the blocks end, and does not
\* finish before the last one.
PresentsLinesInOrder == Lines!Spec

\* A call of the sink's onLine.
Call == [line : Nat \ {0}, offset : Nat, content : Seq(Nat), saved : BOOLEAN]

TypeOK ==
    /\ textLength \in Nat
    /\ newlines \subseteq 0 .. (textLength - 1)
    /\ fed \in 0 .. textLength
    /\ ended \in BOOLEAN /\ last \in BOOLEAN /\ adding \in BOOLEAN
    /\ chunk \in Seq(Nat) /\ lineBuffer \in Seq(Nat) /\ lineOffsets \in Seq(Nat)
    /\ currentLineOffset \in 0 .. (textLength + 1)
    /\ calls \in Seq(Call)

\* The number given to the sink with a line is the row its offset is kept in, so
\* what an indexer stores under that number is found there; a line that is not
\* kept lends its number to the next one.
NumberIsRow ==
    \A i \in DOMAIN calls :
        /\ calls[i].saved => /\ calls[i].line \in DOMAIN lineOffsets
                             /\ lineOffsets[calls[i].line] = calls[i].offset
        /\ i + 1 \in DOMAIN calls =>
              calls[i + 1].line = calls[i].line + (IF calls[i].saved THEN 1 ELSE 0)
=============================================================================
