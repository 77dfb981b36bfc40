---------------------------- MODULE RangeFetcher ----------------------------
(***************************************************************************)
(* The class RangeFetcher (RangeFetcher.h, RangeFetcher.cpp): it turns     *)
(* every line number it is given into the lines around it, leaving out     *)
(* what the previous range has covered.  A call is one step for its head   *)
(* and one for every line it hands to its handler.  Line numbers are       *)
(* unsigned words.                                                         *)
(***************************************************************************)
EXTENDS Integers

CONSTANT Word   \* the number of values of a line number, 2^64 in the code

VARIABLES
    linesBefore, linesAfter,  \* linesBefore_, linesAfter_; never assigned
    prevBegin, prevEnd,       \* prevBegin_, prevEnd_
    beginRange, endRange, currentLine,
    fetching                  \* operator() is running

fetcherVars == <<prevBegin, prevEnd, beginRange, endRange, currentLine, fetching>>

FetcherInit ==
    /\ prevBegin = 0 /\ prevEnd = 0
    /\ beginRange = 0 /\ endRange = 0 /\ currentLine = 0
    /\ fetching = FALSE

\* Mutant: line numbers are half as wide.
PlusNarrow(a, b) == (a + b) % (Word \div 2)

Plus(a, b) == (a + b) % Word

\* Mutant: a line with as many lines before it as are wanted gets one more, line 0.
BeginOneEarly(line) == IF line >= linesBefore THEN line - linesBefore ELSE 1

Begin(line) == IF line > linesBefore THEN line - linesBefore ELSE 1

End(line) == Plus(line, linesAfter)

\* The range starts inside the previous one.
Overlaps(line) == prevBegin <= Begin(line) /\ Begin(line) <= prevEnd

\* Mutant: a separator even where two ranges meet.
SeparatesAlways(line) == ~Overlaps(line) /\ prevEnd # 0

\* handler_.onSeparator() is called.
Separates(line) ==
    /\ ~Overlaps(line)
    /\ prevEnd # 0
    /\ Plus(prevEnd, 1) # Begin(line)

\* Mutant: goes on one line too far after the previous range.
FirstSkippingOne(line) ==
    IF Overlaps(line) THEN Plus(prevEnd, 2) ELSE Begin(line)

\* The first line that is not printed yet.
First(line) == IF Overlaps(line) THEN Plus(prevEnd, 1) ELSE Begin(line)

\* operator()(line), up to its loop.
Call(line) ==
    /\ ~fetching
    /\ beginRange' = Begin(line)
    /\ endRange' = End(line)
    /\ currentLine' = First(line)
    /\ fetching' = TRUE
    /\ UNCHANGED <<prevBegin, prevEnd>>

\* handler_.onLine(currentLine).
FetchLine ==
    /\ fetching
    /\ currentLine <= endRange
    /\ currentLine' = Plus(currentLine, 1)
    /\ UNCHANGED <<prevBegin, prevEnd, beginRange, endRange, fetching>>

Return ==
    /\ fetching
    /\ currentLine > endRange
    /\ prevBegin' = beginRange
    /\ prevEnd' = endRange
    /\ fetching' = FALSE
    /\ UNCHANGED <<beginRange, endRange, currentLine>>
=============================================================================
