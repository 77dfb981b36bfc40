------------------------------ MODULE ZqProofs ------------------------------
(***************************************************************************)
(* What zq prints, proved for line numbers of any width, any lines before  *)
(* and after and any number of queries, as long as no range reaches the    *)
(* last line number there is: End() wraps there.                           *)
(***************************************************************************)
EXTENDS Zq, TLAPS

NoWrap == Word > 1 /\ \A line \in Lines, after \in Afters : line + after + 1 < Word

LEMMA PlusIsPlus ==
    ASSUME NEW a \in Nat, NEW b \in Nat, a + b < Word
    PROVE  Plus(a, b) = a + b
BY ZqAssumption DEF Plus

-----------------------------------------------------------------------------
(* The invariant. *)

\* Of the fetcher and the options; latest is 0 before a line is printed, which is why
\* TypeOK needs that line 0 is not.
Shape ==
    /\ TypeOK
    /\ linesBefore \in Befores /\ linesAfter \in Afters
    /\ anyOrder \in BOOLEAN /\ fetching \in BOOLEAN /\ separated \in BOOLEAN
    /\ beginRange \in Nat /\ endRange \in Nat
    /\ prevEnd + 1 < Word
    /\ latest \in 0 .. (Word - 1)

\* The lines around line q are printed.
IsPrinted(q) == \A l \in Begin(q) .. End(q) : l \in printed

\* A call has printed its range up to the current line, and nothing else is missing.
Progress ==
    /\ \A l \in prevBegin .. prevEnd : l # 0 => l \in printed
    /\ fetching =>
          /\ \E line \in asked :
                /\ beginRange = Begin(line) /\ endRange = End(line)
                /\ \A q \in asked : q = line \/ IsPrinted(q)
          /\ beginRange >= 1 /\ beginRange <= currentLine
          /\ endRange + 1 < Word
          /\ \A l \in beginRange .. endRange : l < currentLine => l \in printed
    /\ ~fetching => \A q \in asked : IsPrinted(q)

\* While lines are asked for in ascending order the fetcher is at the latest of them.
Ascending ==
    /\ (~lineMode /\ queries = 0) => asked = {}
    /\ (~anyOrder /\ queries <= 1) =>
          /\ prevBegin <= Begin(least) /\ prevEnd <= End(least)
          /\ ~fetching => latest = prevEnd
          /\ fetching =>
                /\ beginRange = Begin(least) /\ endRange = End(least)
                /\ currentLine > latest /\ latest <= endRange
                /\ currentLine > endRange => latest = endRange
                /\ separated <=> latest # 0 /\ currentLine # latest + 1

IInv == Shape /\ Progress /\ OnlyRanges /\ Ascending

-----------------------------------------------------------------------------
(* A range. *)

LEMMA RangeOf ==
    ASSUME NoWrap, Shape, NEW line \in Lines \cup {0}
    PROVE  /\ Begin(line) \in Nat /\ Begin(line) >= 1
           /\ Begin(line) = IF line > linesBefore THEN line - linesBefore ELSE 1
           /\ line \in Lines => End(line) = line + linesAfter /\ End(line) + 1 < Word
           /\ End(line) \in Nat /\ End(line) < Word
           /\ line = 0 => End(line) = linesAfter
<1>1. /\ line \in Nat /\ linesBefore \in Nat /\ linesAfter \in Nat /\ Word \in Nat
      /\ linesAfter < Word
  BY ZqAssumption DEF Shape
<1>2. Begin(line) = IF line > linesBefore THEN line - linesBefore ELSE 1
  BY DEF Begin
<1>3. CASE line \in Lines
  <2>1. line + linesAfter + 1 < Word
    BY <1>3 DEF NoWrap, Shape
  <2>2. End(line) = line + linesAfter
    BY <1>1, <2>1, PlusIsPlus DEF End
  <2> QED
    BY <1>1, <1>2, <2>1, <2>2
<1>4. CASE line \notin Lines
  <2>1. End(line) = linesAfter
    BY <1>1, <1>4, PlusIsPlus DEF End
  <2> QED
    BY <1>1, <1>2, <1>4, <2>1
<1> QED
  BY <1>3, <1>4

\* A range has the lines around its line and no others.
LEMMA AroundIsRange ==
    ASSUME NoWrap, Shape, NEW q \in Lines, NEW l \in Nat, l >= 1
    PROVE  l \in Begin(q) .. End(q) <=> q - linesBefore <= l /\ l <= q + linesAfter
<1>1. q \in Nat /\ linesBefore \in Nat /\ linesAfter \in Nat
  BY ZqAssumption DEF Shape
<1> QED
  BY <1>1, RangeOf

-----------------------------------------------------------------------------
(* The steps. *)

LEMMA InitInv == NoWrap /\ Init => IInv
<1> SUFFICES ASSUME NoWrap, Init PROVE IInv
  OBVIOUS
<1>1. /\ prevBegin = 0 /\ prevEnd = 0 /\ beginRange = 0 /\ endRange = 0 /\ currentLine = 0
      /\ fetching = FALSE /\ queries = 0 /\ least = 0 /\ asked = {} /\ printed = {}
      /\ latest = 0 /\ separated = FALSE
  BY DEF Init, FetcherInit
<1>2. Shape
  <2>1. TypeOK
    BY <1>1, ZqAssumption DEF TypeOK
  <2>2. linesBefore \in Befores /\ linesAfter \in Afters /\ anyOrder \in BOOLEAN
    BY ZqAssumption DEF Init
  <2>3. fetching \in BOOLEAN /\ separated \in BOOLEAN
    BY <1>1
  <2>4. /\ beginRange \in Nat /\ endRange \in Nat /\ prevEnd + 1 < Word
        /\ latest \in 0 .. (Word - 1)
    BY <1>1, ZqAssumption DEF NoWrap
  <2> QED
    BY <2>1, <2>2, <2>3, <2>4, Zenon DEF Shape
<1>3. Progress /\ OnlyRanges
  BY <1>1 DEF Progress, OnlyRanges
<1>4. Ascending
  <2>1. Begin(least) \in Nat /\ End(least) \in Nat
    BY <1>1, <1>2, RangeOf
  <2> QED
    BY <1>1, <2>1 DEF Ascending
<1> QED
  BY <1>2, <1>3, <1>4 DEF IInv

LEMMA MatchStep == NoWrap /\ IInv /\ Match => IInv'
<1> SUFFICES ASSUME NoWrap, IInv, Match PROVE IInv'
  OBVIOUS
<1>1. PICK line \in Lines :
          /\ line >= least /\ Call(line) /\ separated' = Separates(line)
          /\ asked' = asked \cup {line} /\ least' = IF anyOrder THEN 0 ELSE line
  BY DEF Match
<1>2. /\ UNCHANGED <<linesBefore, linesAfter, lineMode, anyOrder, queries, printed, latest>>
      /\ UNCHANGED <<prevBegin, prevEnd>>
      /\ ~fetching /\ fetching' = TRUE
      /\ beginRange' = Begin(line) /\ endRange' = End(line) /\ currentLine' = First(line)
      /\ lineMode \/ queries > 0
  BY <1>1 DEF Match, Call
<1>3. Shape /\ TypeOK
  BY DEF IInv, Shape
<1>4. /\ line \in Nat /\ Begin(line) \in Nat /\ End(line) = line + linesAfter
      /\ Begin(line) = IF line > linesBefore THEN line - linesBefore ELSE 1
      /\ End(line) + 1 < Word /\ Begin(line) >= 1
      /\ linesBefore \in Nat /\ linesAfter \in Nat
  BY <1>3, RangeOf, ZqAssumption DEF Shape
<1>5. /\ prevBegin \in Nat /\ prevEnd \in Nat /\ prevEnd + 1 < Word /\ Word \in Nat
      /\ latest \in Nat /\ Plus(prevEnd, 1) = prevEnd + 1
  BY <1>3, PlusIsPlus, ZqAssumption DEF Shape, TypeOK
<1>6. First(line) = IF Overlaps(line) THEN prevEnd + 1 ELSE Begin(line)
  BY <1>5 DEF First
<1>7. Shape'
  <2>1. currentLine' \in 0 .. (Word - 1)
    <3>1. Begin(line) < Word
      BY <1>4, <1>5, NoWrap, ZqAssumption
    <3> QED
      BY <1>2, <1>4, <1>5, <1>6, <3>1
  <2>2. separated' \in BOOLEAN /\ least' \in Lines \cup {0}
    BY <1>1 DEF Separates
  <2> QED
    BY <1>1, <1>2, <1>3, <1>4, <2>1, <2>2 DEF Shape, TypeOK
<1>8. \A q \in Lines \cup {0} : Begin(q)' = Begin(q) /\ End(q)' = End(q)
  BY <1>2 DEF Begin, End, Plus
<1>9. Progress'
  <2>1. \A q \in asked : IsPrinted(q)
    BY <1>2 DEF IInv, Progress
  <2>2. \A q \in asked : IsPrinted(q)'
    BY <1>2, <1>3, <1>8, <2>1 DEF IsPrinted, TypeOK
  <2>3. \A l \in prevBegin .. prevEnd : l # 0 => l \in printed
    BY DEF IInv, Progress
  <2>4. beginRange' <= currentLine'
    BY <1>2, <1>4, <1>5, <1>6 DEF Overlaps
  <2>5. \A l \in beginRange' .. endRange' : l < currentLine' => l \in printed'
    BY <1>2, <1>4, <1>5, <1>6, <2>3 DEF Overlaps
  <2>6. \E q0 \in asked' : /\ beginRange' = Begin(q0)' /\ endRange' = End(q0)'
                           /\ \A q \in asked' : q = q0 \/ IsPrinted(q)'
    BY <1>1, <1>2, <1>8, <2>2
  <2> QED
    BY <1>2, <1>4, <2>3, <2>4, <2>5, <2>6 DEF Progress
<1>10. OnlyRanges'
  BY <1>1, <1>2 DEF IInv, OnlyRanges
<1>11. Ascending'
  <2>1. ~(~lineMode' /\ queries' = 0)
    BY <1>2, <1>3 DEF TypeOK
  <2>2. ASSUME ~anyOrder, queries <= 1
        PROVE  /\ prevBegin <= Begin(line) /\ prevEnd <= End(line) /\ latest = prevEnd
    <3>1. prevBegin <= Begin(least) /\ prevEnd <= End(least) /\ latest = prevEnd
      BY <1>2, <2>2 DEF IInv, Ascending
    <3>2. /\ least \in Lines \cup {0} /\ least \in Nat
          /\ Begin(least) = IF least > linesBefore THEN least - linesBefore ELSE 1
      BY <1>3, RangeOf, ZqAssumption DEF TypeOK
    <3>3. End(least) <= End(line) /\ End(least) \in Nat
      BY <1>1, <1>3, <1>4, <3>2, RangeOf
    <3>4. Begin(least) <= Begin(line)
      BY <1>1, <1>4, <3>2
    <3> QED
      BY <1>4, <1>5, <3>1, <3>2, <3>3, <3>4
  <2>3. ASSUME ~anyOrder, queries <= 1
        PROVE  /\ currentLine' > latest /\ latest <= endRange'
               /\ currentLine' > endRange' => latest = endRange'
    BY <1>2, <1>4, <1>5, <1>6, <2>2, <2>3 DEF Overlaps
  <2>4. ASSUME ~anyOrder, queries <= 1
        PROVE  separated' <=> latest # 0 /\ currentLine' # latest + 1
    BY <1>1, <1>2, <1>4, <1>5, <1>6, <2>2, <2>4 DEF Overlaps, Separates
  <2>5. ~anyOrder => least' = line
    BY <1>1
  <2> QED
    BY <1>2, <1>8, <2>1, <2>2, <2>3, <2>4, <2>5 DEF Ascending
<1> QED
  BY <1>7, <1>9, <1>10, <1>11 DEF IInv

LEMMA NextQueryStep == NoWrap /\ IInv /\ NextQuery => IInv'
<1> SUFFICES ASSUME NoWrap, IInv, NextQuery PROVE IInv'
  OBVIOUS
<1>1. /\ ~fetching /\ ~lineMode /\ queries < MaxQueries /\ queries' = queries + 1
      /\ least' = 0 /\ prevBegin' = 0 /\ prevEnd' = 0
  BY DEF NextQuery
<1>2. UNCHANGED <<beginRange, endRange, currentLine, fetching, linesBefore, linesAfter,
                  lineMode, anyOrder, asked, printed, latest, separated>>
  BY DEF NextQuery
<1>3. Shape'
  <2>1. queries' \in 0 .. MaxQueries
    BY <1>1, ZqAssumption DEF IInv, Shape, TypeOK
  <2> QED
    BY <1>1, <1>2, <2>1, ZqAssumption DEF NoWrap, IInv, Shape, TypeOK
<1>4. \A q \in Lines \cup {0} : Begin(q)' = Begin(q) /\ End(q)' = End(q)
  BY <1>2 DEF Begin, End, Plus
<1>5. Progress'
  <2>1. \A q \in asked : IsPrinted(q)
    BY <1>1 DEF IInv, Progress
  <2>2. \A q \in asked' : IsPrinted(q)'
    BY <1>2, <1>4, <2>1 DEF IsPrinted, IInv, Shape, TypeOK
  <2> QED
    BY <1>1, <1>2, <2>2 DEF Progress
<1>6. OnlyRanges'
  BY <1>2 DEF IInv, OnlyRanges
<1>7. Ascending'
  <2>1. queries \in Nat
    BY ZqAssumption DEF IInv, Shape, TypeOK
  <2>2. queries' <= 1 => latest = 0
    <3>1. queries' <= 1 => asked = {}
      BY <1>1, <2>1 DEF IInv, Ascending
    <3>2. asked = {} => printed = {}
      BY DEF IInv, OnlyRanges
    <3> QED
      BY <3>1, <3>2 DEF IInv, Shape, TypeOK
  <2>3. Begin(0) \in Nat /\ End(0) \in Nat
    BY RangeOf DEF IInv
  <2>4. 0 <= Begin(least)' /\ 0 <= End(least)'
    BY <1>1, <1>4, <2>3
  <2> QED
    BY <1>1, <1>2, <2>1, <2>2, <2>4 DEF Ascending
<1> QED
  BY <1>3, <1>5, <1>6, <1>7 DEF IInv

\* The handler is called with the current line, which is one of the range.
LEMMA PrintedLine ==
    ASSUME NoWrap, IInv, PrintNext
    PROVE  /\ fetching /\ currentLine <= endRange /\ currentLine >= beginRange
           /\ beginRange >= 1 /\ currentLine \in Nat /\ endRange + 1 < Word
           /\ currentLine' = currentLine + 1 /\ currentLine + 1 < Word
           /\ beginRange \in Nat /\ endRange \in Nat /\ Word \in Nat
<1>1. fetching /\ currentLine <= endRange /\ currentLine' = Plus(currentLine, 1)
  BY DEF PrintNext, FetchLine
<1>2. currentLine \in Nat /\ endRange \in Nat /\ beginRange \in Nat /\ Word \in Nat
  BY ZqAssumption DEF IInv, Shape, TypeOK
<1>3. beginRange >= 1 /\ beginRange <= currentLine /\ endRange + 1 < Word
  BY <1>1 DEF IInv, Progress
<1>4. Plus(currentLine, 1) = currentLine + 1
  BY <1>1, <1>2, <1>3, PlusIsPlus
<1> QED
  BY <1>1, <1>2, <1>3, <1>4

LEMMA PrintStep == NoWrap /\ IInv /\ PrintNext => IInv'
<1> SUFFICES ASSUME NoWrap, IInv, PrintNext PROVE IInv'
  OBVIOUS
<1>1. /\ fetching /\ currentLine <= endRange /\ currentLine >= beginRange
      /\ beginRange >= 1 /\ currentLine \in Nat /\ endRange + 1 < Word
      /\ currentLine' = currentLine + 1 /\ currentLine + 1 < Word
      /\ beginRange \in Nat /\ endRange \in Nat /\ Word \in Nat
  BY PrintedLine
<1>2. /\ UNCHANGED <<prevBegin, prevEnd, beginRange, endRange, fetching>>
      /\ UNCHANGED <<linesBefore, linesAfter, lineMode, anyOrder, queries, least, asked>>
      /\ printed' = printed \cup {currentLine} /\ latest' = currentLine
      /\ separated' = FALSE
  BY DEF PrintNext, FetchLine
<1>3. Shape'
  <2>1. currentLine \in 1 .. (Word - 1) /\ currentLine' \in 0 .. (Word - 1)
    BY <1>1
  <2>2. printed' \subseteq 0 .. (Word - 1) /\ printed' # {} /\ latest' # 0
    BY <1>2, <2>1 DEF IInv, Shape, TypeOK
  <2>3. TypeOK'
    BY <1>1, <1>2, <2>1, <2>2 DEF IInv, Shape, TypeOK
  <2>4. /\ latest' \in 0 .. (Word - 1) /\ beginRange' \in Nat /\ endRange' \in Nat
        /\ prevEnd' + 1 < Word
    BY <1>2, <2>1 DEF IInv, Shape
  <2>5. anyOrder' \in BOOLEAN /\ fetching' \in BOOLEAN /\ separated' \in BOOLEAN
    BY <1>2 DEF IInv, Shape
  <2>6. linesBefore' \in Befores /\ linesAfter' \in Afters
    BY <1>2 DEF IInv, Shape
  <2> QED
    BY <2>3, <2>4, <2>5, <2>6, Zenon DEF Shape
<1>4. \A q \in Lines \cup {0} : Begin(q)' = Begin(q) /\ End(q)' = End(q)
  BY <1>2 DEF Begin, End, Plus
<1>5. PICK line \in asked : /\ beginRange = Begin(line) /\ endRange = End(line)
                            /\ \A q \in asked : q = line \/ IsPrinted(q)
  BY <1>1 DEF IInv, Progress
<1>6. asked \subseteq Lines
  BY DEF IInv, Shape, TypeOK
<1>7. Progress'
  <2>1. \A l \in beginRange .. endRange : l < currentLine + 1 => l \in printed'
    BY <1>1, <1>2 DEF IInv, Progress
  <2>2. \A q \in asked : IsPrinted(q) => IsPrinted(q)'
    BY <1>2, <1>4, <1>6 DEF IsPrinted
  <2>3. \A l \in prevBegin .. prevEnd : l # 0 => l \in printed'
    BY <1>2 DEF IInv, Progress
  <2> QED
    BY <1>1, <1>2, <1>4, <1>5, <1>6, <2>1, <2>2, <2>3 DEF Progress
<1>8. OnlyRanges'
  <2>1. currentLine # 0 /\ line - linesBefore <= currentLine /\ currentLine <= line + linesAfter
    BY <1>1, <1>5, <1>6, AroundIsRange DEF IInv
  <2> QED
    BY <1>2, <1>5, <2>1 DEF IInv, OnlyRanges
<1>9. Ascending'
  <2>1. latest \in Nat
    BY <1>1 DEF IInv, Shape
  <2>2. Begin(least)' = Begin(least) /\ End(least)' = End(least)
    BY <1>2, <1>4 DEF IInv, Shape, TypeOK
  <2> QED
    BY <1>1, <1>2, <2>1, <2>2 DEF IInv, Ascending
<1> QED
  BY <1>3, <1>7, <1>8, <1>9 DEF IInv

LEMMA ReturnStep == NoWrap /\ IInv /\ RangeDone => IInv'
<1> SUFFICES ASSUME NoWrap, IInv, RangeDone PROVE IInv'
  OBVIOUS
<1>1. /\ fetching /\ currentLine > endRange /\ fetching' = FALSE
      /\ prevBegin' = beginRange /\ prevEnd' = endRange
  BY DEF RangeDone, Return
<1>2. /\ UNCHANGED <<beginRange, endRange, currentLine>>
      /\ UNCHANGED <<linesBefore, linesAfter, lineMode, anyOrder, queries, least, asked,
                     printed, latest, separated>>
  BY DEF RangeDone, Return
<1>3. PICK line \in asked : /\ beginRange = Begin(line) /\ endRange = End(line)
                            /\ \A q \in asked : q = line \/ IsPrinted(q)
  BY <1>1 DEF IInv, Progress
<1>4. /\ asked \subseteq Lines /\ currentLine \in Nat /\ beginRange \in Nat
      /\ endRange \in Nat /\ Word \in Nat /\ endRange + 1 < Word
  BY <1>1, ZqAssumption DEF IInv, Shape, TypeOK, Progress
<1>5. beginRange \in 0 .. (Word - 1) /\ endRange \in 0 .. (Word - 1)
  <2>1. currentLine <= Word - 1 /\ beginRange <= currentLine
    BY <1>1 DEF IInv, Shape, TypeOK, Progress
  <2> QED
    BY <1>4, <2>1
<1>6. Shape'
  BY <1>1, <1>2, <1>4, <1>5 DEF IInv, Shape, TypeOK
<1>7. \A q \in Lines \cup {0} : Begin(q)' = Begin(q) /\ End(q)' = End(q)
  BY <1>2 DEF Begin, End, Plus
<1>8. \A l \in beginRange .. endRange : l \in printed
  BY <1>1, <1>4 DEF IInv, Progress
<1>9. Progress'
  <2>1. IsPrinted(line)
    BY <1>3, <1>8 DEF IsPrinted
  <2>2. \A q \in asked : IsPrinted(q)
    BY <1>3, <2>1
  <2>3. \A q \in asked' : IsPrinted(q)'
    BY <1>2, <1>4, <1>7, <2>2 DEF IsPrinted
  <2> QED
    BY <1>1, <1>2, <1>8, <2>3 DEF Progress
<1>10. OnlyRanges'
  BY <1>2 DEF IInv, OnlyRanges
<1>11. Ascending'
  <2>1. Begin(least)' = Begin(least) /\ End(least)' = End(least)
    BY <1>2, <1>7 DEF IInv, Shape, TypeOK
  <2> QED
    BY <1>1, <1>2, <1>4, <2>1 DEF IInv, Ascending
<1> QED
  BY <1>6, <1>9, <1>10, <1>11 DEF IInv

LEMMA NextInv == NoWrap /\ IInv /\ [Next]_vars => IInv'
<1> SUFFICES ASSUME NoWrap, IInv, [Next]_vars PROVE IInv'
  OBVIOUS
<1>1. CASE UNCHANGED vars
  BY <1>1 DEF vars, fetcherVars, IInv, Shape, TypeOK, Progress, OnlyRanges, Ascending,
              IsPrinted, Begin, End, Plus
<1> QED
  BY <1>1, MatchStep, NextQueryStep, PrintStep, ReturnStep DEF Next

-----------------------------------------------------------------------------
(* The theorems. *)

LEMMA InvHolds ==
    ASSUME NoWrap
    PROVE  Spec => []IInv
<1>1. Init => IInv
  BY InitInv
<1>2. IInv /\ [Next]_vars => IInv'
  BY NextInv
<1> QED
  BY <1>1, <1>2, PTL DEF Spec

\* Types, and that zq never asks for line 0 (RangeFetcher.cpp:13).
THEOREM TypeCorrect ==
    ASSUME NoWrap
    PROVE  Spec => []TypeOK
<1>1. IInv => TypeOK
  BY DEF IInv, Shape
<1> QED
  BY <1>1, InvHolds, PTL

\* What zq prints is the lines around its matches, all of them and no others
\* (RangeFetcher::operator()).
THEOREM RangesPrintedHolds ==
    ASSUME NoWrap
    PROVE  Spec => []RangesPrinted
<1>1. IInv => RangesPrinted
  <2> SUFFICES ASSUME IInv PROVE RangesCovered
    BY DEF IInv, RangesPrinted
  <2> SUFFICES ASSUME ~fetching, NEW q \in asked, NEW l \in 1 .. (Word - 1),
                      q - linesBefore <= l, l <= q + linesAfter
               PROVE  l \in printed
    BY DEF RangesCovered
  <2>1. q \in Lines /\ l \in Nat /\ l >= 1
    BY ZqAssumption DEF IInv, Shape, TypeOK
  <2>2. l \in Begin(q) .. End(q)
    BY <2>1, AroundIsRange DEF IInv
  <2> QED
    BY <2>2 DEF IInv, Progress, IsPrinted
<1> QED
  BY <1>1, InvHolds, PTL

\* Lines asked for in ascending order, by one query, come out in ascending order, each
\* once, with a separator exactly where there is a gap (RangeFetcher::operator()).
THEOREM MergedInOrderHolds ==
    ASSUME NoWrap
    PROVE  Spec => MergedInOrder
<1>1. IInv /\ [Next]_vars =>
          [PrintNext /\ ~anyOrder /\ queries <= 1 =>
              /\ currentLine > latest
              /\ separated <=> latest # 0 /\ currentLine # latest + 1]_vars
  <2> SUFFICES ASSUME IInv, PrintNext, ~anyOrder, queries <= 1
               PROVE  /\ currentLine > latest
                      /\ separated <=> latest # 0 /\ currentLine # latest + 1
    OBVIOUS
  <2>1. fetching
    BY PrintedLine
  <2> QED
    BY <2>1 DEF IInv, Ascending
<1> QED
  BY <1>1, InvHolds, PTL DEF MergedInOrder, Spec
=============================================================================
