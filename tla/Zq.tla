--------------------------------- MODULE Zq ---------------------------------
(***************************************************************************)
(* What zq does with its queries (zq.cpp:138-147).  With -l every argument *)
(* is a line number for the RangeFetcher, and so is every row of a --raw   *)
(* query: they come in any order.  Otherwise every argument is looked up   *)
(* in an index and the lines of its rows, in the order of the index, are   *)
(* given to a copy of the RangeFetcher, because queryIndexMulti() hands    *)
(* queryIndex() its std::function by value.                                *)
(***************************************************************************)
EXTENDS RangeFetcher, FiniteSets

CONSTANTS
    Lines,         \* line numbers a query may stand for
    Befores,       \* values -B and -C may have
    Afters,        \* values -A and -C may have
    LineModes,     \* with or without -l or --raw
    AnyOrders,     \* with them, numbers in any order or in ascending order
    MaxQueries     \* arguments of an index query

ASSUME ZqAssumption ==
    /\ Word \in Nat \ {0}
    /\ Lines \subseteq 0 .. (Word - 1)
    /\ Befores \subseteq 0 .. (Word - 1) /\ Afters \subseteq 0 .. (Word - 1)
    /\ LineModes \subseteq BOOLEAN /\ AnyOrders \subseteq BOOLEAN
    /\ MaxQueries \in Nat

VARIABLES
    lineMode,   \* -l or --raw
    anyOrder,   \* the numbers need not ascend; never assigned
    queries,    \* index queries started so far
    least,      \* the next line of the query is not before this one
    asked,      \* lines given to the fetcher
    printed,    \* lines the handler was called with
    latest,     \* the latest of them, 0 before the first
    separated   \* the handler was called with onSeparator since

vars == <<fetcherVars, linesBefore, linesAfter, lineMode, anyOrder, queries, least,
          asked, printed, latest, separated>>

Init ==
    /\ FetcherInit
    /\ linesBefore \in Befores
    /\ linesAfter \in Afters
    /\ lineMode \in LineModes
    /\ anyOrder \in (IF lineMode THEN AnyOrders ELSE {FALSE})
    /\ queries = 0
    /\ least = 0
    /\ asked = {} /\ printed = {}
    /\ latest = 0
    /\ separated = FALSE

\* The next line number: an argument of -l or a row of the query.
Match ==
    /\ lineMode \/ queries > 0
    /\ \E line \in Lines :
          /\ line >= least
          /\ Call(line)
          /\ separated' = Separates(line)
          /\ asked' = asked \cup {line}
          /\ least' = IF anyOrder THEN 0 ELSE line
    /\ UNCHANGED <<linesBefore, linesAfter, lineMode, anyOrder, queries, printed,
                   latest>>

\* queryIndexMulti() goes on to the next argument: queryIndex() gets a copy of the
\* fetcher as it was made, and its lines ascend from the first again.
NextQuery ==
    /\ ~fetching
    /\ ~lineMode
    /\ queries < MaxQueries
    /\ queries' = queries + 1
    /\ least' = 0
    /\ prevBegin' = 0 /\ prevEnd' = 0
    /\ UNCHANGED <<beginRange, endRange, currentLine, fetching, linesBefore, linesAfter,
                   lineMode, anyOrder, asked, printed, latest, separated>>

\* PrintHandler::onLine().
PrintNext ==
    /\ FetchLine
    /\ printed' = printed \cup {currentLine}
    /\ latest' = currentLine
    /\ separated' = FALSE
    /\ UNCHANGED <<linesBefore, linesAfter, lineMode, anyOrder, queries, least, asked>>

RangeDone ==
    /\ Return
    /\ UNCHANGED <<linesBefore, linesAfter, lineMode, anyOrder, queries, least, asked,
                   printed, latest, separated>>

Next == Match \/ NextQuery \/ PrintNext \/ RangeDone

Spec == Init /\ [][Next]_vars

\* A call of the fetcher runs to its end; nobody need ask for another line.
FairSpec == Spec /\ WF_vars(PrintNext \/ RangeDone)
-----------------------------------------------------------------------------
TypeOK ==
    /\ prevBegin \in 0 .. (Word - 1) /\ prevEnd \in 0 .. (Word - 1)
    /\ currentLine \in 0 .. (Word - 1)
    /\ queries \in 0 .. MaxQueries /\ least \in Lines \cup {0}
    /\ asked \subseteq Lines /\ printed \subseteq 0 .. (Word - 1)
    /\ fetching => asked # {}
    /\ latest = 0 <=> printed = {}

\* "extends each matching line number into a range from line-linesBefore to
\* line+linesAfter" (RangeFetcher.h:5-6): when a call returns, every line around
\* every number asked for has been printed, now or earlier.
RangesCovered ==
    ~fetching =>
        \A q \in asked, l \in 1 .. (Word - 1) :
            (q - linesBefore <= l /\ l <= q + linesAfter) => l \in printed

\* No line is printed that is not near a line asked for, and there is no line 0.
OnlyRanges ==
    \A l \in printed :
        /\ l # 0
        /\ \E q \in asked : q - linesBefore <= l /\ l <= q + linesAfter

\* What zq prints is the lines around its matches: all of them and no others
\* (RangeFetcher::operator()).
RangesPrinted == RangesCovered /\ OnlyRanges

\* Lines asked for in ascending order, by one query, come out in ascending order, each once, with
\* a separator exactly where the next line printed does not follow the one before.
MergedInOrder ==
    [][PrintNext /\ ~anyOrder /\ queries <= 1 =>
          /\ currentLine > latest
          /\ separated <=> latest # 0 /\ currentLine # latest + 1]_vars

\* "with overlapping regions removed" (RangeFetcher.h:6-7): no line comes twice.
OverlapsRemoved == [][PrintNext => currentLine \notin printed]_vars

\* Every call of the fetcher returns.
FetchReturns == fetching ~> ~fetching
=============================================================================
