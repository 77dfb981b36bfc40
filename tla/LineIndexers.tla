---------------------------- MODULE LineIndexers ----------------------------
(***************************************************************************)
(* What the indexers find in one line: RegExp and the choice of a capture  *)
(* group (RegExp.cpp, RegExpIndexer.cpp), FieldIndexer (FieldIndexer.cpp)  *)
(* and the number NumericHandler makes of a key (Index.cpp:170-203).       *)
(* Characters are natural numbers, the digits among them 0 .. Base - 1.    *)
(* Positions in a line count from 0, as the code's offsets do.             *)
(***************************************************************************)
EXTENDS Integers, SequencesExt

CONSTANTS
    Base,         \* 10 in the code
    Word,         \* values of the integer a numeric key becomes, 2^64 in the code
    MaxMatches    \* spans RegExp::exec asks for, 20 in the code

ASSUME IndexersAssumption ==
    /\ Base \in Nat \ {0, 1} /\ Word \in Nat \ {0} /\ Word % 2 = 0
    /\ MaxMatches \in Nat /\ MaxMatches > 2

Minus == Base

From(line, at) == SubSeq(line, at + 1, Len(line))

Between(line, span) == SubSeq(line, span[1] + 1, span[2])

Shifted(span, by) == <<span[1] + by, span[2] + by>>

-----------------------------------------------------------------------------
(* The regular expression library (external).  An expression is the set of  *)
(* texts it accepts, each with the spans of its groups, and whether it      *)
(* begins with ^.                                                           *)

Unmatched == <<-1, -1>>

SpansIn(text) == {span \in (0 .. Len(text)) \X (0 .. Len(text)) : span[1] <= span[2]}

IsRegExp(re) ==
    /\ re.anchored \in BOOLEAN
    /\ \A a \in re.accepts :
          a.text \in Seq(Nat) /\ a.groups \in Seq(SpansIn(a.text) \cup {Unmatched})

\* Where and how `re` could match in `rest`; ^ matches at the beginning of a line only.
Candidates(re, rest, bol) ==
    UNION {{at} \X {accepted \in re.accepts : IsPrefix(accepted.text, From(rest, at))} :
              at \in {p \in 0 .. Len(rest) : re.anchored => bol /\ p = 0}}

Precedes(c, d) == c[1] < d[1] \/ (c[1] = d[1] /\ Len(d[2].text) <= Len(c[2].text))

\* regexec(): the spans of the leftmost match, of those the longest, and of its
\* groups; none if there is no match.
Regexec(re, rest, bol) ==
    LET all == Candidates(re, rest, bol)
        first == CHOOSE c \in all : \A d \in all : Precedes(c, d)
        groups == first[2].groups
    IN  IF all = {} THEN <<>>
        ELSE <<<<first[1], first[1] + Len(first[2].text)>>>>
                 \o [g \in DOMAIN groups |-> IF groups[g] = Unmatched THEN Unmatched
                                             ELSE Shifted(groups[g], first[1])]

-----------------------------------------------------------------------------
(* RegExp and RegExpIndexer                                                 *)

\* RegExp::exec(): the spans up to the first group that took no part in the match.
Exec(re, line, offset) ==
    LET spans == Regexec(re, From(line, offset), offset = 0)
        missing == {g \in DOMAIN spans : spans[g] = Unmatched}
    IN  SubSeq(spans, 1, Min({g - 1 : g \in missing} \cup {MaxMatches, Len(spans)}))

NoGroup == 0

\* Mutant: one group more is asked for than is used.
ChosenOfMore(capture, result) ==
    IF capture = 0 THEN IF Len(result) \in {1, 2} THEN Len(result) ELSE NoGroup
    ELSE IF Len(result) > capture + 1 THEN capture + 1 ELSE NoGroup

\* Which of the spans is the key: without --capture the only group, or the whole
\* match; NoGroup stands for the exception.
Chosen(capture, result) ==
    IF capture = 0 THEN IF Len(result) \in {1, 2} THEN Len(result) ELSE NoGroup
    ELSE IF Len(result) > capture THEN capture + 1 ELSE NoGroup

\* Mutant: the next search starts where the key ends, not where the match ends.
AfterKey(capture, offset, result) == offset + result[Chosen(capture, result)][2]

\* Mutant: the next search starts where the match starts.
AtMatch(capture, offset, result) == offset + result[1][1]

\* Mutant: the character after the match is skipped, at the end of the line too.
PastMatch(capture, offset, result) == offset + result[1][2] + 1

\* offset += result[0].second
AfterMatch(capture, offset, result) == offset + result[1][2]

-----------------------------------------------------------------------------
(* FieldIndexer                                                             *)

\* Where memmem() can find the separator, from position `at` on.
Separators(separator, line, at) ==
    {p \in at .. (Len(line) - Len(separator)) :
        SubSeq(line, p + 1, p + Len(separator)) = separator}

\* The span of the field, if the line has it and it is not empty, as a set.
Field(separator, field, line) ==
    LET Ptrs[i \in 1 .. Max({1, field})] ==
            IF i = 1 THEN {0}
            ELSE {Min(Separators(separator, line, p)) + Len(separator) :
                     p \in {q \in Ptrs[i - 1] : Separators(separator, line, q) # {}}}
        End(p) == Min(Separators(separator, line, p) \cup {Len(line)})
    IN  {<<p, End(p)>> : p \in {q \in Ptrs[Max({1, field})] : End(q) # q}}

-----------------------------------------------------------------------------
(* NumericHandler                                                           *)

IsNegative(key) == key # <<>> /\ key[1] = Minus
Digits(key) == IF IsNegative(key) THEN Tail(key) ELSE key

\* Otherwise add() throws "Non-numeric".
IsNumeric(key) ==
    /\ Digits(key) # <<>>
    /\ \A i \in DOMAIN Digits(key) : Digits(key)[i] \in 0 .. (Base - 1)

\* Signed arithmetic wraps, as the builds do where C++ leaves it open.
Wrapped(v) == ((v + Word \div 2) % Word) - Word \div 2

\* The digits one after the other, as add() reads them.
Unsigned(digits) ==
    LET val[i \in 0 .. Len(digits)] ==
            IF i = 0 THEN 0 ELSE Wrapped(val[i - 1] * Base + digits[i])
    IN  val[Len(digits)]

\* Mutant: the sign is forgotten.
ValueWithoutSign(key) == Unsigned(Digits(key))

Value(key) ==
    IF IsNegative(key) THEN Wrapped(-Unsigned(Digits(key))) ELSE Unsigned(Digits(key))
=============================================================================
