------------------------------ MODULE KeyIndex ------------------------------
(***************************************************************************)
(* From a configuration to the answers of queries: zindex adds an indexer  *)
(* for every entry of its configuration (zindex.cpp, IndexParser.cpp),     *)
(* shows every line to every one of them (Builder::Impl::onLine), the      *)
(* handlers turn what they find into rows of the index tables, and zq      *)
(* looks its queries up there (Index::Impl::queryIndex).                   *)
(*                                                                         *)
(* An entry has the options of an index and what its indexer needs.  The   *)
(* kind "bad" stands for every entry, and every combination of options,    *)
(* that zindex refuses before it adds an indexer.                          *)
(***************************************************************************)
EXTENDS LineIndexers

CONSTANTS
    Configs,      \* the configurations: sequences of entries
    Texts,        \* the texts: sequences of lines
    SkipFirsts    \* values of --skip-first

IsEntry(entry) ==
    \/ entry.kind = "bad"
    \/ /\ entry.numeric \in BOOLEAN /\ entry.unique \in BOOLEAN /\ entry.sparse \in BOOLEAN
       /\ \/ entry.kind = "regex" /\ IsRegExp(entry.re) /\ entry.capture \in Nat
          \/ entry.kind = "field" /\ entry.separator \in Seq(Nat) /\ entry.field \in Int

ASSUME KeyIndexAssumption ==
    /\ SkipFirsts \subseteq Nat
    /\ \A config \in Configs :
          config \in Seq(Range(config)) /\ \A entry \in Range(config) : IsEntry(entry)
    /\ \A text \in Texts : text \in Seq(Seq(Nat))

VARIABLES
    config, lines, skipFirst,   \* never assigned
    phase,         \* where zindex is
    added,         \* entries of the configuration read so far
    saveAllLines,  \* saveAllLines_
    n,             \* lines found so far
    kept,          \* which of them have a row in the line table, in order
    todo,          \* the entries whose indexers have yet to see line n
    running,       \* the entry whose indexer is at work, or Nobody
    offset,        \* where its search is in the line
    rows           \* rows of the index tables

vars == <<config, lines, skipFirst, phase, added, saveAllLines, n, kept, todo, running,
          offset, rows>>
inputVars == <<config, lines, skipFirst>>

Nobody == 0
Integer64 == -(Word \div 2) .. (Word \div 2 - 1)
Line == lines[n]
Number == Len(kept) + 1       \* what the line finder calls line n
Entries == 1 .. added
Named(name) == {i \in Entries : config[i].name = name}

Init ==
    /\ config \in Configs
    /\ lines \in Texts
    /\ skipFirst \in SkipFirsts
    /\ phase = "configure"
    /\ added = 0
    /\ saveAllLines = FALSE
    /\ n = 0
    /\ kept = <<>>
    /\ todo = {}
    /\ running = Nobody
    /\ offset = 0
    /\ rows = {}

\* An exception: build()'s rows are rolled back.
Throw ==
    /\ phase' = "failed"
    /\ rows' = {}
    /\ todo' = {} /\ running' = Nobody /\ offset' = 0

-----------------------------------------------------------------------------
(* Configuration                                                            *)

\* The next entry: addIndexer() creates its table, which must not be there yet.
\* The last indexer added decides whether every line is kept.
AddIndexer ==
    /\ phase = "configure"
    /\ added < Len(config)
    /\ LET entry == config[added + 1]
       IN  IF entry.kind = "bad" \/ Named(entry.name) # {}
           THEN Throw /\ UNCHANGED <<added, saveAllLines>>
           ELSE /\ added' = added + 1
                /\ saveAllLines' = ~entry.sparse
                /\ UNCHANGED <<phase, rows, todo, running, offset>>
    /\ UNCHANGED <<inputVars, n, kept>>

StartBuild ==
    /\ phase = "configure"
    /\ added = Len(config)
    /\ phase' = "building"
    /\ UNCHANGED <<inputVars, added, saveAllLines, n, kept, todo, running, offset, rows>>

-----------------------------------------------------------------------------
(* onLine()                                                                 *)

\* A line is found; the first skipFirst lines are kept and not shown to anybody.
FindLine ==
    /\ phase = "building"
    /\ n < Len(lines)
    /\ n' = n + 1
    /\ IF Number <= skipFirst
       THEN /\ kept' = Append(kept, n')
            /\ UNCHANGED <<phase, todo>>
       ELSE /\ phase' = "indexing"
            /\ todo' = Entries
            /\ UNCHANGED kept
    /\ UNCHANGED <<inputVars, added, saveAllLines, running, offset, rows>>

\* IndexHandler::onLine() of any indexer that has not seen the line.
StartIndexer ==
    /\ phase = "indexing"
    /\ running = Nobody
    /\ \E i \in todo : running' = i /\ todo' = todo \ {i}
    /\ offset' = 0
    /\ UNCHANGED <<inputVars, phase, added, saveAllLines, n, kept, rows>>

\* The key column of a row: the text, or one integer.
Key(entry, text) == IF entry.numeric THEN <<Value(text)>> ELSE text

\* The row for the key at `span`.  Its text and the span of the whole match are not
\* columns.
Row(entry, span, match) ==
    [index |-> entry.name, key |-> Key(entry, Between(Line, span)), line |-> Number,
     offset |-> span[1], text |-> Between(Line, span), match |-> match]

\* Whether the handler's add() throws: no number, or a PRIMARY KEY that is taken.
Refused(entry, span) ==
    LET text == Between(Line, span)
    IN  \/ entry.numeric /\ ~IsNumeric(text)
        \/ entry.unique /\ \E row \in rows :
                              row.index = entry.name /\ row.key = Key(entry, text)

\* add() of AlphaHandler or NumericHandler; the indexer goes on at position `next`.
AddKey(entry, span, match, next) ==
    IF Refused(entry, span) THEN Throw
    ELSE /\ rows' = rows \cup {Row(entry, span, match)}
         /\ offset' = next
         /\ UNCHANGED <<phase, todo, running>>

IndexerReturns == running' = Nobody /\ offset' = 0 /\ UNCHANGED <<phase, todo, rows>>

\* One pass of the loop of RegExpIndexer::index().
Match ==
    /\ running # Nobody
    /\ config[running].kind = "regex"
    /\ \E entry \in {config[running]} : \E result \in {Exec(entry.re, Line, offset)} :
          LET chosen == Chosen(entry.capture, result)
          IN  IF offset >= Len(Line) \/ result = <<>> THEN IndexerReturns
              ELSE IF chosen = NoGroup THEN Throw
              ELSE AddKey(entry, Shifted(result[chosen], offset), Shifted(result[1], offset),
                          AfterMatch(entry.capture, offset, result))
    /\ UNCHANGED <<inputVars, added, saveAllLines, n, kept>>

\* FieldIndexer::index().
FindField ==
    /\ running # Nobody
    /\ config[running].kind = "field"
    /\ LET entry == config[running]
           fields == Field(entry.separator, entry.field, Line)
       IN  IF \E span \in fields : Refused(entry, span) THEN Throw
           ELSE /\ rows' = rows \cup {Row(entry, span, span) : span \in fields}
                /\ running' = Nobody
                /\ UNCHANGED <<phase, todo, offset>>
    /\ UNCHANGED <<inputVars, added, saveAllLines, n, kept>>

\* Some indexer has found a key in this line.
Consumed == \E row \in rows : row.line = Number

\* All have seen it: the line is kept if one has found a key, or all lines are.
LineDone ==
    /\ phase = "indexing"
    /\ running = Nobody
    /\ todo = {}
    /\ kept' = IF Consumed \/ saveAllLines THEN Append(kept, n) ELSE kept
    /\ phase' = "building"
    /\ UNCHANGED <<inputVars, added, saveAllLines, n, todo, running, offset, rows>>

EndBuild ==
    /\ phase = "building"
    /\ n = Len(lines)
    /\ phase' = "done"
    /\ UNCHANGED <<inputVars, added, saveAllLines, n, kept, todo, running, offset, rows>>

Next == AddIndexer \/ StartBuild \/ FindLine \/ StartIndexer \/ Match \/ FindField
           \/ LineDone \/ EndBuild

Spec == Init /\ [][Next]_vars

\* zindex is one thread that never waits.
FairSpec == Spec /\ WF_vars(Next)

-----------------------------------------------------------------------------
(* queryIndex()                                                             *)

\* The number a text stands for (external: SQLite's conversion of a query).
Magnitude(digits) ==
    LET upTo[i \in 0 .. Len(digits)] ==
            IF i = 0 THEN 0 ELSE Base * upTo[i - 1] + digits[i]
    IN  upTo[Len(digits)]
Number10(text) ==
    IF IsNegative(text) THEN -Magnitude(Digits(text)) ELSE Magnitude(Digits(text))

\* It has a value in a column of integers.
Fits(text) == Number10(text) \in Integer64

\* WHERE key = :query.  A query of an integer column is converted if it is a number.
\* One out of range, which SQLite rounds to a floating point number, is not asked.
Answers(entry, row, query) ==
    IF entry.numeric
    THEN IsNumeric(query) /\ row.key = <<Number10(query)>>
    ELSE row.key = query

QueryIndex(entry, query) ==
    {row.line : row \in {r \in rows : r.index = entry.name /\ Answers(entry, r, query)}}

-----------------------------------------------------------------------------
(* Properties                                                               *)

\* The values each variable takes: a search position inside the line, kept lines in
\* the order of the text, keys that fit their column and line numbers that exist or
\* are about to.
TypeOK ==
    /\ phase \in {"configure", "building", "indexing", "done", "failed"}
    /\ added \in 0 .. Len(config) /\ n \in 0 .. Len(lines)
    /\ kept \in Seq(1 .. n) /\ \A i, j \in DOMAIN kept : i < j => kept[i] < kept[j]
    /\ todo \subseteq Entries /\ running \in Entries \cup {Nobody}
    /\ offset \in 0 .. (IF running = Nobody THEN 0 ELSE Len(Line))
    /\ \A row \in rows :
          /\ row.line \in 1 .. Number
          /\ \A entry \in Range(config) :
                entry.name = row.index /\ entry.numeric => row.key[1] \in Integer64

\* The lines every indexer has seen, and the rows found in one of them.
SeenLines ==
    {i \in 1 .. (IF phase = "indexing" THEN n - 1 ELSE n) :
        phase # "failed" /\ ~\E r \in DOMAIN kept : r <= skipFirst /\ kept[r] = i}
RowsIn(entry, i) ==
    {row \in rows : /\ row.index = entry.name
                    /\ row.line \in DOMAIN kept /\ kept[row.line] = i}

\* A regular expression finds, from left to right and without overlap, everything it
\* could match in the line.
FindsMatches(entry, line, found) ==
    LET all == Candidates(entry.re, line, TRUE)
        spans == {row.match : row \in found}
    IN  /\ \A s \in spans : \E c \in all :
              c[1] = s[1] /\ c[2].text = Between(line, s)
        /\ \A c \in all : c[2].text # <<>> =>
              \E s \in spans : s[1] <= c[1] /\ c[1] < s[2]
        /\ \A s, t \in spans : s = t \/ s[2] <= t[1] \/ t[2] <= s[1]

\* The separators of a line: those that do not overlap one before.
Cuts(separator, line) ==
    LET all == Separators(separator, line, 0)
    IN  CHOOSE cuts \in SUBSET all : \A p \in all :
            p \in cuts <=> ~\E q \in cuts : q < p /\ p < q + Len(separator)

\* A field is what is between two separators, or a separator and an end of the line.
FindsField(entry, line, found) ==
    LET cuts == Cuts(entry.separator, line)
        starts == {p + Len(entry.separator) :
                      p \in {q \in cuts : Cardinality({r \in cuts : r <= q}) = entry.field - 1}}
                  \cup (IF entry.field <= 1 THEN {0} ELSE {})
        spans == {<<p, Min({q \in cuts : q >= p} \cup {Len(line)})>> : p \in starts}
    IN  {row.match : row \in found} = {s \in spans : s[1] # s[2]}

\* The index rows of a build say where its keys are: in every line shown to the
\* indexers each of them finds all that its expression or its field number selects,
\* the row's offset is where the key is, and its line number leads to that line; a
\* line without a row in the line table has no key (onLine(), RegExpIndexer::index(),
\* FieldIndexer::index(), the handlers' add()).
RowsAreTheMatches ==
    \A i \in SeenLines, e \in Entries :
        LET entry == config[e]
            found == RowsIn(entry, i)
        IN  /\ \A row \in found :
                  row.text = Between(lines[i], <<row.offset, row.offset + Len(row.text)>>)
            /\ entry.kind = "regex" => FindsMatches(entry, lines[i], found)
            /\ entry.kind = "field" => FindsField(entry, lines[i], found)

\* Once an index is built a query for a key finds every line with that key, and no
\* line without it, but for keys too large for the column, which may be found under a
\* wrong number (NumericHandler::add(), queryIndex()).
QueriesFindTheirLines ==
    phase = "done" =>
        \A e \in Entries :
            LET entry == config[e]
                mine == {row \in rows : row.index = entry.name}
                Exact(text) == ~entry.numeric \/ Fits(text)
                Same(a, b) == IF entry.numeric THEN Number10(a) = Number10(b) ELSE a = b
            IN  \A query \in {row.text : row \in {r \in mine : Exact(r.text)}} :
                    LET same == {r \in mine : Same(r.text, query)}
                        wrapped == {r \in mine : ~Exact(r.text)}
                        found == QueryIndex(entry, query)
                    IN  /\ {r.line : r \in same} \subseteq found
                        /\ found \subseteq {r.line : r \in same \cup wrapped}

\* The text that a match gives as its key, as a set: empty if a group of the expression
\* that would be needed took no part in it, or if there are several and none is asked for.
KeysOfCandidate(entry, c) ==
    LET groups == c[2].groups
        matched == {g \in DOMAIN groups : groups[g] # Unmatched}
        GroupText(g) == Between(c[2].text, groups[g])
    IN  CASE entry.capture = 0 /\ 1 \notin matched -> {c[2].text}
          [] entry.capture = 0 /\ 1 \in matched /\ 2 \notin matched -> {GroupText(1)}
          [] entry.capture \in 1 .. (MaxMatches - 1) /\ 1 .. entry.capture \subseteq matched ->
                {GroupText(entry.capture)}
          [] OTHER -> {}

\* All that an entry might find in a line: the places, each with its key.
Occurrences(entry, line) ==
    IF entry.kind = "regex"
    THEN UNION {{c} \X KeysOfCandidate(entry, c) : c \in Candidates(entry.re, line, TRUE)}
    ELSE {<<span, Between(line, span)>> : span \in Field(entry.separator, entry.field, line)}

\* A key that two places of the text so far have, or one that a match of nothing has.
HasKeyTwice(entry) ==
    \E i \in 1 .. n : \E o \in Occurrences(entry, lines[i]), p \in Occurrences(entry, Line) :
        /\ Key(entry, o[2]) = Key(entry, p[2])
        /\ <<i, o>> # <<n, p>> \/ o[2] = <<>>

\* An index is refused for a reason only: an entry that cannot be used, two entries
\* of one name, a match without the group that is asked for, a key of a numeric index
\* that is no number, or a second key of a unique index (addIndexer(),
\* RegExpIndexer::index(), the handlers' add()).
BuildFailsForCause ==
    phase = "failed" =>
        \/ \E i \in DOMAIN config :
              config[i].kind = "bad" \/ \E j \in Entries \ {i} : config[i].name = config[j].name
        \/ \E e \in Entries :
              LET entry == config[e]
              IN  \/ /\ entry.kind = "regex"
                     /\ \E c \in Candidates(entry.re, Line, TRUE) : KeysOfCandidate(entry, c) = {}
                  \/ entry.numeric /\ \E o \in Occurrences(entry, Line) : ~IsNumeric(o[2])
                  \/ entry.unique /\ HasKeyTwice(entry)

\* An expression that cannot match an empty text, or whose empty match ends the build.
Advances(entry) ==
    entry.kind = "regex" =>
        entry.numeric \/ entry.unique \/ \A a \in entry.re.accepts : a.text # <<>>

\* Indexing ends, as long as no expression of an index that takes empty keys
\* repeatedly can match nothing (the loop of RegExpIndexer::index()).
IndexingEnds ==
    (\A i \in DOMAIN config : Advances(config[i])) ~> (phase \in {"done", "failed"})
=============================================================================
