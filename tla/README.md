# zindex: models, checks and proofs

zindex builds an index over a gzip file so that single lines of it can be
fetched without decompressing what comes before; zq fetches them. This directory
holds TLA+ models of that program, the configurations TLC checks them with, and
proofs TLAPS checks. Paths and line numbers are those of the repository
(`src/Index.cpp` here is `src/src/Index.cpp` in PROJECT.json).

## The system

| component | state | operations | hard because |
|---|---|---|---|
| `LineFinder` | buffered part of a line, offsets of kept lines, current offset | `add` (calls back `onLine`) | blocks end anywhere; the callback's answer decides the numbering |
| `Index::Builder` | zlib stream, 16K input buffer, 32K output ring, bound access point, tables in one transaction | `addIndexer`, `build`, `onLine` | two nested loops driven by `avail_in`, `avail_out`, `feof`, block boundaries and stream ends; several gzip members; files cut short |
| `Index` (reader) | the FILE, `blockSize_`, `cachedContext_` | `load`, `getLine`, `print`, `queryIndex` | contexts outlive calls but share one FILE; exceptions in the middle; stream ends in the middle |
| `RangeFetcher`, zq | the previous range | `operator()` | overlaps in any order, words that wrap, copies made by `std::function` |
| `RegExpIndexer`, `FieldIndexer`, `RegExp` | the search position in a line | `index`, `exec` | matches of nothing, groups that took no part, separators that overlap |
| index handlers (`AlphaHandler`, `NumericHandler`) | rows of one index table | `onLine`, `add` | an exception ends the build in a callback; numbers overflow; the key may be taken |
| `ExternalIndexer`, `Pipe` | child process, two pipes | `index`, constructor, destructor | two processes, buffers that fill, a child that dies |
| metadata and index file | rows written at construction, size and time of the file | `Builder::init`, `Index::init(force)` | written outside the transaction; the file may change; two zindex may work on one path |
| `Sqlite`, `IndexParser`, command lines, logging | - | - | thin or pure input and output |

The builder hands every full ring to the `LineFinder`, which calls the builder's
`onLine` back for each line; that calls the indexers, whose keys become rows.
The reader joins a line's row with the access point that covers its offset,
primes a raw inflate with that point's bits and window, skips to the line and
gives it to a sink. zq turns each number it finds into a range of numbers and
asks the reader for each.

What makes each part correct: the finder presents every line once, in order and
whole, and numbers it by its row; the builder's access points can be decoded
from, cover the text without gap or overlap and never lie across two members,
and its rows lead to the right lines; the indexers find everything their
expressions and fields select, and a query for a key finds its lines; the reader
delivers exactly the row asked for whatever was asked before; the range fetcher
prints all context once; an index that loads is of the file beside it.

## Modules

| module | models | its actions and state in the code |
|---|---|---|
| `Text` | bytes as positions of the text, lines | - |
| `LineFinder` | the class (`LineFinder.cpp`) | `Add` enters `add()`; `FindLine`, `LastLine` are one call of `lineData()` with the sink's answer; `BufferRest` is `append()`; `Return` keeps the last offset |
| `LineStream` | abstract: what a finder promises its sink | `Present`, `Finish`; knows nothing of blocks |
| `ChunkedText` | a finder and a caller that cuts the text anywhere | `Feed` is one `add()` call; `Lines` maps it to `LineStream` |
| `CompressedFile` | gzip and `inflate()`, external | a file is a sequence of deflate blocks with text bytes and bits; `InflateToBlock` is the builder's `Z_BLOCK` in gzip mode, `InflateRaw` the reader's raw mode; `IsFile` says what every gzip file's layout is like: blocks of at least a bit, a trailer after a member's last block and a header before its first |
| `IndexBuilder` | `Index::Builder::Impl` | `Fread`/`KeepInput` the outer loop's head, `EmptyWindow` the inner one's, `InflateBlock` inflate and all that follows it (access points, member ends, errors), `OnLine` the callback with the finder's step, `FlushLast`, `WriteLines` the end |
| `IndexReader` | `Index::Impl` | `Load`, `GetLine`, and `print()` in steps: `ReuseContext` or `CreateContext`, `MeasureLine`, `BeginPass`, `RefillInput`, `InflateLine` |
| `ZIndex` | builder, then reader, over the same file | `Build`, `Open`, `Ask`, `PrintLine` |
| `RangeFetcher` | the class (`RangeFetcher.cpp`) | `Call`, `FetchLine` (one `onLine` of the handler), `Return` |
| `Zq` | zq's use of it: `-l`, `--raw`, index queries | `Match` gives it a number, `NextQuery` is the copy `queryIndexMulti()` makes |
| `ExternalIndexer` | the class and its two `Pipe`s, and the command's process (external) | `Fork`, `IgnoreSignals` the constructor; `IndexLine`, `WriteSome`, `LineWritten`, `NewlineWritten`, `Read` and the failing `WriteFails`, `ReadFails` are `index()`; `Kill`, `Wait` the destructor; `RunChild`, `ChildReads`, `ChildWrites`, `ChildDies` the other process |
| `LineIndexers` | pure: `RegExp::exec()`, the choice of the group, `FieldIndexer`, `NumericHandler`'s digits | `Exec`, `Chosen`, `AfterMatch`, `Field`, `Value`; the expression library is external: an expression is the set of texts it accepts, each with the spans of its groups |
| `KeyIndex` | from a configuration to the answers of queries | `AddIndexer` is `addIndexer()` for one entry, `FindLine` and `LineDone` the two ends of the builder's `onLine()`, `StartIndexer` `IndexHandler::onLine()`, `Match` one pass of the loop of `RegExpIndexer::index()` with the handler's `add()`, `FindField` `FieldIndexer::index()`; `QueryIndex` is `queryIndex()` |
| `IndexFile` | an index file's life: any number of zindex, zq and the compressed file between them | `Unlink`, `OpenIndex`, `Execute` (one statement) are `init()`; `BeginTransaction` to `EndTransaction` the build; `BuildFails`, `Killed` end it anywhere; `Load` to `Check` are `Index::load()`; `Modify`, `Tick` the others |
| `MCChunkedText`, `MCIndexBuilder`, `MCZIndex`, `MCExternalIndexer`, `MCKeyIndex`, `MCIndexFile` | the instances TLC checks | files of a few blocks, short texts, symmetry of the builders |
| `LineFinderProofs`, `IndexBuilderProofs`, `IndexRowsProofs`, `ZIndexProofs`, `ZqProofs`, `ExternalIndexerProofs`, `KeyIndexProofs`, `IndexFileProofs` | proofs | - |

Abstractions. A byte is its position in the text, so two pieces of text are equal
only if they are the same part of it; an uninitialised or wrong byte is a
negative number. A file keeps where its blocks start and end in bits and in
text, where its members end and where it was cut; a byte has 8 bits, a gzip header and
trailer one byte each. Where zlib is free (how much text a piece of input makes,
how much input it has taken when the output is full) the model takes every
answer consistent with the layout. A context's decoder is the member it decodes,
its text position and its next input byte, and it is `Lost` when primed wrongly
or fed from elsewhere in the file: it then finds an error or produces junk. In
`IndexBuilder`, which keys a line has and whether an indexer throws on it is a
free choice; `KeyIndex` says which, over characters that are small numbers with
`Base` digits among them. The tables are sets and sequences; an exception out of
`build()` rolls them back.

`context.reset()` inside `print()` is followed by a read of the freed stream's
`avail_out`. `MemberEnds` takes the value that was there before, as the
allocator of a release build leaves it; when it is not 0 the loop goes on with
the freed stream, which is the step `"crashed"`.

## Runs

Passing:

| run | bounds | shows |
|---|---|---|
| `MCChunkedText` | texts up to 5 bytes, every newline set, every cut | `PresentsLinesInOrder` (refinement of `LineStream`), `NumberIsRow` |
| `IndexBuilder` | ring of 3, input of 2, files of 1 to 3 members and up to 7 bytes of text with empty blocks and empty members, all truncations and some damage, three spacings, with and without skipped lines, full and sparse | access points: `PointsAreDecodable`, `NoPointSpansMembers`, `PointsTileText`, `PointsAreSpaced`; rows: `RowsAreLines`; whole builds: `IndexersSeeEveryLine` (refinement), `IndexedIffIntact`, `BuildEnds` |
| `ReadLines` | ring of 3, input of 2, texts of 5 to 9 bytes in up to four blocks or three members, two spacings, full and sparse, any sequence of requests | `DeliveredExactly`, `CachedContextInSync`, `FailsOnlyAtMemberEnds`, `FoundIffKept`, `NthLineOfFile`, `KeyedLineIsDelivered`, `CallsReturn` |
| `KeyIndex` | 18 configurations of up to three indexers, 8 texts of up to three lines, three digits, integers of 8 values, 3 spans instead of 20, `--skip-first` 0 and 1 | `RowsAreTheMatches` (against what the expression could match and the field is), `QueriesFindTheirLines`, `BuildFailsForCause`, `IndexingEnds` |
| `Zq` | words of 16 values, six line numbers, contexts of 0 to 3, two queries | `RangesPrinted`, `MergedInOrder`, `FetchReturns` |
| `ExternalIndexer` | pipes of 2 bytes, reads of 2, texts of two lines of 0 to 5 bytes, three kinds of command that may die at any step | `KeysOfOwnLine`, `LineInFlight`, `JamsOnlyIfTooLong`, `NoChildLeft`, `IndexerEnds` |
| `IndexFile` | two zindex at once, two index files, two versions of two sizes in two seconds, one reader; the builders are symmetric | `LoadedIndexIsOfThisFile`, `MetadataIsOfOneVersion`, `OneBuildPerIndex`, `WholeIndexIsNotTouched` |

The bounds are small but past every corner of the code: the ring wraps several
times, the input buffer ends inside headers, blocks, trailers and exactly at
member ends, blocks end inside bytes, a line spans more than one ring, a skip
takes more than one window, and a context is reused several times. The number
of requests is not bounded: the reader's state is finite. In `KeyIndex` a line
has several matches, numbers overflow their column, a match leaves out the group
asked for or the one before it, three separators overlap, and two indexers give
keys for one line. In `IndexFile` a zindex is overtaken by another between any
two of its statements, is killed there and run again, and `MaxVersions`,
`MaxTime`, `MaxBuilds` bound what the proofs leave open.

Violations, where the code does not do what the repository says:

| run | the code | the repository |
|---|---|---|
| `PlainName` | a name without a protocol shortens the vector of matches, `matches[1]` is read past its end, and the name is refused | "By default `zindex` creates an index of `file.gz.zindex`" (`README.md:25`) |
| `NoIndexers` | keeps no line when there is no indexer | "With no indexers, only a line number index is built." (`Index.h:112`) |
| `EmptyMember` | two access points at one offset break the primary key, the build fails: a member without text between two others, or one whose last block is empty, as a flush before the end leaves it, and has a point of its own | "a set of concatenated gzip files, possibly a bgzip file" (`Index.cpp:623-625`) |
| `CrossMember` | a kept context is reused across a member's end and the call throws | "the indexer always stops us from crossing a divide here" (`Index.cpp:428-429`) |
| `ZqManyQueries` | each query gets a copy of the `RangeFetcher` | "with overlapping regions removed" (`RangeFetcher.h:6-8`) |

All were also seen with the program itself, built from this repository (and
given its index as a `file:` name). More have no run. Seen as well: the last row
of a text without final newline is one byte longer than the text, so `print()`
comes to the end of the member with a byte to go, and fails (`RowsAreLines` has
its length); a row of a sparse index over two members, or a line over two
members, ends in a freed context (`MemberEnds`); a file of no bytes indexes the uninitialised ring;
`-A 18446744073709551615` wraps and prints nothing; `zq -l 18446744073709551615`
never ends. Seen in the model only: "Line too long!" (`Index.cpp:377`) is thrown
after the shared FILE has moved and leaves the kept context in place, which then
reads from the wrong place (`ReadLines` with a small `MaxLength`); zq loads an
index without any check if zindex holds the lock while the metadata is read and
is done before the block size is (`ReadMetadata`). A file cut off inside the header of a later member is taken for the
shorter file (`TextOnDisk`); `IndexersSeeEveryLine` says what is indexed then.

`FailsOnlyAtMemberEnds` is the exact extent of `CrossMember`, the unterminated
text and the rows over two members: every other row is delivered. Its proof
turned up a case the bounds had left out (`LongData` of `MCZIndex`): a call that
goes on from a kept context may skip to the last byte of the member's text before
the member's data has been read to its end; `print()` then begins the line, meets
the end of the member in it, and goes on with the freed context instead of
throwing.

`KeyIndex` shows three more. An expression that matches nothing never gets on:
the same row is added again and again unless the index is numeric or unique, so
`IndexingEnds` excepts it (`Advances`). A numeric key out of range is stored,
and found, as another number (`QueriesFindTheirLines` excepts it). An optional
group that took no part hides the groups after it, so a build may fail although
the group asked for has matched (`KeysOfCandidate`).

`JamsOnlyIfTooLong` is the exact extent of a deadlock: with a command that
copies pieces as they come, such as the `cat` of the tests, `index()` may never
return from a line longer than both pipes can hold (a command that reads larger
pieces puts the limit higher, by the size of its own buffer). `zindex.cpp:68-72` asks of the command only one
line for each line and no buffering. Two more things the model shows and no run
states; the program does all three. A child that died before the destructor has been reaped, `kill()` fails
and `std::terminate()` hides the error (`outcome = "aborted"`). The check for
more than one line (`ExternalIndexer.cpp:47`) depends on timing: with
`"repeats"`, both lines in one read make one answer with a newline inside a key,
and the first line alone is a good answer after which every line gets the
answer of an earlier one.

`CHECK_DEADLOCK FALSE` in every configuration: a finished build, a finder that
has been given all, and a crashed reader have no further step, and a client
need not ask.

Fairness. `FairSpec` of `ChunkedText`, `IndexBuilder` and `KeyIndex` is weak
fairness of the whole next step: one thread runs a loop that never waits, so it
takes a step whenever it has one. `FairZSpec` asks it of the steps of `print()` only, and `Zq`
of the steps of the fetcher only: clients may stop asking. `ExternalIndexer` has
weak fairness of the parent's step and of the command's, two processes the
system schedules; the command's death is not a fair step. `BuildEnds` rests on
it and on files being finite. `IndexFile` asks for none: any process may stop
anywhere.

## Proofs

Every proof is of the modules the runs check, with no definition replaced, for
every value of the constants that meets the named assumptions.

The line finder (`LineFinderProofs`): for texts of every
length, newlines anywhere, cut into blocks anywhere and any choice of lines to
keep.

- `TypeCorrect`: `Spec => []TypeOK`. `TypeOK` bounds the current offset by the
  text, which depends on what the buffer holds. The inductive invariant `IInv`
  adds: the rest of the block is the text from where `add()` has come to where
  the caller has (`ChunkIsText`); the buffer is the text from the start of the
  current line to there and holds no newline, or the last line had none and the
  offset has stepped past the end (`BufferIsText`); the last block ends the text
  (`EndsWithText`). One lemma for each action, on lemmas about
  cutting and joining slices.
- `ImplementsLineStream`: `Spec => PresentsLinesInOrder`. From `IInv`, a step
  that reports a line is `Present` of that line (`PresentStep`), the `Return`
  after the last block is `Finish`, and every other step stutters.
- `LineNumbersAreRows`: `Spec => []NumberIsRow`, from `RowInv`, which says in
  addition what number the next line will get.
- `OffsetsAreLines`: `Spec => []OffsetsInv`, what the line table is made from: the
  current offset is at a line, the kept offsets are lines in the order of the
  text, each with a whole line before the next, the last is the end, and if every
  line is kept none is missing.

The builder (`IndexBuilderProofs`): for a ring and an
input buffer of any size, any spacing, any indexers, and any set of files that
are files (`FilesAssumption`: blocks follow each other, members are closed,
nothing is on disk beyond the last trailer; cut off or damaged anywhere).
`TypeCorrect`, `Decodable`, `NoSpan`, `Tiling` and `Spacing` are the type
invariant and the four properties of access points.

- Its first part says what the layout implies (`BlocksInOrder`,
  `MemberStartBound`) and what one call of `inflate()` can do: `Outcomes` gives
  the six kinds of answer, `StaysPlaced` that the decoder is then again where a
  decoder can be (`Placed`: its text position is in its block, it has read no
  further than the part it is in needs).
- `StepKinds` sorts every step of the builder by what it does to the access
  points: it fails, idles, inserts the last one, or takes an answer of
  `inflate()` that advances, notes a point or leaves a member.
- `IInv` holds the decoder and the ring (`Stream`: the ring has the last
  `WindowSize` bytes, those below the write position from this round and those
  above from the round before); that a point waits to be noted exactly between
  members (`Waiting`); that the bound point is the latest one (`Bound`); that
  each point is at a block's start with its window (`Primed`); that the rows
  cover the text without overlap up to the latest point, or to the end once the
  last is inserted (`Tiles`); that every member begun has a point at its start
  (`MembersBegun`), every block begun starts close to the latest point
  (`CloseBy`), and the same of the rows (`NoPointSpansMembers`, `ShortRows`,
  `FarApart`). The four properties alone are not inductive: they speak of rows,
  and a row is made from a point bound many steps before.

The rows (`IndexRowsProofs`). `RowsInv` adds to the builder's `IInv` that the
file has been read to its end, past nothing damaged, when the loops end
(`ReadToEnd`), that `add()` is only at work where it is called (`AddsWhen`), and
in which member the bound point and each row of the access points lie
(`LatestBegun`, `RowsInMembers`); `RowsInvariance` proves it. `TextKept` joins it
to the finder's invariants: the `LineFinder` inside the builder is one of
`ChunkedText` whose caller has come as far as the text handed over, the ring holds
what comes next (`HandedOver`), so that the hand-overs follow each other, and the
keys found are of the lines the finder has numbered (`RowsKept`).

- `RowsCorrect`: `Spec => []RowsAreLines`, with no assumption but those on the
  constants.
- `IndexersSee`: `Spec => IndexersSeeEveryLine`, the refinement of `LineStream` by
  the whole builder, under `NoEmptyFile`: a file of no bytes has an uninitialised
  ring handed over as its text (`Index.cpp:647`), which the indexers then see.
- `IntactIndexed`: `Spec => []IndexedIffIntact`, under `NoEmptyEnd`: a member with
  another after it does not end with a block without text, unless no text has come
  yet. Without it the theorem is false, which is the run `EmptyMember`. That the key of the access points is free
  when a point is inserted (`KeyIsFree`), and that a failed build has a cause
  (`Cause`), are the parts it adds to `RowsInv`.

The reader (`ZIndexProofs`): for every file, ring, input buffer, spacing, order of
calls, full or sparse, over the tables a builder wrote. All theorems are under
`[]NoRowTooLong`: no row is as long as `print()` refuses. Without it they are
false: `Index.cpp:377` throws after the shared FILE has moved and keeps the old
context, which then decodes from the wrong place. The hypothesis holds in
`ReadLines`. `FindsLines` and `DeliversKeyed` need `NoEmptyFile` as well: the
junk row of an empty file has no access point.

- The inductive invariant is `ReaderInv` with the builder's `BuilderInv`. `Live`
  says of a context that its member is whole on disk, that its decoder is in that
  member, that its count of bytes is the decoder's and that the shared FILE stands
  where its input goes on. It is demanded of the kept context between calls and
  of the current one during a call, never of two at once: all contexts read from
  one FILE. `Whence` says where the current one comes from, a point in the member
  of the row or the kept context, which is then no longer kept; `Progress` how far
  print() has come between the context and the row, and, with the line's buffer,
  what it holds; `Found` ties the row in hand to the tables; `Answered` says what
  the latest call has given and why it failed.
- `ReaderTypeCorrect`, `Delivers`, `CachedInSync`, `FailsAtMemberEnds` follow from
  it; `NthLine` joins it with `RowsInv` and counts the lines before a row;
  `FindsLines` needs that the access points cover every row's offset (`Tiling`),
  `DeliversKeyed` that a line with a key is kept and begins its row.

zq (`ZqProofs`): for any word size, lines and contexts, under `NoWrap`, which
says that no line number plus its context reaches the largest word. Without it
the theorems are false, as the code is. `TypeCorrect`, `RangesPrintedHolds`,
`MergedInOrderHolds`. `IInv` is the type (`Shape`), that a call has printed its
range up to the current line and nothing else is missing (`Progress`), that
nothing but ranges is printed, and that while matches ascend the fetcher is at
the latest of them (`Ascending`).

The external indexer (`ExternalIndexerProofs`): for pipes of every capacity,
reads of every size and every text. `LineInFlightHolds`, `JamsOnlyIfTooLongHolds`,
`NoChildLeftHolds`. The core of `IInv` is that the answer so far, the pipe back,
what the command holds, the pipe to it and what is not yet written are together
the line, with its newline last; from the lengths of these parts follows that
both can only be stuck over a line longer than both pipes.

`TypeCorrect` and `KeysOfOwnLineHolds` need more: a call can end with the keys of
its line after the command has died, when `IInv` says nothing of the bytes any
more. `KeysInv` adds that what is read and what is in the pipe back is always the
beginning of the line in hand (`Begins`), so that the first newline ends it and
leaves the pipe empty, and that every finished call has added `KeysOf` of its own
line. `KeysAreFields` says what that recursion computes for every sequence of
bytes, the fields (`FieldsAt`) in order: if it did not for some end of the bytes,
there would be a shortest such end (`LeastNumber`), and one step of the recursion
from a shorter one rules that out (`FieldsSplit`, `KeyBefore`).

The keys (`KeyIndexProofs`): for every configuration of any number of indexers,
every expression, separator and field number, every text and `--skip-first`, any
base, integer width and number of spans above 2 that `exec()` asks for (20 in
the code: two are needed to see that an expression has more than one group).
`TypeCorrect`, `RowsCorrect`, `QueriesCorrect` and `FailsOnlyForCause` are the
four invariants of the run.

- An expression is assumed to be no more than the library promises: a set of
  texts with the spans of their groups inside them (`IsRegExp`), of which the
  leftmost and then longest is found. That there is such a one is
  `LeftmostLongest`. The loop asks it of the *rest* of the line; `ExecIs`,
  `ChosenIsKey` and `MatchFound` say that this answer, shifted, is the next match
  of the line itself, with the key of the group that was asked for.
- `MatchesUpTo` is what makes the loop inductive: the matches found are all those
  that begin before the search position, and none reaches past it. `OneMatchMore`
  carries it over a pass, `AllMatches` turns it into `FindsMatches` at the end.
- `FieldIndexer` walks from one separator to the next; the property speaks of the
  set of separators that overlap none before. `CutsExist` says there is
  such a set, `FieldsAgree` that the walk meets it in order.
- `ValueIsNumber`: the number `add()` makes digit by digit, each step wrapped, is
  the number itself modulo the width, with its sign; so it is the number if that
  fits (`FittingValue`).
- `KInv` joins them: a row tells of a place in a line it leads to (`RowsTrue`); an
  indexer yet to see the line has no rows of it, the one at work has those up to
  its position, and the others all (`AtWork`); a line finished with is complete
  (`LinesDone`). That the four properties alone are not inductive is plain from
  `AtWork`: none of them speaks of a search that is half done. TLC has checked
  `KInv` on the run's instance.

Where the definitions recurse over a line or its digits, the proofs take the
least position where the claim would fail (`LeastNumber`) and show that there is
none before it.

The index file (`IndexFileProofs`): for any number of zindex at once, versions,
seconds, builds and crashes. `TypeCorrect`, `LoadedIndexIsOfThisFileHolds`,
`MetadataIsOfOneVersionHolds`, `OneBuildPerIndexHolds`,
`WholeIndexIsNotTouchedHolds`. `IInv` says of each file that its first statement
decides whose it is and that content comes after all of them; of each zindex
that what it has executed is in its file, and that its `stat` came before all it
reads; of one that runs alone that it finds no leftover; of the reader that it
has all of the metadata or none.

Only model-checked: liveness, which the prover cannot express (`BuildEnds`,
`CallsReturn`, `FetchReturns`, `IndexerEnds`, `IndexingEnds`). The runs that
expect a violation are TLC's as well.

## Plan

Done: the components above, each with its instance, its properties and its
proofs. What could follow:

1. `RowsAreLines` and `RowsAreTheMatches` joined: an `IndexBuilder` whose indexers
   are those of `KeyIndex`, so that a key leads through the line table to its text
   in one theorem. Today `KeyedLineIsDelivered` has any choice of keys in its place.
2. Descriptor numbers (a `Pipe` closes them twice) and several commands in one
   program.

## Not modelled

- Parsing of command lines and of JSON configurations: their effect is the
  configuration `KeyIndex` begins with. Logging, pretty printing, `StringView`.
- The SQLite library: its rows, its transaction and its lock are modelled, not
  its files. `--raw` queries are the user's SQL and stand as any choice of
  lines. A query of a numeric index out of the range of its column is rounded to
  a floating point number; it is not asked.
- Compression of the windows, I/O errors of `fread`, `Z_MEM_ERROR` and
  `Z_NEED_DICT`, 64-bit overflow of file offsets, a file of no bytes (the ring
  is then uninitialised and counts as full).
- Bytes of value 0 in lines, which end them for the regular expression library.
- An empty `--delimiter`: `ExternalIndexer.cpp:57` then finds it everywhere and
  `index()` never returns. Commands that buffer their answers, descriptor
  numbers, several commands in one program.
- The row `sparse` of the metadata, which is 1 for every index (`Index.cpp:507`)
  and which nothing reads; the tables that a configuration refused half way
  leaves behind, which the next zindex removes with the file.
- `sqlite3`, `cJSON`, `tclap` and the other code under `ext/`, which is not this
  program's.
