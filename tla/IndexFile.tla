----------------------------- MODULE IndexFile -----------------------------
(***************************************************************************)
(* The life of an index file: zindex replaces and fills it (Index.cpp,     *)
(* Builder::Impl::init and the transaction of build(); Sqlite.cpp), may    *)
(* fail or be killed anywhere and be run again, twice at once too, while   *)
(* zq loads the index (Index::Impl, init(force)) and others change the     *)
(* compressed file.                                                        *)
(*                                                                         *)
(* The compressed file is a sequence of versions, changed in place, of     *)
(* which stat() shows size and time.  The index file is what its path      *)
(* names; a file that was unlinked lives on for those who have it open.    *)
(* What an index holds is the set of versions the build has read.          *)
(***************************************************************************)
EXTENDS Integers, Sequences, FiniteSets

CONSTANTS
    Builders,           \* the zindex processes that may run at once
    Sizes,              \* sizes a version may have
    MaxVersions,        \* bound: versions of the compressed file
    MaxTime,            \* bound: seconds
    MaxBuilds,          \* bound: index files created
    IndexNames          \* how the index is named: a plain path or a file: URI

ASSUME NamesAssumption == IndexNames \subseteq {"plain", "uri"}
None == 0

ASSUME BoundsAssumption ==
    /\ Sizes \subseteq Nat
    /\ None \notin Sizes /\ {MaxVersions, MaxTime, MaxBuilds} \subseteq Nat \ {0}

VARIABLES
    versions,           \* the compressed file so far: size and time of each version
    time,               \* the clock, in the seconds of st_mtime
    files,              \* the index files created so far
    path,               \* the one the index's path names, or None
    builder,            \* each zindex: where it is, its file, statement, reads and lock
    failure,            \* why its last build failed, where it matters
    reader              \* zq: where it is, its file, --force, metadata, version

vars == <<versions, time, files, path, builder, failure, reader>>

NoMetadata == [size |-> None, mtime |-> None]

\* The statements of init() that matter, each committed by itself.  The other rows of
\* Metadata come with the table, and the tables of the indexers with LineOffsets.
Statements == <<"AccessPoints", "Metadata", "compressedSize", "compressedModTime",
                "LineOffsets">>

Current == Len(versions)
Stat == versions[Current]

\* `by` and `alone` are history: who has written to the file, and whether no other
\* zindex ran at any time during the last build.
EmptyFile == [done |-> {}, metadata |-> NoMetadata, content |-> {}, torn |-> FALSE,
              by |-> {}]
Idle == [at |-> "off", name |-> "uri", file |-> None, statement |-> 1,
         stat |-> NoMetadata, seen |-> {}, exclusive |-> FALSE, alone |-> TRUE]
NoReader == [at |-> "off", file |-> None, force |-> FALSE, metadata |-> NoMetadata,
             version |-> None]

Init ==
    /\ time = 1
    /\ versions \in {<<[size |-> s, mtime |-> 1]>> : s \in Sizes}
    /\ files = <<>>
    /\ path = None
    /\ builder = [b \in Builders |-> Idle]
    /\ failure = [b \in Builders |-> "none"]
    /\ reader = NoReader

-----------------------------------------------------------------------------
(* The others. *)

Modify ==
    /\ Current < MaxVersions
    /\ \E s \in Sizes : versions' = Append(versions, [size |-> s, mtime |-> time])
    /\ UNCHANGED <<time, files, path, builder, failure, reader>>

Tick ==
    /\ time < MaxTime
    /\ time' = time + 1
    /\ UNCHANGED <<versions, files, path, builder, failure, reader>>

-----------------------------------------------------------------------------
(* zindex. *)

\* The process ends.
End(b, why) ==
    /\ builder' = [builder EXCEPT ![b] = [Idle EXCEPT !.alone = builder[b].alone]]
    /\ failure' = [failure EXCEPT ![b] = why]

StartBuild(b) ==
    /\ builder[b].at = "off"
    /\ Len(files) < MaxBuilds
    /\ LET running == {c \in Builders : builder[c].at # "off"}
       IN  \E name \in IndexNames :
              builder' = [c \in Builders |->
                  CASE c = b -> [Idle EXCEPT !.at = "opened", !.name = name,
                                             !.alone = (running = {})]
                    [] c \in running -> [builder[c] EXCEPT !.alone = FALSE]
                    [] OTHER -> builder[c]]
    /\ failure' = [failure EXCEPT ![b] = "none"]
    /\ UNCHANGED <<versions, time, files, path, reader>>

\* Sqlite::toFile(): a name without a protocol matches the expression, with one
\* match; matches[1] is past its end, and whatever is there, the result does not
\* begin with "file:".
IsRefused(name) == name = "plain"

\* Mutant: the old file is emptied and filled again.
EmptyOldIndex ==
    /\ path' = path
    /\ files' = IF path = None THEN files ELSE [files EXCEPT ![path] = EmptyFile]

\* unlink(); whether it worked only decides what is logged.
UnlinkOldIndex == path' = None /\ files' = files

Unlink(b) ==
    /\ builder[b].at = "opened"
    /\ IF IsRefused(builder[b].name)
       THEN End(b, "name") /\ UNCHANGED <<files, path>>
       ELSE /\ UnlinkOldIndex
            /\ builder' = [builder EXCEPT ![b].at = "unlinked"]
            /\ failure' = failure
    /\ UNCHANGED <<versions, time, reader>>

\* db.open() creates the file, or opens the one that is there: another zindex may
\* have created it since.
OpenIndex(b) ==
    /\ builder[b].at = "unlinked"
    /\ path = None => Len(files) < MaxBuilds
    /\ files' = IF path = None THEN Append(files, EmptyFile) ELSE files
    /\ path' = IF path = None THEN Len(files') ELSE path
    /\ builder' = [builder EXCEPT ![b].at = "schema", ![b].file = path']
    /\ UNCHANGED <<versions, time, failure, reader>>

\* Another process holds the exclusive lock on a file: SQLITE_BUSY.
Busy(f) == \E b \in Builders : builder[b].exclusive /\ builder[b].file = f

\* Mutant: a statement is left out.
AfterNext(statement) == statement + 2

After(statement) == statement + 1

\* Mutant: size and time are taken when they are written, not together.
FstatAgain(stat) == Stat

\* The fstat() of init(), before the first of the rows that hold what it says.
Fstat(stat) == IF stat = NoMetadata THEN Stat ELSE stat

\* What a row adds to the file's metadata.
WithRow(metadata, statement, stat) ==
    CASE statement = "compressedSize" -> [metadata EXCEPT !.size = stat.size]
      [] statement = "compressedModTime" -> [metadata EXCEPT !.mtime = stat.mtime]
      [] OTHER -> metadata

\* Mutant: CREATE TABLE IF NOT EXISTS, INSERT OR IGNORE.
ExistsIsIgnored(statement, file) == FALSE

\* CREATE TABLE of a table, or INSERT of a primary key, that is there already.
Exists(statement, file) == statement \in file.done

\* One statement, committed at once.
Execute(b) ==
    /\ builder[b].at = "schema"
    /\ builder[b].statement <= Len(Statements)
    /\ LET statement == Statements[builder[b].statement]
           stat == IF statement \in {"compressedSize", "compressedModTime"}
                   THEN Fstat(builder[b].stat) ELSE builder[b].stat
           file == files[builder[b].file]
       IN  IF Exists(statement, file)
           THEN End(b, "exists") /\ UNCHANGED files
           ELSE /\ ~Busy(builder[b].file)
                /\ files' = [files EXCEPT ![builder[b].file] =
                                [file EXCEPT !.done = @ \cup {statement},
                                             !.metadata = WithRow(@, statement, stat),
                                             !.by = @ \cup {b}]]
                /\ builder' = [builder EXCEPT ![b].statement = After(@), ![b].stat = stat]
                /\ failure' = failure
    /\ UNCHANGED <<versions, time, path, reader>>

\* BEGIN TRANSACTION.
BeginTransaction(b) ==
    /\ builder[b].at = "schema"
    /\ builder[b].statement > Len(Statements)
    /\ builder' = [builder EXCEPT ![b].at = "reading"]
    /\ UNCHANGED <<versions, time, files, path, failure, reader>>

\* fread() of a part of the compressed file, as it is then.
ReadCompressed(b) ==
    /\ builder[b].at = "reading"
    /\ Current \notin builder[b].seen
    /\ builder' = [builder EXCEPT ![b].seen = @ \cup {Current}]
    /\ UNCHANGED <<versions, time, files, path, failure, reader>>

\* SQLite's cache is full, or END TRANSACTION begins: pages go to the file, and
\* nobody else can read it.
WritePages(b) ==
    /\ builder[b].at = "reading"
    /\ ~Busy(builder[b].file)
    /\ builder' = [builder EXCEPT ![b].exclusive = TRUE]
    /\ UNCHANGED <<versions, time, files, path, failure, reader>>

\* END TRANSACTION is done.
EndTransaction(b) ==
    /\ builder[b].at = "reading"
    /\ builder[b].exclusive
    /\ builder[b].seen # {}
    /\ LET file == files[builder[b].file]
       IN  files' = [files EXCEPT ![builder[b].file] =
                        [file EXCEPT !.content = builder[b].seen, !.by = @ \cup {b}]]
    /\ End(b, "none")
    /\ UNCHANGED <<versions, time, path, reader>>

\* An exception anywhere in init(), addIndexer() or build(), SQLITE_BUSY among them:
\* what the transaction has done is rolled back.
BuildFails(b) ==
    /\ builder[b].at # "off"
    /\ End(b, "none")
    /\ UNCHANGED <<versions, time, files, path, reader>>

\* A statement or the transaction of b is writing pages of its file.  (PRAGMA
\* application_id rewrites the header of any file with one write, which changes nothing.)
IsWriting(b) ==
    \/ builder[b].exclusive
    \/ /\ builder[b].at = "schema" /\ builder[b].statement <= Len(Statements)
       /\ ~Exists(Statements[builder[b].statement], files[builder[b].file])

\* The process is killed.  The rollback journal is in its memory, so what it has
\* written of a statement or of the transaction stays.
Killed(b) ==
    /\ builder[b].at # "off"
    /\ \/ files' = files
       \/ IsWriting(b) /\ files' = [files EXCEPT ![builder[b].file].torn = TRUE]
    /\ End(b, "none")
    /\ UNCHANGED <<versions, time, path, reader>>

-----------------------------------------------------------------------------
(* zq. *)

ReaderThrows == reader' = NoReader

File == files[reader.file]

\* Index::load(): the index is opened, which reads nothing yet.
Load ==
    /\ reader.at = "off"
    /\ path # None
    /\ \E force \in BOOLEAN :
          reader' = [NoReader EXCEPT !.at = "opened", !.file = path, !.force = force]
    /\ UNCHANGED <<versions, time, files, path, builder, failure>>

\* The line query is prepared, which needs its tables.
Prepare ==
    /\ reader.at = "opened"
    /\ \/ /\ Busy(reader.file) \/ ~({"LineOffsets", "AccessPoints"} \subseteq File.done) \/ File.torn
          /\ ReaderThrows
       \/ /\ ~Busy(reader.file)
          /\ {"LineOffsets", "AccessPoints"} \subseteq File.done
          /\ reader' = [reader EXCEPT !.at = "prepared"]
    /\ UNCHANGED <<versions, time, files, path, builder, failure>>

\* The metadata, or a warning: an exception here is caught and goes no further.
ReadMetadata ==
    /\ reader.at = "prepared"
    /\ \/ /\ Busy(reader.file) \/ File.torn
          /\ reader' = [reader EXCEPT !.at = "metadata"]
       \/ /\ ~Busy(reader.file)
          /\ reader' = [reader EXCEPT !.at = "metadata", !.metadata = File.metadata]
    /\ UNCHANGED <<versions, time, files, path, builder, failure>>

\* The average block size.
ReadBlockSize ==
    /\ reader.at = "metadata"
    /\ \/ (Busy(reader.file) \/ File.torn) /\ ReaderThrows
       \/ ~Busy(reader.file) /\ reader' = [reader EXCEPT !.at = "sized"]
    /\ UNCHANGED <<versions, time, files, path, builder, failure>>

\* Mutant: the time is not looked at.
DiffersInSize(metadata, stat) == metadata.size \notin {None, stat.size}

\* A row that is there and does not say what fstat() says.
Differs(metadata, stat) ==
    \/ metadata.size \notin {None, stat.size}
    \/ metadata.mtime \notin {None, stat.mtime}

\* init(force).
Check ==
    /\ reader.at = "sized"
    /\ IF Differs(reader.metadata, Stat) /\ ~reader.force
       THEN ReaderThrows
       ELSE reader' = [reader EXCEPT !.at = "loaded", !.version = Current]
    /\ UNCHANGED <<versions, time, files, path, builder, failure>>

Close ==
    /\ reader.at = "loaded"
    /\ reader' = NoReader
    /\ UNCHANGED <<versions, time, files, path, builder, failure>>

-----------------------------------------------------------------------------
Others == Modify \/ Tick

Builder(b) == StartBuild(b) \/ Unlink(b) \/ OpenIndex(b) \/ Execute(b)
                 \/ BeginTransaction(b) \/ ReadCompressed(b) \/ WritePages(b)
                 \/ EndTransaction(b) \/ BuildFails(b) \/ Killed(b)

Reader == Load \/ Prepare \/ ReadMetadata \/ ReadBlockSize \/ Check \/ Close

Next == Others \/ Reader \/ \E b \in Builders : Builder(b)

Spec == Init /\ [][Next]_vars

-----------------------------------------------------------------------------
Version == [size : Sizes, mtime : 1 .. MaxTime]
MaybeVersion == [size : Sizes \cup {None}, mtime : 0 .. MaxTime]
FileType ==
    [done : SUBSET {Statements[i] : i \in DOMAIN Statements}, metadata : MaybeVersion,
     content : SUBSET (1 .. MaxVersions), torn : BOOLEAN, by : SUBSET Builders]
BuilderType ==
    [at : {"off", "opened", "unlinked", "schema", "reading"}, name : {"plain", "uri"},
     file : 0 .. MaxBuilds, statement : 1 .. (Len(Statements) + 1),
     stat : Version \cup {NoMetadata}, seen : SUBSET (1 .. MaxVersions),
     exclusive : BOOLEAN, alone : BOOLEAN]
ReaderType ==
    [at : {"off", "opened", "prepared", "metadata", "sized", "loaded"},
     file : 0 .. MaxBuilds, force : BOOLEAN, metadata : MaybeVersion,
     version : 0 .. MaxVersions]

\* Every variable has its type, files that are used exist, and only a transaction
\* holds the lock.
TypeOK ==
    /\ versions \in Seq(Version) /\ Len(versions) \in 1 .. MaxVersions
    /\ time \in 1 .. MaxTime
    /\ files \in Seq(FileType) /\ Len(files) <= MaxBuilds
    /\ path \in 0 .. Len(files)
    /\ builder \in [Builders -> BuilderType]
    /\ \A b \in Builders :
          /\ builder[b].file <= Len(files)
          /\ builder[b].at \in {"schema", "reading"} <=> builder[b].file # None
          /\ builder[b].exclusive => builder[b].at = "reading"
    /\ failure \in [Builders -> {"none", "name", "exists"}]
    /\ reader \in ReaderType
    /\ reader.file <= Len(files) /\ (reader.at # "off" => reader.file # None)

IsWhole(file) == file.content # {} /\ ~file.torn

\* What init(force) is for: a whole index that zq loads without --force, with its
\* metadata read, was built from the file as it was when it was checked, whatever
\* was changed before, during or after the build, unless an earlier version had
\* the same size and was of the same second.
LoadedIndexIsOfThisFile ==
    (/\ reader.at = "loaded" /\ ~reader.force /\ reader.metadata # NoMetadata
     /\ IsWhole(File)
     /\ reader.version = Current)
        => \/ File.content = {Current}
           \/ \E v \in 1 .. (Current - 1) : versions[v] = Stat

\* Whatever fails, dies or changes on the way, an index that has rows has the
\* metadata to check them with: size and time, of one version of the file.
MetadataIsOfOneVersion ==
    \A f \in DOMAIN files :
        IsWhole(files[f]) => \E v \in DOMAIN versions : versions[v] = files[f].metadata

\* However many zindex work on one path, no index file has the work of two: the first
\* statement that succeeds decides whose it is, and the others fail at it (the unlink()
\* and the CREATE TABLEs of Builder::Impl::init()).  Whatever an earlier build has left,
\* whole, empty or torn, does not stop one that runs alone.
OneBuildPerIndex ==
    /\ \A f \in DOMAIN files : Cardinality(files[f].by) <= 1
    /\ \A b \in Builders : failure[b] = "exists" => ~builder[b].alone

\* A rebuild does not touch an index that is whole: who has it open can go on.
WholeIndexIsNotTouched ==
    [][\A f \in DOMAIN files : IsWhole(files[f]) => files'[f] = files[f]]_vars

\* "By default zindex creates an index of file.gz.zindex" (README.md:25): no build
\* is refused for the name of its index.
NameIsAccepted == \A b \in Builders : failure[b] # "name"
=============================================================================
