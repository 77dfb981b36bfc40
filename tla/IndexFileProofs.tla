-------------------------- MODULE IndexFileProofs --------------------------
(***************************************************************************)
(* The life of an index file, proved for any number of zindex processes at *)
(* once, any number of builds and any history of the compressed file.      *)
(***************************************************************************)
EXTENDS IndexFile, FiniteSetTheorems, SequenceTheorems, TLAPS

\* The compressed file had this size and time before anything in `read` was read.
StatBefore(stat, read) ==
    \E v \in DOMAIN versions : versions[v] = stat /\ \A r \in read : v <= r

\* A file nobody has written to is empty; what one zindex has written begins with the
\* first statement, and content comes after all of them.
FileInv(file) ==
    /\ file.by = {} => file.done = {}
    /\ file.by # {} => "AccessPoints" \in file.done /\ \E b \in Builders : file.by = {b}
    /\ file.content \subseteq DOMAIN versions
    /\ file.content # {} => "LineOffsets" \in file.done
    /\ "LineOffsets" \in file.done => StatBefore(file.metadata, file.content)

Before(statement) == {Statements[i] : i \in 1 .. (statement - 1)}

\* A zindex that has executed a statement has its file for itself, and the file has
\* what it has executed.
BuilderInv(b) ==
    LET zindex == builder[b]
        file == files[builder[b].file]
    IN  /\ zindex.at \notin {"schema", "reading"} => zindex.statement = 1
        /\ zindex.statement > 1 =>
              file.by = {b} /\ file.content = {} /\ file.done = Before(zindex.statement)
        /\ zindex.statement > 3 =>
              zindex.stat # NoMetadata /\ file.metadata.size = zindex.stat.size
        /\ zindex.statement > 4 => file.metadata = zindex.stat
        /\ zindex.stat # NoMetadata => StatBefore(zindex.stat, zindex.seen)
        /\ zindex.seen \subseteq DOMAIN versions
        /\ zindex.at = "reading" => zindex.statement > Len(Statements)
        /\ zindex.at # "reading" => zindex.seen = {}

\* A zindex that runs alone has what it finds to itself.
AloneInv(b) ==
    /\ failure[b] = "exists" => ~builder[b].alone /\ builder[b].at = "off"
    /\ (builder[b].alone /\ builder[b].at # "off") =>
          /\ \A c \in Builders \ {b} : builder[c].at = "off"
          /\ builder[b].at = "unlinked" => path = None
          /\ (builder[b].at = "schema" /\ builder[b].statement = 1) =>
                files[builder[b].file].done = {}

\* zq has read all of the metadata or none, and what it has loaded agrees with it.
ReaderInv ==
    /\ reader.at \notin {"off", "opened"} => "LineOffsets" \in File.done
    /\ reader.metadata # NoMetadata =>
          reader.at \notin {"off", "opened"} /\ reader.metadata = File.metadata
    /\ (reader.at = "loaded" /\ ~reader.force) =>
          reader.version \in DOMAIN versions /\ ~Differs(reader.metadata, versions[reader.version])

IInv ==
    /\ TypeOK
    /\ \A f \in DOMAIN files : FileInv(files[f])
    /\ \A b \in Builders : BuilderInv(b) /\ AloneInv(b)
    /\ ReaderInv

-----------------------------------------------------------------------------
(* Types.                                                                   *)

LEMMA ConstantFacts ==
    /\ MaxVersions \in Nat \ {0} /\ MaxTime \in Nat \ {0} /\ MaxBuilds \in Nat \ {0}
    /\ Sizes \subseteq Nat /\ None \notin Sizes /\ None = 0
    /\ Len(Statements) = 5
    /\ NoMetadata \in MaybeVersion /\ NoMetadata \notin Version /\ Version \subseteq MaybeVersion
BY BoundsAssumption DEF None, Statements, NoMetadata, MaybeVersion, Version

LEMMA IdleIsTyped == Idle \in BuilderType /\ NoReader \in ReaderType /\ EmptyFile \in FileType
BY ConstantFacts DEF Idle, NoReader, EmptyFile, BuilderType, ReaderType, FileType

\* A process that ends leaves the others as they are.
LEMMA EndIsTyped ==
    ASSUME TypeOK, NEW b \in Builders, NEW why \in {"none", "name", "exists"}, End(b, why)
    PROVE  /\ builder' \in [Builders -> BuilderType]
           /\ failure' \in [Builders -> {"none", "name", "exists"}]
           /\ builder'[b] = [Idle EXCEPT !.alone = builder[b].alone]
           /\ \A c \in Builders \ {b} : builder'[c] = builder[c] /\ failure'[c] = failure[c]
           /\ failure'[b] = why
<1>1. [Idle EXCEPT !.alone = builder[b].alone] \in BuilderType
  <2>1. builder[b].alone \in BOOLEAN
    BY DEF TypeOK, BuilderType
  <2>2. Idle \in BuilderType
    BY IdleIsTyped
  <2> QED
    BY <2>1, <2>2 DEF BuilderType
<1> QED
  BY <1>1 DEF End, TypeOK

LEMMA InitIsTyped == Init => TypeOK
<1> SUFFICES ASSUME Init PROVE TypeOK
  OBVIOUS
<1>1. PICK s \in Sizes : versions = <<[size |-> s, mtime |-> 1]>>
  BY DEF Init
<1>2. versions \in Seq(Version) /\ Len(versions) \in 1 .. MaxVersions
  BY <1>1, ConstantFacts DEF Version
<1>3. Idle \in BuilderType /\ NoReader \in ReaderType
  BY IdleIsTyped
<1>4. Idle.file = 0 /\ Idle.at = "off" /\ ~Idle.exclusive /\ NoReader.at = "off" /\ NoReader.file = 0
  BY ConstantFacts DEF Idle, NoReader
<1> QED
  BY <1>2, <1>3, <1>4, ConstantFacts DEF Init, TypeOK

\* What TypeOK says of one zindex.
Sound(zindex) ==
    /\ zindex \in BuilderType
    /\ zindex.at \in {"schema", "reading"} <=> zindex.file # None
    /\ zindex.exclusive => zindex.at = "reading"

\* A step of one zindex.
LEMMA BuilderStepIsTyped ==
    ASSUME TypeOK, NEW b \in Builders,
           files' \in Seq(FileType), Len(files) <= Len(files'), Len(files') <= MaxBuilds,
           path' \in 0 .. Len(files'),
           failure' \in [Builders -> {"none", "name", "exists"}],
           versions' = versions, time' = time, reader' = reader
    PROVE  \A zindex :
              /\ Sound(zindex) /\ zindex.file <= Len(files')
              /\ builder' = [builder EXCEPT ![b] = zindex]
              => TypeOK'
<1> SUFFICES ASSUME NEW zindex, Sound(zindex), zindex.file <= Len(files'),
                    builder' = [builder EXCEPT ![b] = zindex]
             PROVE  TypeOK'
  OBVIOUS
<1>1. Len(files) \in Nat /\ Len(files') \in Nat
  BY DEF TypeOK
<1>2. /\ builder' \in [Builders -> BuilderType]
      /\ builder'[b] = zindex
      /\ \A c \in Builders \ {b} : builder'[c] = builder[c]
  BY DEF TypeOK, Sound
<1>3. ASSUME NEW c \in Builders
      PROVE  /\ builder'[c].file <= Len(files')
             /\ builder'[c].at \in {"schema", "reading"} <=> builder'[c].file # None
             /\ builder'[c].exclusive => builder'[c].at = "reading"
  <2>1. CASE c = b
    BY <1>2, <2>1 DEF Sound
  <2>2. CASE c # b
    <3>1. builder'[c] = builder[c] /\ builder[c].file <= Len(files)
      BY <1>2, <2>2 DEF TypeOK
    <3>2. builder[c].file \in Nat
      BY <1>2, <3>1, ConstantFacts DEF BuilderType
    <3> QED
      BY <1>1, <3>1, <3>2 DEF TypeOK
  <2> QED
    BY <2>1, <2>2
<1>4. reader'.file <= Len(files') /\ (reader'.at # "off" => reader'.file # None)
  <2>1. reader.file \in Nat
    BY ConstantFacts DEF TypeOK, ReaderType
  <2> QED
    BY <1>1, <2>1 DEF TypeOK
<1>5. /\ versions' \in Seq(Version) /\ Len(versions') \in 1 .. MaxVersions
      /\ time' \in 1 .. MaxTime /\ reader' \in ReaderType
  BY DEF TypeOK
<1> QED
  BY <1>2, <1>3, <1>4, <1>5 DEF TypeOK

LEMMA EndedIsSound ==
    ASSUME TypeOK, NEW b \in Builders
    PROVE  Sound([Idle EXCEPT !.alone = builder[b].alone])
<1>1. builder[b].alone \in BOOLEAN
  BY DEF TypeOK, BuilderType
<1>2. /\ Idle \in BuilderType /\ Idle.file = None /\ Idle.at = "off" /\ Idle.exclusive = FALSE
  BY IdleIsTyped DEF Idle
<1> QED
  BY <1>1, <1>2 DEF BuilderType, Sound

\* The file of a zindex that has one.
LEMMA FileExists ==
    ASSUME TypeOK, NEW b \in Builders, builder[b].at \in {"schema", "reading"}
    PROVE  /\ builder[b].file \in DOMAIN files
           /\ files[builder[b].file] \in FileType
<1>1. builder[b].file \in Nat /\ builder[b].file # 0 /\ builder[b].file <= Len(files)
  BY ConstantFacts DEF TypeOK, BuilderType
<1>2. builder[b].file \in 1 .. Len(files)
  BY <1>1 DEF TypeOK
<1> QED
  BY <1>2 DEF TypeOK

\* A new value for one of the files.
LEMMA FilesChange ==
    ASSUME TypeOK, NEW f \in DOMAIN files, NEW file \in FileType
    PROVE  /\ [files EXCEPT ![f] = file] \in Seq(FileType)
           /\ Len([files EXCEPT ![f] = file]) = Len(files)
           /\ DOMAIN [files EXCEPT ![f] = file] = DOMAIN files
           /\ \A g \in DOMAIN files : [files EXCEPT ![f] = file][g] = IF g = f THEN file ELSE files[g]
<1>1. files \in Seq(FileType) /\ f \in 1 .. Len(files)
  BY DEF TypeOK
<1> QED
  BY <1>1, ExceptSeq

\* What is in a step of a zindex beside its own state.
LEMMA BuilderIsTyped ==
    ASSUME TypeOK, NEW b \in Builders, Builder(b)
    PROVE  TypeOK'
<1> DEFINE Ended == [Idle EXCEPT !.alone = builder[b].alone]
<1>1. Sound(builder[b])
  BY DEF TypeOK, Sound
<1>2. Sound(Ended) /\ Ended.file = 0
  BY EndedIsSound, ConstantFacts DEF Idle
<1>3. /\ Len(files) \in Nat /\ Len(files) <= MaxBuilds /\ path \in 0 .. Len(files)
      /\ files \in Seq(FileType) /\ failure \in [Builders -> {"none", "name", "exists"}]
      /\ builder[b].file <= Len(files)
  BY DEF TypeOK
<1>4. ASSUME NEW why \in {"none", "name", "exists"}, End(b, why)
      PROVE  /\ builder' = [builder EXCEPT ![b] = Ended]
             /\ failure' \in [Builders -> {"none", "name", "exists"}]
  BY <1>4, EndIsTyped DEF End
<1> DEFINE Quiet == versions' = versions /\ time' = time /\ reader' = reader
<1>0. ASSUME files' \in Seq(FileType), Len(files') = Len(files), path' \in 0 .. Len(files), Quiet
      PROVE  /\ failure' = failure =>
                 \A zindex : /\ Sound(zindex) /\ zindex.file = builder[b].file
                             /\ builder' = [builder EXCEPT ![b] = zindex]
                             => TypeOK'
             /\ \A why \in {"none", "name", "exists"} : End(b, why) => TypeOK'
  <2>1. /\ Len(files) <= Len(files') /\ Len(files') <= MaxBuilds /\ path' \in 0 .. Len(files')
        /\ builder[b].file <= Len(files') /\ 0 <= Len(files')
    BY <1>0, <1>3
  <2>2. ASSUME failure' \in [Builders -> {"none", "name", "exists"}]
        PROVE  \A zindex : /\ Sound(zindex) /\ zindex.file <= Len(files')
                           /\ builder' = [builder EXCEPT ![b] = zindex]
                           => TypeOK'
    BY <1>0, <2>1, <2>2, BuilderStepIsTyped
  <2>3. failure' = failure => failure' \in [Builders -> {"none", "name", "exists"}]
    BY <1>3
  <2>4. ASSUME NEW why \in {"none", "name", "exists"}, End(b, why) PROVE TypeOK'
    <3> HIDE DEF Ended
    <3> QED
      BY <1>2, <1>4, <2>1, <2>2, <2>4
  <2> HIDE DEF Quiet
  <2> QED
    BY <2>1, <2>2, <2>3, <2>4
<1>5. CASE StartBuild(b)
  <2> DEFINE running == {c \in Builders : builder[c].at # "off"}
             solo == running = {}
  <2>1. PICK name \in IndexNames : builder' = [c \in Builders |->
                  CASE c = b -> [Idle EXCEPT !.at = "opened", !.name = name, !.alone = solo]
                    [] c \in running -> [builder[c] EXCEPT !.alone = FALSE]
                    [] OTHER -> builder[c]]
    BY <1>5 DEF StartBuild
  <2> DEFINE first == [Idle EXCEPT !.at = "opened", !.name = name, !.alone = solo]
  <2>2. Sound(first) /\ first.file = 0
    <3>1. name \in {"plain", "uri"} /\ solo \in BOOLEAN
      BY NamesAssumption
    <3>2. Idle \in BuilderType /\ Idle.file = 0 /\ Idle.exclusive = FALSE
      BY IdleIsTyped, ConstantFacts DEF Idle
    <3> HIDE DEF solo
    <3> QED
      BY <3>1, <3>2, ConstantFacts DEF Sound, BuilderType
  <2> HIDE DEF first, solo
  <2>0. b \notin running
    BY <1>5 DEF StartBuild
  <2>3. ASSUME NEW c \in Builders
        PROVE  Sound(builder'[c]) /\ builder'[c].file <= Len(files)
    <3>1. Sound(builder[c]) /\ builder[c].file <= Len(files)
      BY DEF TypeOK, Sound
    <3>2. CASE c = b
      <4>1. builder'[c] = first
        BY <2>0, <2>1, <3>2 DEF first
      <4> QED
        BY <1>3, <2>2, <4>1
    <3>3. CASE c # b /\ c \in running
      <4>1. builder'[c] = [builder[c] EXCEPT !.alone = FALSE]
        BY <2>1, <3>3
      <4> QED
        BY <3>1, <4>1 DEF Sound, BuilderType
    <3>4. CASE c # b /\ c \notin running
      BY <2>1, <3>1, <3>4
    <3> QED
      BY <3>2, <3>3, <3>4
  <2>4. builder' \in [Builders -> BuilderType]
    <3>1. DOMAIN builder' = Builders /\ builder' = [c \in Builders |-> builder'[c]]
      BY <2>1
    <3> QED
      BY <2>3, <3>1 DEF Sound
  <2>5. failure' \in [Builders -> {"none", "name", "exists"}]
    BY <1>3, <1>5 DEF StartBuild
  <2>6. UNCHANGED <<versions, time, files, path, reader>>
    BY <1>5 DEF StartBuild
  <2> QED
    BY <2>3, <2>4, <2>5, <2>6 DEF Sound, TypeOK
<1>6. CASE Unlink(b)
  <2>1. files' = files /\ path' \in 0 .. Len(files) /\ Quiet
    BY <1>3, <1>6, ConstantFacts DEF Unlink, UnlinkOldIndex
  <2>2. CASE End(b, "name")
    BY <1>0, <1>3, <2>1, <2>2
  <2>3. CASE builder' = [builder EXCEPT ![b].at = "unlinked"] /\ failure' = failure
    <3> DEFINE next == [builder[b] EXCEPT !.at = "unlinked"]
    <3>1. builder[b].at = "opened"
      BY <1>6 DEF Unlink
    <3>2. Sound(next) /\ next.file = builder[b].file
      BY <1>1, <3>1 DEF Sound, BuilderType
    <3>3. builder' = [builder EXCEPT ![b] = next]
      BY <2>3
    <3> HIDE DEF next, Quiet
    <3> QED
      BY <1>0, <1>3, <2>1, <2>3, <3>2, <3>3
  <2> QED
    BY <1>6, <2>2, <2>3 DEF Unlink
<1>7. CASE OpenIndex(b)
  <2>1. /\ files' \in Seq(FileType) /\ Len(files') \in Nat
        /\ Len(files) <= Len(files') /\ Len(files') <= MaxBuilds
        /\ path' \in 1 .. Len(files')
    <3>1. CASE path = None
      <4>1. files' = Append(files, EmptyFile) /\ path' = Len(files') /\ Len(files) < MaxBuilds
        BY <1>7, <3>1 DEF OpenIndex
      <4>2. files' \in Seq(FileType) /\ Len(files') = Len(files) + 1
        BY <1>3, <4>1, IdleIsTyped, AppendProperties
      <4> QED
        BY <1>3, <4>1, <4>2, ConstantFacts
    <3>2. CASE path # None
      <4>1. files' = files /\ path' = path
        BY <1>7, <3>2 DEF OpenIndex
      <4> QED
        BY <1>3, <3>2, <4>1, ConstantFacts
    <3> QED
      BY <3>1, <3>2
  <2> DEFINE next == [builder[b] EXCEPT !.at = "schema", !.file = path']
  <2>2. Sound(next) /\ next.file = path'
    <3>1. path' \in 0 .. MaxBuilds /\ path' # None
      BY <2>1, ConstantFacts
    <3>2. builder[b].at = "unlinked"
      BY <1>7 DEF OpenIndex
    <3> QED
      BY <1>1, <3>1, <3>2 DEF Sound, BuilderType
  <2>3. /\ builder' = [builder EXCEPT ![b] = next] /\ failure' = failure
        /\ versions' = versions /\ time' = time /\ reader' = reader
    BY <1>7 DEF OpenIndex
  <2> HIDE DEF next
  <2>4. path' \in 0 .. Len(files') /\ next.file <= Len(files')
    BY <2>1, <2>2
  <2> QED
    BY <1>3, <2>1, <2>2, <2>3, <2>4, BuilderStepIsTyped
<1>8. CASE Execute(b)
  <2> DEFINE zindex == builder[b]
             file == files[zindex.file]
             statement == Statements[zindex.statement]
             stat == IF statement \in {"compressedSize", "compressedModTime"}
                     THEN Fstat(zindex.stat) ELSE zindex.stat
  <2>1. zindex.file \in DOMAIN files /\ file \in FileType
    BY <1>8, FileExists DEF Execute
  <2>2. path' \in 0 .. Len(files) /\ Quiet
    BY <1>3, <1>8 DEF Execute
  <2>3. CASE Exists(statement, file)
    <3>1. End(b, "exists") /\ files' = files
      BY <1>8, <2>3 DEF Execute
    <3> QED
      BY <1>0, <1>3, <2>2, <3>1
  <2>4. CASE ~Exists(statement, file)
    <3> DEFINE newFile == [file EXCEPT !.done = @ \cup {statement},
                                       !.metadata = WithRow(@, statement, stat),
                                       !.by = @ \cup {b}]
               next == [zindex EXCEPT !.statement = After(@), !.stat = stat]
    <3>1. files' = [files EXCEPT ![zindex.file] = newFile]
      BY <1>8, <2>4 DEF Execute
    <3>2. builder' = [builder EXCEPT ![b] = next] /\ failure' = failure
      BY <1>8, <2>4 DEF Execute
    <3>3. /\ stat \in Version \cup {NoMetadata} /\ stat \in MaybeVersion
          /\ statement \in {"compressedSize", "compressedModTime"} => stat \in Version
      <4>1. zindex.stat \in Version \cup {NoMetadata}
        BY <1>1 DEF Sound, BuilderType
      <4>2. Stat \in Version
        BY DEF TypeOK, Stat, Current
      <4> QED
        BY <4>1, <4>2, ConstantFacts DEF Fstat
    <3>4. WithRow(file.metadata, statement, stat) \in MaybeVersion
      <4>1. file.metadata \in MaybeVersion
        BY <2>1 DEF FileType
      <4> HIDE DEF statement, stat, file
      <4>2. stat.size \in Sizes \cup {None} /\ stat.mtime \in 0 .. MaxTime
        BY <3>3 DEF MaybeVersion
      <4> QED
        BY <4>1, <4>2 DEF WithRow, MaybeVersion
    <3>5. zindex.statement \in DOMAIN Statements
      <4>1. zindex.statement \in 1 .. 6 /\ zindex.statement <= 5
        BY <1>1, <1>8, ConstantFacts DEF Sound, BuilderType, Execute
      <4> QED
        BY <4>1 DEF Statements
    <3>6. newFile \in FileType
      <4>1. file.done \cup {statement} \in SUBSET {Statements[i] : i \in DOMAIN Statements}
        BY <2>1, <3>5 DEF FileType
      <4>2. file.by \cup {b} \in SUBSET Builders
        BY <2>1 DEF FileType
      <4> HIDE DEF statement, stat, file
      <4> QED
        BY <2>1, <3>4, <4>1, <4>2 DEF FileType
    <3>7. Sound(next) /\ next.file = zindex.file
      <4>1. zindex.statement \in 1 .. 6 /\ zindex.statement <= 5
        BY <1>1, <1>8, ConstantFacts DEF Sound, BuilderType, Execute
      <4>2. After(zindex.statement) \in 1 .. (Len(Statements) + 1)
        BY <4>1, ConstantFacts DEF After
      <4> HIDE DEF stat
      <4> QED
        BY <1>1, <3>3, <4>2 DEF Sound, BuilderType
    <3>8. files' \in Seq(FileType) /\ Len(files') = Len(files)
      BY <2>1, <3>1, <3>6, FilesChange
    <3> HIDE DEF next, newFile, Quiet
    <3> QED
      BY <1>0, <1>3, <2>2, <3>2, <3>7, <3>8
  <2> QED
    BY <2>3, <2>4
<1>9. CASE BeginTransaction(b)
  <2> DEFINE next == [builder[b] EXCEPT !.at = "reading"]
  <2>1. builder' = [builder EXCEPT ![b] = next] /\ builder[b].at = "schema"
    BY <1>9 DEF BeginTransaction
  <2>3. Sound(next) /\ next.file = builder[b].file
    BY <1>1, <2>1 DEF Sound, BuilderType
  <2>4. files' = files /\ path' = path /\ failure' = failure /\ Quiet
    BY <1>9 DEF BeginTransaction
  <2> HIDE DEF next, Quiet
  <2> QED
    BY <1>0, <1>3, <2>1, <2>3, <2>4
<1>10. CASE ReadCompressed(b)
  <2> DEFINE next == [builder[b] EXCEPT !.seen = @ \cup {Current}]
  <2>1. builder' = [builder EXCEPT ![b] = next] /\ builder[b].at = "reading"
    BY <1>10 DEF ReadCompressed
  <2>2. Current \in 1 .. MaxVersions
    BY ConstantFacts DEF TypeOK, Current
  <2>3. Sound(next) /\ next.file = builder[b].file
    BY <1>1, <2>1, <2>2 DEF Sound, BuilderType
  <2>4. files' = files /\ path' = path /\ failure' = failure /\ Quiet
    BY <1>10 DEF ReadCompressed
  <2> HIDE DEF next, Quiet
  <2> QED
    BY <1>0, <1>3, <2>1, <2>3, <2>4
<1>11. CASE WritePages(b)
  <2> DEFINE next == [builder[b] EXCEPT !.exclusive = TRUE]
  <2>1. builder' = [builder EXCEPT ![b] = next] /\ builder[b].at = "reading"
    BY <1>11 DEF WritePages
  <2>3. Sound(next) /\ next.file = builder[b].file
    BY <1>1, <2>1 DEF Sound, BuilderType
  <2>4. files' = files /\ path' = path /\ failure' = failure /\ Quiet
    BY <1>11 DEF WritePages
  <2> HIDE DEF next, Quiet
  <2> QED
    BY <1>0, <1>3, <2>1, <2>3, <2>4
<1>12. CASE EndTransaction(b)
  <2> DEFINE f == builder[b].file
             newFile == [files[f] EXCEPT !.content = builder[b].seen, !.by = @ \cup {b}]
  <2>1. f \in DOMAIN files /\ files[f] \in FileType
    BY <1>12, FileExists DEF EndTransaction
  <2>2. newFile \in FileType
    <3>1. builder[b].seen \in SUBSET (1 .. MaxVersions)
      BY <1>1 DEF Sound, BuilderType
    <3> QED
      BY <2>1, <3>1 DEF FileType
  <2>3. files' = [files EXCEPT ![f] = newFile]
    BY <1>12 DEF EndTransaction
  <2>4. files' \in Seq(FileType) /\ Len(files') = Len(files)
    BY <2>1, <2>2, <2>3, FilesChange
  <2>5. path' \in 0 .. Len(files) /\ Quiet /\ End(b, "none")
    BY <1>3, <1>12 DEF EndTransaction
  <2> QED
    BY <1>0, <2>4, <2>5
<1>13. CASE BuildFails(b)
  <2>1. files' = files /\ path' = path /\ Quiet /\ End(b, "none")
    BY <1>13 DEF BuildFails
  <2> QED
    BY <1>0, <1>3, <2>1
<1>14. CASE Killed(b)
  <2>1. files' \in Seq(FileType) /\ Len(files') = Len(files)
    <3>1. CASE files' = files
      BY <1>3, <3>1
    <3>2. CASE IsWriting(b) /\ files' = [files EXCEPT ![builder[b].file].torn = TRUE]
      <4>1. builder[b].at \in {"schema", "reading"}
        BY <1>1, <3>2 DEF IsWriting, Sound
      <4>2. builder[b].file \in DOMAIN files /\ files[builder[b].file] \in FileType
        BY <4>1, FileExists
      <4> DEFINE newFile == [files[builder[b].file] EXCEPT !.torn = TRUE]
      <4>3. newFile \in FileType /\ files' = [files EXCEPT ![builder[b].file] = newFile]
        BY <3>2, <4>2 DEF FileType
      <4> QED
        BY <4>2, <4>3, FilesChange
    <3> QED
      BY <1>14, <3>1, <3>2 DEF Killed
  <2>2. path' \in 0 .. Len(files) /\ Quiet /\ End(b, "none")
    BY <1>3, <1>14 DEF Killed
  <2> QED
    BY <1>0, <2>1, <2>2
<1> QED
  BY <1>5, <1>6, <1>7, <1>8, <1>9, <1>10, <1>11, <1>12, <1>13, <1>14 DEF Builder

\* The file zq has opened.
LEMMA ReaderFileExists ==
    ASSUME TypeOK, reader.at # "off"
    PROVE  reader.file \in DOMAIN files /\ File \in FileType
<1>1. reader.file \in Nat /\ reader.file # 0 /\ reader.file <= Len(files)
  BY ConstantFacts DEF TypeOK, ReaderType
<1>2. files \in Seq(FileType) /\ reader.file \in 1 .. Len(files)
  BY <1>1 DEF TypeOK
<1> QED
  BY <1>2 DEF File

LEMMA ReaderIsTyped ==
    ASSUME TypeOK, Reader
    PROVE  TypeOK'
<1>1. UNCHANGED <<versions, time, files, path, builder, failure>>
  BY DEF Reader, Load, Prepare, ReadMetadata, ReadBlockSize, Check, Close
<1>2. reader \in ReaderType /\ reader.file <= Len(files) /\ (reader.at # "off" => reader.file # None)
  BY DEF TypeOK
<1>3. /\ NoReader \in ReaderType /\ NoReader.file = 0 /\ NoReader.at = "off"
      /\ Len(files) \in Nat /\ Len(files) <= MaxBuilds /\ path \in 0 .. Len(files)
  BY IdleIsTyped, ConstantFacts DEF NoReader, TypeOK
<1>4. /\ reader' \in ReaderType /\ reader'.file <= Len(files)
      /\ reader'.at # "off" => reader'.file # None
  <2>1. CASE reader' = NoReader
    BY <1>3, <2>1
  <2>2. CASE Load
    <3>1. path \in 0 .. MaxBuilds /\ path # None
      BY <1>3, <2>2, ConstantFacts DEF Load
    <3>2. PICK force \in BOOLEAN :
             reader' = [NoReader EXCEPT !.at = "opened", !.file = path, !.force = force]
      BY <2>2 DEF Load
    <3>3. reader' \in ReaderType /\ reader'.file = path
      BY <1>3, <3>1, <3>2 DEF ReaderType
    <3> QED
      BY <1>3, <3>1, <3>3
  <2>3. CASE Prepare /\ reader' = [reader EXCEPT !.at = "prepared"]
    BY <1>2, <2>3 DEF Prepare, ReaderType
  <2>4. CASE ReadMetadata
    <3>1. File.metadata \in MaybeVersion
      BY <2>4, ReaderFileExists DEF ReadMetadata, FileType
    <3> QED
      BY <1>2, <2>4, <3>1 DEF ReadMetadata, ReaderType
  <2>5. CASE ReadBlockSize /\ reader' = [reader EXCEPT !.at = "sized"]
    BY <1>2, <2>5 DEF ReadBlockSize, ReaderType
  <2>6. CASE Check /\ reader' = [reader EXCEPT !.at = "loaded", !.version = Current]
    <3>1. Current \in 0 .. MaxVersions
      BY ConstantFacts DEF TypeOK, Current
    <3> QED
      BY <1>2, <2>6, <3>1 DEF Check, ReaderType
  <2> QED
    BY <2>1, <2>2, <2>3, <2>4, <2>5, <2>6
       DEF Reader, Prepare, ReadBlockSize, Check, Close, ReaderThrows
<1> QED
  BY <1>1, <1>4 DEF TypeOK

LEMMA OthersAreTyped ==
    ASSUME TypeOK, Others
    PROVE  TypeOK'
<1>1. CASE Modify
  <2>1. PICK s \in Sizes : versions' = Append(versions, [size |-> s, mtime |-> time])
    BY <1>1 DEF Modify
  <2>2. [size |-> s, mtime |-> time] \in Version
    BY DEF TypeOK, Version
  <2>3. versions' \in Seq(Version) /\ Len(versions') = Len(versions) + 1
    BY <2>1, <2>2, AppendProperties DEF TypeOK
  <2>4. Len(versions') \in 1 .. MaxVersions
    BY <1>1, <2>3, ConstantFacts DEF TypeOK, Modify, Current
  <2> QED
    BY <1>1, <2>3, <2>4 DEF Modify, TypeOK
<1>2. CASE Tick
  <2>1. time' \in 1 .. MaxTime
    BY <1>2, ConstantFacts DEF Tick, TypeOK
  <2> QED
    BY <1>2, <2>1 DEF Tick, TypeOK
<1> QED
  BY <1>1, <1>2 DEF Others

LEMMA NextIsTyped == TypeOK /\ [Next]_vars => TypeOK'
<1> SUFFICES ASSUME TypeOK, [Next]_vars PROVE TypeOK'
  OBVIOUS
<1>1. CASE UNCHANGED vars
  BY <1>1 DEF vars, TypeOK
<1> QED
  BY <1>1, BuilderIsTyped, ReaderIsTyped, OthersAreTyped DEF Next

\* Every variable keeps its type, the files that are used exist, and only a transaction
\* holds the lock of a file (Index.cpp, Builder::Impl::init() and build()).
THEOREM TypeCorrect == Spec => []TypeOK
<1> QED
  BY InitIsTyped, NextIsTyped, PTL DEF Spec

-----------------------------------------------------------------------------
(* A zindex has its file for itself.                                        *)

LEMMA InTurn ==
    ASSUME NEW i \in 1 .. 6
    PROVE  /\ "LineOffsets" \in Before(i) <=> i = 6
           /\ "AccessPoints" \in Before(i) <=> i > 1
           /\ i = 1 => Before(i) = {}
           /\ i < 6 => /\ Before(i + 1) = Before(i) \cup {Statements[i]}
                       /\ Statements[i] \notin Before(i)
<1>1. /\ Statements[1] = "AccessPoints" /\ Statements[2] = "Metadata"
      /\ Statements[3] = "compressedSize" /\ Statements[4] = "compressedModTime"
      /\ Statements[5] = "LineOffsets"
  BY DEF Statements
<1>2. \A s : s \in Before(i) <=> \E j \in 1 .. (i - 1) : s = Statements[j]
  BY DEF Before
<1>3. \A s : s \in Before(i + 1) <=> \E j \in 1 .. i : s = Statements[j]
  BY DEF Before
<1>4. "LineOffsets" \in Before(i) <=> i = 6
  BY <1>1, <1>2
<1>5. "AccessPoints" \in Before(i) <=> i > 1
  BY <1>1, <1>2
<1>6. i = 1 => Before(i) = {}
  BY <1>2
<1>7. i < 6 => Before(i + 1) = Before(i) \cup {Statements[i]}
  BY <1>2, <1>3
<1>8. i < 6 => Statements[i] \notin Before(i)
  BY <1>1, <1>2
<1> QED
  BY <1>4, <1>5, <1>6, <1>7, <1>8

\* What b can count on before it writes to its file.
Own(b) ==
    LET zindex == builder[b]
        file == files[zindex.file]
    IN  /\ zindex.file \in DOMAIN files
        /\ file.done = Before(zindex.statement)
        /\ file.content = {}
        /\ file.by \subseteq {b}
        /\ \A c \in Builders \ {b} : builder[c].file = zindex.file => builder[c].statement = 1

LEMMA FileIsOwn ==
    ASSUME IInv, NEW b \in Builders, builder[b].at \in {"schema", "reading"},
           builder[b].statement > 1 \/ ~Exists(Statements[1], files[builder[b].file])
    PROVE  Own(b)
<1> DEFINE f == builder[b].file
<1>1. f \in DOMAIN files
  BY FileExists DEF IInv
<1>2. FileInv(files[f]) /\ BuilderInv(b) /\ \A c \in Builders : BuilderInv(c)
  BY <1>1 DEF IInv
<1>3. /\ builder[b].statement \in 1 .. 6
      /\ \A c \in Builders : builder[c].statement \in 1 .. 6
  BY ConstantFacts DEF IInv, TypeOK, BuilderType
<1>4. /\ files[f].done = Before(builder[b].statement) /\ files[f].content = {}
      /\ files[f].by \subseteq {b}
      /\ builder[b].statement > 1 => files[f].by = {b}
  <2>1. CASE builder[b].statement > 1
    BY <1>2, <2>1 DEF BuilderInv
  <2>2. CASE builder[b].statement = 1
    <3>1. "AccessPoints" \notin files[f].done
      BY <2>2 DEF Exists, Statements
    <3>2. files[f].by = {} /\ files[f].done = {}
      BY <1>2, <3>1 DEF FileInv
    <3>3. files[f].content = {}
      BY <1>2, <3>2 DEF FileInv
    <3> QED
      BY <1>3, <2>2, <3>2, <3>3, InTurn
  <2> QED
    BY <1>3, <2>1, <2>2
<1>5. ASSUME NEW c \in Builders \ {b}, builder[c].file = f
      PROVE  builder[c].statement = 1
  <2> SUFFICES ASSUME builder[c].statement > 1 PROVE FALSE
    BY <1>3
  <2>1. files[f].by = {c}
    BY <1>2, <1>5 DEF BuilderInv
  <2> QED
    BY <1>4, <2>1
<1> QED
  BY <1>1, <1>4, <1>5 DEF Own

\* Every other action of a zindex leaves the files alone; these write only to its own.
LEMMA OnlyOwnFile ==
    ASSUME IInv, NEW b \in Builders, Builder(b), NEW f \in DOMAIN files
    PROVE  /\ f \in DOMAIN files'
           /\ \/ files'[f] = files[f]
              \/ builder[b].at \in {"schema", "reading"} /\ f = builder[b].file /\ Own(b)
<1> DEFINE own == builder[b].file
<1>1. /\ files \in Seq(FileType) /\ Len(files) \in Nat /\ f \in 1 .. Len(files)
      /\ \A file : /\ DOMAIN [files EXCEPT ![own] = file] = DOMAIN files
                   /\ f # own => [files EXCEPT ![own] = file][f] = files[f]
  BY DEF IInv, TypeOK
<1>2. CASE files' = files
  BY <1>2
<1>3. CASE OpenIndex(b) /\ files' = Append(files, EmptyFile)
  BY <1>1, <1>3, AppendProperties, IdleIsTyped
<1>4. CASE Execute(b) /\ files' # files
  <2>1. ~Exists(Statements[builder[b].statement], files[own])
    BY <1>4 DEF Execute
  <2>2. builder[b].at = "schema" /\ builder[b].statement \in 1 .. 6
    BY <1>4, ConstantFacts DEF Execute, IInv, TypeOK, BuilderType
  <2>3. Own(b)
    BY <2>1, <2>2, FileIsOwn
  <2>4. \E file : files' = [files EXCEPT ![own] = file]
    BY <1>4, <2>1 DEF Execute
  <2> QED
    BY <1>1, <2>2, <2>3, <2>4
<1>5. CASE EndTransaction(b)
  <2>1. builder[b].at = "reading" /\ builder[b].statement > 1
    <3>1. builder[b].at = "reading" /\ builder[b].statement \in 1 .. 6
      BY <1>5, ConstantFacts DEF EndTransaction, IInv, TypeOK, BuilderType
    <3>2. builder[b].statement > 5
      BY <3>1, ConstantFacts DEF IInv, BuilderInv
    <3> QED
      BY <3>1, <3>2
  <2>2. Own(b)
    BY <2>1, FileIsOwn
  <2>3. \E file : files' = [files EXCEPT ![own] = file]
    BY <1>5 DEF EndTransaction
  <2> QED
    BY <1>1, <2>1, <2>2, <2>3
<1>6. CASE Killed(b) /\ IsWriting(b) /\ files' = [files EXCEPT ![own].torn = TRUE]
  <2>1. builder[b].at \in {"schema", "reading"} /\ builder[b].statement \in 1 .. 6
    BY <1>6, ConstantFacts DEF IsWriting, IInv, TypeOK, BuilderType
  <2>2. builder[b].at = "reading" => builder[b].statement > 1
    <3>1. builder[b].at = "reading" => builder[b].statement > Len(Statements)
      BY DEF IInv, BuilderInv
    <3> QED
      BY <2>1, <3>1, ConstantFacts
  <2>3. builder[b].statement > 1 \/ ~Exists(Statements[1], files[own])
    BY <1>6, <2>1, <2>2 DEF IsWriting, IInv, TypeOK
  <2>4. Own(b)
    BY <2>1, <2>3, FileIsOwn
  <2>5. \E file : files' = [files EXCEPT ![own] = file]
    BY <1>6
  <2> QED
    BY <1>1, <2>1, <2>4, <2>5
<1>7. \/ files' = files
      \/ OpenIndex(b) /\ files' = Append(files, EmptyFile)
      \/ Execute(b)
      \/ EndTransaction(b)
      \/ Killed(b) /\ IsWriting(b) /\ files' = [files EXCEPT ![own].torn = TRUE]
  <2>1. StartBuild(b) \/ Unlink(b) \/ BeginTransaction(b) => files' = files
    BY DEF StartBuild, Unlink, UnlinkOldIndex, BeginTransaction
  <2>2. ReadCompressed(b) \/ WritePages(b) \/ BuildFails(b) => files' = files
    BY DEF ReadCompressed, WritePages, BuildFails
  <2>3. OpenIndex(b) => files' = files \/ files' = Append(files, EmptyFile)
    BY DEF OpenIndex
  <2>4. Killed(b) => \/ files' = files
                     \/ IsWriting(b) /\ files' = [files EXCEPT ![own].torn = TRUE]
    BY DEF Killed
  <2> QED
    BY <2>1, <2>2, <2>3, <2>4 DEF Builder
<1> QED
  BY <1>2, <1>3, <1>4, <1>5, <1>6, <1>7

-----------------------------------------------------------------------------
(* The steps of a zindex.                                                   *)

\* A statement that does not fail at what is there already.
LEMMA Executed ==
    ASSUME IInv, NEW b \in Builders, Execute(b),
           ~Exists(Statements[builder[b].statement], files[builder[b].file])
    PROVE  LET i == builder[b].statement
               file == files[builder[b].file]
               file2 == files'[builder[b].file]
               next == builder'[b]
           IN  /\ builder[b].file \in DOMAIN files /\ i \in 1 .. 5 /\ Own(b)
               /\ file2.done = Before(i + 1) /\ file2.content = {} /\ file2.by = {b}
               /\ file2.torn = file.torn
               /\ file2.metadata = WithRow(file.metadata, Statements[i], next.stat)
               /\ next.at = "schema" /\ next.file = builder[b].file /\ next.statement = i + 1
               /\ next.seen = {} /\ next.alone = builder[b].alone
               /\ next.stat = IF i \in {3, 4} THEN Fstat(builder[b].stat) ELSE builder[b].stat
               /\ \A c \in Builders \ {b} : builder'[c] = builder[c]
               /\ failure' = failure /\ path' = path
<1> DEFINE i == builder[b].statement
           f == builder[b].file
           stat == IF Statements[i] \in {"compressedSize", "compressedModTime"}
                   THEN Fstat(builder[b].stat) ELSE builder[b].stat
<1>1. builder \in [Builders -> BuilderType] /\ builder[b] \in BuilderType
  BY DEF IInv, TypeOK
<1>2. builder[b].at = "schema" /\ i \in 1 .. 5
  BY <1>1, ConstantFacts DEF Execute, BuilderType
<1>3. f \in DOMAIN files /\ files[f] \in FileType
  BY <1>2, FileExists DEF IInv
<1>4. Own(b)
  BY <1>2, FileIsOwn DEF IInv, TypeOK
<1>5. stat = IF i \in {3, 4} THEN Fstat(builder[b].stat) ELSE builder[b].stat
  BY <1>2 DEF Statements
<1>6. /\ files' = [files EXCEPT ![f] = [files[f] EXCEPT !.done = @ \cup {Statements[i]},
                                          !.metadata = WithRow(@, Statements[i], stat),
                                          !.by = @ \cup {b}]]
      /\ builder' = [builder EXCEPT ![b] = [builder[b] EXCEPT !.statement = After(@), !.stat = stat]]
      /\ failure' = failure /\ path' = path
  BY DEF Execute
<1> HIDE DEF stat
<1>7. /\ builder'[b].at = "schema" /\ builder'[b].file = f /\ builder'[b].statement = i + 1
      /\ builder'[b].stat = stat /\ builder'[b].seen = builder[b].seen
      /\ builder'[b].alone = builder[b].alone
      /\ \A c \in Builders \ {b} : builder'[c] = builder[c]
  BY <1>1, <1>2, <1>6 DEF BuilderType, After
<1>8. builder[b].seen = {}
  BY <1>2 DEF IInv, BuilderInv
<1>9. files'[f] = [files[f] EXCEPT !.done = @ \cup {Statements[i]},
                                   !.metadata = WithRow(@, Statements[i], stat),
                                   !.by = @ \cup {b}]
  BY <1>3, <1>6
<1>10. /\ files'[f].done = files[f].done \cup {Statements[i]}
       /\ files'[f].metadata = WithRow(files[f].metadata, Statements[i], stat)
       /\ files'[f].by = files[f].by \cup {b}
       /\ files'[f].content = files[f].content /\ files'[f].torn = files[f].torn
  BY <1>3, <1>9 DEF FileType
<1>11. files'[f].done = Before(i + 1)
  BY <1>2, <1>4, <1>10, InTurn DEF Own
<1>12. files'[f].by = {b} /\ files'[f].content = {}
  BY <1>4, <1>10 DEF Own
<1> QED
  BY <1>2, <1>3, <1>4, <1>5, <1>6, <1>7, <1>8, <1>10, <1>11, <1>12

\* What fstat() says is of a version that is older than anything that is read later.
LEMMA FstatIsBefore ==
    ASSUME IInv, NEW b \in Builders, builder[b].at # "reading"
    PROVE  Fstat(builder[b].stat) # NoMetadata /\ StatBefore(Fstat(builder[b].stat), {})
<1>1. CASE builder[b].stat = NoMetadata
  <2>1. Current \in DOMAIN versions /\ Stat = versions[Current] /\ Stat \in Version
    BY DEF IInv, TypeOK, Current, Stat
  <2> QED
    BY <1>1, <2>1, ConstantFacts DEF Fstat, StatBefore
<1>2. CASE builder[b].stat # NoMetadata
  BY <1>2 DEF Fstat, IInv, BuilderInv
<1> QED
  BY <1>1, <1>2

\* A file is what FileInv says after a step of a zindex.
LEMMA FilesKeepInv ==
    ASSUME IInv, NEW b \in Builders, Builder(b), NEW f \in DOMAIN files'
    PROVE  FileInv(files[f])'
<1>1. versions' = versions /\ files \in Seq(FileType)
  BY DEF IInv, TypeOK, Builder, StartBuild, Unlink, OpenIndex, Execute, BeginTransaction,
         ReadCompressed, WritePages, EndTransaction, BuildFails, Killed
<1>2. CASE f \notin DOMAIN files
  <2>1. OpenIndex(b)
    <3>1. StartBuild(b) \/ Unlink(b) \/ BeginTransaction(b) => files' = files
      BY DEF StartBuild, Unlink, UnlinkOldIndex, BeginTransaction
    <3>2. ReadCompressed(b) \/ WritePages(b) \/ BuildFails(b) => files' = files
      BY DEF ReadCompressed, WritePages, BuildFails
    <3>3. Execute(b) \/ EndTransaction(b) \/ Killed(b) => DOMAIN files' = DOMAIN files
      BY <1>1 DEF Execute, EndTransaction, Killed
    <3> QED
      BY <1>2, <3>1, <3>2, <3>3 DEF Builder
  <2>2. files'[f] = EmptyFile
    BY <1>1, <1>2, <2>1, AppendProperties, IdleIsTyped DEF OpenIndex
  <2> QED
    BY <1>1, <2>2 DEF FileInv, EmptyFile, StatBefore
<1>3. CASE f \in DOMAIN files /\ files'[f] = files[f]
  <2>1. FileInv(files[f])
    BY <1>3 DEF IInv
  <2> QED
    BY <1>1, <1>3, <2>1 DEF FileInv, StatBefore
<1>4. CASE /\ f \in DOMAIN files /\ files'[f] # files[f]
           /\ builder[b].at \in {"schema", "reading"} /\ f = builder[b].file /\ Own(b)
  <2> DEFINE i == builder[b].statement
             file == files[f]
             file2 == files'[f]
  <2>1. i \in 1 .. 6 /\ BuilderInv(b) /\ FileInv(file) /\ file \in FileType
    BY <1>4, FileExists, ConstantFacts DEF IInv, TypeOK, BuilderType
  <2>2. CASE Execute(b)
    <3>1. ~Exists(Statements[i], file)
      BY <1>4, <2>2 DEF Execute
    <3>2. /\ i \in 1 .. 5 /\ file2.done = Before(i + 1) /\ file2.content = {} /\ file2.by = {b}
          /\ file2.metadata = WithRow(file.metadata, Statements[i], builder'[b].stat)
      BY <1>4, <2>2, <3>1, Executed
    <3>3. "AccessPoints" \in file2.done /\ ("LineOffsets" \in file2.done <=> i = 5)
      BY <3>2, InTurn
    <3>4. i = 5 => StatBefore(file2.metadata, {})
      <4> SUFFICES ASSUME i = 5 PROVE StatBefore(file2.metadata, {})
        OBVIOUS
      <4>1. file2.metadata = file.metadata
        BY <3>2 DEF WithRow, Statements
      <4>2. file.metadata = builder[b].stat /\ builder[b].stat # NoMetadata
        BY <1>4, <2>1 DEF BuilderInv
      <4> QED
        BY <2>1, <4>1, <4>2 DEF BuilderInv, StatBefore
    <3> QED
      BY <1>1, <3>2, <3>3, <3>4 DEF FileInv, StatBefore
  <2>3. CASE EndTransaction(b)
    <3>1. builder[b].at = "reading" /\ i = 6
      BY <2>1, <2>3, ConstantFacts DEF EndTransaction, BuilderInv
    <3>2. file2 = [file EXCEPT !.content = builder[b].seen, !.by = @ \cup {b}]
      BY <1>1, <1>4, <2>3 DEF EndTransaction
    <3>3. /\ file2.content = builder[b].seen /\ file2.by = {b} /\ file2.done = Before(6)
          /\ file2.metadata = file.metadata
      BY <1>4, <2>1, <3>1, <3>2 DEF FileType, Own
    <3>4. /\ builder[b].seen \subseteq DOMAIN versions /\ file.metadata = builder[b].stat
          /\ StatBefore(builder[b].stat, builder[b].seen)
      BY <1>4, <2>1, <3>1 DEF BuilderInv
    <3>5. "AccessPoints" \in file2.done /\ "LineOffsets" \in file2.done
      BY <3>3, InTurn
    <3> QED
      BY <1>1, <3>3, <3>4, <3>5 DEF FileInv, StatBefore
  <2>4. CASE Killed(b)
    <3>1. file2 = [file EXCEPT !.torn = TRUE]
      BY <1>1, <1>4, <2>4 DEF Killed
    <3>2. /\ file2.content = file.content /\ file2.by = file.by /\ file2.done = file.done
          /\ file2.metadata = file.metadata
      BY <2>1, <3>1 DEF FileType
    <3> QED
      BY <1>1, <2>1, <3>2 DEF FileInv, StatBefore
  <2>5. Execute(b) \/ EndTransaction(b) \/ Killed(b)
    <3>1. StartBuild(b) \/ Unlink(b) \/ BeginTransaction(b) => files' = files
      BY DEF StartBuild, Unlink, UnlinkOldIndex, BeginTransaction
    <3>2. ReadCompressed(b) \/ WritePages(b) \/ BuildFails(b) => files' = files
      BY DEF ReadCompressed, WritePages, BuildFails
    <3>3. ~OpenIndex(b)
      BY <1>4 DEF OpenIndex
    <3> QED
      BY <1>4, <3>1, <3>2, <3>3 DEF Builder
  <2> QED
    BY <2>2, <2>3, <2>4, <2>5
<1> QED
  BY <1>2, <1>3, <1>4, OnlyOwnFile

\* What a step of a zindex leaves of its own state and that of the others.
LEMMA Ended ==
    ASSUME IInv, NEW b \in Builders, NEW why, End(b, why)
    PROVE  /\ builder'[b].at = "off" /\ builder'[b].statement = 1 /\ builder'[b].seen = {}
           /\ builder'[b].stat = NoMetadata /\ failure'[b] = why
           /\ \A c \in Builders \ {b} : builder'[c] = builder[c] /\ failure'[c] = failure[c]
BY DEF IInv, TypeOK, End, Idle

LEMMA Started ==
    ASSUME IInv, NEW b \in Builders, StartBuild(b)
    PROVE  /\ builder'[b].at = "opened" /\ builder'[b].statement = 1 /\ builder'[b].seen = {}
           /\ builder'[b].stat = NoMetadata /\ failure'[b] = "none"
           /\ builder'[b].alone <=> \A c \in Builders : builder[c].at = "off"
           /\ \A c \in Builders \ {b} :
                 /\ builder'[c].at = builder[c].at /\ builder'[c].statement = builder[c].statement
                 /\ builder'[c].seen = builder[c].seen /\ builder'[c].stat = builder[c].stat
                 /\ builder'[c].file = builder[c].file
                 /\ failure'[c] = failure[c]
                 /\ IF builder[c].at = "off" THEN builder'[c] = builder[c] ELSE ~builder'[c].alone
           /\ versions' = versions /\ files' = files /\ path' = path
<1> DEFINE running == {c \in Builders : builder[c].at # "off"}
           solo == running = {}
<1>1. b \notin running
  BY DEF StartBuild
<1>2. PICK name \in IndexNames : builder' = [c \in Builders |->
                  CASE c = b -> [Idle EXCEPT !.at = "opened", !.name = name, !.alone = solo]
                    [] c \in running -> [builder[c] EXCEPT !.alone = FALSE]
                    [] OTHER -> builder[c]]
  BY DEF StartBuild
<1>3. solo <=> \A c \in Builders : builder[c].at = "off"
  OBVIOUS
<1>4. solo \in BOOLEAN
  OBVIOUS
<1> HIDE DEF solo
<1>5. builder'[b] = [Idle EXCEPT !.at = "opened", !.name = name, !.alone = solo]
  BY <1>1, <1>2
<1>6. /\ builder'[b].at = "opened" /\ builder'[b].statement = 1 /\ builder'[b].seen = {}
      /\ builder'[b].stat = NoMetadata /\ builder'[b].alone = solo
  BY <1>5 DEF Idle
<1>7. ASSUME NEW c \in Builders \ {b}
      PROVE  /\ builder'[c].at = builder[c].at /\ builder'[c].statement = builder[c].statement
             /\ builder'[c].seen = builder[c].seen /\ builder'[c].stat = builder[c].stat
             /\ builder'[c].file = builder[c].file
             /\ IF builder[c].at = "off" THEN builder'[c] = builder[c] ELSE ~builder'[c].alone
  <2>1. CASE c \in running
    <3>1. builder'[c] = [builder[c] EXCEPT !.alone = FALSE]
      BY <1>2, <2>1
    <3>2. builder[c] \in BuilderType
      BY DEF IInv, TypeOK
    <3> QED
      BY <2>1, <3>1, <3>2 DEF BuilderType
  <2>2. CASE c \notin running
    BY <1>2, <2>2
  <2> QED
    BY <2>1, <2>2
<1>8. /\ failure'[b] = "none" /\ \A c \in Builders \ {b} : failure'[c] = failure[c]
      /\ versions' = versions /\ files' = files /\ path' = path
  BY DEF IInv, TypeOK, StartBuild
<1> QED
  BY <1>3, <1>4, <1>6, <1>7, <1>8

LEMMA Opened ==
    ASSUME IInv, NEW b \in Builders, OpenIndex(b)
    PROVE  /\ builder[b].at = "unlinked" /\ builder'[b] = [builder[b] EXCEPT !.at = "schema", !.file = path']
           /\ \A c \in Builders \ {b} : builder'[c] = builder[c]
           /\ path = None => path' \in DOMAIN files' /\ files'[path'] = EmptyFile
           /\ versions' = versions /\ failure' = failure
<1>1. path = None => path' \in DOMAIN files' /\ files'[path'] = EmptyFile
  <2> SUFFICES ASSUME path = None PROVE path' \in DOMAIN files' /\ files'[path'] = EmptyFile
    OBVIOUS
  <2>1. files' = Append(files, EmptyFile) /\ path' = Len(files') /\ files \in Seq(FileType)
    BY DEF OpenIndex, IInv, TypeOK
  <2> QED
    BY <2>1, AppendProperties, IdleIsTyped
<1> QED
  BY <1>1 DEF OpenIndex, IInv, TypeOK

LEMMA BuildersKeepInv ==
    ASSUME IInv, NEW b \in Builders, Builder(b), NEW c \in Builders
    PROVE  BuilderInv(c)'
<1>1. versions' = versions
  BY DEF Builder, StartBuild, Unlink, OpenIndex, Execute, BeginTransaction,
         ReadCompressed, WritePages, EndTransaction, BuildFails, Killed
<1>2. /\ builder \in [Builders -> BuilderType] /\ BuilderInv(b) /\ BuilderInv(c)
      /\ builder[b] \in BuilderType /\ builder[c] \in BuilderType
      /\ builder[b].statement \in 1 .. 6 /\ builder[c].statement \in 1 .. 6
  BY ConstantFacts DEF IInv, TypeOK, BuilderType
\* The file of a zindex that has executed a statement is not written to by others.
<1>3. ASSUME c # b
      PROVE  BuilderInv(c)'
  <2>1. /\ builder'[c].at = builder[c].at /\ builder'[c].statement = builder[c].statement
        /\ builder'[c].seen = builder[c].seen /\ builder'[c].stat = builder[c].stat
        /\ builder'[c].file = builder[c].file
    <3>1. CASE StartBuild(b)
      BY <1>3, <3>1, Started
    <3>2. CASE \E why : End(b, why)
      BY <1>3, <3>2, Ended
    <3>3. CASE \E zindex : builder' = [builder EXCEPT ![b] = zindex]
      BY <1>2, <1>3, <3>3
    <3>4. CASE OpenIndex(b) \/ Unlink(b) \/ BeginTransaction(b)
      <4>1. (\E why : End(b, why)) \/ \E zindex : builder' = [builder EXCEPT ![b] = zindex]
        BY <3>4 DEF OpenIndex, Unlink, BeginTransaction
      <4> QED
        BY <3>2, <3>3, <4>1
    <3>5. CASE Execute(b) \/ ReadCompressed(b) \/ WritePages(b)
      <4>1. (\E why : End(b, why)) \/ \E zindex : builder' = [builder EXCEPT ![b] = zindex]
        BY <3>5 DEF Execute, ReadCompressed, WritePages
      <4> QED
        BY <3>2, <3>3, <4>1
    <3>6. EndTransaction(b) \/ BuildFails(b) \/ Killed(b) => \E why : End(b, why)
      BY DEF EndTransaction, BuildFails, Killed
    <3> QED
      BY <3>1, <3>2, <3>4, <3>5, <3>6 DEF Builder
  <2>2. builder[c].statement > 1 => files'[builder[c].file] = files[builder[c].file]
    <3> SUFFICES ASSUME builder[c].statement > 1
                 PROVE  files'[builder[c].file] = files[builder[c].file]
      OBVIOUS
    <3>1. builder[c].at \in {"schema", "reading"}
      BY <1>2 DEF BuilderInv
    <3>2. builder[c].file \in DOMAIN files
      BY <3>1, FileExists DEF IInv
    <3> QED
      BY <1>3, <3>2, OnlyOwnFile DEF Own
  <2> QED
    BY <1>1, <1>2, <2>1, <2>2, ConstantFacts DEF BuilderInv, StatBefore
<1> SUFFICES BuilderInv(b)'
  BY <1>3
<1>4. ASSUME NEW why, End(b, why)
      PROVE  BuilderInv(b)'
  BY <1>4, Ended, ConstantFacts DEF BuilderInv
\* The steps that leave all files alone.
<1>5. ASSUME files' = files, builder'[b].statement = builder[b].statement,
             builder'[b].file = builder[b].file, builder'[b].stat = builder[b].stat,
             builder'[b].seen = builder[b].seen, builder'[b].at = builder[b].at
      PROVE  BuilderInv(b)'
  BY <1>1, <1>2, <1>5 DEF BuilderInv, StatBefore
<1>6. CASE StartBuild(b)
  BY <1>6, Started, ConstantFacts DEF BuilderInv
<1>7. CASE Unlink(b)
  <2>1. CASE \E why : End(b, why)
    BY <1>4, <2>1
  <2>2. CASE builder' = [builder EXCEPT ![b].at = "unlinked"]
    <3>1. builder'[b] = [builder[b] EXCEPT !.at = "unlinked"] /\ builder[b].at = "opened"
      BY <1>2, <1>7, <2>2 DEF Unlink
    <3> QED
      BY <1>1, <1>2, <3>1 DEF BuilderInv, StatBefore, BuilderType
  <2> QED
    BY <1>7, <2>1, <2>2 DEF Unlink
<1>8. CASE OpenIndex(b)
  <2>1. /\ builder'[b].statement = builder[b].statement /\ builder'[b].stat = builder[b].stat
        /\ builder'[b].seen = builder[b].seen /\ builder'[b].at = "schema"
        /\ builder[b].at = "unlinked"
    <3>1. /\ builder'[b] = [builder[b] EXCEPT !.at = "schema", !.file = path']
          /\ builder[b].at = "unlinked"
      BY <1>8, Opened
    <3>2. builder[b] \in BuilderType
      BY <1>2
    <3> QED
      BY <3>1, <3>2 DEF BuilderType
  <2> QED
    BY <1>1, <1>2, <2>1 DEF BuilderInv, StatBefore
<1>9. CASE Execute(b)
  <2> DEFINE i == builder[b].statement
             f == builder[b].file
  <2>1. CASE Exists(Statements[i], files[f])
    BY <1>4, <1>9, <2>1 DEF Execute
  <2>2. CASE ~Exists(Statements[i], files[f])
    <3>1. /\ f \in DOMAIN files /\ i \in 1 .. 5
          /\ files'[f].done = Before(i + 1) /\ files'[f].content = {} /\ files'[f].by = {b}
          /\ files'[f].metadata = WithRow(files[f].metadata, Statements[i], builder'[b].stat)
          /\ builder'[b].at = "schema" /\ builder'[b].file = f /\ builder'[b].statement = i + 1
          /\ builder'[b].seen = {}
          /\ builder'[b].stat = IF i \in {3, 4} THEN Fstat(builder[b].stat) ELSE builder[b].stat
      BY <1>9, <2>2, Executed
    <3>2. builder[b].at = "schema" /\ builder[b].seen = {}
      BY <1>2, <1>9 DEF Execute, BuilderInv
    <3>3. Fstat(builder[b].stat) # NoMetadata /\ StatBefore(Fstat(builder[b].stat), {})
      BY <3>2, FstatIsBefore
    <3>4. builder'[b].stat # NoMetadata => StatBefore(builder'[b].stat, {})
      BY <1>2, <3>1, <3>2, <3>3 DEF BuilderInv
    <3>5. /\ i + 1 > 3 => builder'[b].stat # NoMetadata
          /\ i > 3 => builder'[b].stat = builder[b].stat
      BY <1>2, <3>1, <3>3 DEF BuilderInv, Fstat
    <3>6. files[f].metadata \in MaybeVersion /\ builder'[b].stat \in MaybeVersion
      <4>1. files[f].metadata \in MaybeVersion /\ builder[b].stat \in MaybeVersion
        <5>1. files[f] \in FileType
          BY <3>2, FileExists DEF IInv
        <5>2. builder[b].stat \in Version \cup {NoMetadata}
          BY <1>2 DEF BuilderType
        <5> QED
          BY <5>1, <5>2, ConstantFacts DEF FileType
      <4>2. Stat \in MaybeVersion
        BY ConstantFacts DEF IInv, TypeOK, Stat, Current
      <4> QED
        BY <3>1, <4>1, <4>2 DEF Fstat
    <3>7. i + 1 > 3 => files'[f].metadata.size = builder'[b].stat.size
      <4>1. CASE i = 3
        <5>1. files'[f].metadata = [files[f].metadata EXCEPT !.size = builder'[b].stat.size]
          BY <3>1, <4>1 DEF WithRow, Statements
        <5> QED
          BY <3>6, <5>1 DEF MaybeVersion
      <4>2. CASE i = 4
        <5>1. files'[f].metadata = [files[f].metadata EXCEPT !.mtime = builder'[b].stat.mtime]
          BY <3>1, <4>2 DEF WithRow, Statements
        <5> QED
          BY <1>2, <3>5, <3>6, <4>2, <5>1 DEF MaybeVersion, BuilderInv
      <4>3. CASE i = 5
        <5>1. files'[f].metadata = files[f].metadata
          BY <3>1, <4>3 DEF WithRow, Statements
        <5> QED
          BY <1>2, <3>5, <4>3, <5>1 DEF BuilderInv
      <4> QED
        BY <3>1, <4>1, <4>2, <4>3
    <3>8. i + 1 > 4 => files'[f].metadata = builder'[b].stat
      <4>1. CASE i = 4
        <5>1. files'[f].metadata = [files[f].metadata EXCEPT !.mtime = builder'[b].stat.mtime]
          BY <3>1, <4>1 DEF WithRow, Statements
        <5> QED
          BY <3>6, <3>7, <4>1, <5>1 DEF MaybeVersion
      <4>2. CASE i = 5
        <5>1. files'[f].metadata = files[f].metadata
          BY <3>1, <4>2 DEF WithRow, Statements
        <5> QED
          BY <1>2, <3>5, <4>2, <5>1 DEF BuilderInv
      <4> QED
        BY <3>1, <4>1, <4>2
    <3> QED
      BY <1>1, <3>1, <3>4, <3>5, <3>7, <3>8 DEF BuilderInv, StatBefore
  <2> QED
    BY <2>1, <2>2
<1>10. CASE BeginTransaction(b)
  <2>1. /\ builder'[b] = [builder[b] EXCEPT !.at = "reading"] /\ files' = files
        /\ builder[b].at = "schema" /\ builder[b].statement > Len(Statements)
    BY <1>2, <1>10 DEF BeginTransaction
  <2> QED
    BY <1>1, <1>2, <2>1 DEF BuilderInv, StatBefore, BuilderType
<1>11. CASE ReadCompressed(b)
  <2>1. /\ builder'[b] = [builder[b] EXCEPT !.seen = @ \cup {Current}] /\ files' = files
        /\ builder[b].at = "reading"
    BY <1>2, <1>11 DEF ReadCompressed
  <2>2. Current \in DOMAIN versions /\ \A v \in DOMAIN versions : v <= Current
    BY DEF IInv, TypeOK, Current
  <2>3. /\ builder'[b].seen = builder[b].seen \cup {Current}
        /\ builder'[b].stat = builder[b].stat /\ builder'[b].file = builder[b].file
        /\ builder'[b].statement = builder[b].statement /\ builder'[b].at = "reading"
    BY <1>2, <2>1 DEF BuilderType
  <2>4. builder[b].stat # NoMetadata => StatBefore(builder[b].stat, builder[b].seen \cup {Current})
    BY <1>2, <2>2 DEF BuilderInv, StatBefore
  <2> QED
    BY <1>1, <1>2, <2>1, <2>2, <2>3, <2>4 DEF BuilderInv, StatBefore
<1>12. CASE WritePages(b)
  <2>1. builder'[b] = [builder[b] EXCEPT !.exclusive = TRUE] /\ files' = files
    BY <1>2, <1>12 DEF WritePages
  <2> QED
    BY <1>2, <1>5, <2>1 DEF BuilderType
<1>13. CASE EndTransaction(b) \/ BuildFails(b) \/ Killed(b)
  BY <1>4, <1>13 DEF EndTransaction, BuildFails, Killed
<1> QED
  BY <1>3, <1>6, <1>7, <1>8, <1>9, <1>10, <1>11, <1>12, <1>13 DEF Builder

\* A zindex that runs alone does not find its statement done.
LEMMA AloneDoesNotFail ==
    ASSUME IInv, NEW b \in Builders, Execute(b), builder[b].alone
    PROVE  ~Exists(Statements[builder[b].statement], files[builder[b].file])
<1>1. AloneInv(b) /\ BuilderInv(b)
  BY DEF IInv
<1>2. builder[b].statement \in 1 .. 6
  BY ConstantFacts DEF IInv, TypeOK, BuilderType
<1>3. builder[b].at = "schema" /\ builder[b].statement <= Len(Statements)
  BY DEF Execute
<1>4. builder[b].statement \in 1 .. 5
  BY <1>2, <1>3, ConstantFacts
<1>5. files[builder[b].file].done = Before(builder[b].statement)
  <2>1. CASE builder[b].statement = 1
    <3>1. files[builder[b].file].done = {}
      BY <1>1, <1>3, <2>1 DEF AloneInv
    <3>2. Before(builder[b].statement) = {}
      BY <2>1 DEF Before
    <3> QED
      BY <3>1, <3>2
  <2>2. CASE builder[b].statement > 1
    BY <1>1, <2>2 DEF BuilderInv
  <2> QED
    BY <1>4, <2>1, <2>2
<1>6. Statements[builder[b].statement] \notin Before(builder[b].statement)
  BY <1>2, <1>4, InTurn
<1> QED
  BY <1>5, <1>6 DEF Exists

LEMMA AloneKeepsInv ==
    ASSUME IInv, NEW b \in Builders, Builder(b), NEW c \in Builders
    PROVE  AloneInv(c)'
<1>1. /\ builder \in [Builders -> BuilderType] /\ AloneInv(b) /\ AloneInv(c) /\ BuilderInv(b)
      /\ builder[b] \in BuilderType
      /\ failure \in [Builders -> {"none", "name", "exists"}]
  BY DEF IInv, TypeOK
<1>2. CASE StartBuild(b)
  <2>1. CASE c = b
    <3>1. \A d \in Builders \ {b} : builder'[d].at = builder[d].at
      BY <1>2, Started
    <3>2. /\ builder'[b].at = "opened" /\ failure'[b] = "none"
          /\ builder'[b].alone <=> \A d \in Builders : builder[d].at = "off"
      BY <1>2, Started
    <3> QED
      BY <2>1, <3>1, <3>2 DEF AloneInv
  <2>2. CASE c # b
    <3>1. /\ builder'[c].at = builder[c].at /\ failure'[c] = failure[c]
          /\ IF builder[c].at = "off" THEN builder'[c] = builder[c] ELSE ~builder'[c].alone
      BY <1>2, <2>2, Started
    <3> QED
      BY <1>1, <3>1 DEF AloneInv
  <2> QED
    BY <2>1, <2>2
\* In every other step b is running already, and if it is alone it is the only one.
<1>3. ASSUME ~StartBuild(b)
      PROVE  /\ builder[b].at # "off"
             /\ c # b => (builder[c].at # "off" => ~builder[c].alone)
  <2>1. builder[b].at # "off"
    BY <1>3 DEF Builder, Unlink, OpenIndex, Execute, BeginTransaction, ReadCompressed,
                WritePages, EndTransaction, BuildFails, Killed
  <2> QED
    BY <1>1, <2>1 DEF AloneInv
<1>4. ASSUME NEW why \in {"none", "name", "exists"}, End(b, why), ~StartBuild(b),
             why = "exists" => ~builder[b].alone
      PROVE  AloneInv(c)'
  <2>1. CASE c = b
    <3>1. builder'[b].at = "off" /\ failure'[b] = why /\ builder'[b].alone = builder[b].alone
      BY <1>1, <1>4 DEF End, Idle
    <3> QED
      BY <1>4, <2>1, <3>1 DEF AloneInv
  <2>2. CASE c # b
    <3>1. builder'[c] = builder[c] /\ failure'[c] = failure[c]
      BY <1>4, <2>2, Ended
    <3> QED
      BY <1>1, <1>3, <1>4, <2>2, <3>1 DEF AloneInv
  <2> QED
    BY <2>1, <2>2
<1>5. ASSUME ~StartBuild(b), failure' = failure,
             \A d \in Builders \ {b} : builder'[d] = builder[d],
             builder'[b].alone = builder[b].alone,
             builder'[b].at \in {"unlinked", "schema", "reading"},
             builder[b].alone =>
                /\ builder'[b].at = "unlinked" => path' = None
                /\ (builder'[b].at = "schema" /\ builder'[b].statement = 1) =>
                      files'[builder'[b].file].done = {}
      PROVE  AloneInv(c)'
  <2>1. CASE c = b
    BY <1>1, <1>3, <1>5, <2>1 DEF AloneInv
  <2>2. CASE c # b
    BY <1>1, <1>3, <1>5, <2>2 DEF AloneInv
  <2> QED
    BY <2>1, <2>2
<1>6. CASE Unlink(b)
  <2>1. CASE End(b, "name")
    BY <1>4, <1>6, <2>1 DEF Unlink, StartBuild
  <2>2. CASE /\ UnlinkOldIndex /\ failure' = failure
             /\ builder' = [builder EXCEPT ![b].at = "unlinked"]
    <3>1. builder'[b] = [builder[b] EXCEPT !.at = "unlinked"] /\ path' = None
      BY <1>1, <2>2 DEF UnlinkOldIndex
    <3>2. builder'[b].at = "unlinked" /\ builder'[b].alone = builder[b].alone
      BY <1>1, <3>1 DEF BuilderType
    <3>3. \A d \in Builders \ {b} : builder'[d] = builder[d]
      BY <1>1, <2>2
    <3>4. ~StartBuild(b)
      BY <1>6 DEF Unlink, StartBuild
    <3> QED
      BY <1>5, <2>2, <3>1, <3>2, <3>3, <3>4
  <2> QED
    BY <1>6, <2>1, <2>2 DEF Unlink
<1>7. CASE OpenIndex(b)
  <2>1. /\ builder[b].at = "unlinked" /\ failure' = failure
        /\ builder'[b] = [builder[b] EXCEPT !.at = "schema", !.file = path']
        /\ \A d \in Builders \ {b} : builder'[d] = builder[d]
        /\ path = None => files'[path'] = EmptyFile
    BY <1>7, Opened
  <2>2. /\ builder'[b].at = "schema" /\ builder'[b].file = path'
        /\ builder'[b].alone = builder[b].alone
    BY <1>1, <2>1 DEF BuilderType
  <2>3. builder[b].alone => files'[path'].done = {}
    BY <1>1, <2>1 DEF AloneInv, EmptyFile
  <2>4. ~StartBuild(b)
    BY <2>1 DEF StartBuild
  <2> QED
    BY <1>5, <2>1, <2>2, <2>3, <2>4
<1>8. CASE Execute(b)
  <2>1. ~StartBuild(b)
    BY <1>8 DEF Execute, StartBuild
  <2>2. CASE Exists(Statements[builder[b].statement], files[builder[b].file])
    <3>1. End(b, "exists") /\ ~builder[b].alone
      BY <1>8, <2>2, AloneDoesNotFail DEF Execute
    <3> QED
      BY <1>4, <2>1, <3>1
  <2>3. CASE ~Exists(Statements[builder[b].statement], files[builder[b].file])
    <3>1. /\ builder'[b].at = "schema" /\ builder'[b].statement = builder[b].statement + 1
          /\ builder[b].statement \in 1 .. 5
          /\ builder'[b].alone = builder[b].alone /\ failure' = failure
          /\ \A d \in Builders \ {b} : builder'[d] = builder[d]
      BY <1>8, <2>3, Executed
    <3> QED
      BY <1>5, <2>1, <3>1
  <2> QED
    BY <2>2, <2>3
<1>9. CASE BeginTransaction(b)
  <2>1. builder'[b] = [builder[b] EXCEPT !.at = "reading"] /\ failure' = failure
    BY <1>1, <1>9 DEF BeginTransaction
  <2>2. builder'[b].at = "reading" /\ builder'[b].alone = builder[b].alone
    BY <1>1, <2>1 DEF BuilderType
  <2>3. (\A d \in Builders \ {b} : builder'[d] = builder[d]) /\ ~StartBuild(b)
    BY <1>1, <1>9 DEF BeginTransaction, StartBuild
  <2> QED
    BY <1>5, <2>1, <2>2, <2>3
<1>10. CASE ReadCompressed(b) \/ WritePages(b)
  <2>1. CASE ReadCompressed(b)
    <3>1. /\ builder'[b] = [builder[b] EXCEPT !.seen = @ \cup {Current}] /\ failure' = failure
          /\ builder[b].at = "reading"
      BY <1>1, <2>1 DEF ReadCompressed
    <3>2. builder'[b].at = "reading" /\ builder'[b].alone = builder[b].alone
      BY <1>1, <3>1 DEF BuilderType
    <3>3. (\A d \in Builders \ {b} : builder'[d] = builder[d]) /\ ~StartBuild(b)
      BY <1>1, <2>1 DEF ReadCompressed, StartBuild
    <3> QED
      BY <1>5, <3>1, <3>2, <3>3
  <2>2. CASE WritePages(b)
    <3>1. /\ builder'[b] = [builder[b] EXCEPT !.exclusive = TRUE] /\ failure' = failure
          /\ builder[b].at = "reading"
      BY <1>1, <2>2 DEF WritePages
    <3>2. builder'[b].at = "reading" /\ builder'[b].alone = builder[b].alone
      BY <1>1, <3>1 DEF BuilderType
    <3>3. (\A d \in Builders \ {b} : builder'[d] = builder[d]) /\ ~StartBuild(b)
      BY <1>1, <2>2 DEF WritePages, StartBuild
    <3> QED
      BY <1>5, <3>1, <3>2, <3>3
  <2> QED
    BY <1>10, <2>1, <2>2
<1>11. CASE EndTransaction(b) \/ BuildFails(b) \/ Killed(b)
  <2>1. End(b, "none") /\ ~StartBuild(b)
    BY <1>11 DEF EndTransaction, BuildFails, Killed, StartBuild
  <2> QED
    BY <1>4, <2>1
<1> QED
  BY <1>2, <1>6, <1>7, <1>8, <1>9, <1>10, <1>11 DEF Builder

\* What zq has read of a file stays true of it.
LEMMA ReaderUnmoved ==
    ASSUME IInv, NEW b \in Builders, Builder(b)
    PROVE  ReaderInv'
<1>1. versions' = versions /\ reader' = reader
  BY DEF Builder, StartBuild, Unlink, OpenIndex, Execute, BeginTransaction,
         ReadCompressed, WritePages, EndTransaction, BuildFails, Killed
<1>2. CASE reader.at \in {"off", "opened"}
  BY <1>1, <1>2 DEF IInv, ReaderInv
<1>3. CASE reader.at \notin {"off", "opened"}
  <2>1. reader.file \in DOMAIN files /\ "LineOffsets" \in File.done
    BY <1>3, ReaderFileExists DEF IInv, ReaderInv
  <2>2. "LineOffsets" \in File'.done /\ File'.metadata = File.metadata
    <3>1. CASE files'[reader.file] = files[reader.file]
      BY <1>1, <2>1, <3>1 DEF File
    <3>2. CASE /\ builder[b].at \in {"schema", "reading"} /\ reader.file = builder[b].file
               /\ Own(b)
      <4>1. builder[b].statement = 6
        <5>1. builder[b].statement \in 1 .. 6
          BY ConstantFacts DEF IInv, TypeOK, BuilderType
        <5> QED
          BY <2>1, <3>2, <5>1, InTurn DEF Own, File
      <4>2. files \in Seq(FileType) /\ File \in FileType
        BY <2>1 DEF IInv, TypeOK, File
      <4>3. File'.done = File.done /\ File'.metadata = File.metadata
        <5>1. CASE files' = files
          BY <1>1, <5>1 DEF File
        <5>2. CASE EndTransaction(b)
          <6>1. File' = [File EXCEPT !.content = builder[b].seen, !.by = @ \cup {b}]
            BY <1>1, <2>1, <3>2, <4>2, <5>2 DEF EndTransaction, File
          <6> QED
            BY <4>2, <6>1 DEF FileType
        <5>3. CASE Killed(b) /\ files' # files
          <6>1. File' = [File EXCEPT !.torn = TRUE]
            BY <1>1, <2>1, <3>2, <4>2, <5>3 DEF Killed, File
          <6> QED
            BY <4>2, <6>1 DEF FileType
        <5>4. StartBuild(b) \/ Unlink(b) \/ BeginTransaction(b) => files' = files
          BY DEF StartBuild, Unlink, UnlinkOldIndex, BeginTransaction
        <5>5. ReadCompressed(b) \/ WritePages(b) \/ BuildFails(b) => files' = files
          BY DEF ReadCompressed, WritePages, BuildFails
        <5>6. ~Execute(b) /\ ~OpenIndex(b)
          BY <3>2, <4>1, ConstantFacts DEF Execute, OpenIndex
        <5> QED
          BY <5>1, <5>2, <5>3, <5>4, <5>5, <5>6 DEF Builder
      <4> QED
        BY <2>1, <4>3
    <3> QED
      BY <2>1, <3>1, <3>2, OnlyOwnFile
  <2> QED
    BY <1>1, <1>3, <2>1, <2>2 DEF IInv, ReaderInv, Differs
<1> QED
  BY <1>2, <1>3

LEMMA BuilderStep == IInv /\ TypeOK' /\ (\E b \in Builders : Builder(b)) => IInv'
BY FilesKeepInv, BuildersKeepInv, AloneKeepsInv, ReaderUnmoved DEF IInv

-----------------------------------------------------------------------------
(* The steps of the others. *)

LEMMA ReaderStep == IInv /\ TypeOK' /\ Reader => IInv'
<1> SUFFICES ASSUME IInv, TypeOK', Reader PROVE IInv'
  OBVIOUS
<1>1. UNCHANGED <<versions, time, files, path, builder, failure>>
  BY DEF Reader, Load, Prepare, ReadMetadata, ReadBlockSize, Check, Close
<1>2. ReaderInv /\ reader \in ReaderType
  BY DEF IInv, TypeOK
<1>3. ReaderInv'
  <2>1. CASE reader' = NoReader
    BY <2>1 DEF ReaderInv, NoReader
  <2>2. CASE Load
    <3>1. reader'.at = "opened" /\ reader'.metadata = NoMetadata
      BY <2>2 DEF Load, NoReader
    <3> QED
      BY <3>1 DEF ReaderInv
  <2>3. CASE Prepare /\ reader' # NoReader
    <3>1. /\ reader' = [reader EXCEPT !.at = "prepared"] /\ reader.at = "opened"
          /\ "LineOffsets" \in File.done
      BY <2>3 DEF Prepare, ReaderThrows
    <3>2. /\ reader'.at = "prepared" /\ reader'.file = reader.file
          /\ reader'.metadata = reader.metadata
      BY <1>2, <3>1 DEF ReaderType
    <3> QED
      BY <1>1, <1>2, <3>1, <3>2 DEF ReaderInv, File
  <2>4. CASE ReadMetadata
    <3>1. /\ reader'.at = "metadata" /\ reader'.file = reader.file /\ reader.at = "prepared"
          /\ reader'.metadata \in {reader.metadata, File.metadata}
      BY <1>2, <2>4 DEF ReadMetadata, ReaderType
    <3> QED
      BY <1>1, <1>2, <3>1 DEF ReaderInv, File
  <2>5. CASE ReadBlockSize /\ reader' # NoReader
    <3>1. reader' = [reader EXCEPT !.at = "sized"] /\ reader.at = "metadata"
      BY <2>5 DEF ReadBlockSize, ReaderThrows
    <3>2. /\ reader'.at = "sized" /\ reader'.file = reader.file
          /\ reader'.metadata = reader.metadata
      BY <1>2, <3>1 DEF ReaderType
    <3> QED
      BY <1>1, <1>2, <3>1, <3>2 DEF ReaderInv, File
  <2>6. CASE Check /\ reader' # NoReader
    <3>1. /\ reader' = [reader EXCEPT !.at = "loaded", !.version = Current]
          /\ reader.at = "sized" /\ (~reader.force => ~Differs(reader.metadata, Stat))
      BY <2>6 DEF Check, ReaderThrows, IInv, TypeOK, ReaderType
    <3>2. /\ reader'.at = "loaded" /\ reader'.file = reader.file /\ reader'.version = Current
          /\ reader'.metadata = reader.metadata /\ reader'.force = reader.force
      BY <1>2, <3>1 DEF ReaderType
    <3>3. Current \in DOMAIN versions /\ Stat = versions[Current]
      BY DEF IInv, TypeOK, Current, Stat
    <3> QED
      BY <1>1, <1>2, <3>1, <3>2, <3>3 DEF ReaderInv, File, Differs
  <2> QED
    BY <2>1, <2>2, <2>3, <2>4, <2>5, <2>6 DEF Reader, Close
<1>4. /\ \A f \in DOMAIN files : FileInv(files[f])
      /\ \A b \in Builders : BuilderInv(b) /\ AloneInv(b)
  BY DEF IInv
<1>5. \A f \in DOMAIN files' : FileInv(files[f])'
  BY <1>1, <1>4 DEF FileInv, StatBefore
<1>6. ASSUME NEW b \in Builders PROVE BuilderInv(b)' /\ AloneInv(b)'
  BY <1>1, <1>4 DEF BuilderInv, AloneInv, StatBefore
<1> QED
  BY <1>3, <1>5, <1>6 DEF IInv

LEMMA OthersStep == IInv /\ TypeOK' /\ Others => IInv'
<1> SUFFICES ASSUME IInv, TypeOK', Others PROVE IInv'
  OBVIOUS
<1>1. UNCHANGED <<files, path, builder, failure, reader>>
  BY DEF Others, Modify, Tick
<1>2. DOMAIN versions \subseteq DOMAIN versions' /\ \A v \in DOMAIN versions : versions'[v] = versions[v]
  <2>1. CASE Modify
    <3>1. PICK s \in Sizes : versions' = Append(versions, [size |-> s, mtime |-> time])
      BY <2>1 DEF Modify
    <3>2. versions \in Seq(Version) /\ [size |-> s, mtime |-> time] \in Version
      BY DEF IInv, TypeOK, Version
    <3> QED
      BY <3>1, <3>2, AppendProperties
  <2>2. CASE Tick
    BY <2>2 DEF Tick
  <2> QED
    BY <2>1, <2>2 DEF Others
<1>3. \A stat, read : StatBefore(stat, read) => \E v \in DOMAIN versions' :
                             versions'[v] = stat /\ \A r \in read : v <= r
  BY <1>2 DEF StatBefore
<1>4. ASSUME NEW f \in DOMAIN files PROVE FileInv(files[f])'
  <2>1. FileInv(files[f])
    BY DEF IInv
  <2> QED
    BY <1>1, <1>2, <1>3, <2>1 DEF FileInv, StatBefore
<1>5. ASSUME NEW b \in Builders PROVE BuilderInv(b)' /\ AloneInv(b)'
  <2>1. BuilderInv(b) /\ AloneInv(b)
    BY DEF IInv
  <2>2. BuilderInv(b)'
    BY <1>1, <1>2, <1>3, <2>1 DEF BuilderInv, StatBefore
  <2>3. AloneInv(b)'
    BY <1>1, <2>1 DEF AloneInv
  <2> QED
    BY <2>2, <2>3
<1>6. ReaderInv'
  BY <1>1, <1>2 DEF IInv, ReaderInv, File, Differs
<1> QED
  BY <1>1, <1>4, <1>5, <1>6 DEF IInv

-----------------------------------------------------------------------------
(* The theorems. *)

LEMMA InitInv == Init => IInv
<1> SUFFICES ASSUME Init PROVE IInv
  OBVIOUS
<1>1. TypeOK
  BY InitIsTyped
<1>2. files = <<>> /\ reader = NoReader /\ failure = [b \in Builders |-> "none"]
      /\ builder = [b \in Builders |-> Idle]
  BY DEF Init
<1>3. ReaderInv
  BY <1>2 DEF ReaderInv, NoReader
<1>4. ASSUME NEW b \in Builders PROVE BuilderInv(b) /\ AloneInv(b)
  BY <1>2, ConstantFacts DEF BuilderInv, AloneInv, Idle
<1> QED
  BY <1>1, <1>2, <1>3, <1>4 DEF IInv

LEMMA NextInv == IInv /\ [Next]_vars => IInv'
<1> SUFFICES ASSUME IInv, [Next]_vars PROVE IInv'
  OBVIOUS
<1>1. TypeOK'
  BY NextIsTyped DEF IInv
<1>2. CASE UNCHANGED vars
  BY <1>2 DEF vars, IInv, TypeOK, FileInv, BuilderInv, AloneInv, ReaderInv, StatBefore, File
<1> QED
  BY <1>1, <1>2, BuilderStep, ReaderStep, OthersStep DEF Next

LEMMA InvHolds == Spec => []IInv
<1> QED
  BY InitInv, NextInv, PTL DEF Spec

\* Whatever fails, dies or changes on the way, an index that has rows has the size and
\* time of one version of the compressed file (the fstat() of init() comes before all that
\* is read, and each row of Metadata is written once).
THEOREM MetadataIsOfOneVersionHolds == Spec => []MetadataIsOfOneVersion
<1>1. IInv => MetadataIsOfOneVersion
  <2> SUFFICES ASSUME IInv, NEW f \in DOMAIN files, IsWhole(files[f])
               PROVE  \E v \in DOMAIN versions : versions[v] = files[f].metadata
    BY DEF MetadataIsOfOneVersion
  <2> QED
    BY DEF IInv, FileInv, IsWhole, StatBefore
<1> QED
  BY <1>1, InvHolds, PTL

\* No index file has the work of two zindex, and one that runs alone does not stumble
\* over what is there (the unlink() and the CREATE TABLEs of init()).
THEOREM OneBuildPerIndexHolds == Spec => []OneBuildPerIndex
<1>1. IInv => OneBuildPerIndex
  <2> SUFFICES ASSUME IInv PROVE OneBuildPerIndex
    OBVIOUS
  <2>1. ASSUME NEW f \in DOMAIN files PROVE Cardinality(files[f].by) <= 1
    <3>1. CASE files[f].by = {}
      BY <3>1, FS_EmptySet
    <3>2. CASE \E b \in Builders : files[f].by = {b}
      <4>1. PICK b \in Builders : files[f].by = {b}
        BY <3>2
      <4>2. Cardinality({b}) = 1
        BY FS_Singleton
      <4> QED
        BY <4>1, <4>2
    <3> QED
      BY <3>1, <3>2 DEF IInv, FileInv
  <2>2. ASSUME NEW b \in Builders, failure[b] = "exists" PROVE ~builder[b].alone
    BY <2>2 DEF IInv, AloneInv
  <2> QED
    BY <2>1, <2>2 DEF OneBuildPerIndex
<1> QED
  BY <1>1, InvHolds, PTL

\* A whole index that zq loads without --force was built from the file as it is then,
\* unless an earlier version had its size and time (init(force) against the fstat() of
\* the build).
THEOREM LoadedIndexIsOfThisFileHolds == Spec => []LoadedIndexIsOfThisFile
<1>1. IInv => LoadedIndexIsOfThisFile
  <2> SUFFICES ASSUME IInv, reader.at = "loaded", ~reader.force,
                      reader.metadata # NoMetadata, IsWhole(File), reader.version = Current
               PROVE  \/ File.content = {Current}
                      \/ \E v \in 1 .. (Current - 1) : versions[v] = Stat
    BY DEF LoadedIndexIsOfThisFile
  <2>1. reader.file \in DOMAIN files
    BY ReaderFileExists DEF IInv
  <2>2. /\ File.content # {} /\ File.content \subseteq DOMAIN versions
        /\ StatBefore(File.metadata, File.content)
    BY <2>1 DEF IInv, FileInv, IsWhole, File
  <2>3. PICK v \in DOMAIN versions : versions[v] = File.metadata /\ \A r \in File.content : v <= r
    BY <2>2 DEF StatBefore
  <2>4. reader.metadata = File.metadata /\ ~Differs(reader.metadata, Stat)
    BY DEF IInv, ReaderInv, Stat
  <2>5. versions \in Seq(Version) /\ Current \in Nat \ {0} /\ DOMAIN versions = 1 .. Current
    BY DEF IInv, TypeOK, Current
  <2>6. versions[v] \in Version /\ Stat \in Version
    BY <2>3, <2>5 DEF Stat
  <2>7. versions[v] = Stat
    <3>1. versions[v].size = Stat.size /\ versions[v].mtime = Stat.mtime
      BY <2>3, <2>4, <2>6, ConstantFacts DEF Differs, Version
    <3> QED
      BY <2>6, <3>1 DEF Version
  <2>8. v = Current => File.content = {Current}
    BY <2>2, <2>3, <2>5
  <2> QED
    BY <2>3, <2>5, <2>7, <2>8
<1> QED
  BY <1>1, InvHolds, PTL

\* A rebuild does not touch an index that is whole: it unlinks the file and makes another.
THEOREM WholeIndexIsNotTouchedHolds == Spec => WholeIndexIsNotTouched
<1>1. ASSUME IInv, [Next]_vars
      PROVE  [\A f \in DOMAIN files : IsWhole(files[f]) => files'[f] = files[f]]_vars
  <2>1. ASSUME NEW b \in Builders, Builder(b), NEW f \in DOMAIN files, IsWhole(files[f])
        PROVE  files'[f] = files[f]
    BY <1>1, <2>1, OnlyOwnFile DEF Own, IsWhole
  <2>2. Others \/ Reader => files' = files
    BY DEF Others, Modify, Tick, Reader, Load, Prepare, ReadMetadata, ReadBlockSize, Check, Close
  <2> QED
    BY <1>1, <2>1, <2>2 DEF Next
<1> QED
  BY <1>1, InvHolds, PTL DEF WholeIndexIsNotTouched, Spec
=============================================================================
