----------------------- MODULE ExternalIndexerProofs -----------------------
(***************************************************************************)
(* The pipes to and from the command of an ExternalIndexer, proved for     *)
(* pipes of any capacity, reads of any size and any text.                  *)
(***************************************************************************)
EXTENDS ExternalIndexer, SequenceTheorems, FiniteSetTheorems, WellFoundedInduction, TLAPS

-----------------------------------------------------------------------------
(* Sequences of bytes. *)

\* The lemmas are stated of named formulas, which the provers match as they are.
Associates(s, t, u) == (s \o t) \o u = s \o (t \o u)

LEMMA Associative ==
    ASSUME NEW s \in Seq(Nat), NEW t \in Seq(Nat), NEW u \in Seq(Nat)
    PROVE  Associates(s, t, u)
<1>1. (s \o t) \o u = s \o (t \o u)
  BY ConcatAssociative, SMTT(30)
<1> QED
  BY <1>1 DEF Associates

LEMMA ConcatIsBytes ==
    ASSUME NEW s \in Seq(Nat), NEW t \in Seq(Nat)
    PROVE  s \o t \in Seq(Nat) /\ Len(s \o t) = Len(s) + Len(t)
BY ConcatProperties

\* The pieces a sequence of bytes is cut into.
IsCut(t, k) ==
    /\ SubSeq(t, 1, k) \in Seq(Nat) /\ From(t, k + 1) \in Seq(Nat)
    /\ Len(SubSeq(t, 1, k)) = k /\ Len(From(t, k + 1)) = Len(t) - k
    /\ SubSeq(t, 1, k) \o From(t, k + 1) = t

LEMMA Cut ==
    ASSUME NEW t \in Seq(Nat), NEW k \in 1 .. Len(t)
    PROVE  IsCut(t, k)
<1>1. Len(t) \in Nat /\ \A i \in 1 .. Len(t) : t[i] \in Nat
  BY LenProperties, ElementOfSeq
<1>2. SubSeq(t, 1, k) \in Seq(Nat) /\ Len(SubSeq(t, 1, k)) = k
  BY <1>1, SubSeqProperties
<1>3. From(t, k + 1) \in Seq(Nat) /\ Len(From(t, k + 1)) = Len(t) - k
  <2>1. \A i \in (k + 1) .. Len(t) : t[i] \in Nat
    BY <1>1
  <2> QED
    BY <1>1, <2>1, SubSeqProperties DEF From
<1>4. SubSeq(t, 1, k) \o From(t, k + 1) = t
  <2>1. SubSeq(t, 1, k) \o SubSeq(t, k + 1, Len(t)) = SubSeq(t, 1, Len(t))
    BY <1>1, ConcatAdjacentSubSeq
  <2> QED
    BY <2>1, SubSeqFull DEF From
<1> QED
  BY <1>2, <1>3, <1>4 DEF IsCut

\* A piece moves from the front of one sequence to the end of the one before it,
\* with another before the two.
Moves(a, s, t, k) == (a \o (s \o SubSeq(t, 1, k))) \o From(t, k + 1) = (a \o s) \o t

LEMMA PieceMoves ==
    ASSUME NEW a \in Seq(Nat), NEW s \in Seq(Nat), NEW t \in Seq(Nat), NEW k \in 1 .. Len(t)
    PROVE  Moves(a, s, t, k)
<1> DEFINE p == SubSeq(t, 1, k)
           r == From(t, k + 1)
<1>1. p \in Seq(Nat) /\ r \in Seq(Nat) /\ p \o r = t
  BY Cut DEF IsCut
<1>2. a \o s \in Seq(Nat)
  BY ConcatIsBytes
<1>3. Moves(a, s, t, k) <=> (a \o (s \o p)) \o r = (a \o s) \o t
  BY DEF Moves
<1> HIDE DEF p, r
<1>4. Associates(a, s, p) /\ Associates(a \o s, p, r)
  BY <1>1, <1>2, Associative
<1>5. (a \o s) \o p = a \o (s \o p) /\ ((a \o s) \o p) \o r = (a \o s) \o (p \o r)
  BY <1>4 DEF Associates
<1> QED
  BY <1>1, <1>3, <1>5, Zenon

LEMMA NewlineStays ==
    ASSUME NEW s \in Seq(Nat), NEW t \in Seq(Nat)
    PROVE  /\ HasNewline(s) => HasNewline(s \o t)
           /\ HasNewline(t) => HasNewline(s \o t)
<1>1. /\ Len(s) \in Nat /\ Len(t) \in Nat /\ s \o t \in Seq(Nat)
      /\ DOMAIN s = 1 .. Len(s) /\ DOMAIN t = 1 .. Len(t)
      /\ DOMAIN (s \o t) = 1 .. (Len(s) + Len(t))
      /\ \A i \in 1 .. Len(s) + Len(t) : (s \o t)[i] = IF i <= Len(s) THEN s[i] ELSE t[i - Len(s)]
  <2>1. /\ s \o t \in Seq(Nat) /\ Len(s \o t) = Len(s) + Len(t)
        /\ \A i \in 1 .. Len(s) + Len(t) :
              (s \o t)[i] = IF i <= Len(s) THEN s[i] ELSE t[i - Len(s)]
    BY ConcatProperties
  <2>2. DOMAIN (s \o t) = 1 .. Len(s \o t)
    BY <2>1, LenProperties
  <2> QED
    BY <2>1, <2>2, LenProperties
<1>2. ASSUME NEW i \in DOMAIN s, s[i] = Newline PROVE HasNewline(s \o t)
  <2>1. i \in DOMAIN (s \o t) /\ (s \o t)[i] = Newline
    BY <1>1, <1>2
  <2> QED
    BY <2>1 DEF HasNewline
<1>3. ASSUME NEW i \in DOMAIN t, t[i] = Newline PROVE HasNewline(s \o t)
  <2>1. i + Len(s) \in DOMAIN (s \o t) /\ (s \o t)[i + Len(s)] = Newline
    BY <1>1, <1>3
  <2> QED
    BY <2>1 DEF HasNewline
<1> QED
  BY <1>2, <1>3 DEF HasNewline

\* A line, with its newline or without.
LineOr(line, ends) == line \o (IF ends THEN <<Newline>> ELSE <<>>)

\* The newline of a line is its end.
IsEnd(line, ends, s, t) ==
    (s \o t = LineOr(line, ends) /\ HasNewline(s)) => (ends /\ t = <<>>)

LEMMA NewlineIsLast ==
    ASSUME NEW line \in Seq(Nat), ~HasNewline(line), NEW ends \in BOOLEAN,
           NEW s \in Seq(Nat), NEW t \in Seq(Nat)
    PROVE  IsEnd(line, ends, s, t)
<1> SUFFICES ASSUME s \o t = LineOr(line, ends), HasNewline(s)
             PROVE  ends /\ t = <<>>
  BY DEF IsEnd
<1>0. \A i \in DOMAIN line : line[i] # Newline
  BY DEF HasNewline
<1>1. PICK i \in DOMAIN s : s[i] = Newline
  BY DEF HasNewline
<1>2. /\ Len(s) \in Nat /\ Len(t) \in Nat /\ Len(line) \in Nat /\ i \in 1 .. Len(s)
      /\ DOMAIN line = 1 .. Len(line)
  BY LenProperties
<1>3. Len(s \o t) = Len(s) + Len(t) /\ (s \o t)[i] = Newline
  BY <1>1, <1>2, ConcatProperties
<1>4. CASE ~ends
  <2>1. LineOr(line, ends) = line
    BY <1>4, ConcatEmptySeq DEF LineOr
  <2> QED
    BY <1>0, <1>2, <1>3, <2>1
<1>5. CASE ends
  <2>1. <<Newline>> \in Seq(Nat) /\ Len(<<Newline>>) = 1
    BY DEF Newline
  <2>2. LineOr(line, ends) = line \o <<Newline>>
    BY <1>5 DEF LineOr
  <2>3. /\ Len(line \o <<Newline>>) = Len(line) + 1
        /\ \A j \in 1 .. Len(line) : (line \o <<Newline>>)[j] = line[j]
    BY <1>2, <2>1, ConcatProperties
  <2>4. i > Len(line)
    BY <1>0, <1>2, <1>3, <2>2, <2>3
  <2>5. Len(t) = 0
    BY <1>2, <1>3, <2>2, <2>3, <2>4
  <2> QED
    BY <1>5, <2>5, EmptySeq
<1> QED
  BY <1>4, <1>5

-----------------------------------------------------------------------------
(* The invariant. *)

InCall == phase \in {"line", "newline", "reading"}

\* The state the pipes depend on.  What is in `keys` has an invariant of its own,
\* KeysInv below.
Shape ==
    /\ lines \in Texts /\ command \in Commands
    /\ phase \in {"forking", "signals", "building", "line", "newline", "reading",
                  "killing", "waiting", "ended"}
    /\ n \in 0 .. Len(lines) /\ (InCall => n >= 1)
    /\ toWrite \in Seq(Nat) /\ buf \in Seq(Nat)
    /\ sendPipe \in Seq(Nat) /\ Len(sendPipe) <= PipeCapacity
    /\ receivePipe \in Seq(Nat) /\ Len(receivePipe) <= PipeCapacity
    /\ parentEnds \subseteq PipeEnds
    /\ child \in [state : {"none", "forked", "running", "zombie", "reaped"},
                  ends : SUBSET PipeEnds, taken : Seq(Nat), answer : Seq(Nat)]

\* There is no child before fork(), and none when the destructor is done.
Children ==
    /\ phase = "forking" => child.state = "none"
    /\ phase = "ended" => child.state \in {"none", "reaped"}

\* The bytes of a call, from those read by the parent to those not yet written.
Together(a, b, c, d, e, f) == a \o b \o c \o d \o e \o f

Flight == Together(buf, receivePipe, child.answer, child.taken, sendPipe, toWrite)

\* Between calls nothing is on its way; in a call the line is, and a command that
\* reads a whole line first has read it when it answers.
InFlight ==
    /\ phase \in {"forking", "signals", "building"} =>
          /\ sendPipe = <<>> /\ receivePipe = <<>>
          /\ child.answer = <<>> /\ child.taken = <<>>
    /\ InCall => Flight = LineOr(lines[n], phase # "line")
    /\ command = "copies" => child.taken = <<>>
    /\ (InCall /\ command = "answers" /\ child.answer # <<>>) =>
          phase # "line" /\ toWrite = <<>>

IInv ==
    /\ Shape
    /\ Children
    /\ (OneLineEach /\ child.state \in {"none", "forked", "running"}) => InFlight

\* A line of a text has no newline.
LEMMA LinesHaveNoNewline ==
    ASSUME Shape, NEW i \in 1 .. Len(lines)
    PROVE  lines[i] \in Seq(Nat) /\ ~HasNewline(lines[i])
<1>1. /\ lines \in Seq(Seq(Nat))
      /\ \A m \in DOMAIN lines : \A j \in DOMAIN lines[m] : lines[m][j] # Newline
  BY TextsAssumption DEF Shape
<1>2. i \in DOMAIN lines
  BY <1>1, LenProperties
<1> QED
  BY <1>1, <1>2, ElementOfSeq DEF HasNewline

LEMMA EmptyIsBytes == <<>> \in Seq(Nat) /\ <<Newline>> \in Seq(Nat)
BY DEF Newline

\* What a record of the child is made of.
ChildType == [state : {"none", "forked", "running", "zombie", "reaped"},
              ends : SUBSET PipeEnds, taken : Seq(Nat), answer : Seq(Nat)]

LEMMA InitInv == Init => IInv
<1> SUFFICES ASSUME Init PROVE IInv
  OBVIOUS
<1>1. /\ phase = "forking" /\ n = 0 /\ toWrite = <<>> /\ sendPipe = <<>> /\ receivePipe = <<>>
      /\ buf = <<>> /\ parentEnds = PipeEnds /\ lines \in Texts /\ command \in Commands
      /\ child = [state |-> "none", ends |-> {}, taken |-> <<>>, answer |-> <<>>]
  BY DEF Init
<1>2. lines \in Seq(Seq(Nat)) /\ Len(<<>>) = 0 /\ <<>> \in Seq(Nat)
  BY <1>1, TextsAssumption
<1>3. 0 \in 0 .. Len(lines)
  BY <1>2, LenProperties
<1>4. Shape
  BY <1>1, <1>2, <1>3, CapacityAssumption DEF Shape, InCall
<1>5. Children /\ InFlight
  BY <1>1 DEF Children, InFlight, InCall
<1> QED
  BY <1>4, <1>5 DEF IInv

-----------------------------------------------------------------------------
(* The steps that leave the bytes alone, or end the call.                   *)

\* After an exception, and without a child, there is nothing to show of the bytes.
LEMMA OtherSteps ==
    ASSUME IInv, \/ Fork \/ ForkFails \/ IgnoreSignals \/ WriteFails \/ ReadFails
                 \/ BuildOver \/ Kill \/ Wait \/ RunChild \/ ChildDies \/ ChildTerminates
    PROVE  IInv'
<1>1. UNCHANGED <<lines, command, n, toWrite, buf, sendPipe, receivePipe>>
  BY DEF Fork, ForkFails, IgnoreSignals, WriteFails, ReadFails, AtEof, Throw, BuildOver, Kill,
         Wait, RunChild, ChildDies, ChildTerminates, Die, parentVars
<1>2. Shape /\ child \in ChildType /\ parentEnds \subseteq PipeEnds /\ Children
  BY DEF IInv, Shape, ChildType
<1>3. /\ child' \in ChildType /\ parentEnds' \subseteq PipeEnds
      /\ \/ child'.taken = child.taken /\ child'.answer = child.answer
         \/ child'.state \in {"zombie", "reaped"}
      /\ child'.state \in {"none", "forked", "running"} =>
            child.state \in {"none", "forked", "running"}
  <2>1. CASE Fork
    BY <1>2, <2>1 DEF Fork, Children, ChildType, ParentEndsOf
  <2>2. CASE ForkFails \/ IgnoreSignals \/ WriteFails \/ ReadFails \/ BuildOver \/ Kill
    BY <1>2, <2>2 DEF ForkFails, IgnoreSignals, WriteFails, ReadFails, AtEof, Throw,
                      BuildOver, Kill
  <2>3. CASE Wait
    BY <1>2, <2>3 DEF Wait, WaitReturns, Alive, ChildType
  <2>4. CASE RunChild
    BY <1>2, <2>4 DEF RunChild, ChildType, parentVars
  <2>5. CASE ChildDies \/ ChildTerminates
    <3>1. /\ child' = [state |-> IF sigchld = "ignored" THEN "reaped" ELSE "zombie",
                       ends |-> {}, taken |-> <<>>, answer |-> <<>>]
          /\ parentEnds' = parentEnds
      BY <2>5 DEF ChildDies, ChildTerminates, Die, parentVars
    <3> QED
      BY <1>2, <3>1, EmptyIsBytes DEF ChildType
  <2> QED
    BY <2>1, <2>2, <2>3, <2>4, <2>5
<1>4. \/ phase' = phase
      \/ phase \in {"forking", "signals"} /\ phase' \in {"signals", "building"}
      \/ phase' \in {"killing", "waiting", "ended"}
  BY DEF Fork, ForkFails, IgnoreSignals, WriteFails, ReadFails, AtEof, Throw, BuildOver, Kill,
         Wait, RunChild, ChildDies, ChildTerminates, Die, parentVars
<1>5. Shape'
  BY <1>1, <1>2, <1>3, <1>4 DEF Shape, InCall, ChildType
<1>6. Children'
  <2>1. CASE Fork \/ ForkFails \/ IgnoreSignals
    BY <1>2, <2>1 DEF Children, Fork, ForkFails, IgnoreSignals
  <2>2. CASE WriteFails \/ ReadFails \/ BuildOver \/ Kill
    BY <1>2, <2>2 DEF Children, WriteFails, ReadFails, Throw, BuildOver, Kill
  <2>3. CASE Wait
    BY <1>2, <2>3 DEF Children, Wait, WaitReturns, Alive, ChildType
  <2>4. CASE RunChild
    BY <1>2, <2>4 DEF Children, RunChild, parentVars, ChildType
  <2>5. CASE ChildDies \/ ChildTerminates
    BY <1>2, <2>5 DEF Children, ChildDies, ChildTerminates, Die, Alive, parentVars
  <2> QED
    BY <2>1, <2>2, <2>3, <2>4, <2>5
<1>7. ASSUME OneLineEach', child'.state \in {"none", "forked", "running"}
      PROVE  InFlight'
  <2>1. InFlight
    BY <1>1, <1>3, <1>7 DEF IInv, OneLineEach
  <2>2. child'.taken = child.taken /\ child'.answer = child.answer
    BY <1>3, <1>7
  <2> QED
    BY <1>1, <1>4, <2>1, <2>2 DEF InFlight, InCall, Flight
<1> QED
  BY <1>5, <1>6, <1>7 DEF IInv

-----------------------------------------------------------------------------
(* The steps that move bytes. *)

\* A piece moves from the pipe into buf.
WhenRead(a, b, c, d, e, f, k) ==
    Together(a \o SubSeq(b, 1, k), From(b, k + 1), c, d, e, f) = Together(a, b, c, d, e, f)

LEMMA PieceRead ==
    ASSUME NEW a \in Seq(Nat), NEW b \in Seq(Nat), NEW c \in Seq(Nat), NEW d \in Seq(Nat),
           NEW e \in Seq(Nat), NEW f \in Seq(Nat), NEW k \in 1 .. Len(b)
    PROVE  WhenRead(a, b, c, d, e, f, k)
<1>1. IsCut(b, k)
  BY Cut
<1>2. Associates(a, SubSeq(b, 1, k), From(b, k + 1))
  BY <1>1, Associative DEF IsCut
<1>3. (a \o SubSeq(b, 1, k)) \o From(b, k + 1) = a \o b
  BY <1>1, <1>2, Zenon DEF IsCut, Associates
<1> QED
  BY <1>3, Zenon DEF Together, WhenRead

\* A piece of the answer moves into the pipe.
WhenAnswered(a, b, c, d, e, f, k) ==
    Together(a, b \o SubSeq(c, 1, k), From(c, k + 1), d, e, f) = Together(a, b, c, d, e, f)

LEMMA PieceAnswered ==
    ASSUME NEW a \in Seq(Nat), NEW b \in Seq(Nat), NEW c \in Seq(Nat), NEW d \in Seq(Nat),
           NEW e \in Seq(Nat), NEW f \in Seq(Nat), NEW k \in 1 .. Len(c)
    PROVE  WhenAnswered(a, b, c, d, e, f, k)
<1>1. Moves(a, b, c, k)
  BY PieceMoves
<1> QED
  BY <1>1, Zenon DEF Together, WhenAnswered, Moves

\* A piece moves from the other pipe to the command.
WhenTaken(a, b, c, d, e, f, k) ==
    Together(a, b, c, d \o SubSeq(e, 1, k), From(e, k + 1), f) = Together(a, b, c, d, e, f)

LEMMA PieceTaken ==
    ASSUME NEW a \in Seq(Nat), NEW b \in Seq(Nat), NEW c \in Seq(Nat), NEW d \in Seq(Nat),
           NEW e \in Seq(Nat), NEW f \in Seq(Nat), NEW k \in 1 .. Len(e)
    PROVE  WhenTaken(a, b, c, d, e, f, k)
<1>1. a \o b \in Seq(Nat)
  BY ConcatIsBytes
<1>2. a \o b \o c \in Seq(Nat)
  BY <1>1, ConcatIsBytes
<1>3. Moves(a \o b \o c, d, e, k)
  BY <1>2, PieceMoves
<1> QED
  BY <1>3, Zenon DEF Together, WhenTaken, Moves

\* A piece of the line moves into that pipe.
WhenWritten(a, b, c, d, e, f, k) ==
    Together(a, b, c, d, e \o SubSeq(f, 1, k), From(f, k + 1)) = Together(a, b, c, d, e, f)

LEMMA PieceWritten ==
    ASSUME NEW a \in Seq(Nat), NEW b \in Seq(Nat), NEW c \in Seq(Nat), NEW d \in Seq(Nat),
           NEW e \in Seq(Nat), NEW f \in Seq(Nat), NEW k \in 1 .. Len(f)
    PROVE  WhenWritten(a, b, c, d, e, f, k)
<1>1. a \o b \in Seq(Nat)
  BY ConcatIsBytes
<1>2. a \o b \o c \in Seq(Nat)
  BY <1>1, ConcatIsBytes
<1>3. a \o b \o c \o d \in Seq(Nat)
  BY <1>2, ConcatIsBytes
<1>4. Moves(a \o b \o c \o d, e, f, k)
  BY <1>3, PieceMoves
<1> QED
  BY <1>4, Zenon DEF Together, WhenWritten, Moves

\* What comes after the newline is empty.
AreAtEnd(line, ends, a, b, c, d, e, f) ==
    Together(a, b, c, d, e, f) = LineOr(line, ends) =>
        /\ HasNewline(a) => b = <<>> /\ c = <<>> /\ d = <<>> /\ e = <<>> /\ f = <<>> /\ ends
        /\ HasNewline(d) => f = <<>> /\ ends

LEMMA NothingAfterNewline ==
    ASSUME NEW line \in Seq(Nat), ~HasNewline(line), NEW ends \in BOOLEAN,
           NEW a \in Seq(Nat), NEW b \in Seq(Nat), NEW c \in Seq(Nat), NEW d \in Seq(Nat),
           NEW e \in Seq(Nat), NEW f \in Seq(Nat)
    PROVE  AreAtEnd(line, ends, a, b, c, d, e, f)
<1> SUFFICES ASSUME Together(a, b, c, d, e, f) = LineOr(line, ends)
             PROVE  /\ HasNewline(a) => b = <<>> /\ c = <<>> /\ d = <<>> /\ e = <<>>
                                           /\ f = <<>> /\ ends
                    /\ HasNewline(d) => f = <<>> /\ ends
  BY DEF AreAtEnd
<1>1. a \o b \in Seq(Nat) /\ (HasNewline(a) => HasNewline(a \o b))
  BY ConcatIsBytes, NewlineStays
<1>2. a \o b \o c \in Seq(Nat) /\ (HasNewline(a) => HasNewline(a \o b \o c))
  BY <1>1, ConcatIsBytes, NewlineStays
<1>3. /\ a \o b \o c \o d \in Seq(Nat)
      /\ (HasNewline(a) \/ HasNewline(d) => HasNewline(a \o b \o c \o d))
  BY <1>2, ConcatIsBytes, NewlineStays
<1>4. /\ a \o b \o c \o d \o e \in Seq(Nat)
      /\ (HasNewline(a) \/ HasNewline(d) => HasNewline(a \o b \o c \o d \o e))
  BY <1>3, ConcatIsBytes, NewlineStays
<1>5. /\ IsEnd(line, ends, a \o b \o c \o d \o e, f)
      /\ IsEnd(line, ends, a \o b \o c \o d, e)
      /\ IsEnd(line, ends, a \o b \o c, d)
      /\ IsEnd(line, ends, a \o b, c)
      /\ IsEnd(line, ends, a, b)
  BY <1>1, <1>2, <1>3, <1>4, NewlineIsLast, Zenon
<1>6. (HasNewline(a) \/ HasNewline(d)) => (ends /\ f = <<>>)
  BY <1>4, <1>5 DEF IsEnd, Together
<1>7. ASSUME HasNewline(a)
      PROVE  b = <<>> /\ c = <<>> /\ d = <<>> /\ e = <<>>
  <2>1. a \o b \o c \o d \o e = LineOr(line, ends)
    BY <1>4, <1>6, <1>7, ConcatEmptySeq DEF Together
  <2>2. e = <<>>
    BY <1>3, <1>5, <1>7, <2>1 DEF IsEnd
  <2>3. a \o b \o c \o d = LineOr(line, ends)
    BY <1>3, <2>1, <2>2, ConcatEmptySeq
  <2>4. d = <<>>
    BY <1>2, <1>5, <1>7, <2>3 DEF IsEnd
  <2>5. a \o b \o c = LineOr(line, ends)
    BY <1>2, <2>3, <2>4, ConcatEmptySeq
  <2>6. c = <<>>
    BY <1>1, <1>5, <1>7, <2>5 DEF IsEnd
  <2>7. a \o b = LineOr(line, ends)
    BY <1>1, <2>5, <2>6, ConcatEmptySeq
  <2>8. b = <<>>
    BY <1>5, <1>7, <2>7 DEF IsEnd
  <2> QED
    BY <2>2, <2>4, <2>6, <2>8
<1> QED
  BY <1>6, <1>7

\* index() starts with nothing on its way.
LEMMA IndexLineStep == ASSUME IInv, IndexLine PROVE IInv'
<1>1. /\ phase = "building" /\ n < Len(lines) /\ n' = n + 1 /\ toWrite' = lines[n + 1]
      /\ buf' = <<>> /\ phase' = "line"
      /\ UNCHANGED <<lines, command, parentEnds, sendPipe, receivePipe, child>>
  BY DEF IndexLine, WrittenFirst, NewBuf
<1>2. Shape /\ lines \in Seq(Seq(Nat))
  BY TextsAssumption DEF IInv, Shape
<1>3. n + 1 \in 1 .. Len(lines) /\ n + 1 \in 0 .. Len(lines)
  BY <1>1, <1>2, LenProperties DEF Shape
<1>4. lines[n + 1] \in Seq(Nat)
  BY <1>2, <1>3, LinesHaveNoNewline
<1>5. Shape'
  BY <1>1, <1>2, <1>3, <1>4, EmptyIsBytes DEF Shape, InCall
<1>6. Children'
  BY <1>1 DEF Children
<1>7. ASSUME OneLineEach', child'.state \in {"none", "forked", "running"}
      PROVE  InFlight'
  <2>1. /\ sendPipe = <<>> /\ receivePipe = <<>> /\ child.answer = <<>> /\ child.taken = <<>>
        /\ command = "copies" => child.taken = <<>>
    BY <1>1, <1>7 DEF IInv, OneLineEach, InFlight
  <2>2. <<>> \o <<>> \o <<>> \o <<>> \o <<>> \o lines[n + 1] = lines[n + 1]
    BY <1>4, EmptyIsBytes, ConcatEmptySeq
  <2>3. LineOr(lines[n + 1], FALSE) = lines[n + 1]
    BY <1>4, ConcatEmptySeq DEF LineOr
  <2>4. Flight' = LineOr(lines[n + 1], FALSE)
    BY <1>1, <2>1, <2>2, <2>3 DEF Flight, Together
  <2> QED
    BY <1>1, <2>1, <2>4 DEF InFlight, InCall
<1> QED
  BY <1>5, <1>6, <1>7 DEF IInv

\* write() moves a piece of the line, or the newline, into the pipe.
LEMMA WriteSomeStep == ASSUME IInv, WriteSome PROVE IInv'
<1>1. PICK k \in 1 .. Fewer(Len(toWrite), PipeCapacity - Len(sendPipe)) :
         /\ sendPipe' = sendPipe \o SubSeq(toWrite, 1, k)
         /\ toWrite' = From(toWrite, k + 1)
  BY DEF WriteSome
<1>2. /\ phase \in {"line", "newline"}
      /\ UNCHANGED <<lines, command, phase, n, buf, parentEnds, receivePipe, child>>
  BY DEF WriteSome
<1>3. /\ Shape /\ Len(toWrite) \in Nat /\ Len(sendPipe) \in Nat
      /\ PipeCapacity \in Nat
  BY CapacityAssumption, LenProperties DEF IInv, Shape
<1>4. k \in 1 .. Len(toWrite) /\ k <= PipeCapacity - Len(sendPipe) /\ toWrite # <<>>
  <2>1. k \in 1 .. Len(toWrite) /\ k <= PipeCapacity - Len(sendPipe)
    BY <1>1, <1>3 DEF Fewer
  <2> QED
    BY <2>1
<1>5. toWrite \in Seq(Nat) /\ sendPipe \in Seq(Nat) /\ Len(sendPipe) <= PipeCapacity
  BY <1>3 DEF Shape
<1>6. IsCut(toWrite, k)
  BY <1>4, <1>5, Cut
<1>7. toWrite' \in Seq(Nat) /\ sendPipe' \in Seq(Nat) /\ Len(sendPipe') <= PipeCapacity
  <2>1. SubSeq(toWrite, 1, k) \in Seq(Nat) /\ Len(SubSeq(toWrite, 1, k)) = k
    BY <1>6 DEF IsCut
  <2>2. sendPipe' \in Seq(Nat) /\ Len(sendPipe') = Len(sendPipe) + k
    BY <1>1, <1>5, <2>1, ConcatIsBytes
  <2> QED
    BY <1>1, <1>3, <1>4, <1>6, <2>2 DEF IsCut
<1>8. Shape'
  BY <1>2, <1>3, <1>7 DEF Shape, InCall
<1>9. Children'
  BY <1>2 DEF IInv, Children
<1>10. ASSUME OneLineEach', child'.state \in {"none", "forked", "running"}
       PROVE  InFlight'
  <2>1. InFlight
    BY <1>2, <1>10 DEF IInv, OneLineEach
  <2>2. buf \in Seq(Nat) /\ receivePipe \in Seq(Nat) /\ child.answer \in Seq(Nat)
        /\ child.taken \in Seq(Nat)
    BY <1>3 DEF Shape
  <2>3. Flight' = Flight
    <3>1. Flight' = Together(buf, receivePipe, child.answer, child.taken,
                             sendPipe \o SubSeq(toWrite, 1, k), From(toWrite, k + 1))
      BY <1>1, <1>2 DEF Flight
    <3>2. WhenWritten(buf, receivePipe, child.answer, child.taken, sendPipe, toWrite, k)
      BY <1>4, <1>5, <2>2, PieceWritten
    <3> QED
      BY <3>1, <3>2 DEF Flight, WhenWritten
  <2>4. ~(command = "answers" /\ child.answer # <<>>)
    BY <1>2, <1>4, <2>1 DEF InFlight, InCall
  <2> QED
    BY <1>2, <2>1, <2>3, <2>4 DEF InFlight, InCall
<1> QED
  BY <1>8, <1>9, <1>10 DEF IInv

\* The newline follows when the whole line is written.
WhenAdded(line, a, b, c, d, e) ==
    Together(a, b, c, d, e, <<>>) = LineOr(line, FALSE) =>
        Together(a, b, c, d, e, <<Newline>>) = LineOr(line, TRUE)

LEMMA NewlineAdded ==
    ASSUME NEW line \in Seq(Nat),
           NEW a \in Seq(Nat), NEW b \in Seq(Nat), NEW c \in Seq(Nat), NEW d \in Seq(Nat),
           NEW e \in Seq(Nat)
    PROVE  WhenAdded(line, a, b, c, d, e)
<1> SUFFICES ASSUME Together(a, b, c, d, e, <<>>) = LineOr(line, FALSE)
             PROVE  Together(a, b, c, d, e, <<Newline>>) = LineOr(line, TRUE)
  BY DEF WhenAdded
<1>1. a \o b \in Seq(Nat)
  BY ConcatIsBytes
<1>2. a \o b \o c \in Seq(Nat)
  BY <1>1, ConcatIsBytes
<1>3. a \o b \o c \o d \in Seq(Nat)
  BY <1>2, ConcatIsBytes
<1>4. a \o b \o c \o d \o e \in Seq(Nat)
  BY <1>3, ConcatIsBytes
<1>5. a \o b \o c \o d \o e \o <<>> = a \o b \o c \o d \o e
  BY <1>4, ConcatEmptySeq
<1>6. LineOr(line, FALSE) = line
  BY ConcatEmptySeq DEF LineOr
<1>7. a \o b \o c \o d \o e = line
  BY <1>5, <1>6 DEF Together
<1> QED
  BY <1>7 DEF Together, LineOr

\* write() returns: the newline is next, or the answer.
LEMMA WrittenSteps == ASSUME IInv, LineWritten \/ NewlineWritten PROVE IInv'
<1>1. /\ UNCHANGED <<lines, command, n, buf, parentEnds, sendPipe, receivePipe, child>>
      /\ toWrite = <<>>
      /\ \/ phase = "line" /\ phase' = "newline" /\ toWrite' = <<Newline>>
         \/ phase = "newline" /\ phase' = "reading" /\ toWrite' = toWrite
  BY DEF LineWritten, NewlineWritten
<1>2. Shape
  BY DEF IInv
<1>3. Shape'
  BY <1>1, <1>2, EmptyIsBytes DEF Shape, InCall
<1>4. Children'
  BY <1>1 DEF Children
<1>5. ASSUME OneLineEach', child'.state \in {"none", "forked", "running"}
      PROVE  InFlight'
  <2>1. InFlight
    BY <1>1, <1>5 DEF IInv, OneLineEach
  <2>2. CASE phase = "newline"
    BY <1>1, <2>1, <2>2 DEF InFlight, InCall, Flight
  <2>3. CASE phase = "line"
    <3>1. /\ buf \in Seq(Nat) /\ receivePipe \in Seq(Nat) /\ child.answer \in Seq(Nat)
          /\ child.taken \in Seq(Nat) /\ sendPipe \in Seq(Nat)
          /\ n \in 1 .. Len(lines)
      BY <1>2, <2>3 DEF Shape, InCall
    <3>2. lines[n] \in Seq(Nat)
      BY <1>2, <3>1, LinesHaveNoNewline
    <3>3. Together(buf, receivePipe, child.answer, child.taken, sendPipe, <<>>)
             = LineOr(lines[n], FALSE)
      BY <1>1, <2>1, <2>3 DEF InFlight, InCall, Flight
    <3>4. WhenAdded(lines[n], buf, receivePipe, child.answer, child.taken, sendPipe)
      BY <3>1, <3>2, NewlineAdded
    <3>5. Flight' = LineOr(lines[n], TRUE)
      BY <1>1, <2>3, <3>3, <3>4 DEF Flight, WhenAdded
    <3> QED
      BY <1>1, <2>1, <2>3, <3>5 DEF InFlight, InCall
  <2> QED
    BY <1>1, <2>2, <2>3
<1> QED
  BY <1>3, <1>4, <1>5 DEF IInv

\* The command moves a piece of its answer into the pipe back.
LEMMA ChildWritesStep == ASSUME IInv, ChildWrites PROVE IInv'
<1>1. PICK k \in 1 .. Fewer(Len(child.answer), PipeCapacity - Len(receivePipe)) :
         /\ receivePipe' = receivePipe \o SubSeq(child.answer, 1, k)
         /\ child' = [child EXCEPT !.answer = From(@, k + 1)]
  BY DEF ChildWrites
<1>2. UNCHANGED <<lines, command, phase, n, toWrite, buf, parentEnds, sendPipe>>
  BY DEF ChildWrites, parentVars
<1>3. Shape /\ child \in ChildType
  BY DEF IInv, Shape, ChildType
<1>4. /\ child.answer \in Seq(Nat) /\ child.taken \in Seq(Nat)
      /\ receivePipe \in Seq(Nat) /\ Len(receivePipe) <= PipeCapacity
      /\ buf \in Seq(Nat) /\ sendPipe \in Seq(Nat) /\ toWrite \in Seq(Nat)
  BY <1>3 DEF Shape
<1>5. /\ k \in 1 .. Len(child.answer) /\ k <= PipeCapacity - Len(receivePipe)
      /\ child.answer # <<>>
  <2>1. Len(child.answer) \in Nat /\ Len(receivePipe) \in Nat /\ PipeCapacity \in Nat
    BY <1>4, LenProperties, CapacityAssumption
  <2>2. k \in 1 .. Len(child.answer) /\ k <= PipeCapacity - Len(receivePipe)
    BY <1>1, <2>1 DEF Fewer
  <2> QED
    BY <2>2
<1>6. IsCut(child.answer, k)
  BY <1>4, <1>5, Cut
<1>7. receivePipe' \in Seq(Nat) /\ Len(receivePipe') <= PipeCapacity
  <2>1. SubSeq(child.answer, 1, k) \in Seq(Nat) /\ Len(SubSeq(child.answer, 1, k)) = k
    BY <1>6 DEF IsCut
  <2>2. receivePipe' \in Seq(Nat) /\ Len(receivePipe') = Len(receivePipe) + k
    BY <1>1, <1>4, <2>1, ConcatIsBytes
  <2> QED
    BY <1>4, <1>5, <2>2, LenProperties, CapacityAssumption
<1>8. /\ child' \in ChildType /\ child'.state = child.state /\ child'.taken = child.taken
      /\ child'.answer = From(child.answer, k + 1)
  BY <1>1, <1>3, <1>6 DEF ChildType, IsCut
<1>9. Shape'
  BY <1>2, <1>3, <1>7, <1>8 DEF Shape, InCall, ChildType
<1>10. Children'
  BY <1>2, <1>8 DEF IInv, Children
<1>11. ASSUME OneLineEach', child'.state \in {"none", "forked", "running"}
       PROVE  InFlight'
  <2>1. InFlight
    BY <1>2, <1>8, <1>11 DEF IInv, OneLineEach
  <2>2. Flight' = Flight
    <3>1. Flight' = Together(buf, receivePipe \o SubSeq(child.answer, 1, k),
                             From(child.answer, k + 1), child.taken, sendPipe, toWrite)
      BY <1>1, <1>2, <1>8 DEF Flight
    <3>2. WhenAnswered(buf, receivePipe, child.answer, child.taken, sendPipe, toWrite, k)
      BY <1>4, <1>5, PieceAnswered
    <3> QED
      BY <3>1, <3>2 DEF Flight, WhenAnswered
  <2> QED
    BY <1>2, <1>5, <1>8, <2>1, <2>2 DEF InFlight, InCall
<1> QED
  BY <1>9, <1>10, <1>11 DEF IInv

\* The line, with the ends of it that are still on their way.
AreOfLine(a, b, c, d, e, f) ==
    Together(a, b, c, d, e, f) = Flight =>
        /\ HasNewline(a) => b = <<>> /\ c = <<>> /\ d = <<>> /\ e = <<>> /\ f = <<>>
        /\ HasNewline(d) => f = <<>> /\ phase # "line"

LEMMA LineOnItsWay ==
    ASSUME Shape, InFlight, InCall,
           NEW a \in Seq(Nat), NEW b \in Seq(Nat), NEW c \in Seq(Nat), NEW d \in Seq(Nat),
           NEW e \in Seq(Nat), NEW f \in Seq(Nat)
    PROVE  AreOfLine(a, b, c, d, e, f)
<1> SUFFICES ASSUME Together(a, b, c, d, e, f) = Flight
             PROVE  /\ HasNewline(a) => b = <<>> /\ c = <<>> /\ d = <<>> /\ e = <<>> /\ f = <<>>
                    /\ HasNewline(d) => f = <<>> /\ phase # "line"
  BY DEF AreOfLine
<1>1. n \in 1 .. Len(lines)
  BY DEF Shape
<1>2. lines[n] \in Seq(Nat) /\ ~HasNewline(lines[n]) /\ (phase # "line") \in BOOLEAN
  BY <1>1, LinesHaveNoNewline
<1>3. AreAtEnd(lines[n], phase # "line", a, b, c, d, e, f)
  BY <1>2, NothingAfterNewline
<1>4. Together(a, b, c, d, e, f) = LineOr(lines[n], phase # "line")
  BY DEF InFlight
<1> QED
  BY <1>3, <1>4 DEF AreAtEnd

\* The command reads a piece, and may have an answer to what it has then.
LEMMA ChildReadsStep == ASSUME IInv, ChildReads PROVE IInv'
<1>1. PICK k \in 1 .. Len(sendPipe) :
         LET taken == child.taken \o SubSeq(sendPipe, 1, k)
             answer == AnswerTo(taken)
         IN  /\ sendPipe' = From(sendPipe, k + 1)
             /\ child' = [child EXCEPT !.taken = IF answer = <<>> THEN taken ELSE <<>>,
                                       !.answer = answer]
  BY DEF ChildReads
<1> DEFINE taken == child.taken \o SubSeq(sendPipe, 1, k)
           answer == AnswerTo(taken)
<1>2. /\ child.answer = <<>> /\ child.state = "running"
      /\ UNCHANGED <<lines, command, phase, n, toWrite, buf, parentEnds, receivePipe>>
  BY DEF ChildReads, parentVars
<1>3. Shape /\ child \in ChildType
  BY DEF IInv, Shape, ChildType
<1>4. /\ child.answer \in Seq(Nat) /\ child.taken \in Seq(Nat) /\ receivePipe \in Seq(Nat)
      /\ buf \in Seq(Nat) /\ sendPipe \in Seq(Nat) /\ toWrite \in Seq(Nat)
      /\ Len(sendPipe) <= PipeCapacity /\ Len(sendPipe) \in Nat /\ PipeCapacity \in Nat
  BY <1>3, LenProperties, CapacityAssumption DEF Shape
<1>5. IsCut(sendPipe, k) /\ sendPipe # <<>>
  BY <1>4, Cut
<1>6. taken \in Seq(Nat) /\ Len(taken) > 0
  <2>1. Len(child.taken) \in Nat
    BY <1>4, LenProperties
  <2>2. SubSeq(sendPipe, 1, k) \in Seq(Nat) /\ Len(SubSeq(sendPipe, 1, k)) = k
    BY <1>5 DEF IsCut
  <2>3. taken \in Seq(Nat) /\ Len(taken) = Len(child.taken) + k
    BY <1>4, <2>2, ConcatIsBytes
  <2> QED
    BY <2>1, <2>3
<1>7. /\ answer \in Seq(Nat)
      /\ OneLineEach => answer \in {taken, <<>>}
      /\ command = "copies" => answer = taken
      /\ (command = "answers" /\ answer # <<>>) => HasNewline(taken)
  <2>1. taken \o taken \in Seq(Nat)
    BY <1>6, ConcatIsBytes
  <2>2. command \in {"copies", "answers", "repeats"}
    BY <1>3, CommandsAssumption DEF Shape
  <2> HIDE DEF taken
  <2> QED
    BY <1>6, <2>1, <2>2, EmptyIsBytes DEF AnswerTo, OneLineEach
<1>8. /\ child' \in ChildType /\ child'.state = "running"
      /\ child'.taken = (IF answer = <<>> THEN taken ELSE <<>>) /\ child'.answer = answer
      /\ sendPipe' = From(sendPipe, k + 1)
  <2>1. (IF answer = <<>> THEN taken ELSE <<>>) \in Seq(Nat)
    BY <1>6, EmptyIsBytes
  <2>2. /\ child' = [child EXCEPT !.taken = IF answer = <<>> THEN taken ELSE <<>>,
                                  !.answer = answer]
        /\ sendPipe' = From(sendPipe, k + 1)
    BY <1>1
  <2> HIDE DEF taken, answer
  <2> QED
    BY <1>2, <1>3, <1>7, <2>1, <2>2 DEF ChildType
<1>9. sendPipe' \in Seq(Nat) /\ Len(sendPipe') <= PipeCapacity
  BY <1>4, <1>5, <1>8 DEF IsCut
<1> HIDE DEF taken, answer
<1>10. Shape'
  BY <1>2, <1>3, <1>8, <1>9 DEF Shape, InCall, ChildType
<1>11. Children'
  BY <1>2, <1>8 DEF IInv, Children
<1>12. ASSUME OneLineEach', child'.state \in {"none", "forked", "running"}
       PROVE  InFlight'
  <2>1. InFlight /\ OneLineEach
    BY <1>2, <1>12 DEF IInv, OneLineEach
  <2>2. phase \notin {"forking", "signals", "building"}
    BY <1>5, <2>1 DEF InFlight
  <2>3. Together(buf, receivePipe, <<>>, taken, From(sendPipe, k + 1), toWrite) = Flight
    <3>1. WhenTaken(buf, receivePipe, child.answer, child.taken, sendPipe, toWrite, k)
      BY <1>4, PieceTaken
    <3> QED
      BY <1>2, <3>1 DEF Flight, WhenTaken, taken
  <2>4. Flight' = Flight
    <3>1. CASE answer = <<>>
      BY <1>2, <1>8, <2>3, <3>1 DEF Flight
    <3>2. CASE answer = taken /\ answer # <<>>
      <4>1. Flight' = Together(buf, receivePipe, taken, <<>>, From(sendPipe, k + 1), toWrite)
        BY <1>2, <1>8, <3>2 DEF Flight
      <4>2. buf \o receivePipe \in Seq(Nat)
        BY <1>4, ConcatIsBytes
      <4>3. buf \o receivePipe \o taken \in Seq(Nat)
        BY <1>6, <4>2, ConcatIsBytes
      <4>4. buf \o receivePipe \o <<>> \o taken = buf \o receivePipe \o taken \o <<>>
        BY <4>2, <4>3, ConcatEmptySeq
      <4> QED
        BY <2>3, <4>1, <4>4 DEF Together
    <3> QED
      BY <1>7, <2>1, <3>1, <3>2
  <2>5. (InCall /\ command = "answers" /\ answer # <<>>) => phase # "line" /\ toWrite = <<>>
    <3> SUFFICES ASSUME InCall, HasNewline(taken)
                 PROVE  phase # "line" /\ toWrite = <<>>
      BY <1>7
    <3>1. From(sendPipe, k + 1) \in Seq(Nat)
      BY <1>8, <1>9
    <3>2. AreOfLine(buf, receivePipe, <<>>, taken, From(sendPipe, k + 1), toWrite)
      BY <1>3, <1>4, <1>6, <2>1, <3>1, EmptyIsBytes, LineOnItsWay
    <3> QED
      BY <2>3, <3>2 DEF AreOfLine
  <2>6. command = "copies" => child'.taken = <<>>
    BY <1>6, <1>7, <1>8
  <2> QED
    BY <1>2, <1>8, <2>1, <2>2, <2>4, <2>5, <2>6 DEF InFlight, InCall
<1> QED
  BY <1>10, <1>11, <1>12 DEF IInv

\* index() reads a block: the end of its answer, more of it, or too much.
LEMMA ReadStep == ASSUME IInv, Read PROVE IInv'
<1> DEFINE bytes == Fewer(Len(receivePipe), BlockSize)
           got == buf \o SubSeq(receivePipe, 1, bytes)
<1>1. /\ phase = "reading" /\ receivePipe # <<>>
      /\ receivePipe' = From(receivePipe, bytes + 1)
      /\ UNCHANGED <<lines, command, n, toWrite, parentEnds, sendPipe, child>>
      /\ \/ IsWhole(got) /\ buf' = got /\ phase' = "building"
         \/ phase' = "killing" /\ buf' = buf
         \/ buf' = got /\ phase' = phase
  BY DEF Read, Throw
<1>2. Shape
  BY DEF IInv
<1>3. /\ child.answer \in Seq(Nat) /\ child.taken \in Seq(Nat) /\ receivePipe \in Seq(Nat)
      /\ buf \in Seq(Nat) /\ sendPipe \in Seq(Nat) /\ toWrite \in Seq(Nat)
      /\ Len(receivePipe) <= PipeCapacity /\ Len(receivePipe) \in Nat /\ PipeCapacity \in Nat
  BY <1>2, LenProperties, CapacityAssumption DEF Shape
<1>4. bytes \in 1 .. Len(receivePipe)
  <2>1. Len(receivePipe) > 0
    BY <1>1, <1>3, EmptySeq
  <2> QED
    BY <1>3, <2>1, CapacityAssumption DEF Fewer
<1> HIDE DEF bytes
<1>5. IsCut(receivePipe, bytes)
  BY <1>3, <1>4, Cut
<1>6. receivePipe' \in Seq(Nat) /\ Len(receivePipe') <= PipeCapacity
  BY <1>1, <1>3, <1>4, <1>5 DEF IsCut
<1>7. got \in Seq(Nat) /\ Len(got) > 0
  <2>1. Len(buf) \in Nat
    BY <1>3, LenProperties
  <2>2. SubSeq(receivePipe, 1, bytes) \in Seq(Nat) /\ Len(SubSeq(receivePipe, 1, bytes)) = bytes
    BY <1>5 DEF IsCut
  <2>3. got \in Seq(Nat) /\ Len(got) = Len(buf) + bytes
    BY <1>3, <2>2, ConcatIsBytes
  <2> QED
    BY <1>4, <2>1, <2>3
<1>8. WhenRead(buf, receivePipe, child.answer, child.taken, sendPipe, toWrite, bytes)
  BY <1>3, <1>4, PieceRead
<1>9. Together(got, receivePipe', child.answer, child.taken, sendPipe, toWrite) = Flight
  BY <1>1, <1>8 DEF Flight, WhenRead
<1> HIDE DEF got
<1>10. Shape'
  BY <1>1, <1>2, <1>6, <1>7 DEF Shape, InCall
<1>11. Children'
  BY <1>1 DEF Children
<1>12. ASSUME OneLineEach', child'.state \in {"none", "forked", "running"}
       PROVE  InFlight'
  <2>1. InFlight /\ InCall
    BY <1>1, <1>12 DEF IInv, OneLineEach, InCall
  <2>2. CASE IsWhole(got) /\ buf' = got /\ phase' = "building"
    <3>1. HasNewline(got)
      <4>1. Len(got) \in DOMAIN got
        BY <1>7, LenProperties
      <4> QED
        BY <2>2, <4>1 DEF IsWhole, HasNewline
    <3>2. AreOfLine(got, receivePipe', child.answer, child.taken, sendPipe, toWrite)
      BY <1>2, <1>3, <1>6, <1>7, <2>1, LineOnItsWay
    <3>3. receivePipe' = <<>> /\ child.answer = <<>> /\ child.taken = <<>> /\ sendPipe = <<>>
      BY <1>9, <3>1, <3>2 DEF AreOfLine
    <3> QED
      BY <1>1, <2>2, <3>3 DEF InFlight, InCall
  <2>3. CASE phase' = "killing" /\ buf' = buf
    BY <1>1, <2>1, <2>3 DEF InFlight, InCall
  <2>4. CASE buf' = got /\ phase' = phase
    <3>1. Flight' = Flight
      BY <1>1, <1>9, <2>4 DEF Flight
    <3> QED
      BY <1>1, <2>1, <2>4, <3>1 DEF InFlight, InCall
  <2> QED
    BY <1>1, <2>2, <2>3, <2>4
<1> QED
  BY <1>10, <1>11, <1>12 DEF IInv

LEMMA NextInv == ASSUME IInv, [Next]_vars PROVE IInv'
<1>1. CASE \/ Fork \/ ForkFails \/ IgnoreSignals \/ WriteFails \/ ReadFails
           \/ BuildOver \/ Kill \/ Wait \/ RunChild \/ ChildDies \/ ChildTerminates
  BY <1>1, OtherSteps
<1>2. CASE IndexLine
  BY <1>2, IndexLineStep
<1>3. CASE WriteSome
  BY <1>3, WriteSomeStep
<1>4. CASE LineWritten \/ NewlineWritten
  BY <1>4, WrittenSteps
<1>5. CASE Read
  BY <1>5, ReadStep
<1>6. CASE ChildReads
  BY <1>6, ChildReadsStep
<1>7. CASE ChildWrites
  BY <1>7, ChildWritesStep
<1>8. CASE UNCHANGED vars
  BY <1>8 DEF vars, parentVars, IInv, Shape, InCall, Children, OneLineEach, InFlight, Flight
<1> QED
  BY <1>1, <1>2, <1>3, <1>4, <1>5, <1>6, <1>7, <1>8
  DEF Next, Parent, Construct, Index, Destroy, ChildWorks

THEOREM Invariant == Spec => []IInv
BY InitInv, NextInv, PTL DEF Spec

-----------------------------------------------------------------------------
\* zindex leaves no process and no zombie behind, however the build ends and whenever
\* the command dies (~ExternalIndexer).
THEOREM NoChildLeftHolds == Spec => []NoChildLeft
<1>1. IInv => NoChildLeft
  BY DEF IInv, Children, NoChildLeft
<1> QED
  BY <1>1, Invariant, PTL

\* Nothing of a line is lost, doubled or mixed with another on its way to the command
\* and back, whatever pieces the writes and reads cut it into (ExternalIndexer::index).
THEOREM LineInFlightHolds == Spec => []LineInFlight
<1>1. IInv => LineInFlight
  <2> SUFFICES ASSUME IInv, OneLineEach, child.state \in {"forked", "running"}, InCall
               PROVE  buf \o receivePipe \o child.answer \o child.taken \o sendPipe \o toWrite
                         = lines[n] \o (IF phase = "line" THEN <<>> ELSE <<Newline>>)
    BY DEF LineInFlight, InCall
  <2>1. Flight = LineOr(lines[n], phase # "line")
    BY DEF IInv, InFlight
  <2> QED
    BY <2>1 DEF Flight, Together, LineOr
<1> QED
  BY <1>1, Invariant, PTL

\* index() and a command that answers with a line can only wait for each other for
\* ever when the command answers in pieces and the line is longer than both pipes
\* (index() writes all of the line before it reads any of the answer).
THEOREM JamsOnlyIfTooLongHolds == Spec => []JamsOnlyIfTooLong
<1>1. IInv => JamsOnlyIfTooLong
  <2> SUFFICES ASSUME IInv, OneLineEach, Jammed
               PROVE  command = "copies" /\ ~Fits(lines[n])
    BY DEF JamsOnlyIfTooLong
  <2>1. Shape /\ InFlight /\ InCall
    BY DEF IInv, Jammed, InCall
  <2>2. command = "copies"
    BY <2>1 DEF InFlight, Jammed, OneLineEach
  <2>3. /\ buf \in Seq(Nat) /\ receivePipe \in Seq(Nat) /\ child.answer \in Seq(Nat)
        /\ child.taken \in Seq(Nat) /\ sendPipe \in Seq(Nat) /\ toWrite \in Seq(Nat)
    BY <2>1 DEF Shape
  <2>4. /\ Len(buf) \in Nat /\ Len(receivePipe) = PipeCapacity /\ Len(child.answer) > 0
        /\ Len(child.taken) \in Nat /\ Len(sendPipe) = PipeCapacity /\ Len(toWrite) > 0
        /\ Len(child.answer) \in Nat /\ Len(toWrite) \in Nat /\ PipeCapacity \in Nat
    BY <2>3, LenProperties, EmptySeq, CapacityAssumption DEF Jammed
  <2>5. Len(Flight) = Len(buf) + Len(receivePipe) + Len(child.answer) + Len(child.taken)
                         + Len(sendPipe) + Len(toWrite)
    <3>1. /\ buf \o receivePipe \in Seq(Nat)
          /\ Len(buf \o receivePipe) = Len(buf) + Len(receivePipe)
      BY <2>3, ConcatIsBytes
    <3>2. /\ buf \o receivePipe \o child.answer \in Seq(Nat)
          /\ Len(buf \o receivePipe \o child.answer)
                = Len(buf \o receivePipe) + Len(child.answer)
      BY <2>3, <3>1, ConcatIsBytes
    <3>3. /\ buf \o receivePipe \o child.answer \o child.taken \in Seq(Nat)
          /\ Len(buf \o receivePipe \o child.answer \o child.taken)
                = Len(buf \o receivePipe \o child.answer) + Len(child.taken)
      BY <2>3, <3>2, ConcatIsBytes
    <3>4. /\ buf \o receivePipe \o child.answer \o child.taken \o sendPipe \in Seq(Nat)
          /\ Len(buf \o receivePipe \o child.answer \o child.taken \o sendPipe)
                = Len(buf \o receivePipe \o child.answer \o child.taken) + Len(sendPipe)
      BY <2>3, <3>3, ConcatIsBytes
    <3>5. Len(Flight) = Len(buf \o receivePipe \o child.answer \o child.taken \o sendPipe)
                           + Len(toWrite)
      BY <2>3, <3>4, ConcatIsBytes DEF Flight, Together
    <3> QED
      BY <2>4, <3>1, <3>2, <3>3, <3>4, <3>5
  <2>6. n \in 1 .. Len(lines)
    BY <2>1 DEF Shape
  <2>7. lines[n] \in Seq(Nat)
    BY <2>1, <2>6, LinesHaveNoNewline
  <2>8. Len(lines[n]) \in Nat /\ Len(LineOr(lines[n], phase # "line")) <= Len(lines[n]) + 1
    <3>1. Len(lines[n]) \in Nat
      BY <2>7, LenProperties
    <3>2. /\ Len(lines[n] \o <<>>) = Len(lines[n]) + Len(<<>>)
          /\ Len(lines[n] \o <<Newline>>) = Len(lines[n]) + Len(<<Newline>>)
      BY <2>7, EmptyIsBytes, ConcatIsBytes
    <3>3. Len(<<>>) = 0 /\ Len(<<Newline>>) = 1
      OBVIOUS
    <3>4. \/ LineOr(lines[n], phase # "line") = lines[n] \o <<>>
          \/ LineOr(lines[n], phase # "line") = lines[n] \o <<Newline>>
      BY Zenon DEF LineOr
    <3> QED
      BY <3>1, <3>2, <3>3, <3>4
  <2>9. Flight = LineOr(lines[n], phase # "line")
    BY <2>1 DEF InFlight
  <2> DEFINE read == Len(buf)
             answered == Len(child.answer)
             taken == Len(child.taken)
             left == Len(toWrite)
             all == Len(Flight)
             line == Len(lines[n])
  <2>10. all = read + PipeCapacity + answered + taken + PipeCapacity + left
    BY <2>4, <2>5
  <2>11. all <= line + 1
    BY <2>8, <2>9
  <2>12. /\ read \in Nat /\ answered \in Nat /\ taken \in Nat /\ left \in Nat /\ line \in Nat
         /\ PipeCapacity \in Nat /\ answered > 0 /\ left > 0
    BY <2>4, <2>8
  <2> HIDE DEF read, answered, taken, left, all, line
  <2>13. ~(line <= 2 * PipeCapacity)
    BY <2>10, <2>11, <2>12
  <2> QED
    BY <2>2, <2>13 DEF Fits, line
<1> QED
  BY <1>1, Invariant, PTL

-----------------------------------------------------------------------------
(* The keys of an answer.  What the recursion of KeysOf computes is shown by  *)
(* taking the shortest end of the bytes for which it is not so.               *)

\* A set of numbers has a least one.  Induction over strict inclusion, applied to
\* the intervals that end in the set.
LEMMA LeastNumber ==
    ASSUME NEW T \in SUBSET Nat, T # {}
    PROVE  \E x \in T : \A y \in T : x <= y
<1> DEFINE F == {0 .. x : x \in T}
<1>1. IsWellFoundedOn(StrictSubsetOrdering(Nat), FiniteSubsetsOf(Nat))
  BY FS_StrictSubsetOrderingWellFounded
<1>2. F \subseteq FiniteSubsetsOf(Nat)
  <2>1. \A x \in T : IsFiniteSet(0 .. x)
    BY FS_Interval
  <2> QED
    BY <2>1 DEF FiniteSubsetsOf
<1>3. F # {}
  OBVIOUS
<1>4. PICK b \in F : \A c \in F : ~(<<c, b>> \in StrictSubsetOrdering(Nat))
  <2> HIDE DEF F
  <2> QED
    BY <1>1, <1>2, <1>3, WFMin
<1>5. PICK x \in T : b = 0 .. x
  OBVIOUS
<1>6. ASSUME NEW y \in T, y < x PROVE FALSE
  <2>1. <<0 .. y, 0 .. x>> \in StrictSubsetOrdering(Nat)
    <3>1. 0 .. y # 0 .. x
      BY <1>6
    <3>2. 0 .. y \subseteq 0 .. x
      BY <1>6
    <3>3. 0 .. y \in SUBSET Nat /\ 0 .. x \in SUBSET Nat
      OBVIOUS
    <3> QED
      BY <3>1, <3>2, <3>3 DEF StrictSubsetOrdering
  <2> QED
    BY <1>4, <1>5, <2>1
<1> QED
  BY <1>6

LEMMA NextSepIs ==
    ASSUME NEW bytes \in Seq(Nat), NEW ptr \in 1 .. (Len(bytes) + 1)
    PROVE  LET s == NextSep(bytes, ptr)
           IN  /\ s \in ptr .. (Len(bytes) + 1)
               /\ \A i \in ptr .. (s - 1) : bytes[i] # Separator
               /\ s <= Len(bytes) => bytes[s] = Separator
<1> DEFINE seps == {i \in ptr .. Len(bytes) : bytes[i] = Separator}
           s == NextSep(bytes, ptr)
<1>1. Len(bytes) \in Nat /\ ptr \in Nat
  BY LenProperties
<1>2. CASE seps = {}
  <2>1. s = Len(bytes) + 1
    BY <1>2 DEF NextSep
  <2> QED
    BY <1>1, <1>2, <2>1
<1>3. CASE seps # {}
  <2>1. seps \in SUBSET Nat
    BY <1>1
  <2>2. \E i \in seps : \A j \in seps : i <= j
    <3> HIDE DEF seps
    <3> QED
      BY <1>3, <2>1, LeastNumber
  <2>3. s = CHOOSE i \in seps : \A j \in seps : i <= j
    BY <1>3 DEF NextSep
  <2>4. s \in seps /\ \A j \in seps : s <= j
    <3> HIDE DEF seps, s
    <3> QED
      BY <2>2, <2>3
  <2>5. /\ s \in ptr .. (Len(bytes) + 1) /\ bytes[s] = Separator
        /\ \A i \in ptr .. (s - 1) : bytes[i] # Separator
    <3> HIDE DEF s
    <3> QED
      BY <1>1, <2>4
  <2> QED
    BY <2>5
<1> QED
  BY <1>2, <1>3

\* One step of the recursion of KeysOf.
KeysStep(bytes, Keys, rest) ==
    IF rest = 0 THEN <<>>
    ELSE LET ptr == Len(bytes) - rest + 1
             nextSep == NextSep(bytes, ptr)
             piece == SubSeq(bytes, ptr, nextSep - 1)
         IN  (IF piece = <<>> THEN <<>> ELSE <<piece>>)
             \o (IF nextSep > Len(bytes) THEN <<>> ELSE Keys[Len(bytes) - nextSep])

KeysFcn(bytes) == CHOOSE Keys : Keys = [rest \in 0 .. Len(bytes) |-> KeysStep(bytes, Keys, rest)]

\* A step uses what is known of shorter ends only.
LEMMA StepDepends ==
    ASSUME NEW bytes \in Seq(Nat), NEW f, NEW g, NEW rest \in 0 .. Len(bytes),
           \A j \in 0 .. (rest - 1) : f[j] = g[j]
    PROVE  KeysStep(bytes, f, rest) = KeysStep(bytes, g, rest)
<1>1. Len(bytes) \in Nat /\ rest \in Nat
  BY LenProperties
<1>2. CASE rest = 0
  BY <1>2 DEF KeysStep
<1>3. CASE rest # 0
  <2> DEFINE ptr == Len(bytes) - rest + 1
             s == NextSep(bytes, ptr)
  <2>1. ptr \in 1 .. (Len(bytes) + 1)
    BY <1>1, <1>3
  <2>2. s \in ptr .. (Len(bytes) + 1)
    BY <2>1, NextSepIs
  <2>3. s <= Len(bytes) => f[Len(bytes) - s] = g[Len(bytes) - s]
    <3> HIDE DEF s
    <3> SUFFICES ASSUME s <= Len(bytes) PROVE Len(bytes) - s \in 0 .. (rest - 1)
      OBVIOUS
    <3> QED
      BY <1>1, <2>2
  <2>4. s > Len(bytes) \/ s <= Len(bytes)
    <3> HIDE DEF s
    <3> QED
      BY <1>1, <2>2
  <2> QED
    BY <1>3, <2>3, <2>4 DEF KeysStep
<1> QED
  BY <1>2, <1>3

LEMMA KeysExist ==
    ASSUME NEW bytes \in Seq(Nat)
    PROVE  \E f : f = [rest \in 0 .. Len(bytes) |-> KeysStep(bytes, f, rest)]
<1> DEFINE Exists(m) == \E f : f = [rest \in 0 .. m |-> KeysStep(bytes, f, rest)]
           T == {m \in 0 .. Len(bytes) : ~Exists(m)}
<1>1. Len(bytes) \in Nat
  BY LenProperties
<1>2. Exists(0)
  <2>1. \A f : KeysStep(bytes, f, 0) = <<>>
    BY DEF KeysStep
  <2>2. [rest \in 0 .. 0 |-> <<>>]
           = [rest \in 0 .. 0 |-> KeysStep(bytes, [r \in 0 .. 0 |-> <<>>], rest)]
    BY <2>1
  <2> QED
    BY <2>2
<1>3. ASSUME NEW m \in 1 .. Len(bytes), Exists(m - 1) PROVE Exists(m)
  <2>1. PICK f : f = [rest \in 0 .. (m - 1) |-> KeysStep(bytes, f, rest)]
    BY <1>3
  <2> DEFINE g == [rest \in 0 .. m |-> KeysStep(bytes, f, rest)]
  <2>2. \A j \in 0 .. (m - 1) : f[j] = g[j]
    BY <1>1, <2>1
  <2>3. ASSUME NEW rest \in 0 .. m PROVE g[rest] = KeysStep(bytes, g, rest)
    <3> HIDE DEF g
    <3>1. \A j \in 0 .. (rest - 1) : f[j] = g[j]
      BY <1>1, <2>2
    <3>2. rest \in 0 .. Len(bytes)
      BY <1>1
    <3>3. KeysStep(bytes, f, rest) = KeysStep(bytes, g, rest)
      BY <3>1, <3>2, StepDepends
    <3> QED
      BY <3>3 DEF g
  <2>4. g = [rest \in 0 .. m |-> KeysStep(bytes, g, rest)]
    <3>1. g = [rest \in 0 .. m |-> g[rest]]
      OBVIOUS
    <3> HIDE DEF g
    <3> QED
      BY <2>3, <3>1
  <2> QED
    BY <2>4
<1>4. ASSUME T # {} PROVE FALSE
  <2>1. T \in SUBSET Nat
    BY <1>1
  <2> HIDE DEF Exists
  <2>2. PICK m \in T : \A k \in T : m <= k
    <3> HIDE DEF T
    <3> QED
      BY <1>4, <2>1, LeastNumber
  <2>3. m \in 1 .. Len(bytes) /\ m - 1 \in 0 .. Len(bytes) /\ m - 1 \notin T
    BY <1>1, <1>2, <2>2
  <2> QED
    BY <1>3, <2>2, <2>3
<1> HIDE DEF Exists
<1>5. Exists(Len(bytes))
  BY <1>1, <1>4
<1> QED
  BY <1>5 DEF Exists

LEMMA KeysRecursion ==
    ASSUME NEW bytes \in Seq(Nat)
    PROVE  /\ KeysOf(bytes) = KeysFcn(bytes)[Len(bytes)]
           /\ \A rest \in 0 .. Len(bytes) :
                 KeysFcn(bytes)[rest] = KeysStep(bytes, KeysFcn(bytes), rest)
<1>1. KeysOf(bytes) = KeysFcn(bytes)[Len(bytes)]
  BY Zenon DEF KeysOf, KeysFcn, KeysStep
<1> DEFINE f == KeysFcn(bytes)
<1>2. f = [rest \in 0 .. Len(bytes) |-> KeysStep(bytes, f, rest)]
  BY KeysExist DEF KeysFcn
<1> QED
  BY <1>1, <1>2, Zenon

\* The fields that begin at `ptr` or after it.
FieldsFrom(bytes, ptr) == {run \in FieldsAt(bytes) : run[1] >= ptr}

\* A field may begin at `ptr`.
IsBoundary(bytes, ptr) ==
    /\ ptr \in 1 .. (Len(bytes) + 1)
    /\ ptr > 1 => bytes[ptr - 1] = Separator

\* What is in FieldsAt, without tuples.
IsField(bytes, first, last) ==
    /\ first \in 1 .. Len(bytes) /\ last \in 1 .. Len(bytes) /\ first <= last
    /\ \A i \in first .. last : bytes[i] # Separator
    /\ first > 1 => bytes[first - 1] = Separator
    /\ last < Len(bytes) => bytes[last + 1] = Separator

LEMMA FieldIs ==
    ASSUME NEW bytes
    PROVE  /\ \A run \in FieldsAt(bytes) : run = <<run[1], run[2]>> /\ IsField(bytes, run[1], run[2])
           /\ \A first, last : IsField(bytes, first, last) => <<first, last>> \in FieldsAt(bytes)
<1>1. ASSUME NEW run \in FieldsAt(bytes)
      PROVE  run = <<run[1], run[2]>> /\ IsField(bytes, run[1], run[2])
  <2>1. run \in (1 .. Len(bytes)) \X (1 .. Len(bytes))
    BY DEF FieldsAt
  <2>2. run = <<run[1], run[2]>> /\ run[1] \in 1 .. Len(bytes) /\ run[2] \in 1 .. Len(bytes)
    BY <2>1
  <2> QED
    BY <2>2 DEF FieldsAt, IsField
<1>2. ASSUME NEW first, NEW last, IsField(bytes, first, last)
      PROVE  <<first, last>> \in FieldsAt(bytes)
  <2>1. <<first, last>> \in (1 .. Len(bytes)) \X (1 .. Len(bytes))
    BY <1>2 DEF IsField
  <2> QED
    BY <1>2, <2>1 DEF IsField, FieldsAt
<1> QED
  BY <1>1, <1>2

\* The first field from a boundary on ends before the next separator, if it is not empty.
LEMMA FirstField ==
    ASSUME NEW bytes \in Seq(Nat), NEW ptr, IsBoundary(bytes, ptr), NEW first, NEW last,
           IsField(bytes, first, last), first >= ptr
    PROVE  LET s == NextSep(bytes, ptr)
           IN  first >= s + 1 \/ (s # ptr /\ first = ptr /\ last = s - 1)
<1> DEFINE s == NextSep(bytes, ptr)
           L == Len(bytes)
<1>1. L \in Nat /\ ptr \in 1 .. (L + 1)
  BY LenProperties DEF IsBoundary
<1>2. /\ s \in ptr .. (L + 1)
      /\ \A i \in ptr .. (s - 1) : bytes[i] # Separator
      /\ s <= L => bytes[s] = Separator
  BY <1>1, NextSepIs
<1>3. /\ first \in 1 .. L /\ last \in 1 .. L /\ first <= last
      /\ \A i \in first .. last : bytes[i] # Separator
      /\ first > 1 => bytes[first - 1] = Separator
      /\ last < L => bytes[last + 1] = Separator
  BY DEF IsField
<1> HIDE DEF s, L
<1> SUFFICES ASSUME ~(first >= s + 1) PROVE s # ptr /\ first = ptr /\ last = s - 1
  BY DEF s
<1>4. first < s
  <2>1. CASE s <= L
    <3>1. first # s
      BY <1>1, <1>2, <1>3, <2>1
    <3> QED
      BY <1>1, <1>2, <1>3, <3>1
  <2>2. CASE ~(s <= L)
    BY <1>1, <1>2, <1>3, <2>2
  <2> QED
    BY <2>1, <2>2
<1>5. first = ptr
  <2> SUFFICES ASSUME first > ptr PROVE FALSE
    BY <1>1, <1>3
  <2>1. first - 1 \in ptr .. (s - 1) /\ first > 1
    BY <1>1, <1>2, <1>3, <1>4
  <2> QED
    BY <1>2, <1>3, <2>1
<1>6. ~(last < s - 1)
  <2> SUFFICES ASSUME last < s - 1 PROVE FALSE
    OBVIOUS
  <2>1. last + 1 \in ptr .. (s - 1) /\ last < L
    BY <1>1, <1>2, <1>3, <1>5
  <2> QED
    BY <1>2, <1>3, <2>1
<1>7. ~(last >= s)
  <2> SUFFICES ASSUME last >= s PROVE FALSE
    OBVIOUS
  <2>1. s \in first .. last /\ s <= L
    BY <1>1, <1>2, <1>3, <1>4
  <2> QED
    BY <1>2, <1>3, <2>1
<1> QED
  BY <1>1, <1>2, <1>3, <1>4, <1>5, <1>6, <1>7

LEMMA FieldsSplit ==
    ASSUME NEW bytes \in Seq(Nat), NEW ptr, IsBoundary(bytes, ptr)
    PROVE  LET s == NextSep(bytes, ptr)
           IN  FieldsFrom(bytes, ptr)
                  = (IF s = ptr THEN {} ELSE {<<ptr, s - 1>>}) \union FieldsFrom(bytes, s + 1)
<1> DEFINE s == NextSep(bytes, ptr)
           L == Len(bytes)
           here == IF s = ptr THEN {} ELSE {<<ptr, s - 1>>}
<1>1. L \in Nat /\ ptr \in 1 .. (L + 1) /\ (ptr > 1 => bytes[ptr - 1] = Separator)
  BY LenProperties DEF IsBoundary
<1>2. /\ s \in ptr .. (L + 1)
      /\ \A i \in ptr .. (s - 1) : bytes[i] # Separator
      /\ s <= L => bytes[s] = Separator
  BY <1>1, NextSepIs
<1>3. ASSUME NEW run \in FieldsFrom(bytes, ptr)
      PROVE  run \in here \union FieldsFrom(bytes, s + 1)
  <2>1. run \in FieldsAt(bytes) /\ run[1] >= ptr
    BY DEF FieldsFrom
  <2>2. run = <<run[1], run[2]>> /\ IsField(bytes, run[1], run[2])
    BY <2>1, FieldIs
  <2>3. run[1] >= s + 1 \/ (s # ptr /\ run[1] = ptr /\ run[2] = s - 1)
    BY <2>1, <2>2, FirstField
  <2> HIDE DEF s
  <2>4. CASE run[1] >= s + 1
    BY <2>1, <2>4 DEF FieldsFrom
  <2>5. CASE s # ptr /\ run[1] = ptr /\ run[2] = s - 1
    <3>1. run \in {<<ptr, s - 1>>}
      BY <2>2, <2>5
    <3> QED
      BY <2>5, <3>1
  <2> QED
    BY <2>3, <2>4, <2>5
<1>4. FieldsFrom(bytes, s + 1) \subseteq FieldsFrom(bytes, ptr)
  <2> SUFFICES ASSUME NEW run \in FieldsFrom(bytes, s + 1) PROVE run \in FieldsFrom(bytes, ptr)
    OBVIOUS
  <2>1. run \in FieldsAt(bytes) /\ run[1] >= s + 1
    BY DEF FieldsFrom
  <2>2. run[1] \in 1 .. L
    BY <2>1, FieldIs DEF IsField
  <2> HIDE DEF s, L
  <2>3. run[1] >= ptr
    BY <1>1, <1>2, <2>1, <2>2
  <2> QED
    BY <2>1, <2>3 DEF FieldsFrom
<1>5. ASSUME s # ptr PROVE <<ptr, s - 1>> \in FieldsFrom(bytes, ptr)
  <2> HIDE DEF s
  <2>1. IsField(bytes, ptr, s - 1)
    <3>1. /\ ptr \in 1 .. L /\ s - 1 \in 1 .. L /\ ptr <= s - 1
          /\ (s - 1 < L => s <= L) /\ (s - 1) + 1 = s
      <4> HIDE DEF L
      <4> QED
        BY <1>1, <1>2, <1>5
    <3>2. s - 1 < L => bytes[(s - 1) + 1] = Separator
      BY <1>2, <3>1
    <3> QED
      BY <1>1, <1>2, <3>1, <3>2 DEF IsField
  <2>2. <<ptr, s - 1>> \in FieldsAt(bytes)
    BY <2>1, FieldIs
  <2>3. <<ptr, s - 1>>[1] >= ptr
    BY <1>1
  <2> QED
    BY <2>2, <2>3 DEF FieldsFrom
<1> QED
  <2>1. here \subseteq FieldsFrom(bytes, ptr)
    BY <1>5
  <2> HIDE DEF here
  <2>2. FieldsFrom(bytes, ptr) = here \union FieldsFrom(bytes, s + 1)
    BY <1>3, <1>4, <2>1
  <2> QED
    BY <2>2 DEF here

\* What a key is; the keys of one answer.
Key == Seq(Nat) \ {<<>>}

FieldsUpTo(fields, run) == {r \in fields : r[1] <= run[1]}

\* The keys are the fields, in the order of the line.
KeysAre(bytes, fields, ks) ==
    /\ IsFiniteSet(fields)
    /\ ks \in Seq(Key)
    /\ Len(ks) = Cardinality(fields)
    /\ \A run \in fields :
          ks[Cardinality(FieldsUpTo(fields, run))] = SubSeq(bytes, run[1], run[2])

LEMMA PieceIsKey ==
    ASSUME NEW bytes \in Seq(Nat), NEW first \in 1 .. Len(bytes),
           NEW last \in first .. Len(bytes)
    PROVE  SubSeq(bytes, first, last) \in Key
<1>1. Len(bytes) \in Nat /\ first \in Int /\ last \in Int /\ first <= last
  BY LenProperties
<1>2. \A i \in first .. last : bytes[i] \in Nat
  BY <1>1, ElementOfSeq
<1>3. /\ SubSeq(bytes, first, last) \in Seq(Nat)
      /\ Len(SubSeq(bytes, first, last)) = last - first + 1
  BY <1>1, <1>2, SubSeqProperties
<1>4. SubSeq(bytes, first, last) # <<>>
  <2>1. Len(SubSeq(bytes, first, last)) # 0
    BY <1>1, <1>3
  <2> QED
    BY <2>1
<1> QED
  BY <1>3, <1>4 DEF Key

\* A field before all others brings one key before all others.
LEMMA KeyBefore ==
    ASSUME NEW bytes \in Seq(Nat), NEW ptr, NEW last, IsField(bytes, ptr, last),
           NEW fields, NEW ks, KeysAre(bytes, fields, ks),
           \A r \in fields : r[1] \in Nat /\ r[1] > ptr
    PROVE  KeysAre(bytes, {<<ptr, last>>} \union fields, <<SubSeq(bytes, ptr, last)>> \o ks)
<1> DEFINE key == SubSeq(bytes, ptr, last)
           all == {<<ptr, last>>} \union fields
           new == <<key>> \o ks
<1>1. /\ IsFiniteSet(fields) /\ ks \in Seq(Key) /\ Len(ks) = Cardinality(fields)
      /\ Len(ks) \in Nat /\ ptr \in Nat /\ last \in Nat
  BY LenProperties DEF KeysAre, IsField
<1>2. key \in Key
  <2>1. ptr \in 1 .. Len(bytes) /\ last \in ptr .. Len(bytes)
    BY LenProperties DEF IsField
  <2> QED
    BY <2>1, PieceIsKey
<1> HIDE DEF key
<1>3. /\ new \in Seq(Key) /\ Len(new) = Len(ks) + 1 /\ new[1] = key
      /\ \A j \in 1 .. Len(ks) : new[j + 1] = ks[j]
  <2>1. <<key>> \in Seq(Key) /\ Len(<<key>>) = 1 /\ <<key>>[1] = key
    BY <1>2
  <2>2. /\ new \in Seq(Key) /\ Len(new) = 1 + Len(ks)
        /\ \A i \in 1 .. (1 + Len(ks)) : new[i] = IF i <= 1 THEN <<key>>[i] ELSE ks[i - 1]
    BY <1>1, <2>1, ConcatProperties
  <2> HIDE DEF new
  <2>3. new[1] = key
    BY <1>1, <2>1, <2>2
  <2>4. ASSUME NEW j \in 1 .. Len(ks) PROVE new[j + 1] = ks[j]
    <3>1. j + 1 \in 1 .. (1 + Len(ks)) /\ ~(j + 1 <= 1) /\ (j + 1) - 1 = j
      BY <1>1
    <3> QED
      BY <2>2, <3>1
  <2> QED
    BY <1>1, <2>2, <2>3, <2>4
<1>4. <<ptr, last>> \notin fields
  <2> SUFFICES ASSUME <<ptr, last>> \in fields PROVE FALSE
    OBVIOUS
  <2>1. <<ptr, last>>[1] > ptr
    OBVIOUS
  <2> QED
    BY <1>1, <2>1
<1>5. IsFiniteSet(all) /\ Cardinality(all) = Cardinality(fields) + 1
  <2>1. all = fields \union {<<ptr, last>>}
    OBVIOUS
  <2> QED
    BY <1>1, <1>4, <2>1, FS_AddElement
<1>6. ASSUME NEW run \in all
      PROVE  new[Cardinality(FieldsUpTo(all, run))] = SubSeq(bytes, run[1], run[2])
  <2>1. CASE run = <<ptr, last>>
    <3>1. run[1] = ptr /\ run[2] = last
      BY <2>1
    <3>2. \A r \in fields : ~(r[1] <= ptr)
      BY <1>1
    <3>3. FieldsUpTo(all, run) = {<<ptr, last>>}
      BY <1>1, <3>1, <3>2 DEF FieldsUpTo
    <3>4. Cardinality(FieldsUpTo(all, run)) = 1
      BY <3>3, FS_Singleton
    <3> QED
      BY <1>3, <3>1, <3>4 DEF key
  <2>2. CASE run \in fields
    <3> DEFINE upTo == FieldsUpTo(fields, run)
    <3>1. run[1] \in Nat /\ run[1] > ptr
      BY <2>2
    <3>2. <<ptr, last>>[1] <= run[1]
      BY <1>1, <3>1
    <3>3. FieldsUpTo(all, run) = upTo \union {<<ptr, last>>}
      BY <3>2 DEF FieldsUpTo
    <3>4. upTo \subseteq fields /\ <<ptr, last>> \notin upTo /\ run \in upTo
      BY <1>4, <2>2, <3>1 DEF FieldsUpTo
    <3> HIDE DEF upTo
    <3>5. /\ IsFiniteSet(upTo) /\ Cardinality(upTo) <= Cardinality(fields)
          /\ Cardinality(upTo) \in Nat /\ Cardinality(upTo) # 0
      BY <1>1, <3>4, FS_Subset, FS_CardinalityType, FS_EmptySet
    <3>6. Cardinality(FieldsUpTo(all, run)) = Cardinality(upTo) + 1
      BY <3>3, <3>4, <3>5, FS_AddElement
    <3>7. Cardinality(upTo) \in 1 .. Len(ks)
      BY <1>1, <3>5
    <3>8. new[Cardinality(upTo) + 1] = ks[Cardinality(upTo)]
      BY <1>3, <3>7
    <3>9. ks[Cardinality(upTo)] = SubSeq(bytes, run[1], run[2])
      BY <2>2 DEF KeysAre, upTo
    <3> QED
      BY <3>6, <3>8, <3>9
  <2> QED
    BY <2>1, <2>2
<1> QED
  <2> HIDE DEF new, all
  <2>1. KeysAre(bytes, all, new)
    BY <1>1, <1>3, <1>5, <1>6 DEF KeysAre
  <2> QED
    BY <2>1 DEF all, new, key

\* What the recursion computes for any end of the bytes that begins at a boundary.
LEMMA KeysOfEnd ==
    ASSUME NEW bytes \in Seq(Nat), NEW rest \in 0 .. Len(bytes),
           IsBoundary(bytes, Len(bytes) - rest + 1)
    PROVE  KeysAre(bytes, FieldsFrom(bytes, Len(bytes) - rest + 1), KeysFcn(bytes)[rest])
<1> DEFINE L == Len(bytes)
           Ks == KeysFcn(bytes)
           Good(m) == IsBoundary(bytes, L - m + 1) =>
                         KeysAre(bytes, FieldsFrom(bytes, L - m + 1), Ks[m])
           T == {m \in 0 .. L : ~Good(m)}
<1>1. L \in Nat
  BY LenProperties
<1>2. ASSUME NEW ptr \in Int, ptr > L PROVE KeysAre(bytes, FieldsFrom(bytes, ptr), <<>>)
  <2>1. FieldsFrom(bytes, ptr) = {}
    <3> SUFFICES ASSUME NEW run \in FieldsFrom(bytes, ptr) PROVE FALSE
      OBVIOUS
    <3>1. run[1] \in 1 .. L /\ run[1] >= ptr
      BY FieldIs DEF FieldsFrom, IsField
    <3> QED
      BY <1>1, <1>2, <3>1
  <2>2. <<>> \in Seq(Key) /\ Len(<<>>) = 0
    OBVIOUS
  <2> QED
    BY <2>1, <2>2, FS_EmptySet DEF KeysAre
<1>3. ASSUME NEW m \in 0 .. L, \A k \in 0 .. (m - 1) : Good(k) PROVE Good(m)
  <2> SUFFICES ASSUME IsBoundary(bytes, L - m + 1)
               PROVE  KeysAre(bytes, FieldsFrom(bytes, L - m + 1), Ks[m])
    OBVIOUS
  <2> DEFINE ptr == L - m + 1
             s == NextSep(bytes, ptr)
             piece == SubSeq(bytes, ptr, s - 1)
             others == IF s > L THEN <<>> ELSE Ks[L - s]
  <2>1. Ks[m] = KeysStep(bytes, Ks, m)
    BY <1>1, KeysRecursion
  <2>2. CASE m = 0
    <3>1. Ks[m] = <<>>
      BY <2>1, <2>2 DEF KeysStep
    <3>2. L - m + 1 \in Int /\ L - m + 1 > L
      BY <1>1, <2>2
    <3> QED
      BY <1>2, <3>1, <3>2
  <2>3. CASE m # 0
    <3>1. ptr \in 1 .. L /\ ptr \in 1 .. (L + 1) /\ IsBoundary(bytes, ptr)
      BY <1>1, <2>3
    <3>2. /\ s \in ptr .. (L + 1)
          /\ \A i \in ptr .. (s - 1) : bytes[i] # Separator
          /\ s <= L => bytes[s] = Separator
      BY <3>1, NextSepIs
    <3>3. Ks[m] = (IF piece = <<>> THEN <<>> ELSE <<piece>>) \o others
      BY <2>1, <2>3 DEF KeysStep
    <3>4. FieldsFrom(bytes, ptr)
             = (IF s = ptr THEN {} ELSE {<<ptr, s - 1>>}) \union FieldsFrom(bytes, s + 1)
      BY <3>1, FieldsSplit
    <3>5. IsBoundary(bytes, ptr) /\ (ptr > 1 => bytes[ptr - 1] = Separator)
      BY <3>1 DEF IsBoundary
    <3> HIDE DEF s, Ks
    <3>6. KeysAre(bytes, FieldsFrom(bytes, s + 1), others)
      <4>1. CASE s > L
        <5>1. others = <<>> /\ s + 1 \in Int /\ s + 1 > L
          BY <1>1, <3>2, <4>1
        <5> QED
          BY <1>2, <5>1
      <4>2. CASE ~(s > L)
        <5> HIDE DEF ptr
        <5>1. L - s \in 0 .. (m - 1)
          BY <1>1, <3>1, <3>2, <4>2 DEF ptr
        <5>2. Good(L - s)
          BY <1>3, <5>1
        <5>3. L - (L - s) + 1 = s + 1
          BY <1>1, <3>1, <3>2
        <5>4. IsBoundary(bytes, s + 1)
          <6>1. s + 1 \in 1 .. (Len(bytes) + 1) /\ (s + 1) - 1 = s /\ s <= L
            BY <1>1, <3>1, <3>2, <4>2
          <6>2. bytes[(s + 1) - 1] = Separator
            BY <3>2, <6>1
          <6> QED
            BY <6>1, <6>2 DEF IsBoundary
        <5>5. others = Ks[L - s]
          BY <4>2
        <5> QED
          BY <5>2, <5>3, <5>4, <5>5
      <4> QED
        BY <4>1, <4>2
    <3> HIDE DEF others
    <3>7. CASE s = ptr
      <4>1. piece = <<>>
        <5>1. s - 1 < ptr /\ ptr \in Int /\ s - 1 \in Int
          BY <1>1, <3>1, <3>7
        <5> QED
          BY <5>1, SubSeqEmpty
      <4>2. Ks[m] = others
        <5>1. others \in Seq(Key)
          BY <3>6 DEF KeysAre
        <5> QED
          BY <3>3, <4>1, <5>1, ConcatEmptySeq
      <4>3. FieldsFrom(bytes, ptr) = FieldsFrom(bytes, s + 1)
        BY <3>4, <3>7
      <4> QED
        BY <3>6, <4>2, <4>3
    <3>8. CASE s # ptr
      <4>1. IsField(bytes, ptr, s - 1)
        <5>1. /\ s - 1 \in 1 .. L /\ ptr <= s - 1
              /\ (s - 1 < L => s <= L) /\ (s - 1) + 1 = s
          <6> HIDE DEF L, ptr
          <6> QED
            BY <1>1, <3>1, <3>2, <3>8
        <5>2. s - 1 < L => bytes[(s - 1) + 1] = Separator
          BY <3>2, <5>1
        <5> HIDE DEF ptr
        <5> QED
          BY <3>1, <3>2, <3>5, <5>1, <5>2 DEF IsField
      <4>2. piece # <<>>
        <5>1. ptr \in 1 .. Len(bytes) /\ s - 1 \in ptr .. Len(bytes)
          <6> HIDE DEF ptr
          <6> QED
            BY <1>1, <3>1, <3>2, <4>1 DEF IsField
        <5> QED
          BY <5>1, PieceIsKey DEF Key
      <4>3. Ks[m] = <<piece>> \o others
        BY <3>3, <4>2
      <4>4. FieldsFrom(bytes, ptr) = {<<ptr, s - 1>>} \union FieldsFrom(bytes, s + 1)
        BY <3>4, <3>8
      <4>5. \A r \in FieldsFrom(bytes, s + 1) : r[1] \in Nat /\ r[1] > ptr
        <5> SUFFICES ASSUME NEW r \in FieldsFrom(bytes, s + 1)
                     PROVE  r[1] \in Nat /\ r[1] > ptr
          OBVIOUS
        <5>1. r[1] \in 1 .. L /\ r[1] >= s + 1
          BY FieldIs DEF FieldsFrom, IsField
        <5>2. ptr \in Nat /\ s \in ptr .. (L + 1)
          BY <3>1, <3>2
        <5> HIDE DEF ptr, L
        <5> QED
          BY <1>1, <5>1, <5>2
      <4> HIDE DEF ptr
      <4>6. KeysAre(bytes, {<<ptr, s - 1>>} \union FieldsFrom(bytes, s + 1),
                    <<piece>> \o others)
        BY <3>6, <4>1, <4>5, KeyBefore
      <4> QED
        BY <4>3, <4>4, <4>6 DEF ptr
    <3> QED
      BY <3>7, <3>8
  <2> QED
    BY <2>2, <2>3
<1> HIDE DEF Good
<1>4. ASSUME T # {} PROVE FALSE
  <2>1. T \in SUBSET Nat
    BY <1>1
  <2>2. PICK m \in T : \A k \in T : m <= k
    <3> HIDE DEF T
    <3> QED
      BY <1>4, <2>1, LeastNumber
  <2>3. m \in 0 .. L /\ ~Good(m)
    OBVIOUS
  <2>4. ASSUME NEW k \in 0 .. (m - 1) PROVE Good(k)
    <3>1. k \in 0 .. L /\ ~(m <= k)
      BY <1>1, <2>3
    <3> QED
      BY <2>2, <3>1
  <2> QED
    BY <1>3, <2>3, <2>4
<1>5. Good(rest)
  BY <1>4
<1> QED
  BY <1>5 DEF Good

\* The keys of an answer are its fields: all of them, in order, and none is empty.
LEMMA KeysAreFields ==
    ASSUME NEW bytes \in Seq(Nat)
    PROVE  KeysAre(bytes, FieldsAt(bytes), KeysOf(bytes))
<1> DEFINE L == Len(bytes)
<1>1. L \in Nat
  BY LenProperties
<1>2. L - L + 1 = 1 /\ L \in 0 .. L
  BY <1>1
<1>3. IsBoundary(bytes, 1)
  BY <1>1 DEF IsBoundary
<1>4. KeysAre(bytes, FieldsFrom(bytes, L - L + 1), KeysFcn(bytes)[L])
  BY <1>2, <1>3, KeysOfEnd
<1>5. FieldsFrom(bytes, 1) = FieldsAt(bytes)
  <2>1. \A run \in FieldsAt(bytes) : run[1] >= 1
    BY <1>1, FieldIs DEF IsField
  <2> QED
    BY <2>1 DEF FieldsFrom
<1>6. KeysOf(bytes) = KeysFcn(bytes)[L]
  BY KeysRecursion
<1> QED
  BY <1>2, <1>4, <1>5, <1>6

-----------------------------------------------------------------------------
(* What is in `keys`.  A call adds the keys of its own line also when the      *)
(* command has died meanwhile, so it is not enough to know what is on its way  *)
(* while the command lives.                                                    *)

Between == phase \in {"forking", "signals", "building"}

\* The bytes read and those in the pipe back are the beginning of a line.
Begins(line, a, b) == \E rest \in Seq(Nat) : (a \o b) \o rest = LineOr(line, TRUE)

KeysInv ==
    /\ keys \in Seq(Seq(Key))
    /\ InCall => Len(keys) = n - 1
    /\ Between => Len(keys) = n
    /\ Len(keys) \in {n - 1, n}
    /\ outcome \in {"none", "ok", "failed", "aborted"}
    /\ sigchld \in {"default", "ignored"}
    /\ outcome = "ok" => phase \in {"killing", "waiting", "ended"} /\ Len(keys) = Len(lines)
    /\ OneLineEach =>
          /\ \A i \in DOMAIN keys : keys[i] = KeysOf(lines[i])
          /\ Between => receivePipe = <<>>
          /\ InCall => Begins(lines[n], buf, receivePipe)

\* While the command lives, what is on its way says so.
LivesBegins ==
    (IInv /\ OneLineEach /\ child.state \in {"none", "forked", "running"}) =>
        /\ Between => receivePipe = <<>>
        /\ InCall => Begins(lines[n], buf, receivePipe)

LEMMA LivesBeginsHolds == LivesBegins
<1> SUFFICES ASSUME IInv, OneLineEach, child.state \in {"none", "forked", "running"}
             PROVE  /\ Between => receivePipe = <<>>
                    /\ InCall => Begins(lines[n], buf, receivePipe)
  BY DEF LivesBegins
<1>1. Shape /\ InFlight
  BY DEF IInv
<1>2. ASSUME InCall PROVE Begins(lines[n], buf, receivePipe)
  <2> DEFINE a == buf \o receivePipe
             b == child.answer
             c == child.taken
             d == sendPipe
             e == toWrite
             end == IF phase = "line" THEN <<Newline>> ELSE <<>>
             f == LineOr(lines[n], phase # "line")
  <2>1. /\ b \in Seq(Nat) /\ c \in Seq(Nat) /\ d \in Seq(Nat) /\ e \in Seq(Nat)
        /\ buf \in Seq(Nat) /\ receivePipe \in Seq(Nat)
    BY <1>1 DEF Shape
  <2>2. a \in Seq(Nat) /\ end \in Seq(Nat)
    BY <2>1, ConcatIsBytes, EmptyIsBytes
  <2>3. n \in 1 .. Len(lines)
    BY <1>1, <1>2 DEF Shape
  <2>4. lines[n] \in Seq(Nat)
    BY <1>1, <2>3, LinesHaveNoNewline
  <2>5. f \o end = LineOr(lines[n], TRUE)
    <3>1. CASE phase = "line"
      BY <2>4, <3>1, ConcatEmptySeq DEF LineOr
    <3>2. CASE phase # "line"
      <4>1. lines[n] \o <<Newline>> \in Seq(Nat)
        BY <2>4, EmptyIsBytes, ConcatIsBytes
      <4> QED
        BY <3>2, <4>1, ConcatEmptySeq DEF LineOr
    <3> QED
      BY <3>1, <3>2
  <2>6. (((a \o b) \o c) \o d) \o e = f
    BY <1>1, <1>2, Zenon DEF InFlight, Flight, Together
  <2> HIDE DEF a, b, c, d, e, f, end
  <2>7. a \o (((b \o c) \o d) \o e) = f /\ ((b \o c) \o d) \o e \in Seq(Nat)
    <3>1. b \o c \in Seq(Nat) /\ Associates(a, b, c)
      BY <2>1, <2>2, ConcatIsBytes, Associative
    <3>2. (b \o c) \o d \in Seq(Nat) /\ Associates(a, b \o c, d)
      BY <2>1, <2>2, <3>1, ConcatIsBytes, Associative
    <3>3. ((b \o c) \o d) \o e \in Seq(Nat) /\ Associates(a, (b \o c) \o d, e)
      BY <2>1, <2>2, <3>2, ConcatIsBytes, Associative
    <3> QED
      BY <2>6, <3>1, <3>2, <3>3, Zenon DEF Associates
  <2> DEFINE rest == (((b \o c) \o d) \o e) \o end
  <2>8. rest \in Seq(Nat) /\ a \o rest = LineOr(lines[n], TRUE)
    <3>1. Associates(a, ((b \o c) \o d) \o e, end) /\ rest \in Seq(Nat)
      BY <2>2, <2>7, ConcatIsBytes, Associative
    <3> QED
      BY <2>5, <2>7, <3>1, Zenon DEF Associates
  <2> QED
    BY <2>8 DEF Begins, a
<1> QED
  BY <1>1, <1>2 DEF InFlight, Between

LEMMA KeysInit == Init => KeysInv
<1> SUFFICES ASSUME Init PROVE KeysInv
  OBVIOUS
<1>1. /\ phase = "forking" /\ n = 0 /\ keys = <<>> /\ outcome = "none"
      /\ sigchld = "default" /\ receivePipe = <<>>
  BY DEF Init
<1>2. <<>> \in Seq(Seq(Key)) /\ Len(<<>>) = 0 /\ DOMAIN <<>> = {}
  OBVIOUS
<1> QED
  BY <1>1, <1>2 DEF KeysInv, InCall, Between

\* The steps that leave the keys and what the parent reads alone.
LEMMA KeysOtherSteps ==
    ASSUME IInv, KeysInv,
           \/ Fork \/ ForkFails \/ IgnoreSignals \/ WriteSome \/ WriteFails \/ LineWritten
           \/ NewlineWritten \/ ReadFails \/ BuildOver \/ Kill \/ Wait \/ RunChild
           \/ ChildReads \/ ChildDies \/ ChildTerminates
    PROVE  KeysInv'
<1>1. UNCHANGED <<lines, command, n, buf, receivePipe, keys>>
  BY DEF Fork, ForkFails, IgnoreSignals, WriteSome, WriteFails, LineWritten, NewlineWritten,
         ReadFails, AtEof, Throw, BuildOver, Kill, Wait, RunChild, ChildReads, ChildDies,
         ChildTerminates, Die, parentVars
<1>2. \/ phase' = phase /\ outcome' = outcome
      \/ InCall /\ phase' \in {"newline", "reading"} /\ outcome' = outcome
      \/ phase = "forking" /\ phase' = "signals" /\ outcome' = outcome
      \/ phase = "signals" /\ phase' = "building" /\ outcome' = outcome
      \/ phase' \in {"killing", "ended"} /\ outcome' \in {"failed", "aborted"}
      \/ phase = "building" /\ n = Len(lines) /\ phase' = "killing" /\ outcome' = "ok"
      \/ phase \in {"killing", "waiting"} /\ phase' \in {"waiting", "ended"} /\ outcome' = outcome
  BY DEF Fork, ForkFails, IgnoreSignals, WriteSome, WriteFails, LineWritten, NewlineWritten,
         ReadFails, AtEof, Throw, BuildOver, Kill, Wait, RunChild, ChildReads, ChildDies,
         ChildTerminates, Die, parentVars, InCall
<1>3. sigchld' = sigchld \/ sigchld' \in {"default", "ignored"}
  BY DEF Fork, ForkFails, IgnoreSignals, WriteSome, WriteFails, LineWritten, NewlineWritten,
         ReadFails, AtEof, Throw, BuildOver, Kill, Wait, RunChild, ChildReads, ChildDies,
         ChildTerminates, Die, parentVars
<1>4. OneLineEach' = OneLineEach
  BY <1>1 DEF OneLineEach
<1>5. (InCall' => InCall) /\ (Between' => Between)
  BY <1>2 DEF InCall, Between
<1>6. /\ keys' \in Seq(Seq(Key))
      /\ InCall' => Len(keys') = n' - 1
      /\ Between' => Len(keys') = n'
      /\ Len(keys') \in {n' - 1, n'}
      /\ sigchld' \in {"default", "ignored"}
  BY <1>1, <1>3, <1>5 DEF KeysInv
<1>7. /\ outcome' \in {"none", "ok", "failed", "aborted"}
      /\ outcome' = "ok" => phase' \in {"killing", "waiting", "ended"} /\ Len(keys') = Len(lines')
  BY <1>1, <1>2 DEF KeysInv, Between, InCall
<1>8. ASSUME OneLineEach'
      PROVE  /\ \A i \in DOMAIN keys' : keys'[i] = KeysOf(lines'[i])
             /\ Between' => receivePipe' = <<>>
             /\ InCall' => Begins(lines'[n'], buf', receivePipe')
  BY <1>1, <1>4, <1>5, <1>8 DEF KeysInv
<1> QED
  BY <1>6, <1>7, <1>8 DEF KeysInv

\* The answer moves into the pipe back: the command lives.
LEMMA KeysChildWrites == ASSUME IInv, IInv', KeysInv, ChildWrites PROVE KeysInv'
<1>1. UNCHANGED <<lines, command, parentVars>> /\ child.state = "running"
  BY DEF ChildWrites
<1>2. child'.state = child.state
  BY <1>1 DEF ChildWrites, IInv, Shape
<1>3. LivesBegins'
  BY LivesBeginsHolds, PTL
<1>4. ASSUME OneLineEach'
      PROVE  /\ Between' => receivePipe' = <<>>
             /\ InCall' => Begins(lines'[n'], buf', receivePipe')
  BY <1>1, <1>2, <1>3, <1>4 DEF LivesBegins
<1> QED
  BY <1>1, <1>4 DEF KeysInv, parentVars, InCall, Between, OneLineEach

LEMMA KeysIndexLine == ASSUME IInv, KeysInv, IndexLine PROVE KeysInv'
<1>1. /\ phase = "building" /\ n < Len(lines) /\ n' = n + 1
      /\ buf' = <<>> /\ phase' = "line"
      /\ UNCHANGED <<lines, command, keys, outcome, sigchld, receivePipe>>
  BY DEF IndexLine, NewBuf
<1>2. Shape /\ lines \in Seq(Seq(Nat))
  BY TextsAssumption DEF IInv, Shape
<1>3. n + 1 \in 1 .. Len(lines) /\ n \in Nat
  BY <1>1, <1>2, LenProperties DEF Shape
<1>4. lines[n + 1] \in Seq(Nat)
  BY <1>2, <1>3, LinesHaveNoNewline
<1>5. InCall' /\ ~Between' /\ Between
  BY <1>1 DEF InCall, Between
<1>6. Len(keys) = n /\ n' - 1 = n
  BY <1>1, <1>3, <1>5 DEF KeysInv
<1>7. ASSUME OneLineEach PROVE Begins(lines[n + 1], <<>>, receivePipe)
  <2>1. receivePipe = <<>>
    BY <1>5, <1>7 DEF KeysInv
  <2>2. LineOr(lines[n + 1], TRUE) \in Seq(Nat)
    <3>1. lines[n + 1] \o <<Newline>> \in Seq(Nat)
      BY <1>4, EmptyIsBytes, ConcatIsBytes
    <3> QED
      BY <3>1 DEF LineOr
  <2>3. (<<>> \o <<>>) \o LineOr(lines[n + 1], TRUE) = LineOr(lines[n + 1], TRUE)
    BY <2>2, EmptyIsBytes, ConcatEmptySeq
  <2> QED
    BY <2>1, <2>2, <2>3 DEF Begins
<1> QED
  BY <1>1, <1>5, <1>6, <1>7 DEF KeysInv, OneLineEach

\* A read takes more of the line, or the newline and with it all that was left.
LEMMA KeysRead == ASSUME IInv, KeysInv, Read PROVE KeysInv'
<1> DEFINE bytes == Fewer(Len(receivePipe), BlockSize)
           piece == SubSeq(receivePipe, 1, bytes)
           got == buf \o piece
           before == SubSeq(got, 1, Len(got) - 1)
           answer == KeysOf(before)
<1>1. /\ phase = "reading" /\ receivePipe # <<>>
      /\ receivePipe' = From(receivePipe, bytes + 1)
      /\ UNCHANGED <<lines, command, n, sigchld>>
      /\ \/ /\ IsWhole(got) /\ buf' = got /\ phase' = "building"
            /\ keys' = Append(keys, answer) /\ outcome' = outcome
         \/ phase' = "killing" /\ outcome' = "failed" /\ UNCHANGED <<buf, keys>>
         \/ buf' = got /\ UNCHANGED <<phase, keys, outcome>>
  BY DEF Read, Throw
<1>2. Shape /\ InCall /\ ~Between
  BY <1>1 DEF IInv, InCall, Between
<1>3. receivePipe \in Seq(Nat) /\ buf \in Seq(Nat) /\ Len(receivePipe) \in Nat
  BY <1>2, LenProperties DEF Shape
<1>4. bytes \in 1 .. Len(receivePipe)
  <2>1. Len(receivePipe) > 0
    BY <1>1, <1>3, EmptySeq
  <2> QED
    BY <1>3, <2>1, CapacityAssumption DEF Fewer
<1> HIDE DEF bytes
<1>5. IsCut(receivePipe, bytes)
  BY <1>3, <1>4, Cut
<1>6. piece \in Seq(Nat) /\ receivePipe' \in Seq(Nat) /\ piece \o receivePipe' = receivePipe
      /\ Len(piece) > 0 /\ Len(piece) \in Nat
  BY <1>1, <1>4, <1>5 DEF IsCut
<1>7. got \in Seq(Nat) /\ Len(got) \in Nat \ {0}
  <2>1. got \in Seq(Nat) /\ Len(got) = Len(buf) + Len(piece) /\ Len(buf) \in Nat
    BY <1>3, <1>6, ConcatIsBytes, LenProperties
  <2> HIDE DEF got, piece
  <2> QED
    BY <1>6, <2>1
<1>8. got \o receivePipe' = buf \o receivePipe
  <2>1. Associates(buf, piece, receivePipe')
    BY <1>3, <1>6, Associative
  <2> QED
    BY <1>6, <2>1, Zenon DEF Associates
<1> HIDE DEF got, piece
<1>9. before \in Seq(Nat)
  <2>1. \A i \in 1 .. (Len(got) - 1) : got[i] \in Nat
    BY <1>7, ElementOfSeq
  <2> QED
    BY <1>7, <2>1, SubSeqProperties
<1>10. answer \in Seq(Key)
  BY <1>9, KeysAreFields DEF KeysAre
<1> HIDE DEF answer
<1>11. n \in 1 .. Len(lines) /\ Len(keys) = n - 1 /\ keys \in Seq(Seq(Key)) /\ outcome # "ok"
  BY <1>1, <1>2 DEF Shape, KeysInv
<1>12. lines[n] \in Seq(Nat) /\ ~HasNewline(lines[n])
  BY <1>2, <1>11, LinesHaveNoNewline
<1>13. ASSUME OneLineEach
       PROVE  \E rest \in Seq(Nat) : (got \o receivePipe') \o rest = LineOr(lines[n], TRUE)
  BY <1>2, <1>8, <1>13 DEF KeysInv, Begins
<1>14. CASE /\ IsWhole(got) /\ buf' = got /\ phase' = "building"
            /\ keys' = Append(keys, answer) /\ outcome' = outcome
  <2>1. keys' \in Seq(Seq(Key)) /\ Len(keys') = n /\ ~InCall' /\ Between'
    <3>1. keys' \in Seq(Seq(Key)) /\ Len(keys') = Len(keys) + 1
      BY <1>10, <1>11, <1>14
    <3> QED
      BY <1>11, <1>14, <3>1 DEF InCall, Between
  <2>2. ASSUME OneLineEach
        PROVE  receivePipe' = <<>> /\ \A i \in DOMAIN keys' : keys'[i] = KeysOf(lines[i])
    <3>1. PICK rest \in Seq(Nat) : (got \o receivePipe') \o rest = LineOr(lines[n], TRUE)
      BY <1>13, <2>2
    <3>2. HasNewline(got)
      <4>1. Len(got) \in DOMAIN got
        BY <1>7, LenProperties
      <4> QED
        BY <1>14, <4>1 DEF IsWhole, HasNewline
    <3>3. got \o receivePipe' \in Seq(Nat) /\ HasNewline(got \o receivePipe')
      BY <1>6, <1>7, <3>2, ConcatIsBytes, NewlineStays
    <3>4. rest = <<>>
      <4>1. IsEnd(lines[n], TRUE, got \o receivePipe', rest)
        BY <1>12, <3>3, NewlineIsLast
      <4> QED
        BY <3>1, <3>3, <4>1 DEF IsEnd
    <3>5. got \o receivePipe' = LineOr(lines[n], TRUE)
      BY <3>1, <3>3, <3>4, ConcatEmptySeq
    <3>6. receivePipe' = <<>>
      BY <1>6, <1>7, <1>12, <3>2, <3>5, NewlineIsLast DEF IsEnd
    <3>7. got = lines[n] \o <<Newline>>
      BY <1>7, <3>5, <3>6, ConcatEmptySeq DEF LineOr
    <3>8. before = lines[n]
      <4> DEFINE line == lines[n]
      <4>1. /\ Len(got) = Len(line) + 1 /\ Len(line) \in Nat
            /\ \A i \in 1 .. Len(line) : got[i] = line[i]
        <5>1. <<Newline>> \in Seq(Nat) /\ Len(<<Newline>>) = 1
          BY EmptyIsBytes
        <5>2. Len(line) \in Nat
          BY <1>12, LenProperties
        <5> HIDE DEF line
        <5>3. /\ Len(line \o <<Newline>>) = Len(line) + 1
              /\ \A i \in 1 .. Len(line) : (line \o <<Newline>>)[i] = line[i]
          BY <1>12, <5>1, <5>2, ConcatProperties DEF line
        <5> QED
          BY <3>7, <5>2, <5>3 DEF line
      <4>2. Len(got) - 1 = Len(line)
        BY <4>1
      <4>3. \A i \in 1 .. Len(line) : got[i] \in Nat
        BY <1>7, <4>1, ElementOfSeq
      <4>4. /\ SubSeq(got, 1, Len(line)) \in Seq(Nat)
            /\ Len(SubSeq(got, 1, Len(line))) = Len(line)
            /\ \A i \in 1 .. Len(line) : SubSeq(got, 1, Len(line))[i] = got[i]
        <5> HIDE DEF line
        <5>1. /\ SubSeq(got, 1, Len(line)) \in Seq(Nat)
              /\ Len(SubSeq(got, 1, Len(line)))
                    = IF 1 <= Len(line) THEN Len(line) - 1 + 1 ELSE 0
              /\ \A i \in 1 .. (Len(line) - 1 + 1) : SubSeq(got, 1, Len(line))[i] = got[1 + i - 1]
          BY <4>1, <4>3, SubSeqProperties
        <5> QED
          BY <4>1, <5>1
      <4>5. SubSeq(got, 1, Len(line)) = line
        BY <1>12, <4>1, <4>4, SeqEqual
      <4> QED
        BY <4>2, <4>5
    <3>9. answer = KeysOf(lines[n])
      BY <3>8 DEF answer
    <3>10. ASSUME NEW i \in DOMAIN keys' PROVE keys'[i] = KeysOf(lines[i])
      <4>1. i \in 1 .. n
        BY <2>1, LenProperties
      <4>2. CASE i = n
        BY <1>10, <1>11, <1>14, <3>9, <4>2
      <4>3. CASE i # n
        <5>1. i \in 1 .. Len(keys) /\ i \in DOMAIN keys
          BY <1>11, <4>1, <4>3
        <5>2. keys'[i] = keys[i]
          BY <1>11, <1>14, <5>1
        <5>3. keys[i] = KeysOf(lines[i])
          BY <2>2, <5>1 DEF KeysInv
        <5> QED
          BY <5>2, <5>3
      <4> QED
        BY <4>2, <4>3
    <3> QED
      BY <3>6, <3>10
  <2> QED
    BY <1>1, <1>11, <1>14, <2>1, <2>2 DEF KeysInv, OneLineEach
<1>15. CASE phase' = "killing" /\ outcome' = "failed" /\ UNCHANGED <<buf, keys>>
  BY <1>1, <1>15 DEF KeysInv, OneLineEach, InCall, Between
<1>16. CASE buf' = got /\ UNCHANGED <<phase, keys, outcome>>
  <2>1. OneLineEach => Begins(lines[n], got, receivePipe')
    BY <1>13 DEF Begins
  <2> QED
    BY <1>1, <1>2, <1>16, <2>1 DEF KeysInv, OneLineEach, InCall, Between
<1> QED
  BY <1>1, <1>14, <1>15, <1>16

LEMMA KeysNext == ASSUME IInv, IInv', KeysInv, [Next]_vars PROVE KeysInv'
<1>1. CASE \/ Fork \/ ForkFails \/ IgnoreSignals \/ WriteSome \/ WriteFails \/ LineWritten
           \/ NewlineWritten \/ ReadFails \/ BuildOver \/ Kill \/ Wait \/ RunChild
           \/ ChildReads \/ ChildDies \/ ChildTerminates
  BY <1>1, KeysOtherSteps
<1>2. CASE IndexLine
  BY <1>2, KeysIndexLine
<1>3. CASE Read
  BY <1>3, KeysRead
<1>4. CASE ChildWrites
  BY <1>4, KeysChildWrites
<1>5. CASE UNCHANGED vars
  BY <1>5 DEF vars, parentVars, KeysInv, InCall, Between, OneLineEach
<1> QED
  BY <1>1, <1>2, <1>3, <1>4, <1>5
  DEF Next, Parent, Construct, Index, Destroy, ChildWorks

THEOREM KeysInvariance == Spec => [](IInv /\ KeysInv)
<1>1. Init => IInv /\ KeysInv
  BY InitInv, KeysInit
<1>2. IInv /\ KeysInv /\ [Next]_vars => (IInv /\ KeysInv)'
  BY NextInv, KeysNext
<1> QED
  BY <1>1, <1>2, PTL DEF Spec

\* Every variable keeps its type: no pipe ever holds more than it can, every finished
\* call has its keys, and no key is empty (ExternalIndexer::index).
THEOREM TypeCorrect == Spec => []TypeOK
<1>1. IInv /\ KeysInv => TypeOK
  BY Zenon DEF IInv, Shape, KeysInv, TypeOK, Key
<1> QED
  BY <1>1, KeysInvariance, PTL

\* A committed build has for every line the fields of the answer to that very line, all
\* of them and in order, whatever pieces the pipes cut the answers into and whenever the
\* command dies (ExternalIndexer::index).
THEOREM KeysOfOwnLineHolds == Spec => []KeysOfOwnLine
<1>1. IInv /\ KeysInv => KeysOfOwnLine
  <2> SUFFICES ASSUME IInv, KeysInv PROVE KeysOfOwnLine
    OBVIOUS
  <2>1. CommittedIsComplete
    BY DEF KeysInv, CommittedIsComplete
  <2>2. ASSUME OneLineEach, NEW i \in DOMAIN keys
        PROVE  /\ Len(keys[i]) = Cardinality(FieldsAt(lines[i]))
               /\ \A run \in FieldsAt(lines[i]) :
                     keys[i][Cardinality({r \in FieldsAt(lines[i]) : r[1] <= run[1]})]
                         = SubSeq(lines[i], run[1], run[2])
    <3>1. keys[i] = KeysOf(lines[i])
      BY <2>2 DEF KeysInv
    <3>2. i \in 1 .. Len(lines)
      <4>1. keys \in Seq(Seq(Key)) /\ Len(keys) \in {n - 1, n} /\ n \in 0 .. Len(lines)
        BY DEF IInv, Shape, KeysInv
      <4>2. i \in 1 .. Len(keys) /\ Len(lines) \in Nat
        <5>1. lines \in Seq(Seq(Nat))
          BY TextsAssumption DEF IInv, Shape
        <5> QED
          BY <4>1, <5>1, LenProperties
      <4> QED
        BY <4>1, <4>2
    <3>3. lines[i] \in Seq(Nat)
      BY <3>2, LinesHaveNoNewline DEF IInv
    <3>4. KeysAre(lines[i], FieldsAt(lines[i]), keys[i])
      BY <3>1, <3>3, KeysAreFields
    <3> QED
      BY <3>4 DEF KeysAre, FieldsUpTo
  <2> QED
    BY <2>1, <2>2 DEF KeysOfOwnLine
<1> QED
  BY <1>1, KeysInvariance, PTL
=============================================================================
