-------------------------- MODULE ExternalIndexer --------------------------
(***************************************************************************)
(* The class ExternalIndexer (ExternalIndexer.h, ExternalIndexer.cpp) with *)
(* its two Pipes, from the fork in its constructor through index() for     *)
(* every line of the text to its destructor, and the command it runs.      *)
(*                                                                         *)
(* Two processes share two pipes of bounded capacity.  A write is cut into *)
(* pieces wherever the pipe is full or the other side reads; the command   *)
(* may die at any moment.  Its answer to a line is the line itself, as of  *)
(* `cat` in the tests; what matters is when it reads and when it writes:   *)
(*   "copies"   passes on every piece as it comes (cat, tr);               *)
(*   "answers"  reads a whole line first (jq --unbuffered);                *)
(*   "repeats"  reads a whole line and answers with two.                   *)
(***************************************************************************)
EXTENDS Integers, Sequences, FiniteSets

CONSTANTS
    PipeCapacity,       \* bytes a pipe holds
    BlockSize,          \* blockSize, the bytes one read() asks for
    Texts,              \* the texts a build may run over: sequences of lines
    Commands            \* the kinds of command

Newline == 0
Separator == 1

ASSUME CapacityAssumption ==
    /\ PipeCapacity \in Nat \ {0}
    /\ BlockSize \in Nat \ {0}
ASSUME TextsAssumption ==
    \A text \in Texts :
        /\ text \in Seq(Seq(Nat))
        /\ \A n \in DOMAIN text : \A i \in DOMAIN text[n] : text[n][i] # Newline
ASSUME CommandsAssumption == Commands \subseteq {"copies", "answers", "repeats"}

VARIABLES
    lines,              \* the text's lines; never assigned
    command,            \* command; never assigned
    phase,              \* where the parent is
    n,                  \* lines given to index() so far
    toWrite,            \* what write() has not put into the pipe yet
    sendPipe,           \* the bytes in sendPipe_
    receivePipe,        \* the bytes in receivePipe_
    buf,                \* buf
    keys,               \* the keys each finished call has added
    outcome,            \* how zindex ends
    parentEnds,         \* the ends of the pipes the parent has open
    sigchld,            \* the parent's disposition of SIGCHLD
    child               \* the process: its state, open ends and bytes

parentVars == <<phase, n, toWrite, buf, keys, outcome, parentEnds, sigchld>>
vars == <<lines, command, parentVars, sendPipe, receivePipe, child>>

PipeEnds == {"sendRead", "sendWrite", "receiveRead", "receiveWrite"}

Alive == child.state \in {"forked", "running"}
IsOpen(end) == end \in parentEnds \/ end \in child.ends

Fewer(a, b) == IF a < b THEN a ELSE b
From(s, i) == SubSeq(s, i, Len(s))

Init ==
    /\ lines \in Texts
    /\ command \in Commands
    /\ phase = "forking"
    /\ n = 0
    /\ toWrite = <<>>
    /\ sendPipe = <<>>
    /\ receivePipe = <<>>
    /\ buf = <<>>
    /\ keys = <<>>
    /\ outcome = "none"
    /\ parentEnds = PipeEnds
    /\ sigchld = "default"
    /\ child = [state |-> "none", ends |-> {}, taken |-> <<>>, answer |-> <<>>]

-----------------------------------------------------------------------------
(* The constructor. *)

\* Mutant: the parent keeps its copy of the end only the child writes to.
KeepsReceiveWrite(ends) == ends \ {"sendRead"}

\* sendPipe_.closeRead() and receivePipe_.closeWrite().
ParentEndsOf(ends) == ends \ {"sendRead", "receiveWrite"}

Fork ==
    /\ phase = "forking"
    /\ child' = [child EXCEPT !.state = "forked", !.ends = parentEnds]
    /\ parentEnds' = ParentEndsOf(parentEnds)
    /\ phase' = "signals"
    /\ UNCHANGED <<lines, command, n, toWrite, buf, keys, outcome, sigchld,
                   sendPipe, receivePipe>>

\* fork() fails: the constructor throws, the pipes are closed, there is no child.
ForkFails ==
    /\ phase = "forking"
    /\ phase' = "ended"
    /\ outcome' = "failed"
    /\ parentEnds' = {}
    /\ UNCHANGED <<lines, command, n, toWrite, buf, keys, sigchld, sendPipe,
                   receivePipe, child>>

\* signal(SIGCHLD, SIG_IGN): from now on a child that dies is reaped at once; one
\* that has died already stays a zombie.
IgnoreSignals ==
    /\ phase = "signals"
    /\ sigchld' = "ignored"
    /\ phase' = "building"
    /\ UNCHANGED <<lines, command, n, toWrite, buf, keys, outcome, parentEnds,
                   sendPipe, receivePipe, child>>

-----------------------------------------------------------------------------
(* index(): the line, a newline, and then the answer. *)

Throw ==
    /\ phase' = "killing"
    /\ outcome' = "failed"
    /\ UNCHANGED <<n, toWrite, buf, keys, parentEnds, sigchld>>

\* Mutant: the line is written with its newline, and then the newline again.
WithNewline(line) == Append(line, Newline)

\* What the first write() is given.
WrittenFirst(line) == line

\* Mutant: the buffer outlives the call.
BufOfLastCall == buf

\* index() starts with a buffer of its own.
NewBuf == <<>>

IndexLine ==
    /\ phase = "building"
    /\ n < Len(lines)
    /\ n' = n + 1
    /\ toWrite' = WrittenFirst(lines[n + 1])
    /\ buf' = NewBuf
    /\ phase' = "line"
    /\ UNCHANGED <<lines, command, keys, outcome, parentEnds, sigchld, sendPipe,
                   receivePipe, child>>

\* write() puts in what fits; it blocks while the pipe is full.
WriteSome ==
    /\ phase \in {"line", "newline"}
    /\ IsOpen("sendRead")
    /\ \E k \in 1 .. Fewer(Len(toWrite), PipeCapacity - Len(sendPipe)) :
          /\ sendPipe' = sendPipe \o SubSeq(toWrite, 1, k)
          /\ toWrite' = From(toWrite, k + 1)
    /\ UNCHANGED <<lines, command, phase, n, buf, keys, outcome, parentEnds, sigchld,
                   receivePipe, child>>

\* EPIPE, or a short count: "Unable to write to child process".
WriteFails ==
    /\ phase \in {"line", "newline"}
    /\ toWrite # <<>>
    /\ ~IsOpen("sendRead")
    /\ Throw
    /\ UNCHANGED <<lines, command, sendPipe, receivePipe, child>>

LineWritten ==
    /\ phase = "line"
    /\ toWrite = <<>>
    /\ toWrite' = <<Newline>>
    /\ phase' = "newline"
    /\ UNCHANGED <<lines, command, n, buf, keys, outcome, parentEnds, sigchld,
                   sendPipe, receivePipe, child>>

NewlineWritten ==
    /\ phase = "newline"
    /\ toWrite = <<>>
    /\ phase' = "reading"
    /\ UNCHANGED <<lines, command, n, toWrite, buf, keys, outcome, parentEnds, sigchld,
                   sendPipe, receivePipe, child>>

\* memmem(): where the next separator is from ptr on, one past the end if there is none.
NextSep(bytes, ptr) ==
    LET seps == {i \in ptr .. Len(bytes) : bytes[i] = Separator}
    IN  IF seps = {} THEN Len(bytes) + 1 ELSE CHOOSE i \in seps : \A j \in seps : i <= j

\* Mutant: the empty pieces between separators are keys as well.
KeysWithEmptyOnes(bytes) ==
    LET Keys[rest \in 0 .. Len(bytes)] ==
            LET ptr == Len(bytes) - rest + 1
                nextSep == NextSep(bytes, ptr)
            IN  <<SubSeq(bytes, ptr, nextSep - 1)>>
                \o (IF nextSep > Len(bytes) THEN <<>> ELSE Keys[Len(bytes) - nextSep])
    IN  Keys[Len(bytes)]

\* The loop over ptr: the pieces between separators, the empty ones left out.
\* Keys[rest] are those of the last `rest` bytes.
KeysOf(bytes) ==
    LET Keys[rest \in 0 .. Len(bytes)] ==
            IF rest = 0 THEN <<>>
            ELSE LET ptr == Len(bytes) - rest + 1
                     nextSep == NextSep(bytes, ptr)
                     piece == SubSeq(bytes, ptr, nextSep - 1)
                 IN  (IF piece = <<>> THEN <<>> ELSE <<piece>>)
                     \o (IF nextSep > Len(bytes) THEN <<>> ELSE Keys[Len(bytes) - nextSep])
    IN  Keys[Len(bytes)]

\* Mutant: the first block that comes is taken for the whole answer.
AnyBlockIsAll(bytes) == TRUE

\* The answer is there when the last byte read is a newline.
IsWhole(bytes) == bytes[Len(bytes)] = Newline

HasNewline(bytes) == \E i \in DOMAIN bytes : bytes[i] = Newline

\* One read() and what index() makes of it.  sink.add() may throw on a key.
Read ==
    /\ phase = "reading"
    /\ receivePipe # <<>>
    /\ LET bytes == Fewer(Len(receivePipe), BlockSize)
           got == buf \o SubSeq(receivePipe, 1, bytes)
           answer == KeysOf(SubSeq(got, 1, Len(got) - 1))
       IN  /\ receivePipe' = From(receivePipe, bytes + 1)
           /\ \/ /\ IsWhole(got)
                 /\ keys' = Append(keys, answer)
                 /\ buf' = got
                 /\ phase' = "building"
                 /\ UNCHANGED <<n, toWrite, outcome, parentEnds, sigchld>>
              \/ IsWhole(got) /\ answer # <<>> /\ Throw
              \/ ~IsWhole(got) /\ HasNewline(got) /\ Throw
              \/ /\ ~IsWhole(got)
                 /\ ~HasNewline(got)
                 /\ buf' = got
                 /\ UNCHANGED <<phase, n, toWrite, keys, outcome, parentEnds, sigchld>>
    /\ UNCHANGED <<lines, command, sendPipe, child>>

AtEof ==
    /\ phase = "reading"
    /\ receivePipe = <<>>
    /\ ~IsOpen("receiveWrite")

\* read() returns 0: "Child process died".
ReadFails ==
    /\ AtEof
    /\ Throw
    /\ UNCHANGED <<lines, command, sendPipe, receivePipe, child>>

-----------------------------------------------------------------------------
(* The build goes on with other things, ends, or fails; the destructor runs. *)

BuildOver ==
    /\ phase = "building"
    /\ phase' = "killing"
    /\ \/ n = Len(lines) /\ outcome' = "ok"
       \/ outcome' = "failed"
    /\ UNCHANGED <<lines, command, n, toWrite, buf, keys, parentEnds, sigchld,
                   sendPipe, receivePipe, child>>

\* kill(childPid_, SIGTERM); it fails when there is no such process any more, and
\* then the destructor calls std::terminate().
Kill ==
    /\ phase = "killing"
    /\ IF child.state = "reaped"
       THEN /\ phase' = "ended"
            /\ outcome' = "aborted"
            /\ parentEnds' = {}
       ELSE phase' = "waiting" /\ UNCHANGED <<outcome, parentEnds>>
    /\ UNCHANGED <<lines, command, n, toWrite, buf, keys, sigchld, sendPipe,
                   receivePipe, child>>

\* Mutant: the destructor does not wait.
DoesNotWait == TRUE

\* waitpid() returns for a dead child, a zombie or not.
WaitReturns == ~Alive

\* The rest of the destructor, and the destructors of the pipes.
Wait ==
    /\ phase = "waiting"
    /\ WaitReturns
    /\ child' = [child EXCEPT !.state = IF @ = "zombie" THEN "reaped" ELSE @]
    /\ sigchld' = "default"
    /\ parentEnds' = {}
    /\ phase' = "ended"
    /\ UNCHANGED <<lines, command, n, toWrite, buf, keys, outcome, sendPipe, receivePipe>>

-----------------------------------------------------------------------------
(* The child. *)

\* runChild(): it closes the parent's ends and becomes the command.
RunChild ==
    /\ child.state = "forked"
    /\ child' = [child EXCEPT !.state = "running",
                              !.ends = @ \ {"sendWrite", "receiveRead"}]
    /\ UNCHANGED <<lines, command, parentVars, sendPipe, receivePipe>>

\* What the command writes for what it has taken.
AnswerTo(taken) ==
    CASE command = "copies" -> taken
      [] command = "answers" -> IF HasNewline(taken) THEN taken ELSE <<>>
      [] command = "repeats" -> IF HasNewline(taken) THEN taken \o taken ELSE <<>>

\* It reads when it has written its answer; a read takes any part of what is there.
ChildReads ==
    /\ child.state = "running"
    /\ child.answer = <<>>
    /\ \E k \in 1 .. Len(sendPipe) :
          LET taken == child.taken \o SubSeq(sendPipe, 1, k)
              answer == AnswerTo(taken)
          IN  /\ sendPipe' = From(sendPipe, k + 1)
              /\ child' = [child EXCEPT !.taken = IF answer = <<>> THEN taken ELSE <<>>,
                                        !.answer = answer]
    /\ UNCHANGED <<lines, command, parentVars, receivePipe>>

ChildWrites ==
    /\ child.state = "running"
    /\ \E k \in 1 .. Fewer(Len(child.answer), PipeCapacity - Len(receivePipe)) :
          /\ receivePipe' = receivePipe \o SubSeq(child.answer, 1, k)
          /\ child' = [child EXCEPT !.answer = From(@, k + 1)]
    /\ UNCHANGED <<lines, command, parentVars, sendPipe>>

Die ==
    /\ Alive
    /\ child' = [state |-> IF sigchld = "ignored" THEN "reaped" ELSE "zombie",
                 ends |-> {}, taken |-> <<>>, answer |-> <<>>]
    /\ UNCHANGED <<lines, command, parentVars, sendPipe, receivePipe>>

\* The command fails, or exits before it is told to; exec may fail.
ChildDies == phase \notin {"waiting", "ended"} /\ Die

\* SIGTERM ends it.
ChildTerminates == phase = "waiting" /\ Die

-----------------------------------------------------------------------------
Construct == Fork \/ ForkFails \/ IgnoreSignals

Index == IndexLine \/ WriteSome \/ WriteFails \/ LineWritten \/ NewlineWritten
            \/ Read \/ ReadFails

Destroy == Kill \/ Wait

Parent == Construct \/ Index \/ BuildOver \/ Destroy

ChildWorks == RunChild \/ ChildReads \/ ChildWrites \/ ChildTerminates

Next == Parent \/ ChildWorks \/ ChildDies

Spec == Init /\ [][Next]_vars

\* Both processes are scheduled; the command need not die before it is killed.
FairSpec == Spec /\ WF_vars(Parent) /\ WF_vars(ChildWorks)

-----------------------------------------------------------------------------
\* Every variable has its type; neither pipe holds more than it can, a call that
\* has ended has its keys and only the call in progress may lack them, and no key
\* is empty (ExternalIndexerTest, "multiple   separators").
TypeOK ==
    /\ lines \in Texts
    /\ command \in Commands
    /\ phase \in {"forking", "signals", "building", "line", "newline", "reading",
                  "killing", "waiting", "ended"}
    /\ n \in 0 .. Len(lines)
    /\ toWrite \in Seq(Nat)
    /\ sendPipe \in Seq(Nat) /\ Len(sendPipe) <= PipeCapacity
    /\ receivePipe \in Seq(Nat) /\ Len(receivePipe) <= PipeCapacity
    /\ buf \in Seq(Nat)
    /\ keys \in Seq(Seq(Seq(Nat) \ {<<>>}))
    /\ Len(keys) \in {n - 1, n}
    /\ outcome \in {"none", "ok", "failed", "aborted"}
    /\ parentEnds \subseteq PipeEnds
    /\ sigchld \in {"default", "ignored"}
    /\ child \in [state : {"none", "forked", "running", "zombie", "reaped"},
                  ends : SUBSET PipeEnds, taken : Seq(Nat), answer : Seq(Nat)]

\* "should output a single line for each input line" (zindex.cpp:68-70).
OneLineEach == command \in {"copies", "answers"}

\* The fields of a line, by where they are: the longest runs without a separator.
FieldsAt(line) ==
    {run \in (1 .. Len(line)) \X (1 .. Len(line)) :
        /\ run[1] <= run[2]
        /\ \A i \in run[1] .. run[2] : line[i] # Separator
        /\ run[1] > 1 => line[run[1] - 1] = Separator
        /\ run[2] < Len(line) => line[run[2] + 1] = Separator}

\* A build that commits has an answer for every line, also when the command died.
CommittedIsComplete == outcome = "ok" => Len(keys) = Len(lines)

\* The keys added for a line are the fields of the answer to that very line, all of
\* them and in order, whatever pieces the pipes cut it into and whenever the command
\* dies: never those of another line, never part of an answer, and no line of a build
\* that commits is left out.
KeysOfOwnLine ==
    /\ CommittedIsComplete
    /\ OneLineEach =>
          \A i \in DOMAIN keys :
              /\ Len(keys[i]) = Cardinality(FieldsAt(lines[i]))
              /\ \A run \in FieldsAt(lines[i]) :
                    keys[i][Cardinality({r \in FieldsAt(lines[i]) : r[1] <= run[1]})]
                        = SubSeq(lines[i], run[1], run[2])

\* While a call is in progress and the command lives, the bytes on their way (read
\* by the parent, in the pipe back, with the command, in the pipe there, unwritten)
\* are the line and its newline: nothing is lost, doubled or left from another line.
LineInFlight ==
    (OneLineEach /\ child.state \in {"forked", "running"}
                 /\ phase \in {"line", "newline", "reading"}) =>
        buf \o receivePipe \o child.answer \o child.taken \o sendPipe \o toWrite
            = lines[n] \o (IF phase = "line" THEN <<>> ELSE <<Newline>>)

\* Parent and command wait for each other: the parent writes into a full pipe and
\* the command, which has not read the rest, into another.
Jammed ==
    /\ phase \in {"line", "newline"} /\ toWrite # <<>>
    /\ Len(sendPipe) = PipeCapacity
    /\ child.state = "running" /\ child.answer # <<>>
    /\ Len(receivePipe) = PipeCapacity

\* The pipes and one byte in the command's hands are room for the line.
Fits(line) == Len(line) <= 2 * PipeCapacity

\* index() writes all of the line before it reads.  With a command that answers
\* before it has read everything, that jams only on a line longer than both pipes.
JamsOnlyIfTooLong ==
    (OneLineEach /\ Jammed) => (command = "copies" /\ ~Fits(lines[n]))

\* zindex leaves no process and no zombie behind.
NoChildLeft == phase = "ended" => child.state \in {"none", "reaped"}

\* With a command that answers each line at once, and lines that fit if it answers
\* them in pieces, zindex ends: also when the command dies in the middle.
IndexerEnds ==
    (/\ OneLineEach
     /\ command = "copies" => \A i \in DOMAIN lines : Fits(lines[i]))
        => <>(phase = "ended")
=============================================================================
