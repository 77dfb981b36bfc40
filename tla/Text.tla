------------------------------- MODULE Text -------------------------------
(***************************************************************************)
(* The uncompressed text, as the line finder, the builder and the reader   *)
(* see it.  A byte is its position in the text: two runs of bytes are      *)
(* equal when they are the same part of the text.  Which positions hold a  *)
(* newline is a set, given by the module that uses this one.               *)
(***************************************************************************)
EXTENDS Integers, Sequences

\* The bytes from position `from` up to, and not including, position `to`.
Slice(from, to) == [i \in 1 .. (to - from) |-> from + i - 1]

\* No byte of positions from .. to - 1 is a newline.
Unbroken(newlines, from, to) == \A p \in from .. (to - 1) : p \notin newlines

\* The line that starts at `from` has its last byte just before `end`: a newline
\* is there, or the text stops there.
IsLineEnd(newlines, textLength, from, end) ==
    /\ end \in newlines \/ end = textLength
    /\ Unbroken(newlines, from, end)

\* Position p is the first byte of a line of the text.
IsLineStart(newlines, textLength, p) ==
    /\ p \in 0 .. (textLength - 1)
    /\ p = 0 \/ p - 1 \in newlines
=============================================================================
