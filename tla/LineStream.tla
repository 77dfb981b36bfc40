----------------------------- MODULE LineStream -----------------------------
(***************************************************************************)
(* What a LineFinder promises its sink (LineFinder.h:8-11): every line of  *)
(* the text is presented, once, in the order of the text, with its offset  *)
(* and exactly its bytes, however the text was cut into blocks.  Nothing   *)
(* here knows of blocks.                                                   *)
(***************************************************************************)
EXTENDS Text

VARIABLES
    textLength,  \* bytes in the text
    newlines,    \* positions of the newlines
    at,          \* the first byte not presented yet
    reported,    \* the lines presented: offset and bytes
    finished     \* the finder has said all it has to say

vars == <<textLength, newlines, at, reported, finished>>

Init ==
    /\ at = 0
    /\ reported = <<>>
    /\ finished = FALSE

\* The next line, up to its newline or to the end of the text.
Present ==
    /\ ~finished
    /\ at < textLength
    /\ \E end \in at .. textLength :
          /\ IsLineEnd(newlines, textLength, at, end)
          /\ reported' = Append(reported,
                                [offset |-> at, content |-> Slice(at, end)])
          /\ at' = end + 1
    /\ UNCHANGED <<textLength, newlines, finished>>

Finish ==
    /\ ~finished
    /\ at >= textLength
    /\ finished' = TRUE
    /\ UNCHANGED <<textLength, newlines, at, reported>>

Next == Present \/ Finish

Spec == Init /\ [][Next]_vars

FairSpec == Spec /\ WF_vars(Next)
=============================================================================
