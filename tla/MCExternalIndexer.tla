------------------------- MODULE MCExternalIndexer -------------------------
(* Instances of ExternalIndexer for TLC. *)
EXTENDS ExternalIndexer

\* Two lines each: short ones, an empty one, one of separators, lines that fill both
\* pipes, and one that is a byte too long.
MCTexts ==
    {<< <<2, 3>>, <<4>> >>,
     << <<>>, <<2, 1, 1, 3>> >>,
     << <<1, 2, 3, 4>>, <<5, 1>> >>,
     << <<2, 3, 4, 5, 6>>, <<7>> >>}
=============================================================================
