--------------------------- MODULE MCChunkedText ----------------------------
(* Every text of at most five bytes, cut into blocks in every way.         *)
EXTENDS ChunkedText
=============================================================================
