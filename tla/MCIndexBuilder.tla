--------------------------- MODULE MCIndexBuilder ---------------------------
(* Small files: blocks of a few bytes that end on odd bits, several members, *)
(* a member without text at either end, and files cut short or damaged.      *)
EXTENDS IndexBuilder

B(bytes, bits) == [bytes |-> bytes, bits |-> bits, closes |-> FALSE]
C(bytes, bits) == [bytes |-> bytes, bits |-> bits, closes |-> TRUE]

\* One member of three blocks.
OneMember == <<B(2, 11), B(3, 13), C(2, 10)>>
\* Two members with text; the second has two blocks.
TwoMembers == <<C(3, 10), B(2, 13), C(2, 11)>>
\* What bgzip writes: members and an empty one at the end.
BgzipFile == <<C(3, 18), C(2, 13), C(0, 10)>>
\* An empty member first.
EmptyFirst == <<C(0, 10), B(4, 16), C(1, 11)>>
\* An empty block in the middle of a member.
EmptyBlock == <<B(3, 11), B(0, 5), C(3, 13)>>
\* An empty member between two others.
EmptyMiddle == <<C(2, 10), C(0, 10), C(2, 10)>>
\* A member whose last block is empty, as after a flush, before another member.
EmptyLast == <<B(2, 10), C(0, 10), C(2, 10)>>

NewlineSets == {{2, 4}, {0, 1, 6}, {3}, {}}
Texts(shape) ==
    LET size == TextLength(WholeFile(shape, {}))
    IN  {lines \cap (0 .. (size - 1)) : lines \in NewlineSets}
            \cup {{1, size - 1}}

Intact(shapes) == UNION {{WholeFile(s, n) : n \in Texts(s)} : s \in shapes}

WholeFiles == Intact({OneMember, TwoMembers, BgzipFile, EmptyFirst, EmptyBlock})

Cut(f, size) == [f EXCEPT !.size = size]
Hurt(f, k) == [f EXCEPT !.corrupt = {k}]
DamagedFiles ==
    LET f == WholeFile(OneMember, {2, 6})
        g == WholeFile(TwoMembers, {2, 6})
    IN  {Cut(f, n) : n \in 2 .. (f.size - 1)}
            \cup {Cut(g, n) : n \in 2 .. (g.size - 1)}
            \cup {Hurt(f, 1), Hurt(f, 3), Hurt(g, 2)}

BuildFiles == WholeFiles \cup DamagedFiles

EmptyMiddleFiles == Intact({EmptyMiddle, EmptyLast})
=============================================================================
