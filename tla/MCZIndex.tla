------------------------------ MODULE MCZIndex ------------------------------
(* The files of MCIndexBuilder and the shapes the reader is sensitive to.    *)
EXTENDS ZIndex

B(bytes, bits) == [bytes |-> bytes, bits |-> bits, closes |-> FALSE]
C(bytes, bits) == [bytes |-> bytes, bits |-> bits, closes |-> TRUE]

\* One member of four blocks: long enough to skip more than a window.
FourBlocks == <<B(3, 11), B(2, 13), B(2, 9), C(2, 10)>>
\* An empty block in the middle, and the end of the data in the last byte.
EmptyBlock == <<B(3, 11), B(0, 5), C(4, 16)>>

\* Newlines at the end of the text.
SingleMemberFiles ==
    {WholeFile(FourBlocks, n) : n \in {{8}, {1, 4, 8}, {0, 1, 6, 8}, {2, 7, 8}}}
        \cup {WholeFile(EmptyBlock, n) : n \in {{6}, {2, 6}, {0, 3, 5, 6}}}

\* Members that end with a line.
TwoMembers == <<C(3, 10), B(2, 13), C(2, 11)>>
ThreeMembers == <<C(2, 10), C(2, 13), C(2, 11)>>
BgzipFile == <<C(3, 10), C(2, 13), C(0, 10)>>
LineWholeFiles ==
    {WholeFile(TwoMembers, n) : n \in {{2, 6}, {0, 2, 4, 6}}}
        \cup {WholeFile(ThreeMembers, n) : n \in {{1, 3, 5}, {0, 1, 3, 4, 5}}}
        \cup {WholeFile(BgzipFile, n) : n \in {{2, 4}, {0, 2, 3, 4}}}

\* A first member whose text is complete before its data is all read.
LongData == <<C(3, 30), C(4, 10)>>
LongDataFiles == {WholeFile(LongData, n) : n \in {{2, 6}, {2, 4, 6}}}

\* A last line without newline; a line that goes on in the next member.
UnterminatedFiles == {WholeFile(FourBlocks, {1, 4})}
StraddlingFiles == {WholeFile(TwoMembers, {4, 6})}
AllFiles ==
    SingleMemberFiles \cup LineWholeFiles \cup LongDataFiles
        \cup UnterminatedFiles \cup StraddlingFiles

TwoMemberFiles == {WholeFile(TwoMembers, {0, 2, 4, 6})}
=============================================================================
