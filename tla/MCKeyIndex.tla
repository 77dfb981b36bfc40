----------------------------- MODULE MCKeyIndex -----------------------------
(* Three digits, a column of eight integers, expressions with and without  *)
(* groups, fields, and the configurations that combine them.                 *)
EXTENDS KeyIndex

a == 4
b == 5
c == 6
Words(letters, most) == UNION {[1 .. k -> letters] : k \in 1 .. most}

Regex(accepts) == [accepts |-> accepts, anchored |-> FALSE]
Accepts(text, groups) == [text |-> text, groups |-> groups]
Plain(texts) == Regex({Accepts(t, <<>>) : t \in texts})
At(from, to) == <<from, to>>

Letters == Plain(Words({a, b}, 3))                                      \* [ab]{1,3}
Numbers == Plain(Words(0 .. 2, 2) \cup {<<Minus>> \o w : w \in Words(0 .. 2, 2)})
AfterA == Regex({Accepts(<<a>> \o w, <<At(1, 1 + Len(w))>>) : w \in Words(0 .. 2, 2)})
BetweenAs == Regex({Accepts(<<a, b, a>>, <<At(1, 2)>>)})                \* a(b)a
Either == Regex({Accepts(<<a>>, <<At(0, 1)>>), Accepts(<<b>>, <<Unmatched>>)})  \* (a)|b
Both == Regex({Accepts(<<a, b>>, <<At(0, 1), At(1, 2)>>)})              \* (a)(b)
Optional ==                                                             \* (a)?(b)
    Regex({Accepts(<<a, b>>, <<At(0, 1), At(1, 2)>>),
           Accepts(<<b>>, <<Unmatched, At(0, 1)>>)})
Star == Plain({<<>>, <<a>>, <<a, a>>})                                  \* a{0,2}
Leading == [Plain(Words({a}, 3)) EXCEPT !.anchored = TRUE]              \* ^a+

Options(name, numeric, unique, sparse) ==
    [name |-> name, numeric |-> numeric, unique |-> unique, sparse |-> sparse]
Text(name) == Options(name, FALSE, FALSE, FALSE)
Unique(name) == Options(name, FALSE, TRUE, FALSE)
Numeric(name) == Options(name, TRUE, FALSE, TRUE)
Sparse(name) == Options(name, FALSE, FALSE, TRUE)
WithRegex(options, re, capture) ==
    options @@ [kind |-> "regex", re |-> re, capture |-> capture]
WithField(options, separator, field) ==
    options @@ [kind |-> "field", separator |-> separator, field |-> field]
Bad == Text("bad") @@ [kind |-> "bad"]

MCConfigs ==
    {<<>>, <<WithRegex(Text("x"), Letters, 0), Bad>>,
     <<WithRegex(Text("x"), Letters, 0), WithField(Text("x"), <<c>>, 1)>>,
     <<WithRegex(Text("x"), Letters, 0), WithRegex(Numeric("y"), Numbers, 0)>>,
     <<WithRegex(Options("x", TRUE, TRUE, FALSE), Numbers, 0)>>,
     <<WithRegex(Numeric("x"), AfterA, 0), WithRegex(Sparse("y"), Leading, 0)>>,
     <<WithRegex(Sparse("x"), BetweenAs, 0), WithRegex(Text("y"), BetweenAs, 1)>>,
     <<WithRegex(Unique("x"), Either, 0)>>, <<WithRegex(Text("x"), Either, 1)>>,
     <<WithRegex(Text("x"), Both, 0)>>, <<WithRegex(Text("x"), Both, 1)>>,
     <<WithRegex(Sparse("x"), Both, 2)>>, <<WithRegex(Text("x"), Optional, 2)>>,
     <<WithRegex(Text("x"), Star, 0)>>, <<WithRegex(Unique("x"), Star, 0)>>,
     <<WithRegex(Numeric("x"), Star, 0)>>,
     <<WithField(Sparse("x"), <<c>>, 0), WithField(Unique("y"), <<c>>, 2),
       WithField(Numeric("z"), <<c>>, 3)>>,
     <<WithField(Text("x"), <<c, c>>, 2), WithField(Sparse("y"), <<c, c>>, 3)>>}

MCTexts ==
    {<<>>, <<<<>>, <<a>>>>,
     <<<<a, b, a, b, a>>, <<c, b, a>>, <<b, c, a, b>>>>,
     <<<<2, 2>>, <<Minus, 1, 1, c, Minus, 2>>, <<a, 1, 0, 1>>>>,
     <<<<a, 0, 1>>, <<b>>, <<a, 1, b, a, 1>>>>,
     <<<<a, c, b, c, 1>>, <<c, c, c, a>>, <<b, c, a, c, c, 2>>>>,
     <<<<b, c, c, a, c, c, c, c, b>>, <<Minus>>, <<a, c, c>>>>,
     <<<<a, a, a, b>>, <<c>>, <<a>>>>}
=============================================================================
