--------------------------- MODULE KeyIndexProofs ---------------------------
(* The rows of every build, for every configuration and text: they are what *)
(* the expressions and field numbers select, queries for their keys lead    *)
(* back to their lines, and a build fails for a reason only.                *)
EXTENDS KeyIndex, TLAPS, WellFoundedInduction, FiniteSetTheorems

\* A set of numbers has a least one.  Induction over strict inclusion, applied to
\* the intervals that end in the set.
LEMMA LeastNumber ==
    ASSUME NEW T \in SUBSET Nat, T # {}
    PROVE  \E x \in T : \A y \in T : x <= y
<1> DEFINE F == {0 .. x : x \in T}
<1>1. IsWellFoundedOn(StrictSubsetOrdering(Nat), FiniteSubsetsOf(Nat))
  BY FS_StrictSubsetOrderingWellFounded
<1>2. F \subseteq FiniteSubsetsOf(Nat)
  <2>1. \A x \in T : IsFiniteSet(0 .. x)
    BY FS_Interval
  <2> QED
    BY <2>1 DEF FiniteSubsetsOf
<1>3. F # {}
  OBVIOUS
<1>4. PICK g \in F : \A h \in F : ~(<<h, g>> \in StrictSubsetOrdering(Nat))
  <2> HIDE DEF F
  <2> QED
    BY <1>1, <1>2, <1>3, WFMin
<1>5. PICK x \in T : g = 0 .. x
  OBVIOUS
<1>6. ASSUME NEW y \in T, y < x PROVE FALSE
  <2>1. <<0 .. y, 0 .. x>> \in StrictSubsetOrdering(Nat)
    <3>1. 0 .. y # 0 .. x
      BY <1>6
    <3>2. 0 .. y \subseteq 0 .. x
      BY <1>6
    <3>3. 0 .. y \in SUBSET Nat /\ 0 .. x \in SUBSET Nat
      OBVIOUS
    <3> QED
      BY <3>1, <3>2, <3>3 DEF StrictSubsetOrdering
  <2> QED
    BY <1>4, <1>5, <2>1
<1> QED
  BY <1>6

\* Min() is the least number, where there is one.
LEMMA MinIs ==
    ASSUME NEW S \in SUBSET Int, NEW x \in S, \A y \in S : x <= y
    PROVE  Min(S) = x
<1>1. Min(S) \in S /\ \A y \in S : Min(S) <= y
  BY DEF Min
<1>2. Min(S) <= x /\ x <= Min(S) /\ Min(S) \in Int
  BY <1>1
<1> QED
  BY <1>2

LEMMA MinLeast ==
    ASSUME NEW S \in SUBSET Nat, S # {}
    PROVE  Min(S) \in S /\ \A y \in S : Min(S) <= y
<1>1. PICK x \in S : \A y \in S : x <= y
  BY LeastNumber
<1>2. S \in SUBSET Int
  OBVIOUS
<1>3. Min(S) = x
  BY <1>1, <1>2, MinIs
<1> QED
  BY <1>1, <1>3

\* The larger of two numbers, as Field() asks for it.
LEMMA MaxOfTwo ==
    ASSUME NEW k \in Int
    PROVE  Max({1, k}) = IF k <= 1 THEN 1 ELSE k
<1>1. Max({1, k}) \in {1, k} /\ \A y \in {1, k} : Max({1, k}) >= y
  <2>1. CASE k <= 1
    BY <2>1 DEF Max
  <2>2. CASE k > 1
    BY <2>2 DEF Max
  <2> QED
    BY <2>1, <2>2
<1>2. Max({1, k}) \in Int /\ Max({1, k}) >= 1 /\ Max({1, k}) >= k
  BY <1>1
<1>3. Max({1, k}) = 1 \/ Max({1, k}) = k
  BY <1>1
<1> QED
  BY <1>2, <1>3

-----------------------------------------------------------------------------
(* Parts of a line                                                          *)

LEMMA SameText ==
    ASSUME NEW s \in Seq(Nat), NEW t \in Seq(Nat), Len(s) = Len(t),
           \A k \in 1 .. Len(s) : s[k] = t[k]
    PROVE  s = t
<1>1. s = [k \in 1 .. Len(s) |-> s[k]]
  OBVIOUS
<1>2. t = [k \in 1 .. Len(t) |-> t[k]]
  OBVIOUS
<1> QED
  BY <1>1, <1>2

LEMMA PartOf ==
    ASSUME NEW line \in Seq(Nat), NEW i \in 0 .. Len(line), NEW j \in i .. Len(line)
    PROVE  /\ Between(line, <<i, j>>) \in Seq(Nat)
           /\ Len(Between(line, <<i, j>>)) = j - i
           /\ \A k \in 1 .. (j - i) : Between(line, <<i, j>>)[k] = line[i + k]
<1> DEFINE s == SubSeq(line, i + 1, j)
<1>1. Between(line, <<i, j>>) = s
  BY DEF Between
<1>2. s = [k \in 1 .. (j - i) |-> line[i + k]]
  <2>1. s = [k \in 1 .. (j - (i + 1) + 1) |-> line[(i + 1) + k - 1]]
    OBVIOUS
  <2>2. j - (i + 1) + 1 = j - i /\ \A k \in 1 .. (j - i) : (i + 1) + k - 1 = i + k
    OBVIOUS
  <2> QED
    BY <2>1, <2>2
<1>3. \A k \in 1 .. (j - i) : line[i + k] \in Nat
  OBVIOUS
<1>4. j - i \in Nat
  OBVIOUS
<1> HIDE DEF s
<1>5. s \in Seq(Nat) /\ Len(s) = j - i /\ \A k \in 1 .. (j - i) : s[k] = line[i + k]
  BY <1>2, <1>3, <1>4
<1> QED
  BY <1>1, <1>5

LEMMA RestOf ==
    ASSUME NEW line \in Seq(Nat), NEW i \in 0 .. Len(line)
    PROVE  /\ From(line, i) \in Seq(Nat)
           /\ Len(From(line, i)) = Len(line) - i
           /\ \A k \in 1 .. (Len(line) - i) : From(line, i)[k] = line[i + k]
<1>1. From(line, i) = Between(line, <<i, Len(line)>>)
  BY DEF From, Between
<1>2. Len(line) \in i .. Len(line)
  OBVIOUS
<1> QED
  BY <1>1, <1>2, PartOf

LEMMA RestOfRest ==
    ASSUME NEW line \in Seq(Nat), NEW i \in 0 .. Len(line), NEW j \in 0 .. (Len(line) - i)
    PROVE  From(From(line, i), j) = From(line, i + j)
<1> DEFINE rest == From(line, i)
           s == From(rest, j)
           t == From(line, i + j)
<1>1. /\ rest \in Seq(Nat) /\ Len(rest) = Len(line) - i
      /\ \A k \in 1 .. (Len(line) - i) : rest[k] = line[i + k]
  BY RestOf
<1>2. j \in 0 .. Len(rest) /\ i + j \in 0 .. Len(line)
  BY <1>1
<1>3. /\ s \in Seq(Nat) /\ Len(s) = Len(rest) - j
      /\ \A k \in 1 .. (Len(rest) - j) : s[k] = rest[j + k]
  BY <1>1, <1>2, RestOf
<1>4. /\ t \in Seq(Nat) /\ Len(t) = Len(line) - (i + j)
      /\ \A k \in 1 .. (Len(line) - (i + j)) : t[k] = line[i + j + k]
  BY <1>2, RestOf
<1> HIDE DEF rest, s, t
<1>5. Len(s) = Len(t)
  BY <1>1, <1>3, <1>4
<1>6. ASSUME NEW k \in 1 .. Len(s) PROVE s[k] = t[k]
  <2>1. s[k] = rest[j + k] /\ j + k \in 1 .. (Len(line) - i) /\ i + (j + k) = i + j + k
    BY <1>1, <1>3
  <2>2. rest[j + k] = line[i + (j + k)]
    BY <1>1, <2>1
  <2> QED
    BY <1>1, <1>3, <1>4, <1>5, <2>1, <2>2
<1>7. s = t
  BY <1>3, <1>4, <1>5, <1>6, SameText
<1> QED
  BY <1>7 DEF s, t, rest

\* A part of what is between two positions is between two positions.
LEMMA PartOfPart ==
    ASSUME NEW line \in Seq(Nat), NEW i \in 0 .. Len(line), NEW j \in i .. Len(line),
           NEW p \in 0 .. (j - i), NEW q \in p .. (j - i)
    PROVE  Between(Between(line, <<i, j>>), <<p, q>>) = Between(line, <<i + p, i + q>>)
<1> DEFINE text == Between(line, <<i, j>>)
           s == Between(text, <<p, q>>)
           t == Between(line, <<i + p, i + q>>)
<1>1. /\ text \in Seq(Nat) /\ Len(text) = j - i
      /\ \A k \in 1 .. (j - i) : text[k] = line[i + k]
  BY PartOf
<1>2. /\ p \in 0 .. Len(text) /\ q \in p .. Len(text)
      /\ i + p \in 0 .. Len(line) /\ i + q \in (i + p) .. Len(line)
  BY <1>1
<1>3. s \in Seq(Nat) /\ Len(s) = q - p /\ \A k \in 1 .. (q - p) : s[k] = text[p + k]
  BY <1>1, <1>2, PartOf
<1>4. /\ t \in Seq(Nat) /\ Len(t) = (i + q) - (i + p)
      /\ \A k \in 1 .. ((i + q) - (i + p)) : t[k] = line[i + p + k]
  BY <1>2, PartOf
<1> HIDE DEF text, s, t
<1>5. Len(s) = Len(t)
  BY <1>3, <1>4
<1>6. ASSUME NEW k \in 1 .. Len(s) PROVE s[k] = t[k]
  <2>1. s[k] = text[p + k] /\ p + k \in 1 .. (j - i) /\ i + (p + k) = i + p + k
    BY <1>3
  <2>2. text[p + k] = line[i + (p + k)]
    BY <1>1, <2>1
  <2> QED
    BY <1>3, <1>4, <1>5, <2>1, <2>2
<1>7. s = t
  BY <1>3, <1>4, <1>5, <1>6, SameText
<1> QED
  BY <1>7 DEF s, t, text

-----------------------------------------------------------------------------
(* What an expression could match                                           *)

\* Text `a` could be matched at position `at`.
MatchesAt(re, line, bol, at, a) ==
    /\ a \in re.accepts /\ at \in 0 .. Len(line)
    /\ re.anchored => bol /\ at = 0
    /\ at + Len(a.text) <= Len(line)
    /\ a.text = Between(line, <<at, at + Len(a.text)>>)

LEMMA PrefixIs ==
    ASSUME NEW text \in Seq(Nat), NEW line \in Seq(Nat), NEW at \in 0 .. Len(line)
    PROVE  IsPrefix(text, From(line, at)) <=>
              /\ at + Len(text) <= Len(line)
              /\ text = Between(line, <<at, at + Len(text)>>)
<1> DEFINE rest == From(line, at)
           k == Len(text)
<1>1. rest = Between(line, <<at, Len(line)>>)
  BY DEF From, Between
<1>2. rest \in Seq(Nat) /\ Len(rest) = Len(line) - at
  BY RestOf
<1>3. SubSeq(text, 1, k) = text /\ k \in Nat
  OBVIOUS
<1>4. SubSeq(rest, 1, k) = Between(rest, <<0, k>>)
  BY <1>3 DEF Between
<1>5. ASSUME k <= Len(rest) PROVE Between(rest, <<0, k>>) = Between(line, <<at, at + k>>)
  <2>1. /\ 0 \in 0 .. (Len(line) - at) /\ k \in 0 .. (Len(line) - at)
        /\ Len(line) \in at .. Len(line) /\ at + 0 = at
    BY <1>2, <1>3, <1>5
  <2>2. Between(Between(line, <<at, Len(line)>>), <<0, k>>)
           = Between(line, <<at + 0, at + k>>)
    BY <2>1, PartOfPart
  <2> QED
    BY <1>1, <2>1, <2>2
<1> HIDE DEF rest, k
<1>6. k <= Len(rest) <=> at + k <= Len(line)
  BY <1>2, <1>3
<1>7. IsPrefix(text, rest) <=> k <= Len(rest) /\ text = SubSeq(rest, 1, k)
  BY <1>3 DEF IsPrefix, k
<1> QED
  BY <1>4, <1>5, <1>6, <1>7 DEF rest, k

LEMMA CandidateIs ==
    ASSUME NEW re, IsRegExp(re), NEW line \in Seq(Nat), NEW bol, NEW c
    PROVE  c \in Candidates(re, line, bol) <=>
              c = <<c[1], c[2]>> /\ MatchesAt(re, line, bol, c[1], c[2])
<1>1. ASSUME NEW at \in 0 .. Len(line), NEW a \in re.accepts
      PROVE  IsPrefix(a.text, From(line, at)) <=>
                /\ at + Len(a.text) <= Len(line)
                /\ a.text = Between(line, <<at, at + Len(a.text)>>)
  <2>1. a.text \in Seq(Nat)
    BY DEF IsRegExp
  <2> QED
    BY <2>1, PrefixIs
<1>2. c \in Candidates(re, line, bol) <=>
         \E at \in 0 .. Len(line) : \E a \in re.accepts :
            /\ c = <<at, a>> /\ (re.anchored => bol /\ at = 0)
            /\ IsPrefix(a.text, From(line, at))
  BY DEF Candidates
<1>3. ASSUME c \in Candidates(re, line, bol)
      PROVE  c = <<c[1], c[2]>> /\ MatchesAt(re, line, bol, c[1], c[2])
  <2>1. PICK at \in 0 .. Len(line) : \E a \in re.accepts :
            /\ c = <<at, a>> /\ (re.anchored => bol /\ at = 0)
            /\ IsPrefix(a.text, From(line, at))
    BY <1>2, <1>3
  <2>2. PICK a \in re.accepts :
            /\ c = <<at, a>> /\ (re.anchored => bol /\ at = 0)
            /\ IsPrefix(a.text, From(line, at))
    BY <2>1
  <2>3. c[1] = at /\ c[2] = a
    BY <2>2
  <2> QED
    BY <1>1, <2>2, <2>3 DEF MatchesAt
<1>4. ASSUME c = <<c[1], c[2]>>, MatchesAt(re, line, bol, c[1], c[2])
      PROVE  c \in Candidates(re, line, bol)
  BY <1>1, <1>2, <1>4 DEF MatchesAt
<1> QED
  BY <1>3, <1>4

\* A match of the rest of a line is a match of the line, and a match of the line that
\* starts there is a match of its rest.
LEMMA MatchesOfRest ==
    ASSUME NEW re, IsRegExp(re), NEW line \in Seq(Nat), NEW start \in 0 .. Len(line),
           NEW at \in Int, NEW a
    PROVE  /\ MatchesAt(re, From(line, start), start = 0, at, a)
                  => MatchesAt(re, line, TRUE, start + at, a)
           /\ MatchesAt(re, line, TRUE, start + at, a) /\ at >= 0
                  => MatchesAt(re, From(line, start), start = 0, at, a)
<1> DEFINE rest == From(line, start)
<1>1. rest = Between(line, <<start, Len(line)>>) /\ Len(line) \in start .. Len(line)
  BY DEF From, Between
<1>2. rest \in Seq(Nat) /\ Len(rest) = Len(line) - start
  BY RestOf
<1>3. ASSUME a \in re.accepts, at >= 0, at + Len(a.text) <= Len(rest)
      PROVE  Between(rest, <<at, at + Len(a.text)>>)
                = Between(line, <<start + at, start + at + Len(a.text)>>)
  <2> DEFINE k == Len(a.text)
  <2>1. k \in Nat
    BY <1>3 DEF IsRegExp
  <2> HIDE DEF rest, k
  <2>2. at \in 0 .. (Len(line) - start) /\ at + k \in at .. (Len(line) - start)
    BY <1>2, <1>3, <2>1 DEF k
  <2>3. start + (at + k) = start + at + k
    BY <2>1
  <2>4. Between(Between(line, <<start, Len(line)>>), <<at, at + k>>)
           = Between(line, <<start + at, start + (at + k)>>)
    BY <1>1, <2>2, PartOfPart
  <2> QED
    BY <1>1, <2>3, <2>4 DEF k
<1> HIDE DEF rest
<1>4. ASSUME MatchesAt(re, rest, start = 0, at, a)
      PROVE  MatchesAt(re, line, TRUE, start + at, a)
  <2>1. Len(a.text) \in Nat /\ Len(line) \in Nat
    BY <1>4 DEF MatchesAt, IsRegExp
  <2> DEFINE k == Len(a.text)
  <2>2. /\ a \in re.accepts /\ at \in 0 .. Len(rest) /\ at + k <= Len(rest)
        /\ re.anchored => start = 0 /\ at = 0
        /\ a.text = Between(rest, <<at, at + k>>)
    BY <1>4 DEF MatchesAt
  <2>3. a.text = Between(line, <<start + at, start + at + k>>)
    BY <1>2, <1>3, <2>2
  <2>4. k \in Nat /\ Len(line) \in Nat
    BY <2>1
  <2> HIDE DEF k
  <2>5. start + at \in 0 .. Len(line) /\ start + at + k <= Len(line)
    BY <1>2, <2>2, <2>4
  <2>6. re.anchored => start + at = 0
    BY <2>2
  <2> QED
    BY <2>2, <2>3, <2>5, <2>6 DEF MatchesAt, k
<1>5. ASSUME MatchesAt(re, line, TRUE, start + at, a), at >= 0
      PROVE  MatchesAt(re, rest, start = 0, at, a)
  <2>1. Len(a.text) \in Nat /\ Len(line) \in Nat
    BY <1>5 DEF MatchesAt, IsRegExp
  <2> DEFINE k == Len(a.text)
  <2>2. /\ a \in re.accepts /\ start + at \in 0 .. Len(line) /\ start + at + k <= Len(line)
        /\ re.anchored => start + at = 0
        /\ a.text = Between(line, <<start + at, start + at + k>>)
    BY <1>5 DEF MatchesAt
  <2>3. k \in Nat /\ Len(line) \in Nat
    BY <2>1
  <2> HIDE DEF k
  <2>4. at \in 0 .. Len(rest) /\ at + k <= Len(rest)
    BY <1>2, <1>5, <2>2, <2>3
  <2>5. re.anchored => start = 0 /\ at = 0
    BY <1>5, <2>2
  <2>6. a.text = Between(rest, <<at, at + k>>)
    BY <1>3, <1>5, <2>2, <2>4 DEF k
  <2> QED
    BY <2>2, <2>4, <2>5, <2>6 DEF MatchesAt, k
<1> QED
  BY <1>4, <1>5 DEF rest

\* Where there is a match there is a leftmost one that is longest.
LEMMA LeftmostLongest ==
    ASSUME NEW re, IsRegExp(re), NEW line \in Seq(Nat), NEW bol,
           Candidates(re, line, bol) # {}
    PROVE  \E c \in Candidates(re, line, bol) :
              \A d \in Candidates(re, line, bol) : Precedes(c, d)
<1> DEFINE all == Candidates(re, line, bol)
           starts == {c[1] : c \in all}
<1>1. \A c \in all : /\ c[1] \in 0 .. Len(line) /\ Len(c[2].text) \in Nat
                     /\ Len(c[2].text) <= Len(line)
  <2> TAKE c \in all
  <2>1. MatchesAt(re, line, bol, c[1], c[2])
    BY CandidateIs
  <2>2. Len(c[2].text) \in Nat /\ Len(line) \in Nat
    BY <2>1 DEF MatchesAt, IsRegExp
  <2> QED
    BY <2>1, <2>2 DEF MatchesAt
<1> HIDE DEF all
<1>2. starts \in SUBSET Nat /\ starts # {}
  BY <1>1 DEF all
<1>3. PICK at \in starts : \A p \in starts : at <= p
  BY <1>2, LeastNumber
<1> DEFINE here == {c \in all : c[1] = at}
           shorts == {Len(line) - Len(c[2].text) : c \in here}
<1>4. shorts \in SUBSET Nat /\ shorts # {}
  <2>1. here # {}
    BY <1>3
  <2>2. \A c \in here : Len(line) - Len(c[2].text) \in Nat
    BY <1>1
  <2> QED
    BY <2>1, <2>2
<1>5. PICK k \in shorts : \A j \in shorts : k <= j
  <2> HIDE DEF shorts
  <2> QED
    BY <1>4, LeastNumber
<1>6. PICK c \in here : k = Len(line) - Len(c[2].text)
  BY <1>5
<1>7. ASSUME NEW d \in all PROVE Precedes(c, d)
  <2>1. c \in all /\ c[1] = at /\ at <= d[1] /\ at \in Int /\ d[1] \in Int
    BY <1>1, <1>3, <1>6
  <2>2. CASE d[1] = at
    <3>1. Len(line) - Len(c[2].text) <= Len(line) - Len(d[2].text)
      BY <1>5, <1>6, <2>2
    <3>2. Len(d[2].text) <= Len(c[2].text)
      BY <1>1, <2>1, <3>1
    <3> QED
      BY <2>1, <2>2, <3>2 DEF Precedes
  <2>3. CASE d[1] # at
    BY <2>1, <2>3 DEF Precedes
  <2> QED
    BY <2>2, <2>3
<1> QED
  BY <1>6, <1>7 DEF all

-----------------------------------------------------------------------------
(* What RegExp::exec() finds                                                *)

Groups(c) == c[2].groups

\* A leftmost match, of those a longest.
IsFirst(all, c) == c \in all /\ \A d \in all : Precedes(c, d)

\* The spans of candidate c, up to the first group that took no part in it.
AreSpansOf(c, result) ==
    /\ result \in Seq(Int \X Int)
    /\ Len(result) >= 1 /\ Len(result) <= MaxMatches /\ Len(result) <= Len(Groups(c)) + 1
    /\ result[1] = <<c[1], c[1] + Len(c[2].text)>>
    /\ \A g \in 1 .. (Len(result) - 1) :
          Groups(c)[g] # Unmatched /\ result[g + 1] = Shifted(Groups(c)[g], c[1])
    /\ \/ Len(result) = MaxMatches \/ Len(result) = Len(Groups(c)) + 1
       \/ Groups(c)[Len(result)] = Unmatched

LEMMA CandidateType ==
    ASSUME NEW re, IsRegExp(re), NEW line \in Seq(Nat), NEW bol,
           NEW c \in Candidates(re, line, bol)
    PROVE  /\ c[1] \in 0 .. Len(line) /\ c[2].text \in Seq(Nat)
           /\ c[1] + Len(c[2].text) <= Len(line)
           /\ c[2].text = Between(line, <<c[1], c[1] + Len(c[2].text)>>)
           /\ Groups(c) \in Seq(SpansIn(c[2].text) \cup {Unmatched})
<1>1. MatchesAt(re, line, bol, c[1], c[2])
  BY CandidateIs
<1> QED
  BY <1>1 DEF MatchesAt, IsRegExp, Groups

LEMMA RegexecIs ==
    ASSUME NEW re, IsRegExp(re), NEW line \in Seq(Nat), NEW bol,
           Candidates(re, line, bol) # {}
    PROVE  \E c \in Candidates(re, line, bol) :
              /\ IsFirst(Candidates(re, line, bol), c)
              /\ Regexec(re, line, bol) \in Seq(Int \X Int)
              /\ Len(Regexec(re, line, bol)) = Len(Groups(c)) + 1
              /\ Regexec(re, line, bol)[1] = <<c[1], c[1] + Len(c[2].text)>>
              /\ \A g \in 1 .. Len(Groups(c)) :
                    Regexec(re, line, bol)[g + 1]
                       = IF Groups(c)[g] = Unmatched THEN Unmatched
                         ELSE Shifted(Groups(c)[g], c[1])
<1> DEFINE all == Candidates(re, line, bol)
           c == CHOOSE x \in all : \A d \in all : Precedes(x, d)
           whole == <<c[1], c[1] + Len(c[2].text)>>
           others == [g \in DOMAIN Groups(c) |->
                         IF Groups(c)[g] = Unmatched THEN Unmatched
                         ELSE Shifted(Groups(c)[g], c[1])]
<1>1. IsFirst(all, c)
  <2>1. \E x \in all : \A d \in all : Precedes(x, d)
    BY LeftmostLongest
  <2> HIDE DEF all
  <2> QED
    BY <2>1 DEF IsFirst
<1>2. Regexec(re, line, bol) = <<whole>> \o others
  BY DEF Regexec, Groups
<1>3. /\ c[1] \in Nat /\ Len(c[2].text) \in Nat
      /\ Groups(c) \in Seq(SpansIn(c[2].text) \cup {Unmatched})
  <2>1. c \in all
    BY <1>1 DEF IsFirst
  <2> HIDE DEF c
  <2>2. c[1] \in 0 .. Len(line) /\ c[2].text \in Seq(Nat)
    BY <2>1, CandidateType
  <2>3. Groups(c) \in Seq(SpansIn(c[2].text) \cup {Unmatched})
    BY <2>1, CandidateType
  <2> QED
    BY <2>2, <2>3
<1> HIDE DEF c, all
<1>4. whole \in Int \X Int
  BY <1>3
<1>5. others \in Seq(Int \X Int) /\ Len(others) = Len(Groups(c))
  <2>1. DOMAIN Groups(c) = 1 .. Len(Groups(c)) /\ Len(Groups(c)) \in Nat
    BY <1>3
  <2>2. ASSUME NEW g \in 1 .. Len(Groups(c)), Groups(c)[g] # Unmatched
        PROVE  Shifted(Groups(c)[g], c[1]) \in Int \X Int
    <3>1. Groups(c)[g] \in SpansIn(c[2].text)
      BY <1>3, <2>2
    <3>2. Groups(c)[g][1] \in Int /\ Groups(c)[g][2] \in Int
      BY <1>3, <3>1 DEF SpansIn
    <3> QED
      BY <1>3, <3>2 DEF Shifted
  <2>3. Unmatched \in Int \X Int
    BY DEF Unmatched
  <2>4. \A g \in DOMAIN Groups(c) : others[g] \in Int \X Int
    BY <2>1, <2>2, <2>3
  <2>5. DOMAIN others = 1 .. Len(Groups(c))
    BY <2>1
  <2>6. others = [g \in 1 .. Len(Groups(c)) |-> others[g]]
    BY <2>1
  <2> HIDE DEF others
  <2>7. others \in [1 .. Len(Groups(c)) -> Int \X Int]
    BY <2>1, <2>4, <2>6
  <2> QED
    BY <2>1, <2>5, <2>7
<1>6. \A g \in 1 .. Len(Groups(c)) :
         others[g] = IF Groups(c)[g] = Unmatched THEN Unmatched
                     ELSE Shifted(Groups(c)[g], c[1])
  <2>1. DOMAIN Groups(c) = 1 .. Len(Groups(c))
    BY <1>3
  <2> QED
    BY <2>1
<1> HIDE DEF whole, others
<1> DEFINE spans == <<whole>> \o others
<1>7. /\ spans \in Seq(Int \X Int) /\ Len(spans) = Len(Groups(c)) + 1 /\ spans[1] = whole
      /\ \A g \in 1 .. Len(Groups(c)) : spans[g + 1] = others[g]
  <2>1. <<whole>> \in Seq(Int \X Int) /\ Len(<<whole>>) = 1 /\ <<whole>>[1] = whole
    BY <1>4
  <2>2. Len(spans) = 1 + Len(others) /\ spans \in Seq(Int \X Int)
    BY <1>5, <2>1
  <2>3. spans[1] = whole
    BY <1>5, <2>1
  <2>4. \A g \in 1 .. Len(others) : spans[g + 1] = others[g]
    <3> TAKE g \in 1 .. Len(others)
    <3>1. g + 1 \in 1 .. (1 + Len(others)) /\ g + 1 > 1 /\ g + 1 - 1 = g
      BY <1>5
    <3>2. spans[g + 1] = others[g + 1 - Len(<<whole>>)]
      BY <1>5, <2>1, <3>1
    <3> QED
      BY <2>1, <3>1, <3>2
  <2> HIDE DEF spans
  <2>5. Len(Groups(c)) \in Nat
    BY <1>3
  <2> QED
    BY <1>5, <2>2, <2>3, <2>4, <2>5
<1> QED
  <2> HIDE DEF spans
  <2>1. c \in all
    BY <1>1 DEF IsFirst
  <2>2. Regexec(re, line, bol) = spans
    BY <1>2 DEF spans
  <2> QED
    BY <1>1, <1>6, <1>7, <2>1, <2>2 DEF all, whole

LEMMA ExecIs ==
    ASSUME NEW re, IsRegExp(re), NEW line \in Seq(Nat), NEW start \in 0 .. Len(line)
    PROVE  LET all == Candidates(re, From(line, start), start = 0)
               result == Exec(re, line, start)
           IN  IF all = {} THEN result = <<>>
               ELSE \E c \in all : IsFirst(all, c) /\ AreSpansOf(c, result)
<1> DEFINE rest == From(line, start)
           all == Candidates(re, rest, start = 0)
           spans == Regexec(re, rest, start = 0)
           ends == {g - 1 : g \in {h \in DOMAIN spans : spans[h] = Unmatched}}
                      \cup {MaxMatches, Len(spans)}
           m == Min(ends)
           result == Exec(re, line, start)
<1>1. rest \in Seq(Nat)
  BY RestOf
<1>2. result = SubSeq(spans, 1, m)
  BY DEF Exec
<1>3. MaxMatches \in Nat /\ MaxMatches > 2
  BY IndexersAssumption
<1>4. CASE all = {}
  <2>1. spans = <<>>
    BY <1>4 DEF Regexec
  <2>2. ends = {MaxMatches, 0}
    BY <2>1
  <2>3. m = 0
    <3> HIDE DEF ends
    <3>1. ends \in SUBSET Int /\ 0 \in ends /\ \A y \in ends : 0 <= y
      BY <1>3, <2>2
    <3> QED
      BY <3>1, MinIs
  <2>4. SubSeq(spans, 1, 0) = <<>>
    BY <2>1
  <2> QED
    BY <1>2, <1>4, <2>3, <2>4
<1>5. CASE all # {}
  <2>1. PICK c \in all :
              /\ IsFirst(all, c)
              /\ spans \in Seq(Int \X Int)
              /\ Len(spans) = Len(Groups(c)) + 1
              /\ spans[1] = <<c[1], c[1] + Len(c[2].text)>>
              /\ \A g \in 1 .. Len(Groups(c)) :
                    spans[g + 1] = IF Groups(c)[g] = Unmatched THEN Unmatched
                                   ELSE Shifted(Groups(c)[g], c[1])
    <3> HIDE DEF rest
    <3> QED
      BY <1>1, <1>5, RegexecIs
  <2>2. /\ c[1] \in Nat /\ Len(c[2].text) \in Nat /\ Len(Groups(c)) \in Nat
        /\ Groups(c) \in Seq(SpansIn(c[2].text) \cup {Unmatched})
    <3>1. c[1] \in 0 .. Len(rest) /\ c[2].text \in Seq(Nat)
      BY <1>1, CandidateType
    <3>2. Groups(c) \in Seq(SpansIn(c[2].text) \cup {Unmatched})
      BY <1>1, CandidateType
    <3> HIDE DEF rest, all
    <3> QED
      BY <3>1, <3>2
  <2> HIDE DEF rest, all, spans
  <2>3. spans[1] # Unmatched
    <3>1. spans[1][1] >= 0 /\ Unmatched[1] = -1
      BY <2>1, <2>2 DEF Unmatched
    <3> QED
      BY <3>1
  <2>4. ASSUME NEW g \in 1 .. Len(Groups(c)), Groups(c)[g] # Unmatched
        PROVE  spans[g + 1] # Unmatched
    <3>1. Groups(c)[g] \in SpansIn(c[2].text)
      BY <2>2, <2>4
    <3>2. Groups(c)[g][1] \in Nat
      BY <2>2, <3>1 DEF SpansIn
    <3>3. spans[g + 1] = Shifted(Groups(c)[g], c[1])
      BY <2>1, <2>4
    <3>4. spans[g + 1][1] = Groups(c)[g][1] + c[1] /\ Unmatched[1] = -1
      BY <3>3 DEF Shifted, Unmatched
    <3>5. Groups(c)[g][1] + c[1] # -1
      BY <2>2, <3>2
    <3> QED
      BY <3>4, <3>5
  <2>5. DOMAIN spans = 1 .. (Len(Groups(c)) + 1) /\ Len(spans) \in Nat
    BY <2>1, <2>2
  <2>6. ends \in SUBSET Nat /\ ends # {}
    <3>1. \A h \in DOMAIN spans : h - 1 \in Nat
      BY <2>2, <2>5
    <3> QED
      BY <1>3, <2>5, <3>1
  <2>7. m \in ends /\ \A y \in ends : m <= y
    <3> HIDE DEF ends
    <3> QED
      BY <2>6, MinLeast
  <2>8. /\ m \in Nat /\ m >= 1 /\ m <= MaxMatches /\ m <= Len(Groups(c)) + 1
        /\ \A h \in 1 .. (Len(Groups(c)) + 1) : spans[h] = Unmatched => m <= h - 1
        /\ \/ m = MaxMatches \/ m = Len(Groups(c)) + 1
           \/ \E h \in 1 .. (Len(Groups(c)) + 1) : spans[h] = Unmatched /\ m = h - 1
    <3>1. MaxMatches \in ends /\ Len(Groups(c)) + 1 \in ends
      BY <2>1
    <3>2. \A h \in 1 .. (Len(Groups(c)) + 1) : spans[h] = Unmatched => h - 1 \in ends
      BY <2>5
    <3>3. \/ m = MaxMatches \/ m = Len(Groups(c)) + 1
          \/ \E h \in 1 .. (Len(Groups(c)) + 1) : spans[h] = Unmatched /\ m = h - 1
      BY <2>1, <2>5, <2>7
    <3> HIDE DEF m, ends
    <3>4. m \in Nat
      BY <2>6, <2>7
    <3>5. m >= 1
      <4>1. ASSUME NEW h \in 1 .. (Len(Groups(c)) + 1), spans[h] = Unmatched
            PROVE  h - 1 >= 1
        BY <2>2, <2>3, <4>1
      <4> QED
        BY <1>3, <2>2, <3>3, <4>1
    <3> QED
      BY <2>7, <3>1, <3>2, <3>3, <3>4, <3>5
  <2> HIDE DEF m
  <2>9. /\ result \in Seq(Int \X Int) /\ Len(result) = m
        /\ \A k \in 1 .. m : result[k] = spans[k]
    <3>1. m <= Len(spans)
      BY <2>1, <2>8
    <3> DEFINE part == SubSeq(spans, 1, m)
    <3>2. /\ part \in Seq(Int \X Int) /\ Len(part) = m
          /\ \A k \in 1 .. m : part[k] = spans[k]
      <4>1. part = [k \in 1 .. m |-> spans[k]]
        <5>1. part = [k \in 1 .. (m - 1 + 1) |-> spans[1 + k - 1]]
          BY <2>1, <2>8
        <5>2. m - 1 + 1 = m /\ \A k \in 1 .. m : 1 + k - 1 = k
          BY <2>8
        <5> QED
          BY <5>1, <5>2
      <4>2. \A k \in 1 .. m : spans[k] \in Int \X Int
        <5>1. \A k \in 1 .. m : k \in 1 .. Len(spans)
          BY <2>5, <2>8, <3>1
        <5> QED
          BY <2>1, <5>1
      <4> HIDE DEF part
      <4> QED
        BY <2>8, <4>1, <4>2
    <3>3. result = part
      BY <1>2
    <3> HIDE DEF result, part
    <3> QED
      BY <3>2, <3>3
  <2> HIDE DEF result
  <2>10. result[1] = <<c[1], c[1] + Len(c[2].text)>>
    <3>1. 1 \in 1 .. m
      BY <2>8
    <3>2. result[1] = spans[1]
      BY <2>9, <3>1
    <3> QED
      BY <2>1, <3>2
  <2>11. ASSUME NEW g \in 1 .. (m - 1)
         PROVE  Groups(c)[g] # Unmatched /\ result[g + 1] = Shifted(Groups(c)[g], c[1])
    <3>1. /\ g \in 1 .. Len(Groups(c)) /\ g + 1 \in 1 .. m
          /\ g + 1 \in 1 .. (Len(Groups(c)) + 1) /\ ~(m <= g + 1 - 1)
      BY <2>2, <2>8
    <3>2. spans[g + 1] # Unmatched
      BY <2>8, <3>1
    <3>3. result[g + 1] = spans[g + 1]
      BY <2>9, <3>1
    <3> QED
      BY <2>1, <3>1, <3>2, <3>3
  <2>12. m = MaxMatches \/ m = Len(Groups(c)) + 1 \/ Groups(c)[m] = Unmatched
    <3>1. ASSUME NEW h \in 1 .. (Len(Groups(c)) + 1), spans[h] = Unmatched, m = h - 1
          PROVE  Groups(c)[m] = Unmatched
      <4>1. h # 1 /\ h = m + 1 /\ m \in 1 .. Len(Groups(c))
        BY <2>2, <2>3, <2>8, <3>1
      <4> QED
        BY <2>4, <3>1, <4>1
    <3> QED
      BY <2>8, <3>1
  <2>13. AreSpansOf(c, result)
    BY <2>8, <2>9, <2>10, <2>11, <2>12 DEF AreSpansOf
  <2> QED
    BY <1>5, <2>1, <2>13 DEF all, rest, result
<1> QED
  BY <1>4, <1>5

Matched(c) == {g \in DOMAIN Groups(c) : Groups(c)[g] # Unmatched}

LEMMA KeysOfIs ==
    ASSUME NEW entry, NEW c
    PROVE  KeysOfCandidate(entry, c) =
              CASE entry.capture = 0 /\ 1 \notin Matched(c) -> {c[2].text}
                [] entry.capture = 0 /\ 1 \in Matched(c) /\ 2 \notin Matched(c) ->
                      {Between(c[2].text, Groups(c)[1])}
                [] entry.capture \in 1 .. (MaxMatches - 1)
                      /\ 1 .. entry.capture \subseteq Matched(c) ->
                      {Between(c[2].text, Groups(c)[entry.capture])}
                [] OTHER -> {}
BY Zenon DEF KeysOfCandidate, Matched, Groups

\* Which groups the spans tell of.
LEMMA MatchedIs ==
    ASSUME NEW c, NEW S, Groups(c) \in Seq(S), NEW result, AreSpansOf(c, result)
    PROVE  /\ \A g \in 1 .. (Len(result) - 1) : g \in Matched(c)
           /\ Len(result) # MaxMatches => Len(result) \notin Matched(c)
           /\ Len(result) \in Nat /\ Len(result) >= 1 /\ Len(result) <= MaxMatches
<1>1. DOMAIN Groups(c) = 1 .. Len(Groups(c)) /\ Len(Groups(c)) \in Nat
  OBVIOUS
<1>2. /\ Len(result) \in Nat /\ Len(result) >= 1 /\ Len(result) <= MaxMatches
      /\ Len(result) <= Len(Groups(c)) + 1
  BY DEF AreSpansOf
<1>3. \A g \in 1 .. (Len(result) - 1) : Groups(c)[g] # Unmatched
  BY DEF AreSpansOf
<1>4. \/ Len(result) = MaxMatches \/ Len(result) = Len(Groups(c)) + 1
      \/ Groups(c)[Len(result)] = Unmatched
  BY DEF AreSpansOf
<1>5. ASSUME NEW g \in 1 .. (Len(result) - 1) PROVE g \in Matched(c)
  BY <1>1, <1>2, <1>3 DEF Matched
<1>6. ASSUME Len(result) # MaxMatches PROVE Len(result) \notin Matched(c)
  BY <1>1, <1>2, <1>4, <1>6 DEF Matched
<1> QED
  BY <1>2, <1>5, <1>6

LEMMA ChosenIsKey ==
    ASSUME NEW entry, entry.capture \in Nat, NEW c, NEW S, Groups(c) \in Seq(S),
           NEW result, AreSpansOf(c, result)
    PROVE  LET chosen == Chosen(entry.capture, result)
           IN  /\ chosen = NoGroup => KeysOfCandidate(entry, c) = {}
               /\ chosen = 1 => KeysOfCandidate(entry, c) = {c[2].text}
               /\ chosen # NoGroup => chosen \in 1 .. Len(result)
               /\ chosen \notin {NoGroup, 1} =>
                     KeysOfCandidate(entry, c) = {Between(c[2].text, Groups(c)[chosen - 1])}
<1> DEFINE m == Len(result)
           k == entry.capture
           chosen == Chosen(k, result)
<1>1. /\ \A g \in 1 .. (m - 1) : g \in Matched(c)
      /\ m # MaxMatches => m \notin Matched(c)
      /\ m \in Nat /\ m >= 1 /\ m <= MaxMatches
  BY MatchedIs
<1>2. MaxMatches \in Nat /\ MaxMatches > 2 /\ k \in Nat
  BY IndexersAssumption
<1>3. chosen = IF k = 0 THEN IF m \in {1, 2} THEN m ELSE NoGroup
               ELSE IF m > k THEN k + 1 ELSE NoGroup
  BY DEF Chosen
<1> DEFINE M == Matched(c)
           keys == KeysOfCandidate(entry, c)
           groups == Groups(c)
           text == c[2].text
<1>4. /\ k = 0 /\ 1 \notin M => keys = {text}
      /\ k = 0 /\ 1 \in M /\ 2 \notin M => keys = {Between(text, groups[1])}
      /\ k = 0 /\ 1 \in M /\ 2 \in M => keys = {}
      /\ k # 0 /\ k \in 1 .. (MaxMatches - 1) /\ 1 .. k \subseteq M =>
            keys = {Between(text, groups[k])}
      /\ k # 0 /\ ~(k \in 1 .. (MaxMatches - 1) /\ 1 .. k \subseteq M) => keys = {}
  <2>1. keys = CASE k = 0 /\ 1 \notin M -> {text}
                 [] k = 0 /\ 1 \in M /\ 2 \notin M -> {Between(text, groups[1])}
                 [] k \in 1 .. (MaxMatches - 1) /\ 1 .. k \subseteq M ->
                       {Between(text, groups[k])}
                 [] OTHER -> {}
    BY KeysOfIs
  <2>2. k = 0 => k \notin 1 .. (MaxMatches - 1)
    BY <1>2
  <2> HIDE DEF M, keys, k, groups, text
  <2> QED
    BY <2>1, <2>2
<1> HIDE DEF M, keys, k, groups, text, m, chosen
<1>5. NoGroup = 0
  BY DEF NoGroup
<1>6. CASE k = 0 /\ m = 1
  <2>1. chosen = 1 /\ 1 \notin M
    BY <1>1, <1>2, <1>3, <1>6 DEF M
  <2>2. chosen # NoGroup /\ chosen \in 1 .. m /\ keys = {text}
    BY <1>1, <1>4, <1>5, <1>6, <2>1
  <2> QED
    BY <2>1, <2>2 DEF chosen, keys, text, m, k
<1>7. CASE k = 0 /\ m = 2
  <2>1. 1 \in 1 .. (m - 1)
    BY <1>7
  <2>2. chosen = 2 /\ 1 \in M /\ 2 \notin M
    BY <1>1, <1>2, <1>3, <1>7, <2>1 DEF M
  <2>3. chosen # NoGroup /\ chosen # 1 /\ chosen \in 1 .. m /\ keys = {Between(text, groups[1])}
    BY <1>1, <1>4, <1>5, <1>7, <2>2
  <2>4. chosen - 1 = 1
    BY <2>2
  <2> QED
    BY <2>3, <2>4 DEF chosen, keys, text, groups, m, k
<1>8. CASE k = 0 /\ m > 2
  <2>1. 1 \in 1 .. (m - 1) /\ 2 \in 1 .. (m - 1) /\ m \notin {1, 2}
    BY <1>1, <1>8
  <2>2. chosen = NoGroup /\ 1 \in M /\ 2 \in M
    BY <1>1, <1>3, <1>8, <2>1 DEF M
  <2>3. keys = {} /\ chosen # 1
    BY <1>4, <1>5, <1>8, <2>2
  <2> QED
    BY <2>2, <2>3 DEF chosen, keys, k
<1>9. CASE k # 0 /\ m > k
  <2>1. chosen = k + 1 /\ chosen \in 1 .. m /\ chosen # NoGroup /\ chosen # 1 /\ chosen - 1 = k
    BY <1>1, <1>2, <1>3, <1>5, <1>9
  <2>2. k \in 1 .. (MaxMatches - 1)
    BY <1>1, <1>2, <1>9
  <2>3. \A g \in 1 .. k : g \in 1 .. (m - 1)
    BY <1>1, <1>2, <1>9
  <2>4. keys = {Between(text, groups[k])}
    BY <1>1, <1>4, <1>9, <2>2, <2>3 DEF M
  <2> QED
    BY <2>1, <2>4 DEF chosen, keys, text, groups, m, k
<1>10. CASE k # 0 /\ ~(m > k)
  <2>1. chosen = NoGroup /\ chosen # 1
    BY <1>3, <1>5, <1>10
  <2>2. m = MaxMatches => k \notin 1 .. (MaxMatches - 1)
    BY <1>1, <1>2, <1>10
  <2>3. m \in 1 .. k
    BY <1>1, <1>2, <1>10
  <2>4. keys = {}
    BY <1>1, <1>4, <1>10, <2>2, <2>3 DEF M
  <2> QED
    BY <2>1, <2>4 DEF chosen, keys, k
<1> QED
  <2>1. (k = 0 /\ (m = 1 \/ m = 2 \/ m > 2)) \/ (k # 0 /\ (m > k \/ ~(m > k)))
    BY <1>1
  <2> QED
    BY <1>6, <1>7, <1>8, <1>9, <1>10, <2>1

-----------------------------------------------------------------------------
(* One pass of the loop of RegExpIndexer::index()                           *)

\* The first match from `start` on is candidate c of the whole line.
IsNext(re, line, start, c) ==
    /\ c \in Candidates(re, line, TRUE) /\ c[1] >= start
    /\ \A d \in Candidates(re, line, TRUE) :
          d[1] >= start =>
              c[1] <= d[1] /\ (c[1] = d[1] => Len(d[2].text) <= Len(c[2].text))

MatchEnd(c) == c[1] + Len(c[2].text)

\* `span` is where the key of c is.
IsKeySpan(entry, line, c, span) ==
    /\ span = <<span[1], span[2]>>
    /\ span[1] \in 0 .. Len(line) /\ span[2] \in span[1] .. Len(line)
    /\ KeysOfCandidate(entry, c) = {Between(line, span)}

LEMMA CandidateAt ==
    ASSUME NEW re, IsRegExp(re), NEW line \in Seq(Nat), NEW bol,
           NEW c \in Candidates(re, line, bol)
    PROVE  /\ MatchesAt(re, line, bol, c[1], c[2]) /\ c = <<c[1], c[2]>>
           /\ c[1] \in Nat /\ c[2].text \in Seq(Nat) /\ Len(c[2].text) \in Nat
           /\ Groups(c) \in Seq(SpansIn(c[2].text) \cup {Unmatched})
<1>1. MatchesAt(re, line, bol, c[1], c[2]) /\ c = <<c[1], c[2]>>
  BY CandidateIs
<1>2. c[1] \in 0 .. Len(line) /\ c[2].text \in Seq(Nat)
  BY CandidateType
<1>3. Groups(c) \in Seq(SpansIn(c[2].text) \cup {Unmatched})
  BY CandidateType
<1> QED
  BY <1>1, <1>2, <1>3

LEMMA AtCandidate ==
    ASSUME NEW re, IsRegExp(re), NEW line \in Seq(Nat), NEW bol, NEW at, NEW a,
           MatchesAt(re, line, bol, at, a)
    PROVE  <<at, a>> \in Candidates(re, line, bol)
<1> DEFINE c == <<at, a>>
<1>1. c[1] = at /\ c[2] = a /\ c = <<c[1], c[2]>>
  OBVIOUS
<1> HIDE DEF c
<1>2. c \in Candidates(re, line, bol)
  BY <1>1, CandidateIs
<1> QED
  BY <1>2 DEF c

LEMMA NothingFound ==
    ASSUME NEW re, IsRegExp(re), NEW line \in Seq(Nat), NEW start \in 0 .. Len(line),
           Candidates(re, From(line, start), start = 0) = {},
           NEW d \in Candidates(re, line, TRUE)
    PROVE  d[1] < start
<1>0. d[1] \in Nat
  BY CandidateAt
<1> SUFFICES ASSUME d[1] >= start PROVE FALSE
  BY <1>0
<1> DEFINE at == d[1] - start
<1>1. MatchesAt(re, line, TRUE, d[1], d[2]) /\ d[1] \in Int
  <2>1. MatchesAt(re, line, TRUE, d[1], d[2])
    BY CandidateIs
  <2>2. d[1] \in Int
    BY <1>0
  <2> QED
    BY <2>1, <2>2, Zenon
<1>2. start + at = d[1] /\ at \in Int /\ at >= 0
  BY <1>1
<1>3. MatchesAt(re, From(line, start), start = 0, at, d[2])
  <2> HIDE DEF at
  <2> QED
    BY <1>1, <1>2, MatchesOfRest
<1>4. From(line, start) \in Seq(Nat)
  BY RestOf
<1>5. <<at, d[2]>> \in Candidates(re, From(line, start), start = 0)
  BY <1>3, <1>4, AtCandidate
<1> QED
  BY <1>5

LEMMA FirstOfRest ==
    ASSUME NEW re, IsRegExp(re), NEW line \in Seq(Nat), NEW start \in 0 .. Len(line),
           NEW c, IsFirst(Candidates(re, From(line, start), start = 0), c)
    PROVE  IsNext(re, line, start, <<start + c[1], c[2]>>)
<1> DEFINE rest == From(line, start)
           all == Candidates(re, rest, start = 0)
           e == <<start + c[1], c[2]>>
<1>1. rest \in Seq(Nat) /\ Len(rest) = Len(line) - start
  BY RestOf
<1>2. c \in all /\ \A d \in all : Precedes(c, d)
  BY DEF IsFirst
<1>3. c[1] \in Nat /\ MatchesAt(re, rest, start = 0, c[1], c[2])
  BY <1>1, <1>2, CandidateAt
<1>4. MatchesAt(re, line, TRUE, start + c[1], c[2])
  <2>1. c[1] \in Int
    BY <1>3
  <2> QED
    BY <1>3, <2>1, MatchesOfRest
<1>5. e \in Candidates(re, line, TRUE) /\ e[1] >= start
  <2>1. e \in Candidates(re, line, TRUE)
    BY <1>4, AtCandidate
  <2>2. e[1] >= start
    BY <1>3
  <2> QED
    BY <2>1, <2>2, Zenon
<1>6. ASSUME NEW d \in Candidates(re, line, TRUE), d[1] >= start
      PROVE  e[1] <= d[1] /\ (e[1] = d[1] => Len(d[2].text) <= Len(e[2].text))
  <2> DEFINE at == d[1] - start
  <2>1. MatchesAt(re, line, TRUE, d[1], d[2]) /\ d[1] \in Int
    <3>1. MatchesAt(re, line, TRUE, d[1], d[2])
      BY CandidateIs
    <3>2. d[1] \in Nat
      BY CandidateAt
    <3>3. d[1] \in Int
      BY <3>2
    <3> QED
      BY <3>1, <3>3, Zenon
  <2>2. start + at = d[1] /\ at \in Int /\ at >= 0
    BY <1>6, <2>1
  <2>3. MatchesAt(re, rest, start = 0, at, d[2])
    <3> HIDE DEF at
    <3> QED
      BY <2>1, <2>2, MatchesOfRest
  <2>4. <<at, d[2]>> \in all
    BY <1>1, <2>3, AtCandidate
  <2>5. Precedes(c, <<at, d[2]>>)
    BY <1>2, <2>4
  <2>6. c[1] < at \/ (c[1] = at /\ Len(d[2].text) <= Len(c[2].text))
    BY <2>5 DEF Precedes
  <2> HIDE DEF at
  <2> QED
    BY <1>3, <2>1, <2>2, <2>6
<1> QED
  BY <1>5, <1>6 DEF IsNext

LEMMA MatchFound ==
    ASSUME NEW entry, IsRegExp(entry.re), entry.capture \in Nat,
           NEW line \in Seq(Nat), NEW start \in 0 .. Len(line),
           NEW result, result = Exec(entry.re, line, start), result # <<>>
    PROVE  \E c : /\ IsNext(entry.re, line, start, c)
                  /\ Shifted(result[1], start) = <<c[1], MatchEnd(c)>>
                  /\ AfterMatch(entry.capture, start, result) = MatchEnd(c)
                  /\ LET chosen == Chosen(entry.capture, result)
                     IN  /\ chosen = NoGroup => KeysOfCandidate(entry, c) = {}
                         /\ chosen # NoGroup =>
                               IsKeySpan(entry, line, c, Shifted(result[chosen], start))
<1> DEFINE re == entry.re
           rest == From(line, start)
           all == Candidates(re, rest, start = 0)
           chosen == Chosen(entry.capture, result)
<1>1. rest \in Seq(Nat) /\ Len(rest) = Len(line) - start
  BY RestOf
<1>2. PICK c \in all : IsFirst(all, c) /\ AreSpansOf(c, result)
  BY ExecIs
<1> DEFINE text == c[2].text
           e == <<start + c[1], c[2]>>
<1>3. IsNext(re, line, start, e)
  BY <1>2, FirstOfRest
<1>4. /\ c[1] \in Nat /\ text \in Seq(Nat) /\ Len(text) \in Nat
      /\ Groups(c) \in Seq(SpansIn(text) \cup {Unmatched})
  BY <1>1, CandidateAt
<1>5. /\ start + c[1] \in Nat /\ start + c[1] + Len(text) <= Len(line)
      /\ text = Between(line, <<start + c[1], start + c[1] + Len(text)>>)
  <2>1. e \in Candidates(re, line, TRUE)
    BY <1>3 DEF IsNext
  <2>2. MatchesAt(re, line, TRUE, e[1], e[2])
    BY <2>1, CandidateIs
  <2> QED
    BY <1>4, <2>2 DEF MatchesAt
<1>6. e[1] = start + c[1] /\ e[2] = c[2] /\ MatchEnd(e) = start + c[1] + Len(text)
  BY DEF MatchEnd
<1>7. result[1] = <<c[1], c[1] + Len(text)>>
  BY <1>2 DEF AreSpansOf
<1>8. Shifted(result[1], start) = <<e[1], MatchEnd(e)>>
  <2>1. c[1] + start = start + c[1] /\ c[1] + Len(text) + start = start + c[1] + Len(text)
    BY <1>4
  <2> QED
    BY <1>6, <1>7, <2>1 DEF Shifted
<1>9. AfterMatch(entry.capture, start, result) = MatchEnd(e)
  <2>1. start + (c[1] + Len(text)) = start + c[1] + Len(text)
    BY <1>4
  <2> QED
    BY <1>6, <1>7, <2>1 DEF AfterMatch
<1>10. KeysOfCandidate(entry, e) = KeysOfCandidate(entry, c)
  BY <1>6 DEF KeysOfCandidate
<1>11. /\ chosen = NoGroup => KeysOfCandidate(entry, c) = {}
       /\ chosen = 1 => KeysOfCandidate(entry, c) = {text}
       /\ chosen # NoGroup => chosen \in 1 .. Len(result)
       /\ chosen \notin {NoGroup, 1} =>
             KeysOfCandidate(entry, c) = {Between(text, Groups(c)[chosen - 1])}
  <2> HIDE DEF all
  <2> QED
    BY <1>2, <1>4, ChosenIsKey
<1>12. ASSUME chosen # NoGroup
       PROVE  IsKeySpan(entry, line, e, Shifted(result[chosen], start))
  <2> DEFINE span == Shifted(result[chosen], start)
  <2>1. CASE chosen = 1
    <3>1. span = <<start + c[1], start + c[1] + Len(text)>>
      BY <1>6, <1>8, <2>1
    <3>2. KeysOfCandidate(entry, e) = {Between(line, span)}
      BY <1>5, <1>10, <1>11, <2>1, <3>1
    <3>3. span[1] \in 0 .. Len(line) /\ span[2] \in span[1] .. Len(line)
      <4> DEFINE i == start + c[1]
                 k == Len(text)
      <4>1. i \in Nat /\ k \in Nat /\ i + k <= Len(line) /\ Len(line) \in Nat
        BY <1>4, <1>5
      <4>2. span[1] = i /\ span[2] = i + k
        BY <3>1
      <4> HIDE DEF i, k, span
      <4> QED
        BY <4>1, <4>2
    <3> QED
      BY <3>1, <3>2, <3>3 DEF IsKeySpan
  <2>2. CASE chosen # 1
    <3> DEFINE g == chosen - 1
               p == Groups(c)[g][1]
               q == Groups(c)[g][2]
               i == start + c[1]
    <3>1. Len(result) \in Nat /\ Len(result) <= Len(Groups(c)) + 1 /\ Len(Groups(c)) \in Nat
      <4>1. Len(Groups(c)) \in Nat
        BY <1>4
      <4> QED
        BY <1>2, <4>1 DEF AreSpansOf
    <3>2. chosen \in 1 .. Len(result) /\ chosen \in Int
      BY <1>11, <1>12, <3>1
    <3>3. g \in 1 .. (Len(result) - 1) /\ g \in 1 .. Len(Groups(c)) /\ g + 1 = chosen
      <4> HIDE DEF chosen
      <4> QED
        BY <2>2, <3>1, <3>2
    <3>4. Groups(c)[g] # Unmatched /\ result[chosen] = Shifted(Groups(c)[g], c[1])
      BY <1>2, <3>3 DEF AreSpansOf
    <3>5. Groups(c)[g] \in SpansIn(text)
      <4> HIDE DEF g, text
      <4> QED
        BY <1>4, <3>3, <3>4
    <3>6. /\ p \in 0 .. Len(text) /\ q \in 0 .. Len(text) /\ p <= q
          /\ Groups(c)[g] = <<p, q>>
      BY <3>5 DEF SpansIn
    <3> HIDE DEF g, p, q, text, chosen
    <3>7. span = <<i + p, i + q>>
      <4>1. result[chosen] = <<p + c[1], q + c[1]>>
        BY <3>4, <3>6 DEF Shifted, p, q
      <4>2. span = <<p + c[1] + start, q + c[1] + start>>
        BY <4>1 DEF Shifted
      <4>3. p + c[1] + start = i + p /\ q + c[1] + start = i + q
        BY <1>4, <3>6
      <4> QED
        BY <4>2, <4>3
    <3>8. /\ i \in 0 .. Len(line) /\ i + Len(text) \in i .. Len(line)
          /\ p \in 0 .. (i + Len(text) - i) /\ q \in p .. (i + Len(text) - i)
      <4> DEFINE k == Len(text)
      <4>1. i \in Nat /\ k \in Nat /\ i + k <= Len(line) /\ Len(line) \in Nat
        BY <1>4, <1>5 DEF text
      <4> HIDE DEF i, k
      <4>2. i + k - i = k
        BY <4>1
      <4>3. p \in 0 .. k /\ q \in p .. k
        BY <3>6, <4>1 DEF k
      <4>4. i \in 0 .. Len(line) /\ i + k \in i .. Len(line)
        BY <4>1
      <4> QED
        BY <4>2, <4>3, <4>4 DEF k
    <3>10. Between(Between(line, <<i, i + Len(text)>>), <<p, q>>) = Between(line, <<i + p, i + q>>)
      <4> HIDE DEF i
      <4> QED
        BY <3>8, PartOfPart
    <3>11. Between(text, Groups(c)[g]) = Between(line, span)
      BY <1>5, <3>6, <3>7, <3>10
    <3>12. KeysOfCandidate(entry, e) = {Between(line, span)}
      BY <1>10, <1>11, <1>12, <2>2, <3>11 DEF g
    <3>13. i + p \in 0 .. Len(line) /\ i + q \in (i + p) .. Len(line)
      <4>1. i \in Nat /\ Len(text) \in Nat /\ i + Len(text) <= Len(line)
        BY <1>4, <1>5 DEF text
      <4> HIDE DEF i
      <4> QED
        BY <3>6, <4>1
    <3> HIDE DEF span, i
    <3>14. span = <<span[1], span[2]>> /\ span[1] = i + p /\ span[2] = i + q
      BY <3>7
    <3>15. IsKeySpan(entry, line, e, span)
      BY <3>12, <3>13, <3>14 DEF IsKeySpan
    <3> QED
      BY <3>15 DEF span
  <2> QED
    BY <2>1, <2>2
<1> HIDE DEF e, chosen
<1> QED
  BY <1>3, <1>8, <1>9, <1>10, <1>11, <1>12 DEF chosen

-----------------------------------------------------------------------------
(* Recursive functions                                                      *)

IsRecursive(f, lo, hi, init, step) ==
    \A i \in lo .. hi : f[i] = IF i = lo THEN init ELSE step[i][f[i - 1]]

\* The functions that are defined by recursion over an interval exist.
LEMMA RecursionExists ==
    ASSUME NEW lo \in Int, NEW hi \in Int, NEW S, NEW init \in S,
           NEW step \in [lo .. hi -> [S -> S]]
    PROVE  \E f \in [lo .. hi -> S] : IsRecursive(f, lo, hi, init, step)
<1> DEFINE Exists(k) == \E f \in [lo .. (lo + k) -> S] : IsRecursive(f, lo, lo + k, init, step)
           Bad == {k \in 0 .. (hi - lo) : ~Exists(k)}
<1>1. CASE hi < lo
  <2> DEFINE f == [i \in lo .. hi |-> init]
  <2>1. lo .. hi = {}
    BY <1>1
  <2>2. f \in [lo .. hi -> S]
    OBVIOUS
  <2>3. IsRecursive(f, lo, hi, init, step)
    BY <2>1 DEF IsRecursive
  <2> QED
    BY <2>2, <2>3
<1>2. CASE hi >= lo
  <2>1. Exists(0)
    <3> DEFINE f == [i \in lo .. (lo + 0) |-> init]
    <3>1. f \in [lo .. (lo + 0) -> S]
      OBVIOUS
    <3>2. IsRecursive(f, lo, lo + 0, init, step)
      <4>1. \A i \in lo .. (lo + 0) : i = lo /\ f[i] = init
        OBVIOUS
      <4> HIDE DEF f
      <4> QED
        BY <4>1 DEF IsRecursive
    <3> QED
      BY <3>1, <3>2
  <2>2. ASSUME NEW k \in 1 .. (hi - lo), Exists(k - 1) PROVE Exists(k)
    <3> DEFINE top == lo + k
    <3>1. lo + (k - 1) = top - 1 /\ top \in lo .. hi /\ top > lo /\ top \in Int
      BY <1>2
    <3> HIDE DEF top
    <3>2. PICK f \in [lo .. (top - 1) -> S] : IsRecursive(f, lo, top - 1, init, step)
      BY <2>2, <3>1
    <3> DEFINE g == [i \in lo .. top |-> IF i = top THEN step[top][f[top - 1]] ELSE f[i]]
    <3>3. top - 1 \in lo .. (top - 1)
      BY <3>1
    <3>4. step[top][f[top - 1]] \in S
      BY <3>1, <3>2, <3>3
    <3>5. \A i \in lo .. top : i # top => i \in lo .. (top - 1)
      BY <3>1
    <3>6. g \in [lo .. top -> S]
      BY <3>2, <3>4, <3>5
    <3>7. \A i \in lo .. top : g[i] = IF i = top THEN step[top][f[top - 1]] ELSE f[i]
      OBVIOUS
    <3>8. IsRecursive(g, lo, top, init, step)
      <4> SUFFICES ASSUME NEW i \in lo .. top
                   PROVE  g[i] = IF i = lo THEN init ELSE step[i][g[i - 1]]
        BY DEF IsRecursive
      <4> HIDE DEF g
      <4>1. i = lo \/ i - 1 \in lo .. (top - 1)
        BY <3>1
      <4>2. i # lo => i - 1 # top /\ i - 1 \in lo .. top
        BY <3>1
      <4>3. i # lo => g[i - 1] = f[i - 1]
        BY <3>7, <4>2
      <4>4. CASE i = top
        BY <3>1, <3>7, <4>3, <4>4
      <4>5. CASE i # top
        <5>1. i \in lo .. (top - 1)
          BY <3>5, <4>5
        <5>2. f[i] = IF i = lo THEN init ELSE step[i][f[i - 1]]
          BY <3>2, <5>1 DEF IsRecursive
        <5> QED
          BY <3>7, <4>3, <4>5, <5>2
      <4> QED
        BY <4>4, <4>5
    <3> QED
      BY <3>6, <3>8 DEF top
  <2> HIDE DEF Exists
  <2>3. ASSUME Bad # {} PROVE FALSE
    <3>1. Bad \in SUBSET Nat
      OBVIOUS
    <3>2. PICK k \in Bad : \A j \in Bad : k <= j
      <4> HIDE DEF Bad
      <4> QED
        BY <2>3, <3>1, LeastNumber
    <3>3. k # 0
      BY <2>1
    <3>4. k \in 1 .. (hi - lo) /\ k - 1 \in 0 .. (hi - lo) /\ ~(k <= k - 1)
      BY <1>2, <3>3
    <3>5. Exists(k - 1)
      BY <3>2, <3>4
    <3> QED
      BY <2>2, <3>4, <3>5
  <2>4. hi - lo \in 0 .. (hi - lo) /\ lo + (hi - lo) = hi
    BY <1>2
  <2>5. Exists(hi - lo)
    BY <2>3, <2>4
  <2> QED
    BY <2>4, <2>5 DEF Exists
<1> QED
  BY <1>1, <1>2

-----------------------------------------------------------------------------
(* The number a key stands for and the integer it becomes                   *)

Half == Word \div 2

LEMMA WordIs ==
    /\ Word \in Nat /\ Half \in Nat /\ Half >= 1 /\ Word = Half + Half
    /\ Base \in Nat /\ Base >= 2
    /\ Integer64 = (-Half) .. (Half - 1)
<1>1. Word \in Nat /\ Word # 0 /\ Word % 2 = 0 /\ Base \in Nat /\ Base # 0 /\ Base # 1
  BY IndexersAssumption
<1>2. Half \in Nat /\ Word = Half + Half
  BY <1>1 DEF Half
<1>3. Integer64 = (-Half) .. (Half - 1)
  BY DEF Integer64, Half
<1> QED
  BY <1>1, <1>2, <1>3

LEMMA TimesWord ==
    ASSUME NEW k \in Int, Word * k < Word, -Word < Word * k
    PROVE  k = 0
<1>1. Word \in Nat /\ Word >= 1
  BY WordIs
<1>2. ASSUME NEW j \in Nat, j >= 1 PROVE Word * j >= Word
  <2>1. Word * (j - 1) >= 0
    BY <1>1, <1>2
  <2>2. Word * j = Word * (j - 1) + Word
    BY <1>1
  <2>3. Word * j \in Int /\ Word * (j - 1) \in Int
    BY <1>1
  <2> QED
    BY <1>1, <2>1, <2>2, <2>3
<1>3. CASE k >= 1
  BY <1>1, <1>2, <1>3
<1>4. CASE k <= -1
  <2>1. Word * (-k) >= Word
    BY <1>2, <1>4
  <2>2. Word * (-k) = -(Word * k) /\ Word * k \in Int
    BY <1>1
  <2> QED
    BY <1>1, <2>1, <2>2
<1> QED
  BY <1>3, <1>4

LEMMA WrappedIs ==
    ASSUME NEW v \in Int
    PROVE  Wrapped(v) \in Integer64 /\ \E k \in Int : Wrapped(v) = v - Word * k
<1> DEFINE r == (v + Half) % Word
           k == (v + Half) \div Word
<1>1. Word \in Nat /\ Word >= 1 /\ Half \in Nat /\ v + Half \in Int
  BY WordIs
<1>2. r \in 0 .. (Word - 1) /\ k \in Int /\ v + Half = Word * k + r
  <2> DEFINE x == v + Half
  <2>1. x \in Int /\ Word \in Nat \ {0}
    BY <1>1
  <2> HIDE DEF x
  <2>2. x % Word \in 0 .. (Word - 1) /\ x \div Word \in Int
    BY <2>1
  <2>3. x = Word * (x \div Word) + (x % Word)
    BY <2>1
  <2> QED
    BY <2>2, <2>3 DEF x
<1>3. Wrapped(v) = r - Half
  BY DEF Wrapped, Half
<1> HIDE DEF r, k
<1>4. Word * k \in Int
  BY <1>1, <1>2
<1>5. Wrapped(v) = v - Word * k
  BY <1>1, <1>2, <1>3, <1>4
<1>6. Wrapped(v) \in Integer64
  BY <1>2, <1>3, WordIs
<1> QED
  BY <1>2, <1>5, <1>6

LEMMA WrappedOnly ==
    ASSUME NEW v \in Int, NEW w \in Integer64, NEW k \in Int, w = v - Word * k
    PROVE  w = Wrapped(v)
<1>1. PICK j \in Int : Wrapped(v) = v - Word * j
  BY WrappedIs
<1>2. Wrapped(v) \in Integer64
  BY WrappedIs
<1>3. /\ Word \in Int /\ Half \in Int /\ Word = Half + Half
      /\ -Half <= w /\ w <= Half - 1 /\ w \in Int
      /\ -Half <= Wrapped(v) /\ Wrapped(v) <= Half - 1 /\ Wrapped(v) \in Int
  BY <1>2, WordIs
<1>4. Word * k \in Int /\ Word * j \in Int /\ Word * (k - j) = Word * k - Word * j
  BY <1>3
<1>5. Word * (k - j) < Word /\ -Word < Word * (k - j)
  BY <1>1, <1>3, <1>4
<1>6. k - j = 0
  BY <1>5, TimesWord
<1> QED
  BY <1>1, <1>6

ValFcn(digits) ==
    CHOOSE val : val = [i \in 0 .. Len(digits) |->
                          IF i = 0 THEN 0 ELSE Wrapped(val[i - 1] * Base + digits[i])]

MagFcn(digits) ==
    CHOOSE upTo : upTo = [i \in 0 .. Len(digits) |->
                            IF i = 0 THEN 0 ELSE Base * upTo[i - 1] + digits[i]]

LEMMA UnsignedIs ==
    ASSUME NEW digits \in Seq(Nat)
    PROVE  /\ ValFcn(digits) = [i \in 0 .. Len(digits) |->
                 IF i = 0 THEN 0 ELSE Wrapped(ValFcn(digits)[i - 1] * Base + digits[i])]
           /\ \A i \in 0 .. Len(digits) : ValFcn(digits)[i] \in Integer64
           /\ Unsigned(digits) = ValFcn(digits)[Len(digits)]
<1> DEFINE L == Len(digits)
           step == [i \in 0 .. L |-> [v \in Int |->
                       IF i = 0 THEN 0 ELSE Wrapped(v * Base + digits[i])]]
<1>1. L \in Nat /\ \A i \in 0 .. L : i # 0 => digits[i] \in Int
  OBVIOUS
<1>2. \A x \in Int : Wrapped(x) \in Int
  BY WrappedIs, WordIs
<1>3. step \in [0 .. L -> [Int -> Int]]
  <2>1. ASSUME NEW i \in 0 .. L, NEW v \in Int
        PROVE  (IF i = 0 THEN 0 ELSE Wrapped(v * Base + digits[i])) \in Int
    <3>1. i # 0 => v * Base + digits[i] \in Int
      BY <1>1, WordIs
    <3> QED
      BY <1>2, <3>1
  <2> HIDE DEF L
  <2> QED
    BY <2>1
<1>4. PICK f \in [0 .. L -> Int] : IsRecursive(f, 0, L, 0, step)
  <2> HIDE DEF step, L
  <2>1. 0 \in Int /\ L \in Int
    BY <1>1
  <2> QED
    BY <1>3, <2>1, RecursionExists
<1>5. \A i \in 0 .. L : f[i] = IF i = 0 THEN 0 ELSE Wrapped(f[i - 1] * Base + digits[i])
  <2> TAKE i \in 0 .. L
  <2>1. f[i] = IF i = 0 THEN 0 ELSE step[i][f[i - 1]]
    BY <1>4 DEF IsRecursive
  <2>2. i # 0 => f[i - 1] \in Int
    <3>1. i # 0 => i - 1 \in 0 .. L
      BY <1>1
    <3> HIDE DEF L
    <3> QED
      BY <1>4, <3>1
  <2>3. i # 0 => step[i][f[i - 1]] = Wrapped(f[i - 1] * Base + digits[i])
    BY <2>2
  <2> QED
    BY <2>1, <2>3
<1>6. f = [i \in 0 .. L |-> IF i = 0 THEN 0 ELSE Wrapped(f[i - 1] * Base + digits[i])]
  BY <1>4, <1>5
<1> DEFINE val == ValFcn(digits)
<1>7. val = [i \in 0 .. L |-> IF i = 0 THEN 0 ELSE Wrapped(val[i - 1] * Base + digits[i])]
  BY <1>6, Zenon DEF ValFcn
<1>8. Unsigned(digits) = val[L]
  BY Zenon DEF Unsigned, ValFcn
<1> HIDE DEF val, step, L
<1>9. \A i \in 0 .. L : val[i] = IF i = 0 THEN 0 ELSE Wrapped(val[i - 1] * Base + digits[i])
  BY <1>7
<1> DEFINE Wrong == {i \in 0 .. L : val[i] \notin Integer64}
<1>10. ASSUME Wrong # {} PROVE FALSE
  <2>1. Wrong \in SUBSET Nat
    OBVIOUS
  <2>2. PICK i \in Wrong : \A j \in Wrong : i <= j
    <3> HIDE DEF Wrong
    <3> QED
      BY <1>10, <2>1, LeastNumber
  <2>3. 0 \in Integer64 /\ \A x \in Integer64 : x \in Int
    BY WordIs
  <2>4. i # 0
    BY <1>9, <2>2, <2>3
  <2>5. i - 1 \in 0 .. L /\ ~(i <= i - 1)
    BY <1>1, <2>4 DEF L
  <2>6. val[i - 1] \in Int
    BY <2>2, <2>3, <2>5
  <2>7. val[i - 1] * Base + digits[i] \in Int
    <3>1. Base \in Int
      BY WordIs
    <3>2. digits[i] \in Int
      BY <1>1, <2>2, <2>4 DEF L
    <3> QED
      BY <2>6, <3>1, <3>2
  <2>8. Wrapped(val[i - 1] * Base + digits[i]) \in Integer64
    BY <2>7, WrappedIs
  <2> QED
    BY <1>9, <2>2, <2>4, <2>8
<1> QED
  BY <1>7, <1>8, <1>10 DEF val, L

LEMMA MagnitudeIs ==
    ASSUME NEW digits \in Seq(Nat)
    PROVE  /\ MagFcn(digits) = [i \in 0 .. Len(digits) |->
                 IF i = 0 THEN 0 ELSE Base * MagFcn(digits)[i - 1] + digits[i]]
           /\ \A i \in 0 .. Len(digits) : MagFcn(digits)[i] \in Int
           /\ Magnitude(digits) = MagFcn(digits)[Len(digits)]
<1> DEFINE L == Len(digits)
           step == [i \in 0 .. L |-> [v \in Int |-> IF i = 0 THEN 0 ELSE Base * v + digits[i]]]
<1>1. L \in Nat /\ \A i \in 0 .. L : i # 0 => digits[i] \in Int
  OBVIOUS
<1>2. step \in [0 .. L -> [Int -> Int]]
  <2>1. ASSUME NEW i \in 0 .. L, NEW v \in Int
        PROVE  (IF i = 0 THEN 0 ELSE Base * v + digits[i]) \in Int
    BY <1>1, WordIs
  <2> HIDE DEF L
  <2> QED
    BY <2>1
<1>3. PICK f \in [0 .. L -> Int] : IsRecursive(f, 0, L, 0, step)
  <2> HIDE DEF step, L
  <2>1. 0 \in Int /\ L \in Int
    BY <1>1
  <2> QED
    BY <1>2, <2>1, RecursionExists
<1>4. \A i \in 0 .. L : f[i] = IF i = 0 THEN 0 ELSE Base * f[i - 1] + digits[i]
  <2> TAKE i \in 0 .. L
  <2>1. f[i] = IF i = 0 THEN 0 ELSE step[i][f[i - 1]]
    BY <1>3 DEF IsRecursive
  <2>2. i # 0 => f[i - 1] \in Int
    <3>1. i # 0 => i - 1 \in 0 .. L
      BY <1>1
    <3> HIDE DEF L
    <3> QED
      BY <1>3, <3>1
  <2>3. i # 0 => step[i][f[i - 1]] = Base * f[i - 1] + digits[i]
    BY <2>2
  <2> QED
    BY <2>1, <2>3
<1>5. f = [i \in 0 .. L |-> IF i = 0 THEN 0 ELSE Base * f[i - 1] + digits[i]]
  BY <1>3, <1>4
<1> DEFINE mag == MagFcn(digits)
<1>6. mag = [i \in 0 .. L |-> IF i = 0 THEN 0 ELSE Base * mag[i - 1] + digits[i]]
  BY <1>5, Zenon DEF MagFcn
<1>7. Magnitude(digits) = mag[L]
  BY Zenon DEF Magnitude, MagFcn
<1> HIDE DEF mag, step, L
<1>8. \A i \in 0 .. L : mag[i] = IF i = 0 THEN 0 ELSE Base * mag[i - 1] + digits[i]
  BY <1>6
<1> DEFINE Wrong == {i \in 0 .. L : mag[i] \notin Int}
<1>9. ASSUME Wrong # {} PROVE FALSE
  <2>1. Wrong \in SUBSET Nat
    OBVIOUS
  <2>2. PICK i \in Wrong : \A j \in Wrong : i <= j
    <3> HIDE DEF Wrong
    <3> QED
      BY <1>9, <2>1, LeastNumber
  <2>3. i # 0
    BY <1>8, <2>2
  <2>4. i - 1 \in 0 .. L /\ ~(i <= i - 1)
    BY <1>1, <2>3 DEF L
  <2>5. mag[i - 1] \in Int
    BY <2>2, <2>4
  <2>6. Base * mag[i - 1] + digits[i] \in Int
    <3>1. digits[i] \in Int
      BY <1>1, <2>2, <2>3
    <3>2. Base \in Int
      BY WordIs
    <3> QED
      BY <2>5, <3>1, <3>2
  <2> QED
    BY <1>8, <2>2, <2>3, <2>6
<1> QED
  BY <1>6, <1>7, <1>9 DEF mag, L

\* Wrapping at every digit or at the end is the same.
LEMMA UnsignedWraps ==
    ASSUME NEW digits \in Seq(Nat)
    PROVE  /\ Magnitude(digits) \in Int /\ Unsigned(digits) \in Integer64
           /\ \E k \in Int : Unsigned(digits) = Magnitude(digits) - Word * k
<1> DEFINE L == Len(digits)
           val == ValFcn(digits)
           mag == MagFcn(digits)
           Wraps(i) == \E k \in Int : val[i] = mag[i] - Word * k
           Wrong == {i \in 0 .. L : ~Wraps(i)}
<1>1. L \in Nat /\ \A i \in 0 .. L : i # 0 => digits[i] \in Int
  OBVIOUS
<1>2. /\ \A i \in 0 .. L : val[i] = IF i = 0 THEN 0 ELSE Wrapped(val[i - 1] * Base + digits[i])
      /\ \A i \in 0 .. L : val[i] \in Integer64
      /\ Unsigned(digits) = val[L]
  <2>1. val = [i \in 0 .. L |-> IF i = 0 THEN 0 ELSE Wrapped(val[i - 1] * Base + digits[i])]
    BY UnsignedIs
  <2>2. (\A i \in 0 .. L : val[i] \in Integer64) /\ Unsigned(digits) = val[L]
    BY UnsignedIs
  <2> HIDE DEF val, L
  <2> QED
    BY <2>1, <2>2
<1>3. /\ \A i \in 0 .. L : mag[i] = IF i = 0 THEN 0 ELSE Base * mag[i - 1] + digits[i]
      /\ \A i \in 0 .. L : mag[i] \in Int
      /\ Magnitude(digits) = mag[L]
  <2>1. mag = [i \in 0 .. L |-> IF i = 0 THEN 0 ELSE Base * mag[i - 1] + digits[i]]
    BY MagnitudeIs
  <2>2. (\A i \in 0 .. L : mag[i] \in Int) /\ Magnitude(digits) = mag[L]
    BY MagnitudeIs
  <2> HIDE DEF mag, L
  <2> QED
    BY <2>1, <2>2
<1> HIDE DEF val, mag, L
<1>4. Word \in Int /\ Base \in Int /\ \A x \in Integer64 : x \in Int
  BY WordIs
<1>5. ASSUME Wrong # {} PROVE FALSE
  <2>1. Wrong \in SUBSET Nat
    OBVIOUS
  <2>2. PICK i \in Wrong : \A j \in Wrong : i <= j
    <3> HIDE DEF Wrong
    <3> QED
      BY <1>5, <2>1, LeastNumber
  <2>3. i # 0
    <3>1. ASSUME i = 0 PROVE Wraps(i)
      <4>1. val[i] = 0 /\ mag[i] = 0
        BY <1>2, <1>3, <2>2, <3>1
      <4>2. 0 = 0 - Word * 0
        BY <1>4
      <4> QED
        BY <4>1, <4>2
    <3> QED
      BY <2>2, <3>1
  <2>4. i - 1 \in 0 .. L /\ ~(i <= i - 1) /\ i \in 0 .. L
    BY <1>1, <2>2, <2>3 DEF L
  <2>5. PICK k \in Int : val[i - 1] = mag[i - 1] - Word * k
    BY <2>2, <2>4
  <2> DEFINE m == mag[i - 1]
             d == digits[i]
             x == val[i - 1] * Base + d
  <2>6. m \in Int /\ d \in Int /\ val[i - 1] \in Int
    BY <1>1, <1>2, <1>3, <1>4, <2>3, <2>4
  <2>7. x \in Int
    BY <1>4, <2>6
  <2>8. val[i] = Wrapped(x) /\ mag[i] = Base * m + d
    BY <1>2, <1>3, <2>3, <2>4
  <2> HIDE DEF x
  <2>9. PICK j \in Int : Wrapped(x) = x - Word * j
    BY <2>7, WrappedIs
  <2> HIDE DEF m, d
  <2>10. x = (m - Word * k) * Base + d
    BY <2>5 DEF x, m
  <2>11. /\ ((m - Word * k) * Base + d) - Word * j = (Base * m + d) - Word * (k * Base + j)
         /\ k * Base + j \in Int
    <3>1. (m - Word * k) * Base = m * Base - Word * (k * Base)
      BY <1>4, <2>6
    <3>2. Word * (k * Base + j) = Word * (k * Base) + Word * j
      BY <1>4
    <3>3. /\ m * Base = Base * m /\ m * Base \in Int /\ Word * (k * Base) \in Int
          /\ Word * j \in Int /\ k * Base + j \in Int
      BY <1>4, <2>6
    <3> QED
      BY <2>6, <3>1, <3>2, <3>3
  <2>12. val[i] = mag[i] - Word * (k * Base + j)
    <3>1. val[i] = x - Word * j
      BY <2>8, <2>9
    <3>2. ((m - Word * k) * Base + d) - Word * j = x - Word * j
      BY <2>10, Zenon
    <3>3. (Base * m + d) - Word * (k * Base + j) = mag[i] - Word * (k * Base + j)
      BY <2>8, Zenon
    <3> QED
      BY <2>11, <3>1, <3>2, <3>3, Zenon
  <2> QED
    BY <2>2, <2>11, <2>12
<1>6. L \in 0 .. L
  BY <1>1 DEF L
<1>7. Wraps(L)
  BY <1>5, <1>6
<1> QED
  BY <1>2, <1>3, <1>6, <1>7

\* The integer is the number, wrapped.
LEMMA ValueIsNumber ==
    ASSUME NEW key \in Seq(Nat)
    PROVE  /\ Number10(key) \in Int /\ Value(key) \in Integer64
           /\ Value(key) = Wrapped(Number10(key))
<1> DEFINE digits == Digits(key)
           u == Unsigned(digits)
           m == Magnitude(digits)
<1>1. digits \in Seq(Nat)
  <2>1. CASE IsNegative(key)
    <3>1. key # <<>> /\ digits = Tail(key)
      BY <2>1 DEF IsNegative, Digits
    <3> QED
      BY <3>1
  <2>2. CASE ~IsNegative(key)
    BY <2>2 DEF Digits
  <2> QED
    BY <2>1, <2>2
<1> HIDE DEF digits
<1>2. m \in Int /\ u \in Integer64 /\ \E k \in Int : u = m - Word * k
  BY <1>1, UnsignedWraps
<1> HIDE DEF u, m
<1>3. PICK k \in Int : u = m - Word * k
  BY <1>2
<1>4. Word \in Int /\ \A x \in Integer64 : x \in Int
  BY WordIs
<1>5. CASE IsNegative(key)
  <2>1. Number10(key) = -m /\ Value(key) = Wrapped(-u)
    BY <1>5 DEF Number10, Value, m, u, digits
  <2>2. -u \in Int /\ -m \in Int /\ u \in Int
    BY <1>2, <1>4
  <2>3. PICK j \in Int : Wrapped(-u) = -u - Word * j
    BY <2>2, WrappedIs
  <2>4. Wrapped(-u) \in Integer64
    BY <2>2, WrappedIs
  <2>5. Wrapped(-u) = -m - Word * (j - k)
    <3> DEFINE x == Word * j
               y == Word * k
    <3>1. Word * (j - k) = x - y /\ x \in Int /\ y \in Int
      BY <1>4
    <3>2. u = m - y
      BY <1>3
    <3>3. Wrapped(-u) = -u - x
      BY <2>3
    <3>4. m \in Int /\ u \in Int
      BY <1>2, <2>2
    <3>5. x \in Int /\ y \in Int
      BY <3>1
    <3> HIDE DEF x, y
    <3>6. -u - x = -m - (x - y)
      BY <3>2, <3>4, <3>5
    <3> QED
      BY <3>1, <3>3, <3>6
  <2>6. j - k \in Int
    OBVIOUS
  <2>7. Wrapped(-u) = Wrapped(-m)
    <3> DEFINE w == Wrapped(-u)
    <3> HIDE DEF w
    <3>1. w \in Integer64 /\ w = -m - Word * (j - k)
      BY <2>4, <2>5 DEF w
    <3>2. w = Wrapped(-m)
      BY <2>2, <2>6, <3>1, WrappedOnly
    <3> QED
      BY <3>2 DEF w
  <2> QED
    BY <2>1, <2>2, <2>4, <2>7
<1>6. CASE ~IsNegative(key)
  <2>1. Number10(key) = m /\ Value(key) = u
    BY <1>6 DEF Number10, Value, m, u, digits
  <2>2. u = Wrapped(m)
    BY <1>2, <1>3, WrappedOnly
  <2> QED
    BY <1>2, <2>1, <2>2
<1> QED
  BY <1>5, <1>6

-----------------------------------------------------------------------------
(* Cutting a line at its separators                                         *)

\* `cuts` are those of `all` that do not overlap one before; a separator has `w`
\* characters.
AreCuts(cuts, all, w) ==
    /\ cuts \in SUBSET all
    /\ \A p \in all : p \in cuts <=> ~\E q \in cuts : q < p /\ p < q + w

LEMMA CutsExist ==
    ASSUME NEW most \in Nat, NEW all \in SUBSET (0 .. most), NEW w \in Nat
    PROVE  \E cuts : AreCuts(cuts, all, w)
<1> DEFINE Upto(k, cuts) ==
              /\ cuts \in SUBSET {p \in all : p < k}
              /\ \A p \in all : p < k =>
                    (p \in cuts <=> ~\E q \in cuts : q < p /\ p < q + w)
           Bad == {k \in 0 .. (most + 1) : ~\E cuts : Upto(k, cuts)}
<1>1. \E cuts : Upto(0, cuts)
  <2>1. Upto(0, {})
    OBVIOUS
  <2> QED
    BY <2>1
<1>2. ASSUME NEW k \in 0 .. most, NEW cuts, Upto(k, cuts)
      PROVE  \E more : Upto(k + 1, more)
  <2> DEFINE blocked == \E q \in cuts : q < k /\ k < q + w
             more == cuts \cup {p \in all : p = k /\ ~blocked}
  <2>1. more \in SUBSET {p \in all : p < k + 1}
    <3>1. \A p \in cuts : p \in all /\ p < k
      BY <1>2
    <3>2. \A p \in all : p < k \/ p = k => p < k + 1
      OBVIOUS
    <3> QED
      BY <3>1, <3>2
  <2>2. ASSUME NEW p \in all, p < k + 1
        PROVE  p \in more <=> ~\E q \in more : q < p /\ p < q + w
    <3>1. CASE p = k
      <4>1. k \notin cuts /\ \A q \in more : q < k => q \in cuts
        BY <1>2
      <4>2. (\E q \in more : q < p /\ p < q + w) <=> blocked
        BY <3>1, <4>1
      <4> QED
        BY <3>1, <4>1, <4>2
    <3>2. CASE p # k
      <4>1. p < k
        BY <2>2, <3>2
      <4>2. p \in more <=> p \in cuts
        BY <3>2
      <4>3. \A q \in more : q < p => q \in cuts
        BY <4>1
      <4>4. p \in cuts <=> ~\E q \in cuts : q < p /\ p < q + w
        BY <1>2, <4>1
      <4>5. (\E q \in more : q < p /\ p < q + w) <=> (\E q \in cuts : q < p /\ p < q + w)
        BY <4>3
      <4> QED
        BY <4>2, <4>4, <4>5
    <3> QED
      BY <3>1, <3>2
  <2>3. Upto(k + 1, more)
    BY <2>1, <2>2
  <2> QED
    BY <2>3
<1> HIDE DEF Upto
<1>3. ASSUME Bad # {} PROVE FALSE
  <2>1. Bad \in SUBSET Nat
    OBVIOUS
  <2>2. PICK k \in Bad : \A j \in Bad : k <= j
    <3> HIDE DEF Bad
    <3> QED
      BY <1>3, <2>1, LeastNumber
  <2>3. k # 0
    BY <1>1
  <2>4. k - 1 \in 0 .. most /\ k - 1 \in 0 .. (most + 1) /\ ~(k <= k - 1) /\ (k - 1) + 1 = k
    BY <2>3
  <2>5. PICK cuts : Upto(k - 1, cuts)
    BY <2>2, <2>4
  <2>6. \E more : Upto(k, more)
    BY <1>2, <2>4, <2>5
  <2> QED
    BY <2>6
<1>4. PICK cuts : Upto(most + 1, cuts)
  <2>1. most + 1 \in 0 .. (most + 1)
    OBVIOUS
  <2> QED
    BY <1>3, <2>1
<1>5. \A p \in all : p < most + 1
  OBVIOUS
<1>6. AreCuts(cuts, all, w)
  BY <1>4, <1>5 DEF Upto, AreCuts
<1> QED
  BY <1>6

Rank(cuts, c) == Cardinality({r \in cuts : r <= c})

LEMMA CutType ==
    ASSUME NEW most \in Nat, NEW cuts \in SUBSET (0 .. most), NEW c \in cuts
    PROVE  /\ IsFiniteSet({r \in cuts : r <= c}) /\ Rank(cuts, c) \in Nat
           /\ Rank(cuts, c) >= 1 /\ c \in Nat
<1> DEFINE S == {r \in cuts : r <= c}
<1>1. IsFiniteSet(0 .. most)
  BY FS_Interval
<1>2. IsFiniteSet(S)
  BY <1>1, FS_Subset
<1>3. c \in S /\ c \in Nat
  OBVIOUS
<1> HIDE DEF S
<1>4. Cardinality(S) \in Nat
  BY <1>2, FS_CardinalityType
<1>5. Cardinality(S) # 0
  BY <1>2, <1>3, FS_EmptySet
<1> QED
  BY <1>2, <1>3, <1>4, <1>5 DEF Rank, S

\* Nothing is cut between c and d.
LEMMA NextRank ==
    ASSUME NEW most \in Nat, NEW cuts \in SUBSET (0 .. most), NEW c \in cuts, NEW d \in cuts,
           c < d, \A r \in cuts : c < r => d <= r
    PROVE  Rank(cuts, d) = Rank(cuts, c) + 1
<1> DEFINE S == {r \in cuts : r <= c}
           T == {r \in cuts : r <= d}
<1>1. T = S \cup {d}
  <2>1. ASSUME NEW r \in cuts, r <= d, r # d PROVE r <= c
    BY <2>1
  <2>2. \A r \in cuts : r <= c => r <= d
    OBVIOUS
  <2>3. T \subseteq S \cup {d}
    BY <2>1
  <2>4. d <= d
    OBVIOUS
  <2> QED
    BY <2>2, <2>3, <2>4
<1>2. d \notin S
  OBVIOUS
<1>3. IsFiniteSet(S)
  BY CutType
<1> HIDE DEF S, T
<1>4. Cardinality(T) = Cardinality(S) + 1
  BY <1>1, <1>2, <1>3, FS_AddElement
<1> QED
  BY <1>4 DEF Rank, S, T

LEMMA FirstRank ==
    ASSUME NEW most \in Nat, NEW cuts \in SUBSET (0 .. most), NEW c \in cuts,
           \A r \in cuts : c <= r
    PROVE  Rank(cuts, c) = 1
<1>1. {r \in cuts : r <= c} = {c}
  <2>1. \A r \in cuts : r <= c => r = c
    OBVIOUS
  <2>2. c <= c
    OBVIOUS
  <2> QED
    BY <2>1, <2>2
<1>2. Cardinality({c}) = 1
  BY FS_Singleton
<1> QED
  BY <1>1, <1>2 DEF Rank

LEMMA RanksDiffer ==
    ASSUME NEW most \in Nat, NEW cuts \in SUBSET (0 .. most), NEW c \in cuts, NEW d \in cuts,
           Rank(cuts, c) = Rank(cuts, d)
    PROVE  c = d
<1>1. ASSUME NEW x \in cuts, NEW y \in cuts, x < y PROVE Rank(cuts, x) < Rank(cuts, y)
  <2> DEFINE S == {r \in cuts : r <= x}
             T == {r \in cuts : r <= y}
  <2>1. S \in SUBSET T /\ y \in T /\ y \notin S
    <3>1. \A r \in cuts : r <= x => r <= y
      BY <1>1
    <3>2. y <= y /\ ~(y <= x)
      BY <1>1
    <3> QED
      BY <3>1, <3>2
  <2>2. IsFiniteSet(S) /\ IsFiniteSet(T)
    BY CutType
  <2> HIDE DEF S, T
  <2>3. Cardinality(S) <= Cardinality(T) /\ (Cardinality(T) = Cardinality(S) => T = S)
    BY <2>1, <2>2, FS_Subset
  <2>4. Cardinality(S) \in Nat /\ Cardinality(T) \in Nat /\ S # T
    BY <2>1, <2>2, FS_CardinalityType
  <2>5. Cardinality(S) < Cardinality(T)
    BY <2>3, <2>4
  <2> QED
    BY <2>5 DEF Rank, S, T
<1>2. c \in Nat /\ d \in Nat /\ Rank(cuts, c) \in Nat /\ Rank(cuts, d) \in Nat
  BY CutType
<1>3. ~(c < d) /\ ~(d < c)
  BY <1>1, <1>2
<1> QED
  BY <1>2, <1>3

\* A cut that is not the first has one before it.
LEMMA CutBefore ==
    ASSUME NEW most \in Nat, NEW cuts \in SUBSET (0 .. most), NEW d \in cuts,
           Rank(cuts, d) # 1
    PROVE  \E c \in cuts : c < d /\ Rank(cuts, d) = Rank(cuts, c) + 1
<1> DEFINE back == {most - r : r \in {q \in cuts : q < d}}
<1>1. back \in SUBSET Nat /\ \A r \in cuts : r \in 0 .. most
  OBVIOUS
<1>2. back # {}
  <2>1. PICK r \in cuts : ~(d <= r)
    BY FirstRank
  <2>2. r < d
    BY <1>1, <2>1
  <2> QED
    BY <2>2
<1>3. PICK x \in back : \A y \in back : x <= y
  <2> HIDE DEF back
  <2> QED
    BY <1>1, <1>2, LeastNumber
<1>4. PICK c \in cuts : c < d /\ x = most - c
  BY <1>3
<1>5. ASSUME NEW r \in cuts, c < r PROVE d <= r
  <2>1. CASE r < d
    <3>1. most - c <= most - r
      BY <1>3, <1>4, <2>1
    <3> QED
      BY <1>1, <1>5, <3>1
  <2>2. CASE ~(r < d)
    BY <1>1, <2>2
  <2> QED
    BY <2>1, <2>2
<1> QED
  BY <1>4, <1>5, NextRank

-----------------------------------------------------------------------------
(* FieldIndexer::index()                                                    *)

\* The separators at or after p.
FromOn(all, p) == {q \in all : q >= p}

\* No cut lies across p.
IsFree(cuts, w, p) == \A r \in cuts : r < p => r + w <= p

\* The search from a free position finds the next cut.
LEMMA NextCut ==
    ASSUME NEW most \in Nat, NEW all \in SUBSET (0 .. most), NEW w \in Nat, NEW cuts,
           AreCuts(cuts, all, w), NEW p \in Nat, IsFree(cuts, w, p), FromOn(all, p) # {}
    PROVE  /\ Min(FromOn(all, p)) \in cuts /\ Min(FromOn(all, p)) >= p
           /\ \A r \in cuts : r >= p => Min(FromOn(all, p)) <= r
<1> DEFINE S == FromOn(all, p)
           m == Min(S)
<1>1. S \in SUBSET Nat /\ S # {}
  <2>1. \A q \in S : q \in all
    BY DEF FromOn
  <2>2. \A q \in all : q \in Nat
    OBVIOUS
  <2> QED
    BY <2>1, <2>2
<1>2. m \in S /\ \A r \in S : m <= r
  <2> HIDE DEF S
  <2> QED
    BY <1>1, MinLeast
<1> HIDE DEF m
<1>3. m \in all /\ m >= p /\ m \in Nat
  BY <1>2 DEF FromOn
<1>4. cuts \in SUBSET all /\ (m \in cuts <=> ~\E q \in cuts : q < m /\ m < q + w)
  BY <1>3 DEF AreCuts
<1>5. ASSUME NEW q \in cuts, q < m, m < q + w PROVE FALSE
  <2>1. q \in Nat
    BY <1>4
  <2>2. CASE q < p
    <3>1. q + w <= p
      BY <2>2 DEF IsFree
    <3> QED
      BY <1>3, <1>5, <2>1, <3>1
  <2>3. CASE q >= p
    <3>1. q \in S
      BY <1>4, <2>3 DEF FromOn
    <3> QED
      BY <1>2, <1>3, <1>5, <2>1, <3>1
  <2> QED
    BY <2>1, <2>2, <2>3
<1>6. m \in cuts
  BY <1>4, <1>5
<1>7. \A r \in cuts : r >= p => m <= r
  BY <1>2, <1>4 DEF FromOn
<1> QED
  BY <1>3, <1>6, <1>7 DEF m

\* After a cut the line is free.
LEMMA FreeAfterCut ==
    ASSUME NEW most \in Nat, NEW all \in SUBSET (0 .. most), NEW w \in Nat, NEW cuts,
           AreCuts(cuts, all, w), NEW c \in cuts
    PROVE  IsFree(cuts, w, c + w) /\ c + w \in Nat
<1>1. cuts \in SUBSET all /\ c \in Nat
  BY DEF AreCuts
<1>2. ASSUME NEW r \in cuts, r < c + w PROVE r + w <= c + w
  <2>1. r \in all /\ r \in Nat
    BY <1>1
  <2>2. ~(c < r /\ r < c + w)
    BY <2>1 DEF AreCuts
  <2> QED
    BY <1>1, <1>2, <2>1, <2>2
<1> QED
  BY <1>1, <1>2 DEF IsFree

\* Where field i of the line starts.
Starts(cuts, w, i) ==
    IF i = 1 THEN {0} ELSE {c + w : c \in {r \in cuts : Rank(cuts, r) = i - 1}}

LEMMA StartIsFree ==
    ASSUME NEW most \in Nat, NEW all \in SUBSET (0 .. most), NEW w \in Nat, NEW cuts,
           AreCuts(cuts, all, w), NEW i \in Nat, NEW p \in Starts(cuts, w, i)
    PROVE  IsFree(cuts, w, p) /\ p \in Nat
<1>1. CASE i = 1
  <2>1. p = 0
    BY <1>1 DEF Starts
  <2>2. \A r \in cuts : r \in Nat
    BY DEF AreCuts
  <2> QED
    BY <2>1, <2>2 DEF IsFree
<1>2. CASE i # 1
  <2>1. PICK c \in cuts : p = c + w
    BY <1>2 DEF Starts
  <2> QED
    BY <2>1, FreeAfterCut
<1> QED
  BY <1>1, <1>2

\* One step of the loop: from the starts of field i to those of the next.
NextOf(all, w, starts) ==
    {Min(FromOn(all, p)) + w : p \in {q \in starts : FromOn(all, q) # {}}}

Follows(all, cuts, w, i, j) == Starts(cuts, w, j) = NextOf(all, w, Starts(cuts, w, i))

LEMMA NextStarts ==
    ASSUME NEW most \in Nat, NEW all \in SUBSET (0 .. most), NEW w \in Nat, w >= 1, NEW cuts,
           AreCuts(cuts, all, w), NEW i \in Nat, i >= 1, NEW j, j = i + 1
    PROVE  Follows(all, cuts, w, i, j)
<1> DEFINE next == {Min(FromOn(all, p)) + w :
                       p \in {q \in Starts(cuts, w, i) : FromOn(all, q) # {}}}
<1>1. /\ cuts \in SUBSET (0 .. most) /\ \A r \in cuts : r \in all /\ r \in Nat
      /\ \A r \in cuts : Rank(cuts, r) \in Nat /\ Rank(cuts, r) >= 1
  <2>1. cuts \in SUBSET (0 .. most) /\ \A r \in cuts : r \in all /\ r \in Nat
    BY DEF AreCuts
  <2> QED
    BY <2>1, CutType
<1>2. Starts(cuts, w, j) = {c + w : c \in {r \in cuts : Rank(cuts, r) = i}}
  BY DEF Starts
<1>3. ASSUME NEW p \in Starts(cuts, w, i), FromOn(all, p) # {}
      PROVE  /\ Min(FromOn(all, p)) \in cuts /\ Rank(cuts, Min(FromOn(all, p))) = i
             /\ \A r \in cuts : r >= p => Min(FromOn(all, p)) <= r
  <2> DEFINE m == Min(FromOn(all, p))
  <2>1. IsFree(cuts, w, p) /\ p \in Nat
    BY StartIsFree
  <2>2. m \in cuts /\ m >= p /\ \A r \in cuts : r >= p => m <= r
    BY <1>3, <2>1, NextCut
  <2> HIDE DEF m
  <2>3. CASE i = 1
    <3>1. p = 0
      BY <2>3 DEF Starts
    <3>2. \A r \in cuts : m <= r
      BY <1>1, <2>2, <3>1
    <3>3. Rank(cuts, m) = 1
      BY <1>1, <2>2, <3>2, FirstRank
    <3> QED
      BY <2>2, <2>3, <3>3 DEF m
  <2>4. CASE i # 1
    <3>1. PICK c \in cuts : Rank(cuts, c) = i - 1 /\ p = c + w
      BY <2>4 DEF Starts
    <3>2. m \in Nat /\ c \in Nat /\ c < m
      BY <1>1, <2>2, <3>1
    <3>3. ASSUME NEW r \in cuts, c < r PROVE m <= r
      <4>1. ~(c < r /\ r < c + w)
        BY <1>1 DEF AreCuts
      <4>2. r \in Nat
        BY <1>1
      <4>3. r >= p
        BY <3>1, <3>2, <3>3, <4>1, <4>2
      <4> QED
        BY <2>2, <4>3
    <3>4. Rank(cuts, m) = Rank(cuts, c) + 1
      BY <1>1, <2>2, <3>2, <3>3, NextRank
    <3> QED
      BY <2>2, <3>1, <3>4 DEF m
  <2> QED
    BY <2>3, <2>4
<1>4. ASSUME NEW x \in next PROVE x \in Starts(cuts, w, j)
  <2>1. PICK p \in Starts(cuts, w, i) : FromOn(all, p) # {} /\ x = Min(FromOn(all, p)) + w
    OBVIOUS
  <2> QED
    BY <1>2, <1>3, <2>1
<1>5. ASSUME NEW c \in cuts, Rank(cuts, c) = i PROVE c + w \in next
  <2>1. \E p \in Starts(cuts, w, i) : p <= c
    <3>1. CASE i = 1
      BY <1>1, <3>1 DEF Starts
    <3>2. CASE i # 1
      <4>1. PICK b \in cuts : b < c /\ Rank(cuts, c) = Rank(cuts, b) + 1
        BY <1>1, <1>5, <3>2, CutBefore
      <4>2. b + w \in Starts(cuts, w, i)
        <5>1. Rank(cuts, b) = i - 1
          BY <1>1, <1>5, <4>1
        <5> QED
          BY <3>2, <5>1 DEF Starts
      <4>3. ~(b < c /\ c < b + w)
        BY <1>1 DEF AreCuts
      <4>4. b + w <= c
        BY <1>1, <4>1, <4>3
      <4> QED
        BY <4>2, <4>4
    <3> QED
      BY <3>1, <3>2
  <2>2. PICK p \in Starts(cuts, w, i) : p <= c
    BY <2>1
  <2>3. p \in Nat
    BY StartIsFree
  <2>4. c \in FromOn(all, p)
    BY <1>1, <2>2, <2>3 DEF FromOn
  <2>5. Min(FromOn(all, p)) \in cuts /\ Rank(cuts, Min(FromOn(all, p))) = i
    BY <1>3, <2>4
  <2>6. Min(FromOn(all, p)) = c
    BY <1>1, <1>5, <2>5, RanksDiffer
  <2> QED
    BY <2>4, <2>6
<1>6. Starts(cuts, w, j) \subseteq next
  <2> HIDE DEF next
  <2> QED
    BY <1>2, <1>5
<1>7. next = NextOf(all, w, Starts(cuts, w, i))
  BY DEF NextOf
<1> HIDE DEF next
<1> QED
  BY <1>4, <1>6, <1>7 DEF Follows

LEMMA SeparatorsAre ==
    ASSUME NEW separator \in Seq(Nat), NEW line \in Seq(Nat)
    PROVE  /\ Separators(separator, line, 0) \in SUBSET (0 .. Len(line))
           /\ \A p \in Nat : Separators(separator, line, p)
                                = FromOn(Separators(separator, line, 0), p)
<1> DEFINE L == Len(line)
           w == Len(separator)
           Is(q) == SubSeq(line, q + 1, q + w) = separator
<1>1. L \in Nat /\ w \in Nat
  OBVIOUS
<1>2. \A p : Separators(separator, line, p) = {q \in p .. (L - w) : Is(q)}
  BY DEF Separators
<1> HIDE DEF L, w, Is
<1>3. ASSUME NEW p \in Nat
      PROVE  Separators(separator, line, p) = FromOn(Separators(separator, line, 0), p)
  <2>1. \A q : q \in p .. (L - w) <=> q \in 0 .. (L - w) /\ q >= p
    BY <1>1
  <2>2. FromOn(Separators(separator, line, 0), p) = {q \in {r \in 0 .. (L - w) : Is(r)} : q >= p}
    BY <1>2 DEF FromOn
  <2> QED
    BY <1>2, <2>1, <2>2
<1>4. \A q \in 0 .. (L - w) : q \in 0 .. L
  BY <1>1
<1> QED
  BY <1>2, <1>3, <1>4 DEF L

LEMMA CutsAre ==
    ASSUME NEW separator \in Seq(Nat), NEW line \in Seq(Nat)
    PROVE  AreCuts(Cuts(separator, line), Separators(separator, line, 0), Len(separator))
<1> DEFINE all == Separators(separator, line, 0)
           w == Len(separator)
<1>1. all \in SUBSET (0 .. Len(line)) /\ w \in Nat /\ Len(line) \in Nat
  BY SeparatorsAre
<1>2. Cuts(separator, line) = CHOOSE cuts \in SUBSET all :
         \A p \in all : p \in cuts <=> ~\E q \in cuts : q < p /\ p < q + w
  BY DEF Cuts
<1> HIDE DEF all, w
<1>3. \E cuts \in SUBSET all :
         \A p \in all : p \in cuts <=> ~\E q \in cuts : q < p /\ p < q + w
  <2>1. PICK cuts : AreCuts(cuts, all, w)
    BY <1>1, CutsExist
  <2> QED
    BY <2>1 DEF AreCuts
<1> QED
  BY <1>2, <1>3 DEF AreCuts, all, w

PtrsStep(separator, line, starts) ==
    {Min(Separators(separator, line, p)) + Len(separator) :
        p \in {q \in starts : Separators(separator, line, q) # {}}}

PtrsFcn(separator, field, line) ==
    CHOOSE Ptrs : Ptrs = [i \in 1 .. Max({1, field}) |->
        IF i = 1 THEN {0} ELSE PtrsStep(separator, line, Ptrs[i - 1])]

FieldEnd(separator, line, p) == Min(Separators(separator, line, p) \cup {Len(line)})

LEMMA FieldIs ==
    ASSUME NEW separator, NEW field, NEW line
    PROVE  Field(separator, field, line) =
              {<<p, FieldEnd(separator, line, p)>> :
                  p \in {q \in PtrsFcn(separator, field, line)[Max({1, field})] :
                            FieldEnd(separator, line, q) # q}}
BY Zenon DEF Field, PtrsFcn, PtrsStep, FieldEnd

ArePtrs(separator, field, line, Ptrs) ==
    \A i \in 1 .. Max({1, field}) :
        Ptrs[i] = IF i = 1 THEN {0} ELSE PtrsStep(separator, line, Ptrs[i - 1])

LEMMA PtrsAre ==
    ASSUME NEW separator \in Seq(Nat), NEW line \in Seq(Nat), NEW field \in Int
    PROVE  /\ ArePtrs(separator, field, line, PtrsFcn(separator, field, line))
           /\ \A i \in 1 .. Max({1, field}) :
                 PtrsFcn(separator, field, line)[i] \in SUBSET Nat
<1> DEFINE M == Max({1, field})
           Step(starts) == PtrsStep(separator, line, starts)
           step == [i \in 1 .. M |-> [starts \in SUBSET Nat |-> Step(starts)]]
<1>1. M \in Nat /\ M >= 1
  BY MaxOfTwo
<1>2. ASSUME NEW starts \in SUBSET Nat PROVE Step(starts) \in SUBSET Nat
  <2>1. ASSUME NEW p \in starts, Separators(separator, line, p) # {}
        PROVE  Min(Separators(separator, line, p)) + Len(separator) \in Nat
    <3> DEFINE S == Separators(separator, line, p)
    <3>1. S \in SUBSET Nat
      <4>1. S = FromOn(Separators(separator, line, 0), p)
        BY SeparatorsAre
      <4>2. Separators(separator, line, 0) \in SUBSET Nat
        BY SeparatorsAre
      <4> HIDE DEF S
      <4> QED
        BY <4>1, <4>2 DEF FromOn
    <3> HIDE DEF S
    <3>2. Min(S) \in S
      BY <2>1, <3>1, MinLeast DEF S
    <3> QED
      BY <3>1, <3>2 DEF S
  <2> QED
    BY <2>1 DEF PtrsStep
<1> HIDE DEF M, Step
<1>3. step \in [1 .. M -> [SUBSET Nat -> SUBSET Nat]]
  BY <1>2
<1>4. {0} \in SUBSET Nat /\ 1 \in Int /\ M \in Int
  BY <1>1
<1> HIDE DEF step
<1>5. PICK f \in [1 .. M -> SUBSET Nat] : IsRecursive(f, 1, M, {0}, step)
  BY <1>3, <1>4, RecursionExists
<1>6. \A i \in 1 .. M : f[i] = IF i = 1 THEN {0} ELSE Step(f[i - 1])
  <2> TAKE i \in 1 .. M
  <2>1. f[i] = IF i = 1 THEN {0} ELSE step[i][f[i - 1]]
    BY <1>5 DEF IsRecursive
  <2>2. i # 1 => i - 1 \in 1 .. M
    BY <1>1
  <2>3. i # 1 => f[i - 1] \in SUBSET Nat
    BY <1>5, <2>2
  <2>4. i # 1 => step[i][f[i - 1]] = Step(f[i - 1])
    BY <2>3 DEF step
  <2> QED
    BY <2>1, <2>4
<1>7. f = [i \in 1 .. M |-> IF i = 1 THEN {0} ELSE Step(f[i - 1])]
  BY <1>5, <1>6
<1> DEFINE P == PtrsFcn(separator, field, line)
<1>8. P = [i \in 1 .. M |-> IF i = 1 THEN {0} ELSE Step(P[i - 1])]
  BY <1>7, Zenon DEF PtrsFcn, M, Step
<1> HIDE DEF P
<1>9. \A i \in 1 .. M : P[i] = IF i = 1 THEN {0} ELSE Step(P[i - 1])
  BY <1>8
<1> DEFINE Bad == {i \in 1 .. M : P[i] \notin SUBSET Nat}
<1>10. ASSUME Bad # {} PROVE FALSE
  <2>1. Bad \in SUBSET Nat
    OBVIOUS
  <2>2. PICK i \in Bad : \A j \in Bad : i <= j
    <3> HIDE DEF Bad
    <3> QED
      BY <1>10, <2>1, LeastNumber
  <2>3. i # 1
    BY <1>9, <2>2
  <2>4. i - 1 \in 1 .. M /\ ~(i <= i - 1)
    BY <1>1, <2>2, <2>3
  <2>5. P[i - 1] \in SUBSET Nat
    BY <2>2, <2>4
  <2> QED
    BY <1>2, <1>9, <2>2, <2>3, <2>5
<1> QED
  BY <1>9, <1>10 DEF ArePtrs, P, M, Step

\* What FindsField() asks for.
FieldSpans(separator, field, line) ==
    LET cuts == Cuts(separator, line)
        starts == {p + Len(separator) :
                      p \in {q \in cuts : Cardinality({r \in cuts : r <= q}) = field - 1}}
                  \cup (IF field <= 1 THEN {0} ELSE {})
        spans == {<<p, Min({q \in cuts : q >= p} \cup {Len(line)})>> : p \in starts}
    IN  {s \in spans : s[1] # s[2]}

\* The end that is searched for is the next cut.
EndsAtCut(all, cuts, p, most) ==
    Min(FromOn(all, p) \cup {most}) = Min({q \in cuts : q >= p} \cup {most})

LEMMA EndIsCut ==
    ASSUME NEW most \in Nat, NEW all \in SUBSET (0 .. most), NEW w \in Nat, NEW cuts,
           AreCuts(cuts, all, w), NEW p \in Nat, IsFree(cuts, w, p)
    PROVE  EndsAtCut(all, cuts, p, most)
<1> DEFINE S == FromOn(all, p)
           C == {q \in cuts : q >= p}
<1>1. /\ C \subseteq S /\ S \in SUBSET (0 .. most)
  <2>1. \A q \in cuts : q \in all
    BY DEF AreCuts
  <2> QED
    BY <2>1 DEF FromOn
<1>2. CASE S = {}
  BY <1>1, <1>2 DEF EndsAtCut
<1>3. CASE S # {}
  <2> DEFINE m == Min(S)
  <2>1. m \in cuts /\ m >= p /\ \A r \in cuts : r >= p => m <= r
    BY <1>3, NextCut
  <2>2. S \in SUBSET Nat
    BY <1>1
  <2>3. m \in S /\ \A r \in S : m <= r
    <3> HIDE DEF S
    <3> QED
      BY <1>3, <2>2, MinLeast
  <2> HIDE DEF m, S
  <2>4. m <= most /\ m \in Int
    BY <1>1, <2>3
  <2>5. m \in C /\ \A r \in C : m <= r
    BY <2>1
  <2> HIDE DEF C
  <2>6. \A r \in S \cup {most} : m <= r
    BY <2>3, <2>4
  <2>7. \A r \in C \cup {most} : m <= r
    BY <2>4, <2>5
  <2>8. S \cup {most} \in SUBSET Int /\ C \cup {most} \in SUBSET Int
    BY <1>1, <2>2
  <2>9. Min(S \cup {most}) = m
    BY <2>3, <2>6, <2>8, MinIs
  <2>10. Min(C \cup {most}) = m
    BY <2>5, <2>7, <2>8, MinIs
  <2> QED
    BY <2>9, <2>10 DEF EndsAtCut, S, C
<1> QED
  BY <1>2, <1>3

LEMMA FieldsAgree ==
    ASSUME NEW separator \in Seq(Nat), separator # <<>>, NEW line \in Seq(Nat),
           NEW field \in Int
    PROVE  Field(separator, field, line) = FieldSpans(separator, field, line)
<1> DEFINE all == Separators(separator, line, 0)
           w == Len(separator)
           L == Len(line)
           M == Max({1, field})
           P == PtrsFcn(separator, field, line)
           cuts == Cuts(separator, line)
<1>1. w \in Nat /\ w >= 1 /\ L \in Nat /\ all \in SUBSET (0 .. L)
  BY SeparatorsAre
<1>2. AreCuts(cuts, all, w)
  BY CutsAre
<1>3. M \in Nat /\ M >= 1 /\ M = IF field <= 1 THEN 1 ELSE field
  BY MaxOfTwo
<1>4. \A p \in Nat : Separators(separator, line, p) = FromOn(all, p)
  BY SeparatorsAre
<1>5. \A i \in 1 .. M : P[i] = IF i = 1 THEN {0} ELSE PtrsStep(separator, line, P[i - 1])
  BY PtrsAre DEF ArePtrs
<1> HIDE DEF all, w, L, M, P, cuts
<1>6. \A i \in Nat : \A p \in Starts(cuts, w, i) : IsFree(cuts, w, p) /\ p \in Nat
  BY <1>1, <1>2, StartIsFree
<1>7. ASSUME NEW i \in Nat, i >= 1, NEW j, j = i + 1
      PROVE  Follows(all, cuts, w, i, j)
  <2>1. L \in Nat /\ w \in Nat /\ w >= 1
    BY <1>1
  <2>2. all \in SUBSET (0 .. L)
    BY <1>1
  <2>3. AreCuts(cuts, all, w)
    BY <1>2
  <2> QED
    BY <1>7, <2>1, <2>2, <2>3, NextStarts
<1> DEFINE Bad == {i \in 1 .. M : P[i] # Starts(cuts, w, i)}
<1>8. ASSUME Bad # {} PROVE FALSE
  <2>1. Bad \in SUBSET Nat
    OBVIOUS
  <2>2. PICK i \in Bad : \A j \in Bad : i <= j
    <3> HIDE DEF Bad
    <3> QED
      BY <1>8, <2>1, LeastNumber
  <2>3. i # 1
    BY <1>5, <2>2 DEF Starts
  <2>4. /\ i - 1 \in 1 .. M /\ ~(i <= i - 1) /\ i - 1 \in Nat /\ i - 1 >= 1
        /\ (i - 1) + 1 = i
    BY <1>3, <2>2, <2>3
  <2>5. P[i - 1] = Starts(cuts, w, i - 1)
    BY <2>2, <2>4
  <2>6. Starts(cuts, w, i) = NextOf(all, w, Starts(cuts, w, i - 1))
    BY <1>7, <2>4 DEF Follows
  <2>7. PtrsStep(separator, line, Starts(cuts, w, i - 1)) = Starts(cuts, w, i)
    <3>1. \A p \in Starts(cuts, w, i - 1) : Separators(separator, line, p) = FromOn(all, p)
      BY <1>4, <1>6, <2>4
    <3> QED
      BY <2>6, <3>1 DEF PtrsStep, NextOf, w
  <2> QED
    BY <1>5, <2>2, <2>3, <2>5, <2>7
<1>9. P[M] = Starts(cuts, w, M)
  <2>1. M \in 1 .. M
    BY <1>3
  <2> QED
    BY <1>8, <2>1
<1> DEFINE starts == {p + w : p \in {q \in cuts : Cardinality({r \in cuts : r <= q}) = field - 1}}
                        \cup (IF field <= 1 THEN {0} ELSE {})
           End(p) == Min({q \in cuts : q >= p} \cup {L})
<1>10. starts = Starts(cuts, w, M)
  <2>1. \A q \in cuts : Cardinality({r \in cuts : r <= q}) = Rank(cuts, q)
    BY DEF Rank
  <2>2. \A q \in cuts : Rank(cuts, q) \in Nat /\ Rank(cuts, q) >= 1
    <3>1. cuts \in SUBSET (0 .. L)
      BY <1>1, <1>2 DEF AreCuts
    <3> QED
      BY <1>1, <3>1, CutType
  <2>3. starts = {p + w : p \in {q \in cuts : Rank(cuts, q) = field - 1}}
                    \cup (IF field <= 1 THEN {0} ELSE {})
    BY <2>1
  <2> HIDE DEF starts
  <2>4. CASE field <= 1
    <3>1. M = 1 /\ {q \in cuts : Rank(cuts, q) = field - 1} = {}
      BY <1>3, <2>2, <2>4
    <3>2. starts = {0}
      BY <2>3, <2>4, <3>1
    <3> QED
      BY <3>1, <3>2 DEF Starts
  <2>5. CASE ~(field <= 1)
    <3>1. M = field /\ M # 1
      BY <1>3, <2>5
    <3>2. starts = {p + w : p \in {q \in cuts : Rank(cuts, q) = field - 1}}
      BY <2>3, <2>5
    <3> QED
      BY <3>1, <3>2 DEF Starts
  <2> QED
    BY <2>4, <2>5
<1>11. FieldSpans(separator, field, line)
          = {s \in {<<p, End(p)>> : p \in starts} : s[1] # s[2]}
  BY Zenon DEF FieldSpans, cuts, w, L
<1> HIDE DEF starts
<1>12. \A p \in starts : FieldEnd(separator, line, p) = End(p)
  <2> SUFFICES ASSUME NEW p \in starts PROVE FieldEnd(separator, line, p) = End(p)
    OBVIOUS
  <2>1. IsFree(cuts, w, p) /\ p \in Nat
    BY <1>3, <1>6, <1>10
  <2>2. FieldEnd(separator, line, p) = Min(FromOn(all, p) \cup {L})
    BY <1>4, <2>1 DEF FieldEnd, L
  <2>3. EndsAtCut(all, cuts, p, L)
    <3> HIDE DEF End
    <3>1. L \in Nat
      BY <1>1
    <3>2. all \in SUBSET (0 .. L)
      BY <1>1
    <3>3. w \in Nat
      BY <1>1
    <3>4. AreCuts(cuts, all, w)
      BY <1>2
    <3>5. p \in Nat
      BY <2>1
    <3>6. IsFree(cuts, w, p)
      BY <2>1
    <3> QED
      BY <3>1, <3>2, <3>3, <3>4, <3>5, <3>6, EndIsCut
  <2> QED
    BY <2>2, <2>3 DEF EndsAtCut
<1>13. Field(separator, field, line)
          = {<<p, FieldEnd(separator, line, p)>> :
                p \in {q \in starts : FieldEnd(separator, line, q) # q}}
  BY <1>9, <1>10, FieldIs DEF P, M
<1> HIDE DEF End
<1>14. Field(separator, field, line) = {s \in {<<p, End(p)>> : p \in starts} : s[1] # s[2]}
  BY <1>12, <1>13
<1> QED
  BY <1>11, <1>14 DEF End

\* With an empty separator every field is empty.
LEMMA NoFields ==
    ASSUME NEW separator \in Seq(Nat), separator = <<>>, NEW line \in Seq(Nat), NEW field \in Int
    PROVE  Field(separator, field, line) = {} /\ FieldSpans(separator, field, line) = {}
<1> DEFINE L == Len(line)
           M == Max({1, field})
           P == PtrsFcn(separator, field, line)
           cuts == Cuts(separator, line)
           all == Separators(separator, line, 0)
<1>1. L \in Nat /\ Len(separator) = 0
  OBVIOUS
<1>2. \A p \in Nat : Separators(separator, line, p) = p .. L
  <2>1. \A p \in Nat : SubSeq(line, p + 1, p + 0) = separator
    OBVIOUS
  <2> QED
    BY <1>1, <2>1 DEF Separators
<1>3. M \in Nat /\ M >= 1
  BY MaxOfTwo
<1>4. \A i \in 1 .. M : /\ P[i] = IF i = 1 THEN {0} ELSE PtrsStep(separator, line, P[i - 1])
                        /\ P[i] \in SUBSET Nat
  <2>1. \A i \in 1 .. M : P[i] = IF i = 1 THEN {0} ELSE PtrsStep(separator, line, P[i - 1])
    <3>1. ArePtrs(separator, field, line, P)
      BY PtrsAre
    <3> QED
      BY <3>1, Zenon DEF ArePtrs
  <2>2. \A i \in 1 .. M : P[i] \in SUBSET Nat
    BY PtrsAre
  <2> HIDE DEF P, M
  <2> QED
    BY <2>1, <2>2
<1> HIDE DEF P, M
<1>5. ASSUME NEW x \in P[M] PROVE x \in 0 .. L
  <2>1. CASE M = 1
    BY <1>1, <1>3, <1>4, <2>1
  <2>2. CASE M # 1
    <3>1. M - 1 \in 1 .. M /\ M \in 1 .. M
      BY <1>3, <2>2
    <3>2. x \in PtrsStep(separator, line, P[M - 1])
      BY <1>4, <2>2, <3>1
    <3>3. PICK p \in P[M - 1] : /\ Separators(separator, line, p) # {}
                                /\ x = Min(Separators(separator, line, p)) + 0
      BY <1>1, <3>2 DEF PtrsStep
    <3>4. p \in Nat
      BY <1>4, <3>1
    <3> DEFINE S == p .. L
    <3>5. Separators(separator, line, p) = S /\ S \in SUBSET Nat
      BY <1>2, <3>4
    <3>6. x = Min(S) + 0 /\ S # {}
      BY <3>3, <3>5
    <3>7. Min(S) \in S
      <4> HIDE DEF S
      <4> QED
        BY <3>5, <3>6, MinLeast
    <3> HIDE DEF S
    <3>8. Min(S) \in p .. L
      BY <3>7 DEF S
    <3> QED
      BY <1>1, <3>4, <3>6, <3>8
  <2> QED
    BY <2>1, <2>2
<1>6. ASSUME NEW x \in 0 .. L PROVE FieldEnd(separator, line, x) = x
  <2> DEFINE S == (x .. L) \cup {L}
  <2>1. FieldEnd(separator, line, x) = Min(S)
    <3>1. Separators(separator, line, x) = x .. L
      BY <1>1, <1>2
    <3> QED
      BY <3>1, Zenon DEF FieldEnd
  <2>2. S \in SUBSET Int /\ x \in S /\ \A r \in S : x <= r
    BY <1>1
  <2> HIDE DEF S
  <2> QED
    BY <2>1, <2>2, MinIs
<1>7. Field(separator, field, line) = {}
  <2>1. \A x \in P[M] : FieldEnd(separator, line, x) = x
    BY <1>5, <1>6
  <2>2. Field(separator, field, line) =
           {<<p, FieldEnd(separator, line, p)>> :
               p \in {q \in P[M] : FieldEnd(separator, line, q) # q}}
    BY FieldIs DEF P, M
  <2>3. {q \in P[M] : FieldEnd(separator, line, q) # q} = {}
    BY <2>1
  <2> QED
    BY <2>2, <2>3
<1>8. AreCuts(cuts, all, 0) /\ all = 0 .. L
  BY <1>1, <1>2, CutsAre
<1> HIDE DEF cuts
<1> HIDE DEF L, all
<1>9. cuts = 0 .. L
  <2>1. cuts \subseteq all /\ \A p \in all : p \in cuts <=> ~\E q \in cuts : q < p /\ p < q + 0
    BY <1>8 DEF AreCuts
  <2>2. ASSUME NEW p \in 0 .. L PROVE p \in cuts
    <3>1. \A q \in cuts : q \in 0 .. L
      BY <1>8, <2>1
    <3>2. ~\E q \in cuts : q < p /\ p < q + 0
      BY <1>1, <3>1
    <3> QED
      BY <1>8, <2>1, <3>2
  <2> QED
    BY <1>8, <2>1, <2>2
<1> DEFINE starts == {p + 0 : p \in {q \in cuts : Cardinality({r \in cuts : r <= q}) = field - 1}}
                        \cup (IF field <= 1 THEN {0} ELSE {})
           End(p) == Min({q \in cuts : q >= p} \cup {L})
<1>10. \A p \in starts : p \in 0 .. L
  <2>1. \A q \in cuts : q + 0 \in 0 .. L
    BY <1>1, <1>9
  <2>2. 0 \in 0 .. L
    BY <1>1
  <2> QED
    BY <2>1, <2>2
<1>11. FieldSpans(separator, field, line)
          = {s \in {<<p, End(p)>> : p \in starts} : s[1] # s[2]}
  <2> DEFINE these == {q \in cuts : Cardinality({r \in cuts : r <= q}) = field - 1}
             first == IF field <= 1 THEN {0} ELSE {}
             from == {p + Len(separator) : p \in these} \cup first
  <2>1. FieldSpans(separator, field, line)
           = {s \in {<<p, End(p)>> : p \in from} : s[1] # s[2]}
    BY Zenon DEF FieldSpans, cuts, L
  <2>2. from = starts
    <3> HIDE DEF these, first
    <3>1. from = {p + 0 : p \in these} \cup first
      BY <1>1
    <3> QED
      BY <3>1, Zenon DEF these, first
  <2> HIDE DEF from, starts
  <2> QED
    BY <2>1, <2>2, Zenon
<1> HIDE DEF starts
<1>12. ASSUME NEW p \in 0 .. L PROVE End(p) = p
  <2> DEFINE S == {q \in cuts : q >= p} \cup {L}
  <2>1. S \in SUBSET Int /\ p \in S /\ \A r \in S : p <= r
    BY <1>1, <1>9
  <2> HIDE DEF S
  <2>2. Min(S) = p
    BY <2>1, MinIs
  <2> QED
    BY <2>2 DEF S
<1> HIDE DEF End
<1>13. \A p \in starts : <<p, End(p)>>[1] = <<p, End(p)>>[2]
  BY <1>10, <1>12
<1>14. FieldSpans(separator, field, line) = {}
  BY <1>11, <1>13
<1> QED
  BY <1>7, <1>14

\* FieldIndexer::index() finds what lies between the separators.
LEMMA FieldFound ==
    ASSUME NEW separator \in Seq(Nat), NEW line \in Seq(Nat), NEW field \in Int
    PROVE  Field(separator, field, line) = FieldSpans(separator, field, line)
BY FieldsAgree, NoFields

-----------------------------------------------------------------------------
(* The inductive invariant                                                  *)

\* The matches in `spans` are all there are before position `upTo`.
MatchesUpTo(re, line, spans, upTo) ==
    LET all == Candidates(re, line, TRUE)
    IN  /\ \A s \in spans : \E c \in all : s = <<c[1], MatchEnd(c)>> /\ MatchEnd(c) <= upTo
        /\ \A c \in all : c[2].text # <<>> /\ c[1] < upTo =>
              \E s \in spans : s[1] <= c[1] /\ c[1] < s[2]
        /\ \A s, t \in spans : s = t \/ s[2] <= t[1] \/ t[2] <= s[1]

\* What an indexer is to find in a line.
Finds(entry, line, found) ==
    /\ entry.kind = "regex" => FindsMatches(entry, line, found)
    /\ entry.kind = "field" => FindsField(entry, line, found)

\* The place of an occurrence, as a row has it.
PlaceOf(entry, o) == IF entry.kind = "regex" THEN <<o[1][1], MatchEnd(o[1])>> ELSE o[1]

\* The row tells of occurrence o.
TellsOf(row, entry, line, o) ==
    /\ row.index = entry.name /\ row.text = o[2] /\ row.key = Key(entry, o[2])
    /\ row.match = PlaceOf(entry, o)
    /\ row.text \in Seq(Nat) /\ (entry.numeric => IsNumeric(row.text))
    /\ row.text = Between(line, <<row.offset, row.offset + Len(row.text)>>)

\* The row's line number leads to line i, or will do if line i is kept.
LeadsTo(row, i) ==
    \/ row.line \in DOMAIN kept /\ kept[row.line] = i
    \/ phase = "indexing" /\ row.line = Number /\ i = n

\* The rows an entry has of the line at hand.
RowsNow(entry) == {row \in rows : row.index = entry.name /\ row.line = Number}
MatchesNow(entry) == {row.match : row \in RowsNow(entry)}

Inputs ==
    /\ \A e \in 1 .. Len(config) : IsEntry(config[e])
    /\ config \in Seq(Range(config)) /\ lines \in Seq(Seq(Nat)) /\ skipFirst \in Nat

Configured ==
    /\ added \in 0 .. Len(config)
    /\ \A e \in Entries : config[e].kind \in {"regex", "field"}
    /\ \A d, e \in Entries : config[d].name = config[e].name => d = e
    /\ phase \notin {"configure", "failed"} => added = Len(config)
    /\ phase \in {"configure", "failed"} => rows = {}
    /\ phase = "configure" => n = 0

InOrder ==
    /\ n \in 0 .. Len(lines)
    /\ kept \in Seq(1 .. n) /\ \A i, j \in DOMAIN kept : i < j => kept[i] < kept[j]
    /\ phase = "indexing" => /\ n >= 1 /\ Number > skipFirst
                             /\ \A r \in DOMAIN kept : kept[r] < n

Working ==
    /\ phase \in {"configure", "building", "indexing", "done", "failed"}
    /\ todo \subseteq Entries /\ running \in Entries \cup {Nobody} /\ running \notin todo
    /\ phase # "indexing" => todo = {} /\ running = Nobody
    /\ offset \in 0 .. (IF running = Nobody THEN 0 ELSE Len(Line))
    /\ running # Nobody /\ config[running].kind = "field" => offset = 0

RowsTrue ==
    \A row \in rows : \E e \in Entries, i \in 1 .. n :
        /\ \E o \in Occurrences(config[e], lines[i]) : TellsOf(row, config[e], lines[i], o)
        /\ LeadsTo(row, i)

AtWork ==
    phase = "indexing" =>
        \A e \in Entries :
            LET entry == config[e]
            IN  /\ e \in todo => RowsNow(entry) = {}
                /\ e = running =>
                      /\ entry.kind = "field" => RowsNow(entry) = {}
                      /\ entry.kind = "regex" =>
                            MatchesUpTo(entry.re, Line, MatchesNow(entry), offset)
                /\ e \notin todo /\ e # running => Finds(entry, Line, RowsNow(entry))

LinesDone ==
    \A i \in SeenLines, e \in Entries :
        Finds(config[e], lines[i], RowsIn(config[e], i))

KInv == Inputs /\ Configured /\ InOrder /\ Working /\ RowsTrue /\ AtWork /\ LinesDone
           /\ BuildFailsForCause

-----------------------------------------------------------------------------
(* The search of RegExpIndexer::index()                                     *)

LEMMA NoMatchYet ==
    ASSUME NEW re, IsRegExp(re), NEW line \in Seq(Nat)
    PROVE  MatchesUpTo(re, line, {}, 0)
<1>1. ASSUME NEW c \in Candidates(re, line, TRUE), c[1] < 0 PROVE FALSE
  <2>1. c[1] \in Nat
    BY CandidateAt
  <2> QED
    BY <1>1, <2>1
<1> QED
  BY <1>1 DEF MatchesUpTo

LEMMA OneMatchMore ==
    ASSUME NEW re, IsRegExp(re), NEW line \in Seq(Nat), NEW start \in 0 .. Len(line),
           NEW spans, MatchesUpTo(re, line, spans, start), NEW c, IsNext(re, line, start, c)
    PROVE  MatchesUpTo(re, line, spans \cup {<<c[1], MatchEnd(c)>>}, MatchEnd(c))
<1> DEFINE all == Candidates(re, line, TRUE)
           span == <<c[1], MatchEnd(c)>>
           more == spans \cup {span}
<1>1. /\ c \in all /\ c[1] >= start
      /\ \A d \in all : d[1] >= start => c[1] <= d[1]
  BY DEF IsNext
<1>2. /\ \A s \in spans : \E d \in all : s = <<d[1], MatchEnd(d)>> /\ MatchEnd(d) <= start
      /\ \A d \in all : d[2].text # <<>> /\ d[1] < start =>
            \E s \in spans : s[1] <= d[1] /\ d[1] < s[2]
      /\ \A s, t \in spans : s = t \/ s[2] <= t[1] \/ t[2] <= s[1]
  BY DEF MatchesUpTo
<1>3. \A d \in all : d[1] \in Nat /\ MatchEnd(d) \in Nat /\ d[1] <= MatchEnd(d)
  <2> TAKE d \in all
  <2> DEFINE k == Len(d[2].text)
  <2>1. d[1] \in Nat /\ k \in Nat
    BY CandidateAt
  <2>2. MatchEnd(d) = d[1] + k
    BY DEF MatchEnd
  <2> HIDE DEF k, all
  <2> QED
    BY <2>1, <2>2
<1> HIDE DEF all
<1>4. \A s \in spans : s[2] <= start /\ s[2] \in Nat
  <2> TAKE s \in spans
  <2>1. PICK d \in all : s = <<d[1], MatchEnd(d)>> /\ MatchEnd(d) <= start
    BY <1>2
  <2> QED
    BY <1>3, <2>1
<1>5. c[1] \in Nat /\ MatchEnd(c) \in Nat /\ c[1] <= MatchEnd(c) /\ start \in Nat
  BY <1>1, <1>3
<1>6. span[1] = c[1] /\ span[2] = MatchEnd(c) /\ span = <<c[1], MatchEnd(c)>>
  OBVIOUS
<1> HIDE DEF span
<1>7. ASSUME NEW s \in more
      PROVE  \E d \in all : s = <<d[1], MatchEnd(d)>> /\ MatchEnd(d) <= MatchEnd(c)
  <2>1. CASE s \in spans
    <3>1. PICK d \in all : s = <<d[1], MatchEnd(d)>> /\ MatchEnd(d) <= start
      BY <1>2, <2>1
    <3>2. MatchEnd(d) <= MatchEnd(c)
      BY <1>1, <1>3, <1>5, <3>1
    <3> QED
      BY <3>1, <3>2
  <2>2. CASE s = span
    <3>1. MatchEnd(c) <= MatchEnd(c)
      BY <1>5
    <3> QED
      BY <1>1, <1>6, <2>2, <3>1
  <2> QED
    BY <2>1, <2>2
<1>8. ASSUME NEW d \in all, d[2].text # <<>>, d[1] < MatchEnd(c)
      PROVE  \E s \in more : s[1] <= d[1] /\ d[1] < s[2]
  <2>1. CASE d[1] < start
    BY <1>2, <1>8, <2>1
  <2>2. CASE ~(d[1] < start)
    <3>1. c[1] <= d[1]
      <4>1. d[1] >= start
        BY <1>3, <1>5, <2>2
      <4> QED
        BY <1>1, <4>1
    <3>2. span \in more /\ span[1] <= d[1] /\ d[1] < span[2]
      BY <1>6, <1>8, <3>1
    <3> QED
      BY <3>2
  <2> QED
    BY <2>1, <2>2
<1>9. \A s \in spans : s[2] <= span[1]
  BY <1>1, <1>4, <1>5, <1>6
<1>10. \A s, t \in more : s = t \/ s[2] <= t[1] \/ t[2] <= s[1]
  BY <1>2, <1>9
<1>11. MatchesUpTo(re, line, more, MatchEnd(c))
  <2> HIDE DEF more
  <2> QED
    BY <1>7, <1>8, <1>10 DEF MatchesUpTo, all
<1> QED
  BY <1>11 DEF span

LEMMA AllMatches ==
    ASSUME NEW entry, IsRegExp(entry.re), NEW line \in Seq(Nat), NEW start \in 0 .. Len(line),
           NEW found, MatchesUpTo(entry.re, line, {row.match : row \in found}, start),
           start >= Len(line) \/ Candidates(entry.re, From(line, start), start = 0) = {}
    PROVE  FindsMatches(entry, line, found)
<1> DEFINE re == entry.re
           all == Candidates(re, line, TRUE)
           spans == {row.match : row \in found}
<1>1. /\ \A s \in spans : \E d \in all : s = <<d[1], MatchEnd(d)>> /\ MatchEnd(d) <= start
      /\ \A d \in all : d[2].text # <<>> /\ d[1] < start =>
            \E s \in spans : s[1] <= d[1] /\ d[1] < s[2]
      /\ \A s, t \in spans : s = t \/ s[2] <= t[1] \/ t[2] <= s[1]
  BY DEF MatchesUpTo
<1>2. ASSUME NEW d \in all, d[2].text # <<>> PROVE d[1] < start
  <2>1. CASE start >= Len(line)
    <3>1. d[1] \in Nat /\ d[2].text \in Seq(Nat) /\ d[1] + Len(d[2].text) <= Len(line)
      <4>1. MatchesAt(re, line, TRUE, d[1], d[2])
        BY CandidateAt
      <4>2. d[1] \in Nat /\ d[2].text \in Seq(Nat)
        BY CandidateAt
      <4> QED
        BY <4>1, <4>2 DEF MatchesAt
    <3>2. Len(d[2].text) \in Nat /\ Len(d[2].text) # 0
      BY <1>2, <3>1
    <3> HIDE DEF all
    <3>3. Len(line) \in Nat /\ start \in Nat
      OBVIOUS
    <3> QED
      BY <2>1, <3>1, <3>2, <3>3
  <2>2. CASE Candidates(re, From(line, start), start = 0) = {}
    BY <2>2, NothingFound
  <2> QED
    BY <2>1, <2>2
<1>3. ASSUME NEW s \in spans
      PROVE  \E d \in all : d[1] = s[1] /\ d[2].text = Between(line, s)
  <2>1. PICK d \in all : s = <<d[1], MatchEnd(d)>>
    BY <1>1
  <2>2. d[2].text = Between(line, <<d[1], d[1] + Len(d[2].text)>>)
    <3>1. MatchesAt(re, line, TRUE, d[1], d[2])
      BY CandidateAt
    <3> QED
      BY <3>1 DEF MatchesAt
  <2>3. s[1] = d[1] /\ Between(line, s) = d[2].text
    BY <2>1, <2>2 DEF MatchEnd
  <2> QED
    BY <2>3
<1> HIDE DEF spans, all
<1>4. \A d \in all : d[2].text # <<>> => \E s \in spans : s[1] <= d[1] /\ d[1] < s[2]
  BY <1>1, <1>2
<1> QED
  BY <1>1, <1>3, <1>4 DEF FindsMatches, spans, all

-----------------------------------------------------------------------------
(* What a row tells of                                                      *)

IsSpan(line, span) ==
    /\ span = <<span[1], span[2]>>
    /\ span[1] \in 0 .. Len(line) /\ span[2] \in span[1] .. Len(line)

LEMMA TextOf ==
    ASSUME NEW line \in Seq(Nat), NEW span, IsSpan(line, span),
           NEW text, text = Between(line, span)
    PROVE  text \in Seq(Nat) /\ text = Between(line, <<span[1], span[1] + Len(text)>>)
<1> DEFINE i == span[1]
           j == span[2]
<1>1. i \in 0 .. Len(line) /\ j \in i .. Len(line) /\ text = Between(line, <<i, j>>)
  BY DEF IsSpan
<1> HIDE DEF i, j
<1>2. text \in Seq(Nat) /\ Len(text) = j - i
  BY <1>1, PartOf
<1>3. i + (j - i) = j
  BY <1>1
<1>4. text = Between(line, <<i, i + Len(text)>>)
  BY <1>1, <1>2, <1>3
<1> QED
  BY <1>2, <1>4 DEF i

LEMMA FieldType ==
    ASSUME NEW separator \in Seq(Nat), NEW line \in Seq(Nat), NEW field \in Int,
           NEW span \in Field(separator, field, line)
    PROVE  IsSpan(line, span)
<1> DEFINE L == Len(line)
           w == Len(separator)
           M == Max({1, field})
           P == PtrsFcn(separator, field, line)
           At(p) == Separators(separator, line, p)
<1>1. L \in Nat /\ w \in Nat
  OBVIOUS
<1>2. ASSUME NEW p \in Nat, NEW q \in At(p) PROVE q \in p .. L /\ q + w <= L /\ q \in Nat
  <2>1. q \in p .. (L - w)
    BY DEF Separators
  <2> QED
    BY <1>1, <2>1
<1>3. M \in Nat /\ M >= 1
  BY MaxOfTwo
<1>4. \A i \in 1 .. M : P[i] = IF i = 1 THEN {0} ELSE PtrsStep(separator, line, P[i - 1])
  <2>1. ArePtrs(separator, field, line, P)
    BY PtrsAre
  <2> QED
    BY <2>1, Zenon DEF ArePtrs
<1>5. \A i \in 1 .. M : P[i] \in SUBSET Nat
  BY PtrsAre
<1>6. PICK p \in P[M] : span = <<p, FieldEnd(separator, line, p)>>
  <2>1. Field(separator, field, line) =
           {<<p, FieldEnd(separator, line, p)>> :
               p \in {q \in P[M] : FieldEnd(separator, line, q) # q}}
    BY FieldIs
  <2> HIDE DEF P, M
  <2> QED
    BY <2>1
<1> HIDE DEF P, M
<1>7. M \in 1 .. M
  BY <1>3
<1>8. p \in 0 .. L
  <2>1. CASE M = 1
    BY <1>1, <1>4, <1>6, <1>7, <2>1
  <2>2. CASE M # 1
    <3>1. M - 1 \in 1 .. M
      BY <1>3, <2>2
    <3>2. p \in PtrsStep(separator, line, P[M - 1])
      BY <1>4, <1>6, <1>7, <2>2
    <3>3. PICK r \in P[M - 1] : At(r) # {} /\ p = Min(At(r)) + w
      BY <3>2 DEF PtrsStep
    <3>4. r \in Nat
      BY <1>5, <3>1
    <3>5. Min(At(r)) \in At(r)
      <4> DEFINE S == At(r)
      <4>1. S \in SUBSET Nat
        BY <1>2, <3>4
      <4> HIDE DEF S
      <4>2. S # {} => Min(S) \in S
        BY <4>1, MinLeast
      <4> QED
        BY <3>3, <4>2 DEF S
    <3>6. Min(At(r)) \in Nat /\ Min(At(r)) + w <= L
      BY <1>2, <3>4, <3>5
    <3> QED
      BY <1>1, <3>3, <3>6
  <2> QED
    BY <2>1, <2>2
<1>9. FieldEnd(separator, line, p) \in p .. L
  <2> DEFINE S == At(p) \cup {L}
  <2>1. FieldEnd(separator, line, p) = Min(S)
    BY DEF FieldEnd
  <2>2. \A q \in At(p) : q \in p .. L
    BY <1>2, <1>8
  <2>3. L \in p .. L
    BY <1>1, <1>8
  <2>4. S \in SUBSET Nat /\ S \in SUBSET (p .. L) /\ S # {}
    BY <1>8, <2>2, <2>3
  <2> HIDE DEF S
  <2>5. Min(S) \in S
    BY <2>4, MinLeast
  <2> QED
    BY <2>1, <2>4, <2>5
<1>10. span[1] = p /\ span[2] = FieldEnd(separator, line, p) /\ span = <<span[1], span[2]>>
  BY <1>6
<1> QED
  BY <1>8, <1>9, <1>10 DEF IsSpan

LEMMA MatchOccurs ==
    ASSUME NEW entry, entry.kind = "regex", NEW line,
           NEW c \in Candidates(entry.re, line, TRUE), NEW key,
           KeysOfCandidate(entry, c) = {key}
    PROVE  <<c, key>> \in Occurrences(entry, line)
<1>1. <<c, key>> \in {c} \X KeysOfCandidate(entry, c)
  OBVIOUS
<1> QED
  BY <1>1 DEF Occurrences

LEMMA FieldOccurs ==
    ASSUME NEW entry, entry.kind = "field", NEW line,
           NEW span \in Field(entry.separator, entry.field, line)
    PROVE  <<span, Between(line, span)>> \in Occurrences(entry, line)
BY DEF Occurrences

-----------------------------------------------------------------------------
(* The steps that change little                                             *)

\* The causes for which a build may fail, over configuration `entries`, of which `most`
\* are in use, and line m of `text`.
FailsFor(entries, text, most, m) ==
    \/ \E i \in DOMAIN entries :
          entries[i].kind = "bad"
          \/ \E j \in (1 .. most) \ {i} : entries[i].name = entries[j].name
    \/ \E e \in 1 .. most :
          LET entry == entries[e]
          IN  \/ /\ entry.kind = "regex"
                 /\ \E c \in Candidates(entry.re, text[m], TRUE) : KeysOfCandidate(entry, c) = {}
              \/ entry.numeric /\ \E o \in Occurrences(entry, text[m]) : ~IsNumeric(o[2])
              \/ /\ entry.unique
                 /\ \E i \in 1 .. m : \E o \in Occurrences(entry, text[i]),
                                         p \in Occurrences(entry, text[m]) :
                       /\ Key(entry, o[2]) = Key(entry, p[2])
                       /\ <<i, o>> # <<m, p>> \/ o[2] = <<>>

LEMMA CauseIs == BuildFailsForCause = (phase = "failed" => FailsFor(config, lines, added, n))
BY Zenon DEF BuildFailsForCause, FailsFor, HasKeyTwice, Entries, Line

LEMMA CauseThen ==
    BuildFailsForCause' = (phase' = "failed" => FailsFor(config', lines', added', n'))
BY Zenon DEF BuildFailsForCause, FailsFor, HasKeyTwice, Entries, Line

\* An exception, for a cause.
LEMMA FailedFor ==
    ASSUME KInv, Throw, UNCHANGED <<inputVars, added, n, kept>>,
           FailsFor(config, lines, added, n)
    PROVE  KInv'
<1> USE DEF KInv, Throw, inputVars
<1>1. Inputs'
  BY DEF Inputs
<1>2. Configured'
  BY DEF Configured, Entries
<1>3. InOrder'
  BY DEF InOrder
<1>4. Working'
  BY DEF Working, Nobody, Entries
<1>5. RowsTrue' /\ AtWork'
  BY DEF RowsTrue, AtWork
<1>6. LinesDone'
  BY DEF LinesDone, SeenLines
<1>7. BuildFailsForCause'
  BY CauseThen
<1> QED
  BY <1>1, <1>2, <1>3, <1>4, <1>5, <1>6, <1>7

LEMMA KInvInit == Init => KInv
<1> SUFFICES ASSUME Init PROVE KInv
  OBVIOUS
<1>1. config \in Seq(Range(config)) /\ (\A entry \in Range(config) : IsEntry(entry))
  BY KeyIndexAssumption DEF Init
<1>2. lines \in Seq(Seq(Nat)) /\ skipFirst \in Nat
  BY KeyIndexAssumption DEF Init
<1>3. Inputs
  <2>1. \A e \in 1 .. Len(config) : config[e] \in Range(config)
    BY <1>1
  <2> QED
    BY <1>1, <1>2, <2>1 DEF Inputs
<1>4. Configured /\ InOrder
  <2>1. Len(config) \in Nat /\ Len(lines) \in Nat
    BY <1>1, <1>2
  <2>2. Configured
    BY <2>1 DEF Init, Configured, Entries
  <2>3. InOrder
    BY <2>1 DEF Init, InOrder
  <2> QED
    BY <2>2, <2>3
<1>5. Working /\ RowsTrue /\ AtWork
  BY DEF Init, Working, RowsTrue, AtWork, Nobody, Entries
<1>6. LinesDone
  <2>1. SeenLines = {}
    BY DEF Init, SeenLines
  <2> QED
    BY <2>1 DEF LinesDone
<1>7. BuildFailsForCause
  BY DEF Init, BuildFailsForCause
<1> QED
  BY <1>3, <1>4, <1>5, <1>6, <1>7 DEF KInv

LEMMA AddIndexerKeeps ==
    ASSUME KInv, AddIndexer
    PROVE  KInv'
<1> DEFINE e == added + 1
<1>1. /\ phase = "configure" /\ added < Len(config) /\ added \in Nat /\ Len(config) \in Nat
      /\ rows = {} /\ n = 0 /\ e \in 1 .. Len(config) /\ e \in DOMAIN config
  BY DEF KInv, AddIndexer, Configured, Inputs
<1>2. CASE config[e].kind = "bad" \/ Named(config[e].name) # {}
  <2>1. Throw /\ UNCHANGED <<inputVars, added, n, kept>>
    BY <1>2 DEF AddIndexer
  <2>2. FailsFor(config, lines, added, n)
    <3>1. CASE config[e].kind = "bad"
      BY <1>1, <3>1 DEF FailsFor
    <3>2. CASE Named(config[e].name) # {}
      <4>1. PICK j \in 1 .. added : config[j].name = config[e].name
        BY <3>2 DEF Named, Entries
      <4>2. j \in (1 .. added) \ {e}
        BY <1>1
      <4> QED
        BY <1>1, <4>1, <4>2 DEF FailsFor
    <3> QED
      BY <1>2, <3>1, <3>2
  <2> QED
    BY <2>1, <2>2, FailedFor
<1>3. CASE config[e].kind # "bad" /\ Named(config[e].name) = {}
  <2>1. /\ added' = e /\ UNCHANGED <<inputVars, n, kept, phase, rows, todo, running, offset>>
    BY <1>3 DEF AddIndexer
  <2>2. Inputs'
    BY <2>1 DEF KInv, Inputs, inputVars
  <2>3. Configured'
    <3>1. config[e].kind \in {"regex", "field"}
      BY <1>1, <1>3 DEF KInv, Inputs, IsEntry
    <3>2. \A d \in 1 .. added : config[d].name # config[e].name
      BY <1>3 DEF Named, Entries
    <3>3. \A d \in 1 .. e : d = e \/ d \in 1 .. added
      BY <1>1
    <3>4. \A d \in 1 .. e : config[d].kind \in {"regex", "field"}
      BY <3>1, <3>3 DEF KInv, Configured, Entries
    <3>5. \A d, f \in 1 .. e : config[d].name = config[f].name => d = f
      BY <3>2, <3>3 DEF KInv, Configured, Entries
    <3>6. e \in 0 .. Len(config)
      BY <1>1
    <3> HIDE DEF e
    <3> QED
      BY <1>1, <2>1, <3>4, <3>5, <3>6 DEF Configured, Entries, inputVars
  <2>4. InOrder'
    BY <1>1, <2>1 DEF KInv, InOrder, inputVars
  <2>5. Working'
    <3>1. /\ phase' = "configure" /\ todo' = {} /\ running' = Nobody /\ offset' = 0
      BY <1>1, <2>1 DEF KInv, Working
    <3> QED
      BY <3>1 DEF Working, Nobody
  <2>6. RowsTrue' /\ AtWork'
    BY <1>1, <2>1 DEF RowsTrue, AtWork
  <2>7. LinesDone'
    <3>1. SeenLines' = {}
      BY <1>1, <2>1 DEF SeenLines
    <3> QED
      BY <3>1 DEF LinesDone
  <2>8. BuildFailsForCause'
    BY <1>1, <2>1, CauseThen
  <2> QED
    BY <2>2, <2>3, <2>4, <2>5, <2>6, <2>7, <2>8 DEF KInv
<1> QED
  BY <1>2, <1>3

LEMMA StartBuildKeeps ==
    ASSUME KInv, StartBuild
    PROVE  KInv'
<1>1. /\ phase = "configure" /\ phase' = "building" /\ added = Len(config)
      /\ rows = {} /\ n = 0 /\ todo = {} /\ running = Nobody
      /\ UNCHANGED <<inputVars, added, n, kept, todo, running, offset, rows>>
  BY DEF StartBuild, KInv, Configured, Working
<1>2. Inputs'
  BY <1>1 DEF KInv, Inputs, inputVars
<1>3. Configured'
  BY <1>1 DEF KInv, Configured, Entries, inputVars
<1>4. InOrder'
  BY <1>1 DEF KInv, InOrder, inputVars
<1>5. Working'
  BY <1>1 DEF KInv, Working, Nobody, Entries
<1>6. RowsTrue' /\ AtWork'
  BY <1>1 DEF RowsTrue, AtWork
<1>7. LinesDone'
  <2>1. SeenLines' = {}
    BY <1>1 DEF SeenLines
  <2> QED
    BY <2>1 DEF LinesDone
<1>8. BuildFailsForCause'
  BY <1>1, CauseThen
<1> QED
  BY <1>2, <1>3, <1>4, <1>5, <1>6, <1>7, <1>8 DEF KInv

LEMMA EndBuildKeeps ==
    ASSUME KInv, EndBuild
    PROVE  KInv'
<1>1. /\ phase = "building" /\ phase' = "done" /\ todo = {} /\ running = Nobody
      /\ UNCHANGED <<inputVars, added, n, kept, todo, running, offset, rows>>
  BY DEF EndBuild, KInv, Working
<1>2. Inputs'
  BY <1>1 DEF KInv, Inputs, inputVars
<1>3. Configured'
  BY <1>1 DEF KInv, Configured, Entries, inputVars
<1>4. InOrder'
  BY <1>1 DEF KInv, InOrder, inputVars
<1>5. Working'
  BY <1>1 DEF KInv, Working, Nobody, Entries
<1>6. RowsTrue'
  <2>1. \A row \in rows, i \in 1 .. n : LeadsTo(row, i) => LeadsTo(row, i)'
    BY <1>1 DEF LeadsTo
  <2>2. Entries' = Entries /\ config' = config /\ lines' = lines /\ n' = n /\ rows' = rows
    BY <1>1 DEF Entries, inputVars
  <2> QED
    BY <2>1, <2>2 DEF KInv, RowsTrue
<1>7. AtWork'
  BY <1>1 DEF AtWork
<1>8. LinesDone'
  <2>1. SeenLines' = SeenLines
    BY <1>1 DEF SeenLines, inputVars
  <2>2. \A e \in Entries, i \in SeenLines : RowsIn(config[e], i)' = RowsIn(config[e], i)
    BY <1>1 DEF RowsIn, inputVars
  <2>3. Entries' = Entries /\ config' = config /\ lines' = lines
    BY <1>1 DEF Entries, inputVars
  <2> QED
    BY <2>1, <2>2, <2>3 DEF KInv, LinesDone
<1>9. BuildFailsForCause'
  BY <1>1, CauseThen
<1> QED
  BY <1>2, <1>3, <1>4, <1>5, <1>6, <1>7, <1>8, <1>9 DEF KInv

\* Appending to the kept lines leaves what the numbers before lead to.
LEMMA Appended ==
    ASSUME NEW S, NEW s \in Seq(S), NEW x
    PROVE  /\ DOMAIN Append(s, x) = 1 .. (Len(s) + 1) /\ Len(Append(s, x)) = Len(s) + 1
           /\ DOMAIN s = 1 .. Len(s) /\ Len(s) \in Nat
           /\ Append(s, x)[Len(s) + 1] = x
           /\ \A i \in 1 .. Len(s) : Append(s, x)[i] = s[i]
OBVIOUS

LEMMA FindLineKeeps ==
    ASSUME KInv, FindLine
    PROVE  KInv'
<1>1. /\ phase = "building" /\ n < Len(lines) /\ n' = n + 1 /\ n \in Nat
      /\ UNCHANGED <<inputVars, added, running, offset, rows>>
      /\ running = Nobody /\ todo = {} /\ offset = 0
      /\ kept \in Seq(1 .. n) /\ Len(lines) \in Nat /\ skipFirst \in Nat
  BY DEF FindLine, KInv, Working, InOrder, Inputs
<1>2. Entries' = Entries /\ config' = config /\ lines' = lines /\ skipFirst' = skipFirst
  BY <1>1 DEF Entries, inputVars
<1>3. Inputs' /\ Configured'
  <2>1. phase' \in {"building", "indexing"}
    BY <1>1 DEF FindLine
  <2>2. Inputs'
    BY <1>2 DEF KInv, Inputs
  <2> QED
    BY <1>1, <1>2, <2>1, <2>2 DEF KInv, Configured
<1>4. /\ DOMAIN kept = 1 .. Len(kept) /\ Len(kept) \in Nat /\ Number = Len(kept) + 1
      /\ \A r \in DOMAIN kept : kept[r] \in 1 .. n
  BY <1>1 DEF Number
<1>5. \A row \in rows : \E e \in Entries, i \in 1 .. n :
          /\ \E o \in Occurrences(config[e], lines[i]) : TellsOf(row, config[e], lines[i], o)
          /\ row.line \in DOMAIN kept /\ kept[row.line] = i
  BY <1>1 DEF KInv, RowsTrue, LeadsTo
<1>6. CASE Number <= skipFirst
  <2>1. kept' = Append(kept, n + 1) /\ phase' = "building" /\ todo' = {}
    BY <1>1, <1>6 DEF FindLine
  <2>2. /\ DOMAIN kept' = 1 .. (Len(kept) + 1) /\ Len(kept') = Len(kept) + 1
        /\ kept'[Len(kept) + 1] = n + 1 /\ \A r \in 1 .. Len(kept) : kept'[r] = kept[r]
    BY <1>1, <2>1, Appended
  <2>3. kept' \in Seq(1 .. n')
    <3>1. kept \in Seq(1 .. (n + 1)) /\ n + 1 \in 1 .. (n + 1)
      <4>1. \A r \in DOMAIN kept : kept[r] \in 1 .. (n + 1)
        BY <1>1, <1>4
      <4> QED
        BY <1>1, <4>1
    <3> QED
      BY <1>1, <2>1, <3>1
  <2>4. InOrder'
    <3>1. ASSUME NEW i \in DOMAIN kept', NEW j \in DOMAIN kept', i < j
          PROVE  kept'[i] < kept'[j]
      <4>1. i \in 1 .. Len(kept) /\ (j \in 1 .. Len(kept) \/ j = Len(kept) + 1)
        BY <1>4, <2>2, <3>1
      <4>2. CASE j \in 1 .. Len(kept)
        BY <1>4, <2>2, <3>1, <4>1, <4>2 DEF KInv, InOrder
      <4>3. CASE j = Len(kept) + 1
        BY <1>1, <1>4, <2>2, <4>1, <4>3
      <4> QED
        BY <4>1, <4>2, <4>3
    <3>2. n' \in 0 .. Len(lines')
      BY <1>1, <1>2
    <3> QED
      BY <2>1, <2>3, <3>1, <3>2 DEF InOrder
  <2>5. Working'
    BY <1>1, <2>1 DEF Working, Nobody
  <2>6. RowsTrue'
    <3> SUFFICES ASSUME NEW row \in rows
                 PROVE  \E e \in Entries, i \in 1 .. n' :
          /\ \E o \in Occurrences(config[e], lines[i]) : TellsOf(row, config[e], lines[i], o)
          /\ LeadsTo(row, i)'
      BY <1>1, <1>2 DEF RowsTrue
    <3>1. PICK e \in Entries, i \in 1 .. n :
              /\ \E o \in Occurrences(config[e], lines[i]) :
                    TellsOf(row, config[e], lines[i], o)
              /\ row.line \in DOMAIN kept /\ kept[row.line] = i
      BY <1>5
    <3>2. i \in 1 .. n'
      BY <1>1
    <3>3. LeadsTo(row, i)'
      BY <1>4, <2>2, <3>1 DEF LeadsTo
    <3> QED
      BY <3>1, <3>2, <3>3
  <2>7. AtWork'
    BY <2>1 DEF AtWork
  <2>8. LinesDone'
    <3>1. ASSUME NEW i \in SeenLines' PROVE i \in SeenLines /\ i \in 1 .. n
      <4>1. i \in 1 .. (n + 1) /\ ~\E r \in DOMAIN kept' : r <= skipFirst /\ kept'[r] = i
        BY <1>1, <1>2, <2>1 DEF SeenLines
      <4>2. i # n + 1
        BY <1>4, <1>6, <2>2, <4>1
      <4>3. i \in 1 .. n
        BY <1>1, <4>1, <4>2
      <4>4. ~\E r \in DOMAIN kept : r <= skipFirst /\ kept[r] = i
        BY <1>4, <2>2, <4>1
      <4> QED
        BY <1>1, <4>3, <4>4 DEF SeenLines
    <3>2. ASSUME NEW i \in 1 .. n, NEW e \in Entries
          PROVE  RowsIn(config[e], i)' = RowsIn(config[e], i)
      <4>1. \A r : r \in DOMAIN kept' /\ kept'[r] = i <=> r \in DOMAIN kept /\ kept[r] = i
        BY <1>1, <1>4, <2>2
      <4> QED
        BY <1>1, <1>2, <4>1 DEF RowsIn
    <3> QED
      BY <1>2, <3>1, <3>2 DEF KInv, LinesDone
  <2>9. BuildFailsForCause'
    BY <2>1, CauseThen
  <2> QED
    BY <1>3, <2>4, <2>5, <2>6, <2>7, <2>8, <2>9 DEF KInv
<1>7. CASE ~(Number <= skipFirst)
  <2>1. kept' = kept /\ phase' = "indexing" /\ todo' = Entries /\ Number' = Number
    BY <1>1, <1>7 DEF FindLine, Number
  <2>2. InOrder'
    <3>1. n' >= 1 /\ n' \in 0 .. Len(lines') /\ Number > skipFirst
      BY <1>1, <1>2, <1>4, <1>7
    <3>2. \A r \in DOMAIN kept : kept[r] < n' /\ kept[r] \in 1 .. n'
      BY <1>1, <1>4
    <3>3. kept \in Seq(1 .. n')
      BY <1>1, <3>2
    <3> QED
      BY <1>2, <2>1, <3>1, <3>2, <3>3 DEF KInv, InOrder
  <2>3. Working'
    <3>1. running' = Nobody /\ offset' = 0 /\ Nobody \notin Entries
      BY <1>1 DEF Nobody, Entries, KInv, Configured
    <3> QED
      BY <1>2, <2>1, <3>1 DEF Working
  <2>4. RowsTrue'
    <3> SUFFICES ASSUME NEW row \in rows
                 PROVE  \E e \in Entries, i \in 1 .. n' :
          /\ \E o \in Occurrences(config[e], lines[i]) : TellsOf(row, config[e], lines[i], o)
          /\ LeadsTo(row, i)'
      BY <1>1, <1>2 DEF RowsTrue
    <3>1. PICK e \in Entries, i \in 1 .. n :
              /\ \E o \in Occurrences(config[e], lines[i]) :
                    TellsOf(row, config[e], lines[i], o)
              /\ row.line \in DOMAIN kept /\ kept[row.line] = i
      BY <1>5
    <3>2. i \in 1 .. n'
      BY <1>1
    <3>3. LeadsTo(row, i)'
      BY <2>1, <3>1 DEF LeadsTo
    <3> QED
      BY <3>1, <3>2, <3>3
  <2>5. AtWork'
    <3>1. \A e \in Entries : RowsNow(config[e])' = {}
      <4>1. \A row \in rows : row.line # Number
        BY <1>4, <1>5
      <4> QED
        BY <1>1, <2>1, <4>1 DEF RowsNow
    <3>2. \A e \in Entries' : e \in todo' /\ e # running'
      BY <1>1, <1>2, <2>1 DEF Nobody, Entries, KInv, Configured
    <3> QED
      BY <1>2, <3>1, <3>2 DEF AtWork
  <2>6. LinesDone'
    <3>1. SeenLines' = SeenLines
      <4>1. n' - 1 = n
        BY <1>1
      <4> QED
        BY <1>1, <1>2, <2>1, <4>1 DEF SeenLines
    <3>2. \A e \in Entries, i \in SeenLines : RowsIn(config[e], i)' = RowsIn(config[e], i)
      BY <1>1, <1>2, <2>1 DEF RowsIn
    <3> QED
      BY <1>2, <3>1, <3>2 DEF KInv, LinesDone
  <2>7. BuildFailsForCause'
    BY <2>1, CauseThen
  <2> QED
    BY <1>3, <2>2, <2>3, <2>4, <2>5, <2>6, <2>7 DEF KInv
<1> QED
  BY <1>6, <1>7

-----------------------------------------------------------------------------
(* The steps of the indexers                                                *)

LEMMA StartIndexerKeeps ==
    ASSUME KInv, StartIndexer
    PROVE  KInv'
<1>1. /\ phase = "indexing" /\ running = Nobody /\ offset' = 0
      /\ UNCHANGED <<inputVars, phase, added, n, kept, rows>>
  BY DEF StartIndexer
<1>2. PICK i \in todo : running' = i /\ todo' = todo \ {i}
  BY DEF StartIndexer
<1>3. /\ Entries' = Entries /\ config' = config /\ lines' = lines /\ skipFirst' = skipFirst
      /\ Number' = Number /\ Line' = Line
  BY <1>1 DEF Entries, Number, Line, inputVars
<1>4. Inputs' /\ Configured'
  <2>1. Inputs'
    BY <1>3 DEF KInv, Inputs
  <2> QED
    BY <1>1, <1>3, <2>1 DEF KInv, Configured
<1>5. InOrder'
  BY <1>1, <1>3 DEF KInv, InOrder
<1>6. Line \in Seq(Nat) /\ n \in 1 .. Len(lines)
  BY <1>1 DEF KInv, Inputs, InOrder, Line
<1>7. Working'
  <2>1. todo \subseteq Entries /\ 0 \in 0 .. Len(Line)
    BY <1>6 DEF KInv, Working
  <2> QED
    BY <1>1, <1>2, <1>3, <2>1 DEF Working, Nobody, Entries, KInv, Configured
<1>8. RowsTrue'
  <2>1. \A row \in rows, j \in 1 .. n : LeadsTo(row, j)' = LeadsTo(row, j)
    BY <1>1, <1>3 DEF LeadsTo
  <2> QED
    BY <1>1, <1>3, <2>1 DEF KInv, RowsTrue
<1>9. \A e \in Entries : /\ RowsNow(config[e])' = RowsNow(config[e])
                         /\ MatchesNow(config[e])' = MatchesNow(config[e])
  BY <1>1, <1>3 DEF RowsNow, MatchesNow
<1>10. AtWork'
  <2> SUFFICES ASSUME NEW e \in Entries
               PROVE  /\ e \in todo' => RowsNow(config[e]) = {}
                      /\ e = running' =>
                            /\ config[e].kind = "field" => RowsNow(config[e]) = {}
                            /\ config[e].kind = "regex" =>
                                  MatchesUpTo(config[e].re, Line, MatchesNow(config[e]), 0)
                      /\ e \notin todo' /\ e # running' =>
                            Finds(config[e], Line, RowsNow(config[e]))
    BY <1>1, <1>3, <1>9 DEF AtWork
  <2>1. e \in todo => RowsNow(config[e]) = {}
    BY <1>1 DEF KInv, AtWork
  <2>2. e # running
    BY <1>1 DEF Nobody, Entries, KInv, Configured
  <2>3. e \notin todo => Finds(config[e], Line, RowsNow(config[e]))
    BY <1>1, <2>2 DEF KInv, AtWork
  <2>4. ASSUME e = running', config[e].kind = "regex"
        PROVE  MatchesUpTo(config[e].re, Line, MatchesNow(config[e]), 0)
    <3>1. MatchesNow(config[e]) = {}
      BY <1>2, <2>1, <2>4 DEF MatchesNow
    <3>2. IsRegExp(config[e].re)
      BY <2>4 DEF KInv, Inputs, IsEntry, Configured, Entries
    <3> QED
      BY <1>6, <3>1, <3>2, NoMatchYet
  <2> QED
    BY <1>2, <2>1, <2>3, <2>4
<1>11. LinesDone'
  <2>1. SeenLines' = SeenLines
    BY <1>1, <1>3 DEF SeenLines
  <2>2. \A e \in Entries, j \in SeenLines : RowsIn(config[e], j)' = RowsIn(config[e], j)
    BY <1>1, <1>3 DEF RowsIn
  <2> QED
    BY <1>3, <2>1, <2>2 DEF KInv, LinesDone
<1>12. BuildFailsForCause'
  BY <1>1, CauseThen
<1> QED
  BY <1>4, <1>5, <1>7, <1>8, <1>10, <1>11, <1>12 DEF KInv

\* What the rows that the indexer at work adds leave as it was, and the rows it has then.
LEMMA RowsAdded ==
    ASSUME KInv, running # Nobody, UNCHANGED <<inputVars, phase, added, todo, n, kept>>,
           NEW new, rows' = rows \cup new,
           running' \in {running, Nobody}, offset' \in 0 .. Len(Line),
           running' = Nobody => offset' = 0,
           config[running].kind = "field" => offset' = 0,
           \A row \in new :
              /\ row.line = Number
              /\ \E o \in Occurrences(config[running], Line) :
                    TellsOf(row, config[running], Line, o),
           LET entry == config[running]
               now == RowsNow(entry) \cup new
           IN  IF running' = Nobody THEN Finds(entry, Line, now)
               ELSE /\ entry.kind = "regex"
                    /\ MatchesUpTo(entry.re, Line, {row.match : row \in now}, offset')
    PROVE  KInv'
<1>1. phase = "indexing" /\ running \in Entries /\ phase' = phase
  BY DEF KInv, Working, Nobody
<1>2. /\ Entries' = Entries /\ config' = config /\ lines' = lines /\ skipFirst' = skipFirst
      /\ Number' = Number /\ Line' = Line /\ n' = n /\ kept' = kept /\ todo' = todo
  BY DEF Entries, Number, Line, inputVars
<1>3. /\ Line \in Seq(Nat) /\ n \in 1 .. n /\ Line = lines[n]
      /\ kept \in Seq(1 .. n) /\ Number = Len(kept) + 1
  BY <1>1 DEF KInv, Inputs, InOrder, Line, Number
<1>4. \A row \in new : row.index = config[running].name
  BY DEF TellsOf
<1>5. Inputs' /\ Configured'
  <2>1. Inputs'
    BY <1>2 DEF KInv, Inputs
  <2> QED
    BY <1>1, <1>2, <2>1 DEF KInv, Configured
<1>6. InOrder'
  BY <1>1, <1>2 DEF KInv, InOrder
<1>7. Working'
  <2>1. running' \in Entries \cup {Nobody} /\ running' \notin todo
    BY <1>1, <1>2 DEF KInv, Working, Nobody, Entries, Configured
  <2>2. offset' \in 0 .. (IF running' = Nobody THEN 0 ELSE Len(Line))
    OBVIOUS
  <2>3. running' # Nobody /\ config[running'].kind = "field" => offset' = 0
    OBVIOUS
  <2> QED
    BY <1>1, <1>2, <2>1, <2>2, <2>3 DEF KInv, Working
<1>8. RowsTrue'
  <2> SUFFICES ASSUME NEW row \in rows \cup new
               PROVE  \E e \in Entries, i \in 1 .. n :
          /\ \E o \in Occurrences(config[e], lines[i]) : TellsOf(row, config[e], lines[i], o)
          /\ LeadsTo(row, i)'
    BY <1>2 DEF RowsTrue
  <2>1. \A i : LeadsTo(row, i)' = LeadsTo(row, i)
    BY <1>1, <1>2 DEF LeadsTo
  <2>2. CASE row \in rows
    BY <2>1, <2>2 DEF KInv, RowsTrue
  <2>3. CASE row \in new
    <3>1. LeadsTo(row, n)
      BY <1>1, <2>3 DEF LeadsTo
    <3>2. \E o \in Occurrences(config[running], lines[n]) :
             TellsOf(row, config[running], lines[n], o)
      BY <1>3, <2>3
    <3> QED
      BY <1>1, <1>3, <2>1, <3>1, <3>2
  <2> QED
    BY <2>2, <2>3
<1>9. ASSUME NEW e \in Entries, e # running PROVE RowsNow(config[e])' = RowsNow(config[e])
  <2>1. config[e].name # config[running].name
    BY <1>1, <1>9 DEF KInv, Configured
  <2> QED
    BY <1>2, <1>4, <2>1 DEF RowsNow
<1>10. ASSUME NEW e \in Entries, e = running
       PROVE  RowsNow(config[e])' = RowsNow(config[e]) \cup new
  <2>1. \A row \in new : row.index = config[e].name /\ row.line = Number
    BY <1>4, <1>10
  <2> QED
    BY <1>2, <2>1 DEF RowsNow
<1>11. AtWork'
  <2> SUFFICES ASSUME NEW e \in Entries
               PROVE  /\ e \in todo => RowsNow(config[e])' = {}
                      /\ e = running' =>
                            /\ config[e].kind = "field" => RowsNow(config[e])' = {}
                            /\ config[e].kind = "regex" =>
                                  MatchesUpTo(config[e].re, Line,
                                              {row.match : row \in RowsNow(config[e])'},
                                              offset')
                      /\ e \notin todo /\ e # running' =>
                            Finds(config[e], Line, RowsNow(config[e])')
    BY <1>1, <1>2 DEF AtWork, MatchesNow
  <2>1. CASE e # running
    <3>1. /\ e \in todo => RowsNow(config[e]) = {}
          /\ e \notin todo => Finds(config[e], Line, RowsNow(config[e]))
      BY <1>1, <2>1 DEF KInv, AtWork
    <3>2. e # running'
      BY <2>1 DEF Nobody, Entries, KInv, Configured
    <3> QED
      BY <1>9, <2>1, <3>1, <3>2
  <2>2. CASE e = running
    <3>1. e \notin todo /\ e # Nobody
      BY <2>2 DEF KInv, Working
    <3>2. RowsNow(config[e])' = RowsNow(config[e]) \cup new
      BY <1>10, <2>2
    <3>3. CASE running' = Nobody
      <4>1. Finds(config[e], Line, RowsNow(config[e]) \cup new)
        BY <2>2, <3>3
      <4> QED
        BY <3>1, <3>2, <3>3, <4>1
    <3>4. CASE running' = running
      <4>1. /\ config[e].kind = "regex"
            /\ MatchesUpTo(config[e].re, Line,
                           {row.match : row \in RowsNow(config[e]) \cup new}, offset')
        BY <2>2, <3>1, <3>4
      <4> QED
        BY <2>2, <3>1, <3>2, <3>4, <4>1
    <3> QED
      BY <3>3, <3>4
  <2> QED
    BY <2>1, <2>2
<1>12. LinesDone'
  <2>1. SeenLines' = SeenLines
    BY <1>1, <1>2 DEF SeenLines
  <2>2. Number \notin DOMAIN kept
    BY <1>3
  <2>3. \A e \in Entries, i \in SeenLines : RowsIn(config[e], i)' = RowsIn(config[e], i)
    BY <1>2, <2>2 DEF RowsIn
  <2> QED
    BY <1>2, <2>1, <2>3 DEF KInv, LinesDone
<1>13. BuildFailsForCause'
  BY <1>1, CauseThen
<1> QED
  BY <1>5, <1>6, <1>7, <1>8, <1>11, <1>12, <1>13 DEF KInv

\* A match of nothing gives an empty key.
LEMMA EmptyKey ==
    ASSUME NEW entry, entry.capture \in Nat, NEW c, NEW text, text = c[2].text, text = <<>>,
           Groups(c) \in Seq(SpansIn(text) \cup {Unmatched}),
           NEW key \in KeysOfCandidate(entry, c)
    PROVE  key = <<>>
<1>1. ASSUME NEW g \in Matched(c) PROVE Between(text, Groups(c)[g]) = <<>>
  <2>1. Groups(c)[g] \in SpansIn(text)
    <3>1. g \in DOMAIN Groups(c) /\ Groups(c)[g] # Unmatched
      BY DEF Matched
    <3>2. Groups(c)[g] \in SpansIn(text) \cup {Unmatched}
      BY <3>1
    <3> QED
      BY <3>1, <3>2
  <2>2. Len(text) = 0
    OBVIOUS
  <2>3. SpansIn(text) = {<<0, 0>>}
    BY <2>2 DEF SpansIn
  <2>4. Groups(c)[g] = <<0, 0>>
    BY <2>1, <2>3
  <2>5. Between(text, <<0, 0>>) = SubSeq(<<>>, 1, 0)
    BY DEF Between
  <2> QED
    BY <2>4, <2>5
<1> DEFINE M == Matched(c)
           keys == KeysOfCandidate(entry, c)
           k == entry.capture
           GroupText(g) == Between(text, Groups(c)[g])
<1>2. keys = CASE k = 0 /\ 1 \notin M -> {text}
               [] k = 0 /\ 1 \in M /\ 2 \notin M -> {GroupText(1)}
               [] k \in 1 .. (MaxMatches - 1) /\ 1 .. k \subseteq M -> {GroupText(k)}
               [] OTHER -> {}
  BY KeysOfIs
<1>3. k \in Nat /\ (k = 0 => k \notin 1 .. (MaxMatches - 1))
  BY IndexersAssumption
<1> HIDE DEF M, keys, k, GroupText
<1>4. keys = {text} \/ keys = {} \/ \E g \in M : keys = {GroupText(g)}
  <2>1. k # 0 => k \in 1 .. k
    BY <1>3
  <2> QED
    BY <1>2, <1>3, <2>1
<1> QED
  BY <1>1, <1>4 DEF M, keys, GroupText

\* A key that a handler refuses is a cause to fail.
LEMMA RefusedFor ==
    ASSUME KInv, running # Nobody, NEW entry, entry = config[running],
           NEW p \in Occurrences(entry, Line), NEW span, p[2] = Between(Line, span),
           Refused(entry, span),
           \A row \in RowsNow(entry) : row.match = PlaceOf(entry, p) => p[2] = <<>>
    PROVE  FailsFor(config, lines, added, n)
<1>1. phase = "indexing" /\ running \in Entries /\ Entries = 1 .. added /\ Line = lines[n]
  BY DEF KInv, Working, Nobody, Entries, Line
<1>2. CASE entry.numeric /\ ~IsNumeric(p[2])
  <2>1. \E o \in Occurrences(entry, lines[n]) : ~IsNumeric(o[2])
    BY <1>1, <1>2
  <2> QED
    BY <1>1, <1>2, <2>1 DEF FailsFor
<1>3. CASE entry.unique /\ \E row \in rows : row.index = entry.name /\ row.key = Key(entry, p[2])
  <2>1. PICK row \in rows : row.index = entry.name /\ row.key = Key(entry, p[2])
    BY <1>3
  <2>2. PICK e \in Entries, i \in 1 .. n :
            /\ \E o \in Occurrences(config[e], lines[i]) :
                  TellsOf(row, config[e], lines[i], o)
            /\ LeadsTo(row, i)
    BY DEF KInv, RowsTrue
  <2>3. PICK o \in Occurrences(config[e], lines[i]) : TellsOf(row, config[e], lines[i], o)
    BY <2>2
  <2>4. e = running
    <3>1. config[e].name = config[running].name
      BY <2>1, <2>3 DEF TellsOf
    <3> QED
      BY <1>1, <3>1 DEF KInv, Configured
  <2>5. o \in Occurrences(entry, lines[i]) /\ Key(entry, o[2]) = Key(entry, p[2])
    BY <2>1, <2>3, <2>4 DEF TellsOf
  <2>6. ASSUME i = n, o = p PROVE o[2] = <<>>
    <3>1. row.line = Number
      BY <1>1, <2>2, <2>6 DEF LeadsTo, KInv, InOrder
    <3>2. row \in RowsNow(entry)
      BY <2>1, <3>1 DEF RowsNow
    <3>3. row.match = PlaceOf(entry, p)
      BY <2>3, <2>4, <2>6 DEF TellsOf
    <3> QED
      BY <2>6, <3>2, <3>3
  <2>7. <<i, o>> # <<n, p>> \/ o[2] = <<>>
    BY <2>6
  <2>8. \E j \in 1 .. n : \E x \in Occurrences(entry, lines[j]),
                             y \in Occurrences(entry, lines[n]) :
           /\ Key(entry, x[2]) = Key(entry, y[2])
           /\ <<j, x>> # <<n, y>> \/ x[2] = <<>>
    BY <1>1, <2>5, <2>7
  <2> QED
    BY <1>1, <1>3, <2>8 DEF FailsFor
<1> QED
  BY <1>2, <1>3 DEF Refused

\* The row for a key is true of the line.
LEMMA RowTells ==
    ASSUME KInv, phase = "indexing", NEW entry, NEW span, IsSpan(Line, span), NEW match,
           ~Refused(entry, span), NEW o, o[2] = Between(Line, span),
           match = PlaceOf(entry, o), NEW row, row = Row(entry, span, match)
    PROVE  row.line = Number /\ row.match = match /\ TellsOf(row, entry, Line, o)
<1> DEFINE text == Between(Line, span)
<1>1. /\ row.index = entry.name /\ row.key = Key(entry, text) /\ row.line = Number
      /\ row.offset = span[1] /\ row.text = text /\ row.match = match
  BY DEF Row
<1>2. Line \in Seq(Nat)
  BY DEF KInv, Inputs, InOrder, Line
<1>3. text \in Seq(Nat) /\ text = Between(Line, <<span[1], span[1] + Len(text)>>)
  <2> HIDE DEF text
  <2>1. text = Between(Line, span)
    BY DEF text
  <2> QED
    BY <1>2, <2>1, TextOf
<1>4. entry.numeric => IsNumeric(text)
  BY DEF Refused
<1> HIDE DEF text
<1>5. o[2] = text
  BY DEF text
<1> QED
  BY <1>1, <1>3, <1>4, <1>5 DEF TellsOf

LEMMA MatchKeeps ==
    ASSUME KInv, Match
    PROVE  KInv'
<1>1. PICK entry \in {config[running]} :
         LET result == Exec(entry.re, Line, offset)
             chosen == Chosen(entry.capture, result)
         IN  IF offset >= Len(Line) \/ result = <<>> THEN IndexerReturns
             ELSE IF chosen = NoGroup THEN Throw
             ELSE AddKey(entry, Shifted(result[chosen], offset), Shifted(result[1], offset),
                         AfterMatch(entry.capture, offset, result))
  BY DEF Match
<1> DEFINE result == Exec(entry.re, Line, offset)
           chosen == Chosen(entry.capture, result)
<1>2. /\ running # Nobody /\ entry = config[running] /\ entry.kind = "regex"
      /\ UNCHANGED <<inputVars, added, n, kept>>
  BY DEF Match
<1>3. phase = "indexing" /\ running \in Entries /\ Line = lines[n] /\ Entries = 1 .. added
  BY <1>2 DEF KInv, Working, Nobody, Line, Entries
<1>4. Line \in Seq(Nat) /\ offset \in 0 .. Len(Line)
  BY <1>2, <1>3 DEF KInv, Inputs, InOrder, Working, Line
<1>5. IsRegExp(entry.re) /\ entry.capture \in Nat
  BY <1>2, <1>3 DEF KInv, Inputs, Configured, Entries, IsEntry
<1>6. MatchesUpTo(entry.re, Line, MatchesNow(entry), offset)
  BY <1>2, <1>3 DEF KInv, AtWork
<1>7. CASE offset >= Len(Line) \/ result = <<>>
  <2>1. running' = Nobody /\ offset' = 0 /\ UNCHANGED <<phase, todo, rows>>
    BY <1>1, <1>7 DEF IndexerReturns
  <2>2. offset >= Len(Line) \/ Candidates(entry.re, From(Line, offset), offset = 0) = {}
    <3>1. ASSUME result = <<>>, Candidates(entry.re, From(Line, offset), offset = 0) # {}
          PROVE  FALSE
      <4>1. PICK c : AreSpansOf(c, result)
        BY <1>4, <1>5, <3>1, ExecIs
      <4>2. Len(result) >= 1
        BY <4>1 DEF AreSpansOf
      <4> HIDE DEF result
      <4> QED
        BY <3>1, <4>2
    <3> QED
      BY <1>7, <3>1
  <2>3. FindsMatches(entry, Line, RowsNow(entry))
    <3>1. MatchesUpTo(entry.re, Line, {row.match : row \in RowsNow(entry)}, offset)
      BY <1>6 DEF MatchesNow
    <3> QED
      BY <1>4, <1>5, <2>2, <3>1, AllMatches
  <2>4. Finds(entry, Line, RowsNow(entry))
    BY <1>2, <2>3 DEF Finds
  <2> DEFINE new == {}
  <2>5. rows' = rows \cup new /\ RowsNow(entry) \cup new = RowsNow(entry)
    BY <2>1
  <2>6. offset' \in 0 .. Len(Line)
    BY <1>4, <2>1
  <2>7. UNCHANGED <<inputVars, phase, added, todo, n, kept>>
    BY <1>2, <2>1
  <2>8. \A row \in new :
              /\ row.line = Number
              /\ \E o \in Occurrences(config[running], Line) :
                    TellsOf(row, config[running], Line, o)
    OBVIOUS
  <2> HIDE DEF new
  <2> QED
    BY <1>2, <2>1, <2>4, <2>5, <2>6, <2>7, <2>8, RowsAdded
<1>8. CASE ~(offset >= Len(Line)) /\ result # <<>>
  <2>1. PICK c : /\ IsNext(entry.re, Line, offset, c)
                 /\ Shifted(result[1], offset) = <<c[1], MatchEnd(c)>>
                 /\ AfterMatch(entry.capture, offset, result) = MatchEnd(c)
                 /\ chosen = NoGroup => KeysOfCandidate(entry, c) = {}
                 /\ chosen # NoGroup =>
                       IsKeySpan(entry, Line, c, Shifted(result[chosen], offset))
    <3> HIDE DEF result
    <3>1. result = Exec(entry.re, Line, offset)
      BY DEF result
    <3> QED
      BY <1>4, <1>5, <1>8, <3>1, MatchFound
  <2>2. c \in Candidates(entry.re, Line, TRUE) /\ c[1] >= offset
    BY <2>1 DEF IsNext
  <2>3. CASE chosen = NoGroup
    <3>1. Throw
      BY <1>1, <1>8, <2>3
    <3>2. KeysOfCandidate(entry, c) = {}
      BY <2>1, <2>3
    <3>3. FailsFor(config, lines, added, n)
      <4>1. \E d \in Candidates(entry.re, lines[n], TRUE) : KeysOfCandidate(entry, d) = {}
        BY <1>3, <2>2, <3>2
      <4> HIDE DEF result, chosen
      <4> QED
        BY <1>2, <1>3, <4>1 DEF FailsFor
    <3> QED
      BY <1>2, <3>1, <3>3, FailedFor
  <2>4. CASE chosen # NoGroup
    <3> DEFINE span == Shifted(result[chosen], offset)
               match == Shifted(result[1], offset)
               text == Between(Line, span)
               o == <<c, text>>
    <3>1. AddKey(entry, span, match, MatchEnd(c))
      BY <1>1, <1>8, <2>1, <2>4
    <3>2. IsKeySpan(entry, Line, c, span) /\ match = <<c[1], MatchEnd(c)>>
      BY <2>1, <2>4
    <3> HIDE DEF result, chosen, span, match
    <3>3. IsSpan(Line, span) /\ KeysOfCandidate(entry, c) = {text}
      BY <3>2 DEF IsKeySpan, IsSpan
    <3>4. /\ c[1] \in Nat /\ Len(c[2].text) \in Nat /\ c[2].text \in Seq(Nat)
          /\ Groups(c) \in Seq(SpansIn(c[2].text) \cup {Unmatched})
      BY <1>4, <1>5, <2>2, CandidateAt
    <3>5. MatchEnd(c) \in 0 .. Len(Line)
      <4>1. MatchesAt(entry.re, Line, TRUE, c[1], c[2])
        BY <1>4, <1>5, <2>2, CandidateAt
      <4>2. c[1] + Len(c[2].text) <= Len(Line)
        BY <4>1 DEF MatchesAt
      <4> QED
        BY <1>4, <3>4, <4>2 DEF MatchEnd
    <3>6. o \in Occurrences(entry, Line) /\ o[1] = c /\ o[2] = text
      <4>1. o \in Occurrences(entry, Line)
        BY <1>2, <2>2, <3>3, MatchOccurs
      <4> QED
        BY <4>1
    <3> HIDE DEF o
    <3>7. PlaceOf(entry, o) = match
      BY <1>2, <3>2, <3>6 DEF PlaceOf
    <3>8. CASE Refused(entry, span)
      <4>1. Throw
        BY <3>1, <3>8 DEF AddKey
      <4>2. ASSUME NEW row \in RowsNow(entry), row.match = PlaceOf(entry, o)
            PROVE  o[2] = <<>>
        <5>1. row.match \in MatchesNow(entry)
          BY DEF MatchesNow
        <5>2. PICK d \in Candidates(entry.re, Line, TRUE) :
                 row.match = <<d[1], MatchEnd(d)>> /\ MatchEnd(d) <= offset
          BY <1>6, <5>1 DEF MatchesUpTo
        <5>3. <<d[1], MatchEnd(d)>> = <<c[1], MatchEnd(c)>>
          BY <3>2, <3>7, <4>2, <5>2
        <5>4. MatchEnd(c) <= offset
          BY <5>2, <5>3
        <5>5. Len(c[2].text) = 0
          BY <1>4, <2>2, <3>4, <5>4 DEF MatchEnd
        <5>6. c[2].text = <<>>
          BY <3>4, <5>5
        <5>7. text \in KeysOfCandidate(entry, c)
          BY <3>3
        <5> HIDE DEF text
        <5>8. text = <<>>
          BY <1>5, <3>4, <5>6, <5>7, EmptyKey
        <5> QED
          BY <3>6, <5>8
      <4>3. FailsFor(config, lines, added, n)
        BY <1>2, <3>6, <3>8, <4>2, RefusedFor
      <4> QED
        BY <1>2, <4>1, <4>3, FailedFor
    <3>9. CASE ~Refused(entry, span)
      <4> DEFINE r == Row(entry, span, match)
                 new == {r}
      <4>1. /\ rows' = rows \cup new /\ offset' = MatchEnd(c)
            /\ UNCHANGED <<phase, todo, running>>
        BY <3>1, <3>9 DEF AddKey
      <4>2. r.line = Number /\ r.match = match /\ TellsOf(r, entry, Line, o)
        <5> HIDE DEF r
        <5>1. r = Row(entry, span, match)
          BY DEF r
        <5> QED
          BY <1>3, <3>3, <3>6, <3>7, <3>9, <5>1, RowTells
      <4> HIDE DEF r
      <4>3. \A row \in new :
                  /\ row.line = Number
                  /\ \E p \in Occurrences(config[running], Line) :
                        TellsOf(row, config[running], Line, p)
        BY <1>2, <3>6, <4>2
      <4>4. {row.match : row \in RowsNow(entry) \cup new}
               = MatchesNow(entry) \cup {<<c[1], MatchEnd(c)>>}
        BY <3>2, <4>2 DEF MatchesNow
      <4>5. MatchesUpTo(entry.re, Line, {row.match : row \in RowsNow(entry) \cup new}, offset')
        <5>1. MatchesUpTo(entry.re, Line, MatchesNow(entry) \cup {<<c[1], MatchEnd(c)>>},
                          MatchEnd(c))
          BY <1>4, <1>5, <1>6, <2>1, OneMatchMore
        <5> QED
          BY <4>1, <4>4, <5>1
      <4> HIDE DEF new
      <4>6. UNCHANGED <<inputVars, phase, added, todo, n, kept>>
        BY <1>2, <4>1
      <4>7. offset' \in 0 .. Len(Line)
        BY <3>5, <4>1
      <4> QED
        BY <1>2, <4>1, <4>3, <4>5, <4>6, <4>7, RowsAdded
    <3> QED
      BY <3>8, <3>9
  <2> QED
    BY <2>3, <2>4
<1> QED
  BY <1>7, <1>8

LEMMA FieldsFound ==
    ASSUME NEW entry, entry.separator \in Seq(Nat), entry.field \in Int, NEW line \in Seq(Nat),
           NEW found
    PROVE  FindsField(entry, line, found)
              <=> {row.match : row \in found} = Field(entry.separator, entry.field, line)
<1>1. FindsField(entry, line, found)
         <=> {row.match : row \in found} = FieldSpans(entry.separator, entry.field, line)
  BY Zenon DEF FindsField, FieldSpans
<1>2. Field(entry.separator, entry.field, line) = FieldSpans(entry.separator, entry.field, line)
  BY FieldFound
<1> QED
  BY <1>1, <1>2, Zenon

LEMMA FindFieldKeeps ==
    ASSUME KInv, FindField
    PROVE  KInv'
<1>1. PICK entry \in {config[running]} : TRUE
  OBVIOUS
<1> DEFINE fields == Field(entry.separator, entry.field, Line)
           new == {Row(entry, span, span) : span \in fields}
<1>2. /\ running # Nobody /\ entry = config[running] /\ entry.kind = "field"
      /\ UNCHANGED <<inputVars, added, n, kept>>
  BY <1>1 DEF FindField
<1>3. phase = "indexing" /\ running \in Entries
  BY <1>2 DEF KInv, Working, Nobody
<1>4. Line \in Seq(Nat) /\ offset = 0
  BY <1>2, <1>3 DEF KInv, Inputs, InOrder, Working, Line
<1>5. entry.separator \in Seq(Nat) /\ entry.field \in Int
  BY <1>2, <1>3 DEF KInv, Inputs, Configured, Entries, IsEntry
<1>6. RowsNow(entry) = {}
  BY <1>2, <1>3 DEF KInv, AtWork
<1>7. ASSUME NEW span \in fields
      PROVE  /\ IsSpan(Line, span)
             /\ <<span, Between(Line, span)>> \in Occurrences(entry, Line)
             /\ PlaceOf(entry, <<span, Between(Line, span)>>) = span
  <2>1. IsSpan(Line, span)
    BY <1>4, <1>5, FieldType
  <2>2. <<span, Between(Line, span)>> \in Occurrences(entry, Line)
    BY <1>2, FieldOccurs
  <2>3. PlaceOf(entry, <<span, Between(Line, span)>>) = span
    BY <1>2 DEF PlaceOf
  <2> QED
    BY <2>1, <2>2, <2>3
<1>8. IF \E span \in fields : Refused(entry, span) THEN Throw
      ELSE /\ rows' = rows \cup new /\ running' = Nobody
           /\ UNCHANGED <<phase, todo, offset>>
  BY <1>2 DEF FindField
<1> HIDE DEF fields
<1>9. CASE \E span \in fields : Refused(entry, span)
  <2>1. PICK span \in fields : Refused(entry, span)
    BY <1>9
  <2> DEFINE p == <<span, Between(Line, span)>>
  <2>2. p \in Occurrences(entry, Line) /\ p[2] = Between(Line, span)
    BY <1>7
  <2> HIDE DEF p
  <2>3. FailsFor(config, lines, added, n)
    BY <1>2, <1>6, <2>1, <2>2, RefusedFor
  <2>4. Throw
    BY <1>8, <1>9
  <2> QED
    BY <1>2, <2>3, <2>4, FailedFor
<1>10. CASE ~\E span \in fields : Refused(entry, span)
  <2>1. rows' = rows \cup new /\ running' = Nobody /\ UNCHANGED <<phase, todo, offset>>
    BY <1>8, <1>10
  <2>2. ASSUME NEW span \in fields
        PROVE  /\ Row(entry, span, span).line = Number
               /\ Row(entry, span, span).match = span
               /\ \E o \in Occurrences(entry, Line) :
                     TellsOf(Row(entry, span, span), entry, Line, o)
    <3> DEFINE o == <<span, Between(Line, span)>>
               r == Row(entry, span, span)
    <3>1. o[2] = Between(Line, span) /\ o \in Occurrences(entry, Line) /\ PlaceOf(entry, o) = span
      BY <1>7
    <3> HIDE DEF o
    <3>2. IsSpan(Line, span) /\ ~Refused(entry, span)
      BY <1>7, <1>10
    <3>3. r = Row(entry, span, span)
      OBVIOUS
    <3> HIDE DEF r
    <3>4. r.line = Number /\ r.match = span /\ TellsOf(r, entry, Line, o)
      BY <1>3, <3>1, <3>2, <3>3, RowTells
    <3> QED
      BY <3>1, <3>4 DEF r
  <2>3. \A row \in new :
              /\ row.line = Number
              /\ \E o \in Occurrences(config[running], Line) :
                    TellsOf(row, config[running], Line, o)
    BY <1>2, <2>2
  <2>4. {row.match : row \in RowsNow(entry) \cup new} = fields
    <3>1. RowsNow(entry) \cup new = new
      BY <1>6
    <3>2. {row.match : row \in new} = {Row(entry, span, span).match : span \in fields}
      OBVIOUS
    <3>3. {Row(entry, span, span).match : span \in fields} = fields
      BY <2>2
    <3> QED
      BY <3>1, <3>2, <3>3
  <2> HIDE DEF new
  <2>5. Finds(entry, Line, RowsNow(entry) \cup new)
    <3>1. FindsField(entry, Line, RowsNow(entry) \cup new)
      BY <1>4, <1>5, <2>4, FieldsFound DEF fields
    <3> QED
      BY <1>2, <3>1 DEF Finds
  <2>6. UNCHANGED <<inputVars, phase, added, todo, n, kept>>
    BY <1>2, <2>1
  <2>7. offset' = 0 /\ offset' \in 0 .. Len(Line)
    BY <1>4, <2>1
  <2> QED
    BY <1>2, <2>1, <2>3, <2>5, <2>6, <2>7, RowsAdded
<1> QED
  BY <1>9, <1>10

LEMMA LineDoneKeeps ==
    ASSUME KInv, LineDone
    PROVE  KInv'
<1>1. /\ phase = "indexing" /\ running = Nobody /\ todo = {} /\ phase' = "building"
      /\ kept' = IF Consumed \/ saveAllLines THEN Append(kept, n) ELSE kept
      /\ UNCHANGED <<inputVars, added, n, todo, running, offset, rows>>
  BY DEF LineDone
<1>2. Entries' = Entries /\ config' = config /\ lines' = lines /\ skipFirst' = skipFirst
  BY <1>1 DEF Entries, inputVars
<1>3. /\ n \in 1 .. n /\ n \in Nat /\ Line = lines[n] /\ kept \in Seq(1 .. n)
      /\ Number = Len(kept) + 1 /\ Number > skipFirst /\ skipFirst \in Nat
      /\ DOMAIN kept = 1 .. Len(kept) /\ Len(kept) \in Nat
      /\ \A r \in DOMAIN kept : kept[r] < n /\ kept[r] \in 1 .. n
  BY <1>1 DEF KInv, Inputs, InOrder, Line, Number
<1>4. Inputs' /\ Configured'
  <2>1. Inputs'
    BY <1>2 DEF KInv, Inputs
  <2> QED
    BY <1>1, <1>2, <2>1 DEF KInv, Configured
<1>5. Working'
  BY <1>1, <1>2 DEF KInv, Working, Nobody
<1>6. AtWork' /\ BuildFailsForCause'
  BY <1>1, CauseThen DEF AtWork
<1>7. \A e \in Entries : Finds(config[e], Line, RowsNow(config[e]))
  <2>1. \A e \in Entries : e \notin todo /\ e # running
    BY <1>1 DEF Nobody, Entries, KInv, Configured
  <2> QED
    BY <1>1, <2>1 DEF KInv, AtWork
<1>8. ASSUME NEW i \in SeenLines'
      PROVE  i = n \/ (i \in SeenLines /\ i \in 1 .. n /\ i # n)
  <2>1. i \in 1 .. n /\ ~\E r \in DOMAIN kept' : r <= skipFirst /\ kept'[r] = i
    BY <1>1, <1>2 DEF SeenLines
  <2>2. \A r \in DOMAIN kept : r \in DOMAIN kept' /\ kept'[r] = kept[r]
    <3>1. CASE kept' = Append(kept, n)
      BY <1>3, <3>1, Appended
    <3>2. CASE kept' = kept
      BY <3>2
    <3> QED
      BY <1>1, <3>1, <3>2
  <2>3. ~\E r \in DOMAIN kept : r <= skipFirst /\ kept[r] = i
    BY <2>1, <2>2
  <2>4. i # n => i \in 1 .. (n - 1)
    BY <1>3, <2>1
  <2> QED
    BY <1>1, <2>1, <2>3, <2>4 DEF SeenLines
<1>9. CASE Consumed \/ saveAllLines
  <2>1. kept' = Append(kept, n)
    BY <1>1, <1>9
  <2>2. /\ DOMAIN kept' = 1 .. (Len(kept) + 1) /\ Len(kept') = Len(kept) + 1
        /\ kept'[Len(kept) + 1] = n /\ \A r \in 1 .. Len(kept) : kept'[r] = kept[r]
    BY <1>3, <2>1, Appended
  <2>3. InOrder'
    <3>1. kept' \in Seq(1 .. n')
      <4> DEFINE S == 1 .. n
      <4>1. kept \in Seq(S) /\ n \in S
        BY <1>3
      <4> HIDE DEF S
      <4>2. Append(kept, n) \in Seq(S)
        BY <4>1
      <4> QED
        BY <1>1, <2>1, <4>2 DEF S
    <3>2. ASSUME NEW i \in DOMAIN kept', NEW j \in DOMAIN kept', i < j
          PROVE  kept'[i] < kept'[j]
      <4>1. i \in 1 .. Len(kept) /\ (j \in 1 .. Len(kept) \/ j = Len(kept) + 1)
        BY <1>3, <2>2, <3>2
      <4>2. CASE j \in 1 .. Len(kept)
        BY <1>3, <2>2, <3>2, <4>1, <4>2 DEF KInv, InOrder
      <4>3. CASE j = Len(kept) + 1
        BY <1>3, <2>2, <4>1, <4>3
      <4> QED
        BY <4>1, <4>2, <4>3
    <3>3. n' \in 0 .. Len(lines')
      BY <1>1, <1>2 DEF KInv, InOrder
    <3> QED
      BY <1>1, <3>1, <3>2, <3>3 DEF InOrder
  <2>4. \A row : \A i \in 1 .. n : LeadsTo(row, i) => LeadsTo(row, i)'
    BY <1>1, <1>3, <2>2 DEF LeadsTo
  <2>5. RowsTrue'
    BY <1>1, <1>2, <2>4 DEF KInv, RowsTrue
  <2>6. LinesDone'
    <3> SUFFICES ASSUME NEW i \in SeenLines', NEW e \in Entries
                 PROVE  Finds(config[e], lines[i], RowsIn(config[e], i)')
      BY <1>2 DEF LinesDone
    <3>1. CASE i = n
      <4> DEFINE L == Len(kept)
      <4>1. /\ \A r \in 1 .. L : kept'[r] # n
            /\ L \in Nat /\ Number = L + 1 /\ kept'[L + 1] = n /\ DOMAIN kept' = 1 .. (L + 1)
        <5>1. \A r \in 1 .. L : kept'[r] = kept[r] /\ kept[r] < n
          BY <1>3, <2>2
        <5> QED
          BY <1>3, <2>2, <5>1
      <4> HIDE DEF L
      <4>2. \A r : r \in 1 .. (L + 1) <=> r \in 1 .. L \/ r = L + 1
        BY <4>1
      <4>3. \A r : r \in DOMAIN kept' /\ kept'[r] = n <=> r = Number
        BY <4>1, <4>2
      <4>4. RowsIn(config[e], n)' = RowsNow(config[e])
        BY <1>1, <1>2, <4>3 DEF RowsIn, RowsNow
      <4> QED
        BY <1>3, <1>7, <1>1, <3>1, <4>4
    <3>2. CASE i \in SeenLines /\ i \in 1 .. n /\ i # n
      <4>1. \A r : r \in DOMAIN kept' /\ kept'[r] = i <=> r \in DOMAIN kept /\ kept[r] = i
        BY <1>3, <2>2, <3>2
      <4>2. RowsIn(config[e], i)' = RowsIn(config[e], i)
        BY <1>1, <1>2, <4>1 DEF RowsIn
      <4> QED
        BY <3>2, <4>2 DEF KInv, LinesDone
    <3> QED
      BY <1>8, <3>1, <3>2
  <2> QED
    BY <1>4, <1>5, <1>6, <2>3, <2>5, <2>6 DEF KInv
<1>10. CASE ~(Consumed \/ saveAllLines)
  <2>1. kept' = kept /\ \A row \in rows : row.line # Number
    BY <1>1, <1>10 DEF Consumed
  <2>2. InOrder'
    BY <1>1, <1>2, <2>1 DEF KInv, InOrder
  <2>3. \A row \in rows : \A i \in 1 .. n : LeadsTo(row, i) => LeadsTo(row, i)'
    BY <2>1 DEF LeadsTo
  <2>4. RowsTrue'
    BY <1>1, <1>2, <2>3 DEF KInv, RowsTrue
  <2>5. LinesDone'
    <3> SUFFICES ASSUME NEW i \in SeenLines', NEW e \in Entries
                 PROVE  Finds(config[e], lines[i], RowsIn(config[e], i)')
      BY <1>2 DEF LinesDone
    <3>1. RowsIn(config[e], i)' = RowsIn(config[e], i)
      BY <1>1, <1>2, <2>1 DEF RowsIn
    <3>2. CASE i = n
      <4>1. RowsIn(config[e], n) = {} /\ RowsNow(config[e]) = {}
        BY <1>3, <2>1 DEF RowsIn, RowsNow
      <4> QED
        BY <1>3, <1>7, <3>1, <3>2, <4>1
    <3>3. CASE i \in SeenLines /\ i \in 1 .. n /\ i # n
      BY <3>1, <3>3 DEF KInv, LinesDone
    <3> QED
      BY <1>8, <3>2, <3>3
  <2> QED
    BY <1>4, <1>5, <1>6, <2>2, <2>4, <2>5 DEF KInv
<1> QED
  BY <1>9, <1>10

LEMMA StutterKeeps ==
    ASSUME KInv, UNCHANGED vars
    PROVE  KInv'
<1>1. /\ UNCHANGED <<config, lines, skipFirst, phase, added, n, kept, todo, running, offset,
                    rows>>
      /\ Entries' = Entries /\ Number' = Number /\ Line' = Line
  BY DEF vars, Entries, Number, Line
<1>2. Inputs' /\ Configured' /\ InOrder' /\ Working'
  <2>1. Inputs'
    BY <1>1 DEF KInv, Inputs
  <2>2. Configured' /\ InOrder' /\ Working'
    BY <1>1 DEF KInv, Configured, InOrder, Working
  <2> QED
    BY <2>1, <2>2
<1>3. RowsTrue'
  <2>1. \A row \in rows, i \in 1 .. n : LeadsTo(row, i)' = LeadsTo(row, i)
    BY <1>1 DEF LeadsTo
  <2> QED
    BY <1>1, <2>1 DEF KInv, RowsTrue
<1>4. AtWork'
  <2>1. \A e \in Entries : /\ RowsNow(config[e])' = RowsNow(config[e])
                           /\ MatchesNow(config[e])' = MatchesNow(config[e])
    BY <1>1 DEF RowsNow, MatchesNow
  <2> QED
    BY <1>1, <2>1 DEF KInv, AtWork
<1>5. LinesDone'
  <2>1. SeenLines' = SeenLines
    BY <1>1 DEF SeenLines
  <2>2. \A e \in Entries, i \in SeenLines : RowsIn(config[e], i)' = RowsIn(config[e], i)
    BY <1>1 DEF RowsIn
  <2> QED
    BY <1>1, <2>1, <2>2 DEF KInv, LinesDone
<1>6. BuildFailsForCause'
  BY <1>1, CauseIs, CauseThen DEF KInv
<1> QED
  BY <1>2, <1>3, <1>4, <1>5, <1>6 DEF KInv

LEMMA KInvNext == KInv /\ [Next]_vars => KInv'
<1> SUFFICES ASSUME KInv, [Next]_vars PROVE KInv'
  OBVIOUS
<1>1. CASE AddIndexer
  BY <1>1, AddIndexerKeeps
<1>2. CASE StartBuild
  BY <1>2, StartBuildKeeps
<1>3. CASE FindLine
  BY <1>3, FindLineKeeps
<1>4. CASE StartIndexer
  BY <1>4, StartIndexerKeeps
<1>5. CASE Match
  BY <1>5, MatchKeeps
<1>6. CASE FindField
  BY <1>6, FindFieldKeeps
<1>7. CASE LineDone
  BY <1>7, LineDoneKeeps
<1>8. CASE EndBuild
  BY <1>8, EndBuildKeeps
<1>9. CASE UNCHANGED vars
  BY <1>9, StutterKeeps
<1> QED
  BY <1>1, <1>2, <1>3, <1>4, <1>5, <1>6, <1>7, <1>8, <1>9, Zenon DEF Next

\* Every build keeps its rows true, its search complete up to where it is, and its
\* finished lines finished (the steps of Next, one lemma each).
THEOREM Invariant == Spec => []KInv
BY KInvInit, KInvNext, PTL DEF Spec

-----------------------------------------------------------------------------
(* What follows from it                                                     *)

\* The entry a row is of.
LEMMA RowOf ==
    ASSUME KInv, NEW e \in Entries, NEW row \in rows, row.index = config[e].name
    PROVE  /\ row.text \in Seq(Nat) /\ row.key = Key(config[e], row.text)
           /\ config[e].numeric => IsNumeric(row.text)
           /\ \E i \in 1 .. n :
                 /\ row.text = Between(lines[i], <<row.offset, row.offset + Len(row.text)>>)
                 /\ LeadsTo(row, i)
<1>1. PICK d \in Entries, i \in 1 .. n :
          /\ \E o \in Occurrences(config[d], lines[i]) : TellsOf(row, config[d], lines[i], o)
          /\ LeadsTo(row, i)
  BY DEF KInv, RowsTrue
<1>2. PICK o \in Occurrences(config[d], lines[i]) : TellsOf(row, config[d], lines[i], o)
  BY <1>1
<1>3. d = e
  <2>1. config[d].name = config[e].name
    BY <1>2 DEF TellsOf
  <2> QED
    BY <2>1 DEF KInv, Configured
<1> QED
  BY <1>1, <1>2, <1>3 DEF TellsOf

\* A number that fits the column becomes itself.
LEMMA FittingValue ==
    ASSUME NEW text \in Seq(Nat), Fits(text)
    PROVE  Value(text) = Number10(text)
<1>1. /\ Number10(text) \in Int /\ Value(text) \in Integer64
      /\ Value(text) = Wrapped(Number10(text))
  BY ValueIsNumber
<1> DEFINE v == Number10(text)
<1>2. v \in Integer64 /\ v \in Int /\ Word \in Int
  BY <1>1, WordIs DEF Fits
<1> HIDE DEF v
<1>3. v = v - Word * 0
  BY <1>2
<1>4. v = Wrapped(v)
  BY <1>2, <1>3, WrappedOnly
<1> QED
  BY <1>1, <1>4 DEF v

LEMMA TypesFollow == KInv => TypeOK
<1> SUFFICES ASSUME KInv PROVE TypeOK
  OBVIOUS
<1>1. ASSUME NEW row \in rows
      PROVE  /\ row.line \in 1 .. Number
             /\ \A entry \in Range(config) :
                   entry.name = row.index /\ entry.numeric => row.key[1] \in Integer64
  <2>1. added = Len(config) /\ Len(config) \in Nat /\ config \in Seq(Range(config))
    BY DEF KInv, Configured, Inputs
  <2>2. row.line \in 1 .. Number
    <3>1. PICK i \in 1 .. n : LeadsTo(row, i)
      BY DEF KInv, RowsTrue
    <3>2. kept \in Seq(1 .. n)
      BY DEF KInv, InOrder
    <3>3. DOMAIN kept = 1 .. Len(kept) /\ Len(kept) \in Nat
      BY <3>2
    <3> QED
      BY <3>1, <3>3 DEF LeadsTo, Number
  <2>3. ASSUME NEW entry \in Range(config), entry.name = row.index, entry.numeric
        PROVE  row.key[1] \in Integer64
    <3>1. PICK e \in Entries : entry = config[e]
      BY <2>1 DEF Range, Entries
    <3>2. row.text \in Seq(Nat) /\ row.key = Key(entry, row.text)
      BY <2>3, <3>1, RowOf
    <3>3. row.key = <<Value(row.text)>>
      BY <2>3, <3>2 DEF Key
    <3>4. Value(row.text) \in Integer64
      BY <3>2, ValueIsNumber
    <3> QED
      BY <3>3, <3>4
  <2> QED
    BY <2>2, <2>3
<1>2. /\ phase \in {"configure", "building", "indexing", "done", "failed"}
      /\ added \in 0 .. Len(config) /\ n \in 0 .. Len(lines)
      /\ todo \subseteq Entries /\ running \in Entries \cup {Nobody}
      /\ offset \in 0 .. (IF running = Nobody THEN 0 ELSE Len(Line))
  BY DEF KInv, Configured, InOrder, Working
<1>3. kept \in Seq(1 .. n) /\ \A i, j \in DOMAIN kept : i < j => kept[i] < kept[j]
  BY DEF KInv, InOrder
<1> QED
  BY <1>1, <1>2, <1>3 DEF TypeOK

LEMMA MatchesFollow == KInv => RowsAreTheMatches
<1> SUFFICES ASSUME KInv, NEW i \in SeenLines, NEW e \in Entries
             PROVE  LET entry == config[e]
                        found == RowsIn(entry, i)
                    IN  /\ \A row \in found : row.text =
                              Between(lines[i], <<row.offset, row.offset + Len(row.text)>>)
                        /\ entry.kind = "regex" => FindsMatches(entry, lines[i], found)
                        /\ entry.kind = "field" => FindsField(entry, lines[i], found)
  BY Zenon DEF RowsAreTheMatches
<1>1. Finds(config[e], lines[i], RowsIn(config[e], i))
  BY DEF KInv, LinesDone
<1>2. ASSUME NEW row \in RowsIn(config[e], i)
      PROVE  row.text = Between(lines[i], <<row.offset, row.offset + Len(row.text)>>)
  <2>1. /\ row \in rows /\ row.index = config[e].name
        /\ row.line \in DOMAIN kept /\ kept[row.line] = i
    BY DEF RowsIn
  <2>2. PICK j \in 1 .. n :
            /\ row.text = Between(lines[j], <<row.offset, row.offset + Len(row.text)>>)
            /\ LeadsTo(row, j)
    BY <2>1, RowOf
  <2>3. row.line # Number
    <3>1. kept \in Seq(1 .. n)
      BY DEF KInv, InOrder
    <3>2. DOMAIN kept = 1 .. Len(kept) /\ Len(kept) \in Nat
      BY <3>1
    <3> QED
      BY <2>1, <3>2 DEF Number
  <2>4. j = i
    BY <2>1, <2>2, <2>3 DEF LeadsTo
  <2> QED
    BY <2>2, <2>4
<1> QED
  BY <1>1, <1>2 DEF Finds

LEMMA QueriesFollow == KInv => QueriesFindTheirLines
<1> DEFINE Exact(entry, text) == ~entry.numeric \/ Fits(text)
           Same(entry, a, b) == IF entry.numeric THEN Number10(a) = Number10(b) ELSE a = b
           Mine(entry) == {row \in rows : row.index = entry.name}
           Alike(entry, query) == {r \in Mine(entry) : Same(entry, r.text, query)}
           Wrong(entry) == {r \in Mine(entry) : ~Exact(entry, r.text)}
<1> SUFFICES ASSUME KInv, phase = "done", NEW e \in Entries,
                    NEW q \in {row \in Mine(config[e]) : Exact(config[e], row.text)}
             PROVE  /\ {r.line : r \in Alike(config[e], q.text)} \subseteq QueryIndex(config[e], q.text)
                    /\ QueryIndex(config[e], q.text) \subseteq
                          {r.line : r \in Alike(config[e], q.text) \cup Wrong(config[e])}
  <2>1. ASSUME phase = "done", NEW e \in Entries,
               NEW query \in {row.text : row \in {r \in Mine(config[e]) : Exact(config[e], r.text)}},
               \A q \in {row \in Mine(config[e]) : Exact(config[e], row.text)} :
                  /\ {r.line : r \in Alike(config[e], q.text)} \subseteq QueryIndex(config[e], q.text)
                  /\ QueryIndex(config[e], q.text) \subseteq
                        {r.line : r \in Alike(config[e], q.text) \cup Wrong(config[e])}
        PROVE  /\ {r.line : r \in Alike(config[e], query)} \subseteq QueryIndex(config[e], query)
               /\ QueryIndex(config[e], query) \subseteq
                     {r.line : r \in Alike(config[e], query) \cup Wrong(config[e])}
    <3>1. PICK q \in {row \in Mine(config[e]) : Exact(config[e], row.text)} : query = q.text
      BY <2>1
    <3> QED
      BY <2>1, <3>1, Zenon
  <2> QED
    BY <2>1, Zenon DEF QueriesFindTheirLines
<1> DEFINE entry == config[e]
<1>1. entry.numeric \in BOOLEAN
  BY DEF KInv, Inputs, Configured, Entries, IsEntry
<1>2. /\ q \in Mine(entry) /\ Exact(entry, q.text) /\ q.text \in Seq(Nat)
      /\ entry.numeric => IsNumeric(q.text)
  <2>1. q \in rows /\ q.index = config[e].name
    OBVIOUS
  <2> QED
    BY <2>1, RowOf
<1>3. ASSUME NEW r \in Mine(entry)
      PROVE  /\ Same(entry, r.text, q.text) => Answers(entry, r, q.text)
             /\ Answers(entry, r, q.text) => Same(entry, r.text, q.text) \/ ~Exact(entry, r.text)
  <2>1. r.text \in Seq(Nat) /\ r.key = Key(entry, r.text)
    <3>1. r \in rows /\ r.index = config[e].name
      OBVIOUS
    <3> QED
      BY <3>1, RowOf
  <2>2. CASE entry.numeric
    <3>1. r.key = <<Value(r.text)>> /\ (Fits(r.text) => Value(r.text) = Number10(r.text))
      <4>1. r.key = <<Value(r.text)>>
        BY <2>1, <2>2 DEF Key
      <4>2. Fits(r.text) => Value(r.text) = Number10(r.text)
        BY <2>1, FittingValue
      <4> QED
        BY <4>1, <4>2
    <3>2. Answers(entry, r, q.text) <=> r.key = <<Number10(q.text)>>
      BY <1>2, <2>2 DEF Answers
    <3>3. Answers(entry, r, q.text) <=> Value(r.text) = Number10(q.text)
      BY <3>1, <3>2
    <3>4. Number10(r.text) = Number10(q.text) => Fits(r.text)
      BY <1>2, <2>2 DEF Fits
    <3> QED
      BY <2>2, <3>1, <3>3, <3>4
  <2>3. CASE ~entry.numeric
    BY <2>1, <2>3 DEF Answers, Key
  <2> QED
    BY <2>2, <2>3
<1>4. QueryIndex(entry, q.text) = {r.line : r \in {x \in Mine(entry) : Answers(entry, x, q.text)}}
  <2>1. {x \in Mine(entry) : Answers(entry, x, q.text)}
           = {x \in rows : x.index = entry.name /\ Answers(entry, x, q.text)}
    OBVIOUS
  <2> QED
    BY <2>1 DEF QueryIndex
<1> HIDE DEF Mine, Same, Exact, entry
<1> QED
  BY <1>3, <1>4 DEF entry

\* The values each variable takes.
THEOREM TypeCorrect == Spec => []TypeOK
BY Invariant, TypesFollow, PTL

\* The rows of the index tables say where the keys are (RegExpIndexer::index(),
\* FieldIndexer::index(), the handlers' add(), onLine()).
THEOREM RowsCorrect == Spec => []RowsAreTheMatches
BY Invariant, MatchesFollow, PTL

\* A query finds the lines with its key (queryIndex(), NumericHandler::add()).
THEOREM QueriesCorrect == Spec => []QueriesFindTheirLines
BY Invariant, QueriesFollow, PTL

\* A build fails only for a cause (addIndexer(), RegExpIndexer::index(), add()).
THEOREM FailsOnlyForCause == Spec => []BuildFailsForCause
<1>1. KInv => BuildFailsForCause
  BY DEF KInv
<1> QED
  BY <1>1, Invariant, PTL
=============================================================================
