-------------------------- MODULE ResponseHeadProofs -------------------------
(***************************************************************************)
(* What TLAPS proves of ResponseHead, for any codes, reasons and header    *)
(* lines and heads of any length: what is read of the head is what the     *)
(* server says, but for the lines that a missing space costs.              *)
(***************************************************************************)
EXTENDS ResponseHead, SequenceLemmas

Texts == Seq(Letters \cup {"CR", "LF"})

HeadTypeOK ==
    /\ code \in DOMAIN Codes /\ reason \in {<<>>} \cup {<<r>> : r \in Reasons}
    /\ lines \in Seq(Lines) /\ starts \in Seq(Nat \ {0})
    /\ header_str \in Texts
    /\ phase \in {"sending", "headers", "read"} /\ start_pos \in Nat

\* The lines of the head, the status line first, and the positions of their first
\* and last characters in it, from 1 on.
Part(k)  == IF k = 0 THEN StatusLine ELSE LineText(lines[k])
Begin(k) == IF k = 0 THEN 1 ELSE starts[k]
Edge(k)  == Begin(k) + Len(Part(k)) - 1

\* The lines lie in the head one behind the other, with a line end between them.
TextInv ==
    /\ Len(starts) = Len(lines)
    /\ Edge(Len(lines)) = Len(header_str) /\ Len(header_str) < Width
    /\ \A k \in 0..Len(lines) :
          /\ \A i \in 1..Len(Part(k)) : header_str[Begin(k) + i - 1] = Part(k)[i]
          /\ k < Len(lines) =>
                /\ Begin(k + 1) = Edge(k) + 3
                /\ header_str[Edge(k) + 1] = "CR" /\ header_str[Edge(k) + 2] = "LF"
          /\ \A l \in (k + 1)..Len(lines) : Edge(k) + 2 < Begin(l)
    /\ \A p \in 1..Len(header_str) : \E k \in 0..Len(lines) : p \in Begin(k)..(Edge(k) + 2)

StatusInv ==
    /\ status = IF phase = "sending" THEN NoStatus ELSE Codes[code]
    /\ raised => phase = "read" /\ status \notin 200..299

\* Before a round of split the lines up to the one that starts there are read; or
\* nothing is, and the round starts in the status line.
PlaceInv ==
    /\ phase = "sending" => headers = [k \in {} |-> <<>>]
    /\ phase = "headers" =>
          \/ /\ start_pos = 1 /\ LinesLost = 0 /\ (reason = <<>> \/ lines = <<>>)
             /\ headers = [k \in {} |-> <<>>]
          \/ \E k \in (LinesLost + 1)..Len(lines) :
                start_pos = Begin(k) - 1 /\ HeadersAre(k - 1)
    /\ phase = "read" => Misread \/ HeadersAre(Len(lines))

HeadInv == HeadTypeOK /\ TextInv /\ StatusInv /\ PlaceInv
------------------------------------------------------------------------------
(* Texts, and searching them.                                                *)

LEMMA Alphabet ==
    /\ "CR" \notin Letters /\ "LF" \notin Letters /\ "SP" \in Letters /\ ":" \in Letters
    /\ "HTTP/1.1" \in Letters /\ DOMAIN Codes \subseteq Letters
    /\ \A c \in Solid : c \in Letters /\ c \notin Spaces /\ c # ":" /\ c # "SP"
BY LettersAssumption DEF Solid, Spaces

LEMMA PieceIs ==
    ASSUME NEW S, NEW s \in Seq(S), NEW a \in Nat \ {0}, NEW b \in Nat, a <= b + 1, b <= Len(s)
    PROVE  /\ SubSeq(s, a, b) \in Seq(S) /\ Len(SubSeq(s, a, b)) = b + 1 - a
           /\ \A i \in 1..(b + 1 - a) : SubSeq(s, a, b)[i] = s[a + i - 1]
<1>1. Len(s) \in Nat /\ \A i \in 1..Len(s) : s[i] \in S
  BY ElementOfSeq
<1>2. \A i \in a..b : s[i] \in S
  BY <1>1
<1>3. PICK t : t = SubSeq(s, a, b)
  OBVIOUS
<1>4. PICK m \in Int, n \in Int : m = a /\ n = b
  OBVIOUS
<1>5. /\ t \in Seq(S) /\ Len(t) = IF m <= n THEN n - m + 1 ELSE 0
      /\ \A i \in 1..(n - m + 1) : t[i] = s[m + i - 1]
  BY <1>2, <1>3, <1>4, SubSeqProperties
<1> QED
  BY <1>3, <1>4, <1>5

\* A piece is what lies there.
LEMMA PieceEquals ==
    ASSUME NEW S, NEW s \in Seq(S), NEW a \in Nat \ {0}, NEW b \in Nat, a <= b + 1, b <= Len(s),
           NEW t \in Seq(S), Len(t) = b + 1 - a, \A i \in 1..Len(t) : s[a + i - 1] = t[i]
    PROVE  SubSeq(s, a, b) = t
<1>1. PICK u : u = SubSeq(s, a, b)
  OBVIOUS
<1>2. u \in Seq(S) /\ Len(u) = b + 1 - a /\ \A i \in 1..(b + 1 - a) : u[i] = s[a + i - 1]
  BY <1>1, PieceIs
<1>3. \A i \in 1..Len(u) : u[i] = t[i]
  BY <1>2
<1> QED
  BY <1>1, <1>2, <1>3, SeqEqual

LEMMA OneThere ==
    ASSUME NEW S, NEW s \in Seq(S), NEW c \in S, NEW from \in Nat
    PROVE  Occurrences(s, <<c>>, from) = {i \in from..(Len(s) - 1) : s[i + 1] = c}
<1>1. PICK t : t = <<c>>
  OBVIOUS
<1>2. t \in Seq(S) /\ Len(t) = 1 /\ t[1] = c
  BY <1>1, ShortSequences
<1>3. ASSUME NEW i \in from..(Len(s) - 1)
      PROVE  SubSeq(s, i + 1, i + 1) = t <=> s[i + 1] = c
  <2>1. i + 1 \in Nat \ {0} /\ i + 1 <= Len(s) /\ i + 1 + 1 - (i + 1) = 1 /\ 1 \in 1..1
    OBVIOUS
  <2>2. PICK u : u = SubSeq(s, i + 1, i + 1)
    OBVIOUS
  <2>3. u \in Seq(S) /\ Len(u) = 1 /\ u[1] = s[i + 1]
    <3>1. PICK n \in Nat \ {0} : n = i + 1
      OBVIOUS
    <3>2. n <= n + 1 /\ n <= Len(s) /\ n + 1 - n = 1 /\ n + 1 - 1 = n /\ 1 \in 1..1
      BY <2>1, <3>1
    <3>3. /\ SubSeq(s, n, n) \in Seq(S) /\ Len(SubSeq(s, n, n)) = n + 1 - n
          /\ \A k \in 1..(n + 1 - n) : SubSeq(s, n, n)[k] = s[n + k - 1]
      BY ONLY <3>2, PieceIs, n \in Nat \ {0}, s \in Seq(S)
    <3> QED
      BY <2>2, <3>1, <3>2, <3>3
  <2>4. s[i + 1] = c => u = t
    <3>1. \A k \in 1..1 : k = 1
      OBVIOUS
    <3> QED
      BY <1>2, <2>3, <3>1, SeqEqual
  <2> QED
    BY <1>2, <2>2, <2>3, <2>4
<1> QED
  BY <1>1, <1>2, <1>3 DEF Occurrences

LEMMA LineEndThere ==
    ASSUME NEW s \in Texts, NEW from \in Nat
    PROVE  Occurrences(s, CRLF, from) =
              {i \in from..(Len(s) - 2) : s[i + 1] = "CR" /\ s[i + 2] = "LF"}
<1> DEFINE S == Letters \cup {"CR", "LF"}
<1>1. "CR" \in S /\ "LF" \in S /\ Texts = Seq(S)
  BY DEF Texts
<1> HIDE DEF S
<1>2. PICK t : t = CRLF
  OBVIOUS
<1>3. t \in Seq(S) /\ Len(t) = 2 /\ t[1] = "CR" /\ t[2] = "LF"
  BY <1>1, <1>2, ShortSequences DEF CRLF
<1>4. ASSUME NEW i \in from..(Len(s) - 2)
      PROVE  SubSeq(s, i + 1, i + 2) = t <=> s[i + 1] = "CR" /\ s[i + 2] = "LF"
  <2>1. PICK a \in Nat \ {0}, b \in Nat : a = i + 1 /\ b = i + 2
    OBVIOUS
  <2>2. a <= b + 1 /\ b <= Len(s) /\ b + 1 - a = 2 /\ a + 1 - 1 = i + 1 /\ a + 2 - 1 = i + 2
    BY <2>1, <1>1
  <2>3. PICK u : u = SubSeq(s, a, b)
    OBVIOUS
  <2>4. /\ u \in Seq(S) /\ Len(u) = b + 1 - a
        /\ \A k \in 1..(b + 1 - a) : u[k] = s[a + k - 1]
    BY <1>1, <2>2, <2>3, PieceIs
  <2>5. 1 \in 1..2 /\ 2 \in 1..2
    OBVIOUS
  <2>6. Len(u) = 2 /\ u[1] = s[i + 1] /\ u[2] = s[i + 2]
    BY <2>2, <2>4, <2>5
  <2>7. s[i + 1] = "CR" /\ s[i + 2] = "LF" => u = t
    BY <1>3, <2>4, <2>6, TwoIndices, SeqEqual
  <2> QED
    BY <1>3, <2>1, <2>3, <2>6, <2>7
<1> QED
  BY <1>2, <1>3, <1>4 DEF Occurrences

LEMMA FindIs ==
    ASSUME NEW s, NEW sub, NEW from \in Nat, Occurrences(s, sub, from) \subseteq Int
    PROVE  /\ Occurrences(s, sub, from) = {} => find(s, sub, from) = npos
           /\ \A e \in Occurrences(s, sub, from) :
                 (\A i \in Occurrences(s, sub, from) : e <= i) => find(s, sub, from) = e
BY MinIs DEF find
------------------------------------------------------------------------------
(* The lines the server sends.                                               *)

LEMMA Widened ==
    ASSUME NEW S, NEW T, S \subseteq T, NEW s \in Seq(S)
    PROVE  s \in Seq(T)
<1>1. Len(s) \in Nat /\ \A i \in 1..Len(s) : s[i] \in T
  BY ElementOfSeq
<1>2. s = [i \in 1..Len(s) |-> s[i]]
  OBVIOUS
<1> QED
  BY <1>1, <1>2

LEMMA LineIs ==
    ASSUME NEW l \in Lines
    PROVE  /\ l.key \in Seq(Solid) /\ l.between \in Seq({"SP", "TAB"}) /\ l.value \in Seq(Letters)
           /\ l.key \in Seq(Letters) /\ l.between \in Seq(Letters)
           /\ l.value # <<>> => l.value[1] \notin Spaces /\ Last(l.value) \notin Spaces
<1>1. PICK r : r = l
  OBVIOUS
<1>2. r \in [key : Seq(Solid), between : Seq({"SP", "TAB"}), value : Seq(Letters)]
  BY <1>1, LinesAssumption
<1>3. r.key \in Seq(Solid) /\ r.between \in Seq({"SP", "TAB"}) /\ r.value \in Seq(Letters)
  BY <1>2
<1>4. Solid \subseteq Letters /\ {"SP", "TAB"} \subseteq Letters
  BY LettersAssumption DEF Solid
<1> QED
  BY <1>1, <1>3, <1>4, Widened, LinesAssumption

\* The text of a line: its key, a colon, blanks and its value.
LEMMA TextOfLine ==
    ASSUME NEW l \in Lines, NEW t, t = LineText(l)
    PROVE  /\ t \in Seq(Letters)
           /\ Len(l.key) \in Nat /\ Len(l.between) \in Nat /\ Len(l.value) \in Nat
           /\ Len(t) = Len(l.key) + 1 + Len(l.between) + Len(l.value)
           /\ \A i \in 1..Len(l.key) : t[i] = l.key[i]
           /\ t[Len(l.key) + 1] = ":"
           /\ \A i \in 1..Len(l.between) : t[Len(l.key) + 1 + i] = l.between[i]
           /\ \A i \in 1..Len(l.value) :
                 t[Len(l.key) + 1 + Len(l.between) + i] = l.value[i]
<1>1. PICK a \in Seq(Letters), b \in Seq(Letters), c \in Seq(Letters), d \in Seq(Letters) :
         a = l.key /\ b = <<":">> /\ c = l.between /\ d = l.value
  BY LineIs, ShortSequences, Alphabet
<1>2. Len(b) = 1 /\ b[1] = ":"
  BY <1>1, ShortSequences, Alphabet
<1>3. <<>> \in Seq(Letters) /\ Len(<<>>) = 0
  BY EmptySeq
<1>4. t = a \o b \o c \o d
  BY <1>1 DEF LineText
<1>5. PICK ab : ab = a \o b
  OBVIOUS
<1>6. /\ ab \in Seq(Letters) /\ Len(ab) = Len(a) + Len(b)
      /\ \A i \in 1..Len(a) : ab[i] = a[i]
      /\ \A i \in 1..Len(b) : ab[Len(a) + i] = b[i]
  BY <1>5, TwoParts
<1> ab \in Seq(Letters)
  BY <1>6
<1>7. PICK abc : abc = ab \o c
  OBVIOUS
<1>8. /\ abc \in Seq(Letters) /\ Len(abc) = Len(ab) + Len(c)
      /\ \A i \in 1..Len(ab) : abc[i] = ab[i]
      /\ \A i \in 1..Len(c) : abc[Len(ab) + i] = c[i]
  BY <1>7, TwoParts
<1> abc \in Seq(Letters)
  BY <1>8
<1>9. t = abc \o d
  BY <1>4, <1>5, <1>7
<1>10. /\ t \in Seq(Letters) /\ Len(t) = Len(abc) + Len(d)
       /\ \A i \in 1..Len(abc) : t[i] = abc[i]
       /\ \A i \in 1..Len(d) : t[Len(abc) + i] = d[i]
  BY <1>9, TwoParts
<1>11. Len(a) \in Nat /\ Len(c) \in Nat /\ Len(d) \in Nat
  OBVIOUS
<1>12. /\ \A i \in 1..Len(a) : i \in 1..Len(ab) /\ i \in 1..Len(abc)
       /\ 1 \in 1..Len(b) /\ Len(a) + 1 \in 1..Len(ab) /\ Len(a) + 1 \in 1..Len(abc)
       /\ \A i \in 1..Len(c) : Len(ab) + i \in 1..Len(abc)
  BY <1>2, <1>6, <1>8, <1>11
<1>13. \A i \in 1..Len(a) : t[i] = a[i]
  BY <1>6, <1>8, <1>10, <1>12
<1>14. t[Len(a) + 1] = ":"
  BY <1>2, <1>6, <1>8, <1>10, <1>12
<1>15. \A i \in 1..Len(c) : t[Len(a) + 1 + i] = c[i]
  BY <1>2, <1>6, <1>8, <1>10, <1>12
<1>16. Len(abc) = Len(a) + 1 + Len(c)
  BY <1>2, <1>6, <1>8
<1>17. Len(t) = Len(a) + 1 + Len(c) + Len(d)
  BY <1>10, <1>16
<1> QED
  BY <1>1, <1>10, <1>11, <1>13, <1>14, <1>15, <1>16, <1>17

LEMMA StatusLineIs ==
    ASSUME HeadTypeOK, NEW t, t = StatusLine
    PROVE  /\ t \in Seq(Letters) /\ t[1] = "HTTP/1.1" /\ t[2] = "SP" /\ t[3] = code
           /\ Len(t) \in Nat /\ 3 <= Len(t)
           /\ reason = <<>> => Len(t) = 3
           /\ reason # <<>> =>
                 /\ reason[1] \in Reasons /\ reason[1] \in Seq(Letters)
                 /\ Len(t) = 4 + Len(reason[1]) /\ t[4] = "SP"
                 /\ \A i \in 1..Len(reason[1]) : t[4 + i] = reason[1][i]
<1>1. code \in Letters
  BY Alphabet DEF HeadTypeOK
<1>2. PICK a : a = <<"HTTP/1.1", "SP", code>>
  OBVIOUS
<1>3. a \in Seq(Letters) /\ Len(a) = 3 /\ a[1] = "HTTP/1.1" /\ a[2] = "SP" /\ a[3] = code
  <2>1. \A x, y, z \in Letters :
           /\ <<x, y, z>> \in Seq(Letters) /\ Len(<<x, y, z>>) = 3
           /\ <<x, y, z>>[1] = x /\ <<x, y, z>>[2] = y /\ <<x, y, z>>[3] = z
    OBVIOUS
  <2> QED
    BY <1>1, <1>2, <2>1, Alphabet, Zenon
<1> a \in Seq(Letters)
  BY <1>3
<1>4. CASE reason = <<>>
  <2>1. t = a \o <<>>
    BY <1>2, <1>4 DEF StatusLine
  <2>2. t = a
    BY <1>3, <2>1, ConcatEmptySeq
  <2> QED
    <3>1. Len(a) \in Nat /\ 3 <= Len(a)
      <4>1. Len(a) = 3
        BY <1>3
      <4> QED
        BY ONLY <4>1
    <3> QED
      BY <1>3, <1>4, <2>2, <3>1
<1>5. CASE reason # <<>>
  <2>1. reason[1] \in Reasons /\ reason[1] \in Seq(Letters)
    BY <1>5, ReasonsAssumption DEF HeadTypeOK
  <2>2. PICK r \in Seq(Letters), b \in Seq(Letters) : r = reason[1] /\ b = <<"SP">> /\ Len(b) = 1 /\ b[1] = "SP"
    BY <2>1, Alphabet, ShortSequences
  <2>3. PICK c : c = b \o r
    OBVIOUS
  <2>4. /\ c \in Seq(Letters) /\ Len(c) = Len(b) + Len(r)
        /\ \A i \in 1..Len(b) : c[i] = b[i]
        /\ \A i \in 1..Len(r) : c[Len(b) + i] = r[i]
    BY <2>3, TwoParts
  <2> c \in Seq(Letters)
    BY <2>4
  <2>5. t = a \o c
    BY <1>2, <1>5, <2>2, <2>3 DEF StatusLine
  <2>6. /\ t \in Seq(Letters) /\ Len(t) = Len(a) + Len(c)
        /\ \A i \in 1..Len(a) : t[i] = a[i]
        /\ \A i \in 1..Len(c) : t[Len(a) + i] = c[i]
    BY <2>5, TwoParts
  <2>7. /\ Len(r) \in Nat /\ 1 \in 1..3 /\ 2 \in 1..3 /\ 3 \in 1..3 /\ 1 \in 1..1 /\ 1 \in 1..(1 + Len(r))
        /\ \A i \in 1..Len(r) : 1 + i \in 1..(1 + Len(r)) /\ 3 + (1 + i) = 4 + i
    OBVIOUS
  <2>8. t[1] = "HTTP/1.1" /\ t[2] = "SP" /\ t[3] = code
    BY <1>3, <2>6, <2>7
  <2>9. c[1] = "SP" /\ \A i \in 1..Len(r) : c[1 + i] = r[i]
    BY <2>2, <2>4, <2>7
  <2>10. Len(c) = 1 + Len(r) /\ Len(t) = 4 + Len(r)
    <3>1. Len(a) = 3 /\ Len(b) = 1
      BY <1>3, <2>2
    <3> QED
      BY ONLY <2>4, <2>6, <2>7, <3>1
  <2>11. t[4] = "SP"
    <3>1. t[3 + 1] = c[1]
      BY <1>3, <2>6, <2>7, <2>10
    <3>2. 3 + 1 = 4
      OBVIOUS
    <3> QED
      BY <2>9, <3>1, <3>2
  <2>12. \A i \in 1..Len(r) : t[4 + i] = r[i]
    <3>1. \A i \in 1..Len(r) : t[3 + (1 + i)] = c[1 + i]
      BY <1>3, <2>6, <2>7, <2>10
    <3> QED
      BY <2>7, <2>9, <3>1
  <2>13. Len(t) \in Nat /\ 3 <= Len(t)
    BY ONLY <2>7, <2>10
  <2> QED
    BY <1>5, <2>1, <2>2, <2>6, <2>8, <2>10, <2>11, <2>12, <2>13
<1> QED
  BY <1>4, <1>5
------------------------------------------------------------------------------
(* Where the lines lie in the head.                                          *)

LEMMA PartIs ==
    ASSUME HeadTypeOK, NEW k \in 0..Len(lines)
    PROVE  /\ Part(k) \in Seq(Letters) /\ Len(Part(k)) \in Nat \ {0}
           /\ k # 0 => lines[k] \in Lines /\ Part(k) = LineText(lines[k])
<1>1. CASE k = 0
  <2>1. PICK t : t = StatusLine
    OBVIOUS
  <2>2. t \in Seq(Letters) /\ Len(t) \in Nat \ {0}
    <3>1. t \in Seq(Letters) /\ Len(t) \in Nat /\ 3 <= Len(t)
      BY <2>1, StatusLineIs
    <3> QED
      BY ONLY <3>1
  <2> QED
    BY <1>1, <2>1, <2>2 DEF Part
<1>2. CASE k # 0
  <2>1. lines \in Seq(Lines) /\ k \in 1..Len(lines)
    BY <1>2 DEF HeadTypeOK
  <2>2. lines[k] \in Lines
    BY <2>1, ElementOfSeq
  <2>3. PICK l \in Lines : l = lines[k]
    BY <2>2
  <2> DEFINE t == LineText(l)
  <2>4. PICK a, b, c : a = Len(l.key) /\ b = Len(l.between) /\ c = Len(l.value)
    OBVIOUS
  <2>5. /\ t \in Seq(Letters) /\ Len(t) = a + 1 + b + c
        /\ a \in Nat /\ b \in Nat /\ c \in Nat
    BY <2>3, <2>4, TextOfLine
  <2>6. Len(t) \in Nat \ {0}
    BY ONLY <2>5
  <2> QED
    BY <1>2, <2>2, <2>3, <2>5, <2>6 DEF Part
<1> QED
  BY <1>1, <1>2

LEMMA PlaceIs ==
    ASSUME HeadTypeOK, TextInv, NEW k \in 0..Len(lines)
    PROVE  /\ Len(lines) \in Nat /\ Len(header_str) \in Nat
           /\ Begin(k) \in Nat \ {0} /\ Edge(k) \in Nat
           /\ Begin(k) <= Edge(k) /\ Edge(k) = Begin(k) + Len(Part(k)) - 1
           /\ Edge(k) <= Len(header_str)
           /\ k < Len(lines) => Edge(k) + 3 <= Len(header_str)
           /\ \A p \in Begin(k)..Edge(k) :
                 header_str[p] = Part(k)[p - Begin(k) + 1] /\ header_str[p] \in Letters
<1> DEFINE n == Len(lines)
<1>1. n \in Nat /\ n \in 0..n /\ Len(header_str) \in Nat
  BY DEF HeadTypeOK, Texts
<1>2. ASSUME NEW j \in 0..n
      PROVE  /\ Begin(j) \in Nat \ {0} /\ Edge(j) \in Nat /\ Begin(j) <= Edge(j)
             /\ Edge(j) = Begin(j) + Len(Part(j)) - 1
  <2>1. Begin(j) \in Nat \ {0}
    <3>1. CASE j = 0
      BY <3>1 DEF Begin
    <3>2. CASE j # 0
      <4>1. starts \in Seq(Nat \ {0}) /\ j \in 1..Len(starts)
        BY <3>2 DEF HeadTypeOK, TextInv
      <4> QED
        BY <3>2, <4>1, ElementOfSeq DEF Begin
    <3> QED
      BY <3>1, <3>2
  <2>2. Len(Part(j)) \in Nat \ {0}
    BY PartIs
  <2> QED
    BY <2>1, <2>2 DEF Edge
<1>3. Begin(n) <= Len(header_str) /\ Edge(n) = Len(header_str)
  BY <1>1, <1>2 DEF TextInv
<1>4. k < n => Edge(k) + 2 < Begin(n)
  BY <1>1 DEF TextInv
<1>5. Edge(k) <= Len(header_str) /\ (k < n => Edge(k) + 3 <= Len(header_str))
  <2>1. Begin(n) \in Int /\ Edge(k) \in Int
    BY <1>1, <1>2
  <2> QED
    BY <1>1, <1>3, <1>4, <2>1
<1>6. ASSUME NEW p \in Begin(k)..Edge(k)
      PROVE  header_str[p] = Part(k)[p - Begin(k) + 1] /\ header_str[p] \in Letters
  <2>1. PICK i \in Int : i = p - Begin(k) + 1
    BY <1>2
  <2>2. i \in 1..Len(Part(k)) /\ Begin(k) + i - 1 = p
    BY <1>2, <2>1, PartIs
  <2>3. header_str[Begin(k) + i - 1] = Part(k)[i]
    BY <2>2 DEF TextInv
  <2>4. Part(k)[i] \in Letters
    BY <2>2, PartIs, ElementOfSeq
  <2> QED
    BY <2>1, <2>2, <2>3, <2>4
<1> QED
  BY <1>1, <1>2, <1>5, <1>6

\* A search for the end of the line that begins in a line finds it.
LEMMA EndIsFound ==
    ASSUME HeadTypeOK, TextInv, NEW k \in 0..Len(lines), NEW from \in Nat,
           Begin(k) - 1 <= from, from <= Edge(k)
    PROVE  find(header_str, CRLF, from) = IF k < Len(lines) THEN Edge(k) ELSE npos
<1> DEFINE O == Occurrences(header_str, CRLF, from)
<1>1. header_str \in Texts
  BY DEF HeadTypeOK
<1>2. O = {i \in from..(Len(header_str) - 2) : header_str[i + 1] = "CR" /\ header_str[i + 2] = "LF"}
  BY <1>1, LineEndThere
<1>3. ASSUME NEW i \in O PROVE Edge(k) <= i
  <2>1. i \in Int /\ from <= i /\ header_str[i + 1] = "CR"
    BY <1>2, PlaceIs
  <2>2. ASSUME i < Edge(k) PROVE FALSE
    <3>1. i + 1 \in Begin(k)..Edge(k)
      BY <2>1, <2>2, PlaceIs
    <3>2. header_str[i + 1] \in Letters
      BY <3>1, PlaceIs
    <3> QED
      BY <2>1, <3>2, Alphabet
  <2> QED
    BY <2>1, <2>2, PlaceIs
<1>4. O \subseteq Int
  BY <1>2, PlaceIs
<1>5. CASE k < Len(lines)
  <2>1. Edge(k) \in from..(Len(header_str) - 2)
    BY <1>5, PlaceIs
  <2>2. header_str[Edge(k) + 1] = "CR" /\ header_str[Edge(k) + 2] = "LF"
    BY <1>5 DEF TextInv
  <2>3. Edge(k) \in O
    BY <1>2, <2>1, <2>2
  <2> HIDE DEF O
  <2> QED
    BY <1>3, <1>4, <1>5, <2>3, FindIs DEF O
<1>6. CASE ~(k < Len(lines))
  <2>1. k = Len(lines)
    BY <1>6, PlaceIs
  <2>2. Edge(k) = Len(header_str)
    BY <2>1 DEF TextInv
  <2>3. O = {}
    <3>1. ASSUME NEW i \in O PROVE FALSE
      <4>1. i <= Len(header_str) - 2 /\ i \in Int
        BY <1>2, PlaceIs
      <4> QED
        BY <1>3, <2>2, <4>1, PlaceIs
    <3> QED
      BY <3>1
  <2> QED
    BY <1>4, <1>6, <2>3, FindIs
<1> QED
  BY <1>5, <1>6
------------------------------------------------------------------------------
(* The spaces of the head, and where split starts.                           *)

LEMMA HeadStarts ==
    ASSUME HeadTypeOK, TextInv
    PROVE  /\ Begin(0) = 1 /\ Part(0) = StatusLine /\ 0 \in 0..Len(lines)
           /\ Edge(0) = Len(StatusLine) /\ Edge(0) \in Nat /\ 3 <= Edge(0)
           /\ header_str[1] = "HTTP/1.1" /\ header_str[2] = "SP" /\ header_str[3] = code
           /\ code \notin Spaces /\ code # ":" /\ code # "SP"
           /\ reason = <<>> => Edge(0) = 3
           /\ reason # <<>> => 4 <= Edge(0) /\ header_str[4] = "SP"
<1>1. Begin(0) = 1 /\ Part(0) = StatusLine
  BY DEF Begin, Part
<1>2. PICK t : t = StatusLine
  OBVIOUS
<1>3. 0 \in 0..Len(lines)
  BY DEF HeadTypeOK
<1>4. Len(t) \in Nat /\ 3 <= Len(t)
  BY <1>2, StatusLineIs
<1>5. Edge(0) = Len(t)
  <2>1. Edge(0) = 1 + Len(t) - 1
    BY <1>1, <1>2 DEF Edge
  <2> QED
    BY ONLY <1>4, <2>1
<1>6. ASSUME NEW i \in 1..Len(t) PROVE header_str[i] = t[i]
  <2>1. \A p \in Begin(0)..Edge(0) : header_str[p] = Part(0)[p - Begin(0) + 1]
    BY <1>3, PlaceIs
  <2>2. i \in 1..Edge(0) /\ i - 1 + 1 = i
    BY ONLY <1>4, <1>5, i \in 1..Len(t)
  <2> QED
    BY <1>1, <1>2, <2>1, <2>2
<1>7. 1 \in 1..Len(t) /\ 2 \in 1..Len(t) /\ 3 \in 1..Len(t)
  BY ONLY <1>4
<1>8. header_str[1] = "HTTP/1.1" /\ header_str[2] = "SP" /\ header_str[3] = code
  BY <1>2, <1>6, <1>7, StatusLineIs
<1>9. code \in Solid
  BY LettersAssumption DEF HeadTypeOK
<1>10. reason = <<>> => Edge(0) = 3
  BY <1>2, <1>5, StatusLineIs
<1>11. ASSUME reason # <<>> PROVE 4 <= Edge(0) /\ header_str[4] = "SP"
  <2>1. reason[1] \in Seq(Letters) /\ Len(t) = 4 + Len(reason[1]) /\ t[4] = "SP"
    BY <1>2, <1>11, StatusLineIs
  <2>2. PICK r \in Seq(Letters) : r = reason[1]
    BY <2>1
  <2>3. Len(t) = 4 + Len(r) /\ Len(r) \in Nat
    BY <2>1, <2>2
  <2>4. 4 \in 1..Len(t) /\ 4 <= Len(t)
    BY ONLY <2>3
  <2> QED
    BY <1>5, <1>6, <2>1, <2>4
<1> QED
  BY <1>1, <1>2, <1>3, <1>4, <1>5, <1>8, <1>9, <1>10, <1>11, Alphabet

LEMMA SpacesAre ==
    ASSUME HeadTypeOK, NEW from \in Nat
    PROVE  Occurrences(header_str, <<"SP">>, from) =
              {i \in from..(Len(header_str) - 1) : header_str[i + 1] = "SP"}
<1>1. header_str \in Seq(Letters \cup {"CR", "LF"}) /\ "SP" \in Letters \cup {"CR", "LF"}
  BY Alphabet DEF HeadTypeOK, Texts
<1> QED
  BY <1>1, OneThere

LEMMA NposIs ==
    ASSUME HeadTypeOK, TextInv
    PROVE  npos \in Nat /\ Len(header_str) <= npos /\ npos + 1 = Width /\ 3 < npos
BY BoundsAssumption, PlaceIs, HeadStarts DEF npos, TextInv

LEMMA FirstSpaceIs == HeadTypeOK /\ TextInv => FirstSpace = 1
<1> SUFFICES ASSUME HeadTypeOK, TextInv PROVE FirstSpace = 1
  OBVIOUS
<1> DEFINE O == Occurrences(header_str, <<"SP">>, 0)
<1>1. O = {i \in 0..(Len(header_str) - 1) : header_str[i + 1] = "SP"}
  BY SpacesAre
<1>2. Len(header_str) \in Nat /\ 3 <= Len(header_str)
  <2>1. Edge(0) <= Len(header_str) /\ Edge(0) \in Nat /\ 3 <= Edge(0) /\ Len(header_str) \in Nat
    BY PlaceIs, HeadStarts
  <2> QED
    BY ONLY <2>1
<1>3. header_str[0 + 1] # "SP" /\ header_str[1 + 1] = "SP"
  BY HeadStarts
<1>4. 1 \in O
  BY <1>1, <1>2, <1>3
<1>5. ASSUME NEW i \in O PROVE 1 <= i
  <2>1. i \in Nat /\ i # 0
    BY <1>1, <1>2, <1>3
  <2> QED
    BY <2>1
<1>6. O \subseteq Int
  BY <1>1, <1>2
<1> QED
  BY <1>4, <1>5, <1>6, FindIs DEF FirstSpace

\* With no reason, the spaces behind the code are those of the lines.
LEMMA SpaceIsInLine ==
    ASSUME HeadTypeOK, TextInv, reason = <<>>,
           NEW i \in Occurrences(header_str, <<"SP">>, 2)
    PROVE  i \in Nat /\ \E k \in SpacedLines : Begin(k) - 1 <= i /\ i < Edge(k)
<1>1. /\ i \in Nat /\ 2 <= i /\ i + 1 <= Len(header_str) /\ header_str[i + 1] = "SP"
      /\ Len(lines) \in Nat /\ 0 \in 0..Len(lines)
  BY SpacesAre, PlaceIs, HeadStarts
<1>2. Edge(0) = 3 /\ header_str[3] # "SP"
  BY HeadStarts
<1>3. 3 < i + 1
  <2>1. i # 2
    BY <1>1, <1>2
  <2> QED
    BY <1>1, <2>1
<1>4. PICK p \in 1..Len(header_str) : p = i + 1
  BY <1>1, PlaceIs
<1>5. PICK k \in 0..Len(lines) : p \in Begin(k)..(Edge(k) + 2)
  BY DEF TextInv
<1>6. Begin(k) \in Nat /\ Edge(k) \in Nat
  BY PlaceIs
<1>7. p <= Edge(k)
  <2> SUFFICES ASSUME ~(p <= Edge(k)) PROVE FALSE
    OBVIOUS
  <2>1. CASE k < Len(lines)
    <3>1. header_str[Edge(k) + 1] = "CR" /\ header_str[Edge(k) + 2] = "LF"
      BY <2>1 DEF TextInv
    <3>2. p = Edge(k) + 1 \/ p = Edge(k) + 2
      BY <1>5, <1>6
    <3> QED
      BY <1>1, <1>4, <3>1, <3>2
  <2>2. CASE ~(k < Len(lines))
    <3>1. k = Len(lines)
      BY <1>1, <2>2
    <3>2. Edge(k) = Len(header_str)
      BY <3>1 DEF TextInv
    <3> QED
      BY <1>6, <3>2
  <2> QED
    BY <2>1, <2>2
<1>8. k # 0
  BY <1>2, <1>3, <1>4, <1>7
<1>9. k \in SpacedLines
  <2>1. PICK j \in Int : j = p - Begin(k) + 1
    BY <1>6
  <2>2. j \in 1..Len(Part(k))
    <3>1. PICK n \in Nat : n = Len(Part(k))
      BY PartIs
    <3>2. Edge(k) = Begin(k) + n - 1
      BY <3>1, PlaceIs
    <3>3. j \in 1..n
      BY ONLY <1>5, <1>6, <1>7, <2>1, <3>2, <3>1
    <3> QED
      BY ONLY <3>1, <3>3
  <2>3. header_str[p] = Part(k)[j]
    <3>1. p \in Begin(k)..Edge(k)
      BY ONLY <1>5, <1>6, <1>7
    <3> QED
      BY <2>1, <3>1, PlaceIs
  <2>4. LineText(lines[k])[j] = "SP" /\ j \in 1..Len(LineText(lines[k]))
    BY <1>1, <1>4, <1>8, <2>2, <2>3 DEF Part
  <2> QED
    BY <1>8, <2>4 DEF SpacedLines
<1> QED
  BY <1>1, <1>4, <1>5, <1>6, <1>7, <1>9

\* Where the lines with a space are, none is left out.
LEMMA SpacedIs ==
    ASSUME HeadTypeOK
    PROVE  /\ SpacedLines \subseteq 1..Len(lines) /\ Len(lines) \in Nat
           /\ SpacedLines # {} =>
                 Min(SpacedLines) \in SpacedLines /\ \A k \in SpacedLines : Min(SpacedLines) <= k
<1>1. SpacedLines \subseteq 1..Len(lines) /\ Len(lines) \in Nat
  BY DEF SpacedLines, HeadTypeOK
<1>2. SpacedLines \subseteq 0..Len(lines)
  BY <1>1
<1> QED
  BY <1>1, <1>2, MinIsLeast

\* The second space is the one before the reason; without a reason it is the first
\* one of the first line that has one.
LEMMA SecondSpaceIs ==
    ASSUME HeadTypeOK, TextInv
    PROVE  /\ reason # <<>> => SecondSpace = 3
           /\ reason = <<>> /\ SpacedLines = {} => SecondSpace = npos
           /\ reason = <<>> /\ SpacedLines # {} =>
                 /\ SecondSpace \in Nat
                 /\ Begin(Min(SpacedLines)) - 1 <= SecondSpace
                 /\ SecondSpace < Edge(Min(SpacedLines))
<1> DEFINE O == Occurrences(header_str, <<"SP">>, 2)
<1>1. SecondSpace = find(header_str, <<"SP">>, 2)
  <2>1. SizeT(FirstSpace + 1) = 2
    BY FirstSpaceIs, BoundsAssumption DEF SizeT
  <2> QED
    BY <2>1 DEF SecondSpace
<1>2. O = {i \in 2..(Len(header_str) - 1) : header_str[i + 1] = "SP"}
  BY SpacesAre
<1>3. Len(header_str) \in Nat /\ Edge(0) <= Len(header_str) /\ O \subseteq Int
  BY <1>2, PlaceIs, HeadStarts
<1>4. CASE reason # <<>>
  <2>1. 4 <= Len(header_str) /\ header_str[3 + 1] = "SP" /\ header_str[2 + 1] # "SP"
    BY <1>3, <1>4, HeadStarts
  <2>2. 3 \in O
    BY <1>2, <1>3, <2>1
  <2>3. ASSUME NEW i \in O PROVE 3 <= i
    <3>1. i \in Int /\ 2 <= i /\ i # 2
      BY <1>2, <1>3, <2>1
    <3> QED
      BY <3>1
  <2> QED
    BY <1>1, <1>3, <1>4, <2>2, <2>3, FindIs
<1>5. CASE reason = <<>> /\ SpacedLines = {}
  <2>1. O = {}
    BY <1>5, SpaceIsInLine
  <2> QED
    BY <1>1, <1>3, <1>5, <2>1, FindIs
<1>6. CASE reason = <<>> /\ SpacedLines # {}
  <2>1. PICK m \in SpacedLines : m = Min(SpacedLines) /\ \A k \in SpacedLines : m <= k
    BY <1>6, SpacedIs
  <2>2. m \in 1..Len(lines) /\ Len(lines) \in Nat
    BY SpacedIs
  <2>3. PICK j \in 1..Len(Part(m)) : Part(m)[j] = "SP"
    <3>1. m # 0
      BY <2>2
    <3>2. \E j \in 1..Len(LineText(lines[m])) : LineText(lines[m])[j] = "SP"
      BY <2>1 DEF SpacedLines
    <3> QED
      BY <3>1, <3>2 DEF Part
  <2>4. /\ Begin(m) \in Nat \ {0} /\ Edge(m) = Begin(m) + Len(Part(m)) - 1
        /\ Edge(m) <= Len(header_str) /\ Len(Part(m)) \in Nat
    BY <2>2, PlaceIs, PartIs
  <2>5. Edge(0) + 2 < Begin(m)
    BY <2>2, HeadStarts DEF TextInv
  <2>6. PICK i \in Int : i = Begin(m) + j - 2
    BY <2>4
  <2>7. header_str[i + 1] = "SP"
    <3>1. header_str[Begin(m) + j - 1] = Part(m)[j]
      BY <2>2 DEF TextInv
    <3>2. Begin(m) + j - 1 = i + 1
      BY <2>4, <2>6
    <3> QED
      BY <2>3, <3>1, <3>2
  <2>8. i \in O /\ i < Edge(m)
    <3>1. Edge(0) \in Nat /\ 3 <= Edge(0) /\ j \in Nat /\ 1 <= j /\ j <= Len(Part(m))
      BY <2>4, HeadStarts
    <3>2. 2 <= i /\ i <= Len(header_str) - 1 /\ i < Edge(m)
      BY ONLY <1>3, <2>4, <2>5, <2>6, <3>1
    <3> QED
      BY <1>2, <1>3, <2>6, <2>7, <3>2
  <2>9. O \subseteq 0..Len(header_str)
    BY <1>2, <1>3
  <2> HIDE DEF O
  <2>10. PICK e \in O : e = Min(O) /\ \A x \in O : e <= x
    BY <1>3, <2>8, <2>9, MinIsLeast
  <2>11. SecondSpace = e
    BY <1>1, <1>3, <2>10, FindIs DEF O
  <2>12. PICK k \in SpacedLines : Begin(k) - 1 <= e /\ e < Edge(k)
    BY <1>6, SpaceIsInLine DEF O
  <2>13. k \in 1..Len(lines) /\ e \in Nat /\ e <= i /\ m <= k
    BY <2>1, <2>8, <2>9, <2>10, SpacedIs
  <2>14. k = m
    <3> SUFFICES ASSUME m < k PROVE FALSE
      BY <2>2, <2>13
    <3>1. Edge(m) + 2 < Begin(k)
      BY <2>2, <2>13 DEF TextInv
    <3>2. Begin(k) \in Nat /\ Edge(m) \in Nat
      BY <2>2, <2>13, PlaceIs
    <3> QED
      BY <2>6, <2>8, <2>12, <2>13, <3>1, <3>2
  <2> QED
    BY <1>6, <2>1, <2>11, <2>12, <2>13, <2>14
<1> QED
  BY <1>4, <1>5, <1>6

\* split starts behind the lines that are lost, or in the status line.
LEMMA StartIs ==
    ASSUME HeadTypeOK, TextInv
    PROVE  \/ SizeT(FirstEol + 2) = 1 /\ LinesLost = 0 /\ (reason = <<>> \/ lines = <<>>)
           \/ /\ LinesLost + 1 \in 1..Len(lines)
              /\ SizeT(FirstEol + 2) = Begin(LinesLost + 1) - 1
<1> DEFINE n == Len(lines)
<1>1. n \in Nat /\ 0 \in 0..n
  BY HeadStarts, PlaceIs
<1>2. npos \in Nat /\ Len(header_str) <= npos /\ npos + 1 = Width /\ 3 < npos
  BY NposIs
<1>3. SizeT(npos + 2) = 1 /\ SizeT(npos + 1) = 0
  BY <1>2 DEF SizeT
<1>4. ASSUME NEW k \in 0..n, FirstEol = IF k < n THEN Edge(k) ELSE npos
      PROVE  SizeT(FirstEol + 2) = IF k < n THEN Begin(k + 1) - 1 ELSE 1
  <2>1. CASE k < n
    <3>1. Edge(k) + 3 <= Len(header_str) /\ Edge(k) \in Nat
      BY <2>1, PlaceIs
    <3>2. Begin(k + 1) = Edge(k) + 3
      BY <2>1 DEF TextInv
    <3>3. FirstEol = Edge(k)
      BY <1>4, <2>1
    <3>4. SizeT(Edge(k) + 2) = Edge(k) + 2
      BY <1>2, <3>1, PlaceIs DEF SizeT
    <3> QED
      BY <2>1, <3>1, <3>2, <3>3, <3>4
  <2>2. CASE ~(k < n)
    BY <1>3, <1>4, <2>2
  <2> QED
    BY <2>1, <2>2
<1>5. ASSUME NEW k \in 0..n, NEW from \in Nat, SizeT(SecondSpace + 1) = from,
             Begin(k) - 1 <= from, from <= Edge(k)
      PROVE  SizeT(FirstEol + 2) = IF k < n THEN Begin(k + 1) - 1 ELSE 1
  <2>1. FirstEol = IF k < n THEN Edge(k) ELSE npos
    BY <1>5, EndIsFound DEF FirstEol
  <2> QED
    BY <1>4, <2>1
<1>6. n = 0 => lines = <<>>
  BY EmptySeq DEF HeadTypeOK
<1>7. CASE reason # <<>>
  <2>1. SecondSpace = 3 /\ 4 <= Edge(0) /\ Begin(0) = 1
    BY <1>7, SecondSpaceIs, HeadStarts
  <2>2. SizeT(SecondSpace + 1) = 4
    BY <1>2, <2>1 DEF SizeT
  <2>3. SizeT(FirstEol + 2) = IF 0 < n THEN Begin(0 + 1) - 1 ELSE 1
    BY <1>1, <1>5, <2>1, <2>2
  <2>4. LinesLost = 0
    BY <1>7 DEF LinesLost
  <2> QED
    BY <1>1, <1>6, <2>3, <2>4
<1>8. CASE reason = <<>> /\ SpacedLines = {}
  <2>1. SecondSpace = npos /\ Edge(0) = 3 /\ Begin(0) = 1
    BY <1>8, SecondSpaceIs, HeadStarts
  <2>2. SizeT(FirstEol + 2) = IF 0 < n THEN Begin(0 + 1) - 1 ELSE 1
    BY <1>1, <1>3, <1>5, <2>1
  <2>3. LinesLost = 0
    BY <1>8 DEF LinesLost
  <2> QED
    BY <1>1, <1>6, <1>8, <2>2, <2>3
<1>9. CASE reason = <<>> /\ SpacedLines # {}
  <2>1. PICK m \in SpacedLines : m = Min(SpacedLines) /\ \A k \in SpacedLines : m <= k
    BY <1>9, SpacedIs
  <2>2. m \in 1..n /\ SpacedLines \subseteq 1..n
    BY SpacedIs
  <2>3. /\ SecondSpace \in Nat /\ Begin(m) - 1 <= SecondSpace /\ SecondSpace < Edge(m)
        /\ Begin(m) \in Nat /\ Edge(m) \in Nat /\ Edge(m) <= Len(header_str)
    BY <1>9, <2>1, <2>2, SecondSpaceIs, PlaceIs
  <2>4. SizeT(SecondSpace + 1) = SecondSpace + 1
    BY <1>2, <2>3, PlaceIs DEF SizeT
  <2>5. SizeT(FirstEol + 2) = IF m < n THEN Begin(m + 1) - 1 ELSE 1
    BY <1>5, <2>2, <2>3, <2>4
  <2>6. SpacedLines \subseteq {n} <=> m = n
    BY <1>1, <2>1, <2>2
  <2>7. LinesLost = IF m = n THEN 0 ELSE m
    BY <1>9, <2>1, <2>6 DEF LinesLost
  <2> QED
    BY <1>1, <1>9, <2>2, <2>5, <2>7
<1> QED
  BY <1>7, <1>8, <1>9
------------------------------------------------------------------------------
(* What is read of the status line and of a header line.                     *)

LEMMA StatusIs == HeadTypeOK /\ TextInv => StatusCode = Codes[code]
<1> SUFFICES ASSUME HeadTypeOK, TextInv PROVE StatusCode = Codes[code]
  OBVIOUS
<1>1. npos \in Nat /\ Len(header_str) <= npos /\ npos + 1 = Width /\ 3 < npos
  BY NposIs
<1>2. SecondSpace \in Nat /\ 3 <= SecondSpace /\ SecondSpace <= npos
  <2>1. CASE reason # <<>> \/ SpacedLines = {}
    BY <1>1, <2>1, SecondSpaceIs
  <2>2. CASE reason = <<>> /\ SpacedLines # {}
    <3>1. PICK m \in SpacedLines : m = Min(SpacedLines)
      BY <2>2, SpacedIs
    <3>2. m \in 1..Len(lines) /\ m \in 0..Len(lines)
      BY SpacedIs
    <3>3. /\ SecondSpace \in Nat /\ Begin(m) - 1 <= SecondSpace /\ SecondSpace < Edge(m)
          /\ Begin(m) \in Nat /\ Edge(m) \in Nat /\ Edge(m) <= Len(header_str)
      BY <2>2, <3>1, <3>2, SecondSpaceIs, PlaceIs
    <3>4. Edge(0) + 2 < Begin(m) /\ 3 <= Edge(0) /\ Edge(0) \in Nat
      BY <3>2, HeadStarts DEF TextInv
    <3>5. Len(header_str) \in Nat
      BY HeadStarts, PlaceIs
    <3> QED
      BY ONLY <1>1, <3>3, <3>4, <3>5
  <2> QED
    BY <2>1, <2>2
<1>3. SizeT(FirstSpace + 1) = 2 /\ SizeT(SecondSpace + 1 - FirstSpace) = SecondSpace
  BY <1>1, <1>2, FirstSpaceIs DEF SizeT
<1>4. /\ Edge(0) <= Len(header_str) /\ Edge(0) \in Nat /\ 3 <= Edge(0) /\ Len(header_str) \in Nat
  BY PlaceIs, HeadStarts
<1>5. PICK b \in Nat \ {0} :
         b = IF SecondSpace > Len(header_str) - 2 THEN Len(header_str) ELSE 2 + SecondSpace
  BY <1>2, <1>4
<1>6. 3 <= b /\ b <= Len(header_str)
  BY <1>2, <1>4, <1>5
<1>7. PICK t : t = SubSeq(header_str, 3, b)
  OBVIOUS
<1>8. StatusCode = stoi(t)
  <2>1. StatusCode = stoi(substr(header_str, 2, SecondSpace))
    BY <1>3 DEF StatusCode
  <2>2. 2 + 1 = 3
    OBVIOUS
  <2> QED
    BY <1>5, <1>7, <2>1, <2>2 DEF substr
<1>9. Len(t) \in Nat /\ 1 <= Len(t) /\ t[1] = header_str[3]
  <2>1. header_str \in Seq(Letters \cup {"CR", "LF"})
    BY DEF HeadTypeOK, Texts
  <2>2. PICK a \in Nat \ {0} : a = 3
    OBVIOUS
  <2> DEFINE S == Letters \cup {"CR", "LF"}
  <2>3. header_str \in Seq(S)
    BY <2>1
  <2> HIDE DEF S
  <2>4. a <= b + 1 /\ 1 \in 1..(b + 1 - a) /\ a + 1 - 1 = 3
    BY <1>6, <2>2
  <2>5. /\ t \in Seq(S) /\ Len(t) = b + 1 - a
        /\ \A i \in 1..(b + 1 - a) : t[i] = header_str[a + i - 1]
    BY <1>6, <1>7, <2>3, <2>2, <2>4, PieceIs
  <2>6. Len(t) \in Nat /\ 1 <= Len(t)
    BY <1>6, <2>2, <2>5
  <2> QED
    BY <2>4, <2>5, <2>6
<1>10. t[1] = code /\ code \notin Spaces
  BY <1>9, HeadStarts
<1>11. Min(SolidAt(t)) = 1
  <2>1. 1 \in SolidAt(t) /\ SolidAt(t) \subseteq Int /\ \A i \in SolidAt(t) : 1 <= i
    BY <1>9, <1>10 DEF SolidAt
  <2> QED
    BY <2>1, MinIs
<1> QED
  BY <1>8, <1>10, <1>11 DEF stoi

\* Spaces before a text that has none at its ends are trimmed.
LEMMA Trimmed ==
    ASSUME NEW S, NEW b \in Seq(S), NEW v \in Seq(S), NEW t \in Seq(S),
           Len(t) = Len(b) + Len(v),
           \A i \in 1..Len(b) : t[i] \in Spaces,
           \A i \in 1..Len(v) : t[Len(b) + i] = v[i],
           v # <<>> => v[1] \notin Spaces /\ v[Len(v)] \notin Spaces
    PROVE  trim(t) = v
<1>1. Len(b) \in Nat /\ Len(v) \in Nat /\ Len(t) \in Nat
  OBVIOUS
<1>2. CASE v = <<>>
  <2>1. Len(v) = 0
    BY <1>2, EmptySeq
  <2>2. SolidAt(t) = {}
    BY <1>1, <2>1 DEF SolidAt
  <2> QED
    BY <1>2, <2>2 DEF trim
<1>3. CASE v # <<>>
  <2>1. 1 <= Len(v)
    BY <1>1, <1>3, EmptySeq
  <2>2. PICK a \in Nat \ {0}, e \in Nat : a = Len(b) + 1 /\ e = Len(t)
    BY <1>1
  <2>3. a \in SolidAt(t) /\ e \in SolidAt(t)
    <3>1. t[Len(b) + 1] = v[1] /\ t[Len(b) + Len(v)] = v[Len(v)]
      BY <1>1, <2>1
    <3> QED
      BY <1>1, <1>3, <2>1, <2>2, <3>1 DEF SolidAt
  <2>4. ASSUME NEW i \in SolidAt(t) PROVE a <= i /\ i <= e
    <3>1. i \in 1..Len(t) /\ t[i] \notin Spaces
      BY DEF SolidAt
    <3>2. ~(i <= Len(b))
      BY <3>1
    <3> QED
      BY <1>1, <2>2, <3>1, <3>2
  <2>5. SolidAt(t) \subseteq Int
    BY DEF SolidAt
  <2>6. Min(SolidAt(t)) = a /\ Max(SolidAt(t)) = e
    BY <2>3, <2>4, <2>5, MinIs, MaxIs
  <2>7. /\ a <= e + 1 /\ e <= Len(t) /\ Len(v) = e + 1 - a
        /\ \A i \in 1..Len(v) : a + i - 1 = Len(b) + i
    BY <1>1, <2>2
  <2>8. SubSeq(t, a, e) = v
    <3>1. \A i \in 1..Len(v) : t[a + i - 1] = v[i]
      BY <2>7
    <3> QED
      BY ONLY <2>7, <3>1, PieceEquals, t \in Seq(S), v \in Seq(S), a \in Nat \ {0}, e \in Nat
  <2> QED
    BY <2>3, <2>6, <2>8 DEF trim
<1> QED
  BY <1>2, <1>3

LEMMA NoColon ==
    ASSUME NEW S, ":" \in S, NEW t \in Seq(S), \A i \in 1..Len(t) : t[i] # ":", NEW result
    PROVE  WithLine(result, t) = result
<1>1. Occurrences(t, <<":">>, 0) = {i \in 0..(Len(t) - 1) : t[i + 1] = ":"}
  BY OneThere
<1>2. Occurrences(t, <<":">>, 0) = {}
  BY <1>1
<1>3. find(t, <<":">>, 0) = npos
  BY <1>2 DEF find
<1> QED
  BY <1>3 DEF WithLine

LEMMA LineRead ==
    ASSUME NEW l \in Lines, NEW t, t = LineText(l), npos \in Nat, Len(t) <= npos, NEW result
    PROVE  WithLine(result, t) = Merged(result, Lower(l.key), Lower(l.value))
<1>1. PICK k \in Seq(Letters), b \in Seq(Letters), v \in Seq(Letters) :
         k = l.key /\ b = l.between /\ v = l.value
  BY LineIs
<1>2. PICK m \in Nat, x \in Nat, n \in Nat : m = Len(k) /\ x = Len(b) /\ n = Len(v)
  OBVIOUS
<1>3. /\ t \in Seq(Letters) /\ Len(t) = m + 1 + x + n
      /\ \A i \in 1..m : t[i] = k[i]
      /\ t[m + 1] = ":"
      /\ \A i \in 1..x : t[m + 1 + i] = b[i]
      /\ \A i \in 1..n : t[m + 1 + x + i] = v[i]
  <2>1. /\ t \in Seq(Letters)
        /\ Len(t) = Len(l.key) + 1 + Len(l.between) + Len(l.value)
        /\ \A i \in 1..Len(l.key) : t[i] = l.key[i]
        /\ t[Len(l.key) + 1] = ":"
        /\ \A i \in 1..Len(l.between) : t[Len(l.key) + 1 + i] = l.between[i]
        /\ \A i \in 1..Len(l.value) :
              t[Len(l.key) + 1 + Len(l.between) + i] = l.value[i]
    BY TextOfLine
  <2>2. m = Len(l.key) /\ x = Len(l.between) /\ n = Len(l.value)
    BY <1>1, <1>2
  <2> QED
    BY <1>1, <2>1, <2>2
<1>4. \A i \in 1..m : k[i] \in Solid /\ k[i] \notin Spaces /\ k[i] # ":"
  <2>1. k \in Seq(Solid)
    BY <1>1, LineIs
  <2> QED
    BY <1>2, <2>1, ElementOfSeq, Alphabet
<1>5. \A i \in 1..x : b[i] \in Spaces
  <2>1. b \in Seq({"SP", "TAB"})
    BY <1>1, LineIs
  <2>2. \A i \in 1..x : b[i] \in {"SP", "TAB"}
    BY <1>2, <2>1, ElementOfSeq
  <2> QED
    BY <2>2 DEF Spaces
<1>6. v # <<>> => v[1] \notin Spaces /\ v[Len(v)] \notin Spaces
  BY <1>1, LineIs DEF Last
<1>7. find(t, <<":">>, 0) = m /\ m # npos
  <2>1. PICK O : O = Occurrences(t, <<":">>, 0)
    OBVIOUS
  <2>2. O = {i \in 0..(Len(t) - 1) : t[i + 1] = ":"}
    BY <1>3, <2>1, OneThere, Alphabet
  <2>3. m \in O
    BY <1>3, <2>2
  <2>4. ASSUME NEW i \in O PROVE m <= i
    <3>1. i \in Nat /\ t[i + 1] = ":"
      BY <1>3, <2>2
    <3>2. ~(i + 1 \in 1..m)
      BY <1>3, <1>4, <3>1
    <3> QED
      BY <3>1, <3>2
  <2>5. O \subseteq Int
    BY <1>3, <2>2
  <2> QED
    BY <1>3, <2>1, <2>3, <2>4, <2>5, FindIs
<1>8. trim(substr(t, 0, m)) = k
  <2>1. substr(t, 0, m) = SubSeq(t, 1, m)
    BY <1>3 DEF substr
  <2>2. SubSeq(t, 1, m) = k
    <3>1. PICK a \in Nat \ {0} : a = 1
      OBVIOUS
    <3>2. a <= m + 1 /\ m <= Len(t) /\ Len(k) = m + 1 - a /\ \A i \in 1..Len(k) : a + i - 1 = i
      BY <1>2, <1>3, <3>1
    <3>3. \A i \in 1..Len(k) : t[a + i - 1] = k[i]
      BY <1>2, <1>3, <3>2
    <3> QED
      BY ONLY <1>3, <3>1, <3>2, <3>3, PieceEquals, k \in Seq(Letters), m \in Nat, a \in Nat \ {0}
  <2>3. PICK e \in Seq(Letters) : e = <<>> /\ Len(e) = 0
    BY EmptySeq
  <2>4. k # <<>> => k[1] \notin Spaces /\ k[Len(k)] \notin Spaces
    <3>1. k # <<>> => 1 \in 1..m /\ m \in 1..m
      BY <1>2, EmptySeq
    <3> QED
      BY <1>2, <1>4, <3>1
  <2>5. Len(k) = Len(e) + Len(k) /\ \A i \in 1..Len(k) : Len(e) + i = i
    BY <1>2, <2>3
  <2>6. \A i \in 1..Len(e) : k[i] \in Spaces
    BY <2>3
  <2>7. trim(k) = k
    BY <2>4, <2>5, <2>6, Trimmed
  <2> QED
    BY <2>1, <2>2, <2>7
<1>9. trim(substr(t, m + 1, npos)) = v
  <2>1. PICK a \in Nat \ {0}, e \in Nat : a = m + 1 + 1 /\ e = Len(t)
    BY <1>3
  <2>2. npos > Len(t) - (m + 1)
    BY <1>3
  <2>3. PICK u : u = SubSeq(t, a, e)
    OBVIOUS
  <2>4. substr(t, m + 1, npos) = u
    BY <2>1, <2>2, <2>3 DEF substr
  <2>5. a <= e + 1 /\ e <= Len(t) /\ e + 1 - a = x + n
    BY <1>3, <2>1
  <2>6. /\ u \in Seq(Letters) /\ Len(u) = e + 1 - a
        /\ \A i \in 1..(e + 1 - a) : u[i] = t[a + i - 1]
    BY <1>3, <2>3, <2>5, PieceIs
  <2>7. \A i \in 1..x : u[i] = b[i]
    <3>1. \A i \in 1..x : i \in 1..(e + 1 - a) /\ a + i - 1 = m + 1 + i
      BY <2>1, <2>5
    <3> QED
      BY <1>3, <2>6, <3>1
  <2>8. \A i \in 1..n : u[x + i] = v[i]
    <3>1. \A i \in 1..n : x + i \in 1..(e + 1 - a) /\ a + (x + i) - 1 = m + 1 + x + i
      BY <2>1, <2>5
    <3> QED
      BY <1>3, <2>6, <3>1
  <2>9. Len(u) = x + n /\ \A i \in 1..x : u[i] \in Spaces
    BY <1>5, <2>5, <2>6, <2>7
  <2>10. trim(u) = v
    BY <1>2, <1>6, <2>6, <2>8, <2>9, Trimmed
  <2> QED
    BY <2>4, <2>10
<1> QED
  BY <1>1, <1>7, <1>8, <1>9 DEF WithLine
------------------------------------------------------------------------------
(* What the header should have.                                              *)

LEMMA JoinedIs ==
    ASSUME NEW said, NEW lost \in Nat, NEW key, Len(said) \in Nat, NEW n \in 0..Len(said)
    PROVE  /\ n <= lost => Joined(said, lost, key, n) = <<>>
           /\ n > lost =>
                 Joined(said, lost, key, n) =
                    IF Lower(said[n].key) # key THEN Joined(said, lost, key, n - 1)
                    ELSE <<(IF Joined(said, lost, key, n - 1) = <<>> THEN <<>>
                            ELSE Joined(said, lost, key, n - 1)[1] \o <<"COMMA">>)
                           \o Lower(said[n].value)>>
<1> DEFINE Value(f, i) ==
              IF i <= lost THEN <<>>
              ELSE IF Lower(said[i].key) # key THEN f[i - 1]
              ELSE <<(IF f[i - 1] = <<>> THEN <<>> ELSE f[i - 1][1] \o <<"COMMA">>)
                     \o Lower(said[i].value)>>
           Step(f, m) == [i \in 0..m |-> Value(f, i)]
           joined == CHOOSE f : f = Step(f, Len(said))
           T == {m \in Nat : \E f : f = Step(f, m)}
<1>1. \A i : Joined(said, lost, key, i) = joined[i]
  BY DEF Joined
<1>2. ASSUME NEW f, NEW g, NEW i \in Nat, i > lost => f[i - 1] = g[i - 1]
      PROVE  Value(f, i) = Value(g, i)
  <2>1. CASE i <= lost
    BY <2>1
  <2>2. CASE ~(i <= lost)
    <3>1. f[i - 1] = g[i - 1]
      BY <1>2, <2>2
    <3> QED
      BY <3>1
  <2> QED
    BY <2>1, <2>2
<1> HIDE DEF Value
<1>3. 0 \in T
  <2>1. PICK g : g = [i \in 0..0 |-> Value(<<>>, 0)]
    OBVIOUS
  <2>2. ASSUME NEW i \in 0..0 PROVE Value(<<>>, 0) = Value(g, i)
    <3>1. i = 0 /\ ~(i > lost)
      OBVIOUS
    <3> QED
      BY <1>2, <3>1
  <2>3. g = Step(g, 0)
    BY <2>1, <2>2
  <2> QED
    BY <2>3
<1>4. ASSUME NEW m \in Nat, m \in T PROVE m + 1 \in T
  <2>1. PICK f : f = Step(f, m)
    BY <1>4
  <2>2. PICK g : g = [i \in 0..(m + 1) |-> IF i <= m THEN f[i] ELSE Value(f, m + 1)]
    OBVIOUS
  <2>3. ASSUME NEW i \in 0..(m + 1)
        PROVE  (IF i <= m THEN f[i] ELSE Value(f, m + 1)) = Value(g, i)
    <3>1. i > lost => i - 1 \in 0..m /\ i - 1 \in 0..(m + 1) /\ i - 1 <= m
      OBVIOUS
    <3>2. i > lost => f[i - 1] = g[i - 1]
      BY <2>2, <3>1
    <3>3. Value(f, i) = Value(g, i)
      BY <1>2, <3>2
    <3>4. CASE i <= m
      <4>1. f[i] = Value(f, i)
        BY <2>1, <3>4
      <4> QED
        BY <3>3, <3>4, <4>1
    <3>5. CASE ~(i <= m)
      <4>1. i = m + 1
        BY <3>5
      <4> QED
        BY <3>3, <3>5, <4>1
    <3> QED
      BY <3>4, <3>5
  <2>4. g = Step(g, m + 1)
    BY <2>2, <2>3
  <2> QED
    BY <2>4
<1>5. Len(said) \in T
  <2> HIDE DEF T
  <2> QED
    BY <1>3, <1>4, NatInductionOnSets
<1>6. joined = Step(joined, Len(said))
  <2>1. \E f : f = Step(f, Len(said))
    BY <1>5
  <2> HIDE DEF Step
  <2> QED
    BY <2>1
<1> HIDE DEF joined
<1>7. joined[n] = Value(joined, n)
  BY <1>6
<1>8. PICK x, y : x = Joined(said, lost, key, n) /\ y = Joined(said, lost, key, n - 1)
  OBVIOUS
<1>9. x = Value(joined, n) /\ y = joined[n - 1]
  BY <1>1, <1>7, <1>8
<1>10. x = IF n <= lost THEN <<>>
           ELSE IF Lower(said[n].key) # key THEN y
           ELSE <<(IF y = <<>> THEN <<>> ELSE y[1] \o <<"COMMA">>) \o Lower(said[n].value)>>
  BY <1>9, Zenon DEF Value
<1>11. n > lost => ~(n <= lost)
  OBVIOUS
<1> QED
  BY <1>8, <1>10, <1>11

LEMMA LostIs ==
    ASSUME HeadTypeOK PROVE LinesLost \in Nat /\ Len(lines) \in Nat
BY SpacedIs DEF LinesLost

\* What a line adds to the header is what it should.
LEMMA MergedAre ==
    ASSUME HeadTypeOK, NEW k \in (LinesLost + 1)..Len(lines), HeadersAre(k - 1),
           UNCHANGED <<reason, lines>>, headers' = Merged(headers, Lower(lines[k].key), Lower(lines[k].value))
    PROVE  HeadersAre(k)'
<1>1. LinesLost' = LinesLost
  <2>1. SpacedLines' = SpacedLines
    BY DEF SpacedLines
  <2> QED
    BY <2>1 DEF LinesLost
<1>2. LinesLost \in Nat /\ Len(lines) \in Nat /\ k \in 0..Len(lines) /\ k > LinesLost
  BY LostIs
<1>3. PICK l \in Lines : l = lines[k]
  <2>1. lines \in Seq(Lines) /\ k \in 1..Len(lines)
    BY <1>2 DEF HeadTypeOK
  <2> QED
    BY <2>1, ElementOfSeq
<1>4. PICK a, v : a = Lower(l.key) /\ v = Lower(l.value)
  OBVIOUS
<1>5. <<>> \o v = v
  <2>1. PICK w \in Seq(Letters) : w = l.value
    BY LineIs
  <2>2. Lower(w) \in Seq({tolower(c) : c \in Letters})
    <3>1. Len(w) \in Nat /\ \A i \in 1..Len(w) : tolower(w[i]) \in {tolower(c) : c \in Letters}
      BY ElementOfSeq
    <3> QED
      BY <3>1 DEF Lower
  <2>3. v \in Seq({tolower(c) : c \in Letters})
    BY <1>4, <2>1, <2>2
  <2> QED
    BY <2>3, ConcatEmptySeq
<1>6. DOMAIN headers' = DOMAIN headers \cup {a}
      /\ \A q \in DOMAIN headers \cup {a} :
            headers'[q] = IF q # a THEN headers[q]
                          ELSE IF a \in DOMAIN headers THEN headers[a] \o <<"COMMA">> \o v ELSE v
  BY <1>3, <1>4 DEF Merged
<1>7. a \in {Lower(x.key) : x \in Lines}
  BY <1>4
<1>8. ASSUME NEW q \in {Lower(x.key) : x \in Lines} \cup DOMAIN headers',
             NEW j, j = Joined(lines, LinesLost, q, k)
      PROVE  IF j = <<>> THEN q \notin DOMAIN headers'
             ELSE q \in DOMAIN headers' /\ headers'[q] = j[1]
  <2>1. PICK i : i = Joined(lines, LinesLost, q, k - 1)
    OBVIOUS
  <2>2. q \in {Lower(x.key) : x \in Lines} \cup DOMAIN headers
    BY <1>6, <1>7
  <2>3. IF i = <<>> THEN q \notin DOMAIN headers ELSE q \in DOMAIN headers /\ headers[q] = i[1]
    BY <2>1, <2>2 DEF HeadersAre
  <2>4. j = IF a # q THEN i ELSE <<(IF i = <<>> THEN <<>> ELSE i[1] \o <<"COMMA">>) \o v>>
    <3>1. Joined(lines, LinesLost, q, k) =
             IF Lower(lines[k].key) # q THEN Joined(lines, LinesLost, q, k - 1)
             ELSE <<(IF Joined(lines, LinesLost, q, k - 1) = <<>> THEN <<>>
                     ELSE Joined(lines, LinesLost, q, k - 1)[1] \o <<"COMMA">>)
                    \o Lower(lines[k].value)>>
      BY <1>2, JoinedIs
    <3> QED
      BY <1>3, <1>4, <1>8, <2>1, <3>1
  <2>5. CASE a # q
    BY <1>6, <2>3, <2>4, <2>5
  <2>6. CASE a = q
    <3>1. PICK w : w = (IF i = <<>> THEN <<>> ELSE i[1] \o <<"COMMA">>) \o v
      OBVIOUS
    <3>2. j = <<w>> /\ j # <<>> /\ j[1] = w
      BY <2>4, <2>6, <3>1
    <3>3. headers'[q] = w /\ q \in DOMAIN headers'
      <4>1. CASE i = <<>>
        BY <1>5, <1>6, <2>3, <2>6, <3>1, <4>1
      <4>2. CASE i # <<>>
        BY <1>6, <2>3, <2>6, <3>1, <4>2
      <4> QED
        BY <4>1, <4>2
    <3> QED
      BY <3>2, <3>3
  <2> QED
    BY <2>5, <2>6
<1> QED
  BY <1>1, <1>8 DEF HeadersAre
------------------------------------------------------------------------------
(* The initial states, and the lines the server sends.                       *)

LEMMA InitInv == Init => HeadInv
<1> SUFFICES ASSUME Init PROVE HeadInv
  OBVIOUS
<1> USE DEF Init
<1>1. HeadTypeOK
  <2>1. PICK t : t = header_str
    OBVIOUS
  <2>2. /\ code \in DOMAIN Codes /\ reason \in {<<>>} \cup {<<r>> : r \in Reasons}
        /\ lines \in Seq(Lines) /\ starts \in Seq(Nat \ {0})
    OBVIOUS
  <2>3. \A r \in Reasons : r \in Seq(Letters)
    BY ReasonsAssumption
  <2>4. header_str \in Seq(Letters)
    <3>1. code \in Letters
      BY Alphabet
    <3>2. PICK a \in Seq(Letters) : a = <<"HTTP/1.1", "SP", code>>
      <4>1. \A x, y, z \in Letters : <<x, y, z>> \in Seq(Letters)
        OBVIOUS
      <4> QED
        BY <3>1, <4>1, Alphabet
    <3>3. PICK b \in Seq(Letters) : b = IF reason = <<>> THEN <<>> ELSE <<"SP">> \o reason[1]
      <4>1. CASE reason = <<>>
        BY <4>1, EmptySeq
      <4>2. CASE reason # <<>>
        <5>1. PICK c \in Seq(Letters), r \in Seq(Letters) : c = <<"SP">> /\ r = reason[1]
          <6>1. reason[1] \in Reasons
            BY <2>2, <4>2
          <6>2. <<"SP">> \in Seq(Letters)
            BY Alphabet, ShortSequences
          <6> QED
            BY <2>3, <6>1, <6>2
        <5>2. c \o r \in Seq(Letters)
          OBVIOUS
        <5> QED
          BY <4>2, <5>1, <5>2
      <4> QED
        BY <4>1, <4>2
    <3>4. a \o b \in Seq(Letters)
      OBVIOUS
    <3> QED
      BY <3>2, <3>3, <3>4 DEF StatusLine
  <2>5. header_str \in Texts
    BY <2>4, Widened DEF Texts
  <2> QED
    BY <2>2, <2>5 DEF HeadTypeOK
<1>2. Len(lines) = 0 /\ Len(starts) = 0
  BY EmptySeq
<1>3. PICK t : t = StatusLine
  OBVIOUS
<1>4. Len(t) \in Nat /\ 3 <= Len(t)
  BY <1>1, <1>3, StatusLineIs
<1>5. Begin(0) = 1 /\ Part(0) = t /\ Edge(0) = Len(t)
  <2>1. Begin(0) = 1 /\ Part(0) = t /\ Edge(0) = 1 + Len(t) - 1
    BY <1>3 DEF Begin, Part, Edge
  <2> QED
    BY ONLY <1>4, <2>1
<1>6. Len(t) < Width
  <2>1. CASE reason = <<>>
    <3>1. Len(t) = 3
      BY <1>1, <1>3, <2>1, StatusLineIs
    <3>2. Width \in Nat /\ Width > 4
      BY BoundsAssumption
    <3> QED
      BY ONLY <3>1, <3>2
  <2>2. CASE reason # <<>>
    <3>1. reason[1] \in Reasons /\ Len(t) = 4 + Len(reason[1]) /\ Len(reason[1]) + 4 < Width
      BY <1>1, <1>3, <2>2, StatusLineIs, ReasonsAssumption
    <3>2. PICK r \in Seq(Letters) : r = reason[1]
      BY <1>1, <2>2, StatusLineIs
    <3>3. Len(t) = 4 + Len(r) /\ Len(r) + 4 < Width /\ Len(r) \in Nat
      BY <3>1, <3>2
    <3> QED
      BY ONLY <3>3
  <2> QED
    BY <2>1, <2>2
<1>7. TextInv
  <2>1. 0..Len(lines) = {0} /\ \A l \in (0 + 1)..Len(lines) : FALSE
    BY <1>2
  <2>2. Edge(Len(lines)) = Len(header_str) /\ Len(header_str) < Width /\ header_str = t
    BY <1>2, <1>3, <1>5, <1>6
  <2>3. \A i \in 1..Len(Part(0)) : header_str[Begin(0) + i - 1] = Part(0)[i]
    <3>1. \A i \in 1..Len(t) : 1 + i - 1 = i
      OBVIOUS
    <3> QED
      BY <1>5, <2>2, <3>1
  <2>4. \A p \in 1..Len(header_str) : p \in Begin(0)..(Edge(0) + 2)
    BY <1>4, <1>5, <2>2
  <2> QED
    BY <1>2, <2>1, <2>2, <2>3, <2>4 DEF TextInv
<1>8. StatusInv /\ PlaceInv
  BY DEF StatusInv, PlaceInv
<1> QED
  BY <1>1, <1>7, <1>8 DEF HeadInv

\* A line more, behind all that was sent.
LEMMA SendLineInv == HeadInv /\ SendLine => HeadInv'
<1> SUFFICES ASSUME HeadInv, SendLine PROVE HeadInv'
  OBVIOUS
<1>1. HeadTypeOK /\ TextInv /\ StatusInv /\ PlaceInv
  BY DEF HeadInv
<1>2. PICK x \in Lines :
         /\ Len(header_str) + Len(LineText(x)) + 3 < Width
         /\ lines' = Append(lines, x)
         /\ starts' = Append(starts, Len(header_str) + 3)
         /\ header_str' = header_str \o (CRLF \o LineText(x))
  BY DEF SendLine
<1> DEFINE n == Len(lines)
<1>3. /\ n \in Nat /\ n \in 0..n /\ lines \in Seq(Lines)
      /\ Len(header_str) \in Nat /\ header_str \in Texts
      /\ starts \in Seq(Nat \ {0}) /\ Len(starts) = n
  BY <1>1, PlaceIs DEF HeadTypeOK, TextInv
<1>4. PICK h, t : h = header_str /\ t = LineText(x)
  OBVIOUS
<1>5. t \in Seq(Letters) /\ Len(t) \in Nat \ {0}
  <2>1. PICK a, b, c : a = Len(x.key) /\ b = Len(x.between) /\ c = Len(x.value)
    OBVIOUS
  <2>2. /\ t \in Seq(Letters) /\ Len(t) = a + 1 + b + c
        /\ a \in Nat /\ b \in Nat /\ c \in Nat
    BY <1>4, <2>1, TextOfLine
  <2> QED
    BY ONLY <2>2
<1>6. /\ header_str' \in Texts /\ Len(header_str') = Len(h) + 2 + Len(t)
      /\ \A p \in 1..Len(h) : header_str'[p] = h[p]
      /\ header_str'[Len(h) + 1] = "CR" /\ header_str'[Len(h) + 2] = "LF"
      /\ \A i \in 1..Len(t) : header_str'[Len(h) + 2 + i] = t[i]
  <2> DEFINE S == Letters \cup {"CR", "LF"}
  <2>1. "CR" \in S /\ "LF" \in S /\ h \in Seq(S) /\ t \in Seq(S)
    BY <1>3, <1>4, <1>5, Widened DEF Texts
  <2> HIDE DEF S
  <2>2. PICK e \in Seq(S) : e = CRLF /\ Len(e) = 2 /\ e[1] = "CR" /\ e[2] = "LF"
    <3>1. /\ <<"CR", "LF">> \in Seq(S) /\ Len(<<"CR", "LF">>) = 2
          /\ <<"CR", "LF">>[1] = "CR" /\ <<"CR", "LF">>[2] = "LF"
      BY <2>1, ShortSequences
    <3> QED
      BY <3>1 DEF CRLF
  <2>3. PICK et : et = e \o t
    OBVIOUS
  <2>4. /\ et \in Seq(S) /\ Len(et) = Len(e) + Len(t)
        /\ \A i \in 1..Len(e) : et[i] = e[i]
        /\ \A i \in 1..Len(t) : et[Len(e) + i] = t[i]
    BY <2>1, <2>3, TwoParts
  <2>5. PICK g : g = h \o et
    OBVIOUS
  <2>6. header_str' = g
    BY <1>2, <1>4, <2>2, <2>3, <2>5
  <2>7. /\ g \in Seq(S) /\ Len(g) = Len(h) + Len(et)
        /\ \A i \in 1..Len(h) : g[i] = h[i]
        /\ \A i \in 1..Len(et) : g[Len(h) + i] = et[i]
    <3>1. et \in Seq(S) /\ h \in Seq(S)
      BY <2>1, <2>4
    <3> QED
      BY ONLY <2>5, <3>1, TwoParts
  <2>8. Len(e) = 2 /\ Len(h) \in Nat
    BY <1>3, <1>4, <2>2
  <2>9. /\ 1 \in 1..Len(e) /\ 2 \in 1..Len(e) /\ 1 \in 1..Len(et) /\ 2 \in 1..Len(et)
        /\ Len(g) = Len(h) + 2 + Len(t)
        /\ \A i \in 1..Len(t) : 2 + i \in 1..Len(et) /\ Len(h) + (2 + i) = Len(h) + 2 + i
    BY ONLY <1>5, <2>4, <2>7, <2>8
  <2>10. g[Len(h) + 1] = "CR" /\ g[Len(h) + 2] = "LF"
    BY <2>2, <2>4, <2>7, <2>9
  <2>11. ASSUME NEW i \in 1..Len(t) PROVE g[Len(h) + 2 + i] = t[i]
    <3>1. g[Len(h) + (2 + i)] = et[2 + i] /\ et[2 + i] = t[i]
      BY <2>4, <2>7, <2>8, <2>9
    <3> QED
      BY <2>9, <3>1
  <2> QED
    BY <2>6, <2>7, <2>9, <2>10, <2>11 DEF Texts, S
<1>7. /\ Len(lines') = n + 1 /\ lines' \in Seq(Lines)
      /\ lines'[n + 1] = x /\ \A k \in 1..n : lines'[k] = lines[k]
  BY <1>2, <1>3
<1>8. /\ Len(starts') = n + 1 /\ starts' \in Seq(Nat \ {0})
      /\ starts'[n + 1] = Len(h) + 3 /\ \A k \in 1..n : starts'[k] = starts[k]
  <2>1. PICK y \in Nat \ {0} : y = Len(h) + 3
    BY <1>3, <1>4
  <2> QED
    BY <1>2, <1>3, <1>4, <2>1
<1>9. UNCHANGED <<code, reason, phase, start_pos, status, headers, raised>> /\ phase = "sending"
  BY DEF SendLine
<1>10. HeadTypeOK'
  BY <1>1, <1>6, <1>7, <1>8, <1>9 DEF HeadTypeOK
<1>11. ASSUME NEW k \in 0..n
       PROVE  /\ Part(k)' = Part(k) /\ Begin(k)' = Begin(k) /\ Edge(k)' = Edge(k)
  <2>1. StatusLine' = StatusLine
    BY <1>9 DEF StatusLine
  <2>2. Part(k)' = Part(k) /\ Begin(k)' = Begin(k)
    <3>1. CASE k = 0
      BY <2>1, <3>1 DEF Part, Begin
    <3>2. CASE k # 0
      <4>1. lines'[k] = lines[k] /\ starts'[k] = starts[k]
        BY <1>3, <1>7, <1>8, <3>2
      <4> QED
        BY <3>2, <4>1 DEF Part, Begin
    <3> QED
      BY <3>1, <3>2
  <2> QED
    BY <2>2 DEF Edge
<1>12. PICK m \in Nat : m = n + 1
  BY <1>3
<1>13. Part(m)' = t /\ Begin(m)' = Len(h) + 3 /\ Edge(m)' = Len(header_str')
  <2>1. m # 0 /\ lines'[m] = x /\ starts'[m] = Len(h) + 3
    BY <1>3, <1>7, <1>8, <1>12
  <2>2. Part(m)' = t /\ Begin(m)' = Len(h) + 3
    BY <1>4, <2>1 DEF Part, Begin
  <2>3. Edge(m)' = Len(h) + 3 + Len(t) - 1
    BY <2>2 DEF Edge
  <2>4. Len(h) + 3 + Len(t) - 1 = Len(h) + 2 + Len(t)
    BY <1>3, <1>4, <1>5
  <2> QED
    BY <1>6, <2>2, <2>3, <2>4
<1>14. ASSUME NEW k \in 0..n
       PROVE  /\ Begin(k) \in Nat \ {0} /\ Edge(k) \in Nat /\ Edge(k) <= Len(h)
              /\ Begin(k) <= Edge(k) /\ Edge(k) = Begin(k) + Len(Part(k)) - 1
              /\ Len(Part(k)) \in Nat /\ (k < n => Edge(k) + 3 <= Len(h))
  BY <1>1, <1>4, PlaceIs, PartIs
<1>15. Edge(n) = Len(h)
  BY <1>1, <1>4 DEF TextInv
<1>16. TextInv'
  <2>1. Len(starts') = Len(lines') /\ Len(lines') = m
    BY <1>7, <1>8, <1>12
  <2>2. Edge(m)' = Len(header_str') /\ Len(header_str') < Width
    <3>1. Len(h) + 2 + Len(t) < Width
      BY <1>2, <1>3, <1>4, <1>5, BoundsAssumption
    <3> QED
      BY <1>6, <1>13, <3>1
  <2>3. ASSUME NEW k \in 0..m, NEW i \in 1..Len(Part(k)')
        PROVE  header_str'[Begin(k)' + i - 1] = Part(k)'[i]
    <3>1. CASE k = m
      <4>1. i \in 1..Len(t) /\ Begin(k)' + i - 1 = Len(h) + 2 + i
        BY <1>3, <1>4, <1>5, <1>13, <3>1
      <4> QED
        BY <1>6, <1>13, <3>1, <4>1
    <3>2. CASE k # m
      <4>1. k \in 0..n
        BY <1>3, <1>12, <3>2
      <4>2. h[Begin(k) + i - 1] = Part(k)[i] /\ i \in 1..Len(Part(k))
        BY <1>1, <1>4, <1>11, <4>1 DEF TextInv
      <4>3. Begin(k) + i - 1 \in 1..Len(h)
        BY <1>3, <1>4, <1>14, <4>1, <4>2
      <4> QED
        BY <1>6, <1>11, <4>1, <4>2, <4>3
    <3> QED
      BY <3>1, <3>2
  <2>4. ASSUME NEW k \in 0..m, k < m
        PROVE  /\ Begin(k + 1)' = Edge(k)' + 3
               /\ header_str'[Edge(k)' + 1] = "CR" /\ header_str'[Edge(k)' + 2] = "LF"
    <3>1. k \in 0..n
      BY <1>3, <1>12, <2>4
    <3>2. CASE k = n
      BY <1>6, <1>11, <1>12, <1>13, <1>15, <3>1, <3>2
    <3>3. CASE k # n
      <4>1. k < n /\ k + 1 \in 0..n
        BY <1>3, <3>1, <3>3
      <4>2. Begin(k + 1) = Edge(k) + 3 /\ h[Edge(k) + 1] = "CR" /\ h[Edge(k) + 2] = "LF"
        BY <1>1, <1>4, <3>1, <4>1 DEF TextInv
      <4>3. Edge(k) + 1 \in 1..Len(h) /\ Edge(k) + 2 \in 1..Len(h)
        <5>1. Edge(k) \in Nat /\ Edge(k) + 3 <= Len(h) /\ Len(h) \in Nat
          BY <1>3, <1>4, <1>14, <3>1, <4>1
        <5> QED
          BY ONLY <5>1
      <4>4. Begin(k + 1)' = Begin(k + 1) /\ Edge(k)' = Edge(k)
        BY <1>11, <3>1, <4>1
      <4> QED
        BY <1>6, <4>2, <4>3, <4>4
    <3> QED
      BY <3>2, <3>3
  <2>5. ASSUME NEW k \in 0..m, NEW l \in (k + 1)..m PROVE Edge(k)' + 2 < Begin(l)'
    <3>1. k \in 0..n /\ Edge(k)' = Edge(k)
      BY <1>3, <1>11, <1>12
    <3>2. CASE l = m
      BY <1>3, <1>4, <1>13, <1>14, <3>1, <3>2
    <3>3. CASE l # m
      <4>1. l \in (k + 1)..n /\ l \in 0..n
        BY <1>3, <1>12, <3>1, <3>3
      <4>2. Edge(k) + 2 < Begin(l)
        BY <1>1, <3>1, <4>1 DEF TextInv
      <4> QED
        BY <1>11, <3>1, <4>1, <4>2
    <3> QED
      BY <3>2, <3>3
  <2>6. ASSUME NEW p \in 1..Len(header_str')
        PROVE  \E k \in 0..m : p \in Begin(k)'..(Edge(k)' + 2)
    <3>1. CASE p <= Len(h)
      <4>1. p \in 1..Len(header_str)
        BY <1>3, <1>4, <3>1
      <4>2. PICK k \in 0..n : p \in Begin(k)..(Edge(k) + 2)
        BY <1>1, <4>1 DEF TextInv
      <4>3. k \in 0..m
        BY <1>3, <1>12
      <4> QED
        BY <1>11, <4>2, <4>3
    <3>2. CASE p = Len(h) + 1 \/ p = Len(h) + 2
      <4>1. p \in Begin(n)..(Edge(n) + 2) /\ n \in 0..m
        BY <1>3, <1>4, <1>12, <1>14, <1>15, <3>2
      <4> QED
        BY <1>3, <1>11, <4>1
    <3>3. CASE p > Len(h) + 2
      <4>1. p \in Begin(m)'..(Edge(m)' + 2) /\ m \in 0..m
        BY <1>3, <1>4, <1>5, <1>6, <1>12, <1>13, <3>3
      <4> QED
        BY <4>1
    <3> QED
      BY <1>3, <1>4, <3>1, <3>2, <3>3
  <2> QED
    BY <2>1, <2>2, <2>3, <2>4, <2>5, <2>6 DEF TextInv
<1>17. StatusInv' /\ PlaceInv'
  BY <1>1, <1>9 DEF StatusInv, PlaceInv
<1> QED
  BY <1>10, <1>16, <1>17 DEF HeadInv
------------------------------------------------------------------------------
(* The steps of the client.                                                  *)

TextKept == UNCHANGED <<code, reason, lines, starts, header_str>>

LEMMA KeptText ==
    ASSUME TextInv, TextKept
    PROVE  /\ TextInv' /\ LinesLost' = LinesLost /\ Misread' = Misread
           /\ \A k : Part(k)' = Part(k) /\ Begin(k)' = Begin(k) /\ Edge(k)' = Edge(k)
<1>1. UNCHANGED <<code, reason, lines, starts, header_str>>
  BY DEF TextKept
<1>2. StatusLine' = StatusLine
  BY <1>1 DEF StatusLine
<1>3. ASSUME NEW k PROVE Part(k)' = Part(k) /\ Begin(k)' = Begin(k) /\ Edge(k)' = Edge(k)
  <2>1. Part(k)' = Part(k) /\ Begin(k)' = Begin(k)
    BY <1>1, <1>2 DEF Part, Begin
  <2> QED
    BY <2>1 DEF Edge
<1>4. SpacedLines' = SpacedLines
  BY <1>1 DEF SpacedLines
<1>5. LinesLost' = LinesLost
  BY <1>1, <1>4 DEF LinesLost
<1>6. Misread' = Misread
  BY <1>1 DEF Misread
<1>7. TextInv'
  BY <1>1, <1>3 DEF TextInv
<1> QED
  BY <1>3, <1>5, <1>6, <1>7

LEMMA KeptHeaders ==
    ASSUME TextInv, TextKept, headers' = headers, NEW n, HeadersAre(n) PROVE HeadersAre(n)'
<1>1. LinesLost' = LinesLost /\ lines' = lines
  BY KeptText DEF TextKept
<1> QED
  BY <1>1 DEF HeadersAre

LEMMA NoHeaders ==
    ASSUME HeadTypeOK, headers = [k \in {} |-> <<>>], NEW n \in 0..Len(lines), n <= LinesLost
    PROVE  HeadersAre(n)
<1>1. \A key : Joined(lines, LinesLost, key, n) = <<>> /\ key \notin DOMAIN headers
  BY LostIs, JoinedIs
<1> QED
  BY <1>1 DEF HeadersAre

LEMMA StatusPartInv == HeadInv /\ StatusPart => HeadInv'
<1> SUFFICES ASSUME HeadInv, StatusPart PROVE HeadInv'
  OBVIOUS
<1>1. HeadTypeOK /\ TextInv /\ StatusInv /\ PlaceInv
  BY DEF HeadInv
<1>2. /\ phase = "sending" /\ phase' = "headers" /\ status' = StatusCode
      /\ start_pos' = SizeT(FirstEol + 2) /\ TextKept
      /\ headers' = headers /\ raised' = raised
  BY DEF StatusPart, TextKept
<1>3. /\ TextInv' /\ LinesLost' = LinesLost /\ lines' = lines /\ reason' = reason
      /\ \A k : Begin(k)' = Begin(k)
  BY <1>1, <1>2, KeptText DEF TextKept
<1>4. headers = [k \in {} |-> <<>>]
  BY <1>1, <1>2 DEF PlaceInv
<1>5. CASE SizeT(FirstEol + 2) = 1 /\ LinesLost = 0 /\ (reason = <<>> \/ lines = <<>>)
  <2>1. start_pos' \in Nat /\ PlaceInv'
    BY <1>2, <1>3, <1>4, <1>5 DEF PlaceInv
  <2>2. HeadTypeOK'
    BY <1>1, <1>2, <2>1 DEF HeadTypeOK, TextKept
  <2>3. StatusInv'
    BY <1>1, <1>2, StatusIs DEF StatusInv, TextKept
  <2> QED
    BY <1>3, <2>1, <2>2, <2>3 DEF HeadInv
<1>6. CASE /\ LinesLost + 1 \in 1..Len(lines)
           /\ SizeT(FirstEol + 2) = Begin(LinesLost + 1) - 1
  <2>1. PICK k \in (LinesLost + 1)..Len(lines) : k = LinesLost + 1
    BY <1>6
  <2>2. LinesLost \in Nat /\ k \in 0..Len(lines) /\ k - 1 = LinesLost /\ k - 1 \in 0..Len(lines)
    BY <1>1, <1>6, <2>1, LostIs
  <2>3. HeadersAre(k - 1)'
    BY <1>1, <1>2, <1>4, <2>2, NoHeaders, KeptHeaders
  <2>4. start_pos' = Begin(k) - 1 /\ start_pos' \in Nat
    <3>1. Begin(k) \in Nat \ {0}
      BY <1>1, <2>2, PlaceIs
    <3> QED
      BY <1>2, <1>6, <2>1, <3>1
  <2>5. PlaceInv'
    <3>1. k \in (LinesLost' + 1)..Len(lines') /\ start_pos' = Begin(k)' - 1
      BY <1>3, <2>4
    <3> QED
      BY <1>2, <2>3, <3>1 DEF PlaceInv
  <2>6. HeadTypeOK'
    BY <1>1, <1>2, <2>4 DEF HeadTypeOK, TextKept
  <2>7. StatusInv'
    BY <1>1, <1>2, StatusIs DEF StatusInv, TextKept
  <2> QED
    BY <1>3, <2>5, <2>6, <2>7 DEF HeadInv
<1> QED
  BY <1>1, <1>5, <1>6, StartIs

\* A round of split takes the rest of the line it starts in.
LEMMA RoundIs ==
    ASSUME HeadTypeOK, TextInv, NEW k \in 0..Len(lines), NEW from \in Nat \ {0},
           Begin(k) - 1 <= from, from <= Edge(k),
           NEW end_pos, end_pos = find(header_str, CRLF, from),
           NEW count, count = IF end_pos = npos THEN npos ELSE end_pos - from
    PROVE  /\ end_pos = IF k < Len(lines) THEN Edge(k) ELSE npos
           /\ k < Len(lines) => Edge(k) # npos
           /\ substr(header_str, from, count) = SubSeq(header_str, from + 1, Edge(k))
<1>1. end_pos = IF k < Len(lines) THEN Edge(k) ELSE npos
  BY EndIsFound
<1>2. /\ npos \in Nat /\ Len(header_str) <= npos /\ Len(header_str) \in Nat
      /\ Edge(k) \in Nat /\ Edge(k) <= Len(header_str)
      /\ k < Len(lines) => Edge(k) + 3 <= Len(header_str)
  BY NposIs, PlaceIs
<1>3. CASE k < Len(lines)
  <2>1. Edge(k) # npos /\ count = Edge(k) - from
    BY <1>1, <1>2, <1>3
  <2>2. (IF count > Len(header_str) - from THEN Len(header_str) ELSE from + count) = Edge(k)
    BY <1>2, <1>3, <2>1
  <2> QED
    BY <1>1, <2>1, <2>2 DEF substr
<1>4. CASE ~(k < Len(lines))
  <2>1. k = Len(lines) /\ Edge(k) = Len(header_str)
    <3>1. k = Len(lines)
      BY <1>4, PlaceIs
    <3> QED
      BY <3>1 DEF TextInv
  <2>2. count = npos
    BY <1>1, <1>4
  <2>3. (IF count > Len(header_str) - from THEN Len(header_str) ELSE from + count) = Edge(k)
    BY <1>2, <2>1, <2>2
  <2> QED
    BY <1>1, <1>4, <2>3 DEF substr
<1> QED
  BY <1>3, <1>4

LEMMA ColonOfReason ==
    ASSUME HeadTypeOK, TextInv, NEW p \in 2..Edge(0), header_str[p] = ":"
    PROVE  reason # <<>> /\ \E i \in 1..Len(reason[1]) : reason[1][i] = ":"
<1>1. PICK t : t = StatusLine
  OBVIOUS
<1>2. Len(t) \in Nat /\ Edge(0) = Len(t) /\ 3 <= Len(t)
  BY <1>1, HeadStarts
<1>3. header_str[p] = t[p]
  <2>1. Begin(0) = 1 /\ Part(0) = t /\ 0 \in 0..Len(lines)
    BY <1>1, HeadStarts
  <2>2. \A q \in 1..Edge(0) : header_str[q] = t[q - 1 + 1]
    BY <2>1, PlaceIs
  <2>3. p \in 1..Edge(0) /\ p - 1 + 1 = p
    BY <1>2
  <2> QED
    BY <2>2, <2>3
<1>4. t[2] # ":" /\ t[3] # ":"
  BY <1>1, StatusLineIs, HeadStarts
<1>5. 4 <= p /\ p <= Len(t)
  <2>1. p # 2 /\ p # 3
    BY <1>3, <1>4
  <2> QED
    BY <1>2, <2>1
<1>6. reason # <<>>
  <2>1. reason = <<>> => Len(t) = 3
    BY <1>1, StatusLineIs
  <2>2. Len(t) # 3
    BY ONLY <1>2, <1>5
  <2> QED
    BY <2>1, <2>2
<1>7. PICK r \in Seq(Letters) : r = reason[1] /\ Len(t) = 4 + Len(r) /\ t[4] # ":"
  <2>1. reason[1] \in Seq(Letters) /\ Len(t) = 4 + Len(reason[1]) /\ t[4] = "SP"
    BY <1>1, <1>6, StatusLineIs
  <2>2. t[4] # ":"
    BY <2>1
  <2> QED
    BY <2>1, <2>2
<1>8. \A i \in 1..Len(r) : t[4 + i] = r[i]
  BY <1>1, <1>6, <1>7, StatusLineIs
<1>9. PICK i \in Int : i = p - 4
  OBVIOUS
<1>10. i \in 1..Len(r) /\ 4 + i = p
  <2>1. p # 4
    BY <1>3, <1>7
  <2>2. Len(r) \in Nat /\ Len(t) = 4 + Len(r)
    BY <1>7
  <2> QED
    BY <1>5, <1>9, <2>1, <2>2
<1>11. r[i] = ":"
  BY <1>3, <1>8, <1>10
<1> QED
  BY <1>6, <1>7, <1>10, <1>11

\* A round that starts in the status line finds no header there, unless the head is
\* misread.
LEMMA FirstRoundInv ==
    ASSUME HeadInv, HeaderLine, start_pos = 1, LinesLost = 0, reason = <<>> \/ lines = <<>>,
           headers = [k \in {} |-> <<>>]
    PROVE  HeadInv'
<1>1. HeadTypeOK /\ TextInv /\ StatusInv
  BY DEF HeadInv
<1>2. PICK end_pos, count :
         /\ end_pos = find(header_str, CRLF, start_pos)
         /\ count = IF end_pos = npos THEN npos ELSE end_pos - start_pos
  OBVIOUS
<1>3. /\ phase = "headers" /\ TextKept /\ UNCHANGED <<status, raised>>
      /\ headers' = WithLine(headers, substr(header_str, start_pos, count))
      /\ IF end_pos = npos THEN phase' = "read" /\ UNCHANGED start_pos
         ELSE start_pos' = end_pos + Len(CRLF) /\ phase' = phase
  BY <1>2 DEF HeaderLine, TextKept
<1>4. /\ Begin(0) = 1 /\ 0 \in 0..Len(lines) /\ Edge(0) \in Nat /\ 3 <= Edge(0)
      /\ Len(lines) \in Nat /\ Edge(0) <= Len(header_str) /\ Len(header_str) \in Nat
  BY <1>1, HeadStarts, PlaceIs
<1>5. /\ end_pos = IF 0 < Len(lines) THEN Edge(0) ELSE npos
      /\ 0 < Len(lines) => Edge(0) # npos
      /\ substr(header_str, start_pos, count) = SubSeq(header_str, start_pos + 1, Edge(0))
  <2>1. start_pos \in Nat \ {0} /\ Begin(0) - 1 <= start_pos /\ start_pos <= Edge(0)
    BY <1>4
  <2> QED
    BY <1>1, <1>2, <1>4, <2>1, RoundIs
<1>6. /\ TextInv' /\ LinesLost' = LinesLost /\ Misread' = Misread
      /\ \A k : Begin(k)' = Begin(k)
  BY <1>1, <1>3, KeptText
<1>7. UNCHANGED <<code, reason, lines, starts, header_str>>
  BY <1>3 DEF TextKept
<1>8. HeadersAre(0)' \/ (Misread /\ Len(lines) = 0)
  <2>1. PICK S : S = Letters \cup {"CR", "LF"}
    OBVIOUS
  <2>2. PICK a \in Nat \ {0}, e \in Nat : a = 2 /\ e = Edge(0)
    BY <1>4
  <2>3. PICK u : u = SubSeq(header_str, a, e)
    OBVIOUS
  <2>4. header_str \in Seq(S) /\ ":" \in S
    BY <1>1, <2>1, Alphabet DEF HeadTypeOK, Texts
  <2>5. a <= e + 1 /\ e <= Len(header_str)
    BY <1>4, <2>2
  <2>6. /\ u \in Seq(S) /\ Len(u) = e + 1 - a
        /\ \A i \in 1..(e + 1 - a) : u[i] = header_str[a + i - 1]
    BY <2>3, <2>4, <2>5, PieceIs
  <2>7. headers' = WithLine(headers, u)
    <3>1. start_pos + 1 = 2
      OBVIOUS
    <3> QED
      BY <1>3, <1>5, <2>2, <2>3, <3>1
  <2>8. CASE \E i \in 1..Len(u) : u[i] = ":"
    <3>1. PICK i \in 1..Len(u) : u[i] = ":"
      BY <2>8
    <3>2. PICK p \in 2..Edge(0) : p = a + i - 1
      BY <1>4, <2>2, <2>6
    <3>3. header_str[p] = ":"
      BY <2>6, <3>1, <3>2
    <3>4. reason # <<>> /\ \E j \in 1..Len(reason[1]) : reason[1][j] = ":"
      BY <1>1, <3>3, ColonOfReason
    <3>5. lines = <<>> /\ Len(lines) = 0
      BY <3>4, EmptySeq
    <3> QED
      BY <3>4, <3>5 DEF Misread
  <2>9. CASE \A i \in 1..Len(u) : u[i] # ":"
    <3>1. headers' = headers
      BY <2>4, <2>6, <2>7, <2>9, NoColon
    <3>2. HeadersAre(0)
      BY <1>1, <1>4, NoHeaders
    <3> QED
      BY <1>1, <1>3, <3>1, <3>2, KeptHeaders
  <2> QED
    BY <2>8, <2>9
<1>9. StatusInv'
  BY <1>1, <1>3, <1>7 DEF StatusInv
<1>10. CASE Len(lines) = 0
  <2>1. phase' = "read" /\ start_pos' = start_pos
    BY <1>3, <1>5, <1>10
  <2>2. HeadTypeOK'
    BY <1>1, <1>7, <2>1 DEF HeadTypeOK
  <2>3. PlaceInv'
    BY <1>6, <1>7, <1>8, <1>10, <2>1 DEF PlaceInv
  <2> QED
    BY <1>6, <1>9, <2>2, <2>3 DEF HeadInv
<1>11. CASE Len(lines) # 0
  <2>1. 0 < Len(lines) /\ 1 \in 1..Len(lines) /\ 0 + 1 = 1 /\ 1 - 1 = 0
    BY <1>4, <1>11
  <2>2. phase' = "headers" /\ start_pos' = Edge(0) + 2
    <3>1. Len(CRLF) = 2
      BY DEF CRLF
    <3> QED
      BY <1>3, <1>5, <2>1, <3>1
  <2>3. Begin(1) = Edge(0) + 3
    BY <1>1, <1>4, <2>1 DEF TextInv
  <2>4. start_pos' = Begin(1) - 1 /\ start_pos' \in Nat
    BY <1>4, <2>2, <2>3
  <2>5. HeadTypeOK'
    BY <1>1, <1>7, <2>2, <2>4 DEF HeadTypeOK
  <2>6. PlaceInv'
    <3>1. HeadersAre(1 - 1)'
      BY <1>8, <1>11, <2>1
    <3>2. 1 \in (LinesLost' + 1)..Len(lines') /\ start_pos' = Begin(1)' - 1
      BY <1>6, <1>7, <2>1, <2>4
    <3> QED
      BY <2>2, <3>1, <3>2 DEF PlaceInv
  <2> QED
    BY <1>6, <1>9, <2>5, <2>6 DEF HeadInv
<1> QED
  BY <1>10, <1>11

\* A round that starts at a header line reads it.
LEMMA LineRoundInv ==
    ASSUME HeadInv, HeaderLine, NEW k \in (LinesLost + 1)..Len(lines),
           start_pos = Begin(k) - 1, HeadersAre(k - 1)
    PROVE  HeadInv'
<1>1. HeadTypeOK /\ TextInv /\ StatusInv
  BY DEF HeadInv
<1>2. PICK end_pos, count :
         /\ end_pos = find(header_str, CRLF, start_pos)
         /\ count = IF end_pos = npos THEN npos ELSE end_pos - start_pos
  OBVIOUS
<1>3. /\ phase = "headers" /\ TextKept /\ UNCHANGED <<status, raised>>
      /\ headers' = WithLine(headers, substr(header_str, start_pos, count))
      /\ IF end_pos = npos THEN phase' = "read" /\ UNCHANGED start_pos
         ELSE start_pos' = end_pos + Len(CRLF) /\ phase' = phase
  BY <1>2 DEF HeaderLine, TextKept
<1>4. /\ LinesLost \in Nat /\ Len(lines) \in Nat
      /\ k \in 0..Len(lines) /\ k \in 1..Len(lines) /\ k # 0
  BY <1>1, LostIs
<1>5. /\ Begin(k) \in Nat \ {0} /\ Edge(k) \in Nat /\ Begin(k) <= Edge(k)
      /\ Edge(k) = Begin(k) + Len(Part(k)) - 1 /\ Len(Part(k)) \in Nat
      /\ Edge(k) <= Len(header_str) /\ Len(header_str) \in Nat
      /\ Part(k) = LineText(lines[k]) /\ lines[k] \in Lines /\ Part(k) \in Seq(Letters)
  BY <1>1, <1>4, PlaceIs, PartIs
<1>6. 1 < Begin(k)
  <2>1. Edge(0) + 2 < Begin(k) /\ Edge(0) \in Nat
    BY <1>1, <1>4, HeadStarts DEF TextInv
  <2> QED
    BY <1>5, <2>1
<1>7. /\ end_pos = IF k < Len(lines) THEN Edge(k) ELSE npos
      /\ k < Len(lines) => Edge(k) # npos
      /\ substr(header_str, start_pos, count) = SubSeq(header_str, start_pos + 1, Edge(k))
  <2>1. start_pos \in Nat \ {0} /\ Begin(k) - 1 <= start_pos /\ start_pos <= Edge(k)
    BY <1>5, <1>6
  <2> QED
    BY <1>1, <1>2, <1>4, <2>1, RoundIs
<1>8. substr(header_str, start_pos, count) = Part(k)
  <2>1. PICK a \in Nat \ {0}, e \in Nat : a = Begin(k) /\ e = Edge(k) /\ start_pos + 1 = a
    BY <1>5
  <2>2. PICK t : t = Part(k)
    OBVIOUS
  <2>3. PICK S : S = Letters \cup {"CR", "LF"}
    OBVIOUS
  <2>4. header_str \in Seq(S) /\ t \in Seq(S)
    BY <1>1, <1>5, <2>2, <2>3, Widened DEF HeadTypeOK, Texts
  <2>5. a <= e + 1 /\ e <= Len(header_str) /\ Len(t) = e + 1 - a
    <3>1. e = a + Len(t) - 1 /\ Len(t) \in Nat /\ a <= e /\ e <= Len(header_str)
      BY <1>5, <2>1, <2>2
    <3>2. e + 1 - a = Len(t) /\ a <= e + 1
      BY ONLY <3>1, a \in Nat \ {0}, e \in Nat
    <3> QED
      BY <3>1, <3>2
  <2>6. \A i \in 1..Len(t) : header_str[a + i - 1] = t[i]
    BY <1>1, <1>4, <2>1, <2>2 DEF TextInv
  <2>7. SubSeq(header_str, a, e) = t
    BY <2>4, <2>5, <2>6, PieceEquals
  <2> QED
    BY <1>7, <2>1, <2>2, <2>7
<1>9. headers' = Merged(headers, Lower(lines[k].key), Lower(lines[k].value))
  <2>1. npos \in Nat /\ Len(header_str) <= npos
    BY <1>1, NposIs
  <2>2. Len(Part(k)) <= npos
    BY <1>5, <2>1
  <2> QED
    BY <1>3, <1>5, <1>8, <2>1, <2>2, LineRead
<1>10. HeadersAre(k)'
  <2>1. UNCHANGED <<reason, lines>>
    BY <1>3 DEF TextKept
  <2> QED
    BY <1>1, <1>9, <2>1, MergedAre
<1>11. /\ TextInv' /\ LinesLost' = LinesLost /\ \A j : Begin(j)' = Begin(j)
  BY <1>1, <1>3, KeptText
<1>12. UNCHANGED <<code, reason, lines, starts, header_str>>
  BY <1>3 DEF TextKept
<1>13. StatusInv'
  BY <1>1, <1>3, <1>12 DEF StatusInv
<1>14. CASE k < Len(lines)
  <2>1. phase' = "headers" /\ start_pos' = Edge(k) + 2
    <3>1. Len(CRLF) = 2
      BY DEF CRLF
    <3> QED
      BY <1>3, <1>7, <1>14, <3>1
  <2>2. Begin(k + 1) = Edge(k) + 3
    BY <1>1, <1>4, <1>14 DEF TextInv
  <2>3. start_pos' = Begin(k + 1) - 1 /\ start_pos' \in Nat
    BY <1>5, <2>1, <2>2
  <2>4. HeadTypeOK'
    BY <1>1, <1>12, <2>1, <2>3 DEF HeadTypeOK
  <2>5. PlaceInv'
    <3>1. PICK j \in (LinesLost + 1)..Len(lines) : j = k + 1
      BY <1>4, <1>14
    <3>2. j - 1 = k
      BY <1>4, <3>1
    <3>3. HeadersAre(j - 1)'
      BY <1>10, <3>2
    <3>4. j \in (LinesLost' + 1)..Len(lines') /\ start_pos' = Begin(j)' - 1
      BY <1>11, <1>12, <2>3, <3>1
    <3> QED
      BY <2>1, <3>3, <3>4 DEF PlaceInv
  <2> QED
    BY <1>11, <1>13, <2>4, <2>5 DEF HeadInv
<1>15. CASE ~(k < Len(lines))
  <2>1. k = Len(lines)
    BY <1>4, <1>15
  <2>2. phase' = "read" /\ start_pos' = start_pos
    BY <1>3, <1>7, <1>15
  <2>3. HeadTypeOK'
    BY <1>1, <1>12, <2>2 DEF HeadTypeOK
  <2>4. HeadersAre(Len(lines))'
    BY <1>10, <1>12, <2>1
  <2>5. PlaceInv'
    BY <1>12, <2>2, <2>4 DEF PlaceInv
  <2> QED
    BY <1>11, <1>13, <2>3, <2>5 DEF HeadInv
<1> QED
  BY <1>14, <1>15

LEMMA HeaderLineInv == HeadInv /\ HeaderLine => HeadInv'
<1> SUFFICES ASSUME HeadInv, HeaderLine PROVE HeadInv'
  OBVIOUS
<1>1. \/ /\ start_pos = 1 /\ LinesLost = 0 /\ (reason = <<>> \/ lines = <<>>)
         /\ headers = [k \in {} |-> <<>>]
      \/ \E k \in (LinesLost + 1)..Len(lines) : start_pos = Begin(k) - 1 /\ HeadersAre(k - 1)
  BY DEF HeadInv, PlaceInv, HeaderLine
<1> QED
  BY <1>1, FirstRoundInv, LineRoundInv

LEMMA RestInv == HeadInv /\ (RaiseForStatus \/ UNCHANGED vars) => HeadInv'
<1> SUFFICES ASSUME HeadInv, RaiseForStatus \/ UNCHANGED vars PROVE HeadInv'
  OBVIOUS
<1>1. HeadTypeOK /\ TextInv /\ StatusInv /\ PlaceInv
  BY DEF HeadInv
<1>2. TextKept /\ UNCHANGED <<phase, start_pos, status, headers>>
  BY DEF RaiseForStatus, TextKept, vars
<1>3. UNCHANGED <<code, reason, lines, starts, header_str>>
  BY <1>2 DEF TextKept
<1>4. /\ TextInv' /\ LinesLost' = LinesLost /\ Misread' = Misread
      /\ \A k : Begin(k)' = Begin(k)
  BY <1>1, <1>2, KeptText
<1>5. HeadTypeOK'
  BY <1>1, <1>2, <1>3 DEF HeadTypeOK
<1>6. StatusInv'
  <2>1. status' = IF phase' = "sending" THEN NoStatus ELSE Codes[code']
    BY <1>1, <1>2, <1>3 DEF StatusInv
  <2>2. CASE RaiseForStatus
    <3>1. phase = "read" /\ raised' = (status > 299 \/ status < 200)
      BY <2>2 DEF RaiseForStatus
    <3>2. status \in Nat
      BY <1>1, <3>1, LettersAssumption DEF StatusInv, HeadTypeOK
    <3>3. raised' => status \notin 200..299
      <4> SUFFICES ASSUME raised' PROVE status \notin 200..299
        OBVIOUS
      <4>1. status > 299 \/ status < 200
        BY <3>1, Zenon
      <4> QED
        BY <3>2, <4>1
    <3> QED
      BY <1>2, <2>1, <3>1, <3>3 DEF StatusInv
  <2>3. CASE UNCHANGED vars
    BY <1>1, <1>2, <2>1, <2>3 DEF StatusInv, vars
  <2> QED
    BY <2>1, <2>2, <2>3
<1>7. PlaceInv'
  <2>1. ASSUME NEW k, HeadersAre(k) PROVE HeadersAre(k)'
    BY <1>1, <1>2, <2>1, KeptHeaders
  <2> QED
    BY <1>1, <1>2, <1>3, <1>4, <2>1 DEF PlaceInv
<1> QED
  BY <1>4, <1>5, <1>6, <1>7 DEF HeadInv

\* The head is laid out line by line, and what the header has are the values of the
\* lines that split has gone through (process_header_status_part, split,
\* process_headers, raise_for_status).
THEOREM HeadInvariant == Spec => []HeadInv
<1>1. HeadInv /\ [Next]_vars => HeadInv'
  BY SendLineInv, StatusPartInv, HeaderLineInv, RestInv DEF Next
<1> QED
  BY <1>1, InitInv, PTL DEF Spec

\* For heads of any length: the code is the server's, and every header has the
\* values of its lines, in order, but for the lines a missing space costs
\* (Response::from_raw_bytes).
THEOREM HeadsAreRead == Spec => []HeadIsRead
<1>1. HeadInv => HeadIsRead
  <2> SUFFICES ASSUME HeadInv PROVE HeadIsRead
    OBVIOUS
  <2>1. StatusInv /\ PlaceInv
    BY DEF HeadInv
  <2>2. status # NoStatus => status = Codes[code]
    BY <2>1 DEF StatusInv
  <2> QED
    BY <2>1, <2>2 DEF HeadIsRead, StatusInv, PlaceInv
<1> QED
  BY <1>1, HeadInvariant, PTL
==============================================================================
