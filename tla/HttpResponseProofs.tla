------------------------- MODULE HttpResponseProofs --------------------------
(***************************************************************************)
(* What TLAPS proves of HttpResponse, for payloads of any length, any      *)
(* lists of codings and any chunks: a whole body is decoded to the         *)
(* payload, and one that was cut is not taken for a shorter one.           *)
(***************************************************************************)
EXTENDS HttpResponse, SequenceLemmas

\* What a body is made of: payload, codings and framing.
Words  == {Lower(w) : w \in STRING}
Octet  == DataBytes \cup Words \cup Closing
          \cup {Hex[k] : k \in 1..16} \cup {"CR", "LF", ";", "x"}
Octets == Seq(Octet)

LineType  == [key : EncodingKeys \cup {"transfer-encoding"},
              items : Seq(STRING \cup {"chunked"})]
FrameType == [at : Nat \ {0}, size : [digits : Octets, extension : Octets],
              from : Nat, to : Nat]

RespTypeOK ==
    /\ payload \in Seq(DataBytes) /\ codings \in Seq(STRING)
    /\ chunked \in BOOLEAN /\ whole \in BOOLEAN
    /\ lines \in Seq(LineType)
    /\ layers \in Seq(Octets)
    /\ frames \in Seq(FrameType)
    /\ body \in Octets /\ result \in Octets /\ todo \in Seq(Words)
    /\ merged \in 0..Len(lines) /\ sol \in Nat \ {0}
    /\ phase \in {"sending", "sent", "headless", "response", "chunks", "codings"} \cup Ends

\* What the server's codings have made of the payload so far.
LayersInv ==
    /\ Len(layers) \in 1..(Len(codings) + 1) /\ layers[1] = payload
    /\ \A i \in 1..(Len(layers) - 1) : layers[i + 1] = Coded(layers[i], codings[i])
    /\ phase # "sending" \/ frames # <<>> => Encoded

\* The bytes of the body from a position on are those of a part, as far as the
\* body goes.
Agrees(from, part) ==
    \A i \in 1..Len(part) : from + i - 1 <= Len(body) => body[from + i - 1] = part[i]

\* How long the size line and the data of a chunk are.
LineOf(f)  == Len(f.size.digits) + Len(f.size.extension)
CarryOf(f) == f.to - f.from

IsFrame(f) ==
    /\ f \in FrameType /\ f.from <= f.to /\ f.to <= Len(Content)
    /\ CarryOf(f) <= MaxChunk /\ f.size \in SizeLines(CarryOf(f))

\* How much was sent up to and with the chunk k.
SentBy(k)  == IF k = 0 THEN 0 ELSE frames[k].to
BytesBy(k) == IF k = 0 THEN 0
              ELSE frames[k].at + LineOf(frames[k]) + CarryOf(frames[k]) + 3

\* The chunks lie in the body one behind the other and carry the content piece by
\* piece; only the last one is empty.
FramesInv ==
    chunked =>
        /\ \A k \in 1..Len(frames) :
              LET f == frames[k]
              IN  /\ f.at = BytesBy(k - 1) + 1 /\ f.from = SentBy(k - 1)
                  /\ IsFrame(f) /\ Agrees(f.at, Bytes(f))
                  /\ f.from = f.to <=> phase # "sending" /\ k = Len(frames)
        /\ phase # "sending" => frames # <<>> /\ Sent = Len(Content)
        /\ IF whole THEN Len(body) = BytesBy(Len(frames)) ELSE Len(body) < BytesBy(Len(frames))

\* A body in one piece is the content, or a part of it if the connection was cut.
PlainInv ==
    ~chunked =>
        /\ frames = <<>> /\ (phase = "sending" => body = <<>>)
        /\ phase # "sending" =>
              /\ whole => body = Content
              /\ ~whole => body = <<>> \/ (Len(body) < Len(Content) /\ IsPrefix(body, Content))

\* The lines that list codings come first, one for each coding or one for all.
Listing == Len(lines) - (IF chunked THEN 1 ELSE 0)

OneEach == Listing = Len(codings) /\ \A i \in 1..Listing : lines[i].items = <<codings[i]>>
OneLine == Listing = 1 /\ codings # <<>> /\ lines[1].items = codings

LinesInv ==
    /\ Listing \in 0..Len(lines) /\ (chunked => lines[Len(lines)] = Chunked)
    /\ \A i \in 1..Listing : lines[i].key \in EncodingKeys

\* The first n codings in lower case.
Lowered(n) == [i \in 1..n |-> Lower(codings[i])]

\* What the header has of the lines read.
HeadersInv ==
    /\ Header("transfer-encoding") = IF merged > Listing THEN <<"chunked">> ELSE <<>>
    /\ \/ OneEach /\ Header("content-encoding")
                         = Lowered(IF merged > Listing THEN Listing ELSE merged)
       \/ OneLine /\ Header("content-encoding")
                         = Lowered(IF merged = 0 THEN 0 ELSE Len(codings))

\* A connection is cut after all was sent, and the loop over the chunks stands at
\* the beginning of one of them, with what those before it carry.
PhaseInv ==
    /\ ~whole => phase # "sending"
    /\ phase = "headless" => ~whole
    /\ phase \in {"sending", "sent", "headless", "response"} => sol = 1
    /\ phase = "chunks" =>
          /\ chunked /\ sol <= End
          /\ \E k \in 1..Len(frames) :
                sol = frames[k].at /\ result = SubSeq(Content, 1, frames[k].from)

\* The codings that are still to be undone; all others are known to the client.
Known == {"gzip", "identity"}

TodoInv ==
    phase \in {"chunks", "codings", "done"} =>
        /\ Len(todo) <= Len(codings) /\ todo = Lowered(Len(todo))
        /\ \A i \in (Len(todo) + 1)..Len(codings) : Lower(codings[i]) \in Known
        /\ phase = "chunks" => Len(todo) = Len(codings)
        /\ phase = "done" => todo = <<>>

\* The body decoded so far is what the codings that are still to be undone have
\* made of the payload; or else a plain body was cut, and no gzip undone yet.
ResultInv ==
    phase \in {"codings", "done"} /\ Supported =>
        \/ /\ ~whole /\ ~chunked
           /\ \/ body = <<>>
              \/ /\ result = body
                 /\ Len(body) < Len(layers[Len(todo) + 1])
                 /\ IsPrefix(body, layers[Len(todo) + 1])
                 /\ \A i \in (Len(todo) + 1)..Len(codings) : Lower(codings[i]) = "identity"
        \/ \E tail \in {<<>>, <<"CR">>} :
              /\ whole => tail = <<>>
              /\ result = layers[Len(todo) + 1] \o tail

NoErrorInv == whole /\ Supported => phase \notin Errors \cup {"undefined"}

RespInv ==
    /\ RespTypeOK /\ LayersInv /\ FramesInv /\ PlainInv /\ LinesInv /\ HeadersInv
    /\ PhaseInv /\ TodoInv /\ ResultInv /\ NoErrorInv
------------------------------------------------------------------------------
(* Searching the body.                                                       *)

\* The end of a search: no part begins before e with the first byte of what is searched.
LEMMA SearchEnds ==
    ASSUME body \in Octets, NEW part \in Octets, part # <<>>, NEW from \in Nat \ {0},
           NEW e \in from..End, \A i \in from..(e - 1) : body[i] # part[1]
    PROVE  /\ e + Len(part) - 1 <= Len(body) /\ SubSeq(body, e, e + Len(part) - 1) = part
                  => Search(part, from) = e
           /\ e + Len(part) - 1 > Len(body) => Search(part, from) = End
           /\ Search(part, from) \in e..End
<1> DEFINE found == {i \in from..(End - Len(part)) : SubSeq(body, i, i + Len(part) - 1) = part}
<1>0. Len(body) \in Nat /\ End = Len(body) + 1 /\ Len(part) \in Nat \ {0} /\ e \in Int
  BY EmptySeq DEF End, Octets
<1>1. \A i \in found : i >= e
  <2> SUFFICES ASSUME NEW i \in found, i < e PROVE FALSE
    BY <1>0
  <2>1. i \in from..(e - 1) /\ SubSeq(body, i, i + Len(part) - 1)[1] = body[i]
    BY <1>0 DEF Octets
  <2> QED
    BY <2>1
<1>2. Search(part, from) = IF found = {} THEN End ELSE Min(found)
  BY DEF Search
<1>3. found \subseteq Int
  BY <1>0
<1>4. ASSUME e + Len(part) - 1 <= Len(body), SubSeq(body, e, e + Len(part) - 1) = part
      PROVE  Search(part, from) = e
  <2>1. e \in found
    BY <1>0, <1>4
  <2> HIDE DEF found
  <2> QED
    BY <1>1, <1>2, <1>3, <2>1, MinIs
<1>5. ASSUME e + Len(part) - 1 > Len(body) PROVE Search(part, from) = End
  <2>1. found = {}
    BY <1>0, <1>1, <1>5
  <2> QED
    BY <1>2, <2>1
<1>6. Search(part, from) \in e..End
  <2>1. CASE found = {}
    BY <1>0, <1>2, <2>1
  <2>2. CASE found # {}
    <3>1. found \subseteq 0..Len(body)
      BY <1>0
    <3> HIDE DEF found
    <3>2. Min(found) \in found
      BY <1>0, <2>2, <3>1, MinIsLeast
    <3>3. Min(found) \in 0..Len(body) /\ Min(found) >= e
      BY <1>1, <3>1, <3>2
    <3> QED
      BY <1>0, <1>2, <2>2, <3>3
  <2> QED
    BY <2>1, <2>2
<1> QED
  BY <1>4, <1>5, <1>6
------------------------------------------------------------------------------
(* The size lines and the bytes of a chunk.                                  *)

LEMMA HexDigits ==
    ASSUME NEW n \in 0..15
    PROVE  /\ Hex[n + 1] \in Octet /\ Contains(Hex, Hex[n + 1])
           /\ Hex[n + 1] # "CR" /\ Hex[n + 1] # ";"
           /\ DigitValue(Hex[n + 1]) = n
<1>1. Len(Hex) = 16 /\ n + 1 \in 1..16
  BY DEF Hex
<1>2. /\ Hex[1] = "0" /\ Hex[2] = "1" /\ Hex[3] = "2" /\ Hex[4] = "3"
      /\ Hex[5] = "4" /\ Hex[6] = "5" /\ Hex[7] = "6" /\ Hex[8] = "7"
      /\ Hex[9] = "8" /\ Hex[10] = "9" /\ Hex[11] = "a" /\ Hex[12] = "b"
      /\ Hex[13] = "c" /\ Hex[14] = "d" /\ Hex[15] = "e" /\ Hex[16] = "f"
  BY DEF Hex
<1>3. n \in {0, 1, 2, 3, 4, 5, 6, 7, 8, 9, 10, 11, 12, 13, 14, 15}
  OBVIOUS
<1>4. Hex[n + 1] # "CR" /\ Hex[n + 1] # ";"
  <2>1. Hex[n + 1] \in {"0", "1", "2", "3", "4", "5", "6", "7",
                       "8", "9", "a", "b", "c", "d", "e", "f"}
    BY <1>2, <1>3
  <2> QED
    BY <2>1
<1>5. \A v \in 0..15 : Hex[v + 1] = Hex[n + 1] => v = n
  BY <1>2
<1>6. DigitValue(Hex[n + 1]) = n
  BY <1>5 DEF DigitValue
<1> QED
  BY <1>1, <1>4, <1>6 DEF Contains, Octet

\* The number that one or two digits stand for.
LEMMA NumberOfDigits ==
    ASSUME NEW m \in 0..15, NEW l \in 0..15
    PROVE  /\ Digits = <<Hex[m + 1]>> => IsSize /\ ChunkSize = m
           /\ Digits = <<Hex[m + 1], Hex[l + 1]>> => IsSize /\ ChunkSize = 16 * m + l
<1> DEFINE Step(f) == [k \in 0..Len(Digits) |->
                          IF k = 0 THEN 0 ELSE 16 * f[k - 1] + DigitValue(Digits[k])]
           value   == CHOOSE f : f = Step(f)
<1>1. ChunkSize = value[Len(Digits)]
  BY DEF ChunkSize
<1>2. ASSUME NEW g, g = Step(g) PROVE value = Step(value)
  BY <1>2
<1> HIDE DEF value
<1>3. ASSUME Digits = <<Hex[m + 1]>>
      PROVE  IsSize /\ ChunkSize = m
  <2>1. Len(Digits) = 1 /\ Digits[1] = Hex[m + 1] /\ DigitValue(Digits[1]) = m
    BY <1>3, HexDigits
  <2>2. value = Step(value)
    <3> DEFINE g == [k \in 0..1 |-> IF k = 0 THEN 0 ELSE m]
    <3>1. g = Step(g)
      BY <2>1
    <3> QED
      BY <1>2, <3>1
  <2>3. value[0] = 0
    BY <2>1, <2>2
  <2>4. value[1] = 16 * value[0] + DigitValue(Digits[1])
    BY <2>1, <2>2
  <2>5. ChunkSize = m
    BY <1>1, <2>1, <2>3, <2>4
  <2>6. Contains(Hex, Digits[1])
    BY <2>1, HexDigits
  <2>7. Digits # <<>>
    BY <1>3
  <2>8. IsSize
    BY <2>1, <2>6, <2>7 DEF IsSize
  <2> QED
    BY <2>5, <2>8
<1>4. ASSUME Digits = <<Hex[m + 1], Hex[l + 1]>>
      PROVE  IsSize /\ ChunkSize = 16 * m + l
  <2>1. /\ Len(Digits) = 2 /\ Digits[1] = Hex[m + 1] /\ Digits[2] = Hex[l + 1]
        /\ DigitValue(Digits[1]) = m /\ DigitValue(Digits[2]) = l
    BY <1>4, HexDigits
  <2>2. value = Step(value)
    <3> DEFINE g == [k \in 0..2 |-> IF k = 0 THEN 0 ELSE IF k = 1 THEN m ELSE 16 * m + l]
    <3>1. g = Step(g)
      BY <2>1
    <3> QED
      BY <1>2, <3>1
  <2>3. value[0] = 0
    BY <2>1, <2>2
  <2>4. value[1] = 16 * value[0] + DigitValue(Digits[1])
    BY <2>1, <2>2
  <2>5. value[2] = 16 * value[1] + DigitValue(Digits[2])
    BY <2>1, <2>2
  <2>6. ChunkSize = 16 * m + l
    BY <1>1, <2>1, <2>3, <2>4, <2>5
  <2>7. Contains(Hex, Digits[1]) /\ Contains(Hex, Digits[2])
    BY <2>1, HexDigits
  <2>8. Digits # <<>>
    BY <1>4
  <2>9. IsSize
    BY <2>1, <2>7, <2>8 DEF IsSize
  <2> QED
    BY <2>6, <2>9
<1> QED
  BY <1>3, <1>4

\* Every size line of n is read as n, and has no byte that the search would stop at.
LEMMA SizeLine ==
    ASSUME NEW n \in 0..MaxChunk, NEW size \in SizeLines(n)
    PROVE  /\ size.digits \in Octets /\ size.extension \in {<<>>, <<";", "x">>}
           /\ size.digits # <<>>
           /\ \A i \in 1..Len(size.digits) : size.digits[i] # "CR" /\ size.digits[i] # ";"
           /\ Digits = size.digits => IsSize /\ ChunkSize = n
<1>1. n \in 0..255 /\ n \div 16 \in 0..15 /\ n % 16 \in 0..15 /\ n = 16 * (n \div 16) + (n % 16)
  BY DEF MaxChunk
<1> DEFINE m == n \div 16
           l == n % 16
<1>2. CASE size = [digits |-> <<Hex[m + 1], Hex[l + 1]>>, extension |-> <<";", "x">>]
  <2> HIDE DEF m, l
  <2>1. m \in 0..15 /\ l \in 0..15 /\ n = 16 * m + l
    BY <1>1 DEF m, l
  <2>2. /\ Hex[m + 1] \in Octet /\ Hex[m + 1] # "CR" /\ Hex[m + 1] # ";"
        /\ Hex[l + 1] \in Octet /\ Hex[l + 1] # "CR" /\ Hex[l + 1] # ";"
    BY <2>1, HexDigits
  <2>3. size.digits = <<Hex[m + 1], Hex[l + 1]>> /\ size.extension = <<";", "x">>
    BY <1>2
  <2>4. Digits = size.digits => IsSize /\ ChunkSize = n
    BY <2>1, <2>3, NumberOfDigits
  <2>5. size.digits \in Octets /\ size.digits # <<>> /\ Len(size.digits) = 2
    <3> DEFINE d == <<Hex[m + 1], Hex[l + 1]>>
    <3>1. d \in Octets /\ d # <<>> /\ Len(d) = 2
      BY <2>2, ShortSequences DEF Octets
    <3> QED
      BY <2>3, <3>1
  <2>6. size.digits[1] = Hex[m + 1] /\ size.digits[2] = Hex[l + 1]
    <3> DEFINE d == <<Hex[m + 1], Hex[l + 1]>>
    <3>1. d[1] = Hex[m + 1] /\ d[2] = Hex[l + 1]
      OBVIOUS
    <3> HIDE DEF d
    <3> QED
      BY <2>3, <3>1 DEF d
  <2>7. \A i \in 1..Len(size.digits) : size.digits[i] # "CR" /\ size.digits[i] # ";"
    <3> SUFFICES ASSUME NEW i \in 1..2
                 PROVE  size.digits[i] # "CR" /\ size.digits[i] # ";"
      BY <2>5
    <3>1. i = 1 \/ i = 2
      OBVIOUS
    <3> QED
      BY <2>2, <2>6, <3>1
  <2> QED
    BY <2>3, <2>4, <2>5, <2>7
<1>3. CASE n < 16 /\ size = [digits |-> <<Hex[n + 1]>>, extension |-> <<>>]
  <2> n \in 0..15
    BY <1>1, <1>3
  <2>1. Hex[n + 1] \in Octet /\ Hex[n + 1] # "CR" /\ Hex[n + 1] # ";"
    BY HexDigits
  <2>2. size.digits = <<Hex[n + 1]>> /\ size.extension = <<>>
    BY <1>3
  <2>3. Digits = size.digits => IsSize /\ ChunkSize = n
    BY <2>2, NumberOfDigits
  <2>4. size.digits \in Octets /\ size.digits # <<>> /\ Len(size.digits) = 1
    <3> DEFINE d == <<Hex[n + 1]>>
    <3>1. d \in Octets /\ d # <<>> /\ Len(d) = 1
      BY <2>1, ShortSequences DEF Octets
    <3> QED
      BY <2>2, <3>1
  <2>5. size.digits[1] = Hex[n + 1]
    <3> DEFINE d == <<Hex[n + 1]>>
    <3>1. d[1] = Hex[n + 1]
      OBVIOUS
    <3> QED
      BY <2>2, <3>1
  <2>6. \A i \in 1..Len(size.digits) : size.digits[i] # "CR" /\ size.digits[i] # ";"
    <3> SUFFICES ASSUME NEW i \in 1..1
                 PROVE  size.digits[i] # "CR" /\ size.digits[i] # ";"
      BY <2>4
    <3>1. i = 1
      OBVIOUS
    <3> QED
      BY <2>1, <2>5, <3>1
  <2> QED
    BY <2>2, <2>3, <2>4, <2>6
<1> QED
  BY <1>2, <1>3 DEF SizeLines

LEMMA CRLFIs == CRLF \in Octets /\ Len(CRLF) = 2 /\ CRLF[1] = "CR" /\ CRLF[2] = "LF"
<1>1. "CR" \in Octet /\ "LF" \in Octet
  BY DEF Octet
<1> QED
  BY <1>1, ShortSequences DEF CRLF, Octets

LEMMA ExtensionIs ==
    ASSUME NEW x \in {<<>>, <<";", "x">>}
    PROVE  /\ x \in Octets /\ (x # <<>> => Len(x) = 2 /\ x[1] = ";")
           /\ \A i \in 1..Len(x) : x[i] # "CR"
<1>1. CASE x = <<>>
  BY <1>1, EmptySeq DEF Octets
<1>2. CASE x = <<";", "x">>
  <2>1. ";" \in Octet /\ "x" \in Octet
    BY DEF Octet
  <2>2. PICK y : y = <<";", "x">>
    OBVIOUS
  <2>3. y \in Octets /\ Len(y) = 2 /\ y[1] = ";" /\ y[2] = "x"
    BY <2>1, <2>2, ShortSequences DEF Octets
  <2>5. \A i \in 1..2 : y[i] # "CR"
    BY <2>3, TwoIndices
  <2>6. x = y
    BY <1>2, <2>2
  <2> QED
    BY <2>3, <2>5, <2>6
<1> QED
  BY <1>1, <1>2

\* The parts of a chunk, whatever they are.
Layout(d, x, c, w, l) ==
    /\ w \in Octets /\ Len(w) = l + Len(c) + 4 /\ l \in Nat
    /\ \A i \in 1..Len(d) : w[i] = d[i]
    /\ \A i \in 1..Len(x) : w[Len(d) + i] = x[i]
    /\ w[l + 1] = "CR" /\ w[l + 2] = "LF"
    /\ \A i \in 1..Len(c) : w[l + 2 + i] = c[i]
    /\ w[l + Len(c) + 3] = "CR" /\ w[l + Len(c) + 4] = "LF"

LEMMA ChunkParts ==
    ASSUME NEW d \in Octets, NEW x \in Octets, NEW c \in Octets
    PROVE  Layout(d, x, c, d \o x \o CRLF \o c \o CRLF, Len(d) + Len(x))
<1>0. PICK w, l : w = d \o x \o CRLF \o c \o CRLF /\ l = Len(d) + Len(x)
  OBVIOUS
<1>1. Len(d) \in Nat /\ Len(x) \in Nat /\ Len(c) \in Nat
  BY DEF Octets
<1>2. PICK e \in Octets : e = CRLF /\ Len(e) = 2 /\ e[1] = "CR" /\ e[2] = "LF"
  BY CRLFIs
<1>3. w = d \o x \o e \o c \o e
  BY <1>0, <1>2
<1>4. /\ w \in Octets /\ Len(w) = Len(d) + Len(x) + Len(e) + Len(c) + Len(e)
      /\ \A i \in 1..Len(d) : w[i] = d[i]
      /\ \A i \in 1..Len(x) : w[Len(d) + i] = x[i]
      /\ \A i \in 1..Len(e) : w[Len(d) + Len(x) + i] = e[i]
      /\ \A i \in 1..Len(c) : w[Len(d) + Len(x) + Len(e) + i] = c[i]
      /\ \A i \in 1..Len(e) : w[Len(d) + Len(x) + Len(e) + Len(c) + i] = e[i]
  <2> USE DEF Octets
  <2> QED
    BY ONLY d \in Octets, x \in Octets, c \in Octets, e \in Octets, <1>3, FiveParts
<1>5. Len(w) = l + Len(c) + 4 /\ l \in Nat
  BY <1>0, <1>1, <1>2, <1>4
<1>6. 1 \in 1..Len(e) /\ 2 \in 1..Len(e)
  BY <1>2
<1>7. w[l + 1] = "CR" /\ w[l + 2] = "LF"
  BY <1>0, <1>2, <1>4, <1>6
<1>8. \A i \in 1..Len(c) : w[l + 2 + i] = c[i]
  BY <1>0, <1>2, <1>4
<1>9. w[l + 2 + Len(c) + 1] = "CR" /\ w[l + 2 + Len(c) + 2] = "LF"
  BY <1>0, <1>2, <1>4, <1>6
<1>10. l + 2 + Len(c) + 1 = l + Len(c) + 3 /\ l + 2 + Len(c) + 2 = l + Len(c) + 4
  BY <1>1, <1>5
<1> QED
  BY <1>0, <1>4, <1>5, <1>7, <1>8, <1>9, <1>10 DEF Layout

\* What a chunk looks like.
Chunk(w, d, x, l, n, from) ==
    /\ w \in Octets /\ Len(w) = l + n + 4 /\ l \in Nat \ {0} /\ n \in 0..MaxChunk
    /\ d \in Octets /\ x \in Octets /\ l = Len(d) + Len(x)
    /\ \A i \in 1..Len(d) : w[i] = d[i] /\ d[i] # "CR" /\ d[i] # ";"
    /\ \A i \in 1..l : w[i] # "CR"
    /\ x # <<>> => w[Len(d) + 1] = ";" /\ Len(x) = 2
    /\ Digits = d => IsSize /\ ChunkSize = n
    /\ w[l + 1] = "CR" /\ w[l + 2] = "LF"
    /\ \A i \in 1..n : w[l + 2 + i] = Content[from + i]
    /\ w[l + n + 3] = "CR" /\ w[l + n + 4] = "LF"

LEMMA BytesOf ==
    ASSUME Content \in Octets, NEW f, IsFrame(f)
    PROVE  Chunk(Bytes(f), f.size.digits, f.size.extension, LineOf(f), CarryOf(f), f.from)
<1>0. PICK l, n, w, d, x : /\ l = LineOf(f) /\ n = CarryOf(f) /\ w = Bytes(f)
                           /\ d = f.size.digits /\ x = f.size.extension
  OBVIOUS
<1>1. /\ f.from \in Nat /\ f.to \in Nat /\ f.from <= f.to /\ f.to <= Len(Content)
      /\ n = f.to - f.from /\ f.size \in SizeLines(n) /\ n <= MaxChunk
  BY <1>0 DEF IsFrame, FrameType, CarryOf
<1>2. n \in 0..MaxChunk
  <2>1. PICK p \in Nat, q \in Nat : p = f.from /\ q = f.to
    BY <1>1
  <2>2. p <= q /\ n = q - p /\ n <= MaxChunk
    BY <1>1, <2>1
  <2> QED
    BY ONLY p \in Nat, q \in Nat, <2>2 DEF MaxChunk
<1>3. /\ d \in Octets /\ d # <<>> /\ x \in {<<>>, <<";", "x">>}
      /\ \A i \in 1..Len(d) : d[i] # "CR" /\ d[i] # ";"
      /\ Digits = d => IsSize /\ ChunkSize = n
  BY <1>0, <1>1, <1>2, SizeLine
<1>4. /\ x \in Octets /\ (x # <<>> => Len(x) = 2 /\ x[1] = ";")
      /\ \A i \in 1..Len(x) : x[i] # "CR"
  BY <1>3, ExtensionIs
<1>5. PICK c : c = SubSeq(Content, f.from + 1, f.to)
  OBVIOUS
<1>6. c \in Octets /\ Len(c) = n /\ \A i \in 1..n : c[i] = Content[f.from + i]
  <2>1. PICK p \in Nat, q \in Nat : p = f.from /\ q = f.to
    BY <1>1
  <2>2. \A i \in (p + 1)..q : Content[i] \in Octet
    BY <1>1, <2>1 DEF Octets
  <2>3. p <= q /\ n = q - p /\ c = SubSeq(Content, p + 1, q)
    BY <1>1, <1>5, <2>1
  <2>4. /\ c \in Seq(Octet) /\ Len(c) = IF p + 1 <= q THEN q - (p + 1) + 1 ELSE 0
        /\ \A i \in 1..(q - (p + 1) + 1) : c[i] = Content[p + 1 + i - 1]
    BY <2>2, <2>3, SubSeqProperties
  <2>5. Len(c) = n /\ q - (p + 1) + 1 = n
    BY ONLY p \in Nat, q \in Nat, <2>3, <2>4
  <2>6. \A i \in 1..n : c[i] = Content[p + i]
    BY ONLY p \in Nat, q \in Nat, <2>3, <2>4, <2>5
  <2> QED
    BY <2>1, <2>4, <2>5, <2>6 DEF Octets
<1>7. w = d \o x \o CRLF \o c \o CRLF
  BY <1>0, <1>5 DEF Bytes
<1>8. l = Len(d) + Len(x)
  BY <1>0 DEF LineOf
<1>9. /\ w \in Octets /\ Len(w) = l + Len(c) + 4 /\ l \in Nat
      /\ \A i \in 1..Len(d) : w[i] = d[i]
      /\ \A i \in 1..Len(x) : w[Len(d) + i] = x[i]
      /\ w[l + 1] = "CR" /\ w[l + 2] = "LF"
      /\ \A i \in 1..Len(c) : w[l + 2 + i] = c[i]
      /\ w[l + Len(c) + 3] = "CR" /\ w[l + Len(c) + 4] = "LF"
  <2>1. d \in Octets /\ x \in Octets /\ c \in Octets
    BY <1>3, <1>4, <1>6
  <2>2. Layout(d, x, c, d \o x \o CRLF \o c \o CRLF, Len(d) + Len(x))
    BY <2>1, ChunkParts
  <2> QED
    BY ONLY <1>7, <1>8, <2>2 DEF Layout
<1>10. Len(d) \in Nat \ {0} /\ Len(x) \in Nat
  BY ONLY <1>3, <1>4, EmptySeq DEF Octets
<1>11. l \in Nat \ {0}
  BY ONLY <1>8, <1>10
<1>12. \A i \in 1..l : w[i] # "CR"
  <2> SUFFICES ASSUME NEW i \in 1..l PROVE w[i] # "CR"
    OBVIOUS
  <2>1. CASE i \in 1..Len(d)
    BY ONLY <1>3, <1>9, <2>1
  <2>2. CASE i - Len(d) \in 1..Len(x)
    <3>1. i = Len(d) + (i - Len(d))
      BY ONLY i \in 1..l, <1>10, <1>11
    <3> QED
      BY ONLY <1>4, <1>9, <2>2, <3>1
  <2>3. i \in 1..Len(d) \/ i - Len(d) \in 1..Len(x)
    BY ONLY i \in 1..l, <1>8, <1>10, <1>11
  <2> QED
    BY <2>1, <2>2, <2>3
<1>13. x # <<>> => w[Len(d) + 1] = ";" /\ Len(x) = 2
  <2> SUFFICES ASSUME x # <<>> PROVE w[Len(d) + 1] = ";" /\ Len(x) = 2
    OBVIOUS
  <2>1. Len(x) = 2 /\ x[1] = ";"
    BY <1>4
  <2>2. 1 \in 1..Len(x)
    BY ONLY <2>1, TwoIndices
  <2> QED
    BY ONLY <1>9, <2>1, <2>2
<1>14. /\ Len(w) = l + n + 4 /\ w[l + n + 3] = "CR" /\ w[l + n + 4] = "LF"
       /\ \A i \in 1..n : w[l + 2 + i] = Content[f.from + i]
  BY ONLY <1>6, <1>9
<1>15. \A i \in 1..Len(d) : w[i] = d[i] /\ d[i] # "CR" /\ d[i] # ";"
  BY <1>3, <1>9
<1> QED
  <2>1. d \in Octets /\ x \in Octets /\ w \in Octets /\ w[l + 1] = "CR" /\ w[l + 2] = "LF"
    BY <1>3, <1>4, <1>9
  <2>2. Digits = d => IsSize /\ ChunkSize = n
    BY <1>3
  <2> QED
    BY ONLY <1>0, <1>2, <1>8, <1>11, <1>12, <1>13, <1>14, <1>15, <2>1, <2>2 DEF Chunk

------------------------------------------------------------------------------
(* Reading a chunk.                                                          *)

LEMMA CRLFAt ==
    ASSUME body \in Octets, NEW e \in Nat \ {0}, e + 1 <= Len(body),
           body[e] = "CR", body[e + 1] = "LF"
    PROVE  SubSeq(body, e, e + 1) = CRLF
<1>1. Len(body) \in Nat
  BY DEF Octets
<1>2. \A i \in e..(e + 1) : body[i] \in Octet
  BY <1>1 DEF Octets
<1>3. PICK s : s = SubSeq(body, e, e + 1)
  OBVIOUS
<1>4. /\ s \in Octets /\ Len(s) = IF e <= e + 1 THEN (e + 1) - e + 1 ELSE 0
      /\ \A i \in 1..((e + 1) - e + 1) : s[i] = body[e + i - 1]
  BY <1>2, <1>3, SubSeqProperties DEF Octets
<1>5. Len(s) = 2 /\ s[1] = body[e] /\ s[2] = body[e + 1]
  <2>1. 1 \in 1..((e + 1) - e + 1) /\ 2 \in 1..((e + 1) - e + 1)
    OBVIOUS
  <2>2. e + 1 - 1 = e /\ e + 2 - 1 = e + 1 /\ e <= e + 1 /\ (e + 1) - e + 1 = 2
    OBVIOUS
  <2> QED
    BY <1>4, <2>1, <2>2
<1>6. PICK c : c = CRLF
  OBVIOUS
<1>7. c \in Octets /\ Len(c) = 2 /\ c[1] = "CR" /\ c[2] = "LF"
  BY <1>6, CRLFIs
<1>8. \A i \in 1..Len(s) : s[i] = c[i]
  BY <1>5, <1>7, TwoIndices
<1> QED
  BY <1>3, <1>4, <1>5, <1>6, <1>7, <1>8, SeqEqual DEF Octets

LEMMA OneByte ==
    ASSUME body \in Octets, NEW p \in Nat \ {0}, p <= Len(body)
    PROVE  SubSeq(body, p, p) = <<body[p]>>
<1>1. Len(body) \in Nat /\ p \in 1..Len(body)
  BY DEF Octets
<1>2. PICK c : c = body[p]
  OBVIOUS
<1>3. c \in Octet
  BY <1>1, <1>2, ElementOfSeq DEF Octets
<1>4. \A i \in p..p : body[i] \in Octet
  BY <1>2, <1>3
<1>5. PICK s, t : s = SubSeq(body, p, p) /\ t = <<c>>
  OBVIOUS
<1>6. /\ s \in Octets /\ Len(s) = IF p <= p THEN p - p + 1 ELSE 0
      /\ \A i \in 1..(p - p + 1) : s[i] = body[p + i - 1]
  BY <1>4, <1>5, SubSeqProperties DEF Octets
<1>7. (IF p <= p THEN p - p + 1 ELSE 0) = 1 /\ p - p + 1 = 1 /\ p + 1 - 1 = p /\ 1 \in 1..1
  OBVIOUS
<1>8. Len(s) = 1 /\ s[1] = c
  BY <1>2, <1>6, <1>7
<1>9. t \in Octets /\ Len(t) = 1 /\ t[1] = c
  BY <1>3, <1>5, ShortSequences DEF Octets
<1>10. \A i \in 1..1 : i = 1
  OBVIOUS
<1>11. s = t
  BY <1>6, <1>8, <1>9, <1>10, SeqEqual DEF Octets
<1> QED
  BY <1>2, <1>5, <1>11

\* The end of line that is searched is the one behind the size, if it is in the body.
LEMMA EolIs ==
    ASSUME body \in Octets, NEW from \in Nat \ {0}, NEW l \in Nat, from <= End,
           \A i \in from..(from + l - 1) : i <= Len(body) => body[i] # "CR",
           from + l <= Len(body) => body[from + l] = "CR",
           from + l + 1 <= Len(body) => body[from + l + 1] = "LF"
    PROVE  Search(CRLF, from) = IF from + l + 1 <= Len(body) THEN from + l ELSE End
<1>1. Len(body) \in Nat /\ End = Len(body) + 1
  BY DEF Octets, End
<1>2. PICK c \in Octets : c = CRLF /\ c # <<>> /\ Len(c) = 2 /\ c[1] = "CR"
  <2>1. CRLF # <<>>
    BY DEF CRLF
  <2> QED
    BY <2>1, CRLFIs
<1>3. PICK e \in Int : e = IF from + l <= End THEN from + l ELSE End
  BY <1>1
<1>4. e \in from..End /\ \A i \in from..(e - 1) : body[i] # c[1]
  BY <1>1, <1>2, <1>3
<1>5. /\ e + 2 - 1 <= Len(body) /\ SubSeq(body, e, e + 2 - 1) = CRLF => Search(CRLF, from) = e
      /\ e + 2 - 1 > Len(body) => Search(CRLF, from) = End
  BY <1>2, <1>4, SearchEnds
<1>6. CASE from + l + 1 <= Len(body)
  <2>1. e = from + l /\ e \in Nat \ {0} /\ e + 1 <= Len(body) /\ e + 2 - 1 = e + 1
    BY <1>1, <1>3, <1>6
  <2>2. SubSeq(body, e, e + 1) = CRLF
    <3>1. body[e] = "CR" /\ body[e + 1] = "LF"
      BY <1>1, <1>6, <2>1
    <3> QED
      BY <2>1, <3>1, CRLFAt
  <2> QED
    BY <1>5, <1>6, <2>1, <2>2
<1>7. CASE ~(from + l + 1 <= Len(body))
  <2>1. e + 2 - 1 > Len(body)
    BY <1>1, <1>3, <1>7
  <2> QED
    BY <1>5, <1>7, <2>1
<1> QED
  BY <1>6, <1>7

\* What of the chunk f is in the body is where the loop looks for it.
LEMMA LineOfChunk ==
    ASSUME body \in Octets, sol \in Nat \ {0}, sol <= End,
           NEW w, NEW d, NEW x, NEW l, NEW n, NEW from, Chunk(w, d, x, l, n, from),
           Agrees(sol, w)
    PROVE  IF sol + l + 1 <= Len(body)
           THEN Eol = sol + l /\ Eol # End /\ Data = sol + l + 2 /\ IsSize /\ ChunkSize = n
           ELSE Eol = End
<1>1. Len(body) \in Nat /\ End = Len(body) + 1 /\ sol \in Nat \ {0}
  BY DEF Octets, End
<1>2. /\ w \in Octets /\ Len(w) = l + n + 4 /\ l \in Nat \ {0} /\ n \in 0..MaxChunk
      /\ d \in Octets /\ x \in Octets /\ l = Len(d) + Len(x)
      /\ \A i \in 1..Len(d) : w[i] = d[i] /\ d[i] # "CR" /\ d[i] # ";"
      /\ \A i \in 1..l : w[i] # "CR"
      /\ x # <<>> => w[Len(d) + 1] = ";" /\ Len(x) = 2
      /\ Digits = d => IsSize /\ ChunkSize = n
      /\ w[l + 1] = "CR" /\ w[l + 2] = "LF"
  BY DEF Chunk
<1>3. /\ Len(d) \in Nat /\ Len(x) \in Nat /\ l = Len(d) + Len(x) /\ l \in Nat
      /\ (x = <<>> => Len(x) = 0) /\ (x # <<>> => Len(x) = 2)
  <2>1. Len(d) \in Nat /\ Len(x) \in Nat
    <3>1. d \in Octets /\ x \in Octets
      BY <1>2
    <3> QED
      BY ONLY <3>1 DEF Octets
  <2>2. x = <<>> => Len(x) = 0
    OBVIOUS
  <2> QED
    BY <1>2, <2>1, <2>2
<1>4. l \in Nat /\ n \in Nat /\ Len(w) = l + n + 4
  <2>1. \A k \in 0..MaxChunk : k \in Nat
    BY DEF MaxChunk
  <2> QED
    BY <1>2, <2>1
<1>5. \A i \in 1..(l + n + 4) : sol + i - 1 <= Len(body) => body[sol + i - 1] = w[i]
  BY <1>4 DEF Agrees
<1>6. \A i \in sol..(sol + l - 1) : i <= Len(body) => body[i] # "CR"
  <2> SUFFICES ASSUME NEW i \in sol..(sol + l - 1), i <= Len(body) PROVE body[i] # "CR"
    OBVIOUS
  <2>1. PICK j \in 1..l : j = i - sol + 1 /\ j \in 1..(l + n + 4) /\ sol + j - 1 = i
    BY <1>1, <1>4
  <2> QED
    BY <1>2, <1>5, <2>1
<1>7. /\ sol + l <= Len(body) => body[sol + l] = "CR"
      /\ sol + l + 1 <= Len(body) => body[sol + l + 1] = "LF"
  <2>1. /\ l + 1 \in 1..(l + n + 4) /\ l + 2 \in 1..(l + n + 4)
        /\ sol + (l + 1) - 1 = sol + l /\ sol + (l + 2) - 1 = sol + l + 1
    BY <1>1, <1>4
  <2> QED
    BY <1>2, <1>5, <2>1
<1>8. Eol = IF sol + l + 1 <= Len(body) THEN sol + l ELSE End
  BY <1>1, <1>4, <1>6, <1>7, EolIs DEF Eol
<1>9. ASSUME sol + l + 1 <= Len(body)
      PROVE  Eol = sol + l /\ Eol # End /\ Data = sol + l + 2 /\ IsSize /\ ChunkSize = n
  <2>1. Eol = sol + l /\ Eol # End /\ Data = sol + l + 2
    BY <1>1, <1>4, <1>8, <1>9, CRLFIs DEF Data
  <2>2. PICK e \in Nat \ {0} : e = sol + Len(d) /\ e <= sol + l /\ Len(d) \in Nat
    BY <1>1, <1>3
  <2>3. PICK p : p = <<";">>
    OBVIOUS
  <2>4. p \in Octets /\ p # <<>> /\ Len(p) = 1 /\ p[1] = ";"
    <3>1. ";" \in Octet
      BY DEF Octet
    <3> QED
      BY <2>3, <3>1, ShortSequences DEF Octets
  <2>5. \A i \in sol..(e - 1) : body[i] # p[1]
    <3> SUFFICES ASSUME NEW i \in sol..(e - 1) PROVE body[i] # ";"
      BY <2>4
    <3>1. PICK j \in 1..Len(d) : /\ j = i - sol + 1 /\ j \in 1..(l + n + 4)
                                 /\ sol + j - 1 = i /\ i <= Len(body)
      BY <1>1, <1>4, <1>9, <2>2
    <3>2. w[j] # ";" /\ body[i] = w[j]
      BY <1>2, <1>5, <3>1
    <3> QED
      BY <3>2
  <2>6. /\ e + 1 - 1 <= Len(body) /\ SubSeq(body, e, e + 1 - 1) = p => Search(p, sol) = e
        /\ Search(p, sol) \in e..End
    <3>1. e \in sol..End
      BY <1>1, <1>4, <1>9, <2>2
    <3> QED
      BY <1>1, <2>4, <2>5, <3>1, SearchEnds
  <2>7. Min({Search(p, sol), Eol}) = e
    <3>1. CASE x = <<>>
      <4>1. e = sol + l
        BY <1>1, <1>3, <2>2, <3>1
      <4>2. e \in {Search(p, sol), Eol} /\ \A i \in {Search(p, sol), Eol} : i \in Int /\ e <= i
        BY <1>1, <2>1, <2>6, <4>1
      <4> QED
        BY <4>2, MinIs
    <3>2. CASE x # <<>>
      <4>1. e + 1 - 1 = e /\ Len(d) + 1 \in 1..(l + n + 4) /\ sol + (Len(d) + 1) - 1 = e
        BY <1>1, <1>4, <1>3, <2>2, <3>2
      <4>2. e <= Len(body) /\ body[e] = ";"
        <5>1. e <= Len(body)
          BY <1>1, <1>4, <1>9, <2>2
        <5> QED
          BY <1>2, <1>5, <3>2, <4>1, <5>1
      <4>3. SubSeq(body, e, e) = p
        BY <2>3, <4>2, OneByte
      <4>4. Search(p, sol) = e
        BY <2>6, <4>1, <4>2, <4>3
      <4>5. e \in {Search(p, sol), Eol} /\ \A i \in {Search(p, sol), Eol} : i \in Int /\ e <= i
        BY <1>1, <1>4, <2>1, <2>2, <4>4
      <4> QED
        BY <4>5, MinIs
    <3> QED
      BY <3>1, <3>2
  <2>8. Digits = d
    <3>1. Digits = SubSeq(body, sol, e - 1)
      BY <2>3, <2>7 DEF Digits
    <3>2. \A i \in sol..(e - 1) : body[i] \in Octet
      BY <1>1, <1>4, <1>9, <2>2 DEF Octets
    <3>3. PICK s : s = SubSeq(body, sol, e - 1)
      OBVIOUS
    <3>4. /\ s \in Octets /\ Len(s) = IF sol <= e - 1 THEN (e - 1) - sol + 1 ELSE 0
          /\ \A i \in 1..((e - 1) - sol + 1) : s[i] = body[sol + i - 1]
      BY <1>1, <3>2, <3>3, SubSeqProperties DEF Octets
    <3>5. Len(s) = Len(d) /\ (e - 1) - sol + 1 = Len(d)
      BY <1>1, <2>2, <3>4
    <3>6. \A i \in 1..Len(s) : s[i] = d[i]
      <4> SUFFICES ASSUME NEW i \in 1..Len(d) PROVE s[i] = d[i]
        BY <3>5
      <4>1. i \in 1..(l + n + 4) /\ sol + i - 1 <= Len(body)
        BY <1>1, <1>4, <1>9, <2>2
      <4> QED
        BY <1>2, <1>5, <3>4, <3>5, <4>1
    <3> QED
      BY <1>2, <3>1, <3>3, <3>4, <3>5, <3>6, SeqEqual DEF Octets
  <2> QED
    BY <1>2, <2>1, <2>8
<1> QED
  BY <1>8, <1>9

LEMMA LineRead ==
    ASSUME Content \in Octets, body \in Octets, NEW f, IsFrame(f), Agrees(f.at, Bytes(f)),
           sol = f.at, sol <= End, NEW l, l = LineOf(f), NEW n, n = CarryOf(f)
    PROVE  IF sol + l + 1 <= Len(body)
           THEN Eol = sol + l /\ Eol # End /\ Data = sol + l + 2 /\ IsSize /\ ChunkSize = n
           ELSE Eol = End
<1>1. sol \in Nat \ {0}
  BY DEF IsFrame, FrameType
<1>2. Chunk(Bytes(f), f.size.digits, f.size.extension, l, n, f.from)
  BY BytesOf
<1>3. Agrees(sol, Bytes(f))
  OBVIOUS
<1> QED
  BY ONLY body \in Octets, sol <= End, <1>1, <1>2, <1>3, LineOfChunk

\* The data of a chunk that is in the body altogether is the content's next piece.
LEMMA DataRead ==
    ASSUME Content \in Octets, body \in Octets, NEW f, IsFrame(f), Agrees(f.at, Bytes(f)),
           sol = f.at, NEW l, l = LineOf(f), NEW n, n = CarryOf(f),
           sol + l + n + 3 <= Len(body)
    PROVE  SubSeq(body, sol + l + 2, sol + l + 2 + n - 1) = SubSeq(Content, f.from + 1, f.to)
<1>1. PICK from, to, w : from = f.from /\ to = f.to /\ w = Bytes(f)
  OBVIOUS
<1>2. /\ from \in Nat /\ to \in Nat /\ from <= to /\ to <= Len(Content) /\ n = to - from
      /\ sol \in Nat \ {0}
  BY <1>1 DEF IsFrame, FrameType, CarryOf
<1>3. Chunk(w, f.size.digits, f.size.extension, l, n, from)
  BY <1>1, BytesOf
<1>4. /\ l \in Nat \ {0} /\ Len(w) = l + n + 4
      /\ \A i \in 1..n : w[l + 2 + i] = Content[from + i]
  BY <1>3 DEF Chunk
<1>5. Len(body) \in Nat /\ Len(Content) \in Nat /\ n \in Nat
  <2>1. n \in Nat
    BY ONLY <1>2
  <2> QED
    BY <2>1 DEF Octets
<1>6. \A i \in 1..(l + n + 4) : sol + i - 1 <= Len(body) => body[sol + i - 1] = w[i]
  BY <1>1, <1>4 DEF Agrees
<1>7. PICK p, q : p = sol + l + 2 /\ q = sol + l + 2 + n - 1
  OBVIOUS
<1>8. p \in Nat \ {0} /\ q \in Int /\ q <= Len(body) /\ n = q - p + 1 /\ p = sol + l + 2
  BY ONLY sol + l + n + 3 <= Len(body), <1>2, <1>4, <1>5, <1>7
<1>9. \A i \in 1..n : body[p + i - 1] = Content[from + 1 + i - 1]
  <2> SUFFICES ASSUME NEW i \in 1..n PROVE body[p + i - 1] = Content[from + 1 + i - 1]
    OBVIOUS
  <2>1. /\ l + 2 + i \in 1..(l + n + 4) /\ sol + (l + 2 + i) - 1 = p + i - 1
        /\ p + i - 1 <= Len(body) /\ from + 1 + i - 1 = from + i
    BY ONLY i \in 1..n, <1>2, <1>4, <1>5, <1>8
  <2> QED
    BY <1>4, <1>6, <2>1
<1>10. PICK s, t : s = SubSeq(body, p, q) /\ t = SubSeq(Content, from + 1, to)
  OBVIOUS
<1>11. /\ s \in Octets /\ Len(s) = n /\ \A i \in 1..n : s[i] = body[p + i - 1]
  <2>1. \A i \in p..q : body[i] \in Octet
    <3>1. \A i \in p..q : i \in 1..Len(body)
      BY ONLY <1>5, <1>8
    <3> QED
      BY <3>1, ElementOfSeq DEF Octets
  <2>2. /\ s \in Octets /\ Len(s) = IF p <= q THEN q - p + 1 ELSE 0
        /\ \A i \in 1..(q - p + 1) : s[i] = body[p + i - 1]
    <3>1. p \in Int /\ q \in Int
      BY ONLY <1>8
    <3> QED
      BY ONLY <1>10, <2>1, <3>1, SubSeqProperties DEF Octets
  <2>3. n = IF p <= q THEN q - p + 1 ELSE 0
    BY ONLY <1>5, <1>8
  <2> QED
    BY <1>8, <2>2, <2>3
<1>12. /\ t \in Octets /\ Len(t) = n /\ \A i \in 1..n : t[i] = Content[from + 1 + i - 1]
  <2>1. \A i \in (from + 1)..to : Content[i] \in Octet
    <3>1. \A i \in (from + 1)..to : i \in 1..Len(Content)
      BY ONLY <1>2, <1>5
    <3> QED
      BY <3>1, ElementOfSeq DEF Octets
  <2>2. from + 1 \in Int /\ to \in Int /\ to - (from + 1) + 1 = n
        /\ n = IF from + 1 <= to THEN to - (from + 1) + 1 ELSE 0
    BY ONLY <1>2
  <2>3. /\ t \in Octets /\ Len(t) = IF from + 1 <= to THEN to - (from + 1) + 1 ELSE 0
        /\ \A i \in 1..(to - (from + 1) + 1) : t[i] = Content[from + 1 + i - 1]
    BY ONLY <1>10, <2>1, <2>2, SubSeqProperties DEF Octets
  <2> QED
    BY <2>2, <2>3
<1>13. \A i \in 1..Len(s) : s[i] = t[i]
  BY <1>9, <1>11, <1>12
<1>14. s = t
  BY <1>11, <1>12, <1>13, SeqEqual DEF Octets
<1> QED
  BY <1>1, <1>7, <1>10, <1>14

\* Behind the size line of the last chunk there is at most half an end of line.
LEMMA RestRead ==
    ASSUME Content \in Octets, body \in Octets, NEW f, IsFrame(f), Agrees(f.at, Bytes(f)),
           sol = f.at, NEW l, l = LineOf(f), CarryOf(f) = 0,
           sol + l + 1 <= Len(body), Len(body) <= sol + l + 3,
           NEW p, p = sol + l + 2, NEW rest, rest = SubSeq(body, p, Search(CRLF, p) - 1)
    PROVE  rest \in {<<>>, <<"CR">>} /\ (Len(body) = sol + l + 3 => rest = <<>>)
<1>1. PICK w : w = Bytes(f)
  OBVIOUS
<1>2. sol \in Nat \ {0}
  BY DEF IsFrame, FrameType
<1>3. Chunk(w, f.size.digits, f.size.extension, l, 0, f.from)
  BY <1>1, BytesOf
<1>4. /\ l \in Nat \ {0} /\ Len(w) = l + 0 + 4 /\ w[l + 0 + 3] = "CR" /\ w[l + 0 + 4] = "LF"
  BY <1>3 DEF Chunk
<1>5. Len(body) \in Nat /\ End = Len(body) + 1
  BY DEF Octets, End
<1>6. \A i \in 1..(l + 4) : sol + i - 1 <= Len(body) => body[sol + i - 1] = w[i]
  BY <1>1, <1>4 DEF Agrees
<1>7. /\ p \in Nat \ {0} /\ p <= End /\ p + 0 = p /\ \A i \in p..(p + 0 - 1) : FALSE
      /\ sol + (l + 0 + 3) - 1 = p /\ sol + (l + 0 + 4) - 1 = p + 1 /\ p + 0 + 1 = p + 1
      /\ l + 0 + 3 \in 1..(l + 4) /\ l + 0 + 4 \in 1..(l + 4)
  BY ONLY p = sol + l + 2, sol + l + 1 <= Len(body), <1>2, <1>4, <1>5
<1>8. /\ p <= Len(body) => body[p] = "CR"
      /\ p + 1 <= Len(body) => body[p + 1] = "LF"
  BY <1>4, <1>6, <1>7
<1>9. Search(CRLF, p) = IF p + 1 <= Len(body) THEN p ELSE End
  <2>1. /\ \A i \in p..(p + 0 - 1) : i <= Len(body) => body[i] # "CR"
        /\ p + 0 <= Len(body) => body[p + 0] = "CR"
        /\ p + 0 + 1 <= Len(body) => body[p + 0 + 1] = "LF"
    BY <1>7, <1>8
  <2>2. p \in Nat \ {0} /\ 0 \in Nat /\ p <= End
    BY <1>7
  <2>3. Search(CRLF, p) = IF p + 0 + 1 <= Len(body) THEN p + 0 ELSE End
    BY ONLY body \in Octets, <2>1, <2>2, EolIs
  <2> QED
    BY <1>7, <2>3
<1>10. CASE p <= Len(body) /\ ~(p + 1 <= Len(body))
  <2>1. Search(CRLF, p) - 1 = p /\ Len(body) # sol + l + 3
    BY ONLY p = sol + l + 2, <1>2, <1>4, <1>5, <1>7, <1>9, <1>10
  <2>2. rest = SubSeq(body, p, p)
    BY <2>1
  <2>3. SubSeq(body, p, p) = <<"CR">>
    BY <1>7, <1>8, <1>10, OneByte
  <2> QED
    BY <2>1, <2>2, <2>3
<1>11. CASE ~(p <= Len(body)) \/ p + 1 <= Len(body)
  <2>1. Search(CRLF, p) - 1 < p /\ Search(CRLF, p) - 1 \in Int
    BY ONLY <1>5, <1>7, <1>9, <1>11
  <2>2. rest = <<>>
    BY <1>7, <2>1, SubSeqEmpty
  <2> QED
    BY <2>2
<1> QED
  BY <1>10, <1>11
------------------------------------------------------------------------------
(* The codings: how deep a position is in them, and where a stream ends.     *)

LEMMA DepthStep ==
    ASSUME NEW b, NEW i \in Nat
    PROVE  /\ Depth(b, 0) = 0 /\ Depth(b, i) \in Int
           /\ Depth(b, i + 1) = IF b[i + 1] \in Opening THEN Depth(b, i) + 1
                                ELSE IF b[i + 1] \in Closing THEN Depth(b, i) - 1
                                ELSE Depth(b, i)
<1> DEFINE O(k) == {j \in 1..k : b[j] \in Opening}
           C(k) == {j \in 1..k : b[j] \in Closing}
<1>1. ASSUME NEW k \in Nat
      PROVE  /\ IsFiniteSet(O(k)) /\ Cardinality(O(k)) \in Nat
             /\ IsFiniteSet(C(k)) /\ Cardinality(C(k)) \in Nat
             /\ Depth(b, k) = Cardinality(O(k)) - Cardinality(C(k))
  <2>1. IsFiniteSet(1..k)
    BY FS_Interval
  <2>2. O(k) \in SUBSET (1..k) /\ C(k) \in SUBSET (1..k)
    OBVIOUS
  <2>3. Depth(b, k) = Cardinality(O(k)) - Cardinality(C(k))
    BY DEF Depth
  <2> HIDE DEF O, C
  <2>4. IsFiniteSet(O(k)) /\ IsFiniteSet(C(k))
    BY <2>1, <2>2, FS_Subset
  <2> QED
    BY <2>3, <2>4, FS_CardinalityType
<1>2. O(0) = {} /\ C(0) = {}
  OBVIOUS
<1>3. /\ O(i + 1) = IF b[i + 1] \in Opening THEN O(i) \cup {i + 1} ELSE O(i)
      /\ C(i + 1) = IF b[i + 1] \in Closing THEN C(i) \cup {i + 1} ELSE C(i)
  <2>1. 1..(i + 1) = (1..i) \cup {i + 1}
    OBVIOUS
  <2> QED
    BY <2>1
<1>4. i + 1 \notin O(i) /\ i + 1 \notin C(i) /\ i + 1 \in Nat
  OBVIOUS
<1>5. b[i + 1] \in Opening => b[i + 1] \notin Closing
  BY DEF Opening, Closing
<1> HIDE DEF O, C
<1>6. Depth(b, 0) = 0
  BY <1>1, <1>2, FS_EmptySet
<1>7. Cardinality(O(i + 1)) = Cardinality(O(i)) + IF b[i + 1] \in Opening THEN 1 ELSE 0
  <2>1. Cardinality(O(i) \cup {i + 1}) = Cardinality(O(i)) + 1 /\ Cardinality(O(i)) \in Nat
    BY <1>1, <1>4, FS_AddElement
  <2> QED
    BY <1>3, <2>1
<1>8. Cardinality(C(i + 1)) = Cardinality(C(i)) + IF b[i + 1] \in Closing THEN 1 ELSE 0
  <2>1. Cardinality(C(i) \cup {i + 1}) = Cardinality(C(i)) + 1 /\ Cardinality(C(i)) \in Nat
    BY <1>1, <1>4, FS_AddElement
  <2> QED
    BY <1>3, <2>1
<1>9. Depth(b, i + 1) = Cardinality(O(i + 1)) - Cardinality(C(i + 1))
  BY <1>1, <1>4
<1> QED
  BY <1>1, <1>5, <1>6, <1>7, <1>8, <1>9

LEMMA DepthOfPrefix ==
    ASSUME NEW a, NEW b, NEW i \in Nat, \A j \in 1..i : a[j] = b[j]
    PROVE  Depth(a, i) = Depth(b, i)
<1>1. {j \in 1..i : a[j] \in Opening} = {j \in 1..i : b[j] \in Opening}
  OBVIOUS
<1>2. {j \in 1..i : a[j] \in Closing} = {j \in 1..i : b[j] \in Closing}
  OBVIOUS
<1> QED
  BY <1>1, <1>2 DEF Depth

Balanced(c) == Depth(c, Len(c)) = 0 /\ \A i \in 0..Len(c) : Depth(c, i) >= 0

\* A gzip stream with the bytes of c.
Wraps(w, c) ==
    /\ w \in Octets /\ c \in Octets /\ Len(w) = Len(c) + 2
    /\ w[1] = "gzip" /\ w[Len(c) + 2] = "end" /\ \A i \in 1..Len(c) : w[i + 1] = c[i]

LEMMA DepthOfStream ==
    ASSUME NEW w, NEW c, Wraps(w, c), Balanced(c)
    PROVE  /\ \A i \in 1..(Len(w) - 1) : Depth(w, i) >= 1
           /\ Depth(w, Len(w)) = 0
<1>1. PICK n \in Nat : n = Len(c)
  BY DEF Wraps, Octets
<1>2. Len(w) = n + 2 /\ w[1] \in Opening /\ w[n + 2] \in Closing /\ w[n + 2] \notin Opening
  BY <1>1 DEF Wraps, Opening, Closing
<1>3. \A i \in 1..n : w[i + 1] = c[i]
  BY <1>1 DEF Wraps
<1> DEFINE T == {i \in Nat : i <= n => Depth(w, i + 1) = Depth(c, i) + 1}
<1>4. 0 \in T
  <2>1. Depth(w, 0 + 1) = Depth(w, 0) + 1
    BY <1>2, DepthStep
  <2> QED
    BY <2>1, DepthStep
<1>5. ASSUME NEW i \in Nat, i \in T PROVE i + 1 \in T
  <2> SUFFICES ASSUME i + 1 <= n PROVE Depth(w, i + 1 + 1) = Depth(c, i + 1) + 1
    OBVIOUS
  <2>1. i + 1 \in 1..n /\ i <= n /\ i + 1 \in Nat
    OBVIOUS
  <2>2. w[i + 1 + 1] = c[i + 1]
    BY <1>3, <2>1
  <2>3. Depth(w, i + 1) = Depth(c, i) + 1
    BY <1>5, <2>1
  <2>4. /\ Depth(c, i) \in Int
        /\ Depth(c, i + 1) = IF c[i + 1] \in Opening THEN Depth(c, i) + 1
                             ELSE IF c[i + 1] \in Closing THEN Depth(c, i) - 1
                             ELSE Depth(c, i)
    BY DepthStep
  <2>5. Depth(w, i + 1 + 1) = IF w[i + 1 + 1] \in Opening THEN Depth(w, i + 1) + 1
                              ELSE IF w[i + 1 + 1] \in Closing THEN Depth(w, i + 1) - 1
                              ELSE Depth(w, i + 1)
    BY <2>1, DepthStep
  <2> QED
    BY <2>2, <2>3, <2>4, <2>5
<1>6. Nat \subseteq T
  <2> HIDE DEF T
  <2> QED
    BY <1>4, <1>5, NatInductionOnSets
<1>7. \A i \in 0..n : Depth(w, i + 1) = Depth(c, i) + 1 /\ Depth(c, i) \in Int
  BY <1>6, DepthStep
<1>8. Depth(c, n) = 0 /\ \A i \in 0..n : Depth(c, i) >= 0
  BY <1>1 DEF Balanced
<1>9. ASSUME NEW i \in 1..(Len(w) - 1) PROVE Depth(w, i) >= 1
  <2>1. PICK j \in 0..n : j + 1 = i
    <3>1. i - 1 \in 0..n /\ i - 1 + 1 = i
      BY <1>2
    <3> QED
      BY <3>1
  <2>2. Depth(w, j + 1) = Depth(c, j) + 1 /\ Depth(c, j) \in Int /\ Depth(c, j) >= 0
    BY <1>7, <1>8
  <2> QED
    BY <2>1, <2>2
<1>10. Depth(w, Len(w)) = 0
  <2>1. n + 1 \in Nat /\ n + 1 + 1 = n + 2 /\ n \in 0..n
    OBVIOUS
  <2>2. Depth(w, n + 1 + 1) = Depth(w, n + 1) - 1
    BY <1>2, <2>1, DepthStep
  <2>3. Depth(w, n + 1) = 1
    BY <1>7, <1>8, <2>1
  <2> QED
    BY <1>2, <2>1, <2>2, <2>3
<1> QED
  BY <1>9, <1>10

LEMMA StreamIsBalanced ==
    ASSUME NEW w, NEW c, Wraps(w, c), Balanced(c)
    PROVE  Balanced(w)
<1>1. Len(w) \in Nat
  BY DEF Wraps, Octets
<1>2. ASSUME NEW i \in 0..Len(w) PROVE Depth(w, i) >= 0
  <2>1. i = 0 \/ i \in 1..(Len(w) - 1) \/ i = Len(w)
    BY <1>1
  <2>2. Depth(w, 0) = 0 /\ Depth(w, i) \in Int
    BY DepthStep
  <2>3. \A k \in Int : k >= 1 \/ k = 0 => k >= 0
    OBVIOUS
  <2> QED
    BY <2>1, <2>2, <2>3, DepthOfStream
<1> QED
  BY <1>2, DepthOfStream DEF Balanced

\* The end of a gzip stream is found whatever follows it, and not before it is there.
LEMMA StreamEnds ==
    ASSUME NEW w, NEW c, Wraps(w, c), Balanced(c), NEW b \in Octets, b # <<>>,
           \A i \in 1..Len(b) : i <= Len(w) => b[i] = w[i]
    PROVE  StreamEnd(b) = IF Len(w) <= Len(b) THEN Len(w) ELSE 0
<1> DEFINE ends == {i \in 1..Len(b) : Depth(b, i) = 0}
<1>1. Len(b) \in Nat \ {0} /\ Len(w) \in Nat /\ Len(w) >= 2 /\ w[1] = "gzip"
  <2>1. Len(c) \in Nat /\ Len(w) = Len(c) + 2 /\ w[1] = "gzip"
    BY DEF Wraps, Octets
  <2>2. Len(b) \in Nat \ {0}
    BY EmptySeq DEF Octets
  <2> QED
    BY <2>1, <2>2
<1>2. b[1] = "gzip"
  <2>1. 1 \in 1..Len(b) /\ 1 <= Len(w)
    BY <1>1
  <2> QED
    BY <1>1, <2>1
<1>3. StreamEnd(b) = IF ends = {} THEN 0 ELSE Min(ends)
  BY <1>2 DEF StreamEnd
<1>4. ASSUME NEW i \in 1..Len(b), i <= Len(w) PROVE Depth(b, i) = Depth(w, i)
  <2>1. i \in Nat /\ \A j \in 1..i : b[j] = w[j]
    BY <1>1, <1>4
  <2> QED
    BY <2>1, DepthOfPrefix
<1>5. \A i \in 1..Len(b) : i < Len(w) => Depth(b, i) # 0
  <2> SUFFICES ASSUME NEW i \in 1..Len(b), i < Len(w) PROVE Depth(b, i) # 0
    OBVIOUS
  <2>1. i \in 1..(Len(w) - 1) /\ i <= Len(w)
    BY <1>1
  <2>2. Depth(b, i) = Depth(w, i) /\ Depth(w, i) >= 1
    BY <1>4, <2>1, DepthOfStream
  <2> QED
    BY <2>2
<1>6. CASE Len(w) <= Len(b)
  <2>1. Len(w) \in ends
    <3>1. Len(w) \in 1..Len(b) /\ Len(w) <= Len(w)
      BY <1>1, <1>6
    <3> QED
      BY <1>4, <3>1, DepthOfStream
  <2>2. ends \subseteq Int /\ \A i \in ends : Len(w) <= i
    BY <1>1, <1>5
  <2> HIDE DEF ends
  <2> QED
    BY <1>3, <1>6, <2>1, <2>2, MinIs
<1>7. CASE ~(Len(w) <= Len(b))
  <2>1. ends = {}
    BY <1>1, <1>5, <1>7
  <2> QED
    BY <1>3, <1>7, <2>1
<1> QED
  BY <1>6, <1>7

LEMMA StreamEndRange ==
    ASSUME NEW b \in Octets
    PROVE  StreamEnd(b) \in 0..Len(b)
<1> DEFINE ends == {i \in 1..Len(b) : Depth(b, i) = 0}
<1>1. Len(b) \in Nat
  BY DEF Octets
<1>2. StreamEnd(b) = 0 \/ (ends # {} /\ StreamEnd(b) = Min(ends))
  BY DEF StreamEnd
<1>3. ends \subseteq 0..Len(b)
  BY <1>1
<1> HIDE DEF ends
<1>4. CASE StreamEnd(b) = 0
  BY <1>1, <1>4
<1>5. CASE ends # {} /\ StreamEnd(b) = Min(ends)
  <2>1. PICK n \in Nat : n = Len(b)
    BY <1>1
  <2>2. ends \subseteq 0..n
    BY <1>3, <2>1
  <2>3. Min(ends) \in ends
    BY <1>5, <2>2, MinIsLeast
  <2>4. Min(ends) \in 0..n
    BY <2>2, <2>3
  <2> QED
    BY <1>5, <2>1, <2>4
<1> QED
  BY <1>2, <1>4, <1>5

\* gunzip takes what follows a stream away with it.
LEMMA StreamUndone ==
    ASSUME NEW w, NEW c, Wraps(w, c), Balanced(c), NEW tail \in Octets, NEW b, b = w \o tail
    PROVE  b # <<>> /\ StreamEnd(b) = Len(w) /\ SubSeq(b, 2, StreamEnd(b) - 1) = c
<1>1. PICK n \in Nat : n = Len(c) /\ Len(w) = n + 2
  BY DEF Wraps, Octets
<1>2. w \in Seq(Octet) /\ tail \in Seq(Octet) /\ c \in Seq(Octet)
  BY DEF Wraps, Octets
<1>3. /\ b \in Seq(Octet) /\ Len(b) = Len(w) + Len(tail)
      /\ \A i \in 1..Len(w) : b[i] = w[i]
  BY ONLY b = w \o tail, <1>2, TwoParts
<1>4. Len(tail) \in Nat /\ Len(b) >= n + 2 /\ Len(b) \in Nat
  <2>1. Len(tail) \in Nat
    BY <1>2
  <2> QED
    BY ONLY <1>1, <1>3, <2>1
<1>5. b # <<>>
  <2>1. Len(b) # 0
    BY <1>4
  <2> QED
    BY <2>1, EmptySeq
<1>6. \A i \in 1..Len(b) : i <= Len(w) => b[i] = w[i]
  BY <1>1, <1>3, <1>4
<1>7. StreamEnd(b) = n + 2
  <2>1. b \in Octets /\ Len(w) <= Len(b)
    BY <1>1, <1>3, <1>4 DEF Octets
  <2>2. StreamEnd(b) = IF Len(w) <= Len(b) THEN Len(w) ELSE 0
    BY <1>5, <1>6, <2>1, StreamEnds
  <2> QED
    BY <1>1, <2>1, <2>2
<1>8. SubSeq(b, 2, n + 1) = c
  <2>1. PICK r, q, s : r = 2 /\ q = n + 1 /\ s = SubSeq(b, r, q)
    OBVIOUS
  <2>2. /\ r \in Int /\ q \in Int
        /\ q - r + 1 = n /\ (IF r <= q THEN q - r + 1 ELSE 0) = n
        /\ \A i \in 1..n : r + i - 1 = i + 1 /\ i + 1 \in 1..(n + 2)
        /\ \A i \in r..q : i \in 1..(n + 2)
    BY <2>1
  <2>3. \A i \in r..q : b[i] \in Octet
    <3>1. \A i \in 1..(n + 2) : i \in 1..Len(b)
      BY <1>4
    <3> QED
      BY <1>3, <2>2, <3>1, ElementOfSeq
  <2>4. /\ s \in Seq(Octet) /\ Len(s) = IF r <= q THEN q - r + 1 ELSE 0
        /\ \A i \in 1..(q - r + 1) : s[i] = b[r + i - 1]
    <3>1. r \in Int /\ q \in Int /\ s = SubSeq(b, r, q)
      BY <2>1, <2>2
    <3> QED
      BY ONLY <2>3, <3>1, SubSeqProperties
  <2>5. Len(s) = n /\ \A i \in 1..n : s[i] = b[i + 1]
    BY <2>2, <2>4
  <2>6. \A i \in 1..n : s[i] = c[i]
    BY <1>1, <1>3, <2>2, <2>5 DEF Wraps
  <2> QED
    BY <1>1, <1>2, <2>1, <2>4, <2>5, <2>6, SeqEqual
<1>9. StreamEnd(b) - 1 = n + 1
  BY <1>7
<1> QED
  BY <1>1, <1>5, <1>7, <1>8, <1>9

LEMMA StreamIsOpen ==
    ASSUME NEW w, NEW c, Wraps(w, c), Balanced(c), NEW b \in Octets, b # <<>>,
           Len(b) < Len(w), IsPrefix(b, w)
    PROVE  StreamEnd(b) = 0
<1>1. Len(w) \in Nat /\ Len(b) \in Nat /\ w \in Seq(Octet) /\ b \in Seq(Octet)
  BY DEF Wraps, Octets
<1>2. SubSeq(b, 1, Len(b)) = b /\ SubSeq(b, 1, Len(b)) = SubSeq(w, 1, Len(b))
  BY <1>1, SubSeqFull DEF IsPrefix
<1>3. \A i \in 1..Len(b) : b[i] = w[i]
  <2>1. PICK n \in Nat : n = Len(b)
    BY <1>1
  <2>2. \A i \in 1..n : w[i] \in Octet
    <3>1. \A i \in 1..n : i \in 1..Len(w)
      BY <1>1, <2>1
    <3> QED
      BY <1>1, <3>1, ElementOfSeq
  <2>3. 1 \in Int /\ n \in Int /\ n - 1 + 1 = n /\ \A i \in 1..n : 1 + i - 1 = i
    OBVIOUS
  <2>4. \A i \in 1..(n - 1 + 1) : SubSeq(w, 1, n)[i] = w[1 + i - 1]
    BY <2>2, <2>3, SubSeqProperties
  <2> QED
    BY <1>2, <2>1, <2>3, <2>4
<1>4. StreamEnd(b) = IF Len(w) <= Len(b) THEN Len(w) ELSE 0
  BY <1>3, StreamEnds
<1> QED
  BY <1>1, <1>4
------------------------------------------------------------------------------
(* What the invariants say of layers and chunks.                             *)

LEMMA CodedIs ==
    ASSUME NEW c \in Octets, NEW coding \in STRING
    PROVE  /\ Coded(c, coding) \in Octets
           /\ Lower(coding) = "identity" => Coded(c, coding) = c
           /\ Lower(coding) = "gzip" => Wraps(Coded(c, coding), c)
<1>1. CASE Lower(coding) = "identity"
  <2>1. Coded(c, coding) = c /\ Lower(coding) # "gzip"
    BY <1>1 DEF Coded
  <2> QED
    BY <2>1
<1>2. CASE Lower(coding) # "identity"
  <2>1. PICK g, e : g = <<Lower(coding)>> /\ e = <<"end">>
    OBVIOUS
  <2>2. Lower(coding) \in Octet /\ "end" \in Octet
    BY DEF Octet, Words, Closing
  <2>3. g \in Octets /\ Len(g) = 1 /\ g[1] = Lower(coding)
    BY <2>1, <2>2, ShortSequences DEF Octets
  <2>4. e \in Octets /\ Len(e) = 1 /\ e[1] = "end"
    BY <2>1, <2>2, ShortSequences DEF Octets
  <2>5. PICK gc : gc = g \o c
    OBVIOUS
  <2>6. /\ gc \in Octets /\ Len(gc) = 1 + Len(c)
        /\ \A i \in 1..1 : gc[i] = g[i]
        /\ \A i \in 1..Len(c) : gc[1 + i] = c[i]
    <3>1. /\ gc \in Octets /\ Len(gc) = Len(g) + Len(c)
          /\ \A i \in 1..Len(g) : gc[i] = g[i]
          /\ \A i \in 1..Len(c) : gc[Len(g) + i] = c[i]
      <4>1. g \in Seq(Octet) /\ c \in Seq(Octet)
        BY <2>3 DEF Octets
      <4> QED
        BY ONLY <2>5, <4>1, TwoParts DEF Octets
    <3> QED
      BY <2>3, <3>1
  <2>7. PICK w : w = gc \o e
    OBVIOUS
  <2>8. /\ w \in Octets /\ Len(w) = Len(gc) + 1
        /\ \A i \in 1..Len(gc) : w[i] = gc[i]
        /\ \A i \in 1..1 : w[Len(gc) + i] = e[i]
    <3>1. /\ w \in Octets /\ Len(w) = Len(gc) + Len(e)
          /\ \A i \in 1..Len(gc) : w[i] = gc[i]
          /\ \A i \in 1..Len(e) : w[Len(gc) + i] = e[i]
      <4>1. gc \in Seq(Octet) /\ e \in Seq(Octet)
        BY <2>4, <2>6 DEF Octets
      <4> QED
        BY ONLY <2>7, <4>1, TwoParts DEF Octets
    <3> QED
      BY <2>4, <3>1
  <2>9. Coded(c, coding) = w
    BY <1>2, <2>1, <2>5, <2>7 DEF Coded
  <2>10. Len(c) \in Nat
    BY DEF Octets
  <2>11. /\ 1 \in 1..Len(gc) /\ 1 \in 1..1 /\ Len(gc) + 1 = Len(c) + 2
         /\ \A i \in 1..Len(c) : 1 + i \in 1..Len(gc) /\ 1 + i = i + 1
    BY ONLY <2>6, <2>10
  <2>12. /\ w[1] = Lower(coding) /\ w[Len(c) + 2] = "end" /\ Len(w) = Len(c) + 2
         /\ \A i \in 1..Len(c) : w[i + 1] = c[i]
    BY <2>3, <2>4, <2>6, <2>8, <2>11
  <2> QED
    BY <1>2, <2>8, <2>9, <2>12 DEF Wraps
<1> QED
  BY <1>1, <1>2

LEMMA LayersAre ==
    ASSUME RespTypeOK, LayersInv
    PROVE  /\ Len(codings) \in Nat /\ Len(layers) \in Nat
           /\ \A i \in 1..Len(layers) : layers[i] \in Octets
           /\ Content = layers[Len(layers)] /\ Content \in Octets
           /\ \A i \in 1..Len(codings) : codings[i] \in STRING
           /\ Encoded => /\ Content = layers[Len(codings) + 1]
                         /\ \A i \in 1..Len(codings) : layers[i + 1] = Coded(layers[i], codings[i])
<1>1. layers \in Seq(Octets) /\ codings \in Seq(STRING) /\ Len(layers) \in 1..(Len(codings) + 1)
  BY DEF RespTypeOK, LayersInv
<1>2. \A i \in 1..Len(layers) : layers[i] \in Octets
  BY <1>1, ElementOfSeq
<1>3. \A i \in 1..Len(codings) : codings[i] \in STRING
  BY <1>1, ElementOfSeq
<1>4. Len(codings) \in Nat /\ Len(layers) \in Nat /\ Len(layers) \in 1..Len(layers)
  <2>1. Len(codings) \in Nat /\ Len(layers) \in Nat
    BY <1>1, LenProperties
  <2> QED
    BY ONLY <1>1, <2>1
<1>5. Content = layers[Len(layers)]
  BY DEF Content, Last
<1>6. ASSUME Encoded PROVE \A i \in 1..Len(codings) : i \in 1..(Len(layers) - 1)
  BY <1>4, <1>6 DEF Encoded
<1> QED
  BY <1>2, <1>3, <1>4, <1>5, <1>6 DEF LayersInv, Encoded

LEMMA PayloadIsBalanced ==
    ASSUME payload \in Seq(DataBytes)
    PROVE  Balanced(payload)
<1>1. Len(payload) \in Nat
  OBVIOUS
<1>2. ASSUME NEW i \in 0..Len(payload) PROVE Depth(payload, i) = 0
  <2>1. \A j \in 1..i : payload[j] \in DataBytes
    BY <1>1
  <2>2. \A j \in 1..i : payload[j] \notin Opening /\ payload[j] \notin Closing
    BY <2>1, DataAssumption
  <2>3. PICK O, C : /\ O = {j \in 1..i : payload[j] \in Opening}
                    /\ C = {j \in 1..i : payload[j] \in Closing}
    OBVIOUS
  <2>4. O = {} /\ C = {} /\ Cardinality({}) = 0
    BY <2>2, <2>3, FS_EmptySet
  <2>5. Depth(payload, i) = Cardinality(O) - Cardinality(C)
    BY <2>3 DEF Depth
  <2> QED
    BY ONLY <2>4, <2>5
<1>3. Len(payload) \in 0..Len(payload) /\ 0 >= 0
  BY <1>1
<1> QED
  BY <1>2, <1>3 DEF Balanced

LEMMA LayersAreBalanced ==
    ASSUME RespTypeOK, LayersInv, Supported
    PROVE  \A i \in 1..Len(layers) : Balanced(layers[i])
<1> DEFINE T == {n \in Nat : n + 1 <= Len(layers) => Balanced(layers[n + 1])}
<1>1. /\ Len(codings) \in Nat /\ Len(layers) \in Nat
      /\ \A i \in 1..Len(layers) : layers[i] \in Octets
      /\ \A i \in 1..Len(codings) : codings[i] \in STRING
  BY LayersAre
<1>2. 0 \in T
  <2>1. layers[0 + 1] = payload /\ payload \in Seq(DataBytes)
    BY DEF LayersInv, RespTypeOK
  <2> QED
    BY <2>1, PayloadIsBalanced
<1>3. ASSUME NEW n \in Nat, n \in T PROVE n + 1 \in T
  <2> SUFFICES ASSUME n + 1 + 1 <= Len(layers) PROVE Balanced(layers[n + 1 + 1])
    OBVIOUS
  <2>1. Len(layers) \in 1..(Len(codings) + 1)
    BY DEF LayersInv
  <2>2. /\ n + 1 \in 1..(Len(layers) - 1) /\ n + 1 \in 1..Len(codings)
        /\ n + 1 \in 1..Len(layers) /\ n + 1 <= Len(layers)
    BY <1>1, <2>1
  <2>3. layers[n + 1 + 1] = Coded(layers[n + 1], codings[n + 1])
    BY <2>2 DEF LayersInv
  <2>4. Lower(codings[n + 1]) \in {"gzip", "identity"}
    BY <2>2 DEF Supported
  <2>5. Balanced(layers[n + 1]) /\ layers[n + 1] \in Octets /\ codings[n + 1] \in STRING
    BY <1>1, <1>3, <2>2
  <2>6. CASE Lower(codings[n + 1]) = "identity"
    BY <2>3, <2>5, <2>6, CodedIs
  <2>7. CASE Lower(codings[n + 1]) = "gzip"
    BY <2>3, <2>5, <2>7, CodedIs, StreamIsBalanced
  <2> QED
    BY <2>4, <2>6, <2>7
<1>4. Nat \subseteq T
  <2> HIDE DEF T
  <2> QED
    BY <1>2, <1>3, NatInductionOnSets
<1>5. ASSUME NEW i \in 1..Len(layers) PROVE Balanced(layers[i])
  <2>1. PICK n \in Nat : n + 1 = i /\ n + 1 <= Len(layers)
    <3>1. i - 1 \in Nat /\ i - 1 + 1 = i /\ i - 1 + 1 <= Len(layers)
      BY <1>1
    <3> QED
      BY <3>1
  <2> QED
    BY <1>4, <2>1
<1> QED
  BY <1>5

\* The chunks lie one behind the other.
LEMMA FramesAre ==
    ASSUME RespTypeOK, LayersInv, FramesInv, chunked
    PROVE  /\ Len(frames) \in Nat /\ Len(body) \in Nat
           /\ \A k \in 1..Len(frames) :
                 /\ IsFrame(frames[k]) /\ Agrees(frames[k].at, Bytes(frames[k]))
                 /\ LineOf(frames[k]) \in Nat \ {0} /\ CarryOf(frames[k]) \in Nat
                 /\ frames[k].at \in Nat \ {0} /\ frames[k].at = BytesBy(k - 1) + 1
                 /\ frames[k].from \in Nat /\ frames[k].to \in Nat
                 /\ Len(Bytes(frames[k])) = LineOf(frames[k]) + CarryOf(frames[k]) + 4
<1>1. Content \in Octets
  BY LayersAre
<1>2. Len(frames) \in Nat /\ Len(body) \in Nat
  BY DEF RespTypeOK, Octets
<1>3. ASSUME NEW k \in 1..Len(frames)
      PROVE  /\ IsFrame(frames[k]) /\ Agrees(frames[k].at, Bytes(frames[k]))
             /\ frames[k].at = BytesBy(k - 1) + 1
  BY DEF FramesInv
<1>4. ASSUME NEW k \in 1..Len(frames)
      PROVE  /\ LineOf(frames[k]) \in Nat \ {0} /\ CarryOf(frames[k]) \in Nat
             /\ frames[k].at \in Nat \ {0} /\ frames[k].from \in Nat /\ frames[k].to \in Nat
             /\ Len(Bytes(frames[k])) = LineOf(frames[k]) + CarryOf(frames[k]) + 4
  <2>1. PICK f : f = frames[k] /\ IsFrame(f)
    BY <1>3
  <2>2. Chunk(Bytes(f), f.size.digits, f.size.extension, LineOf(f), CarryOf(f), f.from)
    BY <1>1, <2>1, BytesOf
  <2>3. /\ LineOf(f) \in Nat \ {0} /\ CarryOf(f) \in 0..MaxChunk
        /\ Len(Bytes(f)) = LineOf(f) + CarryOf(f) + 4
    BY <2>2 DEF Chunk
  <2>4. f.at \in Nat \ {0} /\ f.from \in Nat /\ f.to \in Nat
    BY <2>1 DEF IsFrame, FrameType
  <2>5. CarryOf(f) \in Nat
    <3>1. \A n \in 0..MaxChunk : n \in Nat
      BY DEF MaxChunk
    <3> QED
      BY <2>3, <3>1
  <2> QED
    BY <2>1, <2>3, <2>4, <2>5
<1> QED
  BY <1>2, <1>3, <1>4

LEMMA BytesGrow ==
    ASSUME RespTypeOK, LayersInv, FramesInv, chunked, NEW k \in 0..Len(frames)
    PROVE  /\ BytesBy(k) \in Nat /\ (k # 0 => BytesBy(k) > 0)
           /\ \A j \in k..Len(frames) : BytesBy(k) <= BytesBy(j)
<1>1. Len(frames) \in Nat
  BY FramesAre
<1>2. ASSUME NEW j \in 0..Len(frames) PROVE BytesBy(j) \in Nat /\ (j # 0 => BytesBy(j) > 0)
  <2>1. CASE j = 0
    BY <2>1 DEF BytesBy
  <2>2. CASE j # 0
    <3>1. j \in 1..Len(frames)
      BY <1>1, <2>2
    <3>2. /\ frames[j].at \in Nat \ {0} /\ LineOf(frames[j]) \in Nat \ {0}
          /\ CarryOf(frames[j]) \in Nat
      BY <3>1, FramesAre
    <3>3. BytesBy(j) = frames[j].at + LineOf(frames[j]) + CarryOf(frames[j]) + 3
      BY <2>2 DEF BytesBy
    <3> QED
      BY ONLY <3>2, <3>3
  <2> QED
    BY <2>1, <2>2
<1>3. ASSUME NEW j \in Nat, j + 1 <= Len(frames) PROVE BytesBy(j) <= BytesBy(j + 1)
  <2>1. j \in 0..Len(frames) /\ j + 1 \in 1..Len(frames) /\ j + 1 # 0 /\ j + 1 - 1 = j
    BY <1>1, <1>3
  <2>2. /\ frames[j + 1].at = BytesBy(j) + 1 /\ LineOf(frames[j + 1]) \in Nat \ {0}
        /\ CarryOf(frames[j + 1]) \in Nat
    BY <2>1, FramesAre
  <2>3. BytesBy(j + 1) = frames[j + 1].at + LineOf(frames[j + 1]) + CarryOf(frames[j + 1]) + 3
    BY <2>1 DEF BytesBy
  <2>4. BytesBy(j) \in Nat
    BY <1>2, <2>1
  <2> QED
    BY ONLY <2>2, <2>3, <2>4
<1> DEFINE T == {j \in Nat : k + j <= Len(frames) => BytesBy(k) <= BytesBy(k + j)}
<1>4. 0 \in T
  BY <1>2
<1>5. ASSUME NEW j \in Nat, j \in T PROVE j + 1 \in T
  <2> SUFFICES ASSUME k + (j + 1) <= Len(frames) PROVE BytesBy(k) <= BytesBy(k + (j + 1))
    OBVIOUS
  <2>1. k + j \in Nat /\ k + j \in 0..Len(frames) /\ k + (j + 1) = (k + j) + 1 /\ k + j <= Len(frames)
    BY <1>1
  <2>2. BytesBy(k) <= BytesBy(k + j) /\ BytesBy(k + j) <= BytesBy((k + j) + 1)
    BY <1>3, <1>5, <2>1
  <2>3. /\ BytesBy(k) \in Nat /\ BytesBy(k + j) \in Nat /\ BytesBy((k + j) + 1) \in Nat
    <3>1. (k + j) + 1 \in 0..Len(frames)
      BY <1>1, <2>1
    <3> QED
      BY <1>2, <2>1, <3>1
  <2> QED
    BY <2>1, <2>2, <2>3
<1>6. Nat \subseteq T
  <2> HIDE DEF T
  <2> QED
    BY <1>4, <1>5, NatInductionOnSets
<1>7. ASSUME NEW j \in k..Len(frames) PROVE BytesBy(k) <= BytesBy(j)
  <2>1. PICK i \in Nat : k + i = j /\ k + i <= Len(frames)
    <3>1. j - k \in Nat /\ k + (j - k) = j /\ k + (j - k) <= Len(frames)
      BY <1>1
    <3> QED
      BY <3>1
  <2> QED
    BY <1>6, <2>1
<1> QED
  BY <1>2, <1>7
------------------------------------------------------------------------------
(* The initial states.                                                       *)

LEMMA LoweredIs ==
    ASSUME codings \in Seq(STRING), NEW n \in 0..Len(codings)
    PROVE  /\ Lowered(n) \in Seq(Words) /\ Len(Lowered(n)) = n
           /\ \A i \in 1..n : Lowered(n)[i] = Lower(codings[i])
           /\ n = 0 => Lowered(n) = <<>>
<1>1. Len(codings) \in Nat /\ n \in Nat
  OBVIOUS
<1>2. \A i \in 1..n : Lower(codings[i]) \in Words
  BY <1>1 DEF Words
<1>3. Lowered(n) \in [1..n -> Words]
  BY <1>2 DEF Lowered
<1>4. Lowered(n) \in Seq(Words)
  BY <1>1, <1>3, SeqDef
<1>5. Len(Lowered(n)) = n
  BY <1>1, <1>3, <1>4
<1>6. n = 0 => Lowered(n) = <<>>
  BY <1>4, <1>5, EmptySeq
<1> QED
  BY <1>4, <1>5, <1>6 DEF Lowered

LEMMA LinesAre ==
    ASSUME codings \in Seq(STRING), chunked \in BOOLEAN, NEW encoding \in EncodingLines(codings),
           lines = encoding \o IF chunked THEN <<Chunked>> ELSE <<>>
    PROVE  lines \in Seq(LineType) /\ LinesInv /\ (OneEach \/ OneLine)
<1>1. PICK n \in Nat : n = Len(codings)
  OBVIOUS
<1>2. \A i \in 1..n : codings[i] \in STRING /\ <<codings[i]>> \in Seq(STRING \cup {"chunked"})
  BY <1>1
<1>3. codings \in Seq(STRING \cup {"chunked"})
  BY SeqMonotonic
<1>4. /\ encoding \in Seq(LineType) /\ \A i \in 1..Len(encoding) : encoding[i].key \in EncodingKeys
      /\ \/ Len(encoding) = n /\ \A i \in 1..n : encoding[i].items = <<codings[i]>>
         \/ Len(encoding) = 1 /\ n # 0 /\ encoding[1].items = codings
  <2>1. ASSUME NEW keys \in [1..n -> EncodingKeys],
               encoding = [i \in 1..n |-> [key |-> keys[i], items |-> <<codings[i]>>]]
        PROVE  /\ encoding \in Seq(LineType) /\ \A i \in 1..Len(encoding) : encoding[i].key \in EncodingKeys
               /\ Len(encoding) = n /\ \A i \in 1..n : encoding[i].items = <<codings[i]>>
    <3>1. \A i \in 1..n : [key |-> keys[i], items |-> <<codings[i]>>] \in LineType
      BY <1>2 DEF LineType
    <3>2. encoding \in [1..n -> LineType]
      BY <2>1, <3>1
    <3>3. encoding \in Seq(LineType)
      BY <3>2, SeqDef
    <3>4. Len(encoding) = n
      BY <3>2, <3>3
    <3>5. \A i \in 1..n : encoding[i].key = keys[i] /\ encoding[i].items = <<codings[i]>>
      BY <2>1
    <3> QED
      BY <3>3, <3>4, <3>5
  <2>2. ASSUME NEW c \in 1..n, encoding = <<[key |-> "content-encoding", items |-> codings]>>
        PROVE  /\ encoding \in Seq(LineType) /\ \A i \in 1..Len(encoding) : encoding[i].key \in EncodingKeys
               /\ Len(encoding) = 1 /\ n # 0 /\ encoding[1].items = codings
    <3>1. PICK r : r = [key |-> "content-encoding", items |-> codings]
      OBVIOUS
    <3>2. r \in LineType /\ r.key \in EncodingKeys /\ r.items = codings
      BY <1>3, <3>1 DEF LineType, EncodingKeys
    <3>3. encoding \in Seq(LineType) /\ Len(encoding) = 1 /\ encoding[1] = r
      BY <2>2, <3>1, <3>2, ShortSequences
    <3>4. (\A i \in 1..1 : i = 1) /\ n # 0
      OBVIOUS
    <3> QED
      BY <3>2, <3>3, <3>4
  <2>3. \/ \E keys \in [1..n -> EncodingKeys] :
              encoding = [i \in 1..n |-> [key |-> keys[i], items |-> <<codings[i]>>]]
        \/ \E c \in 1..n : encoding = <<[key |-> "content-encoding", items |-> codings]>>
    BY <1>1 DEF EncodingLines
  <2> QED
    BY <2>1, <2>2, <2>3
<1>5. Chunked \in LineType
  <2>1. "chunked" \in STRING \cup {"chunked"}
    OBVIOUS
  <2>2. PICK s : s = <<"chunked">>
    OBVIOUS
  <2>3. s \in Seq(STRING \cup {"chunked"})
    BY <2>1, <2>2, ShortSequences
  <2> QED
    BY <2>2, <2>3 DEF Chunked, LineType
<1>6. PICK tail : tail = IF chunked THEN <<Chunked>> ELSE <<>>
  OBVIOUS
<1>7. /\ tail \in Seq(LineType) /\ Len(tail) = IF chunked THEN 1 ELSE 0
      /\ chunked => tail[1] = Chunked
  BY <1>5, <1>6, ShortSequences, EmptySeq
<1>8. /\ lines \in Seq(LineType) /\ Len(lines) = Len(encoding) + Len(tail)
      /\ \A i \in 1..Len(encoding) : lines[i] = encoding[i]
      /\ \A i \in 1..Len(tail) : lines[Len(encoding) + i] = tail[i]
  BY <1>4, <1>6, <1>7, TwoParts
<1>9. Len(encoding) \in Nat
  BY <1>4
<1>10. /\ Listing = Len(encoding) /\ Listing \in 0..Len(lines)
       /\ chunked => Len(lines) = Len(encoding) + 1 /\ 1 \in 1..Len(tail)
  BY <1>7, <1>8, <1>9 DEF Listing
<1>11. chunked => lines[Len(lines)] = Chunked
  BY <1>7, <1>8, <1>10
<1>12. \A i \in 1..Listing : lines[i] = encoding[i]
  BY <1>8, <1>10
<1>13. LinesInv
  BY <1>4, <1>10, <1>11, <1>12 DEF LinesInv
<1>14. CASE Len(encoding) = n /\ \A i \in 1..n : encoding[i].items = <<codings[i]>>
  BY <1>1, <1>10, <1>12, <1>14, <1>8, <1>13 DEF OneEach
<1>15. CASE Len(encoding) = 1 /\ n # 0 /\ encoding[1].items = codings
  <2>1. codings # <<>> /\ Listing = 1 /\ 1 \in 1..Listing
    BY <1>1, <1>10, <1>15, EmptySeq
  <2> QED
    BY <1>8, <1>12, <1>13, <1>15, <2>1 DEF OneLine
<1> QED
  BY <1>4, <1>14, <1>15

LEMMA InitInv == Init => RespInv
<1> SUFFICES ASSUME Init PROVE RespInv
  OBVIOUS
<1>1. payload \in Seq(DataBytes)
  <2>1. PICK n \in 0..MaxPayload : payload \in [1..n -> DataBytes]
    BY DEF Init, BoundedSeq, SeqOf
  <2>2. n \in Nat
    BY BoundsAssumption
  <2> QED
    BY <2>1, <2>2, SeqDef
<1>2. codings \in Seq(STRING) /\ chunked \in BOOLEAN
  BY CodingsAssumption DEF Init
<1>3. lines \in Seq(LineType) /\ LinesInv /\ (OneEach \/ OneLine)
  <2>1. PICK encoding \in EncodingLines(codings) :
              lines = encoding \o IF chunked THEN <<Chunked>> ELSE <<>>
    BY DEF Init
  <2> QED
    BY <1>2, <2>1, LinesAre
<1>4. layers \in Seq(Octets) /\ Len(layers) = 1 /\ layers[1] = payload
  <2>1. DataBytes \subseteq Octet
    BY DEF Octet
  <2>2. payload \in Octets
    BY <1>1, <2>1, SeqMonotonic DEF Octets
  <2>3. layers = <<payload>>
    BY DEF Init
  <2> QED
    BY <2>2, <2>3, ShortSequences
<1>5. /\ frames = <<>> /\ whole = TRUE /\ body = <<>> /\ phase = "sending" /\ merged = 0
      /\ sol = 1 /\ result = <<>> /\ todo = <<>>
  BY DEF Init
<1>6. Len(lines) \in Nat /\ Len(codings) \in Nat /\ Len(frames) = 0 /\ Len(body) = 0
  BY <1>2, <1>3, <1>5
<1>7. RespTypeOK
  <2>1. frames \in Seq(FrameType) /\ body \in Octets /\ result \in Octets /\ todo \in Seq(Words)
    BY <1>5, EmptySeq DEF Octets
  <2>2. merged \in 0..Len(lines) /\ sol \in Nat \ {0} /\ whole \in BOOLEAN
    BY <1>5, <1>6
  <2> QED
    BY <1>1, <1>2, <1>3, <1>4, <1>5, <2>1, <2>2 DEF RespTypeOK
<1>8. LayersInv
  <2>1. Len(layers) \in 1..(Len(codings) + 1) /\ \A i \in 1..(Len(layers) - 1) : FALSE
    BY <1>4, <1>6
  <2> QED
    BY <1>4, <1>5, <2>1 DEF LayersInv
<1>9. FramesInv
  <2>1. /\ \A k \in 1..Len(frames) : FALSE
        /\ Len(body) = BytesBy(Len(frames))
    BY <1>6 DEF BytesBy
  <2> QED
    BY <1>5, <2>1 DEF FramesInv
<1>10. PlainInv
  BY <1>5 DEF PlainInv
<1>11. HeadersInv
  <2>1. Header("transfer-encoding") = <<>> /\ Header("content-encoding") = <<>>
    <3>1. DOMAIN headers = {}
      BY DEF Init
    <3> QED
      BY <3>1 DEF Header
  <2>2. Lowered(0) = <<>>
    BY <1>2, <1>6, LoweredIs
  <2>3. ~(merged > Listing)
    BY <1>3, <1>5, <1>6 DEF LinesInv
  <2> QED
    BY <1>3, <1>5, <2>1, <2>2, <2>3 DEF HeadersInv
<1>12. PhaseInv /\ TodoInv /\ ResultInv /\ NoErrorInv
  BY <1>5 DEF PhaseInv, TodoInv, ResultInv, NoErrorInv, Errors
<1> QED
  BY <1>3, <1>7, <1>8, <1>9, <1>10, <1>11, <1>12 DEF RespInv
------------------------------------------------------------------------------
(* The steps of the server.                                                  *)

LEMMA HeaderKept ==
    ASSUME LinesInv, HeadersInv, UNCHANGED message, UNCHANGED <<merged, headers>>
    PROVE  LinesInv' /\ HeadersInv'
<1>1. /\ codings' = codings /\ chunked' = chunked /\ lines' = lines
      /\ merged' = merged /\ headers' = headers
  BY DEF message
<1>2. LinesInv'
  BY <1>1 DEF LinesInv, Listing
<1>3. Listing' = Listing /\ (OneEach' <=> OneEach) /\ (OneLine' <=> OneLine)
  BY <1>1 DEF Listing, OneEach, OneLine
<1>4. \A key : Header(key)' = Header(key)
  BY <1>1 DEF Header
<1>5. \A n : Lowered(n)' = Lowered(n)
  BY <1>1 DEF Lowered
<1>6. HeadersInv'
  BY <1>1, <1>3, <1>4, <1>5 DEF HeadersInv
<1> QED
  BY <1>2, <1>6

\* The server leaves what the client has alone.
LEMMA ServerSteps ==
    ASSUME RespInv, UNCHANGED <<message, reading>>, phase \in {"sending", "sent"},
           phase' \in {"sending", "sent", "headless"}
    PROVE  LinesInv' /\ HeadersInv' /\ TodoInv' /\ ResultInv' /\ NoErrorInv' /\ sol' = 1
<1>1. LinesInv' /\ HeadersInv'
  BY HeaderKept DEF RespInv, reading
<1>2. sol' = 1
  BY DEF RespInv, PhaseInv, reading
<1>3. TodoInv'
  BY DEF TodoInv
<1>4. ResultInv'
  BY DEF ResultInv
<1>5. NoErrorInv'
  BY DEF NoErrorInv, Errors
<1> QED
  BY <1>1, <1>2, <1>3, <1>4, <1>5

LEMMA EncodeInv == RespInv /\ Encode => RespInv'
<1> SUFFICES ASSUME RespInv, Encode PROVE RespInv'
  OBVIOUS
<1>1. /\ phase = "sending" /\ phase' = phase /\ Len(layers) <= Len(codings)
      /\ layers' = Append(layers, Coded(Last(layers), codings[Len(layers)]))
      /\ message' = message /\ reading' = reading
      /\ frames' = frames /\ whole' = whole /\ body' = body
  BY DEF Encode
<1>2. LinesInv' /\ HeadersInv' /\ TodoInv' /\ ResultInv' /\ NoErrorInv' /\ sol' = 1
  BY <1>1, ServerSteps
<1>3. /\ RespTypeOK /\ LayersInv /\ FramesInv /\ PlainInv /\ PhaseInv
  BY DEF RespInv
<1>4. /\ Len(codings) \in Nat /\ Len(layers) \in Nat /\ layers \in Seq(Octets)
      /\ Last(layers) \in Octets /\ \A i \in 1..Len(codings) : codings[i] \in STRING
      /\ Len(layers) \in 1..(Len(codings) + 1) /\ Last(layers) = layers[Len(layers)]
  BY <1>3, LayersAre DEF RespTypeOK, LayersInv, Content, Last
<1>5. Len(layers) \in 1..Len(codings)
  BY ONLY <1>1, <1>4
<1>6. PICK c : c = Coded(Last(layers), codings[Len(layers)]) /\ c \in Octets
  BY <1>4, <1>5, CodedIs
<1>7. /\ layers' \in Seq(Octets) /\ Len(layers') = Len(layers) + 1
      /\ \A i \in 1..Len(layers) : layers'[i] = layers[i]
      /\ layers'[Len(layers) + 1] = c
  BY <1>1, <1>4, <1>6, AppendProperties
<1>8. frames = <<>>
  <2>1. ~Encoded
    BY <1>4, <1>5 DEF Encoded
  <2> QED
    BY <1>3, <2>1 DEF LayersInv
<1>9. RespTypeOK'
  BY <1>1, <1>3, <1>7 DEF RespTypeOK, message, reading
<1>10. LayersInv'
  <2>1. codings' = codings /\ payload' = payload
    BY <1>1 DEF message
  <2>2. Len(layers') \in 1..(Len(codings) + 1) /\ 1 \in 1..Len(layers)
    BY <1>4, <1>5, <1>7
  <2>3. layers'[1] = payload
    BY <1>3, <1>7, <2>2 DEF LayersInv
  <2>4. ASSUME NEW i \in 1..(Len(layers') - 1)
        PROVE  layers'[i + 1] = Coded(layers'[i], codings[i])
    <3>1. CASE i = Len(layers)
      <4>1. layers'[i + 1] = c /\ layers'[i] = Last(layers)
        BY <1>4, <1>7, <3>1, <1>5
      <4> QED
        BY <1>6, <3>1, <4>1
    <3>2. CASE i # Len(layers)
      <4>1. i \in 1..Len(layers) /\ i + 1 \in 1..Len(layers) /\ i \in 1..(Len(layers) - 1)
        BY <1>4, <1>7, <3>2
      <4>2. layers[i + 1] = Coded(layers[i], codings[i])
        BY <1>3, <4>1 DEF LayersInv
      <4> QED
        BY <1>7, <4>1, <4>2
    <3> QED
      BY <3>1, <3>2
  <2> QED
    BY <1>1, <1>8, <2>1, <2>2, <2>3, <2>4 DEF LayersInv
<1>11. FramesInv'
  <2>1. frames' = <<>> /\ Len(frames') = 0 /\ \A k \in 1..0 : FALSE
    BY <1>1, <1>8
  <2>2. chunked' = chunked /\ phase' = "sending" /\ whole' = TRUE
    BY <1>1, <1>3 DEF message, PhaseInv, RespTypeOK
  <2>3. BytesBy(Len(frames))' = BytesBy(Len(frames)) /\ (chunked => Len(body) = BytesBy(Len(frames)))
    BY <1>1, <1>3, <1>8, <2>1, <2>2 DEF FramesInv, BytesBy
  <2> QED
    BY <1>1, <2>1, <2>2, <2>3 DEF FramesInv
<1>12. PlainInv'
  BY <1>1, <1>3 DEF PlainInv, message
<1>13. PhaseInv'
  BY <1>1, <1>2, <1>3 DEF PhaseInv
<1> QED
  BY <1>2, <1>9, <1>10, <1>11, <1>12, <1>13 DEF RespInv

LEMMA SentIs ==
    ASSUME RespTypeOK, LayersInv, FramesInv, chunked
    PROVE  Sent \in Nat /\ Sent = SentBy(Len(frames))
<1>1. PICK m \in Nat : m = Len(frames)
  BY DEF RespTypeOK
<1>2. CASE frames = <<>>
  BY <1>2 DEF Sent, SentBy
<1>3. CASE frames # <<>>
  <2>1. m # 0 /\ m \in 1..Len(frames)
    BY <1>1, <1>3, EmptySeq DEF RespTypeOK
  <2>2. frames[m].to \in Nat
    BY <2>1, FramesAre
  <2> QED
    BY <1>1, <1>3, <2>1, <2>2 DEF Sent, SentBy, Last
<1> QED
  BY <1>2, <1>3

\* One more chunk, be it the last one or not.
LEMMA FrameAdded ==
    ASSUME RespInv, phase = "sending", chunked, Encoded,
           NEW n \in 0..MaxChunk, Sent + n <= Len(Content), NEW size \in SizeLines(n),
           Send(Frame(size, Sent + n)), UNCHANGED <<message, layers, whole, reading>>,
           phase' \in {"sending", "sent"}, n = 0 <=> phase' = "sent",
           phase' = "sent" => Sent = Len(Content)
    PROVE  RespInv'
<1>1. LinesInv' /\ HeadersInv' /\ TodoInv' /\ ResultInv' /\ NoErrorInv' /\ sol' = 1
  BY ServerSteps
<1>2. RespTypeOK /\ LayersInv /\ FramesInv /\ PlainInv /\ PhaseInv
  BY DEF RespInv
<1>3. /\ whole = TRUE /\ whole' = TRUE /\ chunked' = chunked /\ layers' = layers
      /\ codings' = codings /\ payload' = payload
  BY <1>2 DEF message, PhaseInv, RespTypeOK
<1>4. /\ Content' = Content /\ Content \in Octets /\ Len(Content) \in Nat
      /\ \A g : Bytes(g)' = Bytes(g) /\ (IsFrame(g)' <=> IsFrame(g))
  <2>1. Content' = Content
    BY <1>3 DEF Content
  <2>2. Content \in Octets
    BY <1>2, LayersAre
  <2> QED
    BY <2>1, <2>2 DEF Bytes, IsFrame, Octets
<1>5. PICK m \in Nat : m = Len(frames)
  BY <1>2 DEF RespTypeOK
<1>6. /\ Len(body) \in Nat /\ frames \in Seq(FrameType) /\ body \in Octets
      /\ Len(body) = BytesBy(m)
  BY <1>2, <1>3, <1>5 DEF RespTypeOK, FramesInv, Octets
<1>7. PICK s \in Nat : s = Sent /\ s = SentBy(m)
  BY <1>2, <1>5, SentIs
<1>8. PICK f : f = [at |-> Len(body) + 1, size |-> size, from |-> s, to |-> s + n]
  OBVIOUS
<1>9. /\ f.at = Len(body) + 1 /\ f.from = s /\ f.to = s + n /\ f.size = size
      /\ frames' = Append(frames, f) /\ body' = body \o Bytes(f)
  BY <1>7, <1>8 DEF Send, Frame
<1>10. n \in Nat /\ CarryOf(f) = n /\ s + n \in Nat
  <2>1. n \in Nat
    BY DEF MaxChunk
  <2>2. s + n - s = n /\ s + n \in Nat
    BY ONLY s \in Nat, <2>1
  <2> QED
    BY <1>9, <2>1, <2>2 DEF CarryOf
<1>11. IsFrame(f)
  <2>1. size \in [digits : Octets, extension : Octets]
    <3>1. size.digits \in Octets /\ size.extension \in Octets
      BY SizeLine, ExtensionIs
    <3>2. \E d, x : size = [digits |-> d, extension |-> x]
      BY DEF SizeLines
    <3> QED
      BY <3>1, <3>2
  <2>2. Len(body) + 1 \in Nat \ {0}
    BY <1>6
  <2>3. f \in FrameType
    BY <1>8, <1>10, <2>1, <2>2 DEF FrameType
  <2>4. f.from <= f.to /\ f.to <= Len(Content) /\ n <= MaxChunk
    <3>1. s <= s + n /\ s + n <= Len(Content) /\ n <= MaxChunk
      BY <1>7, <1>10 DEF MaxChunk
    <3> QED
      BY <1>9, <3>1
  <2> QED
    BY <1>9, <1>10, <2>3, <2>4 DEF IsFrame
<1>12. f \in FrameType
  BY <1>11 DEF IsFrame
<1>13. PICK w, l : w = Bytes(f) /\ l = LineOf(f) /\ w \in Octets /\ l \in Nat /\ Len(w) = l + n + 4
  <2>1. Chunk(Bytes(f), f.size.digits, f.size.extension, LineOf(f), CarryOf(f), f.from)
    BY <1>4, <1>11, BytesOf
  <2>2. /\ Bytes(f) \in Octets /\ LineOf(f) \in Nat \ {0}
        /\ Len(Bytes(f)) = LineOf(f) + CarryOf(f) + 4
    BY <2>1 DEF Chunk
  <2> QED
    BY <1>10, <2>2
<1>14. /\ frames' \in Seq(FrameType) /\ frames' # <<>> /\ Len(frames') = m + 1
       /\ \A k \in 1..m : frames'[k] = frames[k]
       /\ frames'[m + 1] = f
  BY <1>5, <1>6, <1>9, <1>12, AppendProperties
<1>15. /\ body' \in Octets /\ Len(body') = Len(body) + Len(w)
       /\ \A i \in 1..Len(body) : body'[i] = body[i]
       /\ \A i \in 1..Len(w) : body'[Len(body) + i] = w[i]
  <2>1. body \in Seq(Octet) /\ w \in Seq(Octet) /\ body' = body \o w
    BY <1>6, <1>9, <1>13 DEF Octets
  <2> QED
    BY ONLY <2>1, TwoParts DEF Octets
<1>16. RespTypeOK'
  BY <1>2, <1>3, <1>14, <1>15 DEF RespTypeOK, message, reading
<1>17. LayersInv'
  BY <1>2, <1>3 DEF LayersInv, Encoded
<1>18. PlainInv' /\ PhaseInv'
  BY <1>1, <1>3 DEF PlainInv, PhaseInv
<1>19. \A k \in 0..m : BytesBy(k)' = BytesBy(k) /\ SentBy(k)' = SentBy(k)
  <2> SUFFICES ASSUME NEW k \in 0..m PROVE BytesBy(k)' = BytesBy(k) /\ SentBy(k)' = SentBy(k)
    OBVIOUS
  <2>1. CASE k = 0
    BY <2>1 DEF BytesBy, SentBy
  <2>2. CASE k # 0
    <3>1. frames'[k] = frames[k]
      BY <1>5, <1>14, <2>2
    <3> QED
      BY <2>2, <3>1 DEF BytesBy, SentBy
  <2> QED
    BY <2>1, <2>2
<1>20. ASSUME NEW k \in 1..m
       PROVE  /\ frames'[k].at = BytesBy(k - 1)' + 1 /\ frames'[k].from = SentBy(k - 1)'
              /\ IsFrame(frames[k])' /\ Agrees(frames[k].at, Bytes(frames[k]))'
              /\ frames'[k].from # frames'[k].to
  <2>1. k \in 1..Len(frames) /\ frames'[k] = frames[k] /\ k - 1 \in 0..m /\ k \in 0..Len(frames)
    BY <1>5, <1>14
  <2>2. PICK g : g = frames[k]
    OBVIOUS
  <2>3. /\ g.at = BytesBy(k - 1) + 1 /\ g.from = SentBy(k - 1) /\ IsFrame(g)
        /\ Agrees(g.at, Bytes(g)) /\ g.from # g.to
    BY <1>2, <2>1, <2>2 DEF FramesInv
  <2>4. /\ g.at \in Nat \ {0} /\ Len(Bytes(g)) = LineOf(g) + CarryOf(g) + 4
        /\ LineOf(g) \in Nat /\ CarryOf(g) \in Nat
    BY <1>2, <2>1, <2>2, FramesAre
  <2>5. g.at + LineOf(g) + CarryOf(g) + 3 <= Len(body)
    <3>1. m \in k..Len(frames) /\ k # 0
      BY <1>5
    <3>2. BytesBy(k) <= BytesBy(m)
      BY <1>2, <2>1, <3>1, BytesGrow
    <3>3. BytesBy(k) = g.at + LineOf(g) + CarryOf(g) + 3
      BY <2>2, <3>1 DEF BytesBy
    <3> QED
      BY <1>6, <3>2, <3>3
  <2>6. ASSUME NEW i \in 1..Len(Bytes(g))
        PROVE  body'[g.at + i - 1] = Bytes(g)[i]
    <3>1. g.at + i - 1 \in 1..Len(body)
      <4>1. i \in Nat /\ i >= 1 /\ i <= LineOf(g) + CarryOf(g) + 4
        BY <2>4
      <4>2. Len(body) \in Nat /\ g.at \in Nat \ {0} /\ LineOf(g) \in Nat /\ CarryOf(g) \in Nat
        BY <1>6, <2>4
      <4> QED
        BY ONLY <2>5, <4>1, <4>2
    <3>2. g.at + i - 1 <= Len(body)
      BY <1>6, <3>1
    <3>3. body[g.at + i - 1] = Bytes(g)[i]
      BY <2>3, <3>2 DEF Agrees
    <3> QED
      BY <1>15, <3>1, <3>3
  <2>7. Agrees(frames[k].at, Bytes(frames[k]))'
    <3>1. frames'[k] = g /\ Bytes(g)' = Bytes(g)
      BY <1>4, <2>1, <2>2
    <3> QED
      BY <2>6, <3>1 DEF Agrees
  <2> QED
    <3>1. /\ frames'[k].at = BytesBy(k - 1)' + 1 /\ frames'[k].from = SentBy(k - 1)'
          /\ frames'[k].from # frames'[k].to
      BY <1>19, <2>1, <2>2, <2>3
    <3>2. IsFrame(frames[k])'
      BY <1>4, <2>1, <2>2, <2>3 DEF IsFrame
    <3> QED
      BY <2>7, <3>1, <3>2
<1>21. /\ frames'[m + 1].at = BytesBy(m)' + 1 /\ frames'[m + 1].from = SentBy(m)'
       /\ IsFrame(frames[m + 1])' /\ Agrees(frames[m + 1].at, Bytes(frames[m + 1]))'
       /\ frames'[m + 1].from = frames'[m + 1].to <=> phase' # "sending"
  <2>1. m \in 0..m
    OBVIOUS
  <2>2. frames'[m + 1].at = BytesBy(m)' + 1 /\ frames'[m + 1].from = SentBy(m)'
    BY <1>6, <1>7, <1>9, <1>14, <1>19, <2>1
  <2>3. IsFrame(frames[m + 1])'
    BY <1>4, <1>11, <1>14 DEF IsFrame
  <2>4. ASSUME NEW i \in 1..Len(w) PROVE body'[f.at + i - 1] = w[i]
    <3>1. f.at + i - 1 = Len(body) + i
      BY <1>6, <1>9, <1>13
    <3> QED
      BY <1>15, <3>1
  <2>5. Agrees(frames[m + 1].at, Bytes(frames[m + 1]))'
    <3>1. frames'[m + 1] = f /\ Bytes(f)' = w
      BY <1>4, <1>13, <1>14
    <3> QED
      BY <2>4, <3>1 DEF Agrees
  <2>6. s = s + n <=> n = 0
    BY ONLY s \in Nat, <1>10
  <2>7. frames'[m + 1].from = frames'[m + 1].to <=> phase' # "sending"
    BY <1>9, <1>14, <2>6
  <2> QED
    BY <2>2, <2>3, <2>5, <2>7
<1>22. FramesInv'
  <2>1. ASSUME NEW k \in 1..Len(frames')
        PROVE  /\ frames'[k].at = BytesBy(k - 1)' + 1 /\ frames'[k].from = SentBy(k - 1)'
               /\ IsFrame(frames[k])' /\ Agrees(frames[k].at, Bytes(frames[k]))'
               /\ frames'[k].from = frames'[k].to <=> phase' # "sending" /\ k = Len(frames')
    <3>1. CASE k = m + 1
      <4>1. k - 1 = m
        BY <3>1
      <4> QED
        BY <1>14, <1>21, <3>1, <4>1
    <3>2. CASE k # m + 1
      <4>1. k \in 1..m /\ k # Len(frames')
        BY <1>14, <3>2
      <4> QED
        BY <1>20, <4>1
    <3> QED
      BY <3>1, <3>2
  <2>2. phase' # "sending" => frames' # <<>> /\ Sent' = Len(Content)'
    <3> SUFFICES ASSUME phase' = "sent" PROVE Sent' = Len(Content)
      BY <1>4, <1>14
    <3>1. n = 0 /\ s = Len(Content) /\ s + n = s
      BY <1>7
    <3>2. Sent' = frames'[m + 1].to
      BY <1>14 DEF Sent, Last
    <3> QED
      BY <1>9, <1>14, <3>1, <3>2
  <2>3. Len(body') = BytesBy(Len(frames))'
    <3>1. BytesBy(m + 1)' = f.at + l + n + 3
      <4>1. m + 1 # 0 /\ frames'[m + 1] = f
        BY <1>14
      <4>2. BytesBy(m + 1)' = f.at + LineOf(f) + CarryOf(f) + 3
        BY <4>1 DEF BytesBy
      <4> QED
        BY <1>10, <1>13, <4>2
    <3>2. Len(body') = (Len(body) + 1) + l + n + 3
      BY <1>6, <1>10, <1>13, <1>15
    <3> QED
      BY <1>9, <1>14, <3>1, <3>2
  <2> QED
    BY <1>3, <2>1, <2>2, <2>3 DEF FramesInv
<1> QED
  BY <1>1, <1>16, <1>17, <1>18, <1>22 DEF RespInv

LEMMA SendChunkInv == RespInv /\ SendChunk => RespInv'
<1> SUFFICES ASSUME RespInv, SendChunk PROVE RespInv'
  OBVIOUS
<1>1. PICK n \in 1..Min({MaxChunk, Len(Content) - Sent}) :
         \E size \in SizeLines(n) : Send(Frame(size, Sent + n))
  BY DEF SendChunk
<1>2. PICK size \in SizeLines(n) : Send(Frame(size, Sent + n))
  BY <1>1
<1>3. /\ phase = "sending" /\ phase' = "sending" /\ chunked /\ Encoded
      /\ UNCHANGED <<message, layers, whole, reading>>
  BY DEF SendChunk
<1>4. RespTypeOK /\ LayersInv /\ FramesInv
  BY DEF RespInv
<1>5. Sent \in Nat /\ Len(Content) \in Nat
  <2>1. Content \in Octets
    BY <1>4, LayersAre
  <2> QED
    BY <1>3, <1>4, <2>1, SentIs DEF Octets
<1>6. MaxChunk \in Int /\ Len(Content) - Sent \in Int
  BY ONLY <1>5 DEF MaxChunk
<1>7. PICK m \in Int : /\ m = Min({MaxChunk, Len(Content) - Sent})
                       /\ m <= MaxChunk /\ m <= Len(Content) - Sent
  BY <1>6, MinOfTwo
<1>8. n \in 0..MaxChunk /\ Sent + n <= Len(Content) /\ n # 0
  <2>1. n \in 1..m
    BY <1>7
  <2> QED
    BY ONLY <1>5, <1>6, <1>7, <2>1, m \in Int
<1>9. phase' # "sent" /\ phase' \in {"sending", "sent"} /\ (n = 0 <=> phase' = "sent")
  BY <1>3, <1>8
<1> QED
  BY <1>2, <1>3, <1>8, <1>9, FrameAdded

LEMMA SendLastChunkInv == RespInv /\ SendLastChunk => RespInv'
<1> SUFFICES ASSUME RespInv, SendLastChunk PROVE RespInv'
  OBVIOUS
<1>1. PICK size \in SizeLines(0) : Send(Frame(size, Sent))
  BY DEF SendLastChunk
<1>2. /\ phase = "sending" /\ phase' = "sent" /\ chunked /\ Encoded /\ Sent = Len(Content)
      /\ UNCHANGED <<message, layers, whole, reading>>
  BY DEF SendLastChunk
<1>3. Sent \in Nat
  BY <1>2, SentIs DEF RespInv
<1>4. 0 \in 0..MaxChunk /\ Sent + 0 = Sent /\ Sent + 0 <= Len(Content)
  BY <1>2, <1>3 DEF MaxChunk
<1>5. Send(Frame(size, Sent + 0))
  BY <1>1, <1>4
<1>6. phase' \in {"sending", "sent"} /\ (0 = 0 <=> phase' = "sent")
  BY <1>2
<1> QED
  BY <1>2, <1>4, <1>5, <1>6, FrameAdded

LEMMA SendPlainInv == RespInv /\ SendPlain => RespInv'
<1> SUFFICES ASSUME RespInv, SendPlain PROVE RespInv'
  OBVIOUS
<1>1. /\ phase = "sending" /\ phase' = "sent" /\ ~chunked /\ Encoded /\ body' = Content
      /\ UNCHANGED <<message, layers, frames, whole, reading>>
  BY DEF SendPlain
<1>2. LinesInv' /\ HeadersInv' /\ TodoInv' /\ ResultInv' /\ NoErrorInv' /\ sol' = 1
  BY <1>1, ServerSteps
<1>3. RespTypeOK /\ LayersInv /\ FramesInv /\ PlainInv /\ PhaseInv
  BY DEF RespInv
<1>4. /\ whole = TRUE /\ whole' = TRUE /\ ~chunked' /\ layers' = layers
      /\ codings' = codings /\ payload' = payload /\ frames' = <<>> /\ frames' = frames
  BY <1>1, <1>3 DEF message, PhaseInv, RespTypeOK, PlainInv
<1>5. Content' = Content /\ Content \in Octets
  BY <1>3, <1>4, LayersAre DEF Content
<1>6. RespTypeOK'
  BY <1>1, <1>3, <1>4, <1>5 DEF RespTypeOK, message, reading
<1>7. LayersInv'
  BY <1>1, <1>3, <1>4 DEF LayersInv, Encoded
<1>8. FramesInv' /\ PlainInv' /\ PhaseInv'
  BY <1>1, <1>2, <1>4, <1>5 DEF FramesInv, PlainInv, PhaseInv
<1> QED
  BY <1>2, <1>6, <1>7, <1>8 DEF RespInv

LEMMA PrefixOf ==
    ASSUME body \in Octets, NEW n \in 0..(Len(body) - 1), NEW s, s = SubSeq(body, 1, n)
    PROVE  /\ s \in Octets /\ Len(s) = n /\ \A i \in 1..n : s[i] = body[i]
           /\ IsPrefix(s, body) /\ n < Len(body) /\ n \in Nat
<1>1. Len(body) \in Nat /\ n \in Nat /\ n < Len(body)
  BY DEF Octets
<1>2. \A i \in 1..n : body[i] \in Octet
  <2>1. \A i \in 1..n : i \in 1..Len(body)
    BY <1>1
  <2> QED
    BY <2>1, ElementOfSeq DEF Octets
<1>3. /\ s \in Octets /\ Len(s) = IF 1 <= n THEN n - 1 + 1 ELSE 0
      /\ \A i \in 1..(n - 1 + 1) : s[i] = body[1 + i - 1]
  BY <1>1, <1>2, SubSeqProperties DEF Octets
<1>4. /\ n - 1 + 1 = n /\ (IF 1 <= n THEN n - 1 + 1 ELSE 0) = n
      /\ \A i \in 1..n : 1 + i - 1 = i
  BY ONLY <1>1
<1>5. Len(s) = n /\ \A i \in 1..n : s[i] = body[i]
  BY <1>3, <1>4
<1>6. IsPrefix(s, body)
  <2>1. SubSeq(s, 1, Len(s)) = s
    BY <1>3, SubSeqFull DEF Octets
  <2>2. SubSeq(body, 1, Len(s)) = s /\ Len(s) <= Len(body)
    BY <1>1, <1>5
  <2> QED
    BY <2>1, <2>2 DEF IsPrefix
<1> QED
  BY <1>1, <1>3, <1>5, <1>6

LEMMA CutShortInv == RespInv /\ CutShort => RespInv'
<1> SUFFICES ASSUME RespInv, CutShort PROVE RespInv'
  OBVIOUS
<1>1. /\ phase = "sent" /\ whole /\ whole' = FALSE /\ phase' \in {"sent", "headless"}
      /\ UNCHANGED <<message, layers, frames, reading>>
  BY DEF CutShort
<1>2. LinesInv' /\ HeadersInv' /\ TodoInv' /\ ResultInv' /\ NoErrorInv' /\ sol' = 1
  BY <1>1, ServerSteps
<1>3. RespTypeOK /\ LayersInv /\ FramesInv /\ PlainInv /\ PhaseInv
  BY DEF RespInv
<1>4. /\ chunked' = chunked /\ layers' = layers /\ codings' = codings /\ payload' = payload
      /\ frames' = frames
  BY <1>1 DEF message
<1>5. /\ Content' = Content /\ body \in Octets /\ Len(body) \in Nat
      /\ \A g : Bytes(g)' = Bytes(g) /\ (IsFrame(g)' <=> IsFrame(g))
      /\ \A k : BytesBy(k)' = BytesBy(k) /\ SentBy(k)' = SentBy(k)
      /\ Sent' = Sent
  <2>1. Content' = Content
    BY <1>4 DEF Content
  <2> QED
    BY <1>3, <1>4, <2>1 DEF Bytes, IsFrame, BytesBy, SentBy, Sent, RespTypeOK, Octets
<1>6. /\ body' \in Octets /\ Len(body') <= Len(body) /\ Len(body') \in Nat
      /\ \A i \in 1..Len(body') : body'[i] = body[i]
      /\ body' = <<>> \/ (Len(body') < Len(body) /\ IsPrefix(body', body))
  <2>1. ASSUME NEW n \in 0..(Len(body) - 1), body' = SubSeq(body, 1, n)
        PROVE  /\ body' \in Octets /\ Len(body') <= Len(body) /\ Len(body') \in Nat
               /\ \A i \in 1..Len(body') : body'[i] = body[i]
               /\ Len(body') < Len(body) /\ IsPrefix(body', body)
    <3>1. /\ body' \in Octets /\ Len(body') = n /\ \A i \in 1..n : body'[i] = body[i]
          /\ IsPrefix(body', body) /\ n < Len(body) /\ n \in Nat
      BY <1>5, <2>1, PrefixOf
    <3> QED
      BY <1>5, <3>1
  <2>2. CASE body' = <<>>
    <3>1. body' \in Octets /\ Len(body') = 0 /\ \A i \in 1..0 : FALSE
      BY <2>2, EmptySeq DEF Octets
    <3> QED
      BY <1>5, <2>2, <3>1
  <2> QED
    BY <2>1, <2>2 DEF CutShort
<1>7. RespTypeOK'
  BY <1>1, <1>3, <1>4, <1>6 DEF RespTypeOK, message, reading
<1>8. LayersInv'
  BY <1>1, <1>3, <1>4 DEF LayersInv, Encoded
<1>9. FramesInv'
  <2> SUFFICES ASSUME chunked PROVE FramesInv'
    BY <1>4 DEF FramesInv
  <2>1. frames # <<>> /\ Sent = Len(Content) /\ Len(body) = BytesBy(Len(frames))
    BY <1>1, <1>3 DEF FramesInv
  <2>2. Len(body') < BytesBy(Len(frames))
    <3>1. Len(frames) \in Nat \ {0}
      BY <1>3, <2>1, EmptySeq DEF RespTypeOK
    <3>2. BytesBy(Len(frames)) > 0
      <4>1. Len(frames) \in 0..Len(frames) /\ Len(frames) # 0
        BY <3>1
      <4> QED
        BY <1>3, <4>1, BytesGrow
    <3>3. CASE body' = <<>>
      BY <2>1, <3>2, <3>3, <1>5
    <3>4. CASE Len(body') < Len(body)
      BY <2>1, <3>4
    <3> QED
      BY <1>6, <3>3, <3>4
  <2>3. ASSUME NEW k \in 1..Len(frames), Agrees(frames[k].at, Bytes(frames[k]))
        PROVE  Agrees(frames[k].at, Bytes(frames[k]))'
    <3>1. PICK a, w : a \in Nat \ {0} /\ a = frames[k].at /\ w = Bytes(frames[k]) /\ Len(w) \in Nat
      <4>1. /\ frames[k].at \in Nat \ {0} /\ LineOf(frames[k]) \in Nat /\ CarryOf(frames[k]) \in Nat
            /\ Len(Bytes(frames[k])) = LineOf(frames[k]) + CarryOf(frames[k]) + 4
        BY <1>3, FramesAre
      <4> QED
        BY <4>1
    <3>2. ASSUME NEW i \in 1..Len(w), a + i - 1 <= Len(body')
          PROVE  body'[a + i - 1] = w[i]
      <4>1. a + i - 1 \in 1..Len(body') /\ a + i - 1 <= Len(body)
        <5>1. /\ a \in Nat \ {0} /\ Len(w) \in Nat /\ Len(body') \in Nat /\ Len(body) \in Nat
              /\ Len(body') <= Len(body)
          BY <1>5, <1>6, <3>1
        <5> QED
          BY ONLY i \in 1..Len(w), a + i - 1 <= Len(body'), <5>1
      <4> QED
        BY <1>6, <2>3, <3>1, <4>1 DEF Agrees
    <3>3. frames'[k].at = a /\ Bytes(frames[k])' = w
      BY <1>4, <1>5, <3>1
    <3> QED
      BY <3>2, <3>3 DEF Agrees
  <2> QED
    BY <1>1, <1>3, <1>4, <1>5, <2>1, <2>2, <2>3 DEF FramesInv
<1>10. PlainInv'
  <2>1. ~chunked => body = Content
    BY <1>1, <1>3 DEF PlainInv
  <2> QED
    BY <1>1, <1>3, <1>4, <1>5, <1>6, <2>1 DEF PlainInv
<1>11. PhaseInv'
  BY <1>1, <1>2 DEF PhaseInv
<1> QED
  BY <1>2, <1>7, <1>8, <1>9, <1>10, <1>11 DEF RespInv
------------------------------------------------------------------------------
(* The steps of the client.                                                  *)

\* The client leaves what the server has sent alone.
LEMMA ClientSteps ==
    ASSUME RespInv, UNCHANGED <<message, sending>>, phase # "sending", phase' # "sending"
    PROVE  LayersInv' /\ FramesInv' /\ PlainInv' /\ LinesInv'
<1>1. /\ chunked' = chunked /\ layers' = layers /\ codings' = codings /\ payload' = payload
      /\ lines' = lines /\ frames' = frames /\ whole' = whole /\ body' = body
  BY DEF message, sending
<1>2. LayersInv /\ FramesInv /\ PlainInv /\ LinesInv
  BY DEF RespInv
<1>3. /\ Content' = Content
      /\ \A k : BytesBy(k)' = BytesBy(k) /\ SentBy(k)' = SentBy(k)
      /\ Sent' = Sent
  BY <1>1 DEF Content, BytesBy, SentBy, Sent
<1>4. \A g : Bytes(g)' = Bytes(g) /\ (IsFrame(g)' <=> IsFrame(g))
  BY <1>3 DEF Bytes, IsFrame
<1>5. ASSUME NEW k PROVE Agrees(frames[k].at, Bytes(frames[k]))' <=> Agrees(frames[k].at, Bytes(frames[k]))
  <2>1. Bytes(frames[k])' = Bytes(frames[k]) /\ frames'[k] = frames[k]
    BY <1>1, <1>4
  <2> QED
    BY <1>1, <2>1 DEF Agrees
<1>6. LayersInv'
  BY <1>1, <1>2 DEF LayersInv, Encoded
<1>7. FramesInv'
  BY <1>1, <1>2, <1>3, <1>4, <1>5 DEF FramesInv
<1>8. PlainInv'
  BY <1>1, <1>2, <1>3 DEF PlainInv
<1>9. LinesInv'
  BY <1>1, <1>2 DEF LinesInv, Listing
<1> QED
  BY <1>6, <1>7, <1>8, <1>9

LEMMA EndOfHeaderInv == RespInv /\ EndOfHeader => RespInv'
<1> SUFFICES ASSUME RespInv, EndOfHeader PROVE RespInv'
  OBVIOUS
<1>1. phase = "sent" /\ phase' = "response" /\ UNCHANGED <<message, sending, reading>>
  BY DEF EndOfHeader
<1>2. LayersInv' /\ FramesInv' /\ PlainInv' /\ LinesInv'
  BY <1>1, ClientSteps
<1>3. HeadersInv'
  BY <1>1, HeaderKept DEF RespInv, reading
<1>4. RespTypeOK'
  BY <1>1 DEF RespInv, RespTypeOK, message, sending, reading
<1>5. PhaseInv'
  BY <1>1 DEF RespInv, PhaseInv, sending, reading
<1>6. TodoInv' /\ ResultInv' /\ NoErrorInv'
  BY <1>1 DEF TodoInv, ResultInv, NoErrorInv, Errors
<1> QED
  BY <1>2, <1>3, <1>4, <1>5, <1>6 DEF RespInv

LEMMA NoEndOfHeaderInv == RespInv /\ NoEndOfHeader => RespInv'
<1> SUFFICES ASSUME RespInv, NoEndOfHeader PROVE RespInv'
  OBVIOUS
<1>1. phase = "headless" /\ phase' = "BrokenResponseError" /\ UNCHANGED <<message, sending, reading>>
  BY DEF NoEndOfHeader
<1>2. LayersInv' /\ FramesInv' /\ PlainInv' /\ LinesInv'
  BY <1>1, ClientSteps
<1>3. HeadersInv'
  BY <1>1, HeaderKept DEF RespInv, reading
<1>4. RespTypeOK'
  BY <1>1 DEF RespInv, RespTypeOK, message, sending, reading, Ends, Errors
<1>5. ~whole' /\ PhaseInv'
  BY <1>1 DEF RespInv, PhaseInv, sending, reading
<1>6. TodoInv' /\ ResultInv' /\ NoErrorInv'
  BY <1>1, <1>5 DEF TodoInv, ResultInv, NoErrorInv
<1> QED
  BY <1>2, <1>3, <1>4, <1>5, <1>6 DEF RespInv

LEMMA OneItem ==
    ASSUME NEW S, NEW c \in S, NEW s, s = [i \in 1..1 |-> c]
    PROVE  s \in Seq(S) /\ Len(s) = 1 /\ s[1] = c /\ s = <<c>>
<1>1. (\A i \in 1..1 : i = 1) /\ 1 \in 1..1 /\ 1 \in Nat
  OBVIOUS
<1>2. s \in [1..1 -> S] /\ s[1] = c
  BY <1>1
<1>3. s \in Seq(S)
  BY <1>1, <1>2, SeqDef
<1>4. Len(s) = 1
  BY <1>2, <1>3
<1>5. PICK t : t = <<c>>
  OBVIOUS
<1>6. t \in Seq(S) /\ Len(t) = 1 /\ t[1] = c
  BY <1>5, ShortSequences
<1>7. s = t
  BY <1>1, <1>2, <1>3, <1>4, <1>6, SeqEqual
<1> QED
  BY <1>2, <1>3, <1>4, <1>5, <1>7

\* The values of one more line are joined to those of its key.
LEMMA LineMerged ==
    ASSUME RespTypeOK, LinesInv, HeadersInv, HeaderLine
    PROVE  HeadersInv'
<1>1. PICK m \in Nat : m = merged /\ m + 1 \in 1..Len(lines) /\ merged' = m + 1 /\ Len(lines) \in Nat
  BY DEF RespTypeOK, HeaderLine
<1>2. PICK line : line = lines[m + 1] /\ line \in LineType
  BY <1>1, ElementOfSeq DEF RespTypeOK
<1>3. PICK key, items, read : /\ key = Lower(line.key) /\ items = line.items
                              /\ read = [i \in 1..Len(items) |-> Lower(items[i])]
  OBVIOUS
<1>4. headers' = [k \in DOMAIN headers \cup {key} |->
                    IF k = key THEN Header(key) \o read ELSE headers[k]]
  BY <1>1, <1>2, <1>3 DEF HeaderLine
<1>5. Header(key)' = Header(key) \o read /\ \A k : k # key => Header(k)' = Header(k)
  <2>1. DOMAIN headers' = DOMAIN headers \cup {key}
    BY <1>4
  <2> QED
    BY <1>4, <2>1 DEF Header
<1>6. /\ codings' = codings /\ chunked' = chunked /\ lines' = lines
  BY DEF HeaderLine, message
<1>7. /\ Listing' = Listing /\ (OneEach' <=> OneEach) /\ (OneLine' <=> OneLine)
      /\ \A n : Lowered(n)' = Lowered(n)
  BY <1>6 DEF Listing, OneEach, OneLine, Lowered
<1>8. codings \in Seq(STRING) /\ Len(codings) \in Nat /\ Listing \in 0..Len(lines)
  BY DEF RespTypeOK, LinesInv
<1>9. CASE m + 1 <= Listing
  <2>1. key = "content-encoding"
    <3>1. m + 1 \in 1..Listing
      BY <1>1, <1>8, <1>9
    <3>2. line.key \in EncodingKeys
      BY <1>2, <3>1 DEF LinesInv
    <3> QED
      BY <1>3, <3>2 DEF EncodingKeys, Lower
  <2>2. /\ ~(merged > Listing) /\ ~(merged' > Listing)
        /\ Header("transfer-encoding")' = <<>>
    <3>1. ~(merged > Listing) /\ ~(merged' > Listing)
      BY <1>1, <1>8, <1>9
    <3> QED
      BY <1>5, <2>1, <3>1 DEF HeadersInv
  <2>3. CASE OneEach /\ Header("content-encoding") = Lowered(m)
    <3>1. Listing = Len(codings) /\ items = <<codings[m + 1]>> /\ m \in 0..Len(codings)
          /\ m + 1 \in 1..Len(codings) /\ m + 1 \in 0..Len(codings)
      BY <1>1, <1>2, <1>3, <1>8, <1>9, <2>3 DEF OneEach
    <3>2. PICK c : c = codings[m + 1] /\ c \in STRING
      BY <1>8, <3>1
    <3>3. Len(items) = 1 /\ items[1] = c
      BY <3>1, <3>2, ShortSequences
    <3>4. Lower(c) \in Words
      BY <3>2 DEF Words
    <3>5. read \in Seq(Words) /\ Len(read) = 1 /\ read[1] = Lower(c)
      <4>1. (\A i \in 1..1 : i = 1) /\ 1 \in 1..1
        OBVIOUS
      <4>2. read = [i \in 1..1 |-> Lower(c)]
        BY <1>3, <3>3, <4>1
      <4> QED
        BY <3>4, <4>2, OneItem
    <3>6. PICK s, t, u : s = Lowered(m) /\ t = Lowered(m + 1) /\ u = s \o read
      OBVIOUS
    <3>7. /\ s \in Seq(Words) /\ Len(s) = m /\ \A i \in 1..m : s[i] = Lower(codings[i])
          /\ t \in Seq(Words) /\ Len(t) = m + 1 /\ \A i \in 1..(m + 1) : t[i] = Lower(codings[i])
      BY <1>8, <3>1, <3>6, LoweredIs
    <3>8. /\ u \in Seq(Words) /\ Len(u) = m + 1
          /\ \A i \in 1..m : u[i] = s[i]
          /\ \A i \in 1..1 : u[m + i] = read[i]
      <4>1. /\ u \in Seq(Words) /\ Len(u) = Len(s) + Len(read)
            /\ \A i \in 1..Len(s) : u[i] = s[i]
            /\ \A i \in 1..Len(read) : u[Len(s) + i] = read[i]
        <5>1. s \in Seq(Words) /\ read \in Seq(Words) /\ u = s \o read
          BY <3>5, <3>6, <3>7
        <5> QED
          BY ONLY <5>1, TwoParts
      <4> QED
        BY <3>5, <3>7, <4>1
    <3>9. \A i \in 1..Len(u) : u[i] = t[i]
      <4> SUFFICES ASSUME NEW i \in 1..(m + 1) PROVE u[i] = t[i]
        BY <3>8
      <4>1. CASE i = m + 1
        <5>1. 1 \in 1..1
          OBVIOUS
        <5> QED
          BY <3>2, <3>5, <3>7, <3>8, <4>1, <5>1
      <4>2. CASE i # m + 1
        <5>1. i \in 1..m /\ i \in 1..(m + 1)
          BY <4>2
        <5> QED
          BY <3>7, <3>8, <5>1
      <4> QED
        BY <4>1, <4>2
    <3>10. u = t
      BY <3>7, <3>8, <3>9, SeqEqual
    <3>11. Header("content-encoding")' = Lowered(m + 1)
      BY <1>5, <2>1, <2>3, <3>6, <3>10
    <3> QED
      BY <1>1, <1>7, <2>2, <2>3, <3>11 DEF HeadersInv
  <2>4. CASE OneLine /\ Header("content-encoding") = Lowered(IF m = 0 THEN 0 ELSE Len(codings))
    <3>1. Listing = 1 /\ m = 0 /\ items = codings
      BY <1>1, <1>2, <1>3, <1>8, <1>9, <2>4 DEF OneLine
    <3>2. PICK n \in Nat : n = Len(codings) /\ n \in 0..Len(codings) /\ 0 \in 0..Len(codings)
      BY <1>8
    <3>3. read = Lowered(n)
      BY <1>3, <3>1, <3>2 DEF Lowered
    <3>4. read \in Seq(Words) /\ Lowered(0) = <<>>
      BY <1>8, <3>2, <3>3, LoweredIs
    <3>5. <<>> \o read = read
      BY <3>4, ConcatEmptySeq
    <3>6. Header("content-encoding")' = Lowered(Len(codings))
      BY <1>5, <2>1, <2>4, <3>1, <3>2, <3>3, <3>4, <3>5
    <3> QED
      BY <1>1, <1>6, <1>7, <2>2, <2>4, <3>1, <3>6 DEF HeadersInv
  <2> QED
    BY <1>1, <2>2, <2>3, <2>4 DEF HeadersInv
<1>10. CASE ~(m + 1 <= Listing)
  <2>1. chunked /\ m = Listing /\ m + 1 = Len(lines) /\ merged' > Listing /\ ~(merged > Listing)
    BY <1>1, <1>8, <1>10 DEF Listing
  <2>2. line = Chunked
    BY <1>2, <2>1 DEF LinesInv
  <2>3. key = "transfer-encoding" /\ items = <<"chunked">>
    BY <1>3, <2>2 DEF Chunked, Lower
  <2>4. Header("transfer-encoding") = <<>>
    BY <2>1 DEF HeadersInv
  <2>5. read = <<"chunked">>
    <3>1. (\A i \in 1..1 : i = 1) /\ 1 \in 1..1
      OBVIOUS
    <3>2. Len(items) = 1 /\ items[1] = "chunked"
      BY <2>3
    <3>3. Lower("chunked") = "chunked"
      BY DEF Lower
    <3>4. PICK c : c = "chunked"
      OBVIOUS
    <3>5. read = [i \in 1..1 |-> c]
      BY <1>3, <3>1, <3>2, <3>3, <3>4
    <3>6. c \in {c}
      OBVIOUS
    <3>7. read = <<c>>
      BY <3>5, <3>6, OneItem
    <3> QED
      BY <3>4, <3>7
  <2>6. Header("transfer-encoding")' = <<"chunked">>
    <3>1. <<>> \o read = read
      <4>1. read \in Seq({"chunked"})
        BY <2>5, ShortSequences
      <4> QED
        BY <4>1, ConcatEmptySeq
    <3> QED
      BY <1>5, <2>3, <2>4, <2>5, <3>1
  <2>7. Header("content-encoding")' = Header("content-encoding")
    BY <1>5, <2>3
  <2>8. /\ OneEach => m = Listing
        /\ OneLine => m # 0
    BY <2>1 DEF OneLine
  <2>9. merged' # 0
    BY <1>1
  <2> QED
    BY <1>1, <1>6, <1>7, <2>1, <2>6, <2>7, <2>8, <2>9 DEF HeadersInv
<1> QED
  BY <1>9, <1>10

LEMMA HeaderLineInv == RespInv /\ HeaderLine => RespInv'
<1> SUFFICES ASSUME RespInv, HeaderLine PROVE RespInv'
  OBVIOUS
<1>1. /\ phase = "response" /\ phase' = phase /\ merged < Len(lines) /\ merged' = merged + 1
      /\ UNCHANGED <<message, sending, sol, result, todo>>
  BY DEF HeaderLine
<1>2. LayersInv' /\ FramesInv' /\ PlainInv' /\ LinesInv'
  BY <1>1, ClientSteps
<1>3. HeadersInv'
  BY LineMerged DEF RespInv
<1>4. RespTypeOK'
  <2>1. merged' \in 0..Len(lines)
    BY <1>1 DEF RespInv, RespTypeOK
  <2> QED
    BY <1>1, <2>1 DEF RespInv, RespTypeOK, message, sending
<1>5. PhaseInv'
  BY <1>1 DEF RespInv, PhaseInv, sending
<1>6. TodoInv' /\ ResultInv' /\ NoErrorInv'
  BY <1>1 DEF TodoInv, ResultInv, NoErrorInv, Errors
<1> QED
  BY <1>2, <1>3, <1>4, <1>5, <1>6 DEF RespInv

LEMMA BodyBytesInv == RespInv /\ BodyBytes => RespInv'
<1> SUFFICES ASSUME RespInv, BodyBytes PROVE RespInv'
  OBVIOUS
<1>1. /\ phase = "response" /\ merged = Len(lines) /\ todo' = Header("content-encoding")
      /\ IF Contains(Header("transfer-encoding"), "chunked")
         THEN phase' = "chunks" /\ result' = <<>>
         ELSE phase' = "codings" /\ result' = body
      /\ UNCHANGED <<message, sending, merged, headers, sol>>
  BY DEF BodyBytes
<1>2. /\ RespTypeOK /\ LayersInv /\ FramesInv /\ PlainInv /\ LinesInv /\ HeadersInv /\ PhaseInv
  BY DEF RespInv
<1>3. phase' \in {"chunks", "codings"}
  BY <1>1
<1>4. LayersInv' /\ FramesInv' /\ PlainInv' /\ LinesInv' /\ HeadersInv'
  BY <1>1, <1>2, <1>3, ClientSteps, HeaderKept
<1>5. /\ chunked' = chunked /\ layers' = layers /\ codings' = codings /\ frames' = frames
      /\ whole' = whole /\ body' = body /\ sol' = 1
  BY <1>1, <1>2 DEF message, sending, PhaseInv
<1>6. /\ codings \in Seq(STRING) /\ Len(codings) \in Nat /\ Len(codings) \in 0..Len(codings)
      /\ Listing \in 0..Len(lines) /\ Len(lines) \in Nat /\ Encoded /\ body \in Octets
  BY <1>1, <1>2 DEF RespTypeOK, LinesInv, LayersInv
<1>7. todo' = Lowered(Len(codings))
  <2>1. (IF merged > Listing THEN Listing ELSE merged) = Listing
    <3>1. merged \in Nat /\ Listing \in 0..merged
      BY <1>1, <1>6
    <3> QED
      BY ONLY <3>1
  <2>2. CASE OneEach /\ Header("content-encoding") = Lowered(IF merged > Listing THEN Listing ELSE merged)
    BY <1>1, <2>1, <2>2 DEF OneEach
  <2>3. CASE OneLine /\ Header("content-encoding") = Lowered(IF merged = 0 THEN 0 ELSE Len(codings))
    <3>1. merged # 0
      BY <1>1, <1>6, <2>3 DEF OneLine
    <3> QED
      BY <1>1, <2>3, <3>1
  <2> QED
    BY <1>2, <2>2, <2>3 DEF HeadersInv
<1>8. /\ todo' \in Seq(Words) /\ Len(todo') = Len(codings)
      /\ Lowered(Len(codings))' = Lowered(Len(codings))
  BY <1>5, <1>6, <1>7, LoweredIs DEF Lowered
<1>9. chunked <=> phase' = "chunks"
  <2>1. CASE chunked
    <3>1. Header("transfer-encoding") = <<"chunked">>
      <4>1. merged > Listing
        BY <1>1, <1>6, <2>1 DEF Listing
      <4> QED
        BY <1>2, <4>1 DEF HeadersInv
    <3>2. Contains(Header("transfer-encoding"), "chunked")
      <4>1. PICK h : h = <<"chunked">>
        OBVIOUS
      <4>2. Len(h) = 1 /\ h[1] = "chunked" /\ 1 \in 1..1
        BY <4>1
      <4>3. Contains(h, "chunked")
        BY <4>2 DEF Contains
      <4> QED
        BY <3>1, <4>1, <4>3
    <3> QED
      BY <1>1, <2>1, <3>2
  <2>2. CASE ~chunked
    <3>1. Header("transfer-encoding") = <<>>
      <4>1. ~(merged > Listing)
        BY <1>1, <1>6, <2>2 DEF Listing
      <4> QED
        BY <1>2, <4>1 DEF HeadersInv
    <3>2. ~Contains(<<>>, "chunked")
      <4>1. Len(<<>>) = 0 /\ \A i \in 1..0 : FALSE
        OBVIOUS
      <4> QED
        BY <4>1 DEF Contains
    <3> QED
      BY <1>1, <2>2, <3>1, <3>2
  <2> QED
    BY <1>2, <2>1, <2>2 DEF RespTypeOK
<1>10. /\ phase' = "chunks" => result' = <<>>
       /\ phase' = "codings" => result' = body
  BY <1>1
<1>11. RespTypeOK'
  <2>1. result' \in Octets
    BY <1>3, <1>6, <1>10, EmptySeq DEF Octets
  <2> QED
    BY <1>1, <1>2, <1>3, <1>8, <2>1 DEF RespTypeOK, message, sending
<1>12. PhaseInv'
  <2>1. ASSUME chunked
        PROVE  1 \in 1..Len(frames) /\ frames[1].at = 1 /\ frames[1].from = 0 /\ 1 <= End
    <3>1. frames # <<>> /\ Len(frames) \in Nat \ {0}
      BY <1>1, <1>2, <2>1, EmptySeq DEF FramesInv, RespTypeOK
    <3>2. 1 \in 1..Len(frames) /\ 1 - 1 = 0
      BY <3>1
    <3>3. frames[1].at = BytesBy(1 - 1) + 1 /\ frames[1].from = SentBy(1 - 1)
      BY <1>2, <2>1, <3>2 DEF FramesInv
    <3>4. BytesBy(0) = 0 /\ SentBy(0) = 0
      BY DEF BytesBy, SentBy
    <3>5. 1 <= End
      BY <1>6 DEF End, Octets
    <3> QED
      BY <3>2, <3>3, <3>4, <3>5
  <2>2. SubSeq(Content, 1, 0) = <<>>
    BY SubSeqEmpty
  <2>3. ASSUME phase' = "chunks"
        PROVE  /\ chunked' /\ sol' <= End'
               /\ \E k \in 1..Len(frames') :
                     sol' = frames'[k].at /\ result' = SubSeq(Content, 1, frames[k].from)'
    <3>1. Content' = Content /\ End' = End /\ SubSeq(Content, 1, 0)' = <<>>
      BY <1>5, <2>2 DEF Content, End
    <3> QED
      BY <1>5, <1>9, <1>10, <2>1, <2>3, <3>1
  <2> QED
    BY <1>1, <1>2, <1>3, <1>5, <2>3 DEF PhaseInv
<1>13. TodoInv'
  <2>1. \A i \in (Len(codings) + 1)..Len(codings) : FALSE
    BY <1>6
  <2>2. todo' = Lowered(Len(todo))'
    BY <1>5, <1>7, <1>8 DEF Lowered
  <2> QED
    BY <1>3, <1>5, <1>6, <1>8, <2>1, <2>2 DEF TodoInv
<1>14. ResultInv'
  <2> SUFFICES ASSUME phase' = "codings"
               PROVE  ResultInv'
    BY <1>3 DEF ResultInv
  <2>1. ~chunked /\ result' = body
    BY <1>9, <1>10
  <2>2. Content = layers[Len(codings) + 1] /\ Content \in Octets
    BY <1>2, <1>6, LayersAre
  <2>3. CASE whole
    <3>1. body = Content /\ Content \o <<>> = Content
      BY <1>1, <1>2, <2>1, <2>2, <2>3, ConcatEmptySeq DEF PlainInv, Octets
    <3> QED
      BY <1>5, <1>8, <2>1, <2>2, <3>1 DEF ResultInv
  <2>4. CASE ~whole
    <3>1. body = <<>> \/ (Len(body) < Len(Content) /\ IsPrefix(body, Content))
      BY <1>1, <1>2, <2>1, <2>4 DEF PlainInv
    <3>2. \A i \in (Len(codings) + 1)..Len(codings) : FALSE
      BY <1>6
    <3> QED
      BY <1>5, <1>8, <2>1, <2>2, <2>4, <3>1, <3>2 DEF ResultInv
  <2> QED
    BY <2>3, <2>4
<1>15. NoErrorInv'
  BY <1>3 DEF NoErrorInv, Errors
<1> QED
  BY <1>4, <1>11, <1>12, <1>13, <1>14, <1>15 DEF RespInv

\* The loop over the chunks stands at the chunk k, which is f, of l bytes of size
\* line and n bytes of data, and what it reads there.
StandsAt(k, f, l, n) ==
    /\ k \in 1..Len(frames) /\ f = frames[k] /\ IsFrame(f) /\ Agrees(f.at, Bytes(f))
    /\ sol = f.at /\ sol \in Nat \ {0} /\ result = SubSeq(Content, 1, f.from)
    /\ l = LineOf(f) /\ l \in Nat \ {0} /\ n = CarryOf(f) /\ n \in Nat
    /\ f.from \in Nat /\ f.to = f.from + n /\ f.to <= Len(Content)
    /\ n = 0 <=> k = Len(frames)
    /\ BytesBy(k) = sol + l + n + 3
    /\ IF sol + l + 1 <= Len(body)
       THEN Eol = sol + l /\ Eol # End /\ Data = sol + l + 2 /\ IsSize /\ ChunkSize = n
       ELSE Eol = End
    /\ whole => sol + l + n + 3 <= Len(body)
    /\ k = Len(frames) => Len(body) <= sol + l + n + 3
    /\ whole /\ k = Len(frames) => Len(body) = sol + l + n + 3

LEMMA AtChunk ==
    ASSUME RespInv, phase = "chunks"
    PROVE  \E k, f, l, n : StandsAt(k, f, l, n)
<1>1. RespTypeOK /\ LayersInv /\ FramesInv /\ PhaseInv
  BY DEF RespInv
<1>2. PICK k \in 1..Len(frames) : sol = frames[k].at /\ result = SubSeq(Content, 1, frames[k].from)
  BY <1>1 DEF PhaseInv
<1>3. chunked /\ sol <= End /\ body \in Octets /\ Content \in Octets
  BY <1>1, LayersAre DEF PhaseInv, RespTypeOK
<1>4. PICK f, l, n : f = frames[k] /\ l = LineOf(f) /\ n = CarryOf(f)
  OBVIOUS
<1>5. /\ IsFrame(f) /\ Agrees(f.at, Bytes(f)) /\ l \in Nat \ {0} /\ n \in Nat /\ f.at \in Nat \ {0}
      /\ f.from \in Nat /\ f.to \in Nat
  BY <1>1, <1>3, <1>4, FramesAre
<1>6. f.to = f.from + n /\ f.to <= Len(Content)
  <2>1. n = f.to - f.from
    BY <1>4 DEF CarryOf
  <2>2. f.to <= Len(Content)
    BY <1>5 DEF IsFrame
  <2> QED
    BY <1>5, <2>1, <2>2
<1>7. n = 0 <=> k = Len(frames)
  <2>1. f.from = f.to <=> k = Len(frames)
    BY <1>1, <1>3, <1>4 DEF FramesInv
  <2> QED
    BY <1>5, <1>6, <2>1
<1>8. BytesBy(k) = sol + l + n + 3
  <2>1. k # 0
    BY <1>1 DEF RespTypeOK
  <2> QED
    BY <1>2, <1>4, <2>1 DEF BytesBy
<1>9. sol = f.at
  BY <1>2, <1>4
<1>10. IF sol + l + 1 <= Len(body)
       THEN Eol = sol + l /\ Eol # End /\ Data = sol + l + 2 /\ IsSize /\ ChunkSize = n
       ELSE Eol = End
  BY ONLY <1>3, <1>4, <1>5, <1>9, LineRead
<1>11. /\ whole => BytesBy(k) <= Len(body)
       /\ k = Len(frames) => Len(body) <= BytesBy(k)
       /\ whole /\ k = Len(frames) => Len(body) = BytesBy(k)
  <2>1. k \in 0..Len(frames) /\ Len(frames) \in k..Len(frames)
    BY <1>1 DEF RespTypeOK
  <2>2. BytesBy(k) \in Nat /\ BytesBy(k) <= BytesBy(Len(frames)) /\ Len(body) \in Nat
    BY <1>1, <1>3, <2>1, BytesGrow DEF Octets
  <2>3. IF whole THEN Len(body) = BytesBy(Len(frames)) ELSE Len(body) < BytesBy(Len(frames))
    BY <1>1, <1>3 DEF FramesInv
  <2> QED
    BY <2>2, <2>3
<1>12. whole \in BOOLEAN /\ Len(body) \in Nat
  BY <1>1 DEF RespTypeOK, Octets
<1>13. StandsAt(k, f, l, n)
  BY <1>2, <1>4, <1>5, <1>6, <1>7, <1>8, <1>9, <1>10, <1>11, <1>12 DEF StandsAt
<1> QED
  BY <1>13

LEMMA BrokenChunkInv == RespInv /\ BrokenChunk => RespInv'
<1> SUFFICES ASSUME RespInv, BrokenChunk PROVE RespInv'
  OBVIOUS
<1>1. /\ phase = "chunks" /\ phase' = "BrokenChunkError"
      /\ UNCHANGED <<message, sending, reading>> /\ (Eol = End \/ ~IsSize)
  BY DEF BrokenChunk, Broken
<1>2. LayersInv' /\ FramesInv' /\ PlainInv' /\ LinesInv'
  BY <1>1, ClientSteps
<1>3. HeadersInv'
  BY <1>1, HeaderKept DEF RespInv, reading
<1>4. RespTypeOK'
  BY <1>1 DEF RespInv, RespTypeOK, message, sending, reading, Ends, Errors
<1>5. PhaseInv'
  BY <1>1 DEF RespInv, PhaseInv, sending, reading
<1>6. ~whole
  <2>1. PICK k, f, l, n : StandsAt(k, f, l, n)
    BY <1>1, AtChunk
  <2>2. /\ sol \in Nat /\ l \in Nat /\ n \in Nat
        /\ sol + l + 1 <= Len(body) => Eol # End /\ IsSize
        /\ whole => sol + l + n + 3 <= Len(body)
    BY <2>1 DEF StandsAt
  <2>3. Len(body) \in Nat
    BY DEF RespInv, RespTypeOK, Octets
  <2>4. sol + l + n + 3 <= Len(body) => sol + l + 1 <= Len(body)
    BY ONLY <2>2, <2>3
  <2> QED
    BY <1>1, <2>2, <2>4
<1>7. TodoInv' /\ ResultInv' /\ NoErrorInv'
  BY <1>1, <1>6 DEF TodoInv, ResultInv, NoErrorInv, sending
<1> QED
  BY <1>2, <1>3, <1>4, <1>5, <1>7 DEF RespInv

LEMMA LastChunkInv == RespInv /\ LastChunk => RespInv'
<1> SUFFICES ASSUME RespInv, LastChunk PROVE RespInv'
  OBVIOUS
<1>1. /\ phase = "chunks" /\ phase' = "codings" /\ Eol # End /\ IsSize /\ ChunkSize = 0
      /\ result' = result \o SubSeq(body, Data, Search(CRLF, Data) - 1)
      /\ UNCHANGED <<message, sending, merged, headers, sol, todo>>
  BY DEF LastChunk
<1>2. RespTypeOK /\ LayersInv /\ FramesInv /\ HeadersInv /\ LinesInv /\ PhaseInv /\ TodoInv
  BY DEF RespInv
<1>3. LayersInv' /\ FramesInv' /\ PlainInv' /\ LinesInv' /\ HeadersInv'
  BY <1>1, <1>2, ClientSteps, HeaderKept
<1>4. chunked /\ body \in Octets /\ Content \in Octets /\ Content = layers[Len(codings) + 1]
  BY <1>1, <1>2, LayersAre DEF PhaseInv, LayersInv, RespTypeOK
<1>5. PICK k, f, l, n : StandsAt(k, f, l, n)
  BY <1>1, AtChunk
<1>6. /\ f = frames[k] /\ IsFrame(f) /\ Agrees(f.at, Bytes(f))
      /\ sol = f.at /\ sol \in Nat \ {0} /\ result = SubSeq(Content, 1, f.from)
      /\ l = LineOf(f) /\ l \in Nat \ {0} /\ CarryOf(f) = 0 /\ f.from \in Nat /\ f.to = f.from + 0
      /\ k = Len(frames) /\ sol + l + 1 <= Len(body) /\ Data = sol + l + 2
      /\ Len(body) <= sol + l + 0 + 3 /\ (whole => Len(body) = sol + l + 0 + 3)
  <2>1. sol + l + 1 <= Len(body) /\ n = 0
    BY <1>1, <1>5 DEF StandsAt
  <2> QED
    BY <1>5, <2>1 DEF StandsAt
<1>7. result = Content
  <2>1. f.to = f.from
    BY <1>6
  <2>2. f.to = Len(Content)
    <3>1. frames # <<>> /\ Sent = Len(Content)
      BY <1>1, <1>2, <1>4 DEF FramesInv
    <3> QED
      BY <1>6, <3>1 DEF Sent, Last
  <2> QED
    BY <1>4, <1>6, <2>1, <2>2, SubSeqFull DEF Octets
<1>8. PICK rest : /\ result' = Content \o rest /\ rest \in {<<>>, <<"CR">>}
                  /\ whole => rest = <<>>
  <2>1. PICK p, rest : p = sol + l + 2 /\ rest = SubSeq(body, p, Search(CRLF, p) - 1)
    OBVIOUS
  <2>2. sol + l + 0 + 3 = sol + l + 3
    BY <1>6
  <2>3. rest \in {<<>>, <<"CR">>} /\ (Len(body) = sol + l + 3 => rest = <<>>)
    <3>1. Len(body) <= sol + l + 3
      BY <1>6, <2>2
    <3> QED
      BY ONLY <1>4, <1>6, <2>1, <3>1, RestRead
  <2>4. result' = Content \o rest
    BY <1>1, <1>6, <1>7, <2>1
  <2> QED
    BY <1>6, <2>2, <2>3, <2>4
<1>9. RespTypeOK'
  <2>1. rest \in Octets
    <3>1. "CR" \in Octet
      BY DEF Octet
    <3>2. PICK cr : cr = <<"CR">>
      OBVIOUS
    <3>3. cr \in Octets /\ <<>> \in Octets
      BY <3>1, <3>2, ShortSequences, EmptySeq DEF Octets
    <3> QED
      BY <1>8, <3>2, <3>3
  <2>2. result' \in Octets
    BY <1>4, <1>8, <2>1, ConcatProperties DEF Octets
  <2> QED
    BY <1>1, <1>2, <2>2 DEF RespTypeOK, message, sending
<1>10. PhaseInv'
  BY <1>1, <1>2 DEF PhaseInv, sending
<1>11. /\ codings' = codings /\ todo' = todo /\ whole' = whole /\ layers' = layers
       /\ Len(todo) = Len(codings)
  BY <1>1, <1>2 DEF message, sending, TodoInv
<1>12. TodoInv'
  BY <1>1, <1>2, <1>11 DEF TodoInv, Lowered
<1>13. ResultInv'
  BY <1>4, <1>8, <1>11 DEF ResultInv
<1>14. NoErrorInv'
  BY <1>1 DEF NoErrorInv, Errors
<1> QED
  BY <1>3, <1>9, <1>10, <1>12, <1>13, <1>14 DEF RespInv

\* Where the next chunk lies: there is one, since this one is not empty.
LEMMA NextChunk ==
    ASSUME RespInv, phase = "chunks", NEW k, NEW f, NEW l, NEW n, StandsAt(k, f, l, n), n # 0
    PROVE  /\ k + 1 \in 1..Len(frames) /\ frames[k + 1].at = sol + l + n + 4
           /\ frames[k + 1].from = f.to
<1>1. RespTypeOK /\ LayersInv /\ FramesInv /\ chunked
  BY DEF RespInv, PhaseInv
<1>2. k \in 1..Len(frames) /\ k # Len(frames) /\ f = frames[k] /\ BytesBy(k) = sol + l + n + 3
  BY DEF StandsAt
<1>3. PICK j \in 1..Len(frames) : j = k + 1 /\ j - 1 = k /\ k # 0
  BY <1>1, <1>2 DEF RespTypeOK
<1>4. frames[j].at = BytesBy(j - 1) + 1 /\ frames[j].from = SentBy(j - 1)
  BY <1>1 DEF FramesInv
<1>5. frames[j].at = sol + l + n + 3 + 1 /\ frames[j].from = frames[k].to
  BY <1>2, <1>3, <1>4 DEF SentBy
<1>6. sol + l + n + 3 + 1 = sol + l + n + 4
  BY DEF StandsAt
<1> QED
  BY <1>2, <1>3, <1>5, <1>6

LEMMA DataChunkInv == RespInv /\ DataChunk => RespInv'
<1> SUFFICES ASSUME RespInv, DataChunk PROVE RespInv'
  OBVIOUS
<1>1. /\ phase = "chunks" /\ Eol # End /\ IsSize /\ ChunkSize # 0
      /\ IF DataEnd + Len(CRLF) <= End
         THEN /\ result' = result \o SubSeq(body, Data, DataEnd - 1)
              /\ sol' = DataEnd + Len(CRLF)
              /\ UNCHANGED phase
         ELSE phase' = "undefined" /\ UNCHANGED <<result, sol>>
      /\ UNCHANGED <<message, sending, merged, headers, todo>>
  BY DEF DataChunk
<1>2. RespTypeOK /\ LayersInv /\ FramesInv /\ HeadersInv /\ LinesInv /\ PhaseInv /\ TodoInv
  BY DEF RespInv
<1>3. phase' \in {"chunks", "undefined"}
  BY <1>1
<1>4. LayersInv' /\ FramesInv' /\ PlainInv' /\ LinesInv' /\ HeadersInv'
  BY <1>1, <1>2, <1>3, ClientSteps, HeaderKept
<1>5. chunked /\ body \in Octets /\ Content \in Octets
  BY <1>1, <1>2, LayersAre DEF PhaseInv, RespTypeOK
<1>6. PICK k, f, l, n : StandsAt(k, f, l, n)
  BY <1>1, AtChunk
<1>7. /\ f = frames[k] /\ IsFrame(f) /\ Agrees(f.at, Bytes(f))
      /\ sol = f.at /\ sol \in Nat \ {0} /\ result = SubSeq(Content, 1, f.from)
      /\ l = LineOf(f) /\ l \in Nat \ {0} /\ n = CarryOf(f) /\ n \in Nat /\ n # 0
      /\ f.from \in Nat /\ f.to = f.from + n /\ f.to <= Len(Content)
      /\ Data = sol + l + 2 /\ ChunkSize = n
      /\ whole => sol + l + n + 3 <= Len(body)
  <2>1. sol + l + 1 <= Len(body) /\ n # 0
    BY <1>1, <1>6 DEF StandsAt
  <2> QED
    BY <1>6, <2>1 DEF StandsAt
<1>8. /\ k + 1 \in 1..Len(frames) /\ frames[k + 1].at = sol + l + n + 4
      /\ frames[k + 1].from = f.to
  BY <1>1, <1>6, <1>7, NextChunk
<1>9. DataEnd = sol + l + 2 + n /\ Len(CRLF) = 2
  BY <1>7, CRLFIs DEF DataEnd
<1>10. /\ DataEnd + Len(CRLF) = sol + l + n + 4 /\ DataEnd - 1 = sol + l + 2 + n - 1
       /\ DataEnd + Len(CRLF) <= End <=> sol + l + n + 3 <= Len(body)
  <2>1. Len(body) \in Nat /\ End = Len(body) + 1 /\ sol \in Nat /\ l \in Nat /\ n \in Nat
    BY <1>5, <1>7 DEF Octets, End
  <2> QED
    BY ONLY <1>9, <2>1
<1>11. ASSUME DataEnd + Len(CRLF) <= End
       PROVE  /\ result' = SubSeq(Content, 1, f.to) /\ result' \in Octets
              /\ sol' = frames[k + 1].at /\ sol' <= End /\ sol' \in Nat \ {0}
  <2>1. result' = SubSeq(Content, 1, f.from) \o SubSeq(body, sol + l + 2, sol + l + 2 + n - 1)
    BY <1>1, <1>7, <1>10, <1>11
  <2>2. SubSeq(body, sol + l + 2, sol + l + 2 + n - 1) = SubSeq(Content, f.from + 1, f.to)
    <3>1. sol + l + n + 3 <= Len(body)
      BY <1>10, <1>11
    <3>2. /\ Content \in Octets /\ body \in Octets /\ IsFrame(f) /\ Agrees(f.at, Bytes(f))
          /\ sol = f.at /\ l = LineOf(f) /\ n = CarryOf(f)
      BY <1>5, <1>7
    <3> QED
      BY ONLY <3>1, <3>2, DataRead
  <2>3. SubSeq(Content, 1, f.from) \o SubSeq(Content, f.from + 1, f.to) = SubSeq(Content, 1, f.to)
    <3>1. PICK a, b : a = f.from /\ b = f.to
      OBVIOUS
    <3>2. a \in 0..b /\ b \in 0..Len(Content) /\ 1 \in Int /\ 1 \in 1..(Len(Content) + 1)
      <4>1. a \in Nat /\ b = a + n /\ b <= Len(Content) /\ n \in Nat /\ Len(Content) \in Nat
        BY <1>5, <1>7, <3>1 DEF Octets
      <4> QED
        BY ONLY <4>1
    <3>3. SubSeq(Content, 1, a) \o SubSeq(Content, a + 1, b) = SubSeq(Content, 1, b)
      <4>1. PICK c \in Seq(Octet) : c = Content
        BY <1>5 DEF Octets
      <4>2. 1 \in 1..(Len(c) + 1) /\ a \in (1 - 1)..Len(c) /\ b \in a..Len(c)
        BY <1>5, <3>1, <3>2, <4>1
      <4>3. SubSeq(c, 1, a) \o SubSeq(c, a + 1, b) = SubSeq(c, 1, b)
        BY ONLY <4>2, ConcatAdjacentSubSeq
      <4> QED
        BY <4>1, <4>3
    <3> QED
      BY <3>1, <3>3
  <2>4. result' \in Octets
    <3>1. PICK b : b = f.to /\ b \in Nat /\ b <= Len(Content)
      BY <1>7
    <3>2. \A i \in 1..b : Content[i] \in Octet
      <4>1. \A i \in 1..b : i \in 1..Len(Content)
        BY <1>5, <3>1 DEF Octets
      <4> QED
        BY <1>5, <4>1, ElementOfSeq DEF Octets
    <3>3. SubSeq(Content, 1, b) \in Seq(Octet)
      BY <3>1, <3>2, SubSeqProperties
    <3> QED
      BY <2>1, <2>2, <2>3, <3>1, <3>3 DEF Octets
  <2>5. sol' = sol + l + n + 4 /\ sol' <= End
    BY <1>1, <1>10, <1>11
  <2>6. sol + l + n + 4 \in Nat \ {0}
    BY <1>7
  <2> QED
    BY <1>8, <2>1, <2>2, <2>3, <2>4, <2>5, <2>6
<1>12. ~(DataEnd + Len(CRLF) <= End) => ~whole
  BY <1>7, <1>10
<1>13. /\ codings' = codings /\ chunked' = chunked /\ todo' = todo /\ whole' = whole
       /\ layers' = layers /\ frames' = frames /\ body' = body
  BY <1>1 DEF message, sending
<1>14. RespTypeOK'
  <2>1. result' \in Octets /\ sol' \in Nat \ {0}
    BY <1>1, <1>2, <1>11 DEF RespTypeOK
  <2> QED
    BY <1>1, <1>2, <1>3, <2>1 DEF RespTypeOK, message, sending, Ends
<1>15. PhaseInv'
  <2> SUFFICES ASSUME phase' = "chunks" PROVE PhaseInv'
    BY <1>1, <1>2, <1>3, <1>13 DEF PhaseInv
  <2>1. DataEnd + Len(CRLF) <= End
    BY <1>1
  <2>2. Content' = Content /\ End' = End
    BY <1>13 DEF Content, End
  <2>3. k + 1 \in 1..Len(frames') /\ sol' = frames'[k + 1].at
        /\ result' = SubSeq(Content', 1, frames'[k + 1].from)
    BY <1>8, <1>11, <1>13, <2>1, <2>2
  <2>4. \E j \in 1..Len(frames') : sol' = frames'[j].at /\ result' = SubSeq(Content', 1, frames'[j].from)
    BY <2>3
  <2>5. sol' <= End'
    BY <1>11, <2>1, <2>2
  <2> QED
    BY <1>1, <1>2, <1>5, <1>13, <2>4, <2>5 DEF PhaseInv
<1>16. TodoInv'
  BY <1>1, <1>2, <1>3, <1>13 DEF TodoInv, Lowered
<1>17. ResultInv'
  BY <1>3 DEF ResultInv
<1>18. NoErrorInv'
  BY <1>1, <1>12, <1>13 DEF NoErrorInv, Errors
<1> QED
  BY <1>4, <1>14, <1>15, <1>16, <1>17, <1>18 DEF RespInv

\* The last coding that is not undone, and what it was applied to.
LEMMA LastCoding ==
    ASSUME RespInv, phase = "codings", todo # <<>>
    PROVE  \E m \in 1..Len(codings) :
              /\ m = Len(todo) /\ Last(todo) = Lower(codings[m]) /\ codings[m] \in STRING
              /\ layers[m] \in Octets /\ layers[m + 1] = Coded(layers[m], codings[m])
              /\ Len(Front(todo)) = m - 1 /\ Front(todo) = Lowered(m - 1)
              /\ Front(todo) \in Seq(Words)
              /\ Supported => Balanced(layers[m])
<1>1. /\ RespTypeOK /\ LayersInv /\ Encoded /\ Len(codings) \in Nat
      /\ codings \in Seq(STRING) /\ todo \in Seq(Words)
      /\ Len(todo) <= Len(codings) /\ todo = Lowered(Len(todo))
  BY DEF RespInv, LayersInv, TodoInv, RespTypeOK
<1>2. PICK m \in 1..Len(codings) : m = Len(todo) /\ m - 1 \in 0..Len(codings) /\ m \in 0..Len(codings)
  <2>1. Len(todo) \in Nat \ {0}
    BY <1>1, EmptySeq
  <2> QED
    BY <1>1, <2>1
<1>3. /\ Len(layers) = Len(codings) + 1 /\ m \in 1..Len(layers)
  BY <1>1, <1>2 DEF Encoded
<1>4. /\ codings[m] \in STRING /\ layers[m] \in Octets /\ layers[m + 1] = Coded(layers[m], codings[m])
  BY <1>1, <1>3, LayersAre
<1>5. Last(todo) = Lower(codings[m])
  <2>1. Lowered(m)[m] = Lower(codings[m])
    BY <1>1, <1>2, LoweredIs
  <2> QED
    BY <1>1, <1>2, <2>1 DEF Last
<1>6. PICK fr : fr = Front(todo) /\ fr = SubSeq(todo, 1, m - 1)
  BY <1>2 DEF Front
<1>7. fr \in Seq(Words) /\ Len(fr) = m - 1 /\ \A i \in 1..(m - 1) : fr[i] = todo[i]
  <2>1. \A i \in 1..(m - 1) : todo[i] \in Words
    <3>1. \A i \in 1..(m - 1) : i \in 1..Len(todo)
      BY <1>2
    <3> QED
      BY <1>1, <3>1, ElementOfSeq
  <2>2. 1 \in Int /\ m - 1 \in Int /\ m - 1 - 1 + 1 = m - 1
        /\ (IF 1 <= m - 1 THEN m - 1 - 1 + 1 ELSE 0) = m - 1
        /\ \A i \in 1..(m - 1) : 1 + i - 1 = i
    BY <1>2
  <2>3. /\ fr \in Seq(Words) /\ Len(fr) = IF 1 <= m - 1 THEN m - 1 - 1 + 1 ELSE 0
        /\ \A i \in 1..(m - 1 - 1 + 1) : fr[i] = todo[1 + i - 1]
    BY <1>6, <2>1, <2>2, SubSeqProperties
  <2> QED
    BY <2>2, <2>3
<1>8. fr = Lowered(m - 1)
  <2>1. PICK lo : lo = Lowered(m - 1)
    OBVIOUS
  <2>2. lo \in Seq(Words) /\ Len(lo) = m - 1 /\ \A i \in 1..(m - 1) : lo[i] = Lower(codings[i])
    BY <1>1, <1>2, <2>1, LoweredIs
  <2>3. \A i \in 1..(m - 1) : todo[i] = Lower(codings[i])
    <3>1. \A i \in 1..m : Lowered(m)[i] = Lower(codings[i])
      BY <1>1, <1>2, LoweredIs
    <3>2. \A i \in 1..(m - 1) : i \in 1..m
      BY <1>2
    <3> QED
      BY <1>1, <1>2, <3>1, <3>2
  <2>4. \A i \in 1..Len(fr) : fr[i] = lo[i]
    BY <1>7, <2>2, <2>3
  <2> QED
    BY <1>7, <2>1, <2>2, <2>4, SeqEqual
<1>9. Supported => Balanced(layers[m])
  BY <1>1, <1>3, LayersAreBalanced
<1> QED
  BY <1>2, <1>4, <1>5, <1>6, <1>7, <1>8, <1>9

LEMMA DecodeInv == RespInv /\ Decode => RespInv'
<1> SUFFICES ASSUME RespInv, Decode PROVE RespInv'
  OBVIOUS
<1>1. /\ phase = "codings" /\ todo # <<>> /\ todo' = Front(todo)
      /\ UNCHANGED <<message, sending, merged, headers, sol>>
      /\ phase' = "DecompressError" => result' = result
      /\ phase' \in {"codings", "DecompressError"}
  BY DEF Decode
<1>2. RespTypeOK /\ HeadersInv /\ LinesInv /\ PhaseInv /\ TodoInv /\ ResultInv
  BY DEF RespInv
<1>3. LayersInv' /\ FramesInv' /\ PlainInv' /\ LinesInv' /\ HeadersInv'
  <2>1. phase # "sending" /\ phase' # "sending" /\ UNCHANGED <<merged, headers>>
        /\ UNCHANGED <<message, sending>>
    BY <1>1
  <2> QED
    BY <1>1, <1>2, <2>1, ClientSteps, HeaderKept
<1>4. PICK m \in 1..Len(codings) :
         /\ m = Len(todo) /\ Last(todo) = Lower(codings[m]) /\ codings[m] \in STRING
         /\ layers[m] \in Octets /\ layers[m + 1] = Coded(layers[m], codings[m])
         /\ Len(Front(todo)) = m - 1 /\ Front(todo) = Lowered(m - 1)
         /\ Front(todo) \in Seq(Words)
         /\ Supported => Balanced(layers[m])
  BY <1>1, LastCoding
<1>5. PICK w, c : w = layers[m + 1] /\ c = layers[m]
  OBVIOUS
<1>6. /\ w \in Octets /\ c \in Octets
      /\ Last(todo) = "identity" => w = c
      /\ Last(todo) = "gzip" => Wraps(w, c)
      /\ Supported => Balanced(c)
  BY <1>4, <1>5, CodedIs
<1>7. /\ codings' = codings /\ chunked' = chunked /\ whole' = whole
      /\ layers' = layers /\ body' = body /\ result \in Octets /\ Len(codings) \in Nat
      /\ codings \in Seq(STRING)
  BY <1>1, <1>2 DEF message, sending, RespTypeOK
<1>8. /\ m - 1 + 1 = m /\ Len(todo') = m - 1 /\ m - 1 <= Len(codings) /\ m \in Nat
      /\ Len(todo') + 1 = m /\ Len(todo) + 1 = m + 1
      /\ \A i \in m..Len(codings) : i = m \/ i \in (m + 1)..Len(codings)
  <2>1. Len(todo') = m - 1
    BY <1>1, <1>4
  <2> QED
    BY <1>4, <1>7, <2>1
<1>9. Supported => Last(todo) \in Known
  BY <1>4 DEF Supported, Known
<1>10. Supported => \/ /\ ~whole /\ ~chunked
                       /\ \/ body = <<>>
                          \/ /\ result = body /\ Len(body) < Len(w) /\ IsPrefix(body, w)
                             /\ \A i \in (m + 1)..Len(codings) : Lower(codings[i]) = "identity"
                    \/ \E tail \in {<<>>, <<"CR">>} : (whole => tail = <<>>) /\ result = w \o tail
  BY <1>1, <1>2, <1>5, <1>8 DEF ResultInv
<1>11. {<<>>, <<"CR">>} \subseteq Octets
  <2>1. "CR" \in Octet
    BY DEF Octet
  <2>2. PICK cr : cr = <<"CR">>
    OBVIOUS
  <2>3. cr \in Octets /\ <<>> \in Octets
    BY <2>1, <2>2, ShortSequences, EmptySeq DEF Octets
  <2> QED
    BY <2>2, <2>3
<1>12. RespTypeOK'
  <2>1. result' \in Octets
    <3>1. CASE result' = result
      BY <1>7, <3>1
    <3>2. CASE StreamEnd(result) # 0 /\ result' = SubSeq(result, 2, StreamEnd(result) - 1)
      <4>1. PICK e, p : e = StreamEnd(result) - 1 /\ p = Len(result)
        OBVIOUS
      <4>2. e \in Int /\ p \in Nat /\ e <= p - 1
        <5>1. StreamEnd(result) \in 0..p /\ p \in Nat
          BY <1>7, <4>1, StreamEndRange DEF Octets
        <5> QED
          BY <4>1, <5>1
      <4>3. \A i \in 2..e : result[i] \in Octet
        <5>1. \A i \in 2..e : i \in 1..p
          BY ONLY <4>2
        <5> QED
          BY <1>7, <4>1, <5>1, ElementOfSeq DEF Octets
      <4>4. SubSeq(result, 2, e) \in Seq(Octet)
        BY <4>2, <4>3, SubSeqProperties
      <4> QED
        BY <3>2, <4>1, <4>4 DEF Octets
    <3> QED
      BY <3>1, <3>2 DEF Decode
  <2> QED
    BY <1>1, <1>2, <1>4, <2>1 DEF RespTypeOK, message, sending, Ends, Errors
<1>13. PhaseInv'
  BY <1>1, <1>2 DEF PhaseInv, sending
<1>14. TodoInv'
  <2> SUFFICES ASSUME phase' = "codings" PROVE TodoInv'
    BY <1>1 DEF TodoInv
  <2>1. Last(todo) \in Known
    BY <1>1 DEF Decode, Known
  <2>2. todo' = Lowered(Len(todo))'
    <3>1. todo' = [i \in 1..Len(todo') |-> Lower(codings'[i])]
      BY <1>1, <1>4, <1>7, <1>8 DEF Lowered
    <3> QED
      BY <3>1 DEF Lowered
  <2>3. \A i \in (Len(todo') + 1)..Len(codings') : Lower(codings'[i]) \in Known
    <3>1. \A i \in (m + 1)..Len(codings) : Lower(codings[i]) \in Known
      BY <1>1, <1>2, <1>8 DEF TodoInv
    <3> QED
      BY <1>4, <1>7, <1>8, <2>1, <3>1
  <2>4. Len(todo') <= Len(codings')
    BY <1>7, <1>8
  <2> QED
    BY <2>2, <2>3, <2>4 DEF TodoInv
<1>15. ResultInv'
  <2> SUFFICES ASSUME phase' = "codings", Supported PROVE ResultInv'
    BY <1>1, <1>7 DEF ResultInv, Supported
  <2>1. \/ /\ ~whole /\ ~chunked
           /\ \/ body = <<>>
              \/ /\ result' = body /\ Len(body) < Len(c) /\ IsPrefix(body, c)
                 /\ \A i \in m..Len(codings) : Lower(codings[i]) = "identity"
        \/ \E tail \in {<<>>, <<"CR">>} : (whole => tail = <<>>) /\ result' = c \o tail
    <3>1. CASE Last(todo) = "identity"
      <4>1. result' = result /\ w = c
        BY <1>1, <1>6, <3>1 DEF Decode
      <4>2. (\A i \in (m + 1)..Len(codings) : Lower(codings[i]) = "identity")
            => \A i \in m..Len(codings) : Lower(codings[i]) = "identity"
        BY <1>4, <1>8, <3>1
      <4> QED
        BY <1>10, <4>1, <4>2
    <3>2. CASE Last(todo) = "gzip"
      <4>1. Wraps(w, c) /\ Balanced(c)
        BY <1>6, <3>2
      <4>2. \/ result = <<>> /\ result' = result
            \/ /\ result # <<>> /\ StreamEnd(result) # 0
               /\ result' = SubSeq(result, 2, StreamEnd(result) - 1)
        BY <1>1, <3>2 DEF Decode
      <4>3. CASE ~whole /\ ~chunked /\ body = <<>>
        BY <4>3
      <4>4. CASE body # <<>> /\ result = body /\ Len(body) < Len(w) /\ IsPrefix(body, w)
        <5>1. StreamEnd(result) = 0
          BY <1>7, <4>1, <4>4, StreamIsOpen
        <5> QED
          BY <4>2, <4>4, <5>1
      <4>5. ASSUME NEW tail \in {<<>>, <<"CR">>}, whole => tail = <<>>, result = w \o tail
            PROVE  result' = c \o <<>>
        <5>1. result # <<>> /\ SubSeq(result, 2, StreamEnd(result) - 1) = c
          BY <1>11, <4>1, <4>5, StreamUndone
        <5>2. c \o <<>> = c
          BY <1>6, ConcatEmptySeq DEF Octets
        <5> QED
          BY <4>2, <5>1, <5>2
      <4> QED
        BY <1>10, <4>3, <4>4, <4>5
    <3> QED
      BY <1>9, <3>1, <3>2 DEF Known
  <2> QED
    BY <1>5, <1>7, <1>8, <2>1 DEF ResultInv
<1>16. NoErrorInv'
  <2> SUFFICES ASSUME whole, Supported, phase' = "DecompressError" PROVE FALSE
    BY <1>1, <1>7 DEF NoErrorInv, Supported, Errors
  <2>1. Last(todo) = "gzip" /\ StreamEnd(result) = 0
    BY <1>1, <1>9 DEF Decode, Known
  <2>2. result = w \o <<>> /\ <<>> \in Octets
    BY <1>10, <1>11
  <2>3. StreamEnd(result) = Len(w) /\ Len(w) # 0
    <3>1. Wraps(w, c) /\ Balanced(c)
      BY <1>6, <2>1
    <3>2. Len(c) \in Nat /\ Len(w) = Len(c) + 2
      BY <3>1 DEF Wraps, Octets
    <3>3. StreamEnd(result) = Len(w)
      BY <2>2, <3>1, StreamUndone
    <3> QED
      BY <3>2, <3>3
  <2> QED
    BY <2>1, <2>3
<1> QED
  BY <1>3, <1>12, <1>13, <1>14, <1>15, <1>16 DEF RespInv

LEMMA ReturnInv == RespInv /\ Return => RespInv'
<1> SUFFICES ASSUME RespInv, Return PROVE RespInv'
  OBVIOUS
<1>1. /\ phase = "codings" /\ todo = <<>> /\ phase' = "done"
      /\ UNCHANGED <<message, sending, reading>>
  BY DEF Return
<1>2. LayersInv' /\ FramesInv' /\ PlainInv' /\ LinesInv'
  BY <1>1, ClientSteps
<1>3. HeadersInv'
  BY <1>1, HeaderKept DEF RespInv, reading
<1>4. RespTypeOK'
  BY <1>1 DEF RespInv, RespTypeOK, message, sending, reading, Ends
<1>5. PhaseInv'
  BY <1>1 DEF RespInv, PhaseInv, sending, reading
<1>6. /\ codings' = codings /\ chunked' = chunked /\ whole' = whole /\ layers' = layers
      /\ body' = body /\ result' = result /\ todo' = todo
  BY <1>1 DEF message, sending, reading
<1>7. TodoInv'
  BY <1>1, <1>6 DEF RespInv, TodoInv, Lowered
<1>8. ResultInv'
  BY <1>1, <1>6 DEF RespInv, ResultInv, Supported
<1>9. NoErrorInv'
  BY <1>1 DEF NoErrorInv, Errors
<1> QED
  BY <1>2, <1>3, <1>4, <1>5, <1>7, <1>8, <1>9 DEF RespInv

LEMMA StutterInv == RespInv /\ UNCHANGED vars => RespInv'
<1> SUFFICES ASSUME RespInv, UNCHANGED vars PROVE RespInv'
  OBVIOUS
<1>1. UNCHANGED <<message, sending, phase, reading>>
  BY DEF vars
<1>2. /\ payload' = payload /\ codings' = codings /\ chunked' = chunked /\ lines' = lines
      /\ layers' = layers /\ frames' = frames /\ whole' = whole /\ body' = body
      /\ phase' = phase /\ merged' = merged /\ headers' = headers /\ sol' = sol
      /\ result' = result /\ todo' = todo
  BY <1>1 DEF message, sending, reading
<1>3. LinesInv' /\ HeadersInv'
  BY <1>1, HeaderKept DEF RespInv, reading
<1>4. RespTypeOK' /\ LayersInv'
  BY <1>2 DEF RespInv, RespTypeOK, LayersInv, Encoded
<1>5. /\ Content' = Content
      /\ \A k : BytesBy(k)' = BytesBy(k) /\ SentBy(k)' = SentBy(k)
      /\ Sent' = Sent /\ End' = End
  BY <1>2 DEF Content, BytesBy, SentBy, Sent, End
<1>6. \A g : Bytes(g)' = Bytes(g) /\ (IsFrame(g)' <=> IsFrame(g))
  BY <1>5 DEF Bytes, IsFrame
<1>7. ASSUME NEW k PROVE Agrees(frames[k].at, Bytes(frames[k]))' <=> Agrees(frames[k].at, Bytes(frames[k]))
  <2>1. Bytes(frames[k])' = Bytes(frames[k]) /\ frames'[k] = frames[k]
    BY <1>2, <1>6
  <2> QED
    BY <1>2, <2>1 DEF Agrees
<1>8. FramesInv'
  BY <1>2, <1>5, <1>6, <1>7 DEF RespInv, FramesInv
<1>9. PlainInv' /\ PhaseInv'
  BY <1>2, <1>5 DEF RespInv, PlainInv, PhaseInv
<1>10. TodoInv' /\ ResultInv' /\ NoErrorInv'
  BY <1>2 DEF RespInv, TodoInv, Lowered, ResultInv, NoErrorInv, Supported
<1> QED
  BY <1>3, <1>4, <1>8, <1>9, <1>10 DEF RespInv

LEMMA StepInv == RespInv /\ [Next]_vars => RespInv'
<1> SUFFICES ASSUME RespInv, [Next]_vars PROVE RespInv'
  OBVIOUS
<1>1. CASE Encode
  BY <1>1, EncodeInv
<1>2. CASE SendChunk
  BY <1>2, SendChunkInv
<1>3. CASE SendLastChunk
  BY <1>3, SendLastChunkInv
<1>4. CASE SendPlain
  BY <1>4, SendPlainInv
<1>5. CASE CutShort
  BY <1>5, CutShortInv
<1>6. CASE EndOfHeader
  BY <1>6, EndOfHeaderInv
<1>7. CASE NoEndOfHeader
  BY <1>7, NoEndOfHeaderInv
<1>8. CASE HeaderLine
  BY <1>8, HeaderLineInv
<1>9. CASE BodyBytes
  BY <1>9, BodyBytesInv
<1>10. CASE BrokenChunk
  BY <1>10, BrokenChunkInv
<1>11. CASE LastChunk
  BY <1>11, LastChunkInv
<1>12. CASE DataChunk
  BY <1>12, DataChunkInv
<1>13. CASE Decode
  BY <1>13, DecodeInv
<1>14. CASE Return
  BY <1>14, ReturnInv
<1>15. CASE Stopped
  BY <1>15, StutterInv DEF Stopped
<1>16. CASE UNCHANGED vars
  BY <1>16, StutterInv
<1> QED
  BY <1>1, <1>2, <1>3, <1>4, <1>5, <1>6, <1>7, <1>8, <1>9, <1>10, <1>11, <1>12, <1>13,
     <1>14, <1>15, <1>16 DEF Next
------------------------------------------------------------------------------
(* What the client returns.                                                  *)

\* For every payload, codings and chunks: the server's and the client's variables keep
\* their types, the chunks lie in the body one behind the other, the loops of
\* process_headers, process_chunked_response and body_bytes are where they should be,
\* and a whole body in known codings meets no error on the way.
THEOREM ResponseInvariant == Spec => []RespInv
<1> QED
  BY InitInv, StepInv, PTL DEF Spec

LEMMA WholeIsDecoded == RespInv => WholeBodyDecoded
<1> SUFFICES ASSUME RespInv, phase \in Ends, whole, Supported
             PROVE  phase = "done" /\ result = payload
  BY DEF WholeBodyDecoded
<1>1. phase = "done"
  BY DEF RespInv, NoErrorInv, Ends
<1>2. todo = <<>> /\ Len(todo) = 0
  BY <1>1, EmptySeq DEF RespInv, TodoInv
<1>3. result = layers[Len(todo) + 1] \o <<>>
  BY <1>1 DEF RespInv, ResultInv
<1>4. layers[1] = payload /\ payload \in Seq(DataBytes)
  BY DEF RespInv, LayersInv, RespTypeOK
<1>5. payload \o <<>> = payload
  BY <1>4, ConcatEmptySeq
<1> QED
  BY <1>1, <1>2, <1>3, <1>4, <1>5

LEMMA CutIsNoticed == RespInv => NeverShortened
<1> SUFFICES ASSUME RespInv, phase = "done", Delimited
             PROVE  IsPrefix(payload, result) /\ Supported
  BY DEF NeverShortened
<1>1. todo = <<>> /\ Len(todo) = 0 /\ Len(codings) \in Nat
  BY EmptySeq DEF RespInv, TodoInv, RespTypeOK
<1>2. \A i \in 1..Len(codings) : Lower(codings[i]) \in {"gzip", "identity"}
  BY <1>1 DEF RespInv, TodoInv, Known
<1>3. Supported
  BY <1>2 DEF Supported
<1>4. ~(/\ ~whole /\ ~chunked
        /\ \/ body = <<>>
           \/ \A i \in (Len(todo) + 1)..Len(codings) : Lower(codings[i]) = "identity")
  BY <1>1 DEF Delimited
<1>5. PICK tail \in {<<>>, <<"CR">>} : result = layers[Len(todo) + 1] \o tail
  BY <1>3, <1>4 DEF RespInv, ResultInv
<1>6. /\ result = payload \o tail /\ payload \in Seq(DataBytes)
      /\ Len(tail) \in Nat /\ tail \in Seq({"CR"})
  <2>1. layers[1] = payload /\ payload \in Seq(DataBytes)
    BY DEF RespInv, LayersInv, RespTypeOK
  <2>2. PICK cr : cr = <<"CR">>
    OBVIOUS
  <2>3. cr \in Seq({"CR"}) /\ <<>> \in Seq({"CR"})
    BY <2>2, ShortSequences, EmptySeq
  <2>4. tail \in Seq({"CR"})
    BY <2>2, <2>3
  <2>5. Len(todo) + 1 = 1
    BY <1>1
  <2>6. result = payload \o tail
    BY <1>5, <2>1, <2>5
  <2>7. Len(tail) \in Nat
    BY <2>4
  <2> QED
    BY <2>1, <2>4, <2>6, <2>7
<1>7. IsPrefix(payload, result)
  <2> DEFINE S == DataBytes \cup {"CR"}
  <2>1. payload \in Seq(S) /\ tail \in Seq(S)
    BY <1>6, SeqMonotonic
  <2>2. PICK n \in Nat : n = Len(payload)
    BY <1>6
  <2>3. /\ Len(result) = n + Len(tail)
        /\ \A i \in 1..n : result[i] = payload[i]
    <3> HIDE DEF S
    <3> QED
      BY ONLY <1>6, <2>1, <2>2, TwoParts
  <2>4. n <= Len(result)
    BY <1>6, <2>3
  <2>5. SubSeq(payload, 1, n) = payload
    BY <1>6, <2>2, SubSeqFull
  <2>6. SubSeq(result, 1, n) = payload
    <3>1. PICK s : s = SubSeq(result, 1, n)
      OBVIOUS
    <3>2. \A i \in 1..n : result[i] \in DataBytes
      BY <1>6, <2>2, <2>3, ElementOfSeq
    <3>3. 1 \in Int /\ n \in Int /\ n - 1 + 1 = n /\ (IF 1 <= n THEN n - 1 + 1 ELSE 0) = n
          /\ \A i \in 1..n : 1 + i - 1 = i
      OBVIOUS
    <3>4. /\ s \in Seq(DataBytes) /\ Len(s) = IF 1 <= n THEN n - 1 + 1 ELSE 0
          /\ \A i \in 1..(n - 1 + 1) : s[i] = result[1 + i - 1]
      BY <3>1, <3>2, <3>3, SubSeqProperties
    <3>5. Len(s) = n /\ \A i \in 1..n : s[i] = payload[i]
      BY <2>3, <3>3, <3>4
    <3> QED
      BY <1>6, <2>2, <3>1, <3>4, <3>5, SeqEqual
  <2> QED
    BY <2>2, <2>4, <2>5, <2>6 DEF IsPrefix
<1> QED
  BY <1>3, <1>7

\* body_bytes gives back what the server was given: for every payload, the ones that
\* look like framing included, every list of gzip and identity spelled in any case and
\* in one header line or in several, and every cut into chunks.
THEOREM WholeBodiesAreDecoded == Spec => []WholeBodyDecoded
<1> QED
  BY ResponseInvariant, WholeIsDecoded, PTL

\* Wherever the connection is cut, body_bytes gives no less than the payload of a body
\* that carries its own end, and nothing in a coding the client does not know.
THEOREM BodiesAreNotShortened == Spec => []NeverShortened
<1> QED
  BY ResponseInvariant, CutIsNoticed, PTL
==============================================================================
