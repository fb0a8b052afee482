---------------------------- MODULE ResponseHead -----------------------------
(***************************************************************************)
(* The head of a response in TAOW::http_client: what from_raw_bytes makes  *)
(* of the text before the blank line, and raise_for_status.  HttpResponse  *)
(* takes a head for its list of lines; here it is text, cut by the index   *)
(* arithmetic of the code, one step for the status line and one for each   *)
(* header line.  A number or a word without spaces and colons is one       *)
(* character of the text.                                                  *)
(***************************************************************************)
EXTENDS Integers, Sequences, SequencesExt

CONSTANTS
    Codes,    \* a function from the status codes, as they are written, to numbers
    Letters,  \* the characters of texts, line ends aside
    Reasons,  \* reason phrases
    Lines,    \* header lines: [key, between, value], the colon is left out
    MaxLines, \* bound: lines of a head
    Width     \* how many values a size_t has; no text is that long

Spaces == {"SP", "TAB", "CR", "LF"}
Solid  == Letters \ (Spaces \cup {":"})

ASSUME BoundsAssumption == MaxLines \in Nat /\ Width \in Nat /\ Width > 4
ASSUME LettersAssumption ==
    /\ {"SP", "TAB", ":", "HTTP/1.1"} \subseteq Letters /\ Letters \cap {"CR", "LF"} = {}
    /\ DOMAIN Codes \subseteq Solid /\ \A c \in DOMAIN Codes : Codes[c] \in Nat
ASSUME ReasonsAssumption == Reasons \subseteq Seq(Letters) /\ \A r \in Reasons : Len(r) + 4 < Width
ASSUME LinesAssumption ==
    /\ Lines \subseteq [key : Seq(Solid), between : Seq({"SP", "TAB"}), value : Seq(Letters)]
    /\ \A l \in Lines : l.value # <<>> => l.value[1] \notin Spaces /\ Last(l.value) \notin Spaces

VARIABLES
    code, reason, lines, \* what the server says; reason is <<>> or <<phrase>>
    starts,              \* history: where in the head its lines begin, from 1 on
    header_str,          \* up to the blank line
    phase,               \* "sending", "headers" while they are read, "read"
    start_pos,           \* of split, counted from 0 in the head as it was sent
    status,              \* _status_code, NoStatus before the status line is read
    headers,             \* _response_header
    raised               \* raise_for_status has thrown

vars == <<code, reason, lines, starts, header_str, phase, start_pos, status, headers, raised>>

NoStatus == -1
CRLF     == <<"CR", "LF">>
------------------------------------------------------------------------------
(* The server.                                                               *)

LineText(l) == l.key \o <<":">> \o l.between \o l.value

\* A server should send the second space also when it gives no reason.
StatusLine == <<"HTTP/1.1", "SP", code>> \o IF reason = <<>> THEN <<>> ELSE <<"SP">> \o reason[1]

Init ==
    /\ code \in DOMAIN Codes
    /\ reason \in {<<>>} \cup {<<r>> : r \in Reasons}
    /\ lines = <<>>
    /\ starts = <<>>
    /\ header_str = StatusLine
    /\ phase = "sending"
    /\ start_pos = 0
    /\ status = NoStatus
    /\ headers = [k \in {} |-> <<>>]
    /\ raised = FALSE

SendLine ==
    /\ phase = "sending" /\ Len(lines) < MaxLines
    /\ \E l \in Lines :
          /\ Len(header_str) + Len(LineText(l)) + 3 < Width
          /\ lines' = Append(lines, l)
          /\ starts' = Append(starts, Len(header_str) + 3)
          /\ header_str' = header_str \o (CRLF \o LineText(l))
    /\ UNCHANGED <<code, reason, phase, start_pos, status, headers, raised>>
------------------------------------------------------------------------------
(* std::string, with indices from 0 and the arithmetic of size_t.           *)

npos == Width - 1

\* The sum of two numbers.
SizeT(n) == IF n < Width THEN n ELSE n - Width

Occurrences(s, sub, from) ==
    {i \in from..(Len(s) - Len(sub)) : SubSeq(s, i + 1, i + Len(sub)) = sub}

find(s, sub, from) ==
    IF Occurrences(s, sub, from) = {} THEN npos ELSE Min(Occurrences(s, sub, from))

\* A count beyond the end stands for the rest.
substr(s, pos, count) ==
    SubSeq(s, pos + 1, IF count > Len(s) - pos THEN Len(s) ELSE pos + count)

SolidAt(s) == {i \in 1..Len(s) : s[i] \notin Spaces}

trim(s) == IF SolidAt(s) = {} THEN <<>> ELSE SubSeq(s, Min(SolidAt(s)), Max(SolidAt(s)))

\* std::stoi: the number behind leading spaces, whatever follows it.
stoi(s) == Codes[s[Min(SolidAt(s))]]

tolower(c) == IF c = "KEY" THEN "key" ELSE IF c = "V" THEN "v" ELSE c
Lower(s)   == [i \in 1..Len(s) |-> tolower(s[i])]
------------------------------------------------------------------------------
(* process_header_status_part.                                              *)

FirstSpace  == find(header_str, <<"SP">>, 0)
SecondSpace == find(header_str, <<"SP">>, SizeT(FirstSpace + 1))
FirstEol    == find(header_str, CRLF, SizeT(SecondSpace + 1))

StatusCode ==
    stoi(substr(header_str, SizeT(FirstSpace + 1), SizeT(SecondSpace + 1 - FirstSpace)))

\* What is erased of header_str is not read again: split starts behind it.
StatusPart ==
    /\ phase = "sending"
    /\ phase' = "headers"
    /\ status' = StatusCode
    /\ start_pos' = SizeT(FirstEol + 2)
    /\ UNCHANGED <<code, reason, lines, starts, header_str, headers, raised>>
------------------------------------------------------------------------------
(* split, process_headers and raise_for_status.                             *)

\* A plausible bug: a repeated key replaces the earlier value.
ReplacedBy(result, key, value) ==
    [k \in DOMAIN result \cup {key} |-> IF k = key THEN value ELSE result[k]]

\* A repeated key appends to the earlier value.
Merged(result, key, value) ==
    [k \in DOMAIN result \cup {key} |->
        IF k # key THEN result[k]
        ELSE IF key \in DOMAIN result THEN result[key] \o <<"COMMA">> \o value ELSE value]

WithLine(result, line) ==
    LET spliter == find(line, <<":">>, 0)
    IN  IF spliter = npos THEN result
        ELSE Merged(result, Lower(trim(substr(line, 0, spliter))),
                            Lower(trim(substr(line, spliter + 1, npos))))

\* One round of the loop of split, and the round of process_headers for its line.
HeaderLine ==
    /\ phase = "headers"
    /\ LET end_pos == find(header_str, CRLF, start_pos)
           count   == IF end_pos = npos THEN npos ELSE end_pos - start_pos
       IN  /\ headers' = WithLine(headers, substr(header_str, start_pos, count))
           /\ IF end_pos = npos THEN phase' = "read" /\ UNCHANGED start_pos
              ELSE start_pos' = end_pos + Len(CRLF) /\ UNCHANGED phase
    /\ UNCHANGED <<code, reason, lines, starts, header_str, status, raised>>

RaiseForStatus ==
    /\ phase = "read"
    /\ raised' = (status > 299 \/ status < 200)
    /\ UNCHANGED <<code, reason, lines, starts, header_str, phase, start_pos, status, headers>>

Next == SendLine \/ StatusPart \/ HeaderLine \/ RaiseForStatus

Spec == Init /\ [][Next]_vars
------------------------------------------------------------------------------
(* Properties.                                                               *)

\* Without a second space in the status line the one of the first line that has
\* one is taken for it, and the lines up to that one are gone; unless it is the
\* last, which no line end follows: npos + 2 is 1, and one character is erased.
SpacedLines == {i \in 1..Len(lines) : \E j \in 1..Len(LineText(lines[i])) : LineText(lines[i])[j] = "SP"}
LinesLost   == IF reason # <<>> \/ SpacedLines \subseteq {Len(lines)} THEN 0 ELSE Min(SpacedLines)

\* The values for a key in the first n lines of what was said, without those
\* lost, joined by commas: <<>> for none and <<text>> for some.
Joined(said, lost, key, n) ==
    LET joined[i \in 0..Len(said)] ==
            IF i <= lost THEN <<>>
            ELSE IF Lower(said[i].key) # key THEN joined[i - 1]
            ELSE <<(IF joined[i - 1] = <<>> THEN <<>> ELSE joined[i - 1][1] \o <<"COMMA">>)
                   \o Lower(said[i].value)>>
    IN  joined[n]

\* A head of a status line only whose reason has a colon is read as a header.
Misread == lines = <<>> /\ reason # <<>> /\ \E i \in 1..Len(reason[1]) : reason[1][i] = ":"

\* Every key has the values of the first n lines, and no key is made up.
HeadersAre(n) ==
    \A key \in {Lower(l.key) : l \in Lines} \cup DOMAIN headers :
        LET sent == Joined(lines, LinesLost, key, n)
        IN  IF sent = <<>> THEN key \notin DOMAIN headers
            ELSE key \in DOMAIN headers /\ headers[key] = sent[1]

\* The code is the server's, only those outside 200..299 raise an error, and
\* every key has all its values in order, in any case, with any blanks and with
\* colons in them, and no key is made up.  A status line without its second space
\* costs LinesLost lines and no other.
HeadIsRead ==
    /\ status # NoStatus => status = Codes[code]
    /\ raised => status \notin 200..299
    /\ phase = "read" /\ ~Misread => HeadersAre(Len(lines))
==============================================================================
