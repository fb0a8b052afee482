---------------------------- MODULE HttpResponse -----------------------------
(***************************************************************************)
(* TAOW::http_client::Response: how the bytes that Client::call has read   *)
(* become a body.  A server codes a payload, sends it in chunks of its     *)
(* choice or in one piece, and the connection may be cut anywhere; then    *)
(* from_raw_bytes and body_bytes run, one step per header line, per chunk  *)
(* and per coding.  The bytes of the body are kept, since a payload may    *)
(* look like framing; of the header a line is a key and the list of its    *)
(* items.                                                                  *)
(***************************************************************************)
EXTENDS Integers, Sequences, FiniteSets, SequencesExt

CONSTANTS
    DataBytes,   \* the bytes of payloads
    CodingLists, \* the lists of content codings servers use, the first applied first
    MaxPayload,  \* bound: bytes of a payload
    MaxParts     \* bound: chunks before those that are as large as can be

\* The bytes that only a coding makes.
Opening == {"gzip", "br"}
Closing == {"end"}

ASSUME DataAssumption    == DataBytes \subseteq STRING \ (Opening \cup Closing)
ASSUME CodingsAssumption == CodingLists \subseteq Seq(STRING)
ASSUME BoundsAssumption  == MaxPayload \in Nat /\ MaxParts \in Nat

VARIABLES
    payload, codings, chunked, \* what the server sends, and how
    lines,                     \* the lines of its header
    layers,                    \* the payload, and what each coding has made of it
    frames,                    \* history: the chunks sent, the last one included
    whole,                     \* the connection was not cut
    body,                      \* _body_bytes
    phase,                     \* where server or client is
    merged,                    \* header lines that process_headers has seen
    headers,                   \* _response_header
    sol,                       \* process_chunked_response's start of line
    result,                    \* the body decoded so far
    todo                       \* encodings not undone yet

message == <<payload, codings, chunked, lines>>
sending == <<layers, frames, whole, body>>
reading == <<merged, headers, sol, result, todo>>
vars    == <<message, sending, phase, reading>>

Errors == {"BrokenResponseError", "BrokenChunkError", "DecompressError"}
Ends   == Errors \cup {"done", "undefined"}
------------------------------------------------------------------------------
(* The server.                                                               *)

CRLF == <<"CR", "LF">>
Hex  == <<"0", "1", "2", "3", "4", "5", "6", "7", "8", "9", "a", "b", "c", "d", "e", "f">>

\* tolower, on the words this module uses.
Lower(w) == CASE w = "Content-Encoding" -> "content-encoding"
              [] w = "GZIP"             -> "gzip"
              [] OTHER                  -> w

\* A coding wraps what it is applied to; identity does nothing.
Coded(c, coding) == IF Lower(coding) = "identity" THEN c
                    ELSE <<Lower(coding)>> \o c \o <<"end">>

EncodingKeys == {"Content-Encoding", "content-encoding"}
Chunked      == [key |-> "transfer-encoding", items |-> <<"chunked">>]

\* The codings may be listed in one line or in several, and keys are spelled in
\* any case.
EncodingLines(cs) ==
    {[i \in 1..Len(cs) |-> [key |-> keys[i], items |-> <<cs[i]>>]] :
        keys \in [1..Len(cs) -> EncodingKeys]}
    \cup {<<[key |-> "content-encoding", items |-> cs]>> : c \in 1..Len(cs)}

Init ==
    /\ payload \in BoundedSeq(DataBytes, MaxPayload)
    /\ codings \in CodingLists
    /\ chunked \in BOOLEAN
    /\ \E encoding \in EncodingLines(codings) :
          lines = encoding \o IF chunked THEN <<Chunked>> ELSE <<>>
    /\ layers = <<payload>>
    /\ frames = <<>>
    /\ whole = TRUE
    /\ body = <<>>
    /\ phase = "sending"
    /\ merged = 0
    /\ headers = [k \in {} |-> <<>>]
    /\ sol = 1
    /\ result = <<>>
    /\ todo = <<>>

Encode ==
    /\ phase = "sending" /\ Len(layers) <= Len(codings)
    /\ layers' = Append(layers, Coded(Last(layers), codings[Len(layers)]))
    /\ UNCHANGED <<message, frames, whole, body, phase, reading>>

Encoded == Len(layers) = Len(codings) + 1
Content == Last(layers)
Sent    == IF frames = <<>> THEN 0 ELSE Last(frames).to

\* A size of two digits at most, with or without a leading zero and an extension.
MaxChunk     == 255
SizeLines(n) ==
    {[digits |-> <<Hex[(n \div 16) + 1], Hex[(n % 16) + 1]>>, extension |-> <<";", "x">>]}
    \cup IF n < 16 THEN {[digits |-> <<Hex[n + 1]>>, extension |-> <<>>]} ELSE {}

\* A chunk with the bytes from..to - 1 of the content, counted from 0, that begins
\* at the position at of the body.
Frame(size, to) == [at |-> Len(body) + 1, size |-> size, from |-> Sent, to |-> to]

Bytes(frame) == frame.size.digits \o frame.size.extension \o CRLF
                \o SubSeq(Content, frame.from + 1, frame.to) \o CRLF

Send(frame) ==
    /\ frames' = Append(frames, frame)
    /\ body' = body \o Bytes(frame)

SendChunk ==
    /\ phase = "sending" /\ chunked /\ Encoded
    /\ \E n \in 1..Min({MaxChunk, Len(Content) - Sent}) :
          /\ Len(frames) < MaxParts \/ n = Min({MaxChunk, Len(Content) - Sent})
          /\ \E size \in SizeLines(n) : Send(Frame(size, Sent + n))
    /\ UNCHANGED <<message, layers, whole, phase, reading>>

\* No trailer follows the last chunk.
SendLastChunk ==
    /\ phase = "sending" /\ chunked /\ Encoded /\ Sent = Len(Content)
    /\ \E size \in SizeLines(0) : Send(Frame(size, Sent))
    /\ phase' = "sent"
    /\ UNCHANGED <<message, layers, whole, reading>>

SendPlain ==
    /\ phase = "sending" /\ ~chunked /\ Encoded
    /\ body' = Content
    /\ phase' = "sent"
    /\ UNCHANGED <<message, layers, frames, whole, reading>>

\* The connection ends early, in the body or in the header.
CutShort ==
    /\ phase = "sent" /\ whole
    /\ whole' = FALSE
    /\ \/ /\ \E n \in 0..(Len(body) - 1) : body' = SubSeq(body, 1, n)
          /\ UNCHANGED phase
       \/ /\ body' = <<>>
          /\ phase' = "headless"
    /\ UNCHANGED <<message, layers, frames, reading>>
------------------------------------------------------------------------------
(* Response::from_raw_bytes.                                                 *)

EndOfHeader ==
    /\ phase = "sent"
    /\ phase' = "response"
    /\ UNCHANGED <<message, sending, reading>>

NoEndOfHeader ==
    /\ phase = "headless"
    /\ phase' = "BrokenResponseError"
    /\ UNCHANGED <<message, sending, reading>>

Header(key) == IF key \in DOMAIN headers THEN headers[key] ELSE <<>>

\* One round of the loop of process_headers: the values of a key are joined.
HeaderLine ==
    /\ phase = "response" /\ merged < Len(lines)
    /\ LET line   == lines[merged + 1]
           key    == Lower(line.key)
           values == Header(key) \o [i \in 1..Len(line.items) |-> Lower(line.items[i])]
       IN  headers' = [k \in DOMAIN headers \cup {key} |->
                          IF k = key THEN values ELSE headers[k]]
    /\ merged' = merged + 1
    /\ UNCHANGED <<message, sending, phase, sol, result, todo>>
------------------------------------------------------------------------------
(* Response::body_bytes.                                                     *)

BodyBytes ==
    /\ phase = "response" /\ merged = Len(lines)
    /\ todo' = Header("content-encoding")
    /\ IF Contains(Header("transfer-encoding"), "chunked")
       THEN phase' = "chunks" /\ result' = <<>>
       ELSE phase' = "codings" /\ result' = body
    /\ UNCHANGED <<message, sending, merged, headers, sol>>

End == Len(body) + 1

\* std::search from a position on: End if there is no such part.
Search(part, from) ==
    LET found == {i \in from..(End - Len(part)) : SubSeq(body, i, i + Len(part) - 1) = part}
    IN  IF found = {} THEN End ELSE Min(found)

Eol    == Search(CRLF, sol)
Digits == LET semicolon == Search(<<";">>, sol)
          IN  SubSeq(body, sol, Min({semicolon, Eol}) - 1)
Data   == Eol + Len(CRLF)

\* std::from_chars takes all of it.
IsSize    == Digits # <<>> /\ \A i \in 1..Len(Digits) : Contains(Hex, Digits[i])
DigitValue(d) == CHOOSE v \in 0..15 : Hex[v + 1] = d
ChunkSize ==
    LET value[k \in 0..Len(Digits)] ==
            IF k = 0 THEN 0 ELSE 16 * value[k - 1] + DigitValue(Digits[k])
    IN  value[Len(Digits)]

\* A plausible bug: when there is no further line the body is taken to be complete.
BrokenIsEnd == "codings"

Broken == "BrokenChunkError"

BrokenChunk ==
    /\ phase = "chunks"
    /\ Eol = End \/ ~IsSize
    /\ phase' = Broken
    /\ UNCHANGED <<message, sending, reading>>

LastChunk ==
    /\ phase = "chunks"
    /\ Eol # End /\ IsSize /\ ChunkSize = 0
    /\ result' = result \o SubSeq(body, Data, Search(CRLF, Data) - 1)
    /\ phase' = "codings"
    /\ UNCHANGED <<message, sending, merged, headers, sol, todo>>

\* A plausible bug: the end of the data is searched for.
DataEndSearched == Search(CRLF, Data)

DataEnd == Data + ChunkSize

\* Neither the end of the data nor the next line is checked to be in the body.
DataChunk ==
    /\ phase = "chunks"
    /\ Eol # End /\ IsSize /\ ChunkSize # 0
    /\ IF DataEnd + Len(CRLF) <= End
       THEN /\ result' = result \o SubSeq(body, Data, DataEnd - 1)
            /\ sol' = DataEnd + Len(CRLF)
            /\ UNCHANGED phase
       ELSE phase' = "undefined" /\ UNCHANGED <<result, sol>>
    /\ UNCHANGED <<message, sending, merged, headers, todo>>

\* How many codings are open after the first i bytes of b.
Depth(b, i) == Cardinality({j \in 1..i : b[j] \in Opening})
               - Cardinality({j \in 1..i : b[j] \in Closing})

\* Where the outermost gzip stream in b ends: 0 if it does not.
StreamEnd(b) ==
    LET ends == {i \in 1..Len(b) : Depth(b, i) = 0}
    IN  IF b[1] # "gzip" \/ ends = {} THEN 0 ELSE Min(ends)

\* gunzip: nothing is the coding of nothing, and what follows the stream is ignored.
Decode ==
    /\ phase = "codings" /\ todo # <<>>
    /\ todo' = Front(todo)
    /\ \/ Last(todo) = "gzip" /\ result = <<>> /\ UNCHANGED <<result, phase>>
       \/ /\ Last(todo) = "gzip" /\ result # <<>> /\ StreamEnd(result) # 0
          /\ result' = SubSeq(result, 2, StreamEnd(result) - 1)
          /\ UNCHANGED phase
       \/ /\ Last(todo) = "gzip" /\ result # <<>> /\ StreamEnd(result) = 0
          /\ phase' = "DecompressError" /\ UNCHANGED result
       \/ Last(todo) = "identity" /\ UNCHANGED <<result, phase>>
       \/ /\ Last(todo) \notin {"gzip", "identity"}
          /\ phase' = "DecompressError" /\ UNCHANGED result
    /\ UNCHANGED <<message, sending, merged, headers, sol>>

Return ==
    /\ phase = "codings" /\ todo = <<>>
    /\ phase' = "done"
    /\ UNCHANGED <<message, sending, reading>>

Stopped == phase \in Ends /\ UNCHANGED vars

Next ==
    \/ Encode \/ SendChunk \/ SendLastChunk \/ SendPlain \/ CutShort
    \/ EndOfHeader \/ NoEndOfHeader \/ HeaderLine
    \/ BodyBytes \/ BrokenChunk \/ LastChunk \/ DataChunk \/ Decode \/ Return
    \/ Stopped

Spec == Init /\ [][Next]_vars
------------------------------------------------------------------------------
(* Properties.                                                               *)

Supported == \A i \in 1..Len(codings) : Lower(codings[i]) \in {"gzip", "identity"}

\* However a server cuts a payload into chunks, whatever the payload looks like and
\* however the header lists its codings, body_bytes returns the payload.
WholeBodyDecoded ==
    phase \in Ends /\ whole /\ Supported => phase = "done" /\ result = payload

\* The body carries its own end: it is chunked, or some of a gzip stream is there.
Delimited == chunked \/ (body # <<>> /\ \E i \in 1..Len(codings) : Lower(codings[i]) = "gzip")

\* A body that carries its own end is never taken for a shorter one when the
\* connection is cut, and a coding the client does not know is never left on.
NeverShortened ==
    phase = "done" /\ Delimited => IsPrefix(payload, result) /\ Supported
==============================================================================
