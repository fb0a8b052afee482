----------------------------- MODULE HttpRequest -----------------------------
(***************************************************************************)
(* The request of TAOW::http_client::Client: _create_raw_request with the  *)
(* headers, the body (JSON, FormRequest or Multipart) and the target of    *)
(* the URL, once for every call() on the same client.  JSON is an opaque   *)
(* token.  Names, content types and data of parts are sequences of tokens, *)
(* among them the quote, CRLF, "--" and the boundaries.                    *)
(***************************************************************************)
EXTENDS FormEncoding

CONSTANTS
    Clients,     \* the clients: query, the optional FormRequest of the URL, and content
    Boundaries,  \* what utils::random_string(16) may return
    MaxCalls     \* bound: calls on the client

ASSUME BoundsAssumption == MaxCalls \in Nat /\ Boundaries # {}

VARIABLES
    client,          \* _url, _json, _form_request, _multipart
    content_length,  \* _content_length
    boundary,        \* _multipart_boundary
    request,         \* _raw_request_bytes
    calls            \* requests made so far

vars == <<client, content_length, boundary, request, calls>>

Has(kind)   == kind \in DOMAIN client.content
Content     == client.content
CRLF        == "crlf"
QUOTE       == "quote"
NoRequest   == [target |-> <<>>, length |-> 0, type |-> "none", boundary |-> "", body |-> <<>>]

\* _content_length has no initializer.
Init ==
    /\ client \in Clients
    /\ content_length \in 0..1
    /\ boundary = ""
    /\ request = NoRequest
    /\ calls = 0
------------------------------------------------------------------------------
(* Multipart::as_http_body.                                                 *)

\* The names stand between quotes as they are, the content type in a line of its own.
FieldLines(key) == <<"name=", QUOTE>> \o key \o <<QUOTE>>
FileLines(key, file) ==
    FieldLines(key) \o <<"filename=", QUOTE>> \o file.name \o <<QUOTE, CRLF, "type:">>
                    \o file.content_type

Part(lines, data, b) == <<"--", b, CRLF>> \o lines \o <<CRLF, CRLF>> \o data \o <<CRLF>>

FieldParts(fields, b) == [key \in DOMAIN fields |-> Part(FieldLines(key), fields[key], b)]
FileParts(files, b) ==
    [key \in DOMAIN files |-> Part(FileLines(key, files[key]), files[key].bytes, b)]

InAnyOrder(parts) ==
    {FlattenSeq([i \in DOMAIN order |-> parts[order[i]]]) : order \in SetToSeqs(DOMAIN parts)}

as_http_body(m, b) ==
    {fields \o files \o <<"--", b, "--", CRLF>> :
        fields \in InAnyOrder(FieldParts(m.fields, b)),
        files \in InAnyOrder(FileParts(m.files, b))}
------------------------------------------------------------------------------
(* Client::_create_raw_request.                                             *)

\* URL::get_path.
get_path ==
    IF client.query = <<>> THEN {<<"/">>}
    ELSE {IF s = Undefined THEN s ELSE <<"/", "?">> \o s : s \in to_string(client.query[1])}

create_body(b) ==
    IF Has("json") THEN {Content.json}
    ELSE IF Has("form") THEN to_string(Content.form)
    ELSE IF Has("multipart") THEN as_http_body(Content.multipart, b)
    ELSE {<<>>}

\* _create_headers: the ones that depend on the body, absent without one.
Type == IF Has("json") THEN "json" ELSE IF Has("form") THEN "form"
        ELSE IF Has("multipart") THEN "multipart" ELSE "none"

Headers(target, length, b, body) ==
    [target |-> target, length |-> length, type |-> Type,
     boundary |-> IF Has("multipart") THEN b ELSE "", body |-> body]

\* random_string, called for a Multipart only.
NewBoundaries == IF Has("multipart") THEN Boundaries ELSE {boundary}

\* A plausible bug: the header is created before the body.
CreateHeadersFirst ==
    /\ calls < MaxCalls
    /\ \E b \in NewBoundaries, target \in get_path : \E body \in create_body(b) :
          /\ boundary' = b
          /\ content_length' = Len(body)
          /\ request' = Headers(target, content_length, boundary, body)
    /\ calls' = calls + 1
    /\ UNCHANGED client

\* The body first, which makes a new boundary, then the header that describes it.
CreateRawRequest ==
    /\ calls < MaxCalls
    /\ \E b \in NewBoundaries, target \in get_path : \E body \in create_body(b) :
          /\ boundary' = b
          /\ content_length' = Len(body)
          /\ request' = Headers(target, Len(body), b, body)
    /\ calls' = calls + 1
    /\ UNCHANGED client

Done == calls = MaxCalls /\ UNCHANGED vars

Next == CreateRawRequest \/ Done

Spec == Init /\ [][Next]_vars
------------------------------------------------------------------------------
(* How a server reads the request, and the properties.                      *)

\* The paths of get calls that can lead to a value, for the instances.
Steps == {[index |-> i] : i \in 0..1} \cup
         {[key |-> k] : k \in {<<"a">>, <<"b">>, <<"[", "&">>}}
Paths == UNION {[1..n -> Steps] : n \in 1..3}

Label(step) == IF "key" \in DOMAIN step THEN step.key ELSE Digits(step.index)
NameOf(path) == FoldLeft(Inner, Label(Head(path)),
                         [i \in 1..(Len(path) - 1) |-> Label(path[i + 1])])

\* The form or an item in it has no items.
RECURSIVE HasEmpty(_)
HasEmpty(item) ==
    IF IsScalar(item) THEN FALSE
    ELSE LET items == IF IsArray(item) THEN item.array ELSE item.object
         IN  items = <<>> \/ \E k \in DOMAIN items : HasEmpty(items[k])

\* s says of the form what its getters say: one pair for each value they reach.
Says(s, form) ==
    LET pairs == Pairs(s)
        leaves == {path \in Paths : GetAt(form, path) # NoValue}
        PairOf(path) == [name |-> NameOf(path), value |-> GetAt(form, path).scalar]
    IN  \A pair \in Range(pairs) \cup {PairOf(path) : path \in leaves} :
            Cardinality({i \in DOMAIN pairs : pairs[i] = pair}) =
                Cardinality({path \in leaves : PairOf(path) = pair})

Arrives(s, form) == IF HasEmpty(form) THEN s = Undefined ELSE Says(s, form)

\* Whatever characters its keys and values have and however its maps are
\* iterated, a form in the body or in the URL is read as the values its getters
\* return, each once, under the path that leads to it; only a form with
\* something empty in it has no defined string.
FormArrives ==
    calls > 0 =>
        /\ Has("form") => Arrives(SubSeq(request.body, 1, request.length), Content.form)
        /\ client.query # <<>> =>
              LET t == request.target
              IN  Arrives(IF t = Undefined THEN t ELSE Behind(t, "?"), client.query[1])

Occurs(part, s) == {i \in 1..(Len(s) + 1 - Len(part)) : SubSeq(s, i, i + Len(part) - 1) = part}

\* The first quoted string of a line, and what is behind it.
Quoted(line)       == Before(Behind(line, QUOTE), QUOTE)
BehindQuoted(line) == Behind(Behind(line, QUOTE), QUOTE)

Field(name, data) == [name |-> name, data |-> data]
File(name, filename, type, data) ==
    [name |-> name, filename |-> filename, type |-> type, data |-> data]

\* What the lines of a part say: a file has a file name and a content type.
ReadPart(lines, data) ==
    LET disposition == Before(lines, CRLF)
        type_line   == Before(Behind(lines, CRLF), CRLF)
    IN  IF BehindQuoted(disposition) = <<>> THEN Field(Quoted(disposition), data)
        ELSE File(Quoted(disposition), Quoted(BehindQuoted(disposition)),
                  Behind(type_line, "type:"), data)

\* The parts a server finds between the delimiters.
PartsOf(s, b) ==
    LET text == <<CRLF>> \o s
        cuts == SetToSortSeq(Occurs(<<CRLF, "--", b>>, text), <)
        part(i) == SubSeq(text, cuts[i] + 4, cuts[i + 1] - 1)
        blank(i) == CHOOSE j \in Occurs(<<CRLF, CRLF>>, part(i)) :
                       \A k \in Occurs(<<CRLF, CRLF>>, part(i)) : j <= k
    IN  [i \in 1..(Len(cuts) - 1) |->
            ReadPart(SubSeq(part(i), 1, blank(i) - 1),
                     SubSeq(part(i), blank(i) + 2, Len(part(i))))]

Given(m) ==
    {Field(k, m.fields[k]) : k \in DOMAIN m.fields} \cup
    {File(k, m.files[k].name, m.files[k].content_type, m.files[k].bytes) : k \in DOMAIN m.files}

IsFile(part) == "filename" \in DOMAIN part
Names(part)  == IF IsFile(part) THEN {part.name, part.filename} ELSE {part.name}
Types(part)  == IF IsFile(part) THEN {part.type} ELSE {}

\* A delimiter stands at the beginning of a line: in the data, also of its first.
HasDelimiter(part, b) ==
    \E text \in Names(part) \cup Types(part) \cup {<<CRLF>> \o part.data} :
        Occurs(<<CRLF, "--", b>>, text) # {}

\* No name has a quote or a line end in it, no content type has a line end.
NeedsNoEscape(part) ==
    /\ \A name \in Names(part) : Range(name) \cap {QUOTE, CRLF} = {}
    /\ \A type \in Types(part) : CRLF \notin Range(type)

\* On every call the header describes the body behind it: the server takes the
\* length and the boundary from it and reads the JSON the client was made with, or
\* as many parts as it was made with: each field and file whose names and content
\* type would need no escaping as it is, names, type and data, also beside parts
\* that would.  A part that has the random boundary at the beginning of a line is
\* excluded.
BodyArrives ==
    calls > 0 =>
        LET received == SubSeq(request.body, 1, request.length) IN
        /\ Has("none") => received = <<>> /\ request.body = <<>>
        /\ Has("json") => received = Content.json
        /\ Has("multipart") =>
              LET given == Given(Content.multipart)
                  parts == PartsOf(received, request.boundary)
              IN  (\A g \in given : ~HasDelimiter(g, request.boundary)) =>
                      /\ Len(parts) = Cardinality(given)
                      /\ \A g \in given : NeedsNoEscape(g) => g \in Range(parts)
==============================================================================
