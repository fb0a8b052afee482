---------------------------- MODULE FormEncoding -----------------------------
(***************************************************************************)
(* TAOW::http_client::FormRequest, FormRequestItem and encode_url: nested  *)
(* values and their x-www-form-urlencoded string.  A string is a sequence  *)
(* of characters; an unordered_map is iterated in any order, so an item    *)
(* has a set of strings.  The recursive operators are for TLC only.        *)
(***************************************************************************)
EXTENDS Naturals, Sequences, FiniteSets, SequencesExt, TLC

\* The codes of the characters of the instances that encode_url escapes.
Code == "%" :> <<"2", "5">> @@ "&" :> <<"2", "6">> @@ "+" :> <<"2", "B">>
        @@ "=" :> <<"3", "D">> @@ "[" :> <<"5", "B">> @@ "]" :> <<"5", "D">>

\* A plausible bug: the plus sign is taken for a character that needs no escape.
EncodedPlusKept(c) ==
    CASE c = " " -> <<"+">>
      [] c \in DOMAIN Code \ {"+"} -> <<"%">> \o Code[c]
      [] OTHER -> <<c>>

Encoded(c) ==
    CASE c = " " -> <<"+">>
      [] c \in DOMAIN Code -> <<"%">> \o Code[c]
      [] OTHER -> <<c>>

encode_url(s) == FlattenSeq([i \in DOMAIN s |-> Encoded(s[i])])

\* The initializer lists of pairs: emplace keeps the first value of a key.
Emplaced(pairs) ==
    [k \in {pairs[i].key : i \in DOMAIN pairs} |->
        LET first == CHOOSE i \in DOMAIN pairs :
                        pairs[i].key = k /\ \A j \in 1..(i - 1) : pairs[j].key # k
        IN  pairs[first].item]

\* The three alternatives of _value.
Scalar(s)     == [scalar |-> s]
Array(items)  == [array |-> items]
Object(pairs) == [object |-> Emplaced(pairs)]

IsScalar(item) == "scalar" \in DOMAIN item
IsArray(item)  == "array" \in DOMAIN item
IsObject(item) == "object" \in DOMAIN item
------------------------------------------------------------------------------
(* The getters.  A step of a path is one call of get.                       *)

NoValue == [error |-> "FormParsingError, out_of_range or undefined"]

RECURSIVE GetAt(_, _)
GetAt(item, path) ==
    IF path = <<>> THEN (IF IsScalar(item) THEN item ELSE NoValue)
    ELSE LET step == Head(path) IN
         IF /\ "index" \in DOMAIN step /\ IsArray(item)
            /\ step.index < Len(item.array)
         THEN GetAt(item.array[step.index + 1], Tail(path))
         ELSE IF /\ "key" \in DOMAIN step /\ IsObject(item)
                 /\ step.key \in DOMAIN item.object
         THEN GetAt(item.object[step.key], Tail(path))
         ELSE NoValue
------------------------------------------------------------------------------
(* to_string and to_form_string.                                            *)

\* The result of pop_back on an empty string.
Undefined == <<"undefined">>

\* Every item and an '&' behind it, the last '&' popped.
Joined(parts) ==
    IF parts = <<>> \/ Undefined \in Range(parts) THEN Undefined
    ELSE FlattenSeq([i \in DOMAIN parts |-> IF i = 1 THEN parts[i] ELSE <<"&">> \o parts[i]])

\* One member of each set.
OneOfEach(sets) ==
    {g \in [DOMAIN sets -> UNION Range(sets)] : \A x \in DOMAIN sets : g[x] \in sets[x]}

\* The strings of a map whose value under k has the strings strings[k].
JoinedInAnyOrder(strings) ==
    {Joined([i \in DOMAIN order |-> choice[order[i]]]) :
        order \in SetToSeqs(DOMAIN strings), choice \in OneOfEach(strings)}

Inner(parent, key) == parent \o <<"[">> \o key \o <<"]">>

\* std::to_string of an index; the arrays of the instances are short.
Digits(i) == <<ToString(i)>>

RECURSIVE to_form_string(_, _)
to_form_string(item, key) ==
    IF IsScalar(item) THEN {encode_url(key) \o <<"=">> \o encode_url(item.scalar)}
    ELSE IF IsObject(item)
    THEN JoinedInAnyOrder([k \in DOMAIN item.object |->
                              to_form_string(item.object[k], Inner(key, k))])
    ELSE {Joined(parts) : parts \in
             OneOfEach([i \in DOMAIN item.array |->
                         to_form_string(item.array[i], Inner(key, Digits(i - 1)))])}

\* FormRequest::to_string.
to_string(form) ==
    JoinedInAnyOrder([k \in DOMAIN form.object |-> to_form_string(form.object[k], k)])
------------------------------------------------------------------------------
(* How a server reads such a string.                                        *)

RECURSIVE Decoded(_)
Decoded(s) ==
    IF s = <<>> THEN <<>>
    ELSE IF Head(s) = "%" /\ Len(s) >= 3 /\ SubSeq(s, 2, 3) \in Range(Code)
    THEN <<CHOOSE c \in DOMAIN Code : Code[c] = SubSeq(s, 2, 3)>>
         \o Decoded(SubSeq(s, 4, Len(s)))
    ELSE <<IF Head(s) = "+" THEN " " ELSE Head(s)>> \o Decoded(Tail(s))

\* s up to the first c, and what is behind it.
Before(s, c) == SubSeq(s, 1, SelectInSeq(s \o <<c>>, LAMBDA x : x = c) - 1)
Behind(s, c) == SubSeq(s, Len(Before(s, c)) + 2, Len(s))

RECURSIVE Pairs(_)
Pairs(s) ==
    IF s = <<>> THEN <<>>
    ELSE LET pair == Before(s, "&") IN
         <<[name |-> Decoded(Before(pair, "=")), value |-> Decoded(Behind(pair, "="))]>>
         \o Pairs(Behind(s, "&"))
==============================================================================
