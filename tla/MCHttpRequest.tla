---------------------------- MODULE MCHttpRequest ----------------------------
(* HttpRequest on small instances: forms nested up to three deep, with keys    *)
(* and values of the characters that matter to the encoding, and parts whose   *)
(* names, types and data look like framing.                                    *)
EXTENDS HttpRequest

Keys    == {<<"a">>, <<"b">>, <<"[", "&">>}
Scalars == {Scalar(s) : s \in {<<>>, <<"b">>, <<"+", " ">>, <<"%", "2", "6">>, <<"=", "&">>}}

Two == {Scalar(<<"]">>), Scalar(<<"=", "+">>)}

PairsOf(keys, items) == {[key |-> k, item |-> i] : k \in keys, i \in items}
Lists(S, n) == UNION {[1..m -> S] : m \in 0..n}

Flat ==
    {Array(l) : l \in Lists(Two, 2)} \cup
    {Object(l) : l \in Lists(PairsOf({<<"a">>, <<"[", "&">>}, Two), 2)}

Nested ==
    {Array(<<i>>) : i \in Flat} \cup
    {Object(<<[key |-> <<"b">>, item |-> i], [key |-> <<"a">>, item |-> Scalar(<<"b">>)]>>) : i \in Flat}

Forms ==
    {Object(l) : l \in Lists(PairsOf(Keys, Scalars), 2)} \cup
    {Object(<<[key |-> k, item |-> i], [key |-> <<"b">>, item |-> j]>>) :
        k \in Keys, i \in Flat \cup Nested, j \in Two}

Data == {<<>>, <<"x">>, <<CRLF>>, <<CRLF, CRLF>>, <<"--", "b2">>, <<CRLF, "--", "b1", CRLF>>,
         <<"b1", "--", CRLF>>}

\* Names and types that need escaping, among them one that looks like a file's.
Simple   == {<<"k">>, <<"l">>}
Odd      == {<<>>, <<QUOTE>>, <<"k", CRLF>>, <<"k", QUOTE, "filename=", QUOTE, "f">>}
OddTypes == {<<"t">>, <<>>, <<"t", CRLF>>, <<CRLF, "--", "b1", CRLF>>}

Files(names, types, data) == [name : names, content_type : types, bytes : data]
PlainFiles(data)          == Files({<<"f">>}, {<<"t">>}, data)

Multiparts ==
    [fields : [{} -> Data] \cup [{<<"k">>} -> Data] \cup [Simple -> {<<>>, <<CRLF, "--">>}],
     files : [{} -> PlainFiles(Data)] \cup [{<<"k">>} -> PlainFiles(Data)]
             \cup [{<<"k">>, <<"m">>} -> PlainFiles({<<"x">>})]]

OddMultiparts ==
    [fields : UNION {[{<<"k">>, key} -> {<<"x">>, <<CRLF>>}] : key \in Odd},
     files : UNION {[{<<"k">>, key} -> Files({<<"f">>} \cup Odd, OddTypes, {<<"x">>})] :
                        key \in {<<"k">>, <<QUOTE>>}}]

MCClients ==
    [query : {<<>>},
      content : {[form |-> f] : f \in Forms} \cup
                {[multipart |-> m] : m \in Multiparts \cup OddMultiparts}]
    \cup [query : {<<f>> : f \in {Object(l) : l \in Lists(PairsOf(Keys, Two), 2)}},
          content : {[json |-> <<"json">>], [none |-> TRUE]}]
==============================================================================
