--------------------------- MODULE MCResponseHead ----------------------------
(* ResponseHead on small instances. *)
EXTENDS ResponseHead, TLC

MCCodes == "199" :> 199 @@ "200" :> 200 @@ "299" :> 299 @@ "404" :> 404

MCLetters ==
    DOMAIN MCCodes \cup {"HTTP/1.1", "SP", "TAB", ":", "OK", "Not", "Found", "See", "below"}
    \cup {"KEY", "key", "other", "V", "a", "b"}

MCReasons == {<<>>, <<"OK">>, <<"Not", "SP", "Found">>, <<"See", ":", "SP", "below">>}

MCLines ==
    [key : {<<"KEY">>, <<"key">>}, between : {<<>>, <<"SP">>, <<"TAB">>},
     value : {<<>>, <<"V">>, <<"a", ":", "b">>, <<"a", "SP", "b">>}]
    \cup [key : {<<"other">>}, between : {<<>>, <<"SP">>}, value : {<<"V">>}]
==============================================================================
