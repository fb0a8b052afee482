--------------------------- MODULE MCHttpResponse ----------------------------
(* HttpResponse for TLC: the lists of codings.                               *)
EXTENDS HttpResponse

MCCodingLists ==
    {<<>>, <<"GZIP", "identity">>, <<"gzip", "gzip">>, <<"br">>}
==============================================================================
