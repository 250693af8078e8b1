--------------------------- MODULE MCHttpTransfer ---------------------------
(* Messages for TLC: the forms of a status line, of a header and of a body *)
(* the parser tells apart, two headers at most.                            *)
EXTENDS HttpTransfer

GetLine == <<"GET", "SP", "url", "SP", "HTTP/1.1">>

MCStatusLines ==
    {GetLine,
     <<"GET", "SP", "url", "SP", "HTTP/9">>,
     <<"GET", "SP", "SP", "HTTP/1.1">>,
     <<"BREW", "SP", "url", "SP", "HTTP/1.1">>,
     <<"HTTP/9", "SP", "200", "SP", "OK">>,
     <<"GET", "SP", "url">>}

MCStatuses == {<<"OK">>, <<>>, <<"Switching", "SP", "Protocols">>}

MCHeaders ==
    {<< <<"Host">>, <<"SP", "v">> >>,
     << <<"host">>, <<"w">> >>,
     << <<"k", "SP">>, <<"SP", "v", "COLON", "w", "SP">> >>,
     << <<"k">>, <<"SP">> >>,
     << <<"k">>, <<>> >>,
     << <<>>, <<"v">> >>}

MCHeaderLists == BoundedSeq(MCHeaders, 2)

MCBodies == {<<>>, <<"b">>, <<"b", "CR", "LF", "b">>, <<"CR", "LF", "b", "COLON", "b">>}
=============================================================================
