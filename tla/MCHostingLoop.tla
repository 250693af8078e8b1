--------------------------- MODULE MCHostingLoop ---------------------------
(* Requests for the two targets the program registers handlers for. *)
EXTENDS HostingLoop

Get(url) == <<"GET", "SP">> \o url \o <<"SP", "HTTP/1.1">> \o CRLF
              \o <<"Host", "COLON", "SP", "localhost">> \o CRLF \o CRLF

MCRequests == {Get(<<"/">>), Get(<<"/", "image">>)}
=============================================================================
