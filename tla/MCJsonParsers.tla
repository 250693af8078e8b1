--------------------------- MODULE MCJsonParsers ---------------------------
(* The two versions of the parser for TLC.                                  *)
(* Texts: every short text over the symbols that move the counters, the     *)
(* position or the end, and longer ones that hold the other symbols; then   *)
(* a second text for the same parser.                                       *)
EXTENDS JsonParsers, SequencesExt

MCAlphabet == {"{", "}", "[", "]", "QUOTE", "NL", "1"}

MCLonger ==
    {<<"{", "QUOTE", "}", "NL", "QUOTE", ":", "SP", "true", "NL", ",", "1", ".", "}">>,
     <<"[", "false", ",", "null", "NL", "SP", "nope", "]">>,
     <<"{", "NL", "x", "}">>,
     <<"[", "fals">>}

MCTexts ==
    << BoundedSeq(MCAlphabet, 4) \union MCLonger,
       BoundedSeq({"{", "}", "NL"}, 2) \union MCLonger >>

MCTexts2 ==
    << BoundedSeq({"{", "SP", "NL", "1", "x"}, 5)
         \union {<<"{", "NL", "SP", "NL", "[", "]", ",", "NL", "}", "SP", "NL">>,
                 <<"NL", "NL", "}", ":", "QUOTE", "SP", "n">>,
                 <<"[", "SP", "t">>, <<"]", "NUL", "f", ",">>},
       {<<>>, <<"NL">>, <<"}", "NL", "QUOTE">>, <<"NL", "NL", "}">>} >>

MCAfters == {"NUL", "NL", "}", "unmapped"}
=============================================================================
