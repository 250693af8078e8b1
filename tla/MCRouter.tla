------------------------------ MODULE MCRouter ------------------------------
(* Patterns and urls for TLC: no segment, two segments with a slash in      *)
(* excess, and a wildcard behind one segment; the urls end within a         *)
(* pattern, go beyond it, or differ from it.                                *)
EXTENDS Router

MCPatterns ==
    {<<"/">>,
     <<"/", "a", "/", "/", "b">>,
     <<"/", "a", "/", "*">>}

MCUrls ==
    {<<>>,
     <<"/", "a">>,
     <<"/", "b">>,
     <<"/", "a", "/", "b", "/">>,
     <<"/", "a", "/", "b", "/", "c">>}
=============================================================================
