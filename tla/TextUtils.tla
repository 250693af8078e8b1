----------------------------- MODULE TextUtils -----------------------------
(***************************************************************************)
(* The text helpers of utils.cpp, on texts that are sequences of tokens: a *)
(* token stands for one delimiter character or for one word.               *)
(***************************************************************************)
LOCAL INSTANCE Naturals
LOCAL INSTANCE Sequences

\* string_view::find from position `from': the first place where delim
\* occurs in text, 0 when there is none.
Find(text, delim, from) ==
    LET at == {i \in from .. (Len(text) - Len(delim) + 1) :
                  SubSeq(text, i, i + Len(delim) - 1) = delim}
    IN  IF at = {} THEN 0 ELSE CHOOSE i \in at : \A j \in at : i <= j

\* split: the non-empty pieces between occurrences of delim.
Split(text, delim) ==
    LET pieces[l \in 1 .. (Len(text) + 1)] ==
          LET r == Find(text, delim, l)
          IN  IF l > Len(text) THEN <<>>
              ELSE IF r = 0 THEN <<SubSeq(text, l, Len(text))>>
              ELSE (IF r > l THEN <<SubSeq(text, l, r - 1)>> ELSE <<>>)
                      \o pieces[r + Len(delim)]
    IN  pieces[1]

\* split_first: what is before and after the first occurrence of a delimiter
\* of one token; everything and nothing when there is none.
SplitFirst(text, delim) ==
    LET at == Find(text, <<delim>>, 1)
    IN  IF at = 0 THEN <<text, <<>>>>
        ELSE <<SubSeq(text, 1, at - 1), SubSeq(text, at + 1, Len(text))>>

\* trim_any, and trim when chars is the space: the text without the tokens
\* of chars at both of its ends.  Both read before an empty text, which no
\* caller passes.
TrimAny(text, chars) ==
    LET kept == {i \in DOMAIN text : text[i] \notin chars}
        first == CHOOSE i \in kept : \A j \in kept : i <= j
        last  == CHOOSE i \in kept : \A j \in kept : j <= i
    IN  IF kept = {} THEN <<>> ELSE SubSeq(text, first, last)
=============================================================================
