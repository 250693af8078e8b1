-------------------------- MODULE MCClientPrograms --------------------------
(* Replies for TLC: text longer than the buffer, and than all the pieces   *)
(* the programs read, and with a NUL in it.                                *)
EXTENDS ClientPrograms

MCReplies ==
    {<<>>, <<1, 2, 3>>, <<1, 0, 2, 3>>, <<1, 2, 1, 3, 2, 1, 4, 2, 3>>}
=============================================================================
