--------------------------- MODULE MCMessageCodec ---------------------------
(* Values for the constants of MessageCodec. *)
EXTENDS MessageCodec

\* An empty line, a space, and longer lines than the buffer has room for.
Lines == {<<>>, <<1>>, <<2, 3>>, <<2, 3, 2, 2>>}
=============================================================================
