--------------------------- MODULE MCLocalChannel ---------------------------
(* A small instance of LocalChannel: messages of every size around the      *)
(* limit, told apart by a tag, and as many buffers as the deepest queue has *)
(* cells.                                                                   *)
EXTENDS LocalChannel

SizeOf(m) == m[1]

SomeMsgs == {<<1, "a">>, <<2, "a">>, <<2, "b">>} \cup {<<n, "x">> : n \in {0, 3}}
=============================================================================
