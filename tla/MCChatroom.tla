----------------------------- MODULE MCChatroom -----------------------------
(* Small instances of Chatroom for TLC.                                     *)
EXTENDS Chatroom

CONSTANTS i1, i2, w1, w2, ann, bob

ToAll == [to |-> None]
ToAnn == [to |-> ann]
Typed == {ToAll, ToAnn}
Symmetry == Permutations({w1, w2})
=============================================================================
