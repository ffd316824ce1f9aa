----------------------------- MODULE MCLocalRpc -----------------------------
(* Small instances of LocalRpc for TLC.                                     *)
EXTENDS LocalRpc, TLC

CONSTANTS w1, w2, c1, c2

Keep == [cmd |-> "CHRPC_SC_KEEP_ALIVE", ret |-> "fits"]
Bye == [cmd |-> "CHRPC_SC_DISCONNECT", ret |-> "fits"]
WrongType == [cmd |-> "CHRPC_SC_KEEP_ALIVE", ret |-> "wrong_type"]

SomeOutcomes == {Keep, Bye, WrongType}
=============================================================================
