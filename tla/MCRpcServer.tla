---------------------------- MODULE MCRpcServer ----------------------------
(* Small instances of RpcServer for TLC.                                    *)
EXTENDS RpcServer, TLC

CONSTANTS w1, w2, c1, c2, c3

Keep == [cmd |-> "CHRPC_SC_KEEP_ALIVE", ret |-> "fits"]
Bye == [cmd |-> "CHRPC_SC_DISCONNECT", ret |-> "fits"]
ByeTooBig == [cmd |-> "CHRPC_SC_DISCONNECT", ret |-> "too_big"]
WrongType == [cmd |-> "CHRPC_SC_KEEP_ALIVE", ret |-> "wrong_type"]

AllOutcomes == {Keep, Bye, ByeTooBig, WrongType}
NoTooBig == {Keep, Bye, WrongType}
OnlyKeepAndBye == {Keep, Bye}

(* Workers are interchangeable, and so are channels: no property tells one  *)
(* from another.  Not used with liveness properties.                        *)
Symmetry == Permutations(Workers) \cup Permutations(Channels)
=============================================================================
