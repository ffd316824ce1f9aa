--------------------------- MODULE MessageChannel ---------------------------
(***************************************************************************)
(* What a channel promises to the programs at its two ends: messages come  *)
(* out whole and in the order they went in, a failed call has no effect,   *)
(* and while the channel is not broken a message is lost only when more    *)
(* than depth of them were waiting.                                        *)
(***************************************************************************)
EXTENDS Naturals, Sequences, FiniteSets

CONSTANT Msgs

VARIABLES
    depth,     \* how many messages may wait without loss, fixed at the start
    pending,   \* sent, not yet received, not lost
    received,  \* received, in order
    broken     \* the receiving end has seen the end of the channel

mvars == <<depth, pending, received, broken>>

MInit ==
    /\ depth \in Nat \ {0}
    /\ pending = <<>> /\ received = <<>> /\ broken = FALSE

MSend(m) ==
    /\ ~broken
    /\ pending' = Append(pending, m)
    /\ UNCHANGED <<depth, received, broken>>

(* A full channel may make room by giving up the oldest message.            *)
MSendOver(m) ==
    /\ ~broken
    /\ pending # <<>> /\ Len(pending) >= depth
    /\ pending' = Append(Tail(pending), m)
    /\ UNCHANGED <<depth, received, broken>>

MReceive ==
    /\ pending # <<>>
    /\ pending' = Tail(pending)
    /\ received' = Append(received, Head(pending))
    /\ UNCHANGED <<depth, broken>>

(* The messages of s at the positions in kept.                              *)
Thin(s, kept) ==
    [i \in 1..Cardinality(kept) |->
        s[CHOOSE j \in kept : Cardinality({k \in kept : k <= j}) = i]]

Overflow ==
    /\ ~broken
    /\ \E kept \in SUBSET DOMAIN pending :
          /\ depth <= Cardinality(kept) /\ Cardinality(kept) < Len(pending)
          /\ pending' = Thin(pending, kept)
    /\ UNCHANGED <<depth, received, broken>>

(* What had not arrived when the channel broke is lost, the rest is not.    *)
Break ==
    /\ ~broken /\ broken' = TRUE
    /\ \E n \in 0..Len(pending) : pending' = SubSeq(pending, 1, n)
    /\ UNCHANGED <<depth, received>>

MNext == (\E m \in Msgs : MSend(m) \/ MSendOver(m)) \/ MReceive \/ Overflow \/ Break

MSpec == MInit /\ [][MNext]_mvars
=============================================================================
