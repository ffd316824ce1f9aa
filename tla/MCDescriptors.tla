-------------------------- MODULE MCDescriptors --------------------------
(* A small instance of Descriptors: three connections compete for few       *)
(* numbers, so that numbers are used again and dup and accept run out.      *)
EXTENDS Descriptors, TLC

Symmetry == Permutations(Conns)
=============================================================================
