------------------------------- MODULE MCSys -------------------------------
(* Small trees of processes for TLC.                                        *)
EXTENDS Sys

CONSTANTS p1, p2, p3, t1, t2

(* The first process has two threads that allocate, another polls for the   *)
(* exit instead of leaving it to its signal thread, and one does nothing but*)
(* what every program may.                                                  *)
Programs == [p \in Pids |-> CASE p = p1 -> {"thread", "malloc"}
                              [] p = p2 -> {"poll"}
                              [] p = p3 -> {}]

(* One thread each, and what a process that polls forks polls too.          *)
Singles == [p \in Pids |-> CASE p = p1 -> {}
                             [] p = p2 -> {"poll", "interrupt"}
                             [] p = p3 -> {"poll"}]
=============================================================================
