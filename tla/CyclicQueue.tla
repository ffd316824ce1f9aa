---------------------------- MODULE CyclicQueue ----------------------------
(***************************************************************************)
(* The bounded queue of chutil (chutil/src/queue.c), a table of cells used *)
(* in a circle.  The server keeps its channels in one, a local channel its *)
(* messages.  A queue is a record with the fields of queue_t.              *)
(***************************************************************************)
EXTENDS Integers, Sequences

(* new_queue; x is whatever the allocated cells hold.                       *)
NewQueue(cap, x) ==
    [cap |-> cap, i |-> 0, len |-> 0, table |-> [k \in 0..(cap - 1) |-> x]]

IsQueue(q, Cell) ==
    /\ q.cap \in Nat \ {0}
    /\ q \in [cap : {q.cap}, i : 0..(q.cap - 1), len : 0..q.cap,
               table : [0..(q.cap - 1) -> Cell]]

QLen(q) == q.len

QFull(q) == q.len = q.cap

(* q_peek and the cell q_poll copies; the queue is not empty.               *)
QFirst(q) == q.table[q.i]

(* q_push to a queue that is not full.                                      *)
QPush(q, x) ==
    [cap |-> q.cap, i |-> q.i, len |-> q.len + 1,
     table |-> [q.table EXCEPT ![(q.i + q.len) % q.cap] = x]]

QPollNoWrap(q) ==     \* variant: the wrap comes one cell late
    [cap |-> q.cap, i |-> IF q.i = q.cap THEN 0 ELSE q.i + 1, len |-> q.len - 1,
     table |-> q.table]

(* q_poll from a queue that is not empty.                                   *)
QPoll(q) ==
    [cap |-> q.cap, i |-> IF q.i + 1 = q.cap THEN 0 ELSE q.i + 1, len |-> q.len - 1,
     table |-> q.table]

(* The sequence the table stands for.                                       *)
Cells(q) == [k \in 1..q.len |-> q.table[(q.i + k - 1) % q.cap]]
=============================================================================
