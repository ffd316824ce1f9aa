---------------------------- MODULE LocalChannel ----------------------------
(***************************************************************************)
(* One direction of a channel inside a process (chrpc/src/channel_local.c):*)
(* a cyclic queue of messages under a mutex, so that every operation is    *)
(* one step whatever threads call it.  A cell of the queue points to a     *)
(* buffer on the heap, and a cell that was polled still does: who frees a  *)
(* buffer, and when, is half of what can go wrong here.                    *)
(***************************************************************************)
EXTENDS CyclicQueue

CONSTANTS
    Msgs,       \* what is sent
    Size(_),    \* the length of a message
    MaxMsgSize, \* cfg.max_msg_size
    Depths,     \* the choices of cfg.queue_depth
    BufLens,    \* lengths of the buffers messages are received into
    Bufs,       \* addresses safe_malloc may return
    None,       \* what a free buffer holds
    MaxSends    \* bound: messages sent

ASSUME Sizes ==
    /\ None \notin Msgs
    /\ \A m \in Msgs : Size(m) \in Nat
    /\ MaxMsgSize \in Nat /\ MaxSends \in Nat
    /\ Depths \subseteq Nat \ {0}      \* new_channel_local refuses 0
    /\ BufLens \subseteq Nat

VARIABLES
    write_over, queue,  \* cfg.write_over, the queue of buffers
    heap,               \* what the buffers hold
    result,             \* what the last call returned
    deleted,            \* delete_channel_local was called
    received, sends     \* history: the messages received, how many were sent

vars == <<write_over, queue, heap, result, deleted, received, sends>>

Init ==
    /\ write_over \in BOOLEAN
    /\ \E d \in Depths, b \in Bufs : queue = NewQueue(d, b)
    /\ heap = [b \in Bufs |-> None]
    /\ result = "CHN_SUCCESS" /\ deleted = FALSE
    /\ received = <<>> /\ sends = 0

Return(status) == result' = status

Free(h, b) == [h EXCEPT ![b] = None]

(* safe_malloc and memcpy: some free buffer now holds m, and is pushed.     *)
Store(h, q, m) ==
    \E b \in Bufs :
        /\ h[b] = None
        /\ heap' = [h EXCEPT ![b] = m]
        /\ queue' = QPush(q, b)

SendLeaky(m) ==      \* variant: the message pushed out is not freed
    /\ ~deleted /\ sends < MaxSends
    /\ sends' = sends + 1
    /\ IF QFull(queue) /\ ~write_over
       THEN Return("CHN_CHANNEL_FULL") /\ UNCHANGED <<heap, queue>>
       ELSE /\ Store(heap, IF QFull(queue) THEN QPoll(queue) ELSE queue, m)
            /\ Return("CHN_SUCCESS")
    /\ UNCHANGED <<write_over, deleted, received>>

Send(m) ==
    /\ ~deleted
    /\ \/ /\ Size(m) = 0 \/ Size(m) > MaxMsgSize
          /\ Return("CHN_INVALID_MSG_SIZE")
          /\ UNCHANGED <<heap, queue, sends>>
       \/ /\ Size(m) \in 1..MaxMsgSize
          /\ QFull(queue) /\ ~write_over
          /\ Return("CHN_CHANNEL_FULL")
          /\ UNCHANGED <<heap, queue, sends>>
       \/ /\ Size(m) \in 1..MaxMsgSize /\ sends < MaxSends
          /\ QFull(queue) /\ write_over
          /\ Store(Free(heap, QFirst(queue)), QPoll(queue), m)
          /\ Return("CHN_SUCCESS") /\ sends' = sends + 1
       \/ /\ Size(m) \in 1..MaxMsgSize /\ sends < MaxSends
          /\ ~QFull(queue)
          /\ Store(heap, queue, m)
          /\ Return("CHN_SUCCESS") /\ sends' = sends + 1
    /\ UNCHANGED <<write_over, deleted, received>>

IncomingLen ==
    /\ ~deleted
    /\ Return(IF QLen(queue) = 0 THEN "CHN_NO_INCOMING_MSG" ELSE "CHN_SUCCESS")
    /\ UNCHANGED <<write_over, queue, heap, deleted, received, sends>>

PollTooSoon(len) ==  \* variant: the message is polled before its size is known
    /\ ~deleted /\ QLen(queue) > 0
    /\ LET b == QFirst(queue) IN
       /\ queue' = QPoll(queue)
       /\ heap' = Free(heap, b)
       /\ IF Size(heap[b]) > len
          THEN Return("CHN_BUFFER_TOO_SMALL") /\ UNCHANGED received
          ELSE Return("CHN_SUCCESS") /\ received' = Append(received, heap[b])
    /\ UNCHANGED <<write_over, deleted, sends>>

Receive(len) ==
    /\ ~deleted
    /\ LET b == QFirst(queue) IN
       \/ /\ QLen(queue) = 0
          /\ Return("CHN_NO_INCOMING_MSG")
          /\ UNCHANGED <<queue, heap, received>>
       \/ /\ QLen(queue) > 0 /\ Size(heap[b]) > len
          /\ Return("CHN_BUFFER_TOO_SMALL")
          /\ UNCHANGED <<queue, heap, received>>
       \/ /\ QLen(queue) > 0 /\ Size(heap[b]) <= len
          /\ queue' = QPoll(queue)
          /\ received' = Append(received, heap[b])
          /\ heap' = Free(heap, b)
          /\ Return("CHN_SUCCESS")
    /\ UNCHANGED <<write_over, deleted, sends>>

(* Every message still queued is polled and freed, then the queue is.       *)
Delete ==
    /\ ~deleted /\ deleted' = TRUE
    /\ heap' = [b \in Bufs |-> IF \E k \in 1..QLen(queue) : Cells(queue)[k] = b
                               THEN None ELSE heap[b]]
    /\ queue' = [queue EXCEPT !.len = 0]
    /\ Return("CHN_SUCCESS")
    /\ UNCHANGED <<write_over, received, sends>>

Next ==
    \/ \E m \in Msgs : Send(m)
    \/ IncomingLen
    \/ \E len \in BufLens : Receive(len)
    \/ Delete

Spec == Init /\ [][Next]_vars

-----------------------------------------------------------------------------
(* The fields have their types: the index of the first cell is one of the   *)
(* table's, and no more cells are in use than there are (queue.c:29-62).    *)
TypeOK ==
    /\ write_over \in BOOLEAN /\ deleted \in BOOLEAN
    /\ IsQueue(queue, Bufs) /\ queue.cap \in Depths
    /\ heap \in [Bufs -> Msgs \cup {None}]
    /\ result \in {"CHN_SUCCESS", "CHN_INVALID_MSG_SIZE", "CHN_CHANNEL_FULL",
                   "CHN_NO_INCOMING_MSG", "CHN_BUFFER_TOO_SMALL"}
    /\ received \in Seq(Msgs) /\ sends \in 0..MaxSends

(* The buffers that are allocated are the ones in the queue, each in one    *)
(* cell: none is leaked when a message is received, pushed out or refused,  *)
(* none is freed twice or read after it was freed, and none is left after   *)
(* delete_channel_local (channel_local.c:43-55, 83-96, 148-155).            *)
Owned(h, q) ==
    /\ \A k, l \in 1..q.len : Cells(q)[k] = Cells(q)[l] => k = l
    /\ {b \in Bufs : h[b] # None} = {Cells(q)[k] : k \in 1..q.len}

BuffersOwned == Owned(heap, queue)

(* To the threads at its ends the channel is a sequence of messages: only a *)
(* full queue with write_over loses one, the oldest, and only to a newer    *)
(* one (channel_local.c:63-101, 128-160; channel_local.h:23-27).            *)
Contents(h, q) == [k \in 1..q.len |-> h[Cells(q)[k]]]

Channel == INSTANCE MessageChannel WITH
    depth <- queue.cap,
    pending <- Contents(heap, queue),
    broken <- deleted

ImplementsChannel == Channel!MSpec
=============================================================================
