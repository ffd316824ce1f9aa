----------------------------- MODULE ChannelFd -----------------------------
(***************************************************************************)
(* A channel over file descriptors (chrpc/src/channel_fd.c), seen in one   *)
(* direction: one end frames its messages and writes them, the other reads *)
(* the bytes in chunks of any size, finds the frames again, and queues     *)
(* what it found until it is received.  A frame is                         *)
(*     START  length (LenSize bytes, the low one first)  data  END         *)
(* The bytes are real: data may hold START and END, a chunk may end        *)
(* anywhere, a write may be cut short, and other programs write to the     *)
(* descriptor too.                                                         *)
(***************************************************************************)
EXTENDS Integers, Sequences, FiniteSetsExt

CONSTANTS
    Msgs,        \* what is sent, strings of bytes
    Junk,        \* bytes another program writes between two frames
    LenSize,     \* sizeof(uint32_t)
    MaxMsgSize,  \* cfg.max_msg_size
    Depths,      \* the choices of cfg.queue_depth
    ChunkSize,   \* cfg.read_chunk_size
    BufLens,     \* lengths of the buffers messages are received into
    MaxWrites    \* bound: calls of write

START == 30      \* CHN_FD_START_MAGIC
END == 42        \* CHN_FD_END_MAGIC
Bytes == 0..255

ASSUME Sizes ==
    /\ Msgs \subseteq Seq(Bytes) /\ Junk \subseteq Seq(Bytes)
    /\ {LenSize, MaxMsgSize, ChunkSize, MaxWrites} \subseteq Nat \ {0}
    /\ Depths \subseteq Nat \ {0}
    /\ BufLens \subseteq Nat

VARIABLES
    depth, write_over,     \* cfg.queue_depth, cfg.write_over
    write_open, read_open, \* the descriptors are not -1
    wire, eof,             \* bytes written and not read; nothing more will come
    msg_buf, q,            \* the frame found so far, the messages found
    refreshing,            \* chn_fd_refresh is between two calls of read
    result,                \* what the last chn_fd_receive returned
    received,              \* history: the messages received,
    consumed, found,       \*   the bytes read, and the messages found in them
    writes                 \* calls of write so far

vars == <<depth, write_over, write_open, read_open, wire, eof, msg_buf, q,
          refreshing, result, received, consumed, found, writes>>

Init ==
    /\ depth \in Depths /\ write_over \in BOOLEAN
    /\ write_open = TRUE /\ read_open = TRUE
    /\ wire = <<>> /\ eof = FALSE
    /\ msg_buf = <<>> /\ q = <<>>
    /\ refreshing = FALSE /\ result = "CHN_SUCCESS"
    /\ received = <<>> /\ consumed = <<>> /\ found = <<>>
    /\ writes = 0

-----------------------------------------------------------------------------
(* Framing.                                                                 *)

Quotients(n) ==
    LET left[i \in 1..LenSize] == IF i = 1 THEN n ELSE left[i - 1] \div 256
    IN left

LengthBytes(n) == LET left == Quotients(n) IN [i \in 1..LenSize |-> left[i] % 256]

Frame(m) == <<START>> \o LengthBytes(Len(m)) \o m \o <<END>>

FrameSize(len) == 1 + LenSize + len + 1                    \* CHN_FD_MSG_SIZE

Number(bytes) ==
    LET from[i \in 1..(Len(bytes) + 1)] ==
            IF i > Len(bytes) THEN 0 ELSE bytes[i] + 256 * from[i + 1]
    IN from[1]

MsgLength(buf) == Number(SubSeq(buf, 2, 1 + LenSize))

(* The loop of chn_fd_refresh over a chunk: s.buf is msg_buf, s.rest what   *)
(* is left of the chunk, s.msgs the messages found.  What                   *)
(* _chn_fd_process_single_msg does next depends on how much msg_buf holds;  *)
(* each round takes one such step, until the chunk is exhausted.            *)
HeaderSize == 1 + LenSize

Skip(s, n) == SubSeq(s, n + 1, Len(s))

Hunt(s) ==
    LET at == {i \in DOMAIN s.rest : s.rest[i] = START} IN
    IF at = {} THEN [s EXCEPT !.rest = <<>>]
    ELSE [s EXCEPT !.buf = <<START>>, !.rest = Skip(@, Min(at))]

Fill(s, size) ==
    LET n == Min({size - Len(s.buf), Len(s.rest)}) IN
    [s EXCEPT !.buf = @ \o SubSeq(s.rest, 1, n), !.rest = Skip(@, n)]

TooLongForBuf(buf) == MsgLength(buf) > FrameSize(MaxMsgSize)  \* variant: the wrong limit

TooLong(buf) == MsgLength(buf) > MaxMsgSize

Finish(s) ==
    [buf |-> <<>>,
     rest |-> Tail(s.rest),
     msgs |-> IF Head(s.rest) = END /\ MsgLength(s.buf) > 0
              THEN Append(s.msgs, Skip(s.buf, HeaderSize))
              ELSE s.msgs]

Step(s) ==
    CASE s.buf = <<>>            -> Hunt(s)
      [] Len(s.buf) \in 1..(HeaderSize - 1) -> Fill(s, HeaderSize)
      [] Len(s.buf) >= HeaderSize ->
            IF TooLong(s.buf) THEN [s EXCEPT !.buf = <<>>]
            ELSE IF Len(s.buf) < HeaderSize + MsgLength(s.buf)
                 THEN Fill(s, HeaderSize + MsgLength(s.buf))
                 ELSE Finish(s)

Chunks == [buf : Seq(Bytes), rest : Seq(Bytes), msgs : Seq(Seq(Bytes))]

ProcessAll[s \in Chunks] == IF s.rest = <<>> THEN s ELSE ProcessAll[Step(s)]

ProcessAfresh(buf, chunk) ==  \* variant: every chunk starts with a new hunt
    ProcessAll[[buf |-> <<>>, rest |-> chunk, msgs |-> <<>>]]

Process(buf, chunk) == ProcessAll[[buf |-> buf, rest |-> chunk, msgs |-> <<>>]]

(* What the queue holds once the messages ms have been pushed.              *)
EnqueueEarly(ms) ==   \* variant: the queue counts as full one message too soon
    LET all == q \o ms
        n == Min({Max({1, depth - 1}), Len(all)})
    IN IF write_over THEN Skip(all, Len(all) - n) ELSE SubSeq(all, 1, n)

Enqueue(ms) ==
    LET all == q \o ms
        n == Min({depth, Len(all)})
    IN IF write_over THEN Skip(all, Len(all) - n) ELSE SubSeq(all, 1, n)

-----------------------------------------------------------------------------
(* The writing end.                                                         *)

reader == <<read_open, msg_buf, q, refreshing, result, received, consumed, found>>

Send(m) ==
    /\ write_open
    /\ Len(m) \in 1..MaxMsgSize
    /\ writes < MaxWrites
    /\ writes' = writes + 1
    /\ wire' = wire \o Frame(m)
    /\ UNCHANGED <<depth, write_over, write_open, eof, reader>>

(* A write that fails or is cut short closes the descriptor.  The other end *)
(* sees the end of the file only if no other descriptor is open.            *)
SendCut(m) ==
    /\ write_open
    /\ Len(m) \in 1..MaxMsgSize
    /\ writes < MaxWrites
    /\ writes' = writes + 1
    /\ \E n \in 0..(FrameSize(Len(m)) - 1) : wire' = wire \o SubSeq(Frame(m), 1, n)
    /\ write_open' = FALSE
    /\ eof' \in BOOLEAN
    /\ UNCHANGED <<depth, write_over, reader>>

WriteJunk(bytes) ==
    /\ write_open
    /\ writes < MaxWrites
    /\ writes' = writes + 1
    /\ wire' = wire \o bytes
    /\ UNCHANGED <<depth, write_over, write_open, eof, reader>>

Hangup ==
    /\ ~eof /\ eof' = TRUE
    /\ write_open' = FALSE
    /\ UNCHANGED <<depth, write_over, wire, reader, writes>>

-----------------------------------------------------------------------------
(* The reading end.  chn_fd_refresh reads until there is nothing to read,   *)
(* and keeps the mutex in between.                                          *)

ReadChunk ==
    /\ read_open /\ wire # <<>>
    /\ \E n \in 1..Min({ChunkSize, Len(wire)}) :
          LET chunk == SubSeq(wire, 1, n)
              p == Process(msg_buf, chunk) IN
          /\ wire' = Skip(wire, n)
          /\ consumed' = consumed \o chunk
          /\ msg_buf' = p.buf
          /\ found' = found \o p.msgs
          /\ q' = Enqueue(p.msgs)
    /\ refreshing' = TRUE
    /\ UNCHANGED <<depth, write_over, write_open, read_open, eof, result, received, writes>>

ReadWouldBlock ==
    /\ refreshing /\ wire = <<>> /\ ~eof
    /\ refreshing' = FALSE
    /\ UNCHANGED <<depth, write_over, write_open, read_open, wire, eof, msg_buf, q,
                   result, received, consumed, found, writes>>

(* The end of the file, or an error, which may come before all was read.    *)
ReadEnd(failed) ==
    /\ read_open
    /\ failed \/ (wire = <<>> /\ eof)
    /\ read_open' = FALSE
    /\ refreshing' = FALSE
    /\ UNCHANGED <<depth, write_over, write_open, wire, eof, msg_buf, q, result, received,
                   consumed, found, writes>>

ReceiveIfOpen(len) ==  \* variant: a closed descriptor hides what is queued
    /\ ~refreshing
    /\ \/ /\ ~read_open
          /\ result' = "CHN_CANNOT_READ" /\ UNCHANGED <<q, received>>
       \/ /\ read_open /\ q = <<>>
          /\ result' = "CHN_NO_INCOMING_MSG" /\ UNCHANGED <<q, received>>
       \/ /\ read_open /\ q # <<>> /\ Len(Head(q)) > len
          /\ result' = "CHN_BUFFER_TOO_SMALL" /\ UNCHANGED <<q, received>>
       \/ /\ read_open /\ q # <<>> /\ Len(Head(q)) <= len
          /\ result' = "CHN_SUCCESS"
          /\ received' = Append(received, Head(q))
          /\ q' = Tail(q)
    /\ UNCHANGED <<depth, write_over, write_open, read_open, wire, eof, msg_buf,
                   refreshing, consumed, found, writes>>

Receive(len) ==
    /\ ~refreshing
    /\ \/ /\ q = <<>>
          /\ result' = IF read_open THEN "CHN_NO_INCOMING_MSG" ELSE "CHN_CANNOT_READ"
          /\ UNCHANGED <<q, received>>
       \/ /\ q # <<>> /\ Len(Head(q)) > len
          /\ result' = "CHN_BUFFER_TOO_SMALL" /\ UNCHANGED <<q, received>>
       \/ /\ q # <<>> /\ Len(Head(q)) <= len
          /\ result' = "CHN_SUCCESS"
          /\ received' = Append(received, Head(q))
          /\ q' = Tail(q)
    /\ UNCHANGED <<depth, write_over, write_open, read_open, wire, eof, msg_buf,
                   refreshing, consumed, found, writes>>

Next ==
    \/ \E m \in Msgs : Send(m) \/ SendCut(m)
    \/ \E bytes \in Junk : WriteJunk(bytes)
    \/ Hangup
    \/ ReadChunk \/ ReadWouldBlock
    \/ \E failed \in BOOLEAN : ReadEnd(failed)
    \/ \E len \in BufLens : Receive(len)

Spec == Init /\ [][Next]_vars

-----------------------------------------------------------------------------
Results == {"CHN_SUCCESS", "CHN_NO_INCOMING_MSG", "CHN_CANNOT_READ", "CHN_BUFFER_TOO_SMALL"}

(* The types of the fields; a frame that is being read never outgrows       *)
(* msg_buf, nor the messages found the queue (channel_fd.c:210-287).        *)
TypeOK ==
    /\ depth \in Depths /\ write_over \in BOOLEAN
    /\ {write_open, read_open, eof, refreshing} \subseteq BOOLEAN
    /\ wire \in Seq(Bytes) /\ consumed \in Seq(Bytes)
    /\ msg_buf \in Seq(Bytes) /\ Len(msg_buf) < FrameSize(MaxMsgSize)
    /\ q \in Seq(Seq(Bytes)) /\ Len(q) <= depth
    /\ received \in Seq(Seq(Bytes)) /\ found \in Seq(Seq(Bytes))
    /\ result \in Results
    /\ writes \in 0..MaxWrites

(* Where the chunks end makes no difference to what is found in the bytes   *)
(* (channel_fd.c:171-290, 306-312).                                         *)
ChunkingInvisible ==
    LET whole == Process(<<>>, consumed) IN msg_buf = whole.buf /\ found = whole.msgs

(* CHN_CANNOT_READ is the last word: it comes when every message found was  *)
(* received or pushed out, and no receive succeeds after it                 *)
(* (channel_fd.c:314-333, 364-366).                                         *)
CannotReadIsFinal ==
    [][/\ result' = "CHN_CANNOT_READ" => q' = <<>>
       /\ result = "CHN_CANNOT_READ" => result' = "CHN_CANNOT_READ"]_vars

(* What the two ends take for granted: the length of every message they may *)
(* send fits into the field for it, which new_channel_fd does not check     *)
(* (channel_fd.c:57-60, 145), and other programs leave no frame unfinished. *)
LengthFits == Quotients(MaxMsgSize)[LenSize] < 256

Harmless == \A bytes \in Junk :
    Process(<<>>, bytes).buf = <<>> /\ Process(<<>>, bytes).msgs = <<>>

(* To the two ends, the descriptors are a channel of whole messages: what   *)
(* is queued, and the complete frames among the bytes still to be read.     *)
(* Neither a write that was cut nor bytes of others adds a message or       *)
(* loses one, unless they leave a frame unfinished (channel_fd.c:128-290,   *)
(* 359-386).                                                                *)
InTransit == IF read_open THEN Process(msg_buf, wire).msgs ELSE <<>>

Channel == INSTANCE MessageChannel WITH
    pending <- q \o InTransit,
    broken <- ~read_open

ImplementsChannel == Channel!MSpec
=============================================================================
