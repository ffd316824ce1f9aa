-------------------------- MODULE RpcServerProofs --------------------------
(***************************************************************************)
(* Proofs about RpcServer, for any number of workers, channels and         *)
(* connections.  IInv is the inductive invariant; everything the server    *)
(* promises about its channels follows from it.                            *)
(*                                                                         *)
(* The second half is what a connection sees of the server:                *)
(*   - its answers come in the order of its requests, whichever workers    *)
(*     gave them, and nothing comes after a goodbye;                       *)
(*   - it is cut for idleness only after a silence;                        *)
(*   - RpcServer implements Connections: every step of every thread admits *)
(*     a connection, answers on one, ends one, reports one that ended, or  *)
(*     changes nothing.                                                    *)
(***************************************************************************)
EXTENDS RpcServer, FiniteSetTheorems, FunctionTheorems, SequenceTheorems, TLAPS

(* A worker that still has to give a slot back holds a deleted channel, and *)
(* no two hold the same one: each decrement of num_channels is for a slot   *)
(* of its own.                                                              *)
ReleasedOnce ==
    /\ \A w \in Workers : pc[w] = "release" => chan[ele[w].chn] = "deleted"
    /\ \A v, w \in Workers : pc[v] = "release" /\ pc[w] = "release" /\ v # w
                                => ele[v].chn # ele[w].chn

(* delete_chrpc_server destroys the queue after it has joined the workers.  *)
Stopped ==
    /\ main \in {"draining", "freed"} => \A w \in Workers : pc[w] = "done"
    /\ main = "freed" => q = <<>>

IInv == TypeOK /\ SoleOwner /\ ReleasedOnce /\ Accounting /\ Stopped

-----------------------------------------------------------------------------
(* What q_push and q_poll do to the cells of the queue.                     *)
LEMMA PushCells ==
    ASSUME NEW S, NEW s \in Seq(S), NEW e \in S
    PROVE  /\ Append(s, e) \in Seq(S)
           /\ Len(Append(s, e)) = Len(s) + 1
           /\ DOMAIN s = 1..Len(s)
           /\ DOMAIN Append(s, e) = 1..(Len(s) + 1)
           /\ \A i \in 1..Len(s) : Append(s, e)[i] = s[i]
           /\ Append(s, e)[Len(s) + 1] = e
  OBVIOUS

LEMMA PollCells ==
    ASSUME NEW S, NEW s \in Seq(S), s # <<>>
    PROVE  /\ Tail(s) \in Seq(S) /\ Head(s) \in S /\ Head(s) = s[1]
           /\ Len(s) \in Nat /\ Len(s) > 0
           /\ DOMAIN s = 1..Len(s)
           /\ DOMAIN Tail(s) = 1..(Len(s) - 1)
           /\ \A i \in 1..(Len(s) - 1) : Tail(s)[i] = s[i + 1]
<1>1. Len(s) \in Nat /\ Len(s) > 0
  BY EmptySeq
<1>2. QED
  BY <1>1, HeadTailProperties, LenProperties

-----------------------------------------------------------------------------
(* What the locals of one worker say of the place it has reached.            *)
Agree(w) ==
    /\ ele[w] # None <=> pc[w] \in Holding \cup {"release", "notify"}
    /\ req[w] # None <=> pc[w] \in {"handle", "calling"}
    /\ status[w] # None <=> pc[w] \in {"decide", "release", "notify"}

(* The fields new_chrpc_server sets have their types.                       *)
LEMMA InitType == Init => TypeOK
<1> SUFFICES ASSUME Init PROVE TypeOK
  OBVIOUS
<1>1. q \in Seq(Ele)
  BY EmptySeq DEF Init
<1>2. inq \in [Channels -> Seq(Req)] /\ out \in [Channels -> Seq(Resp)]
  BY EmptySeq DEF Init
<1>3. /\ num_channels \in 0..MaxConnections /\ id_counter \in 0..IdMax
      /\ clock \in Nat
  BY ServerAttrs DEF Init
<1>8. /\ should_exit \in BOOLEAN /\ notified \subseteq Nat
      /\ main \in {"running", "joining", "draining", "freed"}
  BY DEF Init
<1>4. /\ pc \in [Workers -> Labels]
      /\ ele \in [Workers -> Ele \cup {None}]
      /\ req \in [Workers -> Req \cup {None}]
      /\ status \in [Workers -> Statuses \cup {None}]
  BY DEF Init, Labels
<1>5. /\ chan \in [Channels -> {"caller", "server", "deleted"}]
      /\ sent \in [Channels -> Nat]
      /\ broken \in [Channels -> BOOLEAN]
      /\ ret \in [Channels -> {None, "CHRPC_SUCCESS", "CHRPC_BUFFER_TOO_SMALL",
                               "CHRPC_SERVER_FULL"}]
      /\ touched \in [Channels -> Nat]
  BY DEF Init
<1>6. ASSUME NEW w \in Workers
      PROVE  /\ ele[w] # None <=> pc[w] \in Holding \cup {"release", "notify"}
             /\ req[w] # None <=> pc[w] \in {"handle", "calling"}
             /\ status[w] # None <=> pc[w] \in {"decide", "release", "notify"}
  BY DEF Init, Holding
<1>7. QED
  BY <1>1, <1>2, <1>3, <1>4, <1>5, <1>6, <1>8 DEF TypeOK

(* No slot is counted below zero or above max_connections.                  *)
LEMMA SlotTaken ==
    ASSUME TypeOK, Accounting, NEW w \in Workers, pc[w] = "release",
           main \in {"running", "joining"}
    PROVE  num_channels \in 1..MaxConnections
<1>1. ele[w].chn \in Slots
  BY DEF Slots, TypeOK
<1>2. Slots \subseteq Channels
  BY Inputs DEF Slots, TypeOK, Ele
<1>3. IsFiniteSet(Slots)
  BY <1>2, ServerAttrs, FS_Subset
<1>4. Cardinality(Slots) # 0
  BY <1>1, <1>3, FS_EmptySet
<1>5. QED
  BY <1>4 DEF Accounting, TypeOK

(* The element a worker uses is a real one.                                 *)
LEMMA Held ==
    ASSUME TypeOK, NEW w \in Workers, pc[w] \in Holding \cup {"release", "notify"}
    PROVE  /\ ele[w] \in Ele /\ ele[w].chn \in Channels
           /\ ele[w].id \in Nat /\ ele[w].since_last_req \in Nat
  BY DEF TypeOK, Ele

(* The queue stays a queue of elements, whether q_push has room or not.     *)
LEMMA PushType ==
    ASSUME TypeOK, NEW e \in Ele
    PROVE  QPush(e) \in Seq(Ele)
  BY PushCells DEF TypeOK, QPush

(* The callers of the library keep the types.                               *)
LEMMA ClientType ==
    ASSUME TypeOK, Client PROVE TypeOK'
<1>1. ASSUME NEW c \in Channels, NEW mms \in MsgSizes, GiveChannel(c, mms) PROVE TypeOK'
  <2>1. CASE Refuse(c, "CHRPC_BUFFER_TOO_SMALL") \/ Refuse(c, "CHRPC_SERVER_FULL")
    BY <1>1, <2>1 DEF TypeOK, GiveChannel, Refuse, serverVars, workerVars, clientVars,
                      Labels, Holding
  <2>2. CASE ~Full /\ Accept(c)
    <3>1. [chn |-> c, id |-> id_counter, since_last_req |-> clock] \in Ele
      BY DEF TypeOK, Ele
    <3>2. q' \in Seq(Ele)
      BY <3>1, <2>2, PushType DEF Accept
    <3>3. num_channels' \in 0..MaxConnections /\ id_counter' \in 0..IdMax
      BY <2>2, ServerAttrs DEF TypeOK, Accept, Full
    <3>4. QED
      BY <1>1, <2>2, <3>2, <3>3 DEF TypeOK, GiveChannel, Accept, workerVars, clientVars,
                                    Labels, Holding
  <2>3. QED
    BY <1>1, <2>1, <2>2 DEF GiveChannel
<1>2. ASSUME NEW c \in Channels, NEW v \in Verdicts, ClientSend(c, v) PROVE TypeOK'
  <2>1. [n |-> sent[c] + 1, verdict |-> v] \in Req
    BY DEF TypeOK, Req
  <2>2. inq' \in [Channels -> Seq(Req)]
    BY <1>2, <2>1, PushCells DEF TypeOK, ClientSend
  <2>3. sent' \in [Channels -> Nat]
    BY <1>2 DEF TypeOK, ClientSend
  <2>4. QED
    BY <1>2, <2>2, <2>3 DEF TypeOK, ClientSend, serverVars, workerVars, history,
                            Labels, Holding
<1>3. ASSUME NEW c \in Channels, ChannelFault(c) PROVE TypeOK'
  BY <1>3 DEF TypeOK, ChannelFault, serverVars, workerVars, history, Labels, Holding
<1>4. QED
  BY <1>1, <1>2, <1>3 DEF Client

(* chn_send appends one answer or none, and leaves a status behind.         *)
LEMMA SendType ==
    ASSUME TypeOK, NEW w \in Workers, pc[w] \in {"handle", "calling"},
           NEW rs \in Verdicts \cup {"CHRPC_SUCCESS", "CHRPC_BUFFER_TOO_SMALL"},
           NEW last \in BOOLEAN, NEW then \in Statuses, Send(w, rs, last, then)
    PROVE  /\ out' \in [Channels -> Seq(Resp)]
           /\ touched' \in [Channels -> Nat]
           /\ \E s \in Statuses : status' = [status EXCEPT ![w] = s]
<1>1. ele[w].chn \in Channels /\ req[w] \in Req
  BY Held DEF TypeOK, Holding
<1>2. [n |-> req[w].n, status |-> rs, last |-> last] \in Resp
  BY <1>1 DEF Req, Resp
<1>3. out' \in [Channels -> Seq(Resp)]
  <2>1. out[ele[w].chn] \in Seq(Resp)
    BY <1>1 DEF TypeOK
  <2>2. Append(out[ele[w].chn], [n |-> req[w].n, status |-> rs, last |-> last]) \in Seq(Resp)
    BY <1>2, <2>1, PushCells
  <2>3. QED
    BY <1>1, <2>2 DEF TypeOK, Send
<1>4. touched' \in [Channels -> Nat]
  BY <1>1 DEF TypeOK, Send
<1>5. \E s \in Statuses : status' = [status EXCEPT ![w] = s]
  BY DEF Send, Statuses
<1>6. QED
  BY <1>3, <1>4, <1>5

(* So does a worker, as long as its slots are counted.                      *)
LEMMA WorkerType ==
    ASSUME IInv, NEW w \in Workers, Worker(w) PROVE TypeOK'
<1> USE DEF IInv
<1>1. CASE CheckExit(w)
  BY <1>1 DEF TypeOK, CheckExit, Goto, serverVars, clientVars, history, Labels, Holding
<1>2. CASE QPoll(w)
  <2>1. CASE q = <<>>
    BY <1>2, <2>1 DEF TypeOK, QPoll, Goto, clientVars, history, Labels, Holding
  <2>2. CASE q # <<>>
    <3>1. Head(q) \in Ele /\ Tail(q) \in Seq(Ele)
      BY <2>2, PollCells DEF TypeOK
    <3>2. QED
      <4>1. /\ ele' = [ele EXCEPT ![w] = Head(q)] /\ pc' = [pc EXCEPT ![w] = "receive"]
            /\ pc[w] = "poll" /\ q' = Tail(q)
        BY <1>2, <2>2 DEF QPoll, Goto
      <4>2. /\ ele' \in [Workers -> Ele \cup {None}] /\ pc' \in [Workers -> Labels]
            /\ ele'[w] # None
        BY <3>1, <4>1, Inputs DEF TypeOK, Labels
      <4>3. UNCHANGED <<num_channels, id_counter, should_exit, req, status, main, chan,
                        inq, sent, broken, out, ret, clock, touched, notified>>
        BY <1>2 DEF QPoll, clientVars, history
      <4>4. \A x \in Workers : Agree(x)'
        BY <4>1, <4>2, <4>3 DEF TypeOK, Agree, Holding
      <4>5. QED
        BY <3>1, <4>1, <4>2, <4>3, <4>4 DEF TypeOK, Agree
  <2>3. QED
    BY <2>1, <2>2
<1>3. CASE Receive(w)
  <2>1. ele[w].chn \in Channels
    BY <1>3, Held DEF Receive, Holding
  <2>2. CASE inq[ele[w].chn] = <<>>
    <3> DEFINE s == IF broken[ele[w].chn] THEN "CHRPC_CLIENT_CHANNEL_ERROR"
                                          ELSE "CHRPC_CLIENT_CHANNEL_EMTPY"
    <3>1. /\ status' = [status EXCEPT ![w] = s] /\ pc' = [pc EXCEPT ![w] = "decide"]
          /\ pc[w] = "receive"
      BY <1>3, <2>2 DEF Receive, Goto
    <3>2. s \in Statuses /\ s # None
      BY Inputs DEF Statuses
    <3> HIDE DEF s
    <3>3. /\ status' \in [Workers -> Statuses \cup {None}] /\ pc' \in [Workers -> Labels]
          /\ status'[w] # None
      BY <3>1, <3>2 DEF TypeOK, Labels
    <3>4. UNCHANGED <<q, num_channels, id_counter, should_exit, ele, req, main, chan,
                      inq, sent, broken, out, ret, clock, touched, notified>>
      BY <1>3, <2>2 DEF Receive, serverVars, history
    <3>5. \A x \in Workers : Agree(x)'
      BY <3>1, <3>3, <3>4 DEF TypeOK, Agree, Holding
    <3> QED BY <3>3, <3>4, <3>5 DEF TypeOK, Agree
  <2>3. CASE inq[ele[w].chn] # <<>>
    <3>1. Head(inq[ele[w].chn]) \in Req /\ Tail(inq[ele[w].chn]) \in Seq(Req)
      BY <2>1, <2>3, PollCells DEF TypeOK
    <3>2. QED
      <4>1. /\ req' = [req EXCEPT ![w] = Head(inq[ele[w].chn])]
            /\ inq' = [inq EXCEPT ![ele[w].chn] = Tail(inq[ele[w].chn])]
            /\ pc' = [pc EXCEPT ![w] = "handle"] /\ pc[w] = "receive"
        BY <1>3, <2>3 DEF Receive, Goto
      <4>2. /\ req' \in [Workers -> Req \cup {None}] /\ pc' \in [Workers -> Labels]
            /\ req'[w] # None
        BY <3>1, <4>1, Inputs DEF TypeOK, Labels
      <4>3. inq' \in [Channels -> Seq(Req)]
        BY <2>1, <3>1, <4>1 DEF TypeOK
      <4>4. UNCHANGED <<q, num_channels, id_counter, should_exit, ele, status, main, chan,
                        sent, broken, out, ret, clock, touched, notified>>
        BY <1>3, <2>3 DEF Receive, serverVars, history
      <4>5. \A x \in Workers : Agree(x)'
        BY <4>1, <4>2, <4>4 DEF TypeOK, Agree, Holding
      <4>6. QED
        BY <4>2, <4>3, <4>4, <4>5 DEF TypeOK, Agree
  <2>4. QED
    BY <2>2, <2>3
<1>4. CASE HandleRequest(w)
  <2>1. CASE req[w].verdict = "CHRPC_SUCCESS"
    <3>1. /\ pc' = [pc EXCEPT ![w] = "calling"] /\ pc[w] = "handle"
          /\ UNCHANGED <<q, num_channels, id_counter, should_exit, ele, req, status, main, chan,
                         inq, sent, broken, out, ret, clock, touched, notified>>
      BY <1>4, <2>1 DEF HandleRequest, Goto, serverVars, clientVars
    <3>2. pc' \in [Workers -> Labels]
      BY <3>1 DEF TypeOK, Labels
    <3>3. \A x \in Workers : Agree(x)'
      BY <3>1, <3>2 DEF TypeOK, Agree, Holding
    <3> QED BY <3>1, <3>2, <3>3 DEF TypeOK, Agree
  <2>2. CASE req[w].verdict # "CHRPC_SUCCESS"
    <3>1. req[w].verdict \in Verdicts
      BY <1>4 DEF TypeOK, HandleRequest, Req
    <3>2. Send(w, req[w].verdict, FALSE, "CHRPC_SUCCESS") /\ pc[w] = "handle"
      BY <1>4, <2>2 DEF HandleRequest, SendErrorResponse
    <3>3. /\ out' \in [Channels -> Seq(Resp)] /\ touched' \in [Channels -> Nat]
          /\ \E s \in Statuses : status' = [status EXCEPT ![w] = s]
      BY <3>1, <3>2, SendType DEF Statuses
    <3>4. QED
      <4>1. PICK s \in Statuses : status' = [status EXCEPT ![w] = s]
        BY <3>3
      <4>2. /\ status' \in [Workers -> Statuses \cup {None}] /\ status'[w] # None
        BY <4>1, Inputs DEF TypeOK
      <4>3. req' = [req EXCEPT ![w] = None] /\ pc' = [pc EXCEPT ![w] = "decide"]
        BY <1>4, <2>2 DEF HandleRequest, Goto
      <4>4. UNCHANGED <<q, num_channels, id_counter, should_exit, ele, main, chan,
                        inq, sent, broken, ret, clock, notified>>
        BY <1>4 DEF HandleRequest, serverVars, clientVars
      <4>5. req' \in [Workers -> Req \cup {None}] /\ pc' \in [Workers -> Labels]
        BY <4>3 DEF TypeOK, Labels
      <4>6. \A x \in Workers : Agree(x)'
        BY <3>2, <4>1, <4>2, <4>3, <4>4 DEF TypeOK, Agree, Holding
      <4>7. QED
        BY <3>3, <4>2, <4>4, <4>5, <4>6 DEF TypeOK, Agree
  <2>3. QED
    BY <2>1, <2>2
<1>5. ASSUME NEW o \in Outcomes, SendResponse(w, o) PROVE TypeOK'
  <2>1. pc[w] = "calling"
    BY <1>5 DEF SendResponse
  <2>2. /\ out' \in [Channels -> Seq(Resp)] /\ touched' \in [Channels -> Nat]
        /\ \E s \in Statuses : status' = [status EXCEPT ![w] = s]
    <3>1. CASE o.ret = "wrong_type"
      BY <1>5, <3>1 DEF TypeOK, SendResponse, Statuses
    <3>2. CASE o.ret = "too_big"
      <4>1. Send(w, "CHRPC_BUFFER_TOO_SMALL", FALSE, "CHRPC_SUCCESS")
        BY <1>5, <3>2 DEF SendResponse, SendErrorResponse
      <4>2. QED
        BY <2>1, <4>1, SendType DEF Statuses
    <3>3. CASE o.ret = "fits"
      <4>1. \/ Send(w, "CHRPC_SUCCESS", TRUE, "CHRPC_DISCONNECT")
            \/ Send(w, "CHRPC_SUCCESS", FALSE, "CHRPC_SUCCESS")
        BY <1>5, <3>3 DEF SendResponse
      <4>2. QED
        BY <2>1, <4>1, SendType DEF Statuses
    <3>4. QED
      BY <1>5, <3>1, <3>2, <3>3 DEF SendResponse
  <2>3. PICK s \in Statuses : status' = [status EXCEPT ![w] = s]
    BY <2>2
  <2>4. req' = [req EXCEPT ![w] = None] /\ pc' = [pc EXCEPT ![w] = "decide"]
    BY <1>5 DEF SendResponse, Goto
  <2>5. /\ status' \in [Workers -> Statuses \cup {None}] /\ status'[w] # None
        /\ req' \in [Workers -> Req \cup {None}] /\ pc' \in [Workers -> Labels]
    BY <2>3, <2>4, Inputs DEF TypeOK, Labels
  <2>6. UNCHANGED <<q, num_channels, id_counter, should_exit, ele, main, chan,
                    inq, sent, broken, ret, clock, notified>>
    BY <1>5 DEF SendResponse, serverVars, clientVars
  <2>7. \A x \in Workers : Agree(x)'
    BY <2>1, <2>3, <2>4, <2>5, <2>6 DEF TypeOK, Agree, Holding
  <2>8. QED
    BY <2>2, <2>5, <2>6, <2>7 DEF TypeOK, Agree
<1>6. CASE Requeue(w)
  <2>1. [ele[w] EXCEPT !.since_last_req =
            IF status[w] = "CHRPC_SUCCESS" THEN clock ELSE @] \in Ele
    BY <1>6, Held DEF TypeOK, Requeue, Holding, Ele
  <2>2. q' \in Seq(Ele)
    BY <1>6, <2>1, PushType DEF Requeue
  <2>3. QED
    BY <1>6, <2>2 DEF TypeOK, Requeue, Goto, clientVars, history, Labels, Holding
<1>7. CASE DeleteChannel(w)
  <2>1. ele[w].chn \in Channels
    BY <1>7, Held DEF DeleteChannel, Holding
  <2>2. inq' \in [Channels -> Seq(Req)]
    BY <1>7, <2>1, EmptySeq DEF TypeOK, DeleteChannel, Destroy
  <2>3. QED
    BY <1>7, <2>1, <2>2 DEF TypeOK, DeleteChannel, Destroy, Goto, serverVars, history,
                            Labels, Holding
<1>8. CASE ReleaseSlot(w)
  <2>1. main \in {"running", "joining"}
    BY <1>8 DEF TypeOK, Stopped, ReleaseSlot
  <2>2. num_channels' \in 0..MaxConnections
    BY <1>8, <2>1, SlotTaken, ServerAttrs DEF ReleaseSlot
  <2>3. QED
    BY <1>8, <2>2 DEF TypeOK, ReleaseSlot, Goto, clientVars, history, Labels, Holding
<1>9. CASE OnDisconnect(w)
  <2>1. ele[w].id \in Nat
    BY <1>9, Held DEF OnDisconnect
  <2>2. QED
    BY <1>9, <2>1 DEF TypeOK, OnDisconnect, Goto, serverVars, clientVars, Labels, Holding
<1>10. QED
  BY <1>1, <1>2, <1>3, <1>4, <1>5, <1>6, <1>7, <1>8, <1>9 DEF Worker

(* So does the owner who deletes the server.                                *)
LEMMA DeleteServerType ==
    ASSUME TypeOK, DeleteServer PROVE TypeOK'
<1>1. CASE SetShouldExit
  BY <1>1 DEF TypeOK, SetShouldExit, workerVars, clientVars, history, Labels, Holding
<1>2. CASE JoinWorkers
  BY <1>2 DEF TypeOK, JoinWorkers, serverVars, workerVars, clientVars, history, Labels, Holding
<1>3. CASE DrainQueue
  <2>1. q # <<>>
    BY <1>3 DEF DrainQueue
  <2>2. Head(q) \in Ele /\ Tail(q) \in Seq(Ele)
    BY <2>1, PollCells DEF TypeOK
  <2>3. Head(q).chn \in Channels
    BY <2>2 DEF Ele
  <2>4. inq' \in [Channels -> Seq(Req)]
    BY <1>3, <2>3, EmptySeq DEF TypeOK, DrainQueue, Destroy
  <2>5. QED
    BY <1>3, <2>2, <2>3, <2>4 DEF TypeOK, DrainQueue, Destroy, workerVars, history,
                                  Labels, Holding
<1>4. CASE FreeServer
  BY <1>4 DEF TypeOK, FreeServer, serverVars, workerVars, clientVars, history, Labels, Holding
<1>5. QED
  BY <1>1, <1>2, <1>3, <1>4 DEF DeleteServer

(* Every step keeps the types.                                              *)
LEMMA NextType ==
    ASSUME IInv, [Next]_vars PROVE TypeOK'
<1> USE DEF IInv
<1>1. CASE Tick
  BY <1>1 DEF TypeOK, Tick, serverVars, workerVars, clientVars, history, Labels, Holding
<1>2. CASE UNCHANGED vars
  BY <1>2 DEF TypeOK, vars, serverVars, workerVars, clientVars, history, Labels, Holding
<1>3. QED
  BY <1>1, <1>2, ClientType, WorkerType, DeleteServerType DEF Next, Freed

-----------------------------------------------------------------------------
(* The queue never holds more channels than num_channels counts, and fewer  *)
(* while a worker holds one: there is always room to push it back.          *)
Queued == {q[i].chn : i \in DOMAIN q}

(* A cell of the queue holds an element with a channel.                     *)
LEMMA QueuedChannels ==
    ASSUME TypeOK PROVE \A i \in DOMAIN q : q[i] \in Ele /\ q[i].chn \in Channels
<1>1. \A i \in 1..Len(q) : q[i] \in Ele
  BY ElementOfSeq DEF TypeOK
<1>2. DOMAIN q = 1..Len(q)
  BY LenProperties DEF TypeOK
<1>3. QED
  BY <1>1, <1>2 DEF Ele

(* A queue of distinct channels has as many cells as channels.              *)
LEMMA QueueCount ==
    ASSUME TypeOK, SoleOwner
    PROVE  IsFiniteSet(Queued) /\ Cardinality(Queued) = Len(q)
<1> DEFINE f == [i \in 1..Len(q) |-> q[i].chn]
<1>1. Len(q) \in Nat /\ DOMAIN q = 1..Len(q)
  BY LenProperties DEF TypeOK
<1>2. f \in Bijection(1..Len(q), Queued)
  <2>1. f \in [1..Len(q) -> Queued]
    BY <1>1 DEF Queued
  <2>2. \A i, j \in 1..Len(q) : f[i] = f[j] => i = j
    BY <1>1 DEF SoleOwner
  <2>3. \A c \in Queued : \E i \in 1..Len(q) : f[i] = c
    BY <1>1 DEF Queued
  <2>4. QED
    BY <2>1, <2>2, <2>3, Fun_IsBij
<1>3. ExistsBijection(1..Len(q), Queued)
  BY <1>2, Fun_ExistsBij
<1>4. Cardinality(Queued) = Len(q)
  BY <1>1, <1>3, FS_CountingElements
<1>5. IsFiniteSet(Queued)
  BY <1>1, <1>3, FS_NatBijection
<1>6. QED
  BY <1>4, <1>5

(* The slots are among the channels, which are finitely many.               *)
LEMMA SlotsFinite ==
    ASSUME TypeOK PROVE Slots \subseteq Channels /\ IsFiniteSet(Slots)
<1>1. Slots \subseteq Channels
  BY Held DEF Slots
<1>2. QED
  BY <1>1, ServerAttrs, FS_Subset

LEMMA Room ==
    ASSUME TypeOK, SoleOwner, Accounting, main \in {"running", "joining"}
    PROVE  /\ Len(q) \in Nat /\ num_channels \in Nat
           /\ Len(q) <= num_channels
           /\ \A w \in Workers : pc[w] \in Holding => Len(q) < num_channels
<1>1. Len(q) \in Nat /\ num_channels \in Nat /\ DOMAIN q = 1..Len(q)
  BY LenProperties, ServerAttrs DEF TypeOK
<1>2. \A i \in DOMAIN q : q[i].chn \in Channels
  BY QueuedChannels
<1>3. Queued \subseteq Slots
  BY <1>2 DEF Queued, Slots, SoleOwner
<1>4. num_channels = Cardinality(Slots)
  BY DEF Accounting
<1>5. Len(q) <= num_channels
  BY <1>3, <1>4, SlotsFinite, QueueCount, FS_Subset
<1>8. Len(q) = num_channels => Queued = Slots
  BY <1>3, <1>4, SlotsFinite, QueueCount, FS_Subset
<1>9. Len(q) \in Nat /\ num_channels \in Nat
  BY <1>1
<1>6. ASSUME NEW w \in Workers, pc[w] \in Holding PROVE Len(q) < num_channels
  <2>1. ele[w].chn \in Channels
    BY <1>6, Held
  <2>2. ele[w].chn \in Slots /\ ele[w].chn \notin Queued
    BY <1>6, <2>1 DEF Slots, Queued, SoleOwner
  <2>3. Queued # Slots
    BY <2>2
  <2>4. Len(q) # num_channels
    BY <1>8, <2>3
  <2>5. QED
    BY <1>9, <1>5, <2>4
<1>7. QED
  BY <1>9, <1>5, <1>6

-----------------------------------------------------------------------------
Owners == SoleOwner /\ ReleasedOnce /\ Accounting /\ Stopped

(* Steps that move no channel keep the owners.                              *)
LEMMA Frame ==
    ASSUME Owners, UNCHANGED <<q, num_channels, main, chan>>,
           \A w \in Workers :
               /\ pc'[w] \in Holding <=> pc[w] \in Holding
               /\ pc'[w] = "release" <=> pc[w] = "release"
               /\ pc[w] = "done" => pc'[w] = "done"
               /\ pc[w] \in Holding \cup {"release"} => ele'[w] = ele[w]
    PROVE  Owners'
<1>1. SoleOwner'
  BY DEF Owners, SoleOwner, Holding
<1>2. ReleasedOnce'
  BY DEF Owners, ReleasedOnce
<1>3. Slots' = Slots
  BY DEF Slots
<1>4. Accounting' /\ Stopped'
  BY <1>3 DEF Owners, Accounting, Stopped
<1>5. QED
  BY <1>1, <1>2, <1>4 DEF Owners

(* chrpc_server_give_channel puts a new channel at the end of the queue.    *)
LEMMA AcceptOwners ==
    ASSUME TypeOK, Owners, NEW c \in Channels, main = "running", chan[c] = "caller",
           ~Full, Accept(c), UNCHANGED <<pc, ele, main>>
    PROVE  Owners'
<1> USE DEF Owners
<1>1. Len(q) # MaxConnections
  <2>1. Len(q) <= num_channels /\ num_channels \in Nat /\ Len(q) \in Nat
    BY Room
  <2>2. num_channels # MaxConnections /\ num_channels \in 0..MaxConnections
    BY DEF Full, TypeOK
  <2>3. QED
    BY <2>1, <2>2, ServerAttrs
<1> DEFINE e == [chn |-> c, id |-> id_counter, since_last_req |-> clock]
<1>2. e \in Ele /\ e.chn = c
  BY DEF TypeOK, Ele
<1>3. q' = Append(q, e) /\ q \in Seq(Ele) /\ Len(q) \in Nat
  BY <1>1, LenProperties DEF Accept, QPush, TypeOK
<1>4. /\ DOMAIN q = 1..Len(q) /\ DOMAIN q' = 1..(Len(q) + 1)
      /\ \A i \in 1..Len(q) : q'[i] = q[i]
      /\ q'[Len(q) + 1] = e
  BY <1>2, <1>3, PushCells
<1>5. /\ chan' = [chan EXCEPT ![c] = "server"]
      /\ chan \in [Channels -> {"caller", "server", "deleted"}]
      /\ num_channels' = num_channels + 1
  BY DEF Accept, TypeOK
<1>6. \A i \in DOMAIN q : q[i].chn # c
  <2>1. \A i \in DOMAIN q : q[i].chn \in Channels
    BY QueuedChannels
  <2>2. QED
    BY <2>1 DEF SoleOwner
<1>7. \A w \in Workers : pc[w] \in Holding \cup {"release"} => ele[w].chn # c
  BY Held DEF SoleOwner, ReleasedOnce
<1>8. SoleOwner'
  <2>1. \A i, j \in DOMAIN q' : q'[i].chn = q'[j].chn => i = j
    BY <1>2, <1>3, <1>4, <1>6 DEF SoleOwner
  <2>2. \A v, w \in Workers : pc'[v] \in Holding /\ pc'[w] \in Holding /\ v # w
                                => ele'[v].chn # ele'[w].chn
    BY DEF SoleOwner
  <2>3. \A i \in DOMAIN q', w \in Workers : pc'[w] \in Holding => q'[i].chn # ele'[w].chn
    BY <1>2, <1>3, <1>4, <1>7 DEF SoleOwner
  <2>4. \A d \in Channels : chan'[d] = "server" <=>
          \/ \E i \in DOMAIN q' : q'[i].chn = d
          \/ \E w \in Workers : pc'[w] \in Holding /\ ele'[w].chn = d
    <3>1. \A d \in Channels : (\E i \in DOMAIN q' : q'[i].chn = d)
                <=> d = c \/ (\E i \in DOMAIN q : q[i].chn = d)
      BY <1>2, <1>3, <1>4
    <3>2. \A d \in Channels : chan'[d] = "server" <=> d = c \/ chan[d] = "server"
      BY <1>5
    <3>3. QED
      BY <3>1, <3>2 DEF SoleOwner
  <2>5. QED
    BY <2>1, <2>2, <2>3, <2>4 DEF SoleOwner, Holding
<1>9. ReleasedOnce'
  BY <1>5, <1>7 DEF ReleasedOnce
<1>10. Accounting'
  <2>1. Slots' = Slots \cup {c}
    BY <1>5 DEF Slots
  <2>2. c \notin Slots
    BY <1>7 DEF Slots
  <2>3. Cardinality(Slots') = Cardinality(Slots) + 1
    BY <2>1, <2>2, SlotsFinite, FS_AddElement
  <2>4. QED
    BY <1>5, <2>3 DEF Accounting
<1>11. Stopped'
  BY DEF Stopped
<1>12. QED
  BY <1>8, <1>9, <1>10, <1>11

(* q_poll hands the head of the queue to the worker, and to nobody else.    *)
LEMMA PollOwners ==
    ASSUME TypeOK, Owners, NEW w \in Workers, QPoll(w), q # <<>>
    PROVE  Owners'
<1> USE DEF Owners
<1>1. /\ ele' = [ele EXCEPT ![w] = Head(q)] /\ pc' = [pc EXCEPT ![w] = "receive"]
      /\ pc[w] = "poll" /\ q' = Tail(q)
      /\ UNCHANGED <<num_channels, main, chan>>
      /\ pc \in [Workers -> Labels] /\ ele \in [Workers -> Ele \cup {None}]
      /\ q \in Seq(Ele)
  BY DEF QPoll, Goto, TypeOK
<1>2. /\ DOMAIN q = 1..Len(q) /\ DOMAIN q' = 1..(Len(q) - 1)
      /\ \A i \in 1..(Len(q) - 1) : q'[i] = q[i + 1]
      /\ Len(q) \in Nat /\ Len(q) > 0
  BY <1>1, PollCells
<1>3. Head(q) = q[1]
  BY <1>1, PollCells
<1>4. /\ ele'[w] = q[1] /\ pc'[w] = "receive"
      /\ \A v \in Workers : v # w => ele'[v] = ele[v] /\ pc'[v] = pc[v]
  BY <1>1, <1>3
<1>5. SoleOwner'
  <2>1. \A i, j \in DOMAIN q' : q'[i].chn = q'[j].chn => i = j
    BY <1>2 DEF SoleOwner
  <2>2. \A u, v \in Workers : pc'[u] \in Holding /\ pc'[v] \in Holding /\ u # v
                                => ele'[u].chn # ele'[v].chn
    BY <1>2, <1>4 DEF SoleOwner
  <2>3. \A i \in DOMAIN q', v \in Workers : pc'[v] \in Holding => q'[i].chn # ele'[v].chn
    BY <1>2, <1>4 DEF SoleOwner
  <2>4. ASSUME NEW d \in Channels
        PROVE  chan'[d] = "server" <=>
                  \/ \E i \in DOMAIN q' : q'[i].chn = d
                  \/ \E v \in Workers : pc'[v] \in Holding /\ ele'[v].chn = d
    <3>1. (\E i \in DOMAIN q : q[i].chn = d) <=>
             q[1].chn = d \/ (\E i \in DOMAIN q' : q'[i].chn = d)
      <4>1. ASSUME NEW i \in DOMAIN q, q[i].chn = d, i # 1
            PROVE  \E j \in DOMAIN q' : q'[j].chn = d
        <5>1. i - 1 \in DOMAIN q' /\ q'[i - 1] = q[i]
          BY <1>2, <4>1
        <5>2. QED
          BY <4>1, <5>1
      <4>2. 1 \in DOMAIN q /\ \A i \in DOMAIN q' : i + 1 \in DOMAIN q /\ q[i + 1] = q'[i]
        BY <1>2
      <4>3. QED
        BY <4>1, <4>2
    <3>2. (\E v \in Workers : pc'[v] \in Holding /\ ele'[v].chn = d) <=>
             q[1].chn = d \/ (\E v \in Workers : pc[v] \in Holding /\ ele[v].chn = d)
      BY <1>1, <1>4 DEF Holding
    <3>3. chan'[d] = chan[d]
      BY <1>1
    <3>4. QED
      BY <3>1, <3>2, <3>3 DEF SoleOwner
  <2>5. QED
    BY <2>1, <2>2, <2>3, <2>4 DEF SoleOwner, Holding
<1>6. ReleasedOnce'
  BY <1>1, <1>4 DEF ReleasedOnce
<1>7. Accounting'
  <2>1. Slots' = Slots
    BY <1>1, <1>4 DEF Slots
  <2>2. QED
    BY <1>1, <2>1 DEF Accounting
<1>8. Stopped'
  <2>1. main \notin {"draining", "freed"}
    BY <1>1 DEF Stopped
  <2>2. QED
    BY <1>1, <2>1 DEF Stopped
<1>9. QED
  BY <1>5, <1>6, <1>7, <1>8

(* q_push takes the channel back: there is room, so nothing is lost.        *)
LEMMA RequeueOwners ==
    ASSUME TypeOK, Owners, NEW w \in Workers, Requeue(w)
    PROVE  Owners'
<1> USE DEF Owners
<1> DEFINE e == [ele[w] EXCEPT !.since_last_req =
                    IF status[w] = "CHRPC_SUCCESS" THEN clock ELSE @]
<1>1. /\ ele' = [ele EXCEPT ![w] = None] /\ pc' = [pc EXCEPT ![w] = "check"]
      /\ pc[w] = "decide" /\ q' = QPush(e)
      /\ UNCHANGED <<num_channels, main, chan>>
      /\ pc \in [Workers -> Labels] /\ ele \in [Workers -> Ele \cup {None}]
      /\ q \in Seq(Ele)
  BY DEF Requeue, Goto, TypeOK
<1>2. main \in {"running", "joining"}
  BY <1>1 DEF Stopped, TypeOK
<1>3. pc[w] \in Holding
  BY <1>1 DEF Holding
<1>4. e \in Ele /\ e.chn = ele[w].chn
  BY <1>3, Held DEF Ele, TypeOK
<1> HIDE DEF e
<1>5. Len(q) # MaxConnections
  <2>1. Len(q) < num_channels /\ num_channels \in Nat /\ Len(q) \in Nat
    BY <1>2, <1>3, Room
  <2>2. num_channels \in 0..MaxConnections
    BY DEF TypeOK
  <2>3. QED
    BY <2>1, <2>2, ServerAttrs
<1>6. q' = Append(q, e)
  BY <1>1, <1>5 DEF QPush
<1>7. /\ DOMAIN q = 1..Len(q) /\ DOMAIN q' = 1..(Len(q) + 1)
      /\ \A i \in 1..Len(q) : q'[i] = q[i]
      /\ q'[Len(q) + 1] = e
      /\ Len(q) \in Nat
  BY <1>1, <1>4, <1>6, PushCells, LenProperties
<1>8. /\ pc'[w] = "check"
      /\ \A v \in Workers : v # w => ele'[v] = ele[v] /\ pc'[v] = pc[v]
  BY <1>1
<1>9. SoleOwner'
  <2>1. \A i, j \in DOMAIN q' : q'[i].chn = q'[j].chn => i = j
    BY <1>3, <1>4, <1>7 DEF SoleOwner
  <2>2. \A u, v \in Workers : pc'[u] \in Holding /\ pc'[v] \in Holding /\ u # v
                                => ele'[u].chn # ele'[v].chn
    BY <1>8 DEF SoleOwner, Holding
  <2>3. \A i \in DOMAIN q', v \in Workers : pc'[v] \in Holding => q'[i].chn # ele'[v].chn
    BY <1>3, <1>4, <1>7, <1>8 DEF SoleOwner, Holding
  <2>4. ASSUME NEW d \in Channels
        PROVE  chan'[d] = "server" <=>
                  \/ \E i \in DOMAIN q' : q'[i].chn = d
                  \/ \E v \in Workers : pc'[v] \in Holding /\ ele'[v].chn = d
    <3>1. (\E i \in DOMAIN q' : q'[i].chn = d) <=>
             ele[w].chn = d \/ (\E i \in DOMAIN q : q[i].chn = d)
      BY <1>4, <1>7
    <3>2. (\E v \in Workers : pc[v] \in Holding /\ ele[v].chn = d) <=>
             ele[w].chn = d \/ (\E v \in Workers : pc'[v] \in Holding /\ ele'[v].chn = d)
      BY <1>3, <1>8 DEF Holding
    <3>3. chan'[d] = chan[d]
      BY <1>1
    <3>4. QED
      BY <3>1, <3>2, <3>3 DEF SoleOwner
  <2>5. QED
    BY <2>1, <2>2, <2>3, <2>4 DEF SoleOwner, Holding
<1>10. ReleasedOnce'
  BY <1>1, <1>8 DEF ReleasedOnce
<1>11. Accounting'
  <2>1. Slots' = Slots
    BY <1>1, <1>8 DEF Slots
  <2>2. QED
    BY <1>1, <2>1 DEF Accounting
<1>12. Stopped'
  BY <1>1, <1>2 DEF Stopped
<1>13. QED
  BY <1>9, <1>10, <1>11, <1>12

(* delete_channel ends the life of a channel no one else can reach.         *)
LEMMA DeleteOwners ==
    ASSUME TypeOK, Owners, NEW w \in Workers, DeleteChannel(w)
    PROVE  Owners'
<1> USE DEF Owners
<1> DEFINE c == ele[w].chn
<1>1. /\ pc' = [pc EXCEPT ![w] = "release"] /\ chan' = [chan EXCEPT ![c] = "deleted"]
      /\ pc[w] = "decide"
      /\ UNCHANGED <<q, ele, num_channels, main>>
      /\ pc \in [Workers -> Labels] /\ chan \in [Channels -> {"caller", "server", "deleted"}]
  BY DEF DeleteChannel, Destroy, Goto, serverVars, TypeOK
<1>2. pc[w] \in Holding
  BY <1>1 DEF Holding
<1>3. c \in Channels /\ chan[c] = "server"
  BY <1>2, Held DEF SoleOwner
<1>4. \A v \in Workers : v # w => pc'[v] = pc[v] /\ ele'[v] = ele[v]
  BY <1>1
<1>5. /\ \A i \in DOMAIN q : q[i].chn # c
      /\ \A v \in Workers : v # w /\ pc[v] \in Holding \cup {"release"} => ele[v].chn # c
  BY <1>2, <1>3 DEF SoleOwner, ReleasedOnce
<1>6. SoleOwner'
  <2>1. /\ \A i, j \in DOMAIN q' : q'[i].chn = q'[j].chn => i = j
        /\ \A u, v \in Workers : pc'[u] \in Holding /\ pc'[v] \in Holding /\ u # v
                                => ele'[u].chn # ele'[v].chn
        /\ \A i \in DOMAIN q', v \in Workers : pc'[v] \in Holding => q'[i].chn # ele'[v].chn
    BY <1>1, <1>2, <1>4 DEF SoleOwner
  <2>2. ASSUME NEW d \in Channels
        PROVE  chan'[d] = "server" <=>
                  \/ \E i \in DOMAIN q' : q'[i].chn = d
                  \/ \E v \in Workers : pc'[v] \in Holding /\ ele'[v].chn = d
    <3>1. CASE d = c
      BY <1>1, <1>3, <1>4, <1>5, <3>1 DEF Holding
    <3>2. CASE d # c
      <4>1. chan'[d] = chan[d]
        BY <1>1, <3>2
      <4>2. (\E v \in Workers : pc'[v] \in Holding /\ ele'[v].chn = d) <=>
               (\E v \in Workers : pc[v] \in Holding /\ ele[v].chn = d)
        BY <1>1, <1>4, <3>2 DEF Holding
      <4>3. QED
        BY <1>1, <4>1, <4>2 DEF SoleOwner
    <3>3. QED
      BY <3>1, <3>2
  <2>3. QED
    BY <2>1, <2>2 DEF SoleOwner, Holding
<1>7. ReleasedOnce'
  BY <1>1, <1>3, <1>4, <1>5, Held DEF ReleasedOnce
<1>8. Accounting'
  <2>1. Slots' = Slots
    BY <1>1, <1>3, <1>4 DEF Slots
  <2>2. QED
    BY <1>1, <2>1 DEF Accounting
<1>9. Stopped'
  BY <1>1 DEF Stopped
<1>10. QED
  BY <1>6, <1>7, <1>8, <1>9

(* num_channels-- gives back the slot of exactly one channel.               *)
LEMMA ReleaseOwners ==
    ASSUME TypeOK, Owners, NEW w \in Workers, ReleaseSlot(w)
    PROVE  Owners'
<1> USE DEF Owners
<1> DEFINE c == ele[w].chn
<1>1. /\ pc' = [pc EXCEPT ![w] = "notify"] /\ pc[w] = "release"
      /\ num_channels' = num_channels - 1
      /\ UNCHANGED <<q, ele, chan, main>>
      /\ pc \in [Workers -> Labels]
  BY DEF ReleaseSlot, Goto, TypeOK
<1>2. \A v \in Workers : v # w => pc'[v] = pc[v]
  BY <1>1
<1>3. SoleOwner' /\ ReleasedOnce' /\ Stopped'
  BY <1>1, <1>2 DEF SoleOwner, ReleasedOnce, Stopped, Holding
<1>4. Accounting'
  <2>1. c \in Slots
    BY <1>1 DEF Slots
  <2>2. Slots' = Slots \ {c}
    <3>1. \A d \in Channels : chan[d] = "server" => d # c
      BY <1>1 DEF ReleasedOnce
    <3>2. \A v \in Workers : pc[v] = "release" /\ v # w => ele[v].chn # c
      BY <1>1 DEF ReleasedOnce
    <3>3. QED
      BY <1>1, <1>2, <3>1, <3>2 DEF Slots
  <2>3. Cardinality(Slots') = Cardinality(Slots) - 1
    BY <2>1, <2>2, SlotsFinite, FS_RemoveElement
  <2>4. QED
    BY <1>1, <2>3 DEF Accounting
<1>5. QED
  BY <1>3, <1>4

(* The drain of delete_chrpc_server takes the channels out one by one.      *)
LEMMA DrainOwners ==
    ASSUME TypeOK, Owners, DrainQueue
    PROVE  Owners'
<1> USE DEF Owners
<1> DEFINE c == Head(q).chn
<1>1. /\ main = "draining" /\ q # <<>> /\ q' = Tail(q) /\ q \in Seq(Ele)
      /\ chan' = [chan EXCEPT ![c] = "deleted"]
      /\ chan \in [Channels -> {"caller", "server", "deleted"}]
      /\ UNCHANGED <<num_channels, ele, pc, main>>
  BY DEF DrainQueue, Destroy, workerVars, TypeOK
<1>2. /\ DOMAIN q = 1..Len(q) /\ DOMAIN q' = 1..(Len(q) - 1)
      /\ \A i \in 1..(Len(q) - 1) : q'[i] = q[i + 1]
      /\ Len(q) \in Nat /\ Len(q) > 0
  BY <1>1, PollCells
<1>3. c = q[1].chn /\ c \in Channels
  BY <1>1, PollCells, QueuedChannels
<1>4. \A v \in Workers : pc[v] = "done"
  BY <1>1 DEF Stopped
<1>5. SoleOwner'
  <2>1. \A i, j \in DOMAIN q' : q'[i].chn = q'[j].chn => i = j
    BY <1>2 DEF SoleOwner
  <2>2. \A d \in Channels : chan'[d] = "server" <=> \E i \in DOMAIN q' : q'[i].chn = d
    <3>1. \A d \in Channels : chan[d] = "server" <=> \E i \in DOMAIN q : q[i].chn = d
      BY <1>4 DEF SoleOwner, Holding
    <3>2. \A i \in DOMAIN q : q[i].chn = c => i = 1
      BY <1>2, <1>3 DEF SoleOwner
    <3>3. \A i \in DOMAIN q : i # 1 => i - 1 \in DOMAIN q' /\ q'[i - 1] = q[i]
      BY <1>2
    <3>4. \A i \in DOMAIN q' : i + 1 \in DOMAIN q /\ i + 1 # 1 /\ q[i + 1] = q'[i]
      BY <1>2
    <3>5. ASSUME NEW d \in Channels, chan'[d] = "server"
          PROVE  \E i \in DOMAIN q' : q'[i].chn = d
      <4>1. d # c /\ chan[d] = "server"
        BY <1>1, <1>3, <3>5
      <4>2. PICK i \in DOMAIN q : q[i].chn = d
        BY <3>1, <4>1
      <4>3. i # 1
        BY <1>3, <4>1, <4>2
      <4>4. QED
        BY <3>3, <4>2, <4>3
    <3>6. ASSUME NEW d \in Channels, NEW i \in DOMAIN q', q'[i].chn = d
          PROVE  chan'[d] = "server"
      <4>1. q[i + 1].chn = d /\ i + 1 \in DOMAIN q /\ i + 1 # 1
        BY <3>4, <3>6
      <4>2. d # c /\ chan[d] = "server"
        BY <3>1, <3>2, <4>1
      <4>3. QED
        BY <1>1, <4>2
    <3>7. QED
      BY <3>5, <3>6
  <2>3. \A v \in Workers : pc'[v] \notin Holding
    BY <1>1, <1>4 DEF Holding
  <2>4. QED
    BY <2>1, <2>2, <2>3 DEF SoleOwner, Holding
<1>6. ReleasedOnce' /\ Accounting' /\ Stopped'
  BY <1>1, <1>4 DEF ReleasedOnce, Accounting, Stopped
<1>7. QED
  BY <1>5, <1>6

(* No channel is owned before the first is given.                           *)
LEMMA InitOwners == Init => Owners
<1> SUFFICES ASSUME Init PROVE Owners
  OBVIOUS
<1>1. /\ q = <<>> /\ num_channels = 0 /\ main = "running"
      /\ \A w \in Workers : pc[w] = "check"
      /\ \A c \in Channels : chan[c] = "caller"
  BY DEF Init
<1>2. DOMAIN q = {}
  BY <1>1
<1>3. SoleOwner /\ ReleasedOnce /\ Stopped
  BY <1>1, <1>2 DEF SoleOwner, ReleasedOnce, Stopped, Holding
<1>4. Slots = {}
  BY <1>1 DEF Slots
<1>5. Accounting
  BY <1>1, <1>4, FS_EmptySet DEF Accounting
<1>6. QED
  BY <1>3, <1>5 DEF Owners

(* A client's step gives a channel to the server or moves none.             *)
LEMMA ClientOwners ==
    ASSUME TypeOK, Owners, Client
    PROVE  Owners'
<1>1. ASSUME NEW c \in Channels, NEW mms \in MsgSizes, GiveChannel(c, mms) PROVE Owners'
  <2>1. CASE Refuse(c, "CHRPC_BUFFER_TOO_SMALL") \/ Refuse(c, "CHRPC_SERVER_FULL")
    BY <1>1, <2>1, Frame DEF GiveChannel, Refuse, serverVars, workerVars
  <2>2. CASE ~Full /\ Accept(c)
    BY <1>1, <2>2, AcceptOwners DEF GiveChannel, workerVars
  <2>3. QED
    BY <1>1, <2>1, <2>2 DEF GiveChannel
<1>2. ASSUME NEW c \in Channels, NEW v \in Verdicts, ClientSend(c, v) PROVE Owners'
  BY <1>2, Frame DEF ClientSend, serverVars, workerVars
<1>3. ASSUME NEW c \in Channels, ChannelFault(c) PROVE Owners'
  BY <1>3, Frame DEF ChannelFault, serverVars, workerVars
<1>4. QED
  BY <1>1, <1>2, <1>3 DEF Client

(* While it has no part in the queue, a worker only moves itself.           *)
LEMMA StepOwners ==
    ASSUME TypeOK, Owners, NEW w \in Workers, NEW label \in Labels,
           UNCHANGED <<q, num_channels, main, chan>>, Goto(w, label),
           pc[w] \in Holding <=> label \in Holding,
           pc[w] \notin {"release", "done"}, label # "release",
           pc[w] \in Holding => ele' = ele,
           \A v \in Workers : v # w => ele'[v] = ele[v]
    PROVE  Owners'
<1>1. pc'[w] = label /\ \A v \in Workers : v # w => pc'[v] = pc[v]
  BY DEF Goto, TypeOK
<1>2. QED
  BY <1>1, Frame

(* Every step of a worker keeps the owners.                                 *)
LEMMA WorkerOwners ==
    ASSUME TypeOK, Owners, NEW w \in Workers, Worker(w)
    PROVE  Owners'
<1>1. CASE CheckExit(w)
  <2>1. \E label \in {"done", "poll"} : Goto(w, label)
    BY <1>1 DEF CheckExit
  <2>2. QED
    BY <1>1, <2>1, StepOwners DEF CheckExit, serverVars, Labels, Holding
<1>2. CASE QPoll(w)
  BY <1>2, PollOwners, StepOwners DEF QPoll, Labels, Holding
<1>3. CASE Receive(w)
  <2>1. \E label \in {"handle", "decide"} : Goto(w, label)
    BY <1>3 DEF Receive
  <2>2. QED
    BY <1>3, <2>1, StepOwners DEF Receive, serverVars, Labels, Holding
<1>4. CASE HandleRequest(w)
  <2>1. \E label \in {"calling", "decide"} : Goto(w, label)
    BY <1>4 DEF HandleRequest
  <2>2. QED
    BY <1>4, <2>1, StepOwners DEF HandleRequest, serverVars, Labels, Holding
<1>5. ASSUME NEW o \in Outcomes, SendResponse(w, o) PROVE Owners'
  BY <1>5, StepOwners DEF SendResponse, serverVars, Labels, Holding
<1>6. CASE Requeue(w)
  BY <1>6, RequeueOwners
<1>7. CASE DeleteChannel(w)
  BY <1>7, DeleteOwners
<1>8. CASE ReleaseSlot(w)
  BY <1>8, ReleaseOwners
<1>9. CASE OnDisconnect(w)
  BY <1>9, StepOwners DEF OnDisconnect, TypeOK, serverVars, Labels, Holding
<1>10. QED
  BY <1>1, <1>2, <1>3, <1>4, <1>5, <1>6, <1>7, <1>8, <1>9 DEF Worker

(* delete_chrpc_server touches the queue only once every worker is gone.    *)
LEMMA DeleteServerOwners ==
    ASSUME TypeOK, Owners, DeleteServer
    PROVE  Owners'
<1> USE DEF Owners
<1>1. ASSUME UNCHANGED <<q, num_channels, chan, pc, ele>>
      PROVE  SoleOwner' /\ ReleasedOnce' /\ Slots' = Slots
  BY <1>1 DEF SoleOwner, ReleasedOnce, Slots, Holding
<1>2. CASE SetShouldExit
  BY <1>1, <1>2 DEF SetShouldExit, workerVars, Accounting, Stopped
<1>3. CASE JoinWorkers
  BY <1>1, <1>3 DEF JoinWorkers, serverVars, workerVars, Accounting, Stopped
<1>4. CASE DrainQueue
  BY <1>4, DrainOwners
<1>5. CASE FreeServer
  BY <1>1, <1>5 DEF FreeServer, serverVars, workerVars, Accounting, Stopped
<1>6. QED
  BY <1>2, <1>3, <1>4, <1>5 DEF DeleteServer

(* Every step keeps the owners.                                             *)
LEMMA NextOwners ==
    ASSUME TypeOK, Owners, [Next]_vars
    PROVE  Owners'
<1>1. CASE Tick
  BY <1>1, Frame DEF Tick, serverVars, workerVars
<1>2. CASE UNCHANGED vars
  BY <1>2, Frame DEF vars, serverVars, workerVars
<1>3. QED
  BY <1>1, <1>2, ClientOwners, WorkerOwners, DeleteServerOwners DEF Next, Freed

-----------------------------------------------------------------------------
(* Whatever the clients, the endpoints and the scheduler do, the types of   *)
(* the fields, the ownership of the channels, the count of the slots and    *)
(* the order of the shutdown (rpc_server.c:421-635) are kept by every step. *)
THEOREM InductiveInvariant == Spec => []IInv
<1>1. Init => IInv
  BY InitType, InitOwners DEF IInv, Owners
<1>2. IInv /\ [Next]_vars => IInv'
  BY NextType, NextOwners DEF IInv, Owners
<1>3. QED
  BY <1>1, <1>2, PTL DEF Spec

(* Every field of the server and every local of its workers keeps its type: *)
(* num_channels-- never wraps and id_counter++ never passes UINT64_MAX      *)
(* (rpc_server.c:492, 616-623).                                             *)
THEOREM TypeCorrect == Spec => []TypeOK
  BY InductiveInvariant, PTL DEF IInv

(* At most one worker, or one cell of the queue, has a channel at any time, *)
(* and no channel the server owns is out of reach (rpc_server.c:446-501).   *)
THEOREM OneOwner == Spec => []SoleOwner
  BY InductiveInvariant, PTL DEF IInv

(* num_channels is exact until the server is being freed, although workers  *)
(* decrement it some time after they deleted the channel                    *)
(* (rpc_server.c:489-493).                                                  *)
THEOREM SlotsCounted == Spec => []Accounting
  BY InductiveInvariant, PTL DEF IInv

(* The unchecked q_push of rpc_server.c:500 and 627 never fails.            *)
THEOREM PushSucceeds == Spec => []PushHasRoom
<1>1. ASSUME IInv PROVE PushHasRoom
  <2>1. num_channels \in 0..MaxConnections /\ MaxConnections \in Nat
    BY <1>1, ServerAttrs DEF IInv, TypeOK
  <2>2. ASSUME NEW w \in Workers, pc[w] = "decide" PROVE Len(q) < MaxConnections
    <3>1. main \in {"running", "joining"}
      BY <1>1, <2>2 DEF IInv, TypeOK, Stopped
    <3>2. Len(q) \in Nat /\ num_channels \in Nat /\ Len(q) < num_channels
      BY <1>1, <2>2, <3>1, Room DEF IInv, Holding
    <3>3. QED
      BY <2>1, <3>2
  <2>3. ASSUME main = "running", ~Full PROVE Len(q) < MaxConnections
    <3>1. Len(q) \in Nat /\ num_channels \in Nat /\ Len(q) <= num_channels
      BY <1>1, <2>3, Room DEF IInv
    <3>2. num_channels # MaxConnections
      BY <2>3 DEF Full
    <3>3. QED
      BY <2>1, <3>1, <3>2
  <2>4. QED
    BY <2>2, <2>3 DEF PushHasRoom
<1>2. QED
  BY <1>1, InductiveInvariant, PTL

(* delete_chrpc_server (rpc_server.c:561-593) destroys the queue only after *)
(* the last worker returned, and no channel the server owned survives it.   *)
THEOREM ShutdownComplete == Spec => []DeletesEverything
<1>1. ASSUME IInv PROVE DeletesEverything
  <2>1. ASSUME main = "freed", NEW c \in Channels PROVE chan[c] # "server"
    <3>1. q = <<>> /\ \A w \in Workers : pc[w] = "done"
      BY <1>1, <2>1 DEF IInv, Stopped
    <3>2. DOMAIN q = {}
      BY <3>1
    <3>3. QED
      BY <1>1, <3>1, <3>2 DEF IInv, SoleOwner, Holding
  <2>2. QED
    BY <1>1, <2>1 DEF IInv, Stopped, DeletesEverything
<1>2. QED
  BY <1>1, InductiveInvariant, PTL

-----------------------------------------------------------------------------
(* The ids.  Those reported so far are below the counter too.               *)
IdInv == IdsFresh /\ \A i \in notified : i < id_counter

LEMMA InitIds == Init => IdInv
<1> SUFFICES ASSUME Init PROVE IdInv
  OBVIOUS
<1>1. DOMAIN q = {} /\ Using = {}
  BY DEF Init, Using
<1>2. QED
  BY <1>1 DEF Init, IdInv, IdsFresh

LEMMA FrameIds ==
    ASSUME IdInv, UNCHANGED <<q, ele, id_counter, notified>>
    PROVE  IdInv'
  BY DEF IdInv, IdsFresh, Using

(* q_push of an element whose id is in use nowhere else.                    *)
LEMMA PushIds ==
    ASSUME TypeOK, IdInv, NEW e \in Ele, q' = QPush(e), notified' = notified,
           id_counter' \in Nat, id_counter <= id_counter', e.id < id_counter',
           e.id \notin notified,
           \A i \in DOMAIN q : q[i].id # e.id,
           \A w \in Workers : ele'[w] # None =>
              ele'[w] = ele[w] /\ ele[w].id # e.id
    PROVE  IdInv'
<1>1. /\ q \in Seq(Ele) /\ id_counter \in Nat /\ notified \subseteq Nat
      /\ \A i \in DOMAIN q : q[i].id \in Nat
      /\ \A w \in Using : ele[w].id \in Nat
  <2>1. /\ q \in Seq(Ele) /\ id_counter \in Nat /\ notified \subseteq Nat
        /\ ele \in [Workers -> Ele \cup {None}]
    BY ServerAttrs DEF TypeOK
  <2>2. (\A i \in DOMAIN q : q[i] \in Ele) /\ (\A w \in Using : ele[w] \in Ele)
    BY <2>1 DEF Using
  <2>3. QED
    BY <2>1, <2>2 DEF Ele
<1>2. Using' \subseteq Using /\ \A w \in Using' : ele'[w] = ele[w] /\ ele[w].id # e.id
  BY DEF Using
<1>3. e.id \in Nat
  BY DEF Ele
<1>4. CASE q' = q
  BY <1>1, <1>2, <1>4 DEF IdInv, IdsFresh
<1>5. CASE q' = Append(q, e)
  <2>1. /\ Len(q) \in Nat /\ DOMAIN q = 1..Len(q) /\ DOMAIN q' = 1..(Len(q) + 1)
        /\ \A i \in 1..Len(q) : q'[i] = q[i]
        /\ q'[Len(q) + 1] = e
    BY <1>1, <1>5, PushCells, LenProperties
  <2>2. \A i \in DOMAIN q' : \/ i \in DOMAIN q /\ q'[i] = q[i]
                             \/ i = Len(q) + 1 /\ i \notin DOMAIN q /\ q'[i] = e
    BY <2>1
  <2>3. \A i \in DOMAIN q' : q'[i].id < id_counter' /\ q'[i].id \notin notified'
    BY <2>2, <1>1, <1>3 DEF IdInv, IdsFresh
  <2>4. \A i, j \in DOMAIN q' : i # j => q'[i].id # q'[j].id
    BY <2>2 DEF IdInv, IdsFresh
  <2>5. /\ \A w \in Using' : ele'[w].id < id_counter' /\ ele'[w].id \notin notified'
        /\ \A v, w \in Using' : v # w => ele'[v].id # ele'[w].id
        /\ \A i \in notified' : i < id_counter'
    BY <1>1, <1>2 DEF IdInv, IdsFresh
  <2>6. \A i \in DOMAIN q', w \in Using' : q'[i].id # ele'[w].id
    BY <2>2, <1>2 DEF IdInv, IdsFresh
  <2>7. QED
    BY <2>3, <2>4, <2>5, <2>6 DEF IdInv, IdsFresh
<1>6. QED
  BY <1>4, <1>5 DEF QPush

(* q_poll hands the id over to one worker, or to nobody.                    *)
LEMMA PollIds ==
    ASSUME TypeOK, IdInv, q # <<>>, q' = Tail(q), UNCHANGED <<id_counter, notified>>,
           \A w \in Workers : ele'[w] # ele[w] =>
              /\ ele'[w] = Head(q) /\ ele[w] = None
              /\ \A v \in Workers : v # w => ele'[v] = ele[v]
    PROVE  IdInv'
<1>1. /\ DOMAIN q' = 1..(Len(q) - 1) /\ DOMAIN q = 1..Len(q) /\ Len(q) \in Nat /\ Len(q) > 0
      /\ \A i \in DOMAIN q' : q'[i] = q[i + 1]
      /\ Head(q) = q[1]
  BY PollCells DEF TypeOK
<1>2. \A i \in DOMAIN q' : i + 1 \in DOMAIN q /\ i + 1 # 1 /\ q'[i] = q[i + 1]
  BY <1>1
<1>3. 1 \in DOMAIN q
  BY <1>1
<1>4. \A w \in Using' : \/ w \in Using /\ ele'[w] = ele[w]
                        \/ w \notin Using /\ ele'[w] = q[1]
                           /\ \A v \in Using' : v # w => v \in Using /\ ele'[v] = ele[v]
  BY <1>1 DEF Using
<1>5. \A i, j \in DOMAIN q' : i # j => q'[i].id # q'[j].id
  <2> SUFFICES ASSUME NEW i \in DOMAIN q', NEW j \in DOMAIN q', i # j
               PROVE  q'[i].id # q'[j].id
    OBVIOUS
  <2>1. i + 1 # j + 1
    BY <1>1
  <2>2. QED
    BY <2>1, <1>2 DEF IdInv, IdsFresh
<1>6. /\ \A i \in DOMAIN q' : q'[i].id < id_counter /\ q'[i].id \notin notified
      /\ \A w \in Using' : ele'[w].id < id_counter /\ ele'[w].id \notin notified
  BY <1>2, <1>3, <1>4 DEF IdInv, IdsFresh
<1>7. \A v, w \in Using' : v # w => ele'[v].id # ele'[w].id
  BY <1>3, <1>4 DEF IdInv, IdsFresh
<1>8. \A i \in DOMAIN q', w \in Using' : q'[i].id # ele'[w].id
  BY <1>2, <1>3, <1>4 DEF IdInv, IdsFresh
<1>9. QED
  BY <1>5, <1>6, <1>7, <1>8 DEF IdInv, IdsFresh

(* on_disconnect reports an id and forgets it.                              *)
LEMMA ReportIds ==
    ASSUME TypeOK, IdInv, NEW w \in Workers, OnDisconnect(w)
    PROVE  IdInv'
<1>1. /\ w \in Using /\ UNCHANGED <<q, id_counter>>
      /\ notified' = notified \cup {ele[w].id}
      /\ Using' \subseteq Using \ {w} /\ \A v \in Using' : ele'[v] = ele[v]
  BY DEF OnDisconnect, TypeOK, Using, serverVars
<1>2. QED
  BY <1>1 DEF IdInv, IdsFresh

LEMMA WorkerIds ==
    ASSUME TypeOK, IdInv, NEW w \in Workers, Worker(w)
    PROVE  IdInv'
<1>1. CASE CheckExit(w)
  BY <1>1, FrameIds DEF CheckExit, serverVars, history
<1>2. CASE QPoll(w)
  <2>1. CASE q = <<>>
    BY <1>2, <2>1, FrameIds DEF QPoll, history
  <2>2. CASE q # <<>>
    <3>1. ele[w] = None /\ ele' = [ele EXCEPT ![w] = Head(q)] /\ ele \in [Workers -> Ele \cup {None}]
      BY <1>2, <2>2 DEF QPoll, TypeOK, Holding
    <3>2. QED
      BY <1>2, <2>2, <3>1, PollIds DEF QPoll, history
  <2>3. QED
    BY <2>1, <2>2
<1>3. CASE Receive(w)
  BY <1>3, FrameIds DEF Receive, serverVars, history
<1>4. CASE HandleRequest(w)
  BY <1>4, FrameIds DEF HandleRequest, serverVars
<1>5. ASSUME NEW o \in Outcomes, SendResponse(w, o) PROVE IdInv'
  BY <1>5, FrameIds DEF SendResponse, serverVars
<1>6. CASE Requeue(w)
  <2> DEFINE e == [ele[w] EXCEPT !.since_last_req =
                     IF status[w] = "CHRPC_SUCCESS" THEN clock ELSE @]
  <2>1. /\ ele[w] \in Ele /\ ele[w] # None /\ w \in Using /\ clock \in Nat
        /\ ele \in [Workers -> Ele \cup {None}]
    BY <1>6 DEF Requeue, TypeOK, Using, Holding
  <2>2. e \in Ele /\ e.id = ele[w].id
    BY <2>1 DEF Ele
  <2>3. /\ q' = QPush(e) /\ UNCHANGED <<id_counter, notified>>
        /\ ele' = [ele EXCEPT ![w] = None]
    BY <1>6 DEF Requeue, history
  <2>4. /\ id_counter \in Nat /\ e.id < id_counter /\ e.id \notin notified
        /\ \A i \in DOMAIN q : q[i].id # e.id
    BY <2>1, <2>2 DEF IdInv, IdsFresh, TypeOK
  <2>5. \A v \in Workers : ele'[v] # None => ele'[v] = ele[v] /\ ele[v].id # e.id
    BY <2>1, <2>2, <2>3 DEF IdInv, IdsFresh, Using
  <2> HIDE DEF e
  <2>6. QED
    BY <2>2, <2>3, <2>4, <2>5, PushIds
<1>7. CASE DeleteChannel(w)
  BY <1>7, FrameIds DEF DeleteChannel, serverVars, history
<1>8. CASE ReleaseSlot(w)
  BY <1>8, FrameIds DEF ReleaseSlot, history
<1>9. CASE OnDisconnect(w)
  BY <1>9, ReportIds
<1>10. QED
  BY <1>1, <1>2, <1>3, <1>4, <1>5, <1>6, <1>7, <1>8, <1>9 DEF Worker

LEMMA GiveIds ==
    ASSUME TypeOK, IdInv, NEW c \in Channels, NEW mms \in MsgSizes, GiveChannel(c, mms)
    PROVE  IdInv'
<1>1. CASE Accept(c)
  <2> DEFINE e == [chn |-> c, id |-> id_counter, since_last_req |-> clock]
  <2>1. id_counter \in Nat /\ clock \in Nat
    BY DEF TypeOK
  <2>2. e \in Ele /\ e.id = id_counter
    BY <2>1 DEF Ele
  <2>3. /\ q' = QPush(e) /\ id_counter' = id_counter + 1
        /\ UNCHANGED <<ele, notified>>
    BY <1>1 DEF Accept, GiveChannel, workerVars
  <2>4. /\ e.id \notin notified
        /\ \A i \in DOMAIN q : q[i].id # e.id
        /\ \A v \in Workers : ele[v] # None => ele[v].id # e.id
    BY <2>1, <2>2 DEF IdInv, IdsFresh, Using
  <2> HIDE DEF e
  <2>5. QED
    BY <2>1, <2>2, <2>3, <2>4, PushIds
<1>2. CASE ~Accept(c)
  BY <1>2, FrameIds DEF GiveChannel, Refuse, serverVars, workerVars
<1>3. QED
  BY <1>1, <1>2

(* Every step keeps the ids apart.                                          *)
LEMMA NextIds ==
    ASSUME TypeOK, IdInv, [Next]_vars
    PROVE  IdInv'
<1>1. ASSUME NEW c \in Channels, NEW v \in Verdicts, ClientSend(c, v) PROVE IdInv'
  BY <1>1, FrameIds DEF ClientSend, serverVars, workerVars, history
<1>2. ASSUME NEW c \in Channels, ChannelFault(c) PROVE IdInv'
  BY <1>2, FrameIds DEF ChannelFault, serverVars, workerVars, history
<1>3. CASE Client
  BY <1>1, <1>2, <1>3, GiveIds DEF Client
<1>4. CASE Tick
  BY <1>4, FrameIds DEF Tick, serverVars, workerVars, history
<1>5. CASE SetShouldExit
  BY <1>5, FrameIds DEF SetShouldExit, workerVars, history
<1>6. CASE JoinWorkers
  BY <1>6, FrameIds DEF JoinWorkers, serverVars, workerVars, history
<1>7. CASE DrainQueue
  BY <1>7, PollIds DEF DrainQueue, workerVars, history
<1>8. CASE FreeServer
  BY <1>8, FrameIds DEF FreeServer, serverVars, workerVars, history
<1>9. CASE UNCHANGED vars
  BY <1>9, FrameIds DEF vars, serverVars, workerVars, history
<1>10. QED
  BY <1>3, <1>4, <1>5, <1>6, <1>7, <1>8, <1>9, WorkerIds DEF Next, Freed, DeleteServer

(* An endpoint never runs under an id that another connection has or that   *)
(* on_disconnect has already been told about, and on_disconnect is told of  *)
(* an id once (rpc_server.c:276, 496, 623).                                 *)
THEOREM IdsStayFresh == Spec => []IdsFresh
<1>1. Init => IdInv
  BY InitIds
<1>2. TypeOK /\ IdInv /\ [Next]_vars => IdInv'
  BY NextIds
<1>3. IdInv => IdsFresh
  BY DEF IdInv
<1>4. QED
  BY <1>1, <1>2, <1>3, TypeCorrect, PTL DEF Spec

-----------------------------------------------------------------------------
(* The order of the answers.                                                *)
-----------------------------------------------------------------------------

(* A worker that took a request off channel c and has not answered it, or   *)
(* could not.                                                               *)
Behind(w, c) ==
    /\ ele[w] # None /\ ele[w].chn = c
    /\ \/ pc[w] \in {"handle", "calling"}
       \/ pc[w] = "decide" /\ status[w] \notin {"CHRPC_SUCCESS", "CHRPC_CLIENT_CHANNEL_EMTPY"}

Order(c) ==
    /\ chan[c] # "deleted" => \A i \in 1..Len(inq[c]) : inq[c][i].n = Received(c) + i
    /\ \A i \in 1..Len(out[c]) : out[c][i].n = i
    /\ Len(out[c]) <= Received(c)
    /\ chan[c] # "deleted" /\ Received(c) # Len(out[c])
          => Received(c) = Len(out[c]) + 1 /\ \E w \in Workers : Behind(w, c)

(* The request a worker holds is the next one to answer.                    *)
Serving(w) == pc[w] \in {"handle", "calling"} =>
    LET c == ele[w].chn IN req[w].n = Received(c) /\ Received(c) = Len(out[c]) + 1

OrdInv == (\A c \in Channels : Order(c)) /\ (\A w \in Workers : Serving(w))

-----------------------------------------------------------------------------
LEMMA ChannelTypes ==
    ASSUME TypeOK, NEW c \in Channels
    PROVE  /\ inq[c] \in Seq(Req) /\ out[c] \in Seq(Resp) /\ sent[c] \in Nat
           /\ Len(inq[c]) \in Nat /\ Len(out[c]) \in Nat /\ Received(c) \in Int
  BY DEF TypeOK, Received

(* A worker between q_poll and q_push or delete_channel.                    *)
LEMMA HeldChannel ==
    ASSUME TypeOK, SoleOwner, NEW w \in Workers, pc[w] \in Holding
    PROVE  /\ ele[w] \in Ele /\ ele[w] # None /\ ele[w].chn \in Channels
           /\ chan[ele[w].chn] = "server"
           /\ \A v \in Workers : v # w /\ pc[v] \in Holding => ele[v].chn # ele[w].chn
<1>1. ele[w] # None /\ ele[w] \in Ele
  BY DEF TypeOK
<1>2. ele[w].chn \in Channels
  BY <1>1 DEF Ele
<1> QED BY <1>1, <1>2 DEF SoleOwner

LEMMA InitOrder == Init => OrdInv
<1> SUFFICES ASSUME Init PROVE OrdInv
  OBVIOUS
<1>1. ASSUME NEW c \in Channels PROVE Order(c)
  <2>1. inq[c] = <<>> /\ out[c] = <<>> /\ sent[c] = 0
    BY DEF Init
  <2>2. Len(inq[c]) = 0 /\ Len(out[c]) = 0
    <3>1. Len(<<>>) = 0
      OBVIOUS
    <3> QED BY <2>1, <3>1
  <2>3. Received(c) = 0
    <3>1. Received(c) = 0 - 0
      BY <2>1, <2>2 DEF Received
    <3> QED BY <3>1
  <2> QED BY <2>2, <2>3 DEF Order
<1>2. ASSUME NEW w \in Workers PROVE Serving(w)
  BY DEF Init, Serving
<1> QED BY <1>1, <1>2 DEF OrdInv

(* A step that leaves the messages of a channel alone.                      *)
LEMMA OrderFrame ==
    ASSUME OrdInv, NEW c \in Channels,
           sent'[c] = sent[c], inq'[c] = inq[c], out'[c] = out[c],
           chan[c] = "deleted" => chan'[c] = "deleted",
           \A w \in Workers : Behind(w, c) => Behind(w, c)'
    PROVE  Order(c)'
<1>1. Received(c)' = Received(c)
  BY DEF Received
<1>2. Order(c)
  BY DEF OrdInv
<1>3. (\E w \in Workers : Behind(w, c)) => \E w \in Workers : Behind(w, c)'
  OBVIOUS
<1> QED BY <1>1, <1>2, <1>3 DEF Order

LEMMA ServingFrame ==
    ASSUME OrdInv, NEW w \in Workers,
           \/ pc'[w] \notin {"handle", "calling"}
           \/ /\ pc[w] \in {"handle", "calling"}
              /\ ele'[w] = ele[w] /\ req'[w] = req[w]
              /\ sent'[ele[w].chn] = sent[ele[w].chn] /\ inq'[ele[w].chn] = inq[ele[w].chn]
              /\ out'[ele[w].chn] = out[ele[w].chn]
    PROVE  Serving(w)'
  BY DEF OrdInv, Serving, Received

(* Nothing at all happens to the messages or to the workers that owe one.   *)
LEMMA QuietOrder ==
    ASSUME OrdInv, UNCHANGED <<sent, inq, out, chan>>,
           \A w \in Workers :
              \/ pc[w] \in {"handle", "calling"} /\ pc'[w] \in {"handle", "calling"}
                 /\ ele'[w] = ele[w] /\ req'[w] = req[w]
              \/ /\ pc[w] = "decide" /\ pc'[w] = "decide" /\ ele'[w] = ele[w]
                 /\ status'[w] = status[w]
              \/ /\ ~\E c \in Channels : Behind(w, c)
                 /\ pc'[w] \notin {"handle", "calling"}
    PROVE  OrdInv'
<1>1. ASSUME NEW c \in Channels PROVE Order(c)'
  <2>1. \A w \in Workers : Behind(w, c) => Behind(w, c)'
    BY DEF Behind
  <2> QED BY <2>1, OrderFrame
<1>2. ASSUME NEW w \in Workers PROVE Serving(w)'
  BY ServingFrame
<1> QED BY <1>1, <1>2 DEF OrdInv

(* A step of worker w on the channel it holds.  The other channels, and the *)
(* other workers, are left alone.                                           *)
LEMMA OwnStep ==
    ASSUME TypeOK, SoleOwner, OrdInv, NEW w \in Workers, pc[w] \in Holding,
           NEW k \in Channels, k = ele[w].chn,
           \A c \in Channels : c # k =>
              sent'[c] = sent[c] /\ inq'[c] = inq[c] /\ out'[c] = out[c] /\ chan'[c] = chan[c],
           \A v \in Workers : v # w =>
              pc'[v] = pc[v] /\ ele'[v] = ele[v] /\ req'[v] = req[v] /\ status'[v] = status[v],
           Order(k)', Serving(w)'
    PROVE  OrdInv'
<1>1. \A v \in Workers : v # w /\ pc[v] \in Holding => ele[v].chn # k
  BY HeldChannel
<1>2. ASSUME NEW c \in Channels, c # k PROVE Order(c)'
  <2>1. \A v \in Workers : Behind(v, c) => Behind(v, c)'
    BY <1>2 DEF Behind
  <2> QED BY <1>2, <2>1, OrderFrame
<1>3. ASSUME NEW v \in Workers, v # w PROVE Serving(v)'
  <2>1. CASE pc[v] \in {"handle", "calling"}
    <3>1. pc[v] \in Holding
      BY <2>1 DEF Holding
    <3>4. ele[v].chn \in Channels
      BY <3>1, HeldChannel
    <3>2. ele[v].chn # k /\ ele[v].chn \in Channels
      BY <1>1, <1>3, <3>1, <3>4
    <3>3. /\ pc'[v] = pc[v] /\ ele'[v] = ele[v] /\ req'[v] = req[v]
          /\ sent'[ele[v].chn] = sent[ele[v].chn] /\ inq'[ele[v].chn] = inq[ele[v].chn]
          /\ out'[ele[v].chn] = out[ele[v].chn]
      BY <1>3, <3>2
    <3> QED BY <2>1, <3>3, ServingFrame
  <2>2. CASE pc[v] \notin {"handle", "calling"}
    BY <1>3, <2>2, ServingFrame
  <2> QED BY <2>1, <2>2
<1>4. \A c \in Channels : Order(c)'
  BY <1>2
<1>5. \A v \in Workers : Serving(v)'
  BY <1>3
<1> QED BY <1>4, <1>5 DEF OrdInv

-----------------------------------------------------------------------------
(* The steps.                                                               *)

(* A request joins the end of the queue of its channel.                     *)
LEMMA SendOrder ==
    ASSUME TypeOK, OrdInv, NEW c \in Channels, NEW v \in Verdicts, ClientSend(c, v)
    PROVE  OrdInv'
<1> DEFINE r == [n |-> sent[c] + 1, verdict |-> v]
<1>1. /\ sent' = [sent EXCEPT ![c] = sent[c] + 1] /\ inq' = [inq EXCEPT ![c] = Append(inq[c], r)]
      /\ UNCHANGED <<pc, ele, req, status, chan, out>>
      /\ sent \in [Channels -> Nat] /\ inq \in [Channels -> Seq(Req)]
  BY DEF ClientSend, workerVars, TypeOK
<1>2. /\ inq[c] \in Seq(Req) /\ sent[c] \in Nat /\ Len(inq[c]) \in Nat /\ r \in Req
      /\ Len(out[c]) \in Nat
  <2>1. /\ inq[c] \in Seq(Req) /\ sent[c] \in Nat /\ Len(inq[c]) \in Nat
        /\ Len(out[c]) \in Nat
    BY ChannelTypes
  <2>2. r \in Req
    BY <2>1 DEF Req
  <2> QED BY <2>1, <2>2
<1>3. /\ sent'[c] = sent[c] + 1 /\ inq'[c] = Append(inq[c], r)
      /\ Len(inq'[c]) = Len(inq[c]) + 1 /\ inq'[c][Len(inq[c]) + 1] = r
      /\ \A i \in 1..Len(inq[c]) : inq'[c][i] = inq[c][i]
      /\ \A d \in Channels : d # c => sent'[d] = sent[d] /\ inq'[d] = inq[d]
  BY <1>1, <1>2, PushCells
<1>4. r.n = sent[c] + 1
  OBVIOUS
<1> HIDE DEF r
<1>5. /\ Received(c)' = Received(c) /\ Received(c) \in Int
      /\ r.n = Received(c) + (Len(inq[c]) + 1)
  <2>1. Len(inq[c]) \in Nat /\ sent[c] \in Nat
    BY <1>2
  <2>2. Received(c) = sent[c] - Len(inq[c]) /\ Received(c)' = sent'[c] - Len(inq'[c])
    BY DEF Received
  <2> QED BY <1>3, <1>4, <2>1, <2>2
<1>6. \A w \in Workers, d \in Channels : Behind(w, d) => Behind(w, d)'
  BY <1>1 DEF Behind
<1>7. Order(c)'
  <2>1. Order(c)
    BY DEF OrdInv
  <2>2. \A i \in 1..Len(inq'[c]) : i \in 1..Len(inq[c]) \/ i = Len(inq[c]) + 1
    BY <1>2, <1>3
  <2>3. chan'[c] # "deleted" => \A i \in 1..Len(inq'[c]) : inq'[c][i].n = Received(c)' + i
    BY <1>1, <1>3, <1>5, <2>1, <2>2 DEF Order
  <2> QED BY <1>1, <1>5, <1>6, <2>1, <2>3 DEF Order
<1>8. ASSUME NEW d \in Channels, d # c PROVE Order(d)'
  BY <1>1, <1>3, <1>6, <1>8, OrderFrame
<1>9. ASSUME NEW w \in Workers PROVE Serving(w)'
  <2>1. CASE pc[w] \in {"handle", "calling"}
    <3>1. ele[w] \in Ele /\ ele[w].chn \in Channels
      BY <2>1 DEF TypeOK, Holding, Ele
    <3>2. CASE ele[w].chn = c
      <4>1. req[w].n = Received(c) /\ Received(c) = Len(out[c]) + 1
        BY <2>1, <3>2 DEF OrdInv, Serving
      <4>2. ele'[w] = ele[w] /\ req'[w] = req[w] /\ out' = out /\ pc' = pc
        BY <1>1
      <4> QED BY <1>5, <3>2, <4>1, <4>2 DEF Serving
    <3>3. CASE ele[w].chn # c
      BY <1>1, <1>3, <2>1, <3>1, <3>3, ServingFrame
    <3> QED BY <3>2, <3>3
  <2>2. CASE pc[w] \notin {"handle", "calling"}
    BY <1>1, <2>2, ServingFrame
  <2> QED BY <2>1, <2>2
<1> QED BY <1>7, <1>8, <1>9 DEF OrdInv

(* The worker that is about to look for a request is the only one with its  *)
(* channel, so nobody owes an answer on it.                                 *)
LEMMA NothingOwed ==
    ASSUME TypeOK, SoleOwner, OrdInv, NEW w \in Workers, pc[w] \in Holding,
           ~Behind(w, ele[w].chn)
    PROVE  Received(ele[w].chn) = Len(out[ele[w].chn])
<1>1. /\ ele[w].chn \in Channels /\ chan[ele[w].chn] = "server"
      /\ \A v \in Workers : v # w /\ pc[v] \in Holding => ele[v].chn # ele[w].chn
  BY HeldChannel
<1>2. \A v \in Workers : ~Behind(v, ele[w].chn)
  BY <1>1 DEF Behind, Holding
<1> QED BY <1>1, <1>2 DEF OrdInv, Order

LEMMA ReceiveOrder ==
    ASSUME TypeOK, SoleOwner, OrdInv, NEW w \in Workers, Receive(w)
    PROVE  OrdInv'
<1> PICK c \in Channels : c = ele[w].chn
  BY HeldChannel DEF Receive, Holding
<1>0. /\ pc[w] = "receive" /\ pc[w] \in Holding
      /\ UNCHANGED <<ele, chan, sent, out>>
  BY DEF Receive, Holding, serverVars
<1>1. ele[w] # None /\ c \in Channels /\ chan[c] = "server"
  BY <1>0, HeldChannel
<1>2. Received(c) = Len(out[c])
  BY <1>0, NothingOwed DEF Behind
<1>3. /\ inq[c] \in Seq(Req) /\ sent[c] \in Nat /\ Len(inq[c]) \in Nat /\ Len(out[c]) \in Nat
      /\ out[c] \in Seq(Resp)
  BY <1>1, ChannelTypes
<1>4. Order(c)
  BY <1>1 DEF OrdInv
<1>5. CASE inq[c] # <<>>
  <2>1. /\ req' = [req EXCEPT ![w] = Head(inq[c])] /\ inq' = [inq EXCEPT ![c] = Tail(inq[c])]
        /\ pc' = [pc EXCEPT ![w] = "handle"] /\ status' = status
        /\ req \in [Workers -> Req \cup {None}] /\ inq \in [Channels -> Seq(Req)]
        /\ pc \in [Workers -> Labels]
    BY <1>5 DEF Receive, Goto, TypeOK
  <2>2. /\ inq'[c] = Tail(inq[c]) /\ req'[w] = Head(inq[c]) /\ pc'[w] = "handle"
        /\ \A d \in Channels : d # c => inq'[d] = inq[d]
        /\ \A v \in Workers : v # w => pc'[v] = pc[v] /\ req'[v] = req[v]
    BY <1>1, <2>1
  <2>3. /\ Len(inq[c]) > 0 /\ Head(inq[c]) = inq[c][1]
        /\ Len(inq'[c]) = Len(inq[c]) - 1
        /\ \A i \in 1..(Len(inq[c]) - 1) : inq'[c][i] = inq[c][i + 1]
    <3>1. /\ Tail(inq[c]) \in Seq(Req) /\ DOMAIN Tail(inq[c]) = 1..(Len(inq[c]) - 1)
          /\ Len(inq[c]) > 0 /\ Head(inq[c]) = inq[c][1]
          /\ \A i \in 1..(Len(inq[c]) - 1) : Tail(inq[c])[i] = inq[c][i + 1]
      BY <1>3, <1>5, PollCells
    <3>2. Len(Tail(inq[c])) = Len(inq[c]) - 1
      BY <1>3, <1>5
    <3> QED BY <2>2, <3>1, <3>2
  <2>4. Received(c)' = Received(c) + 1 /\ Received(c) \in Int
    <3>1. Received(c) = sent[c] - Len(inq[c]) /\ Received(c)' = sent'[c] - Len(inq'[c])
      BY DEF Received
    <3>2. sent'[c] = sent[c]
      BY <1>0
    <3> QED BY <1>3, <2>3, <3>1, <3>2
  <2>5. req'[w].n = Received(c) + 1
    <3>1. 1 \in 1..Len(inq[c]) BY <1>3, <2>3
    <3> QED BY <1>1, <1>4, <2>2, <2>3, <3>1 DEF Order
  <2>6. Behind(w, c)'
    BY <1>0, <1>1, <2>2 DEF Behind
  <2>7. Order(c)'
    <3>1. ASSUME NEW i \in 1..Len(inq'[c]) PROVE inq'[c][i].n = Received(c)' + i
      <4>1. i \in 1..(Len(inq[c]) - 1) /\ i + 1 \in 1..Len(inq[c])
        BY <1>3, <2>3
      <4>2. inq[c][i + 1].n = Received(c) + (i + 1)
        BY <1>1, <1>4, <4>1 DEF Order
      <4>3. inq'[c][i].n = Received(c) + (i + 1)
        BY <2>3, <4>1, <4>2
      <4>4. i \in Int
        BY <1>3, <4>1
      <4> QED BY <2>4, <4>3, <4>4
    <3>2. Len(out'[c]) <= Received(c)' /\ Received(c)' = Len(out'[c]) + 1
      BY <1>0, <1>2, <1>3, <2>4
    <3>3. \A i \in 1..Len(out'[c]) : out'[c][i].n = i
      BY <1>0, <1>4 DEF Order
    <3> QED BY <1>1, <2>6, <3>1, <3>2, <3>3 DEF Order
  <2>8. Serving(w)'
    <3>1. Received(c)' = Len(out'[c]) + 1 /\ req'[w].n = Received(c)'
      BY <1>0, <1>2, <1>3, <2>4, <2>5
    <3> QED BY <1>0, <3>1 DEF Serving
  <2> QED BY <1>0, <2>1, <2>2, <2>7, <2>8, OwnStep
<1>6. CASE inq[c] = <<>>
  <2>1. /\ UNCHANGED <<inq, req>> /\ pc' = [pc EXCEPT ![w] = "decide"]
        /\ status' = [status EXCEPT ![w] = IF broken[c] THEN "CHRPC_CLIENT_CHANNEL_ERROR"
                                           ELSE "CHRPC_CLIENT_CHANNEL_EMTPY"]
        /\ pc \in [Workers -> Labels]
    BY <1>6 DEF Receive, Goto, TypeOK
  <2>2. pc'[w] = "decide" /\ \A v \in Workers : v # w => pc'[v] = pc[v] /\ status'[v] = status[v]
    BY <2>1
  <2>3. Order(c)'
    <3>1. Received(c)' = Received(c)
      BY <1>0, <2>1 DEF Received
    <3>2. Received(c)' = Len(out'[c])
      BY <1>0, <1>2, <3>1
    <3> QED BY <1>0, <1>4, <2>1, <3>1, <3>2 DEF Order
  <2>4. Serving(w)'
    BY <2>2 DEF Serving
  <2> QED BY <1>0, <2>1, <2>2, <2>3, <2>4, OwnStep
<1> QED BY <1>5, <1>6

(* A worker that owes nothing moves on with no channel to answer on.         *)
LEMMA QuietWorker ==
    ASSUME OrdInv, NEW w \in Workers, UNCHANGED <<sent, inq, out, chan>>,
           \A v \in Workers : v # w =>
              pc'[v] = pc[v] /\ ele'[v] = ele[v] /\ req'[v] = req[v] /\ status'[v] = status[v],
           \A c \in Channels : ~Behind(w, c),
           pc'[w] \notin {"handle", "calling"}
    PROVE  OrdInv'
<1>1. ASSUME NEW v \in Workers
      PROVE  \/ pc[v] \in {"handle", "calling"} /\ pc'[v] \in {"handle", "calling"}
                /\ ele'[v] = ele[v] /\ req'[v] = req[v]
             \/ /\ pc[v] = "decide" /\ pc'[v] = "decide" /\ ele'[v] = ele[v]
                /\ status'[v] = status[v]
             \/ /\ ~\E c \in Channels : Behind(v, c)
                /\ pc'[v] \notin {"handle", "calling"}
  <2>1. CASE v = w
    BY <2>1
  <2>2. CASE v # w
    BY <2>2 DEF Behind
  <2> QED BY <2>1, <2>2
<1> QED BY <1>1, QuietOrder

(* No thread moves and no message is sent or received.                       *)
LEMMA StillOrder ==
    ASSUME OrdInv, UNCHANGED <<workerVars, sent, inq, out, chan>>
    PROVE  OrdInv'
<1>1. pc' = pc /\ ele' = ele /\ req' = req /\ status' = status
  BY DEF workerVars
<1>2. ASSUME NEW c \in Channels PROVE Order(c)'
  <2>1. \A w \in Workers : Behind(w, c) => Behind(w, c)'
    BY <1>1 DEF Behind
  <2> QED BY <2>1, OrderFrame
<1>3. ASSUME NEW w \in Workers PROVE Serving(w)'
  BY <1>1, ServingFrame
<1> QED BY <1>2, <1>3 DEF OrdInv

(* The request a worker holds is answered.                                   *)
LEMMA AnswerOrder ==
    ASSUME TypeOK, SoleOwner, OrdInv, NEW w \in Workers, pc[w] \in {"handle", "calling"},
           NEW c \in Channels, c = ele[w].chn, NEW s, NEW last,
           UNCHANGED <<ele, chan, sent, inq>>,
           out' = [out EXCEPT ![c] = Append(out[c], [n |-> req[w].n, status |-> s, last |-> last])],
           [n |-> req[w].n, status |-> s, last |-> last] \in Resp,
           pc'[w] = "decide",
           \A v \in Workers : v # w =>
              pc'[v] = pc[v] /\ req'[v] = req[v] /\ status'[v] = status[v]
    PROVE  OrdInv'
<1> DEFINE r == [n |-> req[w].n, status |-> s, last |-> last]
<1>1. /\ out \in [Channels -> Seq(Resp)] /\ out[c] \in Seq(Resp) /\ Len(out[c]) \in Nat
      /\ pc[w] \in Holding
  BY ChannelTypes DEF TypeOK, Holding
<1>2. Order(c) /\ req[w].n = Received(c) /\ Received(c) = Len(out[c]) + 1
  BY DEF OrdInv, Serving
<1>3. r.n = req[w].n
  OBVIOUS
<1> HIDE DEF r
<1>4. /\ out'[c] = Append(out[c], r)
      /\ \A d \in Channels : d # c => out'[d] = out[d]
  BY <1>1 DEF r
<1>5. /\ Len(out'[c]) = Len(out[c]) + 1 /\ out'[c][Len(out[c]) + 1] = r
      /\ \A i \in 1..Len(out[c]) : out'[c][i] = out[c][i]
  BY <1>1, <1>4, PushCells DEF r
<1>6. Received(c)' = Received(c)
  BY DEF Received
<1>7. Order(c)'
  <2>1. ASSUME NEW i \in 1..Len(out'[c]) PROVE out'[c][i].n = i
    <3>1. i \in 1..Len(out[c]) \/ i = Len(out[c]) + 1
      BY <1>1, <1>5
    <3> QED BY <1>2, <1>3, <1>5, <3>1 DEF Order
  <2>2. Received(c)' = Len(out'[c]) /\ Len(out'[c]) <= Received(c)'
    BY <1>1, <1>2, <1>5, <1>6
  <2> QED BY <1>2, <1>6, <2>1, <2>2 DEF Order
<1>8. Serving(w)'
  BY DEF Serving
<1> QED BY <1>1, <1>4, <1>7, <1>8, OwnStep

(* It cannot be answered: the worker is left owing it.                       *)
LEMMA OwedOrder ==
    ASSUME TypeOK, SoleOwner, OrdInv, NEW w \in Workers, pc[w] \in {"handle", "calling"},
           UNCHANGED <<ele, chan, sent, inq, out>>,
           pc'[w] = "decide",
           status'[w] \notin {"CHRPC_SUCCESS", "CHRPC_CLIENT_CHANNEL_EMTPY"},
           \A v \in Workers : v # w =>
              pc'[v] = pc[v] /\ req'[v] = req[v] /\ status'[v] = status[v]
    PROVE  OrdInv'
<1>1. pc[w] \in Holding /\ ele[w] # None /\ ele[w].chn \in Channels
  BY HeldChannel DEF Holding
<1> PICK c \in Channels : c = ele[w].chn
  BY <1>1
<1>2. Order(c) /\ Received(c) = Len(out[c]) + 1
  BY DEF OrdInv, Serving
<1>3. Received(c)' = Received(c)
  BY DEF Received
<1>4. Behind(w, c)'
  BY <1>1 DEF Behind
<1>5. Order(c)'
  BY <1>2, <1>3, <1>4 DEF Order
<1>6. Serving(w)'
  BY DEF Serving
<1> QED BY <1>1, <1>5, <1>6, OwnStep

(* chn_send, whether it succeeds or not.                                     *)
LEMMA SendResponseOrder ==
    ASSUME TypeOK, SoleOwner, OrdInv, NEW w \in Workers, pc[w] \in {"handle", "calling"},
           NEW s \in Verdicts \cup {"CHRPC_SUCCESS", "CHRPC_BUFFER_TOO_SMALL"},
           NEW last \in BOOLEAN, NEW then, Send(w, s, last, then),
           UNCHANGED <<ele, chan, sent, inq>>,
           pc' = [pc EXCEPT ![w] = "decide"], req' = [req EXCEPT ![w] = None]
    PROVE  OrdInv'
<1>1. /\ pc \in [Workers -> Labels] /\ req \in [Workers -> Req \cup {None}]
      /\ status \in [Workers -> Statuses \cup {None}] /\ req[w] \in Req /\ ele[w] \in Ele
  BY DEF TypeOK, Holding
<1>2. PICK c \in Channels : c = ele[w].chn
  BY <1>1 DEF Ele
<1>3. pc'[w] = "decide" /\ \A v \in Workers : v # w => pc'[v] = pc[v] /\ req'[v] = req[v]
  BY <1>1
<1>4. [n |-> req[w].n, status |-> s, last |-> last] \in Resp
  BY <1>1 DEF Req, Resp
<1>5. CASE broken[c]
  <2>1. /\ out' = out
        /\ status' = [status EXCEPT ![w] = "CHRPC_CLIENT_CHANNEL_ERROR"]
    BY <1>2, <1>5 DEF Send
  <2>2. /\ status'[w] = "CHRPC_CLIENT_CHANNEL_ERROR"
        /\ \A v \in Workers : v # w => status'[v] = status[v]
    BY <1>1, <2>1
  <2> QED BY <1>3, <2>1, <2>2, OwedOrder
<1>6. CASE ~broken[c]
  <2>1. /\ out' = [out EXCEPT ![c] = Append(out[c], [n |-> req[w].n, status |-> s, last |-> last])]
        /\ status' = [status EXCEPT ![w] = then]
    BY <1>2, <1>6 DEF Send
  <2>2. \A v \in Workers : v # w => status'[v] = status[v]
    BY <1>1, <2>1
  <2> QED BY <1>2, <1>3, <1>4, <2>1, <2>2, AnswerOrder
<1> QED BY <1>5, <1>6

LEMMA HandleOrder ==
    ASSUME TypeOK, SoleOwner, OrdInv, NEW w \in Workers, HandleRequest(w)
    PROVE  OrdInv'
<1>1. /\ pc[w] = "handle" /\ UNCHANGED <<ele, chan, sent, inq>>
      /\ pc \in [Workers -> Labels] /\ req[w] \in Req
  BY DEF HandleRequest, clientVars, TypeOK
<1>2. CASE req[w].verdict = "CHRPC_SUCCESS"
  <2>1. UNCHANGED <<req, status, out>> /\ pc' = [pc EXCEPT ![w] = "calling"]
    BY <1>2 DEF HandleRequest, Goto
  <2>2. pc'[w] = "calling" /\ \A v \in Workers : v # w => pc'[v] = pc[v]
    BY <1>1, <2>1
  <2>3. ASSUME NEW v \in Workers
        PROVE  \/ pc[v] \in {"handle", "calling"} /\ pc'[v] \in {"handle", "calling"}
                  /\ ele'[v] = ele[v] /\ req'[v] = req[v]
               \/ /\ pc[v] = "decide" /\ pc'[v] = "decide" /\ ele'[v] = ele[v]
                  /\ status'[v] = status[v]
               \/ /\ ~\E c \in Channels : Behind(v, c)
                  /\ pc'[v] \notin {"handle", "calling"}
    <3>1. CASE v = w
      BY <1>1, <2>1, <2>2, <3>1
    <3>2. CASE v # w
      BY <1>1, <2>1, <2>2, <3>2 DEF Behind
    <3> QED BY <3>1, <3>2
  <2> QED BY <1>1, <2>1, <2>3, QuietOrder
<1>3. CASE req[w].verdict # "CHRPC_SUCCESS"
  <2>1. /\ Send(w, req[w].verdict, FALSE, "CHRPC_SUCCESS")
        /\ req' = [req EXCEPT ![w] = None] /\ pc' = [pc EXCEPT ![w] = "decide"]
    BY <1>3 DEF HandleRequest, SendErrorResponse, Goto
  <2>2. req[w].verdict \in Verdicts
    BY <1>1 DEF Req
  <2> QED BY <1>1, <2>1, <2>2, SendResponseOrder
<1> QED BY <1>2, <1>3

LEMMA RespondOrder ==
    ASSUME TypeOK, SoleOwner, OrdInv, NEW w \in Workers, NEW o \in Outcomes,
           SendResponse(w, o)
    PROVE  OrdInv'
<1>1. /\ pc[w] = "calling" /\ UNCHANGED <<ele, chan, sent, inq>>
      /\ req' = [req EXCEPT ![w] = None] /\ pc' = [pc EXCEPT ![w] = "decide"]
      /\ pc \in [Workers -> Labels] /\ req \in [Workers -> Req \cup {None}]
      /\ status \in [Workers -> Statuses \cup {None}]
  BY DEF SendResponse, clientVars, Goto, TypeOK
<1>2. CASE o.ret = "wrong_type"
  <2>1. status' = [status EXCEPT ![w] = "CHRPC_SERVER_INTERNAL_ERROR"] /\ out' = out
    BY <1>2 DEF SendResponse
  <2>2. /\ pc'[w] = "decide" /\ status'[w] = "CHRPC_SERVER_INTERNAL_ERROR"
        /\ \A v \in Workers : v # w =>
              pc'[v] = pc[v] /\ req'[v] = req[v] /\ status'[v] = status[v]
    BY <1>1, <2>1
  <2> QED BY <1>1, <2>1, <2>2, OwedOrder
<1>3. CASE o.ret # "wrong_type"
  <2>1. \/ Send(w, "CHRPC_BUFFER_TOO_SMALL", FALSE, "CHRPC_SUCCESS")
        \/ Send(w, "CHRPC_SUCCESS", TRUE, "CHRPC_DISCONNECT")
        \/ Send(w, "CHRPC_SUCCESS", FALSE, "CHRPC_SUCCESS")
    BY <1>3 DEF SendResponse, SendErrorResponse
  <2> QED BY <1>1, <2>1, SendResponseOrder
<1> QED BY <1>2, <1>3

(* delete_channel loses what was not received, and answers nothing.          *)
LEMMA DestroyedOrder ==
    ASSUME TypeOK, OrdInv, NEW c \in Channels, Destroy(c), UNCHANGED <<sent, out>>
    PROVE  /\ Order(c)'
           /\ \A d \in Channels : d # c => inq'[d] = inq[d] /\ chan'[d] = chan[d]
<1>1. chan'[c] = "deleted" /\ inq'[c] = <<>>
      /\ \A d \in Channels : d # c => inq'[d] = inq[d] /\ chan'[d] = chan[d]
  BY DEF Destroy, TypeOK
<1>2. /\ sent[c] \in Nat /\ Len(inq[c]) \in Nat /\ Len(out[c]) \in Nat
      /\ Received(c) = sent[c] - Len(inq[c])
  BY ChannelTypes DEF Received
<1>3. Len(<<>>) = 0
  OBVIOUS
<1>4. Received(c)' = sent[c] - 0
  BY <1>1, <1>3 DEF Received
<1>5. Order(c)
  BY DEF OrdInv
<1>6. Len(out[c]) <= sent[c]
  BY <1>2, <1>5 DEF Order
<1>7. Len(out'[c]) <= Received(c)'
  BY <1>2, <1>4, <1>6
<1> QED BY <1>1, <1>5, <1>7 DEF Order

LEMMA DeleteOrder ==
    ASSUME TypeOK, SoleOwner, OrdInv, NEW w \in Workers, DeleteChannel(w)
    PROVE  OrdInv'
<1>1. /\ pc[w] = "decide" /\ pc[w] \in Holding /\ Destroy(ele[w].chn)
      /\ UNCHANGED <<ele, req, status, sent, out>> /\ pc' = [pc EXCEPT ![w] = "release"]
      /\ pc \in [Workers -> Labels]
  BY DEF DeleteChannel, Goto, Holding, TypeOK
<1>2. PICK c \in Channels : c = ele[w].chn
  BY <1>1, HeldChannel
<1>3. pc'[w] = "release" /\ \A v \in Workers : v # w => pc'[v] = pc[v]
  BY <1>1
<1>4. /\ Order(c)'
      /\ \A d \in Channels : d # c => inq'[d] = inq[d] /\ chan'[d] = chan[d]
  BY <1>1, <1>2, DestroyedOrder
<1>5. Serving(w)'
  BY <1>3 DEF Serving
<1> QED BY <1>1, <1>2, <1>3, <1>4, <1>5, OwnStep

LEMMA DrainOrder ==
    ASSUME TypeOK, Stopped, OrdInv, DrainQueue
    PROVE  OrdInv'
<1>1. /\ \A w \in Workers : pc[w] = "done" /\ pc'[w] = "done"
      /\ UNCHANGED <<sent, out>> /\ Destroy(Head(q).chn) /\ q # <<>> /\ q \in Seq(Ele)
  BY DEF DrainQueue, Stopped, workerVars, TypeOK
<1>2. PICK c \in Channels : c = Head(q).chn
  <2>1. Head(q) \in Ele
    BY <1>1, PollCells
  <2> QED BY <2>1 DEF Ele
<1>3. /\ Order(c)'
      /\ \A d \in Channels : d # c => inq'[d] = inq[d] /\ chan'[d] = chan[d]
  BY <1>1, <1>2, DestroyedOrder
<1>4. ASSUME NEW d \in Channels PROVE Order(d)'
  <2>1. \A w \in Workers : Behind(w, d) => Behind(w, d)'
    BY <1>1 DEF Behind
  <2>2. CASE d = c
    BY <1>3, <2>2
  <2>3. CASE d # c
    BY <1>1, <1>3, <2>1, <2>3, OrderFrame
  <2> QED BY <2>2, <2>3
<1>5. ASSUME NEW w \in Workers PROVE Serving(w)'
  BY <1>1 DEF Serving
<1> QED BY <1>4, <1>5 DEF OrdInv

LEMMA GiveOrder ==
    ASSUME TypeOK, OrdInv, NEW c \in Channels, NEW mms \in MsgSizes, GiveChannel(c, mms)
    PROVE  OrdInv'
<1>1. /\ UNCHANGED <<pc, ele, req, status, sent, inq, out>> /\ chan[c] = "caller"
      /\ chan' = chan \/ chan' = [chan EXCEPT ![c] = "server"]
  BY DEF GiveChannel, Refuse, Accept, workerVars, clientVars
<1>2. \A d \in Channels : chan[d] = "deleted" => chan'[d] = "deleted"
  BY <1>1 DEF TypeOK
<1>3. ASSUME NEW d \in Channels PROVE Order(d)'
  <2>1. \A w \in Workers : Behind(w, d) => Behind(w, d)'
    BY <1>1 DEF Behind
  <2> QED BY <1>1, <1>2, <2>1, OrderFrame
<1>4. ASSUME NEW w \in Workers PROVE Serving(w)'
  BY <1>1, ServingFrame
<1> QED BY <1>3, <1>4 DEF OrdInv

LEMMA WorkerOrder ==
    ASSUME IInv, OrdInv, NEW w \in Workers, Worker(w)
    PROVE  OrdInv'
<1>1. TypeOK /\ SoleOwner
  BY DEF IInv
<1>2. CASE CheckExit(w) \/ QPoll(w) \/ Requeue(w) \/ ReleaseSlot(w) \/ OnDisconnect(w)
  <2>1. /\ UNCHANGED <<sent, inq, out, chan>>
        /\ \A v \in Workers : v # w =>
              pc'[v] = pc[v] /\ ele'[v] = ele[v] /\ req'[v] = req[v] /\ status'[v] = status[v]
        /\ pc'[w] \notin {"handle", "calling"}
    BY <1>1, <1>2 DEF CheckExit, QPoll, Requeue, ReleaseSlot, OnDisconnect, Goto, TypeOK,
                      clientVars
  <2>2. \A c \in Channels : ~Behind(w, c)
    BY <1>2 DEF CheckExit, QPoll, Requeue, ReleaseSlot, OnDisconnect, Behind, Disconnects
  <2> QED BY <2>1, <2>2, QuietWorker
<1>3. CASE Receive(w)
  BY <1>1, <1>3, ReceiveOrder
<1>4. CASE HandleRequest(w)
  BY <1>1, <1>4, HandleOrder
<1>5. CASE \E o \in Outcomes : SendResponse(w, o)
  BY <1>1, <1>5, RespondOrder
<1>6. CASE DeleteChannel(w)
  BY <1>1, <1>6, DeleteOrder
<1> QED BY <1>2, <1>3, <1>4, <1>5, <1>6 DEF Worker

LEMMA NextOrder == IInv /\ OrdInv /\ [Next]_vars => OrdInv'
<1> SUFFICES ASSUME IInv, OrdInv, [Next]_vars PROVE OrdInv'
  OBVIOUS
<1>1. TypeOK /\ SoleOwner /\ Stopped
  BY DEF IInv
<1>2. CASE Client
  <2>1. ASSUME NEW c \in Channels, NEW mms \in MsgSizes, GiveChannel(c, mms) PROVE OrdInv'
    BY <1>1, <2>1, GiveOrder
  <2>2. ASSUME NEW c \in Channels, NEW v \in Verdicts, ClientSend(c, v) PROVE OrdInv'
    BY <1>1, <2>2, SendOrder
  <2>3. ASSUME NEW c \in Channels, ChannelFault(c) PROVE OrdInv'
    BY <2>3, StillOrder DEF ChannelFault
  <2> QED BY <1>2, <2>1, <2>2, <2>3 DEF Client
<1>3. CASE Tick \/ UNCHANGED vars \/ Freed
  BY <1>3, StillOrder DEF Tick, Freed, vars, clientVars
<1>4. CASE \E w \in Workers : Worker(w)
  BY <1>4, WorkerOrder
<1>5. CASE DeleteServer
  <2>1. CASE DrainQueue
    BY <1>1, <2>1, DrainOrder
  <2>2. CASE SetShouldExit \/ JoinWorkers \/ FreeServer
    BY <2>2, StillOrder DEF SetShouldExit, JoinWorkers, FreeServer, clientVars
  <2> QED BY <1>5, <2>1, <2>2 DEF DeleteServer
<1> QED BY <1>2, <1>3, <1>4, <1>5 DEF Next

LEMMA OrderAlways == Spec => []OrdInv
  BY InductiveInvariant, InitOrder, NextOrder, PTL DEF Spec

(* The n-th answer on a connection is to its n-th request, and only a worker *)
(* about to cut the connection has one missing (rpc_server.c:446-501).       *)
THEOREM AnswersInOrder == Spec => []AnsweredInOrder
<1>1. OrdInv /\ TypeOK => AnsweredInOrder
  <2> SUFFICES ASSUME OrdInv, TypeOK, NEW c \in Channels
               PROVE  /\ \A i \in DOMAIN out[c] : out[c][i].n = i
                      /\ chan[c] = "server" /\ Received(c) # Len(out[c])
                            => Received(c) = Len(out[c]) + 1 /\ Owing(c)
    BY DEF AnsweredInOrder
  <2>1. Order(c) /\ DOMAIN out[c] = 1..Len(out[c])
    BY ChannelTypes DEF OrdInv
  <2>2. (\E w \in Workers : Behind(w, c)) => Owing(c)
    BY DEF Behind, Owing, Disconnects
  <2> QED BY <2>1, <2>2 DEF Order
<1>2. IInv => TypeOK
  BY DEF IInv
<1> QED BY <1>1, <1>2, InductiveInvariant, OrderAlways, PTL

-----------------------------------------------------------------------------
(* What a client hears last.                                                 *)

(* The worker that said goodbye on channel c is about to delete it.          *)
Parting(w, c) == pc[w] = "decide" /\ ele[w].chn = c /\ status[w] = "CHRPC_DISCONNECT"

LastInv == \A c \in Channels : \A i \in 1..Len(out[c]) : out[c][i].last =>
    i = Len(out[c]) /\ (chan[c] = "deleted" \/ \E w \in Workers : Parting(w, c))

LEMMA LastFrame ==
    ASSUME LastInv, NEW c \in Channels, out'[c] = out[c],
           chan[c] = "deleted" => chan'[c] = "deleted",
           \A w \in Workers : Parting(w, c) => Parting(w, c)' \/ chan'[c] = "deleted"
    PROVE  \A i \in 1..Len(out'[c]) : out'[c][i].last =>
              i = Len(out'[c]) /\ (chan'[c] = "deleted" \/ \E w \in Workers : Parting(w, c)')
<1> SUFFICES ASSUME NEW i \in 1..Len(out'[c]), out'[c][i].last
             PROVE  i = Len(out'[c])
                    /\ (chan'[c] = "deleted" \/ \E w \in Workers : Parting(w, c)')
  OBVIOUS
<1>1. i = Len(out[c]) /\ (chan[c] = "deleted" \/ \E w \in Workers : Parting(w, c))
  BY DEF LastInv
<1>2. ASSUME NEW w \in Workers, Parting(w, c)
      PROVE  chan'[c] = "deleted" \/ \E v \in Workers : Parting(v, c)'
  BY <1>2
<1> QED BY <1>1, <1>2

(* No message is sent, no channel comes back, and no goodbye is forgotten.   *)
LEMMA LastQuiet ==
    ASSUME LastInv, out' = out,
           \A c \in Channels : chan[c] = "deleted" => chan'[c] = "deleted",
           \A w \in Workers, c \in Channels :
              Parting(w, c) => Parting(w, c)' \/ chan'[c] = "deleted"
    PROVE  LastInv'
<1>1. ASSUME NEW c \in Channels
      PROVE  \A i \in 1..Len(out'[c]) : out'[c][i].last =>
                i = Len(out'[c]) /\ (chan'[c] = "deleted" \/ \E w \in Workers : Parting(w, c)')
  BY LastFrame
<1> QED BY <1>1 DEF LastInv

LEMMA LastSend ==
    ASSUME TypeOK, SoleOwner, LastInv, NEW w \in Workers, pc[w] \in {"handle", "calling"},
           NEW s \in Verdicts \cup {"CHRPC_SUCCESS", "CHRPC_BUFFER_TOO_SMALL"},
           NEW last \in BOOLEAN, NEW then, last => then = "CHRPC_DISCONNECT",
           Send(w, s, last, then), UNCHANGED <<ele, chan>>, pc' = [pc EXCEPT ![w] = "decide"]
    PROVE  LastInv'
<1>1. /\ pc \in [Workers -> Labels] /\ status \in [Workers -> Statuses \cup {None}]
      /\ out \in [Channels -> Seq(Resp)] /\ pc[w] \in Holding /\ req[w] \in Req
  BY DEF TypeOK, Holding
<1>2. /\ pc'[w] = "decide" /\ \A v \in Workers : v # w => pc'[v] = pc[v]
      /\ \A v \in Workers : v # w => status'[v] = status[v]
  BY <1>1 DEF Send
<1>3. PICK c \in Channels : c = ele[w].chn
  BY <1>1, HeldChannel
<1>4. chan[c] = "server" /\ \A v \in Workers : v # w /\ pc[v] \in Holding => ele[v].chn # c
  BY <1>1, <1>3, HeldChannel
<1>5. \A v \in Workers : ~Parting(v, c)
  BY <1>4 DEF Parting, Holding
<1>6. \A v \in Workers, d \in Channels : Parting(v, d) => Parting(v, d)'
  BY <1>2 DEF Parting
<1>7. \A i \in 1..Len(out[c]) : ~out[c][i].last
  BY <1>4, <1>5 DEF LastInv
<1>8. CASE broken[c]
  BY <1>3, <1>6, <1>8, LastQuiet DEF Send
<1>9. CASE ~broken[c]
  <2> DEFINE r == [n |-> req[w].n, status |-> s, last |-> last]
  <2>1. out' = [out EXCEPT ![c] = Append(out[c], r)] /\ status' = [status EXCEPT ![w] = then]
    BY <1>3, <1>9 DEF Send
  <2>2. r \in Resp /\ r.last = last /\ out[c] \in Seq(Resp) /\ Len(out[c]) \in Nat
    <3>1. r \in Resp
      BY <1>1 DEF Req, Resp
    <3>2. r.last = last
      BY Zenon
    <3> QED BY <1>1, <3>1, <3>2
  <2> HIDE DEF r
  <2>3. /\ out'[c] = Append(out[c], r) /\ status'[w] = then
        /\ \A d \in Channels : d # c => out'[d] = out[d]
    BY <1>1, <2>1
  <2>4. /\ Len(out'[c]) = Len(out[c]) + 1 /\ out'[c][Len(out[c]) + 1] = r
        /\ \A i \in 1..Len(out[c]) : out'[c][i] = out[c][i]
    BY <2>2, <2>3, PushCells
  <2>5. ASSUME NEW i \in 1..Len(out'[c]), out'[c][i].last
        PROVE  i = Len(out'[c]) /\ Parting(w, c)'
    <3>1. i = Len(out[c]) + 1
      BY <1>7, <2>2, <2>4, <2>5
    <3>2. then = "CHRPC_DISCONNECT"
      BY <2>2, <2>4, <2>5, <3>1
    <3> QED BY <1>2, <1>3, <2>3, <2>4, <3>1, <3>2 DEF Parting
  <2>6. ASSUME NEW d \in Channels
        PROVE  \A i \in 1..Len(out'[d]) : out'[d][i].last =>
                  i = Len(out'[d]) /\ (chan'[d] = "deleted" \/ \E v \in Workers : Parting(v, d)')
    <3>1. CASE d = c
      BY <2>5, <3>1
    <3>2. CASE d # c
      BY <1>6, <2>3, <3>2, LastFrame
    <3> QED BY <3>1, <3>2
  <2> QED BY <2>6 DEF LastInv
<1> QED BY <1>8, <1>9

LEMMA WorkerLast ==
    ASSUME TypeOK, SoleOwner, LastInv, NEW w \in Workers, Worker(w)
    PROVE  LastInv'
<1>1. CASE CheckExit(w) \/ QPoll(w) \/ Receive(w) \/ ReleaseSlot(w) \/ OnDisconnect(w)
  <2>1. /\ out' = out /\ chan' = chan /\ pc[w] # "decide"
        /\ \A v \in Workers : v # w => pc'[v] = pc[v] /\ ele'[v] = ele[v] /\ status'[v] = status[v]
    BY <1>1 DEF CheckExit, QPoll, Receive, ReleaseSlot, OnDisconnect, Goto, TypeOK
  <2>2. \A v \in Workers, c \in Channels : Parting(v, c) => Parting(v, c)'
    BY <2>1 DEF Parting
  <2> QED BY <2>1, <2>2, LastQuiet
<1>2. CASE Requeue(w)
  <2>1. /\ out' = out /\ chan' = chan /\ status[w] # "CHRPC_DISCONNECT"
        /\ \A v \in Workers : v # w => pc'[v] = pc[v] /\ ele'[v] = ele[v] /\ status'[v] = status[v]
    BY <1>2 DEF Requeue, Disconnects, Goto, TypeOK
  <2>2. \A v \in Workers, c \in Channels : Parting(v, c) => Parting(v, c)'
    BY <2>1 DEF Parting
  <2> QED BY <2>1, <2>2, LastQuiet
<1>3. CASE DeleteChannel(w)
  <2>1. /\ out' = out /\ ele' = ele /\ status' = status
        /\ chan' = [chan EXCEPT ![ele[w].chn] = "deleted"]
        /\ chan \in [Channels -> {"caller", "server", "deleted"}]
        /\ \A v \in Workers : v # w => pc'[v] = pc[v]
    BY <1>3 DEF DeleteChannel, Destroy, Goto, TypeOK
  <2>2. \A c \in Channels : chan[c] = "deleted" \/ c = ele[w].chn => chan'[c] = "deleted"
    BY <2>1
  <2>3. \A v \in Workers, c \in Channels : Parting(v, c) => Parting(v, c)' \/ chan'[c] = "deleted"
    BY <2>1, <2>2 DEF Parting
  <2> QED BY <2>1, <2>2, <2>3, LastQuiet
<1>4. CASE HandleRequest(w)
  <2>1. CASE req[w].verdict = "CHRPC_SUCCESS"
    <3>1. /\ out' = out /\ chan' = chan /\ ele' = ele /\ status' = status /\ pc[w] # "decide"
          /\ \A v \in Workers : v # w => pc'[v] = pc[v]
      BY <1>4, <2>1 DEF HandleRequest, Goto, TypeOK
    <3>2. \A v \in Workers, c \in Channels : Parting(v, c) => Parting(v, c)'
      BY <3>1 DEF Parting
    <3> QED BY <3>1, <3>2, LastQuiet
  <2>2. CASE req[w].verdict # "CHRPC_SUCCESS"
    <3>1. /\ Send(w, req[w].verdict, FALSE, "CHRPC_SUCCESS") /\ UNCHANGED <<ele, chan>>
          /\ pc' = [pc EXCEPT ![w] = "decide"] /\ pc[w] = "handle"
      BY <1>4, <2>2 DEF HandleRequest, SendErrorResponse, Goto
    <3>2. req[w].verdict \in Verdicts
      BY <3>1 DEF TypeOK, Req
    <3> QED BY <3>1, <3>2, LastSend
  <2> QED BY <2>1, <2>2
<1>5. ASSUME NEW o \in Outcomes, SendResponse(w, o) PROVE LastInv'
  <2>1. /\ pc[w] = "calling" /\ UNCHANGED <<ele, chan>> /\ pc' = [pc EXCEPT ![w] = "decide"]
    BY <1>5 DEF SendResponse, Goto
  <2>2. CASE o.ret = "wrong_type"
    <3>1. /\ out' = out
          /\ \A v \in Workers : v # w => pc'[v] = pc[v] /\ status'[v] = status[v]
      BY <1>5, <2>1, <2>2 DEF SendResponse, TypeOK
    <3>2. \A v \in Workers, c \in Channels : Parting(v, c) => Parting(v, c)'
      BY <2>1, <3>1 DEF Parting
    <3> QED BY <2>1, <3>1, <3>2, LastQuiet
  <2>3. CASE o.ret # "wrong_type"
    <3>1. \/ Send(w, "CHRPC_BUFFER_TOO_SMALL", FALSE, "CHRPC_SUCCESS")
          \/ Send(w, "CHRPC_SUCCESS", TRUE, "CHRPC_DISCONNECT")
          \/ Send(w, "CHRPC_SUCCESS", FALSE, "CHRPC_SUCCESS")
      BY <1>5, <2>3 DEF SendResponse, SendErrorResponse
    <3> QED BY <2>1, <3>1, LastSend
  <2> QED BY <2>2, <2>3
<1> QED BY <1>1, <1>2, <1>3, <1>4, <1>5 DEF Worker

LEMMA NextLast == IInv /\ LastInv /\ [Next]_vars => LastInv'
<1> SUFFICES ASSUME IInv, LastInv, [Next]_vars PROVE LastInv'
  OBVIOUS
<1>1. TypeOK /\ SoleOwner
  BY DEF IInv
<1>2. CASE \E w \in Workers : Worker(w)
  BY <1>1, <1>2, WorkerLast
<1>3. CASE ~\E w \in Workers : Worker(w)
  <2>1. /\ UNCHANGED <<pc, ele, status, out>>
        /\ \/ chan' = chan
           \/ \E c \in Channels : chan[c] = "caller" /\ chan' = [chan EXCEPT ![c] = "server"]
           \/ \E c \in Channels : chan' = [chan EXCEPT ![c] = "deleted"]
    <3>1. CASE Client
      BY <3>1 DEF Client, GiveChannel, Refuse, Accept, ClientSend, ChannelFault, workerVars
    <3>2. CASE DrainQueue
      <4>1. Head(q) \in Ele
        BY <1>1, <3>2, PollCells DEF DrainQueue, TypeOK
      <4> QED BY <3>2, <4>1 DEF DrainQueue, Destroy, Ele, workerVars
    <3>3. CASE Tick \/ Freed \/ SetShouldExit \/ JoinWorkers \/ FreeServer \/ UNCHANGED vars
      BY <3>3 DEF Tick, Freed, SetShouldExit, JoinWorkers, FreeServer, vars, workerVars
    <3> QED BY <1>3, <3>1, <3>2, <3>3 DEF Next, DeleteServer
  <2>2. \A c \in Channels : chan[c] = "deleted" => chan'[c] = "deleted"
    BY <1>1, <2>1 DEF TypeOK
  <2>3. \A v \in Workers, c \in Channels : Parting(v, c) => Parting(v, c)'
    BY <2>1 DEF Parting
  <2> QED BY <2>1, <2>2, <2>3, LastQuiet
<1> QED BY <1>2, <1>3

LEMMA LastAlways == Spec => []LastInv
<1>1. Init => LastInv
  <2> SUFFICES ASSUME Init, NEW c \in Channels, NEW i \in 1..Len(out[c])
               PROVE  FALSE
    BY DEF LastInv
  <2>1. out[c] = <<>> /\ Len(<<>>) = 0
    BY DEF Init
  <2> QED BY <2>1
<1> QED BY <1>1, InductiveInvariant, NextLast, PTL DEF Spec

(* A client that has been told goodbye is told nothing more: the worker that *)
(* said it deletes the channel and gives it to nobody (rpc_server.c:484-497).*)
THEOREM GoodbyeIsLast == Spec => []NothingAfterLast
<1>1. LastInv /\ TypeOK => NothingAfterLast
  <2> SUFFICES ASSUME LastInv, TypeOK, NEW c \in Channels, NEW i \in DOMAIN out[c], out[c][i].last
               PROVE  i = Len(out[c])
    BY DEF NothingAfterLast
  <2>1. DOMAIN out[c] = 1..Len(out[c])
    BY ChannelTypes
  <2> QED BY <2>1 DEF LastInv
<1>2. IInv => TypeOK
  BY DEF IInv
<1> QED BY <1>1, <1>2, InductiveInvariant, LastAlways, PTL

-----------------------------------------------------------------------------
(* Cutting idle connections.                                                *)
-----------------------------------------------------------------------------

(* When a connection was last touched is known wherever its element goes:    *)
(* since_last_req is not older than the last answer, except in the hands of  *)
(* a worker that has just answered and is about to refresh it or to cut.     *)
Recent(e) == touched[e.chn] <= e.since_last_req

Waits(w) == pc[w] \in Holding /\ status[w] \notin {"CHRPC_SUCCESS", "CHRPC_DISCONNECT"}

TimedInv ==
    /\ \A c \in Channels : touched[c] <= clock
    /\ \A i \in DOMAIN q : Recent(q[i])
    /\ \A w \in Workers : Waits(w) => Recent(ele[w])

(* Steps that touch no channel: elements move, and time may pass.            *)
LEMMA TimedQuiet ==
    ASSUME TypeOK, TimedInv, touched' = touched, clock' = clock \/ clock' = clock + 1,
           \A i \in DOMAIN q' : Recent(q'[i]),
           \A w \in Workers : Waits(w)' => Recent(ele'[w])
    PROVE  TimedInv'
<1>1. \A c \in Channels : touched'[c] <= clock'
  BY DEF TypeOK, TimedInv
<1>2. \A i \in DOMAIN q' : Recent(q[i])'
  BY DEF Recent
<1>3. \A w \in Workers : Waits(w)' => Recent(ele[w])'
  BY DEF Recent
<1> QED BY <1>1, <1>2, <1>3 DEF TimedInv

(* An answer on channel c, or the arrival of c: no cell and no other worker  *)
(* may know c by an older time.                                              *)
LEMMA TimedTouch ==
    ASSUME TypeOK, TimedInv, NEW c \in Channels, touched' = [touched EXCEPT ![c] = clock],
           clock' = clock,
           \A i \in DOMAIN q' : \/ q'[i].chn # c /\ Recent(q'[i])
                                \/ q'[i].chn = c /\ q'[i].since_last_req = clock,
           \A w \in Workers : Waits(w)' => ele'[w].chn # c /\ Recent(ele'[w])
    PROVE  TimedInv'
<1>1. /\ clock \in Nat /\ touched'[c] = clock
      /\ \A d : d # c => touched'[d] = touched[d]
  BY DEF TypeOK
<1>2. \A d \in Channels : touched'[d] <= clock'
  BY <1>1 DEF TypeOK, TimedInv
<1>3. ASSUME NEW i \in DOMAIN q' PROVE Recent(q[i])'
  BY <1>1 DEF Recent
<1>4. ASSUME NEW w \in Workers, Waits(w)' PROVE Recent(ele[w])'
  BY <1>1, <1>4 DEF Recent
<1> QED BY <1>2, <1>3, <1>4 DEF TimedInv

(* chn_send: the worker has just answered, or its element is as it was.      *)
LEMMA TimedSend ==
    ASSUME TypeOK, SoleOwner, TimedInv, NEW w \in Workers, pc[w] \in Holding,
           Waits(w), NEW s, NEW last, NEW then \in {"CHRPC_SUCCESS", "CHRPC_DISCONNECT"},
           Send(w, s, last, then), UNCHANGED <<q, ele, clock>>,
           \A v \in Workers : v # w => pc'[v] = pc[v]
    PROVE  TimedInv'
<1> DEFINE c == ele[w].chn
<1>1. c \in Channels /\ \A v \in Workers : v # w /\ pc[v] \in Holding => ele[v].chn # c
  BY HeldChannel
<1>2. \A i \in DOMAIN q : q[i].chn # c
  BY DEF SoleOwner
<1>3. \A v \in Workers : v # w => (Waits(v)' <=> Waits(v))
  BY DEF Send, TypeOK, Waits
<1>4. CASE broken[c]
  <2>1. \A v \in Workers : Waits(v)' => Waits(v)
    BY <1>3
  <2>2. touched' = touched
    BY <1>4 DEF Send
  <2> QED BY <2>1, <2>2, TimedQuiet DEF TimedInv
<1>5. CASE ~broken[c]
  <2>1. touched' = [touched EXCEPT ![c] = clock] /\ status' = [status EXCEPT ![w] = then]
    BY <1>5 DEF Send
  <2>2. ~Waits(w)'
    BY <2>1 DEF TypeOK, Waits
  <2>3. \A i \in DOMAIN q' : q'[i].chn # c /\ Recent(q'[i])
    BY <1>2 DEF TimedInv
  <2>4. \A v \in Workers : Waits(v)' => ele'[v].chn # c /\ Recent(ele'[v])
    BY <1>1, <1>3, <2>2 DEF TimedInv, Waits
  <2> HIDE DEF c
  <2> QED BY <1>1, <2>1, <2>3, <2>4, TimedTouch
<1> QED BY <1>4, <1>5

(* The rest of a worker.  An element is taken from the queue as it is, and   *)
(* goes back with the time of its last answer.                               *)
LEMMA TimedPoll ==
    ASSUME TypeOK, TimedInv, NEW w \in Workers, QPoll(w)
    PROVE  TimedInv'
<1>1. /\ touched' = touched /\ clock' = clock /\ status' = status /\ pc[w] = "poll"
      /\ \A v \in Workers : v # w => pc'[v] = pc[v] /\ ele'[v] = ele[v]
  BY DEF QPoll, Goto, TypeOK, history
<1>2. CASE q = <<>>
  <2>1. q' = q /\ pc'[w] = "check"
    BY <1>2 DEF QPoll, Goto, TypeOK
  <2>2. \A v \in Workers : Waits(v)' => Waits(v) /\ ele'[v] = ele[v]
    BY <1>1, <2>1 DEF Waits, Holding
  <2> QED BY <1>1, <2>1, <2>2, TimedQuiet DEF TimedInv
<1>3. CASE q # <<>>
  <2>1. q' = Tail(q) /\ ele'[w] = Head(q)
    BY <1>3 DEF QPoll, TypeOK
  <2>2. /\ 1 \in DOMAIN q /\ Head(q) = q[1] /\ DOMAIN Tail(q) = 1..(Len(q) - 1)
        /\ \A i \in 1..(Len(q) - 1) : Tail(q)[i] = q[i + 1] /\ i + 1 \in DOMAIN q
    BY <1>3, PollCells DEF TypeOK
  <2>3. \A i \in DOMAIN q' : Recent(q'[i])
    BY <2>1, <2>2 DEF TimedInv
  <2>4. \A v \in Workers : Waits(v)' => Recent(ele'[v])
    <3>1. Recent(ele'[w])
      BY <2>1, <2>2 DEF TimedInv
    <3>2. \A v \in Workers : v # w /\ Waits(v)' => Waits(v)
      BY <1>1 DEF Waits
    <3> QED BY <1>1, <3>1, <3>2 DEF TimedInv
  <2> QED BY <1>1, <2>3, <2>4, TimedQuiet
<1> QED BY <1>2, <1>3

LEMMA TimedRequeue ==
    ASSUME TypeOK, TimedInv, NEW w \in Workers, Requeue(w)
    PROVE  TimedInv'
<1> DEFINE e == [ele[w] EXCEPT !.since_last_req =
                     IF status[w] = "CHRPC_SUCCESS" THEN clock ELSE @]
<1>1. /\ touched' = touched /\ clock' = clock /\ pc[w] = "decide" /\ pc'[w] = "check"
      /\ \A v \in Workers : v # w => pc'[v] = pc[v] /\ ele'[v] = ele[v] /\ status'[v] = status[v]
      /\ q' = QPush(e)
  BY DEF Requeue, Goto, TypeOK, history
<1>2. ele[w] \in Ele /\ ele[w].chn \in Channels
  BY <1>1, Held DEF Holding
<1>3. e \in Ele /\ e.chn = ele[w].chn
      /\ e.since_last_req = IF status[w] = "CHRPC_SUCCESS" THEN clock ELSE ele[w].since_last_req
  BY <1>2 DEF Ele, TypeOK
<1>4. Recent(e)
  <2>1. CASE status[w] = "CHRPC_SUCCESS"
    <3>1. touched[ele[w].chn] <= clock
      BY <1>2 DEF TimedInv
    <3> HIDE DEF e
    <3> QED BY <1>3, <2>1, <3>1 DEF Recent
  <2>2. CASE status[w] # "CHRPC_SUCCESS"
    <3>1. Waits(w)
      BY <1>1, <2>2 DEF Requeue, Disconnects, Waits, Holding
    <3>2. Recent(ele[w])
      BY <3>1 DEF TimedInv
    <3> HIDE DEF e
    <3> QED BY <1>3, <2>2, <3>2 DEF Recent
  <2> QED BY <2>1, <2>2
<1> HIDE DEF e
<1>5. \A i \in DOMAIN q' : Recent(q'[i])
  <2>1. CASE Len(q) = MaxConnections
    BY <1>1, <2>1 DEF QPush, TimedInv
  <2>2. CASE Len(q) # MaxConnections
    <3>1. q' = Append(q, e)
      BY <1>1, <2>2 DEF QPush
    <3>2. /\ DOMAIN q' = 1..(Len(q) + 1) /\ q'[Len(q) + 1] = e /\ DOMAIN q = 1..Len(q)
          /\ \A i \in 1..Len(q) : q'[i] = q[i]
          /\ Len(q) \in Nat
      BY <1>3, <3>1, PushCells DEF TypeOK
    <3> QED BY <1>4, <3>2 DEF TimedInv
  <2> QED BY <2>1, <2>2
<1>6. \A v \in Workers : Waits(v)' => v # w /\ Waits(v)
  BY <1>1 DEF Waits, Holding
<1> QED BY <1>1, <1>5, <1>6, TimedQuiet DEF TimedInv

LEMMA TimedWorker ==
    ASSUME TypeOK, SoleOwner, TimedInv, NEW w \in Workers, Worker(w)
    PROVE  TimedInv'
<1>1. CASE CheckExit(w) \/ Receive(w) \/ DeleteChannel(w) \/ ReleaseSlot(w) \/ OnDisconnect(w)
  <2>1. /\ UNCHANGED <<q, clock, touched>>
        /\ \A v \in Workers : v # w => pc'[v] = pc[v] /\ ele'[v] = ele[v] /\ status'[v] = status[v]
    BY <1>1 DEF CheckExit, Receive, DeleteChannel, ReleaseSlot, OnDisconnect, Goto, TypeOK,
                serverVars, history
  <2>2. Waits(w)' => Waits(w) /\ ele'[w] = ele[w]
    <3>1. CASE Receive(w)
      <4>1. ele'[w] = ele[w] /\ pc[w] = "receive"
        BY <3>1 DEF Receive
      <4>2. status[w] = None
        BY <4>1 DEF TypeOK
      <4> QED BY <4>1, <4>2, Inputs DEF Waits, Holding, Statuses
    <3>2. CASE ~Receive(w)
      <4>1. pc'[w] \notin Holding
        BY <1>1, <3>2 DEF CheckExit, DeleteChannel, ReleaseSlot, OnDisconnect, Goto, TypeOK,
                          Holding
      <4> QED BY <4>1 DEF Waits
    <3> QED BY <3>1, <3>2
  <2>3. \A v \in Workers : Waits(v)' => Waits(v) /\ ele'[v] = ele[v]
    BY <2>1, <2>2 DEF Waits
  <2> QED BY <2>1, <2>3, TimedQuiet DEF TimedInv
<1>2. CASE QPoll(w) \/ Requeue(w)
  BY <1>2, TimedPoll, TimedRequeue
<1>3. CASE HandleRequest(w) \/ \E o \in Outcomes : SendResponse(w, o)
  <2>1. /\ UNCHANGED <<q, ele, clock>> /\ pc[w] \in {"handle", "calling"}
        /\ \A v \in Workers : v # w => pc'[v] = pc[v]
    BY <1>3 DEF HandleRequest, SendResponse, Goto, TypeOK, serverVars
  <2>2. pc[w] \in Holding /\ status[w] = None /\ Waits(w)
    <3>1. pc[w] \in Holding /\ status[w] = None
      BY <2>1 DEF TypeOK, Holding
    <3> QED BY <3>1, Inputs DEF Waits, Statuses
  <2>3. CASE touched' = touched /\ \A v \in Workers : v # w => status'[v] = status[v]
    <3>1. \A v \in Workers : Waits(v)' => Waits(v)
      BY <2>1, <2>2, <2>3 DEF Waits
    <3> QED BY <2>1, <2>3, <3>1, TimedQuiet DEF TimedInv
  <2>4. CASE \E s, last : \E then \in {"CHRPC_SUCCESS", "CHRPC_DISCONNECT"} :
                 Send(w, s, last, then)
    BY <2>1, <2>2, <2>4, TimedSend
  <2>5. CASE HandleRequest(w)
    BY <2>3, <2>4, <2>5 DEF HandleRequest, SendErrorResponse, TypeOK
  <2>6. ASSUME NEW o \in Outcomes, SendResponse(w, o) PROVE TimedInv'
    <3>1. CASE o.ret = "wrong_type"
      BY <2>3, <2>6, <3>1 DEF SendResponse, TypeOK
    <3>2. CASE o.ret # "wrong_type"
      BY <2>4, <2>6, <3>2 DEF SendResponse, SendErrorResponse
    <3> QED BY <3>1, <3>2
  <2> QED BY <1>3, <2>5, <2>6
<1> QED BY <1>1, <1>2, <1>3 DEF Worker

(* A channel that is given is no older than now.                             *)
LEMMA TimedGive ==
    ASSUME TypeOK, SoleOwner, TimedInv, NEW c \in Channels, NEW mms \in MsgSizes,
           GiveChannel(c, mms)
    PROVE  TimedInv'
<1>1. UNCHANGED <<pc, ele, status, clock>> /\ chan[c] = "caller"
  BY DEF GiveChannel, workerVars
<1>2. \A v \in Workers : Waits(v)' <=> Waits(v)
  BY <1>1 DEF Waits
<1>3. CASE q' = q /\ touched' = touched
  BY <1>1, <1>2, <1>3, TimedQuiet DEF TimedInv
<1>4. CASE Accept(c)
  <2> DEFINE e == [chn |-> c, id |-> id_counter, since_last_req |-> clock]
  <2>1. e \in Ele /\ e.chn = c /\ e.since_last_req = clock
    BY DEF TypeOK, Ele
  <2>2. q' = QPush(e) /\ touched' = [touched EXCEPT ![c] = clock]
    BY <1>4 DEF Accept
  <2> HIDE DEF e
  <2>3. \A i \in DOMAIN q : q[i].chn # c
    BY <1>1 DEF SoleOwner
  <2>4. \A v \in Workers : Waits(v) => ele[v].chn # c
    BY <1>1 DEF SoleOwner, Waits
  <2>5. ASSUME NEW i \in DOMAIN q'
        PROVE  \/ q'[i].chn # c /\ Recent(q'[i])
               \/ q'[i].chn = c /\ q'[i].since_last_req = clock
    <3>1. CASE Len(q) = MaxConnections
      BY <2>2, <2>3, <2>5, <3>1 DEF QPush, TimedInv
    <3>2. CASE Len(q) # MaxConnections
      <4>1. q' = Append(q, e)
        BY <2>2, <3>2 DEF QPush
      <4>2. /\ DOMAIN q' = 1..(Len(q) + 1) /\ q'[Len(q) + 1] = e /\ DOMAIN q = 1..Len(q)
            /\ \A j \in 1..Len(q) : q'[j] = q[j]
            /\ Len(q) \in Nat
        BY <2>1, <4>1, PushCells DEF TypeOK
      <4> QED BY <2>1, <2>3, <4>2 DEF TimedInv
    <3> QED BY <3>1, <3>2
  <2>6. \A v \in Workers : Waits(v)' => ele'[v].chn # c /\ Recent(ele'[v])
    BY <1>1, <1>2, <2>4 DEF TimedInv
  <2> QED BY <1>1, <2>2, <2>5, <2>6, TimedTouch
<1> QED BY <1>3, <1>4 DEF GiveChannel, Refuse, serverVars

LEMMA NextTimed == IInv /\ TimedInv /\ [Next]_vars => TimedInv'
<1> SUFFICES ASSUME IInv, TimedInv, [Next]_vars PROVE TimedInv'
  OBVIOUS
<1>1. TypeOK /\ SoleOwner
  BY DEF IInv
<1>2. ASSUME NEW w \in Workers, Worker(w) PROVE TimedInv'
  BY <1>1, <1>2, TimedWorker
<1>3. ASSUME NEW c \in Channels, NEW mms \in MsgSizes, GiveChannel(c, mms) PROVE TimedInv'
  BY <1>1, <1>3, TimedGive
<1>4. CASE /\ UNCHANGED <<pc, ele, status, touched>>
           /\ clock' = clock \/ clock' = clock + 1
           /\ q' = q \/ (q # <<>> /\ q' = Tail(q))
  <2>1. \A i \in DOMAIN q' : Recent(q'[i])
    <3>1. CASE q' = q
      BY <3>1 DEF TimedInv
    <3>2. CASE q # <<>> /\ q' = Tail(q)
      <4>1. /\ DOMAIN Tail(q) = 1..(Len(q) - 1)
            /\ \A i \in 1..(Len(q) - 1) : Tail(q)[i] = q[i + 1] /\ i + 1 \in DOMAIN q
        BY <1>1, <3>2, PollCells DEF TypeOK
      <4> QED BY <3>2, <4>1 DEF TimedInv
    <3> QED BY <1>4, <3>1, <3>2
  <2>2. \A v \in Workers : Waits(v)' => Waits(v)
    BY <1>4 DEF Waits
  <2> QED BY <1>1, <1>4, <2>1, <2>2, TimedQuiet DEF TimedInv
<1>5. ASSUME NEW c \in Channels, (\E v \in Verdicts : ClientSend(c, v)) \/ ChannelFault(c)
      PROVE  TimedInv'
  BY <1>4, <1>5 DEF ClientSend, ChannelFault, serverVars, workerVars, history
<1>6. CASE Tick \/ DeleteServer \/ Freed \/ UNCHANGED vars
  BY <1>4, <1>6 DEF Tick, DeleteServer, SetShouldExit, JoinWorkers, DrainQueue, FreeServer, Freed,
                    vars, serverVars, workerVars, history
<1> QED BY <1>2, <1>3, <1>5, <1>6 DEF Next, Client

LEMMA TimedAlways == Spec => []TimedInv
<1>1. Init => TimedInv
  BY DEF Init, TimedInv, Waits, Holding
<1> QED BY <1>1, InductiveInvariant, NextTimed, PTL DEF Spec

(* A connection is cut for idleness only after more than idle_timeout        *)
(* seconds without an answer, however many workers polled it in between: the *)
(* time travels with the element (rpc_server.c:474-482).                     *)
THEOREM SilenceBeforeCut == Spec => IdleOnlyAfterSilence
<1>1. IInv /\ TimedInv /\ [Next]_vars
        => [\A w \in Workers : CutForIdleness(w) => clock - touched[ele[w].chn] > IdleTimeout]_vars
  <2> SUFFICES ASSUME IInv, TimedInv, Next, NEW w \in Workers, CutForIdleness(w)
               PROVE  clock - touched[ele[w].chn] > IdleTimeout
    OBVIOUS
  <2>1. TypeOK /\ pc[w] = "decide" /\ pc'[w] = "release"
        /\ status[w] = "CHRPC_CLIENT_CHANNEL_EMTPY"
    BY DEF IInv, CutForIdleness
  <2>2. Recent(ele[w])
    BY <2>1 DEF TimedInv, Waits, Holding
  <2>3. ele[w].since_last_req \in Nat /\ ele[w].chn \in Channels
    BY <2>1, Held DEF Holding
  <2>4. touched[ele[w].chn] \in Nat /\ clock \in Nat /\ IdleTimeout \in Nat
    BY <2>1, <2>3, ServerAttrs DEF TypeOK
  <2>5. DeleteChannel(w)
    <3>1. ASSUME NEW v \in Workers, Worker(v) PROVE v = w
      BY <2>1, <3>1 DEF Worker, CheckExit, QPoll, Receive, HandleRequest, SendResponse, Requeue,
                        DeleteChannel, ReleaseSlot, OnDisconnect, Goto, TypeOK
    <3>2. ~Client /\ ~Tick /\ ~DeleteServer /\ ~Freed
      BY <2>1 DEF Client, GiveChannel, ClientSend, ChannelFault, Tick, DeleteServer, SetShouldExit,
                  JoinWorkers, DrainQueue, FreeServer, Freed, workerVars, vars
    <3>3. Worker(w)
      BY <3>1, <3>2 DEF Next
    <3> QED BY <2>1, <3>3 DEF Worker, CheckExit, QPoll, Receive, HandleRequest, SendResponse,
                              Requeue, ReleaseSlot, OnDisconnect, Goto, TypeOK
  <2>6. clock > ele[w].since_last_req + IdleTimeout
    BY <2>1, <2>5 DEF DeleteChannel, Disconnects, Idle
  <2> QED BY <2>2, <2>3, <2>4, <2>6 DEF Recent
<1> QED BY <1>1, InductiveInvariant, TimedAlways, PTL DEF Spec, IdleOnlyAfterSilence

-----------------------------------------------------------------------------
(* The server as a set of connections.                                      *)
-----------------------------------------------------------------------------

Connected == {c \in Channels : chan[c] = "server"}
Gone == {c \in Channels : chan[c] = "deleted"}

(* The workers that have deleted a channel and not reported it.              *)
Parted == {w \in Workers : pc[w] \in {"release", "notify"}}

(* Each report is of a channel of its own that was deleted before.           *)
ReportInv ==
    /\ IsFiniteSet(notified)
    /\ Cardinality(notified) + Cardinality(Parted) <= Cardinality(Gone)

LEMMA Finite ==
    /\ IsFiniteSet(Gone) /\ IsFiniteSet(Parted) /\ IsFiniteSet(Connected)
    /\ Cardinality(Gone) \in Nat /\ Cardinality(Parted) \in Nat
    /\ Cardinality(Connected) \in Nat
<1>1. Gone \subseteq Channels /\ Parted \subseteq Workers /\ Connected \subseteq Channels
  BY DEF Gone, Parted, Connected
<1> QED BY <1>1, ServerAttrs, FS_Subset, FS_CardinalityType

LEMMA InitReports == Init => ReportInv
<1> SUFFICES ASSUME Init PROVE ReportInv
  OBVIOUS
<1>1. notified = {} /\ Parted = {} /\ Gone = {}
  BY DEF Init, Parted, Gone
<1>2. IsFiniteSet({}) /\ Cardinality({}) = 0
  BY FS_EmptySet
<1> QED BY <1>1, <1>2 DEF ReportInv

(* Connections, with the variables of RpcServer put in.                      *)
Answers == [c \in Channels |-> Len(out[c])]

Outside == <<Connected, Gone, Answers, Cardinality(notified)>>

Visible ==
    \/ UNCHANGED Outside
    \/ \E c \in Channels :
          /\ c \notin Connected \cup Gone /\ Cardinality(Connected) < MaxConnections
          /\ Connected' = Connected \cup {c}
          /\ UNCHANGED <<Gone, Answers, Cardinality(notified)>>
    \/ \E c \in Channels :
          /\ c \in Connected
          /\ Answers' = [Answers EXCEPT ![c] = Answers[c] + 1]
          /\ UNCHANGED <<Connected, Gone, Cardinality(notified)>>
    \/ \E c \in Channels :
          /\ c \in Connected
          /\ Connected' = Connected \ {c} /\ Gone' = Gone \cup {c}
          /\ UNCHANGED <<Answers, Cardinality(notified)>>
    \/ /\ Cardinality(notified) < Cardinality(Gone)
       /\ Cardinality(notified)' = Cardinality(notified) + 1
       /\ UNCHANGED <<Connected, Gone, Answers>>

LEMMA SameCount == \A S : Service!Cardinality(S) = Cardinality(S)
  BY DEF Service!Cardinality, Cardinality

LEMMA VisibleImplements == Visible => [Service!CNext]_(Service!cvars)
<1> SUFFICES ASSUME Visible PROVE [Service!CNext]_(Service!cvars)
  OBVIOUS
<1> USE DEF Connected, Gone, Answers
<1>1. CASE UNCHANGED Outside
  BY <1>1 DEF Outside, Service!cvars
<1>2. ASSUME NEW c \in Channels,
             c \notin Connected \cup Gone, Cardinality(Connected) < MaxConnections,
             Connected' = Connected \cup {c},
             UNCHANGED <<Gone, Answers, Cardinality(notified)>>
      PROVE  Service!Admit(c)
  BY <1>2, SameCount DEF Service!Admit
<1>3. ASSUME NEW c \in Channels, c \in Connected,
             Answers' = [Answers EXCEPT ![c] = Answers[c] + 1],
             UNCHANGED <<Connected, Gone, Cardinality(notified)>>
      PROVE  Service!Answer(c)
  BY <1>3 DEF Service!Answer
<1>4. ASSUME NEW c \in Channels, c \in Connected,
             Connected' = Connected \ {c}, Gone' = Gone \cup {c},
             UNCHANGED <<Answers, Cardinality(notified)>>
      PROVE  Service!Leave(c)
  BY <1>4 DEF Service!Leave
<1>5. ASSUME Cardinality(notified) < Cardinality(Gone),
             Cardinality(notified)' = Cardinality(notified) + 1,
             UNCHANGED <<Connected, Gone, Answers>>
      PROVE  Service!Report
  BY <1>5, SameCount DEF Service!Report
<1> QED BY <1>1, <1>2, <1>3, <1>4, <1>5 DEF Visible, Service!CNext

-----------------------------------------------------------------------------
(* The steps.                                                               *)

LEMMA QuietVisible ==
    ASSUME ReportInv, UNCHANGED <<chan, out, notified>>, Parted' = Parted
    PROVE  Visible /\ ReportInv'
<1>1. Connected' = Connected /\ Gone' = Gone /\ Answers' = Answers
  BY DEF Connected, Gone, Answers
<1> QED BY <1>1 DEF Visible, Outside, ReportInv

(* delete_channel of a channel the server owns, by a worker that will report *)
(* it or by the owner of the server, who will not.                           *)
LEMMA DestroyVisible ==
    ASSUME TypeOK, ReportInv, NEW c \in Channels, chan[c] = "server", Destroy(c),
           UNCHANGED <<out, notified>>,
           Parted' = Parted \/ \E w \in Workers : Parted' = Parted \cup {w}
    PROVE  Visible /\ ReportInv'
<1>1. chan' = [chan EXCEPT ![c] = "deleted"] /\ chan \in [Channels -> {"caller", "server", "deleted"}]
  BY DEF Destroy, TypeOK
<1>2. /\ c \in Connected /\ c \notin Gone
      /\ Connected' = Connected \ {c} /\ Gone' = Gone \cup {c} /\ Answers' = Answers
  BY <1>1 DEF Connected, Gone, Answers
<1>3. Cardinality(Gone') = Cardinality(Gone) + 1
  BY <1>2, Finite, FS_AddElement
<1>4. Cardinality(Parted') <= Cardinality(Parted) + 1 /\ Cardinality(Parted') \in Nat
  <2>1. CASE Parted' = Parted
    BY <2>1, Finite
  <2>2. ASSUME NEW w \in Workers, Parted' = Parted \cup {w}
        PROVE  Cardinality(Parted') <= Cardinality(Parted) + 1 /\ Cardinality(Parted') \in Nat
    <3>1. Cardinality(Parted \cup {w}) \in {Cardinality(Parted), Cardinality(Parted) + 1}
      BY Finite, FS_AddElement
    <3> QED BY <2>2, <3>1, Finite
  <2> QED BY <2>1, <2>2
<1>5. Cardinality(notified) \in Nat
  BY FS_CardinalityType DEF ReportInv
<1>6. ReportInv'
  BY <1>3, <1>4, <1>5, Finite DEF ReportInv
<1> QED BY <1>2, <1>6 DEF Visible

LEMMA SendVisible ==
    ASSUME TypeOK, SoleOwner, ReportInv, NEW w \in Workers, pc[w] \in {"handle", "calling"},
           NEW s, NEW last, NEW then, Send(w, s, last, then),
           UNCHANGED <<chan, notified>>, Parted' = Parted
    PROVE  Visible /\ ReportInv'
<1>1. PICK c \in Channels : c = ele[w].chn /\ chan[c] = "server"
  BY HeldChannel DEF Holding
<1>2. CASE out' = out
  BY <1>2, QuietVisible
<1>3. CASE out' # out
  <2> DEFINE r == [n |-> req[w].n, status |-> s, last |-> last]
  <2>1. out' = [out EXCEPT ![c] = Append(out[c], r)]
    BY <1>1, <1>3 DEF Send
  <2> HIDE DEF r
  <2>2. out[c] \in Seq(Resp) /\ out \in [Channels -> Seq(Resp)]
    BY DEF TypeOK
  <2>3. Len(Append(out[c], r)) = Len(out[c]) + 1
    BY <2>2
  <2>4. Answers' = [Answers EXCEPT ![c] = Answers[c] + 1]
    <3>1. \A d \in Channels : Len(out'[d]) = IF d = c THEN Len(out[c]) + 1 ELSE Len(out[d])
      BY <2>1, <2>2, <2>3
    <3> QED BY <3>1 DEF Answers
  <2>5. c \in Connected /\ Connected' = Connected /\ Gone' = Gone
    BY <1>1 DEF Connected, Gone
  <2>6. ReportInv'
    BY <2>5 DEF ReportInv
  <2> QED BY <2>4, <2>5, <2>6 DEF Visible
<1> QED BY <1>2, <1>3

LEMMA ReportVisible ==
    ASSUME TypeOK, IdsFresh, ReportInv, NEW w \in Workers, OnDisconnect(w)
    PROVE  Visible /\ ReportInv'
<1>1. /\ pc[w] = "notify" /\ pc' = [pc EXCEPT ![w] = "check"] /\ pc \in [Workers -> Labels]
      /\ UNCHANGED <<chan, out>> /\ notified' = notified \cup {ele[w].id}
      /\ ele[w] # None
  BY DEF OnDisconnect, Goto, TypeOK
<1>2. ele[w].id \notin notified
  BY <1>1 DEF IdsFresh, Using
<1>3. /\ IsFiniteSet(notified') /\ Cardinality(notified') = Cardinality(notified) + 1
      /\ Cardinality(notified) \in Nat
  BY <1>1, <1>2, FS_AddElement, FS_CardinalityType DEF ReportInv
<1>4. w \in Parted /\ Parted' = Parted \ {w} /\ Connected' = Connected /\ Gone' = Gone
      /\ Answers' = Answers
  BY <1>1 DEF Parted, Connected, Gone, Answers
<1>5. Cardinality(Parted') = Cardinality(Parted) - 1 /\ Cardinality(Parted') \in Nat
  BY <1>4, Finite, FS_RemoveElement, FS_CardinalityType
<1>6. Cardinality(notified) < Cardinality(Gone)
  BY <1>3, <1>5, Finite DEF ReportInv
<1>7. ReportInv'
  BY <1>3, <1>4, <1>5, Finite DEF ReportInv
<1> QED BY <1>3, <1>4, <1>6, <1>7 DEF Visible

LEMMA GiveVisible ==
    ASSUME TypeOK, Accounting, ReportInv, NEW c \in Channels, NEW mms \in MsgSizes,
           GiveChannel(c, mms)
    PROVE  Visible /\ ReportInv'
<1>1. UNCHANGED <<pc, out, notified>> /\ chan[c] = "caller" /\ main = "running"
  BY DEF GiveChannel, workerVars
<1>2. Parted' = Parted
  BY <1>1 DEF Parted
<1>3. CASE chan' = chan
  BY <1>1, <1>2, <1>3, QuietVisible
<1>4. CASE chan' # chan
  <2>1. chan' = [chan EXCEPT ![c] = "server"] /\ ~Full
    BY <1>4 DEF GiveChannel, Refuse, Accept
  <2>2. /\ c \notin Connected \cup Gone /\ Connected' = Connected \cup {c} /\ Gone' = Gone
        /\ Answers' = Answers
    BY <1>1, <2>1 DEF Connected, Gone, Answers, TypeOK
  <2>3. Cardinality(Connected) < MaxConnections
    <3>1. Connected \subseteq Slots
      BY DEF Connected, Slots
    <3>2. Cardinality(Connected) <= Cardinality(Slots)
      BY <3>1, SlotsFinite, FS_Subset
    <3>3. num_channels = Cardinality(Slots) /\ num_channels \in 0..MaxConnections
          /\ num_channels # MaxConnections /\ MaxConnections \in Nat
      BY <1>1, <2>1, ServerAttrs DEF Accounting, TypeOK, Full
    <3> QED BY <3>2, <3>3, Finite
  <2>4. ReportInv'
    BY <1>1, <1>2, <2>2 DEF ReportInv
  <2> QED BY <1>1, <2>2, <2>3, <2>4 DEF Visible
<1> QED BY <1>3, <1>4

LEMMA WorkerVisible ==
    ASSUME TypeOK, SoleOwner, IdsFresh, ReportInv, NEW w \in Workers, Worker(w)
    PROVE  Visible /\ ReportInv'
<1>0. pc \in [Workers -> Labels]
  BY DEF TypeOK
<1>1. CASE CheckExit(w) \/ QPoll(w) \/ Receive(w) \/ Requeue(w) \/ ReleaseSlot(w)
  <2>1. UNCHANGED <<chan, out, notified>>
    BY <1>1 DEF CheckExit, QPoll, Receive, Requeue, ReleaseSlot, history
  <2>2. Parted' = Parted
    BY <1>0, <1>1 DEF CheckExit, QPoll, Receive, Requeue, ReleaseSlot, Goto, Parted
  <2> QED BY <2>1, <2>2, QuietVisible
<1>2. CASE HandleRequest(w) \/ \E o \in Outcomes : SendResponse(w, o)
  <2>1. /\ pc[w] \in {"handle", "calling"} /\ UNCHANGED <<chan, notified>>
        /\ \E label \in {"calling", "decide"} : pc' = [pc EXCEPT ![w] = label]
        /\ out' = out \/ \E s, last, then : Send(w, s, last, then)
    BY <1>2 DEF HandleRequest, SendResponse, SendErrorResponse, Goto
  <2>2. Parted' = Parted
    BY <1>0, <2>1 DEF Parted
  <2> QED BY <2>1, <2>2, QuietVisible, SendVisible
<1>3. CASE DeleteChannel(w)
  <2>1. /\ pc[w] \in Holding /\ Destroy(ele[w].chn) /\ UNCHANGED <<out, notified>>
        /\ pc' = [pc EXCEPT ![w] = "release"]
    BY <1>3 DEF DeleteChannel, Goto, Holding, history
  <2>2. ele[w].chn \in Channels /\ chan[ele[w].chn] = "server"
    BY <2>1, HeldChannel
  <2>3. Parted' = Parted \cup {w}
    BY <1>0, <2>1 DEF Parted
  <2> QED BY <2>1, <2>2, <2>3, DestroyVisible
<1>4. CASE OnDisconnect(w)
  BY <1>4, ReportVisible
<1> QED BY <1>1, <1>2, <1>3, <1>4 DEF Worker

LEMMA NextVisible ==
    ASSUME IInv, IdsFresh, ReportInv, [Next]_vars
    PROVE  Visible /\ ReportInv'
<1>1. TypeOK /\ SoleOwner /\ Accounting
  BY DEF IInv
<1>2. CASE \E c \in Channels, mms \in MsgSizes : GiveChannel(c, mms)
  BY <1>1, <1>2, GiveVisible
<1>3. CASE \E w \in Workers : Worker(w)
  BY <1>1, <1>3, WorkerVisible
<1>4. CASE DrainQueue
  <2>1. /\ q # <<>> /\ Destroy(Head(q).chn) /\ UNCHANGED <<pc, out, notified>>
    BY <1>4 DEF DrainQueue, workerVars, history
  <2>2. 1 \in DOMAIN q /\ Head(q) = q[1] /\ q[1].chn \in Channels
    BY <1>1, <2>1, PollCells, QueuedChannels DEF TypeOK
  <2>3. chan[Head(q).chn] = "server"
    BY <1>1, <2>2 DEF SoleOwner
  <2>4. Parted' = Parted
    BY <2>1 DEF Parted
  <2> QED BY <1>1, <2>1, <2>2, <2>3, <2>4, DestroyVisible
<1>5. ASSUME UNCHANGED <<chan, out, notified, pc>> PROVE Visible /\ ReportInv'
  <2>1. Parted' = Parted
    BY <1>5 DEF Parted
  <2> QED BY <1>5, <2>1, QuietVisible
<1>6. CASE \/ \E c \in Channels, v \in Verdicts : ClientSend(c, v)
           \/ \E c \in Channels : ChannelFault(c)
           \/ Tick \/ SetShouldExit \/ JoinWorkers \/ FreeServer \/ Freed \/ UNCHANGED vars
  BY <1>5, <1>6 DEF ClientSend, ChannelFault, Tick, SetShouldExit, JoinWorkers, FreeServer, Freed,
                    vars, workerVars, history
<1> QED BY <1>2, <1>3, <1>4, <1>6 DEF Next, Client, DeleteServer

(* Whatever the threads do, callers and clients see a set of connections,    *)
(* at most max_connections of them, that only grows by a channel that was    *)
(* never in it, and a report for each end at most (rpc_server.h:128-176).    *)
THEOREM ServerIsConnections == Spec => ImplementsConnections
<1>1. Init => Service!CInit
  <2> SUFFICES ASSUME Init PROVE Service!CInit
    OBVIOUS
  <2>1. {c \in Channels : chan[c] = "server"} = {} /\ {c \in Channels : chan[c] = "deleted"} = {}
    BY DEF Init
  <2>2. Len(<<>>) = 0 /\ \A c \in Channels : out[c] = <<>>
    BY DEF Init
  <2>3. [c \in Channels |-> Len(out[c])] = [c \in Channels |-> 0]
    BY <2>2
  <2>4. Cardinality(notified) = 0
    BY FS_EmptySet DEF Init
  <2> QED BY <2>1, <2>3, <2>4 DEF Service!CInit
<1>2. IInv /\ IdsFresh /\ ReportInv /\ [Next]_vars => Visible /\ ReportInv'
  BY NextVisible
<1> QED BY <1>1, <1>2, InitReports, VisibleImplements, InductiveInvariant, IdsStayFresh, PTL
        DEF Spec, ImplementsConnections, Service!CSpec
=============================================================================
