----------------------------- MODULE RpcServer -----------------------------
(***************************************************************************)
(* The RPC server of chrpc (chrpc/src/rpc_server.c).                       *)
(*                                                                         *)
(* A server owns a cyclic queue of channels.  Each worker thread polls one *)
(* channel off the queue, looks for one request, answers it, and either    *)
(* pushes the channel back or destroys it.  q_mut guards the queue,        *)
(* num_channels and id_counter; everything else a worker does, it does     *)
(* without a lock.  Hence one action per critical section, and one per     *)
(* unlocked call another thread or the client can observe.                 *)
(***************************************************************************)
EXTENDS Integers, Sequences, FiniteSets

CONSTANTS
    Workers,         \* attrs.num_workers worker threads
    Channels,        \* every channel_t the callers may ever offer
    MaxConnections,  \* attrs.max_connections, the capacity of the queue
    IdleTimeout,     \* attrs.idle_timeout, 0 for none
    MaxMsgSize,      \* attrs.max_msg_size
    BufMinSize,      \* CHRPC_SERVER_BUF_MIN_SIZE
    MsgSizes,        \* the max message sizes of the offered channels
    IdMax,           \* UINT64_MAX
    Verdicts,        \* how the dispatch of the sent requests ends
    Outcomes,        \* what the called endpoints do
    MaxReqs,         \* bound: requests sent over one channel
    MaxSent,         \* bound: requests sent over all of them
    MaxTime,         \* bound: seconds that pass
    None             \* no element, no request, no result

Commands == {"CHRPC_SC_DISCONNECT", "CHRPC_SC_KEEP_ALIVE"}
Ele == [chn : Channels, id : Nat, since_last_req : Nat]
Req == [n : Nat, verdict : Verdicts]
Resp == [n : Nat, status : Verdicts \cup {"CHRPC_SUCCESS", "CHRPC_BUFFER_TOO_SMALL"},
         last : BOOLEAN]
Statuses == {"CHRPC_SUCCESS", "CHRPC_CLIENT_CHANNEL_EMTPY", "CHRPC_CLIENT_CHANNEL_ERROR",
             "CHRPC_DISCONNECT", "CHRPC_SERVER_INTERNAL_ERROR"}

(* new_chrpc_server refuses every other choice of the attributes. *)
ASSUME ServerAttrs ==
    /\ IsFiniteSet(Workers) /\ Workers # {}
    /\ IsFiniteSet(Channels)
    /\ MaxConnections \in Nat \ {0}
    /\ MaxConnections >= Cardinality(Workers)
    /\ MaxMsgSize \in Nat /\ BufMinSize \in Nat /\ MaxMsgSize >= BufMinSize
    /\ MsgSizes \subseteq Nat
    /\ IdleTimeout \in Nat /\ IdMax \in Nat
    /\ MaxReqs \in Nat /\ MaxSent \in Nat /\ MaxTime \in Nat

ASSUME Inputs ==
    /\ Outcomes \subseteq [cmd : Commands, ret : {"fits", "too_big", "wrong_type"}]
    /\ None \notin Ele /\ None \notin Req /\ None \notin Statuses

VARIABLES
    q, num_channels, id_counter,  \* guarded by q_mut
    should_exit,                  \* guarded by should_exit_mut
    pc, ele, req, status,         \* the locals of a worker
    main,                         \* where the owner of the server is
    chan,                         \* who owns a channel
    inq, out,                     \* requests not yet received, responses sent
    sent, broken,                 \* requests sent, the channel is unusable
    ret,                          \* last result of chrpc_server_give_channel
    clock,                        \* time(NULL)
    touched, notified             \* history: last answer, on_disconnect calls

serverVars == <<q, num_channels, id_counter, should_exit>>
workerVars == <<pc, ele, req, status>>
clientVars == <<inq, sent, broken>>
history == <<touched, notified>>
vars == <<serverVars, workerVars, main, chan, clientVars, out, ret, clock, history>>

Init ==
    /\ q = <<>> /\ num_channels = 0 /\ id_counter = 0 /\ should_exit = FALSE
    /\ pc = [w \in Workers |-> "check"]
    /\ ele = [w \in Workers |-> None]
    /\ req = [w \in Workers |-> None]
    /\ status = [w \in Workers |-> None]
    /\ main = "running"
    /\ chan = [c \in Channels |-> "caller"]
    /\ inq = [c \in Channels |-> <<>>]
    /\ out = [c \in Channels |-> <<>>]
    /\ sent = [c \in Channels |-> 0]
    /\ broken = [c \in Channels |-> FALSE]
    /\ ret = [c \in Channels |-> None]
    /\ clock = 0
    /\ touched = [c \in Channels |-> 0]
    /\ notified = {}

-----------------------------------------------------------------------------
(* chutil/src/queue.c on the sequence the cyclic table stands for: both     *)
(* report a failure with 1, and the server only ever looks at q_poll's.     *)

LifoPush(e) == IF Len(q) = MaxConnections THEN q ELSE <<e>> \o q  \* variant: newest first

QPush(e) == IF Len(q) = MaxConnections THEN q ELSE Append(q, e)

-----------------------------------------------------------------------------
(* The callers of the library and the clients.                              *)

(* chrpc_server_give_channel refuses a channel of the wrong message size    *)
(* before it takes the lock, and a channel the server has no room or no id  *)
(* for under the lock.  A refused channel stays with the caller.            *)
Refuse(c, err) ==
    /\ ret' = [ret EXCEPT ![c] = err]
    /\ UNCHANGED <<serverVars, chan, touched>>

IdFromCount(c) ==     \* variant: ids are taken from the number of channels
    /\ q' = QPush([chn |-> c, id |-> num_channels, since_last_req |-> clock])
    /\ id_counter' = id_counter + 1
    /\ num_channels' = num_channels + 1
    /\ chan' = [chan EXCEPT ![c] = "server"]
    /\ ret' = [ret EXCEPT ![c] = "CHRPC_SUCCESS"]
    /\ touched' = [touched EXCEPT ![c] = clock]
    /\ UNCHANGED should_exit

Uncounted(c) ==       \* variant: num_channels++ is missing
    /\ q' = QPush([chn |-> c, id |-> id_counter, since_last_req |-> clock])
    /\ id_counter' = id_counter + 1
    /\ chan' = [chan EXCEPT ![c] = "server"]
    /\ ret' = [ret EXCEPT ![c] = "CHRPC_SUCCESS"]
    /\ touched' = [touched EXCEPT ![c] = clock]
    /\ UNCHANGED <<num_channels, should_exit>>

Accept(c) ==
    /\ q' = QPush([chn |-> c, id |-> id_counter, since_last_req |-> clock])
    /\ id_counter' = id_counter + 1
    /\ num_channels' = num_channels + 1
    /\ chan' = [chan EXCEPT ![c] = "server"]
    /\ ret' = [ret EXCEPT ![c] = "CHRPC_SUCCESS"]
    /\ touched' = [touched EXCEPT ![c] = clock]
    /\ UNCHANGED should_exit

QueueFull == Len(q) = MaxConnections \/ id_counter = IdMax  \* variant: q_full for num_channels

NoLimit == id_counter = IdMax                               \* variant: the first test is missing

Full == num_channels = MaxConnections \/ id_counter = IdMax

GiveChannel(c, mms) ==
    /\ main = "running"
    /\ chan[c] = "caller"
    /\ \/ /\ mms < BufMinSize \/ MaxMsgSize < mms
          /\ Refuse(c, "CHRPC_BUFFER_TOO_SMALL")
       \/ /\ mms \in BufMinSize..MaxMsgSize
          /\ Full
          /\ Refuse(c, "CHRPC_SERVER_FULL")
       \/ /\ mms \in BufMinSize..MaxMsgSize
          /\ ~Full
          /\ Accept(c)
    /\ UNCHANGED <<workerVars, main, clientVars, out, clock, notified>>

(* delete_channel: what was not received is lost, and so is the peer's end. *)
Destroy(c) ==
    /\ chan' = [chan EXCEPT ![c] = "deleted"]
    /\ inq' = [inq EXCEPT ![c] = <<>>]
    /\ broken' = [broken EXCEPT ![c] = TRUE]

(* A client may write its requests ahead; the channel keeps them in order.  *)
ClientSend(c, v) ==
    /\ ~broken[c]
    /\ sent[c] < MaxReqs
    /\ Cardinality({r \in Channels \X (1..MaxReqs) : r[2] <= sent[r[1]]}) < MaxSent
    /\ sent' = [sent EXCEPT ![c] = @ + 1]
    /\ inq' = [inq EXCEPT ![c] = Append(@, [n |-> sent[c] + 1, verdict |-> v])]
    /\ UNCHANGED <<serverVars, workerVars, main, chan, broken, out, ret, clock, history>>

(* The peer goes away or the transport fails: what was written can still be *)
(* received, nothing more can be sent.                                      *)
ChannelFault(c) ==
    /\ ~broken[c]
    /\ broken' = [broken EXCEPT ![c] = TRUE]
    /\ UNCHANGED <<serverVars, workerVars, main, chan, inq, sent, out, ret, clock, history>>

Tick ==
    /\ clock < MaxTime
    /\ clock' = clock + 1
    /\ UNCHANGED <<serverVars, workerVars, main, chan, clientVars, out, ret, history>>

-----------------------------------------------------------------------------
(* chrpc_server_worker_routine.                                             *)

Goto(w, label) == pc' = [pc EXCEPT ![w] = label]

ExitWhenEmpty(w) ==   \* variant: serve every channel before leaving
    /\ pc[w] = "check"
    /\ Goto(w, IF should_exit /\ q = <<>> THEN "done" ELSE "poll")
    /\ UNCHANGED <<serverVars, ele, req, status, main, chan, clientVars, out, ret, clock, history>>

CheckExit(w) ==
    /\ pc[w] = "check"
    /\ Goto(w, IF should_exit THEN "done" ELSE "poll")
    /\ UNCHANGED <<serverVars, ele, req, status, main, chan, clientVars, out, ret, clock, history>>

QPeek(w) ==           \* variant: the channel stays in the queue while it is served
    /\ pc[w] = "poll"
    /\ \/ /\ q = <<>>
          /\ Goto(w, "check")
          /\ UNCHANGED <<q, ele>>
       \/ /\ q # <<>>
          /\ Goto(w, "receive")
          /\ ele' = [ele EXCEPT ![w] = Head(q)]
          /\ q' = Append(Tail(q), Head(q))
    /\ UNCHANGED <<num_channels, id_counter, should_exit, req, status, main, chan,
                   clientVars, out, ret, clock, history>>

QPoll(w) ==
    /\ pc[w] = "poll"
    /\ \/ /\ q = <<>>
          /\ Goto(w, "check")
          /\ UNCHANGED <<q, ele>>
       \/ /\ q # <<>>
          /\ Goto(w, "receive")
          /\ ele' = [ele EXCEPT ![w] = Head(q)]
          /\ q' = Tail(q)
    /\ UNCHANGED <<num_channels, id_counter, should_exit, req, status, main, chan,
                   clientVars, out, ret, clock, history>>

(* The first half of chrpc_poll_channel.                                    *)
Receive(w) ==
    LET c == ele[w].chn IN
    /\ pc[w] = "receive"
    /\ \/ /\ inq[c] # <<>>
          /\ req' = [req EXCEPT ![w] = Head(inq[c])]
          /\ inq' = [inq EXCEPT ![c] = Tail(@)]
          /\ Goto(w, "handle")
          /\ UNCHANGED status
       \/ /\ inq[c] = <<>>
          /\ status' = [status EXCEPT ![w] =
                IF broken[c] THEN "CHRPC_CLIENT_CHANNEL_ERROR"
                             ELSE "CHRPC_CLIENT_CHANNEL_EMTPY"]
          /\ Goto(w, "decide")
          /\ UNCHANGED <<inq, req>>
    /\ UNCHANGED <<serverVars, ele, main, chan, sent, broken, out, ret, clock, history>>

(* chn_send of the answer to the request worker w holds, and the status the *)
(* worker goes on with.                                                     *)
Send(w, resp_status, last, then) ==
    LET c == ele[w].chn IN
    /\ \/ /\ broken[c]
          /\ status' = [status EXCEPT ![w] = "CHRPC_CLIENT_CHANNEL_ERROR"]
          /\ UNCHANGED <<out, touched>>
       \/ /\ ~broken[c]
          /\ out' = [out EXCEPT ![c] =
                Append(@, [n |-> req[w].n, status |-> resp_status, last |-> last])]
          /\ touched' = [touched EXCEPT ![c] = clock]
          /\ status' = [status EXCEPT ![w] = then]

NoErrorResponse(w, err) ==   \* variant: a refused request is dropped
    status' = [status EXCEPT ![w] = "CHRPC_SUCCESS"] /\ UNCHANGED <<out, touched>>

SendErrorResponse(w, err) == Send(w, err, FALSE, "CHRPC_SUCCESS")

(* chrpc_handle_request up to the call of the endpoint: a request that does *)
(* not parse, has the wrong type, names no endpoint or brings the wrong     *)
(* arguments is answered with its error and the endpoint is not called.     *)
HandleRequest(w) ==
    /\ pc[w] = "handle"
    /\ \/ /\ req[w].verdict = "CHRPC_SUCCESS"
          /\ Goto(w, "calling")
          /\ UNCHANGED <<req, status, out, touched>>
       \/ /\ req[w].verdict # "CHRPC_SUCCESS"
          /\ SendErrorResponse(w, req[w].verdict)
          /\ req' = [req EXCEPT ![w] = None]
          /\ Goto(w, "decide")
    /\ UNCHANGED <<serverVars, ele, main, chan, clientVars, ret, clock, notified>>

(* The endpoint returns with outcome o and chrpc_send_response answers.  A  *)
(* value that does not fit is replaced by an error, and its command is lost.*)
SendResponse(w, o) ==
    /\ pc[w] = "calling"
    /\ \/ /\ o.ret = "wrong_type"
          /\ status' = [status EXCEPT ![w] = "CHRPC_SERVER_INTERNAL_ERROR"]
          /\ UNCHANGED <<out, touched>>
       \/ /\ o.ret = "too_big"
          /\ SendErrorResponse(w, "CHRPC_BUFFER_TOO_SMALL")
       \/ /\ o.ret = "fits"
          /\ IF o.cmd = "CHRPC_SC_DISCONNECT"
             THEN Send(w, "CHRPC_SUCCESS", TRUE, "CHRPC_DISCONNECT")
             ELSE Send(w, "CHRPC_SUCCESS", FALSE, "CHRPC_SUCCESS")
    /\ req' = [req EXCEPT ![w] = None]
    /\ Goto(w, "decide")
    /\ UNCHANGED <<serverVars, ele, main, chan, clientVars, ret, clock, notified>>

Idle(w) == IdleTimeout > 0 /\ clock > ele[w].since_last_req + IdleTimeout

KeepsServing(w) ==    \* variant: a requested disconnect only answers
    \/ status[w] = "CHRPC_CLIENT_CHANNEL_EMTPY" /\ Idle(w)
    \/ status[w] \notin {"CHRPC_CLIENT_CHANNEL_EMTPY", "CHRPC_SUCCESS", "CHRPC_DISCONNECT"}

Disconnects(w) ==
    \/ status[w] = "CHRPC_CLIENT_CHANNEL_EMTPY" /\ Idle(w)
    \/ status[w] \notin {"CHRPC_CLIENT_CHANNEL_EMTPY", "CHRPC_SUCCESS"}

RequeueAsIs(w) ==     \* variant: since_last_req is never refreshed
    /\ pc[w] = "decide" /\ ~Disconnects(w)
    /\ q' = QPush(ele[w])
    /\ ele' = [ele EXCEPT ![w] = None]
    /\ status' = [status EXCEPT ![w] = None]
    /\ Goto(w, "check")
    /\ UNCHANGED <<num_channels, id_counter, should_exit, req, main, chan,
                   clientVars, out, ret, clock, history>>

Requeue(w) ==
    /\ pc[w] = "decide" /\ ~Disconnects(w)
    /\ q' = QPush([ele[w] EXCEPT !.since_last_req =
                     IF status[w] = "CHRPC_SUCCESS" THEN clock ELSE @])
    /\ ele' = [ele EXCEPT ![w] = None]
    /\ status' = [status EXCEPT ![w] = None]
    /\ Goto(w, "check")
    /\ UNCHANGED <<num_channels, id_counter, should_exit, req, main, chan,
                   clientVars, out, ret, clock, history>>

(* A disconnect takes three steps, and only the second holds q_mut.         *)
DeleteChannel(w) ==
    /\ pc[w] = "decide" /\ Disconnects(w)
    /\ Destroy(ele[w].chn)
    /\ Goto(w, "release")
    /\ UNCHANGED <<serverVars, ele, req, status, main, sent, out, ret, clock, history>>

ReleaseQuietly(w) ==  \* variant: on_disconnect is not called
    /\ pc[w] = "release"
    /\ num_channels' = num_channels - 1
    /\ ele' = [ele EXCEPT ![w] = None]
    /\ status' = [status EXCEPT ![w] = None]
    /\ Goto(w, "check")
    /\ UNCHANGED <<q, id_counter, should_exit, req, main, chan,
                   clientVars, out, ret, clock, history>>

ReleaseSlot(w) ==
    /\ pc[w] = "release"
    /\ num_channels' = num_channels - 1
    /\ Goto(w, "notify")
    /\ UNCHANGED <<q, id_counter, should_exit, ele, req, status, main, chan,
                   clientVars, out, ret, clock, history>>

OnDisconnect(w) ==
    /\ pc[w] = "notify"
    /\ notified' = notified \cup {ele[w].id}
    /\ ele' = [ele EXCEPT ![w] = None]
    /\ status' = [status EXCEPT ![w] = None]
    /\ Goto(w, "check")
    /\ UNCHANGED <<serverVars, req, main, chan, clientVars, out, ret, clock, touched>>

-----------------------------------------------------------------------------
(* delete_chrpc_server, called by the owner of the server.                  *)

SetShouldExit ==
    /\ main = "running"
    /\ should_exit' = TRUE
    /\ main' = "joining"
    /\ UNCHANGED <<q, num_channels, id_counter, workerVars, chan, clientVars, out,
                   ret, clock, history>>

JoinOne ==            \* variant: only one worker is joined
    /\ main = "joining"
    /\ \E w \in Workers : pc[w] = "done"
    /\ main' = "draining"
    /\ UNCHANGED <<serverVars, workerVars, chan, clientVars, out, ret, clock, history>>

JoinWorkers ==
    /\ main = "joining"
    /\ \A w \in Workers : pc[w] = "done"
    /\ main' = "draining"
    /\ UNCHANGED <<serverVars, workerVars, chan, clientVars, out, ret, clock, history>>

(* Neither num_channels nor on_disconnect has a part in the drain.          *)
DrainQueue ==
    /\ main = "draining"
    /\ q # <<>>
    /\ Destroy(Head(q).chn)
    /\ q' = Tail(q)
    /\ UNCHANGED <<num_channels, id_counter, should_exit, workerVars, main,
                   sent, out, ret, clock, history>>

FreeServer ==
    /\ main = "draining"
    /\ q = <<>>
    /\ main' = "freed"
    /\ UNCHANGED <<serverVars, workerVars, chan, clientVars, out, ret, clock, history>>

Freed == main = "freed" /\ UNCHANGED vars

-----------------------------------------------------------------------------
Client ==
    \/ \E c \in Channels, mms \in MsgSizes : GiveChannel(c, mms)
    \/ \E c \in Channels, v \in Verdicts : ClientSend(c, v)
    \/ \E c \in Channels : ChannelFault(c)

Worker(w) ==
    \/ CheckExit(w) \/ QPoll(w) \/ Receive(w) \/ HandleRequest(w)
    \/ \E o \in Outcomes : SendResponse(w, o)
    \/ Requeue(w) \/ DeleteChannel(w) \/ ReleaseSlot(w) \/ OnDisconnect(w)

DeleteServer == SetShouldExit \/ JoinWorkers \/ DrainQueue \/ FreeServer

Next == Client \/ Tick \/ (\E w \in Workers : Worker(w)) \/ DeleteServer \/ Freed

Spec == Init /\ [][Next]_vars

(* The scheduler runs every thread, endpoints return, and the owner does    *)
(* not stop in the middle of delete_chrpc_server.  Clients owe nothing.     *)
Fairness ==
    /\ \A w \in Workers : WF_vars(Worker(w))
    /\ WF_vars(JoinWorkers \/ DrainQueue \/ FreeServer)

FairSpec == Spec /\ Fairness

-----------------------------------------------------------------------------
Labels == {"check", "poll", "receive", "handle", "calling", "decide", "release",
           "notify", "done"}
Holding == {"receive", "handle", "calling", "decide"}  \* the worker owns a live channel

(* Every variable has the type of the field or local it stands for; a       *)
(* worker has an element, a request, a status exactly while it uses them.   *)
TypeOK ==
    /\ q \in Seq(Ele)
    /\ num_channels \in 0..MaxConnections
    /\ id_counter \in 0..IdMax
    /\ should_exit \in BOOLEAN
    /\ pc \in [Workers -> Labels]
    /\ ele \in [Workers -> Ele \cup {None}]
    /\ req \in [Workers -> Req \cup {None}]
    /\ status \in [Workers -> Statuses \cup {None}]
    /\ main \in {"running", "joining", "draining", "freed"}
    /\ chan \in [Channels -> {"caller", "server", "deleted"}]
    /\ inq \in [Channels -> Seq(Req)]
    /\ out \in [Channels -> Seq(Resp)]
    /\ sent \in [Channels -> Nat]
    /\ broken \in [Channels -> BOOLEAN]
    /\ ret \in [Channels -> {None, "CHRPC_SUCCESS", "CHRPC_BUFFER_TOO_SMALL",
                             "CHRPC_SERVER_FULL"}]
    /\ clock \in Nat
    /\ touched \in [Channels -> Nat]
    /\ notified \subseteq Nat
    /\ \A w \in Workers :
          /\ ele[w] # None <=> pc[w] \in Holding \cup {"release", "notify"}
          /\ req[w] # None <=> pc[w] \in {"handle", "calling"}
          /\ status[w] # None <=> pc[w] \in {"decide", "release", "notify"}

(* A channel the server owns is in exactly one place: one cell of the queue *)
(* or the hands of one worker; a channel that has been deleted is in none.  *)
(* So no two workers serve a channel at once, none uses it after            *)
(* delete_channel, and none is lost (rpc_server.c:446-501).                 *)
SoleOwner ==
    /\ \A i, j \in DOMAIN q : q[i].chn = q[j].chn => i = j
    /\ \A v, w \in Workers : pc[v] \in Holding /\ pc[w] \in Holding /\ v # w
                                => ele[v].chn # ele[w].chn
    /\ \A i \in DOMAIN q, w \in Workers : pc[w] \in Holding => q[i].chn # ele[w].chn
    /\ \A c \in Channels : chan[c] = "server" <=>
          \/ \E i \in DOMAIN q : q[i].chn = c
          \/ \E w \in Workers : pc[w] \in Holding /\ ele[w].chn = c

(* num_channels is the number of channels that are alive or whose slot a    *)
(* worker has yet to give back (rpc_server.c:489-493, 628).                 *)
Slots == {c \in Channels : chan[c] = "server"}
            \cup {ele[w].chn : w \in {v \in Workers : pc[v] = "release"}}

Accounting == main \in {"running", "joining"} => num_channels = Cardinality(Slots)

(* The result of q_push is ignored (rpc_server.c:500, 627): it must never   *)
(* be 1, for the channel would be leaked.                                   *)
PushHasRoom ==
    /\ \A w \in Workers : pc[w] = "decide" => Len(q) < MaxConnections
    /\ main = "running" /\ ~Full => Len(q) < MaxConnections

(* The ids of the connections in use differ from each other and from those  *)
(* reported to on_disconnect: no endpoint runs under an id that has already *)
(* been reported, and none is reported twice (rpc_server.c:276, 496, 623).  *)
Using == {w \in Workers : ele[w] # None}

IdsFresh ==
    /\ \A i \in DOMAIN q : q[i].id < id_counter /\ q[i].id \notin notified
    /\ \A w \in Using : ele[w].id < id_counter /\ ele[w].id \notin notified
    /\ \A i, j \in DOMAIN q : i # j => q[i].id # q[j].id
    /\ \A v, w \in Using : v # w => ele[v].id # ele[w].id
    /\ \A i \in DOMAIN q, w \in Using : q[i].id # ele[w].id

(* The answers of a connection are the answers to its requests in order,    *)
(* none is skipped, and only a connection about to be cut owes one: the n-th*)
(* answer is to the n-th request whichever workers served them.             *)
Received(c) == sent[c] - Len(inq[c])

Owing(c) == \E w \in Workers :
    /\ ele[w] # None /\ ele[w].chn = c
    /\ \/ pc[w] \in {"handle", "calling"}
       \/ pc[w] = "decide" /\ Disconnects(w)

AnsweredInOrder == \A c \in Channels :
    /\ \A i \in DOMAIN out[c] : out[c][i].n = i
    /\ chan[c] = "server" /\ Received(c) # Len(out[c])
          => Received(c) = Len(out[c]) + 1 /\ Owing(c)

(* A DISCONNECT that reached the client is the last thing it hears.         *)
NothingAfterLast == \A c \in Channels : \A i \in DOMAIN out[c] :
    out[c][i].last => i = Len(out[c])

(* A channel is only cut for idleness when nothing was answered on it, and  *)
(* it was not given, within the last idle_timeout seconds, whichever workers*)
(* polled it in between (rpc_server.c:474-482).                             *)
CutForIdleness(w) ==
    /\ pc[w] = "decide" /\ pc'[w] = "release"
    /\ status[w] = "CHRPC_CLIENT_CHANNEL_EMTPY"

IdleOnlyAfterSilence ==
    [][\A w \in Workers : CutForIdleness(w) => clock - touched[ele[w].chn] > IdleTimeout]_vars

(* delete_chrpc_server frees what no worker can touch any more, and leaves  *)
(* no channel it owned behind (rpc_server.c:567-583).                       *)
DeletesEverything ==
    /\ main \in {"draining", "freed"} => \A w \in Workers : pc[w] = "done"
    /\ main = "freed" => \A c \in Channels : chan[c] # "server"

(* Seen from outside, the server is a set of connections: every step of     *)
(* every thread is one step of Connections or none.                         *)
Service == INSTANCE Connections WITH
    connected <- {c \in Channels : chan[c] = "server"},
    gone <- {c \in Channels : chan[c] = "deleted"},
    answers <- [c \in Channels |-> Len(out[c])],
    reports <- Cardinality(notified)

ImplementsConnections == Service!CSpec

-----------------------------------------------------------------------------
(* The queue is fair: whatever the other clients send, a request that was   *)
(* written is received, unless its connection ends first.                   *)
RequestServed == \A c \in Channels, n \in 1..MaxReqs :
    (chan[c] = "server" /\ sent[c] >= n) ~> (Received(c) >= n \/ chan[c] = "deleted")

(* Every connection a worker cuts is reported to on_disconnect.             *)
CutIsReported == \A i \in 0..IdMax :
    (\E w \in Workers : pc[w] = "release" /\ ele[w].id = i) ~> i \in notified

(* delete_chrpc_server returns, however busy the clients keep the workers.  *)
DeleteReturns == should_exit ~> main = "freed"

=============================================================================
