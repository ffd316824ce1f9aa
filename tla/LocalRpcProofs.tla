--------------------------- MODULE LocalRpcProofs ---------------------------
(***************************************************************************)
(* Proofs about LocalRpc: its clients use the server as any program may,   *)
(* so the invariants of the server hold; with them, whatever times out, an *)
(* answer belongs to the call that returns it, and a core is freed only    *)
(* when the server has let go of it.                                       *)
(***************************************************************************)
EXTENDS LocalRpc, RpcServerProofs

LEMMA StepsAreCalls == [LNext]_lvars => [Next]_vars
<1>1. ASSUME NEW c \in Channels, LocalClient(c) PROVE [Next]_vars
  <2>1. CASE \E mms \in MsgSizes : NewLocalClient(c, mms)
    BY <2>1 DEF NewLocalClient, Next, Client
  <2>2. CASE \E v \in Verdicts : CallSends(c, v)
    BY <2>2 DEF CallSends, Next, Client
  <2>3. CASE ~(\E mms \in MsgSizes : NewLocalClient(c, mms)) /\ ~\E v \in Verdicts : CallSends(c, v)
    <3>1. UNCHANGED vars
      BY <1>1, <2>3 DEF LocalClient, CallFails, Poll, GiveUp, DeleteClient, DeleteCore
    <3> QED BY <3>1
  <2> QED BY <2>1, <2>2, <2>3
<1>2. Server => Next
  BY DEF Server, Next
<1>3. UNCHANGED lvars => UNCHANGED vars
  BY DEF lvars
<1> QED BY <1>1, <1>2, <1>3 DEF LNext

(* Every step of a client is a step the callers of the library may take, or  *)
(* none (rpc_client.c:79-319 only calls chrpc_server_give_channel and the    *)
(* operations of its own end of the channel).                                *)
THEOREM ClientsAreCallers == LSpec => ImplementsServer
<1>1. LInit => Init
  BY DEF LInit
<1> QED BY <1>1, StepsAreCalls, PTL DEF LSpec, ImplementsServer, Spec

ServerInv == IInv /\ OrdInv /\ LastInv

LEMMA ServerHolds == LSpec => []ServerInv
<1>1. IInv /\ OrdInv /\ LastInv => ServerInv
  BY DEF ServerInv
<1> QED BY <1>1, ClientsAreCallers, InductiveInvariant, OrderAlways, LastAlways, PTL
        DEF ImplementsServer

-----------------------------------------------------------------------------
(* What the server does to the messages of a connection, seen by its client. *)
LEMMA ServerGrows ==
    ASSUME TypeOK, NEW c \in Channels,
           (\E w \in Workers : Worker(w)) \/ DeleteServer \/ Tick
    PROVE  /\ sent'[c] = sent[c] /\ Len(out'[c]) >= Len(out[c])
           /\ chan[c] # "caller" => chan'[c] # "caller"
<1> USE DEF workerVars, clientVars
<1>1. out[c] \in Seq(Resp) /\ Len(out[c]) \in Nat /\ out \in [Channels -> Seq(Resp)]
  BY DEF TypeOK
<1>2. sent' = sent
  BY DEF Worker, DeleteServer, Tick, CheckExit, QPoll, Receive, HandleRequest, SendResponse,
         Requeue, DeleteChannel, ReleaseSlot, OnDisconnect, SetShouldExit, JoinWorkers,
         DrainQueue, FreeServer, Destroy
<1>3. chan[c] # "caller" => chan'[c] # "caller"
  <2>1. chan' = chan \/ \E d : Destroy(d)
    BY DEF Worker, DeleteServer, Tick, CheckExit, QPoll, Receive, HandleRequest, SendResponse,
           Requeue, DeleteChannel, ReleaseSlot, OnDisconnect, SetShouldExit, JoinWorkers,
           DrainQueue, FreeServer
  <2> QED BY <2>1 DEF Destroy, TypeOK
<1>4. \/ out' = out
      \/ \E w \in Workers : \E s, last, then : Send(w, s, last, then)
  <2>1. DeleteServer \/ Tick => out' = out
    BY DEF DeleteServer, SetShouldExit, JoinWorkers, DrainQueue, FreeServer, Tick
  <2> DEFINE Sends == \E w \in Workers : \E s, last, then : Send(w, s, last, then)
  <2>2. ASSUME NEW w \in Workers,
               \/ CheckExit(w) \/ QPoll(w) \/ Receive(w) \/ Requeue(w) \/ DeleteChannel(w)
               \/ ReleaseSlot(w) \/ OnDisconnect(w)
        PROVE  out' = out
    BY <2>2 DEF CheckExit, QPoll, Receive, Requeue, DeleteChannel, ReleaseSlot, OnDisconnect
  <2>3. ASSUME NEW w \in Workers, HandleRequest(w)
        PROVE  out' = out \/ Sends
    BY <2>3 DEF HandleRequest, SendErrorResponse
  <2>4. ASSUME NEW w \in Workers, NEW o \in Outcomes, SendResponse(w, o)
        PROVE  out' = out \/ Sends
    BY <2>4 DEF SendResponse, SendErrorResponse
  <2> HIDE DEF Sends
  <2>5. ASSUME NEW w \in Workers, Worker(w) PROVE out' = out \/ Sends
    BY <2>2, <2>3, <2>4, <2>5 DEF Worker
  <2>6. out' = out \/ Sends
    BY <2>1, <2>5
  <2> QED BY <2>6 DEF Sends
<1>5. ASSUME NEW w \in Workers, NEW s, NEW last, NEW then, Send(w, s, last, then)
      PROVE  Len(out'[c]) >= Len(out[c])
  <2>3. \/ out' = out
        \/ \E r : out' = [out EXCEPT ![ele[w].chn] = Append(@, r)]
    BY <1>5 DEF Send
  <2>1. \/ out'[c] = out[c]
        \/ \E r : out'[c] = Append(out[c], r)
    BY <1>1, <2>3
  <2>2. ASSUME NEW r PROVE Len(Append(out[c], r)) = Len(out[c]) + 1
    BY <1>1
  <2> QED BY <1>1, <2>1, <2>2
<1>6. Len(out'[c]) >= Len(out[c])
  BY <1>1, <1>4, <1>5
<1> QED BY <1>2, <1>3, <1>6

-----------------------------------------------------------------------------
(* The fields of the clients, and what has been sent that was not answered:  *)
(* one request in a call and none outside it.                                *)
Balance(c) ==
    /\ client[c] = "none" => sent[c] = 0 /\ taken[c] = 0 /\ core[c] = "none"
    /\ chn[c] => sent[c] <= taken[c] + (IF client[c] = "polling" THEN 1 ELSE 0)
    /\ core[c] # "none" => chan[c] # "caller"

LInv == LTypeOK /\ \A c \in Channels : Balance(c)

CTypes ==
    /\ client \in [Channels -> {"none", "idle", "polling", "deleted"}]
    /\ chn \in [Channels -> BOOLEAN]
    /\ waited \in [Channels -> 0..(Word - 1)]
    /\ taken \in [Channels -> Nat]
    /\ result \in [Channels -> Results]
    /\ core \in [Channels -> {"none", "live", "freed"}]

(* The part of LInv about one connection.                                    *)
Link(c) ==
    /\ client[c] = "polling" => chn[c]
    /\ taken[c] <= Len(out[c])
    /\ Balance(c)

LEMMA LInvParts == LInv <=> TypeOK /\ CTypes /\ \A c \in Channels : Link(c)
  BY DEF LInv, LTypeOK, CTypes, Link

LEMMA InitLInv == LInit => LInv
<1> SUFFICES ASSUME LInit PROVE LInv
  OBVIOUS
<1>1. TypeOK
  BY InitType DEF LInit
<1>2. CTypes
  BY ClientAttrs DEF LInit, CTypes, Results
<1>3. ASSUME NEW c \in Channels PROVE Link(c)
  <2>1. out[c] = <<>> /\ Len(<<>>) = 0 /\ sent[c] = 0 /\ chan[c] = "caller"
    BY DEF LInit, Init
  <2>2. taken[c] = 0 /\ client[c] = "none" /\ core[c] = "none" /\ chn[c] = FALSE
    BY DEF LInit
  <2>3. taken[c] <= Len(out[c])
    BY <2>1, <2>2
  <2> QED BY <2>1, <2>2, <2>3 DEF Link, Balance
<1> QED BY <1>1, <1>2, <1>3, LInvParts

(* A step of one client that leaves the others, and the server, alone.       *)
LEMMA ClientFrame ==
    ASSUME NEW c \in Channels, CTypes, CTypes', \A d \in Channels : Link(d),
           \A d \in Channels : d # c =>
              /\ client'[d] = client[d] /\ chn'[d] = chn[d] /\ taken'[d] = taken[d]
              /\ core'[d] = core[d] /\ sent'[d] = sent[d] /\ out'[d] = out[d]
              /\ chan'[d] = chan[d],
           Link(c)'
    PROVE  \A d \in Channels : Link(d)'
<1> SUFFICES ASSUME NEW d \in Channels, d # c PROVE Link(d)'
  OBVIOUS
<1> QED BY DEF Link, Balance

LEMMA NewClientStep ==
    ASSUME TypeOK, CTypes, \A d \in Channels : Link(d), NEW c \in Channels,
           NEW mms \in MsgSizes, NewLocalClient(c, mms)
    PROVE  CTypes' /\ \A d \in Channels : Link(d)'
<1>1. /\ UNCHANGED <<sent, out, waited, taken, result>> /\ client[c] = "none"
      /\ chan[c] = "caller" /\ chan \in [Channels -> {"caller", "server", "deleted"}]
      /\ ret \in [Channels -> {None, "CHRPC_SUCCESS", "CHRPC_BUFFER_TOO_SMALL",
                               "CHRPC_SERVER_FULL"}]
  BY DEF NewLocalClient, GiveChannel, clientVars, TypeOK
<1>2. CASE ret'[c] = "CHRPC_SUCCESS"
  <2>1. chan' = [chan EXCEPT ![c] = "server"]
    BY <1>1, <1>2 DEF NewLocalClient, GiveChannel, Refuse, Accept
  <2>2. /\ client' = [client EXCEPT ![c] = "idle"] /\ chn' = [chn EXCEPT ![c] = TRUE]
        /\ core' = [core EXCEPT ![c] = "live"]
    BY <1>2 DEF NewLocalClient
  <2>3. CTypes'
    BY <1>1, <2>2 DEF CTypes
  <2>4. /\ client'[c] = "idle" /\ chan'[c] = "server" /\ sent'[c] = 0 /\ taken'[c] = 0
        /\ taken'[c] <= Len(out'[c])
    BY <1>1, <2>1, <2>2 DEF CTypes, Link, Balance
  <2>5. Link(c)'
    BY <2>4 DEF Link, Balance
  <2>6. \A d \in Channels : d # c =>
           client'[d] = client[d] /\ chn'[d] = chn[d] /\ core'[d] = core[d] /\ chan'[d] = chan[d]
    BY <1>1, <2>1, <2>2 DEF CTypes
  <2> QED BY <1>1, <2>3, <2>5, <2>6, ClientFrame
<1>3. CASE ret'[c] # "CHRPC_SUCCESS"
  <2>1. chan' = chan
    BY <1>1, <1>3 DEF NewLocalClient, GiveChannel, Refuse, Accept
  <2>2. UNCHANGED <<client, chn, core>>
    BY <1>3 DEF NewLocalClient
  <2>3. CTypes'
    BY <1>1, <2>2 DEF CTypes
  <2>4. ASSUME NEW d \in Channels PROVE Link(d)'
    BY <1>1, <2>1, <2>2 DEF Link, Balance
  <2> QED BY <2>3, <2>4
<1> QED BY <1>2, <1>3

LEMMA CallSendsStep ==
    ASSUME TypeOK, CTypes, \A d \in Channels : Link(d), NEW c \in Channels,
           NEW v \in Verdicts, CallSends(c, v)
    PROVE  CTypes' /\ \A d \in Channels : Link(d)'
<1>1. /\ client[c] = "idle" /\ chn[c] /\ UNCHANGED <<chn, taken, result, core, out, chan>>
      /\ client' = [client EXCEPT ![c] = "polling"] /\ waited' = [waited EXCEPT ![c] = 0]
      /\ sent' = sent \/ sent' = [sent EXCEPT ![c] = sent[c] + 1]
      /\ sent \in [Channels -> Nat]
  BY DEF CallSends, ClientSend, vars, clientVars, TypeOK
<1>2. CTypes'
  BY <1>1, ClientAttrs DEF CTypes
<1>3. /\ client'[c] = "polling" /\ sent'[c] <= sent[c] + 1 /\ sent[c] \in Nat /\ taken[c] \in Nat
      /\ sent'[c] \in Nat
      /\ \A d \in Channels : d # c => client'[d] = client[d] /\ sent'[d] = sent[d]
  BY <1>1 DEF CTypes
<1>4. sent[c] <= taken[c]
  <2>1. sent[c] <= taken[c] + 0
    BY <1>1 DEF Link, Balance
  <2> QED BY <1>3, <2>1
<1>5. sent'[c] <= taken[c] + 1
  BY <1>3, <1>4
<1>6. Link(c)'
  BY <1>1, <1>3, <1>5 DEF Link, Balance
<1> QED BY <1>1, <1>2, <1>3, <1>6, ClientFrame

LEMMA PollStep ==
    ASSUME TypeOK, CTypes, \A d \in Channels : Link(d), NEW c \in Channels, Poll(c)
    PROVE  CTypes' /\ \A d \in Channels : Link(d)'
<1>1. /\ client[c] = "polling" /\ UNCHANGED <<chn, core, sent, out, chan>>
      /\ out[c] \in Seq(Resp) /\ Len(out[c]) \in Nat /\ taken[c] \in Nat /\ sent[c] \in Nat
  BY ChannelTypes DEF Poll, vars, clientVars, CTypes
<1>2. CASE Answered(c)
  <2>1. /\ taken' = [taken EXCEPT ![c] = taken[c] + 1] /\ waited' = waited
        /\ result' = [result EXCEPT ![c] = out[c][taken[c] + 1].status]
        /\ client' = [client EXCEPT ![c] = "idle"]
    BY <1>2 DEF Poll
  <2>2. out[c][taken[c] + 1].status \in Results
    <3>1. taken[c] + 1 \in 1..Len(out[c])
      BY <1>1, <1>2 DEF Answered
    <3>2. out[c][taken[c] + 1] \in Resp
      BY <1>1, <3>1
    <3> QED BY <3>2 DEF Resp, Results, Statuses
  <2>3. CTypes'
    BY <1>1, <2>1, <2>2 DEF CTypes
  <2>4. /\ taken'[c] = taken[c] + 1 /\ client'[c] = "idle"
        /\ \A d \in Channels : d # c => taken'[d] = taken[d] /\ client'[d] = client[d]
    BY <2>1 DEF CTypes
  <2>5. taken'[c] <= Len(out'[c])
    BY <1>1, <1>2, <2>4 DEF Answered
  <2>6. chn[c] /\ sent[c] <= taken[c] + 1
    BY <1>1 DEF Link, Balance
  <2>7. Link(c)'
    BY <1>1, <2>4, <2>5, <2>6 DEF Link, Balance
  <2> QED BY <1>1, <2>3, <2>4, <2>7, ClientFrame
<1>3. CASE ~Answered(c)
  <2>1. UNCHANGED <<taken, result, client>>
        /\ waited' = [waited EXCEPT ![c] = (waited[c] + Cadence) % Word]
    BY <1>3 DEF Poll
  <2>2. (waited[c] + Cadence) % Word \in 0..(Word - 1)
    BY ClientAttrs DEF CTypes
  <2>3. CTypes'
    BY <1>1, <2>1, <2>2 DEF CTypes
  <2>4. ASSUME NEW d \in Channels PROVE Link(d)'
    BY <1>1, <2>1 DEF Link, Balance
  <2> QED BY <2>3, <2>4
<1> QED BY <1>2, <1>3

LEMMA GiveUpStep ==
    ASSUME TypeOK, CTypes, \A d \in Channels : Link(d), NEW c \in Channels, GiveUp(c)
    PROVE  CTypes' /\ \A d \in Channels : Link(d)'
<1>1. /\ client[c] = "polling" /\ UNCHANGED <<waited, taken, core, sent, out, chan>>
      /\ chn' = [chn EXCEPT ![c] = FALSE] /\ client' = [client EXCEPT ![c] = "idle"]
      /\ result' = [result EXCEPT ![c] =
            IF Timeout = 0 THEN "CHRPC_CLIENT_CHANNEL_ERROR" ELSE "CHRPC_DISCONNECT"]
  BY DEF GiveUp, vars, clientVars
<1>2. CTypes'
  BY <1>1 DEF CTypes, Results, Statuses
<1>3. /\ client'[c] = "idle" /\ chn'[c] = FALSE
      /\ \A d \in Channels : d # c => client'[d] = client[d] /\ chn'[d] = chn[d]
  BY <1>1 DEF CTypes
<1>4. Link(c)'
  BY <1>1, <1>3 DEF Link, Balance
<1> QED BY <1>1, <1>2, <1>3, <1>4, ClientFrame

LEMMA DeleteClientStep ==
    ASSUME TypeOK, CTypes, \A d \in Channels : Link(d), NEW c \in Channels, DeleteClient(c)
    PROVE  CTypes' /\ \A d \in Channels : Link(d)'
<1>1. /\ client[c] = "idle" /\ UNCHANGED <<waited, taken, result, core, sent, out, chan>>
      /\ chn' = [chn EXCEPT ![c] = FALSE] /\ client' = [client EXCEPT ![c] = "deleted"]
  BY DEF DeleteClient, vars, clientVars
<1>2. CTypes'
  BY <1>1 DEF CTypes
<1>3. /\ client'[c] = "deleted" /\ chn'[c] = FALSE
      /\ \A d \in Channels : d # c => client'[d] = client[d] /\ chn'[d] = chn[d]
  BY <1>1 DEF CTypes
<1>4. Link(c)'
  BY <1>1, <1>3 DEF Link, Balance
<1> QED BY <1>1, <1>2, <1>3, <1>4, ClientFrame

LEMMA DeleteCoreStep ==
    ASSUME TypeOK, CTypes, \A d \in Channels : Link(d), NEW c \in Channels, DeleteCore(c)
    PROVE  CTypes' /\ \A d \in Channels : Link(d)'
<1>1. /\ client[c] = "deleted" /\ core[c] = "live"
      /\ UNCHANGED <<client, chn, waited, taken, result, sent, out, chan>>
      /\ core' = [core EXCEPT ![c] = "freed"]
  BY DEF DeleteCore, vars, clientVars
<1>2. CTypes'
  BY <1>1 DEF CTypes
<1>3. core'[c] = "freed" /\ \A d \in Channels : d # c => core'[d] = core[d]
  BY <1>1 DEF CTypes
<1>4. Link(c)'
  BY <1>1, <1>3 DEF Link, Balance
<1> QED BY <1>1, <1>2, <1>3, <1>4, ClientFrame

LEMMA ServerStep ==
    ASSUME TypeOK, TypeOK', CTypes, \A d \in Channels : Link(d), Server, UNCHANGED cvars
    PROVE  CTypes' /\ \A d \in Channels : Link(d)'
<1>1. CTypes'
  BY DEF CTypes, cvars
<1>2. ASSUME NEW d \in Channels PROVE Link(d)'
  <2>1. sent'[d] = sent[d] /\ Len(out'[d]) >= Len(out[d])
        /\ (chan[d] # "caller" => chan'[d] # "caller")
    BY ServerGrows DEF Server
  <2>2. Len(out[d]) \in Nat /\ Len(out'[d]) \in Nat /\ taken[d] \in Nat
    BY DEF TypeOK, CTypes
  <2>3. taken[d] <= Len(out'[d])
    BY <2>1, <2>2 DEF Link
  <2>4. /\ client'[d] = client[d] /\ taken'[d] = taken[d] /\ core'[d] = core[d]
        /\ chn'[d] = chn[d]
    BY DEF cvars
  <2>5. Balance(d)'
    BY <2>1, <2>4 DEF Link, Balance
  <2> QED BY <2>3, <2>4, <2>5 DEF Link
<1> QED BY <1>1, <1>2

LEMMA NextLInv == TypeOK /\ TypeOK' /\ LInv /\ [LNext]_lvars => LInv'
<1> SUFFICES ASSUME TypeOK, TypeOK', LInv, [LNext]_lvars PROVE LInv'
  OBVIOUS
<1>1. CTypes /\ \A d \in Channels : Link(d)
  BY LInvParts
<1>2. ASSUME NEW c \in Channels, LocalClient(c) PROVE CTypes' /\ \A d \in Channels : Link(d)'
  <2>1. CASE \E err \in {"CHRPC_BUFFER_TOO_SMALL", "CHRPC_CLIENT_CHANNEL_ERROR"} :
                CallFails(c, err)
    <3>1. UNCHANGED <<client, chn, waited, taken, core, sent, out, chan>>
      BY <2>1 DEF CallFails, vars, clientVars
    <3>2. CTypes'
      <4>1. PICK err \in {"CHRPC_BUFFER_TOO_SMALL", "CHRPC_CLIENT_CHANNEL_ERROR"} :
               result' = [result EXCEPT ![c] = err]
        BY <2>1 DEF CallFails
      <4> QED BY <1>1, <3>1, <4>1 DEF CTypes, Results, Statuses
    <3>3. ASSUME NEW d \in Channels PROVE Link(d)'
      BY <1>1, <3>1 DEF Link, Balance
    <3> QED BY <3>2, <3>3
  <2> QED BY <1>1, <1>2, <2>1, NewClientStep, CallSendsStep, PollStep, GiveUpStep,
             DeleteClientStep, DeleteCoreStep DEF LocalClient
<1>3. ASSUME UNCHANGED lvars PROVE CTypes' /\ \A d \in Channels : Link(d)'
  <2>1. CTypes'
    BY <1>1, <1>3 DEF CTypes, lvars, cvars
  <2>2. ASSUME NEW d \in Channels PROVE Link(d)'
    BY <1>1, <1>3 DEF Link, Balance, lvars, cvars, vars, clientVars
  <2> QED BY <2>1, <2>2
<1>4. ASSUME Server, UNCHANGED cvars PROVE CTypes' /\ \A d \in Channels : Link(d)'
  BY <1>1, <1>4, ServerStep
<1>5. CTypes' /\ \A d \in Channels : Link(d)'
  BY <1>2, <1>3, <1>4 DEF LNext
<1> QED BY <1>5 DEF LInv, LTypeOK, CTypes, Link

LEMMA LInvHolds == LSpec => [](ServerInv /\ LInv)
<1>1. ServerInv => TypeOK
  BY DEF ServerInv, IInv
<1> QED BY <1>1, ServerHolds, InitLInv, NextLInv, PTL DEF LSpec

(* The fields of the clients keep their types; in particular a thread that   *)
(* polls has a channel (rpc_client.c:87-188).                                *)
THEOREM ClientTypes == LSpec => []LTypeOK
<1>1. LInv => LTypeOK
  BY DEF LInv
<1> QED BY <1>1, LInvHolds, PTL

-----------------------------------------------------------------------------
(* Every request that was sent is in the queue, with a worker, or answered.  *)
LEMMA InFlightBound ==
    ASSUME ServerInv, LInv, NEW c \in Channels
    PROVE  /\ InFlight(c) <= sent[c] - taken[c]
           /\ Len(out[c]) <= sent[c]
<1>1. /\ TypeOK /\ CTypes /\ Order(c) /\ Link(c)
      /\ \A w \in Workers : Serving(w)
  BY LInvParts DEF ServerInv, IInv, OrdInv
<1>2. /\ Len(inq[c]) \in Nat /\ Len(out[c]) \in Nat /\ sent[c] \in Nat /\ taken[c] \in Nat
      /\ Received(c) = sent[c] - Len(inq[c]) /\ Len(out[c]) <= Received(c)
  BY <1>1, ChannelTypes DEF CTypes, Received, Order
<1>3. CASE InServer(c)
  <2>1. Received(c) = Len(out[c]) + 1
    BY <1>1, <1>3 DEF InServer, Serving
  <2> QED BY <1>2, <1>3, <2>1 DEF InFlight
<1>4. CASE ~InServer(c)
  BY <1>2, <1>4 DEF InFlight
<1> QED BY <1>3, <1>4

(* A connection has at most one message in it, and none between two calls    *)
(* (rpc_client.c:136-188).                                                   *)
THEOREM QueuesNeverFill == LSpec => []OneInFlight
<1>1. ServerInv /\ LInv => OneInFlight
  <2> SUFFICES ASSUME ServerInv, LInv, NEW c \in Channels, chn[c]
               PROVE  InFlight(c) <= (IF client[c] = "polling" THEN 1 ELSE 0)
    BY DEF OneInFlight
  <2>1. /\ CTypes /\ TypeOK /\ Link(c)
    BY LInvParts
  <2>2. /\ sent[c] \in Nat /\ taken[c] \in Nat /\ Len(inq[c]) \in Nat /\ Len(out[c]) \in Nat
        /\ sent[c] <= taken[c] + (IF client[c] = "polling" THEN 1 ELSE 0)
    BY <2>1, ChannelTypes DEF CTypes, Link, Balance
  <2>3. InFlight(c) \in Int /\ InFlight(c) <= sent[c] - taken[c]
    BY <2>2, InFlightBound DEF InFlight
  <2> QED BY <2>2, <2>3
<1> QED BY <1>1, LInvHolds, PTL

(* The answer a call returns is the one to the request it sent               *)
(* (rpc_client.c:161-211).                                                   *)
THEOREM AnswerIsOwn == LSpec => OwnAnswer
<1>1. ServerInv /\ LInv /\ [LNext]_lvars =>
        [\A c \in Channels : taken'[c] # taken[c] =>
            /\ taken'[c] = sent[c] /\ out[c][taken'[c]].n = sent[c]
            /\ result'[c] = out[c][taken'[c]].status]_lvars
  <2> SUFFICES ASSUME ServerInv, LInv, LNext, NEW c \in Channels, taken'[c] # taken[c]
               PROVE  /\ taken'[c] = sent[c] /\ out[c][taken'[c]].n = sent[c]
                      /\ result'[c] = out[c][taken'[c]].status
    OBVIOUS
  <2>1. CTypes /\ TypeOK /\ Link(c) /\ Order(c) /\ Len(out[c]) <= sent[c]
    BY LInvParts, InFlightBound DEF ServerInv, OrdInv
  <2>2. PICK d \in Channels : Poll(d) /\ Answered(d)
    BY DEF LNext, LocalClient, NewLocalClient, CallFails, CallSends, Poll, GiveUp, DeleteClient,
           DeleteCore, cvars
  <2>3. /\ taken' = [taken EXCEPT ![d] = taken[d] + 1] /\ client[d] = "polling"
        /\ result' = [result EXCEPT ![d] = out[d][taken[d] + 1].status]
    BY <2>2 DEF Poll
  <2>4. d = c
    BY <2>1, <2>3 DEF CTypes
  <2>5. taken'[c] = taken[c] + 1 /\ result'[c] = out[c][taken[c] + 1].status
    BY <2>1, <2>3, <2>4 DEF CTypes
  <2>6. taken[c] \in Nat /\ sent[c] \in Nat /\ Len(out[c]) \in Nat
    BY <2>1, ChannelTypes DEF CTypes
  <2>7. sent[c] <= taken[c] + 1
    BY <2>1, <2>3, <2>4 DEF Link, Balance
  <2>8. Len(out[c]) = taken[c] + 1 /\ sent[c] = taken[c] + 1
    BY <2>1, <2>2, <2>4, <2>6, <2>7 DEF Answered
  <2>9. out[c][taken[c] + 1].n = taken[c] + 1
    BY <2>1, <2>6, <2>8 DEF Order
  <2> QED BY <2>5, <2>8, <2>9
<1> QED BY <1>1, LInvHolds, PTL DEF LSpec, OwnAnswer

-----------------------------------------------------------------------------
(* Once the server is done with a channel it stays so.                       *)
LEMMA DoneStays ==
    ASSUME TypeOK, NEW c \in Channels, ServerDone(c), [Next]_vars
    PROVE  ServerDone(c)'
<1>1. CASE chan[c] = "deleted"
  <2>1. \/ chan' = chan
        \/ \E d \in Channels : chan[d] = "caller" /\ chan' = [chan EXCEPT ![d] = "server"]
        \/ \E d : chan' = [chan EXCEPT ![d] = "deleted"]
    <3>1. CASE Client
      BY <3>1 DEF Client, GiveChannel, Refuse, Accept, ClientSend, ChannelFault
    <3>2. CASE \E w \in Workers : Worker(w)
      BY <3>2 DEF Worker, CheckExit, QPoll, Receive, HandleRequest, SendResponse, Requeue,
                  DeleteChannel, ReleaseSlot, OnDisconnect, Destroy
    <3>3. CASE DeleteServer \/ Tick \/ Freed \/ UNCHANGED vars
      BY <3>3 DEF DeleteServer, SetShouldExit, JoinWorkers, DrainQueue, FreeServer, Tick, Freed,
                  vars, Destroy
    <3> QED BY <3>1, <3>2, <3>3 DEF Next
  <2> QED BY <1>1, <2>1 DEF ServerDone, TypeOK
<1>2. ASSUME NEW w \in Workers, pc[w] = "decide", ele[w].chn = c, Disconnects(w)
      PROVE  ServerDone(c)'
  <2>1. ele[w] \in Ele /\ clock \in Nat
    BY <1>2 DEF TypeOK, Holding
  <2>2. \/ pc'[w] = pc[w] /\ ele'[w] = ele[w] /\ status'[w] = status[w]
           /\ (clock' = clock \/ clock' = clock + 1)
        \/ DeleteChannel(w)
    <3>1. CASE Client \/ DeleteServer \/ Tick \/ Freed \/ UNCHANGED vars
      BY <3>1 DEF Client, GiveChannel, ClientSend, ChannelFault, DeleteServer, SetShouldExit,
                  JoinWorkers, DrainQueue, FreeServer, Tick, Freed, vars, workerVars
    <3>2. ASSUME NEW v \in Workers, Worker(v), v # w
          PROVE  pc'[w] = pc[w] /\ ele'[w] = ele[w] /\ status'[w] = status[w] /\ clock' = clock
      <4>1. \E l : pc' = [pc EXCEPT ![v] = l]
        BY <3>2 DEF Worker, CheckExit, QPoll, Receive, HandleRequest, SendResponse, Requeue,
                    DeleteChannel, ReleaseSlot, OnDisconnect, Goto
      <4>2. (ele' = ele \/ \E e : ele' = [ele EXCEPT ![v] = e]) /\ clock' = clock
        BY <3>2 DEF Worker, CheckExit, QPoll, Receive, HandleRequest, SendResponse, Requeue,
                    DeleteChannel, ReleaseSlot, OnDisconnect
      <4>3. status' = status \/ \E s : status' = [status EXCEPT ![v] = s]
        BY <3>2 DEF Worker, CheckExit, QPoll, Receive, HandleRequest, SendResponse, Send,
                    SendErrorResponse, Requeue, DeleteChannel, ReleaseSlot, OnDisconnect
      <4> QED BY <3>2, <4>1, <4>2, <4>3 DEF TypeOK
    <3>3. Worker(w) => DeleteChannel(w)
      BY <1>2 DEF Worker, CheckExit, QPoll, Receive, HandleRequest, SendResponse, Requeue,
                  ReleaseSlot, OnDisconnect
    <3> QED BY <3>1, <3>2, <3>3 DEF Next
  <2>3. CASE DeleteChannel(w)
    BY <1>2, <2>3 DEF DeleteChannel, Destroy, ServerDone, TypeOK
  <2>4. ASSUME pc'[w] = pc[w], ele'[w] = ele[w], status'[w] = status[w],
               clock' = clock \/ clock' = clock + 1
        PROVE  ServerDone(c)'
    <3>1. Idle(w) => Idle(w)'
      BY <2>1, <2>4, ServerAttrs DEF Idle, Ele
    <3> QED BY <1>2, <2>4, <3>1 DEF ServerDone, Disconnects
  <2> QED BY <2>2, <2>3, <2>4
<1> QED BY <1>1, <1>2 DEF ServerDone

(* When a core is freed, the worker that had the other end has let it go.    *)
LEMMA CoreFreedLate ==
    ASSUME ServerInv, LInv, NEW c \in Channels, DeleteCore(c)
    PROVE  ServerDone(c)
<1>1. CTypes /\ TypeOK /\ Link(c) /\ SoleOwner /\ Stopped /\ LastInv
  BY LInvParts DEF ServerInv, IInv
<1>2. CASE SaidGoodbye(c)
  <2>1. taken[c] \in 1..Len(out[c]) /\ out[c][taken[c]].last
    BY <1>1, <1>2, ChannelTypes DEF SaidGoodbye, Link, CTypes
  <2>2. chan[c] = "deleted" \/ \E w \in Workers : Parting(w, c)
    BY <1>1, <2>1 DEF LastInv
  <2> QED BY <2>2 DEF ServerDone, Parting, Disconnects
<1>3. CASE main = "freed"
  <2>1. q = <<>> /\ DOMAIN q = {} /\ \A w \in Workers : pc[w] = "done"
    BY <1>1, <1>3 DEF Stopped
  <2>2. chan[c] # "server"
    BY <1>1, <2>1 DEF SoleOwner, Holding
  <2>3. chan[c] # "caller"
    BY <1>1 DEF DeleteCore, Link, Balance
  <2> QED BY <1>1, <2>2, <2>3 DEF ServerDone, TypeOK
<1> QED BY <1>2, <1>3 DEF DeleteCore

(* A core is never freed under a worker that may still use it                *)
(* (rpc_client.h:85, rpc_server.c:484-497).                                  *)
THEOREM CoreSafe == LSpec => []CoreOutlivesServer
<1>1. LInit => CoreOutlivesServer
  BY DEF LInit, CoreOutlivesServer
<1>2. ServerInv /\ LInv /\ CoreOutlivesServer /\ [LNext]_lvars => CoreOutlivesServer'
  <2> SUFFICES ASSUME ServerInv, LInv, CoreOutlivesServer, [LNext]_lvars,
                      NEW c \in Channels, core'[c] = "freed"
               PROVE  ServerDone(c)'
    BY DEF CoreOutlivesServer
  <2>1. CTypes /\ TypeOK
    BY LInvParts
  <2>2. core[c] = "freed" \/ DeleteCore(c)
    BY <2>1 DEF LNext, LocalClient, NewLocalClient, CallFails, CallSends, Poll, GiveUp,
                DeleteClient, DeleteCore, lvars, cvars, CTypes
  <2>3. ServerDone(c)
    BY <2>2, CoreFreedLate DEF CoreOutlivesServer
  <2> QED BY <2>1, <2>3, StepsAreCalls, DoneStays
<1> QED BY <1>1, <1>2, LInvHolds, PTL DEF LSpec
=============================================================================
