------------------------------ MODULE CallBytes -----------------------------
(***************************************************************************)
(* The bytes of a remote call: chrpc_client_send_request and the handling  *)
(* of a request by the server, over one connection.  Each side has one     *)
(* buffer, which holds the request and then the response, over whatever    *)
(* was in it before; and each side owns the values it builds and parses.   *)
(* Who is served when, and what may be lost, is the subject of RpcServer   *)
(* and LocalRpc.                                                           *)
(***************************************************************************)
EXTENDS Wire

CONSTANTS
    Built,          \* the values that the program builds
    Declared,       \* sequence of what the program makes endpoints of: [name,
                    \* args: types, ret: type or none, returns: values or none]
    MaxEndpoints,   \* CHRPC_ENDPOINT_SET_MAX_SIZE
    MaxArgs,        \* CHRPC_ENDPOINT_MAX_ARGS
    BufMin,         \* CHRPC_SERVER_BUF_MIN_SIZE
    ClientSizes,    \* sizes of the client's buffer, which is that of a message
    ServerExtra,    \* how much larger the server's buffer is
    Calls,          \* what is called: [name, args, keep: the return value is wanted]
    RawMessages,    \* messages that are no request: [bytes, status: of the answer]
    MaxCalls,       \* bound on the exchanges
    None

UNKNOWN_ENDPOINT == 9
ARGUMENT_MISMATCH == 10
CHANNEL_ERROR == 12
BAD_REQUEST == 13
BAD_RESPONSE == 16
TOO_MANY_ARGUMENTS == 18

(* The response without a value, which no buffer is too small for.           *)
ErrorSize == 10

AtMostOne(S) == {s \in Seq(S) : Len(s) <= 1}

ASSUME Sizes ==
    /\ BufMin \in Nat /\ BufMin >= ErrorSize /\ ClientSizes \subseteq BufMin..MaxSize
    /\ ServerExtra \subseteq Nat /\ \A n \in ClientSizes, e \in ServerExtra : n + e <= MaxSize
    /\ MaxCalls \in Nat /\ MaxArgs \in Nat /\ MaxEndpoints \in Nat

(* A value takes the blocks that its constructors allocated.                *)
ASSUME Inputs ==
    /\ \A v \in Built : IsValue(v) /\ v.blocks = ValueBlocks(v)
    /\ Declared \in Seq([name : Buffers, args : Seq(Types), ret : AtMostOne(Types),
                         returns : SUBSET AtMostOne(Built)])
    /\ Calls \subseteq [name : Buffers, args : Seq(Built), keep : BOOLEAN]
    /\ RawMessages \subseteq [bytes : Buffers, status : Nat]

(* A name is a string with its 0.                                           *)
ASSUME Names == \A c \in Calls : c.name = String(c.name)

ASSUME NoneIsNoCall == None \notin Calls

ASSUME NoneHasRun == None \notin [args : Seq([type : Types, iv : Inners]), ret : AtMostOne(Built)]

(* An endpoint has at most so many arguments; a set of endpoints is not     *)
(* empty, not too large, and no two have one name.                          *)
NewEndpoint(d) == IF Len(d.args) > MaxArgs THEN None ELSE d

NewEndpointSet(eps) ==
    IF \/ Len(eps) \notin 1..MaxEndpoints
       \/ \E i, j \in DOMAIN eps : i # j /\ eps[i].name = eps[j].name
    THEN None
    ELSE [name \in {eps[i].name : i \in DOMAIN eps} |->
            eps[CHOOSE i \in DOMAIN eps : eps[i].name = name]]

Endpoints == NewEndpointSet([i \in DOMAIN Declared |-> NewEndpoint(Declared[i])])

ASSUME HasEndpoints == Endpoints # None

VARIABLES
    stage,          \* "idle", "request", "handle", "run", "response", "closed", "over"
    cbuf, sbuf,     \* client->buf, and the buffer of the worker
    msg,            \* the message in the channel
    call, result,   \* of the client: its last call and what it returned
    req, given,     \* of the worker: the request, the arguments
    cheap, sheap,   \* allocated blocks on each side
    ran,            \* history: what the endpoint was given and returned
    calls

vars == <<stage, cbuf, sbuf, msg, call, result, req, given, cheap, sheap, ran, calls>>

ReqType == StructOf(<<STRING_T, ArrayOf(ArrayOf(BYTE_T))>>)
RespType == StructOf(<<BYTE_T, ArrayOf(BYTE_T)>>)

Init ==
    /\ stage = "idle" /\ msg = <<>> /\ calls = 0
    /\ \E n \in ClientSizes, e \in ServerExtra :
           /\ cbuf = [i \in 1..n |-> 0]
           /\ sbuf = [i \in 1..(n + e) |-> 0]
    /\ call = None /\ result = [status |-> SUCCESS, ret |-> <<>>]
    /\ req = None /\ given = <<>> /\ ran = None
    /\ cheap = 0 /\ sheap = 0

(* What is written to a buffer covers its beginning.                        *)
Over(out, buf) == out \o After(buf, Len(out))

DeleteAll(vs) == Sum([i \in DOMAIN vs |-> ValueBlocks(vs[i])])

-----------------------------------------------------------------------------
(* The client serialises on the fly: type, name, number of arguments, and   *)
(* the arguments with their lengths.                                        *)
WithLength(vs) == [room \in Int |-> ValueToBufferWithLength(vs, room)]

RequestToBuffer(name, args, room) ==
    LET t == TypeToBuffer[ReqType][room]
        head == t.out \o ToBytes(Len(name)) \o name
    IN IF t.status # SUCCESS THEN t
       ELSE IF room < Len(head) THEN TooSmall(t.out)
       ELSE IF room < Len(head) + LengthBytes THEN TooSmall(head)
       ELSE WriteEach(head \o ToBytes(Len(args)),
                      [i \in DOMAIN args |-> WithLength(<<args[i]>>)], room)

(* The caller deletes the value it got before and builds its arguments.     *)
SendRequest(c) ==
    LET built == cheap - DeleteAll(result.ret) + AllBlocks(c.args)
    IN /\ stage = "idle" /\ calls < MaxCalls
       /\ calls' = calls + 1
       /\ call' = c
       /\ \E w \in {IF Len(c.args) > MaxArgs
                   THEN [status |-> TOO_MANY_ARGUMENTS, out |-> <<>>]
                   ELSE RequestToBuffer(c.name, c.args, Len(cbuf))} :
              /\ cbuf' = Over(w.out, cbuf)
              /\ IF w.status = SUCCESS
                 THEN /\ stage' = "request" /\ msg' = w.out
                      /\ cheap' = built
                      /\ result' = [result EXCEPT !.ret = <<>>]
                 ELSE /\ cheap' = built - DeleteAll(c.args)
                      /\ result' = [status |-> w.status, ret |-> <<>>]
                      /\ UNCHANGED <<stage, msg>>
       /\ ran' = None
       /\ UNCHANGED <<sbuf, req, given, sheap>>

(* A peer that is no chrpc_client_t writes what it likes and reads the      *)
(* answer like one.                                                         *)
SendRaw(raw) ==
    /\ stage = "idle" /\ calls < MaxCalls /\ Len(raw.bytes) <= Len(cbuf)
    /\ calls' = calls + 1
    /\ call' = raw
    /\ cbuf' = Over(raw.bytes, cbuf)
    /\ stage' = "request" /\ msg' = raw.bytes
    /\ cheap' = cheap - DeleteAll(result.ret)
    /\ result' = [result EXCEPT !.ret = <<>>]
    /\ ran' = None
    /\ UNCHANGED <<sbuf, req, given, sheap>>

-----------------------------------------------------------------------------
(* chrpc_send_error_response: the status and no value.                      *)
ErrorResponse(status, buf) ==
    LET v == NewStruct(<<NewNumber(BYTE_T, <<status>>), NewNumericArray(BYTE_T, <<>>)>>)
    IN \E w \in {ValueToBuffer(v, Len(buf))} :
        /\ sbuf' = Over(w.out, buf)
        /\ msg' = IF w.status = SUCCESS THEN w.out ELSE <<>>
        /\ stage' = IF w.status = SUCCESS THEN "response" ELSE "closed"

(* What is parsed is only the message, and not the whole buffer.            *)
WholeBuffer(buf) == buf     \* variant: the length of the message is ignored
Received(buf) == First(buf, Len(msg))

(* chrpc_poll_channel.                                                      *)
PollChannel ==
    /\ stage = "request"
    /\ \E buf \in {Over(msg, sbuf)} : \E r \in {ValueFromBuffer(Received(buf))} :
          /\ sheap' = sheap + r.blocks
          /\ IF r.status # SUCCESS
             THEN ErrorResponse(r.status, buf) /\ UNCHANGED req
             ELSE /\ req' = r.v /\ sbuf' = buf
                  /\ stage' = "handle" /\ UNCHANGED msg
    /\ UNCHANGED <<cbuf, call, result, given, cheap, ran, calls>>

Lookup(name) == IF name \in DOMAIN Endpoints THEN Endpoints[name] ELSE None

Name == String(req.iv.members[1].block)
ReqArgs == req.iv.members[2].members

(* The arguments are parsed up to the first that is no value, or not of the *)
(* type the endpoint has.                                                   *)
ParseNextArg(acc, type, r) ==
    IF r.status # SUCCESS
    THEN [acc EXCEPT !.status = r.status, !.blocks = @ + r.blocks]
    ELSE [status |-> IF TypeEquals(type, r.v.type) THEN SUCCESS ELSE ARGUMENT_MISMATCH,
          values |-> Append(acc.values, r.v), blocks |-> acc.blocks + r.blocks]

ParseArgs(ep) ==
    LET done[i \in 0..Len(ep.args)] ==
            IF i = 0
            THEN [status |-> SUCCESS, values |-> <<>>, blocks |-> Allocated(Len(ep.args))]
            ELSE LET acc == done[i - 1]
                 IN IF acc.status # SUCCESS THEN acc
                    ELSE ParseNextArg(acc, ep.args[i], ValueFromBuffer(ReqArgs[i].block))
    IN done[Len(ep.args)]

(* chrpc_handle_request.  Whatever happens, what was parsed is deleted.     *)
CleanUp(values, blocks, n) == blocks - DeleteAll(values) - Allocated(n) - ValueBlocks(req)

HandleRequest ==
    LET ep == Lookup(Name)
        wrong == IF ~TypeEquals(ReqType, req.type) THEN BAD_REQUEST
                 ELSE IF ep = None THEN UNKNOWN_ENDPOINT
                 ELSE IF Len(ep.args) # Len(ReqArgs) THEN ARGUMENT_MISMATCH
                 ELSE SUCCESS
    IN /\ stage = "handle"
       /\ IF wrong # SUCCESS
          THEN /\ ErrorResponse(wrong, sbuf)
               /\ sheap' = CleanUp(<<>>, sheap, 0) /\ req' = None
               /\ UNCHANGED given
          ELSE \E p \in {ParseArgs(ep)} :
               IF p.status # SUCCESS
               THEN /\ ErrorResponse(p.status, sbuf)
                    /\ sheap' = CleanUp(p.values, sheap + p.blocks, Len(ep.args))
                    /\ req' = None
                    /\ UNCHANGED given
               ELSE /\ stage' = "run" /\ given' = p.values
                    /\ sheap' = sheap + p.blocks
                    /\ UNCHANGED <<req, sbuf, msg>>
       /\ UNCHANGED <<cbuf, call, result, cheap, ran, calls>>

(* chrpc_send_response: the status and, with its length, the value.         *)
ResponseToBuffer(ret, room) ==
    LET t == TypeToBuffer[RespType][room]
        head == Append(t.out, SUCCESS)
    IN IF t.status # SUCCESS THEN t
       ELSE IF room < Len(head) THEN TooSmall(t.out)
       ELSE WriteEach(head, <<WithLength(ret)>>, room)

ReturnsSomething(ep, ret) ==    \* variant: the type is not compared
    Len(ep.ret) = Len(ret)
ReturnMatches(ep, ret) ==
    Len(ep.ret) = Len(ret) /\ (ret # <<>> => TypeEquals(ep.ret[1], ret[1].type))

Respond(ret) ==
    LET ep == Lookup(Name)
        allocated == sheap + AllBlocks(ret) - DeleteAll(ret)
    IN /\ stage = "run"
       /\ IF ~ReturnMatches(ep, ret)
          THEN stage' = "closed" /\ UNCHANGED <<sbuf, msg>>
          ELSE \E w \in {ResponseToBuffer(ret, Len(sbuf))} :
               IF w.status # SUCCESS
               THEN ErrorResponse(w.status, Over(w.out, sbuf))
               ELSE IF Len(w.out) > Len(cbuf)
               THEN ErrorResponse(BUFFER_TOO_SMALL, Over(w.out, sbuf))
               ELSE /\ sbuf' = Over(w.out, sbuf) /\ msg' = w.out
                    /\ stage' = "response"
       /\ sheap' = CleanUp(given, allocated, Len(ep.args))
       /\ ran' = [args |-> given, ret |-> ret]
       /\ given' = <<>> /\ req' = None
       /\ UNCHANGED <<cbuf, call, result, cheap, calls>>

-----------------------------------------------------------------------------
(* The client parses the whole buffer: behind the response there may be     *)
(* what is left of the request.                                             *)
Result(status, ret, blocks) == [status |-> status, ret |-> ret, blocks |-> blocks]

ReturnedValue(r) ==     \* r is the response, which is deleted
    LET status == r.v.iv.members[1].block[1]
        bytes == r.v.iv.members[2].block
        left == r.blocks - ValueBlocks(r.v)
        ret == ValueFromBuffer(bytes)
    IN IF status # SUCCESS \/ bytes = <<>> THEN Result(status, <<>>, left)
       ELSE IF ret.status # SUCCESS THEN Result(ret.status, <<>>, left + ret.blocks)
       ELSE IF call.keep THEN Result(SUCCESS, <<ret.v>>, left + ret.blocks)
       ELSE Result(SUCCESS, <<>>, left + ret.blocks - ValueBlocks(ret.v))

ParseResponse ==
    LET r == ValueFromBuffer(Over(msg, cbuf))
    IN IF r.status # SUCCESS THEN Result(BAD_RESPONSE, <<>>, r.blocks)
       ELSE IF r.v.type # RespType THEN Result(BAD_RESPONSE, <<>>, r.blocks - ValueBlocks(r.v))
       ELSE ReturnedValue(r)

Args == IF "args" \in DOMAIN call THEN call.args ELSE <<>>

ReceiveResponse ==
    /\ stage = "response"
    /\ \E p \in {ParseResponse} :
          /\ result' = [status |-> p.status, ret |-> p.ret]
          /\ cheap' = cheap + p.blocks - DeleteAll(Args)
    /\ cbuf' = Over(msg, cbuf)
    /\ stage' = "idle" /\ msg' = <<>>
    /\ UNCHANGED <<sbuf, call, req, given, sheap, ran, calls>>

(* The server cut the connection.                                           *)
Disconnected ==
    /\ stage = "closed"
    /\ result' = [status |-> CHANNEL_ERROR, ret |-> <<>>]
    /\ cheap' = cheap - DeleteAll(Args)
    /\ stage' = "over"
    /\ UNCHANGED <<cbuf, sbuf, msg, call, req, given, sheap, ran, calls>>

Next ==
    \/ \E c \in Calls : SendRequest(c)
    \/ \E raw \in RawMessages : SendRaw(raw)
    \/ PollChannel \/ HandleRequest
    \/ \E ret \in UNION {Endpoints[n].returns : n \in DOMAIN Endpoints} :
           stage = "run" /\ ret \in Lookup(Name).returns /\ Respond(ret)
    \/ ReceiveResponse \/ Disconnected

Spec == Init /\ [][Next]_vars

-----------------------------------------------------------------------------
(* What a call means, without the bytes: the size of everything that is     *)
(* sent, by the grammar of serial_type.h:8-22.                              *)
TypeSize[t \in Types] ==
    IF IsPrimitive(t) THEN 1
    ELSE IF t.tid = ARRAY_TID THEN 1 + TypeSize[t.cell]
    ELSE 2 + Sum([i \in DOMAIN t.fields |-> TypeSize[t.fields[i]]])

InnerSize[t \in Types] == [iv \in InnerOf[t] |->
    (IF HasLength(t) THEN 4 ELSE 0)
        + IF IsBlockable(t) THEN Len(Block(t, iv))
          ELSE Sum([i \in DOMAIN iv.members |->
                      InnerSize[MemberType(t, i)][iv.members[i]]])]

ValueSize(v) == TypeSize[v.type] + InnerSize[v.type][v.iv]
RequestSize(c) ==
    TypeSize[ReqType] + 4 + Len(c.name) + 4
        + Sum([i \in DOMAIN c.args |-> 4 + ValueSize(c.args[i])])
ResponseSize(ret) ==
    TypeSize[RespType] + 1 + 4 + Sum([i \in DOMAIN ret |-> ValueSize(ret[i])])

Signature(c) == [i \in DOMAIN c.args |-> c.args[i].type]
ReturnType(ret) == [i \in DOMAIN ret |-> ret[i].type]

Outcome(c) ==
    LET ep == Lookup(c.name)
    IN IF Len(c.args) > MaxArgs THEN TOO_MANY_ARGUMENTS
       ELSE IF RequestSize(c) > Len(cbuf) THEN BUFFER_TOO_SMALL
       ELSE IF ep = None THEN UNKNOWN_ENDPOINT
       ELSE IF Signature(c) # ep.args THEN ARGUMENT_MISMATCH
       ELSE IF ran = None THEN None
       ELSE IF ReturnType(ran.ret) # ep.ret THEN CHANNEL_ERROR
       ELSE IF ResponseSize(ran.ret) > Len(cbuf) THEN BUFFER_TOO_SMALL
       ELSE SUCCESS

Same(vs, ws) == Len(vs) = Len(ws) /\ \A i \in DOMAIN vs : ValueEquals(vs[i], ws[i])

(* A call returns what it should, whatever is left in the buffers: the      *)
(* endpoint runs exactly if the request fits and is right, with the         *)
(* arguments of the caller, and the caller gets the value it returned.      *)
CallIsRight == (stage \in {"idle", "over"} /\ call \in Calls) =>
    /\ result.status = Outcome(call)
    /\ ran # None => Same(ran.args, call.args)
    /\ result.status = SUCCESS =>
           ran # None /\ Same(result.ret, IF call.keep THEN ran.ret ELSE <<>>)

(* The answer to a message that is no request says what is wrong with it,   *)
(* and no endpoint has run, whatever an earlier request left in the buffer. *)
RefusalIsRight == (stage \in {"idle", "over"} /\ call \in RawMessages) =>
    result.status = call.status /\ ran = None

(* Nothing is written behind the end of a buffer, not even by a function    *)
(* that finds out too late that its room is too small.                      *)
InsideBuffers == Len(cbuf) \in ClientSizes /\ \E e \in ServerExtra : Len(sbuf) = Len(cbuf) + e

(* What is parsed is freed again, whichever part of it could not be parsed, *)
(* but for the return value that the caller wanted.                         *)
NothingLeaks ==
    /\ stage \in {"idle", "over"} => cheap = DeleteAll(result.ret)
    /\ stage \in {"idle", "response", "closed", "over"} => sheap = 0
=============================================================================
