------------------------------ MODULE LocalRpc ------------------------------
(***************************************************************************)
(* Clients of an RPC server in the same process (chrpc/src/rpc_client.c    *)
(* over channel_local2.c), composed with the server of RpcServer.          *)
(*                                                                         *)
(* Channel c stands for one core: inq[c] is its queue to the server, and   *)
(* what was put into out[c] and not yet taken its queue back.  Each end    *)
(* has a handle on the core and deletes it alone; the core itself is freed *)
(* by whoever made it.  So, unlike a broken channel of RpcServer, the      *)
(* client of a deleted server end notices nothing: it sends, and waits.    *)
(***************************************************************************)
EXTENDS RpcServer

CONSTANTS
    Cadence, Timeout,  \* client attrs, in microseconds
    Word               \* useconds_t is a number modulo Word

ASSUME ClientAttrs ==
    /\ Cadence \in Nat \ {0} /\ Timeout \in Nat /\ Word \in Nat \ {0}
    /\ Cadence < Word /\ Timeout < Word

VARIABLES
    client,     \* where the thread of a client is
    chn,        \* client->chn is not NULL
    waited,     \* time_waited
    taken,      \* answers received from the channel
    result,     \* what the last call returned
    core        \* the core of the channel

cvars == <<client, chn, waited, taken, result, core>>
lvars == <<vars, cvars>>

LInit ==
    /\ Init
    /\ client = [c \in Channels |-> "none"]
    /\ chn = [c \in Channels |-> FALSE]
    /\ waited = [c \in Channels |-> 0]
    /\ taken = [c \in Channels |-> 0]
    /\ result = [c \in Channels |-> None]
    /\ core = [c \in Channels |-> "none"]

Answered(c) == Len(out[c]) > taken[c]

-----------------------------------------------------------------------------
(* new_chrpc_local_client: the core, its two handles and the client are     *)
(* made, then the server is given one end; if it refuses, all are freed.    *)
NewLocalClient(c, mms) ==
    /\ client[c] = "none"
    /\ GiveChannel(c, mms)
    /\ IF ret'[c] = "CHRPC_SUCCESS"
       THEN /\ client' = [client EXCEPT ![c] = "idle"]
            /\ chn' = [chn EXCEPT ![c] = TRUE]
            /\ core' = [core EXCEPT ![c] = "live"]
       ELSE UNCHANGED <<client, chn, core>>
    /\ UNCHANGED <<waited, taken, result>>

(* A call that sends nothing: the channel is gone, or the request does not  *)
(* fit the buffer.                                                          *)
CallFails(c, err) ==
    /\ client[c] = "idle"
    /\ err = IF chn[c] THEN "CHRPC_BUFFER_TOO_SMALL" ELSE "CHRPC_CLIENT_CHANNEL_ERROR"
    /\ result' = [result EXCEPT ![c] = err]
    /\ UNCHANGED <<vars, client, chn, waited, taken, core>>

(* chn_send: the request goes into the queue of the core, where nobody will *)
(* look for it if the server has deleted its end.                           *)
CallSends(c, v) ==
    /\ client[c] = "idle" /\ chn[c]
    /\ \/ ClientSend(c, v)
       \/ broken[c] /\ UNCHANGED vars
    /\ client' = [client EXCEPT ![c] = "polling"]
    /\ waited' = [waited EXCEPT ![c] = 0]
    /\ UNCHANGED <<chn, taken, result, core>>

PollForever(c) ==     \* variant: time_waited is not counted
    /\ client[c] = "polling" /\ waited[c] < Timeout
    /\ Answered(c)
    /\ taken' = [taken EXCEPT ![c] = @ + 1]
    /\ result' = [result EXCEPT ![c] = out[c][taken[c] + 1].status]
    /\ client' = [client EXCEPT ![c] = "idle"]
    /\ UNCHANGED <<vars, chn, core, waited>>

(* One turn of the loop: chn_receive, and the pause if nothing was there.   *)
Poll(c) ==
    /\ client[c] = "polling" /\ waited[c] < Timeout
    /\ \/ /\ Answered(c)
          /\ taken' = [taken EXCEPT ![c] = @ + 1]
          /\ result' = [result EXCEPT ![c] = out[c][taken[c] + 1].status]
          /\ client' = [client EXCEPT ![c] = "idle"]
          /\ UNCHANGED waited
       \/ /\ ~Answered(c)
          /\ waited' = [waited EXCEPT ![c] = (@ + Cadence) % Word]
          /\ UNCHANGED <<taken, result, client>>
    /\ UNCHANGED <<vars, chn, core>>

GiveUpKeepingChannel(c) ==  \* variant: the channel survives a timeout
    /\ client[c] = "polling" /\ waited[c] >= Timeout
    /\ result' = [result EXCEPT ![c] = "CHRPC_DISCONNECT"]
    /\ client' = [client EXCEPT ![c] = "idle"]
    /\ UNCHANGED <<vars, chn, waited, taken, core>>

GiveUpSilently(c) ==  \* variant: the call does not return after a timeout
    /\ client[c] = "polling" /\ waited[c] >= Timeout /\ chn[c]
    /\ chn' = [chn EXCEPT ![c] = FALSE]
    /\ UNCHANGED <<vars, client, waited, taken, result, core>>

(* The loop has ended without an answer; an answer that came during the     *)
(* last pause is not looked for.  With no time to wait chn_status is still  *)
(* that of chn_send.                                                        *)
GiveUp(c) ==
    /\ client[c] = "polling" /\ waited[c] >= Timeout
    /\ chn' = [chn EXCEPT ![c] = FALSE]
    /\ result' = [result EXCEPT ![c] =
          IF Timeout = 0 THEN "CHRPC_CLIENT_CHANNEL_ERROR" ELSE "CHRPC_DISCONNECT"]
    /\ client' = [client EXCEPT ![c] = "idle"]
    /\ UNCHANGED <<vars, waited, taken, core>>

-----------------------------------------------------------------------------
(* How the programs that use a local client end it.                         *)

TimeoutIsGoodbye(c) ==  \* variant: the status is not looked at
    result[c] # None

(* The last call was answered by an endpoint that asks the server to        *)
(* disconnect, and succeeded.                                               *)
SaidGoodbye(c) ==
    /\ result[c] = "CHRPC_SUCCESS"
    /\ taken[c] > 0 /\ out[c][taken[c]].last

DeleteClient(c) ==
    /\ client[c] = "idle"
    /\ client' = [client EXCEPT ![c] = "deleted"]
    /\ chn' = [chn EXCEPT ![c] = FALSE]
    /\ UNCHANGED <<vars, waited, taken, result, core>>

CoreTakesChannel(c) ==  \* variant: the core deletes the server's handle too
    /\ client[c] = "deleted" /\ core[c] = "live"
    /\ SaidGoodbye(c) \/ main = "freed"
    /\ core' = [core EXCEPT ![c] = "freed"]
    /\ Destroy(c)
    /\ UNCHANGED <<serverVars, workerVars, main, sent, out, ret, clock, history,
                   client, chn, waited, taken, result>>

(* The program deletes the core after its client, and once the server is    *)
(* done with it: after a goodbye, or after delete_chrpc_server.             *)
DeleteCore(c) ==
    /\ client[c] = "deleted" /\ core[c] = "live"
    /\ SaidGoodbye(c) \/ main = "freed"
    /\ core' = [core EXCEPT ![c] = "freed"]
    /\ UNCHANGED <<vars, client, chn, waited, taken, result>>

LocalClient(c) ==
    \/ \E mms \in MsgSizes : NewLocalClient(c, mms)
    \/ \E err \in {"CHRPC_BUFFER_TOO_SMALL", "CHRPC_CLIENT_CHANNEL_ERROR"} : CallFails(c, err)
    \/ \E v \in Verdicts : CallSends(c, v)
    \/ Poll(c) \/ GiveUp(c)
    \/ DeleteClient(c) \/ DeleteCore(c)

Server == Tick \/ (\E w \in Workers : Worker(w)) \/ DeleteServer

LNext ==
    \/ \E c \in Channels : LocalClient(c)
    \/ Server /\ UNCHANGED cvars

LSpec == LInit /\ [][LNext]_lvars

(* A thread that is in chrpc_client_send_request runs on.                   *)
LFairSpec == LSpec /\ \A c \in Channels : WF_lvars(Poll(c) \/ GiveUp(c))

-----------------------------------------------------------------------------
Results == Statuses \cup Verdicts \cup {None, "CHRPC_BUFFER_TOO_SMALL"}

(* The types; only a client that has one polls a channel, and it has taken  *)
(* no more answers than there were (rpc_client.c:87-188).                   *)
LTypeOK ==
    /\ TypeOK
    /\ client \in [Channels -> {"none", "idle", "polling", "deleted"}]
    /\ chn \in [Channels -> BOOLEAN]
    /\ waited \in [Channels -> 0..(Word - 1)]
    /\ taken \in [Channels -> Nat]
    /\ result \in [Channels -> Results]
    /\ core \in [Channels -> {"none", "live", "freed"}]
    /\ \A c \in Channels :
          /\ client[c] = "polling" => chn[c]
          /\ taken[c] <= Len(out[c])

(* A connection never has more than one message in it, counting the request *)
(* a worker holds, and none at all when its client is not in a call.  So    *)
(* queues of depth 1 are never full, and no call begins with an old answer  *)
(* in the channel (rpc_client.c:136-188, channel_local.c:74-89).            *)
InServer(c) == \E w \in Workers :
    pc[w] \in {"handle", "calling"} /\ ele[w].chn = c

InFlight(c) ==
    Len(inq[c]) + (Len(out[c]) - taken[c]) + (IF InServer(c) THEN 1 ELSE 0)

OneInFlight == \A c \in Channels :
    chn[c] => InFlight(c) <= (IF client[c] = "polling" THEN 1 ELSE 0)

(* What a call returns is the answer to the request it sent, whatever calls *)
(* on this and other connections timed out before (rpc_client.c:161-211).   *)
OwnAnswer ==
    [][\A c \in Channels : taken'[c] # taken[c] =>
          /\ taken'[c] = sent[c] /\ out[c][taken'[c]].n = sent[c]
          /\ result'[c] = out[c][taken'[c]].status]_lvars

(* A core is freed only when no worker will touch it again: the server end  *)
(* is deleted, or a worker is about to delete it and does nothing else with *)
(* it (rpc_client.h:85, simple_rpc.c:304-307, rpc_server.c:488-489).        *)
ServerDone(c) ==
    \/ chan[c] = "deleted"
    \/ \E w \in Workers : pc[w] = "decide" /\ ele[w].chn = c /\ Disconnects(w)

CoreOutlivesServer == \A c \in Channels : core[c] = "freed" => ServerDone(c)

(* What the clients do to the server is what any program may do with the    *)
(* channels it gave away: every behaviour is one of RpcServer, and what is  *)
(* shown there holds here.                                                  *)
ImplementsServer == Spec

(* A call returns: rpc_client.h:27-28, "The client will wait at least       *)
(* timeout microseconds for a response from the server. If no response is   *)
(* received, the given channel will be destroyed and set to NULL."          *)
CallReturns == \A c \in Channels : client[c] = "polling" ~> client[c] = "idle"
=============================================================================
