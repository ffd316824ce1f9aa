------------------------------ MODULE Chatroom ------------------------------
(***************************************************************************)
(* The chatroom example (chrpc/examples/chatroom): its state behind a      *)
(* readers-writer lock, the endpoints and the disconnect routine that the  *)
(* workers of the RPC server run, and the clients with their two threads.  *)
(*                                                                         *)
(* What the server promises is taken from RpcServer: one worker at a time  *)
(* serves a connection, an id is never used again, and on_disconnect runs  *)
(* once, when the connection is gone.  A client waits for each answer.     *)
(***************************************************************************)
EXTENDS Integers, FiniteSets, SequencesExt

CONSTANTS
    Ids,            \* channel ids; each is one session, and names its mailbox
    Names, Valid,   \* user names, and those chatroom_login accepts
    Workers,
    PollSize,       \* messages of one poll
    Commands,       \* what is typed: [to |-> a name], or [to |-> None] for all
    MaxTyped,       \* bound on the commands of a client
    None

ASSUME ChatInputs ==
    /\ Valid \subseteq Names /\ None \notin Names \cup Ids \cup Workers /\ None \notin Seq(Nat)
    /\ PollSize \in Nat \ {0} /\ MaxTyped \in Nat
    /\ Commands \subseteq [to : Names \cup {None}]

VARIABLES
    id_map,         \* channel id -> user name, or None
    mailboxes,      \* user name -> mailbox, or None
    iterator,       \* the iterator of the map mailboxes: the names it has yet to reach
    box,            \* mailbox -> its messages, or None if not allocated
    readers, writer,            \* global_lock
    pc, id, mb, msg,            \* of a worker
    conn,           \* of a connection: "new", "queued", "held", "cut", "gone"
    main,           \* run_chat_server: "running", "deleted"
    client,         \* of a client: its worker thread
    send_q, typed,  \* what was typed and not sent yet, how much was typed
    call,           \* of a client: its request, or the status it was answered with
    count, audience, got        \* history: messages, who was to get one, what a box got

room == <<id_map, mailboxes, iterator, box>>
lock == <<readers, writer>>
worker == <<pc, id, mb, msg>>
user == <<client, send_q, typed, call>>
history == <<count, audience, got>>
vars == <<room, lock, worker, conn, main, user, history>>

Users == {n \in Names : mailboxes[n] # None}

Init ==
    /\ id_map = [i \in Ids |-> None] /\ mailboxes = [n \in Names |-> None]
    /\ iterator = {} /\ box = [i \in Ids |-> None]
    /\ readers = {} /\ writer = None
    /\ pc = [w \in Workers |-> "idle"] /\ id = [w \in Workers |-> None]
    /\ mb = [w \in Workers |-> None] /\ msg = [w \in Workers |-> [what |-> "none", n |-> 0]]
    /\ conn = [i \in Ids |-> "new"] /\ main = "running"
    /\ client = [i \in Ids |-> "new"]
    /\ send_q = [i \in Ids |-> <<>>] /\ typed = 0
    /\ call = [i \in Ids |-> [ep |-> "none", to |-> None]]
    /\ count = 0 /\ audience = <<>> /\ got = [i \in Ids |-> <<>>]

-----------------------------------------------------------------------------
(* The client.  A call is a request to an endpoint, or the answer to one.   *)
Call(ep, to) == [ep |-> ep, to |-> to]
Requests == {"login", "global", "private", "poll"}
Asks(i) == call[i].ep \in Requests
Answered(i) == call[i].ep \in {"ok", "error"}

(* main connects, the server accepts, and login is requested.               *)
Accept(i) == conn' = [conn EXCEPT ![i] = "queued"]

Connect(i, n) ==
    /\ client[i] = "new" /\ main = "running"
    /\ client' = [client EXCEPT ![i] = "login"]
    /\ Accept(i)
    /\ call' = [call EXCEPT ![i] = Call("login", n)]
    /\ UNCHANGED <<room, lock, worker, main, send_q, typed, history>>

(* A refused login ends the program; after one that is accepted the worker  *)
(* thread and the prompt start.                                             *)
LoggedIn(i) ==
    /\ client[i] = "login" /\ Answered(i)
    /\ client' = [client EXCEPT ![i] = IF call[i].ep = "ok" THEN "loop" ELSE "gone"]
    /\ call' = [call EXCEPT ![i] = Call("none", None)]
    /\ UNCHANGED <<room, lock, worker, conn, main, send_q, typed, history>>

(* The prompt: a command is pushed to send_q, whatever the worker thread is *)
(* doing.                                                                   *)
TypeCommand(i, c) ==
    /\ client[i] \in {"loop", "sending", "polling"} /\ typed < MaxTyped
    /\ send_q' = [send_q EXCEPT ![i] = Append(@, c)]
    /\ typed' = typed + 1
    /\ UNCHANGED <<room, lock, worker, conn, main, client, call, history>>

(* client_worker_routine: the newest command of send_q is sent, if there is *)
(* one ...                                                                  *)
SendCommand(i) ==
    /\ client[i] = "loop" /\ send_q[i] # <<>>
    /\ call' = [call EXCEPT ![i] =
            LET c == Last(send_q[i])
            IN Call(IF c.to = None THEN "global" ELSE "private", c.to)]
    /\ send_q' = [send_q EXCEPT ![i] = Front(@)]
    /\ client' = [client EXCEPT ![i] = "sending"]
    /\ UNCHANGED <<room, lock, worker, conn, main, typed, history>>

(* ... and in any case it polls.                                            *)
SendPoll(i) ==
    /\ \/ client[i] = "loop" /\ send_q[i] = <<>>
       \/ client[i] = "sending" /\ Answered(i)
    /\ call' = [call EXCEPT ![i] = Call("poll", None)]
    /\ client' = [client EXCEPT ![i] = "polling"]
    /\ UNCHANGED <<room, lock, worker, conn, main, send_q, typed, history>>

(* What was polled goes to the screen.                                      *)
Polled(i) ==
    /\ client[i] = "polling" /\ Answered(i)
    /\ client' = [client EXCEPT ![i] = "loop"]
    /\ call' = [call EXCEPT ![i] = Call("none", None)]
    /\ UNCHANGED <<room, lock, worker, conn, main, send_q, typed, history>>

(* The program ends: it was told to, its call failed, or it was killed.     *)
(* What it sent is still there.                                             *)
HangUp(i) ==
    /\ client[i] \notin {"new", "gone"}
    /\ client' = [client EXCEPT ![i] = "gone"]
    /\ send_q' = [send_q EXCEPT ![i] = <<>>]
    /\ UNCHANGED <<room, lock, worker, conn, main, typed, call, history>>

-----------------------------------------------------------------------------
(* The server.  A worker takes a connection with a request and calls the    *)
(* endpoint ...                                                             *)
Serve(w, i) ==
    /\ main = "running" /\ pc[w] = "idle" /\ conn[i] = "queued" /\ Asks(i)
    /\ conn' = [conn EXCEPT ![i] = "held"]
    /\ id' = [id EXCEPT ![w] = i]
    /\ pc' = [pc EXCEPT ![w] = call[i].ep]
    /\ UNCHANGED <<room, lock, mb, msg, main, user, history>>

(* ... or one that is closed or was idle for too long, and cuts it.         *)
Cut(w, i) ==
    /\ main = "running" /\ pc[w] = "idle" /\ conn[i] = "queued" /\ ~Asks(i)
    /\ conn' = [conn EXCEPT ![i] = "cut"]
    /\ id' = [id EXCEPT ![w] = i]
    /\ pc' = [pc EXCEPT ![w] = "get_username"]
    /\ UNCHANGED <<room, lock, mb, msg, main, user, history>>

(* The response is sent and the connection goes back to the queue.          *)
Respond(w, r) ==
    /\ call' = [call EXCEPT ![id[w]] = Call(IF client[id[w]] = "gone" THEN "none" ELSE r, None)]
    /\ conn' = [conn EXCEPT ![id[w]] = "queued"]
    /\ pc' = [pc EXCEPT ![w] = "idle"]
    /\ id' = [id EXCEPT ![w] = None]
    /\ UNCHANGED <<client, send_q, typed>>

(* on_disconnect returns: the connection is gone.                           *)
Gone(w) ==
    /\ conn' = [conn EXCEPT ![id[w]] = "gone"]
    /\ pc' = [pc EXCEPT ![w] = "idle"]
    /\ id' = [id EXCEPT ![w] = None]

(* A mailbox is a list that is filled and emptied at its end.               *)
Push(b, m) == box' = [box EXCEPT ![b] = Append(@, m)]
PollNewest(b) == box' = [box EXCEPT ![b] =
    SubSeq(@, 1, IF Len(@) > PollSize THEN Len(@) - PollSize ELSE 0)]

-----------------------------------------------------------------------------
(* global_lock.                                                             *)
CanRead == writer = None
CanWrite == writer = None /\ readers = {}

RdLock(w) == CanRead /\ readers' = readers \cup {w} /\ UNCHANGED writer
WrLock(w) == CanWrite /\ writer' = w /\ UNCHANGED readers
RwUnlock(w) ==
    /\ readers' = readers \ {w}
    /\ writer' = IF writer = w THEN None ELSE writer

(* chatroom_login: under the write lock the user gets a name and a mailbox, *)
(* which chatroom_login_ep announces afterwards.                            *)
Login(w) ==
    LET i == id[w]  n == call[i].to
    IN /\ pc[w] = "login"
       /\ n \in Valid => CanWrite
       /\ IF n \notin Valid \/ id_map[i] # None \/ mailboxes[n] # None
          THEN Respond(w, "error") /\ UNCHANGED <<room, msg>>
          ELSE /\ id_map' = [id_map EXCEPT ![i] = n]
               /\ mailboxes' = [mailboxes EXCEPT ![n] = i]
               /\ box' = [box EXCEPT ![i] = <<>>]
               /\ pc' = [pc EXCEPT ![w] = "announce"]
               /\ msg' = [msg EXCEPT ![w].what = "in"]
               /\ UNCHANGED <<iterator, id, conn, user>>
       /\ UNCHANGED <<lock, mb, main, history>>

(* _chatroom_send_global_msg, for an endpoint or for $ROOT: the map has one *)
(* iterator, so the write lock is held while it goes round.                 *)
GlobalReadLock(w) == RdLock(w)     \* variant: the read lock is held
GlobalLock(w) == WrLock(w)

SendGlobal(w) ==
    /\ pc[w] \in {"global", "announce"}
    /\ IF pc[w] = "global" /\ id_map[id[w]] = None
       THEN CanWrite /\ Respond(w, "error") /\ UNCHANGED <<iterator, lock, msg, count, audience>>
       ELSE /\ GlobalLock(w)
            /\ iterator' = Users
            /\ pc' = [pc EXCEPT ![w] = "sending"]
            /\ msg' = [msg EXCEPT ![w] =
                    [what |-> IF pc[w] = "global" THEN "said" ELSE @.what, n |-> count + 1]]
            /\ count' = count + 1
            /\ audience' = Append(audience, {mailboxes[n] : n \in Users})
            /\ UNCHANGED <<id, conn, user>>
    /\ UNCHANGED <<id_map, mailboxes, box, mb, main, got>>

NextMailbox(w) ==
    LET n == CHOOSE u \in iterator : TRUE  b == mailboxes[n]
    IN /\ pc[w] = "sending" /\ iterator # {}
       /\ iterator' = iterator \ {n}
       /\ Push(b, msg[w].n)
       /\ got' = [got EXCEPT ![b] = Append(@, msg[w].n)]
       /\ UNCHANGED <<id_map, mailboxes, lock, worker, conn, main, user, count, audience>>

(* The last mailbox: a message of a user is answered, and so is a login; a  *)
(* logout was announced by a worker that has no connection.                 *)
EndGlobal(w) ==
    /\ pc[w] = "sending" /\ iterator = {}
    /\ RwUnlock(w)
    /\ IF msg[w].what = "out"
       THEN Gone(w) /\ UNCHANGED user
       ELSE Respond(w, "ok")
    /\ msg' = [msg EXCEPT ![w] = [what |-> "none", n |-> 0]]
    /\ UNCHANGED <<room, mb, main, history>>

(* _chatroom_send_private_msg: the read lock keeps the mailbox that was     *)
(* found in the map from being freed, until the message is in it.           *)
Receiver(w) == IF id_map[id[w]] = None THEN None ELSE mailboxes[call[id[w]].to]

FindUnlocked(w) ==     \* variant: the lock is released before the message is pushed
    LET b == Receiver(w)
    IN /\ pc[w] = "private" /\ CanRead
       /\ IF b = None
          THEN Respond(w, "error") /\ UNCHANGED mb
          ELSE /\ mb' = [mb EXCEPT ![w] = b]
               /\ pc' = [pc EXCEPT ![w] = "push"]
               /\ UNCHANGED <<id, conn, user>>
       /\ UNCHANGED <<room, lock, msg, main, history>>

FindKeepsLock(w) ==    \* variant: the lock is not released when there is no receiver
    LET b == Receiver(w)
    IN /\ pc[w] = "private" /\ RdLock(w)
       /\ IF b = None
          THEN Respond(w, "error") /\ UNCHANGED mb
          ELSE /\ mb' = [mb EXCEPT ![w] = b]
               /\ pc' = [pc EXCEPT ![w] = "push"]
               /\ UNCHANGED <<id, conn, user>>
       /\ UNCHANGED <<room, msg, main, history>>

FindMailbox(w) ==
    LET b == Receiver(w)
    IN /\ pc[w] = "private"
       /\ IF b = None
          THEN CanRead /\ Respond(w, "error") /\ UNCHANGED <<lock, mb>>
          ELSE /\ RdLock(w)
               /\ mb' = [mb EXCEPT ![w] = b]
               /\ pc' = [pc EXCEPT ![w] = "push"]
               /\ UNCHANGED <<id, conn, user>>
       /\ UNCHANGED <<room, msg, main, history>>

PushPrivate(w) ==
    /\ pc[w] = "push"
    /\ Push(mb[w], 0)
    /\ mb' = [mb EXCEPT ![w] = None]
    /\ RwUnlock(w)
    /\ Respond(w, "ok")
    /\ UNCHANGED <<id_map, mailboxes, iterator, msg, main, history>>

(* chatroom_poll: the newest messages of the user's mailbox are taken; who  *)
(* is not logged in gets an empty answer.                                   *)
Poll(w) ==
    /\ pc[w] = "poll" /\ CanRead
    /\ IF id_map[id[w]] = None THEN UNCHANGED box ELSE PollNewest(id[w])
    /\ Respond(w, "ok")
    /\ UNCHANGED <<id_map, mailboxes, iterator, lock, mb, msg, main, history>>

(* chatroom_on_disconnect: the name is read ...                             *)
GetUsername(w) ==
    /\ pc[w] = "get_username" /\ CanRead
    /\ pc' = [pc EXCEPT ![w] = "logout"]
    /\ UNCHANGED <<room, lock, id, mb, msg, conn, main, user, history>>

LogoutKeepsName(w) ==  \* variant: the name stays in the map of the mailboxes
    LET i == id[w]
    IN /\ pc[w] = "logout" /\ CanWrite
       /\ IF id_map[i] = None
          THEN Gone(w) /\ UNCHANGED <<room, msg>>
          ELSE /\ id_map' = [id_map EXCEPT ![i] = None]
               /\ pc' = [pc EXCEPT ![w] = "announce"]
               /\ msg' = [msg EXCEPT ![w].what = "out"]
               /\ UNCHANGED <<mailboxes, box, iterator, conn, id>>
       /\ UNCHANGED <<lock, mb, main, user, history>>

(* ... then the name is removed and the mailbox freed, and that is announced*)
(* afterwards.                                                              *)
Logout(w) ==
    LET i == id[w]
    IN /\ pc[w] = "logout" /\ CanWrite
       /\ IF id_map[i] = None
          THEN Gone(w) /\ UNCHANGED <<room, msg>>
          ELSE /\ id_map' = [id_map EXCEPT ![i] = None]
               /\ mailboxes' = [mailboxes EXCEPT ![id_map[i]] = None]
               /\ box' = [box EXCEPT ![i] = None]
               /\ pc' = [pc EXCEPT ![w] = "announce"]
               /\ msg' = [msg EXCEPT ![w].what = "out"]
               /\ UNCHANGED <<iterator, conn, id>>
       /\ UNCHANGED <<lock, mb, main, user, history>>

-----------------------------------------------------------------------------
(* SIGINT: the accept loop ends and delete_chrpc_server waits until every   *)
(* worker is done (that one started nothing new in between is the same as   *)
(* that it had nothing to do); then the names and the mailboxes that        *)
(* on_disconnect was not called for are freed.                              *)
DeleteState ==
    /\ box' = [b \in Ids |-> IF \E n \in Users : mailboxes[n] = b THEN None ELSE box[b]]
    /\ id_map' = [i \in Ids |-> None] /\ mailboxes' = [n \in Names |-> None]

Shutdown ==
    /\ main = "running" /\ \A w \in Workers : pc[w] = "idle"
    /\ main' = "deleted"
    /\ DeleteState
    /\ UNCHANGED <<iterator, lock, worker, conn, user, history>>

-----------------------------------------------------------------------------
WorkerStep(w) ==
    \/ \E i \in Ids : Serve(w, i) \/ Cut(w, i)
    \/ Login(w) \/ SendGlobal(w) \/ NextMailbox(w) \/ EndGlobal(w)
    \/ FindMailbox(w) \/ PushPrivate(w) \/ Poll(w)
    \/ GetUsername(w) \/ Logout(w)

ClientStep(i) ==
    \/ \E n \in Names : Connect(i, n)
    \/ \E c \in Commands : TypeCommand(i, c)
    \/ LoggedIn(i) \/ SendCommand(i) \/ SendPoll(i) \/ Polled(i) \/ HangUp(i)

Next ==
    \/ \E w \in Workers : WorkerStep(w)
    \/ \E i \in Ids : ClientStep(i)
    \/ Shutdown

Spec == Init /\ [][Next]_vars

-----------------------------------------------------------------------------
Labels == {"idle", "login", "announce", "global", "private", "push", "poll", "sending",
           "get_username", "logout"}

RoomType ==
    /\ id_map \in [Ids -> Names \cup {None}] /\ mailboxes \in [Names -> Ids \cup {None}]
    /\ iterator \subseteq Names /\ box \in [Ids -> Seq(Nat) \cup {None}]
    /\ readers \subseteq Workers /\ writer \in Workers \cup {None}

WorkerType ==
    /\ pc \in [Workers -> Labels] /\ id \in [Workers -> Ids \cup {None}]
    /\ mb \in [Workers -> Ids \cup {None}]
    /\ msg \in [Workers -> [what : {"none", "in", "said", "out"}, n : Nat]]

CallType ==
    /\ call \in [Ids -> [ep : Requests \cup {"none", "ok", "error"}, to : Names \cup {None}]]
    /\ \A i \in Ids : call[i].ep = "private" => call[i].to \in Names

ClientType ==
    /\ conn \in [Ids -> {"new", "queued", "held", "cut", "gone"}]
    /\ main \in {"running", "deleted"}
    /\ client \in [Ids -> {"new", "login", "loop", "sending", "polling", "gone"}]
    /\ send_q \in [Ids -> Seq(Commands)] /\ typed \in 0..MaxTyped
    /\ CallType

HistoryType ==
    count \in Nat /\ audience \in Seq(SUBSET Ids) /\ got \in [Ids -> Seq(Nat)]

(* The types; a private message has a receiver.                             *)
CTypeOK == RoomType /\ WorkerType /\ ClientType /\ HistoryType

(* A name belongs to one session, which has it in both maps, has a mailbox, *)
(* and has a connection or a worker that is about to log it out: no name    *)
(* stays taken by a client that left.                                       *)
NamesMatch ==
    /\ \A i \in Ids, n \in Names : id_map[i] = n <=> mailboxes[n] = i
    /\ \A i \in Ids : id_map[i] # None <=> box[i] # None
    /\ \A i \in Ids : id_map[i] # None => conn[i] \in {"queued", "held", "cut"}

(* A mailbox is not freed between the moment a worker finds it in the map   *)
(* and the moment it has pushed into it.                                    *)
MailboxAlive == \A w \in Workers : pc[w] = "push" => box[mb[w]] # None

(* Every broadcast reaches each mailbox there was, once, and all mailboxes  *)
(* get the broadcasts in the same order.                                    *)
EveryoneHears == \A i \in Ids :
    /\ \A j, k \in DOMAIN got[i] : j < k => got[i][j] < got[i][k]
    /\ writer = None => {got[i][k] : k \in DOMAIN got[i]} = {n \in 1..count : i \in audience[n]}

(* global_lock is held by a worker that is going round the mailboxes or has *)
(* one to push to, and by no other: whatever an endpoint returns, it leaves *)
(* the lock to the workers that wait for it.                                *)
LockReleased ==
    /\ readers = {w \in Workers : pc[w] = "push"}
    /\ {w \in Workers : pc[w] = "sending"} = IF writer = None THEN {} ELSE {writer}
=============================================================================
