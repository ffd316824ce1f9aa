--------------------------- MODULE ChatroomProofs ---------------------------
(***************************************************************************)
(* Proofs about Chatroom, for any number of workers, sessions, names and   *)
(* commands: whoever leaves, and whenever, names, mailboxes and sessions   *)
(* stay together, a mailbox in use is not freed, and a broadcast is heard  *)
(* by everyone.                                                            *)
(***************************************************************************)
EXTENDS Chatroom, SequenceTheorems, TLAPS

Busy(w) == pc[w] # "idle"

(* A worker that logs a user out, or announces that it did.                 *)
Ending(w) ==
    \/ pc[w] \in {"get_username", "logout"}
    \/ pc[w] \in {"announce", "sending"} /\ msg[w].what = "out"

(* A busy worker has a connection to itself, which waits for an answer, or  *)
(* is gone.                                                                 *)
OwnsConnection == \A w \in Workers :
    Busy(w) => id[w] \in Ids /\ conn[id[w]] = IF Ending(w) THEN "cut" ELSE "held"

(* No two workers have one connection.                                     *)
OneWorker == \A v, w \in Workers : v # w /\ Busy(v) /\ Busy(w) => id[v] # id[w]

(* Until it is answered, the request that is served stays what it was.      *)
StillAsks == \A w \in Workers : Busy(w) /\ ~Ending(w) =>
    Asks(id[w]) /\ (pc[w] = "private" => call[id[w]].ep = "private")

(* A client that asks waits, and a connection is new as long as its client. *)
ClientCalls == \A i \in Ids :
    /\ client[i] = "loop" => call[i].ep = "none"
    /\ client[i] = "new" => conn[i] = "new"

(* What RpcServer and the clients do for the endpoints.                     *)
Served == OwnsConnection /\ OneWorker /\ StillAsks /\ ClientCalls

Sessions == CTypeOK /\ Served

(* A user whose logout is announced has no name.                            *)
LoggedOut == \A w \in Workers :
    pc[w] \in {"announce", "sending"} /\ msg[w].what = "out" => id_map[id[w]] = None

(* A broadcast goes round mailboxes that exist, with the lock.              *)
RoundLocked == iterator \subseteq Users /\ (iterator # {} => writer # None)

(* The mailbox a worker found is one.                                       *)
FoundMailbox == \A w \in Workers : pc[w] = "push" => mb[w] \in Ids

(* LockReleased, worker by worker.                                          *)
LockPoints == \A w \in Workers :
    (w \in readers <=> pc[w] = "push") /\ (writer = w <=> pc[w] = "sending")

(* What the endpoints do with the room.                                     *)
Boxes == LoggedOut /\ RoundLocked /\ FoundMailbox /\ NamesMatch /\ MailboxAlive

(* The inductive invariant.                                                 *)
RoomInv == Sessions /\ LockPoints /\ Boxes

-----------------------------------------------------------------------------
(* The types.                                                               *)

(* The types at the start.                                                  *)
LEMMA InitTypes == Init => CTypeOK
  BY ChatInputs DEF Init, CTypeOK, RoomType, WorkerType, ClientType, CallType, HistoryType,
                    Labels, Requests

(* What is left when the newest command was taken.                          *)
LEMMA FrontIsSeq ==
    ASSUME NEW S, NEW s \in Seq(S), s # <<>>
    PROVE  Front(s) \in Seq(S) /\ Last(s) \in S
<1>1. Len(s) \in Nat \ {0}
  OBVIOUS
<1>2. Front(s) \in Seq(S)
  BY <1>1, SubSeqProperties DEF Front
<1> QED BY <1>1, <1>2 DEF Last

(* What is left when the newest messages were taken.                        *)
LEMMA NewestIsSeq ==
    ASSUME NEW s \in Seq(Nat)
    PROVE  SubSeq(s, 1, IF Len(s) > PollSize THEN Len(s) - PollSize ELSE 0) \in Seq(Nat)
<1> DEFINE n == IF Len(s) > PollSize THEN Len(s) - PollSize ELSE 0
<1>1. n \in 0..Len(s)
  BY ChatInputs
<1> QED BY <1>1, SubSeqProperties

(* An answer keeps the types of what it changes.                            *)
LEMMA RespondTypes ==
    ASSUME WorkerType, ClientType, NEW w \in Workers, id[w] \in Ids, NEW r \in {"ok", "error"},
           Respond(w, r)
    PROVE  /\ pc' \in [Workers -> Labels] /\ id' \in [Workers -> Ids \cup {None}]
           /\ conn' \in [Ids -> {"new", "queued", "held", "cut", "gone"}]
           /\ CallType' /\ UNCHANGED <<client, send_q, typed>>
<1>1. Call("none", None) \in [ep : Requests \cup {"none", "ok", "error"}, to : Names \cup {None}]
      /\ Call(r, None) \in [ep : Requests \cup {"none", "ok", "error"}, to : Names \cup {None}]
      /\ Call("none", None).ep = "none" /\ Call(r, None).ep = r
  BY DEF Call
<1> DEFINE a == IF client[id[w]] = "gone" THEN Call("none", None) ELSE Call(r, None)
<1>2. call' = [call EXCEPT ![id[w]] = a]
  BY DEF Respond, Call
<1>3. a \in [ep : Requests \cup {"none", "ok", "error"}, to : Names \cup {None}] /\ a.ep # "private"
  BY <1>1
<1> HIDE DEF a
<1> QED BY <1>2, <1>3 DEF Respond, WorkerType, ClientType, CallType, Labels

(* Announcing a user changes only what the next message is.                 *)
LEMMA AnnounceTypes ==
    ASSUME WorkerType, NEW w \in Workers, NEW k \in {"in", "out"},
           pc' = [pc EXCEPT ![w] = "announce"], msg' = [msg EXCEPT ![w].what = k],
           UNCHANGED <<id, mb>>
    PROVE  WorkerType'
<1> DEFINE m == [msg[w] EXCEPT !.what = k]
<1>1. msg[w] \in [what : {"none", "in", "said", "out"}, n : Nat]
  BY DEF WorkerType
<1>2. m \in [what : {"none", "in", "said", "out"}, n : Nat]
  BY <1>1
<1>3. msg' = [msg EXCEPT ![w] = m]
  OBVIOUS
<1> HIDE DEF m
<1> QED BY <1>2, <1>3 DEF WorkerType, Labels

(* The steps of a client keep the types.                                    *)
LEMMA ClientTypes ==
    ASSUME CTypeOK, NEW i \in Ids, ClientStep(i)
    PROVE  CTypeOK'
<1> USE DEF CTypeOK
<1>1. UNCHANGED room /\ UNCHANGED lock /\ UNCHANGED worker /\ UNCHANGED history
  BY DEF ClientStep, Connect, TypeCommand, LoggedIn, SendCommand, SendPoll, Polled, HangUp
<1>2. RoomType' /\ WorkerType' /\ HistoryType'
  BY <1>1 DEF room, lock, worker, history, RoomType, WorkerType, HistoryType
<1>3. ASSUME NEW n \in Names, Connect(i, n) PROVE ClientType'
  BY <1>3 DEF Connect, Accept, Call, ClientType, CallType, Requests
<1>4. ASSUME NEW c \in Commands, TypeCommand(i, c) PROVE ClientType'
  BY <1>4, ChatInputs DEF TypeCommand, ClientType, CallType
<1>5. CASE LoggedIn(i)
  BY <1>2, <1>5 DEF LoggedIn, Call, ClientType, CallType, Requests
<1>6. CASE SendCommand(i)
  <2> DEFINE c == Last(send_q[i])
             a == Call(IF c.to = None THEN "global" ELSE "private", c.to)
  <2>1. Front(send_q[i]) \in Seq(Commands) /\ c \in Commands
    <3>1. send_q[i] \in Seq(Commands) /\ send_q[i] # <<>>
      BY <1>6 DEF SendCommand, ClientType
    <3> QED BY <3>1, FrontIsSeq
  <2>2. c.to \in Names \cup {None}
    <3>1. c \in [to : Names \cup {None}]
      BY <2>1, ChatInputs
    <3> HIDE DEF c
    <3> QED BY <3>1
  <2>3. /\ a \in [ep : Requests \cup {"none", "ok", "error"}, to : Names \cup {None}]
        /\ a.ep = "private" => a.to \in Names
    BY <2>2 DEF Call, Requests
  <2>4. call' = [call EXCEPT ![i] = a]
    BY <1>6 DEF SendCommand
  <2>5. CallType'
    <3> HIDE DEF a
    <3> QED BY <2>3, <2>4 DEF ClientType, CallType
  <2> QED BY <1>2, <1>6, <2>1, <2>5 DEF SendCommand, ClientType
<1>7. CASE SendPoll(i)
  BY <1>2, <1>7 DEF SendPoll, Call, ClientType, CallType, Requests
<1>8. CASE Polled(i)
  BY <1>2, <1>8 DEF Polled, Call, ClientType, CallType, Requests
<1>9. CASE HangUp(i)
  <2>1. <<>> \in Seq(Commands)
    OBVIOUS
  <2> QED BY <1>2, <1>9, <2>1 DEF HangUp, ClientType, CallType
<1> QED BY <1>2, <1>3, <1>4, <1>5, <1>6, <1>7, <1>8, <1>9 DEF ClientStep

(* So do those of a worker, as its connection and mailbox exist.            *)
LEMMA WorkerTypes ==
    ASSUME RoomInv, NEW w \in Workers, WorkerStep(w)
    PROVE  CTypeOK'
<1> USE DEF CTypeOK, RoomInv, Sessions, Served, Boxes
<1>1. ASSUME NEW i \in Ids, Serve(w, i) PROVE CTypeOK'
  BY <1>1 DEF Serve, Asks, Requests, Labels, RoomType, WorkerType, ClientType, CallType, HistoryType,
              room, lock, user, history
<1>2. ASSUME NEW i \in Ids, Cut(w, i) PROVE CTypeOK'
  BY <1>2 DEF Cut, Labels, RoomType, WorkerType, ClientType, CallType, HistoryType,
              room, lock, user, history
<1>3. ASSUME pc[w] # "idle", NEW r \in {"ok", "error"}, Respond(w, r)
      PROVE  /\ pc' \in [Workers -> Labels] /\ id' \in [Workers -> Ids \cup {None}]
             /\ UNCHANGED main => ClientType'
  BY <1>3, RespondTypes DEF OwnsConnection, Busy, ClientType
<1>4. id[w] \in Ids /\ Gone(w) /\ UNCHANGED <<main, user>> =>
        /\ pc' \in [Workers -> Labels] /\ id' \in [Workers -> Ids \cup {None}]
        /\ ClientType'
  BY DEF Gone, Labels, WorkerType, ClientType, CallType, user
<1>5. CASE Login(w)
  <2> DEFINE i == id[w]
             n == call[i].to
  <2>1. i \in Ids
    BY <1>5 DEF Login, OwnsConnection, Busy
  <2>2. CASE n \notin Valid \/ id_map[i] # None \/ mailboxes[n] # None
    <3>1. Respond(w, "error") /\ UNCHANGED <<room, msg, lock, mb, main, history>>
      BY <1>5, <2>2 DEF Login
    <3>2. ClientType' /\ pc' \in [Workers -> Labels] /\ id' \in [Workers -> Ids \cup {None}]
      BY <1>3, <1>5, <3>1 DEF Login, ClientType
    <3> QED BY <3>1, <3>2 DEF RoomType, WorkerType, HistoryType, room, lock, history
  <2>3. CASE ~(n \notin Valid \/ id_map[i] # None \/ mailboxes[n] # None)
    <3>1. n \in Names /\ <<>> \in Seq(Nat)
      BY <2>3, ChatInputs
    <3>2. RoomType'
      <4>1. /\ id_map' = [id_map EXCEPT ![i] = n] /\ mailboxes' = [mailboxes EXCEPT ![n] = i]
            /\ box' = [box EXCEPT ![i] = <<>>] /\ UNCHANGED <<iterator, readers, writer>>
        BY <1>5, <2>3 DEF Login, lock
      <4> HIDE DEF i, n
      <4> QED BY <2>1, <3>1, <4>1 DEF RoomType
    <3>3. WorkerType'
      <4>1. pc' = [pc EXCEPT ![w] = "announce"] /\ msg' = [msg EXCEPT ![w].what = "in"]
            /\ UNCHANGED <<id, mb>>
        BY <1>5, <2>3 DEF Login
      <4> QED BY <4>1, AnnounceTypes
    <3>4. UNCHANGED <<conn, main>> /\ UNCHANGED user /\ UNCHANGED history
      BY <1>5, <2>3 DEF Login
    <3> QED BY <3>2, <3>3, <3>4 DEF ClientType, CallType, HistoryType, user, history
  <2> QED BY <2>2, <2>3
<1>6. CASE SendGlobal(w)
  <2>1. CASE pc[w] = "global" /\ id_map[id[w]] = None
    <3>1. Respond(w, "error") /\ UNCHANGED <<iterator, msg, count, audience>> /\ UNCHANGED lock
          /\ UNCHANGED <<id_map, mailboxes, box, mb, main, got>>
      BY <1>6, <2>1 DEF SendGlobal
    <3>2. ClientType' /\ pc' \in [Workers -> Labels] /\ id' \in [Workers -> Ids \cup {None}]
      BY <1>3, <2>1, <3>1 DEF ClientType
    <3> QED BY <3>1, <3>2 DEF RoomType, WorkerType, HistoryType, lock
  <2>2. CASE ~(pc[w] = "global" /\ id_map[id[w]] = None)
    <3>1. {mailboxes[n] : n \in Users} \in SUBSET Ids
      BY DEF Users, RoomType
    <3>2. audience' \in Seq(SUBSET Ids)
      <4> DEFINE a == {mailboxes[n] : n \in Users}
      <4>1. audience' = Append(audience, a)
        BY <1>6, <2>2 DEF SendGlobal
      <4>2. a \in SUBSET Ids
        BY <3>1
      <4> HIDE DEF a
      <4> QED BY <4>1, <4>2 DEF HistoryType
    <3>3. HistoryType'
      BY <1>6, <2>2, <3>2 DEF SendGlobal, HistoryType
    <3>4. RoomType'
      BY <1>6, <2>2 DEF SendGlobal, GlobalLock, WrLock, Users, RoomType
    <3>5. WorkerType'
      <4>1. pc' = [pc EXCEPT ![w] = "sending"] /\ UNCHANGED <<id, mb>>
        BY <1>6, <2>2 DEF SendGlobal
      <4>2. msg' \in [Workers -> [what : {"none", "in", "said", "out"}, n : Nat]]
        <5> DEFINE k == IF pc[w] = "global" THEN "said" ELSE msg[w].what
        <5>1. msg' = [msg EXCEPT ![w] = [what |-> k, n |-> count + 1]]
          BY <1>6, <2>2 DEF SendGlobal
        <5>2. k \in {"none", "in", "said", "out"} /\ count + 1 \in Nat
          BY DEF WorkerType, HistoryType
        <5> HIDE DEF k
        <5> QED BY <5>1, <5>2 DEF WorkerType
      <4> QED BY <4>1, <4>2 DEF WorkerType, Labels
    <3>6. UNCHANGED <<conn, main>> /\ UNCHANGED user
      BY <1>6, <2>2 DEF SendGlobal
    <3> QED BY <3>3, <3>4, <3>5, <3>6 DEF ClientType, CallType, user
  <2> QED BY <2>1, <2>2
<1>7. CASE NextMailbox(w)
  <2> DEFINE n == CHOOSE u \in iterator : TRUE
             b == mailboxes[n]
  <2>1. n \in iterator
    BY <1>7 DEF NextMailbox
  <2>2. box' = [box EXCEPT ![b] = Append(box[b], msg[w].n)]
        /\ got' = [got EXCEPT ![b] = Append(got[b], msg[w].n)]
        /\ iterator' = iterator \ {n}
    BY <1>7 DEF NextMailbox, Push
  <2>3. UNCHANGED <<id_map, mailboxes, conn, main, count, audience>>
        /\ UNCHANGED lock /\ UNCHANGED worker /\ UNCHANGED user
    BY <1>7 DEF NextMailbox
  <2>4. n \in Users /\ b \in Ids /\ box[b] \in Seq(Nat)
    BY <1>7, <2>1, ChatInputs DEF RoundLocked, Users, RoomType, NamesMatch, NextMailbox
  <2>5. msg[w].n \in Nat
    BY DEF WorkerType
  <2>6. got' \in [Ids -> Seq(Nat)] /\ box' \in [Ids -> Seq(Nat) \cup {None}]
    <3> HIDE DEF n
    <3> QED BY <2>2, <2>4, <2>5 DEF HistoryType, RoomType
  <2>7. iterator' \subseteq Names
    <3> HIDE DEF n
    <3> QED BY <2>2 DEF RoomType
  <2> QED BY <2>3, <2>6, <2>7
        DEF RoomType, WorkerType, ClientType, CallType, HistoryType, lock, worker, user
<1>8. CASE EndGlobal(w)
  <2>1. RoomType' /\ HistoryType'
    BY <1>8 DEF EndGlobal, RwUnlock, RoomType, HistoryType, room, history
  <2>2. ClientType' /\ pc' \in [Workers -> Labels] /\ id' \in [Workers -> Ids \cup {None}]
    BY <1>3, <1>4, <1>8 DEF EndGlobal, OwnsConnection, Busy, user, ClientType
  <2>3. WorkerType'
    BY <1>8, <2>2 DEF EndGlobal, WorkerType
  <2> QED BY <2>1, <2>2, <2>3
<1>9. CASE FindMailbox(w)
  <2>1. UNCHANGED <<msg, main>> /\ UNCHANGED room /\ UNCHANGED history /\ pc[w] = "private"
    BY <1>9 DEF FindMailbox
  <2>2. CASE Receiver(w) = None
    <3>1. Respond(w, "error") /\ UNCHANGED <<readers, writer, mb>>
      BY <1>9, <2>2 DEF FindMailbox, lock
    <3>2. ClientType' /\ pc' \in [Workers -> Labels] /\ id' \in [Workers -> Ids \cup {None}]
      BY <1>3, <2>1, <3>1
    <3> QED BY <2>1, <3>1, <3>2 DEF RoomType, WorkerType, HistoryType, room, history
  <2>3. CASE Receiver(w) # None
    <3>1. Receiver(w) \in Ids
      <4>1. id[w] \in Ids /\ call[id[w]].ep = "private"
        BY <2>1 DEF OwnsConnection, StillAsks, Busy, Ending
      <4>2. call[id[w]].to \in Names
        BY <4>1 DEF ClientType, CallType
      <4> QED BY <2>3, <4>2 DEF Receiver, RoomType
    <3>2. WorkerType' /\ RoomType'
      BY <1>9, <2>1, <2>3, <3>1 DEF FindMailbox, RdLock, WorkerType, RoomType, Labels, room
    <3>3. UNCHANGED conn /\ UNCHANGED user
      BY <1>9, <2>3 DEF FindMailbox
    <3> QED BY <2>1, <3>2, <3>3 DEF ClientType, CallType, HistoryType, user, history
  <2> QED BY <2>2, <2>3
<1>10. CASE PushPrivate(w)
  <2>1. /\ Respond(w, "ok") /\ pc[w] = "push" /\ UNCHANGED <<id_map, mailboxes, iterator, msg, main>>
        /\ UNCHANGED history /\ mb' = [mb EXCEPT ![w] = None] /\ RwUnlock(w)
        /\ box' = [box EXCEPT ![mb[w]] = Append(box[mb[w]], 0)]
    BY <1>10 DEF PushPrivate, Push
  <2>2. ClientType' /\ pc' \in [Workers -> Labels] /\ id' \in [Workers -> Ids \cup {None}]
    BY <1>3, <2>1
  <2>3. box[mb[w]] \in Seq(Nat)
    BY <2>1 DEF RoomType, FoundMailbox, MailboxAlive
  <2>4. box' \in [Ids -> Seq(Nat) \cup {None}]
    <3> DEFINE m == Append(box[mb[w]], 0)
    <3>1. m \in Seq(Nat)
      BY <2>3
    <3>2. box' = [box EXCEPT ![mb[w]] = m]
      BY <2>1
    <3> HIDE DEF m
    <3> QED BY <3>1, <3>2 DEF RoomType
  <2>5. RoomType'
    <3>1. id_map' = id_map /\ mailboxes' = mailboxes /\ iterator' = iterator
          /\ readers' \subseteq readers /\ writer' \in {writer, None}
      BY <2>1 DEF RwUnlock
    <3> QED BY <2>4, <3>1 DEF RoomType
  <2>6. WorkerType' /\ HistoryType'
    BY <2>1, <2>2 DEF WorkerType, HistoryType, history
  <2> QED BY <2>1, <2>2, <2>5, <2>6
<1>11. CASE Poll(w)
  <2>1. /\ Respond(w, "ok") /\ pc[w] = "poll" /\ UNCHANGED <<id_map, mailboxes, iterator, mb, msg, main>>
        /\ UNCHANGED history /\ UNCHANGED lock
    BY <1>11 DEF Poll
  <2>2. ClientType' /\ pc' \in [Workers -> Labels] /\ id' \in [Workers -> Ids \cup {None}]
    BY <1>3, <2>1
  <2>3. box' \in [Ids -> Seq(Nat) \cup {None}]
    <3>1. CASE id_map[id[w]] = None
      BY <1>11, <3>1 DEF Poll, RoomType
    <3>2. CASE id_map[id[w]] # None
      <4> DEFINE s == box[id[w]]
                 t == SubSeq(s, 1, IF Len(s) > PollSize THEN Len(s) - PollSize ELSE 0)
      <4>1. box' = [box EXCEPT ![id[w]] = t]
        BY <1>11, <3>2 DEF Poll, PollNewest
      <4>2. s \in Seq(Nat)
        BY <2>1, <3>2 DEF OwnsConnection, Busy, NamesMatch, RoomType
      <4>3. t \in Seq(Nat)
        BY <4>2, NewestIsSeq
      <4> HIDE DEF t
      <4> QED BY <4>1, <4>3 DEF RoomType
    <3> QED BY <3>1, <3>2
  <2> QED BY <2>1, <2>2, <2>3 DEF RoomType, WorkerType, HistoryType, lock, history
<1>12. CASE GetUsername(w)
  BY <1>12 DEF GetUsername, Labels, RoomType, WorkerType, ClientType, CallType, HistoryType,
               room, lock, user, history
<1>13. CASE Logout(w)
  <2>1. id[w] \in Ids
    BY <1>13 DEF Logout, OwnsConnection, Busy
  <2>2. CASE id_map[id[w]] = None
    BY <1>4, <1>13, <2>1, <2>2 DEF Logout, RoomType, WorkerType, HistoryType, room, lock, user, history
  <2>3. CASE id_map[id[w]] # None
    <3>1. UNCHANGED <<conn, main>> /\ UNCHANGED user /\ UNCHANGED history
      BY <1>13, <2>3 DEF Logout
    <3>2. RoomType'
      BY <1>13, <2>1, <2>3 DEF Logout, RoomType, lock
    <3>3. WorkerType'
      <4>1. pc' = [pc EXCEPT ![w] = "announce"] /\ msg' = [msg EXCEPT ![w].what = "out"]
            /\ UNCHANGED <<id, mb>>
        BY <1>13, <2>3 DEF Logout
      <4> QED BY <4>1, AnnounceTypes
    <3> QED BY <3>1, <3>2, <3>3 DEF ClientType, CallType, HistoryType, user, history
  <2> QED BY <2>2, <2>3
<1> QED BY <1>1, <1>2, <1>5, <1>6, <1>7, <1>8, <1>9, <1>10, <1>11, <1>12, <1>13 DEF WorkerStep

(* CTypeOK is inductive together with RoomInv.                              *)
LEMMA TypeStep == RoomInv /\ [Next]_vars => CTypeOK'
<1> SUFFICES ASSUME RoomInv, [Next]_vars PROVE CTypeOK'
  OBVIOUS
<1>1. CTypeOK
  BY DEF RoomInv, Sessions
<1>2. ASSUME NEW w \in Workers, WorkerStep(w) PROVE CTypeOK'
  BY <1>2, WorkerTypes
<1>3. ASSUME NEW i \in Ids, ClientStep(i) PROVE CTypeOK'
  BY <1>1, <1>3, ClientTypes
<1>4. CASE Shutdown
  BY <1>1, <1>4 DEF Shutdown, DeleteState, Users, CTypeOK, RoomType, WorkerType, ClientType, CallType,
                    HistoryType, lock, worker, user, history
<1>5. CASE UNCHANGED vars
  BY <1>1, <1>5 DEF CTypeOK, RoomType, WorkerType, ClientType, CallType, HistoryType,
                    vars, room, lock, worker, user, history
<1> QED BY <1>2, <1>3, <1>4, <1>5 DEF Next
-----------------------------------------------------------------------------
(* The sessions.                                                            *)

(* Taking a connection: it was queued, so nobody else has it.               *)
LEMMA TakeKeeps ==
    ASSUME Sessions, NEW w \in Workers, NEW i \in Ids, Serve(w, i) \/ Cut(w, i)
    PROVE  Served'
<1> USE DEF Sessions, Served, CTypeOK
<1>1. /\ conn[i] = "queued" /\ pc[w] = "idle" /\ id' = [id EXCEPT ![w] = i]
      /\ UNCHANGED <<mb, msg>> /\ UNCHANGED user
      /\ \/ conn' = [conn EXCEPT ![i] = "held"] /\ pc' = [pc EXCEPT ![w] = call[i].ep] /\ Asks(i)
         \/ conn' = [conn EXCEPT ![i] = "cut"] /\ pc' = [pc EXCEPT ![w] = "get_username"]
  BY DEF Serve, Cut
<1>2. \A v \in Workers : v # w => pc'[v] = pc[v] /\ id'[v] = id[v] /\ msg'[v] = msg[v]
  BY <1>1 DEF WorkerType
<1>3. \A v \in Workers : Busy(v) => id[v] # i
  BY <1>1 DEF OwnsConnection
<1>4. OwnsConnection'
  BY <1>1, <1>2, <1>3 DEF OwnsConnection, Busy, Ending, WorkerType, ClientType, Asks, Requests
<1>5. OneWorker'
  BY <1>1, <1>2, <1>3 DEF OneWorker, Busy, WorkerType
<1>6. StillAsks'
  BY <1>1, <1>2 DEF StillAsks, Busy, Ending, WorkerType, Asks, Requests, user
<1>7. ClientCalls'
  BY <1>1 DEF ClientCalls, ClientType, user
<1> QED BY <1>4, <1>5, <1>6, <1>7

(* What the answer to a request leaves to the other workers.                *)
LEMMA RespondKeeps ==
    ASSUME Sessions, NEW w \in Workers, Busy(w), ~Ending(w), NEW r \in {"ok", "error"},
           Respond(w, r), \A v \in Workers : v # w => msg'[v] = msg[v]
    PROVE  /\ Served'
           /\ pc' = [pc EXCEPT ![w] = "idle"] /\ id' = [id EXCEPT ![w] = None]
           /\ conn' = [conn EXCEPT ![id[w]] = "queued"]
<1> USE DEF Sessions, Served, CTypeOK
<1>1. /\ pc' = [pc EXCEPT ![w] = "idle"] /\ id' = [id EXCEPT ![w] = None]
      /\ conn' = [conn EXCEPT ![id[w]] = "queued"]
      /\ UNCHANGED <<client, send_q, typed>>
  BY DEF Respond
<1>2. id[w] \in Ids /\ conn[id[w]] = "held" /\ Asks(id[w])
  BY DEF OwnsConnection, StillAsks
<1>3. \A j \in Ids : j # id[w] => conn'[j] = conn[j] /\ call'[j] = call[j]
  BY DEF Respond, ClientType, CallType
<1>4. ~Busy(w)' /\ \A v \in Workers : v # w =>
        pc'[v] = pc[v] /\ id'[v] = id[v] /\ (Busy(v) => id[v] # id[w])
  BY <1>1 DEF WorkerType, OneWorker, Busy
<1>5. OwnsConnection'
  BY <1>3, <1>4 DEF OwnsConnection, Busy, Ending
<1>6. OneWorker'
  BY <1>4 DEF OneWorker, Busy
<1>7. StillAsks'
  BY <1>3, <1>4 DEF OwnsConnection, StillAsks, Busy, Ending, Asks
<1>8. ClientCalls'
  BY <1>1, <1>2, <1>3 DEF ClientCalls, Asks, Requests
<1> QED BY <1>1, <1>5, <1>6, <1>7, <1>8

(* The end of a session.                                                    *)
LEMMA GoneKeeps ==
    ASSUME Sessions, NEW w \in Workers, Busy(w), Ending(w), Gone(w), UNCHANGED user,
           \A v \in Workers : v # w => msg'[v] = msg[v]
    PROVE  Served'
<1> USE DEF Sessions, Served, CTypeOK
<1>1. id[w] \in Ids /\ conn[id[w]] = "cut"
  BY DEF OwnsConnection
<1>2. \A j \in Ids : (j # id[w] => conn'[j] = conn[j]) /\ call'[j] = call[j]
  BY DEF Gone, ClientType, user
<1>3. ~Busy(w)' /\ \A v \in Workers : v # w =>
        pc'[v] = pc[v] /\ id'[v] = id[v] /\ (Busy(v) => id[v] # id[w])
  BY DEF Gone, WorkerType, OneWorker, Busy
<1>4. OwnsConnection'
  BY <1>2, <1>3 DEF OwnsConnection, Busy, Ending
<1>5. OneWorker'
  BY <1>3 DEF OneWorker, Busy
<1>6. StillAsks'
  BY <1>2, <1>3 DEF OwnsConnection, StillAsks, Busy, Ending, Asks
<1>7. ClientCalls'
  BY <1>1, <1>2 DEF ClientCalls, user
<1> QED BY <1>4, <1>5, <1>6, <1>7

(* A worker goes on with the connection it has.                             *)
LEMMA StayKeeps ==
    ASSUME Sessions, NEW w \in Workers, Busy(w), Busy(w)', Ending(w)' <=> Ending(w),
           pc'[w] # "private", UNCHANGED <<id, conn>>, UNCHANGED user,
           \A v \in Workers : v # w => pc'[v] = pc[v] /\ msg'[v] = msg[v]
    PROVE  Served'
<1> USE DEF Sessions, Served
<1>1. OwnsConnection'
  BY DEF OwnsConnection, Busy, Ending
<1>2. OneWorker'
  BY DEF OneWorker, Busy
<1>3. StillAsks'
  BY DEF StillAsks, Busy, Ending, Asks, user
<1>4. ClientCalls'
  BY DEF ClientCalls, user
<1> QED BY <1>1, <1>2, <1>3, <1>4

(* A client changes no call that is being served.                           *)
LEMMA ClientKeeps ==
    ASSUME Sessions, NEW i \in Ids, ClientStep(i)
    PROVE  Served' /\ (\A j \in Ids : conn[j] # "new" => conn'[j] = conn[j])
           /\ UNCHANGED room /\ UNCHANGED lock /\ UNCHANGED worker /\ UNCHANGED history
<1> USE DEF Sessions, Served, CTypeOK
<1>1. UNCHANGED room /\ UNCHANGED lock /\ UNCHANGED worker /\ UNCHANGED history
  BY DEF ClientStep, Connect, TypeCommand, LoggedIn, SendCommand, SendPoll, Polled, HangUp
<1>2. \A j \in Ids : conn[j] # "new" => conn'[j] = conn[j] /\ (Asks(j) => call'[j] = call[j])
  BY DEF ClientStep, Connect, Accept, TypeCommand, LoggedIn, SendCommand, SendPoll, Polled, HangUp,
         ClientType, CallType, ClientCalls, Asks, Requests, Answered
<1>3. ClientCalls'
  BY DEF ClientStep, Connect, Accept, Call, TypeCommand, LoggedIn, SendCommand, SendPoll, Polled,
         HangUp, ClientType, CallType, ClientCalls
<1>4. OwnsConnection' /\ OneWorker'
  BY <1>1, <1>2 DEF worker, OwnsConnection, OneWorker, Busy, Ending
<1>5. StillAsks'
  BY <1>1, <1>2 DEF worker, OwnsConnection, StillAsks, Busy, Ending, Asks
<1> QED BY <1>1, <1>2, <1>3, <1>4, <1>5
-----------------------------------------------------------------------------
(* The room, action by action.                                              *)

(* None is none of what it stands beside.                                   *)
LEMMA NoneIsNoName == None \notin Names /\ None \notin Ids /\ None \notin Workers /\ None \notin Seq(Nat)
  BY ChatInputs

(* An answer that leaves the room and the lock alone.                       *)
LEMMA AnswerKeeps ==
    ASSUME RoomInv, NEW w \in Workers, Busy(w), ~Ending(w), NEW r \in {"ok", "error"},
           Respond(w, r), \A v \in Workers : v # w => msg'[v] = msg[v],
           pc[w] \notin {"push", "sending"},
           UNCHANGED room, UNCHANGED lock, UNCHANGED mb
    PROVE  Served' /\ LockPoints' /\ Boxes'
<1> USE DEF RoomInv, Sessions, CTypeOK
<1>1. /\ Served'
      /\ pc' = [pc EXCEPT ![w] = "idle"] /\ id' = [id EXCEPT ![w] = None]
      /\ conn' = [conn EXCEPT ![id[w]] = "queued"]
  BY RespondKeeps
<1>2. pc'[w] = "idle" /\ \A v \in Workers : v # w => pc'[v] = pc[v] /\ id'[v] = id[v]
  BY <1>1 DEF WorkerType
<1>3. LockPoints'
  BY <1>2 DEF LockPoints, lock
<1>4. LoggedOut' /\ RoundLocked' /\ FoundMailbox' /\ MailboxAlive'
  BY <1>2 DEF Boxes, LoggedOut, RoundLocked, FoundMailbox, MailboxAlive, Users, room, lock
<1>5. NamesMatch'
  BY <1>1 DEF Boxes, NamesMatch, ClientType, room
<1> QED BY <1>1, <1>3, <1>4, <1>5 DEF Boxes

(* Taking a connection changes nothing in the room.                         *)
LEMMA TakeRoom ==
    ASSUME RoomInv, NEW w \in Workers, NEW i \in Ids, Serve(w, i) \/ Cut(w, i)
    PROVE  LockPoints' /\ Boxes'
<1> USE DEF RoomInv, Sessions, CTypeOK
<1>1. /\ UNCHANGED room /\ UNCHANGED lock /\ UNCHANGED <<mb, msg>> /\ id' = [id EXCEPT ![w] = i]
      /\ \/ conn' = [conn EXCEPT ![i] = "held"] /\ pc' = [pc EXCEPT ![w] = call[i].ep] /\ Asks(i)
         \/ conn' = [conn EXCEPT ![i] = "cut"] /\ pc' = [pc EXCEPT ![w] = "get_username"]
      /\ pc[w] = "idle"
  BY DEF Serve, Cut
<1>2. /\ pc'[w] \notin {"idle", "push", "sending", "announce"}
      /\ \A v \in Workers : v # w => pc'[v] = pc[v] /\ id'[v] = id[v]
  BY <1>1 DEF WorkerType, Asks, Requests
<1>3. LockPoints'
  BY <1>1, <1>2 DEF LockPoints, lock
<1>4. LoggedOut' /\ RoundLocked' /\ FoundMailbox' /\ MailboxAlive'
  BY <1>1, <1>2 DEF Boxes, LoggedOut, RoundLocked, FoundMailbox, MailboxAlive, Users, room, lock
<1>5. NamesMatch'
  BY <1>1 DEF Boxes, NamesMatch, ClientType, room
<1> QED BY <1>3, <1>4, <1>5 DEF Boxes

(* chatroom_login gives a free name to a session without one.               *)
LEMMA LoginRoom ==
    ASSUME RoomInv, NEW w \in Workers, Login(w)
    PROVE  Served' /\ LockPoints' /\ Boxes'
<1> USE DEF RoomInv, Sessions, CTypeOK
<1> DEFINE i == id[w]
           n == call[i].to
<1>1. pc[w] = "login" /\ Busy(w) /\ ~Ending(w) /\ i \in Ids /\ conn[i] = "held"
  BY DEF Login, Busy, Ending, Served, OwnsConnection
<1>2. CASE n \notin Valid \/ id_map[i] # None \/ mailboxes[n] # None
  <2>1. Respond(w, "error") /\ UNCHANGED room /\ UNCHANGED msg /\ UNCHANGED lock /\ UNCHANGED mb
    BY <1>2 DEF Login
  <2> QED BY <1>1, <2>1, AnswerKeeps
<1>3. CASE ~(n \notin Valid \/ id_map[i] # None \/ mailboxes[n] # None)
  <2>1. /\ id_map' = [id_map EXCEPT ![i] = n] /\ mailboxes' = [mailboxes EXCEPT ![n] = i]
        /\ box' = [box EXCEPT ![i] = <<>>] /\ UNCHANGED <<iterator, readers, writer, mb>>
        /\ pc' = [pc EXCEPT ![w] = "announce"] /\ msg' = [msg EXCEPT ![w].what = "in"]
        /\ UNCHANGED <<id, conn>> /\ UNCHANGED user /\ writer = None /\ readers = {}
    BY <1>3 DEF Login, lock, CanWrite
  <2>2. n \in Names /\ id_map[i] = None /\ mailboxes[n] = None
    BY <1>3, ChatInputs
  <2>3. /\ pc'[w] = "announce" /\ msg'[w].what = "in"
        /\ \A v \in Workers : v # w => pc'[v] = pc[v] /\ msg'[v] = msg[v]
    BY <2>1 DEF WorkerType
  <2> HIDE DEF i, n
  <2>4. Served'
    BY <1>1, <2>1, <2>3, StayKeeps DEF Busy, Ending
  <2>5. LockPoints'
    BY <1>1, <2>1, <2>3 DEF LockPoints
  <2>6. NamesMatch'
    <3>1. \A j \in Ids, m \in Names : id_map[j] = m <=> mailboxes[m] = j
      BY DEF Boxes, NamesMatch
    <3>2. ASSUME NEW j \in Ids, NEW m \in Names PROVE id_map'[j] = m <=> mailboxes'[m] = j
      BY <1>1, <2>1, <2>2, <3>1, NoneIsNoName DEF RoomType
    <3>3. <<>> # None
      <4>1. <<>> \in Seq(Nat)
        OBVIOUS
      <4> QED BY <4>1, NoneIsNoName
    <3>4. ASSUME NEW j \in Ids
          PROVE  (id_map'[j] # None <=> box'[j] # None)
                 /\ (id_map'[j] # None => conn'[j] \in {"queued", "held", "cut"})
      BY <1>1, <2>1, <2>2, <3>3, NoneIsNoName DEF Boxes, NamesMatch, RoomType
    <3> QED BY <3>2, <3>4 DEF NamesMatch
  <2>7. LoggedOut'
    <3>1. \A v \in Workers : v # w /\ Busy(v) => id[v] # i
      BY <1>1 DEF Served, OneWorker, i
    <3> QED BY <2>1, <2>3, <3>1 DEF Boxes, LoggedOut, Served, OwnsConnection, Busy, RoomType
  <2>8. RoundLocked'
    BY <2>1 DEF Boxes, RoundLocked, Users
  <2>9. FoundMailbox' /\ MailboxAlive'
    BY <2>1, <2>3 DEF LockPoints, FoundMailbox, MailboxAlive
  <2> QED BY <2>4, <2>5, <2>6, <2>7, <2>8, <2>9 DEF Boxes
<1> QED BY <1>2, <1>3

(* A broadcast starts with the mailboxes there are.                         *)
LEMMA SendGlobalRoom ==
    ASSUME RoomInv, NEW w \in Workers, SendGlobal(w)
    PROVE  Served' /\ LockPoints' /\ Boxes'
<1> USE DEF RoomInv, Sessions, CTypeOK
<1>1. pc[w] \in {"global", "announce"} /\ Busy(w)
  BY DEF SendGlobal, Busy
<1>2. CASE pc[w] = "global" /\ id_map[id[w]] = None
  <2>1. Respond(w, "error") /\ UNCHANGED room /\ UNCHANGED msg /\ UNCHANGED lock /\ UNCHANGED mb
    BY <1>2 DEF SendGlobal, room
  <2>2. ~Ending(w)
    BY <1>2 DEF Ending
  <2> QED BY <1>1, <1>2, <2>1, <2>2, AnswerKeeps
<1>3. CASE ~(pc[w] = "global" /\ id_map[id[w]] = None)
  <2> DEFINE k == IF pc[w] = "global" THEN "said" ELSE msg[w].what
  <2>1. /\ iterator' = Users /\ writer = None /\ readers = {} /\ writer' = w
        /\ readers' = readers /\ pc' = [pc EXCEPT ![w] = "sending"]
        /\ msg' = [msg EXCEPT ![w] = [what |-> k, n |-> count + 1]]
        /\ UNCHANGED <<id, conn>> /\ UNCHANGED user /\ UNCHANGED <<id_map, mailboxes, box, mb>>
    BY <1>3 DEF SendGlobal, GlobalLock, WrLock, CanWrite
  <2>2. /\ pc'[w] = "sending" /\ msg'[w].what = k
        /\ \A v \in Workers : v # w => pc'[v] = pc[v] /\ msg'[v] = msg[v]
    BY <2>1 DEF WorkerType
  <2>3. k = "out" <=> pc[w] = "announce" /\ msg[w].what = "out"
    BY <1>1
  <2> HIDE DEF k
  <2>4. Served'
    BY <1>1, <2>1, <2>2, <2>3, StayKeeps DEF Busy, Ending
  <2>5. LockPoints'
    BY <1>1, <2>1, <2>2, NoneIsNoName DEF LockPoints
  <2>6. NamesMatch'
    BY <2>1 DEF Boxes, NamesMatch
  <2>7. LoggedOut' /\ RoundLocked' /\ FoundMailbox' /\ MailboxAlive'
    BY <2>1, <2>2, <2>3, NoneIsNoName
       DEF Boxes, LoggedOut, RoundLocked, FoundMailbox, MailboxAlive, Users
  <2> QED BY <2>4, <2>5, <2>6, <2>7 DEF Boxes
<1> QED BY <1>2, <1>3
(* Where the messages of a broadcast go.                                    *)
LEMMA NextIsBox ==
    ASSUME RoomInv, NEW w \in Workers, NextMailbox(w)
    PROVE  \E n \in iterator :
             /\ n \in Users /\ mailboxes[n] \in Ids /\ box[mailboxes[n]] \in Seq(Nat)
             /\ iterator' = iterator \ {n}
             /\ box' = [box EXCEPT ![mailboxes[n]] = Append(box[mailboxes[n]], msg[w].n)]
             /\ got' = [got EXCEPT ![mailboxes[n]] = Append(got[mailboxes[n]], msg[w].n)]
<1> DEFINE n == CHOOSE u \in iterator : TRUE
<1>1. n \in iterator
  BY DEF NextMailbox
<1>2. n \in Users /\ n \in Names /\ mailboxes[n] \in Ids
  BY <1>1 DEF RoomInv, Sessions, CTypeOK, Boxes, RoundLocked, Users, RoomType
<1>3. box[mailboxes[n]] \in Seq(Nat)
  BY <1>2, NoneIsNoName DEF RoomInv, Sessions, CTypeOK, Boxes, NamesMatch, RoomType
<1>4. /\ iterator' = iterator \ {n}
      /\ box' = [box EXCEPT ![mailboxes[n]] = Append(box[mailboxes[n]], msg[w].n)]
      /\ got' = [got EXCEPT ![mailboxes[n]] = Append(got[mailboxes[n]], msg[w].n)]
  BY DEF NextMailbox, Push
<1> HIDE DEF n
<1> QED BY <1>1, <1>2, <1>3, <1>4

(* A broadcast goes on.                                                     *)
LEMMA NextMailboxRoom ==
    ASSUME RoomInv, NEW w \in Workers, NextMailbox(w)
    PROVE  Served' /\ LockPoints' /\ Boxes'
<1> USE DEF RoomInv, Sessions, CTypeOK
<1>1. UNCHANGED <<id_map, mailboxes, conn>> /\ UNCHANGED lock /\ UNCHANGED worker /\ UNCHANGED user
      /\ pc[w] = "sending"
  BY DEF NextMailbox
<1>2. PICK n \in iterator :
        /\ mailboxes[n] \in Ids /\ box[mailboxes[n]] \in Seq(Nat) /\ iterator' = iterator \ {n}
        /\ box' = [box EXCEPT ![mailboxes[n]] = Append(box[mailboxes[n]], msg[w].n)]
  BY NextIsBox
<1> DEFINE m == Append(box[mailboxes[n]], msg[w].n)
<1>3. m # None
  <2>1. m \in Seq(Nat)
    BY <1>2 DEF WorkerType
  <2> QED BY <2>1, NoneIsNoName
<1>4. \A b \in Ids : box'[b] # None <=> box[b] # None
  <2>1. box' = [box EXCEPT ![mailboxes[n]] = m] /\ box[mailboxes[n]] # None
    BY <1>2, NoneIsNoName
  <2> HIDE DEF m
  <2> QED BY <1>3, <2>1 DEF RoomType
<1>5. Served' /\ LockPoints'
  BY <1>1 DEF Served, OwnsConnection, OneWorker, StillAsks, ClientCalls, Busy, Ending, Asks, LockPoints,
              lock, worker, user
<1>6. LoggedOut' /\ RoundLocked' /\ FoundMailbox' /\ MailboxAlive' /\ NamesMatch'
  BY <1>1, <1>2, <1>4 DEF Boxes, LoggedOut, RoundLocked, FoundMailbox, MailboxAlive, NamesMatch, Users,
                          lock, worker
<1> QED BY <1>5, <1>6 DEF Boxes

(* A broadcast ends, and with it a message, a login or a session.           *)
LEMMA EndGlobalRoom ==
    ASSUME RoomInv, NEW w \in Workers, EndGlobal(w)
    PROVE  Served' /\ LockPoints' /\ Boxes'
<1> USE DEF RoomInv, Sessions, CTypeOK
<1>1. /\ pc[w] = "sending" /\ iterator = {} /\ Busy(w) /\ id[w] \in Ids
      /\ UNCHANGED room /\ UNCHANGED <<mb, main>>
      /\ \A v \in Workers : v # w => msg'[v] = msg[v]
  BY DEF EndGlobal, Busy, Served, OwnsConnection, WorkerType
<1>2. writer' = None /\ readers' = readers
  BY <1>1 DEF EndGlobal, RwUnlock, LockPoints, RoomType
<1>3. /\ Served' /\ pc' = [pc EXCEPT ![w] = "idle"] /\ id' = [id EXCEPT ![w] = None]
      /\ \/ conn' = [conn EXCEPT ![id[w]] = "queued"]
         \/ conn' = [conn EXCEPT ![id[w]] = "gone"] /\ id_map[id[w]] = None
  <2>1. CASE msg[w].what = "out"
    <3>1. Gone(w) /\ UNCHANGED user /\ Ending(w) /\ id_map[id[w]] = None
      BY <1>1, <2>1 DEF EndGlobal, Ending, Boxes, LoggedOut
    <3>2. Served'
      BY <1>1, <3>1, GoneKeeps
    <3> QED BY <3>1, <3>2 DEF Gone
  <2>2. CASE msg[w].what # "out"
    <3>1. Respond(w, "ok") /\ ~Ending(w)
      BY <1>1, <2>2 DEF EndGlobal, Ending
    <3> QED BY <1>1, <3>1, RespondKeeps
  <2> QED BY <2>1, <2>2
<1>4. pc'[w] = "idle" /\ \A v \in Workers : v # w => pc'[v] = pc[v] /\ id'[v] = id[v]
  BY <1>3 DEF WorkerType
<1>5. LockPoints'
  BY <1>1, <1>2, <1>4, NoneIsNoName DEF LockPoints
<1>6. LoggedOut' /\ RoundLocked' /\ FoundMailbox' /\ MailboxAlive'
  BY <1>1, <1>2, <1>4 DEF Boxes, LoggedOut, RoundLocked, FoundMailbox, MailboxAlive, Users, room
<1>7. NamesMatch'
  <2>1. ASSUME NEW i \in Ids, id_map[i] # None PROVE conn'[i] \in {"queued", "held", "cut"}
    <3>1. conn[i] \in {"queued", "held", "cut"} /\ conn \in [Ids -> {"new", "queued", "held", "cut", "gone"}]
      BY <2>1 DEF Boxes, NamesMatch, ClientType
    <3>2. CASE conn' = [conn EXCEPT ![id[w]] = "queued"]
      BY <3>1, <3>2
    <3>3. CASE conn' = [conn EXCEPT ![id[w]] = "gone"] /\ id_map[id[w]] = None
      BY <2>1, <3>1, <3>3
    <3> QED BY <1>3, <3>2, <3>3
  <2> QED BY <1>1, <2>1 DEF Boxes, NamesMatch, room
<1> QED BY <1>3, <1>5, <1>6, <1>7 DEF Boxes

(* _chatroom_send_private_msg finds the mailbox.                            *)
LEMMA FindMailboxRoom ==
    ASSUME RoomInv, NEW w \in Workers, FindMailbox(w)
    PROVE  Served' /\ LockPoints' /\ Boxes'
<1> USE DEF RoomInv, Sessions, CTypeOK
<1>1. /\ pc[w] = "private" /\ Busy(w) /\ ~Ending(w) /\ id[w] \in Ids
      /\ UNCHANGED room /\ UNCHANGED <<msg, main>>
  BY DEF FindMailbox, Busy, Ending, Served, OwnsConnection
<1>2. CASE Receiver(w) = None
  <2>1. Respond(w, "error") /\ UNCHANGED lock /\ UNCHANGED mb
    BY <1>2 DEF FindMailbox
  <2> QED BY <1>1, <2>1, AnswerKeeps
<1>3. CASE Receiver(w) # None
  <2> DEFINE b == Receiver(w)
  <2>1. /\ readers' = readers \cup {w} /\ writer = None /\ UNCHANGED writer
        /\ mb' = [mb EXCEPT ![w] = b] /\ pc' = [pc EXCEPT ![w] = "push"]
        /\ UNCHANGED <<id, conn>> /\ UNCHANGED user
    BY <1>3 DEF FindMailbox, RdLock, CanRead
  <2>2. b \in Ids /\ box[b] # None
    <3>1. call[id[w]].to \in Names
      BY <1>1 DEF Served, StillAsks, ClientType, CallType
    <3>2. b = mailboxes[call[id[w]].to] /\ b \in Ids
      BY <1>3, <3>1 DEF Receiver, RoomType
    <3> QED BY <3>1, <3>2, NoneIsNoName DEF Boxes, NamesMatch
  <2> HIDE DEF b
  <2>3. /\ pc'[w] = "push" /\ mb'[w] = b
        /\ \A v \in Workers : v # w => pc'[v] = pc[v] /\ mb'[v] = mb[v]
    BY <2>1 DEF WorkerType
  <2>4. Served'
    BY <1>1, <2>1, <2>3, StayKeeps DEF Busy, Ending
  <2>5. LockPoints'
    BY <1>1, <2>1, <2>3 DEF LockPoints
  <2>6. LoggedOut' /\ RoundLocked' /\ NamesMatch'
    BY <1>1, <2>1, <2>3 DEF Boxes, LoggedOut, RoundLocked, NamesMatch, Users, room
  <2>7. FoundMailbox' /\ MailboxAlive'
    BY <1>1, <2>2, <2>3 DEF Boxes, FoundMailbox, MailboxAlive, room
  <2> QED BY <2>4, <2>5, <2>6, <2>7 DEF Boxes
<1> QED BY <1>2, <1>3

(* A message is pushed to a mailbox, or the newest are taken from one.      *)
LEMMA PushPollRoom ==
    ASSUME RoomInv, NEW w \in Workers, PushPrivate(w) \/ Poll(w)
    PROVE  Served' /\ LockPoints' /\ Boxes'
<1> USE DEF RoomInv, Sessions, CTypeOK
<1>1. /\ pc[w] \in {"push", "poll"} /\ Busy(w) /\ ~Ending(w) /\ id[w] \in Ids
      /\ Respond(w, "ok") /\ UNCHANGED <<id_map, mailboxes, iterator, msg>>
  BY DEF PushPrivate, Poll, Busy, Ending, Served, OwnsConnection
<1>2. /\ Served' /\ pc' = [pc EXCEPT ![w] = "idle"] /\ id' = [id EXCEPT ![w] = None]
      /\ conn' = [conn EXCEPT ![id[w]] = "queued"]
  BY <1>1, RespondKeeps
<1>3. pc'[w] = "idle" /\ \A v \in Workers : v # w => pc'[v] = pc[v] /\ id'[v] = id[v]
  BY <1>2 DEF WorkerType
<1>4. readers' = readers \ {w} /\ writer' = writer /\ \A v \in Workers : v # w => mb'[v] = mb[v]
  <2>1. CASE PushPrivate(w)
    BY <2>1, NoneIsNoName DEF PushPrivate, RwUnlock, LockPoints, WorkerType
  <2>2. CASE Poll(w)
    BY <2>2 DEF Poll, LockPoints, lock
  <2> QED BY <2>1, <2>2
<1>5. \A b \in Ids : box'[b] # None <=> box[b] # None
  <2>1. CASE PushPrivate(w)
    <3> DEFINE m == Append(box[mb[w]], 0)
    <3>1. mb[w] \in Ids /\ box[mb[w]] # None
      BY <2>1 DEF PushPrivate, Boxes, FoundMailbox, MailboxAlive
    <3>2. m # None
      <4>1. m \in Seq(Nat)
        BY <3>1 DEF RoomType
      <4> QED BY <4>1, NoneIsNoName
    <3>3. box' = [box EXCEPT ![mb[w]] = m]
      BY <2>1 DEF PushPrivate, Push
    <3> HIDE DEF m
    <3> QED BY <3>1, <3>2, <3>3 DEF RoomType
  <2>2. CASE Poll(w) /\ id_map[id[w]] # None
    <3> DEFINE q == box[id[w]]
               m == SubSeq(q, 1, IF Len(q) > PollSize THEN Len(q) - PollSize ELSE 0)
    <3>1. q # None
      BY <1>1, <2>2 DEF Boxes, NamesMatch
    <3>2. m # None
      <4>1. q \in Seq(Nat)
        BY <1>1, <3>1 DEF RoomType
      <4>2. m \in Seq(Nat)
        BY <4>1, NewestIsSeq
      <4> QED BY <4>2, NoneIsNoName
    <3>3. box' = [box EXCEPT ![id[w]] = m]
      BY <2>2 DEF Poll, PollNewest
    <3> HIDE DEF m
    <3> QED BY <1>1, <3>1, <3>2, <3>3 DEF RoomType
  <2>3. CASE Poll(w) /\ id_map[id[w]] = None
    BY <2>3 DEF Poll
  <2> QED BY <2>1, <2>2, <2>3
<1>6. LockPoints'
  BY <1>1, <1>3, <1>4 DEF LockPoints
<1>7. LoggedOut' /\ RoundLocked'
  BY <1>1, <1>3, <1>4 DEF Boxes, LoggedOut, RoundLocked, Users
<1>8. FoundMailbox' /\ MailboxAlive'
  BY <1>1, <1>3, <1>4, <1>5 DEF Boxes, FoundMailbox, MailboxAlive
<1>9. NamesMatch'
  BY <1>1, <1>2, <1>5 DEF Boxes, NamesMatch, ClientType
<1> QED BY <1>2, <1>6, <1>7, <1>8, <1>9 DEF Boxes

(* on_disconnect takes the name of a session that is over.                  *)
LEMMA DisconnectRoom ==
    ASSUME RoomInv, NEW w \in Workers, GetUsername(w) \/ Logout(w)
    PROVE  Served' /\ LockPoints' /\ Boxes'
<1> USE DEF RoomInv, Sessions, CTypeOK
<1> DEFINE i == id[w]
<1>1. /\ pc[w] \in {"get_username", "logout"} /\ Busy(w) /\ Ending(w)
      /\ i \in Ids /\ conn[i] = "cut"
  BY DEF GetUsername, Logout, Busy, Ending, Served, OwnsConnection
<1>2. CASE GetUsername(w)
  <2>1. /\ pc' = [pc EXCEPT ![w] = "logout"] /\ UNCHANGED room /\ UNCHANGED lock
        /\ UNCHANGED <<id, mb, msg, conn>> /\ UNCHANGED user
    BY <1>2 DEF GetUsername
  <2>2. pc'[w] = "logout" /\ \A v \in Workers : v # w => pc'[v] = pc[v] /\ msg'[v] = msg[v]
    BY <2>1 DEF WorkerType
  <2>3. Served'
    BY <1>1, <2>1, <2>2, StayKeeps DEF Busy, Ending
  <2>4. LockPoints'
    BY <1>1, <2>1, <2>2 DEF LockPoints, lock
  <2>5. Boxes'
    BY <2>1, <2>2 DEF Boxes, LoggedOut, RoundLocked, FoundMailbox, MailboxAlive, NamesMatch, Users,
                      room, lock
  <2> QED BY <2>3, <2>4, <2>5
<1>3. CASE Logout(w) /\ id_map[i] = None
  <2>1. Gone(w) /\ UNCHANGED room /\ UNCHANGED lock /\ UNCHANGED <<msg, mb>> /\ UNCHANGED user
    BY <1>3 DEF Logout
  <2>2. Served'
    BY <1>1, <2>1, GoneKeeps
  <2>3. /\ pc'[w] = "idle" /\ conn' = [conn EXCEPT ![i] = "gone"]
        /\ \A v \in Workers : v # w => pc'[v] = pc[v] /\ id'[v] = id[v]
    BY <2>1 DEF Gone, WorkerType
  <2>4. LockPoints'
    BY <1>1, <2>1, <2>3 DEF LockPoints, lock
  <2>5. LoggedOut' /\ RoundLocked' /\ FoundMailbox' /\ MailboxAlive'
    BY <2>1, <2>3 DEF Boxes, LoggedOut, RoundLocked, FoundMailbox, MailboxAlive, Users, room, lock
  <2>6. NamesMatch'
    BY <1>3, <2>1, <2>3 DEF Boxes, NamesMatch, ClientType, room
  <2> QED BY <2>2, <2>4, <2>5, <2>6 DEF Boxes
<1>4. CASE Logout(w) /\ id_map[i] # None
  <2> DEFINE n == id_map[i]
  <2>1. /\ id_map' = [id_map EXCEPT ![i] = None] /\ mailboxes' = [mailboxes EXCEPT ![n] = None]
        /\ box' = [box EXCEPT ![i] = None] /\ UNCHANGED <<iterator, readers, writer, mb>>
        /\ pc' = [pc EXCEPT ![w] = "announce"] /\ msg' = [msg EXCEPT ![w].what = "out"]
        /\ UNCHANGED <<id, conn>> /\ UNCHANGED user /\ writer = None /\ readers = {}
        /\ pc[w] = "logout"
    BY <1>4 DEF Logout, lock, CanWrite
  <2>2. n \in Names /\ mailboxes[n] = i
    BY <1>1, <1>4 DEF RoomType, Boxes, NamesMatch
  <2>3. /\ pc'[w] = "announce" /\ msg'[w].what = "out"
        /\ \A v \in Workers : v # w => pc'[v] = pc[v] /\ msg'[v] = msg[v]
    BY <2>1 DEF WorkerType
  <2>4. Served'
    BY <1>1, <2>1, <2>3, StayKeeps DEF Busy, Ending
  <2>5. LockPoints'
    BY <1>1, <2>1, <2>3 DEF LockPoints
  <2>6. NamesMatch'
    <3>1. \A j \in Ids, m \in Names : id_map[j] = m <=> mailboxes[m] = j
      BY DEF Boxes, NamesMatch
    <3> HIDE DEF i, n
    <3>2. ASSUME NEW j \in Ids, NEW m \in Names PROVE id_map'[j] = m <=> mailboxes'[m] = j
      BY <1>1, <2>1, <2>2, <3>1, NoneIsNoName DEF RoomType
    <3>3. ASSUME NEW j \in Ids
          PROVE  (id_map'[j] # None <=> box'[j] # None)
                 /\ (id_map'[j] # None => conn'[j] \in {"queued", "held", "cut"})
      BY <1>1, <2>1, <2>2, NoneIsNoName DEF Boxes, NamesMatch, RoomType
    <3> QED BY <3>2, <3>3 DEF NamesMatch
  <2>7. LoggedOut'
    <3>1. \A j \in Ids : id_map[j] = None => id_map'[j] = None
      BY <1>1, <2>1 DEF RoomType
    <3>2. id_map'[i] = None
      BY <1>1, <2>1 DEF RoomType
    <3> QED BY <2>1, <2>3, <3>1, <3>2 DEF Boxes, LoggedOut, Served, OwnsConnection, Busy
  <2>8. RoundLocked'
    BY <2>1 DEF Boxes, RoundLocked
  <2>9. FoundMailbox' /\ MailboxAlive'
    BY <2>1, <2>3 DEF LockPoints, FoundMailbox, MailboxAlive
  <2> QED BY <2>4, <2>5, <2>6, <2>7, <2>8, <2>9 DEF Boxes
<1> QED BY <1>2, <1>3, <1>4

(* Nobody is in the room any more when it is deleted.                       *)
LEMMA ShutdownRoom ==
    ASSUME RoomInv, Shutdown
    PROVE  Served' /\ LockPoints' /\ Boxes'
<1> USE DEF RoomInv, Sessions, CTypeOK
<1>1. /\ \A w \in Workers : pc[w] = "idle"
      /\ UNCHANGED iterator /\ UNCHANGED lock /\ UNCHANGED worker /\ UNCHANGED conn /\ UNCHANGED user
  BY DEF Shutdown
<1>2. writer = None /\ iterator = {}
  BY <1>1 DEF LockPoints, Boxes, RoundLocked, RoomType
<1>3. /\ \A i \in Ids : id_map'[i] = None /\ box'[i] = None
      /\ \A n \in Names : mailboxes'[n] = None
  <2>1. \A i \in Ids : id_map'[i] = None
        /\ box'[i] = IF \E n \in Users : mailboxes[n] = i THEN None ELSE box[i]
    BY DEF Shutdown, DeleteState
  <2>2. \A i \in Ids : box[i] # None => \E n \in Users : mailboxes[n] = i
    <3> TAKE i \in Ids
    <3> HAVE box[i] # None
    <3>1. id_map[i] \in Names
      BY DEF Boxes, NamesMatch, RoomType
    <3>2. mailboxes[id_map[i]] = i
      BY <3>1 DEF Boxes, NamesMatch
    <3> QED BY <3>1, <3>2, NoneIsNoName DEF Users
  <2> QED BY <2>1, <2>2 DEF Shutdown, DeleteState
<1>4. Served' /\ LockPoints'
  BY <1>1 DEF Served, OwnsConnection, OneWorker, StillAsks, ClientCalls, Busy, Ending, Asks, LockPoints,
              lock, worker, user
<1>5. Boxes'
  BY <1>1, <1>2, <1>3, NoneIsNoName
     DEF Boxes, LoggedOut, RoundLocked, FoundMailbox, MailboxAlive, NamesMatch, lock, worker
<1> QED BY <1>4, <1>5
-----------------------------------------------------------------------------
(* The theorems.                                                            *)

(* LockReleased follows worker by worker.                                   *)
LEMMA LockAgrees ==
    ASSUME CTypeOK
    PROVE  LockPoints => LockReleased
  BY NoneIsNoName DEF CTypeOK, RoomType, LockPoints, LockReleased

(* An empty room.                                                           *)
LEMMA InitRoom == Init => RoomInv
<1> SUFFICES ASSUME Init PROVE RoomInv
  OBVIOUS
<1>1. CTypeOK
  BY InitTypes
<1>2. Served /\ LockPoints
  BY NoneIsNoName DEF Init, Served, OwnsConnection, OneWorker, StillAsks, ClientCalls, Busy, Ending, LockPoints
<1>3. Boxes
  BY NoneIsNoName DEF Init, Boxes, LoggedOut, RoundLocked, FoundMailbox, MailboxAlive, NamesMatch
<1> QED BY <1>1, <1>2, <1>3 DEF RoomInv, Sessions

(* Each step keeps RoomInv: one step per action.                            *)
LEMMA RoomStep == RoomInv /\ [Next]_vars => RoomInv'
<1> SUFFICES ASSUME RoomInv, [Next]_vars PROVE Served' /\ LockPoints' /\ Boxes'
  BY TypeStep DEF RoomInv, Sessions
<1>1. ASSUME NEW w \in Workers, NEW i \in Ids, Serve(w, i) \/ Cut(w, i)
      PROVE  Served' /\ LockPoints' /\ Boxes'
  BY <1>1, TakeKeeps, TakeRoom DEF RoomInv
<1>2. ASSUME NEW w \in Workers, WorkerStep(w) PROVE Served' /\ LockPoints' /\ Boxes'
  BY <1>1, <1>2, LoginRoom, SendGlobalRoom, NextMailboxRoom, EndGlobalRoom, FindMailboxRoom,
     PushPollRoom, DisconnectRoom DEF WorkerStep
<1>3. ASSUME NEW i \in Ids, ClientStep(i) PROVE Served' /\ LockPoints' /\ Boxes'
  <2>1. /\ Served' /\ UNCHANGED room /\ UNCHANGED lock /\ UNCHANGED worker
        /\ \A j \in Ids : conn[j] # "new" => conn'[j] = conn[j]
    BY <1>3, ClientKeeps DEF RoomInv
  <2> QED BY <2>1 DEF RoomInv, LockPoints, Boxes, LoggedOut, RoundLocked, FoundMailbox, MailboxAlive,
                      NamesMatch, Users, room, lock, worker
<1>4. CASE Shutdown
  BY <1>4, ShutdownRoom
<1>5. CASE UNCHANGED vars
  BY <1>5 DEF RoomInv, Sessions, Served, OwnsConnection, OneWorker, StillAsks, ClientCalls, Busy, Ending,
              Asks, LockPoints, Boxes, LoggedOut, RoundLocked, FoundMailbox, MailboxAlive, NamesMatch,
              Users, vars, room, lock, worker, user
<1> QED BY <1>2, <1>3, <1>4, <1>5 DEF Next

(* RoomInv holds in every reachable state.                                  *)
LEMMA RoomCorrect == Spec => []RoomInv
<1> QED BY InitRoom, RoomStep, PTL DEF Spec

-----------------------------------------------------------------------------
(* Who has heard what.                                                      *)
(* A mailbox the broadcast has yet to reach, and a message that is in one.  *)
Due(i) == \E n \in iterator : mailboxes[n] = i

Heard(i, m) == \E k \in DOMAIN got[i] : got[i][k] = m

(* Each message of a broadcast reached its audience, but for the last one,  *)
(* which has yet to reach the mailboxes the iterator has before it.         *)
Hearing ==
    /\ Len(audience) = count
    /\ \A w \in Workers : pc[w] = "sending" => msg[w].n = count /\ count >= 1
    /\ \A i \in Ids : Due(i) => count >= 1 /\ i \in audience[count]
    /\ \A i \in Ids : \A j, k \in DOMAIN got[i] : j < k => got[i][j] < got[i][k]
    /\ \A i \in Ids, m \in Nat : Heard(i, m) <=>
          m \in 1..count /\ i \in audience[m] /\ ~(m = count /\ Due(i))

(* Nothing was said yet.                                                    *)
LEMMA InitHearing == Init => Hearing
  BY NoneIsNoName DEF Init, Hearing, Due, Heard

(* The message that starts has its audience before it.                      *)
LEMMA SendGlobalHearing ==
    ASSUME RoomInv, Hearing, NEW w \in Workers, SendGlobal(w)
    PROVE  Hearing'
<1> USE DEF RoomInv, Sessions, CTypeOK
<1>1. CASE pc[w] = "global" /\ id_map[id[w]] = None
  <2>1. UNCHANGED <<iterator, mailboxes, count, audience, got, msg>> /\ pc' = [pc EXCEPT ![w] = "idle"]
    BY <1>1 DEF SendGlobal, Respond
  <2> QED BY <2>1 DEF Hearing, Due, Heard, WorkerType
<1>2. CASE ~(pc[w] = "global" /\ id_map[id[w]] = None)
  <2> DEFINE a == {mailboxes[n] : n \in Users}
             k == IF pc[w] = "global" THEN "said" ELSE msg[w].what
  <2>1. /\ iterator' = Users /\ mailboxes' = mailboxes /\ got' = got /\ writer = None /\ writer' = w
        /\ count' = count + 1 /\ audience' = Append(audience, a)
        /\ msg' = [msg EXCEPT ![w] = [what |-> k, n |-> count + 1]]
        /\ pc' = [pc EXCEPT ![w] = "sending"]
    BY <1>2 DEF SendGlobal, GlobalLock, WrLock, CanWrite
  <2>2. count \in Nat /\ audience \in Seq(SUBSET Ids) /\ Len(audience) = count /\ a \in SUBSET Ids
    BY DEF HistoryType, Hearing, Users, RoomType
  <2>3. iterator = {}
    BY <2>1 DEF Boxes, RoundLocked
  <2>4. \A i \in Ids : Due(i)' <=> i \in a
    BY <2>1 DEF Due
  <2> HIDE DEF a, k
  <2>5. /\ Len(audience') = count' /\ audience'[count'] = a
        /\ \A m \in 1..count : audience'[m] = audience[m]
    BY <2>1, <2>2
  <2>6. \A v \in Workers : pc'[v] = "sending" => msg'[v].n = count' /\ count' >= 1
    <3>1. msg'[w].n = count' /\ count' >= 1
      BY <2>1, <2>2 DEF WorkerType
    <3>2. \A v \in Workers : v # w => pc'[v] # "sending"
      BY <2>1, NoneIsNoName DEF LockPoints, WorkerType
    <3> QED BY <3>1, <3>2
  <2>7. ASSUME NEW i \in Ids, NEW m \in Nat
        PROVE  Heard(i, m)' <=> m \in 1..count' /\ i \in audience'[m] /\ ~(m = count' /\ Due(i)')
    <3>1. Heard(i, m)' <=> Heard(i, m)
      BY <2>1 DEF Heard
    <3>2. Heard(i, m) <=> m \in 1..count /\ i \in audience[m]
      BY <2>3 DEF Hearing, Due
    <3> QED BY <2>1, <2>2, <2>4, <2>5, <3>1, <3>2
  <2>8. \A i \in Ids : Due(i)' => count' >= 1 /\ i \in audience'[count']
    BY <2>1, <2>2, <2>4, <2>5
  <2> QED BY <2>1, <2>5, <2>6, <2>7, <2>8 DEF Hearing
<1> QED BY <1>1, <1>2

(* One mailbox less has yet to get the message.                             *)
LEMMA NextMailboxHearing ==
    ASSUME RoomInv, Hearing, NEW w \in Workers, NextMailbox(w)
    PROVE  Hearing'
<1> USE DEF RoomInv, Sessions, CTypeOK
<1>1. UNCHANGED <<mailboxes, count, audience, pc, msg>> /\ msg[w].n = count /\ count \in Nat
  BY DEF NextMailbox, worker, Hearing, HistoryType
<1>2. PICK n \in iterator :
        /\ n \in Users /\ mailboxes[n] \in Ids /\ iterator' = iterator \ {n}
        /\ got' = [got EXCEPT ![mailboxes[n]] = Append(got[mailboxes[n]], msg[w].n)]
  BY NextIsBox
<1> DEFINE b == mailboxes[n]
           s == got[b]
<1>3. b \in Ids /\ s \in Seq(Nat) /\ got'[b] = Append(s, count)
  BY <1>1, <1>2 DEF HistoryType
<1>4. \A i \in Ids : i # b => got'[i] = got[i] /\ (Due(i)' <=> Due(i))
  BY <1>1, <1>2 DEF HistoryType, Due
<1>5. Due(b) /\ ~Due(b)'
  <2>1. \A u \in Users : mailboxes[u] = b => u = n
    <3>1. n \in Names /\ id_map[b] = n
      BY <1>2 DEF Users, Boxes, NamesMatch
    <3> QED BY <1>2, <3>1 DEF Users, Boxes, NamesMatch
  <2>2. iterator \subseteq Users
    BY DEF Boxes, RoundLocked
  <2> QED BY <1>1, <1>2, <2>1, <2>2 DEF Due
<1>6. \A k \in DOMAIN s : s[k] \in Nat /\ s[k] < count
  <2> TAKE k \in DOMAIN s
  <2>1. s[k] \in Nat /\ Heard(b, s[k])
    BY <1>3 DEF Heard
  <2>2. s[k] \in 1..count /\ s[k] # count
    BY <1>3, <1>5, <2>1 DEF Hearing
  <2> QED BY <1>1, <2>1, <2>2
<1>7. /\ DOMAIN got'[b] = DOMAIN s \cup {Len(s) + 1} /\ got'[b][Len(s) + 1] = count
      /\ \A k \in DOMAIN s : got'[b][k] = s[k] /\ k < Len(s) + 1 /\ k \in Nat
      /\ Len(s) \in Nat
  <2>1. s \in Seq(Nat) /\ count \in Nat /\ got'[b] = Append(s, count)
    BY <1>1, <1>3
  <2> HIDE DEF s, b
  <2>2. /\ DOMAIN s = 1..Len(s) /\ Len(s) \in Nat
        /\ DOMAIN got'[b] = 1..(Len(s) + 1) /\ got'[b][Len(s) + 1] = count
        /\ \A k \in 1..Len(s) : got'[b][k] = s[k]
    BY <2>1
  <2>3. 1..(Len(s) + 1) = (1..Len(s)) \cup {Len(s) + 1}
    BY <2>2
  <2> QED BY <2>2, <2>3
<1>8. \A j, k \in DOMAIN s : j < k => s[j] < s[k]
  BY <1>3 DEF Hearing
<1>9. \A i \in Ids : \A j, k \in DOMAIN got'[i] : j < k => got'[i][j] < got'[i][k]
  <2> TAKE i \in Ids
  <2>1. CASE i # b
    BY <1>4, <2>1 DEF Hearing
  <2>2. CASE i = b
    <3> HIDE DEF s
    <3>1. ASSUME NEW j \in DOMAIN got'[b], NEW k \in DOMAIN got'[b], j < k
          PROVE  got'[b][j] < got'[b][k]
      <4>1. j \in DOMAIN s
        BY <1>7, <3>1
      <4> QED BY <1>6, <1>7, <1>8, <3>1, <4>1
    <3> QED BY <2>2, <3>1
  <2> QED BY <2>1, <2>2
<1>10. ASSUME NEW i \in Ids, NEW m \in Nat
       PROVE  Heard(i, m)' <=> m \in 1..count' /\ i \in audience'[m] /\ ~(m = count' /\ Due(i)')
  <2>1. CASE i # b
    BY <1>1, <1>4, <2>1 DEF Hearing, Heard
  <2>2. CASE i = b
    <3>1. Heard(i, m)' <=> Heard(i, m) \/ m = count
      <4>1. Heard(i, m) <=> \E k \in DOMAIN s : s[k] = m
        BY <2>2 DEF Heard
      <4>2. Heard(i, m)' <=> \E k \in DOMAIN got'[b] : got'[b][k] = m
        BY <2>2 DEF Heard
      <4> HIDE DEF s, b
      <4> QED BY <1>7, <4>1, <4>2
    <3>2. count >= 1 /\ b \in audience[count]
      BY <1>3, <1>5 DEF Hearing
    <3>3. Heard(b, m) <=> m \in 1..count /\ b \in audience[m] /\ m # count
      BY <1>3, <1>5 DEF Hearing
    <3> QED BY <1>1, <1>5, <2>2, <3>1, <3>2, <3>3
  <2> QED BY <2>1, <2>2
<1>11. \A i \in Ids : Due(i)' => count' >= 1 /\ i \in audience'[count']
  BY <1>1, <1>4, <1>5 DEF Hearing
<1> QED BY <1>1, <1>9, <1>10, <1>11 DEF Hearing

(* Names are given and taken only while nobody goes round the mailboxes.    *)
LEMMA OtherHearing ==
    ASSUME RoomInv, Hearing, UNCHANGED history,
           UNCHANGED iterator, UNCHANGED mailboxes \/ writer = None,
           \A v \in Workers : pc'[v] = "sending" => pc[v] = "sending" /\ msg'[v].n = msg[v].n
    PROVE  Hearing'
<1> USE DEF RoomInv
<1>1. \A i \in Ids : Due(i)' <=> Due(i)
  BY DEF Boxes, RoundLocked, Due
<1>2. \A i \in Ids, m \in Nat : Heard(i, m)' <=> Heard(i, m)
  BY DEF Heard, history
<1> QED BY <1>1, <1>2 DEF Hearing, history

(* Each step keeps Hearing.                                                 *)
LEMMA HearingStep == RoomInv /\ Hearing /\ [Next]_vars => Hearing'
<1> SUFFICES ASSUME RoomInv, Hearing, [Next]_vars PROVE Hearing'
  OBVIOUS
<1>1. WorkerType
  BY DEF RoomInv, Sessions, CTypeOK
<1>2. ASSUME NEW w \in Workers, WorkerStep(w), ~SendGlobal(w), ~NextMailbox(w) PROVE Hearing'
  <2>1. UNCHANGED history /\ UNCHANGED iterator /\ (UNCHANGED mailboxes \/ writer = None)
    BY <1>2 DEF WorkerStep, Serve, Cut, Login, EndGlobal, FindMailbox, PushPrivate, Poll, GetUsername,
                Logout, CanWrite, room
  <2>2. pc'[w] # "sending" /\ \A v \in Workers : v # w => pc'[v] = pc[v] /\ msg'[v] = msg[v]
    BY <1>1, <1>2 DEF WorkerStep, Serve, Cut, Login, EndGlobal, FindMailbox, PushPrivate, Poll,
                GetUsername, Logout, Respond, Gone, Asks, Requests, WorkerType, worker
  <2> QED BY <2>1, <2>2, OtherHearing
<1>3. ASSUME NEW i \in Ids, ClientStep(i) PROVE Hearing'
  <2>1. UNCHANGED room /\ UNCHANGED worker /\ UNCHANGED history
    BY <1>3, ClientKeeps DEF RoomInv
  <2> QED BY <2>1, OtherHearing DEF room, worker
<1>4. CASE Shutdown
  <2>1. writer = None
    BY <1>4 DEF Shutdown, RoomInv, Sessions, CTypeOK, RoomType, LockPoints
  <2> QED BY <1>4, <2>1, OtherHearing DEF Shutdown, worker
<1>5. CASE UNCHANGED vars
  BY <1>5, OtherHearing DEF vars, room, worker
<1> QED BY <1>2, <1>3, <1>4, <1>5, SendGlobalHearing, NextMailboxHearing DEF Next

(* The types, and that a private message has a receiver, are kept by every  *)
(* step, because a worker finds its mailbox in the map.                     *)
THEOREM TypeCorrect == Spec => []CTypeOK
<1>1. RoomInv => CTypeOK
  BY DEF RoomInv, Sessions
<1> QED BY <1>1, RoomCorrect, PTL

(* Login, logout and the freeing of the mailboxes keep both maps the same   *)
(* relation, and no name belongs to a session that is gone.                 *)
THEOREM NamesMatchAlways == Spec => []NamesMatch
<1>1. RoomInv => NamesMatch
  BY DEF RoomInv, Boxes
<1> QED BY <1>1, RoomCorrect, PTL

(* The read lock of _chatroom_send_private_msg keeps logout from freeing    *)
(* the mailbox that was found.                                              *)
THEOREM MailboxAliveAlways == Spec => []MailboxAlive
<1>1. RoomInv => MailboxAlive
  BY DEF RoomInv, Boxes
<1> QED BY <1>1, RoomCorrect, PTL

(* Every path through an endpoint releases what it took of global_lock.     *)
THEOREM LockReleasedAlways == Spec => []LockReleased
<1>1. RoomInv => LockReleased
  BY LockAgrees DEF RoomInv, Sessions
<1> QED BY <1>1, RoomCorrect, PTL

(* A message to all goes to everyone who was in the room when it was sent,  *)
(* once, and everyone gets the messages in one order.                       *)
THEOREM EveryoneHearsAlways == Spec => []EveryoneHears
<1>1. Spec => []Hearing
  BY InitHearing, HearingStep, RoomCorrect, PTL DEF Spec
<1>2. RoomInv /\ Hearing => EveryoneHears
  <2> SUFFICES ASSUME RoomInv, Hearing, NEW i \in Ids, writer = None
               PROVE  {got[i][k] : k \in DOMAIN got[i]} = {n \in 1..count : i \in audience[n]}
    BY DEF EveryoneHears, Hearing
  <2>1. ~Due(i) /\ got[i] \in Seq(Nat) /\ count \in Nat
    BY DEF RoomInv, Sessions, CTypeOK, HistoryType, Boxes, RoundLocked, Due
  <2>2. \A k \in DOMAIN got[i] : got[i][k] \in Nat
    BY <2>1
  <2>3. \A m \in Nat : Heard(i, m) <=> m \in 1..count /\ i \in audience[m]
    BY <2>1 DEF Hearing
  <2> QED BY <2>1, <2>2, <2>3 DEF Heard
<1> QED BY <1>1, <1>2, RoomCorrect, PTL
=============================================================================
