---------------------------- MODULE Descriptors ----------------------------
(***************************************************************************)
(* Who owns which file descriptor when one program runs several channels   *)
(* of chrpc/src/channel_fd.c at once.                                      *)
(*                                                                         *)
(* The descriptor table belongs to the process: a number that one thread   *)
(* closes is the next one another thread gets from accept, pipe or dup.    *)
(* A channel's mutex says nothing about that, so every call that changes   *)
(* the table is an action.  What the bytes are is the business of          *)
(* ChannelFd.                                                              *)
(***************************************************************************)
EXTENDS Integers, FiniteSets

CONSTANTS
    Fds,      \* the numbers below the limit of the process
    Conns,    \* the connections channels are made for
    Styles,   \* how new_channel_fd is given the descriptors of a connection
    NoFile    \* a number that is not open

NoFd == -1

(* "pair": two descriptors of two files, as the tests make them from pipes; *)
(* "dup": one descriptor of a socket, read_fd = -1, as channel_fd.h asks;   *)
(* "same": one descriptor given twice, as the chatroom does.                *)
ASSUME Given ==
    /\ Fds \subseteq Nat /\ IsFiniteSet(Fds)
    /\ Styles \subseteq {"pair", "dup", "same"}
    /\ NoFile \notin Conns \X {"socket", "read", "write"}

(* Open files, and the one each side of a connection should use.            *)
Files == Conns \X {"socket", "read", "write"}
Sides == {"write", "read"}
File(c, style, side) == <<c, IF style = "pair" THEN side ELSE "socket">>

VARIABLES
    table,      \* descriptor table: the open file behind each number
    nonblock,   \* O_NONBLOCK, a flag of the open file
    full, gone, \* the file takes no more bytes; its other end was closed
    style,      \* how the connection's channel is given its descriptors
    fd,         \* cfg and then chn_fd: the numbers write_fd and read_fd
    pc          \* how far the channel of a connection is

vars == <<table, nonblock, full, gone, style, fd, pc>>
env == <<full, gone, style>>

Init ==
    /\ table = [n \in Fds |-> NoFile]
    /\ nonblock = [f \in Files |-> FALSE]
    /\ full = [f \in Files |-> FALSE]
    /\ gone = [c \in Conns |-> FALSE]
    /\ style \in [Conns -> Styles]
    /\ fd = [c \in Conns |-> [s \in Sides |-> NoFd]]
    /\ pc = [c \in Conns |-> "pending"]

-----------------------------------------------------------------------------
Free == {n \in Fds : table[n] = NoFile}

(* The system hands out the lowest free number.                             *)
Lowest(S) == {n \in S : \A m \in S : n <= m}

Goto(c, label) == pc' = [pc EXCEPT ![c] = label]

(* close(2) of whatever the number stands for now; it may stand for nothing.*)
Close(n) == table' = [m \in Fds |-> IF m = n THEN NoFile ELSE table[m]]

(* close the side's descriptor and set the field to -1.                     *)
Drop(c, side) ==
    /\ Close(fd[c][side])
    /\ fd' = [fd EXCEPT ![c][side] = NoFd]

(* accept, connect or pipe: the caller gets the lowest free numbers.        *)
Obtain(c) ==
    /\ pc[c] = "pending"
    /\ \/ /\ style[c] = "pair"
          /\ \E r \in Lowest(Free) : \E w \in Lowest(Free \ {r}) :
                /\ table' = [table EXCEPT ![r] = <<c, "read">>, ![w] = <<c, "write">>]
                /\ fd' = [fd EXCEPT ![c] = [write |-> w, read |-> r]]
       \/ /\ style[c] # "pair"
          /\ \E n \in Lowest(Free) :
                /\ table' = [table EXCEPT ![n] = <<c, "socket">>]
                /\ fd' = [fd EXCEPT ![c] =
                      [write |-> n, read |-> IF style[c] = "same" THEN n ELSE NoFd]]
    /\ Goto(c, "offered")
    /\ UNCHANGED <<nonblock, env>>

(* An unusable configuration: the call fails and touches no descriptor.     *)
Reject(c) ==
    /\ pc[c] = "offered"
    /\ Goto(c, "rejected")
    /\ UNCHANGED <<table, nonblock, fd, env>>

(* Without a read descriptor, new_channel_fd duplicates the other one; if   *)
(* that fails the channel is deleted again.                                 *)
DupUnchecked(c) ==   \* variant: the result of dup is not looked at
    /\ pc[c] = "offered"
    /\ \/ /\ fd[c].read = NoFd
          /\ \E n \in Lowest(Free) :
                /\ table' = [table EXCEPT ![n] = table[fd[c].write]]
                /\ fd' = [fd EXCEPT ![c]["read"] = n]
       \/ /\ fd[c].read # NoFd \/ Free = {}
          /\ UNCHANGED <<table, fd>>
    /\ Goto(c, "setup")
    /\ UNCHANGED <<nonblock, env>>

NoDup(c) ==          \* variant: the number is shared, not duplicated
    /\ pc[c] = "offered"
    /\ fd' = [fd EXCEPT ![c]["read"] = IF @ = NoFd THEN fd[c].write ELSE @]
    /\ Goto(c, "setup")
    /\ UNCHANGED <<table, nonblock, env>>

DupRead(c) ==
    /\ pc[c] = "offered"
    /\ \/ /\ fd[c].read # NoFd
          /\ Goto(c, "setup")
          /\ UNCHANGED <<table, fd>>
       \/ /\ fd[c].read = NoFd
          /\ \E n \in Lowest(Free) :
                /\ table' = [table EXCEPT ![n] = table[fd[c].write]]
                /\ fd' = [fd EXCEPT ![c]["read"] = n]
          /\ Goto(c, "setup")
       \/ /\ fd[c].read = NoFd /\ Free = {}
          /\ Goto(c, "deleting")
          /\ UNCHANGED <<table, fd>>
    /\ UNCHANGED <<nonblock, env>>

(* setup_fds: the write descriptor is made blocking, then the read          *)
(* descriptor non-blocking; fcntl fails on a number that is not open.       *)
SetupFdsSwapped(c) ==  \* variant: in the other order
    LET w == table[fd[c].write]
        r == table[fd[c].read]
    IN
    /\ pc[c] = "setup"
    /\ nonblock' = [f \in Files |-> f # w /\ (f = r \/ nonblock[f])]
    /\ Goto(c, IF NoFile \in {w, r} THEN "deleting" ELSE "live")
    /\ UNCHANGED <<table, fd, env>>

SetupFds(c) ==
    LET w == table[fd[c].write]
        r == table[fd[c].read]
    IN
    /\ pc[c] = "setup"
    /\ nonblock' = [f \in Files |-> (f = r /\ w # NoFile) \/ (f # w /\ nonblock[f])]
    /\ Goto(c, IF NoFile \in {w, r} THEN "deleting" ELSE "live")
    /\ UNCHANGED <<table, fd, env>>

-----------------------------------------------------------------------------
(* Files that can be read and written: open, and not closed at the far end. *)
Usable == {f \in Files : ~gone[f[1]]}

(* chn_fd_send writes to whatever write_fd stands for now, and closes it    *)
(* when the write fails or is short: the file was closed here or at the     *)
(* other end, or it is full and does not block.  A write to a full file     *)
(* that blocks does not return.                                             *)
Send(c) ==
    LET f == table[fd[c].write] IN
    /\ pc[c] = "live" /\ fd[c].write # NoFd
    /\ \/ /\ f \in Usable /\ ~full[f]
          /\ full' = [full EXCEPT ![f] = TRUE]
          /\ UNCHANGED <<table, fd>>
       \/ /\ f \notin {g \in Usable : ~(full[g] /\ nonblock[g])}
          /\ Drop(c, "write")
          /\ UNCHANGED full
    /\ UNCHANGED <<nonblock, gone, style, pc>>

(* chn_fd_refresh closes read_fd at the end of the file or on an error.     *)
RefreshForgets(c) ==   \* variant: the field is set to -1 without a close
    /\ pc[c] = "live" /\ fd[c].read # NoFd
    /\ table[fd[c].read] \notin Usable
    /\ fd' = [fd EXCEPT ![c]["read"] = NoFd]
    /\ UNCHANGED <<table, nonblock, env, pc>>

Refresh(c) ==
    /\ pc[c] = "live" /\ fd[c].read # NoFd
    /\ table[fd[c].read] \notin Usable
    /\ Drop(c, "read")
    /\ UNCHANGED <<nonblock, env, pc>>

(* delete_channel_fd, of a live channel or of one that was not finished:    *)
(* first read_fd, then write_fd, then the record is freed.                  *)
DeleteRead(c) ==
    /\ pc[c] \in {"live", "deleting"}
    /\ Drop(c, "read")
    /\ Goto(c, "read_closed")
    /\ UNCHANGED <<nonblock, env>>

DeleteWrite(c) ==
    /\ pc[c] = "read_closed"
    /\ Drop(c, "write")
    /\ Goto(c, "deleted")
    /\ UNCHANGED <<nonblock, env>>

-----------------------------------------------------------------------------
(* The other end of a connection.                                           *)
PeerCloses(c) ==
    /\ pc[c] # "pending" /\ ~gone[c]
    /\ gone' = [gone EXCEPT ![c] = TRUE]
    /\ UNCHANGED <<table, nonblock, full, style, fd, pc>>

PeerReads(f) ==
    /\ full[f] /\ ~gone[f[1]]
    /\ full' = [full EXCEPT ![f] = FALSE]
    /\ UNCHANGED <<table, nonblock, gone, style, fd, pc>>

Next ==
    \/ \E c \in Conns :
          \/ Obtain(c) \/ Reject(c) \/ DupRead(c) \/ SetupFds(c)
          \/ Send(c) \/ Refresh(c) \/ DeleteRead(c) \/ DeleteWrite(c)
          \/ PeerCloses(c)
    \/ \E f \in Files : PeerReads(f)

Spec == Init /\ [][Next]_vars

-----------------------------------------------------------------------------
Labels == {"pending", "offered", "rejected", "setup", "live", "deleting",
           "read_closed", "deleted"}

(* Every field has its type, and a number exactly while a descriptor is     *)
(* expected behind it (channel_fd.c:69-103, 158, 317).                      *)
TypeOK ==
    /\ table \in [Fds -> Files \cup {NoFile}]
    /\ nonblock \in [Files -> BOOLEAN]
    /\ full \in [Files -> BOOLEAN]
    /\ gone \in [Conns -> BOOLEAN]
    /\ style \in [Conns -> Styles]
    /\ fd \in [Conns -> [Sides -> Fds \cup {NoFd}]]
    /\ pc \in [Conns -> Labels]
    /\ \A c \in Conns :
          /\ pc[c] \in {"pending", "deleted"} => fd[c] = [s \in Sides |-> NoFd]
          /\ pc[c] = "read_closed" => fd[c].read = NoFd
          /\ pc[c] \in {"offered", "setup"} => fd[c].write # NoFd
          /\ pc[c] = "setup" => fd[c].read # NoFd

(* "the created channel will OWN both file descriptors" (channel_fd.h:31):  *)
(* whatever the other threads open and close, a number a channel keeps      *)
(* stands for its own connection, no other field of any channel keeps the   *)
(* same number, and no descriptor stays open that no field names.  So no    *)
(* close hits another channel's descriptor, and none is forgotten.          *)
OwnFile == \A c \in Conns, s \in Sides :
    fd[c][s] # NoFd => table[fd[c][s]] = File(c, style[c], s)

SoleName == \A c, d \in Conns, s, t \in Sides :
    fd[c][s] # NoFd /\ fd[c][s] = fd[d][t] => c = d /\ s = t

NoneForgotten == \A n \in Fds :
    table[n] # NoFile => \E c \in Conns, s \in Sides : fd[c][s] = n

OwnsDescriptors == OwnFile /\ SoleName /\ NoneForgotten

(* A refresh must not wait for bytes, for it keeps the mutex: while its     *)
(* read_fd is open the file behind it does not block, whichever descriptors *)
(* share it and whatever was set up for them (channel_fd.c:27-51, 307).     *)
RefreshNeverBlocks == \A c \in Conns :
    pc[c] = "live" /\ fd[c].read # NoFd /\ table[fd[c].read] # NoFile
        => nonblock[table[fd[c].read]]

-----------------------------------------------------------------------------
(* What the documentation says and the code does not do.                    *)

(* channel_fd.h:56, "Write will be blocking.", and channel_fd.c:152: a      *)
(* channel gives its write descriptor up only when the other end is gone.   *)
GivesUpOnlyOnHangup ==
    [][\A c \in Conns :
         pc[c] = "live" /\ pc'[c] = "live" /\ fd[c].write # fd'[c].write => gone[c]]_vars

(* channel_fd.h:31, "the created channel will OWN both file descriptors",   *)
(* of the descriptors the chatroom's channels keep: a live channel neither  *)
(* reads from nor writes to another connection.                             *)
NoCrossTalk == \A c, d \in Conns, s \in Sides :
    pc[c] = "live" /\ c # d /\ fd[c][s] # NoFd
        => table[fd[c][s]] # File(d, style[d], s)
=============================================================================
