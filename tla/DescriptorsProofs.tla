------------------------- MODULE DescriptorsProofs -------------------------
(***************************************************************************)
(* Proofs about Descriptors, for any number of connections and of numbers: *)
(* as long as no descriptor is given twice, every descriptor has one owner.*)
(* The run fd_given_twice shows what becomes of the others.                *)
(***************************************************************************)
EXTENDS Descriptors, TLAPS

(* Only a socket is offered without a read descriptor.                      *)
OfferedWhole == \A c \in Conns :
    style[c] = "pair" /\ pc[c] = "offered" => fd[c].read # NoFd

(* setup_fds leaves the read side non-blocking, of whatever file it is.     *)
ReadSide == \A c \in Conns : pc[c] = "live" => nonblock[File(c, style[c], "read")]

IInv == TypeOK /\ OfferedWhole /\ OwnsDescriptors /\ ReadSide

-----------------------------------------------------------------------------
(* No descriptor is open and no field names one.                            *)
LEMMA InitInv == Init => IInv
<1> SUFFICES ASSUME Init PROVE IInv
  OBVIOUS
<1>1. TypeOK
  BY DEF Init, TypeOK, Labels, Sides, NoFd
<1>2. OwnsDescriptors
  BY DEF Init, OwnsDescriptors, OwnFile, SoleName, NoneForgotten, Sides
<1>3. QED
  BY <1>1, <1>2 DEF Init, IInv, OfferedWhole, ReadSide

(* close and -1 keep ownership exact: the number had no other name.         *)
LEMMA DropKeeps ==
    ASSUME TypeOK, OwnsDescriptors, NEW c \in Conns, NEW s \in Sides,
           Drop(c, s), UNCHANGED style
    PROVE  /\ OwnsDescriptors'
           /\ table' \in [Fds -> Files \cup {NoFile}]
           /\ fd' \in [Conns -> [Sides -> Fds \cup {NoFd}]]
           /\ fd'[c][s] = NoFd
           /\ \A d \in Conns, t \in Sides : <<d, t>> # <<c, s>> => fd'[d][t] = fd[d][t]
           /\ \A d \in Conns : d # c => fd'[d] = fd[d]
<1>1. /\ fd' \in [Conns -> [Sides -> Fds \cup {NoFd}]]
      /\ fd'[c][s] = NoFd
      /\ \A d \in Conns, t \in Sides : <<d, t>> # <<c, s>> => fd'[d][t] = fd[d][t]
      /\ \A d \in Conns : d # c => fd'[d] = fd[d]
  BY DEF Drop, TypeOK
<1>2. /\ table' \in [Fds -> Files \cup {NoFile}]
      /\ \A n \in Fds : table'[n] = IF n = fd[c][s] THEN NoFile ELSE table[n]
  BY DEF Drop, Close, TypeOK
<1>3. OwnFile'
  <2> SUFFICES ASSUME NEW d \in Conns, NEW t \in Sides, fd'[d][t] # NoFd
               PROVE  table'[fd'[d][t]] = File(d, style[d], t)
    BY DEF OwnFile
  <2>1. <<d, t>> # <<c, s>> /\ fd'[d][t] = fd[d][t] /\ fd[d][t] \in Fds
    BY <1>1 DEF TypeOK
  <2>2. fd[d][t] # fd[c][s]
    BY <2>1 DEF OwnsDescriptors, SoleName, NoFd
  <2>3. QED
    BY <2>1, <2>2, <1>2 DEF OwnsDescriptors, OwnFile
<1>4. SoleName'
  BY <1>1 DEF OwnsDescriptors, SoleName
<1>5. NoneForgotten'
  <2> SUFFICES ASSUME NEW n \in Fds, table'[n] # NoFile
               PROVE  \E d \in Conns, t \in Sides : fd'[d][t] = n
    BY DEF NoneForgotten
  <2>1. n # fd[c][s] /\ table[n] # NoFile
    BY <1>2
  <2>2. PICK d \in Conns, t \in Sides : fd[d][t] = n
    BY <2>1 DEF OwnsDescriptors, NoneForgotten
  <2>3. <<d, t>> # <<c, s>>
    BY <2>1, <2>2
  <2>4. QED
    BY <2>2, <2>3, <1>1
<1>6. QED
  BY <1>1, <1>2, <1>3, <1>4, <1>5 DEF OwnsDescriptors

(* Exact ownership, of a table T and numbers F that may be in between.      *)
Owned(T, F) ==
    /\ \A c \in Conns, s \in Sides : F[c][s] # NoFd => T[F[c][s]] = File(c, style[c], s)
    /\ \A c, d \in Conns, s, t \in Sides :
          F[c][s] # NoFd /\ F[c][s] = F[d][t] => c = d /\ s = t
    /\ \A n \in Fds : T[n] # NoFile => \E c \in Conns, s \in Sides : F[c][s] = n

LEMMA OwnedMeans ==
    ASSUME UNCHANGED style
    PROVE  /\ OwnsDescriptors <=> Owned(table, fd)
           /\ OwnsDescriptors' <=> Owned(table', fd')
  BY DEF OwnsDescriptors, OwnFile, SoleName, NoneForgotten, Owned

(* A free number given to a field that has none is owned by that field.     *)
LEMMA GainKeeps ==
    ASSUME NEW T \in [Fds -> Files \cup {NoFile}],
           NEW F \in [Conns -> [Sides -> Fds \cup {NoFd}]],
           Owned(T, F), style \in [Conns -> Styles],
           NEW c \in Conns, NEW s \in Sides, F[c][s] = NoFd,
           NEW n \in Fds, T[n] = NoFile
    PROVE  LET T2 == [T EXCEPT ![n] = File(c, style[c], s)]
               F2 == [F EXCEPT ![c][s] = n]
           IN  /\ T2 \in [Fds -> Files \cup {NoFile}]
               /\ F2 \in [Conns -> [Sides -> Fds \cup {NoFd}]]
               /\ Owned(T2, F2)
<1> DEFINE T2 == [T EXCEPT ![n] = File(c, style[c], s)]
           F2 == [F EXCEPT ![c][s] = n]
<1>1. File(c, style[c], s) \in Files
  BY DEF File, Files, Sides
<1>2. /\ T2 \in [Fds -> Files \cup {NoFile}]
      /\ T2[n] = File(c, style[c], s)
      /\ \A m \in Fds : m # n => T2[m] = T[m]
  BY <1>1
<1>3. /\ F2 \in [Conns -> [Sides -> Fds \cup {NoFd}]]
      /\ F2[c][s] = n
      /\ \A d \in Conns, t \in Sides : ~(d = c /\ t = s) => F2[d][t] = F[d][t]
  OBVIOUS
<1>4. NoFile \notin Files /\ NoFd \notin Fds
  BY Given DEF Files, NoFd
<1>5. \A d \in Conns, t \in Sides : F[d][t] # n
  BY <1>1, <1>4 DEF Owned, File, Files, Sides
<1> HIDE DEF T2, F2
<1>6. Owned(T2, F2)
  <2>1. \A d \in Conns, t \in Sides : F2[d][t] # NoFd => T2[F2[d][t]] = File(d, style[d], t)
    <3> SUFFICES ASSUME NEW d \in Conns, NEW t \in Sides, F2[d][t] # NoFd
                 PROVE  T2[F2[d][t]] = File(d, style[d], t)
      OBVIOUS
    <3>1. CASE d = c /\ t = s
      BY <3>1, <1>2, <1>3
    <3>2. CASE ~(d = c /\ t = s)
      <4>1. F2[d][t] = F[d][t] /\ F[d][t] \in Fds /\ F[d][t] # n
        BY <3>2, <1>3, <1>5
      <4>2. QED
        BY <4>1, <1>2 DEF Owned
    <3>3. QED
      BY <3>1, <3>2
  <2>2. \A d, e \in Conns, t, u \in Sides :
           F2[d][t] # NoFd /\ F2[d][t] = F2[e][u] => d = e /\ t = u
    BY <1>3, <1>5 DEF Owned
  <2>3. \A m \in Fds : T2[m] # NoFile => \E d \in Conns, t \in Sides : F2[d][t] = m
    <3> SUFFICES ASSUME NEW m \in Fds, T2[m] # NoFile, m # n
                 PROVE  \E d \in Conns, t \in Sides : F2[d][t] = m
      BY <1>3
    <3>1. PICK d \in Conns, t \in Sides : F[d][t] = m
      BY <1>2 DEF Owned
    <3>2. F2[d][t] = m
      BY <3>1, <1>3, <1>4
    <3>3. QED
      BY <3>2
  <2>4. QED
    BY <2>1, <2>2, <2>3 DEF Owned
<1>7. QED
  BY <1>2, <1>3, <1>6 DEF T2, F2

-----------------------------------------------------------------------------
(* accept and pipe: the new numbers were free.                              *)
LEMMA ObtainStep ==
    ASSUME IInv, "same" \notin Styles, NEW c \in Conns, Obtain(c)
    PROVE  IInv'
<1> USE DEF IInv
<1>1. /\ style \in [Conns -> Styles] /\ style' = style
      /\ table \in [Fds -> Files \cup {NoFile}]
      /\ fd \in [Conns -> [Sides -> Fds \cup {NoFd}]]
      /\ fd[c] = [s \in Sides |-> NoFd]
      /\ Owned(table, fd)
  BY OwnedMeans DEF Obtain, TypeOK, env
<1>2. /\ table' \in [Fds -> Files \cup {NoFile}]
      /\ fd' \in [Conns -> [Sides -> Fds \cup {NoFd}]]
      /\ Owned(table', fd')
      /\ fd'[c]["write"] # NoFd
      /\ style[c] = "pair" => fd'[c]["read"] # NoFd
      /\ \A d \in Conns : d # c => fd'[d] = fd[d]
  <2>1. CASE style[c] = "pair"
    <3>0. PICK r \in Lowest(Free) : \E w \in Lowest(Free \ {r}) :
             /\ table' = [table EXCEPT ![r] = <<c, "read">>, ![w] = <<c, "write">>]
             /\ fd' = [fd EXCEPT ![c] = [write |-> w, read |-> r]]
      BY <2>1 DEF Obtain
    <3>1. PICK w \in Lowest(Free \ {r}) :
             /\ table' = [table EXCEPT ![r] = <<c, "read">>, ![w] = <<c, "write">>]
             /\ fd' = [fd EXCEPT ![c] = [write |-> w, read |-> r]]
      BY <3>0
    <3>2. r \in Fds /\ w \in Fds /\ r # w /\ table[r] = NoFile /\ table[w] = NoFile
      BY DEF Lowest, Free
    <3>3. r # NoFd /\ w # NoFd
      BY <3>2, Given DEF NoFd
    <3> DEFINE T1 == [table EXCEPT ![r] = File(c, style[c], "read")]
               F1 == [fd EXCEPT ![c]["read"] = r]
               T2 == [T1 EXCEPT ![w] = File(c, style[c], "write")]
               F2 == [F1 EXCEPT ![c]["write"] = w]
    <3>4. /\ T1 \in [Fds -> Files \cup {NoFile}]
          /\ F1 \in [Conns -> [Sides -> Fds \cup {NoFd}]]
          /\ Owned(T1, F1)
      <4>1. "read" \in Sides /\ fd[c]["read"] = NoFd
        BY <1>1 DEF Sides
      <4>2. QED
        BY <4>1, <1>1, <3>2, GainKeeps
    <3>5. T1[w] = NoFile /\ F1[c]["write"] = NoFd /\ "write" \in Sides
      BY <1>1, <3>2 DEF Sides
    <3>6. table' = T2
      BY <3>1, <3>2, <2>1, <1>1 DEF File
    <3>7. fd' = F2
      <4>1. [write |-> w, read |-> r] = [[fd[c] EXCEPT !["read"] = r] EXCEPT !["write"] = w]
        BY <1>1 DEF Sides
      <4>2. QED
        BY <4>1, <3>1, <1>1
    <3> HIDE DEF T1, F1
    <3>8. /\ T2 \in [Fds -> Files \cup {NoFile}]
          /\ F2 \in [Conns -> [Sides -> Fds \cup {NoFd}]]
          /\ Owned(T2, F2)
      BY <1>1, <3>2, <3>4, <3>5, GainKeeps
    <3>9. /\ fd'[c]["write"] = w /\ fd'[c]["read"] = r
          /\ \A d \in Conns : d # c => fd'[d] = fd[d]
      BY <3>1, <1>1
    <3>10. QED
      BY <3>3, <3>6, <3>7, <3>8, <3>9
  <2>2. CASE style[c] # "pair"
    <3>1. PICK n \in Lowest(Free) :
             /\ table' = [table EXCEPT ![n] = <<c, "socket">>]
             /\ fd' = [fd EXCEPT ![c] =
                   [write |-> n, read |-> IF style[c] = "same" THEN n ELSE NoFd]]
      BY <2>2 DEF Obtain
    <3>2. n \in Fds /\ table[n] = NoFile /\ style[c] # "same"
      BY <1>1 DEF Lowest, Free
    <3>3. n # NoFd
      BY <3>2, Given DEF NoFd
    <3>4. "write" \in Sides /\ fd[c]["write"] = NoFd
      BY <1>1 DEF Sides
    <3>5. table' = [table EXCEPT ![n] = File(c, style[c], "write")]
      BY <3>1, <2>2 DEF File
    <3>6. fd' = [fd EXCEPT ![c]["write"] = n]
      <4>1. [write |-> n, read |-> NoFd] = [fd[c] EXCEPT !["write"] = n]
        BY <1>1 DEF Sides
      <4>2. QED
        BY <4>1, <3>1, <3>2, <1>1
    <3>7. fd'[c]["write"] = n /\ \A d \in Conns : d # c => fd'[d] = fd[d]
      BY <3>1, <1>1
    <3>8. QED
      BY <1>1, <2>2, <3>2, <3>3, <3>4, <3>5, <3>6, <3>7, GainKeeps
  <2>3. QED
    BY <2>1, <2>2
<1>3. /\ pc' = [pc EXCEPT ![c] = "offered"] /\ pc \in [Conns -> Labels]
      /\ pc[c] = "pending"
      /\ UNCHANGED <<nonblock, full, gone, style>>
  BY DEF Obtain, Goto, TypeOK, env
<1>4. TypeOK'
  <2>1. \A d \in Conns :
          /\ pc'[d] \in {"pending", "deleted"} => fd'[d] = [s \in Sides |-> NoFd]
          /\ pc'[d] = "read_closed" => fd'[d].read = NoFd
          /\ pc'[d] \in {"offered", "setup"} => fd'[d].write # NoFd
          /\ pc'[d] = "setup" => fd'[d].read # NoFd
    BY <1>2, <1>3 DEF TypeOK
  <2>2. QED
    BY <2>1, <1>2, <1>3 DEF TypeOK, Labels
<1>5. OfferedWhole' /\ ReadSide'
  BY <1>2, <1>3 DEF OfferedWhole, ReadSide
<1>6. QED
  BY <1>1, <1>2, <1>4, <1>5, OwnedMeans

(* dup: the new number was free, and is of the socket already owned.        *)
LEMMA DupStep ==
    ASSUME IInv, "same" \notin Styles, NEW c \in Conns, DupRead(c)
    PROVE  IInv'
<1> USE DEF IInv
<1>1. /\ style \in [Conns -> Styles] /\ style' = style
      /\ table \in [Fds -> Files \cup {NoFile}]
      /\ fd \in [Conns -> [Sides -> Fds \cup {NoFd}]]
      /\ Owned(table, fd) /\ "read" \in Sides /\ "write" \in Sides
      /\ pc \in [Conns -> Labels] /\ pc[c] = "offered" /\ fd[c]["write"] # NoFd
      /\ UNCHANGED <<nonblock, full, gone, style>>
  BY OwnedMeans DEF DupRead, TypeOK, env, Sides
<1>2. CASE fd[c].read # NoFd \/ Free = {}
  <2>0. Free = {} => Lowest(Free) = {}
    BY DEF Lowest
  <2>1. /\ UNCHANGED <<table, fd>>
        /\ \/ pc' = [pc EXCEPT ![c] = "deleting"]
           \/ fd[c].read # NoFd /\ pc' = [pc EXCEPT ![c] = "setup"]
    BY <1>2, <2>0 DEF DupRead, Goto
  <2>2. TypeOK'
    BY <1>1, <2>1 DEF TypeOK, Labels
  <2>3. OfferedWhole' /\ ReadSide'
    BY <1>1, <2>1 DEF OfferedWhole, ReadSide
  <2>4. QED
    BY <1>1, <2>1, <2>2, <2>3, OwnedMeans
<1>3. CASE fd[c].read = NoFd /\ Free # {}
  <2>1. PICK n \in Lowest(Free) :
           /\ table' = [table EXCEPT ![n] = table[fd[c].write]]
           /\ fd' = [fd EXCEPT ![c]["read"] = n]
           /\ pc' = [pc EXCEPT ![c] = "setup"]
    BY <1>3 DEF DupRead, Goto
  <2>2. n \in Fds /\ table[n] = NoFile /\ n # NoFd
    BY Given DEF Lowest, Free, NoFd
  <2>3. style[c] # "pair"
    BY <1>1, <1>3 DEF OfferedWhole
  <2>4. table[fd[c].write] = File(c, style[c], "read")
    BY <1>1, <2>3 DEF Owned, File
  <2>5. /\ table' \in [Fds -> Files \cup {NoFile}]
        /\ fd' \in [Conns -> [Sides -> Fds \cup {NoFd}]]
        /\ Owned(table', fd')
    <3>1. /\ fd[c]["read"] = NoFd
          /\ table' = [table EXCEPT ![n] = File(c, style[c], "read")]
          /\ fd' = [fd EXCEPT ![c]["read"] = n]
      BY <1>3, <2>1, <2>4
    <3>2. QED
      BY <1>1, <2>2, <3>1, GainKeeps
  <2>6. /\ fd'[c].read # NoFd /\ fd'[c].write # NoFd
        /\ \A d \in Conns : d # c => fd'[d] = fd[d]
    BY <1>1, <2>1, <2>2
  <2>7. TypeOK'
    <3>1. \A d \in Conns :
            /\ pc'[d] \in {"pending", "deleted"} => fd'[d] = [s \in Sides |-> NoFd]
            /\ pc'[d] = "read_closed" => fd'[d].read = NoFd
            /\ pc'[d] \in {"offered", "setup"} => fd'[d].write # NoFd
            /\ pc'[d] = "setup" => fd'[d].read # NoFd
      BY <1>1, <2>1, <2>6 DEF TypeOK
    <3>2. QED
      BY <3>1, <1>1, <2>1, <2>5 DEF TypeOK, Labels
  <2>8. OfferedWhole' /\ ReadSide'
    BY <1>1, <2>1, <2>6 DEF OfferedWhole, ReadSide
  <2>9. QED
    BY <1>1, <2>5, <2>7, <2>8, OwnedMeans
<1>4. QED
  BY <1>2, <1>3

(* setup_fds runs on two descriptors of the connection, and changes no      *)
(* other connection's file.                                                 *)
LEMMA SetupStep ==
    ASSUME IInv, NEW c \in Conns, SetupFds(c)
    PROVE  IInv'
<1> USE DEF IInv
<1> DEFINE w == table[fd[c].write]
           r == table[fd[c].read]
<1>1. /\ w = File(c, style[c], "write") /\ r = File(c, style[c], "read")
      /\ "read" \in Sides /\ "write" \in Sides
  BY DEF SetupFds, TypeOK, OwnsDescriptors, OwnFile, Sides
<1>2. /\ nonblock' = [f \in Files |-> (f = r /\ w # NoFile) \/ (f # w /\ nonblock[f])]
      /\ \E label \in {"deleting", "live"} : pc' = [pc EXCEPT ![c] = label]
      /\ pc[c] = "setup"
      /\ UNCHANGED <<table, fd, full, gone, style>>
  BY DEF SetupFds, Goto, env
<1>3. w # NoFile
  BY <1>1, Given DEF File
<1>4. TypeOK'
  BY <1>2 DEF TypeOK, Labels
<1>5. OfferedWhole' /\ OwnsDescriptors'
  BY <1>2 DEF OfferedWhole, OwnsDescriptors, OwnFile, SoleName, NoneForgotten, TypeOK, Labels
<1>6. ReadSide'
  <2> SUFFICES ASSUME NEW d \in Conns, pc'[d] = "live"
               PROVE  nonblock'[File(d, style[d], "read")]
    BY <1>2 DEF ReadSide
  <2>1. File(d, style[d], "read") \in Files
    BY DEF File, Files
  <2>2. CASE d = c
    BY <2>1, <2>2, <1>1, <1>2, <1>3
  <2>3. CASE d # c
    <3>1. pc[d] = "live" /\ nonblock[File(d, style[d], "read")]
      BY <2>3, <1>2 DEF ReadSide, TypeOK
    <3>2. File(d, style[d], "read") # w
      BY <2>3, <1>1 DEF File
    <3>3. QED
      BY <2>1, <3>1, <3>2, <1>2
  <2>4. QED
    BY <2>2, <2>3
<1>7. QED
  BY <1>4, <1>5, <1>6

(* A channel that closes one of its sides.                                  *)
LEMMA DropStep ==
    ASSUME IInv, NEW c \in Conns, NEW s \in Sides, Drop(c, s),
           UNCHANGED <<nonblock, full, gone, style>>,
           \/ pc[c] = "live" /\ UNCHANGED pc
           \/ /\ s = "read" /\ pc[c] \in {"live", "deleting"}
              /\ pc' = [pc EXCEPT ![c] = "read_closed"]
           \/ /\ s = "write" /\ pc[c] = "read_closed"
              /\ pc' = [pc EXCEPT ![c] = "deleted"]
    PROVE  IInv'
<1> USE DEF IInv
<1>1. /\ OwnsDescriptors'
      /\ table' \in [Fds -> Files \cup {NoFile}]
      /\ fd' \in [Conns -> [Sides -> Fds \cup {NoFd}]]
      /\ fd'[c][s] = NoFd
      /\ \A d \in Conns, t \in Sides : <<d, t>> # <<c, s>> => fd'[d][t] = fd[d][t]
      /\ \A d \in Conns : d # c => fd'[d] = fd[d]
  BY DropKeeps
<1>2. pc' \in [Conns -> Labels] /\ \A d \in Conns : d # c => pc'[d] = pc[d]
  BY DEF TypeOK, Labels
<1>3. pc'[c] = "deleted" => fd'[c] = [t \in Sides |-> NoFd]
  <2> SUFFICES ASSUME pc'[c] = "deleted"
               PROVE  fd'[c] = [t \in Sides |-> NoFd]
    OBVIOUS
  <2>1. s = "write" /\ pc[c] = "read_closed" /\ fd[c]["read"] = NoFd
    BY DEF TypeOK
  <2>2. fd'[c]["read"] = NoFd /\ fd'[c]["write"] = NoFd
    BY <1>1, <2>1 DEF Sides
  <2>3. QED
    BY <1>1, <2>2 DEF Sides
<1>4. \A d \in Conns :
        /\ pc'[d] \in {"pending", "deleted"} => fd'[d] = [t \in Sides |-> NoFd]
        /\ pc'[d] = "read_closed" => fd'[d]["read"] = NoFd
        /\ pc'[d] \in {"offered", "setup"} => fd'[d]["write"] # NoFd
        /\ pc'[d] = "setup" => fd'[d]["read"] # NoFd
  <2>1. ASSUME NEW d \in Conns, d # c
        PROVE  /\ pc'[d] \in {"pending", "deleted"} => fd'[d] = [t \in Sides |-> NoFd]
               /\ pc'[d] = "read_closed" => fd'[d]["read"] = NoFd
               /\ pc'[d] \in {"offered", "setup"} => fd'[d]["write"] # NoFd
               /\ pc'[d] = "setup" => fd'[d]["read"] # NoFd
    BY <2>1, <1>1, <1>2 DEF TypeOK
  <2>2. /\ pc'[c] \in {"live", "read_closed", "deleted"}
        /\ pc'[c] = "read_closed" => s = "read"
    BY DEF TypeOK
  <2>3. QED
    BY <2>1, <2>2, <1>1, <1>3
<1>5. TypeOK'
  BY <1>1, <1>2, <1>4 DEF TypeOK
<1>6. /\ \A d \in Conns : pc'[d] = "live" => pc[d] = "live"
      /\ pc'[c] # "offered"
  BY <1>2 DEF TypeOK
<1>7. OfferedWhole' /\ ReadSide'
  BY <1>1, <1>2, <1>6 DEF OfferedWhole, ReadSide
<1>8. QED
  BY <1>1, <1>5, <1>7

(* Nothing outside the program changes the table.                           *)
LEMMA OtherStep ==
    ASSUME IInv, UNCHANGED <<table, nonblock, style, fd>>,
           full' \in [Files -> BOOLEAN], gone' \in [Conns -> BOOLEAN],
           \/ UNCHANGED pc
           \/ \E c \in Conns : pc[c] = "offered" /\ pc' = [pc EXCEPT ![c] = "rejected"]
    PROVE  IInv'
<1>1. pc' \in [Conns -> Labels]
      /\ \A d \in Conns : pc'[d] = pc[d] \/ pc'[d] = "rejected"
  BY DEF IInv, TypeOK, Labels
<1>2. TypeOK'
  BY <1>1 DEF IInv, TypeOK
<1>3. OfferedWhole' /\ OwnsDescriptors' /\ ReadSide'
  BY <1>1 DEF IInv, OfferedWhole, OwnsDescriptors, OwnFile, SoleName, NoneForgotten, ReadSide
<1>4. QED
  BY <1>2, <1>3 DEF IInv

-----------------------------------------------------------------------------
(* Ownership is inductive, if no descriptor is given twice.                 *)
LEMMA NextInv ==
    ASSUME "same" \notin Styles, IInv, [Next]_vars
    PROVE  IInv'
<1> USE DEF IInv
<1>0. full \in [Files -> BOOLEAN] /\ gone \in [Conns -> BOOLEAN]
  BY DEF TypeOK
<1>1. ASSUME NEW c \in Conns, Obtain(c) PROVE IInv'
  BY <1>1, ObtainStep
<1>2. ASSUME NEW c \in Conns, Reject(c) PROVE IInv'
  BY <1>0, <1>2, OtherStep DEF Reject, Goto, env
<1>3. ASSUME NEW c \in Conns, DupRead(c) PROVE IInv'
  BY <1>3, DupStep
<1>4. ASSUME NEW c \in Conns, SetupFds(c) PROVE IInv'
  BY <1>4, SetupStep
<1>5. ASSUME NEW c \in Conns, Send(c) PROVE IInv'
  <2>1. CASE Drop(c, "write") /\ UNCHANGED full
    BY <1>5, <2>1, DropStep DEF Send, Sides
  <2>2. CASE ~(Drop(c, "write") /\ UNCHANGED full)
    BY <1>0, <1>5, <2>2, OtherStep DEF Send
  <2>3. QED
    BY <2>1, <2>2
<1>6. ASSUME NEW c \in Conns, Refresh(c) PROVE IInv'
  BY <1>6, DropStep DEF Refresh, Sides, env
<1>7. ASSUME NEW c \in Conns, DeleteRead(c) PROVE IInv'
  BY <1>7, DropStep DEF DeleteRead, Goto, Sides, env
<1>8. ASSUME NEW c \in Conns, DeleteWrite(c) PROVE IInv'
  BY <1>8, DropStep DEF DeleteWrite, Goto, Sides, env
<1>9. ASSUME NEW c \in Conns, PeerCloses(c) PROVE IInv'
  BY <1>0, <1>9, OtherStep DEF PeerCloses
<1>10. ASSUME NEW f \in Files, PeerReads(f) PROVE IInv'
  BY <1>0, <1>10, OtherStep DEF PeerReads
<1>11. CASE UNCHANGED vars
  BY <1>0, <1>11, OtherStep DEF vars
<1>12. QED
  BY <1>1, <1>2, <1>3, <1>4, <1>5, <1>6, <1>7, <1>8, <1>9, <1>10, <1>11 DEF Next

-----------------------------------------------------------------------------
(* Types of the descriptor table and of the fields that point into it       *)
(* (channel_fd.c:53-120).                                                   *)
THEOREM TypeCorrect == ASSUME "same" \notin Styles PROVE Spec => []TypeOK
<1>1. Init => IInv
  BY InitInv
<1>2. IInv /\ [Next]_vars => IInv'
  BY NextInv
<1>3. IInv => TypeOK
  BY DEF IInv
<1>4. QED
  BY <1>1, <1>2, <1>3, PTL DEF Spec

(* A channel given a socket with read_fd = -1, or two descriptors of its    *)
(* own, owns its descriptors alone, whatever the other threads of the       *)
(* program open, duplicate and close meanwhile (channel_fd.h:31-35,         *)
(* channel_fd.c:78-120, 156-158, 315-328).                                  *)
THEOREM SoleOwnership == ASSUME "same" \notin Styles PROVE Spec => []OwnsDescriptors
<1>1. Init => IInv
  BY InitInv
<1>2. IInv /\ [Next]_vars => IInv'
  BY NextInv
<1>3. IInv => OwnsDescriptors
  BY DEF IInv
<1>4. QED
  BY <1>1, <1>2, <1>3, PTL DEF Spec

(* No refresh waits for bytes with the mutex taken (channel_fd.c:44-48).    *)
THEOREM NoBlockingRefresh == ASSUME "same" \notin Styles PROVE Spec => []RefreshNeverBlocks
<1>1. Init => IInv
  BY InitInv
<1>2. IInv /\ [Next]_vars => IInv'
  BY NextInv
<1>3. IInv => RefreshNeverBlocks
  BY DEF IInv, RefreshNeverBlocks, ReadSide, OwnsDescriptors, OwnFile, Sides
<1>4. QED
  BY <1>1, <1>2, <1>3, PTL DEF Spec
=============================================================================
